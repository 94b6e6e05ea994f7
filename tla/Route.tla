------------------------------- MODULE Route -------------------------------
(* The page of the web frontend that is mounted: one of src/app/.../page.tsx. *)
VARIABLE page

JobPages == {"overview", "jobs"}

CreatePageNames == {"new", "convert"}
=============================================================================

----------------------------- MODULE MCFrontend -----------------------------
(* Small instances of Frontend for TLC. *)
EXTENDS Frontend, TLC

CONSTANTS s1, s2

\* Two previews may overtake each other on app/jobs/new, one at a time is out on
\* app/convert.
PreviewSlots == [new |-> {1, 2}, convert |-> {1}]

DetectedForms == {[schedule |-> s1, auto |-> TRUE, next |-> ""],
                  [schedule |-> s2, auto |-> FALSE, next |-> "typed"]}

Symmetry == Permutations(Jobs) \cup Permutations(Loads)
=============================================================================

---------------------------- MODULE LiveOverlay ----------------------------
(***************************************************************************)
(* The parts of the live overlay side by side: the session of variants     *)
(* (LiveSession), the edits of texts (LiveEdits), the tabs that compete    *)
(* for an agent's target (LiveAgentTarget), the steer chat (LiveSteer) and *)
(* the detector (LiveDetect).  They share the state of the overlay, as     *)
(* whose guards each part holds what it needs of the others; so a behavior *)
(* is one of a part, and the rest of the overlay is still.                 *)
(***************************************************************************)
EXTENDS LiveSession, LiveEdits, LiveAgentTarget, LiveSteer, LiveDetect

VARIABLE part

Parts == {"session", "edits", "target", "steer", "detect"}

liveVars == <<part, vars, editVars, targetVars, steerVars, detectVars>>

\* A part that is still stands at its beginning; the page and the site are arbitrary then.
NoSite == [root |-> <<>>, served |-> {}, roots |-> {}, listed |-> FALSE, file |-> <<>>,
           directory |-> FALSE]

LiveInit ==
    /\ part \in Parts
    /\ Init
    /\ part # "session" => framework
    /\ EditsInit
    /\ TargetInit
    /\ SteerInit
    /\ \/ part = "detect" /\ DetectInit
       \/ part # "detect" /\ DetectorOff /\ site = NoSite /\ waivers = NoWaivers

LiveNext ==
    /\ UNCHANGED part
    /\ \/ /\ part = "session"
          /\ Next
          /\ UNCHANGED <<editVars, targetVars, steerVars, detectVars>>
       \/ /\ part = "edits"
          /\ EditsNext
          /\ UNCHANGED <<vars, targetVars, steerVars, detectVars>>
       \/ /\ part = "target"
          /\ TargetNext
          /\ UNCHANGED <<vars, editVars, steerVars, detectVars>>
       \/ /\ part = "steer"
          /\ SteerNext
          /\ UNCHANGED <<vars, editVars, targetVars, detectVars>>
       \/ /\ part = "detect"
          /\ DetectNext
          /\ UNCHANGED <<vars, editVars, targetVars, steerVars>>

LiveSpec == LiveInit /\ [][LiveNext]_liveVars
=============================================================================

---------------------------- MODULE FrameMailbox ----------------------------
(***************************************************************************)
(* What the NPU detector promises its producer: a mailbox of one place     *)
(* that holds the newest frame.  Frames are numbered as they are fed.      *)
(***************************************************************************)
EXTENDS Integers

VARIABLES
    fed,    \* the newest frame fed
    taken,  \* the newest frame taken for inference
    shown   \* the frame the published boxes were found in

vars == <<fed, taken, shown>>

Init == fed = 0 /\ taken = 0 /\ shown = 0

Feed == fed' = fed + 1 /\ UNCHANGED <<taken, shown>>

\* The newest frame is taken, once; older ones that were not are lost.
Take == taken < fed /\ taken' = fed /\ UNCHANGED <<fed, shown>>

\* An inference has succeeded: boxes never go back to an older frame.
Show == shown < taken /\ shown' = taken /\ UNCHANGED <<fed, taken>>

Next == Feed \/ Take \/ Show

Spec == Init /\ [][Next]_vars
=============================================================================

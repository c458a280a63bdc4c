--------------------------- MODULE NpuDetectProofs ---------------------------
(***************************************************************************)
(* Proofs about NpuDetect: IInv is inductive, the safety properties follow, *)
(* and the detector implements FrameMailbox.                               *)
(***************************************************************************)
EXTENDS NpuDetect, TLAPS

\* Before detect_init nothing is fed, locked or held.
LEMMA InitInv == Init => IInv
<1> SUFFICES ASSUME Init PROVE IInv
  OBVIOUS
<1>1. run \in BOOLEAN /\ ready \in BOOLEAN /\ ~ready
  BY DEF Init
<1>2. 0 \in Numbers
  BY MaxFramesOK DEF Numbers
<1> QED BY <1>1, <1>2 DEF Init, IInv, TypeOK, LockInv, OrderInv, WholeFrames, NoLostWakeup,
           Frames

\* One step per action; the lock keeps the two copies apart.
LEMMA StepInv == IInv /\ [Next]_vars => IInv'
<1> SUFFICES ASSUME IInv, [Next]_vars PROVE IInv'
  OBVIOUS
<1> USE MaxFramesOK DEF IInv, TypeOK, LockInv, OrderInv, WholeFrames, NoLostWakeup,
        Numbers, Frames, mailbox
<1>1. CASE Start
  <2>1. run' \in BOOLEAN
    BY <1>1, Zenon DEF Start
  <2> QED BY <1>1, <2>1 DEF Start
<1>2. CASE Feed
  BY <1>2 DEF Feed
<1>3. CASE CopyY
  BY <1>3 DEF CopyY, LockFree
<1>4. CASE CopyUV
  BY <1>4 DEF CopyUV
<1>5. CASE Publish
  <2>1. ready' \in BOOLEAN
    BY <1>5, Zenon DEF Publish
  <2> QED BY <1>5, <2>1 DEF Publish, Signalled
<1>6. CASE Lock
  BY <1>6 DEF Lock, LockFree
<1>7. CASE WakeUp
  BY <1>7 DEF WakeUp
<1>8. CASE Wait
  BY <1>8 DEF Wait
<1>9. CASE Take
  <2>1. ready' \in BOOLEAN /\ ~ready'
    BY <1>9, Zenon DEF Take, ReadyReset
  <2>2. rgb' \in Frames /\ rgb'.y = frame.y /\ rgb'.size = frame.size
    BY <1>9 DEF Take
  <2>3. rgb.size < frame.size /\ frame.y = frame.size /\ lock = "thread"
    BY <1>9 DEF Take
  <2>4. thread' = "read" /\ UNCHANGED <<run, lock, frame, feeder, outputs, boxes>>
    BY <1>9 DEF Take
  <2> QED BY <1>9, <2>1, <2>2, <2>3, <2>4
<1>10. CASE Letterbox
  BY <1>10 DEF Letterbox
<1>11. CASE Infer
  BY <1>11 DEF Infer
<1>12. CASE InferFails
  BY <1>12 DEF InferFails, ReleaseOutputs, BoxesStay
<1>13. CASE Store
  BY <1>13 DEF Store
<1>14. CASE Release
  BY <1>14 DEF Release, ReleaseOutputs
<1>15. CASE UNCHANGED vars
  BY <1>15 DEF vars
<1> QED BY <1>1, <1>2, <1>3, <1>4, <1>5, <1>6, <1>7, <1>8, <1>9, <1>10, <1>11, <1>12, <1>13,
          <1>14, <1>15 DEF Next, FeederRuns, ThreadRuns

\* IInv holds in every reachable state, and TypeOK with it.
THEOREM Invariance == Spec => []IInv
<1>1. Init => IInv
  BY InitInv
<1>2. IInv /\ [Next]_vars => IInv'
  BY StepInv
<1> QED BY <1>1, <1>2, PTL DEF Spec

\* The inference thread never works on a frame torn by the feeder's copy.
THEOREM FramesWhole == Spec => []WholeFrames
<1>1. IInv => WholeFrames
  BY DEF IInv
<1> QED BY <1>1, Invariance, PTL

\* The thread never sleeps on a frame that is ready.
THEOREM WakeupKept == Spec => []NoLostWakeup
<1>1. IInv => NoLostWakeup
  BY DEF IInv
<1> QED BY <1>1, Invariance, PTL

-----------------------------------------------------------------------------
\* Publish feeds the mailbox, Take takes from it, Store shows; the rest stutters.
LEMMA StepMailbox == IInv /\ [Next]_vars => [Mailbox!Next]_(Mailbox!vars)
<1> SUFFICES ASSUME IInv, [Next]_vars PROVE [Mailbox!Next]_(Mailbox!vars)
  OBVIOUS
<1> USE DEF Mailbox!vars, Mailbox!Next
<1>1. CASE Publish
  <2>1. Mailbox!Feed
    BY <1>1 DEF Publish, Mailbox!Feed, IInv, TypeOK, Frames, Numbers
  <2> QED BY <2>1
<1>2. CASE Take
  <2>1. /\ rgb.size < frame.size /\ rgb'.size = frame.size
        /\ UNCHANGED <<frame, boxes>>
    BY <1>2 DEF Take, IInv, OrderInv, TypeOK, Frames
  <2> QED BY <2>1 DEF Mailbox!Take
<1>3. CASE Store
  <2>1. boxes < rgb.size /\ boxes' = rgb.size /\ UNCHANGED <<frame, rgb>>
    BY <1>3 DEF Store, mailbox, IInv, OrderInv
  <2> QED BY <2>1 DEF Mailbox!Show
<1>4. CASE ~Publish /\ ~Take /\ ~Store
  <2>1. frame'.size = frame.size /\ rgb'.size = rgb.size /\ boxes' = boxes
    BY <1>4 DEF Next, FeederRuns, ThreadRuns, Start, Feed, CopyY, CopyUV, Lock, Wait, WakeUp,
       Letterbox, Infer, InferFails, BoxesStay, Release, vars, mailbox, IInv, TypeOK, Frames
  <2> QED BY <2>1
<1> QED BY <1>1, <1>2, <1>3, <1>4

\* The detector hands every newest frame on at most once, and its boxes never
\* go back to an older frame.
THEOREM DetectorIsMailbox == Spec => IsMailbox
<1>1. Init => Mailbox!Init
  BY DEF Init, Mailbox!Init
<1>2. IInv /\ [Next]_vars => [Mailbox!Next]_(Mailbox!vars)
  BY StepMailbox
<1> QED BY <1>1, <1>2, Invariance, PTL DEF Spec, IsMailbox, Mailbox!Spec
=============================================================================

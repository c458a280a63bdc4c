------------------------------ MODULE NpuDetect ------------------------------
(***************************************************************************)
(* The person detector of rtsp_server/npu/detect.c: a mailbox of one frame *)
(* between the producer's streaming thread (detect_feed) and               *)
(* the inference thread (detect_thread), and its use of the NPU's SDK.     *)
(*                                                                         *)
(* Frames are numbered as they are fed; a frame is copied in two halves,   *)
(* its Y and its UV plane, and then its dimensions.  No program calls      *)
(* detect_deinit: once set, g_run stays set.                               *)
(***************************************************************************)
EXTENDS Integers

CONSTANT MaxFrames  \* bound: frames fed

ASSUME MaxFramesOK == MaxFrames \in Nat

Numbers == 0 .. MaxFrames
Frames == [y : Numbers, uv : Numbers, size : Numbers]

VARIABLES
    run,        \* g_run: detect_init has succeeded
    lock,       \* g_feed_lock: "feeder", "thread" or "free"
    frame,      \* g_frame, g_frame_w and so on: the frame in each part of it
    ready,      \* g_frame_ready
    feeder,     \* where detect_feed is
    thread,     \* where detect_thread is
    rgb,        \* the frame in each part of the letterboxed copy
    outputs,    \* outputs[].buf: "null", "got" from the SDK, "released", or "twice"
    boxes       \* g_boxes: the frame they were found in; 0: none yet

mailbox == <<lock, frame, ready>>
vars == <<run, mailbox, feeder, thread, rgb, outputs, boxes>>

\* The shape of the state.
TypeOK ==
    /\ run \in BOOLEAN
    /\ lock \in {"feeder", "thread", "free"}
    /\ frame \in Frames /\ rgb \in Frames
    /\ ready \in BOOLEAN
    /\ feeder \in {"idle", "enter", "uv", "publish"}
    /\ thread \in {"none", "lock", "test", "wait", "read", "infer", "store", "release"}
    /\ outputs \in {"null", "got", "released", "twice"}
    /\ boxes \in Numbers

Init ==
    /\ run = FALSE
    /\ lock = "free"
    /\ frame = [y |-> 0, uv |-> 0, size |-> 0]
    /\ rgb = [y |-> 0, uv |-> 0, size |-> 0]
    /\ ready = FALSE
    /\ feeder = "idle" /\ thread = "none"
    /\ outputs = "null"
    /\ boxes = 0

-----------------------------------------------------------------------------
(* detect_init, called by main while frames already arrive.  When it fails *)
(* (no model on the board) nothing changes, and feeding goes on returning. *)

Start ==
    /\ ~run /\ run' = TRUE
    /\ thread' = "lock"
    /\ UNCHANGED <<mailbox, feeder, rgb, outputs, boxes>>

-----------------------------------------------------------------------------
(* The streaming thread: on_new_sample calls detect_feed for every third   *)
(* frame, and then detect_get, which only reads the boxes.                 *)

LockFreeIgnored == TRUE
LockFree == lock = "free"

\* detect_feed is called; without a detector it returns at once (no step).
Feed ==
    /\ run /\ feeder = "idle" /\ frame.size < MaxFrames
    /\ feeder' = "enter"
    /\ UNCHANGED <<run, mailbox, thread, rgb, outputs, boxes>>

CopyY ==
    /\ feeder = "enter" /\ LockFree
    /\ lock' = "feeder"
    /\ frame' = [frame EXCEPT !.y = frame.size + 1]
    /\ feeder' = "uv"
    /\ UNCHANGED <<run, ready, thread, rgb, outputs, boxes>>

CopyUV ==
    /\ feeder = "uv"
    /\ frame' = [frame EXCEPT !.uv = frame.size + 1]
    /\ feeder' = "publish"
    /\ UNCHANGED <<run, lock, ready, thread, rgb, outputs, boxes>>

\* pthread_cond_signal wakes a thread that waits.
NotSignalled == thread
Signalled == IF thread = "wait" THEN "lock" ELSE thread

Publish ==
    /\ feeder = "publish"
    /\ frame' = [frame EXCEPT !.size = frame.size + 1]
    /\ ready' = TRUE
    /\ thread' = Signalled
    /\ lock' = "free"
    /\ feeder' = "idle"
    /\ UNCHANGED <<run, rgb, outputs, boxes>>

-----------------------------------------------------------------------------
(* detect_thread.                                                          *)

Lock ==
    /\ thread = "lock" /\ LockFree
    /\ lock' = "thread"
    /\ thread' = "test"
    /\ UNCHANGED <<run, frame, ready, feeder, rgb, outputs, boxes>>

\* pthread_cond_wait releases the lock; it may return without a signal.
Wait ==
    /\ thread = "test" /\ ~ready
    /\ lock' = "free"
    /\ thread' = "wait"
    /\ UNCHANGED <<run, frame, ready, feeder, rgb, outputs, boxes>>

WakeUp ==
    /\ thread = "wait"
    /\ thread' = "lock"
    /\ UNCHANGED <<run, mailbox, feeder, rgb, outputs, boxes>>

\* The frame is taken: the dimensions, the flag, then the letterbox, here its
\* Y part and its UV part, still under the lock.
ReadyReset == FALSE

Take ==
    /\ thread = "test" /\ ready
    /\ ready' = ReadyReset
    /\ rgb' = [rgb EXCEPT !.y = frame.y, !.size = frame.size]
    /\ thread' = "read"
    /\ UNCHANGED <<run, lock, frame, feeder, outputs, boxes>>

Letterbox ==
    /\ thread = "read"
    /\ rgb' = [rgb EXCEPT !.uv = frame.uv]
    /\ lock' = "free"
    /\ thread' = "infer"
    /\ UNCHANGED <<run, frame, ready, feeder, outputs, boxes>>

\* rknn_outputs_release; the structs keep the pointers, so that a turn that
\* fails after a good one releases what that one has released already.
ReleaseOutputs ==
    outputs' = CASE outputs = "null" -> "null"
                 [] outputs = "got" -> "released"
                 [] outputs \in {"released", "twice"} -> "twice"

\* rknn_inputs_set, rknn_run and rknn_outputs_get succeed, or one fails and
\* the outputs are released all the same.
Infer ==
    /\ thread = "infer"
    /\ outputs' = "got"
    /\ thread' = "store"
    /\ UNCHANGED <<run, mailbox, feeder, rgb, boxes>>

\* The boxes of the last good inference stay.
BoxesCleared == boxes' = 0
BoxesStay == boxes' = boxes

InferFails ==
    /\ thread = "infer"
    /\ ReleaseOutputs /\ BoxesStay
    /\ thread' = "lock"
    /\ UNCHANGED <<run, mailbox, feeder, rgb>>

\* post_process, and the boxes under g_res_lock.
Store ==
    /\ thread = "store"
    /\ boxes' = rgb.size
    /\ thread' = "release"
    /\ UNCHANGED <<run, mailbox, feeder, rgb, outputs>>

Release ==
    /\ thread = "release" /\ ReleaseOutputs
    /\ thread' = "lock"
    /\ UNCHANGED <<run, mailbox, feeder, rgb, boxes>>

-----------------------------------------------------------------------------
FeederRuns == CopyY \/ CopyUV \/ Publish

ThreadRuns == Wait \/ Take \/ Letterbox \/ Infer \/ InferFails \/ Store \/ Release

Next == Start \/ Feed \/ FeederRuns \/ Lock \/ WakeUp \/ ThreadRuns

Spec == Init /\ [][Next]_vars

\* Threads run; a waiter for the lock gets it if it is free again and again.
FairSpec ==
    /\ Spec
    /\ WF_vars(FeederRuns) /\ SF_vars(CopyY) /\ WF_vars(ThreadRuns) /\ SF_vars(Lock)

-----------------------------------------------------------------------------
(* Properties.                                                             *)

\* What is inferred is one frame: the feeder's copy never tears it
\* (detect.c:91).
WholeFrames ==
    thread \in {"infer", "store", "release"} => rgb.y = rgb.size /\ rgb.uv = rgb.size

\* A frame and the thread do not wait for each other: while a frame is ready
\* the thread does not sleep on the condition.
NoLostWakeup == ready => thread # "wait"

\* A fed frame is taken, or replaced by a newer one that is.
FrameTaken == ready ~> ~ready

\* The detector is a mailbox of one place that holds the newest frame.
Mailbox == INSTANCE FrameMailbox WITH fed <- frame.size, taken <- rgb.size, shown <- boxes
IsMailbox == Mailbox!Spec

-----------------------------------------------------------------------------
(* The inductive invariant.                                                *)

\* Who holds the lock, and what it protects is whole when nobody does.
LockInv ==
    /\ ~run => thread = "none"
    /\ lock = "feeder" <=> feeder \in {"uv", "publish"}
    /\ lock = "thread" <=> thread \in {"test", "read"}
    /\ feeder \in {"idle", "enter"} => frame.y = frame.size /\ frame.uv = frame.size
    /\ feeder = "uv" => frame.y = frame.size + 1 /\ frame.uv = frame.size
    /\ feeder = "publish" => frame.y = frame.size + 1 /\ frame.uv = frame.size + 1

\* What was taken was fed, and shown after it was taken.
OrderInv ==
    /\ rgb.size <= frame.size /\ boxes <= rgb.size
    /\ ready => rgb.size < frame.size
    /\ thread = "read" => rgb.y = rgb.size /\ rgb.size = frame.size
    /\ thread \in {"read", "infer", "store"} => boxes < rgb.size
    /\ feeder # "idle" => frame.size < MaxFrames

IInv == TypeOK /\ LockInv /\ OrderInv /\ WholeFrames /\ NoLostWakeup
=============================================================================

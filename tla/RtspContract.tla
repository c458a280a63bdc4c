---------------------------- MODULE RtspContract ----------------------------
(***************************************************************************)
(* What the RTSP server promises of each connection, whatever its threads  *)
(* and locks do (rtsp_server.h: after PLAY, the NALs fed to the mount go   *)
(* to every session playing it).  A session is connected, bound to a mount *)
(* by SETUP and played by PLAY.  A mount begins to send to it only while   *)
(* it is bound to that mount and playing, one mount at a time, and it is   *)
(* never released while something is being sent to it.                     *)
(***************************************************************************)
CONSTANTS Sessions, Mounts, Nobody

VARIABLES
    phase,      \* per session: "ABSENT", "INIT", "READY", "PLAYING", "DEAD"
    bound,      \* per session: the mount of its last SETUP
    sending     \* per session: the mounts a NAL of which is on its way to it

cvars == <<phase, bound, sending>>

CInit ==
    /\ phase = [s \in Sessions |-> "ABSENT"]
    /\ bound = [s \in Sessions |-> Nobody]
    /\ sending = [s \in Sessions |-> {}]

Connect(s) ==
    /\ phase[s] = "ABSENT"
    /\ phase' = [phase EXCEPT ![s] = "INIT"]
    /\ UNCHANGED <<bound, sending>>

Bind(s) ==
    /\ phase[s] # "ABSENT"
    /\ \E m \in Mounts : bound' = [bound EXCEPT ![s] = m]
    /\ UNCHANGED <<phase, sending>>

\* SETUP and PLAY complete: only a bound session is ever ready or playing.
Enter(s, p) ==
    /\ phase[s] # "ABSENT" /\ bound[s] # Nobody
    /\ phase' = [phase EXCEPT ![s] = p]
    /\ UNCHANGED <<bound, sending>>

Begin(s, m) ==
    /\ phase[s] = "PLAYING" /\ bound[s] = m /\ sending[s] = {}
    /\ sending' = [sending EXCEPT ![s] = {m}]
    /\ UNCHANGED <<phase, bound>>

\* The NAL is out or given up; a broken connection is found out here.
End(s) ==
    /\ sending[s] # {}
    /\ sending' = [sending EXCEPT ![s] = {}]
    /\ phase' \in {phase, [phase EXCEPT ![s] = "DEAD"]}
    /\ UNCHANGED bound

Leave(s) ==
    /\ phase[s] # "ABSENT" /\ sending[s] = {}
    /\ phase' = [phase EXCEPT ![s] = "ABSENT"]
    /\ bound' = [bound EXCEPT ![s] = Nobody]
    /\ UNCHANGED sending

CNext ==
    \E s \in Sessions :
        \/ Connect(s) \/ Bind(s) \/ End(s) \/ Leave(s)
        \/ \E p \in {"READY", "PLAYING"} : Enter(s, p)
        \/ \E m \in Mounts : Begin(s, m)

CSpec == CInit /\ [][CNext]_cvars
=============================================================================

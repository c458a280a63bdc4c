-------------------------- MODULE RtspServerProofs --------------------------
(***************************************************************************)
(* Proofs about RtspServer for every value of its constants.  IInv is      *)
(* inductive: there is one lemma for each of its parts, with one step per  *)
(* action that touches the variables of the part, and each lemma assumes   *)
(* only the parts its proof needs.  The safety properties follow from      *)
(* IInv, and with FreshInv (what a struct not yet allocated looks like)    *)
(* every step is a step of RtspContract or leaves its variables alone.     *)
(***************************************************************************)
EXTENDS RtspServer, TLAPS

\* The frames: a step that leaves a group alone leaves its members alone.
USE DEF session, socket, accepter, client, feeder, ClientKeeps, FeedKeeps, PeerKeeps

-----------------------------------------------------------------------------
(* Every step preserves every part of IInv.                                *)

\* NoRequest is a request, so a client thread always has one in hand.
LEMMA NoRequestTyped == NoRequest \in Requests
BY DEF NoRequest, Requests, AllMethods

\* Every variable keeps its type.  The cursors of the other parts say that a
\* thread that dereferences acc or cur[m] has a session there.
LEMMA TypeOKPreserved ==
    ASSUME TypeOK, WalkInv, AcceptInv, RequestInv, [Next]_vars
    PROVE  TypeOK'
<1>1. CASE UNCHANGED vars
    BY <1>1 DEF TypeOK, vars
<1>2. CASE AcceptStep
  <2>1. ASSUME NEW s \in Sessions, Accept(s) PROVE TypeOK'
    BY <2>1 DEF TypeOK, Accept
  <2>2. CASE AcceptError
    BY <2>2 DEF TypeOK, AcceptError
  <2>3. CASE InsertSession
    BY <2>3 DEF TypeOK, AcceptInv, InsertSession
  <2>4. CASE Spawn
    BY <2>4 DEF TypeOK, Spawn
  <2>5. CASE UndoAccept
    BY <2>5, ConstantsOK DEF TypeOK, AcceptInv, UndoAccept, Unlinked, Release
  <2> QED BY <1>2, <2>1, <2>2, <2>3, <2>4, <2>5 DEF AcceptStep
<1>3. ASSUME NEW s \in Sessions, ClientStep(s) PROVE TypeOK'
  <2>1. CASE ReadRequest(s)
    <3>1. PICK method \in Methods, path \in Mounts \cup {Nobody} :
             /\ req' = [req EXCEPT ![s] =
                          [method |-> method, path |-> path,
                           ok |-> method = "PLAY" => state[s] \in {"READY", "PLAYING"}]]
             /\ cpc' = [cpc EXCEPT ![s] =
                          IF method \in {"DESCRIBE", "SETUP"} THEN "find" ELSE "lock"]
      BY <2>1 DEF ReadRequest
    <3>2. req' \in [Sessions -> Requests]
      BY <3>1, ConstantsOK DEF TypeOK, Requests
    <3> QED BY <2>1, <3>1, <3>2 DEF TypeOK, ReadRequest
  <2>2. CASE ReadError(s)
    BY <2>2 DEF TypeOK, ReadError
  <2>3. CASE ReadTimeout(s)
    BY <2>3 DEF TypeOK, ReadTimeout
  <2>4. CASE FindMount(s)
    <3>1. req' \in [Sessions -> Requests]
      BY <2>4 DEF TypeOK, FindMount, Requests
    <3>2. cpc' \in [Sessions -> {"none", "read", "find", "bind", "snapshot", "encode",
                                 "lock", "head", "body", "store", "remove", "close"}]
      BY <2>4 DEF TypeOK, FindMount
    <3> QED BY <2>4, <3>1, <3>2 DEF TypeOK, FindMount
  <2>5. CASE BindMount(s)
    BY <2>5 DEF TypeOK, RequestInv, BindMount
  <2>6. CASE SnapshotParams(s)
    BY <2>6 DEF TypeOK, RequestInv, SnapshotParams
  <2>7. CASE EncodeSdp(s)
    BY <2>7 DEF TypeOK, EncodeSdp
  <2>8. CASE LockReply(s)
    BY <2>8 DEF TypeOK, LockReply, StateKept
  <2>9. CASE WriteReplyHead(s)
    BY <2>9, ConstantsOK DEF TypeOK, WriteReplyHead, BeginUnit, Room, PutHead
  <2>10. CASE WriteReplyBody(s)
    BY <2>10, ConstantsOK, NoRequestTyped DEF TypeOK, WriteReplyBody, EndUnit, Room,
       Unlock, AfterReply
  <2>11. CASE ReplyFails(s)
    BY <2>11, NoRequestTyped DEF TypeOK, ReplyFails, GiveUpUnit, Unlock
  <2>12. CASE StoreState(s)
    BY <2>12, NoRequestTyped DEF TypeOK, StoreState, NewState
  <2>13. CASE RemoveSession(s)
    BY <2>13 DEF TypeOK, RemoveSession
  <2>14. CASE FreeSession(s)
    BY <2>14, ConstantsOK DEF TypeOK, FreeSession, Release
  <2> QED BY <1>3, <2>1, <2>2, <2>3, <2>4, <2>5, <2>6, <2>7, <2>8, <2>9, <2>10,
             <2>11, <2>12, <2>13, <2>14 DEF ClientStep, ClientRuns
<1>4. ASSUME NEW s \in Sessions, PeerStep(s) PROVE TypeOK'
  <2>1. CASE Drain(s)
    BY <2>1, ConstantsOK DEF TypeOK, Drain
  <2>2. ASSUME NEW how \in Hangups, HangUp(s, how) PROVE TypeOK'
    BY <2>2, ConstantsOK DEF TypeOK, HangUp
  <2> QED BY <1>4, <2>1, <2>2 DEF PeerStep
<1>5. ASSUME NEW m \in Mounts, FeederStep(m) PROVE TypeOK'
  <2>1. CASE FeedNal(m)
    BY <2>1 DEF TypeOK, FeedNal, FirstParams
  <2>2. CASE LockServer(m)
    BY <2>2 DEF TypeOK, LockServer
  <2>3. CASE SkipSession(m)
    BY <2>3 DEF TypeOK, SkipSession
  <2>4. CASE PickSession(m)
    BY <2>4 DEF TypeOK, PickSession
  <2>5. CASE LockSend(m)
    BY <2>5 DEF TypeOK, WalkInv, LockSend
  <2>6. CASE WritePacketHead(m)
    BY <2>6, ConstantsOK DEF TypeOK, WalkInv, WritePacketHead, BeginUnit, Room,
       PutHead
  <2>7. CASE WritePacketBody(m)
    BY <2>7, ConstantsOK DEF TypeOK, WalkInv, WritePacketBody, EndUnit, Room
  <2>8. CASE WriteLastBody(m)
    BY <2>8, ConstantsOK DEF TypeOK, WalkInv, WriteLastBody, EndUnit, Room,
       LeaveSession, Unlock
  <2>9. CASE PacketFails(m)
    BY <2>9, ConstantsOK DEF TypeOK, WalkInv, AcceptInv, RequestInv, PacketFails,
       Room, GiveUpUnit, LeaveSession, Unlock
  <2>10. CASE UnlockServer(m)
    BY <2>10 DEF TypeOK, UnlockServer
  <2> QED BY <1>5, <2>1, <2>2, <2>3, <2>4, <2>5, <2>6, <2>7, <2>8, <2>9, <2>10
             DEF FeederStep, FeederRuns
<1> QED BY <1>1, <1>2, <1>3, <1>4, <1>5 DEF Next

\* Who is on the list and in memory: only the accept loop links a session,
\* only its own client thread (or the failure path of Spawn) unlinks and frees it.
LEMMA AcceptPreserved ==
    ASSUME AcceptInv, TypeOK, [Next]_vars
    PROVE  AcceptInv'
<1>1. CASE UNCHANGED <<apc, acc, cpc, mem, sessions>>
    BY <1>1 DEF AcceptInv
<1>2. CASE AcceptStep
  <2>1. ASSUME NEW s \in Sessions, Accept(s) PROVE AcceptInv'
    BY <2>1, ConstantsOK DEF AcceptInv, TypeOK, Accept
  <2>2. CASE AcceptError
    BY <2>2 DEF AcceptInv, AcceptError
  <2>3. CASE InsertSession
    BY <2>3 DEF AcceptInv, InsertSession
  <2>4. CASE Spawn
    BY <2>4, ConstantsOK DEF AcceptInv, TypeOK, Spawn
  <2>5. CASE UndoAccept
    BY <2>5, ConstantsOK DEF AcceptInv, TypeOK, UndoAccept, Unlinked, Release
  <2> QED BY <1>2, <2>1, <2>2, <2>3, <2>4, <2>5 DEF AcceptStep
<1>3. ASSUME NEW s \in Sessions, ClientStep(s) PROVE AcceptInv'
  <2>1. CASE ReadRequest(s)
    BY <2>1 DEF AcceptInv, ReadRequest
  <2>2. CASE ReadError(s)
    BY <2>2 DEF AcceptInv, ReadError
  <2>3. CASE ReadTimeout(s)
    BY <2>3 DEF AcceptInv, ReadTimeout
  <2>4. CASE FindMount(s)
    BY <2>4 DEF AcceptInv, FindMount
  <2>5. CASE BindMount(s)
    BY <2>5 DEF AcceptInv, BindMount
  <2>6. CASE SnapshotParams(s)
    BY <2>6 DEF AcceptInv, SnapshotParams
  <2>7. CASE EncodeSdp(s)
    BY <2>7 DEF AcceptInv, EncodeSdp
  <2>8. CASE LockReply(s)
    BY <2>8 DEF AcceptInv, LockReply
  <2>9. CASE WriteReplyHead(s)
    BY <2>9 DEF AcceptInv, WriteReplyHead
  <2>10. CASE WriteReplyBody(s)
    BY <2>10 DEF AcceptInv, WriteReplyBody, AfterReply
  <2>11. CASE ReplyFails(s)
    BY <2>11 DEF AcceptInv, ReplyFails
  <2>12. CASE StoreState(s)
    BY <2>12 DEF AcceptInv, StoreState
  <2>13. CASE RemoveSession(s)
    BY <2>13, ConstantsOK DEF AcceptInv, TypeOK, RemoveSession
  <2>14. CASE FreeSession(s)
    BY <2>14, ConstantsOK DEF AcceptInv, TypeOK, FreeSession, Release
  <2> QED BY <1>3, <2>1, <2>2, <2>3, <2>4, <2>5, <2>6, <2>7, <2>8, <2>9, <2>10,
             <2>11, <2>12, <2>13, <2>14 DEF ClientStep, ClientRuns
<1>4. ASSUME NEW s \in Sessions, PeerStep(s) PROVE AcceptInv'
    BY <1>1, <1>4 DEF PeerStep, Drain, HangUp
<1>5. ASSUME NEW m \in Mounts, FeederStep(m) PROVE AcceptInv'
    BY <1>1, <1>5 DEF FeederStep, FeederRuns, FeedNal, LockServer, SkipSession,
       PickSession, LockSend, WritePacketHead, WritePacketBody, WriteLastBody,
       PacketFails, UnlockServer, LeaveSession
<1>6. CASE UNCHANGED vars
    BY <1>1, <1>6 DEF vars
<1> QED BY <1>2, <1>3, <1>4, <1>5, <1>6 DEF Next

\* Walks: sessions are unlinked only with srv->lock free, so never under a
\* feeder that has its cursor on one.
LEMMA WalkPreserved ==
    ASSUME WalkInv, TypeOK, [Next]_vars
    PROVE  WalkInv'
<1>1. CASE UNCHANGED <<srvLock, sessions, fpc, cur, left>>
    BY <1>1 DEF WalkInv
<1>2. CASE AcceptStep
  <2>1. CASE InsertSession
    BY <2>1 DEF WalkInv, InsertSession
  <2>2. CASE UndoAccept
    BY <2>2, ConstantsOK DEF WalkInv, UndoAccept, ServerFree
  <2>3. CASE \/ (\E s \in Sessions : Accept(s)) \/ AcceptError \/ Spawn
    BY <1>1, <2>3 DEF Accept, AcceptError, Spawn
  <2> QED BY <1>2, <2>1, <2>2, <2>3 DEF AcceptStep
<1>3. ASSUME NEW s \in Sessions, ClientStep(s) PROVE WalkInv'
  <2>1. CASE RemoveSession(s)
    BY <2>1, ConstantsOK DEF WalkInv, RemoveSession, ServerFree
  <2>2. CASE \/ ReadRequest(s) \/ ReadError(s) \/ ReadTimeout(s) \/ FindMount(s)
            \/ BindMount(s) \/ SnapshotParams(s) \/ EncodeSdp(s) \/ LockReply(s)
            \/ WriteReplyHead(s) \/ WriteReplyBody(s) \/ ReplyFails(s)
            \/ StoreState(s) \/ FreeSession(s)
    BY <1>1, <2>2 DEF ReadRequest, ReadError, ReadTimeout, FindMount, BindMount,
       SnapshotParams, EncodeSdp, LockReply, WriteReplyHead, WriteReplyBody,
       ReplyFails, StoreState, FreeSession
  <2> QED BY <1>3, <2>1, <2>2 DEF ClientStep, ClientRuns
<1>4. ASSUME NEW s \in Sessions, PeerStep(s) PROVE WalkInv'
    BY <1>1, <1>4 DEF PeerStep, Drain, HangUp
<1>5. ASSUME NEW m \in Mounts, FeederStep(m) PROVE WalkInv'
  <2>1. CASE FeedNal(m)
    BY <2>1 DEF WalkInv, FeedNal
  <2>2. CASE LockServer(m)
    BY <2>2, ConstantsOK DEF WalkInv, TypeOK, LockServer, ServerFree
  <2>3. CASE PickSession(m)
    BY <2>3, ConstantsOK DEF WalkInv, TypeOK, PickSession
  <2>4. CASE LockSend(m)
    BY <2>4 DEF WalkInv, TypeOK, LockSend
  <2>5. CASE WritePacketHead(m)
    BY <2>5 DEF WalkInv, WritePacketHead
  <2>6. CASE WritePacketBody(m)
    BY <2>6 DEF WalkInv, TypeOK, WritePacketBody
  <2>7. CASE WriteLastBody(m)
    BY <2>7 DEF WalkInv, TypeOK, WriteLastBody, LeaveSession
  <2>8. CASE PacketFails(m)
    BY <2>8 DEF WalkInv, TypeOK, PacketFails, LeaveSession
  <2>9. CASE UnlockServer(m)
    BY <2>9, ConstantsOK DEF WalkInv, TypeOK, UnlockServer
  <2>10. CASE SkipSession(m)
    BY <1>1, <2>10 DEF SkipSession
  <2> QED BY <1>5, <2>1, <2>2, <2>3, <2>4, <2>5, <2>6, <2>7, <2>8, <2>9, <2>10
             DEF FeederStep, FeederRuns
<1>6. CASE UNCHANGED vars
    BY <1>1, <1>6 DEF vars
<1> QED BY <1>2, <1>3, <1>4, <1>5, <1>6 DEF Next

\* Send locks: each is held exactly while its holder writes.
LEMMA SendPreserved ==
    ASSUME SendInv, TypeOK, AcceptInv, WalkInv, [Next]_vars
    PROVE  SendInv'
<1>1. CASE UNCHANGED <<sendLock, cpc, unit, cur, fpc>>
    BY <1>1 DEF SendInv
<1>2. CASE AcceptStep
  <2>1. CASE Spawn
    BY <2>1 DEF SendInv, TypeOK, AcceptInv, Spawn
  <2>2. CASE UndoAccept
    BY <2>2 DEF SendInv, TypeOK, AcceptInv, WalkInv, UndoAccept, ServerFree, Release
  <2>3. CASE \/ (\E s \in Sessions : Accept(s)) \/ AcceptError \/ InsertSession
    BY <1>1, <2>3 DEF Accept, AcceptError, InsertSession
  <2> QED BY <1>2, <2>1, <2>2, <2>3 DEF AcceptStep
<1>3. ASSUME NEW s \in Sessions, ClientStep(s) PROVE SendInv'
  <2>1. CASE ReadRequest(s)
    BY <2>1 DEF SendInv, ReadRequest
  <2>2. CASE ReadError(s)
    BY <2>2 DEF SendInv, ReadError
  <2>3. CASE ReadTimeout(s)
    BY <2>3 DEF SendInv, ReadTimeout
  <2>4. CASE FindMount(s)
    BY <2>4 DEF SendInv, FindMount
  <2>5. CASE BindMount(s)
    BY <2>5 DEF SendInv, BindMount
  <2>6. CASE SnapshotParams(s)
    BY <2>6 DEF SendInv, SnapshotParams
  <2>7. CASE EncodeSdp(s)
    BY <2>7 DEF SendInv, EncodeSdp
  <2>8. CASE LockReply(s)
    BY <2>8, ConstantsOK DEF SendInv, TypeOK, LockReply, SendFree
  <2>9. CASE WriteReplyHead(s)
    BY <2>9, ConstantsOK DEF SendInv, TypeOK, WriteReplyHead, BeginUnit, PutHead
  <2>10. CASE WriteReplyBody(s)
    BY <2>10, ConstantsOK DEF SendInv, TypeOK, WriteReplyBody, EndUnit, Unlock,
       AfterReply
  <2>11. CASE ReplyFails(s)
    BY <2>11, ConstantsOK DEF SendInv, TypeOK, ReplyFails, GiveUpUnit, Unlock
  <2>12. CASE StoreState(s)
    BY <2>12 DEF SendInv, StoreState
  <2>13. CASE RemoveSession(s)
    BY <2>13 DEF SendInv, RemoveSession
  <2>14. CASE FreeSession(s)
    BY <2>14 DEF SendInv, TypeOK, AcceptInv, WalkInv, FreeSession, Release
  <2> QED BY <1>3, <2>1, <2>2, <2>3, <2>4, <2>5, <2>6, <2>7, <2>8, <2>9, <2>10,
             <2>11, <2>12, <2>13, <2>14 DEF ClientStep, ClientRuns
<1>4. ASSUME NEW s \in Sessions, PeerStep(s) PROVE SendInv'
    BY <1>1, <1>4 DEF PeerStep, Drain, HangUp
<1>5. ASSUME NEW m \in Mounts, FeederStep(m) PROVE SendInv'
  <2>1. CASE FeedNal(m)
    BY <2>1 DEF SendInv, FeedNal
  <2>2. CASE LockServer(m)
    BY <2>2 DEF SendInv, LockServer
  <2>3. CASE PickSession(m)
    BY <2>3 DEF SendInv, PickSession
  <2>4. CASE LockSend(m)
    BY <2>4, ConstantsOK DEF SendInv, TypeOK, LockSend, SendFree
  <2>5. CASE WritePacketHead(m)
    BY <2>5, ConstantsOK DEF SendInv, TypeOK, WritePacketHead, BeginUnit, PutHead
  <2>6. CASE WritePacketBody(m)
    BY <2>6, ConstantsOK DEF SendInv, TypeOK, WritePacketBody, EndUnit
  <2>7. CASE WriteLastBody(m)
    BY <2>7, ConstantsOK DEF SendInv, TypeOK, WriteLastBody, EndUnit, LeaveSession,
       Unlock
  <2>8. CASE PacketFails(m)
    BY <2>8, ConstantsOK DEF SendInv, TypeOK, PacketFails, GiveUpUnit, LeaveSession,
       Unlock
  <2>9. CASE UnlockServer(m)
    BY <2>9 DEF SendInv, UnlockServer
  <2>10. CASE SkipSession(m)
    BY <1>1, <2>10 DEF SkipSession
  <2> QED BY <1>5, <2>1, <2>2, <2>3, <2>4, <2>5, <2>6, <2>7, <2>8, <2>9, <2>10
             DEF FeederStep, FeederRuns
<1>6. CASE UNCHANGED vars
    BY <1>1, <1>6 DEF vars
<1> QED BY <1>2, <1>3, <1>4, <1>5, <1>6 DEF Next

\* Requests: what a client thread knows of the request it is handling.
LEMMA RequestPreserved ==
    ASSUME RequestInv, TypeOK, AcceptInv, PlayingIsBound, [Next]_vars
    PROVE  RequestInv'
<1>1. CASE UNCHANGED <<cpc, req, mount, answered, state>>
    BY <1>1 DEF RequestInv
<1>2. CASE AcceptStep
  <2>1. CASE Spawn
    BY <2>1 DEF RequestInv, TypeOK, Spawn
  <2>2. CASE UndoAccept
    BY <2>2 DEF RequestInv, TypeOK, AcceptInv, UndoAccept, Release
  <2>3. CASE \/ (\E s \in Sessions : Accept(s)) \/ AcceptError \/ InsertSession
    BY <1>1, <2>3 DEF Accept, AcceptError, InsertSession
  <2> QED BY <1>2, <2>1, <2>2, <2>3 DEF AcceptStep
<1>3. ASSUME NEW s \in Sessions, ClientStep(s) PROVE RequestInv'
  <2>1. CASE ReadRequest(s)
    <3>1. PICK method \in Methods, path \in Mounts \cup {Nobody} :
             /\ req' = [req EXCEPT ![s] =
                          [method |-> method, path |-> path,
                           ok |-> method = "PLAY" => state[s] \in {"READY", "PLAYING"}]]
             /\ cpc' = [cpc EXCEPT ![s] =
                          IF method \in {"DESCRIBE", "SETUP"} THEN "find" ELSE "lock"]
      BY <2>1 DEF ReadRequest
    <3>2. /\ req'[s].method = method
          /\ req'[s].ok /\ method = "PLAY" => state[s] \in {"READY", "PLAYING"}
          /\ cpc'[s] = IF method \in {"DESCRIBE", "SETUP"} THEN "find" ELSE "lock"
          /\ \A t \in Sessions \ {s} : req'[t] = req[t] /\ cpc'[t] = cpc[t]
      BY <3>1 DEF TypeOK
    <3>3. mount' = mount /\ state' = state /\ answered' = answered
      BY <2>1 DEF ReadRequest
    <3> QED BY <3>2, <3>3 DEF RequestInv, PlayingIsBound
  <2>2. CASE ReadError(s)
    BY <2>2 DEF RequestInv, ReadError
  <2>3. CASE ReadTimeout(s)
    BY <2>3 DEF RequestInv, ReadTimeout
  <2>4. CASE FindMount(s)
    <3>1. /\ req'[s].method = req[s].method /\ req'[s].path = req[s].path
          /\ req'[s].ok <=> req[s].path # Nobody
          /\ cpc'[s] = IF req[s].path = Nobody THEN "lock"
                       ELSE IF req[s].method = "SETUP" THEN "bind" ELSE "snapshot"
          /\ \A t \in Sessions \ {s} : req'[t] = req[t] /\ cpc'[t] = cpc[t]
      BY <2>4 DEF FindMount, TypeOK
    <3>2. mount' = mount /\ state' = state /\ answered' = answered
      BY <2>4 DEF FindMount
    <3>3. cpc[s] = "find" /\ req[s] \in Requests
      BY <2>4 DEF FindMount, TypeOK
    <3> QED BY <3>1, <3>2, <3>3 DEF RequestInv, Requests
  <2>5. CASE BindMount(s)
    BY <2>5 DEF RequestInv, TypeOK, BindMount
  <2>6. CASE SnapshotParams(s)
    BY <2>6 DEF RequestInv, SnapshotParams
  <2>7. CASE EncodeSdp(s)
    BY <2>7 DEF RequestInv, EncodeSdp
  <2>8. CASE LockReply(s)
    BY <2>8 DEF RequestInv, LockReply, StateKept
  <2>9. CASE WriteReplyHead(s)
    BY <2>9 DEF RequestInv, WriteReplyHead
  <2>10. CASE WriteReplyBody(s)
    BY <2>10, ConstantsOK DEF RequestInv, TypeOK, AllMethods, Requests,
       WriteReplyBody, AfterReply
  <2>11. CASE ReplyFails(s)
    BY <2>11 DEF RequestInv, TypeOK, ReplyFails
  <2>12. CASE StoreState(s)
    BY <2>12 DEF RequestInv, TypeOK, StoreState, NewState
  <2>13. CASE RemoveSession(s)
    BY <2>13 DEF RequestInv, RemoveSession
  <2>14. CASE FreeSession(s)
    BY <2>14 DEF RequestInv, TypeOK, FreeSession, Release
  <2> QED BY <1>3, <2>1, <2>2, <2>3, <2>4, <2>5, <2>6, <2>7, <2>8, <2>9, <2>10,
             <2>11, <2>12, <2>13, <2>14 DEF ClientStep, ClientRuns
<1>4. ASSUME NEW s \in Sessions, PeerStep(s) PROVE RequestInv'
    BY <1>1, <1>4 DEF PeerStep, Drain, HangUp
<1>5. ASSUME NEW m \in Mounts, FeederStep(m) PROVE RequestInv'
  <2>1. CASE PacketFails(m)
    BY <2>1 DEF RequestInv, TypeOK, PacketFails, LeaveSession
  <2>2. CASE \/ FeedNal(m) \/ LockServer(m) \/ SkipSession(m) \/ PickSession(m)
            \/ LockSend(m) \/ WritePacketHead(m) \/ WritePacketBody(m)
            \/ WriteLastBody(m) \/ UnlockServer(m)
    BY <1>1, <2>2 DEF FeedNal, LockServer, SkipSession, PickSession, LockSend,
       WritePacketHead, WritePacketBody, WriteLastBody, UnlockServer, LeaveSession
  <2> QED BY <1>5, <2>1, <2>2 DEF FeederStep, FeederRuns
<1>6. CASE UNCHANGED vars
    BY <1>1, <1>6 DEF vars
<1> QED BY <1>2, <1>3, <1>4, <1>5, <1>6 DEF Next

\* Units never mix: who begins one holds send_lock, and who holds it is the
\* only one with a unit open.
LEMMA NoMixedUnitsPreserved ==
    ASSUME NoMixedUnits, TypeOK, WalkInv, SendInv, [Next]_vars
    PROVE  NoMixedUnits'
<1>1. CASE UNCHANGED <<stream>>
    BY <1>1 DEF NoMixedUnits
<1>2. CASE AcceptStep
  <2>1. CASE UndoAccept
    BY <2>1 DEF NoMixedUnits, UndoAccept, Release
  <2>2. CASE \/ (\E s \in Sessions : Accept(s)) \/ AcceptError \/ InsertSession
            \/ Spawn
    BY <1>1, <2>2 DEF Accept, AcceptError, InsertSession, Spawn
  <2> QED BY <1>2, <2>1, <2>2 DEF AcceptStep
<1>3. ASSUME NEW s \in Sessions, ClientStep(s) PROVE NoMixedUnits'
  <2>1. CASE WriteReplyHead(s)
    BY <2>1 DEF NoMixedUnits, TypeOK, SendInv, WriteReplyHead, BeginUnit, PutHead
  <2>2. CASE WriteReplyBody(s)
    BY <2>2 DEF NoMixedUnits, SendInv, WriteReplyBody, EndUnit
  <2>3. CASE ReplyFails(s)
    BY <2>3 DEF NoMixedUnits, ReplyFails, GiveUpUnit
  <2>4. CASE FreeSession(s)
    BY <2>4 DEF NoMixedUnits, FreeSession, Release
  <2>5. CASE \/ ReadRequest(s) \/ ReadError(s) \/ ReadTimeout(s) \/ FindMount(s)
            \/ BindMount(s) \/ SnapshotParams(s) \/ EncodeSdp(s) \/ LockReply(s)
            \/ StoreState(s) \/ RemoveSession(s)
    BY <1>1, <2>5 DEF ReadRequest, ReadError, ReadTimeout, FindMount, BindMount,
       SnapshotParams, EncodeSdp, LockReply, StoreState, RemoveSession
  <2> QED BY <1>3, <2>1, <2>2, <2>3, <2>4, <2>5 DEF ClientStep, ClientRuns
<1>4. ASSUME NEW s \in Sessions, PeerStep(s) PROVE NoMixedUnits'
    BY <1>1, <1>4 DEF PeerStep, Drain, HangUp
<1>5. ASSUME NEW m \in Mounts, FeederStep(m) PROVE NoMixedUnits'
  <2>1. CASE WritePacketHead(m)
    BY <2>1 DEF NoMixedUnits, TypeOK, WalkInv, SendInv, WritePacketHead, BeginUnit,
       PutHead
  <2>2. CASE WritePacketBody(m)
    BY <2>2 DEF NoMixedUnits, SendInv, WritePacketBody, EndUnit
  <2>3. CASE WriteLastBody(m)
    BY <2>3 DEF NoMixedUnits, SendInv, WriteLastBody, EndUnit
  <2>4. CASE PacketFails(m)
    BY <2>4 DEF NoMixedUnits, PacketFails, GiveUpUnit
  <2>5. CASE \/ FeedNal(m) \/ LockServer(m) \/ SkipSession(m) \/ PickSession(m)
            \/ LockSend(m) \/ UnlockServer(m)
    BY <1>1, <2>5 DEF FeedNal, LockServer, SkipSession, PickSession, LockSend,
       UnlockServer
  <2> QED BY <1>5, <2>1, <2>2, <2>3, <2>4, <2>5 DEF FeederStep, FeederRuns
<1>6. CASE UNCHANGED vars
    BY <1>1, <1>6 DEF vars
<1> QED BY <1>2, <1>3, <1>4, <1>5, <1>6 DEF Next

\* A feeder picks only a playing session, and a session plays only after its
\* PLAY has been answered.
LEMMA RtpAfterPlayReplyPreserved ==
    ASSUME RtpAfterPlayReply, TypeOK, AcceptInv, WalkInv, RequestInv, [Next]_vars
    PROVE  RtpAfterPlayReply'
<1>1. CASE UNCHANGED <<cur, answered>>
    BY <1>1 DEF RtpAfterPlayReply
<1>2. CASE AcceptStep
  <2>1. CASE UndoAccept
    BY <2>1, ConstantsOK DEF RtpAfterPlayReply, WalkInv, UndoAccept, ServerFree
  <2>2. CASE \/ (\E s \in Sessions : Accept(s)) \/ AcceptError \/ InsertSession
            \/ Spawn
    BY <1>1, <2>2 DEF Accept, AcceptError, InsertSession, Spawn
  <2> QED BY <1>2, <2>1, <2>2 DEF AcceptStep
<1>3. ASSUME NEW s \in Sessions, ClientStep(s) PROVE RtpAfterPlayReply'
  <2>1. CASE WriteReplyBody(s)
    BY <2>1 DEF RtpAfterPlayReply, TypeOK, WriteReplyBody
  <2>2. CASE FreeSession(s)
    BY <2>2 DEF RtpAfterPlayReply, AcceptInv, WalkInv, FreeSession, Release
  <2>3. CASE \/ ReadRequest(s) \/ ReadError(s) \/ ReadTimeout(s) \/ FindMount(s)
            \/ BindMount(s) \/ SnapshotParams(s) \/ EncodeSdp(s) \/ LockReply(s)
            \/ WriteReplyHead(s) \/ ReplyFails(s) \/ StoreState(s)
            \/ RemoveSession(s)
    BY <1>1, <2>3 DEF ReadRequest, ReadError, ReadTimeout, FindMount, BindMount,
       SnapshotParams, EncodeSdp, LockReply, WriteReplyHead, ReplyFails, StoreState,
       RemoveSession
  <2> QED BY <1>3, <2>1, <2>2, <2>3 DEF ClientStep, ClientRuns
<1>4. ASSUME NEW s \in Sessions, PeerStep(s) PROVE RtpAfterPlayReply'
    BY <1>1, <1>4 DEF PeerStep, Drain, HangUp
<1>5. ASSUME NEW m \in Mounts, FeederStep(m) PROVE RtpAfterPlayReply'
  <2>1. CASE PickSession(m)
    BY <2>1 DEF RtpAfterPlayReply, TypeOK, RequestInv, PickSession, Wants
  <2>2. CASE WriteLastBody(m)
    BY <2>2 DEF RtpAfterPlayReply, WriteLastBody, LeaveSession
  <2>3. CASE PacketFails(m)
    BY <2>3 DEF RtpAfterPlayReply, PacketFails, LeaveSession
  <2>4. CASE \/ FeedNal(m) \/ LockServer(m) \/ SkipSession(m) \/ LockSend(m)
            \/ WritePacketHead(m) \/ WritePacketBody(m) \/ UnlockServer(m)
    BY <1>1, <2>4 DEF FeedNal, LockServer, SkipSession, LockSend, WritePacketHead,
       WritePacketBody, UnlockServer
  <2> QED BY <1>5, <2>1, <2>2, <2>3, <2>4 DEF FeederStep, FeederRuns
<1>6. CASE UNCHANGED vars
    BY <1>1, <1>6 DEF vars
<1> QED BY <1>2, <1>3, <1>4, <1>5, <1>6 DEF Next

\* A stored parameter set is never replaced, so the copied pointer stays good.
LEMMA SnapshotValidPreserved ==
    ASSUME SnapshotValid, TypeOK, [Next]_vars
    PROVE  SnapshotValid'
<1>1. CASE UNCHANGED <<cpc, req, snap, stored>>
    BY <1>1 DEF SnapshotValid
<1>2. CASE AcceptStep
  <2>1. CASE Spawn
    BY <2>1 DEF SnapshotValid, TypeOK, Spawn
  <2>2. CASE \/ (\E s \in Sessions : Accept(s)) \/ AcceptError \/ InsertSession
            \/ UndoAccept
    BY <1>1, <2>2 DEF Accept, AcceptError, InsertSession, UndoAccept
  <2> QED BY <1>2, <2>1, <2>2 DEF AcceptStep
<1>3. ASSUME NEW s \in Sessions, ClientStep(s) PROVE SnapshotValid'
  <2>1. CASE ReadRequest(s)
    BY <2>1 DEF SnapshotValid, ReadRequest
  <2>2. CASE ReadError(s)
    BY <2>2 DEF SnapshotValid, ReadError
  <2>3. CASE ReadTimeout(s)
    BY <2>3 DEF SnapshotValid, ReadTimeout
  <2>4. CASE FindMount(s)
    BY <2>4 DEF SnapshotValid, FindMount
  <2>5. CASE BindMount(s)
    BY <2>5 DEF SnapshotValid, BindMount
  <2>6. CASE SnapshotParams(s)
    BY <2>6 DEF SnapshotValid, TypeOK, SnapshotParams
  <2>7. CASE EncodeSdp(s)
    BY <2>7 DEF SnapshotValid, EncodeSdp
  <2>8. CASE LockReply(s)
    BY <2>8 DEF SnapshotValid, LockReply
  <2>9. CASE WriteReplyHead(s)
    BY <2>9 DEF SnapshotValid, WriteReplyHead
  <2>10. CASE WriteReplyBody(s)
    BY <2>10 DEF SnapshotValid, WriteReplyBody, AfterReply
  <2>11. CASE ReplyFails(s)
    BY <2>11 DEF SnapshotValid, ReplyFails
  <2>12. CASE StoreState(s)
    BY <2>12 DEF SnapshotValid, StoreState
  <2>13. CASE RemoveSession(s)
    BY <2>13 DEF SnapshotValid, RemoveSession
  <2>14. CASE FreeSession(s)
    BY <2>14 DEF SnapshotValid, FreeSession
  <2> QED BY <1>3, <2>1, <2>2, <2>3, <2>4, <2>5, <2>6, <2>7, <2>8, <2>9, <2>10,
             <2>11, <2>12, <2>13, <2>14 DEF ClientStep, ClientRuns
<1>4. ASSUME NEW s \in Sessions, PeerStep(s) PROVE SnapshotValid'
    BY <1>1, <1>4 DEF PeerStep, Drain, HangUp
<1>5. ASSUME NEW m \in Mounts, FeederStep(m) PROVE SnapshotValid'
  <2>1. CASE FeedNal(m)
    BY <2>1 DEF SnapshotValid, FeedNal, FirstParams
  <2>2. CASE \/ LockServer(m) \/ SkipSession(m) \/ PickSession(m) \/ LockSend(m)
            \/ WritePacketHead(m) \/ WritePacketBody(m) \/ WriteLastBody(m)
            \/ PacketFails(m) \/ UnlockServer(m)
    BY <1>1, <2>2 DEF LockServer, SkipSession, PickSession, LockSend,
       WritePacketHead, WritePacketBody, WriteLastBody, PacketFails, UnlockServer,
       LeaveSession
  <2> QED BY <1>5, <2>1, <2>2 DEF FeederStep, FeederRuns
<1>6. CASE UNCHANGED vars
    BY <1>1, <1>6 DEF vars
<1> QED BY <1>2, <1>3, <1>4, <1>5, <1>6 DEF Next

\* SETUP binds before it makes the session ready, and PLAY needs that.
LEMMA PlayingIsBoundPreserved ==
    ASSUME PlayingIsBound, TypeOK, RequestInv, [Next]_vars
    PROVE  PlayingIsBound'
<1>1. CASE UNCHANGED <<state, mount>>
    BY <1>1 DEF PlayingIsBound
<1>2. CASE AcceptStep
  <2>1. CASE UndoAccept
    BY <2>1 DEF PlayingIsBound, TypeOK, UndoAccept, Release
  <2>2. CASE \/ (\E s \in Sessions : Accept(s)) \/ AcceptError \/ InsertSession
            \/ Spawn
    BY <1>1, <2>2 DEF Accept, AcceptError, InsertSession, Spawn
  <2> QED BY <1>2, <2>1, <2>2 DEF AcceptStep
<1>3. ASSUME NEW s \in Sessions, ClientStep(s) PROVE PlayingIsBound'
  <2>1. CASE BindMount(s)
    BY <2>1 DEF PlayingIsBound, RequestInv, BindMount
  <2>2. CASE StoreState(s)
    BY <2>2 DEF PlayingIsBound, RequestInv, StoreState
  <2>3. CASE FreeSession(s)
    BY <2>3 DEF PlayingIsBound, TypeOK, FreeSession, Release
  <2>4. CASE \/ ReadRequest(s) \/ ReadError(s) \/ ReadTimeout(s) \/ FindMount(s)
            \/ SnapshotParams(s) \/ EncodeSdp(s) \/ LockReply(s)
            \/ WriteReplyHead(s) \/ WriteReplyBody(s) \/ ReplyFails(s)
            \/ RemoveSession(s)
    BY <1>1, <2>4 DEF ReadRequest, ReadError, ReadTimeout, FindMount,
       SnapshotParams, EncodeSdp, LockReply, WriteReplyHead, WriteReplyBody,
       ReplyFails, RemoveSession, StateKept
  <2> QED BY <1>3, <2>1, <2>2, <2>3, <2>4 DEF ClientStep, ClientRuns
<1>4. ASSUME NEW s \in Sessions, PeerStep(s) PROVE PlayingIsBound'
    BY <1>1, <1>4 DEF PeerStep, Drain, HangUp
<1>5. ASSUME NEW m \in Mounts, FeederStep(m) PROVE PlayingIsBound'
  <2>1. CASE PacketFails(m)
    BY <2>1 DEF PlayingIsBound, TypeOK, PacketFails, LeaveSession
  <2>2. CASE \/ FeedNal(m) \/ LockServer(m) \/ SkipSession(m) \/ PickSession(m)
            \/ LockSend(m) \/ WritePacketHead(m) \/ WritePacketBody(m)
            \/ WriteLastBody(m) \/ UnlockServer(m)
    BY <1>1, <2>2 DEF FeedNal, LockServer, SkipSession, PickSession, LockSend,
       WritePacketHead, WritePacketBody, WriteLastBody, UnlockServer, LeaveSession
  <2> QED BY <1>5, <2>1, <2>2 DEF FeederStep, FeederRuns
<1>6. CASE UNCHANGED vars
    BY <1>1, <1>6 DEF vars
<1> QED BY <1>2, <1>3, <1>4, <1>5, <1>6 DEF Next

-----------------------------------------------------------------------------
(* IInv is an invariant, and what follows from it.                         *)

\* The server starts with no session and every lock free.
LEMMA IInvInit == Init => IInv
<1> SUFFICES ASSUME Init PROVE IInv
    OBVIOUS
<1>1. TypeOK
    BY ConstantsOK, NoRequestTyped DEF Init, TypeOK
<1>2. AcceptInv /\ WalkInv /\ SendInv
    BY ConstantsOK DEF Init, AcceptInv, WalkInv, SendInv
<1>3. RequestInv /\ PlayingIsBound /\ SnapshotValid
    BY DEF Init, RequestInv, PlayingIsBound, SnapshotValid
<1>4. NoMixedUnits /\ RtpAfterPlayReply
    BY DEF Init, NoMixedUnits, RtpAfterPlayReply
<1> QED BY <1>1, <1>2, <1>3, <1>4 DEF IInv

\* Every step of any thread, or of a peer, preserves IInv.
LEMMA IInvPreserved == IInv /\ [Next]_vars => IInv'
BY TypeOKPreserved, AcceptPreserved, WalkPreserved, SendPreserved, RequestPreserved,
   NoMixedUnitsPreserved, RtpAfterPlayReplyPreserved, SnapshotValidPreserved,
   PlayingIsBoundPreserved DEF IInv

\* IInv holds in every state the server can reach.
THEOREM Invariance == Spec => []IInv
BY IInvInit, IInvPreserved, PTL DEF Spec

\* Every variable keeps its type: counters within their bounds, and only
\* threads, sessions and buffers where the code holds their addresses.
THEOREM TypeCorrect == Spec => []TypeOK
BY Invariance, PTL DEF IInv

\* No thread follows a pointer to a session struct that has been freed
\* (srv->lock around feed_nal's walk; remove_session before free).
THEOREM NoUseAfterFree == Spec => []PointersLive
<1>1. IInv => PointersLive
    BY ConstantsOK DEF IInv, TypeOK, AcceptInv, WalkInv, PointersLive
<1> QED BY <1>1, Invariance, PTL

\* Locks are taken in the order srv->lock, send_lock: no cycle of waiting
\* threads can form (rtsp_reply releases send_lock on its failure path too).
THEOREM LocksOrdered == Spec => []LockOrder
<1>1. ASSUME IInv, NEW s \in Sessions, sendLock[s] = Client
      PROVE  cpc[s] \in {"head", "body"}
    BY <1>1 DEF IInv, SendInv
<1>2. ASSUME IInv, NEW s \in Sessions, NEW m \in Mounts, sendLock[s] = m
      PROVE  srvLock = m /\ cur[m] = s
    BY <1>2 DEF IInv, SendInv, WalkInv
<1>3. IInv => LockOrder
    BY <1>1, <1>2 DEF LockOrder
<1> QED BY <1>3, Invariance, PTL

\* Replies and RTP packets never land inside one another (send_lock around
\* write_all in rtsp_reply, and around send_single and send_fua).
THEOREM UnitsKeptApart == Spec => []NoMixedUnits
BY Invariance, PTL DEF IInv

\* A session gets RTP only after a PLAY of its own was answered in full.
THEOREM PlayAnsweredFirst == Spec => []RtpAfterPlayReply
BY Invariance, PTL DEF IInv

\* The pointer build_sdp uses after unlocking is still the mount's.
THEOREM SdpSnapshotGood == Spec => []SnapshotValid
BY Invariance, PTL DEF IInv

\* READY and PLAYING sessions have a mount.
THEOREM PlayingHasMount == Spec => []PlayingIsBound
BY Invariance, PTL DEF IInv
-----------------------------------------------------------------------------
(* The server implements RtspContract.                                     *)

\* Memory that holds no session is as the next calloc makes it: its state is
\* ST_INIT and it is bound to no mount.
FreshInv ==
    \A s \in Sessions : mem[s] = "free" => state[s] = "INIT" /\ mount[s] = Nobody

\* Only a live session changes state or is bound, and Release cleans up.
LEMMA FreshPreserved ==
    ASSUME FreshInv, IInv, [Next]_vars
    PROVE  FreshInv'
<1> USE DEF IInv
<1>1. CASE UNCHANGED <<mem, state, mount>>
    BY <1>1 DEF FreshInv
<1>2. CASE AcceptStep
  <2>1. ASSUME NEW s \in Sessions, Accept(s) PROVE FreshInv'
    BY <2>1 DEF FreshInv, TypeOK, Accept
  <2>2. CASE UndoAccept
    BY <2>2 DEF FreshInv, TypeOK, UndoAccept, Release
  <2>3. CASE AcceptError \/ InsertSession \/ Spawn
    BY <1>1, <2>3 DEF AcceptError, InsertSession, Spawn
  <2> QED BY <1>2, <2>1, <2>2, <2>3 DEF AcceptStep
<1>3. ASSUME NEW s \in Sessions, ClientStep(s) PROVE FreshInv'
  <2>1. CASE BindMount(s)
    BY <2>1 DEF FreshInv, TypeOK, AcceptInv, BindMount
  <2>2. CASE StoreState(s)
    BY <2>2 DEF FreshInv, TypeOK, AcceptInv, StoreState
  <2>3. CASE FreeSession(s)
    BY <2>3 DEF FreshInv, TypeOK, FreeSession, Release
  <2>4. CASE \/ ReadRequest(s) \/ ReadError(s) \/ ReadTimeout(s) \/ FindMount(s)
            \/ SnapshotParams(s) \/ EncodeSdp(s) \/ LockReply(s)
            \/ WriteReplyHead(s) \/ WriteReplyBody(s) \/ ReplyFails(s)
            \/ RemoveSession(s)
    BY <1>1, <2>4 DEF ReadRequest, ReadError, ReadTimeout, FindMount, SnapshotParams,
       EncodeSdp, LockReply, StateKept, WriteReplyHead, WriteReplyBody, ReplyFails,
       RemoveSession
  <2> QED BY <1>3, <2>1, <2>2, <2>3, <2>4 DEF ClientStep, ClientRuns
<1>4. ASSUME NEW s \in Sessions, PeerStep(s) PROVE FreshInv'
    BY <1>1, <1>4 DEF PeerStep, Drain, HangUp
<1>5. ASSUME NEW m \in Mounts, FeederStep(m) PROVE FreshInv'
  <2>1. CASE PacketFails(m)
    BY <2>1, ConstantsOK
       DEF FreshInv, TypeOK, AcceptInv, WalkInv, PacketFails, LeaveSession
  <2>2. CASE \/ FeedNal(m) \/ LockServer(m) \/ SkipSession(m) \/ PickSession(m)
            \/ LockSend(m) \/ WritePacketHead(m) \/ WritePacketBody(m)
            \/ WriteLastBody(m) \/ UnlockServer(m)
    BY <1>1, <2>2 DEF FeedNal, LockServer, SkipSession, PickSession, LockSend,
       WritePacketHead, WritePacketBody, WriteLastBody, UnlockServer, LeaveSession
  <2> QED BY <1>5, <2>1, <2>2 DEF FeederStep, FeederRuns
<1>6. CASE UNCHANGED vars
    BY <1>1, <1>6 DEF vars
<1> QED BY <1>2, <1>3, <1>4, <1>5, <1>6 DEF Next

\* A step that leaves mem, state, mount and cur alone changes nothing there.
LEMMA ContractStutter ==
    ASSUME UNCHANGED <<mem, state, mount, cur>>
    PROVE  UNCHANGED Contract!cvars
BY DEF Contract!cvars, Phase, Sending

\* No feeder has its cursor on a session once srv->lock is free, nor on one
\* that is off the list.
LEMMA NothingSent ==
    ASSUME IInv, NEW s \in Sessions, srvLock = Nobody \/ s \notin sessions
    PROVE  Sending[s] = {}
BY ConstantsOK DEF IInv, WalkInv, Sending

\* Every step of the server is a step of the contract, or none.
LEMMA ContractStep ==
    ASSUME FreshInv, IInv, [Next]_vars
    PROVE  [Contract!CNext]_Contract!cvars
<1> USE DEF IInv
<1>1. CASE AcceptStep
  <2>1. ASSUME NEW s \in Sessions, Accept(s) PROVE Contract!Connect(s)
    BY <2>1 DEF FreshInv, TypeOK, Accept, Phase, Sending, Contract!Connect
  <2>2. CASE UndoAccept
    <3>1. PICK s \in Sessions : s = acc /\ mem[s] = "live" /\ srvLock = Nobody
      BY <2>2, ConstantsOK DEF UndoAccept, ServerFree, AcceptInv, TypeOK
    <3>2. Phase' = [Phase EXCEPT ![s] = "ABSENT"] /\ Phase[s] # "ABSENT"
      BY <2>2, <3>1 DEF UndoAccept, Release, TypeOK, Phase
    <3>3. Sending' = Sending /\ mount' = [mount EXCEPT ![s] = Nobody]
      BY <2>2, <3>1 DEF UndoAccept, Release, Sending
    <3>4. Contract!Leave(s)
      BY <3>1, <3>2, <3>3, NothingSent DEF Contract!Leave
    <3> QED BY <3>4 DEF Contract!CNext
  <2>3. CASE AcceptError \/ InsertSession \/ Spawn
    BY <2>3, ContractStutter DEF AcceptError, InsertSession, Spawn
  <2> QED BY <1>1, <2>1, <2>2, <2>3 DEF AcceptStep, Contract!CNext
<1>2. ASSUME NEW s \in Sessions, ClientStep(s) PROVE [Contract!CNext]_Contract!cvars
  <2>1. CASE BindMount(s)
    <3>1. mem[s] = "live" /\ req[s].path \in Mounts
      BY <2>1 DEF BindMount, AcceptInv, RequestInv
    <3>2. Phase[s] # "ABSENT"
      BY <3>1 DEF Phase, TypeOK
    <3>3. UNCHANGED <<Phase, Sending>> /\ mount' = [mount EXCEPT ![s] = req[s].path]
      BY <2>1 DEF BindMount, ClientKeeps, feeder, Phase, Sending
    <3>4. Contract!Bind(s)
      BY <3>1, <3>2, <3>3 DEF Contract!Bind
    <3> QED BY <3>4 DEF Contract!CNext
  <2>2. CASE StoreState(s)
    <3>1. PICK p \in {"READY", "PLAYING"} : p = NewState(req[s])
      BY DEF NewState
    <3>2. mem[s] = "live" /\ mount[s] # Nobody
      BY <2>2, ConstantsOK DEF StoreState, AcceptInv, RequestInv
    <3>3. Phase' = [Phase EXCEPT ![s] = p] /\ Phase[s] # "ABSENT"
      BY <2>2, <3>1, <3>2 DEF StoreState, TypeOK, Phase
    <3>4. UNCHANGED <<mount, Sending>>
      BY <2>2 DEF StoreState, Sending
    <3>5. Contract!Enter(s, p)
      BY <3>2, <3>3, <3>4 DEF Contract!Enter
    <3> QED BY <3>5 DEF Contract!CNext
  <2>3. CASE FreeSession(s)
    <3>1. mem[s] = "live" /\ s \notin sessions
      BY <2>3, ConstantsOK DEF FreeSession, AcceptInv
    <3>2. Phase' = [Phase EXCEPT ![s] = "ABSENT"] /\ Phase[s] # "ABSENT"
      BY <2>3, <3>1 DEF FreeSession, Release, TypeOK, Phase
    <3>3. Sending' = Sending /\ mount' = [mount EXCEPT ![s] = Nobody]
      BY <2>3 DEF FreeSession, Release, Sending
    <3>4. Contract!Leave(s)
      BY <3>1, <3>2, <3>3, NothingSent DEF Contract!Leave
    <3> QED BY <3>4 DEF Contract!CNext
  <2>4. CASE \/ ReadRequest(s) \/ ReadError(s) \/ ReadTimeout(s) \/ FindMount(s)
            \/ SnapshotParams(s) \/ EncodeSdp(s) \/ LockReply(s)
            \/ WriteReplyHead(s) \/ WriteReplyBody(s) \/ ReplyFails(s)
            \/ RemoveSession(s)
    BY <2>4, ContractStutter DEF ReadRequest, ReadError, ReadTimeout, FindMount,
       SnapshotParams, EncodeSdp, LockReply, StateKept, WriteReplyHead,
       WriteReplyBody, ReplyFails, RemoveSession
  <2> QED BY <1>2, <2>1, <2>2, <2>3, <2>4 DEF ClientStep, ClientRuns
<1>3. ASSUME NEW s \in Sessions, PeerStep(s) PROVE UNCHANGED Contract!cvars
    BY <1>3, ContractStutter DEF PeerStep, Drain, HangUp
<1>4. ASSUME NEW m \in Mounts, FeederStep(m) PROVE [Contract!CNext]_Contract!cvars
  <2>1. CASE PickSession(m)
    <3>1. PICK s \in sessions : Wants(m, s) /\ cur' = [cur EXCEPT ![m] = s]
      BY <2>1 DEF PickSession
    <3>2. s \in Sessions /\ mem[s] = "live" /\ \A n \in Mounts : cur[n] = Nobody
      BY <2>1, <3>1, ConstantsOK DEF PickSession, TypeOK, AcceptInv, WalkInv
    <3>3. Phase' = Phase /\ Phase[s] = "PLAYING" /\ mount' = mount /\ mount[s] = m
      BY <2>1, <3>1, <3>2 DEF PickSession, Wants, Phase
    <3>4. Sending[s] = {} /\ Sending' = [Sending EXCEPT ![s] = {m}]
      <4>1. \A t \in Sessions, n \in Mounts :
               cur[n] # t /\ (cur'[n] = t <=> n = m /\ t = s)
        BY <3>1, <3>2, ConstantsOK DEF TypeOK
      <4>2. \A t \in Sessions : {n \in Mounts : cur[n] = t} = {}
        BY <4>1
      <4>3. \A t \in Sessions :
               {n \in Mounts : cur'[n] = t} = IF t = s THEN {m} ELSE {}
        BY <4>1
      <4> QED BY <3>2, <4>2, <4>3 DEF Sending
    <3>5. Contract!Begin(s, m)
      BY <3>3, <3>4 DEF Contract!Begin
    <3> QED BY <3>2, <3>5 DEF Contract!CNext
  <2>2. CASE WriteLastBody(m) \/ PacketFails(m)
    <3>1. PICK s \in Sessions : s = cur[m] /\ mem[s] = "live"
      BY <2>2, ConstantsOK DEF WriteLastBody, PacketFails, TypeOK, AcceptInv, WalkInv
    <3>2. \A n \in Mounts : n # m => cur[n] = Nobody
      BY <2>2, ConstantsOK DEF WriteLastBody, PacketFails, TypeOK, WalkInv
    <3>3. Sending[s] # {} /\ Sending' = [Sending EXCEPT ![s] = {}] /\ mount' = mount
      <4>1. \A t \in Sessions, n \in Mounts :
               cur'[n] # t /\ (cur[n] = t <=> n = m /\ t = s)
        BY <2>2, <3>1, <3>2, ConstantsOK
           DEF WriteLastBody, PacketFails, LeaveSession, TypeOK
      <4>2. \A t \in Sessions : {n \in Mounts : cur'[n] = t} = {}
        BY <4>1
      <4>3. \A t \in Sessions :
               {n \in Mounts : cur[n] = t} = IF t = s THEN {m} ELSE {}
        BY <4>1
      <4>4. mount' = mount
        BY <2>2 DEF WriteLastBody, PacketFails, LeaveSession
      <4>5. m \in Sending[s]
        BY <4>1 DEF Sending
      <4>6. Sending' = [Sending EXCEPT ![s] = {}]
        BY <4>2, <4>3 DEF Sending
      <4> QED BY <4>4, <4>5, <4>6
    <3>4. Phase' \in {Phase, [Phase EXCEPT ![s] = "DEAD"]}
      <4>1. mem' = mem /\ state' \in {state, [state EXCEPT ![s] = "DEAD"]}
        BY <2>2, <3>1 DEF WriteLastBody, PacketFails, LeaveSession
      <4>2. CASE state' = state
        BY <4>1, <4>2 DEF Phase
      <4>3. CASE state' = [state EXCEPT ![s] = "DEAD"]
        <5>1. \A t \in Sessions :
                 state'[t] = IF t = s THEN "DEAD" ELSE state[t]
          BY <4>3 DEF TypeOK
        <5>2. Phase' = [Phase EXCEPT ![s] = "DEAD"]
          BY <3>1, <4>1, <5>1 DEF Phase
        <5> QED BY <5>2
      <4> QED BY <4>1, <4>2, <4>3
    <3>5. Contract!End(s)
      BY <3>3, <3>4 DEF Contract!End
    <3> QED BY <3>5 DEF Contract!CNext
  <2>3. CASE \/ FeedNal(m) \/ LockServer(m) \/ SkipSession(m) \/ LockSend(m)
            \/ WritePacketHead(m) \/ WritePacketBody(m) \/ UnlockServer(m)
    BY <2>3, ContractStutter DEF FeedNal, LockServer, SkipSession, LockSend,
       WritePacketHead, WritePacketBody, UnlockServer
  <2> QED BY <1>4, <2>1, <2>2, <2>3 DEF FeederStep, FeederRuns
<1>5. CASE UNCHANGED vars
    BY <1>5, ContractStutter DEF vars
<1> QED BY <1>1, <1>2, <1>3, <1>4, <1>5 DEF Next

\* The server implements its contract: a mount begins to send to a session
\* only while it is bound and playing, one mount at a time, and a session is
\* never released while something is being sent to it.
THEOREM ServerImplementsContract == Spec => ImplementsContract
<1>1. Init => Contract!CInit
    BY ConstantsOK DEF Init, Phase, Sending, Contract!CInit
<1>2. Init => FreshInv
    BY DEF Init, FreshInv
<1>3. FreshInv /\ IInv /\ [Next]_vars => FreshInv'
    BY FreshPreserved
<1>4. FreshInv /\ IInv /\ [Next]_vars => [Contract!CNext]_Contract!cvars
    BY ContractStep
<1> QED BY <1>1, <1>2, <1>3, <1>4, Invariance, PTL
        DEF Spec, ImplementsContract, Contract!CSpec
-----------------------------------------------------------------------------
(* More that IInv gives: who waits for whom, freed memory, broken sockets. *)

\* Who may be waited for.  The feeder that holds srv->lock runs, or waits for
\* the send_lock of one session, which nobody but that session's client
\* thread can have; and whoever holds a send_lock is in a write, which waits
\* for no lock and gives up on its own.
WaitsEnd ==
    /\ \A m \in Mounts : srvLock = m =>
          \/ fpc[m] \in {"walk", "head", "body"}
          \/ fpc[m] = "lock" /\ sendLock[cur[m]] \in {Nobody, Client}
    /\ \A s \in Sessions :
          /\ sendLock[s] = Client => cpc[s] \in {"head", "body"}
          /\ \A m \in Mounts : sendLock[s] = m => fpc[m] \in {"head", "body"}

\* Threads of the server never wait for one another in a circle: a chain of
\* waits (accept loop or client thread for srv->lock, its feeder for a
\* send_lock) is at most two long and ends at a thread inside write_all.
THEOREM NoDeadlock == Spec => []WaitsEnd
<1> SUFFICES IInv => WaitsEnd
    BY Invariance, PTL
<1> SUFFICES ASSUME IInv PROVE WaitsEnd
    OBVIOUS
<1>1. ASSUME NEW m \in Mounts, srvLock = m, fpc[m] \notin {"walk", "head", "body"}
      PROVE  fpc[m] = "lock" /\ sendLock[cur[m]] \in {Nobody, Client}
  <2>1. fpc[m] = "lock" /\ cur[m] \in Sessions
    BY <1>1, ConstantsOK DEF IInv, TypeOK, WalkInv
  <2>2. ASSUME NEW n \in Mounts, sendLock[cur[m]] = n PROVE FALSE
    BY <1>1, <2>1, <2>2 DEF IInv, WalkInv, SendInv
  <2> QED BY <2>1, <2>2 DEF IInv, TypeOK
<1>2. ASSUME NEW s \in Sessions
      PROVE  /\ sendLock[s] = Client => cpc[s] \in {"head", "body"}
             /\ \A m \in Mounts : sendLock[s] = m => fpc[m] \in {"head", "body"}
    BY <1>2 DEF IInv, SendInv
<1> QED BY <1>1, <1>2 DEF WaitsEnd

\* A step leaves the struct at s, its send_lock and its socket as they are.
Untouched(s) ==
    /\ state'[s] = state[s] /\ mount'[s] = mount[s] /\ answered'[s] = answered[s]
    /\ sendLock'[s] = sendLock[s]
    /\ peer'[s] = peer[s] /\ full'[s] = full[s]
    /\ unit'[s] = unit[s] /\ stream'[s] = stream[s]

FreedUntouched == \A s \in Sessions : mem[s] = "free" => Untouched(s)

\* No thread writes to a session struct, or to its socket, once it is freed,
\* and an accept finds the memory as the last release left it: every write of
\* a feeder through its cursor, of a client thread through its own session,
\* and of the accept loop falls on live memory.
THEOREM FreedIsLeftAlone == Spec => [][FreedUntouched]_vars
<1>1. ASSUME IInv, [Next]_vars PROVE FreedUntouched
  <2> USE <1>1 DEF IInv
  <2>1. CASE UNCHANGED <<state, mount, answered, sendLock, socket>>
    BY <2>1 DEF FreedUntouched, Untouched
  <2>2. CASE AcceptStep
    <3>1. CASE UndoAccept
      BY <3>1 DEF FreedUntouched, Untouched, TypeOK, AcceptInv, UndoAccept, Release
    <3>2. CASE \/ (\E s \in Sessions : Accept(s)) \/ AcceptError \/ InsertSession
               \/ Spawn
      BY <2>1, <3>2 DEF Accept, AcceptError, InsertSession, Spawn
    <3> QED BY <2>2, <3>1, <3>2 DEF AcceptStep
  <2>3. ASSUME NEW s \in Sessions, ClientStep(s) PROVE FreedUntouched
    <3>1. mem[s] = "live"
      BY <2>3 DEF AcceptInv, ClientStep, ClientRuns, ReadRequest, ReadError,
         ReadTimeout, FindMount, BindMount, SnapshotParams, EncodeSdp, LockReply,
         WriteReplyHead, WriteReplyBody, ReplyFails, StoreState, RemoveSession,
         FreeSession
    <3>2. CASE BindMount(s)
      BY <3>1, <3>2 DEF FreedUntouched, Untouched, TypeOK, BindMount
    <3>3. CASE LockReply(s)
      BY <3>1, <3>3 DEF FreedUntouched, Untouched, TypeOK, LockReply, StateKept
    <3>4. CASE WriteReplyHead(s)
      BY <3>1, <3>4 DEF FreedUntouched, Untouched, TypeOK, WriteReplyHead, BeginUnit,
         PutHead
    <3>5. CASE WriteReplyBody(s)
      BY <3>1, <3>5 DEF FreedUntouched, Untouched, TypeOK, WriteReplyBody, EndUnit,
         Unlock
    <3>6. CASE ReplyFails(s)
      BY <3>1, <3>6 DEF FreedUntouched, Untouched, TypeOK, ReplyFails, GiveUpUnit,
         Unlock
    <3>7. CASE StoreState(s)
      BY <3>1, <3>7 DEF FreedUntouched, Untouched, TypeOK, StoreState
    <3>8. CASE FreeSession(s)
      BY <3>1, <3>8 DEF FreedUntouched, Untouched, TypeOK, FreeSession, Release
    <3>9. CASE \/ ReadRequest(s) \/ ReadError(s) \/ ReadTimeout(s) \/ FindMount(s)
               \/ SnapshotParams(s) \/ EncodeSdp(s) \/ RemoveSession(s)
      BY <2>1, <3>9 DEF ReadRequest, ReadError, ReadTimeout, FindMount,
         SnapshotParams, EncodeSdp, RemoveSession
    <3> QED BY <2>3, <3>2, <3>3, <3>4, <3>5, <3>6, <3>7, <3>8, <3>9
            DEF ClientStep, ClientRuns
  <2>4. ASSUME NEW s \in Sessions, PeerStep(s) PROVE FreedUntouched
    BY <2>4 DEF FreedUntouched, Untouched, TypeOK, PeerStep, Drain, HangUp
  <2>5. ASSUME NEW m \in Mounts, FeederStep(m) PROVE FreedUntouched
    <3>1. CASE \/ FeedNal(m) \/ LockServer(m) \/ SkipSession(m) \/ PickSession(m)
               \/ UnlockServer(m)
      BY <2>1, <3>1 DEF FeedNal, LockServer, SkipSession, PickSession, UnlockServer
    <3>2. CASE fpc[m] \in {"lock", "head", "body"}
      <4>1. cur[m] \in Sessions /\ mem[cur[m]] = "live"
        BY <3>2, ConstantsOK DEF TypeOK, WalkInv, AcceptInv
      <4>2. CASE LockSend(m)
        BY <4>1, <4>2 DEF FreedUntouched, Untouched, TypeOK, LockSend
      <4>3. CASE WritePacketHead(m)
        BY <4>1, <4>3 DEF FreedUntouched, Untouched, TypeOK, WritePacketHead,
           BeginUnit, PutHead
      <4>4. CASE WritePacketBody(m)
        BY <4>1, <4>4 DEF FreedUntouched, Untouched, TypeOK, WritePacketBody, EndUnit
      <4>5. CASE WriteLastBody(m)
        BY <4>1, <4>5 DEF FreedUntouched, Untouched, TypeOK, WriteLastBody, EndUnit,
           LeaveSession, Unlock
      <4>6. CASE PacketFails(m)
        BY <4>1, <4>6 DEF FreedUntouched, Untouched, TypeOK, PacketFails, GiveUpUnit,
           LeaveSession, Unlock
      <4> QED BY <2>5, <3>1, <4>2, <4>3, <4>4, <4>5, <4>6
              DEF FeederStep, FeederRuns
    <3> QED BY <2>5, <3>1, <3>2 DEF FeederStep, FeederRuns, LockSend,
            WritePacketHead, WritePacketBody, WriteLastBody, PacketFails
  <2>6. CASE UNCHANGED vars
    BY <2>1, <2>6 DEF vars
  <2> QED BY <1>1, <2>2, <2>3, <2>4, <2>5, <2>6 DEF Next
<1> QED BY <1>1, Invariance, PTL DEF Spec

\* Only a failed write on a broken socket stores ST_DEAD, and no step but
\* Release, which also resets the state, mends a socket.
DeadIsBroken == \A s \in Sessions : state[s] = "DEAD" => Reset(s)

LEMMA DeadPreserved ==
    ASSUME DeadIsBroken, IInv, [Next]_vars
    PROVE  DeadIsBroken'
<1> USE DEF IInv
<1>1. CASE UNCHANGED <<state, peer>>
    BY <1>1 DEF DeadIsBroken, Reset
<1>2. CASE AcceptStep
  <2>1. CASE UndoAccept
    BY <2>1 DEF DeadIsBroken, Reset, TypeOK, UndoAccept, Release
  <2>2. CASE (\E s \in Sessions : Accept(s)) \/ AcceptError \/ InsertSession \/ Spawn
    BY <1>1, <2>2 DEF Accept, AcceptError, InsertSession, Spawn
  <2> QED BY <1>2, <2>1, <2>2 DEF AcceptStep
<1>3. ASSUME NEW s \in Sessions, ClientStep(s) PROVE DeadIsBroken'
  <2>1. CASE StoreState(s)
    BY <2>1 DEF DeadIsBroken, Reset, TypeOK, StoreState, NewState
  <2>2. CASE FreeSession(s)
    BY <2>2 DEF DeadIsBroken, Reset, TypeOK, FreeSession, Release
  <2>3. CASE \/ ReadRequest(s) \/ ReadError(s) \/ ReadTimeout(s) \/ FindMount(s)
            \/ BindMount(s) \/ SnapshotParams(s) \/ EncodeSdp(s) \/ LockReply(s)
            \/ WriteReplyHead(s) \/ WriteReplyBody(s) \/ ReplyFails(s)
            \/ RemoveSession(s)
    BY <1>1, <2>3 DEF ReadRequest, ReadError, ReadTimeout, FindMount, BindMount,
       SnapshotParams, EncodeSdp, LockReply, StateKept, WriteReplyHead, BeginUnit,
       PutHead, WriteReplyBody, EndUnit, ReplyFails, GiveUpUnit, RemoveSession
  <2> QED BY <1>3, <2>1, <2>2, <2>3 DEF ClientStep, ClientRuns
<1>4. ASSUME NEW s \in Sessions, PeerStep(s) PROVE DeadIsBroken'
    BY <1>4 DEF DeadIsBroken, Reset, TypeOK, PeerStep, Drain, HangUp, PeerKeeps
<1>5. ASSUME NEW m \in Mounts, FeederStep(m) PROVE DeadIsBroken'
  <2>1. CASE PacketFails(m)
    BY <2>1, ConstantsOK
       DEF DeadIsBroken, Reset, TypeOK, WalkInv, PacketFails, GiveUpUnit
  <2>2. CASE \/ FeedNal(m) \/ LockServer(m) \/ SkipSession(m) \/ PickSession(m)
            \/ LockSend(m) \/ WritePacketHead(m) \/ WritePacketBody(m)
            \/ WriteLastBody(m) \/ UnlockServer(m)
    BY <1>1, <2>2 DEF FeedNal, LockServer, SkipSession, PickSession, LockSend,
       WritePacketHead, BeginUnit, PutHead, WritePacketBody, EndUnit, WriteLastBody,
       UnlockServer, LeaveSession
  <2> QED BY <1>5, <2>1, <2>2 DEF FeederStep, FeederRuns
<1>6. CASE UNCHANGED vars
    BY <1>1, <1>6 DEF vars
<1> QED BY <1>2, <1>3, <1>4, <1>5, <1>6 DEF Next

NothingOnBroken ==
    \A s \in Sessions :
        Reset(s) /\ mem'[s] = "live" =>
            Reset(s)' /\ full'[s] = full[s] /\ answered'[s] = answered[s]

\* Whatever PLAY stores over a feeder's ST_DEAD, nothing more is written to the
\* connection until the client thread frees the session.
THEOREM DeadUnserved == Spec => DeadStaysUnserved
<1>1. Init => DeadIsBroken
    BY DEF Init, DeadIsBroken
<1>2. ASSUME IInv, [Next]_vars PROVE NothingOnBroken
  <2> USE <1>2 DEF IInv
  <2>1. CASE UNCHANGED <<answered, peer, full>>
    BY <2>1 DEF NothingOnBroken, Reset
  <2>2. CASE AcceptStep
    <3>1. CASE UndoAccept
      BY <3>1 DEF NothingOnBroken, Reset, TypeOK, AcceptInv, UndoAccept, Release
    <3>2. CASE \/ (\E s \in Sessions : Accept(s)) \/ AcceptError \/ InsertSession
               \/ Spawn
      BY <2>1, <3>2 DEF Accept, AcceptError, InsertSession, Spawn
    <3> QED BY <2>2, <3>1, <3>2 DEF AcceptStep
  <2>3. ASSUME NEW s \in Sessions, ClientStep(s) PROVE NothingOnBroken
    <3>1. CASE WriteReplyHead(s)
      BY <3>1 DEF NothingOnBroken, Reset, TypeOK, WriteReplyHead, BeginUnit, PutHead
    <3>2. CASE WriteReplyBody(s)
      BY <3>2 DEF NothingOnBroken, Reset, TypeOK, WriteReplyBody, EndUnit
    <3>3. CASE FreeSession(s)
      BY <3>3 DEF NothingOnBroken, Reset, TypeOK, FreeSession, Release
    <3>4. CASE \/ ReadRequest(s) \/ ReadError(s) \/ ReadTimeout(s) \/ FindMount(s)
               \/ BindMount(s) \/ SnapshotParams(s) \/ EncodeSdp(s) \/ LockReply(s)
               \/ ReplyFails(s) \/ StoreState(s) \/ RemoveSession(s)
      BY <2>1, <3>4 DEF ReadRequest, ReadError, ReadTimeout, FindMount, BindMount,
         SnapshotParams, EncodeSdp, LockReply, ReplyFails, GiveUpUnit, StoreState,
         RemoveSession
    <3> QED BY <2>3, <3>1, <3>2, <3>3, <3>4 DEF ClientStep, ClientRuns
  <2>4. ASSUME NEW s \in Sessions, PeerStep(s) PROVE NothingOnBroken
    BY <2>4 DEF NothingOnBroken, Reset, TypeOK, PeerStep, Drain, HangUp, PeerKeeps
  <2>5. ASSUME NEW m \in Mounts, FeederStep(m) PROVE NothingOnBroken
    <3>1. CASE WritePacketHead(m)
      BY <3>1 DEF NothingOnBroken, Reset, TypeOK, WritePacketHead, BeginUnit, PutHead
    <3>2. CASE WritePacketBody(m)
      BY <3>2 DEF NothingOnBroken, Reset, TypeOK, WritePacketBody, EndUnit
    <3>3. CASE WriteLastBody(m)
      BY <3>3 DEF NothingOnBroken, Reset, TypeOK, WriteLastBody, EndUnit, LeaveSession
    <3>4. CASE \/ FeedNal(m) \/ LockServer(m) \/ SkipSession(m) \/ PickSession(m)
               \/ LockSend(m) \/ PacketFails(m) \/ UnlockServer(m)
      BY <2>1, <3>4 DEF FeedNal, LockServer, SkipSession, PickSession, LockSend,
         PacketFails, GiveUpUnit, LeaveSession, UnlockServer
    <3> QED BY <2>5, <3>1, <3>2, <3>3, <3>4 DEF FeederStep, FeederRuns
  <2>6. CASE UNCHANGED vars
    BY <2>1, <2>6 DEF vars
  <2> QED BY <1>2, <2>2, <2>3, <2>4, <2>5, <2>6 DEF Next
<1>3. ASSUME DeadIsBroken, IInv, [Next]_vars PROVE NothingSentOn
    BY <1>2, <1>3 DEF DeadIsBroken, NothingOnBroken, NothingSentOn
<1> QED BY <1>1, <1>3, DeadPreserved, Invariance, PTL DEF Spec, DeadStaysUnserved
=============================================================================

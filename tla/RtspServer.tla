----------------------------- MODULE RtspServer -----------------------------
(***************************************************************************)
(* The RTSP/RTP server of rtsp_server.c and its threads: the accept loop,  *)
(* one client thread per session (it reads requests, writes replies, and   *)
(* at the end unlinks, closes and frees the session), and one feeder per   *)
(* mount (the streaming thread inside rtsp_server_feed_nal, which walks    *)
(* srv->sessions under srv->lock and writes RTP packets under send_lock).  *)
(*                                                                         *)
(* A member of Sessions is an address at which a session struct can live.  *)
(* A unit on the TCP stream (a reply, or an interleaved RTP packet) goes   *)
(* out in two halves, so that a full socket can refuse the second.  RTP    *)
(* header fields, ssrc included, and message texts are left out.           *)
(***************************************************************************)
EXTENDS Integers

CONSTANTS
    Sessions,   \* addresses of rtsp_session structs
    Mounts,     \* mount points; each is fed by one streaming thread
    Bufs,       \* addresses of the stored copy of a parameter set
    Methods,    \* the request methods clients use, of AllMethods
    Hangups,    \* how connections end: "fin" (closed by the peer), "reset"
    SockCap,    \* halves of a unit that fit in a socket's send buffer
    MaxFrags,   \* most RTP packets one NAL is split into
    Client,     \* the owner "the session's client thread"
    Nobody      \* the null pointer, and the owner of a free lock

\* OPTIONS stands for every request that is only answered: OPTIONS, PAUSE,
\* GET_PARAMETER (200) and an unknown method (405).
AllMethods == {"OPTIONS", "DESCRIBE", "SETUP", "PLAY", "TEARDOWN"}

ASSUME ConstantsOK ==
    /\ Methods \subseteq AllMethods /\ Hangups \subseteq {"fin", "reset"}
    /\ SockCap \in Nat \ {0} /\ MaxFrags \in Nat \ {0}
    /\ Nobody \notin Sessions \cup Mounts \cup Bufs
    /\ Client \notin Mounts \cup {Nobody}

\* A request in hand: its method, the mount its URL names (Nobody: unknown
\* path), and whether it is answered 200.
Requests == [method : AllMethods, path : Mounts \cup {Nobody}, ok : BOOLEAN]
NoRequest == [method |-> "OPTIONS", path |-> Nobody, ok |-> TRUE]

VARIABLES
    srvLock,    \* srv->lock: the feeder holding it (other holders are one step)
    sessions,   \* srv->sessions
    stored,     \* per mount: the stored SPS (or PPS) copy
    mem,        \* per session: "free" or "live" memory
    state,      \* per session: s->state
    mount,      \* per session: s->mount
    answered,   \* per session, history: a PLAY has been answered 200 in full
    sendLock,   \* per session: the holder of s->send_lock
    peer,       \* per socket: "up", or how the connection ended
    full,       \* per socket: halves of units sent and not read by the peer
    unit,       \* per socket: who has written only the first half of a unit
    stream,     \* per socket: what the bytes sent are worth, see PutHead
    apc, acc,   \* accept loop: where it is, and the session it is setting up
    cpc, req,   \* client threads: where each is, and the request in hand
    snap,       \* client threads: build_sdp's copy of the mount's sps pointer
    fpc, cur,   \* feeders: where each is, and the session it points to
    seen,       \* feeders: the sessions this walk of the list has passed
    left        \* feeders: RTP packets still to write to cur

session == <<mem, state, mount, answered>>
socket == <<peer, full, unit, stream>>
accepter == <<apc, acc>>
client == <<cpc, req, snap>>
feeder == <<fpc, cur, seen, left>>
vars == <<srvLock, sessions, stored, session, sendLock, socket, accepter, client, feeder>>

TypeOK ==
    /\ srvLock \in Mounts \cup {Nobody}
    /\ sessions \in SUBSET Sessions
    /\ stored \in [Mounts -> Bufs \cup {Nobody}]
    /\ mem \in [Sessions -> {"free", "live"}]
    /\ state \in [Sessions -> {"DEAD", "INIT", "READY", "PLAYING"}]
    /\ mount \in [Sessions -> Mounts \cup {Nobody}]
    /\ answered \in [Sessions -> BOOLEAN]
    /\ sendLock \in [Sessions -> Mounts \cup {Client, Nobody}]
    /\ peer \in [Sessions -> {"up", "fin", "reset"}]
    /\ full \in [Sessions -> 0 .. SockCap]
    /\ unit \in [Sessions -> Mounts \cup {Client, Nobody}]
    /\ stream \in [Sessions -> {"clean", "cut", "torn", "mixed"}]
    /\ apc \in {"accept", "insert", "spawn", "unlink", "stopped"}
    /\ acc \in Sessions \cup {Nobody}
    /\ cpc \in [Sessions -> {"none", "read", "find", "bind", "snapshot", "encode",
                             "lock", "head", "body", "store", "remove", "close"}]
    /\ req \in [Sessions -> Requests]
    /\ snap \in [Sessions -> Bufs \cup {Nobody}]
    /\ fpc \in [Mounts -> {"idle", "enter", "walk", "lock", "head", "body"}]
    /\ cur \in [Mounts -> Sessions \cup {Nobody}]
    /\ seen \in [Mounts -> SUBSET Sessions]
    /\ left \in [Mounts -> 0 .. MaxFrags]

Init ==
    /\ srvLock = Nobody
    /\ sessions = {}
    /\ stored = [m \in Mounts |-> Nobody]
    /\ mem = [s \in Sessions |-> "free"]
    /\ state = [s \in Sessions |-> "INIT"]
    /\ mount = [s \in Sessions |-> Nobody]
    /\ answered = [s \in Sessions |-> FALSE]
    /\ sendLock = [s \in Sessions |-> Nobody]
    /\ peer = [s \in Sessions |-> "up"]
    /\ full = [s \in Sessions |-> 0]
    /\ unit = [s \in Sessions |-> Nobody]
    /\ stream = [s \in Sessions |-> "clean"]
    /\ apc = "accept" /\ acc = Nobody
    /\ cpc = [s \in Sessions |-> "none"]
    /\ req = [s \in Sessions |-> NoRequest]
    /\ snap = [s \in Sessions |-> Nobody]
    /\ fpc = [m \in Mounts |-> "idle"]
    /\ cur = [m \in Mounts |-> Nobody]
    /\ seen = [m \in Mounts |-> {}]
    /\ left = [m \in Mounts |-> 0]

-----------------------------------------------------------------------------
(* The socket and its locks.                                               *)

Room(s) == full[s] < SockCap
Reset(s) == peer[s] = "reset"

\* Thread t writes the first half of a unit.  What follows a unit cut short
\* is read as its missing half: the stream is torn.  A unit begun inside one
\* that another thread is still writing mixes the two.
PutHead(s, t) ==
    /\ full' = [full EXCEPT ![s] = @ + 1]
    /\ unit' = [unit EXCEPT ![s] = t]
    /\ stream' = [stream EXCEPT ![s] =
                    IF unit[s] # Nobody THEN "mixed"
                    ELSE IF @ = "cut" THEN "torn" ELSE @]
    /\ UNCHANGED peer

BeginUnit(s, t) == Room(s) /\ PutHead(s, t)

EndUnit(s, t) ==
    /\ Room(s)
    /\ full' = [full EXCEPT ![s] = @ + 1]
    /\ unit' = [unit EXCEPT ![s] = Nobody]
    /\ stream' = [stream EXCEPT ![s] = IF unit[s] = t THEN @ ELSE "mixed"]
    /\ UNCHANGED peer

\* A write fails; if it was of a second half, the unit stays cut short.
GiveUpUnit(s, begun) ==
    /\ unit' = [unit EXCEPT ![s] = IF begun THEN Nobody ELSE @]
    /\ stream' = [stream EXCEPT ![s] = IF begun /\ @ = "clean" THEN "cut" ELSE @]
    /\ UNCHANGED <<peer, full>>

\* srv->lock can be taken; s's send_lock can be taken; it is released.
ServerFree == srvLock = Nobody

SendFreeIgnored(s) == TRUE
SendFree(s) == sendLock[s] = Nobody

UnlockForgotten(s) == UNCHANGED sendLock
Unlock(s) == sendLock' = [sendLock EXCEPT ![s] = Nobody]

\* The peer reads from the connection, or the connection ends.
PeerKeeps == UNCHANGED <<unit, stream, srvLock, sessions, stored, session, sendLock,
                         accepter, client, feeder>>

Drain(s) ==
    /\ mem[s] = "live" /\ peer[s] = "up" /\ full[s] > 0
    /\ full' = [full EXCEPT ![s] = @ - 1]
    /\ UNCHANGED peer /\ PeerKeeps

HangUp(s, how) ==
    /\ mem[s] = "live" /\ ~Reset(s)
    /\ how = "fin" => peer[s] = "up"
    /\ peer' = [peer EXCEPT ![s] = how]
    /\ UNCHANGED full /\ PeerKeeps

-----------------------------------------------------------------------------
(* The accept loop: rtsp_server_start.                                     *)

\* close(fd), free(s).  Struct and socket are put back to what the next
\* accept and calloc at this address make of them.
Release(s) ==
    /\ mem' = [mem EXCEPT ![s] = "free"]
    /\ state' = [state EXCEPT ![s] = "INIT"]
    /\ mount' = [mount EXCEPT ![s] = Nobody]
    /\ answered' = [answered EXCEPT ![s] = FALSE]
    /\ peer' = [peer EXCEPT ![s] = "up"]
    /\ full' = [full EXCEPT ![s] = 0]
    /\ unit' = [unit EXCEPT ![s] = Nobody]
    /\ stream' = [stream EXCEPT ![s] = "clean"]
    /\ UNCHANGED sendLock

Accept(s) ==
    /\ apc = "accept" /\ mem[s] = "free"
    /\ apc' = "insert" /\ acc' = s
    /\ mem' = [mem EXCEPT ![s] = "live"]
    /\ UNCHANGED <<srvLock, sessions, stored, state, mount, answered, sendLock, socket,
                   client, feeder>>

\* accept() fails with anything but EINTR: the loop ends and nobody restarts it.
AcceptError ==
    /\ apc = "accept"
    /\ apc' = "stopped"
    /\ UNCHANGED <<srvLock, sessions, stored, session, sendLock, socket, acc, client,
                   feeder>>

InsertSession ==
    /\ apc = "insert" /\ ServerFree
    /\ sessions' = sessions \cup {acc}
    /\ apc' = "spawn"
    /\ UNCHANGED <<srvLock, stored, session, sendLock, socket, acc, client, feeder>>

\* pthread_create starts client_thread, or fails.
Spawn ==
    /\ apc = "spawn"
    /\ \/ cpc' = [cpc EXCEPT ![acc] = "read"] /\ apc' = "accept" /\ acc' = Nobody
       \/ apc' = "unlink" /\ UNCHANGED <<acc, cpc>>
    /\ UNCHANGED <<srvLock, sessions, stored, session, sendLock, socket, req, snap,
                   feeder>>

\* The failure path frees the session it has just linked.
UnlinkForgotten == sessions
Unlinked == sessions \ {acc}

UndoAccept ==
    /\ apc = "unlink" /\ ServerFree
    /\ sessions' = Unlinked
    /\ Release(acc)
    /\ apc' = "accept" /\ acc' = Nobody
    /\ UNCHANGED <<srvLock, stored, client, feeder>>

-----------------------------------------------------------------------------
(* A client thread: read_next, handle_request, rtsp_reply.                 *)

ClientKeeps == UNCHANGED <<srvLock, stored, accepter, feeder>>

\* A request arrives.  PLAY tests the state here, before it replies.
ReadRequest(s) ==
    /\ cpc[s] = "read" /\ ~Reset(s)
    /\ \E method \in Methods, path \in Mounts \cup {Nobody} :
          LET looksUp == method \in {"DESCRIBE", "SETUP"} IN
          /\ looksUp \/ path = Nobody
          /\ req' = [req EXCEPT ![s] =
                       [method |-> method, path |-> path,
                        ok |-> method = "PLAY" => state[s] \in {"READY", "PLAYING"}]]
          /\ cpc' = [cpc EXCEPT ![s] = IF looksUp THEN "find" ELSE "lock"]
    /\ UNCHANGED <<sessions, session, sendLock, socket, snap>> /\ ClientKeeps

\* The thread ends on end of file or a socket error; and after SOCK_TIMEOUT_MS
\* of silence, inside an interleaved frame always (inside), elsewhere only if
\* the session is not playing.
SocketEndedByReset(s) == Reset(s)
SocketEnded(s) == peer[s] # "up"

ReadError(s) ==
    /\ cpc[s] = "read" /\ SocketEnded(s)
    /\ cpc' = [cpc EXCEPT ![s] = "remove"]
    /\ UNCHANGED <<sessions, session, sendLock, socket, req, snap>> /\ ClientKeeps

ReadTimeout(s) ==
    /\ cpc[s] = "read"
    /\ \E inside \in BOOLEAN : inside \/ state[s] # "PLAYING"
    /\ cpc' = [cpc EXCEPT ![s] = "remove"]
    /\ UNCHANGED <<sessions, session, sendLock, socket, req, snap>> /\ ClientKeeps

\* find_mount walks the mounts under srv->lock: 404 for an unknown path.
FindMount(s) ==
    /\ cpc[s] = "find" /\ ServerFree
    /\ req' = [req EXCEPT ![s] = [method |-> @.method, path |-> @.path,
                                  ok |-> @.path # Nobody]]
    /\ cpc' = [cpc EXCEPT ![s] =
                 IF req[s].path = Nobody THEN "lock"
                 ELSE IF req[s].method = "SETUP" THEN "bind" ELSE "snapshot"]
    /\ UNCHANGED <<sessions, session, sendLock, socket, snap>> /\ ClientKeeps

\* SETUP: s->mount = m, outside any lock and before the reply.
BindMount(s) ==
    /\ cpc[s] = "bind"
    /\ mount' = [mount EXCEPT ![s] = req[s].path]
    /\ cpc' = [cpc EXCEPT ![s] = "lock"]
    /\ UNCHANGED <<sessions, mem, state, answered, sendLock, socket, req, snap>>
    /\ ClientKeeps

\* DESCRIBE: build_sdp copies the pointer under mount->lock, and reads the
\* buffer behind it after the unlock.
SnapshotParams(s) ==
    /\ cpc[s] = "snapshot"
    /\ snap' = [snap EXCEPT ![s] = stored[req[s].path]]
    /\ cpc' = [cpc EXCEPT ![s] = "encode"]
    /\ UNCHANGED <<sessions, session, sendLock, socket, req>> /\ ClientKeeps

EncodeSdp(s) ==
    /\ cpc[s] = "encode"
    /\ snap' = [snap EXCEPT ![s] = Nobody]
    /\ cpc' = [cpc EXCEPT ![s] = "lock"]
    /\ UNCHANGED <<sessions, session, sendLock, socket, req>> /\ ClientKeeps

\* What the handler does once its reply is out, and the state it stores.
AfterReply(r) ==
    CASE r.method = "TEARDOWN" -> "remove"
      [] r.method \in {"SETUP", "PLAY"} /\ r.ok -> "store"
      [] OTHER -> "read"

NewState(r) == IF r.method = "SETUP" THEN "READY" ELSE "PLAYING"

\* rtsp_reply takes send_lock and keeps it until write_all returns.
StateStoredEarly(s) ==
    state' = [state EXCEPT ![s] =
                IF AfterReply(req[s]) = "store" THEN NewState(req[s]) ELSE @]

StateKept(s) == UNCHANGED state

LockReply(s) ==
    /\ cpc[s] = "lock" /\ SendFree(s)
    /\ sendLock' = [sendLock EXCEPT ![s] = Client]
    /\ cpc' = [cpc EXCEPT ![s] = "head"]
    /\ StateKept(s)
    /\ UNCHANGED <<sessions, mem, mount, answered, socket, req, snap>> /\ ClientKeeps

WriteReplyHead(s) ==
    /\ cpc[s] = "head" /\ ~Reset(s)
    /\ BeginUnit(s, Client)
    /\ cpc' = [cpc EXCEPT ![s] = "body"]
    /\ UNCHANGED <<sessions, session, sendLock, req, snap>> /\ ClientKeeps

WriteReplyBody(s) ==
    /\ cpc[s] = "body" /\ ~Reset(s)
    /\ EndUnit(s, Client) /\ Unlock(s)
    /\ cpc' = [cpc EXCEPT ![s] = AfterReply(req[s])]
    /\ req' = [req EXCEPT ![s] = IF AfterReply(@) = "store" THEN @ ELSE NoRequest]
    /\ answered' = [answered EXCEPT ![s] = @ \/ (req[s].method = "PLAY" /\ req[s].ok)]
    /\ UNCHANGED <<sessions, mem, state, mount, snap>> /\ ClientKeeps

\* write_all fails on a dead connection, and when the socket stays full for
\* SOCK_TIMEOUT_MS.  Every handler returns the failure and the thread ends.
WriteHopelessIfReset(s) == Reset(s)
WriteHopeless(s) == Reset(s) \/ ~Room(s)

ReplyFails(s) ==
    /\ cpc[s] \in {"head", "body"} /\ WriteHopeless(s)
    /\ GiveUpUnit(s, cpc[s] = "body") /\ Unlock(s)
    /\ cpc' = [cpc EXCEPT ![s] = "remove"]
    /\ req' = [req EXCEPT ![s] = NoRequest]
    /\ UNCHANGED <<sessions, session, snap>> /\ ClientKeeps

\* atomic_store of READY or PLAYING, whatever the state is by now.
StoreState(s) ==
    /\ cpc[s] = "store"
    /\ state' = [state EXCEPT ![s] = NewState(req[s])]
    /\ cpc' = [cpc EXCEPT ![s] = "read"]
    /\ req' = [req EXCEPT ![s] = NoRequest]
    /\ UNCHANGED <<sessions, mem, mount, answered, sendLock, socket, snap>> /\ ClientKeeps

RemoveSession(s) ==
    /\ cpc[s] = "remove" /\ ServerFree
    /\ sessions' = sessions \ {s}
    /\ cpc' = [cpc EXCEPT ![s] = "close"]
    /\ UNCHANGED <<session, sendLock, socket, req, snap>> /\ ClientKeeps

FreeSession(s) ==
    /\ cpc[s] = "close"
    /\ Release(s)
    /\ cpc' = [cpc EXCEPT ![s] = "none"]
    /\ UNCHANGED <<sessions, req, snap>> /\ ClientKeeps

-----------------------------------------------------------------------------
(* A feeder: rtsp_server_feed_nal, send_single, send_fua.                  *)

FeedKeeps == UNCHANGED <<sessions, accepter, client, mem, mount, answered>>

\* A NAL arrives.  Under mount->lock, the first SPS and the first PPS are
\* copied (malloc may fail); both go through the same code, one stands for both.
LatestParams(m) == Bufs \cup {Nobody}
FirstParams(m) == IF stored[m] = Nobody THEN Bufs \cup {Nobody} ELSE {stored[m]}

FeedNal(m) ==
    /\ fpc[m] = "idle"
    /\ \E b \in FirstParams(m) \cup {stored[m]} : stored' = [stored EXCEPT ![m] = b]
    /\ fpc' = [fpc EXCEPT ![m] = "enter"]
    /\ UNCHANGED <<srvLock, state, sendLock, socket, cur, seen, left>> /\ FeedKeeps

LockServer(m) ==
    /\ fpc[m] = "enter" /\ ServerFree
    /\ srvLock' = m
    /\ fpc' = [fpc EXCEPT ![m] = "walk"]
    /\ UNCHANGED <<stored, state, sendLock, socket, cur, seen, left>> /\ FeedKeeps

WantsAnyMount(m, s) == state[s] = "PLAYING"
Wants(m, s) == mount[s] = m /\ state[s] = "PLAYING"

SkipSession(m) ==
    /\ fpc[m] = "walk"
    /\ \E s \in sessions \ seen[m] : ~Wants(m, s) /\ seen' = [seen EXCEPT ![m] = @ \cup {s}]
    /\ UNCHANGED <<srvLock, stored, state, sendLock, socket, fpc, cur, left>> /\ FeedKeeps

PickSession(m) ==
    /\ fpc[m] = "walk"
    /\ \E s \in sessions \ seen[m] : Wants(m, s) /\ cur' = [cur EXCEPT ![m] = s]
    /\ fpc' = [fpc EXCEPT ![m] = "lock"]
    /\ UNCHANGED <<srvLock, stored, state, sendLock, socket, seen, left>> /\ FeedKeeps

\* send_lock is kept for the whole NAL: one packet, or its FU-A fragments.
LockSend(m) ==
    /\ fpc[m] = "lock" /\ SendFree(cur[m])
    /\ sendLock' = [sendLock EXCEPT ![cur[m]] = m]
    /\ \E n \in 1 .. MaxFrags : left' = [left EXCEPT ![m] = n]
    /\ fpc' = [fpc EXCEPT ![m] = "head"]
    /\ UNCHANGED <<srvLock, stored, state, socket, cur, seen>> /\ FeedKeeps

WritePacketHead(m) ==
    /\ fpc[m] = "head" /\ ~Reset(cur[m])
    /\ BeginUnit(cur[m], m)
    /\ fpc' = [fpc EXCEPT ![m] = "body"]
    /\ UNCHANGED <<srvLock, stored, state, sendLock, cur, seen, left>> /\ FeedKeeps

\* send_lock is released and the walk goes on with the next session.
LeaveSession(m) ==
    /\ Unlock(cur[m])
    /\ seen' = [seen EXCEPT ![m] = @ \cup {cur[m]}]
    /\ cur' = [cur EXCEPT ![m] = Nobody]
    /\ left' = [left EXCEPT ![m] = 0]
    /\ fpc' = [fpc EXCEPT ![m] = "walk"]
    /\ UNCHANGED <<srvLock, stored>> /\ FeedKeeps

WritePacketBody(m) ==
    /\ fpc[m] = "body" /\ ~Reset(cur[m]) /\ left[m] > 1
    /\ EndUnit(cur[m], m)
    /\ left' = [left EXCEPT ![m] = @ - 1]
    /\ fpc' = [fpc EXCEPT ![m] = "head"]
    /\ UNCHANGED <<srvLock, stored, state, sendLock, cur, seen>> /\ FeedKeeps

WriteLastBody(m) ==
    /\ fpc[m] = "body" /\ ~Reset(cur[m]) /\ left[m] = 1
    /\ EndUnit(cur[m], m)
    /\ UNCHANGED state /\ LeaveSession(m)

\* The bug: a full socket is taken for a broken one.
PacketFailsDead(m) ==
    /\ fpc[m] \in {"head", "body"} /\ (Reset(cur[m]) \/ ~Room(cur[m]))
    /\ state' = [state EXCEPT ![cur[m]] = "DEAD"]
    /\ GiveUpUnit(cur[m], fpc[m] = "body")
    /\ LeaveSession(m)

\* EAGAIN: the rest of the NAL is dropped.  Any other error: ST_DEAD as well.
PacketFails(m) ==
    /\ fpc[m] \in {"head", "body"}
    /\ \/ Reset(cur[m]) /\ state' = [state EXCEPT ![cur[m]] = "DEAD"]
       \/ ~Reset(cur[m]) /\ ~Room(cur[m]) /\ UNCHANGED state
    /\ GiveUpUnit(cur[m], fpc[m] = "body")
    /\ LeaveSession(m)

UnlockServer(m) ==
    /\ fpc[m] = "walk" /\ sessions \subseteq seen[m]
    /\ srvLock' = Nobody
    /\ seen' = [seen EXCEPT ![m] = {}]
    /\ fpc' = [fpc EXCEPT ![m] = "idle"]
    /\ UNCHANGED <<stored, state, sendLock, socket, cur, left>> /\ FeedKeeps

-----------------------------------------------------------------------------
AcceptStep ==
    \/ \E s \in Sessions : Accept(s)
    \/ AcceptError \/ InsertSession \/ Spawn \/ UndoAccept

\* What a client thread, and a feeder, does by itself.
ClientRuns(s) ==
    \/ FindMount(s) \/ BindMount(s) \/ SnapshotParams(s) \/ EncodeSdp(s)
    \/ LockReply(s) \/ WriteReplyHead(s) \/ WriteReplyBody(s) \/ ReplyFails(s)
    \/ StoreState(s) \/ RemoveSession(s) \/ FreeSession(s)

FeederRuns(m) ==
    \/ LockServer(m) \/ SkipSession(m) \/ PickSession(m) \/ LockSend(m)
    \/ WritePacketHead(m) \/ WritePacketBody(m) \/ WriteLastBody(m) \/ PacketFails(m)
    \/ UnlockServer(m)

ClientStep(s) == ReadRequest(s) \/ ReadError(s) \/ ReadTimeout(s) \/ ClientRuns(s)

PeerStep(s) == Drain(s) \/ \E how \in Hangups : HangUp(s, how)

FeederStep(m) == FeedNal(m) \/ FeederRuns(m)

Next ==
    \/ AcceptStep
    \/ \E s \in Sessions : ClientStep(s) \/ PeerStep(s)
    \/ \E m \in Mounts : FeederStep(m)

Spec == Init /\ [][Next]_vars

\* A thread that can go on does, and a waiter for a mutex gets it in the end:
\* the feeders take srv->lock some hundred times a second and sleep in
\* between.  Requests, peers and new NALs are the environment's.
Fairness ==
    /\ WF_vars(Spawn) /\ SF_vars(InsertSession) /\ SF_vars(UndoAccept)
    /\ \A s \in Sessions :
          /\ WF_vars(ClientRuns(s)) /\ SF_vars(ReadError(s))
          /\ SF_vars(FindMount(s)) /\ SF_vars(RemoveSession(s)) /\ SF_vars(LockReply(s))
    /\ \A m \in Mounts :
          /\ WF_vars(FeederRuns(m)) /\ SF_vars(LockServer(m)) /\ SF_vars(LockSend(m))

FairSpec == Spec /\ Fairness

-----------------------------------------------------------------------------
(* Properties.                                                             *)

\* Every pointer a thread may follow leads to a live session struct: a
\* feeder's cursor (which is also still on the list), the list itself, the
\* accept loop's new session and the one a client thread runs for.  This is
\* what srv->lock around the whole walk, and remove_session before free, buy.
PointersLive ==
    /\ \A m \in Mounts : cur[m] # Nobody => cur[m] \in sessions
    /\ \A s \in sessions : mem[s] = "live"
    /\ acc # Nobody => mem[acc] = "live"
    /\ \A s \in Sessions : cpc[s] # "none" => mem[s] = "live"

\* Lock order srv->lock, then send_lock: a feeder holds a send_lock only
\* inside its walk, and a client thread holds its own only while it writes
\* its reply, so it never waits for srv->lock (find_mount, remove_session)
\* with it, on the failure paths either.
LockOrder ==
    \A s \in Sessions :
        /\ sendLock[s] = Client => cpc[s] \in {"head", "body"}
        /\ sendLock[s] \in Mounts => srvLock = sendLock[s] /\ cur[srvLock] = s

\* Replies and RTP packets share a connection: bytes of one never land
\* inside another that is still being written (what send_lock is for).
NoMixedUnits == \A s \in Sessions : stream[s] # "mixed"

\* No RTP goes to a session before its client has been sent a complete 200
\* reply to a PLAY (handle_request stores ST_PLAYING after rtsp_reply).
RtpAfterPlayReply ==
    \A m \in Mounts : cur[m] # Nobody => answered[cur[m]]

\* build_sdp encodes a parameter set through a pointer it copied under the
\* lock and uses after it: that buffer must still be the mount's (a first
\* SPS or PPS is kept, never replaced or freed).
SnapshotValid ==
    \A s \in Sessions :
        cpc[s] = "encode" /\ snap[s] # Nobody => snap[s] = stored[req[s].path]

\* A session that is ready or playing has a mount: the feeders find it, and
\* PLAY's fallback path for a session without one is never used.
PlayingIsBound ==
    \A s \in Sessions : state[s] \in {"READY", "PLAYING"} => mount[s] \in Mounts

\* PLAY tests the state before its reply and stores ST_PLAYING after it, so it
\* can overwrite the ST_DEAD of a feeder (rtsp_server.c:476, 490), and not only
\* once.  That revives nothing: ST_DEAD is stored for broken connections only,
\* and on a session that holds it, or whose connection is broken whatever it
\* holds now, no byte more goes out and no PLAY is answered before the client
\* thread has freed it.
NothingSentOn ==
    \A s \in Sessions :
        (state[s] = "DEAD" \/ Reset(s)) /\ mem'[s] = "live" =>
            Reset(s)' /\ full'[s] = full[s] /\ answered'[s] = answered[s]

DeadStaysUnserved == [][NothingSentOn]_vars

\* The server implements what RtspContract promises of each connection.
Phase == [s \in Sessions |-> IF mem[s] = "live" THEN state[s] ELSE "ABSENT"]
Sending == [s \in Sessions |-> {m \in Mounts : cur[m] = s}]
Contract ==
    INSTANCE RtspContract WITH phase <- Phase, bound <- mount, sending <- Sending

ImplementsContract == Contract!CSpec

\* rtsp_server_feed_nal always comes back, whatever the clients do: a reply
\* in its way is written or gives up after SOCK_TIMEOUT_MS.
FeedReturns == \A m \in Mounts : fpc[m] = "enter" ~> fpc[m] = "idle"

\* A connection that has ended is cleaned up and its memory released.
HungUpFreed == \A s \in Sessions : peer[s] # "up" ~> mem[s] = "free"

\* A request is answered or its connection is closed.
RequestEnds ==
    \A s \in Sessions : cpc[s] \notin {"read", "none"} ~> cpc[s] \in {"read", "none"}

\* What README.md:53 says of slow clients (a frame is dropped whole): a
\* session in service never has bytes written after half a packet.
WholeUnits ==
    \A s \in Sessions : stream[s] = "torn" => cpc[s] \in {"remove", "close"}

-----------------------------------------------------------------------------
(* The inductive invariant behind the safety properties, by part.          *)

\* The accept loop's cursor, and who is on the list and in memory.
AcceptInv ==
    /\ apc \in {"insert", "spawn", "unlink"} <=> acc # Nobody
    /\ acc # Nobody => cpc[acc] = "none"
    /\ \A s \in Sessions :
          /\ mem[s] = "live" <=> s = acc \/ cpc[s] # "none"
          /\ s \in sessions <=> cpc[s] \notin {"none", "close"} \/ (s = acc /\ apc # "insert")

\* A feeder is inside its walk exactly while it holds srv->lock, and points
\* only to sessions on the list.
WalkInv ==
    \A m \in Mounts :
        /\ fpc[m] \in {"walk", "lock", "head", "body"} <=> srvLock = m
        /\ fpc[m] \in {"lock", "head", "body"} <=> cur[m] # Nobody
        /\ cur[m] # Nobody => cur[m] \in sessions
        /\ fpc[m] \in {"head", "body"} => left[m] >= 1

\* Who holds a send_lock, and who has an unfinished unit on the stream.
SendInv ==
    \A s \in Sessions :
        /\ sendLock[s] = Client <=> cpc[s] \in {"head", "body"}
        /\ unit[s] = Client <=> cpc[s] = "body"
        /\ \A m \in Mounts :
              /\ sendLock[s] = m <=> cur[m] = s /\ fpc[m] \in {"head", "body"}
              /\ unit[s] = m <=> cur[m] = s /\ fpc[m] = "body"

\* How far the request in hand has come, and what that says of the session.
RequestInv ==
    \A s \in Sessions :
        /\ cpc[s] = "bind" => req[s].method = "SETUP" /\ req[s].path \in Mounts
        /\ cpc[s] \in {"snapshot", "encode"} =>
              req[s].method = "DESCRIBE" /\ req[s].path \in Mounts
        /\ cpc[s] = "find" => req[s].method \in {"DESCRIBE", "SETUP"}
        /\ cpc[s] = "store" => req[s].ok /\ req[s].method \in {"SETUP", "PLAY"}
        /\ cpc[s] \in {"lock", "head", "body", "store"} =>
              (req[s].method \in {"SETUP", "PLAY"} /\ req[s].ok => mount[s] \in Mounts)
        /\ cpc[s] = "store" /\ req[s].method = "PLAY" => answered[s]
        /\ state[s] = "PLAYING" => answered[s]

IInv ==
    /\ TypeOK /\ AcceptInv /\ WalkInv /\ SendInv /\ RequestInv
    /\ NoMixedUnits /\ RtpAfterPlayReply /\ SnapshotValid /\ PlayingIsBound
=============================================================================

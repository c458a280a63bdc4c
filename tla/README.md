# A verification project for rv1126-rtsp-mpp-display

The repository is a small surveillance camera on an RV1126 board: a producer
captures and encodes video and serves it over RTSP, a display process plays a
camera's stream on a panel, an ONVIF service answers discovery, media and PTZ
requests, a web back end shows and controls all of it.  This directory holds TLA+
models of the parts of it whose correctness depends on the order in which
threads, messages, timers and processes act, TLC runs that check them on small
instances, and TLAPS proofs for every value of the constants.

Paths below are relative to the repository root; line numbers are those of the
revision modelled.  `PROJECT.json` lists, for every definition of a module, the
lines it stands for.

## 1. The system

| Component | Source | State it keeps | Operations | Meets |
|---|---|---|---|---|
| RTSP/RTP server | `rtsp_server/rtsp_server.c` | list of sessions (`srv->lock`), per session `state`, `mount`, `seq/ts`, `send_lock`, per mount the SPS/PPS copies | accept loop, one thread per client (OPTIONS, DESCRIBE, SETUP, PLAY, TEARDOWN), `rtsp_server_feed_nal` | producer threads, sockets |
| Display process | `main.c` | `g_pipeline`, bus watch, `g_restart_source`, `g_retry_delay`, `frame_count`, `g_loop` | bus messages, restart timer, frame callback, watchdog thread, signals | GStreamer, `S99camera` |
| Camera producer | `rtsp_server/producer.c` | pipeline, latest JPEG slot, detection settings, PTZ command file | new sample, bus message, ONVIF callbacks, accept-loop thread | RTSP server, detector, ONVIF |
| NPU detector | `rtsp_server/npu/detect.c` | one-frame mailbox, result boxes, run flag | feed, get, thread, init, deinit | producer's streaming thread |
| ONVIF service | `rtsp_server/onvif.c` | preset table, day/night mode, the connection it serves | SOAP requests, HTTP preview, WS-Discovery | producer callbacks, `/tmp/ptz_dir` |
| Web back end | `src/web_rust/src/main.rs` | password hash, sessions, login failures, HLS and preview children and tokens, configuration | login, logout, change password, HLS and preview start/stop, connect, network, scan, auto-recover | `S99camera`, `gst-launch`, the display process |
| Process supervision | `src/web/S99camera`, `main.rs` (connect, auto-recover) | the processes themselves, `config.ini`, `last_connect.json`, the backlight | start, stop, watchdog, connect, recover | display, web back end, weston |
| Producer supervisor | `src/web/producer_watchdog.sh` | none | poll, restart | producer |
| NAL splitter | `rtsp_server/nal.c` | an array of units while it scans | `nal_split` | producer |
| Frame buffer and RGA | `fbdev.c`, `rga_convert.c` | mapped buffer, sticky `rga_ok` | show a frame | display |
| Configuration, log | `config.c`, `log.c` | file / rotating log | load, write | display, web |
| Detection post-processing | `npu/`, `npu_detect/` | none | tensors to boxes | detector |
| Tools and pages | `rtsp_server/webrtc_test.c`, `file_source.c`, `measure_*.py`, `static/` | | | |

(The web back end's and the supervisor's directories are below `src/` again:
`src/web_rust`, `src/web`.)

**How they interact.** The producer's two streaming threads call
`rtsp_server_feed_nal`, one per mount; that call walks the session list while
client threads come and go.  The sink's callback also feeds the detector's
mailbox and reads its boxes.  The ONVIF service calls back into the producer and
writes `/tmp/ptz_dir`, which the display polls.  The web back end starts, kills and
reconfigures the display process, whose own supervisor in `S99camera` starts it
again on its own account.

**What is hard, and what makes each part correct.**

- *RTSP server.*  Three kinds of threads share a session: its client thread, the
  feeders of all mounts, the accept loop.  Correct when no thread follows a
  pointer to a freed session, no two units mix on a socket, no RTP precedes the
  answer to PLAY, the locks are ordered, a feeder always comes back, a connection
  that ended is freed, and a request is answered or its connection closed.
- *Display.*  Messages of a pipeline that is gone, several messages of one
  failure, timers, an uncooperative decoder, and a watchdog that races with the
  recovery.  Correct when at most one restart is pending and only for a pipeline
  that failed, and a process that shows nothing ends in bounded time but never one
  that shows frames.
- *Detector.*  A one-place mailbox between a real-time thread and a slow one.
  Correct when a frame is never overwritten while it is read, no wake-up is lost, and
  what is shown never goes back to an older frame.
- *Web back end.*  Handlers run concurrently and keep their state under several
  mutexes that they release between a test and an update; the state includes child
  processes.  Correct when no child is lost, a token is only valid for the child it
  was made for, a changed password ends the old sessions, a lockout counts
  concurrent failures, and there is one display process.
- *ONVIF.*  One thread serves everybody; the preset table is searched by prefix and
  edited in place.  Correct when no client can keep the thread, tokens stay unique, a
  request changes one entry at most, and the screen follows the commands.
- *Supervision.*  Shell scripts and the web process look at one another with `pidof`,
  `pgrep` and `ss`, kill with `killall` and wait for a fixed time at most.  Correct when
  one display and one web process run, the files they restart from agree, the
  backlight is on, and both come back whatever dies.
- *NAL splitter.*  Correct when what is fed of a frame is all of it, and nothing leaks
  whatever fails.

The full list of hazards, each at the line where it bites and with the properties
that cover it, is under `hazards` in `PROJECT.json`.

## 2. Modules

| Module | What it is |
|---|---|
| `RtspContract` | abstract: what the server promises of each connection |
| `RtspServer` | the server: accept loop, client threads, feeders, sockets, locks |
| `MCRtspServer` | `RtspServer` with the symmetry sets its runs use |
| `RtspServerProofs` | the theorems about `RtspServer`, among them that it implements `RtspContract` |
| `Display` | the display process, its watchdog and `S99camera` |
| `DisplayProofs` | the theorems about `Display` |
| `WebPlayers` | the web back end's HLS and preview players |
| `WebPlayersProofs` | the theorems about `WebPlayers` |
| `FrameMailbox` | abstract: a mailbox of one place that holds the newest frame |
| `NpuDetect` | the person detector: the mailbox, the inference thread, the SDK's outputs |
| `NpuDetectProofs` | the theorems about `NpuDetect`, among them that it implements `FrameMailbox` |
| `PresetBook` | abstract: what the camera promises of its presets |
| `Onvif` | the ONVIF service: connections, requests, preset table, command file |
| `MCOnvif` | `Onvif` with the tokens and requests of its run |
| `OnvifProofs` | the theorems about `Onvif`, among them that it implements `PresetBook`, and about `PtzScreen` |
| `PtzScreen` | `Onvif` composed with the display's PTZ indicator |
| `MCPtzScreen` | `PtzScreen` with the tokens and requests of its run |
| `WebSession` | the web back end's login, sessions, lockout and change of password |
| `WebSessionProofs` | the theorems about `WebSession` |
| `Supervision` | `S99camera`, its watchdogs, connect, auto-recover, displays, weston |
| `SupervisionProofs` | the theorems about `Supervision` |
| `NalSplit` | the splitter and the streaming thread that calls it |
| `NalSplitProofs` | the theorems about `NalSplit` |

### `RtspServer` and the code

A member of `Sessions` is an *address* at which a `rtsp_session` can live, so that
a freed session may be allocated again at the same place, and a stale pointer to
it shows.  `mem` says whether it is allocated.  The threads:

- *Accept loop* (`rtsp_server_start`): `Accept`, `InsertSession`, `Spawn`, and,
  when `pthread_create` fails, `UndoAccept`; `AcceptError` is a failing `accept`,
  after which the loop is over for good.
- *Client thread* (`client_thread`, `handle_request`, `rtsp_reply`): `ReadRequest`
  (which includes PLAY's test of the state), then `FindMount` (DESCRIBE, SETUP),
  `BindMount` (SETUP's unlocked store of `s->mount`), `SnapshotParams` and
  `EncodeSdp` (DESCRIBE's copy of the parameter-set pointers under the lock and its
  use of them after), `LockReply`, `WriteReplyHead`, `WriteReplyBody`, `StoreState`
  (only after the reply); the failure paths `ReadError`, `ReadTimeout`,
  `ReplyFails`; the end, `RemoveSession` and `FreeSession`.
- *Feeder* (`rtsp_server_feed_nal`, `send_single`, `send_fua`): `FeedNal` keeps the
  first parameter sets, `LockServer`, then for every session on the list
  `SkipSession` or `PickSession`, `LockSend`, the packets of the NAL
  (`WritePacketHead`, `WritePacketBody`, `WriteLastBody`, `PacketFails`),
  `UnlockServer`.
- *Peers*: `Drain` reads, `HangUp` closes or resets.

A critical section of `srv->lock` that is straight-line code is one step; only a
feeder holds it across steps.  The session list is a set, since a walk's order is
the order of a list nobody promises.  A unit on the stream (a reply, or an
interleaved RTP frame) is two halves, the least that lets a full socket refuse the
rest of a unit, or another writer get in between.  `stream` is history: "cut" after
a unit was given up half-way, "torn" when more was written after it, "mixed" when
a unit was begun or ended in the middle of another thread's.  `answered` is history
too.

Left out: RTP header fields (sequence number, timestamp, SSRC), message texts and
the SDP's content, UDP transport (the code refuses it and answers like any other
reply), and the marker bit.

### `Display` and the code

`main` says where the main thread is: "boot" up to the watchdog thread's creation,
"ready" before and "created" after `g_loop` is set, "run" in the main loop,
"cleanup" after it, "hung" in a call that does not return (`set_state(NULL)` on a
stuck decoder, or `g_main_loop_quit` in a signal handler that interrupted the holder
of the lock it takes), "exited".  `BusMessage` is `on_bus_message` with
`schedule_restart`; `RestartStarts`, `RestartFails`, `RestartHangs` are the outcomes of
`restart_pipeline_cb`; `CheckFrames` is one turn of `frame_watchdog`; `Frame` is
`on_new_sample` up to the counter; `Signal` is `on_signal`; `Launch` is `S99camera`.
`Tick` is one second.  The watchdog is on time (the step blocks time while its
sleep is over), the main loop may be late.

`quiet` and `waited` are history.  The PTZ indicator is in `PtzScreen`; the drawing of a
frame is left out: it changes nothing that these actions read.

### `WebPlayers` and the code

The nth start of a player stands for all that it makes: its token, its child process,
its channel.  So `slot["hls"]` is `HLS_CHILD`, `token["preview"]` the contents of
`/tmp/preview_token`, and `segs` the set of starts that have segments in `/root/hls`.  A
member of `Handlers` is a request in progress; `After` is the table of the steps each
handler takes between its check of the login and its answer, and `Goes` moves it along.
`WriteToken`, `KillOld` (`kill_hls_child` and its copies; the slot stays locked while the
child is killed and waited for), `RemoveToken`, `Clean`, `DropChannel`, `Spawn`, `Store`
and `Publish` are the steps.  Killing the old child and storing the new one are two
critical sections, which is what overlapping starts trip over.  `Cancel` drops a handler
at an await when its client disconnects.  A transcoder may end by itself or fail to
start; a token may fail to be written (the code ignores it; the file is then as it was,
or empty), and so may the removal of the segments.  `Crash` ends the process, whose
children live on; `Launch` is `main` under `S99camera`, with its `killall`.

`issued`, `clash` (two starts of the player were in progress at once) and `failed` (an
ignored failure happened) are history.  That `hls_start` can overlap itself, and then lose
a child, is known to the repository (`docs/security/`, item L-06): the properties say that
*nothing else* goes wrong, and that nothing goes wrong without it.

Taken for granted: `sh -c` replaces itself by its only command, so that killing the child
kills `gst-launch`; `killall` at the launch finds them all; a removal command whose handler was
dropped has run by then.  A check of a token and the read it allows are one step.
Left out: the frame splitter of the reader thread, segment numbers and the playlist,
credentials, and `check_auth` itself.

### `NpuDetect` and the code

Frames are numbers in the order they are fed.  `frame` says which frame is in each
part of the buffer, since `detect_feed` fills it in pieces: `Feed` is the call, `CopyY`
takes `g_feed_lock` and copies the Y plane, `CopyUV` the UV plane, `Publish` stores the
dimensions, sets `g_frame_ready`, signals and unlocks.  `detect_thread` is `Lock`, the
test (`Wait` or `Take`), `Letterbox` (which reads the frame still under the lock; `rgb`
is its copy), `Infer` or `InferFails`, `Store` (post-processing and the boxes) and
`Release`.  `WakeUp` is the spurious return that `pthread_cond_wait` may have.
`outputs` is what the SDK's structs point to; `rknn_outputs_release` leaves the pointers
in them, so a turn that fails after a good one releases them again ("twice").  No property
forbids that: the code does it (section 3, last list), and what the SDK makes of it is
not in this repository.

`Start` is a `detect_init` that succeeds; one that fails leaves everything as it is, and so does
a `detect_feed` without a detector or of too large a frame.  `pthread_create`
is assumed to succeed there (its result is ignored).  `detect_get` only reads, and
`detect_deinit` has no caller.  Left out: pixels, scaling and boxes.

### `Onvif`, `PtzScreen` and the code

A member of `Conns` is a client's connection; `backlog` is the kernel's queue, `serving`
what `http_thread` has accepted, `at` its next step.  `Accept`, `HeaderByte` (one `recv` of
one byte), `HeaderEnds` (the empty line; then the preview leaves, or the length given is
tested), `BodyBytes` (`http_read_exact`), `Dispatch`, and `Reply` (answer and close)
are the way of a request; `HeaderFails` and `BodyFails` are the ends of a receive that
times out, fails or finds the header too long.  A reply always fits into the
socket's buffer, so it does not block.  `Dispatch` is the handler with all it changes: the
preset table (`StorePreset`, `DropPreset`), the day/night mode, if the password was right,
and what the client is told.  The callbacks of `producer.c`, which the handler calls
before it answers, are the steps `OpenFile` and `WriteFile`, since another process may read
the file between them.

Tokens are compared by `strncmp` over the length of the one that was asked for.
`Begins` is that relation; the model assumes of it what a prefix order has.  The code does not
keep a `|` out of a token; since it ends a token there when it looks one up, such tokens
would not be compared by prefix alone, and the model takes for granted that there are none.  What a
list of presets takes is a number (`Names`); `Listed` stops where the buffer is full, with
the part of an entry that `snprintf` still puts there (`Cut`).  A preview for which no thread
can be started is "lost": nobody closes its connection (`onvif.c:1070`; what
`pthread_detach` then does to an unset `pthread_t` is not modelled).
The table has no lock and needs none: one thread uses it.

`PtzScreen` adds the display: `Update` is `ptz_indicator_update`, `Frame` the part of
`on_new_sample` that calls it every fifth frame and draws, `Tick` the clock, `Restart` the
process ended and started again.  `Whole` and `Ends` say what `fscanf` makes of the
lines: a token it cannot read whole shifts the fields, a missing one ends what
is shown.  `age` and `lag` are what the property counts by.

Left out: SOAP and its parser, WS-Discovery (it answers from constants), the board's
network settings, frames of a preview (`PreviewEnds` is all of `preview_thread`), base64 and
SHA-256 (the password is right or wrong).

### `WebSession` and the code

A member of `Handlers` is a request in progress.  `handle_login` is `Login`, `Count` (the
clock and the failures, under one lock), `Compare`, then `Fail` or `ClearFails` and `Insert`;
`handle_change_password` is `Change`, `CheckOld`, `OpenFile` and `PutFile` (`fs::write`
empties the file before it writes), `SetHash`, `EndSessions`.  Between any two of
them the handler awaits a lock, so others come in between, and `Hangup` may drop it; a
file write it has begun goes on (`gone`), since tokio's runs in a thread of its own.
`Restart` is `main`: it takes the default password when the file has no colon.
Times are what the code compares them with: the age of a failure (`fails`), the rest of a
session (`life`), the time since a handler read the clock (`since`).  The clock is
assumed to go forward; `handle_time` can set it back, which lifts a lockout early or
prolongs it.

`opened`, `late`, `mixed` and `astray` are history: with which password a session was
opened; which sessions and logins a change has not reached; which changes overlap;
whether the last one was cut short.  Left out: the login's user name, which the code ignores,
and the flag that tells a client it still uses the default password.

### `Supervision` and the code

A member of `Dogs` is a run of `S99camera start`, which makes a watchdog; of `Webs`, a web
process; of `Requests`, a connect in progress in the process that serves.  `displays[u]` says
how many displays show camera `u`.  `Boot`, `Booted` and `FirstCheck` are
`start`, `Wake`, `SeekDisplay` and `Revive` a round of the watchdog, `KillWebs` and `StartWeb` the
`start_web` of both: what was looked at may have changed when they kill.  `Look` and `Read` are
`auto_recover`'s tests, `WriteConfig` to `StartDisplay` the steps it shares with
`pipeline_connect` (which also does `WriteLast`, and kills the displays before weston and the
wait for it, not after), `Bind` is the port and `Answer` the end of a connect.  Each command
that is awaited is a step of its own.
A tick is the five seconds all of them wait for weston at most; a watchdog sleeps three.

Processes may die (`WebDies`, `DisplayDies`), clients go away (`Hangup`; a file write their
handler had begun goes on without it, `strays` and `StrayWrite`, since tokio's runs in a thread
of its own), somebody may stop everything or start the desktop again; `Killed` is what a killed web process
leaves behind, a file that was just emptied included.  A file that cannot be
read, or that says nothing, is `NoUrl`; auto-recovery then does nothing, and a display
started on it runs without a camera.  Displays are killed and found by name, so all of them at
once.  `overlap`, `parted`, `unlit` and `stopped` are history: who met whom, what was cut
short, whether a stop came last.  `overlap` ends when all displays are killed, `parted` when a
connect begins its two writes alone.  A write that is not cut short is one step, so nobody
reads a file half written, and the two commands of `stop` are one.

Taken for granted: `killall`, `pidof` and `ss` see every process, and a display shows up
as soon as it is started.  Left out: the credentials' file, `modetest`, PIDs.

### `NalSplit` and the code

`Sample` is a frame of the encoder, of any size and content up to `MaxSize`; `Map` is the
caller up to `nal_split`'s first `malloc`; `Skip` and `Found` are turns of the loop,
`EndOfScan` is what follows it, `Push` is `nal_push` and `NoRoom` its failing `realloc`;
`Feed` hands the units to the mount, `Unmap` ends.  Units are offsets.  `held` counts, for the
buffer's map and for each allocation, what must be given back, so that giving back twice shows.
What `Feed` calls is `RtspServer!FeedNal`.  The code looks for three-byte start codes
only: the first zero of a four-byte one stays with the unit before it, in `nal_split` and in
`CutsUp` alike.

## 3. Runs

| Run | Checks | Instance | States |
|---|---|---|---|
| `rtsp_mounts` | units never mix, no RTP before the answer to PLAY, snapshot pointers stay valid, a broken connection gets no byte more; the server implements the contract | 1 session, 2 mounts, all methods, both ways to hang up, a 2-half socket, NALs of up to 2 packets | 410,574 |
| `rtsp_sessions` | every followed pointer leads to a live session, lock order | 2 session addresses, 1 mount, SETUP and PLAY; connections end by timeouts and failed writes | 722,829 |
| `rtsp_live` | a feed returns, a connection that ended is freed, a request is answered or its connection closed (with fairness) | 1 session, 1 mount | 10,251 |
| `rtsp_torn` | *violated*: a slow client loses whole frames only | as `rtsp_mounts` | |
| `display` | one restart pending, no restart of a healthy pipeline, the process exits in time when nothing is shown, never when something is, the backoff is cut short by the watchdog | the code's own constants, at most 2 messages waiting | 13,341 |
| `npu_detect` | no torn frame is inferred, no wake-up is lost, a fed frame is taken or replaced (with fairness); the detector implements `FrameMailbox` | 6 frames | 1,013 |
| `players` | a transcoder is only lost by overlapping starts, a token opens what its own start made, the channel belongs to the transcoder in the slot, the stream of a replaced channel ends (with fairness) | 2 handlers, 2 starts, all requests of both players | 659,552 |
| `onvif` | the preset table keeps its size, no token begins an earlier one, no connection is kept or waits for ever (with fairness); the service implements `PresetBook` | 2 connections, 4 tokens of which two begin others, 2 presets | 294,732 |
| `ptz_screen` | the screen comes to show the last command and nothing older | 1 connection, 8 requests, 3 tokens, a look every 2nd frame, 3 seconds | 653,256 |
| `web_session` | the lockout's limit is passed by requests in flight only, a changed password ends the old sessions, file and memory agree, a lockout is over within its window | 2 handlers, 2 passwords, 1 session, a limit of 2, times of 3 | 2,284,830 |
| `supervision` | one web process serves, one display, files that agree, the backlight on, everything comes back unless stopped (with fairness) | 2 watchdogs, 2 web processes, 1 connect, 2 cameras, 1 failure | 1,103,168 |
| `nal_split` | what is fed cuts the frame up, the array has room, nothing is kept | all frames of up to 13 bytes, an array of 1 | 210,089 |

**Why the bounds are enough.**  Of its three mounts the producer feeds two (the main
stream is switched off), and two feeders are what it takes to mix packets; one session suffices for what happens
on one connection, and two addresses for a walk that passes one session and points
to another, for reuse of an address, and for an accept that overlaps a
disconnect; there a full socket and a timeout stand for a reset, which
makes the same calls fail.  A socket of two halves holds one whole unit, so it can be full
before, inside and after one.  Two fragments are a first and a last one.  The
constants of `Display` are the code's; two waiting messages are the EOS and the
ERROR of one failure, or one message of each of two.  `MaxMessages`, `SockCap`,
`MaxFrags` are bounds of the model; the proofs hold for every value of them.
Six frames: one shown, one in the inference, one ready, and as many again that replace
or follow them, with outputs that were released, and failures in between; `MaxFrames` too
is a bound that the proofs do not need.
Two handlers are what it takes for any two requests to overlap; two starts, of one
player or of both, are one that was served or abandoned and one in progress.  Of two ONVIF
connections one waits while the other is served; in a table of two an entry can be
overwritten before or behind another, and removed from in front of one; the two
prefixes (the empty token and `P`) find more than one entry.  `HeaderRoom`, `BodyRoom`,
`ListRoom` and `Backlog` are small so that each limit is met.  `ptz_screen` looks at every
second frame instead of every fifth: what matters is that there are frames without a look.
In `web_session` a limit of two leaves room for a failure below it, at it and, by the
second handler, past it; four names for failures are what the assumption on `Tries`
asks; a window of three ticks lets failures of different ages, and one recorded after the
lockout began, keep a lockout up.  One session is the one that a change must end.  `supervision` has the two
watchdogs that a second `start` makes, the two web processes that a watchdog
can start while the first recovers, and one failure; with two failures the
invariants hold as well (6,437,295 states; `ComesBack` is too slow to check there).  A watchdog that slept two ticks would be a
different matter: two of them then kill each other's recovering web process for ever while
weston lingers; `ComesBack` holds because 15 seconds are more than two waits of five.
`nal_split` compares bytes with 0 and 1 only; a third kind of byte could only be where a
code is not, as a 0 or a 1 in another place is (and the proofs hold for any bytes).
Thirteen bytes give three units; an array of one then doubles twice.

Symmetry (of sessions, mounts and buffers) is used in runs without liveness only.
Deadlock is checked in every run: the environment can always act.

**Fairness.**  `RtspServer!FairSpec` asks that a thread that can go on does (weak
fairness of the client and feeder steps), that a waiter for a mutex gets it if it
is free again and again (strong fairness of the lock steps), and that the end
of a connection is noticed.  Strong fairness of the locks is an assumption about
the scheduler: the feeders hold `srv->lock` for the time of one walk and sleep
between NALs, so waiters find it free; a pthread mutex does not promise more.
Nothing is asked of the peers: no client has to send or read, which is what
makes `FeedReturns` say something, since a reply in a feeder's way ends only
by its timeout.  `NpuDetect!FairSpec` asks that the two
threads run and, as above, that each gets the lock if it is free again and again: a feeder
holds it for a copy, the inference thread for a letterbox.  No spurious wake-up is promised,
nor any further frame.  `Display` needs no fairness: its bounds on time are
safety properties, since `Tick` is blocked while the watchdog is due.
`WebPlayers!FairSpec` asks that a reader thread at the end
of its input ends, and that a stream whose channel is closed does; both are blocking
reads that return then.  `Onvif!FairSpec` asks that the HTTP thread goes on, a receive that
gets nothing included: it has a timeout of 500 ms.  No client has to send anything.
`WebSession` needs none: `LockoutBrief` bounds the time of a lockout, whatever clients
and handlers do.  `Supervision!FairSpec` asks that each process
takes its next step and that time goes on; weston need not end, nor anybody connect, and
`Tick` waits for steps that take no time.

### What the violated run shows

`rtsp_torn`: the repository's `README.md:53` promises that a slow client loses whole frames.
An interleaved frame cut short by a full socket is followed by the next frame, whose header
a client reads as the rest of the first.

### Where else code and comments part

The models contain these too; a run of its own shows none of them.

- `rtsp_server.c:22-23` says a slow client never blocks the feed thread.  `rtsp_reply` keeps
  `send_lock` while it polls for up to `SOCK_TIMEOUT_MS`, and a feeder that waits for it
  (`LockSend`) holds `srv->lock`.  `FeedReturns` says that it comes back; not at once.
- `rtsp_server.c:474-475` says PLAY starts only from READY.  It tests the state before its
  reply (`ReadRequest`) and stores PLAYING after it (`StoreState`), over an `ST_DEAD` that a
  feeder may have stored in between.  `DeadStaysUnserved` says why that does no harm.
- `main.c:33` says the wait for a restart grows from 2 s to 30 s.  It is reset when the
  start of a pipeline is *accepted* (`RestartStarts`), not when the camera answers, and
  `BackoffCutShort` shows that the watchdog ends the process before the cap is reached.
- `rknn_api.h:624` says a release frees outputs that were got.  `detect_thread` releases
  again what the last good turn released when a call fails (`InferFails`).
- `onvif.c:587` says presets are updated or appended, up to eight.  The search is by prefix,
  so that setting `P1` may overwrite `P10`, and removing the empty token removes the first
  preset (`FirstMatch`; `PresetBook` says so); with a full table a new preset is answered
  like a stored one and reported to the callback, and is not kept.
- `docs/security/security-report.md:35` (M-04) says that failed logins, counted for
  everybody together, lock new logins out for ever.  One lockout ends in less than its window
  (`LockoutBrief`): what it refuses is not counted.  But the count is everybody's, as the report
  says, and nothing keeps a client from failing again and again: lockout after lockout,
  a right password may be refused without end.  No property promises otherwise.
- `docs/DEPLOY.md:78`, `src/README.md:303` and `S99camera:68` say that `S99camera stop` stops the
  system.  It kills the web processes and the displays, not the watchdogs, and these start both
  again within a round (`Stop`, then `Wake` and `SeekDisplay`).  `ComesBack` asks nothing
  after a stop (`stopped`), but they do come back.
- `S99camera:31`, `main.rs:693` and `main.rs:1749` say that weston has ended and cannot undo the
  backlight.  All three waits are over after five seconds, ended or not; `LitAtLast` excuses what a
  weston that lingers longer does (`unlit`).
- `main.rs:550-551` says that a crash of the web process leaves no `gst-launch` behind.  A crash
  drops nothing: the children live on until `main` runs again, whose `killall` ends them
  (`Crash` and `Launch` of `WebPlayers`).
- `main.rs:842` ends all sessions when the password changes; a login that had passed its
  test by then opens one afterwards (`late` in `OldSessionsEnd`).
- `producer.c:249` releases a buffer that `gst_app_src_push_buffer` had taken, failed or not.

## 4. Theorems

All leaves are checked by TLAPS.  The assumptions are `ConstantsOK` of `RtspServer`
(names are distinct from each other, the two bounds are positive, the methods and
ways to hang up are among the known ones), `DisplayConstants` of `Display` (positive
periods, a cap no lower than the first delay), `PlayersConstants` of `WebPlayers` (known
requests and a natural bound), `MaxFramesOK` of `NpuDetect` (a natural bound),
`TokensAssumption` and `OnvifConstants` of `Onvif` (a prefix order, natural sizes),
`ScreenConstants` of `PtzScreen` (what can be read whole is a token, the rate and the hold are positive),
`SessionConstants` of `WebSession` (positive limits, a session longer than a lockout, enough
names for failures), `SupervisionConstants` of `Supervision` (distinct names, natural
bounds) and `NalConstants` of `NalSplit`.  TLC evaluates each in its module's runs.

**`RtspServerProofs`.**  `Invariance` proves that `IInv` holds throughout.  The safety
properties are not inductive by themselves; `IInv` adds four parts.  `AcceptInv` says
exactly which addresses are allocated and which are on the list, by where the
accept loop and the client threads are; `WalkInv` that a feeder is inside its walk
exactly while it holds `srv->lock`, and points only into the list; `SendInv` who
holds each `send_lock` and whose half unit is on each stream; `RequestInv` what has been
established of the request in hand at each point.  The argument: unlinking needs
`srv->lock`, so no feeder has a cursor when a session leaves the list, and freeing
comes after unlinking; all writing is inside `send_lock`; PLAYING is stored
after the answer and lost only with the struct.  From `IInv` follow `TypeCorrect`,
`NoUseAfterFree` (`PointersLive`), `LocksOrdered`, `UnitsKeptApart`,
`PlayAnsweredFirst`, `SdpSnapshotGood`, `PlayingHasMount`.  `ServerImplementsContract`
proves the refinement: under the mapping of `Phase`, `mount` and `Sending`, the initial
state is the contract's and every step is one of the contract's or a stutter.
`DeadUnserved` (`DeadStaysUnserved`): the `ST_DEAD` that PLAY can overwrite stands for a broken
connection, which stays broken and gets no byte more until its memory is released, so
that nothing is revived.  Two theorems say what no run does.  `NoDeadlock` (`WaitsEnd`): whoever waits for
`srv->lock` waits for one feeder, which waits at most for one `send_lock` whose holder is
that session's client thread, inside `write_all`; so no circle of waiting threads can form.
`FreedIsLeftAlone`, an action property: no step writes to a struct or socket that is freed
(`NoUseAfterFree` is about pointers, this about the writes).

**`DisplayProofs`.**  `Invariance` proves `IInv`: types, `OneRestart`,
`RestartOnlyWhenBroken`, that messages wait only for a pipeline that may have posted
them, that nothing has happened before the boot, and `WatchdogOnTime`, the relation
between the watchdog's count, what is left of its sleep and the time since the last
frame, which carries the two bounds.  From it follow `TypeCorrect`,
`OneRestartPending`, `NoStrayRestart`, `WatchdogBounds` (`ExitsInTime`: at most
`(StaleLimit + 1) * CheckPeriod` seconds, whatever the main loop does) and
`WatchdogPatient` (`ExitsOnlyWhenQuiet`: never before `StaleLimit * CheckPeriod`).
The backoff needs a part of its own, `BackoffOK`: what the delay has grown to has been waited
for without a frame, since it doubles only when a timer has run.  So it is the first delay or
at most twice what the watchdog allows (`BackoffBound`), and if that is below the cap the cap is
never reached (`BackoffStopsShort`, `BackoffCutShort`).  The hypothesis, `CapOutOfReach`, is true
of the code's numbers: a first delay of 2 s and twice 9 s are both less than 30 s.

**`WebPlayersProofs`.**  `Invariance` proves `IInv` for any number of handlers and starts.  Its
parts beside the properties: `CountInv`, numbers are fresh (a start in hand was not issued
before, and no two are in hand under one number); `SerialInv`, what a start that
overlaps no other knows of the slot; `HlsInv` and `PreviewInv`, what it knows of the token,
segments and channel at each of its steps; `ServedInv`, while a token is valid only its own
transcoder runs; `DownInv`.  The argument: a handler past its kill has found the slot
empty, and by `OrphansOnlyFromClash` nothing runs that is not in a slot or in hand, so only
its own transcoder can write what its token will open.  From it follow `TypeCorrect`,
`NoLostTranscoder`, `TokensKeepFaith` (`TokenOpensItsStart`) and `ChannelFollowsSlot`; and, in
no run, `OneTranscoder` (without overlapping starts a player has at most one transcoder at work)
and `ServedAlone` (while an HLS token is valid nothing else transcodes or leaves segments).

**`NpuDetectProofs`.**  `Invariance` proves `IInv`, for any number of frames.  It adds to the
properties who holds the lock at each step, that the parts of the frame agree when nobody
copies (`LockInv`), and the order in which numbers move on, fed after taken after shown (`OrderInv`).
The argument: the letterbox reads under the lock, and the flag is only tested and set under it.
From it follow `FramesWhole` (`WholeFrames`) and `WakeupKept` (`NoLostWakeup`).  `DetectorIsMailbox` proves the refinement: `Publish` is the mailbox's Feed,
`Take` its Take, `Store` its Show, and every other step a stutter.

**`OnvifProofs`.**  `Invariance` proves `IInv`: types, `PresetsApart`, and that the
connections in the queue and in service are open and there once.  The crux is the lemma
`Stored`: the entry that is overwritten is the first which the new token begins, so
no later entry begins the new token, for it would have begun the old one too; that uses
that prefixes of one text are ordered as the assumption says.  `Dropped` is the same for a
removal.  From it follow `TypeCorrect` (the table is not overrun) and `PresetsKeptApart`;
`TableIsBook` proves the refinement, in which the order of the table is forgotten: since no
two entries have one token, moving entries up loses none.  For `PtzScreen`,
`ServiceUndisturbed` proves that the display takes nothing away from the service (`ScreenSpec`
implies `Spec`), so that the theorems above hold of the composition too.  `ScreenIsFile`
(`ScreenFollowsFile`) rests on `ShowsFile`: once one of the frames since the last change was one
with a look (`Looked`, told from the two frame counters), the display knows that nothing is to
be shown, or which label or arrow and for how long, and loses that by its own clock only.

**`WebSessionProofs`.**  `Invariance` proves `IInv`: types, the properties, and three more
parts.  `AdmittedOK`: a login past its test either used the password in force or is known
to be late.  `WritersOK`: a change that overlaps no other is alone, and the file says what it
will put in force.  `LockedOK`: while logins are refused, the failures that count, and those that
requests in flight may still record, are at least as old as the lockout, so that none
counts when it is a window old (`LockoutIsBrief`).  `LockoutHolds` rests on a count: a login counts before it records, so
each move from the requests in flight to the failures keeps the sum (`TestPassed`,
`FailureRecorded`).  `OldSessionsEnded` and `DiskAgreed` follow, and, in no run,
`SessionsOpenByPassword`: the only step that opens a session is the last one of a login that
has passed its test, and the password it was opened with is in force, or a change has
just not reached it.

**`SupervisionProofs`.**  `Invariance` proves `IInv` for any number of processes and failures.
Beside the properties it has `StarterOK` (unless two met, there is one starter and no display
behind its back), `WriterOK` (a job between the two files writes what the other says, and so does the write that
a dropped connect has left)
and `WestonOK` (a weston on its way out is waited for).  `DisplaysAlone`, `FilesInStep` and
`BacklightOn` follow.  `TypeCorrect` needs `PortOK` beside it (one web process has the port, and
requests are in progress, or writes left behind, only while one has) and `WaitsOK`; `KilledPort` says what an end
of web processes does to the port and to its requests.

**`NalSplitProofs`.**  `Invariance` proves `IInv`: `ScanOK`, the part scanned is cut up but for
the unit that has begun, which is what a turn of the loop keeps (`SkipStep`, `FoundStep`) and
the end of it turns into `CutsUp` (`EndStep`); `RoomOK`, `HeldOK` and `FeedOK`.
`FramesFedWhole`, `UnitsFit` and `AllGivenBack` follow, for frames of any size and bytes.

**Model-checked only.**  Every safety property that a run checks is proved, but for the one that
is violated.  The seven liveness properties are not (`FeedReturns`, `HungUpFreed`, `RequestEnds`,
`FrameTaken`, `ReplacedStreamsEnd`, `EveryConnectionEnds`, `ComesBack`): the prover
does not expand ENABLED, which a step of an argument from fairness needs.  Beyond it as well:
RECURSIVE operators, and induction over data.

## 5. Plan

In this order; each line is one module with its runs, the proof modules where named.

1. `RtspContract`, `RtspServer`, `RtspServerProofs` — done.
2. `Display`, `DisplayProofs` — done.
3. `WebPlayers`, `WebPlayersProofs` — done.
4. `FrameMailbox`, `NpuDetect`, `NpuDetectProofs` — done.
5. `PresetBook`, `Onvif`, `OnvifProofs`; `PtzScreen` on top of it — done.
6. `WebSession`, `WebSessionProofs` — done.
7. `Supervision`, `SupervisionProofs` — done.
8. `NalSplit`, `NalSplitProofs` — done.
9. Left: the producer's JPEG slot and the small stream's appsrc; sequence numbers modulo 2^16
   and timestamps modulo 2^32 of the RTP stream; `producer_watchdog.sh`.

A run answers the questions of one component; where a module needs a run, related
questions share one.

## 6. Not modelled

More than half of the repository's lines are vendored or generated: `stb_image*.h`, three
copies of `rknn_api.h`, the SDK's image and file utilities, and the
detector's post-processing under `npu/`, `npu_detect/` and `rtsp_server/npu/`.  They
are numeric and sequential, and a model of them would say nothing.  The rest that is left out:

- Text: SOAP and XML in `onvif.c`, JSON, the pages of the web back end that call a
  command and parse what it prints (network, time, scan, logs), configuration, the log.
- Pixels: the frame buffer's loops and the RGA calls.
- RTP header fields, and `rtsp_server_destroy` and `detect_deinit`, which nobody calls.
- The producer's pipelines: GStreamer's own state, the JPEG slot (one mutex around a copy),
  the small stream's appsrc.
- `producer_watchdog.sh`: a loop that starts one process if none runs, with one copy per
  `S99camera start`.
- The browser page, the WebRTC experiment, the file player and the measurement scripts.
- Network loss below TCP, and the kernel: a connection is a bounded buffer that keeps order
  and may end.

------------------------------ MODULE NalSplit ------------------------------
(***************************************************************************)
(* A streaming thread of the producer on the frames of its encoder         *)
(* (on_new_sample, producer.c, for st->sink): the buffer is mapped, cut    *)
(* into NAL units at its Annex-B start codes 00 00 01 (nal_split, nal.c),  *)
(* and the units are fed to the mount one after the other.                 *)
(*                                                                         *)
(* Positions count from 0.  A unit is told by where it begins, at its      *)
(* header byte, and where it ends, one past its last byte.  Its type, the  *)
(* low bits of the header, is left out: nobody reads it.                   *)
(***************************************************************************)
EXTENDS Integers, Sequences

CONSTANTS
    Bytes,      \* the bytes of a buffer: 0, 1 and others
    MaxSize,    \* bound: bytes of a buffer
    FirstCap    \* units the array has room for at first (64)

ASSUME NalConstants ==
    0 \in Bytes /\ 1 \in Bytes /\ MaxSize \in Nat /\ FirstCap \in Nat \ {0}

VARIABLES
    at,         \* the thread's next step
    size, buf,  \* the encoded frame
    i,          \* the scan's position
    have, nal_start,    \* a unit has begun, and where
    nals, cap,  \* the units found, and the room for them
    fed,        \* the units of this frame that the mount was given
    held        \* the mappings and arrays the thread has and must give back

scan == <<i, have, nal_start>>
units == <<nals, cap>>
vars == <<at, size, buf, scan, units, fed, held>>

\* Each is got once and given back once: its count is 1 in between.
Owned == {"map", "units"}
None == [x \in Owned |-> 0]
Freed(x) == held' = [held EXCEPT ![x] = @ - 1]

TypeOK ==
    /\ at \in {"idle", "map", "split", "feed", "unmap"}
    /\ size \in 0 .. MaxSize /\ buf \in [0 .. size - 1 -> Bytes]
    /\ i \in Nat /\ have \in BOOLEAN /\ nal_start \in Nat
    /\ nals \in Seq([first : Nat, end : Nat]) /\ cap \in Nat
    /\ fed \in Seq([first : Nat, end : Nat])
    /\ held \in [Owned -> Int]

NoFrame == [k \in 0 .. -1 |-> 0]

Init ==
    /\ at = "idle" /\ size = 0 /\ buf = NoFrame
    /\ i = 0 /\ have = FALSE /\ nal_start = 0
    /\ nals = <<>> /\ cap = 0 /\ fed = <<>> /\ held = None

\* A start code at k, with a header byte behind it.
CodeAt(k) == k + 3 < size /\ buf[k] = 0 /\ buf[k + 1] = 0 /\ buf[k + 2] = 1

\* The encoder has a frame.
Sample ==
    /\ at = "idle"
    /\ \E n \in 0 .. MaxSize : size' = n /\ buf' \in [0 .. n - 1 -> Bytes]
    /\ at' = "map"
    /\ UNCHANGED <<scan, units, fed, held>>

\* The thread returns, and the frame with its units is forgotten.
Return ==
    /\ at' = "idle" /\ size' = 0 /\ buf' = NoFrame
    /\ i' = 0 /\ have' = FALSE /\ nal_start' = 0
    /\ nals' = <<>> /\ cap' = 0 /\ fed' = <<>>

\* The frame is mapped, or cannot be; an empty one is only unmapped, and one
\* for which there is no array is dropped.
Map ==
    /\ at = "map"
    /\ \/ Return /\ UNCHANGED held
       \/ /\ at' = "unmap" /\ held' = [held EXCEPT !["map"] = @ + 1]
          /\ UNCHANGED <<size, buf, scan, units, fed>>
       \/ /\ size > 0
          /\ at' = "split" /\ held' = [x \in Owned |-> held[x] + 1] /\ cap' = FirstCap
          /\ UNCHANGED <<size, buf, scan, nals, fed>>

\* The bug: room is made once the array overflows.
FullLate == Len(nals) > cap

Full == Len(nals) = cap

\* nal_push, of the unit that ends at e: a full array is doubled.
Push(e) ==
    /\ nals' = Append(nals, [first |-> nal_start, end |-> e])
    /\ cap' = IF Full THEN 2 * cap ELSE cap

\* The unit that has begun, if any, ends at e; an empty one is left out.
EndUnit(e) == IF have /\ e > nal_start THEN Push(e) ELSE UNCHANGED units

Skip ==
    /\ at = "split" /\ i + 3 < size /\ ~CodeAt(i)
    /\ i' = i + 1
    /\ UNCHANGED <<at, size, buf, have, nal_start, units, fed, held>>

\* The bug: the header is taken for a byte that can begin a start code.
FoundAgain ==
    /\ at = "split" /\ CodeAt(i)
    /\ EndUnit(i)
    /\ have' = TRUE /\ nal_start' = i + 3 /\ i' = i + 3
    /\ UNCHANGED <<at, size, buf, fed, held>>

Found ==
    /\ at = "split" /\ CodeAt(i)
    /\ EndUnit(i)
    /\ have' = TRUE /\ nal_start' = i + 3 /\ i' = i + 4
    /\ UNCHANGED <<at, size, buf, fed, held>>

EndOfScan ==
    /\ at = "split" /\ i + 3 >= size
    /\ EndUnit(size)
    /\ at' = "feed"
    /\ UNCHANGED <<size, buf, scan, fed, held>>

\* The bug: the array freed here goes to the caller, who frees it again.
NoRoomFed ==
    /\ at = "split" /\ have /\ Full /\ (CodeAt(i) \/ i + 3 >= size)
    /\ at' = "feed" /\ Freed("units")
    /\ UNCHANGED <<size, buf, scan, units, fed>>

\* The full array cannot be doubled: all units of the frame are dropped.
NoRoom ==
    /\ at = "split" /\ have /\ Full /\ (CodeAt(i) \/ i + 3 >= size)
    /\ at' = "unmap" /\ Freed("units")
    /\ UNCHANGED <<size, buf, scan, units, fed>>

\* The units found are fed in order, then the array is freed.
Feed ==
    /\ at = "feed"
    /\ IF Len(fed) < Len(nals)
       THEN fed' = Append(fed, nals[Len(fed) + 1]) /\ UNCHANGED <<at, held>>
       ELSE at' = "unmap" /\ Freed("units") /\ UNCHANGED fed
    /\ UNCHANGED <<size, buf, scan, units>>

Unmap ==
    /\ at = "unmap"
    /\ Return /\ Freed("map")

Next ==
    \/ Sample \/ Map \/ Skip \/ Found \/ EndOfScan \/ NoRoom \/ Feed \/ Unmap

Spec == Init /\ [][Next]_vars

-----------------------------------------------------------------------------
(* Properties.                                                             *)

\* The units a list names cut the frame up: the first begins behind the first
\* start code, each next one behind the code that ends the one before, the
\* last ends with the frame, and none has a start code behind its header.
\* (A zero before a start code belongs to the unit it ends, as it does there.)
CutsUp(list) ==
    /\ Len(list) = 0 => \A k \in 0 .. size - 1 : ~CodeAt(k)
    /\ \A n \in 1 .. Len(list) :
          LET begin == list[n].first  end == list[n].end IN
          /\ begin < end /\ begin >= 3 /\ CodeAt(begin - 3)
          /\ n = 1 => \A k \in 0 .. begin - 4 : ~CodeAt(k)
          /\ \A k \in begin + 1 .. end - 1 : ~CodeAt(k)
          /\ IF n = Len(list) THEN end = size ELSE list[n + 1].first = end + 3

\* What the mount is given of a frame is all of it that can be told to be
\* NAL units, each byte once and in order: or nothing, for want of memory.
\* (nal_split, and the loop of on_new_sample.)
FedWhole ==
    at = "feed" /\ Len(fed) = Len(nals) => CutsUp(fed)

\* No unit is stored behind the end of the array.
RoomForUnits == held["units"] > 0 => Len(nals) <= cap

\* Whatever fails, when the thread returns it has unmapped what it mapped and
\* freed what it allocated, and nothing twice.
NothingKept == at = "idle" => held = None
=============================================================================

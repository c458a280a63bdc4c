--------------------------- MODULE NalSplitProofs ---------------------------
(***************************************************************************)
(* Proofs about nal_split and its caller, for frames of any size and any   *)
(* bytes.                                                                  *)
(***************************************************************************)
EXTENDS NalSplit, TLAPS

\* A list of units cuts the frame up as far as e, where the last one ends.
CutTo(list, e) ==
    \A n \in 1 .. Len(list) :
       LET begin == list[n].first  end == list[n].end IN
       /\ begin < end /\ begin >= 3 /\ CodeAt(begin - 3)
       /\ n = 1 => \A k \in 0 .. begin - 4 : ~CodeAt(k)
       /\ \A k \in begin + 1 .. end - 1 : ~CodeAt(k)
       /\ IF n = Len(list) THEN end = e ELSE list[n + 1].first = end + 3

\* What the thread has at each of its steps.
HeldOK ==
    /\ at \in {"idle", "map"} => held["map"] = 0 /\ held["units"] = 0
    /\ at \in {"split", "feed"} => held["map"] = 1 /\ held["units"] = 1
    /\ at = "unmap" => held["map"] = 1 /\ held["units"] = 0

\* The array is never empty, and never too small.
RoomOK == at \in {"split", "feed"} => cap \in Nat \ {0} /\ Len(nals) <= cap

\* Before the first of its units, the scan has nothing.
FreshOK ==
    /\ at \in {"idle", "map"} => i = 0 /\ have = FALSE /\ nals = <<>>
    /\ at \in {"idle", "map", "split"} => fed = <<>>

\* The part of the frame that was scanned is cut up, but for the unit that
\* has begun.
ScanOK ==
    at = "split" =>
        /\ i <= size
        /\ have = FALSE => nals = <<>> /\ \A k \in 0 .. i - 1 : ~CodeAt(k)
        /\ have = TRUE =>
              /\ nal_start >= 3 /\ CodeAt(nal_start - 3) /\ nal_start < i
              /\ \A k \in nal_start + 1 .. i - 1 : ~CodeAt(k)
              /\ Len(nals) = 0 => \A k \in 0 .. nal_start - 4 : ~CodeAt(k)
              /\ CutTo(nals, nal_start - 3)

\* The mount is given a cut-up frame, unit by unit.
FeedOK ==
    at = "feed" =>
        /\ CutsUp(nals)
        /\ Len(fed) <= Len(nals) /\ \A n \in 1 .. Len(fed) : fed[n] = nals[n]

\* The inductive invariant.
IInv == TypeOK /\ HeldOK /\ RoomOK /\ FreshOK /\ ScanOK /\ FeedOK

-----------------------------------------------------------------------------

\* A list's elements are of its set.
LEMMA ElementOf ==
    ASSUME NEW S, NEW list \in Seq(S), NEW n \in 1 .. Len(list) PROVE list[n] \in S
OBVIOUS

\* Cutting up to the end is cutting up, for a list with units.
LEMMA CutToEnd ==
    ASSUME NEW list \in Seq([first : Nat, end : Nat]), Len(list) # 0, CutTo(list, size)
    PROVE  CutsUp(list)
BY DEF CutTo, CutsUp

\* A cut list is continued by the unit that begins behind the code at its end.
LEMMA CutOn ==
    ASSUME NEW list \in Seq([first : Nat, end : Nat]),
           NEW b \in Nat, NEW e \in Nat, CutTo(list, b - 3),
           b >= 3, b < e, CodeAt(b - 3), \A k \in b + 1 .. e - 1 : ~CodeAt(k),
           Len(list) = 0 => \A k \in 0 .. b - 4 : ~CodeAt(k)
    PROVE  CutTo(Append(list, [first |-> b, end |-> e]), e)
<1>. DEFINE unit == [first |-> b, end |-> e]
            longer == Append(list, unit)
<1>1. /\ Len(list) \in Nat /\ Len(longer) = Len(list) + 1
      /\ \A n \in 1 .. Len(list) : longer[n] = list[n]
      /\ longer[Len(list) + 1] = unit
  OBVIOUS
<1>2. unit.first = b /\ unit.end = e
  OBVIOUS
<1>. HIDE DEF longer, unit
<1>3. SUFFICES ASSUME NEW n \in 1 .. Len(longer)
      PROVE  /\ longer[n].first < longer[n].end /\ longer[n].first >= 3
             /\ CodeAt(longer[n].first - 3)
             /\ n = 1 => \A k \in 0 .. longer[n].first - 4 : ~CodeAt(k)
             /\ \A k \in longer[n].first + 1 .. longer[n].end - 1 : ~CodeAt(k)
             /\ IF n = Len(longer) THEN longer[n].end = e
                ELSE longer[n + 1].first = longer[n].end + 3
  BY DEF CutTo, longer, unit
<1>4. CASE n = Len(list) + 1
  BY <1>1, <1>2, <1>4
<1>5. CASE n \in 1 .. Len(list)
  <2>1. longer[n] = list[n]
    BY <1>1, <1>5
  <2>0. /\ list[n].first < list[n].end /\ list[n].first >= 3
        /\ CodeAt(list[n].first - 3)
        /\ n = 1 => \A k \in 0 .. list[n].first - 4 : ~CodeAt(k)
        /\ \A k \in list[n].first + 1 .. list[n].end - 1 : ~CodeAt(k)
        /\ IF n = Len(list) THEN list[n].end = b - 3
           ELSE list[n + 1].first = list[n].end + 3
    BY <1>5 DEF CutTo
  <2>2. CASE n = Len(list)
    <3>1. list[n].end = b - 3 /\ longer[n + 1].first = b
      BY <1>1, <1>2, <2>0, <2>2
    <3>2. n # Len(longer) /\ longer[n + 1].first = longer[n].end + 3
      BY <1>1, <2>1, <2>2, <3>1
    <3>. QED
      BY <2>0, <2>1, <3>2
  <2>3. CASE n # Len(list)
    <3>1. n + 1 \in 1 .. Len(list) /\ longer[n + 1] = list[n + 1]
      BY <1>1, <1>5, <2>3
    <3>2. n # Len(longer) /\ longer[n + 1].first = longer[n].end + 3
      BY <1>1, <1>5, <2>0, <2>1, <2>3, <3>1
    <3>. QED
      BY <2>0, <2>1, <3>2
  <2>. QED
    BY <2>2, <2>3
<1>. QED
  BY <1>1, <1>4, <1>5

\* What nal_push does: one more unit, in an array that has room for it.
LEMMA Pushed ==
    ASSUME TypeOK, RoomOK, at = "split", NEW e \in Nat, Push(e)
    PROVE  /\ nals' = Append(nals, [first |-> nal_start, end |-> e])
           /\ nals' \in Seq([first : Nat, end : Nat])
           /\ Len(nals') = Len(nals) + 1
           /\ cap' \in Nat \ {0} /\ Len(nals') <= cap'
<1>1. nals \in Seq([first : Nat, end : Nat]) /\ nal_start \in Nat /\ Len(nals) \in Nat
  BY DEF TypeOK
<1>2. [first |-> nal_start, end |-> e] \in [first : Nat, end : Nat]
  BY <1>1
<1>3. nals' = Append(nals, [first |-> nal_start, end |-> e])
  BY DEF Push
<1>4. nals' \in Seq([first : Nat, end : Nat]) /\ Len(nals') = Len(nals) + 1
  BY <1>1, <1>2, <1>3
<1>5. cap' \in Nat \ {0} /\ Len(nals') <= cap'
  BY <1>1, <1>4 DEF Push, Full, RoomOK
<1>. QED
  BY <1>3, <1>4, <1>5

\* A thread that returns is as it was at first.
LEMMA Returned ==
    ASSUME Return, held' \in [Owned -> Int], held'["map"] = 0, held'["units"] = 0
    PROVE  IInv'
<1>1. at' = "idle" /\ size' = 0 /\ buf' = [k \in 0 .. -1 |-> 0] /\ i' = 0
      /\ have' = FALSE /\ nal_start' = 0 /\ nals' = <<>> /\ cap' = 0 /\ fed' = <<>>
  BY DEF Return, NoFrame
<1>2. buf' \in [0 .. size' - 1 -> Bytes] /\ size' \in 0 .. MaxSize
  BY <1>1, NalConstants
<1>3. <<>> \in Seq([first : Nat, end : Nat])
  OBVIOUS
<1>4. nals' \in Seq([first : Nat, end : Nat]) /\ fed' \in Seq([first : Nat, end : Nat])
  BY <1>1, <1>3
<1>5. TypeOK'
  BY <1>1, <1>2, <1>4 DEF TypeOK
<1>. QED
  BY <1>1, <1>5 DEF IInv, HeldOK, RoomOK, FreshOK, ScanOK, FeedOK

-----------------------------------------------------------------------------
(* The steps of the scan.                                                  *)

\* A position without a start code is passed over.
LEMMA SkipStep ==
    ASSUME IInv, Skip PROVE IInv'
<1>1. /\ at = "split" /\ i' = i + 1 /\ i \in Nat /\ ~CodeAt(i)
      /\ size \in Nat /\ i' <= size
      /\ UNCHANGED <<at, size, buf, have, nal_start, nals, cap, fed, held>>
  BY DEF Skip, units, IInv, TypeOK
<1>2. TypeOK' /\ HeldOK' /\ RoomOK' /\ FreshOK' /\ FeedOK'
  BY <1>1 DEF IInv, TypeOK, HeldOK, RoomOK, FreshOK, FeedOK
<1>3. ScanOK'
  <2>1. \A k : CodeAt(k)' <=> CodeAt(k)
    BY <1>1 DEF CodeAt
  <2>2. nal_start \in Nat
    BY DEF IInv, TypeOK
  <2>3. CASE have = FALSE
    BY <1>1, <2>1, <2>3 DEF IInv, ScanOK
  <2>4. CASE have = TRUE
    <3>1. CutTo(nals, nal_start - 3)'
      BY <1>1, <2>4 DEF IInv, ScanOK, CutTo, CodeAt
    <3>. QED
      BY <1>1, <2>1, <2>2, <2>4, <3>1 DEF IInv, ScanOK
  <2>. QED
    BY <2>3, <2>4 DEF IInv, TypeOK
<1>. QED
  BY <1>2, <1>3 DEF IInv

\* The unit that has begun, if any, is pushed, and what is cut ends at e.
LEMMA Ended ==
    ASSUME IInv, at = "split", NEW e \in Nat, EndUnit(e), e >= i,
           \A k \in i .. e - 1 : ~CodeAt(k), UNCHANGED <<size, buf>>
    PROVE  /\ nals' \in Seq([first : Nat, end : Nat])
           /\ cap' \in Nat \ {0} /\ Len(nals') <= cap'
           /\ have = TRUE => CutTo(nals', e) /\ Len(nals') # 0
           /\ have = FALSE => nals' = <<>> /\ \A k \in 0 .. e - 1 : ~CodeAt(k)
<1>. USE DEF IInv
<1>1. i \in Nat /\ nal_start \in Nat /\ have \in BOOLEAN /\ Len(nals) \in Nat
      /\ nals \in Seq([first : Nat, end : Nat])
  BY DEF TypeOK
<1>2. CASE have = TRUE
  <2>1. /\ nal_start >= 3 /\ CodeAt(nal_start - 3) /\ nal_start < i
        /\ \A k \in nal_start + 1 .. i - 1 : ~CodeAt(k)
        /\ Len(nals) = 0 => \A k \in 0 .. nal_start - 4 : ~CodeAt(k)
        /\ CutTo(nals, nal_start - 3)
    BY <1>2 DEF ScanOK
  <2>2. Push(e)
    BY <1>1, <1>2, <2>1 DEF EndUnit
  <2>3. \A k \in nal_start + 1 .. e - 1 : ~CodeAt(k)
    BY <1>1, <2>1
  <2>4. CutTo(Append(nals, [first |-> nal_start, end |-> e]), e)
    BY <1>1, <2>1, <2>3, CutOn
  <2>5. /\ nals' = Append(nals, [first |-> nal_start, end |-> e])
        /\ nals' \in Seq([first : Nat, end : Nat])
        /\ Len(nals') = Len(nals) + 1
        /\ cap' \in Nat \ {0} /\ Len(nals') <= cap'
    BY <2>2, Pushed
  <2>. QED
    BY <1>1, <1>2, <2>4, <2>5
<1>3. CASE have = FALSE
  <2>1. nals' = nals /\ cap' = cap /\ nals = <<>> /\ \A k \in 0 .. i - 1 : ~CodeAt(k)
    BY <1>3 DEF EndUnit, units, ScanOK
  <2>. QED
    BY <1>1, <1>3, <2>1 DEF RoomOK
<1>. QED
  BY <1>1, <1>2, <1>3

\* At a start code the unit before it ends and the next one begins.
LEMMA FoundStep ==
    ASSUME IInv, Found PROVE IInv'
<1>1. /\ at = "split" /\ CodeAt(i) /\ EndUnit(i) /\ i \in Nat /\ size \in Nat
      /\ have' = TRUE /\ nal_start' = i + 3 /\ i' = i + 4 /\ i' <= size
      /\ UNCHANGED <<at, size, buf, fed, held>>
  BY DEF Found, IInv, TypeOK, CodeAt
<1>2. /\ nals' \in Seq([first : Nat, end : Nat])
      /\ cap' \in Nat \ {0} /\ Len(nals') <= cap'
      /\ have = TRUE => CutTo(nals', i) /\ Len(nals') # 0
      /\ have = FALSE => nals' = <<>> /\ \A k \in 0 .. i - 1 : ~CodeAt(k)
  <2>1. i >= i /\ \A k \in i .. i - 1 : ~CodeAt(k)
    BY <1>1
  <2>. QED
    BY <1>1, <2>1, Ended
<1>3. TypeOK' /\ HeldOK' /\ RoomOK' /\ FreshOK' /\ FeedOK'
  BY <1>1, <1>2 DEF IInv, TypeOK, HeldOK, RoomOK, FreshOK, FeedOK
<1>4. ScanOK'
  <2>1. \A k : CodeAt(k)' <=> CodeAt(k)
    BY <1>1 DEF CodeAt
  <2>2. nal_start' - 3 = i /\ nal_start' < i' /\ nal_start' >= 3
        /\ nal_start' + 1 > i' - 1 /\ i' - 1 \in Nat /\ nal_start' + 1 \in Nat
    BY <1>1
  <2>3. Len(nals') = 0 => \A k \in 0 .. nal_start' - 4 : ~CodeAt(k)'
    <3>1. SUFFICES ASSUME Len(nals') = 0 PROVE \A k \in 0 .. nal_start' - 4 : ~CodeAt(k)
      BY <2>1
    <3>2. have = FALSE
      BY <1>2, <3>1 DEF IInv, TypeOK
    <3>. QED
      BY <1>1, <1>2, <3>2
  <2>4. CutTo(nals, nal_start - 3)'
    <3>1. CASE have = TRUE
      <4>1. CutTo(nals', i)
        BY <1>2, <3>1
      <4>. QED
        BY <1>1, <2>2, <4>1 DEF CutTo, CodeAt
    <3>2. CASE have = FALSE
      <4>1. Len(nals') = 0
        BY <1>2, <3>2
      <4>. QED
        BY <4>1 DEF CutTo
    <3>. QED
      BY <3>1, <3>2 DEF IInv, TypeOK
  <2>5. CodeAt(nal_start - 3)'
    BY <1>1, <2>2 DEF CodeAt
  <2>6. \A k \in nal_start' + 1 .. i' - 1 : ~CodeAt(k)'
    BY <1>1
  <2>. QED
    BY <1>1, <2>2, <2>3, <2>4, <2>5, <2>6 DEF ScanOK
<1>. QED
  BY <1>3, <1>4 DEF IInv

\* At the end of the frame its last unit ends.
LEMMA EndStep ==
    ASSUME IInv, EndOfScan PROVE IInv'
<1>1. /\ at = "split" /\ i + 3 >= size /\ EndUnit(size) /\ at' = "feed"
      /\ i \in Nat /\ size \in Nat /\ size <= MaxSize /\ have \in BOOLEAN
      /\ UNCHANGED <<size, buf, i, have, nal_start, fed, held>>
  BY NalConstants DEF EndOfScan, scan, IInv, TypeOK
<1>2. \A k \in Nat : k >= i => ~CodeAt(k)
  BY <1>1 DEF CodeAt
<1>3. size >= i /\ \A k \in i .. size - 1 : ~CodeAt(k)
  BY <1>1, <1>2 DEF IInv, ScanOK
<1>4. /\ nals' \in Seq([first : Nat, end : Nat])
      /\ cap' \in Nat \ {0} /\ Len(nals') <= cap'
      /\ have = TRUE => CutTo(nals', size) /\ Len(nals') # 0
      /\ have = FALSE => nals' = <<>> /\ \A k \in 0 .. size - 1 : ~CodeAt(k)
  BY <1>1, <1>3, Ended
<1>5. TypeOK' /\ HeldOK' /\ RoomOK' /\ FreshOK' /\ ScanOK'
  BY <1>1, <1>4 DEF IInv, TypeOK, HeldOK, RoomOK, FreshOK, ScanOK
<1>6. CutsUp(nals')
  <2>1. CASE have = TRUE
    BY <1>4, <2>1, CutToEnd
  <2>2. CASE have = FALSE
    BY <1>4, <2>2 DEF CutsUp
  <2>. QED
    BY <1>1, <2>1, <2>2
<1>7. CutsUp(nals)'
  BY <1>1, <1>6 DEF CutsUp, CodeAt
<1>8. fed' = <<>>
  BY <1>1 DEF IInv, FreshOK
<1>. QED
  BY <1>5, <1>7, <1>8 DEF IInv, FeedOK

-----------------------------------------------------------------------------
(* The other steps, and the theorems.                                      *)

\* The next unit is fed, or the array freed.
LEMMA FeedStep ==
    ASSUME IInv, Feed PROVE IInv'
<1>0. nals \in Seq([first : Nat, end : Nat]) /\ fed \in Seq([first : Nat, end : Nat])
  BY DEF IInv, TypeOK
<1>1. /\ at = "feed" /\ Len(fed) <= Len(nals) /\ Len(fed) \in Nat /\ Len(nals) \in Nat
      /\ \A n \in 1 .. Len(fed) : fed[n] = nals[n]
      /\ UNCHANGED <<size, buf, i, have, nal_start, nals, cap>>
  BY <1>0 DEF Feed, scan, units, IInv, FeedOK
<1>2. CASE Len(fed) < Len(nals)
  <2>1. fed' = Append(fed, nals[Len(fed) + 1]) /\ UNCHANGED <<at, held>>
    BY <1>2 DEF Feed
  <2>2. nals[Len(fed) + 1] \in [first : Nat, end : Nat]
    <3>1. Len(fed) + 1 \in 1 .. Len(nals)
      BY <1>1, <1>2
    <3>. QED
      BY <1>0, <3>1, ElementOf
  <2>3. /\ fed' \in Seq([first : Nat, end : Nat]) /\ Len(fed') = Len(fed) + 1
        /\ \A n \in 1 .. Len(fed) : fed'[n] = fed[n]
        /\ fed'[Len(fed) + 1] = nals[Len(fed) + 1]
    BY <1>0, <1>1, <2>1, <2>2
  <2>4. TypeOK' /\ HeldOK' /\ RoomOK' /\ FreshOK' /\ ScanOK'
    BY <1>0, <1>1, <2>1, <2>3 DEF IInv, TypeOK, HeldOK, RoomOK, FreshOK, ScanOK
  <2>5. CutsUp(nals)'
    BY <1>1 DEF IInv, FeedOK, CutsUp, CodeAt
  <2>6. Len(fed') <= Len(nals') /\ \A n \in 1 .. Len(fed') : fed'[n] = nals'[n]
    BY <1>1, <1>2, <2>3
  <2>. QED
    BY <2>4, <2>5, <2>6 DEF IInv, FeedOK
<1>3. CASE ~(Len(fed) < Len(nals))
  <2>1. at' = "unmap" /\ held' = [held EXCEPT !["units"] = @ - 1] /\ fed' = fed
    BY <1>3 DEF Feed, Freed
  <2>. QED
    BY <1>1, <2>1 DEF Owned, IInv, TypeOK, HeldOK, RoomOK, FreshOK, ScanOK, FeedOK
<1>. QED
  BY <1>2, <1>3

\* Every step keeps the invariant.
LEMMA Step ==
    IInv /\ [Next]_vars => IInv'
<1>. SUFFICES ASSUME IInv, [Next]_vars PROVE IInv'
  OBVIOUS
<1>. USE DEF scan, units
<1>1. CASE Sample
  BY <1>1 DEF Sample, IInv, TypeOK, HeldOK, RoomOK, FreshOK, ScanOK, FeedOK
<1>2. CASE Map
  <2>1. CASE Return /\ UNCHANGED held
    BY <1>2, <2>1, Returned DEF Map, IInv, TypeOK, HeldOK
  <2>2. CASE at' = "unmap" /\ held' = [held EXCEPT !["map"] = @ + 1]
             /\ at = "map" /\ UNCHANGED <<size, buf, scan, units, fed>>
    BY <2>2 DEF Owned, IInv, TypeOK, HeldOK, RoomOK, FreshOK, ScanOK, FeedOK
  <2>3. CASE /\ at = "map" /\ size > 0 /\ at' = "split"
             /\ held' = [x \in Owned |-> held[x] + 1]
             /\ cap' = FirstCap /\ UNCHANGED <<size, buf, scan, nals, fed>>
    <3>1. cap' \in Nat \ {0} /\ Len(nals') = 0 /\ i' = 0 /\ have' = FALSE
          /\ nals' = <<>> /\ fed' = <<>>
      BY <2>3, NalConstants DEF IInv, FreshOK
    <3>2. \A k \in 0 .. i' - 1 : ~CodeAt(k)'
      BY <3>1
    <3>. QED
      BY <2>3, <3>1, <3>2 DEF Owned, IInv, TypeOK, HeldOK, RoomOK, FreshOK, ScanOK, FeedOK
  <2>. QED
    BY <1>2, <2>1, <2>2, <2>3 DEF Map
<1>3. CASE NoRoom
  BY <1>3 DEF NoRoom, Freed, Owned, IInv, TypeOK, HeldOK, RoomOK, FreshOK, ScanOK, FeedOK
<1>4. CASE Unmap
  BY <1>4, Returned DEF Unmap, Freed, Owned, IInv, TypeOK, HeldOK
<1>5. CASE UNCHANGED vars
  BY <1>5 DEF vars, IInv, TypeOK, HeldOK, RoomOK, FreshOK, ScanOK, FeedOK, CutTo, CutsUp,
              CodeAt
<1>. QED
  BY <1>1, <1>2, <1>3, <1>4, <1>5, SkipStep, FoundStep, EndStep, FeedStep DEF Next

\* Every reachable state satisfies the inductive invariant: what has been
\* scanned of the frame is cut up, in an array with room for the units.
THEOREM Invariance == Spec => []IInv
<1>1. Init => IInv
  <2>. SUFFICES ASSUME Init PROVE IInv
    OBVIOUS
  <2>1. size \in 0 .. MaxSize /\ buf \in [0 .. size - 1 -> Bytes]
    BY NalConstants DEF Init, NoFrame
  <2>2. <<>> \in Seq([first : Nat, end : Nat]) /\ held \in [Owned -> Int]
    BY DEF Init, None
  <2>3. TypeOK
    BY <2>1, <2>2 DEF Init, TypeOK
  <2>. QED
    BY <2>3 DEF Init, None, Owned, IInv, HeldOK, RoomOK, FreshOK, ScanOK, FeedOK
<1>. QED
  BY <1>1, Step, PTL DEF Spec

\* The mount is fed all of a frame's NAL units, each byte once and in order
\* (nal_split and on_new_sample).
THEOREM FramesFedWhole == Spec => []FedWhole
<1>1. IInv => FedWhole
  <2>. SUFFICES ASSUME IInv, at = "feed", Len(fed) = Len(nals) PROVE CutsUp(fed)
    BY DEF FedWhole
  <2>1. Len(nals) \in Nat /\ \A n \in 1 .. Len(nals) : fed[n] = nals[n]
    BY DEF IInv, FeedOK, TypeOK
  <2>2. \A n \in 1 .. Len(nals) : n # Len(nals) => n + 1 \in 1 .. Len(nals)
    BY <2>1
  <2>. QED
    BY <2>1, <2>2 DEF IInv, FeedOK, CutsUp
<1>. QED
  BY <1>1, Invariance, PTL

\* nal_push never writes behind the end of the array.
THEOREM UnitsFit == Spec => []RoomForUnits
<1>1. IInv => RoomForUnits
  BY DEF IInv, TypeOK, HeldOK, RoomOK, RoomForUnits
<1>. QED
  BY <1>1, Invariance, PTL

\* The thread gives back the mapping and the array however it ends.
THEOREM AllGivenBack == Spec => []NothingKept
<1>1. IInv => NothingKept
  <2>. SUFFICES ASSUME IInv, at = "idle" PROVE held = None
    BY DEF NothingKept
  <2>1. held \in [Owned -> Int] /\ held["map"] = 0 /\ held["units"] = 0
    BY DEF IInv, TypeOK, HeldOK
  <2>. QED
    BY <2>1 DEF None, Owned
<1>. QED
  BY <1>1, Invariance, PTL
=============================================================================

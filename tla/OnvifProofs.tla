---------------------------- MODULE OnvifProofs ----------------------------
(***************************************************************************)
(* Proofs about the ONVIF service's preset table, for any tokens, prefix   *)
(* order, number of connections and size of the table, and about what the  *)
(* display shows of its commands, for any time it shows them and any       *)
(* number of frames between two looks at the file.                         *)
(***************************************************************************)
EXTENDS PtzScreen, FiniteSetTheorems, WellFoundedInduction, TLAPS

\* A non-empty set of natural numbers has a least one.
LEMMA LeastOf ==
    ASSUME NEW S \in SUBSET Nat, S # {}
    PROVE  \E i \in S : \A j \in S : i <= j
<1>. DEFINE Less == {p \in Nat \X Nat : p[1] < p[2]}
<1>1. IsWellFoundedOn(Less, Nat)
  BY NatLessThanWellFounded DEF OpToRel
<1>. HIDE DEF Less
<1>2. PICK x \in S : \A y \in S : ~(<<y, x>> \in Less)
  BY <1>1, WFMin
<1>3. \A y \in S : ~(y < x)
  BY <1>2 DEF Less
<1>. QED
  BY <1>3

\* A non-empty set of natural numbers with an upper bound has a greatest one.
LEMMA GreatestOf ==
    ASSUME NEW n \in Nat, NEW S \in SUBSET (0 .. n), S # {}
    PROVE  \E k \in S : \A j \in S : j <= k
<1>. DEFINE D == {n - k : k \in S}
<1>1. D \in SUBSET Nat /\ D # {}
  <2>1. \A k \in S : n - k \in Nat
    OBVIOUS
  <2>. QED
    BY <2>1
<1>2. PICK d \in D : \A e \in D : d <= e
  BY <1>1, LeastOf
<1>3. PICK k \in S : d = n - k
  BY <1>2
<1>4. \A j \in S : n - k <= n - j
  BY <1>2, <1>3
<1>. QED
  BY <1>3, <1>4

\* FirstMatch is the first entry that the token begins.
LEMMA FirstMatchIsFirst ==
    ASSUME TypeOK, NEW t, Match(t) # {}
    PROVE  /\ FirstMatch(t) \in 1 .. Len(presets)
           /\ <<t, presets[FirstMatch(t)].token>> \in Begins
           /\ \A j \in 1 .. Len(presets) :
                 <<t, presets[j].token>> \in Begins => FirstMatch(t) <= j
<1>1. Match(t) \in SUBSET (1 .. Len(presets)) /\ Match(t) \in SUBSET Nat
  BY DEF TypeOK, Match
<1>2. \E i \in Match(t) : \A j \in Match(t) : i <= j
  BY <1>1, LeastOf
<1>3. FirstMatch(t) \in Match(t) /\ \A j \in Match(t) : FirstMatch(t) <= j
  BY <1>2 DEF FirstMatch
<1>. QED
  BY <1>1, <1>3 DEF Match, TypeOK

\* The connections that wait or are served are open, and each is there once;
\* the thread is at a callback only for a request that has one.
QueueOK ==
    /\ \A i \in DOMAIN backlog : st[backlog[i]] = "open" /\ backlog[i] # serving
    /\ \A i, j \in DOMAIN backlog : backlog[i] = backlog[j] => i = j
    /\ serving # NoConn => st[serving] = "open"
    /\ at \in {"open", "write"} => CallsBack(req[serving])

\* The inductive invariant.
IInv == TypeOK /\ QueueOK /\ PresetsApart

\* PresetsApart over the indices of the table.
LEMMA Apart ==
    ASSUME presets \in Seq(Entry)
    PROVE  PresetsApart <=> \A i, j \in 1 .. Len(presets) :
               i < j => <<presets[j].token, presets[i].token>> \notin Begins
<1>1. DOMAIN presets = 1 .. Len(presets)
  OBVIOUS
<1>. QED
  BY <1>1, Zenon DEF PresetsApart

\* Setting a preset keeps the table's size and its order.  The entry that is
\* overwritten is the first the new token begins, so no later one begins the
\* new token: it would have begun the old one too.
LEMMA Stored ==
    ASSUME TypeOK, PresetsApart, NEW t \in Tokens, NEW n \in Names \cup {0},
           StorePreset(t, n)
    PROVE  presets' \in Seq(Entry) /\ Len(presets') <= MaxPresets /\ PresetsApart'
<1>. DEFINE entry == [token |-> t, name |-> n]
<1>0. entry \in Entry /\ presets \in Seq(Entry) /\ Len(presets) \in Nat
      /\ Len(presets) <= MaxPresets /\ MaxPresets \in Nat
  BY OnvifConstants DEF TypeOK, Entry
<1>a. \A i, j \in 1 .. Len(presets) :
        i < j => <<presets[j].token, presets[i].token>> \notin Begins
  BY <1>0, Apart
<1>1. CASE Match(t) # {}
  <2>. DEFINE f == FirstMatch(t)
  <2>1. f \in 1 .. Len(presets) /\ <<t, presets[f].token>> \in Begins
        /\ \A j \in 1 .. Len(presets) : <<t, presets[j].token>> \in Begins => f <= j
    BY <1>1, FirstMatchIsFirst
  <2>. HIDE DEF f
  <2>2. presets' = [presets EXCEPT ![f] = entry]
    BY <1>1 DEF StorePreset, f
  <2>3. presets' \in Seq(Entry) /\ Len(presets') = Len(presets)
    BY <1>0, <2>1, <2>2
  <2>4. ASSUME NEW i \in 1 .. Len(presets), NEW j \in 1 .. Len(presets), i < j
        PROVE  <<presets'[j].token, presets'[i].token>> \notin Begins
    <3>1. <<presets[j].token, presets[i].token>> \notin Begins
      BY <2>4, <1>a
    <3>2. presets[i].token \in Tokens /\ presets[j].token \in Tokens
          /\ presets[f].token \in Tokens
      <4>1. \A k \in 1 .. Len(presets) : presets[k] \in Entry
        BY <1>0
      <4>. QED
        BY <2>1, <4>1 DEF Entry
    <3>3. presets'[f] = entry /\ \A k \in 1 .. Len(presets) : k # f => presets'[k] = presets[k]
      BY <1>0, <2>1, <2>2
    <3>4. CASE i # f /\ j # f
      BY <3>1, <3>3, <3>4
    <3>5. CASE j = f
      <4>1. presets'[j].token = t /\ presets'[i] = presets[i]
        BY <3>3, <3>5, <2>4
      <4>. QED
        BY <2>1, <2>4, <3>5, <4>1
    <3>6. CASE i = f
      <4>1. j # f /\ presets'[j] = presets[j] /\ presets'[i].token = t
        BY <3>3, <3>6, <2>4
      <4>2. <<presets[j].token, t>> \in Begins => <<presets[j].token, presets[f].token>> \in Begins
        BY <2>1, <3>2, TokensAssumption
      <4>. QED
        BY <4>1, <4>2, <3>1, <3>6
    <3>. QED
      BY <3>4, <3>5, <3>6
  <2>. QED
    BY <1>0, <2>3, <2>4 DEF PresetsApart
<1>2. CASE Match(t) = {} /\ Len(presets) < MaxPresets
  <2>1. presets' = Append(presets, entry)
    BY <1>2 DEF StorePreset
  <2>2. presets' \in Seq(Entry) /\ Len(presets') = Len(presets) + 1
        /\ presets'[Len(presets) + 1] = entry
        /\ \A k \in 1 .. Len(presets) : presets'[k] = presets[k]
    BY <1>0, <2>1
  <2>3. \A i \in 1 .. Len(presets) : <<t, presets[i].token>> \notin Begins
    BY <1>0, <1>2 DEF Match
  <2>4. ASSUME NEW i \in 1 .. Len(presets'), NEW j \in 1 .. Len(presets'), i < j
        PROVE  <<presets'[j].token, presets'[i].token>> \notin Begins
    <3>1. i \in 1 .. Len(presets) /\ presets'[i] = presets[i]
      BY <1>0, <2>2, <2>4
    <3>2. CASE j = Len(presets) + 1
      BY <2>2, <2>3, <3>1, <3>2
    <3>3. CASE j \in 1 .. Len(presets)
      BY <1>a, <2>2, <2>4, <3>1, <3>3
    <3>. QED
      BY <1>0, <2>2, <3>2, <3>3
  <2>. QED
    BY <1>0, <1>2, <2>2, <2>4 DEF PresetsApart
<1>3. CASE Match(t) = {} /\ ~(Len(presets) < MaxPresets)
  BY <1>0, <1>3 DEF StorePreset, PresetsApart
<1>. QED
  BY <1>1, <1>2, <1>3

\* Removing a preset keeps the order of the others.
LEMMA Dropped ==
    ASSUME TypeOK, PresetsApart, NEW t \in Tokens, DropPreset(t)
    PROVE  presets' \in Seq(Entry) /\ Len(presets') <= MaxPresets /\ PresetsApart'
<1>0. presets \in Seq(Entry) /\ Len(presets) \in Nat
      /\ Len(presets) <= MaxPresets /\ MaxPresets \in Nat
  BY OnvifConstants DEF TypeOK
<1>a. \A i, j \in 1 .. Len(presets) :
        i < j => <<presets[j].token, presets[i].token>> \notin Begins
  BY <1>0, Apart
<1>1. CASE Match(t) = {}
  BY <1>0, <1>1 DEF DropPreset, PresetsApart
<1>2. CASE Match(t) # {}
  <2>. DEFINE f == FirstMatch(t)
              m == Len(presets) - 1
              old(i) == IF i < f THEN i ELSE i + 1
  <2>1. f \in 1 .. Len(presets)
    BY <1>2, FirstMatchIsFirst
  <2>. HIDE DEF f
  <2>2. m \in Nat /\ presets' = [i \in 1 .. m |-> IF i < f THEN presets[i] ELSE presets[i + 1]]
    BY <1>0, <1>2, <2>1 DEF DropPreset, f
  <2>3. \A i \in 1 .. m : old(i) \in 1 .. Len(presets) /\ presets'[i] = presets[old(i)]
    BY <1>0, <2>1, <2>2
  <2>4. \A i \in 1 .. m : presets'[i] \in Entry
    BY <1>0, <2>3
  <2>5. presets' \in Seq(Entry) /\ Len(presets') = m
    BY <2>2, <2>4
  <2>6. \A i, j \in 1 .. m : i < j => old(i) < old(j)
    BY <1>0, <2>1
  <2>7. \A i, j \in 1 .. m : i < j => <<presets'[j].token, presets'[i].token>> \notin Begins
    BY <1>a, <2>3, <2>6
  <2>. QED
    BY <1>0, <2>5, <2>7 DEF PresetsApart
<1>. QED
  BY <1>1, <1>2

\* GetPresets lists tokens, the last of which may be cut.
LEMMA ListedInSeq ==
    ASSUME TypeOK
    PROVE  Listed \in Seq(Tokens \cup {Cut})
<1>. DEFINE used[k \in 0 .. Len(presets)] ==
              IF k = 0 THEN 0 ELSE used[k - 1] + presets[k].name
            fits == {k \in 0 .. Len(presets) : k = 0 \/ used[k] < ListRoom}
            last == CHOOSE k \in fits : \A j \in fits : j <= k
            whole == [i \in 1 .. last |-> presets[i].token]
<1>1. Len(presets) \in Nat /\ presets \in Seq(Entry)
  BY DEF TypeOK
<1>2. Listed = IF last < Len(presets) /\ used[last] < ListRoom - 1
               THEN Append(whole, Cut) ELSE whole
  BY DEF Listed
<1>3. 0 \in fits /\ fits \in SUBSET (0 .. Len(presets))
  BY <1>1
<1>. HIDE DEF used, fits
<1>4. last \in fits
  <2>1. \E k \in fits : \A j \in fits : j <= k
    BY <1>1, <1>3, GreatestOf
  <2>. QED
    BY <2>1
<1>. HIDE DEF last
<1>5. last \in Nat /\ \A i \in 1 .. last : i \in 1 .. Len(presets)
  BY <1>1, <1>3, <1>4
<1>6. \A i \in 1 .. last : presets[i].token \in Tokens
  <2>1. \A i \in 1 .. Len(presets) : presets[i] \in Entry
    BY <1>1
  <2>. QED
    BY <1>5, <2>1 DEF Entry
<1>7. whole \in Seq(Tokens \cup {Cut})
  BY <1>5, <1>6
<1>. HIDE DEF whole
<1>8. Append(whole, Cut) \in Seq(Tokens \cup {Cut})
  BY <1>7
<1>. QED
  BY <1>2, <1>7, <1>8

\* Closing the connection served keeps the shape and the queue.
LEMMA Closed ==
    ASSUME IInv, at # "accept", NEW how \in ConnStates \ {"idle", "open"}, Close(how),
           UNCHANGED <<req, told, backlog, camera, ptzDir>>
    PROVE  TypeOK' /\ QueueOK'
<1>. USE DEF IInv, camera
<1>1. serving \in Conns /\ HeaderRoom + BodyRoom \in Nat /\ BodyRoom \in Nat
  BY OnvifConstants DEF TypeOK
<1>2. /\ backlog' = backlog /\ serving' = NoConn /\ at' = "accept" /\ got' = 0 /\ len' = 0
      /\ st' = [st EXCEPT ![serving] = how]
  BY DEF Close
<1>3. st' \in [Conns -> ConnStates]
  BY <1>1, <1>2 DEF TypeOK
<1>4. TypeOK'
  BY <1>1, <1>2, <1>3 DEF TypeOK, Steps
<1>5. NoConn \notin Conns /\ backlog \in Seq(Conns) /\ DOMAIN backlog = 1 .. Len(backlog)
      /\ st \in [Conns -> ConnStates]
  BY OnvifConstants DEF TypeOK
<1>6. ASSUME NEW i \in DOMAIN backlog
      PROVE  st'[backlog[i]] = "open" /\ backlog[i] # NoConn
  <2>1. backlog[i] \in Conns /\ backlog[i] # serving /\ st[backlog[i]] = "open"
    BY <1>5, <1>6 DEF QueueOK
  <2>. QED
    BY <1>1, <1>2, <1>5, <2>1
<1>. QED
  BY <1>2, <1>4, <1>6 DEF QueueOK

\* Every step keeps the shape of the state: the body's length and what was
\* read of it stay in their rooms, and a queue of Conns stays one.
LEMMA TypeStep ==
    IInv /\ [Next]_vars => TypeOK'
<1>. SUFFICES ASSUME IInv, [Next]_vars PROVE TypeOK'
  OBVIOUS
<1>. USE DEF IInv, client, thread, camera
<1>1. CASE \E c \in Conns : Connect(c)
  BY <1>1, OnvifConstants DEF Connect, ConnectWith, TypeOK, ConnStates
<1>2. CASE \E c \in Conns : Collect(c) \/ PreviewEnds(c)
  <2>1. Inquiry \in Request
    BY TokensAssumption DEF Inquiry, Request, Ops
  <2>2. <<>> \in Seq(Tokens \cup {Cut})
    OBVIOUS
  <2>. QED
    BY <1>2, <2>1, <2>2 DEF Collect, PreviewEnds, TypeOK, ConnStates
<1>3. CASE Accept
  BY <1>3, OnvifConstants DEF Accept, TypeOK, Steps
<1>4. CASE HeaderFails \/ BodyFails \/ Reply
  BY <1>4, Closed DEF HeaderFails, BodyFails, Reply, ConnStates
<1>5. CASE HeaderByte
  BY <1>5, OnvifConstants DEF HeaderByte, TypeOK, Steps
<1>6. CASE HeaderEnds
  <2>1. CASE \E how \in {"preview", "dropped", "lost"} : Close(how)
    BY <1>6, <2>1, Closed DEF HeaderEnds, ConnStates
  <2>2. CASE at' \in {"body", "dispatch"} /\ got' = 0 /\ len' \in 0 .. BodyRoom
             /\ UNCHANGED <<st, serving>>
    BY <1>6, <2>2, OnvifConstants DEF HeaderEnds, TypeOK, Steps
  <2>. QED
    BY <1>6, <2>1, <2>2, OnvifConstants DEF HeaderEnds
<1>7. CASE BodyBytes
  BY <1>7, OnvifConstants DEF BodyBytes, TypeOK, Steps
<1>8. CASE Dispatch
  <2>. DEFINE r == req[serving]
  <2>1. serving \in Conns /\ r \in Request
    BY <1>8 DEF Dispatch, TypeOK
  <2>2. r.op \in Ops /\ r.token \in Tokens /\ r.name \in Names \cup {0}
    BY <2>1 DEF Request
  <2>. HIDE DEF r
  <2>3. presets' \in Seq(Entry) /\ Len(presets') <= MaxPresets
    BY <1>8, <2>2, Stored, Dropped DEF Dispatch, TypeOK, r
  <2>4. told' \in [Conns -> Seq(Tokens \cup {Cut})]
    BY <1>8, <2>1, ListedInSeq DEF Dispatch, TypeOK, r
  <2>5. ircut' \in {"ON", "OFF", "AUTO"}
    BY <1>8 DEF Dispatch, TypeOK
  <2>6. at' \in {"open", "reply"} /\ UNCHANGED <<st, req, backlog, serving, got, len, ptzDir>>
        /\ at = "dispatch"
    BY <1>8 DEF Dispatch
  <2>. QED
    BY <2>3, <2>4, <2>5, <2>6 DEF TypeOK, Steps
<1>9. CASE OpenFile
  BY <1>9 DEF OpenFile, TypeOK, Steps
<1>10. CASE WriteFile
  <2>1. serving \in Conns /\ req[serving] \in Request /\ CallsBack(req[serving])
    BY <1>10 DEF WriteFile, TypeOK, QueueOK
  <2>2. Command(req[serving]) \in Commands
    BY <2>1, TokensAssumption DEF Command, Commands, CallsBack, Request, Ops
  <2>. QED
    BY <1>10, <2>2 DEF WriteFile, TypeOK, Steps
<1>11. CASE UNCHANGED vars
  BY <1>11 DEF vars, TypeOK
<1>. QED
  BY <1>1, <1>2, <1>3, <1>4, <1>5, <1>6, <1>7, <1>8, <1>9, <1>10, <1>11
     DEF Next, Serve, Receive

\* Every step keeps the queue: only an idle connection joins it, and what the
\* thread closes has left it.
LEMMA QueueStep ==
    IInv /\ [Next]_vars => QueueOK'
<1>. SUFFICES ASSUME IInv, [Next]_vars PROVE QueueOK'
  OBVIOUS
<1>. USE DEF IInv, client, thread, camera
<1>0. backlog \in Seq(Conns) /\ serving \in Conns \cup {NoConn} /\ NoConn \notin Conns
      /\ DOMAIN backlog = 1 .. Len(backlog)
      /\ st \in [Conns -> ConnStates]
  BY OnvifConstants DEF TypeOK
<1>1. ASSUME NEW c \in Conns, Connect(c) PROVE QueueOK'
  BY <1>0, <1>1 DEF Connect, ConnectWith, QueueOK, TypeOK
<1>2. ASSUME NEW c \in Conns, Collect(c) \/ PreviewEnds(c) PROVE QueueOK'
  <2>1. st[c] # "open" /\ \A d \in Conns \ {c} : st'[d] = st[d]
    BY <1>0, <1>2 DEF Collect, PreviewEnds
  <2>2. c # serving /\ \A i \in DOMAIN backlog : backlog[i] \in Conns /\ backlog[i] # c
    BY <1>0, <2>1 DEF QueueOK
  <2>3. at \in {"open", "write"} => serving \in Conns /\ req'[serving] = req[serving]
    BY <1>0, <1>2, <2>2 DEF Collect, PreviewEnds, TypeOK
  <2>4. UNCHANGED <<backlog, serving, at>>
    BY <1>2 DEF Collect, PreviewEnds
  <2>. QED
    BY <1>0, <2>1, <2>2, <2>3, <2>4 DEF QueueOK
<1>3. CASE Accept
  <2>1. \A i \in 1 .. Len(backlog) - 1 : backlog'[i] = backlog[i + 1]
        /\ DOMAIN backlog' = 1 .. Len(backlog) - 1 /\ 1 \in DOMAIN backlog
        /\ serving' = backlog[1]
    BY <1>0, <1>3 DEF Accept
  <2>. QED
    BY <1>0, <1>3, <2>1 DEF Accept, QueueOK
<1>4. CASE HeaderFails \/ BodyFails \/ Reply
  BY <1>4, Closed DEF HeaderFails, BodyFails, Reply, ConnStates
<1>5. CASE HeaderByte
  BY <1>5 DEF HeaderByte, QueueOK, TypeOK
<1>6. CASE HeaderEnds
  <2>1. CASE \E how \in {"preview", "dropped", "lost"} : Close(how)
    BY <1>6, <2>1, Closed DEF HeaderEnds, ConnStates
  <2>2. CASE at' \in {"body", "dispatch"} /\ UNCHANGED <<st, serving>>
    BY <1>6, <2>2 DEF HeaderEnds, QueueOK
  <2>. QED
    BY <1>6, <2>1, <2>2, OnvifConstants DEF HeaderEnds
<1>7. CASE BodyBytes
  BY <1>7 DEF BodyBytes, QueueOK
<1>8. CASE Dispatch
  BY <1>8 DEF Dispatch, QueueOK
<1>9. CASE OpenFile \/ WriteFile
  BY <1>9 DEF OpenFile, WriteFile, QueueOK
<1>10. CASE UNCHANGED vars
  BY <1>10 DEF vars, QueueOK
<1>. QED
  BY <1>1, <1>2, <1>3, <1>4, <1>5, <1>6, <1>7, <1>8, <1>9, <1>10
     DEF Next, Serve, Receive

\* Only a handler changes the table, and it keeps the presets apart.
LEMMA ApartStep ==
    IInv /\ [Next]_vars => PresetsApart'
<1>. SUFFICES ASSUME IInv, [Next]_vars PROVE PresetsApart'
  OBVIOUS
<1>1. CASE Dispatch
  <2>1. req[serving].token \in Tokens /\ req[serving].name \in Names \cup {0}
    BY <1>1 DEF Dispatch, TypeOK, IInv, Request
  <2>2. CASE UNCHANGED presets
    BY <2>2 DEF IInv, PresetsApart
  <2>. QED
    BY <1>1, <2>1, <2>2, Stored, Dropped DEF Dispatch, IInv
<1>2. CASE UNCHANGED presets
  BY <1>2 DEF IInv, PresetsApart
<1>. QED
  BY <1>1, <1>2 DEF Next, Serve, Receive, Connect, ConnectWith, Collect, PreviewEnds, Accept,
     HeaderFails, BodyFails, Reply, HeaderByte, HeaderEnds, BodyBytes, OpenFile, WriteFile,
     vars, camera

\* The invariant holds at first.
LEMMA InitIInv ==
    Init => IInv
<1>1. Inquiry \in Request
  BY TokensAssumption DEF Inquiry, Request, Ops
<1>. QED
  BY <1>1, OnvifConstants DEF Init, IInv, TypeOK, ConnStates, QueueOK, PresetsApart, Steps

\* The inductive invariant holds throughout.
THEOREM Invariance ==
    Spec => []IInv
<1>1. IInv /\ [Next]_vars => IInv'
  BY TypeStep, QueueStep, ApartStep DEF IInv
<1>. QED
  BY InitIInv, <1>1, PTL DEF Spec

\* The table never grows past its room, and a request's reads past theirs.
THEOREM TypeCorrect ==
    Spec => []TypeOK
BY Invariance, PTL DEF IInv

\* No two presets ever have one token, nor does one stand behind a longer one
\* that begins with it.
THEOREM PresetsKeptApart ==
    Spec => []PresetsApart
BY Invariance, PTL DEF IInv

-----------------------------------------------------------------------------
(* The table implements the book.                                          *)

\* The pages of the table.
Pages == {presets[i] : i \in DOMAIN presets}

\* There are as many at most as the table has entries.
LEMMA PagesBound ==
    ASSUME presets \in Seq(Entry)
    PROVE  Cardinality(Pages) \in Nat /\ Cardinality(Pages) <= Len(presets)
<1>1. presets \in Surjection(1 .. Len(presets), Pages)
  BY DEF Pages, Surjection
<1>2. IsFiniteSet(1 .. Len(presets)) /\ Cardinality(1 .. Len(presets)) = Len(presets)
  <2>1. Len(presets) \in Nat
    OBVIOUS
  <2>. QED
    BY <2>1, FS_Interval
<1>3. IsFiniteSet(Pages) /\ Cardinality(Pages) <= Cardinality(1 .. Len(presets))
  BY <1>1, <1>2, FS_Surjection
<1>. QED
  BY <1>2, <1>3, FS_CardinalityType

\* No page is in the table twice.
LEMMA EntriesDiffer ==
    ASSUME presets \in Seq(Entry), PresetsApart,
           NEW i \in 1 .. Len(presets), NEW j \in 1 .. Len(presets), i # j
    PROVE  presets[i] # presets[j]
<1>1. presets[i] \in Entry
  OBVIOUS
<1>2. <<presets[i].token, presets[i].token>> \in Begins
  BY <1>1, TokensAssumption DEF Entry
<1>. QED
  BY <1>2, Apart

\* SetPreset writes one page, or none.
LEMMA StoreWrites ==
    ASSUME TypeOK, PresetsApart, NEW t \in Tokens \ {NoToken}, NEW n \in Names \cup {0},
           StorePreset(t, n)
    PROVE  Book!Write(t, n) \/ Pages' = Pages
<1>. DEFINE entry == [token |-> t, name |-> n]
<1>0. presets \in Seq(Entry) /\ Len(presets) \in Nat /\ DOMAIN presets = 1 .. Len(presets)
      /\ MaxPresets \in Nat
  BY OnvifConstants DEF TypeOK
<1>1. CASE Match(t) # {}
  <2>. DEFINE f == FirstMatch(t)
  <2>1. f \in 1 .. Len(presets) /\ <<t, presets[f].token>> \in Begins
    BY <1>1, FirstMatchIsFirst
  <2>. HIDE DEF f
  <2>2. presets' = [presets EXCEPT ![f] = entry]
    BY <1>1 DEF StorePreset, f
  <2>3. \A k \in 1 .. Len(presets) : k # f => presets[k] # presets[f]
    BY <1>0, <2>1, EntriesDiffer
  <2>4. Pages' = (Pages \ {presets[f]}) \cup {entry}
    BY <1>0, <2>1, <2>2, <2>3 DEF Pages
  <2>. QED
    BY <1>0, <2>1, <2>4 DEF Book!Write, Book!Meant, Pages
<1>2. CASE Match(t) = {} /\ Len(presets) < MaxPresets
  <2>1. presets' = Append(presets, entry)
    BY <1>2 DEF StorePreset
  <2>2. Pages' = Pages \cup {entry}
    <3>1. DOMAIN presets' = 1 .. Len(presets) + 1 /\ presets'[Len(presets) + 1] = entry
          /\ \A k \in 1 .. Len(presets) : presets'[k] = presets[k]
      BY <1>0, <2>1
    <3>. QED
      BY <1>0, <3>1 DEF Pages
  <2>3. Cardinality(Pages) < MaxPresets
    BY <1>0, <1>2, PagesBound
  <2>4. \A p \in Pages : <<t, p.token>> \notin Begins
    BY <1>0, <1>2 DEF Match, Pages
  <2>5. Book!Cardinality(Pages) = Cardinality(Pages)
    BY DEF Cardinality, Book!Cardinality
  <2>. QED
    BY <2>2, <2>3, <2>4, <2>5 DEF Book!Write, Book!Meant, Pages
<1>3. CASE Match(t) = {} /\ ~(Len(presets) < MaxPresets)
  BY <1>3 DEF StorePreset, Pages
<1>. QED
  BY <1>1, <1>2, <1>3

\* RemovePreset tears out one page, or none.
LEMMA DropTears ==
    ASSUME TypeOK, PresetsApart, NEW t \in Tokens, DropPreset(t)
    PROVE  Book!TearOut(t) \/ Pages' = Pages
<1>0. presets \in Seq(Entry) /\ Len(presets) \in Nat /\ DOMAIN presets = 1 .. Len(presets)
  BY DEF TypeOK
<1>1. CASE Match(t) = {}
  BY <1>1 DEF DropPreset, Pages
<1>2. CASE Match(t) # {}
  <2>. DEFINE f == FirstMatch(t)
              m == Len(presets) - 1
  <2>1. f \in 1 .. Len(presets) /\ <<t, presets[f].token>> \in Begins
    BY <1>2, FirstMatchIsFirst
  <2>. HIDE DEF f
  <2>2. presets' = [i \in 1 .. m |-> IF i < f THEN presets[i] ELSE presets[i + 1]]
    BY <1>2 DEF DropPreset, f
  <2>3. \A k \in 1 .. Len(presets) : k # f => presets[k] # presets[f]
    BY <1>0, <2>1, EntriesDiffer
  <2>4. \A i \in 1 .. m : \E k \in 1 .. Len(presets) : k # f /\ presets'[i] = presets[k]
    BY <1>0, <2>1, <2>2
  <2>5. \A k \in 1 .. Len(presets) : k # f => \E i \in 1 .. m : presets'[i] = presets[k]
    <3>1. ASSUME NEW k \in 1 .. Len(presets), k < f
          PROVE  k \in 1 .. m /\ presets'[k] = presets[k]
      BY <1>0, <2>1, <2>2, <3>1
    <3>2. ASSUME NEW k \in 1 .. Len(presets), f < k
          PROVE  k - 1 \in 1 .. m /\ presets'[k - 1] = presets[k]
      BY <1>0, <2>1, <2>2, <3>2
    <3>. QED
      BY <1>0, <2>1, <3>1, <3>2
  <2>6. Pages' = Pages \ {presets[f]}
    <3>1. DOMAIN presets' = 1 .. m
      BY <2>2
    <3>2. ASSUME NEW p \in Pages' PROVE p \in Pages \ {presets[f]}
      BY <1>0, <2>3, <2>4, <3>1, <3>2 DEF Pages
    <3>3. ASSUME NEW p \in Pages \ {presets[f]} PROVE p \in Pages'
      BY <1>0, <2>5, <3>1, <3>3 DEF Pages
    <3>. QED
      BY <3>2, <3>3
  <2>. QED
    BY <1>0, <2>1, <2>6 DEF Book!TearOut, Book!Meant, Pages
<1>. QED
  BY <1>1, <1>2

\* The detailed service implements the book.
THEOREM TableIsBook ==
    Spec => ImplementsBook
<1>1. Init => Book!Init
  BY DEF Init, Book!Init
<1>2. IInv /\ [Next]_vars => [Book!Next]_Pages
  <2>. SUFFICES ASSUME IInv, [Next]_vars PROVE Book!Next \/ Pages' = Pages
    OBVIOUS
  <2>1. CASE Dispatch
    <3>. DEFINE r == req[serving]
    <3>1. r.token \in Tokens /\ r.name \in Names \cup {0}
      BY <2>1 DEF Dispatch, TypeOK, IInv, Request
    <3>2. CASE r.op = "set" /\ r.token # NoToken
      <4>1. StorePreset(r.token, r.name)
        BY <2>1, <3>2 DEF Dispatch
      <4>. QED
        BY <3>1, <3>2, <4>1, StoreWrites DEF IInv, Book!Next
    <3>3. CASE r.op = "remove"
      <4>1. DropPreset(r.token)
        BY <2>1, <3>3 DEF Dispatch
      <4>. QED
        BY <3>1, <4>1, DropTears DEF IInv, Book!Next
    <3>4. CASE presets' = presets
      BY <3>4 DEF Pages
    <3>. QED
      BY <2>1, <3>2, <3>3, <3>4 DEF Dispatch
  <2>2. CASE UNCHANGED presets
    BY <2>2 DEF Pages
  <2>. QED
    BY <2>1, <2>2 DEF Next, Serve, Receive, Connect, ConnectWith, Collect, PreviewEnds, Accept,
       HeaderFails, BodyFails, Reply, HeaderByte, HeaderEnds, BodyBytes, OpenFile, WriteFile,
       vars, camera
<1>. QED
  BY <1>1, <1>2, Invariance, PTL DEF Spec, ImplementsBook, Book!Spec, Pages
-----------------------------------------------------------------------------
(* The screen.                                                             *)

\* The display takes nothing away from the service: together with it, the
\* service behaves as it does alone, and what holds for it holds there too.
THEOREM ServiceUndisturbed ==
    ScreenSpec => Spec
<1>1. ScreenInit => Init
  BY DEF ScreenInit
<1>2. [ScreenNext]_svars => [Next]_vars
  <2>. SUFFICES ASSUME [ScreenNext]_svars PROVE Next \/ UNCHANGED vars
    OBVIOUS
  <2>1. CASE Frame
    BY <2>1 DEF Frame
  <2>2. CASE Restart
    BY <2>2 DEF Restart
  <2>3. CASE Tick
    BY <2>3 DEF Tick
  <2>4. CASE Camera
    BY <2>4 DEF Camera
  <2>5. CASE UNCHANGED svars
    BY <2>5 DEF svars
  <2>. QED
    BY <2>1, <2>2, <2>3, <2>4, <2>5 DEF ScreenNext
<1>. QED
  BY <1>1, <1>2, PTL DEF ScreenSpec, Spec

\* The counters of the screen.
CountersOK ==
    /\ frame \in 0 .. Every - 1 /\ lag \in 0 .. Every
    /\ left \in 0 .. Hold /\ age \in 0 .. Hold

\* One of the frames since the last change was one with a look: the last
\* look was at as many frames before as frame says.
Looked == lag = Every \/ (frame > 0 /\ frame <= lag)

\* What the display knows once it has looked: that nothing is to be shown, or
\* for how long, and either the label or the arrow.
ShowsFile ==
    Looked =>
        /\ Ends(ptzDir) => left = 0
        /\ Whole(ptzDir) /\ ~Ends(ptzDir) =>
              /\ left = Hold - age
              /\ left > 0 => IF ptzDir \in Presets THEN label = ptzDir
                             ELSE side = ptzDir.cmd /\ label = NoLabel

\* frame_count modulo Every is counted up, or begins again.
LEMMA NextFrame ==
    ASSUME CountersOK
    PROVE  (frame + 1) % Every = IF frame + 1 = Every THEN 0 ELSE frame + 1
<1>1. Every \in Nat \ {0} /\ frame \in 0 .. Every - 1
  BY ScreenConstants DEF CountersOK
<1>2. CASE frame + 1 = Every
  BY <1>1, <1>2
<1>3. CASE frame + 1 < Every
  BY <1>1, <1>3
<1>. QED
  BY <1>1, <1>2, <1>3

\* Every step keeps the counters within their bounds.
LEMMA CountersStep ==
    CountersOK /\ [ScreenNext]_svars => CountersOK'
<1>. SUFFICES ASSUME CountersOK, [ScreenNext]_svars PROVE CountersOK'
  OBVIOUS
<1>1. Hold \in Nat \ {0} /\ Every \in Nat \ {0}
  BY ScreenConstants
<1>2. CASE Frame
  <2>1. frame' \in 0 .. Every - 1
    BY <1>1, <1>2, NextFrame DEF Frame, CountersOK
  <2>2. left' \in 0 .. Hold
    BY <1>1, <1>2 DEF Frame, Update, Shown, CountersOK
  <2>3. lag' \in 0 .. Every /\ age' = age
    BY <1>1, <1>2 DEF Frame, CountersOK
  <2>. QED
    BY <2>1, <2>2, <2>3 DEF CountersOK
<1>3. CASE Restart
  BY <1>1, <1>3 DEF Restart, CountersOK
<1>4. CASE Tick
  BY <1>1, <1>4 DEF Tick, CountersOK
<1>5. CASE Camera
  BY <1>1, <1>5 DEF Camera, screen, CountersOK
<1>6. CASE UNCHANGED svars
  BY <1>6 DEF svars, screen, CountersOK
<1>. QED
  BY <1>2, <1>3, <1>4, <1>5, <1>6 DEF ScreenNext

\* Every step keeps what the display knows: a look learns it, time takes as
\* much off what is left as it adds to the age, and a change is a change until
\* the next look.
LEMMA ShowsStep ==
    CountersOK /\ ShowsFile /\ [ScreenNext]_svars => ShowsFile'
<1>. SUFFICES ASSUME CountersOK, ShowsFile, [ScreenNext]_svars PROVE ShowsFile'
  OBVIOUS
<1>1. /\ Hold \in Nat \ {0} /\ Every \in Nat \ {0}
      /\ frame \in 0 .. Every - 1 /\ lag \in 0 .. Every
      /\ left \in 0 .. Hold /\ age \in 0 .. Hold
  BY ScreenConstants DEF CountersOK
<1>2. CASE Frame
  <2>1. /\ ptzDir' = ptzDir /\ age' = age
        /\ lag' = (IF lag = Every THEN Every ELSE lag + 1)
        /\ frame' = (IF frame + 1 = Every THEN 0 ELSE frame + 1)
    BY <1>2, NextFrame DEF Frame, vars
  <2>2. CASE frame = 0
    <3>. DEFINE f == ptzDir
    <3>1. /\ side' = Update.side /\ left' = Update.left
          /\ label' = IF Update.left > 0 THEN Update.label ELSE NoLabel
      BY <1>2, <2>2 DEF Frame
    <3>2. ASSUME Ends(f) PROVE left' = 0
      BY <3>1, <3>2 DEF Update
    <3>3. ASSUME Whole(f), ~Ends(f)
          PROVE  /\ left' = Hold - age
                 /\ left' > 0 => IF f \in Presets THEN label' = f
                                 ELSE side' = f.cmd /\ label' = NoLabel
      <4>1. left' = Hold - age
        BY <3>1, <3>3 DEF Update
      <4>2. f \in Presets \/ f.cmd \in {"LEFT", "RIGHT"}
        BY <3>3 DEF Whole, Ends
      <4>3. Update.label = IF f \in Presets THEN f ELSE NoLabel
        BY <3>3 DEF Update
      <4>4. f.cmd \in {"LEFT", "RIGHT"} => Update.side = f.cmd
        BY DEF Update
      <4>. QED
        BY <3>1, <4>1, <4>2, <4>3, <4>4
    <3>. QED
      BY <2>1, <3>2, <3>3 DEF ShowsFile
  <2>3. CASE frame # 0
    <3>1. /\ side' = side /\ left' = left
          /\ label' = IF left > 0 THEN label ELSE NoLabel
      BY <1>2, <2>3 DEF Frame, Shown
    <3>2. Looked' => Looked
      BY <1>1, <2>1, <2>3 DEF Looked
    <3>. QED
      BY <2>1, <3>1, <3>2 DEF ShowsFile
  <2>. QED
    BY <2>2, <2>3
<1>3. CASE Restart
  <2>1. ~Looked'
    BY <1>1, <1>3 DEF Restart, Looked
  <2>. QED
    BY <2>1 DEF ShowsFile
<1>4. CASE Tick
  <2>1. /\ ptzDir' = ptzDir /\ UNCHANGED <<frame, side, label, lag>>
        /\ age' = (IF age = Hold THEN Hold ELSE age + 1)
        /\ left' = (IF left = 0 THEN 0 ELSE left - 1)
    BY <1>4 DEF Tick, vars
  <2>2. Looked' = Looked
    BY <2>1 DEF Looked
  <2>3. left = 0 => left' = 0
    BY <2>1
  <2>4. left = Hold - age => left' = Hold - age'
    BY <1>1, <2>1
  <2>5. left' > 0 => left > 0
    BY <1>1, <2>1
  <2>. QED
    BY <2>1, <2>2, <2>3, <2>4, <2>5 DEF ShowsFile
<1>5. CASE Camera
  <2>1. UNCHANGED <<frame, side, label, left>>
    BY <1>5 DEF Camera, screen
  <2>2. CASE ptzDir' = ptzDir /\ at # "write"
    <3>1. UNCHANGED <<age, lag, ptzDir>>
      BY <1>5, <2>2 DEF Camera
    <3>. QED
      BY <2>1, <3>1 DEF ShowsFile, Looked
  <2>3. CASE ~(ptzDir' = ptzDir /\ at # "write")
    <3>1. lag' = 0
      BY <1>5, <2>3 DEF Camera
    <3>2. ~Looked'
      BY <1>1, <2>1, <3>1 DEF Looked
    <3>. QED
      BY <3>2 DEF ShowsFile
  <2>. QED
    BY <2>2, <2>3
<1>6. CASE UNCHANGED svars
  <2>1. UNCHANGED <<frame, side, label, left, age, lag, ptzDir>>
    BY <1>6 DEF svars, screen, vars
  <2>. QED
    BY <2>1 DEF ShowsFile, Looked
<1>. QED
  BY <1>2, <1>3, <1>4, <1>5, <1>6 DEF ScreenNext

\* What is shown is what is in the file, once the display has had time to see it.
LEMMA KnownIsDrawn ==
    TypeOK /\ CountersOK /\ ShowsFile => ScreenFollowsFile
<1>. SUFFICES ASSUME TypeOK, CountersOK, ShowsFile, lag = Every, Whole(ptzDir) \/ Ends(ptzDir)
              PROVE  Drawn = IF Whole(ptzDir) /\ ~Ends(ptzDir) /\ age < Hold
                             THEN ptzDir ELSE NoLabel
  BY DEF ScreenFollowsFile
<1>1. Looked /\ Hold \in Nat \ {0} /\ left \in 0 .. Hold /\ age \in 0 .. Hold
  BY ScreenConstants DEF Looked, CountersOK
<1>2. CASE Ends(ptzDir)
  BY <1>1, <1>2 DEF ShowsFile, Drawn
<1>3. CASE Whole(ptzDir) /\ ~Ends(ptzDir)
  <2>1. left = Hold - age
    BY <1>1, <1>3 DEF ShowsFile
  <2>2. CASE age = Hold
    BY <1>1, <2>1, <2>2 DEF Drawn
  <2>3. CASE age # Hold
    <3>1. left > 0 /\ age < Hold
      BY <1>1, <2>1, <2>3
    <3>2. CASE ptzDir \in Presets
      <4>1. label = ptzDir
        BY <1>1, <1>3, <3>1, <3>2 DEF ShowsFile
      <4>2. ptzDir.cmd # NoLabel.cmd
        BY <3>2 DEF Presets, NoLabel, NoFile
      <4>. QED
        BY <1>1, <1>3, <3>1, <4>1, <4>2 DEF Drawn
    <3>3. CASE ptzDir \notin Presets
      <4>1. side = ptzDir.cmd /\ label = NoLabel
        BY <1>1, <1>3, <3>1, <3>3 DEF ShowsFile
      <4>2. ptzDir.cmd \in {"LEFT", "RIGHT"}
        BY <1>3, <3>3 DEF Whole, Ends
      <4>3. ptzDir \in [cmd : {"LEFT", "RIGHT", "STOP"}, token : {NoToken}]
        <5>0. NoFile.cmd = "no file" /\ Empty.cmd = "empty"
          BY DEF NoFile, Empty
        <5>1. ptzDir # NoFile /\ ptzDir # Empty
          BY <4>2, <5>0
        <5>2. ptzDir \in Commands
          BY <5>1 DEF TypeOK
        <5>. QED
          BY <3>3, <5>2 DEF Commands, Presets
      <4>4. ptzDir = [cmd |-> ptzDir.cmd, token |-> NoToken]
        BY <4>3
      <4>. QED
        BY <1>1, <1>3, <3>1, <4>1, <4>4 DEF Drawn
    <3>. QED
      BY <3>2, <3>3
  <2>. QED
    BY <2>2, <2>3
<1>. QED
  BY <1>2, <1>3

\* After as many frames as lie between two looks, the screen shows the last
\* command the camera accepted, for the rest of its time, and nothing else.
THEOREM ScreenIsFile ==
    ScreenSpec => []ScreenFollowsFile
<1>1. ScreenInit => CountersOK /\ ShowsFile
  BY ScreenConstants DEF ScreenInit, CountersOK, ShowsFile, Looked
<1>2. CountersOK /\ ShowsFile /\ [ScreenNext]_svars => CountersOK' /\ ShowsFile'
  BY CountersStep, ShowsStep
<1>3. ScreenSpec => [](CountersOK /\ ShowsFile)
  BY <1>1, <1>2, PTL DEF ScreenSpec
<1>. QED
  BY <1>3, KnownIsDrawn, ServiceUndisturbed, TypeCorrect, PTL
=============================================================================

------------------------- MODULE PrefixCacheProofs -------------------------
(***************************************************************************)
(* For every set of prompts and every capacity: the LRU table keeps its    *)
(* shape, a slot in use is handed out only after an abort, and as long as  *)
(* that has not happened and only saved snapshots were confirmed, every    *)
(* request decodes from the KV state of its own prompt.                    *)
(***************************************************************************)
EXTENDS PrefixCache, ListLemmas, SequenceTheorems, TLAPS

-----------------------------------------------------------------------------
(* The inductive invariant *)

\* From prepare_inline_snap to the confirmation or the abort.
Reserving == pc \in {"restore", "prefill", "decode", "served", "failed"}

\* The request in progress has a prompt, and the loop of lookup has a position.
RequestOK ==
  /\ pc # "idle" => prompt \in Prompts /\ cut \in Nat \ {0}
  /\ pc = "lookup" => snap = NoSnap /\ pending = <<>>
  /\ pc = "idle" => pending = <<>> /\ snap = NoSnap /\ hit = NoHit /\ ~saved

\* What lookup() returned is an entry for a prefix of the prompt.
HitOK ==
  pc \in {"lookup", "restore"} /\ hit.slot # NoSlot =>
    \E i \in 1..Len(entries) :
      entries[i].slot = hit.slot /\ entries[i].key = Key(prompt, hit.len)

\* A reserved slot is for a proper prefix that is not in the table yet; there
\* is room for it, or the oldest entry will make room.
SnapOK ==
  Reserving /\ snap.slot # NoSlot =>
    /\ snap.cut \in 1..(Len(prompt) - 1)
    /\ ~Cached(Key(prompt, snap.cut))
    /\ pending = <<>> => Len(entries) < Cap

NoReservation == Reserving /\ snap.slot = NoSlot => pending = <<>>

\* Before the first abort the slots in use are the first ones, and next_slot_
\* is the one after them.
Rotation ==
  "abort" \notin faults =>
    /\ \A i \in 1..Len(entries) : entries[i].slot < Len(entries)
    /\ IF Reserving /\ snap.slot # NoSlot /\ pending = <<>>
         THEN /\ snap.slot = Len(entries)
              /\ next_slot = IF Len(entries) + 1 = Cap THEN 0 ELSE Len(entries) + 1
         ELSE next_slot = IF Len(entries) = Cap THEN 0 ELSE Len(entries)

\* Neither of the two faults that the code does not prevent has happened.
Clean == "alias" \notin faults /\ "unsaved" \notin faults

\* No two entries share a slot, the reserved one is nobody else's, every entry
\* but the one reserved for eviction has its own prefix in its slot, and so
\* has the reserved slot once the snapshot was saved.
Coherent ==
  Clean =>
    /\ \A i, j \in 1..Len(entries) : entries[i].slot = entries[j].slot => i = j
    /\ Reserving /\ snap.slot # NoSlot /\ pending = <<>> => ~InUse(snap.slot)
    /\ \A i \in 1..Len(entries) :
         entries[i].key # pending \/ pc = "restore" => slots[entries[i].slot] = entries[i].key
    /\ Reserving /\ snap.slot # NoSlot /\ saved => slots[snap.slot] = Key(prompt, snap.cut)
    /\ pc = "prefill" => Len(kv) <= Len(prompt) /\ kv = Key(prompt, Len(kv))
    /\ pc = "decode" => kv = prompt

NotSavedYet == pc \in {"lookup", "restore", "prefill"} => ~saved

IInv ==
  /\ TypeOK
  /\ TableBounded
  /\ ReservationHeld
  /\ RequestOK
  /\ HitOK
  /\ SnapOK
  /\ NoReservation
  /\ Rotation
  /\ NotSavedYet
  /\ Coherent

-----------------------------------------------------------------------------
(* Sequences *)

\* hash_prefix(): what a prefix of a prompt is.
LEMMA KeyFacts ==
  ASSUME NEW S, NEW p \in Seq(S), NEW n \in 0..Len(p)
  PROVE  /\ Key(p, n) \in Seq(S) /\ Len(Key(p, n)) = n
         /\ n > 0 => Key(p, n) # <<>>
         /\ Key(p, n) \o SubSeq(p, n + 1, Len(p)) = p
         /\ \A m \in 0..n : Key(Key(p, n), m) = Key(p, m)
         /\ Key(p, Len(p)) = p
BY PrefixFacts DEF Key

\* Where move_to_end(i) of n elements takes its j-th element from.
From(i, n, j) == IF j < i THEN j ELSE IF j < n THEN j + 1 ELSE i

\* move_to_end(): the same elements at other positions.
LEMMA MoveToEndRenames ==
  ASSUME NEW S, NEW s \in Seq(S), NEW i \in 1..Len(s)
  PROVE  /\ MoveToEnd(s, i) \in Seq(S) /\ Len(MoveToEnd(s, i)) = Len(s)
         /\ MoveToEnd(s, i)[Len(s)] = s[i]
         /\ \A j \in 1..Len(s) : /\ From(i, Len(s), j) \in 1..Len(s)
                                 /\ MoveToEnd(s, i)[j] = s[From(i, Len(s), j)]
         /\ \A j, k \in 1..Len(s) : From(i, Len(s), j) = From(i, Len(s), k) => j = k
         /\ \A k \in 1..Len(s) : \E j \in 1..Len(s) : From(i, Len(s), j) = k
<1> DEFINE t == MoveToEnd(s, i)
<1>0. /\ t \in Seq(S) /\ Len(t) = Len(s)
      /\ \A j \in 1..(i - 1) : t[j] = s[j]
      /\ \A j \in i..(Len(s) - 1) : t[j] = s[j + 1]
      /\ t[Len(s)] = s[i]
  <2> DEFINE r == RemoveAt(s, i)
  <2>1. s[i] \in S /\ Len(s) \in Nat OBVIOUS
  <2>2. /\ r \in Seq(S) /\ Len(r) = Len(s) - 1
        /\ \A j \in 1..(i - 1) : r[j] = s[j]
        /\ \A j \in i..(Len(s) - 1) : r[j] = s[j + 1]
    BY RemoveAtFacts
  <2>3. t = Append(r, s[i]) BY DEF MoveToEnd
  <2> HIDE DEF r, t
  <2>4. /\ t \in Seq(S) /\ Len(t) = Len(r) + 1 /\ t[Len(r) + 1] = s[i]
        /\ \A j \in 1..Len(r) : t[j] = r[j]
    BY <2>1, <2>2, <2>3, AppendFacts
  <2>5. Len(t) = Len(s) /\ t[Len(s)] = s[i] BY <2>1, <2>2, <2>4
  <2>6. ASSUME NEW j \in 1..(i - 1) PROVE t[j] = s[j]
    <3>1. j \in 1..Len(r) BY <2>1, <2>2
    <3> QED BY <2>2, <2>4, <3>1
  <2>7. ASSUME NEW j \in i..(Len(s) - 1) PROVE t[j] = s[j + 1]
    <3>1. j \in 1..Len(r) BY <2>1, <2>2
    <3> QED BY <2>2, <2>4, <3>1
  <2> QED BY <2>4, <2>5, <2>6, <2>7
<1> HIDE DEF t
<1> DEFINE n == Len(s)
<1>1. /\ n \in Nat /\ i \in 1..n OBVIOUS
<1>2. /\ \A j \in 1..(i - 1) : t[j] = s[j]
      /\ \A j \in i..(n - 1) : t[j] = s[j + 1]
      /\ t[n] = s[i]
  BY <1>0
<1> HIDE DEF n
<1>3. \A j \in 1..n : From(i, n, j) \in 1..n BY <1>1 DEF From
<1>4. ASSUME NEW j \in 1..n PROVE t[j] = s[From(i, n, j)]
  <2>1. CASE j < i
    <3>1. j \in 1..(i - 1) /\ From(i, n, j) = j BY <1>1, <2>1 DEF From
    <3> QED BY <1>2, <3>1
  <2>2. CASE ~(j < i) /\ j < n
    <3>1. j \in i..(n - 1) /\ From(i, n, j) = j + 1 BY <1>1, <2>2 DEF From
    <3> QED BY <1>2, <3>1
  <2>3. CASE ~(j < i) /\ ~(j < n)
    <3>1. j = n /\ From(i, n, j) = i BY <1>1, <2>3 DEF From
    <3> QED BY <1>2, <3>1
  <2> QED BY <2>1, <2>2, <2>3
<1>5. \A j, k \in 1..n : From(i, n, j) = From(i, n, k) => j = k BY <1>1 DEF From
<1>6. ASSUME NEW k \in 1..n PROVE \E j \in 1..n : From(i, n, j) = k
  <2>1. CASE k < i BY <1>1, <2>1 DEF From
  <2>2. CASE k = i BY <1>1, <2>2 DEF From
  <2>3. CASE k > i
    <3>1. k - 1 \in 1..n /\ From(i, n, k - 1) = k BY <1>1, <2>3 DEF From
    <3> QED BY <3>1
  <2> QED BY <1>1, <2>1, <2>2, <2>3
<1> QED BY <1>0, <1>3, <1>4, <1>5, <1>6 DEF n, t

-----------------------------------------------------------------------------
(* The table *)

Entry == [key : Keys, slot : Slots]

\* Every element of entries_ has a key, which is no empty prefix, and a slot.
LEMMA EntryFacts ==
  ASSUME TypeOK
  PROVE  \A k \in 1..Len(entries) : entries[k] \in Entry /\ entries[k].key # <<>>
<1>1. entries \in Seq(Entry) BY DEF TypeOK, Entry
<1>2. ASSUME NEW k \in 1..Len(entries) PROVE entries[k] \in Entry
  BY ONLY <1>1, <1>2, ElementOfSeq
<1>3. ASSUME NEW k \in 1..Len(entries) PROVE entries[k].key # <<>>
  <2>1. entries[k].key \in Keys BY ONLY <1>2 DEF Entry
  <2> QED BY ONLY <2>1 DEF Keys
<1> QED BY <1>2, <1>3

\* find_entry() finds an entry with the key it was asked for.
LEMMA PositionFacts ==
  ASSUME NEW k, Cached(k)
  PROVE  Position(k) \in 1..Len(entries) /\ entries[Position(k)].key = k
BY DEF Cached, Position

\* The table after the reserved entry was evicted: the others keep their order.
LEMMA WithoutPendingFacts ==
  ASSUME TypeOK, TableBounded, ReservationHeld, SnapOK, Reserving, snap.slot # NoSlot
  PROVE  \E d \in {0, 1} :
           /\ pending = <<>> <=> d = 0
           /\ WithoutPending \in Seq(Entry)
           /\ Len(WithoutPending) = Len(entries) - d /\ Len(WithoutPending) < Cap
           /\ Len(entries) \in Nat
           /\ \A j \in 1..Len(WithoutPending) : WithoutPending[j] = entries[j + d]
<1>1. entries \in Seq(Entry) /\ Len(entries) \in Nat /\ Cap \in Nat \ {0}
  BY CapAssumption DEF TypeOK, Entry
<1>2. CASE pending = <<>>
  <2>1. WithoutPending = entries BY <1>2 DEF WithoutPending
  <2>2. Len(entries) < Cap BY <1>2 DEF SnapOK
  <2> QED BY <1>1, <1>2, <2>1, <2>2
<1>3. CASE pending # <<>>
  <2>1. Len(entries) = Cap /\ entries[1].key = pending BY <1>3 DEF ReservationHeld
  <2>2. 1 \in 1..Len(entries) BY <1>1, <2>1
  <2>3. Cached(pending) BY <2>1, <2>2 DEF Cached
  <2>4. Position(pending) = 1
    BY <2>1, <2>2, <2>3, PositionFacts DEF TableBounded
  <2>5. WithoutPending = RemoveAt(entries, 1) BY <1>3, <2>3, <2>4 DEF WithoutPending
  <2>6. /\ RemoveAt(entries, 1) \in Seq(Entry)
        /\ Len(RemoveAt(entries, 1)) = Len(entries) - 1
        /\ \A j \in 1..(Len(entries) - 1) : RemoveAt(entries, 1)[j] = entries[j + 1]
    BY <1>1, <2>2, RemoveAtFacts
  <2>7. Len(entries) - 1 < Cap BY <1>1, <2>1
  <2> HIDE DEF WithoutPending
  <2> QED BY <1>1, <1>3, <2>5, <2>6, <2>7
<1> QED BY <1>2, <1>3

-----------------------------------------------------------------------------
(* The invariant is inductive *)

LEMMA InitIInv == Init => IInv
<1> SUFFICES ASSUME Init PROVE IInv
  OBVIOUS
<1> USE CapAssumption DEF Init, Reserving, NoHit, NoSnap, NoSlot, Slots
<1>1. TypeOK
  <2>1. entries \in Seq([key : Keys, slot : Slots]) OBVIOUS
  <2>2. pending \in Seq(Turns) /\ kv \in Seq(Turns) /\ prompt \in Seq(Turns) OBVIOUS
  <2>3. slots \in [Slots -> Seq(Turns)] /\ slot_tokens \in [Slots -> Seq(Turns)] OBVIOUS
  <2>4. next_slot \in Slots /\ cut \in Nat OBVIOUS
  <2>5. /\ hit \in [slot : Slots \cup {NoSlot}, len : Nat]
        /\ snap \in [slot : Slots \cup {NoSlot}, cut : Nat]
    OBVIOUS
  <2>6. saved \in BOOLEAN /\ faults \subseteq {"abort", "alias", "unsaved"} OBVIOUS
  <2> QED BY <2>1, <2>2, <2>3, <2>4, <2>5, <2>6 DEF TypeOK
<1>2. TableBounded BY DEF TableBounded
<1>3. ReservationHeld /\ RequestOK /\ HitOK /\ NoReservation /\ NotSavedYet
  BY DEF ReservationHeld, RequestOK, HitOK, NoReservation, NotSavedYet
<1>4. SnapOK BY DEF SnapOK
<1>5. Rotation BY DEF Rotation
<1>6. Coherent BY DEF Coherent
<1> QED BY <1>1, <1>2, <1>3, <1>4, <1>5, <1>6 DEF IInv

\* A request begins.
LEMMA BeginStep == ASSUME IInv, NEW p \in Prompts, Begin(p) PROVE IInv'
<1> USE DEF IInv, Begin, cacheVars, NoHit, NoSnap, Reserving
<1>1. p \in Seq(Turns) BY PromptAssumption
<1>2. TypeOK' BY <1>1 DEF TypeOK, NoSlot
<1>3. TableBounded' BY DEF TableBounded
<1>4. ReservationHeld' /\ RequestOK' /\ NotSavedYet' /\ NoReservation'
  BY DEF ReservationHeld, RequestOK, NotSavedYet, NoReservation
<1>5. HitOK' BY DEF HitOK, RequestOK
<1>6. SnapOK' BY DEF SnapOK
<1>7. Rotation' BY DEF Rotation
<1>8. Coherent' BY DEF Coherent, RequestOK, Clean, InUse
<1> QED BY <1>2, <1>3, <1>4, <1>5, <1>6, <1>7, <1>8

\* A round of lookup() permutes the table at most.
LEMMA LookupStep == ASSUME IInv, Lookup PROVE IInv'
<1> USE DEF IInv
<1> DEFINE key == Key(prompt, cut)
           i   == Position(key)
<1>0. /\ pc = "lookup" /\ pc' = pc /\ cut < Len(prompt) /\ cut' = cut + 1
      /\ UNCHANGED <<next_slot, pending, slots, kv, slot_tokens, prompt, snap, saved, faults>>
      /\ pending = <<>> /\ snap = NoSnap /\ cut \in Nat \ {0} /\ prompt \in Prompts
  BY DEF Lookup, RequestOK
<1>1. ReservationHeld' /\ RequestOK' /\ NotSavedYet' /\ NoReservation' /\ SnapOK'
  BY <1>0 DEF ReservationHeld, RequestOK, NotSavedYet, NoReservation, SnapOK, Reserving
<1>2. CASE ~Cached(key)
  <2>1. UNCHANGED <<hit, entries>> BY <1>2 DEF Lookup
  <2>2. TypeOK' BY <1>0, <2>1 DEF TypeOK
  <2>3. TableBounded' /\ HitOK' BY <1>0, <2>1 DEF TableBounded, HitOK
  <2>4. Rotation' BY <1>0, <2>1 DEF Rotation, Reserving
  <2>5. Coherent' BY <1>0, <2>1 DEF Coherent, Clean, InUse, Reserving
  <2> QED BY <1>1, <2>2, <2>3, <2>4, <2>5
<1>3. CASE Cached(key)
  <2>1. /\ hit' = [slot |-> entries[i].slot, len |-> cut]
        /\ entries' = MoveToEnd(entries, i)
    BY <1>3 DEF Lookup
  <2>2. i \in 1..Len(entries) /\ entries[i].key = key BY <1>3, PositionFacts
  <2>3. entries \in Seq(Entry) /\ Len(entries) \in Nat BY DEF TypeOK, Entry
  <2> HIDE DEF i, key
  <2> DEFINE m(j) == From(i, Len(entries), j)
  <2>4. /\ entries' \in Seq(Entry) /\ Len(entries') = Len(entries)
        /\ entries'[Len(entries)] = entries[i]
    BY <2>1, <2>2, <2>3, MoveToEndRenames
  <2>5. /\ \A j \in 1..Len(entries) : m(j) \in 1..Len(entries) /\ entries'[j] = entries[m(j)]
        /\ \A j, k \in 1..Len(entries) : m(j) = m(k) => j = k
    <3>1. \A j \in 1..Len(entries) : m(j) \in 1..Len(entries)
      BY <2>2, <2>3, MoveToEndRenames
    <3>2. \A j \in 1..Len(entries) : MoveToEnd(entries, i)[j] = entries[m(j)]
      BY <2>2, <2>3, MoveToEndRenames
    <3>3. \A j, k \in 1..Len(entries) : m(j) = m(k) => j = k
      BY <2>2, <2>3, MoveToEndRenames
    <3> HIDE DEF m
    <3> QED BY <2>1, <3>1, <3>2, <3>3
  <2> HIDE DEF m
  <2>6. entries[i] \in Entry BY <2>2, <2>3
  <2>7. TypeOK'
    <3>1. hit' \in [slot : Slots \cup {NoSlot}, len : Nat] BY <1>0, <2>1, <2>6 DEF Entry
    <3>2. cut' \in Nat BY <1>0
    <3> QED BY <1>0, <2>4, <3>1, <3>2 DEF TypeOK, Entry
  <2>8. TableBounded' BY SMTT(30), <2>4, <2>5 DEF TableBounded
  <2>9. HitOK'
    <3>1. Len(entries) \in 1..Len(entries') BY <2>2, <2>3, <2>4
    <3> QED BY <1>0, <2>1, <2>2, <2>4, <3>1 DEF HitOK, key
  <2>10. Rotation' BY <1>0, <2>4, <2>5 DEF Rotation, Reserving
  <2>11. Coherent'
    <3> SUFFICES ASSUME Clean'
                 PROVE  /\ \A j, k \in 1..Len(entries') :
                             entries'[j].slot = entries'[k].slot => j = k
                        /\ \A j \in 1..Len(entries') :
                             entries'[j].key # pending' \/ pc' = "restore" =>
                               slots'[entries'[j].slot] = entries'[j].key
      BY <1>0 DEF Coherent, Reserving
    <3>1. Clean BY <1>0 DEF Clean
    <3>2. /\ \A j, k \in 1..Len(entries) : entries[j].slot = entries[k].slot => j = k
          /\ \A j \in 1..Len(entries) :
               entries[j].key # pending => slots[entries[j].slot] = entries[j].key
      BY <3>1 DEF Coherent
    <3>3. ASSUME NEW j \in 1..Len(entries'), NEW k \in 1..Len(entries'),
                 entries'[j].slot = entries'[k].slot
          PROVE  j = k
      BY <2>4, <2>5, <3>2, <3>3
    <3>4. ASSUME NEW j \in 1..Len(entries'), entries'[j].key # pending' \/ pc' = "restore"
          PROVE  slots'[entries'[j].slot] = entries'[j].key
      <4>1. m(j) \in 1..Len(entries) /\ entries'[j] = entries[m(j)] BY <2>4, <2>5
      <4>2. slots' = slots /\ entries'[j].key # pending BY <1>0, <3>4
      <4> QED BY <3>2, <4>1, <4>2
    <3> QED BY <3>3, <3>4
  <2> QED BY <1>1, <2>7, <2>8, <2>9, <2>10, <2>11
<1> QED BY <1>2, <1>3

\* next_slot_ advances by one and wraps around at cap_.
LEMMA NextSlot ==
  ASSUME NEW c \in Nat \ {0}, NEW n \in 0..(c - 1)
  PROVE  (n + 1) % c = IF n + 1 = c THEN 0 ELSE n + 1
OBVIOUS

\* prepare_inline_snap() reserves the slot of the oldest entry, or a next one.
LEMMA PrepareStep == ASSUME IInv, PrepareInlineSnap PROVE IInv'
<1> USE DEF IInv
<1>0. /\ pc = "lookup" /\ pc' = "restore" /\ prompt \in Prompts
      /\ UNCHANGED <<entries, slots, kv, slot_tokens, prompt, cut, hit, saved>>
      /\ pending = <<>> /\ snap = NoSnap /\ cut \in Nat \ {0} /\ saved = FALSE
  BY DEF PrepareInlineSnap, RequestOK, NotSavedYet, TypeOK
<1>1. /\ entries \in Seq(Entry) /\ Len(entries) \in Nat /\ Cap \in Nat \ {0}
      /\ prompt \in Seq(Turns) /\ Len(prompt) \in Nat \ {0}
      /\ next_slot \in 0..(Cap - 1)
  <2>1. prompt \in Seq(Turns) /\ prompt # <<>> BY <1>0, PromptAssumption
  <2> QED BY <2>1, CapAssumption DEF TypeOK, Entry, Slots
<1>2. /\ TableBounded' /\ HitOK' /\ NotSavedYet'
  BY <1>0 DEF TableBounded, HitOK, NotSavedYet
<1>3. \A k \in 1..Len(entries) : entries[k] \in Entry /\ entries[k].key # <<>>
  BY EntryFacts
<1>4. CASE TargetCut = 0 \/ Cached(Key(prompt, TargetCut))
  <2>1. UNCHANGED <<next_slot, pending, snap, faults>> BY <1>4 DEF PrepareInlineSnap
  <2>2. TypeOK' BY <1>0, <2>1 DEF TypeOK
  <2>3. ReservationHeld' /\ RequestOK' /\ SnapOK' /\ NoReservation'
    BY <1>0, <2>1 DEF ReservationHeld, RequestOK, SnapOK, NoReservation, NoSnap
  <2>4. Rotation' BY <1>0, <2>1 DEF Rotation, NoSnap, Reserving
  <2>5. Coherent'
    BY <1>0, <1>3, <2>1 DEF Coherent, Clean, NoSnap, Reserving
  <2> QED BY <1>2, <2>2, <2>3, <2>4, <2>5
<1>5. CASE ~(TargetCut = 0 \/ Cached(Key(prompt, TargetCut)))
  <2>1. TargetCut \in 1..(Len(prompt) - 1)
    <3> DEFINE n == Len(prompt)
    <3>1. TargetCut = IF n >= 3 THEN n - 2 ELSE n - 1 BY DEF TargetCut
    <3>2. n \in Nat \ {0} /\ TargetCut # 0 BY <1>1, <1>5
    <3> HIDE DEF n
    <3>3. TargetCut \in 1..(n - 1) BY ONLY <3>1, <3>2
    <3> QED BY <3>3 DEF n
  <2>2. ~Cached(Key(prompt, TargetCut))' BY <1>0, <1>5 DEF Cached, TargetCut, Key
  <2>3. CASE Len(entries) >= Cap
    <3>1. /\ pending' = entries[1].key
          /\ snap' = [slot |-> entries[1].slot, cut |-> TargetCut]
          /\ UNCHANGED <<next_slot, faults>>
      BY <1>5, <2>3 DEF PrepareInlineSnap
    <3>2. Len(entries) = Cap /\ 1 \in 1..Len(entries) BY <1>1, <2>3 DEF TableBounded
    <3>3. entries[1].key \in Keys /\ entries[1].slot \in Slots BY <1>3, <3>2 DEF Entry
    <3>4. entries[1].slot # NoSlot BY <1>1, <3>3 DEF Slots, NoSlot
    <3>5. TypeOK'
      <4>1. pending' \in Seq(Turns) BY <3>1, <3>3 DEF Keys
      <4>2. snap' \in [slot : Slots \cup {NoSlot}, cut : Nat] BY <1>1, <2>1, <3>1, <3>3
      <4> QED BY <1>0, <3>1, <4>1, <4>2 DEF TypeOK
    <3>6. ReservationHeld' BY <1>0, <3>1, <3>2 DEF ReservationHeld
    <3>7. RequestOK' BY <1>0 DEF RequestOK
    <3>8. SnapOK' BY <1>0, <1>3, <2>1, <3>1, <3>2, <1>5 DEF SnapOK, Cached
    <3>9. NoReservation' BY <3>1, <3>4 DEF NoReservation
    <3>10. Rotation' BY <1>0, <1>3, <3>1, <3>2 DEF Rotation, Reserving, NoSnap
    <3>11. Coherent' BY <1>0, <1>3, <3>1, <3>2 DEF Coherent, Clean
    <3> QED BY <1>2, <3>5, <3>6, <3>7, <3>8, <3>9, <3>10, <3>11
  <2>4. CASE ~(Len(entries) >= Cap)
    <3>1. /\ snap' = [slot |-> next_slot, cut |-> TargetCut]
          /\ next_slot' = (next_slot + 1) % Cap
          /\ pending' = <<>>
          /\ faults' = IF InUse(next_slot) THEN faults \cup {"alias"} ELSE faults
      BY <1>5, <2>4 DEF PrepareInlineSnap
    <3>2. next_slot' = IF next_slot + 1 = Cap THEN 0 ELSE next_slot + 1
      BY <1>1, <3>1, NextSlot
    <3>3. Len(entries) < Cap BY <1>1, <2>4
    <3>4. TypeOK'
      <4>1. next_slot' \in Slots BY <1>1, <3>2 DEF Slots
      <4>2. snap' \in [slot : Slots \cup {NoSlot}, cut : Nat]
        BY <1>1, <2>1, <3>1 DEF Slots
      <4>3. pending' \in Seq(Turns) BY <3>1
      <4>4. faults' \subseteq {"abort", "alias", "unsaved"} BY <3>1 DEF TypeOK
      <4> QED BY <1>0, <4>1, <4>2, <4>3, <4>4 DEF TypeOK
    <3>5. ReservationHeld' /\ RequestOK' /\ NoReservation'
      BY <1>0, <3>1 DEF ReservationHeld, RequestOK, NoReservation
    <3>6. SnapOK' BY <1>0, <2>1, <3>1, <3>3, <1>5 DEF SnapOK, Cached
    <3>7. Rotation'
      <4> SUFFICES ASSUME "abort" \notin faults'
                   PROVE  /\ \A k \in 1..Len(entries') : entries'[k].slot < Len(entries')
                          /\ snap'.slot = Len(entries')
                          /\ next_slot' = IF Len(entries') + 1 = Cap
                                            THEN 0 ELSE Len(entries') + 1
        <5>1. snap'.slot # NoSlot BY <1>1, <3>1 DEF NoSlot
        <5> QED BY <1>0, <3>1, <5>1 DEF Rotation, Reserving
      <4>1. "abort" \notin faults BY <3>1
      <4>2. /\ next_slot = Len(entries)
            /\ \A k \in 1..Len(entries) : entries[k].slot < Len(entries)
        BY <1>0, <1>1, <3>3, <4>1 DEF Rotation, Reserving
      <4> QED BY <1>0, <3>1, <3>2, <4>2
    <3>8. Coherent'
      <4> SUFFICES ASSUME Clean' PROVE Coherent'
        BY DEF Coherent
      <4>1. Clean /\ ~InUse(next_slot) BY <3>1 DEF Clean
      <4> QED BY <1>0, <1>3, <3>1, <4>1 DEF Coherent, InUse
    <3> QED BY <1>2, <3>4, <3>5, <3>6, <3>7, <3>8
  <2> QED BY <2>3, <2>4
<1> QED BY <1>4, <1>5

\* Restoring reads the slot of an entry, whose content is its key.
LEMMA RestoreStep == ASSUME IInv, Restore PROVE IInv'
<1> USE DEF IInv
<1>0. /\ pc = "restore" /\ pc' \in {"prefill", "failed"}
      /\ UNCHANGED <<entries, next_slot, pending, slots, slot_tokens>>
      /\ UNCHANGED <<prompt, cut, hit, snap, saved, faults>>
  BY DEF Restore, cacheVars, requestVars
<1>1. kv' \in Seq(Turns)
  <2>1. CASE hit.slot = NoSlot BY <2>1 DEF Restore
  <2>2. CASE hit.slot # NoSlot
    <3>1. hit.slot \in Slots BY <2>2 DEF TypeOK
    <3> QED BY <2>2, <3>1 DEF Restore, TypeOK
  <2> QED BY <2>1, <2>2
<1>2. TypeOK' BY <1>0, <1>1 DEF TypeOK
<1>3. TableBounded' /\ ReservationHeld' /\ RequestOK' /\ HitOK' /\ NoReservation' /\ NotSavedYet'
  BY <1>0 DEF TableBounded, ReservationHeld, RequestOK, HitOK, NoReservation, NotSavedYet, Reserving
<1>4. SnapOK' BY <1>0 DEF SnapOK, Cached, Reserving
<1>5. Rotation' BY <1>0 DEF Rotation, Reserving
<1>6. Coherent'
  <2> SUFFICES ASSUME Clean, pc' = "prefill"
               PROVE  Len(kv') <= Len(prompt) /\ kv' = Key(prompt, Len(kv'))
    BY <1>0 DEF Coherent, Clean, InUse, Reserving
  <2>1. prompt \in Seq(Turns) /\ Len(prompt) \in Nat BY DEF TypeOK
  <2>2. CASE hit.slot = NoSlot
    <3>1. kv' = <<>> BY <2>2 DEF Restore
    <3>2. Key(prompt, 0) = <<>> BY <2>1 DEF Key
    <3> QED BY <2>1, <3>1, <3>2
  <2>3. CASE hit.slot # NoSlot
    <3>1. kv' = slots[hit.slot] /\ ~(Len(kv') > Len(prompt)) BY <2>3 DEF Restore
    <3>2. PICK i \in 1..Len(entries) :
            entries[i].slot = hit.slot /\ entries[i].key = Key(prompt, hit.len)
      BY <1>0, <2>3 DEF HitOK
    <3>3. slots[hit.slot] = Key(prompt, hit.len) BY <1>0, <3>2 DEF Coherent
    <3>4. kv' = Key(prompt, hit.len) BY <3>1, <3>3
    <3>5. hit.len \in Nat BY DEF TypeOK
    <3>6. Len(kv') = hit.len BY <2>1, <3>4, <3>5 DEF Key
    <3> QED BY <1>1, <2>1, <3>1, <3>4, <3>5, <3>6
  <2> QED BY <2>2, <2>3
<1> QED BY <1>2, <1>3, <1>4, <1>5, <1>6

\* The steps of the backend after the restore leave the table alone; the only
\* slot they write is the reserved one.
LEMMA BackendStep ==
  ASSUME IInv, pc \in {"prefill", "decode"},
         pc' \in {"decode", "served", "failed"},
         UNCHANGED <<entries, next_slot, pending, slot_tokens, prompt, cut, hit, snap, faults>>,
         kv' \in Seq(Turns),
         \/ UNCHANGED <<slots, saved>>
         \/ /\ snap.slot # NoSlot
            /\ \/ /\ slots' = [slots EXCEPT ![snap.slot] = Key(Filled, snap.cut)]
                  /\ saved' = TRUE
                  /\ Key(Filled, snap.cut) \in Seq(Turns)
                  /\ Clean => Filled = prompt
               \/ slots' = [slots EXCEPT ![snap.slot] = <<>>] /\ saved' = saved /\ ~saved,
         Clean /\ pc' = "decode" => kv' = prompt
  PROVE  IInv'
<1> USE DEF IInv
<1> DEFINE Same == UNCHANGED <<slots, saved>>
           Save == /\ slots' = [slots EXCEPT ![snap.slot] = Key(Filled, snap.cut)]
                   /\ saved' = TRUE
                   /\ Key(Filled, snap.cut) \in Seq(Turns)
                   /\ Clean => Filled = prompt
           Fail == slots' = [slots EXCEPT ![snap.slot] = <<>>] /\ saved' = saved /\ ~saved
<1>0. Same \/ (snap.slot # NoSlot /\ (Save \/ Fail)) OBVIOUS
<1> HIDE DEF Same, Save, Fail
<1>1. slots' \in [Slots -> Seq(Turns)] /\ saved' \in BOOLEAN
  <2>1. slots \in [Slots -> Seq(Turns)] /\ saved \in BOOLEAN BY DEF TypeOK
  <2>2. CASE Same BY <2>1, <2>2 DEF Same
  <2>3. CASE Save BY ONLY <2>1, <2>3 DEF Save
  <2>4. CASE Fail
    <3>1. <<>> \in Seq(Turns) OBVIOUS
    <3> QED BY ONLY <2>1, <2>4, <3>1 DEF Fail
  <2> QED BY <1>0, <2>2, <2>3, <2>4
<1>2. TypeOK' BY <1>1 DEF TypeOK
<1>3. TableBounded' /\ ReservationHeld' /\ RequestOK' /\ HitOK' /\ NoReservation' /\ NotSavedYet'
  BY DEF TableBounded, ReservationHeld, RequestOK, HitOK, NoReservation, NotSavedYet, Reserving
<1>4. SnapOK' BY DEF SnapOK, Cached, Reserving
<1>5. Rotation' BY DEF Rotation, Reserving
<1>6. Coherent'
  <2> SUFFICES ASSUME Clean
               PROVE  /\ \A i \in 1..Len(entries) :
                           entries[i].key # pending => slots'[entries[i].slot] = entries[i].key
                      /\ snap.slot # NoSlot /\ saved' => slots'[snap.slot] = Key(prompt, snap.cut)
    BY DEF Coherent, Clean, InUse, Reserving
  <2>1. /\ \A i, j \in 1..Len(entries) : entries[i].slot = entries[j].slot => i = j
        /\ snap.slot # NoSlot /\ pending = <<>> => ~InUse(snap.slot)
        /\ \A i \in 1..Len(entries) :
             entries[i].key # pending => slots[entries[i].slot] = entries[i].key
        /\ snap.slot # NoSlot /\ saved => slots[snap.slot] = Key(prompt, snap.cut)
    BY DEF Coherent, Reserving
  <2>2. CASE Same BY <2>1, <2>2 DEF Same
  <2>3. CASE snap.slot # NoSlot /\ (Save \/ Fail)
    <3>1. snap.slot \in Slots /\ slots \in [Slots -> Seq(Turns)] BY <2>3 DEF TypeOK
    <3>2. \A s \in Slots : s # snap.slot => slots'[s] = slots[s]
      BY ONLY <2>3, <3>1 DEF Save, Fail
    <3>3. saved' => slots'[snap.slot] = Key(prompt, snap.cut)
      BY <2>3, <3>1 DEF Save, Fail
    <3>4. ASSUME NEW i \in 1..Len(entries), entries[i].key # pending
          PROVE  slots'[entries[i].slot] = entries[i].key
      <4>1. entries[i].slot # snap.slot
        <5>1. CASE pending = <<>> BY <2>1, <2>3, <5>1 DEF InUse
        <5>2. CASE pending # <<>>
          <6>1. /\ entries[1].key = pending /\ entries[1].slot = snap.slot
                /\ 1 \in 1..Len(entries)
            BY <5>2, CapAssumption DEF ReservationHeld
          <6> QED BY <2>1, <3>4, <6>1
        <5> QED BY <5>1, <5>2
      <4>2. entries[i].slot \in Slots BY EntryFacts DEF Entry
      <4> QED BY <2>1, <3>2, <3>4, <4>1, <4>2
    <3> QED BY <3>3, <3>4
  <2> QED BY <1>0, <2>2, <2>3
<1> QED BY <1>2, <1>3, <1>4, <1>5, <1>6

\* What prefill leaves in the KV cache: the prompt, when the restored prefix is
\* the prompt's.
LEMMA FilledFacts ==
  ASSUME IInv, pc = "prefill"
  PROVE  /\ Filled \in Seq(Turns)
         /\ Clean => Filled = prompt
         /\ snap.slot # NoSlot => Key(Filled, snap.cut) \in Seq(Turns)
<1>1. /\ kv \in Seq(Turns) /\ prompt \in Seq(Turns) /\ snap.cut \in Nat
      /\ Len(kv) \in Nat /\ Len(prompt) \in Nat
  BY DEF IInv, TypeOK
<1>2. SubSeq(prompt, Len(kv) + 1, Len(prompt)) \in Seq(Turns) BY ONLY <1>1
<1>3. Filled \in Seq(Turns) /\ Len(Filled) >= Len(prompt)
  <2> DEFINE b == SubSeq(prompt, Len(kv) + 1, Len(prompt))
  <2>1. Len(b) \in Nat /\ Len(kv) + Len(b) >= Len(prompt) BY ONLY <1>1
  <2>2. b \in Seq(Turns) BY <1>2
  <2> HIDE DEF b
  <2>3. kv \o b \in Seq(Turns) /\ Len(kv \o b) = Len(kv) + Len(b)
    BY ONLY <1>1, <2>2, ConcatProperties
  <2> QED BY <2>1, <2>3 DEF Filled, b
<1>4. ASSUME Clean PROVE Filled = prompt
  <2>1. Len(kv) <= Len(prompt) /\ kv = Key(prompt, Len(kv)) BY <1>4 DEF IInv, Coherent
  <2>2. Len(kv) \in 0..Len(prompt) BY <1>1, <2>1
  <2>3. Key(prompt, Len(kv)) \o SubSeq(prompt, Len(kv) + 1, Len(prompt)) = prompt
    BY ONLY <1>1, <2>2, KeyFacts
  <2> QED BY <2>1, <2>3 DEF Filled
<1>5. ASSUME snap.slot # NoSlot PROVE Key(Filled, snap.cut) \in Seq(Turns)
  <2>1. snap.cut \in 1..(Len(prompt) - 1) BY <1>5 DEF IInv, SnapOK, Reserving
  <2>2. Len(Filled) \in Nat BY <1>3
  <2>3. snap.cut \in 0..Len(Filled) BY ONLY <1>1, <1>3, <2>1, <2>2
  <2> HIDE DEF Filled
  <2> QED BY ONLY <1>3, <2>3, KeyFacts
<1> QED BY <1>3, <1>4, <1>5

\* Prefill and the snapshot on the way.
LEMMA PrefillStep == ASSUME IInv, Prefill PROVE IInv'
<1>1. /\ pc = "prefill" /\ pc' = "decode" /\ kv' = Filled
      /\ UNCHANGED <<entries, next_slot, pending, slot_tokens, prompt, cut, hit, snap, faults>>
  BY DEF Prefill, cacheVars, requestVars
<1>2. ~saved BY <1>1 DEF IInv, NotSavedYet
<1>3. \/ UNCHANGED <<slots, saved>>
      \/ snap.slot # NoSlot /\ (SaveSnap \/ FailSnap)
  BY DEF Prefill, ReachesSnap
<1> HIDE DEF Filled
<1> QED BY <1>1, <1>2, <1>3, FilledFacts, BackendStep DEF SaveSnap, FailSnap

\* A prefill that fails.
LEMMA PrefillFailsStep == ASSUME IInv, PrefillFails PROVE IInv'
<1>1. /\ pc = "prefill" /\ pc' = "failed"
      /\ UNCHANGED <<entries, next_slot, pending, slot_tokens, prompt, cut, hit, snap, faults>>
  BY DEF PrefillFails, cacheVars, requestVars
<1>2. ~saved BY <1>1 DEF IInv, NotSavedYet
<1>3. \/ UNCHANGED <<slots, saved>>
      \/ snap.slot # NoSlot /\ (SaveSnap \/ FailSnap)
  BY DEF PrefillFails, ReachesSnap
<1>4. kv' \in Seq(Turns) BY DEF PrefillFails, IInv, TypeOK
<1> HIDE DEF Filled
<1> QED BY <1>1, <1>2, <1>3, <1>4, FilledFacts, BackendStep DEF SaveSnap, FailSnap

\* Decoding.
LEMMA DecodeStep == ASSUME IInv, Decode PROVE IInv'
<1>1. /\ pc = "decode" /\ pc' \in {"served", "failed"}
      /\ UNCHANGED <<entries, next_slot, pending, slot_tokens, prompt, cut, hit, snap, faults>>
      /\ UNCHANGED <<slots, saved, kv>>
  BY DEF Decode, cacheVars, requestVars
<1>2. kv' \in Seq(Turns) BY <1>1 DEF IInv, TypeOK
<1> QED BY <1>1, <1>2, BackendStep

\* The values the locals have between two requests have their types.
LEMMA NoLocals ==
  /\ NoHit \in [slot : Slots \cup {NoSlot}, len : Nat]
  /\ NoSnap \in [slot : Slots \cup {NoSlot}, cut : Nat]
  /\ <<>> \in Seq(Turns)
BY DEF NoHit, NoSnap

\* confirm_inline_snap(): the evicted entry makes room for the new one, which is
\* the most recently used.
LEMMA ConfirmStep == ASSUME IInv, ConfirmInlineSnap PROVE IInv'
<1> USE DEF IInv
<1> DEFINE w == WithoutPending
           e == [key |-> Key(prompt, snap.cut), slot |-> snap.slot]
<1>0. /\ pc = "served" /\ pc' = "idle" /\ snap.slot # NoSlot /\ Reserving
      /\ entries' = Append(w, e) /\ pending' = <<>>
      /\ slot_tokens' = [slot_tokens EXCEPT ![snap.slot] = Key(prompt, snap.cut)]
      /\ faults' = IF saved THEN faults ELSE faults \cup {"unsaved"}
      /\ UNCHANGED <<next_slot, slots>> /\ kv' = <<>>
      /\ prompt' = <<>> /\ cut' = 0 /\ hit' = NoHit /\ snap' = NoSnap /\ saved' = FALSE
  BY DEF ConfirmInlineSnap, EndRequest, Reserving
<1>1. PICK d \in {0, 1} :
        /\ pending = <<>> <=> d = 0
        /\ w \in Seq(Entry)
        /\ Len(w) = Len(entries) - d /\ Len(w) < Cap
        /\ Len(entries) \in Nat
        /\ \A j \in 1..Len(w) : w[j] = entries[j + d]
  BY <1>0, WithoutPendingFacts
<1>2. snap.slot \in Slots /\ Cap \in Nat \ {0} /\ Len(w) \in Nat
  BY <1>0, <1>1, CapAssumption DEF TypeOK
<1>3. /\ Key(prompt, snap.cut) \in Keys /\ Key(prompt, snap.cut) \in Seq(Turns)
      /\ ~Cached(Key(prompt, snap.cut))
  <2>1. snap.cut \in 1..(Len(prompt) - 1) /\ ~Cached(Key(prompt, snap.cut)) BY <1>0 DEF SnapOK
  <2>2. prompt \in Seq(Turns) /\ Len(prompt) \in Nat BY DEF TypeOK
  <2>3. snap.cut \in 0..Len(prompt) /\ snap.cut > 0 BY ONLY <2>1, <2>2
  <2>4. Key(prompt, snap.cut) \in Seq(Turns) /\ Key(prompt, snap.cut) # <<>>
    BY ONLY SMTT(30), <2>2, <2>3, KeyFacts
  <2> QED BY <2>1, <2>4 DEF Keys
<1>4. e \in Entry /\ e.key = Key(prompt, snap.cut) /\ e.slot = snap.slot
  BY <1>2, <1>3 DEF Entry
<1> HIDE DEF w, e
<1>5. /\ entries' \in Seq(Entry) /\ Len(entries') = Len(w) + 1
      /\ entries'[Len(w) + 1] = e
      /\ \A j \in 1..Len(w) : entries'[j] = w[j]
  BY <1>0, <1>1, <1>4, AppendFacts
<1>6. \A j \in 1..Len(w) : j + d \in 1..Len(entries) /\ entries'[j] = entries[j + d]
  BY <1>1, <1>2, <1>5, SMTT(20)
<1>7. \A j \in 1..Len(entries') : j \in 1..Len(w) \/ j = Len(w) + 1 BY <1>2, <1>5
<1>8. \A j \in 1..Len(w) : entries'[j].key # e.key
  BY <1>3, <1>4, <1>6 DEF Cached
<1>9. TypeOK'
  <2>1. slot_tokens' \in [Slots -> Seq(Turns)]
    <3>1. slot_tokens \in [Slots -> Seq(Turns)] BY DEF TypeOK
    <3> QED BY ONLY <1>0, <1>2, <1>3, <3>1
  <2>2. faults' \subseteq {"abort", "alias", "unsaved"} BY <1>0 DEF TypeOK
  <2>3. pending' \in Seq(Turns) BY <1>0
  <2> QED BY <1>0, <1>5, <2>1, <2>2, <2>3, NoLocals DEF TypeOK, Entry
<1>10. TableBounded'
  <2>1. Len(entries') <= Cap BY <1>1, <1>2, <1>5
  <2>2. ASSUME NEW i \in 1..Len(entries'), NEW j \in 1..Len(entries'),
               entries'[i].key = entries'[j].key
        PROVE  i = j
    <3>1. CASE i \in 1..Len(w) /\ j \in 1..Len(w)
      <4>1. i + d = j + d BY <1>6, <2>2, <3>1 DEF TableBounded
      <4> QED BY <4>1
    <3>2. CASE ~(i \in 1..Len(w) /\ j \in 1..Len(w))
      BY <1>5, <1>7, <1>8, <2>2, <3>2
    <3> QED BY <3>1, <3>2
  <2> QED BY <2>1, <2>2 DEF TableBounded
<1>11. ReservationHeld' /\ RequestOK' /\ HitOK' /\ SnapOK' /\ NoReservation' /\ NotSavedYet'
  BY <1>0 DEF ReservationHeld, RequestOK, HitOK, SnapOK, NoReservation, NotSavedYet, Reserving
<1>12. Rotation'
  <2> SUFFICES ASSUME "abort" \notin faults
               PROVE  /\ \A i \in 1..Len(entries') : entries'[i].slot < Len(entries')
                      /\ next_slot' = IF Len(entries') = Cap THEN 0 ELSE Len(entries')
    BY <1>0 DEF Rotation, Reserving
  <2>1. \A i \in 1..Len(entries) : entries[i].slot < Len(entries) /\ entries[i].slot \in Nat
    <3>1. \A i \in 1..Len(entries) : entries[i].slot < Len(entries) BY DEF Rotation
    <3>2. \A i \in 1..Len(entries) : entries[i].slot \in Slots BY EntryFacts DEF Entry
    <3>3. Slots \subseteq Nat BY DEF Slots
    <3> QED BY <3>1, <3>2, <3>3
  <2>2. CASE d = 0
    <3>1. /\ snap.slot = Len(entries)
          /\ next_slot = IF Len(entries) + 1 = Cap THEN 0 ELSE Len(entries) + 1
      BY <1>0, <1>1, <2>2 DEF Rotation
    <3>2. Len(w) = Len(entries) BY <1>1, <2>2
    <3>3. ASSUME NEW i \in 1..Len(entries') PROVE entries'[i].slot < Len(entries')
      <4>1. CASE i \in 1..Len(w)
        <5>1. entries'[i].slot < Len(entries) /\ entries'[i].slot \in Nat
          BY <1>6, <2>1, <4>1
        <5> QED BY <1>1, <1>5, <3>2, <5>1
      <4>2. CASE i = Len(w) + 1 BY <1>1, <1>4, <1>5, <3>1, <3>2, <4>2
      <4> QED BY <1>7, <4>1, <4>2
    <3> QED BY <1>0, <1>5, <3>1, <3>2, <3>3
  <2>3. CASE d = 1
    <3>1. Len(entries) = Cap /\ entries[1].slot = snap.slot
      BY <1>1, <2>3 DEF ReservationHeld
    <3>2. next_slot = 0 BY <1>1, <2>3, <3>1 DEF Rotation
    <3>3. Len(entries') = Len(entries) BY <1>1, <1>5, <2>3
    <3>4. 1 \in 1..Len(entries) BY <1>2, <3>1
    <3>5. ASSUME NEW i \in 1..Len(entries') PROVE entries'[i].slot < Len(entries')
      <4>1. CASE i \in 1..Len(w) BY <1>6, <2>1, <3>3, <4>1
      <4>2. CASE i = Len(w) + 1 BY <1>4, <1>5, <2>1, <3>1, <3>3, <3>4, <4>2
      <4> QED BY <1>7, <4>1, <4>2
    <3> QED BY <1>0, <3>1, <3>2, <3>3, <3>5
  <2> QED BY <2>2, <2>3
<1>13. Coherent'
  <2> SUFFICES ASSUME Clean'
               PROVE  /\ \A i, j \in 1..Len(entries') :
                           entries'[i].slot = entries'[j].slot => i = j
                      /\ \A i \in 1..Len(entries') : slots[entries'[i].slot] = entries'[i].key
    BY <1>0 DEF Coherent, Reserving
  <2>1. Clean /\ saved BY <1>0 DEF Clean
  <2>2. /\ \A i, j \in 1..Len(entries) : entries[i].slot = entries[j].slot => i = j
        /\ pending = <<>> => ~InUse(snap.slot)
        /\ \A i \in 1..Len(entries) :
             entries[i].key # pending => slots[entries[i].slot] = entries[i].key
        /\ slots[snap.slot] = Key(prompt, snap.cut)
    BY <1>0, <2>1 DEF Coherent
  <2>3. ASSUME NEW j \in 1..Len(w)
        PROVE  entries[j + d].slot # snap.slot /\ entries[j + d].key # pending
    <3>1. j + d \in 1..Len(entries) BY <1>6
    <3>2. CASE d = 0
      BY <1>1, <2>2, <3>1, <3>2, EntryFacts DEF InUse
    <3>3. CASE d = 1
      <4>1. entries[1].key = pending /\ entries[1].slot = snap.slot /\ 1 \in 1..Len(entries)
        BY <1>1, <1>2, <3>3 DEF ReservationHeld
      <4>2. j + d # 1 BY <3>3
      <4> QED BY <2>2, <3>1, <4>1, <4>2 DEF TableBounded
    <3> QED BY <3>2, <3>3
  <2>4. ASSUME NEW i \in 1..Len(entries'), NEW j \in 1..Len(entries'),
               entries'[i].slot = entries'[j].slot
        PROVE  i = j
    <3>1. CASE i \in 1..Len(w) /\ j \in 1..Len(w)
      <4>1. i + d = j + d BY <1>6, <2>2, <2>4, <3>1
      <4> QED BY <4>1
    <3>2. CASE ~(i \in 1..Len(w) /\ j \in 1..Len(w))
      BY <1>4, <1>5, <1>6, <1>7, <2>3, <2>4, <3>2
    <3> QED BY <3>1, <3>2
  <2>5. ASSUME NEW i \in 1..Len(entries') PROVE slots[entries'[i].slot] = entries'[i].key
    <3>1. CASE i \in 1..Len(w) BY <1>6, <2>2, <2>3, <3>1
    <3>2. CASE i = Len(w) + 1 BY <1>4, <1>5, <2>2, <3>2
    <3> QED BY <1>7, <3>1, <3>2
  <2> QED BY <2>4, <2>5
<1> QED BY <1>9, <1>10, <1>11, <1>12, <1>13

\* abort_inline_snap() drops the entry whose slot may have been overwritten.
LEMMA AbortStep == ASSUME IInv, AbortInlineSnap PROVE IInv'
<1> USE DEF IInv
<1>0. /\ pc = "failed" /\ pc' = "idle" /\ snap.slot # NoSlot /\ Reserving
      /\ entries' = WithoutPending /\ pending' = <<>>
      /\ faults' = faults \cup {"abort"}
      /\ UNCHANGED <<next_slot, slots, slot_tokens>> /\ kv' = <<>>
      /\ prompt' = <<>> /\ cut' = 0 /\ hit' = NoHit /\ snap' = NoSnap /\ saved' = FALSE
  BY DEF AbortInlineSnap, EndRequest, Reserving
<1>1. PICK d \in {0, 1} :
        /\ pending = <<>> <=> d = 0
        /\ entries' \in Seq(Entry)
        /\ Len(entries') = Len(entries) - d /\ Len(entries') < Cap
        /\ Len(entries) \in Nat
        /\ \A j \in 1..Len(entries') : entries'[j] = entries[j + d]
  <2> HIDE DEF WithoutPending
  <2> QED BY <1>0, WithoutPendingFacts
<1>2. Cap \in Nat \ {0} /\ Len(entries') \in Nat BY <1>1, CapAssumption
<1>3. \A j \in 1..Len(entries') : j + d \in 1..Len(entries) /\ entries'[j] = entries[j + d]
  BY <1>1, <1>2
<1>4. TypeOK'
  <2>1. faults' \subseteq {"abort", "alias", "unsaved"} BY <1>0 DEF TypeOK
  <2>2. pending' \in Seq(Turns) BY <1>0
  <2> QED BY <1>0, <1>1, <2>1, <2>2, NoLocals DEF TypeOK, Entry
<1>5. TableBounded'
  <2>1. Len(entries') <= Cap BY <1>1, <1>2
  <2>2. ASSUME NEW i \in 1..Len(entries'), NEW j \in 1..Len(entries'),
               entries'[i].key = entries'[j].key
        PROVE  i = j
    <3>1. i + d = j + d BY <1>3, <2>2 DEF TableBounded
    <3> QED BY <3>1
  <2> QED BY <2>1, <2>2 DEF TableBounded
<1>6. ReservationHeld' /\ RequestOK' /\ HitOK' /\ SnapOK' /\ NoReservation' /\ NotSavedYet'
  BY <1>0 DEF ReservationHeld, RequestOK, HitOK, SnapOK, NoReservation, NotSavedYet, Reserving
<1>7. Rotation' BY <1>0 DEF Rotation
<1>8. Coherent'
  <2> SUFFICES ASSUME Clean
               PROVE  /\ \A i, j \in 1..Len(entries') :
                           entries'[i].slot = entries'[j].slot => i = j
                      /\ \A i \in 1..Len(entries') : slots[entries'[i].slot] = entries'[i].key
    BY <1>0 DEF Coherent, Reserving, Clean
  <2>1. /\ \A i, j \in 1..Len(entries) : entries[i].slot = entries[j].slot => i = j
        /\ \A i \in 1..Len(entries) :
             entries[i].key # pending => slots[entries[i].slot] = entries[i].key
    BY DEF Coherent
  <2>2. ASSUME NEW i \in 1..Len(entries'), NEW j \in 1..Len(entries'),
               entries'[i].slot = entries'[j].slot
        PROVE  i = j
    <3>1. i + d = j + d BY <1>3, <2>1, <2>2
    <3> QED BY <3>1
  <2>3. ASSUME NEW i \in 1..Len(entries') PROVE slots[entries'[i].slot] = entries'[i].key
    <3>1. i + d \in 1..Len(entries) /\ entries'[i] = entries[i + d] BY <1>3
    <3>2. entries[i + d].key # pending
      <4>1. CASE d = 0 BY <1>1, <3>1, <4>1, EntryFacts
      <4>2. CASE d = 1
        <5>1. entries[1].key = pending /\ 1 \in 1..Len(entries)
          BY <1>1, <1>2, <4>2 DEF ReservationHeld
        <5>2. i + d # 1 BY <4>2
        <5> QED BY <3>1, <5>1, <5>2 DEF TableBounded
      <4> QED BY <4>1, <4>2
    <3> QED BY <2>1, <3>1, <3>2
  <2> QED BY <2>2, <2>3
<1> QED BY <1>4, <1>5, <1>6, <1>7, <1>8

\* A request without a reservation ends.
LEMMA NothingStep == ASSUME IInv, NothingPrepared PROVE IInv'
<1> USE DEF IInv
<1>0. /\ pc \in {"served", "failed"} /\ pc' = "idle" /\ snap.slot = NoSlot /\ pending = <<>>
      /\ UNCHANGED <<entries, next_slot, pending, slots, slot_tokens, faults>> /\ kv' = <<>>
      /\ prompt' = <<>> /\ cut' = 0 /\ hit' = NoHit /\ snap' = NoSnap /\ saved' = FALSE
  BY DEF NothingPrepared, EndRequest, cacheVars, NoReservation, Reserving
<1>1. TypeOK' BY <1>0, NoLocals DEF TypeOK
<1>2. TableBounded' BY <1>0 DEF TableBounded
<1>3. ReservationHeld' /\ RequestOK' /\ HitOK' /\ SnapOK' /\ NoReservation' /\ NotSavedYet'
  BY <1>0 DEF ReservationHeld, RequestOK, HitOK, SnapOK, NoReservation, NotSavedYet, Reserving
<1>4. Rotation' BY <1>0 DEF Rotation, Reserving
<1>5. Coherent' BY <1>0 DEF Coherent, Clean, Reserving
<1> QED BY <1>1, <1>2, <1>3, <1>4, <1>5

LEMMA NextIInv == IInv /\ [Next]_vars => IInv'
<1> SUFFICES ASSUME IInv, [Next]_vars PROVE IInv'
  OBVIOUS
<1>1. CASE \E p \in Prompts : Begin(p) BY <1>1, BeginStep
<1>2. CASE Lookup BY <1>2, LookupStep
<1>3. CASE PrepareInlineSnap BY <1>3, PrepareStep
<1>4. CASE Restore BY <1>4, RestoreStep
<1>5. CASE Prefill BY <1>5, PrefillStep
<1>6. CASE PrefillFails BY <1>6, PrefillFailsStep
<1>7. CASE Decode BY <1>7, DecodeStep
<1>8. CASE ConfirmInlineSnap BY <1>8, ConfirmStep
<1>9. CASE AbortInlineSnap BY <1>9, AbortStep
<1>10. CASE NothingPrepared BY <1>10, NothingStep
<1>11. CASE UNCHANGED vars
  <2> USE <1>11 DEF IInv, vars, cacheVars, requestVars
  <2>1. TypeOK' BY DEF TypeOK
  <2>2. TableBounded' BY DEF TableBounded
  <2>3. ReservationHeld' /\ RequestOK' /\ HitOK' /\ NoReservation' /\ NotSavedYet'
    BY DEF ReservationHeld, RequestOK, HitOK, NoReservation, NotSavedYet, Reserving
  <2>4. SnapOK' BY DEF SnapOK, Cached, Reserving
  <2>5. Rotation' BY DEF Rotation, Reserving
  <2>6. Coherent' BY DEF Coherent, Clean, InUse, Reserving
  <2> QED BY <2>1, <2>2, <2>3, <2>4, <2>5, <2>6
<1> QED
  BY <1>1, <1>2, <1>3, <1>4, <1>5, <1>6, <1>7, <1>8, <1>9, <1>10, <1>11 DEF Next

-----------------------------------------------------------------------------
(* What the table says of slot_tokens_ and of the request in progress *)

\* The tokens tracked for a slot are those of the entry that owns it.
Tracked ==
  Clean => \A i \in 1..Len(entries) : slot_tokens[entries[i].slot] = entries[i].key

\* The entry of the hit is the most recently used one.
Recent ==
  pc # "idle" /\ hit.slot # NoSlot =>
    Len(entries) \in 1..Len(entries) /\ entries[Len(entries)].key = Key(prompt, hit.len)

\* Only a new request, lookup() and the end of a request change the table, the hit or the
\* tracked tokens.
LEMMA QuietSteps ==
  ASSUME [Next]_vars, ~(\E p \in Prompts : Begin(p)), ~Lookup, ~ConfirmInlineSnap,
         ~AbortInlineSnap, ~NothingPrepared
  PROVE  /\ UNCHANGED <<entries, slot_tokens, hit, prompt>>
         /\ pc' = "idle" <=> pc = "idle"
         /\ Clean' => Clean
BY DEF Next, PrepareInlineSnap, Restore, Prefill, PrefillFails, Decode, vars, cacheVars,
       requestVars, Clean

\* A round of lookup() keeps every entry, and moves the entry it hits to the end.
LEMMA LookupPermutes ==
  ASSUME IInv, Lookup
  PROVE  /\ Len(entries') = Len(entries)
         /\ \A j \in 1..Len(entries') : \E k \in 1..Len(entries) : entries'[j] = entries[k]
         /\ \/ UNCHANGED <<entries, hit>>
            \/ /\ Len(entries) \in 1..Len(entries) /\ hit'.len = cut
               /\ entries'[Len(entries)].key = Key(prompt, cut)
<1> DEFINE key == Key(prompt, cut)
           i   == Position(key)
<1>1. CASE ~Cached(key) BY <1>1 DEF Lookup
<1>2. CASE Cached(key)
  <2>1. entries' = MoveToEnd(entries, i) /\ hit' = [slot |-> entries[i].slot, len |-> cut]
    BY <1>2 DEF Lookup
  <2>2. i \in 1..Len(entries) /\ entries[i].key = key BY <1>2, PositionFacts
  <2>3. entries \in Seq(Entry) /\ Len(entries) \in Nat BY DEF IInv, TypeOK, Entry
  <2> HIDE DEF i
  <2>4. /\ Len(MoveToEnd(entries, i)) = Len(entries)
        /\ MoveToEnd(entries, i)[Len(entries)] = entries[i]
        /\ \A j \in 1..Len(entries) : /\ From(i, Len(entries), j) \in 1..Len(entries)
                                      /\ MoveToEnd(entries, i)[j] = entries[From(i, Len(entries), j)]
    BY <2>2, <2>3, MoveToEndRenames
  <2>5. Len(entries) \in 1..Len(entries) /\ hit'.len = cut /\ entries'[Len(entries)].key = key
    BY <2>1, <2>2, <2>3, <2>4
  <2>6. \A j \in 1..Len(entries') : \E k \in 1..Len(entries) : entries'[j] = entries[k]
    BY <2>1, <2>4
  <2> QED BY <2>1, <2>4, <2>5, <2>6
<1> QED BY <1>1, <1>2

LEMMA TrackedStep == IInv /\ Tracked /\ [Next]_vars => Tracked'
<1> SUFFICES ASSUME IInv, Tracked, [Next]_vars, Clean',
                    NEW i \in 1..Len(entries')
             PROVE  slot_tokens'[entries'[i].slot] = entries'[i].key
  BY DEF Tracked
<1>1. CASE \E p \in Prompts : Begin(p) BY <1>1 DEF Begin, cacheVars, Tracked, Clean
<1>2. CASE Lookup
  <2>1. slot_tokens' = slot_tokens /\ Clean BY <1>2 DEF Lookup, Clean
  <2> QED BY <1>2, <2>1, LookupPermutes DEF Tracked
<1>3. CASE ConfirmInlineSnap
  <2> DEFINE w == WithoutPending
             e == [key |-> Key(prompt, snap.cut), slot |-> snap.slot]
  <2>0. /\ Reserving /\ snap.slot # NoSlot /\ entries' = Append(w, e)
        /\ slot_tokens' = [slot_tokens EXCEPT ![snap.slot] = Key(prompt, snap.cut)]
        /\ Clean
    BY <1>3 DEF ConfirmInlineSnap, Reserving, Clean
  <2>1. PICK d \in {0, 1} :
          /\ pending = <<>> <=> d = 0
          /\ w \in Seq(Entry)
          /\ Len(w) = Len(entries) - d /\ Len(entries) \in Nat
          /\ \A j \in 1..Len(w) : w[j] = entries[j + d]
    BY <2>0, WithoutPendingFacts DEF IInv
  <2>2. Len(w) \in Nat /\ snap.slot \in Slots BY <2>0, <2>1 DEF IInv, TypeOK
  <2>3. e.slot = snap.slot /\ e.key = Key(prompt, snap.cut) OBVIOUS
  <2>4. slot_tokens \in [Slots -> Seq(Turns)] BY DEF IInv, TypeOK
  <2> HIDE DEF w, e
  <2>5. /\ Len(entries') = Len(w) + 1 /\ entries'[Len(w) + 1] = e
        /\ \A j \in 1..Len(w) : entries'[j] = w[j]
    BY <2>0, <2>1, AppendAny
  <2>6. CASE i = Len(w) + 1 BY <2>0, <2>2, <2>3, <2>4, <2>5, <2>6
  <2>7. CASE i \in 1..Len(w)
    <3>1. i + d \in 1..Len(entries) /\ entries'[i] = entries[i + d]
      BY <2>1, <2>2, <2>5, <2>7
    <3>2. entries[i + d].slot # snap.slot
      <4>1. /\ \A j, k \in 1..Len(entries) : entries[j].slot = entries[k].slot => j = k
            /\ pending = <<>> => ~InUse(snap.slot)
        BY <2>0 DEF IInv, Coherent
      <4>2. CASE d = 0 BY <2>1, <3>1, <4>1, <4>2 DEF InUse
      <4>3. CASE d = 1
        <5>1. entries[1].slot = snap.slot /\ 1 \in 1..Len(entries)
          BY <2>1, <2>2, <4>3, CapAssumption DEF IInv, ReservationHeld
        <5>2. i + d # 1 BY <2>7, <4>3
        <5> QED BY <3>1, <4>1, <5>1, <5>2
      <4> QED BY <4>2, <4>3
    <3>3. slot_tokens[entries[i + d].slot] = entries[i + d].key BY <2>0, <3>1 DEF Tracked
    <3> QED BY <2>0, <2>4, <3>1, <3>2, <3>3
  <2> QED BY <2>2, <2>5, <2>6, <2>7
<1>4. CASE AbortInlineSnap
  <2>0. /\ Reserving /\ snap.slot # NoSlot /\ entries' = WithoutPending
        /\ slot_tokens' = slot_tokens /\ Clean
    BY <1>4 DEF AbortInlineSnap, Reserving, Clean
  <2>1. PICK d \in {0, 1} :
          /\ Len(entries') = Len(entries) - d /\ Len(entries) \in Nat
          /\ \A j \in 1..Len(entries') : entries'[j] = entries[j + d]
    <3> HIDE DEF WithoutPending
    <3> QED BY <2>0, WithoutPendingFacts DEF IInv
  <2>2. i + d \in 1..Len(entries) /\ entries'[i] = entries[i + d] BY <2>1
  <2> QED BY <2>0, <2>2 DEF Tracked
<1>5. CASE NothingPrepared BY <1>5 DEF NothingPrepared, cacheVars, Tracked, Clean
<1>6. CASE ~(\E p \in Prompts : Begin(p)) /\ ~Lookup /\ ~ConfirmInlineSnap
           /\ ~AbortInlineSnap /\ ~NothingPrepared
  BY <1>6, QuietSteps DEF Tracked
<1> QED BY <1>1, <1>2, <1>3, <1>4, <1>5, <1>6

LEMMA RecentStep == IInv /\ Recent /\ [Next]_vars => Recent'
<1> SUFFICES ASSUME IInv, Recent, [Next]_vars, pc' # "idle", hit'.slot # NoSlot
             PROVE  /\ Len(entries') \in 1..Len(entries')
                    /\ entries'[Len(entries')].key = Key(prompt', hit'.len)
  BY DEF Recent, Key
<1>1. CASE \E p \in Prompts : Begin(p)
  BY <1>1 DEF Begin, IInv, RequestOK, NoHit
<1>2. CASE Lookup
  <2>1. pc # "idle" /\ prompt' = prompt BY <1>2 DEF Lookup
  <2>2. Key(prompt', hit'.len) = Key(prompt, hit'.len) BY <2>1
  <2> QED BY <1>2, <2>1, <2>2, LookupPermutes DEF Recent
<1>3. CASE ConfirmInlineSnap \/ AbortInlineSnap \/ NothingPrepared
  BY <1>3 DEF ConfirmInlineSnap, AbortInlineSnap, NothingPrepared, EndRequest
<1>4. CASE ~(\E p \in Prompts : Begin(p)) /\ ~Lookup /\ ~ConfirmInlineSnap
           /\ ~AbortInlineSnap /\ ~NothingPrepared
  BY <1>4, QuietSteps DEF Recent
<1> QED BY <1>1, <1>2, <1>3, <1>4

\* What is evicted at the end of a request is the oldest entry, and the hit is the youngest.
LEMMA HitSurvives ==
  ASSUME IInv, Recent, [Next]_vars, Cap >= 2, pc # "idle", pc' = "idle", hit.slot # NoSlot
  PROVE  \E i \in 1..Len(entries') : entries'[i].key = Key(prompt, hit.len)
<1>1. Len(entries) \in 1..Len(entries) /\ entries[Len(entries)].key = Key(prompt, hit.len)
  BY DEF Recent
<1>2. CASE NothingPrepared
  <2>1. entries' = entries BY <1>2 DEF NothingPrepared, cacheVars
  <2> QED BY <1>1, <2>1
<1>3. CASE ConfirmInlineSnap \/ AbortInlineSnap
  <2> DEFINE w == WithoutPending
             e == [key |-> Key(prompt, snap.cut), slot |-> snap.slot]
  <2>0. Reserving /\ snap.slot # NoSlot /\ (entries' = w \/ entries' = Append(w, e))
    BY <1>3 DEF ConfirmInlineSnap, AbortInlineSnap, Reserving
  <2>1. PICK d \in {0, 1} :
          /\ pending = <<>> <=> d = 0
          /\ w \in Seq(Entry)
          /\ Len(w) = Len(entries) - d /\ Len(entries) \in Nat
          /\ \A j \in 1..Len(w) : w[j] = entries[j + d]
    BY <2>0, WithoutPendingFacts DEF IInv
  <2> HIDE DEF w, e
  <2>2. Len(w) \in 1..Len(w)
    <3>1. CASE d = 0 BY <1>1, <2>1, <3>1
    <3>2. CASE d = 1
      <4>1. Len(entries) = Cap BY <2>1, <3>2 DEF IInv, ReservationHeld
      <4> QED BY <2>1, <3>2, <4>1, CapAssumption
    <3> QED BY <3>1, <3>2
  <2>3. w[Len(w)].key = Key(prompt, hit.len)
    <3>1. Len(w) + d = Len(entries) BY <2>1
    <3> QED BY <1>1, <2>1, <2>2, <3>1
  <2>4. CASE entries' = w BY <2>2, <2>3, <2>4
  <2>5. CASE entries' = Append(w, e)
    <3>1. /\ Len(entries') = Len(w) + 1
          /\ \A j \in 1..Len(w) : entries'[j] = w[j]
      BY <2>1, <2>5, AppendAny
    <3>2. Len(w) \in 1..Len(entries') BY <2>2, <3>1
    <3> QED BY <2>2, <2>3, <3>1, <3>2
  <2> QED BY <2>0, <2>4, <2>5
<1>4. ConfirmInlineSnap \/ AbortInlineSnap \/ NothingPrepared
  <2>1. CASE \E p \in Prompts : Begin(p) BY <2>1 DEF Begin
  <2>2. CASE Lookup BY <2>2 DEF Lookup
  <2> QED BY <2>1, <2>2, QuietSteps
<1> QED BY <1>2, <1>3, <1>4

-----------------------------------------------------------------------------
(* Theorems *)

LEMMA Invariance == Spec => []IInv
BY InitIInv, NextIInv, PTL DEF Spec

\* Type correctness: in particular next_slot_ and every slot handed out stay
\* below cap_.
THEOREM TypeCorrectness == Spec => []TypeOK
<1>1. IInv => TypeOK BY DEF IInv
<1> QED BY <1>1, Invariance, PTL

\* The LRU table never outgrows cap_ and never holds two entries for a prefix.
THEOREM TableStaysBounded == Spec => []TableBounded
<1>1. IInv => TableBounded BY DEF IInv
<1> QED BY <1>1, Invariance, PTL

\* The entry reserved by prepare_inline_snap is still the oldest one, with the
\* reserved slot, when the request is confirmed or aborted.
THEOREM ReservationKept == Spec => []ReservationHeld
<1>1. IInv => ReservationHeld BY DEF IInv
<1> QED BY <1>1, Invariance, PTL

\* No request decodes from another prompt's KV state as long as no slot in use
\* was handed out and no unsaved snapshot was confirmed, for every history of
\* failed saves, failed prefills, disconnects and aborts.
THEOREM RestoresAreSound == Spec => []RestoreSound
<1>1. IInv => RestoreSound BY DEF IInv, Coherent, Clean, RestoreSound
<1> QED BY <1>1, Invariance, PTL

\* A slot in use is handed out only after an abort: until the first one the
\* slots in use are exactly the first ones, in the order of the rotation.
THEOREM AliasOnlyAfterAbort == Spec => []AliasNeedsAbort
<1>1. Init => AliasNeedsAbort BY DEF Init, AliasNeedsAbort
<1>2. IInv /\ AliasNeedsAbort /\ [Next]_vars => AliasNeedsAbort'
  <2> SUFFICES ASSUME IInv, AliasNeedsAbort, [Next]_vars PROVE AliasNeedsAbort'
    OBVIOUS
  <2>1. CASE PrepareInlineSnap
    <3> SUFFICES ASSUME "abort" \notin faults, Len(entries) < Cap, pc = "lookup"
                 PROVE  ~InUse(next_slot)
      <4>1. Len(entries) \in Nat /\ Cap \in Nat BY CapAssumption DEF IInv, TypeOK
      <4> QED BY <2>1, <4>1 DEF PrepareInlineSnap, AliasNeedsAbort
    <3>1. /\ \A i \in 1..Len(entries) : entries[i].slot < Len(entries)
          /\ next_slot = Len(entries)
      <4>1. Rotation /\ Len(entries) # Cap BY DEF IInv
      <4>2. ~Reserving BY DEF Reserving
      <4> QED BY ONLY <4>1, <4>2, "abort" \notin faults DEF Rotation
    <3>2. Len(entries) \in Nat BY DEF IInv, TypeOK
    <3> QED BY ONLY <3>1, <3>2 DEF InUse
  <2>2. CASE ConfirmInlineSnap BY <2>2 DEF ConfirmInlineSnap, AliasNeedsAbort
  <2>3. CASE AbortInlineSnap BY <2>3 DEF AbortInlineSnap, AliasNeedsAbort
  <2>4. CASE UNCHANGED faults BY <2>4 DEF AliasNeedsAbort
  <2> QED BY <2>1, <2>2, <2>3, <2>4
       DEF Next, Begin, Lookup, Restore, Prefill, PrefillFails, Decode, NothingPrepared, vars
<1> QED BY <1>1, <1>2, Invariance, PTL DEF Spec

\* For any capacity, number of prompts and length of a run, the table is a table and its
\* reservation is held.
THEOREM TableIsKept == Spec => []TableInv
BY TypeCorrectness, TableStaysBounded, ReservationKept, PTL DEF TableInv

\* Wrong state is restored only after a slot in use was handed out, which an abort must
\* precede, or an unsaved snapshot confirmed.
THEOREM SoundUntilAborted == Spec => []SoundUnlessAborted
BY RestoresAreSound, AliasOnlyAfterAbort, PTL DEF SoundUnlessAborted

\* The save at shutdown writes the snapshot of every entry under that entry's own tokens,
\* for every history in which no slot in use was handed out and no unsaved snapshot confirmed.
THEOREM EntriesAreTracked == Spec => []EntriesTracked
<1>1. Init => Tracked BY DEF Init, Tracked
<1>2. IInv /\ Tracked => EntriesTracked
  <2> SUFFICES ASSUME IInv, Tracked, pc = "idle", Clean, NEW i \in 1..Len(entries)
               PROVE  /\ slot_tokens[entries[i].slot] = entries[i].key
                      /\ slots[entries[i].slot] = entries[i].key
    BY DEF EntriesTracked, Clean
  <2>1. entries[i].key # pending BY EntryFacts DEF IInv, RequestOK
  <2>2. slots[entries[i].slot] = entries[i].key BY <2>1 DEF IInv, Coherent
  <2> QED BY <2>2 DEF Tracked
<1> QED BY <1>1, <1>2, TrackedStep, Invariance, PTL DEF Spec

\* With two slots or more, a conversation that was continued from a snapshot can be continued
\* from it again: the request itself never evicts it.
THEOREM HitsOutliveRequests == Spec => HitOutlivesRequest
<1>1. Init => Recent BY DEF Init, Recent
<1>2. IInv /\ Recent /\ [Next]_vars
        => [Cap >= 2 /\ pc # "idle" /\ pc' = "idle" /\ hit.slot # NoSlot
              => \E i \in 1..Len(entries') : entries'[i].key = Key(prompt, hit.len)]_vars
  BY HitSurvives
<1> QED BY <1>1, <1>2, RecentStep, Invariance, PTL DEF Spec, HitOutlivesRequest

=============================================================================

------------------------- MODULE ToolMemoryProofs -------------------------
(***************************************************************************)
(* For every set of ids and texts, every size and both limits: the four    *)
(* structures of the tool memory agree with one another between any two    *)
(* rounds of its loops, a replayed text is the one its ids were last       *)
(* remembered with, and no more than MaxEntries ids are kept.              *)
(***************************************************************************)
EXTENDS ToolMemory, ListLemmas, SequenceTheorems, FiniteSetTheorems, TLAPS

-----------------------------------------------------------------------------
(* The inductive invariant *)

MemType(m) ==
  m \in [blocks: SUBSET Texts, refs: [Texts -> Nat],
         by_id: [CallIds -> Texts \cup {NoText}], lru: Seq(CallIds), total: Nat]

Injective(s) == \A i, j \in 1..Len(s) : s[i] = s[j] => i = j

ListOK(m) ==
  /\ \A id \in CallIds : Listed(m.lru, id) <=> m.by_id[id] # NoText
  /\ Injective(m.lru)

\* The ids that stand for a text.
IdsOf(m, t) == {id \in CallIds : m.by_id[id] = t}

RefsOK(m) ==
  \A t \in Texts : /\ m.refs[t] = Cardinality(IdsOf(m, t))
                   /\ m.refs[t] > 0 => t \in m.blocks

MemOK(m) == MemType(m) /\ ListOK(m) /\ RefsOK(m)

\* No block but that of text x is without references.
BlocksOK(m, x) == \A t \in m.blocks : m.refs[t] > 0 \/ t = x

\* The text whose block may be empty: remember() has not come to its first id.
Filling == IF op.call = "remember" /\ op.done = {} THEN op.text ELSE NoText

\* What is known of an id is what was said of it last.
Current == \A id \in CallIds : mem.by_id[id] \in {NoText, said[id]}

\* The call in progress.
OpOK ==
  /\ op.call = "remember" =>
       /\ op.text \in Texts /\ ~disabled /\ chat_msgs = <<>>
       /\ op.todo # <<>> => op.text \in mem.blocks
       /\ op.done = {} => \E i \in 1..Len(op.todo) : op.todo[i] # NoId
  /\ op.call = "chat" => \A id \in op.done : op.text = said[id]

EntriesOK == op.call # "remember" => Cardinality(Known(mem)) <= MaxEntries

IInv ==
  /\ TypeOK
  /\ ListOK(mem)
  /\ RefsOK(mem)
  /\ BlocksOK(mem, Filling)
  /\ Current
  /\ OpOK
  /\ EntriesOK
  /\ ReplayExact

-----------------------------------------------------------------------------
(* The list of ids *)

\* Unlisting an id removes that id and no other.
LEMMA UnlistFacts ==
  ASSUME NEW s \in Seq(CallIds), Injective(s), NEW id \in CallIds
  PROVE  /\ Unlist(s, id) \in Seq(CallIds)
         /\ Injective(Unlist(s, id))
         /\ \A x \in CallIds : Listed(Unlist(s, id), x) <=> Listed(s, x) /\ x # id
<1>1. CASE ~Listed(s, id)
  <2>1. Unlist(s, id) = s BY <1>1 DEF Unlist
  <2> QED BY <1>1, <2>1
<1>2. CASE Listed(s, id)
  <2> DEFINE p == CHOOSE i \in 1..Len(s) : s[i] = id
             r == RemoveAt(s, p)
  <2>1. p \in 1..Len(s) /\ s[p] = id BY <1>2 DEF Listed
  <2>2. Unlist(s, id) = r BY <1>2 DEF Unlist
  <2> HIDE DEF p
  <2>3. /\ r \in Seq(CallIds)
        /\ Len(r) = Len(s) - 1
        /\ \A j \in 1..(p - 1) : r[j] = s[j]
        /\ \A j \in p..(Len(s) - 1) : r[j] = s[j + 1]
    BY <2>1, RemoveAtFacts
  <2> HIDE DEF r
  <2>4. Len(s) \in Nat /\ p \in Nat BY <2>1
  <2>5. \A j \in 1..Len(r) :
          \E k \in 1..Len(s) : /\ r[j] = s[k] /\ k # p
                               /\ k = IF j < p THEN j ELSE j + 1
    <3> TAKE j \in 1..Len(r)
    <3>1. CASE j < p
      <4>1. j \in 1..(p - 1) /\ j \in 1..Len(s) BY <2>3, <2>4, <3>1
      <4> QED BY <2>3, <3>1, <4>1
    <3>2. CASE ~(j < p)
      <4>1. j \in p..(Len(s) - 1) /\ j + 1 \in 1..Len(s) /\ j + 1 # p BY <2>3, <2>4, <3>2
      <4> QED BY <2>3, <3>2, <4>1
    <3> QED BY <3>1, <3>2
  <2>6. Injective(r)
    <3> SUFFICES ASSUME NEW i \in 1..Len(r), NEW j \in 1..Len(r), r[i] = r[j] PROVE i = j
      BY DEF Injective
    <3>1. PICK k \in 1..Len(s) : r[i] = s[k] /\ k = IF i < p THEN i ELSE i + 1 BY <2>5
    <3>2. PICK l \in 1..Len(s) : r[j] = s[l] /\ l = IF j < p THEN j ELSE j + 1 BY <2>5
    <3>3. k = l BY <3>1, <3>2 DEF Injective
    <3> QED BY <2>3, <2>4, <3>1, <3>2, <3>3
  <2>7. ASSUME NEW x \in CallIds, Listed(r, x) PROVE Listed(s, x) /\ x # id
    <3>1. PICK j \in 1..Len(r) : r[j] = x BY <2>7 DEF Listed
    <3>2. PICK k \in 1..Len(s) : r[j] = s[k] /\ k # p BY <2>5
    <3> QED BY <2>1, <3>1, <3>2 DEF Listed, Injective
  <2>8. ASSUME NEW x \in CallIds, Listed(s, x), x # id PROVE Listed(r, x)
    <3>1. PICK k \in 1..Len(s) : s[k] = x BY <2>8 DEF Listed
    <3>2. k # p BY <2>1, <2>8, <3>1
    <3>3. CASE k < p
      <4>1. k \in 1..(p - 1) /\ k \in 1..Len(r) BY <2>1, <2>3, <2>4, <3>3
      <4> QED BY <2>3, <3>1, <4>1 DEF Listed
    <3>4. CASE ~(k < p)
      <4>1. k - 1 \in p..(Len(s) - 1) /\ k - 1 \in 1..Len(r) /\ k - 1 + 1 = k
        BY <2>1, <2>3, <2>4, <3>2, <3>4
      <4> QED BY <2>3, <3>1, <4>1 DEF Listed
    <3> QED BY <3>3, <3>4
  <2> QED BY <2>2, <2>3, <2>6, <2>7, <2>8
<1> QED BY <1>1, <1>2

\* touch(): the id is listed once, and no other id comes or goes.
LEMMA RelistFacts ==
  ASSUME NEW s \in Seq(CallIds), Injective(s), NEW id \in CallIds
  PROVE  /\ Append(Unlist(s, id), id) \in Seq(CallIds)
         /\ Injective(Append(Unlist(s, id), id))
         /\ \A x \in CallIds : Listed(Append(Unlist(s, id), id), x) <=> Listed(s, x) \/ x = id
<1> DEFINE u == Unlist(s, id)
           a == Append(u, id)
<1>1. /\ u \in Seq(CallIds) /\ Injective(u)
      /\ \A x \in CallIds : Listed(u, x) <=> Listed(s, x) /\ x # id
  BY UnlistFacts
<1> HIDE DEF u
<1>2. /\ a \in Seq(CallIds) /\ Len(a) = Len(u) + 1 /\ a[Len(u) + 1] = id
      /\ \A j \in 1..Len(u) : a[j] = u[j]
  BY <1>1, AppendFacts
<1>3. Len(u) \in Nat BY <1>1
<1> HIDE DEF a
<1>4. \A j \in 1..Len(a) : j \in 1..Len(u) \/ j = Len(u) + 1 BY <1>2, <1>3
<1>5. \A j \in 1..Len(u) : u[j] # id
  <2>1. ~Listed(u, id) BY <1>1
  <2> QED BY <2>1 DEF Listed
<1>6. Injective(a) BY <1>1, <1>2, <1>4, <1>5 DEF Injective
<1>7. \A j \in 1..Len(u) : j \in 1..Len(a) BY <1>2, <1>3
<1>8. Len(u) + 1 \in 1..Len(a) BY <1>2, <1>3
<1>9. ASSUME NEW x \in CallIds PROVE Listed(a, x) <=> Listed(s, x) \/ x = id
  <2>1. Listed(a, x) <=> Listed(u, x) \/ x = id
    BY <1>2, <1>4, <1>7, <1>8 DEF Listed
  <2> QED BY <1>1, <2>1
<1> QED BY <1>2, <1>6, <1>9 DEF a, u

-----------------------------------------------------------------------------
(* The operations on the memory *)

LEMMA MonusType == \A a, b \in Nat : Monus(a, b) \in Nat
BY DEF Monus

\* touch() of a known id changes the order of the list only.
LEMMA TouchFacts ==
  ASSUME NEW m, MemOK(m), NEW id \in CallIds, m.by_id[id] # NoText
  PROVE  /\ MemOK(touch(m, id))
         /\ touch(m, id).by_id = m.by_id
         /\ touch(m, id).refs = m.refs
         /\ touch(m, id).blocks = m.blocks
<1> DEFINE n == touch(m, id)
<1>1. /\ MemType(m) /\ ListOK(m) /\ RefsOK(m) BY DEF MemOK
<1>2. m.lru \in Seq(CallIds) /\ Injective(m.lru) BY <1>1 DEF MemType, ListOK
<1>3. n = [m EXCEPT !.lru = Append(Unlist(m.lru, id), id)] BY DEF touch
<1>4. /\ n.lru = Append(Unlist(m.lru, id), id)
      /\ n.by_id = m.by_id /\ n.refs = m.refs /\ n.blocks = m.blocks
  BY <1>1, <1>3 DEF MemType
<1>5. n.lru \in Seq(CallIds) BY <1>2, <1>4, RelistFacts
<1>6. MemType(n) BY <1>1, <1>3, <1>4, <1>5 DEF MemType
<1>7. Injective(n.lru) BY <1>2, <1>4, RelistFacts
<1>8. \A x \in CallIds : Listed(n.lru, x) <=> Listed(m.lru, x) \/ x = id
  BY <1>2, <1>4, RelistFacts
<1>9. ListOK(n) BY <1>1, <1>4, <1>7, <1>8 DEF ListOK
<1>10. RefsOK(n) BY <1>1, <1>4 DEF RefsOK, IdsOf
<1> QED BY <1>4, <1>6, <1>9, <1>10 DEF MemOK

\* The ids of a text are counted by a natural number, which goes down by one when
\* one of them is dropped and up by one when another is entered.
LEMMA IdsFacts ==
  ASSUME NEW m, NEW t
  PROVE  /\ Cardinality(IdsOf(m, t)) \in Nat
         /\ \A id \in IdsOf(m, t) :
              /\ Cardinality(IdsOf(m, t)) > 0
              /\ Cardinality(IdsOf(m, t) \ {id}) = Cardinality(IdsOf(m, t)) - 1
         /\ \A id : id \notin IdsOf(m, t) =>
              Cardinality(IdsOf(m, t) \cup {id}) = Cardinality(IdsOf(m, t)) + 1
<1> DEFINE S == IdsOf(m, t)
<1>1. S \subseteq CallIds BY DEF IdsOf
<1>2. IsFiniteSet(S) BY <1>1, IdAssumption, FS_Subset
<1> HIDE DEF S
<1>3. Cardinality(S) \in Nat BY <1>2, FS_CardinalityType
<1>4. ASSUME NEW id \in S
      PROVE  Cardinality(S) > 0 /\ Cardinality(S \ {id}) = Cardinality(S) - 1
  <2>1. Cardinality(S) # 0 BY <1>2, <1>4, FS_EmptySet
  <2>2. Cardinality(S \ {id}) = Cardinality(S) - 1 BY <1>2, <1>4, FS_RemoveElement
  <2> QED BY <1>3, <2>1, <2>2
<1>5. ASSUME NEW id, id \notin S PROVE Cardinality(S \cup {id}) = Cardinality(S) + 1
  BY <1>2, <1>5, FS_AddElement
<1> QED BY <1>3, <1>4, <1>5 DEF S

\* drop_entry() of a known id forgets that id, and its block if it was the last.
LEMMA DropFacts ==
  ASSUME NEW m, MemOK(m), NEW id \in CallIds, m.by_id[id] # NoText
  PROVE  /\ MemOK(drop_entry(m, id))
         /\ drop_entry(m, id).by_id = [m.by_id EXCEPT ![id] = NoText]
         /\ \A t \in m.blocks : t # m.by_id[id] => t \in drop_entry(m, id).blocks
         /\ \A x : BlocksOK(m, x) => BlocksOK(drop_entry(m, id), x)
<1> DEFINE n == drop_entry(m, id)
           t == m.by_id[id]
           b == IF LastRef(m, t) THEN Monus(m.total, Size[t]) ELSE m.total
           k == IF LastRef(m, t) THEN m.blocks \ {t} ELSE m.blocks
<1>1. /\ MemType(m) /\ ListOK(m) /\ RefsOK(m) BY DEF MemOK
<1>2. /\ m.lru \in Seq(CallIds) /\ Injective(m.lru)
      /\ m.total \in Nat /\ m.refs \in [Texts -> Nat] /\ m.blocks \subseteq Texts
      /\ m.by_id \in [CallIds -> Texts \cup {NoText}]
  BY <1>1 DEF MemType, ListOK
<1>3. t \in Texts /\ t # NoText BY <1>2
<1>4. Size[t] \in Nat BY <1>3, TextAssumption
<1>5. id \in IdsOf(m, t) BY DEF IdsOf
<1>6. m.refs[t] > 0 /\ m.refs[t] \in Nat /\ t \in m.blocks
  <2>1. Cardinality(IdsOf(m, t)) > 0 BY <1>5, IdsFacts
  <2>2. m.refs[t] = Cardinality(IdsOf(m, t)) BY <1>1, <1>3 DEF RefsOK
  <2>3. m.refs[t] > 0 => t \in m.blocks BY <1>1, <1>3 DEF RefsOK
  <2> QED BY <1>2, <1>3, <2>1, <2>2, <2>3
<1>7. /\ n.blocks = k
      /\ n.refs = [m.refs EXCEPT ![t] = Monus(m.refs[t], 1)]
      /\ n.by_id = [m.by_id EXCEPT ![id] = NoText]
      /\ n.lru = Unlist(m.lru, id)
      /\ n.total = Monus(b, Size[t])
      /\ n = [blocks |-> n.blocks, refs |-> n.refs, by_id |-> n.by_id,
              lru |-> n.lru, total |-> n.total]
  BY <1>1, <1>3 DEF drop_entry, MemType
<1> HIDE DEF n
<1>8. Monus(m.refs[t], 1) = m.refs[t] - 1 BY <1>6 DEF Monus
<1>9. n.total \in Nat BY <1>2, <1>4, <1>7, MonusType
<1>10. n.lru \in Seq(CallIds) BY <1>2, <1>7, UnlistFacts
<1>11. n.refs \in [Texts -> Nat] BY <1>2, <1>6, <1>7, <1>8
<1>12. n.by_id \in [CallIds -> Texts \cup {NoText}] BY <1>2, <1>7
<1>13. n.blocks \in SUBSET Texts BY <1>2, <1>7
<1>14. MemType(n) BY <1>7, <1>9, <1>10, <1>11, <1>12, <1>13 DEF MemType
<1>15. ListOK(n)
  <2>1. Injective(n.lru) BY <1>2, <1>7, UnlistFacts
  <2>2. \A x \in CallIds : Listed(n.lru, x) <=> Listed(m.lru, x) /\ x # id
    BY SMTT(30), <1>2, <1>7, UnlistFacts, SMTT(20)
  <2>3. \A x \in CallIds : n.by_id[x] # NoText <=> m.by_id[x] # NoText /\ x # id
    BY <1>2, <1>7
  <2> QED BY <1>1, <2>1, <2>2, <2>3 DEF ListOK
<1>16. \A u \in Texts : u # t =>
         n.refs[u] = m.refs[u] /\ IdsOf(n, u) = IdsOf(m, u) /\ (u \in n.blocks <=> u \in m.blocks)
  <2> SUFFICES ASSUME NEW u \in Texts, u # t
               PROVE  /\ n.refs[u] = m.refs[u] /\ IdsOf(n, u) = IdsOf(m, u)
                      /\ u \in n.blocks <=> u \in m.blocks
    OBVIOUS
  <2>1. n.refs[u] = m.refs[u] BY <1>2, <1>7
  <2>2. u # NoText BY TextAssumption
  <2>3. \A x \in CallIds : n.by_id[x] = u <=> m.by_id[x] = u BY <1>2, <1>7, <2>2
  <2>4. IdsOf(n, u) = IdsOf(m, u) BY <2>3 DEF IdsOf
  <2> QED BY <1>7, <2>1, <2>4
<1>17. n.refs[t] = m.refs[t] - 1 BY <1>2, <1>3, <1>7, <1>8
<1>18. n.refs[t] = Cardinality(IdsOf(n, t))
  <2>1. \A x \in CallIds : n.by_id[x] = t <=> m.by_id[x] = t /\ x # id BY <1>2, <1>3, <1>7
  <2>2. IdsOf(n, t) = IdsOf(m, t) \ {id} BY <2>1 DEF IdsOf
  <2>3. Cardinality(IdsOf(n, t)) = Cardinality(IdsOf(m, t)) - 1 BY <1>5, <2>2, IdsFacts
  <2>4. m.refs[t] = Cardinality(IdsOf(m, t)) BY <1>1, <1>3 DEF RefsOK
  <2> QED BY <1>17, <2>3, <2>4
<1>19. t \in n.blocks <=> n.refs[t] # 0 BY <1>6, <1>7, <1>8, <1>17 DEF LastRef
<1>20. RefsOK(n)
  <2> SUFFICES ASSUME NEW u \in Texts
               PROVE  n.refs[u] = Cardinality(IdsOf(n, u)) /\ (n.refs[u] > 0 => u \in n.blocks)
    BY DEF RefsOK
  <2>1. CASE u = t BY <1>11, <1>18, <1>19, <2>1
  <2>2. CASE u # t BY <1>1, <1>16, <2>2 DEF RefsOK
  <2> QED BY <2>1, <2>2
<1>21. ASSUME NEW x, BlocksOK(m, x) PROVE BlocksOK(n, x)
  <2> SUFFICES ASSUME NEW u \in n.blocks PROVE n.refs[u] > 0 \/ u = x
    BY DEF BlocksOK
  <2>0. u \in Texts BY <1>13
  <2>1. CASE u = t
    <3>1. n.refs[t] \in Nat /\ n.refs[t] # 0 BY <1>3, <1>11, <1>19, <2>1
    <3> QED BY <2>1, <3>1
  <2>2. CASE u # t BY <1>16, <1>21, <2>0, <2>2 DEF BlocksOK
  <2> QED BY <2>1, <2>2
<1>22. \A u \in m.blocks : u # t => u \in n.blocks BY <1>7
<1> QED BY <1>7, <1>14, <1>15, <1>20, <1>21, <1>22 DEF MemOK, n

\* Entering an unknown id for a text that has a block.
LEMMA EnterFacts ==
  ASSUME NEW m, MemOK(m), NEW id \in CallIds, m.by_id[id] = NoText, NEW t \in Texts, t \in m.blocks
  PROVE  /\ MemOK(Enter(m, id, t))
         /\ Enter(m, id, t).by_id = [m.by_id EXCEPT ![id] = t]
         /\ Enter(m, id, t).blocks = m.blocks
         /\ \A x : BlocksOK(m, x) => BlocksOK(Enter(m, id, t), x)
<1> DEFINE n == Enter(m, id, t)
<1>1. /\ MemType(m) /\ ListOK(m) /\ RefsOK(m) BY DEF MemOK
<1>2. /\ m.lru \in Seq(CallIds) /\ Injective(m.lru)
      /\ m.total \in Nat /\ m.refs \in [Texts -> Nat] /\ m.blocks \subseteq Texts
      /\ m.by_id \in [CallIds -> Texts \cup {NoText}]
  BY <1>1 DEF MemType, ListOK
<1>3. Size[t] \in Nat /\ t # NoText BY TextAssumption
<1>4. /\ n.blocks = m.blocks
      /\ n.refs = [m.refs EXCEPT ![t] = m.refs[t] + 1]
      /\ n.by_id = [m.by_id EXCEPT ![id] = t]
      /\ n.lru = Append(Unlist(m.lru, id), id)
      /\ n.total = m.total + Size[t]
      /\ n = [blocks |-> n.blocks, refs |-> n.refs, by_id |-> n.by_id,
              lru |-> n.lru, total |-> n.total]
  <2> DEFINE e == [m EXCEPT !.by_id[id] = t, !.total = @ + Size[t], !.refs[t] = @ + 1]
           e1 == [m EXCEPT !.by_id[id] = t]
           e2 == [e1 EXCEPT !.total = @ + Size[t]]
  <2>a. m = [blocks |-> m.blocks, refs |-> m.refs, by_id |-> m.by_id, lru |-> m.lru,
             total |-> m.total]
    BY <1>1 DEF MemType
  <2>b. e1 = [blocks |-> m.blocks, refs |-> m.refs, by_id |-> [m.by_id EXCEPT ![id] = t],
              lru |-> m.lru, total |-> m.total]
    BY <2>a
  <2> HIDE DEF e1
  <2>c. e2 = [blocks |-> m.blocks, refs |-> m.refs, by_id |-> [m.by_id EXCEPT ![id] = t],
              lru |-> m.lru, total |-> m.total + Size[t]]
    BY <2>b
  <2>d. e = [e2 EXCEPT !.refs[t] = @ + 1] BY DEF e1
  <2> HIDE DEF e, e2
  <2>1. e = [blocks |-> m.blocks, refs |-> [m.refs EXCEPT ![t] = m.refs[t] + 1],
             by_id |-> [m.by_id EXCEPT ![id] = t], lru |-> m.lru, total |-> m.total + Size[t]]
    BY <2>c, <2>d
  <2>2. n = [e EXCEPT !.lru = Append(Unlist(e.lru, id), id)] BY DEF Enter, touch, e
  <2> QED BY <2>1, <2>2
<1> HIDE DEF n
<1>5. n.total \in Nat BY <1>2, <1>3, <1>4
<1>6. n.lru \in Seq(CallIds) BY <1>2, <1>4, RelistFacts
<1>7. n.refs \in [Texts -> Nat] BY <1>2, <1>4
<1>8. n.by_id \in [CallIds -> Texts \cup {NoText}] BY <1>2, <1>4
<1>9. MemType(n) BY <1>2, <1>4, <1>5, <1>6, <1>7, <1>8 DEF MemType
<1>10. ListOK(n)
  <2>1. Injective(n.lru) BY <1>2, <1>4, RelistFacts
  <2>2. \A x \in CallIds : Listed(n.lru, x) <=> Listed(m.lru, x) \/ x = id
    BY <1>2, <1>4, RelistFacts
  <2>3. \A x \in CallIds : n.by_id[x] # NoText <=> m.by_id[x] # NoText \/ x = id
    BY <1>2, <1>3, <1>4
  <2> QED BY <1>1, <2>1, <2>2, <2>3 DEF ListOK
<1>11. ASSUME NEW u \in Texts
       PROVE  /\ n.refs[u] = Cardinality(IdsOf(n, u))
              /\ n.refs[u] >= m.refs[u]
              /\ n.refs[u] > 0 => u \in n.blocks
  <2>0. /\ m.refs[u] \in Nat /\ m.refs[u] = Cardinality(IdsOf(m, u))
        /\ m.refs[u] > 0 => u \in m.blocks
    BY <1>1, <1>2 DEF RefsOK
  <2>1. CASE u = t
    <3>1. \A x \in CallIds : n.by_id[x] = t <=> m.by_id[x] = t \/ x = id BY <1>2, <1>4
    <3>2. IdsOf(n, t) = IdsOf(m, t) \cup {id} BY <3>1 DEF IdsOf
    <3>3. id \notin IdsOf(m, t) BY <1>3 DEF IdsOf
    <3>4. Cardinality(IdsOf(n, t)) = Cardinality(IdsOf(m, t)) + 1 BY <3>2, <3>3, IdsFacts
    <3>5. n.refs[t] = m.refs[t] + 1 BY <1>2, <1>4
    <3> QED BY <1>4, <2>0, <2>1, <3>4, <3>5
  <2>2. CASE u # t
    <3>1. u # NoText BY TextAssumption
    <3>2. \A x \in CallIds : n.by_id[x] = u <=> m.by_id[x] = u BY <1>2, <1>4, <2>2, <3>1
    <3>3. IdsOf(n, u) = IdsOf(m, u) BY <3>2 DEF IdsOf
    <3>4. n.refs[u] = m.refs[u] BY <1>2, <1>4, <2>2
    <3> QED BY <1>4, <2>0, <3>3, <3>4
  <2> QED BY <2>1, <2>2
<1>12. RefsOK(n) BY <1>11 DEF RefsOK
<1>13. ASSUME NEW x, BlocksOK(m, x) PROVE BlocksOK(n, x)
  <2> SUFFICES ASSUME NEW u \in n.blocks PROVE n.refs[u] > 0 \/ u = x
    BY DEF BlocksOK
  <2>1. u \in Texts /\ u \in m.blocks BY <1>2, <1>4
  <2>2. m.refs[u] > 0 \/ u = x BY <1>13, <2>1 DEF BlocksOK
  <2>3. n.refs[u] >= m.refs[u] /\ m.refs[u] \in Nat /\ n.refs[u] \in Nat
    BY <1>2, <1>7, <1>11, <2>1
  <2> QED BY <2>2, <2>3
<1> QED BY <1>4, <1>9, <1>10, <1>12, <1>13 DEF MemOK, n

-----------------------------------------------------------------------------
(* The initial state *)

LEMMA InitIInv == Init => IInv
<1> SUFFICES ASSUME Init PROVE IInv
  OBVIOUS
<1>1. /\ mem.by_id = [id \in CallIds |-> NoText] /\ mem.refs = [t \in Texts |-> 0]
      /\ mem.blocks = {} /\ mem.lru = <<>> /\ mem.total = 0
      /\ op.call = "idle" /\ chat_msgs = <<>>
  BY DEF Init, Idle
<1>2. TypeOK BY DEF Init, Idle, TypeOK
<1>3. ListOK(mem) BY <1>1 DEF ListOK, Listed, Injective
<1>4. RefsOK(mem)
  <2> SUFFICES ASSUME NEW t \in Texts
               PROVE  mem.refs[t] = Cardinality(IdsOf(mem, t)) /\ mem.refs[t] = 0
    BY DEF RefsOK
  <2>1. IdsOf(mem, t) = {} BY <1>1, TextAssumption DEF IdsOf
  <2>2. Cardinality({}) = 0 BY FS_EmptySet
  <2> QED BY <1>1, <2>1, <2>2
<1>5. BlocksOK(mem, Filling) BY <1>1 DEF BlocksOK
<1>6. Current BY <1>1 DEF Current
<1>7. OpOK BY <1>1 DEF OpOK
<1>8. EntriesOK
  <2>1. Known(mem) = {} BY <1>1 DEF Known
  <2>2. Cardinality({}) = 0 BY FS_EmptySet
  <2> QED BY <2>1, <2>2, LimitAssumption DEF EntriesOK
<1>9. ReplayExact BY <1>1 DEF ReplayExact
<1> QED BY <1>2, <1>3, <1>4, <1>5, <1>6, <1>7, <1>8, <1>9 DEF IInv

-----------------------------------------------------------------------------
(* One lemma for each action *)

LEMMA OpFacts ==
  ASSUME TypeOK
  PROVE  /\ MemType(mem)
         /\ op.todo \in Seq(CallIds \cup {NoId}) /\ op.done \subseteq CallIds
         /\ op.text \in Texts \cup {NoText}
         /\ op.call \in {"idle", "remember", "chat", "responses"}
         /\ op.todo # <<>> => /\ Head(op.todo) \in CallIds \cup {NoId}
                              /\ Tail(op.todo) \in Seq(CallIds \cup {NoId})
BY DEF TypeOK, MemType

LEMMA IdListType == ASSUME NEW ids \in IdLists PROVE ids \in Seq(CallIds \cup {NoId})
BY DEF IdLists

LEMMA RememberStep ==
  ASSUME IInv, NEW ids \in IdLists, NEW text \in Texts, Remember(ids, text) PROVE IInv'
<1>1. /\ TypeOK /\ ListOK(mem) /\ RefsOK(mem) /\ BlocksOK(mem, Filling) /\ Current
  BY DEF IInv
<1>2. MemType(mem) BY <1>1, OpFacts
<1>3. op.call = "idle" /\ ~disabled BY DEF Remember
<1>4. /\ op' = [call |-> "remember", todo |-> ids, done |-> {}, text |-> text]
      /\ chat_msgs' = <<>> /\ said' = said
  BY DEF Remember
<1>5. /\ mem'.blocks = mem.blocks \cup {text}
      /\ mem'.total = IF text \in mem.blocks THEN mem.total ELSE mem.total + Size[text]
      /\ mem'.refs = mem.refs /\ mem'.by_id = mem.by_id /\ mem'.lru = mem.lru
      /\ mem' = [blocks |-> mem'.blocks, refs |-> mem'.refs, by_id |-> mem'.by_id,
                 lru |-> mem'.lru, total |-> mem'.total]
  BY <1>2 DEF Remember, MemType
<1>6. TypeOK'
  <2>1. mem'.total \in Nat BY <1>2, <1>5, TextAssumption DEF MemType
  <2>2. MemType(mem') BY <1>2, <1>5, <2>1 DEF MemType
  <2>3. ids \in Seq(CallIds \cup {NoId}) BY IdListType
  <2> QED BY <1>1, <1>4, <2>2, <2>3 DEF TypeOK, MemType
<1>7. ListOK(mem') BY <1>1, <1>5 DEF ListOK
<1>8. RefsOK(mem') BY <1>1, <1>5 DEF RefsOK, IdsOf
<1>9. Filling' = text BY <1>4 DEF Filling
<1>10. Filling = NoText BY <1>3 DEF Filling
<1>11. BlocksOK(mem', Filling')
  <2>1. \A t \in mem.blocks : t # NoText BY <1>2, TextAssumption DEF MemType
  <2> QED BY <1>1, <1>5, <1>9, <1>10, <2>1 DEF BlocksOK
<1>12. Current' BY <1>1, <1>4, <1>5 DEF Current
<1>13. OpOK'
  <2>1. \E i \in 1..Len(ids) : ids[i] # NoId BY DEF Remember
  <2> QED BY <1>3, <1>4, <1>5, <2>1 DEF OpOK, disabled
<1>14. EntriesOK' BY <1>4 DEF EntriesOK
<1>15. ReplayExact' BY <1>4 DEF ReplayExact
<1> QED BY <1>6, <1>7, <1>8, <1>11, <1>12, <1>13, <1>14, <1>15 DEF IInv

\* A step that keeps what is known of every id keeps the number of ids.
LEMMA SameKnown == ASSUME mem'.by_id = mem.by_id PROVE Known(mem') = Known(mem)
BY DEF Known

LEMMA AssociateStep == ASSUME IInv, Associate PROVE IInv'
<1> DEFINE id == Head(op.todo)
<1>1. /\ TypeOK /\ ListOK(mem) /\ RefsOK(mem) /\ BlocksOK(mem, Filling) /\ Current /\ OpOK
      /\ ReplayExact
  BY DEF IInv
<1>2. /\ op.call = "remember" /\ op.todo # <<>>
      /\ op' = [op EXCEPT !.todo = Tail(@), !.done = IF id = NoId THEN @ ELSE @ \cup {id}]
      /\ chat_msgs' = chat_msgs
  BY DEF Associate
<1>3. op.text \in Texts /\ op.text \in mem.blocks /\ ~disabled /\ chat_msgs = <<>>
  BY <1>1, <1>2 DEF OpOK
<1>4. id \in CallIds \cup {NoId} /\ Tail(op.todo) \in Seq(CallIds \cup {NoId})
  BY <1>1, <1>2, OpFacts
<1> HIDE DEF id
<1>5. op'.call = "remember" /\ op'.text = op.text BY <1>1, <1>2 DEF TypeOK
<1>6. op' \in [call: {"idle", "remember", "chat", "responses"}, todo: Seq(CallIds \cup {NoId}),
               done: SUBSET CallIds, text: Texts \cup {NoText}]
  BY <1>1, <1>2, <1>4 DEF TypeOK
<1>7. MemOK(mem) BY <1>1, OpFacts DEF MemOK
<1>8. op.todo[1] = id /\ \A i \in 1..Len(op.todo) : i # 1 =>
        i - 1 \in 1..Len(Tail(op.todo)) /\ Tail(op.todo)[i - 1] = op.todo[i]
  BY <1>1, <1>2, OpFacts DEF id
<1>9. op'.todo = Tail(op.todo) /\ op'.done = IF id = NoId THEN op.done ELSE op.done \cup {id}
  BY <1>1, <1>2 DEF TypeOK
<1>10. SUFFICES /\ MemOK(mem') /\ BlocksOK(mem', Filling') /\ Current' /\ op.text \in mem'.blocks
                /\ said' \in [CallIds -> Texts \cup {NoText}]
                /\ ReplayExact'
  <2>1. TypeOK' BY <1>1, <1>2, <1>6, <1>10 DEF TypeOK, MemOK, MemType
  <2>2. OpOK'
    <3>1. ASSUME op'.done = {} PROVE \E i \in 1..Len(op'.todo) : op'.todo[i] # NoId
      <4>1. op.done = {} /\ id = NoId BY <1>9, <3>1
      <4>2. PICK i \in 1..Len(op.todo) : op.todo[i] # NoId BY <1>1, <1>2, <4>1 DEF OpOK
      <4>3. i # 1 BY <1>8, <4>1, <4>2
      <4> QED BY <1>8, <1>9, <4>2, <4>3
    <3> QED BY <1>2, <1>3, <1>5, <1>10, <3>1 DEF OpOK, disabled
  <2>3. EntriesOK' BY <1>5 DEF EntriesOK
  <2> QED BY <1>10, <2>1, <2>2, <2>3 DEF IInv, MemOK
<1>11. CASE id = NoId \/ id \in op.done
  <2>1. mem' = mem /\ said' = said BY <1>11 DEF Associate, id
  <2>2. op'.done = op.done BY <1>9, <1>11
  <2>3. Filling' = Filling BY <1>2, <1>5, <2>2 DEF Filling
  <2> QED BY <1>1, <1>2, <1>3, <1>7, <2>1, <2>3 DEF Current, ReplayExact, TypeOK
<1>12. CASE ~(id = NoId \/ id \in op.done)
  <2>1. id \in CallIds BY <1>4, <1>12
  <2>2. said' = [said EXCEPT ![id] = op.text] BY <1>12 DEF Associate, id
  <2>3. mem' = CASE mem.by_id[id] = op.text -> touch(mem, id)
                 [] mem.by_id[id] = NoText  -> Enter(mem, id, op.text)
                 [] OTHER -> Enter(drop_entry(mem, id), id, op.text)
    BY <1>12 DEF Associate, id
  <2>4. said \in [CallIds -> Texts \cup {NoText}] BY <1>1 DEF TypeOK
  <2>5. op.text # NoText BY <1>3, TextAssumption
  <2>a. BlocksOK(mem, op.text)
    <3>1. \A t \in mem.blocks : t # NoText BY <1>1, TextAssumption DEF TypeOK
    <3> QED BY <1>1, <1>2, <3>1 DEF BlocksOK, Filling
  <2>6. SUFFICES /\ MemOK(mem') /\ BlocksOK(mem', op.text) /\ op.text \in mem'.blocks
                 /\ mem'.by_id = [mem.by_id EXCEPT ![id] = op.text]
    <3>1. mem.by_id \in [CallIds -> Texts \cup {NoText}] BY <1>1 DEF TypeOK
    <3>2. Current' BY <1>1, <2>1, <2>2, <2>4, <2>6, <3>1 DEF Current
    <3>3. said' \in [CallIds -> Texts \cup {NoText}] BY <1>3, <2>2, <2>4
    <3>4. ReplayExact' BY <1>2, <1>3 DEF ReplayExact
    <3>5. Filling' = NoText BY <1>9, <1>12 DEF Filling
    <3>6. mem'.refs[op.text] > 0
      <4>1. id \in IdsOf(mem', op.text) BY <2>1, <2>6, <3>1 DEF IdsOf
      <4>2. Cardinality(IdsOf(mem', op.text)) > 0 BY <4>1, IdsFacts
      <4> QED BY <1>3, <2>6, <4>2 DEF MemOK, RefsOK
    <3>7. BlocksOK(mem', NoText) BY <2>6, <3>6 DEF BlocksOK
    <3> QED BY <2>6, <3>2, <3>3, <3>4, <3>5, <3>7
  <2>7. CASE mem.by_id[id] = op.text
    <3>1. mem' = touch(mem, id) BY <2>3, <2>5, <2>7
    <3>2. MemOK(mem') /\ mem'.by_id = mem.by_id /\ mem'.refs = mem.refs /\ mem'.blocks = mem.blocks
      BY <1>7, <2>1, <2>5, <2>7, <3>1, TouchFacts
    <3>3. mem.by_id = [mem.by_id EXCEPT ![id] = op.text]
      BY <1>1, <2>1, <2>7 DEF TypeOK
    <3> QED BY <1>1, <1>3, <2>a, <3>2, <3>3 DEF BlocksOK
  <2>8. CASE mem.by_id[id] = NoText
    <3>1. mem' = Enter(mem, id, op.text) BY <2>3, <2>5, <2>8
    <3> QED BY <1>1, <1>3, <2>a, <1>7, <2>1, <2>8, <3>1, EnterFacts
  <2>9. CASE mem.by_id[id] # op.text /\ mem.by_id[id] # NoText
    <3> DEFINE d == drop_entry(mem, id)
    <3>1. mem' = Enter(d, id, op.text) BY <2>3, <2>9
    <3>2. /\ MemOK(d) /\ d.by_id = [mem.by_id EXCEPT ![id] = NoText]
          /\ op.text \in d.blocks /\ BlocksOK(d, op.text)
      BY <1>1, <1>3, <2>a, <1>7, <2>1, <2>9, DropFacts
    <3> HIDE DEF d
    <3>3. mem.by_id \in [CallIds -> Texts \cup {NoText}] BY <1>1 DEF TypeOK
    <3>4. d.by_id[id] = NoText BY <2>1, <3>2, <3>3
    <3>5. /\ MemOK(Enter(d, id, op.text)) /\ BlocksOK(Enter(d, id, op.text), op.text)
          /\ op.text \in Enter(d, id, op.text).blocks
          /\ Enter(d, id, op.text).by_id = [d.by_id EXCEPT ![id] = op.text]
      <4>1. MemOK(d) /\ op.text \in d.blocks BY <3>2
      <4>2. /\ MemOK(Enter(d, id, op.text))
            /\ Enter(d, id, op.text).blocks = d.blocks
            /\ Enter(d, id, op.text).by_id = [d.by_id EXCEPT ![id] = op.text]
            /\ \A x : BlocksOK(d, x) => BlocksOK(Enter(d, id, op.text), x)
        BY <1>3, <2>1, <3>4, <4>1, EnterFacts
      <4> QED BY <3>2, <4>1, <4>2
    <3>6. mem'.by_id = [mem.by_id EXCEPT ![id] = op.text] BY <2>1, <3>1, <3>2, <3>3, <3>5
    <3> QED BY <3>1, <3>5, <3>6
  <2> QED BY <2>7, <2>8, <2>9
<1> QED BY <1>11, <1>12

LEMMA PruneStep == ASSUME IInv, Prune PROVE IInv'
<1> DEFINE id == Head(mem.lru)
<1>1. /\ TypeOK /\ ListOK(mem) /\ RefsOK(mem) /\ BlocksOK(mem, Filling) /\ Current /\ OpOK
      /\ ReplayExact
  BY DEF IInv
<1>2. /\ op.call = "remember" /\ op.todo = <<>> /\ mem.lru # <<>> /\ mem' = drop_entry(mem, id)
      /\ op' = op /\ chat_msgs' = chat_msgs /\ said' = said
  BY DEF Prune, OverLimit
<1>3. op.text \in Texts /\ ~disabled /\ chat_msgs = <<>> BY <1>1, <1>2 DEF OpOK
<1>4. mem.lru \in Seq(CallIds) BY <1>1 DEF TypeOK
<1>5. id \in CallIds /\ Listed(mem.lru, id)
  <2>1. id = mem.lru[1] /\ 1 \in 1..Len(mem.lru) BY <1>2, <1>4
  <2> QED BY <1>4, <2>1 DEF Listed
<1>6. mem.by_id[id] # NoText BY <1>1, <1>5 DEF ListOK
<1>7. MemOK(mem) BY <1>1, OpFacts DEF MemOK
<1> HIDE DEF id
<1>8. /\ MemOK(mem') /\ mem'.by_id = [mem.by_id EXCEPT ![id] = NoText]
      /\ BlocksOK(mem', Filling)
      /\ \A t \in mem.blocks : t # mem.by_id[id] => t \in mem'.blocks
  BY <1>1, <1>2, <1>5, <1>6, <1>7, DropFacts
<1>9. TypeOK' BY <1>1, <1>2, <1>8 DEF TypeOK, MemOK, MemType
<1>10. Filling' = Filling BY <1>2 DEF Filling
<1>11. Current'
  <2>1. mem.by_id \in [CallIds -> Texts \cup {NoText}] BY <1>1 DEF TypeOK
  <2> QED BY <1>1, <1>2, <1>5, <1>8, <2>1 DEF Current
<1>12. OpOK' BY <1>1, <1>2 DEF OpOK
<1>13. EntriesOK' BY <1>2 DEF EntriesOK
<1>14. ReplayExact' BY <1>2, <1>3 DEF ReplayExact
<1> QED BY <1>8, <1>9, <1>10, <1>11, <1>12, <1>13, <1>14 DEF IInv, MemOK

\* The end of remember() is where both limits hold again.
LEMMA PrunedStep == ASSUME IInv, Pruned PROVE IInv'
<1>1. /\ TypeOK /\ ListOK(mem) /\ RefsOK(mem) /\ BlocksOK(mem, Filling) /\ Current /\ OpOK
      /\ ReplayExact
  BY DEF IInv
<1>2. /\ op.call = "remember" /\ op.todo = <<>> /\ ~OverLimit
      /\ mem' = mem /\ op' = Idle /\ chat_msgs' = chat_msgs /\ said' = said
  BY DEF Pruned
<1>3. TypeOK' BY <1>1, <1>2 DEF TypeOK, Idle
<1>4. op.done # {} BY <1>1, <1>2 DEF OpOK
<1>5. Filling = NoText /\ Filling' = NoText BY <1>2, <1>4 DEF Filling, Idle
<1>6. OpOK' BY <1>2 DEF OpOK, Idle
<1>7. Cardinality(Known(mem)) <= MaxEntries
  <2>1. CASE Known(mem) = {}
    <3>1. Cardinality({}) = 0 BY FS_EmptySet
    <3> QED BY <2>1, <3>1, LimitAssumption
  <2>2. CASE Known(mem) # {}
    <3>1. PICK id \in CallIds : mem.by_id[id] # NoText BY <2>2 DEF Known
    <3>2. mem.lru # <<>> BY <1>1, <3>1 DEF ListOK, Listed
    <3>3. MaxEntries > 0 BY <1>1, <1>2, LimitAssumption DEF OpOK, disabled
    <3>4. ~(Cardinality(Known(mem)) > MaxEntries) BY <1>2, <2>2, <3>2, <3>3 DEF OverLimit
    <3>5. IsFiniteSet(Known(mem))
      <4>1. Known(mem) \subseteq CallIds BY DEF Known
      <4> QED BY <4>1, IdAssumption, FS_Subset
    <3>6. Cardinality(Known(mem)) \in Nat BY <3>5, FS_CardinalityType
    <3> QED BY <3>4, <3>6, LimitAssumption
  <2> QED BY <2>1, <2>2
<1>8. EntriesOK' BY <1>2, <1>7 DEF EntriesOK
<1>9. Current' /\ ReplayExact' BY <1>1, <1>2 DEF Current, ReplayExact
<1> QED BY <1>1, <1>2, <1>3, <1>5, <1>6, <1>8, <1>9 DEF IInv

\* A replay changes the memory by touching known ids, if at all.
LEMMA ReplayKeeps ==
  ASSUME IInv, op.call # "remember", op'.call # "remember", said' = said,
         \/ mem' = mem
         \/ \E id \in CallIds : mem.by_id[id] # NoText /\ mem' = touch(mem, id),
         op' \in [call: {"idle", "remember", "chat", "responses"},
                  todo: Seq(CallIds \cup {NoId}),
                  done: SUBSET CallIds, text: Texts \cup {NoText}],
         chat_msgs' \in Seq([ids: SUBSET (CallIds \cup {NoId}), text: Texts \cup {NoText}]),
         OpOK', ReplayExact'
  PROVE  IInv'
<1>1. /\ TypeOK /\ ListOK(mem) /\ RefsOK(mem) /\ BlocksOK(mem, Filling) /\ Current /\ EntriesOK
  BY DEF IInv
<1>2. MemOK(mem) BY <1>1, OpFacts DEF MemOK
<1>3. /\ MemOK(mem') /\ mem'.by_id = mem.by_id /\ mem'.refs = mem.refs
      /\ mem'.blocks = mem.blocks
  <2>1. CASE mem' = mem BY <1>2, <2>1
  <2>2. CASE \E id \in CallIds : mem.by_id[id] # NoText /\ mem' = touch(mem, id)
    BY <1>2, <2>2, TouchFacts
  <2> QED BY <2>1, <2>2
<1>4. TypeOK' BY <1>1, <1>3 DEF TypeOK, MemOK, MemType
<1>5. BlocksOK(mem', Filling')
  <2>1. Filling = NoText /\ Filling' = NoText BY DEF Filling
  <2> QED BY <1>1, <1>3, <2>1 DEF BlocksOK
<1>6. Current' BY <1>1, <1>3 DEF Current
<1>7. EntriesOK' BY <1>1, <1>3, SameKnown DEF EntriesOK
<1> QED BY <1>3, <1>4, <1>5, <1>6, <1>7 DEF IInv, MemOK

LEMMA ReplayStep ==
  ASSUME IInv, NEW format \in {"chat", "responses"}, NEW ids \in IdLists, Replay(format, ids)
  PROVE  IInv'
<1>1. /\ op.call = "idle" /\ mem' = mem /\ said' = said /\ chat_msgs' = <<>>
      /\ op' = [call |-> format, todo |-> ids, done |-> {}, text |-> NoText]
  BY DEF Replay
<1>2. ids \in Seq(CallIds \cup {NoId}) BY IdListType
<1>3. OpOK' BY <1>1 DEF OpOK
<1>4. ReplayExact' BY <1>1 DEF ReplayExact
<1>5. op' \in [call: {"idle", "remember", "chat", "responses"}, todo: Seq(CallIds \cup {NoId}),
               done: SUBSET CallIds, text: Texts \cup {NoText}]
  BY <1>1, <1>2
<1>6. chat_msgs' \in Seq([ids: SUBSET (CallIds \cup {NoId}), text: Texts \cup {NoText}])
  BY <1>1
<1> QED BY <1>1, <1>3, <1>4, <1>5, <1>6, ReplayKeeps

LEMMA ReplayChatStep == ASSUME IInv, ReplayChat PROVE IInv'
<1> DEFINE id == Head(op.todo)
           Ops == [call: {"idle", "remember", "chat", "responses"},
                   todo: Seq(CallIds \cup {NoId}), done: SUBSET CallIds,
                   text: Texts \cup {NoText}]
           Msg == [ids: SUBSET (CallIds \cup {NoId}), text: Texts \cup {NoText}]
<1>1. TypeOK /\ Current /\ OpOK /\ ReplayExact BY DEF IInv
<1>2. op.call = "chat" /\ op.todo # <<>> /\ said' = said BY DEF ReplayChat
<1>3. id \in CallIds \cup {NoId} /\ Tail(op.todo) \in Seq(CallIds \cup {NoId})
  BY <1>1, <1>2, OpFacts
<1>4. \A x \in op.done : op.text = said[x] BY <1>1, <1>2 DEF OpOK
<1>5. op \in Ops /\ chat_msgs \in Seq(Msg) BY <1>1 DEF TypeOK
<1>6. CASE id = NoId
  <2>1. op' = [op EXCEPT !.todo = Tail(@)] /\ mem' = mem /\ chat_msgs' = chat_msgs
    <3>1. id \notin Known(mem) BY <1>6, IdAssumption DEF Known
    <3> QED BY <1>6, <3>1 DEF ReplayChat
  <2>2. op'.call = "chat" /\ op'.done = op.done /\ op'.text = op.text BY <1>2, <1>5, <2>1
  <2>3. op' \in Ops BY <1>3, <1>5, <2>1
  <2>4. OpOK' BY <1>2, <1>4, <2>2 DEF OpOK
  <2>5. ReplayExact' BY <1>1, <1>2, <2>1 DEF ReplayExact
  <2> QED BY <1>2, <1>5, <2>1, <2>2, <2>3, <2>4, <2>5, ReplayKeeps
<1>7. CASE id # NoId /\ id \in Known(mem) /\ (op.done = {} \/ mem.by_id[id] = op.text)
  <2>1. /\ mem' = touch(mem, id) /\ chat_msgs' = chat_msgs
        /\ op' = [op EXCEPT !.todo = Tail(@), !.done = @ \cup {id}, !.text = mem.by_id[id]]
    BY <1>7 DEF ReplayChat
  <2>2. id \in CallIds /\ mem.by_id[id] # NoText /\ mem.by_id[id] \in Texts \cup {NoText}
    BY <1>1, <1>7 DEF Known, TypeOK
  <2>3. mem.by_id[id] = said[id] BY <1>1, <2>2 DEF Current
  <2>4. op'.call = "chat" /\ op'.done = op.done \cup {id} /\ op'.text = mem.by_id[id]
    BY <1>2, <1>5, <2>1
  <2>5. op' \in Ops BY <1>3, <1>5, <2>1, <2>2
  <2>6. \A x \in op'.done : op'.text = said'[x] BY <1>2, <1>4, <1>7, <2>3, <2>4
  <2>7. OpOK' BY <2>4, <2>6 DEF OpOK
  <2>8. ReplayExact' BY <1>1, <1>2, <2>1 DEF ReplayExact
  <2> QED BY <1>2, <1>5, <2>1, <2>2, <2>4, <2>5, <2>7, <2>8, ReplayKeeps
<1>8. CASE id # NoId /\ ~(id \in Known(mem) /\ (op.done = {} \/ mem.by_id[id] = op.text))
  <2>1. /\ op' = Idle /\ mem' = mem
        /\ chat_msgs' = <<[ids |-> op.done \cup {id}, text |-> NoText]>>
    BY <1>8 DEF ReplayChat
  <2>2. op' \in Ops /\ op'.call = "idle" BY <2>1 DEF Idle
  <2>3. [ids |-> op.done \cup {id}, text |-> NoText] \in Msg BY <1>3, <1>5
  <2>4. chat_msgs' \in Seq(Msg) BY <2>1, <2>3
  <2>5. OpOK' BY <2>2 DEF OpOK
  <2>6. ReplayExact' BY <2>1 DEF ReplayExact
  <2> QED BY <1>2, <2>1, <2>2, <2>4, <2>5, <2>6, ReplayKeeps
<1> QED BY <1>6, <1>7, <1>8

LEMMA ReplayChatEndStep == ASSUME IInv, ReplayChatEnd PROVE IInv'
<1> DEFINE Msg == [ids: SUBSET (CallIds \cup {NoId}), text: Texts \cup {NoText}]
<1>1. TypeOK /\ OpOK BY DEF IInv
<1>2. /\ op.call = "chat" /\ op' = Idle /\ mem' = mem /\ said' = said
      /\ chat_msgs' = <<[ids |-> op.done, text |-> op.text]>>
  BY DEF ReplayChatEnd
<1>3. \A x \in op.done : op.text = said[x] BY <1>1, <1>2 DEF OpOK
<1>4. /\ op'.call = "idle"
      /\ op' \in [call: {"idle", "remember", "chat", "responses"},
                  todo: Seq(CallIds \cup {NoId}), done: SUBSET CallIds,
                  text: Texts \cup {NoText}]
  BY <1>2 DEF Idle
<1>5. [ids |-> op.done, text |-> op.text] \in Msg BY <1>1 DEF TypeOK
<1>6. chat_msgs' \in Seq(Msg) BY <1>2, <1>5
<1>7. OpOK' BY <1>4 DEF OpOK
<1>8. ReplayExact' BY <1>2, <1>3 DEF ReplayExact
<1> QED BY <1>2, <1>4, <1>6, <1>7, <1>8, ReplayKeeps

LEMMA ReplayItemStep == ASSUME IInv, ReplayItem PROVE IInv'
<1> DEFINE id   == Head(op.todo)
           text == IF id = NoId THEN NoText ELSE mem.by_id[id]
           e    == [ids |-> {id}, text |-> text]
           Msg  == [ids: SUBSET (CallIds \cup {NoId}), text: Texts \cup {NoText}]
<1>1. TypeOK /\ Current /\ OpOK /\ ReplayExact BY DEF IInv
<1>2. /\ op.call = "responses" /\ op.todo # <<>> /\ said' = said
      /\ mem' = IF text = NoText THEN mem ELSE touch(mem, id)
      /\ chat_msgs' = Append(chat_msgs, e)
      /\ op' = IF Tail(op.todo) = <<>> THEN Idle ELSE [op EXCEPT !.todo = Tail(@)]
  BY DEF ReplayItem
<1>3. id \in CallIds \cup {NoId} /\ Tail(op.todo) \in Seq(CallIds \cup {NoId})
  BY <1>1, <1>2, OpFacts
<1>4. /\ mem.by_id \in [CallIds -> Texts \cup {NoText}] /\ chat_msgs \in Seq(Msg)
      /\ op \in [call: {"idle", "remember", "chat", "responses"},
                 todo: Seq(CallIds \cup {NoId}), done: SUBSET CallIds,
                 text: Texts \cup {NoText}]
  BY <1>1 DEF TypeOK
<1>5. text \in Texts \cup {NoText} BY <1>3, <1>4
<1>6. text # NoText => id \in CallIds /\ mem.by_id[id] = text /\ said[id] = text
  BY <1>1, <1>3 DEF Current
<1> HIDE DEF text, id
<1>7. /\ op'.call \in {"idle", "responses"}
      /\ op' \in [call: {"idle", "remember", "chat", "responses"},
                  todo: Seq(CallIds \cup {NoId}), done: SUBSET CallIds,
                  text: Texts \cup {NoText}]
  BY <1>2, <1>3, <1>4 DEF Idle
<1>8. e \in Msg BY <1>3, <1>5
<1>9. e.ids = {id} /\ e.text = text OBVIOUS
<1> HIDE DEF e, Msg
<1>10. /\ chat_msgs' \in Seq(Msg) /\ Len(chat_msgs') = Len(chat_msgs) + 1
       /\ chat_msgs'[Len(chat_msgs) + 1] = e
       /\ \A j \in 1..Len(chat_msgs) : chat_msgs'[j] = chat_msgs[j]
  BY <1>2, <1>4, <1>8, AppendFacts
<1>11. \A j \in 1..Len(chat_msgs') : j \in 1..Len(chat_msgs) \/ j = Len(chat_msgs) + 1
  BY <1>4, <1>10
<1>12. ReplayExact'
  <2> SUFFICES ASSUME NEW j \in 1..Len(chat_msgs'), chat_msgs'[j].text # NoText
               PROVE  \A x \in chat_msgs'[j].ids : said[x] = chat_msgs'[j].text
    BY <1>2 DEF ReplayExact
  <2>1. CASE j \in 1..Len(chat_msgs) BY <1>1, <1>10, <2>1 DEF ReplayExact
  <2>2. CASE j = Len(chat_msgs) + 1 BY <1>6, <1>9, <1>10, <2>2
  <2> QED BY <1>11, <2>1, <2>2
<1>13. OpOK' BY <1>7 DEF OpOK
<1>14. mem' = mem \/ \E x \in CallIds : mem.by_id[x] # NoText /\ mem' = touch(mem, x)
  BY <1>2, <1>6
<1> QED BY <1>2, <1>7, <1>10, <1>12, <1>13, <1>14, ReplayKeeps DEF Msg

-----------------------------------------------------------------------------
(* The theorems *)

LEMMA NextIInv == IInv /\ [Next]_vars => IInv'
<1> SUFFICES ASSUME IInv, [Next]_vars PROVE IInv'
  OBVIOUS
<1>1. ASSUME NEW ids \in IdLists, NEW text \in Texts, Remember(ids, text) PROVE IInv'
  BY <1>1, RememberStep
<1>2. ASSUME NEW format \in {"chat", "responses"}, NEW ids \in IdLists, Replay(format, ids)
      PROVE  IInv'
  BY <1>2, ReplayStep
<1>3. CASE Associate BY <1>3, AssociateStep
<1>4. CASE Prune BY <1>4, PruneStep
<1>5. CASE Pruned BY <1>5, PrunedStep
<1>6. CASE ReplayChat BY <1>6, ReplayChatStep
<1>7. CASE ReplayChatEnd BY <1>7, ReplayChatEndStep
<1>8. CASE ReplayItem BY <1>8, ReplayItemStep
<1>9. CASE UNCHANGED vars
  <2>1. mem' = mem /\ op' = op /\ chat_msgs' = chat_msgs /\ said' = said BY <1>9 DEF vars
  <2>2. TypeOK' BY <2>1 DEF IInv, TypeOK
  <2>3. BlocksOK(mem', Filling') BY <2>1 DEF IInv, Filling
  <2>4. Current' /\ OpOK' BY <2>1 DEF IInv, Current, OpOK
  <2>5. EntriesOK' /\ ReplayExact' BY <2>1 DEF IInv, EntriesOK, ReplayExact
  <2> QED BY <2>1, <2>2, <2>3, <2>4, <2>5 DEF IInv
<1> QED BY <1>1, <1>2, <1>3, <1>4, <1>5, <1>6, <1>7, <1>8, <1>9 DEF Next

-----------------------------------------------------------------------------
(* The order of the list *)

\* The ids of the turn being remembered are the most recently used ones.
TurnLast(s, D) == \A i, j \in 1..Len(s) : i < j /\ s[i] \in D => s[j] \in D

NewestLast == op.call = "remember" => TurnLast(mem.lru, op.done)

\* Unlisting keeps the others in their order.
LEMMA UnlistOrder ==
  ASSUME NEW s \in Seq(CallIds), NEW id, NEW D, TurnLast(s, D)
  PROVE  TurnLast(Unlist(s, id), D)
<1>1. CASE ~Listed(s, id) BY <1>1 DEF Unlist
<1>2. CASE Listed(s, id)
  <2> DEFINE p == CHOOSE i \in 1..Len(s) : s[i] = id
             r == RemoveAt(s, p)
  <2>1. p \in 1..Len(s) BY <1>2 DEF Listed
  <2>2. Unlist(s, id) = r BY <1>2 DEF Unlist
  <2> HIDE DEF p
  <2>3. /\ Len(r) = Len(s) - 1
        /\ \A j \in 1..(p - 1) : r[j] = s[j]
        /\ \A j \in p..(Len(s) - 1) : r[j] = s[j + 1]
    BY <2>1, RemoveAtFacts
  <2> HIDE DEF r
  <2>4. Len(s) \in Nat /\ p \in Nat BY <2>1
  <2>5. ASSUME NEW j \in 1..Len(r)
        PROVE  \E k \in 1..Len(s) : r[j] = s[k] /\ k = IF j < p THEN j ELSE j + 1
    <3>1. CASE j < p
      <4>1. j \in 1..(p - 1) /\ j \in 1..Len(s) BY <2>3, <2>4, <3>1
      <4> QED BY <2>3, <3>1, <4>1
    <3>2. CASE ~(j < p)
      <4>1. j \in p..(Len(s) - 1) /\ j + 1 \in 1..Len(s) BY <2>3, <2>4, <3>2
      <4> QED BY <2>3, <3>2, <4>1
    <3> QED BY <3>1, <3>2
  <2>6. ASSUME NEW i \in 1..Len(r), NEW j \in 1..Len(r), i < j, r[i] \in D
        PROVE  r[j] \in D
    <3>1. PICK k \in 1..Len(s) : r[i] = s[k] /\ k = IF i < p THEN i ELSE i + 1 BY <2>5
    <3>2. PICK l \in 1..Len(s) : r[j] = s[l] /\ l = IF j < p THEN j ELSE j + 1 BY <2>5
    <3>3. k < l BY <2>3, <2>4, <2>6, <3>1, <3>2
    <3> QED BY <2>6, <3>1, <3>2, <3>3 DEF TurnLast
  <2> QED BY <2>2, <2>6 DEF TurnLast
<1> QED BY <1>1, <1>2

\* An id that was touched belongs to the turn and is the last of the list.
LEMMA RelistOrder ==
  ASSUME NEW s \in Seq(CallIds), Injective(s), NEW id \in CallIds, NEW D, TurnLast(s, D)
  PROVE  TurnLast(Append(Unlist(s, id), id), D \cup {id})
<1> DEFINE u == Unlist(s, id)
           a == Append(u, id)
<1>1. u \in Seq(CallIds) /\ \A x \in CallIds : Listed(u, x) => x # id BY UnlistFacts
<1>2. TurnLast(u, D) BY UnlistOrder
<1> HIDE DEF u
<1>3. /\ Len(a) = Len(u) + 1 /\ a[Len(u) + 1] = id
      /\ \A j \in 1..Len(u) : a[j] = u[j] /\ a[j] # id
  <2>1. \A j \in 1..Len(u) : u[j] \in CallIds /\ Listed(u, u[j]) BY <1>1 DEF Listed
  <2> QED BY <1>1, <2>1, AppendFacts
<1>4. Len(u) \in Nat BY <1>1
<1> HIDE DEF a
<1>5. ASSUME NEW i \in 1..Len(a), NEW j \in 1..Len(a), i < j, a[i] \in D \cup {id}
      PROVE  a[j] \in D \cup {id}
  <2>1. i \in 1..Len(u) BY <1>3, <1>4, <1>5
  <2>2. u[i] \in D BY <1>3, <1>5, <2>1
  <2>3. CASE j = Len(u) + 1 BY <1>3, <2>3
  <2>4. CASE j \in 1..Len(u) BY <1>2, <1>3, <1>5, <2>1, <2>2, <2>4 DEF TurnLast
  <2> QED BY <1>3, <1>4, <2>3, <2>4
<1> QED BY <1>5 DEF TurnLast, a, u

\* What the operations do to the list.
LEMMA LruFacts ==
  ASSUME NEW m, MemType(m), NEW id \in CallIds, NEW t \in Texts
  PROVE  /\ touch(m, id).lru = Append(Unlist(m.lru, id), id)
         /\ Enter(m, id, t).lru = Append(Unlist(m.lru, id), id)
         /\ m.by_id[id] # NoText => drop_entry(m, id).lru = Unlist(m.lru, id)
<1>1. touch(m, id).lru = Append(Unlist(m.lru, id), id) BY DEF touch, MemType
<1>2. Enter(m, id, t).lru = Append(Unlist(m.lru, id), id)
  <2> DEFINE n == [m EXCEPT !.by_id[id] = t, !.total = @ + Size[t], !.refs[t] = @ + 1]
  <2>1. DOMAIN n = DOMAIN m /\ "lru" \in DOMAIN n /\ n.lru = m.lru BY DEF MemType
  <2>2. Enter(m, id, t) = touch(n, id) BY DEF Enter
  <2> HIDE DEF n
  <2>3. touch(n, id).lru = Append(Unlist(n.lru, id), id) BY <2>1 DEF touch
  <2> QED BY <2>1, <2>2, <2>3
<1>3. m.by_id[id] # NoText => drop_entry(m, id).lru = Unlist(m.lru, id)
  BY DEF drop_entry, MemType
<1> QED BY <1>1, <1>2, <1>3

LEMMA NewestLastStep == IInv /\ NewestLast /\ [Next]_vars => NewestLast'
<1> SUFFICES ASSUME IInv, NewestLast, [Next]_vars, op'.call = "remember"
             PROVE  TurnLast(mem'.lru, op'.done)
  BY DEF NewestLast, TurnLast
<1>1. /\ TypeOK /\ MemOK(mem) /\ MemType(mem) /\ ListOK(mem) /\ OpOK
      /\ mem.lru \in Seq(CallIds) /\ Injective(mem.lru)
  BY OpFacts DEF IInv, MemOK, TypeOK, ListOK
<1>2. CASE Associate
  <2> DEFINE id == Head(op.todo)
             D == op.done \cup {id}
             a == Append(Unlist(mem.lru, id), id)
  <2>1. /\ op.call = "remember" /\ op.todo # <<>>
        /\ op'.done = IF id = NoId THEN op.done ELSE D
    BY <1>1, <1>2 DEF Associate, TypeOK
  <2>2. TurnLast(mem.lru, op.done) BY <2>1 DEF NewestLast
  <2>3. CASE id = NoId \/ id \in op.done
    <3>1. mem' = mem BY <1>2, <2>3 DEF Associate
    <3>2. op'.done = op.done BY <2>1, <2>3
    <3> QED BY <2>2, <3>1, <3>2
  <2>4. CASE ~(id = NoId \/ id \in op.done)
    <3>1. id \in CallIds /\ op.text \in Texts BY <1>1, <2>1, <2>4 DEF TypeOK, OpOK
    <3>2. mem' = CASE mem.by_id[id] = op.text -> touch(mem, id)
                   [] mem.by_id[id] = NoText -> Enter(mem, id, op.text)
                   [] OTHER -> Enter(drop_entry(mem, id), id, op.text)
      BY <1>2, <2>4 DEF Associate
    <3>3. NoText # op.text BY <3>1, TextAssumption
    <3> HIDE DEF id
    <3>4. CASE mem.by_id[id] = op.text \/ mem.by_id[id] = NoText
      <4>1. mem' = touch(mem, id) \/ mem' = Enter(mem, id, op.text) BY <3>2, <3>3, <3>4
      <4>2. mem'.lru = a BY <1>1, <3>1, <4>1, LruFacts
      <4>3. TurnLast(a, D) BY <1>1, <2>2, <3>1, RelistOrder
      <4> QED BY <2>1, <2>4, <4>2, <4>3
    <3>5. CASE ~(mem.by_id[id] = op.text \/ mem.by_id[id] = NoText)
      <4> DEFINE n == drop_entry(mem, id)
      <4>1. mem' = Enter(n, id, op.text) BY <3>2, <3>5
      <4>2. MemOK(n) /\ n.lru = Unlist(mem.lru, id) BY <1>1, <3>1, <3>5, DropFacts, LruFacts
      <4> HIDE DEF n
      <4>3. n.lru \in Seq(CallIds) /\ Injective(n.lru) /\ MemType(n)
        BY <4>2 DEF MemOK, MemType, ListOK
      <4>4. TurnLast(n.lru, op.done) BY <1>1, <2>2, <4>2, UnlistOrder
      <4>5. mem'.lru = Append(Unlist(n.lru, id), id) BY <3>1, <4>1, <4>3, LruFacts
      <4>6. TurnLast(mem'.lru, D) BY <3>1, <4>3, <4>4, <4>5, RelistOrder
      <4> QED BY <2>1, <2>4, <4>6
    <3> QED BY <3>4, <3>5
  <2> QED BY <2>3, <2>4
<1>3. CASE Prune
  <2>1. /\ op.call = "remember" /\ op' = op /\ mem.lru # <<>>
        /\ mem' = drop_entry(mem, Head(mem.lru))
    BY <1>3 DEF Prune, OverLimit
  <2>2. TurnLast(mem.lru, op.done) BY <2>1 DEF NewestLast
  <2>3. Head(mem.lru) \in CallIds /\ Listed(mem.lru, Head(mem.lru))
    BY <1>1, <2>1 DEF Listed
  <2>4. mem.by_id[Head(mem.lru)] # NoText BY <1>1, <2>3 DEF ListOK
  <2>5. PICK t : t \in Texts BY <1>1, <2>1 DEF OpOK
  <2>6. mem'.lru = Unlist(mem.lru, Head(mem.lru)) BY <1>1, <2>1, <2>3, <2>4, <2>5, LruFacts
  <2> QED BY <1>1, <2>1, <2>2, <2>6, UnlistOrder
<1>4. CASE \E ids \in IdLists, text \in Texts : Remember(ids, text)
  <2>1. op'.done = {} BY <1>4 DEF Remember
  <2> QED BY <2>1 DEF TurnLast
<1>5. CASE \E format \in {"chat", "responses"}, ids \in IdLists : Replay(format, ids)
  BY <1>5 DEF Replay
<1>6. CASE Pruned \/ ReplayChatEnd BY <1>6 DEF Pruned, ReplayChatEnd, Idle
<1>8. CASE ReplayItem
  <2>1. op.call = "responses" /\ (op' = Idle \/ op' = [op EXCEPT !.todo = Tail(@)])
    BY <1>8 DEF ReplayItem
  <2> QED BY <1>1, <2>1, SMTT(20) DEF Idle, TypeOK
<1>9. CASE ReplayChat
  <2> DEFINE id == Head(op.todo)
             met == op.done = {} \/ mem.by_id[id] = op.text
  <2>1. op.call = "chat" BY <1>9 DEF ReplayChat
  <2>2. CASE id = NoId
    <3>1. op' = [op EXCEPT !.todo = Tail(@)] BY <1>9, <2>2, IdAssumption DEF ReplayChat, Known
    <3> QED BY <1>1, <2>1, <3>1 DEF TypeOK
  <2>3. CASE id # NoId /\ id \in Known(mem) /\ met
    <3>1. op' = [op EXCEPT !.todo = Tail(@), !.done = @ \cup {id}, !.text = mem.by_id[id]]
      BY <1>9, <2>3 DEF ReplayChat
    <3> QED BY <1>1, <2>1, <3>1 DEF TypeOK
  <2>4. CASE id # NoId /\ ~(id \in Known(mem) /\ met)
    <3>1. op' = Idle BY <1>9, <2>4 DEF ReplayChat
    <3> QED BY <3>1 DEF Idle
  <2> QED BY <2>2, <2>3, <2>4
<1>7. CASE UNCHANGED vars BY <1>7 DEF vars, NewestLast
<1> QED BY <1>2, <1>3, <1>4, <1>5, <1>6, <1>7, <1>8, <1>9 DEF Next

\* prune() drops the head of the list: if that is an id of the turn, all of them are.
LEMMA PruneSparesTurn ==
  ASSUME IInv, NewestLast, [Next]_vars, op.call = "remember", op.todo = <<>>,
         NEW id \in op.done, mem.by_id[id] # NoText, mem'.by_id[id] = NoText
  PROVE  Known(mem) \subseteq op.done
<1>1. /\ TypeOK /\ MemOK(mem) /\ ListOK(mem) /\ mem.lru \in Seq(CallIds)
  BY OpFacts DEF IInv, MemOK, TypeOK
<1>2. Prune
  <2>1. mem' # mem OBVIOUS
  <2> QED BY <2>1 DEF Next, Remember, Replay, Associate, Pruned, ReplayChat, ReplayChatEnd,
                      ReplayItem, vars
<1> DEFINE h == Head(mem.lru)
<1>3. mem.lru # <<>> /\ mem' = drop_entry(mem, h) BY <1>2 DEF Prune, OverLimit
<1>4. h = mem.lru[1] /\ 1 \in 1..Len(mem.lru) /\ h \in CallIds BY <1>1, <1>3
<1>5. Listed(mem.lru, h) BY <1>4 DEF Listed
<1>6. mem.by_id[h] # NoText BY <1>1, <1>4, <1>5 DEF ListOK
<1>7. mem'.by_id = [mem.by_id EXCEPT ![h] = NoText] BY <1>1, <1>3, <1>4, <1>6, DropFacts
<1> HIDE DEF h
<1>8. id = h
  <2>1. id \in CallIds /\ mem.by_id \in [CallIds -> Texts \cup {NoText}]
    BY <1>1 DEF TypeOK
  <2> QED BY <1>7, <2>1
<1>9. ASSUME NEW x \in Known(mem) PROVE x \in op.done
  <2>1. x \in CallIds /\ mem.by_id[x] # NoText BY DEF Known
  <2>2. PICK j \in 1..Len(mem.lru) : mem.lru[j] = x BY <1>1, <2>1 DEF ListOK, Listed
  <2>3. CASE j = 1 BY <1>4, <1>8, <2>2, <2>3
  <2>4. CASE 1 < j BY <1>4, <1>8, <2>2, <2>4 DEF NewestLast, TurnLast
  <2> QED BY <2>3, <2>4
<1> QED BY <1>9

-----------------------------------------------------------------------------
(* The byte counter *)

\* The sizes of the copies in by_id_.
Copies(m) == [id \in Known(m) |-> Size[m.by_id[id]]]

\* The counter is exact, for a memory with finitely many texts.
BytesOK(m) ==
  /\ IsFiniteSet(m.blocks)
  /\ m.total = Tally(Size, m.blocks) + Tally(Copies(m), Known(m))

LEMMA BytesTypes ==
  ASSUME NEW m, MemType(m)
  PROVE  /\ IsFiniteSet(Known(m))
         /\ \A id \in Known(m) : Copies(m)[id] = Size[m.by_id[id]] /\ Copies(m)[id] \in Nat
         /\ Tally(Copies(m), Known(m)) \in Nat
         /\ \A t \in m.blocks : Size[t] \in Nat
         /\ IsFiniteSet(m.blocks) => Tally(Size, m.blocks) \in Nat
<1>1. Known(m) \subseteq CallIds BY DEF Known
<1>2. IsFiniteSet(Known(m)) BY <1>1, IdAssumption, FS_Subset
<1>3. \A id \in Known(m) : Copies(m)[id] = Size[m.by_id[id]] /\ Copies(m)[id] \in Nat
  <2>1. \A id \in Known(m) : m.by_id[id] \in Texts BY DEF Known, MemType
  <2> QED BY <2>1, TextAssumption DEF Copies
<1>4. Tally(Copies(m), Known(m)) \in Nat BY <1>2, <1>3, TallyType
<1>5. \A t \in m.blocks : Size[t] \in Nat BY TextAssumption DEF MemType
<1>6. IsFiniteSet(m.blocks) => Tally(Size, m.blocks) \in Nat BY <1>5, TallyType
<1> QED BY <1>2, <1>3, <1>4, <1>5, <1>6

\* Nothing that the counter depends on has changed.
LEMMA SameBytes ==
  ASSUME NEW m, NEW n, BytesOK(m),
         n.blocks = m.blocks, n.by_id = m.by_id, n.total = m.total
  PROVE  BytesOK(n)
<1>1. Known(n) = Known(m) BY DEF Known
<1>2. Copies(n) = Copies(m) BY <1>1 DEF Copies
<1> QED BY <1>1, <1>2 DEF BytesOK

\* A new block costs its bytes.
LEMMA BlockBytes ==
  ASSUME NEW m, MemType(m), BytesOK(m), NEW t \in Texts, NEW n, n.by_id = m.by_id,
         n.blocks = m.blocks \cup {t},
         n.total = IF t \in m.blocks THEN m.total ELSE m.total + Size[t]
  PROVE  BytesOK(n)
<1>1. CASE t \in m.blocks
  <2>1. n.blocks = m.blocks /\ n.total = m.total BY <1>1
  <2> QED BY <2>1, SameBytes
<1>2. CASE t \notin m.blocks
  <2> DEFINE B == m.blocks
  <2>1. Known(n) = Known(m) BY DEF Known
  <2>2. Copies(n) = Copies(m) BY <2>1 DEF Copies
  <2>3. IsFiniteSet(B) /\ IsFiniteSet(B \cup {t}) BY FS_AddElement DEF BytesOK
  <2>4. (\A x \in B : Size[x] \in Nat) /\ Size[t] \in Nat BY BytesTypes, TextAssumption
  <2>5. t \notin B BY <1>2
  <2> HIDE DEF B
  <2>6. Tally(Size, B \cup {t}) = Tally(Size, B) + Size[t] BY <2>3, <2>4, <2>5, TallyAdd
  <2>7. Tally(Size, B) \in Nat /\ Tally(Copies(m), Known(m)) \in Nat
    BY <2>3, BytesTypes DEF B
  <2>8. m.total = Tally(Size, B) + Tally(Copies(m), Known(m)) BY DEF BytesOK, B
  <2>9. n.total = m.total + Size[t] /\ n.blocks = B \cup {t} BY <1>2 DEF B
  <2>10. n.total = Tally(Size, B \cup {t}) + Tally(Copies(m), Known(m))
    BY <2>4, <2>6, <2>7, <2>8, <2>9
  <2> QED BY <2>1, <2>2, <2>3, <2>9, <2>10 DEF BytesOK
<1> QED BY <1>1, <1>2

\* touch() costs nothing.
LEMMA TouchBytes ==
  ASSUME NEW m, MemType(m), BytesOK(m), NEW id
  PROVE  BytesOK(touch(m, id))
<1> DEFINE n == touch(m, id)
<1>1. n.blocks = m.blocks /\ n.by_id = m.by_id /\ n.total = m.total BY DEF touch, MemType
<1> HIDE DEF n
<1> QED BY <1>1, SameBytes DEF n

\* The fields that matter here after Enter and drop_entry.
LEMMA EnterFields ==
  ASSUME NEW m, MemType(m), NEW id \in CallIds, NEW t \in Texts
  PROVE  /\ Enter(m, id, t).blocks = m.blocks
         /\ Enter(m, id, t).by_id = [m.by_id EXCEPT ![id] = t]
         /\ Enter(m, id, t).total = m.total + Size[t]
<1> DEFINE e1 == [m EXCEPT !.by_id[id] = t]
           e2 == [e1 EXCEPT !.total = @ + Size[t]]
           e3 == [e2 EXCEPT !.refs[t] = @ + 1]
           e == [m EXCEPT !.by_id[id] = t, !.total = @ + Size[t], !.refs[t] = @ + 1]
<1>1. m = [blocks |-> m.blocks, refs |-> m.refs, by_id |-> m.by_id, lru |-> m.lru,
           total |-> m.total]
  BY DEF MemType
<1>2. e1 = [blocks |-> m.blocks, refs |-> m.refs, by_id |-> [m.by_id EXCEPT ![id] = t],
            lru |-> m.lru, total |-> m.total]
  BY <1>1
<1>3. e = e3 OBVIOUS
<1> HIDE DEF e1
<1>4. e2 = [blocks |-> m.blocks, refs |-> m.refs, by_id |-> [m.by_id EXCEPT ![id] = t],
            lru |-> m.lru, total |-> m.total + Size[t]]
  BY <1>2
<1> HIDE DEF e2
<1>5. /\ e3.blocks = m.blocks /\ e3.by_id = [m.by_id EXCEPT ![id] = t]
      /\ e3.total = m.total + Size[t] /\ DOMAIN e3 = DOMAIN e2
  BY <1>4
<1>6. e3 = [blocks |-> m.blocks, refs |-> e3.refs, by_id |-> [m.by_id EXCEPT ![id] = t],
            lru |-> m.lru, total |-> m.total + Size[t]]
  BY <1>4
<1> HIDE DEF e3
<1>7. Enter(m, id, t) = [e3 EXCEPT !.lru = Append(Unlist(e3.lru, id), id)]
  BY <1>3 DEF Enter, touch
<1> QED BY <1>5, <1>6, <1>7

LEMMA DropFields ==
  ASSUME NEW m, MemType(m), NEW id \in CallIds, m.by_id[id] # NoText
  PROVE  LET t == m.by_id[id]
             n == drop_entry(m, id)
         IN /\ n.blocks = IF LastRef(m, t) THEN m.blocks \ {t} ELSE m.blocks
            /\ n.by_id = [m.by_id EXCEPT ![id] = NoText]
            /\ n.total = Monus(IF LastRef(m, t) THEN Monus(m.total, Size[t]) ELSE m.total, Size[t])
BY DEF drop_entry, MemType

\* The copy of an id entered costs the bytes of its text.
LEMMA EnterBytes ==
  ASSUME NEW m, MemType(m), BytesOK(m), NEW id \in CallIds, m.by_id[id] = NoText, NEW t \in Texts
  PROVE  BytesOK(Enter(m, id, t))
<1> DEFINE n == Enter(m, id, t)
           K == Known(m)
<1>1. /\ n.blocks = m.blocks /\ n.by_id = [m.by_id EXCEPT ![id] = t]
      /\ n.total = m.total + Size[t]
  BY EnterFields
<1> HIDE DEF n
<1>2. m.by_id \in [CallIds -> Texts \cup {NoText}] /\ t # NoText BY TextAssumption DEF MemType
<1>3. Known(n) = K \cup {id} /\ id \notin K BY <1>1, <1>2 DEF Known
<1>4. Copies(n)[id] = Size[t] /\ \A x \in K : Copies(n)[x] = Copies(m)[x]
  <2>1. \A x \in K : x \in CallIds /\ x # id /\ n.by_id[x] = m.by_id[x]
    BY <1>1, <1>2, <1>3 DEF Known
  <2>2. n.by_id[id] = t BY <1>1, <1>2
  <2> QED BY <1>3, <2>1, <2>2 DEF Copies
<1>5. /\ IsFiniteSet(K) /\ \A x \in K : Copies(m)[x] \in Nat
      /\ Tally(Copies(m), K) \in Nat /\ Size[t] \in Nat
  BY BytesTypes, TextAssumption
<1>6. IsFiniteSet(m.blocks) /\ Tally(Size, m.blocks) \in Nat BY BytesTypes DEF BytesOK
<1>7. m.total = Tally(Size, m.blocks) + Tally(Copies(m), K) BY DEF BytesOK
<1> HIDE DEF K
<1>8. Tally(Copies(n), K \cup {id}) = Tally(Copies(n), K) + Copies(n)[id]
  <2>1. (\A x \in K : Copies(n)[x] \in Nat) /\ Copies(n)[id] \in Nat BY <1>4, <1>5
  <2> QED BY <1>3, <1>5, <2>1, TallyAdd
<1>9. Tally(Copies(n), K) = Tally(Copies(m), K) BY <1>4, TallySame
<1>10. n.total = Tally(Size, m.blocks) + Tally(Copies(n), K \cup {id})
  BY <1>1, <1>4, <1>5, <1>6, <1>7, <1>8, <1>9
<1> QED BY <1>1, <1>3, <1>6, <1>10 DEF BytesOK, n

\* drop_entry() gives back what the copy and, with its last reference, the block cost:
\* neither subtraction has to stop at 0.
LEMMA DropBytes ==
  ASSUME NEW m, MemType(m), BytesOK(m), NEW id \in CallIds, m.by_id[id] # NoText
  PROVE  BytesOK(drop_entry(m, id))
<1> DEFINE n == drop_entry(m, id)
           t == m.by_id[id]
           K == Known(m)
           B == m.blocks
           z == Size[t]
<1>1. /\ n.blocks = IF LastRef(m, t) THEN B \ {t} ELSE B
      /\ n.by_id = [m.by_id EXCEPT ![id] = NoText]
      /\ n.total = Monus(IF LastRef(m, t) THEN Monus(m.total, z) ELSE m.total, z)
  BY DropFields
<1> HIDE DEF n
<1>2. m.by_id \in [CallIds -> Texts \cup {NoText}] BY DEF MemType
<1>3. t \in Texts /\ z \in Nat /\ id \in K BY <1>2, TextAssumption DEF Known
<1>4. Known(n) = K \ {id} BY <1>1, <1>2 DEF Known
<1>5. Copies(m)[id] = z /\ \A x \in K \ {id} : Copies(n)[x] = Copies(m)[x]
  <2>1. \A x \in K \ {id} : x \in CallIds /\ n.by_id[x] = m.by_id[x] BY <1>1, <1>2 DEF Known
  <2> QED BY <1>3, <1>4, <2>1 DEF Copies
<1>6. /\ IsFiniteSet(K) /\ \A x \in K : Copies(m)[x] \in Nat
      /\ \A x \in B : Size[x] \in Nat
  BY BytesTypes
<1>7. IsFiniteSet(B) /\ m.total = Tally(Size, B) + Tally(Copies(m), K) BY DEF BytesOK
<1>8. LastRef(m, t) => t \in B BY DEF LastRef
<1> HIDE DEF K, B, t, z
<1>9. Tally(Copies(m), K) = Tally(Copies(m), K \ {id}) + z BY <1>3, <1>5, <1>6, TallyRemove
<1>10. Tally(Copies(n), K \ {id}) = Tally(Copies(m), K \ {id}) BY <1>5, TallySame
<1> DEFINE c == Tally(Copies(n), K \ {id})
<1>11. c \in Nat
  <2>1. IsFiniteSet(K \ {id}) BY <1>6, FS_RemoveElement
  <2>2. \A x \in K \ {id} : Copies(n)[x] \in Nat BY <1>5, <1>6
  <2> QED BY <2>1, <2>2, TallyType
<1>12. Tally(Copies(m), K) = c + z BY <1>9, <1>10
<1> HIDE DEF c
<1>13. ASSUME LastRef(m, t) PROVE BytesOK(n)
  <2> DEFINE b == Tally(Size, B \ {t})
  <2>1. IsFiniteSet(B \ {t}) BY <1>7, FS_RemoveElement
  <2>2. b \in Nat BY <1>6, <2>1, TallyType
  <2>3. Tally(Size, B) = b + z BY <1>6, <1>7, <1>8, <1>13, TallyRemove DEF z
  <2> HIDE DEF b
  <2>4. m.total = (b + z) + (c + z) BY <1>7, <1>12, <2>3
  <2>5. Monus(m.total, z) = b + z + c BY <1>3, <1>11, <2>2, <2>4 DEF Monus
  <2>6. n.total = b + c BY <1>1, <1>3, <1>11, <1>13, <2>2, <2>5 DEF Monus
  <2>7. n.blocks = B \ {t} BY <1>1, <1>13
  <2>8. n.total = Tally(Size, B \ {t}) + Tally(Copies(n), K \ {id}) BY <2>6 DEF b, c
  <2> QED BY <1>4, <2>1, <2>7, <2>8 DEF BytesOK
<1>14. ASSUME ~LastRef(m, t) PROVE BytesOK(n)
  <2> DEFINE b == Tally(Size, B)
  <2>1. b \in Nat BY <1>6, <1>7, TallyType
  <2>2. m.total = b + (c + z) BY <1>7, <1>12
  <2> HIDE DEF b
  <2>3. n.total = b + c BY <1>1, <1>3, <1>11, <1>14, <2>1, <2>2 DEF Monus
  <2>4. n.blocks = B BY <1>1, <1>14
  <2>5. n.total = Tally(Size, B) + Tally(Copies(n), K \ {id}) BY <2>3 DEF b, c
  <2> QED BY <1>4, <1>7, <2>4, <2>5 DEF BytesOK
<1> QED BY <1>13, <1>14 DEF n

\* While no remember() is under way the counter is within its limit.
BytesBounded == op.call # "remember" => mem.total <= MaxBytes

BytesInv == BytesOK(mem) /\ BytesBounded

LEMMA InitBytes == Init => BytesInv
<1> SUFFICES ASSUME Init PROVE BytesInv OBVIOUS
<1>1. mem.blocks = {} /\ mem.by_id = [id \in CallIds |-> NoText] /\ mem.total = 0 BY DEF Init
<1>2. Known(mem) = {} BY <1>1 DEF Known
<1>3. BytesOK(mem)
  <2>1. Tally(Size, {}) = 0 /\ Tally(Copies(mem), {}) = 0 BY TallyEmpty
  <2> QED BY <1>1, <1>2, <2>1, FS_EmptySet DEF BytesOK
<1> QED BY <1>1, <1>3, LimitAssumption DEF BytesInv, BytesBounded

\* prune() ends within the byte limit: either by its condition, or because no id, and
\* with the ids no block, is left.
LEMMA PrunedBytes == ASSUME IInv, BytesInv, Pruned PROVE mem.total <= MaxBytes
<1>1. /\ TypeOK /\ ListOK(mem) /\ RefsOK(mem) /\ BlocksOK(mem, Filling) /\ OpOK
  BY DEF IInv
<1>2. op.call = "remember" /\ op.todo = <<>> /\ ~OverLimit BY DEF Pruned
<1>3. ~disabled /\ op.done # {} BY <1>1, <1>2 DEF OpOK
<1>4. CASE Known(mem) = {}
  <2>1. \A t \in Texts : IdsOf(mem, t) = {}
    <3>1. \A id \in CallIds : mem.by_id[id] = NoText BY <1>4 DEF Known
    <3> QED BY <3>1, TextAssumption DEF IdsOf
  <2>2. \A t \in Texts : mem.refs[t] = 0 BY <1>1, <2>1, FS_EmptySet DEF RefsOK
  <2>3. Filling = NoText BY <1>3 DEF Filling
  <2>4. mem.blocks = {}
    <3>1. \A t \in mem.blocks : t \in Texts /\ t # NoText BY <1>1, TextAssumption DEF TypeOK
    <3> QED BY <1>1, <2>2, <2>3, <3>1 DEF BlocksOK
  <2>5. Tally(Size, {}) = 0 /\ Tally(Copies(mem), {}) = 0 BY TallyEmpty
  <2>6. mem.total = 0 BY <1>4, <2>4, <2>5 DEF BytesInv, BytesOK
  <2> QED BY <2>6, LimitAssumption
<1>5. CASE Known(mem) # {}
  <2>1. PICK id \in CallIds : mem.by_id[id] # NoText BY <1>5 DEF Known
  <2>2. mem.lru # <<>> BY <1>1, <2>1 DEF ListOK, Listed
  <2>3. MaxBytes > 0 BY <1>3, LimitAssumption DEF disabled
  <2>4. ~(mem.total > MaxBytes) BY <1>2, <1>5, <2>2, <2>3 DEF OverLimit
  <2>5. mem.total \in Nat BY <1>1 DEF TypeOK
  <2> QED BY <2>4, <2>5, LimitAssumption
<1> QED BY <1>4, <1>5

LEMMA NextBytes == IInv /\ BytesInv /\ [Next]_vars => BytesInv'
<1> SUFFICES ASSUME IInv, BytesInv, [Next]_vars PROVE BytesInv' OBVIOUS
<1>1. /\ TypeOK /\ MemOK(mem) /\ MemType(mem) /\ ListOK(mem) /\ OpOK
      /\ mem.lru \in Seq(CallIds) /\ BytesOK(mem) /\ BytesBounded
  BY OpFacts DEF IInv, MemOK, TypeOK, BytesInv
<1>2. ASSUME NEW ids \in IdLists, NEW text \in Texts, Remember(ids, text) PROVE BytesInv'
  <2>1. /\ mem'.blocks = mem.blocks \cup {text} /\ mem'.by_id = mem.by_id
        /\ mem'.total = IF text \in mem.blocks THEN mem.total ELSE mem.total + Size[text]
    BY <1>1, <1>2 DEF Remember, MemType
  <2>2. BytesOK(mem') BY <1>1, <2>1, BlockBytes
  <2>3. op'.call = "remember" BY <1>2 DEF Remember
  <2> QED BY <2>2, <2>3 DEF BytesInv, BytesBounded
<1>3. CASE Associate
  <2> DEFINE id == Head(op.todo)
  <2>1. op.call = "remember" /\ op.todo # <<>> /\ op'.call = "remember"
    BY <1>1, <1>3 DEF Associate, TypeOK
  <2>2. CASE id = NoId \/ id \in op.done
    <3>1. mem' = mem BY <1>3, <2>2 DEF Associate
    <3> QED BY <1>1, <2>1, <3>1 DEF BytesInv, BytesBounded
  <2>3. CASE ~(id = NoId \/ id \in op.done)
    <3>1. id \in CallIds /\ op.text \in Texts /\ op.text # NoText
      BY <1>1, <2>1, <2>3, TextAssumption DEF TypeOK, OpOK
    <3>2. mem' = CASE mem.by_id[id] = op.text -> touch(mem, id)
                   [] mem.by_id[id] = NoText -> Enter(mem, id, op.text)
                   [] OTHER -> Enter(drop_entry(mem, id), id, op.text)
      BY <1>3, <2>3 DEF Associate
    <3> HIDE DEF id
    <3>3. CASE mem.by_id[id] = op.text
      <4>1. mem' = touch(mem, id) BY <3>1, <3>2, <3>3
      <4> QED BY <1>1, <2>1, <4>1, TouchBytes DEF BytesInv, BytesBounded
    <3>4. CASE mem.by_id[id] = NoText
      <4>1. mem' = Enter(mem, id, op.text) BY <3>1, <3>2, <3>4
      <4> QED BY <1>1, <2>1, <3>1, <3>4, <4>1, EnterBytes DEF BytesInv, BytesBounded
    <3>5. CASE mem.by_id[id] # op.text /\ mem.by_id[id] # NoText
      <4> DEFINE d == drop_entry(mem, id)
      <4>1. mem' = Enter(d, id, op.text) BY <3>2, <3>5
      <4>2. BytesOK(d) BY <1>1, <3>1, <3>5, DropBytes
      <4>3. MemOK(d) /\ d.by_id = [mem.by_id EXCEPT ![id] = NoText]
        BY <1>1, <3>1, <3>5, DropFacts
      <4> HIDE DEF d
      <4>4. MemType(d) /\ d.by_id[id] = NoText BY <1>1, <3>1, <4>3 DEF MemOK, MemType
      <4>5. BytesOK(mem') BY <3>1, <4>1, <4>2, <4>4, EnterBytes
      <4> QED BY <2>1, <4>5 DEF BytesInv, BytesBounded
    <3> QED BY <3>3, <3>4, <3>5
  <2> QED BY <2>2, <2>3
<1>4. CASE Prune
  <2>1. /\ op.call = "remember" /\ op' = op /\ mem.lru # <<>>
        /\ mem' = drop_entry(mem, Head(mem.lru))
    BY <1>4 DEF Prune, OverLimit
  <2>2. Head(mem.lru) \in CallIds /\ Listed(mem.lru, Head(mem.lru)) BY <1>1, <2>1 DEF Listed
  <2>3. mem.by_id[Head(mem.lru)] # NoText BY <1>1, <2>2 DEF ListOK
  <2>4. BytesOK(mem') BY <1>1, <2>1, <2>2, <2>3, DropBytes
  <2> QED BY <2>1, <2>4 DEF BytesInv, BytesBounded
<1>5. CASE Pruned
  <2>1. mem' = mem BY <1>5 DEF Pruned
  <2> QED BY <1>1, <1>5, <2>1, PrunedBytes DEF BytesInv, BytesBounded
<1>6. ASSUME op.call # "remember", BytesOK(mem'), mem'.total = mem.total PROVE BytesInv'
  BY <1>1, <1>6 DEF BytesInv, BytesBounded
<1>7. ASSUME op.call # "remember", NEW id, mem' = touch(mem, id) PROVE BytesInv'
  <2>1. mem'.total = mem.total BY <1>1, <1>7 DEF touch, MemType
  <2> QED BY <1>1, <1>6, <1>7, <2>1, TouchBytes
<1>8. ASSUME op.call # "remember", mem' = mem PROVE BytesInv'
  BY <1>1, <1>6, <1>8
<1>9. CASE \E format \in {"chat", "responses"}, ids \in IdLists : Replay(format, ids)
  BY <1>8, <1>9 DEF Replay
<1>10. CASE ReplayChat
  <2>1. op.call = "chat" /\ (mem' = mem \/ mem' = touch(mem, Head(op.todo)))
    BY <1>10 DEF ReplayChat
  <2> QED BY <1>7, <1>8, <2>1
<1>11. CASE ReplayChatEnd BY <1>8, <1>11 DEF ReplayChatEnd
<1>12. CASE ReplayItem
  <2>1. op.call = "responses" /\ (mem' = mem \/ mem' = touch(mem, Head(op.todo)))
    BY <1>12 DEF ReplayItem
  <2> QED BY <1>7, <1>8, <2>1
<1>13. CASE UNCHANGED vars
  <2>1. mem' = mem /\ op' = op BY <1>13 DEF vars
  <2> QED BY <1>1, <2>1 DEF BytesInv, BytesBounded
<1> QED BY <1>2, <1>3, <1>4, <1>5, <1>9, <1>10, <1>11, <1>12, <1>13 DEF Next

-----------------------------------------------------------------------------
LEMMA Invariance == Spec => []IInv
BY InitIInv, NextIInv, PTL DEF Spec

\* The memory, the call in progress and the messages produced keep their types:
\* the counters of tool_memory.cpp, which are unsigned, never go below 0.
THEOREM TypeCorrectness == Spec => []TypeOK
<1>1. IInv => TypeOK BY DEF IInv
<1> QED BY <1>1, Invariance, PTL

\* The list that prune() walks holds each known id once, and no other id.
THEOREM ListAgrees == Spec => []ListMatchesIds
<1>1. IInv => ListMatchesIds BY DEF IInv, ListOK, Injective, ListMatchesIds
<1> QED BY <1>1, Invariance, PTL

\* Reference counts are exact, and no block outlives its last reference: the
\* memory does not leak texts.
THEOREM RefsAreExact == Spec => []RefsExact
<1>1. IInv => RefsExact
  <2> SUFFICES ASSUME IInv, NEW t \in Texts
               PROVE  /\ mem.refs[t] = Cardinality({id \in CallIds : mem.by_id[id] = t})
                      /\ mem.refs[t] > 0 => t \in mem.blocks
                      /\ t \in mem.blocks =>
                           mem.refs[t] > 0 \/ (op.call = "remember" /\ op.text = t)
    BY DEF RefsExact
  <2>1. RefsOK(mem) /\ BlocksOK(mem, Filling) BY DEF IInv
  <2>2. t # NoText BY TextAssumption
  <2>3. t \in mem.blocks => mem.refs[t] > 0 \/ (op.call = "remember" /\ op.text = t)
    BY <2>1, <2>2 DEF BlocksOK, Filling
  <2> QED BY <2>1, <2>3 DEF RefsOK, IdsOf
<1> QED BY <1>1, Invariance, PTL

\* A replayed text is what every id sent back was last remembered with.
THEOREM ReplaysAreExact == Spec => []ReplayExact
<1>1. IInv => ReplayExact BY DEF IInv
<1> QED BY <1>1, Invariance, PTL

\* Outside of remember() there are at most MaxEntries ids.
THEOREM EntriesBounded == Spec => []EntriesOK
<1>1. IInv => EntriesOK BY DEF IInv
<1> QED BY <1>1, Invariance, PTL

\* The list, the map and the reference counts describe one memory, for any ids, texts and
\* limits.
THEOREM ContainersAgree == Spec => []ListInv
BY TypeCorrectness, ListAgrees, RefsAreExact, PTL DEF ListInv

\* total_bytes_ is exact between any two rounds of the loops, and when a call returns the
\* memory is within both limits, for any sizes of the texts and any limits.
THEOREM LimitsAreKept == Spec => []LimitsHold
<1>1. IInv /\ BytesInv => LimitsHold
  <2> SUFFICES ASSUME IInv, BytesInv PROVE LimitsHold OBVIOUS
  <2>1. BytesExact BY DEF BytesInv, BytesOK, Copies, BytesExact
  <2>2. WithinLimits BY DEF IInv, EntriesOK, BytesInv, BytesBounded, WithinLimits
  <2> QED BY <2>1, <2>2 DEF LimitsHold
<1> QED BY <1>1, InitBytes, NextBytes, Invariance, PTL DEF Spec

\* prune() takes an id of the turn just remembered only when it keeps no other id at all,
\* for any limits and however the turn's texts compare with them.
THEOREM NewTurnsArePrunedLast == Spec => NewTurnPrunedLast
<1>1. Init => NewestLast BY DEF Init, Idle, NewestLast
<1>2. IInv /\ NewestLast /\ [Next]_vars
        => [op.call = "remember" /\ op.todo = <<>> =>
              \A id \in op.done : mem.by_id[id] # NoText /\ mem'.by_id[id] = NoText
                                    => Known(mem) \subseteq op.done]_vars
  BY PruneSparesTurn
<1> QED BY <1>1, <1>2, NewestLastStep, Invariance, PTL DEF Spec, NewTurnPrunedLast

=============================================================================

----------------------------- MODULE ListLemmas -----------------------------
(***************************************************************************)
(* What erase() and push_back() do to a list, for the LRU lists of the     *)
(* prefix cache and of the tool memory, what a prefix of a prompt is, and  *)
(* what a byte counter must do to stay with the bytes it stands for.       *)
(***************************************************************************)
EXTENDS Integers, Sequences, SequencesExt, FiniteSetsExt, Tally, SequenceTheorems,
        FiniteSetTheorems, WellFoundedInduction, TLAPS

\* A set of numbers has a least one, and a greatest one when it is bounded.
LEMMA LeastNat ==
  ASSUME NEW T \in SUBSET Nat, T # {}
  PROVE  \E x \in T : \A y \in T : x <= y
<1> DEFINE R == {s \in Nat \X Nat : s[1] < s[2]}
<1>1. IsWellFoundedOn(R, Nat) BY NatLessThanWellFounded DEF OpToRel
<1>2. \E x \in T : \A y \in T : <<y, x>> \notin R
  <2> HIDE DEF R
  <2> QED BY <1>1, WFMin
<1>3. ASSUME NEW x \in T, NEW y \in T, <<y, x>> \notin R PROVE x <= y
  <2>1. <<y, x>> \in Nat \X Nat BY <1>3
  <2>2. ~(y < x) BY <1>3, <2>1
  <2> QED BY <2>2
<1> HIDE DEF R
<1> QED BY <1>2, <1>3

LEMMA GreatestNat ==
  ASSUME NEW n \in Nat, NEW T \in SUBSET (0..n), T # {}
  PROVE  Max(T) \in T /\ \A x \in T : x <= Max(T)
<1> DEFINE down == {n - b : b \in T}
<1>1. down \in SUBSET Nat /\ down # {}
  <2>1. \A b \in T : n - b \in Nat OBVIOUS
  <2> QED BY <2>1
<1>2. PICK d \in down : \A e \in down : d <= e
  <2> HIDE DEF down
  <2> QED BY <1>1, LeastNat
<1>3. PICK x \in T : d = n - x BY <1>2
<1>4. ASSUME NEW y \in T PROVE x >= y
  <2>1. n - y \in down OBVIOUS
  <2>2. n - x <= n - y BY <1>2, <1>3, <2>1
  <2> QED BY <2>2
<1>5. Max(T) \in T /\ \A y \in T : Max(T) >= y BY <1>3, <1>4 DEF Max
<1> QED BY <1>5

-----------------------------------------------------------------------------
(* Counting, and functions defined by recursion on a number.                *)

\* f starts at a and goes on by G.
Steps(m, a, G, f) == f[0] = a /\ \A i \in 1..m : f[i] = G[<<i, f[i - 1]>>]

\* Counting up from 0 in steps of one.
LEMMA CountUp ==
  ASSUME NEW n \in Nat, NEW T, 0 \in T, \A i \in 1..n : i - 1 \in T => i \in T
  PROVE  \A i \in 0..n : i \in T
<1> DEFINE B == {i \in 0..n : i \notin T}
<1> SUFFICES ASSUME B # {} PROVE FALSE OBVIOUS
<1>1. B \in SUBSET Nat OBVIOUS
<1>2. PICK m \in B : \A k \in B : m <= k
  <2> HIDE DEF B
  <2> QED BY <1>1, LeastNat
<1>3. m \in 1..n /\ m - 1 \in 0..n /\ m \notin T OBVIOUS
<1>4. m - 1 \notin B
  <2> HIDE DEF B
  <2> QED BY <1>2, <1>3
<1> QED BY <1>3, <1>4

\* A recursive function whose steps stay in Int exists.
LEMMA RecursiveFunction ==
  ASSUME NEW n \in Nat, NEW a \in Int, NEW G, \A i \in 1..n : \A x \in Int : G[<<i, x>>] \in Int
  PROVE  \E f \in [0..n -> Int] : Steps(n, a, G, f)
<1> DEFINE T == {m \in 0..n : \E f \in [0..m -> Int] : Steps(m, a, G, f)}
<1>1. 0 \in T
  <2>1. [i \in 0..0 |-> a] \in [0..0 -> Int] OBVIOUS
  <2>2. Steps(0, a, G, [i \in 0..0 |-> a]) BY DEF Steps
  <2> QED BY <2>1, <2>2
<1>2. ASSUME NEW m \in 1..n, m - 1 \in T PROVE m \in T
  <2>1. PICK f \in [0..m - 1 -> Int] : Steps(m - 1, a, G, f) BY <1>2
  <2> DEFINE g == [i \in 0..m |-> IF i = m THEN G[<<m, f[m - 1]>>] ELSE f[i]]
  <2>2. m \in Nat /\ m - 1 \in 0..m - 1 OBVIOUS
  <2>3. G[<<m, f[m - 1]>>] \in Int
    <3>1. f[m - 1] \in Int BY <2>2
    <3> QED BY <3>1
  <2>4. \A i \in 0..m - 1 : i \in 0..m /\ i # m /\ g[i] = f[i] BY <2>2
  <2>5. g[m] = G[<<m, g[m - 1]>>]
    <3>1. g[m] = G[<<m, f[m - 1]>>] BY <2>2
    <3> HIDE DEF g
    <3> QED BY <3>1, <2>2, <2>4
  <2>6. g \in [0..m -> Int] BY <2>2, <2>3
  <2>7. Steps(m, a, G, g)
    <3> HIDE DEF g
    <3>1. g[0] = a
      <4>1. 0 \in 0..m - 1 OBVIOUS
      <4> QED BY <4>1, <2>1, <2>4 DEF Steps
    <3>2. ASSUME NEW i \in 1..m, i # m PROVE g[i] = G[<<i, g[i - 1]>>]
      <4>1. i \in 1..m - 1 /\ i \in 0..m - 1 /\ i - 1 \in 0..m - 1 BY <3>2
      <4>2. f[i] = G[<<i, f[i - 1]>>] BY <4>1, <2>1 DEF Steps
      <4> QED BY <4>1, <4>2, <2>4
    <3> QED BY <3>1, <3>2, <2>5 DEF Steps
  <2> HIDE DEF g
  <2> QED BY <2>2, <2>6, <2>7
<1>3. n \in T
  <2> HIDE DEF T
  <2> QED BY <1>1, <1>2, CountUp
<1> QED BY <1>3

-----------------------------------------------------------------------------
(* Lists.                                                                   *)

\* erase(): the elements after the erased one move down by one.
LEMMA RemoveAtFacts ==
  ASSUME NEW S, NEW s \in Seq(S), NEW i \in 1..Len(s)
  PROVE  /\ RemoveAt(s, i) \in Seq(S)
         /\ Len(RemoveAt(s, i)) = Len(s) - 1
         /\ \A j \in 1..(i - 1) : RemoveAt(s, i)[j] = s[j]
         /\ \A j \in i..(Len(s) - 1) : RemoveAt(s, i)[j] = s[j + 1]
<1> DEFINE a == SubSeq(s, 1, i - 1)
           b == SubSeq(s, i + 1, Len(s))
<1>1. /\ a \in Seq(S) /\ Len(a) = i - 1
      /\ \A j \in 1..(i - 1) : a[j] = s[j]
  OBVIOUS
<1>2. /\ b \in Seq(S) /\ Len(b) = Len(s) - i
      /\ \A j \in 1..(Len(s) - i) : b[j] = s[j + i]
  OBVIOUS
<1> HIDE DEF a, b
<1>3. /\ a \o b \in Seq(S) /\ Len(a \o b) = Len(a) + Len(b)
      /\ \A j \in 1..(Len(a) + Len(b)) :
           (a \o b)[j] = IF j <= Len(a) THEN a[j] ELSE b[j - Len(a)]
  BY <1>1, <1>2, ConcatProperties
<1>4. RemoveAt(s, i) = a \o b BY DEF RemoveAt, a, b
<1>5. Len(s) \in Nat /\ i \in Nat OBVIOUS
<1>6. ASSUME NEW j \in 1..(i - 1) PROVE RemoveAt(s, i)[j] = s[j]
  <2>1. j \in 1..(Len(a) + Len(b)) /\ j <= Len(a) BY <1>1, <1>2, <1>5
  <2>2. (a \o b)[j] = a[j] BY <1>3, <2>1
  <2> QED BY <1>1, <1>4, <2>2
<1>7. ASSUME NEW j \in i..(Len(s) - 1) PROVE RemoveAt(s, i)[j] = s[j + 1]
  <2>1. j \in 1..(Len(a) + Len(b)) /\ ~(j <= Len(a)) BY <1>1, <1>2, <1>5
  <2>2. (a \o b)[j] = b[j - Len(a)] BY <1>3, <2>1
  <2>3. j - Len(a) = j - i + 1 /\ j - i + 1 \in 1..(Len(s) - i) BY <1>1, <1>5
  <2>4. b[j - i + 1] = s[j - i + 1 + i] BY <1>2, <2>3
  <2>5. j - i + 1 + i = j + 1 BY <1>5
  <2> QED BY <1>4, <2>2, <2>3, <2>4, <2>5
<1>8. RemoveAt(s, i) \in Seq(S) BY <1>3, <1>4
<1>9. Len(RemoveAt(s, i)) = Len(s) - 1
  <2>1. Len(a) + Len(b) = Len(s) - 1 BY <1>1, <1>2, <1>5
  <2> QED BY <1>3, <1>4, <2>1
<1> QED BY <1>6, <1>7, <1>8, <1>9

\* push_back()
LEMMA AppendFacts ==
  ASSUME NEW S, NEW s \in Seq(S), NEW e \in S
  PROVE  /\ Append(s, e) \in Seq(S)
         /\ Len(Append(s, e)) = Len(s) + 1
         /\ Append(s, e)[Len(s) + 1] = e
         /\ \A j \in 1..Len(s) : Append(s, e)[j] = s[j]
OBVIOUS

\* The same, whatever is pushed.
LEMMA AppendAny ==
  ASSUME NEW S, NEW s \in Seq(S), NEW e
  PROVE  /\ Len(Append(s, e)) = Len(s) + 1
         /\ Append(s, e)[Len(s) + 1] = e
         /\ \A j \in 1..Len(s) : Append(s, e)[j] = s[j]
<1>1. s \in Seq(S \cup {e}) /\ e \in S \cup {e} OBVIOUS
<1> QED BY <1>1, AppendFacts

\* A prefix is a sequence, has the length asked for, is not empty from 1 on, and
\* a prefix completed with the rest gives the whole.
LEMMA PrefixFacts ==
  ASSUME NEW S, NEW p \in Seq(S), NEW n \in 0..Len(p)
  PROVE  /\ SubSeq(p, 1, n) \in Seq(S) /\ Len(SubSeq(p, 1, n)) = n
         /\ n > 0 => SubSeq(p, 1, n) # <<>>
         /\ SubSeq(p, 1, n) \o SubSeq(p, n + 1, Len(p)) = p
         /\ \A m \in 0..n : SubSeq(SubSeq(p, 1, n), 1, m) = SubSeq(p, 1, m)
         /\ SubSeq(p, 1, Len(p)) = p
<1> DEFINE a == SubSeq(p, 1, n)
           b == SubSeq(p, n + 1, Len(p))
<1>1. a \in Seq(S) /\ Len(a) = n /\ \A j \in 1..n : a[j] = p[j] OBVIOUS
<1>2. n > 0 => a # <<>> BY <1>1
<1>3. a \o b = p
  <2>1. /\ b \in Seq(S) /\ Len(b) = Len(p) - n
        /\ \A j \in 1..(Len(p) - n) : b[j] = p[j + n]
    OBVIOUS
  <2> HIDE DEF a, b
  <2>2. /\ a \o b \in Seq(S) /\ Len(a \o b) = Len(a) + Len(b)
        /\ \A j \in 1..(Len(a) + Len(b)) :
             (a \o b)[j] = IF j <= Len(a) THEN a[j] ELSE b[j - Len(a)]
    BY <1>1, <2>1, ConcatProperties
  <2>3. ASSUME NEW j \in 1..Len(p) PROVE (a \o b)[j] = p[j]
    <3>0. Len(p) \in Nat /\ n \in Nat OBVIOUS
    <3>1. j \in 1..(Len(a) + Len(b)) BY <1>1, <2>1, <3>0
    <3>2. CASE j <= n BY <1>1, <2>2, <3>0, <3>1, <3>2
    <3>3. CASE ~(j <= n)
      <4>1. (a \o b)[j] = b[j - n] BY <1>1, <2>2, <3>0, <3>1, <3>3
      <4>2. j - n \in 1..(Len(p) - n) /\ j - n + n = j BY <3>0, <3>3
      <4> QED BY <2>1, <4>1, <4>2
    <3> QED BY <3>2, <3>3
  <2>4. Len(a \o b) = Len(p) BY <1>1, <2>1, <2>2
  <2> QED BY <2>2, <2>3, <2>4, SeqEqual
<1>4. \A m \in 0..n : SubSeq(a, 1, m) = SubSeq(p, 1, m) OBVIOUS
<1>5. SubSeq(p, 1, Len(p)) = p OBVIOUS
<1> QED BY <1>1, <1>2, <1>3, <1>4, <1>5

-----------------------------------------------------------------------------
(* Byte counters *)

\* The bytes of one member.
LEMMA UnitsFacts ==
  ASSUME NEW x, NEW n \in Nat
  PROVE  IsFiniteSet(Units(x, n)) /\ Cardinality(Units(x, n)) = n
<1>1. IsFiniteSet({x}) /\ Cardinality({x}) = 1 BY FS_Singleton
<1>2. IsFiniteSet(1..n) /\ Cardinality(1..n) = n BY FS_Interval
<1> DEFINE S == {x}
           T == 1..n
<1>3. IsFiniteSet(S) /\ IsFiniteSet(T) BY <1>1, <1>2
<1> HIDE DEF S, T
<1>4. IsFiniteSet(S \X T) /\ Cardinality(S \X T) = Cardinality(S) * Cardinality(T)
  BY <1>3, FS_Product
<1> QED BY <1>1, <1>2, <1>4 DEF Units, S, T

\* A finite set has finitely many bytes.
LEMMA TallyType ==
  ASSUME NEW w, NEW S, IsFiniteSet(S), \A x \in S : w[x] \in Nat
  PROVE  IsFiniteSet(AllUnits(w, S)) /\ Tally(w, S) \in Nat
<1> DEFINE U == {Units(x, w[x]) : x \in S}
           f == [x \in S |-> Units(x, w[x])]
<1>1. f \in Surjection(S, U) BY DEF Surjection
<1>2. IsFiniteSet(U) BY <1>1, FS_Surjection
<1>3. \A T \in U : IsFiniteSet(T) BY UnitsFacts
<1> HIDE DEF U
<1>4. IsFiniteSet(UNION U) BY <1>2, <1>3, FS_UNION
<1>5. IsFiniteSet(AllUnits(w, S)) BY <1>4 DEF AllUnits, U
<1> QED BY <1>5, FS_CardinalityType DEF Tally

\* Only the sizes of the members count.
LEMMA TallySame ==
  ASSUME NEW w, NEW v, NEW S, \A x \in S : w[x] = v[x]
  PROVE  Tally(w, S) = Tally(v, S)
BY DEF Tally, AllUnits

LEMMA TallyEmpty == ASSUME NEW w PROVE Tally(w, {}) = 0
<1>1. AllUnits(w, {}) = {} BY DEF AllUnits
<1> QED BY <1>1, FS_EmptySet DEF Tally

\* A member more adds its size.
LEMMA TallyAdd ==
  ASSUME NEW w, NEW S, IsFiniteSet(S), \A x \in S : w[x] \in Nat,
         NEW y, y \notin S, w[y] \in Nat
  PROVE  Tally(w, S \cup {y}) = Tally(w, S) + w[y]
<1> DEFINE A == AllUnits(w, S)
           B == Units(y, w[y])
<1>1. IsFiniteSet(A) /\ Cardinality(A) \in Nat BY TallyType DEF Tally
<1>2. IsFiniteSet(B) /\ Cardinality(B) = w[y] BY UnitsFacts
<1>3. A \cap B = {} BY DEF AllUnits, Units
<1>4. AllUnits(w, S \cup {y}) = A \cup B BY DEF AllUnits
<1> HIDE DEF A, B
<1>5. Cardinality(A \cup B) = Cardinality(A) + Cardinality(B) - Cardinality(A \cap B)
  BY <1>1, <1>2, FS_Union
<1>6. Cardinality(A \cap B) = 0 BY <1>3, FS_EmptySet
<1>7. Cardinality(A \cup B) = Cardinality(A) + w[y] BY <1>1, <1>2, <1>5, <1>6
<1> QED BY <1>4, <1>7 DEF Tally, A

\* A member less takes its size away.
LEMMA TallyRemove ==
  ASSUME NEW w, NEW S, IsFiniteSet(S), \A x \in S : w[x] \in Nat, NEW y \in S
  PROVE  Tally(w, S) = Tally(w, S \ {y}) + w[y]
<1> DEFINE T == S \ {y}
<1>1. IsFiniteSet(T) BY FS_RemoveElement
<1>2. S = T \cup {y} /\ y \notin T /\ \A x \in T : w[x] \in Nat OBVIOUS
<1> HIDE DEF T
<1>3. Tally(w, T \cup {y}) = Tally(w, T) + w[y] BY <1>1, <1>2, TallyAdd
<1> QED BY <1>2, <1>3 DEF T

\* A set counts for its two parts.
LEMMA TallySplit ==
  ASSUME NEW w, NEW S, IsFiniteSet(S), \A x \in S : w[x] \in Nat, NEW X \in SUBSET S
  PROVE  /\ Tally(w, S) = Tally(w, S \ X) + Tally(w, X)
         /\ Tally(w, S \ X) \in Nat /\ Tally(w, X) \in Nat
<1> DEFINE A == AllUnits(w, S \ X)
           B == AllUnits(w, X)
<1>0. IsFiniteSet(S \ X) /\ IsFiniteSet(X) BY FS_Subset
<1>a. (\A x \in S \ X : w[x] \in Nat) /\ \A x \in X : w[x] \in Nat OBVIOUS
<1>1. IsFiniteSet(A) /\ Cardinality(A) \in Nat BY <1>0, <1>a, TallyType DEF Tally
<1>2. IsFiniteSet(B) /\ Cardinality(B) \in Nat BY <1>0, <1>a, TallyType DEF Tally
<1>3. A \cap B = {} BY DEF AllUnits, Units
<1>4. AllUnits(w, S) = A \cup B BY DEF AllUnits
<1> HIDE DEF A, B
<1>5. Cardinality(A \cup B) = Cardinality(A) + Cardinality(B) - Cardinality(A \cap B)
  BY <1>1, <1>2, FS_Union
<1>6. Cardinality(A \cap B) = 0 BY <1>3, FS_EmptySet
<1> QED BY <1>1, <1>2, <1>4, <1>5, <1>6 DEF Tally, A, B

=============================================================================

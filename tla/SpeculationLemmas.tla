------------------------- MODULE SpeculationLemmas -------------------------
(***************************************************************************)
(* What the passes of the target compute and what the acceptance rule      *)
(* keeps, for any vocabulary, target and sizes; and what the proofs need   *)
(* of answer streams, of the greedy continuation and of the slots that     *)
(* hold the features of a position.                                        *)
(***************************************************************************)
EXTENDS Speculation, ListLemmas

-----------------------------------------------------------------------------
(* Sequences built by the model's own operators *)

LEMMA WholeFunction ==
  ASSUME NEW n \in Nat, NEW f, f = [i \in 1..n |-> f[i]]
  PROVE  SubSeq(f, 1, n) = f
<1> DEFINE S == {f[i] : i \in 1..n}
<1>1. f \in [1..n -> S] OBVIOUS
<1>2. f \in Seq(S) /\ Len(f) = n BY <1>1
<1> QED BY <1>2

LEMMA BlankFacts == ASSUME NEW n \in Nat, NEW v PROVE Blank(n, v) = [i \in 1..n |-> v]
<1> DEFINE f == [i \in 1..n |-> v]
<1>1. f = [i \in 1..n |-> f[i]] OBVIOUS
<1>2. Blank(n, v) = SubSeq(f, 1, n) BY DEF Blank, Seqn
<1> HIDE DEF f
<1>3. Blank(n, v) = f BY <1>1, <1>2, WholeFunction
<1> QED BY <1>3 DEF f

LEMMA BlankSeq ==
  ASSUME NEW n \in Nat, NEW S, NEW v \in S
  PROVE  Blank(n, v) \in Seq(S) /\ Len(Blank(n, v)) = n
<1>1. Blank(n, v) \in [1..n -> S] BY BlankFacts
<1> QED BY <1>1

-----------------------------------------------------------------------------
(* Rows *)

Row == Tokens \cup {Bad}

LEMMA RowFacts == Tokens \subseteq Nat /\ Bad \in Row /\ Bad \notin Tokens /\ Seq(Tokens) \subseteq Seq(Row)
<1>1. Tokens \subseteq Nat /\ Bad \in Row /\ Bad \notin Tokens BY TokensAssumption DEF Row
<1>2. ASSUME NEW s \in Seq(Tokens) PROVE s \in Seq(Row)
  <2>1. Tokens \subseteq Row BY DEF Row
  <2> QED BY <2>1, SeqMonotonic
<1> QED BY <1>1, <1>2

Begins(kv, ctx) == Len(ctx) <= Len(kv) /\ \A i \in 1..Len(ctx) : kv[i] = ctx[i]

LEMMA UptoFacts ==
  ASSUME NEW kv \in Seq(Row), NEW n \in Nat
  PROVE  /\ Upto(kv, n) \in Seq(Row) /\ Len(Upto(kv, n)) = n
         /\ \A i \in 1..n : i <= Len(kv) => Upto(kv, n)[i] = kv[i]
<1> DEFINE m == IF n > Len(kv) THEN n - Len(kv) ELSE 0
           l == Lesser(n, Len(kv))
           a == SubSeq(kv, 1, l)
           b == Blank(m, Bad)
<1>1. m \in Nat /\ l \in 0..Len(kv) /\ l + m = n /\ (\A i \in 1..n : i <= Len(kv) => i <= l)
  <2>1. Len(kv) \in Nat OBVIOUS
  <2> DEFINE k == Len(kv)
  <2> HIDE DEF k
  <2>2. CASE n > k BY <2>1, <2>2 DEF Lesser, k
  <2>3. CASE n <= k
    <3>1. m = 0 BY <2>1, <2>3 DEF k
    <3>2. l = n BY <2>1, <2>3 DEF Lesser, k
    <3> HIDE DEF l, m
    <3> QED BY <2>1, <2>3, <3>1, <3>2 DEF k
  <2> QED BY <2>1, <2>2, <2>3 DEF k
<1>2. a \in Seq(Row) /\ Len(a) = l /\ \A i \in 1..l : a[i] = kv[i]
  <2> HIDE DEF l
  <2> QED BY <1>1
<1>3. b \in Seq(Row) /\ Len(b) = m
  <2> HIDE DEF m
  <2> QED BY <1>1, RowFacts, BlankSeq
<1>4. Upto(kv, n) = a \o b BY DEF Upto
<1> HIDE DEF a, b, l, m
<1>5. /\ a \o b \in Seq(Row) /\ Len(a \o b) = l + m
      /\ \A i \in 1..(l + m) : (a \o b)[i] = IF i <= l THEN a[i] ELSE b[i - l]
  BY <1>2, <1>3, ConcatProperties
<1> QED BY <1>1, <1>2, <1>4, <1>5

\* A batch that ends at the end of the head or before it.
LEMMA WriteInside ==
  ASSUME NEW kv \in Seq(Row), NEW base \in Nat, NEW toks \in Seq(Row),
         base + Len(toks) <= MaxCtx
  PROVE  /\ WriteRows(kv, base, toks) \in Seq(Row)
         /\ Len(WriteRows(kv, base, toks)) = base + Len(toks)
         /\ \A i \in 1..base : i <= Len(kv) => WriteRows(kv, base, toks)[i] = kv[i]
         /\ \A i \in 1..Len(toks) : WriteRows(kv, base, toks)[base + i] = toks[i]
<1> DEFINE a == Upto(kv, base)
<1>1. a \in Seq(Row) /\ Len(a) = base /\ \A i \in 1..base : i <= Len(kv) => a[i] = kv[i]
  BY UptoFacts
<1> HIDE DEF a
<1>2. /\ a \o toks \in Seq(Row) /\ Len(a \o toks) = base + Len(toks)
      /\ \A i \in 1..(base + Len(toks)) :
           (a \o toks)[i] = IF i <= base THEN a[i] ELSE toks[i - base]
  BY <1>1, ConcatProperties
<1>3. MaxCtx \in Nat /\ Len(toks) \in Nat BY SizesAreNat
<1>4. WriteRows(kv, base, toks) = a \o toks BY <1>2, <1>3 DEF WriteRows, a
<1>5. ASSUME NEW i \in 1..base, i <= Len(kv) PROVE (a \o toks)[i] = kv[i]
  <2>1. i \in 1..(base + Len(toks)) /\ i <= base BY <1>3
  <2> QED BY <1>1, <1>2, <1>5, <2>1
<1>6. ASSUME NEW i \in 1..Len(toks) PROVE (a \o toks)[base + i] = toks[i]
  <2>1. base + i \in 1..(base + Len(toks)) /\ ~(base + i <= base) /\ (base + i) - base = i
    BY <1>3
  <2>2. (a \o toks)[base + i] = toks[(base + i) - base] BY <1>2, <2>1
  <2> QED BY <2>1, <2>2
<1> QED BY <1>2, <1>4, <1>5, <1>6

LEMMA WriteType ==
  ASSUME NEW kv \in Seq(Row), NEW base \in Nat, NEW toks \in Seq(Row)
  PROVE  WriteRows(kv, base, toks) \in Seq(Row) /\ Len(WriteRows(kv, base, toks)) <= MaxCtx
<1> DEFINE all == Upto(kv, base) \o toks
           over == Len(all) - MaxCtx
<1>1. MaxCtx \in Nat BY SizesAreNat
<1>2. all \in Seq(Row) BY UptoFacts, ConcatProperties
<1>3. over \in Int /\ Len(all) \in Nat BY <1>1, <1>2
<1>4. WriteRows(kv, base, toks) = IF over <= 0 THEN all
                                  ELSE Blank(Lesser(over, MaxCtx), Bad) \o SubSeq(all, over + 1, MaxCtx)
  BY DEF WriteRows
<1>5. CASE over <= 0 
  <2>1. Len(all) <= MaxCtx BY <1>1, <1>3, <1>5
  <2> QED BY <1>2, <1>4, <1>5, <2>1
<1>6. CASE over > 0
  <2> DEFINE h == Lesser(over, MaxCtx)
             a == Blank(h, Bad)
             b == SubSeq(all, over + 1, MaxCtx)
  <2>1. h \in 0..MaxCtx /\ h <= over /\ (over >= MaxCtx => h = MaxCtx) /\ (over < MaxCtx => h = over)
    BY <1>1, <1>3, <1>6 DEF Lesser
  <2>2. a \in Seq(Row) /\ Len(a) = h
    <3> HIDE DEF h
    <3> QED BY <2>1, RowFacts, BlankSeq
  <2>3. b \in Seq(Row) /\ Len(b) = IF over + 1 <= MaxCtx THEN MaxCtx - over ELSE 0
    <3>1. MaxCtx <= Len(all) BY <1>1, <1>3, <1>6
    <3> HIDE DEF all, over
    <3>2. \A i \in (over + 1)..MaxCtx : all[i] \in Row BY <1>1, <1>2, <1>3, <1>6, <3>1
    <3>3. over + 1 \in Int BY <1>3
    <3>4. /\ b \in Seq(Row)
          /\ Len(b) = IF over + 1 <= MaxCtx THEN MaxCtx - (over + 1) + 1 ELSE 0
      BY <1>1, <3>2, <3>3, SubSeqProperties
    <3> QED BY <1>1, <1>3, <3>4
  <2>4. WriteRows(kv, base, toks) = a \o b
    <3>1. ~(over <= 0) BY <1>3, <1>6
    <3> QED BY <1>4, <3>1
  <2> HIDE DEF a, b, h, all, over
  <2>5. a \o b \in Seq(Row) /\ Len(a \o b) = Len(a) + Len(b) BY <2>2, <2>3, ConcatProperties
  <2>6. Len(a) + Len(b) <= MaxCtx BY <1>1, <1>3, <1>6, <2>1, <2>2, <2>3
  <2> QED BY <2>4, <2>5, <2>6
<1> QED BY <1>3, <1>5, <1>6

-----------------------------------------------------------------------------
(* The context a token is computed from *)

\* What out holds: no context, or one that the cache has room for.
IsContext(e) == e = Junk \/ (e \in Seq(Tokens) /\ Len(e) <= MaxCtx)

LEMMA ContextType ==
  ASSUME NEW kv \in Seq(Row), Len(kv) <= MaxCtx, NEW n \in Nat
  PROVE  IsContext(Context(kv, n))
<1>1. CASE Context(kv, n) = Junk BY <1>1 DEF IsContext
<1>2. CASE Context(kv, n) # Junk
  <2>1. n <= Len(kv) /\ (\A i \in 1..n : kv[i] # Bad) /\ Context(kv, n) = SubSeq(kv, 1, n)
    BY <1>2 DEF Context
  <2>2. \A i \in 1..n : kv[i] \in Tokens BY <2>1 DEF Row
  <2>3. SubSeq(kv, 1, n) \in Seq(Tokens) /\ Len(SubSeq(kv, 1, n)) <= n
    BY <2>2, SubSeqProperties
  <2>4. MaxCtx \in Nat /\ Len(kv) \in Nat /\ Len(SubSeq(kv, 1, n)) \in Nat BY <2>3, SizesAreNat
  <2> QED BY <2>1, <2>3, <2>4 DEF IsContext
<1> QED BY <1>1, <1>2

LEMMA ContextRight ==
  ASSUME NEW kv \in Seq(Row), NEW ctx \in Seq(Tokens), Begins(kv, ctx), NEW n \in 0..Len(ctx)
  PROVE  Context(kv, n) = SubSeq(ctx, 1, n)
<1>1. n <= Len(kv) /\ \A i \in 1..n : kv[i] = ctx[i] BY DEF Begins
<1>2. \A i \in 1..n : kv[i] \in Tokens /\ kv[i] # Bad BY <1>1, RowFacts
<1>3. Context(kv, n) = SubSeq(kv, 1, n) BY <1>1, <1>2 DEF Context
<1>4. /\ SubSeq(kv, 1, n) \in Seq(Tokens) /\ Len(SubSeq(kv, 1, n)) = n
      /\ \A i \in 1..n : SubSeq(kv, 1, n)[i] = kv[i]
  BY <1>1, <1>2
<1>5. /\ SubSeq(ctx, 1, n) \in Seq(Tokens) /\ Len(SubSeq(ctx, 1, n)) = n
      /\ \A i \in 1..n : SubSeq(ctx, 1, n)[i] = ctx[i]
  OBVIOUS
<1>6. \A i \in 1..n : SubSeq(kv, 1, n)[i] = SubSeq(ctx, 1, n)[i] BY <1>1, <1>4, <1>5
<1>7. SubSeq(kv, 1, n) = SubSeq(ctx, 1, n) BY <1>4, <1>5, <1>6, SeqEqual
<1> QED BY <1>3, <1>7

LEMMA NotJunk == ASSUME NEW e \in Seq(Tokens) PROVE e # Junk
<1>1. Junk[1] = Bad /\ Len(Junk) = 1 BY DEF Junk
<1>2. ASSUME e = Junk PROVE FALSE
  <2>1. e[1] \in Tokens BY <1>1, <1>2, ElementOfSeq
  <2> QED BY <1>1, <1>2, <2>1, RowFacts
<1> QED BY <1>2

LEMMA PickFacts ==
  ASSUME NEW e, IsContext(e)
  PROVE  /\ Pick(e) \subseteq Tokens
         /\ e \in Seq(Tokens) => Pick(e) = {Predict(e)}
<1>1. e \in Seq(Tokens) => e # Junk BY NotJunk
<1>2. ASSUME e \in Seq(Tokens), Len(e) <= MaxCtx PROVE Predict(e) \in Tokens
  <2>1. Len(e) \in 0..MaxCtx /\ e \in [1..Len(e) -> Tokens] BY <1>2, SizesAreNat
  <2> QED BY <2>1, PredictAssumption
<1> QED BY <1>1, <1>2 DEF Pick, IsContext

-----------------------------------------------------------------------------
(* A pass of the target *)

IsCache(c) ==
  /\ c \in [kv: {c.kv}, ring: {c.ring}, ssm: {c.ssm}, feat: {c.feat}, cur_pos: {c.cur_pos},
            last_tok: {c.last_tok}]
  /\ c.kv \in Seq(Row) /\ Len(c.kv) <= MaxCtx

LEMMA RowsFacts ==
  ASSUME NEW toks \in Seq(Tokens), NEW o
  PROVE  /\ Rows(toks, o) \in Seq(Row) /\ Len(Rows(toks, o)) = Len(toks)
         /\ \A i \in 1..Len(toks) : Rows(toks, o)[i] = IF o[i] = Junk THEN Bad ELSE toks[i]
<1> DEFINE n == Len(toks)
           f == [i \in 1..n |-> IF o[i] = Junk THEN Bad ELSE toks[i]]
<1>1. n \in Nat /\ \A i \in 1..n : toks[i] \in Row BY RowFacts DEF Row
<1>2. Rows(toks, o) = SubSeq(f, 1, n) BY DEF Rows, Seqn
<1>3. f = [i \in 1..n |-> f[i]] OBVIOUS
<1>4. f \in [1..n -> Row] BY <1>1, RowFacts
<1>5. \A i \in 1..n : f[i] = IF o[i] = Junk THEN Bad ELSE toks[i] OBVIOUS
<1> HIDE DEF f
<1>6. Rows(toks, o) = f BY <1>1, <1>2, <1>3, WholeFunction
<1>7. f \in Seq(Row) /\ Len(f) = n BY <1>1, <1>4
<1> QED BY <1>5, <1>6, <1>7

LEMMA AttentionFacts ==
  ASSUME NEW kv \in Seq(Row), NEW base \in Nat, NEW toks \in Seq(Tokens)
  PROVE  FullAttention(kv, base, toks)
           = [i \in 1..Len(toks) |-> Context(WriteRows(kv, base, toks), base + i)]
<1> DEFINE n == Len(toks)
           f == [i \in 1..n |-> Context(WriteRows(kv, base, toks), base + i)]
<1>1. n \in Nat OBVIOUS
<1>2. FullAttention(kv, base, toks) = SubSeq(f, 1, n) BY DEF FullAttention, Seqn
<1>3. f = [i \in 1..n |-> f[i]] OBVIOUS
<1> HIDE DEF f
<1>4. FullAttention(kv, base, toks) = f BY <1>1, <1>2, <1>3, WholeFunction
<1> QED BY <1>4 DEF f

\* Whatever the cache holds, a pass leaves a cache and one context for each token.
LEMMA GraphType ==
  ASSUME NEW c, IsCache(c), NEW toks \in Seq(Tokens), NEW base \in Nat
  PROVE  /\ IsCache(Qwen35Graph(c, toks, base).cache)
         /\ Qwen35Graph(c, toks, base).out
              = [i \in 1..Len(toks) |-> Qwen35Graph(c, toks, base).out[i]]
         /\ \A i \in 1..Len(toks) : IsContext(Qwen35Graph(c, toks, base).out[i])
<1> DEFINE absorbed == c.ssm # Junk /\ c.ssm = Context(c.kv, base)
           o == IF absorbed THEN FullAttention(c.kv, base, toks) ELSE Blank(Len(toks), Junk)
           g == [c EXCEPT !.kv   = WriteRows(c.kv, base, Rows(toks, o)),
                          !.ssm  = DeltaNet(c.ssm, o),
                          !.feat = WriteFeatures(c.feat, base, Len(toks))]
<1>1. Qwen35Graph(c, toks, base).cache = g /\ Qwen35Graph(c, toks, base).out = o
  BY DEF Qwen35Graph
<1>2. c.kv \in Seq(Row) /\ Len(toks) \in Nat /\ toks \in Seq(Row) BY RowFacts DEF IsCache
<1>3. o = [i \in 1..Len(toks) |-> o[i]] /\ \A i \in 1..Len(toks) : IsContext(o[i])
  <2>1. CASE absorbed
    <3> DEFINE w == WriteRows(c.kv, base, toks)
    <3>1. o = [i \in 1..Len(toks) |-> Context(w, base + i)]
      BY <1>2, <2>1, AttentionFacts
    <3>2. w \in Seq(Row) /\ Len(w) <= MaxCtx BY <1>2, WriteType
    <3> HIDE DEF o, w
    <3>3. \A i \in 1..Len(toks) : IsContext(Context(w, base + i)) BY <3>2, ContextType
    <3> QED BY <3>1, <3>3
  <2>2. CASE ~absorbed
    <3>1. o = [i \in 1..Len(toks) |-> Junk] BY <1>2, <2>2, BlankFacts
    <3> HIDE DEF o
    <3> QED BY <3>1 DEF IsContext
  <2> QED BY <2>1, <2>2
<1> HIDE DEF o
<1>4. IsCache(g)
  <2> DEFINE r == Rows(toks, o)
             k == WriteRows(c.kv, base, r)
  <2>1. r \in Seq(Row) BY RowsFacts
  <2> HIDE DEF r
  <2>2. k \in Seq(Row) /\ Len(k) <= MaxCtx BY <1>2, <2>1, WriteType
  <2>3. g = [c EXCEPT !.kv = k, !.ssm = DeltaNet(c.ssm, o),
                      !.feat = WriteFeatures(c.feat, base, Len(toks))]
    BY DEF r
  <2> HIDE DEF k, g
  <2> QED BY <2>2, <2>3 DEF IsCache
<1> QED BY <1>1, <1>3, <1>4

\* A pass that fails leaves a cache, whatever is put back into it.
LEMMA FailedPassType ==
  ASSUME NEW c, IsCache(c), NEW base \in Nat, NEW ssm
  PROVE  IsCache([Qwen35FailedPass(c, base) EXCEPT !.ssm = ssm])
<1> DEFINE n == Lesser(base, Len(c.kv))
           kv == SubSeq(c.kv, 1, n)
<1>1. c.kv \in Seq(Row) /\ Len(c.kv) \in Nat /\ Len(c.kv) <= MaxCtx /\ MaxCtx \in Nat
  BY SizesAreNat DEF IsCache
<1>2. n \in 0..Len(c.kv) BY <1>1 DEF Lesser
<1> HIDE DEF n
<1>3. kv \in Seq(Row) /\ Len(kv) = n BY <1>1, <1>2
<1>4. Len(kv) <= MaxCtx BY <1>1, <1>2, <1>3
<1>5. PICK ring, feat : Qwen35FailedPass(c, base) = [[c EXCEPT !.kv = kv, !.ring = ring, !.feat = feat] EXCEPT !.ssm = Junk]
  BY DEF Qwen35FailedPass, FailedPass, n
<1> HIDE DEF kv
<1> QED BY <1>3, <1>4, <1>5 DEF IsCache

\* The cache is right for a context.
Right(c, ctx) == c.ssm = ctx /\ Begins(c.kv, ctx)

\* A cache that begins with a context begins with what it begins with.
LEMMA BeginsPrefix ==
  ASSUME NEW kv, NEW ctx \in Seq(Tokens), Begins(kv, ctx), Len(kv) \in Nat, NEW n \in 0..Len(ctx)
  PROVE  Begins(kv, SubSeq(ctx, 1, n))
<1>1. Len(SubSeq(ctx, 1, n)) = n /\ \A i \in 1..n : SubSeq(ctx, 1, n)[i] = ctx[i] OBVIOUS
<1> QED BY <1>1 DEF Begins

\* The rows of a context followed by the rows of what comes after it.
LEMMA RowsWritten ==
  ASSUME NEW kv \in Seq(Row), NEW ctx \in Seq(Tokens), Begins(kv, ctx),
         NEW toks \in Seq(Tokens), Len(ctx) + Len(toks) <= MaxCtx,
         NEW r \in Seq(Row), Len(r) = Len(toks), \A i \in 1..Len(toks) : r[i] = toks[i]
  PROVE  WriteRows(kv, Len(ctx), r) = ctx \o toks
<1> DEFINE base == Len(ctx)
           n == Len(toks)
           all == ctx \o toks
           v == WriteRows(kv, base, r)
<1>1. base \in Nat /\ n \in Nat OBVIOUS
<1>2. /\ all \in Seq(Tokens) /\ Len(all) = base + n
      /\ \A i \in 1..(base + n) : all[i] = IF i <= base THEN ctx[i] ELSE toks[i - base]
  BY ConcatProperties
<1> HIDE DEF all
<1>3. all \in Seq(Row) BY <1>2, RowFacts
<1>4. /\ v \in Seq(Row) /\ Len(v) = base + Len(r)
      /\ \A i \in 1..base : i <= Len(kv) => v[i] = kv[i]
      /\ \A i \in 1..Len(r) : v[base + i] = r[i]
  <2>1. base + Len(r) <= MaxCtx OBVIOUS
  <2> HIDE DEF base
  <2> QED BY <1>1, <2>1, WriteInside
<1> HIDE DEF v
<1>5. \A i \in 1..base : v[i] = ctx[i] BY <1>1, <1>4 DEF Begins
<1>6. ASSUME NEW i \in 1..(base + n) PROVE v[i] = all[i]
  <2>1. CASE i <= base
    <3>1. i \in 1..base BY <1>1, <2>1
    <3>2. v[i] = ctx[i] BY <1>5, <3>1
    <3> QED BY <1>2, <2>1, <3>2
  <2>2. CASE i > base
    <3>1. i - base \in 1..n /\ base + (i - base) = i /\ ~(i <= base) BY <1>1, <2>2
    <3>2. v[base + (i - base)] = toks[i - base] BY <1>4, <3>1
    <3> QED BY <1>2, <3>1, <3>2
  <2> QED BY <1>1, <2>1, <2>2
<1>7. v = all
  <2>1. Len(v) = Len(all) BY <1>2, <1>4
  <2>2. \A i \in 1..Len(v) : v[i] = all[i] BY <1>4, <1>6
  <2> QED BY <1>3, <1>4, <2>1, <2>2, SeqEqual
<1> QED BY <1>7 DEF v, all

LEMMA TokensWritten ==
  ASSUME NEW kv \in Seq(Row), NEW ctx \in Seq(Tokens), Begins(kv, ctx),
         NEW toks \in Seq(Tokens), Len(ctx) + Len(toks) <= MaxCtx
  PROVE  WriteRows(kv, Len(ctx), toks) = ctx \o toks
<1>1. toks \in Seq(Row) BY RowFacts
<1> QED BY <1>1, RowsWritten

LEMMA RowsRight ==
  ASSUME NEW kv \in Seq(Row), NEW ctx \in Seq(Tokens), Begins(kv, ctx),
         NEW toks \in Seq(Tokens), Len(ctx) + Len(toks) <= MaxCtx,
         NEW out, \A i \in 1..Len(toks) : out[i] # Junk
  PROVE  WriteRows(kv, Len(ctx), Rows(toks, out)) = ctx \o toks
<1>1. /\ Rows(toks, out) \in Seq(Row) /\ Len(Rows(toks, out)) = Len(toks)
      /\ \A i \in 1..Len(toks) : Rows(toks, out)[i] = toks[i]
  BY RowsFacts
<1> QED BY <1>1, RowsWritten

\* What is seen of a context that is all there.
LEMMA ContextSelf ==
  ASSUME NEW ctx \in Seq(Tokens) PROVE Begins(ctx, ctx) /\ Context(ctx, Len(ctx)) = ctx
<1>1. Begins(ctx, ctx) BY DEF Begins
<1>2. ctx \in Seq(Row) /\ Len(ctx) \in 0..Len(ctx) BY RowFacts
<1>3. Context(ctx, Len(ctx)) = SubSeq(ctx, 1, Len(ctx)) BY <1>1, <1>2, ContextRight
<1> QED BY <1>1, <1>3, SubSeqFull

\* The front of two sequences in a row.
LEMMA ConcatPrefix ==
  ASSUME NEW ctx \in Seq(Tokens), NEW toks \in Seq(Tokens), NEW i \in 0..Len(toks)
  PROVE  SubSeq(ctx \o toks, 1, Len(ctx) + i) = ctx \o SubSeq(toks, 1, i)
<1> DEFINE base == Len(ctx)
           n == Len(toks)
           all == ctx \o toks
           front == SubSeq(toks, 1, i)
           both == ctx \o front
<1>1. base \in Nat /\ n \in Nat OBVIOUS
<1>2. /\ all \in Seq(Tokens) /\ Len(all) = base + n
      /\ \A j \in 1..(base + n) : all[j] = IF j <= base THEN ctx[j] ELSE toks[j - base]
  BY ConcatProperties
<1>3. front \in Seq(Tokens) /\ Len(front) = i /\ \A j \in 1..i : front[j] = toks[j] BY <1>1
<1> HIDE DEF front
<1>4. /\ both \in Seq(Tokens) /\ Len(both) = base + i
      /\ \A j \in 1..(base + i) : both[j] = IF j <= base THEN ctx[j] ELSE front[j - base]
  BY <1>3, ConcatProperties
<1> HIDE DEF all, both
<1>5. /\ SubSeq(all, 1, base + i) \in Seq(Tokens) /\ Len(SubSeq(all, 1, base + i)) = base + i
      /\ \A j \in 1..(base + i) : SubSeq(all, 1, base + i)[j] = all[j]
  BY <1>1, <1>2
<1>6. ASSUME NEW j \in 1..(base + i) PROVE SubSeq(all, 1, base + i)[j] = both[j]
  <2>1. j \in 1..(base + n) BY <1>1
  <2>2. CASE j <= base BY <1>2, <1>4, <1>5, <2>1, <2>2
  <2>3. CASE ~(j <= base)
    <3>1. j - base \in 1..i BY <1>1, <2>3
    <3>2. front[j - base] = toks[j - base] BY <1>3, <3>1
    <3>3. all[j] = toks[j - base] BY <1>2, <2>1, <2>3
    <3>4. both[j] = front[j - base] BY <1>4, <2>3
    <3> QED BY <1>5, <3>2, <3>3, <3>4
  <2> QED BY <2>2, <2>3
<1>7. SubSeq(all, 1, base + i) = both BY <1>4, <1>5, <1>6, SeqEqual
<1> QED BY <1>7 DEF all, both, front

\* What the tokens after a context attend to.
LEMMA AttentionRight ==
  ASSUME NEW kv \in Seq(Row), NEW ctx \in Seq(Tokens), Begins(kv, ctx),
         NEW toks \in Seq(Tokens), Len(ctx) + Len(toks) <= MaxCtx
  PROVE  /\ FullAttention(kv, Len(ctx), toks) = [i \in 1..Len(toks) |-> ctx \o SubSeq(toks, 1, i)]
         /\ \A i \in 1..Len(toks) : /\ ctx \o SubSeq(toks, 1, i) \in Seq(Tokens)
                                    /\ ctx \o SubSeq(toks, 1, i) # Junk
<1> DEFINE all == ctx \o toks
<1>1. Len(ctx) \in Nat /\ Len(toks) \in Nat OBVIOUS
<1>2. all \in Seq(Tokens) /\ Len(all) = Len(ctx) + Len(toks) BY ConcatProperties
<1>3. WriteRows(kv, Len(ctx), toks) = all BY TokensWritten
<1> HIDE DEF all
<1>4. ASSUME NEW i \in 1..Len(toks)
      PROVE  /\ Context(all, Len(ctx) + i) = ctx \o SubSeq(toks, 1, i)
             /\ ctx \o SubSeq(toks, 1, i) \in Seq(Tokens) /\ ctx \o SubSeq(toks, 1, i) # Junk
  <2>1. Begins(all, all) BY <1>2, ContextSelf
  <2>2. all \in Seq(Row) /\ Len(ctx) + i \in 0..Len(all) /\ i \in 0..Len(toks) BY <1>1, <1>2, RowFacts
  <2>3. Context(all, Len(ctx) + i) = SubSeq(all, 1, Len(ctx) + i) BY <1>2, <2>1, <2>2, ContextRight
  <2>4. SubSeq(all, 1, Len(ctx) + i) = ctx \o SubSeq(toks, 1, i) BY <2>2, ConcatPrefix DEF all
  <2>5. SubSeq(toks, 1, i) \in Seq(Tokens) BY <2>2, PrefixFacts
  <2>6. ctx \o SubSeq(toks, 1, i) \in Seq(Tokens) BY <2>5, ConcatProperties
  <2> QED BY <2>3, <2>4, <2>6, NotJunk
<1>5. FullAttention(kv, Len(ctx), toks) = [i \in 1..Len(toks) |-> Context(all, Len(ctx) + i)]
  BY <1>1, <1>3, AttentionFacts
<1> QED BY <1>4, <1>5

\* The contexts the tokens of a right pass are computed from.
OutRight(out, ctx, toks) == \A i \in 1..Len(toks) : out[i] = ctx \o SubSeq(toks, 1, i)

\* A pass over what follows the context it is right for.
LEMMA GraphRight ==
  ASSUME NEW c, IsCache(c), NEW ctx \in Seq(Tokens), Right(c, ctx),
         NEW toks \in Seq(Tokens), toks # <<>>, Len(ctx) + Len(toks) <= MaxCtx
  PROVE  /\ OutRight(Qwen35Graph(c, toks, Len(ctx)).out, ctx, toks)
         /\ Right(Qwen35Graph(c, toks, Len(ctx)).cache, ctx \o toks)
         /\ Qwen35Graph(c, toks, Len(ctx)).cache.kv = ctx \o toks
<1> DEFINE base == Len(ctx)
           n == Len(toks)
           o == [i \in 1..n |-> ctx \o SubSeq(toks, 1, i)]
<1>1. c.kv \in Seq(Row) /\ base \in 0..Len(ctx) /\ base \in Nat /\ n \in Nat \ {0} BY DEF IsCache
<1>2. Context(c.kv, base) = ctx
  <2>1. Context(c.kv, base) = SubSeq(ctx, 1, base) BY <1>1, ContextRight DEF Right
  <2> QED BY <2>1, SubSeqFull
<1>3. FullAttention(c.kv, base, toks) = o /\ \A i \in 1..n : o[i] # Junk
  BY <1>1, AttentionRight DEF Right
<1>4. Last(o) = ctx \o toks
  <2>1. Len(o) = n /\ n \in 1..n BY <1>1
  <2>2. SubSeq(toks, 1, n) = toks BY SubSeqFull
  <2>3. o[n] = ctx \o toks BY <2>1, <2>2
  <2> HIDE DEF o
  <2> QED BY <2>1, <2>3 DEF Last
<1>5. \A i \in 1..n : o[i] = ctx \o SubSeq(toks, 1, i) OBVIOUS
<1> HIDE DEF o
<1>6. WriteRows(c.kv, base, Rows(toks, o)) = ctx \o toks BY <1>1, <1>3, RowsRight DEF Right
<1>7. c.ssm # Junk /\ c.ssm = Context(c.kv, base) BY <1>2, NotJunk DEF Right
<1>8. /\ Qwen35Graph(c, toks, base).out = o
      /\ Qwen35Graph(c, toks, base).cache.kv = WriteRows(c.kv, base, Rows(toks, o))
      /\ Qwen35Graph(c, toks, base).cache.ssm = Last(o)
  <2>1. Qwen35Graph(c, toks, base).out = o BY <1>3, <1>7 DEF Qwen35Graph
  <2>2. Qwen35Graph(c, toks, base).cache
          = [c EXCEPT !.kv = WriteRows(c.kv, base, Rows(toks, o)), !.ssm  = DeltaNet(c.ssm, o),
                      !.feat = WriteFeatures(c.feat, base, Len(toks))]
    BY <1>3, <1>7 DEF Qwen35Graph
  <2> QED BY <2>1, <2>2 DEF IsCache, DeltaNet
<1>9. Begins(ctx \o toks, ctx \o toks)
  <2>1. ctx \o toks \in Seq(Tokens) BY ConcatProperties
  <2> QED BY <2>1, ContextSelf
<1> QED BY <1>4, <1>5, <1>6, <1>8, <1>9 DEF Right, OutRight

-----------------------------------------------------------------------------
(* A pass of the other architectures *)

\* What a pass leaves alone.
SameEnds(c, d) == d.cur_pos = c.cur_pos /\ d.last_tok = c.last_tok

IsOut(out, n) == out = [i \in 1..n |-> out[i]] /\ \A i \in 1..n : IsContext(out[i])

\* Writing rows computed from o leaves a cache, whatever else is written.
LEMMA WriteCache ==
  ASSUME NEW c, IsCache(c), NEW toks \in Seq(Tokens), NEW base \in Nat, NEW o, NEW ring, NEW feat
  PROVE  /\ IsCache([c EXCEPT !.kv = WriteRows(c.kv, base, Rows(toks, o)), !.ring = ring, !.feat = feat])
         /\ IsCache([c EXCEPT !.kv = WriteRows(c.kv, base, Rows(toks, o))])
<1> DEFINE r == Rows(toks, o)
           k == WriteRows(c.kv, base, r)
<1>1. r \in Seq(Row) BY RowsFacts
<1> HIDE DEF r
<1>2. k \in Seq(Row) /\ Len(k) <= MaxCtx BY <1>1, WriteType DEF IsCache
<1> HIDE DEF k
<1>3. /\ IsCache([c EXCEPT !.kv = k, !.ring = ring, !.feat = feat])
      /\ IsCache([c EXCEPT !.kv = k])
  BY <1>2 DEF IsCache
<1> QED BY <1>3 DEF k, r

LEMMA AttentionType ==
  ASSUME NEW c, IsCache(c), NEW toks \in Seq(Tokens), NEW base \in Nat
  PROVE  IsOut(FullAttention(c.kv, base, toks), Len(toks))
<1> DEFINE w == WriteRows(c.kv, base, toks)
           o == FullAttention(c.kv, base, toks)
<1>1. c.kv \in Seq(Row) /\ Len(toks) \in Nat /\ toks \in Seq(Row) BY RowFacts DEF IsCache
<1>2. o = [i \in 1..Len(toks) |-> Context(w, base + i)] BY <1>1, AttentionFacts
<1>3. w \in Seq(Row) /\ Len(w) <= MaxCtx BY <1>1, WriteType
<1> HIDE DEF o, w
<1>4. \A i \in 1..Len(toks) : IsContext(Context(w, base + i)) BY <1>3, ContextType
<1>5. IsOut(o, Len(toks)) BY <1>2, <1>4 DEF IsOut
<1> QED BY <1>5 DEF o

LEMMA KvGraphType ==
  ASSUME NEW c, IsCache(c), NEW toks \in Seq(Tokens), NEW base \in Nat
  PROVE  /\ IsCache(KvGraph(c, toks, base).cache) /\ SameEnds(c, KvGraph(c, toks, base).cache)
         /\ IsOut(KvGraph(c, toks, base).out, Len(toks))
<1> DEFINE o == FullAttention(c.kv, base, toks)
           d == [c EXCEPT !.kv = WriteRows(c.kv, base, Rows(toks, o))]
<1>1. KvGraph(c, toks, base).cache = d /\ KvGraph(c, toks, base).out = o BY DEF KvGraph
<1>2. IsOut(o, Len(toks)) BY AttentionType
<1> HIDE DEF o
<1>3. IsCache(d) BY WriteCache
<1>4. SameEnds(c, d) BY DEF SameEnds, IsCache
<1> QED BY <1>1, <1>2, <1>3, <1>4

LEMMA LagunaStepType ==
  ASSUME NEW c, IsCache(c), NEW toks \in Seq(Tokens), NEW base \in Nat
  PROVE  LET g == laguna_step(c, toks, base)
         IN  /\ IsCache(g.cache) /\ g.cache.cur_pos = base + Len(toks)
             /\ g.cache.last_tok = c.last_tok /\ IsOut(g.out, Len(toks))
<1> DEFINE k == KvGraph(c, toks, base)
<1>1. /\ IsCache(k.cache) /\ SameEnds(c, k.cache) /\ IsOut(k.out, Len(toks)) BY KvGraphType
<1>2. k = [cache |-> k.cache, out |-> k.out] BY DEF KvGraph
<1>3. laguna_step(c, toks, base) = [k EXCEPT !.cache.cur_pos = base + Len(toks)] BY DEF laguna_step
<1> HIDE DEF k
<1>4. /\ laguna_step(c, toks, base).cache = [k.cache EXCEPT !.cur_pos = base + Len(toks)]
      /\ laguna_step(c, toks, base).out = k.out
  BY <1>2, <1>3
<1> QED BY <1>1, <1>4 DEF IsCache, SameEnds

LEMMA Gemma4Type ==
  ASSUME NEW c, IsCache(c), NEW toks \in Seq(Tokens), NEW base \in Nat
  PROVE  LET g == gemma4_step(c, toks, base)
         IN  /\ IsCache(g.cache) /\ g.cache.cur_pos = base + Len(toks)
             /\ g.cache.last_tok = c.last_tok /\ IsOut(g.out, Len(toks))
<1> DEFINE n == Len(toks)
           ring == WriteWindow(c.ring, base, n)
           full == FullAttention(c.kv, base, toks)
           f == [i \in 1..n |-> IF \A j \in 1 .. i : WindowAttention(ring, base + j - 1) THEN full[i] ELSE Junk]
           k == Gemma4Layers(c, toks, base)
<1>1. IsOut(full, n) BY AttentionType
<1>2. n \in Nat OBVIOUS
<1> HIDE DEF full, ring, n
<1>3. f = [i \in 1..n |-> f[i]] OBVIOUS
<1>4. \A i \in 1..n : IsContext(f[i]) BY <1>1 DEF IsOut, IsContext
<1>5. SubSeq(f, 1, n) = f
  <2> HIDE DEF f
  <2> QED BY <1>2, <1>3, WholeFunction
<1>6. /\ k.out = f
      /\ k.cache = [c EXCEPT !.kv = WriteRows(c.kv, base, Rows(toks, f)), !.ring = ring,
                             !.feat = WriteFeatures(c.feat, base, n)]
      /\ k = [cache |-> k.cache, out |-> k.out]
  <2>1. Seqn(n, LAMBDA i : IF \A j \in 1 .. i : WindowAttention(ring, base + j - 1) THEN full[i] ELSE Junk) = f
    BY <1>5 DEF Seqn
  <2> QED BY <2>1 DEF Gemma4Layers, full, ring, n
<1> HIDE DEF f
<1>7. IsCache(k.cache) /\ SameEnds(c, k.cache)
  <2> DEFINE feat == WriteFeatures(c.feat, base, n)
  <2>1. k.cache = [c EXCEPT !.kv = WriteRows(c.kv, base, Rows(toks, f)), !.ring = ring, !.feat = feat]
    BY <1>6
  <2> HIDE DEF k, feat
  <2>2. IsCache([c EXCEPT !.kv = WriteRows(c.kv, base, Rows(toks, f)), !.ring = ring, !.feat = feat])
    BY WriteCache
  <2>3. SameEnds(c, k.cache) BY <2>1 DEF SameEnds, IsCache
  <2> QED BY <2>1, <2>2, <2>3
<1>8. gemma4_step(c, toks, base) = [k EXCEPT !.cache.cur_pos = base + n] BY DEF gemma4_step, n
<1> HIDE DEF k
<1>9. /\ gemma4_step(c, toks, base).cache = [k.cache EXCEPT !.cur_pos = base + n]
      /\ gemma4_step(c, toks, base).out = k.out
  BY <1>6, <1>8
<1>10. IsOut(k.out, n) BY <1>3, <1>4, <1>6 DEF IsOut
<1> QED BY <1>7, <1>9, <1>10 DEF IsCache, SameEnds, n

LEMMA GraphEnds ==
  ASSUME NEW c, IsCache(c), NEW toks, NEW base
  PROVE  SameEnds(c, Qwen35Graph(c, toks, base).cache)
<1>1. PICK kv, ssm, feat : Qwen35Graph(c, toks, base).cache
                             = [c EXCEPT !.kv = kv, !.ssm = ssm, !.feat = feat]
  BY DEF Qwen35Graph
<1> QED BY <1>1 DEF SameEnds, IsCache

\* A pass that fails leaves a cache.
LEMMA FailedType ==
  ASSUME NEW c, IsCache(c), NEW base \in Nat
  PROVE  /\ IsCache(FailedPass(c, base)) /\ SameEnds(c, FailedPass(c, base))
         /\ IsCache(Qwen35FailedPass(c, base)) /\ SameEnds(c, Qwen35FailedPass(c, base))
<1> DEFINE n == Lesser(base, Len(c.kv))
           kv == SubSeq(c.kv, 1, n)
<1>1. c.kv \in Seq(Row) /\ Len(c.kv) \in Nat /\ Len(c.kv) <= MaxCtx /\ MaxCtx \in Nat
  BY SizesAreNat DEF IsCache
<1>2. n \in 0..Len(c.kv) BY <1>1 DEF Lesser
<1> HIDE DEF n
<1>3. kv \in Seq(Row) /\ Len(kv) = n BY <1>1, <1>2
<1>4. Len(kv) <= MaxCtx BY <1>1, <1>2, <1>3
<1>5. PICK ring, feat : FailedPass(c, base) = [c EXCEPT !.kv = kv, !.ring = ring, !.feat = feat]
  BY DEF FailedPass, n
<1>6. Qwen35FailedPass(c, base) = [FailedPass(c, base) EXCEPT !.ssm = Junk] BY DEF Qwen35FailedPass
<1> HIDE DEF kv
<1>7. IsCache(FailedPass(c, base)) /\ SameEnds(c, FailedPass(c, base))
  BY <1>3, <1>4, <1>5 DEF IsCache, SameEnds
<1> QED BY <1>6, <1>7 DEF IsCache, SameEnds

\* The tokens that may be picked from what a pass computes.
LEMMA OutPicks ==
  ASSUME NEW out, NEW n \in Nat \ {0}, IsOut(out, n)
  PROVE  /\ Pick(Last(out)) \subseteq Tokens /\ Pick(out[1]) \subseteq Tokens
         /\ Picks(out) \subseteq [1..n -> Tokens]
         /\ Len(out) = n
<1>1. out \in [1..n -> {out[i] : i \in 1..n}] BY DEF IsOut
<1>2. Len(out) = n /\ DOMAIN out = 1..n BY <1>1
<1>3. IsContext(out[1]) /\ IsContext(out[n]) BY DEF IsOut
<1>4. Last(out) = out[n] BY <1>2 DEF Last
<1> QED BY <1>2, <1>3, <1>4, PickFacts DEF Picks

-----------------------------------------------------------------------------
(* Snapshots and the mirror *)

\* The shape of a snapshot.
IsSnap(s) ==
  /\ s \in [used: BOOLEAN, thin: BOOLEAN, kv: {s.kv}, ring: {s.ring}, ssm: {s.ssm},
            feat: {s.feat}, cur_pos: Nat, last_tok: Tokens \cup {-1}]
  /\ s.kv \in Seq(Row) /\ Len(s.kv) <= MaxCtx

LEMMA NoSnapType == IsSnap(NoSnap)
<1>1. <<>> \in Seq(Row) /\ Len(<<>>) = 0 OBVIOUS
<1>2. 0 <= MaxCtx BY SizesAreNat
<1> QED BY <1>1, <1>2 DEF IsSnap, NoSnap

LEMMA SaveType ==
  ASSUME NEW c, IsCache(c), c.cur_pos \in Nat, c.last_tok \in Tokens \cup {-1}
  PROVE  /\ IsSnap(Qwen3Save(c)) /\ Qwen3Save(c).used /\ Qwen3Save(c).cur_pos = c.cur_pos
         /\ c.cur_pos <= MaxCtx =>
              \A s \in {snapshot_target_cache(c), snapshot_target_cache_thin(c), Gemma4Save(c),
                        laguna_snapshot_save(c)} :
                /\ IsSnap(s) /\ s.used /\ Len(s.kv) = c.cur_pos /\ s.cur_pos = c.cur_pos
                /\ s.thin \/ s = laguna_snapshot_save(c) \/ s.last_tok = c.last_tok
<1>1. IsSnap(Qwen3Save(c)) /\ Qwen3Save(c).used /\ Qwen3Save(c).cur_pos = c.cur_pos
  BY DEF Qwen3Save, IsSnap, NoSnap, IsCache
<1>2. ASSUME c.cur_pos <= MaxCtx
      PROVE  \A s \in {snapshot_target_cache(c), snapshot_target_cache_thin(c), Gemma4Save(c),
                       laguna_snapshot_save(c)} :
               /\ IsSnap(s) /\ s.used /\ Len(s.kv) = c.cur_pos /\ s.cur_pos = c.cur_pos
               /\ s.thin \/ s = laguna_snapshot_save(c) \/ s.last_tok = c.last_tok
  <2> DEFINE kv == Upto(c.kv, c.cur_pos)
             Saved(s) == /\ IsSnap(s) /\ s.used /\ Len(s.kv) = c.cur_pos /\ s.cur_pos = c.cur_pos
                         /\ s.thin \/ s = laguna_snapshot_save(c) \/ s.last_tok = c.last_tok
  <2>1. kv \in Seq(Row) /\ Len(kv) = c.cur_pos /\ Len(kv) <= MaxCtx BY <1>2, UptoFacts DEF IsCache
  <2> HIDE DEF kv
  <2>2. Saved(snapshot_target_cache(c))
    <3>1. PICK feat : snapshot_target_cache(c)
            = [used |-> TRUE, thin |-> FALSE, kv |-> kv, ring |-> <<>>, ssm |-> c.ssm,
               feat |-> feat, cur_pos |-> c.cur_pos, last_tok |-> c.last_tok]
      BY DEF snapshot_target_cache, kv
    <3> QED BY <2>1, <3>1 DEF IsSnap
  <2>3. Saved(snapshot_target_cache_thin(c))
    BY <2>1 DEF snapshot_target_cache_thin, kv, IsSnap, NoSnap
  <2>4. Saved(Gemma4Save(c))
    <3>1. PICK feat, ring : Gemma4Save(c)
            = [used |-> TRUE, thin |-> FALSE, kv |-> kv, ring |-> ring, ssm |-> <<>>,
               feat |-> feat, cur_pos |-> c.cur_pos, last_tok |-> c.last_tok]
      BY DEF Gemma4Save, kv
    <3> QED BY <2>1, <3>1 DEF IsSnap
  <2>5. Saved(laguna_snapshot_save(c))
    BY <2>1 DEF laguna_snapshot_save, kv, IsSnap, NoSnap
  <2> QED BY <2>2, <2>3, <2>4, <2>5
<1> QED BY <1>1, <1>2

LEMMA RestoreType ==
  ASSUME NEW c, IsCache(c), NEW s, IsSnap(s)
  PROVE  /\ IsCache(restore_target_cache(s, c))
         /\ restore_target_cache(s, c).last_tok = IF s.thin THEN c.last_tok ELSE s.last_tok
         /\ IsCache(Gemma4Restore(s, c)) /\ Gemma4Restore(s, c).cur_pos = s.cur_pos
         /\ Gemma4Restore(s, c).last_tok = s.last_tok
         /\ IsCache(Qwen3Restore(s, c)) /\ Qwen3Restore(s, c).cur_pos = s.cur_pos
         /\ Qwen3Restore(s, c).last_tok = c.last_tok
         /\ s.cur_pos <= Len(s.kv) =>
              /\ IsCache(laguna_snapshot_restore(s, c))
              /\ laguna_snapshot_restore(s, c).cur_pos = s.cur_pos
              /\ laguna_snapshot_restore(s, c).last_tok = c.last_tok
<1>1. IsCache(restore_target_cache(s, c))
      /\ restore_target_cache(s, c).last_tok = IF s.thin THEN c.last_tok ELSE s.last_tok
  <2>1. PICK feat : restore_target_cache(s, c)
          = IF s.thin THEN c
            ELSE [c EXCEPT !.kv = s.kv, !.ssm = s.ssm, !.feat = feat, !.cur_pos = s.cur_pos,
                           !.last_tok = s.last_tok]
    BY DEF restore_target_cache
  <2>2. CASE s.thin BY <2>1, <2>2
  <2>3. CASE ~s.thin BY <2>1, <2>3 DEF IsCache, IsSnap
  <2> QED BY <2>2, <2>3
<1>2. IsCache(Gemma4Restore(s, c)) /\ Gemma4Restore(s, c).cur_pos = s.cur_pos
      /\ Gemma4Restore(s, c).last_tok = s.last_tok
  <2>1. PICK feat, ring : Gemma4Restore(s, c)
          = [c EXCEPT !.kv = s.kv, !.ring = ring, !.feat = feat, !.cur_pos = s.cur_pos,
                      !.last_tok = s.last_tok]
    BY DEF Gemma4Restore
  <2> QED BY <2>1 DEF IsCache, IsSnap
<1>3. IsCache(Qwen3Restore(s, c)) /\ Qwen3Restore(s, c).cur_pos = s.cur_pos
      /\ Qwen3Restore(s, c).last_tok = c.last_tok
  BY DEF Qwen3Restore, IsCache, IsSnap
<1>4. ASSUME s.cur_pos <= Len(s.kv)
      PROVE  /\ IsCache(laguna_snapshot_restore(s, c))
             /\ laguna_snapshot_restore(s, c).cur_pos = s.cur_pos
             /\ laguna_snapshot_restore(s, c).last_tok = c.last_tok
  <2> DEFINE kv == SubSeq(s.kv, 1, s.cur_pos)
  <2>1. s.cur_pos \in 0..Len(s.kv) /\ s.kv \in Seq(Row) /\ Len(s.kv) <= MaxCtx
    BY <1>4 DEF IsSnap
  <2>2. kv \in Seq(Row) /\ Len(kv) <= MaxCtx BY <2>1, SizesAreNat
  <2>3. laguna_snapshot_restore(s, c) = [c EXCEPT !.kv = kv, !.cur_pos = s.cur_pos]
    BY DEF laguna_snapshot_restore
  <2> HIDE DEF kv
  <2> QED BY <2>2, <2>3 DEF IsCache
<1> QED BY <1>1, <1>2, <1>3, <1>4

LEMMA SeqnLen ==
  ASSUME NEW n \in Nat, NEW f, f = [i \in 1..n |-> f[i]]
  PROVE  SubSeq(f, 1, n) = f /\ Len(f) = n
<1>1. SubSeq(f, 1, n) = f BY WholeFunction
<1>2. f \in [1..n -> {f[i] : i \in 1..n}] OBVIOUS
<1> QED BY <1>1, <1>2

\* The mirror keeps its size.
LEMMA MirrorSize ==
  ASSUME NEW m, Len(m) = RingCap, NEW c, NEW start, NEW n
  PROVE  Len(sync_range(m, c, start, n)) = RingCap /\ Len(sync_tail(m, c, n)) = RingCap
<1>1. RingCap \in Nat BY SizesAreNat
<1>2. ASSUME NEW b, NEW k PROVE Len(sync_range(m, c, b, k)) = RingCap
  <2> DEFINE f == [s \in 1..RingCap |->
                     LET p == b + ((s - 1 - b) % RingCap)
                     IN  IF p < b + k THEN Feature(c, p) ELSE m[s]]
  <2>1. sync_range(m, c, b, k) = IF k > RingCap THEN m ELSE SubSeq(f, 1, RingCap)
    BY DEF sync_range, Seqn
  <2>2. f = [s \in 1..RingCap |-> f[s]] OBVIOUS
  <2> HIDE DEF f
  <2>3. Len(SubSeq(f, 1, RingCap)) = RingCap BY <1>1, <2>2, SeqnLen
  <2> QED BY <2>1, <2>3
<1> QED BY <1>2 DEF sync_tail

-----------------------------------------------------------------------------
(* Right passes of the transformers *)

\* laguna and qwen3: a pass over what follows the context the rows begin with.
LEMMA KvGraphRight ==
  ASSUME NEW c, IsCache(c), NEW ctx \in Seq(Tokens), Begins(c.kv, ctx),
         NEW toks \in Seq(Tokens), Len(ctx) + Len(toks) <= MaxCtx
  PROVE  /\ OutRight(KvGraph(c, toks, Len(ctx)).out, ctx, toks)
         /\ KvGraph(c, toks, Len(ctx)).cache.kv = ctx \o toks
         /\ KvGraph(c, toks, Len(ctx)).cache.ring = c.ring
<1> DEFINE o == [i \in 1..Len(toks) |-> ctx \o SubSeq(toks, 1, i)]
<1>1. c.kv \in Seq(Row) BY DEF IsCache
<1>2. FullAttention(c.kv, Len(ctx), toks) = o /\ \A i \in 1..Len(toks) : o[i] # Junk
  BY <1>1, AttentionRight
<1>3. \A i \in 1..Len(toks) : o[i] = ctx \o SubSeq(toks, 1, i) OBVIOUS
<1> HIDE DEF o
<1>4. WriteRows(c.kv, Len(ctx), Rows(toks, o)) = ctx \o toks BY <1>1, <1>2, RowsRight
<1> QED BY <1>2, <1>3, <1>4 DEF KvGraph, IsCache, OutRight

\* Slots of a ring: positions less than a window apart have slots of their own.
LEMMA WindowSlots ==
  /\ Window \in Nat \ {0}
  /\ \A q \in Nat : q % Window \in 0..(Window - 1) /\ (q < Window => q % Window = q)
  /\ \A p \in Nat, q \in Nat : q < p /\ p < q + Window => p % Window # q % Window
<1>1. Window \in Nat \ {0} BY SizesAreNat
<1>2. ASSUME NEW q \in Nat
      PROVE  /\ q % Window \in 0..(Window - 1) /\ q \div Window \in Nat
             /\ q = Window * (q \div Window) + (q % Window)
             /\ q < Window => q % Window = q
  BY <1>1
<1>3. ASSUME NEW p \in Nat, NEW q \in Nat, q < p, p < q + Window, p % Window = q % Window
      PROVE  FALSE
  <2> DEFINE x == p \div Window
             y == q \div Window
  <2>1. x \in Nat /\ y \in Nat /\ p - q = Window * x - Window * y BY <1>1, <1>2, <1>3
  <2> HIDE DEF x, y
  <2>2. CASE x <= y
    <3>1. Window * x <= Window * y BY <1>1, <2>1, <2>2
    <3> QED BY <1>1, <1>3, <2>1, <3>1
  <2>3. CASE x >= y + 1
    <3>1. Window * x >= Window * (y + 1) BY <1>1, <2>1, <2>3
    <3>2. Window * (y + 1) = Window * y + Window BY <1>1, <2>1
    <3>3. Window * x \in Int /\ Window * y \in Int BY <1>1, <2>1
    <3> QED BY <1>1, <1>3, <2>1, <3>1, <3>2, <3>3
  <2> QED BY <2>1, <2>2, <2>3
<1> QED BY <1>1, <1>2, <1>3

\* The last positions of the first n are in their slots.
InRing(ring, n) == \A q \in 0..(n - 1) : n - Window <= q => ring[(q % Window) + 1] = q

\* A batch that stays within the window, or a single token, finds its window.
LEMMA RingRight ==
  ASSUME NEW ring, NEW n \in Nat, InRing(ring, n), NEW k \in Nat \ {0},
         n + k <= Window \/ k = 1
  PROVE  /\ Len(WriteWindow(ring, n, k)) = Window
         /\ InRing(WriteWindow(ring, n, k), n + k)
         /\ \A j \in 1..k : WindowAttention(WriteWindow(ring, n, k), n + j - 1)
<1> DEFINE first == n % Window
           r == [s \in 1..Window |->
                   CASE s > first /\ s <= first + k -> n + s - 1 - first
                     [] s + Window <= first + k     -> Empty
                     [] OTHER                       -> Live(ring[s], n + k)]
<1>1. Window \in Nat \ {0} /\ first \in 0..(Window - 1) BY WindowSlots
<1>2. WriteWindow(ring, n, k) = r /\ Len(r) = Window
  <2>1. r = [i \in 1..Window |-> r[i]] OBVIOUS
  <2>2. WriteWindow(ring, n, k) = SubSeq(r, 1, Window) BY DEF WriteWindow, Seqn
  <2> HIDE DEF r
  <2> QED BY <1>1, <2>1, <2>2, SeqnLen
<1>3. ASSUME NEW q \in 0..(n + k - 1), n + k - Window <= q
      PROVE  r[(q % Window) + 1] = q
  <2> DEFINE s == (q % Window) + 1
  <2>1. q \in Nat /\ s \in 1..Window BY <1>1, WindowSlots
  <2>2. r[s] = CASE s > first /\ s <= first + k -> n + s - 1 - first
                 [] s + Window <= first + k     -> Empty
                 [] OTHER                       -> Live(ring[s], n + k)
    BY <2>1
  <2> HIDE DEF r
  <2>3. CASE n + k <= Window
    <3>0. n < Window /\ q < Window BY <1>1, <2>1, <2>3
    <3>1. first = n /\ s = q + 1 BY <2>1, <3>0, WindowSlots
    <3>2. CASE q >= n
      <4> HIDE DEF first, s
      <4>1. s > first /\ s <= first + k BY <2>1, <3>1, <3>2
      <4>0. ~(s + Window <= first + k) BY <1>1, <2>1, <2>3, <3>1
      <4>2. r[s] = n + s - 1 - first BY <2>2, <4>0, <4>1
      <4>3. r[s] = q BY <2>1, <3>1, <4>2
      <4> QED BY <4>3 DEF s
    <3>3. CASE q < n
      <4>1. ring[s] = q BY <1>1, <2>1, <2>3, <3>3 DEF InRing
      <4> QED BY <1>1, <2>1, <2>2, <2>3, <3>1, <3>3, <4>1 DEF Live
    <3> QED BY <2>1, <3>2, <3>3
  <2>4. CASE k = 1
    <3>1. CASE q = n BY <1>1, <2>1, <2>2, <2>4, <3>1
    <3>2. CASE q < n
      <4>1. n < q + Window BY <1>1, <1>3, <2>1, <2>4
      <4>2. first # q % Window BY <2>1, <3>2, <4>1, WindowSlots
      <4>3. ring[s] = q BY <1>1, <1>3, <2>1, <2>4, <3>2 DEF InRing
      <4>4. r[s] = Live(ring[s], n + k)
        <5>1. ~(s > first /\ s <= first + k) BY <1>1, <2>1, <2>4, <4>2
        <5>2. ~(s + Window <= first + k) BY <1>1, <2>1, <2>4
        <5> HIDE DEF first, s
        <5> QED BY <2>2, <5>1, <5>2
      <4> QED BY <2>1, <2>4, <3>2, <4>3, <4>4 DEF Live
    <3> QED BY <1>3, <2>1, <2>4, <3>1, <3>2
  <2> QED BY <2>3, <2>4
<1> HIDE DEF r
<1>4. InRing(r, n + k)
  <2> HIDE DEF first
  <2> SUFFICES ASSUME NEW q \in 0..((n + k) - 1), (n + k) - Window <= q PROVE r[(q % Window) + 1] = q
    BY DEF InRing
  <2>1. q \in 0..(n + k - 1) /\ n + k - Window <= q BY <1>1
  <2> QED BY <1>3, <2>1
<1>5. ASSUME NEW j \in 1..k PROVE WindowAttention(r, n + j - 1)
  <2> DEFINE p == n + j - 1
             low == IF p < Window THEN 0 ELSE p - Window + 1
  <2>1. p \in Nat /\ low \in Nat BY <1>1
  <2>2. ASSUME NEW q \in low..p PROVE r[(q % Window) + 1] = q
    <3>1. q \in 0..(n + k - 1) BY <1>1, <2>1
    <3>2. n + k - Window <= q BY <1>1, <2>1
    <3> QED BY <1>3, <3>1, <3>2
  <2> QED BY <2>2 DEF WindowAttention
<1> QED BY <1>2, <1>4, <1>5

\* What gemma4's rows and ring hold for a context.
InWindowRight(c, ctx) == Begins(c.kv, ctx) /\ InRing(c.ring, Len(ctx))

LEMMA Gemma4Right ==
  ASSUME NEW c, IsCache(c), NEW ctx \in Seq(Tokens), InWindowRight(c, ctx),
         NEW toks \in Seq(Tokens), toks # <<>>, Len(ctx) + Len(toks) <= MaxCtx,
         Len(ctx) + Len(toks) <= Window \/ Len(toks) = 1
  PROVE  LET g == gemma4_step(c, toks, Len(ctx))
         IN  /\ OutRight(g.out, ctx, toks)
             /\ g.cache.kv = ctx \o toks /\ Len(g.cache.ring) = Window
             /\ InRing(g.cache.ring, Len(ctx) + Len(toks))
<1> DEFINE base == Len(ctx)
           n == Len(toks)
           o == [i \in 1..n |-> ctx \o SubSeq(toks, 1, i)]
           ring == WriteWindow(c.ring, base, n)
           seen(i) == \A j \in 1..i : WindowAttention(ring, base + j - 1)
           out == [i \in 1..n |-> IF seen(i) THEN o[i] ELSE Junk]
<1>1. c.kv \in Seq(Row) /\ base \in Nat /\ n \in Nat \ {0} BY DEF IsCache
<1>2. FullAttention(c.kv, base, toks) = o /\ \A i \in 1..n : o[i] # Junk
  BY <1>1, AttentionRight DEF InWindowRight
<1>3. \A i \in 1..n : o[i] = ctx \o SubSeq(toks, 1, i) OBVIOUS
<1>4. /\ Len(ring) = Window /\ InRing(ring, base + n)
      /\ \A j \in 1..n : WindowAttention(ring, base + j - 1)
  <2> HIDE DEF base, n
  <2> QED BY <1>1, RingRight DEF InWindowRight, base, n
<1> HIDE DEF o, ring
<1>5. \A i \in 1..n : out[i] = o[i]
  <2> TAKE i \in 1..n
  <2>1. \A j \in 1..i : j \in 1..n BY <1>1
  <2>2. seen(i) BY <1>4, <2>1
  <2> QED BY <2>2
<1>6. SubSeq([i \in 1..n |-> IF seen(i) THEN o[i] ELSE Junk], 1, n) = out
  <2>1. out = [i \in 1..n |-> out[i]] OBVIOUS
  <2> HIDE DEF out, seen
  <2> QED BY <1>1, <2>1, WholeFunction DEF out
<1>7. /\ gemma4_step(c, toks, base).out = out
      /\ gemma4_step(c, toks, base).cache
           = [[c EXCEPT !.kv = WriteRows(c.kv, base, Rows(toks, out)), !.ring = ring,
                        !.feat = WriteFeatures(c.feat, base, n)] EXCEPT !.cur_pos = base + n]
  BY <1>2, <1>6 DEF gemma4_step, Gemma4Layers, Seqn, ring
<1> HIDE DEF out
<1>8. WriteRows(c.kv, base, Rows(toks, out)) = ctx \o toks
  <2>1. \A i \in 1..n : out[i] # Junk BY <1>2, <1>5
  <2> QED BY <1>1, <2>1, RowsRight DEF InWindowRight
<1>9. gemma4_step(c, toks, base).cache.kv = ctx \o toks /\ gemma4_step(c, toks, base).cache.ring = ring
  BY <1>7, <1>8 DEF IsCache
<1> QED BY <1>3, <1>4, <1>5, <1>7, <1>9 DEF OutRight

-----------------------------------------------------------------------------
(* Saving and restoring *)

\* The rows of a prefix, and nothing else, are copied.
LEMMA UptoRight ==
  ASSUME NEW kv \in Seq(Row), NEW ctx \in Seq(Tokens), Begins(kv, ctx), NEW n \in 0..Len(ctx)
  PROVE  Upto(kv, n) = SubSeq(ctx, 1, n)
<1> DEFINE u == Upto(kv, n)
           p == SubSeq(ctx, 1, n)
<1>1. /\ u \in Seq(Row) /\ Len(u) = n
      /\ \A i \in 1..n : i <= Len(kv) => u[i] = kv[i]
  <2>1. n \in Nat OBVIOUS
  <2> QED BY <2>1, UptoFacts
<1>2. p \in Seq(Tokens) /\ Len(p) = n /\ \A i \in 1..n : p[i] = ctx[i] OBVIOUS
<1> HIDE DEF u, p
<1>3. p \in Seq(Row) BY <1>2, RowFacts
<1>4. \A i \in 1..n : u[i] = p[i] BY <1>1, <1>2 DEF Begins
<1>5. u = p BY <1>1, <1>2, <1>3, <1>4, SeqEqual
<1> QED BY <1>5 DEF u, p

\* The first slots of a ring hold the first positions.
FirstPositions(ring, n) == \A q \in 1..n : ring[q] = q - 1

LEMMA SlotsSaved ==
  ASSUME NEW ring, Len(ring) = Window, NEW n \in Nat, n <= Window, InRing(ring, n), NEW m \in 0..n
  PROVE  FirstPositions(FirstSlots(ring, m), m)
<1> DEFINE r == [s \in 1..Window |-> IF s <= m THEN ring[s] ELSE Empty]
<1>1. Window \in Nat \ {0} BY WindowSlots
<1>2. FirstSlots(ring, m) = r
  <2>1. r = [i \in 1..Window |-> r[i]] OBVIOUS
  <2>2. FirstSlots(ring, m) = SubSeq(r, 1, Window) BY DEF FirstSlots, Seqn
  <2> HIDE DEF r
  <2> QED BY <1>1, <2>1, <2>2, WholeFunction
<1>3. ASSUME NEW q \in 1..m PROVE r[q] = q - 1
  <2>1. q - 1 \in 0..(n - 1) /\ n - Window <= q - 1 /\ q - 1 < Window /\ q \in 1..Window BY <1>1
  <2>2. (q - 1) % Window = q - 1
    <3> DEFINE x == q - 1
    <3>1. x \in Nat /\ x < Window BY <2>1
    <3> HIDE DEF x
    <3>2. x % Window = x BY <3>1, WindowSlots
    <3> QED BY <3>2 DEF x
  <2>3. ring[(q - 1) + 1] = q - 1 BY <2>1, <2>2 DEF InRing
  <2>4. (q - 1) + 1 = q OBVIOUS
  <2> QED BY <2>1, <2>3, <2>4
<1> HIDE DEF r
<1> QED BY <1>2, <1>3 DEF FirstPositions

LEMMA SlotsBack ==
  ASSUME NEW ring, Len(ring) = Window, NEW from, NEW n \in Nat, n <= Window, FirstPositions(from, n)
  PROVE  Len(PutSlots(ring, from, n)) = Window /\ InRing(PutSlots(ring, from, n), n)
<1> DEFINE r == [s \in 1..Window |-> Live(IF s <= n THEN from[s] ELSE ring[s], n)]
<1>1. Window \in Nat \ {0} BY WindowSlots
<1>2. PutSlots(ring, from, n) = r /\ Len(r) = Window
  <2>1. r = [i \in 1..Window |-> r[i]] OBVIOUS
  <2>2. PutSlots(ring, from, n) = SubSeq(r, 1, Window) BY DEF PutSlots, Seqn
  <2> HIDE DEF r
  <2> QED BY <1>1, <2>1, <2>2, SeqnLen
<1>3. ASSUME NEW q \in 0..(n - 1) PROVE r[(q % Window) + 1] = q
  <2>1. q \in Nat /\ q < Window /\ q + 1 \in 1..n /\ q + 1 \in 1..Window BY <1>1
  <2>2. q % Window = q BY <2>1, WindowSlots
  <2>3. from[q + 1] = q BY <2>1 DEF FirstPositions
  <2>4. r[q + 1] = Live(from[q + 1], n) BY <2>1
  <2> QED BY <2>1, <2>2, <2>3, <2>4 DEF Live
<1> HIDE DEF r
<1> QED BY <1>2, <1>3 DEF InRing

\* However its slots are written, a ring keeps its length.
LEMMA RingLengths ==
  ASSUME NEW ring, Len(ring) = Window, NEW from, NEW n, NEW pos, NEW k
  PROVE  /\ Len(PutSlots(ring, from, n)) = Window /\ Len(WriteWindow(ring, pos, k)) = Window
         /\ Len(Blank(Len(ring), Empty)) = Window
<1>1. Window \in Nat BY SizesAreNat
<1>2. Len(PutSlots(ring, from, n)) = Window
  <2> DEFINE f == [s \in 1..Window |-> Live(IF s <= n THEN from[s] ELSE ring[s], n)]
  <2>1. PutSlots(ring, from, n) = SubSeq(f, 1, Window) BY DEF PutSlots, Seqn
  <2>2. f = [s \in 1..Window |-> f[s]] OBVIOUS
  <2> HIDE DEF f
  <2> QED BY <1>1, <2>1, <2>2, SeqnLen
<1>3. Len(WriteWindow(ring, pos, k)) = Window
  <2> DEFINE first == pos % Window
             f == [s \in 1..Window |->
                     CASE s > first /\ s <= first + k -> pos + s - 1 - first
                       [] s + Window <= first + k     -> Empty
                       [] OTHER                       -> Live(ring[s], pos + k)]
  <2>1. WriteWindow(ring, pos, k) = SubSeq(f, 1, Window) BY DEF WriteWindow, Seqn
  <2>2. f = [s \in 1..Window |-> f[s]] OBVIOUS
  <2> HIDE DEF f
  <2> QED BY <1>1, <2>1, <2>2, SeqnLen
<1>4. Len(Blank(Len(ring), Empty)) = Window
  <2>1. Blank(Window, Empty) = [i \in 1..Window |-> Empty] BY <1>1, BlankFacts
  <2> QED BY <1>1, <2>1
<1> QED BY <1>2, <1>3, <1>4

\* The kept slots of the restored prefix are seen again.
LEMMA Gemma4Saved ==
  ASSUME NEW c, IsCache(c), Len(c.ring) = Window, NEW ctx \in Seq(Tokens), InWindowRight(c, ctx),
         Len(ctx) <= Window, NEW n \in 0..Len(ctx), c.cur_pos = n
  PROVE  LET s == Gemma4Save(c)
         IN  s.kv = SubSeq(ctx, 1, n) /\ FirstPositions(s.ring, n)
<1>1. c.kv \in Seq(Row) /\ Len(ctx) \in Nat BY DEF IsCache
<1>2. Upto(c.kv, n) = SubSeq(ctx, 1, n) BY <1>1, UptoRight DEF InWindowRight
<1>3. FirstPositions(FirstSlots(c.ring, n), n)
  <2> DEFINE N == Len(ctx)
  <2>1. N \in Nat /\ N <= Window /\ InRing(c.ring, N) /\ n \in 0..N BY <1>1 DEF InWindowRight
  <2> HIDE DEF N
  <2> QED BY <2>1, SlotsSaved
<1> QED BY <1>2, <1>3 DEF Gemma4Save

-----------------------------------------------------------------------------
(* The acceptance rule *)

LEMMA BlockFacts ==
  ASSUME NEW last, NEW d \in BlocksAfter(last)
  PROVE  /\ last \in Tokens /\ d \in Seq(Tokens) /\ Len(d) = QLen /\ d # <<>> /\ d[1] = last
<1>1. last \in Tokens BY DEF BlocksAfter
<1>2. PICK e \in [1 .. QLen - 1 -> Tokens] : d = <<last>> \o e BY <1>1 DEF BlocksAfter
<1>3. QLen \in Nat /\ QLen - 1 \in Nat BY BlockSize
<1>4. e \in Seq(Tokens) /\ Len(e) = QLen - 1 BY <1>3
<1>5. <<last>> \in Seq(Tokens) /\ Len(<<last>>) = 1 /\ (<<last>>)[1] = last BY <1>1
<1> DEFINE h == <<last>>
<1>6. h \in Seq(Tokens) /\ Len(h) = 1 /\ h[1] = last BY <1>5
<1> HIDE DEF h
<1>7. /\ h \o e \in Seq(Tokens) /\ Len(h \o e) = Len(h) + Len(e)
      /\ \A i \in 1..(Len(h) + Len(e)) :
           (h \o e)[i] = IF i <= Len(h) THEN h[i] ELSE e[i - Len(h)]
  BY <1>4, <1>6, ConcatProperties
<1>8. d = h \o e BY <1>2 DEF h
<1>9. Len(h) + Len(e) = QLen /\ 1 \in 1..QLen BY <1>4, <1>6, BlockSize
<1>10. Len(d) = QLen /\ d[1] = last BY <1>6, <1>7, <1>8, <1>9
<1>11. d # <<>> BY <1>10, <1>9, <1>3
<1> QED BY <1>1, <1>7, <1>8, <1>10, <1>11

\* What is accepted is a prefix of the block that the target agrees with.
LEMMA AcceptFacts ==
  ASSUME NEW d, NEW t
  PROVE  /\ AcceptN(d, t) \in 1..QLen
         /\ \A i \in 1..(AcceptN(d, t) - 1) : d[i + 1] = t[i]
<1> DEFINE good == {n \in 1 .. QLen : \A i \in 1 .. n - 1 : d[i + 1] = t[i]}
<1>1. QLen \in Nat /\ 1 \in 1..QLen BY BlockSize
<1>2. good \in SUBSET (0..QLen) /\ good # {}
  <2>1. 1 \in good BY <1>1
  <2> QED BY <1>1, <2>1
<1>3. Max(good) \in good
  <2> HIDE DEF good
  <2> QED BY <1>1, <1>2, GreatestNat
<1> QED BY <1>3 DEF AcceptN

LEMMA CommitFacts ==
  ASSUME NEW a \in 1..QLen, NEW budget \in Nat \ {0}
  PROVE  /\ CommitN(a, budget) \in 1..QLen /\ CommitN(a, budget) <= budget
         /\ CommitN(a, budget) <= a + 1
<1> DEFINE b == IF a < QLen THEN a + 1 ELSE a
<1>1. b \in 1..QLen /\ b <= a + 1 BY BlockSize
<1>2. CommitN(a, budget) = Min({budget, b}) BY DEF CommitN
<1> HIDE DEF b
<1>3. Min({budget, b}) \in {budget, b} /\ Min({budget, b}) <= budget /\ Min({budget, b}) <= b
  <2>1. \E x \in {budget, b} : \A y \in {budget, b} : x =< y
    <3>1. CASE budget <= b BY <1>1, <3>1
    <3>2. CASE ~(budget <= b) BY <1>1, <3>2
    <3> QED BY <3>1, <3>2
  <2> QED BY <2>1 DEF Min
<1> QED BY <1>1, <1>2, <1>3, BlockSize

LEMMA CommitTokensFacts ==
  ASSUME NEW d \in Seq(Tokens), Len(d) = QLen, NEW t \in [1..QLen -> Tokens],
         NEW a \in 1..QLen, NEW n \in 1..QLen
  PROVE  /\ CommitTokens(d, t, a, n) \in Seq(Tokens) /\ Len(CommitTokens(d, t, a, n)) = n
         /\ CommitTokens(d, t, a, n) # <<>>
         /\ \A i \in 1..n : CommitTokens(d, t, a, n)[i] = IF i <= a THEN d[i] ELSE t[a]
<1> DEFINE f == [i \in 1..n |-> IF i <= a THEN d[i] ELSE t[a]]
<1>1. \A i \in 1..n : (IF i <= a THEN d[i] ELSE t[a]) \in Tokens BY BlockSize
<1>2. f \in [1..n -> Tokens] BY <1>1
<1>3. \A i \in 1..n : f[i] = IF i <= a THEN d[i] ELSE t[a] OBVIOUS
<1>4. CommitTokens(d, t, a, n) = f BY DEF CommitTokens
<1> HIDE DEF f
<1>5. f \in Seq(Tokens) /\ Len(f) = n BY <1>2
<1>6. f # <<>> BY <1>5
<1> QED BY <1>3, <1>4, <1>5, <1>6

-----------------------------------------------------------------------------
(* The greedy continuation of a context *)

GreedyAfter(ctx, w) == \A i \in 1..Len(w) : w[i] = Predict(ctx \o SubSeq(w, 1, i - 1))

LEMMA SamePrefix ==
  ASSUME NEW v \in Seq(Tokens), NEW w \in Seq(Tokens), NEW n \in Nat,
         n <= Len(v), n <= Len(w), \A i \in 1..n : v[i] = w[i]
  PROVE  SubSeq(v, 1, n) = SubSeq(w, 1, n)
<1>1. /\ SubSeq(v, 1, n) \in Seq(Tokens) /\ Len(SubSeq(v, 1, n)) = n
      /\ \A i \in 1..n : SubSeq(v, 1, n)[i] = v[i]
  OBVIOUS
<1>2. /\ SubSeq(w, 1, n) \in Seq(Tokens) /\ Len(SubSeq(w, 1, n)) = n
      /\ \A i \in 1..n : SubSeq(w, 1, n)[i] = w[i]
  OBVIOUS
<1>3. \A i \in 1..n : SubSeq(v, 1, n)[i] = SubSeq(w, 1, n)[i] BY <1>1, <1>2
<1> QED BY <1>1, <1>2, <1>3, SeqEqual

\* Joining three answers.
LEMMA JoinAll ==
  ASSUME NEW a \in Seq(Tokens), NEW b \in Seq(Tokens), NEW c \in Seq(Tokens)
  PROVE  (a \o b) \o c = a \o (b \o c)
BY ConcatAssociative

\* What follows a greedy continuation greedily is part of it.
LEMMA GreedyExtends ==
  ASSUME NEW ctx \in Seq(Tokens), NEW w \in Seq(Tokens), NEW more \in Seq(Tokens),
         GreedyAfter(ctx, w), GreedyAfter(ctx \o w, more)
  PROVE  GreedyAfter(ctx, w \o more)
<1> DEFINE all == w \o more
           n == Len(w)
           m == Len(more)
<1>1. n \in Nat /\ m \in Nat OBVIOUS
<1>2. /\ all \in Seq(Tokens) /\ Len(all) = n + m
      /\ \A i \in 1..(n + m) : all[i] = IF i <= n THEN w[i] ELSE more[i - n]
  BY ConcatProperties
<1> SUFFICES ASSUME NEW i \in 1..(n + m) PROVE all[i] = Predict(ctx \o SubSeq(all, 1, i - 1))
  BY <1>2 DEF GreedyAfter
<1>3. CASE i <= n
  <2>1. w[i] = Predict(ctx \o SubSeq(w, 1, i - 1)) BY <1>1, <1>3 DEF GreedyAfter
  <2>2. SubSeq(all, 1, i - 1) = SubSeq(w, 1, i - 1)
    <3>1. i - 1 \in Nat /\ i - 1 <= Len(all) /\ i - 1 <= Len(w) BY <1>1, <1>2, <1>3
    <3>2. \A j \in 1..(i - 1) : all[j] = w[j] BY <1>1, <1>2, <1>3
    <3> HIDE DEF all
    <3> QED BY <1>2, <3>1, <3>2, SamePrefix
  <2>3. all[i] = w[i] BY <1>2, <1>3
  <2> QED BY <2>1, <2>2, <2>3
<1>4. CASE i > n
  <2> DEFINE k == i - n
             front == SubSeq(more, 1, k - 1)
  <2>1. k \in 1..m BY <1>1, <1>4
  <2>2. more[k] = Predict((ctx \o w) \o front) BY <2>1 DEF GreedyAfter
  <2>3. /\ front \in Seq(Tokens) /\ Len(front) = k - 1
        /\ \A j \in 1..(k - 1) : front[j] = more[j]
    <3> HIDE DEF k
    <3> QED BY <2>1
  <2>4. (ctx \o w) \o front = ctx \o (w \o front)
    <3> HIDE DEF front
    <3> QED BY <2>3, JoinAll, ZenonT(40)
  <2>5. SubSeq(all, 1, i - 1) = w \o front
    <3>1. /\ SubSeq(all, 1, i - 1) \in Seq(Tokens) /\ Len(SubSeq(all, 1, i - 1)) = i - 1
          /\ \A j \in 1..(i - 1) : SubSeq(all, 1, i - 1)[j] = all[j]
      <4>1. i - 1 \in 0..Len(all) BY <1>1, <1>2
      <4> HIDE DEF all
      <4> QED BY <1>2, <4>1
    <3> HIDE DEF front
    <3>2. /\ w \o front \in Seq(Tokens) /\ Len(w \o front) = n + (k - 1)
          /\ \A j \in 1..(n + (k - 1)) : (w \o front)[j] = IF j <= n THEN w[j] ELSE front[j - n]
      BY <2>3, ConcatProperties
    <3>3. n + (k - 1) = i - 1 BY <1>1
    <3>4. ASSUME NEW j \in 1..(i - 1) PROVE SubSeq(all, 1, i - 1)[j] = (w \o front)[j]
      <4>1. j \in 1..(n + m) BY <1>1
      <4>2. CASE j <= n
        <5>1. all[j] = w[j] BY <1>2, <4>1, <4>2
        <5>2. (w \o front)[j] = w[j] BY <3>2, <3>3, <4>2
        <5> QED BY <3>1, <5>1, <5>2
      <4>3. CASE ~(j <= n)
        <5>1. j - n \in 1..(k - 1) BY <1>1, <4>3
        <5>2. all[j] = more[j - n] BY <1>2, <4>1, <4>3
        <5>3. (w \o front)[j] = front[j - n] BY <3>2, <3>3, <4>3
        <5>4. front[j - n] = more[j - n] BY <2>3, <5>1
        <5> QED BY <3>1, <5>2, <5>3, <5>4
      <4> QED BY <4>2, <4>3
    <3> HIDE DEF all, k
    <3> QED BY <3>1, <3>2, <3>3, <3>4, SeqEqual
  <2>6. all[i] = more[k] BY <1>1, <1>2, <1>4
  <2> QED BY <2>2, <2>4, <2>5, <2>6
<1> QED BY <1>1, <1>3, <1>4

\* One more token, the target's next.
LEMMA GreedyAppend ==
  ASSUME NEW ctx \in Seq(Tokens), NEW w \in Seq(Tokens), NEW t \in Tokens,
         GreedyAfter(ctx, w), t = Predict(ctx \o w)
  PROVE  GreedyAfter(ctx, Append(w, t))
<1> DEFINE n == Len(w)
           all == Append(w, t)
<1>1. /\ all \in Seq(Tokens) /\ Len(all) = n + 1 /\ n \in Nat /\ all[n + 1] = t
      /\ \A i \in 1..n : all[i] = w[i]
  BY AppendProperties
<1> HIDE DEF all
<1> SUFFICES ASSUME NEW i \in 1..(n + 1) PROVE all[i] = Predict(ctx \o SubSeq(all, 1, i - 1))
  BY <1>1 DEF GreedyAfter, all
<1>2. SubSeq(all, 1, i - 1) = SubSeq(w, 1, i - 1)
  <2>1. i - 1 \in Nat /\ i - 1 <= Len(all) /\ i - 1 <= Len(w) BY <1>1
  <2>2. \A j \in 1..(i - 1) : all[j] = w[j] BY <1>1
  <2> QED BY <1>1, <2>1, <2>2, SamePrefix
<1>3. CASE i <= n
  <2>1. i \in 1..Len(w) BY <1>1, <1>3
  <2>2. w[i] = Predict(ctx \o SubSeq(w, 1, i - 1)) BY <2>1 DEF GreedyAfter
  <2>3. all[i] = w[i] BY <1>1, <2>1
  <2> QED BY <1>2, <2>2, <2>3
<1>4. CASE i = n + 1
  <2>1. SubSeq(w, 1, i - 1) = w BY <1>1, <1>4, SubSeqFull
  <2> QED BY <1>1, <1>2, <1>4, <2>1
<1> QED BY <1>1, <1>3, <1>4

\* What is kept of a verified block is what the target alone would have produced.
THEOREM CommitIsGreedy ==
  ASSUME NEW ctx \in Seq(Tokens), NEW d \in Seq(Tokens), Len(d) = QLen,
         d[1] = Predict(ctx), NEW t \in [1..QLen -> Tokens],
         \A i \in 1..QLen : t[i] = Predict(ctx \o SubSeq(d, 1, i)),
         NEW n \in 1..QLen, n <= AcceptN(d, t) + 1
  PROVE  GreedyAfter(ctx, CommitTokens(d, t, AcceptN(d, t), n))
<1> DEFINE a == AcceptN(d, t)
           w == CommitTokens(d, t, a, n)
<1>1. a \in 1..QLen /\ \A i \in 1..(a - 1) : d[i + 1] = t[i] BY AcceptFacts
<1> HIDE DEF a
<1>2. /\ w \in Seq(Tokens) /\ Len(w) = n
      /\ \A i \in 1..n : w[i] = IF i <= a THEN d[i] ELSE t[a]
  <2>1. a \in 1..QLen /\ Len(d) = QLen BY <1>1
  <2>2. w \in Seq(Tokens) /\ Len(w) = n BY <2>1, CommitTokensFacts
  <2>3. ASSUME NEW i \in 1..n PROVE w[i] = IF i <= a THEN d[i] ELSE t[a]
    BY <2>1, CommitTokensFacts
  <2> QED BY <2>2, <2>3
<1> HIDE DEF w
<1> SUFFICES ASSUME NEW i \in 1..n PROVE w[i] = Predict(ctx \o SubSeq(w, 1, i - 1))
  BY <1>2 DEF GreedyAfter, w, a
<1>3. QLen \in Nat /\ i - 1 \in Nat /\ i - 1 <= a /\ i - 1 <= Len(w) /\ i - 1 <= Len(d)
  BY <1>1, <1>2, BlockSize DEF a
<1>4. SubSeq(w, 1, i - 1) = SubSeq(d, 1, i - 1)
  <2>1. \A j \in 1..(i - 1) : w[j] = d[j] BY <1>1, <1>2, <1>3
  <2> QED BY <1>2, <1>3, <2>1, SamePrefix
<1>5. CASE i = 1
  <2>1. w[i] = d[1] BY <1>1, <1>2, <1>5
  <2>2. i - 1 = 0 BY <1>5
  <2>3. SubSeq(d, 1, i - 1) = <<>> BY <2>2, SubSeqEmpty
  <2>4. ctx \o <<>> = ctx BY ConcatEmptySeq
  <2>5. ctx \o SubSeq(w, 1, i - 1) = ctx BY <1>4, <2>3, <2>4
  <2> QED BY <2>1, <2>5
<1>6. CASE i > 1 /\ i <= a
  <2>1. i - 1 \in 1..(a - 1) /\ i - 1 \in 1..QLen /\ (i - 1) + 1 = i BY <1>1, <1>3, <1>6
  <2>2. w[i] = d[i] BY <1>2, <1>6
  <2>3. d[(i - 1) + 1] = t[i - 1] BY <1>1, <2>1
  <2> QED BY <1>4, <2>1, <2>2, <2>3
<1>7. CASE i > a
  <2>1. i - 1 = a BY <1>1, <1>3, <1>7
  <2>2. w[i] = t[a] BY <1>1, <1>2, <1>7
  <2> QED BY <1>1, <1>4, <2>1, <2>2
<1> QED BY <1>1, <1>5, <1>6, <1>7

-----------------------------------------------------------------------------
(* Passes of one chunk, or of one token, and new caches *)

LEMMA MinFacts ==
  ASSUME NEW a \in Int, NEW b \in Int
  PROVE  Min({a, b}) \in {a, b} /\ Min({a, b}) <= a /\ Min({a, b}) <= b
<1>1. \E x \in {a, b} : \A y \in {a, b} : x <= y
  <2>1. CASE a <= b BY <2>1
  <2>2. CASE ~(a <= b) BY <2>2
  <2> QED BY <2>1, <2>2
<1> QED BY <1>1 DEF Min

\* The tokens of a chunk.
LEMMA ChunkFacts ==
  ASSUME NEW p \in Seq(Tokens), NEW k \in Nat, NEW n \in Nat \ {0}, k + n <= Len(p)
  PROVE  /\ SubSeq(p, k + 1, k + n) \in Seq(Tokens) /\ Len(SubSeq(p, k + 1, k + n)) = n
         /\ \A i \in 1..n : SubSeq(p, k + 1, k + n)[i] = p[k + i]
<1>1. Len(p) \in Nat OBVIOUS
<1>2. \A i \in (k + 1)..(k + n) : p[i] \in Tokens BY <1>1
<1>3. k + 1 \in Int /\ k + n \in Int /\ k + 1 <= k + n /\ (k + n) - (k + 1) + 1 = n OBVIOUS
<1>4. /\ SubSeq(p, k + 1, k + n) \in Seq(Tokens) /\ Len(SubSeq(p, k + 1, k + n)) = n
      /\ \A i \in 1..n : SubSeq(p, k + 1, k + n)[i] = p[(k + 1) + i - 1]
  BY <1>2, <1>3, SubSeqProperties
<1>5. \A i \in 1..n : (k + 1) + i - 1 = k + i OBVIOUS
<1> QED BY <1>4, <1>5

LEMMA LastOfPrompt ==
  ASSUME NEW p \in Seq(Tokens), p # <<>>
  PROVE  <<Last(p)>> \in Seq(Tokens) /\ Len(<<Last(p)>>) = 1 /\ Last(p) \in Tokens
<1>1. Len(p) \in 1..Len(p) OBVIOUS
<1>2. p[Len(p)] \in Tokens BY <1>1, ElementOfSeq
<1> QED BY <1>2 DEF Last

LEMMA Qwen35Pass ==
  ASSUME NEW c, IsCache(c), NEW toks \in Seq(Tokens), NEW base \in Nat
  PROVE  LET g == Qwen35Graph(c, toks, base)
         IN  IsCache(g.cache) /\ IsOut(g.out, Len(toks)) /\ SameEnds(c, g.cache)
<1> DEFINE g == Qwen35Graph(c, toks, base)
<1>1. /\ IsCache(g.cache)
      /\ g.out = [i \in 1..Len(toks) |-> g.out[i]] /\ \A i \in 1..Len(toks) : IsContext(g.out[i])
  BY GraphType
<1>2. SameEnds(c, g.cache) BY GraphEnds
<1> HIDE DEF g
<1>3. IsOut(g.out, Len(toks)) BY <1>1 DEF IsOut
<1> QED BY <1>1, <1>2, <1>3 DEF g

LEMMA Gemma4Pass ==
  ASSUME NEW c, IsCache(c), NEW toks \in Seq(Tokens), NEW base \in Nat
  PROVE  /\ gemma4_verify_batch(c, toks, base) = gemma4_step(c, toks, base)
         /\ IsCache(gemma4_step(c, toks, base).cache)
         /\ gemma4_step(c, toks, base).cache.cur_pos = base + Len(toks)
         /\ gemma4_step(c, toks, base).cache.last_tok = c.last_tok
         /\ IsOut(gemma4_step(c, toks, base).out, Len(toks))
<1>1. gemma4_verify_batch(c, toks, base) = gemma4_step(c, toks, base)
  BY DEF gemma4_verify_batch, gemma4_step
<1> QED BY <1>1, Gemma4Type

LEMMA Gemma4Rings ==
  ASSUME NEW c, IsCache(c), Len(c.ring) = Window, NEW toks, NEW base
  PROVE  Len(gemma4_step(c, toks, base).cache.ring) = Window /\ Len(FailedPass(c, base).ring) = Window
<1> DEFINE n == Len(toks)
           ring == WriteWindow(c.ring, base, n)
           full == FullAttention(c.kv, base, toks)
           out == Seqn(n, LAMBDA i : IF \A j \in 1 .. i : WindowAttention(ring, base + j - 1) THEN full[i] ELSE Junk)
           k == Gemma4Layers(c, toks, base)
           kv == WriteRows(c.kv, base, Rows(toks, out))
           feat == WriteFeatures(c.feat, base, n)
<1>1. Len(ring) = Window /\ Len(Blank(Len(c.ring), Empty)) = Window BY RingLengths
<1>2. k.cache = [c EXCEPT !.kv = kv, !.ring = ring, !.feat = feat] /\ k = [cache |-> k.cache, out |-> k.out]
  BY DEF Gemma4Layers
<1>3. gemma4_step(c, toks, base) = [k EXCEPT !.cache.cur_pos = base + n] BY DEF gemma4_step
<1> HIDE DEF k, kv, feat, ring
<1>4. gemma4_step(c, toks, base).cache = [k.cache EXCEPT !.cur_pos = base + n] BY <1>2, <1>3
<1> HIDE DEF n
<1>5. gemma4_step(c, toks, base).cache.ring = ring BY <1>2, <1>4 DEF IsCache
<1>6. FailedPass(c, base).ring = Blank(Len(c.ring), Empty) BY DEF FailedPass, IsCache
<1> QED BY <1>1, <1>5, <1>6

\* A pass of one token, whose row is picked from.
LEMMA Qwen35One ==
  ASSUME NEW c, IsCache(c), NEW p \in Seq(Tokens), Len(p) = 1, NEW base \in Nat
  PROVE  LET g == Qwen35Graph(c, p, base)
         IN  IsCache(g.cache) /\ SameEnds(c, g.cache) /\ Pick(g.out[1]) \subseteq Tokens
<1>1. PICK g : g = Qwen35Graph(c, p, base) OBVIOUS
<1>2. IsCache(g.cache) /\ IsOut(g.out, Len(p)) /\ SameEnds(c, g.cache)
  BY <1>1, Qwen35Pass
<1>3. 1 \in Nat \ {0} /\ IsOut(g.out, 1) BY <1>2
<1> QED BY <1>1, <1>2, <1>3, OutPicks

LEMMA Gemma4One ==
  ASSUME NEW c, IsCache(c), NEW p \in Seq(Tokens), Len(p) = 1, NEW base \in Nat
  PROVE  Pick(gemma4_step(c, p, base).out[1]) \subseteq Tokens
<1>1. PICK g : g = gemma4_step(c, p, base) OBVIOUS
<1>2. IsOut(g.out, Len(p)) BY <1>1, Gemma4Pass
<1>3. 1 \in Nat \ {0} /\ IsOut(g.out, 1) BY <1>2
<1> QED BY <1>1, <1>3, OutPicks

LEMMA LagunaOne ==
  ASSUME NEW c, IsCache(c), NEW p \in Seq(Tokens), Len(p) = 1, NEW base \in Nat
  PROVE  Pick(laguna_step(c, p, base).out[1]) \subseteq Tokens
<1>1. PICK g : g = laguna_step(c, p, base) OBVIOUS
<1>2. IsOut(g.out, Len(p)) BY <1>1, LagunaStepType
<1>3. 1 \in Nat \ {0} /\ IsOut(g.out, 1) BY <1>2
<1> QED BY <1>1, <1>3, OutPicks

LEMMA Qwen3Pass ==
  ASSUME NEW c, IsCache(c), NEW toks \in Seq(Tokens), NEW base \in Nat, NEW pos \in Nat
  PROVE  LET g == Qwen3Step(c, toks, base)
             d == [g.cache EXCEPT !.cur_pos = pos]
         IN  /\ IsCache(d) /\ d.cur_pos = pos /\ d.last_tok = c.last_tok
             /\ IsOut(g.out, Len(toks))
<1>1. PICK g : g = KvGraph(c, toks, base) OBVIOUS
<1>2. Qwen3Step(c, toks, base) = g BY <1>1 DEF Qwen3Step
<1>3. IsCache(g.cache) /\ SameEnds(c, g.cache) /\ IsOut(g.out, Len(toks)) BY <1>1, KvGraphType
<1>4. PICK d : d = [g.cache EXCEPT !.cur_pos = pos] OBVIOUS
<1>5. IsCache(d) /\ d.cur_pos = pos /\ d.last_tok = c.last_tok BY <1>3, <1>4 DEF IsCache, SameEnds
<1> QED BY <1>2, <1>3, <1>4, <1>5

\* One token.
LEMMA Qwen3One ==
  ASSUME NEW c, IsCache(c), NEW t \in Tokens, NEW base \in Nat, NEW pos \in Nat
  PROVE  LET g == Qwen3Step(c, <<t>>, base)
             d == [g.cache EXCEPT !.cur_pos = pos]
         IN  /\ IsCache(d) /\ d.cur_pos = pos /\ d.last_tok = c.last_tok
             /\ Pick(g.out[1]) \subseteq Tokens
<1> DEFINE p == <<t>>
<1>1. p \in Seq(Tokens) /\ Len(p) = 1 OBVIOUS
<1> HIDE DEF p
<1>2. PICK g : g = Qwen3Step(c, p, base) OBVIOUS
<1>3. PICK d : d = [g.cache EXCEPT !.cur_pos = pos] OBVIOUS
<1>4. IsCache(d) /\ d.cur_pos = pos /\ d.last_tok = c.last_tok /\ IsOut(g.out, Len(p))
  <2>1. g = KvGraph(c, p, base) BY <1>2 DEF Qwen3Step
  <2>2. IsCache(g.cache) /\ SameEnds(c, g.cache) /\ IsOut(g.out, Len(p))
    BY <1>1, <2>1, KvGraphType
  <2> QED BY <1>3, <2>2 DEF IsCache, SameEnds
<1>5. 1 \in Nat \ {0} /\ IsOut(g.out, 1) BY <1>1, <1>4
<1>6. Pick(g.out[1]) \subseteq Tokens BY <1>5, OutPicks
<1> QED BY <1>2, <1>3, <1>4, <1>6 DEF p

LEMMA NewCaches ==
  /\ IsCache(LagunaCache) /\ LagunaCache.cur_pos = 0 /\ LagunaCache.last_tok = -1
  /\ IsCache(Qwen3Cache) /\ Qwen3Cache.cur_pos = 0 /\ Qwen3Cache.last_tok = -1
  /\ IsCache(Qwen35Cache) /\ Qwen35Cache.cur_pos = 0 /\ Qwen35Cache.last_tok = -1
  /\ \A b : IsCache(Gemma4Cache(b)) /\ Gemma4Cache(b).cur_pos = 0 /\ Gemma4Cache(b).last_tok = -1
<1>1. <<>> \in Seq(Row) /\ Len(<<>>) = 0 /\ 0 <= MaxCtx BY SizesAreNat
<1>2. IsCache(LagunaCache) /\ LagunaCache.cur_pos = 0 /\ LagunaCache.last_tok = -1
  BY <1>1 DEF LagunaCache, IsCache
<1>3. IsCache(Qwen3Cache) /\ Qwen3Cache.cur_pos = 0 /\ Qwen3Cache.last_tok = -1
  BY <1>1 DEF Qwen3Cache, IsCache
<1>4. ASSUME NEW ring, NEW feat
      PROVE  LET c == [kv |-> <<>>, ring |-> ring, ssm |-> <<>>, feat |-> feat, cur_pos |-> 0,
                       last_tok |-> -1]
             IN  IsCache(c) /\ c.cur_pos = 0 /\ c.last_tok = -1
  BY <1>1 DEF IsCache
<1>5. IsCache(Qwen35Cache) /\ Qwen35Cache.cur_pos = 0 /\ Qwen35Cache.last_tok = -1
  BY <1>4 DEF Qwen35Cache
<1>6. ASSUME NEW b
      PROVE  IsCache(Gemma4Cache(b)) /\ Gemma4Cache(b).cur_pos = 0 /\ Gemma4Cache(b).last_tok = -1
  <2>1. PICK ring, feat : Gemma4Cache(b) = [kv |-> <<>>, ring |-> ring, ssm |-> <<>>, feat |-> feat,
                                            cur_pos |-> 0, last_tok |-> -1]
    BY DEF Gemma4Cache
  <2> QED BY <1>4, <2>1
<1> QED BY <1>2, <1>3, <1>5, <1>6

LEMMA UnusedRight == \A p : ~NoSnap.used BY DEF NoSnap

-----------------------------------------------------------------------------
(* Streams of tokens and their end markers *)

\* The tokens of a request that goes on, and of one that has ended.
Going(w, n) == w \in Seq(Tokens) /\ Len(w) <= n /\ \A i \in 1..Len(w) : w[i] # Eos

InBudget(w, n) == w \in Seq(Tokens) /\ Len(w) <= n /\ \A i \in 1..(Len(w) - 1) : w[i] # Eos

\* w with its end markers.
WithEnds(w, k) == IF k = 0 THEN w ELSE IF k = 1 THEN Append(w, -1) ELSE Append(Append(w, -1), -1)

LEMMA MarkedFacts ==
  \A w : WithEnds(w, 0) = w /\ WithEnds(w, 1) = Append(w, -1) /\ WithEnds(w, 2) = Append(Append(w, -1), -1)
BY DEF WithEnds

LEMMA BudgetMore ==
  ASSUME NEW w, NEW n \in Int, NEW m \in Int, InBudget(w, n), n <= m PROVE InBudget(w, m)
<1>1. w \in Seq(Tokens) /\ Len(w) \in Nat /\ Len(w) <= n BY DEF InBudget
<1>2. Len(w) <= m BY <1>1
<1> QED BY <1>1, <1>2 DEF InBudget

LEMMA EmptyFacts ==
  /\ Going(<<>>, 0) /\ \A n \in Nat : InBudget(<<>>, n)
  /\ WithEnds(<<>>, 0) = <<>> /\ WithEnds(<<>>, 1) = <<-1>>
<1>1. <<>> \in Seq(Tokens) /\ Len(<<>>) = 0 OBVIOUS
<1>2. Append(<<>>, -1) = <<-1>> OBVIOUS
<1>3. Going(<<>>, 0) BY <1>1 DEF Going
<1>4. \A n \in Nat : InBudget(<<>>, n) BY <1>1 DEF InBudget
<1>5. WithEnds(<<>>, 0) = <<>> BY MarkedFacts
<1>6. WithEnds(<<>>, 1) = Append(<<>>, -1) BY MarkedFacts
<1> QED BY <1>2, <1>3, <1>4, <1>5, <1>6

\* One more end marker.
LEMMA MarkedNext ==
  ASSUME NEW w \in Seq(Tokens), NEW k \in 0..1
  PROVE  WithEnds(w, k) \o <<-1>> = WithEnds(w, k + 1) /\ WithEnds(w, k) \in Seq(Tokens \cup {-1})
<1> DEFINE T == Tokens \cup {-1}
           v == Append(w, -1)
<1>1. w \in Seq(T) /\ -1 \in T BY SeqMonotonic
<1> HIDE DEF T
<1>2. w \o <<-1>> = v /\ v \in Seq(T) /\ v \o <<-1>> = Append(v, -1) BY <1>1
<1>3. CASE k = 0
  <2>1. WithEnds(w, k) = w BY <1>3, MarkedFacts
  <2>2. WithEnds(w, k + 1) = v BY <1>3, MarkedFacts
  <2> QED BY <1>1, <1>2, <2>1, <2>2 DEF T
<1>4. CASE k = 1
  <2>1. WithEnds(w, k) = v BY <1>4, MarkedFacts
  <2>2. WithEnds(w, k + 1) = Append(v, -1)
    <3>1. k + 1 = 2 BY <1>4
    <3> QED BY <3>1, MarkedFacts
  <2> QED BY <1>2, <2>1, <2>2 DEF T
<1> QED BY <1>3, <1>4

LEMMA MarkedElements ==
  ASSUME NEW w \in Seq(Tokens), NEW k \in 0..2
  PROVE  /\ WithEnds(w, k) \in Seq(Tokens \cup {-1}) /\ Len(WithEnds(w, k)) = Len(w) + k
         /\ \A i \in 1..Len(w) : WithEnds(w, k)[i] = w[i]
         /\ \A i \in (Len(w) + 1)..(Len(w) + k) : WithEnds(w, k)[i] = -1
<1> DEFINE T == Tokens \cup {-1}
<1>1. w \in Seq(T) /\ -1 \in T /\ Len(w) \in Nat
  <2>1. Tokens \subseteq T OBVIOUS
  <2> QED BY <2>1, SeqMonotonic
<1> HIDE DEF T
<1> DEFINE v == Append(w, -1)
<1>2. /\ v \in Seq(T) /\ Len(v) = Len(w) + 1 /\ v[Len(w) + 1] = -1
      /\ \A i \in 1..Len(w) : v[i] = w[i]
  BY <1>1, AppendFacts
<1> HIDE DEF v
<1> DEFINE u == Append(v, -1)
<1>3. /\ u \in Seq(T) /\ Len(u) = Len(v) + 1 /\ u[Len(v) + 1] = -1
      /\ \A i \in 1..Len(v) : u[i] = v[i]
  BY <1>1, <1>2, AppendFacts
<1> HIDE DEF u
<1>4. CASE k = 0
  <2>1. WithEnds(w, k) = w BY <1>4, MarkedFacts
  <2> QED BY <1>1, <1>4, <2>1 DEF T
<1>5. CASE k = 1
  <2>1. WithEnds(w, k) = v BY <1>5, MarkedFacts DEF v
  <2> QED BY <1>1, <1>2, <1>5, <2>1 DEF T
<1>6. CASE k = 2
  <2>1. WithEnds(w, k) = u BY <1>6, MarkedFacts DEF v, u
  <2>2. /\ u \in Seq(T) /\ Len(u) = Len(w) + 2 /\ u[Len(w) + 2] = -1 /\ u[Len(w) + 1] = -1
        /\ \A i \in 1..Len(w) : u[i] = w[i]
    BY <1>1, <1>2, <1>3
  <2>3. \A i \in (Len(w) + 1)..(Len(w) + 2) : i = Len(w) + 1 \/ i = Len(w) + 2 BY <1>1
  <2> QED BY <1>6, <2>1, <2>2, <2>3 DEF T
<1> QED BY <1>4, <1>5, <1>6

-----------------------------------------------------------------------------
(* The greedy continuation, token by token *)

\* The first n tokens of w are the greedy continuation.
GreedyTo(ctx, w, n) ==
  \A i \in 1..Len(w) : i <= n => w[i] = Predict(ctx \o SubSeq(w, 1, i - 1))

LEMMA GreedyAll ==
  ASSUME NEW ctx, NEW w, GreedyAfter(ctx, w), NEW n PROVE GreedyTo(ctx, w, n)
BY DEF GreedyAfter, GreedyTo

LEMMA GreedyEmpty == \A ctx, n : GreedyAfter(ctx, <<>>) /\ GreedyTo(ctx, <<>>, n)
BY DEF GreedyAfter, GreedyTo

LEMMA GreedyToAppend ==
  ASSUME NEW ctx, NEW w \in Seq(Tokens), NEW t \in Tokens, NEW n \in Int,
         GreedyTo(ctx, w, n), Len(w) + 1 <= n => t = Predict(ctx \o w)
  PROVE  GreedyTo(ctx, Append(w, t), n)
<1> DEFINE l == Len(w)
           all == Append(w, t)
<1>1. /\ all \in Seq(Tokens) /\ Len(all) = l + 1 /\ l \in Nat /\ all[l + 1] = t
      /\ \A i \in 1..l : all[i] = w[i]
  BY AppendProperties
<1> HIDE DEF all
<1> SUFFICES ASSUME NEW i \in 1..(l + 1), i <= n PROVE all[i] = Predict(ctx \o SubSeq(all, 1, i - 1))
  BY <1>1 DEF GreedyTo, all
<1>2. SubSeq(all, 1, i - 1) = SubSeq(w, 1, i - 1)
  <2>1. i - 1 \in Nat /\ i - 1 <= Len(all) /\ i - 1 <= Len(w) BY <1>1
  <2>2. \A j \in 1..(i - 1) : all[j] = w[j] BY <1>1
  <2> QED BY <1>1, <2>1, <2>2, SamePrefix
<1>3. CASE i <= l
  <2>1. i \in 1..Len(w) BY <1>1, <1>3
  <2>2. w[i] = Predict(ctx \o SubSeq(w, 1, i - 1)) BY <2>1 DEF GreedyTo
  <2>3. all[i] = w[i] BY <1>1, <2>1
  <2> QED BY <1>2, <2>2, <2>3
<1>4. CASE i = l + 1
  <2>1. SubSeq(w, 1, i - 1) = w BY <1>1, <1>4, SubSeqFull
  <2> QED BY <1>1, <1>2, <1>4, <2>1
<1> QED BY <1>1, <1>3, <1>4

LEMMA GreedyPrefix ==
  ASSUME NEW ctx, NEW w \in Seq(Tokens), GreedyAfter(ctx, w), NEW m \in 0..Len(w)
  PROVE  GreedyAfter(ctx, SubSeq(w, 1, m))
<1> DEFINE v == SubSeq(w, 1, m)
<1>1. /\ v \in Seq(Tokens) /\ Len(v) = m /\ \A i \in 1..m : v[i] = w[i]
      /\ \A i \in 0..m : SubSeq(v, 1, i) = SubSeq(w, 1, i)
  BY PrefixFacts
<1> HIDE DEF v
<1> SUFFICES ASSUME NEW i \in 1..m PROVE v[i] = Predict(ctx \o SubSeq(v, 1, i - 1))
  BY <1>1 DEF GreedyAfter, v
<1>2. i \in 1..Len(w) /\ i - 1 \in 0..m OBVIOUS
<1>3. w[i] = Predict(ctx \o SubSeq(w, 1, i - 1)) BY <1>2 DEF GreedyAfter
<1> QED BY <1>1, <1>2, <1>3

\* The first token of an answer.
LEMMA FirstGreedy ==
  ASSUME NEW p \in Seq(Tokens), NEW t \in Tokens, t = Predict(p)
  PROVE  /\ GreedyAfter(p, <<t>>) /\ <<t>> \in Seq(Tokens) /\ Len(<<t>>) = 1 /\ <<t>>[1] = t
         /\ SubSeq(<<t>>, 1, 0) = <<>>
<1>1. GreedyAfter(p, <<>>) /\ <<>> \in Seq(Tokens) /\ p \o <<>> = p BY GreedyEmpty, ConcatEmptySeq
<1>2. GreedyAfter(p, Append(<<>>, t)) BY <1>1, GreedyAppend
<1>3. Append(<<>>, t) = <<t>> OBVIOUS
<1> QED BY <1>2, <1>3

-----------------------------------------------------------------------------
(* The context after a pass that is right *)

LEMMA LesserFacts ==
  \A a \in Nat, b \in Nat : Lesser(a, b) \in 0..b /\ Lesser(a, b) <= a /\ (a <= b => Lesser(a, b) = a)
BY DEF Lesser

LEMMA ChunkJoins ==
  ASSUME NEW p \in Seq(Tokens), NEW k \in Nat, NEW n \in Nat, k + n <= Len(p)
  PROVE  SubSeq(p, 1, k) \o SubSeq(p, k + 1, k + n) = SubSeq(p, 1, k + n)
<1> DEFINE a == SubSeq(p, 1, k)
           b == SubSeq(p, k + 1, k + n)
           c == SubSeq(p, 1, k + n)
<1>1. a \in Seq(Tokens) /\ Len(a) = k /\ \A i \in 1..k : a[i] = p[i] OBVIOUS
<1>2. b \in Seq(Tokens) /\ Len(b) = n /\ \A i \in 1..n : b[i] = p[k + i]
  <2>1. CASE n = 0
    <3>1. SubSeq(p, k + 1, k + 0) = <<>>
      <4>1. k + 0 < k + 1 OBVIOUS
      <4> QED BY <4>1, SubSeqEmpty
    <3> QED BY <2>1, <3>1
  <2>2. CASE n > 0
    <3>1. n \in Nat \ {0} BY <2>2
    <3> QED BY <3>1, ChunkFacts
  <2> QED BY <2>1, <2>2
<1>3. c \in Seq(Tokens) /\ Len(c) = k + n /\ \A i \in 1..(k + n) : c[i] = p[i] OBVIOUS
<1> HIDE DEF a, b, c
<1>4. /\ a \o b \in Seq(Tokens) /\ Len(a \o b) = k + n
      /\ \A i \in 1..(k + n) : (a \o b)[i] = IF i <= k THEN a[i] ELSE b[i - k]
  BY ZenonT(40), <1>1, <1>2, ConcatProperties
<1>5. ASSUME NEW i \in 1..(k + n) PROVE (a \o b)[i] = c[i]
  <2>1. CASE i <= k BY <1>1, <1>3, <1>4, <2>1
  <2>2. CASE ~(i <= k)
    <3>1. i - k \in 1..n /\ k + (i - k) = i BY <2>2
    <3>2. b[i - k] = p[k + (i - k)] BY <1>2, <3>1
    <3>3. (a \o b)[i] = b[i - k] BY <1>4, <2>2
    <3>4. c[i] = p[i] BY <1>3
    <3> QED BY <3>1, <3>2, <3>3, <3>4
  <2> QED BY <2>1, <2>2
<1>6. a \o b = c BY <1>3, <1>4, <1>5, SeqEqual
<1> QED BY <1>6 DEF a, b, c

\* The tokens a right pass yields.
NextRight(out, ctx, toks) ==
  /\ \A t \in Pick(Last(out)) : t = Predict(ctx \o toks)
  /\ Len(toks) = 1 => \A t \in Pick(out[1]) : t = Predict(ctx \o toks)
  /\ \A t \in Picks(out) : \A i \in 1..Len(toks) : t[i] = Predict(ctx \o SubSeq(toks, 1, i))

LEMMA PassNext ==
  ASSUME NEW out, NEW ctx \in Seq(Tokens), NEW toks \in Seq(Tokens), toks # <<>>,
         IsOut(out, Len(toks)), OutRight(out, ctx, toks)
  PROVE  NextRight(out, ctx, toks)
<1> DEFINE n == Len(toks)
<1>0. \A i \in 1..Len(toks) : out[i] = ctx \o SubSeq(toks, 1, i) BY DEF OutRight
<1>1. n \in Nat \ {0} /\ n \in 1..n /\ SubSeq(toks, 1, n) = toks BY SubSeqFull
<1>2. Len(out) = n /\ DOMAIN out = 1..n
  <2> HIDE DEF n
  <2>1. Len(out) = n BY <1>1, OutPicks DEF n
  <2>2. DOMAIN out = 1..n BY DEF IsOut, n
  <2> QED BY <2>1, <2>2
<1>3. ASSUME NEW i \in 1..n
      PROVE  Pick(out[i]) = {Predict(ctx \o SubSeq(toks, 1, i))}
  <2>1. i \in 0..Len(toks) BY <1>1
  <2>2. SubSeq(toks, 1, i) \in Seq(Tokens) BY <2>1, PrefixFacts
  <2>3. ctx \o SubSeq(toks, 1, i) \in Seq(Tokens) BY <2>2, ConcatProperties
  <2> QED BY <1>0, <2>3, NotJunk DEF Pick
<1>4. \A t \in Pick(out[n]) : t = Predict(ctx \o toks) BY <1>1, <1>3
<1>5. \A t \in Pick(Last(out)) : t = Predict(ctx \o toks) BY <1>2, <1>4 DEF Last
<1>6. \A t \in Picks(out) : \A i \in 1..n : t[i] = Predict(ctx \o SubSeq(toks, 1, i))
  BY <1>2, <1>3 DEF Picks
<1> QED BY <1>4, <1>5, <1>6 DEF NextRight

LEMMA ConcatLast ==
  ASSUME NEW a \in Seq(Tokens), NEW b \in Seq(Tokens)
  PROVE  a \o b \in Seq(Tokens) /\ Len(a \o b) = Len(a) + Len(b) /\ (Len(b) > 0 => Last(a \o b) = Last(b))
<1>1. /\ a \o b \in Seq(Tokens) /\ Len(a \o b) = Len(a) + Len(b)
      /\ \A i \in 1 .. (Len(a) + Len(b)) : (a \o b)[i] = IF i <= Len(a) THEN a[i] ELSE b[i - Len(a)]
  BY ConcatProperties
<1>2. ASSUME Len(b) > 0 PROVE Last(a \o b) = Last(b)
  <2> DEFINE n == Len(a) + Len(b)
  <2>1. n \in 1..(Len(a) + Len(b)) /\ ~(n <= Len(a)) /\ n - Len(a) = Len(b) BY <1>2
  <2>2. (a \o b)[n] = b[n - Len(a)] BY <1>1, <2>1
  <2> QED BY <1>1, <2>1, <2>2 DEF Last
<1> QED BY <1>1, <1>2

LEMMA ConcatThree ==
  ASSUME NEW a \in Seq(Tokens), NEW b \in Seq(Tokens), NEW c \in Seq(Tokens)
  PROVE  a \o (b \o c) = (a \o b) \o c
BY SMTT(30), ConcatAssociative

LEMMA Qwen35PassRight ==
  ASSUME NEW c, IsCache(c), NEW ctx \in Seq(Tokens), Begins(c.kv, ctx), c.ssm = ctx,
         NEW toks \in Seq(Tokens), toks # <<>>, Len(ctx) + Len(toks) <= MaxCtx
  PROVE  LET g == Qwen35Graph(c, toks, Len(ctx))
         IN  /\ IsCache(g.cache) /\ IsOut(g.out, Len(toks)) /\ NextRight(g.out, ctx, toks)
             /\ g.cache.kv = ctx \o toks /\ g.cache.ssm = ctx \o toks
             /\ Begins(g.cache.kv, ctx \o toks)
<1> DEFINE g == Qwen35Graph(c, toks, Len(ctx))
<1>1. Right(c, ctx) BY DEF Right
<1>2. /\ OutRight(g.out, ctx, toks) /\ Right(g.cache, ctx \o toks) /\ g.cache.kv = ctx \o toks
  BY <1>1, GraphRight
<1>3. IsCache(g.cache) /\ IsOut(g.out, Len(toks))
  <2>1. Len(ctx) \in Nat OBVIOUS
  <2> QED BY <2>1, Qwen35Pass
<1> HIDE DEF g
<1>5. NextRight(g.out, ctx, toks) BY <1>2, <1>3, PassNext
<1> QED BY <1>2, <1>3, <1>5 DEF Right, g

LEMMA Gemma4PassRight ==
  ASSUME NEW c, IsCache(c), NEW ctx \in Seq(Tokens), InWindowRight(c, ctx),
         NEW toks \in Seq(Tokens), toks # <<>>, Len(ctx) + Len(toks) <= MaxCtx,
         Len(ctx) + Len(toks) <= Window \/ Len(toks) = 1
  PROVE  LET g == gemma4_step(c, toks, Len(ctx))
         IN  /\ IsCache(g.cache) /\ NextRight(g.out, ctx, toks)
             /\ g.cache.kv = ctx \o toks /\ InWindowRight(g.cache, ctx \o toks)
<1> DEFINE g == gemma4_step(c, toks, Len(ctx))
<1>1. /\ OutRight(g.out, ctx, toks) /\ g.cache.kv = ctx \o toks
      /\ InRing(g.cache.ring, Len(ctx) + Len(toks))
  BY Gemma4Right
<1>2. IsCache(g.cache) /\ IsOut(g.out, Len(toks))
  <2>1. Len(ctx) \in Nat OBVIOUS
  <2> QED BY <2>1, Gemma4Pass
<1> HIDE DEF g
<1>3. NextRight(g.out, ctx, toks) BY <1>1, <1>2, PassNext
<1>4. /\ ctx \o toks \in Seq(Tokens) /\ Len(ctx \o toks) = Len(ctx) + Len(toks)
  BY ConcatProperties
<1>5. Begins(g.cache.kv, ctx \o toks) BY <1>1, <1>4, ContextSelf
<1> QED BY <1>1, <1>2, <1>3, <1>4, <1>5 DEF InWindowRight, g

\* The rows of the batch's prefixes are right too.
LEMMA RingShorter ==
  ASSUME NEW ring, NEW n \in Nat, n <= Window, InRing(ring, n), NEW m \in 0..n
  PROVE  InRing(ring, m)
<1>1. Window \in Nat BY SizesAreNat
<1> SUFFICES ASSUME NEW q \in 0..(m - 1) PROVE ring[(q % Window) + 1] = q BY DEF InRing
<1>2. q \in 0..(n - 1) /\ n - Window <= q BY <1>1
<1> QED BY <1>2 DEF InRing

LEMMA PromptSplit ==
  ASSUME NEW p \in Seq(Tokens), p # <<>>
  PROVE  LET ctx == SubSeq(p, 1, Len(p) - 1)
         IN  /\ ctx \in Seq(Tokens) /\ Len(ctx) = Len(p) - 1 /\ ctx \o <<Last(p)>> = p
             /\ Len(p) - 1 \in 0..Len(p)
<1> DEFINE k == Len(p) - 1
           ctx == SubSeq(p, 1, k)
           q == <<Last(p)>>
<1>1. k \in Nat /\ k \in 0..Len(p) /\ k + 1 = Len(p) OBVIOUS
<1>2. q \in Seq(Tokens) /\ Len(q) = 1 /\ q[1] = p[k + 1]
  <2>1. q \in Seq(Tokens) /\ Len(q) = 1 BY LastOfPrompt
  <2>2. Last(p) = p[Len(p)] BY DEF Last
  <2> QED BY <1>1, <2>1, <2>2
<1>3. ctx \in Seq(Tokens) /\ Len(ctx) = k
  <2> HIDE DEF k
  <2> QED BY <1>1, PrefixFacts
<1> DEFINE r == SubSeq(p, k + 1, k + 1)
<1>4. r \in Seq(Tokens) /\ Len(r) = 1 /\ r[1] = p[k + 1]
  <2> HIDE DEF k
  <2>1. 1 \in Nat \ {0} /\ k + 1 <= Len(p) BY <1>1
  <2> QED BY <1>1, <2>1, ChunkFacts
<1>5. r = q
  <2> HIDE DEF r, q, k
  <2>1. \A i \in 1..1 : r[i] = q[i] BY <1>2, <1>4
  <2> QED BY <1>2, <1>4, <2>1, SeqEqual
<1>6. ctx \o r = SubSeq(p, 1, k + 1)
  <2> HIDE DEF k
  <2>1. 1 \in Nat /\ k + 1 <= Len(p) BY <1>1
  <2> QED BY <1>1, <2>1, ChunkJoins
<1>7. SubSeq(p, 1, k + 1) = p BY <1>1, SubSeqFull
<1> QED BY <1>1, <1>3, <1>5, <1>6, <1>7

LEMMA KvPassRight ==
  ASSUME NEW c, IsCache(c), NEW ctx \in Seq(Tokens), Begins(c.kv, ctx),
         NEW toks \in Seq(Tokens), toks # <<>>, Len(ctx) + Len(toks) <= MaxCtx
  PROVE  LET g == KvGraph(c, toks, Len(ctx))
         IN  /\ IsCache(g.cache) /\ IsOut(g.out, Len(toks)) /\ NextRight(g.out, ctx, toks)
             /\ g.cache.kv = ctx \o toks /\ Begins(g.cache.kv, ctx \o toks)
<1> DEFINE g == KvGraph(c, toks, Len(ctx))
<1>1. OutRight(g.out, ctx, toks) /\ g.cache.kv = ctx \o toks BY KvGraphRight
<1>2. IsCache(g.cache) /\ IsOut(g.out, Len(toks))
  <2>1. Len(ctx) \in Nat OBVIOUS
  <2> QED BY <2>1, KvGraphType
<1> HIDE DEF g
<1>3. NextRight(g.out, ctx, toks) BY <1>1, <1>2, PassNext
<1>4. ctx \o toks \in Seq(Tokens) BY ConcatProperties
<1>5. Begins(g.cache.kv, ctx \o toks) BY <1>1, <1>4, ContextSelf
<1> QED BY <1>1, <1>2, <1>3, <1>5 DEF g

LEMMA LagunaPassRight ==
  ASSUME NEW c, IsCache(c), NEW ctx \in Seq(Tokens), Begins(c.kv, ctx),
         NEW toks \in Seq(Tokens), toks # <<>>, Len(ctx) + Len(toks) <= MaxCtx
  PROVE  LET g == laguna_step(c, toks, Len(ctx))
         IN  /\ NextRight(g.out, ctx, toks) /\ g.cache.kv = ctx \o toks
             /\ Begins(g.cache.kv, ctx \o toks)
<1> DEFINE k == KvGraph(c, toks, Len(ctx))
<1>1. /\ IsCache(k.cache) /\ NextRight(k.out, ctx, toks) /\ k.cache.kv = ctx \o toks
      /\ Begins(k.cache.kv, ctx \o toks)
  BY KvPassRight
<1>2. k = [cache |-> k.cache, out |-> k.out] BY DEF KvGraph
<1>3. laguna_step(c, toks, Len(ctx)) = [k EXCEPT !.cache.cur_pos = Len(ctx) + Len(toks)]
  BY DEF laguna_step
<1> HIDE DEF k
<1>4. /\ laguna_step(c, toks, Len(ctx)).cache = [k.cache EXCEPT !.cur_pos = Len(ctx) + Len(toks)]
      /\ laguna_step(c, toks, Len(ctx)).out = k.out
  BY <1>2, <1>3
<1>5. laguna_step(c, toks, Len(ctx)).cache.kv = k.cache.kv BY <1>1, <1>4 DEF IsCache
<1> QED BY <1>1, <1>4, <1>5

LEMMA Qwen3PassRight ==
  ASSUME NEW c, IsCache(c), NEW ctx \in Seq(Tokens), Begins(c.kv, ctx),
         NEW toks \in Seq(Tokens), toks # <<>>, Len(ctx) + Len(toks) <= MaxCtx, NEW pos \in Nat
  PROVE  LET g == Qwen3Step(c, toks, Len(ctx))
             d == [g.cache EXCEPT !.cur_pos = pos]
         IN  NextRight(g.out, ctx, toks) /\ Begins(d.kv, ctx \o toks)
<1>1. PICK g : g = Qwen3Step(c, toks, Len(ctx)) OBVIOUS
<1>2. IsCache(g.cache) /\ NextRight(g.out, ctx, toks) /\ Begins(g.cache.kv, ctx \o toks)
  <2>1. g = KvGraph(c, toks, Len(ctx)) BY <1>1 DEF Qwen3Step
  <2> QED BY <2>1, KvPassRight
<1>3. [g.cache EXCEPT !.cur_pos = pos].kv = g.cache.kv BY <1>2 DEF IsCache
<1> QED BY <1>1, <1>2, <1>3

\* What two sequences share of which one begins with the other.
LEMMA SharedPrefix ==
  ASSUME NEW p \in Seq(Tokens), NEW q \in Seq(Tokens), IsPrefix(p, q) \/ IsPrefix(q, p),
         NEW n \in Nat, n <= Len(p), n <= Len(q)
  PROVE  SubSeq(q, 1, n) = SubSeq(p, 1, n)
<1>1. PICK m \in Nat : n <= m /\ m <= Len(p) /\ m <= Len(q) /\ SubSeq(p, 1, m) = SubSeq(q, 1, m)
  BY DEF IsPrefix
<1>2. \A i \in 1..m : SubSeq(p, 1, m)[i] = p[i] /\ SubSeq(q, 1, m)[i] = q[i] BY <1>1
<1>3. \A i \in 1..n : q[i] = p[i] BY <1>1, <1>2
<1> QED BY <1>3, SamePrefix

-----------------------------------------------------------------------------
(* Slots of the feature buffer and of the draft's mirror *)

LEMMA ModIs ==
  ASSUME NEW cap \in Nat \ {0}, NEW d \in 0..(cap - 1), NEW k \in Int
  PROVE  (d + cap * k) % cap = d
<1> DEFINE x == d + cap * k
           y == x \div cap
           r == x % cap
<1>1. cap * k \in Int /\ x \in Int OBVIOUS
<1>2. r \in 0..(cap - 1) /\ y \in Int /\ x = cap * y + r
  <2> HIDE DEF x
  <2> QED BY <1>1
<1> HIDE DEF y, r
<1>3. cap * y \in Int BY <1>2
<1>4. r - d = cap * k - cap * y BY <1>1, <1>2, <1>3
<1>5. CASE k = y BY <1>1, <1>4, <1>5, <1>2, <1>3 DEF r
<1>6. CASE k >= y + 1
  <2>1. cap * k >= cap * (y + 1) BY <1>2, <1>6
  <2>2. cap * (y + 1) = cap * y + cap BY <1>2
  <2> QED BY <1>1, <1>2, <1>3, <1>4, <2>1, <2>2
<1>7. CASE y >= k + 1
  <2>1. cap * y >= cap * (k + 1) BY <1>2, <1>7
  <2>2. cap * (k + 1) = cap * k + cap OBVIOUS
  <2> QED BY <1>1, <1>2, <1>3, <1>4, <2>1, <2>2
<1> QED BY <1>2, <1>5, <1>6, <1>7

\* How far after pos a slot is written: the slot of a position at most one turn before.
LEMMA SlotPlace ==
  ASSUME NEW cap \in Nat \ {0}, NEW pos \in Nat, NEW q \in Nat, NEW d \in 0..(cap - 1),
         q = pos + d \/ q + cap = pos + d
  PROVE  /\ (q % cap) + 1 \in 1..cap
         /\ (((q % cap) + 1) - 1 - pos) % cap = d
<1> DEFINE k == q \div cap
           r == q % cap
<1>1. r \in 0..(cap - 1) /\ k \in Nat /\ q = cap * k + r OBVIOUS
<1> HIDE DEF k, r
<1>2. cap * k \in Int /\ cap * (-k) = -(cap * k) /\ cap * (-k - 1) = -(cap * k) - cap
      /\ -k \in Int /\ -k - 1 \in Int
  BY <1>1
<1>3. CASE q = pos + d
  <2>1. (r + 1) - 1 - pos = d + cap * (-k) BY <1>1, <1>2, <1>3
  <2>2. (d + cap * (-k)) % cap = d BY <1>2, ModIs
  <2> QED BY <1>1, <2>1, <2>2 DEF r
<1>4. CASE q + cap = pos + d
  <2>1. (r + 1) - 1 - pos = d + cap * (-k - 1) BY <1>1, <1>2, <1>4
  <2>2. (d + cap * (-k - 1)) % cap = d BY <1>2, ModIs
  <2> QED BY <1>1, <2>1, <2>2 DEF r
<1> QED BY <1>3, <1>4

\* The mirror has the features of the last positions of a context.
MirrorHas(m, ctx) ==
  \A q \in 0..(Len(ctx) - 1) : Len(ctx) - RingCap <= q => m[(q % RingCap) + 1] = SubSeq(ctx, 1, q + 1)

\* The feature buffer has the last of the first n positions, and a block of them.
FeatHas(feat, n) == \A q \in 0..(n - 1) : n - FeatCap <= q => feat[(q % FeatCap) + 1] = q

FeatBlock(feat, from, n) == \A q \in from..(from + n - 1) : feat[(q % FeatCap) + 1] = q

\* The buffer is there or not, and has its size.
FeatLike(f, g) == (g = <<>> <=> f = <<>>) /\ (Len(f) = FeatCap => Len(g) = FeatCap)

LEMMA FeatSlots ==
  ASSUME NEW f, f = <<>> \/ Len(f) = FeatCap, NEW g, g = [i \in 1..Len(f) |-> g[i]]
  PROVE  SubSeq(g, 1, Len(f)) = g /\ FeatLike(f, g)
<1>1. FeatCap \in Nat \ {0} /\ Len(<<>>) = 0 BY SizesAreNat
<1>2. Len(f) \in Nat BY <1>1
<1>3. SubSeq(g, 1, Len(f)) = g /\ Len(g) = Len(f) BY <1>2, SeqnLen
<1>4. CASE f = <<>>
  <2>1. g = [i \in 1..0 |-> g[i]] BY <1>1, <1>4
  <2>2. g = <<>> BY <2>1
  <2> QED BY <1>1, <1>3, <1>4, <2>2 DEF FeatLike
<1>5. CASE Len(f) = FeatCap
  <2>1. f # <<>> /\ g # <<>> BY <1>1, <1>3, <1>5
  <2> QED BY <1>3, <1>5, <2>1 DEF FeatLike
<1> QED BY <1>4, <1>5

\* However its slots are written, the buffer stays.
LEMMA FeatStays ==
  ASSUME NEW f, f = <<>> \/ Len(f) = FeatCap, NEW pos, NEW n, NEW from
  PROVE  /\ FeatLike(f, WriteFeatures(f, pos, n)) /\ FeatLike(f, PutSlots(f, from, n))
         /\ FeatLike(f, Seqn(Len(f), LAMBDA s : Live(f[s], pos))) /\ FeatLike(f, f)
         /\ FeatLike(f, FirstSlots(f, n))
<1>1. FeatLike(f, WriteFeatures(f, pos, n))
  <2> DEFINE g == [s \in 1..Len(f) |->
                     LET p == pos + ((s - 1 - pos) % FeatCap)
                     IN  IF p < pos + n THEN p + FeatCap * ((pos + n - 1 - p) \div FeatCap)
                         ELSE Live(f[s], pos + n)]
  <2>1. WriteFeatures(f, pos, n) = SubSeq(g, 1, Len(f)) BY DEF WriteFeatures, Seqn
  <2>2. g = [s \in 1..Len(f) |-> g[s]] OBVIOUS
  <2> HIDE DEF g
  <2> QED BY <2>1, <2>2, FeatSlots
<1>2. FeatLike(f, PutSlots(f, from, n))
  <2> DEFINE g == [s \in 1..Len(f) |-> Live(IF s <= n THEN from[s] ELSE f[s], n)]
  <2>1. PutSlots(f, from, n) = SubSeq(g, 1, Len(f)) BY DEF PutSlots, Seqn
  <2>2. g = [s \in 1..Len(f) |-> g[s]] OBVIOUS
  <2> HIDE DEF g
  <2> QED BY <2>1, <2>2, FeatSlots
<1>3. FeatLike(f, Seqn(Len(f), LAMBDA s : Live(f[s], pos)))
  <2> DEFINE g == [s \in 1..Len(f) |-> Live(f[s], pos)]
  <2>1. Seqn(Len(f), LAMBDA s : Live(f[s], pos)) = SubSeq(g, 1, Len(f)) BY DEF Seqn
  <2>2. g = [s \in 1..Len(f) |-> g[s]] OBVIOUS
  <2> HIDE DEF g
  <2> QED BY <2>1, <2>2, FeatSlots
<1>4. FeatLike(f, FirstSlots(f, n))
  <2> DEFINE g == [s \in 1..Len(f) |-> IF s <= n THEN f[s] ELSE Empty]
  <2>1. FirstSlots(f, n) = SubSeq(g, 1, Len(f)) BY DEF FirstSlots, Seqn
  <2>2. g = [s \in 1..Len(f) |-> g[s]] OBVIOUS
  <2> HIDE DEF g
  <2> QED BY <2>1, <2>2, FeatSlots
<1> QED BY <1>1, <1>2, <1>3, <1>4 DEF FeatLike

\* A batch of at most FeatCap positions is written, and what it does not overwrite stays.
LEMMA FeaturesWritten ==
  ASSUME NEW f, Len(f) = FeatCap, NEW pos \in Nat, NEW n \in Nat, n <= FeatCap
  PROVE  /\ FeatBlock(WriteFeatures(f, pos, n), pos, n)
         /\ \A q \in Nat : q < pos /\ pos + n - FeatCap <= q /\ f[(q % FeatCap) + 1] = q
              => WriteFeatures(f, pos, n)[(q % FeatCap) + 1] = q
<1> DEFINE g == [s \in 1..FeatCap |->
                   LET p == pos + ((s - 1 - pos) % FeatCap)
                   IN  IF p < pos + n THEN p + FeatCap * ((pos + n - 1 - p) \div FeatCap)
                       ELSE Live(f[s], pos + n)]
<1>1. FeatCap \in Nat \ {0} BY SizesAreNat
<1>2. WriteFeatures(f, pos, n) = g
  <2>1. WriteFeatures(f, pos, n) = SubSeq(g, 1, FeatCap) BY DEF WriteFeatures, Seqn
  <2>2. g = [s \in 1..FeatCap |-> g[s]] OBVIOUS
  <2> HIDE DEF g
  <2> QED BY <1>1, <2>1, <2>2, SeqnLen
<1>3. \A i \in 1..FeatCap, p \in Nat :
         p = pos + ((i - 1 - pos) % FeatCap) =>
           g[i] = IF p < pos + n THEN p + FeatCap * ((pos + n - 1 - p) \div FeatCap)
                  ELSE Live(f[i], pos + n)
  OBVIOUS
<1> HIDE DEF g
<1>4. ASSUME NEW q \in pos..(pos + n - 1) PROVE g[(q % FeatCap) + 1] = q
  <2> DEFINE d == q - pos
             s == (q % FeatCap) + 1
             z == pos + n - 1 - q
  <2>1. d \in 0..(FeatCap - 1) /\ q \in Nat /\ q = pos + d /\ q < pos + n
        /\ z \in 0..(FeatCap - 1)
    BY <1>1
  <2>2. s \in 1..FeatCap /\ (s - 1 - pos) % FeatCap = d
    <3> HIDE DEF d
    <3> QED BY <1>1, <2>1, SlotPlace
  <2> HIDE DEF d, s, z
  <2>3. g[s] = q + FeatCap * (z \div FeatCap)
    <3>0. q \in Nat /\ q = pos + ((s - 1 - pos) % FeatCap) /\ s \in 1..FeatCap BY <2>1, <2>2
    <3>1. g[s] = IF q < pos + n THEN q + FeatCap * ((pos + n - 1 - q) \div FeatCap)
                 ELSE Live(f[s], pos + n)
      BY <1>3, <3>0
    <3> QED BY <2>1, <3>1 DEF z
  <2>4. z \div FeatCap = 0
    <3>1. z \div FeatCap \in Nat /\ z = FeatCap * (z \div FeatCap) + (z % FeatCap)
          /\ z % FeatCap \in 0..(FeatCap - 1)
      BY <1>1, <2>1
    <3> DEFINE y == z \div FeatCap
               r == z % FeatCap
    <3>2. y \in Nat /\ z = FeatCap * y + r /\ r \in 0..(FeatCap - 1) BY <3>1
    <3> HIDE DEF y, r
    <3>3. ASSUME y >= 1 PROVE FALSE
      <4>1. FeatCap * y >= FeatCap /\ FeatCap * y \in Int BY <1>1, <3>2, <3>3
      <4> QED BY <1>1, <2>1, <3>2, <4>1
    <3>4. y = 0 BY <3>2, <3>3
    <3> QED BY <3>4 DEF y
  <2>5. FeatCap * 0 = 0 /\ q + 0 = q BY <1>1, <2>1
  <2>6. g[s] = q BY <2>3, <2>4, <2>5
  <2> QED BY <2>6 DEF s
<1>5. ASSUME NEW q \in Nat, q < pos, pos + n - FeatCap <= q, f[(q % FeatCap) + 1] = q
      PROVE  g[(q % FeatCap) + 1] = q
  <2> DEFINE d == q + FeatCap - pos
             s == (q % FeatCap) + 1
  <2>1. d \in 0..(FeatCap - 1) /\ q + FeatCap = pos + d /\ d >= n /\ q \in Nat BY <1>1, <1>5
  <2>2. s \in 1..FeatCap /\ (s - 1 - pos) % FeatCap = d
    <3> HIDE DEF d
    <3>1. q = pos + d \/ q + FeatCap = pos + d BY <2>1
    <3>2. /\ (q % FeatCap) + 1 \in 1..FeatCap
          /\ (((q % FeatCap) + 1) - 1 - pos) % FeatCap = d
      <4> HIDE DEF s
      <4>1. FeatCap \in Nat \ {0} /\ pos \in Nat /\ q \in Nat /\ d \in 0..(FeatCap - 1) BY <1>1, <2>1
      <4> QED BY ONLY <3>1, <4>1, SlotPlace
    <3> QED BY <3>2
  <2>3. f[s] = q BY <1>5
  <2> HIDE DEF d, s
  <2>4. ~(pos + d < pos + n) /\ pos + d \in Nat /\ q < pos + n BY <1>1, <1>5, <2>1
  <2>5. g[s] = Live(f[s], pos + n) BY <1>3, <2>2, <2>4
  <2>6. g[s] = q BY <2>3, <2>4, <2>5 DEF Live
  <2> QED BY <2>6 DEF s
<1> QED BY <1>2, <1>4, <1>5 DEF FeatBlock

LEMMA FeatGrows ==
  ASSUME NEW f, Len(f) = FeatCap, NEW pos \in Nat, NEW n \in Nat, n <= FeatCap, FeatHas(f, pos)
  PROVE  FeatHas(WriteFeatures(f, pos, n), pos + n)
<1>1. FeatCap \in Nat BY SizesAreNat
<1> DEFINE g == WriteFeatures(f, pos, n)
<1>2. FeatBlock(g, pos, n) /\ \A q \in Nat : q < pos /\ pos + n - FeatCap <= q /\ f[(q % FeatCap) + 1] = q
              => g[(q % FeatCap) + 1] = q
  BY FeaturesWritten
<1> HIDE DEF g
<1> SUFFICES ASSUME NEW q \in 0..(pos + n - 1), pos + n - FeatCap <= q PROVE g[(q % FeatCap) + 1] = q
  BY DEF FeatHas, g
<1>3. CASE q >= pos
  <2>1. q \in pos..(pos + n - 1) BY <1>3
  <2> QED BY <1>2, <2>1 DEF FeatBlock
<1>4. CASE q < pos
  <2>1. q \in 0..(pos - 1) /\ q \in Nat /\ pos - FeatCap <= q BY <1>1, <1>4
  <2> QED BY <1>2, <1>4, <2>1 DEF FeatHas
<1> QED BY <1>3, <1>4

\* The features of a range whose rows and slots are right are those of the context.
LEMMA RangeSynced ==
  ASSUME NEW m, NEW c, c.kv \in Seq(Row), NEW ctx \in Seq(Tokens), Begins(c.kv, ctx),
         NEW k \in Nat, NEW n \in Nat, k + n = Len(ctx), n <= RingCap, FeatBlock(c.feat, k, n),
         \A q \in 0..(k - 1) : Len(ctx) - RingCap <= q => m[(q % RingCap) + 1] = SubSeq(ctx, 1, q + 1)
  PROVE  MirrorHas(sync_range(m, c, k, n), ctx)
<1> DEFINE g == [s \in 1..RingCap |->
                   LET p == k + ((s - 1 - k) % RingCap)
                   IN  IF p < k + n THEN Feature(c, p) ELSE m[s]]
<1>1. RingCap \in Nat \ {0} BY SizesAreNat
<1>2. sync_range(m, c, k, n) = g
  <2>1. sync_range(m, c, k, n) = SubSeq(g, 1, RingCap)
    <3>1. ~(n > RingCap) BY <1>1
    <3> QED BY <3>1 DEF sync_range, Seqn
  <2>2. g = [s \in 1..RingCap |-> g[s]] OBVIOUS
  <2> HIDE DEF g
  <2> QED BY <1>1, <2>1, <2>2, SeqnLen
<1>3. \A i \in 1..RingCap, p \in Nat :
         p = k + ((i - 1 - k) % RingCap) => g[i] = IF p < k + n THEN Feature(c, p) ELSE m[i]
  OBVIOUS
<1> HIDE DEF g
<1>4. ASSUME NEW q \in k..(k + n - 1) PROVE g[(q % RingCap) + 1] = SubSeq(ctx, 1, q + 1)
  <2> DEFINE d == q - k
             s == (q % RingCap) + 1
  <2>1. d \in 0..(RingCap - 1) /\ q \in Nat /\ q = k + d /\ q < k + n /\ q + 1 \in 0..Len(ctx)
    BY <1>1, <1>4
  <2>2. s \in 1..RingCap /\ (s - 1 - k) % RingCap = d
    <3> HIDE DEF d
    <3> QED BY <1>1, <2>1, SlotPlace
  <2> HIDE DEF d, s
  <2>3. q \in Nat /\ q = k + ((s - 1 - k) % RingCap) /\ s \in 1..RingCap BY <2>1, <2>2
  <2>4. g[s] = Feature(c, q) BY <1>3, <2>1, <2>3
  <2>5. c.feat[(q % FeatCap) + 1] = q BY <1>4 DEF FeatBlock
  <2>6. Context(c.kv, q + 1) = SubSeq(ctx, 1, q + 1) BY <2>1, ContextRight
  <2>7. g[s] = SubSeq(ctx, 1, q + 1) BY <2>4, <2>5, <2>6 DEF Feature
  <2> QED BY <2>7 DEF s
<1>5. ASSUME NEW q \in 0..(k - 1), Len(ctx) - RingCap <= q
      PROVE  g[(q % RingCap) + 1] = SubSeq(ctx, 1, q + 1)
  <2> DEFINE d == q + RingCap - k
             s == (q % RingCap) + 1
  <2>1. d \in 0..(RingCap - 1) /\ q + RingCap = k + d /\ d >= n /\ q \in Nat BY <1>1, <1>5
  <2>2. s \in 1..RingCap /\ (s - 1 - k) % RingCap = d
    <3> HIDE DEF d
    <3>1. q = k + d \/ q + RingCap = k + d BY <2>1
    <3>2. /\ (q % RingCap) + 1 \in 1..RingCap
          /\ (((q % RingCap) + 1) - 1 - k) % RingCap = d
      <4> HIDE DEF s
      <4>1. RingCap \in Nat \ {0} /\ k \in Nat /\ q \in Nat /\ d \in 0..(RingCap - 1) BY <1>1, <2>1
      <4> QED BY ONLY <3>1, <4>1, SlotPlace
    <3> QED BY <3>2
  <2>3. m[s] = SubSeq(ctx, 1, q + 1) BY <1>5
  <2> HIDE DEF d, s
  <2>4. ~(k + d < k + n) /\ k + d \in Nat /\ k + d = k + ((s - 1 - k) % RingCap) BY <1>1, <2>1, <2>2
  <2>5. g[s] = m[s] BY <1>3, <2>2, <2>4
  <2>6. g[s] = SubSeq(ctx, 1, q + 1) BY <2>3, <2>5
  <2> QED BY <2>6 DEF s
<1>6. ASSUME NEW q \in 0..(Len(ctx) - 1), Len(ctx) - RingCap <= q
      PROVE  g[(q % RingCap) + 1] = SubSeq(ctx, 1, q + 1)
  <2>1. q \in 0..(k - 1) \/ q \in k..(k + n - 1) BY <1>6
  <2> QED BY <1>4, <1>5, <1>6, <2>1
<1> QED BY <1>2, <1>6 DEF MirrorHas

\* A chunk, or the tokens of a turn, are mirrored after what the mirror had.
LEMMA MirrorGrows ==
  ASSUME NEW m, NEW c, c.kv \in Seq(Row), NEW ctx \in Seq(Tokens), NEW k \in 0..Len(ctx), NEW n \in Nat,
         k + n = Len(ctx), n <= RingCap, Begins(c.kv, ctx), FeatBlock(c.feat, k, n),
         MirrorHas(m, SubSeq(ctx, 1, k))
  PROVE  MirrorHas(sync_range(m, c, k, n), ctx)
<1>1. RingCap \in Nat BY SizesAreNat
<1>2. SubSeq(ctx, 1, k) \in Seq(Tokens) /\ Len(SubSeq(ctx, 1, k)) = k BY PrefixFacts
<1>3. ASSUME NEW q \in 0..(k - 1), Len(ctx) - RingCap <= q
      PROVE  m[(q % RingCap) + 1] = SubSeq(ctx, 1, q + 1)
  <2>1. k - RingCap <= q /\ q + 1 \in 0..k BY <1>1, <1>3
  <2>2. m[(q % RingCap) + 1] = SubSeq(SubSeq(ctx, 1, k), 1, q + 1) BY <1>2, <2>1 DEF MirrorHas
  <2>3. SubSeq(SubSeq(ctx, 1, k), 1, q + 1) = SubSeq(ctx, 1, q + 1)
    <3>1. q + 1 \in Nat /\ q + 1 <= k /\ q + 1 <= Len(ctx) BY <2>1
    <3>2. \A i \in 1..(q + 1) : SubSeq(ctx, 1, k)[i] = ctx[i] BY <3>1
    <3> QED BY <1>2, <3>1, <3>2, SamePrefix
  <2> QED BY <2>2, <2>3
<1>4. k \in Nat OBVIOUS
<1> QED BY <1>3, <1>4, RangeSynced

\* After a restore the whole of the mirror is written.
LEMMA TailSynced ==
  ASSUME NEW m, NEW c, c.kv \in Seq(Row), NEW ctx \in Seq(Tokens), Begins(c.kv, ctx),
         RingCap <= FeatCap, FeatHas(c.feat, Len(ctx))
  PROVE  MirrorHas(sync_tail(m, c, Len(ctx)), ctx)
<1> DEFINE n == Lesser(Len(ctx), RingCap)
           k == Len(ctx) - n
<1>1. RingCap \in Nat /\ FeatCap \in Nat /\ Len(ctx) \in Nat BY SizesAreNat
<1>2. n \in Nat /\ n <= RingCap /\ k \in Nat /\ k + n = Len(ctx) /\ (k = 0 \/ k = Len(ctx) - RingCap)
  BY <1>1 DEF Lesser
<1>3. sync_tail(m, c, Len(ctx)) = sync_range(m, c, k, n) BY DEF sync_tail
<1> HIDE DEF n, k
<1>4. FeatBlock(c.feat, k, n)
  <2> SUFFICES ASSUME NEW q \in k..(k + n - 1) PROVE c.feat[(q % FeatCap) + 1] = q BY DEF FeatBlock
  <2>1. q \in 0..(Len(ctx) - 1) /\ Len(ctx) - FeatCap <= q BY <1>1, <1>2
  <2> QED BY <2>1 DEF FeatHas
<1>5. \A q \in 0..(k - 1) : Len(ctx) - RingCap <= q => m[(q % RingCap) + 1] = SubSeq(ctx, 1, q + 1)
  BY <1>1, <1>2
<1> QED BY <1>2, <1>3, <1>4, <1>5, RangeSynced

\* Features go to a snapshot and come back.
LEMMA FeatSaved ==
  ASSUME NEW f, Len(f) = FeatCap, NEW n \in Nat, n <= FeatCap, FeatHas(f, n), NEW m \in 0..n
  PROVE  Len(FirstSlots(f, m)) = FeatCap /\ FirstPositions(FirstSlots(f, m), m)
<1> DEFINE r == [s \in 1..FeatCap |-> IF s <= m THEN f[s] ELSE Empty]
<1>1. FeatCap \in Nat \ {0} BY SizesAreNat
<1>2. FirstSlots(f, m) = r /\ Len(r) = FeatCap
  <2>1. r = [i \in 1..FeatCap |-> r[i]] OBVIOUS
  <2>2. FirstSlots(f, m) = SubSeq(r, 1, FeatCap) BY DEF FirstSlots, Seqn
  <2> HIDE DEF r
  <2> QED BY <1>1, <2>1, <2>2, SeqnLen
<1>3. ASSUME NEW q \in 1..m PROVE r[q] = q - 1
  <2>1. q - 1 \in 0..(n - 1) /\ n - FeatCap <= q - 1 /\ q - 1 < FeatCap /\ q \in 1..FeatCap BY <1>1
  <2>2. (q - 1) % FeatCap = q - 1 BY <1>1, <2>1
  <2>3. f[((q - 1) % FeatCap) + 1] = q - 1 BY <2>1 DEF FeatHas
  <2>4. f[q] = q - 1 BY <2>1, <2>2, <2>3
  <2> QED BY <2>1, <2>4
<1> HIDE DEF r
<1> QED BY <1>2, <1>3 DEF FirstPositions

LEMMA FeatBack ==
  ASSUME NEW f, Len(f) = FeatCap, NEW from, NEW n \in Nat, n <= FeatCap, FirstPositions(from, n)
  PROVE  FeatHas(PutSlots(f, from, n), n)
<1> DEFINE r == [s \in 1..FeatCap |-> Live(IF s <= n THEN from[s] ELSE f[s], n)]
<1>1. FeatCap \in Nat \ {0} BY SizesAreNat
<1>2. PutSlots(f, from, n) = r
  <2>1. r = [i \in 1..FeatCap |-> r[i]] OBVIOUS
  <2>2. PutSlots(f, from, n) = SubSeq(r, 1, FeatCap) BY DEF PutSlots, Seqn
  <2> HIDE DEF r
  <2> QED BY <1>1, <2>1, <2>2, SeqnLen
<1>3. ASSUME NEW q \in 0..(n - 1) PROVE r[(q % FeatCap) + 1] = q
  <2>1. q \in Nat /\ q < FeatCap /\ q + 1 \in 1..n /\ q + 1 \in 1..FeatCap BY <1>1
  <2>2. q % FeatCap = q BY <1>1, <2>1
  <2>3. from[q + 1] = q BY <2>1 DEF FirstPositions
  <2>4. r[q + 1] = Live(q, n) BY <2>1, <2>3
  <2>5. Live(q, n) = q BY <2>1 DEF Live
  <2> HIDE DEF r
  <2> QED BY <2>2, <2>4, <2>5
<1> HIDE DEF r
<1> QED BY <1>2, <1>3 DEF FeatHas

\* What a gemma4 restore puts back.
SlotFeats(s, p) == Len(s.feat) = FeatCap /\ Len(p) <= FeatCap /\ FirstPositions(s.feat, Len(p))

\* The captured features of a pass.
LEMMA PassFeats ==
  ASSUME NEW c, IsCache(c), c.feat = <<>> \/ Len(c.feat) = FeatCap, NEW toks, NEW base
  PROVE  /\ Qwen35Graph(c, toks, base).cache.feat = WriteFeatures(c.feat, base, Len(toks))
         /\ gemma4_step(c, toks, base).cache.feat = WriteFeatures(c.feat, base, Len(toks))
         /\ FeatLike(c.feat, WriteFeatures(c.feat, base, Len(toks)))
         /\ FeatLike(c.feat, FailedPass(c, base).feat) /\ FeatLike(c.feat, Qwen35FailedPass(c, base).feat)
<1>1. PICK w : w = WriteFeatures(c.feat, base, Len(toks)) OBVIOUS
<1>2. Qwen35Graph(c, toks, base).cache.feat = w
  <2>1. PICK kv, ssm : Qwen35Graph(c, toks, base).cache = [c EXCEPT !.kv = kv, !.ssm = ssm, !.feat = w]
    BY <1>1 DEF Qwen35Graph
  <2> QED BY <2>1 DEF IsCache
<1>3. gemma4_step(c, toks, base).cache.feat = w
  <2> DEFINE k == Gemma4Layers(c, toks, base)
  <2>1. PICK kv, ring : k.cache = [c EXCEPT !.kv = kv, !.ring = ring, !.feat = w]
    BY <1>1 DEF Gemma4Layers
  <2>2. k = [cache |-> k.cache, out |-> k.out] BY DEF Gemma4Layers
  <2>3. gemma4_step(c, toks, base) = [k EXCEPT !.cache.cur_pos = base + Len(toks)] BY DEF gemma4_step
  <2> HIDE DEF k
  <2>4. gemma4_step(c, toks, base).cache = [k.cache EXCEPT !.cur_pos = base + Len(toks)] BY <2>2, <2>3
  <2> QED BY <2>1, <2>4 DEF IsCache
<1>4. FeatLike(c.feat, FailedPass(c, base).feat) /\ FeatLike(c.feat, Qwen35FailedPass(c, base).feat)
  <2>1. PICK v : v = Seqn(Len(c.feat), LAMBDA s : Live(c.feat[s], base)) OBVIOUS
  <2>2. FeatLike(c.feat, v)
    <3>1. PICK f : f = c.feat OBVIOUS
    <3>2. f = <<>> \/ Len(f) = FeatCap BY <3>1
    <3>3. FeatLike(f, SubSeq([s \in 1..Len(f) |-> Live(f[s], base)], 1, Len(f)))
      BY ONLY <3>2, FeatStays DEF Seqn
    <3>4. v = SubSeq([s \in 1..Len(f) |-> Live(f[s], base)], 1, Len(f)) BY <2>1, <3>1 DEF Seqn
    <3> QED BY <3>1, <3>3, <3>4
  <2>3. PICK kv, ring : FailedPass(c, base) = [c EXCEPT !.kv = kv, !.ring = ring, !.feat = v]
    <3>1. PICK kv, ring : kv = SubSeq(c.kv, 1, Lesser(base, Len(c.kv))) /\ ring = Blank(Len(c.ring), Empty)
      OBVIOUS
    <3>2. FailedPass(c, base) = [c EXCEPT !.kv = kv, !.ring = ring, !.feat = v]
      BY <2>1, <3>1 DEF FailedPass, IsCache
    <3> QED BY <3>2
  <2>4. FailedPass(c, base).feat = v BY <2>3 DEF IsCache
  <2>5. Qwen35FailedPass(c, base) = [FailedPass(c, base) EXCEPT !.ssm = Junk] BY DEF Qwen35FailedPass
  <2>6. Qwen35FailedPass(c, base).feat = v
    <3>1. PICK f : f = FailedPass(c, base) OBVIOUS
    <3>2. f = [c EXCEPT !.kv = kv, !.ring = ring, !.feat = v] BY <2>3, <3>1
    <3>3. Qwen35FailedPass(c, base) = [f EXCEPT !.ssm = Junk] BY <2>5, <3>1
    <3> QED BY <3>2, <3>3 DEF IsCache
  <2> QED BY <2>2, <2>4, <2>6
<1>5. FeatLike(c.feat, WriteFeatures(c.feat, base, Len(toks))) BY FeatStays
<1> QED BY <1>1, <1>2, <1>3, <1>4, <1>5

\* The bonus token is written after what was accepted.
LEMMA BonusBlock ==
  ASSUME NEW f, Len(f) = FeatCap, NEW k \in Nat, NEW a \in Nat, NEW q \in Nat, a + 1 <= q,
         q <= FeatCap, FeatBlock(f, k, q)
  PROVE  FeatBlock(WriteFeatures(f, k + a, 1), k, a + 1)
<1>1. FeatCap \in Nat \ {0} /\ k + a \in Nat /\ 1 <= FeatCap BY SizesAreNat
<1> DEFINE g == WriteFeatures(f, k + a, 1)
<1>2. /\ FeatBlock(g, k + a, 1)
      /\ \A i \in Nat : i < k + a /\ (k + a) + 1 - FeatCap <= i /\ f[(i % FeatCap) + 1] = i
           => g[(i % FeatCap) + 1] = i
  BY <1>1, FeaturesWritten
<1> HIDE DEF g
<1> SUFFICES ASSUME NEW i \in k..(k + (a + 1) - 1) PROVE g[(i % FeatCap) + 1] = i BY DEF FeatBlock, g
<1>3. CASE i = k + a
  <2>1. i \in (k + a)..((k + a) + 1 - 1) BY <1>3
  <2> QED BY <1>2, <2>1 DEF FeatBlock
<1>4. CASE i < k + a
  <2>1. i \in Nat /\ (k + a) + 1 - FeatCap <= i /\ i \in k..(k + q - 1) BY <1>1, <1>4
  <2>2. f[(i % FeatCap) + 1] = i BY <2>1 DEF FeatBlock
  <2> QED BY <1>2, <1>4, <2>1, <2>2
<1> QED BY <1>3, <1>4

\* At the beginning of a prompt there is nothing to mirror.
LEMMA NothingMirrored ==
  ASSUME NEW p \in Seq(Tokens), NEW m, NEW f
  PROVE  MirrorHas(m, SubSeq(p, 1, 0)) /\ FeatHas(f, 0)
<1>1. Len(SubSeq(p, 1, 0)) = 0
  <2>1. 0 \in 0..Len(p) OBVIOUS
  <2> QED BY <2>1, PrefixFacts
<1> QED BY <1>1 DEF MirrorHas, FeatHas

=============================================================================

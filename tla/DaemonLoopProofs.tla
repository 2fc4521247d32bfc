-------------------------- MODULE DaemonLoopProofs --------------------------
(***************************************************************************)
(* For any vocabulary, target, draft, requests and sizes, and whichever    *)
(* calls fail: no pass runs on parked weights, every answer has its end    *)
(* marker and no token too many, what is streamed is what the target alone *)
(* generates, a snapshot keeps the state of the prefix it is of, and the   *)
(* draft reads the features of the tokens committed.                       *)
(***************************************************************************)
EXTENDS DaemonLoop, SpeculationLemmas

-----------------------------------------------------------------------------
(* The invariant *)

Working == {"prefill", "draft", "commit", "ar", "second"}

\* A request that was let through.
IsRequest(r) ==
  /\ r \in [via: {r.via}, prompt: {r.prompt}, n_gen: Nat, snap_pos: {r.snap_pos},
            snap_slot: Slots \cup {NoSlot}, slot: Slots \cup {NoSlot}]
  /\ r.prompt \in Seq(Tokens) /\ r.prompt # <<>> /\ Len(r.prompt) + r.n_gen <= MaxCtx
  /\ r.snap_slot # NoSlot => r.snap_pos \in Nat \ {0}
  /\ r.via \in {"bare", "restore", "legacy", "http"}
  /\ r.via # "http" => r.n_gen > 0

IsJob(j) ==
  j \in [at: {j.at}, req: {j.req}, committed: Nat, n: Nat, last: Tokens \cup {-1},
         draft: {j.draft}, target: {j.target}, saved: {j.saved}, snap: BOOLEAN,
         refused: BOOLEAN, exact: BOOLEAN, ok: BOOLEAN]

\* What a command leaves alone, and what parking and compressing change.
ProcessOK ==
  /\ config \in [kind: Kinds, draft: BOOLEAN]
  /\ parked \subseteq {"target", "draft"} /\ drafter \in BOOLEAN
  /\ ~Is("qwen35") => "draft" \notin parked
  /\ Len(mirror) = RingCap

CacheOK == IsCache(cache) /\ cache.cur_pos \in Nat /\ cache.last_tok \in Tokens \cup {-1}

\* laguna's restore takes the rows that were saved, qwen35's the last token.
Sound(s) ==
  /\ IsSnap(s)
  /\ Is("laguna") /\ s.used => s.cur_pos <= Len(s.kv)
  /\ Is("qwen35") /\ s.used /\ ~s.thin => s.last_tok \in Tokens

SnapsOK ==
  /\ snaps = [s \in Slots |-> snaps[s]] /\ named = [s \in Slots |-> named[s]]
  /\ \A s \in Slots : Sound(snaps[s])

\* Once anything was evaluated, qwen35's cache has a last token.
LastKnown ==
  Is("qwen35") /\ (\/ cache.cur_pos > 0 \/ job.committed > 0
                   \/ job.at \in {"draft", "commit", "ar"}
                   \/ \E s \in Slots : snaps[s].used) =>
    cache.last_tok \in Tokens

\* The request being served, and what each step of its loop relies on.
JobOK ==
  /\ IsJob(job)
  /\ job.at \in Working \cup {"idle", "returned", "answered"}
  /\ job.at = "idle" => job = Idle /\ stream = <<>>
  /\ job.at \in Working \cup {"returned"} => IsRequest(job.req)
  /\ job.at \in Working => /\ "target" \notin parked /\ job.n <= job.req.n_gen
                           /\ job.snap => job.req.snap_slot \in Slots
  /\ job.at \in {"draft", "commit"} => "draft" \notin parked
  /\ job.at \in {"draft", "commit", "second"} => job.n < job.req.n_gen
  /\ job.at = "ar" /\ ~Is("laguna") => job.n < job.req.n_gen
  /\ job.at \in {"ar", "second"} => job.last \in Tokens
  /\ job.at = "commit" => /\ job.draft \in Seq(Tokens) /\ Len(job.draft) = QLen
                          /\ job.target \in [1..QLen -> Tokens]
  /\ job.at = "prefill" =>
       /\ job.n = 0
       /\ ~Is("qwen3") => job.committed <= Len(job.req.prompt)
       /\ Is("qwen35") /\ job.committed > 0 => cache.cur_pos = job.committed
       /\ Is("laguna") => cache.cur_pos = job.committed
       /\ Is("laguna") /\ job.committed = Len(job.req.prompt) => job.last \in Tokens

Streamed == job.req.via \in {"bare", "restore"}

EndedAs(w, k) ==
  /\ InBudget(w, job.req.n_gen) /\ stream = WithEnds(w, k)
  /\ job.at = "returned" \/ job.ok => k <= 1
  /\ job.at = "returned" /\ job.ok /\ Streamed => k = 1
  /\ job.at = "answered" /\ Streamed => k >= 1

StreamOK ==
  /\ job.at \in Working => Going(stream, job.n)
  /\ job.at \in {"returned", "answered"} => \E w \in Seq(Tokens), k \in 0..2 : EndedAs(w, k)

Inv == ProcessOK /\ CacheOK /\ SnapsOK /\ LastKnown /\ JobOK /\ StreamOK

-----------------------------------------------------------------------------
(* What is written to the stream *)

LEMMA EmitBatchFacts ==
  ASSUME NEW toks \in Seq(Tokens), toks # <<>>, NEW e \in EmitBatch(toks)
  PROVE  /\ e.offered \in 1..Len(toks) /\ e.refused \in BOOLEAN
         /\ e.written = SubSeq(toks, 1, IF e.refused THEN e.offered - 1 ELSE e.offered)
         /\ \A i \in 1..(e.offered - 1) : toks[i] # Eos
         /\ ~e.refused => e.offered = Len(toks) \/ toks[e.offered] = Eos
         /\ e.refused => FALSE \in Accepts
<1> DEFINE stops == {i \in 1..Len(toks) : toks[i] = Eos}
           n == IF stops = {} THEN Len(toks) ELSE Min(stops)
<1>1. Len(toks) \in Nat /\ Len(toks) > 0 OBVIOUS
<1>2. /\ n \in 1..Len(toks) /\ \A i \in 1..(n - 1) : toks[i] # Eos
      /\ n = Len(toks) \/ toks[n] = Eos
  <2>1. CASE stops = {} BY <1>1, <2>1
  <2>2. CASE stops # {}
    <3>1. stops \in SUBSET Nat OBVIOUS
    <3>2. \E x \in stops : \A y \in stops : x <= y
      <4> HIDE DEF stops
      <4> QED BY <2>2, <3>1, LeastNat
    <3>3. Min(stops) \in stops /\ \A y \in stops : Min(stops) <= y
      <4> HIDE DEF stops
      <4> QED BY <3>2 DEF Min
    <3>4. n = Min(stops) BY <2>2
    <3> HIDE DEF n
    <3>5. n \in 1..Len(toks) /\ toks[n] = Eos BY <3>3, <3>4
    <3>6. ASSUME NEW i \in 1..(n - 1) PROVE toks[i] # Eos
      <4>1. i \in 1..Len(toks) /\ i < n BY <1>1, <3>5
      <4>2. i \in stops => n <= i BY <3>3, <3>4
      <4> QED BY <1>1, <3>5, <4>1, <4>2
    <3> QED BY <3>5, <3>6
  <2> QED BY <2>1, <2>2
<1>3. EmitBatch(toks) = {[offered |-> n, written |-> SubSeq(toks, 1, n), refused |-> FALSE]}
        \cup IF FALSE \in Accepts
             THEN {[offered |-> i, written |-> SubSeq(toks, 1, i - 1), refused |-> TRUE] : i \in 1 .. n}
             ELSE {}
  BY DEF EmitBatch
<1> HIDE DEF n, stops
<1>4. CASE e = [offered |-> n, written |-> SubSeq(toks, 1, n), refused |-> FALSE]
  BY <1>2, <1>4
<1>5. CASE /\ FALSE \in Accepts
           /\ \E i \in 1..n : e = [offered |-> i, written |-> SubSeq(toks, 1, i - 1), refused |-> TRUE]
  <2>1. PICK i \in 1..n : e = [offered |-> i, written |-> SubSeq(toks, 1, i - 1), refused |-> TRUE]
    BY <1>5
  <2>2. i \in 1..Len(toks) /\ \A j \in 1..(i - 1) : toks[j] # Eos BY <1>1, <1>2
  <2> QED BY <1>5, <2>1, <2>2
<1> QED BY <1>3, <1>4, <1>5

LEMMA AcceptsBool == \A a \in Accepts : a \in BOOLEAN /\ (~a) \in BOOLEAN
<1>1. Accepts \subseteq BOOLEAN BY DEF Accepts
<1> QED BY <1>1

\* A token that does not end the answer.
LEMMA GoingEmit ==
  ASSUME NEW n \in Nat, Going(stream, n), NEW t \in Tokens, NEW a \in BOOLEAN
  PROVE  /\ t # Eos => Going(emit(t, a), n + 1)
         /\ InBudget(emit(t, a), n + 1) /\ Going(stream, n + 1) /\ InBudget(stream, n)
<1>1. stream \in Seq(Tokens) /\ Len(stream) \in Nat /\ Len(stream) <= n BY DEF Going
<1>2. /\ Append(stream, t) \in Seq(Tokens) /\ Len(Append(stream, t)) = Len(stream) + 1
      /\ Append(stream, t)[Len(stream) + 1] = t
      /\ \A i \in 1..Len(stream) : Append(stream, t)[i] = stream[i]
  BY <1>1, AppendFacts
<1>3. Going(stream, n + 1) /\ InBudget(stream, n) /\ InBudget(stream, n + 1)
  <2>1. \A i \in 1..Len(stream) : stream[i] # Eos BY DEF Going
  <2>2. \A i \in 1..(Len(stream) - 1) : i \in 1..Len(stream) BY <1>1
  <2> QED BY <1>1, <2>1, <2>2 DEF Going, InBudget
<1> DEFINE w == Append(stream, t)
<1>4. w \in Seq(Tokens) /\ Len(w) <= n + 1 BY <1>1, <1>2
<1>5. \A i \in 1..(Len(w) - 1) : w[i] # Eos
  <2>1. \A i \in 1..Len(stream) : w[i] # Eos BY <1>2 DEF Going
  <2>2. Len(w) - 1 = Len(stream) BY <1>1, <1>2
  <2> QED BY <2>1, <2>2
<1>6. t # Eos => \A i \in 1..Len(w) : w[i] # Eos
  <2>1. Len(w) = Len(stream) + 1 /\ w[Len(stream) + 1] = t BY <1>2
  <2> HIDE DEF w
  <2> QED BY <1>1, <1>5, <2>1
<1> HIDE DEF w
<1>7. (t # Eos => Going(w, n + 1)) /\ InBudget(w, n + 1) BY <1>4, <1>5, <1>6 DEF Going, InBudget
<1> QED BY <1>3, <1>7 DEF emit, w

\* A batch of tokens: all but the last of them are not the end token.
LEMMA GoingBatch ==
  ASSUME NEW n \in Nat, Going(stream, n), NEW toks \in Seq(Tokens), toks # <<>>,
         NEW e \in EmitBatch(toks)
  PROVE  /\ InBudget(stream \o e.written, n + e.offered)
         /\ ~e.refused /\ Last(e.written) # Eos => Going(stream \o e.written, n + e.offered)
<1> DEFINE m == e.offered
           k == IF e.refused THEN m - 1 ELSE m
           v == e.written
           w == stream \o v
<1>1. /\ m \in 1..Len(toks) /\ e.refused \in BOOLEAN /\ v = SubSeq(toks, 1, k)
      /\ \A i \in 1..(m - 1) : toks[i] # Eos
  BY EmitBatchFacts
<1>2. k \in 0..m /\ k \in 0..Len(toks) /\ (~e.refused => k = m) /\ (e.refused => k = m - 1)
  BY <1>1
<1> HIDE DEF k, m, v
<1>3. v \in Seq(Tokens) /\ Len(v) = k /\ \A i \in 1..k : v[i] = toks[i] BY <1>1, <1>2
<1>4. stream \in Seq(Tokens) /\ Len(stream) \in Nat /\ Len(stream) <= n
      /\ \A i \in 1..Len(stream) : stream[i] # Eos
  BY DEF Going
<1>5. /\ w \in Seq(Tokens) /\ Len(w) = Len(stream) + k
      /\ \A i \in 1..(Len(stream) + k) : w[i] = IF i <= Len(stream) THEN stream[i] ELSE v[i - Len(stream)]
  BY <1>3, <1>4, ConcatProperties
<1> HIDE DEF w
<1>6. ASSUME NEW i \in 1..Len(w), i <= Len(stream) \/ i - Len(stream) <= m - 1 PROVE w[i] # Eos
  <2>1. CASE i <= Len(stream) BY <1>4, <1>5, <2>1
  <2>2. CASE ~(i <= Len(stream))
    <3>1. i - Len(stream) \in 1..k /\ i - Len(stream) \in 1..(m - 1) BY <1>1, <1>2, <1>4, <1>5, <1>6, <2>2
    <3> QED BY <1>1, <1>3, <1>5, <2>2, <3>1
  <2> QED BY <2>1, <2>2
<1>7. Len(w) <= n + m BY <1>1, <1>2, <1>4, <1>5
<1>8. \A i \in 1..(Len(w) - 1) : w[i] # Eos
  <2>1. ASSUME NEW i \in 1..(Len(w) - 1) PROVE w[i] # Eos
    <3>1. i \in 1..Len(w) /\ (i <= Len(stream) \/ i - Len(stream) <= m - 1)
      BY <1>1, <1>2, <1>4, <1>5
    <3> QED BY <1>6, <3>1
  <2> QED BY <2>1
<1>9. InBudget(w, n + m) BY <1>5, <1>7, <1>8 DEF InBudget
<1>10. ASSUME ~e.refused, Last(v) # Eos PROVE Going(w, n + m)
  <2>1. k = m /\ m > 0 BY <1>1, <1>2, <1>10
  <2>2. Last(v) = v[m] BY <1>3, <2>1 DEF Last
  <2>3. w[Len(stream) + m] = v[m]
    <3>1. Len(stream) + m \in 1..(Len(stream) + k) /\ ~(Len(stream) + m <= Len(stream))
          /\ (Len(stream) + m) - Len(stream) = m
      BY <1>1, <1>4, <2>1
    <3> QED BY <1>5, <3>1
  <2>4. \A i \in 1..Len(w) : w[i] # Eos
    <3>1. ASSUME NEW i \in 1..Len(w) PROVE w[i] # Eos
      <4>1. CASE i = Len(stream) + m BY <1>10, <2>2, <2>3, <4>1
      <4>2. CASE i # Len(stream) + m
        <5>1. i \in 1..(Len(w) - 1) BY <1>1, <1>4, <1>5, <2>1, <4>2
        <5> QED BY <1>8, <5>1
      <4> QED BY <4>1, <4>2
    <3> QED BY <3>1
  <2> QED BY <1>5, <1>7, <2>4 DEF Going
<1> QED BY <1>9, <1>10 DEF w, v, m

-----------------------------------------------------------------------------
(* How a step leaves the request *)

LEMMA SameSnaps == ASSUME SnapsOK, UNCHANGED <<config, snaps, named>> PROVE SnapsOK'
BY DEF SnapsOK, Sound, Is

LEMMA SameProcess ==
  ASSUME ProcessOK, UNCHANGED <<config, parked, drafter>>, Len(mirror') = RingCap
  PROVE  ProcessOK'
BY DEF ProcessOK, Is

\* One more token of the target's own.
LEMMA OneMore ==
  ASSUME IsJob(job), NEW t \in Tokens,
         job' = [job EXCEPT !.last = t, !.n = @ + 1, !.committed = @ + 1]
  PROVE  /\ IsJob(job') /\ job'.at = job.at /\ job'.req = job.req /\ job'.n = job.n + 1
         /\ job'.committed = job.committed + 1 /\ job'.last = t /\ job'.snap = job.snap
         /\ job'.exact = job.exact /\ job'.refused = job.refused
<1>1. job.n + 1 \in Nat /\ job.committed + 1 \in Nat BY DEF IsJob
<1> QED BY <1>1 DEF IsJob

LEMMA Stays ==
  ASSUME StreamOK, job.at \in Working, job'.at \in Working, job'.n = job.n, stream' = stream
  PROVE  StreamOK'
BY DEF StreamOK, Working

LEMMA Emits ==
  ASSUME JobOK, StreamOK, job.at \in Working, NEW t \in Tokens, t # Eos, NEW a \in BOOLEAN,
         stream' = emit(t, a), job'.at \in Working, job'.n = job.n + 1
  PROVE  StreamOK'
<1>1. job.n \in Nat /\ Going(stream, job.n) BY DEF JobOK, IsJob, StreamOK
<1>2. Going(emit(t, a), job.n + 1) BY <1>1, GoingEmit
<1> QED BY <1>2 DEF StreamOK, Working

LEMMA ReturnedOK ==
  ASSUME JobOK, job.at \in Working, NEW ok \in BOOLEAN, NEW r \in BOOLEAN,
         job' = Returned(ok, r)
  PROVE  JobOK' /\ job'.req = job.req /\ job'.at = "returned" /\ job'.ok = ok /\ job'.refused = r
         /\ job'.committed = 0 /\ job'.exact = job.exact
<1>1. IsJob(job) /\ IsRequest(job.req) BY DEF JobOK
<1>2. /\ job'.req = job.req /\ job'.at = "returned" /\ job'.ok = ok /\ job'.refused = r
      /\ job'.committed = 0 /\ IsJob(job') /\ job'.exact = job.exact
  <2>1. job' = [job EXCEPT !.at = "returned", !.ok = ok, !.refused = r,
                           !.committed = 0, !.n = 0, !.last = -1, !.draft = <<>>,
                           !.target = <<>>, !.saved = <<>>, !.snap = FALSE]
    BY DEF Returned
  <2>2. PICK j : j = [job EXCEPT !.at = "returned", !.ok = ok, !.refused = r,
                                 !.committed = 0, !.n = 0, !.snap = FALSE] OBVIOUS
  <2>3. IsJob(j) /\ j.req = job.req /\ j.at = "returned" /\ j.ok = ok /\ j.refused = r
        /\ j.committed = 0 /\ j.exact = job.exact
    BY ONLY ZenonT(40), <1>1, <2>2, ok \in BOOLEAN, r \in BOOLEAN DEF IsJob
  <2>4. job' = [j EXCEPT !.last = -1, !.draft = <<>>, !.target = <<>>, !.saved = <<>>]
    BY ONLY <1>1, <2>1, <2>2 DEF IsJob
  <2> QED BY ONLY <2>3, <2>4 DEF IsJob
<1>3. JobOK' BY <1>1, <1>2 DEF JobOK, Working
<1> QED BY <1>2, <1>3

LEMMA Ends ==
  ASSUME job.at \in Working, JobOK, NEW ok \in BOOLEAN, NEW r \in BOOLEAN,
         job' = Returned(ok, r), NEW w, InBudget(w, job.req.n_gen), NEW k \in 0..1,
         stream' = WithEnds(w, k), ok /\ Streamed => k = 1
  PROVE  StreamOK'
<1>1. job'.req = job.req /\ job'.at = "returned" /\ job'.ok = ok BY ReturnedOK
<1>2. w \in Seq(Tokens) /\ k \in 0..2 /\ k <= 1 BY DEF InBudget
<1>3. EndedAs(w, k)' BY <1>1, <1>2 DEF EndedAs, Streamed
<1> QED BY <1>1, <1>2, <1>3 DEF StreamOK, Working

LEMMA EndsPlain ==
  ASSUME job.at \in Working, JobOK, StreamOK, NEW ok \in BOOLEAN, NEW r \in BOOLEAN,
         job' = Returned(ok, r), ok => ~Streamed, stream' = stream
  PROVE  StreamOK'
<1>1. job.n \in Nat /\ job.req.n_gen \in Nat /\ job.n <= job.req.n_gen BY DEF JobOK, IsJob, IsRequest
<1>2. Going(stream, job.n) BY DEF StreamOK
<1>3. InBudget(stream, job.n)
  <2>1. \A i \in 1..(Len(stream) - 1) : i \in 1..Len(stream) BY <1>2 DEF Going
  <2> QED BY <1>2, <2>1 DEF Going, InBudget
<1>4. InBudget(stream, job.req.n_gen) BY <1>1, <1>3, BudgetMore
<1>5. 0 \in 0..1 /\ stream' = WithEnds(stream, 0) BY DEF WithEnds
<1> QED BY <1>4, <1>5, Ends

LEMMA EndsMarked ==
  ASSUME job.at \in Working, JobOK, StreamOK, NEW ok \in BOOLEAN, NEW r \in BOOLEAN,
         job' = Returned(ok, r), stream' = Append(stream, -1)
  PROVE  StreamOK'
<1>1. job.n \in Nat /\ job.req.n_gen \in Nat /\ job.n <= job.req.n_gen BY DEF JobOK, IsJob, IsRequest
<1>2. Going(stream, job.n) BY DEF StreamOK
<1>3. InBudget(stream, job.n)
  <2>1. \A i \in 1..(Len(stream) - 1) : i \in 1..Len(stream) BY <1>2 DEF Going
  <2> QED BY <1>2, <2>1 DEF Going, InBudget
<1>4. InBudget(stream, job.req.n_gen) BY <1>1, <1>3, BudgetMore
<1>5. 1 \in 0..1 /\ stream' = WithEnds(stream, 1) BY DEF WithEnds
<1> QED BY <1>4, <1>5, Ends

LEMMA EndsAfter ==
  ASSUME job.at \in Working, JobOK, StreamOK, NEW ok \in BOOLEAN, NEW r \in BOOLEAN,
         job' = Returned(ok, r), job.n < job.req.n_gen, NEW t \in Tokens, NEW a \in BOOLEAN,
         stream' = Append(emit(t, a), -1)
  PROVE  StreamOK'
<1>1. job.n \in Nat /\ job.req.n_gen \in Nat /\ job.n + 1 <= job.req.n_gen
  BY DEF JobOK, IsJob, IsRequest
<1>2. Going(stream, job.n) BY DEF StreamOK
<1>3. InBudget(emit(t, a), job.n + 1) BY <1>1, <1>2, GoingEmit
<1>4. InBudget(emit(t, a), job.req.n_gen) BY <1>1, <1>3, BudgetMore
<1>5. 1 \in 0..1 /\ stream' = WithEnds(emit(t, a), 1) BY DEF WithEnds
<1> QED BY <1>4, <1>5, Ends

-----------------------------------------------------------------------------
(* Snapshots *)

LEMMA NoSnapSound == Sound(NoSnap) /\ ~NoSnap.used
<1>1. ~NoSnap.used BY DEF NoSnap
<1> QED BY <1>1, NoSnapType DEF Sound

LEMMA PutSnapOK ==
  ASSUME SnapsOK, UNCHANGED config, NEW slot \in Slots, NEW s, Sound(s), PutSnap(slot, s)
  PROVE  SnapsOK' /\ snaps' = [snaps EXCEPT ![slot] = s]
<1>1. Sound(s)' BY DEF Sound, Is
<1>2. \A q \in Slots : Sound(snaps[q])' <=> Sound(snaps'[q]) /\ config' = config BY DEF Sound, Is
<1>3. \A q \in Slots : snaps'[q] = IF q = slot THEN s ELSE snaps[q] BY DEF PutSnap, SnapsOK
<1>4. \A q \in Slots : Sound(snaps'[q]) BY <1>3 DEF SnapsOK
<1>5. snaps' = [q \in Slots |-> snaps'[q]] /\ named' = [q \in Slots |-> named'[q]]
  BY DEF PutSnap, SnapsOK
<1> QED BY <1>2, <1>4, <1>5 DEF SnapsOK, PutSnap

-----------------------------------------------------------------------------
(* qwen35 *)

LEMMA WithAllocSound ==
  ASSUME NEW new, Sound(new), NEW b, NEW s \in WithAlloc(new, b)
  PROVE  Sound(s) /\ (s.used => s = new)
<1>1. s = new \/ s = NoSnap BY DEF WithAlloc
<1>2. ~NoSnap.used BY DEF NoSnap
<1> QED BY <1>1, <1>2, NoSnapSound

LEMMA Qwen35SaveSound ==
  ASSUME CacheOK, LastKnown, Is("qwen35"), cache.cur_pos <= MaxCtx,
         NEW old, Sound(old), NEW s \in Qwen35Save(old)
  PROVE  Sound(s) /\ (s.used => old.used \/ cache.last_tok \in Tokens)
<1>1. CASE cache.cur_pos <= 0 BY <1>1 DEF Qwen35Save
<1>2. CASE cache.cur_pos > 0
  <2> DEFINE new == snapshot_target_cache(cache)
  <2>1. cache.last_tok \in Tokens BY <1>2 DEF LastKnown
  <2>2. IsSnap(new) BY SaveType DEF CacheOK
  <2>3. new.last_tok = cache.last_tok /\ ~new.thin BY DEF snapshot_target_cache
  <2>4. Sound(new) BY <2>1, <2>2, <2>3 DEF Sound, Is
  <2>5. ~(cache.cur_pos <= 0) BY <1>2 DEF CacheOK
  <2>6. s \in WithAlloc(new, ~old.used \/ old.cur_pos # cache.cur_pos) BY <2>5 DEF Qwen35Save
  <2> HIDE DEF new
  <2> QED BY <2>1, <2>4, <2>6, WithAllocSound
<1> QED BY <1>1, <1>2 DEF CacheOK

LEMMA Qwen35InlineSnapOK == ASSUME Inv, Qwen35InlineSnap PROVE Inv'
<1> USE DEF Inv
<1>1. /\ Is("qwen35") /\ job.at = "prefill" /\ job.snap /\ job.req.snap_pos = job.committed
      /\ job' = [job EXCEPT !.snap = FALSE]
      /\ UNCHANGED <<config, cache, mirror, parked, drafter, stream, commands>>
  BY DEF Qwen35InlineSnap, Qwen35SnapDue
<1> DEFINE slot == job.req.snap_slot
<1>2. slot \in Slots /\ job.req.snap_pos \in Nat \ {0} /\ job.committed <= Len(job.req.prompt)
      /\ Len(job.req.prompt) + job.req.n_gen <= MaxCtx /\ job.req.n_gen \in Nat
  BY <1>1, SlotsAssumption DEF JobOK, Working, IsRequest, Is
<1>3. cache.cur_pos = job.committed /\ job.committed > 0 BY <1>1, <1>2 DEF JobOK
<1>4. cache.cur_pos <= MaxCtx /\ cache.last_tok \in Tokens
  <2>1. Len(job.req.prompt) \in Nat BY <1>1 DEF JobOK, Working, IsRequest
  <2>2. MaxCtx \in Nat BY SizesAreNat
  <2> QED BY <1>1, <1>2, <1>3, <2>1, <2>2 DEF LastKnown, CacheOK
<1>5. PICK s \in Qwen35Save(snaps[slot]) : PutSnap(slot, s) BY DEF Qwen35InlineSnap
<1>6. Sound(s)
  <2>1. Sound(snaps[slot]) BY <1>2 DEF SnapsOK
  <2> QED BY <1>1, <1>4, <1>5, <2>1, Qwen35SaveSound
<1>7. SnapsOK'
  <2> HIDE DEF slot
  <2> QED BY <1>1, <1>2, <1>5, <1>6, PutSnapOK
<1>8. ProcessOK' BY <1>1, SameProcess DEF ProcessOK
<1>9. CacheOK' BY <1>1 DEF CacheOK
<1>10. LastKnown' BY <1>1, <1>4 DEF LastKnown
<1>11. IsJob(job') /\ job'.at = job.at /\ job'.n = job.n /\ job'.req = job.req
       /\ job'.committed = job.committed /\ ~job'.snap /\ job'.last = job.last
  BY <1>1 DEF JobOK, IsJob
<1>12. JobOK' BY <1>1, <1>11 DEF JobOK, Working, Is
<1>13. StreamOK' BY <1>1, <1>11, Stays DEF Working
<1> QED BY <1>7, <1>8, <1>9, <1>10, <1>12, <1>13

LEMMA Qwen35ChunkFacts ==
  ASSUME Inv, Is("qwen35"), job.at = "prefill", job.committed < Len(job.req.prompt)
  PROVE  /\ Qwen35ChunkLen(job.committed) \in Nat \ {0}
         /\ job.committed + Qwen35ChunkLen(job.committed) <= Len(job.req.prompt)
         /\ job.snap /\ job.committed < job.req.snap_pos =>
              job.committed + Qwen35ChunkLen(job.committed) <= job.req.snap_pos
                \/ Len(job.req.prompt) < job.req.snap_pos
<1> DEFINE k == job.committed
           l == Len(job.req.prompt)
           n == Min({Chunk, l - k})
<1>1. k \in Nat /\ l \in Nat /\ k < l /\ Chunk \in Nat \ {0}
  BY ChunkSize DEF Inv, JobOK, IsJob, IsRequest, Working
<1>2. n \in {Chunk, l - k} /\ n <= Chunk /\ n <= l - k
  <2>1. l - k \in Int /\ Chunk \in Int BY <1>1
  <2> HIDE DEF k, l
  <2> QED BY <2>1, MinFacts
<1>3. n \in Nat \ {0} /\ k + n <= l BY SMTT(30), <1>1, <1>2
<1>4. Qwen35ChunkLen(k) = IF job.snap /\ job.req.snap_pos \in k + 1 .. k + n - 1
                          THEN job.req.snap_pos - k ELSE n
  BY DEF Qwen35ChunkLen
<1>5. job.snap => job.req.snap_pos \in Nat \ {0}
  BY SlotsAssumption DEF Inv, JobOK, IsRequest, Working
<1> HIDE DEF n, k, l
<1>6. CASE job.snap /\ job.req.snap_pos \in k + 1 .. k + n - 1
  <2>1. Qwen35ChunkLen(k) = job.req.snap_pos - k BY <1>4, <1>6
  <2> QED BY SMTT(30), <1>1, <1>3, <1>6, <2>1 DEF k, l
<1>7. CASE ~(job.snap /\ job.req.snap_pos \in k + 1 .. k + n - 1)
  <2>1. Qwen35ChunkLen(k) = n BY <1>4, <1>7
  <2>2. job.snap /\ k < job.req.snap_pos => k + n <= job.req.snap_pos BY <1>1, <1>3, <1>5, <1>7
  <2> QED BY <1>1, <1>3, <2>1, <2>2 DEF k, l
<1> QED BY <1>6, <1>7

LEMMA Qwen35PrefillOK == ASSUME Inv, Qwen35Prefill PROVE Inv'
<1> USE DEF Inv
<1> DEFINE k == job.committed
           n == Qwen35ChunkLen(k)
           p == SubSeq(job.req.prompt, k + 1, k + n)
<1>1. /\ Is("qwen35") /\ job.at = "prefill" /\ k < Len(job.req.prompt)
      /\ UNCHANGED <<config, snaps, named, parked, drafter, commands>>
  BY DEF Qwen35Prefill, KeepSnaps
<1>2. n \in Nat \ {0} /\ k + n <= Len(job.req.prompt) BY <1>1, Qwen35ChunkFacts
<1>3. k \in Nat /\ job.req.prompt \in Seq(Tokens) /\ job.n = 0
      /\ IsJob(job) /\ IsCache(cache) /\ IsRequest(job.req)
  BY <1>1 DEF JobOK, IsJob, IsRequest, Working, CacheOK
<1>4. PICK g : g = Qwen35Graph(cache, p, k) OBVIOUS
<1>5. IsCache(g.cache) /\ IsOut(g.out, n)
  <2> HIDE DEF n, k
  <2>1. p \in Seq(Tokens) /\ Len(p) = n BY <1>2, <1>3, ChunkFacts
  <2> HIDE DEF p
  <2>2. IsCache(g.cache) /\ IsOut(g.out, Len(p))
    BY ONLY <1>3, <1>4, <2>1, Qwen35Pass
  <2> QED BY <2>1, <2>2
<1>6. Pick(Last(g.out)) \subseteq Tokens
  <2> HIDE DEF n
  <2> QED BY <1>2, <1>5, OutPicks
<1>7. SnapsOK' BY <1>1, SameSnaps
<1>8. CASE /\ \E t \in Pick(Last(g.out)) :
                cache' = [g.cache EXCEPT !.last_tok = t, !.cur_pos = k + n]
           /\ mirror' = IF Qwen35CanSpec THEN sync_range(mirror, g.cache, k, n) ELSE mirror
           /\ job' = [job EXCEPT !.committed = k + n]
           /\ stream' = stream
  <2> HIDE DEF n, k, p
  <2>1. PICK t \in Tokens : cache' = [g.cache EXCEPT !.last_tok = t, !.cur_pos = k + n]
    BY <1>6, <1>8
  <2>2. IsCache(cache') /\ cache'.cur_pos = k + n /\ cache'.last_tok = t
    BY <1>5, <2>1 DEF IsCache
  <2>3. CacheOK' BY <1>2, <1>3, <2>2 DEF CacheOK, k
  <2>4. ProcessOK' BY <1>1, <1>8, SameProcess, MirrorSize DEF ProcessOK
  <2>5. LastKnown' BY <2>2 DEF LastKnown
  <2>6. /\ IsJob(job') /\ job'.at = job.at /\ job'.n = job.n /\ job'.req = job.req
        /\ job'.committed = k + n /\ job'.snap = job.snap /\ job'.last = job.last
    BY <1>2, <1>3, <1>8 DEF IsJob, k
  <2>7. JobOK' BY <1>1, <1>2, <1>3, <2>2, <2>6 DEF JobOK, Working, Is, k
  <2>8. StreamOK' BY <1>1, <1>8, <2>6, Stays DEF Working
  <2> QED BY <1>7, <2>3, <2>4, <2>5, <2>7, <2>8
<1>9. CASE /\ cache' = Qwen35FailedPass(cache, k)
           /\ Return(FALSE)
           /\ mirror' = mirror
  <2> HIDE DEF n, p
  <2>1. IsCache(cache') /\ SameEnds(cache, cache') BY <1>3, <1>9, FailedType
  <2>2. CacheOK' BY <2>1 DEF CacheOK, SameEnds
  <2>3. ProcessOK' BY <1>1, <1>9, SameProcess DEF ProcessOK
  <2>4. job' = Returned(FALSE, job.refused) /\ stream' = stream /\ job.refused \in BOOLEAN
    BY <1>3, <1>9 DEF Return, IsJob
  <2>5. job.at \in Working BY <1>1 DEF Working
  <2>6. JobOK' /\ job'.committed = 0 /\ job'.at = "returned" BY <2>4, <2>5, ReturnedOK
  <2>7. LastKnown' BY <1>1, <1>3, <2>1, <2>6 DEF LastKnown, SameEnds, Is
  <2>8. StreamOK' BY <2>4, <2>5, EndsPlain
  <2> QED BY <1>7, <2>2, <2>3, <2>6, <2>7, <2>8
<1>10. \/ /\ \E t \in Pick(Last(g.out)) :
                 cache' = [g.cache EXCEPT !.last_tok = t, !.cur_pos = k + n]
          /\ mirror' = IF Qwen35CanSpec THEN sync_range(mirror, g.cache, k, n) ELSE mirror
          /\ job' = [job EXCEPT !.committed = k + n]
          /\ stream' = stream
       \/ /\ cache' = Qwen35FailedPass(cache, k)
          /\ Return(FALSE)
          /\ mirror' = mirror
  BY <1>4 DEF Qwen35Prefill
<1> QED BY <1>8, <1>9, <1>10

LEMMA Qwen35StartOK == ASSUME Inv, Qwen35Start PROVE Inv'
<1> USE DEF Inv
<1>1. /\ Is("qwen35") /\ job.at = "prefill" /\ job.committed >= Len(job.req.prompt)
      /\ UNCHANGED <<config, snaps, named, mirror, parked, drafter, commands>>
  BY DEF Qwen35Start, KeepSnaps
<1>2. /\ IsJob(job) /\ IsRequest(job.req) /\ job.n = 0 /\ IsCache(cache)
      /\ Len(job.req.prompt) \in Nat \ {0} /\ job.committed \in Nat /\ job.req.n_gen \in Nat
      /\ "target" \notin parked /\ job.at \in Working
  BY <1>1 DEF JobOK, IsJob, IsRequest, Working, CacheOK
<1>3. job.committed > 0 /\ cache.last_tok \in Tokens BY <1>1, <1>2 DEF LastKnown
<1>4. SnapsOK' /\ ProcessOK'
  BY <1>1, SameSnaps, SameProcess DEF ProcessOK
<1>5. CASE job.req.n_gen = 0 /\ cache' = cache /\ Return(TRUE)
  <2>1. job' = Returned(TRUE, job.refused) /\ stream' = stream /\ job.refused \in BOOLEAN
    BY <1>2, <1>5 DEF Return, IsJob
  <2>2. JobOK' /\ job'.committed = 0 BY <1>2, <2>1, ReturnedOK
  <2>3. ~Streamed BY <1>2, <1>5 DEF Streamed, IsRequest
  <2>4. StreamOK' BY <1>2, <2>1, <2>3, EndsPlain
  <2>5. CacheOK' /\ LastKnown' BY <1>3, <1>5 DEF CacheOK, LastKnown
  <2> QED BY <1>4, <2>2, <2>4, <2>5
<1>6. CASE /\ job.req.n_gen > 0 /\ Qwen35CanSpec
           /\ job' = [job EXCEPT !.at = "draft", !.last = cache.last_tok]
           /\ UNCHANGED <<cache, stream>>
  <2>1. /\ IsJob(job') /\ job'.at = "draft" /\ job'.n = job.n /\ job'.req = job.req
        /\ job'.committed = job.committed /\ job'.snap = job.snap
    BY <1>2, <1>3, <1>6 DEF IsJob
  <2>2. "draft" \notin parked BY <1>6 DEF Qwen35CanSpec
  <2>3. JobOK' BY <1>1, <1>2, <1>6, <2>1, <2>2 DEF JobOK, Working
  <2>4. StreamOK' BY <1>2, <1>6, <2>1, Stays DEF Working
  <2>5. CacheOK' /\ LastKnown' BY <1>3, <1>6 DEF CacheOK, LastKnown
  <2> QED BY <1>4, <2>3, <2>4, <2>5
<1>7. ASSUME NEW a \in Accepts, cache.last_tok = Eos \/ job.req.n_gen = 1, job.req.n_gen > 0,
             stream' = Append(emit(cache.last_tok, a), -1), job' = Returned(TRUE, ~a),
             cache' = IF cache.last_tok = Eos THEN cache
                      ELSE [cache EXCEPT !.cur_pos = job.committed + 1]
      PROVE  Inv'
  <2>1. a \in BOOLEAN /\ (~a) \in BOOLEAN BY AcceptsBool
  <2>2. JobOK' BY <1>2, <1>7, <2>1, ReturnedOK
  <2>3. job.n < job.req.n_gen BY <1>2, <1>7
  <2>4. StreamOK' BY <1>2, <1>3, <1>7, <2>1, <2>3, EndsAfter
  <2>5. CASE cache' = cache
    <3>1. CacheOK' /\ LastKnown' BY <1>3, <2>5 DEF CacheOK, LastKnown
    <3> QED BY <1>4, <2>2, <2>4, <3>1
  <2>6. CASE cache' = [cache EXCEPT !.cur_pos = job.committed + 1]
    <3>1. IsCache(cache') /\ cache'.cur_pos \in Nat /\ cache'.last_tok = cache.last_tok
      BY <1>2, <2>6 DEF IsCache
    <3>2. CacheOK' /\ LastKnown' BY <1>3, <3>1 DEF CacheOK, LastKnown
    <3> QED BY <1>4, <2>2, <2>4, <3>2
  <2> QED BY <1>7, <2>5, <2>6
<1>8. ASSUME NEW a \in Accepts, cache.last_tok # Eos, job.req.n_gen # 1, job.req.n_gen > 0,
             stream' = emit(cache.last_tok, a),
             job' = [job EXCEPT !.at = "ar", !.last = cache.last_tok, !.n = 1,
                                !.committed = @ + 1, !.refused = ~a],
             cache' = [cache EXCEPT !.cur_pos = job.committed + 1]
      PROVE  Inv'
  <2>1. a \in BOOLEAN /\ (~a) \in BOOLEAN BY AcceptsBool
  <2>2. /\ IsJob(job') /\ job'.at = "ar" /\ job'.n = 1 /\ job'.req = job.req
        /\ job'.last = cache.last_tok /\ job'.snap = job.snap
    <3>1. job' = [job EXCEPT !.at = "ar", !.last = cache.last_tok, !.n = 1,
                             !.committed = @ + 1, !.refused = ~a]
      BY <1>8
    <3>2. job.committed + 1 \in Nat BY <1>2
    <3> QED BY <1>2, <1>3, <2>1, <3>1, <3>2 DEF IsJob
  <2>3. IsCache(cache') /\ cache'.cur_pos \in Nat /\ cache'.last_tok = cache.last_tok
    BY <1>2, <1>8 DEF IsCache
  <2>4. 1 < job.req.n_gen BY <1>2, <1>8
  <2>5. JobOK' BY <1>1, <1>2, <1>3, <2>2, <2>4 DEF JobOK, Working
  <2>6. StreamOK' BY <1>2, <1>3, <1>8, <2>1, <2>2, Emits DEF Working
  <2>7. CacheOK' /\ LastKnown' BY <1>3, <2>3 DEF CacheOK, LastKnown
  <2> QED BY <1>4, <2>5, <2>6, <2>7
<1> QED BY <1>5, <1>6, <1>7, <1>8 DEF Qwen35Start

LEMMA Qwen35ArOK == ASSUME Inv, Qwen35Ar PROVE Inv'
<1> USE DEF Inv
<1>1. /\ Is("qwen35") /\ job.at = "ar"
      /\ UNCHANGED <<config, snaps, named, mirror, parked, drafter, commands>>
  BY DEF Qwen35Ar, KeepSnaps
<1>2. /\ IsJob(job) /\ IsRequest(job.req) /\ IsCache(cache) /\ job.at \in Working
      /\ job.n \in Nat /\ job.committed \in Nat /\ job.req.n_gen \in Nat /\ job.n < job.req.n_gen
      /\ job.last \in Tokens /\ job.refused \in BOOLEAN
  BY <1>1 DEF JobOK, IsJob, IsRequest, Working, CacheOK, Is
<1>3. SnapsOK' /\ ProcessOK' BY <1>1, SameSnaps, SameProcess DEF ProcessOK
<1>4. PICK g : g = Qwen35Graph(cache, <<job.last>>, job.committed) OBVIOUS
<1>5. IsCache(g.cache) /\ SameEnds(cache, g.cache) /\ Pick(g.out[1]) \subseteq Tokens
  <2>1. <<job.last>> \in Seq(Tokens) /\ Len(<<job.last>>) = 1 BY <1>2
  <2> QED BY <1>2, <1>4, <2>1, Qwen35One, Zenon
<1>6. ASSUME cache' = [g.cache EXCEPT !.cur_pos = job.committed + 1] PROVE CacheOK'
  <2>1. IsCache(cache') /\ cache'.cur_pos = job.committed + 1 /\ cache'.last_tok = cache.last_tok
    BY <1>5, <1>6 DEF IsCache, SameEnds
  <2> QED BY <1>2, <2>1 DEF CacheOK
<1>7. cache.last_tok \in Tokens BY <1>1 DEF LastKnown
<1>8. ASSUME NEW t \in Pick(g.out[1]), NEW a \in Accepts,
             cache' = [g.cache EXCEPT !.cur_pos = job.committed + 1],
             stream' = Append(emit(t, a), -1), job' = Returned(TRUE, job.refused \/ ~a)
      PROVE  Inv'
  <2>1. a \in BOOLEAN /\ (job.refused \/ ~a) \in BOOLEAN /\ t \in Tokens BY <1>2, <1>5, AcceptsBool
  <2>2. JobOK' BY <1>2, <1>8, <2>1, ReturnedOK
  <2>3. StreamOK' BY <1>2, <1>8, <2>1, EndsAfter
  <2>4. cache'.last_tok = cache.last_tok BY <1>5, <1>8 DEF IsCache, SameEnds
  <2>5. LastKnown' BY <1>7, <2>4 DEF LastKnown
  <2> QED BY <1>3, <1>6, <1>8, <2>2, <2>3, <2>5
<1>9. ASSUME NEW t \in Pick(g.out[1]), NEW a \in Accepts, t # Eos, job.n + 1 # job.req.n_gen,
             cache' = [g.cache EXCEPT !.cur_pos = job.committed + 1],
             stream' = emit(t, a),
             job' = [job EXCEPT !.last = t, !.n = @ + 1, !.committed = @ + 1]
      PROVE  Inv'
  <2>1. a \in BOOLEAN /\ t \in Tokens BY <1>5, AcceptsBool
  <2>2. /\ IsJob(job') /\ job'.at = "ar" /\ job'.n = job.n + 1 /\ job'.req = job.req
        /\ job'.last = t /\ job'.snap = job.snap
    BY <1>1, <1>2, <1>9, <2>1, OneMore
  <2>3. job.n + 1 < job.req.n_gen BY <1>2, <1>9
  <2>4. JobOK' BY <1>1, <1>2, <2>1, <2>2, <2>3 DEF JobOK, Working
  <2>5. StreamOK' BY <1>2, <1>9, <2>1, <2>2, Emits DEF Working
  <2>6. cache'.last_tok = cache.last_tok BY <1>5, <1>9 DEF IsCache, SameEnds
  <2>7. LastKnown' BY <1>7, <2>6 DEF LastKnown
  <2> QED BY <1>3, <1>6, <1>9, <2>4, <2>5, <2>7
<1>10. CASE cache' = Qwen35FailedPass(cache, job.committed) /\ ReturnMarked(FALSE)
  <2>1. IsCache(cache') /\ SameEnds(cache, cache') BY <1>2, <1>10, FailedType
  <2>2. CacheOK' /\ LastKnown' BY <1>7, <2>1 DEF CacheOK, SameEnds, LastKnown
  <2>3. job' = Returned(FALSE, job.refused) /\ stream' = Append(stream, -1) BY <1>10 DEF ReturnMarked
  <2>4. JobOK' BY <1>2, <2>3, ReturnedOK
  <2>5. StreamOK' BY <1>2, <2>3, EndsMarked
  <2> QED BY <1>3, <2>2, <2>4, <2>5
<1> QED
  <2>1. CASE MayFail("step") /\ cache' = Qwen35FailedPass(cache, job.committed) /\ ReturnMarked(FALSE)
    BY <1>10, <2>1
  <2>2. CASE \E t \in Pick(g.out[1]), a \in Accepts :
                /\ cache' = [g.cache EXCEPT !.cur_pos = job.committed + 1]
                /\ IF job.refused \/ ~a \/ t = Eos \/ job.n + 1 = job.req.n_gen
                   THEN /\ stream' = Append(emit(t, a), -1)
                        /\ job' = Returned(TRUE, job.refused \/ ~a)
                   ELSE /\ stream' = emit(t, a)
                        /\ job' = [job EXCEPT !.last = t, !.n = @ + 1, !.committed = @ + 1]
    <3>1. PICK t \in Pick(g.out[1]), a \in Accepts :
                /\ cache' = [g.cache EXCEPT !.cur_pos = job.committed + 1]
                /\ IF job.refused \/ ~a \/ t = Eos \/ job.n + 1 = job.req.n_gen
                   THEN /\ stream' = Append(emit(t, a), -1)
                        /\ job' = Returned(TRUE, job.refused \/ ~a)
                   ELSE /\ stream' = emit(t, a)
                        /\ job' = [job EXCEPT !.last = t, !.n = @ + 1, !.committed = @ + 1]
      BY <2>2
    <3>2. CASE job.refused \/ ~a \/ t = Eos \/ job.n + 1 = job.req.n_gen
      BY <1>8, <3>1, <3>2
    <3>3. CASE ~(job.refused \/ ~a \/ t = Eos \/ job.n + 1 = job.req.n_gen)
      BY <1>9, <3>1, <3>3
    <3> QED BY <3>2, <3>3
  <2> QED BY <1>4, <2>1, <2>2 DEF Qwen35Ar

LEMMA Qwen35DraftOK == ASSUME Inv, Qwen35Draft PROVE Inv'
<1> USE DEF Inv
<1>1. /\ Is("qwen35") /\ job.at = "draft"
      /\ UNCHANGED <<config, snaps, named, mirror, parked, drafter, commands>>
  BY DEF Qwen35Draft, KeepSnaps
<1>2. /\ IsJob(job) /\ IsRequest(job.req) /\ IsCache(cache) /\ job.at \in Working
      /\ job.committed \in Nat /\ job.refused \in BOOLEAN
      /\ cache.last_tok \in Tokens
  BY <1>1 DEF JobOK, IsJob, Working, CacheOK, LastKnown
<1>3. SnapsOK' /\ ProcessOK' BY <1>1, SameSnaps, SameProcess DEF ProcessOK
<1>4. ASSUME NEW d \in Drafts, NEW t \in Picks(Qwen35Graph(cache, d, job.committed).out),
             cache' = [Qwen35Graph(cache, d, job.committed).cache
                         EXCEPT !.cur_pos = job.committed + QLen],
             job' = [job EXCEPT !.at = "commit", !.draft = d, !.target = t, !.saved = cache.ssm],
             stream' = stream
      PROVE  Inv'
  <2>1. d \in Seq(Tokens) /\ Len(d) = QLen BY BlockFacts DEF Drafts
  <2>2. QLen \in Nat \ {0} BY BlockSize
  <2>3. PICK g : g = Qwen35Graph(cache, d, job.committed) OBVIOUS
  <2>4. IsCache(g.cache) /\ IsOut(g.out, Len(d)) BY <1>2, <2>1, <2>3, Qwen35Pass
  <2>5. t \in [1..QLen -> Tokens] BY <1>4, <2>1, <2>2, <2>3, <2>4, OutPicks
  <2>6. SameEnds(cache, g.cache) BY <1>2, <2>3, GraphEnds
  <2>7. cache' = [g.cache EXCEPT !.cur_pos = job.committed + QLen] BY <1>4, <2>3
  <2>8. IsCache(cache') /\ cache'.cur_pos = job.committed + QLen /\ cache'.last_tok = cache.last_tok
    BY <2>4, <2>6, <2>7 DEF IsCache, SameEnds
  <2>9. CacheOK' BY <1>2, <2>2, <2>8 DEF CacheOK
  <2>10. LastKnown' BY <1>2, <2>8 DEF LastKnown
  <2>11. /\ IsJob(job') /\ job'.at = "commit" /\ job'.n = job.n /\ job'.req = job.req
         /\ job'.snap = job.snap /\ job'.draft = d /\ job'.target = t
    BY <1>2, <1>4 DEF IsJob
  <2>12. JobOK' BY <1>1, <1>2, <2>1, <2>5, <2>11 DEF JobOK, Working
  <2>13. StreamOK' BY <1>2, <1>4, <2>11, Stays DEF Working
  <2> QED BY <1>3, <2>9, <2>10, <2>12, <2>13
<1>5. ASSUME cache' = cache \/ cache' = FailedPass(cache, job.committed), Return(FALSE) PROVE Inv'
  <2>1. IsCache(cache') /\ SameEnds(cache, cache')
    <3>1. CASE cache' = cache BY <1>2, <3>1 DEF SameEnds
    <3>2. CASE cache' = FailedPass(cache, job.committed) BY <1>2, <3>2, FailedType
    <3> QED BY <1>5, <3>1, <3>2
  <2>2. CacheOK' /\ LastKnown' BY <1>2, <2>1 DEF CacheOK, SameEnds, LastKnown
  <2>3. job' = Returned(FALSE, job.refused) /\ stream' = stream BY <1>5 DEF Return
  <2>4. JobOK' BY <1>2, <2>3, ReturnedOK
  <2>5. StreamOK' BY <1>2, <2>3, EndsPlain
  <2> QED BY <1>3, <2>2, <2>4, <2>5
<1> QED BY <1>4, <1>5 DEF Qwen35Draft

\* A verified block that is kept, as the loops of both backends emit it.
LEMMA KeptFacts ==
  ASSUME Inv, job.at = "commit"
  PROVE  LET a == AcceptN(job.draft, job.target)
             n == CommitN(a, job.req.n_gen - job.n)
             w == CommitTokens(job.draft, job.target, a, n)
         IN  /\ a \in 1..QLen /\ n \in 1..QLen /\ n <= job.req.n_gen - job.n /\ n <= a + 1
             /\ w \in Seq(Tokens) /\ Len(w) = n /\ w # <<>>
<1> DEFINE a == AcceptN(job.draft, job.target)
           b == job.req.n_gen - job.n
           n == CommitN(a, b)
<1>1. /\ job.draft \in Seq(Tokens) /\ Len(job.draft) = QLen /\ job.target \in [1..QLen -> Tokens]
      /\ b \in Nat \ {0}
  BY DEF Inv, JobOK, IsJob, IsRequest, Working
<1>2. a \in 1..QLen BY AcceptFacts
<1> HIDE DEF a, b
<1>3. n \in 1..QLen /\ n <= b /\ n <= a + 1 BY <1>1, <1>2, CommitFacts
<1> HIDE DEF n
<1> DEFINE w == CommitTokens(job.draft, job.target, a, n)
<1>4. w \in Seq(Tokens) /\ Len(w) = n /\ w # <<>> BY <1>1, <1>2, <1>3, CommitTokensFacts
<1> QED BY <1>2, <1>3, <1>4 DEF a, b, n

LEMMA NextTurn ==
  ASSUME IsJob(job), NEW t \in Tokens, NEW k, job.n + k \in Nat, job.committed + k \in Nat,
         job' = [job EXCEPT !.at = "draft", !.last = t, !.n = @ + k, !.committed = @ + k,
                            !.draft = <<>>, !.target = <<>>, !.saved = <<>>]
  PROVE  /\ IsJob(job') /\ job'.at = "draft" /\ job'.n = job.n + k /\ job'.req = job.req
         /\ job'.snap = job.snap /\ job'.last = t /\ job'.committed = job.committed + k
         /\ job'.exact = job.exact
BY DEF IsJob

\* The end of a speculative turn: the batch is emitted and the loop goes on or ends.
Stops(e) == e.refused \/ Last(e.written) = Eos \/ job.n + e.offered >= job.req.n_gen

LEMMA TurnEnds ==
  ASSUME Inv, job.at = "commit", NEW w \in Seq(Tokens), w # <<>>,
         Len(w) <= job.req.n_gen - job.n, NEW e \in EmitBatch(w), NEW t \in Tokens,
         EndTurn(e, t), UNCHANGED <<config, parked>>
  PROVE  JobOK' /\ StreamOK'
<1> DEFINE v == stream \o e.written
<1>1. /\ IsJob(job) /\ IsRequest(job.req) /\ job.at \in Working /\ job.n \in Nat
      /\ job.req.n_gen \in Nat /\ job.committed \in Nat /\ Going(stream, job.n)
  BY DEF Inv, JobOK, IsJob, IsRequest, Working, StreamOK
<1>2. e.offered \in 1..Len(w) /\ e.refused \in BOOLEAN BY EmitBatchFacts
<1>3. job.n + e.offered \in Nat /\ job.n + e.offered <= job.req.n_gen BY <1>1, <1>2
<1>4. /\ InBudget(v, job.n + e.offered)
      /\ ~e.refused /\ Last(e.written) # Eos => Going(v, job.n + e.offered)
  BY <1>1, GoingBatch
<1>5. v \in Seq(Tokens) BY <1>4 DEF InBudget
<1>6. CASE Stops(e)
  <2>1. job' = Returned(TRUE, e.refused) BY <1>6 DEF EndTurn, Stops
  <2>2. stream' = v \o <<-1>> BY <1>6 DEF EndTurn, Stops
  <2>3. stream' = Append(v, -1)
    <3> HIDE DEF v
    <3>1. v \in Seq(Tokens \cup {-1}) BY <1>5, SeqMonotonic
    <3>2. v \o <<-1>> = Append(v, -1) BY <3>1
    <3> QED BY <2>2, <3>2
  <2> HIDE DEF v
  <2>4. InBudget(v, job.req.n_gen) BY <1>1, <1>3, <1>4, BudgetMore
  <2>5. 1 \in 0..1 /\ stream' = WithEnds(v, 1)
    <3>1. WithEnds(v, 1) = Append(v, -1) BY MarkedFacts
    <3> QED BY <2>3, <3>1
  <2>6. StreamOK' BY <1>1, <1>2, <2>1, <2>4, <2>5, Ends DEF Inv
  <2>7. JobOK' BY <1>1, <1>2, <2>1, ReturnedOK DEF Inv
  <2> QED BY <2>6, <2>7
<1>7. CASE ~Stops(e)
  <2>1. job' = [job EXCEPT !.at = "draft", !.last = t, !.n = @ + e.offered,
                           !.committed = @ + e.offered, !.draft = <<>>,
                           !.target = <<>>, !.saved = <<>>]
    BY <1>7 DEF EndTurn, Stops
  <2>2. stream' = v \o <<>> BY <1>7 DEF EndTurn, Stops
  <2>3. stream' = v
    <3> HIDE DEF v
    <3>1. v \o <<>> = v BY <1>5, ConcatEmptySeq
    <3> QED BY <2>2, <3>1
  <2>4. ~e.refused /\ Last(e.written) # Eos /\ job.n + e.offered < job.req.n_gen
    BY <1>1, <1>3, <1>7 DEF Stops
  <2> HIDE DEF v
  <2>5. job.n + e.offered \in Nat /\ job.committed + e.offered \in Nat BY <1>1, <1>2
  <2>6. /\ IsJob(job') /\ job'.at = "draft" /\ job'.n = job.n + e.offered /\ job'.req = job.req
        /\ job'.snap = job.snap
    BY <1>1, <2>1, <2>5, NextTurn
  <2>7. JobOK' BY <1>1, <1>3, <2>4, <2>6 DEF Inv, JobOK, Working
  <2>8. StreamOK' BY <1>4, <2>3, <2>4, <2>6 DEF StreamOK, Working
  <2> QED BY <2>7, <2>8
<1> QED BY <1>6, <1>7

LEMMA Qwen35CommitOK == ASSUME Inv, Qwen35Commit PROVE Inv'
<1> USE DEF Inv
<1> DEFINE accept_n == AcceptN(job.draft, job.target)
           commit_n == CommitN(accept_n, job.req.n_gen - job.n)
<1>1. /\ Is("qwen35") /\ job.at = "commit"
      /\ UNCHANGED <<config, snaps, named, parked, drafter, commands>>
  BY DEF Qwen35Commit, KeepSnaps
<1>2. /\ IsJob(job) /\ IsRequest(job.req) /\ IsCache(cache) /\ job.at \in Working
      /\ job.committed \in Nat /\ job.refused \in BOOLEAN
      /\ cache.last_tok \in Tokens
  BY <1>1 DEF JobOK, IsJob, Working, CacheOK, LastKnown
<1>3. PICK replay : replay = CommitTokens(job.draft, job.target, accept_n, commit_n) OBVIOUS
<1>4. replay \in Seq(Tokens) /\ replay # <<>> /\ Len(replay) <= job.req.n_gen - job.n
      /\ Len(replay) \in Nat \ {0}
  BY <1>1, <1>3, KeptFacts
<1>5. SnapsOK' BY <1>1, SameSnaps
<1>6. PICK g : g = Qwen35Graph(RolledBack(cache), replay, job.committed) OBVIOUS
<1>7. IsCache(g.cache) /\ IsOut(g.out, Len(replay)) /\ g.cache.last_tok = cache.last_tok
  <2>1. IsCache(RolledBack(cache)) /\ RolledBack(cache).last_tok = cache.last_tok
    BY <1>2 DEF RolledBack, IsCache
  <2> QED BY <1>2, <1>4, <1>6, <2>1, Qwen35Pass DEF SameEnds
<1>8. ASSUME NEW t \in Pick(Last(g.out)), NEW e \in EmitBatch(replay),
             cache' = [g.cache EXCEPT !.cur_pos = job.committed + e.offered],
             mirror' = sync_range(mirror, g.cache, job.committed, commit_n),
             EndTurn(e, t)
      PROVE  Inv'
  <2>1. t \in Tokens BY <1>4, <1>7, OutPicks
  <2>2. JobOK' /\ StreamOK' BY <1>1, <1>4, <1>8, <2>1, TurnEnds
  <2>3. e.offered \in Nat
    <3>1. e.offered \in 1..Len(replay) BY <1>4, EmitBatchFacts
    <3> QED BY <1>4, <3>1
  <2>4. IsCache(cache') /\ cache'.cur_pos = job.committed + e.offered /\ cache'.last_tok = cache.last_tok
    BY <1>7, <1>8 DEF IsCache
  <2>5. CacheOK' /\ LastKnown' BY <1>2, <2>3, <2>4 DEF CacheOK, LastKnown
  <2>6. ProcessOK' BY <1>1, <1>8, SameProcess, MirrorSize DEF ProcessOK
  <2> QED BY <1>5, <2>2, <2>5, <2>6
<1>9. CASE /\ cache' = Qwen35FailedPass(cache, job.committed)
           /\ mirror' = mirror
           /\ Return(FALSE)
  <2>1. IsCache(cache') /\ SameEnds(cache, cache') BY <1>2, <1>9, FailedType
  <2>2. CacheOK' /\ LastKnown' BY <1>2, <2>1 DEF CacheOK, SameEnds, LastKnown
  <2>3. job' = Returned(FALSE, job.refused) /\ stream' = stream BY <1>9 DEF Return
  <2>4. JobOK' BY <1>2, <2>3, ReturnedOK
  <2>5. StreamOK' BY <1>2, <2>3, EndsPlain
  <2>6. ProcessOK' BY <1>1, <1>9, SameProcess DEF ProcessOK
  <2> QED BY <1>5, <2>2, <2>4, <2>5, <2>6
<1> QED
  <2>1. \/ \E t \in Pick(Last(g.out)), e \in EmitBatch(replay) :
             /\ cache' = [g.cache EXCEPT !.cur_pos = job.committed + e.offered]
             /\ mirror' = sync_range(mirror, g.cache, job.committed, commit_n)
             /\ EndTurn(e, t)
        \/ /\ cache' = Qwen35FailedPass(cache, job.committed)
           /\ mirror' = mirror
           /\ Return(FALSE)
    BY <1>3, <1>6 DEF Qwen35Commit
  <2> QED BY <1>8, <1>9, <2>1

-----------------------------------------------------------------------------
(* gemma4 *)

LEMMA Gemma4SaveSound ==
  ASSUME CacheOK, Is("gemma4"), NEW pos \in Nat, pos <= MaxCtx,
         NEW old, Sound(old), NEW s \in Gemma4SaveAt(pos, old)
  PROVE  Sound(s) /\ (s = old \/ (s.used => s.cur_pos = pos /\ pos > 0))
<1>1. CASE "target" \in parked \/ pos <= 0 BY <1>1 DEF Gemma4SaveAt
<1>2. CASE ~("target" \in parked \/ pos <= 0)
  <2> DEFINE c == [cache EXCEPT !.cur_pos = pos]
             new == Gemma4Save(c)
  <2>1. IsCache(c) /\ c.cur_pos = pos /\ c.last_tok \in Tokens \cup {-1} BY DEF CacheOK, IsCache
  <2>2. IsSnap(new) /\ new.cur_pos = pos
    <3> HIDE DEF c
    <3> QED BY <2>1, SaveType
  <2>3. s \in WithAlloc(new, ~old.used \/ old.cur_pos # pos) BY <1>2 DEF Gemma4SaveAt
  <2> HIDE DEF new
  <2>4. Sound(new) BY <2>2 DEF Sound, Is
  <2> QED BY <1>2, <2>2, <2>3, <2>4, WithAllocSound
<1> QED BY <1>1, <1>2

LEMMA Gemma4ChunkFacts ==
  ASSUME Inv, Is("gemma4"), job.at = "prefill", job.committed < Len(job.req.prompt)
  PROVE  /\ Gemma4ChunkLen(job.committed) \in Nat \ {0}
         /\ job.committed + Gemma4ChunkLen(job.committed) <= Len(job.req.prompt)
<1> DEFINE k == job.committed
           l == Len(job.req.prompt)
           T == {Chunk, l - k} \cup IF Window < MaxCtx THEN {Window - (k % Window)} ELSE {}
<1>1. k \in Nat /\ l \in Nat /\ k < l /\ Chunk \in Nat \ {0} /\ Window \in Nat \ {0}
  BY ChunkSize, SizesAreNat DEF Inv, JobOK, IsJob, IsRequest, Working
<1>2. Gemma4ChunkLen(k) = Min(T) BY DEF Gemma4ChunkLen
<1> HIDE DEF k, l
<1>3. k % Window \in 0..(Window - 1) BY <1>1
<1>4. T \in SUBSET (Nat \ {0}) /\ l - k \in T
  <2>1. Window - (k % Window) \in Nat \ {0} BY <1>1, <1>3
  <2>2. l - k \in Nat \ {0} BY <1>1
  <2> QED BY <1>1, <2>1, <2>2
<1>5. Min(T) \in T /\ Min(T) <= l - k
  <2> HIDE DEF T
  <2>1. \E x \in T : \A y \in T : x <= y BY <1>4, LeastNat
  <2> QED BY <1>4, <2>1 DEF Min
<1> HIDE DEF T
<1> DEFINE m == Min(T)
<1>6. m \in Nat \ {0} /\ m <= l - k BY <1>4, <1>5
<1> HIDE DEF m
<1>7. m \in Nat \ {0} /\ k + m <= l BY <1>1, <1>6
<1> QED BY <1>2, <1>7 DEF k, l, m

LEMMA Gemma4PrefillOK == ASSUME Inv, Gemma4Prefill PROVE Inv'
<1> USE DEF Inv
<1> DEFINE k == job.committed
           n == Gemma4ChunkLen(k)
           p == SubSeq(job.req.prompt, k + 1, k + n)
           final == k + n = Len(job.req.prompt)
<1>1. /\ Is("gemma4") /\ job.at = "prefill" /\ k < Len(job.req.prompt)
      /\ UNCHANGED <<config, snaps, named, parked, drafter, commands>>
  BY DEF Gemma4Prefill, KeepSnaps
<1>2. n \in Nat \ {0} /\ k + n <= Len(job.req.prompt) BY <1>1, Gemma4ChunkFacts
<1>3. /\ k \in Nat /\ job.req.prompt \in Seq(Tokens) /\ job.n = 0
      /\ IsJob(job) /\ IsCache(cache) /\ cache.last_tok \in Tokens \cup {-1}
      /\ job.at \in Working /\ job.refused \in BOOLEAN
  BY <1>1 DEF JobOK, IsJob, IsRequest, Working, CacheOK
<1>4. PICK g : g = gemma4_step(cache, p, k) OBVIOUS
<1>5. IsCache(g.cache) /\ IsOut(g.out, n) /\ g.cache.cur_pos = k + n
  <2> HIDE DEF n, k
  <2>1. p \in Seq(Tokens) /\ Len(p) = n BY <1>2, <1>3, ChunkFacts
  <2> HIDE DEF p
  <2>2. IsCache(g.cache) /\ IsOut(g.out, Len(p)) /\ g.cache.cur_pos = k + Len(p)
    BY <1>3, <1>4, <2>1, Gemma4Pass
  <2> QED BY <2>1, <2>2
<1>6. Pick(Last(g.out)) \subseteq Tokens
  <2> HIDE DEF n
  <2> QED BY <1>2, <1>5, OutPicks
<1>7. SnapsOK' BY <1>1, SameSnaps
<1>8. LastKnown' BY <1>1 DEF LastKnown, Is
<1>9. CASE /\ \E t \in IF final THEN Pick(Last(g.out)) ELSE {cache.last_tok} :
                cache' = [g.cache EXCEPT !.last_tok = t]
           /\ mirror' = IF config.draft /\ HasFeat THEN sync_range(mirror, g.cache, k, n) ELSE mirror
           /\ job' = [job EXCEPT !.committed = k + n]
           /\ stream' = stream
  <2> HIDE DEF n, k, p, final
  <2>1. PICK t \in Tokens \cup {-1} : cache' = [g.cache EXCEPT !.last_tok = t]
    <3>1. CASE final BY <1>6, <1>9, <3>1
    <3>2. CASE ~final BY <1>3, <1>9, <3>2
    <3> QED BY <3>1, <3>2
  <2>2. IsCache(cache') /\ cache'.cur_pos = k + n /\ cache'.last_tok = t
    BY <1>5, <2>1 DEF IsCache
  <2>3. CacheOK' BY <1>2, <1>3, <2>2 DEF CacheOK, k
  <2>4. ProcessOK' BY <1>1, <1>9, SameProcess, MirrorSize DEF ProcessOK
  <2>5. /\ IsJob(job') /\ job'.at = job.at /\ job'.n = job.n /\ job'.req = job.req
        /\ job'.committed = k + n /\ job'.snap = job.snap /\ job'.last = job.last
    BY <1>2, <1>3, <1>9 DEF IsJob, k
  <2>6. JobOK' BY <1>1, <1>2, <1>3, <2>2, <2>5 DEF JobOK, Working, Is, k
  <2>7. StreamOK' BY <1>3, <1>9, <2>5, Stays
  <2> QED BY <1>7, <1>8, <2>3, <2>4, <2>6, <2>7
<1>10. CASE cache' = FailedPass(cache, k) /\ mirror' = mirror /\ Return(FALSE)
  <2> HIDE DEF n, p
  <2>1. IsCache(cache') /\ SameEnds(cache, cache') BY <1>3, <1>10, FailedType
  <2>2. CacheOK' BY <2>1 DEF CacheOK, SameEnds
  <2>3. ProcessOK' BY <1>1, <1>10, SameProcess DEF ProcessOK
  <2>4. job' = Returned(FALSE, job.refused) /\ stream' = stream BY <1>10 DEF Return
  <2>5. JobOK' BY <1>3, <2>4, ReturnedOK
  <2>6. StreamOK' BY <1>3, <2>4, EndsPlain
  <2> QED BY <1>7, <1>8, <2>2, <2>3, <2>5, <2>6
<1> QED
  <2>1. \/ /\ \E t \in IF final THEN Pick(Last(g.out)) ELSE {cache.last_tok} :
                cache' = [g.cache EXCEPT !.last_tok = t]
           /\ mirror' = IF config.draft /\ HasFeat THEN sync_range(mirror, g.cache, k, n) ELSE mirror
           /\ job' = [job EXCEPT !.committed = k + n]
           /\ stream' = stream
        \/ cache' = FailedPass(cache, k) /\ mirror' = mirror /\ Return(FALSE)
    BY <1>4 DEF Gemma4Prefill
  <2> QED BY <1>9, <1>10, <2>1

LEMMA Gemma4InlineSnapOK ==
  ASSUME Inv, Is("gemma4"), job.at = "prefill", Gemma4InlineSnap, UNCHANGED config
  PROVE  SnapsOK'
<1> USE DEF Inv
<1>1. CASE ~(job.snap /\ job.req.snap_pos <= job.committed)
  BY <1>1, SameSnaps DEF Gemma4InlineSnap, KeepSnaps
<1>2. CASE job.snap /\ job.req.snap_pos <= job.committed
  <2> DEFINE slot == job.req.snap_slot
  <2>1. slot \in Slots /\ job.req.snap_pos \in Nat \ {0} /\ job.committed <= Len(job.req.prompt)
        /\ Len(job.req.prompt) + job.req.n_gen <= MaxCtx /\ job.req.n_gen \in Nat
        /\ Len(job.req.prompt) \in Nat /\ job.committed \in Nat
    BY <1>2, SlotsAssumption DEF JobOK, IsJob, Working, IsRequest, Is
  <2>2. job.req.snap_pos <= MaxCtx BY SMTT(30), <1>2, <2>1, SizesAreNat
  <2>3. PICK s \in Gemma4SaveAt(job.req.snap_pos, snaps[slot]) : PutSnap(slot, s)
    BY <1>2 DEF Gemma4InlineSnap
  <2>4. Sound(s)
    <3>1. Sound(snaps[slot]) BY <2>1 DEF SnapsOK
    <3> QED BY <2>1, <2>2, <2>3, <3>1, Gemma4SaveSound
  <2> HIDE DEF slot
  <2> QED BY <2>1, <2>3, <2>4, PutSnapOK
<1> QED BY <1>1, <1>2

LEMMA Gemma4StartOK == ASSUME Inv, Gemma4Start PROVE Inv'
<1> USE DEF Inv
<1>1. /\ Is("gemma4") /\ job.at = "prefill" /\ job.committed >= Len(job.req.prompt)
      /\ Gemma4InlineSnap /\ mirror' = Gemma4Resync(job.req.slot # NoSlot)
      /\ UNCHANGED <<config, parked, drafter, commands>>
  BY DEF Gemma4Start
<1>2. /\ IsJob(job) /\ IsRequest(job.req) /\ job.n = 0 /\ IsCache(cache)
      /\ Len(job.req.prompt) \in Nat \ {0} /\ job.committed \in Nat /\ job.req.n_gen \in Nat
      /\ "target" \notin parked /\ job.at \in Working /\ job.refused \in BOOLEAN
      /\ cache.last_tok \in Tokens \cup {-1}
      /\ job.req.prompt \in Seq(Tokens) /\ job.req.prompt # <<>>
  BY <1>1 DEF JobOK, IsJob, IsRequest, Working, CacheOK
<1>3. SnapsOK' BY <1>1, Gemma4InlineSnapOK
<1>4. ProcessOK'
  <2>1. Len(mirror') = RingCap BY <1>1, MirrorSize DEF ProcessOK, Gemma4Resync
  <2> QED BY <1>1, <2>1, SameProcess
<1>5. LastKnown' BY <1>1 DEF LastKnown, Is
<1>6. "draft" \notin parked BY <1>1 DEF ProcessOK, Is
<1>7. ASSUME cache' = [cache EXCEPT !.cur_pos = job.committed] PROVE CacheOK'
  <2>1. IsCache(cache') /\ cache'.cur_pos = job.committed /\ cache'.last_tok = cache.last_tok
    BY <1>2, <1>7 DEF IsCache
  <2> QED BY <1>2, <2>1 DEF CacheOK
<1>8. CASE cache' = [cache EXCEPT !.cur_pos = job.committed] /\ ReturnMarked(TRUE)
  <2>1. job' = Returned(TRUE, job.refused) /\ stream' = Append(stream, -1) BY <1>8 DEF ReturnMarked
  <2>2. JobOK' BY <1>2, <2>1, ReturnedOK
  <2>3. StreamOK' BY <1>2, <2>1, EndsMarked
  <2> QED BY <1>3, <1>4, <1>5, <1>7, <1>8, <2>2, <2>3
<1>9. CASE /\ job.req.n_gen > 0 /\ cache' = [cache EXCEPT !.cur_pos = job.committed]
           /\ job' = [job EXCEPT !.at = "draft", !.last = cache.last_tok]
           /\ stream' = stream
  <2>1. /\ IsJob(job') /\ job'.at = "draft" /\ job'.n = job.n /\ job'.req = job.req
        /\ job'.committed = job.committed /\ job'.snap = job.snap
    <3>1. job' = [job EXCEPT !.at = "draft", !.last = cache.last_tok] BY <1>9
    <3> QED BY <1>2, <3>1 DEF IsJob
  <2>2. JobOK' BY <1>1, <1>2, <1>6, <1>9, <2>1 DEF JobOK, Working
  <2>3. StreamOK' BY <1>2, <1>9, <2>1, Stays DEF Working
  <2> QED BY <1>3, <1>4, <1>5, <1>7, <1>9, <2>2, <2>3
<1>10. PICK g : g = gemma4_step(cache, <<Last(job.req.prompt)>>, job.committed - 1) OBVIOUS
<1>11. IsCache(g.cache) /\ g.cache.cur_pos = job.committed /\ g.cache.last_tok = cache.last_tok
       /\ Pick(g.out[1]) \subseteq Tokens
  <2> DEFINE p == <<Last(job.req.prompt)>>
             b == job.committed - 1
  <2>1. p \in Seq(Tokens) /\ Len(p) = 1 BY <1>2, LastOfPrompt
  <2>2. b \in Nat BY <1>1, <1>2
  <2>3. g = gemma4_step(cache, p, b) BY <1>10
  <2>4. b + 1 = job.committed BY <1>2
  <2> HIDE DEF p, b
  <2>5. IsCache(g.cache) /\ g.cache.cur_pos = b + Len(p) /\ g.cache.last_tok = cache.last_tok
        /\ IsOut(g.out, Len(p))
    <3>1. IsCache(cache) BY <1>2
    <3> QED BY ONLY <3>1, <2>1, <2>2, <2>3, Gemma4Pass
  <2>6. 1 \in Nat \ {0} /\ IsOut(g.out, 1) BY <2>1, <2>5
  <2> QED BY <2>1, <2>4, <2>5, <2>6, OutPicks
<1>12. ASSUME cache' = g.cache PROVE CacheOK'
  BY <1>2, <1>11, <1>12 DEF CacheOK
<1>13. ASSUME NEW t \in Pick(g.out[1]), NEW a \in Accepts, job.req.n_gen > 0, cache' = g.cache,
              stream' = Append(emit(t, a), -1), job' = Returned(TRUE, ~a)
       PROVE  Inv'
  <2>1. a \in BOOLEAN /\ (~a) \in BOOLEAN /\ t \in Tokens BY <1>11, AcceptsBool
  <2>2. JobOK' BY <1>2, <1>13, <2>1, ReturnedOK
  <2>3. job.n < job.req.n_gen BY <1>2, <1>13
  <2>4. StreamOK' BY <1>2, <1>13, <2>1, <2>3, EndsAfter
  <2> QED BY <1>3, <1>4, <1>5, <1>12, <1>13, <2>2, <2>4
<1>14. ASSUME NEW t \in Pick(g.out[1]), NEW a \in Accepts, job.req.n_gen > 0, job.req.n_gen # 1,
              t # Eos, cache' = g.cache, stream' = emit(t, a),
              job' = [job EXCEPT !.at = "ar", !.last = t, !.n = 1]
       PROVE  Inv'
  <2>1. a \in BOOLEAN /\ t \in Tokens BY <1>11, AcceptsBool
  <2>2. /\ IsJob(job') /\ job'.at = "ar" /\ job'.n = 1 /\ job'.req = job.req
        /\ job'.last = t /\ job'.snap = job.snap
    <3>1. job' = [job EXCEPT !.at = "ar", !.last = t, !.n = 1] BY <1>14
    <3> QED BY <1>2, <2>1, <3>1 DEF IsJob
  <2>3. 1 < job.req.n_gen BY <1>2, <1>14
  <2>4. JobOK' BY <1>1, <1>2, <2>1, <2>2, <2>3 DEF JobOK, Working
  <2>5. StreamOK' BY <1>2, <1>14, <2>1, <2>2, Emits DEF Working
  <2> QED BY <1>3, <1>4, <1>5, <1>12, <1>14, <2>4, <2>5
<1>15. CASE cache' = FailedPass(cache, job.committed - 1) /\ Return(FALSE)
  <2>1. job.committed - 1 \in Nat BY <1>1, <1>2
  <2>2. IsCache(cache') /\ SameEnds(cache, cache') BY <1>2, <1>15, <2>1, FailedType
  <2>3. CacheOK' BY <2>2 DEF CacheOK, SameEnds
  <2>4. job' = Returned(FALSE, job.refused) /\ stream' = stream BY <1>15 DEF Return
  <2>5. JobOK' BY <1>2, <2>4, ReturnedOK
  <2>6. StreamOK' BY <1>2, <2>4, EndsPlain
  <2> QED BY <1>3, <1>4, <1>5, <2>3, <2>5, <2>6
<1> QED
  <2>1. CASE job.req.n_gen > 0 /\ cache' = g.cache /\ \E t \in Pick(g.out[1]), a \in Accepts :
                    IF ~a \/ t = Eos \/ job.req.n_gen = 1
                    THEN /\ stream' = Append(emit(t, a), -1)
                         /\ job' = Returned(TRUE, ~a)
                    ELSE /\ stream' = emit(t, a)
                         /\ job' = [job EXCEPT !.at = "ar", !.last = t, !.n = 1]
    <3>1. PICK t \in Pick(g.out[1]), a \in Accepts :
                    IF ~a \/ t = Eos \/ job.req.n_gen = 1
                    THEN /\ stream' = Append(emit(t, a), -1)
                         /\ job' = Returned(TRUE, ~a)
                    ELSE /\ stream' = emit(t, a)
                         /\ job' = [job EXCEPT !.at = "ar", !.last = t, !.n = 1]
      BY <2>1
    <3>2. CASE ~a \/ t = Eos \/ job.req.n_gen = 1 BY <1>13, <2>1, <3>1, <3>2
    <3>3. CASE ~(~a \/ t = Eos \/ job.req.n_gen = 1) BY <1>14, <2>1, <3>1, <3>3
    <3> QED BY <3>2, <3>3
  <2> QED BY <1>8, <1>9, <1>10, <1>15, <2>1 DEF Gemma4Start

LEMMA Gemma4ArOK == ASSUME Inv, Gemma4Ar PROVE Inv'
<1> USE DEF Inv
<1>1. /\ Is("gemma4") /\ job.at = "ar"
      /\ UNCHANGED <<config, snaps, named, mirror, parked, drafter, commands>>
  BY DEF Gemma4Ar, KeepSnaps
<1>2. /\ IsJob(job) /\ IsRequest(job.req) /\ IsCache(cache) /\ job.at \in Working
      /\ job.n \in Nat /\ job.committed \in Nat /\ job.req.n_gen \in Nat /\ job.n < job.req.n_gen
      /\ job.last \in Tokens /\ job.refused \in BOOLEAN /\ cache.last_tok \in Tokens \cup {-1}
      /\ cache.cur_pos \in Nat
  BY <1>1 DEF JobOK, IsJob, IsRequest, Working, CacheOK, Is
<1>3. SnapsOK' /\ ProcessOK' BY <1>1, SameSnaps, SameProcess DEF ProcessOK
<1>4. LastKnown' BY <1>1 DEF LastKnown, Is
<1>5. PICK g : g = gemma4_step(cache, <<job.last>>, job.committed) OBVIOUS
<1>6. IsCache(g.cache) /\ g.cache.cur_pos \in Nat /\ g.cache.last_tok = cache.last_tok
      /\ Pick(g.out[1]) \subseteq Tokens
  <2> DEFINE p == <<job.last>>
  <2>1. p \in Seq(Tokens) /\ Len(p) = 1 BY <1>2
  <2> HIDE DEF p
  <2>2. g = gemma4_step(cache, p, job.committed) BY <1>5 DEF p
  <2>3. IsCache(g.cache) /\ g.cache.cur_pos = job.committed + Len(p)
        /\ g.cache.last_tok = cache.last_tok /\ IsOut(g.out, Len(p))
    BY <1>2, <2>1, <2>2, Gemma4Pass
  <2>4. 1 \in Nat \ {0} /\ IsOut(g.out, 1) BY <2>1, <2>3
  <2>5. Pick(g.out[1]) \subseteq Tokens BY <2>4, OutPicks
  <2> QED BY <1>2, <2>1, <2>3, <2>5
<1>7. ASSUME cache' = g.cache PROVE CacheOK' BY <1>2, <1>6, <1>7 DEF CacheOK
<1>8. ASSUME NEW t \in Pick(g.out[1]), NEW a \in Accepts, cache' = g.cache,
             stream' = Append(emit(t, a), -1), job' = Returned(TRUE, ~a)
      PROVE  Inv'
  <2>1. a \in BOOLEAN /\ (~a) \in BOOLEAN /\ t \in Tokens BY <1>6, AcceptsBool
  <2>2. JobOK' BY <1>2, <1>8, <2>1, ReturnedOK
  <2>3. StreamOK' BY <1>2, <1>8, <2>1, EndsAfter
  <2> QED BY <1>3, <1>4, <1>7, <1>8, <2>2, <2>3
<1>9. ASSUME NEW t \in Pick(g.out[1]), NEW a \in Accepts, t # Eos, job.n + 1 # job.req.n_gen,
             cache' = g.cache, stream' = emit(t, a),
             job' = [job EXCEPT !.last = t, !.n = @ + 1, !.committed = @ + 1]
      PROVE  Inv'
  <2>1. a \in BOOLEAN /\ t \in Tokens BY <1>6, AcceptsBool
  <2>2. /\ IsJob(job') /\ job'.at = "ar" /\ job'.n = job.n + 1 /\ job'.req = job.req
        /\ job'.last = t /\ job'.snap = job.snap
    BY <1>1, <1>2, <1>9, <2>1, OneMore
  <2>3. job.n + 1 < job.req.n_gen BY <1>2, <1>9
  <2>4. JobOK' BY <1>1, <1>2, <2>1, <2>2, <2>3 DEF JobOK, Working
  <2>5. StreamOK' BY <1>2, <1>9, <2>1, <2>2, Emits DEF Working
  <2> QED BY <1>3, <1>4, <1>7, <1>9, <2>4, <2>5
<1>10. CASE cache' = FailedPass(cache, job.committed) /\ Return(FALSE)
  <2>1. IsCache(cache') /\ SameEnds(cache, cache') BY <1>2, <1>10, FailedType
  <2>2. CacheOK' BY <2>1 DEF CacheOK, SameEnds
  <2>3. job' = Returned(FALSE, job.refused) /\ stream' = stream BY <1>10 DEF Return
  <2>4. JobOK' BY <1>2, <2>3, ReturnedOK
  <2>5. StreamOK' BY <1>2, <2>3, EndsPlain
  <2> QED BY <1>3, <1>4, <2>2, <2>4, <2>5
<1> QED
  <2>1. CASE \E t \in Pick(g.out[1]), a \in Accepts :
                /\ cache' = g.cache
                /\ IF ~a \/ t = Eos \/ job.n + 1 = job.req.n_gen
                   THEN /\ stream' = Append(emit(t, a), -1)
                        /\ job' = Returned(TRUE, ~a)
                   ELSE /\ stream' = emit(t, a)
                        /\ job' = [job EXCEPT !.last = t, !.n = @ + 1, !.committed = @ + 1]
    <3>1. PICK t \in Pick(g.out[1]), a \in Accepts :
                /\ cache' = g.cache
                /\ IF ~a \/ t = Eos \/ job.n + 1 = job.req.n_gen
                   THEN /\ stream' = Append(emit(t, a), -1)
                        /\ job' = Returned(TRUE, ~a)
                   ELSE /\ stream' = emit(t, a)
                        /\ job' = [job EXCEPT !.last = t, !.n = @ + 1, !.committed = @ + 1]
      BY <2>1
    <3>2. CASE ~a \/ t = Eos \/ job.n + 1 = job.req.n_gen BY <1>8, <3>1, <3>2
    <3>3. CASE ~(~a \/ t = Eos \/ job.n + 1 = job.req.n_gen) BY <1>9, <3>1, <3>3
    <3> QED BY <3>2, <3>3
  <2> QED BY <1>5, <1>10, <2>1 DEF Gemma4Ar

LEMMA Gemma4DraftOK == ASSUME Inv, Gemma4Draft PROVE Inv'
<1> USE DEF Inv
<1>1. /\ Is("gemma4") /\ job.at = "draft"
      /\ UNCHANGED <<config, snaps, named, mirror, parked, drafter, commands>>
  BY DEF Gemma4Draft, KeepSnaps
<1>2. /\ IsJob(job) /\ IsRequest(job.req) /\ IsCache(cache) /\ job.at \in Working
      /\ job.committed \in Nat /\ job.refused \in BOOLEAN
      /\ cache.last_tok \in Tokens \cup {-1} /\ cache.cur_pos \in Nat
  BY <1>1 DEF JobOK, IsJob, Working, CacheOK
<1>3. SnapsOK' /\ ProcessOK' BY <1>1, SameSnaps, SameProcess DEF ProcessOK
<1>4. LastKnown' BY <1>1 DEF LastKnown, Is
<1>5. ASSUME NEW d \in Drafts, NEW t \in Picks(gemma4_verify_batch(cache, d, job.committed).out),
             cache' = gemma4_verify_batch(cache, d, job.committed).cache,
             job' = [job EXCEPT !.at = "commit", !.draft = d, !.target = t],
             stream' = stream
      PROVE  Inv'
  <2>1. d \in Seq(Tokens) /\ Len(d) = QLen BY BlockFacts DEF Drafts
  <2>2. QLen \in Nat \ {0} BY BlockSize
  <2>3. PICK g : g = gemma4_step(cache, d, job.committed) OBVIOUS
  <2>4. gemma4_verify_batch(cache, d, job.committed) = g BY <1>2, <2>1, <2>3, Gemma4Pass
  <2>5. IsCache(g.cache) /\ IsOut(g.out, QLen) /\ g.cache.cur_pos = job.committed + QLen
        /\ g.cache.last_tok = cache.last_tok
    BY <1>2, <2>1, <2>3, Gemma4Pass
  <2>6. t \in [1..QLen -> Tokens] BY <1>5, <2>2, <2>4, <2>5, OutPicks
  <2>7. cache' = g.cache BY <1>5, <2>4
  <2>8. CacheOK' BY <1>2, <2>2, <2>5, <2>7 DEF CacheOK
  <2>9. /\ IsJob(job') /\ job'.at = "commit" /\ job'.n = job.n /\ job'.req = job.req
         /\ job'.snap = job.snap /\ job'.draft = d /\ job'.target = t
    BY <1>2, <1>5 DEF IsJob
  <2>10. JobOK' BY <1>1, <1>2, <2>1, <2>6, <2>9 DEF JobOK, Working
  <2>11. StreamOK' BY <1>2, <1>5, <2>9, Stays DEF Working
  <2> QED BY <1>3, <1>4, <2>8, <2>10, <2>11
<1>6. ASSUME cache' = cache \/ cache' = FailedPass(cache, job.committed), Return(FALSE) PROVE Inv'
  <2>1. IsCache(cache') /\ SameEnds(cache, cache')
    <3>1. CASE cache' = cache BY <1>2, <3>1 DEF SameEnds
    <3>2. CASE cache' = FailedPass(cache, job.committed) BY <1>2, <3>2, FailedType
    <3> QED BY <1>6, <3>1, <3>2
  <2>2. CacheOK' BY <1>2, <2>1 DEF CacheOK, SameEnds
  <2>3. job' = Returned(FALSE, job.refused) /\ stream' = stream BY <1>6 DEF Return
  <2>4. JobOK' BY <1>2, <2>3, ReturnedOK
  <2>5. StreamOK' BY <1>2, <2>3, EndsPlain
  <2> QED BY <1>3, <1>4, <2>2, <2>4, <2>5
<1> QED BY <1>5, <1>6 DEF Gemma4Draft

LEMMA Gemma4CommitOK == ASSUME Inv, Gemma4Commit PROVE Inv'
<1> USE DEF Inv
<1> DEFINE accept_n == AcceptN(job.draft, job.target)
           commit_n == CommitN(accept_n, job.req.n_gen - job.n)
           bonus    == commit_n > accept_n
<1>1. /\ Is("gemma4") /\ job.at = "commit"
      /\ UNCHANGED <<config, snaps, named, parked, drafter, commands>>
  BY DEF Gemma4Commit, KeepSnaps
<1>2. /\ IsJob(job) /\ IsRequest(job.req) /\ IsCache(cache) /\ job.at \in Working
      /\ job.committed \in Nat /\ job.refused \in BOOLEAN
      /\ cache.last_tok \in Tokens \cup {-1} /\ job.target \in [1..QLen -> Tokens]
  BY <1>1 DEF JobOK, IsJob, Working, CacheOK
<1>3. PICK toks : toks = CommitTokens(job.draft, job.target, accept_n, commit_n) OBVIOUS
<1>4. toks \in Seq(Tokens) /\ toks # <<>> /\ Len(toks) <= job.req.n_gen - job.n
      /\ Len(toks) \in Nat \ {0} /\ accept_n \in Nat
  BY <1>1, <1>3, KeptFacts
<1>5. SnapsOK' BY <1>1, SameSnaps
<1>6. LastKnown' BY <1>1 DEF LastKnown, Is
<1>7. PICK g : g = IF bonus THEN gemma4_verify_batch(cache, <<Last(toks)>>, job.committed + accept_n)
                   ELSE [cache |-> cache, out |-> <<>>]
  OBVIOUS
<1>8. /\ IsCache(g.cache) /\ g.cache.last_tok = cache.last_tok
      /\ (IF bonus THEN Pick(g.out[1]) ELSE {Last(job.target)}) \subseteq Tokens
  <2>1. CASE bonus
    <3> DEFINE p == <<Last(toks)>>
               b == job.committed + accept_n
    <3>1. p \in Seq(Tokens) /\ Len(p) = 1 BY <1>4, LastOfPrompt
    <3>2. b \in Nat BY <1>2, <1>4
    <3>3. g = gemma4_verify_batch(cache, p, b) BY <1>7, <2>1
    <3> HIDE DEF p, b, accept_n, commit_n
    <3>4. g = gemma4_step(cache, p, b) BY <1>2, <3>1, <3>2, <3>3, Gemma4Pass
    <3>5. IsCache(g.cache) /\ g.cache.last_tok = cache.last_tok BY <1>2, <3>1, <3>2, <3>4, Gemma4Pass
    <3>7. Pick(g.out[1]) \subseteq Tokens BY <1>2, <3>1, <3>2, <3>4, Gemma4One
    <3> QED BY <2>1, <3>5, <3>7
  <2>2. CASE ~bonus
    <3> HIDE DEF accept_n, commit_n
    <3>1. g.cache = cache BY <1>7, <2>2
    <3>2. job.target \in Seq(Tokens) /\ Len(job.target) = QLen /\ QLen \in 1..QLen
      BY <1>2, BlockSize
    <3>3. Last(job.target) \in Tokens BY <1>2, <3>2 DEF Last
    <3> QED BY <1>2, <2>2, <3>1, <3>3
  <2> QED BY <2>1, <2>2
<1>9. ASSUME NEW t \in IF bonus THEN Pick(g.out[1]) ELSE {Last(job.target)}, NEW e \in EmitBatch(toks),
             cache' = [g.cache EXCEPT !.cur_pos = job.committed + e.offered],
             mirror' = IF HasFeat THEN sync_range(mirror, g.cache, job.committed, commit_n) ELSE mirror,
             EndTurn(e, t)
      PROVE  Inv'
  <2> HIDE DEF bonus, accept_n, commit_n
  <2>1. t \in Tokens BY <1>8
  <2>2. JobOK' /\ StreamOK' BY <1>1, <1>4, <1>9, <2>1, TurnEnds
  <2>3. e.offered \in Nat
    <3>1. e.offered \in 1..Len(toks) BY <1>4, EmitBatchFacts
    <3> QED BY <1>4, <3>1
  <2>4. IsCache(cache') /\ cache'.cur_pos = job.committed + e.offered /\ cache'.last_tok = cache.last_tok
    BY <1>8, <1>9 DEF IsCache
  <2>5. CacheOK' BY <1>2, <2>3, <2>4 DEF CacheOK
  <2>6. ProcessOK' BY <1>1, <1>9, SameProcess, MirrorSize DEF ProcessOK
  <2> QED BY <1>5, <1>6, <2>2, <2>5, <2>6
<1>10. CASE /\ cache' = [FailedPass(cache, job.committed + accept_n)
                            EXCEPT !.cur_pos = job.committed + accept_n]
            /\ mirror' = mirror
            /\ Return(FALSE)
  <2> DEFINE b == job.committed + accept_n
  <2>1. b \in Nat BY <1>2, <1>4
  <2> HIDE DEF accept_n
  <2>2. PICK c : c = FailedPass(cache, b) OBVIOUS
  <2>3. cache' = [c EXCEPT !.cur_pos = b] BY <1>10, <2>2
  <2> HIDE DEF b
  <2>4. IsCache(c) /\ SameEnds(cache, c) BY <1>2, <2>1, <2>2, FailedType
  <2>5. IsCache(cache') /\ cache'.cur_pos = b /\ cache'.last_tok = cache.last_tok
    BY <2>3, <2>4 DEF IsCache, SameEnds
  <2>6. CacheOK' BY <1>2, <2>1, <2>5 DEF CacheOK
  <2>7. job' = Returned(FALSE, job.refused) /\ stream' = stream BY <1>10 DEF Return
  <2>8. JobOK' BY <1>2, <2>7, ReturnedOK
  <2>9. StreamOK' BY <1>2, <2>7, EndsPlain
  <2>10. ProcessOK' BY <1>1, <1>10, SameProcess DEF ProcessOK
  <2> QED BY <1>5, <1>6, <2>6, <2>8, <2>9, <2>10
<1> QED
  <2>1. \/ \E t \in IF bonus THEN Pick(g.out[1]) ELSE {Last(job.target)}, e \in EmitBatch(toks) :
             /\ cache' = [g.cache EXCEPT !.cur_pos = job.committed + e.offered]
             /\ mirror' = IF HasFeat THEN sync_range(mirror, g.cache, job.committed, commit_n) ELSE mirror
             /\ EndTurn(e, t)
        \/ /\ cache' = [FailedPass(cache, job.committed + accept_n)
                           EXCEPT !.cur_pos = job.committed + accept_n]
           /\ mirror' = mirror
           /\ Return(FALSE)
    BY <1>3, <1>7 DEF Gemma4Commit
  <2> HIDE DEF bonus, accept_n, commit_n
  <2> QED BY <1>9, <1>10, <2>1

-----------------------------------------------------------------------------
(* laguna *)

LEMMA LagunaSaveSound ==
  ASSUME CacheOK, Is("laguna"), cache.cur_pos <= MaxCtx, NEW old, Sound(old), NEW s \in LagunaSave(old)
  PROVE  /\ Sound(s)
         /\ "target" \notin parked /\ cache.cur_pos > 0 /\ s.used => Len(s.kv) = cache.cur_pos
<1>1. CASE "target" \in parked \/ cache.cur_pos <= 0
  BY <1>1 DEF LagunaSave, CacheOK
<1>2. CASE ~("target" \in parked \/ cache.cur_pos <= 0)
  <2> DEFINE new == laguna_snapshot_save(cache)
  <2>1. IsSnap(new) /\ Len(new.kv) = cache.cur_pos /\ new.cur_pos = cache.cur_pos
    BY SaveType DEF CacheOK
  <2>2. s \in WithAlloc(new, ~old.used \/ old.cur_pos # cache.cur_pos) BY <1>2 DEF LagunaSave
  <2> HIDE DEF new
  <2>3. Sound(new) BY <2>1 DEF Sound, CacheOK, Is
  <2> QED BY <2>1, <2>2, <2>3, WithAllocSound
<1> QED BY <1>1, <1>2

LEMMA LagunaInlineSnapOK ==
  ASSUME Inv, Is("laguna"), job.at = "prefill", job.committed = Len(job.req.prompt),
         LagunaInlineSnap, UNCHANGED config
  PROVE  SnapsOK'
<1> USE DEF Inv
<1> DEFINE slot == job.req.snap_slot
           pos == job.req.snap_pos
<1>1. CASE ~(job.snap /\ pos <= Len(job.req.prompt))
  BY <1>1, SameSnaps DEF LagunaInlineSnap, KeepSnaps
<1>2. CASE job.snap /\ pos <= Len(job.req.prompt)
  <2>1. slot \in Slots /\ pos \in Nat \ {0} /\ cache.cur_pos = Len(job.req.prompt)
        /\ Len(job.req.prompt) + job.req.n_gen <= MaxCtx /\ job.req.n_gen \in Nat
        /\ Len(job.req.prompt) \in Nat \ {0} /\ "target" \notin parked
    BY <1>2, SlotsAssumption DEF JobOK, IsJob, Working, IsRequest, Is
  <2>2. cache.cur_pos <= MaxCtx /\ cache.cur_pos > 0 BY <2>1, SizesAreNat
  <2>3. PICK s \in LagunaSave(snaps[slot]) :
          PutSnap(slot, IF s.used THEN [s EXCEPT !.cur_pos = pos] ELSE s)
    BY <1>2 DEF LagunaInlineSnap
  <2>4. Sound(s) /\ (s.used => Len(s.kv) = cache.cur_pos)
    <3>1. Sound(snaps[slot]) BY <2>1 DEF SnapsOK
    <3> QED BY <2>1, <2>2, <2>3, <3>1, LagunaSaveSound
  <2> DEFINE new == IF s.used THEN [s EXCEPT !.cur_pos = pos] ELSE s
  <2>5. Sound(new)
    <3>1. CASE ~s.used BY <2>4, <3>1
    <3>2. CASE s.used
      <4>1. new = [s EXCEPT !.cur_pos = pos] BY <3>2
      <4>2. IsSnap(new) /\ new.kv = s.kv /\ new.cur_pos = pos BY <2>1, <2>4, <4>1 DEF Sound, IsSnap
      <4>3. new.cur_pos <= Len(new.kv) BY <1>2, <2>1, <2>4, <3>2, <4>2
      <4> HIDE DEF new
      <4> QED BY <4>2, <4>3 DEF Sound, Is
    <3> QED BY <3>1, <3>2
  <2> HIDE DEF slot, new
  <2> QED BY <2>1, <2>3, <2>5, PutSnapOK DEF new
<1> QED BY <1>1, <1>2

LEMMA PlainChunk ==
  ASSUME NEW p \in Seq(Tokens), NEW k \in Nat, k < Len(p)
  PROVE  /\ Min({Chunk, Len(p) - k}) \in Nat \ {0}
         /\ k + Min({Chunk, Len(p) - k}) <= Len(p)
<1> DEFINE d == Len(p) - k
           n == Min({Chunk, d})
<1>1. d \in Nat \ {0} /\ Chunk \in Nat \ {0} /\ Len(p) \in Nat BY ChunkSize
<1>2. n \in {Chunk, d} /\ n <= d
  <2>1. Chunk \in Int /\ d \in Int BY <1>1
  <2> HIDE DEF d
  <2>2. n \in {Chunk, d} /\ n <= Chunk /\ n <= d BY <2>1, MinFacts
  <2> QED BY <2>2
<1> HIDE DEF n
<1> QED BY <1>1, <1>2 DEF n

LEMMA LagunaPrefillOK == ASSUME Inv, LagunaPrefill PROVE Inv'
<1> USE DEF Inv
<1> DEFINE k == job.committed
           n == Min({Chunk, Len(job.req.prompt) - k})
           p == SubSeq(job.req.prompt, k + 1, k + n)
<1>1. /\ Is("laguna") /\ job.at = "prefill" /\ k < Len(job.req.prompt)
      /\ UNCHANGED <<config, snaps, named, mirror, parked, drafter, commands>>
  BY DEF LagunaPrefill, KeepSnaps
<1>2. /\ k \in Nat /\ job.req.prompt \in Seq(Tokens) /\ job.n = 0
      /\ IsJob(job) /\ IsCache(cache) /\ cache.last_tok \in Tokens \cup {-1}
      /\ job.at \in Working /\ job.refused \in BOOLEAN
  BY <1>1 DEF JobOK, IsJob, IsRequest, Working, CacheOK
<1>3. n \in Nat \ {0} /\ k + n <= Len(job.req.prompt) BY <1>1, <1>2, PlainChunk
<1>4. PICK g : g = laguna_step(cache, p, k) OBVIOUS
<1>5. IsCache(g.cache) /\ IsOut(g.out, n) /\ g.cache.cur_pos = k + n
      /\ g.cache.last_tok = cache.last_tok
  <2> HIDE DEF n, k
  <2>1. p \in Seq(Tokens) /\ Len(p) = n BY <1>2, <1>3, ChunkFacts
  <2> HIDE DEF p
  <2>2. IsCache(g.cache) /\ IsOut(g.out, Len(p)) /\ g.cache.cur_pos = k + Len(p)
        /\ g.cache.last_tok = cache.last_tok
    BY <1>2, <1>4, <2>1, LagunaStepType
  <2> QED BY <2>1, <2>2
<1>6. Pick(Last(g.out)) \subseteq Tokens
  <2> HIDE DEF n
  <2> QED BY <1>3, <1>5, OutPicks
<1>7. SnapsOK' /\ ProcessOK' BY <1>1, SameSnaps, SameProcess DEF ProcessOK
<1>8. LastKnown' BY <1>1 DEF LastKnown, Is
<1>9. CASE /\ cache' = g.cache
           /\ \E t \in Pick(Last(g.out)) : job' = [job EXCEPT !.committed = k + n, !.last = t]
           /\ stream' = stream
  <2> HIDE DEF n, k, p
  <2>1. PICK t \in Tokens : job' = [job EXCEPT !.committed = k + n, !.last = t] BY <1>6, <1>9
  <2>2. CacheOK' BY <1>2, <1>3, <1>5, <1>9 DEF CacheOK, k
  <2>3. /\ IsJob(job') /\ job'.at = job.at /\ job'.n = job.n /\ job'.req = job.req
        /\ job'.committed = k + n /\ job'.snap = job.snap /\ job'.last = t
    <3>1. k + n \in Nat BY <1>2, <1>3
    <3> QED BY <1>2, <2>1, <3>1 DEF IsJob
  <2>4. JobOK' BY <1>1, <1>2, <1>3, <1>5, <1>9, <2>3 DEF JobOK, Working, Is, k
  <2>5. StreamOK' BY <1>2, <1>9, <2>3, Stays
  <2> QED BY <1>7, <1>8, <2>2, <2>4, <2>5
<1>10. CASE cache' = FailedPass(cache, k) /\ Return(FALSE)
  <2> HIDE DEF n, p
  <2>1. IsCache(cache') /\ SameEnds(cache, cache') BY <1>2, <1>10, FailedType
  <2>2. CacheOK' BY <2>1 DEF CacheOK, SameEnds
  <2>4. job' = Returned(FALSE, job.refused) /\ stream' = stream BY <1>10 DEF Return
  <2>5. JobOK' BY <1>2, <2>4, ReturnedOK
  <2>6. StreamOK' BY <1>2, <2>4, EndsPlain
  <2> QED BY <1>7, <1>8, <2>2, <2>5, <2>6
<1> QED
  <2>1. \/ /\ cache' = g.cache
           /\ \E t \in Pick(Last(g.out)) : job' = [job EXCEPT !.committed = k + n, !.last = t]
           /\ stream' = stream
        \/ cache' = FailedPass(cache, k) /\ Return(FALSE)
    BY <1>4 DEF LagunaPrefill
  <2> QED BY <1>9, <1>10, <2>1

LEMMA LagunaStartOK == ASSUME Inv, LagunaStart PROVE Inv'
<1> USE DEF Inv
<1>1. /\ Is("laguna") /\ job.at = "prefill" /\ job.committed >= Len(job.req.prompt)
      /\ LagunaInlineSnap /\ job' = [job EXCEPT !.at = "ar", !.snap = FALSE]
      /\ UNCHANGED <<config, cache, mirror, parked, drafter, stream, commands>>
  BY DEF LagunaStart
<1>2. /\ IsJob(job) /\ IsRequest(job.req) /\ job.n = 0 /\ job.at \in Working
      /\ job.committed \in Nat /\ Len(job.req.prompt) \in Nat
      /\ job.committed <= Len(job.req.prompt)
  BY <1>1 DEF JobOK, IsJob, IsRequest, Working, Is
<1>3. job.committed = Len(job.req.prompt) BY <1>1, <1>2
<1>4. SnapsOK' BY <1>1, <1>3, LagunaInlineSnapOK
<1>5. ProcessOK' BY <1>1, SameProcess DEF ProcessOK
<1>6. CacheOK' BY <1>1 DEF CacheOK
<1>7. LastKnown' BY <1>1 DEF LastKnown, Is
<1>8. /\ IsJob(job') /\ job'.at = "ar" /\ job'.n = job.n /\ job'.req = job.req
      /\ ~job'.snap /\ job'.last = job.last
  BY <1>1, <1>2 DEF IsJob
<1>9. job.last \in Tokens BY <1>1, <1>3 DEF JobOK
<1>10. JobOK' BY <1>1, <1>2, <1>8, <1>9 DEF JobOK, Working, Is
<1>11. StreamOK' BY <1>1, <1>2, <1>8, Stays DEF Working
<1> QED BY <1>4, <1>5, <1>6, <1>7, <1>10, <1>11

LEMMA LagunaEnds ==
  ASSUME Inv, job.at \in Working, NEW ok \in BOOLEAN, NEW r \in BOOLEAN, LagunaEnd(ok, r, stream)
  PROVE  JobOK' /\ StreamOK'
<1> USE DEF Inv
<1>1. job' = Returned(ok, r) /\ stream' = IF ShouldEmit THEN Append(stream, -1) ELSE stream
  BY DEF LagunaEnd
<1>2. JobOK' BY <1>1, ReturnedOK
<1>3. CASE ShouldEmit
  <2>1. StreamOK' BY <1>1, <1>3, EndsMarked
  <2> QED BY <1>2, <2>1
<1>4. CASE ~ShouldEmit
  <2>1. ~Streamed BY <1>4 DEF ShouldEmit, Streamed
  <2>2. StreamOK' BY <1>1, <1>4, <2>1, EndsPlain
  <2> QED BY <1>2, <2>2
<1> QED BY <1>3, <1>4

LEMMA LagunaDecodeOK == ASSUME Inv, LagunaDecode PROVE Inv'
<1> USE DEF Inv
<1>1. /\ Is("laguna") /\ job.at = "ar"
      /\ UNCHANGED <<config, snaps, named, mirror, parked, drafter, commands>>
  BY DEF LagunaDecode, KeepSnaps
<1>2. /\ IsJob(job) /\ IsRequest(job.req) /\ IsCache(cache) /\ job.at \in Working
      /\ job.n \in Nat /\ job.committed \in Nat /\ job.req.n_gen \in Nat
      /\ job.last \in Tokens /\ cache.last_tok \in Tokens \cup {-1} /\ cache.cur_pos \in Nat
  BY <1>1 DEF JobOK, IsJob, IsRequest, Working, CacheOK, Is
<1>3. SnapsOK' /\ ProcessOK' BY <1>1, SameSnaps, SameProcess DEF ProcessOK
<1>4. LastKnown' BY <1>1 DEF LastKnown, Is
<1> DEFINE emitted == IF ShouldEmit THEN emit(job.last, TRUE) ELSE stream
<1>5. PICK g : g = laguna_step(cache, <<job.last>>, cache.cur_pos) OBVIOUS
<1>6. IsCache(g.cache) /\ g.cache.cur_pos \in Nat /\ g.cache.last_tok = cache.last_tok
      /\ Pick(g.out[1]) \subseteq Tokens
  <2> DEFINE p == <<job.last>>
  <2>1. p \in Seq(Tokens) /\ Len(p) = 1 BY <1>2
  <2> HIDE DEF p
  <2>2. g = laguna_step(cache, p, cache.cur_pos) BY <1>5 DEF p
  <2>3. IsCache(g.cache) /\ g.cache.cur_pos = cache.cur_pos + Len(p)
        /\ g.cache.last_tok = cache.last_tok /\ IsOut(g.out, Len(p))
    BY <1>2, <2>1, <2>2, LagunaStepType
  <2>4. 1 \in Nat \ {0} /\ IsOut(g.out, 1) BY <2>1, <2>3
  <2>5. Pick(g.out[1]) \subseteq Tokens BY <2>4, OutPicks
  <2> QED BY <1>2, <2>1, <2>3, <2>5
<1>7. ASSUME cache' = cache, NEW r \in BOOLEAN, LagunaEnd(TRUE, r, stream) PROVE Inv'
  <2>1. CacheOK' BY <1>7 DEF CacheOK
  <2>2. JobOK' /\ StreamOK' BY <1>2, <1>7, LagunaEnds
  <2> QED BY <1>3, <1>4, <2>1, <2>2
<1>8. ASSUME job.n < job.req.n_gen, job.last # Eos, cache' = g.cache, stream' = emitted,
             NEW t \in Pick(g.out[1]),
             job' = [job EXCEPT !.last = t, !.n = @ + 1, !.committed = @ + 1]
      PROVE  Inv'
  <2>1. CacheOK' BY <1>2, <1>6, <1>8 DEF CacheOK
  <2>2. /\ IsJob(job') /\ job'.at = "ar" /\ job'.n = job.n + 1 /\ job'.req = job.req
        /\ job'.last = t /\ job'.snap = job.snap
    BY <1>1, <1>2, <1>6, <1>8, OneMore
  <2>3. job.n + 1 <= job.req.n_gen BY <1>2, <1>8
  <2>4. t \in Tokens BY <1>6
  <2>5. JobOK' BY <1>1, <1>2, <2>2, <2>3, <2>4 DEF JobOK, Working, Is
  <2>6. StreamOK'
    <3>1. Going(stream, job.n) BY <1>2 DEF StreamOK
    <3>2. Going(emitted, job.n + 1) BY <1>2, <1>8, <3>1, GoingEmit
    <3> QED BY <1>8, <2>2, <3>2 DEF StreamOK, Working
  <2> QED BY <1>3, <1>4, <2>1, <2>5, <2>6
<1>9. ASSUME job.n < job.req.n_gen, cache' = FailedPass(cache, cache.cur_pos),
             LagunaEnd(FALSE, FALSE, emitted)
      PROVE  Inv'
  <2>1. IsCache(cache') /\ SameEnds(cache, cache') BY <1>2, <1>9, FailedType
  <2>2. CacheOK' BY <2>1 DEF CacheOK, SameEnds
  <2>3. job' = Returned(FALSE, FALSE)
        /\ stream' = IF ShouldEmit THEN Append(emit(job.last, TRUE), -1) ELSE stream
    BY <1>9 DEF LagunaEnd
  <2>4. JobOK' BY <1>2, <2>3, ReturnedOK
  <2>5. StreamOK'
    <3>1. CASE ShouldEmit BY <1>2, <1>9, <2>3, <3>1, EndsAfter
    <3>2. CASE ~ShouldEmit BY <1>2, <2>3, <3>2, EndsPlain
    <3> QED BY <3>1, <3>2
  <2> QED BY <1>3, <1>4, <2>2, <2>4, <2>5
<1> QED
  <2>1. \/ cache' = cache /\ \E r \in BOOLEAN : LagunaEnd(TRUE, r, stream)
        \/ /\ job.n < job.req.n_gen /\ job.last # Eos
           /\ cache' = g.cache
           /\ stream' = emitted
           /\ \E t \in Pick(g.out[1]) :
                job' = [job EXCEPT !.last = t, !.n = @ + 1, !.committed = @ + 1]
        \/ /\ job.n < job.req.n_gen
           /\ cache' = FailedPass(cache, cache.cur_pos)
           /\ LagunaEnd(FALSE, FALSE, emitted)
    BY <1>5 DEF LagunaDecode
  <2> QED BY <1>7, <1>8, <1>9, <2>1

-----------------------------------------------------------------------------
(* qwen3 *)

LEMMA Qwen3SaveSound ==
  ASSUME CacheOK, Is("qwen3"), NEW pos \in Nat, NEW s \in Qwen3SaveAt(pos) PROVE Sound(s)
<1> DEFINE c == [cache EXCEPT !.cur_pos = pos]
           new == Qwen3Save(c)
<1>1. IsCache(c) /\ c.cur_pos \in Nat /\ c.last_tok \in Tokens \cup {-1} BY DEF CacheOK, IsCache
<1>2. IsSnap(new)
  <2> HIDE DEF c
  <2> QED BY <1>1, SaveType
<1>3. s \in WithAlloc(new, TRUE) BY DEF Qwen3SaveAt
<1> HIDE DEF new
<1>4. Sound(new) BY <1>2 DEF Sound, Is
<1> QED BY <1>3, <1>4, WithAllocSound

LEMMA Qwen3Failed ==
  ASSUME CacheOK, NEW base \in Nat, NEW pos \in Nat
  PROVE  /\ IsCache(FailedPass(cache, base)) /\ SameEnds(cache, FailedPass(cache, base))
         /\ \A d \in {FailedPass([cache EXCEPT !.cur_pos = pos], base),
                      [FailedPass(cache, base) EXCEPT !.cur_pos = pos]} :
              IsCache(d) /\ d.cur_pos \in Nat /\ d.last_tok = cache.last_tok
<1>1. PICK c : c = [cache EXCEPT !.cur_pos = pos] OBVIOUS
<1>2. IsCache(c) /\ c.cur_pos = pos /\ c.last_tok = cache.last_tok BY <1>1 DEF CacheOK, IsCache
<1>3. IsCache(FailedPass(c, base)) /\ SameEnds(c, FailedPass(c, base)) BY <1>2, FailedType
<1>4. IsCache(FailedPass(cache, base)) /\ SameEnds(cache, FailedPass(cache, base))
  BY FailedType DEF CacheOK
<1>5. PICK f : f = FailedPass(cache, base) OBVIOUS
<1>6. PICK d : d = [f EXCEPT !.cur_pos = pos] OBVIOUS
<1>7. IsCache(d) /\ d.cur_pos \in Nat /\ d.last_tok = cache.last_tok
  BY <1>4, <1>5, <1>6 DEF IsCache, SameEnds
<1> QED BY <1>1, <1>2, <1>3, <1>4, <1>5, <1>6, <1>7 DEF SameEnds

LEMMA Qwen3PrefillOK == ASSUME Inv, Qwen3Prefill PROVE Inv'
<1> USE DEF Inv
<1> DEFINE k == job.committed
           n == Min({Chunk, Len(job.req.prompt) - k})
           p == SubSeq(job.req.prompt, k + 1, k + n)
<1>1. /\ Is("qwen3") /\ job.at = "prefill" /\ k < Len(job.req.prompt)
      /\ UNCHANGED <<config, snaps, named, mirror, parked, drafter, commands>>
  BY DEF Qwen3Prefill, KeepSnaps
<1>2. /\ k \in Nat /\ job.req.prompt \in Seq(Tokens) /\ job.n = 0
      /\ IsJob(job) /\ IsCache(cache) /\ cache.last_tok \in Tokens \cup {-1}
      /\ job.at \in Working /\ job.refused \in BOOLEAN
  BY <1>1 DEF JobOK, IsJob, IsRequest, Working, CacheOK
<1>3. n \in Nat \ {0} /\ k + n <= Len(job.req.prompt) BY <1>1, <1>2, PlainChunk
<1>4. k + n \in Nat BY <1>2, <1>3
<1>5. SnapsOK' /\ ProcessOK' BY <1>1, SameSnaps, SameProcess DEF ProcessOK
<1>6. LastKnown' BY <1>1 DEF LastKnown, Is
<1>7. CASE /\ cache' = [Qwen3Step(cache, p, k).cache EXCEPT !.cur_pos = k + n]
           /\ job' = [job EXCEPT !.committed = k + n]
           /\ stream' = stream
  <2> HIDE DEF n, k
  <2>1. p \in Seq(Tokens) /\ Len(p) = n BY <1>2, <1>3, ChunkFacts
  <2> HIDE DEF p
  <2>2. IsCache(cache') /\ cache'.cur_pos = k + n /\ cache'.last_tok = cache.last_tok
    BY <1>2, <1>4, <1>7, <2>1, Qwen3Pass
  <2>3. CacheOK' BY <1>2, <1>4, <2>2 DEF CacheOK
  <2>4. /\ IsJob(job') /\ job'.at = job.at /\ job'.n = job.n /\ job'.req = job.req
        /\ job'.committed = k + n /\ job'.snap = job.snap
    BY <1>2, <1>4, <1>7 DEF IsJob
  <2>5. JobOK' BY <1>1, <1>2, <2>4 DEF JobOK, Working, Is
  <2>6. StreamOK' BY <1>2, <1>7, <2>4, Stays
  <2> QED BY <1>5, <1>6, <2>3, <2>5, <2>6
<1>8. CASE cache' = FailedPass(cache, k) /\ Return(FALSE)
  <2> HIDE DEF n, p
  <2>1. IsCache(cache') /\ SameEnds(cache, cache') BY <1>2, <1>8, FailedType
  <2>2. CacheOK' BY <2>1 DEF CacheOK, SameEnds
  <2>3. job' = Returned(FALSE, job.refused) /\ stream' = stream BY <1>8 DEF Return
  <2>4. JobOK' BY <1>2, <2>3, ReturnedOK
  <2>5. StreamOK' BY <1>2, <2>3, EndsPlain
  <2> QED BY <1>5, <1>6, <2>2, <2>4, <2>5
<1> QED BY <1>7, <1>8 DEF Qwen3Prefill

LEMMA Qwen3InlineSnapOK ==
  ASSUME Inv, Is("qwen3"), job.at = "prefill", Qwen3InlineSnap(Len(job.req.prompt)), UNCHANGED config
  PROVE  SnapsOK'
<1> USE DEF Inv
<1> DEFINE slot == job.req.snap_slot
           pos == job.req.snap_pos
<1>1. CASE ~(job.snap /\ pos <= Len(job.req.prompt))
  BY <1>1, SameSnaps DEF Qwen3InlineSnap, KeepSnaps
<1>2. CASE job.snap /\ pos <= Len(job.req.prompt)
  <2>1. slot \in Slots /\ pos \in Nat
    BY <1>2, SlotsAssumption DEF JobOK, IsJob, Working, IsRequest, Is
  <2>2. PICK s \in Qwen3SaveAt(pos) : PutSnap(slot, s) BY <1>2 DEF Qwen3InlineSnap
  <2>3. Sound(s) BY SMTT(30), <2>1, <2>2, Qwen3SaveSound
  <2> HIDE DEF slot
  <2> QED BY <2>1, <2>2, <2>3, PutSnapOK
<1> QED BY <1>1, <1>2

LEMMA Qwen3FirstOK == ASSUME Inv, Qwen3First PROVE Inv'
<1> USE DEF Inv
<1> DEFINE committed == Len(job.req.prompt)
           at == [cache EXCEPT !.cur_pos = committed]
           g == Qwen3Step(cache, <<Last(job.req.prompt)>>, committed - 1)
<1>1. /\ Is("qwen3") /\ job.at = "prefill" /\ Qwen3InlineSnap(committed)
      /\ UNCHANGED <<config, mirror, parked, drafter, commands>>
  BY DEF Qwen3First
<1>2. /\ IsJob(job) /\ IsRequest(job.req) /\ job.n = 0 /\ IsCache(cache)
      /\ committed \in Nat /\ committed - 1 \in Nat /\ job.req.n_gen \in Nat
      /\ "target" \notin parked /\ job.at \in Working /\ job.refused \in BOOLEAN
      /\ cache.last_tok \in Tokens \cup {-1} /\ Last(job.req.prompt) \in Tokens
  <2>1. IsRequest(job.req) /\ job.req.prompt \in Seq(Tokens) /\ job.req.prompt # <<>>
    BY <1>1 DEF JobOK, IsRequest, Working
  <2>2. Last(job.req.prompt) \in Tokens BY <2>1, LastOfPrompt
  <2>3. committed \in Nat /\ committed - 1 \in Nat BY <2>1
  <2> QED BY <1>1, <2>1, <2>2, <2>3 DEF JobOK, IsJob, IsRequest, Working, CacheOK
<1>3. SnapsOK' BY <1>1, Qwen3InlineSnapOK
<1>4. ProcessOK' BY <1>1, SameProcess DEF ProcessOK
<1>5. LastKnown' BY <1>1 DEF LastKnown, Is
<1> HIDE DEF committed
<1>6. ASSUME cache' = [g.cache EXCEPT !.cur_pos = committed] PROVE CacheOK'
  <2>1. IsCache(cache') /\ cache'.cur_pos = committed /\ cache'.last_tok = cache.last_tok
    BY <1>2, <1>6, Qwen3One
  <2> QED BY <1>2, <2>1 DEF CacheOK
<1>7. Pick(g.out[1]) \subseteq Tokens BY <1>2, Qwen3One
<1> HIDE DEF g
<1>8. CASE cache' = at /\ ReturnMarked(TRUE)
  <2>1. IsCache(cache') /\ cache'.cur_pos = committed /\ cache'.last_tok = cache.last_tok
    BY <1>2, <1>8 DEF IsCache
  <2>2. CacheOK' BY <1>2, <2>1 DEF CacheOK
  <2>3. job' = Returned(TRUE, job.refused) /\ stream' = Append(stream, -1) BY <1>8 DEF ReturnMarked
  <2>4. JobOK' BY <1>2, <2>3, ReturnedOK
  <2>5. StreamOK' BY <1>2, <2>3, EndsMarked
  <2> QED BY <1>3, <1>4, <1>5, <2>2, <2>4, <2>5
<1>9. ASSUME NEW t \in Pick(g.out[1]), NEW a \in Accepts, job.req.n_gen > 0,
             cache' = [g.cache EXCEPT !.cur_pos = committed],
             stream' = Append(emit(t, a), -1), job' = Returned(TRUE, ~a)
      PROVE  Inv'
  <2>1. a \in BOOLEAN /\ (~a) \in BOOLEAN /\ t \in Tokens BY <1>7, AcceptsBool
  <2>2. JobOK' BY <1>2, <1>9, <2>1, ReturnedOK
  <2>3. job.n < job.req.n_gen BY <1>2, <1>9
  <2>4. StreamOK' BY <1>2, <1>9, <2>1, <2>3, EndsAfter
  <2> QED BY <1>3, <1>4, <1>5, <1>6, <1>9, <2>2, <2>4
<1>10. ASSUME NEW t \in Pick(g.out[1]), NEW a \in Accepts, job.req.n_gen > 0, job.req.n_gen # 1,
              t # Eos, cache' = [g.cache EXCEPT !.cur_pos = committed], stream' = emit(t, a),
              job' = [job EXCEPT !.at = "second", !.last = t, !.n = 1, !.committed = committed]
       PROVE  Inv'
  <2>1. a \in BOOLEAN /\ t \in Tokens BY <1>7, AcceptsBool
  <2>2. /\ IsJob(job') /\ job'.at = "second" /\ job'.n = 1 /\ job'.req = job.req
        /\ job'.last = t /\ job'.snap = job.snap
    <3>1. job' = [job EXCEPT !.at = "second", !.last = t, !.n = 1, !.committed = committed] BY <1>10
    <3> QED BY <1>2, <2>1, <3>1 DEF IsJob
  <2>3. 1 < job.req.n_gen BY <1>2, <1>10
  <2>4. JobOK' BY <1>1, <1>2, <2>1, <2>2, <2>3 DEF JobOK, Working, Is
  <2>5. StreamOK' BY <1>2, <1>10, <2>1, <2>2, Emits DEF Working
  <2> QED BY <1>3, <1>4, <1>5, <1>6, <1>10, <2>4, <2>5
<1>11. CASE cache' = FailedPass(at, committed - 1) /\ Return(FALSE)
  <2>1. IsCache(cache') /\ cache'.cur_pos \in Nat /\ cache'.last_tok = cache.last_tok
    BY <1>2, <1>11, Qwen3Failed DEF CacheOK
  <2>2. CacheOK' BY <1>2, <2>1 DEF CacheOK
  <2>3. job' = Returned(FALSE, job.refused) /\ stream' = stream BY <1>11 DEF Return
  <2>4. JobOK' BY <1>2, <2>3, ReturnedOK
  <2>5. StreamOK' BY <1>2, <2>3, EndsPlain
  <2> QED BY <1>3, <1>4, <1>5, <2>2, <2>4, <2>5
<1> QED
  <2>1. CASE /\ job.req.n_gen > 0
             /\ cache' = [g.cache EXCEPT !.cur_pos = committed]
             /\ \E t \in Pick(g.out[1]), a \in Accepts :
                    IF ~a \/ t = Eos \/ job.req.n_gen = 1
                    THEN /\ stream' = Append(emit(t, a), -1)
                         /\ job' = Returned(TRUE, ~a)
                    ELSE /\ stream' = emit(t, a)
                         /\ job' = [job EXCEPT !.at = "second", !.last = t, !.n = 1,
                                               !.committed = committed]
    <3>1. PICK t \in Pick(g.out[1]), a \in Accepts :
                    IF ~a \/ t = Eos \/ job.req.n_gen = 1
                    THEN /\ stream' = Append(emit(t, a), -1)
                         /\ job' = Returned(TRUE, ~a)
                    ELSE /\ stream' = emit(t, a)
                         /\ job' = [job EXCEPT !.at = "second", !.last = t, !.n = 1,
                                               !.committed = committed]
      BY <2>1
    <3>2. CASE ~a \/ t = Eos \/ job.req.n_gen = 1 BY <1>9, <2>1, <3>1, <3>2
    <3>3. CASE ~(~a \/ t = Eos \/ job.req.n_gen = 1) BY <1>10, <2>1, <3>1, <3>3
    <3> QED BY <3>2, <3>3
  <2> QED BY <1>8, <1>11, <2>1 DEF Qwen3First, g, committed

LEMMA Qwen3SecondOK == ASSUME Inv, Qwen3Second PROVE Inv'
<1> USE DEF Inv
<1> DEFINE g == Qwen3Step(cache, <<job.last>>, job.committed)
<1>1. /\ Is("qwen3") /\ job.at = "second"
      /\ UNCHANGED <<config, snaps, named, mirror, parked, drafter, commands>>
  BY DEF Qwen3Second, KeepSnaps
<1>2. /\ IsJob(job) /\ IsRequest(job.req) /\ IsCache(cache) /\ job.at \in Working
      /\ job.n \in Nat /\ job.committed \in Nat /\ job.req.n_gen \in Nat /\ job.n < job.req.n_gen
      /\ job.last \in Tokens /\ cache.last_tok \in Tokens \cup {-1} /\ job.refused \in BOOLEAN
      /\ job.committed + 1 \in Nat
  BY <1>1 DEF JobOK, IsJob, IsRequest, Working, CacheOK, Is
<1>3. SnapsOK' /\ ProcessOK' BY <1>1, SameSnaps, SameProcess DEF ProcessOK
<1>4. LastKnown' BY <1>1 DEF LastKnown, Is
<1>5. ASSUME NEW t \in Pick(g.out[1]), cache' = [g.cache EXCEPT !.cur_pos = job.committed + 1],
             job' = [job EXCEPT !.at = "ar", !.last = t, !.committed = @ + 1], stream' = stream
      PROVE  Inv'
  <2>1. /\ IsCache(cache') /\ cache'.cur_pos = job.committed + 1 /\ cache'.last_tok = cache.last_tok
        /\ t \in Tokens
    BY <1>2, <1>5, Qwen3One
  <2>2. CacheOK' BY <1>2, <2>1 DEF CacheOK
  <2>3. /\ IsJob(job') /\ job'.at = "ar" /\ job'.n = job.n /\ job'.req = job.req
        /\ job'.last = t /\ job'.snap = job.snap
    <3>1. job' = [job EXCEPT !.at = "ar", !.last = t, !.committed = @ + 1] BY <1>5
    <3> QED BY <1>2, <2>1, <3>1 DEF IsJob
  <2>4. JobOK' BY <1>1, <1>2, <2>1, <2>3 DEF JobOK, Working, Is
  <2>5. StreamOK' BY <1>2, <1>5, <2>3, Stays DEF Working
  <2> QED BY <1>3, <1>4, <2>2, <2>4, <2>5
<1>6. CASE cache' = FailedPass(cache, job.committed) /\ Return(FALSE)
  <2>1. IsCache(cache') /\ SameEnds(cache, cache') BY <1>2, <1>6, FailedType
  <2>2. CacheOK' BY <2>1 DEF CacheOK, SameEnds
  <2>3. job' = Returned(FALSE, job.refused) /\ stream' = stream BY <1>6 DEF Return
  <2>4. JobOK' BY <1>2, <2>3, ReturnedOK
  <2>5. StreamOK' BY <1>2, <2>3, EndsPlain
  <2> QED BY <1>3, <1>4, <2>2, <2>4, <2>5
<1> HIDE DEF g
<1> QED BY <1>5, <1>6 DEF Qwen3Second, g

LEMMA Qwen3DecodeOK == ASSUME Inv, Qwen3Decode PROVE Inv'
<1> USE DEF Inv
<1> DEFINE k == job.committed + 1
           g == Qwen3Step(cache, <<job.last>>, k)
<1>1. /\ Is("qwen3") /\ job.at = "ar"
      /\ UNCHANGED <<config, snaps, named, mirror, parked, drafter, commands>>
  BY DEF Qwen3Decode, KeepSnaps
<1>2. /\ IsJob(job) /\ IsRequest(job.req) /\ IsCache(cache) /\ job.at \in Working
      /\ job.n \in Nat /\ job.committed \in Nat /\ job.req.n_gen \in Nat /\ job.n < job.req.n_gen
      /\ job.last \in Tokens /\ cache.last_tok \in Tokens \cup {-1} /\ k \in Nat
      /\ job.n + 1 \in Nat
  BY <1>1 DEF JobOK, IsJob, IsRequest, Working, CacheOK, Is
<1>3. SnapsOK' /\ ProcessOK' BY <1>1, SameSnaps, SameProcess DEF ProcessOK
<1>4. LastKnown' BY <1>1 DEF LastKnown, Is
<1>5. ASSUME NEW a \in Accepts, cache' = [cache EXCEPT !.cur_pos = k],
             stream' = Append(emit(job.last, a), -1), job' = Returned(TRUE, ~a)
      PROVE  Inv'
  <2>1. a \in BOOLEAN /\ (~a) \in BOOLEAN BY AcceptsBool
  <2> HIDE DEF k
  <2>2. IsCache(cache') /\ cache'.cur_pos = k /\ cache'.last_tok = cache.last_tok
    BY <1>2, <1>5 DEF IsCache
  <2>3. CacheOK' BY <1>2, <2>2 DEF CacheOK
  <2>4. JobOK' BY <1>2, <1>5, <2>1, ReturnedOK
  <2>5. StreamOK' BY <1>2, <1>5, <2>1, EndsAfter
  <2> QED BY <1>3, <1>4, <2>3, <2>4, <2>5
<1>6. ASSUME NEW t \in Pick(g.out[1]), job.last # Eos, job.n + 1 < job.req.n_gen,
             cache' = [g.cache EXCEPT !.cur_pos = k], stream' = emit(job.last, TRUE),
             job' = [job EXCEPT !.last = t, !.n = @ + 1, !.committed = @ + 1]
      PROVE  Inv'
  <2>1. job' = [job EXCEPT !.last = t, !.n = @ + 1, !.committed = @ + 1] BY <1>6
  <2>2. /\ IsCache(cache') /\ cache'.cur_pos = k /\ cache'.last_tok = cache.last_tok /\ t \in Tokens
    <3> HIDE DEF k
    <3> QED BY SMTT(30), <1>2, <1>6, Qwen3One
  <2>3. CacheOK' BY <1>2, <2>2 DEF CacheOK
  <2>4. /\ IsJob(job') /\ job'.at = "ar" /\ job'.n = job.n + 1 /\ job'.req = job.req
        /\ job'.last = t /\ job'.snap = job.snap
    BY <1>1, <1>2, <2>1, <2>2 DEF IsJob
  <2>5. JobOK'
    <3>1. job'.n < job'.req.n_gen /\ job'.n <= job'.req.n_gen BY <1>2, <1>6, <2>4
    <3> QED BY <1>1, <1>2, <2>2, <2>4, <3>1 DEF JobOK, Working, Is
  <2>6. StreamOK' BY <1>2, <1>6, <2>4, Emits DEF Working
  <2> QED BY <1>3, <1>4, <2>3, <2>5, <2>6
<1>7. ASSUME cache' = [FailedPass(cache, k) EXCEPT !.cur_pos = k],
             stream' = emit(job.last, TRUE), job' = Returned(FALSE, FALSE)
      PROVE  Inv'
  <2>1. IsCache(cache') /\ cache'.cur_pos \in Nat /\ cache'.last_tok = cache.last_tok
    <3> HIDE DEF k
    <3> QED BY <1>2, <1>7, Qwen3Failed
  <2>2. CacheOK' BY <1>2, <2>1 DEF CacheOK
  <2>3. JobOK' BY <1>2, <1>7, ReturnedOK
  <2>4. StreamOK'
    <3>1. Going(stream, job.n) BY <1>2 DEF StreamOK
    <3>2. InBudget(emit(job.last, TRUE), job.n + 1)
      <4>1. TRUE \in BOOLEAN /\ job.n \in Nat /\ job.last \in Tokens BY <1>2
      <4> HIDE DEF Inv
      <4> QED BY <3>1, <4>1, GoingEmit
    <3>3. InBudget(emit(job.last, TRUE), job.req.n_gen)
      <4>1. job.n + 1 \in Int /\ job.req.n_gen \in Int /\ job.n + 1 <= job.req.n_gen BY <1>2
      <4> HIDE DEF Inv
      <4> QED BY <3>2, <4>1, BudgetMore
    <3>4. 0 \in 0..1 /\ stream' = WithEnds(emit(job.last, TRUE), 0) BY <1>7 DEF WithEnds
    <3> QED BY <1>2, <1>7, <3>3, <3>4, Ends
  <2> QED BY <1>3, <1>4, <2>2, <2>3, <2>4
<1> HIDE DEF g
<1> QED BY <1>5, <1>6, <1>7 DEF Qwen3Decode, g, k

-----------------------------------------------------------------------------
(* Requests and answers *)

LEMMA IdleFacts == IsJob(Idle) /\ Idle.req.n_gen = 0
BY DEF Idle, NoRequest, IsJob

\* A request is let through, or fails before anything was evaluated.
LEMMA BeginOK ==
  ASSUME Inv, UNCHANGED <<config, mirror, parked, drafter, snaps, named>>, CacheOK', LastKnown',
         IsJob(job'), IsRequest(job'.req),
         \/ job'.at = "returned" /\ ~job'.ok /\ stream' \in {<<>>, <<-1>>}
         \/ /\ job'.at = "prefill" /\ stream' = <<>>
            /\ "target" \notin parked /\ job'.n = 0
            /\ job'.snap => job'.req.snap_slot # NoSlot
            /\ ~Is("qwen3") => job'.committed <= Len(job'.req.prompt)
            /\ Is("qwen35") /\ job'.committed > 0 => cache'.cur_pos = job'.committed
            /\ Is("laguna") => /\ cache'.cur_pos = job'.committed
                               /\ job'.committed # Len(job'.req.prompt)
  PROVE  Inv'
<1>1. SnapsOK' /\ ProcessOK' BY SameSnaps, SameProcess DEF Inv, ProcessOK
<1>2. CASE job'.at = "returned" /\ ~job'.ok /\ stream' \in {<<>>, <<-1>>}
  <2>1. JobOK' BY <1>2 DEF JobOK, Working
  <2>2. PICK k \in 0..1 : stream' = WithEnds(<<>>, k) BY <1>2, EmptyFacts
  <2>3. InBudget(<<>>, job'.req.n_gen) BY EmptyFacts DEF IsRequest
  <2>4. EndedAs(<<>>, k)' BY <1>2, <2>2, <2>3 DEF EndedAs
  <2>5. <<>> \in Seq(Tokens) /\ k \in 0..2 OBVIOUS
  <2>6. StreamOK' BY <1>2, <2>4, <2>5 DEF StreamOK, Working
  <2> QED BY <1>1, <2>1, <2>6 DEF Inv
<1>3. CASE job'.at = "prefill" /\ stream' = <<>>
  <2>1. job'.req.n_gen \in Nat /\ (job'.req.snap_slot # NoSlot => job'.req.snap_slot \in Slots)
        /\ job'.n = 0 /\ "target" \notin parked /\ (job'.snap => job'.req.snap_slot # NoSlot)
    BY <1>3 DEF IsRequest
  <2>2. JobOK' BY <1>3, <2>1 DEF JobOK, Working, Is
  <2>3. StreamOK' BY <1>3, <2>1, EmptyFacts DEF StreamOK, Working
  <2> QED BY <1>1, <2>2, <2>3 DEF Inv
<1> QED BY <1>2, <1>3

\* A command is answered.
LEMMA AnsweredOK ==
  ASSUME NEW via, NEW ok \in BOOLEAN, job' = Answered(via, ok),
         stream' = <<-1>> \/ (stream' = <<>> /\ via \notin {"bare", "restore"})
  PROVE  /\ JobOK' /\ StreamOK' /\ job'.req.via = via /\ job'.ok = ok
         /\ job'.committed = 0 /\ job'.at = "answered"
<1>1. job' = [Idle EXCEPT !.at = "answered", !.req.via = via, !.ok = ok] BY DEF Answered
<1>2. /\ job'.at = "answered" /\ job'.ok = ok /\ job'.req.via = via /\ job'.req.n_gen = 0
      /\ job'.committed = 0
  BY <1>1 DEF Idle, NoRequest
<1>3. IsJob(job') BY <1>1, IdleFacts DEF IsJob
<1>4. JobOK' BY <1>2, <1>3 DEF JobOK, Working
<1>5. <<>> \in Seq(Tokens) /\ InBudget(<<>>, job'.req.n_gen) BY <1>2, EmptyFacts
<1>6. CASE stream' = <<-1>>
  <2>1. stream' = WithEnds(<<>>, 1) BY <1>6, EmptyFacts
  <2>2. EndedAs(<<>>, 1)' BY <1>2, <1>5, <2>1 DEF EndedAs
  <2>3. 1 \in 0..2 OBVIOUS
  <2>4. StreamOK' BY <1>2, <1>5, <2>2, <2>3 DEF StreamOK, Working
  <2> QED BY <1>2, <1>4, <2>4
<1>7. CASE stream' = <<>> /\ via \notin {"bare", "restore"}
  <2>1. stream' = WithEnds(<<>>, 0) BY <1>7, EmptyFacts
  <2>2. EndedAs(<<>>, 0)' BY <1>2, <1>5, <1>7, <2>1 DEF EndedAs, Streamed
  <2>3. 0 \in 0..2 OBVIOUS
  <2>4. StreamOK' BY <1>2, <1>5, <2>2, <2>3 DEF StreamOK, Working
  <2> QED BY <1>2, <1>4, <2>4
<1> QED BY <1>6, <1>7

LEMMA ReplyOK == ASSUME Inv, Reply PROVE Inv'
<1> USE DEF Inv
<1>1. /\ job.at = "returned" /\ job' = [job EXCEPT !.at = "answered"]
      /\ stream' = stream \o Marker(job.req.via, job.ok)
      /\ UNCHANGED <<config, cache, mirror, snaps, named, parked, drafter, commands>>
  BY DEF Reply
<1>2. IsJob(job) /\ IsRequest(job.req) BY <1>1 DEF JobOK
<1>3. /\ IsJob(job') /\ job'.at = "answered" /\ job'.req = job.req /\ job'.ok = job.ok
      /\ job'.committed = job.committed
  BY <1>1, <1>2 DEF IsJob
<1>4. SnapsOK' /\ ProcessOK' BY <1>1, SameSnaps, SameProcess DEF ProcessOK
<1>5. CacheOK' /\ LastKnown' BY <1>1, <1>3 DEF CacheOK, LastKnown, Is
<1>6. JobOK' BY <1>3 DEF JobOK, Working
<1>7. PICK w \in Seq(Tokens), k \in 0..2 : EndedAs(w, k) BY <1>1 DEF StreamOK
<1>8. /\ InBudget(w, job.req.n_gen) /\ stream = WithEnds(w, k) /\ k <= 1
      /\ job.ok /\ Streamed => k = 1
  BY <1>1, <1>7 DEF EndedAs
<1>9. Streamed' <=> Streamed BY <1>3 DEF Streamed
<1>10. CASE Streamed /\ ~job.ok
  <2>1. stream' = WithEnds(w, k) \o <<-1>> BY <1>1, <1>8, <1>10 DEF Marker, Streamed
  <2>2. WithEnds(w, k) \o <<-1>> = WithEnds(w, k + 1) /\ k + 1 \in 1..2
    <3>1. k \in 0..1 /\ k + 1 \in 1..2 BY <1>8
    <3> QED BY <3>1, MarkedNext
  <2>3. EndedAs(w, k + 1)' BY <1>3, <1>8, <1>10, <2>1, <2>2 DEF EndedAs
  <2>4. k + 1 \in 0..2 BY <2>2
  <2>5. StreamOK' BY <1>3, <2>3, <2>4 DEF StreamOK, Working
  <2> QED BY <1>4, <1>5, <1>6, <2>5
<1>11. CASE ~(Streamed /\ ~job.ok)
  <2>1. Marker(job.req.via, job.ok) = <<>> BY <1>11 DEF Marker, Streamed
  <2>2. stream \in Seq(Tokens \cup {-1})
    <3>1. k \in 0..1 BY <1>8
    <3> QED BY <1>8, <3>1, MarkedNext
  <2>3. stream' = stream
    <3>1. stream \o <<>> = stream BY <2>2, ConcatEmptySeq
    <3> QED BY <1>1, <2>1, <3>1
  <2>4. EndedAs(w, k)' BY <1>2, <1>3, <1>8, <1>9, <1>11, <2>3 DEF EndedAs, IsJob
  <2>5. StreamOK' BY <1>3, <2>4 DEF StreamOK, Working
  <2> QED BY <1>4, <1>5, <1>6, <2>5
<1> QED BY <1>10, <1>11

LEMMA ContinueOK == ASSUME Inv, Continue PROVE Inv'
<1> USE DEF Inv
<1>1. /\ job' = Idle /\ stream' = <<>>
      /\ UNCHANGED <<config, cache, mirror, snaps, named, parked, drafter, commands>>
  BY DEF Continue
<1>2. job'.at = "idle" /\ job'.committed = 0 BY <1>1 DEF Idle
<1>3. SnapsOK' /\ ProcessOK' BY <1>1, SameSnaps, SameProcess DEF ProcessOK
<1>4. CacheOK' /\ LastKnown' BY <1>1, <1>2 DEF CacheOK, LastKnown, Is
<1>5. JobOK' BY <1>1, <1>2, IdleFacts DEF JobOK, Working
<1>6. StreamOK' BY <1>2 DEF StreamOK, Working
<1> QED BY <1>3, <1>4, <1>5, <1>6

-----------------------------------------------------------------------------
(* Generate commands *)

\* A request that begins, or continues a snapshot.
Begun(req, k, x, sn) ==
  [Idle EXCEPT !.at = "prefill", !.req = req, !.committed = k, !.exact = x, !.snap = sn]

Fresh(req, sn) == [Idle EXCEPT !.at = "prefill", !.req = req, !.exact = TRUE, !.snap = sn]

Opens(j, req, k, sn) ==
  IsJob(j) /\ j.at = "prefill" /\ j.req = req /\ j.n = 0 /\ j.committed = k /\ j.snap = sn

LEMMA BegunFacts ==
  ASSUME NEW req, NEW k \in Nat, NEW x \in BOOLEAN, NEW sn \in BOOLEAN
  PROVE  Opens(Begun(req, k, x, sn), req, k, sn)
<1>1. IsJob(Idle) /\ Idle.n = 0 BY IdleFacts DEF Idle
<1>2. PICK j : j = [Idle EXCEPT !.at = "prefill", !.req = req, !.committed = k, !.exact = x,
                                !.snap = sn]
  OBVIOUS
<1>3. /\ IsJob(j) /\ j.at = "prefill" /\ j.req = req /\ j.n = 0 /\ j.committed = k /\ j.snap = sn
  BY <1>1, <1>2 DEF IsJob
<1>4. Begun(req, k, x, sn) = j BY <1>2 DEF Begun
<1> QED BY <1>3, <1>4 DEF Opens

LEMMA FreshFacts ==
  ASSUME NEW req, NEW sn \in BOOLEAN
  PROVE  Opens(Fresh(req, sn), req, 0, sn)
<1>1. IsJob(Idle) /\ Idle.n = 0 /\ Idle.committed = 0 BY IdleFacts DEF Idle
<1>2. PICK j : j = [Idle EXCEPT !.at = "prefill", !.req = req, !.exact = TRUE, !.snap = sn] OBVIOUS
<1>3. /\ IsJob(j) /\ j.at = "prefill" /\ j.req = req /\ j.n = 0 /\ j.committed = 0 /\ j.snap = sn
  BY <1>1, <1>2 DEF IsJob
<1>4. Fresh(req, sn) = j BY <1>2 DEF Fresh
<1> QED BY <1>3, <1>4 DEF Opens

\* One that fails.
LEMMA FailedJob ==
  ASSUME NEW i, IsJob(i), IsRequest(i.req), NEW f, f = [i EXCEPT !.at = "returned", !.ok = FALSE]
  PROVE  IsJob(f) /\ IsRequest(f.req) /\ f.at = "returned" /\ ~f.ok
<1>1. /\ IsJob(f) /\ f.req = i.req /\ f.at = "returned" /\ ~f.ok
  BY DEF IsJob
<1> QED BY <1>1

\* One that fails at once.
LEMMA NoJob ==
  ASSUME NEW req, IsRequest(req), NEW f,
         f = [Idle EXCEPT !.at = "returned", !.req = req, !.ok = FALSE]
  PROVE  IsJob(f) /\ IsRequest(f.req) /\ f.at = "returned" /\ ~f.ok
<1>1. IsJob(f) /\ f.req = req /\ f.at = "returned" /\ ~f.ok
  BY IdleFacts DEF IsJob
<1> QED BY <1>1

LEMMA BeginsOK ==
  ASSUME Inv, UNCHANGED <<config, mirror, parked, drafter, snaps, named>>, CacheOK', LastKnown',
         "target" \notin parked, NEW req, IsRequest(req), NEW k \in Nat, NEW sn \in BOOLEAN,
         stream' = <<>>, Opens(job', req, k, sn),
         sn => req.snap_slot # NoSlot,
         ~Is("qwen3") => k <= Len(req.prompt),
         Is("qwen35") /\ k > 0 => cache'.cur_pos = k,
         Is("laguna") => cache'.cur_pos = k /\ k # Len(req.prompt)
  PROVE  Inv'
<1>1. /\ IsJob(job') /\ IsRequest(job'.req) /\ job'.at = "prefill" /\ job'.req = req
      /\ job'.n = 0 /\ job'.committed = k /\ job'.snap = sn
  BY DEF Opens
<1>2. /\ job'.snap => job'.req.snap_slot # NoSlot
      /\ ~Is("qwen3") => job'.committed <= Len(job'.req.prompt)
      /\ Is("qwen35") /\ job'.committed > 0 => cache'.cur_pos = job'.committed
      /\ Is("laguna") => /\ cache'.cur_pos = job'.committed
                         /\ job'.committed # Len(job'.req.prompt)
  BY <1>1
<1> QED BY <1>1, <1>2, BeginOK

LEMMA FailsOK ==
  ASSUME Inv, UNCHANGED <<config, mirror, parked, drafter, snaps, named>>, CacheOK', LastKnown',
         NEW req, IsRequest(req), NEW k, NEW sn, NEW i, Opens(i, req, k, sn),
         job' = [i EXCEPT !.at = "returned", !.ok = FALSE], stream' \in {<<>>, <<-1>>}
  PROVE  Inv'
<1>1. IsJob(i) /\ IsRequest(i.req) BY DEF Opens
<1>2. PICK f : f = job' /\ f = [i EXCEPT !.at = "returned", !.ok = FALSE] OBVIOUS
<1>3. IsJob(f) /\ IsRequest(f.req) /\ f.at = "returned" /\ ~f.ok BY <1>1, <1>2, FailedJob
<1>4. IsJob(job') /\ IsRequest(job'.req) /\ job'.at = "returned" /\ ~job'.ok BY <1>2, <1>3
<1> QED BY <1>4, BeginOK

LEMMA NoneOK ==
  ASSUME Inv, UNCHANGED <<config, mirror, parked, drafter, snaps, named>>, CacheOK', LastKnown',
         NEW req, IsRequest(req), job' = [Idle EXCEPT !.at = "returned", !.req = req, !.ok = FALSE],
         stream' \in {<<>>, <<-1>>}
  PROVE  Inv'
<1>1. PICK f : f = job' /\ f = [Idle EXCEPT !.at = "returned", !.req = req, !.ok = FALSE] OBVIOUS
<1>2. IsJob(f) /\ IsRequest(f.req) /\ f.at = "returned" /\ ~f.ok BY <1>1, NoJob
<1>3. IsJob(job') /\ IsRequest(job'.req) /\ job'.at = "returned" /\ ~job'.ok BY <1>1, <1>2
<1> QED BY <1>3, BeginOK

LEMMA Qwen35GenerateOK ==
  ASSUME Inv, NEW req, IsRequest(req), Is("qwen35"), "target" \notin parked, Qwen35Generate(req),
         UNCHANGED <<config, parked, drafter>>
  PROVE  Inv'
<1> DEFINE sn == req.snap_slot # NoSlot
<1>1. /\ cache' = [cache EXCEPT !.ssm = <<>>]
      /\ job' = [Idle EXCEPT !.at = "prefill", !.req = req, !.exact = TRUE, !.snap = sn]
      /\ stream' = <<>> /\ UNCHANGED <<mirror, snaps, named>> /\ sn \in BOOLEAN
      /\ sn => req.snap_slot # NoSlot
  BY DEF Qwen35Generate
<1>2. IsCache(cache') /\ SameEnds(cache, cache') BY <1>1 DEF Inv, CacheOK, IsCache, SameEnds
<1> HIDE DEF sn
<1>3. job' = Fresh(req, sn) /\ Opens(job', req, 0, sn) BY <1>1, FreshFacts DEF Fresh
<1>4. CacheOK' BY <1>2 DEF Inv, CacheOK, SameEnds
<1>5. job'.at = "prefill" /\ job'.committed = 0 BY <1>3 DEF Opens
<1>6. LastKnown' BY <1>1, <1>2, <1>5 DEF Inv, LastKnown, SameEnds, Is
<1>7. Len(req.prompt) \in Nat /\ 0 <= Len(req.prompt) /\ ~(0 > 0) /\ 0 \in Nat BY DEF IsRequest
<1>8. ~Is("laguna") BY DEF Is
<1> QED BY <1>1, <1>3, <1>4, <1>6, <1>7, <1>8, BeginsOK

LEMMA Gemma4GenerateOK ==
  ASSUME Inv, NEW req, IsRequest(req), Is("gemma4"), Gemma4Generate(req),
         UNCHANGED <<config, parked, drafter>>
  PROVE  Inv'
<1> DEFINE sn == req.snap_slot # NoSlot
<1>1. /\ stream' = <<>> /\ UNCHANGED <<mirror, snaps, named>> /\ sn \in BOOLEAN
      /\ sn => req.snap_slot # NoSlot
  BY DEF Gemma4Generate
<1>2. LastKnown' BY DEF LastKnown, Is
<1>3. Len(req.prompt) \in Nat /\ 0 <= Len(req.prompt) /\ 0 \in Nat BY DEF IsRequest
<1>4. CASE "target" \in parked
  <2>1. cache' = cache /\ job' = [Idle EXCEPT !.at = "returned", !.req = req, !.ok = FALSE]
    BY <1>4 DEF Gemma4Generate
  <2>2. CacheOK' BY <2>1 DEF Inv, CacheOK
  <2> QED BY <1>1, <1>2, <2>1, <2>2, NoneOK
<1>5. CASE "target" \notin parked
  <2>1. /\ cache' = [cache EXCEPT !.cur_pos = 0]
        /\ job' = [Idle EXCEPT !.at = "prefill", !.req = req, !.exact = TRUE, !.snap = sn]
    BY <1>5 DEF Gemma4Generate
  <2>2. IsCache(cache') /\ cache'.cur_pos = 0 /\ cache'.last_tok = cache.last_tok
    BY <2>1 DEF Inv, CacheOK, IsCache
  <2>3. CacheOK' BY <2>2 DEF Inv, CacheOK
  <2> HIDE DEF sn
  <2>4. job' = Fresh(req, sn) /\ Opens(job', req, 0, sn) BY <1>1, <2>1, FreshFacts DEF Fresh
  <2>5. ~Is("laguna") /\ ~Is("qwen35") BY DEF Is
  <2> QED BY <1>1, <1>2, <1>3, <1>5, <2>3, <2>4, <2>5, BeginsOK
<1> QED BY <1>4, <1>5

LEMMA LagunaGenerateOK ==
  ASSUME Inv, NEW req, IsRequest(req), Is("laguna"), "target" \notin parked, LagunaGenerate(req),
         UNCHANGED <<config, parked, drafter>>
  PROVE  Inv'
<1> DEFINE sn == req.snap_slot # NoSlot
<1>1. /\ stream' = <<>> /\ UNCHANGED <<mirror, snaps, named>> /\ sn \in BOOLEAN
      /\ sn => req.snap_slot # NoSlot
  BY DEF LagunaGenerate
<1>2. LastKnown' BY DEF LastKnown, Is
<1>3. Len(req.prompt) \in Nat \ {0} /\ 0 <= Len(req.prompt) /\ 0 # Len(req.prompt) /\ 0 \in Nat
  BY DEF IsRequest
<1>4. CASE Len(req.prompt) + req.n_gen > MaxCtx
  <2>1. cache' = cache /\ job' = [Idle EXCEPT !.at = "returned", !.req = req, !.ok = FALSE]
    BY <1>4 DEF LagunaGenerate
  <2>2. CacheOK' BY <2>1 DEF Inv, CacheOK
  <2> QED BY <1>1, <1>2, <2>1, <2>2, NoneOK
<1>5. CASE ~(Len(req.prompt) + req.n_gen > MaxCtx)
  <2>1. /\ cache' = [cache EXCEPT !.kv = <<>>, !.cur_pos = 0, !.last_tok = -1]
        /\ job' = [Idle EXCEPT !.at = "prefill", !.req = req, !.exact = TRUE, !.snap = sn]
    BY <1>5 DEF LagunaGenerate, reset_laguna_target_cache
  <2>2. IsCache(cache') /\ cache'.cur_pos = 0 /\ cache'.last_tok = -1
    <3>1. <<>> \in Seq(Row) /\ Len(<<>>) = 0 /\ 0 <= MaxCtx BY SizesAreNat
    <3> QED BY <2>1, <3>1 DEF Inv, CacheOK, IsCache
  <2>3. CacheOK' BY <2>2 DEF CacheOK
  <2> HIDE DEF sn
  <2>4. job' = Fresh(req, sn) /\ Opens(job', req, 0, sn) BY <1>1, <2>1, FreshFacts DEF Fresh
  <2>5. ~Is("qwen35") BY DEF Is
  <2> QED BY <1>1, <1>2, <1>3, <1>5, <2>2, <2>3, <2>4, <2>5, BeginsOK
<1> QED BY <1>4, <1>5

LEMMA Qwen3GenerateOK ==
  ASSUME Inv, NEW req, IsRequest(req), Is("qwen3"), "target" \notin parked, Qwen3Generate(req),
         UNCHANGED <<config, parked, drafter>>
  PROVE  Inv'
<1> DEFINE sn == req.snap_slot # NoSlot
<1>1. /\ cache' = [cache EXCEPT !.cur_pos = 0]
      /\ job' = [Idle EXCEPT !.at = "prefill", !.req = req, !.exact = TRUE, !.snap = sn]
      /\ stream' = <<>> /\ UNCHANGED <<mirror, snaps, named>> /\ sn \in BOOLEAN
      /\ sn => req.snap_slot # NoSlot
  BY DEF Qwen3Generate
<1>2. IsCache(cache') /\ cache'.cur_pos = 0 /\ cache'.last_tok = cache.last_tok
  BY <1>1 DEF Inv, CacheOK, IsCache
<1>3. LastKnown' BY DEF LastKnown, Is
<1>4. CacheOK' BY <1>2 DEF Inv, CacheOK
<1> HIDE DEF sn
<1>5. job' = Fresh(req, sn) /\ Opens(job', req, 0, sn) BY <1>1, FreshFacts DEF Fresh
<1>6. ~Is("laguna") /\ ~Is("qwen35") /\ Is("qwen3") /\ 0 \in Nat BY DEF Is
<1>7. UNCHANGED <<config, mirror, parked, drafter, snaps, named>> BY <1>1
<1> QED BY ZenonT(40), <1>1, <1>3, <1>4, <1>5, <1>6, <1>7, BeginsOK

LEMMA Qwen35RestoreOK ==
  ASSUME Inv, NEW req, IsRequest(req), Is("qwen35"), "target" \notin parked, req.slot \in Slots,
         snaps[req.slot].used, NEW x \in BOOLEAN, Qwen35Restore(req, x),
         UNCHANGED <<config, parked, drafter>>
  PROVE  Inv'
<1>1. PICK s : s = snaps[req.slot] OBVIOUS
<1>2. Sound(s) /\ IsSnap(s) /\ s.cur_pos \in Nat /\ s.used
  BY <1>1 DEF Inv, SnapsOK, Sound, IsSnap
<1> DEFINE sn == req.snap_slot # NoSlot /\ Len(req.prompt) > s.cur_pos
<1>3. PICK r : r = restore_target_cache(s, cache) OBVIOUS
<1>4. PICK c : c = [r EXCEPT !.cur_pos = s.cur_pos] OBVIOUS
<1>5. PICK i : i = Begun(req, s.cur_pos, x, sn) OBVIOUS
<1>6. UNCHANGED <<mirror, snaps, named>> /\ sn \in BOOLEAN /\ (sn => req.snap_slot # NoSlot)
  BY DEF Qwen35Restore
<1>7. cache' = c /\ (\/ job' = [i EXCEPT !.at = "returned", !.ok = FALSE] /\ stream' = <<-1>>
                     \/ Len(req.prompt) >= s.cur_pos /\ job' = i /\ stream' = <<>>)
  BY <1>1, <1>2, <1>3, <1>4, <1>5 DEF Qwen35Restore, Begun
<1>8. IsCache(c) /\ c.cur_pos = s.cur_pos /\ c.last_tok \in Tokens
  <2>1. IsCache(cache) /\ IsSnap(s) BY <1>2 DEF Inv, CacheOK
  <2>2. IsCache(r) /\ r.last_tok = IF s.thin THEN cache.last_tok ELSE s.last_tok
    <3>1. PICK d : d = cache OBVIOUS
    <3>2. IsCache(d) BY <2>1, <3>1
    <3>3. IsSnap(s) BY <2>1
    <3>4. /\ IsCache(restore_target_cache(s, d))
          /\ restore_target_cache(s, d).last_tok = IF s.thin THEN d.last_tok ELSE s.last_tok
      BY ONLY <3>2, <3>3, RestoreType
    <3> QED BY <1>3, <3>1, <3>4
  <2>3. IsCache(c) /\ c.cur_pos = s.cur_pos /\ c.last_tok = r.last_tok
    BY <1>2, <1>4, <2>2 DEF IsCache
  <2>4. cache.last_tok \in Tokens BY <1>1, <1>2 DEF Inv, LastKnown
  <2> QED BY <1>2, <2>2, <2>3, <2>4 DEF Sound
<1>9. CacheOK' /\ LastKnown' BY <1>2, <1>7, <1>8 DEF CacheOK, LastKnown
<1>10. Len(req.prompt) \in Nat BY DEF IsRequest
<1> HIDE DEF sn
<1>11. CASE job' = [i EXCEPT !.at = "returned", !.ok = FALSE] /\ stream' = <<-1>>
  <2>1. stream' \in {<<>>, <<-1>>} /\ job' = [i EXCEPT !.at = "returned", !.ok = FALSE] BY <1>11
  <2>2. Opens(i, req, s.cur_pos, sn) BY <1>2, <1>5, <1>6, BegunFacts
  <2> QED BY <1>6, <1>9, <2>1, <2>2, FailsOK
<1>12. CASE Len(req.prompt) >= s.cur_pos /\ job' = i /\ stream' = <<>>
  <2>1. s.cur_pos <= Len(req.prompt) /\ cache'.cur_pos = s.cur_pos /\ ~Is("laguna") /\ stream' = <<>>
    BY <1>2, <1>7, <1>8, <1>10, <1>12 DEF Is
  <2>2. Opens(job', req, s.cur_pos, sn) BY <1>2, <1>5, <1>6, <1>12, BegunFacts
  <2> QED BY <1>2, <1>6, <1>9, <2>1, <2>2, BeginsOK
<1> QED BY <1>7, <1>11, <1>12

LEMMA Gemma4RestoreOK ==
  ASSUME Inv, NEW req, IsRequest(req), Is("gemma4"), req.slot \in Slots,
         snaps[req.slot].used, NEW x \in BOOLEAN, Gemma4RestoreAndGenerate(req, x),
         UNCHANGED <<config, parked, drafter>>
  PROVE  Inv'
<1>1. PICK s : s = snaps[req.slot] OBVIOUS
<1>2. IsSnap(s) /\ s.cur_pos \in Nat /\ s.used /\ s.last_tok \in Tokens \cup {-1}
  BY <1>1 DEF Inv, SnapsOK, Sound, IsSnap
<1> DEFINE sn == req.snap_slot # NoSlot
<1>3. PICK c : c = Gemma4Restore(s, cache) OBVIOUS
<1>4. PICK i : i = Begun(req, s.cur_pos, x, sn) OBVIOUS
<1>5. /\ UNCHANGED <<mirror, snaps, named>> /\ sn \in BOOLEAN /\ (sn => req.snap_slot # NoSlot)
      /\ LastKnown'
  BY DEF Gemma4RestoreAndGenerate, Inv, LastKnown, Is
<1>6. \/ /\ cache' \in {cache, c} /\ job' = [i EXCEPT !.at = "returned", !.ok = FALSE]
         /\ stream' \in {<<>>, <<-1>>}
      \/ /\ "target" \notin parked /\ cache' = c /\ ~(Len(req.prompt) < s.cur_pos)
         /\ job' = i /\ stream' = <<>>
  BY <1>1, <1>2, <1>3, <1>4 DEF Gemma4RestoreAndGenerate, Begun
<1>7. IsCache(c) /\ c.cur_pos = s.cur_pos /\ c.last_tok = s.last_tok
  BY <1>2, <1>3, RestoreType DEF Inv, CacheOK
<1>8. CacheOK' BY <1>2, <1>6, <1>7 DEF Inv, CacheOK
<1>9. Len(req.prompt) \in Nat BY DEF IsRequest
<1> HIDE DEF sn
<1>10. CASE job' = [i EXCEPT !.at = "returned", !.ok = FALSE] /\ stream' \in {<<>>, <<-1>>}
  <2>1. Opens(i, req, s.cur_pos, sn) BY <1>2, <1>4, <1>5, BegunFacts
  <2> QED BY <1>5, <1>8, <1>10, <2>1, FailsOK
<1>11. CASE "target" \notin parked /\ ~(Len(req.prompt) < s.cur_pos) /\ job' = i /\ stream' = <<>>
  <2>1. s.cur_pos <= Len(req.prompt) /\ ~Is("laguna") /\ ~Is("qwen35") /\ stream' = <<>>
        /\ "target" \notin parked
    BY <1>2, <1>9, <1>11 DEF Is
  <2>2. Opens(job', req, s.cur_pos, sn) BY <1>2, <1>4, <1>5, <1>11, BegunFacts
  <2> QED BY <1>2, <1>5, <1>8, <2>1, <2>2, BeginsOK
<1> QED BY <1>6, <1>10, <1>11

LEMMA LagunaRestoreOK ==
  ASSUME Inv, NEW req, IsRequest(req), Is("laguna"), "target" \notin parked, req.slot \in Slots,
         snaps[req.slot].used, NEW x \in BOOLEAN, LagunaRestore(req, x),
         UNCHANGED <<config, parked, drafter>>
  PROVE  Inv'
<1>1. PICK s : s = snaps[req.slot] OBVIOUS
<1>2. IsSnap(s) /\ s.cur_pos \in Nat /\ s.used /\ s.cur_pos <= Len(s.kv)
  BY <1>1 DEF Inv, SnapsOK, Sound, IsSnap
<1>3. Len(req.prompt) \in Nat \ {0} BY DEF IsRequest
<1>4. PICK k : k = LagunaFirst(s, req.prompt) OBVIOUS
<1>5. /\ k \in Nat /\ k # Len(req.prompt)
      /\ Len(req.prompt) >= s.cur_pos => k < Len(req.prompt)
  BY <1>2, <1>3, <1>4 DEF LagunaFirst
<1>6. PICK c : c = laguna_snapshot_restore(s, cache) OBVIOUS
<1>7. PICK i : i = [Idle EXCEPT !.at = "prefill", !.req = req, !.exact = x, !.committed = k] OBVIOUS
<1>8. UNCHANGED <<mirror, snaps, named>> /\ stream' = <<>> /\ LastKnown'
  BY DEF LagunaRestore, Inv, LastKnown, Is
<1>9. \/ /\ Len(req.prompt) >= s.cur_pos /\ cache' = [c EXCEPT !.cur_pos = k] /\ job' = i
      \/ cache' = c /\ job' = [i EXCEPT !.at = "returned", !.ok = FALSE, !.committed = 0]
  BY <1>1, <1>2, <1>4, <1>6, <1>7 DEF LagunaRestore
<1>10. IsCache(c) /\ c.cur_pos = s.cur_pos /\ c.last_tok = cache.last_tok
  BY ZenonT(40), <1>2, <1>6, RestoreType DEF Inv, CacheOK
<1>11. /\ IsJob(i) /\ i.at = "prefill" /\ i.req = req /\ i.n = 0 /\ i.committed = k /\ ~i.snap
  <2>1. IsJob(Idle) /\ Idle.n = 0 /\ ~Idle.snap BY IdleFacts DEF Idle
  <2> QED BY <1>5, <1>7, <2>1 DEF IsJob
<1>12. CASE cache' = c /\ job' = [i EXCEPT !.at = "returned", !.ok = FALSE, !.committed = 0]
  <2>1. IsJob(job') /\ job'.req = req /\ job'.at = "returned" /\ ~job'.ok
    <3>1. job' = [i EXCEPT !.at = "returned", !.ok = FALSE, !.committed = 0] BY <1>12
    <3> QED BY <1>11, <3>1 DEF IsJob
  <2>2. CacheOK' BY <1>2, <1>10, <1>12 DEF Inv, CacheOK
  <2> QED BY <1>8, <2>1, <2>2, BeginOK
<1>13. CASE Len(req.prompt) >= s.cur_pos /\ cache' = [c EXCEPT !.cur_pos = k] /\ job' = i
  <2>1. IsCache(cache') /\ cache'.cur_pos = k /\ cache'.last_tok = cache.last_tok
    BY <1>10, <1>13 DEF IsCache
  <2>2. CacheOK' BY <1>5, <2>1 DEF Inv, CacheOK
  <2>3. k <= Len(req.prompt) /\ k # Len(req.prompt) /\ ~Is("qwen35") BY <1>3, <1>5, <1>13 DEF Is
  <2>4. Opens(job', req, k, FALSE) BY <1>11, <1>13 DEF Opens
  <2>5. FALSE \in BOOLEAN OBVIOUS
  <2> QED BY <1>5, <1>8, <2>1, <2>2, <2>3, <2>4, <2>5, BeginsOK
<1> QED BY <1>9, <1>12, <1>13

LEMMA Qwen3RestoreOK ==
  ASSUME Inv, NEW req, IsRequest(req), Is("qwen3"), "target" \notin parked, req.slot \in Slots,
         snaps[req.slot].used, NEW x \in BOOLEAN, Qwen3RestoreAndGenerate(req, x),
         UNCHANGED <<config, parked, drafter>>
  PROVE  Inv'
<1>1. PICK s : s = snaps[req.slot] OBVIOUS
<1>2. IsSnap(s) /\ s.cur_pos \in Nat /\ s.used
  BY <1>1 DEF Inv, SnapsOK, Sound, IsSnap
<1> DEFINE sn == req.snap_slot # NoSlot
<1>3. PICK i : i = Begun(req, s.cur_pos, x, sn) OBVIOUS
<1>4. /\ UNCHANGED <<mirror, snaps, named>> /\ LastKnown' /\ sn \in BOOLEAN
      /\ cache' = Qwen3Restore(s, cache) /\ job' = i /\ stream' = <<>>
  BY <1>1, <1>2, <1>3 DEF Qwen3RestoreAndGenerate, Inv, LastKnown, Is, Begun
<1>5. CacheOK' BY <1>2, <1>4, RestoreType DEF Inv, CacheOK
<1> HIDE DEF sn
<1>6. ~Is("laguna") /\ ~Is("qwen35") /\ (sn => req.snap_slot # NoSlot) BY DEF Is, sn
<1>7. Opens(job', req, s.cur_pos, sn) BY <1>2, <1>3, <1>4, BegunFacts
<1> QED BY <1>2, <1>4, <1>5, <1>6, <1>7, BeginsOK

\* A request is refused, and answered so, or let through.
LEMMA CommandCases ==
  ASSUME Inv, Command
  PROVE  /\ UNCHANGED <<config, parked, drafter>>
         /\ \/ \E via : /\ job' = Answered(via, FALSE) /\ UNCHANGED <<cache, mirror, snaps, named>>
                        /\ stream' = <<-1>> \/ (stream' = <<>> /\ via \notin {"bare", "restore"})
            \/ \E req : /\ IsRequest(req) /\ \E r \in Requests : req.prompt = r.prompt
                        /\ "target" \notin parked \/ Is("gemma4")
                        /\ \/ generate(req) /\ req.slot = NoSlot
                           \/ /\ restore_and_generate(req)
                              /\ req.slot \in Slots /\ snaps[req.slot].used
<1>1. PICK r \in Requests, via \in Vias, slot \in Slots :
        LET req == [via |-> IF via = "http_restore" THEN "http" ELSE via,
                    prompt |-> r.prompt, n_gen |-> r.n_gen,
                    snap_pos |-> r.snap_pos, snap_slot |-> r.snap_slot,
                    slot |-> IF via \in Restores THEN slot ELSE NoSlot]
        IN  /\ job.at = "idle" /\ commands < MaxCommands
            /\ via = "legacy" => r.snap_slot = NoSlot
            /\ via = "http_restore" => snaps[slot].used
            /\ req.via = "http" => "target" \notin parked \/ Is("gemma4")
            /\ r.snap_slot # NoSlot => ~snaps[r.snap_slot].thin
            /\ commands' = commands + 1
            /\ IF via \in Daemon /\ Refused(req)
               THEN /\ job' = Answered(via, FALSE)
                    /\ stream' = IF via = "legacy" /\ "target" \notin parked THEN <<>> ELSE <<-1>>
                    /\ UNCHANGED <<cache, mirror, snaps, named>>
               ELSE IF via \in Restores THEN restore_and_generate(req) ELSE generate(req)
            /\ UNCHANGED <<config, parked, drafter>>
  BY Zenon DEF Command
<1>2. PICK req : req = [via |-> IF via = "http_restore" THEN "http" ELSE via,
                    prompt |-> r.prompt, n_gen |-> r.n_gen,
                    snap_pos |-> r.snap_pos, snap_slot |-> r.snap_slot,
                    slot |-> IF via \in Restores THEN slot ELSE NoSlot]
  OBVIOUS
<1>3. /\ via = "http_restore" => snaps[slot].used
      /\ req.via = "http" => "target" \notin parked \/ Is("gemma4")
      /\ IF via \in Daemon /\ Refused(req)
         THEN /\ job' = Answered(via, FALSE)
              /\ stream' = IF via = "legacy" /\ "target" \notin parked THEN <<>> ELSE <<-1>>
              /\ UNCHANGED <<cache, mirror, snaps, named>>
         ELSE IF via \in Restores THEN restore_and_generate(req) ELSE generate(req)
      /\ UNCHANGED <<config, parked, drafter>>
  BY <1>1, <1>2
<1>4. via \in {"bare", "legacy", "restore", "http", "http_restore"} BY ViasAssumption
<1>5. CASE via \in Daemon /\ Refused(req)
  <2>1. /\ job' = Answered(via, FALSE) /\ UNCHANGED <<cache, mirror, snaps, named>>
        /\ stream' = <<-1>> \/ (stream' = <<>> /\ via \notin {"bare", "restore"})
    BY <1>3, <1>5
  <2> QED BY <1>3, <2>1
<1>6. CASE ~(via \in Daemon /\ Refused(req))
  <2>1. IF via \in Restores THEN restore_and_generate(req) ELSE generate(req) BY <1>3, <1>6
  <2>2. "target" \notin parked \/ Is("gemma4")
    BY <1>2, <1>3, <1>4, <1>6 DEF Daemon, Refused
  <2>3. IsRequest(req)
    <3>1. /\ r.prompt \in Seq(Tokens) /\ r.prompt # <<>> /\ r.n_gen \in Nat
          /\ Len(r.prompt) + r.n_gen <= MaxCtx
          /\ r.snap_slot \in Slots \cup {NoSlot}
          /\ r.snap_slot # NoSlot => r.snap_pos \in Nat \ {0}
      BY RequestsAssumption
    <3>2. req.via # "http" => req.n_gen > 0
      BY <1>2, <1>4, <1>6, <3>1 DEF Daemon, Refused
    <3>3. req.via \in {"bare", "restore", "legacy", "http"} BY <1>2, <1>4
    <3> QED BY <1>2, <3>1, <3>2, <3>3 DEF IsRequest
  <2>4. \E p \in Requests : req.prompt = p.prompt BY <1>2
  <2>5. CASE via \in Restores
    <3>1. req.slot \in Slots /\ snaps[req.slot].used
      BY <1>2, <1>3, <1>4, <1>6, <2>5 DEF Restores, Daemon, Refused
    <3>2. restore_and_generate(req) BY <2>1, <2>5
    <3> QED BY <1>3, <2>2, <2>3, <2>4, <3>1, <3>2
  <2>6. CASE via \notin Restores
    <3>1. generate(req) /\ req.slot = NoSlot BY <1>2, <2>1, <2>6
    <3> QED BY <1>3, <2>2, <2>3, <2>4, <3>1
  <2> QED BY <2>5, <2>6
<1> QED BY <1>5, <1>6

LEMMA CommandOK == ASSUME Inv, Command PROVE Inv'
<1> USE DEF Inv
<1>1. UNCHANGED <<config, parked, drafter>> BY CommandCases
<1>2. ASSUME NEW via, job' = Answered(via, FALSE), UNCHANGED <<cache, mirror, snaps, named>>,
             stream' = <<-1>> \/ (stream' = <<>> /\ via \notin {"bare", "restore"})
      PROVE  Inv'
  <2>1. JobOK' /\ StreamOK' /\ job'.committed = 0 /\ job'.at = "answered" BY <1>2, AnsweredOK
  <2>2. SnapsOK' /\ ProcessOK' BY <1>1, <1>2, SameSnaps, SameProcess DEF ProcessOK
  <2>3. CacheOK' BY <1>2 DEF CacheOK
  <2>4. LastKnown'
    <3>1. job'.at = "answered" /\ job'.committed = 0 /\ cache' = cache /\ snaps' = snaps /\ config' = config
      BY <1>1, <1>2, <2>1
    <3> QED BY <3>1 DEF LastKnown, Is
  <2> QED BY <2>1, <2>2, <2>3, <2>4
<1>3. config.kind \in {"qwen35", "gemma4", "laguna", "qwen3"} BY KindsAssumption DEF ProcessOK
<1>4. ASSUME NEW req, IsRequest(req), "target" \notin parked \/ Is("gemma4"),
             restore_and_generate(req), req.slot \in Slots, snaps[req.slot].used
      PROVE  Inv'
  <2>1. PICK x \in BOOLEAN : x = Matches(req)
    <3>1. Matches(req) \in BOOLEAN BY DEF Matches
    <3> QED BY <3>1
  <2>2. CASE Is("qwen35")
    <3>1. Qwen35Restore(req, x) /\ "target" \notin parked
      BY <1>4, <2>1, <2>2 DEF restore_and_generate, Is
    <3> QED BY <1>1, <1>4, <2>2, <3>1, Qwen35RestoreOK
  <2>3. CASE Is("gemma4")
    <3>1. Gemma4RestoreAndGenerate(req, x) BY <1>4, <2>1, <2>3 DEF restore_and_generate, Is
    <3> QED BY <1>1, <1>4, <2>3, <3>1, Gemma4RestoreOK
  <2>4. CASE Is("laguna")
    <3>1. LagunaRestore(req, x) /\ "target" \notin parked
      BY <1>4, <2>1, <2>4 DEF restore_and_generate, Is
    <3> QED BY <1>1, <1>4, <2>4, <3>1, LagunaRestoreOK
  <2>5. CASE Is("qwen3")
    <3>1. Qwen3RestoreAndGenerate(req, x) /\ "target" \notin parked
      BY <1>4, <2>1, <2>5 DEF restore_and_generate, Is
    <3> QED BY <1>1, <1>4, <2>5, <3>1, Qwen3RestoreOK
  <2> QED BY <1>3, <2>2, <2>3, <2>4, <2>5 DEF Is
<1>5. ASSUME NEW req, IsRequest(req), "target" \notin parked \/ Is("gemma4"), generate(req) PROVE Inv'
  <2>1. CASE Is("qwen35")
    <3>1. Qwen35Generate(req) /\ "target" \notin parked BY <1>5, <2>1 DEF generate, Is
    <3> QED BY <1>1, <1>5, <2>1, <3>1, Qwen35GenerateOK
  <2>2. CASE Is("gemma4")
    <3>1. Gemma4Generate(req) BY <1>5, <2>2 DEF generate, Is
    <3> QED BY <1>1, <1>5, <2>2, <3>1, Gemma4GenerateOK
  <2>3. CASE Is("laguna")
    <3>1. LagunaGenerate(req) /\ "target" \notin parked BY <1>5, <2>3 DEF generate, Is
    <3> QED BY <1>1, <1>5, <2>3, <3>1, LagunaGenerateOK
  <2>4. CASE Is("qwen3")
    <3>1. Qwen3Generate(req) /\ "target" \notin parked BY <1>5, <2>4 DEF generate, Is
    <3> QED BY <1>1, <1>5, <2>4, <3>1, Qwen3GenerateOK
  <2> QED BY <1>3, <2>1, <2>2, <2>3, <2>4 DEF Is
<1> HIDE DEF Inv
<1> QED BY <1>2, <1>4, <1>5, CommandCases

-----------------------------------------------------------------------------
(* The other commands *)

\* An answered command that saved no token qwen35 does not know.
LEMMA LastAnswered ==
  ASSUME LastKnown, job'.at = "answered", job'.committed = 0, config' = config,
         cache'.cur_pos = cache.cur_pos, cache'.last_tok = cache.last_tok,
         Is("qwen35") => \A s \in Slots : snaps'[s].used => snaps[s].used \/ cache.last_tok \in Tokens
  PROVE  LastKnown'
BY DEF LastKnown, Is

\* One slot is filled or emptied.
LEMMA OneSlot ==
  ASSUME SnapsOK, NEW slot \in Slots, NEW s, Sound(s), NEW x, config' = config,
         snaps' = [snaps EXCEPT ![slot] = s], named' = [named EXCEPT ![slot] = x]
  PROVE  SnapsOK' /\ \A t \in Slots : snaps'[t] = IF t = slot THEN s ELSE snaps[t]
<1>1. \A t \in Slots : snaps'[t] = IF t = slot THEN s ELSE snaps[t] BY DEF SnapsOK
<1>2. /\ snaps' = [t \in Slots |-> snaps'[t]] /\ named' = [t \in Slots |-> named'[t]]
  BY DEF SnapsOK
<1>3. ASSUME NEW t \in Slots PROVE Sound(snaps'[t]) BY <1>1 DEF SnapsOK
<1> QED BY <1>1, <1>2, <1>3 DEF SnapsOK, Sound, Is

LEMMA AfterParkOK ==
  ASSUME CacheOK, SnapsOK, LastKnown, NEW p, AfterPark(p), config' = config,
         job'.at = "answered", job'.committed = 0
  PROVE  CacheOK' /\ SnapsOK' /\ LastKnown'
<1>1. CASE Is("gemma4") /\ "target" \in p \ parked
  <2>1. /\ cache' = Gemma4Cache(FALSE) /\ snaps' = [s \in Slots |-> NoSnap]
        /\ named' = [s \in Slots |-> <<>>]
    BY <1>1 DEF AfterPark
  <2>2. CacheOK'
    <3>1. IsCache(cache') /\ cache'.cur_pos = 0 /\ cache'.last_tok = -1
      <4>1. PICK b : b = FALSE OBVIOUS
      <4>2. IsCache(Gemma4Cache(b)) /\ Gemma4Cache(b).cur_pos = 0 /\ Gemma4Cache(b).last_tok = -1
        BY NewCaches
      <4> QED BY <2>1, <4>1, <4>2
    <3> QED BY <3>1 DEF CacheOK
  <2>3. SnapsOK' BY <2>1, NoSnapSound DEF SnapsOK, Sound, Is
  <2>4. LastKnown' BY <1>1 DEF LastKnown, Is
  <2> QED BY <2>2, <2>3, <2>4
<1>2. CASE ~(Is("gemma4") /\ "target" \in p \ parked)
  <2>1. /\ cache' = IF Is("laguna") /\ "target" \in p \ parked THEN LagunaCache ELSE cache
        /\ UNCHANGED <<snaps, named>>
    BY <1>2 DEF AfterPark, KeepSnaps
  <2>2. CacheOK' BY <2>1, NewCaches DEF CacheOK
  <2>3. SnapsOK' BY <2>1, SameSnaps
  <2>4. LastKnown'
    <3>1. CASE Is("laguna") BY <3>1 DEF LastKnown, Is
    <3>2. CASE ~Is("laguna") BY <2>1, <3>2, LastAnswered
    <3> QED BY <3>1, <3>2
  <2> QED BY <2>2, <2>3, <2>4
<1> QED BY <1>1, <1>2

\* The sets of models parking works with.
IsParked(p) == p \subseteq {"target", "draft"} /\ (~Is("qwen35") => "draft" \notin p)

LEMMA Qwen35UnparkFacts ==
  ASSUME NEW p \in SUBSET {"target", "draft"}, NEW what, NEW r \in Qwen35Unpark(p, what)
  PROVE  /\ r \in [parked: SUBSET p, ok: BOOLEAN]
         /\ r.ok /\ what = "target" => r.parked = p \ {"target"}
         /\ r.ok /\ what = "draft" /\ config.draft => r.parked = p \ {"draft"}
<1> DEFINE wants(w) == what \in {"", "all", w}
           p1 == IF wants("target") THEN p \ {"target"} ELSE p
           p2 == IF wants("draft") /\ config.draft THEN p1 \ {"draft"} ELSE p1
<1>1. r \in {[parked |-> p2, ok |-> TRUE], [parked |-> p, ok |-> FALSE], [parked |-> p1, ok |-> FALSE]}
  BY DEF Qwen35Unpark
<1>2. p1 \in SUBSET p /\ p2 \in SUBSET p /\ p \in SUBSET p OBVIOUS
<1>3. what = "target" => p2 = p \ {"target"} OBVIOUS
<1>4. what = "draft" /\ config.draft => p2 = p \ {"draft"} OBVIOUS
<1> HIDE DEF p1, p2, wants
<1>5. CASE r = [parked |-> p2, ok |-> TRUE] BY <1>2, <1>3, <1>4, <1>5
<1>6. CASE r = [parked |-> p, ok |-> FALSE] BY <1>2, <1>6
<1>7. CASE r = [parked |-> p1, ok |-> FALSE] BY <1>2, <1>7
<1> QED BY <1>1, <1>5, <1>6, <1>7

LEMMA Outcome ==
  ASSUME NEW a, NEW b \in BOOLEAN, NEW r, r = [parked |-> a, ok |-> b]
  PROVE  r.parked = a /\ r.ok \in BOOLEAN
OBVIOUS

LEMMA UnparkFacts ==
  ASSUME ProcessOK, NEW p, IsParked(p), NEW what, NEW r \in unpark(p, what)
  PROVE  IsParked(r.parked) /\ r.ok \in BOOLEAN
<1>1. config.kind \in {"qwen35", "gemma4", "laguna", "qwen3"} BY KindsAssumption DEF ProcessOK
<1>2. CASE Is("qwen35")
  <2>1. r \in Qwen35Unpark(p, what) BY <1>2 DEF unpark, Is
  <2>2. p \in SUBSET {"target", "draft"} BY DEF IsParked
  <2>3. r \in [parked: SUBSET p, ok: BOOLEAN] BY <2>1, <2>2, Qwen35UnparkFacts
  <2>4. r.parked \subseteq p /\ r.ok \in BOOLEAN BY <2>3
  <2> QED BY <1>2, <2>2, <2>4 DEF IsParked
<1>3. CASE Is("gemma4")
  <2>1. r \in {[parked |-> {}, ok |-> TRUE], [parked |-> p, ok |-> FALSE]}
    BY <1>3 DEF unpark, Gemma4Unpark, Is
  <2>2. (r.parked = {} \/ r.parked = p) /\ r.ok \in BOOLEAN BY <2>1, Outcome
  <2> QED BY <2>2 DEF IsParked
<1>4. CASE Is("laguna")
  <2>1. r \in {[parked |-> p \ {"target"}, ok |-> TRUE], [parked |-> p, ok |-> FALSE],
               [parked |-> p, ok |-> TRUE]}
    BY <1>4 DEF unpark, LagunaUnpark, Is
  <2>2. (r.parked = p \ {"target"} \/ r.parked = p) /\ r.ok \in BOOLEAN BY <2>1, Outcome
  <2> QED BY <2>2 DEF IsParked
<1>5. CASE Is("qwen3")
  <2>1. r \in {[parked |-> p \ {"target"}, ok |-> TRUE], [parked |-> p, ok |-> FALSE],
               [parked |-> p, ok |-> TRUE]}
    BY <1>5 DEF unpark, Qwen3Unpark, Is
  <2>2. (r.parked = p \ {"target"} \/ r.parked = p) /\ r.ok \in BOOLEAN BY <2>1, Outcome
  <2> QED BY <2>2 DEF IsParked
<1> QED BY <1>1, <1>2, <1>3, <1>4, <1>5 DEF Is

LEMMA ParkFacts ==
  ASSUME ProcessOK, NEW what PROVE IsParked(park(what))
<1>1. config.kind \in {"qwen35", "gemma4", "laguna", "qwen3"} BY KindsAssumption DEF ProcessOK
<1>2. CASE Is("qwen35")
  <2>1. park(what) = parked \cup {w \in {"target", "draft"} : what \in {"", "all", w}}
    BY <1>2 DEF park, Qwen35Park, Is
  <2> QED BY <1>2, <2>1 DEF IsParked, ProcessOK
<1>3. CASE Is("gemma4")
  BY <1>3 DEF park, Gemma4Park, IsParked, Is
<1>4. CASE Is("laguna")
  BY <1>4 DEF park, LagunaPark, IsParked, Is, ProcessOK
<1>5. CASE Is("qwen3")
  BY <1>5 DEF park, Qwen3Park, IsParked, Is, ProcessOK
<1> QED BY <1>1, <1>2, <1>3, <1>4, <1>5 DEF Is

\* compress brings back what it parked, if every load succeeds.
Compressed(r, loads) ==
  /\ IsParked(r.parked) /\ r.ok \in BOOLEAN
  /\ r.ok /\ loads /\ (config.draft \/ ~Is("qwen35")) => r.parked = parked

LEMMA Qwen35CompressFacts ==
  ASSUME ProcessOK, Is("qwen35"), NEW nopark, NEW r \in Qwen35Compress(nopark)
  PROVE  Compressed(r, TRUE)
<1>1. CASE nopark
  <2>1. r = [parked |-> parked, ok |-> TRUE] BY <1>1 DEF Qwen35Compress
  <2>2. r.parked = parked /\ r.ok = TRUE BY <2>1
  <2> QED BY <2>2 DEF Compressed, IsParked, ProcessOK
<1>2. CASE ~nopark
  <2> DEFINE p == {"target", "draft"}
             first == IF "target" \in parked THEN {[parked |-> p, ok |-> TRUE]}
                      ELSE Qwen35Unpark(p, "target")
  <2>1. PICK f \in first : r \in IF "draft" \in parked THEN {f}
                    ELSE {[u EXCEPT !.ok = @ /\ f.ok] : u \in Qwen35Unpark(f.parked, "draft")}
    BY <1>2 DEF Qwen35Compress
  <2>2. /\ f \in [parked: SUBSET p, ok: BOOLEAN]
        /\ f.ok => f.parked = IF "target" \in parked THEN p ELSE p \ {"target"}
    <3>1. CASE "target" \in parked
      <4>1. f = [parked |-> p, ok |-> TRUE] BY <3>1
      <4>2. p \in SUBSET p OBVIOUS
      <4> HIDE DEF p, first
      <4> QED BY <3>1, <4>1, <4>2
    <3>2. CASE "target" \notin parked
      <4>1. f \in Qwen35Unpark(p, "target") BY <3>2
      <4>2. p \in SUBSET {"target", "draft"} OBVIOUS
      <4> HIDE DEF first, p
      <4> QED BY <3>2, <4>1, <4>2, Qwen35UnparkFacts DEF p
    <3> QED BY <3>1, <3>2
  <2> HIDE DEF first
  <2>3. parked \subseteq {"target", "draft"} BY DEF ProcessOK
  <2>4. CASE "draft" \in parked
    <3>1. r = f BY <2>1, <2>4
    <3>2. f.ok => f.parked = parked BY ZenonT(40), <2>2, <2>3, <2>4
    <3> QED BY <1>2, <2>2, <3>1, <3>2 DEF Compressed, IsParked
  <2>5. CASE "draft" \notin parked
    <3>1. PICK u \in Qwen35Unpark(f.parked, "draft") : r = [u EXCEPT !.ok = @ /\ f.ok]
      BY <2>1, <2>5
    <3>2. f.parked \in SUBSET {"target", "draft"} BY <2>2
    <3>3. /\ u \in [parked: SUBSET f.parked, ok: BOOLEAN]
          /\ u.ok /\ config.draft => u.parked = f.parked \ {"draft"}
      BY <3>2, Qwen35UnparkFacts
    <3>4. r.parked = u.parked /\ r.ok = (u.ok /\ f.ok) BY <3>1, <3>3
    <3>5. u.parked \subseteq {"target", "draft"} /\ r.ok \in BOOLEAN BY <2>2, <3>2, <3>3, <3>4
    <3>6. ASSUME r.ok, config.draft PROVE r.parked = parked
      <4>1. u.ok /\ f.ok BY <2>2, <3>3, <3>4, <3>6
      <4>2. f.parked = IF "target" \in parked THEN p ELSE p \ {"target"} BY <2>2, <4>1
      <4>3. r.parked = f.parked \ {"draft"} BY <3>3, <3>4, <3>6, <4>1
      <4> QED BY <2>3, <2>5, <4>2, <4>3
    <3> QED BY <3>4, <3>5, <3>6 DEF Compressed, IsParked
  <2> QED BY <2>4, <2>5
<1> QED BY <1>1, <1>2

LEMMA CompressFacts ==
  ASSUME ProcessOK, NEW nopark, NEW loads \in BOOLEAN,
         NEW r \in CASE Is("qwen35") -> Qwen35Compress(nopark)
                     [] Is("gemma4") -> Gemma4Compress(nopark)
                     [] Is("laguna") -> LagunaCompress(loads)
                     [] Is("qwen3")  -> Qwen3Compress(nopark)
  PROVE  Compressed(r, loads)
<1>1. config.kind \in {"qwen35", "gemma4", "laguna", "qwen3"} BY KindsAssumption DEF ProcessOK
<1>2. CASE Is("qwen35")
  <2>1. r \in Qwen35Compress(nopark) BY <1>2 DEF Is
  <2>2. Compressed(r, TRUE) BY <1>2, <2>1, Qwen35CompressFacts
  <2> QED BY <2>2 DEF Compressed
<1>3. CASE Is("gemma4")
  <2>1. r \in Gemma4Compress(nopark) BY <1>3 DEF Is
  <2>2. IsParked(parked) /\ "draft" \notin parked BY <1>3 DEF ProcessOK, IsParked, Is
  <2>3. CASE nopark \/ "target" \in parked
    <3>1. r = [parked |-> parked, ok |-> TRUE] BY <2>1, <2>3 DEF Gemma4Compress
    <3> QED BY <2>2, <3>1 DEF Compressed
  <2>4. CASE ~(nopark \/ "target" \in parked)
    <3>1. r \in {[parked |-> {}, ok |-> TRUE], [parked |-> {"target"}, ok |-> FALSE]}
      BY <2>1, <2>4 DEF Gemma4Compress, Gemma4Unpark
    <3>2. parked = {} BY <2>2, <2>4 DEF ProcessOK
    <3>3. (r.parked = {} /\ r.ok = TRUE) \/ (r.parked = {"target"} /\ r.ok = FALSE)
      BY <3>1, <3>2
    <3> QED BY <1>3, <3>2, <3>3 DEF Compressed, IsParked
  <2> QED BY <2>3, <2>4
<1>4. CASE Is("laguna")
  <2>1. r \in LagunaCompress(loads) BY <1>4 DEF Is
  <2>2. IsParked(parked) /\ "draft" \notin parked BY <1>4 DEF ProcessOK, IsParked, Is
  <2>3. CASE "target" \in parked
    <3>1. r = [parked |-> parked, ok |-> loads] BY <2>1, <2>3 DEF LagunaCompress
    <3> QED BY <2>2, <3>1 DEF Compressed
  <2>4. CASE "target" \notin parked
    <3>1. r \in {[parked |-> {"target"} \ {"target"}, ok |-> TRUE], [parked |-> {"target"}, ok |-> FALSE]}
      BY <2>1, <2>4 DEF LagunaCompress, LagunaUnpark
    <3>2. parked = {} /\ {"target"} \ {"target"} = {} BY <2>2, <2>4 DEF ProcessOK
    <3>3. (r.parked = {} /\ r.ok = TRUE) \/ (r.parked = {"target"} /\ r.ok = FALSE)
      BY <3>1, <3>2
    <3> QED BY <1>4, <3>2, <3>3 DEF Compressed, IsParked
  <2> QED BY <2>3, <2>4
<1>5. CASE Is("qwen3")
  <2>1. r \in Qwen3Compress(nopark) BY <1>5 DEF Is
  <2>2. IsParked(parked) /\ "draft" \notin parked BY <1>5 DEF ProcessOK, IsParked, Is
  <2>3. CASE nopark \/ "target" \in parked
    <3>1. r = [parked |-> parked, ok |-> TRUE] BY <2>1, <2>3 DEF Qwen3Compress
    <3> QED BY <2>2, <3>1 DEF Compressed
  <2>4. CASE ~(nopark \/ "target" \in parked)
    <3>1. r \in {[parked |-> {"target"} \ {"target"}, ok |-> TRUE], [parked |-> {"target"}, ok |-> FALSE]}
      BY <2>1, <2>4 DEF Qwen3Compress, Qwen3Unpark
    <3>2. parked = {} /\ {"target"} \ {"target"} = {} BY <2>2, <2>4 DEF ProcessOK
    <3>3. (r.parked = {} /\ r.ok = TRUE) \/ (r.parked = {"target"} /\ r.ok = FALSE)
      BY <3>1, <3>2
    <3> QED BY <1>5, <3>2, <3>3 DEF Compressed, IsParked
  <2> QED BY <2>3, <2>4
<1> QED BY <1>1, <1>2, <1>3, <1>4, <1>5 DEF Is

\* A command that parks or unparks.
LEMMA ProcessNext ==
  ASSUME ProcessOK, UNCHANGED <<config, mirror>>, IsParked(parked'), drafter' \in BOOLEAN
  PROVE  ProcessOK'
BY DEF ProcessOK, IsParked, Is

LEMMA ParkOK == ASSUME Inv, NEW what, Park(what) PROVE Inv'
<1> USE DEF Inv
<1>1. /\ parked' = park(what) /\ AfterPark(parked') /\ job' = Answered("park", TRUE)
      /\ stream' = <<-1>> /\ UNCHANGED <<config, mirror, drafter>>
  BY DEF Park
<1>2. TRUE \in BOOLEAN /\ "park" \notin {"bare", "restore"} OBVIOUS
<1>3. JobOK' /\ StreamOK' /\ job'.committed = 0 /\ job'.at = "answered" BY <1>1, <1>2, AnsweredOK
<1>4. IsParked(parked') BY <1>1, ParkFacts
<1>5. ProcessOK' BY <1>1, <1>4, ProcessNext DEF ProcessOK
<1>6. CacheOK' /\ SnapsOK' /\ LastKnown'
  <2>1. PICK p : p = parked' OBVIOUS
  <2>2. AfterPark(p) BY <1>1, <2>1
  <2> QED BY <1>1, <1>3, <2>2, AfterParkOK
<1> QED BY <1>3, <1>5, <1>6

LEMMA UnparkOK == ASSUME Inv, NEW what, Unpark(what) PROVE Inv'
<1> USE DEF Inv
<1>1. PICK r \in unpark(parked, what) : parked' = r.parked /\ job' = Answered("unpark", r.ok)
  BY DEF Unpark
<1>2. stream' = <<-1>> /\ UNCHANGED <<config, cache, mirror, snaps, named, drafter>> BY DEF Unpark
<1>3. IsParked(parked) BY DEF ProcessOK, IsParked
<1>4. IsParked(parked') /\ r.ok \in BOOLEAN
  <2>1. PICK p : p = parked OBVIOUS
  <2> QED BY <1>1, <1>3, <2>1, UnparkFacts
<1>5. JobOK' /\ StreamOK' /\ job'.committed = 0 /\ job'.at = "answered"
  BY <1>1, <1>2, <1>4, AnsweredOK
<1>6. ProcessOK' BY <1>2, <1>4, ProcessNext DEF ProcessOK
<1>7. CacheOK' /\ SnapsOK' /\ LastKnown' BY <1>2, <1>5, SameSnaps, LastAnswered DEF CacheOK
<1> QED BY <1>5, <1>6, <1>7

LEMMA FreeDrafterOK == ASSUME Inv, FreeDrafter PROVE Inv'
<1> USE DEF Inv
<1>1. /\ drafter' = FALSE /\ job' = Answered("free_drafter", TRUE) /\ stream' = <<-1>>
      /\ UNCHANGED <<config, cache, mirror, snaps, named, parked>>
  BY DEF FreeDrafter
<1>2. TRUE \in BOOLEAN /\ "free_drafter" \notin {"bare", "restore"} OBVIOUS
<1>3. JobOK' /\ StreamOK' /\ job'.committed = 0 /\ job'.at = "answered" BY <1>1, <1>2, AnsweredOK
<1>4. ProcessOK'
  <2>1. IsParked(parked') BY <1>1 DEF ProcessOK, IsParked
  <2> QED BY <1>1, <2>1, ProcessNext
<1>5. CacheOK' /\ SnapsOK' /\ LastKnown' BY <1>1, <1>3, SameSnaps, LastAnswered DEF CacheOK
<1> QED BY <1>3, <1>4, <1>5

LEMMA CompressOK ==
  ASSUME Inv, NEW nopark, Compress(nopark)
  PROVE  /\ Inv' /\ job'.req.via = "compress"
         /\ job'.ok /\ (config.draft \/ ~Is("qwen35")) => parked' = parked
<1> USE DEF Inv
<1>0. PICK loads \in IF drafter \/ ~MayFail("load") THEN {TRUE} ELSE BOOLEAN :
        \E r \in CASE Is("qwen35") -> Qwen35Compress(nopark)
                   [] Is("gemma4") -> Gemma4Compress(nopark)
                   [] Is("laguna") -> LagunaCompress(loads)
                   [] Is("qwen3")  -> Qwen3Compress(nopark) :
          /\ Takes("compress")
          /\ parked' = r.parked
          /\ drafter' = loads
          /\ AfterPark(IF nopark /\ ~Is("laguna") THEN parked ELSE {"target"} \cup parked)
          /\ job' = Answered("compress", loads /\ r.ok)
          /\ stream' = <<-1>>
          /\ UNCHANGED <<config, mirror>>
  BY Zenon DEF Compress
<1>1. PICK r \in CASE Is("qwen35") -> Qwen35Compress(nopark)
                 [] Is("gemma4") -> Gemma4Compress(nopark)
                 [] Is("laguna") -> LagunaCompress(loads)
                 [] Is("qwen3")  -> Qwen3Compress(nopark) :
        /\ parked' = r.parked /\ drafter' = loads
        /\ AfterPark(IF nopark /\ ~Is("laguna") THEN parked ELSE {"target"} \cup parked)
        /\ job' = Answered("compress", loads /\ r.ok)
        /\ stream' = <<-1>>
        /\ UNCHANGED <<config, mirror>>
  BY <1>0, Zenon
<1>2. loads \in BOOLEAN OBVIOUS
<1>3. Compressed(r, loads) BY <1>2, CompressFacts
<1>4. IsParked(parked') /\ (loads /\ r.ok) \in BOOLEAN BY <1>1, <1>2, <1>3 DEF Compressed
<1>5. PICK ok : ok = (loads /\ r.ok) OBVIOUS
<1>6. /\ JobOK' /\ StreamOK' /\ job'.committed = 0 /\ job'.at = "answered"
      /\ job'.req.via = "compress" /\ job'.ok = ok
  <2>1. ok \in BOOLEAN /\ job' = Answered("compress", ok) BY <1>1, <1>4, <1>5
  <2> QED BY <1>1, <2>1, AnsweredOK
<1>7. ProcessOK' BY <1>1, <1>2, <1>4, ProcessNext
<1>8. CacheOK' /\ SnapsOK' /\ LastKnown'
  <2>1. PICK p : p = IF nopark /\ ~Is("laguna") THEN parked ELSE {"target"} \cup parked OBVIOUS
  <2>2. AfterPark(p) BY <1>1, <2>1
  <2> QED BY <1>1, <1>6, <2>2, AfterParkOK
<1>9. job'.ok /\ (config.draft \/ ~Is("qwen35")) => parked' = parked
  BY <1>1, <1>3, <1>5, <1>6 DEF Compressed
<1> QED BY <1>6, <1>7, <1>8, <1>9

LEMMA SnapshotOK == ASSUME Inv, NEW slot \in Slots, SnapshotCmd(slot) PROVE Inv'
<1> USE DEF Inv
<1>1. PICK s \in Save(slot) :
        /\ snaps' = [snaps EXCEPT ![slot] = s]
        /\ named' = [named EXCEPT ![slot] = IF s = snaps[slot] THEN @ ELSE <<>>]
  BY DEF SnapshotCmd
<1>2. /\ cache.cur_pos <= MaxCtx /\ job.at = "idle" /\ job' = Answered("snapshot", TRUE)
      /\ UNCHANGED <<config, cache, mirror, parked, drafter, stream>>
  BY DEF SnapshotCmd, Takes
<1>3. job.at = "idle" => stream = <<>> BY DEF JobOK
<1>4. TRUE \in BOOLEAN /\ stream' = <<>> /\ "snapshot" \notin {"bare", "restore"} BY <1>2, <1>3
<1>5. JobOK' /\ StreamOK' /\ job'.committed = 0 /\ job'.at = "answered" BY <1>2, <1>4, AnsweredOK
<1>6. ProcessOK' BY <1>2, SameProcess DEF ProcessOK
<1>7. CacheOK' BY <1>2 DEF CacheOK
<1>8. PICK old : old = snaps[slot] OBVIOUS
<1>9. Sound(old) /\ cache.cur_pos \in Nat BY <1>8 DEF SnapsOK, CacheOK
<1>10. config.kind \in {"qwen35", "gemma4", "laguna", "qwen3"} BY KindsAssumption DEF ProcessOK
<1>11. Sound(s) /\ (Is("qwen35") => (s.used => old.used \/ cache.last_tok \in Tokens))
  <2>1. CASE Is("qwen35")
    <3>1. s \in Qwen35Save(old) BY <1>8, <2>1 DEF Save, Is
    <3> QED BY <1>2, <1>9, <2>1, <3>1, Qwen35SaveSound
  <2>2. CASE Is("gemma4")
    <3>1. PICK pos : pos = cache.cur_pos OBVIOUS
    <3>2. s \in Gemma4SaveAt(pos, old) /\ ~Is("qwen35") BY <1>8, <2>2, <3>1 DEF Save, Is
    <3>3. pos \in Nat /\ pos <= MaxCtx BY <1>2, <1>9, <3>1
    <3> QED BY <1>9, <2>2, <3>2, <3>3, Gemma4SaveSound
  <2>3. CASE Is("laguna")
    <3>1. s \in LagunaSave(old) /\ ~Is("qwen35") BY <1>8, <2>3 DEF Save, Is
    <3> QED BY <1>2, <1>9, <2>3, <3>1, LagunaSaveSound
  <2>4. CASE Is("qwen3")
    <3>1. PICK pos : pos = cache.cur_pos OBVIOUS
    <3>2. s \in Qwen3SaveAt(pos) /\ ~Is("qwen35") /\ pos \in Nat BY <1>9, <2>4, <3>1 DEF Save, Is
    <3> QED BY <2>4, <3>2, Qwen3SaveSound
  <2> QED BY <1>10, <2>1, <2>2, <2>3, <2>4 DEF Is
<1>12. PICK x : x = IF s = snaps[slot] THEN named[slot] ELSE <<>> OBVIOUS
<1>13. SnapsOK' /\ \A t \in Slots : snaps'[t] = IF t = slot THEN s ELSE snaps[t]
  <2>1. snaps' = [snaps EXCEPT ![slot] = s] /\ named' = [named EXCEPT ![slot] = x] BY <1>1, <1>12
  <2>2. config' = config /\ Sound(s) BY <1>2, <1>11
  <2> QED BY ONLY SnapsOK, slot \in Slots, <2>1, <2>2, OneSlot
<1>14. LastKnown'
  <2>1. Is("qwen35") => \A t \in Slots : snaps'[t].used => snaps[t].used \/ cache.last_tok \in Tokens
    BY <1>8, <1>11, <1>13
  <2> QED BY <1>2, <1>5, <2>1, LastAnswered
<1> QED BY <1>5, <1>6, <1>7, <1>13, <1>14

LEMMA FreeSnapshotOK == ASSUME Inv, NEW slot \in Slots, FreeSnapshot(slot) PROVE Inv'
<1> USE DEF Inv
<1>1. /\ snaps' = [snaps EXCEPT ![slot] = NoSnap] /\ named' = [named EXCEPT ![slot] = <<>>]
      /\ job.at = "idle" /\ job' = Answered("free_snapshot", TRUE)
      /\ UNCHANGED <<config, cache, mirror, parked, drafter, stream>>
  BY DEF FreeSnapshot, Takes
<1>2. job.at = "idle" => stream = <<>> BY DEF JobOK
<1>3. TRUE \in BOOLEAN /\ stream' = <<>> /\ "free_snapshot" \notin {"bare", "restore"} BY <1>1, <1>2
<1>4. JobOK' /\ StreamOK' /\ job'.committed = 0 /\ job'.at = "answered" BY <1>1, <1>3, AnsweredOK
<1>5. ProcessOK' /\ CacheOK' BY <1>1, SameProcess DEF ProcessOK, CacheOK
<1>6. SnapsOK' /\ \A t \in Slots : snaps'[t] = IF t = slot THEN NoSnap ELSE snaps[t]
  BY <1>1, NoSnapSound, OneSlot
<1>7. LastKnown'
  <2>1. ~NoSnap.used BY DEF NoSnap
  <2>2. \A t \in Slots : snaps'[t].used => snaps[t].used BY <1>6, <2>1
  <2> QED BY <1>1, <1>4, <2>2, LastAnswered
<1> QED BY <1>4, <1>5, <1>6, <1>7

LEMMA SnapshotThinOK == ASSUME Inv, NEW slot \in Slots, SnapshotThin(slot) PROVE Inv'
<1> USE DEF Inv
<1>1. PICK s \in IF cache.cur_pos <= 0 THEN {NoSnap}
                 ELSE WithAlloc(snapshot_target_cache_thin(cache), TRUE) :
        snaps' = [snaps EXCEPT ![slot] = s]
  BY DEF SnapshotThin
<1>2. /\ named' = [named EXCEPT ![slot] = <<>>] /\ Is("qwen35") /\ cache.cur_pos <= MaxCtx
      /\ job' = Answered("snapshot_thin", TRUE) /\ stream' = <<-1>>
      /\ UNCHANGED <<config, cache, mirror, parked, drafter>>
  BY DEF SnapshotThin
<1>3. TRUE \in BOOLEAN /\ "snapshot_thin" \notin {"bare", "restore"} OBVIOUS
<1>4. JobOK' /\ StreamOK' /\ job'.committed = 0 /\ job'.at = "answered" BY <1>2, <1>3, AnsweredOK
<1>5. ProcessOK' /\ CacheOK' BY <1>2, SameProcess DEF ProcessOK, CacheOK
<1>6. Sound(s) /\ (s.used => cache.last_tok \in Tokens)
  <2>1. CASE s = NoSnap BY <2>1, NoSnapSound DEF NoSnap
  <2>2. CASE s # NoSnap
    <3> DEFINE new == snapshot_target_cache_thin(cache)
    <3>1. s = new /\ ~(cache.cur_pos <= 0) BY <1>1, <2>2 DEF WithAlloc
    <3>2. IsSnap(new) BY <1>2, SaveType DEF CacheOK
    <3>3. new.thin BY DEF snapshot_target_cache_thin, NoSnap
    <3>4. cache.cur_pos > 0 BY <3>1 DEF CacheOK
    <3>5. cache.last_tok \in Tokens BY <1>2, <3>4 DEF LastKnown
    <3> HIDE DEF new
    <3> QED BY <1>2, <3>1, <3>2, <3>3, <3>5 DEF Sound, Is
  <2> QED BY <2>1, <2>2
<1>7. SnapsOK' /\ \A t \in Slots : snaps'[t] = IF t = slot THEN s ELSE snaps[t]
  <2>1. named' = [named EXCEPT ![slot] = <<>>] /\ config' = config BY <1>2
  <2> QED BY <1>1, <1>6, <2>1, OneSlot
<1>8. LastKnown'
  <2>1. \A t \in Slots : snaps'[t].used => snaps[t].used \/ cache.last_tok \in Tokens
    BY <1>6, <1>7
  <2> QED BY <1>2, <1>4, <2>1, LastAnswered
<1> QED BY <1>4, <1>5, <1>7, <1>8

-----------------------------------------------------------------------------
(* The steps together *)

LEMMA Stutter == ASSUME Inv, UNCHANGED vars PROVE Inv'
<1> USE DEF Inv
<1>1. /\ config' = config /\ cache' = cache /\ mirror' = mirror /\ snaps' = snaps /\ named' = named
      /\ parked' = parked /\ drafter' = drafter /\ job' = job /\ stream' = stream
  BY DEF vars
<1>2. ProcessOK' BY <1>1, SameProcess DEF ProcessOK
<1>3. CacheOK' BY <1>1 DEF CacheOK
<1>4. SnapsOK' BY <1>1, SameSnaps
<1>5. LastKnown' BY <1>1 DEF LastKnown, Is
<1>6. JobOK' BY <1>1 DEF JobOK, Is
<1>7. StreamOK' BY <1>1 DEF StreamOK, EndedAs, Streamed
<1> QED BY <1>2, <1>3, <1>4, <1>5, <1>6, <1>7

LEMMA WorkOK == ASSUME Inv, Work PROVE Inv'
<1>1. CASE Qwen35Next
  BY <1>1, Qwen35InlineSnapOK, Qwen35PrefillOK, Qwen35StartOK, Qwen35ArOK, Qwen35DraftOK,
     Qwen35CommitOK DEF Qwen35Next
<1>2. CASE Gemma4Next
  BY <1>2, Gemma4PrefillOK, Gemma4StartOK, Gemma4ArOK, Gemma4DraftOK, Gemma4CommitOK DEF Gemma4Next
<1>3. CASE LagunaNext
  BY <1>3, LagunaPrefillOK, LagunaStartOK, LagunaDecodeOK DEF LagunaNext
<1>4. CASE Qwen3Next
  BY <1>4, Qwen3PrefillOK, Qwen3FirstOK, Qwen3SecondOK, Qwen3DecodeOK DEF Qwen3Next
<1>5. CASE Reply BY <1>5, ReplyOK
<1>6. CASE Continue BY <1>6, ContinueOK
<1> QED BY <1>1, <1>2, <1>3, <1>4, <1>5, <1>6 DEF Work

LEMMA LinesOK == ASSUME Inv, Lines PROVE Inv'
<1>1. CASE \E what \in {"", "target", "draft"} : Park(what) \/ Unpark(what)
  BY <1>1, ParkOK, UnparkOK
<1>2. CASE FreeDrafter BY <1>2, FreeDrafterOK
<1>3. CASE \E nopark \in BOOLEAN : Compress(nopark) BY <1>3, CompressOK
<1>4. CASE \E slot \in Slots : SnapshotCmd(slot) \/ FreeSnapshot(slot) \/ SnapshotThin(slot)
  BY <1>4, SnapshotOK, FreeSnapshotOK, SnapshotThinOK
<1> QED BY <1>1, <1>2, <1>3, <1>4 DEF Lines

\* Every step keeps the invariant.
LEMMA NextOK == ASSUME Inv, [Next]_state PROVE Inv'
<1>1. CASE UNCHANGED state
  <2>1. UNCHANGED vars BY <1>1 DEF state
  <2> QED BY <2>1, Stutter
<1>2. CASE Quiet
  <2>1. UNCHANGED vars BY <1>2 DEF Quiet, state
  <2> QED BY <2>1, Stutter
<1>3. CASE Command BY <1>3, CommandOK
<1>4. CASE Lines BY <1>4, LinesOK
<1>5. CASE Work BY <1>5, WorkOK
<1> QED BY <1>1, <1>2, <1>3, <1>4, <1>5 DEF Next

\* The process starts in it.
LEMMA InitOK == ASSUME Init PROVE Inv
<1>1. /\ config \in {[kind |-> k, draft |-> d] : k \in Kinds, d \in BOOLEAN}
      /\ cache = NewCache(config.kind, config.draft) /\ mirror = Blank(RingCap, Junk)
      /\ snaps = [s \in Slots |-> NoSnap] /\ named = [s \in Slots |-> <<>>]
      /\ parked = {} /\ drafter = FALSE /\ job = Idle /\ stream = <<>>
  BY DEF Init
<1>2. config \in [kind: Kinds, draft: BOOLEAN] BY <1>1
<1>3. ProcessOK
  <2>1. RingCap \in Nat BY SizesAreNat
  <2>2. Len(Blank(RingCap, Junk)) = RingCap
    <3>1. PICK v : v = Junk OBVIOUS
    <3>2. v \in {v} OBVIOUS
    <3>3. Len(Blank(RingCap, v)) = RingCap BY <2>1, <3>2, BlankSeq
    <3> QED BY <3>1, <3>3
  <2> QED BY <1>1, <1>2, <2>2 DEF ProcessOK
<1>4. IsCache(cache) /\ cache.cur_pos = 0 /\ cache.last_tok = -1
  <2>1. config.kind \in {"qwen35", "gemma4", "laguna", "qwen3"} BY <1>2, KindsAssumption
  <2>2. PICK d : d = config.draft OBVIOUS
  <2>3. cache \in {Qwen35Cache, Gemma4Cache(d), LagunaCache, Qwen3Cache}
    BY <1>1, <2>1, <2>2 DEF NewCache
  <2> QED BY <2>3, NewCaches
<1>5. CacheOK BY <1>4 DEF CacheOK
<1>6. SnapsOK BY <1>1, NoSnapSound DEF SnapsOK
<1>7. Idle.at = "idle" /\ Idle.committed = 0 BY DEF Idle
<1>8. LastKnown BY <1>1, <1>4, <1>7, NoSnapSound DEF LastKnown
<1>9. JobOK BY <1>1, <1>7, IdleFacts DEF JobOK, Working
<1>10. StreamOK BY <1>1, <1>7 DEF StreamOK, Working
<1> QED BY <1>3, <1>5, <1>6, <1>8, <1>9, <1>10 DEF Inv

LEMMA InvHolds == Spec => []Inv
<1>1. Init => Inv BY InitOK
<1>2. Inv /\ [Next]_state => Inv' BY NextOK
<1> QED BY <1>1, <1>2, PTL DEF Spec

\* The steps of a request leave alone what only commands change.
LEMMA WorkKeeps ==
  ASSUME Work
  PROVE  UNCHANGED <<config, parked, drafter, commands>> /\ job.at # "idle"
<1> DEFINE Kept == UNCHANGED <<config, parked, drafter, commands>> /\ job.at # "idle"
<1>1. CASE Qwen35Next
  <2>1. CASE Qwen35InlineSnap BY <2>1 DEF Qwen35InlineSnap
  <2>2. CASE Qwen35Prefill BY <2>2 DEF Qwen35Prefill
  <2>3. CASE Qwen35Start BY <2>3 DEF Qwen35Start
  <2>4. CASE Qwen35Ar BY <2>4 DEF Qwen35Ar
  <2>5. CASE Qwen35Draft BY <2>5 DEF Qwen35Draft
  <2>6. CASE Qwen35Commit BY <2>6 DEF Qwen35Commit
  <2> QED BY <1>1, <2>1, <2>2, <2>3, <2>4, <2>5, <2>6 DEF Qwen35Next
<1>2. CASE Gemma4Next
  <2>1. CASE Gemma4Prefill BY <2>1 DEF Gemma4Prefill
  <2>2. CASE Gemma4Start BY <2>2 DEF Gemma4Start
  <2>3. CASE Gemma4Ar BY <2>3 DEF Gemma4Ar
  <2>4. CASE Gemma4Draft BY <2>4 DEF Gemma4Draft
  <2>5. CASE Gemma4Commit BY <2>5 DEF Gemma4Commit
  <2> QED BY <1>2, <2>1, <2>2, <2>3, <2>4, <2>5 DEF Gemma4Next
<1>3. CASE LagunaNext
  <2>1. CASE LagunaPrefill BY <2>1 DEF LagunaPrefill
  <2>2. CASE LagunaStart BY <2>2 DEF LagunaStart
  <2>3. CASE LagunaDecode BY <2>3 DEF LagunaDecode
  <2> QED BY <1>3, <2>1, <2>2, <2>3 DEF LagunaNext
<1>4. CASE Qwen3Next
  <2>1. CASE Qwen3Prefill BY <2>1 DEF Qwen3Prefill
  <2>2. CASE Qwen3First BY <2>2 DEF Qwen3First
  <2>3. CASE Qwen3Second BY <2>3 DEF Qwen3Second
  <2>4. CASE Qwen3Decode BY <2>4 DEF Qwen3Decode
  <2> QED BY <1>4, <2>1, <2>2, <2>3, <2>4 DEF Qwen3Next
<1>5. CASE Reply BY <1>5 DEF Reply
<1>6. CASE Continue BY <1>6 DEF Continue
<1> QED BY <1>1, <1>2, <1>3, <1>4, <1>5, <1>6 DEF Work

\* The counter of commands and the alternating bit.
Bounds == commands \in 0..MaxCommands /\ tick \in {0, 1}

LEMMA TakesBound == ASSUME Bounds, NEW cmd, Takes(cmd) PROVE commands' \in 0..MaxCommands
BY BoundAssumption DEF Bounds, Takes

LEMMA BoundsNext == ASSUME Bounds, [Next]_state PROVE Bounds'
<1>1. CASE UNCHANGED state BY <1>1 DEF state, vars, Bounds
<1>2. CASE Quiet BY <1>2 DEF Quiet, state, vars, Bounds
<1>3. CASE Command /\ tick' = 0
  <2>1. commands < MaxCommands /\ commands' = commands + 1 BY <1>3 DEF Command
  <2>2. commands' \in 0..MaxCommands BY <2>1, BoundAssumption DEF Bounds
  <2> QED BY <1>3, <2>2 DEF Bounds
<1>4. CASE Lines /\ tick' = 0
  <2>1. \E cmd : Takes(cmd)
    <3>1. CASE \E what \in {"", "target", "draft"} : Park(what) \/ Unpark(what)
      <4>1. PICK what : Park(what) \/ Unpark(what) BY <3>1
      <4>2. CASE Park(what) BY <4>2 DEF Park
      <4>3. CASE Unpark(what) BY <4>3 DEF Unpark
      <4> QED BY <4>1, <4>2, <4>3
    <3>2. CASE FreeDrafter BY <3>2 DEF FreeDrafter
    <3>3. CASE \E nopark \in BOOLEAN : Compress(nopark)
      <4>1. Takes("compress") BY <3>3 DEF Compress
      <4> QED BY <4>1
    <3>4. CASE \E slot \in Slots : SnapshotCmd(slot) \/ FreeSnapshot(slot) \/ SnapshotThin(slot)
      <4>1. PICK slot \in Slots : SnapshotCmd(slot) \/ FreeSnapshot(slot) \/ SnapshotThin(slot) BY <3>4
      <4>2. CASE SnapshotCmd(slot) BY <4>2 DEF SnapshotCmd
      <4>3. CASE FreeSnapshot(slot) BY <4>3 DEF FreeSnapshot
      <4>4. CASE SnapshotThin(slot) BY <4>4 DEF SnapshotThin
      <4> QED BY <4>1, <4>2, <4>3, <4>4
    <3> QED BY <1>4, <3>1, <3>2, <3>3, <3>4 DEF Lines
  <2> QED BY <1>4, <2>1, TakesBound DEF Bounds
<1>5. CASE Work
  <2>1. commands' = commands BY <1>5, WorkKeeps
  <2>2. tick' = 0 \/ tick' = 1 - tick BY <1>5 DEF Work
  <2> QED BY <2>1, <2>2 DEF Bounds
<1> QED BY <1>1, <1>2, <1>3, <1>4, <1>5 DEF Next

LEMMA BoundsHold == Spec => []Bounds
<1>1. Init => Bounds BY BoundAssumption DEF Init, Bounds
<1>2. Bounds /\ [Next]_state => Bounds' BY BoundsNext
<1> QED BY <1>1, <1>2, PTL DEF Spec

-----------------------------------------------------------------------------
(* What the invariant says of the stream *)

LEMMA WrittenIs ==
  ASSUME NEW w \in Seq(Tokens), NEW k \in 0..2, stream = WithEnds(w, k)
  PROVE  Written = w
<1>1. /\ Len(stream) = Len(w) + k /\ (\A i \in 1..Len(w) : stream[i] = w[i])
      /\ \A i \in (Len(w) + 1)..(Len(w) + k) : stream[i] = -1
  BY MarkedElements
<1>2. stream \in Seq(Tokens \cup {-1}) BY MarkedElements
<1>3. Len(w) \in Nat /\ \A i \in 1..Len(w) : w[i] \in Tokens /\ w[i] # -1
  <2>1. -1 \notin Nat OBVIOUS
  <2> QED BY <2>1, RowFacts
<1> DEFINE marks == {i \in 1..Len(stream) : stream[i] = -1}
<1>4. \A i \in marks : i > Len(w) BY <1>1, <1>3
<1>5. CASE k = 0
  <2>1. stream = w BY <1>5, MarkedFacts
  <2>2. marks = {} BY <1>1, <1>3, <1>4, <1>5
  <2> QED BY <2>1, <2>2 DEF Written
<1>6. CASE k # 0
  <2>1. Len(w) + 1 \in marks BY <1>1, <1>3, <1>6
  <2>2. \A i \in marks : i \in Nat /\ Len(w) + 1 <= i BY <1>1, <1>3, <1>4
  <2> HIDE DEF marks
  <2>3. Min(marks) = Len(w) + 1
    <3>1. Min(marks) \in marks /\ \A y \in marks : Min(marks) <= y
      <4>1. \E x \in marks : \A y \in marks : x <= y BY <2>1, <2>2
      <4> QED BY <4>1 DEF Min
    <3> QED BY <1>3, <2>1, <2>2, <3>1
  <2>4. Written = SubSeq(stream, 1, Min(marks) - 1) BY <2>1 DEF Written, marks
  <2>5. Written = SubSeq(stream, 1, Len(w))
    <3>1. Min(marks) - 1 = Len(w) BY <1>3, <2>3
    <3> QED BY <2>4, <3>1
  <2> DEFINE v == SubSeq(stream, 1, Len(w))
  <2>6. /\ v \in Seq(Tokens \cup {-1}) /\ Len(v) = Len(w)
        /\ \A i \in 1..Len(w) : v[i] = stream[i]
    <3>1. Len(w) <= Len(stream) BY <1>1, <1>3
    <3> QED BY <1>2, <1>3, <3>1
  <2>7. w \in Seq(Tokens \cup {-1})
    <3>1. Tokens \subseteq Tokens \cup {-1} OBVIOUS
    <3> QED BY <3>1, SeqMonotonic
  <2> HIDE DEF v
  <2>8. v = w BY <1>1, <2>6, <2>7, SeqEqual
  <2> QED BY <2>5, <2>8 DEF v
<1> QED BY <1>5, <1>6

\* The tokens and the markers of the stream, at any time.
LEMMA StreamForm ==
  ASSUME Inv
  PROVE  \E w \in Seq(Tokens), k \in 0..2 :
            /\ stream = WithEnds(w, k) /\ InBudget(w, job.req.n_gen)
            /\ job.at = "answered" /\ Streamed => k >= 1 /\ (job.ok => k = 1)
<1> USE DEF Inv
<1>1. job.at \in Working \cup {"idle", "returned", "answered"} BY DEF JobOK
<1>2. CASE job.at = "idle"
  <2>1. stream = <<>> /\ job.req.n_gen = 0 BY <1>2, IdleFacts DEF JobOK
  <2>2. stream = WithEnds(<<>>, 0) /\ InBudget(<<>>, job.req.n_gen) BY <2>1, EmptyFacts
  <2>3. <<>> \in Seq(Tokens) /\ 0 \in 0..2 OBVIOUS
  <2> QED BY <1>2, <2>2, <2>3
<1>3. CASE job.at \in Working
  <2>1. Going(stream, job.n) BY <1>3 DEF StreamOK
  <2>2. job.n \in Nat /\ job.req.n_gen \in Nat /\ job.n <= job.req.n_gen
    BY <1>3 DEF JobOK, IsJob, IsRequest
  <2>3. stream \in Seq(Tokens) /\ Len(stream) <= job.n /\ Len(stream) \in Nat BY <2>1 DEF Going
  <2>4. InBudget(stream, job.req.n_gen)
    <3>1. \A i \in 1..(Len(stream) - 1) : i \in 1..Len(stream) BY <2>3
    <3>2. Len(stream) <= job.req.n_gen BY <2>2, <2>3
    <3> QED BY <2>1, <2>3, <3>1, <3>2 DEF Going, InBudget
  <2>5. stream = WithEnds(stream, 0) /\ 0 \in 0..2 BY MarkedFacts
  <2>6. job.at # "answered" BY <1>3 DEF Working
  <2> QED BY <2>3, <2>4, <2>5, <2>6
<1>4. CASE job.at \in {"returned", "answered"}
  <2>1. PICK w \in Seq(Tokens), k \in 0..2 : EndedAs(w, k) BY <1>4 DEF StreamOK
  <2>2. /\ stream = WithEnds(w, k) /\ InBudget(w, job.req.n_gen)
        /\ job.at = "answered" /\ Streamed => k >= 1
        /\ job.ok => k <= 1
    BY <2>1 DEF EndedAs
  <2> QED BY <2>2
<1> QED BY <1>1, <1>2, <1>3, <1>4

LEMMA BudgetKept == ASSUME Inv PROVE AnswerInBudget
<1>1. PICK w \in Seq(Tokens), k \in 0..2 : stream = WithEnds(w, k) /\ InBudget(w, job.req.n_gen)
  BY StreamForm
<1>2. Written = w BY <1>1, WrittenIs
<1>3. \A i \in (Len(w) + 1)..Len(stream) : stream[i] = -1 BY <1>1, MarkedElements
<1>4. Len(w) <= job.req.n_gen /\ \A i \in 1..(Len(w) - 1) : w[i] # Eos BY <1>1 DEF InBudget
<1> QED BY <1>2, <1>3, <1>4 DEF AnswerInBudget

LEMMA MarkersKept == ASSUME Inv PROVE EndMarkers
<1> SUFFICES ASSUME job.at = "answered", job.req.via \in {"bare", "restore"}
             PROVE  /\ stream # <<>> /\ Last(stream) = -1
                    /\ job.ok => \A i \in 1 .. Len(stream) - 1 : stream[i] # -1
  BY DEF EndMarkers
<1>1. PICK w \in Seq(Tokens), k \in 0..2 :
        stream = WithEnds(w, k) /\ k >= 1 /\ (job.ok => k = 1)
  BY StreamForm DEF Streamed
<1>2. /\ stream \in Seq(Tokens \cup {-1}) /\ Len(stream) = Len(w) + k /\ Len(w) \in Nat
      /\ \A i \in 1..Len(w) : stream[i] = w[i]
      /\ \A i \in (Len(w) + 1)..(Len(w) + k) : stream[i] = -1
  BY <1>1, MarkedElements
<1>3. stream # <<>> /\ Last(stream) = -1
  <2>1. Len(stream) > 0 /\ Len(w) + k \in (Len(w) + 1)..(Len(w) + k) BY <1>1, <1>2
  <2>2. stream[Len(stream)] = -1 BY <1>2, <2>1
  <2> QED BY <1>2, <2>1, <2>2 DEF Last
<1>4. ASSUME job.ok, NEW i \in 1..(Len(stream) - 1) PROVE stream[i] # -1
  <2>1. i \in 1..Len(w) BY <1>1, <1>2, <1>4
  <2>2. stream[i] = w[i] /\ w[i] \in Tokens BY <1>2, <2>1
  <2>3. -1 \notin Nat OBVIOUS
  <2> QED BY <2>2, <2>3, RowFacts
<1> QED BY <1>3, <1>4

LEMMA TypeKept == ASSUME Inv, Bounds PROVE TypeOK
<1> USE DEF Inv
<1>1. config \in [kind: Kinds, draft: BOOLEAN] BY DEF ProcessOK
<1>2. cache.cur_pos \in Nat /\ cache.last_tok \in Tokens \cup {-1} BY DEF CacheOK
<1>3. Len(cache.kv) <= MaxCtx /\ Len(mirror) = RingCap BY DEF CacheOK, IsCache, ProcessOK
<1>4. DOMAIN snaps = Slots /\ DOMAIN named = Slots BY DEF SnapsOK
<1>5. parked \subseteq {"target", "draft"} /\ drafter \in BOOLEAN BY DEF ProcessOK
<1>6. job.at \in {"idle", "prefill", "draft", "commit", "ar", "second", "returned", "answered"}
  BY DEF JobOK, Working
<1>7. \A i \in DOMAIN stream : stream[i] \in Tokens \cup {-1}
  <2>1. PICK w \in Seq(Tokens), k \in 0..2 : stream = WithEnds(w, k) BY StreamForm
  <2>2. stream \in Seq(Tokens \cup {-1}) BY <2>1, MarkedElements
  <2> QED BY <2>2
<1>8. commands \in 0..MaxCommands /\ tick \in {0, 1} BY DEF Bounds
<1> QED BY <1>1, <1>2, <1>3, <1>4, <1>5, <1>6, <1>7, <1>8 DEF TypeOK

LEMMA WeightsKept == ASSUME Inv PROVE WeightsInMemory
BY DEF Inv, JobOK, Working, WeightsInMemory

-----------------------------------------------------------------------------
(* Compressing *)

Brought ==
  job'.req.via = "compress" /\ job.at = "idle" /\ job'.ok /\ (config.draft \/ ~Is("qwen35"))
    => parked' = parked

LEMMA NotCompress ==
  ASSUME NEW via, via # "compress", NEW ok, job' = Answered(via, ok)
  PROVE  job'.req.via # "compress"
<1>1. job' = [Idle EXCEPT !.at = "answered", !.req.via = via, !.ok = ok] BY DEF Answered
<1>2. job'.req.via = via BY <1>1 DEF Idle, NoRequest
<1> QED BY <1>2

LEMMA CompressKept == ASSUME Inv, [Next]_state PROVE Brought
<1>1. CASE UNCHANGED state BY <1>1 DEF state, vars, Brought
<1>2. CASE Quiet BY <1>2 DEF Quiet, state, vars, Brought
<1>3. CASE Command
  <2>1. parked' = parked BY <1>3 DEF Command
  <2> QED BY <2>1 DEF Brought
<1>4. CASE Lines
  <2>1. CASE \E what \in {"", "target", "draft"} : Park(what) \/ Unpark(what)
    <3>1. PICK what : Park(what) \/ Unpark(what) BY <2>1
    <3>2. CASE Park(what)
      <4>1. job' = Answered("park", TRUE) BY <3>2 DEF Park
      <4> QED BY <4>1, NotCompress DEF Brought
    <3>3. CASE Unpark(what)
      <4>1. PICK r : job' = Answered("unpark", r.ok) BY <3>3 DEF Unpark
      <4> QED BY <4>1, NotCompress DEF Brought
    <3> QED BY <3>1, <3>2, <3>3
  <2>2. CASE FreeDrafter
    <3>1. parked' = parked BY <2>2 DEF FreeDrafter
    <3> QED BY <3>1 DEF Brought
  <2>3. CASE \E nopark \in BOOLEAN : Compress(nopark)
    <3>1. job'.ok /\ (config.draft \/ ~Is("qwen35")) => parked' = parked BY <2>3, CompressOK
    <3> QED BY <3>1 DEF Brought
  <2>4. CASE \E slot \in Slots : SnapshotCmd(slot) \/ FreeSnapshot(slot) \/ SnapshotThin(slot)
    <3>1. PICK slot \in Slots : SnapshotCmd(slot) \/ FreeSnapshot(slot) \/ SnapshotThin(slot) BY <2>4
    <3>2. parked' = parked
      <4>1. CASE SnapshotCmd(slot) BY <4>1 DEF SnapshotCmd
      <4>2. CASE FreeSnapshot(slot) BY <4>2 DEF FreeSnapshot
      <4>3. CASE SnapshotThin(slot) BY <4>3 DEF SnapshotThin
      <4> QED BY <3>1, <4>1, <4>2, <4>3
    <3> QED BY <3>2 DEF Brought
  <2> QED BY <1>4, <2>1, <2>2, <2>3, <2>4 DEF Lines
<1>5. CASE Work
  <2>1. parked' = parked BY <1>5, WorkKeeps
  <2> QED BY <2>1 DEF Brought
<1> QED BY <1>1, <1>2, <1>3, <1>4, <1>5 DEF Next

-----------------------------------------------------------------------------
(* The answers are the target's own: the second invariant, AnswerInv *)

Prompt == job.req.prompt

\* The context the next token belongs to.
SoFar == Prompt \o stream

\* A request of which something is claimed.
Sure == job.exact /\ Fits

\* A cache, and a snapshot, right for a context.
Holds(c, ctx) ==
  /\ Begins(c.kv, ctx)
  /\ Is("qwen35") => c.ssm = ctx
  /\ Is("gemma4") => InRing(c.ring, Len(ctx))

SnapRight(s, p) ==
  /\ p \in Seq(Tokens) /\ s.used /\ ~s.thin /\ s.cur_pos = Len(p) /\ Begins(s.kv, p)
  /\ Is("qwen35") => s.kv = p /\ s.ssm = p /\ s.last_tok = Predict(p)
  /\ Is("gemma4") => Len(p) <= Window /\ FirstPositions(s.ring, Len(p))

SnapsRight == \A s \in Slots : named[s] # <<>> => SnapRight(snaps[s], named[s])

RingSize == Is("gemma4") => Len(cache.ring) = Window

\* Where a request can be, and how much it has streamed there.
PlaceOK ==
  /\ job.at = "prefill" => stream = <<>>
  /\ job.at \in {"draft", "commit"} => CanSpec /\ Len(stream) = job.n
  /\ job.at = "ar" /\ Is("qwen35") =>
       /\ ~CanSpec /\ job.req.n_gen > 1 /\ (job.refused <=> stream = <<>>)
       /\ job.refused => job.req.via = "http"
  /\ job.at = "ar" /\ Is("gemma4") => ~CanSpec
  /\ job.at = "ar" /\ (Is("gemma4") \/ Is("qwen3")) => Len(stream) = job.n /\ job.n > 0
  /\ job.at = "ar" /\ Is("laguna") => IF ShouldEmit THEN Len(stream) = job.n ELSE stream = <<>>
  /\ job.at = "second" => Is("qwen3") /\ job.n = 1 /\ stream = <<job.last>>

\* The rows of what is evaluated of a prompt.
PrefillRight ==
  job.at = "prefill" /\ job.exact /\ InWindow =>
    /\ Holds(cache, SubSeq(Prompt, 1, Lesser(job.committed, Len(Prompt))))
    /\ Is("qwen35") /\ job.committed > 0 =>
         /\ cache.last_tok = Predict(SubSeq(Prompt, 1, job.committed))
         /\ cache.kv = SubSeq(Prompt, 1, job.committed)
    /\ Is("gemma4") /\ config.draft /\ job.committed = Len(Prompt) =>
         cache.last_tok = Predict(Prompt) /\ cache.kv = Prompt
    /\ Is("laguna") /\ job.committed = Len(Prompt) => job.last = Predict(Prompt)

DraftRight ==
  job.at = "draft" =>
    /\ GreedyAfter(Prompt, stream) /\ job.committed = Len(SoFar) /\ cache.cur_pos = job.committed
    /\ Holds(cache, SoFar) /\ cache.kv = SoFar /\ job.last = Predict(SoFar)

\* A verified block: the target's tokens, and the cache it is taken back to or kept in.
CommitRight ==
  job.at = "commit" =>
    /\ GreedyAfter(Prompt, stream) /\ job.committed = Len(SoFar)
    /\ job.draft[1] = Predict(SoFar)
    /\ \A i \in 1..QLen : job.target[i] = Predict(SoFar \o SubSeq(job.draft, 1, i))
    /\ Is("qwen35") => Begins(cache.kv, SoFar) /\ job.saved = SoFar
    /\ Is("gemma4") => cache.kv = SoFar \o job.draft /\ InRing(cache.ring, Len(SoFar) + QLen)

PlainRight ==
  job.at = "ar" =>
    /\ Is("qwen35") => GreedyTo(Prompt, stream, 1)
    /\ Is("gemma4") =>
         /\ GreedyAfter(Prompt, stream) /\ job.last = stream[job.n]
         /\ job.committed = Len(Prompt) + job.n - 1
         /\ Holds(cache, Prompt \o SubSeq(stream, 1, job.n - 1))
    /\ Is("laguna") /\ ShouldEmit =>
         /\ GreedyAfter(Prompt, stream) /\ job.last = Predict(SoFar) /\ cache.cur_pos = Len(SoFar)
         /\ Begins(cache.kv, SoFar)
    /\ Is("qwen3") => GreedyTo(Prompt, stream, 2) /\ (job.n = 1 => job.last = Predict(SoFar))

SecondRight ==
  job.at = "second" =>
    job.last = Predict(Prompt) /\ job.committed = Len(Prompt) /\ Begins(cache.kv, Prompt)

\* An answer that is not cut short by the client or an error.
Complete(w) ==
  \/ Len(w) = job.req.n_gen
  \/ Len(w) > 0 /\ Last(w) = Eos
  \/ Is("laguna") /\ Predict(Prompt \o w) = Eos

Uncut == job.req.n_gen <= Claimed /\ ~(Is("laguna") /\ job.req.via = "legacy")

EndRight ==
  job.at \in {"returned", "answered"} =>
    /\ job.at = "answered" => job.req.n_gen \in Nat
    /\ \E w \in Seq(Tokens), k \in 0..2 :
          /\ stream = WithEnds(w, k) /\ GreedyTo(Prompt, w, Claimed)
          /\ job.ok /\ ~job.refused /\ Uncut => Complete(w)

WorkInv ==
  /\ PlaceOK /\ PrefillRight
  /\ Sure => DraftRight /\ CommitRight /\ PlainRight /\ SecondRight /\ EndRight

AnswerInv == SnapsRight /\ RingSize /\ WorkInv

LEMMA SameRequest ==
  ASSUME UNCHANGED <<config, parked>>, job'.req = job.req, job'.exact = job.exact
  PROVE  /\ Sure' = Sure /\ CanSpec' = CanSpec /\ Claimed' = Claimed /\ Uncut' = Uncut
         /\ Prompt' = Prompt /\ InWindow' = InWindow /\ ShouldEmit' = ShouldEmit
         /\ \A w : Complete(w)' = Complete(w)
<1>1. CanSpec' = CanSpec BY DEF CanSpec, Is, Qwen35CanSpec, Gemma4CanSpec
<1>2. Sure' = Sure BY <1>1 DEF Sure, Fits, Room, Is
<1>3. Claimed' = Claimed BY <1>1 DEF Claimed, Is
<1>4. Uncut' = Uncut BY <1>3 DEF Uncut, Is
<1>5. Prompt' = Prompt /\ InWindow' = InWindow /\ ShouldEmit' = ShouldEmit
  BY DEF Prompt, InWindow, ShouldEmit, Is
<1>6. \A w : Complete(w)' = Complete(w) BY <1>5 DEF Complete, Is
<1> QED BY <1>1, <1>2, <1>3, <1>4, <1>5, <1>6

LEMMA SameSnapsRight ==
  ASSUME SnapsRight, UNCHANGED <<config, snaps, named>> PROVE SnapsRight'
BY DEF SnapsRight, SnapRight, Is

\* What is streamed while a request is being served.
LEMMA StreamRight ==
  ASSUME Inv, WorkInv, job.at \in Working
  PROVE  /\ stream \in Seq(Tokens) /\ Prompt \in Seq(Tokens) /\ SoFar \in Seq(Tokens)
         /\ Len(SoFar) = Len(Prompt) + Len(stream)
         /\ Sure => GreedyTo(Prompt, stream, Claimed)
<1>1. stream \in Seq(Tokens) /\ Prompt \in Seq(Tokens) /\ config.kind \in Kinds
  BY DEF Inv, StreamOK, Going, JobOK, IsRequest, Prompt, ProcessOK
<1>2. SoFar \in Seq(Tokens) /\ Len(SoFar) = Len(Prompt) + Len(stream)
  BY <1>1, ConcatProperties DEF SoFar
<1>3. ASSUME Sure PROVE GreedyTo(Prompt, stream, Claimed)
  <2> USE <1>3
  <2>1. CASE job.at = "prefill" BY <2>1, GreedyEmpty DEF WorkInv, PlaceOK
  <2>2. CASE job.at \in {"draft", "commit"}
    BY <2>2, GreedyAll DEF WorkInv, DraftRight, CommitRight
  <2>3. CASE job.at = "second"
    <3>1. stream = <<job.last>> /\ job.last = Predict(Prompt) BY <2>3 DEF WorkInv, PlaceOK, SecondRight
    <3>2. GreedyTo(Prompt, <<>>, Claimed) BY GreedyEmpty
    <3>3. GreedyAfter(Prompt, Append(<<>>, job.last))
      <4>1. job.last \in Tokens /\ Prompt \o <<>> = Prompt /\ <<>> \in Seq(Tokens)
        BY <1>1, <2>3, ConcatEmptySeq DEF Inv, JobOK
      <4>2. GreedyAfter(Prompt, <<>>) BY GreedyEmpty
      <4> QED BY <1>1, <3>1, <4>1, <4>2, GreedyAppend
    <3>4. Append(<<>>, job.last) = <<job.last>> OBVIOUS
    <3> QED BY <3>1, <3>3, <3>4, GreedyAll
  <2>4. CASE job.at = "ar"
    <3>1. PlainRight /\ PlaceOK BY DEF WorkInv
    <3>2. CASE Is("qwen35")
      <4>1. Claimed = 1 BY <2>4, <3>1, <3>2 DEF PlaceOK, Claimed, Is
      <4> QED BY <2>4, <3>1, <3>2, <4>1 DEF PlainRight
    <3>3. CASE Is("gemma4") BY <2>4, <3>1, <3>3, GreedyAll DEF PlainRight
    <3>4. CASE Is("laguna")
      <4>1. CASE ShouldEmit BY <2>4, <3>1, <3>4, <4>1, GreedyAll DEF PlainRight
      <4>2. CASE ~ShouldEmit
        <5>1. stream = <<>> BY <2>4, <3>1, <3>4, <4>2 DEF PlaceOK
        <5> QED BY <5>1, GreedyEmpty
      <4> QED BY <4>1, <4>2
    <3>5. CASE Is("qwen3")
      <4>1. Claimed = 2 BY <3>5 DEF Claimed, Is
      <4> QED BY <2>4, <3>1, <3>5, <4>1 DEF PlainRight
    <3> QED BY <1>1, <3>2, <3>3, <3>4, <3>5, KindsAssumption DEF Is
  <2> QED BY <2>1, <2>2, <2>3, <2>4 DEF Working
<1> QED BY <1>1, <1>2, <1>3

LEMMA EndsRight ==
  ASSUME Inv, job.at \in Working, UNCHANGED <<config, parked>>,
         NEW ok \in BOOLEAN, NEW r \in BOOLEAN, job' = Returned(ok, r),
         NEW w \in Seq(Tokens), NEW k \in 0..1, stream' = WithEnds(w, k),
         Sure => GreedyTo(Prompt, w, Claimed) /\ (ok /\ ~r /\ Uncut => Complete(w))
  PROVE  WorkInv'
<1>1. /\ job'.req = job.req /\ job'.at = "returned" /\ job'.ok = ok /\ job'.refused = r
      /\ job'.exact = job.exact
  BY ReturnedOK DEF Inv
<1>2. PlaceOK' /\ PrefillRight' BY <1>1 DEF PlaceOK, PrefillRight
<1>3. DraftRight' /\ CommitRight' /\ PlainRight' /\ SecondRight'
  BY <1>1 DEF DraftRight, CommitRight, PlainRight, SecondRight
<1>4. ASSUME Sure' PROVE EndRight'
  <2>1. /\ Sure /\ Claimed' = Claimed /\ Uncut' = Uncut /\ Prompt' = Prompt /\ Complete(w)' = Complete(w)
    BY <1>1, <1>4, SameRequest
  <2>2. k \in 0..2 OBVIOUS
  <2>3. (stream = WithEnds(w, k) /\ GreedyTo(Prompt, w, Claimed)
           /\ (job.ok /\ ~job.refused /\ Uncut => Complete(w)))'
    BY <1>1, <2>1
  <2> QED BY <1>1, <2>2, <2>3 DEF EndRight
<1> QED BY <1>2, <1>3, <1>4 DEF WorkInv

\* An error, or an answer of no tokens.
LEMMA FailsRight ==
  ASSUME Inv, WorkInv, job.at \in Working, UNCHANGED <<config, parked>>,
         NEW ok \in BOOLEAN, NEW r \in BOOLEAN, job' = Returned(ok, r),
         stream' = stream \/ stream' = Append(stream, -1),
         ok => Complete(stream)
  PROVE  WorkInv'
<1>1. stream \in Seq(Tokens) /\ (Sure => GreedyTo(Prompt, stream, Claimed)) BY StreamRight
<1>2. 0 \in 0..1 /\ 1 \in 0..1 OBVIOUS
<1>3. stream = WithEnds(stream, 0) /\ Append(stream, -1) = WithEnds(stream, 1) BY MarkedFacts
<1>4. CASE stream' = stream BY <1>1, <1>2, <1>3, <1>4, EndsRight
<1>5. CASE stream' = Append(stream, -1) BY <1>1, <1>2, <1>3, <1>5, EndsRight
<1> QED BY <1>4, <1>5

\* The last token, offered before the marker.
LEMMA LastRight ==
  ASSUME Inv, WorkInv, job.at \in Working, UNCHANGED <<config, parked>>,
         NEW r \in BOOLEAN, job' = Returned(TRUE, r),
         NEW t \in Tokens, NEW a \in BOOLEAN, ~a => r, stream' = Append(emit(t, a), -1),
         Sure /\ a /\ Len(stream) + 1 <= Claimed => t = Predict(SoFar),
         Sure /\ a /\ ~r /\ Uncut => t = Eos \/ Len(stream) + 1 = job.req.n_gen
  PROVE  WorkInv'
<1>1. /\ stream \in Seq(Tokens) /\ (Sure => GreedyTo(Prompt, stream, Claimed))
      /\ job.req.n_gen \in Nat
  BY StreamRight DEF Inv, JobOK, IsRequest
<1>2. 1 \in 0..1 /\ TRUE \in BOOLEAN OBVIOUS
<1>3. \A w : Append(w, -1) = WithEnds(w, 1) BY MarkedFacts
<1>4. CASE ~a
  <2>1. stream' = WithEnds(stream, 1) BY <1>3, <1>4 DEF emit
  <2>2. r BY <1>4
  <2> QED BY <1>1, <1>2, <2>1, <2>2, EndsRight
<1>5. CASE a
  <2> DEFINE w == Append(stream, t)
  <2>1. w \in Seq(Tokens) /\ Len(w) = Len(stream) + 1 /\ Last(w) = t
    BY <1>1, AppendProperties DEF Last
  <2>2. stream' = WithEnds(w, 1) BY <1>3, <1>5 DEF emit
  <2>3. Claimed \in Int
    BY <1>1 DEF Claimed
  <2>4. Sure => GreedyTo(Prompt, w, Claimed) BY <1>1, <1>5, <2>3, GreedyToAppend DEF SoFar
  <2>5. Sure /\ ~r /\ Uncut => Complete(w)
    <3>1. Len(w) > 0 BY <1>1, <2>1
    <3> HIDE DEF w
    <3> QED BY <1>5, <2>1, <3>1 DEF Complete
  <2> HIDE DEF w
  <2> QED BY <1>2, <2>1, <2>2, <2>4, <2>5, EndsRight
<1> QED BY <1>4, <1>5

-----------------------------------------------------------------------------
(* Passes, snapshots and turns, for every architecture *)

LEMMA PutSnapRight ==
  ASSUME SnapsRight, SnapsOK, UNCHANGED config, NEW slot \in Slots, NEW s, PutSnap(slot, s),
         s.used /\ job.exact /\ InWindow => SnapRight(s, SubSeq(Prompt, 1, s.cur_pos))
  PROVE  SnapsRight'
<1>1. snaps = [t \in Slots |-> snaps[t]] /\ named = [t \in Slots |-> named[t]] BY DEF SnapsOK
<1> DEFINE x == IF s.used /\ job.exact /\ InWindow THEN SubSeq(job.req.prompt, 1, s.cur_pos) ELSE <<>>
<1>2. snaps' = [snaps EXCEPT ![slot] = s] /\ named' = [named EXCEPT ![slot] = x] BY DEF PutSnap
<1>3. \A t \in Slots : /\ snaps'[t] = IF t = slot THEN s ELSE snaps[t]
                       /\ named'[t] = IF t = slot THEN x ELSE named[t]
  BY <1>1, <1>2
<1>4. x # <<>> => SnapRight(s, x) BY DEF Prompt
<1>5. \A a, b : SnapRight(a, b)' = SnapRight(a, b) BY DEF SnapRight, Is
<1> HIDE DEF x
<1> SUFFICES ASSUME NEW t \in Slots, named'[t] # <<>> PROVE SnapRight(snaps'[t], named'[t])
  BY <1>5 DEF SnapsRight
<1>6. CASE t = slot BY <1>3, <1>4, <1>6
<1>7. CASE t # slot BY <1>3, <1>7 DEF SnapsRight
<1> QED BY <1>6, <1>7

LEMMA AcceptsFacts == FALSE \in Accepts => job.req.via = "http"
<1>1. job.req.via # "http" => Accepts = {TRUE} BY DEF Accepts
<1>2. FALSE \notin {TRUE} OBVIOUS
<1> QED BY <1>1, <1>2

LEMMA RefusedFacts == job.refused /\ job.req.via = "http" => Accepts = {FALSE} BY DEF Accepts

LEMMA TurnRight ==
  ASSUME Inv, WorkInv, job.at = "commit", UNCHANGED <<config, parked>>,
         NEW w \in Seq(Tokens), w # <<>>, Len(w) <= job.req.n_gen - job.n,
         NEW e \in EmitBatch(w), NEW t \in Tokens, EndTurn(e, t),
         cache'.cur_pos = job.committed + e.offered,
         Sure => GreedyAfter(SoFar, w),
         Sure /\ ~Stops(e) => /\ Holds(cache', SoFar \o w) /\ cache'.kv = SoFar \o w
                              /\ t = Predict(SoFar \o w)
  PROVE  WorkInv'
<1> DEFINE v == stream \o e.written
           m == IF e.refused THEN e.offered - 1 ELSE e.offered
<1>1. /\ IsJob(job) /\ job.n \in Nat /\ job.req.n_gen \in Nat /\ job.at \in Working
      /\ job.committed \in Nat
      /\ stream \in Seq(Tokens) /\ Prompt \in Seq(Tokens) /\ SoFar \in Seq(Tokens)
      /\ Len(SoFar) = Len(Prompt) + Len(stream)
  <2>1. job.at \in Working BY DEF Working
  <2>2. IsJob(job) /\ job.n \in Nat /\ job.req.n_gen \in Nat /\ job.committed \in Nat
    BY DEF Inv, JobOK, IsJob, IsRequest
  <2> QED BY <2>1, <2>2, StreamRight
<1>2. PlaceOK /\ CanSpec /\ Len(stream) = job.n /\ (Sure => CommitRight) BY DEF WorkInv, PlaceOK
<1>3. /\ e.offered \in 1..Len(w) /\ e.refused \in BOOLEAN /\ e.written = SubSeq(w, 1, m)
      /\ ~e.refused => e.offered = Len(w) \/ w[e.offered] = Eos
  BY EmitBatchFacts
<1>4. m \in 0..Len(w) BY <1>3
<1>5. e.written \in Seq(Tokens) /\ Len(e.written) = m /\ (m > 0 => Last(e.written) = w[m])
  <2> HIDE DEF m
  <2>1. SubSeq(w, 1, m) \in Seq(Tokens) /\ Len(SubSeq(w, 1, m)) = m BY <1>4, PrefixFacts
  <2>2. m > 0 => SubSeq(w, 1, m)[m] = w[m] BY <1>4
  <2> QED BY <1>3, <2>1, <2>2 DEF Last
<1>6. v \in Seq(Tokens) /\ Len(v) = job.n + m /\ (m > 0 => Last(v) = w[m])
  <2> HIDE DEF m
  <2>1. /\ v \in Seq(Tokens) /\ Len(v) = Len(stream) + Len(e.written)
        /\ Len(e.written) > 0 => Last(v) = Last(e.written)
    BY <1>1, <1>5, ConcatLast
  <2> HIDE DEF v
  <2> QED BY <1>2, <1>5, <2>1
<1>7. Sure => GreedyAfter(Prompt, v)
  <2> SUFFICES ASSUME Sure PROVE GreedyAfter(Prompt, v) OBVIOUS
  <2>1. GreedyAfter(Prompt, stream) BY <1>2 DEF CommitRight
  <2>2. GreedyAfter(SoFar, e.written)
    <3> HIDE DEF m
    <3> QED BY <1>3, <1>4, GreedyPrefix
  <2> QED BY <1>1, <1>5, <2>1, <2>2, GreedyExtends DEF SoFar
<1>8. CASE Stops(e)
  <2>1. job' = Returned(TRUE, e.refused) BY <1>8 DEF EndTurn, Stops
  <2>2. stream' = v \o <<-1>> BY <1>8 DEF EndTurn, Stops
  <2>3. stream' = Append(v, -1)
    <3> HIDE DEF v
    <3>1. v \in Seq(Tokens \cup {-1}) BY <1>6, SeqMonotonic
    <3>2. v \o <<-1>> = Append(v, -1) BY <3>1
    <3> QED BY <2>2, <3>2
  <2>4. ~e.refused => Complete(v)
    <3> SUFFICES ASSUME ~e.refused PROVE Complete(v) OBVIOUS
    <3>1. m = e.offered /\ m > 0 BY <1>3
    <3>2. CASE Last(e.written) = Eos
      <4>1. Len(v) > 0 /\ Last(v) = Eos
        <5> HIDE DEF v, m
        <5> QED BY SMTT(30), <1>1, <1>5, <1>6, <3>1, <3>2
      <4> HIDE DEF v
      <4> QED BY <4>1 DEF Complete
    <3>3. CASE job.n + e.offered >= job.req.n_gen
      <4>1. Len(v) = job.req.n_gen
        <5> HIDE DEF v, m
        <5> QED BY SMTT(30), <1>1, <1>3, <1>6, <3>1, <3>3
      <4> HIDE DEF v
      <4> QED BY <4>1 DEF Complete
    <3> QED BY <1>8, <3>2, <3>3 DEF Stops
  <2> HIDE DEF v
  <2>5. 1 \in 0..1 /\ TRUE \in BOOLEAN /\ stream' = WithEnds(v, 1)
    <3>1. WithEnds(v, 1) = Append(v, -1) BY MarkedFacts
    <3> QED BY <2>3, <3>1
  <2>6. Sure => GreedyTo(Prompt, v, Claimed) /\ (TRUE /\ ~e.refused /\ Uncut => Complete(v))
    BY <1>7, <2>4, GreedyAll
  <2> QED BY <1>1, <1>3, <1>6, <2>1, <2>5, <2>6, EndsRight
<1>9. CASE ~Stops(e)
  <2>1. job' = [job EXCEPT !.at = "draft", !.last = t, !.n = @ + e.offered,
                           !.committed = @ + e.offered, !.draft = <<>>,
                           !.target = <<>>, !.saved = <<>>]
    BY <1>9 DEF EndTurn, Stops
  <2>2. ~e.refused /\ m = e.offered /\ m > 0 /\ Last(e.written) # Eos
    BY <1>3, <1>9 DEF Stops
  <2>3. m = Len(w) /\ e.written = w /\ e.offered = Len(w)
    <3>1. w[e.offered] # Eos
      <4> HIDE DEF m
      <4> QED BY <1>5, <2>2
    <3>2. m = Len(w) /\ e.offered = Len(w) BY <1>3, <2>2, <3>1
    <3> HIDE DEF m
    <3> QED BY <1>3, <3>2, SubSeqFull
  <2>4. stream' = stream \o w
    <3>1. stream' = v \o <<>> BY <1>9 DEF EndTurn, Stops
    <3>2. v \o <<>> = v
      <4> HIDE DEF v
      <4> QED BY <1>6, ConcatEmptySeq
    <3> QED BY <2>3, <3>1, <3>2
  <2>5. job.n + e.offered \in Nat /\ job.committed + e.offered \in Nat BY <1>1, <1>3
  <2>6. /\ job'.at = "draft" /\ job'.n = job.n + e.offered /\ job'.req = job.req
        /\ job'.last = t /\ job'.committed = job.committed + e.offered /\ job'.exact = job.exact
    BY <1>1, <2>1, <2>5, NextTurn
  <2>7. Sure' = Sure /\ CanSpec' = CanSpec /\ Prompt' = Prompt BY <2>6, SameRequest
  <2>8. PlaceOK'
    <3>1. Len(stream') = job.n + Len(w)
      <4>1. Len(stream \o w) = Len(stream) + Len(w) BY <1>1, ConcatProperties
      <4> QED BY <1>2, <2>4, <4>1
    <3> QED BY <1>2, <2>3, <2>6, <2>7, <3>1 DEF PlaceOK
  <2>9. PrefillRight' BY <2>6 DEF PrefillRight
  <2>10. ASSUME Sure PROVE DraftRight'
    <3>1. SoFar' = SoFar \o w /\ Len(SoFar \o w) = Len(SoFar) + Len(w)
      <4>1. SoFar' = Prompt \o (stream \o w) BY <2>4, <2>7 DEF SoFar
      <4>2. Prompt \o (stream \o w) = (Prompt \o stream) \o w BY <1>1, ConcatThree
      <4> QED BY <1>1, <4>1, <4>2, ConcatProperties DEF SoFar
    <3>2. /\ Holds(cache', SoFar \o w) /\ cache'.kv = SoFar \o w /\ t = Predict(SoFar \o w)
      BY <1>9, <2>10
    <3>3. Holds(cache, SoFar)' BY <3>1, <3>2 DEF Holds, Is
    <3>4. GreedyAfter(Prompt, stream)' BY <1>7, <2>3, <2>4, <2>7, <2>10
    <3>5. job'.committed = Len(SoFar') /\ cache'.cur_pos = job'.committed
      BY <1>2, <2>3, <2>6, <2>10, <3>1 DEF CommitRight
    <3> QED BY <2>6, <3>1, <3>2, <3>3, <3>4, <3>5 DEF DraftRight
  <2>11. CommitRight' /\ PlainRight' /\ SecondRight' /\ EndRight'
    BY <2>6 DEF CommitRight, PlainRight, SecondRight, EndRight
  <2> QED BY <2>7, <2>8, <2>9, <2>10, <2>11 DEF WorkInv
<1> QED BY <1>8, <1>9

-----------------------------------------------------------------------------
(* The answers of qwen35 *)

LEMMA InPrefill ==
  ASSUME job'.at = "prefill", stream' = <<>>, PrefillRight' PROVE WorkInv'
BY DEF WorkInv, PlaceOK, DraftRight, CommitRight, PlainRight, SecondRight, EndRight

LEMMA InDraft ==
  ASSUME job'.at = "draft", CanSpec', Len(stream') = job'.n, Sure' => DraftRight' PROVE WorkInv'
BY DEF WorkInv, PlaceOK, PrefillRight, CommitRight, PlainRight, SecondRight, EndRight

LEMMA InCommit ==
  ASSUME job'.at = "commit", CanSpec', Len(stream') = job'.n, Sure' => CommitRight' PROVE WorkInv'
BY DEF WorkInv, PlaceOK, PrefillRight, DraftRight, PlainRight, SecondRight, EndRight

LEMMA InPlain ==
  ASSUME job'.at = "ar", PlaceOK', Sure' => PlainRight' PROVE WorkInv'
BY DEF WorkInv, PrefillRight, DraftRight, CommitRight, SecondRight, EndRight

\* What is known of a request that is being served.
LEMMA Served ==
  ASSUME Inv, job.at \in Working
  PROVE  /\ IsJob(job) /\ IsRequest(job.req) /\ IsCache(cache)
         /\ Prompt \in Seq(Tokens) /\ Prompt # <<>> /\ Len(Prompt) \in Nat \ {0}
         /\ job.n \in Nat /\ job.committed \in Nat /\ job.req.n_gen \in Nat
         /\ job.refused \in BOOLEAN /\ config.kind \in Kinds
         /\ Len(Prompt) + job.req.n_gen <= MaxCtx
<1>1. IsJob(job) /\ IsRequest(job.req) /\ IsCache(cache) /\ config.kind \in Kinds
  BY DEF Inv, JobOK, Working, CacheOK, ProcessOK
<1>2. job.req.prompt \in Seq(Tokens) /\ job.req.prompt # <<>> BY <1>1 DEF IsRequest
<1>3. Len(job.req.prompt) \in Nat \ {0} BY <1>2
<1> QED BY <1>1, <1>2, <1>3 DEF IsJob, IsRequest, Prompt

LEMMA Qwen35InlineSnapRight == ASSUME Inv, AnswerInv, Qwen35InlineSnap PROVE AnswerInv'
<1>1. /\ Is("qwen35") /\ job.at = "prefill" /\ job.snap /\ job.req.snap_pos = job.committed
      /\ job' = [job EXCEPT !.snap = FALSE]
      /\ UNCHANGED <<config, cache, mirror, parked, drafter, stream, commands>>
  BY DEF Qwen35InlineSnap, Qwen35SnapDue
<1> DEFINE slot == job.req.snap_slot
           k == job.committed
<1>2. job.at \in Working BY <1>1 DEF Working
<1>3. slot \in Slots /\ k \in Nat \ {0} /\ k <= Len(Prompt) /\ cache.cur_pos = k
  <2>1. slot \in Slots /\ k <= Len(Prompt) /\ (k > 0 => cache.cur_pos = k)
    BY <1>1, <1>2 DEF Inv, JobOK, Prompt, Is
  <2>2. k \in Nat \ {0} BY <1>1, <2>1, SlotsAssumption, Served, <1>2 DEF IsRequest
  <2> QED BY <2>1, <2>2
<1>4. PICK s \in Qwen35Save(snaps[slot]) : PutSnap(slot, s) BY DEF Qwen35InlineSnap
<1>5. ASSUME s.used, job.exact PROVE SnapRight(s, SubSeq(Prompt, 1, s.cur_pos))
  <2> DEFINE new == snapshot_target_cache(cache)
  <2>1. s = new
    <3>1. ~(cache.cur_pos <= 0) BY <1>3
    <3>2. s \in WithAlloc(new, ~snaps[slot].used \/ snaps[slot].cur_pos # cache.cur_pos)
      BY <1>4, <3>1 DEF Qwen35Save
    <3> HIDE DEF new
    <3>3. s = new \/ s = NoSnap BY <3>2 DEF WithAlloc
    <3> QED BY <1>5, <3>3, UnusedRight
  <2>2. Prompt \in Seq(Tokens) /\ Len(Prompt) \in Nat /\ IsCache(cache) BY <1>2, Served
  <2>3. s.used /\ ~s.thin /\ s.cur_pos = k /\ s.ssm = cache.ssm /\ s.last_tok = cache.last_tok
        /\ s.kv = Upto(cache.kv, k)
    BY <1>3, <2>1 DEF snapshot_target_cache
  <2> DEFINE p == SubSeq(Prompt, 1, k)
  <2>4. p \in Seq(Tokens) /\ Len(p) = k /\ SubSeq(p, 1, k) = p
    <3>1. k \in 0..Len(Prompt) BY <1>3, <2>2
    <3> HIDE DEF k
    <3>2. p \in Seq(Tokens) /\ Len(p) = k BY <2>2, <3>1, PrefixFacts
    <3> QED BY <3>2, SubSeqFull
  <2>5. Lesser(k, Len(Prompt)) = k BY <1>3, <2>2, LesserFacts
  <2>6. Begins(cache.kv, p) /\ cache.ssm = p /\ cache.last_tok = Predict(p) /\ cache.kv = p
    <3>1. InWindow BY <1>1 DEF InWindow, Is
    <3>2. k > 0 BY <1>3
    <3> QED BY <1>1, <1>5, <2>5, <3>1, <3>2 DEF AnswerInv, WorkInv, PrefillRight, Holds
  <2> HIDE DEF p, k
  <2>7. s.kv = p
    <3>1. k \in 0..Len(p) BY <1>3, <2>4
    <3>2. cache.kv \in Seq(Row) BY <2>2 DEF IsCache
    <3>3. Upto(cache.kv, k) = SubSeq(p, 1, k) BY <2>4, <2>6, <3>1, <3>2, UptoRight
    <3> QED BY <2>3, <2>4, <3>3
  <2>8. Begins(s.kv, p) BY <2>4, <2>7, ContextSelf
  <2>9. SnapRight(s, p) BY <1>1, <2>3, <2>4, <2>6, <2>7, <2>8 DEF SnapRight, Is
  <2> QED BY <2>3, <2>9 DEF p
<1>6. SnapsRight'
  <2> HIDE DEF slot
  <2> QED BY <1>1, <1>3, <1>4, <1>5, PutSnapRight DEF Inv, AnswerInv
<1>7. RingSize' BY <1>1 DEF AnswerInv, RingSize, Is
<1>8. /\ job'.at = job.at /\ job'.req = job.req /\ job'.committed = job.committed
      /\ job'.exact = job.exact /\ job'.last = job.last
  BY <1>1, <1>2, Served DEF IsJob
<1>9. WorkInv'
  <2>1. Prompt' = Prompt /\ InWindow' = InWindow BY <1>1, <1>8, SameRequest
  <2>2. stream' = <<>> BY <1>1 DEF AnswerInv, WorkInv, PlaceOK
  <2>3. PrefillRight'
    BY <1>1, <1>8, <2>1 DEF AnswerInv, WorkInv, PrefillRight, Holds, Is
  <2> QED BY <1>1, <1>8, <2>2, <2>3, InPrefill
<1> QED BY <1>6, <1>7, <1>9 DEF AnswerInv

LEMMA Qwen35PrefillRight == ASSUME Inv, AnswerInv, Qwen35Prefill PROVE AnswerInv'
<1> DEFINE k == job.committed
           n == Qwen35ChunkLen(k)
           p == SubSeq(job.req.prompt, k + 1, k + n)
<1>1. /\ Is("qwen35") /\ job.at = "prefill" /\ k < Len(job.req.prompt) /\ job.at \in Working
      /\ UNCHANGED <<config, snaps, named, parked, drafter, commands>>
  BY DEF Qwen35Prefill, KeepSnaps, Working
<1>2. n \in Nat \ {0} /\ k + n <= Len(Prompt) BY <1>1, Qwen35ChunkFacts DEF Prompt
<1>3. /\ k \in Nat /\ Prompt \in Seq(Tokens) /\ Len(Prompt) \in Nat /\ IsJob(job) /\ IsCache(cache)
      /\ job.refused \in BOOLEAN /\ job.req.n_gen \in Nat /\ Len(Prompt) + job.req.n_gen <= MaxCtx
  BY <1>1, Served
<1>4. SnapsRight' /\ RingSize'
  BY <1>1, SameSnapsRight DEF AnswerInv, RingSize, Is
<1>5. PICK g : g = Qwen35Graph(cache, p, k) OBVIOUS
<1>6. CASE /\ \E t \in Pick(Last(g.out)) :
                cache' = [g.cache EXCEPT !.last_tok = t, !.cur_pos = k + n]
           /\ job' = [job EXCEPT !.committed = k + n]
           /\ stream' = stream
  <2>1. p \in Seq(Tokens) /\ Len(p) = n /\ p # <<>>
    <3> HIDE DEF n, k
    <3>1. p \in Seq(Tokens) /\ Len(p) = n BY <1>2, <1>3, ChunkFacts DEF Prompt
    <3> QED BY <1>2, <3>1
  <2>2. /\ job'.at = "prefill" /\ job'.req = job.req /\ job'.exact = job.exact /\ job'.committed = k + n
    <3> HIDE DEF n, k
    <3> QED BY <1>1, <1>3, <1>6 DEF IsJob
  <2>3. stream' = <<>> BY <1>1, <1>6 DEF AnswerInv, WorkInv, PlaceOK
  <2>4. Prompt' = Prompt /\ InWindow' = InWindow /\ InWindow
    BY <1>1, <2>2, SameRequest DEF InWindow, Is
  <2>5. ASSUME job.exact PROVE PrefillRight'
    <3> DEFINE ctx == SubSeq(Prompt, 1, k)
    <3>1. Lesser(k, Len(Prompt)) = k
      <4>1. k <= Len(Prompt) BY <1>1, <1>3 DEF Prompt
      <4> HIDE DEF k
      <4> QED BY <1>3, <4>1, LesserFacts
    <3>2. ctx \in Seq(Tokens) /\ Len(ctx) = k
      <4>1. k \in 0..Len(Prompt) BY <1>1, <1>3 DEF Prompt
      <4> HIDE DEF k
      <4> QED BY <1>3, <4>1, PrefixFacts
    <3>3. Begins(cache.kv, ctx) /\ cache.ssm = ctx
      BY <1>1, <2>4, <2>5, <3>1 DEF AnswerInv, WorkInv, PrefillRight, Holds
    <3>4. ctx \o p = SubSeq(Prompt, 1, k + n)
      <4> HIDE DEF n, k
      <4>1. SubSeq(Prompt, 1, k) \o SubSeq(Prompt, k + 1, k + n) = SubSeq(Prompt, 1, k + n)
        BY <1>2, <1>3, ChunkJoins
      <4> QED BY <4>1 DEF Prompt
    <3>5. Len(ctx) + Len(p) <= MaxCtx
      <4> HIDE DEF n, k, p, ctx
      <4> QED BY <1>2, <1>3, <2>1, <3>2, SizesAreNat
    <3> HIDE DEF n, p, ctx
    <3>6. g = Qwen35Graph(cache, p, Len(ctx)) BY <1>5, <3>2
    <3> HIDE DEF k
    <3>7. /\ IsCache(g.cache) /\ NextRight(g.out, ctx, p)
          /\ g.cache.kv = ctx \o p /\ g.cache.ssm = ctx \o p /\ Begins(g.cache.kv, ctx \o p)
      <4>1. IsCache(cache) BY <1>3
      <4>2. p \in Seq(Tokens) /\ p # <<>> BY <2>1
      <4>3. ctx \in Seq(Tokens) BY <3>2
      <4> QED BY ONLY <3>3, <3>5, <3>6, <4>1, <4>2, <4>3, Qwen35PassRight
    <3>8. \A t \in Pick(Last(g.out)) : t = Predict(ctx \o p) BY ONLY <3>7 DEF NextRight
    <3>9. PICK t \in Pick(Last(g.out)) : cache' = [g.cache EXCEPT !.last_tok = t, !.cur_pos = k + n]
      BY <1>6
    <3>10. cache'.kv = g.cache.kv /\ cache'.ssm = g.cache.ssm /\ cache'.last_tok = t
      BY <3>7, <3>9 DEF IsCache
    <3>11. Lesser(k + n, Len(Prompt)) = k + n
      <4>1. k + n \in Nat /\ k + n <= Len(Prompt) /\ Len(Prompt) \in Nat BY <1>2, <1>3
      <4> QED BY ONLY <4>1, LesserFacts
    <3> DEFINE whole == SubSeq(Prompt, 1, k + n)
    <3>12. /\ Begins(cache'.kv, whole) /\ cache'.ssm = whole /\ cache'.kv = whole
           /\ cache'.last_tok = Predict(whole)
      BY <3>4, <3>7, <3>8, <3>9, <3>10
    <3>13. SubSeq(Prompt', 1, Lesser(job'.committed, Len(Prompt'))) = whole
           /\ SubSeq(Prompt', 1, job'.committed) = whole
      BY <2>2, <2>4, <3>11
    <3> HIDE DEF whole
    <3> QED BY <1>1, <3>12, <3>13 DEF PrefillRight, Holds, Is
  <2>6. PrefillRight' BY <2>2, <2>5 DEF PrefillRight
  <2> QED BY <1>4, <2>2, <2>3, <2>6, InPrefill DEF AnswerInv
<1>7. CASE Return(FALSE)
  <2>1. WorkInv' BY <1>1, <1>3, <1>7, FailsRight DEF AnswerInv, Return
  <2> QED BY <1>4, <2>1 DEF AnswerInv
<1> QED
  <2>1. \/ /\ \E t \in Pick(Last(g.out)) :
                 cache' = [g.cache EXCEPT !.last_tok = t, !.cur_pos = k + n]
           /\ job' = [job EXCEPT !.committed = k + n]
           /\ stream' = stream
        \/ Return(FALSE)
    BY <1>5 DEF Qwen35Prefill
  <2> QED BY ZenonT(40), <1>6, <1>7, <2>1

\* Room for what is still to be streamed, and for a block after it.
LEMMA RoomFacts ==
  ASSUME Inv, WorkInv, job.at \in Working, Sure
  PROVE  /\ Len(Prompt) + job.req.n_gen <= MaxCtx
         /\ CanSpec => Len(Prompt) + job.req.n_gen + (QLen - 1) <= MaxCtx
         /\ CanSpec /\ Is("gemma4") => Len(Prompt) + job.req.n_gen + (QLen - 1) <= Window
         /\ Is("gemma4") => Len(Prompt) <= Window
         /\ InWindow
<1>1. /\ Len(Prompt) \in Nat /\ job.req.n_gen \in Nat /\ Len(Prompt) + job.req.n_gen <= MaxCtx
      /\ QLen \in Nat \ {0, 1} /\ Window \in Nat
  BY Served, BlockSize, SizesAreNat
<1>2. Room = Len(Prompt) + job.req.n_gen + IF CanSpec THEN QLen - 1 ELSE 0 BY DEF Room, Prompt
<1>3. Room <= MaxCtx /\ (Is("gemma4") => (IF CanSpec THEN Room ELSE Len(Prompt)) <= Window)
  BY DEF Sure, Fits, Prompt
<1>4. CASE CanSpec
  <2>1. Room = Len(Prompt) + job.req.n_gen + (QLen - 1) BY <1>2, <1>4
  <2>2. Is("gemma4") => Room <= Window BY <1>3, <1>4
  <2>3. Is("gemma4") => Len(Prompt) <= Window BY <1>1, <2>1, <2>2
  <2> QED BY <1>1, <1>3, <2>1, <2>2, <2>3 DEF InWindow, Prompt
<1>5. CASE ~CanSpec BY <1>1, <1>3, <1>5 DEF InWindow, Prompt
<1> QED BY <1>4, <1>5

\* A request whose prompt is in the cache and that has streamed nothing.
LEMMA NothingYet ==
  ASSUME Inv, WorkInv, job.at = "prefill"
  PROVE  stream = <<>> /\ SoFar = Prompt /\ Len(stream) = 0
<1>1. stream = <<>> BY DEF WorkInv, PlaceOK
<1>2. Prompt \in Seq(Tokens) BY Served DEF Working
<1>3. Prompt \o <<>> = Prompt BY <1>2, ConcatEmptySeq
<1> QED BY <1>1, <1>3 DEF SoFar

\* The first token of the plain loops, accepted or not.
LEMMA FirstEmit ==
  ASSUME stream = <<>>, NEW t \in Tokens, NEW a \in BOOLEAN
  PROVE  emit(t, a) = IF a THEN <<t>> ELSE <<>>
BY SMTT(30) DEF emit

LEMMA Qwen35StartRight == ASSUME Inv, AnswerInv, Qwen35Start PROVE AnswerInv'
<1>1. /\ Is("qwen35") /\ job.at = "prefill" /\ job.committed >= Len(job.req.prompt)
      /\ UNCHANGED <<config, snaps, named, mirror, parked, drafter, commands>>
      /\ job.at \in Working
  BY DEF Qwen35Start, KeepSnaps, Working
<1>2. WorkInv BY DEF AnswerInv
<1>3. /\ IsJob(job) /\ IsRequest(job.req) /\ IsCache(cache) /\ Prompt \in Seq(Tokens)
      /\ Len(Prompt) \in Nat \ {0} /\ job.req.n_gen \in Nat /\ job.refused \in BOOLEAN
      /\ job.n = 0 /\ job.committed = Len(Prompt) /\ cache.cur_pos = Len(Prompt)
      /\ cache.last_tok \in Tokens
  <2>1. /\ IsJob(job) /\ IsRequest(job.req) /\ IsCache(cache) /\ Prompt \in Seq(Tokens)
        /\ Len(Prompt) \in Nat \ {0} /\ job.req.n_gen \in Nat /\ job.refused \in BOOLEAN
        /\ job.committed \in Nat
    BY <1>1, Served
  <2>2. job.committed <= Len(Prompt) /\ job.committed >= Len(Prompt) /\ job.n = 0
    BY <1>1 DEF Inv, JobOK, Prompt, Is
  <2>3. job.committed = Len(Prompt) /\ job.committed > 0 BY <2>1, <2>2
  <2>4. cache.cur_pos = job.committed BY <1>1, <2>3 DEF Inv, JobOK
  <2>5. cache.last_tok \in Tokens BY <1>1, <2>3 DEF Inv, LastKnown
  <2> QED BY <2>1, <2>2, <2>3, <2>4, <2>5
<1>4. SnapsRight' /\ RingSize' BY <1>1, SameSnapsRight DEF AnswerInv, RingSize, Is
<1>5. stream = <<>> /\ SoFar = Prompt /\ Len(stream) = 0 BY <1>1, <1>2, NothingYet
<1>6. ASSUME Sure
      PROVE  Begins(cache.kv, Prompt) /\ cache.ssm = Prompt /\ cache.kv = Prompt
             /\ cache.last_tok = Predict(Prompt)
  <2>1. InWindow /\ job.exact BY <1>1, <1>6 DEF InWindow, Is, Sure
  <2>2. Lesser(job.committed, Len(Prompt)) = Len(Prompt) /\ job.committed > 0 BY <1>3, LesserFacts
  <2>3. SubSeq(Prompt, 1, Len(Prompt)) = Prompt BY <1>3, SubSeqFull
  <2> QED BY <1>1, <1>2, <1>3, <2>1, <2>2, <2>3 DEF WorkInv, PrefillRight, Holds
<1>7. CASE job.req.n_gen = 0 /\ Return(TRUE)
  <2>1. job' = Returned(TRUE, job.refused) /\ stream' = stream BY <1>7 DEF Return
  <2>2. Complete(stream) BY <1>5, <1>7 DEF Complete
  <2>3. WorkInv' BY <1>1, <1>2, <1>3, <2>1, <2>2, FailsRight
  <2> QED BY <1>4, <2>3 DEF AnswerInv
<1>8. CASE /\ job.req.n_gen > 0 /\ Qwen35CanSpec
           /\ job' = [job EXCEPT !.at = "draft", !.last = cache.last_tok]
           /\ UNCHANGED <<cache, stream>>
  <2>1. /\ job'.at = "draft" /\ job'.n = job.n /\ job'.req = job.req /\ job'.exact = job.exact
        /\ job'.committed = job.committed /\ job'.last = cache.last_tok
    BY <1>3, <1>8 DEF IsJob
  <2>2. CanSpec BY <1>1, <1>8 DEF CanSpec
  <2>3. Sure' = Sure /\ CanSpec' = CanSpec /\ Prompt' = Prompt BY <1>1, <2>1, SameRequest
  <2>4. SoFar' = SoFar BY <1>8, <2>3 DEF SoFar
  <2>5. GreedyAfter(Prompt, <<>>) BY GreedyEmpty
  <2>6. ASSUME Sure PROVE DraftRight'
    BY <1>1, <1>3, <1>5, <1>6, <1>8, <2>1, <2>3, <2>4, <2>5, <2>6 DEF DraftRight, Holds, Is
  <2>7. WorkInv' BY <1>3, <1>5, <1>8, <2>1, <2>2, <2>3, <2>6, InDraft
  <2> QED BY <1>4, <2>7 DEF AnswerInv
<1> DEFINE t == cache.last_tok
<1>9. ASSUME NEW a \in Accepts, t = Eos \/ job.req.n_gen = 1, job.req.n_gen > 0,
             stream' = Append(emit(t, a), -1), job' = Returned(TRUE, ~a)
      PROVE  AnswerInv'
  <2>1. a \in BOOLEAN BY AcceptsBool
  <2>2. PICK r \in BOOLEAN : r = ~a OBVIOUS
  <2>3. job' = Returned(TRUE, r) /\ (~a => r) BY <1>9, <2>2
  <2>4. t \in Tokens /\ (Sure => t = Predict(SoFar)) BY <1>3, <1>5, <1>6
  <2>5. t = Eos \/ Len(stream) + 1 = job.req.n_gen BY <1>5, <1>9
  <2>6. stream' = Append(emit(t, a), -1) BY <1>9
  <2> HIDE DEF t
  <2>7. WorkInv' BY <1>1, <1>2, <2>1, <2>2, <2>3, <2>4, <2>5, <2>6, LastRight
  <2> QED BY <1>4, <2>7 DEF AnswerInv
<1>10. ASSUME NEW a \in Accepts, job.req.n_gen # 1, job.req.n_gen > 0, ~Qwen35CanSpec,
              stream' = emit(t, a),
              job' = [job EXCEPT !.at = "ar", !.last = t, !.n = 1,
                                 !.committed = @ + 1, !.refused = ~a]
       PROVE  AnswerInv'
  <2>1. a \in BOOLEAN /\ (~a) \in BOOLEAN BY AcceptsBool
  <2>2. /\ job'.at = "ar" /\ job'.req = job.req /\ job'.exact = job.exact /\ job'.refused = ~a
    <3>1. job.committed + 1 \in Nat BY <1>3
    <3> QED BY <1>3, <1>10, <2>1, <3>1 DEF IsJob
  <2>3. Sure' = Sure /\ CanSpec' = CanSpec /\ Prompt' = Prompt BY <1>1, <2>2, SameRequest
  <2>4. stream' = IF a THEN <<t>> ELSE <<>>
    <3>1. t \in Tokens /\ stream' = emit(t, a) BY <1>3, <1>10
    <3> HIDE DEF t
    <3> QED BY <1>5, <2>1, <3>1, FirstEmit
  <2>5. ~CanSpec BY <1>1, <1>10 DEF CanSpec, Is
  <2>6. <<t>> # <<>> OBVIOUS
  <2>7. ~a => job.req.via = "http"
    <3>1. ASSUME ~a PROVE FALSE \in Accepts
      <4>1. a = FALSE BY <2>1, <3>1
      <4> QED BY <1>10, <4>1
    <3> QED BY <3>1, AcceptsFacts
  <2>8. /\ job'.refused <=> stream' = <<>>
        /\ job'.refused => job.req.via = "http"
    <3> HIDE DEF t
    <3>1. CASE a BY <2>2, <2>4, <2>6, <3>1
    <3>2. CASE ~a BY <2>2, <2>4, <2>7, <3>2
    <3> QED BY <2>1, <3>1, <3>2
  <2>9. PlaceOK' BY <1>1, <1>3, <1>10, <2>2, <2>3, <2>5, <2>8 DEF PlaceOK, Is
  <2>10. ASSUME Sure PROVE GreedyTo(Prompt, stream', 1)
    <3>1. CASE ~a BY <2>4, <3>1, GreedyEmpty
    <3>2. CASE a
      <4>1. GreedyTo(Prompt, <<>>, 1) /\ <<>> \in Seq(Tokens) /\ 1 \in Int BY GreedyEmpty
      <4>2. Prompt \o <<>> = Prompt BY <1>3, ConcatEmptySeq
      <4>3. t = Predict(Prompt \o <<>>) /\ t \in Tokens BY <1>3, <1>6, <2>10, <4>2
      <4> HIDE DEF t
      <4>4. GreedyTo(Prompt, Append(<<>>, t), 1) BY <4>1, <4>3, GreedyToAppend
      <4>5. Append(<<>>, t) = <<t>> OBVIOUS
      <4> QED BY <2>4, <3>2, <4>4, <4>5
    <3> QED BY <2>1, <3>1, <3>2
  <2>11. Sure' => PlainRight' BY <1>1, <2>3, <2>10 DEF PlainRight, Is
  <2>12. WorkInv' BY <2>2, <2>9, <2>11, InPlain
  <2> QED BY <1>4, <2>12 DEF AnswerInv
<1> QED BY <1>7, <1>8, <1>9, <1>10 DEF Qwen35Start

LEMMA Qwen35ArRight == ASSUME Inv, AnswerInv, Qwen35Ar PROVE AnswerInv'
<1>1. /\ Is("qwen35") /\ job.at = "ar" /\ job.at \in Working
      /\ UNCHANGED <<config, snaps, named, mirror, parked, drafter, commands>>
  BY DEF Qwen35Ar, KeepSnaps, Working
<1>2. WorkInv BY DEF AnswerInv
<1>3. /\ IsJob(job) /\ IsCache(cache) /\ job.n \in Nat /\ job.committed \in Nat
      /\ job.req.n_gen \in Nat /\ job.refused \in BOOLEAN /\ job.last \in Tokens
      /\ stream \in Seq(Tokens) /\ Prompt \in Seq(Tokens)
  <2>1. job.last \in Tokens BY <1>1 DEF Inv, JobOK, Is
  <2> QED BY <1>1, <1>2, <2>1, Served, StreamRight
<1>4. SnapsRight' /\ RingSize' BY <1>1, SameSnapsRight DEF AnswerInv, RingSize, Is
<1>5. /\ ~CanSpec /\ job.req.n_gen > 1 /\ (job.refused <=> stream = <<>>)
      /\ job.refused => job.req.via = "http"
  BY <1>1, <1>2 DEF WorkInv, PlaceOK
<1>6. Claimed = 1 BY <1>1, <1>5 DEF Claimed, Is
<1>7. PICK g : g = Qwen35Graph(cache, <<job.last>>, job.committed) OBVIOUS
<1>8. Pick(g.out[1]) \subseteq Tokens
  <2>1. <<job.last>> \in Seq(Tokens) /\ Len(<<job.last>>) = 1 BY <1>3
  <2> QED BY <1>3, <1>7, <2>1, Qwen35One, Zenon
<1>9. ASSUME NEW t \in Pick(g.out[1]), NEW a \in Accepts,
             stream' = Append(emit(t, a), -1), job' = Returned(TRUE, job.refused \/ ~a)
      PROVE  AnswerInv'
  <2>1. a \in BOOLEAN /\ t \in Tokens BY <1>8, AcceptsBool
  <2>2. PICK r \in BOOLEAN : r = (job.refused \/ ~a) OBVIOUS
  <2>3. job' = Returned(TRUE, r) /\ (~a => r) BY <1>9, <2>2
  <2>4. ~(a /\ Len(stream) + 1 <= 1)
    <3> SUFFICES ASSUME a, Len(stream) + 1 <= 1 PROVE FALSE OBVIOUS
    <3>1. Len(stream) = 0 BY <1>3
    <3>2. stream = <<>> BY <1>3, <3>1
    <3>3. Accepts = {FALSE} BY <1>5, <3>2, RefusedFacts
    <3>4. a = FALSE BY <1>9, <3>3
    <3> QED BY <3>4
  <2>5. ~Uncut BY <1>3, <1>5, <1>6 DEF Uncut
  <2>6. WorkInv' BY <1>1, <1>2, <1>6, <1>9, <2>1, <2>2, <2>3, <2>4, <2>5, LastRight
  <2> QED BY <1>4, <2>6 DEF AnswerInv
<1>10. ASSUME NEW t \in Pick(g.out[1]), NEW a \in Accepts, ~job.refused, a,
              stream' = emit(t, a),
              job' = [job EXCEPT !.last = t, !.n = @ + 1, !.committed = @ + 1]
       PROVE  AnswerInv'
  <2>1. t \in Tokens BY <1>8
  <2>2. /\ job'.at = "ar" /\ job'.req = job.req /\ job'.exact = job.exact /\ job'.refused = job.refused
    BY <1>1, <1>3, <1>10 DEF IsJob
  <2>3. Sure' = Sure /\ CanSpec' = CanSpec /\ Prompt' = Prompt BY <1>1, <2>2, SameRequest
  <2>4. stream' = Append(stream, t) /\ stream' # <<>>
    <3>1. stream' = Append(stream, t) BY <1>10 DEF emit
    <3>3. Len(Append(stream, t)) = Len(stream) + 1 /\ Len(stream) \in Nat BY <1>3, AppendAny
    <3>4. PICK v : v = Append(stream, t) OBVIOUS
    <3>5. Len(v) > 0 BY <3>3, <3>4
    <3>6. v # <<>> BY <3>5
    <3> QED BY <3>1, <3>4, <3>6
  <2>5. PlaceOK' BY <1>1, <1>5, <1>10, <2>2, <2>3, <2>4 DEF PlaceOK, Is
  <2>6. ASSUME Sure PROVE GreedyTo(Prompt, stream', 1)
    <3>1. GreedyTo(Prompt, stream, 1) BY <1>1, <1>2, <2>6 DEF WorkInv, PlainRight
    <3>2. ~(Len(stream) + 1 <= 1)
      <4>1. stream # <<>> BY <1>5, <1>10
      <4> QED BY <1>3, <4>1
    <3>3. 1 \in Int OBVIOUS
    <3>4. GreedyTo(Prompt, Append(stream, t), 1)
      BY <1>3, <2>1, <3>1, <3>2, <3>3, GreedyToAppend
    <3> QED BY <2>4, <3>4
  <2>7. Sure' => PlainRight' BY <1>1, <2>3, <2>6 DEF PlainRight, Is
  <2>8. WorkInv' BY <2>2, <2>5, <2>7, InPlain
  <2> QED BY <1>4, <2>8 DEF AnswerInv
<1>11. CASE ReturnMarked(FALSE)
  <2>1. WorkInv' BY <1>1, <1>2, <1>3, <1>11, FailsRight DEF ReturnMarked
  <2> QED BY <1>4, <2>1 DEF AnswerInv
<1> QED
  <2>1. \/ ReturnMarked(FALSE)
        \/ \E t \in Pick(g.out[1]), a \in Accepts :
             IF job.refused \/ ~a \/ t = Eos \/ job.n + 1 = job.req.n_gen
             THEN /\ stream' = Append(emit(t, a), -1)
                  /\ job' = Returned(TRUE, job.refused \/ ~a)
             ELSE /\ stream' = emit(t, a)
                  /\ job' = [job EXCEPT !.last = t, !.n = @ + 1, !.committed = @ + 1]
    BY <1>7 DEF Qwen35Ar
  <2>2. ASSUME NEW t \in Pick(g.out[1]), NEW a \in Accepts,
               IF job.refused \/ ~a \/ t = Eos \/ job.n + 1 = job.req.n_gen
               THEN /\ stream' = Append(emit(t, a), -1)
                    /\ job' = Returned(TRUE, job.refused \/ ~a)
               ELSE /\ stream' = emit(t, a)
                    /\ job' = [job EXCEPT !.last = t, !.n = @ + 1, !.committed = @ + 1]
        PROVE  AnswerInv'
    <3>1. CASE job.refused \/ ~a \/ t = Eos \/ job.n + 1 = job.req.n_gen BY <1>9, <2>2, <3>1
    <3>2. CASE ~(job.refused \/ ~a \/ t = Eos \/ job.n + 1 = job.req.n_gen) BY <1>10, <2>2, <3>2
    <3> QED BY <3>1, <3>2
  <2> QED BY <1>11, <2>1, <2>2

\* What a speculative turn starts from.
LEMMA TurnFacts ==
  ASSUME Inv, WorkInv, job.at \in {"draft", "commit"}
  PROVE  /\ CanSpec /\ Len(stream) = job.n /\ job.n < job.req.n_gen /\ job.at \in Working
         /\ IsJob(job) /\ IsCache(cache) /\ job.n \in Nat /\ job.req.n_gen \in Nat
         /\ job.committed \in Nat /\ job.refused \in BOOLEAN
         /\ SoFar \in Seq(Tokens) /\ Len(SoFar) = Len(Prompt) + job.n
         /\ Prompt \in Seq(Tokens) /\ stream \in Seq(Tokens) /\ Len(Prompt) \in Nat \ {0}
         /\ Sure => /\ GreedyAfter(Prompt, stream) /\ job.committed = Len(SoFar)
                    /\ Len(SoFar) + QLen <= MaxCtx
                    /\ Is("gemma4") => Len(SoFar) + QLen <= Window
<1>1. job.at \in Working BY DEF Working
<1>2. CanSpec /\ Len(stream) = job.n /\ job.n < job.req.n_gen
  BY DEF Inv, JobOK, WorkInv, PlaceOK
<1>3. /\ IsJob(job) /\ IsCache(cache) /\ job.n \in Nat /\ job.req.n_gen \in Nat
      /\ job.committed \in Nat /\ job.refused \in BOOLEAN
      /\ SoFar \in Seq(Tokens) /\ Len(SoFar) = Len(Prompt) + job.n
      /\ Prompt \in Seq(Tokens) /\ stream \in Seq(Tokens) /\ Len(Prompt) \in Nat \ {0}
  BY <1>1, <1>2, Served, StreamRight
<1>4. ASSUME Sure
      PROVE  /\ GreedyAfter(Prompt, stream) /\ job.committed = Len(SoFar)
             /\ Len(SoFar) + QLen <= MaxCtx
             /\ Is("gemma4") => Len(SoFar) + QLen <= Window
  <2>1. /\ Len(Prompt) + job.req.n_gen + (QLen - 1) <= MaxCtx
        /\ Is("gemma4") => Len(Prompt) + job.req.n_gen + (QLen - 1) <= Window
    BY <1>1, <1>2, <1>4, RoomFacts
  <2>2. QLen \in Nat /\ MaxCtx \in Nat /\ Window \in Nat BY BlockSize, SizesAreNat
  <2>3. GreedyAfter(Prompt, stream) /\ job.committed = Len(SoFar)
    BY <1>4 DEF WorkInv, DraftRight, CommitRight
  <2> QED BY SMTT(30), <1>2, <1>3, <2>1, <2>2, <2>3
<1> QED BY <1>1, <1>2, <1>3, <1>4

LEMMA Qwen35DraftRight == ASSUME Inv, AnswerInv, Qwen35Draft PROVE AnswerInv'
<1>1. /\ Is("qwen35") /\ job.at = "draft"
      /\ UNCHANGED <<config, snaps, named, mirror, parked, drafter, commands>>
  BY DEF Qwen35Draft, KeepSnaps
<1>2. WorkInv BY DEF AnswerInv
<1>3. /\ CanSpec /\ Len(stream) = job.n /\ job.at \in Working /\ IsJob(job) /\ IsCache(cache)
      /\ job.committed \in Nat /\ job.refused \in BOOLEAN /\ SoFar \in Seq(Tokens)
      /\ Sure => GreedyAfter(Prompt, stream) /\ job.committed = Len(SoFar)
                   /\ Len(SoFar) + QLen <= MaxCtx
  BY <1>1, <1>2, TurnFacts
<1>4. SnapsRight' /\ RingSize' BY <1>1, SameSnapsRight DEF AnswerInv, RingSize, Is
<1>5. ASSUME NEW d \in Drafts, NEW t \in Picks(Qwen35Graph(cache, d, job.committed).out),
             cache' = [Qwen35Graph(cache, d, job.committed).cache
                         EXCEPT !.cur_pos = job.committed + QLen],
             job' = [job EXCEPT !.at = "commit", !.draft = d, !.target = t, !.saved = cache.ssm],
             stream' = stream
      PROVE  AnswerInv'
  <2>1. d \in Seq(Tokens) /\ Len(d) = QLen /\ d # <<>> /\ d[1] = job.last BY BlockFacts DEF Drafts
  <2>2. /\ job'.at = "commit" /\ job'.n = job.n /\ job'.req = job.req /\ job'.exact = job.exact
        /\ job'.draft = d /\ job'.target = t /\ job'.saved = cache.ssm /\ job'.committed = job.committed
    BY <1>3, <1>5 DEF IsJob
  <2>3. Sure' = Sure /\ CanSpec' = CanSpec /\ Prompt' = Prompt BY <1>1, <2>2, SameRequest
  <2>4. SoFar' = SoFar BY <1>5, <2>3 DEF SoFar
  <2>5. ASSUME Sure PROVE CommitRight'
    <3>1. Begins(cache.kv, SoFar) /\ cache.ssm = SoFar /\ job.last = Predict(SoFar)
      BY <1>1, <1>2, <2>5 DEF WorkInv, DraftRight, Holds
    <3>2. Len(SoFar) + Len(d) <= MaxCtx /\ job.committed = Len(SoFar) BY <1>3, <2>1, <2>5
    <3>3. PICK g : g = Qwen35Graph(cache, d, Len(SoFar)) OBVIOUS
    <3>4. IsCache(g.cache) /\ NextRight(g.out, SoFar, d) /\ g.cache.kv = SoFar \o d
      BY <1>3, <2>1, <3>1, <3>2, <3>3, Qwen35PassRight
    <3>5. \A i \in 1..QLen : t[i] = Predict(SoFar \o SubSeq(d, 1, i))
      BY <1>5, <2>1, <3>2, <3>3, <3>4 DEF NextRight
    <3>6. cache'.kv = SoFar \o d
      <4>1. cache' = [g.cache EXCEPT !.cur_pos = job.committed + QLen] BY <1>5, <3>2, <3>3
      <4> QED BY <3>4, <4>1 DEF IsCache
    <3>7. Begins(SoFar \o d, SoFar)
      BY <1>3, <2>1, ConcatProperties DEF Begins
    <3> QED BY <1>1, <1>3, <1>5, <2>1, <2>2, <2>3, <2>4, <2>5, <3>1, <3>5, <3>6, <3>7
            DEF CommitRight, Is
  <2>6. WorkInv' BY <1>3, <1>5, <2>2, <2>3, <2>5, InCommit
  <2> QED BY <1>4, <2>6 DEF AnswerInv
<1>6. CASE Return(FALSE)
  <2>1. WorkInv' BY <1>1, <1>2, <1>3, <1>6, FailsRight DEF Return
  <2> QED BY <1>4, <2>1 DEF AnswerInv
<1> QED BY <1>5, <1>6 DEF Qwen35Draft

\* The block that is kept is the target's continuation.
LEMMA KeptRight ==
  ASSUME Inv, WorkInv, job.at = "commit", Sure
  PROVE  LET a == AcceptN(job.draft, job.target)
             n == CommitN(a, job.req.n_gen - job.n)
         IN  GreedyAfter(SoFar, CommitTokens(job.draft, job.target, a, n))
<1> DEFINE a == AcceptN(job.draft, job.target)
           n == CommitN(a, job.req.n_gen - job.n)
<1>1. n \in 1..QLen /\ n <= a + 1 BY KeptFacts
<1>2. job.draft \in Seq(Tokens) /\ Len(job.draft) = QLen /\ job.target \in [1..QLen -> Tokens]
  BY DEF Inv, JobOK
<1>3. /\ job.draft[1] = Predict(SoFar)
      /\ \A i \in 1..QLen : job.target[i] = Predict(SoFar \o SubSeq(job.draft, 1, i))
  BY DEF WorkInv, CommitRight
<1>4. SoFar \in Seq(Tokens) BY TurnFacts
<1> HIDE DEF n
<1>5. GreedyAfter(SoFar, CommitTokens(job.draft, job.target, AcceptN(job.draft, job.target), n))
  BY <1>1, <1>2, <1>3, <1>4, CommitIsGreedy
<1> QED BY <1>5 DEF n

LEMMA Qwen35CommitRight == ASSUME Inv, AnswerInv, Qwen35Commit PROVE AnswerInv'
<1> DEFINE accept_n == AcceptN(job.draft, job.target)
           commit_n == CommitN(accept_n, job.req.n_gen - job.n)
<1>1. /\ Is("qwen35") /\ job.at = "commit"
      /\ UNCHANGED <<config, snaps, named, parked, drafter, commands>>
  BY DEF Qwen35Commit, KeepSnaps
<1>2. WorkInv BY DEF AnswerInv
<1>3. /\ CanSpec /\ Len(stream) = job.n /\ job.at \in Working /\ IsJob(job) /\ IsCache(cache)
      /\ job.n \in Nat /\ job.req.n_gen \in Nat /\ job.n < job.req.n_gen
      /\ job.committed \in Nat /\ job.refused \in BOOLEAN /\ SoFar \in Seq(Tokens)
      /\ Len(SoFar) = Len(Prompt) + job.n /\ Len(Prompt) \in Nat
      /\ Sure => job.committed = Len(SoFar)
  BY <1>1, <1>2, TurnFacts
<1>4. SnapsRight' /\ RingSize' BY <1>1, SameSnapsRight DEF AnswerInv, RingSize, Is
<1>5. PICK w : w = CommitTokens(job.draft, job.target, accept_n, commit_n) OBVIOUS
<1>6. w \in Seq(Tokens) /\ w # <<>> /\ Len(w) <= job.req.n_gen - job.n BY <1>1, <1>5, KeptFacts
<1>7. Sure => GreedyAfter(SoFar, w) BY <1>1, <1>2, <1>5, KeptRight
<1> HIDE DEF accept_n, commit_n
<1>8. PICK g : g = Qwen35Graph(RolledBack(cache), w, job.committed) OBVIOUS
<1>9. IsCache(RolledBack(cache)) /\ IsCache(g.cache) /\ IsOut(g.out, Len(w))
  <2>1. IsCache(RolledBack(cache)) BY <1>3 DEF RolledBack, IsCache
  <2> QED BY <1>3, <1>6, <1>8, <2>1, Qwen35Pass
<1>10. ASSUME Sure
       PROVE  /\ NextRight(g.out, SoFar, w) /\ g.cache.kv = SoFar \o w /\ g.cache.ssm = SoFar \o w
              /\ Begins(g.cache.kv, SoFar \o w)
  <2>1. Begins(cache.kv, SoFar) /\ job.saved = SoFar
    BY <1>1, <1>2, <1>10 DEF WorkInv, CommitRight
  <2>2. Begins(RolledBack(cache).kv, SoFar) /\ RolledBack(cache).ssm = SoFar
    BY <1>3, <2>1 DEF RolledBack, IsCache
  <2>3. Len(SoFar) + Len(w) <= MaxCtx
    <3>1. Len(Prompt) + job.req.n_gen <= MaxCtx BY <1>2, <1>3, <1>10, RoomFacts
    <3> QED BY SMTT(30), <1>3, <1>6, <3>1, SizesAreNat
  <2>4. g = Qwen35Graph(RolledBack(cache), w, Len(SoFar)) BY <1>3, <1>8, <1>10
  <2> QED BY <1>3, <1>6, <1>9, <2>2, <2>3, <2>4, Qwen35PassRight
<1>11. ASSUME NEW t \in Pick(Last(g.out)), NEW e \in EmitBatch(w),
              cache' = [g.cache EXCEPT !.cur_pos = job.committed + e.offered], EndTurn(e, t)
       PROVE  AnswerInv'
  <2>1. t \in Tokens
    <3>1. Len(w) \in Nat \ {0} BY <1>6
    <3> QED BY <1>9, <3>1, OutPicks
  <2>2. cache'.cur_pos = job.committed + e.offered /\ cache'.kv = g.cache.kv /\ cache'.ssm = g.cache.ssm
    BY <1>9, <1>11 DEF IsCache
  <2>3. ASSUME Sure PROVE Holds(cache', SoFar \o w) /\ cache'.kv = SoFar \o w /\ t = Predict(SoFar \o w)
    BY <1>1, <1>10, <1>11, <2>2, <2>3 DEF Holds, Is, NextRight
  <2>4. WorkInv'
    BY <1>1, <1>2, <1>6, <1>7, <1>11, <2>1, <2>2, <2>3, TurnRight
  <2> QED BY <1>4, <2>4 DEF AnswerInv
<1>12. CASE Return(FALSE)
  <2>1. WorkInv' BY <1>1, <1>2, <1>3, <1>12, FailsRight DEF Return
  <2> QED BY <1>4, <2>1 DEF AnswerInv
<1> QED
  <2>1. \/ \E t \in Pick(Last(g.out)), e \in EmitBatch(w) :
             /\ cache' = [g.cache EXCEPT !.cur_pos = job.committed + e.offered]
             /\ EndTurn(e, t)
        \/ Return(FALSE)
    BY <1>5, <1>8 DEF Qwen35Commit, accept_n, commit_n
  <2> QED BY <1>11, <1>12, <2>1

-----------------------------------------------------------------------------
(* The answers of gemma4 *)

LEMMA Gemma4PrefillRight == ASSUME Inv, AnswerInv, Gemma4Prefill PROVE AnswerInv'
<1> DEFINE k == job.committed
           n == Gemma4ChunkLen(k)
           p == SubSeq(job.req.prompt, k + 1, k + n)
           final == k + n = Len(job.req.prompt)
<1>1. /\ Is("gemma4") /\ job.at = "prefill" /\ k < Len(job.req.prompt) /\ job.at \in Working
      /\ UNCHANGED <<config, snaps, named, parked, drafter, commands>>
  BY DEF Gemma4Prefill, KeepSnaps, Working
<1>2. n \in Nat \ {0} /\ k + n <= Len(Prompt) BY <1>1, Gemma4ChunkFacts DEF Prompt
<1>3. /\ k \in Nat /\ Prompt \in Seq(Tokens) /\ Len(Prompt) \in Nat /\ IsJob(job) /\ IsCache(cache)
      /\ job.refused \in BOOLEAN /\ job.req.n_gen \in Nat /\ Len(Prompt) + job.req.n_gen <= MaxCtx
      /\ Window \in Nat /\ MaxCtx \in Nat
  BY <1>1, Served, SizesAreNat
<1>4. SnapsRight' /\ Len(cache.ring) = Window BY <1>1, SameSnapsRight DEF AnswerInv, RingSize
<1>5. PICK g : g = gemma4_step(cache, p, k) OBVIOUS
<1>6. p \in Seq(Tokens) /\ Len(p) = n /\ p # <<>>
  <2> HIDE DEF n, k
  <2>1. p \in Seq(Tokens) /\ Len(p) = n BY <1>2, <1>3, ChunkFacts DEF Prompt
  <2> QED BY <1>2, <2>1
<1>7. IsCache(g.cache) /\ Len(g.cache.ring) = Window /\ g.cache.last_tok = cache.last_tok
  <2> HIDE DEF p, k, n
  <2>1. IsCache(g.cache) /\ g.cache.last_tok = cache.last_tok BY <1>3, <1>5, <1>6, Gemma4Pass
  <2>2. Len(g.cache.ring) = Window BY <1>3, <1>4, <1>5, Gemma4Rings
  <2> QED BY <2>1, <2>2
<1>8. CASE /\ \E t \in IF final THEN Pick(Last(g.out)) ELSE {cache.last_tok} :
                cache' = [g.cache EXCEPT !.last_tok = t]
           /\ job' = [job EXCEPT !.committed = k + n]
           /\ stream' = stream
  <2>1. PICK t \in IF final THEN Pick(Last(g.out)) ELSE {cache.last_tok} :
             cache' = [g.cache EXCEPT !.last_tok = t]
    BY <1>8
  <2>2. /\ job'.at = "prefill" /\ job'.req = job.req /\ job'.exact = job.exact /\ job'.committed = k + n
    <3> HIDE DEF n, k
    <3> QED BY <1>1, <1>3, <1>8 DEF IsJob
  <2>3. stream' = <<>> BY <1>1, <1>8 DEF AnswerInv, WorkInv, PlaceOK
  <2>4. Prompt' = Prompt /\ InWindow' = InWindow BY <1>1, <2>2, SameRequest
  <2>5. cache'.kv = g.cache.kv /\ cache'.ring = g.cache.ring /\ cache'.last_tok = t
    BY <1>7, <2>1 DEF IsCache
  <2>6. RingSize' BY <1>7, <2>5 DEF RingSize
  <2>7. ASSUME job.exact, InWindow PROVE PrefillRight'
    <3> DEFINE ctx == SubSeq(Prompt, 1, k)
               whole == SubSeq(Prompt, 1, k + n)
    <3>1. Lesser(k, Len(Prompt)) = k
      <4>1. k <= Len(Prompt) BY <1>1, <1>3 DEF Prompt
      <4> HIDE DEF k
      <4> QED BY <1>3, <4>1, LesserFacts
    <3>2. ctx \in Seq(Tokens) /\ Len(ctx) = k
      <4>1. k \in 0..Len(Prompt) BY <1>1, <1>3 DEF Prompt
      <4> HIDE DEF k
      <4> QED BY <1>3, <4>1, PrefixFacts
    <3>3. InWindowRight(cache, ctx)
      BY <1>1, <2>7, <3>1 DEF AnswerInv, WorkInv, PrefillRight, Holds, InWindowRight
    <3>4. ctx \o p = whole
      <4> HIDE DEF n, k
      <4>1. SubSeq(Prompt, 1, k) \o SubSeq(Prompt, k + 1, k + n) = SubSeq(Prompt, 1, k + n)
        BY <1>2, <1>3, ChunkJoins
      <4> QED BY <4>1 DEF Prompt
    <3>5. Len(Prompt) <= Window BY <1>1, <2>7 DEF InWindow, Prompt
    <3>6. Len(ctx) + Len(p) <= MaxCtx /\ Len(ctx) + Len(p) <= Window
      <4> HIDE DEF n, k, p, ctx
      <4> QED BY <1>2, <1>3, <1>6, <3>2, <3>5
    <3> HIDE DEF n, p, ctx, whole
    <3>7. g = gemma4_step(cache, p, Len(ctx)) BY <1>5, <3>2
    <3> HIDE DEF k
    <3>8. NextRight(g.out, ctx, p) /\ g.cache.kv = ctx \o p /\ InWindowRight(g.cache, ctx \o p)
      <4>1. IsCache(cache) BY <1>3
      <4>2. p \in Seq(Tokens) /\ p # <<>> BY <1>6
      <4>3. ctx \in Seq(Tokens) BY <3>2
      <4> QED BY ONLY <3>3, <3>6, <3>7, <4>1, <4>2, <4>3, Gemma4PassRight
    <3>9. Lesser(k + n, Len(Prompt)) = k + n BY <1>2, <1>3, LesserFacts
    <3>10. InWindowRight(cache', whole) /\ cache'.kv = whole
      BY <2>5, <3>4, <3>8 DEF InWindowRight
    <3>11. SubSeq(Prompt', 1, Lesser(job'.committed, Len(Prompt'))) = whole
      BY <2>2, <2>4, <3>9 DEF whole
    <3>12. Holds(cache', whole) BY <1>1, <3>10 DEF Holds, InWindowRight, Is
    <3>13. ASSUME k + n = Len(Prompt) PROVE cache'.last_tok = Predict(Prompt) /\ whole = Prompt
      <4>1. whole = Prompt BY <1>3, <3>13, SubSeqFull DEF whole
      <4>2. t \in Pick(Last(g.out)) BY <2>1, <3>13 DEF Prompt
      <4>3. t = Predict(ctx \o p) BY <3>8, <4>2 DEF NextRight
      <4> QED BY <2>5, <3>4, <4>1, <4>3
    <3>15. /\ Holds(cache', whole) /\ (Is("gemma4") /\ k + n = Len(Prompt) =>
                                         cache'.last_tok = Predict(Prompt) /\ cache'.kv = Prompt)
      BY <3>10, <3>12, <3>13
    <3> QED BY <1>1, <2>2, <2>4, <3>11, <3>15 DEF PrefillRight, Holds, Is
  <2>8. PrefillRight' BY <2>2, <2>4, <2>7 DEF PrefillRight
  <2> QED BY <1>4, <2>2, <2>3, <2>6, <2>8, InPrefill DEF AnswerInv
<1>9. CASE cache' = FailedPass(cache, k) /\ Return(FALSE)
  <2>1. WorkInv' BY <1>1, <1>3, <1>9, FailsRight DEF AnswerInv, Return
  <2>2. RingSize'
    <3> HIDE DEF k
    <3> QED BY <1>3, <1>4, <1>9, Gemma4Rings DEF RingSize
  <2> QED BY <1>4, <2>1, <2>2 DEF AnswerInv
<1> QED
  <2>1. \/ /\ \E t \in IF final THEN Pick(Last(g.out)) ELSE {cache.last_tok} :
                 cache' = [g.cache EXCEPT !.last_tok = t]
           /\ job' = [job EXCEPT !.committed = k + n]
           /\ stream' = stream
        \/ cache' = FailedPass(cache, k) /\ Return(FALSE)
    BY <1>5 DEF Gemma4Prefill
  <2> QED BY <1>8, <1>9, <2>1

LEMMA Gemma4InlineSnapRight ==
  ASSUME Inv, AnswerInv, Is("gemma4"), job.at = "prefill", job.committed = Len(Prompt),
         Gemma4InlineSnap, UNCHANGED config
  PROVE  SnapsRight'
<1>1. CASE ~(job.snap /\ job.req.snap_pos <= job.committed)
  BY <1>1, SameSnapsRight DEF Gemma4InlineSnap, KeepSnaps, AnswerInv
<1>2. CASE job.snap /\ job.req.snap_pos <= job.committed
  <2> DEFINE slot == job.req.snap_slot
             pos == job.req.snap_pos
             c == [cache EXCEPT !.cur_pos = pos]
             new == Gemma4Save(c)
             p == SubSeq(Prompt, 1, pos)
  <2>1. job.at \in Working /\ "target" \notin parked /\ slot \in Slots
    BY <1>2 DEF Inv, JobOK, Working
  <2>2. IsRequest(job.req) /\ IsCache(cache) /\ Prompt \in Seq(Tokens) /\ Len(Prompt) \in Nat
        /\ Window \in Nat
    BY <2>1, Served, SizesAreNat
  <2>3. pos \in Nat \ {0} /\ pos <= Len(Prompt) BY <1>2, <2>1, <2>2, SlotsAssumption DEF IsRequest
  <2>4. PICK s \in Gemma4SaveAt(pos, snaps[slot]) : PutSnap(slot, s) BY <1>2 DEF Gemma4InlineSnap
  <2>5. s = new \/ s = NoSnap
    <3>1. ~("target" \in parked \/ pos <= 0) BY <2>1, <2>3
    <3>2. s \in WithAlloc(new, ~snaps[slot].used \/ snaps[slot].cur_pos # pos)
      BY <2>4, <3>1 DEF Gemma4SaveAt
    <3> HIDE DEF new
    <3> QED BY <3>2 DEF WithAlloc
  <2>6. ASSUME s.used, job.exact, InWindow PROVE SnapRight(s, SubSeq(Prompt, 1, s.cur_pos))
    <3>1. s = new
      <4> HIDE DEF new
      <4> QED BY <2>5, <2>6, UnusedRight
    <3>2. p \in Seq(Tokens) /\ Len(p) = pos
      <4>1. pos \in 0..Len(Prompt) BY <2>2, <2>3
      <4> HIDE DEF pos
      <4> QED BY <2>2, <4>1, PrefixFacts
    <3>3. IsCache(c) /\ c.cur_pos = pos /\ c.kv = cache.kv /\ c.ring = cache.ring
      BY <2>2 DEF IsCache
    <3>4. InWindowRight(cache, Prompt) /\ Len(Prompt) <= Window /\ Len(cache.ring) = Window
      <4>1. Lesser(job.committed, Len(Prompt)) = Len(Prompt) BY <2>2, LesserFacts
      <4>2. SubSeq(Prompt, 1, Len(Prompt)) = Prompt BY <2>2, SubSeqFull
      <4>3. Holds(cache, Prompt) BY <2>6, <4>1, <4>2 DEF AnswerInv, WorkInv, PrefillRight
      <4> QED BY <2>6, <4>3 DEF Holds, InWindowRight, InWindow, AnswerInv, RingSize, Prompt
    <3>5. s.used /\ ~s.thin /\ s.cur_pos = pos BY <3>1, <3>3 DEF Gemma4Save
    <3>6. s.kv = p /\ FirstPositions(s.ring, pos)
      <4>1. InWindowRight(c, Prompt) BY <3>3, <3>4 DEF InWindowRight
      <4>2. pos \in 0..Len(Prompt) BY <2>2, <2>3
      <4> HIDE DEF c, pos
      <4> QED BY <2>2, <3>1, <3>3, <3>4, <4>1, <4>2, Gemma4Saved
    <3>7. Len(p) <= Window
      <4> HIDE DEF pos, p
      <4> QED BY <2>2, <2>3, <3>2, <3>4
    <3> HIDE DEF pos, p
    <3>8. Begins(s.kv, p) BY <3>2, <3>6, ContextSelf
    <3>9. SnapRight(s, p) BY <3>2, <3>5, <3>6, <3>7, <3>8 DEF SnapRight, Is
    <3> QED BY <3>5, <3>9 DEF p
  <2>7. SnapsOK /\ SnapsRight BY SMTT(30) DEF Inv, AnswerInv
  <2> HIDE DEF slot
  <2> QED BY <2>1, <2>4, <2>6, <2>7, PutSnapRight
<1> QED BY <1>1, <1>2

LEMMA Gemma4StartRight == ASSUME Inv, AnswerInv, Gemma4Start PROVE AnswerInv'
<1>1. /\ Is("gemma4") /\ job.at = "prefill" /\ job.committed >= Len(job.req.prompt)
      /\ Gemma4InlineSnap /\ UNCHANGED <<config, parked, drafter, commands>> /\ job.at \in Working
  BY DEF Gemma4Start, Working
<1>2. WorkInv BY DEF AnswerInv
<1>3. /\ IsJob(job) /\ IsRequest(job.req) /\ IsCache(cache) /\ Prompt \in Seq(Tokens) /\ Prompt # <<>>
      /\ Len(Prompt) \in Nat \ {0} /\ job.req.n_gen \in Nat /\ job.refused \in BOOLEAN
      /\ job.n = 0 /\ job.committed = Len(Prompt) /\ cache.last_tok \in Tokens \cup {-1}
      /\ Len(cache.ring) = Window /\ Window \in Nat /\ MaxCtx \in Nat
      /\ Len(Prompt) + job.req.n_gen <= MaxCtx
  <2>1. /\ IsJob(job) /\ IsRequest(job.req) /\ IsCache(cache) /\ Prompt \in Seq(Tokens) /\ Prompt # <<>>
        /\ Len(Prompt) \in Nat \ {0} /\ job.req.n_gen \in Nat /\ job.refused \in BOOLEAN
        /\ job.committed \in Nat /\ Len(Prompt) + job.req.n_gen <= MaxCtx
    BY <1>1, Served
  <2>2. job.committed <= Len(Prompt) /\ job.committed >= Len(Prompt) /\ job.n = 0
    BY <1>1 DEF Inv, JobOK, Prompt, Is
  <2>3. job.committed = Len(Prompt) BY <2>1, <2>2
  <2> QED BY <1>1, <2>1, <2>2, <2>3, SizesAreNat DEF AnswerInv, RingSize, Inv, CacheOK
<1>4. SnapsRight' BY <1>1, <1>3, Gemma4InlineSnapRight
<1>5. stream = <<>> /\ SoFar = Prompt /\ Len(stream) = 0 BY <1>1, <1>2, NothingYet
<1>6. ASSUME Sure
      PROVE  /\ InWindowRight(cache, Prompt) /\ Len(Prompt) <= Window
             /\ config.draft => cache.kv = Prompt /\ cache.last_tok = Predict(Prompt)
  <2>1. InWindow /\ job.exact /\ Len(Prompt) <= Window BY <1>1, <1>2, <1>6, RoomFacts DEF Sure
  <2>2. Lesser(job.committed, Len(Prompt)) = Len(Prompt) BY <1>3, LesserFacts
  <2>3. SubSeq(Prompt, 1, Len(Prompt)) = Prompt BY <1>3, SubSeqFull
  <2> QED BY <1>1, <1>2, <1>3, <2>1, <2>2, <2>3 DEF WorkInv, PrefillRight, Holds, InWindowRight
<1>7. ASSUME cache' = [cache EXCEPT !.cur_pos = job.committed]
      PROVE  cache'.kv = cache.kv /\ cache'.ring = cache.ring /\ cache'.cur_pos = job.committed /\ RingSize'
  BY <1>3, <1>7 DEF IsCache, RingSize
<1>8. CASE /\ job.req.n_gen = 0 /\ cache' = [cache EXCEPT !.cur_pos = job.committed] /\ ReturnMarked(TRUE)
  <2>1. job' = Returned(TRUE, job.refused) /\ stream' = Append(stream, -1) BY <1>8 DEF ReturnMarked
  <2>2. Complete(stream) BY <1>5, <1>8 DEF Complete
  <2>3. WorkInv' BY <1>1, <1>2, <1>3, <2>1, <2>2, FailsRight
  <2> QED BY <1>4, <1>7, <1>8, <2>3 DEF AnswerInv
<1>9. CASE /\ Gemma4CanSpec /\ cache' = [cache EXCEPT !.cur_pos = job.committed]
           /\ job' = [job EXCEPT !.at = "draft", !.last = cache.last_tok]
           /\ stream' = stream
  <2>1. /\ job'.at = "draft" /\ job'.n = job.n /\ job'.req = job.req /\ job'.exact = job.exact
        /\ job'.committed = job.committed /\ job'.last = cache.last_tok
    <3>1. job' = [job EXCEPT !.at = "draft", !.last = cache.last_tok] BY <1>9
    <3> QED BY <1>3, <3>1 DEF IsJob
  <2>2. CanSpec /\ config.draft BY <1>1, <1>9 DEF CanSpec, Gemma4CanSpec
  <2>3. Sure' = Sure /\ CanSpec' = CanSpec /\ Prompt' = Prompt BY <1>1, <2>1, SameRequest
  <2>4. SoFar' = SoFar BY <1>9, <2>3 DEF SoFar
  <2>5. GreedyAfter(Prompt, <<>>) BY GreedyEmpty
  <2>6. ASSUME Sure PROVE DraftRight'
    <3>1. Holds(cache', Prompt) /\ cache'.kv = Prompt
      BY <1>1, <1>6, <1>7, <1>9, <2>2, <2>6 DEF Holds, InWindowRight, Is
    <3>2. cache'.cur_pos = Len(Prompt) /\ cache.last_tok = Predict(Prompt)
      BY <1>3, <1>6, <1>7, <1>9, <2>2, <2>6
    <3> QED BY <1>1, <1>3, <1>5, <1>9, <2>1, <2>3, <2>4, <2>5, <3>1, <3>2 DEF DraftRight, Holds, Is
  <2>7. WorkInv' BY <1>3, <1>5, <1>9, <2>1, <2>2, <2>3, <2>6, InDraft
  <2> QED BY <1>4, <1>7, <1>9, <2>7 DEF AnswerInv
<1> DEFINE p == <<Last(Prompt)>>
           b == Len(Prompt) - 1
           ctx == SubSeq(Prompt, 1, b)
<1>10. /\ p \in Seq(Tokens) /\ Len(p) = 1 /\ b \in Nat /\ b \in 0..Len(Prompt)
       /\ ctx \in Seq(Tokens) /\ Len(ctx) = b /\ ctx \o p = Prompt
  <2>1. p \in Seq(Tokens) /\ Len(p) = 1 BY <1>3, LastOfPrompt
  <2> QED BY <1>3, <2>1, PromptSplit
<1>11. PICK g : g = gemma4_step(cache, p, b) OBVIOUS
<1>12. g = gemma4_step(cache, <<Last(job.req.prompt)>>, job.committed - 1) BY <1>3, <1>11 DEF Prompt
<1> HIDE DEF p, b, ctx
<1>13. IsCache(g.cache) /\ Pick(g.out[1]) \subseteq Tokens /\ Len(g.cache.ring) = Window
  <2>1. IsCache(g.cache) BY <1>3, <1>10, <1>11, Gemma4Pass
  <2>2. Len(g.cache.ring) = Window BY <1>3, <1>11, Gemma4Rings
  <2>3. Pick(g.out[1]) \subseteq Tokens BY <1>3, <1>10, <1>11, Gemma4One
  <2> QED BY <2>1, <2>2, <2>3
<1>14. ASSUME Sure, NEW t \in Pick(g.out[1]) PROVE t = Predict(Prompt) /\ InWindowRight(g.cache, Prompt)
  <2>1. InWindowRight(cache, ctx)
    <3>1. Begins(cache.kv, Prompt) /\ InRing(cache.ring, Len(Prompt)) /\ Len(Prompt) <= Window
      BY <1>6, <1>14 DEF InWindowRight
    <3>2. Len(cache.kv) \in Nat BY <1>3 DEF IsCache
    <3>3. Begins(cache.kv, ctx) BY <1>3, <1>10, <3>1, <3>2, BeginsPrefix DEF ctx
    <3>4. InRing(cache.ring, b)
      <4> DEFINE N == Len(Prompt)
      <4>1. N \in Nat /\ N <= Window /\ InRing(cache.ring, N) /\ b \in 0..N BY <1>3, <1>10, <3>1
      <4> HIDE DEF N
      <4> QED BY <4>1, RingShorter
    <3> QED BY <1>10, <3>3, <3>4 DEF InWindowRight
  <2>2. Len(ctx) + Len(p) <= MaxCtx /\ p # <<>> BY <1>3, <1>10 DEF b
  <2>3. g = gemma4_step(cache, p, Len(ctx)) BY <1>10, <1>11
  <2>4. NextRight(g.out, ctx, p) /\ InWindowRight(g.cache, ctx \o p)
    BY <1>3, <1>10, <2>1, <2>2, <2>3, Gemma4PassRight
  <2> QED BY <1>10, <1>14, <2>4 DEF NextRight
<1>15. ASSUME NEW t \in Pick(g.out[1]), NEW a \in Accepts, ~a \/ t = Eos \/ job.req.n_gen = 1,
              cache' = g.cache, stream' = Append(emit(t, a), -1), job' = Returned(TRUE, ~a)
       PROVE  AnswerInv'
  <2>1. a \in BOOLEAN /\ t \in Tokens BY <1>13, AcceptsBool
  <2>2. PICK r \in BOOLEAN : r = ~a OBVIOUS
  <2>3. job' = Returned(TRUE, r) /\ (~a => r) BY <1>15, <2>2
  <2>4. Sure => t = Predict(SoFar) BY <1>5, <1>14
  <2>5. a => t = Eos \/ Len(stream) + 1 = job.req.n_gen BY <1>5, <1>15
  <2>6. WorkInv' BY <1>1, <1>2, <1>15, <2>1, <2>2, <2>3, <2>4, <2>5, LastRight
  <2>7. RingSize' BY <1>13, <1>15 DEF RingSize
  <2> QED BY <1>4, <2>6, <2>7 DEF AnswerInv
<1>16. ASSUME NEW t \in Pick(g.out[1]), NEW a \in Accepts, a, ~Gemma4CanSpec,
              cache' = g.cache, stream' = emit(t, a),
              job' = [job EXCEPT !.at = "ar", !.last = t, !.n = 1]
       PROVE  AnswerInv'
  <2>1. t \in Tokens BY <1>13
  <2>2. /\ job'.at = "ar" /\ job'.req = job.req /\ job'.exact = job.exact /\ job'.n = 1
        /\ job'.last = t /\ job'.committed = job.committed
    <3>1. job' = [job EXCEPT !.at = "ar", !.last = t, !.n = 1] BY <1>16
    <3> QED BY <1>3, <2>1, <3>1 DEF IsJob
  <2>3. Sure' = Sure /\ CanSpec' = CanSpec /\ Prompt' = Prompt BY <1>1, <2>2, SameRequest
  <2>4. stream' = <<t>> BY <1>5, <1>16, <2>1, FirstEmit
  <2>5. ~CanSpec BY <1>1, <1>16 DEF CanSpec, Is
  <2>6. Len(stream') = 1 BY <2>4
  <2>7. PlaceOK' BY <1>1, <2>2, <2>3, <2>5, <2>6 DEF PlaceOK, Is
  <2>8. ASSUME Sure
        PROVE  GreedyAfter(Prompt, stream') /\ stream'[1] = t
               /\ Prompt \o SubSeq(stream', 1, 0) = Prompt /\ InWindowRight(cache', Prompt)
    <3>1. t = Predict(Prompt) /\ InWindowRight(g.cache, Prompt) BY <1>14, <2>8
    <3>2. GreedyAfter(Prompt, <<t>>) /\ <<t>>[1] = t /\ SubSeq(<<t>>, 1, 0) = <<>>
      BY <1>3, <2>1, <3>1, FirstGreedy
    <3>3. Prompt \o <<>> = Prompt BY <1>3, ConcatEmptySeq
    <3> QED BY <1>16, <2>4, <3>1, <3>2, <3>3
  <2>9. ASSUME Sure PROVE PlainRight'
    <3>1. job'.n - 1 = 0 /\ job'.committed = Len(Prompt) + job'.n - 1 BY <1>3, <2>2
    <3>2. Holds(cache', Prompt \o SubSeq(stream', 1, job'.n - 1))
      BY <1>1, <2>8, <2>9, <3>1 DEF Holds, InWindowRight, Is
    <3>3. GreedyAfter(Prompt, stream') /\ job'.last = stream'[job'.n] BY <2>2, <2>8, <2>9
    <3> QED BY <1>1, <2>3, <3>1, <3>2, <3>3 DEF PlainRight, Holds, Is
  <2>10. WorkInv' BY <2>2, <2>3, <2>7, <2>9, InPlain
  <2>11. RingSize' BY <1>13, <1>16 DEF RingSize
  <2> QED BY <1>4, <2>10, <2>11 DEF AnswerInv
<1>17. CASE cache' = FailedPass(cache, job.committed - 1) /\ Return(FALSE)
  <2>1. WorkInv' BY <1>1, <1>2, <1>3, <1>17, FailsRight DEF Return
  <2>2. RingSize' BY <1>3, <1>17, Gemma4Rings DEF RingSize
  <2> QED BY <1>4, <2>1, <2>2 DEF AnswerInv
<1> QED
  <2>1. CASE ~Gemma4CanSpec /\ cache' = g.cache /\ \E t \in Pick(g.out[1]), a \in Accepts :
                    IF ~a \/ t = Eos \/ job.req.n_gen = 1
                    THEN /\ stream' = Append(emit(t, a), -1)
                         /\ job' = Returned(TRUE, ~a)
                    ELSE /\ stream' = emit(t, a)
                         /\ job' = [job EXCEPT !.at = "ar", !.last = t, !.n = 1]
    <3>1. PICK t \in Pick(g.out[1]), a \in Accepts :
                    IF ~a \/ t = Eos \/ job.req.n_gen = 1
                    THEN /\ stream' = Append(emit(t, a), -1)
                         /\ job' = Returned(TRUE, ~a)
                    ELSE /\ stream' = emit(t, a)
                         /\ job' = [job EXCEPT !.at = "ar", !.last = t, !.n = 1]
      BY <2>1
    <3>2. CASE ~a \/ t = Eos \/ job.req.n_gen = 1 BY <1>15, <2>1, <3>1, <3>2
    <3>3. CASE ~(~a \/ t = Eos \/ job.req.n_gen = 1) BY <1>16, <2>1, <3>1, <3>3
    <3> QED BY <3>2, <3>3
  <2> QED BY <1>8, <1>9, <1>12, <1>17, <2>1 DEF Gemma4Start

LEMMA Gemma4ArRight == ASSUME Inv, AnswerInv, Gemma4Ar PROVE AnswerInv'
<1>1. /\ Is("gemma4") /\ job.at = "ar" /\ job.at \in Working
      /\ UNCHANGED <<config, snaps, named, mirror, parked, drafter, commands>>
  BY DEF Gemma4Ar, KeepSnaps, Working
<1>2. WorkInv BY DEF AnswerInv
<1>3. /\ IsJob(job) /\ IsCache(cache) /\ job.n \in Nat \ {0} /\ job.committed \in Nat
      /\ job.req.n_gen \in Nat /\ job.refused \in BOOLEAN /\ job.last \in Tokens /\ job.n < job.req.n_gen
      /\ stream \in Seq(Tokens) /\ Prompt \in Seq(Tokens) /\ Len(stream) = job.n
      /\ Len(Prompt) \in Nat /\ SoFar \in Seq(Tokens) /\ Len(SoFar) = Len(Prompt) + job.n
      /\ Len(Prompt) + job.req.n_gen <= MaxCtx /\ MaxCtx \in Nat
      /\ Len(cache.ring) = Window /\ ~CanSpec
  <2>1. job.last \in Tokens /\ job.n < job.req.n_gen BY <1>1 DEF Inv, JobOK, Is
  <2>2. Len(stream) = job.n /\ job.n > 0 /\ ~CanSpec BY <1>1, <1>2 DEF WorkInv, PlaceOK
  <2> QED BY <1>1, <1>2, <2>1, <2>2, Served, StreamRight, SizesAreNat DEF AnswerInv, RingSize
<1>4. SnapsRight' BY <1>1, SameSnapsRight DEF AnswerInv
<1> DEFINE p == <<job.last>>
           k == job.n - 1
           done == SubSeq(stream, 1, k)
           ctx == Prompt \o done
<1>5. p \in Seq(Tokens) /\ Len(p) = 1 /\ p # <<>> BY <1>3
<1>6. /\ done \in Seq(Tokens) /\ Len(done) = k /\ done \o <<Last(stream)>> = stream
      /\ Last(stream) = stream[job.n] /\ k \in Nat
  <2>1. stream # <<>> /\ k = Len(stream) - 1 /\ k \in Nat BY <1>3
  <2>2. Last(stream) = stream[job.n] BY <1>3 DEF Last
  <2> HIDE DEF k
  <2>3. /\ SubSeq(stream, 1, Len(stream) - 1) \in Seq(Tokens)
        /\ Len(SubSeq(stream, 1, Len(stream) - 1)) = Len(stream) - 1
        /\ SubSeq(stream, 1, Len(stream) - 1) \o <<Last(stream)>> = stream
    BY <1>3, <2>1, PromptSplit
  <2> QED BY <2>1, <2>2, <2>3
<1> HIDE DEF done, k
<1>7. ctx \in Seq(Tokens) /\ Len(ctx) = Len(Prompt) + k BY <1>3, <1>6, ConcatProperties
<1> HIDE DEF ctx, p
<1>8. PICK g : g = gemma4_step(cache, p, job.committed) OBVIOUS
<1>9. IsCache(g.cache) /\ Pick(g.out[1]) \subseteq Tokens /\ Len(g.cache.ring) = Window
  <2>1. IsCache(g.cache) BY <1>3, <1>5, <1>8, Gemma4Pass
  <2>2. Len(g.cache.ring) = Window BY <1>3, <1>8, Gemma4Rings
  <2>3. Pick(g.out[1]) \subseteq Tokens BY <1>3, <1>5, <1>8, Gemma4One
  <2> QED BY <2>1, <2>2, <2>3
<1>10. ASSUME Sure, NEW t \in Pick(g.out[1])
       PROVE  /\ t = Predict(SoFar) /\ InWindowRight(g.cache, SoFar) /\ GreedyAfter(Prompt, stream)
              /\ job.committed = Len(Prompt) + job.n - 1
  <2>1. /\ job.last = stream[job.n] /\ GreedyAfter(Prompt, stream)
        /\ job.committed = Len(Prompt) + job.n - 1 /\ Holds(cache, Prompt \o SubSeq(stream, 1, job.n - 1))
    BY <1>1, <1>2, <1>10 DEF WorkInv, PlainRight
  <2>2. InWindowRight(cache, ctx) BY <1>1, <2>1 DEF Holds, InWindowRight, ctx, done, k
  <2>3. ctx \o p = SoFar
    <3>1. done \o p = stream BY <1>6, <2>1 DEF p
    <3>2. Prompt \o (done \o p) = (Prompt \o done) \o p BY <1>3, <1>5, <1>6, ConcatThree
    <3> QED BY <3>1, <3>2 DEF ctx, SoFar
  <2>4. job.committed = Len(ctx) BY <1>3, <1>7, <2>1 DEF k
  <2>5. Len(ctx) + Len(p) <= MaxCtx BY SMTT(30), <1>3, <1>5, <1>7 DEF k
  <2>6. g = gemma4_step(cache, p, Len(ctx)) BY <1>8, <2>4
  <2>7. NextRight(g.out, ctx, p) /\ InWindowRight(g.cache, ctx \o p)
    BY <1>3, <1>5, <1>7, <2>2, <2>5, <2>6, Gemma4PassRight
  <2> QED BY <1>5, <1>10, <2>1, <2>3, <2>7 DEF NextRight
<1>11. ASSUME NEW t \in Pick(g.out[1]), NEW a \in Accepts, ~a \/ t = Eos \/ job.n + 1 = job.req.n_gen,
              cache' = g.cache, stream' = Append(emit(t, a), -1), job' = Returned(TRUE, ~a)
       PROVE  AnswerInv'
  <2>1. a \in BOOLEAN /\ t \in Tokens BY <1>9, AcceptsBool
  <2>2. PICK r \in BOOLEAN : r = ~a OBVIOUS
  <2>3. job' = Returned(TRUE, r) /\ (~a => r) BY <1>11, <2>2
  <2>4. Sure => t = Predict(SoFar) BY <1>10
  <2>5. a => t = Eos \/ Len(stream) + 1 = job.req.n_gen BY <1>3, <1>11
  <2>6. WorkInv' BY <1>1, <1>2, <1>11, <2>1, <2>2, <2>3, <2>4, <2>5, LastRight
  <2>7. RingSize' BY <1>9, <1>11 DEF RingSize
  <2> QED BY <1>4, <2>6, <2>7 DEF AnswerInv
<1>12. ASSUME NEW t \in Pick(g.out[1]), NEW a \in Accepts, a, cache' = g.cache, stream' = emit(t, a),
              job' = [job EXCEPT !.last = t, !.n = @ + 1, !.committed = @ + 1]
       PROVE  AnswerInv'
  <2>1. t \in Tokens BY <1>9
  <2>2. /\ job'.at = "ar" /\ job'.req = job.req /\ job'.exact = job.exact /\ job'.n = job.n + 1
        /\ job'.last = t /\ job'.committed = job.committed + 1
    BY <1>1, <1>3, <1>12, <2>1, OneMore
  <2>3. Sure' = Sure /\ CanSpec' = CanSpec /\ Prompt' = Prompt BY <1>1, <2>2, SameRequest
  <2>4. PICK v : v = Append(stream, t) OBVIOUS
  <2>5. stream' = v BY <1>12, <2>4 DEF emit
  <2>6. v \in Seq(Tokens) /\ Len(v) = job.n + 1 /\ v[job.n + 1] = t /\ \A i \in 1..job.n : v[i] = stream[i]
    BY <1>3, <2>1, <2>4, AppendProperties
  <2>7. SubSeq(v, 1, job.n) = stream
    <3>1. SubSeq(v, 1, job.n) = SubSeq(stream, 1, job.n)
      <4>1. job.n \in Nat /\ job.n <= Len(v) /\ job.n <= Len(stream) BY <1>3, <2>6
      <4> QED BY <1>3, <2>6, <4>1, SamePrefix
    <3> QED BY <1>3, <3>1, SubSeqFull
  <2>8. PlaceOK' BY <1>1, <1>3, <2>2, <2>3, <2>5, <2>6 DEF PlaceOK, Is
  <2>9. ASSUME Sure PROVE PlainRight'
    <3>1. /\ t = Predict(SoFar) /\ InWindowRight(g.cache, SoFar) /\ GreedyAfter(Prompt, stream)
          /\ job.committed = Len(Prompt) + job.n - 1
      BY <1>10, <2>9
    <3>2. GreedyAfter(Prompt, v) BY <1>3, <2>1, <2>4, <3>1, GreedyAppend DEF SoFar
    <3>3. job'.n - 1 = job.n /\ job'.committed = Len(Prompt) + job'.n - 1 BY <1>3, <2>2, <3>1
    <3>4. Prompt \o SubSeq(v, 1, job'.n - 1) = SoFar BY <2>7, <3>3 DEF SoFar
    <3>5. Holds(cache', SoFar) BY <1>1, <1>12, <3>1 DEF Holds, InWindowRight, Is
    <3>6. job'.last = v[job'.n] BY <2>2, <2>6
    <3> QED BY <1>1, <2>3, <2>5, <3>2, <3>3, <3>4, <3>5, <3>6 DEF PlainRight, Holds, Is
  <2>10. WorkInv' BY <2>2, <2>3, <2>8, <2>9, InPlain
  <2>11. RingSize' BY <1>9, <1>12 DEF RingSize
  <2> QED BY <1>4, <2>10, <2>11 DEF AnswerInv
<1>13. CASE cache' = FailedPass(cache, job.committed) /\ Return(FALSE)
  <2>1. WorkInv' BY <1>1, <1>2, <1>3, <1>13, FailsRight DEF Return
  <2>2. RingSize' BY <1>3, <1>13, Gemma4Rings DEF RingSize
  <2> QED BY <1>4, <2>1, <2>2 DEF AnswerInv
<1> QED
  <2>1. CASE cache' = g.cache /\ \E t \in Pick(g.out[1]), a \in Accepts :
                IF ~a \/ t = Eos \/ job.n + 1 = job.req.n_gen
                   THEN /\ stream' = Append(emit(t, a), -1)
                        /\ job' = Returned(TRUE, ~a)
                   ELSE /\ stream' = emit(t, a)
                        /\ job' = [job EXCEPT !.last = t, !.n = @ + 1, !.committed = @ + 1]
    <3>1. PICK t \in Pick(g.out[1]), a \in Accepts :
                IF ~a \/ t = Eos \/ job.n + 1 = job.req.n_gen
                   THEN /\ stream' = Append(emit(t, a), -1)
                        /\ job' = Returned(TRUE, ~a)
                   ELSE /\ stream' = emit(t, a)
                        /\ job' = [job EXCEPT !.last = t, !.n = @ + 1, !.committed = @ + 1]
      BY <2>1
    <3>2. CASE ~a \/ t = Eos \/ job.n + 1 = job.req.n_gen BY <1>11, <2>1, <3>1, <3>2
    <3>3. CASE ~(~a \/ t = Eos \/ job.n + 1 = job.req.n_gen) BY <1>12, <2>1, <3>1, <3>3
    <3> QED BY <3>2, <3>3
  <2> QED BY <1>8, <1>13, <2>1 DEF Gemma4Ar, p

LEMMA Gemma4DraftRight == ASSUME Inv, AnswerInv, Gemma4Draft PROVE AnswerInv'
<1>1. /\ Is("gemma4") /\ job.at = "draft"
      /\ UNCHANGED <<config, snaps, named, mirror, parked, drafter, commands>>
  BY DEF Gemma4Draft, KeepSnaps
<1>2. WorkInv BY DEF AnswerInv
<1>3. /\ CanSpec /\ Len(stream) = job.n /\ job.at \in Working /\ IsJob(job) /\ IsCache(cache)
      /\ job.committed \in Nat /\ job.refused \in BOOLEAN /\ SoFar \in Seq(Tokens)
      /\ Sure => GreedyAfter(Prompt, stream) /\ job.committed = Len(SoFar)
                   /\ Len(SoFar) + QLen <= MaxCtx /\ Len(SoFar) + QLen <= Window
  BY <1>1, <1>2, TurnFacts
<1>4. SnapsRight' /\ Len(cache.ring) = Window BY <1>1, SameSnapsRight DEF AnswerInv, RingSize
<1>5. ASSUME NEW d \in Drafts, NEW t \in Picks(gemma4_verify_batch(cache, d, job.committed).out),
             cache' = gemma4_verify_batch(cache, d, job.committed).cache,
             job' = [job EXCEPT !.at = "commit", !.draft = d, !.target = t],
             stream' = stream
      PROVE  AnswerInv'
  <2>1. d \in Seq(Tokens) /\ Len(d) = QLen /\ d # <<>> /\ d[1] = job.last BY BlockFacts DEF Drafts
  <2>2. /\ job'.at = "commit" /\ job'.n = job.n /\ job'.req = job.req /\ job'.exact = job.exact
        /\ job'.draft = d /\ job'.target = t /\ job'.committed = job.committed
    BY <1>3, <1>5 DEF IsJob
  <2>3. Sure' = Sure /\ CanSpec' = CanSpec /\ Prompt' = Prompt BY <1>1, <2>2, SameRequest
  <2>4. SoFar' = SoFar BY <1>5, <2>3 DEF SoFar
  <2>5. gemma4_verify_batch(cache, d, job.committed) = gemma4_step(cache, d, job.committed)
    BY <1>3, <2>1, Gemma4Pass
  <2>6. RingSize'
    <3>1. cache' = gemma4_step(cache, d, job.committed).cache BY <1>5, <2>5
    <3> QED BY <1>3, <1>4, <3>1, Gemma4Rings DEF RingSize
  <2>7. ASSUME Sure PROVE CommitRight'
    <3>1. InWindowRight(cache, SoFar) /\ job.last = Predict(SoFar)
      BY <1>1, <1>2, <2>7 DEF WorkInv, DraftRight, Holds, InWindowRight
    <3>2. /\ Len(SoFar) + Len(d) <= MaxCtx /\ Len(SoFar) + Len(d) <= Window
          /\ job.committed = Len(SoFar)
      BY <1>3, <2>1, <2>7
    <3>3. PICK g : g = gemma4_step(cache, d, Len(SoFar)) OBVIOUS
    <3>4. /\ NextRight(g.out, SoFar, d) /\ g.cache.kv = SoFar \o d
          /\ InWindowRight(g.cache, SoFar \o d)
      BY <1>3, <2>1, <3>1, <3>2, <3>3, Gemma4PassRight
    <3>5. cache' = g.cache /\ t \in Picks(g.out) BY <1>5, <2>5, <3>2, <3>3
    <3>6. \A i \in 1..QLen : t[i] = Predict(SoFar \o SubSeq(d, 1, i))
      BY <2>1, <3>4, <3>5 DEF NextRight
    <3>7. InRing(cache'.ring, Len(SoFar) + QLen)
      <4>1. Len(SoFar \o d) = Len(SoFar) + QLen BY <1>3, <2>1, ConcatProperties
      <4> QED BY <3>4, <3>5, <4>1 DEF InWindowRight
    <3> QED BY <1>1, <1>3, <1>5, <2>1, <2>2, <2>3, <2>4, <2>7, <3>1, <3>4, <3>5, <3>6, <3>7
            DEF CommitRight, Is
  <2>8. WorkInv' BY <1>3, <1>5, <2>2, <2>3, <2>7, InCommit
  <2> QED BY <1>4, <2>6, <2>8 DEF AnswerInv
<1>6. ASSUME cache' = cache \/ cache' = FailedPass(cache, job.committed), Return(FALSE) PROVE AnswerInv'
  <2>1. WorkInv' BY <1>1, <1>2, <1>3, <1>6, FailsRight DEF Return
  <2>2. RingSize' BY <1>3, <1>4, <1>6, Gemma4Rings DEF RingSize
  <2> QED BY <1>4, <2>1, <2>2 DEF AnswerInv
<1> QED BY <1>5, <1>6 DEF Gemma4Draft

\* A turn that goes on has streamed the whole block.
LEMMA GoesOn ==
  ASSUME NEW w \in Seq(Tokens), w # <<>>, NEW e \in EmitBatch(w), ~Stops(e)
  PROVE  e.offered = Len(w) /\ ~(job.n + Len(w) >= job.req.n_gen)
<1>1. /\ e.offered \in 1..Len(w) /\ ~e.refused /\ e.written = SubSeq(w, 1, e.offered)
      /\ e.offered = Len(w) \/ w[e.offered] = Eos
  BY EmitBatchFacts DEF Stops
<1>2. Last(e.written) = w[e.offered]
  <2>1. /\ SubSeq(w, 1, e.offered) \in Seq(Tokens) /\ Len(SubSeq(w, 1, e.offered)) = e.offered
        /\ SubSeq(w, 1, e.offered)[e.offered] = w[e.offered]
    BY <1>1, PrefixFacts
  <2> QED BY <1>1, <2>1 DEF Last
<1>3. e.offered = Len(w) BY <1>1, <1>2 DEF Stops
<1> QED BY <1>3 DEF Stops

\* Which part of the block is kept.
LEMMA KeptForm ==
  ASSUME Inv, job.at = "commit"
  PROVE  LET a == AcceptN(job.draft, job.target)
             n == CommitN(a, job.req.n_gen - job.n)
             w == CommitTokens(job.draft, job.target, a, n)
         IN  /\ n > a => n = a + 1 /\ a \in 1..QLen /\ SubSeq(w, 1, n - 1) = SubSeq(job.draft, 1, a)
                         /\ Last(w) = job.target[a]
             /\ ~(n > a) => n = job.req.n_gen - job.n \/ (n = QLen /\ w = job.draft)
<1> DEFINE a == AcceptN(job.draft, job.target)
           m == job.req.n_gen - job.n
           n == CommitN(a, m)
           w == CommitTokens(job.draft, job.target, a, n)
           x == IF a < QLen THEN a + 1 ELSE a
<1>1. a \in 1..QLen /\ n \in 1..QLen /\ n <= a + 1 /\ w \in Seq(Tokens) /\ Len(w) = n /\ m \in Int
      /\ QLen \in Nat
  BY KeptFacts, BlockSize DEF Inv, JobOK, IsJob, IsRequest, Working
<1>2. /\ job.draft \in Seq(Tokens) /\ Len(job.draft) = QLen /\ job.target \in [1..QLen -> Tokens]
  BY DEF Inv, JobOK
<1>3. n = m \/ n = x
  <2>1. n = Min({m, x}) BY DEF CommitN
  <2>2. x \in Int BY <1>1
  <2> HIDE DEF x, n, m
  <2>3. Min({m, x}) \in {m, x} BY <1>1, <2>2, MinFacts
  <2> QED BY <2>1, <2>3
<1>4. \A i \in 1..n : w[i] = IF i <= a THEN job.draft[i] ELSE job.target[a]
  <2> HIDE DEF a, n, m, x
  <2>1. PICK d, t : d = job.draft /\ t = job.target OBVIOUS
  <2>2. w = CommitTokens(d, t, a, n) BY <2>1
  <2> HIDE DEF w
  <2>3. \A i \in 1..n : w[i] = IF i <= a THEN d[i] ELSE t[a]
    <3>1. d \in Seq(Tokens) /\ Len(d) = QLen /\ t \in [1..QLen -> Tokens] BY <1>2, <2>1
    <3>2. a \in 1..QLen /\ n \in 1..QLen BY <1>1
    <3>3. \A i \in 1..n : CommitTokens(d, t, a, n)[i] = IF i <= a THEN d[i] ELSE t[a]
      BY ONLY SMTT(30), <3>1, <3>2, CommitTokensFacts
    <3> QED BY <2>2, <3>3
  <2> QED BY <2>1, <2>3
<1> HIDE DEF a, n, w, m
<1>5. ASSUME n > a
      PROVE  n = a + 1 /\ SubSeq(w, 1, n - 1) = SubSeq(job.draft, 1, a) /\ Last(w) = job.target[a]
  <2>1. n = a + 1 /\ n - 1 = a BY <1>1, <1>5
  <2>2. w[n] = job.target[a]
    <3>1. n \in 1..n /\ ~(n <= a) BY <1>1, <1>5
    <3> QED BY <1>4, <3>1
  <2>3. \A i \in 1..a : w[i] = job.draft[i]
    <3> TAKE i \in 1..a
    <3>1. i \in 1..n /\ i <= a BY <1>1, <2>1
    <3> QED BY <1>4, <3>1
  <2>4. SubSeq(w, 1, a) = SubSeq(job.draft, 1, a)
    <3>1. a \in Nat /\ a <= Len(w) /\ a <= Len(job.draft) BY <1>1, <1>2, <2>1
    <3> QED BY <1>1, <1>2, <2>3, <3>1, SamePrefix
  <2> QED BY <1>1, <2>1, <2>2, <2>4 DEF Last
<1>6. ASSUME ~(n > a), n # m PROVE n = QLen /\ w = job.draft
  <2>1. n = x /\ n <= a BY <1>1, <1>3, <1>6
  <2>2. n = QLen /\ a = QLen BY <1>1, <2>1
  <2>3. \A i \in 1..n : w[i] = job.draft[i]
    <3> TAKE i \in 1..n
    <3>1. i <= a BY <1>1, <2>2
    <3> QED BY <1>4, <3>1
  <2> QED BY <1>1, <1>2, <2>2, <2>3, SeqEqual
<1> QED BY <1>1, <1>5, <1>6 DEF a, n, w, m

LEMMA Gemma4CommitRight == ASSUME Inv, AnswerInv, Gemma4Commit PROVE AnswerInv'
<1> DEFINE a == AcceptN(job.draft, job.target)
           n == CommitN(a, job.req.n_gen - job.n)
           bonus == n > a
<1>1. /\ Is("gemma4") /\ job.at = "commit"
      /\ UNCHANGED <<config, snaps, named, parked, drafter, commands>>
  BY DEF Gemma4Commit, KeepSnaps
<1>2. WorkInv BY DEF AnswerInv
<1>3. /\ CanSpec /\ Len(stream) = job.n /\ job.at \in Working /\ IsJob(job) /\ IsCache(cache)
      /\ job.n \in Nat /\ job.req.n_gen \in Nat /\ job.n < job.req.n_gen
      /\ job.committed \in Nat /\ job.refused \in BOOLEAN /\ SoFar \in Seq(Tokens)
      /\ Len(SoFar) = Len(Prompt) + job.n /\ Len(Prompt) \in Nat
      /\ Sure => job.committed = Len(SoFar) /\ Len(SoFar) + QLen <= MaxCtx
                 /\ Len(SoFar) + QLen <= Window
  BY <1>1, <1>2, TurnFacts
<1>4. SnapsRight' /\ Len(cache.ring) = Window BY <1>1, SameSnapsRight DEF AnswerInv, RingSize
<1>5. PICK w : w = CommitTokens(job.draft, job.target, a, n) OBVIOUS
<1>6. /\ w \in Seq(Tokens) /\ w # <<>> /\ Len(w) = n /\ n \in Nat \ {0} /\ a \in 1..QLen
      /\ Len(w) <= job.req.n_gen - job.n /\ QLen \in Nat /\ Window \in Nat
  BY <1>1, <1>5, KeptFacts, BlockSize, SizesAreNat
<1>7. Sure => GreedyAfter(SoFar, w) BY <1>1, <1>2, <1>5, KeptRight
<1>8. /\ bonus => n = a + 1 /\ SubSeq(w, 1, n - 1) = SubSeq(job.draft, 1, a) /\ Last(w) = job.target[a]
      /\ ~bonus => n = job.req.n_gen - job.n \/ (n = QLen /\ w = job.draft)
  BY <1>1, <1>5, KeptForm
<1>9. /\ job.draft \in Seq(Tokens) /\ Len(job.draft) = QLen /\ job.target \in [1..QLen -> Tokens]
  BY <1>1 DEF Inv, JobOK
<1>10. ASSUME Sure
       PROVE  /\ \A i \in 1..QLen : job.target[i] = Predict(SoFar \o SubSeq(job.draft, 1, i))
              /\ cache.kv = SoFar \o job.draft /\ InRing(cache.ring, Len(SoFar) + QLen)
  BY <1>1, <1>2, <1>10 DEF WorkInv, CommitRight
<1> DEFINE b == job.committed + a
           p == <<Last(w)>>
<1>11. b \in Nat /\ p \in Seq(Tokens) /\ Len(p) = 1 /\ p # <<>>
  <2>1. p \in Seq(Tokens) /\ Len(p) = 1 BY <1>6, LastOfPrompt
  <2>2. b \in Nat
    <3> HIDE DEF a
    <3> QED BY <1>3, <1>6
  <2>3. p # <<>> BY Zenon DEF p
  <2> HIDE DEF p, a, b
  <2> QED BY <2>1, <2>2, <2>3
<1>12. PICK g : g = IF bonus THEN gemma4_verify_batch(cache, p, b) ELSE [cache |-> cache, out |-> <<>>]
  OBVIOUS
<1> HIDE DEF a, n, p, b
<1>13. CASE bonus
  <2>1. g = gemma4_step(cache, p, b) BY <1>3, <1>11, <1>12, <1>13, Gemma4Pass
  <2>2. IsCache(g.cache) /\ Len(g.cache.ring) = Window
    <3>1. IsCache(g.cache) BY <1>3, <1>11, <2>1, Gemma4Pass
    <3>2. Len(gemma4_step(cache, p, b).cache.ring) = Window BY <1>3, <1>4, <1>11, Gemma4Rings
    <3> QED BY <2>1, <3>1, <3>2
  <2>3. Pick(g.out[1]) \subseteq Tokens BY <1>3, <1>11, <2>1, Gemma4One
  <2>4. ASSUME Sure, NEW t \in Pick(g.out[1])
        PROVE  /\ t = Predict(SoFar \o w) /\ g.cache.kv = SoFar \o w /\ InWindowRight(g.cache, SoFar \o w)
    <3> DEFINE kept == SubSeq(job.draft, 1, a)
               ctx == SoFar \o kept
    <3>1. kept \in Seq(Tokens) /\ Len(kept) = a
      <4>1. a \in 0..Len(job.draft) BY <1>6, <1>9
      <4> QED BY <1>9, <4>1, PrefixFacts
    <3>2. kept \o p = w
      <4>1. kept = SubSeq(w, 1, Len(w) - 1) BY <1>6, <1>8, <1>13
      <4> QED BY <1>6, <4>1, PromptSplit DEF p
    <3>3. ctx = SubSeq(SoFar \o job.draft, 1, Len(SoFar) + a)
      <4>1. a \in 0..Len(job.draft) BY <1>6, <1>9
      <4> QED BY <1>3, <1>9, <4>1, ConcatPrefix
    <3> HIDE DEF kept
    <3>4. ctx \in Seq(Tokens) /\ Len(ctx) = Len(SoFar) + a /\ ctx \o p = SoFar \o w
      <4>1. SoFar \o (kept \o p) = (SoFar \o kept) \o p BY <1>3, <1>11, <3>1, ConcatThree
      <4> QED BY <1>3, <3>1, <3>2, <4>1, ConcatProperties
    <3> HIDE DEF ctx
    <3>5. InWindowRight(cache, ctx)
      <4> DEFINE all == SoFar \o job.draft
                 m == Len(SoFar) + a
      <4>1. all \in Seq(Tokens) /\ Len(all) = Len(SoFar) + QLen BY <1>3, <1>9, ConcatProperties
      <4>2. cache.kv = all /\ InRing(cache.ring, Len(SoFar) + QLen) BY <1>10, <2>4
      <4>3. m \in 0..Len(all)
        <5>1. Len(SoFar) \in Nat /\ a \in 1..QLen /\ QLen \in Nat BY <1>3, <1>6
        <5> HIDE DEF all
        <5> QED BY <4>1, <5>1
      <4>4. ctx = SubSeq(all, 1, m) BY <3>3
      <4>5. InRing(cache.ring, m)
        <5> DEFINE N == Len(SoFar) + QLen
        <5>1. N \in Nat /\ N <= Window /\ InRing(cache.ring, N) /\ m \in 0..N
          BY SMTT(30), <1>3, <1>6, <2>4, <4>1, <4>2, <4>3
        <5> HIDE DEF N, m
        <5> QED BY <5>1, RingShorter
      <4>6. Begins(cache.kv, ctx)
        <5> HIDE DEF all, m
        <5>1. Begins(all, all) /\ Len(all) \in Nat BY <4>1, ContextSelf
        <5> QED BY <4>1, <4>2, <4>3, <4>4, <5>1, BeginsPrefix
      <4> QED BY <3>4, <4>5, <4>6 DEF InWindowRight
    <3>6. Len(ctx) + Len(p) <= MaxCtx
      <4>1. Len(Prompt) + job.req.n_gen <= MaxCtx BY <1>2, <1>3, <2>4, RoomFacts
      <4>2. n = a + 1 /\ n <= job.req.n_gen - job.n /\ a \in Nat BY <1>6, <1>8, <1>13
      <4>3. MaxCtx \in Nat /\ job.n \in Nat /\ job.req.n_gen \in Nat /\ Len(Prompt) \in Nat
        BY <1>3, SizesAreNat
      <4>4. Len(ctx) = Len(Prompt) + job.n + a /\ Len(p) = 1 BY <1>3, <1>11, <3>4
      <4> QED BY SMTT(30), <4>1, <4>2, <4>3, <4>4
    <3>7. g = gemma4_step(cache, p, Len(ctx)) BY <1>3, <2>1, <2>4, <3>4 DEF b
    <3>8. NextRight(g.out, ctx, p) /\ g.cache.kv = ctx \o p /\ InWindowRight(g.cache, ctx \o p)
      BY <1>3, <1>11, <3>4, <3>5, <3>6, <3>7, Gemma4PassRight
    <3> QED BY <1>11, <2>4, <3>4, <3>8 DEF NextRight
  <2>5. ASSUME NEW t \in Pick(g.out[1]), NEW e \in EmitBatch(w),
               cache' = [g.cache EXCEPT !.cur_pos = job.committed + e.offered], EndTurn(e, t)
        PROVE  AnswerInv'
    <3>1. t \in Tokens BY <2>3
    <3>2. cache'.cur_pos = job.committed + e.offered /\ cache'.kv = g.cache.kv
          /\ cache'.ring = g.cache.ring
      BY <2>2, <2>5 DEF IsCache
    <3>3. ASSUME Sure PROVE Holds(cache', SoFar \o w) /\ cache'.kv = SoFar \o w /\ t = Predict(SoFar \o w)
      BY <1>1, <2>4, <2>5, <3>2, <3>3 DEF Holds, InWindowRight, Is
    <3>4. WorkInv' BY <1>1, <1>2, <1>6, <1>7, <2>5, <3>1, <3>2, <3>3, TurnRight
    <3>5. RingSize' BY <2>2, <3>2 DEF RingSize
    <3> QED BY <1>4, <3>4, <3>5 DEF AnswerInv
  <2>6. CASE cache' = [FailedPass(cache, b) EXCEPT !.cur_pos = b] /\ Return(FALSE)
    <3>1. WorkInv' BY <1>1, <1>2, <1>3, <2>6, FailsRight DEF Return
    <3>2. PICK c : c = FailedPass(cache, b) OBVIOUS
    <3>3. IsCache(c) /\ Len(c.ring) = Window BY <1>3, <1>4, <1>11, <3>2, FailedType, Gemma4Rings
    <3>4. cache' = [c EXCEPT !.cur_pos = b] BY <2>6, <3>2
    <3>5. RingSize' BY <3>3, <3>4 DEF RingSize, IsCache
    <3> QED BY <1>4, <3>1, <3>5 DEF AnswerInv
  <2> QED
    <3>1. \/ \E t \in Pick(g.out[1]), e \in EmitBatch(w) :
               /\ cache' = [g.cache EXCEPT !.cur_pos = job.committed + e.offered]
               /\ EndTurn(e, t)
          \/ cache' = [FailedPass(cache, b) EXCEPT !.cur_pos = b] /\ Return(FALSE)
      BY <1>5, <1>12, <1>13 DEF Gemma4Commit, a, n, b, p
    <3> QED BY <2>5, <2>6, <3>1
<1>14. CASE ~bonus
  <2>1. g.cache = cache BY <1>12, <1>14
  <2>2. ASSUME NEW t, t = Last(job.target), NEW e \in EmitBatch(w),
               cache' = [g.cache EXCEPT !.cur_pos = job.committed + e.offered], EndTurn(e, t)
        PROVE  AnswerInv'
    <3>1. Len(job.target) = QLen /\ QLen \in 1..QLen /\ job.target[QLen] \in Tokens
      BY <1>9, BlockSize
    <3>2. t = job.target[QLen] /\ t \in Tokens BY <2>2, <3>1 DEF Last
    <3>3. cache'.cur_pos = job.committed + e.offered /\ cache'.kv = cache.kv
          /\ cache'.ring = cache.ring
      BY <1>3, <2>1, <2>2 DEF IsCache
    <3>4. ASSUME Sure, ~Stops(e)
          PROVE  Holds(cache', SoFar \o w) /\ cache'.kv = SoFar \o w /\ t = Predict(SoFar \o w)
      <4>1. n = QLen /\ w = job.draft
        <5>1. ~(job.n + Len(w) >= job.req.n_gen) BY <1>6, <2>2, <3>4, GoesOn
        <5>2. n # job.req.n_gen - job.n BY <1>3, <1>6, <5>1
        <5> QED BY <1>8, <1>14, <5>2
      <4>2. SubSeq(job.draft, 1, QLen) = job.draft BY <1>9, SubSeqFull
      <4>3. Len(SoFar \o w) = Len(SoFar) + QLen BY <1>3, <1>9, <4>1, ConcatProperties
      <4>4. Begins(SoFar \o w, SoFar \o w)
        <5>1. SoFar \o w \in Seq(Tokens) BY <1>3, <1>6, ConcatProperties
        <5> QED BY <5>1, ContextSelf
      <4>5. cache.kv = SoFar \o w /\ InRing(cache.ring, Len(SoFar \o w)) BY <1>10, <3>4, <4>1, <4>3
      <4>6. t = Predict(SoFar \o w)
        <5>1. job.target[QLen] = Predict(SoFar \o SubSeq(job.draft, 1, QLen)) BY <1>10, <3>1, <3>4
        <5> QED BY <3>2, <4>1, <4>2, <5>1
      <4> QED BY <1>1, <3>3, <4>4, <4>5, <4>6 DEF Holds, Is
    <3>5. WorkInv' BY <1>1, <1>2, <1>6, <1>7, <2>2, <3>2, <3>3, <3>4, TurnRight
    <3>6. RingSize' BY <1>4, <3>3 DEF RingSize
    <3> QED BY <1>4, <3>5, <3>6 DEF AnswerInv
  <2> QED
    <3>1. \E e \in EmitBatch(w) :
               /\ cache' = [g.cache EXCEPT !.cur_pos = job.committed + e.offered]
               /\ EndTurn(e, Last(job.target))
      BY <1>5, <1>12, <1>14 DEF Gemma4Commit, a, n, b, p
    <3> QED BY <2>2, <3>1
<1> QED BY <1>13, <1>14

-----------------------------------------------------------------------------
(* The answers of laguna *)

LEMMA LagunaPrefillRight == ASSUME Inv, AnswerInv, LagunaPrefill PROVE AnswerInv'
<1> DEFINE k == job.committed
           n == Min({Chunk, Len(job.req.prompt) - k})
           p == SubSeq(job.req.prompt, k + 1, k + n)
<1>1. /\ Is("laguna") /\ job.at = "prefill" /\ k < Len(job.req.prompt) /\ job.at \in Working
      /\ UNCHANGED <<config, snaps, named, parked, drafter, commands>>
  BY DEF LagunaPrefill, KeepSnaps, Working
<1>3. /\ k \in Nat /\ Prompt \in Seq(Tokens) /\ Len(Prompt) \in Nat /\ IsJob(job) /\ IsCache(cache)
      /\ job.refused \in BOOLEAN /\ job.req.n_gen \in Nat /\ Len(Prompt) + job.req.n_gen <= MaxCtx
      /\ MaxCtx \in Nat
  BY <1>1, Served, SizesAreNat
<1>2. n \in Nat \ {0} /\ k + n <= Len(Prompt)
  BY <1>1, <1>3, PlainChunk DEF Prompt
<1>4. SnapsRight' /\ RingSize' BY <1>1, SameSnapsRight DEF AnswerInv, RingSize, Is
<1>5. PICK g : g = laguna_step(cache, p, k) OBVIOUS
<1>6. p \in Seq(Tokens) /\ Len(p) = n /\ p # <<>>
  <2> HIDE DEF n, k
  <2>1. p \in Seq(Tokens) /\ Len(p) = n BY <1>2, <1>3, ChunkFacts DEF Prompt
  <2> QED BY <1>2, <2>1
<1>7. IsOut(g.out, n) /\ Pick(Last(g.out)) \subseteq Tokens
  <2> HIDE DEF p, k, n
  <2>1. IsOut(g.out, Len(p)) BY <1>3, <1>5, <1>6, LagunaStepType
  <2>2. IsOut(g.out, n) BY <1>6, <2>1
  <2> QED BY <1>2, <2>2, OutPicks
<1>8. ASSUME cache' = g.cache, NEW t \in Pick(Last(g.out)),
             job' = [job EXCEPT !.committed = k + n, !.last = t], stream' = stream
      PROVE  AnswerInv'
  <2>1. t \in Tokens BY <1>7
  <2>2. /\ job'.at = "prefill" /\ job'.req = job.req /\ job'.exact = job.exact
        /\ job'.committed = k + n /\ job'.last = t
    <3> HIDE DEF n, k
    <3>1. job' = [job EXCEPT !.committed = k + n, !.last = t] BY <1>8
    <3>2. k + n \in Nat BY <1>2, <1>3
    <3> QED BY <1>1, <1>3, <2>1, <3>1, <3>2 DEF IsJob
  <2>3. stream' = <<>> BY <1>1, <1>8 DEF AnswerInv, WorkInv, PlaceOK
  <2>4. Prompt' = Prompt /\ InWindow' = InWindow BY <1>1, <2>2, SameRequest
  <2>5. ASSUME job.exact, InWindow PROVE PrefillRight'
    <3> DEFINE ctx == SubSeq(Prompt, 1, k)
               whole == SubSeq(Prompt, 1, k + n)
    <3>1. Lesser(k, Len(Prompt)) = k
      <4>1. k <= Len(Prompt) BY <1>1, <1>3 DEF Prompt
      <4> HIDE DEF k
      <4> QED BY <1>3, <4>1, LesserFacts
    <3>2. ctx \in Seq(Tokens) /\ Len(ctx) = k
      <4>1. k \in 0..Len(Prompt) BY <1>1, <1>3 DEF Prompt
      <4> HIDE DEF k
      <4> QED BY <1>3, <4>1, PrefixFacts
    <3>3. Begins(cache.kv, ctx)
      BY <1>1, <2>5, <3>1 DEF AnswerInv, WorkInv, PrefillRight, Holds
    <3>4. ctx \o p = whole
      <4> HIDE DEF n, k
      <4>1. SubSeq(Prompt, 1, k) \o SubSeq(Prompt, k + 1, k + n) = SubSeq(Prompt, 1, k + n)
        BY <1>2, <1>3, ChunkJoins
      <4> QED BY <4>1 DEF Prompt
    <3>5. Len(ctx) + Len(p) <= MaxCtx
      <4> HIDE DEF n, k, p, ctx
      <4> QED BY <1>2, <1>3, <1>6, <3>2
    <3> HIDE DEF n, p, ctx, whole
    <3>7. g = laguna_step(cache, p, Len(ctx)) BY <1>5, <3>2
    <3> HIDE DEF k
    <3>8. NextRight(g.out, ctx, p) /\ Begins(g.cache.kv, ctx \o p)
      <4>1. IsCache(cache) BY <1>3
      <4>2. p \in Seq(Tokens) /\ p # <<>> BY <1>6
      <4>3. ctx \in Seq(Tokens) BY <3>2
      <4> QED BY ONLY <3>3, <3>5, <3>7, <4>1, <4>2, <4>3, LagunaPassRight
    <3>9. Lesser(k + n, Len(Prompt)) = k + n BY <1>2, <1>3, LesserFacts
    <3>10. SubSeq(Prompt', 1, Lesser(job'.committed, Len(Prompt'))) = whole
      BY <2>2, <2>4, <3>9 DEF whole
    <3>11. Begins(cache'.kv, whole) BY <1>8, <3>4, <3>8
    <3>12. ASSUME k + n = Len(Prompt) PROVE job'.last = Predict(Prompt)
      <4>1. whole = Prompt BY <1>3, <3>12, SubSeqFull DEF whole
      <4>2. t = Predict(ctx \o p) BY <1>8, <3>8 DEF NextRight
      <4> QED BY <2>2, <3>4, <4>1, <4>2
    <3> QED BY <1>1, <2>2, <2>4, <3>10, <3>11, <3>12 DEF PrefillRight, Holds, Is
  <2>6. PrefillRight' BY <2>2, <2>4, <2>5 DEF PrefillRight
  <2> QED BY <1>4, <2>2, <2>3, <2>6, InPrefill DEF AnswerInv
<1>9. CASE Return(FALSE)
  <2>1. WorkInv' BY <1>1, <1>3, <1>9, FailsRight DEF AnswerInv, Return
  <2> QED BY <1>4, <2>1 DEF AnswerInv
<1> QED
  <2>1. \/ /\ cache' = g.cache
           /\ \E t \in Pick(Last(g.out)) : job' = [job EXCEPT !.committed = k + n, !.last = t]
           /\ stream' = stream
        \/ Return(FALSE)
    BY <1>5 DEF LagunaPrefill
  <2> QED BY <1>8, <1>9, <2>1

LEMMA LagunaInlineSnapRight ==
  ASSUME Inv, AnswerInv, Is("laguna"), job.at = "prefill", job.committed = Len(Prompt),
         LagunaInlineSnap, UNCHANGED config
  PROVE  SnapsRight'
<1>1. CASE ~(job.snap /\ job.req.snap_pos <= Len(job.req.prompt))
  BY <1>1, SameSnapsRight DEF LagunaInlineSnap, KeepSnaps, AnswerInv
<1>2. CASE job.snap /\ job.req.snap_pos <= Len(job.req.prompt)
  <2> DEFINE slot == job.req.snap_slot
             pos == job.req.snap_pos
             saved == laguna_snapshot_save(cache)
             p == SubSeq(Prompt, 1, pos)
  <2>1. job.at \in Working /\ "target" \notin parked /\ slot \in Slots /\ cache.cur_pos = Len(Prompt)
    BY <1>2 DEF Inv, JobOK, Working, Is
  <2>2. IsRequest(job.req) /\ IsCache(cache) /\ Prompt \in Seq(Tokens) /\ Len(Prompt) \in Nat \ {0}
    BY <2>1, Served
  <2>3. pos \in Nat \ {0} /\ pos <= Len(Prompt) BY <1>2, <2>1, <2>2, SlotsAssumption DEF IsRequest, Prompt
  <2>4. PICK s \in LagunaSave(snaps[slot]) :
           PutSnap(slot, IF s.used THEN [s EXCEPT !.cur_pos = pos] ELSE s)
    BY <1>2 DEF LagunaInlineSnap
  <2>5. s = saved \/ s = NoSnap
    <3>1. ~("target" \in parked \/ cache.cur_pos <= 0) BY <2>1, <2>2
    <3>2. s \in WithAlloc(saved, ~snaps[slot].used \/ snaps[slot].cur_pos # cache.cur_pos)
      BY <2>4, <3>1 DEF LagunaSave
    <3> HIDE DEF saved
    <3> QED BY <3>2 DEF WithAlloc
  <2>6. PICK new : new = IF s.used THEN [s EXCEPT !.cur_pos = pos] ELSE s OBVIOUS
  <2>7. ASSUME new.used, job.exact, InWindow PROVE SnapRight(new, SubSeq(Prompt, 1, new.cur_pos))
    <3>0. s.used BY <2>6, <2>7
    <3>1. s = saved
      <4> HIDE DEF saved
      <4> QED BY <2>5, <3>0, UnusedRight
    <3>2. p \in Seq(Tokens) /\ Len(p) = pos /\ pos \in 0..Len(Prompt)
      <4>1. pos \in 0..Len(Prompt) BY <2>2, <2>3
      <4> HIDE DEF pos
      <4> QED BY <2>2, <4>1, PrefixFacts
    <3>3. Begins(cache.kv, Prompt)
      <4>1. Lesser(job.committed, Len(Prompt)) = Len(Prompt) BY <2>2, LesserFacts
      <4>2. SubSeq(Prompt, 1, Len(Prompt)) = Prompt BY <2>2, SubSeqFull
      <4>3. Holds(cache, Prompt) BY <2>7, <4>1, <4>2 DEF AnswerInv, WorkInv, PrefillRight
      <4> QED BY <4>3 DEF Holds
    <3>4. /\ saved.used /\ ~saved.thin /\ saved.kv = Upto(cache.kv, Len(Prompt))
          /\ saved \in [used: BOOLEAN, thin: BOOLEAN, kv: {saved.kv}, ring: {saved.ring},
                       ssm: {saved.ssm}, feat: {saved.feat}, cur_pos: Nat,
                       last_tok: Tokens \cup {-1}]
      <4>1. IsSnap(saved) /\ saved.used
        <5>1. cache.cur_pos \in Nat /\ cache.cur_pos <= MaxCtx /\ cache.last_tok \in Tokens \cup {-1}
          <6>1. job.req.n_gen \in Nat /\ Len(Prompt) + job.req.n_gen <= MaxCtx /\ MaxCtx \in Nat
            BY <2>1, Served, SizesAreNat
          <6> QED BY <2>1, <2>2, <6>1 DEF Inv, CacheOK
        <5> QED BY <2>2, <5>1, SaveType
      <4>2. PICK kv, n : kv = Upto(cache.kv, Len(Prompt)) /\ n = Len(Prompt) OBVIOUS
      <4>3. saved = [NoSnap EXCEPT !.used = TRUE, !.kv = kv, !.cur_pos = n]
        BY <2>1, <4>2 DEF laguna_snapshot_save
      <4> HIDE DEF saved
      <4>4. ~saved.thin /\ saved.kv = kv BY <4>3 DEF NoSnap
      <4> QED BY <4>1, <4>2, <4>4 DEF IsSnap
    <3>5. saved.kv = Prompt
      <4>1. cache.kv \in Seq(Row) /\ Len(Prompt) \in 0..Len(Prompt) BY <2>2 DEF IsCache
      <4>2. Upto(cache.kv, Len(Prompt)) = SubSeq(Prompt, 1, Len(Prompt)) BY <2>2, <3>3, <4>1, UptoRight
      <4>3. SubSeq(Prompt, 1, Len(Prompt)) = Prompt BY <2>2, SubSeqFull
      <4> HIDE DEF saved
      <4> QED BY <3>4, <4>2, <4>3
    <3> HIDE DEF saved, pos
    <3>6. new.used /\ ~new.thin /\ new.kv = Prompt /\ new.cur_pos = pos
      <4>1. new = [saved EXCEPT !.cur_pos = pos] BY <2>6, <3>0, <3>1
      <4> QED BY <3>4, <3>5, <4>1
    <3>7. Begins(new.kv, p)
      <4>1. Begins(Prompt, Prompt) /\ Len(Prompt) \in Nat BY <2>2, ContextSelf
      <4> QED BY <2>2, <3>2, <3>6, <4>1, BeginsPrefix
    <3> QED BY <3>2, <3>6, <3>7 DEF SnapRight, Is
  <2>8. SnapsOK /\ SnapsRight BY DEF Inv, AnswerInv
  <2>9. PutSnap(slot, new) BY <2>4, <2>6
  <2> HIDE DEF slot
  <2> QED BY <2>1, <2>7, <2>8, <2>9, PutSnapRight
<1> QED BY <1>1, <1>2

LEMMA LagunaStartRight == ASSUME Inv, AnswerInv, LagunaStart PROVE AnswerInv'
<1>1. /\ Is("laguna") /\ job.at = "prefill" /\ job.committed >= Len(job.req.prompt)
      /\ LagunaInlineSnap /\ job' = [job EXCEPT !.at = "ar", !.snap = FALSE] /\ job.at \in Working
      /\ UNCHANGED <<config, cache, mirror, parked, drafter, stream, commands>>
  BY DEF LagunaStart, Working
<1>2. WorkInv BY DEF AnswerInv
<1>3. /\ IsJob(job) /\ Prompt \in Seq(Tokens) /\ Len(Prompt) \in Nat /\ job.n = 0
      /\ job.committed = Len(Prompt) /\ cache.cur_pos = Len(Prompt)
  <2>1. IsJob(job) /\ Prompt \in Seq(Tokens) /\ Len(Prompt) \in Nat /\ job.committed \in Nat
    BY <1>1, Served
  <2>2. job.committed <= Len(Prompt) /\ job.committed >= Len(Prompt) /\ job.n = 0
        /\ cache.cur_pos = job.committed
    BY <1>1 DEF Inv, JobOK, Prompt, Is
  <2> QED BY <2>1, <2>2
<1>4. SnapsRight' /\ RingSize'
  <2>1. SnapsRight' BY <1>1, <1>3, LagunaInlineSnapRight
  <2> QED BY <1>1, <2>1 DEF RingSize, Is
<1>5. stream = <<>> /\ SoFar = Prompt /\ Len(stream) = 0 BY <1>1, <1>2, NothingYet
<1>6. /\ job'.at = "ar" /\ job'.req = job.req /\ job'.exact = job.exact /\ job'.n = 0
      /\ job'.last = job.last
  BY <1>1, <1>3 DEF IsJob
<1>7. Sure' = Sure /\ CanSpec' = CanSpec /\ Prompt' = Prompt /\ ShouldEmit' = ShouldEmit
  BY <1>1, <1>6, SameRequest
<1>8. SoFar' = Prompt
  <2>1. SoFar' = Prompt' \o stream' BY DEF SoFar
  <2>2. SoFar = Prompt \o stream BY DEF SoFar
  <2> QED BY <1>1, <1>5, <1>7, <2>1, <2>2
<1>9. PlaceOK' BY <1>1, <1>5, <1>6, <1>7 DEF PlaceOK, Is
<1>10. ASSUME Sure PROVE PlainRight'
  <2>1. InWindow /\ job.exact BY <1>1, <1>10 DEF InWindow, Is, Sure
  <2>2. Lesser(job.committed, Len(Prompt)) = Len(Prompt) BY <1>3, LesserFacts
  <2>3. SubSeq(Prompt, 1, Len(Prompt)) = Prompt BY <1>3, SubSeqFull
  <2>4. Begins(cache.kv, Prompt) /\ job.last = Predict(Prompt)
    BY <1>1, <1>2, <1>3, <2>1, <2>2, <2>3 DEF WorkInv, PrefillRight, Holds
  <2>5. GreedyAfter(Prompt, <<>>) BY GreedyEmpty
  <2> QED BY <1>1, <1>3, <1>5, <1>6, <1>7, <1>8, <2>4, <2>5 DEF PlainRight, Is
<1>11. WorkInv' BY <1>6, <1>7, <1>9, <1>10, InPlain
<1> QED BY <1>4, <1>11 DEF AnswerInv

LEMMA LagunaDecodeRight == ASSUME Inv, AnswerInv, LagunaDecode PROVE AnswerInv'
<1>1. /\ Is("laguna") /\ job.at = "ar" /\ job.at \in Working
      /\ UNCHANGED <<config, snaps, named, mirror, parked, drafter, commands>>
  BY DEF LagunaDecode, KeepSnaps, Working
<1>2. WorkInv BY DEF AnswerInv
<1>3. /\ IsJob(job) /\ IsCache(cache) /\ job.n \in Nat /\ job.committed \in Nat
      /\ job.req.n_gen \in Nat /\ job.last \in Tokens
      /\ stream \in Seq(Tokens) /\ Prompt \in Seq(Tokens) /\ Len(Prompt) \in Nat
      /\ SoFar \in Seq(Tokens) /\ Len(SoFar) = Len(Prompt) + Len(stream)
      /\ Len(Prompt) + job.req.n_gen <= MaxCtx /\ MaxCtx \in Nat /\ cache.cur_pos \in Nat
      /\ IF ShouldEmit THEN Len(stream) = job.n ELSE stream = <<>>
      /\ Sure => GreedyTo(Prompt, stream, Claimed)
  <2>1. job.last \in Tokens /\ cache.cur_pos \in Nat BY <1>1 DEF Inv, JobOK, Is, CacheOK
  <2>2. IF ShouldEmit THEN Len(stream) = job.n ELSE stream = <<>> BY <1>1, <1>2 DEF WorkInv, PlaceOK
  <2> QED BY <1>1, <1>2, <2>1, <2>2, Served, StreamRight, SizesAreNat
<1>4. SnapsRight' /\ RingSize' BY <1>1, SameSnapsRight DEF AnswerInv, RingSize, Is
<1>5. ASSUME Sure, ShouldEmit
      PROVE  /\ GreedyAfter(Prompt, stream) /\ job.last = Predict(SoFar)
             /\ cache.cur_pos = Len(SoFar) /\ Begins(cache.kv, SoFar)
  BY <1>1, <1>2, <1>5 DEF WorkInv, PlainRight
<1> DEFINE p == <<job.last>>
           v == Append(stream, job.last)
<1>6. p \in Seq(Tokens) /\ Len(p) = 1 /\ p # <<>> BY <1>3
<1>7. v \in Seq(Tokens) /\ Len(v) = Len(stream) + 1 BY <1>3, AppendProperties
<1>8. SoFar \o p = Prompt \o v
  <2>1. stream \o p = v BY <1>3
  <2>2. Prompt \o (stream \o p) = (Prompt \o stream) \o p BY <1>3, <1>6, ConcatThree
  <2> QED BY <2>1, <2>2 DEF SoFar
<1>9. ASSUME Sure, ShouldEmit PROVE GreedyAfter(Prompt, v)
  BY <1>3, <1>5, <1>9, GreedyAppend DEF SoFar
<1>10. emit(job.last, TRUE) = v BY DEF emit
<1> HIDE DEF p, v
<1>11. PICK g : g = laguna_step(cache, p, cache.cur_pos) OBVIOUS
<1>12. Pick(g.out[1]) \subseteq Tokens BY <1>3, <1>6, <1>11, LagunaOne
\* The loop is left before the token is evaluated.
<1>13. ASSUME NEW r \in BOOLEAN, ~r => job.n = job.req.n_gen \/ job.last = Eos,
              LagunaEnd(TRUE, r, stream)
       PROVE  AnswerInv'
  <2>1. job' = Returned(TRUE, r) /\ stream' = IF ShouldEmit THEN Append(stream, -1) ELSE stream
    BY <1>13 DEF LagunaEnd
  <2>2. PICK k \in 0..1 : stream' = WithEnds(stream, k)
    <3>1. 0 \in 0..1 /\ 1 \in 0..1 OBVIOUS
    <3>2. Append(stream, -1) = WithEnds(stream, 1) /\ stream = WithEnds(stream, 0) BY MarkedFacts
    <3> QED BY <2>1, <3>1, <3>2
  <2>3. ASSUME Sure, ~r, Uncut PROVE Complete(stream)
    <3>1. ShouldEmit BY <1>1, <2>3 DEF Uncut, ShouldEmit
    <3>2. CASE job.n = job.req.n_gen BY <1>3, <3>1, <3>2 DEF Complete
    <3>3. CASE job.last = Eos
      <4>1. Predict(SoFar) = Eos BY <1>5, <2>3, <3>1, <3>3
      <4> QED BY <1>1, <4>1 DEF Complete, SoFar
    <3> QED BY <1>13, <2>3, <3>2, <3>3
  <2>4. WorkInv'
    <3>1. TRUE \in BOOLEAN OBVIOUS
    <3> QED BY <1>1, <1>2, <1>3, <2>1, <2>2, <2>3, <3>1, EndsRight
  <2> QED BY <1>4, <2>4 DEF AnswerInv
\* The token is streamed and evaluated.
<1>14. ASSUME job.n < job.req.n_gen, cache' = g.cache, NEW t \in Pick(g.out[1]),
              stream' = IF ShouldEmit THEN v ELSE stream,
              job' = [job EXCEPT !.last = t, !.n = @ + 1, !.committed = @ + 1]
       PROVE  AnswerInv'
  <2>1. t \in Tokens BY <1>12
  <2>2. /\ job'.at = "ar" /\ job'.req = job.req /\ job'.exact = job.exact /\ job'.n = job.n + 1
        /\ job'.last = t
    BY <1>1, <1>3, <1>14, <2>1, OneMore
  <2>3. Sure' = Sure /\ CanSpec' = CanSpec /\ Prompt' = Prompt /\ ShouldEmit' = ShouldEmit
    BY <1>1, <2>2, SameRequest
  <2>4. IF ShouldEmit' THEN Len(stream') = job'.n ELSE stream' = <<>>
    BY <1>3, <1>7, <1>14, <2>2, <2>3
  <2>5. PlaceOK' BY <1>1, <2>2, <2>4 DEF PlaceOK, Is
  <2>6. ASSUME Sure, ShouldEmit PROVE PlainRight'
    <3>1. Len(SoFar) + Len(p) <= MaxCtx BY <1>3, <1>6, <1>14, <2>6
    <3>2. g = laguna_step(cache, p, Len(SoFar)) BY <1>5, <1>11, <2>6
    <3>3. NextRight(g.out, SoFar, p) /\ Begins(g.cache.kv, SoFar \o p)
      BY <1>3, <1>5, <1>6, <2>6, <3>1, <3>2, LagunaPassRight
    <3>4. t = Predict(SoFar \o p) BY <1>6, <1>14, <3>3 DEF NextRight
    <3>5. SoFar' = SoFar \o p BY <1>8, <1>14, <2>3, <2>6 DEF SoFar
    <3>6. cache'.cur_pos = Len(SoFar \o p)
      <4>1. g.cache.cur_pos = cache.cur_pos + Len(p) BY <1>3, <1>6, <1>11, LagunaStepType
      <4>2. Len(SoFar \o p) = Len(SoFar) + Len(p) BY <1>3, <1>6, ConcatProperties
      <4> QED BY <1>5, <1>14, <2>6, <4>1, <4>2
    <3>7. GreedyAfter(Prompt, stream') BY <1>9, <1>14, <2>6
    <3> QED BY <1>1, <1>14, <2>2, <2>3, <3>3, <3>4, <3>5, <3>6, <3>7 DEF PlainRight, Is
  <2>7. ASSUME ~ShouldEmit PROVE PlainRight' BY <1>1, <2>3, <2>7 DEF PlainRight, Is
  <2>8. WorkInv' BY <2>2, <2>3, <2>5, <2>6, <2>7, InPlain
  <2> QED BY <1>4, <2>8 DEF AnswerInv
\* ... or its evaluation fails.
<1>15. ASSUME LagunaEnd(FALSE, FALSE, IF ShouldEmit THEN v ELSE stream) PROVE AnswerInv'
  <2>1. /\ job' = Returned(FALSE, FALSE)
        /\ stream' = IF ShouldEmit THEN Append(v, -1) ELSE stream
    BY <1>15 DEF LagunaEnd
  <2>2. CASE ShouldEmit
    <3>1. 1 \in 0..1 /\ stream' = WithEnds(v, 1)
      <4>1. Append(v, -1) = WithEnds(v, 1) BY MarkedFacts
      <4> QED BY <2>1, <2>2, <4>1
    <3>2. Sure => GreedyTo(Prompt, v, Claimed) BY <1>9, <2>2, GreedyAll
    <3>3. FALSE \in BOOLEAN OBVIOUS
    <3>4. WorkInv' BY <1>1, <1>2, <1>7, <2>1, <3>1, <3>2, <3>3, EndsRight
    <3> QED BY <1>4, <3>4 DEF AnswerInv
  <2>3. CASE ~ShouldEmit
    <3>1. FALSE \in BOOLEAN OBVIOUS
    <3>2. WorkInv' BY <1>1, <1>2, <2>1, <2>3, <3>1, FailsRight
    <3> QED BY <1>4, <3>2 DEF AnswerInv
  <2> QED BY <2>2, <2>3
<1> QED
  <2>1. \/ LagunaEnd(TRUE, FALSE, stream) /\ (job.n = job.req.n_gen \/ job.last = Eos)
        \/ LagunaEnd(TRUE, TRUE, stream)
        \/ /\ job.n < job.req.n_gen
           /\ cache' = g.cache
           /\ stream' = IF ShouldEmit THEN v ELSE stream
           /\ \E t \in Pick(g.out[1]) :
                job' = [job EXCEPT !.last = t, !.n = @ + 1, !.committed = @ + 1]
        \/ LagunaEnd(FALSE, FALSE, IF ShouldEmit THEN v ELSE stream)
    BY <1>10, <1>11 DEF LagunaDecode, p
  <2>2. FALSE \in BOOLEAN /\ TRUE \in BOOLEAN OBVIOUS
  <2> QED BY <1>13, <1>14, <1>15, <2>1, <2>2

-----------------------------------------------------------------------------
(* The answers of qwen3 *)

LEMMA Qwen3PrefillRight == ASSUME Inv, AnswerInv, Qwen3Prefill PROVE AnswerInv'
<1> DEFINE k == job.committed
           n == Min({Chunk, Len(job.req.prompt) - k})
           p == SubSeq(job.req.prompt, k + 1, k + n)
<1>1. /\ Is("qwen3") /\ job.at = "prefill" /\ k < Len(job.req.prompt) /\ job.at \in Working
      /\ UNCHANGED <<config, snaps, named, parked, drafter, commands>>
  BY DEF Qwen3Prefill, KeepSnaps, Working
<1>3. /\ k \in Nat /\ Prompt \in Seq(Tokens) /\ Len(Prompt) \in Nat /\ IsJob(job) /\ IsCache(cache)
      /\ job.refused \in BOOLEAN /\ job.req.n_gen \in Nat /\ Len(Prompt) + job.req.n_gen <= MaxCtx
      /\ MaxCtx \in Nat
  BY <1>1, Served, SizesAreNat
<1>2. n \in Nat \ {0} /\ k + n <= Len(Prompt)
  BY <1>1, <1>3, PlainChunk DEF Prompt
<1>4. SnapsRight' /\ RingSize' BY <1>1, SameSnapsRight DEF AnswerInv, RingSize, Is
<1>5. PICK g : g = Qwen3Step(cache, p, k) OBVIOUS
<1>6. p \in Seq(Tokens) /\ Len(p) = n /\ p # <<>>
  <2> HIDE DEF n, k
  <2>1. p \in Seq(Tokens) /\ Len(p) = n BY <1>2, <1>3, ChunkFacts DEF Prompt
  <2> QED BY <1>2, <2>1
<1>8. ASSUME cache' = [g.cache EXCEPT !.cur_pos = k + n],
             job' = [job EXCEPT !.committed = k + n], stream' = stream
      PROVE  AnswerInv'
  <2>2. /\ job'.at = "prefill" /\ job'.req = job.req /\ job'.exact = job.exact
        /\ job'.committed = k + n
    <3> HIDE DEF n, k
    <3>1. job' = [job EXCEPT !.committed = k + n] BY <1>8
    <3>2. k + n \in Nat BY <1>2, <1>3
    <3> QED BY <1>1, <1>3, <3>1, <3>2 DEF IsJob
  <2>3. stream' = <<>> BY <1>1, <1>8 DEF AnswerInv, WorkInv, PlaceOK
  <2>4. Prompt' = Prompt /\ InWindow' = InWindow BY <1>1, <2>2, SameRequest
  <2>5. ASSUME job.exact, InWindow PROVE PrefillRight'
    <3> DEFINE ctx == SubSeq(Prompt, 1, k)
               whole == SubSeq(Prompt, 1, k + n)
    <3>1. Lesser(k, Len(Prompt)) = k
      <4>1. k <= Len(Prompt) BY <1>1, <1>3 DEF Prompt
      <4> HIDE DEF k
      <4> QED BY <1>3, <4>1, LesserFacts
    <3>2. ctx \in Seq(Tokens) /\ Len(ctx) = k
      <4>1. k \in 0..Len(Prompt) BY <1>1, <1>3 DEF Prompt
      <4> HIDE DEF k
      <4> QED BY <1>3, <4>1, PrefixFacts
    <3>3. Begins(cache.kv, ctx)
      BY <1>1, <2>5, <3>1 DEF AnswerInv, WorkInv, PrefillRight, Holds
    <3>4. ctx \o p = whole
      <4> HIDE DEF n, k
      <4>1. SubSeq(Prompt, 1, k) \o SubSeq(Prompt, k + 1, k + n) = SubSeq(Prompt, 1, k + n)
        BY <1>2, <1>3, ChunkJoins
      <4> QED BY <4>1 DEF Prompt
    <3>5. Len(ctx) + Len(p) <= MaxCtx /\ k + n \in Nat
      <4> HIDE DEF n, k, p, ctx
      <4> QED BY <1>2, <1>3, <1>6, <3>2
    <3> HIDE DEF n, p, ctx, whole
    <3>7. g = Qwen3Step(cache, p, Len(ctx)) BY <1>5, <3>2
    <3> HIDE DEF k
    <3>8. Begins(cache'.kv, ctx \o p)
      <4>1. IsCache(cache) BY <1>3
      <4>2. p \in Seq(Tokens) /\ p # <<>> BY <1>6
      <4>3. ctx \in Seq(Tokens) BY <3>2
      <4>4. PICK m \in Nat : m = k + n BY <3>5
      <4>5. cache' = [g.cache EXCEPT !.cur_pos = m] BY <1>8, <4>4
      <4>6. Len(ctx) + Len(p) <= MaxCtx BY <3>5
      <4> QED BY ONLY <3>3, <3>7, <4>1, <4>2, <4>3, <4>5, <4>6, Qwen3PassRight
    <3>9. Lesser(k + n, Len(Prompt)) = k + n BY <1>2, <1>3, LesserFacts
    <3>10. SubSeq(Prompt', 1, Lesser(job'.committed, Len(Prompt'))) = whole
      BY <2>2, <2>4, <3>9 DEF whole
    <3>11. Begins(cache'.kv, whole) BY <3>4, <3>8
    <3> QED BY <1>1, <2>2, <2>4, <3>10, <3>11 DEF PrefillRight, Holds, Is
  <2>6. PrefillRight' BY <2>2, <2>4, <2>5 DEF PrefillRight
  <2> QED BY <1>4, <2>2, <2>3, <2>6, InPrefill DEF AnswerInv
<1>9. CASE Return(FALSE)
  <2>1. WorkInv' BY <1>1, <1>3, <1>9, FailsRight DEF AnswerInv, Return
  <2> QED BY <1>4, <2>1 DEF AnswerInv
<1> QED BY <1>5, <1>8, <1>9 DEF Qwen3Prefill

\* Once the prompt is evaluated, or restored to its end and past it.
LEMMA Qwen3Evaluated ==
  ASSUME Inv, AnswerInv, Is("qwen3"), job.at = "prefill", job.committed >= Len(Prompt), job.exact
  PROVE  Begins(cache.kv, Prompt)
<1>1. job.at \in Working /\ InWindow BY DEF Working, InWindow, Is
<1>2. Prompt \in Seq(Tokens) /\ Len(Prompt) \in Nat /\ job.committed \in Nat BY <1>1, Served
<1>3. Lesser(job.committed, Len(Prompt)) = Len(Prompt) BY <1>2 DEF Lesser
<1>4. SubSeq(Prompt, 1, Len(Prompt)) = Prompt BY <1>2, SubSeqFull
<1> QED BY <1>1, <1>3, <1>4 DEF AnswerInv, WorkInv, PrefillRight, Holds

LEMMA Qwen3InlineSnapRight ==
  ASSUME Inv, AnswerInv, Is("qwen3"), job.at = "prefill", job.committed >= Len(Prompt),
         Qwen3InlineSnap(Len(Prompt)), UNCHANGED config
  PROVE  SnapsRight'
<1> DEFINE slot == job.req.snap_slot
           pos == job.req.snap_pos
<1>1. CASE ~(job.snap /\ pos <= Len(Prompt))
  BY <1>1, SameSnapsRight DEF Qwen3InlineSnap, KeepSnaps, AnswerInv
<1>2. CASE job.snap /\ pos <= Len(Prompt)
  <2>1. job.at \in Working /\ slot \in Slots
    BY <1>2 DEF Inv, JobOK, Working, Is
  <2>2. IsRequest(job.req) /\ IsCache(cache) /\ Prompt \in Seq(Tokens) /\ Len(Prompt) \in Nat \ {0}
    BY <2>1, Served
  <2>3. pos \in Nat \ {0} /\ pos <= Len(Prompt) BY <1>2, <2>1, <2>2, SlotsAssumption DEF IsRequest
  <2>4. PICK s \in Qwen3SaveAt(pos) : PutSnap(slot, s) BY <1>2 DEF Qwen3InlineSnap
  <2>5. PICK c : c = [cache EXCEPT !.cur_pos = pos] OBVIOUS
  <2>6. PICK saved : saved = Qwen3Save(c) OBVIOUS
  <2> HIDE DEF pos
  <2>7. c.kv = cache.kv /\ c.cur_pos = pos BY <2>2, <2>3, <2>5 DEF IsCache
  <2>8. saved.used /\ ~saved.thin /\ saved.kv = cache.kv /\ saved.cur_pos = pos
    <3>1. PICK kv, n : kv = cache.kv /\ n = pos OBVIOUS
    <3>2. saved = [NoSnap EXCEPT !.used = TRUE, !.kv = kv, !.cur_pos = n]
      BY <2>6, <2>7, <3>1 DEF Qwen3Save
    <3>3. saved.used /\ ~saved.thin /\ saved.kv = kv /\ saved.cur_pos = n BY <3>2 DEF NoSnap
    <3> QED BY <3>1, <3>3
  <2>9. s = saved \/ s = NoSnap
    <3>1. s \in WithAlloc(saved, TRUE) BY <2>4, <2>5, <2>6 DEF Qwen3SaveAt
    <3> QED BY <3>1 DEF WithAlloc
  <2>10. ASSUME s.used, job.exact PROVE SnapRight(s, SubSeq(Prompt, 1, s.cur_pos))
    <3>1. s = saved BY <2>9, <2>10, UnusedRight
    <3>2. PICK p : p = SubSeq(Prompt, 1, pos) OBVIOUS
    <3>3. p \in Seq(Tokens) /\ Len(p) = pos /\ pos \in 0..Len(Prompt)
      <4>1. pos \in 0..Len(Prompt) BY <2>2, <2>3
      <4> QED BY <2>2, <3>2, <4>1, PrefixFacts
    <3>4. Begins(cache.kv, Prompt) BY <2>10, Qwen3Evaluated
    <3>5. Begins(cache.kv, p)
      <4>1. Len(cache.kv) \in Nat BY <2>2 DEF IsCache
      <4> QED BY <2>2, <3>2, <3>3, <3>4, <4>1, BeginsPrefix
    <3> QED BY <2>8, <3>1, <3>2, <3>3, <3>5 DEF SnapRight, Is
  <2>11. SnapsOK /\ SnapsRight BY SMTT(30) DEF Inv, AnswerInv
  <2> HIDE DEF slot
  <2> QED BY <2>1, <2>4, <2>10, <2>11, PutSnapRight
<1> QED BY <1>1, <1>2

LEMMA Qwen3FirstRight == ASSUME Inv, AnswerInv, Qwen3First PROVE AnswerInv'
<1>1. /\ Is("qwen3") /\ job.at = "prefill" /\ job.committed >= Len(Prompt)
      /\ Qwen3InlineSnap(Len(Prompt)) /\ UNCHANGED <<config, parked, drafter, commands>>
      /\ job.at \in Working
  BY DEF Qwen3First, Working, Prompt
<1>2. WorkInv BY DEF AnswerInv
<1>3. /\ IsJob(job) /\ IsCache(cache) /\ Prompt \in Seq(Tokens) /\ Prompt # <<>>
      /\ Len(Prompt) \in Nat \ {0} /\ job.req.n_gen \in Nat /\ job.refused \in BOOLEAN
      /\ MaxCtx \in Nat /\ Len(Prompt) + job.req.n_gen <= MaxCtx
  BY <1>1, Served, SizesAreNat
<1>4. SnapsRight' /\ RingSize'
  <2>1. SnapsRight' BY <1>1, Qwen3InlineSnapRight
  <2> QED BY <1>1, <2>1 DEF RingSize, Is
<1>5. stream = <<>> /\ SoFar = Prompt /\ Len(stream) = 0 BY <1>1, <1>2, NothingYet
<1> DEFINE p == <<Last(Prompt)>>
           b == Len(Prompt) - 1
           ctx == SubSeq(Prompt, 1, b)
<1>6. /\ p \in Seq(Tokens) /\ Len(p) = 1 /\ p # <<>> /\ b \in Nat /\ b \in 0..Len(Prompt)
      /\ ctx \in Seq(Tokens) /\ Len(ctx) = b /\ ctx \o p = Prompt /\ Last(Prompt) \in Tokens
  <2>1. p \in Seq(Tokens) /\ Len(p) = 1 /\ Last(Prompt) \in Tokens BY <1>3, LastOfPrompt
  <2> QED BY <1>3, <2>1, PromptSplit
<1>7. PICK g : g = Qwen3Step(cache, p, b) OBVIOUS
<1>8. Pick(g.out[1]) \subseteq Tokens
  <2>1. 0 \in Nat OBVIOUS
  <2> HIDE DEF b
  <2> QED BY <1>3, <1>6, <1>7, <2>1, Qwen3One
<1>9. PICK m \in Nat : m = Len(Prompt) BY <1>3
<1> HIDE DEF p, b, ctx
<1>10. ASSUME Sure, NEW t \in Pick(g.out[1])
       PROVE  t = Predict(Prompt) /\ Begins([g.cache EXCEPT !.cur_pos = m].kv, Prompt)
  <2>1. Begins(cache.kv, ctx)
    <3>1. Begins(cache.kv, Prompt) BY <1>1, <1>10, Qwen3Evaluated DEF Sure
    <3>2. Len(cache.kv) \in Nat BY <1>3 DEF IsCache
    <3> QED BY <1>3, <1>6, <3>1, <3>2, BeginsPrefix DEF ctx
  <2>2. Len(ctx) + Len(p) <= MaxCtx BY <1>3, <1>6 DEF b
  <2>3. g = Qwen3Step(cache, p, Len(ctx)) BY <1>6, <1>7
  <2>4. NextRight(g.out, ctx, p) /\ Begins([g.cache EXCEPT !.cur_pos = m].kv, ctx \o p)
    BY <1>3, <1>6, <1>9, <2>1, <2>2, <2>3, Qwen3PassRight
  <2> QED BY <1>6, <1>10, <2>4 DEF NextRight
<1>11. CASE job.req.n_gen = 0 /\ ReturnMarked(TRUE)
  <2>1. job' = Returned(TRUE, job.refused) /\ stream' = Append(stream, -1) BY <1>11 DEF ReturnMarked
  <2>2. Complete(stream) BY <1>5, <1>11 DEF Complete
  <2>3. WorkInv' BY <1>1, <1>2, <1>3, <2>1, <2>2, FailsRight
  <2> QED BY <1>4, <2>3 DEF AnswerInv
<1>12. ASSUME NEW t \in Pick(g.out[1]), NEW a \in Accepts, ~a \/ t = Eos \/ job.req.n_gen = 1,
              stream' = Append(emit(t, a), -1), job' = Returned(TRUE, ~a)
       PROVE  AnswerInv'
  <2>1. a \in BOOLEAN /\ t \in Tokens BY <1>8, AcceptsBool
  <2>2. PICK r \in BOOLEAN : r = ~a OBVIOUS
  <2>3. job' = Returned(TRUE, r) /\ (~a => r) BY <1>12, <2>2
  <2>4. Sure => t = Predict(SoFar) BY <1>5, <1>10
  <2>5. a => t = Eos \/ Len(stream) + 1 = job.req.n_gen BY <1>5, <1>12
  <2>6. WorkInv' BY <1>1, <1>2, <1>12, <2>1, <2>2, <2>3, <2>4, <2>5, LastRight
  <2> QED BY <1>4, <2>6 DEF AnswerInv
<1>13. ASSUME NEW t \in Pick(g.out[1]), NEW a \in Accepts, a,
              cache' = [g.cache EXCEPT !.cur_pos = m], stream' = emit(t, a),
              job' = [job EXCEPT !.at = "second", !.last = t, !.n = 1, !.committed = m]
       PROVE  AnswerInv'
  <2>1. t \in Tokens BY <1>8
  <2>2. /\ job'.at = "second" /\ job'.req = job.req /\ job'.exact = job.exact /\ job'.n = 1
        /\ job'.last = t /\ job'.committed = m
    <3>1. job' = [job EXCEPT !.at = "second", !.last = t, !.n = 1, !.committed = m] BY <1>13
    <3> QED BY <1>3, <2>1, <3>1 DEF IsJob
  <2>3. Sure' = Sure /\ Prompt' = Prompt BY <1>1, <2>2, SameRequest
  <2>4. stream' = <<t>> BY <1>5, <1>13, <2>1, FirstEmit
  <2>5. PlaceOK' BY <1>1, <2>2, <2>4 DEF PlaceOK, Is
  <2>6. ASSUME Sure PROVE SecondRight'
    <3>1. t = Predict(Prompt) /\ Begins(cache'.kv, Prompt) BY <1>10, <1>13, <2>6
    <3> QED BY <1>9, <2>2, <2>3, <3>1 DEF SecondRight
  <2> QED BY <1>4, <2>2, <2>3, <2>5, <2>6
        DEF AnswerInv, WorkInv, PrefillRight, DraftRight, CommitRight, PlainRight, EndRight
<1>14. CASE Return(FALSE)
  <2>1. WorkInv' BY <1>1, <1>2, <1>3, <1>14, FailsRight DEF Return
  <2> QED BY <1>4, <2>1 DEF AnswerInv
<1>15. g = Qwen3Step(cache, <<Last(job.req.prompt)>>, Len(job.req.prompt) - 1)
       /\ m = Len(job.req.prompt)
  BY <1>7, <1>9 DEF Prompt, p, b
<1> QED
  <2>1. CASE /\ job.req.n_gen > 0
             /\ cache' = [g.cache EXCEPT !.cur_pos = m]
             /\ \E t \in Pick(g.out[1]), a \in Accepts :
                    IF ~a \/ t = Eos \/ job.req.n_gen = 1
                    THEN /\ stream' = Append(emit(t, a), -1)
                         /\ job' = Returned(TRUE, ~a)
                    ELSE /\ stream' = emit(t, a)
                         /\ job' = [job EXCEPT !.at = "second", !.last = t, !.n = 1,
                                               !.committed = m]
    <3>1. PICK t \in Pick(g.out[1]), a \in Accepts :
                    IF ~a \/ t = Eos \/ job.req.n_gen = 1
                    THEN /\ stream' = Append(emit(t, a), -1)
                         /\ job' = Returned(TRUE, ~a)
                    ELSE /\ stream' = emit(t, a)
                         /\ job' = [job EXCEPT !.at = "second", !.last = t, !.n = 1,
                                               !.committed = m]
      BY <2>1
    <3>2. CASE ~a \/ t = Eos \/ job.req.n_gen = 1 BY <1>12, <3>1, <3>2
    <3>3. CASE ~(~a \/ t = Eos \/ job.req.n_gen = 1) BY <1>13, <2>1, <3>1, <3>3
    <3> QED BY <3>2, <3>3
  <2> QED BY ZenonT(40), <1>11, <1>14, <1>15, <2>1 DEF Qwen3First

LEMMA Qwen3SecondRight == ASSUME Inv, AnswerInv, Qwen3Second PROVE AnswerInv'
<1>1. /\ Is("qwen3") /\ job.at = "second" /\ job.at \in Working
      /\ UNCHANGED <<config, snaps, named, mirror, parked, drafter, commands>>
  BY DEF Qwen3Second, KeepSnaps, Working
<1>2. WorkInv BY DEF AnswerInv
<1>3. /\ IsJob(job) /\ IsCache(cache) /\ job.committed \in Nat /\ job.refused \in BOOLEAN
      /\ Prompt \in Seq(Tokens) /\ Len(Prompt) \in Nat /\ MaxCtx \in Nat /\ job.last \in Tokens
      /\ job.n = 1 /\ stream = <<job.last>> /\ Len(Prompt) + 1 <= MaxCtx
  <2>1. job.last \in Tokens /\ job.n < job.req.n_gen BY <1>1 DEF Inv, JobOK, Is
  <2>2. job.n = 1 /\ stream = <<job.last>> BY <1>1, <1>2 DEF WorkInv, PlaceOK
  <2>3. /\ IsJob(job) /\ IsCache(cache) /\ job.committed \in Nat /\ job.refused \in BOOLEAN
        /\ Prompt \in Seq(Tokens) /\ Len(Prompt) \in Nat /\ MaxCtx \in Nat
        /\ job.req.n_gen \in Nat /\ Len(Prompt) + job.req.n_gen <= MaxCtx
    BY <1>1, Served, SizesAreNat
  <2> QED BY <2>1, <2>2, <2>3
<1>4. SnapsRight' /\ RingSize' BY <1>1, SameSnapsRight DEF AnswerInv, RingSize, Is
<1> DEFINE p == <<job.last>>
<1>5. p \in Seq(Tokens) /\ Len(p) = 1 /\ p # <<>> BY <1>3
<1>6. stream = p BY <1>3
<1> HIDE DEF p
<1>7. PICK g : g = Qwen3Step(cache, p, job.committed) OBVIOUS
<1>8. Pick(g.out[1]) \subseteq Tokens
  <2>1. 0 \in Nat OBVIOUS
  <2> QED BY <1>3, <1>7, <2>1, Qwen3One DEF p
<1>9. ASSUME NEW t \in Pick(g.out[1]), stream' = stream,
             job' = [job EXCEPT !.at = "ar", !.last = t, !.committed = @ + 1]
      PROVE  AnswerInv'
  <2>1. t \in Tokens BY <1>8
  <2>2. /\ job'.at = "ar" /\ job'.req = job.req /\ job'.exact = job.exact /\ job'.n = 1
        /\ job'.last = t
    <3>1. job' = [job EXCEPT !.at = "ar", !.last = t, !.committed = @ + 1] BY <1>9
    <3> QED BY <1>3, <2>1, <3>1 DEF IsJob
  <2>3. Sure' = Sure /\ Prompt' = Prompt BY <1>1, <2>2, SameRequest
  <2>4. SoFar' = SoFar BY <1>9, <2>3 DEF SoFar
  <2>5. PlaceOK' BY <1>1, <1>5, <1>6, <1>9, <2>2 DEF PlaceOK, Is
  <2>6. ASSUME Sure PROVE PlainRight'
    <3>1. job.last = Predict(Prompt) /\ job.committed = Len(Prompt) /\ Begins(cache.kv, Prompt)
      BY <1>1, <1>2, <2>6 DEF WorkInv, SecondRight
    <3>2. Len(Prompt) + Len(p) <= MaxCtx BY <1>3, <1>5
    <3>3. g = Qwen3Step(cache, p, Len(Prompt)) BY <1>7, <3>1
    <3>4. 0 \in Nat OBVIOUS
    <3>5. NextRight(g.out, Prompt, p) BY <1>3, <1>5, <3>1, <3>2, <3>3, <3>4, Qwen3PassRight
    <3>6. t = Predict(SoFar) BY <1>5, <1>6, <1>9, <3>5 DEF NextRight, SoFar
    <3>7. GreedyTo(Prompt, stream, 2)
      <4>1. GreedyAfter(Prompt, <<job.last>>) BY <1>3, <3>1, FirstGreedy
      <4> QED BY <1>3, <4>1, GreedyAll
    <3> QED BY <1>1, <1>9, <2>2, <2>3, <2>4, <3>6, <3>7 DEF PlainRight, Is
  <2>7. WorkInv' BY <2>2, <2>3, <2>5, <2>6, InPlain
  <2> QED BY <1>4, <2>7 DEF AnswerInv
<1>10. CASE Return(FALSE)
  <2>1. WorkInv' BY <1>1, <1>2, <1>3, <1>10, FailsRight DEF Return
  <2> QED BY <1>4, <2>1 DEF AnswerInv
<1> QED BY <1>7, <1>9, <1>10 DEF Qwen3Second, p

LEMMA Qwen3DecodeRight == ASSUME Inv, AnswerInv, Qwen3Decode PROVE AnswerInv'
<1>1. /\ Is("qwen3") /\ job.at = "ar" /\ job.at \in Working
      /\ UNCHANGED <<config, snaps, named, mirror, parked, drafter, commands>>
  BY DEF Qwen3Decode, KeepSnaps, Working
<1>2. WorkInv BY DEF AnswerInv
<1>3. /\ IsJob(job) /\ job.n \in Nat \ {0} /\ job.req.n_gen \in Nat /\ job.last \in Tokens
      /\ job.n < job.req.n_gen /\ job.committed + 1 \in Nat
      /\ stream \in Seq(Tokens) /\ Prompt \in Seq(Tokens) /\ Len(stream) = job.n
      /\ SoFar \in Seq(Tokens) /\ IsCache(cache)
  <2>1. job.last \in Tokens /\ job.n < job.req.n_gen BY <1>1 DEF Inv, JobOK, Is
  <2>2. Len(stream) = job.n /\ job.n > 0 BY <1>1, <1>2 DEF WorkInv, PlaceOK
  <2>3. /\ IsJob(job) /\ job.n \in Nat /\ job.req.n_gen \in Nat /\ job.committed \in Nat
        /\ IsCache(cache)
    BY <1>1, Served
  <2>4. stream \in Seq(Tokens) /\ Prompt \in Seq(Tokens) /\ SoFar \in Seq(Tokens)
    BY <1>1, <1>2, StreamRight
  <2> QED BY <2>1, <2>2, <2>3, <2>4
<1>4. SnapsRight' /\ RingSize' BY <1>1, SameSnapsRight DEF AnswerInv, RingSize, Is
<1>5. Claimed = 2 BY <1>1 DEF Claimed, Is
<1>6. Sure => GreedyTo(Prompt, stream, 2) /\ (job.n = 1 => job.last = Predict(SoFar))
  BY <1>1, <1>2 DEF WorkInv, PlainRight
<1>7. PICK v : v = Append(stream, job.last) OBVIOUS
<1>8. v \in Seq(Tokens) /\ Len(v) = job.n + 1 /\ emit(job.last, TRUE) = v
  BY <1>3, <1>7, AppendProperties DEF emit
<1>9. ASSUME Sure PROVE GreedyTo(Prompt, v, 2)
  <2>1. Len(stream) + 1 <= 2 => job.last = Predict(Prompt \o stream) BY <1>3, <1>6, <1>9 DEF SoFar
  <2>2. 2 \in Int OBVIOUS
  <2> QED BY <1>3, <1>6, <1>7, <1>9, <2>1, <2>2, GreedyToAppend
<1>10. ASSUME NEW a \in Accepts, ~a \/ job.last = Eos \/ job.n + 1 = job.req.n_gen,
              stream' = Append(emit(job.last, a), -1), job' = Returned(TRUE, ~a)
       PROVE  AnswerInv'
  <2>1. a \in BOOLEAN BY AcceptsBool
  <2>2. PICK r \in BOOLEAN : r = ~a OBVIOUS
  <2>3. job' = Returned(TRUE, r) /\ (~a => r) BY <1>10, <2>2
  <2>4. PICK t \in Tokens : t = job.last BY <1>3
  <2>5. Sure /\ Len(stream) + 1 <= Claimed => t = Predict(SoFar) BY <1>3, <1>5, <1>6, <2>4
  <2>6. a => t = Eos \/ Len(stream) + 1 = job.req.n_gen BY <1>3, <1>10, <2>4
  <2>7. stream' = Append(emit(t, a), -1) BY <1>10, <2>4
  <2>8. WorkInv' BY <1>1, <1>2, <2>1, <2>2, <2>3, <2>5, <2>6, <2>7, LastRight
  <2> QED BY <1>4, <2>8 DEF AnswerInv
<1>11. ASSUME NEW t \in Tokens, stream' = v,
              job' = [job EXCEPT !.last = t, !.n = @ + 1, !.committed = @ + 1]
       PROVE  AnswerInv'
  <2>1. /\ job'.at = "ar" /\ job'.req = job.req /\ job'.exact = job.exact /\ job'.n = job.n + 1
        /\ job'.last = t
    BY <1>1, <1>3, <1>11, OneMore
  <2>2. Sure' = Sure /\ Prompt' = Prompt BY <1>1, <2>1, SameRequest
  <2>3. job'.n # 1 /\ job'.n > 0 BY <1>3, <2>1
  <2>4. PlaceOK' BY <1>1, <1>8, <1>11, <2>1, <2>3 DEF PlaceOK, Is
  <2>5. ASSUME Sure PROVE PlainRight'
    BY <1>1, <1>9, <1>11, <2>2, <2>3, <2>5 DEF PlainRight, Is
  <2>6. WorkInv' BY <2>1, <2>2, <2>4, <2>5, InPlain
  <2> QED BY <1>4, <2>6 DEF AnswerInv
<1>12. ASSUME stream' = v, job' = Returned(FALSE, FALSE) PROVE AnswerInv'
  <2>1. 0 \in 0..1 /\ stream' = WithEnds(v, 0) /\ FALSE \in BOOLEAN BY <1>12 DEF WithEnds
  <2>2. Sure => GreedyTo(Prompt, v, Claimed) BY <1>5, <1>9
  <2>3. WorkInv' BY <1>1, <1>8, <1>12, <2>1, <2>2, EndsRight
  <2> QED BY <1>4, <2>3 DEF AnswerInv
<1>13. ASSUME NEW t \in Pick(Qwen3Step(cache, <<job.last>>, job.committed + 1).out[1]) PROVE t \in Tokens
  <2>1. 0 \in Nat OBVIOUS
  <2> QED BY <1>3, <1>13, <2>1, Qwen3One
<1> QED BY <1>8, <1>10, <1>11, <1>12, <1>13 DEF Qwen3Decode

-----------------------------------------------------------------------------
(* Where an answer begins and ends *)

\* Nothing is claimed of an answer that is not a generation's.
LEMMA NoClaim == ASSUME job'.at \in {"idle", "answered"}, ~job'.exact PROVE WorkInv'
BY DEF WorkInv, PlaceOK, PrefillRight, Sure

\* A request that fails before anything was evaluated.
LEMMA NoneRight ==
  ASSUME job'.at = "returned", ~job'.ok, stream' \in {<<>>, <<-1>>} PROVE WorkInv'
<1>1. PICK k \in 0..1 : stream' = WithEnds(<<>>, k) BY EmptyFacts
<1>2. GreedyTo(job'.req.prompt, <<>>, Claimed') BY GreedyEmpty
<1>3. <<>> \in Seq(Tokens) /\ k \in 0..2 OBVIOUS
<1>4. EndRight' BY <1>1, <1>2, <1>3 DEF EndRight, Prompt
<1> QED BY <1>4 DEF WorkInv, PlaceOK, PrefillRight, DraftRight, CommitRight, PlainRight, SecondRight

\* What a prefill may begin with.
BeginsWith(c, q, k) ==
  /\ Begins(c.kv, SubSeq(q, 1, Lesser(k, Len(q))))
  /\ Is("qwen35") => c.ssm = SubSeq(q, 1, Lesser(k, Len(q)))
  /\ Is("gemma4") => InRing(c.ring, Len(SubSeq(q, 1, Lesser(k, Len(q)))))
  /\ Is("qwen35") /\ k > 0 => c.last_tok = Predict(SubSeq(q, 1, k)) /\ c.kv = SubSeq(q, 1, k)
  /\ ~(Is("gemma4") /\ config.draft /\ k = Len(q))
  /\ ~(Is("laguna") /\ k = Len(q))

LEMMA StartsRight ==
  ASSUME UNCHANGED config, job'.at = "prefill", stream' = <<>>, NEW req, job'.req = req,
         NEW k, job'.committed = k,
         job'.exact /\ (Is("gemma4") => Len(req.prompt) <= Window) => BeginsWith(cache', req.prompt, k)
  PROVE  WorkInv'
<1>1. ASSUME (job.exact /\ InWindow)' PROVE BeginsWith(cache', req.prompt, k)
  BY <1>1 DEF InWindow, Is
<1>2. PrefillRight'
  BY <1>1 DEF PrefillRight, BeginsWith, Holds, Is, Prompt
<1> QED BY <1>2, InPrefill

LEMMA NothingHeld ==
  ASSUME NEW c, IsCache(c), Is("qwen35") => c.ssm = <<>>, NEW q \in Seq(Tokens), q # <<>>
  PROVE  BeginsWith(c, q, 0)
<1>1. Lesser(0, Len(q)) = 0 /\ 0 # Len(q) BY LesserFacts
<1>2. SubSeq(q, 1, 0) = <<>> /\ Len(<<>>) = 0 OBVIOUS
<1>3. Len(c.kv) \in Nat BY DEF IsCache
<1>4. Begins(c.kv, <<>>) BY <1>2, <1>3 DEF Begins
<1>5. InRing(c.ring, 0) BY DEF InRing
<1>6. PICK ctx : ctx = SubSeq(q, 1, Lesser(0, Len(q))) OBVIOUS
<1>7. ctx = <<>> /\ Len(ctx) = 0 BY <1>1, <1>2, <1>6
<1>8. ~(0 > 0) OBVIOUS
<1>9. /\ Begins(c.kv, ctx) /\ (Is("qwen35") => c.ssm = ctx) /\ InRing(c.ring, Len(ctx))
  BY <1>4, <1>5, <1>7
<1> QED BY <1>1, <1>6, <1>8, <1>9 DEF BeginsWith

LEMMA FreshRight ==
  ASSUME NEW req, IsRequest(req), NEW sn, job' = Fresh(req, sn), stream' = <<>>, UNCHANGED config,
         IsCache(cache'), Is("qwen35") => cache'.ssm = <<>>
  PROVE  WorkInv'
<1>1. job'.at = "prefill" /\ job'.req = req /\ job'.committed = 0
  <2>1. IsJob(Idle) /\ Idle.committed = 0 BY IdleFacts DEF Idle
  <2> QED BY <2>1 DEF IsJob, Fresh
<1>2. BeginsWith(cache', req.prompt, 0) BY NothingHeld DEF IsRequest
<1> QED BY <1>1, <1>2, StartsRight

LEMMA BegunExact ==
  ASSUME NEW req, NEW k \in Nat, NEW x \in BOOLEAN, NEW sn \in BOOLEAN
  PROVE  LET j == Begun(req, k, x, sn)
         IN  IsJob(j) /\ j.at = "prefill" /\ j.req = req /\ j.committed = k /\ j.exact = x
<1>1. IsJob(Idle) BY IdleFacts
<1>2. IsJob(Begun(req, k, x, sn)) BY BegunFacts DEF Opens
<1> QED BY <1>1, <1>2 DEF IsJob, Begun

\* The snapshot a matching request continues.
LEMMA MatchFacts ==
  ASSUME Inv, SnapsRight, NEW req, IsRequest(req), req.slot \in Slots, Matches(req)
  PROVE  LET s == snaps[req.slot]
             p == named[req.slot]
             q == req.prompt
         IN  /\ SnapRight(s, p) /\ p \in Seq(Tokens) /\ p # <<>> /\ s.cur_pos = Len(p)
             /\ \A n \in Nat : n <= Len(p) /\ n <= Len(q) => SubSeq(q, 1, n) = SubSeq(p, 1, n)
             /\ ~(Is("gemma4") /\ config.draft /\ Len(p) = Len(q))
<1>1. PICK p : p = named[req.slot] OBVIOUS
<1>2. PICK q : q = req.prompt OBVIOUS
<1>3. p # <<>> /\ (IsPrefix(p, q) \/ IsPrefix(q, p)) /\ ~(Is("gemma4") /\ config.draft /\ Len(p) = Len(q))
  BY <1>1, <1>2 DEF Matches
<1>4. SnapRight(snaps[req.slot], p) BY <1>1, <1>3 DEF SnapsRight
<1>5. p \in Seq(Tokens) /\ snaps[req.slot].cur_pos = Len(p) BY <1>4 DEF SnapRight
<1>6. q \in Seq(Tokens) BY <1>2 DEF IsRequest
<1>7. \A n \in Nat : n <= Len(p) /\ n <= Len(q) => SubSeq(q, 1, n) = SubSeq(p, 1, n)
  BY <1>3, <1>5, <1>6, SharedPrefix
<1> QED BY <1>1, <1>2, <1>3, <1>4, <1>5, <1>7

-----------------------------------------------------------------------------
(* Generate and restore *)

LEMMA GenerateRight ==
  ASSUME Inv, AnswerInv, NEW req, IsRequest(req), generate(req), UNCHANGED config
  PROVE  AnswerInv'
<1>1. IsCache(cache) /\ (Is("gemma4") => Len(cache.ring) = Window)
  BY DEF Inv, CacheOK, AnswerInv, RingSize
<1>2. config.kind \in {"qwen35", "gemma4", "laguna", "qwen3"} BY KindsAssumption DEF Inv, ProcessOK
<1> DEFINE sn == req.snap_slot # NoSlot
           none == [Idle EXCEPT !.at = "returned", !.req = req, !.ok = FALSE]
<1>3. none.at = "returned" /\ ~none.ok BY NoJob
<1>4. CASE Is("qwen35")
  <2>1. /\ cache' = [cache EXCEPT !.ssm = <<>>] /\ job' = Fresh(req, sn) /\ stream' = <<>>
        /\ UNCHANGED <<snaps, named>>
    BY <1>4 DEF generate, Qwen35Generate, Fresh, Is
  <2> HIDE DEF sn
  <2>2. IsCache(cache') /\ cache'.ssm = <<>> BY <1>1, <2>1 DEF IsCache
  <2>3. WorkInv' BY <2>1, <2>2, FreshRight
  <2>4. SnapsRight' /\ RingSize' BY <1>4, <2>1, SameSnapsRight DEF AnswerInv, RingSize, Is
  <2> QED BY <2>3, <2>4 DEF AnswerInv
<1>5. CASE Is("gemma4")
  <2>1. stream' = <<>> /\ UNCHANGED <<snaps, named>> BY <1>5 DEF generate, Gemma4Generate, Is
  <2>2. SnapsRight' BY <2>1, SameSnapsRight DEF AnswerInv
  <2>3. \/ cache' = cache /\ job' = none
        \/ cache' = [cache EXCEPT !.cur_pos = 0] /\ job' = Fresh(req, sn)
    BY <1>5 DEF generate, Gemma4Generate, Fresh, Is
  <2> HIDE DEF sn, none
  <2>4. IsCache(cache') /\ cache'.ring = cache.ring BY <1>1, <2>3 DEF IsCache
  <2>5. RingSize' BY <1>1, <1>5, <2>4 DEF RingSize
  <2>6. WorkInv'
    <3>1. CASE job' = none BY <1>3, <2>1, <3>1, NoneRight
    <3>2. CASE job' = Fresh(req, sn)
      <4>1. ~Is("qwen35") BY <1>5 DEF Is
      <4> QED BY <2>1, <2>4, <3>2, <4>1, FreshRight
    <3> QED BY <2>3, <3>1, <3>2
  <2> QED BY <2>2, <2>5, <2>6 DEF AnswerInv
<1>6. CASE Is("laguna")
  <2>1. stream' = <<>> /\ UNCHANGED <<snaps, named>> BY <1>6 DEF generate, LagunaGenerate, Is
  <2>2. SnapsRight' /\ RingSize' BY <1>6, <2>1, SameSnapsRight DEF AnswerInv, RingSize, Is
  <2>3. \/ cache' = cache /\ job' = none
        \/ /\ cache' = [cache EXCEPT !.kv = <<>>, !.cur_pos = 0, !.last_tok = -1]
           /\ job' = Fresh(req, sn)
    BY <1>6 DEF generate, LagunaGenerate, Fresh, reset_laguna_target_cache, Is
  <2> HIDE DEF sn, none
  <2>4. WorkInv'
    <3>1. CASE job' = none BY <1>3, <2>1, <3>1, NoneRight
    <3>2. CASE cache' = [cache EXCEPT !.kv = <<>>, !.cur_pos = 0, !.last_tok = -1]
               /\ job' = Fresh(req, sn)
      <4>1. IsCache(cache')
        <5>1. <<>> \in Seq(Row) /\ Len(<<>>) = 0 /\ 0 <= MaxCtx BY SizesAreNat
        <5> QED BY <1>1, <3>2, <5>1 DEF IsCache
      <4>2. ~Is("qwen35") BY <1>6 DEF Is
      <4> QED BY <2>1, <3>2, <4>1, <4>2, FreshRight
    <3> QED BY <2>3, <3>1, <3>2
  <2> QED BY <2>2, <2>4 DEF AnswerInv
<1>7. CASE Is("qwen3")
  <2>1. /\ cache' = [cache EXCEPT !.cur_pos = 0] /\ job' = Fresh(req, sn) /\ stream' = <<>>
        /\ UNCHANGED <<snaps, named>>
    BY <1>7 DEF generate, Qwen3Generate, Fresh, Is
  <2> HIDE DEF sn
  <2>2. IsCache(cache') BY <1>1, <2>1 DEF IsCache
  <2>3. ~Is("qwen35") BY <1>7 DEF Is
  <2>4. WorkInv' BY <2>1, <2>2, <2>3, FreshRight
  <2>5. SnapsRight' /\ RingSize' BY <1>7, <2>1, SameSnapsRight DEF AnswerInv, RingSize, Is
  <2> QED BY <2>4, <2>5 DEF AnswerInv
<1> QED BY <1>2, <1>4, <1>5, <1>6, <1>7 DEF Is

\* A failed restore, of a job i that would have begun.
LEMMA FailedRestore ==
  ASSUME NEW i, IsJob(i), job' = [i EXCEPT !.at = "returned", !.ok = FALSE], stream' \in {<<>>, <<-1>>}
  PROVE  WorkInv'
<1>1. PICK f : f = [i EXCEPT !.at = "returned", !.ok = FALSE] OBVIOUS
<1>2. f.at = "returned" /\ ~f.ok BY <1>1 DEF IsJob
<1> QED BY <1>1, <1>2, NoneRight

LEMMA Qwen35RestoreRight ==
  ASSUME Inv, AnswerInv, NEW req, IsRequest(req), Is("qwen35"), req.slot \in Slots,
         Qwen35Restore(req, Matches(req)), UNCHANGED config
  PROVE  AnswerInv'
<1>1. PICK s : s = snaps[req.slot] OBVIOUS
<1>2. IsSnap(s) /\ s.cur_pos \in Nat BY <1>1 DEF Inv, SnapsOK, Sound, IsSnap
<1>3. PICK x \in BOOLEAN : x = Matches(req)
  <2>1. Matches(req) \in BOOLEAN BY DEF Matches
  <2> QED BY <2>1
<1> DEFINE sn == req.snap_slot # NoSlot /\ Len(req.prompt) > s.cur_pos
<1>4. PICK r : r = restore_target_cache(s, cache) OBVIOUS
<1>5. PICK c : c = [r EXCEPT !.cur_pos = s.cur_pos] OBVIOUS
<1>6. PICK i : i = Begun(req, s.cur_pos, x, sn) OBVIOUS
<1>7. /\ UNCHANGED <<snaps, named>>
      /\ \/ job' = [i EXCEPT !.at = "returned", !.ok = FALSE] /\ stream' = <<-1>>
         \/ cache' = c /\ Len(req.prompt) >= s.cur_pos /\ job' = i /\ stream' = <<>>
  BY <1>1, <1>3, <1>4, <1>5, <1>6 DEF Qwen35Restore, Begun
<1>8. SnapsRight' /\ RingSize' BY <1>7, SameSnapsRight DEF AnswerInv, RingSize, Is
<1>9. /\ IsJob(i) /\ i.at = "prefill" /\ i.req = req /\ i.committed = s.cur_pos /\ i.exact = x
  <2>1. PICK b \in BOOLEAN : b = sn OBVIOUS
  <2>2. i = Begun(req, s.cur_pos, x, b) BY <1>6, <2>1
  <2> QED BY <1>2, <1>3, <2>2, BegunExact
<1> HIDE DEF sn
<1>10. CASE job' = [i EXCEPT !.at = "returned", !.ok = FALSE] /\ stream' = <<-1>>
  <2>1. WorkInv' BY <1>9, <1>10, FailedRestore
  <2> QED BY <1>8, <2>1 DEF AnswerInv
<1>11. CASE cache' = c /\ Len(req.prompt) >= s.cur_pos /\ job' = i /\ stream' = <<>>
  <2>1. ASSUME x PROVE BeginsWith(c, req.prompt, s.cur_pos)
    <3>1. PICK p, q : p = named[req.slot] /\ q = req.prompt OBVIOUS
    <3>2. /\ SnapRight(s, p) /\ p \in Seq(Tokens) /\ p # <<>> /\ s.cur_pos = Len(p)
          /\ \A n \in Nat : n <= Len(p) /\ n <= Len(q) => SubSeq(q, 1, n) = SubSeq(p, 1, n)
      BY <1>1, <1>3, <2>1, <3>1, MatchFacts DEF AnswerInv
    <3>3. q \in Seq(Tokens) /\ Len(p) \in Nat /\ Len(p) <= Len(q) BY <1>11, <3>1, <3>2 DEF IsRequest
    <3>4. SubSeq(q, 1, Len(p)) = p
      <4>1. SubSeq(p, 1, Len(p)) = p BY <3>2, SubSeqFull
      <4>2. Len(p) <= Len(p) BY <3>3
      <4> QED BY <3>2, <3>3, <4>1, <4>2
    <3>5. Lesser(Len(p), Len(q)) = Len(p)
      <4>1. Len(q) \in Nat BY <3>3
      <4> QED BY <3>3, <4>1, LesserFacts
    <3>6. s.kv = p /\ s.ssm = p /\ s.last_tok = Predict(p) /\ ~s.thin BY <3>2 DEF SnapRight
    <3>7. c.kv = p /\ c.ssm = p /\ c.last_tok = Predict(p)
      <4>1. PICK kv, ssm, feat, pos, last :
              /\ kv = s.kv /\ ssm = s.ssm /\ pos = s.cur_pos /\ last = s.last_tok
              /\ feat = PutSlots(cache.feat, s.feat, s.cur_pos)
        OBVIOUS
      <4>2. IsCache(cache) BY DEF Inv, CacheOK
      <4>3. r = [cache EXCEPT !.kv = kv, !.ssm = ssm, !.feat = feat, !.cur_pos = pos, !.last_tok = last]
        BY <1>4, <3>6, <4>1, <4>2 DEF restore_target_cache, IsCache
      <4>4. c = [[cache EXCEPT !.kv = kv, !.ssm = ssm, !.feat = feat, !.cur_pos = pos, !.last_tok = last]
                    EXCEPT !.cur_pos = pos]
        BY <1>5, <4>1, <4>3
      <4>5. c.kv = kv /\ c.ssm = ssm /\ c.last_tok = last BY <4>2, <4>4 DEF IsCache
      <4> QED BY <3>6, <4>1, <4>5
    <3>8. Begins(c.kv, p) BY <3>2, <3>7, ContextSelf
    <3>9. ~Is("gemma4") /\ ~Is("laguna") BY DEF Is
    <3> QED BY <3>1, <3>2, <3>4, <3>5, <3>7, <3>8, <3>9 DEF BeginsWith
  <2>2. WorkInv' BY <1>9, <1>11, <2>1, StartsRight
  <2> QED BY <1>8, <2>2 DEF AnswerInv
<1> QED BY <1>7, <1>10, <1>11

LEMMA Gemma4RestoreRight ==
  ASSUME Inv, AnswerInv, NEW req, IsRequest(req), Is("gemma4"), req.slot \in Slots,
         Gemma4RestoreAndGenerate(req, Matches(req)), UNCHANGED config
  PROVE  AnswerInv'
<1>1. PICK s : s = snaps[req.slot] OBVIOUS
<1>2. IsSnap(s) /\ s.cur_pos \in Nat BY <1>1 DEF Inv, SnapsOK, Sound, IsSnap
<1>3. PICK x \in BOOLEAN : x = Matches(req)
  <2>1. Matches(req) \in BOOLEAN BY DEF Matches
  <2> QED BY <2>1
<1> DEFINE sn == req.snap_slot # NoSlot
<1>4. PICK c : c = Gemma4Restore(s, cache) OBVIOUS
<1>5. PICK i : i = Begun(req, s.cur_pos, x, sn) OBVIOUS
<1>6. /\ UNCHANGED <<snaps, named>>
      /\ \/ /\ cache' \in {cache, c} /\ job' = [i EXCEPT !.at = "returned", !.ok = FALSE]
            /\ stream' \in {<<>>, <<-1>>}
         \/ cache' = c /\ ~(Len(req.prompt) < s.cur_pos) /\ job' = i /\ stream' = <<>>
  BY <1>1, <1>3, <1>4, <1>5 DEF Gemma4RestoreAndGenerate, Begun
<1>7. SnapsRight' BY <1>6, SameSnapsRight DEF AnswerInv
<1>8. /\ IsJob(i) /\ i.at = "prefill" /\ i.req = req /\ i.committed = s.cur_pos /\ i.exact = x
  <2>1. PICK b \in BOOLEAN : b = sn OBVIOUS
  <2>2. i = Begun(req, s.cur_pos, x, b) BY <1>5, <2>1
  <2> QED BY <1>2, <1>3, <2>2, BegunExact
<1>9. IsCache(cache) /\ Len(cache.ring) = Window BY DEF Inv, CacheOK, AnswerInv, RingSize
<1>10. c.kv = s.kv /\ c.ring = PutSlots(cache.ring, s.ring, s.cur_pos)
  <2>1. PICK kv, ring, feat, pos, last :
          /\ kv = s.kv /\ ring = PutSlots(cache.ring, s.ring, s.cur_pos) /\ pos = s.cur_pos
          /\ last = s.last_tok
          /\ feat = IF s.feat = <<>> THEN cache.feat ELSE PutSlots(cache.feat, s.feat, s.cur_pos)
    OBVIOUS
  <2>2. c = [cache EXCEPT !.kv = kv, !.ring = ring, !.feat = feat, !.cur_pos = pos, !.last_tok = last]
    BY <1>4, <1>9, <2>1 DEF Gemma4Restore, IsCache
  <2>3. c.kv = kv /\ c.ring = ring BY <1>9, <2>2 DEF IsCache
  <2> QED BY <2>1, <2>3
<1>11. RingSize'
  <2>1. Len(c.ring) = Window BY <1>9, <1>10, RingLengths
  <2> QED BY <1>6, <1>9, <2>1 DEF RingSize
<1> HIDE DEF sn
<1>12. CASE job' = [i EXCEPT !.at = "returned", !.ok = FALSE] /\ stream' \in {<<>>, <<-1>>}
  <2>1. WorkInv' BY <1>8, <1>12, FailedRestore
  <2> QED BY <1>7, <1>11, <2>1 DEF AnswerInv
<1>13. CASE cache' = c /\ ~(Len(req.prompt) < s.cur_pos) /\ job' = i /\ stream' = <<>>
  <2>1. ASSUME x PROVE BeginsWith(c, req.prompt, s.cur_pos)
    <3>1. PICK p, q : p = named[req.slot] /\ q = req.prompt OBVIOUS
    <3>2. /\ SnapRight(s, p) /\ p \in Seq(Tokens) /\ p # <<>> /\ s.cur_pos = Len(p)
          /\ \A n \in Nat : n <= Len(p) /\ n <= Len(q) => SubSeq(q, 1, n) = SubSeq(p, 1, n)
          /\ ~(config.draft /\ Len(p) = Len(q))
      BY <1>1, <1>3, <2>1, <3>1, MatchFacts DEF AnswerInv
    <3>3. q \in Seq(Tokens) /\ Len(p) \in Nat /\ Len(p) <= Len(q) BY <1>13, <3>1, <3>2 DEF IsRequest
    <3>4. SubSeq(q, 1, Len(p)) = p
      <4>1. SubSeq(p, 1, Len(p)) = p BY <3>2, SubSeqFull
      <4>2. Len(p) <= Len(p) BY <3>3
      <4> QED BY <3>2, <3>3, <4>1, <4>2
    <3>5. Lesser(Len(p), Len(q)) = Len(p)
      <4>1. Len(q) \in Nat BY <3>3
      <4> QED BY <3>3, <4>1, LesserFacts
    <3>6. Begins(s.kv, p) /\ Len(p) <= Window /\ FirstPositions(s.ring, Len(p)) BY <3>2 DEF SnapRight
    <3>7. InRing(c.ring, Len(p))
      <4>1. PICK n \in Nat : n = Len(p) BY <3>3
      <4>2. InRing(PutSlots(cache.ring, s.ring, n), n) BY <1>9, <3>6, <4>1, SlotsBack
      <4> QED BY <1>10, <3>2, <4>1, <4>2
    <3>8. Begins(c.kv, p) BY <1>10, <3>6
    <3>9. ~Is("qwen35") /\ ~Is("laguna") BY DEF Is
    <3> QED BY <3>1, <3>2, <3>4, <3>5, <3>7, <3>8, <3>9 DEF BeginsWith
  <2>2. WorkInv' BY <1>8, <1>13, <2>1, StartsRight
  <2> QED BY <1>7, <1>11, <2>2 DEF AnswerInv
<1> QED BY <1>6, <1>12, <1>13

LEMMA LagunaRestoreRight ==
  ASSUME Inv, AnswerInv, NEW req, IsRequest(req), Is("laguna"), req.slot \in Slots,
         LagunaRestore(req, Matches(req)), UNCHANGED config
  PROVE  AnswerInv'
<1>1. PICK s : s = snaps[req.slot] OBVIOUS
<1>2. IsSnap(s) /\ s.cur_pos \in Nat BY <1>1 DEF Inv, SnapsOK, Sound, IsSnap
<1>3. PICK x \in BOOLEAN : x = Matches(req)
  <2>1. Matches(req) \in BOOLEAN BY DEF Matches
  <2> QED BY <2>1
<1>4. PICK k : k = LagunaFirst(s, req.prompt) OBVIOUS
<1>5. PICK c : c = laguna_snapshot_restore(s, cache) OBVIOUS
<1>6. PICK i : i = [Idle EXCEPT !.at = "prefill", !.req = req, !.exact = x, !.committed = k] OBVIOUS
<1>7. /\ UNCHANGED <<snaps, named>> /\ stream' = <<>>
      /\ \/ Len(req.prompt) >= s.cur_pos /\ cache' = [c EXCEPT !.cur_pos = k] /\ job' = i
         \/ job' = [i EXCEPT !.at = "returned", !.ok = FALSE, !.committed = 0]
  BY <1>1, <1>3, <1>4, <1>5, <1>6 DEF LagunaRestore
<1>8. SnapsRight' /\ RingSize' BY <1>7, SameSnapsRight DEF AnswerInv, RingSize, Is
<1>9. Len(req.prompt) \in Nat \ {0} /\ req.prompt \in Seq(Tokens) BY DEF IsRequest
<1>10. /\ k \in Nat
       /\ Len(req.prompt) >= s.cur_pos => k < Len(req.prompt) /\ k <= s.cur_pos
  BY <1>2, <1>4, <1>9 DEF LagunaFirst
<1>11. IsJob(i) /\ i.at = "prefill" /\ i.req = req /\ i.committed = k /\ i.exact = x
  BY <1>3, <1>6, <1>10, IdleFacts DEF IsJob
<1>12. CASE job' = [i EXCEPT !.at = "returned", !.ok = FALSE, !.committed = 0]
  <2>1. PICK f : f = [i EXCEPT !.at = "returned", !.ok = FALSE, !.committed = 0] OBVIOUS
  <2>2. f.at = "returned" /\ ~f.ok BY <1>11, <2>1 DEF IsJob
  <2>3. WorkInv' BY <1>7, <1>12, <2>1, <2>2, NoneRight
  <2> QED BY <1>8, <2>3 DEF AnswerInv
<1>13. CASE Len(req.prompt) >= s.cur_pos /\ cache' = [c EXCEPT !.cur_pos = k] /\ job' = i
  <2>1. ASSUME x PROVE BeginsWith(cache', req.prompt, k)
    <3>1. PICK p, q : p = named[req.slot] /\ q = req.prompt OBVIOUS
    <3>2. /\ SnapRight(s, p) /\ p \in Seq(Tokens) /\ p # <<>> /\ s.cur_pos = Len(p)
          /\ \A n \in Nat : n <= Len(p) /\ n <= Len(q) => SubSeq(q, 1, n) = SubSeq(p, 1, n)
      BY <1>1, <1>3, <2>1, <3>1, MatchFacts DEF AnswerInv
    <3>3. q \in Seq(Tokens) /\ Len(p) \in Nat /\ k \in 0..Len(p) /\ k < Len(q) /\ k # Len(q)
      BY <1>2, <1>9, <1>10, <1>13, <3>1, <3>2
    <3>4. SubSeq(q, 1, k) = SubSeq(p, 1, k) BY <1>10, <3>2, <3>3
    <3>5. Lesser(k, Len(q)) = k
      <4>1. Len(q) \in Nat /\ k \in Nat /\ k <= Len(q) BY <3>3
      <4> QED BY <4>1, LesserFacts
    <3>6. Begins(s.kv, p) /\ s.kv \in Seq(Row) BY <1>2, <3>2 DEF SnapRight, IsSnap
    <3>7. cache'.kv = SubSeq(s.kv, 1, Len(p))
      <4>1. IsCache(cache) BY DEF Inv, CacheOK
      <4>2. PICK kv, pos : kv = SubSeq(s.kv, 1, s.cur_pos) /\ pos = s.cur_pos OBVIOUS
      <4>3. c = [cache EXCEPT !.kv = kv, !.cur_pos = pos] BY <1>5, <4>2 DEF laguna_snapshot_restore
      <4>4. cache' = [[cache EXCEPT !.kv = kv, !.cur_pos = pos] EXCEPT !.cur_pos = k] BY <1>13, <4>3
      <4>5. cache'.kv = kv BY <4>1, <4>4 DEF IsCache
      <4> QED BY <3>2, <4>2, <4>5
    <3>8. cache'.kv = p
      <4>1. Len(p) <= Len(s.kv) /\ \A j \in 1..Len(p) : s.kv[j] = p[j] BY <3>6 DEF Begins
      <4>2. SubSeq(s.kv, 1, Len(p)) = p
        <5>1. p \in Seq(Row) BY <3>2, RowFacts
        <5>2. /\ SubSeq(s.kv, 1, Len(p)) \in Seq(Row) /\ Len(SubSeq(s.kv, 1, Len(p))) = Len(p)
              /\ \A j \in 1..Len(p) : SubSeq(s.kv, 1, Len(p))[j] = s.kv[j]
          BY <3>3, <3>6, <4>1
        <5> QED BY <4>1, <5>1, <5>2, SeqEqual
      <4> QED BY <3>7, <4>2
    <3>9. Begins(cache'.kv, SubSeq(p, 1, k))
      <4>1. Begins(p, p) BY <3>2, ContextSelf
      <4> QED BY <3>2, <3>3, <3>8, <4>1, BeginsPrefix
    <3>10. ~Is("qwen35") /\ ~Is("gemma4") BY DEF Is
    <3> QED BY <3>1, <3>3, <3>4, <3>5, <3>9, <3>10 DEF BeginsWith
  <2>2. WorkInv' BY <1>7, <1>11, <1>13, <2>1, StartsRight
  <2> QED BY <1>8, <2>2 DEF AnswerInv
<1> QED BY <1>7, <1>12, <1>13

LEMMA Qwen3RestoreRight ==
  ASSUME Inv, AnswerInv, NEW req, IsRequest(req), Is("qwen3"), req.slot \in Slots,
         Qwen3RestoreAndGenerate(req, Matches(req)), UNCHANGED config
  PROVE  AnswerInv'
<1>1. PICK s : s = snaps[req.slot] OBVIOUS
<1>2. IsSnap(s) /\ s.cur_pos \in Nat BY <1>1 DEF Inv, SnapsOK, Sound, IsSnap
<1>3. PICK x \in BOOLEAN : x = Matches(req)
  <2>1. Matches(req) \in BOOLEAN BY DEF Matches
  <2> QED BY <2>1
<1> DEFINE sn == req.snap_slot # NoSlot
<1>4. PICK c : c = Qwen3Restore(s, cache) OBVIOUS
<1>5. PICK i : i = Begun(req, s.cur_pos, x, sn) OBVIOUS
<1>6. /\ UNCHANGED <<snaps, named>>
      /\ \/ job' = [i EXCEPT !.at = "returned", !.ok = FALSE] /\ stream' = <<-1>>
         \/ cache' = c /\ job' = i /\ stream' = <<>>
  BY <1>1, <1>3, <1>4, <1>5 DEF Qwen3RestoreAndGenerate, Begun
<1>7. SnapsRight' /\ RingSize' BY <1>6, SameSnapsRight DEF AnswerInv, RingSize, Is
<1>8. /\ IsJob(i) /\ i.at = "prefill" /\ i.req = req /\ i.committed = s.cur_pos /\ i.exact = x
  <2>1. PICK b \in BOOLEAN : b = sn OBVIOUS
  <2>2. i = Begun(req, s.cur_pos, x, b) BY <1>5, <2>1
  <2> QED BY <1>2, <1>3, <2>2, BegunExact
<1>9. c.kv = s.kv
  <2>1. PICK kv, pos : kv = s.kv /\ pos = s.cur_pos OBVIOUS
  <2>2. IsCache(cache) BY DEF Inv, CacheOK
  <2>3. c = [cache EXCEPT !.kv = kv, !.cur_pos = pos] BY <1>4, <2>1 DEF Qwen3Restore
  <2> QED BY <2>1, <2>2, <2>3 DEF IsCache
<1> HIDE DEF sn
<1>10. CASE job' = [i EXCEPT !.at = "returned", !.ok = FALSE] /\ stream' = <<-1>>
  <2>1. WorkInv' BY <1>8, <1>10, FailedRestore
  <2> QED BY <1>7, <2>1 DEF AnswerInv
<1>11. CASE cache' = c /\ job' = i /\ stream' = <<>>
  <2>1. ASSUME x PROVE BeginsWith(c, req.prompt, s.cur_pos)
    <3>1. PICK p, q : p = named[req.slot] /\ q = req.prompt OBVIOUS
    <3>2. /\ SnapRight(s, p) /\ p \in Seq(Tokens) /\ p # <<>> /\ s.cur_pos = Len(p)
          /\ \A n \in Nat : n <= Len(p) /\ n <= Len(q) => SubSeq(q, 1, n) = SubSeq(p, 1, n)
      BY <1>1, <1>3, <2>1, <3>1, MatchFacts DEF AnswerInv
    <3>3. q \in Seq(Tokens) /\ Len(p) \in Nat /\ Len(q) \in Nat BY <3>1, <3>2 DEF IsRequest
    <3>4. PICK n : n = Lesser(Len(p), Len(q)) OBVIOUS
    <3>5. n \in 0..Len(p) /\ n \in Nat /\ n <= Len(q) BY <3>3, <3>4 DEF Lesser
    <3>6. SubSeq(q, 1, n) = SubSeq(p, 1, n) BY <3>2, <3>5
    <3>7. Begins(c.kv, SubSeq(p, 1, n))
      <4>1. Begins(s.kv, p) /\ Len(s.kv) \in Nat BY <1>2, <3>2 DEF SnapRight, IsSnap
      <4> QED BY <1>9, <3>2, <3>5, <4>1, BeginsPrefix
    <3>8. ~Is("qwen35") /\ ~Is("gemma4") /\ ~Is("laguna") BY DEF Is
    <3> QED BY <3>1, <3>2, <3>4, <3>6, <3>7, <3>8 DEF BeginsWith
  <2>2. WorkInv' BY <1>8, <1>11, <2>1, StartsRight
  <2> QED BY <1>7, <2>2 DEF AnswerInv
<1> QED BY <1>6, <1>10, <1>11

-----------------------------------------------------------------------------
(* Every step *)

LEMMA AnsweredRight ==
  ASSUME NEW via, NEW ok, job' = Answered(via, ok) PROVE WorkInv'
<1>1. job' = [Idle EXCEPT !.at = "answered", !.req.via = via, !.ok = ok] BY DEF Answered
<1>2. job'.at = "answered" /\ ~job'.exact BY <1>1 DEF Idle
<1> QED BY <1>2, NoClaim

LEMMA CommandRight == ASSUME Inv, AnswerInv, Command PROVE AnswerInv'
<1>1. UNCHANGED config BY CommandCases
<1>2. ASSUME NEW via, job' = Answered(via, FALSE), UNCHANGED <<cache, snaps, named>> PROVE AnswerInv'
  <2>1. WorkInv' BY <1>2, AnsweredRight
  <2>2. SnapsRight' /\ RingSize' BY <1>1, <1>2, SameSnapsRight DEF AnswerInv, RingSize, Is
  <2> QED BY <2>1, <2>2 DEF AnswerInv
<1>3. config.kind \in {"qwen35", "gemma4", "laguna", "qwen3"} BY KindsAssumption DEF Inv, ProcessOK
<1>4. ASSUME NEW req, IsRequest(req), restore_and_generate(req), req.slot \in Slots PROVE AnswerInv'
  <2>1. CASE Is("qwen35")
    <3>1. Qwen35Restore(req, Matches(req)) BY <1>4, <2>1 DEF restore_and_generate, Is
    <3> QED BY <1>1, <1>4, <2>1, <3>1, Qwen35RestoreRight
  <2>2. CASE Is("gemma4")
    <3>1. Gemma4RestoreAndGenerate(req, Matches(req)) BY <1>4, <2>2 DEF restore_and_generate, Is
    <3> QED BY <1>1, <1>4, <2>2, <3>1, Gemma4RestoreRight
  <2>3. CASE Is("laguna")
    <3>1. LagunaRestore(req, Matches(req)) BY <1>4, <2>3 DEF restore_and_generate, Is
    <3> QED BY <1>1, <1>4, <2>3, <3>1, LagunaRestoreRight
  <2>4. CASE Is("qwen3")
    <3>1. Qwen3RestoreAndGenerate(req, Matches(req)) BY <1>4, <2>4 DEF restore_and_generate, Is
    <3> QED BY <1>1, <1>4, <2>4, <3>1, Qwen3RestoreRight
  <2> QED BY <1>3, <2>1, <2>2, <2>3, <2>4 DEF Is
<1>5. ASSUME NEW req, IsRequest(req), generate(req) PROVE AnswerInv' BY <1>1, <1>5, GenerateRight
<1> QED BY <1>2, <1>4, <1>5, CommandCases

LEMMA AfterParkRight ==
  ASSUME SnapsRight, RingSize, NEW p, AfterPark(p), config' = config
  PROVE  SnapsRight' /\ RingSize'
<1>1. CASE Is("gemma4") /\ "target" \in p \ parked
  <2>1. cache' = Gemma4Cache(FALSE) /\ named' = [s \in Slots |-> <<>>] BY <1>1 DEF AfterPark
  <2>2. SnapsRight' BY <2>1 DEF SnapsRight
  <2>3. Len(cache'.ring) = Window
    <3>1. PICK v : v = Empty OBVIOUS
    <3>2. Window \in Nat /\ v \in {v} BY SizesAreNat
    <3>3. Len(Blank(Window, v)) = Window BY <3>2, BlankSeq
    <3>4. cache'.ring = Blank(Window, v) BY <2>1, <3>1 DEF Gemma4Cache
    <3> QED BY <3>3, <3>4
  <2> QED BY <2>2, <2>3 DEF RingSize
<1>2. CASE ~(Is("gemma4") /\ "target" \in p \ parked)
  <2>1. /\ cache' = IF Is("laguna") /\ "target" \in p \ parked THEN LagunaCache ELSE cache
        /\ UNCHANGED <<snaps, named>>
    BY <1>2 DEF AfterPark, KeepSnaps
  <2>2. SnapsRight' BY <2>1, SameSnapsRight
  <2>3. RingSize' BY <2>1 DEF RingSize, Is
  <2> QED BY <2>2, <2>3
<1> QED BY <1>1, <1>2

LEMMA ParkRight == ASSUME AnswerInv, NEW what, Park(what) PROVE AnswerInv'
<1>1. /\ AfterPark(parked') /\ job' = Answered("park", TRUE) /\ config' = config BY DEF Park
<1>2. WorkInv' BY ZenonT(40), <1>1, AnsweredRight
<1>3. PICK p : p = parked' OBVIOUS
<1>4. AfterPark(p) BY <1>1, <1>3
<1> QED BY <1>1, <1>2, <1>4, AfterParkRight DEF AnswerInv

LEMMA UnparkRight == ASSUME AnswerInv, NEW what, Unpark(what) PROVE AnswerInv'
<1>1. PICK r \in unpark(parked, what) : job' = Answered("unpark", r.ok) BY DEF Unpark
<1>2. UNCHANGED <<config, cache, snaps, named>> BY DEF Unpark
<1>3. WorkInv' BY <1>1, AnsweredRight
<1> QED BY <1>2, <1>3, SameSnapsRight DEF AnswerInv, RingSize, Is

LEMMA FreeDrafterRight == ASSUME AnswerInv, FreeDrafter PROVE AnswerInv'
<1>1. job' = Answered("free_drafter", TRUE) /\ UNCHANGED <<config, cache, snaps, named>>
  BY DEF FreeDrafter
<1>2. WorkInv' BY ZenonT(40), <1>1, AnsweredRight
<1> QED BY <1>1, <1>2, SameSnapsRight DEF AnswerInv, RingSize, Is

LEMMA CompressRight == ASSUME AnswerInv, NEW nopark, Compress(nopark) PROVE AnswerInv'
<1>1. PICK ok : job' = Answered("compress", ok) BY DEF Compress
<1>2. /\ AfterPark(IF nopark /\ ~Is("laguna") THEN parked ELSE {"target"} \cup parked)
      /\ config' = config
  BY DEF Compress
<1>3. PICK p : p = IF nopark /\ ~Is("laguna") THEN parked ELSE {"target"} \cup parked OBVIOUS
<1>4. AfterPark(p) BY <1>2, <1>3
<1>5. WorkInv' BY <1>1, AnsweredRight
<1> QED BY <1>2, <1>4, <1>5, AfterParkRight DEF AnswerInv

\* What is saved to a slot, if it is named still.
LEMMA SlotRight ==
  ASSUME SnapsOK, SnapsRight, NEW slot \in Slots, NEW s, NEW x, config' = config,
         snaps' = [snaps EXCEPT ![slot] = s], named' = [named EXCEPT ![slot] = x],
         x # <<>> => s = snaps[slot] /\ x = named[slot]
  PROVE  SnapsRight'
<1>1. \A t \in Slots : /\ snaps'[t] = IF t = slot THEN s ELSE snaps[t]
                       /\ named'[t] = IF t = slot THEN x ELSE named[t]
  BY DEF SnapsOK
<1>2. ASSUME NEW t \in Slots, named'[t] # <<>> PROVE SnapRight(snaps[t], named[t])'
  <2>1. snaps'[t] = snaps[t] /\ named'[t] = named[t] BY <1>1, <1>2
  <2>2. SnapRight(snaps[t], named[t]) BY <1>2, <2>1 DEF SnapsRight
  <2> QED BY <2>1, <2>2 DEF SnapRight, Is
<1> QED BY <1>2 DEF SnapsRight

LEMMA SnapshotRight == ASSUME Inv, AnswerInv, NEW slot \in Slots, SnapshotCmd(slot) PROVE AnswerInv'
<1>1. PICK s \in Save(slot) :
        /\ snaps' = [snaps EXCEPT ![slot] = s]
        /\ named' = [named EXCEPT ![slot] = IF s = snaps[slot] THEN @ ELSE <<>>]
  BY DEF SnapshotCmd
<1>2. job' = Answered("snapshot", TRUE) /\ UNCHANGED <<config, cache>> BY DEF SnapshotCmd
<1>3. PICK x : x = IF s = snaps[slot] THEN named[slot] ELSE <<>> OBVIOUS
<1>4. named' = [named EXCEPT ![slot] = x] BY <1>1, <1>3
<1>5. SnapsRight' BY <1>1, <1>2, <1>3, <1>4, SlotRight DEF Inv, AnswerInv
<1>6. WorkInv' BY <1>2, AnsweredRight
<1> QED BY <1>2, <1>5, <1>6 DEF AnswerInv, RingSize, Is

LEMMA FreeSnapshotRight == ASSUME Inv, AnswerInv, NEW slot \in Slots, FreeSnapshot(slot) PROVE AnswerInv'
<1>1. /\ snaps' = [snaps EXCEPT ![slot] = NoSnap] /\ named' = [named EXCEPT ![slot] = <<>>]
      /\ job' = Answered("free_snapshot", TRUE) /\ UNCHANGED <<config, cache>>
  BY DEF FreeSnapshot
<1>2. PICK s : s = NoSnap OBVIOUS
<1>3. snaps' = [snaps EXCEPT ![slot] = s] BY <1>1, <1>2
<1>4. SnapsRight' BY <1>1, <1>3, SlotRight DEF Inv, AnswerInv
<1>5. WorkInv' BY <1>1, AnsweredRight
<1> QED BY <1>1, <1>4, <1>5 DEF AnswerInv, RingSize, Is

LEMMA SnapshotThinRight == ASSUME Inv, AnswerInv, NEW slot \in Slots, SnapshotThin(slot) PROVE AnswerInv'
<1>1. PICK s : snaps' = [snaps EXCEPT ![slot] = s] BY DEF SnapshotThin
<1>2. /\ named' = [named EXCEPT ![slot] = <<>>] /\ job' = Answered("snapshot_thin", TRUE)
      /\ UNCHANGED <<config, cache>>
  BY DEF SnapshotThin
<1>3. SnapsRight' BY <1>1, <1>2, SlotRight DEF Inv, AnswerInv
<1>4. WorkInv' BY <1>2, AnsweredRight
<1> QED BY <1>2, <1>3, <1>4 DEF AnswerInv, RingSize, Is

LEMMA LinesRight == ASSUME Inv, AnswerInv, Lines PROVE AnswerInv'
<1>1. CASE \E what \in {"", "target", "draft"} : Park(what) \/ Unpark(what)
  BY <1>1, ParkRight, UnparkRight
<1>2. CASE FreeDrafter BY <1>2, FreeDrafterRight
<1>3. CASE \E nopark \in BOOLEAN : Compress(nopark) BY <1>3, CompressRight
<1>4. CASE \E slot \in Slots : SnapshotCmd(slot) \/ FreeSnapshot(slot) \/ SnapshotThin(slot)
  BY <1>4, SnapshotRight, FreeSnapshotRight, SnapshotThinRight
<1> QED BY <1>1, <1>2, <1>3, <1>4 DEF Lines

\* The loop may add a marker.
LEMMA ReplyRight == ASSUME Inv, AnswerInv, Reply PROVE AnswerInv'
<1>1. /\ job.at = "returned" /\ job' = [job EXCEPT !.at = "answered"]
      /\ stream' = stream \o Marker(job.req.via, job.ok)
      /\ UNCHANGED <<config, cache, snaps, named, parked>>
  BY DEF Reply
<1>2. SnapsRight' /\ RingSize' BY <1>1, SameSnapsRight DEF AnswerInv, RingSize, Is
<1>3. /\ job'.at = "answered" /\ job'.req = job.req /\ job'.ok = job.ok
      /\ job'.exact = job.exact /\ job'.refused = job.refused
  BY <1>1 DEF Inv, JobOK, IsJob
<1>4. /\ Sure' = Sure /\ Claimed' = Claimed /\ Uncut' = Uncut /\ Prompt' = Prompt
      /\ \A w : Complete(w)' = Complete(w)
  BY <1>1, <1>3, SameRequest
<1>5. ASSUME Sure PROVE EndRight'
  <2>1. PICK w \in Seq(Tokens), k \in 0..2 :
          /\ stream = WithEnds(w, k) /\ GreedyTo(Prompt, w, Claimed)
          /\ job.ok /\ ~job.refused /\ Uncut => Complete(w)
    BY <1>1, <1>5 DEF AnswerInv, WorkInv, EndRight
  <2>2. \E m \in 0..2 : stream' = WithEnds(w, m)
    <3>1. CASE Streamed /\ ~job.ok
      <4>1. PICK v \in Seq(Tokens), i \in 0..2 : EndedAs(v, i) BY <1>1 DEF Inv, StreamOK
      <4>2. stream = WithEnds(v, i) /\ i <= 1 BY <1>1, <4>1 DEF EndedAs
      <4>3. Len(stream) = Len(v) + i /\ Len(stream) = Len(w) + k BY <2>1, <4>2, MarkedElements
      <4>4. v = w BY <2>1, <4>2, WrittenIs
      <4>5. k = i BY <4>3, <4>4
      <4>6. k \in 0..1 /\ k + 1 \in 0..2 BY <4>2, <4>5
      <4>7. stream' = WithEnds(w, k) \o <<-1>> BY <1>1, <2>1, <3>1 DEF Marker, Streamed
      <4>8. stream' = WithEnds(w, k + 1) BY <4>6, <4>7, MarkedNext
      <4> QED BY <4>6, <4>8
    <3>2. CASE ~(Streamed /\ ~job.ok)
      <4>1. Marker(job.req.via, job.ok) = <<>> BY <3>2 DEF Marker, Streamed
      <4>2. stream \in Seq(Tokens \cup {-1}) BY <2>1, MarkedElements
      <4>3. stream \o <<>> = stream BY <4>2, ConcatEmptySeq
      <4> QED BY <1>1, <2>1, <4>1, <4>3
    <3> QED BY <3>1, <3>2
  <2>3. PICK m \in 0..2 : stream' = WithEnds(w, m) BY <2>2
  <2>4. (stream = WithEnds(w, m) /\ GreedyTo(Prompt, w, Claimed)
           /\ (job.ok /\ ~job.refused /\ Uncut => Complete(w)))'
    BY <1>3, <1>4, <2>1, <2>3
  <2>5. job'.req.n_gen \in Nat BY <1>1, <1>3 DEF Inv, JobOK, IsRequest
  <2> QED BY <2>4, <2>5 DEF EndRight
<1>6. WorkInv'
  <2>1. PlaceOK' /\ PrefillRight' BY <1>3 DEF PlaceOK, PrefillRight
  <2>2. DraftRight' /\ CommitRight' /\ PlainRight' /\ SecondRight'
    BY <1>3 DEF DraftRight, CommitRight, PlainRight, SecondRight
  <2> QED BY <1>4, <1>5, <2>1, <2>2 DEF WorkInv
<1> QED BY <1>2, <1>6 DEF AnswerInv

LEMMA ContinueRight == ASSUME AnswerInv, Continue PROVE AnswerInv'
<1>1. job' = Idle /\ UNCHANGED <<config, cache, snaps, named>> BY DEF Continue
<1>2. job'.at = "idle" /\ ~job'.exact BY <1>1 DEF Idle
<1>3. WorkInv' BY <1>2, NoClaim
<1> QED BY <1>1, <1>3, SameSnapsRight DEF AnswerInv, RingSize, Is

LEMMA StutterRight == ASSUME AnswerInv, UNCHANGED vars PROVE AnswerInv'
<1>1. /\ config' = config /\ cache' = cache /\ snaps' = snaps /\ named' = named
      /\ parked' = parked /\ job' = job /\ stream' = stream
  BY DEF vars
<1>2. SnapsRight' /\ RingSize' BY <1>1, SameSnapsRight DEF AnswerInv, RingSize, Is
<1>3. /\ Sure' = Sure /\ CanSpec' = CanSpec /\ Claimed' = Claimed /\ Uncut' = Uncut
      /\ Prompt' = Prompt /\ InWindow' = InWindow /\ ShouldEmit' = ShouldEmit
      /\ \A w : Complete(w)' = Complete(w)
  BY <1>1, SameRequest
<1>4. SoFar' = SoFar BY <1>1, <1>3 DEF SoFar
<1>5. PlaceOK' BY <1>1, <1>3 DEF AnswerInv, WorkInv, PlaceOK, Is
<1>6. PrefillRight' BY <1>1, <1>3 DEF AnswerInv, WorkInv, PrefillRight, Holds, Is
<1>7. ASSUME Sure PROVE DraftRight' /\ CommitRight' /\ PlainRight' /\ SecondRight' /\ EndRight'
  <2>1. DraftRight /\ CommitRight /\ PlainRight /\ SecondRight /\ EndRight
    BY <1>7 DEF AnswerInv, WorkInv
  <2>2. DraftRight' BY <1>1, <1>3, <1>4, <2>1 DEF DraftRight, Holds, Is
  <2>3. CommitRight' BY <1>1, <1>3, <1>4, <2>1 DEF CommitRight, Is
  <2>4. PlainRight' BY <1>1, <1>3, <1>4, <2>1 DEF PlainRight, Holds, Is
  <2>5. SecondRight' BY <1>1, <1>3, <1>4, <2>1 DEF SecondRight
  <2>6. EndRight' BY <1>1, <1>3, <2>1 DEF EndRight
  <2> QED BY <2>2, <2>3, <2>4, <2>5, <2>6
<1>8. WorkInv' BY <1>3, <1>5, <1>6, <1>7 DEF WorkInv
<1> QED BY <1>2, <1>8 DEF AnswerInv

LEMMA WorkRight == ASSUME Inv, AnswerInv, Work PROVE AnswerInv'
<1>1. CASE Qwen35Next
  BY <1>1, Qwen35InlineSnapRight, Qwen35PrefillRight, Qwen35StartRight, Qwen35ArRight,
     Qwen35DraftRight, Qwen35CommitRight DEF Qwen35Next
<1>2. CASE Gemma4Next
  BY <1>2, Gemma4PrefillRight, Gemma4StartRight, Gemma4ArRight, Gemma4DraftRight, Gemma4CommitRight
     DEF Gemma4Next
<1>3. CASE LagunaNext
  BY <1>3, LagunaPrefillRight, LagunaStartRight, LagunaDecodeRight DEF LagunaNext
<1>4. CASE Qwen3Next
  BY <1>4, Qwen3PrefillRight, Qwen3FirstRight, Qwen3SecondRight, Qwen3DecodeRight DEF Qwen3Next
<1>5. CASE Reply BY <1>5, ReplyRight
<1>6. CASE Continue BY <1>6, ContinueRight
<1> QED BY <1>1, <1>2, <1>3, <1>4, <1>5, <1>6 DEF Work

\* Every step keeps the answers right.
LEMMA EveryStepRight == ASSUME Inv, AnswerInv, [Next]_state PROVE AnswerInv'
<1>1. CASE UNCHANGED state
  <2>1. UNCHANGED vars BY <1>1 DEF state
  <2> QED BY <2>1, StutterRight
<1>2. CASE Quiet
  <2>1. UNCHANGED vars BY <1>2 DEF Quiet, state
  <2> QED BY <2>1, StutterRight
<1>3. CASE Command BY <1>3, CommandRight
<1>4. CASE Lines BY <1>4, LinesRight
<1>5. CASE Work BY <1>5, WorkRight
<1> QED BY <1>1, <1>2, <1>3, <1>4, <1>5 DEF Next

LEMMA InitRight == ASSUME Init PROVE AnswerInv
<1>1. /\ cache = NewCache(config.kind, config.draft) /\ named = [s \in Slots |-> <<>>] /\ job = Idle
  BY DEF Init
<1>2. SnapsRight BY <1>1 DEF SnapsRight
<1>3. RingSize
  <2>1. SUFFICES ASSUME Is("gemma4") PROVE Len(cache.ring) = Window BY DEF RingSize
  <2>2. cache = Gemma4Cache(config.draft) BY <1>1, <2>1 DEF NewCache, Is
  <2>3. PICK v : v = Empty OBVIOUS
  <2>4. Window \in Nat /\ v \in {v} BY SizesAreNat
  <2>5. Len(Blank(Window, v)) = Window BY <2>4, BlankSeq
  <2>6. cache.ring = Blank(Window, v) BY <2>2, <2>3 DEF Gemma4Cache
  <2> QED BY <2>5, <2>6
<1>4. job.at = "idle" /\ ~job.exact BY <1>1 DEF Idle
<1>5. WorkInv BY <1>4 DEF WorkInv, PlaceOK, PrefillRight, Sure
<1> QED BY <1>2, <1>3, <1>5 DEF AnswerInv

LEMMA AnswerInvHolds == Spec => []AnswerInv
<1>1. Init => AnswerInv BY InitRight
<1>2. Inv /\ AnswerInv /\ [Next]_state => AnswerInv' BY EveryStepRight
<1> QED BY <1>1, <1>2, InvHolds, PTL DEF Spec

-----------------------------------------------------------------------------
(* What it says of answers, snapshots and the cache *)

\* An answer of which something is claimed, at any time.
LEMMA ClaimedAnswer ==
  ASSUME Inv, AnswerInv, Sure
  PROVE  \E w \in Seq(Tokens), k \in 0..2 :
            /\ stream = WithEnds(w, k) /\ GreedyTo(Prompt, w, Claimed)
            /\ job.at = "answered" /\ job.ok /\ ~job.refused /\ Uncut => Complete(w)
<1>1. job.at \in Working \cup {"idle", "returned", "answered"} BY DEF Inv, JobOK
<1>2. CASE job.at = "idle" BY <1>2 DEF Inv, JobOK, Sure, Idle
<1>3. CASE job.at \in Working
  <2>1. stream \in Seq(Tokens) /\ GreedyTo(Prompt, stream, Claimed)
    BY <1>3, StreamRight DEF AnswerInv
  <2>2. stream = WithEnds(stream, 0) /\ 0 \in 0..2 BY MarkedFacts
  <2>3. job.at # "answered" BY <1>3 DEF Working
  <2> QED BY <2>1, <2>2, <2>3
<1>4. CASE job.at \in {"returned", "answered"}
  BY <1>4 DEF AnswerInv, WorkInv, EndRight
<1> QED BY <1>1, <1>2, <1>3, <1>4

LEMMA ClaimedInt == ASSUME Inv, AnswerInv, Sure PROVE Claimed \in Int
<1>1. job.req.n_gen \in Nat
  <2>1. job.at \in Working \cup {"idle", "returned", "answered"} BY DEF Inv, JobOK
  <2>2. CASE job.at = "idle" BY <2>2 DEF Inv, JobOK, Sure, Idle
  <2>3. CASE job.at \in Working \cup {"returned"} BY <2>3 DEF Inv, JobOK, IsRequest
  <2>4. CASE job.at = "answered" BY <2>4 DEF AnswerInv, WorkInv, EndRight
  <2> QED BY <2>1, <2>2, <2>3, <2>4
<1> QED BY <1>1 DEF Claimed

LEMMA OutputKept == ASSUME Inv, AnswerInv PROVE OutputIsGreedy
<1> SUFFICES ASSUME Sure, NEW i \in 1..Min({Len(Written), Claimed})
             PROVE  Written[i] = Predict(job.req.prompt \o SubSeq(Written, 1, i - 1))
  BY DEF OutputIsGreedy, Sure
<1>1. PICK w \in Seq(Tokens), k \in 0..2 : stream = WithEnds(w, k) /\ GreedyTo(Prompt, w, Claimed)
  BY ClaimedAnswer
<1>2. Written = w BY <1>1, WrittenIs
<1>3. PICK l \in Int, c \in Int : l = Len(w) /\ c = Claimed
  <2>1. Len(w) \in Int OBVIOUS
  <2> QED BY <2>1, ClaimedInt
<1>4. Min({l, c}) <= l /\ Min({l, c}) <= c BY MinFacts
<1>5. i \in 1..Len(w) /\ i <= Claimed
  <2>1. PICK m \in Int : m = Min({l, c}) BY <1>3, MinFacts
  <2>2. i \in 1..m BY <1>2, <1>3, <2>1
  <2>3. m <= l /\ m <= c BY <1>4, <2>1
  <2> QED BY <1>3, <2>2, <2>3
<1> QED BY <1>1, <1>2, <1>5 DEF GreedyTo, Prompt

LEMMA CompleteKept == ASSUME Inv, AnswerInv PROVE AnswerComplete
<1> SUFFICES ASSUME job.at = "answered", job.ok, ~job.refused, Sure, Uncut
             PROVE  Complete(Written)
  BY DEF AnswerComplete, Sure, Uncut, Complete, Prompt
<1>1. PICK w \in Seq(Tokens), k \in 0..2 : stream = WithEnds(w, k) /\ Complete(w)
  BY ClaimedAnswer
<1>2. Written = w BY <1>1, WrittenIs
<1> QED BY <1>1, <1>2

LEMMA CacheKept == ASSUME Inv, AnswerInv PROVE CacheAgrees
<1> SUFFICES ASSUME job.at = "draft", Sure
             PROVE  LET ctx == job.req.prompt \o Written
                    IN  /\ Len(ctx) = job.committed /\ cache.cur_pos = job.committed
                        /\ cache.kv = ctx
                        /\ Is("qwen35") => cache.ssm = ctx
                        /\ job.last = Predict(ctx)
  BY DEF CacheAgrees, Sure
<1>1. DraftRight BY DEF AnswerInv, WorkInv
<1>2. stream \in Seq(Tokens) BY DEF Inv, StreamOK, Going, Working
<1>3. stream = WithEnds(stream, 0) /\ 0 \in 0..2 BY MarkedFacts
<1>4. Written = stream BY <1>2, <1>3, WrittenIs
<1>5. job.req.prompt \o Written = SoFar BY <1>4 DEF SoFar, Prompt
<1> QED BY <1>1, <1>5 DEF DraftRight, Holds

LEMMA SnapshotsKept == ASSUME Inv, AnswerInv PROVE SnapshotsKeepTheirPrefix
<1> SUFFICES ASSUME NEW s \in Slots, named[s] # <<>>
             PROVE  /\ snaps[s].used /\ snaps[s].cur_pos = Len(named[s])
                    /\ SubSeq(snaps[s].kv, 1, snaps[s].cur_pos) = named[s]
                    /\ Is("qwen35") => snaps[s].ssm = named[s] /\ snaps[s].last_tok = Predict(named[s])
  BY DEF SnapshotsKeepTheirPrefix
<1>1. PICK x, p : x = snaps[s] /\ p = named[s] OBVIOUS
<1>2. SnapRight(x, p) /\ IsSnap(x) BY <1>1 DEF AnswerInv, SnapsRight, Inv, SnapsOK, Sound
<1>3. /\ p \in Seq(Tokens) /\ Len(p) \in Nat /\ x.kv \in Seq(Row) /\ Len(x.kv) \in Nat
      /\ Len(p) <= Len(x.kv) /\ \A j \in 1..Len(p) : x.kv[j] = p[j]
  BY <1>2 DEF SnapRight, IsSnap, Begins
<1>4. SubSeq(x.kv, 1, Len(p)) = p
  <2>1. p \in Seq(Row) BY <1>3, RowFacts
  <2>2. /\ SubSeq(x.kv, 1, Len(p)) \in Seq(Row) /\ Len(SubSeq(x.kv, 1, Len(p))) = Len(p)
        /\ \A j \in 1..Len(p) : SubSeq(x.kv, 1, Len(p))[j] = x.kv[j]
    BY <1>3
  <2> QED BY <1>3, <2>1, <2>2, SeqEqual
<1> QED BY <1>1, <1>2, <1>4 DEF SnapRight

-----------------------------------------------------------------------------
(* The draft sees the context: the third invariant, FeatInv *)

\* Whether features are captured, and whether the draft is to see the whole context.
Captures == Is("gemma4") /\ config.draft /\ HasFeat

Mirrored == (Is("qwen35") /\ job.req.slot = NoSlot) \/ Captures

FeatSize ==
  /\ Is("qwen35") => Len(cache.feat) = FeatCap
  /\ Is("gemma4") => cache.feat = <<>> \/ Len(cache.feat) = FeatCap

SnapFeats == Captures => \A s \in Slots : named[s] # <<>> => SlotFeats(snaps[s], named[s])

PrefillSeen ==
  job.at = "prefill" /\ job.exact /\ InWindow /\ CanSpec /\ Mirrored =>
    /\ job.req.slot = NoSlot => MirrorHas(mirror, SubSeq(Prompt, 1, job.committed))
    /\ Is("gemma4") => Len(Prompt) <= FeatCap /\ FeatHas(cache.feat, job.committed)

DraftSeen == job.at = "draft" /\ Sure /\ Mirrored => MirrorHas(mirror, SoFar)

CommitSeen ==
  job.at = "commit" /\ Sure /\ Mirrored =>
    /\ MirrorHas(mirror, SoFar)
    /\ Is("gemma4") => FeatBlock(cache.feat, job.committed, QLen)

FeatInv == FeatSize /\ SnapFeats /\ PrefillSeen /\ DraftSeen /\ CommitSeen

LEMMA KeptFeats ==
  ASSUME FeatSize, config' = config, FeatLike(cache.feat, cache'.feat)
  PROVE  FeatSize' /\ (HasFeat' <=> HasFeat) /\ (Captures' <=> Captures)
<1>1. HasFeat' <=> HasFeat BY DEF HasFeat, FeatLike
<1> QED BY <1>1 DEF FeatSize, FeatLike, Captures, Is

LEMMA SameSnapFeats ==
  ASSUME SnapFeats, Captures' => Captures, UNCHANGED <<snaps, named>> PROVE SnapFeats'
BY DEF SnapFeats, SlotFeats

LEMMA FeatEnds ==
  ASSUME FeatSize', SnapFeats', job'.at \notin {"prefill", "draft", "commit"} PROVE FeatInv'
BY DEF FeatInv, PrefillSeen, DraftSeen, CommitSeen

\* The other backends have no features.
LEMMA OtherKinds ==
  ASSUME config' = config, ~Is("qwen35"), ~Is("gemma4") PROVE FeatInv'
<1>1. ~Captures' /\ ~Mirrored' /\ ~Is("qwen35")' /\ ~Is("gemma4")' BY DEF Captures, Mirrored, Is
<1> QED BY <1>1 DEF FeatInv, FeatSize, SnapFeats, PrefillSeen, DraftSeen, CommitSeen

\* qwen35 always has its buffer.
LEMMA Qwen35Feats ==
  ASSUME FeatSize, Is("qwen35"), config' = config, FeatLike(cache.feat, cache'.feat)
  PROVE  FeatSize' /\ SnapFeats' /\ (Mirrored' <=> job'.req.slot = NoSlot)
<1>1. FeatSize' BY KeptFeats
<1>2. ~Captures' /\ Is("qwen35")' BY DEF Captures, Is
<1> QED BY <1>1, <1>2 DEF SnapFeats, Mirrored

\* One slot is filled or emptied.
LEMMA OneSlotFeats ==
  ASSUME SnapsOK, SnapFeats, Captures' => Captures, NEW slot \in Slots, NEW s, NEW x,
         snaps' = [snaps EXCEPT ![slot] = s], named' = [named EXCEPT ![slot] = x],
         Captures /\ x # <<>> => SlotFeats(s, x)
  PROVE  SnapFeats'
<1>1. \A t \in Slots : /\ snaps'[t] = IF t = slot THEN s ELSE snaps[t]
                       /\ named'[t] = IF t = slot THEN x ELSE named[t]
  BY DEF SnapsOK
<1>2. \A a, b : SlotFeats(a, b)' = SlotFeats(a, b) BY DEF SlotFeats
<1> SUFFICES ASSUME Captures, NEW t \in Slots, named'[t] # <<>> PROVE SlotFeats(snaps'[t], named'[t])
  BY <1>2 DEF SnapFeats
<1>3. CASE t = slot BY <1>1, <1>3
<1>4. CASE t # slot BY <1>1, <1>4 DEF SnapFeats
<1> QED BY <1>3, <1>4

LEMMA ChunkSmall ==
  ASSUME Inv, job.at = "prefill", job.committed < Len(job.req.prompt)
  PROVE  /\ Is("qwen35") => Qwen35ChunkLen(job.committed) <= Chunk
         /\ Is("gemma4") => Gemma4ChunkLen(job.committed) <= Chunk
<1> DEFINE k == job.committed
           l == Len(job.req.prompt)
<1>1. k \in Nat /\ l \in Nat /\ k < l /\ Chunk \in Nat \ {0} /\ Window \in Nat \ {0} /\ l - k \in Nat \ {0}
  BY ChunkSize, SizesAreNat DEF Inv, JobOK, IsJob, IsRequest, Working
<1>2. ASSUME Is("qwen35") PROVE Qwen35ChunkLen(k) <= Chunk
  <2> DEFINE n == Min({Chunk, l - k})
  <2>1. n \in {Chunk, l - k} /\ n <= Chunk
    <3>1. l - k \in Int /\ Chunk \in Int BY <1>1
    <3> HIDE DEF k, l
    <3> QED BY <3>1, MinFacts
  <2>2. n \in Nat BY <1>1, <2>1
  <2>3. Qwen35ChunkLen(k) = IF job.snap /\ job.req.snap_pos \in k + 1 .. k + n - 1
                            THEN job.req.snap_pos - k ELSE n
    BY DEF Qwen35ChunkLen
  <2> HIDE DEF n, k, l
  <2> QED BY SMTT(30), <1>1, <2>1, <2>2, <2>3
<1>3. ASSUME Is("gemma4") PROVE Gemma4ChunkLen(k) <= Chunk
  <2> DEFINE T == {Chunk, l - k} \cup IF Window < MaxCtx THEN {Window - (k % Window)} ELSE {}
  <2>1. Gemma4ChunkLen(k) = Min(T) BY DEF Gemma4ChunkLen
  <2> HIDE DEF k, l
  <2>2. k % Window \in 0..(Window - 1) BY <1>1
  <2>3. T \in SUBSET (Nat \ {0}) /\ Chunk \in T
    <3>1. Window - (k % Window) \in Nat \ {0} BY <1>1, <2>2
    <3> QED BY <1>1, <3>1
  <2> HIDE DEF T
  <2>4. \E x \in T : \A y \in T : x <= y BY <2>3, LeastNat
  <2>5. Min(T) <= Chunk BY <2>3, <2>4 DEF Min
  <2> QED BY <2>1, <2>5
<1> QED BY <1>2, <1>3

LEMMA ReturnedAt == ASSUME IsJob(job), NEW b, NEW r PROVE Returned(b, r).at = "returned"
BY DEF IsJob, Returned

\* What the next state inherits of a request.
LEMMA SameSeen ==
  ASSUME FeatSize, UNCHANGED <<config, parked>>, job'.req = job.req, job'.exact = job.exact,
         FeatLike(cache.feat, cache'.feat)
  PROVE  /\ FeatSize' /\ (Captures' <=> Captures) /\ (Mirrored' <=> Mirrored)
         /\ Sure' = Sure /\ CanSpec' = CanSpec /\ Prompt' = Prompt /\ InWindow' = InWindow
         /\ (Is("gemma4")' <=> Is("gemma4")) /\ (Is("qwen35")' <=> Is("qwen35"))
<1>1. FeatSize' /\ (Captures' <=> Captures) BY KeptFeats
<1>2. Sure' = Sure /\ CanSpec' = CanSpec /\ Prompt' = Prompt /\ InWindow' = InWindow BY SameRequest
<1>3. (Is("gemma4")' <=> Is("gemma4")) /\ (Is("qwen35")' <=> Is("qwen35")) BY DEF Is
<1>4. Mirrored' <=> Mirrored BY <1>1, <1>3 DEF Mirrored
<1> QED BY <1>1, <1>2, <1>3, <1>4

LEMMA SizesSmall ==
  ASSUME SizesFit
  PROVE  /\ Chunk \in Nat /\ QLen \in Nat /\ RingCap \in Nat /\ FeatCap \in Nat
         /\ \A n \in Nat : n <= Chunk \/ n <= QLen => n <= RingCap /\ n <= FeatCap
BY ChunkSize, BlockSize, SizesAreNat DEF SizesFit

\* A chunk of a prompt is mirrored.
LEMMA ChunkMirrored ==
  ASSUME SizesFit, NEW p \in Seq(Tokens), NEW k \in Nat, NEW n \in Nat, k + n <= Len(p), n <= Chunk,
         NEW c, IsCache(c), Begins(c.kv, SubSeq(p, 1, k + n)), NEW f, Len(f) = FeatCap,
         c.feat = WriteFeatures(f, k, n), NEW m, MirrorHas(m, SubSeq(p, 1, k))
  PROVE  MirrorHas(sync_range(m, c, k, n), SubSeq(p, 1, k + n))
<1>1. n <= RingCap /\ n <= FeatCap BY SizesSmall
<1>2. FeatBlock(c.feat, k, n) BY <1>1, FeaturesWritten
<1> DEFINE ctx == SubSeq(p, 1, k + n)
<1>3. ctx \in Seq(Tokens) /\ Len(ctx) = k + n /\ SubSeq(ctx, 1, k) = SubSeq(p, 1, k)
  <2>1. k + n \in 0..Len(p) /\ k \in 0..(k + n) OBVIOUS
  <2> QED BY <2>1, PrefixFacts
<1>4. Begins(c.kv, ctx) /\ MirrorHas(m, SubSeq(ctx, 1, k)) BY <1>3
<1> HIDE DEF ctx
<1>5. k \in 0..Len(ctx) /\ k + n = Len(ctx) /\ c.kv \in Seq(Row) BY <1>3 DEF IsCache
<1>6. MirrorHas(sync_range(m, c, k, n), ctx)
  <2>1. ctx \in Seq(Tokens) BY <1>3
  <2> QED BY ONLY <1>1, <1>2, <1>4, <1>5, <2>1, n \in Nat, MirrorGrows
<1> QED BY <1>6 DEF ctx

\* And what is kept of a block.
LEMMA TurnMirrored ==
  ASSUME SizesFit, NEW ctx \in Seq(Tokens), NEW w \in Seq(Tokens), Len(w) <= QLen, NEW c, IsCache(c),
         c.kv = ctx \o w, FeatBlock(c.feat, Len(ctx), Len(w)), NEW m, MirrorHas(m, ctx)
  PROVE  MirrorHas(sync_range(m, c, Len(ctx), Len(w)), ctx \o w)
<1>1. Len(w) \in Nat /\ Len(ctx) \in Nat /\ Len(w) <= RingCap BY SizesSmall
<1>2. ctx \o w \in Seq(Tokens) /\ Len(ctx \o w) = Len(ctx) + Len(w) BY ConcatProperties
<1>3. Begins(c.kv, ctx \o w) BY <1>2, ContextSelf
<1>4. SubSeq(ctx \o w, 1, Len(ctx)) = ctx
  <2>1. 0 \in 0..Len(w) /\ SubSeq(w, 1, 0) = <<>> /\ ctx \o <<>> = ctx BY <1>1, ConcatEmptySeq
  <2>2. ctx \o SubSeq(w, 1, 0) = SubSeq(ctx \o w, 1, Len(ctx) + 0) BY <2>1, ConcatPrefix
  <2> QED BY <1>1, <2>1, <2>2
<1> DEFINE all == ctx \o w
           k == Len(ctx)
           n == Len(w)
<1>5. /\ all \in Seq(Tokens) /\ k \in 0..Len(all) /\ k + n = Len(all) /\ n \in Nat /\ n <= RingCap
  BY <1>1, <1>2
<1>7. Begins(c.kv, all) /\ MirrorHas(m, SubSeq(all, 1, k)) /\ FeatBlock(c.feat, k, n)
  BY <1>3, <1>4
<1>8. c.kv \in Seq(Row) BY DEF IsCache
<1> HIDE DEF all, k, n
<1>6. MirrorHas(sync_range(m, c, k, n), all) BY ONLY <1>5, <1>7, <1>8, MirrorGrows
<1> QED BY <1>6 DEF all, k, n

\* A turn ends the request or goes on after the whole of what it kept.
LEMMA TurnGoesOn ==
  ASSUME Inv, WorkInv, job.at = "commit", UNCHANGED <<config, parked>>,
         NEW w \in Seq(Tokens), w # <<>>, Len(w) <= job.req.n_gen - job.n,
         NEW e \in EmitBatch(w), NEW t \in Tokens, EndTurn(e, t)
  PROVE  \/ job'.at = "returned"
         \/ /\ job'.at = "draft" /\ ~Stops(e) /\ e.offered = Len(w)
            /\ job'.committed = job.committed + Len(w)
            /\ job'.req = job.req /\ job'.exact = job.exact /\ SoFar' = SoFar \o w
<1>1. /\ IsJob(job) /\ job.n \in Nat /\ job.committed \in Nat /\ stream \in Seq(Tokens)
      /\ Prompt \in Seq(Tokens)
  BY TurnFacts
<1>2. CASE Stops(e)
  <2>1. job' = Returned(TRUE, e.refused) BY <1>2 DEF EndTurn, Stops
  <2> QED BY <1>1, <2>1, ReturnedAt
<1>3. CASE ~Stops(e)
  <2>1. e.offered = Len(w) BY <1>3, GoesOn
  <2>2. job' = [job EXCEPT !.at = "draft", !.last = t, !.n = @ + e.offered,
                           !.committed = @ + e.offered, !.draft = <<>>,
                           !.target = <<>>, !.saved = <<>>]
    BY <1>3 DEF EndTurn, Stops
  <2>3. job.n + e.offered \in Nat /\ job.committed + e.offered \in Nat BY <1>1, <2>1
  <2>4. /\ job'.at = "draft" /\ job'.req = job.req
        /\ job'.committed = job.committed + e.offered /\ job'.exact = job.exact
    BY <1>1, <2>2, <2>3, NextTurn
  <2>5. e.written = w
    <3>1. ~e.refused /\ e.written = SubSeq(w, 1, e.offered) BY <1>3, EmitBatchFacts DEF Stops
    <3> QED BY <2>1, <3>1, SubSeqFull
  <2>6. stream' = stream \o w
    <3>1. stream' = stream \o w \o <<>> BY <1>3, <2>5 DEF EndTurn, Stops
    <3>2. stream \o w \in Seq(Tokens) BY <1>1, ConcatProperties
    <3> QED BY <3>1, <3>2, ConcatEmptySeq
  <2>7. SoFar' = SoFar \o w
    <3>1. Prompt' = Prompt BY <2>4 DEF Prompt
    <3>2. SoFar' = Prompt \o (stream \o w) BY <2>6, <3>1 DEF SoFar
    <3> QED BY <1>1, <3>2, ConcatThree DEF SoFar
  <2> QED BY <1>3, <2>1, <2>4, <2>7
<1> QED BY <1>2, <1>3

LEMMA NotBoth == Is("qwen35") => ~Is("gemma4") /\ (Mirrored <=> job.req.slot = NoSlot)
BY DEF Is, Mirrored, Captures

LEMMA Qwen35InlineSnapSeen == ASSUME Inv, FeatInv, Qwen35InlineSnap PROVE FeatInv'
<1>1. /\ Is("qwen35") /\ job.at = "prefill" /\ job' = [job EXCEPT !.snap = FALSE]
      /\ UNCHANGED <<config, cache, mirror, parked, stream>> /\ job.at \in Working
  BY DEF Qwen35InlineSnap, Working
<1>2. /\ job'.at = job.at /\ job'.req = job.req /\ job'.committed = job.committed
      /\ job'.exact = job.exact
  BY <1>1, Served DEF IsJob
<1>3. FeatLike(cache.feat, cache'.feat) BY <1>1 DEF FeatLike
<1>4. FeatSize' /\ SnapFeats' BY <1>1, <1>3, Qwen35Feats DEF FeatInv
<1>5. /\ (Mirrored' <=> Mirrored) /\ CanSpec' = CanSpec /\ Prompt' = Prompt /\ InWindow' = InWindow
      /\ (Is("gemma4")' <=> Is("gemma4"))
  BY <1>1, <1>2, <1>3, SameSeen DEF FeatInv
<1>6. PrefillSeen' BY <1>1, <1>2, <1>5 DEF FeatInv, PrefillSeen
<1> QED BY <1>1, <1>2, <1>4, <1>6 DEF FeatInv, DraftSeen, CommitSeen

LEMMA Qwen35PrefillSeen ==
  ASSUME SizesFit, Inv, AnswerInv, AnswerInv', FeatInv, Qwen35Prefill PROVE FeatInv'
<1> DEFINE k == job.committed
           n == Qwen35ChunkLen(k)
           p == SubSeq(job.req.prompt, k + 1, k + n)
<1>1. /\ Is("qwen35") /\ job.at = "prefill" /\ k < Len(job.req.prompt) /\ job.at \in Working
      /\ UNCHANGED <<config, snaps, named, parked, drafter, commands>>
  BY DEF Qwen35Prefill, KeepSnaps, Working
<1>2. n \in Nat \ {0} /\ k + n <= Len(Prompt) /\ n <= Chunk
  BY <1>1, Qwen35ChunkFacts, ChunkSmall DEF Prompt
<1>3. k \in Nat /\ Prompt \in Seq(Tokens) /\ Len(Prompt) \in Nat /\ IsJob(job) /\ IsCache(cache)
  BY <1>1, Served
<1>4. Len(cache.feat) = FeatCap BY <1>1 DEF FeatInv, FeatSize
<1>5. PICK g : g = Qwen35Graph(cache, p, k) OBVIOUS
<1>6. p \in Seq(Tokens) /\ Len(p) = n
  <2> HIDE DEF n, k
  <2> QED BY <1>2, <1>3, ChunkFacts DEF Prompt
<1>7. /\ g.cache.feat = WriteFeatures(cache.feat, k, n) /\ IsCache(g.cache)
      /\ FeatLike(cache.feat, g.cache.feat)
  <2> HIDE DEF n, k, p
  <2>1. g.cache.feat = WriteFeatures(cache.feat, k, Len(p)) /\ FeatLike(cache.feat, g.cache.feat)
    BY <1>3, <1>4, <1>5, PassFeats
  <2>2. IsCache(g.cache) BY <1>3, <1>5, <1>6, Qwen35Pass
  <2> QED BY <1>6, <2>1, <2>2
<1> HIDE DEF n, p
<1>8. CASE /\ \E t \in Pick(Last(g.out)) :
                cache' = [g.cache EXCEPT !.last_tok = t, !.cur_pos = k + n]
           /\ mirror' = IF Qwen35CanSpec THEN sync_range(mirror, g.cache, k, n) ELSE mirror
           /\ job' = [job EXCEPT !.committed = k + n]
           /\ stream' = stream
  <2>1. /\ job'.at = "prefill" /\ job'.req = job.req /\ job'.exact = job.exact /\ job'.committed = k + n
    <3> HIDE DEF k
    <3> QED BY <1>1, <1>3, <1>8 DEF IsJob
  <2>2. cache'.feat = g.cache.feat /\ cache'.kv = g.cache.kv BY <1>7, <1>8 DEF IsCache
  <2>3. FeatSize' /\ SnapFeats' BY <1>1, <1>7, <2>2, Qwen35Feats DEF FeatInv
  <2>4. /\ (Mirrored' <=> Mirrored) /\ CanSpec' = CanSpec /\ Prompt' = Prompt /\ InWindow' = InWindow
        /\ ~Is("gemma4")' /\ ~Is("gemma4")
    BY <1>1, <1>7, <2>1, <2>2, SameSeen, NotBoth DEF FeatInv
  <2>5. ASSUME job.exact, InWindow, CanSpec, Mirrored
        PROVE  MirrorHas(mirror', SubSeq(Prompt, 1, k + n))
    <3>1. job.req.slot = NoSlot BY <1>1, <2>5, NotBoth
    <3>2. MirrorHas(mirror, SubSeq(Prompt, 1, k)) BY <1>1, <2>5, <3>1 DEF FeatInv, PrefillSeen
    <3>3. mirror' = sync_range(mirror, g.cache, k, n)
      BY <1>1, <1>8, <2>4, <2>5 DEF CanSpec
    <3>4. Begins(g.cache.kv, SubSeq(Prompt, 1, k + n))
      <4>1. Lesser(k + n, Len(Prompt)) = k + n
        <5> HIDE DEF k
        <5> QED BY <1>2, <1>3, LesserFacts
      <4>2. Begins(cache'.kv, SubSeq(Prompt', 1, Lesser(job'.committed, Len(Prompt'))))
        BY <2>1, <2>4, <2>5 DEF AnswerInv, WorkInv, PrefillRight, Holds
      <4> HIDE DEF k
      <4> QED BY <2>1, <2>2, <2>4, <4>1, <4>2
    <3> HIDE DEF k
    <3>5. n \in Nat BY <1>2
    <3>6. MirrorHas(sync_range(mirror, g.cache, k, n), SubSeq(Prompt, 1, k + n))
      BY <1>2, <1>3, <1>4, <1>7, <3>2, <3>4, <3>5, ChunkMirrored
    <3> QED BY <3>3, <3>6
  <2>6. PrefillSeen' BY <2>1, <2>4, <2>5 DEF PrefillSeen
  <2> QED BY <2>1, <2>3, <2>6 DEF FeatInv, DraftSeen, CommitSeen
<1>9. CASE cache' = Qwen35FailedPass(cache, k) /\ Return(FALSE)
  <2>1. FeatLike(cache.feat, cache'.feat)
    <3> HIDE DEF k
    <3> QED BY <1>3, <1>4, <1>9, PassFeats
  <2>2. FeatSize' /\ SnapFeats' BY <1>1, <2>1, Qwen35Feats DEF FeatInv
  <2>3. job'.at = "returned" BY <1>3, <1>9, ReturnedAt DEF Return
  <2> QED BY <2>2, <2>3, FeatEnds
<1> QED
  <2>1. \/ /\ \E t \in Pick(Last(g.out)) :
                 cache' = [g.cache EXCEPT !.last_tok = t, !.cur_pos = k + n]
           /\ mirror' = IF Qwen35CanSpec THEN sync_range(mirror, g.cache, k, n) ELSE mirror
           /\ job' = [job EXCEPT !.committed = k + n]
           /\ stream' = stream
        \/ cache' = Qwen35FailedPass(cache, k) /\ Return(FALSE)
    BY <1>5 DEF Qwen35Prefill, n, p
  <2> QED BY ZenonT(40), <1>8, <1>9, <2>1

-----------------------------------------------------------------------------
(* qwen35 keeps it *)

LEMMA Qwen35StartSeen == ASSUME SizesFit, Inv, AnswerInv, FeatInv, Qwen35Start PROVE FeatInv'
<1>1. /\ Is("qwen35") /\ job.at = "prefill" /\ job.committed >= Len(job.req.prompt)
      /\ UNCHANGED <<config, snaps, named, mirror, parked, drafter, commands>>
      /\ job.at \in Working
  BY DEF Qwen35Start, KeepSnaps, Working
<1>2. WorkInv BY DEF AnswerInv
<1>3. IsJob(job) /\ IsCache(cache) /\ Prompt \in Seq(Tokens) /\ job.committed = Len(Prompt)
  <2>1. /\ IsJob(job) /\ IsCache(cache) /\ Prompt \in Seq(Tokens) /\ job.committed \in Nat
        /\ Len(Prompt) \in Nat
    BY <1>1, Served
  <2>2. job.committed <= Len(Prompt) /\ job.committed >= Len(Prompt)
    BY <1>1 DEF Inv, JobOK, Prompt, Is
  <2> QED BY <2>1, <2>2
<1>4. FeatLike(cache.feat, cache'.feat)
  <2>1. cache' = cache \/ cache' = [cache EXCEPT !.cur_pos = job.committed + 1] BY DEF Qwen35Start
  <2>2. cache'.feat = cache.feat BY <1>3, <2>1 DEF IsCache
  <2> QED BY <2>2 DEF FeatLike
<1>5. FeatSize' /\ SnapFeats' BY <1>1, <1>4, Qwen35Feats DEF FeatInv
<1>6. CASE job'.at \in {"returned", "ar"} BY <1>5, <1>6, FeatEnds
<1>7. CASE /\ Qwen35CanSpec /\ stream' = stream
           /\ job' = [job EXCEPT !.at = "draft", !.last = cache.last_tok]
  <2>1. job'.at = "draft" /\ job'.req = job.req /\ job'.exact = job.exact
    BY <1>3, <1>7 DEF IsJob
  <2>2. /\ (Mirrored' <=> Mirrored) /\ Sure' = Sure /\ Prompt' = Prompt
    BY <1>1, <1>4, <2>1, SameSeen DEF FeatInv
  <2>3. SoFar' = Prompt
    <3>1. SoFar' = SoFar BY <1>7, <2>2 DEF SoFar
    <3> QED BY <1>1, <1>2, <3>1, NothingYet
  <2>4. ASSUME Sure, Mirrored PROVE MirrorHas(mirror, Prompt)
    <3>1. CanSpec /\ job.exact BY <1>1, <1>7, <2>4 DEF CanSpec, Sure
    <3>2. InWindow BY <1>1, <1>2, <2>4, RoomFacts
    <3>3. job.req.slot = NoSlot BY <1>1, <2>4, NotBoth
    <3>4. MirrorHas(mirror, SubSeq(Prompt, 1, Len(Prompt)))
      BY <1>1, <1>3, <2>4, <3>1, <3>2, <3>3 DEF FeatInv, PrefillSeen
    <3> QED BY <1>3, <3>4, SubSeqFull
  <2>5. DraftSeen' BY <1>1, <2>2, <2>3, <2>4 DEF DraftSeen
  <2> QED BY <1>5, <2>1, <2>5 DEF FeatInv, PrefillSeen, CommitSeen
<1>8. ASSUME NEW b, NEW r, job' = Returned(b, r) PROVE job'.at = "returned"
  BY <1>3, <1>8, ReturnedAt
<1>9. ASSUME NEW t, NEW r, job' = [job EXCEPT !.at = "ar", !.last = t, !.n = 1,
                                            !.committed = @ + 1, !.refused = r]
      PROVE  job'.at = "ar"
  BY <1>3, <1>9 DEF IsJob
<1> QED
  <2>1. \/ \E b, r : job' = Returned(b, r)
        \/ \E t, r : job' = [job EXCEPT !.at = "ar", !.last = t, !.n = 1,
                                        !.committed = @ + 1, !.refused = r]
        \/ /\ Qwen35CanSpec /\ stream' = stream
           /\ job' = [job EXCEPT !.at = "draft", !.last = cache.last_tok]
    BY DEF Qwen35Start, Return
  <2> QED BY <1>6, <1>7, <1>8, <1>9, <2>1

LEMMA Qwen35ArSeen == ASSUME Inv, FeatInv, Qwen35Ar PROVE FeatInv'
<1>1. /\ Is("qwen35") /\ job.at = "ar" /\ UNCHANGED <<config, snaps, named>> /\ job.at \in Working
  BY DEF Qwen35Ar, KeepSnaps, Working
<1>2. IsJob(job) /\ IsCache(cache) /\ job.committed \in Nat /\ Len(cache.feat) = FeatCap
  BY <1>1, Served DEF FeatInv, FeatSize
<1>3. PICK g : g = Qwen35Graph(cache, <<job.last>>, job.committed) OBVIOUS
<1>4. /\ FeatLike(cache.feat, g.cache.feat) /\ IsCache(g.cache)
      /\ FeatLike(cache.feat, Qwen35FailedPass(cache, job.committed).feat)
  <2>1. job.last \in Tokens BY <1>1 DEF Inv, JobOK
  <2>2. <<job.last>> \in Seq(Tokens) BY <2>1
  <2>3. /\ FeatLike(cache.feat, WriteFeatures(cache.feat, job.committed, Len(<<job.last>>)))
        /\ g.cache.feat = WriteFeatures(cache.feat, job.committed, Len(<<job.last>>))
        /\ FeatLike(cache.feat, Qwen35FailedPass(cache, job.committed).feat)
    BY <1>2, <1>3, PassFeats
  <2>4. IsCache(g.cache) BY <1>2, <1>3, <2>2, Qwen35Pass
  <2> QED BY <2>3, <2>4
<1>5. FeatLike(cache.feat, cache'.feat)
  <2>1. \/ cache' = [g.cache EXCEPT !.cur_pos = job.committed + 1]
        \/ cache' = Qwen35FailedPass(cache, job.committed)
    BY <1>3 DEF Qwen35Ar
  <2> QED BY <1>4, <2>1 DEF IsCache
<1>6. FeatSize' /\ SnapFeats' BY <1>1, <1>5, Qwen35Feats DEF FeatInv
<1>7. job'.at \in {"returned", "ar"}
  <2>1. \/ \E b, r : job' = Returned(b, r)
        \/ \E t : job' = [job EXCEPT !.last = t, !.n = @ + 1, !.committed = @ + 1]
    BY DEF Qwen35Ar, ReturnMarked
  <2>2. ASSUME NEW t, job' = [job EXCEPT !.last = t, !.n = @ + 1, !.committed = @ + 1]
        PROVE job'.at = "ar"
    BY <1>1, <1>2, <2>2 DEF IsJob
  <2> QED BY <1>2, <2>1, <2>2, ReturnedAt
<1> QED BY <1>6, <1>7, FeatEnds

LEMMA Qwen35DraftSeen == ASSUME Inv, AnswerInv, FeatInv, Qwen35Draft PROVE FeatInv'
<1>1. /\ Is("qwen35") /\ job.at = "draft" /\ job.at \in Working
      /\ UNCHANGED <<config, snaps, named, mirror, parked>>
  BY DEF Qwen35Draft, KeepSnaps, Working
<1>2. IsJob(job) /\ IsCache(cache) /\ job.committed \in Nat /\ Len(cache.feat) = FeatCap
  BY <1>1, Served DEF FeatInv, FeatSize
<1>3. ASSUME NEW d \in Drafts, NEW t,
             cache' = [Qwen35Graph(cache, d, job.committed).cache
                         EXCEPT !.cur_pos = job.committed + QLen],
             job' = [job EXCEPT !.at = "commit", !.draft = d, !.target = t, !.saved = cache.ssm],
             stream' = stream
      PROVE  FeatInv'
  <2>1. d \in Seq(Tokens) BY BlockFacts DEF Drafts
  <2>2. PICK g : g = Qwen35Graph(cache, d, job.committed) OBVIOUS
  <2>3. FeatLike(cache.feat, g.cache.feat) /\ IsCache(g.cache)
    <3>1. /\ FeatLike(cache.feat, WriteFeatures(cache.feat, job.committed, Len(d)))
          /\ g.cache.feat = WriteFeatures(cache.feat, job.committed, Len(d))
      BY <1>2, <2>2, PassFeats
    <3>2. IsCache(g.cache) BY <1>2, <2>1, <2>2, Qwen35Pass
    <3> QED BY <3>1, <3>2
  <2>4. FeatLike(cache.feat, cache'.feat)
    <3>1. cache' = [g.cache EXCEPT !.cur_pos = job.committed + QLen] BY <1>3, <2>2
    <3> QED BY <2>3, <3>1 DEF IsCache
  <2>5. FeatSize' /\ SnapFeats' BY <1>1, <2>4, Qwen35Feats DEF FeatInv
  <2>6. job'.at = "commit" /\ job'.req = job.req /\ job'.exact = job.exact
    BY <1>2, <1>3 DEF IsJob
  <2>7. /\ (Mirrored' <=> Mirrored) /\ Sure' = Sure /\ Prompt' = Prompt
        /\ (Is("gemma4")' <=> Is("gemma4"))
    BY <1>1, <2>4, <2>6, SameSeen DEF FeatInv
  <2>8. SoFar' = SoFar BY <1>3, <2>7 DEF SoFar
  <2>9. CommitSeen' BY <1>1, <2>7, <2>8, NotBoth DEF CommitSeen, FeatInv, DraftSeen
  <2> QED BY <2>5, <2>6, <2>9 DEF FeatInv, PrefillSeen, DraftSeen
<1>4. CASE Return(FALSE) /\ (cache' = cache \/ cache' = FailedPass(cache, job.committed))
  <2>1. FeatLike(cache.feat, cache'.feat)
    <3>1. FeatLike(cache.feat, FailedPass(cache, job.committed).feat) BY <1>2, PassFeats
    <3> QED BY <1>4, <3>1 DEF FeatLike
  <2>2. FeatSize' /\ SnapFeats' BY <1>1, <2>1, Qwen35Feats DEF FeatInv
  <2>3. job'.at = "returned" BY <1>2, <1>4, ReturnedAt DEF Return
  <2> QED BY <2>2, <2>3, FeatEnds
<1> QED BY <1>3, <1>4 DEF Qwen35Draft

LEMMA Qwen35CommitSeen ==
  ASSUME SizesFit, Inv, AnswerInv, FeatInv, Qwen35Commit PROVE FeatInv'
<1> DEFINE accept_n == AcceptN(job.draft, job.target)
           commit_n == CommitN(accept_n, job.req.n_gen - job.n)
           k == job.committed
<1>1. /\ Is("qwen35") /\ job.at = "commit" /\ UNCHANGED <<config, snaps, named, parked>>
  BY DEF Qwen35Commit, KeepSnaps
<1>2. WorkInv BY DEF AnswerInv
<1>3. /\ job.at \in Working /\ IsJob(job) /\ IsCache(cache) /\ k \in Nat /\ job.n \in Nat
      /\ SoFar \in Seq(Tokens) /\ Len(SoFar) = Len(Prompt) + job.n /\ Len(Prompt) \in Nat
      /\ job.req.n_gen \in Nat
      /\ Sure => k = Len(SoFar)
  BY <1>1, <1>2, TurnFacts
<1>4. Len(cache.feat) = FeatCap BY <1>1 DEF FeatInv, FeatSize
<1>5. PICK w : w = CommitTokens(job.draft, job.target, accept_n, commit_n) OBVIOUS
<1>6. /\ w \in Seq(Tokens) /\ w # <<>> /\ Len(w) <= job.req.n_gen - job.n /\ Len(w) = commit_n
      /\ Len(w) <= QLen
  <2>1. /\ w \in Seq(Tokens) /\ w # <<>> /\ commit_n <= job.req.n_gen - job.n /\ Len(w) = commit_n
        /\ commit_n \in 1..QLen
    BY <1>1, <1>5, KeptFacts
  <2> HIDE DEF commit_n
  <2> QED BY <2>1
<1> HIDE DEF accept_n, commit_n
<1>7. PICK g : g = Qwen35Graph(RolledBack(cache), w, k) OBVIOUS
<1>8. IsCache(RolledBack(cache)) /\ RolledBack(cache).feat = cache.feat BY <1>3 DEF RolledBack, IsCache
<1>9. /\ IsCache(g.cache) /\ g.cache.feat = WriteFeatures(cache.feat, k, Len(w))
      /\ FeatLike(cache.feat, g.cache.feat) /\ FeatLike(cache.feat, Qwen35FailedPass(cache, k).feat)
  <2>1. IsCache(g.cache) BY <1>3, <1>6, <1>7, <1>8, Qwen35Pass
  <2>2. g.cache.feat = WriteFeatures(cache.feat, k, Len(w))
        /\ FeatLike(cache.feat, WriteFeatures(cache.feat, k, Len(w)))
    BY <1>4, <1>7, <1>8, PassFeats
  <2>3. FeatLike(cache.feat, Qwen35FailedPass(cache, k).feat) BY <1>3, <1>4, PassFeats
  <2> QED BY <2>1, <2>2, <2>3
<1>10. ASSUME Sure PROVE g.cache.kv = SoFar \o w
  <2>1. Begins(cache.kv, SoFar) /\ job.saved = SoFar
    BY <1>1, <1>2, <1>10 DEF WorkInv, CommitRight
  <2>2. Begins(RolledBack(cache).kv, SoFar) /\ RolledBack(cache).ssm = SoFar
    BY <1>3, <2>1 DEF RolledBack, IsCache
  <2>3. Len(SoFar) + Len(w) <= MaxCtx
    <3>1. Len(Prompt) + job.req.n_gen <= MaxCtx BY <1>2, <1>3, <1>10, RoomFacts
    <3> QED BY SMTT(30), <1>3, <1>6, <3>1, SizesAreNat
  <2>4. g = Qwen35Graph(RolledBack(cache), w, Len(SoFar)) BY <1>3, <1>7, <1>10
  <2> QED BY <1>3, <1>6, <1>8, <2>2, <2>3, <2>4, Qwen35PassRight
<1>11. ASSUME NEW t \in Pick(Last(g.out)), NEW e \in EmitBatch(w),
              cache' = [g.cache EXCEPT !.cur_pos = k + e.offered],
              mirror' = sync_range(mirror, g.cache, k, commit_n), EndTurn(e, t)
       PROVE  FeatInv'
  <2>1. t \in Tokens
    <3>1. Len(w) \in Nat \ {0} BY <1>6
    <3>2. IsOut(g.out, Len(w)) BY <1>3, <1>6, <1>7, <1>8, Qwen35Pass
    <3> QED BY <3>1, <3>2, OutPicks
  <2>2. cache'.feat = g.cache.feat BY <1>9, <1>11 DEF IsCache
  <2>3. FeatSize' /\ SnapFeats' BY <1>1, <1>9, <2>2, Qwen35Feats DEF FeatInv
  <2>4. CASE job'.at = "returned" BY <2>3, <2>4, FeatEnds
  <2>5. CASE /\ job'.at = "draft" /\ job'.req = job.req /\ job'.exact = job.exact
             /\ SoFar' = SoFar \o w
    <3>1. (Mirrored' <=> Mirrored) /\ Sure' = Sure
      BY <1>1, <1>9, <2>2, <2>5, SameSeen DEF FeatInv
    <3>2. ASSUME Sure, Mirrored PROVE MirrorHas(mirror', SoFar \o w)
      <4>1. MirrorHas(mirror, SoFar) BY <1>1, <3>2 DEF FeatInv, CommitSeen
      <4>2. k = Len(SoFar) /\ g.cache.kv = SoFar \o w BY <1>3, <1>10, <3>2
      <4>3. FeatBlock(g.cache.feat, Len(SoFar), Len(w))
        <5>1. Len(w) \in Nat BY <1>6
        <5>2. Len(w) <= FeatCap BY <1>6, <5>1, SizesSmall
        <5> QED BY <1>3, <1>4, <1>9, <4>2, <5>1, <5>2, FeaturesWritten
      <4>4. MirrorHas(sync_range(mirror, g.cache, Len(SoFar), Len(w)), SoFar \o w)
        BY <1>3, <1>6, <1>9, <4>1, <4>2, <4>3, TurnMirrored
      <4> QED BY <1>6, <1>11, <4>2, <4>4
    <3>3. DraftSeen' BY <2>5, <3>1, <3>2 DEF DraftSeen
    <3> QED BY <2>3, <2>5, <3>3 DEF FeatInv, PrefillSeen, CommitSeen
  <2> QED BY <1>1, <1>2, <1>6, <1>11, <2>1, <2>4, <2>5, TurnGoesOn
<1>12. CASE cache' = Qwen35FailedPass(cache, k) /\ Return(FALSE)
  <2>1. FeatSize' /\ SnapFeats' BY <1>1, <1>9, <1>12, Qwen35Feats DEF FeatInv
  <2>2. job'.at = "returned" BY <1>3, <1>12, ReturnedAt DEF Return
  <2> QED BY <2>1, <2>2, FeatEnds
<1> QED
  <2>1. \/ \E t \in Pick(Last(g.out)), e \in EmitBatch(w) :
             /\ cache' = [g.cache EXCEPT !.cur_pos = k + e.offered]
             /\ mirror' = sync_range(mirror, g.cache, k, commit_n)
             /\ EndTurn(e, t)
        \/ cache' = Qwen35FailedPass(cache, k) /\ Return(FALSE)
    BY <1>5, <1>7 DEF Qwen35Commit, accept_n, commit_n
  <2> QED BY <1>11, <1>12, <2>1

-----------------------------------------------------------------------------
(* gemma4 keeps it *)

\* gemma4's buffer, if it is there.
LEMMA Gemma4Size ==
  ASSUME FeatInv, Is("gemma4")
  PROVE  /\ cache.feat = <<>> \/ Len(cache.feat) = FeatCap
         /\ HasFeat => Len(cache.feat) = FeatCap
         /\ Mirrored <=> Captures
         /\ Captures => config.draft /\ HasFeat /\ CanSpec
BY DEF FeatInv, FeatSize, HasFeat, Mirrored, Captures, Is, CanSpec, Gemma4CanSpec

\* Where the features of a gemma4 request stay and no turn begins.
LEMMA Gemma4Ends ==
  ASSUME FeatInv, config' = config, UNCHANGED <<snaps, named>>, FeatLike(cache.feat, cache'.feat),
         job'.at \in {"returned", "ar"}
  PROVE  FeatInv'
<1>1. FeatSize' /\ (Captures' <=> Captures) BY KeptFeats DEF FeatInv
<1>2. SnapFeats' BY <1>1, SameSnapFeats DEF FeatInv
<1> QED BY <1>1, <1>2, FeatEnds

LEMMA Gemma4PrefillSeen ==
  ASSUME SizesFit, Inv, AnswerInv, AnswerInv', FeatInv, Gemma4Prefill PROVE FeatInv'
<1> DEFINE k == job.committed
           n == Gemma4ChunkLen(k)
           p == SubSeq(job.req.prompt, k + 1, k + n)
<1>1. /\ Is("gemma4") /\ job.at = "prefill" /\ k < Len(job.req.prompt) /\ job.at \in Working
      /\ UNCHANGED <<config, snaps, named, parked>>
  BY DEF Gemma4Prefill, KeepSnaps, Working
<1>2. n \in Nat \ {0} /\ k + n <= Len(Prompt) /\ n <= Chunk
  BY <1>1, Gemma4ChunkFacts, ChunkSmall DEF Prompt
<1>3. k \in Nat /\ Prompt \in Seq(Tokens) /\ Len(Prompt) \in Nat /\ IsJob(job) /\ IsCache(cache)
  BY <1>1, Served
<1>4. cache.feat = <<>> \/ Len(cache.feat) = FeatCap BY <1>1, Gemma4Size
<1>5. PICK g : g = gemma4_step(cache, p, k) OBVIOUS
<1>6. p \in Seq(Tokens) /\ Len(p) = n
  <2> HIDE DEF n, k
  <2> QED BY <1>2, <1>3, ChunkFacts DEF Prompt
<1>7. /\ g.cache.feat = WriteFeatures(cache.feat, k, n) /\ IsCache(g.cache)
      /\ FeatLike(cache.feat, g.cache.feat) /\ FeatLike(cache.feat, FailedPass(cache, k).feat)
  <2> HIDE DEF n, k, p
  <2>1. /\ g.cache.feat = WriteFeatures(cache.feat, k, Len(p)) /\ FeatLike(cache.feat, g.cache.feat)
        /\ FeatLike(cache.feat, FailedPass(cache, k).feat)
    BY <1>3, <1>4, <1>5, PassFeats
  <2>2. IsCache(g.cache) BY <1>3, <1>5, <1>6, Gemma4Pass
  <2> QED BY <1>6, <2>1, <2>2
<1> HIDE DEF n, p
<1>8. CASE /\ \E t : cache' = [g.cache EXCEPT !.last_tok = t]
           /\ mirror' = IF config.draft /\ HasFeat THEN sync_range(mirror, g.cache, k, n) ELSE mirror
           /\ job' = [job EXCEPT !.committed = k + n]
           /\ stream' = stream
  <2>1. /\ job'.at = "prefill" /\ job'.req = job.req /\ job'.exact = job.exact /\ job'.committed = k + n
    <3> HIDE DEF k
    <3> QED BY <1>1, <1>3, <1>8 DEF IsJob
  <2>2. cache'.feat = g.cache.feat /\ cache'.kv = g.cache.kv BY <1>7, <1>8 DEF IsCache
  <2>3. /\ FeatSize' /\ (Captures' <=> Captures) /\ (Mirrored' <=> Mirrored) /\ CanSpec' = CanSpec
        /\ Prompt' = Prompt /\ InWindow' = InWindow /\ (Is("gemma4")' <=> Is("gemma4"))
    BY <1>1, <1>7, <2>1, <2>2, SameSeen DEF FeatInv
  <2>4. SnapFeats' BY <1>1, <2>3, SameSnapFeats DEF FeatInv
  <2>5. ASSUME job.exact, InWindow, CanSpec, Mirrored
        PROVE  /\ Len(Prompt) <= FeatCap /\ FeatHas(g.cache.feat, k + n)
               /\ job.req.slot = NoSlot => MirrorHas(mirror', SubSeq(Prompt, 1, k + n))
    <3>1. Len(Prompt) <= FeatCap /\ FeatHas(cache.feat, k)
          /\ (job.req.slot = NoSlot => MirrorHas(mirror, SubSeq(Prompt, 1, k)))
      BY <1>1, <2>5 DEF FeatInv, PrefillSeen
    <3>2. config.draft /\ HasFeat /\ Len(cache.feat) = FeatCap BY <1>1, <2>5, Gemma4Size
    <3>3. mirror' = sync_range(mirror, g.cache, k, n) BY <1>8, <3>2
    <3>4. Begins(g.cache.kv, SubSeq(Prompt, 1, k + n))
      <4>1. Lesser(k + n, Len(Prompt)) = k + n
        <5> HIDE DEF k
        <5> QED BY <1>2, <1>3, LesserFacts
      <4>2. Begins(cache'.kv, SubSeq(Prompt', 1, Lesser(job'.committed, Len(Prompt'))))
        BY <2>1, <2>3, <2>5 DEF AnswerInv, WorkInv, PrefillRight, Holds
      <4> HIDE DEF k
      <4> QED BY <2>1, <2>2, <2>3, <4>1, <4>2
    <3> HIDE DEF k
    <3>5. n \in Nat /\ n <= FeatCap BY <1>2, SizesSmall
    <3>6. FeatHas(g.cache.feat, k + n) BY <1>3, <1>7, <3>1, <3>2, <3>5, FeatGrows
    <3>7. ASSUME job.req.slot = NoSlot
          PROVE MirrorHas(sync_range(mirror, g.cache, k, n), SubSeq(Prompt, 1, k + n))
      <4>1. MirrorHas(mirror, SubSeq(Prompt, 1, k)) BY <3>1, <3>7
      <4> QED BY <1>2, <1>3, <1>7, <3>2, <3>4, <3>5, <4>1, ChunkMirrored
    <3> QED BY <3>1, <3>3, <3>6, <3>7
  <2>6. PrefillSeen' BY <2>1, <2>2, <2>3, <2>5 DEF PrefillSeen
  <2> QED BY <2>1, <2>3, <2>4, <2>6 DEF FeatInv, DraftSeen, CommitSeen
<1>9. CASE cache' = FailedPass(cache, k) /\ Return(FALSE)
  <2>1. job'.at = "returned" BY <1>3, <1>9, ReturnedAt DEF Return
  <2> QED BY <1>1, <1>7, <1>9, <2>1, Gemma4Ends
<1> QED
  <2>1. \/ /\ \E t : cache' = [g.cache EXCEPT !.last_tok = t]
           /\ mirror' = IF config.draft /\ HasFeat THEN sync_range(mirror, g.cache, k, n) ELSE mirror
           /\ job' = [job EXCEPT !.committed = k + n]
           /\ stream' = stream
        \/ cache' = FailedPass(cache, k) /\ Return(FALSE)
    BY <1>5 DEF Gemma4Prefill, n, p
  <2> QED BY ZenonT(40), <1>8, <1>9, <2>1

LEMMA Gemma4InlineSnapSeen ==
  ASSUME Inv, AnswerInv, FeatInv, Is("gemma4"), job.at = "prefill", job.committed = Len(Prompt),
         Gemma4InlineSnap, Captures' => Captures
  PROVE  SnapFeats'
<1>1. CASE ~(job.snap /\ job.req.snap_pos <= job.committed)
  BY <1>1, SameSnapFeats DEF Gemma4InlineSnap, KeepSnaps, FeatInv
<1>2. CASE job.snap /\ job.req.snap_pos <= job.committed
  <2> DEFINE slot == job.req.snap_slot
             pos == job.req.snap_pos
             c == [cache EXCEPT !.cur_pos = pos]
             new == Gemma4Save(c)
  <2>1. job.at \in Working /\ "target" \notin parked /\ slot \in Slots
    BY <1>2 DEF Inv, JobOK, Working
  <2>2. IsRequest(job.req) /\ IsCache(cache) /\ Prompt \in Seq(Tokens) /\ Len(Prompt) \in Nat
    BY <2>1, Served
  <2>3. pos \in Nat \ {0} /\ pos <= Len(Prompt) BY <1>2, <2>1, <2>2, SlotsAssumption DEF IsRequest
  <2>4. PICK s \in Gemma4SaveAt(pos, snaps[slot]) : PutSnap(slot, s) BY <1>2 DEF Gemma4InlineSnap
  <2>5. s = new \/ s = NoSnap
    <3>1. ~("target" \in parked \/ pos <= 0) BY <2>1, <2>3
    <3>2. s \in WithAlloc(new, ~snaps[slot].used \/ snaps[slot].cur_pos # pos)
      BY <2>4, <3>1 DEF Gemma4SaveAt
    <3> HIDE DEF new
    <3> QED BY <3>2 DEF WithAlloc
  <2>6. PICK x : x = IF s.used /\ job.exact /\ InWindow THEN SubSeq(Prompt, 1, s.cur_pos) ELSE <<>>
    OBVIOUS
  <2>7. snaps' = [snaps EXCEPT ![slot] = s] /\ named' = [named EXCEPT ![slot] = x]
    BY <2>4, <2>6 DEF PutSnap, Prompt
  <2>8. ASSUME Captures, x # <<>> PROVE SlotFeats(s, x)
    <3>1. s.used /\ job.exact /\ InWindow /\ x = SubSeq(Prompt, 1, s.cur_pos) BY <2>6, <2>8
    <3>2. s = new
      <4> HIDE DEF new
      <4> QED BY <2>5, <3>1, UnusedRight
    <3>3. c.cur_pos = pos /\ c.feat = cache.feat BY <2>2 DEF IsCache
    <3>4. s.cur_pos = pos /\ s.feat = FirstSlots(cache.feat, pos) BY <3>2, <3>3 DEF Gemma4Save
    <3>5. Len(x) = pos
      <4>1. pos \in 0..Len(Prompt) BY <2>2, <2>3
      <4> HIDE DEF pos
      <4> QED BY <2>2, <3>1, <3>4, <4>1, PrefixFacts
    <3>6. CanSpec /\ Mirrored /\ Len(cache.feat) = FeatCap BY <2>8, Gemma4Size
    <3>7. Len(Prompt) <= FeatCap /\ FeatHas(cache.feat, Len(Prompt))
      BY <3>1, <3>6 DEF FeatInv, PrefillSeen
    <3> HIDE DEF pos, c, new
    <3>8. pos \in 0..Len(Prompt) /\ pos <= FeatCap BY <2>2, <2>3, <3>7, SizesAreNat
    <3>9. Len(s.feat) = FeatCap /\ FirstPositions(s.feat, pos)
      BY <2>2, <3>4, <3>6, <3>7, <3>8, FeatSaved
    <3> QED BY <3>5, <3>8, <3>9 DEF SlotFeats
  <2>9. SnapsOK /\ SnapFeats BY SMTT(30) DEF Inv, FeatInv
  <2> HIDE DEF slot
  <2> QED BY <2>1, <2>7, <2>8, <2>9, OneSlotFeats
<1> QED BY <1>1, <1>2

LEMMA Gemma4StartSeen == ASSUME SizesFit, Inv, AnswerInv, FeatInv, Gemma4Start PROVE FeatInv'
<1>1. /\ Is("gemma4") /\ job.at = "prefill" /\ job.committed >= Len(job.req.prompt)
      /\ Gemma4InlineSnap /\ UNCHANGED <<config, parked>> /\ job.at \in Working
      /\ mirror' = Gemma4Resync(job.req.slot # NoSlot)
  BY DEF Gemma4Start, Working
<1>2. WorkInv BY DEF AnswerInv
<1>3. /\ IsJob(job) /\ IsCache(cache) /\ Prompt \in Seq(Tokens) /\ Len(Prompt) \in Nat \ {0}
      /\ job.committed = Len(Prompt)
  <2>1. /\ IsJob(job) /\ IsCache(cache) /\ Prompt \in Seq(Tokens)
        /\ Len(Prompt) \in Nat \ {0} /\ job.committed \in Nat
    BY <1>1, Served
  <2>2. job.committed <= Len(Prompt) /\ job.committed >= Len(Prompt)
    BY <1>1 DEF Inv, JobOK, Prompt, Is
  <2> QED BY <2>1, <2>2
<1>4. cache.feat = <<>> \/ Len(cache.feat) = FeatCap BY <1>1, Gemma4Size
<1>5. PICK g : g = gemma4_step(cache, <<Last(job.req.prompt)>>, job.committed - 1) OBVIOUS
<1>6. FeatLike(cache.feat, cache'.feat)
  <2>1. \/ cache' = [cache EXCEPT !.cur_pos = job.committed]
        \/ cache' = g.cache
        \/ cache' = FailedPass(cache, job.committed - 1)
    BY <1>5 DEF Gemma4Start
  <2>2. CASE cache' = [cache EXCEPT !.cur_pos = job.committed]
    <3>1. cache'.feat = cache.feat BY <1>3, <2>2 DEF IsCache
    <3> QED BY <3>1 DEF FeatLike
  <2>3. CASE cache' = g.cache
    <3>1. PICK q : q = <<Last(job.req.prompt)>> OBVIOUS
    <3>2. g = gemma4_step(cache, q, job.committed - 1) BY <1>5, <3>1
    <3>3. /\ g.cache.feat = WriteFeatures(cache.feat, job.committed - 1, Len(q))
          /\ FeatLike(cache.feat, WriteFeatures(cache.feat, job.committed - 1, Len(q)))
      BY <1>3, <1>4, <3>2, PassFeats
    <3> QED BY <2>3, <3>3
  <2>4. CASE cache' = FailedPass(cache, job.committed - 1) BY <1>3, <1>4, <2>4, PassFeats
  <2> QED BY <2>1, <2>2, <2>3, <2>4
<1>7. FeatSize' /\ (Captures' <=> Captures) BY <1>1, <1>6, KeptFeats DEF FeatInv
<1>8. SnapFeats' BY <1>1, <1>3, <1>7, Gemma4InlineSnapSeen
<1>9. CASE job'.at \in {"returned", "ar"} BY <1>7, <1>8, <1>9, FeatEnds
<1>10. CASE /\ Gemma4CanSpec /\ stream' = stream
            /\ job' = [job EXCEPT !.at = "draft", !.last = cache.last_tok]
  <2>1. job'.at = "draft" /\ job'.req = job.req /\ job'.exact = job.exact
    <3>1. job' = [job EXCEPT !.at = "draft", !.last = cache.last_tok] BY <1>10
    <3> QED BY <1>3, <3>1 DEF IsJob
  <2>2. (Mirrored' <=> Mirrored) /\ Sure' = Sure /\ Prompt' = Prompt
    BY <1>1, <1>6, <2>1, SameSeen DEF FeatInv
  <2>3. SoFar' = Prompt
    <3>1. SoFar' = SoFar BY <1>10, <2>2 DEF SoFar
    <3> QED BY <1>1, <1>2, <3>1, NothingYet
  <2>4. ASSUME Sure, Mirrored PROVE MirrorHas(mirror', Prompt)
    <3>1. CanSpec /\ job.exact BY <1>1, <1>10, <2>4 DEF CanSpec, Sure
    <3>2. InWindow BY <1>1, <1>2, <2>4, RoomFacts
    <3>3. /\ FeatHas(cache.feat, Len(Prompt)) /\ SubSeq(Prompt, 1, Len(Prompt)) = Prompt
          /\ job.req.slot = NoSlot => MirrorHas(mirror, SubSeq(Prompt, 1, Len(Prompt)))
      BY <1>1, <1>3, <2>4, <3>1, <3>2, SubSeqFull DEF FeatInv, PrefillSeen
    <3>4. CASE job.req.slot = NoSlot
      <4>1. mirror' = mirror BY <1>1, <3>4 DEF Gemma4Resync
      <4> QED BY <3>3, <3>4, <4>1
    <3>5. CASE job.req.slot # NoSlot
      <4>1. config.draft /\ HasFeat BY <1>1, <2>4, Gemma4Size
      <4>2. mirror' = sync_tail(mirror, cache, Len(Prompt))
        BY <1>1, <1>3, <3>5, <4>1 DEF Gemma4Resync
      <4>3. Begins(cache.kv, Prompt)
        <5>1. Lesser(job.committed, Len(Prompt)) = Len(Prompt) BY <1>3, LesserFacts
        <5> QED BY <1>1, <1>2, <3>1, <3>2, <3>3, <5>1 DEF WorkInv, PrefillRight, Holds
      <4>4. cache.kv \in Seq(Row) /\ RingCap <= FeatCap BY <1>3 DEF IsCache, SizesFit
      <4> QED BY <1>3, <3>3, <4>2, <4>3, <4>4, TailSynced
    <3> QED BY <3>4, <3>5
  <2>5. DraftSeen' BY <1>1, <2>2, <2>3, <2>4 DEF DraftSeen
  <2> QED BY <1>7, <1>8, <2>1, <2>5 DEF FeatInv, PrefillSeen, CommitSeen
<1>11. ASSUME NEW b, NEW r, job' = Returned(b, r) PROVE FeatInv'
  <2>1. job'.at = "returned" BY <1>3, <1>11, ReturnedAt
  <2> QED BY <1>9, <2>1
<1>12. ASSUME NEW t, job' = [job EXCEPT !.at = "ar", !.last = t, !.n = 1] PROVE FeatInv'
  <2>1. job'.at = "ar" BY <1>3, <1>12 DEF IsJob
  <2> QED BY <1>9, <2>1
<1> QED
  <2>1. \/ \E b, r : job' = Returned(b, r)
        \/ \E t : job' = [job EXCEPT !.at = "ar", !.last = t, !.n = 1]
        \/ /\ Gemma4CanSpec /\ stream' = stream
           /\ job' = [job EXCEPT !.at = "draft", !.last = cache.last_tok]
    BY DEF Gemma4Start, Return, ReturnMarked
  <2> QED BY <1>10, <1>11, <1>12, <2>1

LEMMA Gemma4ArSeen == ASSUME Inv, FeatInv, Gemma4Ar PROVE FeatInv'
<1>1. /\ Is("gemma4") /\ job.at = "ar" /\ UNCHANGED <<config, snaps, named>> /\ job.at \in Working
  BY DEF Gemma4Ar, KeepSnaps, Working
<1>2. IsJob(job) /\ IsCache(cache) BY <1>1, Served
<1>3. cache.feat = <<>> \/ Len(cache.feat) = FeatCap BY <1>1, Gemma4Size
<1>4. PICK q : q = <<job.last>> OBVIOUS
<1>5. FeatLike(cache.feat, cache'.feat)
  <2>1. \/ cache' = gemma4_step(cache, q, job.committed).cache
        \/ cache' = FailedPass(cache, job.committed)
    BY <1>4 DEF Gemma4Ar
  <2>2. /\ FeatLike(cache.feat, WriteFeatures(cache.feat, job.committed, Len(q)))
        /\ gemma4_step(cache, q, job.committed).cache.feat = WriteFeatures(cache.feat, job.committed, Len(q))
        /\ FeatLike(cache.feat, FailedPass(cache, job.committed).feat)
    BY <1>2, <1>3, PassFeats
  <2> QED BY <2>1, <2>2
<1>6. job'.at \in {"returned", "ar"}
  <2>1. \/ \E b, r : job' = Returned(b, r)
        \/ \E t : job' = [job EXCEPT !.last = t, !.n = @ + 1, !.committed = @ + 1]
    BY DEF Gemma4Ar, Return
  <2>2. ASSUME NEW t, job' = [job EXCEPT !.last = t, !.n = @ + 1, !.committed = @ + 1]
        PROVE job'.at = "ar"
    BY <1>1, <1>2, <2>2 DEF IsJob
  <2> QED BY <1>2, <2>1, <2>2, ReturnedAt
<1> QED BY <1>1, <1>5, <1>6, Gemma4Ends

LEMMA Gemma4DraftSeen == ASSUME SizesFit, Inv, AnswerInv, FeatInv, Gemma4Draft PROVE FeatInv'
<1>1. /\ Is("gemma4") /\ job.at = "draft" /\ job.at \in Working
      /\ UNCHANGED <<config, snaps, named, mirror, parked>>
  BY DEF Gemma4Draft, KeepSnaps, Working
<1>2. IsJob(job) /\ IsCache(cache) /\ job.committed \in Nat BY <1>1, Served
<1>3. cache.feat = <<>> \/ Len(cache.feat) = FeatCap BY <1>1, Gemma4Size
<1>4. ASSUME NEW d \in Drafts, NEW t,
             cache' = gemma4_verify_batch(cache, d, job.committed).cache,
             job' = [job EXCEPT !.at = "commit", !.draft = d, !.target = t],
             stream' = stream
      PROVE  FeatInv'
  <2>1. d \in Seq(Tokens) /\ Len(d) = QLen BY BlockFacts DEF Drafts
  <2>2. gemma4_verify_batch(cache, d, job.committed) = gemma4_step(cache, d, job.committed)
    BY <1>2, <2>1, Gemma4Pass
  <2>3. /\ cache'.feat = WriteFeatures(cache.feat, job.committed, QLen)
        /\ FeatLike(cache.feat, cache'.feat)
    <3>1. /\ gemma4_step(cache, d, job.committed).cache.feat
               = WriteFeatures(cache.feat, job.committed, Len(d))
          /\ FeatLike(cache.feat, WriteFeatures(cache.feat, job.committed, Len(d)))
      BY <1>2, <1>3, PassFeats
    <3> QED BY <1>4, <2>1, <2>2, <3>1
  <2>4. job'.at = "commit" /\ job'.req = job.req /\ job'.exact = job.exact /\ job'.committed = job.committed
    BY <1>2, <1>4 DEF IsJob
  <2>5. /\ FeatSize' /\ (Captures' <=> Captures) /\ (Mirrored' <=> Mirrored) /\ Sure' = Sure
        /\ Prompt' = Prompt /\ (Is("gemma4")' <=> Is("gemma4"))
    BY <1>1, <2>3, <2>4, SameSeen DEF FeatInv
  <2>6. SnapFeats' BY <1>1, <2>5, SameSnapFeats DEF FeatInv
  <2>7. SoFar' = SoFar BY <1>4, <2>5 DEF SoFar
  <2>8. ASSUME Sure, Mirrored
        PROVE  MirrorHas(mirror', SoFar) /\ FeatBlock(cache'.feat, job.committed, QLen)
    <3>1. MirrorHas(mirror, SoFar) BY <1>1, <2>8 DEF FeatInv, DraftSeen
    <3>2. Len(cache.feat) = FeatCap BY <1>1, <2>8, Gemma4Size
    <3>3. QLen \in Nat /\ QLen <= FeatCap BY SizesSmall
    <3>4. FeatBlock(WriteFeatures(cache.feat, job.committed, QLen), job.committed, QLen)
      BY <1>2, <3>2, <3>3, FeaturesWritten
    <3> QED BY <1>1, <2>3, <3>1, <3>4
  <2>9. CommitSeen' BY <2>4, <2>5, <2>7, <2>8 DEF CommitSeen
  <2> QED BY <2>4, <2>5, <2>6, <2>9 DEF FeatInv, PrefillSeen, DraftSeen
<1>5. CASE Return(FALSE) /\ (cache' = cache \/ cache' = FailedPass(cache, job.committed))
  <2>1. FeatLike(cache.feat, cache'.feat)
    <3>1. FeatLike(cache.feat, FailedPass(cache, job.committed).feat) BY <1>2, <1>3, PassFeats
    <3> QED BY <1>5, <3>1 DEF FeatLike
  <2>2. job'.at = "returned" BY <1>2, <1>5, ReturnedAt DEF Return
  <2> QED BY <1>1, <2>1, <2>2, Gemma4Ends
<1> QED BY <1>4, <1>5 DEF Gemma4Draft

LEMMA Gemma4CommitSeen ==
  ASSUME SizesFit, Inv, AnswerInv, AnswerInv', FeatInv, Gemma4Commit PROVE FeatInv'
<1> DEFINE a == AcceptN(job.draft, job.target)
           n == CommitN(a, job.req.n_gen - job.n)
           bonus == n > a
           k == job.committed
<1>1. /\ Is("gemma4") /\ job.at = "commit" /\ UNCHANGED <<config, snaps, named, parked>>
  BY DEF Gemma4Commit, KeepSnaps
<1>2. WorkInv BY DEF AnswerInv
<1>3. /\ IsJob(job) /\ IsCache(cache) /\ k \in Nat /\ job.n \in Nat /\ job.req.n_gen \in Nat
      /\ SoFar \in Seq(Tokens)
      /\ Sure => k = Len(SoFar)
  BY <1>1, <1>2, TurnFacts
<1>4. cache.feat = <<>> \/ Len(cache.feat) = FeatCap BY <1>1, Gemma4Size
<1>5. PICK w : w = CommitTokens(job.draft, job.target, a, n) OBVIOUS
<1>6. /\ w \in Seq(Tokens) /\ w # <<>> /\ Len(w) = n /\ n \in 1..QLen /\ a \in 1..QLen
      /\ Len(w) <= job.req.n_gen - job.n /\ QLen \in Nat /\ QLen <= FeatCap
  BY <1>1, <1>5, KeptFacts, SizesSmall
<1>7. /\ bonus => n = a + 1
      /\ ~bonus => n = job.req.n_gen - job.n \/ (n = QLen /\ w = job.draft)
  BY <1>1, <1>5, KeptForm
<1>8. job.target \in [1..QLen -> Tokens] BY <1>1 DEF Inv, JobOK
<1> DEFINE b == k + a
           p == <<Last(w)>>
<1>9. b \in Nat /\ p \in Seq(Tokens) /\ Len(p) = 1
  <2>1. p \in Seq(Tokens) /\ Len(p) = 1 BY <1>6, LastOfPrompt
  <2>2. b \in Nat
    <3> HIDE DEF a, k
    <3> QED BY <1>3, <1>6
  <2> HIDE DEF p, a, b
  <2> QED BY <2>1, <2>2
<1>10. PICK g : g = IF bonus THEN gemma4_verify_batch(cache, p, b) ELSE [cache |-> cache, out |-> <<>>]
  OBVIOUS
<1> HIDE DEF a, n, p
<1>11. IsCache(g.cache) /\ FeatLike(cache.feat, g.cache.feat)
       /\ FeatLike(cache.feat, FailedPass(cache, b).feat)
       /\ (bonus => g.cache.feat = WriteFeatures(cache.feat, b, 1))
       /\ (~bonus => g.cache = cache)
  <2> HIDE DEF b
  <2>1. FeatLike(cache.feat, FailedPass(cache, b).feat) /\ FeatLike(cache.feat, cache.feat)
    BY <1>3, <1>4, PassFeats DEF FeatLike
  <2>2. CASE bonus
    <3>1. g = gemma4_step(cache, p, b) BY <1>3, <1>9, <1>10, <2>2, Gemma4Pass
    <3>2. IsCache(g.cache) BY <1>3, <1>9, <3>1, Gemma4Pass
    <3>3. /\ gemma4_step(cache, p, b).cache.feat = WriteFeatures(cache.feat, b, Len(p))
          /\ FeatLike(cache.feat, WriteFeatures(cache.feat, b, Len(p)))
      BY <1>3, <1>4, PassFeats
    <3> QED BY <1>9, <2>1, <2>2, <3>1, <3>2, <3>3
  <2>3. CASE ~bonus BY <1>3, <1>10, <2>1, <2>3
  <2> QED BY <2>2, <2>3
<1>12. ASSUME NEW t \in Tokens, NEW e \in EmitBatch(w),
              cache' = [g.cache EXCEPT !.cur_pos = k + e.offered],
              mirror' = IF HasFeat THEN sync_range(mirror, g.cache, k, n) ELSE mirror, EndTurn(e, t)
       PROVE  FeatInv'
  <2>1. cache'.feat = g.cache.feat /\ cache'.kv = g.cache.kv BY <1>11, <1>12 DEF IsCache
  <2>2. FeatSize' /\ (Captures' <=> Captures) BY <1>1, <1>11, <2>1, KeptFeats DEF FeatInv
  <2>3. SnapFeats' BY <1>1, <2>2, SameSnapFeats DEF FeatInv
  <2>4. CASE job'.at = "returned" BY <2>2, <2>3, <2>4, FeatEnds
  <2>5. CASE /\ job'.at = "draft" /\ ~Stops(e) /\ job'.req = job.req /\ job'.exact = job.exact
             /\ SoFar' = SoFar \o w
    <3>1. (Mirrored' <=> Mirrored) /\ Sure' = Sure
      BY <1>1, <1>11, <2>1, <2>5, SameSeen DEF FeatInv
    <3>2. ASSUME Sure, Mirrored PROVE MirrorHas(mirror', SoFar \o w)
      <4>1. MirrorHas(mirror, SoFar) /\ FeatBlock(cache.feat, k, QLen)
        BY <1>1, <3>2 DEF FeatInv, CommitSeen
      <4>2. k = Len(SoFar) /\ HasFeat /\ Len(cache.feat) = FeatCap BY <1>1, <1>3, <3>2, Gemma4Size
      <4>3. g.cache.kv = SoFar \o w
        <5>1. Sure' BY <3>1, <3>2
        <5>2. cache'.kv = SoFar' BY <2>5, <5>1 DEF AnswerInv, WorkInv, DraftRight
        <5> QED BY <2>1, <2>5, <5>2
      <4>4. FeatBlock(g.cache.feat, k, n)
        <5>1. CASE bonus
          <6>1. g.cache.feat = WriteFeatures(cache.feat, k + a, 1) /\ n = a + 1 BY <1>7, <1>11, <5>1
          <6>2. a \in Nat /\ a + 1 <= QLen BY <1>6, <6>1
          <6> HIDE DEF k
          <6>3. FeatBlock(WriteFeatures(cache.feat, k + a, 1), k, a + 1)
            BY <1>3, <1>6, <4>1, <4>2, <6>2, BonusBlock
          <6> QED BY <6>1, <6>3
        <5>2. CASE ~bonus
          <6>1. ~(job.n + Len(w) >= job.req.n_gen) BY <1>6, <1>12, <2>5, GoesOn
          <6>2. n # job.req.n_gen - job.n BY <1>3, <1>6, <6>1
          <6>3. n = QLen /\ g.cache = cache BY <1>7, <1>11, <5>2, <6>2
          <6> QED BY <4>1, <6>3
        <5> QED BY <5>1, <5>2
      <4>5. MirrorHas(sync_range(mirror, g.cache, Len(SoFar), Len(w)), SoFar \o w)
        <5>1. Len(w) <= QLen /\ FeatBlock(g.cache.feat, Len(SoFar), Len(w)) BY <1>6, <4>2, <4>4
        <5> QED BY <1>3, <1>6, <1>11, <4>1, <4>3, <5>1, TurnMirrored
      <4> QED BY <1>6, <1>12, <4>2, <4>5
    <3>3. DraftSeen' BY <2>5, <3>1, <3>2 DEF DraftSeen
    <3> QED BY <2>2, <2>3, <2>5, <3>3 DEF FeatInv, PrefillSeen, CommitSeen
  <2> QED BY <1>1, <1>2, <1>6, <1>12, <2>4, <2>5, TurnGoesOn
<1>13. CASE cache' = [FailedPass(cache, b) EXCEPT !.cur_pos = b] /\ Return(FALSE)
  <2>1. job'.at = "returned" BY <1>3, <1>13, ReturnedAt DEF Return
  <2>2. PICK c : c = FailedPass(cache, b) OBVIOUS
  <2>3. IsCache(c) BY <1>3, <1>9, <2>2, FailedType
  <2>4. cache' = [c EXCEPT !.cur_pos = b] BY <1>13, <2>2
  <2>5. cache'.feat = c.feat BY <2>3, <2>4 DEF IsCache
  <2>6. FeatLike(cache.feat, cache'.feat) BY <1>11, <2>2, <2>5
  <2> QED BY <1>1, <2>1, <2>6, Gemma4Ends
<1> QED
  <2>1. \/ \E t \in IF bonus THEN Pick(g.out[1]) ELSE {Last(job.target)}, e \in EmitBatch(w) :
             /\ cache' = [g.cache EXCEPT !.cur_pos = k + e.offered]
             /\ mirror' = IF HasFeat THEN sync_range(mirror, g.cache, k, n) ELSE mirror
             /\ EndTurn(e, t)
        \/ cache' = [FailedPass(cache, b) EXCEPT !.cur_pos = b] /\ Return(FALSE)
    BY <1>5, <1>10 DEF Gemma4Commit, a, n, p
  <2>2. (IF bonus THEN Pick(g.out[1]) ELSE {Last(job.target)}) \subseteq Tokens
    <3>1. CASE bonus
      <4> HIDE DEF b
      <4>1. g = gemma4_step(cache, p, b) BY <1>3, <1>9, <1>10, <3>1, Gemma4Pass
      <4>2. Pick(g.out[1]) \subseteq Tokens BY <1>3, <1>9, <4>1, Gemma4One
      <4> QED BY <3>1, <4>2
    <3>2. CASE ~bonus
      <4>1. Len(job.target) = QLen /\ QLen \in 1..QLen /\ job.target[QLen] \in Tokens
        BY <1>8, BlockSize
      <4> QED BY <3>2, <4>1 DEF Last
    <3> QED BY <3>1, <3>2
  <2> HIDE DEF bonus
  <2> QED BY <1>12, <1>13, <2>1, <2>2

-----------------------------------------------------------------------------
(* So do generate and restore *)

\* A request begins its prefill.
LEMMA OpensSeen ==
  ASSUME FeatSize', SnapFeats', job'.at = "prefill",
         ASSUME job'.exact, InWindow', Mirrored'
         PROVE  /\ job'.req.slot = NoSlot => MirrorHas(mirror', SubSeq(job'.req.prompt, 1, job'.committed))
                /\ Is("gemma4")' => /\ Len(job'.req.prompt) <= FeatCap
                                    /\ FeatHas(cache'.feat, job'.committed)
  PROVE  FeatInv'
<1>1. PrefillSeen' BY DEF PrefillSeen, Prompt
<1>2. DraftSeen' /\ CommitSeen' BY DEF DraftSeen, CommitSeen
<1> QED BY <1>1, <1>2 DEF FeatInv

LEMMA GenerateSeen ==
  ASSUME Inv, FeatInv, NEW req, IsRequest(req), req.slot = NoSlot,
         Len(req.prompt) <= Window => Len(req.prompt) <= FeatCap,
         generate(req), UNCHANGED config
  PROVE  FeatInv'
<1>1. IsCache(cache) BY DEF Inv, CacheOK
<1>2. config.kind \in {"qwen35", "gemma4", "laguna", "qwen3"} BY KindsAssumption DEF Inv, ProcessOK
<1> DEFINE sn == req.snap_slot # NoSlot
           none == [Idle EXCEPT !.at = "returned", !.req = req, !.ok = FALSE]
<1>3. none.at = "returned" BY NoJob
<1>4. Opens(Fresh(req, sn), req, 0, sn) BY FreshFacts
<1>5. req.prompt \in Seq(Tokens) BY DEF IsRequest
<1>6. \A m, f : MirrorHas(m, SubSeq(req.prompt, 1, 0)) /\ FeatHas(f, 0) BY <1>5, NothingMirrored
<1>7. CASE Is("qwen35")
  <2>1. /\ cache' = [cache EXCEPT !.ssm = <<>>] /\ job' = Fresh(req, sn)
        /\ UNCHANGED <<snaps, named>>
    BY <1>7 DEF generate, Qwen35Generate, Fresh, Is
  <2> HIDE DEF sn
  <2>2. cache'.feat = cache.feat BY <1>1, <2>1 DEF IsCache
  <2>3. FeatLike(cache.feat, cache'.feat) BY <2>2 DEF FeatLike
  <2>4. FeatSize' /\ SnapFeats' BY <1>7, <2>3, Qwen35Feats DEF FeatInv
  <2>5. job'.at = "prefill" /\ job'.req = req /\ job'.committed = 0 BY <1>4, <2>1 DEF Opens
  <2>6. ~Is("gemma4")' BY <1>7 DEF Is
  <2> QED BY <1>6, <2>4, <2>5, <2>6, OpensSeen
<1>8. CASE Is("gemma4")
  <2>1. UNCHANGED <<snaps, named>> BY <1>8 DEF generate, Gemma4Generate, Is
  <2>2. \/ cache' = cache /\ job' = none
        \/ cache' = [cache EXCEPT !.cur_pos = 0] /\ job' = Fresh(req, sn)
    BY <1>8 DEF generate, Gemma4Generate, Fresh, Is
  <2> HIDE DEF sn, none
  <2>3. cache'.feat = cache.feat BY <1>1, <2>2 DEF IsCache
  <2>4. FeatLike(cache.feat, cache'.feat) BY <2>3 DEF FeatLike
  <2>5. CASE job' = none
    <3>1. job'.at \in {"returned", "ar"} BY <1>3, <2>5
    <3> QED BY <2>1, <2>4, <3>1, Gemma4Ends
  <2>6. CASE job' = Fresh(req, sn)
    <3>1. FeatSize' /\ (Captures' <=> Captures) BY <2>4, KeptFeats DEF FeatInv
    <3>2. SnapFeats' BY <2>1, <3>1, SameSnapFeats DEF FeatInv
    <3>3. job'.at = "prefill" /\ job'.req = req /\ job'.committed = 0 BY <1>4, <2>6 DEF Opens
    <3>4. ASSUME InWindow' PROVE Len(req.prompt) <= FeatCap
      <4>1. Is("gemma4")' BY <1>8 DEF Is
      <4> QED BY <3>3, <3>4, <4>1 DEF InWindow
    <3> QED BY <1>6, <3>1, <3>2, <3>3, <3>4, OpensSeen
  <2> QED BY <2>2, <2>5, <2>6
<1>9. CASE ~Is("qwen35") /\ ~Is("gemma4") BY <1>9, OtherKinds
<1> QED BY <1>7, <1>8, <1>9

LEMMA Qwen35RestoreSeen ==
  ASSUME Inv, FeatInv, NEW req, IsRequest(req), Is("qwen35"), req.slot \in Slots, NEW x \in BOOLEAN,
         Qwen35Restore(req, x), UNCHANGED config
  PROVE  FeatInv'
<1>1. PICK s : s = snaps[req.slot] OBVIOUS
<1>2. IsSnap(s) /\ s.cur_pos \in Nat BY <1>1 DEF Inv, SnapsOK, Sound, IsSnap
<1> DEFINE sn == req.snap_slot # NoSlot /\ Len(req.prompt) > s.cur_pos
<1>3. PICK r : r = restore_target_cache(s, cache) OBVIOUS
<1>4. PICK c : c = [r EXCEPT !.cur_pos = s.cur_pos] OBVIOUS
<1>5. PICK i : i = Begun(req, s.cur_pos, x, sn) OBVIOUS
<1>6. /\ \/ cache' = cache
         \/ cache' = c
      /\ \/ job' = [i EXCEPT !.at = "returned", !.ok = FALSE]
         \/ job' = i
  BY <1>1, <1>3, <1>4, <1>5 DEF Qwen35Restore, Begun
<1>7. IsJob(i) /\ i.req = req
  <2>1. PICK b \in BOOLEAN : b = sn OBVIOUS
  <2>2. i = Begun(req, s.cur_pos, x, b) BY <1>5, <2>1
  <2> QED BY <1>2, <2>2, BegunExact
<1> HIDE DEF sn
<1>8. job'.req = req BY <1>6, <1>7 DEF IsJob
<1>9. IsCache(cache) /\ Len(cache.feat) = FeatCap BY DEF Inv, CacheOK, FeatInv, FeatSize
<1>10. FeatLike(cache.feat, c.feat)
  <2>1. CASE s.thin
    <3>1. r = cache BY <1>3, <2>1 DEF restore_target_cache
    <3>2. c.feat = cache.feat BY <1>4, <1>9, <3>1 DEF IsCache
    <3> QED BY <3>2 DEF FeatLike
  <2>2. CASE ~s.thin
    <3>1. PICK kv, ssm, feat, pos, last :
            /\ kv = s.kv /\ ssm = s.ssm /\ pos = s.cur_pos /\ last = s.last_tok
            /\ feat = PutSlots(cache.feat, s.feat, s.cur_pos)
      OBVIOUS
    <3>2. r = [cache EXCEPT !.kv = kv, !.ssm = ssm, !.feat = feat, !.cur_pos = pos, !.last_tok = last]
      BY <1>3, <1>9, <2>2, <3>1 DEF restore_target_cache, IsCache
    <3>3. c = [[cache EXCEPT !.kv = kv, !.ssm = ssm, !.feat = feat, !.cur_pos = pos, !.last_tok = last]
                  EXCEPT !.cur_pos = pos]
      BY <1>4, <3>1, <3>2
    <3>4. c.feat = feat BY <1>9, <3>3 DEF IsCache
    <3> QED BY <1>9, <3>1, <3>4, FeatStays
  <2> QED BY <2>1, <2>2
<1>11. FeatLike(cache.feat, cache'.feat) BY <1>6, <1>10 DEF FeatLike
<1>12. FeatSize' /\ SnapFeats' /\ ~Mirrored'
  <2>1. req.slot # NoSlot BY SlotsAssumption
  <2> QED BY <1>8, <1>11, <2>1, Qwen35Feats DEF FeatInv
<1> QED BY <1>12 DEF FeatInv, PrefillSeen, DraftSeen, CommitSeen

LEMMA Gemma4RestoreSeen ==
  ASSUME Inv, AnswerInv, FeatInv, NEW req, IsRequest(req), Is("gemma4"), req.slot \in Slots,
         Len(req.prompt) <= Window => Len(req.prompt) <= FeatCap,
         Gemma4RestoreAndGenerate(req, Matches(req)), UNCHANGED config
  PROVE  FeatInv'
<1>1. PICK s : s = snaps[req.slot] OBVIOUS
<1>2. IsSnap(s) /\ s.cur_pos \in Nat BY <1>1 DEF Inv, SnapsOK, Sound, IsSnap
<1>3. PICK x \in BOOLEAN : x = Matches(req)
  <2>1. Matches(req) \in BOOLEAN BY DEF Matches
  <2> QED BY <2>1
<1> DEFINE sn == req.snap_slot # NoSlot
<1>4. PICK c : c = Gemma4Restore(s, cache) OBVIOUS
<1>5. PICK i : i = Begun(req, s.cur_pos, x, sn) OBVIOUS
<1>6. /\ UNCHANGED <<snaps, named>>
      /\ \/ cache' \in {cache, c} /\ job' = [i EXCEPT !.at = "returned", !.ok = FALSE]
         \/ cache' = c /\ job' = i
  BY <1>1, <1>3, <1>4, <1>5 DEF Gemma4RestoreAndGenerate, Begun
<1>7. IsJob(i) /\ i.at = "prefill" /\ i.req = req /\ i.committed = s.cur_pos /\ i.exact = x
  <2>1. PICK b \in BOOLEAN : b = sn OBVIOUS
  <2>2. i = Begun(req, s.cur_pos, x, b) BY <1>5, <2>1
  <2> QED BY <1>2, <1>3, <2>2, BegunExact
<1> HIDE DEF sn
<1>8. IsCache(cache) /\ (cache.feat = <<>> \/ Len(cache.feat) = FeatCap)
  BY Gemma4Size DEF Inv, CacheOK
<1>9. c.feat = IF s.feat = <<>> THEN cache.feat ELSE PutSlots(cache.feat, s.feat, s.cur_pos)
  <2>1. PICK kv, ring, feat, pos, last :
          /\ kv = s.kv /\ ring = PutSlots(cache.ring, s.ring, s.cur_pos) /\ pos = s.cur_pos
          /\ last = s.last_tok
          /\ feat = IF s.feat = <<>> THEN cache.feat ELSE PutSlots(cache.feat, s.feat, s.cur_pos)
    OBVIOUS
  <2>2. c = [cache EXCEPT !.kv = kv, !.ring = ring, !.feat = feat, !.cur_pos = pos, !.last_tok = last]
    BY <1>4, <1>8, <2>1 DEF Gemma4Restore, IsCache
  <2>3. c.feat = feat BY <1>8, <2>2 DEF IsCache
  <2> QED BY <2>1, <2>3
<1>10. FeatLike(cache.feat, c.feat)
  <2>1. FeatLike(cache.feat, cache.feat) BY DEF FeatLike
  <2>2. FeatLike(cache.feat, PutSlots(cache.feat, s.feat, s.cur_pos)) BY <1>8, FeatStays
  <2> QED BY <1>9, <2>1, <2>2
<1>11. FeatLike(cache.feat, cache'.feat)
  <2>1. FeatLike(cache.feat, cache.feat) BY DEF FeatLike
  <2> QED BY <1>6, <1>10, <2>1
<1>12. CASE job' = [i EXCEPT !.at = "returned", !.ok = FALSE]
  <2>1. job'.at \in {"returned", "ar"} BY <1>7, <1>12 DEF IsJob
  <2> QED BY <1>6, <1>11, <2>1, Gemma4Ends
<1>13. CASE cache' = c /\ job' = i
  <2>1. FeatSize' /\ (Captures' <=> Captures) BY <1>11, KeptFeats DEF FeatInv
  <2>2. SnapFeats' BY <1>6, <2>1, SameSnapFeats DEF FeatInv
  <2>3. /\ job'.at = "prefill" /\ job'.req = req /\ job'.committed = s.cur_pos /\ job'.exact = x
        /\ req.slot # NoSlot /\ Is("gemma4")'
    BY <1>7, <1>13, SlotsAssumption DEF Is
  <2>4. ASSUME job'.exact, InWindow', Mirrored'
        PROVE  Len(req.prompt) <= FeatCap /\ FeatHas(cache'.feat, s.cur_pos)
    <3>1. Len(req.prompt) <= FeatCap BY <2>3, <2>4 DEF InWindow
    <3>2. Captures /\ HasFeat BY <2>1, <2>3, <2>4 DEF Mirrored, Captures, Is
    <3>3. PICK p : p = named[req.slot] OBVIOUS
    <3>4. p # <<>> /\ s.cur_pos = Len(p)
      <4>1. Matches(req) BY <1>3, <2>3, <2>4
      <4> QED BY <1>1, <3>3, <4>1, MatchFacts DEF AnswerInv
    <3>5. SlotFeats(s, p) BY <1>1, <3>2, <3>3, <3>4 DEF FeatInv, SnapFeats
    <3>6. s.feat # <<>>
      <4>1. FeatCap # 0 /\ Len(<<>>) = 0 BY SizesAreNat
      <4> QED BY <3>5, <4>1 DEF SlotFeats
    <3>7. cache'.feat = PutSlots(cache.feat, s.feat, s.cur_pos) BY <1>9, <1>13, <3>6
    <3>8. Len(cache.feat) = FeatCap BY <3>2, Gemma4Size
    <3>9. PICK n : n = s.cur_pos OBVIOUS
    <3>10. n \in Nat /\ n <= FeatCap /\ FirstPositions(s.feat, n) BY <1>2, <3>4, <3>5, <3>9 DEF SlotFeats
    <3>11. FeatHas(PutSlots(cache.feat, s.feat, n), n) BY <3>8, <3>10, FeatBack
    <3> QED BY <3>1, <3>7, <3>9, <3>11
  <2> QED BY <2>1, <2>2, <2>3, <2>4, OpensSeen
<1> QED BY <1>6, <1>12, <1>13

-----------------------------------------------------------------------------
(* ... and every step *)

LEMMA AnsweredAt ==
  ASSUME NEW via, NEW ok, job' = Answered(via, ok) PROVE job'.at = "answered"
<1>1. job' = [Idle EXCEPT !.at = "answered", !.req.via = via, !.ok = ok] BY DEF Answered
<1> QED BY <1>1 DEF Idle

\* A command that is answered at once and leaves the cache and the snapshots.
LEMMA AnsweredSeen ==
  ASSUME FeatInv, UNCHANGED <<config, cache, snaps, named>>,
         job'.at \notin {"prefill", "draft", "commit"}
  PROVE  FeatInv'
<1>1. FeatLike(cache.feat, cache'.feat) BY DEF FeatLike
<1>2. FeatSize' /\ (Captures' <=> Captures) BY <1>1, KeptFeats DEF FeatInv
<1>3. SnapFeats' BY <1>2, SameSnapFeats DEF FeatInv
<1> QED BY <1>2, <1>3, FeatEnds

LEMMA CommandSeen == ASSUME SizesFit, Inv, AnswerInv, FeatInv, Command PROVE FeatInv'
<1>1. UNCHANGED config BY CommandCases
<1>2. ASSUME NEW via, job' = Answered(via, FALSE), UNCHANGED <<cache, snaps, named>> PROVE FeatInv'
  <2>1. job'.at = "answered" BY <1>2, AnsweredAt
  <2> QED BY <1>1, <1>2, <2>1, AnsweredSeen
<1>3. ASSUME NEW req, NEW r \in Requests, req.prompt = r.prompt
      PROVE  Len(req.prompt) <= Window => Len(req.prompt) <= FeatCap
  BY <1>3 DEF SizesFit
<1>4. ASSUME NEW req, IsRequest(req), restore_and_generate(req), req.slot \in Slots,
             Len(req.prompt) <= Window => Len(req.prompt) <= FeatCap
      PROVE  FeatInv'
  <2>1. CASE Is("qwen35")
    <3>1. Qwen35Restore(req, Matches(req)) BY <1>4, <2>1 DEF restore_and_generate, Is
    <3>2. PICK x \in BOOLEAN : x = Matches(req)
      <4>1. Matches(req) \in BOOLEAN BY DEF Matches
      <4> QED BY <4>1
    <3>3. Qwen35Restore(req, x) BY <3>1, <3>2
    <3> QED BY <1>1, <1>4, <2>1, <3>3, Qwen35RestoreSeen
  <2>2. CASE Is("gemma4")
    <3>1. Gemma4RestoreAndGenerate(req, Matches(req)) BY <1>4, <2>2 DEF restore_and_generate, Is
    <3> QED BY <1>1, <1>4, <2>2, <3>1, Gemma4RestoreSeen
  <2>3. CASE ~Is("qwen35") /\ ~Is("gemma4") BY <1>1, <2>3, OtherKinds
  <2> QED BY <2>1, <2>2, <2>3
<1>5. ASSUME NEW req, IsRequest(req), generate(req), req.slot = NoSlot,
             Len(req.prompt) <= Window => Len(req.prompt) <= FeatCap
      PROVE  FeatInv'
  BY <1>1, <1>5, GenerateSeen
<1> QED BY <1>2, <1>3, <1>4, <1>5, CommandCases

\* Parking loses the gemma4 cache with its features and the snapshots.
LEMMA AfterParkSeen ==
  ASSUME FeatInv, NEW p, AfterPark(p), config' = config,
         job'.at \notin {"prefill", "draft", "commit"}
  PROVE  FeatInv'
<1>1. CASE Is("gemma4") /\ "target" \in p \ parked
  <2>1. cache' = Gemma4Cache(FALSE) /\ named' = [s \in Slots |-> <<>>] BY <1>1 DEF AfterPark
  <2>2. SnapFeats' BY <2>1 DEF SnapFeats
  <2>3. cache'.feat = <<>> BY <2>1 DEF Gemma4Cache
  <2>4. FeatSize' BY <1>1, <2>3 DEF FeatSize, Is
  <2> QED BY <2>2, <2>4, FeatEnds
<1>2. CASE Is("laguna")
  <2>1. ~Is("qwen35") /\ ~Is("gemma4") BY <1>2 DEF Is
  <2> QED BY <2>1, OtherKinds
<1>3. CASE ~(Is("gemma4") /\ "target" \in p \ parked) /\ ~Is("laguna")
  <2>1. UNCHANGED <<cache, snaps, named>> BY <1>3 DEF AfterPark, KeepSnaps
  <2> QED BY <2>1, AnsweredSeen
<1> QED BY <1>1, <1>2, <1>3

LEMMA ParkSeen == ASSUME FeatInv, NEW what, Park(what) PROVE FeatInv'
<1>1. /\ AfterPark(parked') /\ job' = Answered("park", TRUE) /\ config' = config BY DEF Park
<1>2. job'.at = "answered" BY <1>1, AnsweredAt
<1>3. PICK p : p = parked' OBVIOUS
<1>4. AfterPark(p) BY <1>1, <1>3
<1> QED BY <1>1, <1>2, <1>4, AfterParkSeen

LEMMA UnparkSeen == ASSUME FeatInv, NEW what, Unpark(what) PROVE FeatInv'
<1>1. PICK r \in unpark(parked, what) : job' = Answered("unpark", r.ok) BY DEF Unpark
<1>2. UNCHANGED <<config, cache, snaps, named>> BY DEF Unpark
<1>3. job'.at = "answered" BY <1>1, AnsweredAt
<1> QED BY <1>2, <1>3, AnsweredSeen

LEMMA FreeDrafterSeen == ASSUME FeatInv, FreeDrafter PROVE FeatInv'
<1>1. job' = Answered("free_drafter", TRUE) /\ UNCHANGED <<config, cache, snaps, named>>
  BY DEF FreeDrafter
<1>2. job'.at = "answered" BY <1>1, AnsweredAt
<1> QED BY <1>1, <1>2, AnsweredSeen

LEMMA CompressSeen == ASSUME FeatInv, NEW nopark, Compress(nopark) PROVE FeatInv'
<1>1. PICK ok : job' = Answered("compress", ok) BY DEF Compress
<1>2. /\ AfterPark(IF nopark /\ ~Is("laguna") THEN parked ELSE {"target"} \cup parked)
      /\ config' = config
  BY DEF Compress
<1>3. PICK p : p = IF nopark /\ ~Is("laguna") THEN parked ELSE {"target"} \cup parked OBVIOUS
<1>4. AfterPark(p) BY <1>2, <1>3
<1>5. job'.at = "answered" BY <1>1, AnsweredAt
<1> QED BY <1>2, <1>4, <1>5, AfterParkSeen

\* A slot is saved to or freed: it keeps its name with its snapshot, or loses it.
LEMMA SlotSeen ==
  ASSUME Inv, FeatInv, NEW slot \in Slots, NEW s, NEW x, UNCHANGED <<config, cache>>,
         snaps' = [snaps EXCEPT ![slot] = s], named' = [named EXCEPT ![slot] = x],
         x # <<>> => s = snaps[slot] /\ x = named[slot],
         job'.at \notin {"prefill", "draft", "commit"}
  PROVE  FeatInv'
<1>1. FeatLike(cache.feat, cache'.feat) BY DEF FeatLike
<1>2. FeatSize' /\ (Captures' <=> Captures) BY <1>1, KeptFeats DEF FeatInv
<1>3. Captures /\ x # <<>> => SlotFeats(s, x) BY DEF FeatInv, SnapFeats
<1>4. SnapFeats' BY <1>2, <1>3, OneSlotFeats DEF FeatInv, Inv
<1> QED BY <1>2, <1>4, FeatEnds

LEMMA SnapshotSeen == ASSUME Inv, FeatInv, NEW slot \in Slots, SnapshotCmd(slot) PROVE FeatInv'
<1>1. PICK s \in Save(slot) :
        /\ snaps' = [snaps EXCEPT ![slot] = s]
        /\ named' = [named EXCEPT ![slot] = IF s = snaps[slot] THEN @ ELSE <<>>]
  BY DEF SnapshotCmd
<1>2. job' = Answered("snapshot", TRUE) /\ UNCHANGED <<config, cache>> BY DEF SnapshotCmd
<1>3. PICK x : x = IF s = snaps[slot] THEN named[slot] ELSE <<>> OBVIOUS
<1>4. named' = [named EXCEPT ![slot] = x] BY <1>1, <1>3
<1>5. job'.at = "answered" BY <1>2, AnsweredAt
<1>6. x # <<>> => s = snaps[slot] /\ x = named[slot] BY <1>3
<1> QED BY <1>1, <1>2, <1>4, <1>5, <1>6, SlotSeen

LEMMA FreeSnapshotSeen == ASSUME Inv, FeatInv, NEW slot \in Slots, FreeSnapshot(slot) PROVE FeatInv'
<1>1. /\ snaps' = [snaps EXCEPT ![slot] = NoSnap] /\ named' = [named EXCEPT ![slot] = <<>>]
      /\ job' = Answered("free_snapshot", TRUE) /\ UNCHANGED <<config, cache>>
  BY DEF FreeSnapshot
<1>2. PICK s, x : s = NoSnap /\ x = <<>> OBVIOUS
<1>3. snaps' = [snaps EXCEPT ![slot] = s] /\ named' = [named EXCEPT ![slot] = x] BY <1>1, <1>2
<1>4. job'.at = "answered" BY <1>1, AnsweredAt
<1> QED BY <1>1, <1>2, <1>3, <1>4, SlotSeen

LEMMA SnapshotThinSeen == ASSUME Inv, FeatInv, NEW slot \in Slots, SnapshotThin(slot) PROVE FeatInv'
<1>1. PICK s : snaps' = [snaps EXCEPT ![slot] = s] BY DEF SnapshotThin
<1>2. /\ named' = [named EXCEPT ![slot] = <<>>] /\ job' = Answered("snapshot_thin", TRUE)
      /\ UNCHANGED <<config, cache>>
  BY DEF SnapshotThin
<1>3. PICK x : x = <<>> OBVIOUS
<1>4. named' = [named EXCEPT ![slot] = x] BY <1>2, <1>3
<1>5. job'.at = "answered" BY <1>2, AnsweredAt
<1> QED BY <1>1, <1>2, <1>3, <1>4, <1>5, SlotSeen

LEMMA LinesSeen == ASSUME Inv, FeatInv, Lines PROVE FeatInv'
<1>1. CASE \E what \in {"", "target", "draft"} : Park(what) \/ Unpark(what)
  BY <1>1, ParkSeen, UnparkSeen
<1>2. CASE FreeDrafter BY <1>2, FreeDrafterSeen
<1>3. CASE \E nopark \in BOOLEAN : Compress(nopark) BY <1>3, CompressSeen
<1>4. CASE \E slot \in Slots : SnapshotCmd(slot) \/ FreeSnapshot(slot) \/ SnapshotThin(slot)
  BY <1>4, SnapshotSeen, FreeSnapshotSeen, SnapshotThinSeen
<1> QED BY <1>1, <1>2, <1>3, <1>4 DEF Lines

LEMMA ReplySeen == ASSUME Inv, FeatInv, Reply PROVE FeatInv'
<1>1. /\ job.at = "returned" /\ job' = [job EXCEPT !.at = "answered"]
      /\ UNCHANGED <<config, cache, snaps, named>>
  BY DEF Reply
<1>2. job'.at = "answered" BY <1>1 DEF Inv, JobOK, IsJob
<1> QED BY <1>1, <1>2, AnsweredSeen

LEMMA ContinueSeen == ASSUME FeatInv, Continue PROVE FeatInv'
<1>1. job' = Idle /\ UNCHANGED <<config, cache, snaps, named>> BY DEF Continue
<1>2. job'.at = "idle" BY <1>1 DEF Idle
<1> QED BY <1>1, <1>2, AnsweredSeen

LEMMA StutterSeen == ASSUME FeatInv, UNCHANGED vars PROVE FeatInv'
<1>1. /\ config' = config /\ cache' = cache /\ snaps' = snaps /\ named' = named /\ mirror' = mirror
      /\ parked' = parked /\ job' = job /\ stream' = stream
  BY DEF vars
<1>2. FeatLike(cache.feat, cache'.feat) BY <1>1 DEF FeatLike
<1>3. /\ FeatSize' /\ (Captures' <=> Captures) /\ (Mirrored' <=> Mirrored)
      /\ Sure' = Sure /\ CanSpec' = CanSpec /\ Prompt' = Prompt /\ InWindow' = InWindow
      /\ (Is("gemma4")' <=> Is("gemma4"))
  BY <1>1, <1>2, SameSeen DEF FeatInv
<1>4. SnapFeats' BY <1>1, <1>3, SameSnapFeats DEF FeatInv
<1>5. SoFar' = SoFar BY <1>1, <1>3 DEF SoFar
<1>6. PrefillSeen' BY <1>1, <1>3 DEF FeatInv, PrefillSeen
<1>7. DraftSeen' BY <1>1, <1>3, <1>5 DEF FeatInv, DraftSeen
<1>8. CommitSeen' BY <1>1, <1>3, <1>5 DEF FeatInv, CommitSeen
<1> QED BY <1>3, <1>4, <1>6, <1>7, <1>8 DEF FeatInv

LEMMA WorkSeen == ASSUME SizesFit, Inv, AnswerInv, AnswerInv', FeatInv, Work PROVE FeatInv'
<1>1. CASE Qwen35Next
  BY ZenonT(40), <1>1, Qwen35InlineSnapSeen, Qwen35PrefillSeen, Qwen35StartSeen, Qwen35ArSeen,
     Qwen35DraftSeen, Qwen35CommitSeen DEF Qwen35Next
<1>2. CASE Gemma4Next
  BY ZenonT(40), <1>2, Gemma4PrefillSeen, Gemma4StartSeen, Gemma4ArSeen, Gemma4DraftSeen,
     Gemma4CommitSeen DEF Gemma4Next
<1>3. CASE LagunaNext
  <2>1. config' = config /\ Is("laguna")
    BY <1>3 DEF LagunaNext, LagunaPrefill, LagunaStart, LagunaDecode
  <2>2. ~Is("qwen35") /\ ~Is("gemma4") BY <2>1 DEF Is
  <2> QED BY ONLY <2>1, <2>2, OtherKinds, Zenon
<1>4. CASE Qwen3Next
  <2>1. config' = config /\ Is("qwen3")
    BY <1>4 DEF Qwen3Next, Qwen3Prefill, Qwen3First, Qwen3Second, Qwen3Decode
  <2>2. ~Is("qwen35") /\ ~Is("gemma4") BY <2>1 DEF Is
  <2> QED BY ONLY <2>1, <2>2, OtherKinds, Zenon
<1>5. CASE Reply BY <1>5, ReplySeen
<1>6. CASE Continue BY <1>6, ContinueSeen
<1> QED BY <1>1, <1>2, <1>3, <1>4, <1>5, <1>6 DEF Work

\* Every step keeps the features.
LEMMA EveryStepSeen == ASSUME SizesFit, Inv, AnswerInv, FeatInv, [Next]_state PROVE FeatInv'
<1>1. CASE UNCHANGED state
  <2>1. UNCHANGED vars BY <1>1 DEF state
  <2> QED BY <2>1, StutterSeen
<1>2. CASE Quiet
  <2>1. UNCHANGED vars BY <1>2 DEF Quiet, state
  <2> QED BY <2>1, StutterSeen
<1>3. CASE Command BY <1>3, CommandSeen
<1>4. CASE Lines BY <1>4, LinesSeen
<1>5. CASE Work
  <2>1. AnswerInv' BY EveryStepRight
  <2> QED BY <1>5, <2>1, WorkSeen
<1> QED BY <1>1, <1>2, <1>3, <1>4, <1>5 DEF Next

LEMMA InitSeen == ASSUME Init PROVE FeatInv
<1>1. /\ cache = NewCache(config.kind, config.draft) /\ named = [s \in Slots |-> <<>>] /\ job = Idle
  BY DEF Init
<1>2. SnapFeats BY <1>1 DEF SnapFeats
<1>3. FeatSize
  <2>1. PICK v : v = Empty OBVIOUS
  <2>2. FeatCap \in Nat /\ v \in {v} BY SizesAreNat
  <2>3. Len(Blank(FeatCap, v)) = FeatCap BY <2>2, BlankSeq
  <2>4. ASSUME Is("qwen35") PROVE Len(cache.feat) = FeatCap
    <3>1. cache = Qwen35Cache BY <1>1, <2>4 DEF NewCache, Is
    <3>2. cache.feat = Blank(FeatCap, v) BY <2>1, <3>1 DEF Qwen35Cache
    <3> QED BY <2>3, <3>2
  <2>5. ASSUME Is("gemma4") PROVE cache.feat = <<>> \/ Len(cache.feat) = FeatCap
    <3>1. cache = Gemma4Cache(config.draft) BY <1>1, <2>5 DEF NewCache, Is
    <3>2. cache.feat = IF config.draft THEN Blank(FeatCap, v) ELSE <<>> BY <2>1, <3>1 DEF Gemma4Cache
    <3> QED BY <2>3, <3>2
  <2> QED BY <2>4, <2>5 DEF FeatSize
<1>4. job.at = "idle" BY <1>1 DEF Idle
<1> QED BY <1>2, <1>3, <1>4 DEF FeatInv, PrefillSeen, DraftSeen, CommitSeen

LEMMA FeatInvHolds == ASSUME SizesFit PROVE Spec => []FeatInv
<1>1. Init => FeatInv BY InitSeen
<1>2. Inv /\ AnswerInv /\ FeatInv /\ [Next]_state => FeatInv' BY EveryStepSeen
<1> QED BY <1>1, <1>2, InvHolds, AnswerInvHolds, PTL DEF Spec

\* The draft reads the features of the last positions committed.
LEMMA ContextSeen == ASSUME Inv, AnswerInv, FeatInv PROVE DraftSeesContext
<1> DEFINE n == Lesser(job.committed, RingCap)
           seen == DraftContext(mirror, job.committed)
           ctx == job.req.prompt \o Written
<1> SUFFICES ASSUME job.at = "draft", Sure,
                    (Is("qwen35") /\ job.req.slot = NoSlot) \/ (Is("gemma4") /\ HasFeat)
             PROVE  \A i \in DOMAIN seen : seen[i] = SubSeq(ctx, 1, Len(ctx) - Len(seen) + i)
  BY DEF DraftSeesContext, Sure
<1>1. DraftRight /\ PlaceOK BY DEF AnswerInv, WorkInv
<1>2. stream \in Seq(Tokens) BY DEF Inv, StreamOK, Going, Working
<1>3. Written = stream
  <2>1. stream = WithEnds(stream, 0) /\ 0 \in 0..2 BY <1>2, MarkedFacts
  <2> QED BY <1>2, <2>1, WrittenIs
<1>4. ctx = SoFar /\ Len(SoFar) = job.committed BY <1>1, <1>3 DEF SoFar, Prompt, DraftRight, Holds
<1>5. job.committed \in Nat /\ RingCap \in Nat \ {0} BY SizesAreNat DEF Inv, JobOK, IsJob
<1>6. Mirrored
  <2>1. CASE Is("gemma4") /\ HasFeat
    <3>1. ~Is("qwen35") BY <2>1 DEF Is
    <3>2. CanSpec BY <1>1 DEF PlaceOK
    <3>3. config.draft BY <3>1, <3>2 DEF CanSpec, Gemma4CanSpec
    <3> QED BY <2>1, <3>3 DEF Mirrored, Captures
  <2>2. CASE Is("qwen35") /\ job.req.slot = NoSlot BY <2>2 DEF Mirrored
  <2> QED BY <2>1, <2>2
<1>7. MirrorHas(mirror, SoFar) BY <1>6 DEF FeatInv, DraftSeen
<1>8. n \in Nat /\ n <= job.committed /\ n <= RingCap BY <1>5 DEF Lesser
<1> DEFINE g == [i \in 1..n |-> mirror[((job.committed - n + i - 1) % RingCap) + 1]]
<1>9. seen = g /\ Len(g) = n
  <2>1. seen = SubSeq(g, 1, n) BY DEF DraftContext, Seqn
  <2>2. g = [i \in 1..n |-> g[i]] OBVIOUS
  <2> HIDE DEF g, n, seen
  <2> QED BY <1>8, <2>1, <2>2, SeqnLen
<1>10. DOMAIN g = 1..n OBVIOUS
<1>11. ASSUME NEW i \in 1..n PROVE g[i] = SubSeq(SoFar, 1, job.committed - n + i)
  <2> DEFINE q == job.committed - n + i - 1
  <2>1. g[i] = mirror[(q % RingCap) + 1] OBVIOUS
  <2> HIDE DEF g, n
  <2>2. /\ q \in 0..(Len(SoFar) - 1) /\ Len(SoFar) - RingCap <= q
        /\ q + 1 = job.committed - n + i
    BY <1>4, <1>5, <1>8
  <2> HIDE DEF q
  <2>3. mirror[(q % RingCap) + 1] = SubSeq(SoFar, 1, q + 1) BY <1>7, <2>2 DEF MirrorHas
  <2> QED BY <2>1, <2>2, <2>3
<1> HIDE DEF g, n, seen, ctx
<1> QED BY <1>4, <1>9, <1>10, <1>11

-----------------------------------------------------------------------------
(* The results *)

(* The process state keeps its type: positions, rows within max_ctx, one   *)
(* snapshot per slot, and streams of tokens and markers.                   *)
THEOREM TypesAreKept == Spec => []TypeOK
<1>1. Inv /\ Bounds => TypeOK BY TypeKept
<1> QED BY <1>1, InvHolds, BoundsHold, PTL

(* An answer of the daemon to a streamed request ends with the marker the  *)
(* client waits for, and that of a request that succeeded has no other,    *)
(* whichever backend serves it and wherever it fails.                      *)
THEOREM EndMarkersHold == Spec => []EndMarkers
<1>1. Inv => EndMarkers BY MarkersKept
<1> QED BY <1>1, InvHolds, PTL

(* No request yields more tokens than it asked for or a token after the    *)
(* end token or after a marker.                                            *)
THEOREM AnswersAreInBudget == Spec => []AnswerInBudget
<1>1. Inv => AnswerInBudget BY BudgetKept
<1> QED BY <1>1, InvHolds, PTL

(* No pass runs on weights that are parked, and a compression whose loads  *)
(* succeed leaves in memory what it found there.                           *)
THEOREM ParkingIsKept == Spec => ParkingKept
<1>1. Inv => WeightsInMemory BY WeightsKept
<1>2. Inv /\ [Next]_state => [Brought]_state BY CompressKept
<1>3. CompressKeepsParked <=> [][Brought]_state BY DEF CompressKeepsParked, Brought
<1> QED BY <1>1, <1>2, <1>3, InvHolds, PTL DEF Spec, ParkingKept

(* What is streamed is what the target alone generates from the prompt,    *)
(* and all of it, whatever the draft proposed, whatever was cancelled,     *)
(* failed or parked before, and whether the prompt was evaluated or        *)
(* restored from an inline snapshot.                                       *)
THEOREM AnswersAreRight == Spec => []AnswerIsRight
<1>1. Inv /\ AnswerInv => AnswerIsRight
  BY OutputKept, BudgetKept, CompleteKept DEF AnswerIsRight
<1> QED BY <1>1, InvHolds, AnswerInvHolds, PTL

(* A slot keeps the state after the prefix it was reported for, until it   *)
(* is saved to or freed.                                                   *)
THEOREM SnapshotsAreKept == Spec => []SnapshotsKeepTheirPrefix
<1>1. Inv /\ AnswerInv => SnapshotsKeepTheirPrefix BY SnapshotsKept
<1> QED BY <1>1, InvHolds, AnswerInvHolds, PTL

(* When a speculative turn begins, rows, recurrent state and pending token *)
(* are those of the tokens committed: no rejected draft is left of them.   *)
THEOREM CachesAgree == Spec => []CacheAgrees
<1>1. Inv /\ AnswerInv => CacheAgrees BY CacheKept
<1> QED BY <1>1, InvHolds, AnswerInvHolds, PTL

(* Where a chunk and a block fit in the mirror: whatever was drafted,      *)
(* rejected, cancelled, failed, parked or restored before, a speculative   *)
(* turn begins with the rows, the recurrent state and the pending token of *)
(* the prompt and what was streamed, and the draft reads the features of   *)
(* the last positions of that context.                                     *)
THEOREM StateIsKept == ASSUME SizesFit PROVE Spec => []StateInv
<1>1. Inv /\ Bounds => TypeOK BY TypeKept
<1>2. Inv /\ AnswerInv => CacheAgrees BY CacheKept
<1>3. Inv /\ AnswerInv /\ FeatInv => DraftSeesContext BY ContextSeen
<1>4. TypeOK /\ CacheAgrees /\ DraftSeesContext => StateInv BY DEF StateInv
<1> QED BY <1>1, <1>2, <1>3, <1>4, InvHolds, BoundsHold, AnswerInvHolds, FeatInvHolds, PTL

=============================================================================

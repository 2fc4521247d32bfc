---------------------------- MODULE TargetCache ----------------------------
(***************************************************************************)
(* The state a target model keeps between forward passes, and what one     *)
(* forward pass of each architecture (qwen35, gemma4, laguna, qwen3) reads *)
(* and writes of it.                                                       *)
(*                                                                         *)
(* kv is the sequence of the tokens whose rows are in the key-value cache, *)
(* Bad (0) where a row is not the result of a computation over right rows: *)
(* never written, partly written, overwritten by another head, computed    *)
(* from a wrong row.  A row is a function of the rows before it, so it is  *)
(* right for a context exactly when kv begins with that context.  A pass   *)
(* at base makes the rows after its last one dead: they belong to another  *)
(* continuation, and are dropped from kv.                                  *)
(***************************************************************************)
EXTENDS Integers, Sequences, SequencesExt, FiniteSetsExt

CONSTANTS
    MaxCtx,        \* rows of a head of the key-value cache (max_ctx)
    Window,        \* rows of a gemma4 sliding-window layer (swa_size)
    FeatCap,       \* rows of target_feat (target_feat_cap)
    RingCap,       \* rows of the draft's feature mirror (ring cap)
    Slots          \* prefix snapshot slots (PREFIX_SLOTS, kMaxSlots)

ASSUME SizesAreNat == {MaxCtx, Window, FeatCap, RingCap} \subseteq Nat \ {0}

Bad == 0

Junk == <<Bad>>      \* no context

Empty == -1          \* a ring slot that holds no position

Lesser(a, b) == IF a < b THEN a ELSE b

(* A sequence of n values, evaluated.                                       *)
Seqn(n, Val(_)) == SubSeq([i \in 1 .. n |-> Val(i)], 1, n)

Blank(n, v) == Seqn(n, LAMBDA i : v)

(***************************************************************************)
(* The caches as their constructors leave them: ring and feat hold the     *)
(* position whose row is in each slot of gemma4's sliding-window layers    *)
(* and of the captured features, ssm the context qwen35's recurrent layers *)
(* have absorbed.                                                          *)
(***************************************************************************)
Qwen35Cache == [kv |-> <<>>, ring |-> <<>>, ssm |-> <<>>, feat |-> Blank(FeatCap, Empty),
                cur_pos |-> 0, last_tok |-> -1]

Gemma4Cache(hasFeat) == [kv |-> <<>>, ring |-> Blank(Window, Empty), ssm |-> <<>>,
                         feat |-> IF hasFeat THEN Blank(FeatCap, Empty) ELSE <<>>,
                         cur_pos |-> 0, last_tok |-> -1]

LagunaCache == [kv |-> <<>>, ring |-> <<>>, ssm |-> <<>>, feat |-> <<>>,
                cur_pos |-> 0, last_tok |-> -1]

Qwen3Cache == [kv |-> <<>>, ring |-> <<>>, ssm |-> <<>>, feat |-> <<>>,
               cur_pos |-> 0, last_tok |-> -1]

NewCache(kind, hasDraft) ==
    CASE kind = "qwen35" -> Qwen35Cache
      [] kind = "gemma4" -> Gemma4Cache(hasDraft)
      [] kind = "laguna" -> LagunaCache
      [] kind = "qwen3"  -> Qwen3Cache

-----------------------------------------------------------------------------
(* Rows and slots.                                                          *)

(* The first n rows; rows that were never written are Bad.                  *)
Upto(kv, n) == SubSeq(kv, 1, Lesser(n, Len(kv))) \o Blank(IF n > Len(kv) THEN n - Len(kv) ELSE 0, Bad)

\* Mutant: a batch may extend a head past its last row.
WriteRows_NoEnd(kv, base, toks) == Upto(kv, base) \o toks

(***************************************************************************)
(* Write a batch at consecutive rows from base.  The batch is one view of  *)
(* the cache tensor that is not checked against the head's end: the rows   *)
(* past MaxCtx are the first rows of the next head, which are lost.        *)
(***************************************************************************)
WriteRows(kv, base, toks) ==
    LET all  == Upto(kv, base) \o toks
        over == Len(all) - MaxCtx
    IN  IF over <= 0 THEN all
        ELSE Blank(Lesser(over, MaxCtx), Bad) \o SubSeq(all, over + 1, MaxCtx)

Context(kv, n) ==
    IF n > Len(kv) THEN Junk
    ELSE IF \E i \in 1 .. n : kv[i] = Bad THEN Junk ELSE SubSeq(kv, 1, n)

Live(p, n) == IF p < n THEN p ELSE Empty

(* The same unchecked write of n positions from pos to the sliding-window   *)
(* ring, which starts at slot pos % Window and does not wrap.               *)
WriteWindow(ring, pos, n) ==
    LET first == pos % Window
    IN  Seqn(Window, LAMBDA s :
            CASE s > first /\ s <= first + n -> pos + s - 1 - first
              [] s + Window <= first + n     -> Empty
              [] OTHER                       -> Live(ring[s], pos + n))

(* Captured features are written slot by slot, around the end.              *)
WriteFeatures(feat, pos, n) ==
    Seqn(Len(feat), LAMBDA s :
        LET p == pos + ((s - 1 - pos) % FeatCap)
        IN  IF p < pos + n THEN p + FeatCap * ((pos + n - 1 - p) \div FeatCap)
            ELSE Live(feat[s], pos + n))

(* Sliding-window attention at position p: the last Window positions.       *)
WindowAttention(ring, p) ==
    \A q \in (IF p < Window THEN 0 ELSE p - Window + 1) .. p : ring[(q % Window) + 1] = q

-----------------------------------------------------------------------------
(* One pass of each architecture over toks at positions base, base + 1 ...  *)
(* as [cache, out]: out[i] is the context the logits of token i are         *)
(* computed from, Junk when something it attends to is wrong.               *)

Rows(toks, out) == Seqn(Len(toks), LAMBDA i : IF out[i] = Junk THEN Bad ELSE toks[i])

(* The delta-net layers fold the whole batch into the recurrent state.      *)
DeltaNet(ssm, out) == Last(out)

(* Full attention of every token of a batch: all rows up to its own.        *)
FullAttention(kv, base, toks) ==
    LET kv1 == WriteRows(kv, base, toks)
    IN  Seqn(Len(toks), LAMBDA i : Context(kv1, base + i))

Qwen35Graph(c, toks, base) ==
    LET absorbed == c.ssm # Junk /\ c.ssm = Context(c.kv, base)
        out == IF absorbed THEN FullAttention(c.kv, base, toks) ELSE Blank(Len(toks), Junk)
    IN  [cache |-> [c EXCEPT !.kv   = WriteRows(c.kv, base, Rows(toks, out)),
                             !.ssm  = DeltaNet(c.ssm, out),
                             !.feat = WriteFeatures(c.feat, base, Len(toks))],
         out |-> out]

(* gemma4's layers: full attention, the sliding window, captured features.  *)
Gemma4Layers(c, toks, base) ==
    LET n    == Len(toks)
        ring == WriteWindow(c.ring, base, n)
        full == FullAttention(c.kv, base, toks)
        seen(i) == \A j \in 1 .. i : WindowAttention(ring, base + j - 1)
        out  == Seqn(n, LAMBDA i : IF seen(i) THEN full[i] ELSE Junk)
    IN  [cache |-> [c EXCEPT !.kv = WriteRows(c.kv, base, Rows(toks, out)),
                             !.ring = ring,
                             !.feat = WriteFeatures(c.feat, base, n)],
         out |-> out]

gemma4_step(c, toks, base) ==
    LET g == Gemma4Layers(c, toks, base) IN [g EXCEPT !.cache.cur_pos = base + Len(toks)]

(* The same with the argmax of every token.                                 *)
gemma4_verify_batch(c, toks, base) ==
    LET g == Gemma4Layers(c, toks, base) IN [g EXCEPT !.cache.cur_pos = base + Len(toks)]

KvGraph(c, toks, base) ==
    LET out == FullAttention(c.kv, base, toks)
    IN  [cache |-> [c EXCEPT !.kv = WriteRows(c.kv, base, Rows(toks, out))], out |-> out]

(* laguna_step records the length, qwen3's do_step leaves it to its caller. *)
laguna_step(c, toks, base) ==
    LET g == KvGraph(c, toks, base) IN [g EXCEPT !.cache.cur_pos = base + Len(toks)]

Qwen3Step(c, toks, base) == KvGraph(c, toks, base)

(* A pass that failed half way: what it was writing is lost.                *)
FailedPass(c, base) ==
    [c EXCEPT !.kv = SubSeq(@, 1, Lesser(base, Len(@))), !.ring = Blank(Len(@), Empty),
              !.feat = Seqn(Len(@), LAMBDA s : Live(c.feat[s], base))]

(* ... and qwen35's recurrent state with it.                                *)
Qwen35FailedPass(c, base) == [FailedPass(c, base) EXCEPT !.ssm = Junk]

-----------------------------------------------------------------------------
(* Prefix snapshots: a copy of the first cur_pos rows (of the rings: the    *)
(* first min(cur_pos, cap) slots) with what else restore puts back.         *)

NoSnap == [used |-> FALSE, thin |-> FALSE, kv |-> <<>>, ring |-> <<>>,
           ssm |-> <<>>, feat |-> <<>>, cur_pos |-> 0, last_tok |-> -1]

(* The first n slots of a ring.                                             *)
FirstSlots(slots, n) == Seqn(Len(slots), LAMBDA s : IF s <= n THEN slots[s] ELSE Empty)

(* Put the first n slots back; later positions are dead.                    *)
PutSlots(slots, from, n) ==
    Seqn(Len(slots), LAMBDA s : Live(IF s <= n THEN from[s] ELSE slots[s], n))

\* Mutant: the recurrent state is left out of the snapshot.
snapshot_target_cache_NoSsm(c) ==
    [used |-> TRUE, thin |-> FALSE, kv |-> Upto(c.kv, c.cur_pos), ring |-> <<>>, ssm |-> <<>>,
     feat |-> FirstSlots(c.feat, c.cur_pos), cur_pos |-> c.cur_pos, last_tok |-> c.last_tok]

snapshot_target_cache(c) ==
    [used |-> TRUE, thin |-> FALSE, kv |-> Upto(c.kv, c.cur_pos), ring |-> <<>>, ssm |-> c.ssm,
     feat |-> FirstSlots(c.feat, c.cur_pos), cur_pos |-> c.cur_pos, last_tok |-> c.last_tok]

(* A thin snapshot has the key-value rows only.                             *)
snapshot_target_cache_thin(c) ==
    [NoSnap EXCEPT !.used = TRUE, !.thin = TRUE,
                   !.kv = Upto(c.kv, c.cur_pos), !.cur_pos = c.cur_pos]

(* A thin snapshot has no recurrent states, which is a layer-count mismatch: *)
(* nothing is restored.                                                     *)
restore_target_cache(s, c) ==
    IF s.thin THEN c
    ELSE [c EXCEPT !.kv = s.kv, !.ssm = s.ssm, !.feat = PutSlots(@, s.feat, s.cur_pos),
                   !.cur_pos = s.cur_pos, !.last_tok = s.last_tok]

Gemma4Save(c) ==
    [used |-> TRUE, thin |-> FALSE, kv |-> Upto(c.kv, c.cur_pos),
     ring |-> FirstSlots(c.ring, c.cur_pos), ssm |-> <<>>,
     feat |-> FirstSlots(c.feat, c.cur_pos), cur_pos |-> c.cur_pos, last_tok |-> c.last_tok]

Gemma4Restore(s, c) ==
    [c EXCEPT !.kv = s.kv, !.ring = PutSlots(@, s.ring, s.cur_pos),
              !.feat = IF s.feat = <<>> THEN @ ELSE PutSlots(@, s.feat, s.cur_pos),
              !.cur_pos = s.cur_pos, !.last_tok = s.last_tok]

laguna_snapshot_save(c) ==
    [NoSnap EXCEPT !.used = TRUE, !.kv = Upto(c.kv, c.cur_pos), !.cur_pos = c.cur_pos]

laguna_snapshot_restore(s, c) ==
    [c EXCEPT !.kv = SubSeq(s.kv, 1, s.cur_pos), !.cur_pos = s.cur_pos]

(* qwen3 copies the whole cache tensors.                                    *)
Qwen3Save(c) == [NoSnap EXCEPT !.used = TRUE, !.kv = c.kv, !.cur_pos = c.cur_pos]

Qwen3Restore(s, c) == [c EXCEPT !.kv = s.kv, !.cur_pos = s.cur_pos]

-----------------------------------------------------------------------------
(* The draft's mirror of the captured features: the context of each slot's  *)
(* features.                                                                *)

Feature(c, p) == IF c.feat[(p % FeatCap) + 1] = p THEN Context(c.kv, p + 1) ELSE Junk

(* A range longer than the mirror is refused, and no caller looks.          *)
sync_range(mirror, c, start, n) ==
    IF n > RingCap THEN mirror
    ELSE Seqn(RingCap, LAMBDA s :
            LET p == start + ((s - 1 - start) % RingCap)
            IN  IF p < start + n THEN Feature(c, p) ELSE mirror[s])

sync_tail(mirror, c, committed) ==
    LET n == Lesser(committed, RingCap) IN sync_range(mirror, c, committed - n, n)

(* The rows the draft reads before committed: the last RingCap positions,   *)
(* as one view when they do not wrap and copied in runs when they do.       *)
DraftContext(mirror, committed) ==
    LET n == Lesser(committed, RingCap)
    IN  Seqn(n, LAMBDA i : mirror[((committed - n + i - 1) % RingCap) + 1])

=============================================================================

--------------------------- MODULE Qwen35Backend ---------------------------
(***************************************************************************)
(* The qwen35 backend: a hybrid of attention and delta-net layers.  The    *)
(* recurrent state cannot be truncated, so a speculative step copies it,   *)
(* verifies the draft, rolls it back and replays what was accepted.        *)
(***************************************************************************)
EXTENDS ModelBackend

Qwen35CanSpec == config.draft /\ "draft" \notin parked

(* snapshot_save: a buffer of the same length is reused.                    *)
Qwen35Save(s) ==
    IF cache.cur_pos <= 0 THEN {s}
    ELSE WithAlloc(snapshot_target_cache(cache), ~s.used \/ s.cur_pos # cache.cur_pos)

(* generate up to its prefill: only the recurrent state is reset.           *)
Qwen35Generate(req) ==
    /\ cache' = [cache EXCEPT !.ssm = <<>>]
    /\ job' = [Idle EXCEPT !.at = "prefill", !.req = req, !.exact = TRUE,
                           !.snap = req.snap_slot # NoSlot]
    /\ stream' = <<>>
    /\ UNCHANGED <<mirror, snaps, named>>

(* restore_and_generate up to the prefill of the prompt's remainder.  The   *)
(* result of restore_target_cache is ignored.                               *)
Qwen35Restore(req, exact) ==
    LET s == snaps[req.slot]
        c == [restore_target_cache(s, cache) EXCEPT !.cur_pos = s.cur_pos]
        j == [Idle EXCEPT !.at = "prefill", !.req = req, !.committed = s.cur_pos,
                          !.exact = exact,
                          !.snap = req.snap_slot # NoSlot /\ Len(req.prompt) > s.cur_pos]
    IN  /\ UNCHANGED <<mirror, snaps, named>>
        /\ \/ /\ ~s.used
              /\ cache' = cache
              /\ job' = [j EXCEPT !.at = "returned", !.ok = FALSE]
              /\ stream' = <<-1>>
           \/ /\ s.used /\ Len(req.prompt) < s.cur_pos
              /\ cache' = c
              /\ job' = [j EXCEPT !.at = "returned", !.ok = FALSE]
              /\ stream' = <<-1>>
           \/ /\ s.used /\ Len(req.prompt) >= s.cur_pos
              /\ cache' = c
              /\ job' = j
              /\ stream' = <<>>

Qwen35SnapDue == job.snap /\ job.req.snap_pos = job.committed

\* Mutant: the snapshot stays pending after it was taken.
Qwen35InlineSnap_Again ==
    /\ Is("qwen35") /\ job.at = "prefill" /\ Qwen35SnapDue
    /\ \E s \in Qwen35Save(snaps[job.req.snap_slot]) : PutSnap(job.req.snap_slot, s)
    /\ UNCHANGED <<config, cache, mirror, parked, drafter, job, stream, commands>>

(* The inline snapshot of do_prefill, taken between chunks.                 *)
Qwen35InlineSnap ==
    /\ Is("qwen35") /\ job.at = "prefill" /\ Qwen35SnapDue
    /\ \E s \in Qwen35Save(snaps[job.req.snap_slot]) : PutSnap(job.req.snap_slot, s)
    /\ job' = [job EXCEPT !.snap = FALSE]
    /\ UNCHANGED <<config, cache, mirror, parked, drafter, stream, commands>>

(* A chunk ends at the snapshot position when that lies inside it.          *)
Qwen35ChunkLen(kv_pos) ==
    LET n == Min({Chunk, Len(job.req.prompt) - kv_pos})
    IN  IF job.snap /\ job.req.snap_pos \in kv_pos + 1 .. kv_pos + n - 1
        THEN job.req.snap_pos - kv_pos ELSE n

(* One chunk of do_prefill.                                                 *)
Qwen35Prefill ==
    LET kv_pos == job.committed
        n == Qwen35ChunkLen(kv_pos)
        g == Qwen35Graph(cache, SubSeq(job.req.prompt, kv_pos + 1, kv_pos + n), kv_pos)
    IN  /\ Is("qwen35") /\ job.at = "prefill" /\ ~Qwen35SnapDue
        /\ kv_pos < Len(job.req.prompt)
        /\ \/ /\ \E t \in Pick(Last(g.out)) :
                    cache' = [g.cache EXCEPT !.last_tok = t, !.cur_pos = kv_pos + n]
              /\ mirror' = IF Qwen35CanSpec THEN sync_range(mirror, g.cache, kv_pos, n)
                                            ELSE mirror
              /\ job' = [job EXCEPT !.committed = kv_pos + n]
              /\ stream' = stream
           \/ /\ MayFail("step")
              /\ cache' = Qwen35FailedPass(cache, kv_pos)
              /\ Return(FALSE)
              /\ mirror' = mirror
        /\ KeepSnaps
        /\ UNCHANGED <<config, parked, drafter, commands>>

(* The prompt is in the cache: speculative decoding, or the first token of  *)
(* the autoregressive fallback, which counts the position of the token it   *)
(* has not evaluated yet as committed.                                      *)
Qwen35Start ==
    /\ Is("qwen35") /\ job.at = "prefill" /\ ~Qwen35SnapDue
    /\ job.committed >= Len(job.req.prompt)
    /\ \/ /\ job.req.n_gen = 0
          /\ cache' = cache
          /\ Return(TRUE)
       \/ /\ job.req.n_gen > 0 /\ Qwen35CanSpec
          /\ job' = [job EXCEPT !.at = "draft", !.last = cache.last_tok]
          /\ UNCHANGED <<cache, stream>>
       \/ /\ job.req.n_gen > 0 /\ ~Qwen35CanSpec
          /\ \E a \in Accepts :
                IF cache.last_tok = Eos \/ job.req.n_gen = 1
                THEN /\ stream' = Append(emit(cache.last_tok, a), -1)
                     /\ job' = Returned(TRUE, ~a)
                     /\ cache' = IF cache.last_tok = Eos THEN cache
                                 ELSE [cache EXCEPT !.cur_pos = job.committed + 1]
                ELSE /\ stream' = emit(cache.last_tok, a)
                     /\ job' = [job EXCEPT !.at = "ar", !.last = cache.last_tok, !.n = 1,
                                           !.committed = @ + 1, !.refused = ~a]
                     /\ cache' = [cache EXCEPT !.cur_pos = job.committed + 1]
    /\ KeepSnaps
    /\ UNCHANGED <<config, mirror, parked, drafter, commands>>

(* One turn of do_ar_decode's loop.                                         *)
Qwen35Ar ==
    LET g == Qwen35Graph(cache, <<job.last>>, job.committed)
    IN  /\ Is("qwen35") /\ job.at = "ar"
        /\ \/ \E t \in Pick(g.out[1]), a \in Accepts :
                /\ cache' = [g.cache EXCEPT !.cur_pos = job.committed + 1]
                /\ IF job.refused \/ ~a \/ t = Eos \/ job.n + 1 = job.req.n_gen
                   THEN /\ stream' = Append(emit(t, a), -1)
                        /\ job' = Returned(TRUE, job.refused \/ ~a)
                   ELSE /\ stream' = emit(t, a)
                        /\ job' = [job EXCEPT !.last = t, !.n = @ + 1, !.committed = @ + 1]
           \/ /\ MayFail("step")
              /\ cache' = Qwen35FailedPass(cache, job.committed)
              /\ ReturnMarked(FALSE)
        /\ KeepSnaps
        /\ UNCHANGED <<config, mirror, parked, drafter, commands>>

(* One turn of do_spec_decode's loop, up to the verified draft.             *)
Qwen35Draft ==
    /\ Is("qwen35") /\ job.at = "draft"
    /\ \/ \E d \in Drafts : \E g \in {Qwen35Graph(cache, d, job.committed)} :
          \E t \in Picks(g.out) :
            /\ cache' = [g.cache EXCEPT !.cur_pos = job.committed + QLen]
            /\ job' = [job EXCEPT !.at = "commit", !.draft = d, !.target = t, !.saved = cache.ssm]
            /\ stream' = stream
       \/ /\ MayFail("draft") \/ Drafts = {}
          /\ cache' = cache
          /\ Return(FALSE)
       \/ /\ MayFail("step")
          /\ cache' = FailedPass(cache, job.committed)
          /\ Return(FALSE)
    /\ KeepSnaps
    /\ UNCHANGED <<config, mirror, parked, drafter, commands>>

\* Mutant: the recurrent state is not rolled back before the replay.
RolledBack_Not(c) == c

(* restore_kv: the recurrent state of before the verification.              *)
RolledBack(c) == [c EXCEPT !.ssm = job.saved]

(* ... and from its acceptance to the end of the turn: roll back, replay,   *)
(* mirror the features, emit, advance by what was emitted.                  *)
Qwen35Commit ==
    LET accept_n == AcceptN(job.draft, job.target)
        commit_n == CommitN(accept_n, job.req.n_gen - job.n)
        replay   == CommitTokens(job.draft, job.target, accept_n, commit_n)
    IN  /\ Is("qwen35") /\ job.at = "commit"
        /\ \/ \E g \in {Qwen35Graph(RolledBack(cache), replay, job.committed)} :
              \E t \in Pick(Last(g.out)), e \in EmitBatch(replay) :
                /\ cache' = [g.cache EXCEPT !.cur_pos = job.committed + e.offered]
                /\ mirror' = sync_range(mirror, g.cache, job.committed, commit_n)
                /\ EndTurn(e, t)
           \/ /\ MayFail("step")
              /\ cache' = Qwen35FailedPass(cache, job.committed)
              /\ mirror' = mirror
              /\ Return(FALSE)
        /\ KeepSnaps
        /\ UNCHANGED <<config, parked, drafter, commands>>

Qwen35Next == Qwen35InlineSnap \/ Qwen35Prefill \/ Qwen35Start \/ Qwen35Ar
              \/ Qwen35Draft \/ Qwen35Commit

-----------------------------------------------------------------------------
(* Parking.  Sets of [parked, ok]: what may be left out of memory.          *)

Qwen35Park(what) == parked \cup {w \in {"target", "draft"} : what \in {"", "all", w}}

(* The target is loaded first and a failure leaves the draft where it was;  *)
(* without a draft path a parked draft stays parked.                        *)
Qwen35Unpark(p, what) ==
    LET wants(w) == what \in {"", "all", w}
        p1 == IF wants("target") THEN p \ {"target"} ELSE p
        p2 == IF wants("draft") /\ config.draft THEN p1 \ {"draft"} ELSE p1
    IN  {[parked |-> p2, ok |-> TRUE]}
        \cup (IF MayFail("load") /\ p1 # p THEN {[parked |-> p, ok |-> FALSE]} ELSE {})
        \cup (IF MayFail("load") /\ p2 # p1 THEN {[parked |-> p1, ok |-> FALSE]} ELSE {})

\* Mutant: the draft is left parked after a compression.
Qwen35Compress_DraftStays(nopark) ==
    IF nopark THEN {[parked |-> parked, ok |-> TRUE]}
    ELSE LET p == {"target", "draft"}
         IN  IF "target" \in parked THEN {[parked |-> p, ok |-> TRUE]} ELSE Qwen35Unpark(p, "target")

(* compress: both models make room for the drafter and what was in memory   *)
(* before comes back, first the target; a failure to load is not noticed.   *)
Qwen35Compress(nopark) ==
    IF nopark THEN {[parked |-> parked, ok |-> TRUE]}
    ELSE LET p == {"target", "draft"}
             first == IF "target" \in parked THEN {[parked |-> p, ok |-> TRUE]}
                      ELSE Qwen35Unpark(p, "target")
         IN  UNION {IF "draft" \in parked THEN {f}
                    ELSE {[r EXCEPT !.ok = @ /\ f.ok] : r \in Qwen35Unpark(f.parked, "draft")} : f \in first}

=============================================================================

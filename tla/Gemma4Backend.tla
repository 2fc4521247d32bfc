--------------------------- MODULE Gemma4Backend ---------------------------
(***************************************************************************)
(* The gemma4 backend: a transformer with full-attention and sliding-      *)
(* window layers.  A speculative step does not roll back: what the draft   *)
(* wrote past the accepted tokens is left to be overwritten.               *)
(***************************************************************************)
EXTENDS ModelBackend

Gemma4CanSpec == config.draft

HasFeat == cache.feat # <<>>

(* snapshot_save.                                                           *)
Gemma4SaveAt(pos, s) ==
    IF "target" \in parked \/ pos <= 0 THEN {s}
    ELSE WithAlloc(Gemma4Save([cache EXCEPT !.cur_pos = pos]), ~s.used \/ s.cur_pos # pos)

(* generate up to its prefill.                                              *)
Gemma4Generate(req) ==
    /\ IF "target" \in parked
       THEN /\ cache' = cache
            /\ job' = [Idle EXCEPT !.at = "returned", !.req = req, !.ok = FALSE]
       ELSE /\ cache' = [cache EXCEPT !.cur_pos = 0]
            /\ job' = [Idle EXCEPT !.at = "prefill", !.req = req, !.exact = TRUE,
                                   !.snap = req.snap_slot # NoSlot]
    /\ stream' = <<>>
    /\ UNCHANGED <<mirror, snaps, named>>

(* restore_and_generate up to the prefill of the prompt's remainder.        *)
Gemma4RestoreAndGenerate(req, exact) ==
    LET s == snaps[req.slot]
        j == [Idle EXCEPT !.at = "prefill", !.req = req, !.committed = s.cur_pos,
                          !.exact = exact, !.snap = req.snap_slot # NoSlot]
        failed == [j EXCEPT !.at = "returned", !.ok = FALSE]
    IN  /\ UNCHANGED <<mirror, snaps, named>>
        /\ \/ /\ "target" \in parked
              /\ cache' = cache /\ job' = failed /\ stream' = <<>>
           \/ /\ "target" \notin parked /\ ~s.used
              /\ cache' = cache /\ job' = failed /\ stream' = <<-1>>
           \/ /\ "target" \notin parked /\ s.used
              /\ cache' = Gemma4Restore(s, cache)
              /\ IF Len(req.prompt) < s.cur_pos
                 THEN job' = failed /\ stream' = <<-1>>
                 ELSE job' = j /\ stream' = <<>>

(* A chunk ends at the end of the sliding-window ring.                      *)
Gemma4ChunkLen(kv_pos) ==
    Min({Chunk, Len(job.req.prompt) - kv_pos}
        \cup IF Window < MaxCtx THEN {Window - (kv_pos % Window)} ELSE {})

(* One chunk of do_prefill; last_tok is taken from the last chunk.          *)
Gemma4Prefill ==
    LET kv_pos == job.committed
        n == Gemma4ChunkLen(kv_pos)
        g == gemma4_step(cache, SubSeq(job.req.prompt, kv_pos + 1, kv_pos + n), kv_pos)
        final == kv_pos + n = Len(job.req.prompt)
    IN  /\ Is("gemma4") /\ job.at = "prefill"
        /\ kv_pos < Len(job.req.prompt)
        /\ \/ /\ \E t \in IF final THEN Pick(Last(g.out)) ELSE {cache.last_tok} :
                    cache' = [g.cache EXCEPT !.last_tok = t]
              /\ mirror' = IF config.draft /\ HasFeat THEN sync_range(mirror, g.cache, kv_pos, n)
                                                      ELSE mirror
              /\ job' = [job EXCEPT !.committed = kv_pos + n]
              /\ stream' = stream
           \/ /\ MayFail("step")
              /\ cache' = FailedPass(cache, kv_pos)
              /\ mirror' = mirror
              /\ Return(FALSE)
        /\ KeepSnaps
        /\ UNCHANGED <<config, parked, drafter, commands>>

(* The inline snapshot, taken after the prefill with cur_pos set back; its  *)
(* last_tok is the whole prompt's.                                          *)
Gemma4InlineSnap ==
    IF job.snap /\ job.req.snap_pos <= job.committed
    THEN \E s \in Gemma4SaveAt(job.req.snap_pos, snaps[job.req.snap_slot]) :
            PutSnap(job.req.snap_slot, s)
    ELSE KeepSnaps

\* Mutant: a restore does not bring the mirror up to date.
Gemma4Resync_Not(restored) == mirror

(* After a restore the mirror gets the features of the whole context.       *)
Gemma4Resync(restored) ==
    IF restored /\ config.draft /\ HasFeat /\ job.committed > 0
    THEN sync_tail(mirror, cache, job.committed) ELSE mirror

(* The prompt is in the cache: inline snapshot, mirror, then speculative    *)
(* decoding or the first token of the plain loop, for which the last prompt *)
(* token is evaluated again at its own position.                            *)
Gemma4Start ==
    LET g == gemma4_step(cache, <<Last(job.req.prompt)>>, job.committed - 1)
    IN  /\ Is("gemma4") /\ job.at = "prefill"
        /\ job.committed >= Len(job.req.prompt)
        /\ Gemma4InlineSnap
        /\ mirror' = Gemma4Resync(job.req.slot # NoSlot)
        /\ \/ /\ job.req.n_gen = 0
              /\ cache' = [cache EXCEPT !.cur_pos = job.committed]
              /\ ReturnMarked(TRUE)
           \/ /\ job.req.n_gen > 0 /\ Gemma4CanSpec
              /\ cache' = [cache EXCEPT !.cur_pos = job.committed]
              /\ job' = [job EXCEPT !.at = "draft", !.last = cache.last_tok]
              /\ stream' = stream
           \/ /\ job.req.n_gen > 0 /\ ~Gemma4CanSpec
              /\ cache' = g.cache
              /\ \E t \in Pick(g.out[1]), a \in Accepts :
                    IF ~a \/ t = Eos \/ job.req.n_gen = 1
                    THEN /\ stream' = Append(emit(t, a), -1)
                         /\ job' = Returned(TRUE, ~a)
                    ELSE /\ stream' = emit(t, a)
                         /\ job' = [job EXCEPT !.at = "ar", !.last = t, !.n = 1]
           \/ /\ job.req.n_gen > 0 /\ ~Gemma4CanSpec /\ MayFail("step")
              /\ cache' = FailedPass(cache, job.committed - 1)
              /\ Return(FALSE)
        /\ UNCHANGED <<config, parked, drafter, commands>>

(* One turn of do_decode's loop.                                            *)
Gemma4Ar ==
    LET g == gemma4_step(cache, <<job.last>>, job.committed)
    IN  /\ Is("gemma4") /\ job.at = "ar"
        /\ \/ \E t \in Pick(g.out[1]), a \in Accepts :
                /\ cache' = g.cache
                /\ IF ~a \/ t = Eos \/ job.n + 1 = job.req.n_gen
                   THEN /\ stream' = Append(emit(t, a), -1)
                        /\ job' = Returned(TRUE, ~a)
                   ELSE /\ stream' = emit(t, a)
                        /\ job' = [job EXCEPT !.last = t, !.n = @ + 1, !.committed = @ + 1]
           \/ /\ MayFail("step")
              /\ cache' = FailedPass(cache, job.committed)
              /\ Return(FALSE)
        /\ KeepSnaps
        /\ UNCHANGED <<config, mirror, parked, drafter, commands>>

(* One turn of do_spec_decode's loop, up to the verified draft.             *)
Gemma4Draft ==
    /\ Is("gemma4") /\ job.at = "draft"
    /\ \/ \E d \in Drafts : \E g \in {gemma4_verify_batch(cache, d, job.committed)} :
          \E t \in Picks(g.out) :
            /\ cache' = g.cache
            /\ job' = [job EXCEPT !.at = "commit", !.draft = d, !.target = t]
            /\ stream' = stream
       \/ /\ MayFail("draft") \/ Drafts = {}
          /\ cache' = cache
          /\ Return(FALSE)
       \/ /\ MayFail("step")
          /\ cache' = FailedPass(cache, job.committed)
          /\ Return(FALSE)
    /\ KeepSnaps
    /\ UNCHANGED <<config, mirror, parked, drafter, commands>>

(* ... and to the end of the turn: truncate, evaluate the bonus token,      *)
(* mirror the features, emit, advance by what was emitted.                  *)
Gemma4Commit ==
    LET accept_n == AcceptN(job.draft, job.target)
        commit_n == CommitN(accept_n, job.req.n_gen - job.n)
        toks     == CommitTokens(job.draft, job.target, accept_n, commit_n)
        bonus    == commit_n > accept_n
    IN  /\ Is("gemma4") /\ job.at = "commit"
        /\ \/ \E g \in {IF bonus THEN gemma4_verify_batch(cache, <<Last(toks)>>, job.committed + accept_n)
                        ELSE [cache |-> cache, out |-> <<>>]} :
              \E t \in IF bonus THEN Pick(g.out[1]) ELSE {Last(job.target)}, e \in EmitBatch(toks) :
                /\ cache' = [g.cache EXCEPT !.cur_pos = job.committed + e.offered]
                /\ mirror' = IF HasFeat THEN sync_range(mirror, g.cache, job.committed, commit_n)
                             ELSE mirror
                /\ EndTurn(e, t)
           \/ /\ bonus /\ MayFail("step")
              /\ cache' = [FailedPass(cache, job.committed + accept_n)
                              EXCEPT !.cur_pos = job.committed + accept_n]
              /\ mirror' = mirror
              /\ Return(FALSE)
        /\ KeepSnaps
        /\ UNCHANGED <<config, parked, drafter, commands>>

Gemma4Next == Gemma4Prefill \/ Gemma4Start \/ Gemma4Ar \/ Gemma4Draft \/ Gemma4Commit

-----------------------------------------------------------------------------
(* Parking releases the snapshots and the cache too, whatever is named.     *)

Gemma4Park == {"target"}

(* Weights and cache come back, the feature buffer does not; when either    *)
(* cannot be created the backend stays parked.                              *)
Gemma4Unpark(p) ==
    {[parked |-> {}, ok |-> TRUE]}
    \cup IF MayFail("load") /\ p # {} THEN {[parked |-> p, ok |-> FALSE]} ELSE {}

Gemma4Compress(nopark) ==
    IF nopark \/ "target" \in parked THEN {[parked |-> parked, ok |-> TRUE]}
    ELSE Gemma4Unpark({"target"})

=============================================================================

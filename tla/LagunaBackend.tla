--------------------------- MODULE LagunaBackend ---------------------------
(***************************************************************************)
(* The laguna backend: a transformer with one key-value cache and no draft *)
(* model.  The end token is not emitted.                                   *)
(***************************************************************************)
EXTENDS ModelBackend

(* A request of the file-based command writes nothing to the stream.        *)
ShouldEmit == job.req.via # "legacy"

LagunaSave(s) ==
    IF "target" \in parked \/ cache.cur_pos <= 0 THEN {s}
    ELSE WithAlloc(laguna_snapshot_save(cache), ~s.used \/ s.cur_pos # cache.cur_pos)

(* Every row is zeroed.                                                     *)
reset_laguna_target_cache(c) ==
    [c EXCEPT !.kv = <<>>, !.cur_pos = 0, !.last_tok = -1]

(* generate up to its prefill.                                              *)
LagunaGenerate(req) ==
    /\ IF Len(req.prompt) + req.n_gen > MaxCtx
       THEN /\ cache' = cache
            /\ job' = [Idle EXCEPT !.at = "returned", !.req = req, !.ok = FALSE]
       ELSE /\ cache' = reset_laguna_target_cache(cache)
            /\ job' = [Idle EXCEPT !.at = "prefill", !.req = req, !.exact = TRUE,
                                   !.snap = req.snap_slot # NoSlot]
    /\ stream' = <<>>
    /\ UNCHANGED <<mirror, snaps, named>>

(* Where a restored prompt's prefill begins: when all of it is cached, its  *)
(* last token is evaluated again.                                           *)
LagunaFirst(s, prompt) == IF s.cur_pos = Len(prompt) THEN s.cur_pos - 1 ELSE s.cur_pos

(* restore_and_generate up to the prefill; the inline snapshot asked for is *)
(* not taken.  No error emits an end marker.                                *)
LagunaRestore(req, exact) ==
    LET s == snaps[req.slot]
        j == [Idle EXCEPT !.at = "prefill", !.req = req, !.exact = exact,
                          !.committed = LagunaFirst(s, req.prompt)]
        restored == laguna_snapshot_restore(s, cache)
    IN  /\ IF s.used /\ Len(req.prompt) >= s.cur_pos
           THEN /\ cache' = [restored EXCEPT !.cur_pos = LagunaFirst(s, req.prompt)]
                /\ job' = j
           ELSE /\ cache' = IF s.used THEN restored ELSE cache
                /\ job' = [j EXCEPT !.at = "returned", !.ok = FALSE, !.committed = 0]
        /\ stream' = <<>>
        /\ UNCHANGED <<mirror, snaps, named>>

(* One chunk of the prefill.                                                *)
LagunaPrefill ==
    LET kv_pos == job.committed
        n == Min({Chunk, Len(job.req.prompt) - kv_pos})
        g == laguna_step(cache, SubSeq(job.req.prompt, kv_pos + 1, kv_pos + n), kv_pos)
    IN  /\ Is("laguna") /\ job.at = "prefill"
        /\ kv_pos < Len(job.req.prompt)
        /\ \/ /\ cache' = g.cache
              /\ \E t \in Pick(Last(g.out)) :
                    job' = [job EXCEPT !.committed = kv_pos + n, !.last = t]
              /\ stream' = stream
           \/ /\ MayFail("step")
              /\ cache' = FailedPass(cache, kv_pos)
              /\ Return(FALSE)
        /\ KeepSnaps
        /\ UNCHANGED <<config, mirror, parked, drafter, commands>>

(* The inline snapshot of generate: all rows are saved, then the length is  *)
(* set to the position asked for.                                           *)
LagunaInlineSnap ==
    IF job.snap /\ job.req.snap_pos <= Len(job.req.prompt)
    THEN \E s \in LagunaSave(snaps[job.req.snap_slot]) :
            PutSnap(job.req.snap_slot,
                    IF s.used THEN [s EXCEPT !.cur_pos = job.req.snap_pos] ELSE s)
    ELSE KeepSnaps

LagunaStart ==
    /\ Is("laguna") /\ job.at = "prefill"
    /\ job.committed >= Len(job.req.prompt)
    /\ LagunaInlineSnap
    /\ job' = [job EXCEPT !.at = "ar", !.snap = FALSE]
    /\ UNCHANGED <<config, cache, mirror, parked, drafter, stream, commands>>

LagunaEnd(ok, refused, written) ==
    /\ job' = Returned(ok, refused)
    /\ stream' = IF ShouldEmit THEN Append(written, -1) ELSE written

(* One turn of the decode loop: stop at the end token or the budget, emit,  *)
(* stop when refused, evaluate the token where the cache ends.              *)
LagunaDecode ==
    LET g == laguna_step(cache, <<job.last>>, cache.cur_pos)
        emitted(a) == IF ShouldEmit THEN emit(job.last, a) ELSE stream
    IN  /\ Is("laguna") /\ job.at = "ar"
        /\ \/ /\ job.n = job.req.n_gen \/ job.last = Eos
              /\ cache' = cache
              /\ LagunaEnd(TRUE, FALSE, stream)
           \/ /\ job.n < job.req.n_gen /\ job.last # Eos
              /\ FALSE \in Accepts
              /\ cache' = cache
              /\ LagunaEnd(TRUE, TRUE, stream)
           \/ /\ job.n < job.req.n_gen /\ job.last # Eos
              /\ cache' = g.cache
              /\ stream' = emitted(TRUE)
              /\ \E t \in Pick(g.out[1]) :
                    job' = [job EXCEPT !.last = t, !.n = @ + 1, !.committed = @ + 1]
           \/ /\ job.n < job.req.n_gen /\ job.last # Eos
              /\ MayFail("step")
              /\ cache' = FailedPass(cache, cache.cur_pos)
              /\ LagunaEnd(FALSE, FALSE, emitted(TRUE))
        /\ KeepSnaps
        /\ UNCHANGED <<config, mirror, parked, drafter, commands>>

LagunaNext == LagunaPrefill \/ LagunaStart \/ LagunaDecode

-----------------------------------------------------------------------------
(* Parking releases the cache with the weights; the snapshots stay.         *)

LagunaPark(what) == parked \cup IF what \in {"", "all", "target"} THEN {"target"} ELSE {}

LagunaUnpark(p, what) ==
    IF what \in {"", "all", "target"}
    THEN {[parked |-> p \ {"target"}, ok |-> TRUE]}
         \cup IF MayFail("load") /\ "target" \in p THEN {[parked |-> p, ok |-> FALSE]} ELSE {}
    ELSE {[parked |-> p, ok |-> TRUE]}

(* handle_compress parks whatever is asked; when the drafter cannot be      *)
(* loaded the target stays parked.                                          *)
LagunaCompress(loads) ==
    IF "target" \in parked THEN {[parked |-> parked, ok |-> loads]}
    ELSE IF loads THEN LagunaUnpark({"target"}, "target")
    ELSE {[parked |-> {"target"}, ok |-> FALSE]}

=============================================================================

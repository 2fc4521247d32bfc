---------------------------- MODULE Qwen3Backend ----------------------------
(***************************************************************************)
(* The qwen3 backend: a transformer with one key-value cache and no draft  *)
(* model.                                                                  *)
(***************************************************************************)
EXTENDS ModelBackend

(* snapshot_save frees the slot first and copies the whole cache, whatever  *)
(* its length.                                                              *)
Qwen3SaveAt(pos) == WithAlloc(Qwen3Save([cache EXCEPT !.cur_pos = pos]), TRUE)

(* generate up to its prefill.                                              *)
Qwen3Generate(req) ==
    /\ cache' = [cache EXCEPT !.cur_pos = 0]
    /\ job' = [Idle EXCEPT !.at = "prefill", !.req = req, !.exact = TRUE,
                           !.snap = req.snap_slot # NoSlot]
    /\ stream' = <<>>
    /\ UNCHANGED <<mirror, snaps, named>>

(* restore_and_generate up to the prefill of the prompt's remainder; a      *)
(* prompt shorter than the snapshot is not refused.                         *)
Qwen3RestoreAndGenerate(req, exact) ==
    LET s == snaps[req.slot]
        j == [Idle EXCEPT !.at = "prefill", !.req = req, !.committed = s.cur_pos,
                          !.exact = exact, !.snap = req.snap_slot # NoSlot]
    IN  /\ IF s.used
           THEN cache' = Qwen3Restore(s, cache) /\ job' = j /\ stream' = <<>>
           ELSE /\ cache' = cache
                /\ job' = [j EXCEPT !.at = "returned", !.ok = FALSE]
                /\ stream' = <<-1>>
        /\ UNCHANGED <<mirror, snaps, named>>

(* One chunk of do_prefill.                                                 *)
Qwen3Prefill ==
    LET kv_pos == job.committed
        n == Min({Chunk, Len(job.req.prompt) - kv_pos})
        g == Qwen3Step(cache, SubSeq(job.req.prompt, kv_pos + 1, kv_pos + n), kv_pos)
    IN  /\ Is("qwen3") /\ job.at = "prefill"
        /\ kv_pos < Len(job.req.prompt)
        /\ \/ /\ cache' = [g.cache EXCEPT !.cur_pos = kv_pos + n]
              /\ job' = [job EXCEPT !.committed = kv_pos + n]
              /\ stream' = stream
           \/ /\ MayFail("step")
              /\ cache' = FailedPass(cache, kv_pos)
              /\ Return(FALSE)
        /\ KeepSnaps
        /\ UNCHANGED <<config, mirror, parked, drafter, commands>>

(* The inline snapshot, taken after the prefill with cur_pos set back.      *)
Qwen3InlineSnap(committed) ==
    IF job.snap /\ job.req.snap_pos <= committed
    THEN \E s \in Qwen3SaveAt(job.req.snap_pos) : PutSnap(job.req.snap_slot, s)
    ELSE KeepSnaps

(* The inline snapshot and the first token, for which the last prompt token *)
(* is evaluated again at its own position.                                  *)
Qwen3First ==
    LET committed == Len(job.req.prompt)
        g == Qwen3Step(cache, <<Last(job.req.prompt)>>, committed - 1)
        at == [cache EXCEPT !.cur_pos = committed]
    IN  /\ Is("qwen3") /\ job.at = "prefill"
        /\ job.committed >= committed
        /\ Qwen3InlineSnap(committed)
        /\ \/ /\ job.req.n_gen = 0
              /\ cache' = at
              /\ ReturnMarked(TRUE)
           \/ /\ job.req.n_gen > 0
              /\ cache' = [g.cache EXCEPT !.cur_pos = committed]
              /\ \E t \in Pick(g.out[1]), a \in Accepts :
                    IF ~a \/ t = Eos \/ job.req.n_gen = 1
                    THEN /\ stream' = Append(emit(t, a), -1)
                         /\ job' = Returned(TRUE, ~a)
                    ELSE /\ stream' = emit(t, a)
                         /\ job' = [job EXCEPT !.at = "second", !.last = t, !.n = 1,
                                               !.committed = committed]
           \/ /\ job.req.n_gen > 0 /\ MayFail("step")
              /\ cache' = FailedPass(at, committed - 1)
              /\ Return(FALSE)
        /\ UNCHANGED <<config, mirror, parked, drafter, commands>>

(* The first token is evaluated where the prompt ends.                      *)
Qwen3Second ==
    LET g == Qwen3Step(cache, <<job.last>>, job.committed)
    IN  /\ Is("qwen3") /\ job.at = "second"
        /\ \/ /\ cache' = [g.cache EXCEPT !.cur_pos = job.committed + 1]
              /\ \E t \in Pick(g.out[1]) :
                    job' = [job EXCEPT !.at = "ar", !.last = t, !.committed = @ + 1]
              /\ stream' = stream
           \/ /\ MayFail("step")
              /\ cache' = FailedPass(cache, job.committed)
              /\ Return(FALSE)
        /\ KeepSnaps
        /\ UNCHANGED <<config, mirror, parked, drafter, commands>>

(* One turn of do_decode's loop: emit the next token, count it as committed *)
(* and only then evaluate it, one position after where it belongs.          *)
Qwen3Decode ==
    LET g == Qwen3Step(cache, <<job.last>>, job.committed + 1)
    IN  /\ Is("qwen3") /\ job.at = "ar"
        /\ \E a \in Accepts :
            \/ /\ ~a \/ job.last = Eos \/ job.n + 1 = job.req.n_gen
               /\ cache' = [cache EXCEPT !.cur_pos = job.committed + 1]
               /\ stream' = Append(emit(job.last, a), -1)
               /\ job' = Returned(TRUE, ~a)
            \/ /\ a /\ job.last # Eos /\ job.n + 1 < job.req.n_gen
               /\ cache' = [g.cache EXCEPT !.cur_pos = job.committed + 1]
               /\ stream' = emit(job.last, TRUE)
               /\ \E t \in Pick(g.out[1]) :
                    job' = [job EXCEPT !.last = t, !.n = @ + 1, !.committed = @ + 1]
            \/ /\ a /\ job.last # Eos /\ job.n + 1 < job.req.n_gen
               /\ MayFail("step")
               /\ cache' = [FailedPass(cache, job.committed + 1) EXCEPT !.cur_pos = job.committed + 1]
               /\ stream' = emit(job.last, TRUE)
               /\ job' = Returned(FALSE, FALSE)
        /\ KeepSnaps
        /\ UNCHANGED <<config, mirror, parked, drafter, commands>>

Qwen3Next == Qwen3Prefill \/ Qwen3First \/ Qwen3Second \/ Qwen3Decode

-----------------------------------------------------------------------------
(* Parking frees the weights only; without a name nothing is parked.        *)

Qwen3Park(what) == parked \cup IF what \in {"all", "target"} THEN {"target"} ELSE {}

Qwen3Unpark(p, what) ==
    IF what \in {"all", "target"}
    THEN {[parked |-> p \ {"target"}, ok |-> TRUE]}
         \cup IF MayFail("load") /\ "target" \in p THEN {[parked |-> p, ok |-> FALSE]} ELSE {}
    ELSE {[parked |-> p, ok |-> TRUE]}

Qwen3Compress(nopark) ==
    IF nopark \/ "target" \in parked THEN {[parked |-> parked, ok |-> TRUE]}
    ELSE Qwen3Unpark({"target"}, "target")

=============================================================================

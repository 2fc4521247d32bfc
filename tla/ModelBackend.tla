---------------------------- MODULE ModelBackend ----------------------------
(***************************************************************************)
(* What the four model backends share: the process state, the request that *)
(* is being served, the token stream of DaemonIO, and the helpers of the   *)
(* generation loops.  A backend is driven by one thread, so between two    *)
(* steps of a request nothing else runs; the steps are the passes of the   *)
(* target and of the draft, each of which may fail.                        *)
(***************************************************************************)
EXTENDS Speculation

CONSTANTS
    Kinds,         \* the architectures of the run
    Chunk,         \* prefill chunk (prefill_ubatch, cfg.chunk)
    NoSlot         \* no slot (-1)

ASSUME ChunkSize == Chunk \in Nat \ {0}

ASSUME KindsAssumption == Kinds \subseteq {"qwen35", "gemma4", "laguna", "qwen3"}

ASSUME SlotsAssumption == NoSlot \notin Slots

VARIABLES
    config,     \* the architecture and whether a draft model is configured
    cache,      \* cache_ : the target's cache
    mirror,     \* feature_mirror_ : the draft's copy of the features
    snaps,      \* prefix_snapshots_ / snapshots_
    named,      \* per slot, the tokens whose state the last inline snapshot is of
    parked,     \* the weights that are not in memory
    drafter,    \* drafter_loaded_ : the compression model is in memory
    job,        \* the request being served and the locals of its loop
    stream,     \* what emit has let through since the command began
    commands    \* commands taken so far

vars == <<config, cache, mirror, snaps, named, parked, drafter, job, stream, commands>>

NoRequest == [via |-> "none", prompt |-> <<>>, n_gen |-> 0,
              snap_pos |-> -1, snap_slot |-> NoSlot, slot |-> NoSlot]

Idle == [at |-> "idle", req |-> NoRequest, committed |-> 0, n |-> 0, last |-> -1,
         draft |-> <<>>, target |-> <<>>, saved |-> <<>>, snap |-> FALSE,
         refused |-> FALSE, exact |-> FALSE, ok |-> TRUE]

Is(kind) == config.kind = kind

-----------------------------------------------------------------------------
(* DaemonIO.                                                                *)

(* The callback of an HTTP request may refuse a token, which is then not    *)
(* written, and refuses every later one; the daemon has no callback.        *)
Accepts ==
    IF job.req.via # "http" THEN {TRUE}
    ELSE IF job.refused THEN {FALSE} ELSE BOOLEAN

emit(tok, accepted) == IF accepted THEN Append(stream, tok) ELSE stream

(* The outcomes of offering a batch in order until one is refused or is the *)
(* end token: [offered, written].                                           *)
EmitBatch(toks) ==
    LET stops == {i \in 1 .. Len(toks) : toks[i] = Eos}
        n     == IF stops = {} THEN Len(toks) ELSE Min(stops)
    IN  {[offered |-> n, written |-> SubSeq(toks, 1, n), refused |-> FALSE]}
        \cup IF FALSE \in Accepts
             THEN {[offered |-> i, written |-> SubSeq(toks, 1, i - 1), refused |-> TRUE] : i \in 1 .. n}
             ELSE {}

-----------------------------------------------------------------------------
(* Returning from generate or restore_and_generate, with or without the end *)
(* marker.                                                                  *)

Returned(ok, refused) == [job EXCEPT !.at = "returned", !.ok = ok, !.refused = refused,
                                     !.committed = 0, !.n = 0, !.last = -1, !.draft = <<>>,
                                     !.target = <<>>, !.saved = <<>>, !.snap = FALSE]

Return(ok) == job' = Returned(ok, job.refused) /\ stream' = stream

ReturnMarked(ok) == job' = Returned(ok, job.refused) /\ stream' = Append(stream, -1)

(* The end of a speculative turn: the loop ends, or goes on with t after    *)
(* what was emitted.                                                        *)
EndTurn(e, t) ==
    LET stop == e.refused \/ Last(e.written) = Eos \/ job.n + e.offered >= job.req.n_gen
    IN  /\ stream' = stream \o e.written \o IF stop THEN <<-1>> ELSE <<>>
        /\ job' = IF stop THEN Returned(TRUE, e.refused)
                  ELSE [job EXCEPT !.at = "draft", !.last = t, !.n = @ + e.offered,
                                   !.committed = @ + e.offered, !.draft = <<>>,
                                   !.target = <<>>, !.saved = <<>>]

-----------------------------------------------------------------------------
(* Inline snapshots: Save is the set of what snapshot_save may leave in the *)
(* slot.                                                                    *)

WithAlloc(new, needs_alloc) == {new} \cup IF needs_alloc /\ MayFail("alloc") THEN {NoSnap} ELSE {}

(* Of a gemma4 prompt longer than the sliding window nothing is claimed.    *)
InWindow == Is("gemma4") => Len(job.req.prompt) <= Window

PutSnap(slot, s) ==
    /\ snaps' = [snaps EXCEPT ![slot] = s]
    /\ named' = [named EXCEPT ![slot] =
                    IF s.used /\ job.exact /\ InWindow THEN SubSeq(job.req.prompt, 1, s.cur_pos)
                    ELSE <<>>]

KeepSnaps == UNCHANGED <<snaps, named>>

Drafts == BlocksAfter(job.last)

=============================================================================

----------------------------- MODULE DaemonLoop -----------------------------
(***************************************************************************)
(* The process around a backend: run_daemon reads one command at a time    *)
(* and answers on the stream, and the HTTP worker calls the same backend   *)
(* with a token callback.  A client waits for the end marker -1 of a       *)
(* command before it sends the next.                                       *)
(***************************************************************************)
EXTENDS Qwen35Backend, Gemma4Backend, LagunaBackend, Qwen3Backend

CONSTANTS
    Requests,      \* [prompt, n_gen, snap_pos, snap_slot] of the generate commands
    Vias,          \* how requests arrive: "bare", "legacy", "restore", "http", "http_restore"
    Lifecycle,     \* the other commands the run sends
    MaxCommands    \* bound on the commands of a behaviour

(* What run_daemon and the HTTP server let through: no empty prompt, no     *)
(* snapshot position below one, and a prompt and a budget within max_ctx    *)
(* (for the daemon, its clients see to that).                               *)
ASSUME RequestsAssumption ==
    \A r \in Requests :
        /\ r.prompt \in Seq(Tokens) /\ r.prompt # <<>> /\ r.n_gen \in Nat
        /\ Len(r.prompt) + r.n_gen <= MaxCtx
        /\ r.snap_slot \in Slots \cup {NoSlot}
        /\ r.snap_slot # NoSlot => r.snap_pos \in Nat \ {0}

ASSUME BoundAssumption == MaxCommands \in Nat

ASSUME ViasAssumption == Vias \subseteq {"bare", "legacy", "restore", "http", "http_restore"}

(* The mirror is made no larger than the feature buffer; by default a chunk *)
(* and a block fit in it (sync_range refuses a longer range, and the draft  *)
(* would read old features) and a prompt within the window fits the buffer. *)
SizesFit ==
    /\ RingCap <= FeatCap /\ Chunk <= RingCap /\ QLen <= RingCap
    /\ \A r \in Requests : Len(r.prompt) <= Window => Len(r.prompt) <= FeatCap

VARIABLE tick      \* alternates with the steps of a command (for Runs only)

state == <<vars, tick>>

Init ==
    /\ config \in {[kind |-> k, draft |-> d] : k \in Kinds, d \in BOOLEAN}
    /\ config.draft => config.kind \in {"qwen35", "gemma4"}
    /\ cache = NewCache(config.kind, config.draft)
    /\ mirror = Blank(RingCap, Junk)
    /\ snaps = [s \in Slots |-> NoSnap]
    /\ named = [s \in Slots |-> <<>>]
    /\ parked = {}
    /\ drafter = FALSE
    /\ job = Idle
    /\ stream = <<>>
    /\ commands = 0
    /\ tick = 0

-----------------------------------------------------------------------------
(* Requests.                                                                *)

Daemon == {"bare", "restore", "legacy"}

Restores == {"restore", "http_restore"}

generate(req) ==
    CASE Is("qwen35") -> Qwen35Generate(req)
      [] Is("gemma4") -> Gemma4Generate(req)
      [] Is("laguna") -> LagunaGenerate(req)
      [] Is("qwen3")  -> Qwen3Generate(req)

(* The client believes the slot holds the state after named[slot].  A       *)
(* gemma4 snapshot has the next token of the prompt it was taken from, so   *)
(* nothing is claimed of a speculative restore of exactly its length.       *)
Matches(req) ==
    LET p == named[req.slot]
    IN  /\ p # <<>>
        /\ IsPrefix(p, req.prompt) \/ IsPrefix(req.prompt, p)
        /\ ~(Is("gemma4") /\ config.draft /\ Len(p) = Len(req.prompt))

restore_and_generate(req) ==
    CASE Is("qwen35") -> Qwen35Restore(req, Matches(req))
      [] Is("gemma4") -> Gemma4RestoreAndGenerate(req, Matches(req))
      [] Is("laguna") -> LagunaRestore(req, Matches(req))
      [] Is("qwen3")  -> Qwen3RestoreAndGenerate(req, Matches(req))

Answered(via, ok) == [Idle EXCEPT !.at = "answered", !.req.via = via, !.ok = ok]

\* Mutant: a parked target is not refused.
Refused_Never(req) == FALSE

(* The daemon's refusals: a parked target, no tokens asked for, and a       *)
(* RESTORE of an empty slot.                                                *)
Refused(req) == \/ "target" \in parked
                \/ req.n_gen = 0
                \/ req.via = "restore" /\ ~snaps[req.slot].used

(* A generate command or call.  The HTTP worker does not look whether the   *)
(* target is in memory, so it is taken to be; saving over a thin snapshot,  *)
(* which indexes its missing tensors, is left to the client to avoid.       *)
Command ==
    \E r \in Requests, via \in Vias, slot \in Slots :
        LET req == [via |-> IF via = "http_restore" THEN "http" ELSE via,
                    prompt |-> r.prompt, n_gen |-> r.n_gen,
                    snap_pos |-> r.snap_pos, snap_slot |-> r.snap_slot,
                    slot |-> IF via \in Restores THEN slot ELSE NoSlot]
        IN  /\ job.at = "idle" /\ commands < MaxCommands
            /\ via = "legacy" => r.snap_slot = NoSlot
            /\ via = "http_restore" => snaps[slot].used
            /\ req.via = "http" => "target" \notin parked \/ Is("gemma4")
            /\ r.snap_slot # NoSlot => ~snaps[r.snap_slot].thin
            /\ commands' = commands + 1
            /\ IF via \in Daemon /\ Refused(req)
               THEN /\ job' = Answered(via, FALSE)
                    /\ stream' = IF via = "legacy" /\ "target" \notin parked THEN <<>> ELSE <<-1>>
                    /\ UNCHANGED <<cache, mirror, snaps, named>>
               ELSE IF via \in Restores THEN restore_and_generate(req) ELSE generate(req)
            /\ UNCHANGED <<config, parked, drafter>>

\* Mutant: an error of the backend is not followed by an end marker.
Marker_None(via, ok) == <<>>

(* The marker the loop adds to a failed streamed request.                   *)
Marker(via, ok) == IF via \in {"bare", "restore"} /\ ~ok THEN <<-1>> ELSE <<>>

(* The backend returned.                                                    *)
Reply ==
    /\ job.at = "returned"
    /\ job' = [job EXCEPT !.at = "answered"]
    /\ stream' = stream \o Marker(job.req.via, job.ok)
    /\ UNCHANGED <<config, cache, mirror, snaps, named, parked, drafter, commands>>

(* The client has seen the answer; the loop reads the next line.            *)
Continue ==
    /\ job.at = "answered"
    /\ job' = Idle
    /\ stream' = <<>>
    /\ UNCHANGED <<config, cache, mirror, snaps, named, parked, drafter, commands>>

-----------------------------------------------------------------------------
(* Lifecycle and snapshot commands.                                         *)

Takes(cmd) == job.at = "idle" /\ commands < MaxCommands /\ cmd \in Lifecycle
              /\ commands' = commands + 1

(* What parking does to the rest: gemma4 frees snapshots and cache, laguna  *)
(* its cache.  Unparking creates a new cache, gemma4's without features.    *)
AfterPark(p) ==
    IF Is("gemma4") /\ "target" \in p \ parked
    THEN /\ cache' = Gemma4Cache(FALSE)
         /\ snaps' = [s \in Slots |-> NoSnap]
         /\ named' = [s \in Slots |-> <<>>]
    ELSE /\ cache' = IF Is("laguna") /\ "target" \in p \ parked THEN LagunaCache ELSE cache
         /\ KeepSnaps

park(what) ==
    CASE Is("qwen35") -> Qwen35Park(what)
      [] Is("gemma4") -> Gemma4Park
      [] Is("laguna") -> LagunaPark(what)
      [] Is("qwen3")  -> Qwen3Park(what)

unpark(p, what) ==
    CASE Is("qwen35") -> Qwen35Unpark(p, what)
      [] Is("gemma4") -> Gemma4Unpark(p)
      [] Is("laguna") -> LagunaUnpark(p, what)
      [] Is("qwen3")  -> Qwen3Unpark(p, what)

Park(what) ==
    /\ Takes("park")
    /\ parked' = park(what)
    /\ AfterPark(parked')
    /\ job' = Answered("park", TRUE)
    /\ stream' = <<-1>>
    /\ UNCHANGED <<config, mirror, drafter>>

Unpark(what) ==
    /\ Takes("unpark")
    /\ \E r \in unpark(parked, what) : parked' = r.parked /\ job' = Answered("unpark", r.ok)
    /\ stream' = <<-1>>
    /\ UNCHANGED <<config, cache, mirror, snaps, named, drafter>>

FreeDrafter ==
    /\ Takes("free_drafter")
    /\ drafter' = FALSE
    /\ job' = Answered("free_drafter", TRUE)
    /\ stream' = <<-1>>
    /\ UNCHANGED <<config, cache, mirror, snaps, named, parked>>

(* compress: the target makes room for the drafter and comes back, if it    *)
(* can be loaded.  ok says whether every load succeeded; the client only    *)
(* sees the end marker.                                                     *)
Compress(nopark) ==
    \E loads \in IF drafter \/ ~MayFail("load") THEN {TRUE} ELSE BOOLEAN :
    \E r \in CASE Is("qwen35") -> Qwen35Compress(nopark)
               [] Is("gemma4") -> Gemma4Compress(nopark)
               [] Is("laguna") -> LagunaCompress(loads)
               [] Is("qwen3")  -> Qwen3Compress(nopark) :
        /\ Takes("compress")
        /\ parked' = r.parked
        /\ drafter' = loads
        /\ AfterPark(IF nopark /\ ~Is("laguna") THEN parked ELSE {"target"} \cup parked)
        /\ job' = Answered("compress", loads /\ r.ok)
        /\ stream' = <<-1>>
        /\ UNCHANGED <<config, mirror>>

Save(slot) ==
    CASE Is("qwen35") -> Qwen35Save(snaps[slot])
      [] Is("gemma4") -> Gemma4SaveAt(cache.cur_pos, snaps[slot])
      [] Is("laguna") -> LagunaSave(snaps[slot])
      [] Is("qwen3")  -> Qwen3SaveAt(cache.cur_pos)

(* SNAPSHOT names no prefix: nothing is claimed of its content.  A cache    *)
(* that ran past its end has no view to copy from, so it is not sent then.  *)
SnapshotCmd(slot) ==
    /\ Takes("snapshot") /\ ~snaps[slot].thin /\ cache.cur_pos <= MaxCtx
    /\ \E s \in Save(slot) :
        /\ snaps' = [snaps EXCEPT ![slot] = s]
        /\ named' = [named EXCEPT ![slot] = IF s = snaps[slot] THEN @ ELSE <<>>]
    /\ job' = Answered("snapshot", TRUE)
    /\ UNCHANGED <<config, cache, mirror, parked, drafter, stream>>

FreeSnapshot(slot) ==
    /\ Takes("free_snapshot")
    /\ snaps' = [snaps EXCEPT ![slot] = NoSnap]
    /\ named' = [named EXCEPT ![slot] = <<>>]
    /\ job' = Answered("free_snapshot", TRUE)
    /\ UNCHANGED <<config, cache, mirror, parked, drafter, stream>>

(* SNAPSHOT_THIN frees the slot first.                                      *)
SnapshotThin(slot) ==
    /\ Takes("snapshot_thin") /\ Is("qwen35") /\ cache.cur_pos <= MaxCtx
    /\ \E s \in IF cache.cur_pos <= 0 THEN {NoSnap}
                ELSE WithAlloc(snapshot_target_cache_thin(cache), TRUE) :
        snaps' = [snaps EXCEPT ![slot] = s]
    /\ named' = [named EXCEPT ![slot] = <<>>]
    /\ job' = Answered("snapshot_thin", TRUE)
    /\ stream' = <<-1>>
    /\ UNCHANGED <<config, cache, mirror, parked, drafter>>

Lines == \/ \E what \in {"", "target", "draft"} : Park(what) \/ Unpark(what)
         \/ FreeDrafter
         \/ \E nopark \in BOOLEAN : Compress(nopark)
         \/ \E slot \in Slots : SnapshotCmd(slot) \/ FreeSnapshot(slot) \/ SnapshotThin(slot)

Work == \/ (Qwen35Next \/ Gemma4Next \/ LagunaNext \/ Qwen3Next \/ Reply) /\ tick' = 1 - tick
        \/ Continue /\ tick' = 0

(* The client stops sending commands.                                       *)
Quiet == job.at = "idle" /\ UNCHANGED state

Next == ((Command \/ Lines) /\ tick' = 0) \/ Work \/ Quiet

(* The single thread runs on while a command is being served.  Work is then *)
(* all that can happen and each of its steps changes tick, so this says     *)
(* what WF_state(Work) says, without the cost of its ENABLED.               *)
Runs == []<>(job.at = "idle") \/ []<><<TRUE>>_state

Spec == Init /\ [][Next]_state /\ Runs

-----------------------------------------------------------------------------
(* Properties.                                                              *)

Serving == job.req.via \in {"bare", "restore", "legacy", "http"}

(* The tokens before the first marker.                                      *)
Written ==
    LET marks == {i \in 1 .. Len(stream) : stream[i] = -1}
    IN  IF marks = {} THEN stream ELSE SubSeq(stream, 1, Min(marks) - 1)

CanSpec == (Is("qwen35") /\ Qwen35CanSpec) \/ (Is("gemma4") /\ Gemma4CanSpec)

(* A speculative step evaluates a whole block past the committed tokens.    *)
Room == Len(job.req.prompt) + job.req.n_gen + IF CanSpec THEN QLen - 1 ELSE 0

(* A batch that reaches past gemma4's sliding window overwrites positions   *)
(* its own tokens attend to; only single tokens may.                        *)
Fits == /\ Room <= MaxCtx
        /\ Is("gemma4") => (IF CanSpec THEN Room ELSE Len(job.req.prompt)) <= Window

(* How many tokens of an answer are the model's own: the fallback loops of  *)
(* qwen35 and qwen3 evaluate the second and the third token one position    *)
(* too far.                                                                 *)
Claimed == CASE Is("qwen35") /\ ~CanSpec -> 1
             [] Is("qwen3")              -> 2
             [] OTHER                    -> job.req.n_gen

(***************************************************************************)
(* Type correctness of the process state.                                  *)
(***************************************************************************)
TypeOK ==
    /\ config \in [kind : Kinds, draft : BOOLEAN]
    /\ cache.cur_pos \in Nat /\ cache.last_tok \in Tokens \cup {-1}
    /\ Len(cache.kv) <= MaxCtx /\ Len(mirror) = RingCap
    /\ DOMAIN snaps = Slots /\ DOMAIN named = Slots
    /\ parked \subseteq {"target", "draft"} /\ drafter \in BOOLEAN
    /\ job.at \in {"idle", "prefill", "draft", "commit", "ar", "second", "returned", "answered"}
    /\ \A i \in DOMAIN stream : stream[i] \in Tokens \cup {-1}
    /\ commands \in 0 .. MaxCommands /\ tick \in {0, 1}

(***************************************************************************)
(* What is streamed is what the target alone would have generated from the *)
(* prompt, whatever the draft proposed, whether the prompt was evaluated   *)
(* from its start or continued from the inline snapshot of a prefix, and   *)
(* whatever was cancelled, failed or parked before.                        *)
(***************************************************************************)
OutputIsGreedy ==
    Serving /\ job.exact /\ Fits =>
        \A i \in 1 .. Min({Len(Written), Claimed}) :
            Written[i] = Predict(job.req.prompt \o SubSeq(Written, 1, i - 1))

(***************************************************************************)
(* No request yields more than n_gen tokens, cancelled or failed ones      *)
(* included, nor a token after the end token or after an end marker.       *)
(***************************************************************************)
AnswerInBudget ==
    /\ Serving => Len(Written) <= job.req.n_gen
    /\ \A i \in Len(Written) + 1 .. Len(stream) : stream[i] = -1
    /\ \A i \in 1 .. Len(Written) - 1 : Written[i] # Eos

(***************************************************************************)
(* A request that succeeds and is not cancelled yields n_gen tokens or     *)
(* stops at the end token.                                                 *)
(***************************************************************************)
AnswerComplete ==
    Serving /\ job.at = "answered" /\ job.ok /\ ~job.refused
    /\ job.exact /\ Fits /\ job.req.n_gen <= Claimed
    /\ ~(Is("laguna") /\ job.req.via = "legacy") =>
        \/ Len(Written) = job.req.n_gen
        \/ Len(Written) > 0 /\ Last(Written) = Eos
        \/ Is("laguna") /\ Predict(job.req.prompt \o Written) = Eos

(***************************************************************************)
(* When a speculative turn begins, the rows of the cache, qwen35's         *)
(* recurrent state and the pending token are those of the prompt and the   *)
(* tokens streamed so far: nothing of the rejected drafts is left.         *)
(***************************************************************************)
CacheAgrees ==
    job.at = "draft" /\ job.exact /\ Fits =>
        LET ctx == job.req.prompt \o Written
        IN  /\ Len(ctx) = job.committed /\ cache.cur_pos = job.committed
            /\ cache.kv = ctx
            /\ Is("qwen35") => cache.ssm = ctx
            /\ job.last = Predict(ctx)

(***************************************************************************)
(* The features the draft reads are those of the last positions of the     *)
(* same context: after a fresh prompt (qwen35), and after a restore too    *)
(* (gemma4) as long as the feature buffer was not lost to a park.          *)
(***************************************************************************)
DraftSeesContext ==
    job.at = "draft" /\ job.exact /\ Fits
    /\ ((Is("qwen35") /\ job.req.slot = NoSlot) \/ (Is("gemma4") /\ HasFeat)) =>
        LET ctx == job.req.prompt \o Written
            seen == DraftContext(mirror, job.committed)
        IN  \A i \in DOMAIN seen : seen[i] = SubSeq(ctx, 1, Len(ctx) - Len(seen) + i)

(***************************************************************************)
(* A slot whose inline snapshot was reported keeps the state after exactly *)
(* the prefix it was reported for, whatever the cache is used for next,    *)
(* until the slot is saved to again or freed.                              *)
(***************************************************************************)
SnapshotsKeepTheirPrefix ==
    \A s \in Slots : named[s] # <<>> =>
        /\ snaps[s].used /\ snaps[s].cur_pos = Len(named[s])
        /\ SubSeq(snaps[s].kv, 1, snaps[s].cur_pos) = named[s]
        /\ Is("qwen35") => snaps[s].ssm = named[s] /\ snaps[s].last_tok = Predict(named[s])

(***************************************************************************)
(* Every answer of the daemon to a streamed request ends with the marker   *)
(* the client waits for, and an answer to a request that succeeded has no  *)
(* other.                                                                  *)
(***************************************************************************)
EndMarkers ==
    job.at = "answered" /\ job.req.via \in {"bare", "restore"} =>
        /\ stream # <<>> /\ Last(stream) = -1
        /\ job.ok => \A i \in 1 .. Len(stream) - 1 : stream[i] # -1

(***************************************************************************)
(* A pass of the target or the draft runs only while its weights are in    *)
(* memory.                                                                 *)
(***************************************************************************)
WeightsInMemory ==
    /\ job.at \in {"prefill", "draft", "commit", "ar", "second"} => "target" \notin parked
    /\ job.at \in {"draft", "commit"} => "draft" \notin parked

(***************************************************************************)
(* A compression during which every load succeeds leaves the models in     *)
(* memory that were there before.                                          *)
(***************************************************************************)
CompressKeepsParked ==
    [][job'.req.via = "compress" /\ job.at = "idle" /\ job'.ok /\ (config.draft \/ ~Is("qwen35"))
        => parked' = parked]_state

(***************************************************************************)
(* Every command is answered: no generation loop runs for ever.            *)
(***************************************************************************)
CommandsEnd == (job.at # "idle") ~> (job.at = "idle")

(***************************************************************************)
(* An answer is the greedy continuation of its prompt and all of it.       *)
(***************************************************************************)
AnswerIsRight == OutputIsGreedy /\ AnswerInBudget /\ AnswerComplete

(***************************************************************************)
(* The rows of the cache and the features in the mirror are those of the   *)
(* tokens committed so far.                                                *)
(***************************************************************************)
StateInv == TypeOK /\ CacheAgrees /\ DraftSeesContext

(***************************************************************************)
(* No pass on parked weights, and compression brings back what it parked.  *)
(***************************************************************************)
ParkingKept == []WeightsInMemory /\ CompressKeepsParked

=============================================================================

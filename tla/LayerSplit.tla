----------------------------- MODULE LayerSplit -----------------------------
(***************************************************************************)
(* The qwen35 target with its layers spread over several devices, decoding *)
(* speculatively with a draft in the same process (the daemon) or in       *)
(* another one (the test driver, over DraftIpc).  Every pass of the target *)
(* sends the features of each captured layer, chunk by chunk, to the       *)
(* draft's ring, those of rejected tokens included.                        *)
(***************************************************************************)
EXTENDS DraftIpc

CONSTANTS
    Requests,      \* [prompt, n_gen]
    Ubatch,        \* prefill chunk (DFLASH27B_PREFILL_UBATCH)
    DraftCtx,      \* the draft's longest context (draft_ctx_max)
    MaxRequests,   \* bound on the requests of a behaviour
    MaxLayers      \* bound on the layers LayersCovered looks at

(* A request with an empty prompt is turned down before anything is done.   *)
ASSUME RequestsAssumption ==
    \A r \in Requests : /\ r.prompt \in Seq(Tokens) /\ r.prompt # <<>>
                        /\ r.n_gen \in Nat

ASSUME SplitSizes == {Ubatch, DraftCtx, MaxRequests, MaxLayers} \subseteq Nat \ {0}

VARIABLES
    mode,      \* remote: use_remote_draft; spec: run_dflash
    cache,     \* the shards' caches, taken together
    pass,      \* the forward pass in progress
    run,       \* the request and the locals of its loop
    out        \* the tokens generated, with the daemon's end marker

vars == <<ipcVars, mode, cache, pass, run, out>>

-----------------------------------------------------------------------------
(* Which device has which layers.                                           *)

SumTo(w, i) ==
    LET sum[j \in 0 .. Len(w)] == IF j = 0 THEN 0 ELSE sum[j - 1] + w[j]
    IN  sum[i]

\* Mutant: no layer is kept back for the devices that follow.
RangeEnd_NoMax(n_layer, w, i, begin) ==
    LET end == IF i = Len(w) THEN n_layer
               ELSE (2 * SumTo(w, i) * n_layer + SumTo(w, Len(w))) \div (2 * SumTo(w, Len(w)))
    IN  Max({begin + 1, end})

(* llround of the share so far, kept between one layer for this device and  *)
(* one for each device after it.                                            *)
RangeEnd(n_layer, w, i, begin) ==
    LET end == IF i = Len(w) THEN n_layer
               ELSE (2 * SumTo(w, i) * n_layer + SumTo(w, Len(w))) \div (2 * SumTo(w, Len(w)))
    IN  Max({begin + 1, Min({n_layer - (Len(w) - i), end})})

compute_layer_ranges(n_layer, w) ==
    IF Len(w) > n_layer \/ SumTo(w, Len(w)) <= 0 THEN <<>>
    ELSE LET ends[i \in 0 .. Len(w)] ==
                 IF i = 0 THEN 0 ELSE RangeEnd(n_layer, w, i, ends[i - 1])
         IN  [i \in 1 .. Len(w) |-> [begin |-> ends[i - 1], end |-> ends[i]]]

(* The devices whose shard owns a layer; the pass takes the first.          *)
Owners(ranges, il) == {i \in DOMAIN ranges : il \in ranges[i].begin .. ranges[i].end - 1}

-----------------------------------------------------------------------------
(* One pass of the target.                                                  *)

NoPass == [toks |-> <<>>, base |-> 0, ubatch |-> 1, k |-> 0]

NewPass(toks, base, ubatch) == [toks |-> toks, base |-> base, ubatch |-> ubatch, k |-> 1]

Graph == Qwen35Graph(cache, pass.toks, pass.base)

NChunks == (Len(pass.toks) + pass.ubatch - 1) \div pass.ubatch

(* The copies a pass makes, layer by layer and chunk by chunk.              *)
NCopies == IF mode.spec THEN NCapture * NChunks ELSE 0

CopyNo(k) == LET chunk == (k - 1) % NChunks IN
    [capture |-> (k - 1) \div NChunks + 1, from |-> chunk * pass.ubatch,
     n |-> Lesser(pass.ubatch, Len(pass.toks) - chunk * pass.ubatch)]

Slice(c) == SubSeq(Graph.out, c.from + 1, c.from + c.n)

Passing == pass.k > 0 /\ pass.k <= NCopies

PassDone == pass.k > NCopies /\ call.at = "idle"

(* copy_capture_slice_to_draft_ring.                                        *)
CopyLocal ==
    /\ Passing /\ ~mode.remote
    /\ LET c == CopyNo(pass.k)
       IN  features' = WriteSlice(features, c.capture, pass.base + c.from, Slice(c))
    /\ pass' = [pass EXCEPT !.k = @ + 1]
    /\ UNCHANGED <<client, call, child, lines, piped, answers, work, files, mode, cache, run, out>>

(* copy_capture_slice_to_remote_draft; an inactive client is passed over.   *)
CopyRemote ==
    /\ Passing /\ mode.remote /\ call.at = "idle"
    /\ LET c == CopyNo(pass.k)
       IN  call' = [NoCall EXCEPT !.op = "feature_slice", !.at = "begin", !.capture = c.capture,
                                  !.start = pass.base + c.from, !.n = c.n, !.data = Slice(c)]
    /\ UNCHANGED <<client, child, lines, piped, answers, work, files, features, mode, cache,
                   pass, run, out>>

CopiedRemote ==
    /\ Passing /\ call.at = "done" /\ call.op = "feature_slice" /\ call.ok
    /\ call' = NoCall
    /\ pass' = [pass EXCEPT !.k = @ + 1]
    /\ UNCHANGED <<client, child, lines, piped, answers, work, files, features, mode, cache, run, out>>

-----------------------------------------------------------------------------
(* The process and its requests.                                            *)

NoRun == [at |-> "begin", prompt |-> <<>>, n_gen |-> 0, n |-> 0, last |-> -1, committed |-> 0,
          draft |-> <<>>, target |-> <<>>, saved |-> <<>>, seen |-> <<>>, top |-> 0,
          ok |-> FALSE, requests |-> 0]

SplitCache == [Qwen35Cache EXCEPT !.feat = <<>>]

Init ==
    /\ IpcInit
    /\ mode \in [remote : BOOLEAN, spec : BOOLEAN] /\ (mode.remote => mode.spec)
    /\ cache = SplitCache
    /\ pass = NoPass
    /\ run = NoRun
    /\ out = <<>>

KeepIpc == UNCHANGED ipcVars

KeepDaemonSide == UNCHANGED <<client, child, lines, piped, answers, work, files, features>>

(* The driver starts the draft's process first; a daemon has its own ring.  *)
Begin ==
    /\ run.at = "begin"
    /\ IF mode.remote
       THEN /\ call' = [NoCall EXCEPT !.op = "start", !.at = "begin"]
            /\ run' = [run EXCEPT !.at = "start"]
       ELSE call' = call /\ run' = [run EXCEPT !.at = "idle"]
    /\ KeepDaemonSide
    /\ UNCHANGED <<mode, cache, pass, out>>

Started ==
    /\ run.at = "start" /\ call.at = "done"
    /\ call' = NoCall
    /\ run' = [run EXCEPT !.at = IF call.ok THEN "idle" ELSE "closing"]
    /\ KeepDaemonSide
    /\ UNCHANGED <<mode, cache, pass, out>>

Returned(ok) == [run EXCEPT !.at = "returned", !.ok = ok]

Marked(toks) == IF mode.remote THEN toks ELSE Append(toks, -1)

(* A request: the caches are cleared and the prompt is evaluated, unless it *)
(* and its answer do not fit; then not even a marker is written.            *)
Request ==
    \E r \in Requests :
        /\ run.at = "idle"
        /\ run.requests < IF mode.remote THEN 1 ELSE MaxRequests
        /\ out' = <<>>
        /\ cache' = SplitCache
        /\ LET new == [NoRun EXCEPT !.at = "prefill", !.prompt = r.prompt, !.n_gen = r.n_gen,
                                    !.committed = Len(r.prompt), !.requests = run.requests + 1]
           IN  IF Len(r.prompt) + r.n_gen + 1 > MaxCtx
               THEN run' = [new EXCEPT !.at = "returned"] /\ pass' = NoPass
               ELSE run' = new /\ pass' = NewPass(r.prompt, 0, Ubatch)
        /\ KeepIpc /\ UNCHANGED mode

(* A line that is no request, an unsupported command included.              *)
RejectLine ==
    /\ run.at = "idle" /\ ~mode.remote /\ run.requests < MaxRequests
    /\ run' = [NoRun EXCEPT !.at = "returned", !.requests = run.requests + 1]
    /\ out' = <<-1>>
    /\ KeepIpc /\ UNCHANGED <<mode, cache, pass>>

Prefilled ==
    /\ run.at = "prefill" /\ PassDone
    /\ cache' = Graph.cache
    /\ \E t \in Pick(Last(Graph.out)) :
        run' = [run EXCEPT !.at = IF mode.spec THEN "draft" ELSE "ar", !.last = t, !.top = run.committed]
    /\ pass' = NoPass
    /\ KeepIpc /\ UNCHANGED <<mode, out>>

(* A pass fails at some layer, or its copy to the other process does.  What *)
(* the verification did to the recurrent state is taken back.               *)
PassFails ==
    /\ pass.k > 0
    /\ \/ MayFail("step") /\ call.at = "idle"
       \/ call.at = "done" /\ call.op = "feature_slice" /\ ~call.ok
    /\ cache' = [Qwen35FailedPass(cache, pass.base) EXCEPT
                    !.ssm = IF run.at = "verify" THEN run.saved ELSE @]
    /\ run' = Returned(FALSE)
    /\ out' = IF run.at = "prefill" THEN out ELSE Marked(out)
    /\ pass' = NoPass
    /\ call' = NoCall
    /\ KeepDaemonSide /\ UNCHANGED mode

-----------------------------------------------------------------------------
(* run_dflash_spec_decode.                                                  *)

Finished == run.n >= run.n_gen

SpecEnd ==
    /\ run.at = "draft" /\ Finished
    /\ run' = Returned(TRUE)
    /\ out' = Marked(out)
    /\ KeepIpc /\ UNCHANGED <<mode, cache, pass>>

CtxLen == Min({run.committed, RingCap, DraftCtx})

(* What the draft's answer leads to: a block, and its verification after    *)
(* snapshot_kv.                                                             *)
Verify(seen) ==
    \E d \in BlocksAfter(run.last) :
        /\ run' = [run EXCEPT !.at = "verify", !.draft = d, !.saved = cache.ssm, !.seen = seen]
        /\ pass' = NewPass(d, run.committed, QLen)

DraftLocal ==
    /\ run.at = "draft" /\ ~Finished /\ ~mode.remote
    /\ \/ Verify(ReadRing(features, run.committed, CtxLen)) /\ out' = out
       \/ MayFail("draft") /\ run' = Returned(FALSE) /\ out' = Marked(out) /\ pass' = pass
    /\ KeepIpc /\ UNCHANGED <<mode, cache>>

Propose ==
    /\ run.at = "draft" /\ ~Finished /\ mode.remote /\ call.at = "idle"
    /\ call' = [NoCall EXCEPT !.op = "propose", !.at = "begin",
                              !.start = run.committed, !.n = CtxLen, !.data = <<Junk>>]
    /\ KeepDaemonSide
    /\ UNCHANGED <<mode, cache, pass, run, out>>

Proposed ==
    /\ run.at = "draft" /\ call.op = "propose" /\ call.at = "done"
    /\ call' = NoCall
    /\ IF call.ok THEN Verify(call.hidden.seen) ELSE run' = Returned(FALSE) /\ pass' = pass
    /\ KeepDaemonSide
    /\ UNCHANGED <<mode, cache, out>>

\* Mutant: the recurrent state is not rolled back before the replay.
Verified_NoRestore ==
    /\ run.at = "verify" /\ PassDone
    /\ cache' = Graph.cache
    /\ \E t \in Picks(Graph.out) :
        LET accept_n == AcceptN(run.draft, t)
            commit_n == CommitN(accept_n, run.n_gen - run.n)
        IN  /\ run' = [run EXCEPT !.at = "replay", !.target = t, !.top = run.committed + QLen]
            /\ pass' = NewPass(CommitTokens(run.draft, t, accept_n, commit_n), run.committed, commit_n)
    /\ KeepIpc /\ UNCHANGED <<mode, out>>

(* Acceptance, restore_kv and the replay of what was accepted.              *)
Verified ==
    /\ run.at = "verify" /\ PassDone
    /\ cache' = [Graph.cache EXCEPT !.ssm = run.saved]
    /\ \E t \in Picks(Graph.out) :
        LET accept_n == AcceptN(run.draft, t)
            commit_n == CommitN(accept_n, run.n_gen - run.n)
        IN  /\ run' = [run EXCEPT !.at = "replay", !.target = t, !.top = run.committed + QLen]
            /\ pass' = NewPass(CommitTokens(run.draft, t, accept_n, commit_n), run.committed, commit_n)
    /\ KeepIpc /\ UNCHANGED <<mode, out>>

(* All that was replayed is emitted, what follows an end token included.    *)
Replayed ==
    /\ run.at = "replay" /\ PassDone
    /\ cache' = Graph.cache
    /\ \E t \in Pick(Last(Graph.out)) :
        LET next == [run EXCEPT !.at = "draft", !.last = t, !.n = @ + Len(pass.toks),
                                !.committed = @ + Len(pass.toks), !.draft = <<>>,
                                !.target = <<>>, !.saved = <<>>, !.seen = <<>>]
        IN  IF Eos \in ToSet(pass.toks)
            THEN run' = [next EXCEPT !.at = "returned", !.ok = TRUE] /\ out' = Marked(out \o pass.toks)
            ELSE run' = next /\ out' = out \o pass.toks
    /\ pass' = NoPass
    /\ KeepIpc /\ UNCHANGED mode

-----------------------------------------------------------------------------
(* The plain loop of a daemon without speculation.                          *)

\* Mutant: the end token does not end the loop.
ArEnds_NoEos == run.n + 1 >= run.n_gen

ArEnds == run.n + 1 >= run.n_gen \/ run.last = Eos

ArBegin ==
    /\ run.at = "ar" /\ pass.k = 0
    /\ IF Finished THEN run' = Returned(TRUE) /\ out' = Marked(out) /\ pass' = pass
       ELSE pass' = NewPass(<<run.last>>, run.committed, 1) /\ UNCHANGED <<run, out>>
    /\ KeepIpc /\ UNCHANGED <<mode, cache>>

(* The token is emitted once it has been evaluated.                         *)
ArStepped ==
    /\ run.at = "ar" /\ pass.k > 0 /\ PassDone
    /\ cache' = Graph.cache
    /\ \E t \in Pick(Last(Graph.out)) :
        IF ArEnds
        THEN run' = Returned(TRUE) /\ out' = Marked(Append(out, run.last))
        ELSE /\ run' = [run EXCEPT !.last = t, !.n = @ + 1, !.committed = @ + 1]
             /\ out' = Append(out, run.last)
    /\ pass' = NoPass
    /\ KeepIpc /\ UNCHANGED mode

-----------------------------------------------------------------------------
(* The end of a request and of the process.                                 *)

Answered ==
    /\ run.at = "returned"
    /\ run' = [NoRun EXCEPT !.at = IF mode.remote THEN "closing" ELSE "idle",
                            !.requests = run.requests]
    /\ KeepIpc /\ UNCHANGED <<mode, cache, pass, out>>

(* The client object is destroyed when the driver returns.                  *)
Close ==
    /\ run.at = "closing" /\ call.at = "idle"
    /\ call' = [NoCall EXCEPT !.op = "close", !.at = "closing"]
    /\ KeepDaemonSide
    /\ UNCHANGED <<mode, cache, pass, run, out>>

Exit ==
    /\ run.at = "closing" /\ call.op = "close" /\ call.at = "done"
    /\ run' = [run EXCEPT !.at = "exited"]
    /\ UNCHANGED <<ipcVars, mode, cache, pass, out>>

(* End of input.                                                            *)
Leave ==
    /\ run.at = "idle" /\ ~mode.remote
    /\ run' = [run EXCEPT !.at = "exited"]
    /\ UNCHANGED <<ipcVars, mode, cache, pass, out>>

Parent == Begin \/ Started \/ CopyLocal \/ CopyRemote \/ CopiedRemote \/ Prefilled \/ PassFails
          \/ SpecEnd \/ DraftLocal \/ Propose \/ Proposed \/ Verified \/ Replayed
          \/ ArBegin \/ ArStepped \/ Answered \/ Close \/ Exit

KeepParent == UNCHANGED <<mode, cache, pass, run, out>>

(* The driver has its request from the start; a daemon's client may stop.   *)
ParentWork == Parent \/ (ClientStep /\ KeepParent) \/ (mode.remote /\ Request)

DaemonWork == DaemonStep /\ KeepParent

Over == (Killed \/ run.at = "exited") /\ child \notin Alive /\ UNCHANGED vars

Next == ParentWork \/ DaemonWork \/ (Crash /\ KeepParent) \/ Request \/ RejectLine \/ Leave \/ Over

(* Where the parent has nothing to do: it waits for the other process or    *)
(* for a request, or it is over.                                            *)
ParentWaits ==
    \/ call.at \in {"await", "payload"} /\ ~StreamEnded /\ answers = <<>>
    \/ call.at = "wait" /\ child \in Alive
    \/ run.at = "idle" /\ ~mode.remote
    \/ run.at = "exited" \/ Killed

(* Both processes are scheduled.  The parent's condition is WF_vars of      *)
(* ParentWork with the states in which it is disabled spelled out, which    *)
(* spares TLC its ENABLED.                                                  *)
Fairness == /\ []<>ParentWaits \/ []<><<ParentWork>>_vars
            /\ WF_vars(DaemonWork)

Spec == Init /\ [][Next]_vars /\ Fairness

-----------------------------------------------------------------------------
(* Properties.                                                              *)

Serving == run.at \in {"prefill", "draft", "verify", "replay", "ar", "returned"}

(* The answer without its end marker.                                       *)
Written == IF out # <<>> /\ Last(out) = -1 THEN Front(out) ELSE out

(* A speculative pass writes a whole block past the committed tokens.       *)
Fits == Len(run.prompt) + run.n_gen + (IF mode.spec THEN QLen - 1 ELSE 0) <= MaxCtx

(***************************************************************************)
(* Type correctness.                                                       *)
(***************************************************************************)
TypeOK ==
    /\ child \in Alive \cup {"none", "zombie"}
    /\ piped \in [cmd : BOOLEAN, stream : BOOLEAN]
    /\ Len(features) = RingCap /\ \A s \in 1 .. RingCap : Len(features[s]) = NCapture
    /\ Len(answers) <= 2 /\ Len(lines) <= 1
    /\ run.at \in {"begin", "start", "idle", "prefill", "draft", "verify", "replay", "ar",
                   "returned", "closing", "exited"}
    /\ Len(cache.kv) <= MaxCtx
    /\ run.last \in Tokens \cup {-1}

(***************************************************************************)
(* What is generated is what the target alone would have, whatever the     *)
(* draft proposes and whichever process dies.                              *)
(***************************************************************************)
OutputIsGreedy ==
    Serving /\ Fits =>
        \A i \in DOMAIN Written :
            Written[i] = Predict(run.prompt \o SubSeq(Written, 1, i - 1))

(***************************************************************************)
(* An answer has n_gen tokens or reaches the end token, which ends the     *)
(* plain loop at once, and is never longer; an answer of the daemon that   *)
(* got past its prefill ends with one marker.                              *)
(***************************************************************************)
AnswerComplete ==
    /\ Serving => Len(Written) <= run.n_gen
    /\ run.at = "returned" /\ run.ok => Len(Written) = run.n_gen \/ Eos \in ToSet(Written)
    /\ Serving /\ ~mode.spec => \A i \in 1 .. Len(Written) - 1 : Written[i] # Eos
    /\ Serving => ToSet(Written) \subseteq Tokens
    /\ run.at = "returned" /\ ~mode.remote /\ run.last # -1 =>
          Last(out) = -1 /\ Len(out) = Len(Written) + 1

(***************************************************************************)
(* The rows the draft reads are the features, of every captured layer, of  *)
(* the last positions of the prompt and what was generated, except the     *)
(* oldest ones, whose slots the last rejected tokens have taken.           *)
(***************************************************************************)
DraftSeesContext ==
    run.at = "verify" /\ Fits =>
        LET ctx == run.prompt \o Written
            n   == Len(run.seen)
        IN  \A i \in 1 .. n :
              LET p == Len(ctx) - n + i IN
              p - 1 + RingCap >= run.top =>
                  \A c \in 1 .. NCapture : run.seen[i][c] = SubSeq(ctx, 1, p)

(***************************************************************************)
(* However the weights of the split are chosen, every layer has exactly    *)
(* one device, no device is without a layer, the layers pass through the   *)
(* devices in order and the last one, which has the output weights, also   *)
(* has the last layer.                                                     *)
(***************************************************************************)
LayersCovered ==
    run.at = "begin" => \A n \in 1 .. MaxLayers, g \in 1 .. MaxLayers : \A w \in [1 .. g -> 0 .. 3] :
        g <= n /\ SumTo(w, g) > 0 =>
            LET r == compute_layer_ranges(n, w)
            IN  /\ \A i \in 1 .. g : r[i].begin < r[i].end
                /\ \A il \in 0 .. n - 1 : \E i \in 1 .. g : Owners(r, il) = {i}
                /\ r[g].end = n
                /\ \A i \in 1 .. g - 1 : r[i].end = r[i + 1].begin

(***************************************************************************)
(* Whatever dies, every request comes to its end, the driver ends, and the *)
(* child does not outlive it.                                              *)
(***************************************************************************)
EverythingEnds ==
    /\ Serving ~> run.at \in {"idle", "closing"} \/ Killed
    /\ mode.remote ~> run.at = "exited" \/ Killed
    /\ run.at = "exited" \/ Killed ~> child \notin Alive

(***************************************************************************)
(* An answer is the greedy continuation of its prompt and all of it.       *)
(***************************************************************************)
AnswerIsRight == OutputIsGreedy /\ AnswerComplete

(***************************************************************************)
(* Requests and answers of the two processes stay in step.                 *)
(***************************************************************************)
ProtocolInv == TypeOK /\ AnswersAreOwn

(***************************************************************************)
(* Neither a payload file nor a child is left behind.                      *)
(***************************************************************************)
NothingLeft == FilesRemoved /\ ClosedCleanly

=============================================================================

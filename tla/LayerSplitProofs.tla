-------------------------- MODULE LayerSplitProofs --------------------------
(***************************************************************************)
(* For any vocabulary, target, requests and sizes, whatever the draft      *)
(* proposes and whichever process dies: the two processes stay in step,    *)
(* nothing is left behind, every answer is the target's own and complete,  *)
(* and the draft reads the features of its context.  However the layers    *)
(* are shared out, each has one device.                                    *)
(***************************************************************************)
EXTENDS LayerSplit, SpeculationLemmas

-----------------------------------------------------------------------------
(* The invariant of the two processes *)

\* The shape of the records.
IsCall(c) ==
  c \in [op: {c.op}, at: {c.at}, capture: {c.capture}, start: {c.start}, n: {c.n},
         path: {c.path}, data: {c.data}, hidden: {c.hidden}, ok: BOOLEAN]

IsClient(c) ==
  c \in [active: BOOLEAN, dir: BOOLEAN, owns: BOOLEAN, seq: {c.seq}, failed_write: BOOLEAN]

\* Where each call may be.
Stations ==
  /\ call.op \in {"none", "start", "feature_slice", "propose", "close"}
  /\ call.at \in {"idle", "killed", "begin", "fork", "send", "await", "payload", "remove",
                  "closing", "wait", "done"}
  /\ call.at \in {"idle", "killed"} <=> call.op = "none"
  /\ call.at = "begin" => call.op # "close"
  /\ call.at = "fork" => call.op = "start"
  /\ call.at = "await" => call.op # "close"
  /\ call.at = "payload" => call.op = "propose"
  /\ call.at \in {"send", "remove"} => call.op \in {"feature_slice", "propose"}
  /\ call.at \in {"closing", "wait"} => call.op \in {"start", "close"}

Exchange == call.op \in {"feature_slice", "propose"}

\* What is in the two pipes, and which call it belongs to.
One(s) == s = <<s[1]>>

Two(s) == s = <<s[1], s[2]>>

AnswersOK ==
  /\ answers = <<>> \/ One(answers) \/ Two(answers)
  /\ answers # <<>> => call.at \in {"await", "payload", "closing"} /\ answers[1].of = call.path
  /\ Two(answers) => /\ call.at = "await" /\ call.op = "propose"
                     /\ answers[1].status = 0 /\ answers[2].of = call.path
  /\ call.at \in {"remove", "done"} /\ call.op = "propose" /\ call.ok =>
       call.hidden.of = call.path

Same(line) == line.op = call.op /\ line.path = call.path

LinesOK ==
  /\ lines = <<>> \/ One(lines)
  /\ lines # <<>> /\ child \in Alive =>
       /\ child = "waiting" /\ call.at = "await" /\ Exchange
       /\ answers = <<>> /\ Same(lines[1])

\* What the daemon is doing.
DaemonOK ==
  /\ child \in Alive \cup {"none", "zombie"}
  /\ child = "loading" =>
       /\ call.op = "start" /\ call.at \in {"await", "closing", "wait"}
       /\ answers = <<>> /\ work.path = -1
  /\ child \in {"serving", "hidden"} => Exchange /\ Same(work)
  /\ child = "serving" => call.at = "await" /\ answers = <<>>
  /\ child = "hidden" =>
       /\ call.op = "propose"
       /\ \/ call.at = "payload" /\ answers = <<>>
          \/ call.at = "await" /\ One(answers) /\ answers[1].status = 0

\* The start of the process, before the fork.
StartOK ==
  /\ call.op \in {"none", "start", "close"} => call.path = -1
  /\ call.op = "start" => work.path = -1 /\ lines = <<>> /\ files = <<>>
  /\ call.op = "start" /\ call.at \in {"begin", "fork"} => child = "none"

PipesOK ==
  /\ piped \in [cmd: BOOLEAN, stream: BOOLEAN]
  /\ call.at = "wait" => ~piped.stream

\* The files: that of the call in progress, and those whose own write failed.
FilesOK ==
  call.at # "killed" => \A p \in DOMAIN files :
    \/ Exchange /\ call.at \in {"send", "await", "payload", "remove"} /\ p = call.path
    \/ files[p] = Torn /\ client.failed_write

FeaturesOK ==
  /\ features = [s \in 1..RingCap |-> features[s]]
  /\ \A s \in 1..RingCap : features[s] = [c \in 1..NCapture |-> features[s][c]]

IpcInv ==
  /\ IsCall(call) /\ IsClient(client)
  /\ call.at = "idle" => call = NoCall
  /\ Stations /\ AnswersOK /\ LinesOK /\ DaemonOK /\ StartOK /\ PipesOK
  /\ FilesOK /\ FeaturesOK /\ ClosedCleanly

\* Nothing has been started.
Fresh ==
  /\ client = NoClient /\ call = NoCall /\ child = "none" /\ lines = <<>>
  /\ answers = <<>> /\ files = <<>> /\ work.path = -1

-----------------------------------------------------------------------------
(* The invariant of the request *)

IsRun(r) ==
  r \in [at: {r.at}, prompt: {r.prompt}, n_gen: {r.n_gen}, n: {r.n}, last: {r.last},
         committed: {r.committed}, draft: {r.draft}, target: {r.target}, saved: {r.saved},
         seen: {r.seen}, top: {r.top}, ok: {r.ok}, requests: {r.requests}]

IsPass(p) == p \in [toks: {p.toks}, base: {p.base}, ubatch: {p.ubatch}, k: Nat]

Working == {"prefill", "draft", "verify", "replay", "ar"}

ModeOK ==
  /\ mode \in [remote: BOOLEAN, spec: BOOLEAN]
  /\ mode.remote => mode.spec
  /\ run.at \in {"start", "closing"} => mode.remote
  /\ ~mode.remote => call = NoCall
  /\ run.at = "begin" => Fresh
  /\ call.op = "propose" => run.at = "draft" /\ run.n < run.n_gen

Shapes ==
  /\ IsRun(run) /\ IsPass(pass) /\ IsCache(cache)
  /\ run.at \in Working \cup {"begin", "start", "idle", "returned", "closing", "exited"}
  /\ run.last \in Tokens \cup {-1}
  /\ run.at \notin Working => pass.k = 0

\* The counters of a request being served, and the room it has.
CountsOK ==
  /\ run.prompt \in Seq(Tokens) /\ run.prompt # <<>> /\ run.n_gen \in Nat
  /\ Len(run.prompt) + run.n_gen + 1 <= MaxCtx
  /\ out \in Seq(Tokens) /\ Len(out) = run.n /\ run.n <= run.n_gen
  /\ run.committed = Len(run.prompt) + run.n

\* What each pass of the loop is over.
PassOK ==
  /\ run.at = "prefill" => /\ pass.k > 0 /\ pass.toks = run.prompt /\ pass.base = 0
                           /\ out = <<>> /\ run.last = -1
  /\ run.at \in {"draft", "ar"} => run.last \in Tokens
  /\ run.at \in {"draft", "verify", "replay"} => mode.spec
  /\ run.at = "draft" => pass.k = 0
  /\ run.at = "verify" => /\ pass.k > 0 /\ pass.toks = run.draft /\ pass.base = run.committed
                          /\ run.n < run.n_gen
                          /\ run.draft \in Seq(Tokens) /\ Len(run.draft) = QLen
  /\ run.at = "replay" => /\ pass.k > 0 /\ pass.base = run.committed /\ pass.toks # <<>>
                          /\ pass.toks \in Seq(Tokens) /\ run.n + Len(pass.toks) <= run.n_gen
  /\ run.at = "ar" => ~mode.spec /\ \A i \in 1..Len(out) : out[i] # Eos
  /\ run.at = "ar" /\ pass.k > 0 => /\ pass.toks = <<run.last>> /\ pass.base = run.committed
                                    /\ run.n < run.n_gen

Ctx == run.prompt \o out

\* The caches hold the context, and what is next is the target's own.
RightOK ==
  /\ run.at = "prefill" => Right(cache, <<>>)
  /\ run.at # "prefill" => GreedyAfter(run.prompt, out) /\ Right(cache, Ctx)
  /\ run.at \in {"draft", "ar"} => run.last = Predict(Ctx)
  /\ run.at = "verify" => run.saved = Ctx /\ run.draft[1] = Predict(Ctx)
  /\ run.at = "replay" => GreedyAfter(Ctx, pass.toks)

\* A request that has come to its end, with w as what it generated.
EndedWith(w) ==
  /\ run.prompt \in Seq(Tokens) /\ run.n_gen \in Nat
  /\ out = w \/ out = Append(w, -1)
  /\ Len(w) <= run.n_gen
  /\ run.ok => Len(w) = run.n_gen \/ Eos \in ToSet(w)
  /\ ~mode.spec => \A i \in 1..(Len(w) - 1) : w[i] # Eos
  /\ Fits => GreedyAfter(run.prompt, w)
  /\ ~mode.remote /\ run.last # -1 => out = Append(w, -1)

RunInv ==
  /\ ModeOK /\ Shapes
  /\ run.at \in Working => CountsOK /\ PassOK
  /\ run.at \in Working /\ Fits => RightOK
  /\ run.at = "returned" => \E w \in Seq(Tokens) : EndedWith(w)

Inv == IpcInv /\ RunInv

-----------------------------------------------------------------------------
(* Lemmas on the pipes *)

\* A pipe that holds at most two words.
QueueFactsFor(s, x) ==
         /\ s = <<>> => ~One(s) /\ ~Two(s) /\ One(Append(s, x)) /\ Append(s, x)[1] = x
         /\ One(s) => /\ s # <<>> /\ ~Two(s) /\ Head(s) = s[1] /\ Tail(s) = <<>>
                      /\ Two(Append(s, x)) /\ Append(s, x)[1] = s[1] /\ Append(s, x)[2] = x
         /\ Two(s) => /\ s # <<>> /\ ~One(s) /\ Head(s) = s[1]
                      /\ One(Tail(s)) /\ Tail(s)[1] = s[2]

LEMMA QueueFacts == ASSUME NEW s, NEW x PROVE QueueFactsFor(s, x)
<1>1. ASSUME NEW a, NEW b
      PROVE  /\ ~One(<<>>) /\ ~Two(<<>>)
             /\ One(<<a>>) /\ ~Two(<<a>>) /\ <<a>> # <<>>
             /\ Two(<<a, b>>) /\ ~One(<<a, b>>) /\ <<a, b>> # <<>>
             /\ Append(<<>>, a) = <<a>> /\ Append(<<a>>, b) = <<a, b>>
             /\ Head(<<a>>) = a /\ Tail(<<a>>) = <<>>
             /\ Head(<<a, b>>) = a /\ Tail(<<a, b>>) = <<b>>
  <2>1. ~One(<<>>) /\ ~Two(<<>>)
    <3>1. Len(<<>>) = 0 /\ Len(<<(<<>>)[1]>>) = 1 /\ Len(<<(<<>>)[1], (<<>>)[2]>>) = 2 OBVIOUS
    <3> QED BY <3>1 DEF One, Two
  <2>2. One(<<a>>) /\ ~Two(<<a>>) /\ <<a>> # <<>>
    <3>1. Len(<<a>>) = 1 /\ Len(<<>>) = 0 /\ Len(<<(<<a>>)[1], (<<a>>)[2]>>) = 2 OBVIOUS
    <3> QED BY <3>1 DEF One, Two
  <2>3. Two(<<a, b>>) /\ ~One(<<a, b>>) /\ <<a, b>> # <<>>
    <3>1. Len(<<a, b>>) = 2 /\ Len(<<>>) = 0 /\ Len(<<(<<a, b>>)[1]>>) = 1 OBVIOUS
    <3> QED BY <3>1 DEF One, Two
  <2>4. Append(<<>>, a) = <<a>> /\ Append(<<a>>, b) = <<a, b>>
    <3> DEFINE S == {a, b}
    <3>1. <<>> \in Seq(S) /\ <<a>> \in Seq(S) /\ <<a, b>> \in Seq(S) OBVIOUS
    <3>2. /\ Append(<<>>, a) \in Seq(S) /\ Len(Append(<<>>, a)) = 1 /\ Append(<<>>, a)[1] = a
      BY <3>1, AppendProperties
    <3>3. /\ Append(<<a>>, b) \in Seq(S) /\ Len(Append(<<a>>, b)) = 2
          /\ Append(<<a>>, b)[1] = a /\ Append(<<a>>, b)[2] = b
      BY <3>1, AppendProperties
    <3> HIDE DEF S
    <3>4. Len(<<a>>) = 1 /\ Len(<<a, b>>) = 2 /\ (<<a>>)[1] = a /\ (<<a, b>>)[1] = a
          /\ (<<a, b>>)[2] = b
      OBVIOUS
    <3>5. Append(<<>>, a) = <<a>>
      <4>1. \A i \in 1..1 : Append(<<>>, a)[i] = (<<a>>)[i] BY <3>2, <3>4
      <4> QED BY <3>1, <3>2, <3>4, <4>1, SeqEqual
    <3>6. Append(<<a>>, b) = <<a, b>>
      <4>1. \A i \in 1..2 : Append(<<a>>, b)[i] = (<<a, b>>)[i] BY <3>3, <3>4
      <4> QED BY <3>1, <3>3, <3>4, <4>1, SeqEqual
    <3> QED BY <3>5, <3>6
  <2>5. Head(<<a>>) = a /\ Head(<<a, b>>) = a OBVIOUS
  <2>6. Tail(<<a>>) = <<>> /\ Tail(<<a, b>>) = <<b>> OBVIOUS
  <2> QED BY <2>1, <2>2, <2>3, <2>4, <2>5, <2>6
<1>2. s = <<>> => ~One(s) /\ ~Two(s) /\ One(Append(s, x)) /\ Append(s, x)[1] = x
  <2>1. (<<x>>)[1] = x OBVIOUS
  <2> QED BY <1>1, <2>1
<1>3. ASSUME One(s)
      PROVE  /\ s # <<>> /\ ~Two(s) /\ Head(s) = s[1] /\ Tail(s) = <<>>
             /\ Two(Append(s, x)) /\ Append(s, x)[1] = s[1] /\ Append(s, x)[2] = x
  <2> DEFINE a == s[1]
  <2>1. s = <<a>> BY <1>3 DEF One
  <2>2. (<<a, x>>)[1] = a /\ (<<a, x>>)[2] = x OBVIOUS
  <2> HIDE DEF a
  <2>3. s # <<>> /\ ~Two(s) /\ Head(s) = a /\ Tail(s) = <<>> /\ Append(s, x) = <<a, x>>
    BY <1>1, <2>1
  <2> QED BY <1>1, <2>2, <2>3 DEF a
<1>4. ASSUME Two(s)
      PROVE  /\ s # <<>> /\ ~One(s) /\ Head(s) = s[1] /\ One(Tail(s)) /\ Tail(s)[1] = s[2]
  <2> DEFINE a == s[1]
             b == s[2]
  <2>1. s = <<a, b>> BY <1>4 DEF Two
  <2>2. (<<b>>)[1] = b OBVIOUS
  <2> HIDE DEF a, b
  <2>3. s # <<>> /\ ~One(s) /\ Head(s) = a /\ Tail(s) = <<b>> BY <1>1, <2>1
  <2> QED BY <1>1, <2>2, <2>3 DEF a, b
<1> QED BY <1>2, <1>3, <1>4 DEF QueueFactsFor

-----------------------------------------------------------------------------
(* One lemma for each step of the client *)

LEMMA StartDirOK == ASSUME IpcInv, StartDir PROVE IpcInv'
<1>1. /\ call.op = "start" /\ call.at = "begin"
      /\ UNCHANGED <<child, lines, piped, answers, work, files, features>>
      /\ \/ call' = [call EXCEPT !.at = "fork"]
         \/ call' = [call EXCEPT !.at = "done", !.ok = FALSE]
  BY DEF StartDir, Ended
<1>2. IsClient(client')
  <2>1. CASE \E owns \in BOOLEAN : client' = [NoClient EXCEPT !.dir = TRUE, !.owns = owns]
    BY <2>1 DEF NoClient, IsClient
  <2>2. CASE client' = NoClient BY <2>2 DEF NoClient, IsClient
  <2> QED BY <2>1, <2>2 DEF StartDir
<1>3. /\ IsCall(call') /\ call'.op = call.op /\ call'.path = call.path
      /\ call'.at \in {"fork", "done"}
  BY <1>1 DEF IpcInv, IsCall
<1>4. answers = <<>> /\ lines = <<>> /\ files = <<>> /\ child = "none"
  BY <1>1 DEF IpcInv, AnswersOK, StartOK
<1>5. FilesOK' BY <1>1, <1>4 DEF FilesOK
<1>6. Stations' BY <1>1, <1>3 DEF Stations
<1>7. AnswersOK' BY <1>1, <1>3, <1>4, QueueFacts DEF AnswersOK, QueueFactsFor
<1>8. LinesOK' BY <1>1, <1>3, <1>4 DEF LinesOK
<1>9. DaemonOK' BY <1>1, <1>3, <1>4 DEF DaemonOK
<1>10. StartOK' BY <1>1, <1>3, <1>4 DEF StartOK, IpcInv
<1>11. PipesOK' BY <1>1, <1>3 DEF PipesOK, IpcInv
<1>12. FeaturesOK' BY <1>1 DEF FeaturesOK, IpcInv
<1>13. ClosedCleanly' BY <1>1, <1>3 DEF ClosedCleanly
<1> QED BY <1>2, <1>3, <1>5, <1>6, <1>7, <1>8, <1>9, <1>10, <1>11, <1>12, <1>13 DEF IpcInv

LEMMA StartForkOK == ASSUME IpcInv, StartFork PROVE IpcInv'
<1>1. /\ call.op = "start" /\ call.at = "fork"
      /\ UNCHANGED <<client, lines, answers, work, files, features>>
      /\ IsCall(call) /\ child = "none" /\ PipesOK
  BY DEF StartFork, IpcInv, StartOK
<1>2. /\ IsCall(call') /\ call'.op = call.op /\ call'.path = call.path
      /\ call'.at \in {"await", "closing", "done"}
      /\ child' = "loading" => call'.at \in {"await", "closing"}
      /\ child' \in {"loading", "none"} /\ piped' \in [cmd: BOOLEAN, stream: BOOLEAN]
  <2>1. CASE /\ child' = "loading" /\ piped' = [cmd |-> TRUE, stream |-> TRUE]
             /\ call' = [call EXCEPT !.at = "await"]
    BY <1>1, <2>1 DEF IsCall
  <2>2. CASE UNCHANGED <<child, piped>> /\ call' = [call EXCEPT !.at = "done", !.ok = FALSE]
    BY <1>1, <2>2 DEF IsCall, PipesOK
  <2>3. CASE /\ child' = "loading" /\ piped' = [cmd |-> FALSE, stream |-> TRUE]
             /\ call' = [call EXCEPT !.at = "closing"]
    BY <1>1, <2>3 DEF IsCall
  <2> QED BY <2>1, <2>2, <2>3 DEF StartFork, Ended
<1>3. answers = <<>> /\ lines = <<>> /\ files = <<>> /\ call.path = -1 /\ work.path = -1
  BY <1>1 DEF IpcInv, AnswersOK, StartOK
<1>4. FilesOK' BY <1>1, <1>3 DEF FilesOK
<1>5. Stations' BY <1>1, <1>2 DEF Stations
<1>6. AnswersOK' BY <1>1, <1>2, <1>3, QueueFacts DEF AnswersOK, QueueFactsFor
<1>7. LinesOK' BY <1>1, <1>2, <1>3 DEF LinesOK
<1>8. DaemonOK' BY <1>1, <1>2, <1>3 DEF DaemonOK, Alive
<1>9. StartOK' BY <1>1, <1>2, <1>3 DEF StartOK
<1>10. PipesOK' BY <1>1, <1>2 DEF PipesOK, IpcInv
<1>11. FeaturesOK' BY <1>1 DEF FeaturesOK, IpcInv
<1>12. ClosedCleanly' BY <1>1, <1>2 DEF ClosedCleanly
<1>13. IsClient(client') BY <1>1 DEF IpcInv
<1> QED BY <1>2, <1>4, <1>5, <1>6, <1>7, <1>8, <1>9, <1>10, <1>11, <1>12, <1>13 DEF IpcInv

LEMMA StartReadyOK == ASSUME IpcInv, StartReady PROVE IpcInv'
<1>1. /\ call.op = "start" /\ call.at = "await"
      /\ UNCHANGED <<child, lines, piped, work, files, features>>
      /\ (answers = <<>> /\ child \notin Alive /\ answers' = answers)
         \/ (answers # <<>> /\ answers' = Tail(answers))
  <2>1. CASE answers # <<>> BY <2>1 DEF StartReady, StreamEnded
  <2>2. CASE answers = <<>> BY <2>2 DEF StartReady, StreamEnded
  <2> QED BY <2>1, <2>2
<1>2. \/ call' = [call EXCEPT !.at = "done", !.ok = TRUE]
         /\ client' = [client EXCEPT !.active = TRUE]
      \/ call' = [call EXCEPT !.at = "closing"] /\ client' = client
  BY DEF StartReady, Ended
<1>3. /\ IsCall(call') /\ call'.op = call.op /\ call'.path = call.path
      /\ call'.at \in {"done", "closing"}
  BY <1>1, <1>2 DEF IpcInv, IsCall
<1>4. IsClient(client') BY <1>2 DEF IpcInv, IsClient
<1>5. lines = <<>> /\ files = <<>> /\ call.path = -1 /\ work.path = -1
  BY <1>1 DEF IpcInv, StartOK
<1>6. answers' = <<>> /\ child # "loading" /\ child \notin {"serving", "hidden"}
  BY <1>1, QueueFacts
     DEF IpcInv, AnswersOK, DaemonOK, QueueFactsFor, Exchange, Alive
<1>7. FilesOK' BY <1>1, <1>5 DEF FilesOK
<1>8. Stations' BY <1>1, <1>3 DEF Stations
<1>9. AnswersOK' BY <1>1, <1>3, <1>6, QueueFacts DEF AnswersOK, QueueFactsFor
<1>10. LinesOK' BY <1>1, <1>5 DEF LinesOK
<1>11. DaemonOK' BY <1>1, <1>6 DEF DaemonOK, IpcInv
<1>12. StartOK' BY <1>1, <1>3, <1>5 DEF StartOK
<1>13. PipesOK' BY <1>1, <1>3 DEF PipesOK, IpcInv
<1>14. FeaturesOK' BY <1>1 DEF FeaturesOK, IpcInv
<1>15. ClosedCleanly' BY <1>1, <1>3 DEF ClosedCleanly
<1> QED BY <1>3, <1>4, <1>7, <1>8, <1>9, <1>10, <1>11, <1>12, <1>13, <1>14, <1>15 DEF IpcInv

LEMMA WriteFileOK == ASSUME IpcInv, WriteFile PROVE IpcInv'
<1>1. /\ Exchange /\ call.at = "begin"
      /\ UNCHANGED <<child, lines, piped, answers, work, features>>
      /\ \/ call' = [call EXCEPT !.at = "done", !.ok = FALSE] /\ UNCHANGED <<client, files>>
         \/ /\ client' = [client EXCEPT !.seq = @ + 1]
            /\ files' = FilesWith(client.seq, call.data)
            /\ call' = [call EXCEPT !.at = "send", !.path = client.seq]
         \/ /\ client' = [client EXCEPT !.seq = @ + 1, !.failed_write = TRUE]
            /\ files' = FilesWith(client.seq, Torn)
            /\ call' = [call EXCEPT !.at = "done", !.ok = FALSE]
  BY DEF WriteFile, Ended, Exchange
<1>2. /\ IsCall(call') /\ call'.op = call.op /\ call'.at \in {"done", "send"}
      /\ call'.at = "done" => call'.ok = FALSE
  BY <1>1 DEF IpcInv, IsCall
<1>3. IsClient(client') BY <1>1 DEF IpcInv, IsClient
<1>4. /\ answers = <<>> /\ child \notin {"loading", "serving", "hidden"}
      /\ lines # <<>> => child \notin Alive
  BY <1>1 DEF IpcInv, AnswersOK, DaemonOK, LinesOK, Exchange
<1>5. FilesOK'
  <2>1. \A p \in DOMAIN files : files[p] = Torn /\ client.failed_write
    BY <1>1 DEF IpcInv, FilesOK
  <2>2. CASE /\ call' = [call EXCEPT !.at = "done", !.ok = FALSE] /\ UNCHANGED <<client, files>>
    BY <2>1, <2>2 DEF FilesOK
  <2>3. CASE /\ client' = [client EXCEPT !.seq = @ + 1]
             /\ files' = FilesWith(client.seq, call.data)
             /\ call' = [call EXCEPT !.at = "send", !.path = client.seq]
    <3>1. call'.path = client.seq /\ call'.at = "send" BY <2>3 DEF IpcInv, IsCall
    <3>2. client'.failed_write = client.failed_write BY <2>3 DEF IpcInv, IsClient
    <3>3. \A p \in DOMAIN files' : p = client.seq \/ (p \in DOMAIN files /\ files'[p] = files[p])
      BY <2>3 DEF FilesWith
    <3>4. Exchange' BY <1>1, <1>2 DEF Exchange
    <3> QED BY <2>1, <3>1, <3>2, <3>3, <3>4 DEF FilesOK
  <2>4. CASE /\ client' = [client EXCEPT !.seq = @ + 1, !.failed_write = TRUE]
             /\ files' = FilesWith(client.seq, Torn)
             /\ call' = [call EXCEPT !.at = "done", !.ok = FALSE]
    <3>1. client'.failed_write BY <2>4 DEF IpcInv, IsClient
    <3>2. \A p \in DOMAIN files' : files'[p] = Torn BY <2>1, <2>4 DEF FilesWith
    <3> QED BY <3>1, <3>2 DEF FilesOK
  <2> QED BY <1>1, <2>2, <2>3, <2>4
<1>6. Stations' BY <1>1, <1>2 DEF Stations, Exchange
<1>7. AnswersOK' BY <1>1, <1>2, <1>4, QueueFacts DEF AnswersOK, QueueFactsFor
<1>8. LinesOK' BY <1>1, <1>4 DEF LinesOK, IpcInv
<1>9. DaemonOK' BY <1>1, <1>4 DEF DaemonOK, IpcInv
<1>10. StartOK' BY <1>1, <1>2 DEF StartOK, Exchange
<1>11. PipesOK' BY <1>1, <1>2 DEF PipesOK, IpcInv
<1>12. FeaturesOK' BY <1>1 DEF FeaturesOK, IpcInv
<1>13. ClosedCleanly' BY <1>1, <1>2 DEF ClosedCleanly, Exchange
<1> QED BY <1>2, <1>3, <1>5, <1>6, <1>7, <1>8, <1>9, <1>10, <1>11, <1>12, <1>13 DEF IpcInv

LEMMA SendOK == ASSUME IpcInv, Send PROVE IpcInv'
<1>1. /\ call.at = "send" /\ Exchange /\ UNCHANGED <<child, work, files, features>>
      /\ answers = <<>> /\ child \notin {"loading", "serving", "hidden"}
      /\ lines # <<>> => child \notin Alive
      /\ lines = <<>> \/ One(lines)
  BY DEF Send, IpcInv, Stations, AnswersOK, DaemonOK, LinesOK, Exchange
<1>2. FeaturesOK' BY <1>1 DEF FeaturesOK, IpcInv
<1>3. CASE child \in Alive
  <2>1. /\ lines' = Append(lines, call) /\ call' = [call EXCEPT !.at = "await"]
        /\ UNCHANGED <<client, piped, answers>>
    BY <1>3 DEF Send
  <2>2. /\ IsCall(call') /\ call'.op = call.op /\ call'.at = "await" /\ call'.path = call.path
    BY <2>1 DEF IpcInv, IsCall
  <2>3. One(lines') /\ lines'[1] = call BY <1>1, <1>3, <2>1, QueueFacts DEF QueueFactsFor
  <2>4. FilesOK' BY <1>1, <2>1, <2>2 DEF FilesOK, IpcInv, Exchange
  <2>5. Stations' BY <1>1, <2>2 DEF Stations, Exchange
  <2>6. AnswersOK' BY <1>1, <2>1, <2>2, QueueFacts DEF AnswersOK, QueueFactsFor
  <2>7. LinesOK' BY <1>1, <1>3, <2>1, <2>2, <2>3, QueueFacts
                 DEF LinesOK, IpcInv, DaemonOK, Alive, Same, Exchange, QueueFactsFor
  <2>8. DaemonOK' BY <1>1 DEF DaemonOK, IpcInv
  <2>9. StartOK' BY <1>1, <2>2 DEF StartOK, Exchange
  <2>10. PipesOK' BY <2>1, <2>2 DEF PipesOK, IpcInv
  <2>11. ClosedCleanly' BY <1>1, <2>2 DEF ClosedCleanly
  <2>12. IsClient(client') BY <2>1 DEF IpcInv
  <2> QED BY <1>2, <2>2, <2>4, <2>5, <2>6, <2>7, <2>8, <2>9, <2>10, <2>11, <2>12 DEF IpcInv
<1>4. CASE child \notin Alive
  <2>1. /\ call' = [NoCall EXCEPT !.at = "killed"] /\ answers' = <<>>
        /\ piped' = [cmd |-> FALSE, stream |-> FALSE]
        /\ client' = [client EXCEPT !.active = FALSE] /\ lines' = lines
    BY <1>4 DEF Send
  <2>2. /\ IsCall(call') /\ call'.op = "none" /\ call'.at = "killed" /\ call'.path = -1
    BY <2>1 DEF NoCall, IsCall
  <2>3. IsClient(client') BY <2>1 DEF IpcInv, IsClient
  <2>4. FilesOK' BY <2>2 DEF FilesOK
  <2>5. Stations' BY <2>2 DEF Stations
  <2>6. AnswersOK' BY <2>1, <2>2, QueueFacts DEF AnswersOK, QueueFactsFor
  <2>7. LinesOK' BY <1>1, <1>4, <2>1 DEF LinesOK
  <2>8. DaemonOK' BY <1>1, <1>4, <2>1 DEF DaemonOK, IpcInv, Alive
  <2>9. StartOK' BY <2>2 DEF StartOK
  <2>10. PipesOK' BY <2>1, <2>2 DEF PipesOK
  <2>11. ClosedCleanly' BY <2>2 DEF ClosedCleanly
  <2> QED BY <1>2, <2>2, <2>3, <2>4, <2>5, <2>6, <2>7, <2>8, <2>9, <2>10, <2>11 DEF IpcInv
<1> QED BY <1>3, <1>4

\* What the daemon and the pipes may be while the client reads.
LEMMA AwaitFacts ==
  ASSUME IpcInv, Exchange, call.at \in {"await", "payload"}, answers # <<>>
  PROVE  /\ answers[1].of = call.path /\ Head(answers) = answers[1]
         /\ Tail(answers) = <<>> \/ (One(Tail(answers)) /\ Tail(answers)[1].of = call.path)
         /\ call.at = "payload" => Tail(answers) = <<>>
         /\ Tail(answers) # <<>> => answers[1].status = 0
         /\ child \notin {"loading", "serving"} /\ (child \in Alive => lines = <<>>)
         /\ child = "hidden" => answers[1].status = 0 /\ Tail(answers) = <<>>
<1>1. AnswersOK /\ LinesOK /\ DaemonOK /\ Stations BY DEF IpcInv
<1>2. answers[1].of = call.path BY <1>1 DEF AnswersOK
<1>3. CASE One(answers)
  <2>1. Head(answers) = answers[1] /\ Tail(answers) = <<>>
    BY <1>3, QueueFacts DEF QueueFactsFor
  <2>2. child \notin {"loading", "serving"} /\ (child \in Alive => lines = <<>>)
    BY <1>1 DEF DaemonOK, LinesOK, Exchange, Alive
  <2>3. child = "hidden" => answers[1].status = 0 BY <1>1 DEF DaemonOK
  <2> QED BY <1>2, <2>1, <2>2, <2>3
<1>4. CASE Two(answers)
  <2>1. Head(answers) = answers[1] /\ One(Tail(answers)) /\ Tail(answers)[1] = answers[2]
        /\ ~One(answers)
    BY <1>4, QueueFacts DEF QueueFactsFor
  <2>2. child \notin {"loading", "serving", "hidden"} /\ (child \in Alive => lines = <<>>)
    BY <1>1, <2>1 DEF DaemonOK, LinesOK, Exchange, Alive
  <2>3. call.at = "await" /\ answers[1].status = 0 /\ answers[2].of = call.path
    BY <1>1, <1>4 DEF AnswersOK
  <2> QED BY <1>2, <2>1, <2>2, <2>3
<1> QED BY <1>1, <1>3, <1>4 DEF AnswersOK

\* A call that finds the stream at its end.
LEMMA BrokenOff ==
  ASSUME IpcInv, Exchange, call.at \in {"await", "payload"}, answers = <<>>, child \notin Alive,
         UNCHANGED <<client, child, lines, piped, answers, work, files, features>>,
         IsCall(call'), call'.op = call.op, call'.at = "remove", call'.path = call.path, ~call'.ok
  PROVE  IpcInv'
<1>1. FilesOK' BY DEF FilesOK, IpcInv, Exchange
<1>2. Stations' BY DEF Stations, Exchange
<1>3. AnswersOK' BY QueueFacts DEF AnswersOK, QueueFactsFor
<1>4. LinesOK' BY DEF LinesOK, IpcInv
<1>5. DaemonOK' BY DEF DaemonOK, IpcInv, Alive
<1>6. StartOK' BY DEF StartOK, Exchange
<1>7. PipesOK' BY DEF PipesOK, IpcInv
<1>8. ClosedCleanly' BY DEF ClosedCleanly
<1>9. FeaturesOK' /\ IsClient(client') BY DEF FeaturesOK, IpcInv
<1> QED BY <1>1, <1>2, <1>3, <1>4, <1>5, <1>6, <1>7, <1>8, <1>9 DEF IpcInv

LEMMA AwaitOK == ASSUME IpcInv, Await PROVE IpcInv'
<1>1. /\ Exchange /\ call.at = "await" /\ IsCall(call)
      /\ UNCHANGED <<client, child, lines, piped, work, files, features>>
  BY DEF Await, Exchange, IpcInv
<1>2. CASE answers # <<>>
  <2>1. answers' = Tail(answers)
        /\ call' = IF Head(answers).status = 0 /\ call.op = "propose"
                   THEN [call EXCEPT !.at = "payload"]
                   ELSE [call EXCEPT !.at = "remove", !.ok = Head(answers).status = 0]
    BY <1>2 DEF Await, StreamEnded
  <2>2. /\ answers[1].of = call.path /\ Head(answers) = answers[1]
        /\ Tail(answers) = <<>> \/ (One(Tail(answers)) /\ Tail(answers)[1].of = call.path)
        /\ Tail(answers) # <<>> => answers[1].status = 0
        /\ child \notin {"loading", "serving"} /\ (child \in Alive => lines = <<>>)
        /\ child = "hidden" => answers[1].status = 0 /\ Tail(answers) = <<>>
    BY <1>1, <1>2, AwaitFacts
  <2>3. CASE Head(answers).status = 0 /\ call.op = "propose"
    <3>1. call' = [call EXCEPT !.at = "payload"] BY <2>1, <2>3
    <3>2. /\ IsCall(call') /\ call'.op = "propose" /\ call'.at = "payload"
          /\ call'.path = call.path
      BY <1>1, <2>3, <3>1 DEF IsCall
    <3>3. FilesOK' BY <1>1, <2>3, <3>2 DEF FilesOK, IpcInv, Exchange
    <3>4. Stations' BY <3>2 DEF Stations
    <3>5. AnswersOK' BY <2>1, <2>2, <3>2, QueueFacts DEF AnswersOK, QueueFactsFor
    <3>6. LinesOK' BY <1>1, <2>2 DEF LinesOK, IpcInv
    <3>7. DaemonOK' BY <1>1, <2>1, <2>2, <2>3, <3>2 DEF DaemonOK, IpcInv, Exchange, Same
    <3>8. StartOK' BY <3>2 DEF StartOK
    <3>9. PipesOK' BY <1>1, <3>2 DEF PipesOK, IpcInv
    <3>10. ClosedCleanly' BY <3>2 DEF ClosedCleanly
    <3>11. FeaturesOK' /\ IsClient(client') BY <1>1 DEF FeaturesOK, IpcInv
    <3> QED BY <3>2, <3>3, <3>4, <3>5, <3>6, <3>7, <3>8, <3>9, <3>10, <3>11 DEF IpcInv
  <2>4. CASE ~(Head(answers).status = 0 /\ call.op = "propose")
    <3>1. call' = [call EXCEPT !.at = "remove", !.ok = Head(answers).status = 0]
      BY <2>1, <2>4
    <3>2. /\ IsCall(call') /\ call'.op = call.op /\ call'.at = "remove"
          /\ call'.path = call.path /\ (call'.ok <=> Head(answers).status = 0)
      BY <1>1, <3>1 DEF IsCall
    <3>3. FilesOK' BY <1>1, <3>2 DEF FilesOK, IpcInv, Exchange
    <3>4. Stations' BY <1>1, <3>2 DEF Stations, Exchange
    <3>5. answers' = <<>> /\ child # "hidden"
      <4>1. call.op # "propose" => Tail(answers) = <<>> /\ child # "hidden"
        <5>1. One(answers) \/ Two(answers) => call.op = "propose" \/ One(answers)
          BY DEF IpcInv, AnswersOK
        <5>2. call.op # "propose" => One(answers) BY <1>2, <5>1 DEF IpcInv, AnswersOK
        <5> QED BY <5>2, QueueFacts DEF QueueFactsFor, IpcInv, DaemonOK
      <4> QED BY <2>1, <2>2, <2>4, <4>1
    <3>6. AnswersOK' BY <2>4, <3>2, <3>5, QueueFacts DEF AnswersOK, QueueFactsFor
    <3>7. LinesOK' BY <1>1, <2>2 DEF LinesOK, IpcInv
    <3>8. DaemonOK' BY <1>1, <2>2, <3>5 DEF DaemonOK, IpcInv
    <3>9. StartOK' BY <1>1, <3>2 DEF StartOK, Exchange
    <3>10. PipesOK' BY <1>1, <3>2 DEF PipesOK, IpcInv
    <3>11. ClosedCleanly' BY <3>2 DEF ClosedCleanly
    <3>12. FeaturesOK' /\ IsClient(client') BY <1>1 DEF FeaturesOK, IpcInv
    <3> QED BY <3>2, <3>3, <3>4, <3>6, <3>7, <3>8, <3>9, <3>10, <3>11, <3>12 DEF IpcInv
  <2> QED BY <2>3, <2>4
<1>3. CASE answers = <<>>
  <2>1. /\ child \notin Alive /\ answers' = answers
        /\ call' = [call EXCEPT !.at = "remove", !.ok = FALSE]
    BY <1>3 DEF Await, StreamEnded
  <2>2. /\ IsCall(call') /\ call'.op = call.op /\ call'.at = "remove" /\ call'.path = call.path
        /\ ~call'.ok
    BY <1>1, <2>1 DEF IsCall
  <2> QED BY <1>1, <1>3, <2>1, <2>2, BrokenOff
<1> QED BY <1>2, <1>3

LEMMA PayloadOK == ASSUME IpcInv, Payload PROVE IpcInv'
<1>1. /\ call.op = "propose" /\ Exchange /\ call.at = "payload" /\ IsCall(call)
      /\ UNCHANGED <<client, child, lines, piped, work, files, features>>
  BY DEF Payload, Exchange, IpcInv, Stations
<1>2. CASE answers # <<>>
  <2>1. /\ answers' = Tail(answers)
        /\ call' = [call EXCEPT !.at = "remove", !.ok = TRUE, !.hidden = Head(answers)]
    BY <1>2 DEF Payload, StreamEnded
  <2>2. /\ answers[1].of = call.path /\ Head(answers) = answers[1] /\ Tail(answers) = <<>>
        /\ child \notin {"loading", "serving"} /\ (child \in Alive => lines = <<>>)
    BY <1>1, <1>2, AwaitFacts
  <2>3. child # "hidden" BY <1>1, <1>2 DEF IpcInv, DaemonOK
  <2>4. /\ IsCall(call') /\ call'.op = "propose" /\ call'.at = "remove"
        /\ call'.path = call.path /\ call'.hidden.of = call.path
    BY <1>1, <2>1, <2>2 DEF IsCall
  <2>5. FilesOK' BY <1>1, <2>4 DEF FilesOK, IpcInv, Exchange
  <2>6. Stations' BY <2>4 DEF Stations
  <2>7. AnswersOK' BY <2>1, <2>2, <2>4, QueueFacts DEF AnswersOK, QueueFactsFor
  <2>8. LinesOK' BY <1>1, <2>2 DEF LinesOK, IpcInv
  <2>9. DaemonOK' BY <1>1, <2>2, <2>3 DEF DaemonOK, IpcInv
  <2>10. StartOK' BY <2>4 DEF StartOK
  <2>11. PipesOK' BY <1>1, <2>4 DEF PipesOK, IpcInv
  <2>12. ClosedCleanly' BY <2>4 DEF ClosedCleanly
  <2>13. FeaturesOK' /\ IsClient(client') BY <1>1 DEF FeaturesOK, IpcInv
  <2> QED BY <2>4, <2>5, <2>6, <2>7, <2>8, <2>9, <2>10, <2>11, <2>12, <2>13 DEF IpcInv
<1>3. CASE answers = <<>>
  <2>1. /\ child \notin Alive /\ answers' = answers
        /\ call' = [call EXCEPT !.at = "remove", !.ok = FALSE]
    BY <1>3 DEF Payload, StreamEnded
  <2>2. /\ IsCall(call') /\ call'.op = call.op /\ call'.at = "remove" /\ call'.path = call.path
        /\ ~call'.ok
    BY <1>1, <2>1 DEF IsCall
  <2> QED BY <1>1, <1>3, <2>1, <2>2, BrokenOff
<1> QED BY <1>2, <1>3

LEMMA RemoveFileOK == ASSUME IpcInv, RemoveFile PROVE IpcInv'
<1>1. /\ call.at = "remove" /\ Exchange /\ IsCall(call)
      /\ files' = [p \in DOMAIN files \ {call.path} |-> files[p]]
      /\ UNCHANGED <<client, child, lines, piped, answers, work, features>>
      /\ call' = [call EXCEPT !.at = "done", !.ok = call.ok]
      /\ answers = <<>> /\ child \notin {"loading", "serving", "hidden"}
      /\ lines # <<>> => child \notin Alive
  BY DEF RemoveFile, IpcInv, Exchange, Stations, Ended, AnswersOK, DaemonOK, LinesOK
<1>2. /\ IsCall(call') /\ call'.op = call.op /\ call'.path = call.path
      /\ call'.at = "done" /\ call'.ok = call.ok /\ call'.hidden = call.hidden
  BY <1>1 DEF IsCall
<1>3. FilesOK' BY <1>1 DEF FilesOK, IpcInv
<1>4. Stations' BY <1>1, <1>2 DEF Stations, Exchange
<1>5. AnswersOK' BY <1>1, <1>2, QueueFacts DEF AnswersOK, QueueFactsFor, IpcInv
<1>6. LinesOK' BY <1>1 DEF LinesOK, IpcInv
<1>7. DaemonOK' BY <1>1 DEF DaemonOK, IpcInv
<1>8. StartOK' BY <1>1, <1>2 DEF StartOK, Exchange
<1>9. PipesOK' BY <1>1, <1>2 DEF PipesOK, IpcInv
<1>10. ClosedCleanly' BY <1>1, <1>2 DEF ClosedCleanly, Exchange
<1>11. FeaturesOK' /\ IsClient(client') BY <1>1 DEF FeaturesOK, IpcInv
<1> QED BY <1>2, <1>3, <1>4, <1>5, <1>6, <1>7, <1>8, <1>9, <1>10, <1>11 DEF IpcInv

LEMMA ClosePipesOK == ASSUME IpcInv, ClosePipes PROVE IpcInv'
<1>1. /\ call.at = "closing" /\ IsCall(call) /\ answers' = <<>>
      /\ piped' = [cmd |-> FALSE, stream |-> FALSE]
      /\ call' = [call EXCEPT !.at = "wait"]
      /\ UNCHANGED <<client, child, lines, work, files, features>>
      /\ call.op \in {"start", "close"} /\ child \notin {"serving", "hidden"}
      /\ lines # <<>> => child \notin Alive
  BY DEF ClosePipes, IpcInv, Exchange, Stations, DaemonOK, LinesOK
<1>2. /\ IsCall(call') /\ call'.op = call.op /\ call'.path = call.path /\ call'.at = "wait"
  BY <1>1 DEF IsCall
<1>3. FilesOK' BY <1>1, <1>2 DEF FilesOK, IpcInv, Exchange
<1>4. Stations' BY <1>1, <1>2 DEF Stations
<1>5. AnswersOK' BY <1>1, <1>2, QueueFacts DEF AnswersOK, QueueFactsFor
<1>6. LinesOK' BY <1>1 DEF LinesOK, IpcInv
<1>7. DaemonOK' BY <1>1, <1>2 DEF DaemonOK, IpcInv
<1>8. StartOK' BY <1>1, <1>2 DEF StartOK, IpcInv
<1>9. PipesOK' BY <1>1, <1>2 DEF PipesOK
<1>10. ClosedCleanly' BY <1>2 DEF ClosedCleanly
<1>11. FeaturesOK' /\ IsClient(client') BY <1>1 DEF FeaturesOK, IpcInv
<1> QED BY <1>2, <1>3, <1>4, <1>5, <1>6, <1>7, <1>8, <1>9, <1>10, <1>11 DEF IpcInv

LEMMA ReapOK == ASSUME IpcInv, Reap PROVE IpcInv'
<1>1. /\ call.at = "wait" /\ IsCall(call) /\ child' = "none"
      /\ client' = [client EXCEPT !.active = FALSE,
                                  !.dir = @ /\ ~(client.owns /\ DOMAIN files = {})]
      /\ call' = [call EXCEPT !.at = "done", !.ok = (call.op = "close")]
      /\ UNCHANGED <<lines, piped, answers, work, files, features>>
      /\ call.op \in {"start", "close"} /\ answers = <<>>
  BY DEF Reap, IpcInv, Stations, AnswersOK, Ended
<1>2. /\ IsCall(call') /\ call'.op = call.op /\ call'.path = call.path /\ call'.at = "done"
  BY <1>1 DEF IsCall
<1>3. /\ IsClient(client') /\ ~client'.active /\ client'.owns = client.owns
      /\ client'.failed_write = client.failed_write
      /\ client'.dir => ~(client.owns /\ DOMAIN files = {})
  BY <1>1 DEF IsClient, IpcInv
<1>4. \A p \in DOMAIN files : files[p] = Torn /\ client.failed_write
  BY <1>1 DEF FilesOK, IpcInv
<1>5. FilesOK' BY <1>1, <1>3, <1>4 DEF FilesOK
<1>6. Stations' BY <1>1, <1>2 DEF Stations
<1>7. AnswersOK' BY <1>1, <1>2, QueueFacts DEF AnswersOK, QueueFactsFor
<1>8. LinesOK' BY <1>1 DEF LinesOK, IpcInv, Alive
<1>9. DaemonOK' BY <1>1 DEF DaemonOK
<1>10. StartOK' BY <1>1, <1>2 DEF StartOK, IpcInv
<1>11. PipesOK' BY <1>1, <1>2 DEF PipesOK, IpcInv
<1>12. ClosedCleanly' BY <1>1, <1>3, <1>4 DEF ClosedCleanly
<1>13. FeaturesOK' BY <1>1 DEF FeaturesOK, IpcInv
<1> QED BY <1>2, <1>3, <1>5, <1>6, <1>7, <1>8, <1>9, <1>10, <1>11, <1>12, <1>13 DEF IpcInv

-----------------------------------------------------------------------------
(* The feature ring *)

IsRing(r) ==
  /\ r = [s \in 1..RingCap |-> r[s]]
  /\ \A s \in 1..RingCap : r[s] = [c \in 1..NCapture |-> r[s][c]]

\* A ring keeps its size whatever is written to it.
LEMMA RingFacts ==
  /\ IsRing(Blank(RingCap, Blank(NCapture, Junk)))
  /\ \A r, capture, start, rows : IsRing(r) => IsRing(WriteSlice(r, capture, start, rows))
  /\ \A r : IsRing(r) =>
       Len(r) = RingCap /\ \A s \in 1..RingCap : Len(r[s]) = NCapture
<1>1. RingCap \in Nat /\ NCapture \in Nat BY SizesAreNat, CapturesAssumption
<1>2. IsRing(Blank(RingCap, Blank(NCapture, Junk)))
  <2> DEFINE v == Blank(NCapture, Junk)
  <2>1. v = [c \in 1..NCapture |-> Junk] BY <1>1, BlankFacts
  <2> HIDE DEF v
  <2>2. Blank(RingCap, v) = [s \in 1..RingCap |-> v] BY <1>1, BlankFacts
  <2>3. v = [c \in 1..NCapture |-> v[c]] BY <2>1
  <2> QED BY <2>2, <2>3 DEF IsRing, v
<1>3. ASSUME NEW r, NEW capture, NEW start, NEW rows, IsRing(r)
      PROVE  IsRing(WriteSlice(r, capture, start, rows))
  <2> DEFINE hits(s) == {i \in 1 .. Len(rows) : (start + i - 1) % RingCap = s - 1}
             row(s) == IF hits(s) = {} THEN r[s] ELSE [r[s] EXCEPT ![capture] = rows[Max(hits(s))]]
             f == [s \in 1..RingCap |-> row(s)]
  <2>1. \A s \in 1..RingCap : row(s) = [c \in 1..NCapture |-> row(s)[c]]
    <3> SUFFICES ASSUME NEW s \in 1..RingCap PROVE row(s) = [c \in 1..NCapture |-> row(s)[c]]
      OBVIOUS
    <3>1. r[s] = [c \in 1..NCapture |-> r[s][c]] BY <1>3 DEF IsRing
    <3> DEFINE old == r[s]
               v == rows[Max(hits(s))]
    <3> HIDE DEF old, v
    <3>2. [old EXCEPT ![capture] = v] = [c \in 1..NCapture |-> [old EXCEPT ![capture] = v][c]]
      BY <3>1 DEF old
    <3> QED BY <3>1, <3>2 DEF old, v
  <2>2. WriteSlice(r, capture, start, rows) = SubSeq(f, 1, RingCap) BY DEF WriteSlice, Seqn
  <2> HIDE DEF row
  <2>3. f = [s \in 1..RingCap |-> f[s]] OBVIOUS
  <2>4. \A s \in 1..RingCap : f[s] = row(s) OBVIOUS
  <2> HIDE DEF f
  <2>5. SubSeq(f, 1, RingCap) = f BY <1>1, <2>3, WholeFunction
  <2>6. IsRing(f) BY <2>1, <2>3, <2>4 DEF IsRing
  <2> QED BY <2>2, <2>5, <2>6
<1>4. ASSUME NEW r, IsRing(r)
      PROVE  Len(r) = RingCap /\ \A s \in 1..RingCap : Len(r[s]) = NCapture
  <2>1. \A n \in Nat : \A f : f = [i \in 1..n |-> f[i]] => Len(f) = n
    <3> SUFFICES ASSUME NEW n \in Nat, NEW f, f = [i \in 1..n |-> f[i]] PROVE Len(f) = n
      OBVIOUS
    <3>1. f \in [1..n -> {f[i] : i \in 1..n}] OBVIOUS
    <3> QED BY <3>1
  <2> QED BY <1>1, <1>4, <2>1 DEF IsRing
<1> QED BY <1>2, <1>3, <1>4

-----------------------------------------------------------------------------
(* One lemma for each step of the daemon *)

\* A daemon that ends, however it does.
LEMMA DeadOK ==
  ASSUME IpcInv, child \in Alive, child' = "zombie", FeaturesOK',
         UNCHANGED <<client, call, piped, answers, work, files>>,
         lines' = lines \/ lines' = <<>>
  PROVE  IpcInv'
<1>1. Stations' /\ FilesOK' BY DEF Stations, FilesOK, IpcInv, Exchange
<1>2. AnswersOK' BY DEF AnswersOK, IpcInv
<1>3. LinesOK' BY DEF LinesOK, IpcInv, Alive
<1>4. DaemonOK' BY DEF DaemonOK
<1>5. StartOK'
  <2>1. call.op = "start" /\ call.at \in {"begin", "fork"} => child = "none" BY DEF IpcInv, StartOK
  <2> QED BY <2>1 DEF StartOK, IpcInv, Alive
<1>6. PipesOK' BY DEF PipesOK, IpcInv
<1>7. ClosedCleanly' BY DEF ClosedCleanly, IpcInv, Alive
<1> QED BY <1>1, <1>2, <1>3, <1>4, <1>5, <1>6, <1>7 DEF IpcInv

LEMMA CrashOK == ASSUME IpcInv, Crash PROVE IpcInv'
BY DeadOK DEF Crash, FeaturesOK, IpcInv

LEMMA ReadyOK == ASSUME IpcInv, Ready PROVE IpcInv'
<1>1. /\ child = "loading" /\ UNCHANGED <<client, call, lines, piped, work, files>>
      /\ call.op = "start" /\ call.at \in {"await", "closing", "wait"}
      /\ answers = <<>> /\ work.path = -1 /\ call.path = -1 /\ lines = <<>>
  BY DEF Ready, IpcInv, DaemonOK, StartOK
<1>2. FeaturesOK'
  <2>1. IsRing(features) BY DEF IpcInv, FeaturesOK, IsRing
  <2>2. IsRing(features') BY <2>1, RingFacts DEF Ready
  <2> QED BY <2>2 DEF FeaturesOK, IsRing
<1>3. CASE piped.stream
  <2>1. PICK w : /\ answers' = Append(answers, w) /\ w.of = -1 /\ child' \in {"waiting", "zombie"}
    <3>1. Answer(0).of = -1 /\ Answer(-1).of = -1 BY <1>1 DEF Answer
    <3>2. CASE Put(Answer(0), "waiting")
      <4>1. answers' = Append(answers, Answer(0)) /\ child' = "waiting" BY <1>3, <3>2 DEF Put
      <4> QED BY <3>1, <4>1
    <3>3. CASE Put(Answer(-1), "zombie")
      <4>1. answers' = Append(answers, Answer(-1)) /\ child' = "zombie" BY <1>3, <3>3 DEF Put
      <4> QED BY <3>1, <4>1
    <3> QED BY <3>2, <3>3 DEF Ready
  <2>2. One(answers') /\ answers'[1].of = call.path /\ ~Two(answers') /\ answers' # <<>>
    <3>0. answers = <<>> /\ answers' = Append(answers, w) BY <1>1, <2>1
    <3>1. One(answers') /\ answers'[1] = w BY <3>0, QueueFacts DEF QueueFactsFor
    <3>2. answers' # <<>> /\ ~Two(answers') BY <3>1, QueueFacts DEF QueueFactsFor
    <3> QED BY <1>1, <2>1, <3>1, <3>2
  <2>3. call.at \in {"await", "closing"} BY <1>1, <1>3 DEF IpcInv, PipesOK
  <2>4. Stations' /\ FilesOK' BY <1>1 DEF Stations, FilesOK, IpcInv, Exchange
  <2>5. AnswersOK' BY <1>1, <2>2, <2>3 DEF AnswersOK
  <2>6. LinesOK' BY <1>1 DEF LinesOK
  <2>7. DaemonOK' BY <2>1 DEF DaemonOK, Alive
  <2>8. StartOK' BY <1>1, <2>3 DEF StartOK, IpcInv
  <2>9. PipesOK' BY <1>1 DEF PipesOK, IpcInv
  <2>10. ClosedCleanly' BY <1>1 DEF ClosedCleanly
  <2> QED BY <1>1, <1>2, <2>4, <2>5, <2>6, <2>7, <2>8, <2>9, <2>10 DEF IpcInv
<1>4. CASE ~piped.stream
  <2>1. child' = "zombie" /\ answers' = answers BY <1>4 DEF Ready, Put
  <2> QED BY <1>1, <1>2, <2>1, DeadOK DEF Alive
<1> QED BY <1>3, <1>4

LEMMA ReadLineOK == ASSUME IpcInv, ReadLine PROVE IpcInv'
<1>1. /\ child = "waiting" /\ UNCHANGED <<client, call, piped, answers, files, features>>
  BY DEF ReadLine
<1>2. FeaturesOK' BY <1>1 DEF IpcInv, FeaturesOK
<1>3. CASE lines # <<>>
  <2>1. work' = Head(lines) /\ lines' = Tail(lines) /\ child' = "serving"
    BY <1>3 DEF ReadLine
  <2>2. /\ One(lines) /\ call.at = "await" /\ Exchange /\ answers = <<>> /\ Same(lines[1])
    BY <1>1, <1>3 DEF IpcInv, LinesOK, Alive
  <2>3. work' = lines[1] /\ lines' = <<>> BY <2>1, <2>2, QueueFacts DEF QueueFactsFor
  <2>4. Stations' /\ FilesOK' BY <1>1 DEF Stations, FilesOK, IpcInv, Exchange
  <2>5. AnswersOK' BY <1>1 DEF AnswersOK, IpcInv
  <2>6. LinesOK' BY <2>3 DEF LinesOK
  <2>7. DaemonOK' BY <1>1, <2>1, <2>2, <2>3 DEF DaemonOK, Alive, Exchange, Same
  <2>8. StartOK' BY <1>1, <2>2 DEF StartOK, IpcInv, Exchange
  <2>9. PipesOK' BY <1>1 DEF PipesOK, IpcInv
  <2>10. ClosedCleanly' BY <1>1, <2>2 DEF ClosedCleanly
  <2> QED BY <1>1, <1>2, <2>4, <2>5, <2>6, <2>7, <2>8, <2>9, <2>10 DEF IpcInv
<1>4. CASE lines = <<>>
  <2>1. child' = "zombie" /\ UNCHANGED <<lines, work>> BY <1>4 DEF ReadLine
  <2> QED BY <1>1, <1>2, <2>1, DeadOK DEF Alive
<1> QED BY <1>3, <1>4

\* What a word leaves as it was.
LEMMA SpokenRest ==
  ASSUME IpcInv, AnswersOK', DaemonOK', FeaturesOK', lines = <<>>, Exchange,
         call.at \in {"await", "payload"}, UNCHANGED <<client, call, lines, piped, work, files>>
  PROVE  IpcInv'
<1>1. Stations' /\ FilesOK' BY DEF Stations, FilesOK, IpcInv, Exchange
<1>2. LinesOK' BY DEF LinesOK
<1>3. StartOK' BY DEF StartOK, IpcInv, Exchange
<1>4. PipesOK' BY DEF PipesOK, IpcInv
<1>5. ClosedCleanly' BY DEF ClosedCleanly
<1> QED BY <1>1, <1>2, <1>3, <1>4, <1>5 DEF IpcInv

\* The daemon writes a word for the call in progress.
LEMMA SpokenOK ==
  ASSUME IpcInv, child \in {"serving", "hidden"}, NEW w, NEW next, Put(w, next), FeaturesOK',
         UNCHANGED <<client, call, lines, piped, work, files>>, w.of = work.path,
         \/ next = "waiting"
         \/ next = "hidden" /\ child = "serving" /\ work.op = "propose" /\ w.status = 0
  PROVE  IpcInv'
<1>1. /\ Exchange /\ Same(work) /\ call.at \in {"await", "payload"} /\ lines = <<>>
      /\ child = "serving" => call.at = "await" /\ answers = <<>>
      /\ child = "hidden" => /\ call.op = "propose"
                             /\ \/ call.at = "payload" /\ answers = <<>>
                                \/ call.at = "await" /\ One(answers) /\ answers[1].status = 0
  BY DEF IpcInv, DaemonOK, LinesOK, Alive
<1>2. CASE ~piped.stream
  <2>1. child' = "zombie" /\ answers' = answers BY <1>2 DEF Put
  <2> QED BY <2>1, DeadOK DEF Alive
<1>3. CASE piped.stream
  <2>1. answers' = Append(answers, w) /\ child' = next BY <1>3 DEF Put
  <2>2. w.of = call.path BY <1>1 DEF Same
  <2>3. CASE answers = <<>>
    <3>1. One(answers') /\ answers'[1] = w /\ ~Two(answers') /\ answers' # <<>>
      BY <2>1, <2>3, QueueFacts DEF QueueFactsFor
    <3>2. AnswersOK' BY <1>1, <2>2, <3>1 DEF AnswersOK
    <3>3. DaemonOK' BY <1>1, <2>1, <3>1 DEF DaemonOK, Alive, Same, Exchange
    <3> QED BY <1>1, <3>2, <3>3, SpokenRest
  <2>4. CASE answers # <<>>
    <3>1. child = "hidden" /\ One(answers) /\ answers[1].status = 0 /\ call.at = "await"
          /\ next = "waiting" /\ call.op = "propose" /\ answers[1].of = call.path
      BY <1>1, <2>4 DEF IpcInv, AnswersOK
    <3>2. /\ Two(answers') /\ answers'[1] = answers[1] /\ answers'[2] = w /\ ~One(answers')
          /\ answers' # <<>>
      BY <2>1, <3>1, QueueFacts DEF QueueFactsFor
    <3>3. AnswersOK' BY <1>1, <2>2, <3>1, <3>2 DEF AnswersOK
    <3>4. DaemonOK' BY <2>1, <3>1 DEF DaemonOK, Alive
    <3> QED BY <1>1, <3>3, <3>4, SpokenRest
  <2> QED BY <2>3, <2>4
<1> QED BY <1>2, <1>3

LEMMA ServeSliceOK == ASSUME IpcInv, ServeSlice PROVE IpcInv'
<1>1. /\ child = "serving" /\ UNCHANGED <<client, call, lines, piped, work, files>>
  BY DEF ServeSlice
<1>2. FeaturesOK'
  <2>1. IsRing(features) BY DEF IpcInv, FeaturesOK, IsRing
  <2>2. IsRing(features') BY <2>1, RingFacts DEF ServeSlice
  <2> QED BY <2>2 DEF FeaturesOK, IsRing
<1>3. CASE Put(Answer(0), "waiting")
  <2>1. Answer(0).of = work.path BY DEF Answer
  <2> QED BY <1>1, <1>2, <1>3, <2>1, SpokenOK
<1>4. CASE Put(Answer(-1), "waiting")
  <2>1. Answer(-1).of = work.path BY DEF Answer
  <2> QED BY <1>1, <1>2, <1>4, <2>1, SpokenOK
<1> QED BY <1>3, <1>4 DEF ServeSlice

LEMMA ServeProposeOK == ASSUME IpcInv, ServePropose PROVE IpcInv'
<1>1. /\ child = "serving" /\ UNCHANGED <<client, call, lines, piped, work, files>>
      /\ work.op = "propose" /\ features' = features
  BY DEF ServePropose
<1>2. FeaturesOK' BY <1>1 DEF IpcInv, FeaturesOK
<1>3. CASE Put(Answer(0), "hidden")
  <2>1. Answer(0).of = work.path /\ Answer(0).status = 0 BY DEF Answer
  <2> QED BY <1>1, <1>2, <1>3, <2>1, SpokenOK
<1>4. CASE Put(Answer(-1), "waiting")
  <2>1. Answer(-1).of = work.path BY DEF Answer
  <2> QED BY <1>1, <1>2, <1>4, <2>1, SpokenOK
<1> QED BY <1>3, <1>4 DEF ServePropose

LEMMA SendHiddenOK == ASSUME IpcInv, SendHidden PROVE IpcInv'
<1>1. /\ child = "hidden" /\ UNCHANGED <<client, call, lines, piped, work, files>>
      /\ features' = features
  BY DEF SendHidden
<1>2. FeaturesOK' BY <1>1 DEF IpcInv, FeaturesOK
<1> DEFINE w == [Answer(0) EXCEPT !.seen = ReadRing(features, work.start, work.n)]
<1>3. w.of = work.path BY DEF Answer
<1>4. Put(w, "waiting") BY DEF SendHidden
<1> HIDE DEF w
<1> QED BY <1>1, <1>2, <1>3, <1>4, SpokenOK

-----------------------------------------------------------------------------
(* The steps of the parent that begin and end a call *)

KeepIpcRest == UNCHANGED <<client, child, lines, piped, answers, work, files, features>>

LEMMA IssueOK ==
  ASSUME IpcInv, call.at = "idle", KeepIpcRest, IsCall(call'), call'.path = -1,
         \/ call'.op \in {"feature_slice", "propose"} /\ call'.at = "begin"
         \/ call'.op = "close" /\ call'.at = "closing"
         \/ call'.op = "start" /\ call'.at = "begin" /\ Fresh
  PROVE  IpcInv'
<1>1. UNCHANGED <<client, child, lines, piped, answers, work, files, features>> BY DEF KeepIpcRest
<1>2. /\ answers = <<>> /\ child \notin {"loading", "serving", "hidden"}
      /\ lines # <<>> => child \notin Alive
      /\ \A p \in DOMAIN files : files[p] = Torn /\ client.failed_write
  BY DEF IpcInv, AnswersOK, DaemonOK, LinesOK, FilesOK, Stations, Exchange
<1>3. FilesOK' BY <1>1, <1>2 DEF FilesOK
<1>4. Stations' BY DEF Stations
<1>5. AnswersOK' BY <1>1, <1>2, QueueFacts DEF AnswersOK, QueueFactsFor
<1>6. LinesOK' BY <1>1, <1>2 DEF LinesOK, IpcInv
<1>7. DaemonOK' BY <1>1, <1>2 DEF DaemonOK, IpcInv
<1>8. StartOK' BY <1>1 DEF StartOK, Fresh
<1>9. PipesOK' BY <1>1 DEF PipesOK, IpcInv
<1>10. ClosedCleanly' BY DEF ClosedCleanly
<1>11. FeaturesOK' /\ IsClient(client') BY <1>1 DEF FeaturesOK, IpcInv
<1> QED BY <1>3, <1>4, <1>5, <1>6, <1>7, <1>8, <1>9, <1>10, <1>11 DEF IpcInv

LEMMA CollectOK ==
  ASSUME IpcInv, call.at \in {"idle", "done"}, KeepIpcRest, call' = NoCall
  PROVE  IpcInv'
<1>1. UNCHANGED <<client, child, lines, piped, answers, work, files, features>> BY DEF KeepIpcRest
<1>2. /\ answers = <<>> /\ child \notin {"loading", "serving", "hidden"}
      /\ lines # <<>> => child \notin Alive
      /\ \A p \in DOMAIN files : files[p] = Torn /\ client.failed_write
  BY DEF IpcInv, AnswersOK, DaemonOK, LinesOK, FilesOK, Stations, Exchange
<1>3. IsCall(call') /\ call'.op = "none" /\ call'.at = "idle" /\ call'.path = -1
  BY DEF NoCall, IsCall
<1>4. FilesOK' BY <1>1, <1>2 DEF FilesOK
<1>5. Stations' BY <1>3 DEF Stations
<1>6. AnswersOK' BY <1>1, <1>2, <1>3, QueueFacts DEF AnswersOK, QueueFactsFor
<1>7. LinesOK' BY <1>1, <1>2 DEF LinesOK, IpcInv
<1>8. DaemonOK' BY <1>1, <1>2 DEF DaemonOK, IpcInv
<1>9. StartOK' BY <1>3 DEF StartOK
<1>10. PipesOK' BY <1>1, <1>3 DEF PipesOK, IpcInv
<1>11. ClosedCleanly' BY <1>3 DEF ClosedCleanly
<1>12. FeaturesOK' /\ IsClient(client') BY <1>1 DEF FeaturesOK, IpcInv
<1> QED BY <1>3, <1>4, <1>5, <1>6, <1>7, <1>8, <1>9, <1>10, <1>11, <1>12 DEF IpcInv

LEMMA SameIpc == ASSUME IpcInv, UNCHANGED ipcVars PROVE IpcInv'
<1>1. UNCHANGED <<client, call, child, lines, piped, answers, work, files, features>>
  BY DEF ipcVars
<1>2. Stations' /\ FilesOK' BY <1>1 DEF Stations, FilesOK, IpcInv, Exchange
<1>3. AnswersOK' BY <1>1 DEF AnswersOK, IpcInv
<1>4. LinesOK' BY <1>1 DEF LinesOK, IpcInv, Exchange, Same
<1>5. DaemonOK' BY <1>1 DEF DaemonOK, IpcInv, Exchange, Same
<1>6. StartOK' BY <1>1 DEF StartOK, IpcInv
<1>7. PipesOK' BY <1>1 DEF PipesOK, IpcInv
<1>8. ClosedCleanly' BY <1>1 DEF ClosedCleanly, IpcInv
<1>9. FeaturesOK' BY <1>1 DEF FeaturesOK, IpcInv
<1> QED BY <1>1, <1>2, <1>3, <1>4, <1>5, <1>6, <1>7, <1>8, <1>9 DEF IpcInv

-----------------------------------------------------------------------------
(* Every step keeps the two processes in step *)

LEMMA CopyLocalIpc == ASSUME IpcInv, CopyLocal PROVE IpcInv'
<1>1. UNCHANGED <<client, call, child, lines, piped, answers, work, files>> BY DEF CopyLocal
<1>2. FeaturesOK'
  <2>1. IsRing(features) BY DEF IpcInv, FeaturesOK, IsRing
  <2>2. PICK capture, start, rows : features' = WriteSlice(features, capture, start, rows)
    BY DEF CopyLocal
  <2>3. IsRing(features') BY <2>1, <2>2, RingFacts
  <2> QED BY <2>3 DEF FeaturesOK, IsRing
<1>3. Stations' /\ FilesOK' BY <1>1 DEF Stations, FilesOK, IpcInv, Exchange
<1>4. AnswersOK' BY <1>1 DEF AnswersOK, IpcInv
<1>5. LinesOK' BY <1>1 DEF LinesOK, IpcInv, Exchange, Same
<1>6. DaemonOK' BY <1>1 DEF DaemonOK, IpcInv, Exchange, Same
<1>7. StartOK' BY <1>1 DEF StartOK, IpcInv
<1>8. PipesOK' BY <1>1 DEF PipesOK, IpcInv
<1>9. ClosedCleanly' BY <1>1 DEF ClosedCleanly, IpcInv
<1> QED BY <1>1, <1>2, <1>3, <1>4, <1>5, <1>6, <1>7, <1>8, <1>9 DEF IpcInv

LEMMA ParentIpc == ASSUME IpcInv, ModeOK, Parent PROVE IpcInv'
<1>1. CASE Begin
  <2>1. run.at = "begin" /\ Fresh /\ call.at = "idle" BY <1>1 DEF Begin, ModeOK, Fresh, NoCall
  <2>2. CASE mode.remote
    <3>1. call' = [NoCall EXCEPT !.op = "start", !.at = "begin"] /\ KeepIpcRest
      BY <1>1, <2>2 DEF Begin, KeepDaemonSide, KeepIpcRest
    <3>2. IsCall(call') /\ call'.path = -1 /\ call'.op = "start" /\ call'.at = "begin"
      BY <3>1 DEF NoCall, IsCall
    <3> QED BY <2>1, <3>1, <3>2, IssueOK
  <2>3. CASE ~mode.remote
    <3>1. UNCHANGED ipcVars BY <1>1, <2>3 DEF Begin, KeepDaemonSide, ipcVars
    <3> QED BY <3>1, SameIpc
  <2> QED BY <2>2, <2>3
<1>2. CASE Started
  <2>1. call.at = "done" /\ call' = NoCall /\ KeepIpcRest
    BY <1>2 DEF Started, KeepDaemonSide, KeepIpcRest
  <2> QED BY <2>1, CollectOK
<1>3. CASE CopyLocal BY <1>3, CopyLocalIpc
<1>4. CASE CopyRemote
  <2>1. PICK c, d : call' = [NoCall EXCEPT !.op = "feature_slice", !.at = "begin",
                                !.capture = c.capture, !.start = pass.base + c.from, !.n = c.n,
                                !.data = d]
    BY <1>4 DEF CopyRemote
  <2>2. IsCall(call') /\ call'.path = -1 /\ call'.op = "feature_slice" /\ call'.at = "begin"
    BY <2>1 DEF NoCall, IsCall
  <2>3. call.at = "idle" /\ KeepIpcRest BY <1>4 DEF CopyRemote, KeepIpcRest
  <2> QED BY <2>2, <2>3, IssueOK
<1>5. CASE CopiedRemote
  <2>1. call.at = "done" /\ call' = NoCall /\ KeepIpcRest BY <1>5 DEF CopiedRemote, KeepIpcRest
  <2> QED BY <2>1, CollectOK
<1>6. CASE PassFails
  <2>1. call.at \in {"idle", "done"} /\ call' = NoCall /\ KeepIpcRest
    BY <1>6 DEF PassFails, KeepDaemonSide, KeepIpcRest
  <2> QED BY <2>1, CollectOK
<1>7. CASE Propose
  <2>1. call' = [NoCall EXCEPT !.op = "propose", !.at = "begin", !.start = run.committed,
                               !.n = CtxLen, !.data = <<Junk>>]
    BY <1>7 DEF Propose
  <2>2. IsCall(call') /\ call'.path = -1 /\ call'.op = "propose" /\ call'.at = "begin"
    BY <2>1 DEF NoCall, IsCall
  <2>3. call.at = "idle" /\ KeepIpcRest BY <1>7 DEF Propose, KeepDaemonSide, KeepIpcRest
  <2> QED BY <2>2, <2>3, IssueOK
<1>8. CASE Proposed
  <2>1. call.at = "done" /\ call' = NoCall /\ KeepIpcRest
    BY <1>8 DEF Proposed, KeepDaemonSide, KeepIpcRest
  <2> QED BY <2>1, CollectOK
<1>9. CASE Close
  <2>1. call' = [NoCall EXCEPT !.op = "close", !.at = "closing"] BY <1>9 DEF Close
  <2>2. IsCall(call') /\ call'.path = -1 /\ call'.op = "close" /\ call'.at = "closing"
    BY ZenonT(40), <2>1 DEF NoCall, IsCall
  <2>3. call.at = "idle" /\ KeepIpcRest BY <1>9 DEF Close, KeepDaemonSide, KeepIpcRest
  <2> QED BY <2>2, <2>3, IssueOK
<1>10. CASE Prefilled \/ SpecEnd \/ DraftLocal \/ Verified \/ Replayed \/ ArBegin \/ ArStepped
            \/ Answered \/ Exit
  <2>1. UNCHANGED ipcVars
    BY ZenonT(40), <1>10 DEF Prefilled, SpecEnd, DraftLocal, Verified, Replayed, ArBegin, ArStepped, Answered,
                 Exit, KeepIpc
  <2> QED BY <2>1, SameIpc
<1> QED BY <1>1, <1>2, <1>3, <1>4, <1>5, <1>6, <1>7, <1>8, <1>9, <1>10 DEF Parent

LEMMA ClientIpc == ASSUME IpcInv, ClientStep PROVE IpcInv'
  BY StartDirOK, StartForkOK, StartReadyOK, WriteFileOK, SendOK, AwaitOK, PayloadOK, RemoveFileOK,
     ClosePipesOK, ReapOK DEF ClientStep

LEMMA DaemonIpc == ASSUME IpcInv, DaemonStep PROVE IpcInv'
  BY ReadyOK, ReadLineOK, ServeSliceOK, ServeProposeOK, SendHiddenOK DEF DaemonStep

LEMMA OtherIpc == ASSUME IpcInv, Request \/ RejectLine \/ Leave \/ UNCHANGED vars PROVE IpcInv'
<1>1. UNCHANGED ipcVars BY DEF Request, RejectLine, Leave, KeepIpc, vars
<1> QED BY SMTT(30), <1>1, SameIpc

-----------------------------------------------------------------------------
(* The request: the steps of the two processes that leave it alone *)

LEMMA RunKept ==
  ASSUME RunInv, ModeOK', UNCHANGED <<mode, cache, pass, run, out>>
  PROVE  RunInv'
<1>1. Shapes' BY DEF RunInv, Shapes
<1>2. run.at \in Working => CountsOK' /\ PassOK' BY DEF RunInv, CountsOK, PassOK
<1>3. run.at \in Working /\ Fits => RightOK' BY DEF RunInv, RightOK, Ctx
<1>4. Fits' <=> Fits BY DEF Fits
<1>5. ASSUME NEW w, EndedWith(w) PROVE EndedWith(w)' BY <1>4, <1>5 DEF EndedWith
<1>6. run.at = "returned" => \E w \in Seq(Tokens) : EndedWith(w)' BY <1>5 DEF RunInv
<1> QED BY <1>1, <1>2, <1>3, <1>4, <1>6 DEF RunInv

LEMMA ClientBusy == ASSUME ClientStep PROVE call.at # "idle"
<1>1. CASE StartDir BY <1>1 DEF StartDir
<1>2. CASE StartFork BY <1>2 DEF StartFork
<1>3. CASE StartReady BY <1>3 DEF StartReady
<1>4. CASE WriteFile BY <1>4 DEF WriteFile
<1>5. CASE Send BY <1>5 DEF Send
<1>6. CASE Await BY <1>6 DEF Await
<1>7. CASE Payload BY <1>7 DEF Payload
<1>8. CASE RemoveFile BY <1>8 DEF RemoveFile
<1>9. CASE ClosePipes BY <1>9 DEF ClosePipes
<1>10. CASE Reap BY <1>10 DEF Reap
<1> QED BY <1>1, <1>2, <1>3, <1>4, <1>5, <1>6, <1>7, <1>8, <1>9, <1>10 DEF ClientStep

LEMMA ClientOp == ASSUME IpcInv, ClientStep PROVE call'.op \in {call.op, "none"}
<1> USE DEF IpcInv, IsCall
<1>1. CASE StartDir BY <1>1 DEF StartDir, Ended
<1>2. CASE StartFork BY <1>2 DEF StartFork, Ended
<1>3. CASE StartReady BY <1>3 DEF StartReady, Ended
<1>4. CASE WriteFile BY <1>4 DEF WriteFile, Ended
<1>5. CASE Send BY <1>5 DEF Send, NoCall
<1>6. CASE Await BY <1>6 DEF Await
<1>7. CASE Payload BY <1>7 DEF Payload
<1>8. CASE RemoveFile BY <1>8 DEF RemoveFile, Ended
<1>9. CASE ClosePipes BY <1>9 DEF ClosePipes
<1>10. CASE Reap BY <1>10 DEF Reap, Ended
<1> QED BY <1>1, <1>2, <1>3, <1>4, <1>5, <1>6, <1>7, <1>8, <1>9, <1>10 DEF ClientStep

LEMMA IpcRun ==
  ASSUME IpcInv, RunInv, UNCHANGED <<mode, cache, pass, run, out>>,
         ClientStep \/ DaemonStep \/ Crash \/ UNCHANGED ipcVars
  PROVE  RunInv'
<1>1. ~mode.remote => call' = NoCall
  <2>1. CASE ClientStep
    <3>1. call # NoCall BY <2>1, ClientBusy DEF NoCall
    <3> QED BY <3>1 DEF RunInv, ModeOK
  <2>2. CASE DaemonStep \/ Crash \/ UNCHANGED ipcVars
    <3>1. call' = call
      BY <2>2 DEF DaemonStep, Ready, ReadLine, ServeSlice, ServePropose, SendHidden, Crash, ipcVars
    <3> QED BY <3>1 DEF RunInv, ModeOK
  <2> QED BY <2>1, <2>2
<1>2. run.at = "begin" => Fresh'
  <2> SUFFICES ASSUME Fresh PROVE Fresh' BY DEF RunInv, ModeOK
  <2>1. ~ClientStep BY ClientBusy DEF NoCall, Fresh
  <2>2. ~DaemonStep /\ ~Crash
    BY DEF DaemonStep, Ready, ReadLine, ServeSlice, ServePropose, SendHidden, Crash, Alive, Fresh
  <2> QED BY <2>1, <2>2 DEF ipcVars, Fresh
<1>3. call'.op \in {call.op, "none"}
  <2>1. CASE ClientStep BY <2>1, ClientOp
  <2>2. CASE DaemonStep \/ Crash \/ UNCHANGED ipcVars
    BY <2>2 DEF DaemonStep, Ready, ReadLine, ServeSlice, ServePropose, SendHidden, Crash, ipcVars
  <2> QED BY <2>1, <2>2
<1>4. ModeOK' BY <1>1, <1>2, <1>3 DEF RunInv, ModeOK
<1> QED BY <1>4, RunKept

-----------------------------------------------------------------------------
(* The request: what a pass leaves *)

\* The context the pass in progress continues.
Before == IF run.at = "prefill" THEN <<>> ELSE Ctx

LEMMA PassFacts ==
  ASSUME RunInv, pass.k > 0
  PROVE  /\ run.at \in {"prefill", "verify", "replay", "ar"} /\ CountsOK /\ PassOK
         /\ pass.toks \in Seq(Tokens) /\ pass.toks # <<>> /\ pass.base \in Nat
         /\ Ctx \in Seq(Tokens) /\ Len(Ctx) = run.committed
         /\ Before \in Seq(Tokens) /\ Len(Before) = pass.base
<1>1. run.at \in Working /\ CountsOK /\ PassOK BY DEF RunInv, Shapes, IsPass
<1>2. run.at \in {"prefill", "verify", "replay", "ar"} BY <1>1 DEF Working, PassOK
<1>3. run.prompt \in Seq(Tokens) /\ out \in Seq(Tokens) /\ Len(out) = run.n
      /\ run.committed = Len(run.prompt) + run.n /\ run.prompt # <<>>
  BY <1>1 DEF CountsOK
<1>4. Ctx \in Seq(Tokens) /\ Len(Ctx) = run.committed
  <2>1. run.prompt \o out \in Seq(Tokens) /\ Len(run.prompt \o out) = Len(run.prompt) + Len(out)
    BY <1>3, ConcatProperties
  <2> QED BY <1>3, <2>1 DEF Ctx
<1>5. pass.toks \in Seq(Tokens) /\ pass.toks # <<>>
  <2>1. CASE run.at = "prefill" BY <1>1, <1>3, <2>1 DEF PassOK
  <2>2. CASE run.at = "verify"
    <3>1. pass.toks \in Seq(Tokens) /\ Len(pass.toks) = QLen BY <1>1, <2>2 DEF PassOK
    <3>2. Len(pass.toks) # 0 BY <3>1, BlockSize
    <3> QED BY <3>1, <3>2
  <2>3. CASE run.at = "replay" BY <1>1, <2>3 DEF PassOK
  <2>4. CASE run.at = "ar"
    <3>1. run.last \in Tokens /\ pass.toks = <<run.last>> BY <1>1, <2>4 DEF PassOK
    <3> QED BY <3>1
  <2> QED BY <1>2, <2>1, <2>2, <2>3, <2>4
<1>6. Before \in Seq(Tokens) /\ Len(Before) = pass.base /\ pass.base \in Nat
  <2>1. CASE run.at = "prefill"
    <3>1. Before = <<>> /\ pass.base = 0 BY <1>1, <2>1 DEF Before, PassOK
    <3> QED BY <3>1
  <2>2. CASE run.at # "prefill"
    <3>1. Before = Ctx /\ pass.base = run.committed BY <1>1, <1>2, <2>2 DEF Before, PassOK
    <3> QED BY <1>4, <3>1
  <2> QED BY <2>1, <2>2
<1> QED BY <1>1, <1>2, <1>4, <1>5, <1>6

LEMMA PassGraph ==
  ASSUME RunInv, pass.k > 0
  PROVE  /\ IsCache(Graph.cache)
         /\ Graph.out = [i \in 1..Len(pass.toks) |-> Graph.out[i]]
         /\ \A i \in 1..Len(pass.toks) : IsContext(Graph.out[i])
<1>1. IsCache(cache) BY DEF RunInv, Shapes
<1>2. pass.toks \in Seq(Tokens) /\ pass.base \in Nat BY PassFacts
<1> QED BY <1>1, <1>2, GraphType DEF Graph

\* A request that fits has room for each of its passes.
LEMMA PassRight ==
  ASSUME RunInv, pass.k > 0, Fits
  PROVE  /\ \A i \in 1..Len(pass.toks) : Graph.out[i] = Before \o SubSeq(pass.toks, 1, i)
         /\ Right(Graph.cache, Before \o pass.toks)
<1>1. IsCache(cache) /\ RightOK /\ mode.spec \in BOOLEAN
  BY PassFacts DEF RunInv, Shapes, Working, ModeOK
<1>2. Right(cache, Before) BY <1>1 DEF RightOK, Before
<1>3. Len(Before) + Len(pass.toks) <= MaxCtx
  <2>1. /\ Len(run.prompt) \in Nat /\ run.n_gen \in Nat /\ run.n \in Nat
        /\ Len(run.prompt) + run.n_gen + 1 <= MaxCtx
        /\ run.committed = Len(run.prompt) + run.n /\ MaxCtx \in Nat /\ run.n <= run.n_gen
    <3>1. CountsOK /\ MaxCtx \in Nat BY PassFacts, SizesAreNat
    <3>2. Len(run.prompt) \in Nat /\ Len(out) \in Nat BY <3>1 DEF CountsOK
    <3> QED BY <3>1, <3>2 DEF CountsOK
  <2>2. CASE run.at = "prefill"
    <3>1. Len(Before) = 0 /\ pass.toks = run.prompt BY <2>2, PassFacts DEF PassOK
    <3> QED BY <2>1, <3>1
  <2>3. CASE run.at = "verify"
    <3>1. /\ Len(Before) = run.committed /\ Len(pass.toks) = QLen /\ mode.spec
          /\ run.n < run.n_gen
      BY <2>3, PassFacts DEF PassOK
    <3>2. Len(run.prompt) + run.n_gen + (QLen - 1) <= MaxCtx BY <3>1 DEF Fits
    <3> QED BY SMTT(30), <2>1, <3>1, <3>2, BlockSize
  <2>4. CASE run.at = "replay"
    <3>1. /\ Len(Before) = run.committed /\ run.n + Len(pass.toks) <= run.n_gen
          /\ Len(pass.toks) \in Nat
      BY <2>4, PassFacts DEF PassOK
    <3> QED BY SMTT(30), <2>1, <3>1
  <2>5. CASE run.at = "ar"
    <3>1. Len(Before) = run.committed /\ pass.toks = <<run.last>> BY <2>5, PassFacts DEF PassOK
    <3>2. Len(pass.toks) = 1 BY <3>1
    <3> QED BY <2>1, <3>1, <3>2
  <2> QED BY <2>2, <2>3, <2>4, <2>5, PassFacts
<1>4. /\ pass.toks \in Seq(Tokens) /\ pass.toks # <<>> /\ Before \in Seq(Tokens)
      /\ Len(Before) = pass.base
  BY PassFacts
<1> DEFINE b == Before
           toks == pass.toks
           c == cache
<1> HIDE DEF b, toks, c
<1>5. /\ \A i \in 1..Len(toks) : Qwen35Graph(c, toks, Len(b)).out[i] = b \o SubSeq(toks, 1, i)
      /\ Right(Qwen35Graph(c, toks, Len(b)).cache, b \o toks)
  BY <1>1, <1>2, <1>3, <1>4, GraphRight DEF OutRight, b, toks, c
<1> QED BY <1>4, <1>5 DEF b, toks, c, Graph

\* The token after the last one of a pass.
LEMMA NextToken ==
  ASSUME RunInv, pass.k > 0, NEW t \in Pick(Last(Graph.out))
  PROVE  t \in Tokens /\ (Fits => t = Predict(Before \o pass.toks))
<1> DEFINE n == Len(pass.toks)
           o == Graph.out
<1>1. /\ pass.toks \in Seq(Tokens) /\ n \in Nat \ {0} /\ n \in 1..n /\ Before \in Seq(Tokens)
      /\ SubSeq(pass.toks, 1, n) = pass.toks
  BY PassFacts, SubSeqFull
<1>2. o = [i \in 1..n |-> o[i]] /\ IsContext(o[n]) BY <1>1, PassGraph
<1>3. Fits => o[n] = Before \o pass.toks
  <2>1. Fits => o[n] = Before \o SubSeq(pass.toks, 1, n) BY <1>1, PassRight
  <2> QED BY <1>1, <2>1
<1>4. Before \o pass.toks \in Seq(Tokens) BY <1>1, ConcatProperties
<1>5. t \in Pick(Last(o)) OBVIOUS
<1> HIDE DEF o
<1>6. Last(o) = o[n]
  <2> DEFINE S == {o[i] : i \in 1..n}
  <2>1. o \in [1..n -> S] BY <1>2
  <2>2. Len(o) = n
    <3> HIDE DEF S, n
    <3> QED BY <1>1, <2>1
  <2> QED BY <2>2 DEF Last
<1> DEFINE e == o[n]
<1>7. t \in Pick(e) /\ IsContext(e) BY <1>2, <1>5, <1>6
<1>8. Fits => e = Before \o pass.toks BY <1>3
<1> HIDE DEF e
<1>9. t \in Tokens /\ (e \in Seq(Tokens) => t = Predict(e)) BY <1>7, PickFacts
<1> QED BY <1>4, <1>8, <1>9

-----------------------------------------------------------------------------
(* The request: what each kind of step has to show *)

LEMMA RunFields ==
  ASSUME RunInv
  PROVE  /\ IsRun(run) /\ IsPass(pass) /\ IsCache(cache) /\ run.last \in Tokens \cup {-1}
         /\ IsPass(NoPass) /\ NoPass.k = 0
         /\ \A toks, base, u : LET new == NewPass(toks, base, u) IN
              IsPass(new) /\ new.k = 1 /\ new.toks = toks /\ new.base = base
<1>1. IsRun(run) /\ IsPass(pass) /\ IsCache(cache) /\ run.last \in Tokens \cup {-1}
  BY DEF RunInv, Shapes
<1>2. IsPass(NoPass) /\ NoPass.k = 0 BY DEF NoPass, IsPass
<1>3. ASSUME NEW toks, NEW base, NEW u
      PROVE  LET new == NewPass(toks, base, u) IN
               IsPass(new) /\ new.k = 1 /\ new.toks = toks /\ new.base = base
  BY DEF NewPass, IsPass
<1> QED BY <1>1, <1>2, <1>3

\* No proposal is under way after the step.
CallEnds == call' = NoCall \/ (call' = call /\ (run.at # "draft" \/ Finished \/ ~mode.remote))

LEMMA ModeKept ==
  ASSUME RunInv, mode' = mode, CallEnds, run'.at # "begin",
         run'.at \in {"start", "closing"} => mode.remote
  PROVE  ModeOK'
<1>1. ModeOK BY DEF RunInv
<1>2. ~mode.remote => call' = NoCall BY <1>1 DEF ModeOK, CallEnds
<1>3. call'.op # "propose"
  <2>1. NoCall.op # "propose" BY DEF NoCall
  <2>2. CASE call' = call /\ run.at # "draft" BY <1>1, <2>2 DEF ModeOK
  <2>3. CASE call' = call /\ run.at = "draft" /\ Finished
    <3>1. run.n \in Nat /\ run.n_gen \in Nat
      <4>1. CountsOK BY <2>3 DEF RunInv, Working
      <4> QED BY <4>1 DEF CountsOK
    <3> QED BY <1>1, <2>3, <3>1 DEF ModeOK, Finished
  <2>4. CASE call' = call /\ ~mode.remote BY <1>2, <2>1, <2>4
  <2> QED BY <2>1, <2>2, <2>3, <2>4 DEF CallEnds
<1> QED BY <1>1, <1>2, <1>3 DEF ModeOK

\* The request goes on.
LEMMA WorkOn ==
  ASSUME RunInv, mode' = mode, CallEnds, run'.at \in Working, IsRun(run'), IsPass(pass'),
         IsCache(cache'), run'.last \in Tokens \cup {-1}, CountsOK', PassOK', Fits' => RightOK'
  PROVE  RunInv'
<1>1. ModeOK' BY ModeKept DEF Working
<1>2. Shapes' BY DEF Shapes
<1>3. run'.at # "returned" BY DEF Working
<1> QED BY <1>1, <1>2, <1>3 DEF RunInv

\* The request comes to its end.
LEMMA EndNow ==
  ASSUME RunInv, mode' = mode, CallEnds, run'.at = "returned", IsRun(run'), IsPass(pass'),
         pass'.k = 0, IsCache(cache'), run'.last \in Tokens \cup {-1},
         NEW w \in Seq(Tokens), EndedWith(w)'
  PROVE  RunInv'
<1>1. ModeOK' BY ModeKept
<1>2. Shapes' BY DEF Shapes
<1>3. run'.at \notin Working BY DEF Working
<1> QED BY <1>1, <1>2, <1>3 DEF RunInv

\* No request is being served.
LEMMA RestNow ==
  ASSUME RunInv, ModeOK', run'.at \in {"start", "idle", "closing", "exited"}, IsRun(run'),
         IsPass(pass'), pass'.k = 0, IsCache(cache'), run'.last \in Tokens \cup {-1}
  PROVE  RunInv'
<1>1. Shapes' BY DEF Shapes
<1>2. run'.at \notin Working /\ run'.at # "returned" BY DEF Working
<1> QED BY <1>1, <1>2 DEF RunInv

\* What has been generated so far.
LEMMA OutFacts ==
  ASSUME RunInv, run.at \in Working
  PROVE  /\ CountsOK /\ PassOK /\ mode.spec \in BOOLEAN /\ mode.remote \in BOOLEAN
         /\ run.prompt \in Seq(Tokens) /\ out \in Seq(Tokens) /\ Len(out) = run.n
         /\ run.n \in Nat /\ run.n_gen \in Nat /\ run.n <= run.n_gen
         /\ ~mode.spec => \A i \in 1..Len(out) : out[i] # Eos
         /\ Fits => GreedyAfter(run.prompt, out)
         /\ Ctx \in Seq(Tokens) /\ Len(Ctx) = run.committed
<1>1. CountsOK /\ PassOK /\ (Fits => RightOK) /\ ModeOK BY DEF RunInv
<1>2. /\ run.prompt \in Seq(Tokens) /\ out \in Seq(Tokens) /\ Len(out) = run.n
      /\ run.n_gen \in Nat /\ run.n <= run.n_gen /\ run.committed = Len(run.prompt) + run.n
  BY <1>1 DEF CountsOK
<1>3. run.n \in Nat BY <1>2
<1>4. ~mode.spec => \A i \in 1..Len(out) : out[i] # Eos
  <2>1. CASE run.at = "prefill"
    <3>1. Len(out) = 0 BY <1>1, <2>1 DEF PassOK
    <3> QED BY <3>1
  <2>2. CASE run.at = "ar" BY <1>1, <2>2 DEF PassOK
  <2>3. CASE run.at \in {"draft", "verify", "replay"} BY <1>1, <2>3 DEF PassOK
  <2> QED BY <2>1, <2>2, <2>3 DEF Working
<1>5. Fits => GreedyAfter(run.prompt, out)
  <2>1. CASE run.at = "prefill"
    <3>1. Len(out) = 0 BY <1>1, <2>1 DEF PassOK
    <3> QED BY <3>1 DEF GreedyAfter
  <2>2. CASE run.at # "prefill" BY <1>1, <2>2 DEF RightOK
  <2> QED BY <2>1, <2>2
<1>6. Ctx \in Seq(Tokens) /\ Len(Ctx) = run.committed
  <2>1. run.prompt \o out \in Seq(Tokens) /\ Len(run.prompt \o out) = Len(run.prompt) + Len(out)
    BY <1>2, ConcatProperties
  <2> QED BY <1>2, <2>1 DEF Ctx
<1> QED BY <1>1, <1>2, <1>3, <1>4, <1>5, <1>6 DEF ModeOK

\* The request ends with what has been generated so far.
LEMMA EndHere ==
  ASSUME RunInv, run.at \in Working, mode' = mode, CallEnds, IsPass(pass'), pass'.k = 0,
         IsCache(cache'), NEW ok \in BOOLEAN, run' = Returned(ok), ok => run.n >= run.n_gen,
         out' = Marked(out) \/ (out' = out /\ (mode.remote \/ run.last = -1))
  PROVE  RunInv'
<1>1. PICK w : w = out OBVIOUS
<1>2. /\ IsRun(run') /\ run'.at = "returned" /\ run'.prompt = run.prompt /\ run'.n_gen = run.n_gen
      /\ run'.last = run.last /\ run'.ok = ok /\ run.last \in Tokens \cup {-1}
  BY RunFields DEF Returned, IsRun
<1>3. (Fits' <=> Fits) BY <1>2 DEF Fits
<1>4. /\ w \in Seq(Tokens) /\ Len(w) = run.n /\ run.n \in Nat /\ run.n_gen \in Nat
      /\ run.n <= run.n_gen /\ run.prompt \in Seq(Tokens)
      /\ ~mode.spec => \A i \in 1..Len(w) : w[i] # Eos
      /\ Fits => GreedyAfter(run.prompt, w)
  BY <1>1, OutFacts
<1>5. EndedWith(w)'
  <2>1. out' = w \/ out' = Append(w, -1) BY <1>1 DEF Marked
  <2>2. ~mode.remote /\ run.last # -1 => out' = Append(w, -1) BY <1>1 DEF Marked
  <2>3. ok => Len(w) = run.n_gen BY <1>4
  <2>4. ~mode.spec => \A i \in 1..(Len(w) - 1) : w[i] # Eos BY <1>4
  <2> QED BY <1>2, <1>3, <1>4, <2>1, <2>2, <2>3, <2>4 DEF EndedWith
<1> QED BY <1>2, <1>4, <1>5, EndNow

-----------------------------------------------------------------------------
(* The request: one lemma for each of its steps *)

LEMMA BeginRun == ASSUME RunInv, Begin PROVE RunInv'
<1>1. /\ run.at = "begin" /\ Fresh /\ pass.k = 0 /\ mode' = mode /\ pass' = pass /\ cache' = cache
      /\ ModeOK
  BY DEF Begin, RunInv, ModeOK, Shapes, Working
<1>2. /\ IsRun(run') /\ run'.last = run.last
      /\ run'.at \in {"start", "idle"} /\ (run'.at = "start" => mode.remote)
  BY RunFields DEF Begin, IsRun
<1>3. ModeOK'
  <2>1. ~mode.remote => call' = NoCall BY <1>1 DEF Begin, Fresh
  <2>2. call'.op # "propose"
    <3>1. CASE mode.remote
      <4>1. call' = [NoCall EXCEPT !.op = "start", !.at = "begin"] BY <3>1 DEF Begin
      <4> QED BY <4>1 DEF NoCall
    <3>2. CASE ~mode.remote
      <4>1. call' = NoCall BY <1>1, <3>2 DEF Begin, Fresh
      <4> QED BY <4>1 DEF NoCall
    <3> QED BY <3>1, <3>2
  <2> QED BY <1>1, <1>2, <2>1, <2>2 DEF ModeOK
<1> QED BY <1>1, <1>2, <1>3, RunFields, RestNow

LEMMA StartedRun == ASSUME RunInv, Started PROVE RunInv'
<1>1. /\ run.at = "start" /\ mode.remote /\ pass.k = 0 /\ call' = NoCall
      /\ UNCHANGED <<mode, cache, pass>>
  BY DEF Started, RunInv, ModeOK, Shapes, Working
<1>2. IsRun(run') /\ run'.last = run.last /\ run'.at \in {"idle", "closing"}
  BY RunFields DEF Started, IsRun
<1>3. ModeOK' BY <1>1, <1>2, ModeKept DEF CallEnds
<1> QED BY <1>1, <1>2, <1>3, RunFields, RestNow

\* Steps that leave the request as it is.
LEMMA CallOnlyRun ==
  ASSUME RunInv, CopyRemote \/ Propose \/ Close
  PROVE  RunInv'
<1>1. UNCHANGED <<mode, cache, pass, run, out>> BY DEF CopyRemote, Propose, Close
<1>2. call' = call \/ mode.remote
  BY DEF CopyRemote, Propose, Close, RunInv, ModeOK
<1>3. run.at # "begin"
  <2>1. CASE CopyRemote
    <3>1. pass.k > 0 BY <2>1 DEF CopyRemote, Passing
    <3> QED BY <3>1, PassFacts
  <2>2. CASE Propose \/ Close BY <2>2 DEF Propose, Close
  <2> QED BY <2>1, <2>2
<1>4. call'.op = "propose" => run.at = "draft" /\ run.n < run.n_gen
  <2>1. CASE CopyRemote BY <2>1 DEF CopyRemote, NoCall
  <2>2. CASE Close BY <2>2 DEF Close, NoCall
  <2>3. CASE Propose
    <3>1. run.at = "draft" /\ ~Finished BY <2>3 DEF Propose
    <3>2. run.n \in Nat /\ run.n_gen \in Nat BY <3>1, OutFacts DEF Working
    <3> QED BY <3>1, <3>2 DEF Finished
  <2> QED BY <2>1, <2>2, <2>3
<1>5. ModeOK' BY <1>1, <1>2, <1>3, <1>4 DEF RunInv, ModeOK
<1> QED BY <1>1, <1>5, RunKept

LEMMA CopiedRun == ASSUME RunInv, CopyLocal \/ CopiedRemote PROVE RunInv'
<1>1. /\ pass.k > 0 /\ pass' = [pass EXCEPT !.k = @ + 1] /\ UNCHANGED <<mode, cache, run, out>>
      /\ call' = call \/ call' = NoCall
  BY DEF CopyLocal, CopiedRemote, Passing
<1>2. run.at \in {"prefill", "verify", "replay", "ar"} /\ CountsOK /\ PassOK BY <1>1, PassFacts
<1>3. CallEnds BY <1>1, <1>2 DEF CallEnds
<1>4. IsPass(pass') /\ pass'.k > 0 /\ pass'.toks = pass.toks /\ pass'.base = pass.base
  <2>1. pass.k \in Nat BY RunFields DEF IsPass
  <2> QED BY <1>1, <2>1, RunFields DEF IsPass
<1>5. CountsOK' BY <1>1, <1>2 DEF CountsOK
<1>6. PassOK' BY <1>1, <1>2, <1>4 DEF PassOK
<1>7. Fits' => RightOK'
  <2>1. Fits' <=> Fits BY <1>1 DEF Fits
  <2>2. Fits => RightOK BY <1>2 DEF RunInv, Working
  <2>3. RightOK => RightOK' BY <1>1, <1>4 DEF RightOK, Ctx
  <2> QED BY <2>1, <2>2, <2>3
<1>8. run'.at \in Working BY <1>1, <1>2 DEF Working
<1> QED BY <1>1, <1>3, <1>4, <1>5, <1>6, <1>7, <1>8, RunFields, WorkOn

LEMMA PrefilledRun == ASSUME RunInv, Prefilled PROVE RunInv'
<1>1. /\ run.at = "prefill" /\ cache' = Graph.cache /\ pass' = NoPass /\ UNCHANGED <<mode, out>>
      /\ call' = call
  BY DEF Prefilled, KeepIpc, ipcVars
<1>2. PICK t \in Pick(Last(Graph.out)) :
        run' = [run EXCEPT !.at = IF mode.spec THEN "draft" ELSE "ar", !.last = t, !.top = run.committed]
  BY DEF Prefilled
<1>3. run.at \in Working BY <1>1 DEF Working
<1>4. /\ pass.k > 0 /\ pass.toks = run.prompt /\ out = <<>> /\ CountsOK /\ PassOK
      /\ run.prompt \in Seq(Tokens) /\ mode.spec \in BOOLEAN
  BY <1>1, <1>3, OutFacts DEF PassOK
<1>5. t \in Tokens /\ (Fits => t = Predict(Before \o pass.toks)) BY <1>4, NextToken
<1>6. Before \o pass.toks = run.prompt
  <2>1. Before = <<>> BY <1>1 DEF Before
  <2> QED BY <1>4, <2>1, ConcatEmptySeq
<1>7. /\ IsRun(run') /\ run'.at = (IF mode.spec THEN "draft" ELSE "ar") /\ run'.last = t
      /\ run'.prompt = run.prompt /\ run'.n_gen = run.n_gen /\ run'.n = run.n
      /\ run'.committed = run.committed
  BY <1>2, RunFields DEF IsRun
<1>8. IsCache(cache') BY <1>1, <1>4, PassGraph
<1>9. CountsOK' BY <1>1, <1>4, <1>7 DEF CountsOK
<1>10. PassOK'
  <2>1. run'.at \in {"draft", "ar"} /\ (run'.at = "draft" <=> mode.spec) BY <1>4, <1>7
  <2>2. pass'.k = 0 /\ Len(out') = 0 BY <1>1, <1>4, RunFields
  <2> QED BY <1>1, <1>5, <1>7, <2>1, <2>2 DEF PassOK
<1>11. Fits' => RightOK'
  <2> SUFFICES ASSUME Fits PROVE RightOK' BY <1>1, <1>7 DEF Fits
  <2>1. Right(cache', run.prompt) BY <1>1, <1>4, <1>6, PassRight
  <2>2. Ctx' = run.prompt BY <1>1, <1>4, <1>7, ConcatEmptySeq DEF Ctx
  <2>3. GreedyAfter(run.prompt, <<>>)
    <3>1. Len(<<>>) = 0 OBVIOUS
    <3> QED BY <3>1 DEF GreedyAfter
  <2>4. run'.at \in {"draft", "ar"} BY <1>4, <1>7
  <2> QED BY <1>1, <1>4, <1>5, <1>6, <1>7, <2>1, <2>2, <2>3, <2>4 DEF RightOK
<1>12. run'.at \in Working BY <1>7 DEF Working
<1>13. CallEnds BY <1>1 DEF CallEnds
<1>14. run'.last \in Tokens \cup {-1} BY <1>5, <1>7
<1> QED BY <1>1, <1>7, <1>8, <1>9, <1>10, <1>11, <1>12, <1>13, <1>14, RunFields, WorkOn

LEMMA PassFailsRun == ASSUME RunInv, PassFails PROVE RunInv'
<1>1. /\ pass.k > 0 /\ pass' = NoPass /\ call' = NoCall /\ mode' = mode /\ run' = Returned(FALSE)
      /\ out' = IF run.at = "prefill" THEN out ELSE Marked(out)
  BY DEF PassFails
<1>2. run.at \in Working /\ PassOK /\ pass.base \in Nat BY <1>1, PassFacts DEF Working
<1>3. IsCache(cache')
  <2>1. PICK ssm : cache' = [Qwen35FailedPass(cache, pass.base) EXCEPT !.ssm = ssm]
    BY DEF PassFails
  <2> QED BY <1>2, <2>1, RunFields, FailedPassType
<1>4. out' = Marked(out) \/ (out' = out /\ run.last = -1) BY <1>1, <1>2 DEF PassOK
<1>5. CallEnds BY <1>1 DEF CallEnds
<1> QED BY <1>1, <1>2, <1>3, <1>4, <1>5, RunFields, EndHere

LEMMA SpecEndRun == ASSUME RunInv, SpecEnd PROVE RunInv'
<1>1. /\ run.at = "draft" /\ Finished /\ run' = Returned(TRUE) /\ out' = Marked(out)
      /\ UNCHANGED <<mode, cache, pass>> /\ call' = call
  BY DEF SpecEnd, KeepIpc, ipcVars
<1>2. run.at \in Working BY <1>1 DEF Working
<1>3. pass.k = 0 BY <1>1, <1>2, OutFacts DEF PassOK
<1>4. CallEnds BY <1>1 DEF CallEnds
<1> QED BY <1>1, <1>2, <1>3, <1>4, RunFields, EndHere DEF Finished

\* A block has been proposed.
LEMMA VerifyRun ==
  ASSUME RunInv, run.at = "draft", ~Finished, NEW seen, Verify(seen), UNCHANGED <<mode, cache, out>>,
         CallEnds
  PROVE  RunInv'
<1>1. PICK d \in BlocksAfter(run.last) :
        /\ run' = [run EXCEPT !.at = "verify", !.draft = d, !.saved = cache.ssm, !.seen = seen]
        /\ pass' = NewPass(d, run.committed, QLen)
  BY DEF Verify
<1>2. d \in Seq(Tokens) /\ Len(d) = QLen /\ d[1] = run.last /\ d # <<>> BY BlockFacts
<1>3. run.at \in Working /\ CountsOK /\ PassOK BY OutFacts DEF Working
<1>4. /\ IsRun(run') /\ run'.at = "verify" /\ run'.draft = d /\ run'.saved = cache.ssm
      /\ run'.last = run.last /\ run'.prompt = run.prompt /\ run'.n_gen = run.n_gen
      /\ run'.n = run.n /\ run'.committed = run.committed
  BY <1>1, RunFields DEF IsRun
<1>5. IsPass(pass') /\ pass'.k = 1 /\ pass'.toks = d /\ pass'.base = run.committed
  BY <1>1, RunFields
<1>6. CountsOK' BY <1>3, <1>4 DEF CountsOK
<1>7. PassOK'
  <2>1. run.n < run.n_gen BY <1>3, OutFacts DEF Finished
  <2>2. mode.spec BY <1>3 DEF PassOK
  <2> QED BY <1>2, <1>4, <1>5, <2>1, <2>2 DEF PassOK
<1>8. Fits' => RightOK'
  <2> SUFFICES ASSUME Fits PROVE RightOK' BY <1>4 DEF Fits
  <2>1. RightOK BY <1>3 DEF RunInv
  <2>2. Ctx' = Ctx BY <1>4 DEF Ctx
  <2>3. /\ GreedyAfter(run.prompt, out) /\ Right(cache, Ctx) /\ run.last = Predict(Ctx)
    BY <2>1 DEF RightOK
  <2>4. cache.ssm = Ctx BY <2>3 DEF Right
  <2> QED BY <1>2, <1>4, <2>2, <2>3, <2>4 DEF RightOK
<1>9. run'.at \in Working BY <1>4 DEF Working
<1> QED BY <1>4, <1>5, <1>6, <1>7, <1>8, <1>9, RunFields, WorkOn

LEMMA DraftLocalRun == ASSUME RunInv, DraftLocal PROVE RunInv'
<1>1. /\ run.at = "draft" /\ ~Finished /\ ~mode.remote /\ UNCHANGED <<mode, cache>> /\ call' = call
  BY DEF DraftLocal, KeepIpc, ipcVars
<1>2. CallEnds BY <1>1 DEF CallEnds
<1>3. CASE Verify(ReadRing(features, run.committed, CtxLen)) /\ out' = out
  BY <1>1, <1>2, <1>3, VerifyRun
<1>4. CASE run' = Returned(FALSE) /\ out' = Marked(out) /\ pass' = pass
  <2>1. run.at \in Working BY <1>1 DEF Working
  <2>2. pass.k = 0 BY <1>1, <2>1, OutFacts DEF PassOK
  <2> QED BY <1>1, <1>2, <1>4, <2>1, <2>2, RunFields, EndHere
<1> QED BY <1>3, <1>4 DEF DraftLocal

LEMMA ProposedRun == ASSUME RunInv, Proposed PROVE RunInv'
<1>1. /\ run.at = "draft" /\ call.op = "propose" /\ call' = NoCall /\ UNCHANGED <<mode, cache, out>>
  BY DEF Proposed
<1>2. CallEnds BY <1>1 DEF CallEnds
<1>3. run.at \in Working BY <1>1 DEF Working
<1>4. CASE Verify(call.hidden.seen)
  <2>1. run.n < run.n_gen BY <1>1 DEF RunInv, ModeOK
  <2>2. ~Finished BY <1>3, <2>1, OutFacts DEF Finished
  <2> QED BY <1>1, <1>2, <1>4, <2>2, VerifyRun
<1>5. CASE run' = Returned(FALSE) /\ pass' = pass
  <2>1. pass.k = 0 BY <1>1, <1>3, OutFacts DEF PassOK
  <2>2. mode.remote
    <3>1. NoCall.op # "propose" BY DEF NoCall
    <3> QED BY <1>1, <3>1 DEF RunInv, ModeOK
  <2> QED BY <1>1, <1>2, <1>3, <1>5, <2>1, <2>2, RunFields, EndHere
<1> QED BY <1>4, <1>5 DEF Proposed

LEMMA VerifiedRun == ASSUME RunInv, Verified PROVE RunInv'
<1>1. /\ run.at = "verify" /\ cache' = [Graph.cache EXCEPT !.ssm = run.saved]
      /\ UNCHANGED <<mode, out>> /\ call' = call
  BY DEF Verified, KeepIpc, ipcVars
<1>2. run.at \in Working BY <1>1 DEF Working
<1>3. /\ CountsOK /\ PassOK /\ pass.k > 0 /\ pass.toks = run.draft /\ mode.spec
      /\ pass.base = run.committed /\ run.n < run.n_gen
      /\ run.draft \in Seq(Tokens) /\ Len(run.draft) = QLen
      /\ run.n \in Nat /\ run.n_gen \in Nat /\ Ctx \in Seq(Tokens)
  BY <1>1, <1>2, OutFacts DEF PassOK
<1> DEFINE o == Graph.out
           d == run.draft
<1>4. /\ o = [i \in 1..QLen |-> o[i]] /\ \A i \in 1..QLen : IsContext(o[i])
      /\ IsCache(Graph.cache)
  BY <1>3, PassGraph
<1>5. PICK t \in Picks(o) :
        LET accept_n == AcceptN(d, t)
            commit_n == CommitN(accept_n, run.n_gen - run.n)
        IN  /\ run' = [run EXCEPT !.at = "replay", !.target = t, !.top = run.committed + QLen]
            /\ pass' = NewPass(CommitTokens(d, t, accept_n, commit_n), run.committed, commit_n)
  BY DEF Verified
<1> DEFINE a == AcceptN(d, t)
           n == CommitN(a, run.n_gen - run.n)
           toks == CommitTokens(d, t, a, n)
<1>6. t \in [1..QLen -> Tokens] /\ \A i \in 1..QLen : t[i] \in Pick(o[i])
  <2>1. t \in [DOMAIN o -> Tokens] /\ \A i \in DOMAIN o : t[i] \in Pick(o[i]) BY DEF Picks
  <2>2. DOMAIN o = 1..QLen
    <3> HIDE DEF o
    <3> QED BY <1>4
  <2> HIDE DEF o
  <2> QED BY <2>1, <2>2
<1>7. /\ a \in 1..QLen /\ n \in 1..QLen /\ n <= run.n_gen - run.n /\ n <= a + 1
  <2>1. a \in 1..QLen BY AcceptFacts
  <2>2. run.n_gen - run.n \in Nat \ {0} BY <1>3
  <2> HIDE DEF a
  <2> QED BY <2>1, <2>2, CommitFacts
<1>8. toks \in Seq(Tokens) /\ Len(toks) = n /\ toks # <<>>
  <2> HIDE DEF a, n, d
  <2> QED BY <1>3, <1>6, <1>7, CommitTokensFacts DEF d
<1>9. /\ IsRun(run') /\ run'.at = "replay" /\ run'.last = run.last /\ run'.prompt = run.prompt
      /\ run'.n_gen = run.n_gen /\ run'.n = run.n /\ run'.committed = run.committed
  BY <1>5, RunFields DEF IsRun
<1>10. IsPass(pass') /\ pass'.k = 1 /\ pass'.toks = toks /\ pass'.base = run.committed
  BY <1>5, RunFields
<1> HIDE DEF a, n, toks, o
<1>11. CountsOK' BY <1>1, <1>3, <1>9 DEF CountsOK
<1>12. PassOK'
  <2>1. run.n + Len(toks) <= run.n_gen BY <1>3, <1>7, <1>8
  <2> QED BY <1>1, <1>3, <1>8, <1>9, <1>10, <2>1 DEF PassOK
<1>13. IsCache(cache') /\ cache'.ssm = run.saved /\ cache'.kv = Graph.cache.kv
  BY <1>1, <1>4 DEF IsCache
<1>14. Fits' => RightOK'
  <2> SUFFICES ASSUME Fits PROVE RightOK' BY <1>1, <1>9 DEF Fits
  <2>1. /\ GreedyAfter(run.prompt, out) /\ run.saved = Ctx /\ d[1] = Predict(Ctx)
    BY <1>1, <1>2 DEF RunInv, RightOK
  <2>2. Before = Ctx BY <1>1 DEF Before
  <2>3. /\ \A i \in 1..QLen : o[i] = Ctx \o SubSeq(d, 1, i)
        /\ Right(Graph.cache, Ctx \o d)
    BY <1>3, <2>2, PassRight DEF o
  <2>4. Right(cache', Ctx)
    <3>1. Begins(Graph.cache.kv, Ctx \o d) BY <2>3 DEF Right
    <3>2. /\ Len(Ctx \o d) = Len(Ctx) + Len(d) /\ Len(Ctx) \in Nat /\ Len(d) \in Nat
          /\ \A i \in 1..(Len(Ctx) + Len(d)) :
               (Ctx \o d)[i] = IF i <= Len(Ctx) THEN Ctx[i] ELSE d[i - Len(Ctx)]
      BY <1>3, ConcatProperties
    <3>3. Len(Graph.cache.kv) \in Nat BY <1>4 DEF IsCache
    <3>4. Len(Ctx) <= Len(Graph.cache.kv) BY <3>1, <3>2, <3>3 DEF Begins
    <3>5. \A i \in 1..Len(Ctx) : Graph.cache.kv[i] = Ctx[i] BY <3>1, <3>2 DEF Begins
    <3> QED BY <1>13, <2>1, <3>4, <3>5 DEF Right, Begins
  <2>5. ASSUME NEW i \in 1..QLen PROVE t[i] = Predict(Ctx \o SubSeq(d, 1, i))
    <3>1. SubSeq(d, 1, i) \in Seq(Tokens) BY <1>3
    <3>2. Ctx \o SubSeq(d, 1, i) \in Seq(Tokens) BY <1>3, <3>1, ConcatProperties
    <3>3. o[i] \in Seq(Tokens) /\ IsContext(o[i]) /\ t[i] \in Pick(o[i])
      BY <1>4, <1>6, <2>3, <3>2
    <3>4. Pick(o[i]) = {Predict(o[i])} BY <3>3, PickFacts
    <3> QED BY <2>3, <3>3, <3>4
  <2>6. GreedyAfter(Ctx, toks)
    <3>1. GreedyAfter(Ctx, CommitTokens(d, t, AcceptN(d, t), n))
      <4> HIDE DEF d
      <4> QED BY <1>3, <1>6, <1>7, <2>1, <2>5, CommitIsGreedy DEF a, d
    <3> QED BY <3>1 DEF toks, a
  <2>7. Ctx' = Ctx BY <1>1, <1>9 DEF Ctx
  <2> QED BY <1>1, <1>9, <1>10, <2>1, <2>4, <2>6, <2>7 DEF RightOK
<1>15. run'.at \in Working BY <1>9 DEF Working
<1>16. CallEnds BY <1>1 DEF CallEnds
<1>17. run'.last \in Tokens \cup {-1} BY <1>9, RunFields
<1> QED BY <1>1, <1>9, <1>10, <1>11, <1>12, <1>13, <1>14, <1>15, <1>16, <1>17, WorkOn

\* The tokens of a replay join the answer.
LEMMA ReplayedRun == ASSUME RunInv, Replayed PROVE RunInv'
<1>1. /\ run.at = "replay" /\ cache' = Graph.cache /\ pass' = NoPass /\ mode' = mode /\ call' = call
  BY DEF Replayed, KeepIpc, ipcVars
<1>2. run.at \in Working BY <1>1 DEF Working
<1> DEFINE toks == pass.toks
           all == out \o toks
<1>3. /\ CountsOK /\ PassOK /\ pass.k > 0 /\ toks \in Seq(Tokens) /\ mode.spec
      /\ run.n + Len(toks) <= run.n_gen /\ run.prompt \in Seq(Tokens) /\ out \in Seq(Tokens)
      /\ run.n \in Nat /\ run.n_gen \in Nat /\ Len(out) = run.n /\ Len(toks) \in Nat
      /\ Ctx \in Seq(Tokens) /\ mode.remote \in BOOLEAN
  BY SMTT(30), <1>1, <1>2, OutFacts DEF PassOK
<1>4. PICK t \in Pick(Last(Graph.out)) :
        LET next == [run EXCEPT !.at = "draft", !.last = t, !.n = @ + Len(toks),
                                !.committed = @ + Len(toks), !.draft = <<>>,
                                !.target = <<>>, !.saved = <<>>, !.seen = <<>>]
        IN  IF Eos \in ToSet(toks)
            THEN run' = [next EXCEPT !.at = "returned", !.ok = TRUE] /\ out' = Marked(all)
            ELSE run' = next /\ out' = all
  BY DEF Replayed
<1>5. t \in Tokens /\ (Fits => t = Predict(Before \o toks)) BY <1>3, NextToken
<1>6. /\ all \in Seq(Tokens) /\ Len(all) = run.n + Len(toks)
      /\ \A i \in 1..(run.n + Len(toks)) : all[i] = IF i <= run.n THEN out[i] ELSE toks[i - run.n]
  BY <1>3, ConcatProperties
<1>7. Before = Ctx /\ Ctx \o toks = run.prompt \o all
  <2>1. Before = Ctx BY <1>1 DEF Before
  <2>2. (run.prompt \o out) \o toks = run.prompt \o (out \o toks)
    <3> DEFINE p == run.prompt
               o == out
    <3>1. p \in Seq(Tokens) /\ o \in Seq(Tokens) /\ toks \in Seq(Tokens) BY <1>3
    <3> HIDE DEF p, o, toks
    <3>2. (p \o o) \o toks = p \o (o \o toks) BY <3>1, ConcatAssociative
    <3> QED BY <3>2 DEF p, o
  <2> QED BY <2>1, <2>2 DEF Ctx
<1>8. Fits => GreedyAfter(run.prompt, all)
  <2> SUFFICES ASSUME Fits PROVE GreedyAfter(run.prompt, all) OBVIOUS
  <2>1. GreedyAfter(run.prompt, out) /\ GreedyAfter(run.prompt \o out, toks)
    BY <1>1, <1>2 DEF RunInv, RightOK, Ctx
  <2> QED BY <1>3, <2>1, GreedyExtends
<1>9. IsCache(cache') /\ IsPass(pass') /\ pass'.k = 0 BY <1>1, <1>3, PassGraph, RunFields
<1>10. CallEnds BY <1>1 DEF CallEnds
<1> HIDE DEF all, toks
<1>11. CASE Eos \in ToSet(toks)
  <2>1. out' = Marked(all)
        /\ run' = [[run EXCEPT !.at = "draft", !.last = t, !.n = @ + Len(toks),
                                !.committed = @ + Len(toks), !.draft = <<>>,
                                !.target = <<>>, !.saved = <<>>, !.seen = <<>>]
                       EXCEPT !.at = "returned", !.ok = TRUE]
    BY <1>4, <1>11
  <2>2. /\ IsRun(run') /\ run'.at = "returned" /\ run'.last = t /\ run'.ok = TRUE
        /\ run'.prompt = run.prompt /\ run'.n_gen = run.n_gen
    BY <2>1, RunFields DEF IsRun
  <2>3. Fits' <=> Fits BY <1>1, <2>2 DEF Fits
  <2>4. PICK w : w = all OBVIOUS
  <2>5. Eos \in ToSet(w)
    <3>1. PICK i \in DOMAIN toks : toks[i] = Eos BY <1>11 DEF ToSet
    <3>2. DOMAIN toks = 1..Len(toks) BY <1>3, LenProperties
    <3>3. run.n + i \in 1..(run.n + Len(toks)) /\ ~(run.n + i <= run.n) /\ (run.n + i) - run.n = i
      BY <1>3, <3>2
    <3>4. all[run.n + i] = toks[(run.n + i) - run.n] BY <1>6, <3>3
    <3>5. DOMAIN all = 1..(run.n + Len(toks)) BY <1>6, LenProperties
    <3> QED BY <2>4, <3>1, <3>3, <3>4, <3>5 DEF ToSet
  <2>6. out' = w \/ out' = Append(w, -1) BY <2>1, <2>4 DEF Marked
  <2>7. ~mode.remote => out' = Append(w, -1) BY <2>1, <2>4 DEF Marked
  <2>8. Len(w) <= run.n_gen BY <1>3, <1>6, <2>4
  <2>9. EndedWith(w)'
    BY <1>1, <1>3, <1>8, <2>2, <2>3, <2>4, <2>5, <2>6, <2>7, <2>8 DEF EndedWith
  <2>10. w \in Seq(Tokens) BY <1>6, <2>4
  <2> QED BY <1>1, <1>5, <1>9, <1>10, <2>2, <2>9, <2>10, EndNow
<1>12. CASE Eos \notin ToSet(toks)
  <2>1. out' = all
        /\ run' = [run EXCEPT !.at = "draft", !.last = t, !.n = @ + Len(toks),
                               !.committed = @ + Len(toks), !.draft = <<>>,
                               !.target = <<>>, !.saved = <<>>, !.seen = <<>>]
    BY <1>4, <1>12
  <2>2. /\ IsRun(run') /\ run'.at = "draft" /\ run'.last = t /\ run'.n = run.n + Len(toks)
        /\ run'.committed = run.committed + Len(toks)
        /\ run'.prompt = run.prompt /\ run'.n_gen = run.n_gen
    BY <2>1, RunFields DEF IsRun
  <2>3. CountsOK'
    <3>1. run.committed = Len(run.prompt) + run.n /\ Len(run.prompt) \in Nat BY <1>3 DEF CountsOK
    <3>2. run.committed + Len(toks) = Len(run.prompt) + (run.n + Len(toks)) BY <1>3, <3>1
    <3> QED BY <1>3, <1>6, <2>1, <2>2, <3>2 DEF CountsOK
  <2>4. PassOK' BY <1>1, <1>3, <1>5, <1>9, <2>2 DEF PassOK
  <2>5. Fits' => RightOK'
    <3> SUFFICES ASSUME Fits PROVE RightOK' BY <1>1, <2>2 DEF Fits
    <3>1. Right(cache', run.prompt \o all) BY <1>1, <1>3, <1>7, PassRight DEF toks
    <3>2. Ctx' = run.prompt \o all BY <2>1, <2>2 DEF Ctx
    <3>3. t = Predict(run.prompt \o all) BY <1>5, <1>7
    <3> QED BY <1>8, <2>1, <2>2, <3>1, <3>2, <3>3 DEF RightOK
  <2>6. run'.at \in Working BY <2>2 DEF Working
  <2> QED BY <1>1, <1>5, <1>9, <1>10, <2>2, <2>3, <2>4, <2>5, <2>6, WorkOn
<1> QED BY <1>11, <1>12

LEMMA ArBeginRun == ASSUME RunInv, ArBegin PROVE RunInv'
<1>1. /\ run.at = "ar" /\ pass.k = 0 /\ UNCHANGED <<mode, cache>> /\ call' = call
  BY DEF ArBegin, KeepIpc, ipcVars
<1>2. run.at \in Working BY <1>1 DEF Working
<1>3. CountsOK /\ PassOK /\ run.n \in Nat /\ run.n_gen \in Nat BY <1>2, OutFacts
<1>4. CallEnds BY <1>1 DEF CallEnds
<1>5. CASE Finished
  <2>1. run' = Returned(TRUE) /\ out' = Marked(out) /\ pass' = pass BY <1>5 DEF ArBegin
  <2> QED BY <1>1, <1>2, <1>4, <1>5, <2>1, RunFields, EndHere DEF Finished
<1>6. CASE ~Finished
  <2>1. pass' = NewPass(<<run.last>>, run.committed, 1) /\ run' = run /\ out' = out
    BY <1>6 DEF ArBegin
  <2>2. IsPass(pass') /\ pass'.k = 1 /\ pass'.toks = <<run.last>> /\ pass'.base = run.committed
    BY <2>1, RunFields
  <2>3. CountsOK' BY <1>3, <2>1 DEF CountsOK
  <2>4. run.n < run.n_gen BY <1>3, <1>6 DEF Finished
  <2>5. PassOK' BY <1>1, <1>3, <2>1, <2>2, <2>4 DEF PassOK
  <2>6. Fits' => RightOK'
    <3> SUFFICES ASSUME Fits PROVE RightOK' BY <1>1, <2>1 DEF Fits
    <3>1. RightOK BY <1>2 DEF RunInv
    <3> QED BY <1>1, <2>1, <3>1 DEF RightOK, Ctx
  <2> QED BY <1>1, <1>2, <1>4, <2>1, <2>2, <2>3, <2>5, <2>6, RunFields, WorkOn
<1> QED BY <1>5, <1>6

LEMMA ArSteppedRun == ASSUME RunInv, ArStepped PROVE RunInv'
<1>1. /\ run.at = "ar" /\ pass.k > 0 /\ cache' = Graph.cache /\ pass' = NoPass /\ mode' = mode
      /\ call' = call
  BY DEF ArStepped, KeepIpc, ipcVars
<1>2. run.at \in Working BY <1>1 DEF Working
<1> DEFINE all == Append(out, run.last)
<1>3. /\ CountsOK /\ PassOK /\ pass.toks = <<run.last>> /\ ~mode.spec /\ run.last \in Tokens
      /\ run.n < run.n_gen /\ run.prompt \in Seq(Tokens) /\ out \in Seq(Tokens)
      /\ run.n \in Nat /\ run.n_gen \in Nat /\ Len(out) = run.n /\ mode.remote \in BOOLEAN
      /\ \A i \in 1..Len(out) : out[i] # Eos
  BY <1>1, <1>2, OutFacts DEF PassOK
<1>4. PICK t \in Pick(Last(Graph.out)) :
        IF ArEnds
        THEN run' = Returned(TRUE) /\ out' = Marked(all)
        ELSE /\ run' = [run EXCEPT !.last = t, !.n = @ + 1, !.committed = @ + 1]
             /\ out' = all
  BY DEF ArStepped
<1>5. t \in Tokens /\ (Fits => t = Predict(Before \o <<run.last>>)) BY <1>1, <1>3, NextToken
<1>6. /\ all \in Seq(Tokens) /\ Len(all) = run.n + 1 /\ all[run.n + 1] = run.last
      /\ \A i \in 1..run.n : all[i] = out[i]
  BY <1>3, AppendProperties
<1>7. Before = Ctx /\ Ctx \o <<run.last>> = run.prompt \o all
  <2>1. Before = Ctx BY <1>1 DEF Before
  <2> DEFINE p == run.prompt
             o == out
             l == <<run.last>>
  <2>2. p \in Seq(Tokens) /\ o \in Seq(Tokens) /\ l \in Seq(Tokens) BY <1>3
  <2>3. all = o \o l BY <1>3, AppendIsConcat
  <2> HIDE DEF p, o, l, all
  <2>4. (p \o o) \o l = p \o (o \o l) BY <2>2, ConcatAssociative
  <2> QED BY <2>1, <2>3, <2>4 DEF Ctx, p, o, l
<1>8. Fits => GreedyAfter(run.prompt, all)
  <2> SUFFICES ASSUME Fits PROVE GreedyAfter(run.prompt, all) OBVIOUS
  <2>1. GreedyAfter(run.prompt, out) /\ run.last = Predict(run.prompt \o out)
    BY <1>1, <1>2 DEF RunInv, RightOK, Ctx
  <2> QED BY <1>3, <2>1, GreedyAppend
<1>9. IsCache(cache') /\ IsPass(pass') /\ pass'.k = 0 BY <1>1, PassGraph, RunFields
<1>10. CallEnds BY <1>1 DEF CallEnds
<1> HIDE DEF all
<1>11. CASE ArEnds
  <2>1. out' = Marked(all) /\ run' = Returned(TRUE) BY <1>4, <1>11
  <2>2. /\ IsRun(run') /\ run'.at = "returned" /\ run'.last = run.last /\ run'.ok = TRUE
        /\ run'.prompt = run.prompt /\ run'.n_gen = run.n_gen
    BY <2>1, RunFields DEF Returned, IsRun
  <2>3. Fits' <=> Fits BY <1>1, <2>2 DEF Fits
  <2>4. PICK w : w = all OBVIOUS
  <2>5. Len(w) = run.n_gen \/ Eos \in ToSet(w)
    <3>1. CASE run.n + 1 >= run.n_gen BY <1>3, <1>6, <2>4, <3>1
    <3>2. CASE run.last = Eos
      <4>1. DOMAIN all = 1..(run.n + 1) /\ run.n + 1 \in 1..(run.n + 1)
        BY <1>3, <1>6, LenProperties
      <4> QED BY <1>6, <2>4, <3>2, <4>1 DEF ToSet
    <3> QED BY <1>11, <3>1, <3>2 DEF ArEnds
  <2>6. out' = w \/ out' = Append(w, -1) BY <2>1, <2>4 DEF Marked
  <2>7. ~mode.remote => out' = Append(w, -1) BY <2>1, <2>4 DEF Marked
  <2>8. Len(w) <= run.n_gen BY <1>3, <1>6, <2>4
  <2>9. \A i \in 1..(Len(w) - 1) : w[i] # Eos
    <3>1. Len(w) - 1 = run.n BY <1>3, <1>6, <2>4
    <3> QED BY <1>3, <1>6, <2>4, <3>1
  <2>10. EndedWith(w)'
    BY <1>1, <1>3, <1>8, <2>2, <2>3, <2>4, <2>5, <2>6, <2>7, <2>8, <2>9 DEF EndedWith
  <2>11. w \in Seq(Tokens) BY <1>6, <2>4
  <2>12. run'.last \in Tokens \cup {-1} BY <1>3, <2>2
  <2> QED BY <1>1, <1>9, <1>10, <2>2, <2>10, <2>11, <2>12, EndNow
<1>12. CASE ~ArEnds
  <2>1. out' = all /\ run' = [run EXCEPT !.last = t, !.n = @ + 1, !.committed = @ + 1]
    BY <1>4, <1>12
  <2>2. /\ IsRun(run') /\ run'.at = "ar" /\ run'.last = t /\ run'.n = run.n + 1
        /\ run'.committed = run.committed + 1
        /\ run'.prompt = run.prompt /\ run'.n_gen = run.n_gen
    BY <1>1, <2>1, RunFields DEF IsRun
  <2>3. CountsOK'
    <3>1. run.committed = Len(run.prompt) + run.n /\ Len(run.prompt) \in Nat BY <1>3 DEF CountsOK
    <3>2. run.committed + 1 = Len(run.prompt) + (run.n + 1) BY <1>3, <3>1
    <3>3. run.n + 1 <= run.n_gen BY <1>3
    <3> QED BY <1>3, <1>6, <2>1, <2>2, <3>2, <3>3 DEF CountsOK
  <2>4. PassOK'
    <3>1. run.last # Eos BY <1>12 DEF ArEnds
    <3>2. \A i \in 1..Len(all) : all[i] # Eos BY <1>3, <1>6, <3>1
    <3> QED BY <1>1, <1>3, <1>5, <1>9, <2>1, <2>2, <3>2 DEF PassOK
  <2>5. Fits' => RightOK'
    <3> SUFFICES ASSUME Fits PROVE RightOK' BY <1>1, <2>2 DEF Fits
    <3>1. Right(cache', run.prompt \o all) BY <1>1, <1>3, <1>7, PassRight
    <3>2. Ctx' = run.prompt \o all BY <2>1, <2>2 DEF Ctx
    <3>3. t = Predict(run.prompt \o all) BY <1>5, <1>7
    <3> QED BY <1>8, <2>1, <2>2, <3>1, <3>2, <3>3 DEF RightOK
  <2>6. run'.at \in Working BY <2>2 DEF Working
  <2> QED BY <1>1, <1>5, <1>9, <1>10, <2>2, <2>3, <2>4, <2>5, <2>6, WorkOn
<1> QED BY <1>11, <1>12

\* Steps between requests.
LEMMA RestRun == ASSUME RunInv, Answered \/ Exit \/ Leave PROVE RunInv'
<1>1. UNCHANGED <<mode, cache, pass, out>> /\ call' = call
  BY DEF Answered, Exit, Leave, KeepIpc, ipcVars
<1>2. /\ run.at \in {"returned", "closing", "idle"} /\ IsRun(run')
      /\ run'.last \in Tokens \cup {-1} /\ run'.at \in {"idle", "closing", "exited"}
      /\ run'.at = "closing" => mode.remote
  <2>1. CASE Answered BY <2>1 DEF Answered, NoRun, IsRun
  <2>2. CASE Exit
    <3>1. run.at = "closing" /\ run' = [run EXCEPT !.at = "exited"] BY <2>2 DEF Exit
    <3> QED BY <3>1, RunFields DEF IsRun
  <2>3. CASE Leave
    <3>1. run.at = "idle" /\ run' = [run EXCEPT !.at = "exited"] BY <2>3 DEF Leave
    <3> QED BY <3>1, RunFields DEF IsRun
  <2> QED BY <2>1, <2>2, <2>3
<1>3. pass.k = 0 BY <1>2 DEF RunInv, Shapes, Working
<1>4. CallEnds BY <1>1, <1>2 DEF CallEnds
<1>5. ModeOK' BY <1>1, <1>2, <1>4, ModeKept
<1> QED BY <1>1, <1>2, <1>3, <1>5, RunFields, RestNow

LEMMA EmptyCache == IsCache(SplitCache) /\ Right(SplitCache, <<>>)
<1>1. <<>> \in Seq(Row) /\ Len(<<>>) = 0 /\ MaxCtx \in Nat BY SizesAreNat
<1>2. IsCache(SplitCache)
  <2>1. MaxCtx >= 0 BY <1>1
  <2> QED BY <1>1, <2>1 DEF SplitCache, Qwen35Cache, IsCache
<1>3. SplitCache.ssm = <<>> /\ SplitCache.kv = <<>> BY DEF SplitCache, Qwen35Cache
<1> QED BY <1>1, <1>2, <1>3 DEF Right, Begins

LEMMA RequestRun == ASSUME RunInv, Request PROVE RunInv'
<1>1. PICK r \in Requests :
        /\ run.at = "idle" /\ out' = <<>> /\ cache' = SplitCache /\ call' = call /\ mode' = mode
        /\ LET new == [NoRun EXCEPT !.at = "prefill", !.prompt = r.prompt, !.n_gen = r.n_gen,
                                    !.committed = Len(r.prompt), !.requests = run.requests + 1]
           IN  IF Len(r.prompt) + r.n_gen + 1 > MaxCtx
               THEN run' = [new EXCEPT !.at = "returned"] /\ pass' = NoPass
               ELSE run' = new /\ pass' = NewPass(r.prompt, 0, Ubatch)
  BY DEF Request, KeepIpc, ipcVars
<1>2. r.prompt \in Seq(Tokens) /\ r.prompt # <<>> /\ r.n_gen \in Nat BY RequestsAssumption
<1>3. Len(<<>>) = 0 /\ <<>> \in Seq(Tokens) /\ GreedyAfter(r.prompt, <<>>) BY DEF GreedyAfter
<1>4. IsRun(run') /\ run'.prompt = r.prompt /\ run'.n_gen = r.n_gen /\ run'.last = -1
      /\ run'.n = 0 /\ run'.ok = FALSE /\ run'.committed = Len(r.prompt)
  BY ZenonT(40), <1>1 DEF NoRun, IsRun
<1>5. CallEnds BY <1>1 DEF CallEnds
<1>6. MaxCtx \in Nat /\ Len(r.prompt) \in Nat BY <1>2, SizesAreNat
<1>7. CASE Len(r.prompt) + r.n_gen + 1 > MaxCtx
  <2>1. run'.at = "returned" /\ pass' = NoPass BY <1>1, <1>7 DEF NoRun
  <2>2. PICK w : w = <<>> OBVIOUS
  <2>3. EndedWith(w)' BY <1>1, <1>2, <1>3, <1>4, <2>2 DEF EndedWith
  <2>4. w \in Seq(Tokens) BY <1>3, <2>2
  <2> QED BY <1>1, <1>4, <1>5, <2>1, <2>3, <2>4, EmptyCache, RunFields, EndNow
<1>8. CASE ~(Len(r.prompt) + r.n_gen + 1 > MaxCtx)
  <2>1. run'.at = "prefill" /\ pass' = NewPass(r.prompt, 0, Ubatch) BY <1>1, <1>8 DEF NoRun
  <2>2. IsPass(pass') /\ pass'.k = 1 /\ pass'.toks = r.prompt /\ pass'.base = 0
    BY <2>1, RunFields
  <2>3. CountsOK' BY <1>1, <1>2, <1>3, <1>4, <1>6, <1>8 DEF CountsOK
  <2>4. PassOK' BY <1>1, <1>4, <2>1, <2>2 DEF PassOK
  <2>5. Fits' => RightOK' BY <1>1, <2>1, EmptyCache DEF RightOK
  <2>6. run'.at \in Working BY <2>1 DEF Working
  <2> QED BY <1>1, <1>4, <1>5, <2>2, <2>3, <2>4, <2>5, <2>6, EmptyCache, WorkOn
<1> QED BY SMTT(30), <1>7, <1>8

LEMMA RejectLineRun == ASSUME RunInv, RejectLine PROVE RunInv'
<1>1. /\ run.at = "idle" /\ run' = [NoRun EXCEPT !.at = "returned", !.requests = run.requests + 1]
      /\ out' = <<-1>> /\ call' = call /\ UNCHANGED <<mode, cache, pass>>
  BY DEF RejectLine, KeepIpc, ipcVars
<1>2. /\ IsRun(run') /\ run'.at = "returned" /\ run'.prompt = <<>> /\ run'.n_gen = 0
      /\ run'.last = -1 /\ run'.ok = FALSE
  BY <1>1 DEF NoRun, IsRun
<1>3. Len(<<>>) = 0 /\ <<>> \in Seq(Tokens) /\ GreedyAfter(<<>>, <<>>) BY DEF GreedyAfter
<1>4. PICK w : w = <<>> OBVIOUS
<1>5. out' = Append(w, -1)
  <2>1. One(Append(<<>>, -1)) /\ Append(<<>>, -1)[1] = -1 BY QueueFacts DEF QueueFactsFor
  <2>2. Append(<<>>, -1) = <<-1>>
    <3> DEFINE a == Append(<<>>, -1)
    <3> HIDE DEF a
    <3>1. a = <<a[1]>> /\ a[1] = -1 BY <2>1 DEF One, a
    <3> QED BY <3>1 DEF a
  <2> QED BY <1>1, <1>4, <2>2
<1>6. EndedWith(w)'
  <2>1. Len(w) = 0 /\ w \in Seq(Tokens) /\ GreedyAfter(run'.prompt, w) BY <1>2, <1>3, <1>4
  <2>2. \A i \in 1..(Len(w) - 1) : FALSE BY <2>1
  <2>3. Len(w) <= run'.n_gen /\ run'.prompt \in Seq(Tokens) /\ run'.n_gen \in Nat
    BY <1>2, <1>3, <2>1
  <2>4. out' = w \/ out' = Append(w, -1) BY <1>5
  <2>5. run'.ok = FALSE BY <1>2
  <2>6. Fits' => GreedyAfter(run'.prompt, w) BY <2>1
  <2> QED BY <1>5, <2>2, <2>3, <2>4, <2>5, <2>6 DEF EndedWith
<1>7. CallEnds BY <1>1 DEF CallEnds
<1>8. pass.k = 0 BY <1>1 DEF RunInv, Shapes, Working
<1>9. w \in Seq(Tokens) BY <1>3, <1>4
<1> QED BY <1>1, <1>2, <1>6, <1>7, <1>8, <1>9, RunFields, EndNow

-----------------------------------------------------------------------------
(* The invariant *)

LEMMA InitInv == ASSUME Init PROVE Inv
<1>1. /\ client = NoClient /\ call = NoCall /\ child = "none" /\ lines = <<>> /\ answers = <<>>
      /\ piped = [cmd |-> FALSE, stream |-> FALSE] /\ work = NoCall /\ files = <<>>
      /\ features = Blank(RingCap, Blank(NCapture, Junk))
      /\ mode \in [remote: BOOLEAN, spec: BOOLEAN] /\ (mode.remote => mode.spec)
      /\ cache = SplitCache /\ pass = NoPass /\ run = NoRun
  BY DEF Init, IpcInit
<1>2. /\ IsCall(call) /\ IsClient(client) /\ call.op = "none" /\ call.at = "idle"
      /\ call.path = -1 /\ work.path = -1
  BY <1>1 DEF NoCall, NoClient, IsCall, IsClient
<1>3. IpcInv
  <2>1. Stations BY <1>2 DEF Stations
  <2>2. AnswersOK BY <1>1, <1>2, QueueFacts DEF AnswersOK, QueueFactsFor
  <2>3. LinesOK BY <1>1 DEF LinesOK
  <2>4. DaemonOK BY <1>1, <1>2 DEF DaemonOK, Alive
  <2>5. StartOK BY <1>1, <1>2 DEF StartOK
  <2>6. PipesOK BY <1>1, <1>2 DEF PipesOK
  <2>7. FilesOK
    <3>1. DOMAIN files = {} BY <1>1
    <3> QED BY <3>1 DEF FilesOK
  <2>8. FeaturesOK
    <3>1. IsRing(features) BY <1>1, RingFacts
    <3> QED BY <3>1 DEF IsRing, FeaturesOK
  <2>9. ClosedCleanly BY <1>2 DEF ClosedCleanly
  <2> QED BY <1>1, <1>2, <2>1, <2>2, <2>3, <2>4, <2>5, <2>6, <2>7, <2>8, <2>9 DEF IpcInv
<1>4. RunInv
  <2>1. IsRun(run) /\ run.at = "begin" /\ run.last = -1 BY <1>1 DEF NoRun, IsRun
  <2>2. IsPass(pass) /\ pass.k = 0 BY <1>1 DEF NoPass, IsPass
  <2>3. IsCache(cache) BY <1>1, EmptyCache
  <2>4. run.at \notin Working BY <2>1 DEF Working
  <2>5. ModeOK BY <1>1, <1>2, <2>1 DEF ModeOK, Fresh
  <2>6. Shapes BY <2>1, <2>2, <2>3, <2>4 DEF Shapes
  <2> QED BY <2>1, <2>4, <2>5, <2>6 DEF RunInv
<1> QED BY <1>3, <1>4 DEF Inv

LEMMA ParentRun == ASSUME RunInv, Parent PROVE RunInv'
  BY BeginRun, StartedRun, CallOnlyRun, CopiedRun, PrefilledRun, PassFailsRun, SpecEndRun,
     DraftLocalRun, ProposedRun, VerifiedRun, ReplayedRun, ArBeginRun, ArSteppedRun, RestRun
  DEF Parent

LEMMA NextInv == ASSUME Inv, [Next]_vars PROVE Inv'
<1>1. IpcInv /\ RunInv /\ ModeOK BY DEF Inv, RunInv
<1>2. CASE Parent BY <1>1, <1>2, ParentIpc, ParentRun DEF Inv
<1>3. CASE ClientStep /\ KeepParent
  <2>1. IpcInv' BY <1>1, <1>3, ClientIpc
  <2>2. RunInv' BY <1>1, <1>3, IpcRun DEF KeepParent
  <2> QED BY <2>1, <2>2 DEF Inv
<1>4. CASE DaemonStep /\ KeepParent
  <2>1. IpcInv' BY <1>1, <1>4, DaemonIpc
  <2>2. RunInv' BY <1>1, <1>4, IpcRun DEF KeepParent
  <2> QED BY <2>1, <2>2 DEF Inv
<1>5. CASE Crash /\ KeepParent
  <2>1. IpcInv' BY <1>1, <1>5, CrashOK
  <2>2. RunInv' BY <1>1, <1>5, IpcRun DEF KeepParent
  <2> QED BY <2>1, <2>2 DEF Inv
<1>6. CASE Request BY <1>1, <1>6, OtherIpc, RequestRun DEF Inv
<1>7. CASE RejectLine BY <1>1, <1>7, OtherIpc, RejectLineRun DEF Inv
<1>8. CASE Leave BY <1>1, <1>8, OtherIpc, RestRun DEF Inv
<1>9. CASE UNCHANGED vars
  <2>1. IpcInv' BY <1>1, <1>9, OtherIpc
  <2>2. UNCHANGED <<mode, cache, pass, run, out>> /\ UNCHANGED ipcVars BY <1>9 DEF vars
  <2>3. RunInv' BY <1>1, <2>2, IpcRun
  <2> QED BY <2>1, <2>3 DEF Inv
<1> QED
  BY <1>2, <1>3, <1>4, <1>5, <1>6, <1>7, <1>8, <1>9 DEF Next, ParentWork, DaemonWork, Over

\* The invariant of the parent and the daemon holds throughout.
THEOREM InvHolds == Spec => []Inv
<1>1. Init => Inv BY InitInv
<1>2. Inv /\ [Next]_vars => Inv' BY NextInv
<1> QED BY <1>1, <1>2, PTL DEF Spec

-----------------------------------------------------------------------------
(* What it says *)

LEMMA PipeSays ==
  ASSUME Inv PROVE AnswersAreOwn /\ Len(answers) <= 2 /\ Len(lines) <= 1
<1>1. AnswersOK /\ LinesOK /\ DaemonOK BY DEF Inv, IpcInv
<1>2. \A s : One(s) => Len(s) = 1 /\ DOMAIN s = {1}
  <2>1. ASSUME NEW a PROVE Len(<<a>>) = 1 /\ DOMAIN <<a>> = {1} OBVIOUS
  <2> QED BY <2>1 DEF One
<1>3. \A s : Two(s) => Len(s) = 2 /\ DOMAIN s = {1, 2}
  <2>1. ASSUME NEW a, NEW b PROVE Len(<<a, b>>) = 2 /\ DOMAIN <<a, b>> = {1, 2} OBVIOUS
  <2> QED BY <2>1 DEF Two
<1>4. Len(<<>>) = 0 /\ DOMAIN <<>> = {} OBVIOUS
<1>5. Len(answers) <= 2 /\ Len(lines) <= 1
  <2> DEFINE a == Len(answers)
             l == Len(lines)
  <2>1. (a = 0 \/ a = 1 \/ a = 2) /\ (l = 0 \/ l = 1)
    BY <1>1, <1>2, <1>3, <1>4 DEF AnswersOK, LinesOK
  <2> HIDE DEF a, l
  <2>2. a <= 2 /\ l <= 1 BY <2>1
  <2> QED BY <2>2 DEF a, l
<1>6. ASSUME NEW i \in DOMAIN answers
      PROVE  call.at \in {"await", "payload", "closing"} /\ answers[i].of = call.path
  <2>1. answers # <<>> BY <1>4, <1>6
  <2>2. One(answers) \/ Two(answers) BY <1>1, <2>1 DEF AnswersOK
  <2>3. i = 1 \/ (Two(answers) /\ i = 2) BY <1>2, <1>3, <1>6, <2>2
  <2> QED BY <1>1, <2>1, <2>3 DEF AnswersOK
<1>7. call.at \in {"idle", "done"} =>
        answers = <<>> /\ (child \in Alive => lines = <<>> /\ child \in {"waiting"})
  BY <1>1 DEF AnswersOK, LinesOK, DaemonOK, Alive, Inv, IpcInv, Stations, Exchange
<1>8. call.at \in {"remove", "done"} /\ call.op = "propose" /\ call.ok => call.hidden.of = call.path
  BY <1>1 DEF AnswersOK
<1> QED BY <1>5, <1>6, <1>7, <1>8 DEF AnswersAreOwn

LEMMA PipeTypes == ASSUME Inv PROVE TypeOK
<1>1. child \in Alive \cup {"none", "zombie"} BY DEF Inv, IpcInv, DaemonOK
<1>2. piped \in [cmd : BOOLEAN, stream : BOOLEAN] BY DEF Inv, IpcInv, PipesOK
<1>3. Len(features) = RingCap /\ \A s \in 1 .. RingCap : Len(features[s]) = NCapture
  <2>1. IsRing(features) BY DEF Inv, IpcInv, FeaturesOK, IsRing
  <2> QED BY <2>1, RingFacts
<1>4. run.at \in {"begin", "start", "idle", "prefill", "draft", "verify", "replay", "ar",
                  "returned", "closing", "exited"}
  BY DEF Inv, RunInv, Shapes, Working
<1>5. Len(cache.kv) <= MaxCtx /\ run.last \in Tokens \cup {-1}
  BY DEF Inv, RunInv, Shapes, IsCache
<1> QED BY <1>1, <1>2, <1>3, <1>4, <1>5, PipeSays DEF TypeOK

\* Requests and answers of the two processes stay in step, whichever of
\* them fails and whenever the daemon dies.
THEOREM ProtocolHolds == Spec => []ProtocolInv
<1>1. Inv => ProtocolInv BY PipeTypes, PipeSays DEF ProtocolInv
<1> QED BY <1>1, InvHolds, PTL

\* Between calls no payload file is left but those whose own write failed,
\* and a client that was closed leaves no child and no directory of its own.
THEOREM NothingIsLeft == Spec => []NothingLeft
<1>1. Inv => FilesRemoved BY DEF Inv, IpcInv, FilesOK, FilesRemoved
<1>2. Inv => NothingLeft BY <1>1 DEF NothingLeft, Inv, IpcInv
<1> QED BY <1>2, InvHolds, PTL

LEMMA WrittenIs ==
  ASSUME NEW w \in Seq(Tokens), out = w \/ out = Append(w, -1)
  PROVE  /\ Written = w
         /\ out = Append(w, -1) => Last(out) = -1 /\ Len(out) = Len(w) + 1
<1>1. Len(w) \in Nat /\ Tokens \subseteq Nat BY RowFacts
<1>2. CASE out = Append(w, -1)
  <2> DEFINE S == Tokens \cup {-1}
  <2>1. w \in Seq(S)
    <3>1. Tokens \subseteq S OBVIOUS
    <3> QED BY <3>1, SeqMonotonic
  <2>2. -1 \in S OBVIOUS
  <2> HIDE DEF S
  <2>3. /\ out \in Seq(S) /\ Len(out) = Len(w) + 1 /\ out[Len(w) + 1] = -1
        /\ \A i \in 1..Len(w) : out[i] = w[i]
    BY <1>2, <2>1, <2>2, AppendProperties
  <2>4. out # <<>> /\ Last(out) = -1 BY <1>1, <2>3 DEF Last
  <2>5. Written = SubSeq(out, 1, Len(w)) BY <1>1, <2>3, <2>4 DEF Written, Front
  <2>6. /\ SubSeq(out, 1, Len(w)) \in Seq(S) /\ Len(SubSeq(out, 1, Len(w))) = Len(w)
        /\ \A i \in 1..Len(w) : SubSeq(out, 1, Len(w))[i] = out[i]
    BY <1>1, <2>3
  <2>7. \A i \in 1..Len(w) : SubSeq(out, 1, Len(w))[i] = w[i] BY <2>3, <2>6
  <2>8. SubSeq(out, 1, Len(w)) = w BY <2>1, <2>6, <2>7, SeqEqual
  <2> QED BY <2>3, <2>4, <2>5, <2>8
<1>3. CASE out = w /\ out # Append(w, -1)
  <2>1. out # <<>> => Last(out) # -1
    <3>1. ASSUME w # <<>> PROVE w[Len(w)] \in Tokens
      <4>1. Len(w) \in 1..Len(w) BY <1>1, <3>1, EmptySeq
      <4> QED BY <4>1, ElementOfSeq
    <3> QED BY <1>1, <1>3, <3>1 DEF Last
  <2> QED BY <1>3, <2>1 DEF Written
<1> QED BY <1>2, <1>3

LEMMA TokensOnly == ASSUME NEW w \in Seq(Tokens) PROVE ToSet(w) \subseteq Tokens
<1>1. ToSet(w) = {w[i] : i \in DOMAIN w} BY DEF ToSet
<1>2. DOMAIN w = 1..Len(w) /\ \A i \in 1..Len(w) : w[i] \in Tokens BY LenProperties, ElementOfSeq
<1> QED BY <1>1, <1>2

LEMMA WorkingAnswer == ASSUME Inv, run.at \in Working PROVE AnswerIsRight
<1>1. /\ out \in Seq(Tokens) /\ Len(out) = run.n /\ run.n <= run.n_gen
      /\ ~mode.spec => \A i \in 1..Len(out) : out[i] # Eos
      /\ Fits => GreedyAfter(run.prompt, out)
  BY OutFacts DEF Inv
<1>2. Written = out BY <1>1, WrittenIs
<1>3. DOMAIN out = 1..Len(out) /\ Len(out) \in Nat BY <1>1, LenProperties
<1>4. run.at # "returned" BY DEF Working
<1>5. OutputIsGreedy BY <1>1, <1>2, <1>3 DEF OutputIsGreedy, GreedyAfter
<1>6. ToSet(out) \subseteq Tokens BY <1>1, TokensOnly
<1>7. AnswerComplete BY <1>1, <1>2, <1>3, <1>4, <1>6 DEF AnswerComplete
<1> QED BY <1>5, <1>7 DEF AnswerIsRight

LEMMA ReturnedAnswer == ASSUME Inv, run.at = "returned" PROVE AnswerIsRight
<1>1. PICK w \in Seq(Tokens) : EndedWith(w) BY DEF Inv, RunInv
<1>2. Written = w /\ (out = Append(w, -1) => Last(out) = -1 /\ Len(out) = Len(w) + 1)
  BY <1>1, WrittenIs DEF EndedWith
<1>3. DOMAIN w = 1..Len(w) /\ Len(w) \in Nat BY LenProperties
<1>4. OutputIsGreedy BY <1>1, <1>2, <1>3 DEF OutputIsGreedy, GreedyAfter, EndedWith
<1>5. ToSet(w) \subseteq Tokens BY TokensOnly
<1>6. AnswerComplete BY <1>1, <1>2, <1>3, <1>5 DEF AnswerComplete, EndedWith
<1> QED BY <1>4, <1>6 DEF AnswerIsRight

LEMMA NoAnswerYet == ASSUME ~Serving PROVE AnswerIsRight
<1>1. run.at # "returned" BY DEF Serving
<1> QED BY <1>1 DEF AnswerIsRight, OutputIsGreedy, AnswerComplete

\* Whatever the draft proposes, whichever call fails and whenever the other
\* process dies, an answer is the target's own greedy continuation of its
\* prompt, and all of it when the request succeeds.
THEOREM AnswersAreRight == Spec => []AnswerIsRight
<1>1. Serving => run.at \in Working \/ run.at = "returned" BY DEF Serving, Working
<1>2. Inv => AnswerIsRight BY <1>1, WorkingAnswer, ReturnedAnswer, NoAnswerYet
<1> QED BY <1>2, InvHolds, PTL

-----------------------------------------------------------------------------
(* The layers of the devices                                                *)

\* The sums of the first weights are integers.
LEMMA SumType ==
  ASSUME NEW w \in Seq(Int), NEW i \in 0..Len(w)
  PROVE  SumTo(w, i) \in Int
<1> DEFINE G == [p \in (1..Len(w)) \X Int |-> p[2] + w[p[1]]]
           Is(f) == f = [j \in 0..Len(w) |-> IF j = 0 THEN 0 ELSE f[j - 1] + w[j]]
           sum == CHOOSE f : Is(f)
<1>1. ASSUME NEW j \in 1..Len(w), NEW x \in Int PROVE G[<<j, x>>] = x + w[j] /\ G[<<j, x>>] \in Int
  <2>1. w[j] \in Int OBVIOUS
  <2>2. <<j, x>> \in (1..Len(w)) \X Int OBVIOUS
  <2>3. G[<<j, x>>] = x + w[j] BY <2>2
  <2>4. x + w[j] \in Int BY <2>1
  <2> HIDE DEF G
  <2> QED BY <2>3, <2>4
<1>2. Len(w) \in Nat OBVIOUS
<1>3. PICK f \in [0..Len(w) -> Int] : Steps(Len(w), 0, G, f)
  <2>1. \A j \in 1..Len(w) : \A x \in Int : G[<<j, x>>] \in Int BY <1>1
  <2>2. 0 \in Int OBVIOUS
  <2> HIDE DEF G
  <2> QED BY <2>1, <2>2, <1>2, RecursiveFunction
<1>4. ASSUME NEW j \in 0..Len(w) PROVE f[j] = IF j = 0 THEN 0 ELSE f[j - 1] + w[j]
  <2> HIDE DEF G
  <2>1. CASE j = 0 BY <1>3, <2>1 DEF Steps
  <2>2. CASE j # 0
    <3>1. j \in 1..Len(w) /\ j - 1 \in 0..Len(w) BY <2>2
    <3>2. f[j - 1] \in Int BY <3>1
    <3>3. f[j] = G[<<j, f[j - 1]>>] BY <3>1, <1>3 DEF Steps
    <3> QED BY <1>1, <2>2, <3>1, <3>2, <3>3
  <2> QED BY <2>1, <2>2
<1>5. Is(f)
  <2>1. f = [j \in 0..Len(w) |-> f[j]] OBVIOUS
  <2> QED BY <2>1, <1>4
<1>6. Is(sum)
  <2> HIDE DEF Is
  <2> QED BY <1>5
<1>7. SumTo(w, i) = sum[i] BY DEF SumTo
<1>8. \A j \in 0..Len(w) : j \in {j2 \in 0..Len(w) : sum[j2] \in Int}
  <2> DEFINE T == {j2 \in 0..Len(w) : sum[j2] \in Int}
  <2>1. \A j \in 0..Len(w) : sum[j] = IF j = 0 THEN 0 ELSE sum[j - 1] + w[j]
    <3> HIDE DEF sum
    <3> QED BY <1>6
  <2> HIDE DEF sum
  <2>2. 0 \in T BY <2>1, <1>2
  <2>3. ASSUME NEW j \in 1..Len(w), j - 1 \in T PROVE j \in T
    <3>1. w[j] \in Int /\ j \in 0..Len(w) OBVIOUS
    <3>2. sum[j - 1] \in Int BY <2>3
    <3> QED BY <2>1, <3>1, <3>2
  <2> HIDE DEF T
  <2>4. \A j \in 0..Len(w) : j \in T BY <2>2, <2>3, <1>2, CountUp
  <2> QED BY <2>4 DEF T
<1> HIDE DEF sum
<1> QED BY <1>7, <1>8

LEMMA MaxMin ==
  ASSUME NEW a \in Int, NEW b \in Int
  PROVE  /\ Max({a, b}) = IF a >= b THEN a ELSE b
         /\ Min({a, b}) = IF a <= b THEN a ELSE b
BY DEF Max, Min

\* A device ends past where it begins, and leaves a layer to each one after it.
LEMMA RangeEndFacts ==
  ASSUME NEW n \in Nat, NEW w \in Seq(Int), SumTo(w, Len(w)) > 0, NEW i \in 1..Len(w),
         NEW b \in Int
  PROVE  LET e == RangeEnd(n, w, i, b)
         IN  /\ e \in Int /\ e >= b + 1
             /\ e <= n - (Len(w) - i) \/ e = b + 1
             /\ i = Len(w) => e >= n
<1> DEFINE s == SumTo(w, Len(w))
           end == IF i = Len(w) THEN n ELSE (2 * SumTo(w, i) * n + s) \div (2 * s)
           top == n - (Len(w) - i)
<1>1. Len(w) \in Nat /\ i \in 0..Len(w) /\ Len(w) \in 0..Len(w) OBVIOUS
<1>2. s \in Int /\ SumTo(w, i) \in Int BY <1>1, SumType
<1>3. end \in Int
  <2> DEFINE p == 2 * SumTo(w, i) * n + s
             q == 2 * s
  <2>1. p \in Int BY <1>2
  <2>2. q \in Int /\ q > 0 BY <1>2
  <2> HIDE DEF p, q
  <2>3. p \div q \in Int BY <2>1, <2>2
  <2> QED BY <2>3 DEF p, q
<1>4. top \in Int BY <1>1
<1>5. RangeEnd(n, w, i, b) = Max({b + 1, Min({top, end})}) BY DEF RangeEnd
<1>6. top = n \/ i # Len(w) BY <1>1
<1>7. i = Len(w) => end = n OBVIOUS
<1> HIDE DEF end, top
<1>8. Min({top, end}) = IF top <= end THEN top ELSE end BY <1>3, <1>4, MaxMin
<1> DEFINE m == Min({top, end})
<1>9. m \in Int /\ m <= top BY <1>3, <1>4, <1>8
<1>10. i = Len(w) => m = n BY <1>3, <1>4, <1>6, <1>7, <1>8
<1> HIDE DEF m
<1>11. Max({b + 1, m}) = IF b + 1 >= m THEN b + 1 ELSE m BY <1>9, MaxMin
<1>12. RangeEnd(n, w, i, b) = IF b + 1 >= m THEN b + 1 ELSE m BY <1>5, <1>11 DEF m
<1> QED BY <1>9, <1>10, <1>12, <1>4 DEF top

\* Where the devices' layers end: one after the other, the last at the end.
LEMMA EndsIncrease ==
  ASSUME NEW n \in Nat, NEW w \in Seq(Int), w # <<>>, Len(w) <= n, SumTo(w, Len(w)) > 0
  PROVE  \E e \in [0..Len(w) -> Int] :
           /\ e[0] = 0 /\ e[Len(w)] = n
           /\ \A i \in 1..Len(w) : e[i - 1] < e[i]
           /\ compute_layer_ranges(n, w) = [i \in 1..Len(w) |-> [begin |-> e[i - 1], end |-> e[i]]]
<1> DEFINE g == Len(w)
           G == [p \in (1..g) \X Int |-> RangeEnd(n, w, p[1], p[2])]
           Is(f) == f = [i \in 0..g |-> IF i = 0 THEN 0 ELSE RangeEnd(n, w, i, f[i - 1])]
           e == CHOOSE f : Is(f)
<1>1. g \in Nat /\ g > 0 /\ 0 \in Int OBVIOUS
<1>2. ASSUME NEW i \in 1..g, NEW x \in Int
      PROVE  G[<<i, x>>] = RangeEnd(n, w, i, x) /\ RangeEnd(n, w, i, x) \in Int
  <2>1. <<i, x>> \in (1..g) \X Int OBVIOUS
  <2>2. G[<<i, x>>] = RangeEnd(n, w, i, x) BY <2>1
  <2>3. RangeEnd(n, w, i, x) \in Int BY RangeEndFacts
  <2> HIDE DEF G
  <2> QED BY <2>2, <2>3
<1>3. PICK f \in [0..g -> Int] : Steps(g, 0, G, f)
  <2>1. \A i \in 1..g : \A x \in Int : G[<<i, x>>] \in Int
    <3> HIDE DEF G
    <3> QED BY <1>2
  <2> HIDE DEF G, g
  <2> QED BY <2>1, <1>1, RecursiveFunction
<1>4. ASSUME NEW i \in 0..g PROVE f[i] = IF i = 0 THEN 0 ELSE RangeEnd(n, w, i, f[i - 1])
  <2> HIDE DEF G
  <2>1. CASE i = 0 BY <1>3, <2>1 DEF Steps
  <2>2. CASE i # 0
    <3>1. i \in 1..g /\ i - 1 \in 0..g BY <2>2
    <3>2. f[i - 1] \in Int BY <3>1
    <3>3. f[i] = G[<<i, f[i - 1]>>] BY <3>1, <1>3 DEF Steps
    <3> HIDE DEF g
    <3> QED BY <1>2, <2>2, <3>1, <3>2, <3>3
  <2> QED BY <2>1, <2>2
<1>5. Is(f)
  <2>1. f = [i \in 0..g |-> f[i]] OBVIOUS
  <2> QED BY <2>1, <1>4
<1>6. Is(e)
  <2> HIDE DEF Is
  <2> QED BY <1>5
<1>7. compute_layer_ranges(n, w) = [i \in 1..g |-> [begin |-> e[i - 1], end |-> e[i]]]
  <2>1. ~(Len(w) > n \/ SumTo(w, Len(w)) <= 0)
    <3>1. SumTo(w, Len(w)) \in Int BY <1>1, SumType
    <3> QED BY <3>1, <1>1
  <2> QED BY <2>1 DEF compute_layer_ranges
<1>8. e[0] = 0 /\ \A i \in 1..g : e[i] = RangeEnd(n, w, i, e[i - 1])
  <2> HIDE DEF e
  <2>1. \A i \in 0..g : e[i] = IF i = 0 THEN 0 ELSE RangeEnd(n, w, i, e[i - 1]) BY <1>6
  <2>2. 0 \in 0..g /\ \A i \in 1..g : i \in 0..g /\ i # 0 OBVIOUS
  <2> HIDE DEF g
  <2> QED BY <2>1, <2>2
<1>9. e = [i \in 0..g |-> e[i]]
  <2> HIDE DEF e
  <2> QED BY <1>6
<1> HIDE DEF e
<1> DEFINE T == {i \in 0..g : e[i] \in Int /\ e[i] <= n - (g - i)}
<1>10. \A i \in 0..g : i \in T
  <2>1. 0 \in T BY <1>1, <1>8
  <2>2. ASSUME NEW i \in 1..g, i - 1 \in T PROVE i \in T
    <3>1. e[i - 1] \in Int /\ e[i - 1] <= n - (g - (i - 1)) BY <2>2
    <3> DEFINE b == e[i - 1]
    <3> HIDE DEF b
    <3>2. b \in Int BY <3>1 DEF b
    <3>3. /\ RangeEnd(n, w, i, b) \in Int
          /\ RangeEnd(n, w, i, b) <= n - (g - i) \/ RangeEnd(n, w, i, b) = b + 1
      BY <3>2, RangeEndFacts
    <3>4. e[i] \in Int /\ (e[i] <= n - (g - i) \/ e[i] = b + 1)
      <4> HIDE DEF g
      <4> QED BY <3>3, <1>8 DEF b
    <3>5. b <= n - (g - (i - 1)) BY <3>1 DEF b
    <3>6. i \in 0..g OBVIOUS
    <3> HIDE DEF g
    <3> QED BY <3>2, <3>4, <3>5, <3>6, <1>1
  <2> HIDE DEF T, g
  <2> QED BY <2>1, <2>2, <1>1, CountUp
<1>11. \A i \in 0..g : e[i] \in Int /\ e[i] <= n - (g - i) BY <1>10
<1>12. e \in [0..g -> Int] BY <1>9, <1>11
<1>13. ASSUME NEW i \in 1..g PROVE e[i - 1] < e[i]
  <2>1. i - 1 \in 0..g /\ i \in 0..g OBVIOUS
  <2>2. e[i - 1] \in Int /\ e[i] \in Int BY <2>1, <1>11
  <2>3. e[i] >= e[i - 1] + 1 BY <2>2, <1>8, RangeEndFacts
  <2> HIDE DEF g
  <2> QED BY <2>2, <2>3
<1>14. e[g] = n
  <2>1. g \in 1..g /\ g - 1 \in 0..g /\ g \in 0..g BY <1>1
  <2>2. e[g - 1] \in Int /\ e[g] \in Int BY <2>1, <1>11
  <2>3. e[g] <= n BY <2>1, <1>1, <1>11
  <2>4. e[g] >= n BY <2>1, <2>2, <1>8, RangeEndFacts
  <2> QED BY <2>2, <2>3, <2>4
<1> HIDE DEF T
<1> QED BY <1>7, <1>8, <1>12, <1>13, <1>14

Rising(e, g, n) == e[0] = 0 /\ e[g] = n /\ \A i \in 1..g : e[i - 1] < e[i]

Within(e, x, j) == x \in e[j - 1]..e[j] - 1

\* Ranges that follow each other hold every number of the whole once.
LEMMA RangesPartition ==
  ASSUME NEW g \in Nat, NEW n \in Nat, NEW e \in [0..g -> Int], Rising(e, g, n),
         NEW x \in 0..n - 1
  PROVE  \E i \in 1..g : \A j \in 1..g : Within(e, x, j) <=> j = i
<1> USE DEF Rising, Within
<1> DEFINE above == {i \in 0..g : e[i] > x}
<1>1. g \in above OBVIOUS
<1>2. above \in SUBSET Nat /\ above # {}
  <2>1. above \in SUBSET (0..g) OBVIOUS
  <2> HIDE DEF above
  <2> QED BY <1>1, <2>1
<1>3. PICK i \in above : \A j \in above : i <= j
  <2> HIDE DEF above
  <2> QED BY <1>2, LeastNat
<1>4. i \in 1..g OBVIOUS
<1>5. \A j \in 0..g : j < i => e[j] <= x
  <2>1. ASSUME NEW j \in 0..g, j < i PROVE j \notin above
    <3> HIDE DEF above
    <3> QED BY <1>3, <1>4, <2>1
  <2> QED BY <2>1
<1> DEFINE T == {k \in 0..g : k >= i => e[k] >= e[i]}
<1>6. \A k \in 0..g : k \in T
  <2>1. 0 \in T BY <1>4
  <2>2. ASSUME NEW k \in 1..g, k - 1 \in T PROVE k \in T
    <3>1. e[k - 1] < e[k] /\ e[k - 1] \in Int /\ e[k] \in Int /\ e[i] \in Int BY <1>4
    <3>2. k - 1 >= i => e[k - 1] >= e[i] BY <2>2
    <3> QED BY <3>1, <3>2, <1>4
  <2> HIDE DEF T
  <2> QED BY <2>1, <2>2, CountUp
<1>7. \A k \in 0..g : k >= i => e[k] >= e[i] BY <1>6
<1>8. e[i] > x /\ e[i] \in Int /\ e[i - 1] \in Int /\ e[i - 1] <= x BY <1>4, <1>5
<1>9. ASSUME NEW j \in 1..g PROVE x \in e[j - 1]..e[j] - 1 <=> j = i
  <2>1. j - 1 \in 0..g /\ j \in 0..g /\ e[j - 1] \in Int /\ e[j] \in Int OBVIOUS
  <2>2. CASE j = i BY <2>2, <1>8
  <2>3. CASE j < i BY <2>1, <2>3, <1>5
  <2>4. CASE j > i
    <3>1. e[j - 1] >= e[i] BY <2>1, <2>4, <1>4, <1>7
    <3> QED BY <3>1, <2>1, <2>4, <1>8
  <2> QED BY <2>2, <2>3, <2>4, <1>4
<1> QED BY <1>4, <1>9

\* Every layer has one device, every device a layer, in order.
Covers(r, n, g) ==
  /\ \A i \in 1..g : r[i].begin < r[i].end
  /\ \A il \in 0..n - 1 : \E i \in 1..g : Owners(r, il) = {i}
  /\ r[g].end = n
  /\ \A i \in 1..g - 1 : r[i].end = r[i + 1].begin

\* The ranges of any number of layers, devices and weights.
LEMMA RangesCover ==
  ASSUME NEW n \in Nat, NEW g \in Nat \ {0}, g <= n, NEW w \in [1..g -> Int], SumTo(w, g) > 0
  PROVE  Covers(compute_layer_ranges(n, w), n, g)
<1> DEFINE r == compute_layer_ranges(n, w)
<1>1. w \in Seq(Int) /\ Len(w) = g /\ w # <<>> OBVIOUS
<1>2. PICK e \in [0..g -> Int] :
           /\ e[0] = 0 /\ e[g] = n
           /\ \A i \in 1..g : e[i - 1] < e[i]
           /\ r = [i \in 1..g |-> [begin |-> e[i - 1], end |-> e[i]]]
  BY ZenonT(40), <1>1, EndsIncrease
<1> HIDE DEF r
<1>3. DOMAIN r = 1..g /\ \A i \in 1..g : r[i].begin = e[i - 1] /\ r[i].end = e[i] BY <1>2
<1>4. \A il \in 0..n - 1 : \E i \in 1..g : Owners(r, il) = {i}
  <2>1. TAKE il \in 0..n - 1
  <2>2. g \in Nat /\ Rising(e, g, n) BY <1>2 DEF Rising
  <2>3. PICK i \in 1..g : \A j \in 1..g : Within(e, il, j) <=> j = i BY <2>2, RangesPartition
  <2>4. Owners(r, il) = {j \in 1..g : Within(e, il, j)} BY <1>3 DEF Owners, Within
  <2>5. Owners(r, il) = {i} BY <2>3, <2>4
  <2> QED BY <2>5
<1>5. \A i \in 1..g - 1 : r[i].end = r[i + 1].begin
  <2>1. ASSUME NEW i \in 1..g - 1 PROVE r[i].end = r[i + 1].begin
    <3>1. i \in 1..g /\ i + 1 \in 1..g /\ (i + 1) - 1 = i OBVIOUS
    <3>2. r[i].end = e[i] BY <3>1, <1>3
    <3>3. r[i + 1].begin = e[(i + 1) - 1] BY <3>1, <1>3
    <3> QED BY <3>1, <3>2, <3>3
  <2> QED BY <2>1
<1>6. \A i \in 1..g : r[i].begin < r[i].end BY <1>2, <1>3
<1>7. g \in 1..g /\ r[g].end = n BY <1>2, <1>3
<1> QED BY <1>4, <1>5, <1>6, <1>7 DEF Covers, r

\* (LayersCovered) Whatever the number of layers and devices and their weights.
THEOREM LayersAreCovered == Spec => []LayersCovered
<1>1. ASSUME NEW n \in 1..MaxLayers, NEW g \in 1..MaxLayers, NEW w \in [1..g -> 0..3],
             g <= n /\ SumTo(w, g) > 0
      PROVE  Covers(compute_layer_ranges(n, w), n, g)
  <2>1. n \in Nat /\ g \in Nat \ {0} /\ w \in [1..g -> Int] BY SplitSizes
  <2> QED BY <1>1, <2>1, RangesCover
<1>2. LayersCovered BY <1>1 DEF LayersCovered, Covers
<1> QED BY <1>2, PTL

-----------------------------------------------------------------------------
(* The slots of the draft's ring *)

\* Positions less than a ring apart have slots of their own.
LEMMA SlotsApart ==
  ASSUME NEW w \in Nat \ {0}, NEW p \in Nat, NEW q \in Nat, q < p, p < q + w
  PROVE  p % w # q % w
<1>1. \A x \in Nat : x % w \in 0..(w - 1) /\ x \div w \in Nat /\ x = w * (x \div w) + (x % w)
  OBVIOUS
<1> SUFFICES ASSUME p % w = q % w PROVE FALSE OBVIOUS
<1> DEFINE x == p \div w
           y == q \div w
<1>2. x \in Nat /\ y \in Nat /\ p - q = w * x - w * y BY <1>1
<1> HIDE DEF x, y
<1>3. CASE x <= y
  <2>1. w * x <= w * y BY <1>2, <1>3
  <2>2. w * x \in Int /\ w * y \in Int BY <1>2
  <2> QED BY <1>2, <2>1, <2>2
<1>4. CASE x >= y + 1
  <2>1. w * x >= w * (y + 1) BY <1>2, <1>4
  <2>2. w * (y + 1) = w * y + w BY <1>2
  <2>3. w * x \in Int /\ w * y \in Int BY <1>2
  <2> QED BY <1>2, <2>1, <2>2, <2>3
<1> QED BY <1>2, <1>3, <1>4

Slot(p) == ((p - 1) % RingCap) + 1

LEMMA SlotRange == \A p \in Nat \ {0} : Slot(p) \in 1..RingCap /\ Slot(p) - 1 = (p - 1) % RingCap
<1>1. RingCap \in Nat \ {0} BY SizesAreNat
<1>2. \A x \in Nat : x % RingCap \in 0..(RingCap - 1) BY <1>1
<1>3. ASSUME NEW p \in Nat \ {0} PROVE Slot(p) \in 1..RingCap /\ Slot(p) - 1 = (p - 1) % RingCap
  <2>1. p - 1 \in Nat OBVIOUS
  <2>2. (p - 1) % RingCap \in 0..(RingCap - 1) BY <1>2, <2>1
  <2> DEFINE m == (p - 1) % RingCap
  <2> HIDE DEF m
  <2>3. m \in 0..(RingCap - 1) BY <2>2 DEF m
  <2>4. m + 1 \in 1..RingCap /\ (m + 1) - 1 = m BY <1>1, <2>3
  <2> QED BY <2>4 DEF Slot, m
<1> QED BY <1>3

\* A slice writes one layer, and in that layer the slots of its positions.
LEMMA SliceLayers ==
  ASSUME NEW r, IsRing(r), NEW capture, NEW start, NEW rows, NEW s \in 1..RingCap,
         NEW c \in 1..NCapture, c # capture
  PROVE  WriteSlice(r, capture, start, rows)[s][c] = r[s][c]
<1> DEFINE hits(x) == {i \in 1 .. Len(rows) : (start + i - 1) % RingCap = x - 1}
           row(x) == IF hits(x) = {} THEN r[x] ELSE [r[x] EXCEPT ![capture] = rows[Max(hits(x))]]
           f == [x \in 1..RingCap |-> row(x)]
<1>0. RingCap \in Nat BY SizesAreNat
<1>1. WriteSlice(r, capture, start, rows) = SubSeq(f, 1, RingCap) BY DEF WriteSlice, Seqn
<1>2. f = [x \in 1..RingCap |-> f[x]] /\ f[s] = row(s)
  <2> HIDE DEF row
  <2> QED OBVIOUS
<1>3. SubSeq(f, 1, RingCap) = f
  <2> HIDE DEF f
  <2> QED BY <1>0, <1>2, WholeFunction
<1>4. r[s] = [x \in 1..NCapture |-> r[s][x]] BY DEF IsRing
<1> DEFINE old == r[s]
           v == rows[Max(hits(s))]
<1> HIDE DEF old, v
<1>5. [old EXCEPT ![capture] = v][c] = old[c] BY <1>4 DEF old
<1>6. row(s)[c] = r[s][c] BY <1>5 DEF old, v
<1> HIDE DEF row, f
<1> QED BY <1>1, <1>2, <1>3, <1>6

\* Where nothing of the slice goes, the layer is left alone.
LEMMA SliceMisses ==
  ASSUME NEW r, IsRing(r), NEW capture, NEW start, NEW rows, NEW s \in 1..RingCap,
         \A i \in 1..Len(rows) : (start + i - 1) % RingCap # s - 1
  PROVE  WriteSlice(r, capture, start, rows)[s] = r[s]
<1> DEFINE hits(x) == {i \in 1 .. Len(rows) : (start + i - 1) % RingCap = x - 1}
           row(x) == IF hits(x) = {} THEN r[x] ELSE [r[x] EXCEPT ![capture] = rows[Max(hits(x))]]
           f == [x \in 1..RingCap |-> row(x)]
<1>0. RingCap \in Nat BY SizesAreNat
<1>1. WriteSlice(r, capture, start, rows) = SubSeq(f, 1, RingCap) BY DEF WriteSlice, Seqn
<1>2. f = [x \in 1..RingCap |-> f[x]] /\ f[s] = row(s)
  <2> HIDE DEF row
  <2> QED OBVIOUS
<1>3. SubSeq(f, 1, RingCap) = f
  <2> HIDE DEF f
  <2> QED BY <1>0, <1>2, WholeFunction
<1>4. hits(s) = {} OBVIOUS
<1>5. row(s) = r[s] BY <1>4
<1> HIDE DEF row, f
<1> QED BY <1>1, <1>2, <1>3, <1>5

\* Row i of the slice goes to slot s, and no later one does.
LastAt(start, len, i, s) ==
  /\ i \in 1..len /\ (start + i - 1) % RingCap = s - 1
  /\ \A j \in 1..len : j > i => (start + j - 1) % RingCap # s - 1

\* A row that no later one of the slice replaces is there.
LEMMA SliceHits ==
  ASSUME NEW r, IsRing(r), NEW capture \in 1..NCapture, NEW start, NEW rows, NEW s \in 1..RingCap,
         Len(rows) \in Nat, NEW i, LastAt(start, Len(rows), i, s)
  PROVE  WriteSlice(r, capture, start, rows)[s][capture] = rows[i]
<1> DEFINE hits(x) == {j \in 1 .. Len(rows) : (start + j - 1) % RingCap = x - 1}
           row(x) == IF hits(x) = {} THEN r[x] ELSE [r[x] EXCEPT ![capture] = rows[Max(hits(x))]]
           f == [x \in 1..RingCap |-> row(x)]
<1>0. RingCap \in Nat BY SizesAreNat
<1>1. WriteSlice(r, capture, start, rows) = SubSeq(f, 1, RingCap) BY DEF WriteSlice, Seqn
<1>2. f = [x \in 1..RingCap |-> f[x]] /\ f[s] = row(s)
  <2> HIDE DEF row
  <2> QED OBVIOUS
<1>3. SubSeq(f, 1, RingCap) = f
  <2> HIDE DEF f
  <2> QED BY <1>0, <1>2, WholeFunction
<1> DEFINE H == hits(s)
<1>4. i \in H /\ H \in SUBSET (0..Len(rows)) /\ \A j \in H : j \in 1..Len(rows) /\ j <= i BY DEF LastAt
<1>5. Max(H) \in H /\ \A j \in H : j <= Max(H)
  <2> HIDE DEF H
  <2> QED BY <1>4, GreatestNat
<1>6. Max(H) = i
  <2> HIDE DEF H
  <2>1. Max(H) <= i /\ i <= Max(H) /\ Max(H) \in 1..Len(rows) /\ i \in 1..Len(rows) BY <1>4, <1>5
  <2> QED BY <2>1
<1>7. r[s] = [x \in 1..NCapture |-> r[s][x]] BY DEF IsRing
<1> DEFINE old == r[s]
           v == rows[i]
<1>8. row(s) = [old EXCEPT ![capture] = v]
  <2>1. H # {} BY <1>4
  <2> QED BY <1>6, <2>1
<1> HIDE DEF old, v
<1>9. [old EXCEPT ![capture] = v][capture] = v BY <1>7 DEF old
<1> HIDE DEF row, f
<1> QED BY <1>1, <1>2, <1>3, <1>8, <1>9 DEF v

\* The ring has layer c of the first n tokens of ctx, those that are less
\* than a ring below top.
Has(r, ctx, n, top, c) ==
  \A p \in 1..n : p - 1 + RingCap >= top => r[Slot(p)][c] = SubSeq(ctx, 1, p)

\* A slice of right rows, which goes on where the layer ended.
LEMMA SliceRight ==
  ASSUME NEW r, IsRing(r), NEW capture \in 1..NCapture, NEW n \in Nat, NEW top \in Nat,
         NEW ctx \in Seq(Tokens), NEW rows, Len(rows) \in Nat, n + Len(rows) <= top,
         Has(r, ctx, n, top, capture),
         \A i \in 1..Len(rows) : rows[i] = SubSeq(ctx, 1, n + i)
  PROVE  Has(WriteSlice(r, capture, n, rows), ctx, n + Len(rows), top, capture)
<1> DEFINE w == WriteSlice(r, capture, n, rows)
<1> SUFFICES ASSUME NEW p \in 1..(n + Len(rows)), p - 1 + RingCap >= top
             PROVE  w[Slot(p)][capture] = SubSeq(ctx, 1, p)
  BY DEF Has
<1>0. RingCap \in Nat \ {0} BY SizesAreNat
<1> DEFINE s == Slot(p)
<1>1. p \in Nat \ {0} /\ p - 1 \in Nat OBVIOUS
<1>2. s \in 1..RingCap /\ s - 1 = (p - 1) % RingCap BY <1>1, SlotRange
<1> HIDE DEF s, w
<1>3. ASSUME NEW j \in 1..Len(rows), n + j - 1 > p - 1
      PROVE  (n + j - 1) % RingCap # s - 1
  <2>1. n + j - 1 \in Nat /\ n + j - 1 < (p - 1) + RingCap BY <1>0, <1>1
  <2>2. (n + j - 1) % RingCap # (p - 1) % RingCap BY <1>0, <1>1, <1>3, <2>1, SlotsApart
  <2> QED BY <1>2, <2>2
<1>4. CASE p <= n
  <2>1. \A j \in 1..Len(rows) : (n + j - 1) % RingCap # s - 1
    <3>1. \A j \in 1..Len(rows) : n + j - 1 > p - 1 BY <1>1, <1>4
    <3> QED BY <1>3, <3>1
  <2>2. w[s] = r[s] BY <1>2, <2>1, SliceMisses DEF w
  <2>3. p \in 1..n BY <1>1, <1>4
  <2>4. r[s][capture] = SubSeq(ctx, 1, p) BY <2>3 DEF Has, s
  <2> QED BY <2>2, <2>4 DEF s
<1>5. CASE p > n
  <2> DEFINE i == p - n
  <2>1. i \in 1..Len(rows) /\ n + i = p /\ n + i - 1 = p - 1 BY <1>5
  <2> HIDE DEF i
  <2>2. \A j \in 1..Len(rows) : j > i => (n + j - 1) % RingCap # s - 1
    <3>1. \A j \in 1..Len(rows) : j > i => n + j - 1 > p - 1 BY <2>1
    <3> QED BY <1>3, <3>1
  <2>3. (n + i - 1) % RingCap = s - 1 BY <1>2, <2>1
  <2>4. LastAt(n, Len(rows), i, s) BY <2>1, <2>2, <2>3 DEF LastAt
  <2>5. w[s][capture] = rows[i] BY <1>2, <2>4, SliceHits DEF w
  <2> QED BY <2>1, <2>5 DEF s
<1> QED BY <1>1, <1>4, <1>5


\* How many of len tokens the first k - 1 copies, nc of a layer and each of u
\* tokens, have brought from layer c.
DoneOf(len, u, nc, k, c) ==
  LET m == k - 1 - (c - 1) * nc IN IF m <= 0 THEN 0 ELSE Lesser(m * u, len)

LEMMA MulMono == ASSUME NEW n \in Nat, NEW a \in Int, NEW b \in Int, a <= b PROVE n * a <= n * b
OBVIOUS

LEMMA ChunkCount ==
  ASSUME NEW len \in Nat \ {0}, NEW u \in Nat \ {0}
  PROVE  LET nc == (len + u - 1) \div u
         IN  nc \in Nat \ {0} /\ nc * u >= len /\ (nc - 1) * u < len
<1> DEFINE x == len + u - 1
           nc == x \div u
<1>1. x \in Nat OBVIOUS
<1>2. nc \in Nat /\ x % u \in 0..(u - 1) /\ x = u * nc + (x % u) BY <1>1
<1> DEFINE y == x % u
<1>3. y \in 0..(u - 1) /\ len + u - 1 = u * nc + y BY <1>2
<1> HIDE DEF nc, y, x
<1>4. u * nc \in Int /\ u * nc = nc * u /\ (nc - 1) * u = nc * u - u BY <1>2
<1>5. nc * u >= len /\ (nc - 1) * u < len BY <1>3, <1>4
<1>6. nc # 0
  <2> SUFFICES ASSUME nc = 0 PROVE FALSE OBVIOUS
  <2>1. nc * u = 0 OBVIOUS
  <2> QED BY <1>5, <2>1
<1> QED BY <1>2, <1>5, <1>6 DEF nc, x

\* The copies of a pass, layer by layer and chunk by chunk.
Brings(len, u, nc, g, k) ==
  LET c0   == (k - 1) \div nc + 1
      from == ((k - 1) % nc) * u
  IN  /\ c0 \in 1..g /\ from \in Nat /\ from < len
      /\ DoneOf(len, u, nc, k, c0) = from
      /\ DoneOf(len, u, nc, k + 1, c0) = from + Lesser(u, len - from)
      /\ \A c \in 1..g : c # c0 =>
           DoneOf(len, u, nc, k + 1, c) = DoneOf(len, u, nc, k, c)

LEMMA CopyFacts ==
  ASSUME NEW len \in Nat \ {0}, NEW u \in Nat \ {0}, NEW nc \in Nat \ {0}, nc * u >= len,
         (nc - 1) * u < len, NEW g \in Nat \ {0}, NEW k \in Nat \ {0}, k <= g * nc
  PROVE  Brings(len, u, nc, g, k)
<1> DEFINE q == (k - 1) \div nc
           ch == (k - 1) % nc
           from == ch * u
<1>1. k - 1 \in Nat OBVIOUS
<1>2. q \in Nat /\ ch \in 0..(nc - 1) /\ k - 1 = nc * q + ch BY <1>1
<1> HIDE DEF q, ch
<1>3. q <= g - 1
  <2> SUFFICES ASSUME q >= g PROVE FALSE BY <1>2
  <2>1. nc * g <= nc * q BY <1>2, MulMono
  <2>2. nc * g = g * nc /\ nc * q \in Int /\ nc * g \in Int BY <1>2
  <2> QED BY <1>2, <2>1, <2>2
<1>4. from \in Nat /\ from < len
  <2>1. from \in Nat BY <1>2
  <2>2. u * ch <= u * (nc - 1) BY <1>2, MulMono
  <2>3. u * ch = from /\ u * (nc - 1) = (nc - 1) * u /\ (nc - 1) * u \in Int BY <1>2
  <2> HIDE DEF from
  <2> QED BY <2>1, <2>2, <2>3
<1>5. (ch + 1) * u = from + u /\ from + u \in Nat
  <2>1. (ch + 1) * u = from + u BY <1>2
  <2> HIDE DEF from
  <2> QED BY <1>4, <2>1
<1>6. DoneOf(len, u, nc, k, q + 1) = from /\ DoneOf(len, u, nc, k + 1, q + 1) = from + Lesser(u, len - from)
  <2>1. ((q + 1) - 1) * nc = nc * q /\ nc * q \in Int BY <1>2
  <2>2. k - 1 - ((q + 1) - 1) * nc = ch /\ (k + 1) - 1 - ((q + 1) - 1) * nc = ch + 1
    <3> DEFINE z == ((q + 1) - 1) * nc
               y == nc * q
    <3> HIDE DEF z, y
    <3>1. z = y /\ y \in Int /\ k - 1 = y + ch BY <1>2, <2>1 DEF z, y
    <3>2. k - 1 - z = ch /\ (k + 1) - 1 - z = ch + 1 BY <1>2, <3>1
    <3> QED BY <3>2 DEF z
  <2>3. ~(ch + 1 <= 0) /\ (ch <= 0 => from = 0) BY <1>2
  <2>4. DoneOf(len, u, nc, k, q + 1) = IF ch <= 0 THEN 0 ELSE Lesser(from, len)
    BY <2>2 DEF DoneOf
  <2>5. DoneOf(len, u, nc, k + 1, q + 1) = Lesser(from + u, len)
    BY <1>5, <2>2, <2>3 DEF DoneOf
  <2> HIDE DEF from
  <2> QED BY <1>4, <2>3, <2>4, <2>5 DEF Lesser
<1>7. ASSUME NEW c \in 1..g, c # q + 1
      PROVE  DoneOf(len, u, nc, k + 1, c) = DoneOf(len, u, nc, k, c)
  <2> DEFINE z == (c - 1) * nc
             y == nc * q
             m == k - 1 - z
  <2>1. z \in Int /\ y \in Int /\ k - 1 = y + ch BY <1>2
  <2>2. DoneOf(len, u, nc, k + 1, c) = (IF k + 1 - 1 - z <= 0 THEN 0 ELSE Lesser((k + 1 - 1 - z) * u, len))
        /\ DoneOf(len, u, nc, k, c) = (IF m <= 0 THEN 0 ELSE Lesser(m * u, len))
    BY DEF DoneOf
  <2>3. CASE c >= q + 2
    <3>1. nc * (q + 1) <= nc * (c - 1) BY <1>2, <2>3, MulMono
    <3>2. nc * (q + 1) = y + nc /\ nc * (c - 1) = z BY <1>2
    <3> HIDE DEF y, z
    <3>3. k + 1 - 1 - z <= 0 /\ m <= 0 BY <1>2, <2>1, <3>1, <3>2
    <3> QED BY <2>2, <3>3
  <2>4. CASE c <= q
    <3>1. nc * c <= nc * q BY <1>2, <2>4, MulMono
    <3>2. nc * c = z + nc /\ nc * q = y BY <1>2
    <3>3. m >= nc /\ m \in Int /\ k + 1 - 1 - z = m + 1
      <4> HIDE DEF y, z
      <4> QED BY <1>2, <2>1, <3>1, <3>2
    <3> HIDE DEF m, z, y
    <3>4. ASSUME NEW x \in Int, x >= nc PROVE Lesser(x * u, len) = len
      <4>1. u * nc <= u * x BY <3>4, MulMono
      <4>2. u * nc = nc * u /\ u * x = x * u /\ nc * u \in Int /\ x * u \in Int OBVIOUS
      <4> QED BY <4>1, <4>2 DEF Lesser
    <3>5. m + 1 >= nc /\ m + 1 \in Int /\ ~(m + 1 <= 0) /\ ~(m <= 0) BY <3>3
    <3>6. Lesser(m * u, len) = len /\ Lesser((m + 1) * u, len) = len BY <3>3, <3>4, <3>5
    <3> QED BY <2>2, <3>3, <3>5, <3>6
  <2> QED BY <1>2, <1>7, <2>3, <2>4
<1>8. q + 1 \in 1..g BY <1>2, <1>3
<1> QED BY <1>4, <1>6, <1>7, <1>8 DEF q, ch, Brings

\* Before the first copy and after the last one.
Bounds(len, u, nc, g, k, c) ==
  /\ DoneOf(len, u, nc, k, c) \in 0..len
  /\ DoneOf(len, u, nc, k, c) <= DoneOf(len, u, nc, k + 1, c)
  /\ k = 1 => DoneOf(len, u, nc, k, c) = 0
  /\ k > g * nc => DoneOf(len, u, nc, k, c) = len

LEMMA CopyEnds ==
  ASSUME NEW len \in Nat \ {0}, NEW u \in Nat \ {0}, NEW nc \in Nat \ {0}, nc * u >= len,
         NEW g \in Nat \ {0}, NEW c \in 1..g, NEW k \in Nat \ {0}
  PROVE  Bounds(len, u, nc, g, k, c)
<1> DEFINE z == (c - 1) * nc
           m == k - 1 - z
<1>1. z \in Nat /\ m \in Int BY DEF z
<1>2. DoneOf(len, u, nc, k + 1, c) = (IF k + 1 - 1 - z <= 0 THEN 0 ELSE Lesser((k + 1 - 1 - z) * u, len))
      /\ DoneOf(len, u, nc, k, c) = (IF m <= 0 THEN 0 ELSE Lesser(m * u, len))
  BY DEF DoneOf
<1>3. k + 1 - 1 - z = m + 1
  <2> HIDE DEF z
  <2> QED BY <1>1
<1>4. k > g * nc => m >= nc
  <2>1. nc * c <= nc * g BY MulMono
  <2>2. nc * c = z + nc /\ nc * g = g * nc /\ g * nc \in Int OBVIOUS
  <2> HIDE DEF z
  <2> QED BY <1>1, <2>1, <2>2
<1>5. k = 1 => m <= 0
  <2> HIDE DEF z
  <2> QED BY <1>1
<1> HIDE DEF m, z
<1>6. (m + 1) * u = m * u + u /\ m * u \in Int BY <1>1
<1>7. m > 0 => m * u > 0 
  <2>1. m > 0 => u * 1 <= u * m BY <1>1, MulMono
  <2>2. u * 1 = u /\ u * m = m * u BY <1>1
  <2> QED BY <1>6, <2>1, <2>2
<1>8. m >= nc => m * u >= len
  <2>1. m >= nc => u * nc <= u * m BY <1>1, MulMono
  <2>2. u * nc = nc * u /\ u * m = m * u /\ nc * u \in Int BY <1>1
  <2> QED BY <1>6, <2>1, <2>2
<1> DEFINE p == m * u
<1>9. DoneOf(len, u, nc, k, c) = (IF m <= 0 THEN 0 ELSE Lesser(p, len)) BY <1>2
<1>10. DoneOf(len, u, nc, k + 1, c) = (IF m + 1 <= 0 THEN 0 ELSE Lesser(p + u, len)) BY <1>2, <1>3, <1>6
<1>11. p \in Int /\ (m > 0 => p > 0) /\ (m >= nc => p >= len) /\ (m = 0 => p = 0) BY <1>6, <1>7, <1>8
<1> HIDE DEF p
<1> QED BY <1>1, <1>4, <1>5, <1>9, <1>10, <1>11 DEF Lesser, Bounds

-----------------------------------------------------------------------------
(* The copies of a pass *)

Top == IF run.at = "prefill" THEN Len(run.prompt) ELSE run.committed + QLen

Full == Before \o pass.toks

\* What ring r has of each layer once the first k - 1 copies of the pass are made.
CopiedIn(r, k) ==
  \A c \in 1..NCapture :
    Has(r, Full, pass.base + DoneOf(Len(pass.toks), pass.ubatch, NChunks, k, c), Top, c)

\* What a pass may copy.
CopyOK ==
  /\ pass.k > 0 => pass.ubatch \in Nat \ {0}
  /\ run.at = "replay" => Len(pass.toks) <= QLen

\* The sizes of a pass.
LEMMA PassSizes ==
  ASSUME RunInv, pass.k > 0, CopyOK
  PROVE  /\ Len(pass.toks) \in Nat \ {0} /\ pass.ubatch \in Nat \ {0} /\ pass.k \in Nat \ {0}
         /\ pass.base \in Nat /\ NCapture \in Nat \ {0}
         /\ NChunks \in Nat \ {0} /\ NChunks * pass.ubatch >= Len(pass.toks)
         /\ (NChunks - 1) * pass.ubatch < Len(pass.toks)
         /\ NCopies = IF mode.spec THEN NCapture * NChunks ELSE 0
         /\ Full \in Seq(Tokens) /\ Len(Full) = pass.base + Len(pass.toks)
         /\ \A i \in 0..Len(pass.toks) :
              SubSeq(Full, 1, pass.base + i) = Before \o SubSeq(pass.toks, 1, i)
<1>1. /\ pass.toks \in Seq(Tokens) /\ pass.toks # <<>> /\ pass.base \in Nat
      /\ Before \in Seq(Tokens) /\ Len(Before) = pass.base
  BY PassFacts
<1>2. Len(pass.toks) \in Nat \ {0} BY <1>1, EmptySeq
<1>3. pass.ubatch \in Nat \ {0} BY DEF CopyOK
<1>4. pass.k \in Nat \ {0} BY RunFields DEF IsPass
<1> DEFINE len == Len(pass.toks)
           u == pass.ubatch
           nc == (len + u - 1) \div u
<1>5. NChunks = nc BY DEF NChunks
<1>6. nc \in Nat \ {0} /\ nc * u >= len /\ (nc - 1) * u < len
  <2> HIDE DEF len, u
  <2> QED BY <1>2, <1>3, ChunkCount DEF len, u
<1>7. Full \in Seq(Tokens) /\ Len(Full) = pass.base + Len(pass.toks)
  BY <1>1, ConcatProperties DEF Full
<1>8. \A i \in 0..Len(pass.toks) :
              SubSeq(Full, 1, pass.base + i) = Before \o SubSeq(pass.toks, 1, i)
  <2> DEFINE b == Before
             toks == pass.toks
  <2> HIDE DEF b, toks
  <2>1. \A i \in 0..Len(toks) : SubSeq(b \o toks, 1, Len(b) + i) = b \o SubSeq(toks, 1, i)
    BY <1>1, ConcatPrefix DEF b, toks
  <2> QED BY <1>1, <2>1 DEF b, toks, Full
<1> HIDE DEF len, u, nc
<1> QED BY <1>1, <1>2, <1>3, <1>4, <1>5, <1>6, <1>7, <1>8, CapturesAssumption DEF NCopies, len, u

\* No pass goes past the position it may take the slots of.
LEMMA PassTop ==
  ASSUME RunInv, pass.k > 0, mode.spec, CopyOK
  PROVE  Top \in Nat /\ pass.base + Len(pass.toks) <= Top
<1>1. /\ run.at \in {"prefill", "verify", "replay"} /\ CountsOK /\ PassOK /\ QLen \in Nat
      /\ Len(pass.toks) \in Nat /\ pass.base \in Nat
  BY PassFacts, PassSizes, BlockSize DEF PassOK
<1>2. CASE run.at = "prefill" BY <1>1, <1>2 DEF PassOK, Top
<1>3. CASE run.at = "verify" BY <1>1, <1>3 DEF PassOK, Top
<1>4. CASE run.at = "replay" BY <1>1, <1>4 DEF PassOK, Top, CopyOK
<1> QED BY <1>1, <1>2, <1>3, <1>4

\* One copy more.
LEMMA CopyStep ==
  ASSUME RunInv, Passing, Fits, CopyOK, NEW r, IsRing(r), CopiedIn(r, pass.k)
  PROVE  LET c == CopyNo(pass.k)
         IN  CopiedIn(WriteSlice(r, c.capture, pass.base + c.from, Slice(c)), pass.k + 1)
<1> DEFINE len == Len(pass.toks)
           u == pass.ubatch
           k == pass.k
           nc == NChunks
           base == pass.base
           c0 == CopyNo(k)
           rows == Slice(c0)
           w == WriteSlice(r, c0.capture, base + c0.from, rows)
           D(j, c) == DoneOf(len, u, nc, j, c)
<1>0. k > 0 BY DEF Passing
<1>1. /\ len \in Nat \ {0} /\ u \in Nat \ {0} /\ k \in Nat \ {0} /\ base \in Nat
      /\ nc \in Nat \ {0} /\ nc * u >= len /\ (nc - 1) * u < len /\ NCapture \in Nat \ {0}
      /\ Full \in Seq(Tokens)
  BY <1>0, PassSizes
<1>2. mode.spec /\ k <= NCapture * nc
  <2>1. NCopies = IF mode.spec THEN NCapture * nc ELSE 0 BY <1>0, PassSizes
  <2> QED BY <1>1, <2>1 DEF Passing
<1>3. /\ c0.capture = (k - 1) \div nc + 1 /\ c0.from = ((k - 1) % nc) * u
      /\ c0.n = Lesser(u, len - c0.from)
  BY DEF CopyNo
<1>4. /\ c0.capture \in 1..NCapture /\ c0.from \in Nat /\ c0.from < len
      /\ D(k, c0.capture) = c0.from /\ D(k + 1, c0.capture) = c0.from + c0.n
      /\ \A c \in 1..NCapture : c # c0.capture => D(k + 1, c) = D(k, c)
  <2> DEFINE cap == (k - 1) \div nc + 1
             from == ((k - 1) % nc) * u
  <2>1. c0.capture = cap /\ c0.from = from /\ c0.n = Lesser(u, len - from) BY <1>3
  <2> HIDE DEF c0, len, u, k, nc
  <2>2. /\ cap \in 1..NCapture /\ from \in Nat /\ from < len
        /\ DoneOf(len, u, nc, k, cap) = from
        /\ DoneOf(len, u, nc, k + 1, cap) = from + Lesser(u, len - from)
        /\ \A c \in 1..NCapture : c # cap => DoneOf(len, u, nc, k + 1, c) = DoneOf(len, u, nc, k, c)
    <3>1. Brings(len, u, nc, NCapture, k) BY <1>1, <1>2, CopyFacts
    <3> QED BY <3>1 DEF Brings
  <2> HIDE DEF cap, from
  <2> QED BY <2>1, <2>2
<1>5. c0.n \in Nat /\ c0.from + c0.n <= len
  <2> HIDE DEF c0, len, u, k, nc
  <2> QED BY <1>1, <1>3, <1>4 DEF Lesser
<1>6. Len(rows) = c0.n /\ \A i \in 1..c0.n : rows[i] = SubSeq(Full, 1, base + c0.from + i)
  <2> DEFINE o == Graph.out
             S == {o[i] : i \in 1..len}
             a == c0.from
             n == c0.n
  <2>1. o = [i \in 1..len |-> o[i]] BY <1>0, PassGraph
  <2>2. \A i \in 1..len : o[i] = Before \o SubSeq(pass.toks, 1, i) BY <1>0, PassRight
  <2>3. \A i \in 0..len : SubSeq(Full, 1, base + i) = Before \o SubSeq(pass.toks, 1, i)
    BY <1>0, PassSizes
  <2>4. \A i \in 1..len : o[i] = SubSeq(Full, 1, base + i)
    <3> HIDE DEF o, len, base, S, rows, a, n
    <3>1. \A i \in 1..len : i \in 0..len BY <1>1
    <3> QED BY <2>2, <2>3, <3>1
  <2>5. rows = SubSeq(o, a + 1, a + n) BY DEF Slice
  <2> HIDE DEF o, rows, a, n, len, base
  <2>6. o \in [1..len -> S] BY <2>1
  <2>7. o \in Seq(S) /\ Len(o) = len
    <3> HIDE DEF S
    <3> QED BY <1>1, <2>6
  <2> HIDE DEF S
  <2>8. a \in Nat /\ n \in Nat /\ a + n <= len BY <1>4, <1>5 DEF a, n
  <2>9. Len(SubSeq(o, a + 1, a + n)) = n /\ \A i \in 1..n : SubSeq(o, a + 1, a + n)[i] = o[a + i]
    <3> DEFINE x == a + 1
               y == a + n
    <3>1. x \in 1..(Len(o) + 1) /\ y \in (x - 1)..Len(o) /\ y - x + 1 = n
      BY <1>1, <2>7, <2>8
    <3>2. /\ Len(SubSeq(o, x, y)) = y - x + 1
          /\ \A i \in 1..(y - x + 1) : SubSeq(o, x, y)[i] = o[x + i - 1]
      <4> HIDE DEF x, y
      <4> QED BY <2>7, <3>1, SubSeqProperties
    <3>3. \A i \in 1..n : x + i - 1 = a + i BY <2>8
    <3> HIDE DEF x, y
    <3> QED BY <3>1, <3>2, <3>3 DEF x, y
  <2>10. ASSUME NEW i \in 1..n PROVE o[a + i] = SubSeq(Full, 1, base + a + i)
    <3>1. a + i \in 1..len /\ base + (a + i) = base + a + i BY <1>1, <2>8
    <3> QED BY <2>4, <3>1
  <2> QED BY <2>5, <2>9, <2>10 DEF a, n
<1>7. Top \in Nat /\ base + len <= Top BY <1>0, <1>2, PassTop
<1>8. \A c \in 1..NCapture : Has(r, Full, base + D(k, c), Top, c) BY DEF CopiedIn
<1> HIDE DEF c0, rows, D, len, u, nc, k
<1>9. ASSUME NEW c \in 1..NCapture PROVE Has(w, Full, base + D(k + 1, c), Top, c)
  <2>1. CASE c = c0.capture
    <3> DEFINE n == base + c0.from
    <3>1. n \in Nat /\ n + Len(rows) <= Top /\ Len(rows) \in Nat BY SMTT(30), <1>1, <1>4, <1>5, <1>6, <1>7
    <3>2. Has(r, Full, n, Top, c) BY <1>4, <1>8, <2>1
    <3>3. \A i \in 1..Len(rows) : rows[i] = SubSeq(Full, 1, n + i) BY <1>6
    <3>4. n + Len(rows) = base + D(k + 1, c) BY <1>1, <1>4, <1>5, <1>6, <2>1
    <3> HIDE DEF n
    <3>5. Has(WriteSlice(r, c, n, rows), Full, n + Len(rows), Top, c)
      BY <1>1, <1>7, <3>1, <3>2, <3>3, SliceRight
    <3> QED BY <2>1, <3>4, <3>5 DEF n
  <2>2. CASE c # c0.capture
    <3>1. Has(r, Full, base + D(k + 1, c), Top, c) BY <1>4, <1>8, <2>2
    <3>2. \A s \in 1..RingCap : w[s][c] = r[s][c] BY <2>2, SliceLayers
    <3> DEFINE n == base + D(k + 1, c)
    <3>3. \A p \in 1..n : Slot(p) \in 1..RingCap
      <4> HIDE DEF n
      <4>1. \A p \in 1..n : p \in Nat \ {0} OBVIOUS
      <4> QED BY <4>1, SlotRange
    <3> HIDE DEF n, w
    <3> QED BY <3>1, <3>2, <3>3 DEF Has, n
  <2> QED BY <2>1, <2>2
<1> QED BY <1>9 DEF CopiedIn, c0, D, len, u, nc, k, rows

\* What is there after a copy was there before it, but for its own rows.
LEMMA CopiedLess ==
  ASSUME RunInv, pass.k > 0, CopyOK, NEW r, CopiedIn(r, pass.k + 1)
  PROVE  CopiedIn(r, pass.k)
<1> DEFINE D(j, c) == DoneOf(Len(pass.toks), pass.ubatch, NChunks, j, c)
           base == pass.base
<1>1. \A c \in 1..NCapture : D(pass.k, c) \in Nat /\ D(pass.k + 1, c) \in Nat
                             /\ D(pass.k, c) <= D(pass.k + 1, c)
  <2> DEFINE len == Len(pass.toks)
             u == pass.ubatch
             nc == NChunks
             k == pass.k
  <2>1. /\ len \in Nat \ {0} /\ u \in Nat \ {0} /\ k \in Nat \ {0} /\ nc \in Nat \ {0}
        /\ nc * u >= len /\ NCapture \in Nat \ {0}
    BY PassSizes
  <2> HIDE DEF len, u, nc, k
  <2>2. k + 1 \in Nat \ {0} BY <2>1
  <2>3. ASSUME NEW c \in 1..NCapture
        PROVE  /\ DoneOf(len, u, nc, k, c) \in 0..len /\ DoneOf(len, u, nc, k + 1, c) \in 0..len
               /\ DoneOf(len, u, nc, k, c) <= DoneOf(len, u, nc, k + 1, c)
    <3>1. Bounds(len, u, nc, NCapture, k, c) /\ Bounds(len, u, nc, NCapture, k + 1, c)
      BY <2>1, <2>2, CopyEnds
    <3> QED BY <3>1 DEF Bounds
  <2>4. \A c \in 1..NCapture : DoneOf(len, u, nc, k, c) \in Nat /\ DoneOf(len, u, nc, k + 1, c) \in Nat
               /\ DoneOf(len, u, nc, k, c) <= DoneOf(len, u, nc, k + 1, c)
    BY <2>1, <2>3
  <2> QED BY <2>4 DEF len, u, nc, k
<1>2. base \in Nat BY PassSizes
<1> HIDE DEF D, base
<1>3. ASSUME NEW c \in 1..NCapture, Has(r, Full, base + D(pass.k + 1, c), Top, c)
      PROVE  Has(r, Full, base + D(pass.k, c), Top, c)
  <2>1. \A p \in 1..(base + D(pass.k, c)) : p \in 1..(base + D(pass.k + 1, c)) BY <1>1, <1>2
  <2> QED BY <1>3, <2>1 DEF Has
<1> QED BY <1>3 DEF CopiedIn, D, base

-----------------------------------------------------------------------------
(* What the calls carry *)

\* Which slice or position the call in progress is about.
ArgsOK ==
  /\ call.op = "start" => run.at = "start"
  /\ call.op = "feature_slice" =>
       LET c == CopyNo(pass.k)
       IN  /\ Passing /\ call.capture = c.capture /\ call.start = pass.base + c.from
           /\ call.data = Slice(c)
  /\ call.op = "propose" => call.start = run.committed /\ call.n = CtxLen

SameArgs(x) == x.capture = call.capture /\ x.start = call.start /\ x.n = call.n

\* What the daemon works on is the call that was made, and its file is there.
SentOK ==
  /\ Exchange /\ call.at \in {"send", "await"} =>
       call.path \in DOMAIN files /\ files[call.path] = call.data
  /\ lines # <<>> /\ child \in Alive => SameArgs(lines[1])
  /\ child \in {"serving", "hidden"} => SameArgs(work)

Seen == ReadRing(features, call.start, call.n)

\* The hidden states were computed from the rows the call asked for.
SeenOK ==
  /\ Two(answers) => answers[2].seen = Seen
  /\ call.at = "payload" /\ answers # <<>> => answers[1].seen = Seen
  /\ call.op = "propose" /\ call.at \in {"remove", "done"} /\ call.ok => call.hidden.seen = Seen

LinkOK == ArgsOK /\ SentOK /\ SeenOK

\* A call that has not been sent, or none, has nothing under way.
LEMMA QuietLink ==
  ASSUME IpcInv', ~Exchange' \/ call'.at = "begin"
  PROVE  SentOK' /\ SeenOK'
<1>1. AnswersOK' /\ LinesOK' /\ DaemonOK' /\ Stations' BY DEF IpcInv
<1>2. ~(Exchange' /\ call'.at \in {"send", "await", "payload", "remove", "done"}) OBVIOUS
<1>3. SentOK' BY <1>1, <1>2 DEF SentOK, LinesOK, DaemonOK, Exchange
<1>4. ~Two(answers)' BY <1>1, <1>2 DEF AnswersOK, Exchange
<1>5. call'.at # "payload" BY <1>1, <1>2 DEF Stations, Exchange
<1>6. SeenOK' BY <1>2, <1>4, <1>5 DEF SeenOK, Exchange
<1> QED BY <1>3, <1>6

\* A step of the client leaves the call's arguments alone, or ends it.
LEMMA ClientArgs ==
  ASSUME IpcInv, ClientStep
  PROVE  \/ call'.op = "none"
         \/ call'.op = call.op /\ call'.capture = call.capture
            /\ call'.start = call.start /\ call'.n = call.n /\ call'.data = call.data
<1> USE DEF IpcInv, IsCall
<1>1. CASE StartDir BY <1>1 DEF StartDir, Ended
<1>2. CASE StartFork BY <1>2 DEF StartFork, Ended
<1>3. CASE StartReady BY <1>3 DEF StartReady, Ended
<1>4. CASE WriteFile BY <1>4 DEF WriteFile, Ended
<1>5. CASE Send BY <1>5 DEF Send, NoCall
<1>6. CASE Await BY <1>6 DEF Await
<1>7. CASE Payload BY ZenonT(40), <1>7 DEF Payload
<1>8. CASE RemoveFile BY <1>8 DEF RemoveFile, Ended
<1>9. CASE ClosePipes BY <1>9 DEF ClosePipes
<1>10. CASE Reap BY <1>10 DEF Reap, Ended
<1> QED BY <1>1, <1>2, <1>3, <1>4, <1>5, <1>6, <1>7, <1>8, <1>9, <1>10 DEF ClientStep

LEMMA ArgsKept ==
  ASSUME ArgsOK, UNCHANGED <<mode, cache, pass, run, out>>,
         \/ call'.op \in {"none", "close"}
         \/ call'.op = call.op /\ call'.capture = call.capture
            /\ call'.start = call.start /\ call'.n = call.n /\ call'.data = call.data
  PROVE  ArgsOK'
BY DEF ArgsOK, Passing, NCopies, NChunks, CopyNo, Slice, Graph, CtxLen

\* The same, between the sending and the reading.
LEMMA StillLink ==
  ASSUME IpcInv', call'.at \in {"send", "remove", "done"},
         call'.at = "send" => call'.path \in DOMAIN files' /\ files'[call'.path] = call'.data,
         call'.op = "propose" /\ call'.at \in {"remove", "done"} /\ call'.ok =>
           call'.hidden.seen = Seen'
  PROVE  SentOK' /\ SeenOK'
<1>1. AnswersOK' /\ LinesOK' /\ DaemonOK' BY DEF IpcInv
<1>2. SentOK' BY <1>1 DEF SentOK, LinesOK, DaemonOK
<1>3. answers' = <<>> /\ ~Two(answers)' BY <1>1, QueueFacts DEF AnswersOK, QueueFactsFor
<1>4. SeenOK' BY <1>3 DEF SeenOK
<1> QED BY <1>2, <1>4

LEMMA WriteFileLink == ASSUME IpcInv, WriteFile, IpcInv' PROVE SentOK' /\ SeenOK'
<1>1. IsCall(call) BY DEF IpcInv
<1>2. \/ call'.at = "done" /\ call'.ok = FALSE
      \/ /\ call'.at = "send" /\ call'.path = client.seq /\ call'.data = call.data
         /\ files' = FilesWith(client.seq, call.data)
  BY <1>1 DEF WriteFile, Ended, IsCall
<1>3. call'.at = "send" => call'.path \in DOMAIN files' /\ files'[call'.path] = call'.data
  BY <1>2 DEF FilesWith
<1> QED BY <1>2, <1>3, StillLink

LEMMA SendLink == ASSUME IpcInv, SentOK, Send, IpcInv' PROVE SentOK' /\ SeenOK'
<1>1. IsCall(call) /\ call.at = "send" /\ AnswersOK /\ LinesOK /\ DaemonOK /\ Stations
      /\ UNCHANGED <<child, work, files, features>>
  BY DEF IpcInv, Send
<1>2. CASE child \in Alive
  <2>1. lines' = Append(lines, call) /\ call' = [call EXCEPT !.at = "await"] /\ answers' = answers
    BY <1>2 DEF Send
  <2>2. lines = <<>> /\ child \notin {"serving", "hidden"} /\ answers = <<>> /\ Exchange
    BY <1>1, <1>2 DEF AnswersOK, LinesOK, DaemonOK, Stations, Exchange
  <2>3. lines'[1] = call BY <2>1, <2>2, QueueFacts DEF QueueFactsFor
  <2>4. /\ call'.at = "await" /\ call'.capture = call.capture /\ call'.start = call.start
        /\ call'.n = call.n /\ call'.path = call.path /\ call'.data = call.data
    BY <1>1, <2>1 DEF IsCall
  <2>5. call.path \in DOMAIN files /\ files[call.path] = call.data BY <1>1, <2>2 DEF SentOK
  <2>6. SentOK' BY <1>1, <2>2, <2>3, <2>4, <2>5 DEF SentOK, SameArgs
  <2>7. ~Two(answers') BY <2>1, <2>2, QueueFacts DEF QueueFactsFor
  <2>8. SeenOK' BY <2>4, <2>7 DEF SeenOK
  <2> QED BY <2>6, <2>8
<1>3. CASE child \notin Alive
  <2>1. call'.op = "none" BY <1>3 DEF Send, NoCall
  <2> QED BY <2>1, QuietLink DEF Exchange
<1> QED BY <1>2, <1>3

LEMMA AwaitLink == ASSUME IpcInv, SentOK, SeenOK, Await, IpcInv' PROVE SentOK' /\ SeenOK'
<1>1. /\ IsCall(call) /\ Exchange /\ call.at = "await" /\ AnswersOK
      /\ UNCHANGED <<child, lines, work, files, features>>
  BY DEF IpcInv, Await, Exchange
<1>2. CASE call'.at = "remove"
  <2>1. call'.op = "propose" => call'.ok = FALSE
    <3>1. CASE call' = [call EXCEPT !.at = "remove", !.ok = FALSE] BY <1>1, <3>1 DEF IsCall
    <3>2. CASE /\ ~(Head(answers).status = 0 /\ call.op = "propose")
               /\ call' = [call EXCEPT !.at = "remove", !.ok = Head(answers).status = 0]
      BY <1>1, <3>2 DEF IsCall
    <3>3. CASE call' = [call EXCEPT !.at = "payload"] BY <1>1, <1>2, <3>3 DEF IsCall
    <3> QED BY <3>1, <3>2, <3>3 DEF Await
  <2> QED BY <1>2, <2>1, StillLink
<1>3. CASE call'.at # "remove"
  <2>1. /\ answers # <<>> /\ answers' = Tail(answers) /\ call' = [call EXCEPT !.at = "payload"]
        /\ call.op = "propose"
    <3>1. CASE call' = [call EXCEPT !.at = "remove", !.ok = FALSE]
      <4>1. call'.at = "remove" BY <1>1, <3>1 DEF IsCall
      <4> QED BY <1>3, <4>1
    <3>2. CASE call' = [call EXCEPT !.at = "remove", !.ok = Head(answers).status = 0]
      <4>1. call'.at = "remove" BY <1>1, <3>2 DEF IsCall
      <4> QED BY <1>3, <4>1
    <3> QED BY <3>1, <3>2 DEF Await
  <2>2. /\ call'.at = "payload" /\ call'.capture = call.capture /\ call'.start = call.start
        /\ call'.n = call.n /\ call'.path = call.path
    BY <1>1, <2>1 DEF IsCall
  <2>3. child # "serving" /\ (child \in Alive => lines = <<>>) BY <1>1, <2>1, AwaitFacts
  <2>4. SentOK' BY <1>1, <2>2, <2>3 DEF SentOK, SameArgs
  <2>5. Seen' = Seen BY <1>1, <2>2 DEF Seen
  <2>6. CASE One(answers)
    <3>1. answers' = <<>> /\ ~Two(answers') BY <2>1, <2>6, QueueFacts DEF QueueFactsFor
    <3> QED BY <2>2, <2>4, <3>1 DEF SeenOK
  <2>7. CASE Two(answers)
    <3>1. answers'[1] = answers[2] /\ One(answers') BY <2>1, <2>7, QueueFacts DEF QueueFactsFor
    <3>2. ~Two(answers') BY <3>1, QueueFacts DEF QueueFactsFor
    <3>3. answers[2].seen = Seen BY <2>7 DEF SeenOK
    <3> QED BY <2>2, <2>4, <2>5, <3>1, <3>2, <3>3 DEF SeenOK
  <2> QED BY <1>1, <2>1, <2>6, <2>7 DEF AnswersOK
<1> QED BY <1>2, <1>3

LEMMA PayloadLink == ASSUME IpcInv, SeenOK, Payload, IpcInv' PROVE SentOK' /\ SeenOK'
<1>1. /\ IsCall(call) /\ call.at = "payload" /\ Exchange /\ UNCHANGED features
  BY DEF IpcInv, Payload, Stations, Exchange
<1>2. CASE answers # <<>> /\ call' = [call EXCEPT !.at = "remove", !.ok = TRUE, !.hidden = Head(answers)]
  <2>1. Head(answers) = answers[1] BY <1>1, <1>2, AwaitFacts
  <2>2. /\ call'.at = "remove" /\ call'.hidden = answers[1] /\ call'.start = call.start
        /\ call'.n = call.n
    BY <1>1, <1>2, <2>1 DEF IsCall
  <2>3. call'.hidden.seen = Seen' BY <1>1, <1>2, <2>2 DEF SeenOK, Seen
  <2> QED BY <2>2, <2>3, StillLink
<1>3. CASE call' = [call EXCEPT !.at = "remove", !.ok = FALSE]
  <2>1. call'.at = "remove" /\ call'.ok = FALSE BY <1>1, <1>3 DEF IsCall
  <2> QED BY <2>1, StillLink
<1> QED BY <1>2, <1>3 DEF Payload

LEMMA RemoveFileLink == ASSUME IpcInv, SeenOK, RemoveFile, IpcInv' PROVE SentOK' /\ SeenOK'
<1>1. /\ IsCall(call) /\ call.at = "remove" /\ UNCHANGED features
      /\ call' = [call EXCEPT !.at = "done", !.ok = call.ok]
  BY DEF IpcInv, RemoveFile, Ended
<1>2. /\ call'.at = "done" /\ call'.hidden = call.hidden /\ call'.start = call.start
      /\ call'.n = call.n /\ call'.op = call.op /\ call'.ok = call.ok
  BY <1>1 DEF IsCall
<1>3. call'.op = "propose" /\ call'.ok => call'.hidden.seen = Seen' BY <1>1, <1>2 DEF SeenOK, Seen
<1> QED BY <1>2, <1>3, StillLink

LEMMA ClientLink ==
  ASSUME IpcInv, LinkOK, ClientStep, KeepParent
  PROVE  LinkOK'
<1>1. IpcInv' BY ClientIpc
<1>2. ArgsOK' BY ClientArgs, ArgsKept DEF LinkOK, KeepParent
<1>3. SentOK' /\ SeenOK'
  <2>1. CASE WriteFile BY <1>1, <2>1, WriteFileLink
  <2>2. CASE Send BY <1>1, <2>2, SendLink DEF LinkOK
  <2>3. CASE Await BY <1>1, <2>3, AwaitLink DEF LinkOK
  <2>4. CASE Payload BY <1>1, <2>4, PayloadLink DEF LinkOK
  <2>5. CASE RemoveFile BY <1>1, <2>5, RemoveFileLink DEF LinkOK
  <2>6. CASE StartDir \/ StartFork \/ StartReady \/ ClosePipes \/ Reap
    <3>1. call.op \in {"start", "close"}
      BY <2>6 DEF StartDir, StartFork, StartReady, ClosePipes, Reap, IpcInv, Stations
    <3>2. ~Exchange' BY <3>1, ClientOp DEF Exchange
    <3> QED BY <1>1, <3>2, QuietLink
  <2> QED BY <2>1, <2>2, <2>3, <2>4, <2>5, <2>6 DEF ClientStep
<1> QED BY <1>2, <1>3 DEF LinkOK

LEMMA DaemonLink ==
  ASSUME IpcInv, LinkOK, DaemonStep \/ Crash, KeepParent
  PROVE  LinkOK'
<1>1. IpcInv' BY DaemonIpc, CrashOK
<1>2. call' = call
  BY DEF DaemonStep, Ready, ReadLine, ServeSlice, ServePropose, SendHidden, Crash
<1>3. ArgsOK' BY <1>2, ArgsKept DEF LinkOK, KeepParent
<1>4. SentOK /\ SeenOK /\ AnswersOK /\ LinesOK /\ DaemonOK BY DEF LinkOK, IpcInv
<1>5. CASE Ready
  <2>1. ~Exchange' BY <1>2, <1>4, <1>5 DEF Ready, DaemonOK, Exchange
  <2> QED BY <1>1, <1>3, <2>1, QuietLink DEF LinkOK
<1>6. CASE ReadLine
  <2>1. /\ UNCHANGED <<answers, files, features>> /\ child = "waiting"
    BY <1>6 DEF ReadLine
  <2>2. SeenOK' BY <1>2, <1>4, <2>1 DEF SeenOK, Seen
  <2>3. CASE lines # <<>>
    <3>1. work' = Head(lines) /\ lines' = Tail(lines) /\ child' = "serving"
      BY <1>6, <2>3 DEF ReadLine
    <3>2. One(lines) /\ SameArgs(lines[1]) BY <1>4, <2>1, <2>3 DEF LinesOK, SentOK, Alive
    <3>3. work' = lines[1] /\ lines' = <<>> BY <3>1, <3>2, QueueFacts DEF QueueFactsFor
    <3>4. SentOK' BY <1>2, <1>4, <2>1, <3>1, <3>2, <3>3 DEF SentOK, SameArgs, Exchange
    <3> QED BY <1>3, <2>2, <3>4 DEF LinkOK
  <2>4. CASE lines = <<>>
    <3>1. UNCHANGED <<lines, work>> /\ child' = "zombie" BY <1>6, <2>4 DEF ReadLine
    <3>2. SentOK' BY <1>2, <1>4, <2>1, <2>4, <3>1 DEF SentOK, SameArgs, Exchange
    <3> QED BY <1>3, <2>2, <3>2 DEF LinkOK
  <2> QED BY <2>3, <2>4
<1>7. CASE ServeSlice
  <2>1. /\ UNCHANGED <<lines, work, files>> /\ call.op = "feature_slice" /\ lines = <<>>
        /\ child' \in {"waiting", "zombie"}
    BY <1>4, <1>7 DEF ServeSlice, DaemonOK, Same, LinesOK, Put, Alive
  <2>2. SentOK' BY <1>2, <1>4, <2>1 DEF SentOK, SameArgs, Exchange
  <2>3. SeenOK' BY <1>1, <1>2, <2>1 DEF SeenOK, IpcInv, AnswersOK, Stations
  <2> QED BY <1>3, <2>2, <2>3 DEF LinkOK
<1>8. CASE ServePropose
  <2>1. /\ UNCHANGED <<lines, work, files, features>> /\ call.op = "propose" /\ lines = <<>>
        /\ answers = <<>> /\ call.at = "await" /\ SameArgs(work)
        /\ \E w : answers' = answers \/ answers' = Append(answers, w)
    BY <1>4, <1>8 DEF ServePropose, DaemonOK, Same, LinesOK, Put, Alive, SentOK
  <2>2. SentOK' BY <1>2, <1>4, <2>1 DEF SentOK, SameArgs, Exchange
  <2>3. ~Two(answers') BY <2>1, QueueFacts DEF QueueFactsFor
  <2>4. SeenOK' BY <1>2, <2>1, <2>3 DEF SeenOK
  <2> QED BY <1>3, <2>2, <2>4 DEF LinkOK
<1>9. CASE SendHidden
  <2> DEFINE w == [Answer(0) EXCEPT !.seen = ReadRing(features, work.start, work.n)]
  <2>1. /\ UNCHANGED <<lines, work, files, features>> /\ call.op = "propose" /\ lines = <<>>
        /\ child = "hidden" /\ SameArgs(work) /\ child' \in {"waiting", "zombie"}
        /\ answers' = answers \/ answers' = Append(answers, w)
        /\ \/ call.at = "payload" /\ answers = <<>>
           \/ call.at = "await" /\ One(answers)
    BY <1>4, <1>9 DEF SendHidden, DaemonOK, LinesOK, Put, Alive, SentOK
  <2>2. SentOK' BY <1>2, <1>4, <2>1 DEF SentOK, SameArgs, Exchange
  <2>3. w.seen = Seen BY <2>1 DEF Answer, SameArgs, Seen
  <2> HIDE DEF w
  <2>4. Seen' = Seen BY <1>2, <2>1 DEF Seen
  <2>5. CASE answers' = answers BY <1>2, <1>4, <2>2, <2>4, <2>5, <1>3 DEF SeenOK, LinkOK
  <2>6. CASE answers' = Append(answers, w) /\ answers = <<>>
    <3>1. One(answers') /\ answers'[1] = w BY <2>6, QueueFacts DEF QueueFactsFor
    <3>2. ~Two(answers') BY <3>1, QueueFacts DEF QueueFactsFor
    <3>3. SeenOK' BY <1>2, <1>4, <2>1, <2>3, <2>4, <3>1, <3>2 DEF SeenOK
    <3> QED BY <1>3, <2>2, <3>3 DEF LinkOK
  <2>7. CASE answers' = Append(answers, w) /\ One(answers) /\ call.at = "await"
    <3>1. answers'[2] = w BY <2>7, QueueFacts DEF QueueFactsFor
    <3>2. SeenOK' BY <1>2, <1>4, <2>3, <2>4, <2>7, <3>1 DEF SeenOK
    <3> QED BY <1>3, <2>2, <3>2 DEF LinkOK
  <2> QED BY <2>1, <2>5, <2>6, <2>7
<1>10. CASE Crash
  <2>1. UNCHANGED <<lines, answers, work, files, features>> /\ child' = "zombie"
    BY <1>10 DEF Crash
  <2>2. SentOK' BY <1>2, <1>4, <2>1 DEF SentOK, SameArgs, Exchange, Alive
  <2>3. SeenOK' BY <1>2, <1>4, <2>1 DEF SeenOK, Seen
  <2> QED BY <1>3, <2>2, <2>3 DEF LinkOK
<1> QED BY <1>5, <1>6, <1>7, <1>8, <1>9, <1>10 DEF DaemonStep

\* Where the parent goes on by itself no call is under way, but for a close.
LEMMA NoCallUnderWay ==
  ASSUME Inv, ArgsOK, run.at # "start",
         call.at = "idle" \/ ~mode.remote
         \/ (pass.k = 0 /\ (run.at = "draft" => Finished))
  PROVE  call.op \in {"none", "close"}
<1>1. call.op \in {"none", "start", "feature_slice", "propose", "close"} /\ Stations /\ ModeOK
  BY DEF Inv, IpcInv, RunInv, Stations
<1>2. CASE call.at = "idle" BY <1>1, <1>2 DEF Stations
<1>3. CASE ~mode.remote BY <1>1, <1>3 DEF ModeOK, NoCall
<1>4. CASE pass.k = 0 /\ (run.at = "draft" => Finished)
  <2>1. call.op # "start" BY DEF ArgsOK
  <2>2. call.op # "feature_slice" BY <1>4 DEF ArgsOK, Passing
  <2>3. call.op # "propose"
    <3> SUFFICES ASSUME call.op = "propose" PROVE FALSE OBVIOUS
    <3>1. run.at = "draft" /\ run.n < run.n_gen BY <1>1 DEF ModeOK
    <3>2. run.n \in Nat /\ run.n_gen \in Nat BY <3>1, OutFacts DEF Inv, Working
    <3> QED BY <1>4, <3>1, <3>2 DEF Finished
  <2> QED BY <1>1, <2>1, <2>2, <2>3
<1> QED BY <1>2, <1>3, <1>4

LEMMA ParentLink ==
  ASSUME Inv, ArgsOK, Parent \/ Request \/ RejectLine \/ Leave, IpcInv'
  PROVE  LinkOK'
<1>1. ModeOK /\ Shapes /\ RunInv BY DEF Inv, RunInv
<1>2. ASSUME call'.op \in {"none", "close"} PROVE LinkOK'
  <2>1. ArgsOK' BY <1>2 DEF ArgsOK
  <2> QED BY <1>2, <2>1, QuietLink DEF LinkOK, Exchange
<1>3. NoCall.op = "none" BY DEF NoCall
<1>4. CASE Begin
  <2>1. CASE mode.remote
    <3>1. call' = [NoCall EXCEPT !.op = "start", !.at = "begin"] /\ run' = [run EXCEPT !.at = "start"]
      BY <1>4, <2>1 DEF Begin
    <3>2. call'.op = "start" BY <3>1 DEF NoCall
    <3>3. run'.at = "start" BY <1>1, <3>1 DEF Shapes, IsRun
    <3>4. ArgsOK' BY <3>2, <3>3 DEF ArgsOK
    <3> QED BY <3>2, <3>4, QuietLink DEF LinkOK, Exchange
  <2>2. CASE ~mode.remote
    <3>1. call' = NoCall BY <1>1, <1>4, <2>2 DEF Begin, ModeOK
    <3> QED BY <1>2, <1>3, <3>1
  <2> QED BY <2>1, <2>2
<1>5. CASE Started \/ CopiedRemote \/ PassFails \/ Proposed
  BY <1>2, <1>3, <1>5 DEF Started, CopiedRemote, PassFails, Proposed
<1>6. CASE CopyRemote
  <2> DEFINE c == CopyNo(pass.k)
  <2>1. /\ Passing /\ UNCHANGED <<mode, cache, pass, run, out>>
        /\ call' = [NoCall EXCEPT !.op = "feature_slice", !.at = "begin", !.capture = c.capture,
                                  !.start = pass.base + c.from, !.n = c.n, !.data = Slice(c)]
    BY <1>6 DEF CopyRemote
  <2>2. /\ call'.op = "feature_slice" /\ call'.at = "begin" /\ call'.capture = c.capture
        /\ call'.start = pass.base + c.from /\ call'.data = Slice(c)
    BY <2>1 DEF NoCall
  <2>3. Passing' /\ CopyNo(pass.k)' = c /\ Slice(CopyNo(pass.k))' = Slice(c)
    BY <2>1 DEF Passing, NCopies, NChunks, CopyNo, Slice, Graph
  <2>4. ArgsOK' BY <2>1, <2>2, <2>3 DEF ArgsOK
  <2> QED BY <2>2, <2>4, QuietLink DEF LinkOK
<1>7. CASE Propose
  <2>1. /\ UNCHANGED <<mode, cache, pass, run, out>>
        /\ call' = [NoCall EXCEPT !.op = "propose", !.at = "begin", !.start = run.committed,
                                  !.n = CtxLen, !.data = <<Junk>>]
    BY <1>7 DEF Propose
  <2>2. /\ call'.op = "propose" /\ call'.at = "begin" /\ call'.start = run.committed
        /\ call'.n = CtxLen
    BY <2>1 DEF NoCall
  <2>3. ArgsOK' BY <2>1, <2>2 DEF ArgsOK, CtxLen
  <2> QED BY <2>2, <2>3, QuietLink DEF LinkOK
<1>8. CASE Close
  <2>1. call'.op = "close" BY <1>8 DEF Close, NoCall
  <2> QED BY <1>2, <2>1
<1>9. CASE CopyLocal
  <2>1. call' = NoCall
    <3>1. call' = call /\ ~mode.remote BY <1>9 DEF CopyLocal
    <3> QED BY <1>1, <3>1 DEF ModeOK
  <2> QED BY <1>2, <1>3, <2>1
<1>10. CASE Prefilled \/ Verified \/ Replayed \/ ArStepped
  <2>1. call' = call /\ call.at = "idle" /\ run.at # "start"
    BY ZenonT(40), <1>10 DEF Prefilled, Verified, Replayed, ArStepped, PassDone, KeepIpc, ipcVars
  <2>2. call.op \in {"none", "close"} BY <1>1, <2>1, NoCallUnderWay
  <2> QED BY <1>2, <2>1, <2>2
<1>11. CASE SpecEnd \/ DraftLocal
  <2>1. call' = call /\ run.at = "draft" /\ (Finished \/ ~mode.remote)
    BY <1>11 DEF SpecEnd, DraftLocal, KeepIpc, ipcVars
  <2>2. pass.k = 0 BY <1>1, <2>1 DEF RunInv, PassOK, Working
  <2>3. call.op \in {"none", "close"} BY <1>1, <2>1, <2>2, NoCallUnderWay
  <2> QED BY <1>2, <2>1, <2>3
<1>12. CASE ArBegin
  <2>1. call' = call /\ run.at = "ar" /\ pass.k = 0 BY <1>12 DEF ArBegin, KeepIpc, ipcVars
  <2>2. call.op \in {"none", "close"} BY <1>1, <2>1, NoCallUnderWay
  <2> QED BY <1>2, <2>1, <2>2
<1>13. CASE Answered \/ Exit \/ Leave \/ Request \/ RejectLine
  <2>1. call' = call /\ run.at \in {"returned", "closing", "idle"}
    BY ZenonT(40), <1>13 DEF Answered, Exit, Leave, Request, RejectLine, KeepIpc, ipcVars
  <2>2. pass.k = 0 BY <1>1, <2>1 DEF Shapes, Working
  <2>3. call.op \in {"none", "close"} BY <1>1, <2>1, <2>2, NoCallUnderWay
  <2> QED BY <1>2, <2>1, <2>3
<1> QED BY <1>4, <1>5, <1>6, <1>7, <1>8, <1>9, <1>10, <1>11, <1>12, <1>13 DEF Parent

LEMMA SameLink == ASSUME LinkOK, UNCHANGED vars PROVE LinkOK'
<1>1. /\ UNCHANGED <<client, call, child, lines, piped, answers, work, files, features>>
      /\ UNCHANGED <<mode, cache, pass, run, out>>
  BY DEF vars, ipcVars
<1>2. ArgsOK' BY <1>1, ArgsKept DEF LinkOK
<1>3. SentOK' BY <1>1 DEF LinkOK, SentOK, SameArgs, Exchange
<1>4. SeenOK' BY <1>1 DEF LinkOK, SeenOK, Seen
<1> QED BY <1>2, <1>3, <1>4 DEF LinkOK

LEMMA NextLink == ASSUME Inv, LinkOK, [Next]_vars PROVE LinkOK'
<1>1. IpcInv /\ IpcInv' /\ ArgsOK BY NextInv DEF Inv, LinkOK
<1>2. CASE Parent \/ Request \/ RejectLine \/ Leave BY <1>1, <1>2, ParentLink
<1>3. CASE ClientStep /\ KeepParent BY <1>1, <1>3, ClientLink
<1>4. CASE (DaemonStep \/ Crash) /\ KeepParent BY <1>1, <1>4, DaemonLink
<1>5. CASE UNCHANGED vars BY <1>5, SameLink
<1> QED BY <1>2, <1>3, <1>4, <1>5 DEF Next, ParentWork, DaemonWork, Over

-----------------------------------------------------------------------------
(* What the draft's ring holds *)

\* The daemon has written the slice of the call in progress.
Served ==
  /\ call.op = "feature_slice"
  /\ \/ call.at = "await" /\ answers # <<>> /\ answers[1].status = 0
     \/ call.at \in {"remove", "done"} /\ call.ok

HasAll(r, ctx, top) == \A c \in 1..NCapture : Has(r, ctx, Len(ctx), top, c)

\* While a pass goes on, what its copies have brought.
CopiedOK ==
  pass.k > 0 /\ mode.spec /\ Fits =>
    CopiedIn(features, pass.k) /\ (Served => CopiedIn(features, pass.k + 1))

\* Before a block is drafted, the whole context.
DraftOK ==
  run.at = "draft" /\ Fits =>
    /\ HasAll(features, Ctx, run.top)
    /\ run.top \in Nat /\ run.top <= run.committed + QLen

\* Rows that are the features of the last positions of a context.
ReadsRight(seen, ctx, n, top) ==
  \A i \in 1..n :
    (Len(ctx) - n + i) - 1 + RingCap >= top =>
      \A c \in 1..NCapture : seen[i][c] = SubSeq(ctx, 1, Len(ctx) - n + i)

\* What was read for the block being verified.
SeenRight(seen) == ReadsRight(seen, Ctx, Len(seen), run.top)

ReadOK == run.at = "verify" /\ Fits => SeenRight(run.seen)

TopOK == run.at = "replay" => run.top = run.committed + QLen

RingOK == CopyOK /\ CopiedOK /\ DraftOK /\ ReadOK /\ TopOK

LEMMA CopiedSame ==
  ASSUME KeepParent, NEW r, NEW k, CopiedIn(r, k)
  PROVE  CopiedIn(r, k)'
BY DEF KeepParent, CopiedIn, Full, Before, Ctx, Top, NChunks

LEMMA RestSame == ASSUME RingOK, KeepParent PROVE CopyOK' /\ ReadOK' /\ TopOK'
<1>1. Fits' <=> Fits BY DEF Fits, KeepParent
<1>2. CopyOK' /\ TopOK' BY DEF RingOK, CopyOK, TopOK, KeepParent
<1>3. Ctx' = Ctx /\ run' = run BY DEF Ctx, KeepParent
<1>4. ReadOK' BY <1>1, <1>3 DEF RingOK, ReadOK, SeenRight, ReadsRight
<1> QED BY <1>2, <1>4

\* Steps that leave the ring and the request as they are.
LEMMA RingKept ==
  ASSUME RingOK, KeepParent, features' = features, Served' => Served
  PROVE  RingOK'
<1>1. CopyOK' /\ ReadOK' /\ TopOK' BY RestSame
<1>2. UNCHANGED <<mode, cache, pass, run, out>> BY DEF KeepParent
<1>3. Fits' <=> Fits BY <1>2 DEF Fits
<1>4. CopiedOK'
  <2> SUFFICES ASSUME pass.k > 0, mode.spec, Fits
               PROVE  CopiedIn(features, pass.k)' /\ (Served' => CopiedIn(features, pass.k + 1)')
    BY <1>2, <1>3 DEF CopiedOK
  <2>1. CopiedIn(features, pass.k) /\ (Served => CopiedIn(features, pass.k + 1))
    BY DEF RingOK, CopiedOK
  <2>2. PICK r, k : r = features /\ k = pass.k OBVIOUS
  <2>3. CopiedIn(r, k)' /\ (Served => CopiedIn(r, k + 1)') BY <2>1, <2>2, CopiedSame
  <2>4. features' = r /\ pass'.k = k BY <1>2, <2>2
  <2> QED BY <2>3, <2>4 DEF CopiedIn
<1>5. DraftOK'
  <2>1. DraftOK BY DEF RingOK
  <2>2. Ctx' = Ctx /\ run' = run BY <1>2 DEF Ctx
  <2> QED BY <1>3, <2>1, <2>2 DEF DraftOK, HasAll, Has
<1> QED BY <1>1, <1>4, <1>5 DEF RingOK

\* The client believes a slice has been written only if it was.
LEMMA ClientServed == ASSUME IpcInv, ClientStep, Served' PROVE Served
<1>1. IsCall(call) /\ AnswersOK /\ Stations BY DEF IpcInv
<1>2. call.op = "feature_slice" BY ClientOp DEF Served
<1>3. CASE WriteFile
  <2>1. call'.at = "send" \/ (call'.at = "done" /\ call'.ok = FALSE)
    BY <1>1, <1>3 DEF WriteFile, Ended, IsCall
  <2> QED BY <2>1 DEF Served
<1>4. CASE Send
  <2>1. CASE child \in Alive
    <3>1. answers = <<>> BY <1>1, <1>4 DEF AnswersOK, Send
    <3>2. answers' = <<>> /\ call'.at = "await" BY <1>1, <1>4, <2>1, <3>1 DEF Send, IsCall
    <3> QED BY <3>2 DEF Served
  <2>2. CASE child \notin Alive
    <3>1. call'.op = "none" BY <1>4, <2>2 DEF Send, NoCall
    <3> QED BY <3>1 DEF Served
  <2> QED BY <2>1, <2>2
<1>5. CASE Await
  <2>1. CASE call' = [call EXCEPT !.at = "remove", !.ok = FALSE]
    <3>1. call'.at = "remove" /\ call'.ok = FALSE BY <1>1, <2>1 DEF IsCall
    <3> QED BY <3>1 DEF Served
  <2>2. CASE answers # <<>> /\ call' = [call EXCEPT !.at = "remove", !.ok = Head(answers).status = 0]
    <3>1. call'.at = "remove" /\ call'.ok = (Head(answers).status = 0) BY <1>1, <2>2 DEF IsCall
    <3>2. Head(answers) = answers[1] BY <1>1, <2>2, QueueFacts DEF AnswersOK, QueueFactsFor
    <3> QED BY <1>2, <1>5, <2>2, <3>1, <3>2 DEF Served, Await
  <2> QED BY <1>2, <1>5, <2>1, <2>2 DEF Await
<1>6. CASE RemoveFile
  <2>1. call'.at = "done" /\ call'.ok = call.ok BY <1>1, <1>6 DEF RemoveFile, Ended, IsCall
  <2> QED BY <1>2, <1>6, <2>1 DEF Served, RemoveFile
<1>7. CASE Payload BY <1>1, <1>2, <1>7 DEF Payload, Stations
<1>8. CASE StartDir \/ StartFork \/ StartReady \/ ClosePipes \/ Reap
  BY <1>1, <1>2, <1>8 DEF StartDir, StartFork, StartReady, ClosePipes, Reap, Stations
<1> QED BY <1>3, <1>4, <1>5, <1>6, <1>7, <1>8 DEF ClientStep

LEMMA ClientRing == ASSUME Inv, RingOK, ClientStep, KeepParent PROVE RingOK'
<1>1. features' = features
  BY DEF ClientStep, StartDir, StartFork, StartReady, WriteFile, Send, Await, Payload, RemoveFile,
         ClosePipes, Reap
<1>2. Served' => Served BY ClientServed DEF Inv
<1> QED BY <1>1, <1>2, RingKept

LEMMA ServeSliceRing ==
  ASSUME Inv, LinkOK, RingOK, ServeSlice, KeepParent
  PROVE  RingOK'
<1>1. /\ child = "serving" /\ UNCHANGED <<client, call, lines, piped, work, files>>
      /\ work.op = "feature_slice"
  BY DEF ServeSlice
<1>2. /\ Same(work) /\ SameArgs(work) /\ Exchange /\ call.at = "await" /\ answers = <<>>
      /\ files[call.path] = call.data
  BY <1>1 DEF Inv, IpcInv, DaemonOK, LinkOK, SentOK
<1> DEFINE c == CopyNo(pass.k)
<1>3. /\ call.op = "feature_slice" /\ Passing /\ work.capture = c.capture
      /\ work.start = pass.base + c.from /\ files[work.path] = Slice(c)
  BY <1>1, <1>2 DEF Same, SameArgs, LinkOK, ArgsOK
<1>4. pass.k > 0 /\ RunInv /\ CopyOK /\ CopiedOK BY <1>3 DEF Passing, Inv, RingOK
<1>5. mode.spec
  <2>1. mode.spec \in BOOLEAN /\ pass.k \in Nat BY <1>4, RunFields DEF RunInv, ModeOK, IsPass
  <2> QED BY <1>3, <1>4, <2>1 DEF Passing, NCopies
<1>6. CASE features' = features /\ Put(Answer(-1), "waiting")
  <2>1. answers' = <<>> \/ answers' = Append(<<>>, Answer(-1)) BY <1>2, <1>6 DEF Put
  <2>2. answers' # <<>> => answers'[1] = Answer(-1) BY <2>1, QueueFacts DEF QueueFactsFor
  <2>3. Answer(-1).status = -1 BY DEF Answer
  <2>4. ~Served' BY <1>1, <1>2, <2>2, <2>3 DEF Served
  <2> QED BY <1>6, <2>4, RingKept
<1>7. CASE features' = WriteSlice(features, work.capture, work.start, files[work.path])
  <2>1. CopyOK' /\ ReadOK' /\ TopOK' BY RestSame
  <2>2. UNCHANGED <<mode, cache, pass, run, out>> BY DEF KeepParent
  <2>3. Fits' <=> Fits BY <2>2 DEF Fits
  <2>4. DraftOK'
    <3>1. run.at # "draft" BY <1>4, PassFacts
    <3> QED BY <2>2, <3>1 DEF DraftOK
  <2>5. CopiedOK'
    <3> SUFFICES ASSUME Fits PROVE CopiedIn(features, pass.k)' /\ CopiedIn(features, pass.k + 1)'
      BY <2>3 DEF CopiedOK
    <3>1. IsRing(features) BY DEF Inv, IpcInv, FeaturesOK, IsRing
    <3>2. CopiedIn(features, pass.k) BY <1>4, <1>5 DEF CopiedOK
    <3>3. PICK r, k : r = features' /\ k = pass.k OBVIOUS
    <3>4. CopiedIn(WriteSlice(features, c.capture, pass.base + c.from, Slice(c)), pass.k + 1)
      BY <1>3, <1>4, <3>1, <3>2, CopyStep
    <3>5. r = WriteSlice(features, c.capture, pass.base + c.from, Slice(c))
      BY <1>3, <1>7, <3>3
    <3> HIDE DEF c
    <3>6. CopiedIn(r, pass.k + 1) BY <3>4, <3>5
    <3>7. CopiedIn(r, pass.k) BY <1>4, <3>6, CopiedLess
    <3>8. CopiedIn(r, k)' /\ CopiedIn(r, k + 1)' BY <3>3, <3>6, <3>7, CopiedSame
    <3>9. features' = r /\ pass'.k = k BY <2>2, <3>3
    <3> QED BY <3>8, <3>9 DEF CopiedIn
  <2> QED BY <2>1, <2>4, <2>5 DEF RingOK
<1> QED BY <1>6, <1>7 DEF ServeSlice

LEMMA DaemonRing ==
  ASSUME Inv, LinkOK, RingOK, DaemonStep \/ Crash, KeepParent
  PROVE  RingOK'
<1>1. DaemonOK /\ Stations BY DEF Inv, IpcInv
<1>2. CASE ServeSlice BY <1>2, ServeSliceRing
<1>3. CASE ReadLine \/ Crash
  <2>1. UNCHANGED <<call, answers, features>> BY <1>3 DEF ReadLine, Crash
  <2>2. Served' => Served BY <2>1 DEF Served
  <2> QED BY <2>1, <2>2, RingKept
<1>4. CASE ServePropose \/ SendHidden
  <2>1. UNCHANGED <<call, features>> /\ call.op = "propose"
    BY <1>1, <1>4 DEF ServePropose, SendHidden, DaemonOK, Same
  <2>2. ~Served' BY <2>1 DEF Served
  <2> QED BY <2>1, <2>2, RingKept
<1>5. CASE Ready
  <2>1. call' = call /\ call.op = "start" BY <1>1, <1>5 DEF Ready, DaemonOK
  <2>2. run.at = "start" BY <2>1 DEF LinkOK, ArgsOK
  <2>3. pass.k = 0 BY <2>2 DEF Inv, RunInv, Shapes, Working
  <2>4. run'.at = "start" /\ pass'.k = 0 BY <2>2, <2>3 DEF KeepParent
  <2> QED BY <2>4 DEF RingOK, CopyOK, CopiedOK, DraftOK, ReadOK, TopOK
<1> QED BY <1>2, <1>3, <1>4, <1>5 DEF DaemonStep

-----------------------------------------------------------------------------
(* From one pass to the next *)

LEMMA NoRing ==
  ASSUME pass'.k = 0, run'.at \notin {"draft", "verify", "replay"}
  PROVE  RingOK'
BY DEF RingOK, CopyOK, CopiedOK, DraftOK, ReadOK, TopOK

\* A pass whose copies are all made.
LEMMA AllCopied ==
  ASSUME RunInv, CopyOK, CopiedOK, pass.k > NCopies, pass.k > 0, mode.spec, Fits
  PROVE  HasAll(features, Full, Top)
<1> DEFINE len == Len(pass.toks)
           u == pass.ubatch
           nc == NChunks
           k == pass.k
           g == NCapture
<1>1. /\ len \in Nat \ {0} /\ u \in Nat \ {0} /\ k \in Nat \ {0} /\ nc \in Nat \ {0}
      /\ nc * u >= len /\ g \in Nat \ {0} /\ k > g * nc
      /\ Len(Full) = pass.base + len
  BY PassSizes
<1>2. ASSUME NEW c \in 1..NCapture PROVE DoneOf(len, u, nc, k, c) = len
  <2>1. c \in 1..g OBVIOUS
  <2> HIDE DEF len, u, nc, k, g
  <2>2. Bounds(len, u, nc, g, k, c) BY <1>1, <2>1, CopyEnds
  <2> QED BY <1>1, <2>2 DEF Bounds
<1>3. \A c \in 1..NCapture : Has(features, Full, pass.base + DoneOf(len, u, nc, k, c), Top, c)
  BY DEF CopiedOK, CopiedIn
<1> HIDE DEF len, u, nc, k
<1> QED BY <1>1, <1>2, <1>3 DEF HasAll

\* A pass that has copied nothing.
LEMMA NothingCopied ==
  ASSUME NEW len \in Nat \ {0}, NEW u \in Nat \ {0}, NEW c \in 1..NCapture
  PROVE  DoneOf(len, u, (len + u - 1) \div u, 1, c) = 0
<1> DEFINE nc == (len + u - 1) \div u
<1>1. nc \in Nat \ {0} /\ nc * u >= len BY ChunkCount
<1>2. NCapture \in Nat \ {0} BY CapturesAssumption
<1> HIDE DEF nc
<1>3. Bounds(len, u, nc, NCapture, 1, c) BY <1>1, <1>2, CopyEnds
<1> QED BY <1>3 DEF nc, Bounds

\* What follows a context does not change its prefixes.
LEMMA PrefixStays ==
  ASSUME NEW ctx \in Seq(Tokens), NEW d \in Seq(Tokens), NEW p \in 0..Len(ctx)
  PROVE  SubSeq(ctx \o d, 1, p) = SubSeq(ctx, 1, p)
<1> DEFINE all == ctx \o d
           n == Len(ctx)
<1>1. all \in Seq(Tokens) /\ Len(all) = n + Len(d) /\ n \in Nat /\ Len(d) \in Nat
  BY ConcatProperties
<1>2. SubSeq(all, 1, n) = ctx
  <2>1. 0 \in 0..Len(d) /\ n + 0 = n BY <1>1
  <2>2. SubSeq(all, 1, n + 0) = ctx \o SubSeq(d, 1, 0) BY <2>1, ConcatPrefix
  <2>3. SubSeq(d, 1, 0) = <<>> BY <1>1, SubSeqEmpty
  <2>4. ctx \o <<>> = ctx BY ConcatEmptySeq
  <2> QED BY <2>1, <2>2, <2>3, <2>4
<1>3. n \in 0..Len(all) BY <1>1
<1> HIDE DEF all, n
<1>4. SubSeq(SubSeq(all, 1, n), 1, p) = SubSeq(all, 1, p) BY <1>1, <1>3, PrefixFacts DEF n
<1> QED BY <1>2, <1>4 DEF all

\* A ring that holds a longer context holds the shorter one.
LEMMA LessIsThere ==
  ASSUME NEW r, NEW ctx \in Seq(Tokens), NEW d \in Seq(Tokens), NEW top, HasAll(r, ctx \o d, top)
  PROVE  HasAll(r, ctx, top)
<1> DEFINE all == ctx \o d
           n == Len(ctx)
<1>1. Len(all) = n + Len(d) /\ n \in Nat /\ Len(d) \in Nat BY ConcatProperties
<1>2. ASSUME NEW p \in 1..n PROVE p \in 1..Len(all) /\ SubSeq(all, 1, p) = SubSeq(ctx, 1, p)
  <2>1. p \in 1..Len(all) BY <1>1
  <2>2. p \in 0..n BY <1>1
  <2> QED BY <2>1, <2>2, PrefixStays
<1>3. HasAll(r, all, top) OBVIOUS
<1> HIDE DEF all
<1> QED BY <1>2, <1>3 DEF HasAll, Has

\* The first copy of a pass goes on from the context it continues.
LEMMA FirstCopy ==
  ASSUME NEW r, NEW ctx \in Seq(Tokens), NEW top \in Nat, HasAll(r, ctx, top),
         NEW toks \in Seq(Tokens), toks # <<>>, NEW u \in Nat \ {0}, NEW top2 \in Nat, top <= top2
  PROVE  \A c \in 1..NCapture :
           Has(r, ctx \o toks,
               Len(ctx) + DoneOf(Len(toks), u, (Len(toks) + u - 1) \div u, 1, c), top2, c)
<1> SUFFICES ASSUME NEW c \in 1..NCapture
             PROVE  Has(r, ctx \o toks,
               Len(ctx) + DoneOf(Len(toks), u, (Len(toks) + u - 1) \div u, 1, c), top2, c)
  OBVIOUS
<1>1. Len(toks) \in Nat \ {0} /\ Len(ctx) \in Nat BY EmptySeq
<1>2. DoneOf(Len(toks), u, (Len(toks) + u - 1) \div u, 1, c) = 0 BY <1>1, NothingCopied
<1>3. RingCap \in Nat BY SizesAreNat
<1>4. ASSUME NEW p \in 1..Len(ctx), p - 1 + RingCap >= top2
      PROVE  r[Slot(p)][c] = SubSeq(ctx \o toks, 1, p)
  <2>1. p - 1 + RingCap >= top /\ p \in 0..Len(ctx) BY <1>1, <1>3, <1>4
  <2>2. r[Slot(p)][c] = SubSeq(ctx, 1, p) BY <2>1 DEF HasAll, Has
  <2> QED BY <2>1, <2>2, PrefixStays
<1>5. Has(r, ctx \o toks, Len(ctx) + 0, top2, c)
  <2>1. Len(ctx) + 0 = Len(ctx) BY <1>1
  <2> QED BY <1>4, <2>1 DEF Has
<1> QED BY <1>2, <1>5

\* What is read from a ring that holds the context.
LEMMA ReadRight ==
  ASSUME NEW r, NEW ctx \in Seq(Tokens), NEW top, HasAll(r, ctx, top), NEW n \in 0..Len(ctx)
  PROVE  /\ Len(ReadRing(r, Len(ctx), n)) = n
         /\ ReadsRight(ReadRing(r, Len(ctx), n), ctx, n, top)
<1> DEFINE len == Len(ctx)
           f == [i \in 1..n |-> r[((len - n + i - 1) % RingCap) + 1]]
           S == {r[((len - n + i - 1) % RingCap) + 1] : i \in 1..n}
<1>1. len \in Nat /\ n \in Nat OBVIOUS
<1>2. ReadRing(r, len, n) = SubSeq(f, 1, n) BY DEF ReadRing, Seqn
<1>3. f = [i \in 1..n |-> f[i]] /\ f \in [1..n -> S] OBVIOUS
<1>4. SubSeq(f, 1, n) = f
  <2> HIDE DEF f, S
  <2> QED BY <1>1, <1>3, WholeFunction
<1>5. Len(f) = n
  <2> HIDE DEF f, S
  <2> QED BY <1>1, <1>3
<1>6. ASSUME NEW i \in 1..n, (len - n + i) - 1 + RingCap >= top, NEW c \in 1..NCapture
      PROVE  f[i][c] = SubSeq(ctx, 1, len - n + i)
  <2>1. f[i] = r[Slot(len - n + i)] BY DEF Slot
  <2>2. len - n + i \in 1..len BY <1>1
  <2> QED BY <1>6, <2>1, <2>2 DEF HasAll, Has
<1>7. ReadsRight(f, ctx, n, top)
  <2> HIDE DEF f
  <2> QED BY <1>6 DEF ReadsRight
<1> HIDE DEF f
<1> QED BY <1>2, <1>4, <1>5, <1>7

-----------------------------------------------------------------------------
(* The ring, step by step *)

LEMMA CopiedOn ==
  ASSUME pass'.toks = pass.toks, pass'.base = pass.base, pass'.ubatch = pass.ubatch,
         UNCHANGED <<mode, cache, run, out>>, NEW r, NEW k, CopiedIn(r, k)
  PROVE  CopiedIn(r, k)'
BY DEF CopiedIn, Full, Before, Ctx, Top, NChunks

\* The pass goes on to its next copy.
LEMMA CopiedMoved ==
  ASSUME RunInv, RingOK, pass.k > 0, pass' = [pass EXCEPT !.k = @ + 1],
         UNCHANGED <<mode, cache, run, out>>, ~Served', NEW r, r = features',
         mode.spec /\ Fits => CopiedIn(r, pass.k + 1)
  PROVE  RingOK'
<1>1. /\ pass'.k = pass.k + 1 /\ pass'.toks = pass.toks /\ pass'.base = pass.base
      /\ pass'.ubatch = pass.ubatch /\ pass.k \in Nat
  BY RunFields DEF IsPass
<1>2. Ctx' = Ctx /\ (Fits' <=> Fits) BY DEF Ctx, Fits
<1>3. CopyOK' /\ TopOK' BY <1>1 DEF RingOK, CopyOK, TopOK
<1>4. ReadOK' BY <1>2 DEF RingOK, ReadOK, SeenRight, ReadsRight
<1>5. DraftOK'
  <2>1. run.at # "draft" BY PassFacts
  <2> QED BY <2>1 DEF DraftOK
<1>6. CopiedOK'
  <2> SUFFICES ASSUME mode.spec, Fits PROVE CopiedIn(features, pass.k)' BY <1>2 DEF CopiedOK
  <2>1. PICK k : k = pass'.k OBVIOUS
  <2>2. CopiedIn(r, k) BY <1>1, <2>1
  <2>3. CopiedIn(r, k)' BY <1>1, <2>2, CopiedOn
  <2> QED BY <2>1, <2>3 DEF CopiedIn
<1> QED BY <1>3, <1>4, <1>5, <1>6 DEF RingOK

LEMMA CopyLocalRing == ASSUME Inv, RingOK, CopyLocal PROVE RingOK'
<1> DEFINE c == CopyNo(pass.k)
<1>1. /\ Passing /\ ~mode.remote /\ pass' = [pass EXCEPT !.k = @ + 1] /\ call' = call
      /\ features' = WriteSlice(features, c.capture, pass.base + c.from, Slice(c))
      /\ UNCHANGED <<mode, cache, run, out>> /\ pass.k > 0
  BY DEF CopyLocal, Passing
<1>2. RunInv /\ IsRing(features) /\ CopyOK /\ CopiedOK
  BY DEF Inv, IpcInv, FeaturesOK, IsRing, RingOK
<1>3. ~Served'
  <2>1. call' = NoCall BY <1>1, <1>2 DEF RunInv, ModeOK
  <2> QED BY <2>1 DEF Served, NoCall
<1>4. PICK r : r = features' OBVIOUS
<1>5. mode.spec /\ Fits => CopiedIn(r, pass.k + 1)
  <2> SUFFICES ASSUME mode.spec, Fits PROVE CopiedIn(r, pass.k + 1) OBVIOUS
  <2>1. CopiedIn(features, pass.k) BY <1>1, <1>2 DEF CopiedOK
  <2>2. CopiedIn(WriteSlice(features, c.capture, pass.base + c.from, Slice(c)), pass.k + 1)
    BY <1>1, <1>2, <2>1, CopyStep
  <2>3. r = WriteSlice(features, c.capture, pass.base + c.from, Slice(c)) BY <1>1, <1>4
  <2> HIDE DEF c
  <2> QED BY <2>2, <2>3
<1> QED BY <1>1, <1>2, <1>3, <1>4, <1>5, CopiedMoved

LEMMA CopiedRemoteRing == ASSUME Inv, RingOK, CopiedRemote PROVE RingOK'
<1>1. /\ Passing /\ pass' = [pass EXCEPT !.k = @ + 1] /\ call' = NoCall /\ features' = features
      /\ UNCHANGED <<mode, cache, run, out>> /\ pass.k > 0 /\ Served
  BY DEF CopiedRemote, Passing, Served
<1>2. RunInv /\ CopiedOK BY DEF Inv, RingOK
<1>3. ~Served' BY <1>1 DEF Served, NoCall
<1>4. PICK r : r = features' OBVIOUS
<1>5. mode.spec /\ Fits => CopiedIn(r, pass.k + 1) BY <1>1, <1>2, <1>4 DEF CopiedOK
<1> QED BY <1>1, <1>2, <1>3, <1>4, <1>5, CopiedMoved

LEMMA CallOnlyRing == ASSUME RingOK, CopyRemote \/ Propose \/ Close PROVE RingOK'
<1>1. KeepParent /\ features' = features
  BY DEF CopyRemote, Propose, Close, KeepParent, KeepDaemonSide
<1>2. call'.at \in {"begin", "closing"} BY DEF CopyRemote, Propose, Close, NoCall
<1>3. ~Served' BY <1>2 DEF Served
<1> QED BY <1>1, <1>3, RingKept

\* A pass begins over a ring that holds the context it continues.
LEMMA PassStarts ==
  ASSUME NEW r, r = features', ~Served', pass'.k = 1,
         NEW ctx \in Seq(Tokens), Before' = ctx, pass'.base = Len(ctx),
         NEW toks \in Seq(Tokens), toks # <<>>, pass'.toks = toks,
         NEW u \in Nat \ {0}, pass'.ubatch = u,
         NEW top \in Nat, HasAll(r, ctx, top), NEW top2 \in Nat, top <= top2, Top' = top2
  PROVE  CopiedOK'
<1>1. \A c \in 1..NCapture :
        Has(r, ctx \o toks,
            Len(ctx) + DoneOf(Len(toks), u, (Len(toks) + u - 1) \div u, 1, c), top2, c)
  BY FirstCopy
<1>2. Full' = ctx \o toks /\ NChunks' = (Len(toks) + u - 1) \div u BY DEF Full, NChunks
<1>3. CopiedIn(features, pass.k)'
  BY <1>1, <1>2 DEF CopiedIn, Has, DoneOf
<1> QED BY <1>3 DEF CopiedOK

\* A block has been drafted from what was read.
LEMMA VerifyRing ==
  ASSUME Inv, RingOK, run.at = "draft", NEW seen, Verify(seen), UNCHANGED <<mode, cache, out>>,
         features' = features, ~Served', Fits => SeenRight(seen)
  PROVE  RingOK'
<1>1. PICK d \in BlocksAfter(run.last) :
        /\ run' = [run EXCEPT !.at = "verify", !.draft = d, !.saved = cache.ssm, !.seen = seen]
        /\ pass' = NewPass(d, run.committed, QLen)
  BY DEF Verify
<1>2. d \in Seq(Tokens) /\ Len(d) = QLen /\ d # <<>> BY BlockFacts
<1>3. RunInv /\ CountsOK /\ PassOK /\ QLen \in Nat \ {0}
  BY OutFacts, BlockSize DEF Inv, Working
<1>4. /\ run'.at = "verify" /\ run'.seen = seen /\ run'.top = run.top
      /\ run'.prompt = run.prompt /\ run'.n_gen = run.n_gen /\ run'.committed = run.committed
  BY <1>1, <1>3, RunFields DEF IsRun
<1>5. /\ pass'.k = 1 /\ pass'.toks = d /\ pass'.base = run.committed /\ pass'.ubatch = QLen
  BY <1>1 DEF NewPass
<1>6. Ctx' = Ctx /\ (Fits' <=> Fits) BY <1>4 DEF Ctx, Fits
<1>7. Ctx \in Seq(Tokens) /\ Len(Ctx) = run.committed /\ run.committed \in Nat
  <2>1. Ctx \in Seq(Tokens) /\ Len(Ctx) = run.committed BY <1>3, OutFacts DEF Working
  <2> HIDE DEF Ctx
  <2> QED BY <2>1
<1>8. CopyOK' BY <1>3, <1>4, <1>5 DEF CopyOK
<1>9. ReadOK' BY <1>4, <1>6 DEF ReadOK, SeenRight, ReadsRight
<1>10. DraftOK' /\ TopOK' BY <1>4 DEF DraftOK, TopOK
<1>11. CopiedOK'
  <2>1. CASE Fits
    <3>1. /\ HasAll(features, Ctx, run.top) /\ run.top \in Nat
          /\ run.top <= run.committed + QLen
      BY <2>1 DEF RingOK, DraftOK
    <3>2. PICK r : r = features' OBVIOUS
    <3>3. Before' = Ctx /\ Top' = run.committed + QLen BY <1>4, <1>6 DEF Before, Top
    <3>4. HasAll(r, Ctx, run.top) BY <3>1, <3>2
    <3>5. run.committed + QLen \in Nat BY <1>3, <1>7
    <3> DEFINE ctx == Ctx
               top == run.top
               top2 == run.committed + QLen
    <3>6. /\ ctx \in Seq(Tokens) /\ top \in Nat /\ top2 \in Nat /\ HasAll(r, ctx, top) /\ top <= top2
          /\ Before' = ctx /\ pass'.base = Len(ctx) /\ Top' = top2
      BY <1>5, <1>7, <3>1, <3>3, <3>4, <3>5
    <3> HIDE DEF ctx, top, top2
    <3> QED BY <1>2, <1>3, <1>5, <3>2, <3>6, PassStarts
  <2>2. CASE ~Fits BY <1>6, <2>2 DEF CopiedOK
  <2> QED BY <2>1, <2>2
<1> QED BY <1>8, <1>9, <1>10, <1>11 DEF RingOK

\* How many rows the draft asks for.
LEMMA CtxLenFacts == ASSUME run.committed \in Nat PROVE CtxLen \in 0..run.committed
<1> DEFINE a == run.committed
           S == {a, RingCap, DraftCtx}
<1>1. a \in Nat /\ RingCap \in Nat /\ DraftCtx \in Nat BY SizesAreNat, SplitSizes
<1> HIDE DEF a
<1>2. \E x \in S : \A y \in S : x <= y
  <2>1. CASE a <= RingCap /\ a <= DraftCtx BY <1>1, <2>1
  <2>2. CASE RingCap <= a /\ RingCap <= DraftCtx BY <1>1, <2>2
  <2>3. CASE DraftCtx <= a /\ DraftCtx <= RingCap BY <1>1, <2>3
  <2> QED BY <1>1, <2>1, <2>2, <2>3
<1>3. Min(S) \in S /\ \A y \in S : Min(S) <= y BY <1>2 DEF Min
<1>4. CtxLen = Min(S) BY DEF CtxLen, a
<1>5. Min(S) \in Nat /\ Min(S) <= a BY <1>1, <1>3
<1> QED BY <1>4, <1>5 DEF a

\* What is read for a block that is to be drafted.
LEMMA DraftReads ==
  ASSUME Inv, RingOK, run.at = "draft", Fits
  PROVE  SeenRight(ReadRing(features, run.committed, CtxLen))
<1>1. Ctx \in Seq(Tokens) /\ Len(Ctx) = run.committed BY OutFacts DEF Inv, Working
<1>2. run.committed \in Nat
  <2> HIDE DEF Ctx
  <2> QED BY <1>1
<1>3. HasAll(features, Ctx, run.top) BY DEF RingOK, DraftOK
<1>4. CtxLen \in 0..Len(Ctx) BY <1>1, <1>2, CtxLenFacts
<1> DEFINE ctx == Ctx
           n == CtxLen
           r == features
           top == run.top
<1>5. /\ ctx \in Seq(Tokens) /\ HasAll(r, ctx, top) /\ n \in 0..Len(ctx)
      /\ run.committed = Len(ctx)
  BY <1>1, <1>3, <1>4
<1> HIDE DEF ctx, n, r, top
<1>6. /\ Len(ReadRing(r, Len(ctx), n)) = n
      /\ ReadsRight(ReadRing(r, Len(ctx), n), ctx, n, top)
  BY <1>5, ReadRight
<1> QED BY <1>5, <1>6 DEF ctx, n, r, top, SeenRight

LEMMA DraftLocalRing == ASSUME Inv, RingOK, DraftLocal PROVE RingOK'
<1>1. /\ run.at = "draft" /\ ~mode.remote /\ UNCHANGED <<mode, cache, call, features>>
  BY DEF DraftLocal, KeepIpc, ipcVars
<1>2. CASE Verify(ReadRing(features, run.committed, CtxLen)) /\ out' = out
  <2>1. ~Served'
    <3>1. call' = NoCall BY <1>1 DEF Inv, RunInv, ModeOK
    <3> QED BY <3>1 DEF Served, NoCall
  <2>2. Fits => SeenRight(ReadRing(features, run.committed, CtxLen)) BY <1>1, DraftReads
  <2> QED BY <1>1, <1>2, <2>1, <2>2, VerifyRing
<1>3. CASE run' = Returned(FALSE) /\ pass' = pass
  <2>1. pass'.k = 0 BY <1>1, <1>3, OutFacts DEF Inv, Working, PassOK
  <2>2. run'.at = "returned" BY <1>3, RunFields DEF Inv, IsRun, Returned
  <2> QED BY <2>1, <2>2, NoRing
<1> QED BY <1>2, <1>3 DEF DraftLocal

LEMMA ProposedRing == ASSUME Inv, LinkOK, RingOK, Proposed PROVE RingOK'
<1>1. /\ run.at = "draft" /\ call.op = "propose" /\ call.at = "done" /\ call' = NoCall
      /\ UNCHANGED <<mode, cache, out, features>>
  BY DEF Proposed, KeepDaemonSide
<1>2. CASE call.ok /\ Verify(call.hidden.seen)
  <2>1. call.hidden.seen = ReadRing(features, run.committed, CtxLen)
    BY <1>1, <1>2 DEF LinkOK, SeenOK, Seen, ArgsOK
  <2>2. Fits => SeenRight(call.hidden.seen) BY <1>1, <2>1, DraftReads
  <2>3. ~Served' BY <1>1 DEF Served, NoCall
  <2> QED BY <1>1, <1>2, <2>2, <2>3, VerifyRing
<1>3. CASE run' = Returned(FALSE) /\ pass' = pass
  <2>1. pass'.k = 0 BY <1>1, <1>3, OutFacts DEF Inv, Working, PassOK
  <2>2. run'.at = "returned" BY <1>3, RunFields DEF Inv, IsRun, Returned
  <2> QED BY <2>1, <2>2, NoRing
<1> QED BY <1>2, <1>3 DEF Proposed

LEMMA PrefilledRing == ASSUME Inv, RingOK, Prefilled PROVE RingOK'
<1>1. /\ run.at = "prefill" /\ pass.k > NCopies /\ pass' = NoPass
      /\ UNCHANGED <<mode, out, features>>
  BY DEF Prefilled, PassDone, KeepIpc, ipcVars
<1>2. PICK t : run' = [run EXCEPT !.at = IF mode.spec THEN "draft" ELSE "ar", !.last = t,
                                  !.top = run.committed]
  BY DEF Prefilled
<1>3. RunInv /\ CopyOK /\ CopiedOK BY DEF Inv, RingOK
<1>4. /\ run'.at = (IF mode.spec THEN "draft" ELSE "ar") /\ run'.top = run.committed
      /\ run'.prompt = run.prompt /\ run'.n_gen = run.n_gen /\ run'.committed = run.committed
  BY <1>2, <1>3, RunFields DEF IsRun
<1>5. pass'.k = 0 BY <1>1 DEF NoPass
<1>6. CASE ~mode.spec BY <1>4, <1>5, <1>6, NoRing
<1>7. CASE mode.spec
  <2>1. /\ pass.k > 0 /\ pass.toks = run.prompt /\ out = <<>> /\ run.prompt \in Seq(Tokens)
        /\ Ctx \in Seq(Tokens) /\ Len(Ctx) = run.committed
    BY <1>1, <1>3, OutFacts DEF Working, PassOK
  <2>2. Ctx = run.prompt BY <2>1, ConcatEmptySeq DEF Ctx
  <2>3. Full = run.prompt BY <1>1, <2>1, ConcatEmptySeq DEF Full, Before
  <2>4. Top = Len(run.prompt) BY <1>1 DEF Top
  <2>5. Ctx' = Ctx /\ (Fits' <=> Fits) BY <1>1, <1>4 DEF Ctx, Fits
  <2>6. Len(run.prompt) \in Nat BY <2>1
  <2>7. DraftOK'
    <3> SUFFICES ASSUME Fits
                 PROVE  /\ HasAll(features, Ctx, run.top)'
                        /\ run'.top \in Nat /\ run'.top <= run'.committed + QLen
      BY <2>5 DEF DraftOK
    <3>1. HasAll(features, Full, Top) BY <1>1, <1>3, <1>7, <2>1, AllCopied
    <3>2. HasAll(features, Ctx, run.top)'
      BY <1>1, <1>4, <2>1, <2>2, <2>3, <2>4, <2>5, <3>1 DEF HasAll, Has
    <3> QED BY <1>4, <2>1, <2>2, <2>6, <3>2, BlockSize
  <2>8. run'.at = "draft" BY <1>4, <1>7
  <2> QED BY <1>5, <2>7, <2>8 DEF RingOK, CopyOK, CopiedOK, ReadOK, TopOK
<1> QED BY <1>6, <1>7

\* Acceptance: the replay goes on from the context, the block's slots taken.
LEMMA VerifiedRing == ASSUME Inv, RingOK, Verified PROVE RingOK'
<1>1. /\ run.at = "verify" /\ pass.k > NCopies /\ call.at = "idle"
      /\ UNCHANGED <<mode, out, call, features>>
  BY DEF Verified, PassDone, KeepIpc, ipcVars
<1>2. RunInv /\ CopyOK /\ CopiedOK BY DEF Inv, RingOK
<1> DEFINE o == Graph.out
           d == run.draft
           ctx == Ctx
<1>3. /\ CountsOK /\ PassOK /\ pass.k > 0 /\ pass.toks = d /\ mode.spec
      /\ pass.base = run.committed /\ run.n < run.n_gen
      /\ d \in Seq(Tokens) /\ Len(d) = QLen
      /\ run.n \in Nat /\ run.n_gen \in Nat /\ ctx \in Seq(Tokens) /\ Len(ctx) = run.committed
  BY <1>1, <1>2, OutFacts DEF Working, PassOK
<1>4. o = [i \in 1..QLen |-> o[i]] BY <1>2, <1>3, PassGraph
<1>5. PICK t \in Picks(o) :
        LET accept_n == AcceptN(d, t)
            commit_n == CommitN(accept_n, run.n_gen - run.n)
        IN  /\ run' = [run EXCEPT !.at = "replay", !.target = t, !.top = run.committed + QLen]
            /\ pass' = NewPass(CommitTokens(d, t, accept_n, commit_n), run.committed, commit_n)
  BY DEF Verified
<1> DEFINE a == AcceptN(d, t)
           n == CommitN(a, run.n_gen - run.n)
           toks == CommitTokens(d, t, a, n)
           top == run.committed + QLen
<1>6. t \in [1..QLen -> Tokens]
  <2>1. t \in [DOMAIN o -> Tokens] BY DEF Picks
  <2>2. DOMAIN o = 1..QLen
    <3> HIDE DEF o
    <3> QED BY <1>4
  <2> HIDE DEF o
  <2> QED BY <2>1, <2>2
<1>7. a \in 1..QLen /\ n \in 1..QLen
  <2>1. a \in 1..QLen BY AcceptFacts
  <2>2. run.n_gen - run.n \in Nat \ {0} BY <1>3
  <2> HIDE DEF a
  <2> QED BY <2>1, <2>2, CommitFacts
<1>8. toks \in Seq(Tokens) /\ Len(toks) = n /\ toks # <<>>
  <2> HIDE DEF a, n, d
  <2> QED BY <1>3, <1>6, <1>7, CommitTokensFacts
<1>9. /\ run'.at = "replay" /\ run'.top = top /\ run'.prompt = run.prompt
      /\ run'.n_gen = run.n_gen /\ run'.committed = run.committed
  BY <1>2, <1>5, RunFields DEF IsRun
<1>10. pass'.k = 1 /\ pass'.toks = toks /\ pass'.base = run.committed /\ pass'.ubatch = n
  BY <1>5 DEF NewPass
<1> HIDE DEF a, n, toks, o, d
<1>11. Ctx' = ctx /\ (Fits' <=> Fits) BY <1>1, <1>9 DEF Ctx, Fits
<1>12. QLen \in Nat \ {0} /\ n \in Nat \ {0} /\ n <= QLen BY <1>7, BlockSize
<1>13. run.committed \in Nat /\ top \in Nat
  <2> HIDE DEF ctx
  <2> QED BY <1>3, <1>12
<1>14. CopyOK' BY <1>8, <1>9, <1>10, <1>12 DEF CopyOK
<1>15. DraftOK' /\ ReadOK' /\ TopOK' BY <1>9 DEF DraftOK, ReadOK, TopOK
<1>16. CopiedOK'
  <2>1. CASE Fits
    <3>1. HasAll(features, Full, Top) BY <1>1, <1>2, <1>3, <2>1, AllCopied
    <3>2. Full = ctx \o d /\ Top = top BY <1>1, <1>3 DEF Full, Before, Top
    <3>3. PICK r : r = features' OBVIOUS
    <3>4. HasAll(r, ctx \o d, top) BY <1>1, <3>1, <3>2, <3>3
    <3>5. HasAll(r, ctx, top)
      <4> HIDE DEF ctx, top
      <4> QED BY <1>3, <3>4, LessIsThere
    <3>6. ~Served' BY <1>1 DEF Served
    <3>7. Before' = ctx /\ Top' = top BY <1>9, <1>11 DEF Before, Top
    <3>8. pass'.base = Len(ctx) BY <1>3, <1>10
    <3>9. top <= top BY <1>13
    <3> HIDE DEF ctx, top
    <3> QED BY <1>3, <1>8, <1>10, <1>12, <1>13, <3>3, <3>5, <3>6, <3>7, <3>8, <3>9, PassStarts
  <2>2. CASE ~Fits BY <1>11, <2>2 DEF CopiedOK
  <2> QED BY <2>1, <2>2
<1> QED BY <1>14, <1>15, <1>16 DEF RingOK

\* The end of a replay: the ring holds the longer context.
LEMMA ReplayedRing == ASSUME Inv, RingOK, Replayed PROVE RingOK'
<1>1. /\ run.at = "replay" /\ pass.k > NCopies /\ pass' = NoPass /\ UNCHANGED <<mode, features>>
  BY DEF Replayed, PassDone, KeepIpc, ipcVars
<1>2. RunInv /\ CopyOK /\ CopiedOK /\ run.top = run.committed + QLen
  BY SMTT(30), <1>1 DEF Inv, RingOK, TopOK
<1> DEFINE toks == pass.toks
           all == out \o toks
<1>3. PICK t :
        LET next == [run EXCEPT !.at = "draft", !.last = t, !.n = @ + Len(toks),
                                !.committed = @ + Len(toks), !.draft = <<>>,
                                !.target = <<>>, !.saved = <<>>, !.seen = <<>>]
        IN  IF Eos \in ToSet(toks)
            THEN run' = [next EXCEPT !.at = "returned", !.ok = TRUE] /\ out' = Marked(all)
            ELSE run' = next /\ out' = all
  BY DEF Replayed
<1>4. pass'.k = 0 BY <1>1 DEF NoPass
<1>5. CASE Eos \in ToSet(toks)
  <2>1. run' = [[run EXCEPT !.at = "draft", !.last = t, !.n = @ + Len(toks),
                                !.committed = @ + Len(toks), !.draft = <<>>,
                                !.target = <<>>, !.saved = <<>>, !.seen = <<>>]
                       EXCEPT !.at = "returned", !.ok = TRUE]
    BY <1>3, <1>5
  <2>2. run'.at = "returned" BY <1>2, <2>1, RunFields DEF IsRun
  <2> QED BY <1>4, <2>2, NoRing
<1>6. CASE Eos \notin ToSet(toks)
  <2>1. out' = all
        /\ run' = [run EXCEPT !.at = "draft", !.last = t, !.n = @ + Len(toks),
                               !.committed = @ + Len(toks), !.draft = <<>>,
                               !.target = <<>>, !.saved = <<>>, !.seen = <<>>]
    BY <1>3, <1>6
  <2>2. /\ run'.at = "draft" /\ run'.committed = run.committed + Len(toks) /\ run'.top = run.top
        /\ run'.prompt = run.prompt /\ run'.n_gen = run.n_gen
    BY <1>2, <2>1, RunFields DEF IsRun
  <2>3. /\ pass.k > 0 /\ mode.spec /\ toks \in Seq(Tokens) /\ run.prompt \in Seq(Tokens)
        /\ out \in Seq(Tokens) /\ Ctx \in Seq(Tokens) /\ Len(Ctx) = run.committed
    BY <1>1, <1>2, OutFacts DEF Working, PassOK
  <2>4. run.committed \in Nat /\ Len(toks) \in Nat /\ QLen \in Nat
    <3> HIDE DEF Ctx, toks
    <3> QED BY <2>3, BlockSize
  <2>5. Full = Ctx'
    <3>1. Before = Ctx BY <1>1 DEF Before
    <3>2. Ctx' = run.prompt \o (out \o toks) BY <2>1, <2>2 DEF Ctx
    <3>3. (run.prompt \o out) \o toks = run.prompt \o (out \o toks)
      <4> DEFINE p == run.prompt
                 o == out
      <4>1. p \in Seq(Tokens) /\ o \in Seq(Tokens) /\ toks \in Seq(Tokens) BY <2>3
      <4> HIDE DEF p, o, toks
      <4>2. (p \o o) \o toks = p \o (o \o toks) BY <4>1, ConcatAssociative
      <4> QED BY <4>2 DEF p, o
    <3> QED BY <3>1, <3>2, <3>3 DEF Full, Ctx
  <2>6. Top = run.committed + QLen BY <1>1 DEF Top
  <2>7. Fits' <=> Fits BY <1>1, <2>2 DEF Fits
  <2>8. DraftOK'
    <3> SUFFICES ASSUME Fits
                 PROVE  /\ HasAll(features, Ctx, run.top)'
                        /\ run'.top \in Nat /\ run'.top <= run'.committed + QLen
      BY <2>7 DEF DraftOK
    <3>1. HasAll(features, Full, Top) BY <1>1, <1>2, <2>3, AllCopied
    <3>2. HasAll(features, Ctx, run.top)'
      <4>1. run'.top = Top BY <1>2, <2>2, <2>6
      <4> QED BY <1>1, <2>5, <3>1, <4>1 DEF HasAll, Has
    <3> HIDE DEF toks
    <3>3. run'.top = run.committed + QLen BY <1>2, <2>2
    <3>4. run'.committed = run.committed + Len(toks) BY <2>2
    <3>5. run.committed + QLen \in Nat
          /\ run.committed + QLen <= (run.committed + Len(toks)) + QLen
      BY <2>4
    <3> QED BY <3>2, <3>3, <3>4, <3>5
  <2> QED BY <1>4, <2>2, <2>8 DEF RingOK, CopyOK, CopiedOK, ReadOK, TopOK
<1> QED BY <1>5, <1>6

\* A prompt is read over a ring that need not hold anything yet.
LEMMA RequestRing == ASSUME Inv, LinkOK, RingOK, Request PROVE RingOK'
<1> DEFINE New(q) == [NoRun EXCEPT !.at = "prefill", !.prompt = q.prompt, !.n_gen = q.n_gen,
                                 !.committed = Len(q.prompt), !.requests = run.requests + 1]
           Turned(q) == run' = [New(q) EXCEPT !.at = "returned"] /\ pass' = NoPass
           Taken(q) == run' = New(q) /\ pass' = NewPass(q.prompt, 0, Ubatch)
<1>1. PICK q \in Requests : Turned(q) \/ Taken(q)
  <2>1. PICK q \in Requests :
          IF Len(q.prompt) + q.n_gen + 1 > MaxCtx THEN Turned(q) ELSE Taken(q)
    BY DEF Request
  <2> HIDE DEF Turned, Taken
  <2> QED BY <2>1
<1>2. run.at = "idle" /\ call' = call /\ answers' = answers BY DEF Request, KeepIpc, ipcVars
<1>3. pass.k = 0 BY <1>2 DEF Inv, RunInv, Shapes, Working
<1>4. call.op # "feature_slice" BY <1>3 DEF LinkOK, ArgsOK, Passing
<1>5. ~Served' BY <1>2, <1>4 DEF Served
<1>6. CASE Turned(q)
  <2>1. run'.at = "returned" /\ pass'.k = 0 BY <1>6 DEF NoRun, NoPass
  <2> QED BY <2>1, NoRing
<1>7. CASE Taken(q)
  <2>1. /\ run'.at = "prefill" /\ run'.prompt = q.prompt
        /\ pass'.k = 1 /\ pass'.toks = q.prompt /\ pass'.base = 0 /\ pass'.ubatch = Ubatch
    BY <1>7 DEF NoRun, NewPass
  <2>2. q.prompt \in Seq(Tokens) /\ q.prompt # <<>> /\ Ubatch \in Nat \ {0}
    BY RequestsAssumption, SplitSizes
  <2>3. PICK r : r = features' OBVIOUS
  <2> DEFINE ctx == <<>>
             top2 == Len(q.prompt)
  <2>4. ctx \in Seq(Tokens) /\ Len(ctx) = 0 /\ HasAll(r, ctx, 0)
    <3>1. Len(ctx) = 0 /\ 1..0 = {} OBVIOUS
    <3> HIDE DEF ctx
    <3>2. HasAll(r, ctx, 0) BY <3>1 DEF HasAll, Has
    <3> QED BY <3>1, <3>2 DEF ctx
  <2>5. Before' = ctx /\ Top' = top2 BY <2>1 DEF Before, Top
  <2>6. top2 \in Nat /\ 0 <= top2 BY <2>2
  <2> HIDE DEF ctx, top2
  <2>7. CopiedOK' BY <1>5, <2>1, <2>2, <2>3, <2>4, <2>5, <2>6, PassStarts
  <2> QED BY <2>1, <2>2, <2>7 DEF RingOK, CopyOK, DraftOK, ReadOK, TopOK
<1> QED BY <1>1, <1>6, <1>7

LEMMA ArRing == ASSUME Inv, ArBegin \/ ArStepped PROVE RingOK'
<1>1. run.at = "ar" /\ mode' = mode BY DEF ArBegin, ArStepped
<1>2. ~mode.spec BY <1>1, OutFacts DEF Inv, Working, PassOK
<1>3. IsRun(run) BY RunFields DEF Inv
<1>4. run'.at \in {"ar", "returned"}
  <2>1. \A ok : Returned(ok).at = "returned" BY <1>3 DEF Returned, IsRun
  <2>2. CASE ArBegin BY <1>1, <2>1, <2>2 DEF ArBegin
  <2>3. CASE ArStepped BY <1>1, <1>3, <2>1, <2>3 DEF ArStepped, IsRun
  <2> QED BY <2>2, <2>3
<1>5. pass'.k = 0 \/ pass'.ubatch = 1
  <2>1. NoPass.k = 0 /\ \A toks, base : NewPass(toks, base, 1).ubatch = 1 BY DEF NoPass, NewPass
  <2>2. CASE ArBegin BY <2>1, <2>2 DEF ArBegin
  <2>3. CASE ArStepped BY <2>1, <2>3 DEF ArStepped
  <2> QED BY <2>2, <2>3
<1> QED BY <1>1, <1>2, <1>4, <1>5 DEF RingOK, CopyOK, CopiedOK, DraftOK, ReadOK, TopOK

LEMMA RestRing ==
  ASSUME Inv, Begin \/ Started \/ PassFails \/ SpecEnd \/ Answered \/ Exit \/ Leave \/ RejectLine
  PROVE  RingOK'
<1>1. IsRun(run) /\ RunInv BY RunFields DEF Inv
<1>2. CASE PassFails
  <2>1. pass'.k = 0 /\ run' = Returned(FALSE) BY <1>2 DEF PassFails, NoPass
  <2>2. run'.at = "returned" BY <1>1, <2>1 DEF Returned, IsRun
  <2> QED BY <2>1, <2>2, NoRing
<1>3. CASE SpecEnd
  <2>1. run.at = "draft" /\ pass' = pass /\ run' = Returned(TRUE) BY <1>3 DEF SpecEnd
  <2>2. pass.k = 0 BY <1>1, <2>1, OutFacts DEF Working, PassOK
  <2>3. run'.at = "returned" BY <1>1, <2>1 DEF Returned, IsRun
  <2> QED BY <2>1, <2>2, <2>3, NoRing
<1>4. CASE Begin \/ Started \/ Answered \/ Exit \/ Leave \/ RejectLine
  <2>1. run.at \in {"begin", "start", "returned", "closing", "idle"} /\ pass' = pass
    BY ZenonT(40), <1>4 DEF Begin, Started, Answered, Exit, Leave, RejectLine
  <2>2. pass.k = 0 BY <1>1, <2>1 DEF RunInv, Shapes, Working
  <2>3. run'.at \in {"start", "idle", "closing", "exited", "returned"}
    <3>1. CASE Begin BY <1>1, <3>1 DEF Begin, IsRun
    <3>2. CASE Started BY <1>1, <3>2 DEF Started, IsRun
    <3>3. CASE Answered BY <3>3 DEF Answered, NoRun
    <3>4. CASE Exit \/ Leave BY <1>1, <3>4 DEF Exit, Leave, IsRun
    <3>5. CASE RejectLine BY <3>5 DEF RejectLine, NoRun
    <3> QED BY <1>4, <3>1, <3>2, <3>3, <3>4, <3>5
  <2> QED BY <2>1, <2>2, <2>3, NoRing
<1> QED BY <1>2, <1>3, <1>4

LEMMA SameRing == ASSUME RingOK, UNCHANGED vars PROVE RingOK'
<1>1. KeepParent /\ UNCHANGED <<call, answers, features>> BY DEF vars, ipcVars, KeepParent
<1>2. Served' => Served BY <1>1 DEF Served
<1> QED BY <1>1, <1>2, RingKept

LEMMA NextRing == ASSUME Inv, LinkOK, RingOK, [Next]_vars PROVE RingOK'
<1>1. CASE CopyLocal BY <1>1, CopyLocalRing
<1>2. CASE CopiedRemote BY <1>2, CopiedRemoteRing
<1>3. CASE CopyRemote \/ Propose \/ Close BY <1>3, CallOnlyRing
<1>4. CASE DraftLocal BY <1>4, DraftLocalRing
<1>5. CASE Proposed BY <1>5, ProposedRing
<1>6. CASE Prefilled BY <1>6, PrefilledRing
<1>7. CASE Verified BY <1>7, VerifiedRing
<1>8. CASE Replayed BY <1>8, ReplayedRing
<1>9. CASE ArBegin \/ ArStepped BY <1>9, ArRing
<1>10. CASE Request BY <1>10, RequestRing
<1>11. CASE Begin \/ Started \/ PassFails \/ SpecEnd \/ Answered \/ Exit \/ Leave \/ RejectLine
  BY <1>11, RestRing
<1>12. CASE ClientStep /\ KeepParent BY <1>12, ClientRing
<1>13. CASE (DaemonStep \/ Crash) /\ KeepParent BY <1>13, DaemonRing
<1>14. CASE UNCHANGED vars BY <1>14, SameRing
<1> QED
  BY <1>1, <1>2, <1>3, <1>4, <1>5, <1>6, <1>7, <1>8, <1>9, <1>10, <1>11, <1>12, <1>13, <1>14
  DEF Next, ParentWork, DaemonWork, Over, Parent

LEMMA InitRing == ASSUME Init PROVE LinkOK /\ RingOK
<1>1. /\ call = NoCall /\ child = "none" /\ lines = <<>> /\ answers = <<>> /\ run = NoRun
      /\ pass = NoPass
  BY DEF Init, IpcInit
<1>2. call.op = "none" /\ run.at = "begin" /\ pass.k = 0 BY <1>1 DEF NoCall, NoRun, NoPass
<1>3. ArgsOK BY <1>2 DEF ArgsOK
<1>4. SentOK BY <1>1, <1>2 DEF SentOK, Exchange
<1>5. call.at = "idle" BY <1>1 DEF NoCall
<1>6. ~Two(answers) BY <1>1, QueueFacts DEF QueueFactsFor
<1>7. SeenOK BY <1>2, <1>5, <1>6 DEF SeenOK
<1>8. RingOK BY <1>2 DEF RingOK, CopyOK, CopiedOK, DraftOK, ReadOK, TopOK
<1> QED BY <1>3, <1>4, <1>7, <1>8 DEF LinkOK

LEMMA RingSees == ASSUME Inv, RingOK PROVE DraftSeesContext
<1> SUFFICES ASSUME run.at = "verify", Fits PROVE DraftSeesContext BY DEF DraftSeesContext
<1>1. ReadsRight(run.seen, Ctx, Len(run.seen), run.top) BY DEF RingOK, ReadOK, SeenRight
<1>2. out \in Seq(Tokens) BY OutFacts DEF Inv, Working
<1>3. Written = out BY <1>2, WrittenIs
<1>4. run.prompt \o Written = Ctx BY <1>3 DEF Ctx
<1> QED BY <1>1, <1>4 DEF DraftSeesContext, ReadsRight

\* The rows the draft reads, from a ring of its own or over the pipes, are the
\* features of the last positions of the context, whatever was rejected before
\* and whatever the ring's size, but for the slots of the last block.
THEOREM DraftsSeeContext == Spec => []DraftSeesContext
<1>1. Init => Inv /\ LinkOK /\ RingOK BY InitInv, InitRing
<1>2. Inv /\ LinkOK /\ RingOK /\ [Next]_vars => (Inv /\ LinkOK /\ RingOK)'
  BY NextInv, NextLink, NextRing
<1>3. Inv /\ RingOK => DraftSeesContext BY RingSees
<1> QED BY <1>1, <1>2, <1>3, PTL DEF Spec

=============================================================================

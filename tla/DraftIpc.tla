------------------------------ MODULE DraftIpc ------------------------------
(***************************************************************************)
(* The draft model in a process of its own: DFlashDraftIpcClient in the    *)
(* parent, run_dflash_draft_ipc_daemon in the child.  Commands are lines   *)
(* on the child's standard input, answers are status words and hidden      *)
(* states on a second pipe, features and noise travel in temporary files.  *)
(* The client is synchronous, but the child may die between any two steps  *)
(* of either process.                                                      *)
(*                                                                         *)
(* Features are named by the context they were computed from: row slot s   *)
(* of the feature ring has one context per captured layer.                 *)
(***************************************************************************)
EXTENDS Speculation

CONSTANT NCapture      \* captured layers (n_target_layers)

ASSUME CapturesAssumption == NCapture \in Nat \ {0}

VARIABLES
    client,    \* active_, work_dir_ with owns_work_dir_, and seq_
    call,      \* the client call in progress, or how the last one ended
    child,     \* the daemon process, as the kernel and the daemon's loop have it
    lines,     \* the command pipe: what was written and not read
    piped,     \* the parent's ends are open: cmd_, stream_fd_
    answers,   \* the stream pipe: what was written and not read
    work,      \* the command the daemon is serving
    files,     \* path -> content of the files in the work directory
    features   \* the feature ring of the draft

ipcVars == <<client, call, child, lines, piped, answers, work, files, features>>

NoCall == [op |-> "none", at |-> "idle", capture |-> 0, start |-> 0, n |-> 0,
           path |-> -1, data |-> <<>>, hidden |-> <<>>, ok |-> FALSE]

NoClient == [active |-> FALSE, dir |-> FALSE, owns |-> FALSE, seq |-> 0, failed_write |-> FALSE]

Torn == <<>>      \* what a failed write leaves

Alive == {"loading", "waiting", "serving", "hidden"}

IpcInit ==
    /\ client = NoClient
    /\ call = NoCall
    /\ child = "none"
    /\ lines = <<>>
    /\ piped = [cmd |-> FALSE, stream |-> FALSE]
    /\ answers = <<>>
    /\ work = NoCall
    /\ files = <<>>
    /\ features = Blank(RingCap, Blank(NCapture, Junk))

\* The parent was killed by SIGPIPE, which nothing in it ignores.
Killed == call.at = "killed"

Ended(ok) == [call EXCEPT !.at = "done", !.ok = ok]

-----------------------------------------------------------------------------
(* The feature ring (also of a draft in the parent's own process).          *)

\* Mutant: a slice is written from slot 0 of its chunk, not from its position.
WriteSlice_NoStart(r, capture, start, rows) ==
    [s \in 1 .. RingCap |-> IF s <= Len(rows) THEN [r[s] EXCEPT ![capture] = rows[s]] ELSE r[s]]

(* rows[i] goes to slot (start + i - 1) % cap; a later row of the slice     *)
(* replaces an earlier one.                                                 *)
WriteSlice(r, capture, start, rows) ==
    Seqn(RingCap, LAMBDA s :
        LET hits == {i \in 1 .. Len(rows) : (start + i - 1) % RingCap = s - 1}
        IN  IF hits = {} THEN r[s] ELSE [r[s] EXCEPT ![capture] = rows[Max(hits)]])

(* What the draft reads: n rows up to committed, in one view or in runs.    *)
ReadRing(r, committed, n) == Seqn(n, LAMBDA i : r[((committed - n + i - 1) % RingCap) + 1])

-----------------------------------------------------------------------------
(* The client: start.                                                       *)

\* init_work_dir: a directory of its own, or the one it was given.
StartDir ==
    /\ call.op = "start" /\ call.at = "begin"
    /\ \/ \E owns \in BOOLEAN :
            /\ client' = [NoClient EXCEPT !.dir = TRUE, !.owns = owns]
            /\ call' = [call EXCEPT !.at = "fork"]
       \/ /\ MayFail("dir") /\ client' = NoClient /\ call' = Ended(FALSE)
    /\ UNCHANGED <<child, lines, piped, answers, work, files, features>>

\* pipe and fork; a failing fdopen leaves a child without a command pipe.
StartFork ==
    /\ call.op = "start" /\ call.at = "fork"
    /\ \/ /\ child' = "loading" /\ piped' = [cmd |-> TRUE, stream |-> TRUE]
          /\ call' = [call EXCEPT !.at = "await"]
       \/ /\ MayFail("fork") /\ UNCHANGED <<child, piped>> /\ call' = Ended(FALSE)
       \/ /\ MayFail("fork")
          /\ child' = "loading" /\ piped' = [cmd |-> FALSE, stream |-> TRUE]
          /\ call' = [call EXCEPT !.at = "closing"]
    /\ UNCHANGED <<client, lines, answers, work, files, features>>

(* Reading the stream: a word, or the end of a stream nobody writes to.     *)
StreamEnded == answers = <<>> /\ child \notin Alive

\* The daemon's first word says whether it is ready.
StartReady ==
    /\ call.op = "start" /\ call.at = "await"
    /\ \/ /\ answers # <<>>
          /\ answers' = Tail(answers)
          /\ IF Head(answers).status = 0
             THEN /\ client' = [client EXCEPT !.active = TRUE]
                  /\ call' = Ended(TRUE)
             ELSE call' = [call EXCEPT !.at = "closing"] /\ UNCHANGED client
       \/ /\ StreamEnded
          /\ call' = [call EXCEPT !.at = "closing"]
          /\ UNCHANGED <<client, answers>>
    /\ UNCHANGED <<child, lines, piped, work, files, features>>

-----------------------------------------------------------------------------
(* The client: send_feature_slice and propose.                              *)

FilesWith(path, content) ==
    [p \in DOMAIN files \cup {path} |-> IF p = path THEN content ELSE files[p]]

\* next_path and write_binary_file; a failed write leaves what it had written.
WriteFile ==
    /\ call.op \in {"feature_slice", "propose"} /\ call.at = "begin"
    /\ \/ /\ ~client.active \/ call.n <= 0
          /\ call' = Ended(FALSE)
          /\ UNCHANGED <<client, files>>
       \/ /\ client.active /\ call.n > 0
          /\ client' = [client EXCEPT !.seq = @ + 1]
          /\ files' = FilesWith(client.seq, call.data)
          /\ call' = [call EXCEPT !.at = "send", !.path = client.seq]
       \/ /\ client.active /\ call.n > 0 /\ MayFail("file")
          /\ client' = [client EXCEPT !.seq = @ + 1, !.failed_write = TRUE]
          /\ files' = FilesWith(client.seq, Torn)
          /\ call' = Ended(FALSE)
    /\ UNCHANGED <<child, lines, piped, answers, work, features>>

\* fprintf and fflush: writing to a pipe without a reader raises SIGPIPE.
Send ==
    /\ call.at = "send"
    /\ IF child \in Alive
       THEN /\ lines' = Append(lines, call)
            /\ call' = [call EXCEPT !.at = "await"]
            /\ UNCHANGED <<client, piped, answers>>
       ELSE /\ call' = [NoCall EXCEPT !.at = "killed"]
            /\ piped' = [cmd |-> FALSE, stream |-> FALSE]
            /\ answers' = <<>>
            /\ client' = [client EXCEPT !.active = FALSE]
            /\ UNCHANGED lines
    /\ UNCHANGED <<child, work, files, features>>

\* The status of the command; a proposal that succeeded has hidden states.
Await ==
    /\ call.op \in {"feature_slice", "propose"} /\ call.at = "await"
    /\ \/ /\ answers # <<>>
          /\ answers' = Tail(answers)
          /\ call' = IF Head(answers).status = 0 /\ call.op = "propose"
                     THEN [call EXCEPT !.at = "payload"]
                     ELSE [call EXCEPT !.at = "remove", !.ok = Head(answers).status = 0]
       \/ /\ StreamEnded
          /\ call' = [call EXCEPT !.at = "remove", !.ok = FALSE]
          /\ UNCHANGED answers
    /\ UNCHANGED <<client, child, lines, piped, work, files, features>>

\* Mutant: the hidden states are left in the stream.
Payload_Unread ==
    /\ call.at = "payload"
    /\ \/ /\ answers # <<>>
          /\ call' = [call EXCEPT !.at = "remove", !.ok = TRUE, !.hidden = Head(answers)]
       \/ /\ StreamEnded
          /\ call' = [call EXCEPT !.at = "remove", !.ok = FALSE]
    /\ UNCHANGED <<client, child, lines, piped, answers, work, files, features>>

Payload ==
    /\ call.at = "payload"
    /\ \/ /\ answers # <<>>
          /\ answers' = Tail(answers)
          /\ call' = [call EXCEPT !.at = "remove", !.ok = TRUE, !.hidden = Head(answers)]
       \/ /\ StreamEnded
          /\ call' = [call EXCEPT !.at = "remove", !.ok = FALSE]
          /\ UNCHANGED answers
    /\ UNCHANGED <<client, child, lines, piped, work, files, features>>

\* Mutant: a failed call returns before it removes its file.
RemoveFile_OnlyOk ==
    /\ call.at = "remove"
    /\ files' = IF call.ok THEN [p \in DOMAIN files \ {call.path} |-> files[p]] ELSE files
    /\ call' = Ended(call.ok)
    /\ UNCHANGED <<client, child, lines, piped, answers, work, features>>

\* std::remove, whatever the answer was.
RemoveFile ==
    /\ call.at = "remove"
    /\ files' = [p \in DOMAIN files \ {call.path} |-> files[p]]
    /\ call' = Ended(call.ok)
    /\ UNCHANGED <<client, child, lines, piped, answers, work, features>>

-----------------------------------------------------------------------------
(* The client: close, also on the failing paths of start.                   *)

\* Mutant: close waits for the child before it closes the command pipe.
ClosePipes_After ==
    /\ call.at = "closing"
    /\ call' = [call EXCEPT !.at = "wait"]
    /\ UNCHANGED <<client, child, lines, piped, answers, work, files, features>>

\* fclose(cmd_) and close(stream_fd_).
ClosePipes ==
    /\ call.at = "closing"
    /\ piped' = [cmd |-> FALSE, stream |-> FALSE]
    /\ answers' = <<>>
    /\ call' = [call EXCEPT !.at = "wait"]
    /\ UNCHANGED <<client, child, lines, work, files, features>>

\* Mutant: the child is not waited for.
Reap_NoWait ==
    /\ call.at = "wait"
    /\ client' = [client EXCEPT !.active = FALSE,
                                !.dir = @ /\ ~(client.owns /\ DOMAIN files = {})]
    /\ call' = Ended(call.op = "close")
    /\ UNCHANGED <<child, lines, piped, answers, work, files, features>>

\* waitpid, then rmdir, which an owned directory that is not empty survives.
Reap ==
    /\ call.at = "wait"
    /\ child \in {"none", "zombie"}
    /\ child' = "none"
    /\ client' = [client EXCEPT !.active = FALSE,
                                !.dir = @ /\ ~(client.owns /\ DOMAIN files = {})]
    /\ call' = Ended(call.op = "close")
    /\ UNCHANGED <<lines, piped, answers, work, files, features>>

ClientStep == StartDir \/ StartFork \/ StartReady \/ WriteFile \/ Send \/ Await
              \/ Payload \/ RemoveFile \/ ClosePipes \/ Reap

-----------------------------------------------------------------------------
(* The daemon.                                                              *)

Answer(status) == [status |-> status, of |-> work.path, seen |-> <<>>]

(* Write a word and go on; without a reader SIGPIPE ends the process.       *)
Put(word, next) ==
    IF piped.stream THEN answers' = Append(answers, word) /\ child' = next
    ELSE child' = "zombie" /\ UNCHANGED answers

\* Backend, draft weights and feature features, then the first word.
Ready ==
    /\ child = "loading"
    /\ \/ /\ Put(Answer(0), "waiting")
          /\ features' = Blank(RingCap, Blank(NCapture, Junk))
       \/ MayFail("load") /\ Put(Answer(-1), "zombie") /\ UNCHANGED features
    /\ UNCHANGED <<client, call, lines, piped, work, files>>

\* The next line, or the end of the input once the parent has closed it.
ReadLine ==
    /\ child = "waiting"
    /\ \/ /\ lines # <<>>
          /\ work' = Head(lines) /\ lines' = Tail(lines)
          /\ child' = "serving"
       \/ /\ lines = <<>> /\ ~piped.cmd
          /\ child' = "zombie"
          /\ UNCHANGED <<lines, work>>
    /\ UNCHANGED <<client, call, piped, answers, files, features>>

Readable(path) == path \in DOMAIN files /\ files[path] # Torn

\* feature_slice: the rows go to the ring before the status is written.
ServeSlice ==
    /\ child = "serving" /\ work.op = "feature_slice"
    /\ IF work.capture \in 1 .. NCapture /\ Readable(work.path)
       THEN /\ features' = WriteSlice(features, work.capture, work.start, files[work.path])
            /\ Put(Answer(0), "waiting")
       ELSE Put(Answer(-1), "waiting") /\ UNCHANGED features
    /\ UNCHANGED <<client, call, lines, piped, work, files>>

\* propose: bad arguments, an unreadable file and a failed draft are answered
\* with -1; else the status goes out first.
ServePropose ==
    /\ child = "serving" /\ work.op = "propose"
    /\ \/ /\ work.n <= RingCap /\ Readable(work.path)
          /\ Put(Answer(0), "hidden")
       \/ /\ work.n > RingCap \/ ~Readable(work.path) \/ MayFail("draft")
          /\ Put(Answer(-1), "waiting")
    /\ UNCHANGED <<client, call, lines, piped, work, files, features>>

\* ... and the hidden states after it.
SendHidden ==
    /\ child = "hidden"
    /\ Put([Answer(0) EXCEPT !.seen = ReadRing(features, work.start, work.n)], "waiting")
    /\ UNCHANGED <<client, call, lines, piped, work, files, features>>

DaemonStep == Ready \/ ReadLine \/ ServeSlice \/ ServePropose \/ SendHidden

\* The child is killed, or its executable cannot be started.
Crash ==
    /\ MayFail("crash") /\ child \in Alive
    /\ child' = "zombie"
    /\ UNCHANGED <<client, call, lines, piped, answers, work, files, features>>

-----------------------------------------------------------------------------
(* Properties.                                                              *)

(***************************************************************************)
(* Every status and every block of hidden states in the stream answers the *)
(* call the client is in, the start for 0; between calls the stream and    *)
(* the command pipe are empty, unless the daemon died with a line unread.  *)
(***************************************************************************)
AnswersAreOwn ==
    /\ \A i \in DOMAIN answers : call.at \in {"await", "payload", "closing"}
                                 /\ answers[i].of = call.path
    /\ call.at \in {"idle", "done"} =>
          /\ answers = <<>>
          /\ child \in Alive => lines = <<>> /\ child \in {"waiting"}
    /\ call.at \in {"remove", "done"} /\ call.op = "propose" /\ call.ok => call.hidden.of = call.path

(***************************************************************************)
(* Between calls no temporary file is left behind, apart from those whose  *)
(* own write failed.                                                       *)
(***************************************************************************)
FilesRemoved ==
    call.at \in {"idle", "done"} => \A p \in DOMAIN files : files[p] = Torn

(***************************************************************************)
(* Once the client is closed its child has been waited for, and a work     *)
(* directory of its own is gone unless a failed write left a file in it.   *)
(***************************************************************************)
ClosedCleanly ==
    call.op = "close" /\ call.at = "done" =>
        /\ child = "none" /\ ~client.active
        /\ client.dir => ~client.owns \/ client.failed_write

=============================================================================

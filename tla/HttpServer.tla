----------------------------- MODULE HttpServer -----------------------------
(***************************************************************************)
(* The threads of the native HTTP server (dflash/src/server/http_server.*  *)
(* and server_main.cpp): the main thread that accepts connections, one     *)
(* detached thread per connection, the single worker thread, and the       *)
(* signal handler. A job lives on the stack of the client thread that      *)
(* submitted it, so a job is named by its client.                          *)
(*                                                                         *)
(* A condition variable is a program counter "asleep"; notifying it moves  *)
(* that thread to "woken". A mutex is a variable naming its holder while   *)
(* the holder is between two steps; a critical section with nothing to     *)
(* observe inside is a single step guarded by the mutex being free.        *)
(*                                                                         *)
(* Operators named Action_Fault are faulty variants of an action, kept to  *)
(* test that the properties notice the fault.                              *)
(***************************************************************************)
EXTENDS Integers, Sequences, FiniteSets

CONSTANTS
  Clients,   \* connections, each served by its own detached thread
  NoJob      \* the null ServerJob pointer

ASSUME NoJobAssumption == NoJob \notin Clients
ASSUME ClientsAssumption == IsFiniteSet(Clients)

VARIABLES
  main,        \* program counter of run() and of what follows it in main()
  worker,      \* program counter of worker_loop()
  client,      \* program counter of each client thread
  stopping,    \* stopping_
  queue,       \* queue_head_ .. queue_tail_
  queue_mu,    \* holder of queue_mu_
  active,      \* active_clients_
  clients_mu,  \* holder of clients_mu_
  cur,         \* the job in the worker's hands
  done,        \* job.done
  job_mu,      \* holder of job.mu
  reply        \* what became of the request (history)

vars == <<main, worker, client, stopping, queue, queue_mu, active,
          clients_mu, cur, done, job_mu, reply>>

queueVars == <<queue, queue_mu>>
jobVars   == <<done, job_mu, reply>>

MainPC   == {"accept", "spawn", "notify", "lockClients", "park", "asleep", "woken",
             "join", "save", "returned", "destroyed"}
WorkerPC == {"check", "park", "asleep", "woken", "take", "serve", "finish",
             "signal", "unlock", "exited"}
ClientPC == {"none", "accepted", "reading", "parse", "enqueue", "check", "asleep", "woken",
             "closing", "lockNotify", "gone"}

\* The client thread is inside route_request with its ServerJob on the stack,
\* waiting for the job to be done.
Waiting == {"check", "asleep", "woken"}

Init ==
  /\ main = "accept"
  /\ worker = "check"
  /\ client = [c \in Clients |-> "none"]
  /\ stopping = FALSE
  /\ queue = <<>> /\ queue_mu = "free"
  /\ active = 0 /\ clients_mu = "free"
  /\ cur = NoJob
  /\ done = [c \in Clients |-> FALSE]
  /\ job_mu = [c \in Clients |-> "free"]
  /\ reply = [c \in Clients |-> "none"]

-----------------------------------------------------------------------------
(* Condition variables *)

\* queue_cv_.notify_one() and notify_all(): the worker is its only waiter.
NotifyWorker == worker' = IF worker = "asleep" THEN "woken" ELSE worker

-----------------------------------------------------------------------------
(* The signal handler: HttpServer::request_stop() on the main thread. It    *)
(* notifies nobody.                                                         *)
RequestStop ==
  /\ ~stopping /\ main # "destroyed"
  /\ stopping' = TRUE
  /\ UNCHANGED <<main, worker, client, queueVars, active, clients_mu, cur, jobVars>>

-----------------------------------------------------------------------------
(* The main thread: HttpServer::run(), then main() *)

\* accept() returns a connection.
Accept(c) ==
  /\ main = "accept" /\ ~stopping
  /\ client[c] = "none"
  /\ client' = [client EXCEPT ![c] = "accepted"]
  /\ main' = "spawn"
  /\ UNCHANGED <<worker, stopping, queueVars, active, clients_mu, cur, jobVars>>

SpawnClient_NotCounted(c) ==
  /\ main = "spawn" /\ client[c] = "accepted"
  /\ client' = [client EXCEPT ![c] = "reading"]
  /\ main' = "accept"
  /\ UNCHANGED <<worker, stopping, queueVars, active, clients_mu, cur, jobVars>>

\* Count it and detach its thread, even if a stop was requested meanwhile.
SpawnClient(c) ==
  /\ main = "spawn" /\ client[c] = "accepted"
  /\ active' = active + 1
  /\ client' = [client EXCEPT ![c] = "reading"]
  /\ main' = "accept"
  /\ UNCHANGED <<worker, stopping, queueVars, clients_mu, cur, jobVars>>

\* The handler closed the listening socket, accept() fails and the loop ends.
LeaveAcceptLoop ==
  /\ main = "accept" /\ stopping
  /\ main' = "notify"
  /\ UNCHANGED <<worker, client, stopping, queueVars, active, clients_mu, cur, jobVars>>

\* queue_cv_.notify_all(), without holding queue_mu_.
WakeWorker ==
  /\ main = "notify"
  /\ NotifyWorker
  /\ main' = "lockClients"
  /\ UNCHANGED <<client, stopping, queueVars, active, clients_mu, cur, jobVars>>

\* clients_cv_.wait(lk, active == 0): lock, evaluate the predicate ...
CheckClients ==
  /\ main \in {"lockClients", "woken"}
  /\ clients_mu = "free"
  /\ IF active = 0
       THEN main' = "join" /\ UNCHANGED clients_mu
       ELSE main' = "park" /\ clients_mu' = "main"
  /\ UNCHANGED <<worker, client, stopping, queueVars, active, cur, jobVars>>

\* ... and block, releasing the mutex.
ParkMain ==
  /\ main = "park"
  /\ main' = "asleep"
  /\ clients_mu' = "free"
  /\ UNCHANGED <<worker, client, stopping, queueVars, active, cur, jobVars>>

Join_NotWaited ==
  /\ main = "join"
  /\ main' = "save"
  /\ UNCHANGED <<worker, client, stopping, queueVars, active, clients_mu, cur, jobVars>>

\* worker_thread_.join()
Join ==
  /\ main = "join"
  /\ worker = "exited"
  /\ main' = "save"
  /\ UNCHANGED <<worker, client, stopping, queueVars, active, clients_mu, cur, jobVars>>

\* Persist slot_tokens_, return from run(), backend->shutdown().
SaveAndReturn ==
  /\ main = "save"
  /\ main' = "returned"
  /\ UNCHANGED <<worker, client, stopping, queueVars, active, clients_mu, cur, jobVars>>

\* ~HttpServer() runs shutdown(): whatever is still queued is marked done
\* without being served, and the members are destroyed.
Destroy ==
  /\ main = "returned" /\ queue_mu = "free"
  /\ stopping' = TRUE
  /\ NotifyWorker
  /\ done' = [c \in Clients |-> done[c] \/ \E i \in 1..Len(queue) : queue[i] = c]
  /\ queue' = <<>>
  /\ main' = "destroyed"
  /\ UNCHANGED <<client, queue_mu, active, clients_mu, cur, job_mu, reply>>

-----------------------------------------------------------------------------
(* A client thread: handle_client() and route_request() *)

\* read_http_request and the answers that need no worker: a bad request,
\* OPTIONS, GET and a non-POST or unknown endpoint are replied to at once.
ReadRequest(c) ==
  /\ client[c] = "reading"
  /\ \E next \in {"parse", "closing"} : client' = [client EXCEPT ![c] = next]
  /\ UNCHANGED <<main, worker, stopping, queueVars, active, clients_mu, cur, jobVars>>

\* Parse the body and render the prompt: a JSON or template error, or a prompt
\* that does not fit max_ctx, is replied to without the worker.
ParseRequest(c) ==
  /\ client[c] = "parse"
  /\ \E next \in {"enqueue", "closing"} : client' = [client EXCEPT ![c] = next]
  /\ UNCHANGED <<main, worker, stopping, queueVars, active, clients_mu, cur, jobVars>>

Enqueue_NoStopCheck(c) ==
  /\ client[c] = "enqueue" /\ queue_mu = "free"
  /\ client' = [client EXCEPT ![c] = "check"]
  /\ queue' = Append(queue, c)
  /\ NotifyWorker
  /\ UNCHANGED <<main, stopping, queue_mu, active, clients_mu, cur, jobVars>>

Enqueue_NoNotify(c) ==
  /\ client[c] = "enqueue" /\ queue_mu = "free"
  /\ client' = [client EXCEPT ![c] = "check"]
  /\ IF stopping
       THEN /\ done' = [done EXCEPT ![c] = TRUE]
            /\ reply' = [reply EXCEPT ![c] = "refused"]
            /\ UNCHANGED queue
       ELSE /\ queue' = Append(queue, c)
            /\ UNCHANGED <<done, reply>>
  /\ UNCHANGED <<main, worker, stopping, queue_mu, active, clients_mu, cur, job_mu>>

Enqueue_AtFront(c) ==
  /\ client[c] = "enqueue" /\ queue_mu = "free"
  /\ client' = [client EXCEPT ![c] = "check"]
  /\ IF stopping
       THEN /\ done' = [done EXCEPT ![c] = TRUE]
            /\ reply' = [reply EXCEPT ![c] = "refused"]
            /\ UNCHANGED <<queue, worker>>
       ELSE /\ queue' = <<c>> \o queue
            /\ NotifyWorker
            /\ UNCHANGED <<done, reply>>
  /\ UNCHANGED <<main, stopping, queue_mu, active, clients_mu, cur, job_mu>>

\* enqueue(), under queue_mu_: refuse the job when stopping, else append it and
\* notify the worker. The job's own mutex is not contended yet.
Enqueue(c) ==
  /\ client[c] = "enqueue" /\ queue_mu = "free"
  /\ client' = [client EXCEPT ![c] = "check"]
  /\ IF stopping
       THEN /\ done' = [done EXCEPT ![c] = TRUE]
            /\ reply' = [reply EXCEPT ![c] = "refused"]
            /\ UNCHANGED <<queue, worker>>
       ELSE /\ queue' = Append(queue, c)
            /\ NotifyWorker
            /\ UNCHANGED <<done, reply>>
  /\ UNCHANGED <<main, stopping, queue_mu, active, clients_mu, cur, job_mu>>

\* job.cv.wait(lk, job.done). job.done only changes under job.mu, so that
\* evaluating the predicate and blocking is one step. When the job is done
\* route_request returns and its stack frame, the job, is gone.
AwaitDone(c) ==
  /\ client[c] \in {"check", "woken"} /\ job_mu[c] = "free"
  /\ client' = [client EXCEPT ![c] = IF done[c] THEN "closing" ELSE "asleep"]
  /\ UNCHANGED <<main, worker, stopping, queueVars, active, clients_mu, cur, jobVars>>

\* close(fd), then active_clients_.fetch_sub(1): the thread that takes the
\* counter to zero goes on to notify the main thread.
Leave(c) ==
  /\ client[c] = "closing"
  /\ active' = active - 1
  /\ client' = [client EXCEPT ![c] = IF active = 1 THEN "lockNotify" ELSE "gone"]
  /\ UNCHANGED <<main, worker, stopping, queueVars, clients_mu, cur, jobVars>>

NotifyMain_NoLock(c) ==
  /\ client[c] = "lockNotify"
  /\ main' = IF main = "asleep" THEN "woken" ELSE main
  /\ client' = [client EXCEPT ![c] = "gone"]
  /\ UNCHANGED <<worker, stopping, queueVars, active, clients_mu, cur, jobVars>>

\* Lock clients_mu_ and clients_cv_.notify_all().
NotifyMain(c) ==
  /\ client[c] = "lockNotify" /\ clients_mu = "free"
  /\ main' = IF main = "asleep" THEN "woken" ELSE main
  /\ client' = [client EXCEPT ![c] = "gone"]
  /\ UNCHANGED <<worker, stopping, queueVars, active, clients_mu, cur, jobVars>>

-----------------------------------------------------------------------------
(* The worker thread: dequeue() and worker_loop() *)

\* queue_cv_.wait(lk, queue_head_ || stopping_): lock, evaluate the predicate ...
DequeueCheck ==
  /\ worker \in {"check", "woken"} /\ queue_mu = "free"
  /\ queue_mu' = "worker"
  /\ worker' = IF queue # <<>> \/ stopping THEN "take" ELSE "park"
  /\ UNCHANGED <<main, client, stopping, queue, active, clients_mu, cur, jobVars>>

\* ... and block, releasing queue_mu_.
ParkWorker ==
  /\ worker = "park"
  /\ worker' = "asleep"
  /\ queue_mu' = "free"
  /\ UNCHANGED <<main, client, stopping, queue, active, clients_mu, cur, jobVars>>

DequeueTake_NoDrain ==
  /\ worker = "take"
  /\ queue_mu' = "free"
  /\ IF stopping
       THEN worker' = "exited" /\ UNCHANGED <<cur, queue>>
       ELSE /\ worker' = "serve"
            /\ cur' = Head(queue)
            /\ queue' = Tail(queue)
  /\ UNCHANGED <<main, client, stopping, active, clients_mu, jobVars>>

\* Take the head, or leave worker_loop when there is none: jobs queued before
\* the stop are drained first.
DequeueTake ==
  /\ worker = "take"
  /\ queue_mu' = "free"
  /\ IF queue = <<>>
       THEN worker' = "exited" /\ UNCHANGED <<cur, queue>>
       ELSE /\ worker' = "serve"
            /\ cur' = Head(queue)
            /\ queue' = Tail(queue)
  /\ UNCHANGED <<main, client, stopping, active, clients_mu, jobVars>>

\* The body of worker_loop. It ends early when the client is gone before the
\* first event is sent, else after generation; either way the job is finished.
Serve ==
  /\ worker = "serve"
  /\ worker' = "finish"
  /\ UNCHANGED <<main, client, stopping, queueVars, active, clients_mu, cur, jobVars>>

FinishJob_NoLock ==
  /\ worker = "finish"
  /\ done' = [done EXCEPT ![cur] = TRUE]
  /\ reply' = [reply EXCEPT ![cur] = "served"]
  /\ worker' = "signal"
  /\ UNCHANGED <<main, client, stopping, queueVars, active, clients_mu, cur, job_mu>>

\* Lock job->mu and set job->done ...
FinishJob ==
  /\ worker = "finish" /\ job_mu[cur] = "free"
  /\ job_mu' = [job_mu EXCEPT ![cur] = "worker"]
  /\ done' = [done EXCEPT ![cur] = TRUE]
  /\ reply' = [reply EXCEPT ![cur] = "served"]
  /\ worker' = "signal"
  /\ UNCHANGED <<main, client, stopping, queueVars, active, clients_mu, cur>>

SignalJob_Skipped ==
  /\ worker = "signal"
  /\ worker' = "unlock"
  /\ UNCHANGED <<main, client, stopping, queueVars, active, clients_mu, cur, jobVars>>

\* ... job->cv.notify_one() with the mutex held ...
SignalJob ==
  /\ worker = "signal"
  /\ client' = [client EXCEPT ![cur] = IF @ = "asleep" THEN "woken" ELSE @]
  /\ worker' = "unlock"
  /\ UNCHANGED <<main, stopping, queueVars, active, clients_mu, cur, jobVars>>

\* ... and unlock, the last time the worker touches the job.
UnlockJob ==
  /\ worker = "unlock"
  /\ job_mu' = [job_mu EXCEPT ![cur] = "free"]
  /\ cur' = NoJob
  /\ worker' = "check"
  /\ UNCHANGED <<main, client, stopping, queueVars, active, clients_mu, done, reply>>

-----------------------------------------------------------------------------
(* A condition variable may wake its waiter for no reason. *)
SpuriousWake ==
  /\ \/ /\ worker = "asleep" /\ worker' = "woken"
        /\ UNCHANGED <<main, client>>
     \/ /\ main = "asleep" /\ main' = "woken"
        /\ UNCHANGED <<worker, client>>
     \/ \E c \in Clients :
          /\ client[c] = "asleep" /\ client' = [client EXCEPT ![c] = "woken"]
          /\ UNCHANGED <<main, worker>>
  /\ UNCHANGED <<stopping, queueVars, active, clients_mu, cur, jobVars>>

MainStep ==
  \/ \E c \in Clients : SpawnClient(c)
  \/ LeaveAcceptLoop \/ WakeWorker \/ CheckClients \/ ParkMain
  \/ Join \/ SaveAndReturn \/ Destroy

ClientStep(c) ==
  \/ ReadRequest(c) \/ ParseRequest(c) \/ Enqueue(c) \/ AwaitDone(c)
  \/ Leave(c) \/ NotifyMain(c)

WorkerStep ==
  \/ DequeueCheck \/ ParkWorker \/ DequeueTake \/ Serve
  \/ FinishJob \/ SignalJob \/ UnlockJob

Next ==
  \/ RequestStop
  \/ \E c \in Clients : Accept(c)
  \/ \E c \in Clients : ClientStep(c)
  \/ MainStep
  \/ WorkerStep
  \/ SpuriousWake

\* The operating system schedules every runnable thread, and every generation
\* and every socket read or write ends (max_output bounds the first and the send
\* deadline the last; a peer is assumed to send its request or to hang up).
\* Connections, signals and spurious wake-ups need not happen.
Fairness ==
  /\ WF_vars(MainStep)
  /\ WF_vars(WorkerStep)
  /\ \A c \in Clients : WF_vars(ClientStep(c))

Spec == Init /\ [][Next]_vars
FairSpec == Spec /\ Fairness

-----------------------------------------------------------------------------
(* Properties *)

TypeOK ==
  /\ main \in MainPC
  /\ worker \in WorkerPC
  /\ client \in [Clients -> ClientPC]
  /\ stopping \in BOOLEAN
  /\ queue \in Seq(Clients)
  /\ queue_mu \in {"free", "worker"}
  /\ active \in Nat
  /\ clients_mu \in {"free", "main"}
  /\ cur \in Clients \cup {NoJob}
  /\ done \in [Clients -> BOOLEAN]
  /\ job_mu \in [Clients -> {"free", "worker"}]
  /\ reply \in [Clients -> {"none", "served", "refused"}]

InQueue(c) == \E i \in 1..Len(queue) : queue[i] = c

\* A job lives in its client thread's stack frame (struct ServerJob, "stack-
\* owned by client thread"): as long as the queue or the worker holds a pointer
\* to it, that thread is still inside route_request. No dangling job pointer.
JobAlive ==
  \A c \in Clients : InQueue(c) \/ cur = c => client[c] \in Waiting

\* Once the worker has left worker_loop nobody is left to serve a job: the
\* queue is empty and every client still waiting finds its job done.
NoStrandedJob ==
  worker = "exited" =>
    /\ queue = <<>>
    /\ \A c \in Clients : client[c] \in Waiting => done[c]

\* No wake-up of enqueue() or of the worker's completion is lost: the worker
\* does not sleep on a non-empty queue, and a client sleeps on a done job only
\* in the moment before the worker, holding job.mu, notifies it.
NoLostJobWakeup ==
  /\ worker = "asleep" => queue = <<>>
  /\ \A c \in Clients :
       client[c] = "asleep" /\ done[c] => cur = c /\ worker = "signal"

\* "Safe to access slot_tokens_ without locking - worker is joined": when the
\* main thread persists slot_tokens_, tears down the backend or destroys the
\* server the worker has exited and holds no job, and shutdown()'s drain loop
\* has nothing left to discard.
TeardownAlone ==
  main \in {"save", "returned", "destroyed"} =>
    worker = "exited" /\ cur = NoJob /\ queue = <<>>

\* "Wait for all client threads to finish", as far as it holds: once the main
\* thread is past the wait, every connection was closed and no client thread
\* reads the server's state any more except to notify clients_cv_.
ClientsLeftBeforeJoin ==
  main \in {"join", "save", "returned", "destroyed"} =>
    \A c \in Clients : client[c] \in {"none", "lockNotify", "gone"}

\* The server implements the job service: jobs served one at a time in arrival
\* order, none discarded, new ones refused once it stops.
Service == INSTANCE JobService WITH
  waiting <- (IF cur # NoJob /\ worker \in {"serve", "finish"} THEN <<cur>> ELSE <<>>)
             \o queue,
  open    <- ~stopping,
  answer  <- reply

ServiceSpec == Service!Spec

\* Every client that has submitted a job gets out of route_request again.
JobAnswered ==
  \A c \in Clients : client[c] = "check" ~> client[c] \in {"closing", "lockNotify", "gone"}

\* After a stop request every client thread is seen off: the main thread gets
\* past the wait for active_clients_ == 0 to joining the worker.
StopDrainsClients ==
  stopping ~> main \in {"join", "save", "returned", "destroyed"}

\* The life of a job, from enqueue() to the end of route_request: no dangling pointer to
\* it, nobody left with it when the worker is gone, no wake-up of either side lost.
JobInv == TypeOK /\ JobAlive /\ NoStrandedJob /\ NoLostJobWakeup

\* The tear-down of run() and ~HttpServer: in the order connections closed, worker
\* joined, backend shut down, and alone.
TeardownInv == TeardownAlone /\ ClientsLeftBeforeJoin

\* Under the fairness of the threads nobody is kept: neither a client in route_request,
\* nor, after a stop, the main thread in its wait for the clients.
EveryoneGetsOut == JobAnswered /\ StopDrainsClients

=============================================================================

----------------------- MODULE SynchronisationProofs ------------------------
(***************************************************************************)
(* The two synchronisation protocols of the code, for any number of        *)
(* participants: the mutexes and condition variables of the HTTP server,   *)
(* whose every step is a step of the abstract job service, and the grid    *)
(* barrier of kernel.cu.  They share no state and no definition.           *)
(***************************************************************************)
EXTENDS HttpServer, GridSync, FiniteSetTheorems, TLAPS

(***************************************************************************)
(* For every set of clients: the job queue never holds a dangling or a     *)
(* stranded job and loses no job wake-up, the tear-down is alone, and      *)
(* every step of the server is a step of the abstract job service.         *)
(***************************************************************************)

-----------------------------------------------------------------------------
(* The inductive invariant *)

\* Before it enqueues, a client has no job anywhere.
Fresh == {"none", "accepted", "reading", "parse", "enqueue"}

\* The worker holds a job exactly from dequeue to its last touch of job->mu.
WorkerHoldsJob == cur # NoJob <=> worker \in {"serve", "finish", "signal", "unlock"}

\* Mutexes are held exactly at the program counters inside their sections.
MutexHolders ==
  /\ queue_mu = "worker" <=> worker \in {"park", "take"}
  /\ \A c \in Clients :
       job_mu[c] = "worker" <=> cur = c /\ worker \in {"signal", "unlock"}

\* A queued job is undone, its client waits for it, the worker does not have
\* it, and it is queued once.
QueuedJobs ==
  /\ \A i \in 1..Len(queue) :
       /\ client[queue[i]] \in Waiting
       /\ ~done[queue[i]]
       /\ queue[i] # cur
       /\ reply[queue[i]] = "none"
  /\ \A i, j \in 1..Len(queue) : queue[i] = queue[j] => i = j

\* The job in the worker's hands has a waiting client, and is done exactly
\* after FinishJob.
CurrentJob ==
  cur # NoJob =>
    /\ client[cur] \in Waiting
    /\ done[cur] <=> worker \in {"signal", "unlock"}
    /\ worker \in {"serve", "finish"} => reply[cur] = "none"

\* A waiting client's job is done, queued or being served; a client that has
\* not enqueued yet has an undone job that nobody knows of.
JobSomewhere ==
  \A c \in Clients :
    /\ client[c] \in Waiting /\ ~done[c] =>
         InQueue(c) \/ (cur = c /\ worker \in {"serve", "finish"})
    /\ client[c] \in Fresh => ~done[c] /\ reply[c] = "none"

\* What the worker knew when it last looked at the queue is still true.
WorkerView ==
  /\ worker \in {"park", "asleep", "exited"} => queue = <<>>
  /\ worker = "take" => queue # <<>> \/ stopping
  /\ worker = "exited" => stopping

\* The main thread leaves the accept loop only after a stop request, and goes
\* past join only after the worker has exited.
MainView ==
  /\ main \notin {"accept", "spawn"} => stopping
  /\ main \in {"save", "returned", "destroyed"} => worker = "exited"

\* A client sleeps on a done job only until the notification under way.
SleepersNotified ==
  \A c \in Clients : client[c] = "asleep" /\ done[c] => cur = c /\ worker = "signal"

\* The threads that active_clients_ counts, from before they are detached until
\* they have closed their connection.
Counted == {c \in Clients : client[c] \in {"reading", "parse", "enqueue", "closing"} \cup Waiting}

\* active_clients_ is their number, and it stays zero once the main thread has
\* seen it at zero; a connection is uncounted only until it is spawned.
CountOK ==
  /\ active = Cardinality(Counted)
  /\ main \in {"join", "save", "returned", "destroyed"} => active = 0
  /\ \A c \in Clients : client[c] = "accepted" => main = "spawn"
  /\ \A c, d \in Clients : client[c] = "accepted" /\ client[d] = "accepted" => c = d

IInv ==
  /\ TypeOK
  /\ CountOK
  /\ WorkerHoldsJob
  /\ MutexHolders
  /\ QueuedJobs
  /\ CurrentJob
  /\ JobSomewhere
  /\ WorkerView
  /\ MainView
  /\ SleepersNotified

-----------------------------------------------------------------------------
(* Sequences *)

\* The elements of a sequence after Append and Tail, by position.
LEMMA SeqFacts ==
  ASSUME NEW S, NEW s \in Seq(S)
  PROVE  /\ \A e \in S : /\ Append(s, e) \in Seq(S)
                         /\ Len(Append(s, e)) = Len(s) + 1
                         /\ Append(s, e)[Len(s) + 1] = e
                         /\ \A i \in 1..Len(s) : Append(s, e)[i] = s[i]
         /\ s # <<>> => /\ Len(s) \in Nat \ {0}
                        /\ Head(s) \in S /\ Head(s) = s[1]
                        /\ Tail(s) \in Seq(S)
                        /\ Len(Tail(s)) = Len(s) - 1
                        /\ \A i \in 1..(Len(s) - 1) : Tail(s)[i] = s[i + 1]
OBVIOUS

-----------------------------------------------------------------------------
(* The invariant is inductive *)

LEMMA InitIInv == Init => IInv
<1> SUFFICES ASSUME Init PROVE IInv
  OBVIOUS
<1> USE DEF Init
<1>1. TypeOK
  <2>1. done \in [Clients -> BOOLEAN] /\ stopping \in BOOLEAN OBVIOUS
  <2>2. queue \in Seq(Clients) /\ active \in Nat OBVIOUS
  <2>3. client \in [Clients -> ClientPC] BY DEF ClientPC
  <2>4. job_mu \in [Clients -> {"free", "worker"}] OBVIOUS
  <2>5. reply \in [Clients -> {"none", "served", "refused"}] OBVIOUS
  <2>6. cur \in Clients \cup {NoJob} OBVIOUS
  <2> QED BY <2>1, <2>2, <2>3, <2>4, <2>5, <2>6 DEF TypeOK, MainPC, WorkerPC
<1>2. WorkerHoldsJob /\ MutexHolders
  BY NoJobAssumption DEF WorkerHoldsJob, MutexHolders
<1>3. QueuedJobs /\ CurrentJob BY DEF QueuedJobs, CurrentJob
<1>4. JobSomewhere BY DEF JobSomewhere, Waiting, Fresh
<1>5. WorkerView /\ MainView BY DEF WorkerView, MainView
<1>6. SleepersNotified BY DEF SleepersNotified
<1>7. CountOK
  <2>1. Counted = {} BY DEF Counted, Waiting
  <2>2. Cardinality({}) = 0 BY FS_EmptySet
  <2> QED BY <2>1, <2>2 DEF CountOK
<1> QED BY <1>1, <1>2, <1>3, <1>4, <1>5, <1>6, <1>7 DEF IInv

\* Every set of counted threads is finite; a thread that leaves was counted.
LEMMA CountFacts ==
  /\ IsFiniteSet(Counted) /\ Cardinality(Counted) \in Nat
  /\ \A c \in Counted : Cardinality(Counted) > 0 /\ Cardinality(Counted \ {c}) = Cardinality(Counted) - 1
  /\ \A c : c \notin Counted => Cardinality(Counted \cup {c}) = Cardinality(Counted) + 1
<1>1. Counted \subseteq Clients BY DEF Counted
<1>2. IsFiniteSet(Counted) BY <1>1, ClientsAssumption, FS_Subset
<1>3. Cardinality(Counted) \in Nat BY <1>2, FS_CardinalityType
<1>4. ASSUME NEW c \in Counted PROVE Cardinality(Counted) > 0
  <2>1. Cardinality(Counted) # 0 BY <1>2, <1>4, FS_EmptySet
  <2> QED BY <1>3, <2>1
<1>5. ASSUME NEW c \in Counted PROVE Cardinality(Counted \ {c}) = Cardinality(Counted) - 1
  BY <1>2, <1>5, FS_RemoveElement
<1>6. ASSUME NEW c, c \notin Counted PROVE Cardinality(Counted \cup {c}) = Cardinality(Counted) + 1
  BY <1>2, <1>6, FS_AddElement
<1> QED BY <1>2, <1>3, <1>4, <1>5, <1>6

\* active_clients_ goes up and down with the threads it counts.
LEMMA NextCountOK == TypeOK /\ CountOK /\ [Next]_vars => CountOK'
<1> SUFFICES ASSUME TypeOK, CountOK, [Next]_vars PROVE CountOK'
  OBVIOUS
<1> DEFINE Rest == /\ main' \in {"join", "save", "returned", "destroyed"} => active' = 0
                   /\ \A c \in Clients : client'[c] = "accepted" => main' = "spawn"
                   /\ \A c, d \in Clients :
                        client'[c] = "accepted" /\ client'[d] = "accepted" => c = d
<1> USE DEF queueVars, jobVars
<1>0. client \in [Clients -> ClientPC] BY DEF TypeOK
<1>1. ASSUME Counted' = Counted, active' = active, Rest PROVE CountOK'
  BY <1>1 DEF CountOK
<1>2. CASE RequestStop
  BY <1>1, <1>2 DEF RequestStop, CountOK, Counted
<1>3. ASSUME NEW c \in Clients, Accept(c) PROVE CountOK'
  <2>1. Counted' = Counted BY <1>0, <1>3 DEF Accept, Counted, Waiting
  <2> QED BY <1>0, <1>1, <1>3, <2>1 DEF Accept, CountOK
<1>4. ASSUME NEW c \in Clients, Leave(c) PROVE CountOK'
  <2>1. c \in Counted BY <1>4 DEF Leave, Counted
  <2>2. Counted' = Counted \ {c} BY <1>0, <1>4 DEF Leave, Counted, Waiting
  <2>3. Rest
    <3>1. active > 0 BY <2>1, CountFacts DEF CountOK
    <3>2. main' = main /\ main \notin {"join", "save", "returned", "destroyed"}
      BY <1>4, <3>1 DEF Leave, CountOK
    <3>3. \A d \in Clients : client'[d] = "accepted" => client[d] = "accepted"
      BY <1>0, <1>4 DEF Leave
    <3> QED BY <3>2, <3>3 DEF CountOK
  <2> QED BY <1>4, <2>1, <2>2, <2>3, CountFacts DEF Leave, CountOK
<1>5. ASSUME NEW c \in Clients, SpawnClient(c) PROVE CountOK'
  <2>1. c \notin Counted BY <1>5 DEF SpawnClient, Counted, Waiting
  <2>2. Counted' = Counted \cup {c} BY <1>0, <1>5 DEF SpawnClient, Counted, Waiting
  <2>3. main' = "accept" /\ \A d \in Clients : client'[d] # "accepted"
    <3>1. \A d \in Clients : d # c => client[d] # "accepted"
      BY <1>5 DEF SpawnClient, CountOK
    <3> QED BY <1>0, <1>5, <3>1 DEF SpawnClient
  <2> QED BY <1>5, <2>1, <2>2, <2>3, CountFacts DEF SpawnClient, CountOK
<1>6. ASSUME NEW c \in Clients, ClientStep(c), ~Leave(c) PROVE CountOK'
  <2>1. /\ client[c] \in {"reading", "parse", "enqueue"} \cup Waiting
        /\ active' = active /\ main' = main
        /\ \E pc \in {"parse", "enqueue", "closing"} \cup Waiting :
             client' = [client EXCEPT ![c] = pc]
    \/ /\ client[c] = "lockNotify" /\ client' = [client EXCEPT ![c] = "gone"]
       /\ active' = active /\ main' \in {main, "woken"}
       /\ main' # main => main = "asleep"
    <3>1. CASE ReadRequest(c) BY <3>1 DEF ReadRequest
    <3>2. CASE ParseRequest(c) BY <3>2 DEF ParseRequest
    <3>3. CASE Enqueue(c) BY <3>3 DEF Enqueue, Waiting
    <3>4. CASE AwaitDone(c) BY <3>4 DEF AwaitDone, Waiting
    <3>5. CASE NotifyMain(c) BY <3>5 DEF NotifyMain
    <3> QED BY <1>6, <3>1, <3>2, <3>3, <3>4, <3>5 DEF ClientStep
  <2>2. Counted' = Counted BY <1>0, <2>1 DEF Counted, Waiting
  <2>3. \A d \in Clients : client'[d] = "accepted" => client[d] = "accepted"
    BY <1>0, <2>1 DEF Waiting
  <2>4. Rest BY <2>1, <2>3 DEF CountOK
  <2> QED BY <1>1, <2>1, <2>2, <2>4
<1>7. ASSUME UNCHANGED <<client, active>>,
             \/ main \notin {"accept", "spawn"} /\ main' # "join"
             \/ main' = main
             \/ main = "accept" /\ main' = "notify"
             \/ main' = "join" /\ main # "spawn" /\ active = 0,
             main' \in {"save", "returned", "destroyed"} =>
               main \in {"join", "save", "returned", "destroyed"}
      PROVE  CountOK'
  <2>1. Counted' = Counted BY <1>7 DEF Counted
  <2>2. Rest BY <1>7 DEF CountOK
  <2> QED BY <1>1, <1>7, <2>1, <2>2
<1>8. CASE MainStep
  <2>1. CASE LeaveAcceptLoop BY <1>7, <2>1 DEF LeaveAcceptLoop
  <2>2. CASE WakeWorker BY <1>7, <2>2 DEF WakeWorker
  <2>3. CASE CheckClients BY <1>7, <2>3 DEF CheckClients
  <2>4. CASE ParkMain BY <1>7, <2>4 DEF ParkMain
  <2>5. CASE Join BY <1>7, <2>5 DEF Join
  <2>6. CASE SaveAndReturn BY <1>7, <2>6 DEF SaveAndReturn
  <2>7. CASE Destroy BY <1>7, <2>7 DEF Destroy
  <2> QED BY <1>5, <1>8, <2>1, <2>2, <2>3, <2>4, <2>5, <2>6, <2>7 DEF MainStep
<1>9. CASE WorkerStep
  <2>1. CASE SignalJob
    <3>1. /\ active' = active /\ main' = main
          /\ client' = [client EXCEPT ![cur] = IF @ = "asleep" THEN "woken" ELSE @]
      BY <2>1 DEF SignalJob
    <3>2. Counted' = Counted BY <1>0, <3>1 DEF Counted, Waiting
    <3>3. \A d \in Clients : client'[d] = "accepted" => client[d] = "accepted" BY <1>0, <3>1
    <3> QED BY <1>1, <3>1, <3>2, <3>3 DEF CountOK
  <2>2. CASE UNCHANGED <<client, active, main>> BY <1>7, <2>2
  <2> QED BY <1>9, <2>1, <2>2 DEF WorkerStep, DequeueCheck, ParkWorker, DequeueTake, Serve,
        FinishJob, UnlockJob
<1>10. CASE SpuriousWake
  <2>1. CASE UNCHANGED client
    BY <1>7, <1>10, <2>1 DEF SpuriousWake
  <2>2. CASE \E c \in Clients : /\ client[c] = "asleep" /\ client' = [client EXCEPT ![c] = "woken"]
                               /\ UNCHANGED <<main, worker>>
    <3>1. Counted' = Counted BY <1>0, <2>2 DEF Counted, Waiting
    <3>2. \A d \in Clients : client'[d] = "accepted" => client[d] = "accepted" BY <1>0, <2>2
    <3>3. active' = active BY <1>10 DEF SpuriousWake
    <3> QED BY <1>1, <2>2, <3>1, <3>2, <3>3 DEF CountOK
  <2> QED BY <1>10, <2>1, <2>2 DEF SpuriousWake
<1>11. CASE UNCHANGED vars BY <1>7, <1>11 DEF vars
<1> QED BY <1>2, <1>3, <1>4, <1>6, <1>8, <1>9, <1>10, <1>11 DEF Next

\* Type correctness of the server's state, one step per action.
LEMMA NextTypeOK == TypeOK /\ CountOK /\ WorkerHoldsJob /\ WorkerView /\ [Next]_vars => TypeOK'
<1> SUFFICES ASSUME TypeOK, CountOK, WorkerHoldsJob, WorkerView, [Next]_vars PROVE TypeOK'
  OBVIOUS
<1> USE DEF TypeOK, WorkerHoldsJob, MainPC, WorkerPC, ClientPC, queueVars, jobVars
<1>1. CASE RequestStop BY <1>1 DEF RequestStop
<1>2. ASSUME NEW c \in Clients, Accept(c) PROVE TypeOK'
  BY <1>2 DEF Accept
<1>3. ASSUME NEW c \in Clients, ClientStep(c) PROVE TypeOK'
  <2>1. CASE ReadRequest(c) BY <2>1 DEF ReadRequest
  <2>2. CASE ParseRequest(c) BY <2>2 DEF ParseRequest
  <2>3. CASE Enqueue(c)
    <3>1. worker' \in WorkerPC BY <2>3 DEF Enqueue, NotifyWorker
    <3>2. queue' \in Seq(Clients) BY SMTT(30), <2>3, SeqFacts DEF Enqueue
    <3>3. done' \in [Clients -> BOOLEAN] BY <2>3 DEF Enqueue
    <3>4. reply' \in [Clients -> {"none", "served", "refused"}] BY <2>3 DEF Enqueue
    <3>5. client' \in [Clients -> ClientPC] BY <2>3 DEF Enqueue
    <3> QED BY <2>3, <3>1, <3>2, <3>3, <3>4, <3>5 DEF Enqueue
  <2>4. CASE AwaitDone(c) BY <2>4 DEF AwaitDone
  <2>5. CASE Leave(c)
    <3>1. c \in Counted BY <2>5 DEF Leave, Counted
    <3>2. active \in Nat /\ active > 0 BY <3>1, CountFacts DEF CountOK
    <3>3. active' \in Nat BY <2>5, <3>2 DEF Leave
    <3> QED BY <2>5, <3>3 DEF Leave
  <2>6. CASE NotifyMain(c) BY <2>6 DEF NotifyMain
  <2> QED BY <1>3, <2>1, <2>2, <2>3, <2>4, <2>5, <2>6 DEF ClientStep
<1>4. CASE MainStep
  <2>0. CASE \E c \in Clients : SpawnClient(c) BY <2>0 DEF SpawnClient
  <2>1. CASE LeaveAcceptLoop BY <2>1 DEF LeaveAcceptLoop
  <2>2. CASE WakeWorker BY <2>2 DEF WakeWorker, NotifyWorker
  <2>3. CASE CheckClients BY <2>3 DEF CheckClients
  <2>4. CASE ParkMain BY <2>4 DEF ParkMain
  <2>5. CASE Join BY <2>5 DEF Join
  <2>6. CASE SaveAndReturn BY <2>6 DEF SaveAndReturn
  <2>7. CASE Destroy
    <3>1. done' \in [Clients -> BOOLEAN] BY <2>7 DEF Destroy
    <3> QED BY <2>7, <3>1 DEF Destroy, NotifyWorker
  <2> QED BY <1>4, <2>0, <2>1, <2>2, <2>3, <2>4, <2>5, <2>6, <2>7 DEF MainStep
<1>5. CASE WorkerStep
  <2>1. CASE DequeueCheck BY <2>1 DEF DequeueCheck
  <2>2. CASE ParkWorker BY <2>2 DEF ParkWorker
  <2>3. CASE DequeueTake BY <2>3, SeqFacts DEF DequeueTake
  <2>4. CASE Serve BY <2>4 DEF Serve
  <2>5. CASE FinishJob BY <2>5 DEF FinishJob
  <2>6. CASE SignalJob BY <2>6 DEF SignalJob
  <2>7. CASE UnlockJob BY <2>7 DEF UnlockJob
  <2> QED BY <1>5, <2>1, <2>2, <2>3, <2>4, <2>5, <2>6, <2>7 DEF WorkerStep
<1>6. CASE SpuriousWake BY <1>6 DEF SpuriousWake
<1>7. CASE UNCHANGED vars BY <1>7 DEF vars
<1> QED BY <1>1, <1>2, <1>3, <1>4, <1>5, <1>6, <1>7 DEF Next

\* Every step keeps the invariant.
LEMMA NextIInv == IInv /\ [Next]_vars => IInv'
<1> SUFFICES ASSUME IInv, [Next]_vars PROVE IInv'
  OBVIOUS
<1>0. TypeOK' /\ CountOK' BY NextTypeOK, NextCountOK DEF IInv
<1> USE <1>0, NoJobAssumption DEF IInv, TypeOK, WorkerHoldsJob, MutexHolders, QueuedJobs,
    CurrentJob, JobSomewhere, WorkerView, MainView, SleepersNotified, Waiting, Fresh, InQueue,
    queueVars, jobVars
<1>1. CASE RequestStop BY <1>1 DEF RequestStop
<1>2. ASSUME NEW c \in Clients, Accept(c) PROVE IInv'
  BY <1>2 DEF Accept
<1>3. ASSUME NEW c \in Clients, ClientStep(c) PROVE IInv'
  <2>1. CASE ReadRequest(c) BY <2>1 DEF ReadRequest
  <2>2. CASE ParseRequest(c) BY <2>2 DEF ParseRequest
  <2>3. CASE Enqueue(c)
    <3>1. CASE stopping BY <2>3, <3>1 DEF Enqueue
    <3>2. CASE ~stopping
      <4>1. /\ queue' = Append(queue, c) /\ Len(queue') = Len(queue) + 1
            /\ queue'[Len(queue) + 1] = c
            /\ \A i \in 1..Len(queue) : queue'[i] = queue[i]
            /\ Len(queue) \in Nat
        <5> HIDE DEF IInv, WorkerHoldsJob, MutexHolders, QueuedJobs, CurrentJob, JobSomewhere,
                 WorkerView, MainView, SleepersNotified, InQueue
        <5>1. queue \in Seq(Clients) BY DEF IInv
        <5>2. queue' = Append(queue, c) BY <2>3, <3>2 DEF Enqueue
        <5> QED BY ONLY <5>1, <5>2, SeqFacts, c \in Clients
      <4>2. ~InQueue(c) /\ cur # c /\ ~done[c] /\ reply[c] = "none"
        BY <2>3 DEF Enqueue
      <4>3. QueuedJobs' BY <2>3, <3>2, <4>1, <4>2 DEF Enqueue
      <4>4. JobSomewhere'
        <5>1. \A d \in Clients : InQueue(d) => InQueue(d)' BY <4>1
        <5>2. InQueue(c)' BY <4>1
        <5> QED BY <2>3, <3>2, <5>1, <5>2 DEF Enqueue, NotifyWorker
      <4>5. WorkerView' BY <2>3, <3>2, <4>1 DEF Enqueue, NotifyWorker
      <4>6. WorkerHoldsJob' /\ MutexHolders' /\ CurrentJob' /\ MainView' /\ SleepersNotified'
        BY <2>3, <3>2, <4>2 DEF Enqueue, NotifyWorker
      <4> QED BY <4>3, <4>4, <4>5, <4>6
    <3> QED BY <3>1, <3>2
  <2>4. CASE AwaitDone(c) BY <2>4 DEF AwaitDone
  <2>5. CASE Leave(c) BY <2>5 DEF Leave
  <2>6. CASE NotifyMain(c) BY <2>6 DEF NotifyMain
  <2> QED BY <1>3, <2>1, <2>2, <2>3, <2>4, <2>5, <2>6 DEF ClientStep
<1>4. CASE MainStep
  <2>0. CASE \E c \in Clients : SpawnClient(c) BY <2>0 DEF SpawnClient
  <2>1. CASE LeaveAcceptLoop BY <2>1 DEF LeaveAcceptLoop
  <2>2. CASE WakeWorker BY <2>2 DEF WakeWorker, NotifyWorker
  <2>3. CASE CheckClients BY <2>3 DEF CheckClients
  <2>4. CASE ParkMain BY <2>4 DEF ParkMain
  <2>5. CASE Join BY <2>5 DEF Join
  <2>6. CASE SaveAndReturn BY <2>6 DEF SaveAndReturn
  <2>7. CASE Destroy BY <2>7 DEF Destroy, NotifyWorker
  <2> QED BY <1>4, <2>0, <2>1, <2>2, <2>3, <2>4, <2>5, <2>6, <2>7 DEF MainStep
<1>5. CASE WorkerStep
  <2>1. CASE DequeueCheck BY <2>1 DEF DequeueCheck
  <2>2. CASE ParkWorker BY <2>2 DEF ParkWorker
  <2>3. CASE DequeueTake
    <3>1. CASE queue = <<>> BY <2>3, <3>1 DEF DequeueTake
    <3>2. CASE queue # <<>>
      <4>1. /\ cur' = queue[1] /\ cur' \in Clients
            /\ Len(queue) \in Nat \ {0} /\ Len(queue') = Len(queue) - 1
            /\ \A i \in 1..(Len(queue) - 1) : queue'[i] = queue[i + 1]
        <5>1. cur' = Head(queue) /\ queue' = Tail(queue) BY <2>3, <3>2 DEF DequeueTake
        <5>2. queue \in Seq(Clients) OBVIOUS
        <5> HIDE DEF IInv, TypeOK
        <5> QED BY <5>1, <5>2, <3>2, SeqFacts
      <4>2. QueuedJobs'
        <5>1. \A i \in 1..Len(queue') : i + 1 \in 1..Len(queue) /\ queue'[i] = queue[i + 1]
          BY <4>1
        <5>2. ~\E i \in 1..Len(queue') : queue'[i] = cur' BY <4>1, <5>1
        <5>3. \A i, j \in 1..Len(queue') : queue'[i] = queue'[j] => i = j BY <5>1, <4>1, SMTT(20)
        <5> QED BY <2>3, <3>2, <5>1, <5>2, <5>3 DEF DequeueTake
      <4>3. JobSomewhere'
        <5>1. ASSUME NEW d \in Clients, InQueue(d) PROVE InQueue(d)' \/ cur' = d
          <6>1. PICK i \in 1..Len(queue) : queue[i] = d BY <5>1
          <6>2. CASE i = 1 BY <6>1, <6>2, <4>1
          <6>3. CASE i # 1
            <7>1. i - 1 \in 1..Len(queue') BY <6>1, <6>3, <4>1
            <7>2. queue'[i - 1] = d BY <6>1, <6>3, <4>1
            <7> QED BY <7>1, <7>2
          <6> QED BY <6>2, <6>3
        <5> QED BY <2>3, <3>2, <5>1, <4>1 DEF DequeueTake
      <4>4. CurrentJob' BY <2>3, <3>2, <4>1 DEF DequeueTake
      <4>5. WorkerView' /\ MainView' BY <2>3, <3>2, <4>1 DEF DequeueTake
      <4>6. WorkerHoldsJob' /\ MutexHolders' /\ SleepersNotified'
        BY <2>3, <3>2, <4>1 DEF DequeueTake
      <4> QED BY <4>2, <4>3, <4>4, <4>5, <4>6
    <3> QED BY <3>1, <3>2
  <2>4. CASE Serve BY <2>4 DEF Serve
  <2>5. CASE FinishJob BY <2>5 DEF FinishJob
  <2>6. CASE SignalJob BY <2>6 DEF SignalJob
  <2>7. CASE UnlockJob BY <2>7 DEF UnlockJob
  <2> QED BY <1>5, <2>1, <2>2, <2>3, <2>4, <2>5, <2>6, <2>7 DEF WorkerStep
<1>6. CASE SpuriousWake BY <1>6 DEF SpuriousWake
<1>7. CASE UNCHANGED vars BY <1>7 DEF vars
<1> QED BY <1>1, <1>2, <1>3, <1>4, <1>5, <1>6, <1>7 DEF Next

-----------------------------------------------------------------------------
(* The safety theorems *)

\* The inductive invariant holds in every reachable state.
THEOREM Invariance == Spec => []IInv
<1>1. Init => IInv BY InitIInv
<1>2. IInv /\ [Next]_vars => IInv' BY NextIInv
<1> QED BY <1>1, <1>2, PTL DEF Spec

\* Every variable of the server keeps its type.
THEOREM TypeCorrectness == Spec => []TypeOK
<1>1. IInv => TypeOK BY DEF IInv
<1> QED BY <1>1, Invariance, PTL

\* For any number of clients, neither the queue nor the worker ever holds a
\* pointer to a job whose client thread has left route_request.
THEOREM JobLifetime == Spec => []JobAlive
<1>1. IInv => JobAlive
  <2> SUFFICES ASSUME IInv, NEW c \in Clients, InQueue(c) \/ cur = c
               PROVE  client[c] \in Waiting
    BY DEF JobAlive
  <2>1. CASE InQueue(c)
    <3>1. PICK i \in 1..Len(queue) : queue[i] = c BY <2>1 DEF InQueue
    <3>2. client[queue[i]] \in Waiting BY <3>1 DEF IInv, QueuedJobs
    <3> QED BY <3>1, <3>2
  <2>2. CASE cur = c
    <3>1. cur # NoJob BY <2>2, NoJobAssumption
    <3> QED BY <2>2, <3>1 DEF IInv, CurrentJob
  <2> QED BY <2>1, <2>2
<1> QED BY <1>1, Invariance, PTL

\* When the worker has exited no job is left in the queue and no client waits
\* for an answer that will not come.
THEOREM NobodyStranded == Spec => []NoStrandedJob
<1>1. IInv => NoStrandedJob
  <2> SUFFICES ASSUME IInv, worker = "exited"
               PROVE  queue = <<>> /\ \A c \in Clients : client[c] \in Waiting => done[c]
    BY DEF NoStrandedJob
  <2>1. queue = <<>> BY DEF IInv, WorkerView
  <2>2. \A c \in Clients : ~InQueue(c) BY <2>1 DEF InQueue
  <2>3. worker \notin {"serve", "finish"} OBVIOUS
  <2> QED BY <2>1, <2>2, <2>3 DEF IInv, JobSomewhere
<1> QED BY <1>1, Invariance, PTL

\* No notification of a new job or of a finished one is ever lost.
THEOREM WakeupsDelivered == Spec => []NoLostJobWakeup
<1>1. IInv => NoLostJobWakeup
  BY DEF IInv, WorkerView, SleepersNotified, NoLostJobWakeup
<1> QED BY <1>1, Invariance, PTL

\* Saving slot_tokens_, shutting the backend down and destroying the server
\* happen with the worker gone and the queue empty.
THEOREM TeardownIsAlone == Spec => []TeardownAlone
<1>1. IInv => TeardownAlone
  BY DEF IInv, WorkerView, MainView, WorkerHoldsJob, TeardownAlone
<1> QED BY <1>1, Invariance, PTL

\* Joining the worker, saving, and destroying the server happen after the last
\* client thread has closed its connection and left active_clients_.
THEOREM ClientsAreGone == Spec => []ClientsLeftBeforeJoin
<1>1. IInv => ClientsLeftBeforeJoin
  <2> SUFFICES ASSUME IInv, main \in {"join", "save", "returned", "destroyed"},
                      NEW c \in Clients
               PROVE  client[c] \in {"none", "lockNotify", "gone"}
    BY DEF ClientsLeftBeforeJoin
  <2>1. Cardinality(Counted) = 0 BY DEF IInv, CountOK
  <2>2. Counted = {} BY <2>1, CountFacts, FS_EmptySet
  <2>3. client[c] # "accepted" BY DEF IInv, CountOK
  <2> QED BY <2>2, <2>3 DEF Counted, IInv, TypeOK, ClientPC, Waiting
<1> QED BY <1>1, Invariance, PTL

-----------------------------------------------------------------------------
(* The server implements the job service *)

\* The jobs submitted and not answered: the one being served, then the queue.
Pending ==
  (IF cur # NoJob /\ worker \in {"serve", "finish"} THEN <<cur>> ELSE <<>>) \o queue

\* Concatenation with the one-element prefix that holds the job in service.
LEMMA ConcatFacts ==
  ASSUME NEW S, NEW s \in Seq(S), NEW e \in S
  PROVE  /\ <<>> \o s = s
         /\ \A p \in {<<>>, <<e>>} : \A d \in S : p \o Append(s, d) = Append(p \o s, d)
         /\ <<e>> \o s # <<>> /\ Head(<<e>> \o s) = e /\ Tail(<<e>> \o s) = s
         /\ s # <<>> => <<Head(s)>> \o Tail(s) = s
         /\ Len(<<e>> \o s) = Len(s) + 1
         /\ (<<e>> \o s)[1] = e
         /\ \A i \in 2..(Len(s) + 1) : (<<e>> \o s)[i] = s[i - 1]
OBVIOUS

\* What Pending is, by the state of the worker.
LEMMA PendingFacts ==
  ASSUME IInv
  PROVE  /\ queue \in Seq(Clients)
         /\ worker \in {"serve", "finish"} => cur \in Clients /\ Pending = <<cur>> \o queue
         /\ worker \notin {"serve", "finish"} => Pending = queue
<1>1. queue \in Seq(Clients) BY DEF IInv, TypeOK
<1>2. CASE worker \in {"serve", "finish"}
  <2>1. cur \in Clients /\ cur # NoJob BY <1>2 DEF IInv, TypeOK, WorkerHoldsJob
  <2> QED BY <1>1, <1>2, <2>1 DEF Pending
<1>3. CASE worker \notin {"serve", "finish"}
  <2>1. Pending = <<>> \o queue BY <1>3 DEF Pending
  <2> QED BY <1>1, <1>3, <2>1
<1> QED BY <1>1, <1>2, <1>3

\* A step that leaves the queue, the job in service, stopping_ and the replies
\* alone is a stuttering step of the job service.
LEMMA Stutter ==
  ASSUME UNCHANGED <<queue, cur, stopping, reply>>,
         worker \in {"serve", "finish"} <=> worker' \in {"serve", "finish"}
  PROVE  UNCHANGED Service!vars
BY DEF Service!vars

\* Every step of the server is a step of the job service: Enqueue submits or
\* refuses, FinishJob serves, RequestStop closes, all others stutter.
LEMMA StepRefines == IInv /\ IInv' /\ [Next]_vars => [Service!Next]_(Service!vars)
<1> SUFFICES ASSUME IInv, IInv', [Next]_vars PROVE [Service!Next]_(Service!vars)
  OBVIOUS
<1> USE DEF queueVars, jobVars
<1>1. CASE RequestStop
  <2>1. Service!Close BY <1>1 DEF RequestStop, Service!Close
  <2> QED BY <2>1 DEF Service!Next
<1>2. ASSUME NEW c \in Clients, Accept(c) PROVE UNCHANGED Service!vars
  BY <1>2, Stutter DEF Accept
<1>3. ASSUME NEW c \in Clients, ClientStep(c) PROVE [Service!Next]_(Service!vars)
  <2>1. CASE Enqueue(c)
    <3>1. /\ reply[c] = "none" /\ ~InQueue(c) /\ cur # c
      <4>1. client[c] \in Fresh BY <2>1 DEF Enqueue, Fresh
      <4>2. client[c] \notin Waiting BY <2>1 DEF Enqueue, Waiting
      <4>3. reply[c] = "none" BY <4>1 DEF IInv, JobSomewhere
      <4>4. ~InQueue(c) BY <4>2 DEF IInv, QueuedJobs, InQueue
      <4>5. cur # c BY <4>2, NoJobAssumption DEF IInv, CurrentJob
      <4> QED BY <4>3, <4>4, <4>5
    <3>2. ~Service!Queued(c)
      <4>1. CASE worker \in {"serve", "finish"}
        <5>1. cur \in Clients /\ Pending = <<cur>> \o queue /\ queue \in Seq(Clients)
          BY <4>1, PendingFacts
        <5>2. \A i \in 1..Len(Pending) : Pending[i] # c
          <6>1. \A i \in 1..Len(queue) : queue[i] # c BY <3>1 DEF InQueue
          <6> HIDE DEF Pending
          <6> QED BY ONLY <3>1, <5>1, <6>1, ConcatFacts
        <5> QED BY <5>2 DEF Service!Queued, Pending
      <4>2. CASE worker \notin {"serve", "finish"}
        <5>1. Pending = queue BY <4>2, PendingFacts
        <5>2. \A i \in 1..Len(Pending) : Pending[i] # c BY <3>1, <5>1 DEF InQueue
        <5> QED BY <5>2 DEF Service!Queued, Pending
      <4> QED BY <4>1, <4>2
    <3>3. CASE stopping
      <4>1. Service!Refuse(c) BY <2>1, <3>1, <3>2, <3>3 DEF Enqueue, Service!Refuse
      <4> QED BY <4>1 DEF Service!Next
    <3>4. CASE ~stopping
      <4>1. Pending' = Append(Pending, c)
        <5>1. queue' = Append(queue, c) BY <2>1, <3>4 DEF Enqueue
        <5>2. CASE worker \in {"serve", "finish"}
          <6>1. cur' = cur /\ worker' \in {"serve", "finish"}
            BY <2>1, <3>4, <5>2 DEF Enqueue, NotifyWorker
          <6>2. /\ Pending = <<cur>> \o queue /\ Pending' = <<cur>> \o queue'
                /\ cur \in Clients /\ queue \in Seq(Clients)
            BY <5>2, <6>1, PendingFacts, NoJobAssumption DEF Pending
          <6> QED BY ONLY <5>1, <6>2, ConcatFacts, c \in Clients
        <5>3. CASE worker \notin {"serve", "finish"}
          <6>1. cur' = cur /\ worker' \notin {"serve", "finish"}
            BY <2>1, <3>4, <5>3 DEF Enqueue, NotifyWorker
          <6>2. Pending' = queue' BY <5>1, <6>1, PendingFacts DEF Pending
          <6> QED BY <5>1, <5>3, <6>2, PendingFacts
        <5> QED BY <5>2, <5>3
      <4>2. Service!Submit(c)
        BY <2>1, <3>1, <3>2, <3>4, <4>1 DEF Enqueue, Service!Submit, Pending
      <4> QED BY <4>2 DEF Service!Next
    <3> QED BY <3>3, <3>4
  <2>2. CASE ReadRequest(c) BY <2>2, Stutter DEF ReadRequest
  <2>3. CASE ParseRequest(c) BY <2>3, Stutter DEF ParseRequest
  <2>4. CASE AwaitDone(c) BY <2>4, Stutter DEF AwaitDone
  <2>5. CASE Leave(c) BY <2>5, Stutter DEF Leave
  <2>6. CASE NotifyMain(c) BY <2>6, Stutter DEF NotifyMain
  <2> QED BY <1>3, <2>1, <2>2, <2>3, <2>4, <2>5, <2>6 DEF ClientStep
<1>4. CASE MainStep
  <2>0. CASE \E c \in Clients : SpawnClient(c) BY <2>0, Stutter DEF SpawnClient
  <2>1. CASE LeaveAcceptLoop BY <2>1, Stutter DEF LeaveAcceptLoop
  <2>2. CASE WakeWorker BY <2>2, Stutter DEF WakeWorker, NotifyWorker
  <2>3. CASE CheckClients BY <2>3, Stutter DEF CheckClients
  <2>4. CASE ParkMain BY <2>4, Stutter DEF ParkMain
  <2>5. CASE Join BY <2>5, Stutter DEF Join
  <2>6. CASE SaveAndReturn BY <2>6, Stutter DEF SaveAndReturn
  <2>7. CASE Destroy
    <3>1. queue = <<>> /\ stopping /\ worker = "exited"
      BY <2>7 DEF IInv, MainView, WorkerView, Destroy
    <3>2. UNCHANGED <<queue, cur, stopping, reply, worker>>
      BY <2>7, <3>1 DEF Destroy, NotifyWorker
    <3> QED BY <3>2, Stutter
  <2> QED BY <1>4, <2>0, <2>1, <2>2, <2>3, <2>4, <2>5, <2>6, <2>7 DEF MainStep
<1>5. CASE WorkerStep
  <2>1. CASE DequeueCheck BY <2>1, Stutter DEF DequeueCheck
  <2>2. CASE ParkWorker BY <2>2, Stutter DEF ParkWorker
  <2>3. CASE DequeueTake
    <3>1. CASE queue = <<>> BY <2>3, <3>1, Stutter DEF DequeueTake
    <3>2. CASE queue # <<>>
      <4>1. Pending = queue BY <2>3, PendingFacts DEF DequeueTake
      <4>2. /\ cur' = Head(queue) /\ queue' = Tail(queue) /\ worker' = "serve"
            /\ stopping' = stopping /\ reply' = reply
        BY <2>3, <3>2 DEF DequeueTake
      <4>3. queue \in Seq(Clients) BY PendingFacts
      <4>4. cur' # NoJob
        <5>1. Head(queue) \in Clients BY ONLY <3>2, <4>3, SeqFacts
        <5> QED BY <4>2, <5>1, NoJobAssumption
      <4>5. Pending' = <<Head(queue)>> \o Tail(queue) BY <4>2, <4>4 DEF Pending
      <4>6. Pending' = Pending BY ONLY <3>2, <4>1, <4>3, <4>5
      <4> QED BY <4>2, <4>6 DEF Pending, Service!vars
    <3> QED BY <3>1, <3>2
  <2>4. CASE Serve BY <2>4, Stutter DEF Serve
  <2>5. CASE FinishJob
    <3>1. /\ worker = "finish" /\ worker' = "signal" /\ cur' = cur /\ queue' = queue
          /\ stopping' = stopping /\ reply' = [reply EXCEPT ![cur] = "served"]
      BY <2>5 DEF FinishJob
    <3>2. Pending = <<cur>> \o queue /\ cur \in Clients /\ queue \in Seq(Clients)
      BY <3>1, PendingFacts
    <3>3. Pending' = <<>> \o queue BY <3>1 DEF Pending
    <3>4. Pending # <<>> /\ Head(Pending) = cur /\ Tail(Pending) = Pending'
      BY ONLY <3>2, <3>3, ConcatFacts
    <3>5. Service!Serve BY <3>1, <3>4 DEF Service!Serve, Pending
    <3> QED BY <3>5 DEF Service!Next
  <2>6. CASE SignalJob BY <2>6, Stutter DEF SignalJob
  <2>7. CASE UnlockJob
    <3>1. worker = "unlock" /\ worker' = "check" /\ UNCHANGED <<queue, stopping, reply>>
      BY <2>7 DEF UnlockJob
    <3> QED BY <3>1 DEF Service!vars
  <2> QED BY <1>5, <2>1, <2>2, <2>3, <2>4, <2>5, <2>6, <2>7 DEF WorkerStep
<1>6. CASE SpuriousWake BY <1>6, Stutter DEF SpuriousWake
<1>7. CASE UNCHANGED vars BY <1>7, Stutter DEF vars
<1> QED BY <1>1, <1>2, <1>3, <1>4, <1>5, <1>6, <1>7 DEF Next

\* For any number of clients, no dangling pointer to a job, nobody left with one by a worker
\* that has exited, and no lost wake-up of either side.
THEOREM JobsAreSafe == Spec => []JobInv
BY TypeCorrectness, JobLifetime, NobodyStranded, WakeupsDelivered, PTL DEF JobInv

\* The tear-down runs alone: connections closed, worker joined, no job left.
THEOREM TeardownIsOrdered == Spec => []TeardownInv
BY TeardownIsAlone, ClientsAreGone, PTL DEF TeardownInv

\* For any number of clients, the threads, mutexes and condition variables of
\* the server implement the job service: FIFO, one at a time, none discarded.
THEOREM ServerImplementsService == Spec => Service!SafeSpec
<1>1. Init => Service!Init
  <2> SUFFICES ASSUME Init PROVE Service!Init
    OBVIOUS
  <2>1. Pending = <<>> BY DEF Init, Pending
  <2> QED BY <2>1 DEF Init, Pending, Service!Init
<1>2. IInv /\ IInv' /\ [Next]_vars => [Service!Next]_(Service!vars) BY StepRefines
<1> QED BY <1>1, <1>2, Invariance, PTL DEF Spec, Service!SafeSpec

-----------------------------------------------------------------------------
(***************************************************************************)
(* The grid barrier separates the phases of a launch, for every number of  *)
(* blocks, of phases and of resident blocks.                               *)
(***************************************************************************)

\* The blocks counted by the current barrier.
Arrived == {b \in Grid : bpc[b] = "last" \/ (bpc[b] = "spin" /\ local_gen[b] = generation)}

PhaseIsGeneration == \A b \in Grid : ph[b] = local_gen[b] + 1

Generations ==
  \A b \in Grid :
    /\ bpc[b] \in {"run", "last", "bump", "exit"} => local_gen[b] = generation
    /\ bpc[b] = "queued" => local_gen[b] = 0 /\ generation = 0
    /\ bpc[b] = "spin" => local_gen[b] = generation \/ local_gen[b] + 1 = generation

CounterCounts == (\A b \in Grid : bpc[b] # "bump") => counter = Cardinality(Arrived)

LastIsFull == \A b \in Grid : bpc[b] = "last" => counter = nblocks

OneLast == \A b, c \in Grid : bpc[b] = "last" /\ bpc[c] = "last" => b = c

BumpIsAlone ==
  \A b \in Grid : bpc[b] = "bump" =>
    /\ counter = 0
    /\ \A c \in Grid \ {b} : bpc[c] = "spin" /\ local_gen[c] = generation

\* The inductive invariant: the counter is the number of blocks that wait in the current
\* generation, and a block that resets it has every other block waiting.
SyncInv ==
  /\ SyncTypeOK
  /\ PhaseIsGeneration
  /\ Generations
  /\ CounterCounts
  /\ LastIsFull
  /\ OneLast
  /\ BumpIsAlone

LEMMA GridFinite ==
  ASSUME SyncTypeOK
  PROVE  /\ IsFiniteSet(Grid) /\ Cardinality(Grid) = nblocks
         /\ Grid \subseteq Blocks
         /\ IsFiniteSet(Arrived) /\ Arrived \subseteq Grid
<1>1. nblocks \in Nat /\ nblocks <= MaxBlocks /\ MaxBlocks \in Nat
  BY GridSyncAssumption DEF SyncTypeOK
<1>2. IsFiniteSet(Grid) /\ Cardinality(Grid) = nblocks
  <2>1. IsFiniteSet(0 .. nblocks - 1)
    BY <1>1, FS_Interval
  <2>2. Cardinality(0 .. nblocks - 1) = IF 0 > nblocks - 1 THEN 0 ELSE (nblocks - 1) - 0 + 1
    BY <1>1, FS_Interval
  <2> QED  BY <1>1, <2>1, <2>2 DEF Grid
<1>3. Arrived \subseteq Grid
  BY DEF Arrived
<1>4. IsFiniteSet(Arrived)
  BY <1>2, <1>3, FS_Subset
<1> QED  BY <1>1, <1>2, <1>3, <1>4 DEF Grid, Blocks

\* A full count means that every block waits.
LEMMA FullMeansAll ==
  ASSUME SyncTypeOK, Cardinality(Arrived) = nblocks
  PROVE  Arrived = Grid
<1>1. IsFiniteSet(Grid) /\ Cardinality(Grid) = nblocks /\ Arrived \subseteq Grid
  BY GridFinite
<1> QED  BY <1>1, FS_Subset

\* One short of full means that every block but b waits.
LEMMA AllButOne ==
  ASSUME SyncTypeOK, NEW b \in Grid, b \notin Arrived, Cardinality(Arrived) = nblocks - 1
  PROVE  Arrived = Grid \ {b}
<1>1. IsFiniteSet(Grid) /\ Cardinality(Grid) = nblocks /\ Arrived \subseteq Grid /\ IsFiniteSet(Arrived)
  BY GridFinite
<1>2. IsFiniteSet(Arrived \cup {b}) /\ Cardinality(Arrived \cup {b}) = Cardinality(Arrived) + 1
  BY <1>1, FS_AddElement
<1>3. Arrived \cup {b} = Grid
  <2>1. Arrived \cup {b} \subseteq Grid
    BY <1>1
  <2>2. Cardinality(Arrived \cup {b}) = Cardinality(Grid)
    BY <1>1, <1>2 DEF SyncTypeOK
  <2> QED  BY <1>1, <2>1, <2>2, FS_Subset
<1> QED  BY <1>3

LEMMA SyncInitInv == SyncInit => SyncInv
<1> SUFFICES ASSUME SyncInit PROVE SyncInv
  OBVIOUS
<1>1. SyncTypeOK
  BY GridSyncAssumption DEF SyncInit, SyncTypeOK
<1>2. Grid = {} /\ Arrived = {}
  BY DEF SyncInit, Grid, Arrived
<1>3. Cardinality({}) = 0
  BY FS_EmptySet
<1> QED
  BY <1>1, <1>2, <1>3 DEF SyncInv, SyncInit, PhaseIsGeneration, Generations, CounterCounts,
     LastIsFull, OneLast, BumpIsAlone

LEMMA LaunchInv ==
  ASSUME SyncInv, NEW nb \in 1 .. MaxBlocks, NEW np \in Nat \ {0}, GridLaunch(nb, np)
  PROVE  SyncInv'
<1>1. SyncTypeOK'
  BY GridSyncAssumption DEF SyncInv, SyncTypeOK, GridLaunch
<1>2. \A b \in Grid' : b \in Blocks /\ b < nb
  BY GridSyncAssumption DEF Grid, Blocks, GridLaunch
<1>3. \A b \in Grid' : bpc'[b] = "queued" /\ ph'[b] = 1 /\ local_gen'[b] = 0
  BY <1>2 DEF GridLaunch
<1>4. Arrived' = {}
  BY <1>3 DEF Arrived
<1>5. Cardinality({}) = 0
  BY FS_EmptySet
<1>6. counter' = 0 /\ generation' = 0
  BY DEF GridLaunch
<1> QED
  BY <1>1, <1>3, <1>4, <1>5, <1>6 DEF SyncInv, PhaseIsGeneration, Generations, CounterCounts,
     LastIsFull, OneLast, BumpIsAlone

\* A block that runs leaves no block last or bumping.
LEMMA RunExcludes ==
  ASSUME SyncInv, NEW b \in Grid, bpc[b] \in {"run", "queued"} \/ (bpc[b] = "spin" /\ local_gen[b] # generation)
  PROVE  /\ b \notin Arrived
         /\ \A c \in Grid : bpc[c] # "bump" /\ bpc[c] # "last"
         /\ counter = Cardinality(Arrived)
<1>1. b \notin Arrived
  BY DEF Arrived
<1>2. \A c \in Grid : bpc[c] # "bump"
  BY DEF SyncInv, BumpIsAlone
<1>3. counter = Cardinality(Arrived)
  BY <1>2 DEF SyncInv, CounterCounts
<1>4. ASSUME NEW c \in Grid, bpc[c] = "last" PROVE FALSE
  <2>1. Cardinality(Arrived) = nblocks
    BY <1>3, <1>4 DEF SyncInv, LastIsFull
  <2>2. Arrived = Grid
    BY <2>1, FullMeansAll DEF SyncInv
  <2> QED  BY <1>1, <2>2
<1> QED  BY <1>1, <1>2, <1>3, <1>4

LEMMA StartInv ==
  ASSUME SyncInv, NEW b \in Blocks, BlockStart(b)
  PROVE  SyncInv'
<1>0. b \in Grid /\ bpc[b] = "queued" /\ Grid' = Grid /\ SyncTypeOK
  BY DEF BlockStart, Grid, SyncInv
<1>1. SyncTypeOK'
  BY <1>0 DEF SyncTypeOK, BlockStart
<1>2. bpc' = [bpc EXCEPT ![b] = "run"] /\ bpc \in [Blocks -> {"queued", "run", "last", "bump", "spin", "exit"}]
  BY <1>0 DEF BlockStart, SyncTypeOK
<1>3. \A c \in Grid : bpc'[c] = IF c = b THEN "run" ELSE bpc[c]
  BY <1>0, <1>2, GridFinite
<1>4. UNCHANGED <<nblocks, nphases, counter, generation, ph, local_gen>>
  BY DEF BlockStart
<1>5. Arrived' = Arrived
  BY <1>0, <1>3, <1>4 DEF Arrived
<1>6. PhaseIsGeneration' /\ Generations'
  BY <1>0, <1>3, <1>4 DEF SyncInv, PhaseIsGeneration, Generations
<1>7. counter = Cardinality(Arrived) /\ \A c \in Grid : bpc[c] # "bump" /\ bpc[c] # "last"
  BY <1>0, RunExcludes
<1> QED
  BY <1>0, <1>1, <1>3, <1>4, <1>5, <1>6, <1>7 DEF SyncInv, CounterCounts, LastIsFull, OneLast, BumpIsAlone

LEMMA ArriveInv ==
  ASSUME SyncInv, NEW b \in Blocks, SyncArrive(b)
  PROVE  SyncInv'
<1>0. b \in Grid /\ bpc[b] = "run" /\ Grid' = Grid /\ SyncTypeOK
  BY DEF SyncArrive, Grid, SyncInv
<1> DEFINE s == IF counter = nblocks - 1 THEN "last" ELSE "spin"
<1>2. bpc' = [bpc EXCEPT ![b] = s] /\ bpc \in [Blocks -> {"queued", "run", "last", "bump", "spin", "exit"}]
  BY <1>0 DEF SyncArrive, SyncTypeOK
<1>3. \A c \in Grid : bpc'[c] = IF c = b THEN s ELSE bpc[c]
  BY <1>0, <1>2, GridFinite
<1>4. UNCHANGED <<nblocks, nphases, generation, ph, local_gen>> /\ counter' = counter + 1
  BY DEF SyncArrive
<1>5. local_gen[b] = generation
  BY <1>0 DEF SyncInv, Generations
<1>6. b \notin Arrived /\ counter = Cardinality(Arrived) /\ \A c \in Grid : bpc[c] # "bump" /\ bpc[c] # "last"
  BY <1>0, RunExcludes
<1>7. IsFiniteSet(Arrived) /\ IsFiniteSet(Grid) /\ Arrived \subseteq Grid /\ Cardinality(Grid) = nblocks
  BY <1>0, GridFinite
<1>8. Arrived' = Arrived \cup {b}
  BY <1>0, <1>3, <1>4, <1>5 DEF Arrived
<1>9. Cardinality(Arrived') = counter' /\ IsFiniteSet(Arrived')
  BY <1>4, <1>6, <1>7, <1>8, FS_AddElement
<1>10. counter' <= nblocks
  <2>1. Arrived \cup {b} \subseteq Grid
    BY <1>0, <1>7
  <2> QED  BY <1>7, <1>8, <1>9, <2>1, FS_Subset
<1>11. SyncTypeOK'
  <2>1. counter' \in 0 .. MaxBlocks
    BY <1>0, <1>4, <1>10, GridSyncAssumption DEF SyncTypeOK
  <2> QED  BY <1>0, <1>2, <1>4, <2>1 DEF SyncTypeOK
<1>12. PhaseIsGeneration' /\ Generations'
  BY <1>0, <1>3, <1>4, <1>5 DEF SyncInv, PhaseIsGeneration, Generations
<1>13. LastIsFull'
  BY <1>0, <1>3, <1>4, <1>6 DEF LastIsFull, SyncTypeOK
<1>14. OneLast' /\ BumpIsAlone' /\ CounterCounts'
  BY <1>0, <1>3, <1>4, <1>6, <1>9 DEF OneLast, BumpIsAlone, CounterCounts
<1> QED  BY <1>11, <1>12, <1>13, <1>14 DEF SyncInv

LEMMA ResetInv ==
  ASSUME SyncInv, NEW b \in Blocks, SyncReset(b)
  PROVE  SyncInv'
<1>0. b \in Grid /\ bpc[b] = "last" /\ Grid' = Grid /\ SyncTypeOK
  BY DEF SyncReset, Grid, SyncInv
<1>2. bpc' = [bpc EXCEPT ![b] = "bump"] /\ bpc \in [Blocks -> {"queued", "run", "last", "bump", "spin", "exit"}]
  BY <1>0 DEF SyncReset, SyncTypeOK
<1>3. \A c \in Grid : bpc'[c] = IF c = b THEN "bump" ELSE bpc[c]
  BY <1>0, <1>2, GridFinite
<1>4. UNCHANGED <<nblocks, nphases, generation, ph, local_gen>> /\ counter' = 0
  BY DEF SyncReset
<1>5. SyncTypeOK'
  BY <1>0, <1>2, <1>4, GridSyncAssumption DEF SyncTypeOK
<1>6. \A c \in Grid : bpc[c] # "bump"
  BY <1>0 DEF SyncInv, BumpIsAlone
<1>7. Arrived = Grid
  BY <1>0, <1>6, FullMeansAll DEF SyncInv, CounterCounts, LastIsFull
<1>8. \A c \in Grid \ {b} : bpc[c] = "spin" /\ local_gen[c] = generation
  BY <1>0, <1>7 DEF SyncInv, OneLast, Arrived
<1>9. PhaseIsGeneration' /\ Generations'
  BY <1>0, <1>3, <1>4 DEF SyncInv, PhaseIsGeneration, Generations
<1>10. CounterCounts' /\ LastIsFull' /\ OneLast' /\ BumpIsAlone'
  BY <1>0, <1>3, <1>4, <1>8 DEF CounterCounts, LastIsFull, OneLast, BumpIsAlone
<1> QED  BY <1>5, <1>9, <1>10 DEF SyncInv

LEMMA ReleaseInv ==
  ASSUME SyncInv, NEW b \in Blocks, SyncRelease(b)
  PROVE  SyncInv'
<1>0. b \in Grid /\ bpc[b] = "bump" /\ Grid' = Grid /\ SyncTypeOK
  BY DEF SyncRelease, Grid, SyncInv
<1>1. /\ bpc' = [bpc EXCEPT ![b] = "run"] /\ ph' = [ph EXCEPT ![b] = @ + 1]
      /\ local_gen' = [local_gen EXCEPT ![b] = @ + 1]
      /\ bpc \in [Blocks -> {"queued", "run", "last", "bump", "spin", "exit"}]
      /\ ph \in [Blocks -> Nat] /\ local_gen \in [Blocks -> Nat] /\ generation \in Nat
  BY <1>0 DEF SyncRelease, SyncTypeOK
<1>2. UNCHANGED <<nblocks, nphases, counter>> /\ generation' = generation + 1
  BY DEF SyncRelease
<1>3. \A c \in Grid : /\ bpc'[c] = IF c = b THEN "run" ELSE bpc[c]
                      /\ ph'[c] = IF c = b THEN ph[b] + 1 ELSE ph[c]
                      /\ local_gen'[c] = IF c = b THEN local_gen[b] + 1 ELSE local_gen[c]
                      /\ local_gen[c] \in Nat
  BY <1>0, <1>1, GridFinite
<1>4. counter = 0 /\ \A c \in Grid \ {b} : bpc[c] = "spin" /\ local_gen[c] = generation
  BY <1>0 DEF SyncInv, BumpIsAlone
<1>5. local_gen[b] = generation
  BY <1>0 DEF SyncInv, Generations
<1>6. SyncTypeOK'
  BY <1>0, <1>1, <1>2 DEF SyncTypeOK
<1>7. PhaseIsGeneration'
  BY <1>0, <1>1, <1>3 DEF SyncInv, PhaseIsGeneration
<1>8. Generations'
  BY <1>0, <1>1, <1>2, <1>3, <1>4, <1>5 DEF Generations
<1>9. Arrived' = {}
  BY <1>0, <1>1, <1>2, <1>3, <1>4 DEF Arrived
<1>10. Cardinality({}) = 0
  BY FS_EmptySet
<1>11. CounterCounts' /\ LastIsFull' /\ OneLast' /\ BumpIsAlone'
  BY <1>0, <1>2, <1>3, <1>4, <1>9, <1>10 DEF CounterCounts, LastIsFull, OneLast, BumpIsAlone
<1> QED  BY <1>6, <1>7, <1>8, <1>11 DEF SyncInv

LEMMA SpinInv ==
  ASSUME SyncInv, NEW b \in Blocks, SyncSpin(b)
  PROVE  SyncInv'
<1>0. b \in Grid /\ bpc[b] = "spin" /\ generation > local_gen[b] /\ Grid' = Grid /\ SyncTypeOK
  BY DEF SyncSpin, Grid, SyncInv
<1>1. /\ bpc' = [bpc EXCEPT ![b] = "run"] /\ ph' = [ph EXCEPT ![b] = @ + 1]
      /\ local_gen' = [local_gen EXCEPT ![b] = @ + 1]
      /\ bpc \in [Blocks -> {"queued", "run", "last", "bump", "spin", "exit"}]
      /\ ph \in [Blocks -> Nat] /\ local_gen \in [Blocks -> Nat] /\ generation \in Nat
  BY <1>0 DEF SyncSpin, SyncTypeOK
<1>2. UNCHANGED <<nblocks, nphases, counter, generation>>
  BY DEF SyncSpin
<1>3. \A c \in Grid : /\ bpc'[c] = IF c = b THEN "run" ELSE bpc[c]
                      /\ ph'[c] = IF c = b THEN ph[b] + 1 ELSE ph[c]
                      /\ local_gen'[c] = IF c = b THEN local_gen[b] + 1 ELSE local_gen[c]
                      /\ local_gen[c] \in Nat
  BY <1>0, <1>1, GridFinite
<1>4. local_gen[b] + 1 = generation /\ local_gen[b] # generation
  BY <1>0, <1>1, <1>3 DEF SyncInv, Generations
<1>5. b \notin Arrived /\ counter = Cardinality(Arrived) /\ \A c \in Grid : bpc[c] # "bump" /\ bpc[c] # "last"
  BY <1>0, <1>4, RunExcludes
<1>6. SyncTypeOK'
  BY <1>0, <1>1, <1>2 DEF SyncTypeOK
<1>7. PhaseIsGeneration' /\ Generations'
  BY <1>0, <1>1, <1>2, <1>3, <1>4 DEF SyncInv, PhaseIsGeneration, Generations
<1>8. Arrived' = Arrived
  BY <1>0, <1>2, <1>3, <1>5 DEF Arrived
<1>9. CounterCounts' /\ LastIsFull' /\ OneLast' /\ BumpIsAlone'
  BY <1>0, <1>2, <1>3, <1>5, <1>8 DEF CounterCounts, LastIsFull, OneLast, BumpIsAlone
<1> QED  BY <1>6, <1>7, <1>9 DEF SyncInv

LEMMA ExitInv ==
  ASSUME SyncInv, NEW b \in Blocks, BlockExit(b)
  PROVE  SyncInv'
<1>0. b \in Grid /\ bpc[b] = "run" /\ Grid' = Grid /\ SyncTypeOK
  BY DEF BlockExit, Grid, SyncInv
<1>1. bpc' = [bpc EXCEPT ![b] = "exit"] /\ bpc \in [Blocks -> {"queued", "run", "last", "bump", "spin", "exit"}]
  BY <1>0 DEF BlockExit, SyncTypeOK
<1>2. UNCHANGED <<nblocks, nphases, counter, generation, ph, local_gen>>
  BY DEF BlockExit
<1>3. \A c \in Grid : bpc'[c] = IF c = b THEN "exit" ELSE bpc[c]
  BY <1>0, <1>1, GridFinite
<1>4. counter = Cardinality(Arrived) /\ \A c \in Grid : bpc[c] # "bump" /\ bpc[c] # "last"
  BY <1>0, RunExcludes
<1>5. SyncTypeOK'
  BY <1>0, <1>1, <1>2 DEF SyncTypeOK
<1>6. PhaseIsGeneration' /\ Generations'
  BY <1>0, <1>2, <1>3 DEF SyncInv, PhaseIsGeneration, Generations
<1>7. Arrived' = Arrived
  BY <1>0, <1>2, <1>3 DEF Arrived
<1>8. CounterCounts' /\ LastIsFull' /\ OneLast' /\ BumpIsAlone'
  BY <1>0, <1>2, <1>3, <1>4, <1>7 DEF CounterCounts, LastIsFull, OneLast, BumpIsAlone
<1> QED  BY <1>5, <1>6, <1>8 DEF SyncInv

LEMMA SyncStepInv == SyncInv /\ [SyncNext]_syncVars => SyncInv'
<1> SUFFICES ASSUME SyncInv, [SyncNext]_syncVars PROVE SyncInv'
  OBVIOUS
<1>1. ASSUME NEW nb \in 1 .. MaxBlocks, NEW np \in Nat \ {0}, GridLaunch(nb, np) PROVE SyncInv'
  BY <1>1, LaunchInv
<1>2. ASSUME NEW b \in Blocks, BlockStep(b) PROVE SyncInv'
  BY <1>2, StartInv, ArriveInv, ResetInv, ReleaseInv, SpinInv, ExitInv DEF BlockStep
<1>3. CASE UNCHANGED syncVars
  BY <1>3 DEF syncVars, SyncInv, SyncTypeOK, PhaseIsGeneration, Generations, CounterCounts,
     LastIsFull, OneLast, BumpIsAlone, Arrived, Grid
<1> QED  BY <1>1, <1>2, <1>3 DEF SyncNext

LEMMA InvSeparates == SyncInv => PhasesSeparated
<1> SUFFICES ASSUME SyncInv, NEW b1 \in Blocks, NEW b2 \in Blocks, Working(b1), b2 \in Grid
             PROVE  ph[b2] = ph[b1] \/ (ph[b2] = ph[b1] - 1 /\ bpc[b2] = "spin")
  BY DEF PhasesSeparated
<1>1. b1 \in Grid /\ local_gen[b1] = generation /\ ph[b1] = generation + 1
  BY DEF Working, SyncInv, Generations, PhaseIsGeneration
<1>2. /\ generation \in Nat /\ local_gen[b2] \in Nat
      /\ bpc[b2] \in {"queued", "run", "last", "bump", "spin", "exit"}
  BY DEF SyncInv, SyncTypeOK
<1>3. ph[b2] = local_gen[b2] + 1
  BY DEF SyncInv, PhaseIsGeneration
<1>4. local_gen[b2] = generation \/ (local_gen[b2] + 1 = generation /\ bpc[b2] = "spin")
  BY <1>2 DEF SyncInv, Generations
<1> QED  BY <1>1, <1>2, <1>3, <1>4

\* Whatever the number of blocks, of phases and of slots, a block that runs a phase of the decode
\* kernel overlaps with no block that is still in, or already past, another phase, except one
\* that has finished the phase before and has not yet noticed that the barrier opened.
THEOREM BarrierSeparatesPhases == SyncSpec => []PhasesSeparated
<1>1. SyncSpec => []SyncInv
  BY SyncInitInv, SyncStepInv, PTL DEF SyncSpec
<1> QED  BY <1>1, InvSeparates, PTL

=============================================================================

----------------------------- MODULE JobService -----------------------------
(***************************************************************************)
(* What the HTTP server's job queue promises its clients, without threads, *)
(* mutexes or condition variables: jobs are served one at a time in the    *)
(* order they were submitted; once the service is closed a new job is      *)
(* refused, while every job already submitted is still served.             *)
(***************************************************************************)
EXTENDS Naturals, Sequences

CONSTANT Clients

VARIABLES
  waiting,   \* jobs submitted and not answered yet, the one in service first
  open,      \* FALSE once the service was told to stop
  answer     \* what each client's job got

vars == <<waiting, open, answer>>

Init ==
  /\ waiting = <<>>
  /\ open = TRUE
  /\ answer = [c \in Clients |-> "none"]

Queued(c) == \E i \in 1..Len(waiting) : waiting[i] = c

Submit(c) ==
  /\ open
  /\ answer[c] = "none" /\ ~Queued(c)
  /\ waiting' = Append(waiting, c)
  /\ UNCHANGED <<open, answer>>

Refuse(c) ==
  /\ ~open
  /\ answer[c] = "none" /\ ~Queued(c)
  /\ answer' = [answer EXCEPT ![c] = "refused"]
  /\ UNCHANGED <<waiting, open>>

Serve ==
  /\ waiting # <<>>
  /\ answer' = [answer EXCEPT ![Head(waiting)] = "served"]
  /\ waiting' = Tail(waiting)
  /\ UNCHANGED open

Close ==
  /\ open
  /\ open' = FALSE
  /\ UNCHANGED <<waiting, answer>>

Next ==
  \/ \E c \in Clients : Submit(c) \/ Refuse(c)
  \/ Serve
  \/ Close

SafeSpec == Init /\ [][Next]_vars
Spec == SafeSpec /\ WF_vars(Serve)

=============================================================================

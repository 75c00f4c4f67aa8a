------------------------------ MODULE WorkQueue ------------------------------
(***************************************************************************)
(* What the thread pool promises its clients, without locks, condition     *)
(* variables or threads that sleep: submitted requests are started in the  *)
(* order of submission, each by one worker, and each is started once.      *)
(* thread_pool.h offers exactly submission; starting and finishing are     *)
(* the pool's own steps.                                                   *)
(***************************************************************************)
EXTENDS Naturals, Sequences

CONSTANTS
  Workers,   \* threads that run requests
  Requests,  \* requests that may be submitted
  Nothing    \* what an idle worker runs

VARIABLES
  queue,     \* submitted, not started: oldest first
  running,   \* the request each worker runs, or Nothing
  submitted  \* every request submitted so far

vars == <<queue, running, submitted>>

Init ==
  /\ queue = <<>>
  /\ running = [w \in Workers |-> Nothing]
  /\ submitted = {}

Submit(r) ==
  /\ r \notin submitted
  /\ submitted' = submitted \cup {r}
  /\ queue' = Append(queue, r)
  /\ UNCHANGED running

Start(w) ==
  /\ running[w] = Nothing
  /\ queue # <<>>
  /\ running' = [running EXCEPT ![w] = Head(queue)]
  /\ queue' = Tail(queue)
  /\ UNCHANGED submitted

Finish(w) ==
  /\ running[w] # Nothing
  /\ running' = [running EXCEPT ![w] = Nothing]
  /\ UNCHANGED <<queue, submitted>>

Next ==
  \/ \E r \in Requests : Submit(r)
  \/ \E w \in Workers : Start(w) \/ Finish(w)

Spec == Init /\ [][Next]_vars
=============================================================================

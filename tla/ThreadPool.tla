------------------------------ MODULE ThreadPool ------------------------------
(***************************************************************************)
(* The thread pool of src/src/thread_pool.c: handler threads take requests *)
(* from a linked list guarded by request_mutex, sleep on got_request when  *)
(* the list is empty, and leave when they see quit.                        *)
(*                                                                         *)
(* Grain of atomicity.  A step is one access to shared state together with *)
(* the lock operation that protects it.  A critical section of             *)
(* request_mutex that contains no wait (thread_pool_add_request) is one    *)
(* step guarded by the mutex being free; the handler's critical section,   *)
(* which contains a wait and a second lock, is split at every test.  Each  *)
(* section of quit_mutex is a single access to quit and nobody blocks      *)
(* while holding it, so it needs no variable of its own.                   *)
(*                                                                         *)
(* pthread_cond_wait may return without a signal: SpuriousWakeup.          *)
(***************************************************************************)
EXTENDS Naturals, Sequences, FiniteSets

CONSTANTS
  Handlers,   \* the NUM_HANDLER_THREADS threads of the pool
  Adders,     \* client threads that call thread_pool_add_request
  Requests,   \* the requests the clients submit
  NoRequest,  \* the NULL request pointer
  NoThread    \* owner of a free mutex

ASSUME PoolAssumption ==
  /\ IsFiniteSet(Handlers)
  /\ IsFiniteSet(Adders)
  /\ Handlers \cap Adders = {}
  /\ NoThread \notin Handlers \cup Adders
  /\ NoRequest \notin Requests

VARIABLES
  request_list,   \* self->request_list, head first
  num_requests,   \* self->num_requests
  request_mutex,  \* owner of self->request_mutex
  quit,           \* self->quit
  pc,             \* where each handler and each adder is
  a_request,      \* each handler's local request pointer
  closer,         \* progress of thread_pool_close in the main thread
  submitted       \* history: every request ever appended

vars == <<request_list, num_requests, request_mutex, quit, pc, a_request,
          closer, submitted>>

HandlerPC == {"start", "test", "get", "sleep", "wait", "woken", "run",
              "relock", "check", "done"}
AdderPC == {"idle", "signal"}
CloserPC == {"open", "broadcast", "joining", "closed"}

waiting == {h \in Handlers : pc[h] = "wait"}

(* pthread_mutex_lock and pthread_mutex_unlock on request_mutex. *)
Lock(t) == request_mutex = NoThread /\ request_mutex' = t
Unlock(t) == request_mutex = t /\ request_mutex' = NoThread

Goto(t, l) == pc' = [pc EXCEPT ![t] = l]

(* The car_thread_pool global is zero-initialised; thread_pool_init starts *)
(* the handlers.                                                           *)
Init ==
  /\ request_list = <<>>
  /\ num_requests = 0
  /\ request_mutex = NoThread
  /\ quit = FALSE
  /\ pc = [t \in Handlers \cup Adders |->
             IF t \in Handlers THEN "start" ELSE "idle"]
  /\ a_request = [h \in Handlers |-> NoRequest]
  /\ closer = "open"
  /\ submitted = {}

-----------------------------------------------------------------------------
(* A definition marked "Mutant" is a bug that could be made in place of the *)
(* definition after it; it is used only to show that a property notices.   *)

(* Mutant: llist_push, which puts the request first. *)
pushed(r) == <<r>> \o request_list

appended(r) == Append(request_list, r)

(* thread_pool_add_request: append under the mutex, signal after unlocking. *)

AddRequest(a, r) ==
  /\ pc[a] = "idle"
  /\ r \notin submitted
  /\ request_mutex = NoThread
  /\ request_list' = appended(r)
  /\ num_requests' = num_requests + 1
  /\ submitted' = submitted \cup {r}
  /\ Goto(a, "signal")
  /\ UNCHANGED <<request_mutex, quit, a_request, closer>>

(* Mutant: the signal is forgotten. *)
SignalNobody(a) ==
  /\ pc[a] = "signal"
  /\ Goto(a, "idle")
  /\ UNCHANGED <<request_list, num_requests, request_mutex, quit, a_request,
                 closer, submitted>>

(* pthread_cond_signal wakes one waiter, if there is one. *)
Signal(a) ==
  /\ pc[a] = "signal"
  /\ \/ /\ waiting = {}
        /\ Goto(a, "idle")
     \/ \E h \in waiting :
          pc' = [pc EXCEPT ![a] = "idle", ![h] = "woken"]
  /\ UNCHANGED <<request_list, num_requests, request_mutex, quit, a_request,
                 closer, submitted>>

-----------------------------------------------------------------------------
(* handle_requests_loop, one handler h. *)

EnterLoop(h) ==
  /\ pc[h] = "start"
  /\ Lock(h)
  /\ Goto(h, "test")
  /\ UNCHANGED <<request_list, num_requests, quit, a_request, closer, submitted>>

(* Mutant: off by one in the test for a pending request. *)
manyPending == num_requests > 1

requestPending == num_requests > 0

TestRequests(h) ==
  /\ pc[h] = "test"
  /\ Goto(h, IF requestPending THEN "get" ELSE "sleep")
  /\ UNCHANGED <<request_list, num_requests, request_mutex, quit, a_request,
                 closer, submitted>>

(* Mutant: the request is read but not taken off the list. *)
notPopped == request_list

(* Mutant: the loop decrements the count as well as get_request. *)
decrementedTwice == num_requests - 2

popped == Tail(request_list)
decremented == num_requests - 1

(* get_request pops the head, or returns NULL without touching the count; *)
(* the handler unlocks only when it got a request.                        *)
GetRequest(h) ==
  /\ pc[h] = "get"
  /\ IF request_list = <<>>
     THEN /\ a_request' = [a_request EXCEPT ![h] = NoRequest]
          /\ Goto(h, "check")
          /\ UNCHANGED <<request_list, num_requests, request_mutex>>
     ELSE /\ a_request' = [a_request EXCEPT ![h] = Head(request_list)]
          /\ request_list' = popped
          /\ num_requests' = decremented
          /\ Unlock(h)
          /\ Goto(h, "run")
  /\ UNCHANGED <<quit, closer, submitted>>

(* pthread_cond_wait: release the mutex and become a waiter, atomically. *)
Sleep(h) ==
  /\ pc[h] = "sleep"
  /\ Unlock(h)
  /\ Goto(h, "wait")
  /\ UNCHANGED <<request_list, num_requests, quit, a_request, closer, submitted>>

SpuriousWakeup(h) ==
  /\ pc[h] = "wait"
  /\ Goto(h, "woken")
  /\ UNCHANGED <<request_list, num_requests, request_mutex, quit, a_request,
                 closer, submitted>>

(* The request's function returns and the request is freed; a_request is *)
(* left dangling.                                                        *)
FinishRequest(h) ==
  /\ pc[h] = "run"
  /\ Goto(h, "relock")
  /\ UNCHANGED <<request_list, num_requests, request_mutex, quit, a_request,
                 closer, submitted>>

Relock(h) ==
  /\ pc[h] \in {"woken", "relock"}
  /\ Lock(h)
  /\ Goto(h, "check")
  /\ UNCHANGED <<request_list, num_requests, quit, a_request, closer, submitted>>

CheckQuit(h) ==
  /\ pc[h] = "check"
  /\ IF quit THEN Unlock(h) /\ Goto(h, "done")
             ELSE Goto(h, "test") /\ UNCHANGED request_mutex
  /\ UNCHANGED <<request_list, num_requests, quit, a_request, closer, submitted>>

-----------------------------------------------------------------------------
(* thread_pool_close, called once by main. *)

SetQuit ==
  /\ closer = "open"
  /\ quit' = TRUE
  /\ closer' = "broadcast"
  /\ UNCHANGED <<request_list, num_requests, request_mutex, pc, a_request, submitted>>

Broadcast ==
  /\ closer = "broadcast"
  /\ closer' = "joining"
  /\ pc' = [t \in Handlers \cup Adders |->
              IF t \in waiting THEN "woken" ELSE pc[t]]
  /\ UNCHANGED <<request_list, num_requests, request_mutex, quit, a_request, submitted>>

JoinHandlers ==
  /\ closer = "joining"
  /\ \A h \in Handlers : pc[h] = "done"
  /\ closer' = "closed"
  /\ UNCHANGED <<request_list, num_requests, request_mutex, quit, pc, a_request, submitted>>

-----------------------------------------------------------------------------
HandlerStep(h) ==
  \/ EnterLoop(h) \/ TestRequests(h) \/ GetRequest(h) \/ Sleep(h)
  \/ FinishRequest(h) \/ Relock(h) \/ CheckQuit(h)

Close == SetQuit \/ Broadcast \/ JoinHandlers

Next ==
  \/ \E a \in Adders, r \in Requests : AddRequest(a, r)
  \/ \E a \in Adders : Signal(a)
  \/ \E h \in Handlers : HandlerStep(h) \/ SpuriousWakeup(h)
  \/ Close

Spec == Init /\ [][Next]_vars

(* Every thread that can run eventually does; nobody owes a spurious       *)
(* wake-up or a new request.  FinishRequest is fair: a request's function  *)
(* is assumed to return.                                                   *)
Fairness ==
  /\ \A h \in Handlers : WF_vars(HandlerStep(h))
  /\ \A a \in Adders : WF_vars(Signal(a))
  /\ WF_vars(Broadcast) /\ WF_vars(JoinHandlers)

FairSpec == Spec /\ Fairness

-----------------------------------------------------------------------------
(* The type of every variable. *)
TypeOK ==
  /\ request_list \in Seq(Requests)
  /\ num_requests \in Nat
  /\ request_mutex \in Handlers \cup {NoThread}
  /\ quit \in BOOLEAN
  /\ pc \in [Handlers \cup Adders -> HandlerPC \cup AdderPC]
  /\ \A h \in Handlers : pc[h] \in HandlerPC
  /\ \A a \in Adders : pc[a] \in AdderPC
  /\ a_request \in [Handlers -> Requests \cup {NoRequest}]
  /\ closer \in CloserPC
  /\ submitted \in SUBSET Requests

(* Handlers awake and looking for work, and clients about to signal. *)
awake == {h \in Handlers : pc[h] \notin {"wait", "run", "done"}}
signalling == {a \in Adders : pc[a] = "signal"}

(* No request is stranded: as long as the pool is open, either no handler  *)
(* sleeps, or every pending request has an awake handler or a signal still *)
(* to come.  This is what signalling after the unlock, and sleeping only   *)
(* after testing num_requests under the mutex, have to guarantee.          *)
NoStrandedRequest ==
  \/ quit
  \/ waiting = {}
  \/ num_requests <= Cardinality(awake) + Cardinality(signalling)

(* A request is in one place at a time: once in the list or run by one     *)
(* handler.  Running it twice would free its memory twice.                 *)
ExactlyOnce ==
  /\ \A i, j \in 1..Len(request_list) :
       request_list[i] = request_list[j] => i = j
  /\ \A h \in Handlers : pc[h] = "run" =>
       /\ \A i \in 1..Len(request_list) : request_list[i] # a_request[h]
       /\ \A g \in Handlers :
            pc[g] = "run" /\ a_request[g] = a_request[h] => g = h

(* The pool implements the work queue: a handler's request counts as       *)
(* running from the pop of get_request to the return of its function.      *)
runningRequest ==
  [h \in Handlers |-> IF pc[h] = "run" THEN a_request[h] ELSE NoRequest]

WQ == INSTANCE WorkQueue WITH
        Workers <- Handlers, Nothing <- NoRequest,
        queue <- request_list, running <- runningRequest

ImplementsWorkQueue == WQ!Spec

(* Every submitted request is eventually taken and finished, unless the    *)
(* pool is closed first.                                                   *)
RequestsServed ==
  \A r \in Requests :
    r \in submitted ~>
      \/ quit
      \/ /\ \A i \in DOMAIN request_list : request_list[i] # r
         /\ \A h \in Handlers : runningRequest[h] # r

(* thread_pool_close returns once every request's function has returned:   *)
(* "Signal to all threads to quit" and "Close all threads"                 *)
(* (src/src/thread_pool.c:27 and :33).  Said only of a pool whose handlers *)
(* have all entered their loop by the time quit is set.                    *)
CloseTerminates ==
  [](quit => \A h \in Handlers : pc[h] # "start")
    => (closer # "open" ~> closer = "closed")
=============================================================================

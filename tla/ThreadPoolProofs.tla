--------------------------- MODULE ThreadPoolProofs ---------------------------
(***************************************************************************)
(* Proofs about the thread pool, for any finite number of handlers and     *)
(* clients.  The inductive invariant IInv adds to the properties of        *)
(* ThreadPool who holds request_mutex and what a handler knows of the list *)
(* between its test and its pop.                                           *)
(***************************************************************************)
EXTENDS ThreadPool, FiniteSetTheorems, SequenceTheorems, TLAPS

critical == {"test", "get", "sleep", "check"}

(* request_mutex is owned by exactly the handler inside its critical section. *)
MutexInv == \A h \in Handlers : pc[h] \in critical <=> request_mutex = h

(* The count agrees with the list, and the test made under the mutex still *)
(* holds when the handler acts on it.                                      *)
CountInv ==
  /\ num_requests = Len(request_list)
  /\ \A h \in Handlers : pc[h] = "get" => num_requests > 0
  /\ \A h \in Handlers : pc[h] = "sleep" => num_requests = 0

(* Whatever is pending or running was submitted. *)
SubmittedInv ==
  /\ \A i \in 1..Len(request_list) : request_list[i] \in submitted
  /\ \A h \in Handlers : pc[h] = "run" => a_request[h] \in submitted

IInv == TypeOK /\ MutexInv /\ CountInv /\ SubmittedInv /\ ExactlyOnce
          /\ NoStrandedRequest

-----------------------------------------------------------------------------
(* The sets that NoStrandedRequest counts are finite. *)
LEMMA FiniteSetsOfThreads ==
  /\ IsFiniteSet(awake) /\ Cardinality(awake) \in Nat
  /\ IsFiniteSet(signalling) /\ Cardinality(signalling) \in Nat
<1>1. awake \in SUBSET Handlers /\ signalling \in SUBSET Adders
  BY DEF awake, signalling
<1>2. IsFiniteSet(awake) /\ IsFiniteSet(signalling)
  BY <1>1, FS_Subset, PoolAssumption
<1>3. QED
  BY <1>2, FS_CardinalityType

(* Initially nothing is pending and every handler is about to start. *)
LEMMA InitIInv == Init => IInv
<1> SUFFICES ASSUME Init PROVE IInv
  OBVIOUS
<1>1. request_list \in Seq(Requests) /\ Len(request_list) = 0
  BY EmptySeq DEF Init
<1>2. pc \in [Handlers \cup Adders -> HandlerPC \cup AdderPC]
  BY DEF Init, HandlerPC, AdderPC
<1>3. \A h \in Handlers : pc[h] = "start"
  BY DEF Init
<1>4. \A a \in Adders : pc[a] = "idle"
  BY PoolAssumption DEF Init
<1>5. TypeOK
  BY <1>1, <1>2, <1>3, <1>4 DEF Init, TypeOK, HandlerPC, AdderPC, CloserPC
<1>6. MutexInv /\ SubmittedInv /\ ExactlyOnce
  BY <1>1, <1>3, PoolAssumption
     DEF Init, MutexInv, SubmittedInv, ExactlyOnce, critical
<1>7. CountInv
  BY <1>1, <1>3 DEF Init, CountInv
<1>8. NoStrandedRequest
  BY <1>3 DEF NoStrandedRequest, waiting
<1>9. QED
  BY <1>5, <1>6, <1>7, <1>8 DEF IInv

(* What Goto does to pc. *)
LEMMA GotoPC ==
  ASSUME TypeOK, NEW t \in Handlers \cup Adders, NEW l, Goto(t, l)
  PROVE  /\ pc'[t] = l
         /\ \A u \in Handlers \cup Adders : u # t => pc'[u] = pc[u]
         /\ t \in Handlers => \A a \in Adders : pc'[a] = pc[a]
         /\ t \in Adders => \A h \in Handlers : pc'[h] = pc[h]
         /\ \A A : l \in A /\ pc \in [Handlers \cup Adders -> A]
                  => pc' \in [Handlers \cup Adders -> A]
BY PoolAssumption DEF Goto, TypeOK

-----------------------------------------------------------------------------
(* Every step preserves the types; num_requests stays a natural number     *)
(* because a handler pops only what it has seen.                           *)
LEMMA TypeStep == TypeOK /\ CountInv /\ [Next]_vars => TypeOK'
<1> SUFFICES ASSUME TypeOK, CountInv, [Next]_vars PROVE TypeOK'
  OBVIOUS
<1> DEFINE PCOK == /\ pc \in [Handlers \cup Adders -> HandlerPC \cup AdderPC]
                   /\ \A h \in Handlers : pc[h] \in HandlerPC
                   /\ \A a \in Adders : pc[a] \in AdderPC
<1>a. ASSUME NEW h \in Handlers, NEW l \in HandlerPC, Goto(h, l) PROVE PCOK'
  BY <1>a, GotoPC DEF TypeOK, Goto
<1>b. ASSUME NEW a \in Adders, NEW l \in AdderPC, Goto(a, l) PROVE PCOK'
  BY <1>b, GotoPC DEF TypeOK, Goto
<1> HIDE DEF PCOK
<1>c. PCOK' /\ /\ request_list' \in Seq(Requests)
               /\ num_requests' \in Nat
               /\ request_mutex' \in Handlers \cup {NoThread}
               /\ quit' \in BOOLEAN
               /\ a_request' \in [Handlers -> Requests \cup {NoRequest}]
               /\ closer' \in CloserPC
               /\ submitted' \in SUBSET Requests
      => TypeOK'
  BY DEF TypeOK, PCOK
<1>1. ASSUME NEW a \in Adders, NEW r \in Requests, AddRequest(a, r)
      PROVE  TypeOK'
  <2>1. PCOK'
    BY <1>1, <1>b DEF AddRequest, AdderPC
  <2>2. request_list' \in Seq(Requests)
    BY <1>1 DEF AddRequest, appended, TypeOK
  <2>3. QED
    BY <1>1, <1>c, <2>1, <2>2 DEF AddRequest, TypeOK
<1>2. ASSUME NEW a \in Adders, Signal(a) PROVE TypeOK'
  <2>1. PCOK'
    <3>1. CASE Goto(a, "idle")
      BY <3>1, <1>b DEF AdderPC
    <3>2. ASSUME NEW h \in waiting,
                 pc' = [pc EXCEPT ![a] = "idle", ![h] = "woken"]
          PROVE  PCOK'
      BY <3>2, PoolAssumption DEF TypeOK, waiting, PCOK, HandlerPC, AdderPC
    <3>3. QED
      BY <1>2, <3>1, <3>2 DEF Signal
  <2>2. QED
    BY <1>2, <1>c, <2>1 DEF Signal, TypeOK
<1>3. ASSUME NEW h \in Handlers, HandlerStep(h) \/ SpuriousWakeup(h)
      PROVE  TypeOK'
  <2>1. PCOK'
    <3>1. \E l \in HandlerPC : Goto(h, l)
      BY <1>3 DEF HandlerStep, EnterLoop, TestRequests, GetRequest, Sleep,
                  FinishRequest, Relock, CheckQuit, SpuriousWakeup, HandlerPC
    <3>2. QED
      BY <3>1, <1>a
  <2>2. CASE GetRequest(h) /\ request_list # <<>>
    <3>1. Head(request_list) \in Requests /\ request_list' \in Seq(Requests)
      BY <2>2, HeadTailProperties DEF GetRequest, popped, decremented, TypeOK
    <3>2. num_requests' \in Nat
      <4>1. num_requests' = num_requests - 1 /\ pc[h] = "get"
        BY <2>2 DEF GetRequest, decremented
      <4>2. num_requests \in Nat /\ num_requests > 0
        BY <4>1 DEF CountInv, TypeOK
      <4>3. QED
        BY <4>1, <4>2
    <3>3. QED
      BY <1>c, <2>1, <2>2, <3>1, <3>2 DEF GetRequest, TypeOK, Unlock
  <2>3. CASE GetRequest(h) /\ request_list = <<>>
    BY <1>c, <2>1, <2>3 DEF GetRequest, TypeOK
  <2>4. CASE \/ EnterLoop(h) \/ TestRequests(h) \/ Sleep(h) \/ FinishRequest(h)
             \/ Relock(h) \/ CheckQuit(h) \/ SpuriousWakeup(h)
    BY <1>c, <2>1, <2>4
       DEF EnterLoop, TestRequests, Sleep, FinishRequest, Relock, CheckQuit,
           SpuriousWakeup, TypeOK, Lock, Unlock
  <2>5. QED
    BY <1>3, <2>2, <2>3, <2>4 DEF HandlerStep
<1>4. CASE Close
  <2>1. PCOK'
    BY <1>4 DEF Close, SetQuit, Broadcast, JoinHandlers, TypeOK, PCOK, waiting,
                HandlerPC, AdderPC
  <2>2. QED
    BY <1>4, <1>c, <2>1 DEF Close, SetQuit, Broadcast, JoinHandlers, TypeOK, CloserPC
<1>5. CASE UNCHANGED vars
  BY <1>5 DEF vars, TypeOK
<1>6. QED
  BY <1>1, <1>2, <1>3, <1>4, <1>5 DEF Next

-----------------------------------------------------------------------------
(* Only the owner of request_mutex is inside the critical section, whatever *)
(* the step.                                                                *)
LEMMA MutexStep == TypeOK /\ MutexInv /\ [Next]_vars => MutexInv'
<1> SUFFICES ASSUME TypeOK, MutexInv, [Next]_vars,
                    NEW g \in Handlers
             PROVE  (pc[g] \in critical <=> request_mutex = g)'
  BY DEF MutexInv
<1> USE DEF critical
<1>0. pc[g] \in critical <=> request_mutex = g
  BY DEF MutexInv
<1>1. ASSUME NEW a \in Adders, NEW r \in Requests, AddRequest(a, r)
      PROVE  (pc[g] \in critical <=> request_mutex = g)'
  BY <1>1, <1>0, GotoPC DEF AddRequest
<1>2. ASSUME NEW a \in Adders, Signal(a)
      PROVE  (pc[g] \in critical <=> request_mutex = g)'
  <2>1. a # g /\ pc'[g] \in {pc[g], "woken"} /\ (pc'[g] # pc[g] => pc[g] = "wait")
    BY <1>2, PoolAssumption DEF Signal, Goto, TypeOK, waiting
  <2>2. QED
    BY <1>2, <1>0, <2>1 DEF Signal
<1>3. ASSUME NEW h \in Handlers, HandlerStep(h) \/ SpuriousWakeup(h)
      PROVE  (pc[g] \in critical <=> request_mutex = g)'
  <2>1. pc[h] \in critical <=> request_mutex = h
    BY DEF MutexInv
  <2>2. g # NoThread
    BY PoolAssumption
  <2>3. CASE \/ EnterLoop(h) \/ TestRequests(h) \/ Sleep(h) \/ FinishRequest(h)
             \/ Relock(h) \/ SpuriousWakeup(h)
    BY <1>0, <2>1, <2>2, <2>3, GotoPC
       DEF EnterLoop, TestRequests, Sleep, FinishRequest, Relock,
           SpuriousWakeup, Lock, Unlock
  <2>4. CASE GetRequest(h) \/ CheckQuit(h)
    BY <1>0, <2>1, <2>2, <2>4, GotoPC DEF GetRequest, CheckQuit, Unlock
  <2>5. QED
    BY <1>3, <2>3, <2>4 DEF HandlerStep
<1>4. CASE Close
  <2>1. pc'[g] = pc[g] \/ (pc[g] = "wait" /\ pc'[g] = "woken")
    BY <1>4 DEF Close, SetQuit, Broadcast, JoinHandlers, waiting
  <2>2. QED
    BY <1>4, <1>0, <2>1 DEF Close, SetQuit, Broadcast, JoinHandlers
<1>5. CASE UNCHANGED vars
  BY <1>5, <1>0 DEF vars
<1>6. QED
  BY <1>1, <1>2, <1>3, <1>4, <1>5 DEF Next

(* The list and its count change together, and only while no handler is    *)
(* between its test and its pop or wait.                                   *)
LEMMA CountStep ==
  TypeOK /\ MutexInv /\ CountInv /\ [Next]_vars => CountInv'
<1> SUFFICES ASSUME TypeOK, MutexInv, CountInv, [Next]_vars PROVE CountInv'
  OBVIOUS
<1>1. ASSUME NEW a \in Adders, NEW r \in Requests, AddRequest(a, r)
      PROVE  CountInv'
  <2>1. \A h \in Handlers : pc'[h] \notin {"get", "sleep"}
    BY <1>1, GotoPC, PoolAssumption DEF AddRequest, MutexInv, critical
  <2>2. num_requests' = Len(request_list')
    BY <1>1 DEF AddRequest, appended, TypeOK, CountInv
  <2>3. QED
    BY <2>1, <2>2 DEF CountInv
<1>2. ASSUME NEW a \in Adders, Signal(a) PROVE CountInv'
  <2>1. \A h \in Handlers : pc'[h] \in {pc[h], "woken"}
    BY <1>2, PoolAssumption DEF Signal, Goto, TypeOK, waiting
  <2>2. QED
    BY <1>2, <2>1 DEF Signal, CountInv
<1>3. ASSUME NEW h \in Handlers, HandlerStep(h) \/ SpuriousWakeup(h)
      PROVE  CountInv'
  <2>1. CASE \/ EnterLoop(h) \/ Sleep(h) \/ FinishRequest(h) \/ Relock(h)
             \/ CheckQuit(h) \/ SpuriousWakeup(h)
    BY <2>1, GotoPC
       DEF EnterLoop, Sleep, FinishRequest, Relock, CheckQuit, SpuriousWakeup,
           CountInv
  <2>2. CASE TestRequests(h)
    BY <2>2, GotoPC DEF TestRequests, requestPending, CountInv, TypeOK
  <2>3. CASE GetRequest(h)
    <3>1. \A g \in Handlers : g # h => pc[g] \notin {"get", "sleep"}
      BY <2>3 DEF GetRequest, MutexInv, critical
    <3>2. request_list # <<>>
      BY <2>3, EmptySeq DEF GetRequest, CountInv
    <3>3. \A g \in Handlers : pc'[g] \notin {"get", "sleep"}
      BY <2>3, <3>1, <3>2, GotoPC DEF GetRequest
    <3>4. num_requests' = Len(request_list')
      BY <2>3, <3>2, HeadTailProperties DEF GetRequest, popped, decremented, CountInv, TypeOK
    <3>5. QED
      BY <3>3, <3>4 DEF CountInv
  <2>4. QED
    BY <1>3, <2>1, <2>2, <2>3 DEF HandlerStep
<1>4. CASE Close
  <2>1. \A h \in Handlers : pc'[h] \in {pc[h], "woken"}
    BY <1>4 DEF Close, SetQuit, Broadcast, JoinHandlers
  <2>2. QED
    BY <1>4, <2>1 DEF Close, SetQuit, Broadcast, JoinHandlers, CountInv
<1>5. CASE UNCHANGED vars
  BY <1>5 DEF vars, CountInv
<1>6. QED
  BY <1>1, <1>2, <1>3, <1>4, <1>5 DEF Next

-----------------------------------------------------------------------------
(* Steps that touch neither the list, nor a running request, nor submitted. *)
LEMMA OtherStepsKeepRequests ==
  ASSUME TypeOK, SubmittedInv, ExactlyOnce,
         UNCHANGED <<request_list, a_request, submitted>>,
         \A h \in Handlers : pc'[h] = "run" => pc[h] = "run"
  PROVE  SubmittedInv' /\ ExactlyOnce'
BY DEF SubmittedInv, ExactlyOnce

(* A request is appended once, popped once, and by one handler. *)
LEMMA OnceStep ==
  TypeOK /\ CountInv /\ SubmittedInv /\ ExactlyOnce /\ [Next]_vars
    => SubmittedInv' /\ ExactlyOnce'
<1> SUFFICES ASSUME TypeOK, CountInv, SubmittedInv, ExactlyOnce, [Next]_vars
             PROVE  SubmittedInv' /\ ExactlyOnce'
  OBVIOUS
<1>1. ASSUME NEW a \in Adders, NEW r \in Requests, AddRequest(a, r)
      PROVE  SubmittedInv' /\ ExactlyOnce'
  <2>1. \A h \in Handlers : pc'[h] = pc[h] /\ a_request'[h] = a_request[h]
    BY <1>1, GotoPC DEF AddRequest
  <2>2. /\ Len(request_list') = Len(request_list) + 1
        /\ request_list'[Len(request_list) + 1] = r
        /\ \A i \in 1..Len(request_list) : request_list'[i] = request_list[i]
        /\ Len(request_list) \in Nat
    BY <1>1 DEF AddRequest, appended, TypeOK
  <2>3. r \notin submitted /\ submitted' = submitted \cup {r}
    BY <1>1 DEF AddRequest
  <2>4. QED
    BY <2>1, <2>2, <2>3 DEF SubmittedInv, ExactlyOnce
<1>2. ASSUME NEW a \in Adders, Signal(a)
      PROVE  SubmittedInv' /\ ExactlyOnce'
  <2>1. \A h \in Handlers : pc'[h] = "run" => pc[h] = "run"
    BY <1>2, PoolAssumption DEF Signal, Goto, TypeOK, waiting
  <2>2. QED
    BY <1>2, <2>1, OtherStepsKeepRequests DEF Signal
<1>3. ASSUME NEW h \in Handlers, HandlerStep(h) \/ SpuriousWakeup(h)
      PROVE  SubmittedInv' /\ ExactlyOnce'
  <2>1. CASE GetRequest(h)
    <3>1. request_list # <<>>
      BY <2>1, EmptySeq DEF GetRequest, CountInv
    <3> DEFINE r == Head(request_list)
    <3>2. /\ Len(request_list') = Len(request_list) - 1
          /\ \A i \in 1..Len(request_list') : request_list'[i] = request_list[i+1]
          /\ r = request_list[1]
          /\ Len(request_list) \in Nat \ {0}
      BY SMTT(30), <2>1, <3>1, HeadTailProperties, EmptySeq DEF GetRequest, popped, decremented, TypeOK
    <3>3. /\ a_request'[h] = r
          /\ \A g \in Handlers \ {h} : /\ pc'[g] = pc[g]
                                       /\ a_request'[g] = a_request[g]
          /\ submitted' = submitted
      BY <2>1, <3>1, GotoPC DEF GetRequest, TypeOK
    <3> HIDE DEF r
    <3>4. /\ r \in submitted
          /\ \A i \in 1..Len(request_list') : request_list'[i] # r
          /\ \A g \in Handlers : pc[g] = "run" => a_request[g] # r
      BY <3>2 DEF SubmittedInv, ExactlyOnce
    <3>5. SubmittedInv'
      BY <3>2, <3>3, <3>4 DEF SubmittedInv
    <3>6. ExactlyOnce'
      <4>1. \A i, j \in 1..Len(request_list') :
              request_list'[i] = request_list'[j] => i = j
        BY <3>2 DEF ExactlyOnce
      <4>2. ASSUME NEW g \in Handlers, pc'[g] = "run"
            PROVE  /\ \A i \in 1..Len(request_list') :
                        request_list'[i] # a_request'[g]
                   /\ \A f \in Handlers :
                        pc'[f] = "run" /\ a_request'[f] = a_request'[g] => f = g
        <5>1. CASE g = h
          BY <4>2, <5>1, <3>3, <3>4
        <5>2. CASE g # h
          BY <4>2, <5>2, <3>2, <3>3, <3>4 DEF ExactlyOnce
        <5>3. QED
          BY <5>1, <5>2
      <4>3. QED
        BY <4>1, <4>2 DEF ExactlyOnce
    <3>7. QED
      BY <3>5, <3>6
  <2>2. CASE \/ EnterLoop(h) \/ TestRequests(h) \/ Sleep(h) \/ FinishRequest(h)
             \/ Relock(h) \/ CheckQuit(h) \/ SpuriousWakeup(h)
    <3>1. \A g \in Handlers : pc'[g] = "run" => pc[g] = "run"
      BY <2>2, GotoPC
         DEF EnterLoop, TestRequests, Sleep, FinishRequest, Relock, CheckQuit,
             SpuriousWakeup
    <3>2. QED
      BY <2>2, <3>1, OtherStepsKeepRequests
         DEF EnterLoop, TestRequests, Sleep, FinishRequest, Relock, CheckQuit,
             SpuriousWakeup
  <2>3. QED
    BY <1>3, <2>1, <2>2 DEF HandlerStep
<1>4. CASE Close
  BY <1>4, OtherStepsKeepRequests DEF Close, SetQuit, Broadcast, JoinHandlers
<1>5. CASE UNCHANGED vars
  BY <1>5, OtherStepsKeepRequests DEF vars
<1>6. QED
  BY <1>1, <1>2, <1>3, <1>4, <1>5 DEF Next

-----------------------------------------------------------------------------
(* How the three sets of NoStrandedRequest react to one thread's move. *)
LEMMA OneHandlerMoves ==
  ASSUME TypeOK, NEW h \in Handlers, NEW l, Goto(h, l)
  PROVE  /\ signalling' = signalling
         /\ waiting' = IF l = "wait" THEN waiting \cup {h} ELSE waiting \ {h}
         /\ awake' = IF l \in {"wait", "run", "done"} THEN awake \ {h}
                                                    ELSE awake \cup {h}
<1>1. pc'[h] = l /\ \A u \in Handlers : u # h => pc'[u] = pc[u]
  BY GotoPC
<1>2. \A a \in Adders : pc'[a] = pc[a]
  BY GotoPC
<1>3. signalling' = signalling
  BY <1>2 DEF signalling
<1>4. waiting' = IF l = "wait" THEN waiting \cup {h} ELSE waiting \ {h}
  BY <1>1 DEF waiting
<1>5. awake' = IF l \in {"wait", "run", "done"} THEN awake \ {h}
                                              ELSE awake \cup {h}
  BY <1>1 DEF awake
<1>6. QED
  BY <1>3, <1>4, <1>5

(* A handler goes to sleep only when nothing is pending, and every request *)
(* brings a signal with it.                                                *)
LEMMA StrandedStep ==
  TypeOK /\ CountInv /\ NoStrandedRequest /\ [Next]_vars => NoStrandedRequest'
<1> SUFFICES ASSUME TypeOK, CountInv, NoStrandedRequest, [Next]_vars
             PROVE  NoStrandedRequest'
  OBVIOUS
<1> USE FiniteSetsOfThreads
<1>0. Cardinality(awake') \in Nat /\ Cardinality(signalling') \in Nat
  <2>1. awake' \in SUBSET Handlers /\ signalling' \in SUBSET Adders
    BY DEF awake, signalling
  <2>2. QED
    BY <2>1, FS_Subset, FS_CardinalityType, PoolAssumption
<1>1. CASE quit
  <2>1. quit'
    BY <1>1 DEF Next, HandlerStep, Close, AddRequest, Signal, EnterLoop, TestRequests,
                GetRequest, Sleep, SpuriousWakeup, FinishRequest, Relock, CheckQuit,
                SetQuit, Broadcast, JoinHandlers, vars
  <2>2. QED
    BY <2>1 DEF NoStrandedRequest
<1>2. ASSUME ~quit, NEW a \in Adders, NEW r \in Requests, AddRequest(a, r)
      PROVE  NoStrandedRequest'
  <2>1. pc'[a] = "signal" /\ \A u \in Adders : u # a => pc'[u] = pc[u]
    BY <1>2, GotoPC DEF AddRequest
  <2>2. \A h \in Handlers : pc'[h] = pc[h]
    BY <1>2, GotoPC DEF AddRequest
  <2>3. signalling' = signalling \cup {a} /\ a \notin signalling
    BY <1>2, <2>1 DEF AddRequest, signalling
  <2>4. waiting' = waiting /\ awake' = awake
    BY <2>2 DEF waiting, awake
  <2>5. Cardinality(signalling') = Cardinality(signalling) + 1
    BY <2>3, FS_AddElement
  <2>6. QED
    BY <1>2, <2>4, <2>5 DEF AddRequest, NoStrandedRequest, TypeOK
<1>3. ASSUME ~quit, NEW a \in Adders, Signal(a) PROVE NoStrandedRequest'
  <2>1. CASE waiting = {} /\ Goto(a, "idle")
    <3>1. \A h \in Handlers : pc'[h] = pc[h]
      BY <2>1, GotoPC
    <3>2. QED
      BY <2>1, <3>1 DEF NoStrandedRequest, waiting
  <2>2. ASSUME NEW h \in waiting,
               pc' = [pc EXCEPT ![a] = "idle", ![h] = "woken"]
        PROVE  NoStrandedRequest'
    <3>1. /\ pc'[a] = "idle" /\ pc'[h] = "woken" /\ pc[h] = "wait"
          /\ \A u \in Handlers \cup Adders : u \notin {a, h} => pc'[u] = pc[u]
          /\ h \in Handlers \ Adders /\ a \in Adders \ Handlers
      BY <2>2, PoolAssumption DEF TypeOK, waiting
    <3>2. awake' = awake \cup {h} /\ h \notin awake
      BY <3>1 DEF awake
    <3>3. signalling' = signalling \ {a} /\ a \in signalling
      BY <1>3, <3>1 DEF Signal, signalling
    <3>4. waiting' \subseteq waiting
      BY <3>1 DEF waiting
    <3>5. /\ Cardinality(awake') = Cardinality(awake) + 1
          /\ Cardinality(signalling') = Cardinality(signalling) - 1
      BY <3>2, <3>3, FS_AddElement, FS_RemoveElement
    <3>6. QED
      BY <1>3, <3>4, <3>5 DEF Signal, NoStrandedRequest, TypeOK
  <2>3. QED
    BY <1>3, <2>1, <2>2 DEF Signal
<1>4. ASSUME ~quit, NEW h \in Handlers, HandlerStep(h) \/ SpuriousWakeup(h)
      PROVE  NoStrandedRequest'
  <2>1. CASE Sleep(h)
    <3>1. num_requests' = 0
      BY <2>1 DEF Sleep, CountInv
    <3>2. QED
      BY <1>0, <3>1 DEF NoStrandedRequest
  <2>2. CASE GetRequest(h)
    <3>1. request_list # <<>>
      BY <2>2, EmptySeq DEF GetRequest, CountInv
    <3>2. Goto(h, "run") /\ num_requests' = num_requests - 1 /\ quit' = quit
      BY <2>2, <3>1 DEF GetRequest, popped, decremented
    <3>3. signalling' = signalling /\ awake' = awake \ {h} /\ waiting' = waiting \ {h}
      BY <3>2, OneHandlerMoves
    <3>4. Cardinality(awake') >= Cardinality(awake) - 1
      BY <3>3, FS_RemoveElement
    <3>5. CASE waiting = {}
      BY <3>3, <3>5 DEF NoStrandedRequest
    <3>6. CASE num_requests <= Cardinality(awake) + Cardinality(signalling)
      <4>1. num_requests' <= Cardinality(awake') + Cardinality(signalling')
        BY <1>0, <3>2, <3>3, <3>4, <3>6 DEF TypeOK
      <4>2. QED
        BY <4>1 DEF NoStrandedRequest
    <3>7. QED
      BY <1>4, <3>5, <3>6 DEF NoStrandedRequest
  <2>3. CASE \/ EnterLoop(h) \/ TestRequests(h) \/ FinishRequest(h) \/ Relock(h)
             \/ CheckQuit(h) \/ SpuriousWakeup(h)
    <3>1. \E l \in {"test", "get", "sleep", "relock", "check", "woken"} : Goto(h, l)
      BY <1>4, <2>3 DEF EnterLoop, TestRequests, FinishRequest, Relock, CheckQuit,
                        SpuriousWakeup
    <3>2. signalling' = signalling /\ awake' = awake \cup {h} /\ waiting' = waiting \ {h}
      BY <3>1, OneHandlerMoves
    <3>3. Cardinality(awake') >= Cardinality(awake)
      <4>1. Cardinality(awake \cup {h}) = IF h \in awake THEN Cardinality(awake)
                                           ELSE Cardinality(awake) + 1
        BY FS_AddElement
      <4>2. QED
        BY <3>2, <4>1
    <3>4. num_requests' = num_requests
      BY <2>3 DEF EnterLoop, TestRequests, FinishRequest, Relock, CheckQuit,
                  SpuriousWakeup
    <3>5. CASE waiting = {}
      BY <3>2, <3>5 DEF NoStrandedRequest
    <3>6. CASE num_requests <= Cardinality(awake) + Cardinality(signalling)
      <4>1. num_requests' <= Cardinality(awake') + Cardinality(signalling')
        BY <1>0, <3>2, <3>3, <3>4, <3>6 DEF TypeOK
      <4>2. QED
        BY <4>1 DEF NoStrandedRequest
    <3>7. QED
      BY <1>4, <3>5, <3>6 DEF NoStrandedRequest
  <2>4. QED
    BY <1>4, <2>1, <2>2, <2>3 DEF HandlerStep
<1>5. ASSUME ~quit, Close PROVE NoStrandedRequest'
  <2>1. CASE SetQuit
    BY <2>1 DEF SetQuit, NoStrandedRequest
  <2>2. CASE Broadcast
    <3>1. waiting' = {}
      BY <2>2 DEF Broadcast, waiting
    <3>2. QED
      BY <3>1 DEF NoStrandedRequest
  <2>3. CASE JoinHandlers
    BY <2>3 DEF JoinHandlers, NoStrandedRequest, waiting, awake, signalling
  <2>4. QED
    BY <1>5, <2>1, <2>2, <2>3 DEF Close
<1>6. CASE UNCHANGED vars
  BY <1>6 DEF vars, NoStrandedRequest, waiting, awake, signalling
<1>7. QED
  BY <1>1, <1>2, <1>3, <1>4, <1>5, <1>6 DEF Next

-----------------------------------------------------------------------------
(* Every step keeps IInv: the lemmas above, put together. *)
LEMMA NextIInv == IInv /\ [Next]_vars => IInv'
BY TypeStep, MutexStep, CountStep, OnceStep, StrandedStep DEF IInv

(* IInv is an invariant. *)
THEOREM PoolInvariant == Spec => []IInv
BY InitIInv, NextIInv, PTL DEF Spec

(* The state of the pool always has its type: num_requests, for one, never *)
(* goes below zero.                                                        *)
THEOREM PoolTypeOK == Spec => []TypeOK
<1>1. IInv => TypeOK
  BY DEF IInv
<1>2. QED
  BY <1>1, PoolInvariant, PTL

(* No submitted request is left to a pool whose handlers all sleep, however *)
(* many handlers and clients there are and however signals, spurious        *)
(* wake-ups and finishing requests interleave.                              *)
THEOREM PoolNeverStrands == Spec => []NoStrandedRequest
<1>1. IInv => NoStrandedRequest
  BY DEF IInv
<1>2. QED
  BY <1>1, PoolInvariant, PTL

(* No request is handed to two handlers or handed out twice. *)
THEOREM PoolExactlyOnce == Spec => []ExactlyOnce
<1>1. IInv => ExactlyOnce
  BY DEF IInv
<1>2. QED
  BY <1>1, PoolInvariant, PTL

-----------------------------------------------------------------------------
(* A step of the pool starts, finishes or submits a request of the work    *)
(* queue, or changes nothing the work queue sees.                          *)
LEMMA RefinementStep == IInv /\ [Next]_vars => [WQ!Next]_(WQ!vars)
<1> SUFFICES ASSUME IInv, [Next]_vars PROVE [WQ!Next]_(WQ!vars)
  OBVIOUS
<1> USE DEF IInv
<1>0. \A h \in Handlers : pc[h] = "run" => a_request[h] # NoRequest
  BY PoolAssumption DEF SubmittedInv, TypeOK
<1>q. ASSUME UNCHANGED <<request_list, a_request, submitted>>,
             \A h \in Handlers : pc'[h] = "run" <=> pc[h] = "run"
      PROVE  UNCHANGED WQ!vars
  BY <1>q DEF WQ!vars, runningRequest
<1>1. ASSUME NEW a \in Adders, NEW r \in Requests, AddRequest(a, r)
      PROVE  WQ!Next
  <2>1. \A h \in Handlers : pc'[h] = pc[h]
    BY <1>1, GotoPC DEF AddRequest
  <2>2. runningRequest' = runningRequest
    BY <1>1, <2>1 DEF AddRequest, runningRequest
  <2>3. WQ!Submit(r)
    BY <1>1, <2>2 DEF AddRequest, appended, WQ!Submit
  <2>4. QED
    BY <2>3 DEF WQ!Next
<1>2. ASSUME NEW a \in Adders, Signal(a) PROVE UNCHANGED WQ!vars
  <2>1. \A h \in Handlers : pc'[h] = "run" <=> pc[h] = "run"
    BY <1>2, PoolAssumption DEF Signal, Goto, TypeOK, waiting
  <2>2. QED
    BY <1>2, <1>q, <2>1 DEF Signal
<1>3. ASSUME NEW h \in Handlers, GetRequest(h) PROVE WQ!Next
  <2>1. request_list # <<>>
    BY <1>3, EmptySeq DEF GetRequest, CountInv
  <2>2. /\ pc'[h] = "run" /\ a_request'[h] = Head(request_list)
        /\ \A g \in Handlers : g # h => pc'[g] = pc[g] /\ a_request'[g] = a_request[g]
    BY <1>3, <2>1, GotoPC DEF GetRequest, TypeOK
  <2>3. runningRequest' = [runningRequest EXCEPT ![h] = Head(request_list)]
    BY <2>2 DEF runningRequest
  <2>4. runningRequest[h] = NoRequest
    BY <1>3 DEF GetRequest, runningRequest
  <2>5. WQ!Start(h)
    BY <1>3, <2>1, <2>3, <2>4 DEF GetRequest, popped, decremented, WQ!Start
  <2>6. QED
    BY <2>5 DEF WQ!Next
<1>4. ASSUME NEW h \in Handlers, FinishRequest(h) PROVE WQ!Next
  <2>1. pc'[h] = "relock" /\ \A g \in Handlers : g # h => pc'[g] = pc[g]
    BY <1>4, GotoPC DEF FinishRequest
  <2>2. runningRequest' = [runningRequest EXCEPT ![h] = NoRequest]
    BY <1>4, <2>1 DEF FinishRequest, runningRequest
  <2>3. runningRequest[h] # NoRequest
    BY <1>4, <1>0 DEF FinishRequest, runningRequest
  <2>4. WQ!Finish(h)
    BY <1>4, <2>2, <2>3 DEF FinishRequest, WQ!Finish
  <2>5. QED
    BY <2>4 DEF WQ!Next
<1>5. ASSUME NEW h \in Handlers,
             \/ EnterLoop(h) \/ TestRequests(h) \/ Sleep(h) \/ Relock(h)
             \/ CheckQuit(h) \/ SpuriousWakeup(h)
      PROVE  UNCHANGED WQ!vars
  <2>1. \A g \in Handlers : pc'[g] = "run" <=> pc[g] = "run"
    BY <1>5, GotoPC DEF EnterLoop, TestRequests, Sleep, Relock, CheckQuit, SpuriousWakeup
  <2>2. QED
    BY <1>5, <1>q, <2>1
       DEF EnterLoop, TestRequests, Sleep, Relock, CheckQuit, SpuriousWakeup
<1>6. CASE Close
  <2>1. \A h \in Handlers : pc'[h] = "run" <=> pc[h] = "run"
    BY <1>6 DEF Close, SetQuit, Broadcast, JoinHandlers, waiting
  <2>2. QED
    BY <1>6, <1>q, <2>1 DEF Close, SetQuit, Broadcast, JoinHandlers
<1>7. CASE UNCHANGED vars
  BY <1>7, <1>q DEF vars
<1>8. QED
  BY <1>1, <1>2, <1>3, <1>4, <1>5, <1>6, <1>7 DEF Next, HandlerStep

(* The pool implements the abstract work queue: requests are started in    *)
(* order of submission, each once, by one handler.                         *)
THEOREM PoolImplementsWorkQueue == Spec => ImplementsWorkQueue
<1>1. Init => WQ!Init
  BY PoolAssumption DEF Init, WQ!Init, runningRequest
<1>2. IInv /\ [Next]_vars => [WQ!Next]_(WQ!vars)
  BY RefinementStep
<1>3. QED
  BY <1>1, <1>2, PoolInvariant, PTL DEF Spec, ImplementsWorkQueue, WQ!Spec
=============================================================================

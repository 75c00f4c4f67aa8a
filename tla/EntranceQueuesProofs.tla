------------------------- MODULE EntranceQueuesProofs -------------------------
(***************************************************************************)
(* Proofs about the threads of the simulator, for any number of entrances, *)
(* handlers and cars.  The simulator is shown to use its thread pool as    *)
(* ThreadPool says, so what ThreadPoolProofs proves of the pool holds      *)
(* here.  On top of it the inductive invariant IInv says how each counter, *)
(* queue and semaphore agrees with the place of the threads that use it.   *)
(***************************************************************************)
EXTENDS EntranceQueues, FiniteSetTheorems, SequenceTheorems, TLAPS

PP == INSTANCE ThreadPoolProofs WITH
        Adders <- Entrances, Requests <- Cars, NoRequest <- NoCar,
        quit <- pool_quit, pc <- pool_pc

(* The generator's counters, and when it has raised quit. *)
CountersInv ==
  /\ gen_pc = "generate" => cars_sim_started < CarsToSim
  /\ gen_pc = "post" => cars_sim_started > 0
  /\ gen_pc \in {"count", "sleep", "done"} => cars_sim_started = CarsToSim
  /\ quit <=> gen_pc = "done"
  /\ quit => enoughEnded
  /\ ~quit => quit_sem = 0
  /\ cars_simulating <= cars_sim_ended
  /\ gen_pc = "sleep" => cars_sim_ended < cars_simulating + (CarsToSim - 1)
  /\ cars_sim_ended = Cardinality(over)

(* What main knows at each place of its shutdown. *)
MainInv ==
  /\ main_pc # "run" => quit
  /\ main_pc \in {"run", "close"} => joined = {}
  /\ main_pc \notin {"run", "close"} => closer = "closed"
  /\ main_pc = "join" => joining \in Entrances \ joined
  /\ main_pc \in {"last", "queues", "done"} => joined = Entrances
  /\ \A e \in joined : mgr_pc[e] = "done"
  /\ closer = "closed" => \A h \in Handlers : pool_pc[h] = "done"

(* The semaphore full counts the cars of its queue, up to a car that is    *)
(* queued and not yet posted, a post taken for a car not yet popped, and   *)
(* the post main makes to release the entrance thread.                     *)
released(e) == e \in joined \/ (main_pc = "join" /\ joining = e)
extra(e) == IF released(e) THEN 1 ELSE 0
unposted(e) == IF gen_pc = "post" /\ entrance[cars_sim_started] = e THEN 1 ELSE 0
taken(e) == IF mgr_pc[e] \in {"test", "occupy", "pop"} THEN 1 ELSE 0
FullInv ==
  \A e \in Entrances :
    /\ full[e] + unposted(e) <= cars_sim_started + extra(e)
    /\ mgr_pc[e] # "done"
         => full[e] + taken(e) + unposted(e) = Len(queue[e]) + extra(e)
    /\ released(e) /\ mgr_pc[e] \in {"occupy", "pop"} => full[e] > 0

(* A queue holds cars of its entrance in the order of their generation. *)
QueueInv ==
  \A e \in Entrances :
    /\ \A i, j \in DOMAIN queue[e] : i < j => queue[e][i] < queue[e][j]
    /\ \A i \in DOMAIN queue[e] : entrance[queue[e][i]] = e

(* Between pop and unlock an entrance thread has a car of its entrance. *)
handling == {"push", "submit", "signal", "sleep", "waiting", "woken", "unlock"}
HandInv ==
  \A e \in Entrances : mgr_pc[e] \in handling =>
    mgr_car[e] \in Cars /\ entrance[mgr_car[e]] = e

(* Only submitted cars move. *)
StageInv == \A c \in Cars : stage[c] # "arrive" => c \in submitted

(* Cars are submitted in the order in which they queued. *)
OrderInv ==
  \A c, d \in Cars :
    entrance[c] = entrance[d] /\ c < d /\ (d \in submitted \/ inHand(d))
      => c \in submitted

(* An entrance thread holds occupy_mutex from its pop to its wait, and     *)
(* goes on only when the car it submitted last, the only one that may be   *)
(* on its way through the entrance, has told it so.                        *)
WaitInv ==
  \A e \in Entrances :
    /\ mgr_pc[e] \in {"pop", "push", "submit", "signal", "sleep", "unlock"}
         => occupy[e] = e
    /\ \A c \in outstanding(e) :
         /\ mgr_pc[e] \in {"signal", "sleep", "waiting"} /\ mgr_car[e] = c
         /\ stage[c] # "arrive" => mgr_pc[e] = "waiting"
         /\ \A d \in submitted : entrance[d] = e => ~(c < d)

IInv ==
  /\ TypeOK /\ CountersInv /\ MainInv /\ FullInv /\ QueueInv /\ HandInv
  /\ CarsConserved /\ StageInv /\ OrderInv
  /\ Spurious \/ WaitInv

-----------------------------------------------------------------------------
(* The pool as the simulator instantiates it. *)
LEMMA PoolAssumptionHolds == PP!PoolAssumption
BY QueuesAssumption DEF PP!PoolAssumption, Cars, PP!IsFiniteSet, IsFiniteSet

(* Pool names the module the simulator uses, PP the same with its proofs. *)
LEMMA SamePool ==
  /\ Pool!Init <=> PP!Init
  /\ \A e, c : Pool!AddRequest(e, c) <=> PP!AddRequest(e, c)
  /\ \A e : Pool!Signal(e) <=> PP!Signal(e)
  /\ \A h : /\ Pool!EnterLoop(h) <=> PP!EnterLoop(h)
            /\ Pool!TestRequests(h) <=> PP!TestRequests(h)
            /\ Pool!GetRequest(h) <=> PP!GetRequest(h)
            /\ Pool!Sleep(h) <=> PP!Sleep(h)
            /\ Pool!Relock(h) <=> PP!Relock(h)
            /\ Pool!CheckQuit(h) <=> PP!CheckQuit(h)
            /\ Pool!SpuriousWakeup(h) <=> PP!SpuriousWakeup(h)
            /\ Pool!FinishRequest(h) <=> PP!FinishRequest(h)
  /\ Pool!Close <=> PP!Close
<1> USE DEF Pool!Goto, PP!Goto, Pool!Lock, PP!Lock, Pool!Unlock, PP!Unlock,
            Pool!waiting, PP!waiting
<1>1. Pool!Init <=> PP!Init
  BY DEF Pool!Init, PP!Init
<1>2. \A e, c : Pool!AddRequest(e, c) <=> PP!AddRequest(e, c)
  BY DEF Pool!AddRequest, PP!AddRequest, Pool!appended, PP!appended
<1>3. \A e : Pool!Signal(e) <=> PP!Signal(e)
  BY DEF Pool!Signal, PP!Signal
<1>4. \A h : /\ Pool!EnterLoop(h) <=> PP!EnterLoop(h)
             /\ Pool!TestRequests(h) <=> PP!TestRequests(h)
             /\ Pool!GetRequest(h) <=> PP!GetRequest(h)
             /\ Pool!Sleep(h) <=> PP!Sleep(h)
  BY DEF Pool!EnterLoop, PP!EnterLoop, Pool!TestRequests, PP!TestRequests,
         Pool!requestPending, PP!requestPending, Pool!GetRequest, PP!GetRequest,
         Pool!popped, PP!popped, Pool!decremented, PP!decremented, Pool!Sleep, PP!Sleep
<1>5. \A h : /\ Pool!Relock(h) <=> PP!Relock(h)
             /\ Pool!CheckQuit(h) <=> PP!CheckQuit(h)
             /\ Pool!SpuriousWakeup(h) <=> PP!SpuriousWakeup(h)
             /\ Pool!FinishRequest(h) <=> PP!FinishRequest(h)
  BY DEF Pool!Relock, PP!Relock, Pool!CheckQuit, PP!CheckQuit, Pool!SpuriousWakeup,
         PP!SpuriousWakeup, Pool!FinishRequest, PP!FinishRequest
<1>6. Pool!Close <=> PP!Close
  BY DEF Pool!Close, PP!Close, Pool!SetQuit, PP!SetQuit, Pool!Broadcast, PP!Broadcast,
         Pool!JoinHandlers, PP!JoinHandlers
<1>7. QED
  BY <1>1, <1>2, <1>3, <1>4, <1>5, <1>6

(* Each thread of the simulator leaves the variables of the others alone. *)
LEMMA GeneratorLeaves ==
  Generator => UNCHANGED <<cars_sim_ended, entrance, mgr_pc, mgr_car, occupy, stage, car_list,
                           main_pc, joining, joined, poolVars>>
BY DEF Generator, Generate, PostFull, CountEnded, WaitSimulating, endVars, queueVars,
       mgrVars, mainVars

(* An entrance thread writes queue, full, mgr_pc, mgr_car, occupy and car_list. *)
LEMMA ManagerLeaves ==
  ASSUME NEW e \in Entrances, Manager(e) \/ SpuriousWake(e)
  PROVE  /\ UNCHANGED <<gen_pc, cars_sim_started, quit, quit_sem, entrance, cars_sim_ended,
                        cars_simulating, stage, main_pc, joining, joined>>
         /\ Submit(e) \/ SignalPool(e) \/ UNCHANGED poolVars
BY DEF Manager, WaitFull, TestQuit, LockOccupy, Pop, PushToCarList, Submit, SignalPool,
       WaitFinished, UnlockOccupy, SpuriousWake, genVars, endVars, mainVars

(* A handler between two requests writes the pool only. *)
LEMMA PoolStepLeaves ==
  ASSUME NEW h \in Handlers, PoolStep(h) \/ SpuriousPool(h)
  PROVE  UNCHANGED <<gen_pc, cars_sim_started, quit, quit_sem, entrance, cars_sim_ended,
                     cars_simulating, queue, full, mgr_pc, mgr_car, occupy, stage, car_list,
                     main_pc, joining, joined>>
BY DEF PoolStep, SpuriousPool, genVars, endVars, queueVars, mgrVars, mainVars

(* A car writes stage, occupy, mgr_pc by its signal, car_list and the counters. *)
LEMMA CarStepLeaves ==
  ASSUME NEW h \in Handlers, NEW c \in Cars, CarStep(h, c) \/ Verdict(h, c)
  PROVE  /\ UNCHANGED <<gen_pc, cars_sim_started, quit, quit_sem, entrance, queue, full,
                        mgr_car, main_pc, joining, joined>>
         /\ EndCar(h, c) \/ UNCHANGED <<poolVars, cars_sim_ended, cars_simulating>>
BY DEF CarStep, ArriveAtEntrance, Verdict, LeaveEntrance, SignalLeave, Park, RemoveCar, EndCar,
       genVars, endVars, queueVars, mgrVars, mainVars

(* main writes quit_sem, full, the queues, its own variables and the pool. *)
LEMMA MainLeaves ==
  Main => /\ UNCHANGED <<gen_pc, cars_sim_started, quit, entrance, cars_sim_ended,
                         cars_simulating, mgr_pc, mgr_car, occupy, stage, car_list>>
          /\ ClosePool \/ UNCHANGED poolVars
BY DEF Main, WaitQuit, ClosePool, ReleaseManager, JoinManager, JoinGenerator, CloseQueues,
       genVars, endVars, mgrVars

(* Every step of the simulator is a step of its pool, or leaves it alone. *)
LEMMA PoolRefinementStep == HandInv /\ [Next]_vars => [PP!Next]_(PP!vars)
<1> SUFFICES ASSUME HandInv, [Next]_vars PROVE [PP!Next]_(PP!vars)
  OBVIOUS
<1>1. UNCHANGED poolVars => UNCHANGED PP!vars
  BY DEF poolVars, PP!vars
<1>2. CASE Generator
  BY <1>1, <1>2, GeneratorLeaves
<1>3. ASSUME NEW e \in Entrances, Manager(e) \/ SpuriousWake(e) PROVE [PP!Next]_(PP!vars)
  <2>1. CASE Submit(e)
    <3>1. mgr_car[e] \in Cars
      BY <2>1 DEF Submit, HandInv, handling
    <3>2. PP!AddRequest(e, mgr_car[e])
      BY <2>1, SamePool DEF Submit
    <3>3. QED
      BY <3>1, <3>2 DEF PP!Next
  <2>2. CASE SignalPool(e)
    BY <2>2, SamePool DEF SignalPool, PP!Next
  <2>3. QED
    BY <1>1, <1>3, <2>1, <2>2, ManagerLeaves
<1>4. ASSUME NEW h \in Handlers, PoolStep(h) \/ SpuriousPool(h) PROVE [PP!Next]_(PP!vars)
  <2>1. PP!HandlerStep(h) \/ PP!SpuriousWakeup(h)
    BY <1>4, SamePool DEF PoolStep, SpuriousPool, PP!HandlerStep
  <2>2. QED
    BY <2>1 DEF PP!Next
<1>5. ASSUME NEW h \in Handlers, NEW c \in Cars, CarStep(h, c) \/ Verdict(h, c)
      PROVE  [PP!Next]_(PP!vars)
  <2>1. CASE EndCar(h, c)
    <3>1. PP!FinishRequest(h)
      BY <2>1, SamePool DEF EndCar
    <3>2. QED
      BY <3>1 DEF PP!Next, PP!HandlerStep
  <2>2. QED
    BY <1>1, <1>5, <2>1, CarStepLeaves
<1>6. CASE Main
  <2>1. CASE ClosePool
    BY <2>1, SamePool DEF ClosePool, PP!Next
  <2>2. QED
    BY <1>1, <1>6, <2>1, MainLeaves
<1>7. CASE UNCHANGED vars
  BY <1>1, <1>7 DEF vars
<1>8. QED
  BY <1>2, <1>3, <1>4, <1>5, <1>6, <1>7 DEF Next, Handler

-----------------------------------------------------------------------------
(* What a step does to the requests: they stay submitted, only Submit adds *)
(* one, and a closed pool has no handler left.                             *)
LEMMA PoolFacts ==
  ASSUME PP!TypeOK, PP!SubmittedInv, HandInv, [Next]_vars
  PROVE  /\ \A h \in Handlers, c \in Cars : runs(h, c) => c \in submitted
         /\ submitted \subseteq Cars
         /\ submitted \subseteq submitted'
         /\ (\A e \in Entrances : ~Submit(e)) => submitted' = submitted
<1>1. \A h \in Handlers, c \in Cars : runs(h, c) => c \in submitted
  BY DEF PP!SubmittedInv, runs
<1>2. submitted \subseteq Cars
  BY DEF PP!TypeOK
<1>3. ASSUME NEW e \in Entrances, Submit(e) PROVE submitted \subseteq submitted'
  BY <1>3 DEF Submit, Pool!AddRequest
<1>4. ASSUME \A e \in Entrances : ~Submit(e) PROVE submitted' = submitted
  <2>1. ASSUME NEW e \in Entrances, SignalPool(e) PROVE submitted' = submitted
    BY <2>1 DEF SignalPool, Pool!Signal
  <2>2. ASSUME NEW h \in Handlers, PoolStep(h) \/ SpuriousPool(h) PROVE submitted' = submitted
    BY <2>2 DEF PoolStep, SpuriousPool, Pool!EnterLoop, Pool!TestRequests, Pool!GetRequest,
                Pool!Sleep, Pool!Relock, Pool!CheckQuit, Pool!SpuriousWakeup
  <2>3. ASSUME NEW h \in Handlers, NEW c \in Cars, CarStep(h, c) \/ Verdict(h, c)
        PROVE  submitted' = submitted
    BY <2>3, CarStepLeaves DEF EndCar, Pool!FinishRequest, poolVars
  <2>4. ASSUME NEW e \in Entrances, Manager(e) \/ SpuriousWake(e) PROVE submitted' = submitted
    BY <1>4, <2>1, <2>4, ManagerLeaves DEF poolVars
  <2>5. CASE Main
    BY <2>5, MainLeaves DEF poolVars, ClosePool, Pool!Close, Pool!SetQuit, Pool!Broadcast,
                            Pool!JoinHandlers
  <2>6. CASE Generator \/ UNCHANGED vars
    BY <2>6, GeneratorLeaves DEF vars, poolVars
  <2>7. QED
    BY <2>2, <2>3, <2>4, <2>5, <2>6 DEF Next, Handler
<1>5. QED
  BY <1>1, <1>2, <1>3, <1>4

(* A thread of the simulator moves on. *)
LEMMA MgrMoves ==
  ASSUME TypeOK, NEW e \in Entrances, NEW l, MgrGoto(e, l)
  PROVE  /\ l \in MgrPC => mgr_pc' \in [Entrances -> MgrPC]
         /\ mgr_pc'[e] = l
         /\ \A d \in Entrances : d # e => mgr_pc'[d] = mgr_pc[d]
BY DEF MgrGoto, TypeOK

(* A car moves on. *)
LEMMA CarMoves ==
  ASSUME TypeOK, NEW c \in Cars, NEW s, CarGoto(c, s)
  PROVE  /\ s \in Stages => stage' \in [Cars -> Stages]
         /\ stage'[c] = s
         /\ \A d \in Cars : d # c => stage'[d] = stage[d]
BY DEF CarGoto, TypeOK

(* Counting cars that are over. *)
LEMMA OverCount ==
  /\ IsFiniteSet(Cars) /\ Cardinality(Cars) = CarsToSim
  /\ IsFiniteSet(over) /\ Cardinality(over) \in 0..CarsToSim
  /\ Cardinality(Cars \ over) = CarsToSim - Cardinality(over)
<1>1. IsFiniteSet(Cars) /\ Cardinality(Cars) = CarsToSim
  BY FS_Interval, QueuesAssumption DEF Cars
<1>2. over \in SUBSET Cars
  BY DEF over
<1>3. IsFiniteSet(over) /\ Cardinality(over) <= CarsToSim /\ Cardinality(over) \in Nat
  BY <1>1, <1>2, FS_Subset, FS_CardinalityType
<1>4. Cardinality(Cars \cap over) = Cardinality(over)
  <2>1. Cars \cap over = over
    BY <1>2
  <2>2. QED
    BY <2>1, Zenon
<1>5. Cardinality(Cars \ over) = Cardinality(Cars) - Cardinality(Cars \cap over)
  BY <1>1, FS_Difference
<1>6. QED
  BY <1>1, <1>3, <1>4, <1>5, QueuesAssumption

(* The counters of the generator and of the cars that are over. *)
LEMMA CountersStep ==
  TypeOK /\ CountersInv /\ MainInv /\ [Next]_vars => CountersInv'
<1> SUFFICES ASSUME TypeOK, CountersInv, MainInv, [Next]_vars PROVE CountersInv'
  OBVIOUS
<1> USE QueuesAssumption
<1>1. CASE Generator
  <2>1. UNCHANGED <<cars_sim_ended, over>>
    BY <1>1, GeneratorLeaves DEF over
  <2>2. cars_sim_ended \in Nat /\ cars_simulating \in Nat /\ cars_sim_started \in 0..CarsToSim
        /\ CarsToSim \in Nat /\ quit_sem \in {0, 1}
    BY DEF TypeOK
  <2>3. CASE Generate
    BY <2>1, <2>2, <2>3 DEF Generate, CountersInv, enoughEnded, endVars
  <2>4. CASE PostFull
    BY <2>1, <2>2, <2>4 DEF PostFull, CountersInv, enoughEnded, endVars
  <2>5. CASE CountEnded
    BY <2>1, <2>2, <2>5 DEF CountEnded, CountersInv, enoughEnded, endVars
  <2>6. CASE WaitSimulating
    BY <2>1, <2>2, <2>6 DEF WaitSimulating, CountersInv, enoughEnded, endVars
  <2>7. QED
    BY <1>1, <2>3, <2>4, <2>5, <2>6 DEF Generator
<1>2. ASSUME UNCHANGED <<gen_pc, cars_sim_started, quit, cars_sim_ended, cars_simulating, stage>>,
             quit_sem' = quit_sem \/ quit
      PROVE  CountersInv'
  BY <1>2 DEF CountersInv, enoughEnded, over
<1>3. ASSUME NEW e \in Entrances, Manager(e) \/ SpuriousWake(e) PROVE CountersInv'
  BY <1>2, <1>3, ManagerLeaves
<1>4. ASSUME NEW h \in Handlers, PoolStep(h) \/ SpuriousPool(h) PROVE CountersInv'
  BY <1>2, <1>4, PoolStepLeaves
<1>5. ASSUME NEW h \in Handlers, NEW c \in Cars, CarStep(h, c) \/ Verdict(h, c)
      PROVE  CountersInv'
  <2>1. UNCHANGED <<gen_pc, cars_sim_started, quit, quit_sem>>
    BY <1>5, CarStepLeaves
  <2>2. CASE EndCar(h, c)
    <3>1. over' = over \cup {c} /\ c \notin over
      BY <2>2, CarMoves DEF EndCar, over
    <3>2. Cardinality(over') = Cardinality(over) + 1
      BY <3>1, OverCount, FS_AddElement
    <3>3. QED
      BY <2>1, <2>2, <3>2 DEF EndCar, CountersInv, enoughEnded, TypeOK
  <2>3. CASE ~EndCar(h, c)
    <3>1. \E s \in Stages \ {"over"} : CarGoto(c, s) /\ stage[c] # "over"
      BY <1>5, <2>3 DEF CarStep, Verdict, ArriveAtEntrance, LeaveEntrance, SignalLeave, Park,
                        RemoveCar, Stages
    <3>2. over' = over
      BY <3>1, CarMoves DEF over
    <3>3. UNCHANGED <<cars_sim_ended, cars_simulating>>
      BY <1>5, <2>3, CarStepLeaves
    <3>4. QED
      BY <2>1, <3>2, <3>3 DEF CountersInv, enoughEnded
  <2>4. QED
    BY <2>2, <2>3
<1>6. CASE Main
  <2>1. quit_sem' = quit_sem \/ quit
    BY <1>6 DEF Main, WaitQuit, ClosePool, ReleaseManager, JoinManager, JoinGenerator, CloseQueues,
                genVars, CountersInv, TypeOK
  <2>2. QED
    BY <1>2, <1>6, <2>1, MainLeaves
<1>7. CASE UNCHANGED vars
  BY <1>2, <1>7 DEF vars, genVars, endVars
<1>8. QED
  BY <1>1, <1>3, <1>4, <1>5, <1>6, <1>7 DEF Next, Handler

-----------------------------------------------------------------------------
(* The two operations on a queue: append at the end, pop from the front. *)
LEMMA QueueAppends ==
  ASSUME TypeOK, NEW e \in Entrances, NEW c \in Cars,
         queue' = [queue EXCEPT ![e] = Append(@, c)]
  PROVE  /\ queue' \in [Entrances -> Seq(Cars)]
         /\ \A d \in Entrances : d # e => queue'[d] = queue[d]
         /\ Len(queue[e]) \in Nat /\ Len(queue'[e]) = Len(queue[e]) + 1
         /\ DOMAIN queue[e] = 1..Len(queue[e]) /\ DOMAIN queue'[e] = 1..(Len(queue[e]) + 1)
         /\ \A i \in DOMAIN queue[e] : queue'[e][i] = queue[e][i]
         /\ queue'[e][Len(queue[e]) + 1] = c
<1>1. queue[e] \in Seq(Cars) /\ queue'[e] = Append(queue[e], c)
  BY DEF TypeOK
<1>2. /\ Append(queue[e], c) \in Seq(Cars)
      /\ Len(queue[e]) \in Nat /\ DOMAIN queue[e] = 1..Len(queue[e])
      /\ Len(Append(queue[e], c)) = Len(queue[e]) + 1
      /\ \A i \in 1..Len(queue[e]) : Append(queue[e], c)[i] = queue[e][i]
      /\ Append(queue[e], c)[Len(queue[e]) + 1] = c
  BY <1>1, AppendProperties, LenProperties
<1>3. DOMAIN queue'[e] = 1..(Len(queue[e]) + 1)
  BY <1>1, <1>2, LenProperties
<1>4. queue' \in [Entrances -> Seq(Cars)] /\ \A d \in Entrances : d # e => queue'[d] = queue[d]
  BY <1>1, <1>2 DEF TypeOK
<1>5. QED
  BY <1>1, <1>2, <1>3, <1>4

(* What popping the head does to the positions of the rest. *)
LEMMA QueuePops ==
  ASSUME TypeOK, NEW e \in Entrances, queue[e] # <<>>,
         queue' = [queue EXCEPT ![e] = Tail(@)]
  PROVE  /\ queue' \in [Entrances -> Seq(Cars)]
         /\ \A d \in Entrances : d # e => queue'[d] = queue[d]
         /\ Len(queue[e]) \in Nat /\ Len(queue[e]) > 0 /\ Len(queue'[e]) = Len(queue[e]) - 1
         /\ DOMAIN queue[e] = 1..Len(queue[e]) /\ DOMAIN queue'[e] = 1..(Len(queue[e]) - 1)
         /\ \A i \in DOMAIN queue'[e] : queue'[e][i] = queue[e][i + 1]
         /\ Head(queue[e]) = queue[e][1] /\ Head(queue[e]) \in Cars
<1>1. queue[e] \in Seq(Cars) /\ queue'[e] = Tail(queue[e])
  BY DEF TypeOK
<1>2. /\ Tail(queue[e]) \in Seq(Cars) /\ Head(queue[e]) \in Cars
      /\ Len(queue[e]) \in Nat /\ Len(queue[e]) > 0
      /\ DOMAIN queue[e] = 1..Len(queue[e])
      /\ Len(Tail(queue[e])) = Len(queue[e]) - 1
      /\ \A i \in 1..Len(Tail(queue[e])) : Tail(queue[e])[i] = queue[e][i + 1]
  BY <1>1, HeadTailProperties, LenProperties, EmptySeq
<1>3. DOMAIN queue'[e] = 1..(Len(queue[e]) - 1)
  BY <1>1, <1>2, LenProperties
<1>4. queue' \in [Entrances -> Seq(Cars)] /\ \A d \in Entrances : d # e => queue'[d] = queue[d]
  BY <1>1, <1>2 DEF TypeOK
<1>5. Head(queue[e]) = queue[e][1]
  BY <1>1
<1>6. QED
  BY <1>1, <1>2, <1>3, <1>4, <1>5

(* The generator numbers the cars. *)
LEMMA GeneratedIsCar ==
  ASSUME TypeOK, CountersInv, Generate
  PROVE  /\ cars_sim_started + 1 \in Cars /\ cars_sim_started' = cars_sim_started + 1
         /\ entrance[cars_sim_started + 1] \in Entrances
BY QueuesAssumption DEF TypeOK, CountersInv, Generate, Cars

(* A queue stays in the order of generation. *)
LEMMA QueueStep ==
  ASSUME TypeOK, CountersInv, CarsConserved, MainInv, QueueInv, [Next]_vars
  PROVE  QueueInv' /\ queue' \in [Entrances -> Seq(Cars)]
<1> USE QueuesAssumption
<1>1. CASE Generate
  <2> DEFINE c == cars_sim_started + 1
             e == entrance[c]
  <2>1. c \in Cars /\ e \in Entrances /\ queue' = [queue EXCEPT ![e] = Append(@, c)] /\ entrance' = entrance
    BY <1>1, GeneratedIsCar DEF Generate
  <2>2. \A i \in DOMAIN queue[e] : queue[e][i] \in Cars /\ queue[e][i] < c
    <3>1. ASSUME NEW i \in DOMAIN queue[e] PROVE queue[e][i] \in Cars /\ queue[e][i] < c
      <4>1. queue[e][i] \in Cars /\ entrance[queue[e][i]] = e
        BY <2>1, <3>1, ElementOfSeq, LenProperties DEF TypeOK, QueueInv
      <4>2. inQueue(queue[e][i])
        BY <3>1, <4>1 DEF inQueue
      <4>3. queue[e][i] <= cars_sim_started
        BY <4>1, <4>2 DEF CarsConserved
      <4>4. QED
        BY <4>1, <4>3 DEF Cars, TypeOK
    <3>2. QED
      BY <3>1
  <2> HIDE DEF c, e
  <2>3. /\ queue' \in [Entrances -> Seq(Cars)]
        /\ \A d \in Entrances : d # e => queue'[d] = queue[d]
        /\ Len(queue[e]) \in Nat
        /\ DOMAIN queue[e] = 1..Len(queue[e]) /\ DOMAIN queue'[e] = 1..(Len(queue[e]) + 1)
        /\ \A i \in DOMAIN queue[e] : queue'[e][i] = queue[e][i]
        /\ queue'[e][Len(queue[e]) + 1] = c
    BY <2>1, QueueAppends
  <2>4. entrance[c] = e
    BY DEF e
  <2>5. QED
    BY <2>1, <2>2, <2>3, <2>4 DEF QueueInv
<1>2. ASSUME NEW e \in Entrances, Pop(e) PROVE QueueInv' /\ queue' \in [Entrances -> Seq(Cars)]
  <2>1. /\ queue' \in [Entrances -> Seq(Cars)]
        /\ \A d \in Entrances : d # e => queue'[d] = queue[d]
        /\ Len(queue[e]) \in Nat
        /\ DOMAIN queue[e] = 1..Len(queue[e]) /\ DOMAIN queue'[e] = 1..(Len(queue[e]) - 1)
        /\ \A i \in DOMAIN queue'[e] : queue'[e][i] = queue[e][i + 1]
    BY <1>2, QueuePops DEF Pop
  <2>2. entrance' = entrance
    BY <1>2 DEF Pop, genVars
  <2>3. \A i \in DOMAIN queue'[e] : i \in Nat /\ i + 1 \in DOMAIN queue[e]
    BY <2>1
  <2>4. ASSUME NEW i \in DOMAIN queue'[e], NEW j \in DOMAIN queue'[e], i < j
        PROVE  queue'[e][i] < queue'[e][j]
    BY SMTT(30), <2>1, <2>3, <2>4 DEF QueueInv
  <2>5. \A i \in DOMAIN queue'[e] : entrance[queue'[e][i]] = e
    BY <2>1, <2>3 DEF QueueInv
  <2>6. QED
    BY <2>1, <2>2, <2>4, <2>5 DEF QueueInv
<1>3. CASE CloseQueues
  BY <1>3 DEF CloseQueues, QueueInv
<1>4. CASE UNCHANGED <<queue, entrance>>
  BY <1>4 DEF QueueInv, TypeOK
<1>5. ASSUME Generator, ~Generate PROVE UNCHANGED <<queue, entrance>>
  BY <1>5 DEF Generator, PostFull, CountEnded, WaitSimulating, queueVars
<1>6. ASSUME NEW e \in Entrances, Manager(e) \/ SpuriousWake(e), ~Pop(e)
      PROVE  UNCHANGED <<queue, entrance>>
  BY <1>6 DEF Manager, WaitFull, TestQuit, LockOccupy, PushToCarList, Submit, SignalPool,
              WaitFinished, UnlockOccupy, SpuriousWake, genVars, queueVars
<1>7. ASSUME Main, ~CloseQueues PROVE UNCHANGED <<queue, entrance>>
  BY <1>7 DEF Main, WaitQuit, ClosePool, ReleaseManager, JoinManager, JoinGenerator, genVars,
              queueVars
<1>8. CASE UNCHANGED vars
  BY <1>4, <1>8 DEF vars, genVars, queueVars
<1>9. QED
  BY <1>1, <1>2, <1>3, <1>4, <1>5, <1>6, <1>7, <1>8, PoolStepLeaves, CarStepLeaves
  DEF Next, Handler

-----------------------------------------------------------------------------
(* An entrance thread is moved by itself, or woken from its wait. *)
LEMMA MgrSteps ==
  ASSUME TypeOK, [Next]_vars, NEW e \in Entrances
  PROVE  \/ Manager(e)
         \/ mgr_pc'[e] = mgr_pc[e] /\ mgr_car'[e] = mgr_car[e]
         \/ mgr_pc[e] = "waiting" /\ mgr_pc'[e] = "woken" /\ mgr_car'[e] = mgr_car[e]
<1>1. CASE UNCHANGED <<mgr_pc, mgr_car>>
  BY <1>1
<1>2. ASSUME NEW d \in Entrances, Manager(d), d # e
      PROVE  mgr_pc'[e] = mgr_pc[e] /\ mgr_car'[e] = mgr_car[e]
  <2>1. mgr_car'[e] = mgr_car[e]
    BY <1>2 DEF TypeOK, Manager, WaitFull, TestQuit, LockOccupy, Pop, PushToCarList, Submit,
                SignalPool, WaitFinished, UnlockOccupy
  <2>2. \E l \in MgrPC : MgrGoto(d, l)
    BY <1>2 DEF MgrPC, Manager, WaitFull, TestQuit, LockOccupy, Pop, PushToCarList, Submit,
                SignalPool, WaitFinished, UnlockOccupy
  <2>3. QED
    BY <1>2, <2>1, <2>2, MgrMoves
<1>3. ASSUME NEW d \in Entrances, mgr_pc[d] = "waiting", MgrGoto(d, "woken"), UNCHANGED mgr_car
      PROVE  \/ mgr_pc'[e] = mgr_pc[e] /\ mgr_car'[e] = mgr_car[e]
             \/ mgr_pc[e] = "waiting" /\ mgr_pc'[e] = "woken" /\ mgr_car'[e] = mgr_car[e]
  BY <1>3, MgrMoves
<1>4. ASSUME NEW h \in Handlers, NEW c \in Cars, CarStep(h, c) \/ Verdict(h, c)
      PROVE  \/ UNCHANGED <<mgr_pc, mgr_car>>
             \/ \E d \in Entrances : /\ mgr_pc[d] = "waiting" /\ MgrGoto(d, "woken")
                                     /\ UNCHANGED mgr_car
  <2>1. CASE SignalLeave(h, c)
    <3>1. entrance[c] \in Entrances
      BY DEF TypeOK
    <3>2. QED
      BY <2>1, <3>1 DEF SignalLeave
  <2>2. QED
    BY <1>4, <2>1 DEF CarStep, Verdict, ArriveAtEntrance, LeaveEntrance, Park, RemoveCar, EndCar,
                      mgrVars
<1>5. ASSUME NEW d \in Entrances, SpuriousWake(d)
      PROVE  mgr_pc[d] = "waiting" /\ MgrGoto(d, "woken") /\ UNCHANGED mgr_car
  BY <1>5 DEF SpuriousWake
<1>6. CASE UNCHANGED vars
  BY <1>1, <1>6 DEF vars, mgrVars
<1>7. QED
  BY <1>1, <1>2, <1>3, <1>4, <1>5, <1>6, GeneratorLeaves, MainLeaves, PoolStepLeaves
  DEF Next, Handler

(* The car in hand comes from the queue of the entrance. *)
LEMMA HandStep == TypeOK /\ QueueInv /\ HandInv /\ [Next]_vars => HandInv'
<1> SUFFICES ASSUME TypeOK, QueueInv, HandInv, [Next]_vars,
                    NEW e \in Entrances, mgr_pc'[e] \in handling
             PROVE  mgr_car'[e] \in Cars /\ entrance'[mgr_car'[e]] = e
  BY DEF HandInv
<1>1. entrance' = entrance
  BY GeneratorLeaves, ManagerLeaves, PoolStepLeaves, CarStepLeaves, MainLeaves
  DEF Next, Handler, vars, genVars
<1>2. CASE Pop(e)
  <2>1. mgr_car'[e] = Head(queue[e])
    BY <1>2 DEF Pop, TypeOK
  <2>2. Head(queue[e]) = queue[e][1] /\ Head(queue[e]) \in Cars /\ 1 \in DOMAIN queue[e]
    <3>1. /\ Len(queue[e]) \in Nat /\ Len(queue[e]) > 0 /\ DOMAIN queue[e] = 1..Len(queue[e])
          /\ Head(queue[e]) = queue[e][1] /\ Head(queue[e]) \in Cars
      BY <1>2, QueuePops DEF Pop
    <3>2. QED
      BY <3>1
  <2>3. QED
    BY <1>1, <2>1, <2>2 DEF QueueInv
<1>3. CASE Manager(e) /\ ~Pop(e)
  <2>1. mgr_pc[e] \in handling /\ mgr_car' = mgr_car
    BY <1>3, MgrMoves
    DEF Manager, WaitFull, TestQuit, LockOccupy, PushToCarList, Submit, SignalPool, WaitFinished,
        UnlockOccupy, handling, MgrPC, MgrGoto, TypeOK
  <2>2. QED
    BY <1>1, <2>1 DEF HandInv
<1>4. QED
  BY <1>1, <1>2, <1>3, MgrSteps DEF HandInv, handling

(* Once main has joined the handlers, none of them runs again. *)
LEMMA ClosedStays ==
  ASSUME PP!TypeOK, HandInv, [Next]_vars,
         closer = "closed" => \A h \in Handlers : pool_pc[h] = "done"
  PROVE  /\ closer = "closed" => closer' = "closed"
         /\ closer' = "closed" => \A h \in Handlers : pool_pc'[h] = "done"
<1> USE DEF PP!Goto
<1>1. [PP!Next]_(PP!vars)
  BY PoolRefinementStep
<1>2. pool_pc \in [Handlers \cup Entrances -> PP!HandlerPC \cup PP!AdderPC]
  BY DEF PP!TypeOK
<1>3. Handlers \cap Entrances = {}
  BY QueuesAssumption
<1>4. ASSUME NEW e \in Entrances, NEW c \in Cars, PP!AddRequest(e, c)
      PROVE  closer' = closer /\ \A h \in Handlers : pool_pc'[h] = pool_pc[h]
  BY <1>2, <1>3, <1>4 DEF PP!AddRequest
<1>5. ASSUME NEW e \in Entrances, PP!Signal(e)
      PROVE  closer' = closer /\ \A h \in Handlers : pool_pc[h] = "done" => pool_pc'[h] = "done"
  BY <1>2, <1>3, <1>5 DEF PP!Signal, PP!waiting
<1>6. ASSUME NEW h \in Handlers, PP!HandlerStep(h) \/ PP!SpuriousWakeup(h)
      PROVE  closer' = closer /\ pool_pc[h] # "done"
  BY <1>6 DEF PP!HandlerStep, PP!SpuriousWakeup, PP!EnterLoop, PP!TestRequests, PP!GetRequest,
              PP!Sleep, PP!FinishRequest, PP!Relock, PP!CheckQuit
<1>7. ASSUME PP!Close
      PROVE  /\ closer # "closed"
             /\ closer' = "closed" => \A h \in Handlers : pool_pc'[h] = "done"
  BY <1>7 DEF PP!Close, PP!SetQuit, PP!Broadcast, PP!JoinHandlers
<1>8. CASE UNCHANGED PP!vars
  BY <1>8 DEF PP!vars
<1>9. QED
  BY <1>1, <1>4, <1>5, <1>6, <1>7, <1>8 DEF PP!Next

(* main shuts down in its order. *)
LEMMA MainStep ==
  TypeOK /\ PP!TypeOK /\ CountersInv /\ HandInv /\ MainInv /\ [Next]_vars => MainInv'
<1> SUFFICES ASSUME TypeOK, PP!TypeOK, CountersInv, HandInv, MainInv, [Next]_vars PROVE MainInv'
  OBVIOUS
<1>1. \A e \in Entrances : mgr_pc[e] = "done" => mgr_pc'[e] = "done"
  BY MgrSteps DEF Manager, WaitFull, TestQuit, LockOccupy, Pop, PushToCarList, Submit, SignalPool,
                  WaitFinished, UnlockOccupy
<1>2. quit => quit'
  <2>1. Generator => (quit => quit')
    BY DEF Generator, Generate, PostFull, CountEnded, WaitSimulating
  <2>2. QED
    BY <2>1, ManagerLeaves, PoolStepLeaves, CarStepLeaves, MainLeaves
    DEF Next, Handler, vars, genVars
<1>3. /\ closer = "closed" => closer' = "closed"
      /\ closer' = "closed" => \A h \in Handlers : pool_pc'[h] = "done"
  BY ClosedStays DEF MainInv
<1>4. CASE UNCHANGED <<main_pc, joining, joined>>
  BY <1>1, <1>2, <1>3, <1>4 DEF MainInv, TypeOK
<1>5. CASE Main
  <2>1. CASE WaitQuit
    BY <1>1, <1>2, <1>3, <2>1 DEF WaitQuit, MainInv, TypeOK, CountersInv
  <2>2. CASE ClosePool
    BY <1>1, <1>2, <1>3, <2>2 DEF ClosePool, MainInv, TypeOK
  <2>3. CASE ReleaseManager
    BY <1>1, <1>2, <1>3, <2>3 DEF ReleaseManager, MainInv, TypeOK
  <2>4. CASE JoinManager
    BY <1>1, <1>2, <1>3, <2>4 DEF JoinManager, MainInv, TypeOK
  <2>5. CASE JoinGenerator \/ CloseQueues
    BY <1>1, <1>2, <1>3, <2>5 DEF JoinGenerator, CloseQueues, MainInv, TypeOK
  <2>6. QED
    BY <1>5, <2>1, <2>2, <2>3, <2>4, <2>5 DEF Main
<1>6. QED
  BY <1>4, <1>5, GeneratorLeaves, ManagerLeaves, PoolStepLeaves, CarStepLeaves
  DEF Next, Handler, vars, mainVars

-----------------------------------------------------------------------------
(* What FullInv says of one entrance. *)
FullAt(e) ==
  /\ full[e] \in Nat
  /\ full[e] + unposted(e) <= cars_sim_started + extra(e)
  /\ mgr_pc[e] # "done" => full[e] + taken(e) + unposted(e) = Len(queue[e]) + extra(e)
  /\ released(e) /\ mgr_pc[e] \in {"occupy", "pop"} => full[e] > 0

(* The semaphore stays in step with the queue. *)
LEMMA FullStep ==
  ASSUME TypeOK, CountersInv, MainInv, FullInv, [Next]_vars, NEW e \in Entrances
  PROVE  FullAt(e)'
<1> USE DEF FullAt
<1>1. /\ full[e] \in Nat /\ Len(queue[e]) \in Nat /\ cars_sim_started \in Nat
      /\ extra(e) \in {0, 1} /\ unposted(e) \in {0, 1} /\ taken(e) \in {0, 1}
  BY LenProperties, QueuesAssumption DEF TypeOK, extra, unposted, taken
<1>2. FullAt(e)
  BY <1>1 DEF FullInv
<1>3. released(e) => quit /\ gen_pc = "done"
  BY DEF released, MainInv, CountersInv, TypeOK
<1>4. CASE UNCHANGED <<full[e], Len(queue[e]), mgr_pc[e], gen_pc, cars_sim_started, entrance, joined,
                       joining, main_pc>>
  BY <1>2, <1>4 DEF released, extra, unposted, taken
<1>5. CASE Generate
  <2>1. UNCHANGED <<full, mgr_pc>> /\ ~released(e) /\ ~released(e)'
    BY <1>3, <1>5 DEF Generate, mgrVars, mainVars, released
  <2>2. gen_pc = "generate" /\ gen_pc' = "post" /\ cars_sim_started' = cars_sim_started + 1
        /\ entrance' = entrance
    BY <1>5 DEF Generate
  <2>3. /\ cars_sim_started + 1 \in Cars /\ entrance[cars_sim_started + 1] \in Entrances
        /\ queue' = [queue EXCEPT ![entrance[cars_sim_started + 1]] = Append(@, cars_sim_started + 1)]
    BY <1>5, GeneratedIsCar DEF Generate
  <2>4. CASE e = entrance[cars_sim_started + 1]
    <3>1. Len(queue'[e]) = Len(queue[e]) + 1
      BY <2>3, <2>4, QueueAppends
    <3>2. QED
      BY <1>1, <1>2, <2>1, <2>2, <2>4, <3>1 DEF extra, unposted, taken
  <2>5. CASE e # entrance[cars_sim_started + 1]
    <3>1. Len(queue'[e]) = Len(queue[e])
      BY <2>3, <2>5, QueueAppends
    <3>2. QED
      BY <1>1, <1>2, <2>1, <2>2, <2>5, <3>1 DEF extra, unposted, taken
  <2>6. QED
    BY <2>4, <2>5
<1>6. CASE PostFull
  <2>1. /\ UNCHANGED <<queue, mgr_pc, cars_sim_started, entrance, main_pc, joined, joining>>
        /\ gen_pc = "post" /\ gen_pc' # "post"
        /\ full'[e] = IF e = entrance[cars_sim_started] THEN full[e] + 1 ELSE full[e]
    BY <1>6 DEF PostFull, mgrVars, mainVars, TypeOK
  <2>2. ~released(e) /\ ~released(e)'
    BY <1>3, <2>1 DEF released
  <2>3. QED
    BY <1>1, <1>2, <2>1, <2>2 DEF extra, unposted, taken
<1>7. CASE CountEnded \/ WaitSimulating
  <2>1. UNCHANGED <<queue, full, mgr_pc, cars_sim_started, entrance, main_pc, joined, joining>>
        /\ gen_pc # "post" /\ gen_pc' # "post"
    BY <1>7 DEF CountEnded, WaitSimulating, queueVars, mgrVars, mainVars
  <2>2. QED
    BY <1>2, <2>1 DEF released, extra, unposted, taken
<1>8. CASE Manager(e)
  <2>1. UNCHANGED <<gen_pc, cars_sim_started, entrance, main_pc, joined, joining, quit>>
    BY <1>8, ManagerLeaves
  <2>2. /\ released(e)' <=> released(e)
        /\ extra(e)' = extra(e) /\ unposted(e)' = unposted(e)
    BY <2>1 DEF released, extra, unposted
  <2>3. CASE WaitFull(e)
    <3>1. /\ full[e] > 0 /\ full'[e] = full[e] - 1 /\ queue' = queue
          /\ mgr_pc[e] = "full" /\ mgr_pc'[e] = "test"
      BY <2>3, MgrMoves DEF WaitFull, TypeOK
    <3>2. taken(e) = 0 /\ taken(e)' = 1
      BY <3>1 DEF taken
    <3>3. QED
      BY <1>1, <1>2, <2>1, <2>2, <3>1, <3>2
  <2>4. CASE TestQuit(e)
    <3>1. /\ UNCHANGED <<full, queue>> /\ mgr_pc[e] \in {"test", "again"}
          /\ mgr_pc'[e] = IF quit THEN "done"
                          ELSE IF mgr_pc[e] = "test" THEN "occupy" ELSE "full"
      BY <2>4, MgrMoves DEF TestQuit, queueVars
    <3>2. QED
      BY <1>1, <1>2, <1>3, <2>1, <2>2, <3>1 DEF taken
  <2>5. CASE Pop(e)
    <3>1. /\ full' = full /\ mgr_pc[e] = "pop" /\ mgr_pc'[e] = "push"
          /\ Len(queue'[e]) = Len(queue[e]) - 1
      BY <2>5, MgrMoves, QueuePops DEF Pop
    <3>2. taken(e) = 1 /\ taken(e)' = 0
      BY <3>1 DEF taken
    <3>3. QED
      BY SMTT(30), <1>1, <1>2, <2>1, <2>2, <3>1, <3>2
  <2>6. CASE LockOccupy(e)
    <3>1. /\ UNCHANGED <<full, queue>>
          /\ \/ mgr_pc[e] = "occupy" /\ mgr_pc'[e] = "pop"
             \/ mgr_pc[e] = "woken" /\ mgr_pc'[e] = "unlock"
      BY <2>6, MgrMoves DEF LockOccupy, queueVars
    <3>2. QED
      BY <1>2, <2>1, <2>2, <3>1 DEF taken
  <2>7. CASE PushToCarList(e) \/ Submit(e) \/ SignalPool(e) \/ WaitFinished(e) \/ UnlockOccupy(e)
    <3>1. /\ UNCHANGED <<full, queue>>
          /\ mgr_pc[e] \in handling /\ mgr_pc'[e] \in handling \cup {"again"}
      BY <2>7, MgrMoves
      DEF PushToCarList, Submit, SignalPool, WaitFinished, UnlockOccupy, queueVars, handling
    <3>2. QED
      BY <1>2, <2>1, <2>2, <3>1 DEF taken, handling
  <2>8. QED
    BY <1>8, <2>3, <2>4, <2>5, <2>6, <2>7 DEF Manager
<1>9. ASSUME NEW d \in Entrances, Manager(d), d # e
      PROVE  FullAt(e)'
  <2>1. full'[e] = full[e]
    BY <1>9 DEF TypeOK, Manager, WaitFull, TestQuit, LockOccupy, Pop, PushToCarList, Submit,
                SignalPool, WaitFinished, UnlockOccupy, queueVars
  <2>2. queue'[e] = queue[e]
    BY <1>9 DEF TypeOK, Manager, WaitFull, TestQuit, LockOccupy, Pop, PushToCarList, Submit,
                SignalPool, WaitFinished, UnlockOccupy, queueVars
  <2>3. \E l \in MgrPC : MgrGoto(d, l)
    BY <1>9 DEF MgrPC, Manager, WaitFull, TestQuit, LockOccupy, Pop, PushToCarList, Submit,
                SignalPool, WaitFinished, UnlockOccupy
  <2>4. mgr_pc'[e] = mgr_pc[e]
    BY <1>9, <2>3, MgrMoves
  <2>5. QED
    BY <1>4, <1>9, <2>1, <2>2, <2>4, ManagerLeaves
<1>10. ASSUME mgr_pc[e] = "waiting", mgr_pc'[e] = "woken",
              UNCHANGED <<full, queue, gen_pc, cars_sim_started, entrance, joined, joining, main_pc>>
       PROVE  FullAt(e)'
  BY <1>2, <1>10 DEF released, extra, unposted, taken
<1>11. ASSUME \/ \E d \in Entrances : SpuriousWake(d)
              \/ \E h \in Handlers : \/ PoolStep(h) \/ SpuriousPool(h)
                                    \/ \E c \in Cars : CarStep(h, c) \/ Verdict(h, c)
       PROVE  FullAt(e)'
  <2>1. UNCHANGED <<full, queue, gen_pc, cars_sim_started, entrance, joined, joining, main_pc>>
    BY <1>11, ManagerLeaves, PoolStepLeaves, CarStepLeaves DEF SpuriousWake, queueVars
  <2>2. CASE mgr_pc'[e] = mgr_pc[e]
    BY <1>4, <2>1, <2>2
  <2>3. QED
    BY <1>8, <1>10, <2>1, <2>2, MgrSteps
<1>12. CASE Main
  <2>1. UNCHANGED <<gen_pc, cars_sim_started, entrance, mgr_pc, quit>>
    BY <1>12, MainLeaves
  <2>2. CASE ReleaseManager
    <3>1. PICK d \in Entrances \ joined : full' = [full EXCEPT ![d] = @ + 1] /\ joining' = d
      BY <2>2 DEF ReleaseManager
    <3>2. main_pc = "release" /\ main_pc' = "join" /\ joined' = joined /\ queue' = queue
      BY <2>2 DEF ReleaseManager
    <3>3. CASE e = d
      BY <1>1, <1>2, <2>1, <3>1, <3>2, <3>3 DEF released, extra, unposted, taken, TypeOK
    <3>4. CASE e # d
      BY <1>1, <1>2, <2>1, <3>1, <3>2, <3>4 DEF released, extra, unposted, taken, TypeOK
    <3>5. QED
      BY <3>3, <3>4
  <2>3. CASE JoinManager
    <3>1. UNCHANGED <<full, queue, joining>> /\ main_pc = "join" /\ main_pc' # "join"
          /\ joined' = joined \cup {joining}
      BY <2>3 DEF JoinManager, queueVars
    <3>2. released(e)' <=> released(e)
      BY <3>1 DEF released
    <3>3. QED
      BY <1>2, <2>1, <3>1, <3>2 DEF extra, unposted, taken
  <2>4. CASE CloseQueues
    <3>1. /\ full' = full /\ UNCHANGED <<joining, joined>>
          /\ main_pc # "join" /\ main_pc' # "join" /\ mgr_pc[e] = "done"
      BY <2>4 DEF CloseQueues, MainInv
    <3>2. released(e)' <=> released(e)
      BY <3>1 DEF released
    <3>3. QED
      BY <1>2, <2>1, <3>1, <3>2 DEF extra, unposted, taken
  <2>5. CASE WaitQuit \/ ClosePool \/ JoinGenerator
    <3>1. UNCHANGED <<full, queue, joining, joined>> /\ main_pc # "join" /\ main_pc' # "join"
      BY <2>5 DEF WaitQuit, ClosePool, JoinGenerator, queueVars
    <3>2. released(e)' <=> released(e)
      BY <3>1 DEF released
    <3>3. QED
      BY <1>2, <2>1, <3>1, <3>2 DEF extra, unposted, taken
  <2>6. QED
    BY <1>12, <2>2, <2>3, <2>4, <2>5 DEF Main
<1>13. CASE UNCHANGED vars
  BY <1>4, <1>13 DEF vars, genVars, queueVars, mgrVars, mainVars
<1>14. QED
  BY <1>5, <1>6, <1>7, <1>8, <1>9, <1>11, <1>12, <1>13 DEF Next, Generator, Handler

-----------------------------------------------------------------------------
(* There are no more cars in a set than cars. *)
LEMMA CountCars ==
  ASSUME NEW S \in SUBSET Cars
  PROVE  Cardinality(S) \in 0..CarsToSim
<1>1. IsFiniteSet(S) /\ Cardinality(S) <= CarsToSim
  BY OverCount, FS_Subset
<1>2. Cardinality(S) \in Nat
  BY <1>1, FS_CardinalityType
<1>3. QED
  BY <1>1, <1>2, QueuesAssumption

(* The types of the generator's and the cars' counters. *)
LEMMA CounterTypes ==
  ASSUME TypeOK, CountersInv, CountersInv', [Next]_vars
  PROVE  /\ gen_pc' \in GenPC /\ cars_sim_started' \in 0..CarsToSim
         /\ cars_sim_ended' \in 0..CarsToSim /\ cars_simulating' \in 0..CarsToSim
         /\ quit_sem' \in {0, 1} /\ quit' \in BOOLEAN /\ entrance' \in [Cars -> Entrances]
<1> USE QueuesAssumption
<1>1. cars_sim_ended' \in 0..CarsToSim
  <2>1. over' \in SUBSET Cars
    BY DEF over
  <2>2. QED
    BY <2>1, CountCars DEF CountersInv
<1>2. cars_simulating' \in Nat
  <2>1. CASE Generator
    BY <2>1 DEF Generator, Generate, PostFull, CountEnded, WaitSimulating, endVars, TypeOK
  <2>2. ASSUME NEW h \in Handlers, NEW c \in Cars, CarStep(h, c) \/ Verdict(h, c)
        PROVE  cars_simulating' \in Nat
    <3>1. cars_simulating' \in {cars_simulating, cars_simulating + 1}
      BY <2>2, CarStepLeaves DEF EndCar
    <3>2. QED
      BY <3>1 DEF TypeOK
  <2>3. CASE UNCHANGED cars_simulating
    BY <2>3 DEF TypeOK
  <2>4. QED
    BY <2>1, <2>2, <2>3, ManagerLeaves, PoolStepLeaves, MainLeaves
    DEF Next, Handler, vars, endVars
<1>3. cars_simulating' \in 0..CarsToSim
  <2>1. cars_simulating' <= cars_sim_ended'
    BY DEF CountersInv
  <2>2. QED
    BY <1>1, <1>2, <2>1
<1>4. CASE Generator
  <2>1. gen_pc' \in GenPC /\ entrance' = entrance /\ quit' \in BOOLEAN
    BY <1>4 DEF Generator, Generate, PostFull, CountEnded, WaitSimulating, GenPC, TypeOK
  <2>2. cars_sim_started' \in 0..CarsToSim
    BY <1>4 DEF Generator, Generate, PostFull, CountEnded, WaitSimulating, CountersInv, TypeOK
  <2>3. quit_sem' \in {0, 1}
    BY <1>4 DEF Generator, Generate, PostFull, CountEnded, WaitSimulating, CountersInv, TypeOK
  <2>4. QED
    BY <1>1, <1>3, <2>1, <2>2, <2>3 DEF TypeOK
<1>5. CASE Main
  <2>1. quit_sem' \in {0, 1}
    <3>1. CASE WaitQuit
      BY <3>1 DEF WaitQuit, TypeOK
    <3>2. CASE ~WaitQuit
      BY <1>5, <3>2 DEF Main, ClosePool, ReleaseManager, JoinManager, JoinGenerator,
                        CloseQueues, genVars, TypeOK
    <3>3. QED
      BY <3>1, <3>2
  <2>2. QED
    BY <1>1, <1>3, <1>5, <2>1, MainLeaves DEF TypeOK
<1>6. CASE UNCHANGED <<gen_pc, cars_sim_started, quit_sem, quit, entrance>>
  BY <1>1, <1>3, <1>6 DEF TypeOK
<1>7. QED
  BY <1>4, <1>5, <1>6, ManagerLeaves, PoolStepLeaves, CarStepLeaves
  DEF Next, Handler, vars, genVars

(* The types of the entrance threads' and the cars' variables. *)
LEMMA ThreadTypes ==
  ASSUME TypeOK, HandInv, [Next]_vars
  PROVE  /\ mgr_pc' \in [Entrances -> MgrPC] /\ mgr_car' \in [Entrances -> Cars \cup {NoCar}]
         /\ occupy' \in [Entrances -> Entrances \cup Handlers \cup {NoThread}]
         /\ stage' \in [Cars -> Stages] /\ car_list' \subseteq Cars
<1>1. ASSUME NEW e \in Entrances, Manager(e) \/ SpuriousWake(e)
      PROVE  /\ mgr_pc' \in [Entrances -> MgrPC] /\ mgr_car' \in [Entrances -> Cars \cup {NoCar}]
             /\ occupy' \in [Entrances -> Entrances \cup Handlers \cup {NoThread}]
             /\ car_list' \subseteq Cars
  <2>1. \E l \in MgrPC : MgrGoto(e, l)
    BY <1>1
    DEF MgrPC, SpuriousWake, Manager, WaitFull, TestQuit, LockOccupy, Pop, PushToCarList, Submit, SignalPool,
           WaitFinished, UnlockOccupy
  <2>2. mgr_pc' \in [Entrances -> MgrPC]
    BY <2>1, MgrMoves
  <2>3. mgr_car' \in [Entrances -> Cars \cup {NoCar}]
    <3>1. CASE Pop(e)
      <4>1. Head(queue[e]) \in Cars
        BY <3>1, QueuePops DEF Pop
      <4>2. QED
        BY <3>1, <4>1 DEF Pop, TypeOK
    <3>2. CASE ~Pop(e)
      BY <1>1, <3>2
      DEF TypeOK, SpuriousWake, Manager, WaitFull, TestQuit, LockOccupy, PushToCarList, Submit,
          SignalPool, WaitFinished, UnlockOccupy
    <3>3. QED
      BY <3>1, <3>2
  <2>4. occupy' \in [Entrances -> Entrances \cup Handlers \cup {NoThread}]
    BY <1>1
    DEF TypeOK, SpuriousWake, Manager, WaitFull, TestQuit, LockOccupy, Pop, PushToCarList, Submit, SignalPool,
           WaitFinished, UnlockOccupy
  <2>5. car_list' \subseteq Cars
    <3>1. CASE PushToCarList(e)
      BY <3>1 DEF PushToCarList, HandInv, handling, TypeOK
    <3>2. CASE ~PushToCarList(e)
      BY <1>1, <3>2
      DEF TypeOK, SpuriousWake, Manager, WaitFull, TestQuit, LockOccupy, Pop, Submit,
          SignalPool, WaitFinished, UnlockOccupy
    <3>3. QED
      BY <3>1, <3>2
  <2>6. QED
    BY <2>2, <2>3, <2>4, <2>5
<1>2. ASSUME NEW h \in Handlers, NEW c \in Cars, CarStep(h, c) \/ Verdict(h, c)
      PROVE  /\ mgr_pc' \in [Entrances -> MgrPC]
             /\ occupy' \in [Entrances -> Entrances \cup Handlers \cup {NoThread}]
             /\ stage' \in [Cars -> Stages] /\ car_list' \subseteq Cars
  <2>1. \E s \in Stages : CarGoto(c, s)
    BY <1>2 DEF CarStep, Verdict, ArriveAtEntrance, LeaveEntrance, SignalLeave, Park, RemoveCar,
                EndCar, Stages
  <2>2. stage' \in [Cars -> Stages]
    BY <2>1, CarMoves
  <2>3. entrance[c] \in Entrances
    BY DEF TypeOK
  <2>4. mgr_pc' \in [Entrances -> MgrPC]
    <3>1. MgrGoto(entrance[c], "woken") \/ UNCHANGED mgr_pc
      BY <1>2 DEF CarStep, Verdict, ArriveAtEntrance, LeaveEntrance, SignalLeave, Park, RemoveCar,
                  EndCar, mgrVars
    <3>2. QED
      BY <2>3, <3>1, MgrMoves DEF TypeOK, MgrPC
  <2>5. occupy' \in [Entrances -> Entrances \cup Handlers \cup {NoThread}]
    BY <1>2, <2>3 DEF TypeOK, CarStep, Verdict, ArriveAtEntrance, LeaveEntrance, SignalLeave, Park,
                      RemoveCar, EndCar
  <2>6. car_list' \subseteq Cars
    BY <1>2 DEF TypeOK, CarStep, Verdict, ArriveAtEntrance, LeaveEntrance, SignalLeave, Park,
                RemoveCar, EndCar
  <2>7. QED
    BY <2>2, <2>4, <2>5, <2>6
<1>3. CASE UNCHANGED <<mgr_pc, mgr_car, occupy, stage, car_list>>
  BY <1>3 DEF TypeOK
<1>4. QED
  BY <1>1, <1>2, <1>3, GeneratorLeaves, ManagerLeaves, PoolStepLeaves, CarStepLeaves, MainLeaves
  DEF Next, Handler, vars, mgrVars, TypeOK

(* The type of every variable outside the pool. *)
LEMMA TypeStep ==
  ASSUME TypeOK, CountersInv, CountersInv', MainInv, FullInv, QueueInv, HandInv, CarsConserved,
         [Next]_vars
  PROVE  TypeOK'
<1>1. full' \in [Entrances -> 0..CarsToSim + 1]
  <2>1. full' = [e \in Entrances |-> full'[e]]
    <3>1. CASE UNCHANGED full
      BY <3>1 DEF TypeOK
    <3>2. ASSUME NEW e, NEW n, full' = [full EXCEPT ![e] = n]
          PROVE  full' = [d \in Entrances |-> full'[d]]
      BY <3>2 DEF TypeOK
    <3>3. Generator => UNCHANGED full \/ \E e, n : full' = [full EXCEPT ![e] = n]
      BY DEF Generator, Generate, PostFull, CountEnded, WaitSimulating, queueVars
    <3>4. ASSUME NEW e \in Entrances, Manager(e) \/ SpuriousWake(e)
          PROVE  UNCHANGED full \/ \E d, n : full' = [full EXCEPT ![d] = n]
      BY <3>4 DEF Manager, WaitFull, TestQuit, LockOccupy, Pop, PushToCarList, Submit, SignalPool,
                  WaitFinished, UnlockOccupy, SpuriousWake, queueVars
    <3>5. Main => UNCHANGED full \/ \E e, n : full' = [full EXCEPT ![e] = n]
      BY DEF Main, WaitQuit, ClosePool, ReleaseManager, JoinManager, JoinGenerator, CloseQueues,
             queueVars
    <3>6. QED
      BY <3>1, <3>2, <3>3, <3>4, <3>5, PoolStepLeaves, CarStepLeaves
      DEF Next, Handler, vars, queueVars
  <2>2. ASSUME NEW e \in Entrances PROVE full'[e] \in 0..CarsToSim + 1
    <3>1. full'[e] \in Nat /\ full'[e] + unposted(e)' <= cars_sim_started' + extra(e)'
      BY FullStep DEF FullAt
    <3>2. unposted(e)' \in {0, 1} /\ extra(e)' \in {0, 1}
      BY DEF unposted, extra
    <3>3. QED
      BY <3>1, <3>2, CounterTypes, QueuesAssumption
  <2>3. QED
    BY <2>1, <2>2
<1>2. main_pc' \in MainPC /\ joining' \in Entrances \cup {NoThread} /\ joined' \subseteq Entrances
  <2>1. CASE Main
    BY <2>1 DEF Main, WaitQuit, ClosePool, ReleaseManager, JoinManager, JoinGenerator, CloseQueues,
                mainVars, MainPC, MainInv, TypeOK
  <2>2. CASE UNCHANGED <<main_pc, joining, joined>>
    BY <2>2 DEF TypeOK
  <2>3. QED
    BY <2>1, <2>2, GeneratorLeaves, ManagerLeaves, PoolStepLeaves, CarStepLeaves
    DEF Next, Handler, vars, mainVars
<1>3. QED
  BY <1>1, <1>2, CounterTypes, ThreadTypes, QueueStep DEF TypeOK

-----------------------------------------------------------------------------
(* Where one car is: what CarsConserved, StageInv and OrderInv say of it. *)
handedOver(c) == inHand(c) /\ mgr_pc[entrance[c]] = "submit"
PlaceAt(c) ==
  /\ inQueue(c) => ~inHand(c) /\ c \notin submitted
  /\ inHand(c) => c \notin submitted
  /\ inQueue(c) \/ inHand(c) \/ c \in submitted => c <= cars_sim_started
  /\ c <= cars_sim_started
       => inQueue(c) \/ inHand(c) \/ c \in submitted \/ main_pc = "done"
  /\ c \in car_list <=> handedOver(c) \/ (c \in submitted /\ stage[c] \notin {"count", "over"})
  /\ stage[c] # "arrive" => c \in submitted

(* Where no car is taken from or put into the hand of an entrance thread. *)
LEMMA HandsKeep ==
  ASSUME TypeOK, HandInv, [Next]_vars, NEW c \in Cars,
         ~Pop(entrance[c]), ~PushToCarList(entrance[c]), ~Submit(entrance[c])
  PROVE  (inHand(c)' <=> inHand(c)) /\ (handedOver(c)' <=> handedOver(c))
<1> DEFINE e == entrance[c]
<1>1. e \in Entrances /\ entrance'[c] = e
  BY GeneratorLeaves, ManagerLeaves, PoolStepLeaves, CarStepLeaves, MainLeaves
  DEF Next, Handler, vars, genVars, TypeOK
<1>2. CASE Manager(e)
  <2>1. mgr_pc[e] \notin {"push", "submit"} /\ mgr_pc'[e] \notin {"push", "submit"}
    BY <1>1, <1>2, MgrMoves
    DEF Manager, WaitFull, TestQuit, LockOccupy, SignalPool, WaitFinished, UnlockOccupy
  <2>2. QED
    BY <1>1, <2>1 DEF inHand, handedOver
<1>3. CASE ~Manager(e)
  <2>1. \/ mgr_pc'[e] = mgr_pc[e] /\ mgr_car'[e] = mgr_car[e]
        \/ mgr_pc[e] = "waiting" /\ mgr_pc'[e] = "woken"
    BY <1>1, <1>3, MgrSteps
  <2>2. QED
    BY <1>1, <2>1 DEF inHand, handedOver
<1>4. QED
  BY <1>2, <1>3

(* No step moves a car to two places, or to none. *)
LEMMA PlaceStep ==
  ASSUME TypeOK, PP!TypeOK, PP!SubmittedInv, CountersInv, MainInv, QueueInv, HandInv,
         CarsConserved, StageInv, [Next]_vars, NEW c \in Cars
  PROVE  PlaceAt(c)'
<1> DEFINE e == entrance[c]
<1>1. PlaceAt(c)
  BY DEF PlaceAt, CarsConserved, StageInv, handedOver
<1>2. e \in Entrances /\ c \in Nat /\ cars_sim_started \in Nat /\ c <= CarsToSim
  BY QueuesAssumption DEF TypeOK, Cars
<1>3. entrance' = entrance
  BY GeneratorLeaves, ManagerLeaves, PoolStepLeaves, CarStepLeaves, MainLeaves
  DEF Next, Handler, vars, genVars
<1>4. queue'[e] = queue[e] => (inQueue(c)' <=> inQueue(c))
  BY <1>3 DEF inQueue
<1>5. CASE Generator
  <2>1. /\ UNCHANGED <<submitted, car_list, stage, main_pc, mgr_pc, mgr_car>>
    BY <1>5, GeneratorLeaves DEF poolVars
  <2>2. (inHand(c)' <=> inHand(c)) /\ (handedOver(c)' <=> handedOver(c))
    BY <1>3, <2>1 DEF inHand, handedOver
  <2>3. CASE Generate
    <3> DEFINE c0 == cars_sim_started + 1
               e0 == entrance[c0]
    <3>1. c0 \in Cars /\ cars_sim_started' = c0 /\ e0 \in Entrances
          /\ queue' = [queue EXCEPT ![e0] = Append(@, c0)]
      BY <2>3, GeneratedIsCar DEF Generate
    <3> HIDE DEF c0
    <3>2. CASE e # e0
      <4>1. queue'[e] = queue[e] /\ c # c0
        BY <1>2, <3>1, <3>2, QueueAppends
      <4>2. c <= cars_sim_started <=> c <= c0
        BY <1>2, <4>1 DEF c0
      <4>3. QED
        BY <1>1, <1>4, <2>1, <2>2, <3>1, <4>1, <4>2 DEF PlaceAt
    <3>3. CASE e = e0
      <4>1. inQueue(c)' <=> inQueue(c) \/ c = c0
        <5>1. /\ Len(queue[e]) \in Nat
              /\ DOMAIN queue[e] = 1..Len(queue[e]) /\ DOMAIN queue'[e] = 1..(Len(queue[e]) + 1)
              /\ \A i \in DOMAIN queue[e] : queue'[e][i] = queue[e][i]
              /\ queue'[e][Len(queue[e]) + 1] = c0
          BY <3>1, <3>3, QueueAppends
        <5>2. \A i \in DOMAIN queue'[e] : i \in DOMAIN queue[e] \/ i = Len(queue[e]) + 1
          BY <5>1
        <5>3. DOMAIN queue[e] \subseteq DOMAIN queue'[e] /\ Len(queue[e]) + 1 \in DOMAIN queue'[e]
          BY <5>1
        <5>4. inQueue(c)' <=> \E i \in DOMAIN queue'[e] : queue'[e][i] = c
          BY <1>3 DEF inQueue
        <5>5. QED
          BY <5>1, <5>2, <5>3, <5>4 DEF inQueue
      <4>2. c <= c0 <=> c <= cars_sim_started \/ c = c0
        BY <1>2 DEF c0
      <4>3. ~(c0 <= cars_sim_started)
        BY <1>2 DEF c0
      <4>4. QED
        BY <1>1, <2>1, <2>2, <3>1, <4>1, <4>2, <4>3 DEF PlaceAt
    <3>4. QED
      BY <3>2, <3>3
  <2>4. CASE ~Generate
    <3>1. UNCHANGED <<queue, cars_sim_started>>
      BY <1>5, <2>4 DEF Generator, PostFull, CountEnded, WaitSimulating, queueVars
    <3>2. QED
      BY <1>1, <1>4, <2>1, <2>2, <3>1 DEF PlaceAt
  <2>5. QED
    BY <2>3, <2>4
<1>6. CASE Pop(e)
  <2>1. /\ UNCHANGED <<submitted, stage, main_pc, car_list, cars_sim_started>>
        /\ mgr_pc[e] = "pop" /\ mgr_pc'[e] = "push" /\ mgr_car'[e] = Head(queue[e])
    BY <1>2, <1>6, MgrMoves DEF Pop, poolVars, genVars, mainVars, TypeOK
  <2>2. /\ Len(queue[e]) \in Nat /\ Len(queue[e]) > 0
        /\ DOMAIN queue[e] = 1..Len(queue[e]) /\ DOMAIN queue'[e] = 1..(Len(queue[e]) - 1)
        /\ \A i \in DOMAIN queue'[e] : queue'[e][i] = queue[e][i + 1]
        /\ Head(queue[e]) = queue[e][1]
    BY <1>2, <1>6, QueuePops DEF Pop
  <2>3. /\ 1 \in DOMAIN queue[e]
        /\ \A i \in DOMAIN queue'[e] : i \in Nat /\ i + 1 \in DOMAIN queue[e] /\ 1 < i + 1
        /\ \A i \in DOMAIN queue[e] : i # 1 => i - 1 \in DOMAIN queue'[e] /\ (i - 1) + 1 = i
    BY <2>2
  <2>4. inQueue(c) <=> inQueue(c)' \/ c = Head(queue[e])
    <3>1. inQueue(c)' <=> \E i \in DOMAIN queue'[e] : queue'[e][i] = c
      BY <1>3 DEF inQueue
    <3>2. inQueue(c)' => inQueue(c)
      BY <2>2, <2>3, <3>1 DEF inQueue
    <3>3. c = Head(queue[e]) => inQueue(c)
      BY <2>2, <2>3 DEF inQueue
    <3>4. ASSUME inQueue(c), c # Head(queue[e]) PROVE inQueue(c)'
      <4>1. PICK i \in DOMAIN queue[e] : queue[e][i] = c
        BY <3>4 DEF inQueue
      <4>2. i # 1
        BY <2>2, <3>4, <4>1
      <4>3. queue'[e][i - 1] = c /\ i - 1 \in DOMAIN queue'[e]
        BY <2>2, <2>3, <4>1, <4>2
      <4>4. QED
        BY <3>1, <4>3
    <3>5. QED
      BY <3>2, <3>3, <3>4
  <2>5. c = Head(queue[e]) => ~inQueue(c)'
    <3>1. \A i \in DOMAIN queue'[e] : queue[e][1] < queue'[e][i]
      BY <1>2, <2>2, <2>3 DEF QueueInv
    <3>2. QED
      BY <1>2, <1>3, <2>2, <3>1 DEF inQueue
  <2>6. ~inHand(c) /\ ~handedOver(c) /\ ~handedOver(c)' /\ (inHand(c)' <=> c = Head(queue[e]))
    BY <1>3, <2>1 DEF inHand, handedOver
  <2>7. QED
    BY <1>1, <2>1, <2>4, <2>5, <2>6 DEF PlaceAt
<1>7. CASE PushToCarList(e)
  <2>1. /\ UNCHANGED <<submitted, stage, main_pc, queue, cars_sim_started, mgr_car>>
        /\ car_list' = car_list \cup {mgr_car[e]}
        /\ mgr_pc[e] = "push" /\ mgr_pc'[e] = "submit"
    BY <1>2, <1>7, MgrMoves DEF PushToCarList, poolVars, queueVars, genVars, mainVars
  <2>2. entrance'[c] = e
    BY <1>3
  <2>3. QED
    BY <1>1, <1>4, <2>1, <2>2 DEF PlaceAt, inHand, handedOver
<1>8. CASE Submit(e)
  <2>1. /\ UNCHANGED <<stage, main_pc, queue, cars_sim_started, car_list>>
        /\ submitted' = submitted \cup {mgr_car[e]}
        /\ mgr_pc[e] = "submit" /\ mgr_pc'[e] = "signal"
    BY <1>2, <1>8, MgrMoves DEF Submit, Pool!AddRequest, queueVars, genVars, mainVars
  <2>2. entrance'[c] = e
    BY <1>3
  <2>3. QED
    BY <1>1, <1>4, <2>1, <2>2 DEF PlaceAt, inHand, handedOver
<1>9. ASSUME NEW d \in Entrances, Manager(d) \/ SpuriousWake(d),
             ~Pop(e), ~PushToCarList(e), ~Submit(e)
      PROVE  PlaceAt(c)'
  <2>1. UNCHANGED <<cars_sim_started, stage, main_pc>>
    BY <1>9, ManagerLeaves
  <2>2. queue'[e] = queue[e]
    BY <1>2, <1>9
    DEF Manager, WaitFull, TestQuit, LockOccupy, Pop, PushToCarList, Submit, SignalPool,
        WaitFinished, UnlockOccupy, SpuriousWake, queueVars, TypeOK
  <2>3. c \in submitted' <=> c \in submitted
    <3>1. CASE Submit(d)
      <4>1. submitted' = submitted \cup {mgr_car[d]} /\ d # e /\ entrance[mgr_car[d]] = d
        BY <1>9, <3>1 DEF Submit, Pool!AddRequest, HandInv, handling
      <4>2. QED
        BY <4>1
    <3>2. CASE SignalPool(d)
      BY <3>2 DEF SignalPool, Pool!Signal
    <3>3. QED
      BY <1>9, <3>1, <3>2, ManagerLeaves DEF poolVars
  <2>4. c \in car_list' <=> c \in car_list
    <3>1. CASE PushToCarList(d)
      <4>1. car_list' = car_list \cup {mgr_car[d]} /\ d # e /\ entrance[mgr_car[d]] = d
        BY <1>9, <3>1 DEF PushToCarList, HandInv, handling
      <4>2. QED
        BY <4>1
    <3>2. CASE ~PushToCarList(d)
      BY <1>9, <3>2
      DEF Manager, WaitFull, TestQuit, LockOccupy, Pop, Submit, SignalPool, WaitFinished,
          UnlockOccupy, SpuriousWake
    <3>3. QED
      BY <3>1, <3>2
  <2>5. QED
    BY <1>1, <1>4, <1>9, <2>1, <2>2, <2>3, <2>4, HandsKeep DEF PlaceAt
<1>10. ASSUME UNCHANGED <<cars_sim_started, queue, submitted>>,
              c \in car_list' <=> c \in car_list, main_pc = "done" => main_pc' = "done",
              UNCHANGED stage[c],
              ~Pop(e), ~PushToCarList(e), ~Submit(e)
       PROVE  PlaceAt(c)'
  BY <1>1, <1>4, <1>10, HandsKeep DEF PlaceAt
<1>11. ASSUME NEW h \in Handlers, NEW d \in Cars, CarStep(h, d) \/ Verdict(h, d),
              ~Pop(e), ~PushToCarList(e), ~Submit(e)
       PROVE  PlaceAt(c)'
  <2>1. UNCHANGED <<cars_sim_started, queue, main_pc, submitted>>
    BY <1>11, CarStepLeaves DEF poolVars, EndCar, Pool!FinishRequest
  <2>2. d \in submitted
    BY <1>11, PoolFacts
    DEF CarStep, Verdict, ArriveAtEntrance, LeaveEntrance, SignalLeave, Park, RemoveCar, EndCar
  <2>3. PICK s \in Stages : CarGoto(d, s)
    BY <1>11 DEF CarStep, Verdict, ArriveAtEntrance, LeaveEntrance, SignalLeave, Park, RemoveCar,
                 EndCar, Stages
  <2>4. CASE d # c
    <3>1. stage'[c] = stage[c]
      BY <2>3, <2>4, CarMoves
    <3>2. c \in car_list' <=> c \in car_list
      BY <1>11, <2>4
      DEF CarStep, Verdict, ArriveAtEntrance, LeaveEntrance, SignalLeave, Park, RemoveCar, EndCar
    <3>3. QED
      BY <1>10, <1>11, <2>1, <3>1, <3>2
  <2>5. CASE d = c
    <3>1. ~inHand(c) /\ ~handedOver(c)
      BY <1>1, <2>2, <2>5 DEF PlaceAt, handedOver
    <3>2. c \in car_list' <=> stage'[c] \notin {"count", "over"}
      <4>1. CASE RemoveCar(h, c)
        BY <4>1, CarMoves DEF RemoveCar
      <4>2. CASE EndCar(h, c)
        <5>1. stage[c] = "count" /\ stage'[c] = "over" /\ car_list' = car_list
          BY <4>2, CarMoves DEF EndCar
        <5>2. QED
          BY <1>1, <3>1, <5>1 DEF PlaceAt
      <4>3. CASE ~RemoveCar(h, c) /\ ~EndCar(h, c)
        <5>1. stage[c] \notin {"count", "over"} /\ car_list' = car_list
          BY <1>11, <2>5, <4>3
          DEF CarStep, Verdict, ArriveAtEntrance, LeaveEntrance, SignalLeave, Park
        <5>2. stage'[c] \notin {"count", "over"}
          BY <1>11, <2>5, <4>3, CarMoves
          DEF CarStep, Verdict, ArriveAtEntrance, LeaveEntrance, SignalLeave, Park
        <5>3. QED
          BY <1>1, <2>2, <2>5, <5>1, <5>2 DEF PlaceAt
      <4>4. QED
        BY <4>1, <4>2, <4>3
    <3>3. QED
      BY <1>1, <1>4, <1>11, <2>1, <2>2, <2>5, <3>1, <3>2, HandsKeep DEF PlaceAt
  <2>6. QED
    BY <2>4, <2>5
<1>12. ASSUME NEW h \in Handlers, PoolStep(h) \/ SpuriousPool(h),
              ~Pop(e), ~PushToCarList(e), ~Submit(e)
       PROVE  PlaceAt(c)'
  <2>1. submitted' = submitted
    BY <1>12 DEF PoolStep, SpuriousPool, Pool!EnterLoop, Pool!TestRequests, Pool!GetRequest,
                 Pool!Sleep, Pool!Relock, Pool!CheckQuit, Pool!SpuriousWakeup
  <2>2. QED
    BY <1>10, <1>12, <2>1, PoolStepLeaves
<1>13. ASSUME Main, ~Pop(e), ~PushToCarList(e), ~Submit(e) PROVE PlaceAt(c)'
  <2>1. UNCHANGED <<cars_sim_started, car_list, stage, submitted>>
    BY <1>13, MainLeaves DEF poolVars, ClosePool, Pool!Close, Pool!SetQuit, Pool!Broadcast,
                             Pool!JoinHandlers
  <2>2. main_pc # "done"
    BY <1>13 DEF Main, WaitQuit, ClosePool, ReleaseManager, JoinManager, JoinGenerator, CloseQueues
  <2>3. CASE CloseQueues
    <3>1. ~inQueue(c)' /\ main_pc' = "done"
      BY <1>2, <1>3, <2>3 DEF CloseQueues, inQueue
    <3>2. QED
      BY <1>1, <1>13, <2>1, <3>1, HandsKeep DEF PlaceAt
  <2>4. CASE ~CloseQueues
    <3>1. UNCHANGED queue
      BY <1>13, <2>4 DEF Main, WaitQuit, ClosePool, ReleaseManager, JoinManager, JoinGenerator,
                         queueVars
    <3>2. QED
      BY <1>10, <1>13, <2>1, <2>2, <3>1
  <2>5. QED
    BY <2>3, <2>4
<1>14. ASSUME UNCHANGED vars, ~Pop(e), ~PushToCarList(e), ~Submit(e) PROVE PlaceAt(c)'
  BY <1>10, <1>14 DEF vars, genVars, queueVars, mainVars, poolVars
<1>15. QED
  BY <1>5, <1>6, <1>7, <1>8, <1>9, <1>11, <1>12, <1>13, <1>14 DEF Next, Handler

-----------------------------------------------------------------------------
(* A car is submitted after all cars queued before it at its entrance. *)
LEMMA OrderStep ==
  ASSUME TypeOK, PP!TypeOK, PP!SubmittedInv, MainInv, QueueInv, HandInv, CarsConserved,
         OrderInv, [Next]_vars
  PROVE  OrderInv'
<1> SUFFICES ASSUME NEW c \in Cars, NEW d \in Cars,
                    entrance'[c] = entrance'[d], c < d, d \in submitted' \/ inHand(d)'
             PROVE  c \in submitted'
  BY DEF OrderInv
<1> DEFINE e == entrance[d]
<1>1. e \in Entrances /\ entrance' = entrance /\ entrance[c] = e /\ entrance'[d] = e
  BY GeneratorLeaves, ManagerLeaves, PoolStepLeaves, CarStepLeaves, MainLeaves
  DEF Next, Handler, vars, genVars, TypeOK
<1>2. submitted \subseteq submitted'
  BY PoolFacts
<1>3. d \in submitted \/ inHand(d) => c \in submitted'
  BY <1>1, <1>2 DEF OrderInv
<1>4. CASE Pop(e)
  <2>1. submitted' = submitted
    BY <1>4 DEF Pop, poolVars
  <2>2. mgr_pc[e] = "pop" /\ mgr_pc'[e] = "push" /\ mgr_car'[e] = Head(queue[e])
    BY <1>1, <1>4, MgrMoves DEF Pop, TypeOK
  <2>3. CASE d # Head(queue[e])
    BY <1>1, <1>3, <2>1, <2>2, <2>3 DEF inHand
  <2>4. CASE d = Head(queue[e])
    <3>1. /\ Len(queue[e]) \in Nat /\ Len(queue[e]) > 0
          /\ DOMAIN queue[e] = 1..Len(queue[e]) /\ Head(queue[e]) = queue[e][1]
      BY <1>1, <1>4, QueuePops DEF Pop
    <3>2. 1 \in DOMAIN queue[e] /\ \A i \in DOMAIN queue[e] : i # 1 => 1 < i
      BY <3>1
    <3>3. c \in Nat /\ d \in Nat /\ cars_sim_started \in Nat
      BY QueuesAssumption DEF Cars, TypeOK
    <3>4. inQueue(d)
      BY <2>4, <3>1, <3>2 DEF inQueue
    <3>5. d <= cars_sim_started
      BY <3>4 DEF CarsConserved
    <3>6. inQueue(c) \/ inHand(c) \/ c \in submitted \/ main_pc = "done"
      BY <3>3, <3>5 DEF CarsConserved
    <3>7. ~inHand(c)
      BY <1>1, <2>2 DEF inHand
    <3>8. main_pc # "done"
      BY <1>1, <2>2 DEF MainInv
    <3>9. ~inQueue(c)
      <4>1. \A i \in DOMAIN queue[e] : i # 1 => queue[e][1] < queue[e][i]
        BY <1>1, <3>2 DEF QueueInv
      <4>2. SUFFICES ASSUME NEW i \in DOMAIN queue[e], queue[e][i] = c PROVE FALSE
        BY <1>1 DEF inQueue
      <4>3. d < c \/ d = c
        BY <2>4, <3>1, <4>1, <4>2
      <4>4. QED
        BY <3>3, <4>3
    <3>10. QED
      BY <2>1, <3>6, <3>7, <3>8, <3>9
  <2>5. QED
    BY <2>3, <2>4
<1>5. CASE Submit(e)
  <2>1. mgr_pc[e] = "submit" /\ mgr_pc'[e] = "signal" /\ submitted' = submitted \cup {mgr_car[e]}
    BY <1>1, <1>5, MgrMoves DEF Submit, Pool!AddRequest
  <2>2. ~inHand(d)'
    BY <1>1, <2>1 DEF inHand
  <2>3. d \in submitted \/ inHand(d)
    BY <1>1, <2>1, <2>2 DEF inHand
  <2>4. QED
    BY <1>3, <2>3
<1>6. CASE PushToCarList(e)
  <2>1. submitted' = submitted
    BY <1>6 DEF PushToCarList, poolVars
  <2>2. inHand(d)' => inHand(d)
    <3>1. mgr_pc[e] = "push" /\ mgr_car' = mgr_car
      BY <1>6 DEF PushToCarList
    <3>2. QED
      BY <1>1, <3>1 DEF inHand
  <2>3. QED
    BY <1>3, <2>1, <2>2
<1>7. CASE ~Pop(e) /\ ~Submit(e) /\ ~PushToCarList(e)
  <2>1. inHand(d)' <=> inHand(d)
    BY <1>7, HandsKeep
  <2>2. d \in submitted' => d \in submitted
    <3>1. ASSUME NEW x \in Entrances, Submit(x), x # e PROVE d \in submitted' => d \in submitted
      <4>1. submitted' = submitted \cup {mgr_car[x]} /\ entrance[mgr_car[x]] = x
        BY <3>1 DEF Submit, Pool!AddRequest, HandInv, handling
      <4>2. QED
        BY <3>1, <4>1
    <3>2. QED
      BY <1>7, <3>1, PoolFacts
  <2>3. QED
    BY <1>3, <2>1, <2>2
<1>8. QED
  BY <1>4, <1>5, <1>6, <1>7

(* What WaitInv says of one entrance. *)
WaitAt(e) ==
  /\ mgr_pc[e] \in {"pop", "push", "submit", "signal", "sleep", "unlock"} => occupy[e] = e
  /\ \A c \in Cars :
       entrance[c] = e /\ c \in submitted /\ stage[c] \in beforeLeaving
         => /\ mgr_pc[e] \in {"signal", "sleep", "waiting"} /\ mgr_car[e] = c
            /\ stage[c] # "arrive" => mgr_pc[e] = "waiting"
            /\ \A d \in Cars : entrance[d] = e /\ d \in submitted => ~(c < d)

(* Without spurious wake-ups an entrance thread waits for its car. *)
LEMMA WaitStep ==
  ASSUME TypeOK, PP!TypeOK, PP!SubmittedInv, HandInv, CarsConserved, StageInv, OrderInv,
         ~Spurious, WaitInv, [Next]_vars, NEW e \in Entrances
  PROVE  WaitAt(e)'
<1>1. WaitAt(e)
  BY PoolFacts DEF WaitAt, WaitInv, outstanding
<1>2. entrance' = entrance
  BY GeneratorLeaves, ManagerLeaves, PoolStepLeaves, CarStepLeaves, MainLeaves
  DEF Next, Handler, vars, genVars
<1>3. e # NoThread
  BY QueuesAssumption
<1>4. ASSUME UNCHANGED <<mgr_pc[e], mgr_car[e], occupy[e], stage>>,
             \A c \in Cars : entrance[c] = e => (c \in submitted' <=> c \in submitted)
      PROVE  WaitAt(e)'
  BY <1>1, <1>2, <1>4 DEF WaitAt
<1>5. CASE Manager(e)
  <2>1. stage' = stage
    BY <1>5, ManagerLeaves
  <2>2. CASE Submit(e)
    <3>1. /\ mgr_pc[e] = "submit" /\ mgr_pc'[e] = "signal" /\ mgr_car' = mgr_car
          /\ occupy' = occupy /\ submitted' = submitted \cup {mgr_car[e]}
      BY <2>2, MgrMoves DEF Submit, Pool!AddRequest
    <3>2. mgr_car[e] \in Cars /\ entrance[mgr_car[e]] = e
      BY <3>1 DEF HandInv, handling
    <3>3. stage[mgr_car[e]] = "arrive"
      BY <3>1, <3>2 DEF CarsConserved, inHand, StageInv
    <3>4. mgr_car[e] \notin submitted /\ ~(mgr_car[e] < mgr_car[e])
      BY <3>1, <3>2 DEF CarsConserved, inHand, Cars
    <3>5. \A d \in Cars : entrance[d] = e /\ d \in submitted => ~(mgr_car[e] < d)
      BY <3>2, <3>4 DEF OrderInv
    <3>6. QED
      BY <1>1, <1>2, <2>1, <3>1, <3>3, <3>4, <3>5 DEF WaitAt
  <2>3. CASE ~Submit(e)
    <3>1. submitted' = submitted
      BY <1>5, <2>3, ManagerLeaves DEF poolVars, SignalPool, Pool!Signal
    <3>2. CASE SignalPool(e)
      <4>1. mgr_pc[e] = "signal" /\ mgr_pc'[e] = "sleep" /\ UNCHANGED <<mgr_car, occupy>>
        BY <3>2, MgrMoves DEF SignalPool
      <4>2. QED
        BY <1>1, <1>2, <2>1, <3>1, <4>1 DEF WaitAt
    <3>3. CASE WaitFinished(e)
      <4>1. mgr_pc[e] = "sleep" /\ mgr_pc'[e] = "waiting" /\ UNCHANGED mgr_car
        BY <3>3, MgrMoves DEF WaitFinished
      <4>2. QED
        BY <1>1, <1>2, <2>1, <3>1, <4>1 DEF WaitAt
    <3>4. CASE ~SignalPool(e) /\ ~WaitFinished(e)
      <4>1. mgr_pc[e] \notin {"signal", "sleep", "waiting"}
        BY <1>5, <2>3, <3>4
        DEF Manager, WaitFull, TestQuit, LockOccupy, Pop, PushToCarList, UnlockOccupy
      <4>2. mgr_pc'[e] \in {"pop", "push", "submit", "signal", "sleep", "unlock"} => occupy'[e] = e
        BY <1>1, <1>5, <2>3, <3>4, MgrMoves
        DEF Manager, WaitFull, TestQuit, LockOccupy, Pop, PushToCarList, UnlockOccupy, TypeOK,
            WaitAt
      <4>3. QED
        BY <1>1, <1>2, <2>1, <3>1, <4>1, <4>2 DEF WaitAt
    <3>5. QED
      BY <3>2, <3>3, <3>4
  <2>4. QED
    BY <2>2, <2>3
<1>6. ASSUME NEW d \in Entrances, Manager(d), d # e PROVE WaitAt(e)'
  <2>1. occupy'[e] = occupy[e]
    BY <1>6
    DEF TypeOK, Manager, WaitFull, TestQuit, LockOccupy, Pop, PushToCarList, Submit, SignalPool,
        WaitFinished, UnlockOccupy
  <2>2. mgr_car'[e] = mgr_car[e]
    BY <1>6
    DEF TypeOK, Manager, WaitFull, TestQuit, LockOccupy, Pop, PushToCarList, Submit, SignalPool,
        WaitFinished, UnlockOccupy
  <2>3. mgr_pc'[e] = mgr_pc[e]
    <3>1. \E l \in MgrPC : MgrGoto(d, l)
      BY <1>6
      DEF MgrPC, Manager, WaitFull, TestQuit, LockOccupy, Pop, PushToCarList, Submit, SignalPool,
          WaitFinished, UnlockOccupy
    <3>2. QED
      BY <1>6, <3>1, MgrMoves
  <2>4. ASSUME NEW c \in Cars, entrance[c] = e PROVE c \in submitted' <=> c \in submitted
    <3>1. CASE Submit(d)
      <4>1. submitted' = submitted \cup {mgr_car[d]} /\ entrance[mgr_car[d]] = d
        BY <3>1 DEF Submit, Pool!AddRequest, HandInv, handling
      <4>2. QED
        BY <1>6, <2>4, <4>1
    <3>2. CASE ~Submit(d)
      BY <1>6, <3>2, ManagerLeaves DEF poolVars, SignalPool, Pool!Signal
    <3>3. QED
      BY <3>1, <3>2
  <2>5. QED
    BY <1>4, <1>6, <2>1, <2>2, <2>3, <2>4, ManagerLeaves
<1>7. ASSUME NEW h \in Handlers, NEW c \in Cars, CarStep(h, c) \/ Verdict(h, c)
      PROVE  WaitAt(e)'
  <2>1. UNCHANGED <<mgr_car, submitted>>
    BY <1>7, CarStepLeaves DEF poolVars, EndCar, Pool!FinishRequest
  <2>2. c \in submitted
    BY <1>7, PoolFacts
    DEF CarStep, Verdict, ArriveAtEntrance, LeaveEntrance, SignalLeave, Park, RemoveCar, EndCar
  <2>3. PICK s \in Stages : CarGoto(c, s)
    BY <1>7 DEF CarStep, Verdict, ArriveAtEntrance, LeaveEntrance, SignalLeave, Park, RemoveCar,
                EndCar, Stages
  <2>4. CASE entrance[c] # e
    <3>1. occupy'[e] = occupy[e]
      BY <1>7, <2>4
      DEF TypeOK, CarStep, Verdict, ArriveAtEntrance, LeaveEntrance, SignalLeave, Park, RemoveCar,
          EndCar
    <3>2. mgr_pc'[e] = mgr_pc[e]
      BY <1>7, <2>4
      DEF TypeOK, MgrGoto, mgrVars, CarStep, Verdict, ArriveAtEntrance, LeaveEntrance, SignalLeave,
          Park, RemoveCar, EndCar
    <3>3. \A d \in Cars : entrance[d] = e => stage'[d] = stage[d]
      BY <2>3, <2>4, CarMoves
    <3>4. QED
      BY <1>1, <1>2, <2>1, <3>1, <3>2, <3>3 DEF WaitAt
  <2>5. CASE entrance[c] = e
    <3>0. /\ stage[c] \in beforeLeaving
               => /\ mgr_pc[e] \in {"signal", "sleep", "waiting"} /\ mgr_car[e] = c
                  /\ stage[c] # "arrive" => mgr_pc[e] = "waiting"
                  /\ \A d \in Cars : entrance[d] = e /\ d \in submitted => ~(c < d)
          /\ \A d \in Cars : d # c => stage'[d] = stage[d]
      BY <1>1, <2>2, <2>3, <2>5, CarMoves DEF WaitAt
    <3>1. CASE ArriveAtEntrance(h, c)
      <4>1. /\ stage[c] = "arrive" /\ stage[c] \in beforeLeaving /\ occupy[e] = NoThread
            /\ stage'[c] = "verdict" /\ mgr_pc' = mgr_pc
        BY <2>5, <3>1, CarMoves DEF ArriveAtEntrance, mgrVars, beforeLeaving
      <4>2. mgr_pc[e] = "waiting" /\ mgr_car[e] = c
        BY <1>1, <1>3, <3>0, <4>1 DEF WaitAt, beforeLeaving
      <4>3. QED
        BY <1>1, <1>2, <2>1, <3>0, <4>1, <4>2 DEF WaitAt
    <3>2. CASE Verdict(h, c) \/ LeaveEntrance(h, c)
      <4>1. stage[c] \in beforeLeaving \ {"arrive"} /\ mgr_pc' = mgr_pc
        BY <3>2 DEF Verdict, LeaveEntrance, mgrVars, beforeLeaving
      <4>2. mgr_pc[e] = "waiting" /\ mgr_car[e] = c
        BY <3>0, <4>1
      <4>3. QED
        BY <1>1, <1>2, <2>1, <3>0, <4>1, <4>2 DEF WaitAt
    <3>3. CASE SignalLeave(h, c)
      <4>1. stage[c] \in beforeLeaving \ {"arrive"} /\ stage'[c] \notin beforeLeaving
        BY <3>3, CarMoves DEF SignalLeave, beforeLeaving
      <4>2. mgr_pc[e] = "waiting" /\ mgr_car[e] = c
        BY <3>0, <4>1
      <4>3. mgr_pc'[e] = "woken"
        BY <2>5, <3>3, <4>2, MgrMoves DEF SignalLeave
      <4>4. QED
        BY <1>1, <1>2, <2>1, <3>0, <4>1, <4>2, <4>3 DEF WaitAt
    <3>4. CASE Park(h, c) \/ RemoveCar(h, c) \/ EndCar(h, c)
      <4>1. stage'[c] \notin beforeLeaving /\ UNCHANGED <<mgr_pc, occupy>>
        BY <3>4, CarMoves DEF Park, RemoveCar, EndCar, mgrVars, beforeLeaving
      <4>2. QED
        BY <1>1, <1>2, <2>1, <3>0, <4>1 DEF WaitAt
    <3>5. QED
      BY <1>7, <3>1, <3>2, <3>3, <3>4 DEF CarStep
  <2>6. QED
    BY <2>4, <2>5
<1>8. ASSUME NEW d \in Entrances, SpuriousWake(d) PROVE WaitAt(e)'
  BY <1>8 DEF SpuriousWake
<1>9. ASSUME UNCHANGED <<mgr_pc, mgr_car, occupy, stage>>, submitted' = submitted
      PROVE  WaitAt(e)'
  BY <1>4, <1>9
<1>10. ASSUME NEW h \in Handlers, PoolStep(h) \/ SpuriousPool(h) PROVE WaitAt(e)'
  <2>1. submitted' = submitted
    BY <1>10 DEF PoolStep, SpuriousPool, Pool!EnterLoop, Pool!TestRequests, Pool!GetRequest,
                 Pool!Sleep, Pool!Relock, Pool!CheckQuit, Pool!SpuriousWakeup
  <2>2. QED
    BY <1>9, <1>10, <2>1, PoolStepLeaves
<1>11. CASE Main
  <2>1. submitted' = submitted
    BY <1>11, MainLeaves DEF poolVars, ClosePool, Pool!Close, Pool!SetQuit, Pool!Broadcast,
                             Pool!JoinHandlers
  <2>2. QED
    BY <1>9, <1>11, <2>1, MainLeaves
<1>12. CASE Generator \/ UNCHANGED vars
  BY <1>9, <1>12, GeneratorLeaves DEF vars, poolVars, mgrVars
<1>13. QED
  BY <1>5, <1>6, <1>7, <1>8, <1>10, <1>11, <1>12 DEF Next, Handler

-----------------------------------------------------------------------------
(* The pool's invariant goes along with that of the simulator. *)
FullIInv == IInv /\ PP!IInv

(* Everything starts at its first place, with every queue empty. *)
LEMMA InitIInvQueues == Init => FullIInv
<1> SUFFICES ASSUME Init PROVE FullIInv
  OBVIOUS
<1> USE QueuesAssumption
<1>1. PP!IInv
  <2>1. PP!Init
    BY SamePool DEF Init
  <2>2. QED
    BY <2>1, PP!InitIInv, PoolAssumptionHolds
<1>2. submitted = {} /\ closer = "open"
  BY DEF Init, Pool!Init
<1>3. /\ \A e \in Entrances : /\ mgr_pc[e] = "full" /\ full[e] = 0
                             /\ queue[e] = <<>> /\ mgr_car[e] = NoCar
      /\ \A c \in Cars : stage[c] = "arrive"
  BY DEF Init
<1>4. over = {}
  BY <1>3 DEF over
<1>5. TypeOK
  <2>1. queue \in [Entrances -> Seq(Cars)]
    BY EmptySeq DEF Init
  <2>2. /\ full \in [Entrances -> 0..CarsToSim + 1] /\ cars_sim_started \in 0..CarsToSim
        /\ cars_sim_ended \in 0..CarsToSim /\ cars_simulating \in 0..CarsToSim
    BY DEF Init
  <2>3. /\ mgr_pc \in [Entrances -> MgrPC] /\ stage \in [Cars -> Stages]
        /\ main_pc \in MainPC /\ gen_pc \in GenPC
    BY DEF Init, MgrPC, Stages, MainPC, GenPC
  <2>4. QED
    BY <2>1, <2>2, <2>3 DEF Init, TypeOK
<1>6. CountersInv
  BY <1>4, FS_EmptySet DEF Init, CountersInv
<1>7. MainInv
  BY <1>2 DEF Init, MainInv
<1>8. FullInv
  <2>1. \A e \in Entrances : extra(e) = 0 /\ unposted(e) = 0 /\ taken(e) = 0 /\ ~released(e)
    BY <1>3 DEF Init, extra, unposted, taken, released
  <2>2. QED
    BY <1>3, <2>1, EmptySeq DEF Init, FullInv
<1>9. QueueInv /\ HandInv /\ StageInv
  BY <1>3 DEF QueueInv, HandInv, StageInv, handling
<1>10. CarsConserved
  <2>1. \A c \in Cars : ~inQueue(c) /\ ~inHand(c)
    BY <1>3, <1>5 DEF inQueue, inHand, TypeOK
  <2>2. cars_sim_ended = Cardinality(over)
    BY <1>6 DEF CountersInv
  <2>3. cars_sim_started = 0 /\ car_list = {} /\ \A c \in Cars : ~(c <= cars_sim_started)
    BY DEF Init, Cars
  <2>4. QED
    BY <1>2, <1>4, <2>1, <2>2, <2>3 DEF CarsConserved
<1>11. OrderInv
  BY <1>2, <1>3, <1>5 DEF OrderInv, inHand, TypeOK
<1>12. WaitInv
  BY <1>2, <1>3 DEF WaitInv, outstanding
<1>13. QED
  BY <1>1, <1>5, <1>6, <1>7, <1>8, <1>9, <1>10, <1>11, <1>12 DEF FullIInv, IInv

(* Every step keeps the invariant. *)
LEMMA NextIInvQueues == FullIInv /\ [Next]_vars => FullIInv'
<1> SUFFICES ASSUME FullIInv, [Next]_vars PROVE FullIInv'
  OBVIOUS
<1>1. PP!IInv /\ PP!TypeOK /\ PP!SubmittedInv
  BY DEF FullIInv, PP!IInv
<1>2. /\ TypeOK /\ CountersInv /\ MainInv /\ FullInv /\ QueueInv /\ HandInv
      /\ CarsConserved /\ StageInv /\ OrderInv /\ (Spurious \/ WaitInv)
  BY DEF FullIInv, IInv
<1>3. PP!IInv'
  BY <1>1, <1>2, PoolRefinementStep, PP!NextIInv, PoolAssumptionHolds
<1>4. CountersInv' /\ MainInv' /\ QueueInv' /\ HandInv'
  BY <1>1, <1>2, CountersStep, MainStep, QueueStep, HandStep
<1>5. TypeOK'
  BY <1>2, <1>4, TypeStep
<1>6. FullInv'
  BY <1>2, FullStep DEF FullAt, FullInv
<1>7. CarsConserved' /\ StageInv'
  <2>1. \A c \in Cars : PlaceAt(c)'
    BY <1>1, <1>2, PlaceStep
  <2>2. StageInv'
    BY <2>1 DEF PlaceAt, StageInv
  <2>3. (cars_sim_ended = Cardinality(over))'
    BY <1>4 DEF CountersInv
  <2>4. \A c \in Cars : (c \in over)' => c \in submitted'
    BY <2>2 DEF over, StageInv
  <2>5. QED
    BY <2>1, <2>2, <2>3, <2>4 DEF PlaceAt, CarsConserved, handedOver
<1>8. OrderInv'
  BY <1>1, <1>2, OrderStep
<1>9. Spurious \/ WaitInv'
  <2>1. ASSUME ~Spurious, NEW e \in Entrances PROVE WaitAt(e)'
    BY <1>1, <1>2, <2>1, WaitStep
  <2>2. submitted' \subseteq Cars
    BY <1>3 DEF PP!IInv, PP!TypeOK
  <2>3. ASSUME ~Spurious, NEW e \in Entrances
        PROVE  /\ (mgr_pc[e] \in {"pop", "push", "submit", "signal", "sleep", "unlock"}
                     => occupy[e] = e)'
               /\ \A c \in outstanding(e)' :
                    /\ mgr_pc'[e] \in {"signal", "sleep", "waiting"} /\ mgr_car'[e] = c
                    /\ stage'[c] # "arrive" => mgr_pc'[e] = "waiting"
                    /\ \A d \in submitted' : entrance'[d] = e => ~(c < d)
    BY <2>1, <2>2, <2>3 DEF WaitAt, outstanding
  <2>4. QED
    BY <2>3 DEF WaitInv
<1>10. QED
  BY <1>3, <1>4, <1>5, <1>6, <1>7, <1>8, <1>9 DEF FullIInv, IInv

(* The invariant of the simulator and its pool, for every number of        *)
(* entrances, handlers and cars.                                           *)
THEOREM SimulatorInvariant == Spec => []FullIInv
BY InitIInvQueues, NextIInvQueues, PTL DEF Spec

(* The simulator is a client of its pool as ThreadPool expects one: what   *)
(* ThreadPoolProofs proves of the pool holds in the simulator.             *)
THEOREM SimulatorUsesPool == Spec => PP!Spec
<1>1. Init => PP!Init
  BY SamePool DEF Init
<1>2. FullIInv /\ [Next]_vars => [PP!Next]_(PP!vars)
  BY PoolRefinementStep DEF FullIInv, IInv
<1>3. QED
  BY <1>1, <1>2, SimulatorInvariant, PTL DEF Spec, PP!Spec

(* No car is driven by two handlers, or twice: car_simulation_loop frees   *)
(* its car once.                                                           *)
THEOREM CarsDrivenOnce == Spec => []PP!ExactlyOnce
BY SimulatorUsesPool, PP!PoolExactlyOnce, PoolAssumptionHolds, PTL

(* No submitted car is left to a pool whose handlers all sleep. *)
THEOREM NoCarStranded == Spec => []PP!NoStrandedRequest
BY SimulatorUsesPool, PP!PoolNeverStrands, PoolAssumptionHolds, PTL

(* Every variable keeps its type; in particular a queue's semaphore never  *)
(* exceeds the number of cars by more than the post of main.               *)
THEOREM QueuesTypeOK == Spec => []TypeOK
<1>1. FullIInv => TypeOK
  BY DEF FullIInv, IInv
<1>2. QED
  BY <1>1, SimulatorInvariant, PTL

(* llist_pop never meets an empty queue. *)
THEOREM PopsFindCars == Spec => []PopFindsCar
<1>1. FullIInv => PopFindsCar
  <2> SUFFICES ASSUME FullIInv, NEW e \in Entrances, mgr_pc[e] \in {"occupy", "pop"}
               PROVE  queue[e] # <<>>
    BY DEF PopFindsCar
  <2>1. /\ full[e] \in Nat /\ Len(queue[e]) \in Nat
        /\ full[e] + taken(e) + unposted(e) = Len(queue[e]) + extra(e)
        /\ released(e) => full[e] > 0
    BY LenProperties DEF FullIInv, IInv, TypeOK, FullInv
  <2>2. taken(e) = 1 /\ unposted(e) \in {0, 1} /\ extra(e) = IF released(e) THEN 1 ELSE 0
    BY DEF taken, unposted, extra
  <2>3. Len(queue[e]) > 0
    <3>1. CASE released(e)
      BY <2>1, <2>2, <3>1
    <3>2. CASE ~released(e)
      BY <2>1, <2>2, <3>2
    <3>3. QED
      BY <3>1, <3>2
  <2>4. QED
    BY <2>3, EmptySeq
<1>2. QED
  BY <1>1, SimulatorInvariant, PTL

(* No car is lost or duplicated between the generator and its end. *)
THEOREM NoCarLost == Spec => []CarsConserved
<1>1. FullIInv => CarsConserved
  BY DEF FullIInv, IInv
<1>2. QED
  BY <1>1, SimulatorInvariant, PTL

(* The generator, asleep on cars_simulating, has a post left to wake on as *)
(* soon as enough cars have ended.                                         *)
THEOREM GeneratorWakes == Spec => []GeneratorNotStranded
<1>1. FullIInv => GeneratorNotStranded
  BY QueuesAssumption
  DEF FullIInv, IInv, CountersInv, TypeOK, enoughEnded, GeneratorNotStranded
<1>2. QED
  BY <1>1, SimulatorInvariant, PTL

(* Without spurious wake-ups an entrance thread waits for its car. *)
THEOREM ManagersWait == ~Spurious /\ Spec => []ManagerWaitsForCar
<1> SUFFICES ASSUME ~Spurious PROVE Spec => []ManagerWaitsForCar
  OBVIOUS
<1>1. FullIInv => ManagerWaitsForCar
  BY DEF FullIInv, IInv, WaitInv, ManagerWaitsForCar
<1>2. QED
  BY <1>1, SimulatorInvariant, PTL

(* Without spurious wake-ups no car still needs the mutexes on the stack   *)
(* of a thread that has returned.                                          *)
THEOREM StacksOutliveCars == ~Spurious /\ Spec => []NoCarUsesDeadStack
<1> SUFFICES ASSUME ~Spurious PROVE Spec => []NoCarUsesDeadStack
  OBVIOUS
<1>1. FullIInv => NoCarUsesDeadStack
  <2> SUFFICES ASSUME FullIInv PROVE NoCarUsesDeadStack
    OBVIOUS
  <2>1. \A e \in Entrances : mgr_pc[e] = "done" => outstanding(e) = {}
    BY DEF FullIInv, IInv, WaitInv
  <2>2. main_pc = "done" => /\ gen_pc = "done"
                            /\ \A e \in Entrances : mgr_pc[e] = "done"
                            /\ \A h \in Handlers : pool_pc[h] = "done"
    BY DEF FullIInv, IInv, MainInv, CountersInv
  <2>3. QED
    BY <2>1, <2>2 DEF NoCarUsesDeadStack, runs
<1>2. QED
  BY <1>1, SimulatorInvariant, PTL

(* Without spurious wake-ups cars pass an entrance in their order. *)
THEOREM CarsPassInOrder == ~Spurious /\ Spec => []PassInOrder
<1> SUFFICES ASSUME ~Spurious PROVE Spec => []PassInOrder
  OBVIOUS
<1>1. FullIInv => PassInOrder
  <2> SUFFICES ASSUME FullIInv, NEW c \in Cars, NEW d \in Cars,
                      entrance[c] = entrance[d], c < d, stage[d] # "arrive",
                      stage[c] \in beforeLeaving
               PROVE  FALSE
    BY DEF PassInOrder
  <2>1. d \in submitted /\ c \in submitted
    BY DEF FullIInv, IInv, StageInv, OrderInv
  <2>2. entrance[c] \in Entrances /\ c \in outstanding(entrance[c])
    BY <2>1 DEF outstanding, FullIInv, IInv, TypeOK
  <2>3. QED
    BY <2>1, <2>2 DEF FullIInv, IInv, WaitInv
<1>2. QED
  BY <1>1, SimulatorInvariant, PTL
=============================================================================

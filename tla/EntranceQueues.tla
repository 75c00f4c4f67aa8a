---------------------------- MODULE EntranceQueues ----------------------------
(***************************************************************************)
(* How the simulator of src/src/car_park_simulator.c moves its cars: the   *)
(* generator thread appends cars to per-entrance queues, one thread per    *)
(* entrance (manage_entrances_loop) pops them and submits each to the      *)
(* thread pool, a pool handler drives the car through the entrance and the *)
(* park (car_simulation_loop), and main closes everything down.  The pool  *)
(* is ThreadPool: the entrance threads are its clients and a car is a      *)
(* request.                                                                *)
(*                                                                         *)
(* What happens between a car and the devices of its entrance (lines       *)
(* 594-607) is the one step Verdict here.                                  *)
(*                                                                         *)
(* Grain of atomicity: a section of mutex[e], car_list_mutex or            *)
(* cars_sim_ended_mutex contains no wait and is one step.  occupy_mutex is *)
(* held across waits and is a variable.  pthread_cond_wait returns without *)
(* a signal only if Spurious.                                              *)
(***************************************************************************)
EXTENDS Naturals, Sequences, FiniteSets

CONSTANTS
  Entrances,   \* one manage_entrances_loop thread each
  Handlers,    \* the pool's threads
  CarsToSim,   \* cars_to_sim
  NoCar,       \* no car in an entrance thread's hand
  NoThread,    \* owner of a free mutex
  Spurious     \* may condition variables wake without a signal?

ASSUME QueuesAssumption ==
  /\ CarsToSim \in Nat \ {0}
  /\ IsFiniteSet(Entrances) /\ IsFiniteSet(Handlers)
  /\ Entrances \cap Handlers = {}
  /\ NoThread \notin Entrances \cup Handlers
  /\ NoCar \notin Nat
  /\ Spurious \in BOOLEAN

Cars == 1..CarsToSim   \* numbered in the order of generation

VARIABLES
  \* the generator and its counters
  gen_pc, cars_sim_started, cars_sim_ended, cars_simulating, quit, quit_sem,
  \* the entrance queues
  queue, full,
  \* the entrance threads: progress, the car in hand, and occupy_mutex
  mgr_pc, mgr_car, occupy,
  \* the cars: their entrance, their progress, the list of existing cars
  entrance, stage, car_list,
  \* main: progress, the entrance it joins, those it has joined
  main_pc, joining, joined,
  \* the thread pool
  request_list, num_requests, request_mutex, pool_quit, pool_pc, a_request,
  closer, submitted

genVars == <<gen_pc, cars_sim_started, quit, quit_sem, entrance>>
endVars == <<cars_sim_ended, cars_simulating>>
queueVars == <<queue, full>>
mgrVars == <<mgr_pc, mgr_car>>
mainVars == <<main_pc, joining, joined>>
poolVars == <<request_list, num_requests, request_mutex, pool_quit, pool_pc,
              a_request, closer, submitted>>
vars == <<genVars, endVars, queueVars, mgrVars, occupy, stage, car_list, mainVars,
          poolVars>>

Pool == INSTANCE ThreadPool WITH
          Adders <- Entrances, Requests <- Cars, NoRequest <- NoCar,
          quit <- pool_quit, pc <- pool_pc

GenPC == {"generate", "post", "count", "sleep", "done"}
MgrPC == {"full", "test", "occupy", "pop", "push", "submit", "signal",
          "sleep", "waiting", "woken", "unlock", "again", "done"}
MainPC == {"run", "close", "release", "join", "last", "queues", "done"}
Stages == {"arrive", "verdict", "go_in", "turn_away", "tell_in", "tell_out",
           "park", "remove", "count", "over"}

Init ==
  /\ gen_pc = "generate"
  /\ cars_sim_started = 0 /\ cars_sim_ended = 0
  /\ cars_simulating = 0 /\ quit_sem = 0
  /\ quit = FALSE
  /\ queue = [e \in Entrances |-> <<>>]
  /\ full = [e \in Entrances |-> 0]
  /\ mgr_pc = [e \in Entrances |-> "full"]
  /\ mgr_car = [e \in Entrances |-> NoCar]
  /\ occupy = [e \in Entrances |-> NoThread]
  /\ entrance \in [Cars -> Entrances]
  /\ stage = [c \in Cars |-> "arrive"]
  /\ car_list = {}
  /\ main_pc = "run" /\ joining = NoThread /\ joined = {}
  /\ Pool!Init

-----------------------------------------------------------------------------
(* A definition marked "Mutant" is a bug that could be made in place of the *)
(* definition after it; it is used only to show that a property notices.   *)

(* generate_cars_loop.  The entrance random_int picks for car c is         *)
(* entrance[c], fixed from the start; the plate it is given does not matter *)
(* here.                                                                   *)
Generate ==
  LET c == cars_sim_started + 1 IN
  /\ gen_pc = "generate"
  /\ queue' = [queue EXCEPT ![entrance[c]] = Append(@, c)]
  /\ cars_sim_started' = c
  /\ gen_pc' = "post"
  /\ UNCHANGED <<endVars, quit, quit_sem, entrance, full, mgrVars, occupy, stage,
                 car_list, mainVars, poolVars>>

(* sem_post(full), the pause, and the test for the last car. *)
PostFull ==
  /\ gen_pc = "post"
  /\ full' = [full EXCEPT ![entrance[cars_sim_started]] = @ + 1]
  /\ gen_pc' = IF cars_sim_started >= CarsToSim THEN "count" ELSE "generate"
  /\ UNCHANGED <<endVars, cars_sim_started, quit, quit_sem, entrance, queue,
                 mgrVars, occupy, stage, car_list, mainVars, poolVars>>

enoughEnded == cars_sim_ended >= CarsToSim - 1

(* Mutant: the break after raising quit is missing. *)
CountEndedNoBreak ==
  /\ gen_pc = "count"
  /\ IF enoughEnded
     THEN quit' = TRUE /\ quit_sem' = quit_sem + 1 /\ gen_pc' = "count"
     ELSE gen_pc' = "sleep" /\ UNCHANGED <<quit, quit_sem>>
  /\ UNCHANGED <<endVars, cars_sim_started, entrance, queueVars, mgrVars,
                 occupy, stage, car_list, mainVars, poolVars>>

CountEnded ==
  /\ gen_pc = "count"
  /\ IF enoughEnded
     THEN quit' = TRUE /\ quit_sem' = quit_sem + 1 /\ gen_pc' = "done"
     ELSE gen_pc' = "sleep" /\ UNCHANGED <<quit, quit_sem>>
  /\ UNCHANGED <<endVars, cars_sim_started, entrance, queueVars, mgrVars,
                 occupy, stage, car_list, mainVars, poolVars>>

WaitSimulating ==
  /\ gen_pc = "sleep"
  /\ cars_simulating > 0
  /\ cars_simulating' = cars_simulating - 1
  /\ gen_pc' = "count"
  /\ UNCHANGED <<cars_sim_started, cars_sim_ended, quit, quit_sem, entrance,
                 queueVars, mgrVars, occupy, stage, car_list, mainVars, poolVars>>

Generator == Generate \/ PostFull \/ CountEnded \/ WaitSimulating

-----------------------------------------------------------------------------
(* manage_entrances_loop of entrance e. *)

MgrGoto(e, l) == mgr_pc' = [mgr_pc EXCEPT ![e] = l]

WaitFull(e) ==
  /\ mgr_pc[e] = "full"
  /\ full[e] > 0
  /\ full' = [full EXCEPT ![e] = @ - 1]
  /\ MgrGoto(e, "test")
  /\ UNCHANGED <<genVars, endVars, queue, mgr_car, occupy, stage, car_list, mainVars,
                 poolVars>>

(* Mutant: quit is tested at the end of the loop only. *)
TestQuitOnce(e) ==
  /\ mgr_pc[e] \in {"test", "again"}
  /\ MgrGoto(e, IF mgr_pc[e] = "test" THEN "occupy"
                ELSE IF quit THEN "done" ELSE "full")
  /\ UNCHANGED <<genVars, endVars, queueVars, mgr_car, occupy, stage, car_list,
                 mainVars, poolVars>>

(* The two tests of quit: after sem_wait, and at the end of the loop. *)
TestQuit(e) ==
  /\ mgr_pc[e] \in {"test", "again"}
  /\ MgrGoto(e, IF quit THEN "done"
               ELSE IF mgr_pc[e] = "test" THEN "occupy" ELSE "full")
  /\ UNCHANGED <<genVars, endVars, queueVars, mgr_car, occupy, stage, car_list,
                 mainVars, poolVars>>

LockOccupy(e) ==
  /\ mgr_pc[e] \in {"occupy", "woken"}
  /\ occupy[e] = NoThread
  /\ occupy' = [occupy EXCEPT ![e] = e]
  /\ MgrGoto(e, IF mgr_pc[e] = "occupy" THEN "pop" ELSE "unlock")
  /\ UNCHANGED <<genVars, endVars, queueVars, mgr_car, stage, car_list, mainVars,
                 poolVars>>

(* Popping an empty queue returns NULL, which the next line dereferences:  *)
(* the model stops there, and PopFindsCar says it never happens.           *)
Pop(e) ==
  /\ mgr_pc[e] = "pop"
  /\ queue[e] # <<>>
  /\ mgr_car' = [mgr_car EXCEPT ![e] = Head(queue[e])]
  /\ queue' = [queue EXCEPT ![e] = Tail(@)]
  /\ MgrGoto(e, "push")
  /\ UNCHANGED <<genVars, endVars, full, occupy, stage, car_list, mainVars, poolVars>>

PushToCarList(e) ==
  /\ mgr_pc[e] = "push"
  /\ car_list' = car_list \cup {mgr_car[e]}
  /\ MgrGoto(e, "submit")
  /\ UNCHANGED <<genVars, endVars, queueVars, mgr_car, occupy, stage, mainVars, poolVars>>

(* thread_pool_add_request: the append, then the signal. *)
Submit(e) ==
  /\ mgr_pc[e] = "submit"
  /\ Pool!AddRequest(e, mgr_car[e])
  /\ MgrGoto(e, "signal")
  /\ UNCHANGED <<genVars, endVars, queueVars, mgr_car, occupy, stage, car_list, mainVars>>

SignalPool(e) ==
  /\ mgr_pc[e] = "signal"
  /\ Pool!Signal(e)
  /\ MgrGoto(e, "sleep")
  /\ UNCHANGED <<genVars, endVars, queueVars, mgr_car, occupy, stage, car_list, mainVars>>

(* Mutant: the entrance thread does not wait for its car. *)
NoWait(e) ==
  /\ mgr_pc[e] = "sleep"
  /\ MgrGoto(e, "unlock")
  /\ UNCHANGED <<genVars, endVars, queueVars, mgr_car, occupy, stage, car_list,
                 mainVars, poolVars>>

(* pthread_cond_wait(&finished, &occupy_mutex) and, once woken and holding *)
(* occupy_mutex again, the unlock.                                         *)
WaitFinished(e) ==
  /\ mgr_pc[e] = "sleep"
  /\ occupy' = [occupy EXCEPT ![e] = NoThread]
  /\ MgrGoto(e, "waiting")
  /\ UNCHANGED <<genVars, endVars, queueVars, mgr_car, stage, car_list, mainVars, poolVars>>

SpuriousWake(e) ==
  /\ Spurious
  /\ mgr_pc[e] = "waiting"
  /\ MgrGoto(e, "woken")
  /\ UNCHANGED <<genVars, endVars, queueVars, mgr_car, occupy, stage, car_list,
                 mainVars, poolVars>>

UnlockOccupy(e) ==
  /\ mgr_pc[e] = "unlock"
  /\ occupy' = [occupy EXCEPT ![e] = NoThread]
  /\ mgr_car' = [mgr_car EXCEPT ![e] = NoCar]
  /\ MgrGoto(e, "again")
  /\ UNCHANGED <<genVars, endVars, queueVars, stage, car_list, mainVars, poolVars>>

Manager(e) ==
  \/ WaitFull(e) \/ TestQuit(e) \/ LockOccupy(e) \/ Pop(e) \/ PushToCarList(e)
  \/ Submit(e) \/ SignalPool(e) \/ WaitFinished(e) \/ UnlockOccupy(e)

-----------------------------------------------------------------------------
(* car_simulation_loop, for the car c that handler h runs. *)

runs(h, c) == pool_pc[h] = "run" /\ a_request[h] = c
CarGoto(c, s) == stage' = [stage EXCEPT ![c] = s]

ArriveAtEntrance(h, c) ==
  /\ runs(h, c) /\ stage[c] = "arrive"
  /\ occupy[entrance[c]] = NoThread
  /\ occupy' = [occupy EXCEPT ![entrance[c]] = h]
  /\ CarGoto(c, "verdict")
  /\ UNCHANGED <<genVars, endVars, queueVars, mgrVars, car_list, mainVars, poolVars>>

(* Mutant: entrance_leave is signalled before the car has left. *)
VerdictSignals(h, c) ==
  /\ runs(h, c) /\ stage[c] = "verdict"
  /\ \E s \in {"go_in", "turn_away"} : CarGoto(c, s)
  /\ mgr_pc' = [mgr_pc EXCEPT ![entrance[c]] = IF @ = "waiting" THEN "woken" ELSE @]
  /\ UNCHANGED <<genVars, endVars, queueVars, mgr_car, occupy, car_list, mainVars,
                 poolVars>>

(* Lines 594-607: the sensor, the sign, and the boom gate if let in. *)
Verdict(h, c) ==
  /\ runs(h, c) /\ stage[c] = "verdict"
  /\ \E s \in {"go_in", "turn_away"} : CarGoto(c, s)
  /\ UNCHANGED <<genVars, endVars, queueVars, mgrVars, occupy, car_list, mainVars, poolVars>>

(* car_leave_entrance: unlock occupy_mutex, then signal entrance_leave. *)
LeaveEntrance(h, c) ==
  /\ runs(h, c) /\ stage[c] \in {"go_in", "turn_away"}
  /\ occupy' = [occupy EXCEPT ![entrance[c]] = NoThread]
  /\ CarGoto(c, IF stage[c] = "go_in" THEN "tell_in" ELSE "tell_out")
  /\ UNCHANGED <<genVars, endVars, queueVars, mgrVars, car_list, mainVars, poolVars>>

(* Mutant: only a car that is let in signals entrance_leave. *)
SignalLeaveIn(h, c) ==
  /\ runs(h, c) /\ stage[c] \in {"tell_in", "tell_out"}
  /\ IF mgr_pc[entrance[c]] = "waiting" /\ stage[c] = "tell_in"
     THEN MgrGoto(entrance[c], "woken")
     ELSE UNCHANGED mgr_pc
  /\ CarGoto(c, IF stage[c] = "tell_in" THEN "park" ELSE "remove")
  /\ UNCHANGED <<genVars, endVars, queueVars, mgr_car, occupy, car_list, mainVars, poolVars>>

SignalLeave(h, c) ==
  /\ runs(h, c) /\ stage[c] \in {"tell_in", "tell_out"}
  /\ IF mgr_pc[entrance[c]] = "waiting"
     THEN MgrGoto(entrance[c], "woken")
     ELSE UNCHANGED mgr_pc
  /\ CarGoto(c, IF stage[c] = "tell_in" THEN "park" ELSE "remove")
  /\ UNCHANGED <<genVars, endVars, queueVars, mgr_car, occupy, car_list, mainVars, poolVars>>

Park(h, c) ==
  /\ runs(h, c) /\ stage[c] = "park"
  /\ CarGoto(c, "remove")
  /\ UNCHANGED <<genVars, endVars, queueVars, mgrVars, occupy, car_list, mainVars, poolVars>>

(* Mutant: the car stays in car_list. *)
KeepCar(h, c) ==
  /\ runs(h, c) /\ stage[c] = "remove"
  /\ CarGoto(c, "count")
  /\ UNCHANGED <<genVars, endVars, queueVars, mgrVars, occupy, car_list, mainVars,
                 poolVars>>

RemoveCar(h, c) ==
  /\ runs(h, c) /\ stage[c] = "remove"
  /\ car_list' = car_list \ {c}
  /\ CarGoto(c, "count")
  /\ UNCHANGED <<genVars, endVars, queueVars, mgrVars, occupy, mainVars, poolVars>>

(* Mutant: the car is counted but nobody is told. *)
EndCarSilently(h, c) ==
  /\ runs(h, c) /\ stage[c] = "count"
  /\ cars_sim_ended' = cars_sim_ended + 1
  /\ CarGoto(c, "over")
  /\ Pool!FinishRequest(h)
  /\ UNCHANGED <<genVars, cars_simulating, queueVars, mgrVars, occupy, car_list, mainVars>>

(* Count the car, post cars_simulating and return to the handler. *)
EndCar(h, c) ==
  /\ runs(h, c) /\ stage[c] = "count"
  /\ cars_sim_ended' = cars_sim_ended + 1
  /\ cars_simulating' = cars_simulating + 1
  /\ CarGoto(c, "over")
  /\ Pool!FinishRequest(h)
  /\ UNCHANGED <<genVars, queueVars, mgrVars, occupy, car_list, mainVars>>

CarStep(h, c) ==
  \/ ArriveAtEntrance(h, c) \/ LeaveEntrance(h, c) \/ SignalLeave(h, c)
  \/ Park(h, c) \/ RemoveCar(h, c) \/ EndCar(h, c)

(* What handler h does outside car_simulation_loop. *)
PoolStep(h) ==
  /\ \/ Pool!EnterLoop(h) \/ Pool!TestRequests(h) \/ Pool!GetRequest(h)
     \/ Pool!Sleep(h) \/ Pool!Relock(h) \/ Pool!CheckQuit(h)
  /\ UNCHANGED <<genVars, endVars, queueVars, mgrVars, occupy, stage, car_list, mainVars>>

SpuriousPool(h) ==
  /\ Spurious
  /\ Pool!SpuriousWakeup(h)
  /\ UNCHANGED <<genVars, endVars, queueVars, mgrVars, occupy, stage, car_list, mainVars>>

Handler(h) == PoolStep(h) \/ \E c \in Cars : CarStep(h, c)

-----------------------------------------------------------------------------
(* main: wait for quit_sem, close the pool, wake and join the entrance     *)
(* threads in turn, join the generator, and close the queues.  The         *)
(* handshake with the manager program at lines 748-749 never blocks:       *)
(* manager_finished starts at one and only main waits for it.              *)
WaitQuit ==
  /\ main_pc = "run"
  /\ quit_sem > 0
  /\ quit_sem' = quit_sem - 1
  /\ main_pc' = "close"
  /\ UNCHANGED <<endVars, gen_pc, cars_sim_started, quit, entrance, queueVars,
                 mgrVars, occupy, stage, car_list, joining, joined, poolVars>>

ClosePool ==
  /\ main_pc = "close"
  /\ Pool!Close
  /\ main_pc' = IF closer' = "closed" THEN "release" ELSE "close"
  /\ UNCHANGED <<genVars, endVars, queueVars, mgrVars, occupy, stage, car_list,
                 joining, joined>>

(* The loop over the entrances.  Its fixed order does not matter here, so  *)
(* the next entrance is any one not joined yet.                            *)
ReleaseManager ==
  /\ main_pc = "release"
  /\ \E e \in Entrances \ joined :
       /\ full' = [full EXCEPT ![e] = @ + 1]
       /\ joining' = e
  /\ main_pc' = "join"
  /\ UNCHANGED <<genVars, endVars, queue, mgrVars, occupy, stage, car_list, joined,
                 poolVars>>

JoinManager ==
  /\ main_pc = "join"
  /\ mgr_pc[joining] = "done"
  /\ joined' = joined \cup {joining}
  /\ main_pc' = IF joined' = Entrances THEN "last" ELSE "release"
  /\ UNCHANGED <<genVars, endVars, queueVars, mgrVars, occupy, stage, car_list,
                 joining, poolVars>>

JoinGenerator ==
  /\ main_pc = "last"
  /\ gen_pc = "done"
  /\ main_pc' = "queues"
  /\ UNCHANGED <<genVars, endVars, queueVars, mgrVars, occupy, stage, car_list,
                 joining, joined, poolVars>>

(* entrance_queue_close: a car still in a queue is freed with it, and the  *)
(* semaphores and mutexes of the queues are gone.                          *)
CloseQueues ==
  /\ main_pc = "queues"
  /\ queue' = [e \in Entrances |-> <<>>]
  /\ main_pc' = "done"
  /\ UNCHANGED <<genVars, endVars, full, mgrVars, occupy, stage, car_list, joining,
                 joined, poolVars>>

Main ==
  \/ WaitQuit \/ ClosePool \/ ReleaseManager \/ JoinManager \/ JoinGenerator
  \/ CloseQueues

-----------------------------------------------------------------------------
Next ==
  \/ Generator
  \/ \E e \in Entrances : Manager(e) \/ SpuriousWake(e)
  \/ \E h \in Handlers : \/ Handler(h) \/ SpuriousPool(h)
                         \/ \E c \in Cars : Verdict(h, c)
  \/ Main

Spec == Init /\ [][Next]_vars

(* Every thread that can run eventually does.  Verdict is not fair: the    *)
(* answer comes from another program, which owes nothing here.             *)
Fairness ==
  /\ WF_vars(Generator) /\ WF_vars(Main)
  /\ \A e \in Entrances : WF_vars(Manager(e))
  /\ \A h \in Handlers : WF_vars(Handler(h))

FairSpec == Spec /\ Fairness

-----------------------------------------------------------------------------
(* The type of every variable outside the pool. *)
TypeOK ==
  /\ gen_pc \in GenPC
  /\ cars_sim_started \in 0..CarsToSim /\ cars_sim_ended \in 0..CarsToSim
  /\ cars_simulating \in 0..CarsToSim /\ quit_sem \in {0, 1}
  /\ quit \in BOOLEAN
  /\ queue \in [Entrances -> Seq(Cars)]
  /\ full \in [Entrances -> 0..CarsToSim + 1]
  /\ mgr_pc \in [Entrances -> MgrPC]
  /\ mgr_car \in [Entrances -> Cars \cup {NoCar}]
  /\ occupy \in [Entrances -> Entrances \cup Handlers \cup {NoThread}]
  /\ entrance \in [Cars -> Entrances]
  /\ stage \in [Cars -> Stages]
  /\ car_list \subseteq Cars
  /\ main_pc \in MainPC
  /\ joining \in Entrances \cup {NoThread}
  /\ joined \subseteq Entrances

(* Cars of entrance e that have been taken from its queue and have not yet *)
(* told the entrance thread that they left.                                *)
beforeLeaving == {"arrive", "verdict", "go_in", "turn_away", "tell_in", "tell_out"}
outstanding(e) ==
  {c \in submitted : entrance[c] = e /\ stage[c] \in beforeLeaving}

(* The semaphore full and the queue agree well enough for llist_pop: an    *)
(* entrance thread that gets past its test of quit finds a car.  The post  *)
(* main makes at shutdown, which stands for no car, is why the test is     *)
(* there.                                                                  *)
PopFindsCar ==
  \A e \in Entrances : mgr_pc[e] \in {"occupy", "pop"} => queue[e] # <<>>

(* No car is lost or duplicated on its way from the queue through an       *)
(* entrance thread's hand, the pool's list and a handler to its end, and   *)
(* car_list holds exactly the cars under way, so the node a car deletes    *)
(* is always in the list.  Only main, at its end, frees a car in a queue.  *)
inQueue(c) == \E i \in DOMAIN queue[entrance[c]] : queue[entrance[c]][i] = c
inHand(c) == mgr_car[entrance[c]] = c
             /\ mgr_pc[entrance[c]] \in {"push", "submit"}
over == {c \in Cars : stage[c] = "over"}
CarsConserved ==
  /\ cars_sim_ended = Cardinality(over)
  /\ \A c \in Cars :
    /\ inQueue(c) => ~inHand(c) /\ c \notin submitted
    /\ inHand(c) => c \notin submitted
    /\ inQueue(c) \/ inHand(c) \/ c \in submitted => c <= cars_sim_started
    /\ c <= cars_sim_started
         => inQueue(c) \/ inHand(c) \/ c \in submitted \/ main_pc = "done"
    /\ c \in car_list <=>
         \/ inHand(c) /\ mgr_pc[entrance[c]] = "submit"
         \/ c \in submitted /\ stage[c] \notin {"count", "over"}
    /\ c \in over => c \in submitted

(* Without spurious wake-ups an entrance thread goes on only when its car  *)
(* has left: "Wait for the car thread that was just started to leave the   *)
(* entrance" (src/src/car_park_simulator.c:484).                           *)
ManagerWaitsForCar ==
  \A e \in Entrances :
    mgr_pc[e] \in {"full", "test", "occupy", "pop", "push", "woken", "unlock",
                  "again"} => outstanding(e) = {}

(* occupy_mutex and finished live on the entrance thread's stack: no car   *)
(* still needs them when that thread has returned.  The queues and their   *)
(* semaphores live on the stack of main: when it closes them, the threads  *)
(* and cars that use them have ended.                                      *)
NoCarUsesDeadStack ==
  /\ \A e \in Entrances : mgr_pc[e] = "done" => outstanding(e) = {}
  /\ main_pc = "done" => /\ gen_pc = "done"
                         /\ \A e \in Entrances : mgr_pc[e] = "done"
                         /\ \A c \in Cars : \A h \in Handlers : ~runs(h, c)

(* The generator never sleeps past the last post: it tests cars_sim_ended  *)
(* under the mutex and then waits on cars_simulating outside it (lines     *)
(* 673-682), and a wait uses up the post of any car.  If by now enough     *)
(* cars have ended to make it stop, it has a post left to wake on.         *)
GeneratorNotStranded ==
  gen_pc = "sleep" /\ enoughEnded => cars_simulating > 0

(* What line 670 says of the loop that ends in quit: "Wait for all cars to *)
(* finish simulating".                                                     *)
QuitAfterAllCars == quit => over = Cars

(* Cars pass an entrance in the order in which they queued there. *)
PassInOrder ==
  \A c, d \in Cars :
    entrance[c] = entrance[d] /\ c < d /\ stage[d] # "arrive"
      => stage[c] \notin beforeLeaving

(* If every car at an entrance is answered some time, the queues keep      *)
(* moving until all cars but one are through, and then quit is raised: no  *)
(* signal of entrance_leave is lost, which would stop its entrance, no     *)
(* post to cars_simulating, and no request stays in the pool.              *)
SimulationEnds ==
  (\A c \in Cars : stage[c] = "verdict" ~> stage[c] # "verdict")
    => <>(quit /\ Cardinality(over) >= CarsToSim - 1)

(* What line 755 says of the post to full: "Ensure no thread is stuck      *)
(* waiting for a car via the `full` semaphore".                            *)
ManagersReleased ==
  \A e \in Entrances : main_pc = "join" /\ joining = e ~> mgr_pc[e] = "done"
=============================================================================

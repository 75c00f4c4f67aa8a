---------------------------- MODULE HandshakeProofs ----------------------------
(***************************************************************************)
(* Proofs about the shared memory handshake, for any number of runs of the *)
(* simulator, with crashes anywhere.  The inductive invariant IInv says    *)
(* what each program has mapped at each place, and who has posted what.    *)
(***************************************************************************)
EXTENDS Handshake, TLAPS

(* The places where the simulator has both objects open, those before      *)
(* shm_mem_ready is posted, those of them where it has been initialised,   *)
(* and those where main has not passed its wait for the manager.           *)
up == {"size_link", "shm_mem_ready", "manager_linked", "simulator_closing",
       "manager_finished", "devices", "post_ready", "running", "wait_manager",
       "close_threads", "close_devices"}
initialising == {"manager_linked", "simulator_closing", "manager_finished", "devices",
                 "post_ready"}
beforeReady == {"start", "open_parking", "size_parking", "unlink_link", "open_link",
                "size_link", "shm_mem_ready"} \cup initialising
beforeClosing == beforeReady \cup {"running"}
served == {"devices", "post_ready", "running", "wait_manager"}

(* The places of the manager before it posts manager_linked, and those     *)
(* where it has LINK mapped.                                               *)
beforeLinked == {"start", "attach_link", "post_linked"} \cup inWait
attached == {"post_linked", "monitoring", "post_finished"} \cup inWait

(* The simulator opens its own instances and nothing between its runs; the *)
(* names and the manager never refer to an instance of a run to come.      *)
MapInv ==
  /\ sim_pc \in {"start", "open_parking", "stopped"} => sim_map = [n \in Names |-> NoObject]
  /\ sim_pc = "open_parking" => object["PARKING"] = NoObject
  /\ sim_pc \in {"size_parking", "unlink_link", "open_link"}
       => sim_map["PARKING"] = run /\ link = NoObject /\ object["PARKING"] = run
  /\ sim_pc = "open_link" => object["LINK"] = NoObject
  /\ sim_pc \in up => sim_map = [n \in Names |-> run]
  /\ sim_pc = "destroy_parking" => link = run
  /\ sim_pc = "destroy_link" => sim_map["PARKING"] = NoObject
  /\ \A n \in Names : object[n] # NoObject => object[n] <= run
  /\ mgr_pc \in attached \/ waiter # "none" => mgrLink \in 1..run

(* The memory of runs to come is zero-filled, and a semaphore is above its *)
(* initial value only after the one post there is for it.                  *)
PostInv ==
  /\ \A i \in Instances : i > run => \A s \in Semaphores : sem[i][s] = 0
  /\ sim_pc \in beforeReady => sem[run]["shm_mem_ready"] <= SEM_SHARED
  /\ sim_pc \in beforeClosing => sem[run]["simulator_closing"] <= SEM_SHARED
  /\ mgr_pc \in beforeLinked
       => \A i \in Instances : sem[i]["manager_linked"] <= SEM_SHARED
  /\ mgr_pc # "stopped" => \A i \in Instances : sem[i]["manager_finished"] <= SEM_SHARED

(* shm_mem_ready is zero until sem_init has been called on it, and then    *)
(* above zero until the manager takes it; nothing but main takes           *)
(* manager_finished.                                                       *)
ReadyInv ==
  /\ \A i \in Instances :
       sem[i]["shm_mem_ready"] > 0 => "shm_mem_ready" \in inited[i]
  /\ sim_pc \in initialising => "shm_mem_ready" \in inited[run]
  /\ mgr_pc \in {"start", "attach_link"} \cup inWait
       => \A i \in Instances :
            "shm_mem_ready" \in inited[i] => sem[i]["shm_mem_ready"] > 0
FinishedInv == sim_pc \in served => sem[run]["manager_finished"] > 0

IInv == /\ HandshakeTypeOK /\ MapInv /\ PostInv /\ ReadyInv /\ FinishedInv
        /\ FreshObjects /\ ReadyIsInitialised /\ LeftBehindOnlyEarly

-----------------------------------------------------------------------------
(* Before the first run nothing exists. *)
LEMMA InitIInv == HandshakeInit => IInv
<1> SUFFICES ASSUME HandshakeInit PROVE IInv
  OBVIOUS
<1>1. 1 \in Instances /\ run = 1
  BY HandshakeAssumption DEF HandshakeInit, Instances
<1>2. sem \in [Instances -> [Semaphores -> 0..SEM_SHARED + 1]]
  BY DEF HandshakeInit, SEM_SHARED
<1>3. HandshakeTypeOK
  BY <1>1, <1>2 DEF HandshakeInit, HandshakeTypeOK, SimPC, MgrPC, inWait
<1>4. \A i \in Instances : \A s \in Semaphores : sem[i][s] = 0
  BY DEF HandshakeInit
<1>5. MapInv
  BY <1>1 DEF HandshakeInit, MapInv, up, attached, inWait, Names, link
<1>6. PostInv
  <2>1. \A i \in Instances :
          /\ sem[i]["shm_mem_ready"] = 0 /\ sem[i]["manager_linked"] = 0
          /\ sem[i]["simulator_closing"] = 0 /\ sem[i]["manager_finished"] = 0
    BY <1>4 DEF Semaphores
  <2>2. QED
    BY <1>1, <1>4, <2>1 DEF PostInv, SEM_SHARED
<1>7. ReadyInv
  BY <1>4 DEF HandshakeInit, ReadyInv, initialising, inWait, Semaphores
<1>8. FreshObjects /\ ReadyIsInitialised /\ LeftBehindOnlyEarly /\ FinishedInv
  BY DEF HandshakeInit, FreshObjects, ReadyIsInitialised, LeftBehindOnlyEarly, FinishedInv,
         served, inWait
<1>9. QED
  BY <1>3, <1>5, <1>6, <1>7, <1>8 DEF IInv

-----------------------------------------------------------------------------
(* An instance that is not NoObject is the number of a run. *)
LEMMA RunsAreNumbers ==
  HandshakeTypeOK => run \in Nat /\ NoObject \notin Instances /\ Instances \subseteq Nat
BY HandshakeAssumption DEF HandshakeTypeOK, Instances

(* Every semaphore is posted at most once above its initial value, so its  *)
(* value and the rest stay in range.                                       *)
LEMMA TypeStep == IInv /\ [HandshakeNext]_handshakeVars => HandshakeTypeOK'
<1> SUFFICES ASSUME IInv, [HandshakeNext]_handshakeVars PROVE HandshakeTypeOK'
  OBVIOUS
<1> USE DEF simVars, mgrVars, memVars
<1>1. HandshakeTypeOK /\ MapInv /\ PostInv
  BY DEF IInv
<1>a. sim_pc \in up => link = run /\ sim_map["PARKING"] = run
  BY <1>1 DEF MapInv, Names, link
<1>b. /\ mgr_pc \in attached
           => mgrLink \in Instances
      /\ waiter # "none" => mgrLink \in Instances
  BY <1>1, HandshakeAssumption DEF MapInv, HandshakeTypeOK, Instances
<1>2. CASE CreateObjects
  <2>1. ASSUME NEW n \in Names, NEW l, NEW m \in SimPC, UnlinkName(n, l, m)
        PROVE  HandshakeTypeOK'
    BY <1>1, <2>1 DEF UnlinkName, HandshakeTypeOK
  <2>2. ASSUME NEW n \in Names, NEW l, NEW m \in SimPC, OpenObject(n, l, m)
        PROVE  HandshakeTypeOK'
    BY <1>1, <2>2 DEF OpenObject, HandshakeTypeOK
  <2>3. ASSUME NEW n \in Names, NEW l, NEW m \in SimPC, SizeObject(n, l, m),
               sim_map[n] \in Instances
        PROVE  HandshakeTypeOK'
    BY <1>1, <2>3 DEF SizeObject, HandshakeTypeOK
  <2>4. /\ sim_pc = "size_parking" => sim_map["PARKING"] \in Instances
        /\ sim_pc = "size_link" => sim_map["LINK"] \in Instances
    BY <1>1, <1>a DEF MapInv, HandshakeTypeOK, up, link
  <2>5. CASE SizeObject("PARKING", "size_parking", "unlink_link")
    BY <2>3, <2>4, <2>5 DEF SizeObject, SimPC, Names
  <2>6. CASE SizeObject("LINK", "size_link", "shm_mem_ready")
    BY <2>3, <2>4, <2>6 DEF SizeObject, SimPC, Names
  <2>7. QED
    BY <1>2, <2>1, <2>2, <2>5, <2>6 DEF CreateObjects, SimPC, Names
<1>3. ASSUME NEW s \in Semaphores, InitSemaphore(s) PROVE HandshakeTypeOK'
  <2>1. link \in Instances
    BY <1>1, <1>3, <1>a DEF InitSemaphore, up, Semaphores, HandshakeTypeOK
  <2>2. nextInit[s] \in SimPC
    BY DEF nextInit, Semaphores, SimPC
  <2>3. sem' \in [Instances -> [Semaphores -> 0..SEM_SHARED + 1]]
    BY <1>1, <1>3, <2>1 DEF InitSemaphore, HandshakeTypeOK, SEM_SHARED
  <2>4. mgr_pc' \in MgrPC /\ waiter' \in {"none", "returned"} \cup inWait
    BY <1>1, <1>3 DEF InitSemaphore, HandshakeTypeOK, afterInit, MgrPC, inWait
  <2>5. QED
    BY <1>1, <1>3, <2>1, <2>2, <2>3, <2>4 DEF InitSemaphore, HandshakeTypeOK
<1>4. CASE InitDevices \/ CloseThreads \/ CloseDevices
  BY <1>1, <1>4 DEF InitDevices, CloseThreads, CloseDevices, HandshakeTypeOK, SimPC
<1>5. ASSUME NEW i \in Instances, NEW s \in Semaphores, Wait(i, s)
      PROVE  sem' \in [Instances -> [Semaphores -> 0..SEM_SHARED + 1]]
  BY <1>1, <1>5 DEF Wait, HandshakeTypeOK, SEM_SHARED
<1>6. ASSUME NEW i \in Instances, NEW s \in Semaphores, Post(i, s), sem[i][s] <= SEM_SHARED
      PROVE  sem' \in [Instances -> [Semaphores -> 0..SEM_SHARED + 1]]
  BY <1>1, <1>6 DEF Post, HandshakeTypeOK, SEM_SHARED
<1>7. CASE PostReady \/ PostClosing
  <2>1. run \in Instances /\ link = run
    BY <1>1, <1>7, <1>a DEF PostReady, PostClosing, up, HandshakeTypeOK
  <2>2. CASE PostReady
    BY <1>1, <1>6, <2>1, <2>2
       DEF PostReady, PostInv, beforeReady, initialising, HandshakeTypeOK, SimPC, Semaphores
  <2>3. CASE PostClosing
    BY <1>1, <1>6, <2>1, <2>3
       DEF PostClosing, PostInv, beforeClosing, HandshakeTypeOK, SimPC, Semaphores
  <2>4. QED
    BY <1>7, <2>2, <2>3
<1>8. CASE WaitManager
  <2>1. link \in Instances /\ "manager_finished" \in Semaphores
    BY <1>1, <1>8, <1>a DEF WaitManager, up, HandshakeTypeOK, Semaphores
  <2>2. QED
    BY <1>1, <1>5, <1>8, <2>1 DEF WaitManager, HandshakeTypeOK, SimPC
<1>9. CASE DestroyObjects
  <2>1. ASSUME NEW n \in Names, NEW l, NEW m \in SimPC, Destroy(n, l, m)
        PROVE  HandshakeTypeOK'
    BY <1>1, <2>1 DEF Destroy, HandshakeTypeOK
  <2>2. QED
    BY <1>9, <2>1 DEF DestroyObjects, SimPC, Names
<1>10. CASE Crash
  BY <1>1, <1>10 DEF Crash, HandshakeTypeOK, SimPC
<1>11. CASE Restart
  BY <1>1, <1>11, HandshakeAssumption DEF Restart, HandshakeTypeOK, SimPC, Instances
<1>12. CASE AttachObjects
  <2>1. ASSUME NEW n \in Names, NEW l, NEW m \in MgrPC, Attach(n, l, m)
        PROVE  HandshakeTypeOK'
    BY <1>1, <2>1 DEF Attach, HandshakeTypeOK, MgrPC
  <2>2. QED
    BY <1>12, <2>1 DEF AttachObjects, MgrPC, inWait, Names
<1>13. CASE WaitReady \/ WaitSimClose
  <2>1. /\ mgrLink \in Instances
        /\ "shm_mem_ready" \in Semaphores /\ "simulator_closing" \in Semaphores
    BY <1>1, <1>13, <1>b
    DEF WaitReady, WaitSimClose, SemWait, Semaphores, attached, inWait
  <2>2. sem' \in [Instances -> [Semaphores -> 0..SEM_SHARED + 1]]
    BY <1>1, <1>5, <1>13, <2>1 DEF WaitReady, WaitSimClose, SemWait, HandshakeTypeOK
  <2>3. mgr_pc' \in MgrPC /\ waiter' \in {"none", "returned"} \cup inWait /\ mgr_quit' \in BOOLEAN
    BY <1>1, <1>13 DEF WaitReady, WaitSimClose, SemWait, HandshakeTypeOK, MgrPC, inWait
  <2>4. QED
    BY <1>1, <1>13, <2>2, <2>3 DEF WaitReady, WaitSimClose, HandshakeTypeOK
<1>14. CASE PostLinked \/ PostFinished
  <2>1. /\ mgrLink \in Instances
        /\ "manager_linked" \in Semaphores /\ "manager_finished" \in Semaphores
    BY <1>14, <1>b DEF PostLinked, PostFinished, Semaphores, attached
  <2>2. QED
    BY <1>1, <1>6, <1>14, <2>1 DEF PostLinked, PostFinished, PostInv, HandshakeTypeOK, MgrPC, beforeLinked, inWait
<1>15. CASE JoinMonitors \/ Fault
  BY <1>1, <1>15 DEF JoinMonitors, Fault, HandshakeTypeOK, MgrPC
<1>16. CASE UNCHANGED handshakeVars
  BY <1>1, <1>16 DEF handshakeVars, HandshakeTypeOK
<1>17. QED
  BY <1>2, <1>3, <1>4, <1>7, <1>8, <1>9, <1>10, <1>11, <1>12, <1>13, <1>14, <1>15, <1>16
     DEF HandshakeNext, Simulator, Manager

-----------------------------------------------------------------------------
(* What is mapped where: the simulator only maps its own run, and it lets  *)
(* go of both objects before it stops.                                     *)
LEMMA MapStep == IInv /\ [HandshakeNext]_handshakeVars => MapInv' /\ FreshObjects'
<1> SUFFICES ASSUME IInv, [HandshakeNext]_handshakeVars PROVE MapInv' /\ FreshObjects'
  OBVIOUS
<1> USE DEF simVars, mgrVars, memVars
<1>1. HandshakeTypeOK /\ MapInv /\ FreshObjects
  BY DEF IInv
<1>2. run \in Nat /\ run \in Instances /\ NoObject \notin Instances
  BY <1>1, RunsAreNumbers DEF HandshakeTypeOK
<1>3. ASSUME UNCHANGED <<run, sim_map, mgr_map, object, waiter, mgr_pc>>,
             sim_pc \in up, sim_pc' \in up \cup {"destroy_parking"}
      PROVE  MapInv' /\ FreshObjects'
  BY <1>1, <1>3 DEF MapInv, FreshObjects, up, link, mgrLink, Names
<1>4. CASE CreateObjects
  <2> USE DEF HandshakeTypeOK, MapInv, FreshObjects, up, link, mgrLink, Names
  <2>1. CASE UnlinkName("PARKING", "start", "open_parking")
    BY <1>1, <1>2, <2>1 DEF UnlinkName
  <2>2. CASE OpenObject("PARKING", "open_parking", "size_parking")
    BY <1>1, <1>2, <2>2 DEF OpenObject
  <2>3. CASE SizeObject("PARKING", "size_parking", "unlink_link")
    BY <1>1, <1>2, <2>3 DEF SizeObject
  <2>4. CASE UnlinkName("LINK", "unlink_link", "open_link")
    BY <1>1, <1>2, <2>4 DEF UnlinkName
  <2>5. CASE OpenObject("LINK", "open_link", "size_link")
    <3>1. /\ UNCHANGED <<run, mgr_pc, mgr_map, waiter>> /\ sim_pc' = "size_link"
          /\ sim_map["PARKING"] = run /\ object["PARKING"] = run /\ object["LINK"] = NoObject
      BY <1>1, <2>5 DEF OpenObject
    <3>2. object' = [n \in Names |-> run]
      BY <1>1, <2>5, <3>1 DEF OpenObject
    <3>3. sim_map' = [n \in Names |-> run]
      BY <1>1, <2>5, <3>1, <3>2 DEF OpenObject
    <3>4. QED
      BY <1>1, <1>2, <3>1, <3>2, <3>3
  <2>6. CASE SizeObject("LINK", "size_link", "shm_mem_ready")
    BY <1>1, <1>2, <2>6 DEF SizeObject
  <2>7. QED
    BY <1>4, <2>1, <2>2, <2>3, <2>4, <2>5, <2>6 DEF CreateObjects
<1>5. CASE InitDevices \/ PostReady \/ PostClosing \/ WaitManager \/ CloseThreads \/ CloseDevices
  BY <1>3, <1>5 DEF InitDevices, PostReady, PostClosing, WaitManager, CloseThreads,
                    CloseDevices, up
<1>5a. ASSUME NEW s \in Semaphores, InitSemaphore(s) PROVE MapInv' /\ FreshObjects'
  <2>1. /\ mgr_pc' \in attached => mgr_pc \in attached
        /\ waiter' # "none" => waiter # "none"
    BY <1>5a DEF InitSemaphore, afterInit, attached, inWait
  <2>2. UNCHANGED <<run, sim_map, mgr_map, object>> /\ sim_pc \in up
        /\ sim_pc' \in up \ {"size_link"}
    BY <1>5a DEF InitSemaphore, up, nextInit, Semaphores
  <2>3. QED
    BY <1>1, <2>1, <2>2 DEF MapInv, FreshObjects, up, link, mgrLink, Names
<1>6. CASE DestroyObjects
  <2>1. CASE Destroy("PARKING", "destroy_parking", "destroy_link")
    BY <1>1, <1>2, <2>1
       DEF Destroy, HandshakeTypeOK, MapInv, FreshObjects, up, link, mgrLink, Names
  <2>2. CASE Destroy("LINK", "destroy_link", "stopped")
    <3>1. /\ sim_map' = [n \in Names |-> NoObject]
          /\ \A n \in Names : object'[n] # NoObject => object'[n] <= run
          /\ UNCHANGED <<run, mgr_pc, mgr_map, waiter>> /\ sim_pc' = "stopped"
      BY <1>1, <1>2, <2>2 DEF Destroy, HandshakeTypeOK, MapInv, Names
    <3>2. QED
      BY <1>1, <1>2, <3>1 DEF MapInv, FreshObjects, up, link, mgrLink, Names
  <2>3. QED
    BY <1>6, <2>1, <2>2 DEF DestroyObjects
<1>7. CASE Crash
  BY <1>1, <1>7 DEF Crash, MapInv, FreshObjects, up, link, mgrLink, Names
<1>8. CASE Restart
  <2>1. /\ run' = run + 1 /\ run + 1 \in Nat /\ sim_pc' = "start"
        /\ sim_map' = [n \in Names |-> NoObject]
        /\ UNCHANGED <<object, mgr_pc, mgr_map, waiter>>
    BY <1>1, <1>2, <1>8 DEF Restart, MapInv
  <2>2. \A n \in Names : object'[n] # NoObject => object'[n] <= run'
    <3>1. ASSUME NEW n \in Names, object'[n] # NoObject PROVE object'[n] <= run'
      <4>1. object[n] \in Nat /\ object[n] <= run
        BY <1>1, <2>1, <3>1, RunsAreNumbers DEF HandshakeTypeOK, MapInv
      <4>2. QED
        BY <1>2, <2>1, <4>1
    <3>2. QED
      BY <3>1
  <2>3. mgrLink \in 1..run => mgrLink' \in 1..run'
    BY <1>2, <2>1 DEF mgrLink
  <2>4. QED
    BY <1>1, <2>1, <2>2, <2>3 DEF MapInv, FreshObjects, up, link, Names
<1>9. CASE AttachObjects
  <2>1. CASE Attach("PARKING", "start", "attach_link")
    <3>1. mgrLink' = mgrLink
      BY <1>1, <2>1 DEF Attach, mgrLink, HandshakeTypeOK, Names
    <3>2. QED
      BY <1>1, <2>1, <3>1 DEF Attach, MapInv, FreshObjects, up, attached, inWait, link, mgrLink
  <2>2. CASE Attach("LINK", "attach_link", "waiting")
    <3>1. object["LINK"] # NoObject => object["LINK"] \in 1..run
      BY <1>1, <1>2, RunsAreNumbers DEF HandshakeTypeOK, MapInv, Names, Instances
    <3>2. mgr_pc' = "waiting" => mgrLink' \in 1..run
      BY <1>1, <2>2, <3>1 DEF Attach, mgrLink, HandshakeTypeOK, Names
    <3>3. QED
      BY <1>1, <2>2, <3>2 DEF Attach, MapInv, FreshObjects, up, attached, inWait, link, mgrLink
  <2>3. QED
    BY <1>9, <2>1, <2>2 DEF AttachObjects
<1>10. CASE WaitReady \/ PostLinked \/ PostFinished \/ WaitSimClose \/ JoinMonitors \/ Fault
  BY <1>1, <1>10 DEF WaitReady, PostLinked, PostFinished, WaitSimClose, JoinMonitors, Fault,
                     SemWait, MapInv, FreshObjects, up, attached, inWait, link, mgrLink
<1>11. CASE UNCHANGED handshakeVars
  BY <1>1, <1>11 DEF handshakeVars, MapInv, FreshObjects, up, link, mgrLink
<1>12. QED
  BY <1>4, <1>5, <1>5a, <1>6, <1>7, <1>8, <1>9, <1>10, <1>11 DEF HandshakeNext, Simulator, Manager

-----------------------------------------------------------------------------
(* A wait lowers a semaphore, a post raises one, and the rest stay. *)
LEMMA SemaphoreChange ==
  ASSUME HandshakeTypeOK, NEW i \in Instances, NEW s \in Semaphores, Wait(i, s) \/ Post(i, s)
  PROVE  /\ \A j \in Instances, t \in Semaphores :
              ~(j = i /\ t = s) => sem'[j][t] = sem[j][t]
         /\ Wait(i, s) => sem'[i][s] = sem[i][s] - 1 /\ sem[i][s] > 0
         /\ Post(i, s) => sem'[i][s] = sem[i][s] + 1
         /\ sem[i][s] \in Nat
BY DEF Wait, Post, HandshakeTypeOK, SEM_SHARED

(* Who has posted what: a semaphore is posted only on the way out of the   *)
(* places where PostInv bounds it, and waits only lower it.                *)
LEMMA PostStep == IInv /\ [HandshakeNext]_handshakeVars => PostInv'
<1> SUFFICES ASSUME IInv, [HandshakeNext]_handshakeVars PROVE PostInv'
  OBVIOUS
<1> USE DEF simVars, mgrVars, memVars
<1>1. HandshakeTypeOK /\ MapInv /\ PostInv
  BY DEF IInv
<1>2. /\ run \in Nat /\ run \in Instances /\ Instances \subseteq Nat
      /\ "shm_mem_ready" \in Semaphores /\ "manager_linked" \in Semaphores
      /\ "simulator_closing" \in Semaphores /\ "manager_finished" \in Semaphores
  BY <1>1, RunsAreNumbers DEF HandshakeTypeOK, Semaphores
<1>3. \A i \in Instances, s \in Semaphores : sem[i][s] \in Nat
  BY <1>1 DEF HandshakeTypeOK, SEM_SHARED
<1>a. sim_pc \in up => link = run
  BY <1>1 DEF MapInv, Names, link
<1>b. /\ mgr_pc \in attached
           => mgrLink \in Instances /\ mgrLink <= run
      /\ waiter # "none" => mgrLink \in Instances /\ mgrLink <= run
  BY <1>1, HandshakeAssumption DEF MapInv, HandshakeTypeOK, Instances
<1>4. ASSUME UNCHANGED <<run, sem>>,
             sim_pc' \in beforeReady => sim_pc \in beforeReady,
             sim_pc' \in beforeClosing => sim_pc \in beforeClosing,
             mgr_pc' \in beforeLinked => mgr_pc \in beforeLinked,
             mgr_pc' # "stopped" => mgr_pc # "stopped"
      PROVE  PostInv'
  BY <1>1, <1>4 DEF PostInv
<1>5. CASE CreateObjects \/ InitDevices \/ CloseThreads \/ CloseDevices \/ DestroyObjects
           \/ Crash \/ AttachObjects \/ JoinMonitors \/ Fault \/ UNCHANGED handshakeVars
  <2>1. CASE CreateObjects \/ InitDevices
    BY <1>4, <2>1
       DEF CreateObjects, UnlinkName, OpenObject, SizeObject, InitDevices,
           beforeReady, beforeClosing, initialising
  <2>2. CASE CloseThreads \/ CloseDevices \/ DestroyObjects \/ Crash
    BY <1>4, <2>2
       DEF CloseThreads, CloseDevices, DestroyObjects, Destroy, Crash,
           beforeReady, beforeClosing, initialising
  <2>3. CASE AttachObjects \/ JoinMonitors \/ Fault \/ UNCHANGED handshakeVars
    BY <1>4, <2>3 DEF AttachObjects, Attach, JoinMonitors, Fault, handshakeVars,
                      beforeLinked, inWait
  <2>4. QED
    BY <1>5, <2>1, <2>2, <2>3
<1>6. ASSUME NEW s \in Semaphores, InitSemaphore(s) PROVE PostInv'
  <2>1. link = run /\ sim_pc \in beforeReady /\ sim_pc \in beforeClosing
    BY <1>6, <1>a DEF InitSemaphore, up, beforeReady, beforeClosing, initialising, Semaphores
  <2>2. /\ sem'[run][s] = 1
        /\ \A j \in Instances, t \in Semaphores :
              ~(j = run /\ t = s) => sem'[j][t] = sem[j][t]
    BY <1>1, <1>2, <1>6, <2>1 DEF InitSemaphore, HandshakeTypeOK, SEM_SHARED
  <2>3. /\ UNCHANGED run
        /\ mgr_pc' \in beforeLinked => mgr_pc \in beforeLinked
        /\ mgr_pc' # "stopped" => mgr_pc # "stopped"
    BY <1>6 DEF InitSemaphore, afterInit, beforeLinked, inWait
  <2>4. \A j \in Instances, t \in Semaphores :
          sem[j][t] <= SEM_SHARED => sem'[j][t] <= SEM_SHARED
    <3>1. SUFFICES ASSUME NEW j \in Instances, NEW t \in Semaphores, sem[j][t] <= SEM_SHARED
                   PROVE  sem'[j][t] <= SEM_SHARED
      OBVIOUS
    <3>2. CASE j = run /\ t = s
      BY <2>2, <3>2 DEF SEM_SHARED
    <3>3. CASE ~(j = run /\ t = s)
      BY <2>2, <3>1, <3>3
    <3>4. QED
      BY <3>2, <3>3
  <2>5. \A j \in Instances : j > run' => \A t \in Semaphores : sem'[j][t] = 0
    BY <1>1, <1>2, <2>2, <2>3 DEF PostInv
  <2>6. /\ sem'[run']["shm_mem_ready"] <= SEM_SHARED
        /\ sem'[run']["simulator_closing"] <= SEM_SHARED
    BY <1>1, <1>2, <2>1, <2>3, <2>4 DEF PostInv
  <2>7. mgr_pc' \in beforeLinked
          => \A j \in Instances : sem'[j]["manager_linked"] <= SEM_SHARED
    BY <1>1, <1>2, <2>3, <2>4 DEF PostInv
  <2>8. mgr_pc' # "stopped" => \A j \in Instances : sem'[j]["manager_finished"] <= SEM_SHARED
    BY <1>1, <1>2, <2>3, <2>4 DEF PostInv
  <2>9. QED
    BY <2>5, <2>6, <2>7, <2>8 DEF PostInv
<1>post. ASSUME UNCHANGED <<run, mgr_pc>>,
                \A j \in Instances, t \in {"manager_linked", "manager_finished"} :
                  sem'[j][t] = sem[j][t],
                \A j \in Instances : j # run => \A t \in Semaphores : sem'[j][t] = sem[j][t],
                sim_pc' \in beforeReady => sem'[run]["shm_mem_ready"] <= SEM_SHARED,
                sim_pc' \in beforeClosing => sem'[run]["simulator_closing"] <= SEM_SHARED
         PROVE  PostInv'
  <2>1. \A j \in Instances : j > run' => \A t \in Semaphores : sem'[j][t] = 0
    BY <1>1, <1>2, <1>post DEF PostInv
  <2>2. mgr_pc' \in beforeLinked
          => \A j \in Instances : sem'[j]["manager_linked"] <= SEM_SHARED
    BY <1>1, <1>post DEF PostInv
  <2>3. mgr_pc' # "stopped" => \A j \in Instances : sem'[j]["manager_finished"] <= SEM_SHARED
    BY <1>1, <1>post DEF PostInv
  <2>4. QED
    BY <1>post, <2>1, <2>2, <2>3 DEF PostInv
<1>7. CASE PostReady \/ PostClosing
  <2>1. link = run /\ UNCHANGED <<run, mgr_pc>>
    BY <1>7, <1>a DEF PostReady, PostClosing, up
  <2>2. CASE PostReady
    <3>1. /\ sem'[run]["simulator_closing"] = sem[run]["simulator_closing"]
          /\ \A j \in Instances, t \in Semaphores \ {"shm_mem_ready"} :
               sem'[j][t] = sem[j][t]
          /\ \A j \in Instances : j # run => \A t \in Semaphores : sem'[j][t] = sem[j][t]
      BY <1>1, <1>2, <2>1, <2>2, SemaphoreChange DEF PostReady
    <3>2. /\ sim_pc \in beforeClosing
          /\ sim_pc' \notin beforeReady
      BY <2>2 DEF PostReady, beforeClosing, beforeReady, initialising
    <3>3. QED
      BY <1>1, <1>2, <1>post, <2>1, <3>1, <3>2 DEF PostInv
  <2>3. CASE PostClosing
    <3>1. /\ \A j \in Instances, t \in Semaphores \ {"simulator_closing"} :
               sem'[j][t] = sem[j][t]
          /\ \A j \in Instances : j # run => \A t \in Semaphores : sem'[j][t] = sem[j][t]
      BY <1>1, <1>2, <2>1, <2>3, SemaphoreChange DEF PostClosing
    <3>2. sim_pc' \notin beforeReady /\ sim_pc' \notin beforeClosing
      BY <2>3 DEF PostClosing, beforeClosing, beforeReady, initialising
    <3>3. QED
      BY <1>1, <1>2, <1>post, <2>1, <3>1, <3>2 DEF PostInv
  <2>4. QED
    BY <1>7, <2>2, <2>3
<1>8. ASSUME NEW i \in Instances, NEW s \in Semaphores, Wait(i, s), i <= run,
             UNCHANGED run, sim_pc' = sim_pc \/ sim_pc' = "close_threads",
             mgr_pc' = mgr_pc \/ (mgr_pc \in inWait /\ mgr_pc' = "post_linked")
      PROVE  PostInv'
  <2>1. \A j \in Instances, t \in Semaphores :
          sem'[j][t] <= sem[j][t] /\ (j > run => sem'[j][t] = sem[j][t])
    <3>1. SUFFICES ASSUME NEW j \in Instances, NEW t \in Semaphores
                   PROVE  sem'[j][t] <= sem[j][t] /\ (j > run => sem'[j][t] = sem[j][t])
      OBVIOUS
    <3>2. sem[j][t] \in Nat /\ j \in Nat /\ i \in Nat
      BY <1>2, <1>3
    <3>3. CASE j = i /\ t = s
      BY <1>1, <1>2, <1>8, <3>2, <3>3, SemaphoreChange
    <3>4. CASE ~(j = i /\ t = s)
      BY <1>1, <1>8, <3>2, <3>4, SemaphoreChange
    <3>5. QED
      BY <3>3, <3>4
  <2>2. \A j \in Instances, t \in Semaphores :
          sem[j][t] <= SEM_SHARED => sem'[j][t] <= SEM_SHARED
    BY <1>1, <1>2, <1>3, <1>8, <2>1, SemaphoreChange DEF SEM_SHARED
  <2>3. QED
    BY <1>1, <1>2, <1>8, <2>1, <2>2
       DEF PostInv, beforeReady, beforeClosing, initialising, beforeLinked, inWait
<1>9. CASE WaitManager \/ WaitReady \/ WaitSimClose
  <2>1. CASE WaitManager
    <3>1. link = run /\ run <= run
      BY <1>2, <1>a, <2>1 DEF WaitManager, up
    <3>2. QED
      BY <1>2, <1>8, <2>1, <3>1 DEF WaitManager
  <2>2. CASE (WaitReady \/ WaitSimClose) /\ UNCHANGED sem
    BY <1>4, <2>2 DEF WaitReady, WaitSimClose, SemWait, Wait, beforeLinked, inWait
  <2>3. CASE WaitReady /\ Wait(mgrLink, "shm_mem_ready") /\ mgr_pc \in inWait
             /\ mgr_pc' = "post_linked"
    BY <1>2, <1>8, <1>b, <2>3 DEF WaitReady, attached
  <2>4. CASE WaitSimClose /\ Wait(mgrLink, "simulator_closing") /\ waiter \in inWait
    BY <1>2, <1>8, <1>b, <2>4 DEF WaitSimClose, inWait
  <2>5. QED
    BY <1>9, <2>1, <2>2, <2>3, <2>4 DEF WaitReady, WaitSimClose, SemWait
<1>10. CASE Restart
  <2>1. run' = run + 1 /\ run' \in Instances /\ UNCHANGED <<sem, mgr_pc>>
    BY <1>2, <1>10, HandshakeAssumption DEF Restart, Instances
  <2>2. \A j \in Instances : j > run' => j > run
    BY <1>2, <2>1
  <2>3. \A t \in Semaphores : sem'[run'][t] <= SEM_SHARED
    BY <1>1, <1>2, <2>1 DEF PostInv, SEM_SHARED
  <2>4. QED
    BY <1>1, <1>2, <2>1, <2>2, <2>3 DEF PostInv
<1>11. ASSUME NEW s \in {"manager_linked", "manager_finished"}, Post(mgrLink, s),
              mgrLink \in Instances, mgrLink <= run, UNCHANGED <<run, sim_pc>>
       PROVE  /\ \A j \in Instances : j > run => \A t \in Semaphores : sem'[j][t] = 0
              /\ sim_pc' \in beforeReady => sem'[run]["shm_mem_ready"] <= SEM_SHARED
              /\ sim_pc' \in beforeClosing => sem'[run]["simulator_closing"] <= SEM_SHARED
              /\ \A j \in Instances, t \in Semaphores \ {s} : sem'[j][t] = sem[j][t]
  <2>1. s \in Semaphores
    BY DEF Semaphores
  <2>2. \A j \in Instances, t \in Semaphores :
          ~(j = mgrLink /\ t = s) => sem'[j][t] = sem[j][t]
    BY <1>1, <1>11, <2>1, SemaphoreChange
  <2>3. QED
    BY <1>1, <1>2, <1>11, <2>2 DEF PostInv
<1>12. CASE PostLinked \/ PostFinished
  BY <1>1, <1>2, <1>b, <1>11, <1>12
  DEF PostLinked, PostFinished, PostInv, attached, beforeLinked, inWait
<1>13. QED
  BY <1>5, <1>6, <1>7, <1>9, <1>10, <1>12 DEF HandshakeNext, Simulator, Manager

(* Only main's wait lowers manager_finished, and only on its way out. *)
LEMMA FinishedStep == IInv /\ [HandshakeNext]_handshakeVars => FinishedInv'
<1> SUFFICES ASSUME IInv, [HandshakeNext]_handshakeVars, sim_pc' \in served
             PROVE  sem'[run']["manager_finished"] > 0
  BY DEF FinishedInv
<1> USE DEF simVars, mgrVars, memVars
<1>1. HandshakeTypeOK /\ MapInv /\ (sim_pc \in served => sem[run]["manager_finished"] > 0)
  BY DEF IInv, FinishedInv
<1>2. /\ run \in Instances /\ sem[run]["manager_finished"] \in Nat
      /\ "shm_mem_ready" \in Semaphores /\ "manager_linked" \in Semaphores
      /\ "simulator_closing" \in Semaphores /\ "manager_finished" \in Semaphores
  BY <1>1 DEF HandshakeTypeOK, Semaphores, SEM_SHARED
<1>a. sim_pc \in up => link = run
  BY <1>1 DEF MapInv, Names, link
<1>b. mgr_pc \in attached \/ waiter # "none" => mgrLink \in Instances
  BY <1>1, HandshakeAssumption DEF MapInv, HandshakeTypeOK, Instances
<1>3. ASSUME UNCHANGED <<run, sem>>, sim_pc \in served PROVE sem'[run']["manager_finished"] > 0
  BY <1>1, <1>3
<1>4. ASSUME NEW i \in Instances, NEW s \in Semaphores, Wait(i, s) \/ Post(i, s),
             s = "manager_finished" => Post(i, s), UNCHANGED run, sim_pc \in served
      PROVE  sem'[run']["manager_finished"] > 0
  <2>1. CASE i = run /\ s = "manager_finished"
    BY <1>1, <1>2, <1>4, <2>1, SemaphoreChange
  <2>2. CASE ~(i = run /\ s = "manager_finished")
    BY <1>1, <1>2, <1>4, <2>2, SemaphoreChange
  <2>3. QED
    BY <2>1, <2>2
<1>5. CASE CreateObjects \/ CloseThreads \/ CloseDevices \/ DestroyObjects \/ Crash \/ Restart
           \/ WaitManager
  BY <1>5
     DEF CreateObjects, UnlinkName, OpenObject, SizeObject, CloseThreads, CloseDevices,
         DestroyObjects, Destroy, Crash, Restart, WaitManager, served
<1>6. CASE InitDevices \/ AttachObjects \/ JoinMonitors \/ Fault \/ UNCHANGED handshakeVars
  BY <1>3, <1>6 DEF InitDevices, AttachObjects, Attach, JoinMonitors, Fault, handshakeVars, served
<1>7. ASSUME NEW s \in Semaphores, InitSemaphore(s) PROVE sem'[run']["manager_finished"] > 0
  <2>1. s = "manager_finished"
    BY <1>7 DEF InitSemaphore, nextInit, served, Semaphores
  <2>2. link = run /\ UNCHANGED run
    BY <1>7, <1>a DEF InitSemaphore, up, Semaphores
  <2>3. QED
    BY <1>1, <1>2, <1>7, <2>1, <2>2 DEF InitSemaphore, HandshakeTypeOK, SEM_SHARED
<1>8. CASE PostReady \/ PostClosing
  BY <1>2, <1>4, <1>8, <1>a DEF PostReady, PostClosing, up, served
<1>9. CASE WaitReady \/ WaitSimClose
  <2>1. mgrLink \in Instances /\ UNCHANGED <<run, sim_pc>>
    BY <1>9, <1>b DEF WaitReady, WaitSimClose, SemWait, attached, inWait
  <2>2. CASE UNCHANGED sem
    BY <1>3, <2>1, <2>2
  <2>3. CASE Wait(mgrLink, "shm_mem_ready") \/ Wait(mgrLink, "simulator_closing")
    BY <1>2, <1>4, <2>1, <2>3
  <2>4. QED
    BY <1>9, <2>2, <2>3 DEF WaitReady, WaitSimClose, SemWait
<1>10. CASE PostLinked \/ PostFinished
  BY <1>2, <1>4, <1>10, <1>b DEF PostLinked, PostFinished, attached
<1>11. QED
  BY <1>5, <1>6, <1>7, <1>8, <1>9, <1>10 DEF HandshakeNext, Simulator, Manager

(* shm_mem_ready is above zero exactly from its sem_init to the one wait   *)
(* that takes it, so only before its sem_init can that wait block.         *)
LEMMA ReadyStep ==
  IInv /\ [HandshakeNext]_handshakeVars
    => ReadyInv' /\ ReadyIsInitialised' /\ LeftBehindOnlyEarly'
<1> SUFFICES ASSUME IInv, [HandshakeNext]_handshakeVars
             PROVE  ReadyInv' /\ ReadyIsInitialised' /\ LeftBehindOnlyEarly'
  OBVIOUS
<1> USE DEF simVars, mgrVars, memVars
<1> DEFINE Goal == ReadyInv' /\ ReadyIsInitialised' /\ LeftBehindOnlyEarly'
           ready(i) == sem[i]["shm_mem_ready"]
           early == {"start", "attach_link"} \cup inWait
           passed == {"post_linked", "monitoring", "post_finished"}
<1>1. /\ HandshakeTypeOK /\ MapInv /\ ReadyInv /\ ReadyIsInitialised /\ LeftBehindOnlyEarly
  BY DEF IInv
<1>2. /\ run \in Instances
      /\ "shm_mem_ready" \in Semaphores /\ "manager_linked" \in Semaphores
      /\ "simulator_closing" \in Semaphores /\ "manager_finished" \in Semaphores
      /\ \A i \in Instances : ready(i) \in Nat
  BY <1>1 DEF HandshakeTypeOK, Semaphores, SEM_SHARED
<1>a. sim_pc \in up => link = run
  BY <1>1 DEF MapInv, Names, link
<1>b. mgr_pc \in attached \/ waiter # "none" => mgrLink \in Instances
  BY <1>1, HandshakeAssumption DEF MapInv, HandshakeTypeOK, Instances
(* nothing but the places moves *)
<1>3. ASSUME UNCHANGED <<run, sem, inited>>, mgrLink' = mgrLink,
             sim_pc' \in initialising => sim_pc \in initialising,
             \/ mgr_pc' = mgr_pc
             \/ mgr_pc' \in passed /\ mgr_pc \in passed
             \/ mgr_pc' = "stopped"
      PROVE  Goal
  BY <1>1, <1>3 DEF ReadyInv, ReadyIsInitialised, LeftBehindOnlyEarly, inWait
<1>4. CASE CreateObjects \/ InitDevices \/ CloseThreads \/ CloseDevices \/ DestroyObjects
           \/ Crash \/ JoinMonitors \/ Fault \/ UNCHANGED handshakeVars
  <2>1. CASE CreateObjects \/ InitDevices
    BY <1>3, <2>1 DEF CreateObjects, UnlinkName, OpenObject, SizeObject, InitDevices,
                      initialising, mgrLink
  <2>2. CASE CloseThreads \/ CloseDevices \/ DestroyObjects \/ Crash
    BY <1>3, <2>2 DEF CloseThreads, CloseDevices, DestroyObjects, Destroy, Crash,
                      initialising, mgrLink
  <2>3. CASE JoinMonitors \/ Fault \/ UNCHANGED handshakeVars
    BY <1>3, <2>3 DEF JoinMonitors, Fault, handshakeVars, mgrLink
  <2>4. QED
    BY <1>4, <2>1, <2>2, <2>3
<1>5. CASE Restart
  <2>1. /\ UNCHANGED <<memVars, mgrVars>> /\ sim_pc' \notin initialising
    BY <1>5 DEF Restart, initialising
  <2>2. QED
    BY <1>1, <2>1 DEF ReadyInv, ReadyIsInitialised, LeftBehindOnlyEarly, mgrLink
<1>6. CASE AttachObjects
  <2>1. UNCHANGED <<simVars, memVars>> /\ mgr_pc \in {"start", "attach_link"}
    BY <1>6 DEF AttachObjects, Attach
  <2>2. mgr_pc' \in {"attach_link", "waiting", "stopped"}
    BY <1>6 DEF AttachObjects, Attach
  <2>3. mgr_pc' = "waiting" => mgrLink' \in Instances
    <3>1. mgr_pc' = "waiting" => object["LINK"] # NoObject /\ mgrLink' = object["LINK"]
      BY <1>1, <1>6 DEF AttachObjects, Attach, mgrLink, HandshakeTypeOK, Names
    <3>2. QED
      BY <1>1, <3>1 DEF HandshakeTypeOK, Names
  <2>4. ReadyInv'
    BY <1>1, <2>1, <2>2 DEF ReadyInv, inWait
  <2>5. ReadyIsInitialised' /\ LeftBehindOnlyEarly'
    BY <1>1, <2>1, <2>2, <2>3 DEF ReadyInv, ReadyIsInitialised, LeftBehindOnlyEarly, inWait
  <2>6. QED
    BY <2>4, <2>5
<1>7. ASSUME NEW s \in Semaphores, InitSemaphore(s) PROVE Goal
  <2>1. link = run /\ UNCHANGED <<run, mgr_map>> /\ mgrLink' = mgrLink
    BY <1>7, <1>a DEF InitSemaphore, up, Semaphores, mgrLink
  <2>2. /\ \A i \in Instances : i # run => inited'[i] = inited[i]
        /\ inited'[run] = inited[run] \cup {s}
    BY <1>1, <1>2, <1>7, <2>1 DEF InitSemaphore, HandshakeTypeOK
  <2>3. /\ \A i \in Instances :
             ~(i = run /\ s = "shm_mem_ready") => sem'[i]["shm_mem_ready"] = ready(i)
        /\ s = "shm_mem_ready" => sem'[run]["shm_mem_ready"] = 1
    BY <1>1, <1>2, <1>7, <2>1 DEF InitSemaphore, HandshakeTypeOK, SEM_SHARED
  <2>4. sim_pc' \in initialising => s = "shm_mem_ready" \/ sim_pc \in initialising
    BY <1>7 DEF InitSemaphore, initialising, Semaphores
  <2>5. /\ mgr_pc' \in early => mgr_pc \in early
        /\ mgr_pc' \in passed => mgr_pc \in passed
        /\ mgr_pc' \in inWait => mgr_pc \in inWait
        /\ mgr_pc' = "blocked" => mgr_pc = "blocked" /\ ~(s = "shm_mem_ready" /\ mgrLink = run)
    BY <1>7, <2>1 DEF InitSemaphore, afterInit, inWait
  <2>6. \A i \in Instances : "shm_mem_ready" \in inited'[i]
          => "shm_mem_ready" \in inited[i] \/ (i = run /\ s = "shm_mem_ready")
    BY <2>2
  <2>7. ReadyInv'
    BY <1>1, <1>2, <2>1, <2>2, <2>3, <2>4, <2>5, <2>6 DEF ReadyInv
  <2>8. mgr_pc \in passed \cup inWait => mgrLink \in Instances
    BY <1>b DEF attached
  <2>9. ReadyIsInitialised'
    BY <1>1, <2>1, <2>2, <2>5, <2>8 DEF ReadyIsInitialised
  <2>10. LeftBehindOnlyEarly'
    BY <1>1, <1>2, <2>1, <2>3, <2>5, <2>6, <2>8 DEF LeftBehindOnlyEarly
  <2>11. QED
    BY <2>7, <2>9, <2>10
(* a post, or a wait on another semaphore *)
<1>8. ASSUME NEW i \in Instances, NEW s \in Semaphores, Wait(i, s) \/ Post(i, s),
             s = "shm_mem_ready" => Post(i, s) /\ "shm_mem_ready" \in inited[i],
             UNCHANGED <<run, inited>>, mgrLink' = mgrLink,
             sim_pc' \in initialising => sim_pc \in initialising,
             \/ mgr_pc' = mgr_pc
             \/ mgr_pc' \in passed /\ mgr_pc \in passed
             \/ mgr_pc' = "stopped"
      PROVE  Goal
  <2>1. \A j \in Instances :
          \/ sem'[j]["shm_mem_ready"] = ready(j)
          \/ sem'[j]["shm_mem_ready"] > 0 /\ "shm_mem_ready" \in inited[j]
    <3>1. SUFFICES ASSUME NEW j \in Instances
                   PROVE  \/ sem'[j]["shm_mem_ready"] = ready(j)
                          \/ sem'[j]["shm_mem_ready"] > 0 /\ "shm_mem_ready" \in inited[j]
      OBVIOUS
    <3>2. CASE j = i /\ s = "shm_mem_ready"
      BY <1>1, <1>8, <3>2, SemaphoreChange
    <3>3. CASE ~(j = i /\ s = "shm_mem_ready")
      BY <1>1, <1>2, <1>8, <3>3, SemaphoreChange
    <3>4. QED
      BY <3>2, <3>3
  <2>2. mgr_pc \in passed \cup inWait => mgrLink \in Instances
    BY <1>b DEF attached
  <2>3. ReadyInv'
    BY <1>1, <1>8, <2>1 DEF ReadyInv, inWait
  <2>4. ReadyIsInitialised'
    BY <1>1, <1>8 DEF ReadyIsInitialised
  <2>5. LeftBehindOnlyEarly'
    BY <1>1, <1>8, <2>1, <2>2 DEF LeftBehindOnlyEarly, inWait
  <2>6. QED
    BY <2>3, <2>4, <2>5
<1>9. CASE PostReady \/ PostClosing \/ WaitManager
  <2>1. /\ link = run /\ UNCHANGED <<run, mgr_pc, inited>> /\ mgrLink' = mgrLink
        /\ sim_pc' \notin initialising
    BY <1>9, <1>a DEF PostReady, PostClosing, WaitManager, up, initialising, mgrLink
  <2>2. PostReady => "shm_mem_ready" \in inited[run]
    BY <1>1 DEF PostReady, ReadyInv, initialising
  <2>3. QED
    BY <1>2, <1>8, <1>9, <2>1, <2>2 DEF PostReady, PostClosing, WaitManager
<1>10. CASE PostLinked \/ PostFinished
  BY <1>2, <1>8, <1>10, <1>b DEF PostLinked, PostFinished, attached, mgrLink
<1>11. CASE WaitSimClose
  <2>1. mgrLink \in Instances /\ UNCHANGED <<run, sim_pc, mgr_pc, inited>> /\ mgrLink' = mgrLink
    BY <1>11, <1>b DEF WaitSimClose, SemWait, inWait, mgrLink
  <2>2. CASE UNCHANGED sem
    BY <1>3, <2>1, <2>2
  <2>3. CASE Wait(mgrLink, "simulator_closing")
    BY <1>2, <1>8, <2>1, <2>3
  <2>4. QED
    BY <1>11, <2>2, <2>3 DEF WaitSimClose, SemWait
<1>12. CASE WaitReady
  <2>1. /\ mgrLink \in Instances /\ UNCHANGED <<run, sim_pc, inited>> /\ mgrLink' = mgrLink
        /\ mgr_pc \in inWait
    BY <1>12, <1>b DEF WaitReady, SemWait, inWait, attached, mgrLink
  <2>2. CASE mgr_pc' = "blocked" /\ UNCHANGED sem /\ ready(mgrLink) = 0
    BY <1>1, <2>1, <2>2 DEF ReadyInv, ReadyIsInitialised, LeftBehindOnlyEarly, inWait
  <2>3. CASE mgr_pc' = "post_linked" /\ Wait(mgrLink, "shm_mem_ready")
    <3>1. "shm_mem_ready" \in inited[mgrLink]
      BY <1>1, <2>1, <2>3 DEF Wait, ReadyInv
    <3>2. \A j \in Instances : sem'[j]["shm_mem_ready"] > 0 => ready(j) > 0
      BY <1>1, <1>2, <2>1, <2>3, SemaphoreChange
    <3>3. QED
      BY <1>1, <2>1, <2>3, <3>1, <3>2 DEF ReadyInv, ReadyIsInitialised, LeftBehindOnlyEarly, inWait
  <2>4. QED
    BY <1>12, <2>2, <2>3 DEF WaitReady, SemWait
<1>13. QED
  BY <1>4, <1>5, <1>6, <1>7, <1>9, <1>10, <1>11, <1>12 DEF HandshakeNext, Simulator, Manager

-----------------------------------------------------------------------------
(* The inductive invariant holds in every state of every run. *)
THEOREM HandshakeInvariant == HandshakeSpec => []IInv
<1>1. IInv /\ [HandshakeNext]_handshakeVars => IInv'
  BY TypeStep, MapStep, PostStep, FinishedStep, ReadyStep DEF IInv
<1>2. QED
  BY InitIInv, <1>1, PTL DEF HandshakeSpec

(* Every variable keeps its type; no semaphore is posted without bound, in *)
(* however many runs.                                                      *)
THEOREM HandshakeTypes == HandshakeSpec => []HandshakeTypeOK
<1>1. IInv => HandshakeTypeOK
  BY DEF IInv
<1>2. QED
  BY HandshakeInvariant, <1>1, PTL

(* create_shared_object gives a run memory of its own, whatever the runs   *)
(* before it left behind.                                                  *)
THEOREM RunsHaveFreshObjects == HandshakeSpec => []FreshObjects
<1>1. IInv => FreshObjects
  BY DEF IInv
<1>2. QED
  BY HandshakeInvariant, <1>1, PTL

(* The manager passes shm_mem_ready only once it has been initialised,     *)
(* whichever run's memory it has mapped.                                   *)
THEOREM ManagerPassesInitialised == HandshakeSpec => []ReadyIsInitialised
<1>1. IInv => ReadyIsInitialised
  BY DEF IInv
<1>2. QED
  BY HandshakeInvariant, <1>1, PTL

(* Only a manager that blocked on shm_mem_ready before its sem_init can be *)
(* left behind by it.                                                      *)
THEOREM LateManagersPass == HandshakeSpec => []LeftBehindOnlyEarly
<1>1. IInv => LeftBehindOnlyEarly
  BY DEF IInv
<1>2. QED
  BY HandshakeInvariant, <1>1, PTL

(* main finds manager_finished above zero when it comes to wait for it, in *)
(* every run and whatever became of the manager.                           *)
THEOREM ClosingNeverWaits == HandshakeSpec => []ClosingPasses
<1>1. IInv => ClosingPasses
  BY DEF IInv, MapInv, FinishedInv, ClosingPasses, up, served, Names, link
<1>2. QED
  BY HandshakeInvariant, <1>1, PTL
=============================================================================

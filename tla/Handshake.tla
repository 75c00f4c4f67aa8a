------------------------------ MODULE Handshake ------------------------------
(***************************************************************************)
(* The life of the two shared memory objects, "PARKING" (the devices) and  *)
(* "LINK" (four semaphores), over several runs of the simulator and one of *)
(* the manager.  The simulator creates, initialises and destroys them      *)
(* (create_shared_object, shm_data_init, main and shm_data_close of        *)
(* car_park_simulator.c); the manager attaches to whatever the names refer *)
(* to (shared_mem_attach, main and wait_sim_close of car_park_manager.c).  *)
(*                                                                         *)
(* An object is an instance: shm_unlink takes a name off its instance,     *)
(* whose memory lives on for whoever has mapped it, and shm_open with      *)
(* O_CREAT makes one of length zero if the name has none.  The simulator   *)
(* may be killed between any two steps; its objects then keep their names. *)
(*                                                                         *)
(* A thread that blocks in sem_wait is counted in the semaphore.  sem_init *)
(* on it clears that count and wakes nobody (POSIX leaves it undefined),   *)
(* so whether that thread is ever woken is open: it is "forgotten".        *)
(***************************************************************************)
EXTENDS Naturals, FiniteSets

CONSTANTS
  MaxRuns,  \* bound on the runs of the simulator
  NoObject  \* a name that refers to nothing, or an object not opened

ASSUME HandshakeAssumption == MaxRuns \in Nat \ {0} /\ NoObject \notin Nat

Names == {"PARKING", "LINK"}
Semaphores == {"shm_mem_ready", "manager_linked", "simulator_closing",
               "manager_finished"}
(* An instance is known by the run that created it: a run creates one of each. *)
Instances == 1..MaxRuns

VARIABLES
  run,       \* the simulator's current run
  object,    \* what each name refers to
  sized,     \* per name, the instances that have got their length
  sem,       \* value of each semaphore of each LINK instance
  inited,    \* semaphores sem_init has been called on, per LINK instance
  devices,   \* "zero", "ready" or "destroyed", per PARKING instance
  sim_pc, sim_map,
  mgr_pc, mgr_map, mgr_quit,
  waiter     \* progress of wait_sim_close

simVars == <<run, sim_pc, sim_map>>
mgrVars == <<mgr_pc, mgr_map, mgr_quit, waiter>>
memVars == <<object, sized, sem, inited, devices>>
handshakeVars == <<simVars, mgrVars, memVars>>

SimPC == {"start", "open_parking", "size_parking", "unlink_link", "open_link",
          "size_link", "shm_mem_ready", "manager_linked", "simulator_closing",
          "manager_finished", "devices", "post_ready", "running", "wait_manager",
          "close_threads", "close_devices", "destroy_parking", "destroy_link", "stopped"}
(* Places in a sem_wait: called, counted as a waiter, and forgotten.       *)
inWait == {"waiting", "blocked", "forgotten"}
MgrPC == {"start", "attach_link", "post_linked", "monitoring", "post_finished",
          "stopped"} \cup inWait

SEM_SHARED == 1   \* passed to sem_init as the initial value

HandshakeInit ==
  /\ run = 1
  /\ object = [n \in Names |-> NoObject]
  /\ sized = [n \in Names |-> {}]
  /\ sem = [i \in Instances |-> [s \in Semaphores |-> 0]]
  /\ inited = [i \in Instances |-> {}]
  /\ devices = [i \in Instances |-> "zero"]
  /\ sim_pc = "start" /\ sim_map = [n \in Names |-> NoObject]
  /\ mgr_pc = "start" /\ mgr_map = [n \in Names |-> NoObject]
  /\ mgr_quit = FALSE /\ waiter = "none"

link == sim_map["LINK"]
mgrLink == mgr_map["LINK"]
Post(i, s) == sem' = [sem EXCEPT ![i][s] = @ + 1]
Wait(i, s) == sem[i][s] > 0 /\ sem' = [sem EXCEPT ![i][s] = @ - 1]

-----------------------------------------------------------------------------
(* A definition marked "Mutant" is a bug that could be made in place of the *)
(* definition after it; it is used only to show that a property notices.   *)

(* create_shared_object takes the name off a previous instance, ...        *)
UnlinkName(n, from, to) ==
  /\ sim_pc = from
  /\ object' = [object EXCEPT ![n] = NoObject]
  /\ sim_pc' = to
  /\ UNCHANGED <<run, sim_map, sized, sem, inited, devices, mgrVars>>

(* ... opens an instance, with O_CREAT and so a new one if there is none, ... *)
OpenObject(n, from, to) ==
  /\ sim_pc = from
  /\ object' = [object EXCEPT ![n] = IF @ = NoObject THEN run ELSE @]
  /\ sim_map' = [sim_map EXCEPT ![n] = object'[n]]
  /\ sim_pc' = to
  /\ UNCHANGED <<run, sized, sem, inited, devices, mgrVars>>

(* ... and gives it its length; mmap and the second attach follow.         *)
SizeObject(n, from, to) ==
  /\ sim_pc = from
  /\ sized' = [sized EXCEPT ![n] = @ \cup {sim_map[n]}]
  /\ sim_pc' = to
  /\ UNCHANGED <<run, sim_map, object, sem, inited, devices, mgrVars>>

(* Mutant: a previous instance is not unlinked. *)
CreateOverOld ==
  \/ OpenObject("PARKING", "start", "size_parking")
  \/ SizeObject("PARKING", "size_parking", "open_link")
  \/ OpenObject("LINK", "open_link", "size_link")
  \/ SizeObject("LINK", "size_link", "shm_mem_ready")

CreateObjects ==
  \/ UnlinkName("PARKING", "start", "open_parking")
  \/ OpenObject("PARKING", "open_parking", "size_parking")
  \/ SizeObject("PARKING", "size_parking", "unlink_link")
  \/ UnlinkName("LINK", "unlink_link", "open_link")
  \/ OpenObject("LINK", "open_link", "size_link")
  \/ SizeObject("LINK", "size_link", "shm_mem_ready")

nextInit == [s \in Semaphores |->
  CASE s = "shm_mem_ready" -> "manager_linked"
    [] s = "manager_linked" -> "simulator_closing"
    [] s = "simulator_closing" -> "manager_finished"
    [] s = "manager_finished" -> "devices"]

(* What sem_init of s makes of a thread of the manager that is at pc of    *)
(* its wait for the semaphore `awaited`.                                   *)
afterInit(pc, s, awaited) ==
  IF pc = "blocked" /\ s = awaited /\ mgrLink = link THEN "forgotten" ELSE pc

InitSemaphore(s) ==
  /\ sim_pc = s
  /\ sem' = [sem EXCEPT ![link][s] = SEM_SHARED]
  /\ inited' = [inited EXCEPT ![link] = @ \cup {s}]
  /\ mgr_pc' = afterInit(mgr_pc, s, "shm_mem_ready")
  /\ waiter' = afterInit(waiter, s, "simulator_closing")
  /\ sim_pc' = nextInit[s]
  /\ UNCHANGED <<run, sim_map, object, sized, devices, mgr_map, mgr_quit>>

InitDevices ==
  /\ sim_pc = "devices"
  /\ devices' = [devices EXCEPT ![sim_map["PARKING"]] = "ready"]
  /\ sim_pc' = "post_ready"
  /\ UNCHANGED <<run, sim_map, object, sized, sem, inited, mgrVars>>

(* Mutant: sem_wait where sem_post belongs. *)
TakeReady ==
  /\ sim_pc = "post_ready"
  /\ Wait(link, "shm_mem_ready")
  /\ sim_pc' = "running"
  /\ UNCHANGED <<run, sim_map, object, sized, inited, devices, mgrVars>>

PostReady ==
  /\ sim_pc = "post_ready"
  /\ Post(link, "shm_mem_ready")
  /\ sim_pc' = "running"
  /\ UNCHANGED <<run, sim_map, object, sized, inited, devices, mgrVars>>

(* main, once quit_sem is posted. *)
PostClosing ==
  /\ sim_pc = "running"
  /\ Post(link, "simulator_closing")
  /\ sim_pc' = "wait_manager"
  /\ UNCHANGED <<run, sim_map, object, sized, inited, devices, mgrVars>>

(* Mutant: sem_post where sem_wait belongs. *)
PostManager ==
  /\ sim_pc = "wait_manager"
  /\ Post(link, "manager_finished")
  /\ sim_pc' = "close_threads"
  /\ UNCHANGED <<run, sim_map, object, sized, inited, devices, mgrVars>>

WaitManager ==
  /\ sim_pc = "wait_manager"
  /\ Wait(link, "manager_finished")
  /\ sim_pc' = "close_threads"
  /\ UNCHANGED <<run, sim_map, object, sized, inited, devices, mgrVars>>

(* thread_pool_close and the joins of main, which touch none of this and   *)
(* may never return (CloseTerminates, ManagersReleased).                   *)
CloseThreads ==
  /\ sim_pc = "close_threads"
  /\ sim_pc' = "close_devices"
  /\ UNCHANGED <<run, sim_map, memVars, mgrVars>>

(* shm_data_close.  sem_destroy does nothing to a semaphore's value. *)
CloseDevices ==
  /\ sim_pc = "close_devices"
  /\ devices' = [devices EXCEPT ![sim_map["PARKING"]] = "destroyed"]
  /\ sim_pc' = "destroy_parking"
  /\ UNCHANGED <<run, sim_map, object, sized, sem, inited, mgrVars>>

(* destroy_shared_object frees the name and then unlinks it: what          *)
(* shm_unlink reads there may or may not still be the name.                *)
Destroy(n, from, to) ==
  /\ sim_pc = from
  /\ \E o \in {NoObject, object[n]} : object' = [object EXCEPT ![n] = o]
  /\ sim_map' = [sim_map EXCEPT ![n] = NoObject]
  /\ sim_pc' = to
  /\ UNCHANGED <<run, sized, sem, inited, devices, mgrVars>>

DestroyObjects ==
  \/ Destroy("PARKING", "destroy_parking", "destroy_link")
  \/ Destroy("LINK", "destroy_link", "stopped")

Simulator ==
  \/ CreateObjects \/ (\E s \in Semaphores : InitSemaphore(s)) \/ InitDevices
  \/ PostReady \/ PostClosing \/ WaitManager \/ CloseThreads \/ CloseDevices
  \/ DestroyObjects

(* The simulator is killed. *)
Crash ==
  /\ sim_pc \notin {"start", "stopped"}
  /\ sim_map' = [n \in Names |-> NoObject]
  /\ sim_pc' = "stopped"
  /\ UNCHANGED <<run, memVars, mgrVars>>

Restart ==
  /\ sim_pc = "stopped" /\ run < MaxRuns
  /\ run' = run + 1
  /\ sim_pc' = "start"
  /\ UNCHANGED <<sim_map, memVars, mgrVars>>

-----------------------------------------------------------------------------
(* shared_mem_attach in the manager: the program ends if there is no such  *)
(* object, and otherwise maps what the name refers to, new or left over.   *)
Attach(n, from, to) ==
  /\ mgr_pc = from
  /\ IF object[n] = NoObject
     THEN mgr_pc' = "stopped" /\ UNCHANGED mgr_map
     ELSE mgr_pc' = to /\ mgr_map' = [mgr_map EXCEPT ![n] = object[n]]
  /\ UNCHANGED <<simVars, memVars, mgr_quit, waiter>>

AttachObjects ==
  \/ Attach("PARKING", "start", "attach_link")
  \/ Attach("LINK", "attach_link", "waiting")

(* A step of a sem_wait in the manager, from place pc to pc1: it blocks    *)
(* when there is nothing to take, and takes one when there is; a forgotten *)
(* thread may sleep on all the same, as no step here is bound to happen.   *)
SemWait(pc, pc1, s, to) ==
  \/ /\ pc = "waiting" /\ sem[mgrLink][s] = 0
     /\ pc1 = "blocked" /\ UNCHANGED sem
  \/ /\ pc \in inWait
     /\ Wait(mgrLink, s)
     /\ pc1 = to

(* Mutant: the manager does not wait until the memory is ready. *)
SkipReady ==
  /\ mgr_pc = "waiting" /\ mgrLink \in sized["LINK"]
  /\ mgr_pc' = "post_linked"
  /\ UNCHANGED <<simVars, memVars, mgr_map, mgr_quit, waiter>>

WaitReady ==
  /\ mgrLink \in sized["LINK"]
  /\ SemWait(mgr_pc, mgr_pc', "shm_mem_ready", "post_linked")
  /\ UNCHANGED <<simVars, object, sized, inited, devices, mgr_map, mgr_quit, waiter>>

(* The manager touches an object that was attached before ftruncate and    *)
(* still has no length, and is killed by SIGBUS.                           *)
Fault ==
  /\ \/ mgr_pc = "waiting" /\ mgrLink \notin sized["LINK"]
     \/ mgr_pc = "monitoring" /\ mgr_map["PARKING"] \notin sized["PARKING"]
  /\ mgr_pc' = "stopped" /\ waiter' = "none"
  /\ UNCHANGED <<simVars, memVars, mgr_map, mgr_quit>>

(* Post manager_linked and start the threads. *)
PostLinked ==
  /\ mgr_pc = "post_linked"
  /\ Post(mgrLink, "manager_linked")
  /\ mgr_pc' = "monitoring"
  /\ waiter' = "waiting"
  /\ UNCHANGED <<simVars, object, sized, inited, devices, mgr_map, mgr_quit>>

(* Mutant: wait_sim_close waits on the wrong semaphore. *)
WaitOnFinished ==
  /\ SemWait(waiter, waiter', "manager_finished", "returned")
  /\ mgr_quit' = (mgr_quit \/ waiter' = "returned")
  /\ UNCHANGED <<simVars, object, sized, inited, devices, mgr_pc, mgr_map>>

WaitSimClose ==
  /\ SemWait(waiter, waiter', "simulator_closing", "returned")
  /\ mgr_quit' = (mgr_quit \/ waiter' = "returned")
  /\ UNCHANGED <<simVars, object, sized, inited, devices, mgr_pc, mgr_map>>

(* The display loop ends and the joins return; each monitor returns only   *)
(* after one more trigger of its sensor, so this step may never happen.    *)
JoinMonitors ==
  /\ mgr_pc = "monitoring"
  /\ mgr_quit /\ mgr_map["PARKING"] \in sized["PARKING"]
  /\ mgr_pc' = "post_finished"
  /\ UNCHANGED <<simVars, memVars, mgr_map, mgr_quit, waiter>>

PostFinished ==
  /\ mgr_pc = "post_finished"
  /\ Post(mgrLink, "manager_finished")
  /\ mgr_pc' = "stopped"
  /\ UNCHANGED <<simVars, object, sized, inited, devices, mgr_map, mgr_quit, waiter>>

Manager == AttachObjects \/ WaitReady \/ PostLinked \/ PostFinished \/ Fault

HandshakeNext == Simulator \/ Crash \/ Restart \/ Manager \/ WaitSimClose \/ JoinMonitors

HandshakeSpec == HandshakeInit /\ [][HandshakeNext]_handshakeVars

-----------------------------------------------------------------------------
(* The type of every variable; no semaphore is posted without bound. *)
HandshakeTypeOK ==
  /\ run \in Instances
  /\ object \in [Names -> Instances \cup {NoObject}]
  /\ sized \in [Names -> SUBSET Instances]
  /\ sem \in [Instances -> [Semaphores -> 0..SEM_SHARED + 1]]
  /\ inited \in [Instances -> SUBSET Semaphores]
  /\ devices \in [Instances -> {"zero", "ready", "destroyed"}]
  /\ sim_pc \in SimPC /\ mgr_pc \in MgrPC
  /\ sim_map \in [Names -> Instances \cup {NoObject}]
  /\ mgr_map \in [Names -> Instances \cup {NoObject}]
  /\ mgr_quit \in BOOLEAN /\ waiter \in {"none", "returned"} \cup inWait

(* A run of the simulator never works in memory of an earlier run, however *)
(* that run ended and whoever is still attached to it, and while it is up  *)
(* the names lead a manager to this run.                                   *)
FreshObjects ==
  /\ \A n \in Names : sim_map[n] \in {run, NoObject}
  /\ sim_pc \notin {"start", "open_parking", "size_parking", "unlink_link",
                    "open_link", "destroy_parking", "destroy_link", "stopped"}
       => object = sim_map

(* shm_mem_ready is real before the manager goes on: it passes its wait    *)
(* only after the simulator has called sem_init on that semaphore,         *)
(* although until then it waits on zero-filled memory.                     *)
ReadyIsInitialised ==
  mgr_pc \in {"post_linked", "monitoring", "post_finished"}
    => "shm_mem_ready" \in inited[mgrLink]

(* Only a manager that blocked before sem_init can be left behind: one     *)
(* that comes later, or has not blocked by then, finds shm_mem_ready above *)
(* zero for as long as it takes, even if the simulator dies meanwhile.     *)
LeftBehindOnlyEarly ==
  mgr_pc \in inWait /\ "shm_mem_ready" \in inited[mgrLink]
    => mgr_pc # "blocked" /\ sem[mgrLink]["shm_mem_ready"] > 0

(* main is never kept at its wait for the manager (line 749), whether or   *)
(* not a manager is there, and even if it was killed.                      *)
ClosingPasses == sim_pc = "wait_manager" => sem[link]["manager_finished"] > 0

(* "Wait for the simulator to signal that the shared memory is ready"      *)
(* (src/src/car_park_manager.c:293).                                       *)
ReadyMeansReady ==
  mgr_pc \in {"post_linked", "monitoring"} => devices[mgr_map["PARKING"]] # "zero"
=============================================================================

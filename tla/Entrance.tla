------------------------------- MODULE Entrance -------------------------------
(***************************************************************************)
(* One entrance of the car park, seen by both programs: a car of the       *)
(* simulator (lines 589-627 of car_park_simulator.c) triggers the license  *)
(* plate sensor, reads the information sign and waits for the boom gate;   *)
(* entrance_monitor of the manager (car_park_manager.c) reads the sensor,  *)
(* writes the sign and works the gate through manage_hardware.h.  They     *)
(* meet only in the shared memory of the three devices, each a mutex, a    *)
(* condition variable and a field.                                         *)
(*                                                                         *)
(* No wait of this code tests a predicate, and a signal that finds nobody  *)
(* waiting is lost.                                                        *)
(*                                                                         *)
(* The mutexes are created from an attribute object that is never          *)
(* initialised (car_park_simulator.c:146, :703), so their kind is any the  *)
(* build may find there.  Only bgate_mutex is ever locked twice by one     *)
(* thread, so only there does the kind matter.                             *)
(*                                                                         *)
(* Grain of atomicity: the sections of lplate_sensor_mutex and             *)
(* info_sign_mutex contain no wait but their own cond_wait and are single  *)
(* steps; a signal given after the unlock is a step of its own.            *)
(***************************************************************************)
EXTENDS Naturals, FiniteSets

CONSTANTS
  Cars,        \* cars that come to this entrance, named by their plates
  Authorised,  \* plates in vehicle_table
  NoCar        \* no plate, and nobody in the entrance

ASSUME EntranceAssumption ==
  /\ Authorised \subseteq Cars
  /\ NoCar \notin Cars /\ NoCar # "monitor"

VARIABLES
  occupant,      \* the car that holds occupy_mutex
  car_pc,        \* progress of each car
  answered,      \* history: the plate whose verdict each car read on the sign
  license_plate, \* the sensor
  display,       \* the sign: "digit" stands for any level
  shown_for,     \* history: the plate for which display was written
  bgate_state, bgate_owner, bgate_count, mutex_kind,
  mon_pc,        \* progress of entrance_monitor
  license,       \* its buffer
  quit,          \* of the manager
  spurious       \* history: has a wait returned without a signal?

carVars == <<occupant, car_pc, answered>>
signVars == <<display, shown_for>>
gateVars == <<bgate_state, bgate_owner, bgate_count>>
monVars == <<mon_pc, license>>
worldVars == <<mutex_kind, spurious>>
entranceVars == <<carVars, license_plate, signVars, gateVars, worldVars, monVars, quit>>

CarPC == {"outside", "trigger", "signal", "sign", "sign_wait", "sign_woken",
          "gate", "gate_wait", "gate_woken", "leave_in", "leave_out", "in", "away"}
MonPC == {"read", "lps_wait", "copy", "decide", "sign_signal", "admit",
          "open", "open_raise", "open_wait", "open_woken", "open_end",
          "close", "close_lower", "close_wait", "close_woken", "close_end", "unlock",
          "loop", "done"}
Kinds == {"normal", "recursive", "errorcheck"}
Verdicts == {"digit", "X", "F"}

(* Zero-filled shared memory: the gate's state 0 is C. *)
EntranceInit ==
  /\ occupant = NoCar
  /\ car_pc = [c \in Cars |-> "outside"]
  /\ answered = [c \in Cars |-> NoCar]
  /\ license_plate = NoCar
  /\ display = "blank" /\ shown_for = NoCar
  /\ bgate_state = "C" /\ bgate_owner = NoCar /\ bgate_count = 0
  /\ mutex_kind \in Kinds
  /\ mon_pc = "read" /\ license = NoCar
  /\ quit = FALSE
  /\ spurious = FALSE

(* A definition marked "Mutant" is a bug that could be made in place of the *)
(* definition after it; it is used only to show that a property notices.   *)

CarGoto(c, l) == car_pc' = [car_pc EXCEPT ![c] = l]
carsAt(l) == {c \in Cars : car_pc[c] = l}

-----------------------------------------------------------------------------
(* bgate_mutex.  A thread that locks it twice blocks, counts or is refused *)
(* with an error nobody looks at; unlocking what one does not own is       *)
(* refused.  The owner is a car or "monitor"; NoCar when free.             *)

LockGate(t) ==
  \/ /\ bgate_owner = NoCar
     /\ bgate_owner' = t /\ bgate_count' = 1
  \/ /\ bgate_owner = t
     /\ mutex_kind \in {"recursive", "errorcheck"}
     /\ bgate_count' = IF mutex_kind = "recursive" THEN bgate_count + 1 ELSE bgate_count
     /\ UNCHANGED bgate_owner

UnlockGate(t) ==
  IF bgate_owner # t THEN UNCHANGED <<bgate_owner, bgate_count>>
  ELSE /\ bgate_count' = bgate_count - 1
       /\ bgate_owner' = IF bgate_count = 1 THEN NoCar ELSE t

-----------------------------------------------------------------------------
(* car_simulation_loop, car c. *)

Arrive(c) ==
  /\ car_pc[c] = "outside"
  /\ occupant = NoCar
  /\ occupant' = c
  /\ CarGoto(c, "trigger")
  /\ UNCHANGED <<answered, license_plate, signVars, gateVars, worldVars, monVars, quit>>

(* lplate_sensor_trigger: write under the mutex, then signal. *)
Trigger(c) ==
  /\ car_pc[c] = "trigger"
  /\ license_plate' = c
  /\ CarGoto(c, "signal")
  /\ UNCHANGED <<occupant, answered, signVars, gateVars, worldVars, monVars, quit>>

SignalSensor(c) ==
  /\ car_pc[c] = "signal"
  /\ mon_pc' = IF mon_pc = "lps_wait" THEN "copy" ELSE mon_pc
  /\ CarGoto(c, "sign")
  /\ UNCHANGED <<occupant, answered, license_plate, signVars, gateVars, worldVars,
                 license, quit>>

(* Mutant: the sign is read without waiting for its update. *)
ReadSignAtOnce(c) ==
  /\ car_pc[c] = "sign"
  /\ CarGoto(c, "sign_woken")
  /\ UNCHANGED <<occupant, answered, license_plate, signVars, gateVars, worldVars,
                 monVars, quit>>

(* info_sign_read: wait first, copy the display once woken. *)
WaitSign(c) ==
  /\ car_pc[c] = "sign"
  /\ CarGoto(c, "sign_wait")
  /\ UNCHANGED <<occupant, answered, license_plate, signVars, gateVars, worldVars,
                 monVars, quit>>

(* Mutant: every car drives to the gate. *)
IgnoreSign(c) ==
  /\ car_pc[c] = "sign_woken"
  /\ answered' = [answered EXCEPT ![c] = shown_for]
  /\ CarGoto(c, "gate")
  /\ UNCHANGED <<occupant, license_plate, signVars, gateVars, worldVars, monVars, quit>>

CopySign(c) ==
  /\ car_pc[c] = "sign_woken"
  /\ answered' = [answered EXCEPT ![c] = shown_for]
  /\ CarGoto(c, IF display = "digit" THEN "gate" ELSE "leave_out")
  /\ UNCHANGED <<occupant, license_plate, signVars, gateVars, worldVars, monVars, quit>>

(* boom_gate_wait_open: lock and wait, then lock again and unlock. *)
WaitGate(c) ==
  /\ car_pc[c] = "gate"
  /\ bgate_owner = NoCar
  /\ CarGoto(c, "gate_wait")
  /\ UNCHANGED <<occupant, answered, license_plate, signVars, gateVars, worldVars,
                 monVars, quit>>

PassGate(c) ==
  /\ car_pc[c] = "gate_woken"
  /\ bgate_owner = NoCar
  /\ CarGoto(c, "leave_in")
  /\ UNCHANGED <<occupant, answered, license_plate, signVars, gateVars, worldVars,
                 monVars, quit>>

(* car_leave_entrance. *)
Leave(c) ==
  /\ car_pc[c] \in {"leave_in", "leave_out"}
  /\ occupant' = NoCar
  /\ CarGoto(c, IF car_pc[c] = "leave_in" THEN "in" ELSE "away")
  /\ UNCHANGED <<answered, license_plate, signVars, gateVars, worldVars, monVars, quit>>

Car(c) ==
  \/ Arrive(c) \/ Trigger(c) \/ SignalSensor(c) \/ WaitSign(c) \/ CopySign(c)
  \/ WaitGate(c) \/ PassGate(c) \/ Leave(c)

-----------------------------------------------------------------------------
(* entrance_monitor. *)

(* Mutant: the sensor is read without waiting for a trigger. *)
ReadSensorAtOnce ==
  /\ mon_pc = "read"
  /\ mon_pc' = "copy"
  /\ UNCHANGED <<carVars, license_plate, signVars, gateVars, worldVars, license, quit>>

(* lplate_sensor_read: wait first, copy the plate once woken. *)
WaitSensor ==
  /\ mon_pc = "read"
  /\ mon_pc' = "lps_wait"
  /\ UNCHANGED <<carVars, license_plate, signVars, gateVars, worldVars, license, quit>>

CopyPlate ==
  /\ mon_pc = "copy"
  /\ license' = license_plate
  /\ mon_pc' = "decide"
  /\ UNCHANGED <<carVars, license_plate, signVars, gateVars, worldVars, quit>>

(* Full, unauthorised or a level; info_sign_update writes it on the sign.  *)
(* Whether the park is full depends on the other monitors: any answer.     *)
(* The byte after the plate in the buffer is never written, so the lookup  *)
(* of an authorised plate may fail too.                                    *)
WriteSign ==
  /\ mon_pc = "decide"
  /\ \/ display' \in {"F", "X"}
     \/ license \in Authorised /\ display' = "digit"
  /\ shown_for' = license
  /\ mon_pc' = "sign_signal"
  /\ UNCHANGED <<carVars, license_plate, gateVars, worldVars, license, quit>>

(* pthread_cond_signal wakes one car waiting at the sign, if any. *)
SignalSign ==
  /\ mon_pc = "sign_signal"
  /\ IF carsAt("sign_wait") = {} THEN UNCHANGED car_pc
     ELSE \E c \in carsAt("sign_wait") : CarGoto(c, "sign_woken")
  /\ mon_pc' = IF display = "digit" THEN "admit" ELSE "loop"
  /\ UNCHANGED <<occupant, answered, license_plate, signVars, gateVars, worldVars,
                 license, quit>>

(* boom_gate_admit_one locks bgate_mutex and calls boom_gate_open and      *)
(* boom_gate_close, which lock it again.                                   *)
LockAdmit ==
  /\ mon_pc = "admit"
  /\ LockGate("monitor")
  /\ mon_pc' = "open"
  /\ UNCHANGED <<carVars, license_plate, signVars, bgate_state, worldVars, license, quit>>

(* boom_gate_open: lock, raise, signal, and wait for nobody in particular. *)
(* The waiter loses one level of the mutex.                                *)
LockOpen ==
  /\ mon_pc = "open"
  /\ LockGate("monitor")
  /\ mon_pc' = "open_raise"
  /\ UNCHANGED <<carVars, license_plate, signVars, bgate_state, worldVars, license, quit>>

Raise ==
  /\ mon_pc = "open_raise"
  /\ bgate_state' = "R"
  /\ IF carsAt("gate_wait") = {} THEN UNCHANGED car_pc
     ELSE \E c \in carsAt("gate_wait") : CarGoto(c, "gate_woken")
  /\ UnlockGate("monitor")
  /\ mon_pc' = "open_wait"
  /\ UNCHANGED <<occupant, answered, license_plate, signVars, worldVars, license, quit>>

(* The return from the wait locks the mutex again. *)
EndWait(from, to) ==
  /\ mon_pc = from
  /\ LockGate("monitor")
  /\ mon_pc' = to
  /\ UNCHANGED <<carVars, license_plate, signVars, bgate_state, worldVars, license, quit>>

Unlock(from, to) ==
  /\ mon_pc = from
  /\ UnlockGate("monitor")
  /\ mon_pc' = to
  /\ UNCHANGED <<carVars, license_plate, signVars, bgate_state, worldVars, license, quit>>

EndOpen == EndWait("open_woken", "open_end") \/ Unlock("open_end", "close")

(* boom_gate_close: lock, lower, wake every car, wait. *)
LockClose ==
  /\ mon_pc = "close"
  /\ LockGate("monitor")
  /\ mon_pc' = "close_lower"
  /\ UNCHANGED <<carVars, license_plate, signVars, bgate_state, worldVars, license, quit>>

Lower ==
  /\ mon_pc = "close_lower"
  /\ bgate_state' = "L"
  /\ car_pc' = [c \in Cars |-> IF car_pc[c] = "gate_wait" THEN "gate_woken" ELSE car_pc[c]]
  /\ UnlockGate("monitor")
  /\ mon_pc' = "close_wait"
  /\ UNCHANGED <<occupant, answered, license_plate, signVars, worldVars, license, quit>>

EndClose == EndWait("close_woken", "close_end") \/ Unlock("close_end", "unlock")

(* Mutant: boom_gate_admit_one forgets its own unlock. *)
EndAdmitLocked ==
  /\ mon_pc = "unlock"
  /\ mon_pc' = "loop"
  /\ UNCHANGED <<carVars, license_plate, signVars, gateVars, worldVars, license, quit>>

EndAdmit == Unlock("unlock", "loop")

TestQuit ==
  /\ mon_pc = "loop"
  /\ mon_pc' = IF quit THEN "done" ELSE "read"
  /\ UNCHANGED <<carVars, license_plate, signVars, gateVars, worldVars, license, quit>>

Monitor ==
  \/ WaitSensor \/ CopyPlate \/ WriteSign \/ SignalSign \/ LockAdmit
  \/ LockOpen \/ Raise \/ EndOpen \/ LockClose \/ Lower \/ EndClose \/ EndAdmit
  \/ TestQuit

(* wait_sim_close, at any time. *)
SimClosing ==
  /\ ~quit
  /\ quit' = TRUE
  /\ UNCHANGED <<carVars, license_plate, signVars, gateVars, worldVars, monVars>>

(* A wait returns though nobody signalled, which POSIX allows. *)
Woken == [l \in {"lps_wait", "open_wait", "close_wait", "sign_wait", "gate_wait"} |->
            CASE l = "lps_wait" -> "copy"
              [] l = "open_wait" -> "open_woken"
              [] l = "close_wait" -> "close_woken"
              [] l = "sign_wait" -> "sign_woken"
              [] l = "gate_wait" -> "gate_woken"]
SpuriousWakeup ==
  /\ spurious' = TRUE
  /\ \/ /\ mon_pc \in DOMAIN Woken
        /\ mon_pc' = Woken[mon_pc]
        /\ UNCHANGED car_pc
     \/ \E c \in Cars : /\ car_pc[c] \in DOMAIN Woken
                        /\ CarGoto(c, Woken[car_pc[c]])
                        /\ UNCHANGED mon_pc
  /\ UNCHANGED <<occupant, answered, license_plate, signVars, gateVars, mutex_kind,
                 license, quit>>

EntranceNext ==
  \/ \E c \in Cars : Car(c)
  \/ Monitor \/ SimClosing \/ SpuriousWakeup

EntranceSpec == EntranceInit /\ [][EntranceNext]_entranceVars

(* Every thread that can run does; nobody owes a new car or a wake-up. *)
EntranceFairness ==
  /\ WF_entranceVars(Monitor)
  /\ \A c \in Cars : WF_entranceVars(Car(c) /\ car_pc[c] # "outside")
EntranceFairSpec == EntranceSpec /\ EntranceFairness

-----------------------------------------------------------------------------
(* The type of every variable. *)
EntranceTypeOK ==
  /\ occupant \in Cars \cup {NoCar}
  /\ car_pc \in [Cars -> CarPC]
  /\ answered \in [Cars -> Cars \cup {NoCar}]
  /\ license_plate \in Cars \cup {NoCar}
  /\ display \in Verdicts \cup {"blank"}
  /\ shown_for \in Cars \cup {NoCar}
  /\ bgate_state \in {"C", "O", "R", "L"}
  /\ bgate_owner \in {"monitor", NoCar}
  /\ bgate_count \in 0..2 /\ (bgate_count = 0 <=> bgate_owner = NoCar)
  /\ mutex_kind \in Kinds
  /\ mon_pc \in MonPC
  /\ license \in Cars \cup {NoCar}
  /\ quit \in BOOLEAN /\ spurious \in BOOLEAN

(* The next three hold until a condition variable wakes somebody without a  *)
(* signal: sensor, sign and gate are three hand-overs without a predicate, *)
(* which only the order of the two programs keeps in step.                 *)

(* A car acts on the answer meant for it: the display it reads was written *)
(* for its own plate.                                                      *)
SignAnswersOwnCar == spurious \/ \A c \in Cars : answered[c] \in {NoCar, c}

(* The plate the monitor decides on belongs to the car that is still in    *)
(* the entrance.                                                           *)
MonitorServesOccupant ==
  spurious \/ mon_pc \notin {"decide", "sign_signal"} \/ license = occupant

(* While the monitor works the gate of an admitted car, no other car can   *)
(* take the gate's wake-up.                                                *)
GateWakesAdmittedCar ==
  \/ spurious
  \/ \A c \in carsAt("gate_wait") \cup carsAt("gate_woken") :
       license = c /\ display = "digit"

(* Whatever the kind of bgate_mutex, the monitor is back at its sensor     *)
(* only with the mutex fully released: the nested locks are balanced.      *)
GateReleased ==
  mon_pc \in {"read", "lps_wait", "copy", "decide", "sign_signal", "admit", "loop",
             "done"} => bgate_owner = NoCar

(* "Admit one car" and "Wait for boom gate to open"                        *)
(* (src/src/manage_hardware.h:59 and :77): the wait ends and               *)
(* boom_gate_open returns to boom_gate_admit_one.  Said only of a mutex    *)
(* that its owner may lock again: a normal one already stops the monitor   *)
(* at its second lock (line 69).                                           *)
AdmitReturns ==
  mutex_kind # "normal" /\ mon_pc = "open" ~> mon_pc = "close"
=============================================================================

------------------------------ MODULE Occupancy ------------------------------
(***************************************************************************)
(* What the manager of src/src/car_park_manager.c knows about the cars in  *)
(* the park: the entrance, exit and level monitors share                   *)
(* vehicle_counter_total, vehicle_counter_floor, vehicle_tracker and       *)
(* start_time without any lock, and learn about cars only through plate    *)
(* sensors that hold the last plate triggered.                             *)
(*                                                                         *)
(* Entrance models how one car and its entrance monitor find each other;   *)
(* here that is the one step Read, and the boom gates are a wait that may  *)
(* never end.  The monitors' loops also end after quit, which is a monitor *)
(* that takes no more steps.  revenue is not kept: it is only displayed.   *)
(*                                                                         *)
(* Grain of atomicity: one access to a shared variable per step.  ++ and   *)
(* -- of vehicle_counter_total load and store in two steps, since two      *)
(* threads may be at it; a floor's count has one writer.  A step may add   *)
(* accesses to what only its thread uses, or that commute with all others. *)
(***************************************************************************)
EXTENDS Integers, FiniteSets

CONSTANTS
  Cars, Entrances, Exits,
  NUM_LEVELS, FLOOR_CAPACITY,
  NumPlates,  \* lines of plates.txt
  NoCar

TOTAL_CAPACITY == FLOOR_CAPACITY * NUM_LEVELS

ASSUME OccupancyAssumption ==
  /\ IsFiniteSet(Cars) /\ NoCar \notin Cars
  /\ IsFiniteSet(Entrances) /\ Entrances # {} /\ IsFiniteSet(Exits)
  /\ NUM_LEVELS \in Nat \ {0} /\ FLOOR_CAPACITY \in Nat \ {0}
  /\ NumPlates \in 1..TOTAL_CAPACITY
  /\ (Exits \cup Entrances) \cap (-1..NUM_LEVELS - 1) = {}

Levels == 0..NUM_LEVELS - 1

(* lp_list gives the plate of line n the value n+1; a plate is its value.  *)
(* The arrays indexed by it end at TOTAL_CAPACITY - 1.                     *)
Plates == 1..NumPlates
inArray(v) == v < TOTAL_CAPACITY

None == -1   \* what has not been written, or is outside an array

VARIABLES
  \* the manager's shared variables
  vehicle_counter_total, vehicle_counter_floor, vehicle_tracker, start_time,
  \* the last car to trigger each level's and each exit's sensor
  sensor,
  \* the local variables of the monitors and the progress of the cars
  en, ex, lv, car,
  \* history: when each car was admitted, the most entrances that have been
  \* between test and count of the total at once, whether two monitors have
  \* been between load and store of it at once, whether the wait of a sensor has
  \* returned without a signal, and how often each level's sensor has been
  \* signalled and each level's count has been moved
  admitted, crowd, raced, spurious, signals, moves

levelVars == <<vehicle_counter_floor, vehicle_tracker>>
timeVars == <<start_time, admitted>>
moveVars == <<signals, moves>>
history == <<crowd, raced, spurious, moveVars>>
vars == <<vehicle_counter_total, levelVars, timeVars, sensor, en, ex, lv, car, history>>

(* car: the car at the sensor; scan: the loop variable of the floors;      *)
(* total: the total loaded but not yet stored                              *)
EnStates == [pc : {"read", "scan", "admit", "load", "store", "gate"},
             car : Cars \cup {NoCar}, scan : Levels, floor_signal : Levels \cup {None},
             total : Int]
(* start: the time of arrival that is billed *)
ExStates == [pc : {"read", "wait", "copy", "bill", "gate", "store"},
             car : Cars \cup {NoCar}, start : {None} \cup 0..Cardinality(Cars), total : Int]
(* track: the tracker's new value *)
LvStates == [pc : {"read", "wait", "copy", "count", "track"},
             car : Cars \cup {NoCar}, track : Levels]
(* place: the level or exit the car is at *)
CarStates == [stage : {"outside", "sign", "gate", "tell_level", "parked", "tell_exit", "over"},
              plate : Plates, place : Levels \cup Exits \cup {None}]

(* plate: any authorised plate for any car, whether or not another car has *)
(* it (generate_unique_license_plate tests that only under if(false)).     *)
Init ==
  /\ vehicle_counter_total = 0
  /\ vehicle_counter_floor = [l \in Levels |-> 0]
  /\ vehicle_tracker = [v \in Plates |-> 0]
  /\ start_time = [v \in Plates |-> 0]
  /\ sensor = [d \in Levels \cup Exits |-> NoCar]
  /\ en = [e \in Entrances |-> [pc |-> "read", car |-> NoCar, scan |-> 0,
                                floor_signal |-> None, total |-> 0]]
  /\ ex = [x \in Exits |-> [pc |-> "read", car |-> NoCar, start |-> 0, total |-> 0]]
  /\ lv = [l \in Levels |-> [pc |-> "read", car |-> NoCar, track |-> 0]]
  /\ \E plate \in [Cars -> Plates] :
       car = [c \in Cars |-> [stage |-> "outside", plate |-> plate[c], place |-> None]]
  /\ admitted = [c \in Cars |-> 0]
  /\ crowd = 0 /\ raced = FALSE /\ spurious = FALSE
  /\ signals = [l \in Levels |-> 0] /\ moves = [l \in Levels |-> 0]

-----------------------------------------------------------------------------
(* A definition marked "Mutant" is a bug that could be made in place of the *)
(* definition after it; it is used only to show that a property notices.   *)

CarGoto(c, s) == car' = [car EXCEPT ![c].stage = s]

(* Entrance monitors that have seen room and not yet counted their car,    *)
(* and monitors of either kind between load and store.                     *)
admitting == {e \in Entrances : en[e].pc \in {"scan", "admit", "load", "store"}}
storing == {e \in Entrances : en[e].pc = "store"} \cup {x \in Exits : ex[x].pc = "store"}

(* Mutant: one car more than there is space for. *)
roomForOneMore == vehicle_counter_total <= TOTAL_CAPACITY

hasSpace == vehicle_counter_total < TOTAL_CAPACITY

(* entrance_monitor: the plate of the next car, the test of the total, and *)
(* htab_find.  Every car has an authorised plate, but the terminator of    *)
(* the monitor's buffer is never written, so the lookup may fail.          *)
Read(e, c) ==
  /\ en[e].pc = "read" /\ car[c].stage = "outside" /\ hasSpace
  /\ en' = [en EXCEPT ![e].pc = "scan", ![e].car = c]
  /\ CarGoto(c, "sign")
  /\ crowd' = IF Cardinality(admitting) < crowd THEN crowd ELSE Cardinality(admitting) + 1
  /\ UNCHANGED <<vehicle_counter_total, levelVars, timeVars, sensor, ex, lv, raced, spurious, moveVars>>

(* 'F' for a full park, or 'X' for a plate that was not found. *)
TurnAway(e, c) ==
  /\ en[e].pc = "read" /\ car[c].stage = "outside"
  /\ CarGoto(c, "over")
  /\ UNCHANGED <<vehicle_counter_total, levelVars, timeVars, sensor, en, ex, lv, history>>

(* The loop over the floors, one floor a step.  When no floor has space,   *)
(* floor_signal stays what it was for an earlier car, or uninitialised.    *)
ScanFloor(e) ==
  LET i == en[e].scan
      found == vehicle_counter_floor[i] < FLOOR_CAPACITY
  IN /\ en[e].pc = "scan"
     /\ en' = IF ~found /\ i + 1 \in Levels THEN [en EXCEPT ![e].scan = i + 1]
              ELSE [en EXCEPT ![e].pc = "admit", ![e].scan = 0,
                              ![e].floor_signal = IF found THEN i ELSE @]
     /\ UNCHANGED <<vehicle_counter_total, levelVars, timeVars, sensor, ex, lv, car, history>>

-----------------------------------------------------------------------------
(* The time of the next admission of plate v.  Times are only compared for *)
(* one plate, so the admissions of each plate are numbered.                *)
now(v) == Cardinality({c \in Cars : car[c].plate = v /\ admitted[c] > 0}) + 1

(* info_sign_update: the car reads the level, or the garbage of an         *)
(* uninitialised floor_signal, which sends it to any level or away (or to  *)
(* a level there is not, which is left out).                               *)
showLevel(c, f) ==
  \/ \E l \in IF f = None THEN Levels ELSE {f} :
       car' = [car EXCEPT ![c].stage = "gate", ![c].place = l]
  \/ f = None /\ CarGoto(c, "over")

(* Mutant: the arrival time is kept only for the first car of a plate. *)
stampOnce(v) ==
  start_time' = IF inArray(v) /\ start_time[v] = 0
                THEN [start_time EXCEPT ![v] = now(v)] ELSE start_time

(* start_time[license_value], which for the last plate of a full file lies *)
(* outside the array and is lost.                                          *)
stamp(v) ==
  start_time' = IF inArray(v) THEN [start_time EXCEPT ![v] = now(v)] ELSE start_time

(* Show the level and store the time. *)
Admit(e) ==
  LET c == en[e].car IN
  /\ en[e].pc = "admit"
  /\ showLevel(c, en[e].floor_signal)
  /\ stamp(car[c].plate)
  /\ admitted' = [admitted EXCEPT ![c] = now(car[c].plate)]
  /\ en' = [en EXCEPT ![e].pc = "load"]
  /\ UNCHANGED <<vehicle_counter_total, levelVars, sensor, ex, lv, history>>

(* vehicle_counter_total++, and boom_gate_admit_one after the store. *)
LoadIn(e) ==
  /\ en[e].pc = "load"
  /\ en' = [en EXCEPT ![e].pc = "store", ![e].total = vehicle_counter_total]
  /\ raced' = (raced \/ storing # {})
  /\ UNCHANGED <<vehicle_counter_total, levelVars, timeVars, sensor, ex, lv, car, crowd, spurious,
                 moveVars>>

CountIn(e) ==
  /\ en[e].pc = "store"
  /\ vehicle_counter_total' = en[e].total + 1
  /\ en' = [en EXCEPT ![e].pc = "gate", ![e].total = 0]
  /\ UNCHANGED <<levelVars, timeVars, sensor, ex, lv, car, history>>

(* Nobody signals the end of the gate's waits; they may return spuriously. *)
EntranceGateReturns(e) ==
  /\ en[e].pc = "gate"
  /\ en' = [en EXCEPT ![e].pc = "read", ![e].car = NoCar]
  /\ UNCHANGED <<vehicle_counter_total, levelVars, timeVars, sensor, ex, lv, car, history>>

EntranceMonitor(e) ==
  \/ \E c \in Cars : Read(e, c) \/ TurnAway(e, c)
  \/ ScanFloor(e) \/ Admit(e) \/ LoadIn(e) \/ CountIn(e) \/ EntranceGateReturns(e)

-----------------------------------------------------------------------------
(* car_simulation_loop inside the park.  lplate_sensor_trigger writes the  *)
(* plate and then signals, outside the sensor's mutex.                     *)

(* Mutant: a car does not wait for the boom gate. *)
mayPass(c) == TRUE

(* The gate is raised for the car that waits at it. *)
gateRaised(c) == \E e \in Entrances : en[e].car = c /\ en[e].pc = "gate"

DriveIn(c) ==
  /\ car[c].stage = "gate" /\ gateRaised(c)
  /\ sensor' = [sensor EXCEPT ![car[c].place] = c]
  /\ CarGoto(c, "tell_level")
  /\ UNCHANGED <<vehicle_counter_total, levelVars, timeVars, en, ex, lv, history>>

signalled(pc) == IF pc = "wait" THEN "copy" ELSE pc

SignalLevel(c) ==
  /\ car[c].stage = "tell_level"
  /\ lv' = [lv EXCEPT ![car[c].place].pc = signalled(@)]
  /\ signals' = [signals EXCEPT ![car[c].place] = @ + 1]
  /\ CarGoto(c, "parked")
  /\ UNCHANGED <<vehicle_counter_total, levelVars, timeVars, sensor, en, ex, crowd, raced, spurious,
                 moves>>

(* A leaving car triggers the sensor of an exit, and of no level. *)
DriveOut(c) ==
  /\ car[c].stage = "parked"
  /\ \E x \in Exits : /\ sensor' = [sensor EXCEPT ![x] = c]
                      /\ car' = [car EXCEPT ![c].stage = "tell_exit", ![c].place = x]
  /\ UNCHANGED <<vehicle_counter_total, levelVars, timeVars, en, ex, lv, history>>

SignalExit(c) ==
  /\ car[c].stage = "tell_exit"
  /\ ex' = [ex EXCEPT ![car[c].place].pc = signalled(@)]
  /\ CarGoto(c, "over")
  /\ UNCHANGED <<vehicle_counter_total, levelVars, timeVars, sensor, en, lv, history>>

Car(c) == DriveIn(c) \/ SignalLevel(c) \/ DriveOut(c) \/ SignalExit(c)

-----------------------------------------------------------------------------
(* exit_monitor.  lplate_sensor_read waits, whatever was triggered before, *)
(* and copies the plate once signalled.                                    *)
WaitExit(x) ==
  /\ ex[x].pc = "read"
  /\ ex' = [ex EXCEPT ![x].pc = "wait"]
  /\ UNCHANGED <<vehicle_counter_total, levelVars, timeVars, sensor, en, lv, car, history>>

(* Copy the plate and look it up, which may fail here too. *)
ReadExit(x) ==
  /\ ex[x].pc = "copy"
  /\ \/ ex' = [ex EXCEPT ![x].pc = "bill", ![x].car = sensor[x]]
     \/ ex' = [ex EXCEPT ![x].pc = "read"]
  /\ UNCHANGED <<vehicle_counter_total, levelVars, timeVars, sensor, en, lv, car, history>>

(* Bill the time since start_time[license_value], anything outside the     *)
(* array, and call boom_gate_admit_one.                                    *)
Bill(x) ==
  LET v == car[ex[x].car].plate IN
  /\ ex[x].pc = "bill"
  /\ ex' = [ex EXCEPT ![x].pc = "gate", ![x].start = IF inArray(v) THEN start_time[v] ELSE None]
  /\ UNCHANGED <<vehicle_counter_total, levelVars, timeVars, sensor, en, lv, car, history>>

(* vehicle_counter_total--. *)
ExitGateReturns(x) ==
  /\ ex[x].pc = "gate"
  /\ ex' = [ex EXCEPT ![x] = [pc |-> "store", car |-> NoCar, start |-> 0,
                              total |-> vehicle_counter_total]]
  /\ raced' = (raced \/ storing # {})
  /\ UNCHANGED <<vehicle_counter_total, levelVars, timeVars, sensor, en, lv, car, crowd, spurious,
                 moveVars>>

CountOut(x) ==
  /\ ex[x].pc = "store"
  /\ vehicle_counter_total' = ex[x].total - 1
  /\ ex' = [ex EXCEPT ![x].pc = "read", ![x].total = 0]
  /\ UNCHANGED <<levelVars, timeVars, sensor, en, lv, car, history>>

ExitMonitor(x) ==
  WaitExit(x) \/ ReadExit(x) \/ Bill(x) \/ ExitGateReturns(x) \/ CountOut(x)

-----------------------------------------------------------------------------
(* lp_monitor of level l. *)

(* Mutant: the sensor is read again without waiting for a trigger. *)
ReadAgain(l) ==
  /\ lv[l].pc = "read" /\ sensor[l] # NoCar
  /\ lv' = [lv EXCEPT ![l].pc = "copy"]
  /\ UNCHANGED <<vehicle_counter_total, levelVars, timeVars, sensor, en, ex, car, history>>

WaitLevel(l) ==
  /\ lv[l].pc = "read"
  /\ lv' = [lv EXCEPT ![l].pc = "wait"]
  /\ UNCHANGED <<vehicle_counter_total, levelVars, timeVars, sensor, en, ex, car, history>>

CopyLevel(l) ==
  /\ lv[l].pc = "copy"
  /\ lv' = [lv EXCEPT ![l].pc = "count", ![l].car = sensor[l]]
  /\ UNCHANGED <<vehicle_counter_total, levelVars, timeVars, sensor, en, ex, car, history>>

(* Mutant: the tracker of a car that leaves is not what a car that enters  *)
(* is tested for.                                                          *)
clearedToNone == None

cleared == 0

(* A tracker of 0 means entering, which on level 0 is what it also means   *)
(* afterwards.  An index outside vehicle_tracker reads anything.           *)
CountLevel(l) ==
  LET v == car[lv[l].car].plate IN
  /\ lv[l].pc = "count"
  /\ \E entering \in IF inArray(v) THEN {vehicle_tracker[v] = 0} ELSE BOOLEAN :
       /\ vehicle_counter_floor' =
            [vehicle_counter_floor EXCEPT ![l] = @ + IF entering THEN 1 ELSE -1]
       /\ lv' = [lv EXCEPT ![l].pc = "track", ![l].track = IF entering THEN l ELSE cleared]
  /\ moves' = [moves EXCEPT ![l] = @ + 1]
  /\ UNCHANGED <<vehicle_counter_total, vehicle_tracker, timeVars, sensor, en, ex, car, crowd, raced,
                 spurious, signals>>

Track(l) ==
  LET v == car[lv[l].car].plate IN
  /\ lv[l].pc = "track"
  /\ vehicle_tracker' = IF inArray(v) THEN [vehicle_tracker EXCEPT ![v] = lv[l].track]
                        ELSE vehicle_tracker
  /\ lv' = [lv EXCEPT ![l] = [pc |-> "read", car |-> NoCar, track |-> 0]]
  /\ UNCHANGED <<vehicle_counter_total, vehicle_counter_floor, timeVars, sensor, en, ex, car,
                 history>>

LevelMonitor(l) == WaitLevel(l) \/ CopyLevel(l) \/ CountLevel(l) \/ Track(l)

(* A wait may return without a signal, and the last plate is read again. *)
SpuriousWakeup ==
  /\ ~spurious /\ spurious' = TRUE   \* bound: once
  /\ \/ \E x \in Exits : /\ ex[x].pc = "wait" /\ sensor[x] # NoCar
                        /\ ex' = [ex EXCEPT ![x].pc = "copy"] /\ UNCHANGED lv
     \/ \E l \in Levels : /\ lv[l].pc = "wait" /\ sensor[l] # NoCar
                         /\ lv' = [lv EXCEPT ![l].pc = "copy"] /\ UNCHANGED ex
  /\ UNCHANGED <<vehicle_counter_total, levelVars, timeVars, sensor, en, car, crowd, raced,
                 moveVars>>

Next ==
  \/ \E e \in Entrances : EntranceMonitor(e)
  \/ \E x \in Exits : ExitMonitor(x)
  \/ \E l \in Levels : LevelMonitor(l)
  \/ \E c \in Cars : Car(c)
  \/ SpuriousWakeup

Spec == Init /\ [][Next]_vars

-----------------------------------------------------------------------------
(* The type of every variable. *)
TypeOK ==
  /\ vehicle_counter_total \in Int
  /\ vehicle_counter_floor \in [Levels -> Int]
  /\ vehicle_tracker \in [Plates -> Levels]
  /\ start_time \in [Plates -> 0..Cardinality(Cars)]
  /\ sensor \in [Levels \cup Exits -> Cars \cup {NoCar}]
  /\ en \in [Entrances -> EnStates]
  /\ ex \in [Exits -> ExStates]
  /\ lv \in [Levels -> LvStates]
  /\ car \in [Cars -> CarStates]
  /\ admitted \in [Cars -> 0..Cardinality(Cars)]
  /\ crowd \in 0..Cardinality(Entrances) /\ raced \in BOOLEAN /\ spurious \in BOOLEAN
  /\ signals \in [Levels -> Nat] /\ moves \in [Levels -> Nat]

(* Until two monitors meet over the total, it covers the cars inside: a    *)
(* car is counted before its gate is raised, and each count down is due to *)
(* a trigger of its own, although a plate may be read twice and another    *)
(* never.  In particular the total is not negative.                        *)
inside == {c \in Cars : car[c].stage \in {"tell_level", "parked"}}
CountCoversCars == raced \/ spurious \/ Cardinality(inside) <= vehicle_counter_total

(* The test "Check if there is space in car park" and the increment are    *)
(* far apart.  Without a lost update the total passes the capacity only by *)
(* entrances that saw the same space, and so by less than the most of them *)
(* that were between test and increment together; a single one never       *)
(* overfills the park.                                                     *)
FullMeansFull ==
  raced \/ crowd = 0 \/ vehicle_counter_total < TOTAL_CAPACITY + crowd

(* A bill is never computed from the arrival of an earlier visit or from   *)
(* none: what exit_monitor reads from start_time was stored for this visit *)
(* (or, when another car with this plate is inside, for a later one).  The *)
(* plate whose value is TOTAL_CAPACITY has no element and is exempt.       *)
BillsThisVisit ==
  \A x \in Exits :
    LET c == ex[x].car IN
    ex[x].pc = "gate" /\ inArray(car[c].plate)
      => ex[x].start >= admitted[c] /\ admitted[c] > 0

(* A level's count has moved at most as often as the level's sensor was    *)
(* signalled, in lp_monitor of src/src/car_park_manager.c, although the    *)
(* sensor keeps its last plate for ever: a reader that did not wait would  *)
(* count a parked car in and out again.  A signal that finds the monitor   *)
(* elsewhere is lost and pays for no move, and the count is made of the    *)
(* moves alone.                                                            *)
MovesAreSignalled ==
  \A l \in Levels : /\ spurious \/ moves[l] <= signals[l]
                    /\ vehicle_counter_floor[l] \in -moves[l]..moves[l]

(* "Leave after finish parking, triggering level LPS and exit LPS"         *)
(* (src/src/car_park_simulator.c:620): a floor that all its cars have left *)
(* counts none of them.                                                    *)
FloorsEmptyAtEnd ==
  (/\ \A c \in Cars : car[c].stage = "over"
   /\ \A l \in Levels : lv[l].pc \in {"read", "wait"})
    => \A l \in Levels : vehicle_counter_floor[l] = 0
=============================================================================

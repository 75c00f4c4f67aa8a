--------------------------- MODULE OccupancyProofs ---------------------------
(***************************************************************************)
(* Proofs about what the manager knows about the cars in the park, for any *)
(* number of cars, entrances, exits and levels, and any capacity.  The     *)
(* inductive invariant IInv follows each car from its admission to the     *)
(* sensors it triggers, and weighs what the monitors have counted against  *)
(* the cars and triggers they have counted.                                *)
(***************************************************************************)
EXTENDS Occupancy, FiniteSetTheorems, TLAPS

(* Where a car is at each stage of its visit. *)
PlaceInv ==
  \A c \in Cars :
    /\ car[c].stage \in {"gate", "tell_level", "parked"} => car[c].place \in Levels
    /\ car[c].stage = "tell_exit" => car[c].place \in Exits
    /\ car[c].place \in Exits => car[c].stage \in {"tell_exit", "over"}

(* An entrance monitor has a car of its own from the sign to the gate, and *)
(* its car is admitted once, before it passes anything.                    *)
uncounted(c) == \E e \in Entrances : en[e].pc \in {"load", "store"} /\ en[e].car = c
passing(c) == car[c].stage \in {"tell_level", "parked", "tell_exit"} \/ car[c].place \in Exits
CarsAdmitted ==
  \A c \in Cars :
    /\ car[c].stage \in {"outside", "sign"} => admitted[c] = 0
    /\ car[c].stage = "gate" \/ passing(c) => admitted[c] > 0
    /\ passing(c) => ~uncounted(c)
CarsInHand ==
  \A e \in Entrances :
    /\ en[e].pc # "read" => en[e].car \in Cars /\ car[en[e].car].stage # "outside"
    /\ en[e].pc \in {"scan", "admit"} => car[en[e].car].stage = "sign"
    /\ en[e].pc \in {"load", "store"} => admitted[en[e].car] > 0
OneHandEach ==
  \A e, f \in Entrances :
    en[e].pc # "read" /\ en[f].pc # "read" /\ en[e].car = en[f].car => e = f
AdmitInv == CarsAdmitted /\ CarsInHand /\ OneHandEach

(* A sensor shows an admitted car once it has been triggered, and a        *)
(* monitor reads it only after that.                                       *)
SensorsShow ==
  /\ \A d \in Levels \cup Exits : sensor[d] # NoCar => admitted[sensor[d]] > 0
  /\ \A c \in Cars :
       car[c].stage \in {"tell_level", "tell_exit"} => sensor[car[c].place] # NoCar
LevelsRead ==
  \A l \in Levels : /\ lv[l].pc = "copy" => sensor[l] # NoCar
                    /\ lv[l].pc \in {"count", "track"} => lv[l].car \in Cars
ExitsRead ==
  \A x \in Exits :
    /\ ex[x].pc = "copy" => sensor[x] # NoCar
    /\ ex[x].pc \in {"bill", "gate"} => ex[x].car \in Cars /\ admitted[ex[x].car] > 0
SensorInv == SensorsShow /\ LevelsRead /\ ExitsRead

(* The time kept for a plate is that of its latest admission. *)
visits(v) == {c \in Cars : car[c].plate = v /\ admitted[c] > 0}
TimeInv ==
  \A c \in Cars : /\ admitted[c] <= Cardinality(visits(car[c].plate))
                  /\ admitted[c] > 0 /\ inArray(car[c].plate)
                       => start_time[car[c].plate] >= admitted[c]

(* A monitor alone between load and store has loaded the present total. *)
StoreInv ==
  /\ \A e \in Entrances : en[e].pc = "store" =>
       /\ en[e].total = vehicle_counter_total
       /\ \A f \in Entrances : en[f].pc = "store" => e = f
       /\ \A x \in Exits : ex[x].pc # "store"
  /\ \A x \in Exits : ex[x].pc = "store" =>
       /\ ex[x].total = vehicle_counter_total
       /\ \A y \in Exits : ex[y].pc = "store" => x = y

(* The cars that are still to be counted may pass the capacity together. *)
RoomInv == vehicle_counter_total + Cardinality(admitting) < TOTAL_CAPACITY + crowd

(* The total is at least the admitted cars that have been counted less the *)
(* triggers of exits that have been counted.                               *)
counted == {c \in Cars : admitted[c] > 0 /\ ~uncounted(c)}
left == {c \in Cars : car[c].place \in Exits /\ car[c].stage = "over"}
leaving == {x \in Exits : ex[x].pc \in {"copy", "bill", "gate", "store"}}
TotalInv ==
  vehicle_counter_total + Cardinality(left) >= Cardinality(counted) + Cardinality(leaving)

(* A level has counted at most the signals it got, and one more if it is   *)
(* about to count; its count is made of these moves.                       *)
pending(l) == IF lv[l].pc \in {"copy", "count"} THEN 1 ELSE 0
SignalInv == \A l \in Levels : moves[l] + pending(l) <= signals[l]
FloorInv == \A l \in Levels : vehicle_counter_floor[l] \in -moves[l]..moves[l]

IInv ==
  /\ TypeOK /\ PlaceInv /\ AdmitInv /\ SensorInv /\ TimeInv /\ BillsThisVisit
  /\ raced \/ (StoreInv /\ RoomInv)
  /\ raced \/ spurious \/ TotalInv
  /\ spurious \/ SignalInv
  /\ FloorInv
-----------------------------------------------------------------------------
(* The sets that are counted are finite, and counting is monotonic. *)
LEMMA FiniteCounts ==
  /\ IsFiniteSet(Cars) /\ Cardinality(Cars) \in Nat
  /\ \A S \in SUBSET Cars : IsFiniteSet(S) /\ Cardinality(S) \in Nat
  /\ \A S, T \in SUBSET Cars : S \subseteq T => Cardinality(S) <= Cardinality(T)
  /\ \A S \in SUBSET Entrances : IsFiniteSet(S) /\ Cardinality(S) \in Nat
  /\ \A S \in SUBSET Exits : IsFiniteSet(S) /\ Cardinality(S) \in Nat
<1>1. IsFiniteSet(Cars) /\ IsFiniteSet(Entrances) /\ IsFiniteSet(Exits)
  BY OccupancyAssumption
<1>2. \A S \in SUBSET Cars : IsFiniteSet(S) /\ Cardinality(S) \in Nat
  BY <1>1, FS_Subset, FS_CardinalityType
<1>3. ASSUME NEW S \in SUBSET Cars, NEW T \in SUBSET Cars, S \subseteq T
      PROVE  Cardinality(S) <= Cardinality(T)
  BY <1>2, <1>3, FS_Subset
<1>4. \A S \in SUBSET Entrances : IsFiniteSet(S) /\ Cardinality(S) \in Nat
  BY <1>1, FS_Subset, FS_CardinalityType
<1>5. \A S \in SUBSET Exits : IsFiniteSet(S) /\ Cardinality(S) \in Nat
  BY <1>1, FS_Subset, FS_CardinalityType
<1>6. QED
  BY <1>1, <1>2, <1>3, <1>4, <1>5, FS_CardinalityType

(* Adding a new element counts one more. *)
LEMMA CountOne ==
  ASSUME NEW S, NEW T, NEW x, IsFiniteSet(S), x \notin S, T = S \cup {x}
  PROVE  IsFiniteSet(T) /\ Cardinality(T) = Cardinality(S) + 1
BY FS_AddElement

(* Removing an element counts one less. *)
LEMMA CountOneLess ==
  ASSUME NEW S, NEW T, NEW x, IsFiniteSet(S), x \in S, T = S \ {x}
  PROVE  IsFiniteSet(T) /\ Cardinality(T) = Cardinality(S) - 1
BY FS_RemoveElement

(* What the constants say. *)
LEMMA ConstantFacts ==
  /\ TOTAL_CAPACITY \in Nat \ {0} /\ Levels \subseteq Nat /\ 0 \in Levels
  /\ Levels \cap Exits = {} /\ None \notin Levels
  /\ NoCar \notin Cars
<1>1. \A m, n \in Nat \ {0} : m * n \in Nat \ {0}
  OBVIOUS
<1>2. TOTAL_CAPACITY \in Nat \ {0}
  BY <1>1, OccupancyAssumption DEF TOTAL_CAPACITY
<1>3. Levels \subseteq Nat /\ 0 \in Levels /\ None \notin Levels
  BY OccupancyAssumption DEF Levels, None
<1>4. Levels \cap Exits = {} /\ NoCar \notin Cars
  BY OccupancyAssumption DEF Levels
<1>5. QED
  BY <1>2, <1>3, <1>4

(* A step of a car changes its own stage only. *)
LEMMA CarMoves ==
  ASSUME TypeOK, NEW c \in Cars, NEW s, CarGoto(c, s)
  PROVE  /\ car'[c].stage = s
         /\ \A d \in Cars : d # c => car'[d] = car[d]
         /\ \A d \in Cars : car'[d].place = car[d].place /\ car'[d].plate = car[d].plate
BY DEF TypeOK, CarStates, CarGoto

-----------------------------------------------------------------------------
(* What an entrance monitor leaves alone. *)
LEMMA EntranceLeaves ==
  ASSUME NEW e \in Entrances, EntranceMonitor(e)
  PROVE  UNCHANGED <<levelVars, sensor, ex, lv, spurious, moveVars>>
BY DEF EntranceMonitor, Read, TurnAway, ScanFloor, Admit, LoadIn, CountIn, EntranceGateReturns,
       history

(* What a car leaves alone. *)
LEMMA CarLeaves ==
  ASSUME NEW c \in Cars, Car(c)
  PROVE  /\ UNCHANGED <<vehicle_counter_total, levelVars, timeVars, en, crowd, raced, spurious, moves>>
         /\ SignalLevel(c) \/ UNCHANGED signals
BY DEF Car, DriveIn, SignalLevel, DriveOut, SignalExit, history, moveVars

(* What an exit monitor leaves alone. *)
LEMMA ExitLeaves ==
  ASSUME NEW x \in Exits, ExitMonitor(x)
  PROVE  UNCHANGED <<levelVars, timeVars, sensor, en, lv, car, crowd, spurious, moveVars>>
BY DEF ExitMonitor, WaitExit, ReadExit, Bill, ExitGateReturns, CountOut, history

(* What a level monitor leaves alone. *)
LEMMA LevelLeaves ==
  ASSUME NEW l \in Levels, LevelMonitor(l)
  PROVE  /\ UNCHANGED <<vehicle_counter_total, timeVars, sensor, en, ex, car, crowd, raced, spurious,
                        signals>>
         /\ CountLevel(l) \/ UNCHANGED <<vehicle_counter_floor, moves>>
BY DEF LevelMonitor, WaitLevel, CopyLevel, CountLevel, Track, levelVars, history, moveVars

(* What a wait that returns without a signal leaves alone. *)
LEMMA SpuriousLeaves ==
  SpuriousWakeup => UNCHANGED <<vehicle_counter_total, levelVars, timeVars, sensor, en, car,
                                crowd, raced, moveVars>>
BY DEF SpuriousWakeup

-----------------------------------------------------------------------------
(* The next admission of a plate has a number of its own. *)
LEMMA NowIsNext ==
  ASSUME TypeOK, AdmitInv, NEW e \in Entrances, en[e].pc = "admit"
  PROVE  LET c == en[e].car IN
         /\ c \in Cars /\ admitted[c] = 0 /\ car[c].stage = "sign"
         /\ now(car[c].plate) = Cardinality(visits(car[c].plate)) + 1
         /\ now(car[c].plate) \in 1..Cardinality(Cars)
<1> DEFINE c == en[e].car
<1> DEFINE V == visits(car[c].plate)
<1>1. c \in Cars /\ admitted[c] = 0 /\ car[c].stage = "sign"
  BY DEF AdmitInv, CarsInHand, CarsAdmitted
<1>2. now(car[c].plate) = Cardinality(V) + 1
  BY DEF now, visits
<1>3. V \subseteq Cars /\ c \notin V
  BY <1>1 DEF visits
<1>4. Cardinality(V) \in Nat /\ Cardinality(V \cup {c}) = Cardinality(V) + 1
  BY <1>3, FiniteCounts, CountOne
<1>5. Cardinality(V \cup {c}) <= Cardinality(Cars)
  <2>1. V \cup {c} \in SUBSET Cars /\ Cars \in SUBSET Cars
    BY <1>1, <1>3
  <2>2. QED
    BY <2>1, FiniteCounts
<1>6. QED
  BY <1>1, <1>2, <1>4, <1>5, FiniteCounts

(* Every value keeps its type. *)
LEMMA TypeStep ==
  ASSUME TypeOK, PlaceInv, AdmitInv, SensorInv, [Next]_vars
  PROVE  TypeOK'
<1> USE DEF levelVars, timeVars, moveVars, history
<1> DEFINE EnOK == en \in [Entrances -> EnStates]
           ExOK == ex \in [Exits -> ExStates]
           LvOK == lv \in [Levels -> LvStates]
           CarOK == car \in [Cars -> CarStates]
<1>0. EnOK /\ ExOK /\ LvOK /\ CarOK /\ vehicle_counter_total \in Int
  BY DEF TypeOK
<1>1. ASSUME NEW e \in Entrances, NEW c \in Cars, Read(e, c) PROVE TypeOK'
  <2>1. Cardinality(admitting) + 1 \in 0..Cardinality(Entrances)
    <3>1. admitting \in SUBSET Entrances /\ e \notin admitting
      BY <1>1 DEF Read, admitting
    <3>2. Cardinality(admitting) \in Nat /\ Cardinality(admitting \cup {e}) = Cardinality(admitting) + 1
      BY <3>1, FiniteCounts, CountOne
    <3>3. Cardinality(admitting \cup {e}) <= Cardinality(Entrances)
      BY <3>1, OccupancyAssumption, FS_Subset
    <3>4. Cardinality(Entrances) \in Nat
      BY OccupancyAssumption, FS_CardinalityType
    <3>5. QED
      BY <3>2, <3>3, <3>4
  <2>2. crowd' \in 0..Cardinality(Entrances)
    BY <1>1, <2>1 DEF Read, TypeOK
  <2>3. EnOK'
    BY ZenonT(30), <1>0, <1>1 DEF Read, EnStates
  <2>4. CarOK'
    BY <1>0, <1>1 DEF Read, CarGoto, CarStates
  <2>5. QED
    BY <1>1, <2>2, <2>3, <2>4 DEF Read, TypeOK
<1>2. ASSUME NEW e \in Entrances, NEW c \in Cars, TurnAway(e, c) PROVE TypeOK'
  <2>1. CarOK'
    BY <1>0, <1>2 DEF TurnAway, CarGoto, CarStates
  <2>2. QED
    BY <1>2, <2>1 DEF TurnAway, TypeOK
<1>3. ASSUME NEW e \in Entrances, ScanFloor(e) PROVE TypeOK'
  <2>1. EnOK'
    <3>1. en[e].scan \in Levels
      BY <1>0 DEF EnStates
    <3>2. \/ en[e].scan + 1 \in Levels /\ en' = [en EXCEPT ![e].scan = en[e].scan + 1]
          \/ \E f \in Levels \cup {en[e].floor_signal} :
               en' = [en EXCEPT ![e].pc = "admit", ![e].scan = 0, ![e].floor_signal = f]
      BY <1>3, <3>1 DEF ScanFloor
    <3>3. QED
      BY <1>0, <3>2, ConstantFacts DEF EnStates
  <2>2. QED
    BY <1>3, <2>1 DEF ScanFloor, TypeOK
<1>4. ASSUME NEW e \in Entrances, Admit(e) PROVE TypeOK'
  <2>1. /\ en[e].car \in Cars
        /\ now(car[en[e].car].plate) \in 1..Cardinality(Cars)
    BY <1>4, NowIsNext DEF Admit
  <2>2. admitted' \in [Cars -> 0..Cardinality(Cars)] /\ start_time' \in [Plates -> 0..Cardinality(Cars)]
    <3>1. car[en[e].car].plate \in Plates
      BY <1>0, <2>1 DEF CarStates
    <3>2. admitted' = [admitted EXCEPT ![en[e].car] = now(car[en[e].car].plate)]
      BY <1>4 DEF Admit
    <3>3. \/ start_time' = start_time
          \/ start_time' = [start_time EXCEPT ![car[en[e].car].plate] = now(car[en[e].car].plate)]
      BY <1>4 DEF Admit, stamp
    <3>4. QED
      BY <2>1, <3>1, <3>2, <3>3 DEF TypeOK
  <2>3. EnOK'
    BY <1>0, <1>4 DEF Admit, EnStates
  <2>4. CarOK'
    <3>1. en[e].floor_signal \in Levels \cup {None}
      BY <1>0 DEF EnStates
    <3>2. \/ CarGoto(en[e].car, "over")
          \/ \E l \in Levels : car' = [car EXCEPT ![en[e].car].stage = "gate",
                                                ![en[e].car].place = l]
      BY <1>4, <3>1 DEF Admit, showLevel
    <3>3. ASSUME NEW l \in Levels,
                 car' = [car EXCEPT ![en[e].car].stage = "gate", ![en[e].car].place = l]
          PROVE  CarOK'
      BY <1>0, <2>1, <3>3 DEF CarStates
    <3>4. CASE CarGoto(en[e].car, "over")
      BY <1>0, <2>1, <3>4 DEF CarGoto, CarStates
    <3>5. QED
      BY <3>2, <3>3, <3>4
  <2>5. QED
    BY <1>4, <2>2, <2>3, <2>4 DEF Admit, TypeOK
<1>5. ASSUME NEW e \in Entrances, LoadIn(e) PROVE TypeOK'
  <2>1. EnOK'
    <3>1. en' = [en EXCEPT ![e].pc = "store", ![e].total = vehicle_counter_total]
      BY <1>5 DEF LoadIn
    <3>2. QED
      BY ZenonT(30), <1>0, <3>1 DEF EnStates
  <2>2. raced' \in BOOLEAN
    BY <1>5, Zenon DEF LoadIn, TypeOK
  <2>3. QED
    BY <1>5, <2>1, <2>2 DEF LoadIn, TypeOK
<1>6. ASSUME NEW e \in Entrances, CountIn(e) PROVE TypeOK'
  <2>1. EnOK' /\ en[e].total \in Int
    <3>1. en' = [en EXCEPT ![e].pc = "gate", ![e].total = 0]
      BY <1>6 DEF CountIn
    <3>2. PICK t \in Int : en' = [en EXCEPT ![e].pc = "gate", ![e].total = t]
      BY <3>1, 0 \in Int
    <3>3. EnOK'
      BY ZenonT(30), <1>0, <3>2 DEF EnStates
    <3>4. QED
      BY <1>0, <3>3 DEF EnStates
  <2>2. QED
    BY <1>6, <2>1 DEF CountIn, TypeOK
<1>7. ASSUME NEW e \in Entrances, EntranceGateReturns(e) PROVE TypeOK'
  <2>1. EnOK'
    <3>1. en' = [en EXCEPT ![e].pc = "read", ![e].car = NoCar]
      BY <1>7 DEF EntranceGateReturns
    <3>2. QED
      BY ZenonT(30), <1>0, <3>1 DEF EnStates
  <2>2. QED
    BY <1>7, <2>1 DEF EntranceGateReturns, TypeOK
<1>8. ASSUME NEW x \in Exits, ExitMonitor(x) PROVE TypeOK'
  <2>1. ExOK' /\ ex[x].total \in Int
    <3>1. CASE WaitExit(x)
      BY <1>0, <3>1 DEF WaitExit, ExStates
    <3>2. CASE ReadExit(x)
      BY SMTT(30), <1>0, <3>2 DEF ReadExit, ExStates, TypeOK
    <3>3. CASE Bill(x)
      <4>1. car[ex[x].car].plate \in Plates
        BY <1>0, <3>3 DEF Bill, SensorInv, ExitsRead, CarStates
      <4>2. (IF inArray(car[ex[x].car].plate) THEN start_time[car[ex[x].car].plate] ELSE None)
              \in {None} \cup 0..Cardinality(Cars)
        BY <4>1 DEF TypeOK
      <4>3. PICK t \in {None} \cup 0..Cardinality(Cars) :
                ex' = [ex EXCEPT ![x].pc = "gate", ![x].start = t]
        BY <3>3, <4>2 DEF Bill
      <4>4. QED
        BY ZenonT(30), <1>0, <4>3 DEF ExStates
    <3>4. CASE ExitGateReturns(x)
      BY <1>0, <3>4, FiniteCounts DEF ExitGateReturns, ExStates, TypeOK
    <3>5. CASE CountOut(x)
      <4>1. ex' = [ex EXCEPT ![x].pc = "read", ![x].total = 0]
        BY <3>5 DEF CountOut
      <4>2. PICK t \in Int : ex' = [ex EXCEPT ![x].pc = "read", ![x].total = t]
        BY <4>1, 0 \in Int
      <4>3. ExOK'
        BY ZenonT(30), <1>0, <4>2 DEF ExStates
      <4>4. QED
        BY <1>0, <4>3 DEF ExStates
    <3>6. QED
      BY <1>8, <3>1, <3>2, <3>3, <3>4, <3>5 DEF ExitMonitor
  <2>2. vehicle_counter_total' \in Int
    BY <1>0, <1>8, <2>1 DEF ExitMonitor, WaitExit, ReadExit, Bill, ExitGateReturns, CountOut
  <2>3. raced' \in BOOLEAN
    <3>1. raced' = raced \/ raced' = (raced \/ storing # {})
      BY <1>8 DEF ExitMonitor, WaitExit, ReadExit, Bill, ExitGateReturns, CountOut
    <3>2. QED
      BY <3>1, Zenon DEF TypeOK
  <2>4. QED
    BY <1>8, <2>1, <2>2, <2>3, ExitLeaves DEF TypeOK
<1>9. ASSUME NEW l \in Levels, LevelMonitor(l) PROVE TypeOK'
  <2>1. LvOK' /\ lv[l].track \in Levels
    <3>1. CASE WaitLevel(l)
      BY <1>0, <3>1 DEF WaitLevel, LvStates
    <3>2. CASE CopyLevel(l)
      BY ZenonT(30), <1>0, <3>2 DEF CopyLevel, LvStates, TypeOK
    <3>3. CASE CountLevel(l)
      <4>1. PICK t \in Levels : lv' = [lv EXCEPT ![l].pc = "track", ![l].track = t]
        BY <3>3, ConstantFacts DEF CountLevel, cleared
      <4>2. LvOK
        BY <1>0
      <4>3. LvOK'
        BY <4>1, <4>2 DEF LvStates
      <4>4. QED
        BY <4>2, <4>3 DEF LvStates
    <3>4. CASE Track(l)
      BY <1>0, <3>4, ConstantFacts DEF Track, LvStates
    <3>5. QED
      BY <1>9, <3>1, <3>2, <3>3, <3>4 DEF LevelMonitor
  <2>2. vehicle_counter_floor' \in [Levels -> Int]
    BY <1>9 DEF LevelMonitor, WaitLevel, CopyLevel, CountLevel, Track, TypeOK
  <2>3. vehicle_tracker' \in [Plates -> Levels]
    BY <1>9, <2>1 DEF LevelMonitor, WaitLevel, CopyLevel, CountLevel, Track, TypeOK
  <2>4. moves' \in [Levels -> Nat]
    BY <1>9 DEF LevelMonitor, WaitLevel, CopyLevel, CountLevel, Track, TypeOK
  <2>5. QED
    BY <1>9, <2>1, <2>2, <2>3, <2>4, LevelLeaves DEF TypeOK
<1>10. ASSUME NEW c \in Cars, Car(c) PROVE TypeOK'
  <2>1. CarOK'
    BY <1>0, <1>10 DEF Car, DriveIn, SignalLevel, DriveOut, SignalExit, CarGoto, CarStates
  <2>2. LvOK'
    BY <1>0, <1>10 DEF Car, DriveIn, SignalLevel, DriveOut, SignalExit, signalled, LvStates
  <2>3. ExOK'
    BY <1>0, <1>10 DEF Car, DriveIn, SignalLevel, DriveOut, SignalExit, signalled, ExStates
  <2>4. sensor' \in [Levels \cup Exits -> Cars \cup {NoCar}]
    BY <1>10 DEF Car, DriveIn, SignalLevel, DriveOut, SignalExit, TypeOK
  <2>5. signals' \in [Levels -> Nat]
    BY <1>10 DEF Car, DriveIn, SignalLevel, DriveOut, SignalExit, TypeOK
  <2>6. QED
    BY <1>10, <2>1, <2>2, <2>3, <2>4, <2>5, CarLeaves DEF TypeOK
<1>11. CASE SpuriousWakeup
  <2>1. LvOK' /\ ExOK' /\ spurious' \in BOOLEAN
    BY <1>0, <1>11 DEF SpuriousWakeup, LvStates, ExStates
  <2>2. QED
    BY <1>11, <2>1, SpuriousLeaves DEF TypeOK
<1>12. CASE UNCHANGED vars
  BY <1>12 DEF vars, TypeOK
<1>13. QED
  BY <1>1, <1>2, <1>3, <1>4, <1>5, <1>6, <1>7, <1>8, <1>9, <1>10, <1>11, <1>12
  DEF Next, EntranceMonitor

-----------------------------------------------------------------------------
(* What the steps of an entrance monitor do to it and to its car. *)
LEMMA EntranceMoves ==
  ASSUME TypeOK, NEW e \in Entrances
  PROVE  /\ \A c \in Cars : Read(e, c) =>
              /\ en'[e].pc = "scan" /\ en'[e].car = c
              /\ \A f \in Entrances : f # e => en'[f] = en[f]
         /\ ScanFloor(e) =>
              /\ en'[e].pc \in {"scan", "admit"} /\ en'[e].car = en[e].car
              /\ \A f \in Entrances : f # e => en'[f] = en[f]
         /\ Admit(e) =>
              /\ en'[e].pc = "load" /\ en'[e].car = en[e].car
              /\ \A f \in Entrances : f # e => en'[f] = en[f]
         /\ LoadIn(e) =>
              /\ en'[e].pc = "store" /\ en'[e].car = en[e].car
              /\ en'[e].total = vehicle_counter_total
              /\ \A f \in Entrances : f # e => en'[f] = en[f]
         /\ CountIn(e) =>
              /\ en'[e].pc = "gate" /\ en'[e].car = en[e].car
              /\ \A f \in Entrances : f # e => en'[f] = en[f]
         /\ EntranceGateReturns(e) =>
              /\ en'[e].pc = "read"
              /\ \A f \in Entrances : f # e => en'[f] = en[f]
<1>0. en \in [Entrances -> EnStates]
  BY DEF TypeOK
<1>1. ASSUME NEW c \in Cars, Read(e, c)
      PROVE  /\ en'[e].pc = "scan" /\ en'[e].car = c
             /\ \A f \in Entrances : f # e => en'[f] = en[f]
  BY <1>0, <1>1 DEF Read, EnStates
<1>2. ASSUME ScanFloor(e)
      PROVE  /\ en'[e].pc \in {"scan", "admit"} /\ en'[e].car = en[e].car
             /\ \A f \in Entrances : f # e => en'[f] = en[f]
  BY <1>0, <1>2 DEF ScanFloor, EnStates
<1>3. ASSUME Admit(e)
      PROVE  /\ en'[e].pc = "load" /\ en'[e].car = en[e].car
             /\ \A f \in Entrances : f # e => en'[f] = en[f]
  BY <1>0, <1>3 DEF Admit, EnStates
<1>4. ASSUME LoadIn(e)
      PROVE  /\ en'[e].pc = "store" /\ en'[e].car = en[e].car
             /\ en'[e].total = vehicle_counter_total
             /\ \A f \in Entrances : f # e => en'[f] = en[f]
  BY <1>0, <1>4 DEF LoadIn, EnStates
<1>5. ASSUME CountIn(e)
      PROVE  /\ en'[e].pc = "gate" /\ en'[e].car = en[e].car
             /\ \A f \in Entrances : f # e => en'[f] = en[f]
  BY <1>0, <1>5 DEF CountIn, EnStates
<1>6. ASSUME EntranceGateReturns(e)
      PROVE  /\ en'[e].pc = "read"
             /\ \A f \in Entrances : f # e => en'[f] = en[f]
  BY <1>0, <1>6 DEF EntranceGateReturns, EnStates
<1>7. QED
  BY <1>1, <1>2, <1>3, <1>4, <1>5, <1>6

(* What the steps of an exit monitor do to it. *)
LEMMA ExitMoves ==
  ASSUME TypeOK, NEW x \in Exits
  PROVE  /\ ExitMonitor(x) => \A y \in Exits : y # x => ex'[y] = ex[y]
         /\ WaitExit(x) => ex'[x].pc = "wait"
         /\ ReadExit(x) => \/ ex'[x].pc = "bill" /\ ex'[x].car = sensor[x]
                           \/ ex'[x].pc = "read"
         /\ Bill(x) =>
              /\ ex'[x].pc = "gate" /\ ex'[x].car = ex[x].car
              /\ inArray(car[ex[x].car].plate) => ex'[x].start = start_time[car[ex[x].car].plate]
         /\ ExitGateReturns(x) => /\ ex'[x].pc = "store"
                                  /\ ex'[x].total = vehicle_counter_total
         /\ CountOut(x) => ex'[x].pc = "read"
<1>0. ex \in [Exits -> ExStates]
  BY DEF TypeOK
<1>1. ExitMonitor(x) => \A y \in Exits : y # x => ex'[y] = ex[y]
  BY <1>0 DEF ExitMonitor, WaitExit, ReadExit, Bill, ExitGateReturns, CountOut
<1>2. /\ WaitExit(x) => ex'[x].pc = "wait"
      /\ CountOut(x) => ex'[x].pc = "read"
  BY <1>0 DEF WaitExit, CountOut, ExStates
<1>3. ReadExit(x) => \/ ex'[x].pc = "bill" /\ ex'[x].car = sensor[x]
                     \/ ex'[x].pc = "read"
  BY <1>0 DEF ReadExit, ExStates
<1>4. ASSUME Bill(x)
      PROVE  /\ ex'[x].pc = "gate" /\ ex'[x].car = ex[x].car
             /\ inArray(car[ex[x].car].plate) => ex'[x].start = start_time[car[ex[x].car].plate]
  BY <1>0, <1>4 DEF Bill, ExStates
<1>5. ExitGateReturns(x) => ex'[x].pc = "store" /\ ex'[x].total = vehicle_counter_total
  BY <1>0 DEF ExitGateReturns
<1>6. QED
  BY <1>1, <1>2, <1>3, <1>4, <1>5

(* What the steps of a level monitor do to it. *)
LEMMA LevelMoves ==
  ASSUME TypeOK, NEW l \in Levels
  PROVE  /\ LevelMonitor(l) => \A m \in Levels : m # l => lv'[m] = lv[m]
         /\ WaitLevel(l) => lv'[l].pc = "wait"
         /\ CopyLevel(l) => lv'[l].pc = "count" /\ lv'[l].car = sensor[l]
         /\ CountLevel(l) => lv'[l].pc = "track" /\ lv'[l].car = lv[l].car
         /\ Track(l) => lv'[l].pc = "read"
<1>0. lv \in [Levels -> LvStates]
  BY DEF TypeOK
<1>1. LevelMonitor(l) => \A m \in Levels : m # l => lv'[m] = lv[m]
  BY <1>0 DEF LevelMonitor, WaitLevel, CopyLevel, CountLevel, Track
<1>2. WaitLevel(l) => lv'[l].pc = "wait"
  BY <1>0 DEF WaitLevel, LvStates
<1>3. CopyLevel(l) => lv'[l].pc = "count" /\ lv'[l].car = sensor[l]
  BY <1>0 DEF CopyLevel, LvStates
<1>4. CountLevel(l) => lv'[l].pc = "track" /\ lv'[l].car = lv[l].car
  BY <1>0 DEF CountLevel, LvStates
<1>5. Track(l) => lv'[l].pc = "read"
  BY <1>0 DEF Track
<1>6. QED
  BY <1>1, <1>2, <1>3, <1>4, <1>5

(* A signal moves the monitor that waits for it, and no other. *)
LEMMA Signals ==
  ASSUME TypeOK, PlaceInv, NEW c \in Cars
  PROVE  /\ SignalLevel(c) =>
              /\ lv'[car[c].place].pc \in {lv[car[c].place].pc, "copy"}
              /\ lv'[car[c].place].car = lv[car[c].place].car
              /\ lv'[car[c].place].pc # lv[car[c].place].pc => lv[car[c].place].pc = "wait"
              /\ \A m \in Levels : m # car[c].place => lv'[m] = lv[m]
         /\ SignalExit(c) =>
              /\ ex'[car[c].place].pc \in {ex[car[c].place].pc, "copy"}
              /\ ex'[car[c].place].car = ex[car[c].place].car
              /\ ex'[car[c].place].start = ex[car[c].place].start
              /\ ex'[car[c].place].total = ex[car[c].place].total
              /\ ex'[car[c].place].pc # ex[car[c].place].pc => ex[car[c].place].pc = "wait"
              /\ \A y \in Exits : y # car[c].place => ex'[y] = ex[y]
<1>0. lv \in [Levels -> LvStates] /\ ex \in [Exits -> ExStates]
  BY DEF TypeOK
<1>1. ASSUME SignalLevel(c)
      PROVE  /\ lv'[car[c].place].pc \in {lv[car[c].place].pc, "copy"}
             /\ lv'[car[c].place].car = lv[car[c].place].car
             /\ lv'[car[c].place].pc # lv[car[c].place].pc => lv[car[c].place].pc = "wait"
             /\ \A m \in Levels : m # car[c].place => lv'[m] = lv[m]
  <2>1. car[c].place \in Levels
    BY <1>1 DEF SignalLevel, PlaceInv
  <2>2. lv' = [lv EXCEPT ![car[c].place].pc = signalled(lv[car[c].place].pc)]
    BY <1>1 DEF SignalLevel
  <2>3. QED
    BY <1>0, <2>1, <2>2 DEF signalled, LvStates
<1>2. ASSUME SignalExit(c)
      PROVE  /\ ex'[car[c].place].pc \in {ex[car[c].place].pc, "copy"}
             /\ ex'[car[c].place].car = ex[car[c].place].car
             /\ ex'[car[c].place].start = ex[car[c].place].start
             /\ ex'[car[c].place].total = ex[car[c].place].total
             /\ ex'[car[c].place].pc # ex[car[c].place].pc => ex[car[c].place].pc = "wait"
             /\ \A y \in Exits : y # car[c].place => ex'[y] = ex[y]
  <2>1. car[c].place \in Exits
    BY <1>2 DEF SignalExit, PlaceInv
  <2>2. ex' = [ex EXCEPT ![car[c].place].pc = signalled(ex[car[c].place].pc)]
    BY <1>2 DEF SignalExit
  <2>3. QED
    BY <1>0, <2>1, <2>2 DEF signalled, ExStates
<1>3. QED
  BY <1>1, <1>2

(* What an admission does to the car and to its time. *)
LEMMA AdmitMoves ==
  ASSUME TypeOK, AdmitInv, NEW e \in Entrances, Admit(e)
  PROVE  LET c == en[e].car
             v == car[c].plate IN
         /\ \/ car'[c].stage = "gate" /\ car'[c].place \in Levels
            \/ car'[c].stage = "over" /\ car'[c].place = car[c].place
         /\ \A d \in Cars : d # c => car'[d] = car[d]
         /\ \A d \in Cars : car'[d].plate = car[d].plate
         /\ admitted' = [admitted EXCEPT ![c] = now(v)]
         /\ inArray(v) => start_time' = [start_time EXCEPT ![v] = now(v)]
         /\ ~inArray(v) => start_time' = start_time
<1> DEFINE c == en[e].car
           v == car[c].plate
<1>1. c \in Cars
  BY NowIsNext DEF Admit
<1>2. /\ admitted' = [admitted EXCEPT ![c] = now(v)]
      /\ inArray(v) => start_time' = [start_time EXCEPT ![v] = now(v)]
      /\ ~inArray(v) => start_time' = start_time
  BY DEF Admit, stamp
<1>3. CASE CarGoto(c, "over")
  BY <1>1, <1>2, <1>3, CarMoves
<1>4. ASSUME NEW l \in Levels, car' = [car EXCEPT ![c].stage = "gate", ![c].place = l]
      PROVE  /\ car'[c].stage = "gate" /\ car'[c].place \in Levels
             /\ \A d \in Cars : d # c => car'[d] = car[d]
             /\ \A d \in Cars : car'[d].plate = car[d].plate
  <2>1. car \in [Cars -> CarStates]
    BY DEF TypeOK
  <2>2. QED
    BY <1>1, <1>4, <2>1 DEF CarStates
<1>5. en[e].floor_signal \in Levels \cup {None}
  BY DEF TypeOK, EnStates
<1>6. \/ CarGoto(c, "over")
      \/ \E l \in Levels : car' = [car EXCEPT ![c].stage = "gate", ![c].place = l]
  BY <1>5 DEF Admit, showLevel
<1>7. QED
  BY <1>2, <1>3, <1>4, <1>6

(* A leaving car triggers the sensor of the exit it is at. *)
LEMMA DriveOutMoves ==
  ASSUME TypeOK, NEW c \in Cars, DriveOut(c)
  PROVE  \E x \in Exits :
           /\ car'[c].stage = "tell_exit" /\ car'[c].place = x
           /\ \A d \in Cars : d # c => car'[d] = car[d]
           /\ \A d \in Cars : car'[d].plate = car[d].plate
           /\ sensor' = [sensor EXCEPT ![x] = c]
<1>1. PICK x \in Exits : /\ sensor' = [sensor EXCEPT ![x] = c]
                         /\ car' = [car EXCEPT ![c].stage = "tell_exit", ![c].place = x]
  BY DEF DriveOut
<1>2. car \in [Cars -> CarStates]
  BY DEF TypeOK
<1>3. QED
  BY <1>1, <1>2 DEF CarStates

(* A car is where its stage says. *)
LEMMA PlaceStep ==
  ASSUME TypeOK, PlaceInv, AdmitInv, [Next]_vars
  PROVE  PlaceInv'
<1>1. ASSUME NEW e \in Entrances, NEW c \in Cars, Read(e, c) PROVE PlaceInv'
  BY <1>1, CarMoves, ConstantFacts DEF Read, PlaceInv
<1>2. ASSUME NEW e \in Entrances, NEW c \in Cars, TurnAway(e, c) PROVE PlaceInv'
  BY <1>2, CarMoves, ConstantFacts DEF TurnAway, PlaceInv
<1>3. ASSUME NEW e \in Entrances, Admit(e) PROVE PlaceInv'
  <2>1. en[e].car \in Cars /\ car[en[e].car].stage = "sign"
    BY <1>3, NowIsNext DEF Admit
  <2>2. QED
    BY <1>3, <2>1, AdmitMoves, ConstantFacts DEF PlaceInv
<1>4. ASSUME NEW c \in Cars, Car(c) PROVE PlaceInv'
  <2>1. CASE DriveIn(c)
    BY <2>1, CarMoves, ConstantFacts DEF DriveIn, PlaceInv
  <2>2. CASE SignalLevel(c)
    BY <2>2, CarMoves, ConstantFacts DEF SignalLevel, PlaceInv
  <2>3. CASE DriveOut(c)
    <3>1. PICK x \in Exits : /\ car'[c].stage = "tell_exit" /\ car'[c].place = x
                             /\ \A d \in Cars : d # c => car'[d] = car[d]
      BY <2>3, DriveOutMoves
    <3>2. QED
      BY <3>1, ConstantFacts DEF PlaceInv
  <2>4. CASE SignalExit(c)
    BY <2>4, CarMoves, ConstantFacts DEF SignalExit, PlaceInv
  <2>5. QED
    BY <1>4, <2>1, <2>2, <2>3, <2>4 DEF Car
<1>5. ASSUME UNCHANGED car PROVE PlaceInv'
  BY <1>5 DEF PlaceInv
<1>6. ASSUME NEW e \in Entrances, ScanFloor(e) \/ LoadIn(e) \/ CountIn(e) \/ EntranceGateReturns(e)
      PROVE  PlaceInv'
  BY <1>5, <1>6 DEF ScanFloor, LoadIn, CountIn, EntranceGateReturns
<1>7. QED
  BY <1>1, <1>2, <1>3, <1>4, <1>5, <1>6, ExitLeaves, LevelLeaves, SpuriousLeaves
  DEF Next, EntranceMonitor, vars

(* Every admitted car has an entrance monitor of its own. *)
LEMMA AdmitStep ==
  ASSUME TypeOK, PlaceInv, AdmitInv, [Next]_vars
  PROVE  AdmitInv'
<1> USE DEF AdmitInv, CarsAdmitted, CarsInHand, OneHandEach, passing, uncounted
<1>1. ASSUME NEW e \in Entrances, NEW c \in Cars, Read(e, c) PROVE AdmitInv'
  <2>1. /\ en[e].pc = "read" /\ car[c].stage = "outside" /\ CarGoto(c, "sign")
        /\ admitted' = admitted /\ car[c].place \notin Exits
    BY <1>1, ConstantFacts DEF Read, timeVars, PlaceInv
  <2>2. QED
    BY <1>1, <2>1, CarMoves, EntranceMoves
<1>2. ASSUME NEW e \in Entrances, NEW c \in Cars, TurnAway(e, c) PROVE AdmitInv'
  <2>1. /\ car[c].stage = "outside" /\ CarGoto(c, "over")
        /\ UNCHANGED <<admitted, en>> /\ car[c].place \notin Exits
    BY <1>2, ConstantFacts DEF TurnAway, timeVars, PlaceInv
  <2>2. QED
    BY <2>1, CarMoves
<1>3. ASSUME NEW e \in Entrances, Admit(e) PROVE AdmitInv'
  <2>1. /\ en[e].pc = "admit" /\ en[e].car \in Cars /\ admitted[en[e].car] = 0
        /\ car[en[e].car].stage = "sign" /\ car[en[e].car].place \notin Exits
        /\ now(car[en[e].car].plate) > 0
    BY <1>3, NowIsNext, ConstantFacts, FiniteCounts DEF Admit, PlaceInv
  <2>2. admitted'[en[e].car] > 0 /\ \A d \in Cars : d # en[e].car => admitted'[d] = admitted[d]
    BY <1>3, <2>1, AdmitMoves DEF TypeOK
  <2>3. QED
    BY <1>3, <2>1, <2>2, AdmitMoves, EntranceMoves, ConstantFacts
<1>4. ASSUME NEW e \in Entrances, ScanFloor(e) \/ LoadIn(e) \/ CountIn(e) \/ EntranceGateReturns(e)
      PROVE  AdmitInv'
  <2>1. UNCHANGED <<car, admitted>>
    BY <1>4 DEF ScanFloor, LoadIn, CountIn, EntranceGateReturns, timeVars
  <2>2. /\ \A f \in Entrances : f # e => en'[f] = en[f]
        /\ en[e].pc # "read"
        /\ en'[e].pc # "read" => en'[e].car = en[e].car
        /\ en'[e].pc \in {"scan", "admit"} => en[e].pc \in {"scan", "admit"}
        /\ en'[e].pc \in {"load", "store"} => en[e].pc \in {"load", "store"}
    BY <1>4, EntranceMoves DEF ScanFloor, LoadIn, CountIn, EntranceGateReturns
  <2>3. CarsAdmitted'
    BY <2>1, <2>2
  <2>4. CarsInHand'
    BY <2>1, <2>2
  <2>5. OneHandEach'
    BY <2>2
  <2>6. QED
    BY <2>3, <2>4, <2>5
<1>5. ASSUME NEW c \in Cars, Car(c) PROVE AdmitInv'
  <2>1. UNCHANGED <<en, admitted>>
    BY <1>5, CarLeaves DEF timeVars
  <2>2. CASE DriveIn(c)
    <3>1. admitted[c] > 0 /\ ~uncounted(c)
      BY <2>2 DEF DriveIn, gateRaised
    <3>2. QED
      BY <2>1, <2>2, <3>1, CarMoves DEF DriveIn
  <2>3. CASE SignalLevel(c)
    BY <2>1, <2>3, CarMoves DEF SignalLevel
  <2>4. CASE DriveOut(c)
    <3>1. PICK x \in Exits : /\ car'[c].stage = "tell_exit" /\ car'[c].place = x
                             /\ \A d \in Cars : d # c => car'[d] = car[d]
      BY <2>4, DriveOutMoves
    <3>2. car[c].stage = "parked"
      BY <2>4 DEF DriveOut
    <3>3. QED
      BY <2>1, <3>1, <3>2
  <2>5. CASE SignalExit(c)
    BY <2>1, <2>5, CarMoves DEF SignalExit
  <2>6. QED
    BY <1>5, <2>2, <2>3, <2>4, <2>5 DEF Car
<1>6. ASSUME UNCHANGED <<en, car, admitted>> PROVE AdmitInv'
  BY <1>6
<1>7. QED
  BY <1>1, <1>2, <1>3, <1>4, <1>5, <1>6, ExitLeaves, LevelLeaves, SpuriousLeaves
  DEF Next, EntranceMonitor, vars, timeVars

(* What a spurious wake-up does: one monitor that waits, and whose sensor  *)
(* has been triggered, goes on.                                            *)
LEMMA SpuriousMoves ==
  ASSUME TypeOK, SpuriousWakeup
  PROVE  /\ spurious' = TRUE
         /\ \A x \in Exits :
              \/ ex'[x] = ex[x]
              \/ ex[x].pc = "wait" /\ ex'[x].pc = "copy" /\ sensor[x] # NoCar
         /\ \A l \in Levels :
              \/ lv'[l] = lv[l]
              \/ lv[l].pc = "wait" /\ lv'[l].pc = "copy" /\ sensor[l] # NoCar
<1>1. lv \in [Levels -> LvStates] /\ ex \in [Exits -> ExStates]
  BY DEF TypeOK
<1>2. QED
  BY <1>1 DEF SpuriousWakeup, LvStates, ExStates

(* Monitors read only sensors that admitted cars have triggered. *)
LEMMA SensorStep ==
  ASSUME TypeOK, PlaceInv, AdmitInv, SensorInv, [Next]_vars
  PROVE  SensorInv'
<1> USE DEF SensorInv, SensorsShow, LevelsRead, ExitsRead
<1>1. /\ \A d \in Levels \cup Exits : sensor[d] # NoCar => sensor[d] \in Cars
      /\ sensor \in [Levels \cup Exits -> Cars \cup {NoCar}]
  BY DEF TypeOK
<1>2. ASSUME NEW e \in Entrances, EntranceMonitor(e) PROVE SensorInv'
  <2>1. UNCHANGED <<sensor, ex, lv>>
    BY <1>2, EntranceLeaves
  <2>2. \A d \in Cars : admitted[d] > 0 => admitted'[d] > 0
    <3>1. CASE Admit(e)
      <4>1. en[e].car \in Cars /\ now(car[en[e].car].plate) > 0
        BY <3>1, NowIsNext, FiniteCounts DEF Admit
      <4>2. QED
        BY <3>1, <4>1, AdmitMoves DEF TypeOK
    <3>2. CASE ~Admit(e)
      BY <1>2, <3>2 DEF EntranceMonitor, Read, TurnAway, ScanFloor, LoadIn, CountIn,
                        EntranceGateReturns, timeVars
    <3>3. QED
      BY <3>1, <3>2
  <2>3. \A d \in Cars : car'[d].stage \in {"tell_level", "tell_exit"} => car'[d] = car[d]
    <3>1. CASE Admit(e)
      <4>1. en[e].car \in Cars
        BY <3>1, NowIsNext DEF Admit
      <4>2. QED
        BY <3>1, <4>1, AdmitMoves
    <3>2. ASSUME NEW c \in Cars, Read(e, c) \/ TurnAway(e, c)
          PROVE  \A d \in Cars : car'[d].stage \in {"tell_level", "tell_exit"} => car'[d] = car[d]
      BY <3>2, CarMoves DEF Read, TurnAway
    <3>3. QED
      BY <1>2, <3>1, <3>2 DEF EntranceMonitor, ScanFloor, LoadIn, CountIn, EntranceGateReturns
  <2>4. QED
    BY <1>1, <2>1, <2>2, <2>3
<1>3. ASSUME NEW x \in Exits, ExitMonitor(x) PROVE SensorInv'
  <2>1. UNCHANGED <<sensor, admitted, lv, car>>
    BY <1>3, ExitLeaves DEF timeVars
  <2>2. \A y \in Exits : y # x => ex'[y] = ex[y]
    BY <1>3, ExitMoves
  <2>3. CASE ReadExit(x)
    <3>1. /\ ex[x].pc = "copy"
          /\ \/ ex'[x].pc = "bill" /\ ex'[x].car = sensor[x]
             \/ ex'[x].pc = "read"
      BY <2>3, ExitMoves DEF ReadExit
    <3>2. QED
      BY <1>1, <2>1, <2>2, <3>1
  <2>4. CASE Bill(x)
    <3>1. ex[x].pc = "bill" /\ ex'[x].pc = "gate" /\ ex'[x].car = ex[x].car
      BY <2>4, ExitMoves DEF Bill
    <3>2. QED
      BY <2>1, <2>2, <3>1
  <2>5. CASE WaitExit(x) \/ ExitGateReturns(x) \/ CountOut(x)
    <3>1. ex'[x].pc \in {"wait", "store", "read"}
      BY <2>5, ExitMoves
    <3>2. QED
      BY <2>1, <2>2, <3>1
  <2>6. QED
    BY <1>3, <2>3, <2>4, <2>5 DEF ExitMonitor
<1>4. ASSUME NEW l \in Levels, LevelMonitor(l) PROVE SensorInv'
  <2>1. UNCHANGED <<sensor, admitted, ex, car>>
    BY <1>4, LevelLeaves DEF timeVars
  <2>2. \A m \in Levels : m # l => lv'[m] = lv[m]
    BY <1>4, LevelMoves
  <2>3. CASE CopyLevel(l)
    <3>1. lv[l].pc = "copy" /\ lv'[l].pc = "count" /\ lv'[l].car = sensor[l]
      BY <2>3, LevelMoves DEF CopyLevel
    <3>2. QED
      BY <1>1, <2>1, <2>2, <3>1
  <2>4. CASE CountLevel(l)
    <3>1. lv[l].pc = "count" /\ lv'[l].pc = "track" /\ lv'[l].car = lv[l].car
      BY <2>4, LevelMoves DEF CountLevel
    <3>2. QED
      BY <2>1, <2>2, <3>1
  <2>5. CASE WaitLevel(l) \/ Track(l)
    <3>1. lv'[l].pc \in {"wait", "read"}
      BY <2>5, LevelMoves
    <3>2. QED
      BY <2>1, <2>2, <3>1
  <2>6. QED
    BY <1>4, <2>3, <2>4, <2>5 DEF LevelMonitor
<1>5. ASSUME NEW c \in Cars, Car(c) PROVE SensorInv'
  <2>1. UNCHANGED admitted /\ c # NoCar
    BY <1>5, CarLeaves, ConstantFacts DEF timeVars
  <2>2. CASE DriveIn(c)
    <3>1. /\ car[c].place \in Levels /\ admitted[c] > 0 /\ CarGoto(c, "tell_level")
          /\ sensor' = [sensor EXCEPT ![car[c].place] = c] /\ UNCHANGED <<ex, lv>>
      BY <2>2 DEF DriveIn, PlaceInv, AdmitInv, CarsAdmitted
    <3>2. sensor'[car[c].place] = c /\ \A d \in Levels \cup Exits : d # car[c].place => sensor'[d] = sensor[d]
      BY <1>1, <3>1
    <3>3. QED
      BY <2>1, <3>1, <3>2, CarMoves
  <2>3. CASE SignalLevel(c)
    <3>1. /\ car[c].stage = "tell_level" /\ car[c].place \in Levels
          /\ CarGoto(c, "parked") /\ UNCHANGED <<sensor, ex>>
      BY <2>3 DEF SignalLevel, PlaceInv
    <3>2. LevelsRead'
      BY <2>3, <3>1, Signals
    <3>3. QED
      BY <2>1, <3>1, <3>2, CarMoves
  <2>4. CASE DriveOut(c)
    <3>1. PICK x \in Exits : /\ car'[c].stage = "tell_exit" /\ car'[c].place = x
                             /\ \A d \in Cars : d # c => car'[d] = car[d]
                             /\ sensor' = [sensor EXCEPT ![x] = c]
      BY <2>4, DriveOutMoves
    <3>2. admitted[c] > 0 /\ UNCHANGED <<ex, lv>>
      BY <2>4 DEF DriveOut, AdmitInv, CarsAdmitted, passing
    <3>3. sensor'[x] = c /\ \A d \in Levels \cup Exits : d # x => sensor'[d] = sensor[d]
      BY <1>1, <3>1
    <3>4. QED
      BY <2>1, <3>1, <3>2, <3>3
  <2>5. CASE SignalExit(c)
    <3>1. /\ car[c].stage = "tell_exit" /\ car[c].place \in Exits
          /\ CarGoto(c, "over") /\ UNCHANGED <<sensor, lv>>
      BY <2>5 DEF SignalExit, PlaceInv
    <3>2. ExitsRead'
      BY <2>1, <2>5, <3>1, Signals
    <3>3. QED
      BY <2>1, <3>1, <3>2, CarMoves
  <2>6. QED
    BY <1>5, <2>2, <2>3, <2>4, <2>5 DEF Car
<1>6. CASE SpuriousWakeup
  BY <1>6, SpuriousLeaves, SpuriousMoves DEF timeVars
<1>7. CASE UNCHANGED vars
  BY <1>7 DEF vars, timeVars
<1>8. QED
  BY <1>2, <1>3, <1>4, <1>5, <1>6, <1>7 DEF Next

-----------------------------------------------------------------------------
(* Only an admission changes when a car was admitted. *)
LEMMA TimesStay ==
  ASSUME TypeOK, [Next]_vars, \A e \in Entrances : ~Admit(e)
  PROVE  UNCHANGED timeVars /\ \A d \in Cars : car'[d].plate = car[d].plate
<1>1. ASSUME NEW e \in Entrances, EntranceMonitor(e)
      PROVE  UNCHANGED timeVars /\ \A d \in Cars : car'[d].plate = car[d].plate
  <2>1. UNCHANGED timeVars
    BY <1>1 DEF EntranceMonitor, Read, TurnAway, ScanFloor, LoadIn, CountIn,
                EntranceGateReturns, timeVars
  <2>2. ASSUME NEW c \in Cars, Read(e, c) \/ TurnAway(e, c)
        PROVE  \A d \in Cars : car'[d].plate = car[d].plate
    BY <2>2, CarMoves DEF Read, TurnAway
  <2>3. QED
    BY <1>1, <2>1, <2>2 DEF EntranceMonitor, ScanFloor, LoadIn, CountIn, EntranceGateReturns
<1>2. ASSUME NEW c \in Cars, Car(c)
      PROVE  UNCHANGED timeVars /\ \A d \in Cars : car'[d].plate = car[d].plate
  <2>1. CASE DriveOut(c)
    <3>1. \A d \in Cars : car'[d].plate = car[d].plate
      BY <2>1, DriveOutMoves
    <3>2. QED
      BY <1>2, <3>1, CarLeaves
  <2>2. CASE ~DriveOut(c)
    BY <1>2, <2>2, CarMoves, CarLeaves DEF Car, DriveIn, SignalLevel, SignalExit
  <2>3. QED
    BY <2>1, <2>2
<1>3. QED
  BY <1>1, <1>2, ExitLeaves, LevelLeaves, SpuriousLeaves DEF Next, vars

(* The time kept for a plate is at least that of every admission of it. *)
LEMMA TimeStep ==
  ASSUME TypeOK, AdmitInv, TimeInv, [Next]_vars
  PROVE  TimeInv'
<1>1. ASSUME NEW e \in Entrances, Admit(e) PROVE TimeInv'
  <2>1. PICK c \in Cars, v \in Plates :
          /\ c = en[e].car /\ v = car[c].plate /\ admitted[c] = 0
          /\ now(v) = Cardinality(visits(v)) + 1
    BY <1>1, NowIsNext DEF Admit, TypeOK, CarStates
  <2>2. /\ admitted'[c] = now(v)
        /\ \A d \in Cars : d # c => admitted'[d] = admitted[d]
        /\ \A d \in Cars : car'[d].plate = car[d].plate
        /\ inArray(v) => start_time'[v] = now(v)
        /\ \A u \in Plates : u # v => start_time'[u] = start_time[u]
    BY <1>1, <2>1, AdmitMoves DEF TypeOK
  <2>3. now(v) > 0 /\ \A d \in Cars : admitted[d] \in Nat
    BY <1>1, <2>1, NowIsNext, FiniteCounts DEF Admit, TypeOK
  <2>4. Cardinality(visits(v))' = now(v)
    <3>1. visits(v)' = visits(v) \cup {c}
      BY <2>1, <2>2, <2>3 DEF visits
    <3>2. c \notin visits(v) /\ IsFiniteSet(visits(v))
      BY <2>1, FiniteCounts DEF visits
    <3>3. QED
      BY <2>1, <3>1, <3>2, CountOne
  <2>5. ASSUME NEW u \in Plates, u # v PROVE visits(u)' = visits(u)
    <3>1. \A d \in Cars : car[d].plate = u => d # c
      BY <2>1, <2>5
    <3>2. QED
      BY <2>2, <3>1 DEF visits
  <2>6. ASSUME NEW d \in Cars, NEW u \in Plates, u = car[d].plate
        PROVE  /\ admitted'[d] <= Cardinality(visits(u))'
               /\ admitted'[d] > 0 /\ inArray(u) => start_time'[u] >= admitted'[d]
    <3>1. /\ admitted[d] <= Cardinality(visits(u)) /\ Cardinality(visits(u)) \in Nat
          /\ admitted[d] > 0 /\ inArray(u) => start_time[u] >= admitted[d]
      BY <2>6, FiniteCounts DEF TimeInv, visits
    <3>2. CASE u = v
      BY <2>1, <2>2, <2>3, <2>4, <3>1, <3>2
    <3>3. CASE u # v
      <4>1. d # c
        BY <2>1, <2>6, <3>3
      <4>2. Cardinality(visits(u))' = Cardinality(visits(u))
        BY <2>5, <3>3
      <4>3. QED
        BY <2>2, <3>1, <3>3, <4>1, <4>2
    <3>4. QED
      BY <3>2, <3>3
  <2>7. \A d \in Cars : car[d].plate \in Plates
    BY DEF TypeOK, CarStates
  <2>8. QED
    BY <2>2, <2>6, <2>7 DEF TimeInv
<1>2. CASE \A e \in Entrances : ~Admit(e)
  <2>1. UNCHANGED <<admitted, start_time>> /\ \A d \in Cars : car'[d].plate = car[d].plate
    BY <1>2, TimesStay DEF timeVars
  <2>2. \A u : visits(u)' = visits(u)
    BY <2>1 DEF visits
  <2>3. QED
    BY <2>1, <2>2 DEF TimeInv
<1>3. QED
  BY <1>1, <1>2

(* A bill starts no earlier than the visit it is for. *)
LEMMA BillStep ==
  ASSUME TypeOK, AdmitInv, SensorInv, TimeInv, BillsThisVisit, PlaceInv, [Next]_vars
  PROVE  BillsThisVisit'
<1> USE DEF BillsThisVisit
<1>1. ASSUME NEW x \in Exits, ex'[x].pc = "gate", ex'[x] = ex[x]
      PROVE  inArray(car'[ex'[x].car].plate)
               => ex'[x].start >= admitted'[ex'[x].car] /\ admitted'[ex'[x].car] > 0
  <2>1. ex[x].car \in Cars /\ admitted[ex[x].car] > 0
    BY <1>1 DEF SensorInv, ExitsRead
  <2>2. car'[ex[x].car].plate = car[ex[x].car].plate /\ admitted'[ex[x].car] = admitted[ex[x].car]
    <3>1. ASSUME NEW e \in Entrances, Admit(e)
          PROVE  /\ car'[ex[x].car].plate = car[ex[x].car].plate
                 /\ admitted'[ex[x].car] = admitted[ex[x].car]
      <4>1. en[e].car \in Cars /\ admitted[en[e].car] = 0
        BY <3>1, NowIsNext DEF Admit
      <4>2. QED
        BY <2>1, <3>1, <4>1, AdmitMoves DEF TypeOK
    <3>2. QED
      BY <2>1, <3>1, TimesStay DEF timeVars
  <2>3. QED
    BY <1>1, <2>2
<1>2. ASSUME NEW x \in Exits, Bill(x), inArray(car'[ex'[x].car].plate)
      PROVE  ex'[x].start >= admitted'[ex'[x].car] /\ admitted'[ex'[x].car] > 0
  <2>1. UNCHANGED <<admitted, start_time, car>> /\ ex'[x].car = ex[x].car
    BY <1>2, ExitMoves DEF Bill, timeVars
  <2>2. ex[x].car \in Cars /\ admitted[ex[x].car] > 0
    BY <1>2 DEF Bill, SensorInv, ExitsRead
  <2>3. QED
    BY <1>2, <2>1, <2>2, ExitMoves DEF TimeInv
<1>3. ASSUME NEW x \in Exits, ex'[x].pc = "gate" PROVE ex'[x] = ex[x] \/ Bill(x)
  <2>1. ASSUME NEW y \in Exits, ExitMonitor(y) PROVE ex'[x] = ex[x] \/ Bill(x)
    BY <1>3, <2>1, ExitMoves DEF ExitMonitor
  <2>2. ASSUME NEW c \in Cars, Car(c) PROVE ex'[x] = ex[x]
    <3>1. CASE SignalExit(c)
      <4>1. ex \in [Exits -> ExStates]
        BY DEF TypeOK
      <4>2. ex' = [ex EXCEPT ![car[c].place].pc = signalled(@)]
        BY <3>1 DEF SignalExit
      <4>3. QED
        BY <1>3, <4>1, <4>2 DEF signalled, ExStates
    <3>2. CASE ~SignalExit(c)
      BY <2>2, <3>2 DEF Car, DriveIn, SignalLevel, DriveOut
    <3>3. QED
      BY <3>1, <3>2
  <2>3. CASE SpuriousWakeup
    BY <1>3, <2>3, SpuriousMoves
  <2>4. QED
    BY <2>1, <2>2, <2>3, EntranceLeaves, LevelLeaves DEF Next, vars
<1>4. QED
  BY <1>1, <1>2, <1>3

-----------------------------------------------------------------------------
(* Which steps bring a monitor between load and store, or count. *)
LEMMA StoreMoves ==
  ASSUME TypeOK, [Next]_vars
  PROVE  /\ raced => raced'
         /\ \A e \in Entrances : en'[e].pc = "store" => en'[e] = en[e] \/ LoadIn(e)
         /\ \A x \in Exits : ex'[x].pc = "store"
              => \/ /\ ex[x].pc = "store" /\ ex'[x].total = ex[x].total
                 \/ ExitGateReturns(x)
         /\ \/ vehicle_counter_total' = vehicle_counter_total
            \/ \E e \in Entrances : CountIn(e)
            \/ \E x \in Exits : CountOut(x)
<1>0. en \in [Entrances -> EnStates] /\ ex \in [Exits -> ExStates]
  BY DEF TypeOK
<1>1. raced => raced'
  <2>1. ASSUME NEW e \in Entrances, EntranceMonitor(e) PROVE raced => raced'
    BY <2>1 DEF EntranceMonitor, Read, TurnAway, ScanFloor, Admit, LoadIn, CountIn,
                EntranceGateReturns, history
  <2>2. ASSUME NEW x \in Exits, ExitMonitor(x) PROVE raced => raced'
    BY <2>2 DEF ExitMonitor, WaitExit, ReadExit, Bill, ExitGateReturns, CountOut, history
  <2>3. QED
    BY <2>1, <2>2, CarLeaves, LevelLeaves, SpuriousLeaves DEF Next, history, vars
<1>2. ASSUME NEW e \in Entrances, en'[e].pc = "store" PROVE en'[e] = en[e] \/ LoadIn(e)
  <2>1. ASSUME NEW f \in Entrances, EntranceMonitor(f) PROVE en'[e] = en[e] \/ LoadIn(e)
    <3>1. CASE f # e
      <4>1. en'[e] = en[e]
        BY <1>0, <2>1, <3>1, EntranceMoves DEF EntranceMonitor, TurnAway
      <4>2. QED
        BY <4>1
    <3>2. CASE f = e
      BY <1>2, <2>1, <3>2, EntranceMoves DEF EntranceMonitor, TurnAway
    <3>3. QED
      BY <3>1, <3>2
  <2>2. QED
    BY <2>1, CarLeaves, ExitLeaves, LevelLeaves, SpuriousLeaves DEF Next, vars
<1>3. ASSUME NEW x \in Exits, ex'[x].pc = "store"
      PROVE  \/ /\ ex[x].pc = "store" /\ ex'[x].total = ex[x].total
             \/ ExitGateReturns(x)
  <2>1. ASSUME NEW y \in Exits, ExitMonitor(y) PROVE ex'[x] = ex[x] \/ ExitGateReturns(x)
    BY <1>3, <2>1, ExitMoves DEF ExitMonitor
  <2>2. ASSUME NEW c \in Cars, Car(c) PROVE ex[x].pc = "store" /\ ex'[x].total = ex[x].total
    <3>1. CASE SignalExit(c)
      <4>1. ex' = [ex EXCEPT ![car[c].place].pc = signalled(@)]
        BY <3>1 DEF SignalExit
      <4>2. QED
        BY <1>0, <1>3, <4>1 DEF signalled, ExStates
    <3>2. CASE ~SignalExit(c)
      BY <1>3, <2>2, <3>2 DEF Car, DriveIn, SignalLevel, DriveOut
    <3>3. QED
      BY <3>1, <3>2
  <2>3. CASE SpuriousWakeup
    BY <1>3, <2>3, SpuriousMoves
  <2>4. QED
    BY <1>3, <2>1, <2>2, <2>3, EntranceLeaves, LevelLeaves DEF Next, vars
<1>4. \/ vehicle_counter_total' = vehicle_counter_total
      \/ \E e \in Entrances : CountIn(e)
      \/ \E x \in Exits : CountOut(x)
  <2>1. ASSUME NEW e \in Entrances, EntranceMonitor(e), ~CountIn(e)
        PROVE  vehicle_counter_total' = vehicle_counter_total
    BY <2>1 DEF EntranceMonitor, Read, TurnAway, ScanFloor, Admit, LoadIn, EntranceGateReturns
  <2>2. ASSUME NEW x \in Exits, ExitMonitor(x), ~CountOut(x)
        PROVE  vehicle_counter_total' = vehicle_counter_total
    BY <2>2 DEF ExitMonitor, WaitExit, ReadExit, Bill, ExitGateReturns
  <2>3. QED
    BY <2>1, <2>2, CarLeaves, LevelLeaves, SpuriousLeaves DEF Next, vars
<1>5. QED
  BY <1>1, <1>2, <1>3, <1>4

(* Until two monitors meet between load and store, what a monitor has      *)
(* loaded is the present total.                                            *)
LEMMA StoreStep ==
  ASSUME TypeOK, StoreInv, ~raced', [Next]_vars
  PROVE  StoreInv'
<1>1. ASSUME NEW e \in Entrances, CountIn(e) PROVE StoreInv'
  <2>1. ASSUME NEW f \in Entrances PROVE en'[f].pc # "store"
    BY <1>1, EntranceMoves DEF CountIn, StoreInv
  <2>2. ASSUME NEW x \in Exits PROVE ex'[x].pc # "store"
    BY <1>1 DEF CountIn, StoreInv
  <2>3. QED
    BY <2>1, <2>2 DEF StoreInv
<1>2. ASSUME NEW x \in Exits, CountOut(x) PROVE StoreInv'
  <2>1. ASSUME NEW y \in Exits PROVE ex'[y].pc # "store"
    BY <1>2, ExitMoves DEF CountOut, StoreInv, ExitMonitor
  <2>2. ASSUME NEW e \in Entrances PROVE en'[e].pc # "store"
    BY <1>2 DEF CountOut, StoreInv
  <2>3. QED
    BY <2>1, <2>2 DEF StoreInv
<1>3. ASSUME NEW e \in Entrances, LoadIn(e) PROVE StoreInv'
  <2>1. /\ storing = {} /\ ex' = ex /\ vehicle_counter_total' = vehicle_counter_total
    BY <1>3 DEF LoadIn
  <2>2. /\ \A f \in Entrances : en[f].pc # "store"
        /\ \A x \in Exits : ex[x].pc # "store"
    BY <2>1 DEF storing
  <2>3. QED
    BY <1>3, <2>1, <2>2, EntranceMoves DEF StoreInv
<1>4. ASSUME NEW x \in Exits, ExitGateReturns(x) PROVE StoreInv'
  <2>1. /\ storing = {} /\ en' = en /\ vehicle_counter_total' = vehicle_counter_total
    BY <1>4 DEF ExitGateReturns
  <2>2. /\ \A f \in Entrances : en[f].pc # "store"
        /\ \A y \in Exits : ex[y].pc # "store"
    BY <2>1 DEF storing
  <2>3. \A y \in Exits : y # x => ex'[y] = ex[y]
    BY <1>4, ExitMoves DEF ExitMonitor
  <2>4. QED
    BY <1>4, <2>1, <2>2, <2>3, ExitMoves DEF StoreInv
<1>5. ASSUME \A e \in Entrances : ~CountIn(e) /\ ~LoadIn(e),
             \A x \in Exits : ~CountOut(x) /\ ~ExitGateReturns(x)
      PROVE  StoreInv'
  <2>1. /\ vehicle_counter_total' = vehicle_counter_total
        /\ \A e \in Entrances : en'[e].pc = "store" => en'[e] = en[e]
        /\ \A x \in Exits : ex'[x].pc = "store"
             => ex[x].pc = "store" /\ ex'[x].total = ex[x].total
    BY <1>5, StoreMoves
  <2>2. QED
    BY <2>1 DEF StoreInv
<1>6. QED
  BY <1>1, <1>2, <1>3, <1>4, <1>5

(* The set of entrances that are still to count their car. *)
LEMMA AdmittingMoves ==
  ASSUME TypeOK, [Next]_vars
  PROVE  \/ admitting' = admitting /\ UNCHANGED crowd /\ \A e \in Entrances : ~CountIn(e)
         \/ \E e \in Entrances : /\ CountIn(e) /\ e \in admitting /\ UNCHANGED crowd
                                 /\ admitting' = admitting \ {e}
         \/ /\ hasSpace /\ vehicle_counter_total' = vehicle_counter_total
            /\ Cardinality(admitting') <= crowd'
<1>1. ASSUME NEW e \in Entrances, NEW c \in Cars, Read(e, c)
      PROVE  /\ hasSpace /\ vehicle_counter_total' = vehicle_counter_total
             /\ Cardinality(admitting') <= crowd'
  <2>1. /\ e \notin admitting /\ admitting \in SUBSET Entrances
        /\ hasSpace /\ vehicle_counter_total' = vehicle_counter_total
    BY <1>1 DEF Read, admitting
  <2>2. admitting' = admitting \cup {e}
    BY <1>1, EntranceMoves DEF admitting
  <2>3. Cardinality(admitting') = Cardinality(admitting) + 1 /\ Cardinality(admitting) \in Nat
    BY <2>1, <2>2, FiniteCounts, CountOne
  <2>4. crowd' = IF Cardinality(admitting) < crowd THEN crowd ELSE Cardinality(admitting) + 1
    BY <1>1 DEF Read
  <2>5. crowd \in Nat
    BY OccupancyAssumption, FS_CardinalityType DEF TypeOK
  <2>6. QED
    BY <2>1, <2>3, <2>4, <2>5
<1>2. ASSUME NEW e \in Entrances, CountIn(e)
      PROVE  e \in admitting /\ UNCHANGED crowd /\ admitting' = admitting \ {e}
  BY <1>2, EntranceMoves DEF CountIn, admitting, history
<1>3. ASSUME NEW e \in Entrances,
             ScanFloor(e) \/ Admit(e) \/ LoadIn(e) \/ EntranceGateReturns(e)
      PROVE  admitting' = admitting /\ UNCHANGED crowd
  <2>1. /\ \A f \in Entrances : f # e => en'[f] = en[f]
        /\ e \in admitting' <=> e \in admitting
    BY <1>3, EntranceMoves DEF ScanFloor, Admit, LoadIn, EntranceGateReturns, admitting
  <2>2. admitting' = admitting
    BY <2>1 DEF admitting
  <2>3. QED
    BY <1>3, <2>2 DEF ScanFloor, Admit, LoadIn, EntranceGateReturns, history
<1>4. ASSUME UNCHANGED <<en, crowd>> PROVE admitting' = admitting /\ UNCHANGED crowd
  BY <1>4 DEF admitting
<1>5. ASSUME NEW e \in Entrances, NEW c \in Cars, TurnAway(e, c) PROVE UNCHANGED <<en, crowd>>
  BY <1>5 DEF TurnAway, history
<1>6. QED
  BY <1>1, <1>2, <1>3, <1>4, <1>5, CarLeaves, ExitLeaves, LevelLeaves, SpuriousLeaves
  DEF Next, EntranceMonitor, vars, history

(* The total may pass the capacity only by cars that were admitted         *)
(* together.                                                               *)
LEMMA RoomStep ==
  ASSUME TypeOK, TypeOK', StoreInv, RoomInv, [Next]_vars
  PROVE  RoomInv'
<1>0. /\ vehicle_counter_total \in Int /\ crowd \in Nat /\ TOTAL_CAPACITY \in Nat
      /\ Cardinality(admitting) \in Nat /\ IsFiniteSet(admitting)
  <2>1. crowd \in Nat
    BY OccupancyAssumption, FS_CardinalityType DEF TypeOK
  <2>2. admitting \in SUBSET Entrances
    BY DEF admitting
  <2>3. QED
    BY <2>1, <2>2, FiniteCounts, ConstantFacts DEF TypeOK
<1>1. CASE admitting' = admitting /\ UNCHANGED crowd /\ \A e \in Entrances : ~CountIn(e)
  <2>1. \A x \in Exits : CountOut(x) => vehicle_counter_total' = vehicle_counter_total - 1
    BY DEF CountOut, StoreInv
  <2>2. vehicle_counter_total' \in {vehicle_counter_total, vehicle_counter_total - 1}
    BY <1>1, <2>1, StoreMoves
  <2>3. Cardinality(admitting') = Cardinality(admitting)
    BY <1>1
  <2>4. QED
    BY <1>0, <1>1, <2>2, <2>3 DEF RoomInv
<1>2. ASSUME NEW e \in Entrances, CountIn(e), e \in admitting, UNCHANGED crowd,
             admitting' = admitting \ {e}
      PROVE  RoomInv'
  <2>1. vehicle_counter_total' = vehicle_counter_total + 1
    BY <1>2 DEF CountIn, StoreInv
  <2>2. Cardinality(admitting') = Cardinality(admitting) - 1
    BY <1>0, <1>2, CountOneLess
  <2>3. QED
    BY <1>0, <1>2, <2>1, <2>2 DEF RoomInv
<1>3. CASE /\ hasSpace /\ vehicle_counter_total' = vehicle_counter_total
           /\ Cardinality(admitting') <= crowd'
  <2>1. Cardinality(admitting') \in Nat /\ crowd' \in Nat
    <3>1. admitting' \in SUBSET Entrances
      BY DEF admitting
    <3>2. crowd' \in Nat
      BY OccupancyAssumption, FS_CardinalityType DEF TypeOK
    <3>3. QED
      BY <3>1, <3>2, FiniteCounts
  <2>2. QED
    BY <1>0, <1>3, <2>1 DEF RoomInv, hasSpace
<1>4. QED
  BY <1>1, <1>2, <1>3, AdmittingMoves

-----------------------------------------------------------------------------
(* The sets the total is weighed against: who has left, who has been       *)
(* counted, and which exits have a trigger still to count.                 *)
LEMMA LeftMoves ==
  ASSUME TypeOK, PlaceInv, AdmitInv, [Next]_vars
  PROVE  \/ left' = left /\ \A c \in Cars : ~SignalExit(c)
         \/ \E c \in Cars : SignalExit(c) /\ c \notin left /\ left' = left \cup {c}
<1>1. ASSUME NEW c \in Cars, SignalExit(c)
      PROVE  c \notin left /\ left' = left \cup {c}
  <2>1. car[c].stage = "tell_exit" /\ car[c].place \in Exits /\ CarGoto(c, "over")
    BY <1>1 DEF SignalExit, PlaceInv
  <2>2. QED
    BY <2>1, CarMoves DEF left
<1>2. ASSUME NEW e \in Entrances, Admit(e) PROVE left' = left
  <2>1. /\ en[e].car \in Cars /\ car[en[e].car].stage = "sign"
        /\ car[en[e].car].place \notin Exits
    BY <1>2, NowIsNext DEF Admit, PlaceInv
  <2>2. car'[en[e].car].place \notin Exits \/ car'[en[e].car].stage # "over"
    BY <1>2, <2>1, AdmitMoves
  <2>3. QED
    BY <1>2, <2>1, <2>2, AdmitMoves DEF left
<1>3. ASSUME NEW e \in Entrances, NEW c \in Cars, Read(e, c) \/ TurnAway(e, c)
      PROVE  left' = left
  <2>1. /\ car[c].stage = "outside" /\ car[c].place \notin Exits
        /\ CarGoto(c, "sign") \/ CarGoto(c, "over")
    BY <1>3 DEF Read, TurnAway, PlaceInv
  <2>2. QED
    BY <2>1, CarMoves DEF left
<1>4. ASSUME NEW c \in Cars, DriveIn(c) \/ SignalLevel(c) PROVE left' = left
  <2>1. /\ car[c].stage # "over"
        /\ CarGoto(c, "tell_level") \/ CarGoto(c, "parked")
    BY <1>4 DEF DriveIn, SignalLevel
  <2>2. QED
    BY <2>1, CarMoves DEF left
<1>5. ASSUME NEW c \in Cars, DriveOut(c) PROVE left' = left
  <2>1. car[c].stage = "parked"
    BY <1>5 DEF DriveOut
  <2>2. QED
    BY <1>5, <2>1, DriveOutMoves DEF left
<1>6. ASSUME UNCHANGED car PROVE left' = left
  BY <1>6 DEF left
<1>7. ASSUME NEW e \in Entrances, ScanFloor(e) \/ LoadIn(e) \/ CountIn(e) \/ EntranceGateReturns(e)
      PROVE  left' = left
  BY <1>6, <1>7 DEF ScanFloor, LoadIn, CountIn, EntranceGateReturns
<1>8. QED
  BY <1>1, <1>2, <1>3, <1>4, <1>5, <1>6, <1>7, ExitLeaves, LevelLeaves, SpuriousLeaves
  DEF Next, EntranceMonitor, Car, vars

(* Only count_in adds a car to those the total has counted. *)
LEMMA CountedMoves ==
  ASSUME TypeOK, PlaceInv, AdmitInv, [Next]_vars
  PROVE  \/ counted' = counted /\ \A e \in Entrances : ~CountIn(e)
         \/ \E e \in Entrances : CountIn(e) /\ \E c \in Cars : c \notin counted
                                                 /\ counted' = counted \cup {c}
<1> USE DEF uncounted
<1>1. ASSUME NEW e \in Entrances, CountIn(e)
      PROVE  \E c \in Cars : c \notin counted /\ counted' = counted \cup {c}
  <2>1. /\ en[e].pc = "store" /\ UNCHANGED admitted
        /\ en[e].car \in Cars /\ admitted[en[e].car] > 0
    BY <1>1 DEF CountIn, timeVars, AdmitInv, CarsInHand
  <2>2. /\ en'[e].pc = "gate"
        /\ \A f \in Entrances : f # e => en'[f] = en[f]
    BY <1>1, EntranceMoves
  <2>3. \A f \in Entrances : f # e /\ en[f].pc # "read" => en[f].car # en[e].car
    BY <2>1 DEF AdmitInv, OneHandEach
  <2>4. PICK c \in Cars : c = en[e].car
    BY <2>1
  <2>5. ASSUME NEW d \in Cars, d # c PROVE d \in counted' <=> d \in counted
    BY <2>1, <2>2, <2>4, <2>5 DEF counted
  <2>6. c \in counted' /\ c \notin counted
    <3>1. \A f \in Entrances : en'[f].pc \in {"load", "store"} => en'[f].car # c
      BY <2>2, <2>3, <2>4
    <3>2. QED
      BY <2>1, <2>4, <3>1 DEF counted
  <2>7. counted' = counted \cup {c}
    BY <2>5, <2>6 DEF counted
  <2>8. QED
    BY <2>6, <2>7
<1>2. ASSUME NEW e \in Entrances, Admit(e) PROVE counted' = counted
  <2>1. /\ en[e].car \in Cars /\ admitted[en[e].car] = 0 /\ en[e].pc = "admit"
    BY <1>2, NowIsNext DEF Admit
  <2>2. /\ en'[e].pc = "load" /\ en'[e].car = en[e].car
        /\ \A f \in Entrances : f # e => en'[f] = en[f]
        /\ \A d \in Cars : d # en[e].car => admitted'[d] = admitted[d]
    BY <1>2, <2>1, EntranceMoves, AdmitMoves DEF TypeOK
  <2>3. QED
    BY <2>1, <2>2 DEF counted
<1>3. ASSUME NEW e \in Entrances,
             \/ ScanFloor(e) \/ LoadIn(e) \/ EntranceGateReturns(e)
             \/ \E c \in Cars : Read(e, c)
      PROVE  counted' = counted
  <2>1. /\ \A f \in Entrances : f # e => en'[f] = en[f]
        /\ en'[e].pc \in {"load", "store"} <=> en[e].pc \in {"load", "store"}
        /\ en[e].pc \in {"load", "store"} => en'[e].car = en[e].car
    BY <1>3, EntranceMoves DEF ScanFloor, LoadIn, EntranceGateReturns, Read
  <2>2. UNCHANGED admitted
    BY <1>3 DEF ScanFloor, LoadIn, EntranceGateReturns, Read, timeVars
  <2>3. QED
    BY <2>1, <2>2 DEF counted
<1>4. ASSUME UNCHANGED <<en, admitted>> PROVE counted' = counted
  BY <1>4 DEF counted
<1>5. ASSUME NEW e \in Entrances, NEW c \in Cars, TurnAway(e, c) PROVE UNCHANGED <<en, admitted>>
  BY <1>5 DEF TurnAway, timeVars
<1>6. QED
  BY <1>1, <1>2, <1>3, <1>4, <1>5, CarLeaves, ExitLeaves, LevelLeaves, SpuriousLeaves
  DEF Next, EntranceMonitor, vars, timeVars

(* An exit has a subtraction due from the trigger of a car until count_out. *)
LEMMA LeavingMoves ==
  ASSUME TypeOK, PlaceInv, [Next]_vars, ~spurious'
  PROVE  /\ \A x \in Exits : CountOut(x) => x \in leaving /\ leaving' \subseteq leaving \ {x}
         /\ (\A c \in Cars : ~SignalExit(c)) => leaving' \subseteq leaving
         /\ \A c \in Cars : SignalExit(c)
              => \/ leaving' = leaving
                 \/ \E x \in Exits : x \notin leaving /\ leaving' = leaving \cup {x}
<1>1. ASSUME NEW c \in Cars, SignalExit(c)
      PROVE  \/ leaving' = leaving
             \/ \E x \in Exits : x \notin leaving /\ leaving' = leaving \cup {x}
  <2>1. car[c].place \in Exits
    BY <1>1 DEF SignalExit, PlaceInv
  <2>2. CASE ex'[car[c].place].pc = ex[car[c].place].pc
    BY <1>1, <2>1, <2>2, Signals DEF leaving
  <2>3. CASE ex'[car[c].place].pc # ex[car[c].place].pc
    BY <1>1, <2>1, <2>3, Signals DEF leaving
  <2>4. QED
    BY <2>2, <2>3
<1>2. ASSUME NEW x \in Exits, ExitMonitor(x) PROVE leaving' \subseteq leaving
  <2>1. \A y \in Exits : y # x => ex'[y] = ex[y]
    BY <1>2, ExitMoves
  <2>2. ex'[x].pc \in {"copy", "bill", "gate", "store"} => ex[x].pc \in {"copy", "bill", "gate", "store"}
    BY <1>2, ExitMoves DEF ExitMonitor, WaitExit, ReadExit, Bill, ExitGateReturns
  <2>3. QED
    BY <2>1, <2>2 DEF leaving
<1>3. ASSUME NEW x \in Exits, CountOut(x)
      PROVE  x \in leaving /\ leaving' \subseteq leaving \ {x}
  <2>1. leaving' \subseteq leaving
    BY <1>2, <1>3 DEF ExitMonitor
  <2>2. ex[x].pc = "store" /\ ex'[x].pc = "read"
    BY <1>3, ExitMoves DEF CountOut
  <2>3. QED
    BY <2>1, <2>2 DEF leaving
<1>4. ASSUME UNCHANGED ex PROVE leaving' = leaving
  BY <1>4 DEF leaving
<1>5. ASSUME NEW c \in Cars, DriveIn(c) \/ SignalLevel(c) \/ DriveOut(c) PROVE UNCHANGED ex
  BY <1>5 DEF DriveIn, SignalLevel, DriveOut
<1>6. ~SpuriousWakeup
  BY SpuriousMoves
<1>7. (\A c \in Cars : ~SignalExit(c)) => leaving' \subseteq leaving
  BY <1>2, <1>4, <1>5, <1>6, EntranceLeaves, LevelLeaves DEF Next, Car, vars
<1>8. QED
  BY <1>1, <1>3, <1>7

(* The total goes along with the cars and triggers that are counted.       *)
LEMMA TotalStep ==
  ASSUME TypeOK, TypeOK', PlaceInv, AdmitInv, StoreInv, TotalInv, [Next]_vars, ~spurious'
  PROVE  TotalInv'
<1>0. /\ vehicle_counter_total \in Int
      /\ IsFiniteSet(left) /\ Cardinality(left) \in Nat /\ Cardinality(left') \in Nat
      /\ IsFiniteSet(counted) /\ Cardinality(counted) \in Nat /\ Cardinality(counted') \in Nat
      /\ IsFiniteSet(leaving) /\ Cardinality(leaving) \in Nat /\ Cardinality(leaving') \in Nat
  <2>1. left \in SUBSET Cars /\ left' \in SUBSET Cars
    BY DEF left
  <2>2. counted \in SUBSET Cars /\ counted' \in SUBSET Cars
    BY DEF counted
  <2>3. leaving \in SUBSET Exits /\ leaving' \in SUBSET Exits
    BY DEF leaving
  <2>4. QED
    BY <2>1, <2>2, <2>3, FiniteCounts DEF TypeOK
<1>1. ASSUME NEW c \in Cars, SignalExit(c) PROVE TotalInv'
  <2>1. UNCHANGED <<en, vehicle_counter_total>>
    BY <1>1 DEF SignalExit
  <2>2. \A e \in Entrances : ~CountIn(e)
    BY <2>1, EntranceMoves DEF CountIn
  <2>3. Cardinality(counted') = Cardinality(counted)
    BY <2>2, CountedMoves
  <2>4. Cardinality(left') = Cardinality(left) + 1
    <3>1. PICK d \in Cars : d \notin left /\ left' = left \cup {d}
      BY <1>1, LeftMoves
    <3>2. QED
      BY <1>0, <3>1, CountOne
  <2>5. Cardinality(leaving') <= Cardinality(leaving) + 1
    <3>1. CASE leaving' = leaving
      BY <1>0, <3>1
    <3>2. ASSUME NEW x \in Exits, x \notin leaving, leaving' = leaving \cup {x}
          PROVE  Cardinality(leaving') = Cardinality(leaving) + 1
      BY <1>0, <3>2, CountOne
    <3>3. QED
      BY <1>0, <1>1, <3>1, <3>2, LeavingMoves
  <2>6. QED
    BY <1>0, <2>1, <2>3, <2>4, <2>5 DEF TotalInv
<1>2. ASSUME \A c \in Cars : ~SignalExit(c) PROVE TotalInv'
  <2>1. Cardinality(left') = Cardinality(left)
    BY <1>2, LeftMoves
  <2>2. leaving' \subseteq leaving /\ Cardinality(leaving') <= Cardinality(leaving)
    BY <1>0, <1>2, LeavingMoves, FS_Subset
  <2>3. ASSUME NEW e \in Entrances, CountIn(e) PROVE TotalInv'
    <3>1. vehicle_counter_total' = vehicle_counter_total + 1
      BY <2>3 DEF CountIn, StoreInv
    <3>2. PICK c \in Cars : c \notin counted /\ counted' = counted \cup {c}
      BY <2>3, CountedMoves
    <3>3. Cardinality(counted') = Cardinality(counted) + 1
      BY <1>0, <3>2, CountOne
    <3>4. QED
      BY <1>0, <2>1, <2>2, <3>1, <3>3 DEF TotalInv
  <2>4. ASSUME NEW x \in Exits, CountOut(x) PROVE TotalInv'
    <3>1. vehicle_counter_total' = vehicle_counter_total - 1
      BY <2>4 DEF CountOut, StoreInv
    <3>2. Cardinality(counted') = Cardinality(counted)
      <4>1. \A e \in Entrances : ~CountIn(e)
        BY <2>4, EntranceMoves DEF CountIn, CountOut
      <4>2. QED
        BY <4>1, CountedMoves
    <3>3. Cardinality(leaving') <= Cardinality(leaving) - 1
      <4>1. x \in leaving /\ leaving' \subseteq leaving \ {x}
        BY <2>4, LeavingMoves
      <4>2. IsFiniteSet(leaving \ {x}) /\ Cardinality(leaving \ {x}) = Cardinality(leaving) - 1
        BY <1>0, <4>1, CountOneLess
      <4>3. Cardinality(leaving') <= Cardinality(leaving \ {x})
        BY <4>1, <4>2, FS_Subset
      <4>4. QED
        BY <4>2, <4>3
    <3>4. QED
      BY <1>0, <2>1, <3>1, <3>2, <3>3 DEF TotalInv
  <2>5. ASSUME \A e \in Entrances : ~CountIn(e), \A x \in Exits : ~CountOut(x)
        PROVE  TotalInv'
    <3>1. vehicle_counter_total' = vehicle_counter_total
      BY <2>5, StoreMoves
    <3>2. Cardinality(counted') = Cardinality(counted)
      BY <2>5, CountedMoves
    <3>3. QED
      BY <1>0, <2>1, <2>2, <3>1, <3>2 DEF TotalInv
  <2>6. QED
    BY <2>3, <2>4, <2>5
<1>3. QED
  BY <1>1, <1>2

-----------------------------------------------------------------------------
(* What a step does to the signals and the moves of a level. *)
LEMMA MoveSteps ==
  ASSUME TypeOK, [Next]_vars, NEW l \in Levels
  PROVE  /\ CountLevel(l) => /\ moves'[l] = moves[l] + 1 /\ signals'[l] = signals[l]
                             /\ vehicle_counter_floor'[l] \in {vehicle_counter_floor[l] - 1,
                                                               vehicle_counter_floor[l] + 1}
         /\ ~CountLevel(l) => /\ moves'[l] = moves[l]
                              /\ vehicle_counter_floor'[l] = vehicle_counter_floor[l]
         /\ signals'[l] \in {signals[l], signals[l] + 1}
         /\ \A c \in Cars : SignalLevel(c) /\ car[c].place = l => signals'[l] = signals[l] + 1
<1>0. /\ vehicle_counter_floor \in [Levels -> Int]
      /\ signals \in [Levels -> Nat] /\ moves \in [Levels -> Nat]
  BY DEF TypeOK
<1>1. ASSUME NEW m \in Levels, CountLevel(m)
      PROVE  /\ m = l => /\ moves'[l] = moves[l] + 1
                         /\ vehicle_counter_floor'[l] \in {vehicle_counter_floor[l] - 1,
                                                           vehicle_counter_floor[l] + 1}
             /\ m # l => /\ moves'[l] = moves[l]
                         /\ vehicle_counter_floor'[l] = vehicle_counter_floor[l]
             /\ UNCHANGED signals
  <2>1. \E entering \in BOOLEAN :
          vehicle_counter_floor' =
            [vehicle_counter_floor EXCEPT ![m] = @ + IF entering THEN 1 ELSE -1]
    BY <1>1 DEF CountLevel
  <2>2. moves' = [moves EXCEPT ![m] = @ + 1] /\ UNCHANGED signals
    BY <1>1 DEF CountLevel
  <2>3. QED
    BY <1>0, <2>1, <2>2
<1>2. ASSUME NEW c \in Cars, SignalLevel(c)
      PROVE  /\ UNCHANGED <<moves, vehicle_counter_floor>>
             /\ signals'[l] \in {signals[l], signals[l] + 1}
             /\ car[c].place = l => signals'[l] = signals[l] + 1
  BY <1>0, <1>2 DEF SignalLevel, levelVars
<1>3. ASSUME \A m \in Levels : ~CountLevel(m), \A c \in Cars : ~SignalLevel(c)
      PROVE  UNCHANGED <<moves, vehicle_counter_floor, signals>>
  BY <1>3, EntranceLeaves, ExitLeaves, LevelLeaves, CarLeaves, SpuriousLeaves
  DEF Next, vars, levelVars, moveVars, history
<1>4. ASSUME NEW m \in Levels, NEW c \in Cars PROVE ~(CountLevel(m) /\ SignalLevel(c))
  BY <1>0 DEF CountLevel, SignalLevel, CarGoto, TypeOK, CarStates
<1>5. QED
  BY <1>1, <1>2, <1>3, <1>4

(* Only a signal makes a monitor count. *)
LEMMA SignalStep ==
  ASSUME TypeOK, PlaceInv, SignalInv, [Next]_vars, ~spurious', NEW l \in Levels
  PROVE  moves'[l] + pending(l)' <= signals'[l]
<1>0. /\ signals[l] \in Nat /\ moves[l] \in Nat
      /\ moves[l] + pending(l) <= signals[l]
      /\ pending(l) \in {0, 1} /\ pending(l)' \in {0, 1}
  BY DEF TypeOK, SignalInv, pending
<1>1. CASE CountLevel(l)
  <2>1. pending(l) = 1 /\ pending(l)' = 0
    BY <1>1, LevelMoves DEF CountLevel, pending
  <2>2. QED
    BY <1>0, <1>1, <2>1, MoveSteps
<1>2. ASSUME ~CountLevel(l), pending(l)' <= pending(l) PROVE moves'[l] + pending(l)' <= signals'[l]
  BY <1>0, <1>2, MoveSteps
<1>3. ASSUME NEW m \in Levels, LevelMonitor(m), ~CountLevel(l) PROVE pending(l)' <= pending(l)
  <2>1. m # l => lv'[l] = lv[l]
    BY <1>3, LevelMoves
  <2>2. m = l => \/ lv'[l].pc \notin {"copy", "count"}
                 \/ lv[l].pc \in {"copy", "count"}
    BY <1>3, LevelMoves DEF LevelMonitor, CopyLevel
  <2>3. QED
    BY <2>1, <2>2 DEF pending
<1>4. ASSUME NEW c \in Cars, SignalLevel(c), car[c].place = l, ~CountLevel(l)
      PROVE  moves'[l] + pending(l)' <= signals'[l]
  BY <1>0, <1>4, MoveSteps
<1>5. ASSUME lv'[l] = lv[l] PROVE pending(l)' <= pending(l)
  BY <1>5 DEF pending
<1>6. ASSUME NEW c \in Cars, SignalLevel(c), car[c].place # l PROVE lv'[l] = lv[l]
  BY <1>6, Signals
<1>7. ASSUME NEW c \in Cars, DriveIn(c) \/ DriveOut(c) \/ SignalExit(c) PROVE lv'[l] = lv[l]
  BY <1>7 DEF DriveIn, DriveOut, SignalExit
<1>8. ~SpuriousWakeup
  BY SpuriousMoves
<1>9. ASSUME \/ \E e \in Entrances : EntranceMonitor(e)
             \/ \E x \in Exits : ExitMonitor(x)
             \/ UNCHANGED vars
      PROVE  lv'[l] = lv[l]
  BY <1>9, EntranceLeaves, ExitLeaves DEF vars
<1>10. QED
  BY <1>1, <1>2, <1>3, <1>4, <1>5, <1>6, <1>7, <1>8, <1>9 DEF Next, Car

(* A count changes by one, when it is moved. *)
LEMMA FloorStep ==
  ASSUME TypeOK, FloorInv, [Next]_vars
  PROVE  FloorInv'
<1>1. ASSUME NEW l \in Levels PROVE vehicle_counter_floor'[l] \in -moves'[l]..moves'[l]
  <2>1. /\ vehicle_counter_floor[l] \in Int /\ moves[l] \in Nat
        /\ vehicle_counter_floor[l] \in -moves[l]..moves[l]
    BY DEF TypeOK, FloorInv
  <2>2. QED
    BY <2>1, MoveSteps
<1>2. QED
  BY <1>1 DEF FloorInv

-----------------------------------------------------------------------------
(* The invariant holds at the start, when no car has come. *)
LEMMA InitIInv == Init => IInv
<1> SUFFICES ASSUME Init PROVE IInv
  OBVIOUS
<1>1. PICK plate \in [Cars -> Plates] :
        car = [c \in Cars |-> [stage |-> "outside", plate |-> plate[c], place |-> None]]
  BY DEF Init
<1>2. /\ \A c \in Cars : car[c].stage = "outside" /\ car[c].place = None /\ admitted[c] = 0
      /\ \A e \in Entrances : en[e].pc = "read"
      /\ \A x \in Exits : ex[x].pc = "read"
      /\ \A l \in Levels : lv[l].pc = "read" /\ vehicle_counter_floor[l] = 0
      /\ \A d \in Levels \cup Exits : sensor[d] = NoCar
      /\ vehicle_counter_total = 0 /\ crowd = 0
  BY <1>1 DEF Init
<1>3. None \notin Levels \cup Exits
  BY OccupancyAssumption DEF None, Levels
<1>4. TypeOK
  <2>1. en \in [Entrances -> EnStates]
    BY ConstantFacts DEF Init, EnStates
  <2>2. ex \in [Exits -> ExStates]
    BY FiniteCounts DEF Init, ExStates
  <2>3. lv \in [Levels -> LvStates]
    BY ConstantFacts DEF Init, LvStates
  <2>4. car \in [Cars -> CarStates]
    BY <1>1 DEF CarStates
  <2>5. Cardinality(Cars) \in Nat /\ Cardinality(Entrances) \in Nat
    BY OccupancyAssumption, FS_CardinalityType
  <2>6. /\ vehicle_counter_floor \in [Levels -> Int]
        /\ vehicle_counter_total \in Int /\ crowd \in 0..Cardinality(Entrances)
    BY <2>5 DEF Init
  <2>7. vehicle_tracker \in [Plates -> Levels] /\ start_time \in [Plates -> 0..Cardinality(Cars)]
    BY <2>5, ConstantFacts DEF Init
  <2>8. admitted \in [Cars -> 0..Cardinality(Cars)]
    BY <2>5 DEF Init
  <2>9. sensor \in [Levels \cup Exits -> Cars \cup {NoCar}]
    BY DEF Init
  <2>10. raced \in BOOLEAN /\ spurious \in BOOLEAN
    BY DEF Init
  <2>11. signals \in [Levels -> Nat] /\ moves \in [Levels -> Nat]
    BY DEF Init
  <2>12. QED
    BY <2>1, <2>2, <2>3, <2>4, <2>6, <2>7, <2>8, <2>9, <2>10, <2>11 DEF TypeOK
<1>5. PlaceInv /\ AdmitInv /\ SensorInv /\ BillsThisVisit
  BY <1>2, <1>3 DEF PlaceInv, AdmitInv, CarsAdmitted, CarsInHand, OneHandEach, passing, uncounted,
                    SensorInv, SensorsShow, LevelsRead, ExitsRead, BillsThisVisit
<1>6. TimeInv
  <2>1. \A u : Cardinality(visits(u)) \in Nat
    BY FiniteCounts DEF visits
  <2>2. QED
    BY <1>2, <2>1 DEF TimeInv
<1>7. admitting = {} /\ counted = {} /\ leaving = {} /\ left = {}
  BY <1>2, <1>3 DEF admitting, counted, leaving, left
<1>8. StoreInv /\ RoomInv
  BY <1>2, <1>7, FS_EmptySet, ConstantFacts DEF StoreInv, RoomInv
<1>9. TotalInv
  BY <1>2, <1>7, FS_EmptySet DEF TotalInv
<1>10. SignalInv /\ FloorInv
  <2>1. \A l \in Levels : signals[l] = 0 /\ moves[l] = 0
    BY DEF Init
  <2>2. QED
    BY <1>2, <2>1 DEF SignalInv, FloorInv, pending
<1>11. QED
  BY <1>4, <1>5, <1>6, <1>8, <1>9, <1>10 DEF IInv

(* Every step preserves it. *)
LEMMA NextIInv == IInv /\ [Next]_vars => IInv'
<1> SUFFICES ASSUME IInv, [Next]_vars PROVE IInv'
  OBVIOUS
<1>1. TypeOK'
  BY TypeStep DEF IInv
<1>2. PlaceInv' /\ AdmitInv' /\ SensorInv' /\ TimeInv' /\ BillsThisVisit'
  BY PlaceStep, AdmitStep, SensorStep, TimeStep, BillStep DEF IInv
<1>3. raced => raced'
  BY StoreMoves DEF IInv
<1>4. spurious => spurious'
  BY EntranceLeaves, CarLeaves, ExitLeaves, LevelLeaves DEF Next, SpuriousWakeup, history, vars
<1>5. raced' \/ (StoreInv' /\ RoomInv')
  BY <1>1, <1>3, StoreStep, RoomStep DEF IInv
<1>6. raced' \/ spurious' \/ TotalInv'
  BY <1>1, <1>3, <1>4, TotalStep DEF IInv
<1>7. (spurious' \/ SignalInv') /\ FloorInv'
  BY <1>4, SignalStep, FloorStep DEF IInv, SignalInv
<1>8. QED
  BY <1>1, <1>2, <1>5, <1>6, <1>7 DEF IInv

(* What the manager's shared variables and the places of its monitors and  *)
(* of the cars have to do with each other, at all times.                   *)
THEOREM OccupancyInvariant == Spec => []IInv
BY InitIInv, NextIInv, PTL DEF Spec

(* Every variable of the manager keeps its type: every car a monitor looks *)
(* up is one that triggered its sensor, and no level or exit is missing.   *)
THEOREM OccupancyTypeOK == Spec => []TypeOK
<1>1. IInv => TypeOK
  BY DEF IInv
<1>2. QED
  BY <1>1, OccupancyInvariant, PTL

(* exit_monitor bills the visit that ends, or a later one of its plate.    *)
THEOREM BillsAreForThisVisit == Spec => []BillsThisVisit
<1>1. IInv => BillsThisVisit
  BY DEF IInv
<1>2. QED
  BY <1>1, OccupancyInvariant, PTL

(* vehicle_counter_total is at least the number of cars inside, until two  *)
(* monitors load it together or a wait returns without a signal.           *)
THEOREM TotalCoversCars == Spec => []CountCoversCars
<1>1. ASSUME IInv PROVE CountCoversCars
  <2>1. SUFFICES ASSUME ~raced, ~spurious PROVE Cardinality(inside) <= vehicle_counter_total
    BY DEF CountCoversCars
  <2>2. inside \cap left = {} /\ inside \cup left \subseteq counted
    BY <1>1 DEF IInv, inside, left, counted, AdmitInv, CarsAdmitted, passing
  <2>3. /\ inside \in SUBSET Cars /\ left \in SUBSET Cars /\ counted \in SUBSET Cars
        /\ inside \cup left \in SUBSET Cars /\ leaving \in SUBSET Exits
    BY DEF inside, left, counted, leaving
  <2>4. Cardinality(inside \cup left) = Cardinality(inside) + Cardinality(left)
    <3>1. IsFiniteSet(inside) /\ IsFiniteSet(left)
      BY <2>3, FiniteCounts
    <3>2. Cardinality(inside \cup left)
            = Cardinality(inside) + Cardinality(left) - Cardinality(inside \cap left)
      BY <3>1, FS_Union
    <3>3. Cardinality(inside \cap left) = 0
      BY <2>2, FS_EmptySet
    <3>4. Cardinality(inside) \in Nat /\ Cardinality(left) \in Nat
      BY <3>1, FS_CardinalityType
    <3>5. QED
      BY <3>2, <3>3, <3>4
  <2>5. Cardinality(inside \cup left) <= Cardinality(counted)
    BY <2>2, <2>3, FiniteCounts
  <2>6. /\ Cardinality(inside) \in Nat /\ Cardinality(left) \in Nat
        /\ Cardinality(counted) \in Nat /\ Cardinality(leaving) \in Nat
        /\ vehicle_counter_total \in Int
    BY <1>1, <2>3, FiniteCounts DEF IInv, TypeOK
  <2>7. TotalInv
    BY <1>1, <2>1 DEF IInv
  <2>8. QED
    BY <2>4, <2>5, <2>6, <2>7 DEF TotalInv
<1>2. QED
  BY <1>1, OccupancyInvariant, PTL

(* The park is overfilled only by cars that were admitted together.        *)
THEOREM FullParkTurnsAway == Spec => []FullMeansFull
<1>1. ASSUME IInv PROVE FullMeansFull
  <2>1. crowd \in Nat /\ vehicle_counter_total \in Int /\ TOTAL_CAPACITY \in Nat
    BY <1>1, ConstantFacts, OccupancyAssumption, FS_CardinalityType DEF IInv, TypeOK
  <2>2. admitting \in SUBSET Entrances
    BY DEF admitting
  <2>3. Cardinality(admitting) \in Nat
    BY <2>2, FiniteCounts
  <2>4. QED
    BY <1>1, <2>1, <2>3 DEF IInv, RoomInv, FullMeansFull
<1>2. QED
  BY <1>1, OccupancyInvariant, PTL

(* lp_monitor moves a floor's count at most once per signal of the level's *)
(* sensor, until a wait returns without a signal, and the count is the sum *)
(* of moves by one.                                                        *)
THEOREM MovesNeedSignals == Spec => []MovesAreSignalled
<1>1. ASSUME IInv PROVE MovesAreSignalled
  <2>1. ASSUME ~spurious, NEW l \in Levels PROVE moves[l] <= signals[l]
    <3>1. /\ signals[l] \in Nat /\ moves[l] \in Nat /\ pending(l) \in {0, 1}
          /\ moves[l] + pending(l) <= signals[l]
      BY <1>1, <2>1 DEF IInv, TypeOK, SignalInv, pending
    <3>2. QED
      BY <3>1
  <2>2. QED
    BY <1>1, <2>1 DEF IInv, FloorInv, MovesAreSignalled
<1>2. QED
  BY <1>1, OccupancyInvariant, PTL
=============================================================================

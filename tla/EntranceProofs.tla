---------------------------- MODULE EntranceProofs ----------------------------
(***************************************************************************)
(* Proofs about one entrance, for any cars and whatever kind of mutex the  *)
(* uninitialised attribute object gives.  The inductive invariant IInv     *)
(* says how often the monitor has locked bgate_mutex at each place, who is *)
(* in the entrance, and, until a wait returns without a signal, how far    *)
(* car and monitor are with each other.                                    *)
(***************************************************************************)
EXTENDS Entrance, TLAPS

(* The places of the monitor where bgate_mutex is not locked, locked as by *)
(* boom_gate_admit_one, and locked once more by boom_gate_open or _close.  *)
released == {"read", "lps_wait", "copy", "decide", "sign_signal", "admit", "loop", "done"}
nested == {"open_raise", "open_end", "close_lower", "close_end"}
admitting == {"open_wait", "open_woken", "close", "close_wait", "close_woken", "unlock"}

(* A second lock by the monitor counts, is refused, or never returns; each *)
(* unlock then takes off what there is.                                    *)
GateInv ==
  /\ mon_pc \in released => bgate_count = 0
  /\ mon_pc = "open" => bgate_count = 1
  /\ mon_pc \in nested \cup admitting => mutex_kind # "normal"
  /\ mon_pc \in nested => bgate_count = IF mutex_kind = "recursive" THEN 2 ELSE 1
  /\ mon_pc \in admitting => bgate_count = IF mutex_kind = "recursive" THEN 1 ELSE 0

(* The car between occupy_mutex and its unlock is the occupant. *)
OccupantInv ==
  \A c \in Cars : car_pc[c] \notin {"outside", "in", "away"} <=> occupant = c

(* While the monitor answers a plate, the car that has this plate waits at *)
(* the sign, or is about to; once it is woken, the monitor does not touch  *)
(* the sign before the next car.                                           *)
answering == {"copy", "decide", "sign_signal"}
HandOverInv ==
  /\ mon_pc \in answering
       => /\ occupant \in Cars /\ car_pc[occupant] \in {"sign", "sign_wait"}
          /\ license_plate = occupant
          /\ mon_pc # "copy" => license = occupant
          /\ mon_pc = "sign_signal" => shown_for = occupant
  /\ \A c \in Cars :
       /\ car_pc[c] \in {"signal", "sign"} => license_plate = c
       /\ car_pc[c] \in {"sign_woken", "gate", "gate_wait", "gate_woken"}
            => license = c /\ shown_for = c /\ mon_pc \notin answering
       /\ car_pc[c] \in {"gate", "gate_wait", "gate_woken"} => display = "digit"

IInv ==
  /\ EntranceTypeOK /\ GateInv /\ OccupantInv
  /\ spurious \/ HandOverInv
  /\ SignAnswersOwnCar

-----------------------------------------------------------------------------
(* The entrance starts with a free gate and nobody in it. *)
LEMMA InitIInv == EntranceInit => IInv
<1> SUFFICES ASSUME EntranceInit PROVE IInv
  OBVIOUS
<1>1. EntranceTypeOK
  <2>1. car_pc \in [Cars -> CarPC] /\ answered \in [Cars -> Cars \cup {NoCar}]
    BY DEF EntranceInit, CarPC
  <2>2. mon_pc \in MonPC /\ mutex_kind \in Kinds
    BY DEF EntranceInit, MonPC
  <2>3. /\ occupant \in Cars \cup {NoCar} /\ license_plate \in Cars \cup {NoCar}
        /\ shown_for \in Cars \cup {NoCar} /\ license \in Cars \cup {NoCar}
        /\ quit \in BOOLEAN /\ spurious \in BOOLEAN
    BY DEF EntranceInit
  <2>4. /\ display \in Verdicts \cup {"blank"} /\ bgate_state \in {"C", "O", "R", "L"}
        /\ bgate_owner \in {"monitor", NoCar}
        /\ bgate_count \in 0..2 /\ (bgate_count = 0 <=> bgate_owner = NoCar)
    BY DEF EntranceInit
  <2>5. QED
    BY <2>1, <2>2, <2>3, <2>4 DEF EntranceTypeOK
<1>2. GateInv /\ OccupantInv
  <2>1. GateInv
    BY DEF EntranceInit, GateInv, nested, admitting
  <2>2. OccupantInv
    BY EntranceAssumption DEF EntranceInit, OccupantInv
  <2>3. QED
    BY <2>1, <2>2
<1>3. HandOverInv /\ SignAnswersOwnCar
  BY DEF EntranceInit, HandOverInv, SignAnswersOwnCar, answering, carsAt
<1>4. QED
  BY <1>1, <1>2, <1>3 DEF IInv

-----------------------------------------------------------------------------
(* What the second lock does, for each kind of mutex. *)
LEMMA LockGateCounts ==
  ASSUME EntranceTypeOK, LockGate("monitor")
  PROVE  /\ bgate_owner' = "monitor"
         /\ bgate_count = 0 => bgate_count' = 1
         /\ bgate_count # 0 => mutex_kind # "normal"
         /\ bgate_count # 0 /\ mutex_kind = "recursive" => bgate_count' = bgate_count + 1
         /\ bgate_count # 0 /\ mutex_kind = "errorcheck" => bgate_count' = bgate_count
BY EntranceAssumption DEF LockGate, EntranceTypeOK, Kinds

(* An unlock takes one level off, and the last one frees the mutex. *)
LEMMA UnlockGateCounts ==
  ASSUME EntranceTypeOK, UnlockGate("monitor")
  PROVE  /\ bgate_count = 0 => bgate_count' = 0
         /\ bgate_count > 0 => bgate_count' = bgate_count - 1
         /\ bgate_owner' \in {"monitor", NoCar}
         /\ bgate_count' = 0 <=> bgate_owner' = NoCar
BY EntranceAssumption DEF UnlockGate, EntranceTypeOK

(* A car that moves on, and nobody else. *)
LEMMA CarMoves ==
  ASSUME EntranceTypeOK, NEW c \in Cars, NEW l \in CarPC, CarGoto(c, l)
  PROVE  /\ car_pc' \in [Cars -> CarPC]
         /\ car_pc'[c] = l
         /\ \A d \in Cars : d # c => car_pc'[d] = car_pc[d]
BY DEF CarGoto, EntranceTypeOK

(* A wait that returns without a signal continues after it. *)
LEMMA WokenFrom ==
  ASSUME NEW l \in DOMAIN Woken
  PROVE  \/ l = "lps_wait" /\ Woken[l] = "copy"
         \/ l = "open_wait" /\ Woken[l] = "open_woken"
         \/ l = "close_wait" /\ Woken[l] = "close_woken"
         \/ l = "sign_wait" /\ Woken[l] = "sign_woken"
         \/ l = "gate_wait" /\ Woken[l] = "gate_woken"
BY DEF Woken

(* bgate_mutex is locked as deep as the place of the monitor says. *)
GateOK == /\ GateInv
          /\ bgate_owner \in {"monitor", NoCar}
          /\ bgate_count \in 0..2 /\ (bgate_count = 0 <=> bgate_owner = NoCar)
          /\ mutex_kind \in Kinds

(* Every step of the monitor keeps the depth in line with its place. *)
LEMMA GateStep == EntranceTypeOK /\ GateInv /\ [EntranceNext]_entranceVars => GateOK'
<1> SUFFICES ASSUME EntranceTypeOK, GateInv, [EntranceNext]_entranceVars PROVE GateOK'
  OBVIOUS
<1> USE DEF carVars, signVars, gateVars, worldVars, monVars
<1>1. ASSUME UNCHANGED <<bgate_owner, bgate_count, mutex_kind>>,
             mon_pc \in released, mon_pc' \in released \/ mon_pc' = mon_pc
      PROVE  GateOK'
  BY <1>1 DEF GateOK, GateInv, EntranceTypeOK, released, nested, admitting
<1>2. ASSUME NEW c \in Cars, Car(c) PROVE GateOK'
  <2>1. /\ UNCHANGED <<bgate_owner, bgate_count, mutex_kind>>
        /\ mon_pc' = mon_pc \/ (mon_pc = "lps_wait" /\ mon_pc' = "copy")
    <3>1. CASE SignalSensor(c)
      BY <3>1 DEF SignalSensor
    <3>2. CASE ~SignalSensor(c)
      BY <1>2, <3>2 DEF Car, Arrive, Trigger, WaitSign, CopySign, WaitGate, PassGate, Leave
    <3>3. QED
      BY <3>1, <3>2
  <2>2. CASE mon_pc' = mon_pc
    BY <2>1, <2>2 DEF GateOK, GateInv, EntranceTypeOK
  <2>3. CASE mon_pc = "lps_wait" /\ mon_pc' = "copy"
    BY <2>1, <2>3, <1>1 DEF released
  <2>4. QED
    BY <2>1, <2>2, <2>3
<1>3. CASE WaitSensor \/ CopyPlate \/ WriteSign \/ SignalSign \/ TestQuit
  BY <1>3, <1>1 DEF WaitSensor, CopyPlate, WriteSign, SignalSign, TestQuit, released
<1>4. ASSUME LockGate("monitor"), UNCHANGED mutex_kind,
             \/ mon_pc = "admit" /\ mon_pc' = "open"
             \/ mon_pc = "open" /\ mon_pc' \in nested
             \/ mon_pc \in admitting /\ mon_pc' \in nested
      PROVE  GateOK'
  <2>1. CASE mon_pc = "admit"
    BY <1>4, <2>1, LockGateCounts, EntranceAssumption DEF GateOK, GateInv, EntranceTypeOK, released, nested, admitting
  <2>2. CASE mon_pc = "open"
    BY <1>4, <2>2, LockGateCounts
    DEF GateOK, GateInv, EntranceTypeOK, Kinds, released, nested, admitting
  <2>3. CASE mon_pc \in admitting /\ mutex_kind = "recursive"
    BY <1>4, <2>3, LockGateCounts DEF GateOK, GateInv, EntranceTypeOK, released, nested, admitting
  <2>4. CASE mon_pc \in admitting /\ mutex_kind = "errorcheck"
    BY <1>4, <2>4, LockGateCounts, EntranceAssumption DEF GateOK, GateInv, EntranceTypeOK, released, nested, admitting
  <2>5. QED
    BY <1>4, <2>1, <2>2, <2>3, <2>4 DEF GateInv, EntranceTypeOK, Kinds
<1>5. ASSUME UnlockGate("monitor"), UNCHANGED mutex_kind,
             \/ mon_pc \in nested /\ mon_pc' \in admitting
             \/ mon_pc = "unlock" /\ mon_pc' = "loop"
      PROVE  GateOK'
  BY <1>5, UnlockGateCounts DEF GateOK, GateInv, EntranceTypeOK, Kinds, released, nested, admitting
<1>6. CASE LockAdmit \/ LockOpen \/ LockClose
  BY <1>6, <1>4 DEF LockAdmit, LockOpen, LockClose, nested, admitting
<1>7. CASE EndOpen
  BY <1>7, <1>4, <1>5 DEF EndOpen, EndWait, Unlock, nested, admitting
<1>8. CASE EndClose \/ EndAdmit
  BY <1>8, <1>4, <1>5 DEF EndClose, EndAdmit, EndWait, Unlock, nested, admitting
<1>9. CASE Raise \/ Lower
  BY <1>9, <1>5 DEF Raise, Lower, nested, admitting
<1>10. CASE SimClosing \/ UNCHANGED entranceVars
  BY <1>10 DEF SimClosing, entranceVars, GateOK, GateInv, EntranceTypeOK
<1>11. CASE SpuriousWakeup
  <2>1. /\ UNCHANGED <<bgate_owner, bgate_count, mutex_kind>>
        /\ \/ mon_pc' = mon_pc
           \/ mon_pc = "lps_wait" /\ mon_pc' = "copy"
           \/ mon_pc = "open_wait" /\ mon_pc' = "open_woken"
           \/ mon_pc = "close_wait" /\ mon_pc' = "close_woken"
           \/ mon_pc' \in {"sign_woken", "gate_woken"} /\ mon_pc \in {"sign_wait", "gate_wait"}
    BY <1>11, WokenFrom DEF SpuriousWakeup
  <2>2. QED
    BY <2>1 DEF GateOK, GateInv, EntranceTypeOK, MonPC, released, nested, admitting
<1>12. QED
  BY <1>2, <1>3, <1>6, <1>7, <1>8, <1>9, <1>10, <1>11 DEF EntranceNext, Monitor

(* Each step keeps the types. *)
LEMMA TypeStep == EntranceTypeOK /\ GateInv /\ [EntranceNext]_entranceVars => EntranceTypeOK'
<1> SUFFICES ASSUME EntranceTypeOK, GateInv, [EntranceNext]_entranceVars PROVE EntranceTypeOK'
  OBVIOUS
<1> USE DEF carVars, signVars, gateVars, worldVars, monVars
<1>1. ASSUME NEW c \in Cars, Car(c) PROVE EntranceTypeOK'
  <2>1. \E l \in CarPC : CarGoto(c, l)
    BY <1>1 DEF Car, Arrive, Trigger, SignalSensor, WaitSign, CopySign, WaitGate, PassGate,
                Leave, CarPC
  <2>2. car_pc' \in [Cars -> CarPC]
    BY <2>1, CarMoves
  <2>3. answered' \in [Cars -> Cars \cup {NoCar}]
    BY <1>1 DEF EntranceTypeOK, Car, Arrive, Trigger, SignalSensor, WaitSign, CopySign, WaitGate,
                PassGate, Leave
  <2>4. mon_pc' \in MonPC /\ UNCHANGED <<signVars, gateVars, worldVars, license, quit>>
    BY <1>1 DEF EntranceTypeOK, MonPC, Car, Arrive, Trigger, SignalSensor, WaitSign, CopySign, WaitGate,
                PassGate, Leave
  <2>5. occupant' \in Cars \cup {NoCar} /\ license_plate' \in Cars \cup {NoCar}
    BY <1>1 DEF EntranceTypeOK, Car, Arrive, Trigger, SignalSensor, WaitSign, CopySign, WaitGate,
                PassGate, Leave
  <2>6. QED
    BY <2>2, <2>3, <2>4, <2>5 DEF EntranceTypeOK
<1>2. ASSUME Monitor PROVE EntranceTypeOK'
  <2>1. mon_pc' \in MonPC
    BY <1>2 DEF MonPC, Monitor, WaitSensor, CopyPlate, WriteSign, SignalSign, LockAdmit, LockOpen,
                Raise, EndOpen, LockClose, Lower, EndClose, EndAdmit, TestQuit, EndWait, Unlock
  <2>2. car_pc' \in [Cars -> CarPC]
    <3>1. CASE UNCHANGED car_pc
      BY <3>1 DEF EntranceTypeOK
    <3>2. CASE \E c \in Cars : CarGoto(c, "sign_woken") \/ CarGoto(c, "gate_woken")
      BY <3>2, CarMoves DEF CarPC
    <3>3. CASE Lower
      BY <3>3 DEF Lower, EntranceTypeOK, CarPC
    <3>4. QED
      BY <1>2, <3>1, <3>2, <3>3
      DEF Monitor, WaitSensor, CopyPlate, WriteSign, SignalSign, LockAdmit, LockOpen, Raise,
          EndOpen, LockClose, EndClose, EndAdmit, TestQuit, EndWait, Unlock, carsAt
  <2>3. /\ bgate_owner' \in {"monitor", NoCar} /\ bgate_count' \in 0..2
        /\ bgate_count' = 0 <=> bgate_owner' = NoCar
    BY GateStep DEF GateOK
  <2>4. /\ display' \in Verdicts \cup {"blank"} /\ bgate_state' \in {"C", "O", "R", "L"}
        /\ shown_for' \in Cars \cup {NoCar} /\ license' \in Cars \cup {NoCar}
        /\ UNCHANGED <<occupant, answered, license_plate, mutex_kind, quit, spurious>>
    <3>1. CASE WaitSensor \/ CopyPlate \/ WriteSign \/ SignalSign \/ TestQuit
      BY <3>1 DEF EntranceTypeOK, Verdicts, WaitSensor, CopyPlate, WriteSign, SignalSign, TestQuit
    <3>2. CASE LockAdmit \/ LockOpen \/ Raise \/ LockClose \/ Lower
      BY <3>2 DEF EntranceTypeOK, LockAdmit, LockOpen, Raise, LockClose, Lower
    <3>3. CASE EndOpen \/ EndClose \/ EndAdmit
      BY <3>3 DEF EntranceTypeOK, EndOpen, EndClose, EndAdmit, EndWait, Unlock
    <3>4. QED
      BY <1>2, <3>1, <3>2, <3>3 DEF Monitor
  <2>5. QED
    BY <2>1, <2>2, <2>3, <2>4 DEF EntranceTypeOK
<1>3. CASE SimClosing
  BY <1>3 DEF SimClosing, EntranceTypeOK
<1>4. CASE SpuriousWakeup
  <2>1. mon_pc' \in MonPC
    BY <1>4, WokenFrom DEF SpuriousWakeup, EntranceTypeOK, MonPC
  <2>2. car_pc' \in [Cars -> CarPC]
    <3>1. CASE UNCHANGED car_pc
      BY <3>1 DEF EntranceTypeOK
    <3>2. ASSUME NEW c \in Cars, car_pc[c] \in DOMAIN Woken, CarGoto(c, Woken[car_pc[c]])
          PROVE  car_pc' \in [Cars -> CarPC]
      <4>1. Woken[car_pc[c]] \in CarPC
        BY <3>2, WokenFrom DEF CarPC, EntranceTypeOK
      <4>2. QED
        BY <3>2, <4>1, CarMoves
    <3>3. QED
      BY <1>4, <3>1, <3>2 DEF SpuriousWakeup
  <2>3. QED
    BY <1>4, <2>1, <2>2 DEF SpuriousWakeup, EntranceTypeOK
<1>5. CASE UNCHANGED entranceVars
  BY <1>5 DEF entranceVars, EntranceTypeOK
<1>6. QED
  BY <1>1, <1>2, <1>3, <1>4, <1>5 DEF EntranceNext

-----------------------------------------------------------------------------
(* Only the car that leaves frees the entrance, and only into a free       *)
(* entrance does a car drive.                                              *)
LEMMA OccupantStep == EntranceTypeOK /\ OccupantInv /\ [EntranceNext]_entranceVars => OccupantInv'
<1> SUFFICES ASSUME EntranceTypeOK, OccupantInv, [EntranceNext]_entranceVars PROVE OccupantInv'
  OBVIOUS
<1> USE DEF carVars, signVars, gateVars, worldVars, monVars
<1>1. ASSUME NEW c \in Cars, Car(c) PROVE OccupantInv'
  <2>1. CASE Arrive(c)
    BY <2>1, CarMoves, EntranceAssumption DEF Arrive, CarPC, OccupantInv
  <2>2. CASE Leave(c)
    <3>1. occupant = c
      BY <2>2 DEF Leave, OccupantInv
    <3>2. QED
      BY <2>2, <3>1, CarMoves, EntranceAssumption DEF Leave, CarPC, OccupantInv
  <2>3. CASE Trigger(c) \/ SignalSensor(c) \/ WaitSign(c) \/ CopySign(c) \/ WaitGate(c)
             \/ PassGate(c)
    <3>1. /\ car_pc[c] \notin {"outside", "in", "away"} /\ UNCHANGED occupant
          /\ \E l \in CarPC \ {"outside", "in", "away"} : CarGoto(c, l)
      BY <2>3 DEF Trigger, SignalSensor, WaitSign, CopySign, WaitGate, PassGate, CarPC
    <3>2. QED
      BY <3>1, CarMoves DEF OccupantInv
  <2>4. QED
    BY <1>1, <2>1, <2>2, <2>3 DEF Car
<1>2. ASSUME UNCHANGED occupant,
             \/ UNCHANGED car_pc
             \/ \E c \in Cars : /\ car_pc[c] \in {"sign_wait", "gate_wait"}
                                /\ CarGoto(c, "sign_woken") \/ CarGoto(c, "gate_woken")
      PROVE  OccupantInv'
  <2>1. CASE UNCHANGED car_pc
    BY <1>2, <2>1 DEF OccupantInv
  <2>2. CASE ~UNCHANGED car_pc
    <3>1. PICK c \in Cars : /\ car_pc[c] \in {"sign_wait", "gate_wait"}
                            /\ CarGoto(c, "sign_woken") \/ CarGoto(c, "gate_woken")
      BY <1>2, <2>2
    <3>2. QED
      BY <1>2, <3>1, CarMoves DEF OccupantInv, CarPC
  <2>3. QED
    BY <2>1, <2>2
<1>3. CASE Lower
  BY <1>3 DEF Lower, OccupantInv, EntranceTypeOK
<1>4. CASE Monitor /\ ~Lower
  BY <1>4, <1>2
  DEF Monitor, WaitSensor, CopyPlate, WriteSign, SignalSign, LockAdmit, LockOpen, Raise,
      EndOpen, LockClose, EndClose, EndAdmit, TestQuit, EndWait, Unlock, carsAt
<1>5. CASE SpuriousWakeup
  <2>1. ASSUME NEW c \in Cars, car_pc[c] \in DOMAIN Woken, CarGoto(c, Woken[car_pc[c]])
        PROVE  OccupantInv'
    <3>1. \/ car_pc[c] = "sign_wait" /\ Woken[car_pc[c]] = "sign_woken"
          \/ car_pc[c] = "gate_wait" /\ Woken[car_pc[c]] = "gate_woken"
      BY <2>1, WokenFrom DEF EntranceTypeOK, CarPC
    <3>2. QED
      BY <1>5, <2>1, <3>1, <1>2 DEF SpuriousWakeup
  <2>2. QED
    BY <1>5, <2>1, <1>2 DEF SpuriousWakeup
<1>6. CASE SimClosing \/ UNCHANGED entranceVars
  BY <1>6 DEF SimClosing, entranceVars, OccupantInv
<1>7. QED
  BY <1>1, <1>3, <1>4, <1>5, <1>6 DEF EntranceNext

-----------------------------------------------------------------------------
(* The other cars are on the road or inside while one is in the entrance. *)
LEMMA Alone ==
  ASSUME OccupantInv, NEW c \in Cars, car_pc[c] \notin {"outside", "in", "away"}
  PROVE  occupant = c /\ \A d \in Cars : d # c => car_pc[d] \in {"outside", "in", "away"}
BY DEF OccupantInv

(* A wake-up without a signal is remembered for ever. *)
LEMMA NoneSpurious == [EntranceNext]_entranceVars /\ ~spurious' => ~spurious /\ ~SpuriousWakeup
<1> SUFFICES ASSUME [EntranceNext]_entranceVars, ~spurious' PROVE ~spurious /\ ~SpuriousWakeup
  OBVIOUS
<1> USE DEF carVars, signVars, gateVars, worldVars, monVars
<1>1. ~SpuriousWakeup
  BY DEF SpuriousWakeup
<1>2. ASSUME NEW c \in Cars, Car(c) PROVE UNCHANGED spurious
  BY <1>2 DEF Car, Arrive, Trigger, SignalSensor, WaitSign, CopySign, WaitGate, PassGate, Leave
<1>3. CASE Monitor
  BY <1>1, <1>3
  DEF Monitor, WaitSensor, CopyPlate, WriteSign, SignalSign, LockAdmit, LockOpen, Raise,
      EndOpen, LockClose, Lower, EndClose, EndAdmit, TestQuit, EndWait, Unlock
<1>4. CASE SimClosing \/ UNCHANGED entranceVars
  BY <1>1, <1>4 DEF SimClosing, entranceVars
<1>5. QED
  BY <1>1, <1>2, <1>3, <1>4 DEF EntranceNext

(* Without a spurious wake-up car and monitor stay in step. *)
LEMMA HandOverStep ==
  EntranceTypeOK /\ OccupantInv /\ HandOverInv /\ [EntranceNext]_entranceVars /\ ~SpuriousWakeup => HandOverInv'
<1> SUFFICES ASSUME EntranceTypeOK, OccupantInv, HandOverInv, [EntranceNext]_entranceVars, ~SpuriousWakeup
             PROVE  HandOverInv'
  OBVIOUS
<1> USE DEF carVars, signVars, gateVars, worldVars, monVars
<1>1. ASSUME NEW c \in Cars, Car(c) PROVE HandOverInv'
  <2>1. CASE Arrive(c)
    BY <2>1, CarMoves, EntranceAssumption DEF Arrive, CarPC, HandOverInv
  <2>2. ASSUME car_pc[c] \notin {"outside", "in", "away"} PROVE HandOverInv'
    <3>1. occupant = c /\ \A d \in Cars : d # c => car_pc[d] \in {"outside", "in", "away"}
      BY <2>2, Alone
    <3>2. CASE Trigger(c)
      BY <3>1, <3>2, CarMoves DEF Trigger, CarPC, HandOverInv
    <3>3. CASE SignalSensor(c)
      BY <3>1, <3>3, CarMoves DEF SignalSensor, CarPC, HandOverInv, answering
    <3>4. CASE WaitSign(c)
      BY <3>1, <3>4, CarMoves DEF WaitSign, CarPC, HandOverInv
    <3>5. CASE CopySign(c)
      BY <3>1, <3>5, CarMoves DEF CopySign, CarPC, HandOverInv
    <3>6. CASE WaitGate(c) \/ PassGate(c)
      BY <3>1, <3>6, CarMoves DEF WaitGate, PassGate, CarPC, HandOverInv
    <3>7. CASE Leave(c)
      BY <3>1, <3>7, CarMoves DEF Leave, CarPC, HandOverInv
    <3>8. QED
      BY <1>1, <2>2, <3>2, <3>3, <3>4, <3>5, <3>6, <3>7 DEF Car, Arrive
  <2>3. QED
    BY <1>1, <2>1, <2>2
    DEF Car, Trigger, SignalSensor, WaitSign, CopySign, WaitGate, PassGate, Leave
<1>2. CASE CopyPlate
  BY <1>2 DEF CopyPlate, HandOverInv, answering
<1>3. CASE WriteSign
  BY <1>3 DEF WriteSign, HandOverInv, answering
<1>4. CASE SignalSign
  <2>1. mon_pc' \notin answering /\ UNCHANGED <<occupant, license_plate, license, shown_for, display>>
    BY <1>4 DEF SignalSign, answering
  <2>2. CASE UNCHANGED car_pc
    BY <2>1, <2>2 DEF HandOverInv
  <2>3. ASSUME NEW c \in Cars, car_pc[c] = "sign_wait", CarGoto(c, "sign_woken")
        PROVE  HandOverInv'
    <3>1. occupant = c /\ license = c /\ shown_for = c
      BY <1>4, <2>3, Alone DEF SignalSign, HandOverInv, answering
    <3>2. QED
      BY <2>1, <2>3, <3>1, CarMoves DEF HandOverInv, CarPC
  <2>4. QED
    BY <1>4, <2>2, <2>3 DEF SignalSign, carsAt
<1>5. ASSUME UNCHANGED <<occupant, license_plate, license, shown_for, display>>,
             mon_pc' \in answering => mon_pc' = mon_pc,
             \A c \in Cars : \/ car_pc'[c] = car_pc[c]
                             \/ car_pc[c] = "gate_wait" /\ car_pc'[c] = "gate_woken"
      PROVE  HandOverInv'
  BY <1>5 DEF HandOverInv
<1>6. CASE Raise
  <2>1. CASE UNCHANGED car_pc
    BY <1>6, <2>1, <1>5 DEF Raise, answering
  <2>2. ASSUME NEW c \in Cars, car_pc[c] = "gate_wait", CarGoto(c, "gate_woken")
        PROVE  HandOverInv'
    BY <1>6, <2>2, <1>5, CarMoves DEF Raise, answering, CarPC
  <2>3. QED
    BY <1>6, <2>1, <2>2 DEF Raise, carsAt
<1>7. CASE Lower
  BY <1>7, <1>5 DEF Lower, answering
<1>8. CASE \/ WaitSensor \/ LockAdmit \/ LockOpen \/ EndOpen \/ LockClose
           \/ EndClose \/ EndAdmit \/ TestQuit
  <2>1. UNCHANGED <<carVars, license_plate, license, signVars>> /\ mon_pc' \notin answering
    BY <1>8 DEF WaitSensor, LockAdmit, LockOpen, EndOpen, LockClose, EndClose, EndAdmit, TestQuit,
                EndWait, Unlock, answering
  <2>2. QED
    BY <2>1, <1>5
<1>9. CASE SimClosing \/ UNCHANGED entranceVars
  BY <1>9, <1>5 DEF SimClosing, entranceVars
<1>10. QED
  BY <1>1, <1>2, <1>3, <1>4, <1>6, <1>7, <1>8, <1>9 DEF EntranceNext, Monitor

(* What a car reads on the sign is the answer for its plate. *)
LEMMA AnswerStep ==
  EntranceTypeOK /\ SignAnswersOwnCar /\ (spurious \/ HandOverInv) /\ [EntranceNext]_entranceVars
    => SignAnswersOwnCar'
<1> SUFFICES ASSUME EntranceTypeOK, SignAnswersOwnCar, spurious \/ HandOverInv, [EntranceNext]_entranceVars, ~spurious'
             PROVE  \A c \in Cars : answered'[c] \in {NoCar, c}
  BY DEF SignAnswersOwnCar
<1> USE DEF carVars, signVars, gateVars, worldVars, monVars
<1>1. ~spurious /\ ~SpuriousWakeup
  BY NoneSpurious
<1>2. ASSUME NEW c \in Cars, CopySign(c) PROVE \A d \in Cars : answered'[d] \in {NoCar, d}
  <2>1. shown_for = c
    BY <1>1, <1>2 DEF CopySign, HandOverInv
  <2>2. answered' = [answered EXCEPT ![c] = c]
    BY <1>2, <2>1 DEF CopySign
  <2>3. QED
    BY <1>1, <2>2 DEF EntranceTypeOK, SignAnswersOwnCar
<1>3. CASE UNCHANGED answered
  BY <1>1, <1>3 DEF SignAnswersOwnCar
<1>4. ASSUME NEW c \in Cars, Car(c), ~CopySign(c) PROVE UNCHANGED answered
  BY <1>4 DEF Car, Arrive, Trigger, SignalSensor, WaitSign, WaitGate, PassGate, Leave
<1>5. CASE Monitor
  BY <1>5, <1>3
  DEF Monitor, WaitSensor, CopyPlate, WriteSign, SignalSign, LockAdmit, LockOpen, Raise,
      EndOpen, LockClose, Lower, EndClose, EndAdmit, TestQuit, EndWait, Unlock
<1>6. CASE SimClosing \/ UNCHANGED entranceVars
  BY <1>6, <1>3 DEF SimClosing, entranceVars
<1>7. QED
  BY <1>1, <1>2, <1>3, <1>4, <1>5, <1>6 DEF EntranceNext

-----------------------------------------------------------------------------
(* The whole invariant, for every number of cars and every mutex kind. *)
THEOREM EntranceInvariant == EntranceSpec => []IInv
<1>1. IInv /\ [EntranceNext]_entranceVars => IInv'
  <2> SUFFICES ASSUME IInv, [EntranceNext]_entranceVars PROVE IInv'
    OBVIOUS
  <2>1. EntranceTypeOK' /\ GateInv' /\ OccupantInv'
    BY TypeStep, GateStep, OccupantStep DEF IInv, GateOK
  <2>2. spurious' \/ HandOverInv'
    BY HandOverStep, NoneSpurious DEF IInv
  <2>3. SignAnswersOwnCar'
    BY AnswerStep DEF IInv
  <2>4. QED
    BY <2>1, <2>2, <2>3 DEF IInv
<1>2. QED
  BY InitIInv, <1>1, PTL DEF EntranceSpec

(* Every variable keeps its type; in particular nobody locks bgate_mutex   *)
(* more than twice.                                                        *)
THEOREM EntranceTypes == EntranceSpec => []EntranceTypeOK
<1>1. IInv => EntranceTypeOK
  BY DEF IInv
<1>2. QED
  BY EntranceInvariant, <1>1, PTL

(* The nested locks of boom_gate_admit_one are balanced for every kind of  *)
(* mutex.                                                                  *)
THEOREM NestedLocksBalance == EntranceSpec => []GateReleased
<1>1. IInv => GateReleased
  BY DEF IInv, EntranceTypeOK, GateInv, GateReleased, released
<1>2. QED
  BY EntranceInvariant, <1>1, PTL

(* A car acts on the answer for its own plate. *)
THEOREM AnswersReachTheirCars == EntranceSpec => []SignAnswersOwnCar
<1>1. IInv => SignAnswersOwnCar
  BY DEF IInv
<1>2. QED
  BY EntranceInvariant, <1>1, PTL

(* The plate the monitor decides on is that of the car in the entrance. *)
THEOREM MonitorInStep == EntranceSpec => []MonitorServesOccupant
<1>1. IInv => MonitorServesOccupant
  BY DEF IInv, HandOverInv, MonitorServesOccupant, answering
<1>2. QED
  BY EntranceInvariant, <1>1, PTL

(* Only the car just admitted waits for the gate. *)
THEOREM GateSignalReachesAdmitted == EntranceSpec => []GateWakesAdmittedCar
<1>1. IInv => GateWakesAdmittedCar
  BY DEF IInv, HandOverInv, GateWakesAdmittedCar, carsAt
<1>2. QED
  BY EntranceInvariant, <1>1, PTL
=============================================================================

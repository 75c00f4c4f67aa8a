----------------------------- MODULE MCOccupancy -----------------------------
(* A small park for TLC. *)
EXTENDS Occupancy, TLC

Symmetry == Permutations(Cars) \cup Permutations(Entrances)

oneEntrance ==
  Cardinality({e \in Entrances : en[e].pc # "read" \/ en[e].floor_signal # None}) <= 1
oneToCome == \E c \in Cars : car[c].stage = "outside"
nobodyIn == \A d \in DOMAIN sensor : sensor[d] = NoCar

(* Bound: the states that are explored further.  Before a car has passed a *)
(* gate, all three cars may use both entrances.  After that there is a     *)
(* third car, a second entrance, or a spurious wake-up, but no two of them, *)
(* and with the third car neither a lost update nor a plate outside the    *)
(* arrays.                                                                 *)
thirdCar == ~raced /\ \A c \in Cars : inArray(car[c].plate)
Scope ==
  \/ nobodyIn
  \/ oneEntrance /\ oneToCome
  \/ oneEntrance /\ ~spurious /\ thirdCar
  \/ oneToCome /\ ~spurious
=============================================================================

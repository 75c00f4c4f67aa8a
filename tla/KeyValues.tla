------------------------------ MODULE KeyValues ------------------------------
(***************************************************************************)
(* What the hash table promises: for each key the values added under it,   *)
(* latest first; finding gives the latest, deleting removes it.            *)
(***************************************************************************)
EXTENDS Sequences

CONSTANTS Keys, Values

VARIABLE values

Init == values = [k \in Keys |-> <<>>]

Add(k, v) == values' = [values EXCEPT ![k] = <<v>> \o @]
Delete(k) == values[k] # <<>> /\ values' = [values EXCEPT ![k] = Tail(@)]
Clear == values' = [k \in Keys |-> <<>>]

Next ==
  \/ \E k \in Keys : Delete(k) \/ \E v \in Values : Add(k, v)
  \/ Clear

Spec == Init /\ [][Next]_values
=============================================================================

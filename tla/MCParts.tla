------------------------------- MODULE MCParts -------------------------------
(***************************************************************************)
(* The linked list, the hash table, the fire alarm, one entrance and the   *)
(* handshake for TLC.  None of them shares a variable with another, so TLC *)
(* looks at one at a time: the others stay in an initial state.            *)
(***************************************************************************)
EXTENDS LinkedList, HashTable, FireAlarm, Entrance, Handshake, TLC

VARIABLE part

Init ==
  /\ part \in {"list", "table", "alarm", "entrance", "handshake"}
  /\ ListInit /\ htab_init /\ AlarmInit /\ EntranceInit /\ HandshakeInit
  /\ part # "list" => usage = "queue"
  /\ part # "table" => djb_hash = [k \in Keys |-> 0]
  /\ part # "entrance" => mutex_kind = "normal"

Next ==
  /\ UNCHANGED part
  /\ part # "list" => UNCHANGED listVars
  /\ part # "table" => UNCHANGED tableVars
  /\ part # "alarm" => UNCHANGED alarmVars
  /\ part # "entrance" => UNCHANGED entranceVars
  /\ part # "handshake" => UNCHANGED handshakeVars
  /\ \/ part = "list" /\ ListNext
     \/ part = "table" /\ TableNext
     \/ part = "alarm" /\ AlarmNext
     \/ part = "entrance" /\ EntranceNext
     \/ part = "handshake" /\ HandshakeNext

Spec == Init /\ [][Next]_<<listVars, tableVars, alarmVars, entranceVars, handshakeVars, part>>

Symmetry == Permutations(Authorised)

(* Bounds: the temperature changes at most three times among the samples   *)
(* that reach into the windows; what main does about an alarm is explored  *)
(* while every sample is hot; and the other programs move gates only once  *)
(* it does.                                                                *)
changes(s) == Cardinality({i \in 2..Len(s) : s[i] # s[i-1]})
Scope ==
  /\ \A l \in Levels : changes(raw[l]) <= 3
  /\ main_pc # "poll" => \A l \in Levels : \A i \in DOMAIN raw[l] : raw[l][i] >= 58
  /\ main_pc = "poll" => \A g \in Gates : bgate_s[g] = GateC
=============================================================================

------------------------------- MODULE NodeList -------------------------------
(***************************************************************************)
(* What the linked list promises in its two uses: a queue is a sequence of *)
(* nodes extended at the end and shortened at the front; a registry is     *)
(* extended at the front and loses whichever node it is told to.           *)
(***************************************************************************)
EXTENDS Sequences, SequencesExt

CONSTANT Nodes

VARIABLES
  list,
  usage  \* "queue" or "registry", until it is "closed"

vars == <<list, usage>>

Init == list = <<>> /\ usage \in {"queue", "registry"}

Fresh(n) == \A i \in DOMAIN list : list[i] # n

AddLast(n) == Fresh(n) /\ list' = Append(list, n)
AddFirst(n) == Fresh(n) /\ list' = <<n>> \o list
TakeFirst == list # <<>> /\ list' = Tail(list)
Take(n) == \E i \in DOMAIN list : list[i] = n /\ list' = RemoveAt(list, i)

Use ==
  /\ UNCHANGED usage
  /\ \/ usage = "queue" /\ (TakeFirst \/ \E n \in Nodes : AddLast(n))
     \/ usage = "registry" /\ \E n \in Nodes : AddFirst(n) \/ Take(n)

Close == list' = <<>> /\ usage # "closed" /\ usage' = "closed"

Next == Use \/ Close

Spec == Init /\ [][Next]_vars
=============================================================================

------------------------------ MODULE LinkedList ------------------------------
(***************************************************************************)
(* The doubly linked list of src/src/linked_list.c at the level of its     *)
(* pointers, used in the two ways the program uses it: a "queue"           *)
(* (entrance queues, the pool's requests) is appended to and popped, and a *)
(* popped node is later given to llist_delete_dangling_node; a "registry"  *)
(* (car_list) is pushed to and given its own nodes to delete.  Every list  *)
(* is guarded by a mutex, so one operation is one step.                    *)
(***************************************************************************)
EXTENDS Naturals, Sequences, FiniteSets

CONSTANTS
  Nodes,  \* addresses malloc may return
  NULL

ASSUME ListAssumption ==
  /\ IsFiniteSet(Nodes)
  /\ NULL \notin Nodes

VARIABLES
  head, tail,      \* of the list_t
  next, previous,  \* of each node: freed memory keeps its contents
  allocated,       \* nodes between their malloc and their free
  dangling,        \* popped nodes the caller still holds
  usage            \* how the program uses this list, until it is "closed"

listVars == <<head, tail, next, previous, allocated, dangling, usage>>

Pointers == Nodes \cup {NULL}

(* llist_init. What a node not yet allocated contains is never read. *)
ListInit ==
  /\ head = NULL /\ tail = NULL
  /\ next = [n \in Nodes |-> NULL] /\ previous = next
  /\ allocated = {} /\ dangling = {}
  /\ usage \in {"queue", "registry"}

(* malloc returns an address that is not in use. *)
Malloc(n) == n \notin allocated /\ allocated' = allocated \cup {n}

-----------------------------------------------------------------------------
(* A definition marked "Mutant" is a bug that could be made in place of the *)
(* definition after it; it is used only to show that a property notices.   *)

(* Mutant: the old head is not linked back to the new one. *)
LinkHeadOneWay(n) ==
  /\ head' = n
  /\ next' = [next EXCEPT ![n] = head]
  /\ previous' = [previous EXCEPT ![n] = NULL]
  /\ tail' = IF head = NULL THEN n ELSE tail

(* llist_push_empty: link n before the head.  The one-item case of the     *)
(* code, head = tail after the push, cannot occur.                         *)
LinkHead(n) ==
  /\ head' = n
  /\ next' = [next EXCEPT ![n] = head]
  /\ previous' = [m \in Nodes |-> IF m = n THEN NULL
                                  ELSE IF m = head THEN n ELSE previous[m]]
  /\ tail' = IF head = NULL THEN n ELSE tail

(* llist_append_empty: push onto an empty list, else link n after the tail. *)
LinkTail(n) ==
  IF head = NULL /\ tail = NULL THEN LinkHead(n)
  ELSE /\ tail' = n
       /\ next' = [next EXCEPT ![tail] = n, ![n] = NULL]
       /\ previous' = [previous EXCEPT ![n] = tail]
       /\ UNCHANGED head

LlistPush(n) == usage = "registry" /\ Malloc(n) /\ LinkHead(n) /\ UNCHANGED <<dangling, usage>>

(* Mutant: the node is put in front. *)
AppendInFront(n) == usage = "queue" /\ Malloc(n) /\ LinkHead(n) /\ UNCHANGED <<dangling, usage>>

LlistAppend(n) == usage = "queue" /\ Malloc(n) /\ LinkTail(n) /\ UNCHANGED <<dangling, usage>>

(* Mutant: the test for a single item is forgotten. *)
UnlinkHeadAlways ==
  /\ head' = next[head]
  /\ UNCHANGED <<tail, next, previous>>

(* llist_pop of a list that is not empty: one, two, or more items. *)
UnlinkHead ==
  CASE head = tail -> /\ head' = NULL /\ tail' = NULL
                      /\ UNCHANGED <<next, previous>>
    [] head # tail /\ next[head] = tail -> /\ head' = tail
                                           /\ UNCHANGED <<tail, next, previous>>
    [] OTHER -> /\ head' = next[head]
                /\ previous' = [previous EXCEPT ![next[head]] = NULL]
                /\ UNCHANGED <<tail, next>>

(* Mutant: the popped node is freed as well as returned. *)
PopAndFree ==
  /\ usage = "queue"
  /\ IF head = NULL THEN UNCHANGED listVars
     ELSE /\ dangling' = dangling \cup {head}
          /\ UnlinkHead
          /\ allocated' = allocated \ {head}
          /\ UNCHANGED usage

LlistPop ==
  /\ usage = "queue"
  /\ IF head = NULL THEN UNCHANGED listVars
     ELSE /\ dangling' = dangling \cup {head}
          /\ UnlinkHead
          /\ UNCHANGED <<allocated, usage>>

LlistDeleteDanglingNode(n) ==
  /\ n \in dangling
  /\ dangling' = dangling \ {n}
  /\ allocated' = allocated \ {n}
  /\ UNCHANGED <<head, tail, next, previous, usage>>

-----------------------------------------------------------------------------
(* The nodes on the way from a pointer along next, as far as Cardinality   *)
(* steps: what a reader of the list finds.                                 *)
steps[k \in 0..Cardinality(Nodes)] ==
  IF k = 0 THEN head
  ELSE IF steps[k-1] = NULL THEN NULL ELSE next[steps[k-1]]
contents ==
  LET last == Cardinality({k \in DOMAIN steps : steps[k] # NULL})
  IN  [i \in 1..last |-> steps[i-1]]
inList == {steps[k] : k \in DOMAIN steps} \ {NULL}

(* llist_close: every item on the way from the head is freed, then the     *)
(* list itself, so its head and tail are no more.                          *)
LlistClose ==
  /\ usage # "closed" /\ usage' = "closed"
  /\ head' = NULL /\ tail' = NULL
  /\ allocated' = allocated \ inList
  /\ UNCHANGED <<next, previous, dangling>>

(* llist_delete_node, for a node the caller knows to be in the list. *)
Unlink(n) ==
  /\ next' = IF previous[n] = NULL THEN next
             ELSE [next EXCEPT ![previous[n]] = next[n]]
  /\ head' = IF previous[n] = NULL THEN next[n] ELSE head
  /\ previous' = IF next[n] = NULL THEN previous
                 ELSE [previous EXCEPT ![next[n]] = previous[n]]
  /\ tail' = IF next[n] = NULL THEN previous[n] ELSE tail

LlistDeleteNode(n) ==
  /\ usage = "registry"
  /\ n \in inList
  /\ Unlink(n)
  /\ allocated' = allocated \ {n}
  /\ UNCHANGED <<dangling, usage>>

ListNext ==
  \/ LlistPop \/ LlistClose
  \/ \E n \in Nodes : \/ LlistPush(n) \/ LlistAppend(n)
                      \/ LlistDeleteDanglingNode(n) \/ LlistDeleteNode(n)

ListSpec == ListInit /\ [][ListNext]_listVars

-----------------------------------------------------------------------------
(* The type of every variable. *)
ListTypeOK ==
  /\ head \in Pointers /\ tail \in Pointers
  /\ next \in [Nodes -> Pointers] /\ previous \in [Nodes -> Pointers]
  /\ allocated \subseteq Nodes /\ dangling \subseteq allocated
  /\ usage \in {"queue", "registry", "closed"}

(* head, tail and the chain of next pointers describe one list: it ends at *)
(* tail, visits no node twice, and consists of exactly the nodes that are  *)
(* allocated and not popped, so nothing leaks and nothing freed is read.   *)
WellLinked ==
  /\ head = NULL <=> tail = NULL
  /\ head # NULL => contents[Len(contents)] = tail /\ next[tail] = NULL
  /\ Cardinality(inList) = Len(contents)
  /\ inList = allocated \ dangling

(* Every node of a registry is safe to delete: its two neighbours are in   *)
(* the list and point back at it.  (In a queue of two, popping leaves the  *)
(* new head pointing back at the popped node, although linked_list.h:50    *)
(* says it is disconnected; no queue is ever given to llist_delete_node.)  *)
SafeToDelete ==
  usage = "registry" =>
    \A n \in inList :
      /\ previous[n] = NULL <=> n = head
      /\ next[n] # NULL => previous[next[n]] = n
      /\ previous[n] # NULL => previous[n] \in inList /\ next[previous[n]] = n

(* The list behaves as a sequence of nodes. *)
NL == INSTANCE NodeList WITH list <- contents
ImplementsNodeList == NL!Spec
=============================================================================

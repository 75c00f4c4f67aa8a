------------------------------ MODULE HashTable ------------------------------
(***************************************************************************)
(* The chained hash table of src/src/htab.c, in which both programs keep   *)
(* the authorised license plates.  A bucket is its chain of items, first   *)
(* item first; the hash function is any function from keys to buckets.     *)
(***************************************************************************)
EXTENDS Naturals, Sequences, SequencesExt, FiniteSetsExt

CONSTANTS
  Keys, Values,
  NoItem,    \* the NULL of htab_find
  Size,      \* the n of htab_init
  MaxItems   \* bound on the items in the table, for model checking only

ASSUME TableAssumption ==
  /\ Size \in Nat \ {0} /\ MaxItems \in Nat
  /\ \A k \in Keys, v \in Values : NoItem # [key |-> k, value |-> v]

VARIABLES
  djb_hash,  \* the hash of each key, reduced modulo size
  buckets,   \* the chains; <<>> of no buckets once destroyed
  size

tableVars == <<djb_hash, buckets, size>>

Items == [key : Keys, value : Values]

htab_init ==
  /\ djb_hash \in [Keys -> 0..Size - 1]
  /\ buckets = [b \in 0..Size - 1 |-> <<>>]
  /\ size = Size

(* htab_bucket: the chain of a key. *)
htab_bucket(k) == buckets[djb_hash[k]]

(* positions of the items of a chain that carry key k *)
positions(k) == {i \in DOMAIN htab_bucket(k) : htab_bucket(k)[i].key = k}

(* A definition marked "Mutant" is a bug that could be made in place of the *)
(* definition after it; it is used only to show that a property notices.   *)

(* htab_find: the first item of the chain whose key matches, or NoItem.*)
htab_find(k) == IF positions(k) = {} THEN NoItem
                ELSE htab_bucket(k)[Min(positions(k))]

itemCount == FoldSet(LAMBDA b, n : n + Len(buckets[b]), 0, DOMAIN buckets)

(* Mutant: key and value are exchanged. *)
AddExchanged(k, v) ==
  /\ size > 0 /\ itemCount < MaxItems
  /\ buckets' = [buckets EXCEPT ![djb_hash[k]] = <<[key |-> v, value |-> k]>> \o @]
  /\ UNCHANGED <<djb_hash, size>>

(* htab_add puts a new item before the chain, whether or not the key is    *)
(* there already.                                                          *)
htab_add(k, v) ==
  /\ size > 0 /\ itemCount < MaxItems
  /\ buckets' = [buckets EXCEPT ![djb_hash[k]] = <<[key |-> k, value |-> v]>> \o @]
  /\ UNCHANGED <<djb_hash, size>>

(* Mutant: unlinking an item makes the rest of the chain the bucket, even  *)
(* when it has a predecessor.                                              *)
DeleteAndBefore(k) ==
  /\ size > 0 /\ positions(k) # {}
  /\ LET i == Min(positions(k))
     IN  buckets' = [buckets EXCEPT ![djb_hash[k]] = SubSeq(@, i + 1, Len(@))]
  /\ UNCHANGED <<djb_hash, size>>

(* htab_delete unlinks and frees the first item with the key, if any. *)
htab_delete(k) ==
  /\ size > 0 /\ positions(k) # {}
  /\ buckets' = [buckets EXCEPT ![djb_hash[k]] = RemoveAt(@, Min(positions(k)))]
  /\ UNCHANGED <<djb_hash, size>>

htab_destroy ==
  /\ size > 0
  /\ buckets' = [b \in 0..Size - 1 |-> <<>>]
  /\ size' = 0
  /\ UNCHANGED djb_hash

TableNext ==
  \/ \E k \in Keys : htab_delete(k) \/ \E v \in Values : htab_add(k, v)
  \/ htab_destroy

TableSpec == htab_init /\ [][TableNext]_tableVars

-----------------------------------------------------------------------------
(* The type of every variable. *)
TableTypeOK ==
  /\ djb_hash \in [Keys -> 0..Size - 1]
  /\ buckets \in [0..Size - 1 -> Seq(Items)]
  /\ size \in {0, Size}

(* the r-th smallest of a finite set of numbers *)
nth(S, r) == CHOOSE p \in S : Cardinality({q \in S : q <= p}) = r

(* The table seen as a map from keys to stacks of values: the items of a   *)
(* key, wherever they are, in the order of the chain.                      *)
valuesOf ==
  [k \in Keys |->
     [r \in 1..Cardinality(positions(k)) |-> htab_bucket(k)[nth(positions(k), r)].value]]

KV == INSTANCE KeyValues WITH values <- valuesOf
ImplementsKeyValues == KV!Spec

(* Keys that collide stay apart: what htab_find gives for a key changes    *)
(* only by adding or deleting that key, or with the whole table, whatever  *)
(* is linked in or unlinked around its items.                              *)
KeysApart ==
  [][\A k \in Keys : htab_find(k)' # htab_find(k)
       => \/ htab_delete(k)
          \/ \E v \in Values : htab_add(k, v)
          \/ htab_destroy]_tableVars
=============================================================================

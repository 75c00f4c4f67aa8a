--------------------------- MODULE HashTableProofs ---------------------------
(***************************************************************************)
(* Proofs about the hash table, for any set of keys, any number of buckets *)
(* and any hash function: keys that collide do not disturb each other.     *)
(***************************************************************************)
EXTENDS HashTable, FiniteSetTheorems, SequenceTheorems, TLAPS,
        WellFoundedInduction, FiniteSets, Integers

(* The positions of key k in a chain, and the values found there, in order *)
(* (positions and valuesOf of the model, for one chain).                   *)
places(c, k) == {i \in DOMAIN c : c[i].key = k}
stack(c, k) ==
  [r \in 1..Cardinality(places(c, k)) |-> c[nth(places(c, k), r)].value]

(* The function f lists the n members of S in increasing order. *)
Lists(n, f, S) ==
  /\ n \in Nat /\ f \in [1..n -> S]
  /\ \A i, j \in 1..n : i < j => f[i] < f[j]
  /\ \A p \in S : \E i \in 1..n : f[i] = p

-----------------------------------------------------------------------------
(* The least of some natural numbers. *)
LEMMA LeastNumber ==
  ASSUME NEW S \in SUBSET Nat, S # {}
  PROVE  \E m \in S : \A k \in S : m <= k
<1>1. \E m \in S : \A k \in S : ~(<<k, m>> \in OpToRel(<, Nat))
  BY WFMin, NatLessThanWellFounded
<1>2. PICK m \in S : \A k \in S : ~(<<k, m>> \in OpToRel(<, Nat))
  BY <1>1
<1>3. ASSUME NEW k \in S, k < m PROVE FALSE
  <2>1. <<k, m>> \in OpToRel(<, Nat)
    BY <1>3 DEF OpToRel
  <2>2. QED
    BY <1>2, <2>1
<1>4. m \in Nat /\ \A k \in S : k \in Nat
  OBVIOUS
<1>5. ASSUME NEW k \in S PROVE m <= k
  BY <1>3, <1>4
<1>6. QED
  BY <1>5

(* Removing one element moves those after it up by one. *)
LEMMA RemovingOne ==
  ASSUME NEW S, NEW s \in Seq(S), NEW i \in 1..Len(s)
  PROVE  /\ RemoveAt(s, i) \in Seq(S) /\ Len(RemoveAt(s, i)) = Len(s) - 1
         /\ \A j \in 1..Len(s) - 1 : RemoveAt(s, i)[j] = IF j < i THEN s[j] ELSE s[j + 1]
<1>1. /\ SubSeq(s, 1, i - 1) \in Seq(S) /\ Len(SubSeq(s, 1, i - 1)) = i - 1
      /\ \A j \in 1..i - 1 : SubSeq(s, 1, i - 1)[j] = s[j]
  OBVIOUS
<1>2. /\ SubSeq(s, i + 1, Len(s)) \in Seq(S) /\ Len(SubSeq(s, i + 1, Len(s))) = Len(s) - i
      /\ \A j \in 1..Len(s) - i : SubSeq(s, i + 1, Len(s))[j] = s[i + j]
  OBVIOUS
<1> DEFINE a == SubSeq(s, 1, i - 1)
           b == SubSeq(s, i + 1, Len(s))
<1>3. /\ a \in Seq(S) /\ Len(a) = i - 1
      /\ \A j \in 1..i - 1 : a[j] = s[j]
  BY <1>1
<1>4. /\ b \in Seq(S) /\ Len(b) = Len(s) - i
      /\ \A j \in 1..Len(s) - i : b[j] = s[i + j]
  BY <1>2
<1>5. RemoveAt(s, i) = a \o b
  BY DEF RemoveAt
<1> HIDE DEF a, b
<1>6. /\ a \o b \in Seq(S) /\ Len(a \o b) = Len(a) + Len(b)
      /\ \A j \in 1..Len(a) + Len(b) : (a \o b)[j] = IF j <= Len(a) THEN a[j] ELSE b[j - Len(a)]
  BY <1>3, <1>4, ConcatProperties
<1>7. Len(s) \in Nat /\ i \in Nat /\ 1 <= i /\ i <= Len(s)
  OBVIOUS
<1>8. Len(a) + Len(b) = Len(s) - 1
  BY <1>3, <1>4, <1>7
<1>9. ASSUME NEW j \in 1..Len(s) - 1
      PROVE  (a \o b)[j] = IF j < i THEN s[j] ELSE s[j + 1]
  <2>1. CASE j < i
    <3>1. j \in 1..i - 1 /\ j <= Len(a)
      BY <1>3, <1>7, <2>1
    <3>2. (a \o b)[j] = a[j]
      BY <1>6, <1>8, <3>1
    <3>3. QED
      BY <1>3, <2>1, <3>1, <3>2
  <2>2. CASE ~(j < i)
    <3>1. j - (i - 1) \in 1..Len(s) - i /\ ~(j <= Len(a)) /\ i + (j - (i - 1)) = j + 1
      BY <1>3, <1>7, <2>2
    <3>2. (a \o b)[j] = b[j - Len(a)]
      BY <1>6, <1>8, <3>1
    <3>3. b[j - (i - 1)] = s[i + (j - (i - 1))]
      BY <1>4, <3>1
    <3>4. QED
      BY <1>3, <2>2, <3>1, <3>2, <3>3
  <2>3. QED
    BY <2>1, <2>2
<1>10. QED
  BY <1>5, <1>6, <1>8, <1>9

(* What is listed in increasing order is counted, and found by rank. *)
LEMMA ListedIsCounted ==
  ASSUME NEW S \in SUBSET Nat, NEW n, NEW f, Lists(n, f, S)
  PROVE  /\ Cardinality(S) = n
         /\ \A r \in 1..n : nth(S, r) = f[r]
         /\ S # {} => 1 \in 1..n /\ Min(S) = f[1]
<1>1. /\ n \in Nat /\ f \in [1..n -> S]
      /\ \A i, j \in 1..n : i < j => f[i] < f[j]
      /\ \A p \in S : \E i \in 1..n : f[i] = p
  BY DEF Lists
<1>2. \A i \in 1..n : f[i] \in S /\ f[i] \in Nat
  BY <1>1
<1>3. \A i, j \in 1..n : f[i] <= f[j] <=> i <= j
  <2> SUFFICES ASSUME NEW i \in 1..n, NEW j \in 1..n PROVE f[i] <= f[j] <=> i <= j
    OBVIOUS
  <2>1. i < j \/ i = j \/ j < i
    BY <1>1
  <2>2. QED
    BY <1>1, <1>2, <2>1
<1>4. \A i, j \in 1..n : f[i] = f[j] => i = j
  BY <1>2, <1>3
<1>5. Cardinality(S) = n
  <2>1. f \in Bijection(1..n, S)
    BY <1>1, <1>4 DEF Bijection, Injection, Surjection, IsInjective
  <2>2. IsFiniteSet(1..n) /\ Cardinality(1..n) = n
    BY <1>1, FS_Interval
  <2>3. Cardinality(S) = Cardinality(1..n)
    BY <2>1, <2>2, FS_Bijection DEF ExistsBijection
  <2>4. QED
    BY <2>2, <2>3
<1>6. ASSUME NEW r \in 1..n PROVE Cardinality({q \in S : q <= f[r]}) = r
  <2> DEFINE upto == {q \in S : q <= f[r]}
             g == [i \in 1..r |-> f[i]]
  <2>1. g \in Bijection(1..r, upto)
    <3>1. \A i \in 1..r : i \in 1..n /\ f[i] \in upto
      BY <1>1, <1>2, <1>3
    <3>2. \A q \in upto : \E i \in 1..r : f[i] = q
      <4> SUFFICES ASSUME NEW q \in upto PROVE \E i \in 1..r : f[i] = q
        OBVIOUS
      <4>1. PICK i \in 1..n : f[i] = q
        BY <1>1
      <4>2. i <= r
        BY <1>3, <4>1
      <4>3. QED
        BY <1>1, <4>1, <4>2
    <3>3. g \in [1..r -> upto]
      BY <3>1
    <3>4. \A i, j \in 1..r : g[i] = g[j] => i = j
      BY <1>4, <3>1
    <3>5. QED
      BY <3>2, <3>3, <3>4 DEF Bijection, Injection, Surjection, IsInjective
  <2>2. IsFiniteSet(1..r) /\ Cardinality(1..r) = r
    BY <1>1, FS_Interval
  <2>3. Cardinality(upto) = Cardinality(1..r)
    BY <2>1, <2>2, FS_Bijection DEF ExistsBijection
  <2>4. QED
    BY <2>2, <2>3
<1>7. ASSUME NEW r \in 1..n PROVE nth(S, r) = f[r]
  <2>1. f[r] \in S /\ Cardinality({q \in S : q <= f[r]}) = r
    BY <1>2, <1>6
  <2>2. ASSUME NEW p \in S, Cardinality({q \in S : q <= p}) = r PROVE p = f[r]
    <3>1. PICK i \in 1..n : f[i] = p
      BY <1>1
    <3>2. Cardinality({q \in S : q <= f[i]}) = i
      BY <1>6
    <3>3. QED
      BY <2>2, <3>1, <3>2
  <2>3. QED
    BY <2>1, <2>2 DEF nth
<1>8. ASSUME S # {} PROVE 1 \in 1..n /\ Min(S) = f[1]
  <2>1. 1 \in 1..n
    <3>1. PICK p \in S : TRUE
      BY <1>8
    <3>2. PICK i \in 1..n : f[i] = p
      BY <1>1
    <3>3. QED
      BY <1>1, <3>2
  <2>2. f[1] \in S /\ \A p \in S : f[1] <= p
    BY <1>1, <1>2, <1>3, <2>1
  <2>3. ASSUME NEW m \in S, \A p \in S : m <= p PROVE m = f[1]
    BY <1>2, <2>1, <2>2, <2>3
  <2>4. Min(S) = f[1]
    BY <2>2, <2>3 DEF Min
  <2>5. QED
    BY <2>1, <2>4
<1>9. QED
  BY <1>5, <1>7, <1>8

(* Any numbers up to a bound can be listed in increasing order.            *)
LEMMA CanBeListed ==
  ASSUME NEW m \in Nat, NEW S \in SUBSET (1..m)
  PROVE  \E n \in Nat : \E f \in [1..n -> S] : Lists(n, f, S)
<1> DEFINE Listable(S1) == \E n \in Nat : \E f \in [1..n -> S1] : Lists(n, f, S1)
           bad == {k \in Nat : \E S1 \in SUBSET (1..k) : ~Listable(S1)}
<1> SUFFICES ASSUME bad # {} PROVE FALSE
  OBVIOUS
<1>1. PICK k \in bad : \A j \in bad : k <= j
  BY LeastNumber
<1>2. PICK S1 \in SUBSET (1..k) : ~Listable(S1)
  OBVIOUS
<1>3. k # 0
  <2> SUFFICES ASSUME k = 0 PROVE FALSE
    OBVIOUS
  <2>1. S1 = {}
    OBVIOUS
  <2>2. Lists(0, [i \in 1..0 |-> 1], S1)
    BY <2>1 DEF Lists
  <2>3. [i \in 1..0 |-> 1] \in [1..0 -> S1]
    BY <2>1
  <2>4. QED
    BY <1>2, <2>2, <2>3
<1>4. k - 1 \in Nat /\ k - 1 \notin bad
  <2>1. k \in Nat
    OBVIOUS
  <2> HIDE DEF bad
  <2>2. k - 1 \in Nat /\ ~(k <= k - 1)
    BY <1>3, <2>1
  <2>3. QED
    BY <1>1, <2>2
<1> DEFINE T == S1 \ {k}
<1>5. T \in SUBSET (1..k - 1)
  BY <1>1
<1>6. Listable(T)
  BY <1>4, <1>5
<1>7. PICK n \in Nat : \E f \in [1..n -> T] : Lists(n, f, T)
  BY <1>6
<1>8. PICK f \in [1..n -> T] : Lists(n, f, T)
  BY <1>7
<1>9. CASE k \notin S1
  <2>1. S1 = T
    BY <1>9
  <2>2. QED
    BY <1>2, <1>6, <2>1
<1>10. CASE k \in S1
  <2> DEFINE g == [i \in 1..n + 1 |-> IF i = n + 1 THEN k ELSE f[i]]
  <2>1. \A i \in 1..n : f[i] \in T /\ f[i] \in Nat /\ f[i] < k /\ i \in 1..n + 1 /\ i # n + 1
    <3> SUFFICES ASSUME NEW i \in 1..n
                 PROVE  f[i] \in T /\ f[i] \in Nat /\ f[i] < k /\ i \in 1..n + 1 /\ i # n + 1
      OBVIOUS
    <3>1. f[i] \in T
      BY <1>8
    <3>2. f[i] \in 1..k - 1 /\ k \in Nat
      BY <1>5, <3>1
    <3> HIDE DEF T
    <3>3. QED
      BY <3>1, <3>2
  <2>2. g \in [1..n + 1 -> S1] /\ n + 1 \in Nat
    BY <1>10, <2>1
  <2>3. \A i, j \in 1..n + 1 : i < j => g[i] < g[j]
    <3> SUFFICES ASSUME NEW i \in 1..n + 1, NEW j \in 1..n + 1, i < j PROVE g[i] < g[j]
      OBVIOUS
    <3>1. i \in 1..n /\ g[i] = f[i]
      OBVIOUS
    <3>2. CASE j = n + 1
      BY <2>1, <3>1, <3>2
    <3>3. CASE j # n + 1
      <4>1. j \in 1..n /\ g[j] = f[j]
        BY <3>3
      <4>2. QED
        BY <1>8, <3>1, <4>1 DEF Lists
    <3>4. QED
      BY <3>2, <3>3
  <2>4. ASSUME NEW p \in S1 PROVE \E i \in 1..n + 1 : g[i] = p
    <3>1. CASE p = k
      <4>1. n + 1 \in 1..n + 1 /\ g[n + 1] = p
        BY <3>1
      <4>2. QED
        BY <4>1
    <3>2. CASE p # k
      <4>1. PICK i \in 1..n : f[i] = p
        BY <1>8, <3>2 DEF Lists
      <4>2. i \in 1..n + 1 /\ g[i] = p
        BY <2>1, <4>1
      <4>3. QED
        BY <4>2
    <3>3. QED
      BY <3>1, <3>2
  <2> HIDE DEF g
  <2>5. Lists(n + 1, g, S1)
    BY <2>2, <2>3, <2>4 DEF Lists
  <2>6. QED
    BY <1>2, <2>2, <2>5
<1>11. QED
  BY <1>9, <1>10

-----------------------------------------------------------------------------
(* The positions of a key in a chain can be listed.                        *)
LEMMA PlacesListed ==
  ASSUME NEW c \in Seq(Items), NEW k \in Keys
  PROVE  /\ places(c, k) \in SUBSET Nat
         /\ \A i \in places(c, k) : i \in 1..Len(c) /\ c[i].key = k /\ c[i].value \in Values
         /\ \E n \in Nat : \E f \in [1..n -> places(c, k)] : Lists(n, f, places(c, k))
<1>1. Len(c) \in Nat /\ DOMAIN c = 1..Len(c) /\ \A i \in 1..Len(c) : c[i] \in Items
  OBVIOUS
<1>2. places(c, k) \in SUBSET (1..Len(c))
  BY <1>1 DEF places
<1>3. \A i \in places(c, k) : c[i].key = k /\ c[i].value \in Values
  BY <1>1 DEF places, Items
<1>4. \E n \in Nat : \E f \in [1..n -> places(c, k)] : Lists(n, f, places(c, k))
  BY <1>1, <1>2, CanBeListed
<1>5. places(c, k) \in SUBSET Nat /\ \A i \in places(c, k) : i \in 1..Len(c)
  BY <1>2
<1>6. QED
  BY <1>3, <1>4, <1>5

(* The stack of a key, read off a list of its positions.                   *)
LEMMA StackRead ==
  ASSUME NEW c \in Seq(Items), NEW k \in Keys, NEW n, NEW f, Lists(n, f, places(c, k))
  PROVE  /\ stack(c, k) \in Seq(Values) /\ Len(stack(c, k)) = n
         /\ \A r \in 1..n : stack(c, k)[r] = c[f[r]].value
<1> DEFINE S == places(c, k)
<1>1. S \in SUBSET Nat /\ \A i \in S : c[i].value \in Values
  BY PlacesListed
<1>2. Cardinality(S) = n /\ \A r \in 1..n : nth(S, r) = f[r]
  BY <1>1, ListedIsCounted
<1>3. n \in Nat /\ \A r \in 1..n : f[r] \in S
  BY DEF Lists
<1>4. stack(c, k) = [r \in 1..n |-> c[nth(S, r)].value]
  BY <1>2 DEF stack
<1> HIDE DEF S
<1>5. \A r \in 1..n : c[nth(S, r)].value = c[f[r]].value /\ c[f[r]].value \in Values
  BY <1>1, <1>2, <1>3
<1>6. QED
  BY SMTT(30), <1>3, <1>4, <1>5

(* A new first item goes on the stack of its own key and leaves the others. *)
LEMMA InFront ==
  ASSUME NEW c \in Seq(Items), NEW k \in Keys, NEW v \in Values, NEW j \in Keys
  PROVE  LET t == <<[key |-> k, value |-> v]>> \o c
         IN  /\ t \in Seq(Items)
             /\ stack(t, j) = IF j = k THEN <<v>> \o stack(c, j) ELSE stack(c, j)
<1> DEFINE item == [key |-> k, value |-> v]
           t == <<item>> \o c
           S == places(c, j)
<1>1. item \in Items /\ item.key = k /\ item.value = v
  BY DEF Items
<1> HIDE DEF item
<1>2. /\ t \in Seq(Items) /\ Len(t) = Len(c) + 1
      /\ t[1] = item /\ \A i \in 1..Len(c) : t[i + 1] = c[i]
  BY <1>1
<1> HIDE DEF t
<1>3. Len(c) \in Nat /\ DOMAIN t = 1..Len(c) + 1 /\ DOMAIN c = 1..Len(c)
  BY <1>2
<1>4. PICK n \in Nat : \E f \in [1..n -> S] : Lists(n, f, S)
  BY PlacesListed
<1>5. PICK f \in [1..n -> S] : Lists(n, f, S)
  BY <1>4
<1>6. /\ stack(c, j) \in Seq(Values) /\ Len(stack(c, j)) = n
      /\ \A r \in 1..n : stack(c, j)[r] = c[f[r]].value
  BY <1>5, StackRead
<1>7. /\ \A i, m \in 1..n : i < m => f[i] < f[m]
      /\ \A p \in S : \E i \in 1..n : f[i] = p
  BY <1>5 DEF Lists
<1>8. \A i \in 1..n : f[i] \in S /\ f[i] \in 1..Len(c) /\ c[f[i]].key = j
  BY <1>3 DEF places
<1>9. \A i \in 1..Len(c) : i + 1 \in places(t, j) <=> i \in S
  BY <1>2, <1>3 DEF places
<1>10. 1 \in places(t, j) <=> k = j
  BY <1>1, <1>2, <1>3 DEF places
<1>11. \A p \in places(t, j) : p = 1 \/ (p - 1 \in 1..Len(c) /\ p = (p - 1) + 1)
  BY <1>3 DEF places
<1> HIDE DEF S
<1>12. CASE j = k
  <2> DEFINE g == [i \in 1..n + 1 |-> IF i = 1 THEN 1 ELSE f[i - 1] + 1]
  <2>1. \A i \in 1..n + 1 : i # 1 => i - 1 \in 1..n
    OBVIOUS
  <2>2. g \in [1..n + 1 -> places(t, j)]
    <3>1. ASSUME NEW i \in 1..n + 1 PROVE (IF i = 1 THEN 1 ELSE f[i - 1] + 1) \in places(t, j)
      BY <1>8, <1>9, <1>10, <1>12, <2>1
    <3>2. QED
      BY <3>1
  <2>3. ASSUME NEW i \in 1..n + 1, NEW m \in 1..n + 1, i < m PROVE g[i] < g[m]
    <3>1. m - 1 \in 1..n /\ g[m] = f[m - 1] + 1
      BY <2>1, <2>3
    <3>2. CASE i = 1
      BY <1>3, <1>8, <3>1, <3>2
    <3>3. CASE i # 1
      <4>1. i - 1 \in 1..n /\ g[i] = f[i - 1] + 1
        BY <2>1, <3>3
      <4>2. f[i - 1] < f[m - 1]
        BY <1>7, <2>3, <3>1, <4>1
      <4>3. QED
        BY <1>3, <1>8, <3>1, <4>1, <4>2
    <3>4. QED
      BY <3>2, <3>3
  <2>4. ASSUME NEW p \in places(t, j) PROVE \E i \in 1..n + 1 : g[i] = p
    <3>1. CASE p = 1
      BY SMTT(30), <3>1
    <3>2. CASE p # 1
      <4>1. p - 1 \in S /\ p \in Int
        BY <1>9, <1>11, <3>2
      <4>2. PICK i \in 1..n : f[i] = p - 1
        BY <1>7, <4>1
      <4>3. i + 1 \in 1..n + 1 /\ g[i + 1] = f[i] + 1
        OBVIOUS
      <4>4. f[i] + 1 = p
        BY <4>1, <4>2
      <4>5. QED
        BY <4>3, <4>4, Zenon
    <3>3. QED
      BY <3>1, <3>2
  <2>5. \A r \in 1..n + 1 : g[r] = IF r = 1 THEN 1 ELSE f[r - 1] + 1
    OBVIOUS
  <2> HIDE DEF g
  <2>6. Lists(n + 1, g, places(t, j))
    BY <2>2, <2>3, <2>4 DEF Lists
  <2>7. /\ stack(t, j) \in Seq(Values) /\ Len(stack(t, j)) = n + 1
        /\ \A r \in 1..n + 1 : stack(t, j)[r] = t[g[r]].value
    BY <1>2, <2>6, StackRead
  <2>8. /\ <<v>> \o stack(c, j) \in Seq(Values) /\ Len(<<v>> \o stack(c, j)) = n + 1
        /\ \A r \in 1..n + 1 : (<<v>> \o stack(c, j))[r] = IF r = 1 THEN v ELSE stack(c, j)[r - 1]
    BY <1>6
  <2>9. ASSUME NEW r \in 1..n + 1 PROVE stack(t, j)[r] = (<<v>> \o stack(c, j))[r]
    <3>1. CASE r = 1
      BY ZenonT(30), <1>1, <1>2, <2>5, <2>7, <2>8, <3>1
    <3>2. CASE r # 1
      <4>1. r - 1 \in 1..n /\ t[g[r]] = c[f[r - 1]]
        BY <1>2, <1>8, <2>1, <2>5, <3>2
      <4>2. QED
        BY ZenonT(30), <1>6, <2>7, <2>8, <3>2, <4>1
    <3>3. QED
      BY <3>1, <3>2
  <2>10. stack(t, j) = <<v>> \o stack(c, j)
    BY <2>7, <2>8, <2>9, SeqEqual
  <2>11. QED
    BY <1>2, <1>12, <2>10 DEF t, item
<1>13. CASE j # k
  <2> DEFINE g == [i \in 1..n |-> f[i] + 1]
  <2>1. g \in [1..n -> places(t, j)]
    BY <1>8, <1>9
  <2>2. \A i, m \in 1..n : i < m => g[i] < g[m]
    BY <1>3, <1>7, <1>8
  <2>3. ASSUME NEW p \in places(t, j) PROVE \E i \in 1..n : g[i] = p
    <3>1. p - 1 \in S /\ p \in Int
      BY <1>9, <1>10, <1>11, <1>13
    <3>2. PICK i \in 1..n : f[i] = p - 1
      BY <1>7, <3>1
    <3>3. QED
      BY <3>1, <3>2
  <2>4. \A r \in 1..n : g[r] = f[r] + 1
    OBVIOUS
  <2> HIDE DEF g
  <2>5. Lists(n, g, places(t, j))
    BY <2>1, <2>2, <2>3 DEF Lists
  <2>6. /\ stack(t, j) \in Seq(Values) /\ Len(stack(t, j)) = n
        /\ \A r \in 1..n : stack(t, j)[r] = t[g[r]].value
    BY <1>2, <2>5, StackRead
  <2>7. ASSUME NEW r \in 1..n PROVE stack(t, j)[r] = stack(c, j)[r]
    <3>1. t[f[r] + 1] = c[f[r]]
      BY <1>2, <1>8
    <3>2. stack(t, j)[r] = t[f[r] + 1].value
      BY <2>4, <2>6
    <3>3. QED
      BY <1>6, <3>1, <3>2
  <2>8. stack(t, j) = stack(c, j)
    BY <1>6, <2>6, <2>7, SeqEqual
  <2>9. QED
    BY <1>2, <1>13, <2>8 DEF t, item
<1>14. QED
  BY <1>12, <1>13

(* Removing the first item of a key pops its stack and leaves the others.  *)
LEMMA TakenOut ==
  ASSUME NEW c \in Seq(Items), NEW k \in Keys, places(c, k) # {}, NEW j \in Keys
  PROVE  LET t == RemoveAt(c, Min(places(c, k)))
         IN  /\ t \in Seq(Items)
             /\ stack(t, j) = IF j = k THEN Tail(stack(c, j)) ELSE stack(c, j)
             /\ stack(c, k) # << >>
<1> DEFINE d == Min(places(c, k))
           t == RemoveAt(c, d)
           S == places(c, j)
<1>1. PICK n0 \in Nat : \E f \in [1..n0 -> places(c, k)] : Lists(n0, f, places(c, k))
  BY PlacesListed
<1>2. PICK f0 \in [1..n0 -> places(c, k)] : Lists(n0, f0, places(c, k))
  BY <1>1
<1>3. 1 \in 1..n0 /\ d = f0[1] /\ d \in places(c, k)
  <2>1. places(c, k) \in SUBSET Nat
    BY PlacesListed
  <2>2. 1 \in 1..n0 /\ d = f0[1]
    BY <1>2, <2>1, ListedIsCounted
  <2>3. QED
    BY <1>2, <2>2
<1>4. d \in 1..Len(c) /\ c[d].key = k
  BY <1>3, PlacesListed
<1>5. stack(c, k) # << >>
  BY <1>2, <1>3, StackRead
<1>6. PICK n \in Nat : \E f \in [1..n -> S] : Lists(n, f, S)
  BY PlacesListed
<1>7. PICK f \in [1..n -> S] : Lists(n, f, S)
  BY <1>6
<1>8. j = k => n = n0 /\ f[1] = d
  <2>1. ASSUME j = k PROVE n = n0 /\ f[1] = d
    <3>1. Cardinality(places(c, k)) = n /\ Cardinality(places(c, k)) = n0
      BY <1>2, <1>7, <2>1, ListedIsCounted, PlacesListed
    <3>2. d = f[1]
      <4>1. S \in SUBSET Nat /\ S # {} /\ d = Min(S)
        BY <2>1, PlacesListed
      <4>2. QED
        BY <1>7, <4>1, ListedIsCounted
    <3>3. QED
      BY <3>1, <3>2
  <2>2. QED
    BY <2>1
<1> HIDE DEF d
<1>9. /\ t \in Seq(Items) /\ Len(t) = Len(c) - 1
      /\ \A i \in 1..Len(c) - 1 : t[i] = IF i < d THEN c[i] ELSE c[i + 1]
  BY <1>4, RemovingOne
<1> HIDE DEF t
<1>10. Len(c) \in Nat /\ d \in Nat /\ 1 <= d /\ d <= Len(c) /\ DOMAIN t = 1..Len(c) - 1 /\ DOMAIN c = 1..Len(c)
  BY <1>4, <1>9
<1>11. /\ stack(c, j) \in Seq(Values) /\ Len(stack(c, j)) = n
       /\ \A r \in 1..n : stack(c, j)[r] = c[f[r]].value
  BY <1>7, StackRead
<1>12. /\ \A i, m \in 1..n : i < m => f[i] < f[m]
       /\ \A p \in S : \E i \in 1..n : f[i] = p
  BY <1>7 DEF Lists
<1>13. \A i \in 1..n : f[i] \in S /\ f[i] \in 1..Len(c) /\ c[f[i]].key = j
  BY <1>10 DEF places
<1>14. \A i \in 1..Len(c) - 1 : i < d => (i \in places(t, j) <=> i \in S)
  BY <1>9, <1>10 DEF places
<1>15. \A i \in 1..Len(c) - 1 : ~(i < d) => (i \in places(t, j) <=> i + 1 \in S)
  BY <1>9, <1>10 DEF places
<1>16. \A p \in places(t, j) : p \in 1..Len(c) - 1
  BY <1>10 DEF places
<1>17. d \in S <=> j = k
  BY <1>4, <1>10 DEF places
<1> HIDE DEF S
<1>18. CASE j = k
  <2> DEFINE g == [i \in 1..n - 1 |-> f[i + 1] - 1]
  <2>1. n - 1 \in Nat /\ 1 \in 1..n
    BY <1>3, <1>8, <1>18
  <2>2. \A i \in 1..n - 1 : i + 1 \in 1..n
    BY <2>1
  <2>3. \A i \in 1..n - 1 : f[i + 1] > d
    BY <1>8, <1>12, <1>18, <2>1, <2>2
  <2>4. ASSUME NEW i \in 1..n - 1
        PROVE  f[i + 1] - 1 \in 1..Len(c) - 1 /\ ~(f[i + 1] - 1 < d) /\ f[i + 1] - 1 \in places(t, j)
    <3>1. f[i + 1] \in S /\ f[i + 1] \in 1..Len(c) /\ f[i + 1] > d
      BY <1>13, <2>2, <2>3
    <3>2. f[i + 1] - 1 \in 1..Len(c) - 1 /\ ~(f[i + 1] - 1 < d) /\ (f[i + 1] - 1) + 1 = f[i + 1]
      BY <1>10, <3>1
    <3>3. QED
      BY <1>15, <3>1, <3>2
  <2>5. g \in [1..n - 1 -> places(t, j)]
    BY <2>4
  <2>6. ASSUME NEW i \in 1..n - 1, NEW m \in 1..n - 1, i < m PROVE g[i] < g[m]
    <3>1. f[i + 1] < f[m + 1] /\ f[i + 1] \in 1..Len(c) /\ f[m + 1] \in 1..Len(c)
      BY <1>12, <1>13, <2>1, <2>2, <2>6
    <3>2. QED
      BY <1>10, <3>1
  <2>7. ASSUME NEW p \in places(t, j) PROVE \E i \in 1..n - 1 : g[i] = p
    <3>1. p \in 1..Len(c) - 1 /\ ~(p < d) /\ p + 1 \in S
      <4>1. p \in 1..Len(c) - 1
        BY <1>16
      <4>2. ASSUME p < d PROVE FALSE
        <5>1. p \in S
          BY <1>14, <4>1, <4>2
        <5>2. PICK i \in 1..n : f[i] = p
          BY <1>12, <5>1
        <5>3. i = 1 \/ 1 < i
          OBVIOUS
        <5>4. f[1] <= p
          BY <1>10, <1>12, <1>13, <2>1, <4>1, <5>2, <5>3
        <5>5. QED
          BY <1>8, <1>10, <1>18, <4>1, <4>2, <5>4
      <4>3. QED
        BY <1>15, <4>1, <4>2
    <3>2. PICK i \in 1..n : f[i] = p + 1
      BY <1>12, <3>1
    <3>3. i # 1
      BY <1>8, <1>10, <1>18, <3>1, <3>2
    <3>4. i - 1 \in 1..n - 1 /\ (i - 1) + 1 = i
      BY <3>3
    <3>5. g[i - 1] = f[i] - 1
      BY <3>4
    <3>6. (p + 1) - 1 = p
      BY <3>1
    <3>7. QED
      BY <3>2, <3>4, <3>5, <3>6, Zenon
  <2>8. \A r \in 1..n - 1 : g[r] = f[r + 1] - 1
    OBVIOUS
  <2> HIDE DEF g
  <2>9. Lists(n - 1, g, places(t, j))
    BY <2>1, <2>5, <2>6, <2>7 DEF Lists
  <2>10. /\ stack(t, j) \in Seq(Values) /\ Len(stack(t, j)) = n - 1
         /\ \A r \in 1..n - 1 : stack(t, j)[r] = t[g[r]].value
    BY <1>9, <2>9, StackRead
  <2>11. /\ Tail(stack(c, j)) \in Seq(Values) /\ Len(Tail(stack(c, j))) = n - 1
         /\ \A r \in 1..n - 1 : Tail(stack(c, j))[r] = stack(c, j)[r + 1]
    <3>1. stack(c, j) # << >>
      BY <1>5, <1>18
    <3>2. QED
      BY <1>11, <3>1, HeadTailProperties
  <2>12. ASSUME NEW r \in 1..n - 1 PROVE stack(t, j)[r] = Tail(stack(c, j))[r]
    <3>1. t[g[r]] = c[(f[r + 1] - 1) + 1]
      BY <1>9, <2>4, <2>8
    <3>2. (f[r + 1] - 1) + 1 = f[r + 1]
      BY <1>10, <1>13, <2>2
    <3>3. QED
      BY <1>11, <2>2, <2>10, <2>11, <3>1, <3>2
  <2>13. stack(t, j) = Tail(stack(c, j))
    BY <2>10, <2>11, <2>12, SeqEqual
  <2>14. QED
    BY <1>5, <1>9, <1>18, <2>13 DEF t, d
<1>19. CASE j # k
  <2> DEFINE g == [i \in 1..n |-> IF f[i] < d THEN f[i] ELSE f[i] - 1]
  <2>1. \A i \in 1..n : f[i] # d
    BY <1>13, <1>17, <1>19
  <2>2. ASSUME NEW i \in 1..n
        PROVE  /\ f[i] < d => f[i] \in 1..Len(c) - 1 /\ f[i] \in places(t, j)
               /\ ~(f[i] < d) => /\ f[i] - 1 \in 1..Len(c) - 1 /\ f[i] - 1 \in places(t, j)
                                 /\ ~(f[i] - 1 < d) /\ (f[i] - 1) + 1 = f[i]
    <3>1. f[i] \in S /\ f[i] \in 1..Len(c) /\ f[i] # d
      BY <1>13, <2>1
    <3>2. CASE f[i] < d
      BY <1>10, <1>14, <3>1, <3>2
    <3>3. CASE ~(f[i] < d)
      <4>1. f[i] - 1 \in 1..Len(c) - 1 /\ ~(f[i] - 1 < d) /\ (f[i] - 1) + 1 = f[i]
        BY <1>10, <3>1, <3>3
      <4>2. QED
        BY <1>15, <3>1, <3>3, <4>1
    <3>4. QED
      BY <3>2, <3>3
  <2>3. g \in [1..n -> places(t, j)]
    BY <2>2
  <2>4. ASSUME NEW i \in 1..n, NEW m \in 1..n, i < m PROVE g[i] < g[m]
    <3>1. f[i] < f[m] /\ f[i] \in Int /\ f[m] \in Int /\ f[i] # d /\ f[m] # d
      BY <1>12, <1>13, <2>1, <2>4
    <3>2. QED
      BY <1>10, <3>1
  <2>5. ASSUME NEW p \in places(t, j) PROVE \E i \in 1..n : g[i] = p
    <3>1. p \in 1..Len(c) - 1
      BY <1>16
    <3>2. CASE p < d
      <4>1. PICK i \in 1..n : f[i] = p
        BY <1>12, <1>14, <3>1, <3>2
      <4>2. QED
        BY <3>2, <4>1
    <3>3. CASE ~(p < d)
      <4>1. PICK i \in 1..n : f[i] = p + 1
        BY <1>12, <1>15, <3>1, <3>3
      <4>2. g[i] = p
        BY <1>10, <3>1, <3>3, <4>1
      <4>3. QED
        BY <4>2
    <3>4. QED
      BY <3>2, <3>3
  <2>6. \A r \in 1..n : g[r] = IF f[r] < d THEN f[r] ELSE f[r] - 1
    OBVIOUS
  <2> HIDE DEF g
  <2>7. Lists(n, g, places(t, j))
    BY <2>3, <2>4, <2>5 DEF Lists
  <2>8. /\ stack(t, j) \in Seq(Values) /\ Len(stack(t, j)) = n
        /\ \A r \in 1..n : stack(t, j)[r] = t[g[r]].value
    BY <1>9, <2>7, StackRead
  <2>9. ASSUME NEW r \in 1..n PROVE stack(t, j)[r] = stack(c, j)[r]
    <3>1. CASE f[r] < d
      <4>1. t[g[r]] = c[f[r]]
        BY <1>9, <2>2, <2>6, <3>1
      <4>2. QED
        BY <1>11, <2>8, <4>1
    <3>2. CASE ~(f[r] < d)
      <4>1. t[g[r]] = c[(f[r] - 1) + 1]
        BY <1>9, <2>2, <2>6, <3>2
      <4>2. (f[r] - 1) + 1 = f[r]
        BY <2>2, <3>2
      <4>3. QED
        BY <1>11, <2>8, <4>1, <4>2
    <3>3. QED
      BY <3>1, <3>2
  <2>10. stack(t, j) = stack(c, j)
    BY <1>11, <2>8, <2>9, SeqEqual
  <2>11. QED
    BY <1>5, <1>9, <1>19, <2>10 DEF t, d
<1>20. QED
  BY <1>18, <1>19

-----------------------------------------------------------------------------
(* The table's map of stacks is the stack of each key in its own chain.    *)
LEMMA ValuesAreStacks == valuesOf = [k \in Keys |-> stack(htab_bucket(k), k)]
BY DEF valuesOf, stack, positions, places

(* The chain of a key, in a table of the right type, is a chain of items.  *)
LEMMA ChainType ==
  ASSUME TableTypeOK, NEW k \in Keys
  PROVE  /\ djb_hash[k] \in 0..Size - 1 /\ djb_hash[k] \in DOMAIN buckets
         /\ htab_bucket(k) \in Seq(Items)
         /\ positions(k) = places(htab_bucket(k), k)
BY TableAssumption DEF TableTypeOK, htab_bucket, positions, places

(* The variables keep their types under every operation.                   *)
LEMMA NextTypeOK == TableTypeOK /\ [TableNext]_tableVars => TableTypeOK'
<1> SUFFICES ASSUME TableTypeOK, [TableNext]_tableVars PROVE TableTypeOK'
  OBVIOUS
<1>1. CASE UNCHANGED tableVars
  BY <1>1 DEF TableTypeOK, tableVars
<1>2. ASSUME NEW k \in Keys, NEW v \in Values, htab_add(k, v) PROVE TableTypeOK'
  <2>1. htab_bucket(k) \in Seq(Items) /\ djb_hash[k] \in 0..Size - 1
    BY ChainType
  <2>2. <<[key |-> k, value |-> v]>> \o htab_bucket(k) \in Seq(Items)
    BY <2>1, InFront
  <2>3. buckets' = [buckets EXCEPT ![djb_hash[k]] = <<[key |-> k, value |-> v]>> \o htab_bucket(k)]
    BY <1>2 DEF htab_add, htab_bucket
  <2>4. QED
    BY <1>2, <2>1, <2>2, <2>3 DEF TableTypeOK, htab_add
<1>3. ASSUME NEW k \in Keys, htab_delete(k) PROVE TableTypeOK'
  <2>1. htab_bucket(k) \in Seq(Items) /\ djb_hash[k] \in 0..Size - 1 /\ positions(k) = places(htab_bucket(k), k)
    BY ChainType
  <2>2. RemoveAt(htab_bucket(k), Min(positions(k))) \in Seq(Items)
    BY <1>3, <2>1, TakenOut DEF htab_delete
  <2>3. buckets' = [buckets EXCEPT ![djb_hash[k]] = RemoveAt(htab_bucket(k), Min(positions(k)))]
    BY <1>3 DEF htab_delete, htab_bucket
  <2>4. QED
    BY <1>3, <2>1, <2>2, <2>3 DEF TableTypeOK, htab_delete
<1>4. CASE htab_destroy
  BY <1>4 DEF TableTypeOK, htab_destroy
<1>5. QED
  BY <1>1, <1>2, <1>3, <1>4 DEF TableNext

(* An empty table has no value under any key.                              *)
LEMMA EmptyStacks ==
  ASSUME djb_hash \in [Keys -> 0..Size - 1], buckets = [b \in 0..Size - 1 |-> << >>]
  PROVE  valuesOf = [k \in Keys |-> << >>]
<1>1. ASSUME NEW k \in Keys PROVE stack(htab_bucket(k), k) = << >>
  <2>1. htab_bucket(k) = << >> /\ << >> \in Seq(Items)
    BY TableAssumption DEF htab_bucket
  <2>2. places(<< >>, k) = {}
    BY DEF places
  <2>3. Lists(0, [i \in 1..0 |-> 1], places(<< >>, k))
    BY <2>2 DEF Lists
  <2>4. stack(<< >>, k) \in Seq(Values) /\ Len(stack(<< >>, k)) = 0
    BY <2>1, <2>3, StackRead
  <2>5. stack(<< >>, k) = << >>
    BY <2>4, EmptySeq
  <2>6. QED
    BY <2>1, <2>5
<1>2. QED
  BY <1>1, ValuesAreStacks

(* Every chain is a chain of items and every key hashes into the table,    *)
(* after any series of additions, deletions and the destruction.           *)
THEOREM TableTypes == TableSpec => []TableTypeOK
<1>1. htab_init => TableTypeOK
  BY DEF htab_init, TableTypeOK
<1>2. QED
  BY <1>1, NextTypeOK, PTL DEF TableSpec

(* htab_find gives the head of the key's stack, whatever else hashes to    *)
(* the same bucket.                                                        *)
LEMMA FindIsHead ==
  TableTypeOK => \A k \in Keys :
    htab_find(k) = IF valuesOf[k] = << >> THEN NoItem
                   ELSE [key |-> k, value |-> Head(valuesOf[k])]
<1> SUFFICES ASSUME TableTypeOK, NEW k \in Keys
             PROVE  htab_find(k) = IF valuesOf[k] = << >> THEN NoItem
                                   ELSE [key |-> k, value |-> Head(valuesOf[k])]
  OBVIOUS
<1> DEFINE c == htab_bucket(k)
           S == places(c, k)
<1>1. c \in Seq(Items) /\ positions(k) = S
  BY ChainType
<1>2. valuesOf[k] = stack(c, k)
  BY ValuesAreStacks
<1>3. PICK n \in Nat : \E f \in [1..n -> S] : Lists(n, f, S)
  BY <1>1, PlacesListed
<1>4. PICK f \in [1..n -> S] : Lists(n, f, S)
  BY <1>3
<1>5. /\ stack(c, k) \in Seq(Values) /\ Len(stack(c, k)) = n
      /\ \A r \in 1..n : stack(c, k)[r] = c[f[r]].value
  BY <1>1, <1>4, StackRead
<1>6. S \in SUBSET Nat /\ \A i \in S : i \in 1..Len(c) /\ c[i].key = k
  BY <1>1, PlacesListed
<1>7. CASE S = {}
  <2>1. n = 0
    BY <1>3, <1>4, <1>7
  <2>2. stack(c, k) = << >>
    BY <1>5, <2>1
  <2>3. QED
    BY <1>1, <1>2, <1>7, <2>2 DEF htab_find
<1>8. CASE S # {}
  <2>1. 1 \in 1..n /\ Min(S) = f[1] /\ f[1] \in S
    BY <1>4, <1>6, <1>8, ListedIsCounted
  <2>2. htab_find(k) = c[f[1]]
    BY <1>1, <1>8, <2>1 DEF htab_find
  <2>3. c[f[1]] \in Items /\ c[f[1]].key = k
    BY <1>1, <1>6, <2>1
  <2>4. c[f[1]] = [key |-> k, value |-> c[f[1]].value]
    BY <2>3 DEF Items
  <2>5. stack(c, k) # << >> /\ Head(stack(c, k)) = c[f[1]].value
    BY <1>5, <2>1
  <2>6. QED
    BY <1>2, <2>2, <2>4, <2>5
<1>9. QED
  BY <1>7, <1>8

(* htab_add pushes the value on the stack of its key and of no other.      *)
LEMMA AddPushes ==
  ASSUME TableTypeOK, NEW k \in Keys, NEW v \in Values, htab_add(k, v)
  PROVE  valuesOf' = [valuesOf EXCEPT ![k] = <<v>> \o @]
<1> DEFINE c == htab_bucket(k)
           t == <<[key |-> k, value |-> v]>> \o c
<1>0. (valuesOf = [k1 \in Keys |-> stack(htab_bucket(k1), k1)])'
  BY DEF valuesOf, stack, positions, places
<1>1. ASSUME NEW j \in Keys
      PROVE  htab_bucket(j)' = IF djb_hash[j] = djb_hash[k] THEN t ELSE htab_bucket(j)
  BY ChainType DEF htab_add, htab_bucket, TableTypeOK
<1>2. ASSUME NEW j \in Keys
      PROVE  stack(htab_bucket(j), j)' = IF j = k THEN <<v>> \o valuesOf[k] ELSE valuesOf[j]
  <2>1. c \in Seq(Items) /\ htab_bucket(j) \in Seq(Items)
    BY ChainType
  <2>2. stack(t, j) = IF j = k THEN <<v>> \o stack(c, j) ELSE stack(c, j)
    BY <2>1, InFront
  <2>3. stack(htab_bucket(j), j)' = IF djb_hash[j] = djb_hash[k] THEN stack(t, j) ELSE stack(htab_bucket(j), j)
    BY <1>1 DEF stack, places
  <2>4. djb_hash[j] = djb_hash[k] => htab_bucket(j) = c
    BY DEF htab_bucket
  <2>5. valuesOf[j] = stack(htab_bucket(j), j) /\ valuesOf[k] = stack(c, k)
    BY ValuesAreStacks
  <2>6. QED
    BY <2>2, <2>3, <2>4, <2>5
<1>3. valuesOf' = [valuesOf EXCEPT ![k] = <<v>> \o @]
  BY <1>0, <1>2, ValuesAreStacks
<1>4. QED
  BY <1>3

(* htab_delete pops the stack of its key and of no other.                  *)
LEMMA DeletePops ==
  ASSUME TableTypeOK, NEW k \in Keys, htab_delete(k)
  PROVE  valuesOf' = [valuesOf EXCEPT ![k] = Tail(@)] /\ valuesOf[k] # << >>
<1> DEFINE c == htab_bucket(k)
           t == RemoveAt(c, Min(places(c, k)))
<1>0. (valuesOf = [k1 \in Keys |-> stack(htab_bucket(k1), k1)])'
  BY DEF valuesOf, stack, positions, places
<1>1. c \in Seq(Items) /\ places(c, k) # {} /\ positions(k) = places(c, k)
  BY ChainType DEF htab_delete
<1>2. ASSUME NEW j \in Keys
      PROVE  htab_bucket(j)' = IF djb_hash[j] = djb_hash[k] THEN t ELSE htab_bucket(j)
  BY <1>1, ChainType DEF htab_delete, htab_bucket, TableTypeOK
<1>3. ASSUME NEW j \in Keys
      PROVE  stack(htab_bucket(j), j)' = IF j = k THEN Tail(valuesOf[k]) ELSE valuesOf[j]
  <2>1. htab_bucket(j) \in Seq(Items)
    BY ChainType
  <2>2. stack(t, j) = IF j = k THEN Tail(stack(c, j)) ELSE stack(c, j)
    BY <1>1, TakenOut
  <2>3. stack(htab_bucket(j), j)' = IF djb_hash[j] = djb_hash[k] THEN stack(t, j) ELSE stack(htab_bucket(j), j)
    BY <1>2 DEF stack, places
  <2>4. djb_hash[j] = djb_hash[k] => htab_bucket(j) = c
    BY DEF htab_bucket
  <2>5. valuesOf[j] = stack(htab_bucket(j), j) /\ valuesOf[k] = stack(c, k)
    BY ValuesAreStacks
  <2>6. QED
    BY <2>2, <2>3, <2>4, <2>5
<1>4. valuesOf' = [valuesOf EXCEPT ![k] = Tail(@)]
  BY <1>0, <1>3, ValuesAreStacks
<1>5. valuesOf[k] # << >>
  BY <1>1, TakenOut, ValuesAreStacks
<1>6. QED
  BY <1>4, <1>5

(* The table implements a map from keys to stacks of values: an operation  *)
(* on one key leaves every other key's stack alone.                        *)
THEOREM TableImplementsMap == TableSpec => ImplementsKeyValues
<1>1. htab_init => KV!Init
  BY EmptyStacks DEF htab_init, KV!Init
<1>2. TableTypeOK /\ [TableNext]_tableVars => [KV!Next]_valuesOf
  <2> SUFFICES ASSUME TableTypeOK, [TableNext]_tableVars PROVE [KV!Next]_valuesOf
    OBVIOUS
  <2>1. CASE UNCHANGED tableVars
    BY <2>1 DEF tableVars, valuesOf, htab_bucket, positions
  <2>2. ASSUME NEW k \in Keys, NEW v \in Values, htab_add(k, v) PROVE KV!Next
    BY <2>2, AddPushes DEF KV!Next, KV!Add
  <2>3. ASSUME NEW k \in Keys, htab_delete(k) PROVE KV!Next
    BY <2>3, DeletePops DEF KV!Next, KV!Delete
  <2>4. CASE htab_destroy
    <3>1. (valuesOf = [k \in Keys |-> << >>])'
      <4>1. djb_hash' \in [Keys -> 0..Size - 1] /\ buckets' = [b \in 0..Size - 1 |-> << >>]
        BY <2>4 DEF htab_destroy, TableTypeOK
      <4>2. (djb_hash \in [Keys -> 0..Size - 1] /\ buckets = [b \in 0..Size - 1 |-> << >>])'
        BY <4>1
      <4>3. (djb_hash \in [Keys -> 0..Size - 1] /\ buckets = [b \in 0..Size - 1 |-> << >>]
               => valuesOf = [k \in Keys |-> << >>])'
        BY EmptyStacks, PTL
      <4>4. QED
        BY <4>2, <4>3
    <3>2. QED
      BY <3>1 DEF KV!Next, KV!Clear
  <2>5. QED
    BY <2>1, <2>2, <2>3, <2>4 DEF TableNext
<1>3. QED
  BY <1>1, <1>2, TableTypes, PTL DEF ImplementsKeyValues, KV!Spec, TableSpec

(* Keys that collide stay apart, in a table with any number of buckets and *)
(* for any hash: what htab_find gives for a key changes only by an add or  *)
(* a delete of this key, or when the table is destroyed.                   *)
THEOREM FindsOwnKey == TableSpec => KeysApart
<1> DEFINE Apart == \A k \in Keys : htab_find(k)' # htab_find(k)
                     => \/ htab_delete(k)
                        \/ \E v \in Values : htab_add(k, v)
                        \/ htab_destroy
<1>0. (TableTypeOK => \A k \in Keys :
         htab_find(k) = IF valuesOf[k] = << >> THEN NoItem
                        ELSE [key |-> k, value |-> Head(valuesOf[k])])'
  BY FindIsHead, PTL
<1>1. TableTypeOK /\ TableTypeOK' /\ [TableNext]_tableVars => [Apart]_tableVars
  <2> SUFFICES ASSUME TableTypeOK, TableTypeOK', TableNext, NEW k \in Keys,
                      ~htab_delete(k), \A v \in Values : ~htab_add(k, v), ~htab_destroy
               PROVE  htab_find(k)' = htab_find(k)
    OBVIOUS
  <2>1. valuesOf'[k] = valuesOf[k]
    <3>1. ASSUME NEW j \in Keys, NEW v \in Values, htab_add(j, v)
          PROVE  valuesOf'[k] = valuesOf[k]
      <4>1. j # k
        BY <3>1
      <4>2. QED
        BY <3>1, <4>1, AddPushes, ValuesAreStacks
    <3>2. ASSUME NEW j \in Keys, htab_delete(j)
          PROVE  valuesOf'[k] = valuesOf[k]
      <4>1. j # k
        BY <3>2
      <4>2. QED
        BY <3>2, <4>1, DeletePops, ValuesAreStacks
    <3>3. QED
      BY <3>1, <3>2 DEF TableNext
  <2>2. htab_find(k) = IF valuesOf[k] = << >> THEN NoItem
                       ELSE [key |-> k, value |-> Head(valuesOf[k])]
    BY FindIsHead
  <2>3. htab_find(k)' = IF valuesOf'[k] = << >> THEN NoItem
                        ELSE [key |-> k, value |-> Head(valuesOf'[k])]
    BY <1>0
  <2>4. QED
    BY <2>1, <2>2, <2>3
<1>2. QED
  BY <1>1, TableTypes, PTL DEF TableSpec, KeysApart
=============================================================================

--------------------------- MODULE LinkedListProofs ---------------------------
(***************************************************************************)
(* Proofs about the linked list, for any number of nodes: its pointers     *)
(* always describe one sequence of nodes, and every operation changes that *)
(* sequence as NodeList says.                                              *)
(***************************************************************************)
EXTENDS LinkedList, FiniteSetTheorems, SequenceTheorems, TLAPS,
        WellFoundedInduction, SequencesExt

(* The pointers describe the sequence s: a chain along next from head to   *)
(* tail without repetition, of the nodes that are allocated and not        *)
(* popped; in a registry every node points back at the one before it.      *)
Describes(s) ==
  /\ s \in Seq(Nodes)
  /\ \A i, j \in 1..Len(s) : s[i] = s[j] => i = j
  /\ head = IF Len(s) = 0 THEN NULL ELSE s[1]
  /\ tail = IF Len(s) = 0 THEN NULL ELSE s[Len(s)]
  /\ \A i \in 1..Len(s) : next[s[i]] = IF i < Len(s) THEN s[i + 1] ELSE NULL
  /\ \A n \in Nodes : n \in allocated \ dangling <=> \E i \in 1..Len(s) : s[i] = n
  /\ usage = "registry"
       => \A i \in 1..Len(s) : previous[s[i]] = IF i = 1 THEN NULL ELSE s[i - 1]

IInv == ListTypeOK /\ Describes(contents)

-----------------------------------------------------------------------------
(* The least of some natural numbers. *)
LEMMA LeastNumber ==
  ASSUME NEW S \in SUBSET Nat, S # {}
  PROVE  \E m \in S : \A k \in S : m <= k
<1>1. \E m \in S : \A k \in S : ~(<<k, m>> \in OpToRel(<, Nat))
  BY WFMin, NatLessThanWellFounded
<1>2. PICK m \in S : \A k \in S : ~(<<k, m>> \in OpToRel(<, Nat))
  BY <1>1
<1>3. ASSUME NEW k \in S, k < m PROVE FALSE
  <2>1. <<k, m>> \in OpToRel(<, Nat)
    BY <1>3 DEF OpToRel
  <2>2. QED
    BY <1>2, <2>1
<1>4. m \in Nat /\ \A k \in S : k \in Nat
  OBVIOUS
<1>5. ASSUME NEW k \in S PROVE m <= k
  BY <1>3, <1>4
<1>6. QED
  BY <1>5

(* A sequence of different nodes is no longer than there are nodes. *)
LEMMA NoLongerThanNodes ==
  ASSUME NEW s \in Seq(Nodes), \A i, j \in 1..Len(s) : s[i] = s[j] => i = j
  PROVE  Cardinality(Nodes) \in Nat /\ Len(s) <= Cardinality(Nodes)
<1>1. IsFiniteSet(Nodes)
  BY ListAssumption
<1>2. s \in Injection(1..Len(s), Nodes)
  BY DEF Injection, IsInjective
<1>3. Cardinality(1..Len(s)) <= Cardinality(Nodes)
  BY <1>1, <1>2, FS_Injection
<1>4. Cardinality(1..Len(s)) = Len(s)
  BY FS_Interval
<1>5. QED
  BY <1>1, <1>3, <1>4, FS_CardinalityType

(* Whoever follows next from head finds the sequence that the pointers     *)
(* describe.                                                               *)
ReadsWhatIsThere ==
  \A s \in Seq(Nodes) : Describes(s) => /\ contents = s
                                        /\ inList = {s[i] : i \in 1..Len(s)}

(* Following next visits s[1], s[2], ... and stops at the null after the   *)
(* last.                                                                   *)
LEMMA Reading == ReadsWhatIsThere
<1> SUFFICES ASSUME NEW s \in Seq(Nodes), Describes(s)
             PROVE  contents = s /\ inList = {s[i] : i \in 1..Len(s)}
  BY DEF ReadsWhatIsThere
<1> DEFINE N == Cardinality(Nodes)
           at(k) == IF k < Len(s) THEN s[k + 1] ELSE NULL
           Walk(f) == f = [k \in 0..N |-> IF k = 0 THEN head
                                          ELSE IF f[k-1] = NULL THEN NULL ELSE next[f[k-1]]]
<1>1. N \in Nat /\ Len(s) <= N /\ Len(s) \in Nat /\ \A i \in 1..Len(s) : s[i] \in Nodes
  BY NoLongerThanNodes DEF Describes
<1>2. /\ at(0) = head
      /\ \A k \in 1..N : at(k) = IF at(k-1) = NULL THEN NULL ELSE next[at(k-1)]
  <2>1. at(0) = head
    BY <1>1 DEF Describes
  <2>2. ASSUME NEW k \in 1..N PROVE at(k) = IF at(k-1) = NULL THEN NULL ELSE next[at(k-1)]
    <3>1. CASE k <= Len(s)
      <4>1. at(k-1) = s[k] /\ s[k] \in Nodes /\ s[k] # NULL
        BY <1>1, <3>1, ListAssumption
      <4>2. next[s[k]] = at(k)
        BY <1>1, <3>1 DEF Describes
      <4>3. QED
        BY <4>1, <4>2
    <3>2. CASE k > Len(s)
      BY <1>1, <3>2
    <3>3. QED
      BY <1>1, <3>1, <3>2
  <2>3. QED
    BY <2>1, <2>2
<1>3. Walk([k \in 0..N |-> at(k)])
  BY <1>1, <1>2
<1>4. steps = CHOOSE f : Walk(f)
  BY DEF steps
<1>5. Walk(steps)
  BY <1>3, <1>4
<1>6. \A k \in 0..N : steps[k] = at(k)
  <2> DEFINE wrong == {k \in 0..N : steps[k] # at(k)}
  <2> SUFFICES ASSUME wrong # {} PROVE FALSE
    OBVIOUS
  <2>1. wrong \in SUBSET Nat
    BY <1>1
  <2>2. PICK m \in wrong : \A k \in wrong : m <= k
    BY <2>1, LeastNumber
  <2>3. m # 0
    BY <1>1, <1>2, <1>5
  <2>4. m - 1 \in 0..N /\ m - 1 \notin wrong
    BY <1>1, <2>2, <2>3
  <2>5. steps[m] = IF steps[m-1] = NULL THEN NULL ELSE next[steps[m-1]]
    BY <1>1, <1>5, <2>3
  <2>6. steps[m] = at(m)
    BY <1>1, <1>2, <2>3, <2>4, <2>5
  <2>7. QED
    BY <2>6
<1>7. DOMAIN steps = 0..N
  BY <1>5
<1>8. {k \in DOMAIN steps : steps[k] # NULL} = 0..Len(s) - 1
  BY <1>1, <1>6, <1>7, ListAssumption
<1>9. Cardinality(0..Len(s) - 1) = Len(s)
  <2>1. 0 \in Int /\ Len(s) - 1 \in Int
    BY <1>1
  <2>2. Cardinality(0..Len(s) - 1) = IF 0 > Len(s) - 1 THEN 0 ELSE (Len(s) - 1) - 0 + 1
    BY <2>1, FS_Interval
  <2>3. QED
    BY <1>1, <2>2
<1>10. contents = [i \in 1..Len(s) |-> steps[i-1]]
  BY <1>8, <1>9 DEF contents
<1>11. contents = s
  BY <1>1, <1>6, <1>10
<1>12. inList = {s[i] : i \in 1..Len(s)}
  <2>1. ASSUME NEW i \in 1..Len(s) PROVE s[i] \in inList
    <3>1. i - 1 \in DOMAIN steps /\ steps[i-1] = s[i] /\ s[i] # NULL
      BY <1>1, <1>6, <1>7, ListAssumption
    <3>2. QED
      BY <3>1 DEF inList
  <2>2. ASSUME NEW k \in DOMAIN steps, steps[k] # NULL
        PROVE  k + 1 \in 1..Len(s) /\ s[k + 1] = steps[k]
    BY <1>1, <1>6, <1>7, <2>2
  <2>3. QED
    BY <2>1, <2>2 DEF inList
<1>place. QED
  BY <1>11, <1>12

(* The same of the state after a step. *)
LEMMA ReadingNext == ReadsWhatIsThere'
BY Reading, PTL

-----------------------------------------------------------------------------
(* What the operations on sequences give, element by element. *)
LEMMA SequenceFacts ==
  ASSUME NEW s \in Seq(Nodes), NEW n \in Nodes
  PROVE  /\ Append(s, n) \in Seq(Nodes) /\ Len(Append(s, n)) = Len(s) + 1
         /\ \A i \in 1..Len(s) + 1 : Append(s, n)[i] = IF i = Len(s) + 1 THEN n ELSE s[i]
         /\ <<n>> \o s \in Seq(Nodes) /\ Len(<<n>> \o s) = Len(s) + 1
         /\ \A i \in 1..Len(s) + 1 : (<<n>> \o s)[i] = IF i = 1 THEN n ELSE s[i - 1]
         /\ s # <<>> => /\ Tail(s) \in Seq(Nodes) /\ Len(Tail(s)) = Len(s) - 1
                        /\ \A i \in 1..Len(s) - 1 : Tail(s)[i] = s[i + 1]
<1>1. /\ Append(s, n) \in Seq(Nodes) /\ Len(Append(s, n)) = Len(s) + 1
      /\ \A i \in 1..Len(s) + 1 : Append(s, n)[i] = IF i = Len(s) + 1 THEN n ELSE s[i]
  OBVIOUS
<1>2. /\ <<n>> \o s \in Seq(Nodes) /\ Len(<<n>> \o s) = Len(s) + 1
      /\ \A i \in 1..Len(s) + 1 : (<<n>> \o s)[i] = IF i = 1 THEN n ELSE s[i - 1]
  OBVIOUS
<1>3. ASSUME s # <<>>
      PROVE  /\ Tail(s) \in Seq(Nodes) /\ Len(Tail(s)) = Len(s) - 1
             /\ \A i \in 1..Len(s) - 1 : Tail(s)[i] = s[i + 1]
  BY <1>3
<1>4. QED
  BY <1>1, <1>2, <1>3

(* Removing one element moves those after it up by one. *)
LEMMA RemovingOne ==
  ASSUME NEW S, NEW s \in Seq(S), NEW i \in 1..Len(s)
  PROVE  /\ RemoveAt(s, i) \in Seq(S) /\ Len(RemoveAt(s, i)) = Len(s) - 1
         /\ \A j \in 1..Len(s) - 1 : RemoveAt(s, i)[j] = IF j < i THEN s[j] ELSE s[j + 1]
<1>1. /\ SubSeq(s, 1, i - 1) \in Seq(S) /\ Len(SubSeq(s, 1, i - 1)) = i - 1
      /\ \A j \in 1..i - 1 : SubSeq(s, 1, i - 1)[j] = s[j]
  OBVIOUS
<1>2. /\ SubSeq(s, i + 1, Len(s)) \in Seq(S) /\ Len(SubSeq(s, i + 1, Len(s))) = Len(s) - i
      /\ \A j \in 1..Len(s) - i : SubSeq(s, i + 1, Len(s))[j] = s[i + j]
  OBVIOUS
<1> DEFINE a == SubSeq(s, 1, i - 1)
           b == SubSeq(s, i + 1, Len(s))
<1>3. /\ a \in Seq(S) /\ Len(a) = i - 1
      /\ \A j \in 1..i - 1 : a[j] = s[j]
  BY <1>1
<1>4. /\ b \in Seq(S) /\ Len(b) = Len(s) - i
      /\ \A j \in 1..Len(s) - i : b[j] = s[i + j]
  BY <1>2
<1>5. RemoveAt(s, i) = a \o b
  BY DEF RemoveAt
<1> HIDE DEF a, b
<1>6. /\ a \o b \in Seq(S) /\ Len(a \o b) = Len(a) + Len(b)
      /\ \A j \in 1..Len(a) + Len(b) : (a \o b)[j] = IF j <= Len(a) THEN a[j] ELSE b[j - Len(a)]
  BY <1>3, <1>4, ConcatProperties
<1>7. Len(s) \in Nat /\ i \in Nat /\ 1 <= i /\ i <= Len(s)
  OBVIOUS
<1>8. Len(a) + Len(b) = Len(s) - 1
  BY <1>3, <1>4, <1>7
<1>9. ASSUME NEW j \in 1..Len(s) - 1
      PROVE  (a \o b)[j] = IF j < i THEN s[j] ELSE s[j + 1]
  <2>1. CASE j < i
    <3>1. j \in 1..i - 1 /\ j <= Len(a)
      BY <1>3, <1>7, <2>1
    <3>2. (a \o b)[j] = a[j]
      BY <1>6, <1>8, <3>1
    <3>3. QED
      BY <1>3, <2>1, <3>1, <3>2
  <2>2. CASE ~(j < i)
    <3>1. j - (i - 1) \in 1..Len(s) - i /\ ~(j <= Len(a)) /\ i + (j - (i - 1)) = j + 1
      BY <1>3, <1>7, <2>2
    <3>2. (a \o b)[j] = b[j - Len(a)]
      BY <1>6, <1>8, <3>1
    <3>3. b[j - (i - 1)] = s[i + (j - (i - 1))]
      BY <1>4, <3>1
    <3>4. QED
      BY <1>3, <2>2, <3>1, <3>2, <3>3
  <2>3. QED
    BY <2>1, <2>2
<1>10. QED
  BY <1>5, <1>6, <1>8, <1>9

-----------------------------------------------------------------------------
(* What a description says of its sequence: its elements are different     *)
(* nodes, allocated and not popped, and it is empty when head is NULL.     *)
LEMMA Elements ==
  ASSUME ListTypeOK, NEW s \in Seq(Nodes), Describes(s)
  PROVE  /\ Len(s) \in Nat
         /\ \A i \in 1..Len(s) : /\ s[i] \in Nodes /\ s[i] # NULL
                                 /\ s[i] \in allocated /\ s[i] \notin dangling
         /\ head = NULL <=> Len(s) = 0
         /\ tail = NULL <=> Len(s) = 0
<1>1. Len(s) \in Nat /\ \A i \in 1..Len(s) : s[i] \in Nodes /\ s[i] # NULL
  BY ListAssumption
<1>2. \A i \in 1..Len(s) : s[i] \in allocated /\ s[i] \notin dangling
  BY <1>1 DEF Describes
<1>3. (head = NULL <=> Len(s) = 0) /\ (tail = NULL <=> Len(s) = 0)
  BY <1>1 DEF Describes
<1>4. QED
  BY <1>1, <1>2, <1>3

(* Linking a new node before the head puts it in front of the sequence.    *)
LEMMA LinkingHead ==
  ASSUME ListTypeOK, NEW s \in Seq(Nodes), Describes(s), NEW n \in Nodes,
         Malloc(n), LinkHead(n), UNCHANGED <<dangling, usage>>
  PROVE  ListTypeOK' /\ Describes(<<n>> \o s)'
<1> DEFINE t == <<n>> \o s
<1>1. /\ t \in Seq(Nodes) /\ Len(t) = Len(s) + 1
      /\ \A i \in 1..Len(s) + 1 : t[i] = IF i = 1 THEN n ELSE s[i - 1]
  BY SequenceFacts
<1> HIDE DEF t
<1>2. /\ Len(s) \in Nat
      /\ \A i \in 1..Len(s) : s[i] \in Nodes /\ s[i] # NULL /\ s[i] # n
      /\ head = NULL <=> Len(s) = 0
      /\ tail = NULL <=> Len(s) = 0
  BY Elements DEF Malloc
<1>3. n # NULL
  BY ListAssumption
<1>place. \A i \in 1..Len(t) :
            \/ i = 1 /\ t[i] = n
            \/ i # 1 /\ i - 1 \in 1..Len(s) /\ t[i] = s[i - 1]
  BY <1>1, <1>2
<1>4. ListTypeOK'
  BY <1>2 DEF ListTypeOK, Malloc, LinkHead, Pointers
<1>5. \A i, j \in 1..Len(t) : t[i] = t[j] => i = j
  <2>1. \A i, j \in 1..Len(s) : s[i] = s[j] => i = j
    BY DEF Describes
  <2> SUFFICES ASSUME NEW i \in 1..Len(t), NEW j \in 1..Len(t), t[i] = t[j] PROVE i = j
    OBVIOUS
  <2>2. CASE i = 1 \/ j = 1
    BY <1>1, <1>2, <1>place, <2>2
  <2>3. CASE i # 1 /\ j # 1
    <3>1. s[i - 1] = s[j - 1]
      BY <1>place, <2>3
    <3>2. i - 1 = j - 1
      BY <1>place, <2>1, <2>3, <3>1
    <3>3. QED
      BY <1>2, <1>1, <3>2
  <2>4. QED
    BY <2>2, <2>3
<1>6. head' = IF Len(t) = 0 THEN NULL ELSE t[1]
  BY <1>1, <1>2 DEF LinkHead
<1>7. tail' = IF Len(t) = 0 THEN NULL ELSE t[Len(t)]
  BY <1>1, <1>2 DEF LinkHead, Describes
<1>8. \A i \in 1..Len(t) : next'[t[i]] = IF i < Len(t) THEN t[i + 1] ELSE NULL
  <2>1. next'[n] = head /\ \A i \in 1..Len(s) : next'[s[i]] = next[s[i]]
    BY <1>2 DEF LinkHead, ListTypeOK
  <2>2. \A i \in 1..Len(s) : next[s[i]] = IF i < Len(s) THEN s[i + 1] ELSE NULL
    BY DEF Describes
  <2>3. head = IF Len(s) = 0 THEN NULL ELSE s[1]
    BY DEF Describes
  <2> SUFFICES ASSUME NEW i \in 1..Len(t)
               PROVE  next'[t[i]] = IF i < Len(t) THEN t[i + 1] ELSE NULL
    OBVIOUS
  <2>4. CASE i = 1
    BY <1>1, <1>2, <2>1, <2>3, <2>4
  <2>5. CASE i # 1
    <3>1. next'[t[i]] = IF i - 1 < Len(s) THEN s[(i - 1) + 1] ELSE NULL
      BY <1>place, <2>1, <2>2, <2>5
    <3>2. i - 1 < Len(s) => t[i + 1] = s[(i - 1) + 1]
      BY <1>1, <1>2
    <3>3. QED
      BY <1>1, <1>2, <3>1, <3>2
  <2>6. QED
    BY <2>4, <2>5
<1>9. \A m \in Nodes : m \in allocated' \ dangling' <=> \E i \in 1..Len(t) : t[i] = m
  <2>1. \A m \in Nodes : m \in allocated \ dangling <=> \E i \in 1..Len(s) : s[i] = m
    BY DEF Describes
  <2>2. n \notin dangling
    BY DEF Malloc, ListTypeOK
  <2>3. ASSUME NEW m \in Nodes, m # n
        PROVE  (\E i \in 1..Len(s) : s[i] = m) <=> \E i \in 1..Len(t) : t[i] = m
    <3>1. ASSUME NEW i \in 1..Len(s), s[i] = m PROVE i + 1 \in 1..Len(t) /\ t[i + 1] = m
      BY <1>1, <1>2, <3>1
    <3>2. ASSUME NEW i \in 1..Len(t), t[i] = m PROVE i - 1 \in 1..Len(s) /\ s[i - 1] = m
      BY <1>1, <1>2, <2>3, <3>2
    <3>3. QED
      BY <3>1, <3>2
  <2>4. 1 \in 1..Len(t) /\ t[1] = n
    BY <1>1, <1>2
  <2>5. QED
    BY <2>1, <2>2, <2>3, <2>4 DEF Malloc
<1>10. ASSUME usage' = "registry"
       PROVE  \A i \in 1..Len(t) : previous'[t[i]] = IF i = 1 THEN NULL ELSE t[i - 1]
  <2>1. \A i \in 1..Len(s) : previous[s[i]] = IF i = 1 THEN NULL ELSE s[i - 1]
    BY <1>10 DEF Describes
  <2>2. \A i, j \in 1..Len(s) : s[i] = s[j] => i = j
    BY DEF Describes
  <2>3. head = IF Len(s) = 0 THEN NULL ELSE s[1]
    BY DEF Describes
  <2>4. previous'[n] = NULL
    BY DEF LinkHead
  <2>5. ASSUME NEW i \in 1..Len(s)
        PROVE  previous'[s[i]] = IF i = 1 THEN n ELSE s[i - 1]
    <3>1. s[i] = head <=> i = 1
      BY <1>2, <2>2, <2>3
    <3>2. QED
      BY <1>2, <2>1, <3>1 DEF LinkHead
  <2>6. ASSUME NEW i \in 1..Len(t)
        PROVE  previous'[t[i]] = IF i = 1 THEN NULL ELSE t[i - 1]
    <3>1. CASE i = 1
      BY <1>place, <2>4, <3>1
    <3>2. CASE i # 1
      <4>1. previous'[t[i]] = IF i - 1 = 1 THEN n ELSE s[(i - 1) - 1]
        BY <1>place, <2>5, <3>2
      <4>2. t[i - 1] = IF i - 1 = 1 THEN n ELSE s[(i - 1) - 1]
        BY <1>1, <1>2, <3>2
      <4>3. QED
        BY <3>2, <4>1, <4>2
    <3>3. QED
      BY <3>1, <3>2
  <2>7. QED
    BY <2>6
<1>11. Describes(t)'
  BY <1>1, <1>5, <1>6, <1>7, <1>8, <1>9, <1>10 DEF Describes
<1>12. QED
  BY <1>4, <1>11 DEF t

(* llist_push. *)
LEMMA Pushing ==
  ASSUME ListTypeOK, NEW s \in Seq(Nodes), Describes(s), NEW n \in Nodes, LlistPush(n)
  PROVE  ListTypeOK' /\ Describes(<<n>> \o s)'
BY LinkingHead DEF LlistPush

(* llist_append puts the new node at the end.                              *)
LEMMA Appending ==
  ASSUME ListTypeOK, NEW s \in Seq(Nodes), Describes(s), NEW n \in Nodes, LlistAppend(n)
  PROVE  ListTypeOK' /\ Describes(Append(s, n))'
<1>1. /\ Len(s) \in Nat
      /\ \A i \in 1..Len(s) : s[i] \in Nodes /\ s[i] # NULL /\ s[i] # n
      /\ head = NULL <=> Len(s) = 0
      /\ tail = NULL <=> Len(s) = 0
  BY Elements DEF Malloc, LlistAppend
<1>2. CASE Len(s) = 0
  <2>1. ListTypeOK' /\ Describes(<<n>> \o s)'
    BY <1>1, <1>2, LinkingHead DEF LlistAppend, LinkTail
  <2>2. <<n>> \o s = Append(s, n)
    BY <1>2
  <2>3. QED
    BY <2>1, <2>2
<1>3. CASE Len(s) # 0
  <2> DEFINE t == Append(s, n)
  <2>1. /\ t \in Seq(Nodes) /\ Len(t) = Len(s) + 1
        /\ \A i \in 1..Len(s) + 1 : t[i] = IF i = Len(s) + 1 THEN n ELSE s[i]
    BY SequenceFacts
  <2> HIDE DEF t
  <2>2. /\ tail' = n /\ tail = s[Len(s)] /\ tail \in Nodes /\ UNCHANGED head
        /\ next' = [next EXCEPT ![tail] = n, ![n] = NULL]
        /\ previous' = [previous EXCEPT ![n] = tail]
        /\ n \notin allocated /\ allocated' = allocated \cup {n}
        /\ UNCHANGED <<dangling, usage>> /\ usage = "queue"
    BY <1>1, <1>3 DEF LlistAppend, LinkTail, Malloc, Describes
  <2>3. ListTypeOK'
    BY <2>2 DEF ListTypeOK, Pointers
  <2>4. \A i, j \in 1..Len(s) : s[i] = s[j] => i = j
    BY DEF Describes
  <2>5. \A i, j \in 1..Len(t) : t[i] = t[j] => i = j
    <3> SUFFICES ASSUME NEW i \in 1..Len(t), NEW j \in 1..Len(t), t[i] = t[j] PROVE i = j
      OBVIOUS
    <3>1. CASE i = Len(s) + 1 \/ j = Len(s) + 1
      BY <1>1, <2>1, <3>1
    <3>2. CASE i # Len(s) + 1 /\ j # Len(s) + 1
      BY <1>1, <2>1, <2>4, <3>2
    <3>3. QED
      BY <3>1, <3>2
  <2>6. head' = IF Len(t) = 0 THEN NULL ELSE t[1]
    BY <1>1, <1>3, <2>1, <2>2 DEF Describes
  <2>7. tail' = IF Len(t) = 0 THEN NULL ELSE t[Len(t)]
    BY <1>1, <2>1, <2>2
  <2>8. ASSUME NEW i \in 1..Len(t)
        PROVE  next'[t[i]] = IF i < Len(t) THEN t[i + 1] ELSE NULL
    <3>1. next'[n] = NULL /\ next'[tail] = n /\ \A m \in Nodes : m # n /\ m # tail => next'[m] = next[m]
      BY <1>1, <1>3, <2>2 DEF ListTypeOK
    <3>2. CASE i = Len(s) + 1
      BY <1>1, <2>1, <3>1, <3>2
    <3>3. CASE i = Len(s)
      BY <1>1, <2>1, <2>2, <3>1, <3>3
    <3>4. CASE i < Len(s)
      <4>1. t[i] = s[i] /\ s[i] \in Nodes /\ s[i] # n /\ t[i + 1] = s[i + 1]
        BY <1>1, <2>1, <3>4
      <4>2. s[i] # tail
        BY <1>1, <2>1, <2>2, <2>4, <3>4
      <4>3. next[s[i]] = s[i + 1]
        BY <1>1, <2>1, <3>4 DEF Describes
      <4>4. QED
        BY <1>1, <2>1, <3>1, <3>4, <4>1, <4>2, <4>3
    <3>5. QED
      BY <1>1, <2>1, <3>2, <3>3, <3>4
  <2>9. \A m \in Nodes : m \in allocated' \ dangling' <=> \E i \in 1..Len(t) : t[i] = m
    <3>1. \A m \in Nodes : m \in allocated \ dangling <=> \E i \in 1..Len(s) : s[i] = m
      BY DEF Describes
    <3>2. n \notin dangling
      BY <2>2 DEF ListTypeOK
    <3>3. ASSUME NEW m \in Nodes, m # n
          PROVE  (\E i \in 1..Len(s) : s[i] = m) <=> \E i \in 1..Len(t) : t[i] = m
      <4>1. ASSUME NEW i \in 1..Len(s), s[i] = m PROVE i \in 1..Len(t) /\ t[i] = m
        BY <1>1, <2>1, <4>1
      <4>2. ASSUME NEW i \in 1..Len(t), t[i] = m PROVE i \in 1..Len(s) /\ s[i] = m
        BY <1>1, <2>1, <3>3, <4>2
      <4>3. QED
        BY <4>1, <4>2
    <3>4. Len(t) \in 1..Len(t) /\ t[Len(t)] = n
      BY <1>1, <2>1
    <3>5. QED
      BY <2>2, <3>1, <3>2, <3>3, <3>4
  <2>10. usage' # "registry"
    BY <2>2
  <2>11. Describes(t)'
    BY <2>1, <2>5, <2>6, <2>7, <2>8, <2>9, <2>10 DEF Describes
  <2>12. QED
    BY <2>3, <2>11 DEF t
<1>4. QED
  BY <1>2, <1>3

(* llist_pop takes the first node, in each of its three cases, and does    *)
(* nothing to an empty list.                                               *)
LEMMA Popping ==
  ASSUME ListTypeOK, NEW s \in Seq(Nodes), Describes(s), s # <<>>, LlistPop
  PROVE  ListTypeOK' /\ Describes(Tail(s))'
<1> DEFINE t == Tail(s)
<1>1. /\ Len(s) \in Nat /\ Len(s) # 0
      /\ \A i \in 1..Len(s) : /\ s[i] \in Nodes /\ s[i] # NULL
                              /\ s[i] \in allocated /\ s[i] \notin dangling
      /\ head # NULL
  BY Elements
<1>2. /\ t \in Seq(Nodes) /\ Len(t) = Len(s) - 1
      /\ \A i \in 1..Len(t) : t[i] = s[i + 1] /\ i + 1 \in 1..Len(s)
  <2>1. Nodes # {}
    BY <1>1
  <2>2. PICK n \in Nodes : TRUE
    BY <2>1
  <2>3. t \in Seq(Nodes) /\ Len(t) = Len(s) - 1 /\ \A i \in 1..Len(s) - 1 : t[i] = s[i + 1]
    BY <2>2, SequenceFacts
  <2>4. QED
    BY <1>1, <2>3
<1> HIDE DEF t
<1>3. \A i, j \in 1..Len(s) : s[i] = s[j] => i = j
  BY DEF Describes
<1>4. /\ head = s[1] /\ tail = s[Len(s)]
      /\ \A i \in 1..Len(s) : next[s[i]] = IF i < Len(s) THEN s[i + 1] ELSE NULL
  BY <1>1 DEF Describes
<1>5. /\ dangling' = dangling \cup {head} /\ UnlinkHead
      /\ UNCHANGED <<allocated, usage>> /\ usage = "queue"
  BY <1>1 DEF LlistPop
<1>6. /\ next' = next
      /\ head' = IF Len(t) = 0 THEN NULL ELSE t[1]
      /\ tail' = IF Len(t) = 0 THEN NULL ELSE t[Len(t)]
      /\ previous' \in [Nodes -> Pointers]
  <2>1. CASE Len(s) = 1
    <3>1. head = tail
      BY <1>1, <1>4, <2>1
    <3>2. QED
      BY <1>2, <1>5, <2>1, <3>1 DEF UnlinkHead, ListTypeOK
  <2>2. CASE Len(s) = 2
    <3>1. head # tail /\ next[head] = tail
      BY <1>1, <1>3, <1>4, <2>2
    <3>2. Len(t) = 1 /\ t[1] = tail
      BY <1>2, <1>4, <2>2
    <3>3. QED
      BY <1>5, <3>1, <3>2 DEF UnlinkHead, ListTypeOK
  <2>3. CASE Len(s) > 2
    <3>1. head # tail /\ next[head] = s[2] /\ s[2] # tail
      BY <1>1, <1>3, <1>4, <2>3
    <3>2. Len(t) # 0 /\ t[1] = s[2] /\ t[Len(t)] = tail
      BY <1>1, <1>2, <1>4, <2>3
    <3>3. /\ head' = next[head]
          /\ previous' = [previous EXCEPT ![next[head]] = NULL]
          /\ UNCHANGED <<tail, next>>
      BY <1>5, <3>1 DEF UnlinkHead
    <3>4. previous' \in [Nodes -> Pointers]
      BY <3>3 DEF ListTypeOK, Pointers
    <3>5. QED
      BY <3>1, <3>2, <3>3, <3>4
  <2>4. \A k \in Nat : k # 0 => k = 1 \/ k = 2 \/ k > 2
    OBVIOUS
  <2>5. Len(s) = 1 \/ Len(s) = 2 \/ Len(s) > 2
    BY <1>1, <2>4, Zenon
  <2>6. QED
    BY <2>1, <2>2, <2>3, <2>5
<1>7. head' \in Pointers /\ tail' \in Pointers
  BY <1>1, <1>2, <1>6 DEF Pointers
<1>8. ListTypeOK'
  BY <1>1, <1>4, <1>5, <1>6, <1>7 DEF ListTypeOK
<1>9. \A i, j \in 1..Len(t) : t[i] = t[j] => i = j
  BY <1>1, <1>2, <1>3
<1>10. ASSUME NEW i \in 1..Len(t)
       PROVE  next'[t[i]] = IF i < Len(t) THEN t[i + 1] ELSE NULL
  BY <1>1, <1>2, <1>4, <1>6
<1>11. \A m \in Nodes : m \in allocated' \ dangling' <=> \E i \in 1..Len(t) : t[i] = m
  <2>1. \A m \in Nodes : m \in allocated \ dangling <=> \E i \in 1..Len(s) : s[i] = m
    BY DEF Describes
  <2>2. ASSUME NEW m \in Nodes
        PROVE  m # head /\ (\E i \in 1..Len(s) : s[i] = m) <=> \E i \in 1..Len(t) : t[i] = m
    <3>1. ASSUME NEW i \in 1..Len(s), s[i] = m, m # head PROVE i - 1 \in 1..Len(t) /\ t[i - 1] = m
      BY <1>1, <1>2, <1>4, <3>1
    <3>2. ASSUME NEW i \in 1..Len(t), t[i] = m PROVE i + 1 \in 1..Len(s) /\ s[i + 1] = m /\ m # head
      BY <1>1, <1>2, <1>3, <1>4, <3>2
    <3>3. QED
      BY <3>1, <3>2
  <2>3. QED
    BY <1>5, <2>1, <2>2
<1>12. usage' # "registry"
  BY <1>5
<1>13. Describes(t)'
  BY <1>2, <1>6, <1>9, <1>10, <1>11, <1>12 DEF Describes
<1>14. QED
  BY <1>8, <1>13 DEF t

(* llist_delete_node takes the node out of a registry, wherever it is: its *)
(* neighbours, or head and tail where it has none, come to point past it.  *)
LEMMA Deleting ==
  ASSUME ListTypeOK, NEW s \in Seq(Nodes), Describes(s), NEW d \in 1..Len(s),
         LlistDeleteNode(s[d])
  PROVE  ListTypeOK' /\ Describes(RemoveAt(s, d))'
<1> DEFINE t == RemoveAt(s, d)
           n == s[d]
<1>1. /\ Len(s) \in Nat /\ d \in Nat /\ 1 <= d /\ d <= Len(s)
      /\ \A i \in 1..Len(s) : /\ s[i] \in Nodes /\ s[i] # NULL
                              /\ s[i] \in allocated /\ s[i] \notin dangling
  BY Elements
<1>2. t \in Seq(Nodes) /\ Len(t) = Len(s) - 1
  BY RemovingOne
<1>3. \A j \in 1..Len(t) : \/ j < d /\ t[j] = s[j]
                           \/ j >= d /\ t[j] = s[j + 1]
  BY <1>1, <1>2, RemovingOne
<1> HIDE DEF t
<1>4. \A i, j \in 1..Len(s) : s[i] = s[j] => i = j
  BY DEF Describes
<1>5. /\ head = s[1] /\ tail = s[Len(s)]
      /\ \A i \in 1..Len(s) : next[s[i]] = IF i < Len(s) THEN s[i + 1] ELSE NULL
      /\ \A i \in 1..Len(s) : previous[s[i]] = IF i = 1 THEN NULL ELSE s[i - 1]
  BY <1>1 DEF Describes, LlistDeleteNode
<1>6. /\ Unlink(n) /\ allocated' = allocated \ {n}
      /\ UNCHANGED <<dangling, usage>>
  BY DEF LlistDeleteNode
<1>7. /\ previous[n] = IF d = 1 THEN NULL ELSE s[d - 1]
      /\ next[n] = IF d < Len(s) THEN s[d + 1] ELSE NULL
      /\ previous[n] = NULL <=> d = 1
      /\ next[n] = NULL <=> d = Len(s)
  <2>1. d # 1 => s[d - 1] # NULL
    BY <1>1
  <2>2. d < Len(s) => s[d + 1] # NULL
    BY <1>1
  <2>3. QED
    BY <1>1, <1>5, <2>1, <2>2
<1>8. head' = IF Len(t) = 0 THEN NULL ELSE t[1]
  <2>1. head' = IF d = 1 THEN next[n] ELSE head
    BY <1>6, <1>7 DEF Unlink
  <2>2. CASE d = 1
    BY SMTT(30), <1>1, <1>2, <1>3, <1>7, <2>1, <2>2
  <2>3. CASE d # 1
    <3>1. Len(t) # 0 /\ t[1] = s[1]
      BY <1>1, <1>2, <1>3, <2>3
    <3>2. QED
      BY <1>5, <2>1, <2>3, <3>1
  <2>4. QED
    BY <2>2, <2>3
<1>9. tail' = IF Len(t) = 0 THEN NULL ELSE t[Len(t)]
  <2>1. tail' = IF d = Len(s) THEN previous[n] ELSE tail
    BY <1>6, <1>7 DEF Unlink
  <2>2. CASE d = Len(s)
    <3>1. CASE Len(s) = 1
      BY <1>2, <1>7, <2>1, <2>2, <3>1
    <3>2. CASE Len(s) # 1
      <4>1. Len(t) \in 1..Len(t) /\ Len(t) < d /\ Len(t) = d - 1 /\ d # 1
        BY <1>1, <1>2, <2>2, <3>2
      <4>2. t[Len(t)] = s[d - 1]
        BY <1>3, <4>1
      <4>3. QED
        BY <1>7, <2>1, <2>2, <4>1, <4>2
    <3>3. QED
      BY <3>1, <3>2
  <2>3. CASE d # Len(s)
    <3>1. Len(t) \in 1..Len(t) /\ Len(t) >= d /\ Len(t) + 1 = Len(s)
      BY <1>1, <1>2, <2>3
    <3>2. t[Len(t)] = s[Len(s)]
      BY <1>1, <1>3, <3>1
    <3>3. QED
      BY <1>5, <2>1, <2>3, <3>1, <3>2
  <2>4. QED
    BY <2>2, <2>3
<1>10. /\ head' \in Pointers /\ tail' \in Pointers
  <2>1. previous[n] \in Pointers /\ next[n] \in Pointers
    BY <1>1 DEF ListTypeOK
  <2>2. QED
    BY <1>6, <2>1 DEF Unlink, ListTypeOK
<1>11. /\ next' \in [Nodes -> Pointers]
       /\ \A i \in 1..Len(s) : next'[s[i]] = IF i + 1 = d THEN next[n] ELSE next[s[i]]
  <2>1. CASE d = 1
    BY <1>1, <1>6, <1>7, <2>1 DEF Unlink, ListTypeOK
  <2>2. CASE d # 1
    <3>1. next' = [next EXCEPT ![s[d - 1]] = next[n]]
      BY <1>6, <1>7, <2>2 DEF Unlink
    <3>2. d - 1 \in 1..Len(s) /\ s[d - 1] \in Nodes /\ next[n] \in Pointers
      BY <1>1, <2>2 DEF ListTypeOK
    <3>3. next' \in [Nodes -> Pointers]
      BY <3>1, <3>2 DEF ListTypeOK
    <3>4. ASSUME NEW i \in 1..Len(s)
          PROVE  next'[s[i]] = IF i + 1 = d THEN next[n] ELSE next[s[i]]
      <4>1. s[i] = s[d - 1] <=> i + 1 = d
        BY <1>1, <1>4, <3>2
      <4>2. QED
        BY <1>1, <3>1, <3>2, <4>1 DEF ListTypeOK
    <3>5. QED
      BY <3>3, <3>4
  <2>3. QED
    BY <2>1, <2>2
<1>12. /\ previous' \in [Nodes -> Pointers]
       /\ \A i \in 1..Len(s) : previous'[s[i]] = IF i = d + 1 THEN previous[n] ELSE previous[s[i]]
  <2>1. CASE d = Len(s)
    BY <1>1, <1>6, <1>7, <2>1 DEF Unlink, ListTypeOK
  <2>2. CASE d # Len(s)
    <3>1. previous' = [previous EXCEPT ![s[d + 1]] = previous[n]]
      BY <1>1, <1>6, <1>7, <2>2 DEF Unlink
    <3>2. d + 1 \in 1..Len(s) /\ s[d + 1] \in Nodes /\ previous[n] \in Pointers
      BY <1>1, <2>2 DEF ListTypeOK
    <3>3. previous' \in [Nodes -> Pointers]
      BY <3>1, <3>2 DEF ListTypeOK
    <3>4. ASSUME NEW i \in 1..Len(s)
          PROVE  previous'[s[i]] = IF i = d + 1 THEN previous[n] ELSE previous[s[i]]
      <4>1. s[i] = s[d + 1] <=> i = d + 1
        BY <1>1, <1>4, <3>2
      <4>2. QED
        BY <1>1, <3>1, <3>2, <4>1 DEF ListTypeOK
    <3>5. QED
      BY <3>3, <3>4
  <2>3. QED
    BY <2>1, <2>2
<1>13. n \notin dangling
  BY <1>1
<1>14. ListTypeOK'
  BY <1>6, <1>10, <1>11, <1>12, <1>13 DEF ListTypeOK
<1>15. \A i, j \in 1..Len(t) : t[i] = t[j] => i = j
  <2> SUFFICES ASSUME NEW i \in 1..Len(t), NEW j \in 1..Len(t), t[i] = t[j] PROVE i = j
    OBVIOUS
  <2>1. CASE i < d /\ j < d
    BY SMTT(30), <1>1, <1>2, <1>3, <1>4, <2>1
  <2>2. CASE i < d /\ j >= d
    BY <1>1, <1>2, <1>3, <1>4, <2>2
  <2>3. CASE i >= d /\ j < d
    BY <1>1, <1>2, <1>3, <1>4, <2>3
  <2>4. CASE i >= d /\ j >= d
    BY <1>1, <1>2, <1>3, <1>4, <2>4
  <2>5. QED
    BY <1>1, <1>2, <2>1, <2>2, <2>3, <2>4
<1>16. ASSUME NEW j \in 1..Len(t)
       PROVE  next'[t[j]] = IF j < Len(t) THEN t[j + 1] ELSE NULL
  <2>1. CASE j + 1 < d
    <3>1. t[j] = s[j] /\ t[j + 1] = s[j + 1] /\ j < Len(t) /\ j \in 1..Len(s) /\ j < Len(s)
      BY SMTT(30), <1>1, <1>2, <1>3, <2>1
    <3>2. QED
      BY <1>1, <1>5, <1>11, <2>1, <3>1
  <2>2. CASE j + 1 = d
    <3>1. t[j] = s[j] /\ j \in 1..Len(s) /\ next'[t[j]] = next[n]
      BY <1>1, <1>2, <1>3, <1>11, <2>2
    <3>2. j < Len(t) <=> d < Len(s)
      BY <1>1, <1>2, <2>2
    <3>3. d < Len(s) => t[j + 1] = s[d + 1]
      BY <1>1, <1>2, <1>3, <2>2
    <3>4. QED
      BY <1>7, <3>1, <3>2, <3>3
  <2>3. CASE j >= d
    <3>1. t[j] = s[j + 1] /\ j + 1 \in 1..Len(s) /\ (j + 1) + 1 # d
      BY <1>1, <1>2, <1>3, <2>3
    <3>2. next'[t[j]] = next[s[j + 1]]
      BY <1>11, <3>1
    <3>3. next[s[j + 1]] = IF j + 1 < Len(s) THEN s[(j + 1) + 1] ELSE NULL
      BY <1>5, <3>1
    <3>4. j + 1 < Len(s) => t[j + 1] = s[(j + 1) + 1]
      BY <1>1, <1>2, <1>3, <2>3
    <3>5. QED
      BY <1>1, <1>2, <3>2, <3>3, <3>4
  <2>4. QED
    BY <1>1, <2>1, <2>2, <2>3
<1>17. ASSUME NEW j \in 1..Len(t)
       PROVE  previous'[t[j]] = IF j = 1 THEN NULL ELSE t[j - 1]
  <2>1. CASE j < d
    <3>1. t[j] = s[j] /\ j \in 1..Len(s) /\ j # d + 1 /\ (j # 1 => t[j - 1] = s[j - 1])
      BY <1>1, <1>2, <1>3, <2>1
    <3>2. QED
      BY <1>5, <1>12, <3>1
  <2>2. CASE j = d
    <3>1. t[j] = s[d + 1] /\ d + 1 \in 1..Len(s) /\ (j # 1 => t[j - 1] = s[d - 1])
      BY SMTT(30), <1>1, <1>2, <1>3, <2>2
    <3>2. QED
      BY <1>7, <1>12, <2>2, <3>1
  <2>3. CASE j > d
    <3>1. t[j] = s[j + 1] /\ j + 1 \in 1..Len(s) /\ j + 1 # d + 1 /\ j # 1 /\ t[j - 1] = s[j]
      BY <1>1, <1>2, <1>3, <2>3
    <3>2. previous'[t[j]] = previous[s[j + 1]]
      BY <1>12, <3>1
    <3>3. previous[s[j + 1]] = s[(j + 1) - 1]
      BY <1>1, <1>2, <1>5, <3>1
    <3>4. QED
      BY <3>1, <3>2, <3>3
  <2>4. QED
    BY <1>1, <2>1, <2>2, <2>3
<1>18. \A m \in Nodes : m \in allocated' \ dangling' <=> \E i \in 1..Len(t) : t[i] = m
  <2>1. \A m \in Nodes : m \in allocated \ dangling <=> \E i \in 1..Len(s) : s[i] = m
    BY DEF Describes
  <2>2. ASSUME NEW m \in Nodes
        PROVE  m # n /\ (\E i \in 1..Len(s) : s[i] = m) <=> \E i \in 1..Len(t) : t[i] = m
    <3>1. ASSUME NEW i \in 1..Len(s), s[i] = m, m # n PROVE \E j \in 1..Len(t) : t[j] = m
      <4>1. CASE i < d
        <5>1. i \in 1..Len(t) /\ t[i] = m
          BY <1>1, <1>2, <1>3, <3>1, <4>1
        <5>2. QED
          BY <5>1
      <4>2. CASE i > d
        <5>1. i - 1 \in 1..Len(t) /\ t[i - 1] = s[(i - 1) + 1]
          BY <1>1, <1>2, <1>3, <4>2
        <5>2. QED
          BY <3>1, <5>1
      <4>3. QED
        BY <1>1, <3>1, <4>1, <4>2
    <3>2. ASSUME NEW i \in 1..Len(t), t[i] = m
          PROVE  m # n /\ \E j \in 1..Len(s) : s[j] = m
      <4>1. CASE i < d
        <5>1. i \in 1..Len(s) /\ s[i] = m /\ i # d
          BY <1>1, <1>2, <1>3, <3>2, <4>1
        <5>2. QED
          BY <1>4, <5>1
      <4>2. CASE i >= d
        <5>1. i + 1 \in 1..Len(s) /\ s[i + 1] = m /\ i + 1 # d
          BY <1>1, <1>2, <1>3, <3>2, <4>2
        <5>2. QED
          BY <1>4, <5>1
      <4>3. QED
        BY <1>1, <1>2, <4>1, <4>2
    <3>3. QED
      BY <3>1, <3>2
  <2>3. QED
    BY <1>6, <2>1, <2>2
<1>19. Describes(t)'
  BY <1>2, <1>8, <1>9, <1>15, <1>16, <1>17, <1>18 DEF Describes
<1>20. QED
  BY <1>14, <1>19 DEF t

(* llist_delete_dangling_node touches no node of the list.                 *)
LEMMA DeletingDangling ==
  ASSUME ListTypeOK, NEW s \in Seq(Nodes), Describes(s), NEW n \in Nodes,
         LlistDeleteDanglingNode(n)
  PROVE  ListTypeOK' /\ Describes(s)'
<1>1. ListTypeOK'
  BY DEF ListTypeOK, LlistDeleteDanglingNode
<1>2. allocated' \ dangling' = allocated \ dangling
  BY DEF LlistDeleteDanglingNode
<1>3. Describes(s)'
  BY <1>2 DEF Describes, LlistDeleteDanglingNode
<1>4. QED
  BY <1>1, <1>3

(* llist_close frees the nodes of the list and no popped node.             *)
LEMMA Closing ==
  ASSUME ListTypeOK, NEW s \in Seq(Nodes), Describes(s), LlistClose
  PROVE  ListTypeOK' /\ Describes(<< >>)'
<1>1. inList = {s[i] : i \in 1..Len(s)}
  BY Reading DEF ReadsWhatIsThere
<1>2. \A m \in Nodes : m \in allocated \ dangling <=> m \in inList
  BY <1>1 DEF Describes
<1>3. allocated' \ dangling' = {}
  BY <1>2 DEF LlistClose, ListTypeOK
<1>4. dangling' \subseteq allocated'
  BY <1>1, Elements DEF LlistClose, ListTypeOK
<1>5. ListTypeOK'
  BY <1>4 DEF LlistClose, ListTypeOK, Pointers
<1>6. Describes(<< >>)'
  BY <1>3 DEF LlistClose, Describes
<1>7. QED
  BY <1>5, <1>6

-----------------------------------------------------------------------------
(* Every step changes the sequence that the pointers describe as NodeList  *)
(* says, or leaves it as it is.                                            *)
LEMMA Stepping ==
  ASSUME ListTypeOK, NEW s \in Seq(Nodes), Describes(s), [ListNext]_listVars
  PROVE  /\ ListTypeOK'
         /\ \E t \in Seq(Nodes) :
              /\ Describes(t)'
              /\ \/ t = s /\ usage' = usage
                 \/ /\ usage' = usage /\ usage = "queue"
                    /\ \/ s # <<>> /\ t = Tail(s)
                       \/ \E n \in Nodes : (\A i \in 1..Len(s) : s[i] # n) /\ t = Append(s, n)
                 \/ /\ usage' = usage /\ usage = "registry"
                    /\ \/ \E n \in Nodes : (\A i \in 1..Len(s) : s[i] # n) /\ t = <<n>> \o s
                       \/ \E i \in 1..Len(s) : t = RemoveAt(s, i)
                 \/ t = << >> /\ usage # "closed" /\ usage' = "closed"
<1> DEFINE Goal(t) ==
      \/ t = s /\ usage' = usage
      \/ /\ usage' = usage /\ usage = "queue"
         /\ \/ s # <<>> /\ t = Tail(s)
            \/ \E n \in Nodes : (\A i \in 1..Len(s) : s[i] # n) /\ t = Append(s, n)
      \/ /\ usage' = usage /\ usage = "registry"
         /\ \/ \E n \in Nodes : (\A i \in 1..Len(s) : s[i] # n) /\ t = <<n>> \o s
            \/ \E i \in 1..Len(s) : t = RemoveAt(s, i)
      \/ t = << >> /\ usage # "closed" /\ usage' = "closed"
<1> SUFFICES ListTypeOK' /\ \E t \in Seq(Nodes) : Describes(t)' /\ Goal(t)
  OBVIOUS
<1>1. CASE UNCHANGED listVars
  <2>1. ListTypeOK'
    BY <1>1 DEF ListTypeOK, listVars
  <2>2. Describes(s)'
    BY <1>1 DEF Describes, listVars
  <2>3. Goal(s)
    BY <1>1 DEF listVars
  <2>4. QED
    BY <2>1, <2>2, <2>3
<1>2. CASE LlistPop
  <2>1. CASE head = NULL
    <3>1. UNCHANGED listVars
      BY <1>2, <2>1 DEF LlistPop
    <3>2. QED
      BY <1>1, <3>1
  <2>2. CASE head # NULL
    <3>1. s # <<>>
      BY <2>2 DEF Describes
    <3>2. ListTypeOK' /\ Describes(Tail(s))'
      BY <1>2, <3>1, Popping
    <3>3. Tail(s) \in Seq(Nodes)
      BY <3>1
    <3>4. Goal(Tail(s))
      BY <1>2, <2>2, <3>1 DEF LlistPop
    <3>5. QED
      BY <3>2, <3>3, <3>4
  <2>3. QED
    BY <2>1, <2>2
<1>3. CASE LlistClose
  <2>1. ListTypeOK' /\ Describes(<< >>)'
    BY <1>3, Closing
  <2>2. << >> \in Seq(Nodes) /\ Goal(<< >>)
    BY <1>3 DEF LlistClose
  <2>3. QED
    BY <2>1, <2>2
<1>4. ASSUME NEW n \in Nodes, Malloc(n) PROVE \A i \in 1..Len(s) : s[i] # n
  BY <1>4, Elements DEF Malloc
<1>5. ASSUME NEW n \in Nodes, LlistPush(n)
      PROVE  ListTypeOK' /\ \E t \in Seq(Nodes) : Describes(t)' /\ Goal(t)
  <2>1. ListTypeOK' /\ Describes(<<n>> \o s)'
    BY <1>5, Pushing
  <2>2. <<n>> \o s \in Seq(Nodes)
    OBVIOUS
  <2>3. Goal(<<n>> \o s)
    BY <1>4, <1>5 DEF LlistPush
  <2>4. QED
    BY <2>1, <2>2, <2>3
<1>6. ASSUME NEW n \in Nodes, LlistAppend(n)
      PROVE  ListTypeOK' /\ \E t \in Seq(Nodes) : Describes(t)' /\ Goal(t)
  <2>1. ListTypeOK' /\ Describes(Append(s, n))'
    BY <1>6, Appending
  <2>2. Append(s, n) \in Seq(Nodes)
    OBVIOUS
  <2>3. Goal(Append(s, n))
    BY <1>4, <1>6 DEF LlistAppend
  <2>4. QED
    BY <2>1, <2>2, <2>3
<1>7. ASSUME NEW n \in Nodes, LlistDeleteDanglingNode(n)
      PROVE  ListTypeOK' /\ \E t \in Seq(Nodes) : Describes(t)' /\ Goal(t)
  <2>1. ListTypeOK' /\ Describes(s)'
    BY <1>7, DeletingDangling
  <2>2. Goal(s)
    BY <1>7 DEF LlistDeleteDanglingNode
  <2>3. QED
    BY <2>1, <2>2
<1>8. ASSUME NEW n \in Nodes, LlistDeleteNode(n)
      PROVE  ListTypeOK' /\ \E t \in Seq(Nodes) : Describes(t)' /\ Goal(t)
  <2>1. n \in inList /\ inList = {s[i] : i \in 1..Len(s)}
    BY <1>8, Reading DEF LlistDeleteNode, ReadsWhatIsThere
  <2>2. PICK d \in 1..Len(s) : s[d] = n
    BY <2>1
  <2>3. ListTypeOK' /\ Describes(RemoveAt(s, d))'
    BY <1>8, <2>2, Deleting
  <2>4. RemoveAt(s, d) \in Seq(Nodes)
    BY RemovingOne
  <2>5. Goal(RemoveAt(s, d))
    BY <1>8 DEF LlistDeleteNode
  <2>6. QED
    BY <2>3, <2>4, <2>5
<1>9. QED
  BY <1>1, <1>2, <1>3, <1>5, <1>6, <1>7, <1>8 DEF ListNext

(* At first every list is empty.                                           *)
LEMMA InitIInv == ListInit => IInv
<1> SUFFICES ASSUME ListInit PROVE IInv
  OBVIOUS
<1>1. ListTypeOK
  BY DEF ListInit, ListTypeOK, Pointers
<1>2. Describes(<< >>)
  BY DEF ListInit, Describes
<1>3. contents = << >>
  <2>1. << >> \in Seq(Nodes)
    OBVIOUS
  <2>2. QED
    BY <1>2, <2>1, Reading, Zenon DEF ReadsWhatIsThere
<1>4. QED
  BY <1>1, <1>2, <1>3 DEF IInv

(* The pointers go on describing the sequence that is read from them.      *)
LEMMA NextIInv == IInv /\ [ListNext]_listVars => IInv'
<1> SUFFICES ASSUME IInv, [ListNext]_listVars PROVE IInv'
  OBVIOUS
<1>1. PICK s \in Seq(Nodes) : s = contents /\ Describes(s)
  BY DEF IInv, Describes
<1>2. ListTypeOK' /\ \E t \in Seq(Nodes) : Describes(t)'
  BY <1>1, Stepping DEF IInv
<1>3. PICK t \in Seq(Nodes) : Describes(t)'
  BY <1>2
<1>4. contents' = t
  BY <1>3, ReadingNext DEF ReadsWhatIsThere
<1>5. Describes(contents)'
  BY <1>3, <1>4
<1>6. QED
  BY <1>2, <1>5 DEF IInv

(* The pointers of the list describe one sequence in every state.          *)
THEOREM ListInvariant == ListSpec => []IInv
BY InitIInv, NextIInv, PTL DEF ListSpec

(* The variables of the list keep their types, and a popped node stays     *)
(* allocated until its holder deletes it.                                  *)
THEOREM ListTypes == ListSpec => []ListTypeOK
<1>1. IInv => ListTypeOK
  BY DEF IInv
<1>2. QED
  BY <1>1, ListInvariant, PTL

(* head, tail and next describe one list of exactly the nodes that are     *)
(* allocated and not popped: no node is lost and no freed node is read.    *)
THEOREM ListsWellLinked == ListSpec => []WellLinked
<1>1. IInv => WellLinked
  <2> SUFFICES ASSUME IInv PROVE WellLinked
    OBVIOUS
  <2>1. PICK s \in Seq(Nodes) : s = contents /\ Describes(s)
    BY DEF IInv, Describes
  <2>2. inList = {s[i] : i \in 1..Len(s)}
    BY <2>1, Reading DEF ReadsWhatIsThere
  <2>3. /\ Len(s) \in Nat
        /\ \A i \in 1..Len(s) : s[i] \in Nodes
        /\ head = NULL <=> Len(s) = 0
        /\ tail = NULL <=> Len(s) = 0
    BY <2>1, Elements DEF IInv
  <2>4. head # NULL => contents[Len(contents)] = tail /\ next[tail] = NULL
    BY <2>1, <2>3 DEF Describes
  <2>5. Cardinality(inList) = Len(contents)
    <3>1. [i \in 1..Len(s) |-> s[i]] \in Bijection(1..Len(s), inList)
      BY <2>1, <2>2 DEF Describes, Bijection, Injection, Surjection, IsInjective
    <3>2. IsFiniteSet(1..Len(s)) /\ Cardinality(1..Len(s)) = Len(s)
      BY <2>3, FS_Interval
    <3>3. Cardinality(inList) = Cardinality(1..Len(s))
      BY <3>1, <3>2, FS_Bijection DEF ExistsBijection
    <3>4. QED
      BY <2>1, <3>2, <3>3
  <2>6. inList = allocated \ dangling
    <3>1. \A n \in Nodes : n \in allocated \ dangling <=> n \in inList
      BY <2>1, <2>2 DEF Describes
    <3>2. inList \subseteq Nodes /\ allocated \subseteq Nodes
      BY <2>2, <2>3 DEF IInv, ListTypeOK
    <3>3. QED
      BY <3>1, <3>2
  <2>7. QED
    BY <2>3, <2>4, <2>5, <2>6 DEF WellLinked
<1>2. QED
  BY <1>1, ListInvariant, PTL

(* In a registry any node may be deleted: its neighbours point back at it. *)
THEOREM RegistriesSafeToDelete == ListSpec => []SafeToDelete
<1>1. IInv => SafeToDelete
  <2> SUFFICES ASSUME IInv, usage = "registry", NEW n \in inList
               PROVE  /\ previous[n] = NULL <=> n = head
                      /\ next[n] # NULL => previous[next[n]] = n
                      /\ previous[n] # NULL => previous[n] \in inList /\ next[previous[n]] = n
    BY DEF SafeToDelete
  <2>1. PICK s \in Seq(Nodes) : s = contents /\ Describes(s)
    BY DEF IInv, Describes
  <2>2. inList = {s[i] : i \in 1..Len(s)}
    BY <2>1, Reading DEF ReadsWhatIsThere
  <2>3. PICK d \in 1..Len(s) : s[d] = n
    BY <2>2
  <2>4. Len(s) \in Nat /\ \A i \in 1..Len(s) : s[i] # NULL
    BY <2>1, Elements DEF IInv
  <2>5. /\ \A i, j \in 1..Len(s) : s[i] = s[j] => i = j
        /\ head = s[1]
        /\ \A i \in 1..Len(s) : next[s[i]] = IF i < Len(s) THEN s[i + 1] ELSE NULL
        /\ \A i \in 1..Len(s) : previous[s[i]] = IF i = 1 THEN NULL ELSE s[i - 1]
    BY <2>1, <2>3, <2>4 DEF Describes
  <2>6. previous[n] = NULL <=> n = head
    BY <2>3, <2>4, <2>5
  <2>7. next[n] # NULL => previous[next[n]] = n
    BY SMTT(30), <2>3, <2>4, <2>5
  <2>8. previous[n] # NULL => previous[n] \in inList /\ next[previous[n]] = n
    BY <2>2, <2>3, <2>4, <2>5
  <2>9. QED
    BY <2>6, <2>7, <2>8
<1>2. QED
  BY <1>1, ListInvariant, PTL

(* The pointer operations implement a sequence of nodes: what is read from *)
(* the pointers is appended to, popped, pushed to, deleted from and closed *)
(* as NodeList says.                                                       *)
THEOREM ListImplementsSequence == ListSpec => ImplementsNodeList
<1>1. ListInit => NL!Init
  <2> SUFFICES ASSUME ListInit PROVE NL!Init
    OBVIOUS
  <2>1. Describes(<< >>)
    BY DEF ListInit, Describes
  <2>2. contents = << >>
    <3>1. << >> \in Seq(Nodes)
      OBVIOUS
    <3>2. QED
      BY <2>1, <3>1, Reading, Zenon DEF ReadsWhatIsThere
  <2>3. QED
    BY <2>2 DEF ListInit, NL!Init
<1>2. IInv /\ [ListNext]_listVars => [NL!Next]_NL!vars
  <2> SUFFICES ASSUME IInv, [ListNext]_listVars PROVE [NL!Next]_NL!vars
    OBVIOUS
  <2>1. PICK s \in Seq(Nodes) : s = contents /\ Describes(s)
    BY DEF IInv, Describes
  <2>2. PICK t \in Seq(Nodes) :
          /\ Describes(t)'
          /\ \/ t = s /\ usage' = usage
             \/ /\ usage' = usage /\ usage = "queue"
                /\ \/ s # <<>> /\ t = Tail(s)
                   \/ \E n \in Nodes : (\A i \in 1..Len(s) : s[i] # n) /\ t = Append(s, n)
             \/ /\ usage' = usage /\ usage = "registry"
                /\ \/ \E n \in Nodes : (\A i \in 1..Len(s) : s[i] # n) /\ t = <<n>> \o s
                   \/ \E i \in 1..Len(s) : t = RemoveAt(s, i)
             \/ t = << >> /\ usage # "closed" /\ usage' = "closed"
    BY <2>1, Stepping DEF IInv
  <2>3. contents = s /\ contents' = t
    BY <2>1, <2>2, ReadingNext DEF ReadsWhatIsThere
  <2>4. DOMAIN s = 1..Len(s)
    OBVIOUS
  <2>5. CASE t = s /\ usage' = usage
    BY <2>3, <2>5 DEF NL!vars
  <2>6. CASE usage' = usage /\ usage = "queue" /\ s # <<>> /\ t = Tail(s)
    BY <2>3, <2>6 DEF NL!Next, NL!Use, NL!TakeFirst
  <2>7. ASSUME usage' = usage, usage = "queue", NEW n \in Nodes,
               \A i \in 1..Len(s) : s[i] # n, t = Append(s, n)
        PROVE  NL!Next
    BY <2>3, <2>4, <2>7 DEF NL!Next, NL!Use, NL!AddLast, NL!Fresh
  <2>8. ASSUME usage' = usage, usage = "registry", NEW n \in Nodes,
               \A i \in 1..Len(s) : s[i] # n, t = <<n>> \o s
        PROVE  NL!Next
    BY <2>3, <2>4, <2>8 DEF NL!Next, NL!Use, NL!AddFirst, NL!Fresh
  <2>9. ASSUME usage' = usage, usage = "registry", NEW i \in 1..Len(s), t = RemoveAt(s, i)
        PROVE  NL!Next
    <3>1. s[i] \in Nodes
      OBVIOUS
    <3>2. PICK n \in Nodes : n = s[i]
      BY <3>1
    <3>3. s[i] = n /\ t = RemoveAt(s, i) /\ i \in DOMAIN s
      BY <2>4, <2>9, <3>2
    <3>4. NL!Take(n)
      BY <2>3, <3>3 DEF NL!Take, RemoveAt, NL!RemoveAt
    <3>5. QED
      BY <2>9, <3>4 DEF NL!Next, NL!Use
  <2>10. CASE t = << >> /\ usage # "closed" /\ usage' = "closed"
    BY <2>3, <2>10 DEF NL!Next, NL!Close
  <2>11. QED
    BY <2>2, <2>5, <2>6, <2>7, <2>8, <2>9, <2>10
<1>3. QED
  BY <1>1, <1>2, ListInvariant, PTL DEF ImplementsNodeList, NL!Spec, ListSpec
=============================================================================

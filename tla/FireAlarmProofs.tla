--------------------------- MODULE FireAlarmProofs ---------------------------
(***************************************************************************)
(* Proofs about the fire alarm, for any number of levels and gates, windows *)
(* of any length and any temperatures: the windows always hold the newest  *)
(* samples and their medians, so the alarm is raised on evidence only.     *)
(***************************************************************************)
EXTENDS FireAlarm, FiniteSetTheorems, SequenceTheorems, TLAPS,
        WellFoundedInduction

W == MEDIAN_WINDOW
T == TEMPCHANGE_WINDOW
middle == (MEDIAN_WINDOW - 1) \div 2

(* The temperature t is a median of the samples that start at i. *)
IsMedian(s, i, t) ==
  /\ t \in Temperatures
  /\ Cardinality({j \in i..i + MEDIAN_WINDOW - 1 : s[j] < t}) <= (MEDIAN_WINDOW - 1) \div 2
  /\ Cardinality({j \in i..i + MEDIAN_WINDOW - 1 : s[j] <= t}) > (MEDIAN_WINDOW - 1) \div 2

-----------------------------------------------------------------------------
(* The least of some natural numbers. *)
LEMMA LeastNumber ==
  ASSUME NEW S \in SUBSET Nat, S # {}
  PROVE  \E m \in S : \A k \in S : m <= k
<1>1. \E m \in S : \A k \in S : ~(<<k, m>> \in OpToRel(<, Nat))
  BY WFMin, NatLessThanWellFounded
<1>2. PICK m \in S : \A k \in S : ~(<<k, m>> \in OpToRel(<, Nat))
  BY <1>1
<1>3. ASSUME NEW k \in S, k < m PROVE FALSE
  <2>1. <<k, m>> \in OpToRel(<, Nat)
    BY <1>3 DEF OpToRel
  <2>2. QED
    BY <1>2, <2>1
<1>4. m \in Nat /\ \A k \in S : k \in Nat
  OBVIOUS
<1>5. ASSUME NEW k \in S PROVE m <= k
  BY <1>3, <1>4
<1>6. QED
  BY <1>5

(* Temperatures can be compared and subtracted. *)
LEMMA TemperaturesAreNumbers == \A t \in Temperatures : t \in Int
BY AlarmAssumption

(* A window has a middle, which is not its last sample unless it is the    *)
(* only one, and lies strictly inside a window of three or more.           *)
LEMMA Middle ==
  /\ W \in Nat /\ W >= 1 /\ T \in Nat /\ T >= 1
  /\ middle \in Nat /\ middle + 1 <= W
  /\ W >= 3 => middle >= 1 /\ middle < W - 1
<1>1. MEDIAN_WINDOW \in Nat /\ MEDIAN_WINDOW # 0 /\ TEMPCHANGE_WINDOW \in Nat /\ TEMPCHANGE_WINDOW # 0
  BY AlarmAssumption
<1>2. \A n \in Nat : n >= 1 => /\ (n - 1) \div 2 \in Nat /\ (n - 1) \div 2 + 1 <= n
                              /\ (n >= 3 => (n - 1) \div 2 >= 1 /\ (n - 1) \div 2 < n - 1)
  OBVIOUS
<1>3. W \in Nat /\ W >= 1 /\ T \in Nat /\ T >= 1
  BY <1>1 DEF W, T
<1>4. QED
  BY <1>2, <1>3 DEF W, middle

(* As many different things as there are numbers from 1 to n. *)
LEMMA CountImage ==
  ASSUME NEW n \in Nat, NEW p, \A i, j \in 1..n : p[i] = p[j] => i = j,
         NEW S, \A i \in 1..n : p[i] \in S, \A q \in S : \E i \in 1..n : p[i] = q
  PROVE  IsFiniteSet(S) /\ Cardinality(S) = n
<1> DEFINE g == [i \in 1..n |-> p[i]]
<1>1. g \in Bijection(1..n, S)
  BY DEF Bijection, Injection, Surjection, IsInjective
<1>2. IsFiniteSet(1..n) /\ Cardinality(1..n) = n
  BY FS_Interval
<1>3. IsFiniteSet(S) /\ Cardinality(S) = Cardinality(1..n)
  BY <1>1, <1>2, FS_Bijection DEF ExistsBijection
<1>4. QED
  BY <1>2, <1>3

(* Samples can be put in order: the last is inserted before the first that *)
(* is greater, among those that are in order already.                      *)
LEMMA CanBeOrdered ==
  ASSUME NEW n \in Nat, NEW s, \A i \in 1..n : s[i] \in Int
  PROVE  \E p \in Bijection(1..n, 1..n) : \A i, j \in 1..n : i < j => s[p[i]] <= s[p[j]]
<1> DEFINE InOrder(k, p) == \A i, j \in 1..k : i < j => s[p[i]] <= s[p[j]]
           bad == {k \in Nat : k <= n /\ ~\E p \in Bijection(1..k, 1..k) : InOrder(k, p)}
<1> SUFFICES ASSUME bad # {} PROVE FALSE
  OBVIOUS
<1>1. PICK k \in bad : \A j \in bad : k <= j
  BY LeastNumber
<1>2. k \in Nat /\ k <= n /\ ~\E p \in Bijection(1..k, 1..k) : InOrder(k, p)
  OBVIOUS
<1>3. k # 0
  <2> SUFFICES ASSUME k = 0 PROVE FALSE
    OBVIOUS
  <2> DEFINE p == [i \in 1..0 |-> i]
  <2>1. p \in Bijection(1..0, 1..0) /\ InOrder(0, p)
    BY DEF Bijection, Injection, Surjection, IsInjective
  <2>2. QED
    BY <1>2, <2>1
<1>4. k - 1 \in Nat /\ k - 1 <= n /\ k - 1 \notin bad
  <2>1. k - 1 \in Nat /\ k - 1 <= n /\ ~(k <= k - 1)
    BY <1>2, <1>3
  <2> HIDE DEF bad
  <2>2. QED
    BY <1>1, <2>1
<1>5. PICK p \in Bijection(1..k - 1, 1..k - 1) : InOrder(k - 1, p)
  BY <1>4
<1>6. /\ p \in [1..k - 1 -> 1..k - 1]
      /\ \A i, j \in 1..k - 1 : p[i] = p[j] => i = j
      /\ \A q \in 1..k - 1 : \E i \in 1..k - 1 : p[i] = q
      /\ \A i, j \in 1..k - 1 : i < j => s[p[i]] <= s[p[j]]
  BY <1>5 DEF Bijection, Injection, Surjection, IsInjective
<1> HIDE DEF bad
<1> DEFINE later == {i \in 1..k : i = k \/ s[k] < s[p[i]]}
<1>7. k \in later /\ later \in SUBSET Nat
  BY <1>2, <1>3
<1>8. PICK m \in later : \A i \in later : m <= i
  <2> HIDE DEF later
  <2>1. QED
    BY <1>7, LeastNumber
<1>9. m \in 1..k /\ (m < k => s[k] < s[p[m]])
  BY <1>2
<1>10. ASSUME NEW i \in 1..k - 1, i < m PROVE s[p[i]] <= s[k]
  <2>1. i \in 1..k /\ i \notin later
    BY <1>2, <1>8, <1>9, <1>10
  <2>2. ~(s[k] < s[p[i]])
    BY <2>1
  <2> HIDE DEF later
  <2>3. p[i] \in 1..k - 1
    BY <1>6
  <2>4. \A h \in 1..k - 1 : h \in 1..n
    BY <1>2
  <2>5. k \in 1..n
    BY <1>2, <1>3
  <2>6. QED
    BY <2>2, <2>3, <2>4, <2>5
<1> HIDE DEF later
<1> DEFINE q == [i \in 1..k |-> IF i < m THEN p[i] ELSE IF i = m THEN k ELSE p[i - 1]]
<1>11. \A i \in 1..k : \/ i < m /\ i \in 1..k - 1 /\ q[i] = p[i]
                       \/ i = m /\ q[i] = k
                       \/ i > m /\ i - 1 \in 1..k - 1 /\ q[i] = p[i - 1]
  BY <1>2, <1>9
<1>12. q \in [1..k -> 1..k]
  <2>1. ASSUME NEW i \in 1..k
        PROVE  (IF i < m THEN p[i] ELSE IF i = m THEN k ELSE p[i - 1]) \in 1..k
    <3>1. \A h \in 1..k - 1 : p[h] \in 1..k
      BY <1>2, <1>6
    <3>2. i < m => i \in 1..k - 1
      BY <1>2, <1>9
    <3>3. ~(i < m) /\ i # m => i - 1 \in 1..k - 1
      BY <1>2, <1>9
    <3>4. k \in 1..k
      BY <1>2, <1>3
    <3>5. QED
      BY <3>1, <3>2, <3>3, <3>4
  <2>2. QED
    BY <2>1
<1> HIDE DEF q
<1>13. \A i, j \in 1..k : q[i] = q[j] => i = j
  <2> SUFFICES ASSUME NEW i \in 1..k, NEW j \in 1..k, q[i] = q[j] PROVE i = j
    OBVIOUS
  <2>1. \A h \in 1..k - 1 : p[h] # k
    BY <1>2, <1>6
  <2>2. CASE i = m \/ j = m
    BY <1>9, <1>11, <2>1, <2>2
  <2>3. CASE i < m /\ j < m
    BY <1>6, <1>9, <1>11, <2>3
  <2>4. CASE i > m /\ j > m
    <3>1. i - 1 \in 1..k - 1 /\ j - 1 \in 1..k - 1 /\ p[i - 1] = p[j - 1]
      BY <1>9, <1>11, <2>4
    <3>2. i - 1 = j - 1
      BY <1>6, <3>1
    <3>3. QED
      BY <3>2
  <2>5. CASE i < m /\ j > m
    <3>1. i \in 1..k - 1 /\ j - 1 \in 1..k - 1 /\ p[i] = p[j - 1]
      BY <1>9, <1>11, <2>5
    <3>2. i = j - 1
      BY <1>6, <3>1
    <3>3. QED
      BY <1>9, <2>5, <3>2
  <2>6. CASE i > m /\ j < m
    <3>1. j \in 1..k - 1 /\ i - 1 \in 1..k - 1 /\ p[j] = p[i - 1]
      BY <1>9, <1>11, <2>6
    <3>2. j = i - 1
      BY <1>6, <3>1
    <3>3. QED
      BY <1>9, <2>6, <3>2
  <2>7. QED
    BY <1>9, <2>2, <2>3, <2>4, <2>5, <2>6
<1>14. ASSUME NEW h \in 1..k PROVE \E i \in 1..k : q[i] = h
  <2>1. CASE h = k
    BY <1>9, <1>11, <2>1
  <2>2. CASE h # k
    <3>1. h \in 1..k - 1
      BY <1>2, <2>2
    <3>2. PICK i \in 1..k - 1 : p[i] = h
      BY <1>6, <3>1
    <3>3. CASE i < m
      <4>1. i \in 1..k /\ q[i] = p[i]
        BY <1>2, <1>9, <1>11, <3>3
      <4>2. QED
        BY <3>2, <4>1
    <3>4. CASE ~(i < m)
      <4>1. i + 1 \in 1..k /\ i + 1 > m /\ (i + 1) - 1 = i
        BY <1>2, <1>9, <3>4
      <4>2. q[i + 1] = p[(i + 1) - 1]
        BY <1>9, <1>11, <4>1
      <4>3. QED
        BY <3>2, <4>1, <4>2
    <3>5. QED
      BY <3>3, <3>4
  <2>3. QED
    BY <2>1, <2>2
<1>15. ASSUME NEW i \in 1..k, NEW j \in 1..k, i < j PROVE s[q[i]] <= s[q[j]]
  <2>1. \A h \in 1..k - 1 : s[p[h]] \in Int
    BY SMTT(30), <1>2, <1>6
  <2>2. s[k] \in Int
    BY <1>2, <1>3
  <2>3. CASE i < m /\ j < m
    <3>1. i \in 1..k - 1 /\ j \in 1..k - 1 /\ q[i] = p[i] /\ q[j] = p[j]
      BY <1>9, <1>11, <2>3
    <3>2. QED
      BY <1>6, <1>15, <3>1
  <2>4. CASE i < m /\ j = m
    BY <1>9, <1>10, <1>11, <2>4
  <2>5. CASE i < m /\ j > m
    <3>1. i \in 1..k - 1 /\ j - 1 \in 1..k - 1 /\ q[i] = p[i] /\ q[j] = p[j - 1]
      BY <1>9, <1>11, <2>5
    <3>2. i < j - 1
      BY <1>9, <2>5
    <3>3. QED
      BY <1>6, <3>1, <3>2
  <2>6. CASE i = m /\ j > m
    <3>1. j - 1 \in 1..k - 1 /\ q[i] = k /\ q[j] = p[j - 1] /\ m \in 1..k - 1 /\ m < k
      BY <1>2, <1>9, <1>11, <2>6
    <3>2. s[k] < s[p[m]]
      BY <1>9, <3>1
    <3>3. m = j - 1 \/ m < j - 1
      BY <1>9, <2>6
    <3>4. s[p[m]] <= s[p[j - 1]]
      <4>1. CASE m = j - 1
        BY <2>1, <3>1, <4>1
      <4>2. CASE m < j - 1
        BY <1>6, <3>1, <4>2
      <4>3. QED
        BY <3>3, <4>1, <4>2
    <3>5. s[k] <= s[p[j - 1]]
      BY <2>1, <2>2, <3>1, <3>2, <3>4
    <3>6. QED
      BY <3>1, <3>5
  <2>7. CASE i > m /\ j > m
    <3>1. i - 1 \in 1..k - 1 /\ j - 1 \in 1..k - 1 /\ q[i] = p[i - 1] /\ q[j] = p[j - 1]
      BY <1>9, <1>11, <2>7
    <3>2. i - 1 < j - 1
      BY <1>15
    <3>3. QED
      BY <1>6, <3>1, <3>2
  <2>8. QED
    BY <1>9, <1>15, <2>3, <2>4, <2>5, <2>6, <2>7
<1>16. q \in Bijection(1..k, 1..k)
  BY <1>12, <1>13, <1>14 DEF Bijection, Injection, Surjection, IsInjective
<1>17. QED
  BY <1>2, <1>15, <1>16

-----------------------------------------------------------------------------
(* Two medians of the same samples are equal: of two different ones, the   *)
(* samples up to the smaller would be among those below the greater.       *)
LEMMA MedianUnique ==
  ASSUME NEW s, NEW i \in Nat, NEW t1, NEW t2, IsMedian(s, i, t1), IsMedian(s, i, t2),
         \A j \in i..i + W - 1 : s[j] \in Int
  PROVE  t1 = t2
<1> DEFINE below(t) == {j \in i..i + W - 1 : s[j] < t}
           upto(t) == {j \in i..i + W - 1 : s[j] <= t}
<1>1. \A t \in Int : /\ IsFiniteSet(below(t)) /\ Cardinality(below(t)) \in Nat
                     /\ IsFiniteSet(upto(t)) /\ Cardinality(upto(t)) \in Nat
  <2> SUFFICES ASSUME NEW t \in Int
               PROVE  /\ IsFiniteSet(below(t)) /\ Cardinality(below(t)) \in Nat
                      /\ IsFiniteSet(upto(t)) /\ Cardinality(upto(t)) \in Nat
    OBVIOUS
  <2>1. i \in Int /\ i + W - 1 \in Int
    BY Middle
  <2>2. IsFiniteSet(i..i + W - 1)
    BY <2>1, FS_Interval
  <2>3. IsFiniteSet(below(t)) /\ IsFiniteSet(upto(t))
    BY <2>2, FS_Subset
  <2>4. QED
    BY <2>3, FS_CardinalityType
<1>2. ASSUME NEW a \in Int, NEW b \in Int, a < b, IsMedian(s, i, a), IsMedian(s, i, b) PROVE FALSE
  <2>1. upto(a) \subseteq below(b)
    BY <1>2
  <2>2. Cardinality(upto(a)) <= Cardinality(below(b))
    BY <1>1, <2>1, FS_Subset
  <2>3. Cardinality(upto(a)) > middle /\ Cardinality(below(b)) <= middle
    BY <1>2 DEF IsMedian, middle, W
  <2>4. Cardinality(upto(a)) \in Nat /\ Cardinality(below(b)) \in Nat
    BY <1>1
  <2> HIDE DEF upto, below
  <2>5. QED
    BY <2>2, <2>3, <2>4, Middle
<1>3. t1 \in Int /\ t2 \in Int
  BY TemperaturesAreNumbers DEF IsMedian
<1>4. t1 < t2 \/ t2 < t1 \/ t1 = t2
  BY <1>3
<1>5. QED
  BY <1>2, <1>3, <1>4

(* So RefMedian finds the one there is.                                    *)
LEMMA RefMedianFinds ==
  ASSUME NEW s, NEW i \in Nat, NEW t, IsMedian(s, i, t),
         \A j \in i..i + W - 1 : s[j] \in Int
  PROVE  RefMedian(s, i) = t
<1>1. RefMedian(s, i) = CHOOSE m \in Temperatures : IsMedian(s, i, m)
  BY DEF RefMedian, IsMedian
<1>2. t \in Temperatures
  BY DEF IsMedian
<1>3. \A m \in Temperatures : IsMedian(s, i, m) => m = t
  BY MedianUnique
<1>4. QED
  BY <1>1, <1>2, <1>3

(* A median of a window is one of the same samples wherever they stand.    *)
LEMMA MedianMoves ==
  ASSUME NEW s, NEW i \in Nat, NEW s2, NEW i2 \in Nat, NEW t, IsMedian(s, i, t),
         \A j \in i..i + W - 1 : s[j] = s2[j - i + i2]
  PROVE  IsMedian(s2, i2, t)
<1> DEFINE here == i..i + W - 1
           there == i2..i2 + W - 1
           below1 == {j \in here : s[j] < t}
           below2 == {j \in there : s2[j] < t}
           upto1 == {j \in here : s[j] <= t}
           upto2 == {j \in there : s2[j] <= t}
<1>1. W \in Nat /\ \A j \in here : j \in Int /\ j - i + i2 \in there
  BY Middle
<1>2. \A k \in there : k - i2 + i \in here /\ (k - i2 + i) - i + i2 = k
  BY Middle
<1>3. IsFiniteSet(here)
  <2>1. i \in Int /\ i + W - 1 \in Int
    BY Middle
  <2>2. QED
    BY <2>1, FS_Interval
<1>4. Cardinality(below2) = Cardinality(below1)
  <2> DEFINE g == [j \in below1 |-> j - i + i2]
  <2>1. \A j \in below1 : j - i + i2 \in below2
    BY <1>1
  <2>2. \A k \in below2 : k - i2 + i \in below1 /\ (k - i2 + i) - i + i2 = k
    BY <1>2
  <2>3. \A j, k \in below1 : j - i + i2 = k - i + i2 => j = k
    BY <1>1
  <2> HIDE DEF below1, below2
  <2>4. g \in Bijection(below1, below2)
    <3>1. \A k \in below2 : \E j \in below1 : g[j] = k
      BY <2>2
    <3>2. QED
      BY <2>1, <2>3, <3>1 DEF Bijection, Injection, Surjection, IsInjective
  <2>5. IsFiniteSet(below1)
    BY <1>3, FS_Subset DEF below1
  <2>6. QED
    BY <2>4, <2>5, FS_Bijection DEF ExistsBijection
<1>5. Cardinality(upto2) = Cardinality(upto1)
  <2> DEFINE g == [j \in upto1 |-> j - i + i2]
  <2>1. \A j \in upto1 : j - i + i2 \in upto2
    BY <1>1
  <2>2. \A k \in upto2 : k - i2 + i \in upto1 /\ (k - i2 + i) - i + i2 = k
    BY <1>2
  <2>3. \A j, k \in upto1 : j - i + i2 = k - i + i2 => j = k
    BY <1>1
  <2> HIDE DEF upto1, upto2
  <2>4. g \in Bijection(upto1, upto2)
    <3>1. \A k \in upto2 : \E j \in upto1 : g[j] = k
      BY <2>2
    <3>2. QED
      BY <2>1, <2>3, <3>1 DEF Bijection, Injection, Surjection, IsInjective
  <2>5. IsFiniteSet(upto1)
    BY <1>3, FS_Subset DEF upto1
  <2>6. QED
    BY <2>4, <2>5, FS_Bijection DEF ExistsBijection
<1>6. QED
  BY <1>4, <1>5 DEF IsMedian, W

(* The middle of the sorted samples is a median of them.                   *)
LEMMA SortedMiddle ==
  ASSUME NEW list \in Seq(Temperatures), Len(list) = W
  PROVE  IsMedian(list, 1, mediantemp(list))
<1>1. DOMAIN list = 1..W /\ \A i \in 1..W : list[i] \in Temperatures /\ list[i] \in Int
  <2>1. DOMAIN list = 1..W /\ \A i \in 1..W : list[i] \in Temperatures
    OBVIOUS
  <2>2. QED
    BY <2>1, TemperaturesAreNumbers
<1>2. \E p \in Bijection(1..W, 1..W) : orders(list, p)
  BY <1>1, CanBeOrdered, Middle DEF orders
<1> DEFINE p == CHOOSE p \in Bijection(1..W, 1..W) : orders(list, p)
<1>3. p \in Bijection(1..W, 1..W) /\ orders(list, p)
  BY <1>2
<1>4. qsort(list) = [i \in 1..W |-> list[p[i]]]
  BY <1>1 DEF qsort
<1> HIDE DEF p
<1>5. /\ p \in [1..W -> 1..W]
      /\ \A i, j \in 1..W : p[i] = p[j] => i = j
      /\ \A q \in 1..W : \E i \in 1..W : p[i] = q
      /\ \A i, j \in 1..W : i < j => list[p[i]] <= list[p[j]]
  BY <1>1, <1>3 DEF Bijection, Injection, Surjection, IsInjective, orders
<1>6. middle \in Nat /\ middle + 1 \in 1..W /\ W \in Nat
  BY Middle
<1> DEFINE t == list[p[middle + 1]]
           below == {j \in 1..1 + W - 1 : list[j] < t}
           upto == {j \in 1..1 + W - 1 : list[j] <= t}
<1>7. mediantemp(list) = t
  BY <1>4, <1>6 DEF mediantemp, middle
<1>8. t \in Temperatures /\ t \in Int
  BY <1>1, <1>5, <1>6
<1>9. \A i \in 1..W : p[i] \in 1..W /\ list[p[i]] \in Int
  BY <1>1, <1>5
<1> HIDE DEF t
<1>10. \A i \in 1..middle + 1 : i \in 1..W /\ list[p[i]] <= t
  <2> SUFFICES ASSUME NEW i \in 1..middle + 1 PROVE i \in 1..W /\ list[p[i]] <= t
    OBVIOUS
  <2>1. i \in 1..W
    BY <1>6
  <2>2. CASE i = middle + 1
    BY <1>6, <1>8, <2>1, <2>2 DEF t
  <2>3. CASE i < middle + 1
    BY <1>5, <1>6, <2>1, <2>3 DEF t
  <2>4. QED
    BY <1>6, <2>1, <2>2, <2>3
<1>11. \A i \in 1..W : ~(i <= middle) => t <= list[p[i]]
  <2> SUFFICES ASSUME NEW i \in 1..W, ~(i <= middle) PROVE t <= list[p[i]]
    OBVIOUS
  <2>1. CASE i = middle + 1
    BY <1>8, <2>1 DEF t
  <2>2. CASE middle + 1 < i
    BY <1>5, <1>6, <2>2 DEF t
  <2>3. QED
    BY <1>6, <2>1, <2>2
<1>12. Cardinality(below) <= middle
  <2> DEFINE first == {p[i] : i \in 1..middle}
  <2>1. IsFiniteSet(first) /\ Cardinality(first) = middle
    <3>1. \A i, j \in 1..middle : p[i] = p[j] => i = j
      BY SMTT(30), <1>5, <1>6
    <3>2. (\A i \in 1..middle : p[i] \in first) /\ \A q \in first : \E i \in 1..middle : p[i] = q
      OBVIOUS
    <3> HIDE DEF first
    <3>3. QED
      BY <1>6, <3>1, <3>2, CountImage
  <2>2. below \subseteq first
    <3> SUFFICES ASSUME NEW j \in below PROVE j \in first
      OBVIOUS
    <3>1. j \in 1..W /\ list[j] < t
      BY <1>6
    <3>2. PICK i \in 1..W : p[i] = j
      BY <1>5, <3>1
    <3>3. i <= middle
      BY <1>8, <1>9, <1>11, <3>1, <3>2
    <3>4. i \in 1..middle
      BY <1>6, <3>3
    <3>5. QED
      BY <3>2, <3>4
  <2>3. QED
    BY <2>1, <2>2, FS_Subset
<1>13. Cardinality(upto) > middle
  <2> DEFINE first == {p[i] : i \in 1..middle + 1}
  <2>1. Cardinality(first) = middle + 1
    <3>1. \A i, j \in 1..middle + 1 : p[i] = p[j] => i = j
      BY <1>5, <1>10
    <3>2. PICK n \in Nat : n = middle + 1
      BY <1>6
    <3>3. \A i, j \in 1..n : p[i] = p[j] => i = j
      BY <3>1, <3>2
    <3>4. (\A i \in 1..n : p[i] \in first) /\ \A q \in first : \E i \in 1..n : p[i] = q
      BY <3>2
    <3> HIDE DEF first
    <3>5. Cardinality(first) = n
      BY <3>3, <3>4, CountImage
    <3>6. QED
      BY <3>2, <3>5
  <2>2. first \subseteq upto
    BY <1>6, <1>9, <1>10
  <2>3. IsFiniteSet(upto) /\ Cardinality(upto) \in Nat
    <3>1. 1 \in Int /\ 1 + W - 1 \in Int
      BY <1>6
    <3>2. IsFiniteSet(1..1 + W - 1)
      BY <3>1, FS_Interval
    <3>3. IsFiniteSet(upto)
      BY <3>2, FS_Subset
    <3>4. QED
      BY <3>3, FS_CardinalityType
  <2>4. Cardinality(first) <= Cardinality(upto)
    BY <2>2, <2>3, FS_Subset
  <2>5. QED
    BY <1>6, <2>1, <2>3, <2>4
<1>14. QED
  BY <1>7, <1>8, <1>12, <1>13 DEF IsMedian, W, middle

-----------------------------------------------------------------------------
(* How many samples reach into the two windows. *)
span == MEDIAN_WINDOW + TEMPCHANGE_WINDOW - 1

(* The two windows of a level, given the samples r that reach into them:   *)
(* the newest samples themselves, and their medians.                       *)
Windows(r, list, window) ==
  /\ Len(r) <= span
  /\ Len(list) = IF Len(r) < W THEN Len(r) ELSE W
  /\ \A i \in 1..Len(list) : list[i] = r[i]
  /\ Len(window) = IF Len(r) < W THEN 0 ELSE Len(r) - W + 1
  /\ \A i \in 1..Len(window) : IsMedian(r, i, window[i])

IInv ==
  /\ AlarmTypeOK
  /\ templist \in [Levels -> Seq(Temperatures)]
  /\ medianlist \in [Levels -> Seq(Temperatures)]
  /\ raw \in [Levels -> Seq(Temperatures)]
  /\ \A l \in Levels : /\ Windows(raw[l], templist[l], medianlist[l])
                       /\ Evidence(raw[l]) => alarm_active

(* Pushing a sample and cutting the list after n nodes. *)
LEMMA PushAndCut ==
  ASSUME NEW S, NEW s \in Seq(S), NEW x \in S, NEW n \in Nat, n >= 1, Len(s) <= n,
         NEW u, u = deletenodes(<<x>> \o s, n)
  PROVE  /\ u \in Seq(S)
         /\ Len(u) = IF Len(s) < n THEN Len(s) + 1 ELSE n
         /\ u[1] = x
         /\ \A i \in 2..Len(u) : u[i] = s[i - 1]
<1> DEFINE all == <<x>> \o s
           last == IF Len(all) < n THEN Len(all) ELSE n
<1>1. /\ all \in Seq(S) /\ Len(all) = Len(s) + 1 /\ Len(s) \in Nat
      /\ all[1] = x /\ \A i \in 2..Len(s) + 1 : all[i] = s[i - 1]
  OBVIOUS
<1>2. u = SubSeq(all, 1, last)
  BY DEF deletenodes
<1> HIDE DEF all
<1>3. last \in Nat /\ last <= Len(all) /\ last >= 1
  BY <1>1
<1>4. last = IF Len(s) < n THEN Len(s) + 1 ELSE n
  BY <1>1
<1> HIDE DEF last
<1>5. u \in Seq(S) /\ Len(u) = last /\ \A i \in 1..last : u[i] = all[i]
  <2>1. /\ SubSeq(all, 1, last) \in Seq(S) /\ Len(SubSeq(all, 1, last)) = last
        /\ \A i \in 1..last : SubSeq(all, 1, last)[i] = all[i]
    BY <1>1, <1>3
  <2>2. QED
    BY <1>2, <2>1
<1>6. u[1] = x /\ \A i \in 2..last : u[i] = s[i - 1]
  <2>1. 1 \in 1..last /\ \A i \in 2..last : i \in 1..last /\ i \in 2..Len(s) + 1
    BY <1>1, <1>3
  <2>2. QED
    BY <1>1, <1>5, <2>1
<1>7. QED
  BY <1>4, <1>5, <1>6

(* A round keeps the windows: the lists are those of the samples with the  *)
(* new one before them.                                                    *)
LEMMA WindowsPushed ==
  ASSUME NEW r \in Seq(Temperatures), NEW list \in Seq(Temperatures),
         NEW window \in Seq(Temperatures), Windows(r, list, window), NEW temp \in Temperatures
  PROVE  LET r2 == deletenodes(<<temp>> \o r, span)
             list2 == deletenodes(<<temp>> \o list, MEDIAN_WINDOW)
             window2 == medians(list2, window)
         IN  /\ r2 \in Seq(Temperatures) /\ list2 \in Seq(Temperatures)
             /\ window2 \in Seq(Temperatures)
             /\ Windows(r2, list2, window2)
<1> DEFINE r2 == deletenodes(<<temp>> \o r, span)
           list2 == deletenodes(<<temp>> \o list, W)
           window2 == medians(list2, window)
<1>1. W \in Nat /\ W >= 1 /\ T \in Nat /\ T >= 1 /\ span \in Nat /\ span = W + T - 1
  BY Middle DEF span, W, T
<1>2. /\ Len(r) \in Nat /\ Len(r) <= span
      /\ Len(list) = IF Len(r) < W THEN Len(r) ELSE W
      /\ \A i \in 1..Len(list) : list[i] = r[i]
      /\ Len(window) = IF Len(r) < W THEN 0 ELSE Len(r) - W + 1
      /\ \A i \in 1..Len(window) : IsMedian(r, i, window[i])
  BY DEF Windows
<1>3. /\ r2 \in Seq(Temperatures)
      /\ Len(r2) = IF Len(r) < span THEN Len(r) + 1 ELSE span
      /\ r2[1] = temp /\ \A i \in 2..Len(r2) : r2[i] = r[i - 1]
  <2>1. span \in Nat /\ span >= 1 /\ Len(r) <= span
    BY <1>1, <1>2
  <2>2. r2 = deletenodes(<<temp>> \o r, span)
    OBVIOUS
  <2> HIDE DEF r2
  <2>3. QED
    BY <2>1, <2>2, PushAndCut
<1>4. /\ list2 \in Seq(Temperatures)
      /\ Len(list2) = IF Len(list) < W THEN Len(list) + 1 ELSE W
      /\ list2[1] = temp /\ \A i \in 2..Len(list2) : list2[i] = list[i - 1]
  <2>1. W \in Nat /\ W >= 1 /\ Len(list) <= W
    BY <1>1, <1>2
  <2>2. list2 = deletenodes(<<temp>> \o list, W)
    OBVIOUS
  <2> HIDE DEF list2
  <2>3. QED
    BY <2>1, <2>2, PushAndCut
<1> HIDE DEF r2, list2
<1>5. Len(r2) \in Nat /\ Len(r2) <= span /\ Len(list2) = IF Len(r2) < W THEN Len(r2) ELSE W
  <2>1. Len(r2) \in Nat /\ Len(r2) <= span
    BY <1>1, <1>2, <1>3
  <2>2. CASE Len(r) < W
    <3>1. Len(r2) = Len(r) + 1 /\ Len(list2) = Len(r) + 1
      BY <1>1, <1>2, <1>3, <1>4, <2>2
    <3>2. QED
      BY <1>1, <1>2, <2>1, <2>2, <3>1
  <2>3. CASE ~(Len(r) < W)
    <3>1. Len(list2) = W /\ ~(Len(r2) < W)
      BY <1>1, <1>2, <1>3, <1>4, <2>3
    <3>2. QED
      BY <2>1, <3>1
  <2>4. QED
    BY <2>2, <2>3
<1>6. ASSUME NEW i \in 1..Len(list2) PROVE list2[i] = r2[i]
  <2>1. CASE i = 1
    BY <1>3, <1>4, <2>1
  <2>2. CASE i # 1
    <3>1. i \in 2..Len(list2) /\ i \in 2..Len(r2) /\ i - 1 \in 1..Len(list)
      BY <1>1, <1>2, <1>4, <1>5, <2>2
    <3>2. QED
      BY <1>2, <1>3, <1>4, <3>1
  <2>3. QED
    BY <2>1, <2>2
<1>7. CASE Len(list2) # W
  <2>1. Len(r2) < W /\ Len(r) < W
    BY <1>1, <1>2, <1>3, <1>5, <1>7
  <2>2. window2 = window /\ Len(window) = 0
    BY <1>2, <1>7, <2>1 DEF medians, W
  <2> HIDE DEF window2
  <2>3. Windows(r2, list2, window2)
    <3>1. Len(window2) = IF Len(r2) < W THEN 0 ELSE Len(r2) - W + 1
      BY <2>1, <2>2
    <3>2. \A i \in 1..Len(window2) : IsMedian(r2, i, window2[i])
      BY <2>2
    <3>3. QED
      BY <1>5, <1>6, <3>1, <3>2 DEF Windows
  <2>4. window2 \in Seq(Temperatures)
    BY <2>2
  <2>5. QED
    BY <1>3, <1>4, <2>3, <2>4 DEF r2, list2, window2, W
<1>8. CASE Len(list2) = W
  <2> DEFINE m == mediantemp(list2)
  <2>1. IsMedian(list2, 1, m)
    BY <1>4, <1>8, SortedMiddle
  <2>2. m \in Temperatures
    BY <2>1 DEF IsMedian
  <2>3. Len(r2) >= W
    BY <1>1, <1>5, <1>8
  <2>4. IsMedian(r2, 1, m)
    <3>1. \A j \in 1..1 + W - 1 : list2[j] = r2[j - 1 + 1]
      BY <1>1, <1>6, <1>8
    <3>2. QED
      BY <2>1, <3>1, MedianMoves
  <2>5. window2 = deletenodes(<<m>> \o window, T)
    BY <1>8 DEF medians, W, T
  <2>6. Len(window) <= T
    BY <1>1, <1>2
  <2>7. /\ window2 \in Seq(Temperatures)
        /\ Len(window2) = IF Len(window) < T THEN Len(window) + 1 ELSE T
        /\ window2[1] = m /\ \A i \in 2..Len(window2) : window2[i] = window[i - 1]
    BY <1>1, <2>2, <2>5, <2>6, PushAndCut
  <2> HIDE DEF window2, m
  <2>8. Len(window2) = IF Len(r2) < W THEN 0 ELSE Len(r2) - W + 1
    BY <1>1, <1>2, <1>3, <2>3, <2>7
  <2>9. ASSUME NEW i \in 1..Len(window2) PROVE IsMedian(r2, i, window2[i])
    <3>1. CASE i = 1
      BY <2>4, <2>7, <3>1
    <3>2. CASE i # 1
      <4>1. i \in 2..Len(window2) /\ i - 1 \in 1..Len(window) /\ i \in Nat /\ i - 1 \in Nat
        BY <1>1, <1>2, <2>7, <3>2
      <4>2. IsMedian(r, i - 1, window2[i])
        BY <1>2, <2>7, <4>1
      <4>3. \A j \in i - 1..(i - 1) + W - 1 : j - (i - 1) + i = j + 1 /\ j + 1 \in 2..Len(r2) /\ (j + 1) - 1 = j
        BY <1>1, <2>3, <2>8, <4>1
      <4>4. \A j \in i - 1..(i - 1) + W - 1 : r[j] = r2[j - (i - 1) + i]
        BY <1>3, <4>3
      <4>5. PICK h \in Nat : h = i - 1
        BY <4>1
      <4>6. IsMedian(r, h, window2[i]) /\ \A j \in h..h + W - 1 : r[j] = r2[j - h + i]
        BY <4>2, <4>4, <4>5
      <4>7. QED
        BY <4>1, <4>6, MedianMoves
    <3>3. QED
      BY <3>1, <3>2
  <2>10. Windows(r2, list2, window2)
    BY <1>5, <1>6, <2>8, <2>9 DEF Windows
  <2>11. QED
    BY <1>3, <1>4, <2>7, <2>10 DEF r2, list2, window2, W
<1>9. QED
  BY <1>7, <1>8

(* What the windows show is what the samples are evidence of.              *)
LEMMA WindowsShow ==
  ASSUME NEW r \in Seq(Temperatures), NEW list \in Seq(Temperatures),
         NEW window \in Seq(Temperatures), Windows(r, list, window)
  PROVE  raised(list, window) <=> Evidence(r)
<1>1. W \in Nat /\ W >= 1 /\ T \in Nat /\ T >= 1 /\ span = W + T - 1
  BY Middle DEF span, W, T
<1>2. /\ Len(r) \in Nat /\ Len(r) <= span
      /\ Len(list) = IF Len(r) < W THEN Len(r) ELSE W
      /\ \A i \in 1..Len(list) : list[i] = r[i]
      /\ Len(window) = IF Len(r) < W THEN 0 ELSE Len(r) - W + 1
      /\ \A i \in 1..Len(window) : IsMedian(r, i, window[i])
  BY DEF Windows
<1>3. Len(window) = T <=> Len(r) = span
  BY <1>1, <1>2
<1>4. ASSUME Len(r) = span
      PROVE  /\ hightemps(window) = Cardinality({i \in 1..T : RefMedian(r, i) >= 58})
             /\ hightemps(window) \in Nat
             /\ Head(list) = r[1] /\ Last(window) = RefMedian(r, T)
  <2>1. Len(window) = T /\ DOMAIN window = 1..T
    BY <1>3, <1>4
  <2>2. \A j \in 1..Len(r) : r[j] \in Int
    <3>1. \A j \in 1..Len(r) : r[j] \in Temperatures
      OBVIOUS
    <3>2. QED
      BY <3>1, TemperaturesAreNumbers
  <2>3. ASSUME NEW i \in 1..T PROVE RefMedian(r, i) = window[i]
    <3>1. IsMedian(r, i, window[i]) /\ i \in Nat
      BY <1>2, <2>1
    <3>2. \A j \in i..i + W - 1 : r[j] \in Int
      BY <1>1, <1>4, <2>2
    <3>3. QED
      BY <3>1, <3>2, RefMedianFinds
  <2>4. {i \in DOMAIN window : window[i] >= 58} = {i \in 1..T : RefMedian(r, i) >= 58}
    BY <2>1, <2>3
  <2>5. hightemps(window) = Cardinality({i \in 1..T : RefMedian(r, i) >= 58})
    BY <2>4 DEF hightemps
  <2>6. hightemps(window) \in Nat
    <3>1. IsFiniteSet(1..T)
      BY <1>1, FS_Interval
    <3>2. IsFiniteSet({i \in 1..T : RefMedian(r, i) >= 58})
      BY <3>1, FS_Subset
    <3>3. QED
      BY <2>5, <3>2, FS_CardinalityType
  <2>7. Head(list) = r[1]
    <3>1. Len(list) = W /\ 1 \in 1..Len(list)
      BY <1>1, <1>2, <1>4
    <3>2. QED
      BY <1>2, <3>1
  <2>8. Last(window) = RefMedian(r, T)
    BY <1>1, <2>1, <2>3 DEF Last
  <2>9. QED
    BY <2>5, <2>6, <2>7, <2>8
<1>5. CASE Len(r) # span
  BY <1>3, <1>5 DEF raised, Evidence, T, span
<1>6. CASE Len(r) = span
  <2> DEFINE high == hightemps(window)
  <2>1. high * 10 >= T * 9 <=> 10 * high >= 9 * T
    BY <1>1, <1>4, <1>6
  <2>2. raised(list, window) <=> high * 10 >= T * 9 \/ r[1] - RefMedian(r, T) >= 8
    BY <1>3, <1>4, <1>6 DEF raised, T
  <2>3. Evidence(r) <=> 10 * high >= 9 * T \/ r[1] - RefMedian(r, T) >= 8
    BY <1>4, <1>6 DEF Evidence, T, span
  <2>4. QED
    BY <2>1, <2>2, <2>3
<1>7. QED
  BY <1>5, <1>6

-----------------------------------------------------------------------------
(* A round of tempmonitor keeps the invariant and raises the alarm exactly *)
(* when the samples are evidence.                                          *)
LEMMA Sampling ==
  ASSUME IInv, NEW l \in Levels, NEW temp \in Temperatures, Sample(l, temp)
  PROVE  /\ IInv'
         /\ \A k \in Levels : k # l => raw'[k] = raw[k]
         /\ alarm_active' = (alarm_active \/ Evidence(raw'[l]))
<1> DEFINE list == deletenodes(<<temp>> \o templist[l], MEDIAN_WINDOW)
           window == medians(list, medianlist[l])
           r == deletenodes(<<temp>> \o raw[l], span)
<1>1. /\ templist' = [templist EXCEPT ![l] = list]
      /\ medianlist' = [medianlist EXCEPT ![l] = window]
      /\ raw' = [raw EXCEPT ![l] = r]
      /\ alarm_active' = (alarm_active \/ raised(list, window))
      /\ UNCHANGED <<main_pc, alarm, letter, bgate_s, opener>>
  BY DEF Sample, deletenodes, span
<1>2. /\ raw[l] \in Seq(Temperatures) /\ templist[l] \in Seq(Temperatures)
      /\ medianlist[l] \in Seq(Temperatures)
      /\ Windows(raw[l], templist[l], medianlist[l])
  BY DEF IInv
<1>3. /\ r \in Seq(Temperatures) /\ list \in Seq(Temperatures)
      /\ window \in Seq(Temperatures) /\ Windows(r, list, window)
  BY <1>2, WindowsPushed
<1> HIDE DEF list, window, r
<1>4. raised(list, window) <=> Evidence(r)
  BY <1>3, WindowsShow
<1>5. /\ templist' \in [Levels -> Seq(Temperatures)]
      /\ medianlist' \in [Levels -> Seq(Temperatures)]
      /\ raw' \in [Levels -> Seq(Temperatures)]
  BY <1>1, <1>3 DEF IInv
<1>6. /\ templist'[l] = list /\ medianlist'[l] = window /\ raw'[l] = r
      /\ \A k \in Levels : k # l => /\ templist'[k] = templist[k]
                                    /\ medianlist'[k] = medianlist[k]
                                    /\ raw'[k] = raw[k]
  BY <1>1 DEF IInv
<1>7. alarm_active' = (alarm_active \/ Evidence(raw'[l]))
  BY <1>1, <1>4, <1>6
<1>8. ASSUME NEW k \in Levels
      PROVE  /\ Windows(raw'[k], templist'[k], medianlist'[k])
             /\ Evidence(raw'[k]) => alarm_active'
  <2>1. CASE k = l
    BY <1>3, <1>6, <1>7, <2>1
  <2>2. CASE k # l
    BY <1>6, <1>7, <2>2 DEF IInv
  <2>3. QED
    BY <2>1, <2>2
<1>9. AlarmTypeOK'
  <2>1. ASSUME NEW k \in Levels
        PROVE  /\ templist'[k] \in Seq(Temperatures) /\ Len(templist'[k]) <= MEDIAN_WINDOW
               /\ medianlist'[k] \in Seq(Temperatures) /\ Len(medianlist'[k]) <= TEMPCHANGE_WINDOW
               /\ raw'[k] \in Seq(Temperatures)
    <3>1. /\ templist'[k] \in Seq(Temperatures) /\ medianlist'[k] \in Seq(Temperatures)
          /\ raw'[k] \in Seq(Temperatures)
      BY <1>5
    <3>2. /\ Len(raw'[k]) <= span
          /\ Len(templist'[k]) = IF Len(raw'[k]) < W THEN Len(raw'[k]) ELSE W
          /\ Len(medianlist'[k]) = IF Len(raw'[k]) < W THEN 0 ELSE Len(raw'[k]) - W + 1
      BY <1>8 DEF Windows
    <3>3. Len(raw'[k]) \in Nat
      BY <3>1
    <3>4. QED
      BY <3>1, <3>2, <3>3, Middle DEF span, W, T
  <2>2. alarm_active' \in BOOLEAN
    BY <1>1, Zenon
  <2>3. QED
    BY <1>1, <2>1, <2>2 DEF IInv, AlarmTypeOK
<1>10. QED
  BY <1>5, <1>6, <1>7, <1>8, <1>9 DEF IInv

(* What main and the gates do keeps the invariant.                         *)
LEMMA Responding ==
  ASSUME IInv,
         \/ UNCHANGED alarmVars
         \/ Poll \/ TriggerAlarms \/ CreateOpeners \/ ShowLetter
         \/ \E g \in Gates : OpenGate(g) \/ \E s \in GateMoves : MoveGate(g, s)
  PROVE  IInv' /\ UNCHANGED sampleVars
<1>1. UNCHANGED sampleVars
  BY DEF alarmVars, sampleVars, Poll, TriggerAlarms, CreateOpeners, ShowLetter, OpenGate, MoveGate
<1>2. /\ main_pc \in {"poll", "alarms", "gates", "message"}
      /\ alarm \subseteq Levels /\ letter \in 0..evacmessage
      /\ bgate_s \in [Gates -> 0..255]
      /\ opener \in [Gates -> {"none", "test", "wait"}]
  BY DEF IInv, AlarmTypeOK
<1> DEFINE Good == /\ main_pc \in {"poll", "alarms", "gates", "message"}
                   /\ alarm \subseteq Levels /\ letter \in 0..evacmessage
                   /\ bgate_s \in [Gates -> 0..255]
                   /\ opener \in [Gates -> {"none", "test", "wait"}]
<1>3. ASSUME UNCHANGED alarmVars PROVE Good'
  BY <1>2, <1>3 DEF alarmVars
<1>4. ASSUME Poll PROVE Good'
  BY <1>2, <1>4 DEF Poll
<1>5. ASSUME TriggerAlarms PROVE Good'
  BY <1>2, <1>5 DEF TriggerAlarms
<1>6. ASSUME CreateOpeners PROVE Good'
  BY <1>2, <1>6 DEF CreateOpeners
<1>7. ASSUME ShowLetter PROVE Good'
  <2>1. (letter % evacmessage) + 1 \in 0..evacmessage
    BY <1>2 DEF evacmessage
  <2>2. QED
    BY <1>2, <1>7, <2>1 DEF ShowLetter
<1>8. ASSUME NEW g \in Gates, OpenGate(g) PROVE Good'
  <2>1. charR \in 0..255
    BY DEF charR
  <2>2. bgate_s' \in [Gates -> 0..255]
    BY <1>2, <1>8, <2>1 DEF OpenGate
  <2>3. opener' \in [Gates -> {"none", "test", "wait"}]
    BY <1>2, <1>8 DEF OpenGate
  <2>4. QED
    BY <1>2, <1>8, <2>2, <2>3 DEF OpenGate
<1>9. ASSUME NEW g \in Gates, NEW s \in GateMoves, MoveGate(g, s) PROVE Good'
  <2>1. s \in 0..255
    BY DEF GateMoves
  <2>2. bgate_s' \in [Gates -> 0..255]
    BY <1>2, <1>9, <2>1 DEF MoveGate
  <2>3. opener' \in [Gates -> {"none", "test", "wait"}]
    BY <1>2, <1>9 DEF MoveGate
  <2>4. QED
    BY <1>2, <1>9, <2>2, <2>3 DEF MoveGate
<1>10. Good'
  BY <1>3, <1>4, <1>5, <1>6, <1>7, <1>8, <1>9
<1>11. QED
  BY <1>1, <1>10 DEF IInv, AlarmTypeOK, sampleVars

(* Nothing has been sampled at first.                                      *)
LEMMA InitIInv == AlarmInit => IInv
<1> SUFFICES ASSUME AlarmInit PROVE IInv
  OBVIOUS
<1>1. \A l \in Levels : templist[l] = << >> /\ medianlist[l] = << >> /\ raw[l] = << >>
  BY DEF AlarmInit
<1>2. /\ templist \in [Levels -> Seq(Temperatures)]
      /\ medianlist \in [Levels -> Seq(Temperatures)]
      /\ raw \in [Levels -> Seq(Temperatures)]
  BY DEF AlarmInit
<1>3. Len(<< >>) = 0 /\ << >> \in Seq(Temperatures)
  OBVIOUS
<1>4. Windows(<< >>, << >>, << >>)
  BY <1>3, Middle DEF Windows, span, W, T
<1>5. ~Evidence(<< >>)
  BY <1>3, Middle DEF Evidence, W, T
<1>6. AlarmTypeOK
  <2>1. 0 <= MEDIAN_WINDOW /\ 0 <= TEMPCHANGE_WINDOW
    BY Middle DEF W, T
  <2>2. \A l \in Levels :
          /\ templist[l] \in Seq(Temperatures) /\ Len(templist[l]) <= MEDIAN_WINDOW
          /\ medianlist[l] \in Seq(Temperatures) /\ Len(medianlist[l]) <= TEMPCHANGE_WINDOW
          /\ raw[l] \in Seq(Temperatures)
    BY <1>1, <1>3, <2>1
  <2>3. alarm_active \in BOOLEAN
    BY Zenon DEF AlarmInit
  <2>4. /\ main_pc \in {"poll", "alarms", "gates", "message"}
        /\ alarm \subseteq Levels /\ letter \in 0..evacmessage
    BY DEF AlarmInit, evacmessage
  <2>5. bgate_s \in [Gates -> 0..255]
    <3>1. 0 \in 0..255
      OBVIOUS
    <3>2. bgate_s = [g \in Gates |-> 0]
      BY DEF AlarmInit, GateC
    <3>3. QED
      BY <3>1, <3>2, Zenon
  <2>6. opener \in [Gates -> {"none", "test", "wait"}]
    BY DEF AlarmInit
  <2>7. QED
    BY <2>2, <2>3, <2>4, <2>5, <2>6 DEF AlarmTypeOK
<1>7. QED
  BY <1>1, <1>2, <1>4, <1>5, <1>6 DEF IInv

(* Every step keeps the invariant.                                         *)
LEMMA NextIInv == IInv /\ [AlarmNext]_alarmVars => IInv'
BY Sampling, Responding DEF AlarmNext

(* The windows of every level are those of its samples in every state.     *)
THEOREM AlarmInvariant == AlarmSpec => []IInv
BY InitIInv, NextIInv, PTL DEF AlarmSpec

(* Pushed and cut, the lists never grow beyond their windows, and the      *)
(* variables keep their types.                                             *)
THEOREM AlarmTypes == AlarmSpec => []AlarmTypeOK
<1>1. IInv => AlarmTypeOK
  BY DEF IInv
<1>2. QED
  BY <1>1, AlarmInvariant, PTL

(* A round raises the alarm exactly on the evidence of the last samples of *)
(* its level, as defined from the samples alone, and nothing takes it back. *)
THEOREM AlarmRaisedOnEvidence == AlarmSpec => AlarmOnEvidence
<1> DEFINE Act == /\ alarm_active => alarm_active'
                  /\ \A l \in Levels :
                       raw'[l] # raw[l]
                         => alarm_active' = (alarm_active \/ Evidence(raw'[l]))
<1>1. IInv /\ [AlarmNext]_alarmVars => [Act]_alarmVars
  <2> SUFFICES ASSUME IInv, [AlarmNext]_alarmVars PROVE Act
    OBVIOUS
  <2>1. ASSUME NEW l \in Levels, NEW temp \in Temperatures, Sample(l, temp)
        PROVE  Act
    <3>1. alarm_active' = (alarm_active \/ Evidence(raw'[l]))
      BY <2>1, Sampling
    <3>2. ASSUME NEW k \in Levels, raw'[k] # raw[k] PROVE k = l
      BY <2>1, <3>2, Sampling
    <3>3. QED
      BY <3>1, <3>2, Zenon
  <2>2. CASE \/ UNCHANGED alarmVars
             \/ Poll \/ TriggerAlarms \/ CreateOpeners \/ ShowLetter
             \/ \E g \in Gates : OpenGate(g) \/ \E s \in GateMoves : MoveGate(g, s)
    <3>1. alarm_active' = alarm_active /\ raw' = raw
      BY <2>2, Responding DEF sampleVars
    <3>2. QED
      BY <3>1, Zenon
  <2>3. QED
    BY <2>1, <2>2 DEF AlarmNext
<1>2. QED
  BY <1>1, AlarmInvariant, PTL DEF AlarmOnEvidence, AlarmSpec

(* One odd sample among equal ones below 58 degrees is no evidence once it *)
(* is not the newest, if three samples or more make a median.              *)
LEMMA GlitchIsNoEvidence ==
  ASSUME W >= 3, NEW r \in Seq(Temperatures), NEW odd \in 2..Len(r), oddOneOut(r, odd)
  PROVE  ~Evidence(r)
<1> SUFFICES ASSUME Evidence(r) PROVE FALSE
  OBVIOUS
<1>1. /\ W \in Nat /\ W >= 3 /\ T \in Nat /\ T >= 1 /\ middle \in Nat /\ middle >= 1 /\ middle < W - 1
      /\ Len(r) = W + T - 1
  BY Middle DEF Evidence, W, T
<1>2. /\ DOMAIN r = 1..Len(r) /\ \A j \in 1..Len(r) : r[j] \in Temperatures /\ r[j] \in Int
      /\ Len(r) \in Nat /\ odd \in Nat /\ odd >= 2
  <2>1. DOMAIN r = 1..Len(r) /\ \A j \in 1..Len(r) : r[j] \in Temperatures
    OBVIOUS
  <2>2. QED
    BY <2>1, TemperaturesAreNumbers
<1> DEFINE v == r[1]
<1>3. 1 \in 1..Len(r) /\ v \in Temperatures /\ v \in Int
  BY <1>1, <1>2
<1>4. \A j \in 1..Len(r) : j # odd => r[j] = v /\ r[j] < 58
  BY <1>2, <1>3 DEF oddOneOut
<1>5. v < 58
  BY <1>2, <1>3, <1>4
<1> HIDE DEF v
<1>6. ASSUME NEW i \in 1..T PROVE RefMedian(r, i) = v
  <2> DEFINE here == i..i + W - 1
             below == {j \in here : r[j] < v}
             upto == {j \in here : r[j] <= v}
  <2>1. here \subseteq 1..Len(r) /\ i \in Int /\ i + W - 1 \in Int /\ i <= i + W - 1
    BY <1>1
  <2>2. IsFiniteSet(here) /\ Cardinality(here) = W
    <3>1. /\ IsFiniteSet(here)
          /\ Cardinality(here) = IF i > i + W - 1 THEN 0 ELSE (i + W - 1) - i + 1
      BY <2>1, FS_Interval
    <3>2. ~(i > i + W - 1) /\ (i + W - 1) - i + 1 = W
      BY <1>1, <2>1
    <3>3. QED
      BY <3>1, <3>2
  <2>3. below \subseteq {odd}
    BY <1>3, <1>4, <2>1
  <2>4. Cardinality(below) <= middle
    <3>1. IsFiniteSet({odd}) /\ Cardinality({odd}) = 1
      BY FS_Singleton
    <3>2. IsFiniteSet(below) /\ Cardinality(below) <= 1
      BY <2>3, <3>1, FS_Subset
    <3>3. Cardinality(below) \in Nat
      BY <3>2, FS_CardinalityType
    <3>4. QED
      BY <1>1, <3>2, <3>3
  <2>5. Cardinality(upto) > middle
    <3>1. IsFiniteSet(here \ {odd}) /\ Cardinality(here \ {odd}) >= W - 1
      <4>1. Cardinality(here \ {odd}) = IF odd \in here THEN Cardinality(here) - 1 ELSE Cardinality(here)
        BY <2>2, FS_RemoveElement
      <4>2. IsFiniteSet(here \ {odd})
        BY <2>2, FS_RemoveElement
      <4>3. QED
        BY <1>1, <2>2, <4>1, <4>2
    <3>2. here \ {odd} \subseteq upto
      BY <1>3, <1>4, <2>1
    <3>3. IsFiniteSet(upto)
      BY <2>2, FS_Subset
    <3>4. Cardinality(here \ {odd}) <= Cardinality(upto)
      BY <3>2, <3>3, FS_Subset
    <3>5. Cardinality(here \ {odd}) \in Nat /\ Cardinality(upto) \in Nat
      BY <3>1, <3>3, FS_CardinalityType
    <3>6. QED
      BY <1>1, <3>1, <3>4, <3>5
  <2>6. IsMedian(r, i, v)
    BY <1>3, <2>4, <2>5 DEF IsMedian, W, middle
  <2>7. i \in Nat /\ \A j \in i..i + W - 1 : r[j] \in Int
    BY <1>1, <1>2, <2>1
  <2>8. QED
    BY <2>6, <2>7, RefMedianFinds
<1>7. {i \in 1..T : RefMedian(r, i) >= 58} = {}
  BY <1>3, <1>5, <1>6
<1>8. Cardinality({i \in 1..T : RefMedian(r, i) >= 58}) = 0
  BY <1>7, FS_EmptySet
<1>9. T \in 1..T
  BY <1>1
<1>10. ~(r[1] - RefMedian(r, T) >= 8)
  BY <1>3, <1>6, <1>9 DEF v
<1>11. ~(10 * Cardinality({i \in 1..T : RefMedian(r, i) >= 58}) >= 9 * T)
  BY <1>1, <1>8
<1>12. QED
  BY <1>10, <1>11 DEF Evidence, T

(* A glitch of one sample raises the alarm only while it is the newest, in *)
(* windows of at least three samples (MEDIAN_WINDOW is 5 in the code).     *)
THEOREM GlitchesAreHidden == MEDIAN_WINDOW >= 3 => (AlarmSpec => GlitchIsNewest)
<1> SUFFICES ASSUME MEDIAN_WINDOW >= 3 PROVE AlarmSpec => GlitchIsNewest
  OBVIOUS
<1> DEFINE Act == (~alarm_active /\ alarm_active')
                    => \E l \in Levels : /\ raw'[l] # raw[l]
                                         /\ \A i \in 2..Len(raw'[l]) : ~oddOneOut(raw'[l], i)
<1>1. IInv /\ [AlarmNext]_alarmVars => [Act]_alarmVars
  <2> SUFFICES ASSUME IInv, [AlarmNext]_alarmVars, ~alarm_active, alarm_active'
               PROVE  \E l \in Levels : /\ raw'[l] # raw[l]
                                        /\ \A i \in 2..Len(raw'[l]) : ~oddOneOut(raw'[l], i)
    OBVIOUS
  <2>1. PICK l \in Levels, temp \in Temperatures : Sample(l, temp)
    BY Responding DEF AlarmNext, sampleVars
  <2>2. Evidence(raw'[l]) /\ IInv'
    BY <2>1, Sampling
  <2>3. ~Evidence(raw[l])
    BY DEF IInv
  <2>4. raw'[l] # raw[l]
    BY <2>2, <2>3
  <2>5. raw'[l] \in Seq(Temperatures)
    BY <2>2 DEF IInv
  <2>6. PICK r \in Seq(Temperatures) : r = raw'[l]
    BY <2>5
  <2>7. \A i \in 2..Len(r) : ~oddOneOut(r, i)
    BY <2>2, <2>6, GlitchIsNoEvidence DEF W
  <2>8. QED
    BY <2>4, <2>6, <2>7
<1>2. QED
  BY <1>1, AlarmInvariant, PTL DEF GlitchIsNewest, AlarmSpec
=============================================================================

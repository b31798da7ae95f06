---------------------------- MODULE PositionsProofs ---------------------------
(***************************************************************************)
(* What Ascending and Picked return, for any set of numbers and any        *)
(* sequence; what folds over numbers, and elements put among others, are.  *)
(***************************************************************************)
EXTENDS Positions, Integers, SequencesExt, FiniteSetTheorems, WellFoundedInduction,
        SequenceTheorems, TLAPS

\* The least of some numbers is one of them.
LEMMA LeastIsThere ==
    ASSUME NEW places \in SUBSET Nat, places # {}
    PROVE  Min(places) \in places /\ \A p \in places : Min(places) <= p
<1> DEFINE Less == {p \in Nat \X Nat : p[1] < p[2]}
<1>1. IsWellFoundedOn(Less, Nat)
  BY NatLessThanWellFounded DEF OpToRel
<1> HIDE DEF Less
<1>2. PICK x \in places : \A y \in places : ~(<<y, x>> \in Less)
  BY <1>1, WFMin
<1>3. ASSUME NEW y \in places PROVE x <= y
  <2>1. x \in Nat /\ y \in Nat
    OBVIOUS
  <2>2. y < x => <<y, x>> \in Less
    BY <2>1 DEF Less
  <2> QED
    BY <1>2, <2>1, <2>2
<1> QED
  BY <1>3 DEF Min

\* So is the greatest, of numbers below a bound.
LEMMA GreatestIsThere ==
    ASSUME NEW n \in Nat, NEW places \in SUBSET (1..n), places # {}
    PROVE  Max(places) \in places
<1> DEFINE Rest == {n - p : p \in places}
           x == n - Min(Rest)
<1>1. places \subseteq Nat /\ \A p \in places : n - p \in Nat
  OBVIOUS
<1>2. Rest \in SUBSET Nat /\ Rest # {}
  BY <1>1
<1>3. Min(Rest) \in Rest /\ \A r \in Rest : Min(Rest) <= r
  BY <1>2, LeastIsThere
<1>4. PICK p \in places : Min(Rest) = n - p
  BY <1>3
<1>5. ASSUME NEW y \in places PROVE p >= y
  <2>1. n - p <= n - y
    BY <1>3, <1>4
  <2> QED
    BY <1>1, <2>1
<1> QED
  BY <1>5 DEF Max

\* Ranks number a finite set of numbers, in its order, from 1.
LEMMA RankNumbers ==
    ASSUME NEW S \in SUBSET Nat, IsFiniteSet(S)
    PROVE  /\ Cardinality(S) \in Nat
           /\ \A i \in S : Rank(S, i) \in 1 .. Cardinality(S)
           /\ \A i, j \in S : i < j => Rank(S, i) < Rank(S, j)
           /\ \A k \in 1 .. Cardinality(S) : \E i \in S : Rank(S, i) = k
<1> DEFINE UpTo(i) == {j \in S : j <= i}
           n == Cardinality(S)
<1>1. n \in Nat
  BY FS_CardinalityType
<1>2. ASSUME NEW i \in S
      PROVE  IsFiniteSet(UpTo(i)) /\ Rank(S, i) = Cardinality(UpTo(i)) /\ Rank(S, i) \in Nat /\ Rank(S, i) <= n
  <2>1. UpTo(i) \in SUBSET S
    OBVIOUS
  <2> HIDE DEF UpTo
  <2>2. IsFiniteSet(UpTo(i)) /\ Cardinality(UpTo(i)) <= n
    BY <2>1, FS_Subset
  <2>3. Cardinality(UpTo(i)) \in Nat
    BY <2>2, FS_CardinalityType
  <2> QED
    BY <2>2, <2>3 DEF Rank, UpTo
<1>3. ASSUME NEW i \in S PROVE Rank(S, i) \in 1 .. n
  <2>1. i \in UpTo(i)
    OBVIOUS
  <2>2. Cardinality(UpTo(i)) # 0
    <3> HIDE DEF UpTo
    <3> QED
      BY <1>2, <2>1, FS_EmptySet
  <2> HIDE DEF UpTo, n
  <2>3. Rank(S, i) # 0
    BY <1>2, <2>2
  <2> QED
    BY <1>1, <1>2, <2>3
<1>4. ASSUME NEW i \in S, NEW j \in S, i < j PROVE Rank(S, i) < Rank(S, j)
  <2>1. UpTo(i) \in SUBSET UpTo(j) /\ j \in UpTo(j) /\ j \notin UpTo(i)
    <3>1. i \in Nat /\ j \in Nat /\ i < j
      BY <1>4
    <3>2. ASSUME NEW x \in S, x <= i PROVE x <= j
      <4>1. x \in Nat
        OBVIOUS
      <4> QED
        BY <3>1, <3>2, <4>1
    <3>3. j <= j /\ ~(j <= i)
      BY <3>1
    <3> QED
      BY <3>2, <3>3
  <2> HIDE DEF UpTo
  <2>2. Cardinality(UpTo(i)) <= Cardinality(UpTo(j))
    BY <1>2, <2>1, FS_Subset
  <2>3. Cardinality(UpTo(j)) # Cardinality(UpTo(i))
    BY <1>2, <2>1, FS_Subset
  <2> HIDE DEF n
  <2> QED
    BY <1>2, <2>2, <2>3
<1> DEFINE rank == [i \in S |-> Rank(S, i)]
<1>5. rank \in Injection(S, 1 .. n)
  <2>1. rank \in [S -> 1 .. n]
    BY <1>3
  <2>2. ASSUME NEW i \in S, NEW j \in S, rank[i] = rank[j] PROVE i = j
    <3> DEFINE a == Rank(S, i)
               b == Rank(S, j)
    <3>1. a = b /\ a \in Nat /\ b \in Nat /\ i \in Nat /\ j \in Nat
      BY <1>2, <2>2
    <3>2. (i < j => a < b) /\ (j < i => b < a)
      BY <1>4
    <3> HIDE DEF a, b
    <3> QED
      BY ONLY <3>1, <3>2
  <2> QED
    BY <2>1, <2>2 DEF Injection, IsInjective
<1>6. rank \in Surjection(S, 1 .. n)
  <2> HIDE DEF rank, n
  <2>1. IsFiniteSet(1 .. n) /\ Cardinality(1 .. n) = n
    BY <1>1, FS_Interval
  <2>2. Cardinality(S) = Cardinality(1 .. n)
    BY <2>1 DEF n
  <2> QED
    BY <1>5, <2>1, <2>2, FS_Injection
<1>7. \A k \in 1 .. n : \E i \in S : Rank(S, i) = k
  BY <1>6 DEF Surjection
<1> QED
  BY <1>1, <1>3, <1>4, <1>7

\* So Ascending lists its numbers, each of them once, the lesser before the greater.
LEMMA AscendingIs ==
    ASSUME NEW S \in SUBSET Nat, IsFiniteSet(S)
    PROVE  /\ Cardinality(S) \in Nat /\ Ascending(S) \in [1 .. Cardinality(S) -> S]
           /\ \A i \in S : \E k \in 1 .. Cardinality(S) : Ascending(S)[k] = i
           /\ \A k, l \in 1 .. Cardinality(S) : k < l => Ascending(S)[k] < Ascending(S)[l]
           /\ \A k, l \in 1 .. Cardinality(S) : Ascending(S)[k] = Ascending(S)[l] => k = l
<1> DEFINE n == Cardinality(S)
           at == Ascending(S)
<1>1. n \in Nat /\ at = [k \in 1 .. n |-> CHOOSE i \in S : Rank(S, i) = k]
  BY RankNumbers DEF Ascending
<1>2. ASSUME NEW k \in 1 .. n PROVE at[k] \in S /\ Rank(S, at[k]) = k
  <2>1. \E i \in S : Rank(S, i) = k
    BY RankNumbers
  <2> QED
    BY <1>1, <2>1
<1>3. at \in [1 .. n -> S]
  BY <1>1, <1>2
<1>4. \A k, l \in 1 .. n : at[k] = at[l] => k = l
  BY <1>2
<1>5. ASSUME NEW i \in S PROVE \E k \in 1 .. n : at[k] = i
  <2>1. Rank(S, i) \in 1 .. n
    BY RankNumbers
  <2>2. at[Rank(S, i)] \in S /\ Rank(S, at[Rank(S, i)]) = Rank(S, i)
    BY <1>2, <2>1
  <2>3. at[Rank(S, i)] = i
    <3> DEFINE j == at[Rank(S, i)]
    <3>1. j \in S /\ j \in Nat /\ i \in Nat /\ Rank(S, j) = Rank(S, i)
      BY <2>2
    <3> HIDE DEF j
    <3>2. Rank(S, i) \in Nat /\ Rank(S, j) \in Nat
      BY <1>1, <2>1, <3>1
    <3>3. ~(i < j) /\ ~(j < i)
      BY <3>1, <3>2, RankNumbers
    <3>4. i = j
      BY ONLY <3>1, <3>3
    <3> QED
      BY <3>4 DEF j
  <2> QED
    BY <2>1, <2>3
<1>6. ASSUME NEW k \in 1 .. n, NEW l \in 1 .. n, k < l PROVE at[k] < at[l]
  <2>1. /\ at[k] \in S /\ at[l] \in S /\ at[k] \in Nat /\ at[l] \in Nat
        /\ Rank(S, at[k]) = k /\ Rank(S, at[l]) = l
    BY <1>2
  <2>2. ~(at[l] < at[k]) /\ at[l] # at[k]
    <3> HIDE DEF at, n
    <3>1. k \in Nat /\ l \in Nat /\ ~(l < k) /\ k # l
      BY <1>1, <1>6
    <3> QED
      BY <2>1, <3>1, RankNumbers
  <2> HIDE DEF at, n
  <2> QED
    BY <2>1, <2>2
<1> QED
  BY <1>1, <1>3, <1>4, <1>5, <1>6

\* Picked is a part of the sequence: its elements are those at the places, each once.
LEMMA PickedIs ==
    ASSUME NEW R, NEW s \in Seq(R), NEW places \in SUBSET DOMAIN s
    PROVE  /\ Picked(s, places) \in Seq(R) /\ Len(Picked(s, places)) = Cardinality(places)
           /\ Range(Picked(s, places)) = {s[i] : i \in places}
           /\ \A k \in DOMAIN Picked(s, places) :
                Ascending(places)[k] \in places /\ Picked(s, places)[k] = s[Ascending(places)[k]]
           /\ \A k, l \in DOMAIN Picked(s, places) :
                Ascending(places)[k] = Ascending(places)[l] => k = l
           /\ places \in SUBSET Nat /\ IsFiniteSet(places) /\ Cardinality(places) \in Nat
<1> DEFINE n == Cardinality(places)
           at == Ascending(places)
           part == Picked(s, places)
<1>1. DOMAIN s = 1 .. Len(s) /\ Len(s) \in Nat
  OBVIOUS
<1>2. places \in SUBSET Nat /\ IsFiniteSet(places)
  <2>1. IsFiniteSet(1 .. Len(s))
    BY <1>1, FS_Interval
  <2>2. places \in SUBSET (1 .. Len(s))
    BY <1>1
  <2> QED
    BY <2>1, <2>2, FS_Subset
<1>3. /\ n \in Nat /\ at \in [1 .. n -> places]
      /\ \A i \in places : \E k \in 1 .. n : at[k] = i
      /\ \A k, l \in 1 .. n : at[k] = at[l] => k = l
  BY <1>2, AscendingIs
<1> HIDE DEF n, at
<1>4. part = [k \in 1 .. n |-> s[at[k]]]
  BY DEF Picked, n, at
<1>5. \A i \in places : s[i] \in R
  BY <1>1
<1>6. part \in [1 .. n -> R] /\ DOMAIN part = 1 .. n
  BY <1>3, <1>4, <1>5
<1>7. part \in Seq(R) /\ Len(part) = n
  BY <1>3, <1>6
<1>8. Range(part) = {s[i] : i \in places}
  <2>1. \A k \in 1 .. n : part[k] = s[at[k]] /\ at[k] \in places
    BY <1>3, <1>4
  <2>2. Range(part) = {part[k] : k \in 1 .. n}
    BY <1>6 DEF Range
  <2>3. {part[k] : k \in 1 .. n} = {s[i] : i \in places}
    BY <1>3, <2>1
  <2> QED
    BY <2>2, <2>3
<1> HIDE DEF part
<1>9. /\ \A k \in DOMAIN part : at[k] \in places /\ part[k] = s[at[k]]
      /\ \A k, l \in DOMAIN part : at[k] = at[l] => k = l
  BY <1>3, <1>4, <1>6
<1> QED
  BY <1>2, <1>3, <1>7, <1>8, <1>9 DEF n, at, part

\* The numbers of an interval, in their order.
LEMMA AscendingInterval ==
    ASSUME NEW a \in Nat, NEW b \in Int, a <= b + 1
    PROVE  /\ Cardinality(a .. b) = b - a + 1
           /\ \A k \in 1 .. b - a + 1 : Ascending(a .. b)[k] = a + k - 1
<1> DEFINE S == a .. b
           n == b - a + 1
<1>1. S \in SUBSET Nat /\ IsFiniteSet(S) /\ Cardinality(S) = n /\ n \in Nat
  <2>1. IsFiniteSet(a .. b) /\ Cardinality(a .. b) = IF a > b THEN 0 ELSE b - a + 1
    BY FS_Interval
  <2> QED
    BY <2>1
<1>2. ASSUME NEW i \in S PROVE Rank(S, i) = i - a + 1
  <2>1. {j \in S : j <= i} = a .. i
    OBVIOUS
  <2>2. Cardinality(a .. i) = IF a > i THEN 0 ELSE i - a + 1
    BY FS_Interval
  <2>3. Rank(S, i) = Cardinality(a .. i)
    BY <2>1 DEF Rank
  <2>4. i \in Int /\ a <= i
    OBVIOUS
  <2> QED
    BY <2>2, <2>3, <2>4
<1>3. ASSUME NEW k \in 1 .. n PROVE Ascending(S)[k] = a + k - 1
  <2>1. Ascending(S)[k] = CHOOSE i \in S : Rank(S, i) = k
    BY <1>1 DEF Ascending
  <2>2. a + k - 1 \in S /\ Rank(S, a + k - 1) = k
    BY <1>2
  <2>3. \A i \in S : Rank(S, i) = k => i = a + k - 1
    BY <1>2
  <2> HIDE DEF S
  <2>4. \E i \in S : Rank(S, i) = k
    BY <2>2
  <2>5. PICK i \in S : i = Ascending(S)[k] /\ Rank(S, i) = k
    BY <2>1, <2>4
  <2> QED
    BY <2>3, <2>5
<1> QED
  BY <1>1, <1>3

\* The whole of a sequence, picked, is the sequence.
LEMMA PickedWhole ==
    ASSUME NEW R, NEW s \in Seq(R)
    PROVE  Picked(s, DOMAIN s) = s
<1>1. DOMAIN s = 1 .. Len(s) /\ Len(s) \in Nat
  OBVIOUS
<1>2. Cardinality(1 .. Len(s)) = Len(s) /\ \A k \in 1 .. Len(s) : Ascending(1 .. Len(s))[k] = k
  <2>1. PICK n \in Nat : n = Len(s)
    BY <1>1
  <2>2. /\ Cardinality(1 .. n) = n - 1 + 1
        /\ \A k \in 1 .. n - 1 + 1 : Ascending(1 .. n)[k] = 1 + k - 1
    BY AscendingInterval
  <2> QED
    BY <2>1, <2>2
<1>3. Picked(s, DOMAIN s) = [k \in 1 .. Len(s) |-> s[k]]
  BY <1>1, <1>2 DEF Picked
<1> QED
  BY <1>1, <1>3

\* Places of a sequence that hold different elements give a part without repetition.
LEMMA PickedInjective ==
    ASSUME NEW R, NEW s \in Seq(R), NEW places \in SUBSET DOMAIN s,
           \A i, j \in places : s[i] = s[j] => i = j
    PROVE  IsInjective(Picked(s, places))
<1> DEFINE part == Picked(s, places)
<1>1. /\ \A k \in DOMAIN part : Ascending(places)[k] \in places /\ part[k] = s[Ascending(places)[k]]
      /\ \A k, l \in DOMAIN part : Ascending(places)[k] = Ascending(places)[l] => k = l
  BY PickedIs
<1> HIDE DEF part
<1>2. \A k, l \in DOMAIN part : part[k] = part[l] => k = l
  BY <1>1
<1> QED
  BY <1>2 DEF IsInjective, part

\* The elements of two sequences, one after the other.
LEMMA JoinedRange ==
    ASSUME NEW R, NEW s \in Seq(R), NEW t \in Seq(R)
    PROVE  s \o t \in Seq(R) /\ Range(s \o t) = Range(s) \cup Range(t)
<1>1. PICK u : u = s \o t
  OBVIOUS
<1>2. /\ u \in Seq(R) /\ Len(u) = Len(s) + Len(t)
      /\ \A i \in 1 .. Len(s) + Len(t) : u[i] = IF i <= Len(s) THEN s[i] ELSE t[i - Len(s)]
  <2>1. /\ s \o t \in Seq(R) /\ Len(s \o t) = Len(s) + Len(t)
        /\ \A i \in 1 .. Len(s) + Len(t) :
             (s \o t)[i] = IF i <= Len(s) THEN s[i] ELSE t[i - Len(s)]
    BY ConcatProperties
  <2> QED
    BY <2>1, <1>1
<1>3. /\ Len(s) \in Nat /\ Len(t) \in Nat
      /\ DOMAIN s = 1 .. Len(s) /\ DOMAIN t = 1 .. Len(t) /\ DOMAIN u = 1 .. Len(u)
  BY <1>2
<1>4. ASSUME NEW i \in DOMAIN s PROVE \E k \in DOMAIN u : u[k] = s[i]
  BY <1>2, <1>3
<1>5. ASSUME NEW i \in DOMAIN t PROVE \E k \in DOMAIN u : u[k] = t[i]
  <2>1. /\ i + Len(s) \in DOMAIN u /\ i + Len(s) \in 1 .. Len(s) + Len(t)
        /\ ~(i + Len(s) <= Len(s)) /\ i + Len(s) - Len(s) = i
    BY <1>2, <1>3
  <2>2. u[i + Len(s)] = t[i]
    BY <1>2, <2>1
  <2> QED
    BY <2>1, <2>2
<1>6. ASSUME NEW k \in DOMAIN u
      PROVE  (\E i \in DOMAIN s : u[k] = s[i]) \/ (\E i \in DOMAIN t : u[k] = t[i])
  <2>1. k \in 1 .. Len(s) + Len(t)
    BY <1>2, <1>3
  <2>2. CASE k <= Len(s)
    BY <2>1, <2>2, <1>2, <1>3
  <2>3. CASE ~(k <= Len(s))
    <3>1. k - Len(s) \in DOMAIN t /\ u[k] = t[k - Len(s)]
      BY <2>1, <2>3, <1>2, <1>3
    <3> QED
      BY <3>1
  <2> QED
    BY <2>2, <2>3
<1>7. Range(u) = Range(s) \cup Range(t)
  BY <1>4, <1>5, <1>6 DEF Range
<1> QED
  BY <1>1, <1>2, <1>7

\* What holds at 0, and of the next number where it holds of one, holds up to n.
LEMMA StepByStep ==
    ASSUME NEW n \in Nat, NEW S, 0 \in S, \A k \in 0 .. n - 1 : k \in S => k + 1 \in S
    PROVE  \A k \in 0 .. n : k \in S
<1> SUFFICES ASSUME NEW x \in 0 .. n, x \notin S
             PROVE  FALSE
  OBVIOUS
<1> DEFINE Bad == {k \in 0 .. n : k \notin S}
<1>1. Bad \in SUBSET Nat /\ Bad # {}
  OBVIOUS
<1>2. PICK k \in Nat : k = Min(Bad)
  BY <1>1, LeastIsThere
<1>3. k \in Bad /\ \A p \in Bad : k <= p
  BY <1>1, <1>2, LeastIsThere
<1>4. k \in 1 .. n /\ k - 1 \in 0 .. n - 1 /\ k - 1 \notin Bad
  BY <1>3
<1>5. k - 1 + 1 \in S
  BY <1>4
<1> QED
  BY <1>3, <1>4, <1>5

\* A fold over the numbers up to n, one step a number, and its results.
CanFold(A, n, first, step) == n \in Nat /\ first \in A /\ step \in [1 .. n -> [A -> A]]
\* Each value is the one before it, taken a step further.
IsFold(G, n, first, step)  == G[0] = first /\ \A k \in 1 .. n : G[k] = step[k][G[k - 1]]

\* A fold is there.
LEMMA FoldIsThere ==
    ASSUME NEW A, NEW n, NEW first, NEW step, CanFold(A, n, first, step)
    PROVE  \E G \in [0 .. n -> A] : IsFold(G, n, first, step)
<1> USE DEF CanFold
<1> DEFINE Good(m, G) == G[0] = first /\ \A k \in 1 .. m : G[k] = step[k][G[k - 1]]
           S == {m \in 0 .. n : \E G \in [0 .. m -> A] : Good(m, G)}
<1>1. 0 \in S
  <2>1. [k \in 0 .. 0 |-> first] \in [0 .. 0 -> A] /\ Good(0, [k \in 0 .. 0 |-> first])
    OBVIOUS
  <2>2. \E G \in [0 .. 0 -> A] : Good(0, G)
    BY <2>1
  <2> HIDE DEF Good
  <2> QED
    BY <2>2
<1>2. ASSUME NEW m \in 0 .. n - 1, m \in S
      PROVE  m + 1 \in S
  <2>1. PICK G \in [0 .. m -> A] : Good(m, G)
    BY <1>2
  <2> DEFINE H == [k \in 0 .. m + 1 |-> IF k = m + 1 THEN step[k][G[k - 1]] ELSE G[k]]
  <2>2. step[m + 1][G[m]] \in A
    <3>1. step[m + 1] \in [A -> A] /\ G[m] \in A
      OBVIOUS
    <3> QED
      BY <3>1
  <2>3. H \in [0 .. m + 1 -> A]
    <3>1. ASSUME NEW k \in 0 .. m + 1
          PROVE  (IF k = m + 1 THEN step[k][G[k - 1]] ELSE G[k]) \in A
      BY <2>2
    <3> QED
      BY <3>1
  <2>4. Good(m + 1, H)
    BY <2>1
  <2> HIDE DEF Good, H
  <2>5. \E F \in [0 .. m + 1 -> A] : Good(m + 1, F)
    BY <2>3, <2>4
  <2> QED
    BY <2>5
<1>3. \A m \in 0 .. n - 1 : m \in S => m + 1 \in S
  BY <1>2
<1> HIDE DEF S
<1>4. n \in S
  <2>1. \A k \in 0 .. n : k \in S
    BY ONLY n \in Nat, <1>1, <1>3, StepByStep
  <2> QED
    BY <2>1
<1> QED
  BY <1>4 DEF S, IsFold

\* How many numbers of a set are no greater: it grows, and counts a number of the set
\* only from that number on.
LEMMA RankGrows ==
    ASSUME NEW S \in SUBSET Nat, IsFiniteSet(S)
    PROVE  /\ Cardinality(S) \in Nat
           /\ \A i \in Nat : Rank(S, i) \in 0 .. Cardinality(S)
           /\ \A i, j \in Nat : i <= j => Rank(S, i) <= Rank(S, j)
           /\ \A i \in Nat, j \in S : i < j => Rank(S, i) < Rank(S, j)
<1> DEFINE UpTo(i) == {j \in S : j <= i}
<1>1. \A i \in Nat : /\ IsFiniteSet(UpTo(i)) /\ Cardinality(UpTo(i)) \in Nat
                     /\ Cardinality(UpTo(i)) <= Cardinality(S)
  BY FS_Subset, FS_CardinalityType
<1>2. Cardinality(S) \in Nat
  BY FS_CardinalityType
<1>3. ASSUME NEW i \in Nat, NEW j \in Nat, i <= j
      PROVE  Cardinality(UpTo(i)) <= Cardinality(UpTo(j))
  <2>1. UpTo(i) \subseteq UpTo(j)
    <3>1. \A x \in S : x <= i => x <= j
      BY <1>3
    <3> QED
      BY <3>1
  <2> HIDE DEF UpTo
  <2> QED
    BY <1>1, <2>1, FS_Subset
<1>4. ASSUME NEW i \in Nat, NEW j \in S, i < j
      PROVE  Cardinality(UpTo(i)) < Cardinality(UpTo(j))
  <2>1. j \notin UpTo(i) /\ UpTo(i) \cup {j} \subseteq UpTo(j)
    <3>1. j \in S /\ j <= j /\ ~(j <= i) /\ \A x \in S : x <= i => x <= j
      BY <1>4
    <3> QED
      BY <3>1
  <2>2. IsFiniteSet(UpTo(i)) /\ IsFiniteSet(UpTo(j)) /\ Cardinality(UpTo(i)) \in Nat
    BY <1>1
  <2> HIDE DEF UpTo
  <2>3. Cardinality(UpTo(i) \cup {j}) = Cardinality(UpTo(i)) + 1
    BY <2>1, <2>2, FS_AddElement
  <2>4. PICK m : m = UpTo(i) \cup {j}
    OBVIOUS
  <2>5. Cardinality(m) <= Cardinality(UpTo(j))
    BY <2>1, <2>2, <2>4, FS_Subset
  <2>6. Cardinality(UpTo(j)) \in Nat
    BY <2>2, FS_CardinalityType
  <2> QED
    BY <2>2, <2>3, <2>4, <2>5, <2>6
<1>5. \A i \in Nat : Rank(S, i) = Cardinality(UpTo(i))
  BY DEF Rank
<1> HIDE DEF UpTo
<1> QED
  BY <1>1, <1>2, <1>3, <1>4, <1>5

\* The first elements of a sequence, and the rest of them.
LEMMA Pieces ==
    ASSUME NEW R, NEW s \in Seq(R), NEW p \in Nat, NEW n \in Nat, p <= n, n = Len(s)
    PROVE  /\ SubSeq(s, 1, p) \in Seq(R) /\ Len(SubSeq(s, 1, p)) = p
           /\ \A i \in 1 .. p : SubSeq(s, 1, p)[i] = s[i]
           /\ SubSeq(s, p + 1, n) \in Seq(R) /\ Len(SubSeq(s, p + 1, n)) = n - p
           /\ \A i \in 1 .. n - p : SubSeq(s, p + 1, n)[i] = s[p + i]
<1>1. \A i \in 1 .. n : s[i] \in R
  OBVIOUS
<1>2. PICK one \in Int, q \in Int : one = 1 /\ q = p + 1
  OBVIOUS
<1>3. PICK a, b : a = SubSeq(s, one, p) /\ b = SubSeq(s, q, n)
  OBVIOUS
<1>4. /\ a \in Seq(R) /\ Len(a) = IF one <= p THEN p - one + 1 ELSE 0
      /\ \A i \in 1 .. p - one + 1 : a[i] = s[one + i - 1]
  <2>1. p \in Int /\ \A i \in one .. p : s[i] \in R
    BY <1>1, <1>2
  <2> QED
    BY ONLY one \in Int, <2>1, <1>3, SubSeqProperties
<1>5. /\ b \in Seq(R) /\ Len(b) = IF q <= n THEN n - q + 1 ELSE 0
      /\ \A i \in 1 .. n - q + 1 : b[i] = s[q + i - 1]
  <2>1. n \in Int /\ \A i \in q .. n : s[i] \in R
    BY <1>1, <1>2
  <2> QED
    BY ONLY q \in Int, <2>1, <1>3, SubSeqProperties
<1>6. /\ (IF one <= p THEN p - one + 1 ELSE 0) = p /\ p - one + 1 = p
      /\ \A i \in 1 .. p : one + i - 1 = i
  BY ONLY p \in Nat, <1>2
<1>7. /\ (IF q <= n THEN n - q + 1 ELSE 0) = n - p /\ n - q + 1 = n - p
      /\ \A i \in 1 .. n - p : q + i - 1 = p + i
  BY ONLY p \in Nat, n \in Nat, p <= n, <1>2
<1>8. a = SubSeq(s, 1, p) /\ b = SubSeq(s, p + 1, n)
  BY <1>2, <1>3
<1> QED
  BY <1>4, <1>5, <1>6, <1>7, <1>8

\* One sequence after the other.
LEMMA JoinedIs ==
    ASSUME NEW R, NEW a \in Seq(R), NEW b \in Seq(R)
    PROVE  /\ a \o b \in Seq(R) /\ Len(a \o b) = Len(a) + Len(b)
           /\ \A i \in 1 .. Len(a) : (a \o b)[i] = a[i]
           /\ \A i \in 1 .. Len(b) : (a \o b)[Len(a) + i] = b[i]
<1>1. PICK c : c = a \o b
  OBVIOUS
<1>2. PICK m \in Nat, n \in Nat : m = Len(a) /\ n = Len(b)
  OBVIOUS
<1>3. /\ c \in Seq(R) /\ Len(c) = m + n
      /\ \A i \in 1 .. m + n : c[i] = IF i <= m THEN a[i] ELSE b[i - m]
  BY ONLY a \in Seq(R), b \in Seq(R), <1>1, <1>2, ConcatProperties
<1>4. \A i \in 1 .. m : c[i] = a[i]
  BY ONLY m \in Nat, n \in Nat, <1>3
<1>5. ASSUME NEW i \in 1 .. n
      PROVE  c[m + i] = b[i]
  <2>1. m + i \in 1 .. m + n /\ ~(m + i <= m) /\ m + i - m = i
    BY ONLY m \in Nat, n \in Nat, i \in 1 .. n
  <2> QED
    BY ONLY <1>3, <2>1
<1> QED
  BY <1>1, <1>2, <1>3, <1>4, <1>5

\* The sequence t is s, of length n, with an element put after the first p.
HasInserted(t, s, n, p, row) ==
    /\ n \in Nat /\ p \in Nat /\ p <= n
    /\ DOMAIN s = 1 .. n /\ DOMAIN t = 1 .. n + 1
    /\ \A i \in 1 .. p : t[i] = s[i]
    /\ t[p + 1] = row
    /\ \A i \in p + 1 .. n : t[i + 1] = s[i]

\* An element inserted after the first p.
LEMMA Insertion ==
    ASSUME NEW R, NEW s \in Seq(R), NEW q, q \in 1 .. Len(s) + 1, NEW row \in R
    PROVE  /\ InsertAt(s, q, row) \in Seq(R) /\ Len(InsertAt(s, q, row)) = Len(s) + 1
           /\ HasInserted(InsertAt(s, q, row), s, Len(s), q - 1, row)
<1>1. PICK n \in Nat, p \in Nat : n = Len(s) /\ q = p + 1 /\ q - 1 = p /\ p <= n
  <2>1. PICK n \in Nat : n = Len(s)
    OBVIOUS
  <2>2. q - 1 \in Nat /\ q = q - 1 + 1 /\ q - 1 <= n
    BY ONLY n \in Nat, <2>1, q \in 1 .. Len(s) + 1
  <2> QED
    BY ONLY n \in Nat, <2>1, <2>2
<1>2. PICK a, b : a = SubSeq(s, 1, p) /\ b = SubSeq(s, p + 1, n)
  OBVIOUS
<1>3. /\ a \in Seq(R) /\ Len(a) = p /\ \A i \in 1 .. p : a[i] = s[i]
      /\ b \in Seq(R) /\ Len(b) = n - p /\ \A i \in 1 .. n - p : b[i] = s[p + i]
  <2>0. n \in Nat /\ p \in Nat /\ p <= n /\ n = Len(s)
    BY <1>1
  <2> QED
    BY ONLY s \in Seq(R), <2>0, <1>2, Pieces
<1>4. PICK m : m = <<row>>
  OBVIOUS
<1>5. m \in Seq(R) /\ Len(m) = 1 /\ m[1] = row
  BY <1>4
<1>6. PICK c, t : c = a \o m /\ t = c \o b
  OBVIOUS
<1>7. /\ c \in Seq(R) /\ Len(c) = p + 1 /\ \A i \in 1 .. p : c[i] = a[i]
      /\ \A i \in 1 .. 1 : c[p + i] = m[i]
  <2>1. /\ c \in Seq(R) /\ Len(c) = Len(a) + Len(m)
        /\ \A i \in 1 .. Len(a) : c[i] = a[i]
        /\ \A i \in 1 .. Len(m) : c[Len(a) + i] = m[i]
    <3>1. a \in Seq(R) /\ m \in Seq(R)
      BY ONLY <1>3, <1>5
    <3> QED
      BY ONLY <3>1, <1>6, JoinedIs
  <2> QED
    BY ONLY <2>1, <1>3, <1>5
<1>8. /\ t \in Seq(R) /\ Len(t) = p + 1 + (n - p) /\ \A i \in 1 .. p + 1 : t[i] = c[i]
      /\ \A i \in 1 .. n - p : t[p + 1 + i] = b[i]
  <2>1. /\ t \in Seq(R) /\ Len(t) = Len(c) + Len(b)
        /\ \A i \in 1 .. Len(c) : t[i] = c[i]
        /\ \A i \in 1 .. Len(b) : t[Len(c) + i] = b[i]
    <3>1. c \in Seq(R) /\ b \in Seq(R)
      BY ONLY <1>3, <1>7
    <3> QED
      BY ONLY <3>1, <1>6, JoinedIs
  <2> QED
    BY ONLY <2>1, <1>3, <1>7
<1>9. InsertAt(s, q, row) = t
  <2>1. InsertAt(s, q, row) = SubSeq(s, 1, q - 1) \o m \o SubSeq(s, q, n)
    BY <1>1, <1>4 DEF InsertAt
  <2> QED
    BY ONLY <2>1, <1>1, <1>2, <1>6
<1>10. Len(t) = n + 1
  <2>1. p + 1 + (n - p) = n + 1
    BY ONLY p \in Nat, n \in Nat
  <2> QED
    BY ONLY <1>8, <2>1
<1>11. ASSUME NEW i \in 1 .. p
       PROVE  t[i] = s[i]
  <2>1. i \in 1 .. p + 1
    BY ONLY p \in Nat, i \in 1 .. p
  <2> QED
    BY ONLY i \in 1 .. p, <2>1, <1>3, <1>7, <1>8
<1>12. t[p + 1] = row
  <2>1. p + 1 \in 1 .. p + 1 /\ 1 \in 1 .. 1
    BY ONLY p \in Nat
  <2> QED
    BY ONLY <2>1, <1>5, <1>7, <1>8
<1>13. ASSUME NEW i \in p + 1 .. n
       PROVE  t[i + 1] = s[i]
  <2>1. PICK j \in 1 .. n - p : j = i - p /\ p + 1 + j = i + 1 /\ p + j = i
    <3>1. i - p \in 1 .. n - p /\ p + 1 + (i - p) = i + 1 /\ p + (i - p) = i
      BY ONLY p \in Nat, n \in Nat, i \in p + 1 .. n
    <3> QED
      BY <3>1
  <2>2. t[p + 1 + j] = b[j]
    BY ONLY j \in 1 .. n - p, <1>8
  <2>3. b[j] = s[p + j]
    BY ONLY j \in 1 .. n - p, <1>3
  <2> QED
    BY ONLY <2>1, <2>2, <2>3
<1>14. DOMAIN s = 1 .. n /\ DOMAIN t = 1 .. n + 1
  <2>1. DOMAIN t = 1 .. Len(t) /\ DOMAIN s = 1 .. Len(s)
    BY <1>8
  <2> QED
    BY ONLY <2>1, <1>1, <1>10
<1>15. HasInserted(t, s, n, p, row)
  BY ONLY n \in Nat, p \in Nat, <1>1, <1>11, <1>12, <1>13, <1>14 DEF HasInserted
<1> QED
  BY <1>1, <1>8, <1>9, <1>10, <1>15

\* The elements, and that each is there once, after one is put among others.
LEMMA PutAmong ==
    ASSUME NEW t, NEW s, NEW n, NEW p, NEW row, HasInserted(t, s, n, p, row)
    PROVE  /\ Range(t) = Range(s) \cup {row}
           /\ row \notin Range(s) /\ IsInjective(s) => IsInjective(t)
<1> USE DEF HasInserted
<1>1. \A i \in 1 .. n + 1 :
         \/ i \in 1 .. p /\ i \in 1 .. n /\ t[i] = s[i]
         \/ i = p + 1 /\ t[i] = row
         \/ i - 1 \in p + 1 .. n /\ i - 1 \in 1 .. n /\ t[i] = s[i - 1]
  <2> TAKE i \in 1 .. n + 1
  <2>1. CASE i <= p
    <3>1. i \in 1 .. p /\ i \in 1 .. n
      BY <2>1
    <3> QED
      BY <3>1
  <2>2. CASE i = p + 1
    BY <2>2
  <2>3. CASE i > p + 1
    <3>1. i - 1 \in p + 1 .. n /\ i - 1 \in 1 .. n /\ i - 1 + 1 = i
      BY <2>3
    <3>2. t[i - 1 + 1] = s[i - 1]
      BY <3>1
    <3> QED
      BY <3>1, <3>2
  <2> QED
    BY <2>1, <2>2, <2>3
<1>2. \A i \in 1 .. n :
         \/ i \in 1 .. n + 1 /\ t[i] = s[i]
         \/ i + 1 \in 1 .. n + 1 /\ t[i + 1] = s[i]
  <2> TAKE i \in 1 .. n
  <2>1. CASE i <= p
    BY <2>1
  <2>2. CASE i > p
    BY <2>2
  <2> QED
    BY <2>1, <2>2
<1>3. p + 1 \in 1 .. n + 1
  OBVIOUS
<1>4. DOMAIN s = 1 .. n /\ DOMAIN t = 1 .. n + 1
  OBVIOUS
<1>5. ASSUME NEW x \in Range(t)
      PROVE  x \in Range(s) \cup {row}
  <2>1. PICK i \in 1 .. n + 1 : x = t[i]
    BY <1>4 DEF Range
  <2>2. x = row \/ \E j \in 1 .. n : s[j] = x
    BY <1>1, <2>1
  <2> QED
    BY <2>2, <1>4 DEF Range
<1>6. ASSUME NEW x \in Range(s)
      PROVE  x \in Range(t)
  <2>1. PICK i \in 1 .. n : x = s[i]
    BY <1>4 DEF Range
  <2>2. \E j \in 1 .. n + 1 : t[j] = x
    BY <1>2, <2>1
  <2> QED
    BY <2>2, <1>4 DEF Range
<1>7. row \in Range(t)
  BY <1>3, <1>4 DEF Range
<1>8. ASSUME row \notin Range(s), IsInjective(s)
      PROVE  IsInjective(t)
  <2>1. /\ \A i \in 1 .. n : s[i] # row
        /\ \A i, j \in 1 .. n : s[i] = s[j] => i = j
    BY <1>8, <1>4 DEF IsInjective, Range
  <2>2. \A i, j \in 1 .. n + 1 : t[i] = t[j] => i = j
    BY <1>1, <2>1
  <2> QED
    BY <2>2, <1>4 DEF IsInjective
<1> QED
  BY <1>5, <1>6, <1>7, <1>8

\* So an element inserted after the first p is there with the others, once.
LEMMA InsertionKeeps ==
    ASSUME NEW R, NEW s \in Seq(R), NEW q, q \in 1 .. Len(s) + 1, NEW row \in R
    PROVE  /\ InsertAt(s, q, row) \in Seq(R) /\ Len(InsertAt(s, q, row)) = Len(s) + 1
           /\ Range(InsertAt(s, q, row)) = Range(s) \cup {row}
           /\ row \notin Range(s) /\ IsInjective(s) => IsInjective(InsertAt(s, q, row))
<1>1. PICK t : t = InsertAt(s, q, row)
  OBVIOUS
<1>2. t \in Seq(R) /\ Len(t) = Len(s) + 1 /\ HasInserted(t, s, Len(s), q - 1, row)
  <2>1. /\ InsertAt(s, q, row) \in Seq(R) /\ Len(InsertAt(s, q, row)) = Len(s) + 1
        /\ HasInserted(InsertAt(s, q, row), s, Len(s), q - 1, row)
    BY ONLY s \in Seq(R), row \in R, q \in 1 .. Len(s) + 1, Insertion, Zenon
  <2> QED
    BY ONLY <2>1, <1>1
<1>3. /\ Range(t) = Range(s) \cup {row}
      /\ row \notin Range(s) /\ IsInjective(s) => IsInjective(t)
  BY ONLY <1>2, PutAmong
<1> QED
  BY <1>1, <1>2, <1>3
=============================================================================

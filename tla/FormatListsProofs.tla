------------------------- MODULE FormatListsProofs -------------------------
(***************************************************************************)
(* Proofs about FormatLists, for every order of the samples, every length  *)
(* of the lists and every span and age: the items stay in the order of     *)
(* their seconds, a lookup of a packet that is due finds the item it needs *)
(* and never frees the last one, and in an attended collector no bad       *)
(* pointer is ever followed.                                               *)
(***************************************************************************)
EXTENDS FormatLists, SequenceTheorems, TLAPS

\* What stands behind q_p_last has its second and an earlier time.
BehindLast ==
  at # 0 => \A i \in DOMAIN items :
              i > at => Sec(items[i]) = Sec(items[at]) /\ items[i] < items[at]

\* There is an item before there is a lookup; attended, q_p_last is one of them.
PairInv ==
  /\ pc = "pair" => items # <<>>
  /\ attended /\ items # <<>> => at # 0

ListsInv == TypeOK /\ OrderedBySecond /\ BehindLast /\ PairInv

-----------------------------------------------------------------------------
(* Seconds.                                                                *)

LEMMA SecFacts ==
  /\ \A t \in Time : t \in Nat /\ Sec(t) \in Nat
  /\ \A s, t \in Time : s <= t => Sec(s) <= Sec(t)
<1>1. TICKS \in Nat /\ TICKS > 0
  BY ListsAssumption DEF ListsAssumption
<1>2. \A t \in Time : t \in Nat
  BY DEF Time
<1>3. \A t \in Nat : Sec(t) \in Nat /\ TICKS * Sec(t) <= t /\ t < TICKS * Sec(t) + TICKS
  BY <1>1 DEF Sec
<1>4. ASSUME NEW s \in Time, NEW t \in Time, s <= t PROVE Sec(s) <= Sec(t)
  <2> DEFINE a == Sec(s)
             b == Sec(t)
  <2>1. /\ a \in Nat /\ b \in Nat /\ s \in Nat /\ t \in Nat
        /\ TICKS * a <= s /\ t < TICKS * b + TICKS
    BY <1>2, <1>3
  <2> HIDE DEF a, b
  <2>2. ASSUME b + 1 <= a PROVE FALSE
    <3>1. TICKS * (b + 1) <= TICKS * a
      BY <1>1, <2>1, <2>2
    <3>2. TICKS * (b + 1) = TICKS * b + TICKS
      BY <1>1, <2>1
    <3> QED
      BY <1>1, <1>4, <2>1, <3>1, <3>2
  <2>3. a <= b
    BY <2>1, <2>2
  <2> QED
    BY <2>3 DEF a, b
<1> QED
  BY <1>2, <1>3, <1>4

LEMMA ItemFacts ==
  ASSUME TypeOK
  PROVE  /\ Len(items) \in Nat /\ DOMAIN items = 1 .. Len(items)
         /\ \A i \in 1 .. Len(items) : items[i] \in Time
         /\ at \in 0 .. Len(items)
         /\ items # <<>> <=> Len(items) > 0
  BY LenProperties, ElementOfSeq, EmptySeq DEF TypeOK, ListType

-----------------------------------------------------------------------------
(* The items.                                                              *)

\* What the operations on the items keep.
ItemsGood == /\ items \in Seq(Time) /\ at \in 0 .. Len(items)
             /\ OrderedBySecond /\ BehindLast

LEMMA AppendGood ==
  ASSUME TypeOK, ItemsGood, NEW t \in Time, at # 0, NotLate(t), AppendItem(t)
  PROVE  ItemsGood' /\ at' # 0 /\ items' # <<>>
<1>1. /\ Len(items) \in Nat /\ DOMAIN items = 1 .. Len(items) /\ at \in 1 .. Len(items)
      /\ \A i \in 1 .. Len(items) : items[i] \in Time
  BY ItemFacts
<1> DEFINE front == SubSeq(items, 1, at)
<1>2. /\ front \in Seq(Time) /\ Len(front) = at
      /\ \A i \in 1 .. at : front[i] = items[i]
  <2>1. \A i \in 1 .. at : items[i] \in Time
    BY <1>1
  <2>2. /\ SubSeq(items, 1, at) \in Seq(Time)
        /\ Len(SubSeq(items, 1, at)) = IF 1 <= at THEN at - 1 + 1 ELSE 0
        /\ \A i \in 1 .. at - 1 + 1 : SubSeq(items, 1, at)[i] = items[1 + i - 1]
    BY <1>1, <2>1, SubSeqProperties
  <2> QED
    BY <1>1, <2>2
<1>3. <<t>> \in Seq(Time) /\ Len(<<t>>) = 1 /\ <<t>>[1] = t
  OBVIOUS
<1>4. items' = front \o <<t>> /\ at' = at + 1
  BY DEF AppendItem
<1> HIDE DEF front
<1>5. /\ items' \in Seq(Time) /\ Len(items') = at + 1
      /\ \A i \in 1 .. at + 1 : items'[i] = IF i <= at THEN front[i] ELSE <<t>>[i - at]
  BY <1>1, <1>2, <1>3, <1>4, ConcatProperties
<1>6. /\ \A i \in 1 .. at : items'[i] = items[i]
      /\ items'[at + 1] = t
  BY <1>1, <1>2, <1>3, <1>5
<1>7. DOMAIN items' = 1 .. at + 1
  BY <1>5, LenProperties
<1>8. OrderedBySecond'
  <2> SUFFICES ASSUME NEW i \in 1 .. at + 1, NEW j \in 1 .. at + 1, i < j
               PROVE  Sec(items'[i]) <= Sec(items'[j])
    BY <1>7 DEF OrderedBySecond
  <2>1. i \in 1 .. at /\ items'[i] = items[i] /\ Sec(items[i]) <= Sec(items[at])
    <3>1. i \in 1 .. at
      BY <1>1
    <3>2. i < at => Sec(items[i]) <= Sec(items[at])
      BY <1>1, <3>1 DEF ItemsGood, OrderedBySecond
    <3>3. i = at \/ i < at
      BY <1>1, <3>1
    <3>4. Sec(items[at]) \in Nat
      BY <1>1, SecFacts
    <3> QED
      BY <1>6, <3>1, <3>2, <3>3, <3>4
  <2>2. CASE j = at + 1
    <3>1. Sec(items[at]) <= Sec(t)
      BY <1>1, SecFacts DEF NotLate
    <3>2. Sec(items[i]) \in Nat /\ Sec(items[at]) \in Nat /\ Sec(t) \in Nat
      BY <1>1, <2>1, SecFacts
    <3> QED
      BY <1>6, <2>1, <2>2, <3>1, <3>2
  <2>3. CASE j # at + 1
    <3>1. j \in 1 .. at
      BY <1>1, <2>3
    <3>2. j \in 1 .. Len(items) /\ i \in 1 .. Len(items)
      BY <1>1, <2>1, <3>1
    <3> QED
      BY <1>1, <1>6, <2>1, <3>1, <3>2 DEF ItemsGood, OrderedBySecond
  <2> QED
    BY <2>2, <2>3
<1>9. BehindLast'
  BY <1>1, <1>4, <1>7 DEF BehindLast
<1>10. items' # <<>>
  BY <1>1, <1>5
<1> QED
  BY <1>1, <1>4, <1>5, <1>8, <1>9, <1>10 DEF ItemsGood

LEMMA InsertGood ==
  ASSUME TypeOK, ItemsGood, NEW t \in Time, items # <<>>, at # 0, ~NotLate(t),
         InsertItem(t)
  PROVE  ItemsGood' /\ at' # 0 /\ items' # <<>>
<1> DEFINE n == Len(items)
<1>1. /\ n \in Nat /\ DOMAIN items = 1 .. n /\ at \in 1 .. n
      /\ \A i \in 1 .. n : items[i] \in Time /\ items[i] \in Nat /\ Sec(items[i]) \in Nat
      /\ t \in Nat /\ Sec(t) \in Nat
  BY ItemFacts, SecFacts
<1>2. PICK k \in 0 .. n :
        /\ 1 .. k \cap Later(t) = {}
        /\ k = n \/ k + 1 \in Later(t)
        /\ IF k = 0
           THEN UNCHANGED <<items, at>>
           ELSE /\ items' = SubSeq(items, 1, k) \o <<t>> \o SubSeq(items, k + 1, n)
                /\ at' = IF k < at THEN at + 1 ELSE at
  BY DEF InsertItem
<1>3. CASE k = 0
  <2>1. items' = items /\ at' = at
    BY <1>2, <1>3
  <2> QED
    BY <2>1 DEF ItemsGood, OrderedBySecond, BehindLast
<1>4. CASE k # 0
  <2>1. k \in 1 .. n /\ k \in Nat
    BY <1>1, <1>4
  <2>2. \A i \in 1 .. k : Sec(items[i]) <= Sec(t)
    <3> SUFFICES ASSUME NEW i \in 1 .. k PROVE Sec(items[i]) <= Sec(t)
      OBVIOUS
    <3>1. i \in 1 .. n
      BY <1>1, <2>1
    <3>2. i \notin Later(t)
      BY <1>2
    <3>3. ~(Sec(items[i]) > Sec(t))
      BY <1>1, <3>1, <3>2 DEF Later
    <3> QED
      BY <1>1, <3>1, <3>3
  <2>3. \A i \in k + 1 .. n : Sec(items[i]) > Sec(t)
    <3> SUFFICES ASSUME NEW i \in k + 1 .. n PROVE Sec(items[i]) > Sec(t)
      OBVIOUS
    <3>0. k + 1 \in 1 .. n /\ i \in 1 .. n /\ k # n
      <4>1. n \in Nat /\ k \in Nat
        BY <1>1, <2>1
      <4> HIDE DEF n
      <4>2. i \in Int /\ k + 1 <= i /\ i <= n
        BY <4>1
      <4> QED
        BY <4>1, <4>2
    <3>1. k + 1 \in 1 .. n /\ i \in 1 .. n /\ Sec(items[k + 1]) > Sec(t)
      BY <1>2, <3>0 DEF Later
    <3>2. i = k + 1 \/ k + 1 < i
      BY <1>1, <2>1
    <3>3. k + 1 < i => Sec(items[k + 1]) <= Sec(items[i])
      BY <1>1, <3>1 DEF ItemsGood, OrderedBySecond
    <3> QED
      BY <1>1, <3>1, <3>2, <3>3
  <2> DEFINE front == SubSeq(items, 1, k)
             back == SubSeq(items, k + 1, n)
  <2>4. /\ front \in Seq(Time) /\ Len(front) = k
        /\ \A i \in 1 .. k : front[i] = items[i]
    <3>1. \A i \in 1 .. k : items[i] \in Time
      BY <1>1, <2>1
    <3>2. /\ SubSeq(items, 1, k) \in Seq(Time)
          /\ Len(SubSeq(items, 1, k)) = IF 1 <= k THEN k - 1 + 1 ELSE 0
          /\ \A i \in 1 .. k - 1 + 1 : SubSeq(items, 1, k)[i] = items[1 + i - 1]
      BY <2>1, <3>1, SubSeqProperties
    <3> QED
      BY <2>1, <3>2
  <2>5. /\ back \in Seq(Time) /\ Len(back) = n - k
        /\ \A i \in 1 .. n - k : back[i] = items[k + i]
    <3>1. \A i \in k + 1 .. n : items[i] \in Time
      BY <1>1, <2>1
    <3>2. /\ SubSeq(items, k + 1, n) \in Seq(Time)
          /\ Len(SubSeq(items, k + 1, n)) = IF k + 1 <= n THEN n - (k + 1) + 1 ELSE 0
          /\ \A i \in 1 .. n - (k + 1) + 1 : SubSeq(items, k + 1, n)[i] = items[k + 1 + i - 1]
      <4>1. k + 1 \in Int /\ n \in Int
        BY <1>1, <2>1
      <4> QED
        BY <3>1, <4>1, SubSeqProperties
    <3>3. n - (k + 1) + 1 = n - k /\ (k + 1 <= n \/ n - k = 0)
      <4>1. n \in Int /\ k \in Int /\ k <= n
        BY <1>1, <2>1
      <4> HIDE DEF n
      <4> QED
        BY <4>1
    <3>4. \A i \in 1 .. n - k : k + 1 + i - 1 = k + i
      BY <1>1, <2>1
    <3> QED
      BY <3>2, <3>3, <3>4
  <2>6. <<t>> \in Seq(Time) /\ Len(<<t>>) = 1 /\ <<t>>[1] = t
    OBVIOUS
  <2>7. /\ items' = front \o <<t>> \o back
        /\ at' = IF k < at THEN at + 1 ELSE at
    BY <1>2, <1>4
  <2> HIDE DEF front, back
  <2>8. /\ front \o <<t>> \in Seq(Time) /\ Len(front \o <<t>>) = k + 1
        /\ \A i \in 1 .. k + 1 :
             (front \o <<t>>)[i] = IF i <= k THEN front[i] ELSE <<t>>[i - k]
    BY <2>1, <2>4, <2>6, ConcatProperties
  <2>9. /\ items' \in Seq(Time) /\ Len(items') = n + 1
        /\ \A i \in 1 .. n + 1 :
             items'[i] = IF i <= k + 1 THEN (front \o <<t>>)[i] ELSE back[i - (k + 1)]
    <3>1. k + 1 + (n - k) = n + 1
      BY <1>1, <2>1
    <3> QED
      BY <2>5, <2>7, <2>8, <3>1, ConcatProperties
  <2>10. \A i \in 1 .. n + 1 :
           items'[i] = IF i <= k THEN items[i] ELSE IF i = k + 1 THEN t ELSE items[i - 1]
    <3> SUFFICES ASSUME NEW i \in 1 .. n + 1
                 PROVE  items'[i] = IF i <= k THEN items[i]
                                    ELSE IF i = k + 1 THEN t ELSE items[i - 1]
      OBVIOUS
    <3>1. CASE i <= k
      <4>1. i \in 1 .. k /\ i \in 1 .. k + 1
        BY <1>1, <2>1, <3>1
      <4> QED
        BY <2>1, <2>4, <2>8, <2>9, <3>1, <4>1
    <3>2. CASE i = k + 1
      <4>1. i \in 1 .. k + 1 /\ ~(i <= k) /\ i - k = 1
        BY <2>1, <3>2
      <4> QED
        BY <2>6, <2>8, <2>9, <3>2, <4>1
    <3>3. CASE i > k + 1
      <4>1. i - (k + 1) \in 1 .. n - k /\ k + (i - (k + 1)) = i - 1 /\ ~(i <= k + 1)
        BY <1>1, <2>1, <3>3
      <4>2. back[i - (k + 1)] = items[k + (i - (k + 1))]
        BY <2>5, <4>1
      <4>3. items'[i] = back[i - (k + 1)]
        BY <2>9, <4>1
      <4>4. ~(i <= k) /\ i # k + 1
        BY <2>1, <3>3
      <4> QED
        BY <4>1, <4>2, <4>3, <4>4
    <3> QED
      BY <2>1, <3>1, <3>2, <3>3
  <2>11. DOMAIN items' = 1 .. n + 1
    BY <2>9, LenProperties
  <2> HIDE DEF n
  <2>12. OrderedBySecond'
    <3> SUFFICES ASSUME NEW i \in 1 .. n + 1, NEW j \in 1 .. n + 1, i < j
                 PROVE  Sec(items'[i]) <= Sec(items'[j])
      BY <2>11 DEF OrderedBySecond
    <3>1. \A p, q \in 1 .. n : p < q => Sec(items[p]) <= Sec(items[q])
      BY <1>1 DEF ItemsGood, OrderedBySecond
    <3>2. CASE j <= k
      <4>1. i \in 1 .. n /\ j \in 1 .. n /\ i <= k
        BY <1>1, <2>1, <3>2
      <4> QED
        BY <2>10, <3>1, <3>2, <4>1
    <3>3. CASE j = k + 1
      <4>1. i \in 1 .. k /\ ~(j <= k)
        BY <1>1, <2>1, <3>3
      <4> QED
        BY <2>2, <2>10, <3>3, <4>1
    <3>4. CASE j > k + 1
      <4>0. ~(j <= k) /\ j # k + 1 /\ j - 1 \in k + 1 .. n /\ j - 1 \in 1 .. n
        BY <1>1, <2>1, <3>4
      <4>1. items'[j] = items[j - 1]
        BY <2>10, <4>0
      <4>2. CASE i <= k
        <5>1. i \in 1 .. n /\ i < j - 1
          BY <1>1, <2>1, <3>4, <4>2
        <5> QED
          BY <2>10, <3>1, <4>0, <4>1, <4>2, <5>1
      <4>3. CASE i = k + 1
        <5>1. ~(i <= k) /\ items'[i] = t
          BY <2>1, <2>10, <4>3
        <5>2. Sec(items[j - 1]) \in Nat /\ Sec(items[j - 1]) > Sec(t)
          BY <1>1, <2>3, <4>0
        <5> QED
          BY <1>1, <4>1, <5>1, <5>2
      <4>4. CASE i > k + 1
        <5>1. i - 1 \in 1 .. n /\ i - 1 < j - 1 /\ ~(i <= k) /\ i # k + 1
          BY <1>1, <2>1, <4>4
        <5> QED
          BY <2>10, <3>1, <4>0, <4>1, <5>1
      <4> QED
        BY <2>1, <4>2, <4>3, <4>4
    <3> QED
      BY <2>1, <3>2, <3>3, <3>4
  <2>13. at' \in 1 .. n + 1 /\ items'[at'] = items[at]
    <3>1. CASE k < at
      <4>1. at' = at + 1 /\ at' \in 1 .. n + 1 /\ ~(at' <= k) /\ at' # k + 1 /\ at' - 1 = at
        BY <1>1, <2>1, <2>7, <3>1
      <4> QED
        BY <2>10, <4>1
    <3>2. CASE ~(k < at)
      <4>1. at' = at /\ at' \in 1 .. n + 1 /\ at' <= k
        BY <1>1, <2>1, <2>7, <3>2
      <4> QED
        BY <2>10, <4>1
    <3> QED
      BY <3>1, <3>2
  <2>14. BehindLast'
    <3> SUFFICES ASSUME NEW i \in 1 .. n + 1, i > at'
                 PROVE  Sec(items'[i]) = Sec(items[at]) /\ items'[i] < items[at]
      BY <2>11, <2>13 DEF BehindLast
    <3>0. \A q \in 1 .. n : q > at => Sec(items[q]) = Sec(items[at]) /\ items[q] < items[at]
      BY <1>1 DEF ItemsGood, BehindLast
    <3>1. CASE k < at
      <4>1. ~(i <= k) /\ i # k + 1 /\ i - 1 \in 1 .. n /\ i - 1 > at
        BY <1>1, <2>1, <2>7, <3>1
      <4> QED
        BY <2>10, <3>0, <4>1
    <3>2. CASE ~(k < at)
      <4>0. at' = at /\ at \in 1 .. k
        BY <1>1, <2>1, <2>7, <3>2
      <4>1. CASE i <= k
        <5>1. i \in 1 .. n
          BY <1>1, <2>1, <4>1
        <5> QED
          BY <2>10, <3>0, <4>0, <4>1, <5>1
      <4>2. CASE i = k + 1
        <5>1. ~(i <= k) /\ items'[i] = t
          BY <2>1, <2>10, <4>2
        <5>2. t < items[at]
          BY <1>1 DEF NotLate
        <5>3. Sec(t) <= Sec(items[at])
          BY <1>1, <5>2, SecFacts
        <5>4. Sec(items[at]) <= Sec(t)
          BY <2>2, <4>0
        <5> QED
          BY <1>1, <5>1, <5>2, <5>3, <5>4
      <4>3. CASE i > k + 1
        <5>1. ~(i <= k) /\ i # k + 1 /\ i - 1 \in 1 .. n /\ i - 1 > at
          BY <1>1, <2>1, <4>0, <4>3
        <5> QED
          BY <2>10, <3>0, <5>1
      <4> QED
        BY <2>1, <4>1, <4>2, <4>3
    <3> QED
      BY <3>1, <3>2
  <2>15. at' # 0 /\ at' \in 0 .. Len(items') /\ items' # <<>>
    <3>1. at' # 0 /\ at' \in 0 .. Len(items') /\ Len(items') # 0
      BY <1>1, <2>9, <2>13 DEF n
    <3> QED
      BY <3>1
  <2> QED
    BY <2>9, <2>12, <2>14, <2>15 DEF ItemsGood
<1> QED
  BY <1>3, <1>4

\* What a lookup frees ends before an item whose second is not old.
LEMMA FreedGood ==
  ASSUME TypeOK, ItemsGood, NEW t \in Time, items # <<>>, Freed(t)
  PROVE  /\ ItemsGood' /\ items' # <<>>
         /\ at # 0 /\ Sec(t) - Sec(items[at]) <= OLD => at' # 0 /\ items'[at'] = items[at]
<1> DEFINE n == Len(items)
<1>1. /\ n \in Nat /\ DOMAIN items = 1 .. n /\ at \in 0 .. n /\ n > 0
      /\ \A i \in 1 .. n : items[i] \in Time /\ items[i] \in Nat /\ Sec(items[i]) \in Nat
      /\ t \in Nat /\ Sec(t) \in Nat /\ OLD \in Nat
  BY ItemFacts, SecFacts, ListsAssumption DEF ListsAssumption
<1>2. CASE items' = items /\ at' = at
  BY <1>2 DEF ItemsGood, OrderedBySecond, BehindLast
<1>3. CASE ~(items' = items /\ at' = at)
  <2>1. PICK d \in Aged(t) : /\ items' = SubSeq(items, d, n)
                             /\ at' = IF at >= d THEN at - d + 1 ELSE 0
    BY <1>3 DEF Freed
  <2>2. d \in 1 .. n /\ Sec(t) - Sec(items[d]) > OLD
    BY <1>1 DEF Aged
  <2>3. \A i \in d .. n : items[i] \in Time
    BY <1>1, <2>2
  <2>4. /\ SubSeq(items, d, n) \in Seq(Time)
        /\ Len(SubSeq(items, d, n)) = IF d <= n THEN n - d + 1 ELSE 0
        /\ \A i \in 1 .. n - d + 1 : SubSeq(items, d, n)[i] = items[d + i - 1]
    <3>1. d \in Int /\ n \in Int
      BY <1>1, <2>2
    <3> QED
      BY <2>3, <3>1, SubSeqProperties
  <2> HIDE DEF n
  <2>5. /\ items' \in Seq(Time) /\ Len(items') = n - d + 1
        /\ \A i \in 1 .. n - d + 1 : items'[i] = items[d + i - 1]
    BY <2>1, <2>2, <2>4
  <2>6. DOMAIN items' = 1 .. n - d + 1
    BY <2>5, LenProperties
  <2>7. \A i \in 1 .. n - d + 1 : d + i - 1 \in 1 .. n
    BY <1>1, <2>2
  <2>8. OrderedBySecond'
    <3> SUFFICES ASSUME NEW i \in 1 .. n - d + 1, NEW j \in 1 .. n - d + 1, i < j
                 PROVE  Sec(items'[i]) <= Sec(items'[j])
      BY <2>6 DEF OrderedBySecond
    <3>1. d + i - 1 < d + j - 1
      BY <1>1, <2>2
    <3>2. Sec(items[d + i - 1]) <= Sec(items[d + j - 1])
      BY <1>1, <2>7, <3>1 DEF ItemsGood, OrderedBySecond
    <3> QED
      BY <2>5, <3>2
  <2>9. at >= d => at' \in 1 .. n - d + 1 /\ d + at' - 1 = at /\ items'[at'] = items[at]
    <3> SUFFICES ASSUME at >= d
                 PROVE  at' \in 1 .. n - d + 1 /\ d + at' - 1 = at /\ items'[at'] = items[at]
      OBVIOUS
    <3>1. at' \in 1 .. n - d + 1 /\ d + at' - 1 = at
      BY <1>1, <2>1, <2>2
    <3>2. items'[at'] = items[d + at' - 1]
      BY <2>5, <3>1
    <3> QED
      BY <3>1, <3>2
  <2>10. ~(at >= d) => at' = 0
    BY <2>1
  <2>11. at' \in 0 .. Len(items')
    BY <1>1, <2>2, <2>5, <2>9, <2>10
  <2>12. BehindLast'
    <3> SUFFICES ASSUME at' # 0, NEW i \in 1 .. n - d + 1, i > at'
                 PROVE  Sec(items'[i]) = Sec(items'[at']) /\ items'[i] < items'[at']
      BY <2>6 DEF BehindLast
    <3>1. at >= d /\ at' \in 1 .. n - d + 1 /\ d + at' - 1 = at /\ items'[at'] = items[at]
      BY <2>9, <2>10
    <3>2. d + i - 1 > at /\ d + i - 1 \in 1 .. n /\ at # 0
      <4>1. d + i - 1 \in 1 .. n
        BY <2>7
      <4>2. i \in Int /\ d \in Int /\ at' \in Int /\ n \in Int
        BY <1>1, <2>2, <3>1
      <4>3. d + i - 1 > d + at' - 1
        <5>1. \A x, y, z \in Int : x > y => z + x - 1 > z + y - 1
          OBVIOUS
        <5> QED
          BY <4>2, <5>1
      <4>4. at # 0
        BY <1>1, <2>2, <3>1
      <4> QED
        BY <3>1, <4>1, <4>3, <4>4
    <3>3. Sec(items[d + i - 1]) = Sec(items[at]) /\ items[d + i - 1] < items[at]
      BY <1>1, <3>2 DEF ItemsGood, BehindLast
    <3> QED
      BY <2>5, <3>1, <3>3
  <2>13. items' # <<>>
    <3>1. Len(items') > 0
      BY <1>1, <2>2, <2>5
    <3> QED
      BY <3>1
  <2>14. ASSUME at # 0, Sec(t) - Sec(items[at]) <= OLD PROVE at >= d
    <3>1. at \in 1 .. n
      BY <1>1, <2>14
    <3>2. at < d => Sec(items[at]) <= Sec(items[d])
      BY <1>1, <2>2, <3>1 DEF ItemsGood, OrderedBySecond
    <3>3. /\ Sec(items[at]) \in Nat /\ Sec(items[d]) \in Nat /\ Sec(t) \in Nat /\ OLD \in Nat
          /\ at \in Nat /\ d \in Nat
      BY <1>1, <2>2, <3>1
    <3> QED
      BY <2>2, <2>14, <3>2, <3>3
  <2>15. at # 0 /\ Sec(t) - Sec(items[at]) <= OLD => at' # 0 /\ items'[at'] = items[at]
    <3> SUFFICES ASSUME at # 0, Sec(t) - Sec(items[at]) <= OLD
                 PROVE  at' # 0 /\ items'[at'] = items[at]
      OBVIOUS
    <3>1. at' \in 1 .. n - d + 1 /\ items'[at'] = items[at]
      BY <2>9, <2>14
    <3> QED
      BY <3>1
  <2>16. ItemsGood'
    BY <2>5, <2>8, <2>11, <2>12 DEF ItemsGood
  <2> QED
    BY <2>13, <2>15, <2>16
<1> QED
  BY <1>2, <1>3

\* A new item keeps them, whichever way it goes in; it leaves q_p_last in place.
LEMMA NewItemGood ==
  ASSUME TypeOK, ItemsGood, NEW t \in Time, NewItem(t)
  PROVE  ItemsGood' /\ at' # 0 /\ items' # <<>>
<1>1. CASE items = <<>> /\ items' = <<t>> /\ at' = 1
  <2>1. /\ items' \in Seq(Time) /\ Len(items') = 1 /\ DOMAIN items' = 1 .. 1
        /\ items' # <<>>
    BY <1>1
  <2>2. OrderedBySecond' /\ BehindLast'
    BY <1>1, <2>1 DEF OrderedBySecond, BehindLast
  <2> QED
    BY <1>1, <2>1, <2>2 DEF ItemsGood
<1>2. CASE items # <<>> /\ at # 0 /\ NotLate(t) /\ AppendItem(t)
  BY <1>2, AppendGood
<1>3. CASE items # <<>> /\ at # 0 /\ ~NotLate(t) /\ InsertItem(t)
  BY <1>3, InsertGood
<1> QED
  BY <1>1, <1>2, <1>3 DEF NewItem

-----------------------------------------------------------------------------
(* The invariant.                                                          *)

LEMMA InitInv == Init => ListsInv
<1> SUFFICES ASSUME Init PROVE ListsInv
  OBVIOUS
<1>1. items = <<>> /\ samples = <<>> /\ at = 0 /\ decoded = 0 /\ pc = "section"
  BY DEF Init
<1>2. ListType
  BY <1>1 DEF ListType
<1>3. SettingType /\ PlaceType
  BY <1>1 DEF Init, SettingType, PlaceType
<1>4. OrderedBySecond /\ BehindLast /\ PairInv
  BY <1>1 DEF OrderedBySecond, BehindLast, PairInv
<1> QED
  BY <1>2, <1>3, <1>4 DEF ListsInv, TypeOK

LEMMA SamplesFacts ==
  ASSUME TypeOK, samples # <<>>
  PROVE  /\ Len(samples) \in Nat /\ Len(samples) >= 1
         /\ Latest \in Time /\ Head(samples) \in Time
         /\ Tail(samples) \in Seq(Time) /\ Len(Tail(samples)) = Len(samples) - 1
<1>1. samples \in Seq(Time)
  BY DEF TypeOK, ListType
<1>2. Len(samples) \in Nat /\ Len(samples) >= 1
  BY <1>1, EmptySeq, LenProperties
<1>3. Latest \in Time
  BY <1>1, <1>2, ElementOfSeq DEF Latest
<1> QED
  BY <1>1, <1>2, <1>3, HeadTailProperties

LEMMA GoodFromInv == ListsInv => TypeOK /\ ItemsGood
  BY DEF ListsInv, ItemsGood, TypeOK, ListType

LEMMA SectionInv ==
  ASSUME ListsInv, Section
  PROVE  ListsInv' /\ (attended /\ fault = "none" => fault' = "none")
<1>1. TypeOK /\ ItemsGood
  BY GoodFromInv
<1>2. /\ pc' = IF items' = <<>> THEN "section" ELSE "pair"
      /\ UNCHANGED <<kind, attended, decoded, time_tp, keep>>
  BY DEF Section, setting, lookup
<1>3. /\ samples' \in Seq(Time) /\ ItemsGood'
      /\ fault' \in {"none", "null pointer", "freed node"}
      /\ attended /\ items' # <<>> => at' # 0
      /\ attended /\ fault = "none" => fault' = "none"
  <2>0. /\ samples \in Seq(Time) /\ fault \in {"none", "null pointer", "freed node"}
        /\ attended \in BOOLEAN
        /\ attended /\ items # <<>> => at # 0
    BY <1>1 DEF TypeOK, ListType, PlaceType, SettingType, ListsInv, PairInv
  <2>1. CASE NothingToCompute \/ ComputeOnNothing
    <3>1. UNCHANGED <<samples, items, at>>
      BY <2>1 DEF NothingToCompute, ComputeOnNothing
    <3>2. ItemsGood'
      BY <1>1, <3>1 DEF ItemsGood, OrderedBySecond, BehindLast
    <3>3. /\ fault' \in {"none", "null pointer", "freed node"}
          /\ attended /\ fault = "none" => fault' = "none"
      BY <2>0, <2>1 DEF NothingToCompute, ComputeOnNothing, Inherited
    <3> QED
      BY <2>0, <3>1, <3>2, <3>3
  <2>2. CASE Compute
    <3>1. samples # <<>> /\ samples' = Tail(samples)
      BY <2>2 DEF Compute, Removed
    <3>2. samples' \in Seq(Time) /\ Latest \in Time
      BY <1>1, <3>1, SamplesFacts
    <3>3. CASE NewItem(Latest) /\ UNCHANGED fault
      <4>1. ItemsGood' /\ at' # 0
        BY <1>1, <3>2, <3>3, NewItemGood
      <4> QED
        BY <2>0, <3>2, <3>3, <4>1
    <3>4. CASE items # <<>> /\ at = 0 /\ fault' = "freed node" /\ UNCHANGED <<items, at>>
      <4>1. ItemsGood'
        BY <1>1, <3>4 DEF ItemsGood, OrderedBySecond, BehindLast
      <4> QED
        BY <2>0, <3>2, <3>4, <4>1
    <3> QED
      BY <2>2, <3>3, <3>4 DEF Compute
  <2> QED
    BY <2>1, <2>2 DEF Section
<1>4. TypeOK'
  <2>1. ListType'
    BY <1>3 DEF ItemsGood, ListType
  <2>2. SettingType'
    BY <1>1, <1>2 DEF TypeOK, SettingType
  <2>3. PlaceType'
    BY <1>1, <1>2, <1>3 DEF TypeOK, PlaceType
  <2> QED
    BY <2>1, <2>2, <2>3 DEF TypeOK
<1>5. PairInv'
  BY <1>2, <1>3 DEF PairInv
<1> QED
  BY <1>3, <1>4, <1>5 DEF ListsInv, ItemsGood

\* A lookup, of a packet that is due or not.
LEMMA PairKeeps ==
  ASSUME ListsInv, pc = "pair", NEW t \in Time, Pair(t), attended => InTime(t),
         pc' \in {"section", "pair"}
  PROVE  /\ ListsInv' /\ fault' = fault
         /\ at # 0 /\ Sec(t) - Sec(items[at]) <= OLD => at' # 0 /\ items'[at'] = items[at]
<1>1. TypeOK /\ ItemsGood /\ items # <<>>
  BY GoodFromInv DEF ListsInv, PairInv
<1>2. Freed(t) /\ Kept(t) /\ time_tp' = t
      /\ UNCHANGED <<kind, attended, samples, decoded, fault>>
  BY DEF Pair, setting
<1>3. /\ ItemsGood' /\ items' # <<>>
      /\ at # 0 /\ Sec(t) - Sec(items[at]) <= OLD => at' # 0 /\ items'[at'] = items[at]
  BY <1>1, <1>2, FreedGood
<1>4. keep' \in Time \cup {None}
  BY <1>1, <1>2, ItemFacts DEF Kept
<1>5. TypeOK'
  <2>1. ListType'
    BY <1>1, <1>2, <1>3 DEF ItemsGood, ListType, TypeOK
  <2>2. SettingType'
    BY <1>1, <1>2 DEF TypeOK, SettingType
  <2>3. PlaceType'
    BY <1>1, <1>2, <1>4 DEF TypeOK, PlaceType
  <2> QED
    BY <2>1, <2>2, <2>3 DEF TypeOK
<1>6. attended' => at' # 0
  <2>1. attended => at # 0
    BY <1>1 DEF ListsInv, PairInv
  <2> QED
    BY <1>2, <1>3, <2>1 DEF InTime
<1> QED
  BY <1>2, <1>3, <1>5, <1>6 DEF ListsInv, ItemsGood, PairInv

\* What a packet that is due finds.
LEMMA DueIsRecent ==
  ASSUME TypeOK, NEW t \in Time, at # 0, Due(t)
  PROVE  Sec(t) - Sec(items[at]) <= OLD /\ at \in DOMAIN items /\ Reached(t, at)
<1>1. at \in 1 .. Len(items) /\ at \in DOMAIN items /\ items[at] \in Time
  BY ItemFacts
<1>2. items[at] \in Nat /\ t \in Nat /\ Sec(items[at]) \in Nat /\ Sec(t) \in Nat /\ OLD \in Nat
  BY <1>1, SecFacts, ListsAssumption DEF ListsAssumption
<1>3. items[at] <= t => Sec(items[at]) <= Sec(t)
  BY <1>1, SecFacts
<1>4. Sec(t) < Sec(items[at])
  BY DEF Due
<1>5. Sec(t) - Sec(items[at]) <= OLD
  BY <1>2, <1>4
<1>6. items[at] >= t
  BY <1>2, <1>3, <1>4
<1> QED
  BY <1>1, <1>5, <1>6 DEF Reached

LEMMA StepInv ==
  ASSUME ListsInv, [Next]_vars
  PROVE  ListsInv' /\ (attended /\ fault = "none" => fault' = "none")
<1>1. CASE UNCHANGED vars
  <2>1. /\ UNCHANGED <<kind, attended, samples, decoded, items, at, pc, time_tp, keep>>
        /\ fault' = fault
    BY <1>1 DEF vars, setting, lookup
  <2> QED
    BY <2>1 DEF ListsInv, TypeOK, SettingType, ListType, PlaceType, OrderedBySecond,
                BehindLast, PairInv
<1>2. CASE Decode
  <2>1. PICK t \in Time : samples' = Append(samples, t)
    BY <1>2 DEF Decode
  <2>2. samples' \in Seq(Time)
    <3>1. samples \in Seq(Time)
      BY DEF ListsInv, TypeOK, ListType
    <3> QED
      BY <2>1, <3>1, AppendProperties
  <2>3. /\ UNCHANGED <<kind, attended, items, at, pc, time_tp, keep>>
        /\ fault' = fault /\ decoded' = decoded + 1
    BY <1>2 DEF Decode, setting, lookup
  <2>4. TypeOK'
    <3>1. ListType'
      BY <2>2, <2>3 DEF ListsInv, TypeOK, ListType
    <3>2. SettingType'
      BY <2>3 DEF ListsInv, TypeOK, SettingType
    <3>3. PlaceType'
      <4>1. PlaceType
        BY DEF ListsInv, TypeOK
      <4>2. decoded \in Nat
        BY <4>1 DEF PlaceType
      <4>3. decoded' \in Nat
        BY <2>3, <4>2
      <4> QED
        BY <2>3, <4>1, <4>3 DEF PlaceType
    <3> QED
      BY <3>1, <3>2, <3>3 DEF TypeOK
  <2> QED
    BY <2>3, <2>4 DEF ListsInv, OrderedBySecond, BehindLast, PairInv
<1>3. CASE Section
  BY <1>3, SectionInv
<1>4. CASE Take
  <2>1. PICK t \in Time : (attended => InTime(t)) /\ Pair(t)
    BY <1>4 DEF Take
  <2>2. pc = "pair" /\ pc' \in {"section", "pair"}
    BY <1>4 DEF Take
  <2> QED
    BY <2>1, <2>2, PairKeeps
<1>5. CASE TakeInvalid
  <2>1. /\ UNCHANGED <<kind, attended, samples, decoded, items, at, pc, time_tp, keep>>
        /\ fault' = "freed node" /\ at = 0 /\ pc = "pair"
    BY <1>5 DEF TakeInvalid, setting, lookup
  <2>2. ~attended
    BY <2>1 DEF ListsInv, PairInv
  <2>3. ListsInv'
    BY <2>1 DEF ListsInv, TypeOK, SettingType, ListType, PlaceType, OrderedBySecond,
                BehindLast, PairInv
  <2> QED
    BY <2>2, <2>3
<1>6. CASE RoundEnd
  <2>1. pc = "pair" /\ pc' = "section"
    BY <1>6 DEF RoundEnd
  <2>2. CASE \E t \in Time : (attended => InTime(t)) /\ Pair(t)
    <3>1. PICK t \in Time : (attended => InTime(t)) /\ Pair(t)
      BY <2>2
    <3> QED
      BY <2>1, <3>1, PairKeeps
  <2>3. CASE UNCHANGED <<setting, samples, decoded, items, at, lookup, fault>>
    <3>1. /\ UNCHANGED <<kind, attended, samples, decoded, items, at, time_tp, keep>>
          /\ fault' = fault
      BY <2>3 DEF setting, lookup
    <3> QED
      BY <2>1, <3>1 DEF ListsInv, TypeOK, SettingType, ListType, PlaceType,
                        OrderedBySecond, BehindLast, PairInv
  <2> QED
    BY <1>6, <2>2, <2>3 DEF RoundEnd
<1> QED
  BY <1>1, <1>2, <1>3, <1>4, <1>5, <1>6 DEF Next, Format_data, Stopped

LEMMA Invariance == Spec => []ListsInv
<1>1. Init => ListsInv
  BY InitInv
<1>2. ListsInv /\ [Next]_vars => ListsInv'
  BY StepInv
<1> QED
  BY <1>1, <1>2, PTL DEF Spec

-----------------------------------------------------------------------------
(* Theorems.                                                               *)

\* Type correctness: the lists hold times and q_p_last is an item or none.
THEOREM TypeCorrect == Spec => []TypeOK
<1>1. ListsInv => TypeOK
  BY DEF ListsInv
<1> QED
  BY <1>1, Invariance, PTL

\* Whatever order the samples of the access points come in, the items of a list
\* stay in the order of their seconds.
THEOREM ItemsAreOrdered == Spec => []OrderedBySecond
<1>1. ListsInv => OrderedBySecond
  BY DEF ListsInv
<1> QED
  BY <1>1, Invariance, PTL

\* In an attended collector no null pointer and no freed node is followed.
THEOREM AttendedIsSafe == Spec => []NoFault
<1>1. Init => NoFault
  BY DEF Init, NoFault
<1>2. ListsInv /\ NoFault /\ [Next]_vars => NoFault'
  <2>1. ASSUME [Next]_vars PROVE attended' = attended
    BY <2>1 DEF Next, vars, setting, Decode, Format_data, Section, Take, TakeInvalid,
                RoundEnd, Pair, Stopped
  <2> QED
    BY <2>1, StepInv DEF NoFault
<1> QED
  BY <1>1, <1>2, Invariance, PTL DEF Spec

\* A list of samples that has one always keeps one, so the decoder never appends
\* to a freed node.
THEOREM SamplesStay == Spec => NeverEmptied
<1>1. ListsInv /\ [Next]_vars => [samples # <<>> => samples' # <<>>]_vars
  <2> SUFFICES ASSUME ListsInv, Next, samples # <<>> PROVE samples' # <<>>
    BY DEF vars
  <2>1. CASE samples' = samples
    BY <2>1
  <2>2. CASE Decode
    BY <2>2, AppendProperties DEF Decode, ListsInv, TypeOK, ListType
  <2>3. CASE Compute
    <3>1. /\ Len(samples) \in Nat /\ Len(samples) >= 1
          /\ Latest \in Time /\ Head(samples) \in Time
          /\ Tail(samples) \in Seq(Time) /\ Len(Tail(samples)) = Len(samples) - 1
      BY SamplesFacts DEF ListsInv
    <3>2. Len(samples) # 1
      <4>1. CASE kind = "survey"
        <5>1. TRUE \in {Len(samples) > 1, FALSE}
          BY <2>3, <4>1 DEF Compute, Spans
        <5>2. Len(samples) > 1
          BY <5>1
        <5> QED
          BY <3>1, <5>2
      <4>2. CASE kind # "survey"
        <5>1. Latest - Head(samples) >= SPAN /\ SPAN \in Nat \ {0}
          BY <2>3, <4>2, ListsAssumption DEF Compute, Spans, ListsAssumption
        <5>2. Len(samples) = 1 => Latest = Head(samples)
          BY DEF Latest
        <5>3. Latest \in Nat
          BY <3>1, SecFacts
        <5> QED
          BY <5>1, <5>2, <5>3
      <4> QED
        BY <4>1, <4>2
    <3>3. samples' = Tail(samples)
      BY <2>3 DEF Compute, Removed
    <3>4. Len(samples') > 0
      BY <3>1, <3>2, <3>3
    <3> QED
      BY <3>4
  <2> QED
    BY <2>1, <2>2, <2>3 DEF Next, Format_data, Section, NothingToCompute, ComputeOnNothing,
                            Take, TakeInvalid, RoundEnd, Pair, Stopped, vars
<1> QED
  BY <1>1, Invariance, PTL DEF Spec, NeverEmptied

\* A packet that is taken is paired with an item of the earliest second that will
\* do, and never costs queue 3 or the survey its last item.
THEOREM TakenArePaired == Spec => TakenIsPaired
<1> DEFINE Paired == Take /\ Anchored =>
             /\ keep' # None
             /\ \A i \in DOMAIN items : Reached(time_tp', i) => Sec(keep') <= Sec(items[i])
             /\ at' # 0 /\ items'[at'] = items[at]
<1>1. ListsInv /\ [Next]_vars => [Paired]_vars
  <2> SUFFICES ASSUME ListsInv, Take, Anchored
               PROVE  /\ keep' # None
                      /\ \A i \in DOMAIN items :
                           Reached(time_tp', i) => Sec(keep') <= Sec(items[i])
                      /\ at' # 0 /\ items'[at'] = items[at]
    OBVIOUS
  <2>1. PICK t \in Time : at # 0 /\ Due(t) /\ (attended => InTime(t)) /\ Pair(t)
    BY DEF Take
  <2>2. TypeOK /\ OrderedBySecond /\ time_tp' = t /\ Kept(t)
    BY <2>1 DEF ListsInv, Pair
  <2>3. at \in DOMAIN items /\ Reached(t, at)
    BY <2>1, <2>2, DueIsRecent
  <2>4. PICK k \in DOMAIN items : /\ \A j \in 1 .. k - 1 : ~Reached(t, j)
                                  /\ keep' = items[k]
    BY <2>2, <2>3 DEF Kept
  <2>5. /\ DOMAIN items = 1 .. Len(items) /\ Len(items) \in Nat
        /\ \A i \in DOMAIN items : items[i] \in Time /\ items[i] \in Nat /\ Sec(items[i]) \in Nat
    BY <2>2, ItemFacts, SecFacts
  <2>6. keep' # None
    BY <2>4, <2>5 DEF None
  <2>7. ASSUME NEW i \in DOMAIN items, Reached(t, i) PROVE Sec(keep') <= Sec(items[i])
    <3>1. i \notin 1 .. k - 1
      BY <2>4, <2>7
    <3>2. i = k \/ k < i
      BY <2>5, <3>1
    <3>3. k < i => Sec(items[k]) <= Sec(items[i])
      BY <2>2 DEF OrderedBySecond
    <3> QED
      BY <2>4, <2>5, <3>2, <3>3
  <2>8. at' # 0 /\ items'[at'] = items[at]
    <3>1. Sec(t) - Sec(items[at]) <= OLD
      BY <2>1, DueIsRecent DEF ListsInv
    <3>2. pc = "pair" /\ pc' \in {"section", "pair"}
      BY DEF Take
    <3> QED
      BY <2>1, <3>1, <3>2, PairKeeps
  <2> QED
    BY <2>2, <2>6, <2>7, <2>8
<1> QED
  BY <1>1, Invariance, PTL DEF Spec, TakenIsPaired
=============================================================================

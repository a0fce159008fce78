------------------------- MODULE KernelTablesProofs -------------------------
(***************************************************************************)
(* Proofs about the two tables that the kernel modules keep, the flows of  *)
(* FlowTable in the switch and the windows of StationLinks in the access   *)
(* points, for any number of slots, flows, packets, stations and samples   *)
(* and any clock.                                                          *)
(*                                                                         *)
(* FlowTable: type correctness, what flow_count, which neither counts the  *)
(* flows nor the slots in use, can be trusted for, what the entries say of *)
(* their flows although they are made several times over, and whose        *)
(* entries a packet touches.                                               *)
(*                                                                         *)
(* StationLinks: type correctness, that a station has one window, that a   *)
(* window is a full stretch of samples in the order of their times in      *)
(* spite of what a takeover does to its tail, when a window changes hands, *)
(* and what a reader of iwp.link finds.                                    *)
(***************************************************************************)
EXTENDS FlowTable, StationLinks, FiniteSetTheorems, WellFoundedInduction, TLAPS

-----------------------------------------------------------------------------
(* FlowTable.                                                              *)

\* An index is its own remainder, and the size of the ring wraps to zero.
LEMMA ModWrap ==
  ASSUME NEW S \in Nat \ {0}
  PROVE  S % S = 0 /\ \A n \in 0 .. S - 1 : n % S = n
  OBVIOUS

\* A table whose counter is low and whose entries are not later than t and do
\* not count more packets than the flows have had.
NotLater(table, t) == \A s \in Slot : table[s].sec <= t
UsedHasFlow(table) == \A s \in Slot : table[s].sec # 0 => table[s].flow # None
WithinSeen(table, had) ==
  \A s \in Slot : table[s].flow # None => table[s].packets <= had[table[s].flow]
Good(table, count, over, t, had) ==
  /\ table \in [Slot -> Entry]
  /\ count \in Int /\ (~over => count <= Cardinality(InUse(table)))
  /\ NotLater(table, t) /\ UsedHasFlow(table) /\ WithinSeen(table, had)

\* The clock has started, so an entry that is made or refreshed is in use.
Clock == now \in Nat /\ now > 2 /\ now <= End /\ last \in Nat
Heard == latest \in Flow \cup {None} /\ seen \in [Flow -> Nat]
Counter == flow_count \in -Half .. Half - 1 /\ wrapped \in BOOLEAN

TableInv == /\ Good(flow_linger, flow_count, wrapped, now, seen)
            /\ Counter /\ Clock /\ Heard /\ OnlyRecentFlows

-----------------------------------------------------------------------------
LEMMA SlotFacts ==
  /\ 0 \in Slot /\ Slot \subseteq Nat
  /\ IsFiniteSet(Slot)
  /\ None \notin Flow
<1>1. IsFiniteSet(0 .. Slots - 1)
  BY FS_Interval, FlowAssumption DEF FlowAssumption
<1> QED
  BY <1>1, FlowAssumption DEF FlowAssumption, Slot

\* Sets of slots are finite, and a larger one has no fewer members.
LEMMA SlotSets ==
  ASSUME NEW S, S \subseteq Slot
  PROVE  /\ IsFiniteSet(S) /\ Cardinality(S) \in Nat
         /\ \A T \in SUBSET S : Cardinality(T) <= Cardinality(S)
  BY SlotFacts, FS_Subset, FS_CardinalityType

LEMMA EmptySlots == Cardinality({}) = 0
  BY FS_EmptySet

LEMMA UnusedTyped == Unused \in Entry /\ Unused.sec = 0 /\ Unused.flow = None
  BY DEF Unused, Entry

LEMMA NewTyped ==
  ASSUME now \in Nat, NEW f \in Flow
  PROVE  New(f) \in Entry /\ New(f).flow = f /\ New(f).sec = now /\ New(f).packets = 1
  BY DEF New, Entry

LEMMA RefreshedRecord ==
  ASSUME NEW f \in Flow, NEW a \in Nat, NEW p \in Nat, NEW t \in Nat,
         NEW e, e = [flow |-> f, sec |-> a, packets |-> p]
  PROVE  Refreshed(e, t) = [flow |-> f, sec |-> t, packets |-> p + 1]
<1>1. Refreshed(e, t) = [[e EXCEPT !.sec = t] EXCEPT !.packets = e.packets + 1]
  BY Zenon DEF Refreshed
<1>2. [e EXCEPT !.sec = t] = [flow |-> f, sec |-> t, packets |-> p]
  OBVIOUS
<1>3. e.packets = p
  OBVIOUS
<1> QED
  BY <1>1, <1>2, <1>3

\* A set of slots that is not empty has a first member.
LEMMA FirstSlot ==
  ASSUME NEW S, S \subseteq Slot, S # {}
  PROVE  \E s \in S : \A q \in S : s <= q
<1> DEFINE R == OpToRel(<, Nat)
<1>1. S \subseteq Nat
  BY SlotFacts
<1>2. \E s \in S : \A q \in S : ~ (<<q, s>> \in R)
  <2> HIDE DEF R
  <2> QED
    BY <1>1, WFMin, NatLessThanWellFounded DEF R
<1>3. PICK s \in S : \A q \in S : ~ (<<q, s>> \in R)
  BY <1>2
<1>4. ASSUME NEW q \in S PROVE s <= q
  <2>1. ~ (q < s)
    BY <1>1, <1>3 DEF OpToRel
  <2> QED
    BY <2>1, <1>1
<1> QED
  BY <1>4

\* The first entry of a flow that has one.
LEMMA FirstOfFlow ==
  ASSUME NEW f \in Flow, Of(f) # {}
  PROVE  FirstOf(f) \in Slot /\ flow_linger[FirstOf(f)].flow = f
<1>1. Of(f) \subseteq Slot
  BY DEF Of
<1>2. \E s \in Of(f) : \A q \in Of(f) : s <= q
  BY <1>1, FirstSlot
<1>3. FirstOf(f) \in Of(f)
  BY <1>2 DEF FirstOf
<1> QED
  BY <1>3 DEF Of

\* The unsigned age: right for the past, huge for an entry a second ahead.
LEMMA AgeValue ==
  ASSUME Clock, NEW sec \in Nat, sec <= now + 1, Age(sec) <= 2
  PROVE  sec <= now /\ now - sec <= 2
<1>1. Wrap \in Nat \ {0} /\ now < Wrap /\ now - sec \in Int /\ Wrap > 4
  BY FlowAssumption DEF FlowAssumption, Clock
<1>2. CASE sec <= now
  <2>1. now - sec \in 0 .. Wrap - 1
    BY <1>1, <1>2 DEF Clock
  <2> QED
    BY <2>1, <1>1, <1>2, ModWrap DEF Age
<1>3. CASE sec = now + 1
  <2>1. now - sec = -1
    BY <1>3 DEF Clock
  <2>2. (-1) % Wrap = Wrap - 1
    BY <1>1, Z3
  <2>3. Age(sec) = Wrap - 1
    BY <2>1, <2>2 DEF Age
  <2> QED
    BY <2>3, <1>1
<1> QED
  BY <1>2, <1>3 DEF Clock

\* An int has a value of its range.
LEMMA IntRange == ASSUME NEW n \in Int PROVE AsInt(n) \in -Half .. Half - 1
<1>1. 2 * Half \in Nat \ {0} /\ n + Half \in Int /\ Half \in Nat
  BY FlowAssumption DEF FlowAssumption
<1>2. \A a \in Int, b \in Nat \ {0} : a % b \in 0 .. b - 1
  OBVIOUS
<1>3. (n + Half) % (2 * Half) \in 0 .. 2 * Half - 1
  BY <1>1, <1>2
<1> QED
  BY <1>1, <1>3 DEF AsInt

-----------------------------------------------------------------------------
\* Deleting what is outdated keeps the table good and leaves only entries that
\* were refreshed in the last two seconds.
LEMMA ExpireGood ==
  ASSUME NEW table, NEW count, NEW over \in BOOLEAN, NEW had, Clock,
         Good(table, count, over, now + 1, had), Expire(table, count, over)
  PROVE  /\ Good(flow_linger', flow_count', wrapped', now, had) /\ Counter'
         /\ \A s \in InUse(flow_linger') : now - flow_linger'[s].sec <= 2
<1> DEFINE Old == Outdated(table)
           Kept == InUse(table) \ Old
<1>1. /\ table \in [Slot -> Entry] /\ count \in Int
      /\ ~over => count <= Cardinality(InUse(table))
      /\ NotLater(table, now + 1) /\ UsedHasFlow(table) /\ WithinSeen(table, had)
  BY DEF Good
<1>2. /\ flow_linger' = [s \in Slot |-> IF s \in Old THEN Unused ELSE table[s]]
      /\ flow_count' = AsInt(count - Cardinality(Old))
      /\ wrapped' = (over \/ AsInt(count - Cardinality(Old)) # count - Cardinality(Old))
  BY DEF Expire, Remaining
<1>3. flow_linger' \in [Slot -> Entry]
  BY <1>1, <1>2, UnusedTyped
<1>4. Old \subseteq Slot /\ InUse(table) \subseteq Slot
  BY DEF Outdated, InUse
<1>5. InUse(flow_linger') = Kept
  BY <1>1, <1>2, UnusedTyped DEF InUse
<1>6. /\ flow_count' \in Int /\ Counter'
      /\ ~wrapped' => flow_count' <= Cardinality(InUse(flow_linger'))
  <2>1. /\ Cardinality(Kept) = Cardinality(InUse(table)) - Cardinality(InUse(table) \cap Old)
        /\ Cardinality(InUse(table) \cap Old) <= Cardinality(Old)
        /\ Cardinality(InUse(table) \cap Old) \in Nat
        /\ Cardinality(Old) \in Nat /\ Cardinality(InUse(table)) \in Nat
    <3> HIDE DEF Old
    <3> QED
      BY <1>4, SlotSets, FS_Difference
  <2> HIDE DEF Old, Kept
  <2>2. AsInt(count - Cardinality(Old)) \in -Half .. Half - 1
    BY <2>1, <1>1, IntRange
  <2>3. Counter' /\ flow_count' \in Int
    BY <2>2, <1>2, FlowAssumption DEF Counter, FlowAssumption
  <2>4. ASSUME ~wrapped' PROVE flow_count' <= Cardinality(InUse(flow_linger'))
    <3>1. ~over /\ flow_count' = count - Cardinality(Old)
      BY <2>4, <1>2
    <3> QED
      BY <2>1, <3>1, <1>1, <1>5
  <2> QED
    BY <2>3, <2>4
<1>7. ASSUME NEW s \in Slot, s \notin Old
      PROVE  table[s].sec <= now /\ now - table[s].sec <= 2
  <2>1. table[s].sec \in Nat /\ table[s].sec <= now + 1
    BY <1>1 DEF Entry, NotLater
  <2>2. Age(table[s].sec) <= 2
    <3>1. ~ (Age(table[s].sec) > 2)
      BY <1>7 DEF Outdated
    <3>2. Age(table[s].sec) \in Int
      <4>1. now - table[s].sec \in Int /\ Wrap \in Nat \ {0}
        BY <2>1, FlowAssumption DEF Clock, FlowAssumption
      <4> QED
        BY <4>1 DEF Age
    <3> QED
      BY <3>1, <3>2
  <2> QED
    BY <2>1, <2>2, AgeValue
<1>8. NotLater(flow_linger', now)
  BY <1>2, <1>7, UnusedTyped DEF NotLater, Clock
<1>9. UsedHasFlow(flow_linger') /\ WithinSeen(flow_linger', had)
  BY <1>1, <1>2, UnusedTyped DEF UsedHasFlow, WithinSeen
<1>10. \A s \in InUse(flow_linger') : now - flow_linger'[s].sec <= 2
  <2>1. ASSUME NEW s \in Kept PROVE now - flow_linger'[s].sec <= 2
    <3>1. s \in Slot /\ s \notin Old
      BY <1>4
    <3> QED
      BY <3>1, <1>7, <1>2
  <2> QED
    BY <2>1, <1>5
<1> QED
  BY <1>3, <1>6, <1>8, <1>9, <1>10 DEF Good

\* What the handler of a packet does once the table it is about to expire is good.
LEMMA PacketGood ==
  ASSUME TableInv, NEW f \in Flow, Receive(f), NEW table, NEW count, NEW over \in BOOLEAN,
         Good(table, count, over, now + 1, seen'), Expire(table, count, over),
         now' \in {now, now + 1}, now' <= End
  PROVE  TableInv'
<1>1. Clock /\ seen \in [Flow -> Nat]
  BY DEF TableInv, Heard
<1>2. last' = now /\ latest' = f /\ seen' = [seen EXCEPT ![f] = @ + 1]
  BY DEF Receive
<1>3. Clock' /\ Heard'
  BY <1>1, <1>2 DEF Clock, Heard
<1>4. /\ Good(flow_linger', flow_count', wrapped', now, seen') /\ Counter'
      /\ \A s \in InUse(flow_linger') : now - flow_linger'[s].sec <= 2
  BY <1>1, ExpireGood
<1>5. OnlyRecentFlows'
  BY <1>4, <1>2 DEF OnlyRecentFlows
<1>6. NotLater(flow_linger', now')
  <2>1. now \in Nat /\ now <= now'
    BY <1>1 DEF Clock
  <2>2. \A s \in Slot : flow_linger'[s].sec <= now /\ flow_linger'[s].sec \in Nat
    BY <1>4 DEF Good, NotLater, Entry
  <2> QED
    BY <2>1, <2>2, <1>3 DEF NotLater, Clock
<1>7. Good(flow_linger, flow_count, wrapped, now, seen)'
  BY <1>4, <1>6 DEF Good, NotLater, UsedHasFlow, WithinSeen, InUse
<1> QED
  BY <1>3, <1>4, <1>5, <1>7 DEF TableInv

\* The counts that were within the packets seen still are, after one more.
LEMMA SeenGrows ==
  ASSUME TableInv, NEW f \in Flow, Receive(f)
  PROVE  /\ WithinSeen(flow_linger, seen') /\ seen'[f] = seen[f] + 1
         /\ flow_linger \in [Slot -> Entry] /\ now \in Nat /\ now > 2
         /\ seen \in [Flow -> Nat] /\ seen' \in [Flow -> Nat]
<1>1. /\ seen \in [Flow -> Nat] /\ flow_linger \in [Slot -> Entry]
      /\ WithinSeen(flow_linger, seen) /\ now \in Nat /\ now > 2
  BY DEF TableInv, Heard, Good, Clock
<1>2. seen' = [seen EXCEPT ![f] = @ + 1]
  BY DEF Receive
<1>3. ASSUME NEW s \in Slot, flow_linger[s].flow # None
      PROVE  flow_linger[s].packets <= seen'[flow_linger[s].flow]
  <2>1. flow_linger[s].flow \in Flow /\ flow_linger[s].packets \in Nat
    BY <1>1, <1>3 DEF Entry
  <2>2. flow_linger[s].packets <= seen[flow_linger[s].flow]
    BY <1>1, <1>3 DEF WithinSeen
  <2> QED
    BY <1>1, <1>2, <2>1, <2>2
<1> QED
  BY <1>1, <1>2, <1>3 DEF WithinSeen

LEMMA StartKeeps ==
  ASSUME TableInv, NEW f \in Flow, StartTable(f)
  PROVE  TableInv'
<1> DEFINE table == [flow_linger EXCEPT ![0] = New(f)]
<1>1. Receive(f) /\ Expire(table, 1, FALSE) /\ now' = now
  BY DEF StartTable
<1>2. /\ WithinSeen(flow_linger, seen') /\ seen'[f] = seen[f] + 1 /\ seen[f] \in Nat
      /\ flow_linger \in [Slot -> Entry] /\ now \in Nat /\ now > 2
  BY <1>1, SeenGrows
<1>3. NotLater(flow_linger, now) /\ UsedHasFlow(flow_linger) /\ now <= End
  BY DEF TableInv, Good, Clock
<1>4. New(f) \in Entry /\ New(f).flow = f /\ New(f).sec = now /\ New(f).packets = 1
  BY <1>2, NewTyped
<1>5. table \in [Slot -> Entry] /\ table[0] = New(f)
      /\ \A s \in Slot : s # 0 => table[s] = flow_linger[s]
  BY <1>2, <1>4, SlotFacts
<1> HIDE DEF table
<1>6. 1 <= Cardinality(InUse(table))
  <2>1. 0 \in InUse(table) /\ InUse(table) \subseteq Slot
    BY <1>2, <1>4, <1>5, SlotFacts DEF InUse
  <2> QED
    BY <2>1, SlotSets, FS_EmptySet
<1>7. NotLater(table, now + 1)
  <2>1. ASSUME NEW s \in Slot PROVE table[s].sec <= now + 1
    <3>1. table[s].sec \in Nat /\ table[s].sec <= now
      BY <1>2, <1>3, <1>4, <1>5 DEF NotLater, Entry
    <3> QED
      BY <3>1, <1>2
  <2> QED
    BY <2>1 DEF NotLater
<1>8. UsedHasFlow(table)
  BY <1>3, <1>4, <1>5, SlotFacts DEF UsedHasFlow
<1>9. WithinSeen(table, seen')
  BY <1>2, <1>4, <1>5 DEF WithinSeen
<1>10. Good(table, 1, FALSE, now + 1, seen')
  BY <1>5, <1>6, <1>7, <1>8, <1>9 DEF Good
<1> QED
  BY <1>1, <1>2, <1>3, <1>10, PacketGood

LEMMA RefreshKeeps ==
  ASSUME TableInv, NEW f \in Flow, Refresh(f)
  PROVE  TableInv'
<1> DEFINE at == FirstOf(f)
           table == [flow_linger EXCEPT ![at] = Refreshed(@, now')]
<1>1. /\ Receive(f) /\ Expire(table, flow_count, wrapped)
      /\ now' \in {now, now + 1} /\ now' <= End /\ Of(f) # {}
  BY DEF Refresh
<1>2. /\ WithinSeen(flow_linger, seen') /\ seen'[f] = seen[f] + 1 /\ seen[f] \in Nat
      /\ flow_linger \in [Slot -> Entry] /\ now \in Nat /\ now > 2
  BY <1>1, SeenGrows
<1>3. /\ NotLater(flow_linger, now) /\ UsedHasFlow(flow_linger)
      /\ WithinSeen(flow_linger, seen) /\ flow_count \in Int /\ wrapped \in BOOLEAN
      /\ ~wrapped => flow_count <= Cardinality(InUse(flow_linger))
  BY DEF TableInv, Good, Counter
<1>4. at \in Slot /\ flow_linger[at].flow = f
  BY <1>1, FirstOfFlow
<1>5. flow_linger[at] \in Entry /\ now' \in Nat /\ now' > 2 /\ now' <= now + 1
  BY <1>1, <1>2, <1>4
<1> HIDE DEF at
<1>6. /\ Refreshed(flow_linger[at], now') \in Entry
      /\ Refreshed(flow_linger[at], now').flow = f
      /\ Refreshed(flow_linger[at], now').sec = now'
      /\ Refreshed(flow_linger[at], now').packets = flow_linger[at].packets + 1
  <2>1. /\ flow_linger[at].flow \in Flow \cup {None}
        /\ flow_linger[at].sec \in Nat /\ flow_linger[at].packets \in Nat
        /\ flow_linger[at] = [flow |-> flow_linger[at].flow, sec |-> flow_linger[at].sec,
                              packets |-> flow_linger[at].packets]
    BY <1>5 DEF Entry
  <2>2. Refreshed(flow_linger[at], now')
          = [flow |-> f, sec |-> now', packets |-> flow_linger[at].packets + 1]
    BY <2>1, <1>4, <1>5, RefreshedRecord
  <2> QED
    BY <2>1, <2>2, <1>5 DEF Entry
<1>7. table \in [Slot -> Entry] /\ table[at] = Refreshed(flow_linger[at], now')
      /\ \A s \in Slot : s # at => table[s] = flow_linger[s]
  BY <1>2, <1>4, <1>6
<1> HIDE DEF table
<1>8. ~wrapped => flow_count <= Cardinality(InUse(table))
  <2>1. InUse(flow_linger) \subseteq InUse(table) /\ InUse(table) \subseteq Slot
    BY <1>4, <1>5, <1>6, <1>7 DEF InUse
  <2>2. /\ Cardinality(InUse(flow_linger)) <= Cardinality(InUse(table))
        /\ Cardinality(InUse(flow_linger)) \in Nat /\ Cardinality(InUse(table)) \in Nat
    BY <2>1, SlotSets
  <2> QED
    BY <2>2, <1>3
<1>9. NotLater(table, now + 1)
  <2>1. ASSUME NEW s \in Slot PROVE table[s].sec <= now + 1
    <3>1. CASE s = at
      BY <3>1, <1>5, <1>6, <1>7
    <3>2. CASE s # at
      <4>1. table[s].sec \in Nat /\ table[s].sec <= now
        BY <3>2, <1>2, <1>3, <1>7 DEF NotLater, Entry
      <4> QED
        BY <4>1, <1>2
    <3> QED
      BY <3>1, <3>2
  <2> QED
    BY <2>1 DEF NotLater
<1>10. UsedHasFlow(table)
  BY <1>3, <1>4, <1>6, <1>7, SlotFacts DEF UsedHasFlow
<1>11. WithinSeen(table, seen')
  <2>1. flow_linger[at].packets <= seen[f] /\ flow_linger[at].packets \in Nat
    BY <1>3, <1>4, <1>5, SlotFacts DEF WithinSeen, Entry
  <2>2. flow_linger[at].packets + 1 <= seen'[f]
    BY <2>1, <1>2
  <2> QED
    BY <2>2, <1>2, <1>4, <1>6, <1>7 DEF WithinSeen
<1>12. Good(table, flow_count, wrapped, now + 1, seen')
  BY <1>3, <1>7, <1>8, <1>9, <1>10, <1>11 DEF Good
<1> QED
  BY <1>1, <1>3, <1>12, PacketGood

LEMMA InsertKeeps ==
  ASSUME TableInv, NEW f \in Flow, Insert(f)
  PROVE  TableInv'
<1> DEFINE targets == {s \in Slot : Target(s)}
           table == [s \in Slot |-> IF s \in targets THEN New(f) ELSE flow_linger[s]]
           count == flow_count + Cardinality(targets)
<1>1. Receive(f) /\ Expire(table, count, wrapped) /\ now' = now
  BY DEF Insert
<1>2. /\ WithinSeen(flow_linger, seen') /\ seen'[f] = seen[f] + 1 /\ seen[f] \in Nat
      /\ flow_linger \in [Slot -> Entry] /\ now \in Nat /\ now > 2
  BY <1>1, SeenGrows
<1>3. /\ NotLater(flow_linger, now) /\ UsedHasFlow(flow_linger)
      /\ flow_count \in Int /\ now <= End /\ wrapped \in BOOLEAN
      /\ ~wrapped => flow_count <= Cardinality(InUse(flow_linger))
  BY DEF TableInv, Good, Clock, Counter
<1>4. New(f) \in Entry /\ New(f).flow = f /\ New(f).sec = now /\ New(f).packets = 1
  BY <1>2, NewTyped
<1>5. targets \subseteq Slot /\ \A s \in Slot : s \in targets <=> flow_linger[s].sec = 0
  BY DEF Target
<1> HIDE DEF targets
<1>6. table \in [Slot -> Entry] /\ (\A s \in targets : table[s] = New(f))
      /\ \A s \in Slot : s \notin targets => table[s] = flow_linger[s]
  BY <1>2, <1>4, <1>5
<1> HIDE DEF table
<1>7. count \in Int /\ (~wrapped => count <= Cardinality(InUse(table)))
  <2>1. /\ InUse(table) = InUse(flow_linger) \cup targets
        /\ InUse(flow_linger) \cap targets = {}
        /\ InUse(flow_linger) \subseteq Slot
    BY <1>2, <1>4, <1>5, <1>6 DEF InUse
  <2>2. /\ IsFiniteSet(InUse(flow_linger)) /\ IsFiniteSet(targets)
        /\ Cardinality(InUse(flow_linger)) \in Nat /\ Cardinality(targets) \in Nat
    BY <2>1, <1>5, SlotSets
  <2>3. Cardinality(InUse(flow_linger) \cup targets)
          = Cardinality(InUse(flow_linger)) + Cardinality(targets) - 0
    BY <2>1, <2>2, FS_Union, EmptySlots
  <2> QED
    BY <2>1, <2>2, <2>3, <1>3
<1> HIDE DEF count
<1>8. NotLater(table, now + 1)
  <2>1. ASSUME NEW s \in Slot PROVE table[s].sec <= now + 1
    <3>1. table[s].sec \in Nat /\ table[s].sec <= now
      BY <1>2, <1>3, <1>4, <1>6 DEF NotLater, Entry
    <3> QED
      BY <3>1, <1>2
  <2> QED
    BY <2>1 DEF NotLater
<1>9. UsedHasFlow(table)
  BY <1>3, <1>4, <1>6, SlotFacts DEF UsedHasFlow
<1>10. WithinSeen(table, seen')
  BY <1>2, <1>4, <1>6 DEF WithinSeen
<1>11. Good(table, count, wrapped, now + 1, seen')
  BY <1>6, <1>7, <1>8, <1>9, <1>10 DEF Good
<1> QED
  BY <1>1, <1>2, <1>3, <1>11, PacketGood

-----------------------------------------------------------------------------
LEMMA TableStarts == Init => TableInv
<1> SUFFICES ASSUME Init PROVE TableInv
  OBVIOUS
<1>1. /\ flow_linger = [s \in Slot |-> Unused] /\ flow_count = 0 /\ wrapped = FALSE
      /\ now = Start /\ last = 0 /\ latest = None /\ seen = [f \in Flow |-> 0]
  BY DEF Init
<1>2. flow_linger \in [Slot -> Entry] /\ \A s \in Slot : flow_linger[s] = Unused
  BY <1>1, UnusedTyped
<1>3. Clock /\ Heard
  BY <1>1, FlowAssumption DEF Clock, Heard, FlowAssumption
<1>4. InUse(flow_linger) = {}
  BY <1>2, UnusedTyped DEF InUse
<1>5. OnlyRecentFlows
  BY <1>4 DEF OnlyRecentFlows
<1>6. NotLater(flow_linger, now) /\ UsedHasFlow(flow_linger) /\ WithinSeen(flow_linger, seen)
  BY <1>2, <1>3, UnusedTyped DEF NotLater, UsedHasFlow, WithinSeen, Clock
<1>7. flow_count \in Int /\ flow_count <= Cardinality(InUse(flow_linger))
  BY <1>1, <1>4, EmptySlots
<1>8. Counter
  <2>1. Half \in Nat /\ Half > 0
    BY FlowAssumption DEF FlowAssumption
  <2>2. 0 \in -Half .. Half - 1 /\ FALSE \in BOOLEAN
    BY <2>1
  <2> QED
    BY <1>1, <2>2, Zenon DEF Counter
<1> QED
  BY <1>2, <1>3, <1>5, <1>6, <1>7, <1>8 DEF TableInv, Good

LEMMA TickKeeps == ASSUME TableInv, Tick PROVE TableInv'
<1>1. /\ now < End /\ now' = now + 1 /\ flow_linger' = flow_linger
      /\ flow_count' = flow_count /\ wrapped' = wrapped
      /\ last' = last /\ latest' = latest /\ seen' = seen
  BY DEF Tick
<1>2. Clock' /\ Heard'
  BY <1>1, FlowAssumption DEF TableInv, Clock, Heard, FlowAssumption
<1>3. OnlyRecentFlows'
  BY <1>1 DEF TableInv, OnlyRecentFlows, InUse
<1>4. NotLater(flow_linger, now)'
  <2>1. ASSUME NEW s \in Slot PROVE flow_linger[s].sec <= now + 1
    <3>1. flow_linger[s].sec \in Nat /\ flow_linger[s].sec <= now /\ now \in Nat
      BY DEF TableInv, Good, NotLater, Entry, Clock
    <3> QED
      BY <3>1
  <2> QED
    BY <2>1, <1>1 DEF NotLater
<1>5. Good(flow_linger, flow_count, wrapped, now, seen)' /\ Counter'
  BY <1>1, <1>4 DEF TableInv, Good, Counter, UsedHasFlow, WithinSeen, InUse
<1> QED
  BY <1>2, <1>3, <1>5 DEF TableInv

LEMMA TableStays == TableInv /\ [Next]_vars => TableInv'
<1> SUFFICES ASSUME TableInv, [Next]_vars PROVE TableInv'
  OBVIOUS
<1>1. CASE Tick
  BY <1>1, TickKeeps
<1>2. ASSUME NEW f \in Flow, StartTable(f) PROVE TableInv'
  BY <1>2, StartKeeps
<1>3. ASSUME NEW f \in Flow, Refresh(f) PROVE TableInv'
  BY <1>3, RefreshKeeps
<1>4. ASSUME NEW f \in Flow, Insert(f) PROVE TableInv'
  BY <1>4, InsertKeeps
<1>5. CASE UNCHANGED vars
  BY <1>5 DEF vars, TableInv, Good, Counter, Clock, Heard, OnlyRecentFlows, NotLater, UsedHasFlow,
     WithinSeen, InUse
<1> QED
  BY <1>1, <1>2, <1>3, <1>4, <1>5 DEF Next, Packet

\* Slots hold entries, flow_count is an int: flow_linger and flow_count of flow.c as
\* the packet handler leaves them.
THEOREM TypeCorrect == Spec => []TypeOK
<1>1. TableInv => TypeOK
  BY DEF TableInv, Good, Counter, Clock, Heard, TypeOK
<1> QED
  BY TableStarts, TableStays, <1>1, PTL DEF Spec

\* flow_count, which the last loop lowers for every unused slot and the insertion
\* raises for every copy, never exceeds the slots in use before it wraps.
THEOREM CountLow == Spec => []CountIsLow
<1>1. TableInv => CountIsLow
  BY DEF TableInv, Good, CountIsLow
<1> QED
  BY TableStarts, TableStays, <1>1, PTL DEF Spec

\* After the last loop nothing in the table is older than two seconds, in spite of
\* the wrap of the unsigned difference and of the second clock reading.
THEOREM RecentFlows == Spec => []OnlyRecentFlows
<1>1. TableInv => OnlyRecentFlows
  BY DEF TableInv
<1> QED
  BY TableStarts, TableStays, <1>1, PTL DEF Spec

\* The packets an entry reports were all packets of its flow, whichever of the
\* copies the search finds.
THEOREM Undercounted == Spec => []NeverOvercounted
<1>1. TableInv => NeverOvercounted
  BY DEF TableInv, Good, UsedHasFlow, WithinSeen, NeverOvercounted, InUse
<1> QED
  BY TableStarts, TableStays, <1>1, PTL DEF Spec

-----------------------------------------------------------------------------
(* Whose entries a packet touches.                                         *)

\* The unsigned age of an entry that is not later than the clock.
LEMMA AgeOfPast ==
  ASSUME Clock, NEW sec \in Nat, sec <= now
  PROVE  Age(sec) = now - sec /\ Age(sec) \in Nat
<1>1. Wrap \in Nat \ {0} /\ now - sec \in 0 .. Wrap - 1
  BY FlowAssumption DEF FlowAssumption, Clock
<1> QED
  BY <1>1, ModWrap DEF Age

\* An entry of the table is not later than the clock.
LEMMA EntryFacts ==
  ASSUME TableInv, NEW s \in Slot
  PROVE  /\ Clock /\ flow_linger[s] \in Entry
         /\ flow_linger[s].sec \in Nat /\ flow_linger[s].sec <= now
<1>1. Clock /\ flow_linger \in [Slot -> Entry] /\ NotLater(flow_linger, now)
  BY DEF TableInv, Good
<1>2. flow_linger[s] \in Entry
  BY <1>1
<1> QED
  BY <1>1, <1>2 DEF NotLater, Entry

\* The last loop leaves an entry or deletes it for its age.
LEMMA ExpireLeaves ==
  ASSUME NEW table, NEW count, NEW over, Expire(table, count, over), NEW s \in Slot
  PROVE  /\ flow_linger'[s] = table[s] \/ Age(table[s].sec) > 2
         /\ ~(Age(table[s].sec) > 2) => flow_linger'[s] = table[s]
  BY DEF Expire, Outdated

\* What the handler has not written to stays, or goes for its age.
LEMMA UntouchedStays ==
  ASSUME TableInv, NEW table, NEW count, NEW over, Expire(table, count, over), NEW s \in Slot,
         table[s] = flow_linger[s]
  PROVE  flow_linger'[s] = flow_linger[s] \/ now - flow_linger[s].sec > 2
<1>1. flow_linger'[s] = flow_linger[s] \/ Age(flow_linger[s].sec) > 2
  BY ExpireLeaves
<1>2. Age(flow_linger[s].sec) = now - flow_linger[s].sec
  BY EntryFacts, AgeOfPast
<1> QED
  BY <1>1, <1>2

\* What it has just written is not old.
LEMMA WrittenStays ==
  ASSUME TableInv, NEW table, NEW count, NEW over, Expire(table, count, over), NEW s \in Slot,
         table[s].sec = now
  PROVE  flow_linger'[s] = table[s]
<1>1. Clock /\ now \in Nat
  BY DEF TableInv, Clock
<1>2. Age(table[s].sec) = 0
  BY <1>1, AgeOfPast
<1> QED
  BY <1>2, ExpireLeaves

LEMMA PacketTouches ==
  ASSUME TableInv, NEW f \in Flow, Packet(f), NEW s \in InUse(flow_linger)
  PROVE  \/ flow_linger'[s] = flow_linger[s]
         \/ flow_linger[s].flow = latest'
         \/ last' - flow_linger[s].sec > 2
         \/ s = 0 /\ flow_count = 0
<1>1. s \in Slot /\ flow_linger[s].sec # 0 /\ flow_linger \in [Slot -> Entry]
  BY DEF InUse, TableInv, Good
<1>2. last' = now /\ latest' = f
  BY DEF Packet, StartTable, Refresh, Insert, Receive
<1>3. CASE StartTable(f)
  <2>1. /\ flow_count = 0 /\ Expire([flow_linger EXCEPT ![0] = New(f)], 1, FALSE)
        /\ s # 0 => [flow_linger EXCEPT ![0] = New(f)][s] = flow_linger[s]
    BY <1>1, <1>3 DEF StartTable
  <2> QED
    BY <1>1, <1>2, <2>1, UntouchedStays
<1>4. CASE Refresh(f)
  <2> DEFINE t == [flow_linger EXCEPT ![FirstOf(f)] = Refreshed(@, now')]
  <2>1. Expire(t, flow_count, wrapped) /\ Of(f) # {}
    BY <1>4 DEF Refresh
  <2>2. CASE s = FirstOf(f)
    BY <1>2, <2>1, <2>2, FirstOfFlow
  <2>3. CASE s # FirstOf(f)
    <3>1. t[s] = flow_linger[s]
      BY <1>1, <2>3
    <3> HIDE DEF t
    <3> QED
      BY <1>1, <1>2, <2>1, <3>1, UntouchedStays
  <2> QED
    BY <2>2, <2>3
<1>5. CASE Insert(f)
  <2> DEFINE targets == {q \in Slot : Target(q)}
             t == [q \in Slot |-> IF q \in targets THEN New(f) ELSE flow_linger[q]]
  <2>1. Expire(t, flow_count + Cardinality(targets), wrapped)
    BY <1>5 DEF Insert
  <2>2. t[s] = flow_linger[s]
    BY <1>1 DEF Target
  <2> HIDE DEF targets, t
  <2> QED
    BY <1>1, <1>2, <2>1, <2>2, UntouchedStays
<1> QED
  BY <1>3, <1>4, <1>5 DEF Packet

LEMMA PacketTracks ==
  ASSUME TableInv, NEW f \in Flow, Packet(f)
  PROVE  \/ \E s \in Slot : flow_linger'[s].flow = f
         \/ Of(f) = {} /\ InUse(flow_linger) = Slot
         \/ now' # now
<1>1. flow_linger \in [Slot -> Entry] /\ now \in Nat
  BY DEF TableInv, Good, Clock
<1>2. New(f).flow = f /\ New(f).sec = now
  BY <1>1, NewTyped
<1>3. CASE StartTable(f)
  <2>1. /\ Expire([flow_linger EXCEPT ![0] = New(f)], 1, FALSE)
        /\ [flow_linger EXCEPT ![0] = New(f)][0] = New(f)
    BY <1>1, <1>3, SlotFacts DEF StartTable
  <2> QED
    BY <1>2, <2>1, WrittenStays, SlotFacts
<1>4. CASE Refresh(f) /\ now' = now
  <2> DEFINE at == FirstOf(f)
             t == [flow_linger EXCEPT ![at] = Refreshed(@, now')]
  <2>1. Expire(t, flow_count, wrapped) /\ at \in Slot /\ flow_linger[at].flow = f
    BY <1>4, FirstOfFlow DEF Refresh
  <2>2. t[at] = Refreshed(flow_linger[at], now)
    BY <1>1, <1>4, <2>1
  <2>3. t[at].flow = f /\ t[at].sec = now
    <3>1. flow_linger[at] \in Entry
      BY <1>1, <2>1
    <3>2. /\ flow_linger[at].sec \in Nat /\ flow_linger[at].packets \in Nat
          /\ flow_linger[at] = [flow |-> f, sec |-> flow_linger[at].sec,
                                packets |-> flow_linger[at].packets]
      BY <2>1, <3>1 DEF Entry
    <3> HIDE DEF at
    <3>3. Refreshed(flow_linger[at], now)
            = [flow |-> f, sec |-> now, packets |-> flow_linger[at].packets + 1]
      BY <1>1, <3>2, RefreshedRecord
    <3> QED
      BY <2>2, <3>3
  <2> HIDE DEF t, at
  <2> QED
    BY <2>1, <2>3, WrittenStays
<1>5. CASE Insert(f) /\ InUse(flow_linger) # Slot
  <2> DEFINE targets == {q \in Slot : Target(q)}
             t == [q \in Slot |-> IF q \in targets THEN New(f) ELSE flow_linger[q]]
  <2>1. Expire(t, flow_count + Cardinality(targets), wrapped)
    BY <1>5 DEF Insert
  <2>2. PICK s \in Slot : flow_linger[s].sec = 0
    BY <1>5 DEF InUse
  <2>3. t[s] = New(f)
    BY <2>2 DEF Target
  <2> HIDE DEF targets, t
  <2> QED
    BY <1>2, <2>1, <2>3, WrittenStays
<1> QED
  BY <1>3, <1>4, <1>5 DEF Packet, Insert

\* A packet takes no entry from another flow that was alive in the last two
\* seconds, for any number of slots and flows: but for slot 0 of a table whose
\* flow_count has come down to zero.
THEOREM RecentFlowsStay == Spec => RecentStays
<1> DEFINE Step == \A s \in InUse(flow_linger) :
                     \/ flow_linger'[s] = flow_linger[s]
                     \/ flow_linger[s].flow = latest'
                     \/ last' - flow_linger[s].sec > 2
                     \/ s = 0 /\ flow_count = 0
<1>1. TableInv /\ [Next]_vars => [Step]_vars
  <2>1. Tick => Step
    BY DEF Tick
  <2>2. TableInv => \A f \in Flow : Packet(f) => Step
    BY PacketTouches
  <2> QED
    BY <2>1, <2>2 DEF Next
<1>2. RecentStays <=> [][Step]_vars
  BY DEF RecentStays
<1> HIDE DEF Step
<1> QED
  BY <1>1, <1>2, TableStarts, TableStays, PTL DEF Spec

\* The flow of a packet has an entry when the handler returns, unless the table was
\* full of others or the clock went on between its two readings.
THEOREM PacketsAreTracked == Spec => PacketIsTracked
<1> DEFINE Step == \A f \in Flow : Packet(f) =>
                     \/ \E s \in Slot : flow_linger'[s].flow = f
                     \/ Of(f) = {} /\ InUse(flow_linger) = Slot
                     \/ now' # now
<1>1. TableInv => Step
  BY PacketTracks
<1>2. PacketIsTracked <=> [][Step]_vars
  BY DEF PacketIsTracked
<1> HIDE DEF Step
<1> QED
  BY <1>1, <1>2, TableStarts, TableStays, PTL DEF Spec

-----------------------------------------------------------------------------
(* StationLinks.  The ring of a window, and the clock.                     *)

LEMMA WrapOnce ==
  ASSUME NEW S \in Nat \ {0}, NEW n \in 0 .. S + S - 1
  PROVE  n % S = IF n < S THEN n ELSE n - S
<1>1. CASE n < S
  BY <1>1
<1>2. CASE ~ (n < S)
  <2> DEFINE r == n - S
  <2>1. r \in 0 .. S - 1 /\ n = S * 1 + r
    BY <1>2
  <2>2. (S * 1 + r) % S = r
    BY <2>1
  <2> QED
    BY <2>1, <2>2, <1>2
<1> QED
  BY <1>1, <1>2

\* An index of a ring that has gone round once at most.
Wrapped(n) == n % IWAMOUNT

LEMMA PlaceWraps ==
  /\ IWAMOUNT \in Nat /\ IWAMOUNT > 1 /\ Place = 0 .. IWAMOUNT - 1
  /\ \A n \in 0 .. IWAMOUNT + IWAMOUNT - 1 :
       Wrapped(n) = IF n < IWAMOUNT THEN n ELSE n - IWAMOUNT
<1>1. IWAMOUNT \in Nat \ {0} /\ IWAMOUNT > 1
  BY LinksAssumption DEF LinksAssumption
<1> QED
  BY <1>1, WrapOnce DEF Place, Wrapped

LEMMA SecFacts ==
  /\ \A t \in Nat : Sec(t) \in Nat
  /\ \A s, t \in Nat : s <= t => Sec(s) <= Sec(t)
  /\ \A t \in Nat : t >= 3 * PerSec => Sec(t) >= 3
<1>1. PerSec \in Nat \ {0}
  BY LinksAssumption DEF LinksAssumption
<1>2. \A t \in Nat : Sec(t) \in Nat
  BY <1>1 DEF Sec
<1>3. ASSUME NEW s \in Nat, NEW t \in Nat, s <= t PROVE Sec(s) <= Sec(t)
  BY <1>1, <1>3 DEF Sec
<1>4. ASSUME NEW t \in Nat, t >= 3 * PerSec PROVE Sec(t) >= 3
  BY <1>1, <1>4 DEF Sec
<1> QED
  BY <1>2, <1>3, <1>4

-----------------------------------------------------------------------------
(* One window.                                                             *)

Latest(w) == w.ring[(w.head + IWAMOUNT - 1) % IWAMOUNT]
InOrder(w) ==
  w.station # NoStation /\ w.tail \in Place =>
    /\ Length(w) > 0 /\ At(w, Length(w) - 1).station = w.station
    /\ \A i \in 0 .. Length(w) - 1 : At(w, i).station # NoStation
    /\ \A i, j \in 0 .. Length(w) - 1 : i < j => At(w, i).at < At(w, j).at

\* What holds of a window at time t, and once its sample of time t is in it.
WindowGood(w, t) ==
  /\ w.station = NoStation => w = NoWindow
  /\ w.station # NoStation =>
       /\ Latest(w).station = w.station /\ Latest(w).at <= t
       /\ w.sec \in {0, Sec(Latest(w).at)}
       /\ w.sec = 0 => Sec(t) - Sec(Latest(w).at) > 2
  /\ InOrder(w)

Sampled(v, st) ==
  /\ v \in Window /\ v.station = st /\ v.sec = Sec(tick)
  /\ Latest(v) = [station |-> st, at |-> tick] /\ InOrder(v)

\* A window in numbers.
LEMMA WindowFacts ==
  ASSUME NEW w \in Window
  PROVE  /\ w.station \in Station \cup {NoStation} /\ w.ring \in [Place -> Sample]
         /\ w.head \in Place /\ w.tail \in 0 .. IWAMOUNT /\ w.sec \in Nat
         /\ (w.head + 1) % IWAMOUNT = IF w.head + 1 = IWAMOUNT THEN 0 ELSE w.head + 1
         /\ (w.head + 1) % IWAMOUNT \in Place
         /\ (w.head + IWAMOUNT - 1) % IWAMOUNT = IF w.head = 0 THEN IWAMOUNT - 1 ELSE w.head - 1
         /\ (w.head + IWAMOUNT - 1) % IWAMOUNT \in Place
<1>1. /\ w.station \in Station \cup {NoStation} /\ w.ring \in [Place -> Sample]
      /\ w.head \in Place /\ w.tail \in 0 .. IWAMOUNT /\ w.sec \in Nat
  BY DEF Window
<1>2. w.head \in 0 .. IWAMOUNT - 1 /\ IWAMOUNT \in Nat /\ IWAMOUNT > 1
  BY <1>1, PlaceWraps
<1>3. /\ Wrapped(w.head + 1) = IF w.head + 1 = IWAMOUNT THEN 0 ELSE w.head + 1
      /\ Wrapped(w.head + 1) \in Place
  BY <1>2, PlaceWraps
<1>4. /\ Wrapped(w.head + IWAMOUNT - 1) = IF w.head = 0 THEN IWAMOUNT - 1 ELSE w.head - 1
      /\ Wrapped(w.head + IWAMOUNT - 1) \in Place
  BY <1>2, PlaceWraps
<1> QED
  BY <1>1, <1>3, <1>4 DEF Wrapped

LEMMA LengthFacts ==
  ASSUME NEW w \in Window, w.tail \in Place
  PROVE  /\ Length(w) = IF w.tail <= w.head THEN w.head - w.tail ELSE w.head + IWAMOUNT - w.tail
         /\ Length(w) \in 0 .. IWAMOUNT - 1
         /\ \A i \in 0 .. IWAMOUNT - 1 :
              /\ At(w, i) = w.ring[IF w.tail + i < IWAMOUNT THEN w.tail + i
                                   ELSE w.tail + i - IWAMOUNT]
              /\ At(w, i) \in Sample
         /\ Full(w) <=> Length(w) = IWAMOUNT - 1
         /\ Length(w) > 0 => Latest(w) = At(w, Length(w) - 1)
         /\ Wrapped(w.tail + 1) = IF w.tail + 1 = IWAMOUNT THEN 0 ELSE w.tail + 1
<1>1. /\ w.head \in 0 .. IWAMOUNT - 1 /\ w.tail \in 0 .. IWAMOUNT - 1
      /\ IWAMOUNT \in Nat /\ IWAMOUNT > 1 /\ Place = 0 .. IWAMOUNT - 1
  BY WindowFacts, PlaceWraps
<1>2. Length(w) = IF w.tail <= w.head THEN w.head - w.tail ELSE w.head + IWAMOUNT - w.tail
  <2>1. w.head + IWAMOUNT - w.tail \in 0 .. IWAMOUNT + IWAMOUNT - 1
    BY <1>1
  <2>2. Wrapped(w.head + IWAMOUNT - w.tail)
          = IF w.tail <= w.head THEN w.head - w.tail ELSE w.head + IWAMOUNT - w.tail
    BY <1>1, <2>1, PlaceWraps
  <2> QED
    BY <2>2 DEF Length, Wrapped
<1>3. Length(w) \in 0 .. IWAMOUNT - 1
  BY <1>1, <1>2
<1>4. ASSUME NEW i \in 0 .. IWAMOUNT - 1
      PROVE  /\ At(w, i) = w.ring[IF w.tail + i < IWAMOUNT THEN w.tail + i
                                  ELSE w.tail + i - IWAMOUNT]
             /\ At(w, i) \in Sample
  <2>1. Wrapped(w.tail + i) = IF w.tail + i < IWAMOUNT THEN w.tail + i ELSE w.tail + i - IWAMOUNT
    BY <1>1, PlaceWraps
  <2>2. Wrapped(w.tail + i) \in Place
    BY <1>1, <2>1
  <2>3. At(w, i) = w.ring[Wrapped(w.tail + i)]
    BY DEF At, Wrapped
  <2> QED
    BY <2>1, <2>2, <2>3, WindowFacts
<1> DEFINE L == Length(w)
           h == w.head
           t == w.tail
<1>5. Full(w) <=> Length(w) = IWAMOUNT - 1
  <2>1. Full(w) <=> (IF h + 1 = IWAMOUNT THEN 0 ELSE h + 1) = t
    BY WindowFacts DEF Full
  <2>2. /\ h \in 0 .. IWAMOUNT - 1 /\ t \in 0 .. IWAMOUNT - 1 /\ L \in 0 .. IWAMOUNT - 1
        /\ L = IF t <= h THEN h - t ELSE h + IWAMOUNT - t
    BY <1>1, <1>2, <1>3
  <2> HIDE DEF L, h, t
  <2>3. (IF h + 1 = IWAMOUNT THEN 0 ELSE h + 1) = t <=> L = IWAMOUNT - 1
    BY <1>1, <2>2
  <2> QED
    BY <2>1, <2>3 DEF L
<1>6. ASSUME Length(w) > 0 PROVE Latest(w) = At(w, Length(w) - 1)
  <2>1. Length(w) - 1 \in 0 .. IWAMOUNT - 1
    BY <1>1, <1>3, <1>6
  <2>2. At(w, L - 1) = w.ring[IF t + (L - 1) < IWAMOUNT THEN t + (L - 1)
                              ELSE t + (L - 1) - IWAMOUNT]
    BY <1>4, <2>1
  <2>3. /\ h \in 0 .. IWAMOUNT - 1 /\ t \in 0 .. IWAMOUNT - 1 /\ L \in 0 .. IWAMOUNT - 1
        /\ L = (IF t <= h THEN h - t ELSE h + IWAMOUNT - t) /\ L > 0
    BY <1>1, <1>2, <1>3, <1>6
  <2> HIDE DEF L, h, t
  <2>4. (IF t + (L - 1) < IWAMOUNT THEN t + (L - 1) ELSE t + (L - 1) - IWAMOUNT)
          = IF h = 0 THEN IWAMOUNT - 1 ELSE h - 1
    BY <1>1, <2>3
  <2> QED
    BY <2>2, <2>4, WindowFacts DEF Latest, L, h
<1>7. Wrapped(w.tail + 1) = IF w.tail + 1 = IWAMOUNT THEN 0 ELSE w.tail + 1
  BY <1>1, PlaceWraps
<1> QED
  BY <1>2, <1>3, <1>4, <1>5, <1>6, <1>7

\* A sample is put behind the others of a window; if that is full the first one goes.
\* What is in the place of the tail that was is of no account.
LEMMA PushedInOrder ==
  ASSUME NEW w \in Window, NEW v \in Window, NEW st \in Station, tick \in Nat,
         w.tail \in Place, v.tail \in Place,
         w.station # NoStation => InOrder(w) /\ Latest(w).at < tick,
         w.station = NoStation => w.head = w.tail,
         v.station = st, v.head = (w.head + 1) % IWAMOUNT,
         v.tail = IF Full(w) THEN (w.tail + 1) % IWAMOUNT ELSE w.tail,
         v.ring[w.head] = [station |-> st, at |-> tick],
         \A p \in Place : p # w.head => v.ring[p] = w.ring[p] \/ (Full(w) /\ p = w.tail)
  PROVE  InOrder(v)
<1> DEFINE L == Length(w)
           K == Length(v)
           d == IF Full(w) THEN 1 ELSE 0
           h == w.head
           t == w.tail
           g == v.head
           u == v.tail
           N == IWAMOUNT
<1>1. /\ h \in 0 .. N - 1 /\ t \in 0 .. N - 1 /\ g \in 0 .. N - 1 /\ u \in 0 .. N - 1
      /\ g = (IF h + 1 = N THEN 0 ELSE h + 1)
      /\ N \in Nat /\ N > 1 /\ Place = 0 .. N - 1
  BY WindowFacts, PlaceWraps
<1>2. /\ L = (IF t <= h THEN h - t ELSE h + N - t) /\ L \in 0 .. N - 1
      /\ K = (IF u <= g THEN g - u ELSE g + N - u) /\ K \in 0 .. N - 1
      /\ Full(w) <=> L = N - 1
  BY LengthFacts
<1>3. /\ u = (IF d = 1 THEN (IF t + 1 = N THEN 0 ELSE t + 1) ELSE t)
      /\ d = (IF L = N - 1 THEN 1 ELSE 0)
  BY <1>2, LengthFacts DEF Wrapped
<1>4. K = L + 1 - d /\ K > 0
  <2> HIDE DEF L, K, d, h, t, g, u, N
  <2>1. CASE L = N - 1
    <3>1. d = 1 /\ g = t
      BY <1>1, <1>2, <1>3, <2>1
    <3>2. u = (IF t + 1 = N THEN 0 ELSE t + 1)
      BY <1>3, <3>1
    <3> QED
      BY <1>1, <1>2, <2>1, <3>1, <3>2
  <2>2. CASE L # N - 1
    <3>1. d = 0 /\ u = t
      BY <1>3, <2>2
    <3> QED
      BY <1>1, <1>2, <2>2, <3>1
  <2> QED
    BY <2>1, <2>2
<1>5. At(v, K - 1) = [station |-> st, at |-> tick]
  <2>1. K - 1 \in 0 .. N - 1
    <3> HIDE DEF K, N, L, h, t, g, u, d
    <3> QED
      BY <1>1, <1>2, <1>4
  <2> DEFINE j == K - 1
             x == u + j
  <2>2. \A i \in 0 .. N - 1 : At(v, i) = v.ring[IF u + i < N THEN u + i ELSE u + i - N]
    BY LengthFacts
  <2>3. x \in {h, h + N}
    <3> HIDE DEF L, K, d, h, t, g, u, N
    <3>1. CASE u <= g
      <4>1. K = g - u /\ g # 0
        BY <1>1, <1>2, <1>4, <3>1
      <4> QED
        BY <1>1, <4>1
    <3>2. CASE ~ (u <= g)
      <4>1. K = g + N - u
        BY <1>2, <3>2
      <4> QED
        BY <1>1, <4>1
    <3> QED
      BY <3>1, <3>2
  <2>4. j \in 0 .. N - 1
    BY <2>1
  <2> HIDE DEF j, u, N
  <2>5. At(v, j) = v.ring[IF x < N THEN x ELSE x - N]
    BY <1>1, <2>2, <2>4
  <2> HIDE DEF x
  <2>6. (IF x < N THEN x ELSE x - N) = h
    BY <1>1, <2>3
  <2>7. At(v, j) = v.ring[h]
    BY <2>5, <2>6
  <2> QED
    BY <2>7 DEF j
<1>6. ASSUME NEW i \in 0 .. K - 2
      PROVE  At(v, i) = At(w, i + d) /\ i + d \in 0 .. L - 1
  <2>1. i \in 0 .. N - 1 /\ i + d \in 0 .. N - 1 /\ i + d \in 0 .. L - 1
    <3> HIDE DEF L, K, d, h, t, g, u, N
    <3> QED
      BY <1>1, <1>2, <1>3, <1>4
  <2> DEFINE p == IF u + i < N THEN u + i ELSE u + i - N
             q == IF t + (i + d) < N THEN t + (i + d) ELSE t + (i + d) - N
  <2>2. At(v, i) = v.ring[p] /\ At(w, i + d) = w.ring[q]
    <3> HIDE DEF d
    <3> QED
      BY <2>1, LengthFacts
  <2>3. p = q /\ p \in 0 .. N - 1 /\ p # h /\ (L = N - 1 => p # t)
    <3> HIDE DEF L, K, d, h, t, g, u, N
    <3>1. CASE L = N - 1
      <4>1. d = 1 /\ u = (IF t + 1 = N THEN 0 ELSE t + 1) /\ K = N - 1 /\ i \in 0 .. N - 3
        <5>1. d = 1
          BY <1>3, <3>1
        <5>2. K = N - 1 /\ i \in Int /\ 0 <= i /\ i <= K - 2
          BY <1>1, <1>4, <3>1, <5>1
        <5> QED
          BY <1>1, <1>3, <5>1, <5>2
      <4>2. \/ t = 0 /\ h = N - 1
            \/ t # 0 /\ h = t - 1
        <5>1. /\ h \in Int /\ t \in Int /\ N \in Int /\ 0 <= h /\ h < N /\ 0 <= t /\ t < N
              /\ N - 1 = IF t <= h THEN h - t ELSE h + N - t
          BY <1>1, <1>2, <3>1
        <5>2. CASE t <= h
          BY <5>1, <5>2
        <5>3. CASE ~ (t <= h)
          BY <5>1, <5>3
        <5> QED
          BY <5>1, <5>2, <5>3
      <4>3. CASE t + 1 = N
        <5>1. u = 0 /\ p = i /\ q = i /\ h = N - 2
          BY <1>1, <4>1, <4>2, <4>3
        <5> QED
          BY <1>1, <4>1, <4>3, <5>1
      <4>4. CASE t + 1 # N
        <5>1. u = t + 1 /\ p = q
          <6>1. /\ u = t + 1 /\ d = 1
                /\ t \in Int /\ i \in Int /\ N \in Int
            BY <1>1, <4>1, <4>4
          <6>2. p = q
            BY <6>1
          <6> QED
            BY <6>1, <6>2
        <5>2. p = (IF t + 1 + i < N THEN t + 1 + i ELSE t + 1 + i - N)
          BY <5>1
        <5> HIDE DEF p, q
        <5> QED
          BY <1>1, <4>1, <4>2, <4>4, <5>1, <5>2
      <4> QED
        BY <4>3, <4>4
    <3>2. CASE L # N - 1
      <4>1. d = 0 /\ u = t /\ K = L + 1 /\ i \in 0 .. L - 1
        BY <1>2, <1>3, <1>4, <3>2
      <4> QED
        BY <1>1, <1>2, <2>1, <3>2, <4>1
    <3> QED
      BY <3>1, <3>2
  <2> HIDE DEF p, q
  <2>4. v.ring[p] = w.ring[p]
    BY <1>1, <1>2, <2>3
  <2> QED
    BY <2>1, <2>2, <2>3, <2>4
<1> HIDE DEF L, K, d
<1>7. ASSUME NEW i \in 0 .. K - 2
      PROVE  /\ w.station # NoStation /\ At(w, i + d).station # NoStation
             /\ At(w, i + d).at < tick /\ At(w, i + d) \in Sample
             /\ i + d \in 0 .. L - 1
  <2>1. i + d \in 0 .. L - 1 /\ L > 0
    BY <1>2, <1>6
  <2>2. w.station # NoStation
    <3>1. L = 0 \/ w.head # w.tail
      BY <1>1, <1>2
    <3> QED
      BY <2>1, <3>1
  <2>3. InOrder(w) /\ Latest(w).at < tick
    BY <2>2
  <2>4. /\ At(w, i + d).station # NoStation
        /\ \A m, n \in 0 .. L - 1 : m < n => At(w, m).at < At(w, n).at
    BY <2>1, <2>2, <2>3 DEF InOrder, L
  <2>5. Latest(w) = At(w, L - 1)
    BY <2>1, LengthFacts DEF L
  <2>6. \A n \in 0 .. L - 1 : At(w, n) \in Sample
    BY <1>1, <1>2, LengthFacts
  <2>7. \A n \in 0 .. L - 1 : At(w, n).at \in Nat
    BY <2>6 DEF Sample
  <2>8. At(w, i + d).at < tick
    <3>1. L - 1 \in 0 .. L - 1
      BY <1>2, <2>1
    <3>2. CASE i + d = L - 1
      BY <2>3, <2>5, <3>2
    <3>3. CASE i + d # L - 1
      <4>1. i + d < L - 1
        BY <1>2, <2>1, <3>3
      <4>2. At(w, i + d).at < At(w, L - 1).at
        BY <2>1, <2>4, <3>1, <4>1
      <4> QED
        BY <2>1, <2>3, <2>5, <2>7, <3>1, <4>2
    <3> QED
      BY <3>2, <3>3
  <2> QED
    BY <2>1, <2>2, <2>4, <2>6, <2>8
<1>8. \A i \in 0 .. K - 1 : At(v, i).station # NoStation
  <2>1. ASSUME NEW i \in 0 .. K - 1 PROVE At(v, i).station # NoStation
    <3>1. CASE i = K - 1
      BY <1>5, <3>1, LinksAssumption DEF LinksAssumption
    <3>2. CASE i # K - 1
      <4>1. i \in 0 .. K - 2
        BY <1>2, <3>2
      <4> QED
        BY <1>6, <1>7, <4>1
    <3> QED
      BY <3>1, <3>2
  <2> QED
    BY <2>1
<1>9. \A i, j \in 0 .. K - 1 : i < j => At(v, i).at < At(v, j).at
  <2>1. ASSUME NEW i \in 0 .. K - 1, NEW j \in 0 .. K - 1, i < j
        PROVE  At(v, i).at < At(v, j).at
    <3>1. i \in 0 .. K - 2
      BY <1>2, <2>1
    <3>2. At(v, i).at = At(w, i + d).at /\ At(w, i + d).at < tick /\ i + d \in 0 .. L - 1
      BY <1>6, <1>7, <3>1
    <3>3. CASE j = K - 1
      BY <1>5, <3>2, <3>3
    <3>4. CASE j # K - 1
      <4>1. j \in 0 .. K - 2
        BY <1>2, <3>4
      <4>2. At(v, j).at = At(w, j + d).at /\ j + d \in 0 .. L - 1 /\ w.station # NoStation
        BY <1>6, <1>7, <4>1
      <4>3. \A m, n \in 0 .. L - 1 : m < n => At(w, m).at < At(w, n).at
        BY <4>2 DEF InOrder, L
      <4>4. i + d < j + d
        <5>1. d = 0 \/ d = 1
          BY <1>3
        <5> QED
          BY <2>1, <5>1
      <4> QED
        BY <3>2, <4>2, <4>3, <4>4
    <3> QED
      BY <3>3, <3>4
  <2> QED
    BY <2>1
<1>10. At(v, K - 1).station = v.station
  BY <1>5
<1> QED
  BY <1>4, <1>8, <1>9, <1>10 DEF InOrder, K

\* The place after another, and back.
LEMMA NextPlace ==
  ASSUME NEW p \in Place
  PROVE  LET n == IF p + 1 = IWAMOUNT THEN 0 ELSE p + 1 IN
         /\ n \in Place /\ n # p
         /\ (IF n = 0 THEN IWAMOUNT - 1 ELSE n - 1) = p
BY PlaceWraps

LEMMA StoredGood ==
  ASSUME NEW w \in Window, NEW st \in Station, tick \in Nat,
         w.station = st, InOrder(w), Latest(w).at < tick, w.tail \in Place
  PROVE  /\ Sampled(Stored(w, st), st)
         /\ Stored(w, st).tail \in Place
<1> DEFINE v == Stored(w, st)
           filled == [w.ring EXCEPT ![w.head] = [station |-> st, at |-> tick]]
<1>1. [station |-> st, at |-> tick] \in Sample /\ NoSample \in Sample
  BY DEF Sample, NoSample
<1>2. /\ w.station \in Station \cup {NoStation} /\ w.ring \in [Place -> Sample]
      /\ w.head \in Place /\ w.tail \in Place
      /\ (w.head + 1) % IWAMOUNT \in Place /\ Sec(tick) \in Nat
  BY WindowFacts, SecFacts
<1>3. Wrapped(w.tail + 1) \in Place
  BY <1>2, LengthFacts, NextPlace
<1>4. /\ v.station = w.station /\ v.head = (w.head + 1) % IWAMOUNT /\ v.sec = Sec(tick)
      /\ v.tail = (IF Full(w) THEN (w.tail + 1) % IWAMOUNT ELSE w.tail)
      /\ v.ring = (IF Full(w) THEN [filled EXCEPT ![w.tail] = NoSample] ELSE filled)
  BY DEF Stored, Window
<1>5. filled \in [Place -> Sample]
  BY <1>1, <1>2
<1>6. v.ring \in [Place -> Sample] /\ v.tail \in Place
  BY <1>1, <1>2, <1>3, <1>4, <1>5 DEF Wrapped
<1>7. v \in Window
  <2>1. v = [w EXCEPT !.head = v.head, !.sec = v.sec, !.ring = v.ring, !.tail = v.tail]
    BY <1>4 DEF Stored
  <2>2. v.tail \in 0 .. IWAMOUNT
    BY <1>6, PlaceWraps
  <2> QED
    BY <1>2, <1>4, <1>6, <2>1, <2>2 DEF Window
<1>8. Full(w) => w.tail # w.head
  BY <1>2, WindowFacts, NextPlace DEF Full
<1>9. v.ring[w.head] = [station |-> st, at |-> tick]
  BY <1>2, <1>4, <1>5, <1>8
<1>10. \A p \in Place : p # w.head => v.ring[p] = w.ring[p] \/ (Full(w) /\ p = w.tail)
  BY <1>2, <1>4, <1>5
<1>11. w.station # NoStation
  BY LinksAssumption DEF LinksAssumption
<1> HIDE DEF v
<1>12. InOrder(v)
  BY <1>4, <1>6, <1>7, <1>9, <1>10, <1>11, PushedInOrder
<1>13. Latest(v) = v.ring[w.head]
  BY <1>2, <1>4, <1>7, WindowFacts, NextPlace DEF Latest
<1> QED
  BY <1>4, <1>6, <1>7, <1>9, <1>12, <1>13 DEF Sampled, v

LEMMA TakenOverGood ==
  ASSUME NEW w \in Window, NEW st \in Station, tick \in Nat,
         w.station = NoStation => w.head = 0 /\ w.tail = 0,
         w.station # NoStation => InOrder(w) /\ Latest(w).at < tick
  PROVE  Sampled(TakenOver(w, st), st)
<1> DEFINE v == TakenOver(w, st)
<1>1. [station |-> st, at |-> tick] \in Sample
  BY DEF Sample
<1>2. /\ w.ring \in [Place -> Sample] /\ w.head \in Place /\ w.tail \in 0 .. IWAMOUNT
      /\ (w.head + 1) % IWAMOUNT \in Place /\ Sec(tick) \in Nat
  BY WindowFacts, SecFacts
<1>3. Full(w) => w.tail \in Place
  BY <1>2 DEF Full
<1>4. /\ v.station = st /\ v.head = (w.head + 1) % IWAMOUNT /\ v.sec = Sec(tick)
      /\ v.tail = (IF Full(w) THEN w.tail + 1 ELSE w.tail)
      /\ v.ring = [w.ring EXCEPT ![w.head] = [station |-> st, at |-> tick]]
  BY DEF TakenOver, Window
<1>5. v.tail \in 0 .. IWAMOUNT
  BY <1>2, <1>3, <1>4, PlaceWraps
<1>6. v \in Window
  <2>1. v = [w EXCEPT !.station = v.station, !.sec = v.sec, !.ring = v.ring, !.head = v.head,
                      !.tail = v.tail]
    BY <1>4 DEF TakenOver
  <2>2. v.ring \in [Place -> Sample]
    BY <1>1, <1>2, <1>4
  <2> QED
    BY <1>2, <1>4, <1>5, <2>1, <2>2 DEF Window
<1>7. /\ v.ring[w.head] = [station |-> st, at |-> tick]
      /\ \A p \in Place : p # w.head => v.ring[p] = w.ring[p]
  BY <1>2, <1>4
<1> HIDE DEF v
<1>8. ASSUME v.tail \in Place PROVE InOrder(v)
  <2>1. w.tail \in Place
    BY <1>2, <1>3, <1>4, <1>8
  <2>2. Full(w) => Wrapped(w.tail + 1) = w.tail + 1
    BY <1>2, <1>4, <1>8, <2>1, LengthFacts, PlaceWraps
  <2>3. v.tail = IF Full(w) THEN (w.tail + 1) % IWAMOUNT ELSE w.tail
    BY <1>4, <2>2 DEF Wrapped
  <2> QED
    BY <1>4, <1>6, <1>7, <1>8, <2>1, <2>3, PushedInOrder
<1>9. InOrder(v)
  BY <1>8 DEF InOrder
<1>10. Latest(v) = v.ring[w.head]
  BY <1>2, <1>4, <1>6, WindowFacts, NextPlace DEF Latest
<1> QED
  BY <1>4, <1>6, <1>7, <1>9, <1>10 DEF Sampled, v

-----------------------------------------------------------------------------
(* The invariant.                                                          *)

\* A callback handles every station once, and a station still to come has not been
\* sampled at this time.
Members(q) == {q[i] : i \in 1 .. Len(q)}
OnceEach(q) == \A i, j \in 1 .. Len(q) : q[i] = q[j] => i = j
ListInv ==
  /\ OnceEach(iwlist)
  /\ \A w \in Index : linkinfo[w].station \in Members(iwlist) => Latest(linkinfo[w]).at < tick

RateGood(r, t) ==
  /\ r.at = 0 => r = NoRate
  /\ r.at # 0 => r.station # NoStation /\ r.from.station # NoStation
  /\ r.at <= t
RateInv == (\A s \in Index : RateGood(link[s], tick)) /\ FirstEntryIsLatest

LinksInv ==
  /\ LinksTypeOK /\ tick >= FirstTick
  /\ \A w \in Index : WindowGood(linkinfo[w], tick)
  /\ OneWindowPerStation
  /\ ListInv /\ RateInv

LEMMA TickFacts ==
  ASSUME tick \in Nat, tick >= FirstTick
  PROVE  Sec(tick) \in Nat /\ Sec(tick) >= 3 /\ tick > 0
<1>1. /\ FirstTick \in Nat /\ 3 * PerSec <= FirstTick /\ PerSec \in Nat /\ PerSec > 0
  BY LinksAssumption DEF LinksAssumption
<1>2. tick >= 3 * PerSec
  BY <1>1
<1> QED
  BY <1>1, <1>2, SecFacts

\* A window depends on the clock and its mark of the second only through what is said
\* of them.
LEMMA SameWindow ==
  ASSUME NEW w \in Window, NEW v \in Window, v.station = w.station,
         v.ring = w.ring, v.head = w.head, v.tail = w.tail
  PROVE  Latest(v) = Latest(w) /\ (InOrder(w) => InOrder(v))
<1>1. Length(v) = Length(w) /\ \A i : At(v, i) = At(w, i)
  BY DEF Length, At
<1> QED
  BY <1>1 DEF Latest, InOrder

LEMMA LatestIsSample ==
  ASSUME NEW w \in Window
  PROVE  Latest(w) \in Sample /\ Latest(w).at \in Nat
BY WindowFacts DEF Latest, Sample

LEMMA GoodLater ==
  ASSUME NEW w \in Window, NEW t \in Nat, NEW u \in Nat, t <= u, WindowGood(w, t)
  PROVE  WindowGood(w, u)
<1>1. Latest(w).at \in Nat
  BY LatestIsSample
<1>2. Sec(t) \in Nat /\ Sec(u) \in Nat /\ Sec(t) <= Sec(u) /\ Sec(Latest(w).at) \in Nat
  BY <1>1, SecFacts
<1>3. ASSUME w.station # NoStation
      PROVE  /\ Latest(w).at <= u
             /\ w.sec = 0 => Sec(u) - Sec(Latest(w).at) > 2
  <2>1. /\ Latest(w).at <= t
        /\ w.sec = 0 => Sec(t) - Sec(Latest(w).at) > 2
    BY <1>3 DEF WindowGood
  <2> DEFINE a == Latest(w).at
             b == Sec(Latest(w).at)
  <2> HIDE DEF a, b
  <2>2. a <= u
    BY <1>1, <2>1 DEF a
  <2>3. w.sec = 0 => Sec(u) - b > 2
    BY <1>2, <2>1 DEF b
  <2> QED
    BY <2>2, <2>3 DEF a, b
<1> QED
  BY <1>3 DEF WindowGood

LEMMA SampledIsGood ==
  ASSUME NEW st \in Station, NEW v, Sampled(v, st), tick \in Nat, tick >= FirstTick
  PROVE  /\ v \in Window /\ v.station = st /\ ~ Stale(v)
         /\ WindowGood(v, tick) /\ Latest(v).at = tick
<1>1. Sec(tick) \in Nat /\ Sec(tick) # 0
  BY TickFacts
<1>2. v.station # NoStation
  BY LinksAssumption DEF LinksAssumption, Sampled
<1>3. Latest(v).station = st /\ Latest(v).at = tick
  BY DEF Sampled
<1>4. ~ Stale(v)
  BY <1>1 DEF Stale, Sampled
<1> QED
  BY <1>1, <1>2, <1>3, <1>4 DEF Sampled, WindowGood

\* A window that is given up, or is already.
LEMMA GivenUpIsGood ==
  ASSUME NEW w \in Window, tick \in Nat, WindowGood(w, tick), Stale(w)
  PROVE  LET v == [w EXCEPT !.sec = 0] IN
         /\ v \in Window /\ WindowGood(v, tick)
         /\ v.station = w.station /\ Latest(v) = Latest(w)
<1> DEFINE v == [w EXCEPT !.sec = 0]
<1>1. /\ v \in Window /\ v.station = w.station /\ v.ring = w.ring /\ v.head = w.head
      /\ v.tail = w.tail /\ v.sec = 0
  BY DEF Window
<1>2. w = NoWindow => v = NoWindow
  BY DEF NoWindow
<1> HIDE DEF v
<1>3. Latest(v) = Latest(w) /\ InOrder(v)
  BY <1>1, SameWindow DEF WindowGood
<1>4. ASSUME w.station # NoStation PROVE Sec(tick) - Sec(Latest(w).at) > 2
  BY <1>4 DEF WindowGood, Stale
<1>5. WindowGood(v, tick)
  BY <1>1, <1>2, <1>3, <1>4 DEF WindowGood
<1> QED
  BY <1>1, <1>3, <1>5 DEF v

LEMMA GivenUpFacts ==
  ASSUME NEW windows \in [Index -> Window], tick \in Nat,
         \A w \in Index : WindowGood(windows[w], tick)
  PROVE  /\ GivenUp(windows) \in [Index -> Window]
         /\ \A w \in Index : /\ WindowGood(GivenUp(windows)[w], tick)
                             /\ GivenUp(windows)[w].station = windows[w].station
                             /\ Latest(GivenUp(windows)[w]) = Latest(windows[w])
<1>1. ASSUME NEW w \in Index
      PROVE  LET v == IF Stale(windows[w]) THEN [windows[w] EXCEPT !.sec = 0] ELSE windows[w] IN
             /\ v \in Window /\ WindowGood(v, tick)
             /\ v.station = windows[w].station /\ Latest(v) = Latest(windows[w])
  BY <1>1, GivenUpIsGood
<1> QED
  BY <1>1 DEF GivenUp

LEMMA TailFacts ==
  ASSUME NEW q \in Seq(Station), q # <<>>, OnceEach(q)
  PROVE  /\ Tail(q) \in Seq(Station) /\ OnceEach(Tail(q))
         /\ Members(Tail(q)) \subseteq Members(q) /\ Members(q) \subseteq Station
         /\ Head(q) \in Members(q) /\ Head(q) \notin Members(Tail(q))
<1>1. /\ Tail(q) \in Seq(Station) /\ Len(q) \in Nat /\ Len(q) >= 1
      /\ Len(Tail(q)) = Len(q) - 1 /\ Head(q) = q[1]
      /\ \A i \in 1 .. Len(q) : q[i] \in Station
  OBVIOUS
<1>2. \A i \in 1 .. Len(Tail(q)) : Tail(q)[i] = q[i + 1] /\ i + 1 \in 1 .. Len(q)
  BY <1>1
<1>3. OnceEach(Tail(q))
  <2>1. ASSUME NEW i \in 1 .. Len(Tail(q)), NEW j \in 1 .. Len(Tail(q)), Tail(q)[i] = Tail(q)[j]
        PROVE  i = j
    <3>1. i + 1 = j + 1
      BY <1>2, <2>1 DEF OnceEach
    <3> QED
      BY <1>1, <3>1
  <2> QED
    BY <2>1 DEF OnceEach
<1>4. Members(Tail(q)) \subseteq Members(q) /\ Members(q) \subseteq Station
  BY <1>1, <1>2 DEF Members
<1>5. Head(q) \in Members(q)
  BY <1>1 DEF Members
<1>6. Head(q) \notin Members(Tail(q))
  <2>1. ASSUME NEW i \in 1 .. Len(Tail(q)), Tail(q)[i] = Head(q) PROVE FALSE
    <3>1. q[i + 1] = q[1] /\ i + 1 \in 1 .. Len(q) /\ 1 \in 1 .. Len(q)
      BY <1>1, <1>2, <2>1
    <3>2. i + 1 = 1
      BY <3>1 DEF OnceEach
    <3> QED
      BY <1>1, <3>2
  <2> QED
    BY <2>1 DEF Members
<1> QED
  BY <1>1, <1>3, <1>4, <1>5, <1>6

-----------------------------------------------------------------------------
(* Every step keeps it.                                                    *)

\* What the invariant says that does not mention a step's writes.
LEMMA LinksTypes ==
  ASSUME LinksInv
  PROVE  /\ linkinfo \in [Index -> Window] /\ link \in [Index -> Rate]
         /\ tick \in Nat /\ tick >= FirstTick
         /\ iwlist \in Seq(Station) /\ found1 \in BOOLEAN /\ fault \in BOOLEAN
         /\ \A w \in Index : linkinfo[w] \in Window /\ WindowGood(linkinfo[w], tick)
BY DEF LinksInv, LinksTypeOK

LEMMA PollStep ==
  ASSUME LinksInv, Poll
  PROVE  LinksInv'
<1> USE LinksTypes
<1>1. PICK step \in Steps : tick' = tick + step
  BY DEF Poll
<1>2. tick' \in Nat /\ tick < tick' /\ tick' >= FirstTick
  <2>1. step \in Nat /\ step # 0 /\ FirstTick \in Nat
    BY <1>1, LinksAssumption DEF LinksAssumption
  <2> QED
    BY <1>1, <2>1
<1>3. iwlist' \in Seq(Station) /\ OnceEach(iwlist')
  <2>1. Cardinality(Station) \in Nat
    BY FS_CardinalityType, LinksAssumption DEF LinksAssumption
  <2>2. PICK n \in 1 .. Cardinality(Station) :
          iwlist' \in {q \in [1 .. n -> Station] : \A i, j \in 1 .. n : q[i] = q[j] => i = j}
    BY DEF Poll, Lists
  <2>3. n \in Nat /\ iwlist' \in [1 .. n -> Station]
    BY <2>1, <2>2
  <2>4. iwlist' \in Seq(Station) /\ Len(iwlist') = n
    BY <2>3
  <2> QED
    BY <2>2, <2>4 DEF OnceEach
<1>4. linkinfo' = linkinfo /\ link' = link /\ found1' \in BOOLEAN /\ fault' \in BOOLEAN
  BY DEF Poll
<1>5. \A w \in Index : WindowGood(linkinfo'[w], tick')
  BY <1>2, <1>4, GoodLater
<1>6. ListInv'
  <2>1. Members(iwlist') \subseteq Station
    BY <1>3 DEF Members
  <2>2. ASSUME NEW w \in Index, linkinfo'[w].station \in Members(iwlist')
        PROVE  Latest(linkinfo'[w]).at < tick'
    <3>1. linkinfo[w].station # NoStation
      BY <1>4, <2>1, <2>2, LinksAssumption DEF LinksAssumption
    <3>2. Latest(linkinfo[w]).at <= tick /\ Latest(linkinfo[w]).at \in Nat
      BY <3>1, LatestIsSample DEF WindowGood
    <3> DEFINE a == Latest(linkinfo[w]).at
    <3> HIDE DEF a
    <3>3. a < tick'
      BY <1>2, <3>2 DEF a
    <3> QED
      BY <1>4, <3>3 DEF a
  <2> QED
    BY <1>3, <2>2 DEF ListInv
<1>7. RateInv'
  <2>1. ASSUME NEW s \in Index PROVE RateGood(link'[s], tick')
    <3>1. link[s].at \in Nat /\ RateGood(link[s], tick)
      BY DEF Rate, LinksInv, RateInv
    <3> DEFINE a == link[s].at
    <3> HIDE DEF a
    <3>2. a <= tick'
      BY <1>2, <3>1 DEF a, RateGood
    <3> QED
      BY <1>4, <3>1, <3>2 DEF a, RateGood
  <2>2. FirstEntryIsLatest'
    BY <1>4 DEF LinksInv, RateInv, FirstEntryIsLatest
  <2> QED
    BY <2>1, <2>2 DEF RateInv
<1>8. LinksTypeOK' /\ OneWindowPerStation'
  BY <1>2, <1>3, <1>4 DEF LinksTypeOK, LinksInv, OneWindowPerStation
<1> QED
  BY <1>2, <1>5, <1>6, <1>7, <1>8 DEF LinksInv

\* The windows after a station that was given its sample in window n, or none.
LEMMA WindowsStep ==
  ASSUME LinksInv, NEW st \in Station, Turn(st),
         \/ WindowsOf(st) = {} /\ linkinfo' = GivenUp(linkinfo)
         \/ \E n \in Index : \E v :
              /\ Sampled(v, st) /\ linkinfo' = [GivenUp(linkinfo) EXCEPT ![n] = v]
              /\ \A w \in WindowsOf(st) : w = n
  PROVE  /\ linkinfo' \in [Index -> Window] /\ iwlist' \in Seq(Station)
         /\ \A w \in Index : WindowGood(linkinfo'[w], tick)
         /\ OneWindowPerStation' /\ ListInv'
<1> USE LinksTypes
<1>1. /\ iwlist' = Tail(iwlist) /\ tick' = tick /\ st = Head(iwlist) /\ iwlist # <<>>
      /\ OnceEach(iwlist)
  BY DEF Turn, LinksInv, ListInv
<1>2. /\ iwlist' \in Seq(Station) /\ OnceEach(iwlist')
      /\ Members(iwlist') \subseteq Members(iwlist) /\ st \notin Members(iwlist')
  BY <1>1, TailFacts
<1> DEFINE up == GivenUp(linkinfo)
<1>3. /\ up \in [Index -> Window]
      /\ \A w \in Index : /\ WindowGood(up[w], tick) /\ up[w].station = linkinfo[w].station
                          /\ Latest(up[w]) = Latest(linkinfo[w])
  BY GivenUpFacts
<1> HIDE DEF up
<1>4. \A w \in Index : up[w].station \in Members(iwlist') => Latest(up[w]).at < tick
  BY <1>2, <1>3 DEF LinksInv, ListInv
<1>5. \A w, v \in Index : up[w].station = up[v].station => w = v \/ up[w].station = NoStation
  BY <1>3 DEF LinksInv, OneWindowPerStation
<1>6. CASE linkinfo' = up
  BY <1>1, <1>2, <1>3, <1>4, <1>5, <1>6 DEF OneWindowPerStation, ListInv
<1>7. CASE \E n \in Index : \E v : /\ Sampled(v, st) /\ linkinfo' = [up EXCEPT ![n] = v]
                                  /\ \A w \in WindowsOf(st) : w = n
  <2>1. PICK n \in Index : \E v : /\ Sampled(v, st) /\ linkinfo' = [up EXCEPT ![n] = v]
                                  /\ \A w \in WindowsOf(st) : w = n
    BY <1>7
  <2>2. PICK v : /\ Sampled(v, st) /\ linkinfo' = [up EXCEPT ![n] = v]
                 /\ \A w \in WindowsOf(st) : w = n
    BY <2>1
  <2>3. v \in Window /\ v.station = st /\ WindowGood(v, tick)
    BY <2>2, SampledIsGood
  <2>4. linkinfo'[n] = v /\ \A w \in Index : w # n => linkinfo'[w] = up[w] /\ up[w].station # st
    BY <1>3, <2>2 DEF WindowsOf
  <2>5. linkinfo' \in [Index -> Window]
    BY <1>3, <2>2, <2>3
  <2>6. OneWindowPerStation'
    BY <1>5, <2>3, <2>4 DEF OneWindowPerStation
  <2>7. ListInv'
    BY <1>1, <1>2, <1>4, <2>3, <2>4 DEF ListInv
  <2>8. \A w \in Index : WindowGood(linkinfo'[w], tick)
    BY <1>3, <2>3, <2>4
  <2> QED
    BY <1>2, <2>5, <2>6, <2>7, <2>8
<1> QED
  BY <1>6, <1>7 DEF up

\* The rates after a station's: RatesAreRecent of them, and the invariant.
LEMMA RatesGood ==
  ASSUME LinksInv, NEW st \in Station, NEW base \in Sample, base.station # NoStation
  PROVE  LET l == Rates(st, base) IN
         /\ l \in [Index -> Rate]
         /\ \A s \in Index : /\ RateGood(l[s], tick)
                             /\ l[s].at # 0 => Sec(tick) - Sec(l[s].at) <= 2
         /\ \A s, q \in Index : s < q /\ l[s].station = l[q].station => l[s].at >= l[q].at
<1> USE LinksTypes
<1> DEFINE rate == [station |-> st, from |-> base, at |-> tick]
           written == [s \in Index |-> IF Written(st, s) THEN rate ELSE link[s]]
           l == Rates(st, base)
<1>1. /\ rate \in Rate /\ NoRate \in Rate /\ tick > 0
      /\ rate.station = st /\ rate.at = tick /\ st # NoStation
  BY TickFacts, LinksAssumption DEF Rate, NoRate, NoSample, Sample, LinksAssumption
<1>2. RateGood(rate, tick) /\ RateGood(NoRate, tick)
  BY <1>1 DEF RateGood, NoRate
<1>3. \A s \in Index : link[s] \in Rate /\ RateGood(link[s], tick)
  BY DEF LinksInv, RateInv
<1>4. \A s \in Index : /\ written[s] \in Rate /\ RateGood(written[s], tick)
                       /\ Written(st, s) => written[s] = rate
                       /\ ~ Written(st, s) => written[s] = link[s]
  BY <1>1, <1>2, <1>3
<1>5. l = [s \in Index |-> IF TooOld(written[s]) THEN NoRate ELSE written[s]]
  BY DEF Rates
<1> HIDE DEF rate, written, l
<1>6. l \in [Index -> Rate]
  BY <1>1, <1>4, <1>5
<1>7. ASSUME NEW s \in Index
      PROVE  RateGood(l[s], tick) /\ (l[s].at # 0 => Sec(tick) - Sec(l[s].at) <= 2)
  <2>1. CASE TooOld(written[s])
    BY <1>2, <1>5, <2>1 DEF NoRate
  <2>2. CASE ~ TooOld(written[s])
    <3>1. l[s] = written[s] /\ l[s].at \in Nat
      BY <1>4, <1>5, <2>2 DEF Rate
    <3>2. Sec(l[s].at) \in Nat /\ Sec(tick) \in Nat
      BY <3>1, SecFacts
    <3> QED
      BY <1>4, <2>2, <3>1, <3>2 DEF TooOld
  <2> QED
    BY <2>1, <2>2
<1>8. ASSUME NEW s \in Index, NEW q \in Index, s < q, written[s].station = written[q].station
      PROVE  written[s].at >= written[q].at
  <2>1. link[q].at \in Nat /\ link[q].at <= tick
    BY <1>3 DEF Rate, RateGood
  <2>2. CASE Written(st, s) /\ Written(st, q)
    BY <1>1, <1>4, <2>2
  <2>3. CASE Written(st, s) /\ ~ Written(st, q)
    BY <1>1, <1>4, <2>1, <2>3
  <2>4. CASE ~ Written(st, s) /\ Written(st, q)
    <3>1. s \in EntriesOf(st)
      BY <1>1, <1>4, <1>8, <2>4 DEF EntriesOf
    <3>2. q <= s
      BY <2>4, <3>1 DEF Written
    <3>3. s \in Int /\ q \in Int
      BY DEF Index
    <3> QED
      BY <1>8, <3>2, <3>3
  <2>5. CASE ~ Written(st, s) /\ ~ Written(st, q)
    BY <1>4, <1>8, <2>5 DEF LinksInv, RateInv, FirstEntryIsLatest
  <2> QED
    BY <2>2, <2>3, <2>4, <2>5
<1>9. ASSUME NEW s \in Index, NEW q \in Index, s < q, l[s].station = l[q].station
      PROVE  l[s].at >= l[q].at
  <2>1. l[s].at \in Nat /\ l[q].at \in Nat
    BY <1>6 DEF Rate
  <2>2. CASE TooOld(written[q])
    <3>1. l[q].at = 0
      BY <1>5, <2>2 DEF NoRate
    <3> QED
      BY <2>1, <3>1
  <2>3. CASE ~ TooOld(written[q]) /\ TooOld(written[s])
    <3>1. l[q] = written[q] /\ l[q].station = NoStation
      BY <1>5, <1>9, <2>3 DEF NoRate
    <3>2. l[q].at = 0
      BY <1>4, <3>1 DEF RateGood
    <3> QED
      BY <2>1, <3>2
  <2>4. CASE ~ TooOld(written[q]) /\ ~ TooOld(written[s])
    BY <1>5, <1>8, <1>9, <2>4
  <2> QED
    BY <2>2, <2>3, <2>4
<1> QED
  BY <1>6, <1>7, <1>9 DEF l

\* What a station with a window does, in the terms of WindowsStep and RatesGood.
LEMMA FoundFacts ==
  ASSUME LinksInv, NEW st \in Station, Found(st)
  PROVE  /\ \E n \in Index : \E v :
              /\ Sampled(v, st) /\ linkinfo' = [GivenUp(linkinfo) EXCEPT ![n] = v]
              /\ \A w \in WindowsOf(st) : w = n
              /\ n \in WindowsOf(st)
         /\ \/ link' = link
            \/ \E base \in Sample : base.station # NoStation /\ link' = Rates(st, base)
<1> USE LinksTypes
<1>1. PICK n \in WindowsOf(st) :
        LET window == Stored(linkinfo[n], st)
            base == window.ring[window.tail]
        IN  /\ linkinfo[n].tail \in Place
            /\ linkinfo' = GivenUp([linkinfo EXCEPT ![n] = window])
            /\ link' = IF tick - base.at >= MinGap THEN Rates(st, base) ELSE link
  BY DEF Found
<1> DEFINE v == Stored(linkinfo[n], st)
<1>2. n \in Index /\ linkinfo[n].station = st /\ st # NoStation
  BY LinksAssumption DEF WindowsOf, LinksAssumption
<1>3. InOrder(linkinfo[n])
  BY <1>2 DEF WindowGood
<1>4. Latest(linkinfo[n]).at < tick
  <2>1. st \in Members(iwlist)
    BY TailFacts DEF Found, Turn, LinksInv, ListInv
  <2> QED
    BY <1>2, <2>1 DEF LinksInv, ListInv
<1>5. Sampled(v, st) /\ v.tail \in Place
  BY <1>1, <1>2, <1>3, <1>4, StoredGood
<1>6. /\ linkinfo' = GivenUp([linkinfo EXCEPT ![n] = v])
      /\ LET base == v.ring[v.tail] IN
           link' = IF tick - base.at >= MinGap THEN Rates(st, base) ELSE link
  BY <1>1
<1> HIDE DEF v
<1>7. v \in Window /\ ~ Stale(v) /\ v.station = st
  BY <1>5, SampledIsGood
<1>8. linkinfo' = [GivenUp(linkinfo) EXCEPT ![n] = v]
  BY <1>2, <1>6, <1>7 DEF GivenUp
<1>9. \A w \in WindowsOf(st) : w = n
  BY <1>2 DEF WindowsOf, LinksInv, OneWindowPerStation
<1>10. v.ring[v.tail] \in Sample /\ v.ring[v.tail].station # NoStation
  <2>1. Length(v) \in Nat /\ Length(v) > 0 /\ \A i \in 0 .. Length(v) - 1 : At(v, i).station # NoStation
    BY <1>2, <1>5, <1>7, LengthFacts DEF Sampled, InOrder
  <2>2. At(v, 0).station # NoStation
    BY <2>1
  <2>3. At(v, 0) = v.ring[v.tail]
    <3> DEFINE t == v.tail
    <3>1. At(v, 0) = v.ring[Wrapped(t + 0)]
      BY DEF At, Wrapped
    <3>2. t \in 0 .. IWAMOUNT - 1
      BY <1>5, PlaceWraps
    <3> HIDE DEF t
    <3>3. Wrapped(t + 0) = t
      BY <3>2, PlaceWraps
    <3> QED
      BY <3>1, <3>3 DEF t
  <2> QED
    BY <1>5, <1>7, <2>2, <2>3, WindowFacts
<1> QED
  BY <1>2, <1>5, <1>6, <1>8, <1>9, <1>10

LEMMA FoundStep ==
  ASSUME LinksInv, NEW st \in Station, Found(st)
  PROVE  LinksInv'
<1> USE LinksTypes
<1>1. Turn(st) /\ tick' = tick /\ found1' \in BOOLEAN /\ fault' \in BOOLEAN
  BY DEF Found, Turn
<1>2. /\ linkinfo' \in [Index -> Window] /\ iwlist' \in Seq(Station)
      /\ \A w \in Index : WindowGood(linkinfo'[w], tick)
      /\ OneWindowPerStation' /\ ListInv'
  BY <1>1, FoundFacts, WindowsStep
<1>3. link' \in [Index -> Rate] /\ RateInv'
  <2>1. CASE link' = link
    BY <1>1, <2>1 DEF LinksInv, RateInv, FirstEntryIsLatest
  <2>2. CASE \E base \in Sample : base.station # NoStation /\ link' = Rates(st, base)
    BY <1>1, <2>2, RatesGood DEF RateInv, FirstEntryIsLatest
  <2> QED
    BY <2>1, <2>2, FoundFacts
<1> QED
  BY <1>1, <1>2, <1>3 DEF LinksInv, LinksTypeOK

\* What a station without a window does: with the window that is taken over, its
\* station has not been sampled for more than two seconds.
LEMMA NotFoundFacts ==
  ASSUME LinksInv, NEW st \in Station, NotFound(st)
  PROVE  \/ linkinfo' = GivenUp(linkinfo)
         \/ \E n \in Index : \E v :
              /\ Sampled(v, st) /\ linkinfo' = [GivenUp(linkinfo) EXCEPT ![n] = v]
              /\ \/ linkinfo[n].station = NoStation
                 \/ Sec(tick) - Sec(Latest(linkinfo[n]).at) > 2
<1> USE LinksTypes
<1> DEFINE up == GivenUp(linkinfo)
<1>1. /\ up \in [Index -> Window]
      /\ \A w \in Index : /\ WindowGood(up[w], tick) /\ up[w].station = linkinfo[w].station
                          /\ Latest(up[w]) = Latest(linkinfo[w])
  BY GivenUpFacts
<1>2. \/ linkinfo' = up
      \/ \E n \in Free(up) : linkinfo' = [up EXCEPT ![n] = TakenOver(up[n], st)]
  BY <1>1 DEF NotFound, Free
<1> HIDE DEF up
<1>3. ASSUME NEW n \in Free(up), linkinfo' = [up EXCEPT ![n] = TakenOver(up[n], st)]
      PROVE  /\ n \in Index /\ Sampled(TakenOver(up[n], st), st)
             /\ \/ linkinfo[n].station = NoStation
                \/ Sec(tick) - Sec(Latest(linkinfo[n]).at) > 2
  <2>1. n \in Index /\ up[n] \in Window /\ up[n].sec = 0 /\ WindowGood(up[n], tick)
    BY <1>1, <1>3 DEF Free
  <2>2. up[n].station = NoStation => up[n].head = 0 /\ up[n].tail = 0
    BY <2>1 DEF WindowGood, NoWindow
  <2>3. ASSUME up[n].station # NoStation
        PROVE  /\ InOrder(up[n]) /\ Latest(up[n]).at < tick
               /\ Sec(tick) - Sec(Latest(up[n]).at) > 2
    <3> DEFINE a == Latest(up[n]).at
    <3>1. InOrder(up[n]) /\ a <= tick /\ Sec(tick) - Sec(a) > 2 /\ a \in Nat
      BY <2>1, <2>3, LatestIsSample DEF WindowGood
    <3> HIDE DEF a
    <3>2. a # tick
      <4>1. Sec(tick) \in Nat
        BY SecFacts
      <4> QED
        BY <3>1, <4>1
    <3>3. a < tick
      BY <3>1, <3>2
    <3> QED
      BY <3>1, <3>3 DEF a
  <2>4. Sampled(TakenOver(up[n], st), st)
    BY <2>1, <2>2, <2>3, TakenOverGood
  <2> QED
    BY <1>1, <2>1, <2>3, <2>4
<1> QED
  BY <1>2, <1>3 DEF up

LEMMA NotFoundStep ==
  ASSUME LinksInv, NEW st \in Station, NotFound(st)
  PROVE  LinksInv'
<1> USE LinksTypes
<1>1. /\ Turn(st) /\ tick' = tick /\ WindowsOf(st) = {} /\ link' = link
      /\ found1' \in BOOLEAN /\ fault' \in BOOLEAN
  BY DEF NotFound, Turn
<1>2. /\ linkinfo' \in [Index -> Window] /\ iwlist' \in Seq(Station)
      /\ \A w \in Index : WindowGood(linkinfo'[w], tick)
      /\ OneWindowPerStation' /\ ListInv'
  BY <1>1, NotFoundFacts, WindowsStep
<1>3. RateInv'
  BY <1>1 DEF LinksInv, RateInv, FirstEntryIsLatest
<1> QED
  BY <1>1, <1>2, <1>3 DEF LinksInv, LinksTypeOK

\* The callback stops in the middle of its list; the model goes no further.
LEMMA OverrunStep ==
  ASSUME LinksInv, NEW st \in Station, FoundOverrun(st)
  PROVE  LinksInv'
<1> USE LinksTypes
<1>1. /\ tick' = tick /\ iwlist' = Tail(iwlist) /\ iwlist # <<>> /\ OnceEach(iwlist)
      /\ linkinfo' = linkinfo /\ link' = link /\ found1' = found1 /\ fault' \in BOOLEAN
  BY DEF FoundOverrun, Turn, LinksInv, ListInv
<1>2. iwlist' \in Seq(Station) /\ OnceEach(iwlist') /\ Members(iwlist') \subseteq Members(iwlist)
  BY <1>1, TailFacts
<1>3. ListInv'
  BY <1>1, <1>2 DEF LinksInv, ListInv
<1> QED
  BY <1>1, <1>2, <1>3
     DEF LinksInv, LinksTypeOK, OneWindowPerStation, RateInv, FirstEntryIsLatest

LEMMA LinksInvInit == LinksInit => LinksInv
<1> SUFFICES ASSUME LinksInit PROVE LinksInv
  OBVIOUS
<1>1. 0 \in Place /\ 0 \in 0 .. IWAMOUNT /\ FirstTick \in Nat
  BY PlaceWraps, LinksAssumption DEF LinksAssumption
<1>2. NoSample \in Sample /\ NoWindow \in Window /\ NoRate \in Rate
  BY <1>1 DEF NoSample, Sample, NoWindow, Window, NoRate, Rate
<1>3. LinksTypeOK /\ tick >= FirstTick
  <2>1. linkinfo \in [Index -> Window] /\ link \in [Index -> Rate]
    BY <1>2 DEF LinksInit
  <2>2. found1 \in BOOLEAN /\ fault \in BOOLEAN
    BY DEF LinksInit
  <2>3. iwlist \in Seq(Station)
    <3>1. <<>> \in Seq(Station)
      OBVIOUS
    <3> QED
      BY <3>1 DEF LinksInit
  <2>4. tick \in Nat /\ tick >= FirstTick
    BY <1>1 DEF LinksInit
  <2> QED
    BY <2>1, <2>2, <2>3, <2>4 DEF LinksTypeOK
<1>4. WindowGood(NoWindow, tick)
  BY DEF WindowGood, InOrder, NoWindow
<1>5. OneWindowPerStation
  BY DEF LinksInit, OneWindowPerStation, NoWindow
<1>6. ListInv
  BY DEF LinksInit, ListInv, OnceEach, Members
<1>7. RateInv
  BY <1>1 DEF LinksInit, RateInv, RateGood, NoRate, FirstEntryIsLatest
<1> QED
  BY <1>3, <1>4, <1>5, <1>6, <1>7 DEF LinksInv, LinksInit

LEMMA LinksInvStep == LinksInv /\ [LinksNext]_linkVars => LinksInv'
<1> SUFFICES ASSUME LinksInv, [LinksNext]_linkVars PROVE LinksInv'
  OBVIOUS
<1>1. CASE Poll
  BY <1>1, PollStep
<1>2. ASSUME NEW st \in Station, Found(st) PROVE LinksInv'
  BY <1>2, FoundStep
<1>3. ASSUME NEW st \in Station, FoundOverrun(st) PROVE LinksInv'
  BY <1>3, OverrunStep
<1>4. ASSUME NEW st \in Station, NotFound(st) PROVE LinksInv'
  BY <1>4, NotFoundStep
<1>5. CASE UNCHANGED linkVars
  BY <1>5 DEF linkVars, LinksInv, LinksTypeOK, OneWindowPerStation, ListInv, RateInv,
              FirstEntryIsLatest
<1> QED
  BY <1>1, <1>2, <1>3, <1>4, <1>5 DEF LinksNext, Stopped

\* At any moment, whichever stations come and go: the windows, the rates and the list
\* of compare_and_iwlist are what LinksInv says.
THEOREM LinksInvariant == LinksSpec => []LinksInv
BY LinksInvInit, LinksInvStep, PTL DEF LinksSpec

\* linkinfo and iwp.link hold samples, times and indexes within their rings.
THEOREM LinksTypeCorrect == LinksSpec => []LinksTypeOK
<1>1. LinksInv => LinksTypeOK
  BY DEF LinksInv
<1> QED
  BY LinksInvariant, <1>1, PTL

\* compare_and_iwlist never gives a station a second window.
THEOREM WindowsAreUnique == LinksSpec => []OneWindowPerStation
<1>1. LinksInv => OneWindowPerStation
  BY DEF LinksInv
<1> QED
  BY LinksInvariant, <1>1, PTL

\* From tail to head a window of linkinfo is full of samples in the order of their
\* times, also after it has wrapped or passed to another station.
THEOREM WindowsInOrder == LinksSpec => []WindowInOrder
<1>1. LinksInv => WindowInOrder
  <2> SUFFICES ASSUME LinksInv, NEW n \in Index PROVE InOrder(linkinfo[n])
    BY DEF WindowInOrder, InOrder
  <2> QED
    BY DEF LinksInv, WindowGood
<1> QED
  BY LinksInvariant, <1>1, PTL

\* compare_and_iwlist hands a window on only when its station was silent for more
\* than two seconds.
THEOREM RecentKeeps == LinksSpec => RecentKeepsWindow
<1>1. LinksInv /\ [LinksNext]_linkVars =>
        [\A w \in Index : linkinfo'[w].station # linkinfo[w].station =>
           \/ linkinfo[w].station = NoStation
           \/ LET sample == linkinfo[w].ring[(linkinfo[w].head + IWAMOUNT - 1) % IWAMOUNT]
              IN Sec(tick) - Sec(sample.at) > 2]_linkVars
  <2> SUFFICES ASSUME LinksInv, LinksNext, NEW w \in Index,
                      linkinfo'[w].station # linkinfo[w].station
               PROVE  \/ linkinfo[w].station = NoStation
                      \/ Sec(tick) - Sec(Latest(linkinfo[w]).at) > 2
    BY DEF Latest
  <2>1. /\ GivenUp(linkinfo) \in [Index -> Window]
        /\ GivenUp(linkinfo)[w].station = linkinfo[w].station
    BY LinksTypes, GivenUpFacts
  <2>2. ASSUME NEW st \in Station, Found(st) PROVE FALSE
    <3>1. PICK n \in Index : \E v : /\ Sampled(v, st) /\ n \in WindowsOf(st)
                                    /\ linkinfo' = [GivenUp(linkinfo) EXCEPT ![n] = v]
      BY <2>2, FoundFacts
    <3> QED
      BY <2>1, <3>1 DEF WindowsOf, Sampled
  <2>3. ASSUME NEW st \in Station, NotFound(st)
        PROVE  \/ linkinfo[w].station = NoStation
               \/ Sec(tick) - Sec(Latest(linkinfo[w]).at) > 2
    BY <2>1, <2>3, NotFoundFacts
  <2>4. linkinfo' # linkinfo
    OBVIOUS
  <2> QED
    BY <2>2, <2>3, <2>4 DEF LinksNext, Poll, FoundOverrun, Stopped, linkVars
<1> QED
  BY LinksInvariant, <1>1, PTL DEF LinksSpec, RecentKeepsWindow

\* Of the rates that a callback writes or leaves in iwp.link none is old, none comes
\* from an emptied place, and the first of a station is its latest.
THEOREM RecentRates == LinksSpec => RatesAreRecent
<1>1. LinksInv /\ LinksInv' /\ [LinksNext]_linkVars =>
        [link' # link =>
           /\ \A s \in Index : link'[s].at # 0 => Sec(tick) - Sec(link'[s].at) <= 2
           /\ \A s \in Index : link'[s].at # 0 => link'[s].from.station # NoStation
           /\ FirstEntryIsLatest']_linkVars
  <2> SUFFICES ASSUME LinksInv, LinksInv', LinksNext, link' # link
               PROVE  /\ \A s \in Index : link'[s].at # 0 =>
                            /\ Sec(tick) - Sec(link'[s].at) <= 2
                            /\ link'[s].from.station # NoStation
                      /\ FirstEntryIsLatest'
    OBVIOUS
  <2>1. /\ \A s \in Index : link'[s].at # 0 => link'[s].from.station # NoStation
        /\ FirstEntryIsLatest'
    BY DEF LinksInv, RateInv, RateGood
  <2>2. ASSUME NEW st \in Station, Found(st)
        PROVE  \A s \in Index : link'[s].at # 0 => Sec(tick) - Sec(link'[s].at) <= 2
    <3>1. PICK base \in Sample : base.station # NoStation /\ link' = Rates(st, base)
      BY <2>2, FoundFacts
    <3> QED
      BY <3>1, RatesGood
  <2> QED
    BY <2>1, <2>2 DEF LinksNext, Poll, NotFound, FoundOverrun, Stopped, linkVars
<1> QED
  BY LinksInvariant, <1>1, PTL DEF LinksSpec, RatesAreRecent
=============================================================================

------------------------ MODULE CollectorPoolProofs ------------------------
(***************************************************************************)
(* Proofs about CollectorPool, for any size of the ring, any number of     *)
(* receivers and any burst: type correctness and mutual exclusion with or  *)
(* without pacing, and, with pacing, that the ring is a first-in first-out *)
(* queue of everything that was stored.                                    *)
(***************************************************************************)
EXTENDS CollectorPool, FiniteSetTheorems, TLAPS

-----------------------------------------------------------------------------
(* Facts about the remainder, which the solvers do not derive when the      *)
(* divisor is a constant of the specification.                              *)

\* Every number is a multiple of the size of the ring and its remainder.
LEMMA Quotient ==
  ASSUME NEW S \in Nat \ {0}, NEW a \in Nat
  PROVE  \E q \in Nat : a = S * q + (a % S)
<1> DEFINE q == a \div S
<1>1. q \in Nat
  OBVIOUS
<1>2. ASSUME NEW p \in Nat, p = q PROVE a = S * p + (a % S)
  BY <1>2, Z3
<1> QED
  BY <1>1, <1>2

\* The remainder of a number written that way.
LEMMA Remainder ==
  ASSUME NEW S \in Nat \ {0}, NEW q \in Nat, NEW r \in 0 .. S - 1
  PROVE  (S * q + r) % S = r
  OBVIOUS

\* An index is its own remainder, and the size of the ring wraps to zero.
LEMMA ModWrap ==
  ASSUME NEW S \in Nat \ {0}
  PROVE  S % S = 0 /\ \A n \in 0 .. S - 1 : n % S = n
  OBVIOUS

\* The successor of an index of the ring, wrapped.
LEMMA ModNext ==
  ASSUME NEW S \in Nat \ {0}, NEW n \in 0 .. S - 1
  PROVE  (n + 1) % S = IF n = S - 1 THEN 0 ELSE n + 1
<1>1. CASE n = S - 1
  <2>1. n + 1 = S
    BY <1>1
  <2> QED
    BY <2>1, <1>1, ModWrap
<1>2. CASE n # S - 1
  <2>1. n + 1 \in 0 .. S - 1
    BY <1>2
  <2> QED
    BY <2>1, <1>2, ModWrap
<1> QED
  BY <1>1, <1>2

\* Advancing an index of a ring by one: the wrap at the end.
LEMMA ModSucc ==
  ASSUME NEW S \in Nat \ {0}, NEW a \in Nat
  PROVE  (a + 1) % S = IF a % S = S - 1 THEN 0 ELSE (a % S) + 1
<1>1. PICK q \in Nat : a = S * q + (a % S)
  BY Quotient
<1> DEFINE r == a % S
<1>2. r \in 0 .. S - 1
  OBVIOUS
<1>3. CASE r = S - 1
  <2>1. a + 1 = S * (q + 1) + 0
    BY <1>1, <1>3
  <2>2. (S * (q + 1) + 0) % S = 0
    BY Remainder
  <2> QED
    BY <2>1, <2>2, <1>3
<1>4. CASE r # S - 1
  <2>1. a + 1 = S * q + (r + 1) /\ r + 1 \in 0 .. S - 1
    BY <1>1, <1>2, <1>4
  <2>2. (S * q + (r + 1)) % S = r + 1
    BY <2>1, Remainder
  <2> QED
    BY <2>1, <2>2, <1>4
<1> QED
  BY <1>3, <1>4

\* Two positions less than a lap apart are different slots.
LEMMA ModDiff ==
  ASSUME NEW S \in Nat \ {0}, NEW a \in Nat, NEW b \in Nat, a < b, b - a < S
  PROVE  a % S # b % S
<1>1. PICK q \in Nat : a = S * q + (a % S)
  BY Quotient
<1>2. PICK p \in Nat : b = S * p + (b % S)
  BY Quotient
<1> DEFINE r == a % S
<1> SUFFICES ASSUME b % S = r PROVE FALSE
  OBVIOUS
<1>3. r \in Nat /\ a = S * q + r /\ b = S * p + r
  BY <1>1, <1>2
<1> HIDE DEF r
<1>4. b - a = S * (p - q)
  BY <1>3
<1>5. CASE p <= q
  BY <1>4, <1>5, <1>3
<1>6. CASE p >= q + 1
  BY <1>4, <1>6, <1>3
<1> QED
  BY <1>5, <1>6

\* The distance from h to t on the ring, t a slot or the place after the last.
LEMMA ModDistance ==
  ASSUME NEW S \in Nat \ {0}, NEW h \in 0 .. S - 1, NEW t \in 0 .. S
  PROVE  (t + S - h) % S = 0 <=> (t = h \/ (t = S /\ h = 0))
<1>1. CASE t = S /\ h = 0
  <2>1. t + S - h = S * 2 + 0
    BY <1>1
  <2>2. (S * 2 + 0) % S = 0
    BY Remainder
  <2> QED
    BY <2>1, <2>2, <1>1
<1>2. CASE t < h
  <2>1. t + S - h = S * 0 + (t + S - h) /\ t + S - h \in 1 .. S - 1
    BY <1>2
  <2>2. (S * 0 + (t + S - h)) % S = t + S - h
    BY <2>1, Remainder
  <2> QED
    BY <2>1, <2>2, <1>2
<1>3. CASE t >= h /\ t - h < S
  <2>1. t + S - h = S * 1 + (t - h) /\ t - h \in 0 .. S - 1
    BY <1>3
  <2>2. (S * 1 + (t - h)) % S = t - h
    BY <2>1, Remainder
  <2> QED
    BY <2>1, <2>2, <1>3
<1> QED
  BY <1>1, <1>2, <1>3

-----------------------------------------------------------------------------

InSection(r) == rpc[r] \in {"memcpy", "advance", "wrap", "unlock"}

\* Whoever touches the ring holds the mutex.
MutexInv ==
  /\ \A r \in Receiver : InSection(r) => mutex_pool = r
  /\ ppc \in {"memcpy", "unlock"} => mutex_pool = "processor"

\* The indices follow the counts, but for the two steps that move tail.
Settled == \A r \in Receiver : rpc[r] \notin {"advance", "wrap"}
TailInv ==
  /\ \A r \in Receiver :
       rpc[r] = "advance" => stored # 0 /\ tail = (stored - 1) % Slots
  /\ \A r \in Receiver :
       rpc[r] = "wrap" => stored # 0 /\ tail = ((stored - 1) % Slots) + 1
  /\ Settled => tail = stored % Slots
HeadInv == head = Taken % Slots

RingInv == TypeOK /\ MutexInv /\ TailInv /\ HeadInv

-----------------------------------------------------------------------------
LEMMA SlotFacts ==
  /\ Slots \in Nat \ {0} /\ 0 \in Slot
  /\ \A n \in Nat : n % Slots \in Slot
  /\ "processor" \notin Receiver /\ "none" \notin Receiver
  BY PoolAssumption DEF PoolAssumption, Slot

LEMMA RingInit == Init => RingInv
<1> SUFFICES ASSUME Init PROVE RingInv
  OBVIOUS
<1> USE SlotFacts
<1>1. TypeOK
  BY DEF Init, TypeOK, PaceType, PoolType, ThreadType, CountType, Slot
<1>2. MutexInv
  BY DEF Init, MutexInv, InSection
<1>3. 0 % Slots = 0
  OBVIOUS
<1>4. TailInv /\ HeadInv
  BY <1>3 DEF Init, TailInv, HeadInv, Settled, Taken
<1> QED
  BY <1>1, <1>2, <1>4 DEF RingInv

\* Whether the receivers are paced is settled at the start.
LEMMA PaceStays == ASSUME PaceType, [Next]_vars PROVE paced' = paced /\ PaceType'
<1>1. paced' = paced
  BY DEF Next, Receive, Recvfrom, Lock, Store, Advance, Wrap, Unlock, Processor, Test,
         ProcessorLock, Fetch, ProcessorUnlock, Process, Quiet, vars
<1> QED
  BY <1>1 DEF PaceType

\* The steps of a receiver: types, with the range of tail apart.
LEMMA TypedReceive ==
  ASSUME TypeOK, NEW r \in Receiver, Receive(r),
         rpc[r] = "advance" => tail \in Slot,
         rpc[r] = "wrap" => tail' \in Slot
  PROVE  TypeOK'
<1> USE DEF TypeOK, PoolType, ThreadType, CountType
<1>1. PaceType'
  BY PaceStays DEF Next
<1>2. CASE Recvfrom(r)
  BY <1>1, <1>2 DEF Recvfrom, ring
<1>3. CASE Lock(r)
  BY <1>1, <1>3 DEF Lock, ring
<1>4. CASE Store(r)
  <2>1. PoolType'
    <3>1. /\ buffer_pool' = [buffer_pool EXCEPT ![tail] = stored + 1]
          /\ head' = head /\ tail' = tail
      BY <1>4 DEF Store
    <3>2. stored + 1 \in Nat
      OBVIOUS
    <3>3. buffer_pool' \in [Slot -> Nat]
      BY <3>1, <3>2, Zenon
    <3> QED
      BY <3>1, <3>3
  <2>2. ThreadType' /\ CountType'
    BY <1>4 DEF Store
  <2> QED
    BY <1>1, <2>1, <2>2
<1>5. CASE Advance(r)
  <2>1. tail' \in 0 .. Slots
    BY <1>5, SlotFacts DEF Advance, Slot
  <2> QED
    BY <1>1, <1>5, <2>1 DEF Advance
<1>6. CASE Wrap(r)
  BY <1>1, <1>6, PoolAssumption DEF Wrap, Slot, PoolAssumption
<1>7. CASE Unlock(r)
  BY <1>1, <1>7 DEF Unlock, ring
<1> QED
  BY <1>2, <1>3, <1>4, <1>5, <1>6, <1>7 DEF Receive

\* Mutual exclusion, by the steps of a receiver.
LEMMA MutexReceive ==
  ASSUME ThreadType, MutexInv, NEW r \in Receiver, Receive(r)
  PROVE  MutexInv'
<1> USE DEF ThreadType, MutexInv, InSection
<1>2. CASE Recvfrom(r)
  BY <1>2 DEF Recvfrom
<1>3. CASE Lock(r)
  BY <1>3, SlotFacts DEF Lock
<1>4. CASE Store(r)
  BY <1>4 DEF Store
<1>5. CASE Advance(r)
  BY <1>5 DEF Advance
<1>6. CASE Wrap(r)
  BY <1>6 DEF Wrap
<1>7. CASE Unlock(r)
  <2>1. \A q \in Receiver : InSection(q) => q = r
    BY <1>7 DEF Unlock
  <2>2. ppc \notin {"memcpy", "unlock"}
    BY <1>7, SlotFacts DEF Unlock
  <2> QED
    BY <1>7, <2>1, <2>2 DEF Unlock
<1> QED
  BY <1>2, <1>3, <1>4, <1>5, <1>6, <1>7 DEF Receive

\* While a receiver is in its section no other one moves tail.
LEMMA Alone ==
  ASSUME MutexInv, NEW r \in Receiver, InSection(r)
  PROVE  \A q \in Receiver : q # r => rpc[q] \notin {"advance", "wrap"}
  BY DEF MutexInv, InSection

LEMMA TailReceive ==
  ASSUME RingInv, NEW r \in Receiver, Receive(r)
  PROVE  TailInv' /\ (rpc[r] = "advance" => tail \in Slot)
                  /\ (rpc[r] = "wrap" => tail' \in Slot)
<1> USE DEF RingInv, TypeOK, ThreadType, CountType
<1>2. CASE Recvfrom(r) \/ Lock(r) \/ Unlock(r)
  <2>1. stored' = stored /\ tail' = tail
    BY <1>2 DEF Recvfrom, Lock, Unlock, ring
  <2>2. \A q \in Receiver : \A p \in {"advance", "wrap"} : rpc'[q] = p <=> rpc[q] = p
    BY <1>2 DEF Recvfrom, Lock, Unlock
  <2>3. rpc[r] \notin {"advance", "wrap"}
    BY <1>2 DEF Recvfrom, Lock, Unlock
  <2> QED
    BY <2>1, <2>2, <2>3 DEF TailInv, Settled
<1>4. CASE Store(r)
  <2>1. /\ rpc[r] = "memcpy" /\ stored' = stored + 1 /\ tail' = tail
        /\ rpc' = [rpc EXCEPT ![r] = "advance"]
    BY <1>4 DEF Store
  <2>2. \A q \in Receiver : q # r => rpc[q] \notin {"advance", "wrap"}
    BY Alone, <2>1 DEF InSection
  <2>3. tail = stored % Slots
    BY <2>1, <2>2 DEF TailInv, Settled
  <2>4. stored' # 0 /\ stored' - 1 = stored
    BY <2>1
  <2>5. tail' = (stored' - 1) % Slots
    BY <2>1, <2>3, <2>4
  <2>6. \A q \in Receiver : rpc'[q] = "advance" \/ rpc'[q] = "wrap" => q = r
    BY <2>1, <2>2
  <2> QED
    BY <2>1, <2>4, <2>5, <2>6 DEF TailInv, Settled
<1>5. CASE Advance(r)
  <2>1. /\ rpc[r] = "advance" /\ stored' = stored /\ tail' = tail + 1
        /\ rpc' = [rpc EXCEPT ![r] = "wrap"]
    BY <1>5 DEF Advance
  <2>2. \A q \in Receiver : q # r => rpc[q] \notin {"advance", "wrap"}
    BY Alone, <2>1 DEF InSection
  <2>3. stored # 0 /\ tail = (stored - 1) % Slots
    BY <2>1 DEF TailInv
  <2>4. tail \in Slot
    <3>1. stored - 1 \in Nat
      BY <2>3
    <3> QED
      BY <3>1, <2>3, SlotFacts
  <2>5. \A q \in Receiver : rpc'[q] = "advance" \/ rpc'[q] = "wrap" => q = r
    BY <2>1, <2>2
  <2> QED
    BY <2>1, <2>3, <2>4, <2>5 DEF TailInv, Settled
<1>6. CASE Wrap(r)
  <2>1. /\ rpc[r] = "wrap" /\ stored' = stored /\ tail' = tail % Slots
        /\ rpc' = [rpc EXCEPT ![r] = "unlock"]
    BY <1>6 DEF Wrap, Wrapped
  <2>2. \A q \in Receiver : q # r => rpc[q] \notin {"advance", "wrap"}
    BY Alone, <2>1 DEF InSection
  <2>3. stored # 0 /\ tail = ((stored - 1) % Slots) + 1
    BY <2>1 DEF TailInv
  <2> DEFINE m == (stored - 1) % Slots
  <2>4. stored - 1 \in Nat /\ stored - 1 + 1 = stored
    BY <2>3
  <2>5. m \in 0 .. Slots - 1
    BY <2>4, SlotFacts DEF Slot
  <2>6. stored % Slots = IF m = Slots - 1 THEN 0 ELSE m + 1
    BY <2>4, ModSucc, SlotFacts
  <2> HIDE DEF m
  <2>7. (m + 1) % Slots = IF m = Slots - 1 THEN 0 ELSE m + 1
    BY <2>5, ModNext, SlotFacts
  <2>8. tail' = stored % Slots
    BY <2>1, <2>3, <2>6, <2>7 DEF m
  <2>9. tail' \in Slot
    BY <2>8, SlotFacts
  <2>10. \A q \in Receiver : rpc'[q] \notin {"advance", "wrap"}
    BY <2>1, <2>2
  <2> QED
    BY <2>1, <2>8, <2>9, <2>10 DEF TailInv, Settled
<1> QED
  BY <1>2, <1>4, <1>5, <1>6 DEF Receive

LEMMA RingReceive ==
  ASSUME RingInv, NEW r \in Receiver, Receive(r)
  PROVE  RingInv'
<1>1. head' = head /\ ppc' = ppc /\ processed' = processed
  BY DEF Receive, Recvfrom, Lock, Store, Advance, Wrap, Unlock, ring
<1>2. HeadInv'
  BY <1>1 DEF RingInv, HeadInv, Taken
<1>3. TailInv'
  BY TailReceive
<1>4. TypeOK'
  BY TailReceive, TypedReceive DEF RingInv
<1>5. MutexInv'
  BY MutexReceive DEF RingInv, TypeOK
<1> QED
  BY <1>2, <1>3, <1>4, <1>5 DEF RingInv

\* The steps of the processor.
LEMMA RingProcessor ==
  ASSUME RingInv, Processor
  PROVE  RingInv'
<1> USE DEF RingInv, TypeOK, ThreadType, CountType
<1>0. rpc' = rpc /\ stored' = stored /\ tail' = tail
  BY DEF Processor, Test, ProcessorLock, Fetch, ProcessorUnlock, Process, ring
<1>7. PaceType'
  BY PaceStays DEF Next
<1>1. TailInv'
  BY <1>0 DEF TailInv, Settled
<1>2. CASE Test
  BY <1>1, <1>2, <1>7 DEF Test, ring, PoolType, MutexInv, InSection, HeadInv, Taken
<1>3. CASE ProcessorLock
  <2>1. HeadInv' /\ PoolType'
    BY <1>3 DEF ProcessorLock, ring, PoolType, HeadInv, Taken
  <2>2. \A r \in Receiver : ~InSection(r)
    BY <1>3, SlotFacts DEF ProcessorLock, MutexInv
  <2>3. MutexInv' /\ ThreadType' /\ CountType'
    BY <1>3, <2>2 DEF ProcessorLock, MutexInv, InSection
  <2> QED
    BY <1>1, <1>7, <2>1, <2>3
<1>4. CASE Fetch
  <2>1. /\ ppc = "memcpy" /\ ppc' = "unlock" /\ processed' = processed
        /\ head' = (head + 1) % Slots /\ buffer_pool' = buffer_pool
        /\ mutex_pool' = mutex_pool /\ arrived' = arrived
        /\ buffer' = buffer_pool[head]
    BY <1>4 DEF Fetch, NextHead
  <2>2. Taken \in Nat /\ Taken' = Taken + 1
    BY <2>1 DEF Taken
  <2> DEFINE m == Taken % Slots
  <2>3. head = m /\ m \in 0 .. Slots - 1
    BY <2>2, SlotFacts DEF HeadInv, Slot
  <2>4. (Taken + 1) % Slots = IF m = Slots - 1 THEN 0 ELSE m + 1
    BY <2>2, ModSucc, SlotFacts
  <2>5. (m + 1) % Slots = IF m = Slots - 1 THEN 0 ELSE m + 1
    <3> HIDE DEF m
    <3> QED
      BY <2>3, ModNext, SlotFacts
  <2>6. HeadInv'
    BY <2>1, <2>2, <2>3, <2>4, <2>5 DEF HeadInv
  <2>7. head' \in Slot
    <3>1. head' = Taken' % Slots /\ Taken' \in Nat
      BY <2>2, <2>6 DEF HeadInv
    <3> HIDE DEF HeadInv
    <3> QED
      BY <3>1, SlotFacts
  <2>8. MutexInv'
    BY <1>0, <2>1 DEF MutexInv, InSection
  <2> QED
    BY <1>0, <1>1, <1>7, <2>1, <2>6, <2>7, <2>8 DEF PoolType
<1>5. CASE ProcessorUnlock
  <2>1. HeadInv' /\ PoolType' /\ ThreadType' /\ CountType'
    BY <1>5 DEF ProcessorUnlock, ring, PoolType, HeadInv, Taken
  <2>2. \A r \in Receiver : ~InSection(r)
    BY <1>5, SlotFacts DEF ProcessorUnlock, MutexInv
  <2>3. MutexInv'
    BY <1>5, <2>2 DEF ProcessorUnlock, MutexInv, InSection
  <2> QED
    BY <1>1, <1>7, <2>1, <2>3
<1>6. CASE Process
  <2>1. /\ ppc = "again" /\ ppc' \in {"lock", "test"}
        /\ processed' = Append(processed, buffer)
        /\ head' = head /\ buffer_pool' = buffer_pool /\ mutex_pool' = mutex_pool
        /\ arrived' = arrived /\ buffer' = buffer
    BY <1>6 DEF Process, ring
  <2>2. Taken' = Taken
    BY <2>1 DEF Taken
  <2> QED
    BY <1>0, <1>1, <1>7, <2>1, <2>2 DEF PoolType, MutexInv, InSection, HeadInv
<1> QED
  BY <1>2, <1>3, <1>4, <1>5, <1>6 DEF Processor

LEMMA RingStep == RingInv /\ [Next]_vars => RingInv'
<1> SUFFICES ASSUME RingInv, [Next]_vars PROVE RingInv'
  OBVIOUS
<1>1. CASE UNCHANGED vars
  BY <1>1 DEF vars, ring, RingInv, TypeOK, PaceType, PoolType, ThreadType, CountType,
              MutexInv, InSection, TailInv, Settled, HeadInv, Taken
<1>2. CASE Quiet
  BY <1>1, <1>2 DEF Quiet
<1> QED
  BY <1>1, <1>2, RingReceive, RingProcessor DEF Next

\* Whatever the order of the three threads, with the ring overrun or not, each
\* variable of the pool keeps its type: head and tail stay inside the pool.
THEOREM TypeCorrect == Spec => []TypeOK
<1>1. RingInv => TypeOK
  BY DEF RingInv
<1> QED
  BY RingInit, RingStep, <1>1, PTL DEF Spec

-----------------------------------------------------------------------------
(* With pacing: the ring is a queue.                                       *)

\* The receivers with a datagram that is not in the pool yet.
Holding == {r \in Receiver : rpc[r] \in {"lock", "memcpy"}}

CountInv == arrived = stored + Cardinality(Holding)
PaceInv == arrived - Taken <= Slots - 1
TakenInv ==
  /\ Taken <= stored
  /\ ppc \in {"lock", "memcpy"} => Taken < stored
  /\ \A r \in Receiver : rpc[r] \in {"advance", "wrap"} => Taken < stored
  /\ ppc \in {"unlock", "again"} => buffer = Len(processed) + 1
\* The last Slots datagrams stored are in the pool, each in its own slot.
ContentInv ==
  \A c \in 1 .. stored : c > stored - Slots => buffer_pool[(c - 1) % Slots] = c

QueueInv == RingInv /\ CountInv /\ PaceInv /\ TakenInv /\ ContentInv

LEMMA HoldingFacts ==
  IsFiniteSet(Holding) /\ Cardinality(Holding) \in Nat
<1>1. Holding \subseteq Receiver
  BY DEF Holding
<1>2. IsFiniteSet(Receiver)
  BY PoolAssumption DEF PoolAssumption
<1> QED
  BY <1>1, <1>2, FS_Subset, FS_CardinalityType

LEMMA QueueInit == Init => QueueInv
<1> SUFFICES ASSUME Init PROVE QueueInv
  OBVIOUS
<1>1. RingInv
  BY RingInit
<1>2. Holding = {}
  BY DEF Init, Holding
<1>3. CountInv
  BY <1>2, FS_EmptySet DEF CountInv, Init
<1>4. PaceInv /\ TakenInv /\ ContentInv
  BY SlotFacts DEF Init, PaceInv, TakenInv, ContentInv, Taken
<1> QED
  BY <1>1, <1>3, <1>4 DEF QueueInv

\* The count of what the receivers hold.
LEMMA CountReceive ==
  ASSUME RingInv, CountInv, NEW r \in Receiver, Receive(r)
  PROVE  CountInv'
<1> USE DEF RingInv, TypeOK, ThreadType, CountType
<1>0. IsFiniteSet(Holding) /\ Cardinality(Holding) \in Nat
  BY HoldingFacts
<1>1. CASE Recvfrom(r)
  <2>1. Holding' = Holding \cup {r} /\ r \notin Holding
    BY <1>1 DEF Recvfrom, Holding
  <2>2. Cardinality(Holding') = Cardinality(Holding) + 1
    BY <1>0, <2>1, FS_AddElement
  <2> QED
    BY <1>0, <1>1, <2>2 DEF Recvfrom, CountInv
<1>2. CASE Store(r)
  <2>1. Holding' = Holding \ {r} /\ r \in Holding
    BY <1>2 DEF Store, Holding
  <2>2. Cardinality(Holding') = Cardinality(Holding) - 1
    BY <1>0, <2>1, FS_RemoveElement
  <2> QED
    BY <1>0, <1>2, <2>2 DEF Store, CountInv
<1>3. CASE Lock(r) \/ Advance(r) \/ Wrap(r) \/ Unlock(r)
  <2>1. Holding' = Holding
    BY <1>3 DEF Lock, Advance, Wrap, Unlock, Holding
  <2>2. arrived' = arrived /\ stored' = stored
    BY <1>3 DEF Lock, Advance, Wrap, Unlock
  <2> QED
    BY <2>1, <2>2 DEF CountInv
<1> QED
  BY <1>1, <1>2, <1>3 DEF Receive

\* A store overwrites the slot a whole lap back, which has been taken out.
LEMMA ContentStore ==
  ASSUME RingInv, ContentInv, NEW r \in Receiver, Store(r)
  PROVE  ContentInv'
<1> USE DEF RingInv, TypeOK, PoolType, ThreadType, CountType
<1>1. /\ rpc[r] = "memcpy" /\ stored' = stored + 1
      /\ buffer_pool' = [buffer_pool EXCEPT ![tail] = stored + 1]
  BY DEF Store
<1>2. Settled
  BY <1>1, Alone DEF Settled, InSection
<1>3. tail = stored % Slots /\ stored % Slots \in Slot
  BY <1>2, SlotFacts DEF TailInv
<1> SUFFICES ASSUME NEW c \in 1 .. stored', c > stored' - Slots
             PROVE  buffer_pool'[(c - 1) % Slots] = c
  BY DEF ContentInv
<1>4. CASE c = stored + 1
  <2>1. c - 1 = stored
    BY <1>4
  <2> QED
    BY <1>1, <1>3, <1>4, <2>1
<1>5. CASE c # stored + 1
  <2>1. /\ c - 1 \in Nat /\ c - 1 < stored /\ stored - (c - 1) < Slots
        /\ c \in 1 .. stored /\ c > stored - Slots
    BY <1>1, <1>5, SlotFacts
  <2>2. (c - 1) % Slots # stored % Slots
    BY <2>1, ModDiff, SlotFacts
  <2>3. (c - 1) % Slots \in Slot
    BY <2>1, SlotFacts
  <2>4. buffer_pool[(c - 1) % Slots] = c
    BY <2>1 DEF ContentInv
  <2> QED
    BY <1>1, <1>3, <2>2, <2>3, <2>4
<1> QED
  BY <1>4, <1>5

LEMMA QueueReceive ==
  ASSUME QueueInv, paced, NEW r \in Receiver, Receive(r)
  PROVE  QueueInv'
<1> USE DEF QueueInv, RingInv, TypeOK, ThreadType, CountType
<1>1. RingInv'
  BY RingReceive
<1>2. CountInv'
  BY CountReceive
<1>3. /\ ppc' = ppc /\ processed' = processed /\ buffer' = buffer
      /\ Taken' = Taken /\ Taken \in Nat
  <2>1. ppc' = ppc /\ processed' = processed /\ buffer' = buffer
    BY DEF Receive, Recvfrom, Lock, Store, Advance, Wrap, Unlock, ring
  <2> QED
    BY <2>1 DEF Taken
<1>4. CASE Recvfrom(r)
  <2>1. /\ arrived - Taken < Slots - 1 /\ arrived' = arrived + 1
        /\ stored' = stored /\ buffer_pool' = buffer_pool
        /\ rpc' = [rpc EXCEPT ![r] = "lock"]
    BY <1>4 DEF Recvfrom, ring
  <2>2. PaceInv'
    BY <1>3, <2>1, SlotFacts DEF PaceInv
  <2>3. TakenInv' /\ ContentInv'
    BY <1>3, <2>1 DEF TakenInv, ContentInv
  <2> QED
    BY <1>1, <1>2, <2>2, <2>3
<1>5. CASE Store(r)
  <2>1. /\ arrived' = arrived /\ stored' = stored + 1
        /\ rpc' = [rpc EXCEPT ![r] = "advance"]
    BY <1>5 DEF Store
  <2>2. PaceInv' /\ TakenInv'
    BY <1>3, <2>1 DEF PaceInv, TakenInv
  <2> QED
    BY <1>1, <1>2, <1>5, <2>2, ContentStore
<1>6. CASE Advance(r)
  <2>1. /\ arrived' = arrived /\ stored' = stored /\ buffer_pool' = buffer_pool
        /\ rpc[r] = "advance" /\ rpc' = [rpc EXCEPT ![r] = "wrap"]
    BY <1>6 DEF Advance
  <2> QED
    BY <1>1, <1>2, <1>3, <2>1 DEF PaceInv, TakenInv, ContentInv
<1>7. CASE Lock(r) \/ Wrap(r) \/ Unlock(r)
  <2>1. /\ arrived' = arrived /\ stored' = stored /\ buffer_pool' = buffer_pool
        /\ \A q \in Receiver : rpc'[q] \in {"advance", "wrap"} => rpc'[q] = rpc[q]
    BY <1>7 DEF Lock, Wrap, Unlock, ring
  <2> QED
    BY <1>1, <1>2, <1>3, <2>1 DEF PaceInv, TakenInv, ContentInv
<1> QED
  BY <1>4, <1>5, <1>6, <1>7 DEF Receive

\* The unlocked test: what it finds is there, even while tail is moved.
LEMMA UlenSound ==
  ASSUME RingInv, TakenInv, Ulen > 0
  PROVE  Taken < stored
<1> USE DEF RingInv, TypeOK, CountType, PoolType
<1>1. Taken \in Nat /\ Taken <= stored
  BY DEF TakenInv, Taken
<1> SUFFICES ASSUME Taken = stored PROVE FALSE
  BY <1>1
<1>2. Settled
  BY DEF TakenInv, Settled
<1>3. tail = head
  BY <1>2 DEF TailInv, HeadInv
<1>4. Ulen = 0
  BY <1>3, ModDistance, SlotFacts DEF Ulen, Slot
<1> QED
  BY <1>4

LEMMA QueueProcessor ==
  ASSUME QueueInv, paced, Processor
  PROVE  QueueInv'
<1> USE DEF QueueInv, RingInv, TypeOK, ThreadType, CountType
<1>1. RingInv'
  BY RingProcessor
<1>2. rpc' = rpc /\ stored' = stored /\ arrived' = arrived /\ buffer_pool' = buffer_pool
  BY DEF Processor, Test, ProcessorLock, Fetch, ProcessorUnlock, Process, ring
<1>3. CountInv' /\ ContentInv'
  BY <1>2 DEF CountInv, ContentInv, Holding
<1>4. Taken \in Nat
  BY DEF Taken
<1>5. CASE Test
  <2>1. Taken < stored
    BY <1>5, UlenSound DEF Test
  <2>2. ppc = "test" /\ ppc' = "lock" /\ processed' = processed
    BY <1>5 DEF Test
  <2> QED
    BY <1>1, <1>2, <1>3, <2>1, <2>2 DEF TakenInv, PaceInv, Taken
<1>6. CASE ProcessorLock
  <2>1. ppc = "lock" /\ ppc' = "memcpy" /\ processed' = processed
    BY <1>6 DEF ProcessorLock
  <2> QED
    BY <1>1, <1>2, <1>3, <2>1 DEF TakenInv, PaceInv, Taken
<1>7. CASE Fetch
  <2>1. /\ ppc = "memcpy" /\ ppc' = "unlock" /\ processed' = processed
        /\ buffer' = buffer_pool[head]
    BY <1>7 DEF Fetch
  <2>2. /\ Taken = Len(processed) /\ Taken' = Taken + 1 /\ Taken < stored
    BY <2>1 DEF Taken, TakenInv
  <2>3. stored - Taken <= Slots - 1
    <3>1. arrived \in Nat /\ stored \in Nat /\ Slots \in Nat
      BY SlotFacts
    <3>2. stored <= arrived
      BY <3>1, HoldingFacts DEF CountInv
    <3>3. arrived - Taken <= Slots - 1
      BY DEF PaceInv
    <3> QED
      BY <1>4, <3>1, <3>2, <3>3
  <2>4. buffer' = Taken + 1
    <3>1. Taken + 1 \in 1 .. stored /\ Taken + 1 > stored - Slots
      <4>1. stored \in Nat /\ Slots \in Nat
        BY SlotFacts
      <4> QED
        BY <4>1, <1>4, <2>2, <2>3
    <3>2. ASSUME NEW c \in 1 .. stored, c > stored - Slots, c = Taken + 1
          PROVE  buffer_pool[head] = c
      <4>1. buffer_pool[(c - 1) % Slots] = c
        BY <3>2 DEF ContentInv
      <4>2. c - 1 = Taken
        BY <1>4, <3>2
      <4> QED
        BY <4>1, <4>2, Zenon DEF HeadInv
    <3> QED
      BY <2>1, <3>1, <3>2
  <2>5. \A r \in Receiver : rpc[r] \notin {"advance", "wrap"}
    BY <2>1, SlotFacts DEF MutexInv, InSection
  <2>6. TakenInv'
    BY <1>2, <1>4, <2>1, <2>2, <2>4, <2>5 DEF TakenInv
  <2>7. PaceInv'
    BY <1>2, <1>4, <2>2, SlotFacts DEF PaceInv
  <2> QED
    BY <1>1, <1>3, <2>6, <2>7
<1>8. CASE ProcessorUnlock
  <2>1. /\ ppc = "unlock" /\ ppc' = "again" /\ processed' = processed
        /\ buffer' = buffer
    BY <1>8 DEF ProcessorUnlock
  <2> QED
    BY <1>1, <1>2, <1>3, <2>1 DEF TakenInv, PaceInv, Taken
<1>9. CASE Process
  <2>1. /\ ppc = "again" /\ ppc' \in {"lock", "test"} /\ (ppc' = "lock" => Ulen > 0)
        /\ processed' = Append(processed, buffer)
    BY <1>9 DEF Process
  <2>2. Taken' = Taken
    BY <2>1 DEF Taken
  <2>3. ppc' = "lock" => Taken < stored
    BY <2>1, UlenSound
  <2> QED
    BY <1>1, <1>2, <1>3, <2>1, <2>2, <2>3 DEF TakenInv, PaceInv
<1> QED
  BY <1>5, <1>6, <1>7, <1>8, <1>9 DEF Processor

\* Without pacing nothing is claimed but the shape of the ring.
PacedInv == PaceType /\ RingInv /\ (paced => QueueInv)

LEMMA QueueStep == PacedInv /\ [Next]_vars => PacedInv'
<1> SUFFICES ASSUME PacedInv, [Next]_vars PROVE PacedInv'
  OBVIOUS
<1>1. paced' = paced /\ PaceType'
  BY PaceStays DEF PacedInv
<1>2. RingInv'
  BY RingStep DEF PacedInv
<1>3. ASSUME paced PROVE QueueInv'
  <2>1. QueueInv
    BY <1>3 DEF PacedInv
  <2>2. CASE UNCHANGED vars
    BY <1>2, <2>1, <2>2 DEF vars, ring, QueueInv, CountInv, Holding, PaceInv,
                            TakenInv, ContentInv, Taken
  <2>3. CASE Quiet
    BY <2>2, <2>3 DEF Quiet
  <2> QED
    BY <1>3, <2>1, <2>2, <2>3, QueueReceive, QueueProcessor DEF Next
<1> QED
  BY <1>1, <1>2, <1>3 DEF PacedInv

\* Each step of a paced pool is a step of the queue or leaves it unchanged; a
\* pool that is not paced leaves it as it was at the start.
Accepted == IF paced THEN stored ELSE 0
Delivered == IF paced THEN processed ELSE <<>>

LEMMA QueueRefines ==
  ASSUME PacedInv, [Next]_vars
  PROVE  [Queue!Next]_<<Accepted, Delivered>>
<1> USE DEF QueueInv, RingInv, TypeOK, ThreadType, CountType, Accepted, Delivered
<1>0. paced' = paced
  BY PaceStays DEF PacedInv
<1>1. CASE ~paced
  BY <1>0, <1>1
<1>2. CASE paced
  <2>0. QueueInv
    BY <1>2 DEF PacedInv
  <2>1. CASE \E r \in Receiver : Store(r)
    BY <1>0, <1>2, <2>1 DEF Store, Queue!Next, Queue!Accept
  <2>2. CASE Process
    <3>1. buffer = Len(processed) + 1 /\ Len(processed) < stored
      BY <2>0, <2>2 DEF Process, TakenInv, Taken
    <3> QED
      BY <1>0, <1>2, <2>2, <3>1 DEF Process, Queue!Next, Queue!Deliver
  <2>3. CASE UNCHANGED <<stored, processed>>
    BY <1>0, <2>3
  <2>4. (\E r \in Receiver : Store(r)) \/ Process \/ UNCHANGED <<stored, processed>>
    BY DEF Next, Receive, Processor, Recvfrom, Lock, Advance, Wrap, Unlock, Test,
           ProcessorLock, Fetch, ProcessorUnlock, Quiet, vars
  <2> QED
    BY <2>1, <2>2, <2>3, <2>4
<1> QED
  BY <1>1, <1>2, Zenon

\* With the receivers less than a lap ahead, the ring of receive.c is a queue:
\* every datagram stored is decoded once and in order, for every size of the
\* ring, although the processor tests head and tail without the mutex.
THEOREM PacedRingIsQueue == Spec => ImplementsQueue
<1>1. Init => Queue!Init
  BY DEF Init, Queue!Init
<1>2. PacedInv /\ [Next]_vars => [Queue!Next]_<<Accepted, Delivered>>
  BY QueueRefines
<1>3. Init => PacedInv
  BY QueueInit DEF PacedInv, QueueInv, RingInv, TypeOK
<1>4. PacedInv /\ [Next]_vars => PacedInv'
  BY QueueStep
<1> QED
  BY <1>1, <1>2, <1>3, <1>4, PTL
  DEF Spec, Queue!Spec, ImplementsQueue, Accepted, Delivered

-----------------------------------------------------------------------------
(* Without pacing: what an overrun costs.                                  *)

\* Numbers of one slot are whole laps apart.
LEMMA ModLaps ==
  ASSUME NEW S \in Nat \ {0}, NEW a \in Nat, NEW b \in Nat, a <= b, a % S = b % S
  PROVE  (b - a) % S = 0
<1>1. PICK q \in Nat : a = S * q + (a % S)
  BY Quotient
<1>2. PICK p \in Nat : b = S * p + (b % S)
  BY Quotient
<1> DEFINE r == a % S
<1>3. r \in Nat /\ a = S * q + r /\ b = S * p + r
  BY <1>1, <1>2
<1> HIDE DEF r
<1>4. b - a = S * (p - q)
  BY <1>3
<1>5. p >= q
  <2> SUFFICES ASSUME p + 1 <= q PROVE FALSE
    OBVIOUS
  <2>1. S * (p - q) <= 0 - S
    OBVIOUS
  <2> QED
    BY <1>3, <1>4, <2>1
<1>6. p - q \in Nat /\ b - a = S * (p - q) + 0
  BY <1>4, <1>5
<1>7. (S * (p - q) + 0) % S = 0
  BY <1>6, Remainder
<1> QED
  BY <1>6, <1>7

\* Every slot holds one of the last S numbers.
LEMMA ModRecent ==
  ASSUME NEW S \in Nat \ {0}, NEW a \in Nat, NEW b \in Nat, a <= b
  PROVE  \E c \in a .. b : b - c < S /\ c % S = a % S
<1>0. b - a \in Nat
  OBVIOUS
<1>1. PICK q \in Nat : b - a = S * q + ((b - a) % S)
  BY <1>0, Quotient
<1> DEFINE c == b - ((b - a) % S)
<1>2. (b - a) % S \in 0 .. S - 1
  OBVIOUS
<1>3. c \in Nat /\ c = a + S * q /\ c <= b /\ b - c < S
  BY <1>1, <1>2
<1>4. c >= a
  BY <1>1, <1>3
<1>5. PICK p \in Nat : a = S * p + (a % S)
  BY Quotient
<1>6. a % S \in 0 .. S - 1
  OBVIOUS
<1>7. c = S * (p + q) + (a % S)
  BY <1>3, <1>5
<1>8. (S * (p + q) + (a % S)) % S = a % S
  BY <1>6, Remainder
<1> HIDE DEF c
<1> QED
  BY <1>3, <1>4, <1>7, <1>8

\* The last datagram decoded and the last one taken.
Decoded == IF processed = <<>> THEN 0 ELSE processed[Len(processed)]
Last == IF ppc \in {"unlock", "again"} THEN buffer ELSE Decoded

\* The processor stands at the slot behind that of the last datagram it took, which is
\* not later than the last one stored, and earlier when the processor is past its test.
LastInv ==
  /\ Decoded \in Nat /\ Last <= stored /\ Last % Slots = Taken % Slots
  /\ ppc \in {"lock", "memcpy"} => Last < stored
  /\ \A r \in Receiver : rpc[r] \in {"advance", "wrap"} => Last < stored
  /\ ppc \in {"unlock", "again"} =>
       Decoded < buffer /\ (buffer - Decoded - 1) % Slots = 0

LapInv == RingInv /\ ContentInv /\ LastInv /\ LostInLaps

LEMMA LapInit == Init => LapInv
<1> SUFFICES ASSUME Init PROVE LapInv
  OBVIOUS
<1>1. RingInv
  BY RingInit
<1>2. ContentInv /\ LastInv /\ LostInLaps
  BY SlotFacts DEF Init, ContentInv, LastInv, LostInLaps, Last, Decoded, Taken
<1> QED
  BY <1>1, <1>2 DEF LapInv

\* The unlocked test finds a datagram that was not taken, even while tail is moved.
LEMMA UlenNew ==
  ASSUME LapInv, Ulen > 0
  PROVE  Last < stored
<1> USE DEF LapInv, RingInv, TypeOK, CountType, PoolType
<1>1. Last \in Nat /\ Last <= stored /\ Last % Slots = Taken % Slots
  BY DEF LastInv, Last
<1> SUFFICES ASSUME Last = stored PROVE FALSE
  BY <1>1
<1>2. Settled
  BY DEF LastInv, Settled
<1>3. tail = head
  BY <1>1, <1>2 DEF TailInv, HeadInv
<1>4. Ulen = 0
  BY <1>3, ModDistance, SlotFacts DEF Ulen, Slot
<1> QED
  BY <1>4

\* A receiver stores a datagram or leaves the pool as it is.
LEMMA LapReceive ==
  ASSUME LapInv, NEW r \in Receiver, Receive(r)
  PROVE  LapInv'
<1> USE DEF LapInv, RingInv, TypeOK, ThreadType, CountType
<1>1. RingInv'
  BY RingReceive
<1>2. /\ ppc' = ppc /\ processed' = processed /\ buffer' = buffer
      /\ Taken' = Taken /\ Last' = Last /\ Decoded' = Decoded /\ LostInLaps'
      /\ Last \in Nat
  <2>1. ppc' = ppc /\ processed' = processed /\ buffer' = buffer
    BY DEF Receive, Recvfrom, Lock, Store, Advance, Wrap, Unlock, ring
  <2> QED
    BY <2>1 DEF Taken, Last, Decoded, LostInLaps, LastInv
<1>3. CASE Store(r)
  <2>1. stored' = stored + 1 /\ rpc' = [rpc EXCEPT ![r] = "advance"]
    BY <1>3 DEF Store
  <2>2. LastInv'
    BY <1>2, <2>1 DEF LastInv
  <2> QED
    BY <1>1, <1>2, <1>3, <2>2, ContentStore
<1>4. CASE Recvfrom(r) \/ Lock(r) \/ Advance(r) \/ Wrap(r) \/ Unlock(r)
  <2>1. /\ stored' = stored /\ buffer_pool' = buffer_pool
        /\ \A q \in Receiver : rpc'[q] \in {"advance", "wrap"} =>
                                 rpc[q] \in {"advance", "wrap"}
    BY <1>4 DEF Recvfrom, Lock, Advance, Wrap, Unlock, ring
  <2>2. LastInv'
    BY <1>2, <2>1 DEF LastInv
  <2>3. ContentInv'
    BY <2>1 DEF ContentInv
  <2> QED
    BY <1>1, <1>2, <2>2, <2>3
<1> QED
  BY <1>3, <1>4 DEF Receive

\* What the processor copies is one of the last lap, and later than all it had.
LEMMA LapFetch == ASSUME LapInv, Fetch PROVE LapInv'
<1> USE DEF LapInv, RingInv, TypeOK, ThreadType, CountType
<1>1. /\ ppc = "memcpy" /\ ppc' = "unlock" /\ buffer' = buffer_pool[head]
      /\ UNCHANGED <<processed, stored, rpc, buffer_pool>>
  BY DEF Fetch
<1>2. RingInv'
  BY RingProcessor DEF Processor
<1>3. /\ Taken \in Nat /\ Taken' = Taken + 1 /\ Last = Decoded /\ Last \in Nat
      /\ Decoded' = Decoded /\ Last < stored /\ Last % Slots = Taken % Slots
      /\ stored \in Nat
  BY <1>1 DEF Taken, Last, Decoded, LastInv
<1>4. PICK c \in Last .. stored - 1 : stored - 1 - c < Slots /\ c % Slots = Last % Slots
  <2>1. stored - 1 \in Nat /\ Last <= stored - 1
    BY <1>3
  <2> QED
    BY <1>3, <2>1, ModRecent, SlotFacts
<1>5. /\ c \in Nat /\ c + 1 \in 1 .. stored /\ c + 1 > stored - Slots
      /\ Last < c + 1 /\ c + 1 - Last - 1 = c - Last /\ (c + 1) - 1 = c
  BY <1>3, <1>4, SlotFacts
<1>6. buffer' = c + 1
  <2>1. \A d \in 1 .. stored : d > stored - Slots => buffer_pool[(d - 1) % Slots] = d
    BY DEF ContentInv
  <2>2. buffer_pool[c % Slots] = c + 1
    BY <1>5, <2>1
  <2>3. c % Slots = head
    BY <1>3, <1>4 DEF HeadInv
  <2> QED
    BY <1>1, <2>2, <2>3
<1>7. (c - Last) % Slots = 0
  <2>1. c \in Nat /\ Last \in Nat /\ Last <= c /\ Last % Slots = c % Slots
    BY <1>3, <1>4, <1>5
  <2> QED
    BY <2>1, ModLaps, SlotFacts, Zenon
<1>8. (c + 1) % Slots = (Taken + 1) % Slots
  <2>1. c % Slots = Taken % Slots
    BY <1>3, <1>4
  <2>2. /\ (c + 1) % Slots = IF c % Slots = Slots - 1 THEN 0 ELSE (c % Slots) + 1
        /\ (Taken + 1) % Slots = IF Taken % Slots = Slots - 1 THEN 0 ELSE (Taken % Slots) + 1
    BY <1>3, <1>5, ModSucc, SlotFacts
  <2> QED
    BY <2>1, <2>2
<1>9. \A r \in Receiver : rpc[r] \notin {"advance", "wrap"}
  BY <1>1, SlotFacts DEF MutexInv, InSection
<1>10. Last' = c + 1
  BY <1>1, <1>6 DEF Last
<1>11. LastInv'
  BY <1>1, <1>3, <1>5, <1>6, <1>7, <1>8, <1>9, <1>10 DEF LastInv
<1> QED
  BY <1>1, <1>2, <1>11 DEF ContentInv, LostInLaps

\* What is decoded continues the order, by whole laps.
LEMMA LapProcess == ASSUME LapInv, Process PROVE LapInv'
<1> USE DEF LapInv, RingInv, TypeOK, ThreadType, CountType
<1>1. /\ ppc = "again" /\ ppc' \in {"lock", "test"} /\ (ppc' = "lock" => Ulen > 0)
      /\ processed' = Append(processed, buffer)
      /\ UNCHANGED <<stored, rpc, buffer_pool, buffer>>
  BY DEF Process, ring
<1>2. RingInv'
  BY RingProcessor DEF Processor
<1>3. /\ Len(processed') = Len(processed) + 1 /\ processed' # <<>> /\ Len(processed) \in Nat
      /\ \A i \in 1 .. Len(processed) : processed'[i] = processed[i]
      /\ processed'[Len(processed) + 1] = buffer
      /\ DOMAIN processed = 1 .. Len(processed)
      /\ DOMAIN processed' = 1 .. Len(processed) + 1
  BY <1>1
<1>4. Last' = Last /\ Last = buffer /\ Decoded' = buffer /\ Taken' = Taken
  BY <1>1, <1>3 DEF Last, Decoded, Taken
<1>5. ppc' = "lock" => Last < stored
  BY <1>1, UlenNew
<1>6. LastInv'
  BY <1>1, <1>4, <1>5 DEF LastInv
<1>7. LostInLaps'
  <2> SUFFICES ASSUME NEW i \in DOMAIN processed'
               PROVE  LET before == IF i = 1 THEN 0 ELSE processed'[i - 1] IN
                      processed'[i] > before /\ (processed'[i] - before - 1) % Slots = 0
    BY DEF LostInLaps
  <2>1. CASE i \in 1 .. Len(processed)
    <3>1. i = 1 \/ i - 1 \in 1 .. Len(processed)
      BY <1>3, <2>1
    <3> QED
      BY <1>3, <2>1, <3>1 DEF LostInLaps
  <2>2. CASE i = Len(processed) + 1
    <3>1. (IF i = 1 THEN 0 ELSE processed'[i - 1]) = Decoded
      <4>1. CASE processed = <<>>
        BY <2>2, <4>1 DEF Decoded
      <4>2. CASE processed # <<>>
        <5>1. Len(processed) \in 1 .. Len(processed) /\ i - 1 = Len(processed) /\ i # 1
          BY <1>3, <2>2, <4>2
        <5> QED
          BY <1>3, <4>2, <5>1 DEF Decoded
      <4> QED
        BY <4>1, <4>2
    <3>2. Decoded < buffer /\ (buffer - Decoded - 1) % Slots = 0 /\ Decoded \in Nat
      BY <1>1 DEF LastInv
    <3> QED
      BY <1>3, <2>2, <3>1, <3>2
  <2> QED
    BY <1>3, <2>1, <2>2
<1> QED
  BY <1>1, <1>2, <1>6, <1>7 DEF ContentInv

LEMMA LapStep == LapInv /\ [Next]_vars => LapInv'
<1> SUFFICES ASSUME LapInv, [Next]_vars PROVE LapInv'
  OBVIOUS
<1> USE DEF LapInv
<1>1. CASE UNCHANGED vars
  <2>1. RingInv'
    BY RingStep
  <2> QED
    BY <1>1, <2>1 DEF vars, ring, ContentInv, LastInv, LostInLaps, Last, Decoded, Taken
<1>2. CASE Quiet
  BY <1>1, <1>2 DEF Quiet
<1>3. CASE Test \/ ProcessorLock \/ ProcessorUnlock
  <2>1. RingInv'
    BY <1>3, RingProcessor DEF Processor
  <2>2. /\ UNCHANGED <<processed, stored, rpc, buffer_pool, buffer>>
        /\ \/ ppc = "test" /\ ppc' = "lock" /\ Ulen > 0
           \/ ppc = "lock" /\ ppc' = "memcpy"
           \/ ppc = "unlock" /\ ppc' = "again"
    BY <1>3 DEF Test, ProcessorLock, ProcessorUnlock, ring
  <2>3. Last' = Last /\ Decoded' = Decoded /\ Taken' = Taken
    BY <2>2 DEF Last, Decoded, Taken
  <2>4. ppc' = "lock" => Last < stored
    BY <2>2, UlenNew
  <2>5. LastInv'
    BY <2>2, <2>3, <2>4 DEF LastInv
  <2> QED
    BY <2>1, <2>2, <2>5 DEF ContentInv, LostInLaps
<1> QED
  BY <1>1, <1>2, <1>3, LapReceive, LapFetch, LapProcess DEF Next, Processor

\* However far the receivers run ahead, datagrams are decoded in the order they were
\* stored, none twice, and what is lost between two are whole laps of the pool.
THEOREM OverrunsLoseLaps == Spec => []LostInLaps
<1>1. LapInv => LostInLaps
  BY DEF LapInv
<1> QED
  BY LapInit, LapStep, <1>1, PTL DEF Spec
=============================================================================

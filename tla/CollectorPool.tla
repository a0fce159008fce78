--------------------------- MODULE CollectorPool ---------------------------
(***************************************************************************)
(* The buffer pool of the collector (EXP/receive.c): two receiver threads, *)
(* receive (port 6666) and receive1 (port 6667), copy datagrams into a     *)
(* ring under mutex_pool; the thread g_mes_tn_process takes them out.  The *)
(* processor tests head and tail without the mutex, and a receiver stores  *)
(* without testing whether the ring is full.                               *)
(*                                                                         *)
(* head and tail count slots of SEND_SIZE bytes, Slots stands for          *)
(* POOL_SIZE / SEND_SIZE, and a datagram is named by the order in which    *)
(* it was copied into the pool; 0 is the zeroed pool.                      *)
(*                                                                         *)
(*   paced   the receivers never get Slots datagrams ahead of the          *)
(*           processor (nothing in the code ensures it), chosen once.      *)
(***************************************************************************)
EXTENDS Integers, Sequences, FiniteSets

CONSTANTS Slots, Receiver,
          MaxDatagrams       \* bound on the datagrams that arrive

ASSUME PoolAssumption ==
         /\ Slots \in Nat \ {0, 1} /\ MaxDatagrams \in Nat
         /\ IsFiniteSet(Receiver) /\ "processor" \notin Receiver /\ "none" \notin Receiver

VARIABLES
  paced,                     \* what the receivers may do
  buffer_pool, head, tail,
  mutex_pool,                \* the thread that holds it, or "none"
  rpc, arrived,              \* place of each receiver; datagrams received
  ppc, buffer,               \* place and buffer of the processor
  stored, processed          \* datagrams copied in (a count); datagrams decoded

ring == <<buffer_pool, head, tail>>
vars == <<paced, ring, mutex_pool, rpc, arrived, ppc, buffer, stored, processed>>

Slot == 0 .. Slots - 1

PaceType == paced \in BOOLEAN
PoolType == buffer_pool \in [Slot -> Nat] /\ head \in Slot /\ tail \in 0 .. Slots
ThreadType ==
  /\ mutex_pool \in Receiver \cup {"processor", "none"}
  /\ rpc \in [Receiver -> {"recvfrom", "lock", "memcpy", "advance", "wrap", "unlock"}]
  /\ ppc \in {"test", "lock", "memcpy", "unlock", "again"}
CountType ==
  /\ arrived \in Nat /\ stored \in Nat /\ buffer \in Nat /\ processed \in Seq(Nat)
TypeOK == PaceType /\ PoolType /\ ThreadType /\ CountType

Init ==
  /\ paced \in BOOLEAN
  /\ buffer_pool = [s \in Slot |-> 0] /\ head = 0 /\ tail = 0
  /\ mutex_pool = "none"
  /\ rpc = [r \in Receiver |-> "recvfrom"] /\ arrived = 0
  /\ ppc = "test" /\ buffer = 0
  /\ stored = 0 /\ processed = <<>>

\* Datagrams taken out of the pool, the one in the processor's buffer included.
Taken == Len(processed) + (IF ppc \in {"unlock", "again"} THEN 1 ELSE 0)

-----------------------------------------------------------------------------
(* receive, receive1                                                       *)

Recvfrom(r) ==
  /\ rpc[r] = "recvfrom"
  /\ arrived < MaxDatagrams
  /\ paced => arrived - Taken < Slots - 1
  /\ arrived' = arrived + 1
  /\ rpc' = [rpc EXCEPT ![r] = "lock"]
  /\ UNCHANGED <<paced, ring, mutex_pool, ppc, buffer, stored, processed>>

Lock_NoWait(r) ==
  /\ rpc[r] = "lock"
  /\ mutex_pool' = r
  /\ rpc' = [rpc EXCEPT ![r] = "memcpy"]
  /\ UNCHANGED <<paced, ring, arrived, ppc, buffer, stored, processed>>
Lock(r) ==
  /\ rpc[r] = "lock" /\ mutex_pool = "none"
  /\ mutex_pool' = r
  /\ rpc' = [rpc EXCEPT ![r] = "memcpy"]
  /\ UNCHANGED <<paced, ring, arrived, ppc, buffer, stored, processed>>

Store(r) ==
  /\ rpc[r] = "memcpy"
  /\ buffer_pool' = [buffer_pool EXCEPT ![tail] = stored + 1]
  /\ stored' = stored + 1
  /\ rpc' = [rpc EXCEPT ![r] = "advance"]
  /\ UNCHANGED <<paced, head, tail, mutex_pool, arrived, ppc, buffer, processed>>

Advance(r) ==
  /\ rpc[r] = "advance"
  /\ tail' = tail + 1
  /\ rpc' = [rpc EXCEPT ![r] = "wrap"]
  /\ UNCHANGED <<paced, buffer_pool, head, mutex_pool, arrived, ppc, buffer, stored,
                 processed>>

Wrapped(t) == t % Slots

Wrap(r) ==
  /\ rpc[r] = "wrap"
  /\ tail' = Wrapped(tail)
  /\ rpc' = [rpc EXCEPT ![r] = "unlock"]
  /\ UNCHANGED <<paced, buffer_pool, head, mutex_pool, arrived, ppc, buffer, stored,
                 processed>>

Unlock(r) ==
  /\ rpc[r] = "unlock"
  /\ mutex_pool' = "none"
  /\ rpc' = [rpc EXCEPT ![r] = "recvfrom"]
  /\ UNCHANGED <<paced, ring, arrived, ppc, buffer, stored, processed>>

-----------------------------------------------------------------------------
(* g_mes_tn_process                                                        *)

\* ulen: what the processor believes is waiting; tail may be a transient Slots.
Ulen_NoModulo == tail - head
Ulen == (tail + Slots - head) % Slots

Test ==
  /\ ppc = "test" /\ Ulen > 0
  /\ ppc' = "lock"
  /\ UNCHANGED <<paced, ring, mutex_pool, rpc, arrived, buffer, stored, processed>>

ProcessorLock ==
  /\ ppc = "lock" /\ mutex_pool = "none"
  /\ mutex_pool' = "processor" /\ ppc' = "memcpy"
  /\ UNCHANGED <<paced, ring, rpc, arrived, buffer, stored, processed>>

NextHead_TwoSlots == (head + 2) % Slots
NextHead == (head + 1) % Slots

Fetch ==
  /\ ppc = "memcpy"
  /\ buffer' = buffer_pool[head] /\ head' = NextHead
  /\ ppc' = "unlock"
  /\ UNCHANGED <<paced, buffer_pool, tail, mutex_pool, rpc, arrived, stored, processed>>

ProcessorUnlock ==
  /\ ppc = "unlock"
  /\ mutex_pool' = "none" /\ ppc' = "again"
  /\ UNCHANGED <<paced, ring, rpc, arrived, buffer, stored, processed>>

\* The new ulen, then process(buffer), then the loop's test on that ulen.
Process ==
  /\ ppc = "again"
  /\ processed' = Append(processed, buffer)
  /\ ppc' = IF Ulen > 0 THEN "lock" ELSE "test"
  /\ UNCHANGED <<paced, ring, mutex_pool, rpc, arrived, buffer, stored>>

-----------------------------------------------------------------------------
Receive(r) ==
  \/ Recvfrom(r) \/ Lock(r) \/ Store(r) \/ Advance(r) \/ Wrap(r) \/ Unlock(r)
Processor == Test \/ ProcessorLock \/ Fetch \/ ProcessorUnlock \/ Process

\* Nothing is left to do until another datagram arrives.
Quiet ==
  /\ arrived = MaxDatagrams /\ \A r \in Receiver : rpc[r] = "recvfrom"
  /\ ppc = "test" /\ Ulen = 0
  /\ UNCHANGED vars

Next == (\E r \in Receiver : Receive(r)) \/ Processor \/ Quiet

Spec == Init /\ [][Next]_vars

\* A thread that can run does; a datagram need never arrive.  The bound on the
\* datagrams makes every burst finite, so the mutex is never kept for ever.
Busy(r) == Lock(r) \/ Store(r) \/ Advance(r) \/ Wrap(r) \/ Unlock(r)
FairSpec == /\ Spec
            /\ \A r \in Receiver : WF_vars(Busy(r))
            /\ WF_vars(Processor)

-----------------------------------------------------------------------------
(* Properties.                                                             *)

\* Datagrams are decoded in the order they were stored and none twice, even when
\* the receivers lap the processor or move tail between its unlocked test and its
\* locked copy.  What an overrun costs between two that are decoded are whole laps
\* of the pool, never a few slots in the middle.
LostInLaps ==
  \A i \in DOMAIN processed :
     LET before == IF i = 1 THEN 0 ELSE processed[i - 1] IN
     processed[i] > before /\ (processed[i] - before - 1) % Slots = 0

\* With the receivers less than a lap ahead the ring is a first-in first-out
\* queue: every datagram stored is decoded, once and in order (DatagramQueue).
\* A run that is not paced promises nothing: it maps to the idle queue.
Queue == INSTANCE DatagramQueue
           WITH accepted <- IF paced THEN stored ELSE 0,
                delivered <- IF paced THEN processed ELSE <<>>
ImplementsQueue == Queue!Spec

\* With pacing a stored datagram is eventually decoded: the unlocked test of ulen
\* misses nothing for good, and nobody waits for the mutex for ever.
StoredIsProcessed ==
  \A m \in 1 .. MaxDatagrams :
     paced /\ stored >= m ~> \E i \in DOMAIN processed : processed[i] = m
=============================================================================

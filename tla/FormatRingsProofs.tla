------------------------- MODULE FormatRingsProofs -------------------------
(***************************************************************************)
(* Proofs about FormatRings, for every length of the rings, every number   *)
(* of packets and retransmissions and every course of the sample lists:    *)
(* type correctness; that format_data takes no more out of a ring than was *)
(* stored; for what retransmission a line is marked, and how often; and    *)
(* how far the order of the lines may go back.                             *)
(***************************************************************************)
EXTENDS FormatRings, TLAPS

\* What is read moves a tail, and no tail wraps: once it stands at the end of its ring
\* it stays there.  A mark is for a retransmission that was read.
TailInv ==
  /\ retrans_tail = Len(read)
  /\ taken <= winsize_tail
  /\ pc \in {"window", "line"} => winsize_tail + amount < THUNDRED
  /\ drop => read # <<>>

RingsInv == TypeOK /\ TailInv

LEMMA IndexFacts ==
  /\ THUNDRED \in Nat \ {0, 1} /\ MaxSec \in Nat /\ EarlierSec \subseteq 0 .. MaxSec
  /\ 0 \in Index /\ Index \subseteq Nat
  /\ \A i \in Index : i < THUNDRED
  /\ \A i \in Nat : i < THUNDRED => i \in Index
  /\ \A i \in Nat : NextIndex(i) \in Index
  /\ \A i \in Nat : i + 1 < THUNDRED => NextIndex(i) = i + 1
  BY RingsAssumption DEF RingsAssumption, Index, NextIndex

LEMMA WaitingFacts ==
  ASSUME NEW h \in Index, NEW t \in Index
  PROVE  /\ Waiting(h, t) \in 0 .. THUNDRED /\ t + Waiting(h, t) < THUNDRED
         /\ Waiting(h, t) > 0 => h > t
  BY IndexFacts DEF Index, Waiting

LEMMA TimeFacts ==
  /\ Zero \in Time
  /\ \A t \in Time : t.n \in Nat /\ t.sec \in 0 .. MaxSec
  /\ \A n \in Nat, s \in 0 .. MaxSec : [n |-> n, sec |-> s] \in Time
  BY IndexFacts DEF Time, Zero

LEMMA RingsInit == Init => RingsInv
<1> SUFFICES ASSUME Init PROVE RingsInv
  OBVIOUS
<1>1. RingType /\ TailType
  BY IndexFacts, TimeFacts DEF Init, RingType, TailType
<1>2. PlaceType /\ CountType
  <2>1. 0 \in 0 .. THUNDRED /\ 0 \in 0 .. MaxSec + 1
    BY IndexFacts
  <2>2. time_tp \in Time
    BY TimeFacts DEF Init
  <2>3. /\ pc = "round" /\ drop = FALSE /\ paired = FALSE /\ amount = 0 /\ horizon = 0
        /\ seen = 0 /\ repeated = 0 /\ taken = 0 /\ latest = 0
        /\ read = <<>> /\ written = <<>>
    BY DEF Init
  <2>4. PlaceType
    BY <2>1, <2>2, <2>3 DEF PlaceType
  <2>5. CountType
    BY <2>3 DEF CountType
  <2> QED
    BY <2>4, <2>5
<1>3. TailInv
  BY DEF Init, TailInv
<1> QED
  BY <1>1, <1>2, <1>3 DEF RingsInv, TypeOK

\* The decoder moves no tail.
LEMMA PacketStep == ASSUME RingsInv, Packet PROVE RingsInv'
<1> USE DEF RingsInv, TypeOK
<1>1. /\ UNCHANGED <<winsize_tail, retrans, samples, pc, time_tp, drop, amount,
                     read, taken, file>>
      /\ winsize_head' = NextIndex(winsize_head) /\ seen' = seen + 1
  BY DEF Packet
<1>2. PICK s \in 1 .. MaxSec :
        winsize_times' = [winsize_times EXCEPT ![winsize_head] = [n |-> seen + 1, sec |-> s]]
  BY DEF Packet
<1>3. [n |-> seen + 1, sec |-> s] \in Time
  BY TimeFacts DEF CountType
<1>4. winsize_times' \in [Index -> Time]
  BY <1>2, <1>3, Zenon DEF RingType
<1>5. RingType' /\ TailType'
  BY <1>1, <1>4, IndexFacts DEF RingType, TailType, retrans
<1>6. PlaceType' /\ CountType'
  BY <1>1 DEF PlaceType, CountType, retrans, samples, file
<1>7. TailInv'
  BY <1>1 DEF TailInv, retrans
<1> QED
  BY <1>5, <1>6, <1>7

LEMMA RetransmissionStep == ASSUME RingsInv, Retransmission PROVE RingsInv'
<1> USE DEF RingsInv, TypeOK
<1>1. /\ UNCHANGED <<packets, retrans_tail, samples, pc, time_tp, drop, amount, read,
                     taken, file>>
      /\ retrans_head' = NextIndex(retrans_head) /\ repeated' = repeated + 1
  BY DEF Retransmission
<1>2. PICK s \in EarlierSec :
        retrans_times' =
          [retrans_times EXCEPT ![retrans_head] = [n |-> repeated + 1, sec |-> s]]
  BY DEF Retransmission
<1>3. [n |-> repeated + 1, sec |-> s] \in Time
  BY TimeFacts, IndexFacts DEF CountType
<1>4. retrans_times' \in [Index -> Time]
  BY <1>2, <1>3, Zenon DEF RingType
<1>5. RingType' /\ TailType'
  BY <1>1, <1>4, IndexFacts DEF RingType, TailType, packets
<1>6. PlaceType' /\ CountType'
  BY <1>1 DEF PlaceType, CountType, packets, samples, file
<1>7. TailInv'
  BY <1>1 DEF TailInv, packets
<1> QED
  BY <1>5, <1>6, <1>7

\* The times at the tails are times.
LEMMA TailTimes ==
  ASSUME RingsInv
  PROVE  /\ retrans_times[retrans_tail] \in Time /\ winsize_times[winsize_tail] \in Time
         /\ retrans_tail \in Nat /\ winsize_tail \in Nat /\ amount \in Nat
  BY IndexFacts DEF RingsInv, TypeOK, RingType, TailType, PlaceType

\* format_data reads retransmissions.
LEMMA RetransStep == ASSUME RingsInv, ReadRetrans \/ NoRetrans PROVE RingsInv'
<1> USE DEF RingsInv, TypeOK
<1>1. CASE ReadRetrans
  <2>1. /\ retrans_head > retrans_tail /\ retrans_tail' = NextIndex(retrans_tail)
        /\ time_tp' = retrans_times[retrans_tail]
        /\ read' = Append(read, retrans_times[retrans_tail])
        /\ drop' = TRUE /\ pc' \in {"amount", "final"}
        /\ UNCHANGED <<packets, retrans_times, retrans_head, repeated, samples, amount,
                       taken, file>>
    BY <1>1 DEF ReadRetrans, ReadTail
  <2>2. retrans_tail + 1 < THUNDRED
    <3>1. retrans_head \in Index
      BY DEF RingType
    <3>2. retrans_head < THUNDRED /\ retrans_head \in Nat
      BY <3>1, IndexFacts
    <3> QED
      BY <2>1, <3>2, TailTimes, IndexFacts
  <2>3. retrans_tail' = retrans_tail + 1 /\ retrans_tail' \in Index
    BY <2>1, <2>2, IndexFacts, TailTimes
  <2>4. retrans_times[retrans_tail] \in Time
    BY TailTimes
  <2>5. read' \in Seq(Time) /\ Len(read') = Len(read) + 1 /\ read' # <<>>
    BY <2>1, <2>4 DEF CountType
  <2>6. RingType' /\ TailType'
    BY <2>1, <2>3 DEF RingType, TailType, packets
  <2>7. PlaceType' /\ CountType'
    BY <2>1, <2>5, TailTimes DEF PlaceType, CountType, packets, samples, file
  <2>8. TailInv'
    BY <2>1, <2>3, <2>5 DEF TailInv, packets
  <2> QED
    BY <2>6, <2>7, <2>8
<1>2. CASE NoRetrans
  <2>1. /\ time_tp' = Zero /\ pc' = "amount"
        /\ UNCHANGED <<packets, retrans, samples, drop, amount, read, taken, file>>
    BY <1>2 DEF NoRetrans
  <2>2. RingType' /\ TailType' /\ CountType' /\ TailInv'
    BY <2>1 DEF RingType, TailType, CountType, TailInv, packets, retrans, file
  <2>3. PlaceType'
    BY <2>1, TimeFacts DEF PlaceType, samples
  <2> QED
    BY <2>2, <2>3
<1> QED
  BY <1>1, <1>2

\* format_data reads packets.
LEMMA WindowStep ==
  ASSUME RingsInv, Amount \/ TakePacket \/ BreakOff \/ WindowEnd PROVE RingsInv'
<1> USE DEF RingsInv, TypeOK
<1>1. CASE Amount
  <2>1. /\ amount' = Waiting(winsize_head, winsize_tail) /\ pc' = "window"
        /\ UNCHANGED <<packets, retrans, samples, time_tp, drop, read, taken, file>>
    BY <1>1 DEF Amount
  <2>2. amount' \in 0 .. THUNDRED /\ winsize_tail + amount' < THUNDRED
    BY <2>1, WaitingFacts DEF RingType, TailType
  <2>3. RingType' /\ TailType' /\ CountType' /\ TailInv'
    BY <2>1, <2>2 DEF RingType, TailType, CountType, TailInv, packets, retrans, file
  <2>4. PlaceType'
    BY <2>1, <2>2 DEF PlaceType, samples
  <2> QED
    BY <2>3, <2>4
<1>2. CASE TakePacket
  <2>1. /\ pc = "window" /\ amount > 0 /\ time_tp' = winsize_times[winsize_tail]
        /\ winsize_tail' = NextIndex(winsize_tail)
        /\ amount' = amount - 1 /\ taken' = taken + 1 /\ pc' \in {"line", "window"}
        /\ UNCHANGED <<winsize_times, winsize_head, seen, retrans, samples, drop, read,
                       file>>
    BY <1>2 DEF TakePacket
  <2>2. winsize_tail + amount < THUNDRED
    BY <2>1 DEF TailInv
  <2>3. winsize_tail' = winsize_tail + 1 /\ winsize_tail' \in Index
    BY <2>1, <2>2, IndexFacts, TailTimes
  <2>4. RingType' /\ TailType'
    BY <2>1, <2>3 DEF RingType, TailType, retrans
  <2>5. PlaceType' /\ CountType'
    <3>1. amount' \in 0 .. THUNDRED
      BY <2>1, IndexFacts DEF PlaceType
    <3> QED
      BY <2>1, <3>1, TailTimes DEF PlaceType, CountType, retrans, samples, file
  <2>6. TailInv'
    BY <2>1, <2>2, <2>3, TailTimes, IndexFacts DEF TailInv, CountType, retrans
  <2> QED
    BY <2>4, <2>5, <2>6
<1>3. CASE BreakOff \/ WindowEnd
  <2>1. /\ pc' = "final" /\ time_tp' \in {time_tp, winsize_times[winsize_tail]}
        /\ UNCHANGED <<packets, retrans, samples, drop, amount, read, taken, file>>
    BY <1>3 DEF BreakOff, WindowEnd
  <2>2. RingType' /\ TailType' /\ CountType' /\ TailInv'
    BY <2>1 DEF RingType, TailType, CountType, TailInv, packets, retrans, file
  <2>3. PlaceType'
    BY <2>1, TailTimes DEF PlaceType, samples
  <2> QED
    BY <2>2, <2>3
<1> QED
  BY <1>1, <1>2, <1>3

\* The skip after a line stops at the head, or before the batch is used up.
LEMMA LineSkip ==
  ASSUME RingsInv, Line
  PROVE  \E k \in Nat : /\ winsize_tail' = winsize_tail + k /\ winsize_tail + k < THUNDRED
                        /\ amount' = IF k = 0 THEN amount
                                     ELSE Waiting(winsize_head, winsize_tail')
<1> USE DEF RingsInv, TypeOK
<1>1. pc = "line"
  BY DEF Line
<1>2. PICK k \in SkipSteps :
        /\ winsize_tail' = (winsize_tail + k) % THUNDRED
        /\ amount' = IF k = 0 THEN amount ELSE Waiting(winsize_head, winsize_tail')
  BY DEF Line, Skipped, Left
<1>3. k \in Nat /\ winsize_tail \in Nat /\ amount \in Nat /\ winsize_tail < THUNDRED
  BY TailTimes, IndexFacts DEF SkipSteps, TailType
<1>4. winsize_tail + k < THUNDRED
  <2>1. CASE k = 0
    BY <1>3, <2>1
  <2>2. CASE k = 1
    <3>1. amount > 0 /\ winsize_tail + amount < THUNDRED
      BY <1>1, <2>2 DEF SkipSteps, TailInv
    <3> QED
      BY <1>3, <2>2, <3>1, IndexFacts
  <2>3. CASE k > 1
    <3>1. Waiting(winsize_head, winsize_tail + (k - 1)) > 0
      BY <1>3, <2>3 DEF SkipSteps
    <3>2. winsize_head \in Index
      BY DEF RingType
    <3>3. winsize_head < THUNDRED /\ winsize_head \in Nat
      BY <3>2, IndexFacts
    <3>4. winsize_head > winsize_tail + (k - 1)
      BY <3>1, <3>3, <1>3, IndexFacts DEF Waiting
    <3> QED
      BY <1>3, <3>3, <3>4, IndexFacts
  <2> QED
    BY <1>3, <2>1, <2>2, <2>3
<1>5. winsize_tail' = winsize_tail + k
  BY <1>2, <1>3, <1>4, IndexFacts
<1> QED
  BY <1>2, <1>3, <1>4, <1>5

\* A line with a mark is for the latest retransmission read.
LEMMA WriteLineFacts ==
  ASSUME RingsInv, WriteLine
  PROVE  /\ \/ ~drop /\ written' = written /\ latest' = time_tp.n
            \/ drop /\ written' = Append(written, read[Len(read)]) /\ latest' = latest
         /\ drop => read[Len(read)] \in Time
         /\ written' \in Seq(Time) /\ latest' \in Nat
<1>1. /\ drop \in BOOLEAN /\ read \in Seq(Time) /\ written \in Seq(Time) /\ latest \in Nat
      /\ time_tp.n \in Nat /\ (drop => read # <<>>)
  BY TimeFacts DEF RingsInv, TypeOK, PlaceType, CountType, TailInv
<1>2. CASE drop
  <2>1. read[Len(read)] \in Time
    <3>1. Len(read) \in 1 .. Len(read)
      BY <1>1, <1>2
    <3> QED
      BY <1>1, <3>1
  <2>2. written' = Append(written, read[Len(read)]) /\ latest' = latest
    BY <1>2 DEF WriteLine, Marked, Last
  <2> QED
    BY <1>1, <1>2, <2>1, <2>2
<1>3. CASE ~drop
  BY <1>1, <1>3 DEF WriteLine, Marked
<1> QED
  BY <1>2, <1>3

LEMMA LineStep == ASSUME RingsInv, Line PROVE RingsInv'
<1> USE DEF RingsInv, TypeOK
<1>1. /\ pc = "line" /\ pc' = "window" /\ WriteLine
      /\ UNCHANGED <<winsize_times, winsize_head, seen, retrans, samples, time_tp, drop,
                     read, taken>>
  BY DEF Line
<1>2. PICK k \in Nat : /\ winsize_tail' = winsize_tail + k /\ winsize_tail + k < THUNDRED
                       /\ amount' = IF k = 0 THEN amount
                                    ELSE Waiting(winsize_head, winsize_tail')
  BY LineSkip
<1>3. winsize_tail \in Nat /\ amount \in Nat
  BY TailTimes
<1>4. winsize_tail' \in Index
  BY <1>2, <1>3, IndexFacts
<1>5. amount' \in 0 .. THUNDRED /\ winsize_tail' + amount' < THUNDRED
  <2>1. CASE k = 0
    BY <1>1, <1>2, <1>3, <2>1 DEF TailInv, PlaceType
  <2>2. CASE k # 0
    BY <1>2, <1>4, <2>2, WaitingFacts DEF RingType
  <2> QED
    BY <2>1, <2>2
<1>6. RingType' /\ TailType'
  BY <1>1, <1>4 DEF RingType, TailType, retrans
<1>7. PlaceType'
  BY <1>1, <1>5 DEF PlaceType, samples
<1>8. CountType'
  <2>1. written' \in Seq(Time) /\ latest' \in Nat
    BY <1>1, WriteLineFacts
  <2> QED
    BY <1>1, <2>1 DEF CountType, retrans
<1>9. TailInv'
  BY <1>1, <1>2, <1>3, <1>5 DEF TailInv, CountType, retrans
<1> QED
  BY <1>6, <1>7, <1>8, <1>9

LEMMA RoundStep == ASSUME RingsInv, Round \/ Final PROVE RingsInv'
<1> USE DEF RingsInv, TypeOK
<1>1. /\ UNCHANGED <<packets, retrans, read, taken>>
      /\ pc' \in {"round", "retrans"}
  BY DEF Round, Final
<1>2. RingType' /\ TailType' /\ TailInv'
  <2>1. drop' = FALSE \/ drop' = drop
    BY DEF Round, Final
  <2> QED
    BY <1>1, <2>1 DEF RingType, TailType, TailInv, packets, retrans
<1>3. CASE Round
  <2>1. /\ horizon' \in horizon .. MaxSec + 1 /\ paired' \in {paired, TRUE}
        /\ drop' = FALSE /\ amount' = 0 /\ time_tp' = Zero /\ UNCHANGED file
    BY <1>3 DEF Round
  <2>2. horizon' \in 0 .. MaxSec + 1 /\ amount' \in 0 .. THUNDRED
    BY <2>1, IndexFacts DEF PlaceType
  <2>3. PlaceType'
    BY <1>1, <2>1, <2>2, TimeFacts DEF PlaceType
  <2> QED
    BY <1>1, <1>2, <2>1, <2>3 DEF CountType, packets, retrans, file
<1>4. CASE Final
  <2>1. UNCHANGED <<samples, time_tp, drop, amount>>
    BY <1>4 DEF Final
  <2>2. WriteLine \/ UNCHANGED file
    BY <1>4 DEF Final
  <2>4. PlaceType'
    BY <1>1, <2>1 DEF PlaceType, samples
  <2>5. CountType'
    <3>1. written' \in Seq(Time) /\ latest' \in Nat
      BY <2>2, WriteLineFacts DEF CountType, file
    <3> QED
      BY <1>1, <3>1 DEF CountType, packets, retrans
  <2> QED
    BY <1>2, <2>4, <2>5
<1> QED
  BY <1>3, <1>4

LEMMA RingsStep == RingsInv /\ [Next]_vars => RingsInv'
<1>1. RingsInv /\ UNCHANGED vars => RingsInv'
  BY DEF vars, packets, retrans, samples, file, RingsInv, TypeOK, RingType, TailType,
         PlaceType, CountType, TailInv
<1> QED
  BY <1>1, PacketStep, RetransmissionStep, RetransStep, WindowStep, LineStep, RoundStep
  DEF Next, Format_data

\* Whatever is stored and whatever the sample lists do, both heads and both tails
\* stay inside their rings and every variable of format_data keeps its type.
THEOREM TypeCorrect == Spec => []TypeOK
<1>1. RingsInv => TypeOK
  BY DEF RingsInv
<1> QED
  BY RingsInit, RingsStep, <1>1, PTL DEF Spec

-----------------------------------------------------------------------------
(* What is stored and what is taken.                                       *)

\* Before a ring wraps its reader stays behind the head, and so does a batch.
StoredInv ==
  /\ \/ repeated >= THUNDRED
     \/ repeated = retrans_head /\ retrans_tail <= retrans_head
  /\ seen >= THUNDRED \/ /\ seen = winsize_head /\ winsize_tail <= winsize_head
                         /\ pc \in {"window", "line"} =>
                              winsize_tail + amount <= winsize_head

LEMMA StoredStep == RingsInv /\ StoredInv /\ [Next]_vars => StoredInv'
<1> SUFFICES ASSUME RingsInv, StoredInv, [Next]_vars PROVE StoredInv'
  OBVIOUS
<1>1. /\ winsize_head \in Nat /\ winsize_tail \in Nat /\ seen \in Nat /\ amount \in Nat
      /\ retrans_head \in Nat /\ retrans_tail \in Nat /\ repeated \in Nat
      /\ winsize_head < THUNDRED /\ retrans_head < THUNDRED /\ THUNDRED \in Nat
  BY TailTimes, IndexFacts DEF RingsInv, TypeOK, RingType, CountType
<1>2. \A h \in Nat : h < THUNDRED => NextIndex(h) = h + 1 \/ h + 1 = THUNDRED
  BY <1>1, IndexFacts
<1>3. CASE Packet
  <2>1. /\ winsize_head' = NextIndex(winsize_head) /\ seen' = seen + 1
        /\ UNCHANGED <<winsize_tail, retrans_tail, retrans_head, repeated, pc, amount>>
    BY <1>3 DEF Packet, retrans
  <2>2. winsize_head' = winsize_head + 1 \/ winsize_head + 1 = THUNDRED
    BY <1>1, <1>2, <2>1
  <2>3. CASE seen >= THUNDRED
    BY <1>1, <2>1, <2>3 DEF StoredInv
  <2>4. CASE seen < THUNDRED
    <3>1. /\ seen = winsize_head /\ winsize_tail <= winsize_head
          /\ pc \in {"window", "line"} => winsize_tail + amount <= winsize_head
      BY <1>1, <2>4 DEF StoredInv
    <3>2. CASE winsize_head + 1 = THUNDRED
      BY <1>1, <2>1, <3>1, <3>2 DEF StoredInv
    <3>3. CASE winsize_head' = winsize_head + 1
      BY <1>1, <2>1, <3>1, <3>3 DEF StoredInv
    <3> QED
      BY <2>2, <3>2, <3>3
  <2> QED
    BY <1>1, <2>3, <2>4
<1>4. CASE Retransmission
  <2>1. /\ retrans_head' = NextIndex(retrans_head) /\ repeated' = repeated + 1
        /\ UNCHANGED <<winsize_tail, winsize_head, seen, retrans_tail, pc, amount>>
    BY <1>4 DEF Retransmission, packets
  <2>2. retrans_head' = retrans_head + 1 \/ retrans_head + 1 = THUNDRED
    BY <1>1, <1>2, <2>1
  <2>3. \/ repeated' >= THUNDRED
        \/ repeated' = retrans_head' /\ retrans_tail' <= retrans_head'
    <3>1. \/ repeated >= THUNDRED
          \/ repeated = retrans_head /\ retrans_tail <= retrans_head
      BY DEF StoredInv
    <3> QED
      BY <1>1, <2>1, <2>2, <3>1
  <2>4. /\ seen' = seen /\ winsize_head' = winsize_head /\ winsize_tail' = winsize_tail
        /\ pc' = pc /\ amount' = amount /\ retrans_tail' = retrans_tail
    BY <2>1
  <2>5. \/ seen' >= THUNDRED
        \/ /\ seen' = winsize_head' /\ winsize_tail' <= winsize_head'
           /\ pc' \in {"window", "line"} => winsize_tail' + amount' <= winsize_head'
    BY <2>4 DEF StoredInv
  <2> QED
    BY <2>3, <2>5 DEF StoredInv
<1>5. CASE ReadRetrans
  <2>1. /\ retrans_head > retrans_tail /\ retrans_tail' = NextIndex(retrans_tail)
        /\ pc' \notin {"window", "line"}
        /\ UNCHANGED <<winsize_tail, winsize_head, seen, retrans_head, repeated>>
    BY <1>5 DEF ReadRetrans, ReadTail, packets
  <2>2. retrans_tail' = retrans_tail + 1
    BY <1>1, <2>1, IndexFacts
  <2> QED
    BY <1>1, <2>1, <2>2 DEF StoredInv
<1>6. CASE Amount
  <2>1. /\ amount' = Waiting(winsize_head, winsize_tail)
        /\ UNCHANGED <<winsize_tail, winsize_head, seen, retrans>>
    BY <1>6 DEF Amount, packets
  <2>2. winsize_head >= winsize_tail => winsize_tail + amount' <= winsize_head
    BY <1>1, <2>1 DEF Waiting
  <2> QED
    BY <1>1, <2>1, <2>2 DEF StoredInv, retrans
<1>7. CASE TakePacket
  <2>1. /\ winsize_tail' = NextIndex(winsize_tail) /\ amount' = amount - 1
        /\ pc = "window" /\ amount > 0 /\ UNCHANGED <<winsize_head, seen, retrans>>
    BY <1>7 DEF TakePacket
  <2>2. winsize_tail' = winsize_tail + 1
    <3>1. winsize_tail + amount < THUNDRED
      BY <2>1 DEF RingsInv, TailInv
    <3> QED
      BY <1>1, <2>1, <3>1, IndexFacts
  <2> QED
    BY <1>1, <2>1, <2>2 DEF StoredInv, retrans
<1>8. CASE Line
  <2>1. /\ pc = "line" /\ UNCHANGED <<winsize_head, seen, retrans>>
    BY <1>8 DEF Line
  <2>2. PICK k \in SkipSteps :
          /\ winsize_tail' = (winsize_tail + k) % THUNDRED
          /\ amount' = IF k = 0 THEN amount ELSE Waiting(winsize_head, winsize_tail')
    BY <1>8 DEF Line, Skipped, Left
  <2>3. /\ k \in 0 .. THUNDRED - 1 /\ (k > 0 => amount > 0)
        /\ k > 1 => Waiting(winsize_head, winsize_tail + (k - 1)) > 0
    BY <1>1 DEF SkipSteps
  <2>4. CASE winsize_tail + amount <= winsize_head
    <3>1. winsize_tail + k <= winsize_head
      BY <1>1, <2>3, <2>4 DEF Waiting
    <3>2. winsize_tail' = winsize_tail + k
      BY <1>1, <2>2, <2>3, <3>1
    <3>3. winsize_tail' + amount' <= winsize_head
      <4>1. CASE k = 0
        BY <1>1, <2>2, <2>4, <3>2, <4>1
      <4>2. CASE k # 0
        <5>1. amount' = Waiting(winsize_head, winsize_tail')
          BY <2>2, <4>2
        <5>2. winsize_tail' \in Nat
          BY <1>1, <2>3, <3>2
        <5> QED
          BY <1>1, <3>1, <3>2, <5>1, <5>2 DEF Waiting
      <4> QED
        BY <4>1, <4>2
    <3> QED
      BY <1>1, <2>1, <2>3, <3>1, <3>2, <3>3 DEF StoredInv, retrans
  <2>5. CASE ~(winsize_tail + amount <= winsize_head)
    BY <1>1, <2>1, <2>5 DEF StoredInv, retrans
  <2> QED
    BY <2>4, <2>5
<1>9. CASE Round \/ NoRetrans \/ BreakOff \/ WindowEnd \/ Final \/ UNCHANGED vars
  <2>1. UNCHANGED <<packets, retrans>>
    BY <1>9 DEF Round, NoRetrans, BreakOff, WindowEnd, Final, vars
  <2>2. pc' \notin {"window", "line"} \/ UNCHANGED <<pc, amount>>
    BY <1>9 DEF Round, NoRetrans, BreakOff, WindowEnd, Final, vars
  <2> QED
    BY <2>1, <2>2 DEF StoredInv, packets, retrans
<1> QED
  BY <1>3, <1>4, <1>5, <1>6, <1>7, <1>8, <1>9 DEF Next, Format_data

\* format_data takes no more retransmissions and no more packets than were stored, for
\* rings of every length, wherever a line skips packets and however often the rings wrap.
THEOREM TakenWereStored == Spec => []NoMoreThanStored
<1>1. Init => StoredInv
  BY DEF Init, StoredInv
<1>2. RingsInv /\ StoredInv => NoMoreThanStored
  BY IndexFacts
  DEF RingsInv, TypeOK, TailInv, TailType, RingType, CountType, StoredInv, NoMoreThanStored
<1> QED
  BY RingsInit, RingsStep, StoredStep, <1>1, <1>2, PTL DEF Spec

-----------------------------------------------------------------------------
(* What the rings hold.                                                    *)

\* A ring with count times stored in it: the first head places are of the lap under
\* way, the others of the one before, or never written.
Filled(times, head, count) ==
  /\ \E q \in Nat : /\ count = THUNDRED * q + head
                    /\ \A k \in Index :
                         times[k].n = IF k < head THEN THUNDRED * q + k + 1
                                      ELSE IF q = 0 THEN 0
                                      ELSE THUNDRED * q - THUNDRED + k + 1
  /\ \A k \in Index : times[k].n = 0 => times[k].sec = 0

LEMMA FilledEmpty == Filled([i \in Index |-> Zero], 0, 0)
<1>1. \A k \in Index : ~(k < 0)
  BY IndexFacts
<1>2. 0 = THUNDRED * 0 + 0
  BY IndexFacts
<1> QED
  BY <1>1, <1>2 DEF Filled, Zero

\* The laps that are complete.
LEMMA FilledBase ==
  ASSUME NEW times, NEW head \in Index, NEW count \in Nat, Filled(times, head, count)
  PROVE  /\ count - head \in Nat /\ (count - head) % THUNDRED = 0
         /\ \A k \in Index : k < head => times[k].n = count - head + k + 1
<1>1. PICK q \in Nat : /\ count = THUNDRED * q + head
                       /\ \A k \in Index : k < head => times[k].n = THUNDRED * q + k + 1
  BY DEF Filled
<1>2. head \in Nat /\ THUNDRED \in Nat \ {0} /\ THUNDRED * q \in Nat
  BY IndexFacts
<1>3. count - head = THUNDRED * q
  BY <1>1, <1>2
<1>4. (THUNDRED * q) % THUNDRED = 0
  BY <1>2
<1> QED
  BY <1>1, <1>2, <1>3, <1>4

\* Another time is stored.
LEMMA FilledStore ==
  ASSUME NEW times \in [Index -> Time], NEW head \in Index, NEW count \in Nat,
         NEW s \in 0 .. MaxSec, Filled(times, head, count)
  PROVE  /\ Filled([times EXCEPT ![head] = [n |-> count + 1, sec |-> s]],
                   NextIndex(head), count + 1)
         /\ count - head <= count + 1 - NextIndex(head)
<1> DEFINE t == [times EXCEPT ![head] = [n |-> count + 1, sec |-> s]]
<1>1. PICK q \in Nat : /\ count = THUNDRED * q + head
                       /\ \A k \in Index :
                            times[k].n = IF k < head THEN THUNDRED * q + k + 1
                                         ELSE IF q = 0 THEN 0
                                         ELSE THUNDRED * q - THUNDRED + k + 1
  BY DEF Filled
<1>2. head \in Nat /\ head < THUNDRED /\ THUNDRED \in Nat \ {0, 1} /\ THUNDRED * q \in Nat
  BY IndexFacts
<1>3. /\ t[head].n = count + 1
      /\ \A k \in Index : k # head => t[k] = times[k]
  OBVIOUS
<1>4. \A k \in Index : t[k].n = 0 => t[k].sec = 0
  <2>1. \A k \in Index : times[k].n = 0 => times[k].sec = 0
    BY DEF Filled
  <2>2. count + 1 # 0
    OBVIOUS
  <2> QED
    BY <1>3, <2>1, <2>2
<1> HIDE DEF t
<1>5. CASE head + 1 < THUNDRED
  <2>1. NextIndex(head) = head + 1
    BY <1>2, <1>5, IndexFacts
  <2>2. count + 1 = THUNDRED * q + (head + 1)
    BY <1>1, <1>2
  <2>3. ASSUME NEW k \in Index
        PROVE  t[k].n = IF k < head + 1 THEN THUNDRED * q + k + 1
                        ELSE IF q = 0 THEN 0 ELSE THUNDRED * q - THUNDRED + k + 1
    <3>1. k \in Nat
      BY IndexFacts
    <3>2. CASE k = head
      BY <1>1, <1>2, <1>3, <3>2
    <3>3. CASE k # head
      <4>1. t[k].n = times[k].n /\ (k < head + 1 <=> k < head)
        BY <1>2, <1>3, <3>1, <3>3
      <4> QED
        BY <1>1, <4>1
    <3> QED
      BY <3>2, <3>3
  <2>4. Filled(t, head + 1, count + 1)
    BY <1>4, <2>2, <2>3 DEF Filled
  <2> QED
    BY <1>2, <2>1, <2>4 DEF t
<1>6. CASE head + 1 = THUNDRED
  <2>1. NextIndex(head) = 0
    BY <1>2, <1>6 DEF NextIndex
  <2>2. count + 1 = THUNDRED * (q + 1) + 0 /\ q + 1 \in Nat /\ q + 1 # 0
    BY <1>1, <1>2, <1>6
  <2>3. THUNDRED * (q + 1) - THUNDRED = THUNDRED * q
    BY <1>2
  <2>4. ASSUME NEW k \in Index
        PROVE  t[k].n = IF k < 0 THEN THUNDRED * (q + 1) + k + 1
                        ELSE IF q + 1 = 0 THEN 0
                        ELSE THUNDRED * (q + 1) - THUNDRED + k + 1
    <3>1. k \in Nat /\ k < THUNDRED
      BY IndexFacts
    <3>2. t[k].n = THUNDRED * q + k + 1
      <4>1. CASE k = head
        BY <1>1, <1>2, <1>3, <4>1
      <4>2. CASE k # head
        <5>1. k < head
          BY <1>2, <1>6, <3>1, <4>2
        <5> QED
          BY <1>1, <1>3, <4>2, <5>1
      <4> QED
        BY <4>1, <4>2
    <3> QED
      BY <2>2, <2>3, <3>1, <3>2
  <2>5. Filled(t, 0, count + 1)
    BY <1>4, <2>2, <2>4 DEF Filled
  <2> QED
    BY <1>2, <2>1, <2>5 DEF t
<1> QED
  BY <1>2, <1>5, <1>6

\* Of two times in a ring, the one further on is the later one, unless the ring has
\* wrapped between them, and then it is earlier by less than a lap.
LEMMA FilledOrder ==
  ASSUME NEW times, NEW head \in Index, NEW count \in Nat, Filled(times, head, count),
         NEW p \in Index, NEW k \in Index, p <= k, times[k].n > 0
  PROVE  /\ times[k].n \in Nat /\ times[p].n \in Nat /\ times[p].n <= count
         /\ times[k].n > times[p].n - THUNDRED
         /\ times[k].n < times[p].n => count > THUNDRED
<1>1. PICK q \in Nat : /\ count = THUNDRED * q + head
                       /\ \A j \in Index :
                            times[j].n = IF j < head THEN THUNDRED * q + j + 1
                                         ELSE IF q = 0 THEN 0
                                         ELSE THUNDRED * q - THUNDRED + j + 1
  BY DEF Filled
<1> DEFINE laps == THUNDRED * q
<1>2. /\ head \in Nat /\ head < THUNDRED /\ THUNDRED \in Nat \ {0} /\ laps \in Nat
      /\ p \in Nat /\ k \in Nat /\ p < THUNDRED /\ k < THUNDRED
      /\ q # 0 => laps >= THUNDRED
  BY IndexFacts
<1>3. /\ count = laps + head
      /\ times[p].n = IF p < head THEN laps + p + 1
                      ELSE IF q = 0 THEN 0 ELSE laps - THUNDRED + p + 1
      /\ times[k].n = IF k < head THEN laps + k + 1
                      ELSE IF q = 0 THEN 0 ELSE laps - THUNDRED + k + 1
  BY <1>1
<1> HIDE DEF laps
<1> QED
  BY <1>2, <1>3

-----------------------------------------------------------------------------
(* What is read of the retransmissions, and what is marked.                *)

\* Where retrans_tail = Len(read) points: what has been read so far lies before the
\* lap that is being stored, place by place.
ReadPlaces ==
  /\ Filled(retrans_times, retrans_head, repeated)
  /\ \A i \in DOMAIN read : /\ read[i].n <= repeated - retrans_head + i
                            /\ (read[i].n - i) % THUNDRED = 0

\* A line with a mark is for the latest that was read.  One that is not of second 0
\* has no line before the end of its round, which writes one at most.
MarkPlace == drop => pc # "retrans"
MarkedInOrder ==
  \A i, j \in DOMAIN written :
    i < j => \/ written[i].n < written[j].n
             \/ written[i] = written[j] /\ written[i].sec = 0
MarkedRead ==
  \A i \in DOMAIN written :
    /\ read # <<>> /\ written[i].n <= read[Len(read)].n
    /\ written[i].n = read[Len(read)].n => written[i] = read[Len(read)]
MarkPending ==
  drop /\ pc # "round" =>
    \/ read[Len(read)].sec = 0
    \/ /\ pc = "final"
       /\ \A i \in DOMAIN written : written[i].n < read[Len(read)].n
ReadInv == ReadPlaces /\ MarkPlace /\ MarkedInOrder /\ MarkedRead /\ MarkPending

\* The packet of a line, x, against the packets not yet taken.
Behind(x) ==
  \A k \in Index : k >= winsize_tail /\ winsize_times[k].n > 0 =>
    /\ winsize_times[k].n > x - THUNDRED
    /\ winsize_times[k].n < x => seen > THUNDRED

LatestInv ==
  /\ Filled(winsize_times, winsize_head, seen)
  /\ latest <= seen /\ Behind(latest)
TakenInv ==
  ~drop => /\ time_tp.n <= seen /\ (time_tp.sec # 0 => time_tp.n > 0)
           /\ Behind(time_tp.n)
           /\ time_tp.n > 0 => /\ time_tp.n > latest - THUNDRED
                               /\ time_tp.n < latest => seen > THUNDRED
LinePlace == pc = "line" => time_tp.sec # 0
LineInv == LatestInv /\ TakenInv /\ LinePlace

LEMMA ReadInit == Init => ReadInv
<1> SUFFICES ASSUME Init PROVE ReadInv
  OBVIOUS
<1>1. /\ retrans_times = [i \in Index |-> Zero] /\ retrans_head = 0 /\ repeated = 0
      /\ read = <<>> /\ written = <<>> /\ drop = FALSE
  BY DEF Init
<1>2. Filled(retrans_times, retrans_head, repeated)
  BY <1>1, FilledEmpty
<1>3. DOMAIN read = {} /\ DOMAIN written = {}
  BY <1>1
<1> QED
  BY <1>1, <1>2, <1>3
  DEF ReadInv, ReadPlaces, MarkPlace, MarkedInOrder, MarkedRead, MarkPending

\* A stored retransmission leaves the earlier ones before the lap being stored.
LEMMA ReadRetransmission ==
  ASSUME RingsInv, ReadInv, Retransmission PROVE ReadInv'
<1>1. /\ retrans_head' = NextIndex(retrans_head) /\ repeated' = repeated + 1
      /\ UNCHANGED <<pc, time_tp, drop, read, written>>
  BY DEF Retransmission, file
<1>2. PICK s \in EarlierSec :
        retrans_times' =
          [retrans_times EXCEPT ![retrans_head] = [n |-> repeated + 1, sec |-> s]]
  BY DEF Retransmission
<1>3. /\ retrans_times \in [Index -> Time] /\ retrans_head \in Index /\ repeated \in Nat
      /\ read \in Seq(Time)
  BY DEF RingsInv, TypeOK, RingType, CountType
<1>4. /\ Filled(retrans_times', retrans_head', repeated')
      /\ repeated - retrans_head <= repeated' - retrans_head'
  <2>1. Filled(retrans_times, retrans_head, repeated)
    BY DEF ReadInv, ReadPlaces
  <2>2. /\ Filled([retrans_times EXCEPT ![retrans_head] = [n |-> repeated + 1, sec |-> s]],
                  NextIndex(retrans_head), repeated + 1)
        /\ repeated - retrans_head <= repeated + 1 - NextIndex(retrans_head)
    <3>1. s \in 0 .. MaxSec
      BY IndexFacts
    <3> QED
      BY <1>3, <2>1, <3>1, FilledStore, Zenon
  <2>3. Filled(retrans_times', retrans_head', repeated')
    BY <1>1, <1>2, <2>2, Zenon
  <2>4. repeated - retrans_head <= repeated' - retrans_head'
    <3>1. retrans_head \in Nat /\ NextIndex(retrans_head) \in Nat
      BY <1>3, IndexFacts
    <3> QED
      BY <1>1, <1>3, <2>2, <3>1
  <2> QED
    BY <2>3, <2>4
<1>5. /\ retrans_head \in Nat /\ retrans_head' \in Nat
      /\ repeated' \in Nat /\ THUNDRED \in Nat
  <2>1. retrans_head \in Nat /\ THUNDRED \in Nat
    BY <1>3, IndexFacts
  <2>2. retrans_head' \in Index
    BY <1>1, <2>1, IndexFacts
  <2> QED
    BY <1>1, <1>3, <2>1, <2>2, IndexFacts
<1>6. ReadPlaces'
  <2>1. ASSUME NEW i \in DOMAIN read
        PROVE  read[i].n <= repeated' - retrans_head' + i /\ (read[i].n - i) % THUNDRED = 0
    <3>1. i \in Nat /\ read[i].n \in Nat
      BY <1>3, TimeFacts
    <3>2. read[i].n <= repeated - retrans_head + i /\ (read[i].n - i) % THUNDRED = 0
      BY DEF ReadInv, ReadPlaces
    <3>3. repeated' - retrans_head' \in Int /\ repeated - retrans_head \in Int
      BY <1>3, <1>5
    <3> QED
      BY <1>4, <3>1, <3>2, <3>3
  <2> QED
    BY <1>1, <1>4, <2>1 DEF ReadPlaces
<1> QED
  BY <1>1, <1>6 DEF ReadInv, MarkPlace, MarkedInOrder, MarkedRead, MarkPending

\* A retransmission that is read is later than all that were read before.
LEMMA ReadRead == ASSUME RingsInv, ReadInv, ReadRetrans PROVE ReadInv'
<1> DEFINE t == retrans_times[retrans_tail]
           base == repeated - retrans_head
<1>1. /\ retrans_head > retrans_tail
      /\ pc' = (IF t.sec = 0 THEN "amount" ELSE "final")
      /\ read' = Append(read, t)
      /\ UNCHANGED <<retrans_times, retrans_head, repeated, written>>
  BY DEF ReadRetrans, retrans, file
<1>2. /\ retrans_head \in Index /\ retrans_tail \in Index /\ repeated \in Nat
      /\ read \in Seq(Time) /\ written \in Seq(Time) /\ retrans_tail = Len(read)
  BY DEF RingsInv, TypeOK, RingType, TailType, CountType, TailInv
<1>3. /\ base \in Nat /\ base % THUNDRED = 0 /\ retrans_tail \in Nat
      /\ t.n = base + retrans_tail + 1 /\ t \in Time
  <2>1. Filled(retrans_times, retrans_head, repeated)
    BY DEF ReadInv, ReadPlaces
  <2>2. /\ base \in Nat /\ base % THUNDRED = 0
        /\ \A k \in Index : k < retrans_head => retrans_times[k].n = base + k + 1
    BY <1>2, <2>1, FilledBase
  <2>3. retrans_tail \in Nat /\ retrans_tail < retrans_head
    BY <1>1, <1>2, IndexFacts
  <2>4. t \in Time
    BY TailTimes
  <2> QED
    BY <1>2, <2>2, <2>3, <2>4
<1> HIDE DEF base, t
<1>4. /\ Len(read') = Len(read) + 1 /\ read' # <<>> /\ read'[Len(read')] = t
      /\ DOMAIN read = 1 .. Len(read) /\ DOMAIN read' = 1 .. Len(read) + 1
      /\ \A i \in DOMAIN read : read'[i] = read[i] /\ read[i].n \in Nat
      /\ Len(read) \in Nat
  <2>1. \A i \in DOMAIN read : read[i] \in Time
    BY <1>2
  <2> QED
    BY <1>1, <1>2, <1>3, <2>1, TimeFacts
<1>5. \A i \in DOMAIN read : read[i].n <= base + i /\ (read[i].n - i) % THUNDRED = 0
  BY DEF ReadInv, ReadPlaces, base
<1>6. \A i \in DOMAIN read : read[i].n < t.n
  BY <1>2, <1>3, <1>4, <1>5
<1>7. ReadPlaces'
  <2>1. ASSUME NEW i \in DOMAIN read'
        PROVE  read'[i].n <= base + i /\ (read'[i].n - i) % THUNDRED = 0
    <3>1. CASE i \in DOMAIN read
      BY <1>4, <1>5, <3>1
    <3>2. CASE i \notin DOMAIN read
      <4>1. i = Len(read) + 1
        BY <1>4, <3>2
      <4>2. read'[i].n = base + i
        BY <1>2, <1>3, <1>4, <4>1
      <4>3. read'[i].n - i = base
        BY <1>3, <1>4, <4>1, <4>2
      <4> QED
        BY <1>3, <1>4, <4>1, <4>2, <4>3
    <3> QED
      BY <3>1, <3>2
  <2> QED
    BY <1>1, <2>1 DEF ReadInv, ReadPlaces, base
<1>8. \A i \in DOMAIN written : written[i].n < t.n
  <2>1. SUFFICES ASSUME NEW i \in DOMAIN written PROVE written[i].n < t.n
    OBVIOUS
  <2>2. read # <<>> /\ written[i].n <= read[Len(read)].n /\ written[i].n \in Nat
    <3>1. written[i] \in Time
      BY <1>2
    <3> QED
      BY <3>1, TimeFacts DEF ReadInv, MarkedRead
  <2>3. Len(read) \in DOMAIN read
    BY <1>2, <1>4, <2>2
  <2> QED
    BY <1>3, <1>4, <1>6, <2>2, <2>3
<1>9. MarkedInOrder' /\ MarkPlace'
  BY <1>1 DEF ReadInv, MarkedInOrder, MarkPlace
<1>10. MarkedRead' /\ MarkPending'
  <2>1. \A i \in DOMAIN written : written[i].n \in Nat /\ t.n \in Nat
    <3>1. \A i \in DOMAIN written : written[i] \in Time
      BY <1>2
    <3> QED
      BY <1>3, <3>1, TimeFacts
  <2> QED
    BY <1>1, <1>4, <1>8, <2>1 DEF MarkedRead, MarkPending
<1> QED
  BY <1>7, <1>9, <1>10 DEF ReadInv

\* A marked line is for the retransmission just read, and another for the same one
\* only if that is of second 0.
LEMMA ReadLine == ASSUME RingsInv, ReadInv, Line \/ Final PROVE ReadInv'
<1> DEFINE last == read[Len(read)]
<1>1. /\ UNCHANGED <<retrans, read, drop>>
      /\ \/ pc = "line" /\ pc' = "window"
         \/ pc = "final" /\ pc' = "round"
      /\ WriteLine \/ written' = written
  BY DEF Line, Final, file
<1>2. read \in Seq(Time) /\ written \in Seq(Time)
  BY DEF RingsInv, TypeOK, CountType
<1>3. ReadPlaces' /\ MarkPlace'
  BY <1>1 DEF ReadInv, ReadPlaces, MarkPlace, retrans
<1>4. CASE written' = written
  BY <1>1, <1>3, <1>4 DEF ReadInv, MarkedInOrder, MarkedRead, MarkPending
<1>5. CASE WriteLine /\ written' # written
  <2>1. drop /\ written' = Append(written, last) /\ last \in Time
    BY <1>5, WriteLineFacts
  <2>2. read # <<>>
    BY <2>1 DEF RingsInv, TailInv
  <2>3. last.sec = 0 \/ \A i \in DOMAIN written : written[i].n < last.n
    BY <1>1, <2>1 DEF ReadInv, MarkPending
  <2>4. last.sec = 0 \/ pc = "final"
    BY <1>1, <2>1 DEF ReadInv, MarkPending
  <2> HIDE DEF last
  <2>5. /\ DOMAIN written = 1 .. Len(written) /\ Len(written) \in Nat
        /\ DOMAIN written' = 1 .. Len(written) + 1
        /\ \A i \in DOMAIN written : written'[i] = written[i] /\ written[i] \in Time
        /\ written'[Len(written) + 1] = last
    BY <1>2, <2>1
  <2>6. \A i \in DOMAIN written : /\ written[i].n <= last.n
                                  /\ written[i].n = last.n => written[i] = last
    BY DEF ReadInv, MarkedRead, last
  <2>7. last.n \in Nat /\ \A i \in DOMAIN written : written[i].n \in Nat
    BY <2>1, <2>5, TimeFacts
  <2>8. MarkedInOrder'
    <3>1. ASSUME NEW i \in DOMAIN written', NEW j \in DOMAIN written', i < j
          PROVE  \/ written'[i].n < written'[j].n
                 \/ written'[i] = written'[j] /\ written'[i].sec = 0
      <4>1. i \in DOMAIN written /\ i \in Nat /\ j \in Nat
        BY <2>5, <3>1
      <4>2. CASE j \in DOMAIN written
        <5>1. \/ written[i].n < written[j].n
              \/ written[i] = written[j] /\ written[i].sec = 0
          BY <3>1, <4>1, <4>2 DEF ReadInv, MarkedInOrder
        <5> QED
          BY <2>5, <4>1, <4>2, <5>1
      <4>3. CASE j \notin DOMAIN written
        <5>1. written'[j] = last /\ written'[i] = written[i]
          BY <2>5, <4>1, <4>3
        <5>2. written[i].n <= last.n /\ (written[i].n = last.n => written[i] = last)
          BY <2>6, <4>1
        <5>3. last.sec = 0 \/ written[i].n < last.n
          BY <2>3, <4>1
        <5>4. written[i].n \in Nat
          BY <2>7, <4>1
        <5> QED
          BY <2>7, <5>1, <5>2, <5>3, <5>4
      <4> QED
        BY <4>2, <4>3
    <3> QED
      BY <3>1 DEF MarkedInOrder
  <2>9. MarkedRead'
    <3>1. ASSUME NEW i \in DOMAIN written'
          PROVE  written'[i].n <= last.n /\ (written'[i].n = last.n => written'[i] = last)
      <4>1. i \in DOMAIN written \/ i = Len(written) + 1
        BY <2>5
      <4> QED
        BY <2>5, <2>6, <2>7, <4>1
    <3> QED
      BY <1>1, <2>2, <3>1 DEF MarkedRead, last
  <2>10. MarkPending'
    BY <1>1, <2>4 DEF MarkPending, last
  <2> QED
    BY <1>3, <2>8, <2>9, <2>10 DEF ReadInv
<1> QED
  BY <1>1, <1>4, <1>5

LEMMA ReadStep == RingsInv /\ ReadInv /\ [Next]_vars => ReadInv'
<1> SUFFICES ASSUME RingsInv, ReadInv, [Next]_vars PROVE ReadInv'
  OBVIOUS
<1> USE DEF ReadInv, ReadPlaces, MarkPlace, MarkedInOrder, MarkedRead, MarkPending
<1>1. CASE UNCHANGED vars
  BY <1>1 DEF vars, retrans, file
<1>2. CASE Packet
  BY <1>2 DEF Packet, retrans, file
<1>3. CASE Round
  BY <1>3 DEF Round, retrans, file
<1>4. CASE NoRetrans \/ Amount \/ TakePacket \/ BreakOff \/ WindowEnd
  <2>1. /\ UNCHANGED <<retrans, read, written, drop>>
        /\ pc \notin {"final", "round"} /\ pc' # "retrans"
    BY <1>4 DEF NoRetrans, Amount, TakePacket, BreakOff, WindowEnd, file
  <2> QED
    BY <2>1 DEF retrans
<1> QED
  BY <1>1, <1>2, <1>3, <1>4, ReadRetransmission, ReadRead, ReadLine DEF Next, Format_data

\* The lines with a mark follow the retransmissions as they were stored, one line for
\* each but for those of second 0, whose round marks a batch; an overrun of the ring
\* costs whole laps: for every length of the ring, however far its writer laps.
THEOREM MarkedInTheirOrder == Spec => []RetransOnce
<1>1. ReadInv => RetransOnce
  BY DEF ReadInv, ReadPlaces, MarkedInOrder, RetransOnce
<1> QED
  BY RingsInit, RingsStep, ReadInit, ReadStep, <1>1, PTL DEF Spec

-----------------------------------------------------------------------------
(* The order of the lines without a mark.                                  *)

LEMMA LineInit == Init => LineInv
<1> SUFFICES ASSUME Init PROVE LineInv
  OBVIOUS
<1>1. /\ winsize_times = [i \in Index |-> Zero] /\ winsize_head = 0 /\ seen = 0
      /\ pc = "round" /\ time_tp = Zero /\ latest = 0
  BY DEF Init
<1>2. Filled(winsize_times, winsize_head, seen)
  BY <1>1, FilledEmpty
<1>3. Behind(0)
  BY <1>1 DEF Behind, Zero
<1>4. 0 > 0 - THUNDRED
  BY IndexFacts
<1> QED
  BY <1>1, <1>2, <1>3, <1>4 DEF LineInv, LatestInv, TakenInv, LinePlace, Zero

\* What waits behind x still does when the tail moves on.
LEMMA BehindMoves ==
  ASSUME NEW x \in Nat, Behind(x), UNCHANGED <<winsize_times, seen>>,
         winsize_tail \in Nat, winsize_tail' \in Nat, winsize_tail' >= winsize_tail
  PROVE  Behind(x)'
<1>1. SUFFICES ASSUME NEW k \in Index, k >= winsize_tail', winsize_times[k].n > 0
               PROVE  /\ winsize_times[k].n > x - THUNDRED
                      /\ winsize_times[k].n < x => seen > THUNDRED
  BY DEF Behind
<1>2. k >= winsize_tail
  BY <1>1, IndexFacts
<1> QED
  BY <1>1, <1>2 DEF Behind

LEMMA LinePacket == ASSUME RingsInv, LineInv, Packet PROVE LineInv'
<1>1. /\ winsize_head' = NextIndex(winsize_head) /\ seen' = seen + 1
      /\ UNCHANGED <<winsize_tail, pc, time_tp, drop, latest>>
  BY DEF Packet, file
<1>2. PICK s \in 1 .. MaxSec :
        winsize_times' = [winsize_times EXCEPT ![winsize_head] = [n |-> seen + 1, sec |-> s]]
  BY DEF Packet
<1>3. /\ winsize_times \in [Index -> Time] /\ winsize_head \in Index /\ seen \in Nat
      /\ latest \in Nat /\ time_tp.n \in Nat
  BY TimeFacts DEF RingsInv, TypeOK, RingType, PlaceType, CountType
<1>4. Filled(winsize_times', winsize_head', seen')
  <2>1. s \in 0 .. MaxSec
    BY IndexFacts
  <2> QED
    BY <1>1, <1>2, <1>3, <2>1, FilledStore DEF LineInv, LatestInv
<1>5. ASSUME NEW x \in Nat, x <= seen, Behind(x) PROVE Behind(x)'
  <2>1. SUFFICES ASSUME NEW k \in Index, k >= winsize_tail, winsize_times'[k].n > 0
                 PROVE  /\ winsize_times'[k].n > x - THUNDRED
                        /\ winsize_times'[k].n < x => seen' > THUNDRED
    BY <1>1 DEF Behind
  <2>2. CASE k = winsize_head
    <3>1. winsize_times'[k].n = seen + 1
      BY <1>2, <1>3, <2>2
    <3> QED
      BY <1>1, <1>3, <1>5, <3>1, IndexFacts
  <2>3. CASE k # winsize_head
    <3>1. winsize_times'[k] = winsize_times[k]
      BY <1>2, <1>3, <2>3
    <3> QED
      BY <1>1, <1>3, <1>5, <2>1, <3>1, IndexFacts DEF Behind
  <2> QED
    BY <2>2, <2>3
<1>6. LatestInv'
  BY <1>1, <1>3, <1>4, <1>5 DEF LineInv, LatestInv
<1>7. TakenInv'
  <2>1. ASSUME ~drop PROVE Behind(time_tp.n)'
    BY <1>1, <1>3, <1>5, <2>1 DEF LineInv, TakenInv, Behind
  <2> QED
    BY <1>1, <1>3, <2>1, IndexFacts DEF LineInv, TakenInv
<1> QED
  BY <1>1, <1>6, <1>7 DEF LineInv, LinePlace

\* The packet at the tail, when it is taken or only looked at.
LEMMA TailPacket ==
  ASSUME RingsInv, LineInv, NEW x, x = winsize_times[winsize_tail]
  PROVE  /\ x.n \in Nat /\ x.n <= seen /\ (x.sec # 0 => x.n > 0) /\ Behind(x.n)
         /\ x.n > 0 => /\ x.n > latest - THUNDRED
                       /\ x.n < latest => seen > THUNDRED
<1>1. /\ winsize_times \in [Index -> Time] /\ winsize_head \in Index /\ seen \in Nat
      /\ winsize_tail \in Index
  BY DEF RingsInv, TypeOK, RingType, TailType, CountType
<1>2. Filled(winsize_times, winsize_head, seen) /\ Behind(latest)
  BY DEF LineInv, LatestInv
<1>3. x.n \in Nat /\ (x.sec # 0 => x.n > 0)
  <2>1. x.n \in Nat
    BY <1>1, TimeFacts
  <2>2. x.n = 0 => x.sec = 0
    BY <1>1, <1>2 DEF Filled
  <2> QED
    BY <2>1, <2>2
<1>4. x.n <= seen
  <2>1. CASE x.n = 0
    BY <1>1, <2>1
  <2>2. CASE x.n > 0
    BY <1>1, <1>2, <2>2, FilledOrder, IndexFacts
  <2> QED
    BY <1>3, <2>1, <2>2
<1>5. Behind(x.n)
  BY <1>1, <1>2, FilledOrder, IndexFacts DEF Behind
<1>6. x.n > 0 => x.n > latest - THUNDRED /\ (x.n < latest => seen > THUNDRED)
  BY <1>1, <1>2, IndexFacts DEF Behind
<1> QED
  BY <1>3, <1>4, <1>5, <1>6

LEMMA LineWindow == ASSUME RingsInv, ReadInv, LineInv, TakePacket \/ BreakOff PROVE LineInv'
<1> DEFINE x == winsize_times[winsize_tail]
<1>1. /\ pc = "window" /\ time_tp' = x
      /\ winsize_tail' \in {winsize_tail, NextIndex(winsize_tail)}
      /\ UNCHANGED <<winsize_times, winsize_head, seen, drop, latest>>
      /\ pc' = "line" => x.sec # 0
  BY DEF TakePacket, BreakOff, packets, file
<1>2. winsize_tail \in Nat /\ winsize_tail' \in Nat /\ winsize_tail' >= winsize_tail
  <2>1. CASE TakePacket
    <3>1. pc = "window" /\ amount > 0 /\ winsize_tail' = NextIndex(winsize_tail)
      BY <2>1 DEF TakePacket
    <3>2. winsize_tail + amount < THUNDRED
      BY <3>1 DEF RingsInv, TailInv
    <3> QED
      BY <3>1, <3>2, TailTimes, IndexFacts
  <2>2. CASE BreakOff
    BY <2>2, TailTimes DEF BreakOff, packets
  <2> QED
    BY <2>1, <2>2
<1>3. /\ x.n \in Nat /\ x.n <= seen /\ (x.sec # 0 => x.n > 0) /\ Behind(x.n)
      /\ x.n > 0 => x.n > latest - THUNDRED /\ (x.n < latest => seen > THUNDRED)
  BY TailPacket
<1>4. latest \in Nat
  BY DEF RingsInv, TypeOK, CountType
<1>5. LatestInv'
  BY <1>1, <1>2, <1>4, BehindMoves DEF LineInv, LatestInv, Behind
<1>6. TakenInv'
  <2> HIDE DEF x
  <2>1. ASSUME NEW k \in Index, k >= winsize_tail', winsize_times[k].n > 0
        PROVE  /\ winsize_times[k].n > x.n - THUNDRED
               /\ winsize_times[k].n < x.n => seen > THUNDRED
    <3>1. k >= winsize_tail
      BY <1>2, <2>1, IndexFacts
    <3> QED
      BY <1>3, <2>1, <3>1 DEF Behind
  <2>2. Behind(time_tp.n)'
    BY <1>1, <2>1 DEF Behind
  <2> QED
    BY <1>1, <1>3, <2>2 DEF TakenInv
<1> QED
  BY <1>1, <1>5, <1>6 DEF LineInv, LinePlace

LEMMA LineStays ==
  ASSUME RingsInv, ReadInv, LineInv,
         Retransmission \/ Round \/ ReadRetrans \/ NoRetrans \/ Amount \/ WindowEnd
         \/ UNCHANGED vars
  PROVE  LineInv'
<1>1. UNCHANGED <<packets, latest>>
  BY DEF Retransmission, Round, ReadRetrans, NoRetrans, Amount, WindowEnd, file, vars
<1>2. \A x \in Nat : Behind(x)' <=> Behind(x)
  BY <1>1 DEF Behind, packets
<1>3. latest \in Nat /\ time_tp.n \in Nat /\ seen \in Nat
  BY TimeFacts DEF RingsInv, TypeOK, CountType, PlaceType
<1>4. LatestInv'
  BY <1>1, <1>2, <1>3 DEF LineInv, LatestInv, packets
<1>5. CASE Retransmission \/ Amount \/ WindowEnd \/ UNCHANGED vars
  <2>1. UNCHANGED <<time_tp, drop>> /\ (pc' = pc \/ pc' # "line")
    BY <1>5 DEF Retransmission, Amount, WindowEnd, vars
  <2>2. Behind(time_tp.n)' <=> Behind(time_tp.n)
    BY <1>1, <2>1 DEF Behind, packets
  <2>3. TakenInv'
    BY <1>1, <2>1, <2>2 DEF LineInv, TakenInv, packets
  <2> QED
    BY <1>4, <2>1, <2>3 DEF LineInv, LinePlace
<1>6. CASE Round \/ NoRetrans
  <2>1. time_tp' = Zero /\ pc' # "line"
    BY <1>6 DEF Round, NoRetrans
  <2>2. Behind(0)'
    <3>1. ASSUME NEW k \in Index, winsize_times[k].n > 0
          PROVE  winsize_times[k].n > 0 - THUNDRED /\ ~(winsize_times[k].n < 0)
      <4>1. winsize_times[k].n \in Nat
        BY TimeFacts DEF RingsInv, TypeOK, RingType
      <4> QED
        BY <3>1, <4>1, IndexFacts
    <3> QED
      BY <1>1, <3>1 DEF Behind, packets
  <2>3. Behind(time_tp.n)'
    BY <2>1, <2>2 DEF Behind, Zero
  <2>4. TakenInv'
    BY <1>1, <1>3, <2>1, <2>3 DEF TakenInv, Zero, packets
  <2> QED
    BY <1>4, <2>1, <2>4 DEF LineInv, LinePlace
<1>7. CASE ReadRetrans
  <2>1. drop' /\ pc' # "line"
    BY <1>7 DEF ReadRetrans
  <2> QED
    BY <1>4, <2>1 DEF LineInv, TakenInv, LinePlace
<1> QED
  BY <1>5, <1>6, <1>7

\* A line without a mark is for the packet in time_tp.
LEMMA LineWritten ==
  ASSUME RingsInv, ReadInv, LineInv, Line \/ Final PROVE LineInv'
<1>1. /\ winsize_tail \in Nat /\ winsize_tail' \in Nat /\ winsize_tail' >= winsize_tail
      /\ latest \in Nat /\ time_tp.n \in Nat /\ seen \in Nat /\ time_tp \in Time
  <2>1. latest \in Nat /\ time_tp.n \in Nat /\ seen \in Nat /\ time_tp \in Time
    BY TimeFacts DEF RingsInv, TypeOK, CountType, PlaceType
  <2>2. CASE Line
    BY <2>1, <2>2, LineSkip, TailTimes
  <2>3. CASE Final
    BY <2>1, <2>3, TailTimes DEF Final, packets
  <2> QED
    BY <2>1, <2>2, <2>3
<1>2. /\ UNCHANGED <<winsize_times, winsize_head, seen, time_tp, drop>>
      /\ pc' # "line"
      /\ \/ latest' = latest
         \/ ~drop /\ time_tp.sec # 0 /\ latest' = time_tp.n
  <2>1. CASE Line
    BY <2>1, WriteLineFacts DEF Line, LineInv, LinePlace
  <2>2. CASE Final
    BY <2>2, WriteLineFacts DEF Final, packets, file
  <2> QED
    BY <2>1, <2>2
<1>3. \A x \in Nat : Behind(x) => Behind(x)'
  BY <1>1, <1>2, BehindMoves
<1>4. ~drop => Behind(time_tp.n)'
  <2>1. SUFFICES ASSUME ~drop, NEW k \in Index, k >= winsize_tail',
                        winsize_times[k].n > 0
                 PROVE  /\ winsize_times[k].n > time_tp.n - THUNDRED
                        /\ winsize_times[k].n < time_tp.n => seen > THUNDRED
    BY <1>2 DEF Behind
  <2>2. k >= winsize_tail
    BY <1>1, <2>1, IndexFacts
  <2> QED
    BY <2>1, <2>2 DEF LineInv, TakenInv, Behind
<1>5. CASE latest' = latest
  <2>1. Behind(latest)'
    <3>1. SUFFICES ASSUME NEW k \in Index, k >= winsize_tail', winsize_times[k].n > 0
                   PROVE  /\ winsize_times[k].n > latest - THUNDRED
                          /\ winsize_times[k].n < latest => seen > THUNDRED
      BY <1>2, <1>5 DEF Behind
    <3>2. k >= winsize_tail
      BY <1>1, <3>1, IndexFacts
    <3> QED
      BY <3>1, <3>2 DEF LineInv, LatestInv, Behind
  <2> QED
    BY <1>2, <1>4, <1>5, <2>1 DEF LineInv, LatestInv, TakenInv, LinePlace
<1>6. CASE ~drop /\ time_tp.sec # 0 /\ latest' = time_tp.n
  <2>1. Behind(latest)'
    BY <1>2, <1>4, <1>6 DEF Behind
  <2>2. time_tp.n <= seen
    BY <1>6 DEF LineInv, TakenInv
  <2>3. LatestInv'
    BY <1>2, <1>6, <2>1, <2>2 DEF LineInv, LatestInv
  <2>4. TakenInv'
    BY <1>1, <1>2, <1>4, <1>6, IndexFacts DEF LineInv, TakenInv
  <2> QED
    BY <1>2, <2>3, <2>4 DEF LineInv, LinePlace
<1> QED
  BY <1>2, <1>5, <1>6

LEMMA LineInvStep == RingsInv /\ ReadInv /\ LineInv /\ [Next]_vars => LineInv'
  BY LinePacket, LineWindow, LineStays, LineWritten DEF Next, Format_data

\* The lines without a mark follow the order of the packets, for every length of the
\* ring: a step that writes a line of an earlier packet finds the ring overrun, and
\* goes back by less than a lap.
THEOREM LinesNeverBack == Spec => NeverBack
<1> DEFINE Inv == RingsInv /\ ReadInv /\ LineInv
           Forward == latest' < latest => seen > THUNDRED /\ latest - latest' < THUNDRED
<1>1. Init => Inv
  BY RingsInit, ReadInit, LineInit
<1>2. Inv /\ [Next]_vars => Inv'
  BY RingsStep, ReadStep, LineInvStep
<1>3. Inv /\ [Next]_vars => [Forward]_vars
  <2> SUFFICES ASSUME Inv, Next PROVE Forward
    BY DEF vars
  <2>1. latest \in Nat /\ time_tp.n \in Nat /\ seen \in Nat
    BY TimeFacts DEF RingsInv, TypeOK, CountType, PlaceType
  <2>2. CASE Line \/ Final
    <3>1. \/ latest' = latest
          \/ ~drop /\ time_tp.sec # 0 /\ latest' = time_tp.n
      <4>1. CASE Line
        BY <4>1, WriteLineFacts DEF Line, LineInv, LinePlace
      <4>2. CASE Final
        BY <4>2, WriteLineFacts DEF Final, file
      <4> QED
        BY <2>2, <4>1, <4>2
    <3>2. CASE latest' = latest
      BY <2>1, <3>2
    <3>3. CASE ~drop /\ time_tp.sec # 0 /\ latest' = time_tp.n
      BY <2>1, <3>3, IndexFacts DEF LineInv, TakenInv
    <3> QED
      BY <3>1, <3>2, <3>3
  <2>3. CASE ~(Line \/ Final)
    <3>1. latest' = latest
      BY <2>3 DEF Next, Format_data, Packet, Retransmission, Round, ReadRetrans,
                  NoRetrans, Amount, TakePacket, BreakOff, WindowEnd, file
    <3> QED
      BY <2>1, <3>1
  <2> QED
    BY <2>2, <2>3
<1>4. NeverBack <=> [][Forward]_vars
  BY DEF NeverBack
<1> HIDE DEF Inv, Forward
<1> QED
  BY <1>1, <1>2, <1>3, <1>4, PTL DEF Spec
=============================================================================

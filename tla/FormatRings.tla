---------------------------- MODULE FormatRings ----------------------------
(***************************************************************************)
(* The two rings of times in the collector (EXP/receive.c).  The decoder   *)
(* thread stores the time of every captured TCP packet in winsize_times    *)
(* (decode_winsize) and, for a sequence number seen before, the time of    *)
(* the earlier transmission in retrans_times (ack_flow_info); a segment    *)
(* with number 0 matches places that were never used, of second 0.  The    *)
(* thread format_data takes times out and writes a line for each into the  *)
(* file of training data, marked drop in a round that has read a           *)
(* retransmission.                                                         *)
(*                                                                         *)
(* Every section under mutex_rdata is one step.  A time is its second and  *)
(* the order in which it was stored, 0 being the zeroed ring.  What the    *)
(* sections on the sample lists leave behind (FormatLists) is horizon, the *)
(* second up to which both queue 3 and the survey have items (0: one of    *)
(* them has none), and paired, queue_p_buffer_f # NULL.                    *)
(***************************************************************************)
EXTENDS Integers, Sequences, SequencesExt

CONSTANTS THUNDRED,     \* length of either ring
          MaxSec,       \* packets are of the seconds 1 .. MaxSec
          EarlierSec,   \* seconds of the earlier transmissions; 0: a place never used
          MaxTimes      \* bound on the times stored in either ring

ASSUME RingsAssumption ==
         /\ THUNDRED \in Nat \ {0, 1} /\ MaxSec \in Nat /\ MaxTimes \in Nat
         /\ EarlierSec \subseteq 0 .. MaxSec

VARIABLES
  winsize_times, winsize_head, winsize_tail, seen,        \* seen: packets stored
  retrans_times, retrans_head, retrans_tail, repeated,    \* retransmissions stored
  horizon, paired,
  pc, time_tp, drop, amount,                              \* format_data
  read, taken,          \* retransmissions read, oldest first; packets read (a count)
  written,              \* for each line with drop, the retransmission it is marked for
  latest                \* packet of the latest line without

packets == <<winsize_times, winsize_head, winsize_tail, seen>>
retrans == <<retrans_times, retrans_head, retrans_tail, repeated>>
samples == <<horizon, paired>>
file == <<written, latest>>
vars == <<packets, retrans, samples, pc, time_tp, drop, amount, read, taken, file>>

Index == 0 .. THUNDRED - 1
Time == [n : Nat, sec : 0 .. MaxSec]
Zero == [n |-> 0, sec |-> 0]

RingType ==
  /\ winsize_times \in [Index -> Time] /\ winsize_head \in Index
  /\ retrans_times \in [Index -> Time] /\ retrans_head \in Index
TailType == winsize_tail \in Index /\ retrans_tail \in Index
PlaceType ==
  /\ pc \in {"round", "retrans", "amount", "window", "line", "final"}
  /\ time_tp \in Time /\ drop \in BOOLEAN /\ amount \in 0 .. THUNDRED
  /\ horizon \in 0 .. MaxSec + 1 /\ paired \in BOOLEAN
CountType ==
  /\ seen \in Nat /\ repeated \in Nat /\ taken \in Nat /\ latest \in Nat
  /\ read \in Seq(Time) /\ written \in Seq(Time)
TypeOK == RingType /\ TailType /\ PlaceType /\ CountType

Init ==
  /\ winsize_times = [i \in Index |-> Zero] /\ winsize_head = 0 /\ winsize_tail = 0
  /\ retrans_times = [i \in Index |-> Zero] /\ retrans_head = 0 /\ retrans_tail = 0
  /\ seen = 0 /\ repeated = 0
  /\ horizon = 0 /\ paired = FALSE
  /\ pc = "round" /\ time_tp = Zero /\ drop = FALSE /\ amount = 0
  /\ read = <<>> /\ taken = 0 /\ written = <<>> /\ latest = 0

-----------------------------------------------------------------------------
(* The decoder thread.                                                     *)

NextIndex(i) == (i + 1) % THUNDRED

\* decode_winsize: every TCP packet an access point reports.
Packet ==
  /\ seen < MaxTimes
  /\ \E s \in 1 .. MaxSec :
       winsize_times' = [winsize_times EXCEPT ![winsize_head] = [n |-> seen + 1, sec |-> s]]
  /\ winsize_head' = NextIndex(winsize_head) /\ seen' = seen + 1
  /\ UNCHANGED <<winsize_tail, retrans, samples, pc, time_tp, drop, amount, read,
                 taken, file>>

\* ack_flow_info: the sequence number is in the list of its flow.  The second is that
\* of the place where it is found, 0 when number 0 is found in a free one.
Retransmission ==
  /\ repeated < MaxTimes
  /\ \E s \in EarlierSec :
       retrans_times' =
         [retrans_times EXCEPT ![retrans_head] = [n |-> repeated + 1, sec |-> s]]
  /\ retrans_head' = NextIndex(retrans_head) /\ repeated' = repeated + 1
  /\ UNCHANGED <<packets, retrans_tail, samples, pc, time_tp, drop, amount, read,
                 taken, file>>

-----------------------------------------------------------------------------
(* format_data: one round of its loop.                                     *)

\* The sections on the sample lists; continue when a list has no item yet.
Round ==
  /\ pc = "round"
  /\ horizon' \in horizon .. MaxSec + 1
  /\ paired' \in {paired, TRUE}
  /\ drop' = FALSE /\ amount' = 0 /\ time_tp' = Zero
  /\ pc' = IF horizon' = 0 THEN "round" ELSE "retrans"
  /\ UNCHANGED <<packets, retrans, read, taken, file>>

\* Items of both lists are later than the time.
Due(t) == t.sec < horizon

ReadTail_Stays == retrans_tail
ReadTail == NextIndex(retrans_tail)

\* The round is one for the retransmission alone, unless its second is 0: then the
\* packets have their turn as if there were none, but drop is set.
ReadRetrans ==
  /\ pc = "retrans"
  /\ retrans_head > retrans_tail /\ Due(retrans_times[retrans_tail])
  /\ time_tp' = retrans_times[retrans_tail]
  /\ retrans_tail' = ReadTail
  /\ drop' = TRUE /\ pc' = IF time_tp'.sec = 0 THEN "amount" ELSE "final"
  /\ read' = Append(read, retrans_times[retrans_tail])
  /\ UNCHANGED <<packets, retrans_times, retrans_head, repeated, samples, amount,
                 taken, file>>

NoRetrans ==
  /\ pc = "retrans"
  /\ ~(retrans_head > retrans_tail /\ Due(retrans_times[retrans_tail]))
  /\ time_tp' = Zero /\ pc' = "amount"
  /\ UNCHANGED <<packets, retrans, samples, drop, amount, read, taken, file>>

\* Waiting times; behind the wrap the code compares where it should subtract.
Waiting_OffByOne(head, tail) == IF head > tail THEN head - tail - 1 ELSE 0
Waiting(head, tail) ==
  IF head > tail THEN head - tail ELSE IF head > tail + THUNDRED THEN 1 ELSE 0

Amount ==
  /\ pc = "amount"
  /\ amount' = Waiting(winsize_head, winsize_tail)
  /\ pc' = "window"
  /\ UNCHANGED <<packets, retrans, samples, time_tp, drop, read, taken, file>>

\* One turn of the loop over winsize_times: a packet that is due is taken; it gets
\* a line when all three lists have items.
TakePacket ==
  /\ pc = "window" /\ amount > 0 /\ Due(winsize_times[winsize_tail])
  /\ time_tp' = winsize_times[winsize_tail]
  /\ winsize_tail' = NextIndex(winsize_tail)
  /\ amount' = amount - 1 /\ taken' = taken + 1
  /\ pc' = IF paired /\ time_tp'.sec # 0 THEN "line" ELSE "window"
  /\ UNCHANGED <<winsize_times, winsize_head, seen, retrans, samples, drop, read, file>>

\* One that is not due stays, but time_tp keeps its time.
BreakOff ==
  /\ pc = "window" /\ amount > 0 /\ ~Due(winsize_times[winsize_tail])
  /\ time_tp' = winsize_times[winsize_tail]
  /\ pc' = "final"
  /\ UNCHANGED <<packets, retrans, samples, drop, amount, read, taken, file>>

WindowEnd ==
  /\ pc = "window" /\ amount = 0
  /\ pc' = "final"
  /\ UNCHANGED <<packets, retrans, samples, time_tp, drop, amount, read, taken, file>>

\* A line of the file.  Its label is drop, for the retransmission the round has read.
Marked_Never == FALSE
Marked == drop

WriteLine ==
  IF Marked THEN written' = Append(written, Last(read)) /\ UNCHANGED latest
            ELSE latest' = time_tp.n /\ UNCHANGED written

\* The line of the packet, and the packets skipped because they are earlier than
\* the items found for it.  Their difference is taken with seconds and
\* microseconds exchanged, so that any packet may count as earlier.  What is left
\* of the batch is counted again after each.
SkipSteps == {k \in 0 .. THUNDRED - 1 :
                /\ k > 0 => amount > 0
                /\ \A m \in 1 .. k - 1 : Waiting(winsize_head, winsize_tail + m) > 0}

Skipped(k) == (winsize_tail + k) % THUNDRED

Left_Stale(k) == amount
Left(k) == IF k = 0 THEN amount ELSE Waiting(winsize_head, Skipped(k))

Line ==
  /\ pc = "line"
  /\ WriteLine
  /\ \E k \in SkipSteps : winsize_tail' = Skipped(k) /\ amount' = Left(k)
  /\ pc' = "window"
  /\ UNCHANGED <<winsize_times, winsize_head, seen, retrans, samples, time_tp, drop,
                 read, taken>>

\* The last section: a line for the time that is still in time_tp.  When it is
\* not due the items may be missing, and what is tested is uninitialised.
Final ==
  /\ pc = "final"
  /\ \/ /\ time_tp.sec # 0 /\ paired
        /\ WriteLine
     \/ /\ time_tp.sec = 0 \/ ~paired \/ ~Due(time_tp)
        /\ UNCHANGED file
  /\ pc' = "round"
  /\ UNCHANGED <<packets, retrans, samples, time_tp, drop, amount, read, taken>>

-----------------------------------------------------------------------------
Format_data ==
  \/ Round \/ ReadRetrans \/ NoRetrans \/ Amount \/ TakePacket \/ BreakOff
  \/ WindowEnd \/ Line \/ Final

Next == Packet \/ Retransmission \/ Format_data

Spec == Init /\ [][Next]_vars

\* format_data is a thread that loops for ever; nothing need ever be stored.
FairSpec == Spec /\ WF_vars(Format_data)

-----------------------------------------------------------------------------
(* Properties.                                                             *)

\* A retransmission is never marked in two lines, and never after a later one,
\* although only a round without one gets to the packets and although writers
\* lap the reader.  The exception is one of second 0: it marks the lines of a whole
\* batch of packets, none of which is a retransmission.  What an overrun of
\* retrans_times costs between two that are read are whole laps of the ring.
RetransOnce ==
  /\ \A i, j \in DOMAIN written :
       i < j => \/ written[i].n < written[j].n
                \/ written[i] = written[j] /\ written[i].sec = 0
  /\ \A i \in DOMAIN read : (read[i].n - i) % THUNDRED = 0

\* format_data never takes more out of a ring than was put in: no place that was
\* never stored and none a second time, although a batch is counted before it is
\* read, lines skip packets in its middle, and both rings wrap behind the reader.
NoMoreThanStored == Len(read) <= repeated /\ taken <= seen

\* The lines without a mark follow the order of the packets: a packet that waits
\* may get several lines, but none after a line of a later packet.  Once more
\* packets came than the ring has places a line may go back, by less than its length.
NeverBack ==
  [][latest' < latest => seen > THUNDRED /\ latest - latest' < THUNDRED]_vars

\* While the rings have not wrapped, every time both lists are past is read in
\* the end, whatever the order of the threads: packets do not starve behind the
\* retransmissions, of which each round reads one first.
FirstLapIsRead ==
  \A k \in 1 .. THUNDRED - 1 :
    /\ repeated >= k /\ horizon > MaxSec ~> retrans_tail >= k \/ repeated >= THUNDRED
    /\ seen >= k /\ horizon > MaxSec ~> winsize_tail >= k \/ seen >= THUNDRED
=============================================================================

--------------------------- MODULE FlowSequences ----------------------------
(***************************************************************************)
(* flow_seq_list of EXP/receive.c: the table from which the collector      *)
(* counts TCP retransmissions.  Every entry is one direction of a          *)
(* connection and has a list of the sequence numbers seen in it.           *)
(*                                                                         *)
(* One thread, g_mes_tn_process, decodes the messages one after another;   *)
(* what makes the table hard is the stream: the messages of several        *)
(* access points with clocks of their own, handshakes and segments in any  *)
(* order, repeated, missing, and more than fit.  A number is 0 where there *)
(* is none; MINUS1 is the largest number, which the code compares with -1. *)
(*                                                                         *)
(* Not modelled: the rings winsize_times and retrans_times, which the same *)
(* handler fills for format_data, and the line written to the log file.    *)
(***************************************************************************)
EXTENDS Integers, FiniteSets

CONSTANTS Connection, None,
          SEQLIST,       \* entries of the table, and numbers of an entry
          MINUS1,        \* the largest sequence number
          AckAge,        \* the 5 seconds after which an acknowledged number goes
          Times,         \* the seconds that messages carry
          Sent, Acked    \* and their sequence numbers and acknowledgements

ASSUME SequencesAssumption ==
         /\ SEQLIST \in Nat \ {0} /\ MINUS1 \in Nat \ {0} /\ AckAge \in Nat
         /\ Times \subseteq Nat \ {0}
         /\ Sent \subseteq 0 .. MINUS1 /\ Acked \subseteq 0 .. MINUS1
         /\ None \notin Connection \X {"up", "down"}

VARIABLES
  flow_seq_list,         \* the table
  counted,               \* what the last message added to count_retrans
  trusted,               \* no message so far was one the table has no room for
  message                \* the last message, as long as that is so

vars == <<flow_seq_list, counted, trusted, message>>

Place == 0 .. SEQLIST - 1
Sequence == 0 .. MINUS1
Flow == Connection \X {"up", "down"}
Reverse(f) == <<f[1], IF f[2] = "up" THEN "down" ELSE "up">>

NoSeq == [seq |-> 0, sec |-> 0]
Seq_info == [seq : Sequence, sec : Times \cup {0}]
NoRecord == [flow |-> None, sec |-> 0, seq_list |-> [i \in Place |-> NoSeq]]
Winsize_record == [flow : Flow \cup {None}, sec : Times \cup {0}, seq_list : [Place -> Seq_info]]

\* What a message carries beside its flags: one without data, and one without an
\* acknowledgement, has a number that is not looked at.
Message ==
       [flags : {"syn"}, flow : Flow, data : {FALSE}, sequence : Sent, ack_sequence : {0}, sec : Times]
  \cup [flags : {"ack"}, flow : Flow, data : {TRUE}, sequence : Sent, ack_sequence : Acked, sec : Times]
  \cup [flags : {"ack"}, flow : Flow, data : {FALSE}, sequence : {0}, ack_sequence : Acked, sec : Times]
  \cup [flags : {"fin", "rst"}, flow : Flow, data : {FALSE}, sequence : {0}, ack_sequence : {0}, sec : Times]

TypeOK ==
  /\ flow_seq_list \in [Place -> Winsize_record]
  /\ counted \in 0 .. SEQLIST /\ trusted \in BOOLEAN
  /\ message \in Message \cup {None}

Init ==
  /\ flow_seq_list = [e \in Place |-> NoRecord]
  /\ counted = 0 /\ trusted = TRUE /\ message = None

First(S) == CHOOSE i \in S : \A j \in S : i <= j
EntriesOf(f) == {e \in Place : flow_seq_list[e].flow = f}
Unused == EntriesOf(None)

-----------------------------------------------------------------------------
\* insert_flow_info: the first unused entry, or the first of the oldest ones if the
\* table is full, gets the flow and its number.  There is no search for the flow,
\* and the other numbers of the entry stay.
Oldest == {e \in Place : \A d \in Place : flow_seq_list[e].sec <= flow_seq_list[d].sec}

Target == First(IF Unused # {} THEN Unused ELSE Oldest)

Stamped(m) == [seq |-> m.sequence, sec |-> m.sec]
Taken(r, m) == [flow |-> m.flow, sec |-> m.sec, seq_list |-> [r.seq_list EXCEPT ![0] = Stamped(m)]]
Inserted(m) == [flow_seq_list EXCEPT ![Target] = Taken(@, m)]

\* clear_flow_info: the first entry of the flow is zeroed.
Cleared_KeepNumbers(f) ==
  IF EntriesOf(f) = {} THEN flow_seq_list
  ELSE [flow_seq_list EXCEPT ![First(EntriesOf(f))] = [@ EXCEPT !.flow = None, !.sec = 0]]
Cleared(f) ==
  IF EntriesOf(f) = {} THEN flow_seq_list
  ELSE [flow_seq_list EXCEPT ![First(EntriesOf(f))] = NoRecord]

\* ack_flow_info, the first part: a number that is in the list counts once for each
\* place it is found in; another goes to the first free place, if there is one.
Repeats(list, s) == {i \in Place : list[i].seq = s /\ s # MINUS1}
Vacant(list) == {i \in Place : list[i].seq \in {0, MINUS1}}

Recorded(list, m) ==
  LET hits == Repeats(list, m.sequence)
      places == IF hits # {} THEN hits
                ELSE IF Vacant(list) = {} THEN {} ELSE {First(Vacant(list))}
  IN  [i \in Place |-> IF i \in places THEN Stamped(m) ELSE list[i]]

Tracked_Always(m) == Inserted(m)
Tracked(m) ==
  IF EntriesOf(m.flow) = {} THEN Inserted(m)
  ELSE [flow_seq_list EXCEPT ![First(EntriesOf(m.flow))].seq_list = Recorded(@, m)]
Hits(m) ==
  IF EntriesOf(m.flow) = {} THEN 0
  ELSE Cardinality(Repeats(flow_seq_list[First(EntriesOf(m.flow))].seq_list, m.sequence))

\* The second part: the numbers of the other direction below the acknowledgement
\* are forgotten if they are older than AckAge.  The difference is unsigned: a
\* number with a later time than the message's is taken for an old one.
Passed_Equal(s, m) == s.seq <= m.ack_sequence /\ (m.sec < s.sec \/ m.sec - s.sec > AckAge)
Passed(s, m) == s.seq < m.ack_sequence /\ (m.sec < s.sec \/ m.sec - s.sec > AckAge)

Acknowledged(table, m) ==
  LET others == {e \in Place : table[e].flow = Reverse(m.flow)} IN
  IF others = {} THEN table
  ELSE [table EXCEPT ![First(others)].seq_list =
          [i \in Place |-> IF Passed(@[i], m) THEN NoSeq ELSE @[i]]]

-----------------------------------------------------------------------------
(* decode_winsize, by the flags of the message.                            *)

\* The code has room for the message: an entry for a new flow, no entry yet for a
\* flow that begins, a place for a new number, and a number that stands for itself.
Ordinary(m) == m.sequence \notin {0, MINUS1}
RoomForSyn(m) == Ordinary(m) /\ EntriesOf(m.flow) = {} /\ Unused # {}
RoomForData(m) ==
  /\ Ordinary(m)
  /\ IF EntriesOf(m.flow) = {} THEN Unused # {}
     ELSE LET list == flow_seq_list[First(EntriesOf(m.flow))].seq_list
          IN Repeats(list, m.sequence) \cup Vacant(list) # {}

Syn(m) ==
  /\ m.flags = "syn"
  /\ flow_seq_list' = Inserted(m) /\ counted' = 0
  /\ trusted' = (trusted /\ RoomForSyn(m))

Fin(m) ==
  /\ m.flags = "fin"
  /\ flow_seq_list' = Cleared(m.flow) /\ counted' = 0
  /\ UNCHANGED trusted

Ack(m) ==
  /\ m.flags = "ack"
  /\ IF m.data
     THEN /\ flow_seq_list' = Acknowledged(Tracked(m), m)
          /\ counted' = Hits(m)
          /\ trusted' = (trusted /\ RoomForData(m))
     ELSE /\ flow_seq_list' = Acknowledged(flow_seq_list, m)
          /\ counted' = 0
          /\ UNCHANGED trusted

\* A reset does nothing: (flags & 4) is never 1.
Rst(m) == m.flags = "rst" /\ counted' = 0 /\ UNCHANGED <<flow_seq_list, trusted>>

Next == \E m \in Message :
          /\ Syn(m) \/ Fin(m) \/ Ack(m) \/ Rst(m)
          /\ message' = IF trusted' THEN m ELSE None

Spec == Init /\ [][Next]_vars

-----------------------------------------------------------------------------
(* Properties.                                                             *)

\* As long as the stream is one that the table has room for, a segment is counted
\* as a retransmission exactly if its number is open in its flow, whatever the
\* order of the messages and the clocks they carry (flow_seq_list is "used to
\* compute retrans, record seq of each dataflow", receive.c:44).
NumbersOf(f) ==
  IF EntriesOf(f) = {} THEN {}
  ELSE {flow_seq_list[First(EntriesOf(f))].seq_list[i].seq : i \in Place} \ {0}
Log == INSTANCE RetransLog WITH
         NoMessage <- None,
         open <- [f \in Flow |-> IF trusted THEN NumbersOf(f) ELSE {}],
         counted <- IF trusted THEN counted ELSE 0,
         lost <- ~trusted
ImplementsLog == Log!Spec

\* An unused entry has no numbers left in it, even after evictions, repeated
\* handshakes and resets: a flow that gets it begins with its own number alone.
UnusedIsBlank == \A e \in Unused : flow_seq_list[e] = NoRecord

\* Whatever was evicted, repeated or lost before: only a handshake gives a second entry
\* to a flow that has one.  Segments, which make an entry too, go on with the one there
\* is, even when their acknowledgement changes the other direction in the same step.
OnlyHandshakesDouble ==
  [][\A d, e \in Place :
       LET f == flow_seq_list'[d].flow IN
       d # e /\ f # None /\ flow_seq_list[d].flow # f /\ flow_seq_list'[e].flow = f
         => \E m \in Message : m.flow = f /\ Syn(m)]_vars
=============================================================================

----------------------------- MODULE RetransLog -----------------------------
(***************************************************************************)
(* What the collector promises of TCP retransmissions (flow_seq_list of    *)
(* EXP/receive.c): for every flow the sequence numbers that are open, a    *)
(* segment counted exactly if its number is open, and numbers forgotten    *)
(* only by an acknowledgement of the other direction that has passed them  *)
(* or by the flow's FIN.  The promise ends when the collector meets what   *)
(* it has no room for.                                                     *)
(***************************************************************************)
EXTENDS Naturals

CONSTANTS Flow, Sequence, Message, NoMessage, Reverse(_)

VARIABLES message,       \* what arrived last
          open,          \* the numbers of every flow that are open
          counted,       \* whether it was counted
          lost           \* the promise has ended
vars == <<message, open, counted, lost>>

Nothing == [f \in Flow |-> {}]
Init == message = NoMessage /\ open = Nothing /\ counted = 0 /\ lost = FALSE

Keep(fs) == \A f \in fs : open'[f] = open[f]
Opens(f, s) == open'[f] = open[f] \cup {s}
Counts(f, s) == counted' = IF s \in open[f] THEN 1 ELSE 0
Forgets(f, ack) ==
  open'[f] \subseteq open[f] /\ \A s \in open[f] \ open'[f] : s < ack

Syn(m) ==
  m.flags = "syn" /\ open[m.flow] = {} /\ Opens(m.flow, m.sequence)
    /\ Keep(Flow \ {m.flow}) /\ counted' = 0
Fin(m) == m.flags = "fin" /\ open'[m.flow] = {} /\ Keep(Flow \ {m.flow}) /\ counted' = 0
Rst(m) == m.flags = "rst" /\ Keep(Flow) /\ counted' = 0

Segment(m) ==
  /\ m.flags = "ack" /\ m.data
  /\ Opens(m.flow, m.sequence) /\ Counts(m.flow, m.sequence)
  /\ Forgets(Reverse(m.flow), m.ack_sequence) /\ Keep(Flow \ {m.flow, Reverse(m.flow)})
PureAck(m) ==
  /\ m.flags = "ack" /\ ~m.data /\ counted' = 0
  /\ Forgets(Reverse(m.flow), m.ack_sequence) /\ Keep(Flow \ {Reverse(m.flow)})

GiveUp == lost' = TRUE /\ message' = NoMessage /\ open' = Nothing /\ counted' = 0

Next ==
  \/ /\ ~lost /\ lost' = FALSE
     /\ message' \in Message /\ open' \in [Flow -> SUBSET Sequence]
     /\ LET m == message' IN Syn(m) \/ Fin(m) \/ Rst(m) \/ Segment(m) \/ PureAck(m)
  \/ GiveUp

Spec == Init /\ [][Next]_vars
=============================================================================

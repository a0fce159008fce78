------------------------ MODULE ControlSessionProofs ------------------------
(***************************************************************************)
(* Proofs about ControlSession, for any number of link slots, stations and *)
(* sessions, any contents of the flow table and any answers of the tree:   *)
(* type correctness, that no flow is left for another session and that the *)
(* commands of one flagged link are those of the slots sent for it, in     *)
(* every environment; and, in a calm one, that the program takes exactly   *)
(* what the kernel sent, all of it for the request at hand, asks the tree  *)
(* about the links of the table and passes no flow over.                   *)
(***************************************************************************)
EXTENDS ControlSession, FiniteSetTheorems, SequenceTheorems, TLAPS

Opening == {"states", "links", "await", "read"}
Asking == {"flows", "receive"}
IsFlow(m) == m.kind = "flow"

-----------------------------------------------------------------------------
(* In every environment.                                                   *)

\* Where a session stands: links read, links flagged, the state of the socket.
PlaceInv ==
  /\ pc # "idle" => session > 0
  /\ Len(link_info) <= station_count
  /\ pc \in Asking => j <= Len(link_info) /\ 0 < hits /\ hits <= j
  /\ pc \notin Asking => hits < j
  /\ pc \in Opening => hits = 0 /\ commands = <<>>
  /\ hits = 0 /\ pc # "idle" => skfd # "closed"

\* Nothing is queued but on a bound socket, and no flow but while flows are asked for.
QueueInv ==
  /\ skfd # "bound" => inbox = <<>>
  /\ pc \notin Asking => \A n \in DOMAIN inbox : ~IsFlow(inbox[n])

\* The flows of the first flagged link come in the order of their slots, and those
\* that are queued are behind those for which a command was sent.
CommandsInOrder == \A m, n \in DOMAIN commands : m < n => commands[m].slot < commands[n].slot
FlowsInOrder ==
  /\ \A m, n \in DOMAIN inbox :
       m < n /\ IsFlow(inbox[m]) /\ IsFlow(inbox[n]) => inbox[m].slot < inbox[n].slot
  /\ \A m \in DOMAIN commands, n \in DOMAIN inbox :
       IsFlow(inbox[n]) => commands[m].slot < inbox[n].slot

CommandInv ==
  /\ hits = 0 => commands = <<>>
  /\ hits <= 1 => CommandsInOrder
  /\ hits = 1 /\ pc \in Asking => skfd # "closed" /\ FlowsInOrder
  /\ hits = 1 /\ pc = "flows" =>
       /\ commands = <<>>
       /\ \A n \in DOMAIN inbox : IsFlow(inbox[n]) => inbox[n].slot < kslot

SessionInv == TypeOK /\ PlaceInv /\ QueueInv /\ CommandInv

\* The flows of the first flagged link, queued or throttled, are those that recv_cb
\* found in their slots.
EntryInv ==
  hits = 1 /\ pc \in Asking =>
    /\ \A n \in DOMAIN inbox :
         IsFlow(inbox[n]) => inbox[n].entry = reported[inbox[n].slot]
    /\ \A n \in DOMAIN commands : commands[n].entry = reported[commands[n].slot]

-----------------------------------------------------------------------------
(* In a calm environment.                                                  *)

Below(table, k) == Cardinality({s \in Active(table) : s < k})
LinkMessage(s) == [kind |-> "link", session |-> session, station |-> iwp[s]]
StatesMessage == [kind |-> "states", session |-> session, count |-> Below(iwp, TEN + 1)]

\* A reply to the request "states" as far as the slots below k.
RepliedUpTo(k) ==
  /\ Len(inbox) = Below(iwp, k) + 1 /\ inbox[1] = StatesMessage
  /\ \A s \in Active(iwp) : s < k => inbox[Below(iwp, s) + 2] = LinkMessage(s)

\* The links read are the first of the table, and the next message is the next link.
LinksRead ==
  /\ station_count = Below(iwp, TEN + 1)
  /\ Len(link_info) + Len(inbox) = station_count
  /\ \A s \in Active(iwp) :
       IF Below(iwp, s) < Len(link_info) THEN link_info[Below(iwp, s) + 1] = iwp[s]
       ELSE inbox[Below(iwp, s) + 1 - Len(link_info)] = LinkMessage(s)

LinksKnown ==
  /\ Len(link_info) = Below(iwp, TEN + 1)
  /\ \A s \in Active(iwp) : link_info[Below(iwp, s) + 1] = iwp[s]

\* Only this session's replies are queued or were used; hits = 1 closes the socket.
FreshInv ==
  /\ \A n \in DOMAIN inbox : inbox[n].session = session
  /\ answered \subseteq {session}
  /\ skfd # "unbound" /\ hits <= 1
  /\ pc \in Opening \cup Asking => skfd = "bound"

\* What is queued, at every place of a session.
StepInv ==
  /\ pc \in {"idle", "states", "search"} => inbox = <<>>
  /\ pc = "links" => RepliedUpTo(kslot)
  /\ pc = "await" => \/ Len(inbox) = 1 /\ inbox[1].kind = "nonedata"
                     \/ RepliedUpTo(TEN + 1)
  /\ pc = "read" => LinksRead
  /\ pc \in {"search"} \cup Asking => LinksKnown
  /\ pc = "flows" => Len(inbox) = kslot - 1
  /\ pc = "receive" => Len(inbox) = TEN + 1 - i

CalmInv == calm => Below(iwp, TEN + 1) < TEN /\ FreshInv /\ StepInv

\* The flows queued are those of the slots not yet read, and every flow of the flagged
\* station in a slot that was read has its command.
FlowMessage(s) == [kind |-> "flow", session |-> session, slot |-> s, entry |-> reported[s]]
Flagged(s) == reported[s] # NoEntry /\ reported[s].station = link_info[j]
FlowInv ==
  calm =>
    /\ pc = "flows" => \A n \in 1 .. Len(inbox) : inbox[n] = FlowMessage(n)
    /\ pc = "receive" =>
         /\ \A n \in 1 .. Len(inbox) : inbox[n] = FlowMessage(i - 1 + n)
         /\ \A s \in 1 .. i - 1 :
              Flagged(s) => \E n \in DOMAIN commands : commands[n].slot = s

-----------------------------------------------------------------------------
(* Facts about the data.                                                   *)

LEMMA ConstantFacts ==
  /\ TEN \in Nat /\ TEN > 0 /\ MaxSessions \in Nat /\ None \notin Station
  /\ 1 \in Slot /\ Slot \subseteq Nat /\ Station \subseteq Owner /\ None \in Owner
  /\ NoEntry \in Entry
  BY ControlAssumption DEF ControlAssumption, Slot, Owner, Entry

LEMMA MessageFacts ==
  ASSUME NEW m \in Message
  PROVE  /\ m.session \in Session
         /\ m.kind \in {"nonedata", "states", "link", "flow"}
         /\ m.kind = "states" => m.count \in 0 .. TEN
         /\ m.kind = "link" => m.station \in Station
         /\ m.kind = "flow" => m.slot \in Slot /\ m.entry \in Entry
  BY DEF Message

LEMMA MessageForms ==
  ASSUME NEW s \in Session
  PROVE  /\ [kind |-> "nonedata", session |-> s] \in Message
         /\ \A c \in 0 .. TEN : [kind |-> "states", session |-> s, count |-> c] \in Message
         /\ \A x \in Station : [kind |-> "link", session |-> s, station |-> x] \in Message
         /\ \A n \in Slot, x \in Entry :
              [kind |-> "flow", session |-> s, slot |-> n, entry |-> x] \in Message
  BY DEF Message

LEMMA HeadFacts ==
  ASSUME inbox \in Seq(Message), inbox # <<>>
  PROVE  /\ Head(inbox) \in Message /\ Head(inbox) = inbox[1]
         /\ 1 \in DOMAIN inbox /\ Len(inbox) > 0
         /\ Tail(inbox) \in Seq(Message) /\ Len(Tail(inbox)) = Len(inbox) - 1
         /\ \A n \in DOMAIN Tail(inbox) : n + 1 \in DOMAIN inbox /\ Tail(inbox)[n] = inbox[n + 1]
  OBVIOUS

\* A reply is queued or lost.
LEMMA ReplyFacts ==
  ASSUME inbox \in Seq(Message), NEW m \in Message, Reply(m)
  PROVE  /\ inbox' \in Seq(Message)
         /\ \/ skfd # "bound" /\ inbox' = inbox
            \/ /\ skfd = "bound" /\ Len(inbox') = Len(inbox) + 1
               /\ DOMAIN inbox' = DOMAIN inbox \cup {Len(inbox) + 1}
               /\ \A n \in DOMAIN inbox : inbox'[n] = inbox[n]
               /\ inbox'[Len(inbox) + 1] = m
<1>1. CASE skfd # "bound"
  BY <1>1 DEF Reply
<1>2. CASE skfd = "bound"
  <2>1. inbox' = Append(inbox, m)
    BY <1>2 DEF Reply
  <2> QED
    BY <1>2, <2>1, AppendProperties, LenProperties
<1> QED
  BY <1>1, <1>2

\* The slots in use are counted.
LEMMA ActiveFacts ==
  ASSUME NEW table
  PROVE  /\ IsFiniteSet(Active(table)) /\ Active(table) \subseteq Slot
         /\ Cardinality(Active(table)) \in 0 .. TEN
<1>1. Active(table) \subseteq Slot
  BY DEF Active
<1>2. IsFiniteSet(Slot) /\ Cardinality(Slot) = TEN
  BY FS_Interval, ConstantFacts DEF Slot
<1>3. IsFiniteSet(Active(table)) /\ Cardinality(Active(table)) <= TEN
  BY <1>1, <1>2, FS_Subset
<1> QED
  BY <1>1, <1>3, FS_CardinalityType, ConstantFacts

LEMMA ActiveSlots == ASSUME NEW table PROVE \A s \in Active(table) : s \in Nat /\ s \in 1 .. TEN
  BY DEF Active, Slot

LEMMA BelowFacts ==
  ASSUME NEW table
  PROVE  /\ \A k \in Nat : Below(table, k) \in 0 .. TEN
         /\ \A k, l \in Nat : k <= l => Below(table, k) <= Below(table, l)
         /\ \A k \in Nat : Below(table, k + 1) =
              IF k \in Active(table) THEN Below(table, k) + 1 ELSE Below(table, k)
         /\ \A s \in Active(table), k \in Nat : s < k => Below(table, s) < Below(table, k)
         /\ Below(table, 1) = 0 /\ Below(table, TEN + 1) = Cardinality(Active(table))
         /\ \A s \in Active(table) : Cardinality({q \in Active(table) : q <= s})
                                       = Below(table, s) + 1
<1> DEFINE Under(k) == {s \in Active(table) : s < k}
<1>1. /\ IsFiniteSet(Active(table)) /\ Active(table) \subseteq Slot
      /\ Active(table) \subseteq Nat /\ Cardinality(Active(table)) \in 0 .. TEN
  BY ActiveFacts, ConstantFacts
<1>2. \A k \in Nat : /\ IsFiniteSet(Under(k)) /\ Cardinality(Under(k)) \in Nat
                     /\ Cardinality(Under(k)) <= Cardinality(Active(table))
  BY <1>1, FS_Subset, FS_CardinalityType
<1>3. ASSUME NEW k \in Nat
      PROVE  Below(table, k) \in 0 .. TEN
  <2>1. Below(table, k) = Cardinality(Under(k))
    BY DEF Below
  <2> QED
    BY <1>1, <1>2, <2>1, ConstantFacts
<1>4. ASSUME NEW k \in Nat, NEW l \in Nat, k <= l
      PROVE  Below(table, k) <= Below(table, l)
  <2>1. Under(k) \subseteq Under(l)
    BY <1>1, <1>4
  <2> QED
    BY <1>2, <2>1, FS_Subset DEF Below
<1>5. ASSUME NEW k \in Nat
      PROVE  Below(table, k + 1) =
               IF k \in Active(table) THEN Below(table, k) + 1 ELSE Below(table, k)
  <2>1. CASE k \in Active(table)
    <3>1. Under(k + 1) = Under(k) \cup {k} /\ k \notin Under(k)
      BY <1>1, <2>1
    <3>2. Cardinality(Under(k) \cup {k}) = Cardinality(Under(k)) + 1
      BY <1>2, <3>1, FS_AddElement
    <3> QED
      BY <2>1, <3>1, <3>2 DEF Below
  <2>2. CASE k \notin Active(table)
    <3>1. Under(k + 1) = Under(k)
      BY <1>1, <2>2
    <3> QED
      BY <2>2, <3>1 DEF Below
  <2> QED
    BY <2>1, <2>2
<1>6. ASSUME NEW s \in Active(table), NEW k \in Nat, s < k
      PROVE  Below(table, s) < Below(table, k)
  <2>1. s \in Nat /\ s + 1 <= k
    BY <1>1, <1>6
  <2>2. Below(table, s + 1) = Below(table, s) + 1 /\ Below(table, s + 1) <= Below(table, k)
    BY <1>4, <1>5, <2>1
  <2> QED
    BY <1>3, <2>1, <2>2
<1>7. Below(table, 1) = 0
  <2>1. Under(1) = {}
    BY <1>1 DEF Slot
  <2> QED
    BY <2>1, FS_EmptySet DEF Below
<1>8. Below(table, TEN + 1) = Cardinality(Active(table))
  <2>1. Under(TEN + 1) = Active(table)
    BY <1>1, ConstantFacts DEF Slot
  <2> QED
    BY <2>1 DEF Below
<1>9. ASSUME NEW s \in Active(table)
      PROVE  Cardinality({q \in Active(table) : q <= s}) = Below(table, s) + 1
  <2>1. s \in Nat /\ {q \in Active(table) : q <= s} = Under(s + 1)
    BY <1>1
  <2> QED
    BY <1>5, <2>1 DEF Below
<1> QED
  BY <1>3, <1>4, <1>5, <1>6, <1>7, <1>8, <1>9

-----------------------------------------------------------------------------
(* SessionInv is inductive.                                                *)

LEMMA SessionInit == Init => SessionInv
<1> SUFFICES ASSUME Init PROVE SessionInv
  OBVIOUS
<1>1. TypeOK
  BY ConstantFacts DEF Init, TypeOK, Owner, Slot
<1>2. PlaceInv /\ QueueInv /\ CommandInv
  BY DEF Init, PlaceInv, QueueInv, CommandInv, Opening, Asking, CommandsInOrder,
         FlowsInOrder
<1> QED
  BY <1>1, <1>2 DEF SessionInv

\* A session is begun, or is not for want of a socket.
LEMMA BeginStep == ASSUME SessionInv, Begin \/ OpenFails PROVE SessionInv'
<1> USE DEF SessionInv
<1>1. /\ pc = "idle" /\ session < MaxSessions /\ session' = session + 1
      /\ pc' \in {"idle", "states"} /\ UNCHANGED <<kernel, inbox>> /\ Fresh
  BY DEF Begin, OpenFails
<1>2. /\ skfd' \in {"closed", "bound", "unbound"}
      /\ skfd' = "bound" \/ inbox = <<>>
      /\ pc' # "idle" => skfd' # "closed"
  BY DEF Begin, OpenFails, TypeOK, QueueInv
<1>3. session' \in 0 .. MaxSessions /\ session' > 0
  BY <1>1, ConstantFacts DEF TypeOK
<1>4. TypeOK'
  BY <1>1, <1>2, <1>3, ConstantFacts DEF TypeOK, Fresh, kernel
<1>5. PlaceInv' /\ CommandInv'
  BY <1>1, <1>2, <1>3 DEF PlaceInv, CommandInv, Fresh, Opening, Asking, CommandsInOrder
<1>6. QueueInv'
  BY <1>1, <1>2 DEF QueueInv, Asking
<1> QED
  BY <1>4, <1>5, <1>6

\* The table of links changes.
LEMMA TimerStep == ASSUME SessionInv, Timer PROVE SessionInv'
<1> USE DEF SessionInv
<1>1. /\ iwp' \in [Slot -> Owner]
      /\ UNCHANGED <<calm, kslot, socket, session, pc, links, flows, answered>>
  BY DEF Timer, TypeOK
<1>2. TypeOK'
  BY <1>1 DEF TypeOK, socket, links, flows
<1>3. PlaceInv' /\ QueueInv' /\ CommandInv'
  BY <1>1 DEF PlaceInv, QueueInv, CommandInv, CommandsInOrder, FlowsInOrder, socket,
              links, flows
<1> QED
  BY <1>2, <1>3

\* The kernel's replies to the request "states".
LEMMA StatesStep ==
  ASSUME SessionInv, ReplyNone \/ ReplyStates \/ ReplyLink \/ ReplyLinksEnd
  PROVE  SessionInv'
<1> USE DEF SessionInv
<1>1. /\ pc \in {"states", "links"} /\ pc' \in {"links", "await"}
      /\ kslot' \in 1 .. TEN + 1
      /\ UNCHANGED <<calm, iwp, skfd, session, links, flows, answered>>
  BY ConstantFacts
  DEF ReplyNone, ReplyStates, ReplyLink, ReplyLinksEnd, kernel, socket, TypeOK
<1>2. session \in Session
  BY <1>1, ConstantFacts DEF TypeOK, PlaceInv, Session
<1>3. \/ UNCHANGED inbox
      \/ \E m \in Message : Reply(m) /\ ~IsFlow(m)
  <2>1. CASE ReplyNone
    BY <2>1, <1>2, MessageForms DEF ReplyNone, IsFlow
  <2>2. CASE ReplyStates
    <3>1. Count \in 0 .. TEN
      BY ActiveFacts DEF Count
    <3> QED
      BY <2>2, <1>2, <3>1, MessageForms DEF ReplyStates, IsFlow
  <2>3. CASE ReplyLink
    <3>1. kslot \in Slot /\ (iwp[kslot] # None => iwp[kslot] \in Station)
      BY <2>3 DEF ReplyLink, TypeOK, Slot, Owner
    <3> QED
      BY <2>3, <1>2, <3>1, MessageForms DEF ReplyLink, IsFlow
  <2>4. CASE ReplyLinksEnd
    BY <2>4 DEF ReplyLinksEnd, socket
  <2> QED
    BY <2>1, <2>2, <2>3, <2>4
<1>4. /\ inbox' \in Seq(Message)
      /\ skfd # "bound" => inbox' = inbox
      /\ \A n \in DOMAIN inbox' : ~IsFlow(inbox'[n])
  <2>1. \A n \in DOMAIN inbox : ~IsFlow(inbox[n])
    BY <1>1 DEF QueueInv, Asking
  <2>2. CASE UNCHANGED inbox
    BY <2>1, <2>2 DEF TypeOK
  <2>3. ASSUME NEW m \in Message, Reply(m), ~IsFlow(m)
        PROVE  /\ inbox' \in Seq(Message)
               /\ skfd # "bound" => inbox' = inbox
               /\ \A n \in DOMAIN inbox' : ~IsFlow(inbox'[n])
    BY <2>1, <2>3, ReplyFacts DEF TypeOK
  <2> QED
    BY <1>3, <2>2, <2>3
<1>5. TypeOK'
  BY <1>1, <1>4 DEF TypeOK, links, flows
<1>6. PlaceInv' /\ QueueInv'
  BY <1>1, <1>4 DEF PlaceInv, QueueInv, Opening, Asking, links, flows
<1>7. CommandInv'
  BY <1>1 DEF PlaceInv, CommandInv, CommandsInOrder, Opening, Asking, links, flows
<1> QED
  BY <1>5, <1>6, <1>7

\* A message is taken from the queue, none of them a flow.
LEMMA TakenFacts ==
  ASSUME SessionInv, inbox # <<>>, inbox' = Tail(inbox), pc \notin Asking
  PROVE  /\ Head(inbox) \in Message /\ ~IsFlow(Head(inbox))
         /\ inbox' \in Seq(Message) /\ skfd = "bound"
         /\ \A n \in DOMAIN inbox' : ~IsFlow(inbox'[n])
  BY HeadFacts DEF SessionInv, TypeOK, QueueInv

LEMMA AwaitStep == ASSUME SessionInv, Await PROVE SessionInv'
<1> USE DEF SessionInv
<1>1. /\ pc = "await" /\ inbox # <<>> /\ inbox' = Tail(inbox) /\ info' = Head(inbox)
      /\ answered' = answered \cup {Head(inbox).session}
      /\ station_count' = AnnouncedBy(Head(inbox)) /\ link_info' = <<>> /\ j' = 1
      /\ pc' \in {"idle", "read"}
      /\ UNCHANGED <<kernel, skfd, session, i, hits, commands, reported>>
  BY DEF Await
<1>2. /\ Head(inbox) \in Message /\ inbox' \in Seq(Message) /\ skfd = "bound"
      /\ \A n \in DOMAIN inbox' : ~IsFlow(inbox'[n])
  BY <1>1, TakenFacts DEF Asking
<1>3. station_count' \in 0 .. TEN /\ Head(inbox).session \in Session
  BY <1>1, <1>2, MessageFacts, ConstantFacts DEF AnnouncedBy
<1>4. hits = 0 /\ commands = <<>>
  BY <1>1 DEF PlaceInv, Opening
<1>5. TypeOK'
  BY <1>1, <1>2, <1>3, ConstantFacts DEF TypeOK, kernel
<1>6. PlaceInv' /\ QueueInv' /\ CommandInv'
  BY <1>1, <1>2, <1>3, <1>4 DEF PlaceInv, QueueInv, CommandInv, CommandsInOrder, Opening,
     Asking
<1> QED
  BY <1>5, <1>6

LEMMA ReadStep == ASSUME SessionInv, ReadLink \/ ReadEnd PROVE SessionInv'
<1> USE DEF SessionInv
<1>1. CASE ReadLink
  <2>1. /\ pc = "read" /\ Len(link_info) < station_count /\ station_count < TEN
        /\ inbox # <<>> /\ inbox' = Tail(inbox) /\ info' = Head(inbox)
        /\ answered' = answered \cup {Head(inbox).session}
        /\ link_info' = Append(link_info, StationOf(Head(inbox)))
        /\ UNCHANGED <<kernel, skfd, session, pc, station_count, j, i, hits, commands,
                       reported>>
    BY <1>1 DEF ReadLink
  <2>2. /\ Head(inbox) \in Message /\ inbox' \in Seq(Message) /\ skfd = "bound"
        /\ \A n \in DOMAIN inbox' : ~IsFlow(inbox'[n])
    BY <2>1, TakenFacts DEF Asking
  <2>3. StationOf(Head(inbox)) \in Owner /\ Head(inbox).session \in Session
    BY <2>2, MessageFacts, ConstantFacts DEF StationOf
  <2>4. link_info' \in Seq(Owner) /\ Len(link_info') = Len(link_info) + 1
    BY <2>1, <2>3 DEF TypeOK
  <2>5. TypeOK'
    BY <2>1, <2>2, <2>3, <2>4 DEF TypeOK, kernel
  <2>6. PlaceInv' /\ QueueInv' /\ CommandInv'
    BY <2>1, <2>2, <2>4 DEF TypeOK, PlaceInv, QueueInv, CommandInv, CommandsInOrder,
       Opening, Asking
  <2> QED
    BY <2>5, <2>6
<1>2. CASE ReadEnd
  <2>1. /\ pc = "read" /\ pc' = "search"
        /\ UNCHANGED <<kernel, socket, session, links, flows, answered>>
    BY <1>2 DEF ReadEnd
  <2>2. TypeOK'
    BY <2>1 DEF TypeOK, kernel, socket, links, flows
  <2>3. PlaceInv' /\ QueueInv' /\ CommandInv'
    BY <2>1 DEF PlaceInv, QueueInv, CommandInv, CommandsInOrder, Opening, Asking, kernel,
       socket, links, flows
  <2> QED
    BY <2>2, <2>3
<1> QED
  BY <1>1, <1>2

LEMMA LinkInfoFits == ASSUME SessionInv PROVE Len(link_info) \in 0 .. TEN
<1>1. Len(link_info) \in Nat /\ station_count \in 0 .. TEN
  BY DEF SessionInv, TypeOK
<1>2. Len(link_info) <= station_count
  BY DEF SessionInv, PlaceInv
<1> QED
  BY <1>1, <1>2, ConstantFacts

\* The tree answers for a link, or there is no further one.
LEMMA SearchStep == ASSUME SessionInv, Found \/ NotFound \/ SessionEnd PROVE SessionInv'
<1> USE DEF SessionInv
<1>1. pc = "search" /\ UNCHANGED <<calm, iwp, socket, session, station_count, link_info,
                                   info, commands, reported, answered>>
  BY DEF Found, NotFound, SessionEnd, kernel, links, flows
<1>2. CASE Found
  <2>1. /\ j <= Len(link_info) /\ hits' = hits + 1 /\ kslot' = 1 /\ i' = 1 /\ j' = j
        /\ pc' = IF skfd = "closed" THEN "receive" ELSE "flows"
    BY <1>2 DEF Found, links
  <2>2. hits < j /\ Len(link_info) <= TEN
    BY <1>1, LinkInfoFits DEF PlaceInv, Asking
  <2>3. TypeOK'
    BY <1>1, <2>1, <2>2, ConstantFacts DEF TypeOK, socket
  <2>4. PlaceInv' /\ QueueInv'
    BY <1>1, <2>1, <2>2 DEF TypeOK, PlaceInv, QueueInv, Opening, Asking, socket
  <2>5. CommandInv'
    <3>1. CASE hits = 0
      <4>1. skfd # "closed" /\ commands = <<>>
        BY <3>1, <1>1 DEF PlaceInv, CommandInv
      <4>2. \A n \in DOMAIN inbox : ~IsFlow(inbox[n])
        BY <1>1 DEF QueueInv, Asking
      <4> QED
        BY <1>1, <2>1, <3>1, <4>1, <4>2
        DEF CommandInv, CommandsInOrder, FlowsInOrder, socket
    <3>2. CASE hits # 0
      BY <1>1, <2>1, <3>2 DEF TypeOK, CommandInv
    <3> QED
      BY <3>1, <3>2
  <2> QED
    BY <2>3, <2>4, <2>5
<1>3. CASE NotFound \/ SessionEnd
  <2>1. /\ pc' \in {"search", "idle"} /\ UNCHANGED <<hits, kslot, i>>
        /\ \/ j' = j
           \/ j <= Len(link_info) /\ j' = j + 1
    BY <1>3 DEF NotFound, SessionEnd, links, flows, kernel
  <2>2. Len(link_info) <= TEN
    BY LinkInfoFits
  <2>3. TypeOK'
    BY <1>1, <2>1, <2>2, ConstantFacts DEF TypeOK, socket
  <2>4. PlaceInv' /\ QueueInv' /\ CommandInv'
    BY <1>1, <2>1 DEF TypeOK, PlaceInv, QueueInv, CommandInv, CommandsInOrder, Opening,
       Asking, socket
  <2> QED
    BY <2>3, <2>4
<1> QED
  BY <1>2, <1>3

\* The kernel's replies to the request "flowss".
LEMMA FlowsStep == ASSUME SessionInv, ReplyFlow \/ ReplyFlowsEnd PROVE SessionInv'
<1> USE DEF SessionInv
<1>1. CASE ReplyFlow
  <2>1. /\ pc = "flows" /\ kslot <= TEN /\ kslot' = kslot + 1
        /\ UNCHANGED <<calm, iwp, skfd, session, pc, links, info, i, hits, commands,
                       answered>>
    BY <1>1 DEF ReplyFlow
  <2>2. kslot \in Slot /\ kslot' \in 1 .. TEN + 1 /\ session \in Session
    BY <2>1, ConstantFacts DEF TypeOK, PlaceInv, Slot, Session
  <2>3. PICK x \in Entry :
          /\ Reply([kind |-> "flow", session |-> session, slot |-> kslot, entry |-> x])
          /\ reported' = [reported EXCEPT ![kslot] = x]
    BY <1>1 DEF ReplyFlow, FlowAt
  <2> DEFINE m == [kind |-> "flow", session |-> session, slot |-> kslot, entry |-> x]
  <2>4. m \in Message /\ IsFlow(m) /\ m.slot = kslot
    BY <2>2, MessageForms DEF IsFlow
  <2> HIDE DEF m
  <2>5. /\ inbox' \in Seq(Message)
        /\ \/ skfd # "bound" /\ inbox' = inbox
           \/ /\ Len(inbox') = Len(inbox) + 1
              /\ DOMAIN inbox' = DOMAIN inbox \cup {Len(inbox) + 1}
              /\ \A n \in DOMAIN inbox : inbox'[n] = inbox[n]
              /\ inbox'[Len(inbox) + 1] = m
    BY <2>3, <2>4, ReplyFacts DEF TypeOK, m
  <2>6. skfd # "bound" => inbox' = inbox
    BY <2>3 DEF Reply
  <2>7. TypeOK'
    BY <2>1, <2>2, <2>3, <2>5 DEF TypeOK, links
  <2>8. PlaceInv' /\ QueueInv'
    BY <2>1, <2>6 DEF PlaceInv, QueueInv, Opening, Asking, links
  <2>9. CommandInv'
    <3>1. CASE hits # 1
      BY <2>1, <3>1 DEF CommandInv, CommandsInOrder
    <3>2. CASE hits = 1
      <4>1. /\ commands = <<>> /\ skfd # "closed" /\ FlowsInOrder
            /\ \A n \in DOMAIN inbox : IsFlow(inbox[n]) => inbox[n].slot < kslot
        BY <2>1, <3>2 DEF CommandInv, Asking
      <4>2. \A n \in DOMAIN inbox : IsFlow(inbox[n]) => inbox[n].slot \in Nat
        <5>1. \A n \in DOMAIN inbox : inbox[n] \in Message
          BY DEF TypeOK
        <5> QED
          BY <5>1, MessageFacts, ConstantFacts DEF IsFlow
      <4>3. \A n \in DOMAIN inbox' : IsFlow(inbox'[n]) => inbox'[n].slot < kslot'
        <5> SUFFICES ASSUME NEW n \in DOMAIN inbox', IsFlow(inbox'[n])
                     PROVE  inbox'[n].slot < kslot'
          OBVIOUS
        <5>1. CASE n \in DOMAIN inbox
          BY <5>1, <4>1, <4>2, <2>1, <2>2, <2>5, ConstantFacts
        <5>2. CASE n \notin DOMAIN inbox
          BY <5>2, <2>1, <2>2, <2>4, <2>5, ConstantFacts
        <5> QED
          BY <5>1, <5>2
      <4>4. FlowsInOrder'
        <5> SUFFICES ASSUME NEW a \in DOMAIN inbox', NEW b \in DOMAIN inbox', a < b,
                            IsFlow(inbox'[a]), IsFlow(inbox'[b])
                     PROVE  inbox'[a].slot < inbox'[b].slot
          BY <2>1, <4>1 DEF FlowsInOrder
        <5>1. DOMAIN inbox = 1 .. Len(inbox) /\ Len(inbox) \in Nat
          BY DEF TypeOK
        <5>2. a \in DOMAIN inbox
          BY <2>5, <5>1
        <5>3. CASE b \in DOMAIN inbox
          BY <5>2, <5>3, <4>1, <2>5 DEF FlowsInOrder
        <5>4. CASE b \notin DOMAIN inbox
          BY <5>2, <5>4, <4>1, <2>4, <2>5
        <5> QED
          BY <5>3, <5>4
      <4> QED
        BY <2>1, <3>2, <4>1, <4>3, <4>4 DEF CommandInv, CommandsInOrder
    <3> QED
      BY <3>1, <3>2
  <2> QED
    BY <2>7, <2>8, <2>9
<1>2. CASE ReplyFlowsEnd
  <2>1. /\ pc = "flows" /\ pc' = "receive" /\ i' = 1
        /\ UNCHANGED <<kernel, socket, session, links, info, hits, commands, reported,
                       answered>>
    BY <1>2 DEF ReplyFlowsEnd
  <2>2. TypeOK'
    BY <2>1, ConstantFacts DEF TypeOK, kernel, socket, links
  <2>3. PlaceInv' /\ QueueInv' /\ CommandInv'
    BY <2>1 DEF PlaceInv, QueueInv, CommandInv, CommandsInOrder, FlowsInOrder, Opening,
       Asking, kernel, socket, links
  <2> QED
    BY <2>2, <2>3
<1> QED
  BY <1>1, <1>2

\* A command is sent for the flow in m, or none.
LEMMA ThrottleFacts ==
  ASSUME commands \in Seq(Command), link_info \in Seq(Owner), NEW m, Throttle(m),
         m \in Message \cup {NoMessage}
  PROVE  /\ commands' \in Seq(Command)
         /\ \/ commands' = commands
            \/ /\ IsFlow(m) /\ m \in Message
               /\ commands' = Append(commands, [slot |-> m.slot, entry |-> m.entry])
<1>1. CASE Matches(m)
  <2>1. IsFlow(m)
    BY <1>1 DEF Matches, IsFlow
  <2>2. m \in Message
    BY <2>1 DEF IsFlow, NoMessage
  <2>3. m.slot \in Slot /\ m.entry \in Entry
    BY <2>1, <2>2, MessageFacts DEF IsFlow
  <2>4. [slot |-> m.slot, entry |-> m.entry] \in Command
    BY <2>3 DEF Command
  <2> QED
    BY <1>1, <2>1, <2>2, <2>4 DEF Throttle
<1>2. CASE ~Matches(m)
  BY <1>2 DEF Throttle
<1> QED
  BY <1>1, <1>2

LEMMA ReceiveStep == ASSUME SessionInv, ReceiveFlow \/ ReceiveEnd PROVE SessionInv'
<1> USE DEF SessionInv
<1>1. CASE ReceiveFlow
  <2>1. /\ pc = "receive" /\ i <= TEN /\ i' = i + 1
        /\ UNCHANGED <<kernel, skfd, session, pc, links, hits, reported>>
    BY <1>1 DEF ReceiveFlow
  <2>2. CASE skfd = "closed"
    <3>1. Throttle(info) /\ UNCHANGED <<inbox, info, answered>>
      BY <1>1, <2>2 DEF ReceiveFlow
    <3>2. commands' \in Seq(Command)
      BY <3>1, ThrottleFacts DEF TypeOK
    <3>3. hits > 1 /\ hits \in Nat
      <4>1. 0 < hits /\ (hits = 1 => skfd # "closed") /\ hits \in Nat
        BY <2>1 DEF TypeOK, PlaceInv, CommandInv, Asking
      <4> QED
        BY <2>2, <4>1
    <3>4. TypeOK'
      BY <2>1, <3>1, <3>2, ConstantFacts DEF TypeOK, kernel, links
    <3>5. PlaceInv' /\ QueueInv' /\ CommandInv'
      BY <2>1, <3>1, <3>3 DEF PlaceInv, QueueInv, CommandInv, Opening, Asking, kernel, links
    <3> QED
      BY <3>4, <3>5
  <2>3. CASE skfd # "closed"
    <3>1. /\ inbox # <<>> /\ inbox' = Tail(inbox) /\ info' = Head(inbox)
          /\ answered' = answered \cup {Head(inbox).session}
          /\ Throttle(Head(inbox))
      BY <1>1, <2>3 DEF ReceiveFlow
    <3>2. /\ Head(inbox) \in Message /\ Head(inbox) = inbox[1] /\ 1 \in DOMAIN inbox
          /\ inbox' \in Seq(Message)
          /\ \A n \in DOMAIN inbox' :
               n \in Nat /\ n + 1 \in DOMAIN inbox /\ inbox'[n] = inbox[n + 1]
      BY <3>1, HeadFacts DEF TypeOK
    <3>3. /\ commands' \in Seq(Command)
          /\ \/ commands' = commands
             \/ /\ IsFlow(inbox[1])
                /\ commands' = Append(commands, [slot |-> inbox[1].slot,
                                                 entry |-> inbox[1].entry])
      BY <3>1, <3>2, ThrottleFacts DEF TypeOK
    <3>4. Head(inbox).session \in Session
      BY <3>2, MessageFacts
    <3>5. TypeOK'
      BY <2>1, <3>1, <3>2, <3>3, <3>4, ConstantFacts DEF TypeOK, kernel, links
    <3>6. PlaceInv' /\ QueueInv'
      <4>1. skfd = "bound"
        BY <3>1 DEF QueueInv
      <4> QED
        BY <2>1, <4>1 DEF PlaceInv, QueueInv, Opening, Asking, links
    <3>7. CommandInv'
      <4>1. hits \in Nat /\ 0 < hits /\ hits' = hits
        BY <2>1 DEF TypeOK, PlaceInv, Asking
      <4>2. CASE hits > 1
        BY <2>1, <4>1, <4>2 DEF CommandInv
      <4>3. CASE hits = 1
        <5>1. CommandsInOrder /\ FlowsInOrder
          BY <2>1, <4>3 DEF CommandInv, Asking
        <5>2. DOMAIN commands = 1 .. Len(commands) /\ Len(commands) \in Nat
          BY DEF TypeOK
        <5>3. \A m, n \in DOMAIN inbox' :
                m < n /\ IsFlow(inbox'[m]) /\ IsFlow(inbox'[n])
                  => inbox'[m].slot < inbox'[n].slot
          <6> SUFFICES ASSUME NEW m \in DOMAIN inbox', NEW n \in DOMAIN inbox', m < n,
                              IsFlow(inbox'[m]), IsFlow(inbox'[n])
                       PROVE  inbox'[m].slot < inbox'[n].slot
            OBVIOUS
          <6>1. /\ m + 1 \in DOMAIN inbox /\ inbox'[m] = inbox[m + 1]
                /\ n + 1 \in DOMAIN inbox /\ inbox'[n] = inbox[n + 1]
                /\ m + 1 < n + 1
            BY <3>2
          <6> QED
            BY <5>1, <6>1 DEF FlowsInOrder
        <5>4. \A m \in DOMAIN commands, n \in DOMAIN inbox' :
                IsFlow(inbox'[n]) => commands[m].slot < inbox'[n].slot
          BY <3>2, <5>1 DEF FlowsInOrder
        <5>5. CASE commands' = commands
          <6>1. FlowsInOrder'
            BY <3>2, <5>1, <5>3, <5>4, <5>5 DEF FlowsInOrder
          <6> QED
            BY <2>1, <2>3, <4>1, <4>3, <5>1, <5>5, <6>1
            DEF CommandInv, CommandsInOrder, Asking
        <5>6. CASE /\ IsFlow(inbox[1])
                   /\ commands' = Append(commands, [slot |-> inbox[1].slot,
                                                    entry |-> inbox[1].entry])
          <6>1. /\ DOMAIN commands' = 1 .. Len(commands) + 1
                /\ \A n \in DOMAIN commands : commands'[n] = commands[n]
                /\ commands'[Len(commands) + 1].slot = inbox[1].slot
            BY <5>6 DEF TypeOK
          <6>2. CommandsInOrder'
            <7> SUFFICES ASSUME NEW m \in DOMAIN commands', NEW n \in DOMAIN commands', m < n
                         PROVE  commands'[m].slot < commands'[n].slot
              BY DEF CommandsInOrder
            <7>1. m \in DOMAIN commands
              BY <5>2, <6>1
            <7>2. CASE n \in DOMAIN commands
              BY <5>1, <6>1, <7>1, <7>2 DEF CommandsInOrder
            <7>3. CASE n = Len(commands) + 1
              BY <3>2, <5>1, <5>6, <6>1, <7>1, <7>3 DEF FlowsInOrder
            <7> QED
              BY <5>2, <6>1, <7>2, <7>3
          <6>3. FlowsInOrder'
            <7>2. ASSUME NEW m \in DOMAIN commands', NEW n \in DOMAIN inbox',
                         IsFlow(inbox'[n])
                  PROVE  commands'[m].slot < inbox'[n].slot
              <8>1. n + 1 \in DOMAIN inbox /\ 1 < n + 1 /\ inbox'[n] = inbox[n + 1]
                <9>1. n \in DOMAIN inbox'
                  OBVIOUS
                <9>2. n > 0
                  BY <3>2, <9>1
                <9> QED
                  BY <3>2, <9>1, <9>2
              <8>2. CASE m \in DOMAIN commands
                BY <5>1, <6>1, <7>2, <8>1, <8>2 DEF FlowsInOrder
              <8>3. CASE m = Len(commands) + 1
                BY <3>2, <5>1, <5>6, <6>1, <7>2, <8>1, <8>3 DEF FlowsInOrder
              <8> QED
                BY <5>2, <6>1, <8>2, <8>3
            <7> QED
              BY <5>3, <7>2 DEF FlowsInOrder
          <6> QED
            BY <2>1, <2>3, <4>1, <4>3, <6>2, <6>3 DEF CommandInv, Asking
        <5> QED
          BY <3>3, <5>5, <5>6
      <4> QED
        BY <4>1, <4>2, <4>3
    <3> QED
      BY <3>5, <3>6, <3>7
  <2> QED
    BY <2>2, <2>3
<1>2. CASE ReceiveEnd
  <2>1. /\ pc = "receive" /\ pc' = "search" /\ j' = j + 1 /\ skfd' = "closed"
        /\ inbox' = <<>>
        /\ reported' = [s \in Slot |-> NoEntry]
        /\ UNCHANGED <<kernel, session, station_count, link_info, info, i, hits, commands,
                       answered>>
    BY <1>2 DEF ReceiveEnd, Closed
  <2>2. j \in 1 .. TEN /\ hits \in 0 .. TEN /\ 0 < hits /\ hits <= j
    <3>1. j <= Len(link_info) /\ 0 < hits /\ hits <= j
      BY <2>1 DEF PlaceInv, Asking
    <3>2. j \in 1 .. TEN + 1 /\ hits \in 0 .. TEN
      BY DEF TypeOK
    <3> QED
      BY <3>1, <3>2, LinkInfoFits, ConstantFacts
  <2>3. TypeOK'
    BY <2>1, <2>2, ConstantFacts DEF TypeOK, kernel
  <2>4. PlaceInv' /\ QueueInv' /\ CommandInv'
    BY <2>1, <2>2 DEF TypeOK, PlaceInv, QueueInv, CommandInv, CommandsInOrder, Opening,
       Asking
  <2> QED
    BY <2>3, <2>4
<1> QED
  BY <1>1, <1>2

LEMMA SessionStep == SessionInv /\ [Next]_vars => SessionInv'
<1>1. SessionInv /\ UNCHANGED vars => SessionInv'
  BY DEF vars, kernel, socket, links, flows, SessionInv, TypeOK, PlaceInv, QueueInv,
         CommandInv, CommandsInOrder, FlowsInOrder
<1> QED
  BY <1>1, BeginStep, TimerStep, StatesStep, AwaitStep, ReadStep, SearchStep, FlowsStep,
     ReceiveStep DEF Next, Program

LEMMA SessionInvariant == Spec => []SessionInv
  BY SessionInit, SessionStep, PTL DEF Spec

\* In every environment, whatever is in the socket when a session begins and whatever
\* main_linger takes for a link or a flow, every variable keeps its type: no more links
\* are read than announced, and no more flows are asked for than there are links.
THEOREM TypeCorrect == Spec => []TypeOK
<1>1. SessionInv => TypeOK
  BY DEF SessionInv
<1> QED
  BY SessionInvariant, <1>1, PTL

\* The queue and the commands change while flows are asked for in two steps only.
LEMMA EntryStep == SessionInv /\ EntryInv /\ [Next]_vars => EntryInv'
<1> USE DEF Asking
<1> SUFFICES ASSUME SessionInv, EntryInv, [Next]_vars, hits' = 1, pc' \in Asking
             PROVE  /\ \A n \in DOMAIN inbox' :
                         IsFlow(inbox'[n]) => inbox'[n].entry = reported'[inbox'[n].slot]
                    /\ \A n \in DOMAIN commands' :
                         commands'[n].entry = reported'[commands'[n].slot]
  BY DEF EntryInv
<1>1. CASE Found
  <2>1. pc = "search" /\ hits = 0
        /\ UNCHANGED <<inbox, commands>>
    BY <1>1 DEF Found, socket, SessionInv, TypeOK
  <2>2. commands = <<>> /\ \A n \in DOMAIN inbox : ~IsFlow(inbox[n])
    BY <2>1 DEF SessionInv, CommandInv, QueueInv
  <2> QED
    BY <2>1, <2>2
<1>2. CASE ReplyFlow
  <2>1. /\ pc = "flows" /\ hits = 1 /\ kslot <= TEN /\ UNCHANGED <<skfd, commands>>
    BY <1>2 DEF ReplyFlow
  <2>2. kslot \in Slot /\ session \in Session /\ reported \in [Slot -> Entry]
        /\ inbox \in Seq(Message)
    BY <2>1, ConstantFacts DEF SessionInv, TypeOK, PlaceInv, Slot, Session
  <2>3. PICK x \in Entry :
          /\ Reply([kind |-> "flow", session |-> session, slot |-> kslot, entry |-> x])
          /\ reported' = [reported EXCEPT ![kslot] = x]
    BY <1>2 DEF ReplyFlow, FlowAt
  <2> DEFINE m == [kind |-> "flow", session |-> session, slot |-> kslot, entry |-> x]
  <2>4. m \in Message /\ m.slot = kslot /\ m.entry = x
    BY <2>2, MessageForms
  <2> HIDE DEF m
  <2>5. \/ skfd # "bound" /\ inbox' = inbox
        \/ /\ DOMAIN inbox' = DOMAIN inbox \cup {Len(inbox) + 1}
           /\ \A n \in DOMAIN inbox : inbox'[n] = inbox[n]
           /\ inbox'[Len(inbox) + 1] = m
    BY <2>2, <2>3, <2>4, ReplyFacts DEF m
  <2>6. /\ commands = <<>>
        /\ \A n \in DOMAIN inbox : IsFlow(inbox[n]) => inbox[n].slot < kslot
    BY <2>1 DEF SessionInv, CommandInv
  <2>7. \A n \in DOMAIN inbox :
          IsFlow(inbox[n]) => inbox[n].slot \in Slot /\ inbox[n].slot # kslot
    <3>1. \A n \in DOMAIN inbox : inbox[n] \in Message
      BY <2>2
    <3> QED
      BY <2>2, <2>6, <3>1, MessageFacts, ConstantFacts DEF IsFlow
  <2>8. \A n \in DOMAIN inbox :
          IsFlow(inbox[n]) => inbox[n].entry = reported'[inbox[n].slot]
    BY <2>1, <2>2, <2>3, <2>7 DEF EntryInv
  <2>9. reported'[kslot] = x
    BY <2>2, <2>3
  <2> QED
    BY <2>1, <2>4, <2>5, <2>6, <2>8, <2>9
<1>3. CASE ReceiveFlow
  <2>1. pc = "receive" /\ hits = 1 /\ UNCHANGED reported
    BY <1>3 DEF ReceiveFlow
  <2>2. skfd # "closed"
    BY <2>1 DEF SessionInv, CommandInv
  <2>3. inbox # <<>> /\ inbox' = Tail(inbox) /\ Throttle(Head(inbox))
    BY <1>3, <2>2 DEF ReceiveFlow
  <2>4. /\ Head(inbox) \in Message /\ Head(inbox) = inbox[1] /\ 1 \in DOMAIN inbox
        /\ \A n \in DOMAIN inbox' : n + 1 \in DOMAIN inbox /\ inbox'[n] = inbox[n + 1]
    BY <2>3, HeadFacts DEF SessionInv, TypeOK
  <2>5. \/ commands' = commands
        \/ /\ IsFlow(inbox[1])
           /\ commands' = Append(commands, [slot |-> inbox[1].slot,
                                            entry |-> inbox[1].entry])
    BY <2>3, <2>4, ThrottleFacts DEF SessionInv, TypeOK
  <2>6. \A n \in DOMAIN inbox' :
          IsFlow(inbox'[n]) => inbox'[n].entry = reported'[inbox'[n].slot]
    BY <2>1, <2>4 DEF EntryInv
  <2>7. ASSUME NEW n \in DOMAIN commands'
        PROVE  commands'[n].entry = reported'[commands'[n].slot]
    <3>1. \A k \in DOMAIN commands : commands[k].entry = reported[commands[k].slot]
      BY <2>1 DEF EntryInv
    <3>2. CASE commands' = commands
      BY <2>1, <3>1, <3>2
    <3>3. CASE /\ IsFlow(inbox[1])
               /\ commands' = Append(commands, [slot |-> inbox[1].slot,
                                                entry |-> inbox[1].entry])
      <4>1. /\ DOMAIN commands = 1 .. Len(commands) /\ Len(commands) \in Nat
            /\ DOMAIN commands' = 1 .. Len(commands) + 1
            /\ \A k \in DOMAIN commands : commands'[k] = commands[k]
            /\ commands'[Len(commands) + 1] = [slot |-> inbox[1].slot,
                                               entry |-> inbox[1].entry]
        BY <3>3 DEF SessionInv, TypeOK
      <4>2. inbox[1].entry = reported[inbox[1].slot]
        BY <2>1, <2>4, <3>3 DEF EntryInv
      <4>3. n \in DOMAIN commands \/ n = Len(commands) + 1
        BY <4>1
      <4> QED
        BY <2>1, <3>1, <4>1, <4>2, <4>3
    <3> QED
      BY <2>5, <3>2, <3>3
  <2> QED
    BY <2>6, <2>7
<1>4. CASE Timer \/ ReplyFlowsEnd \/ UNCHANGED vars
  <2>1. pc \in Asking /\ UNCHANGED <<hits, inbox, commands, reported>>
    BY <1>4 DEF Timer, ReplyFlowsEnd, vars, socket, flows
  <2> QED
    BY <2>1 DEF EntryInv
<1>5. CASE \/ Begin \/ OpenFails \/ ReplyNone \/ ReplyStates \/ ReplyLink
           \/ ReplyLinksEnd \/ Await \/ ReadLink \/ ReadEnd \/ NotFound \/ SessionEnd
           \/ ReceiveEnd
  <2>1. pc' \notin Asking
    BY <1>5 DEF Begin, OpenFails, ReplyNone, ReplyStates, ReplyLink, ReplyLinksEnd, Await,
       ReadLink, ReadEnd, NotFound, SessionEnd, ReceiveEnd
  <2> QED
    BY <2>1
<1> QED
  BY <1>1, <1>2, <1>3, <1>4, <1>5 DEF Next, Program

LEMMA EntryInvariant == Spec => []EntryInv
<1>1. Init => EntryInv
  BY DEF Init, EntryInv, Asking
<1> QED
  BY <1>1, SessionInvariant, EntryStep, PTL DEF Spec

-----------------------------------------------------------------------------
(* CalmInv is inductive.                                                   *)

LEMMA CalmInit == Init => CalmInv
<1> SUFFICES ASSUME Init PROVE CalmInv
  OBVIOUS
<1>1. Active(iwp) = {}
  BY DEF Init, Active
<1>2. Below(iwp, TEN + 1) = 0
  BY <1>1, BelowFacts, FS_EmptySet
<1> QED
  BY <1>2, ConstantFacts DEF Init, CalmInv, FreshInv, StepInv, Opening, Asking

LEMMA CalmBegin ==
  ASSUME SessionInv, CalmInv, Begin \/ OpenFails PROVE CalmInv'
<1> SUFFICES ASSUME calm PROVE (Below(iwp, TEN + 1) < TEN /\ FreshInv /\ StepInv)'
  BY DEF CalmInv, Begin, OpenFails, kernel
<1>1. Begin /\ pc = "idle" /\ pc' = "states" /\ Fresh /\ UNCHANGED <<kernel, inbox>>
  BY DEF Begin, OpenFails
<1>2. inbox = <<>> /\ skfd # "unbound" /\ Below(iwp, TEN + 1) < TEN
  BY <1>1 DEF CalmInv, StepInv, FreshInv
<1>3. skfd' = "bound"
  BY <1>1, <1>2 DEF Begin, SessionInv, TypeOK
<1> QED
  BY <1>1, <1>2, <1>3 DEF FreshInv, StepInv, Fresh, Opening, Asking, kernel

LEMMA CalmTimer == ASSUME SessionInv, CalmInv, Timer PROVE CalmInv'
<1> SUFFICES ASSUME calm PROVE (Below(iwp, TEN + 1) < TEN /\ FreshInv /\ StepInv)'
  BY DEF CalmInv, Timer
<1>1. /\ pc = "idle" \/ iwp' = iwp
      /\ Cardinality(Active(iwp')) < TEN
      /\ UNCHANGED <<calm, kslot, socket, session, pc, links, flows, answered>>
  BY DEF Timer
<1>2. Below(iwp', TEN + 1) < TEN
  BY <1>1, BelowFacts
<1>3. FreshInv' /\ StepInv'
  <2>1. CASE pc = "idle"
    BY <1>1, <2>1 DEF CalmInv, FreshInv, StepInv, Opening, Asking, socket, links, flows
  <2>2. CASE iwp' = iwp
    BY <1>1, <2>2 DEF CalmInv, FreshInv, StepInv, Opening, Asking, RepliedUpTo, LinksRead,
       LinksKnown, StatesMessage, LinkMessage, socket, links, flows
  <2> QED
    BY <1>1, <2>1, <2>2
<1> QED
  BY <1>2, <1>3

\* A reply of this session is queued behind the others.
LEMMA CalmReply ==
  ASSUME SessionInv, CalmInv, calm, NEW m \in Message, Reply(m), m.session = session,
         pc \in Opening \cup Asking, UNCHANGED <<skfd, session, hits, answered>>,
         pc' \in Opening \cup Asking
  PROVE  /\ FreshInv'
         /\ Len(inbox) \in Nat /\ Len(inbox') = Len(inbox) + 1
         /\ \A n \in 1 .. Len(inbox) : inbox'[n] = inbox[n]
         /\ inbox'[Len(inbox) + 1] = m
<1>1. FreshInv /\ skfd = "bound" /\ inbox \in Seq(Message)
  BY DEF CalmInv, FreshInv, SessionInv, TypeOK
<1>2. /\ Len(inbox') = Len(inbox) + 1
      /\ DOMAIN inbox' = DOMAIN inbox \cup {Len(inbox) + 1}
      /\ \A n \in DOMAIN inbox : inbox'[n] = inbox[n]
      /\ inbox'[Len(inbox) + 1] = m
  BY <1>1, ReplyFacts
<1>3. FreshInv'
  BY <1>1, <1>2 DEF FreshInv
<1> QED
  BY <1>1, <1>2, <1>3

\* recv_cb counts the links and sends them: what is queued is the table so far.
LEMMA CalmStates ==
  ASSUME SessionInv, CalmInv, ReplyNone \/ ReplyStates \/ ReplyLink \/ ReplyLinksEnd
  PROVE  CalmInv'
<1> USE DEF Opening, Asking
<1> SUFFICES ASSUME calm PROVE (Below(iwp, TEN + 1) < TEN /\ FreshInv /\ StepInv)'
  BY DEF CalmInv, ReplyNone, ReplyStates, ReplyLink, ReplyLinksEnd, kernel
<1>1. /\ pc \in {"states", "links"} /\ pc' \in {"links", "await"}
      /\ UNCHANGED <<iwp, skfd, session, links, flows, answered>>
  BY DEF ReplyNone, ReplyStates, ReplyLink, ReplyLinksEnd, kernel, socket
<1>2. session \in Session
  BY <1>1, ConstantFacts DEF SessionInv, TypeOK, PlaceInv, Session
<1>3. Below(iwp, TEN + 1) < TEN /\ FreshInv /\ StepInv
  BY DEF CalmInv
<1>4. UNCHANGED hits
  BY <1>1 DEF flows
<1>5. CASE ReplyNone
  <2>1. /\ Reply([kind |-> "nonedata", session |-> session]) /\ pc = "states"
        /\ pc' = "await" /\ inbox = <<>>
    BY <1>3, <1>5 DEF ReplyNone, StepInv
  <2>2. FreshInv' /\ Len(inbox') = 1 /\ inbox'[1].kind = "nonedata"
    BY <1>1, <1>2, <1>4, <2>1, CalmReply, MessageForms
  <2> QED
    BY <1>1, <1>3, <2>1, <2>2 DEF StepInv
<1>6. CASE ReplyStates
  <2>1. Count = Below(iwp, TEN + 1) /\ Count \in 0 .. TEN
    BY ActiveFacts, BelowFacts DEF Count
  <2>2. /\ Reply(StatesMessage) /\ pc = "states" /\ pc' = "links" /\ kslot' = 1
        /\ inbox = <<>>
    BY <1>3, <1>6, <2>1 DEF ReplyStates, StatesMessage, StepInv
  <2>3. StatesMessage \in Message /\ StatesMessage.session = session
    BY <1>2, <2>1, MessageForms DEF StatesMessage
  <2>4. FreshInv' /\ Len(inbox') = 1 /\ inbox'[1] = StatesMessage
    BY <1>1, <1>4, <2>2, <2>3, CalmReply
  <2>5. RepliedUpTo(1)'
    <3>1. \A s \in Active(iwp) : ~(s < 1)
      BY ActiveFacts DEF Slot
    <3> QED
      BY <1>1, <2>4, <3>1, BelowFacts DEF RepliedUpTo, StatesMessage
  <2> QED
    BY <1>1, <1>3, <2>2, <2>4, <2>5 DEF StepInv
<1>7. CASE ReplyLink
  <2>1. /\ pc = "links" /\ pc' = "links" /\ kslot' = kslot + 1 /\ kslot \in Slot
        /\ kslot \in Nat
    BY <1>7, ConstantFacts DEF ReplyLink, SessionInv, TypeOK, Slot
  <2>2. RepliedUpTo(kslot) /\ Len(inbox) \in Nat
    BY <1>3, <2>1 DEF StepInv, SessionInv, TypeOK
  <2>3. CASE kslot \notin Active(iwp)
    <3>1. UNCHANGED inbox
      BY <1>7, <2>1, <2>3 DEF ReplyLink, Active
    <3>2. FreshInv'
      BY <1>1, <1>3, <1>4, <2>1, <3>1 DEF FreshInv
    <3>3. RepliedUpTo(kslot)'
      <4>1. Below(iwp, kslot + 1) = Below(iwp, kslot)
        BY <2>1, <2>3, BelowFacts
      <4>2. \A s \in Active(iwp) : s < kslot + 1 => s < kslot
        BY <2>1, <2>3, ActiveSlots
      <4> QED
        BY <1>1, <2>1, <2>2, <3>1, <4>1, <4>2 DEF RepliedUpTo, StatesMessage, LinkMessage
    <3> QED
      BY <1>1, <1>3, <2>1, <3>2, <3>3 DEF StepInv
  <2>4. CASE kslot \in Active(iwp)
    <3>1. Reply(LinkMessage(kslot))
      BY <1>7, <2>4 DEF ReplyLink, Active, LinkMessage
    <3>2. LinkMessage(kslot) \in Message /\ LinkMessage(kslot).session = session
      <4>1. iwp[kslot] \in Station
        BY <2>1, <2>4 DEF Active, SessionInv, TypeOK, Owner
      <4> QED
        BY <1>2, <4>1, MessageForms DEF LinkMessage
    <3>3. /\ FreshInv' /\ Len(inbox') = Len(inbox) + 1
          /\ \A n \in 1 .. Len(inbox) : inbox'[n] = inbox[n]
          /\ inbox'[Len(inbox) + 1] = LinkMessage(kslot)
      BY <1>1, <1>4, <2>1, <3>1, <3>2, CalmReply
    <3>4. RepliedUpTo(kslot)'
      <4>1. /\ Below(iwp, kslot + 1) = Below(iwp, kslot) + 1
            /\ Below(iwp, kslot) \in Nat /\ Len(inbox) = Below(iwp, kslot) + 1
        BY <2>1, <2>2, <2>4, BelowFacts DEF RepliedUpTo
      <4>2. \A s \in Active(iwp) : s < kslot + 1 => s < kslot \/ s = kslot
        BY <2>1, ActiveSlots
      <4>3. \A s \in Active(iwp) : /\ Below(iwp, s) \in Nat
                                   /\ s < kslot => Below(iwp, s) < Below(iwp, kslot)
        BY <2>1, ActiveSlots, BelowFacts
      <4>4. ASSUME NEW s \in Active(iwp), s < kslot + 1
            PROVE  inbox'[Below(iwp, s) + 2] = LinkMessage(s)
        <5>1. CASE s < kslot
          <6>1. Below(iwp, s) + 2 \in 1 .. Len(inbox)
            BY <4>1, <4>3, <5>1
          <6> QED
            BY <2>2, <3>3, <5>1, <6>1 DEF RepliedUpTo
        <5>2. CASE s = kslot
          BY <3>3, <4>1, <5>2
        <5> QED
          BY <4>2, <4>4, <5>1, <5>2
      <4>5. inbox'[1] = StatesMessage
        BY <2>2, <3>3, <4>1 DEF RepliedUpTo
      <4> QED
        BY <1>1, <2>1, <3>3, <4>1, <4>4, <4>5 DEF RepliedUpTo, StatesMessage, LinkMessage
    <3> QED
      BY <1>1, <1>3, <2>1, <3>3, <3>4 DEF StepInv
  <2> QED
    BY <2>3, <2>4
<1>8. CASE ReplyLinksEnd
  <2>1. pc = "links" /\ pc' = "await" /\ UNCHANGED <<kslot, inbox>> /\ kslot = TEN + 1
    BY <1>8, ConstantFacts DEF ReplyLinksEnd, kernel, socket, SessionInv, TypeOK
  <2>2. RepliedUpTo(TEN + 1)'
    BY <1>1, <1>3, <2>1 DEF StepInv, RepliedUpTo, StatesMessage, LinkMessage
  <2>3. FreshInv'
    BY <1>1, <1>3, <1>4, <2>1 DEF FreshInv
  <2> QED
    BY <1>1, <1>3, <2>1, <2>2, <2>3 DEF StepInv
<1> QED
  BY <1>5, <1>6, <1>7, <1>8

\* The queue without its head.
LEMMA CalmTaken ==
  ASSUME SessionInv, FreshInv, inbox # <<>>, inbox' = Tail(inbox)
  PROVE  /\ Head(inbox) = inbox[1] /\ inbox[1] \in Message /\ inbox[1].session = session
         /\ Len(inbox) \in Nat /\ Len(inbox) > 0 /\ Len(inbox') = Len(inbox) - 1
         /\ \A n \in 1 .. Len(inbox) - 1 : inbox'[n] = inbox[n + 1]
         /\ \A n \in DOMAIN inbox' : inbox'[n].session = session
<1>1. inbox \in Seq(Message)
  BY DEF SessionInv, TypeOK
<1>2. /\ Head(inbox) \in Message /\ Head(inbox) = inbox[1]
      /\ 1 \in DOMAIN inbox /\ Len(inbox) > 0 /\ Len(inbox) \in Nat
      /\ inbox' \in Seq(Message) /\ Len(inbox') = Len(inbox) - 1
      /\ \A n \in DOMAIN inbox' : n + 1 \in DOMAIN inbox /\ inbox'[n] = inbox[n + 1]
  BY <1>1, HeadFacts
<1> QED
  BY <1>2 DEF FreshInv

LEMMA CalmAwait == ASSUME SessionInv, CalmInv, Await PROVE CalmInv'
<1> USE DEF Opening, Asking
<1> SUFFICES ASSUME calm PROVE (Below(iwp, TEN + 1) < TEN /\ FreshInv /\ StepInv)'
  BY DEF CalmInv, Await, kernel
<1>1. /\ pc = "await" /\ inbox # <<>> /\ inbox' = Tail(inbox)
      /\ answered' = answered \cup {Head(inbox).session}
      /\ station_count' = AnnouncedBy(Head(inbox)) /\ link_info' = <<>>
      /\ pc' = IF Head(inbox).kind = "nonedata" THEN "idle" ELSE "read"
      /\ UNCHANGED <<iwp, skfd, session, hits>>
  BY DEF Await, kernel
<1>2. Below(iwp, TEN + 1) < TEN /\ FreshInv /\ StepInv
  BY DEF CalmInv
<1>3. /\ Head(inbox) = inbox[1] /\ inbox[1].session = session
      /\ Len(inbox) \in Nat /\ Len(inbox') = Len(inbox) - 1
      /\ \A n \in 1 .. Len(inbox) - 1 : inbox'[n] = inbox[n + 1]
      /\ \A n \in DOMAIN inbox' : inbox'[n].session = session
  BY <1>1, <1>2, CalmTaken
<1>4. FreshInv'
  BY <1>1, <1>2, <1>3 DEF FreshInv
<1>5. CASE inbox[1].kind = "nonedata"
  <2>1. Len(inbox) = 1
    BY <1>1, <1>2, <1>5 DEF StepInv, RepliedUpTo, StatesMessage
  <2>2. inbox' = <<>>
    BY <1>1, <1>3, <2>1 DEF SessionInv, TypeOK
  <2> QED
    BY <1>1, <1>2, <1>3, <1>4, <1>5, <2>2 DEF StepInv
<1>6. CASE inbox[1].kind # "nonedata"
  <2>1. RepliedUpTo(TEN + 1)
    BY <1>1, <1>2, <1>6 DEF StepInv
  <2>2. station_count' = Below(iwp, TEN + 1) /\ pc' = "read"
    BY <1>1, <1>3, <1>6, <2>1 DEF RepliedUpTo, StatesMessage, AnnouncedBy
  <2>3. /\ Below(iwp, TEN + 1) \in Nat
        /\ \A s \in Active(iwp) : /\ s < TEN + 1
                                  /\ Below(iwp, s) \in Nat
                                  /\ Below(iwp, s) < Below(iwp, TEN + 1)
    BY ActiveSlots, BelowFacts, ConstantFacts
  <2>4. /\ Len(inbox) = Below(iwp, TEN + 1) + 1
        /\ \A s \in Active(iwp) : inbox[Below(iwp, s) + 2] = LinkMessage(s)
    BY <2>1, <2>3 DEF RepliedUpTo
  <2>5. ASSUME NEW s \in Active(iwp)
        PROVE  inbox'[Below(iwp, s) + 1] = LinkMessage(s)
    <3>1. Below(iwp, s) + 1 \in 1 .. Len(inbox) - 1
      BY <2>3, <2>4
    <3>2. inbox'[Below(iwp, s) + 1] = inbox[(Below(iwp, s) + 1) + 1]
      BY <1>3, <3>1
    <3>3. (Below(iwp, s) + 1) + 1 = Below(iwp, s) + 2
      BY <2>3
    <3> QED
      BY <2>4, <3>2, <3>3
  <2>6. LinksRead'
    <3>1. Len(link_info') = 0
      BY <1>1
    <3>2. \A s \in Active(iwp) : /\ ~(Below(iwp, s) < 0)
                                 /\ Below(iwp, s) + 1 - 0 = Below(iwp, s) + 1
      BY <2>3
    <3>3. Len(link_info') + Len(inbox') = station_count'
      BY <1>3, <2>2, <2>3, <2>4, <3>1
    <3> QED
      BY <1>1, <2>2, <2>5, <3>1, <3>2, <3>3 DEF LinksRead, LinkMessage
  <2> QED
    BY <1>1, <1>2, <1>4, <2>2, <2>6 DEF StepInv
<1> QED
  BY <1>5, <1>6

LEMMA CalmRead == ASSUME SessionInv, CalmInv, ReadLink \/ ReadEnd PROVE CalmInv'
<1> USE DEF Opening, Asking
<1> SUFFICES ASSUME calm PROVE (Below(iwp, TEN + 1) < TEN /\ FreshInv /\ StepInv)'
  BY DEF CalmInv, ReadLink, ReadEnd, kernel
<1>1. Below(iwp, TEN + 1) < TEN /\ FreshInv /\ StepInv
  BY DEF CalmInv
<1>2. pc = "read" /\ LinksRead
  BY <1>1 DEF ReadLink, ReadEnd, StepInv
<1>3. /\ Len(link_info) \in Nat /\ link_info \in Seq(Owner) /\ Below(iwp, TEN + 1) \in Nat
      /\ \A s \in Active(iwp) : /\ Below(iwp, s) \in Nat
                                /\ Below(iwp, s) < Below(iwp, TEN + 1)
  <2>1. /\ Below(iwp, TEN + 1) \in Nat
        /\ \A s \in Active(iwp) : /\ Below(iwp, s) \in Nat
                                  /\ Below(iwp, s) < Below(iwp, TEN + 1)
    BY ActiveSlots, BelowFacts, ConstantFacts
  <2> QED
    BY <2>1 DEF SessionInv, TypeOK
<1>4. CASE ReadLink
  <2>1. /\ inbox # <<>> /\ inbox' = Tail(inbox) /\ pc' = "read"
        /\ answered' = answered \cup {Head(inbox).session}
        /\ link_info' = Append(link_info, StationOf(Head(inbox)))
        /\ UNCHANGED <<iwp, skfd, session, station_count, hits>>
    BY <1>2, <1>4 DEF ReadLink, kernel
  <2>2. /\ Head(inbox) = inbox[1] /\ inbox[1] \in Message /\ inbox[1].session = session
        /\ Len(inbox) \in Nat /\ Len(inbox) > 0 /\ Len(inbox') = Len(inbox) - 1
        /\ \A n \in 1 .. Len(inbox) - 1 : inbox'[n] = inbox[n + 1]
        /\ \A n \in DOMAIN inbox' : inbox'[n].session = session
    BY <1>1, <2>1, CalmTaken
  <2>3. FreshInv'
    BY <1>1, <1>2, <2>1, <2>2 DEF FreshInv
  <2>4. /\ Len(link_info') = Len(link_info) + 1
        /\ \A n \in 1 .. Len(link_info) : link_info'[n] = link_info[n]
        /\ link_info'[Len(link_info) + 1] = StationOf(inbox[1])
    <3>1. StationOf(inbox[1]) \in Owner
      BY <2>2, MessageFacts, ConstantFacts DEF StationOf
    <3> QED
      BY <1>3, <2>1, <2>2, <3>1
  <2>5. ASSUME NEW s \in Active(iwp)
        PROVE  IF Below(iwp, s) < Len(link_info') THEN link_info'[Below(iwp, s) + 1] = iwp[s]
               ELSE inbox'[Below(iwp, s) + 1 - Len(link_info')] = LinkMessage(s)
    <3> DEFINE b == Below(iwp, s)
    <3>1. b \in Nat /\ b < Len(link_info) + Len(inbox)
      BY <1>2, <1>3 DEF LinksRead
    <3>2. IF b < Len(link_info) THEN link_info[b + 1] = iwp[s]
          ELSE inbox[b + 1 - Len(link_info)] = LinkMessage(s)
      BY <1>2 DEF LinksRead
    <3> HIDE DEF b
    <3>3. CASE b < Len(link_info)
      BY <1>3, <2>4, <3>1, <3>2, <3>3 DEF b
    <3>4. CASE b = Len(link_info)
      <4>1. b + 1 - Len(link_info) = 1 /\ b < Len(link_info')
        BY <1>3, <2>4, <3>1, <3>4
      <4>2. inbox[1] = LinkMessage(s)
        BY <3>2, <3>4, <4>1, <1>3
      <4>3. StationOf(inbox[1]) = iwp[s]
        BY <4>2 DEF StationOf, LinkMessage
      <4> QED
        BY <2>4, <3>4, <4>1, <4>3 DEF b
    <3>5. CASE b > Len(link_info)
      <4> DEFINE n == b - Len(link_info)
      <4>1. /\ n \in 1 .. Len(inbox) - 1 /\ n + 1 = b + 1 - Len(link_info)
            /\ n = b + 1 - Len(link_info') /\ ~(b < Len(link_info'))
            /\ ~(b < Len(link_info))
        BY <1>3, <2>2, <2>4, <3>1, <3>5
      <4>2. inbox'[n] = LinkMessage(s)
        BY <2>2, <3>2, <4>1
      <4> QED
        BY <4>1, <4>2 DEF b
    <3> QED
      BY <1>3, <3>1, <3>3, <3>4, <3>5
  <2>6. LinksRead'
    <3>1. Len(link_info') + Len(inbox') = station_count'
      BY <1>2, <1>3, <2>1, <2>2, <2>4 DEF LinksRead
    <3> QED
      BY <1>2, <2>1, <2>5, <3>1 DEF LinksRead, LinkMessage
  <2> QED
    BY <1>1, <2>1, <2>3, <2>6 DEF StepInv
<1>5. CASE ReadEnd
  <2>1. /\ pc' = "search" /\ UNCHANGED <<kernel, socket, session, links, flows, answered>>
        /\ Len(link_info) = station_count \/ station_count >= TEN
    BY <1>5 DEF ReadEnd
  <2>2. Len(link_info) = Below(iwp, TEN + 1) /\ Len(inbox) = 0
    BY <1>1, <1>2, <1>3, <2>1, ConstantFacts DEF LinksRead, SessionInv, TypeOK
  <2>3. inbox = <<>>
    BY <2>2 DEF SessionInv, TypeOK
  <2>4. LinksKnown
    BY <1>2, <1>3, <2>2 DEF LinksRead, LinksKnown
  <2>5. FreshInv' /\ StepInv'
    BY <1>1, <1>2, <2>1, <2>3, <2>4
    DEF FreshInv, StepInv, LinksKnown, kernel, socket, links, flows
  <2> QED
    BY <1>1, <2>1, <2>5 DEF kernel
<1> QED
  BY <1>4, <1>5

LEMMA CalmSearch ==
  ASSUME SessionInv, CalmInv, Found \/ NotFound \/ SessionEnd PROVE CalmInv'
<1> USE DEF Opening, Asking
<1> SUFFICES ASSUME calm PROVE (Below(iwp, TEN + 1) < TEN /\ FreshInv /\ StepInv)'
  BY DEF CalmInv, Found, NotFound, SessionEnd, kernel
<1>1. /\ pc = "search"
      /\ UNCHANGED <<iwp, socket, session, station_count, link_info, answered>>
  BY DEF Found, NotFound, SessionEnd, kernel, links
<1>2. Below(iwp, TEN + 1) < TEN /\ FreshInv /\ inbox = <<>> /\ LinksKnown
  BY <1>1 DEF CalmInv, StepInv
<1>3. LinksKnown'
  BY <1>1, <1>2 DEF LinksKnown
<1>4. CASE Found
  <2>1. hits = 0 /\ hits' = hits + 1 /\ kslot' = 1
    BY <1>4 DEF Found
  <2>2. skfd = "bound"
    BY <1>1, <1>2, <2>1 DEF SessionInv, TypeOK, PlaceInv, FreshInv
  <2>3. pc' = "flows"
    BY <1>4, <2>2 DEF Found
  <2> QED
    BY <1>1, <1>2, <1>3, <2>1, <2>2, <2>3 DEF FreshInv, StepInv, socket
<1>5. CASE NotFound \/ SessionEnd
  <2>1. pc' \in {"search", "idle"} /\ UNCHANGED hits
    BY <1>1, <1>5 DEF NotFound, SessionEnd, flows
  <2> QED
    BY <1>1, <1>2, <1>3, <2>1 DEF FreshInv, StepInv, socket
<1> QED
  BY <1>4, <1>5

\* As many flows are queued as are read.
LEMMA CalmFlows == ASSUME SessionInv, CalmInv, ReplyFlow \/ ReplyFlowsEnd PROVE CalmInv'
<1> USE DEF Opening, Asking
<1> SUFFICES ASSUME calm PROVE (Below(iwp, TEN + 1) < TEN /\ FreshInv /\ StepInv)'
  BY DEF CalmInv, ReplyFlow, ReplyFlowsEnd, kernel
<1>1. /\ pc = "flows" /\ UNCHANGED <<iwp, skfd, session, links, hits, answered>>
  BY DEF ReplyFlow, ReplyFlowsEnd, kernel, socket, flows
<1>2. /\ Below(iwp, TEN + 1) < TEN /\ FreshInv /\ LinksKnown /\ Len(inbox) = kslot - 1
      /\ kslot \in 1 .. TEN + 1
  BY <1>1 DEF CalmInv, StepInv, SessionInv, TypeOK
<1>3. LinksKnown'
  BY <1>1, <1>2 DEF LinksKnown, links
<1>4. CASE ReplyFlow
  <2>1. pc' = "flows" /\ kslot <= TEN /\ kslot' = kslot + 1
    BY <1>1, <1>4 DEF ReplyFlow
  <2>2. kslot \in Slot /\ session \in Session
    BY <1>1, <1>2, <2>1, ConstantFacts DEF SessionInv, TypeOK, PlaceInv, Slot, Session
  <2>3. PICK x \in Entry :
          Reply([kind |-> "flow", session |-> session, slot |-> kslot, entry |-> x])
    BY <1>4 DEF ReplyFlow, FlowAt
  <2>4. [kind |-> "flow", session |-> session, slot |-> kslot, entry |-> x] \in Message
    BY <2>2, MessageForms
  <2>5. FreshInv' /\ Len(inbox') = Len(inbox) + 1
    BY <1>1, <2>1, <2>3, <2>4, CalmReply
  <2> QED
    BY <1>1, <1>2, <1>3, <2>1, <2>5 DEF StepInv
<1>5. CASE ReplyFlowsEnd
  <2>1. /\ pc' = "receive" /\ i' = 1 /\ UNCHANGED inbox /\ kslot > TEN
    BY <1>5 DEF ReplyFlowsEnd, socket
  <2>2. Len(inbox') = TEN + 1 - i'
    BY <1>2, <2>1, ConstantFacts
  <2> QED
    BY <1>1, <1>2, <1>3, <2>1, <2>2 DEF FreshInv, StepInv
<1> QED
  BY <1>4, <1>5

LEMMA CalmReceive == ASSUME SessionInv, CalmInv, ReceiveFlow \/ ReceiveEnd PROVE CalmInv'
<1> USE DEF Opening, Asking
<1> SUFFICES ASSUME calm PROVE (Below(iwp, TEN + 1) < TEN /\ FreshInv /\ StepInv)'
  BY DEF CalmInv, ReceiveFlow, ReceiveEnd, kernel
<1>1. /\ pc = "receive"
      /\ UNCHANGED <<iwp, session, station_count, link_info, hits>>
  BY DEF ReceiveFlow, ReceiveEnd, kernel, links, flows
<1>2. /\ Below(iwp, TEN + 1) < TEN /\ FreshInv /\ LinksKnown
      /\ Len(inbox) = TEN + 1 - i /\ skfd = "bound"
  BY <1>1 DEF CalmInv, StepInv, FreshInv
<1>3. LinksKnown'
  BY <1>1, <1>2 DEF LinksKnown
<1>4. CASE ReceiveFlow
  <2>1. /\ pc' = "receive" /\ i' = i + 1 /\ skfd' = skfd
        /\ inbox # <<>> /\ inbox' = Tail(inbox)
        /\ answered' = answered \cup {Head(inbox).session}
    BY <1>1, <1>2, <1>4 DEF ReceiveFlow
  <2>2. /\ Head(inbox) = inbox[1] /\ inbox[1].session = session
        /\ Len(inbox') = Len(inbox) - 1
        /\ \A n \in DOMAIN inbox' : inbox'[n].session = session
    BY <1>2, <2>1, CalmTaken
  <2>3. Len(inbox') = TEN + 1 - i'
    BY <1>2, <2>1, <2>2, ConstantFacts DEF SessionInv, TypeOK
  <2> QED
    BY <1>1, <1>2, <1>3, <2>1, <2>2, <2>3 DEF FreshInv, StepInv
<1>5. CASE ReceiveEnd
  <2>1. pc' = "search" /\ skfd' = "closed" /\ inbox' = <<>> /\ UNCHANGED answered
    BY <1>5 DEF ReceiveEnd, Closed
  <2> QED
    BY <1>1, <1>2, <1>3, <2>1 DEF FreshInv, StepInv
<1> QED
  BY <1>4, <1>5

LEMMA CalmStep == SessionInv /\ CalmInv /\ [Next]_vars => CalmInv'
<1>1. CalmInv /\ UNCHANGED vars => CalmInv'
  BY DEF vars, kernel, socket, links, flows, CalmInv, FreshInv, StepInv, RepliedUpTo,
         LinksRead, LinksKnown, StatesMessage, LinkMessage
<1> QED
  BY <1>1, CalmBegin, CalmTimer, CalmStates, CalmAwait, CalmRead, CalmSearch, CalmFlows,
     CalmReceive DEF Next, Program

LEMMA CalmInvariant == Spec => []CalmInv
  BY CalmInit, CalmStep, SessionInvariant, PTL DEF Spec

\* In a calm environment a session never decides on a reply to an earlier request:
\* what main_linger took in this session was sent in this session.
THEOREM FreshAnswers == Spec => []AnswersAreFresh
<1>1. CalmInv => AnswersAreFresh
  BY DEF CalmInv, FreshInv, AnswersAreFresh
<1> QED
  BY CalmInvariant, <1>1, PTL

\* When main_linger has returned the socket holds nothing in a calm environment, and
\* no flow in any: for every number of slots the messages read are those sent.
THEOREM NothingIsLeft == Spec => []NothingLeftBehind
<1>1. SessionInv /\ CalmInv => NothingLeftBehind
  BY DEF SessionInv, QueueInv, CalmInv, StepInv, NothingLeftBehind, IsFlow, Asking
<1> QED
  BY SessionInvariant, CalmInvariant, <1>1, PTL

\* In a calm environment the links main_linger has read are the links of the table,
\* each once, in the order of the slots.
THEOREM LinksAreRead == Spec => []LinksAreTheTable
<1>1. CalmInv => LinksAreTheTable
  <2> SUFFICES ASSUME CalmInv, calm, pc = "search"
               PROVE  /\ Len(link_info) = Cardinality(Active(iwp))
                      /\ \A s \in Active(iwp) : link_info[Rank(s)] = iwp[s]
    BY DEF LinksAreTheTable
  <2>1. LinksKnown
    BY DEF CalmInv, StepInv
  <2>2. /\ Below(iwp, TEN + 1) = Cardinality(Active(iwp))
        /\ \A s \in Active(iwp) : Rank(s) = Below(iwp, s) + 1
    BY BelowFacts DEF Rank
  <2> QED
    BY <2>1, <2>2 DEF LinksKnown
<1> QED
  BY CalmInvariant, <1>1, PTL

\* In a calm environment the flows queued are those of the slots still to be read.
LEMMA FlowStep == SessionInv /\ CalmInv /\ FlowInv /\ [Next]_vars => FlowInv'
<1> USE DEF Asking, Opening
<1> SUFFICES ASSUME SessionInv, CalmInv, FlowInv, [Next]_vars, calm', pc' \in Asking
             PROVE  /\ pc' = "flows" =>
                         \A n \in 1 .. Len(inbox') : inbox'[n] = FlowMessage(n)'
                    /\ pc' = "receive" =>
                         /\ \A n \in 1 .. Len(inbox') :
                              inbox'[n] = FlowMessage(i - 1 + n)'
                         /\ \A s \in 1 .. i' - 1 :
                              Flagged(s)' => \E n \in DOMAIN commands' : commands'[n].slot = s
  BY DEF FlowInv, FlowMessage, Flagged
<1>1. CASE Found
  <2>1. calm /\ pc = "search" /\ UNCHANGED <<inbox, skfd>> /\ hits = 0
    BY <1>1 DEF Found, socket
  <2>2. inbox = <<>> /\ skfd # "closed"
    BY <2>1 DEF CalmInv, StepInv, SessionInv, PlaceInv
  <2>3. pc' = "flows" /\ Len(inbox') = 0
    BY <1>1, <2>1, <2>2 DEF Found
  <2> QED
    BY <2>3
<1>2. CASE ReplyFlow
  <2>1. /\ calm /\ pc = "flows" /\ pc' = "flows" /\ kslot <= TEN
        /\ UNCHANGED <<skfd, session, hits, answered>>
    BY <1>2 DEF ReplyFlow
  <2>2. /\ kslot \in Slot /\ session \in Session /\ reported \in [Slot -> Entry]
        /\ Len(inbox) = kslot - 1 /\ kslot \in Nat
    BY <2>1, ConstantFacts
    DEF SessionInv, TypeOK, PlaceInv, Slot, Session, CalmInv, StepInv
  <2>3. PICK x \in Entry :
          /\ Reply([kind |-> "flow", session |-> session, slot |-> kslot, entry |-> x])
          /\ reported' = [reported EXCEPT ![kslot] = x]
    BY <1>2 DEF ReplyFlow, FlowAt
  <2> DEFINE m == [kind |-> "flow", session |-> session, slot |-> kslot, entry |-> x]
  <2>4. m \in Message /\ m.session = session
    BY <2>2, MessageForms
  <2>5. m = [kind |-> "flow", session |-> session', slot |-> kslot,
             entry |-> reported'[kslot]]
    BY <2>1, <2>2, <2>3
  <2> HIDE DEF m
  <2>6. Reply(m)
    BY <2>3 DEF m
  <2>7. /\ Len(inbox') = Len(inbox) + 1
        /\ \A n \in 1 .. Len(inbox) : inbox'[n] = inbox[n]
        /\ inbox'[Len(inbox) + 1] = m
    BY <2>1, <2>4, <2>6, CalmReply
  <2>8. ASSUME NEW n \in 1 .. Len(inbox')
        PROVE  inbox'[n] = FlowMessage(n)'
    <3>1. CASE n = kslot
      <4>1. n = Len(inbox) + 1
        BY <2>2, <3>1
      <4> QED
        BY <2>5, <2>7, <3>1, <4>1 DEF FlowMessage
    <3>2. CASE n # kslot
      <4>1. n \in 1 .. Len(inbox) /\ n \in Slot
        BY <2>1, <2>2, <2>7, <3>2, ConstantFacts DEF Slot
      <4>2. inbox[n] = FlowMessage(n) /\ reported'[n] = reported[n]
        BY <2>1, <2>2, <2>3, <3>2, <4>1 DEF FlowInv
      <4> QED
        BY <2>1, <2>7, <4>1, <4>2 DEF FlowMessage
    <3> QED
      BY <3>1, <3>2
  <2> QED
    BY <2>1, <2>8
<1>3. CASE ReplyFlowsEnd
  <2>1. /\ calm /\ pc = "flows" /\ pc' = "receive" /\ i' = 1
        /\ UNCHANGED <<inbox, session, reported>>
    BY <1>3 DEF ReplyFlowsEnd, kernel, socket
  <2>2. \A n \in 1 .. Len(inbox) : inbox[n] = FlowMessage(n) /\ 1 - 1 + n = n
    BY <2>1 DEF FlowInv
  <2>3. \A n \in 1 .. Len(inbox') : inbox'[n] = FlowMessage(i - 1 + n)'
    BY <2>1, <2>2 DEF FlowMessage
  <2> QED
    BY <2>1, <2>3
<1>4. CASE ReceiveFlow
  <2>1. /\ calm /\ pc = "receive" /\ pc' = "receive" /\ i' = i + 1 /\ i <= TEN
        /\ UNCHANGED <<session, reported, link_info, j>>
    BY <1>4 DEF ReceiveFlow, kernel, links
  <2>2. /\ Len(inbox) = TEN + 1 - i /\ skfd = "bound" /\ FreshInv
        /\ i \in 1 .. TEN /\ i \in Nat /\ commands \in Seq(Command)
    BY <2>1, ConstantFacts DEF CalmInv, StepInv, FreshInv, SessionInv, TypeOK
  <2>3. /\ inbox # <<>> /\ inbox' = Tail(inbox) /\ Throttle(Head(inbox))
    BY <1>4, <2>2 DEF ReceiveFlow
  <2>4. /\ Head(inbox) = inbox[1] /\ Len(inbox) \in Nat /\ Len(inbox) > 0
        /\ Len(inbox') = Len(inbox) - 1
        /\ \A n \in 1 .. Len(inbox) - 1 : inbox'[n] = inbox[n + 1]
    BY <2>2, <2>3, CalmTaken
  <2>5. /\ \A n \in 1 .. Len(inbox) : inbox[n] = FlowMessage(i - 1 + n)
        /\ \A s \in 1 .. i - 1 :
             Flagged(s) => \E n \in DOMAIN commands : commands[n].slot = s
    BY <2>1 DEF FlowInv
  <2>6. ASSUME NEW n \in 1 .. Len(inbox')
        PROVE  inbox'[n] = FlowMessage(i - 1 + n)'
    <3>1. /\ n \in 1 .. Len(inbox) - 1 /\ n + 1 \in 1 .. Len(inbox)
          /\ i - 1 + (n + 1) = i' - 1 + n
      BY <2>1, <2>2, <2>4
    <3> QED
      BY <2>1, <2>4, <2>5, <3>1 DEF FlowMessage
  <2>7. Head(inbox) = FlowMessage(i)
    <3>1. 1 \in 1 .. Len(inbox) /\ i - 1 + 1 = i
      BY <2>2, <2>4
    <3> QED
      BY <2>4, <2>5, <3>1
  <2>8. ASSUME NEW s \in 1 .. i' - 1, Flagged(s)'
        PROVE  \E n \in DOMAIN commands' : commands'[n].slot = s
    <3>1. Flagged(s)
      BY <2>1, <2>8 DEF Flagged
    <3>2. CASE s \in 1 .. i - 1
      <4>1. PICK n \in DOMAIN commands : commands[n].slot = s
        BY <2>5, <3>1, <3>2
      <4>2. n \in DOMAIN commands' /\ commands'[n] = commands[n]
        BY <2>2, <2>3 DEF Throttle
      <4> QED
        BY <4>1, <4>2
    <3>3. CASE s = i
      <4>1. Matches(Head(inbox)) /\ Head(inbox).slot = s
        BY <2>7, <3>1, <3>3 DEF Matches, FlowMessage, Flagged
      <4>2. commands' = Append(commands, [slot |-> Head(inbox).slot,
                                          entry |-> Head(inbox).entry])
        BY <2>3, <4>1 DEF Throttle
      <4>3. /\ Len(commands) + 1 \in DOMAIN commands'
            /\ commands'[Len(commands) + 1].slot = s
        BY <2>2, <4>1, <4>2
      <4> QED
        BY <4>3
    <3> QED
      BY <2>1, <2>2, <3>2, <3>3
  <2> QED
    BY <2>1, <2>6, <2>8
<1>5. CASE Timer \/ UNCHANGED vars
  <2>1. UNCHANGED <<calm, pc, session, inbox, i, commands, reported, link_info, j>>
    BY <1>5 DEF Timer, vars, kernel, socket, links, flows
  <2> QED
    BY <2>1 DEF FlowInv, FlowMessage, Flagged
<1>6. CASE \/ Begin \/ OpenFails \/ ReplyNone \/ ReplyStates \/ ReplyLink
           \/ ReplyLinksEnd \/ Await \/ ReadLink \/ ReadEnd \/ NotFound \/ SessionEnd
           \/ ReceiveEnd
  <2>1. pc' \notin Asking
    BY <1>6 DEF Begin, OpenFails, ReplyNone, ReplyStates, ReplyLink, ReplyLinksEnd, Await,
       ReadLink, ReadEnd, NotFound, SessionEnd, ReceiveEnd
  <2> QED
    BY <2>1
<1> QED
  BY <1>1, <1>2, <1>3, <1>4, <1>5, <1>6 DEF Next, Program

LEMMA FlowInvariant == Spec => []FlowInv
<1>1. Init => FlowInv
  BY DEF Init, FlowInv
<1> QED
  BY <1>1, SessionInvariant, CalmInvariant, FlowStep, PTL DEF Spec

\* In every environment the commands of a session that flags one link are those of the
\* slots recv_cb sent for it, at most one a slot, in order; in a calm one no flow of
\* the flagged station is missing.
THEOREM CommandsOfSlots == Spec => []CommandsAreTheSlots
<1>1. SessionInv /\ EntryInv /\ FlowInv => CommandsAreTheSlots
  <2> SUFFICES ASSUME SessionInv, EntryInv, FlowInv, hits <= 1
               PROVE  /\ CommandsInOrder
                      /\ pc = "receive" => \A n \in DOMAIN commands :
                           commands[n].entry = reported[commands[n].slot]
                      /\ calm /\ pc = "receive" /\ i > TEN =>
                           \A s \in Slot : Flagged(s) =>
                             \E n \in DOMAIN commands : commands[n].slot = s
    BY DEF CommandsAreTheSlots, CommandsInOrder, Flagged
  <2>1. CommandsInOrder
    BY DEF SessionInv, CommandInv
  <2>2. ASSUME pc = "receive"
        PROVE  \A n \in DOMAIN commands : commands[n].entry = reported[commands[n].slot]
    <3>1. hits = 1
      BY <2>2 DEF SessionInv, PlaceInv, TypeOK, Asking
    <3> QED
      BY <2>2, <3>1 DEF EntryInv, Asking
  <2>3. ASSUME calm, pc = "receive", i > TEN, NEW s \in Slot, Flagged(s)
        PROVE  \E n \in DOMAIN commands : commands[n].slot = s
    <3>1. s \in 1 .. i - 1
      BY <2>3, ConstantFacts DEF SessionInv, TypeOK, Slot
    <3> QED
      BY <2>3, <3>1 DEF FlowInv
  <2> QED
    BY <2>1, <2>2, <2>3
<1> QED
  BY SessionInvariant, EntryInvariant, FlowInvariant, <1>1, PTL
=============================================================================

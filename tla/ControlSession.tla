--------------------------- MODULE ControlSession ---------------------------
(***************************************************************************)
(* One AP's control loop: each decision tree pushed to the switch makes    *)
(* handle_msg (project/ofproto.c) run main_linger once, a session that     *)
(* asks the kernel module (recv_cb, project/sendudp.c) over a netlink      *)
(* socket for the AP state, one message per station link, and, for a link  *)
(* the tree flags, for the TCP flows, and sends one UDP command for every  *)
(* flow of the flagged station.                                            *)
(*                                                                         *)
(* recv_cb runs inside the sender's sendto, so program and kernel are one  *)
(* thread; the timer callback, which rewrites the table of links, and the  *)
(* state of the socket between sessions are what can come in between.      *)
(* What the tree answers is any choice, and so is what flow_linger holds   *)
(* when it is sent, one flow in several slots included (FlowTable).        *)
(* Replies carry, for the properties, the session they answer.             *)
(*                                                                         *)
(*   calm   a quiet environment, chosen once: the table changes only       *)
(*          between sessions and holds fewer than TEN stations, bind       *)
(*          succeeds, the tree flags at most one link of a session.        *)
(***************************************************************************)
EXTENDS Integers, Sequences, FiniteSets

CONSTANTS TEN,            \* link slots, and flow slots (FLOWS_KEEP)
          Station, Flow, None,
          MaxSessions     \* bound on the trees pushed

ASSUME ControlAssumption ==
         /\ TEN \in Nat \ {0} /\ MaxSessions \in Nat
         /\ None \notin Station \cup Flow

VARIABLES
  calm,                   \* what the environment may do
  iwp,                    \* slot -> station whose link has sec > 0, or None
  skfd, inbox,            \* the netlink socket and its receive queue
  session, pc,
  kslot,                  \* slot recv_cb has reached
  station_count, link_info, j,   \* links announced; links read; link at hand
  info, i,                \* last message received; flow messages received
  hits, commands,         \* links flagged; commands sent, this session
  reported,               \* slot -> entry of flow_linger that recv_cb sent of it
  answered                \* the sessions whose replies this session used

kernel == <<calm, iwp, kslot>>
links == <<station_count, link_info, j>>
flows == <<info, i, hits, commands, reported>>
socket == <<skfd, inbox>>
vars == <<kernel, socket, session, pc, links, flows, answered>>

Slot == 1 .. TEN
Owner == Station \cup {None}
Session == 1 .. MaxSessions

\* An entry of flow_linger: its flow, and the station among its two addresses.
NoEntry == [flow |-> None, station |-> None]
Entry == [flow : Flow, station : Station] \cup {NoEntry}

Message ==
  [kind : {"nonedata"}, session : Session]
    \cup [kind : {"states"}, session : Session, count : 0 .. TEN]
    \cup [kind : {"link"}, session : Session, station : Station]
    \cup [kind : {"flow"}, session : Session, slot : Slot, entry : Entry]

NoMessage == [kind |-> "none"]
Command == [slot : Slot, entry : Entry]

TypeOK ==
  /\ calm \in BOOLEAN
  /\ iwp \in [Slot -> Owner] /\ kslot \in 1 .. TEN + 1
  /\ skfd \in {"closed", "bound", "unbound"} /\ inbox \in Seq(Message)
  /\ session \in 0 .. MaxSessions
  /\ pc \in {"idle", "states", "links", "await", "read", "search", "flows",
             "receive"}
  /\ station_count \in 0 .. TEN /\ link_info \in Seq(Owner) /\ j \in 1 .. TEN + 1
  /\ info \in Message \cup {NoMessage} /\ i \in 1 .. TEN + 1
  /\ hits \in 0 .. TEN /\ commands \in Seq(Command)
  /\ reported \in [Slot -> Entry]
  /\ answered \in SUBSET Session

Init ==
  /\ calm \in BOOLEAN
  /\ iwp = [s \in Slot |-> None] /\ kslot = 1
  /\ skfd = "closed" /\ inbox = <<>>
  /\ session = 0 /\ pc = "idle"
  /\ station_count = 0 /\ link_info = <<>> /\ j = 1
  /\ info = NoMessage /\ i = 1 /\ hits = 0 /\ commands = <<>>
  /\ reported = [s \in Slot |-> NoEntry]
  /\ answered = {}

Active(table) == {s \in Slot : table[s] # None}

\* get_information adds, drops or replaces a station of the table of links, or finds
\* those it knows.
Timer ==
  /\ \E s \in Slot, x \in Owner : iwp' = [iwp EXCEPT ![s] = x]
  /\ calm /\ pc # "idle" => iwp' = iwp
  /\ calm => Cardinality(Active(iwp')) < TEN
  /\ UNCHANGED <<calm, kslot, socket, session, pc, links, flows, answered>>

-----------------------------------------------------------------------------
(* main_linger: the socket and the request "states".                       *)

Fresh ==
  /\ station_count' = 0 /\ link_info' = <<>> /\ j' = 1
  /\ info' = NoMessage /\ i' = 1 /\ hits' = 0 /\ commands' = <<>>
  /\ reported' = [s \in Slot |-> NoEntry]
  /\ answered' = {}

Begin ==
  /\ pc = "idle" /\ session < MaxSessions
  /\ session' = session + 1
  /\ skfd' = IF skfd = "closed" THEN "bound" ELSE skfd
  /\ pc' = "states"
  /\ Fresh
  /\ UNCHANGED <<kernel, inbox>>

\* socket() fails, or bind() does and leaves the descriptor as it is.
OpenFails ==
  /\ pc = "idle" /\ session < MaxSessions /\ ~calm /\ skfd = "closed"
  /\ session' = session + 1
  /\ skfd' \in {"closed", "unbound"}
  /\ Fresh
  /\ UNCHANGED <<kernel, inbox, pc>>

-----------------------------------------------------------------------------
(* recv_cb, inside sendto; a reply to a port nobody has bound is lost.     *)

Reply(m) == inbox' = IF skfd = "bound" THEN Append(inbox, m) ELSE inbox

\* The ring of AP states covers no time: duration or dur_sur is zero.
ReplyNone ==
  /\ pc = "states"
  /\ Reply([kind |-> "nonedata", session |-> session])
  /\ pc' = "await"
  /\ UNCHANGED <<kernel, skfd, session, links, flows, answered>>

Count_SkipsLast == Cardinality(Active(iwp) \ {TEN})
Count == Cardinality(Active(iwp))

ReplyStates ==
  /\ pc = "states"
  /\ Reply([kind |-> "states", session |-> session, count |-> Count])
  /\ pc' = "links" /\ kslot' = 1
  /\ UNCHANGED <<calm, iwp, skfd, session, links, flows, answered>>

\* The second pass over the table, one message for every link in use.
ReplyLink ==
  /\ pc = "links" /\ kslot <= TEN
  /\ \/ /\ iwp[kslot] # None
        /\ Reply([kind |-> "link", session |-> session, station |-> iwp[kslot]])
     \/ iwp[kslot] = None /\ UNCHANGED inbox
  /\ kslot' = kslot + 1
  /\ UNCHANGED <<calm, iwp, skfd, session, pc, links, flows, answered>>

ReplyLinksEnd_Early ==
  /\ pc = "links" /\ kslot >= TEN
  /\ pc' = "await"
  /\ UNCHANGED <<kernel, socket, session, links, flows, answered>>
ReplyLinksEnd ==
  /\ pc = "links" /\ kslot > TEN
  /\ pc' = "await"
  /\ UNCHANGED <<kernel, socket, session, links, flows, answered>>

FlowAt_First == 1
FlowAt == kslot

\* "flowss": a message for each of the flow slots, in use or not.  Packets may
\* change the table between two of them.
ReplyFlow ==
  /\ pc = "flows" /\ kslot <= TEN
  /\ \E x \in Entry :
       /\ Reply([kind |-> "flow", session |-> session, slot |-> FlowAt, entry |-> x])
       /\ reported' = [reported EXCEPT ![kslot] = x]
  /\ kslot' = kslot + 1
  /\ UNCHANGED <<calm, iwp, skfd, session, pc, links, info, i, hits, commands, answered>>

ReplyFlowsEnd ==
  /\ pc = "flows" /\ kslot > TEN
  /\ pc' = "receive" /\ i' = 1
  /\ UNCHANGED <<kernel, socket, session, links, info, hits, commands, reported,
                 answered>>

-----------------------------------------------------------------------------
(* main_linger: the replies.  recvfrom blocks while the queue is empty.    *)

\* A link's bytes read as an AP state have a zero where station_count is; an AP
\* state read as a link names no station.
AnnouncedBy(m) == IF m.kind = "states" THEN m.count ELSE 0
StationOf(m) == IF m.kind = "link" THEN m.station ELSE None

Await ==
  /\ pc = "await" /\ inbox # <<>>
  /\ inbox' = Tail(inbox) /\ info' = Head(inbox)
  /\ answered' = answered \cup {Head(inbox).session}
  /\ station_count' = AnnouncedBy(Head(inbox)) /\ link_info' = <<>> /\ j' = 1
  /\ pc' = IF Head(inbox).kind = "nonedata" THEN "idle" ELSE "read"
  /\ UNCHANGED <<kernel, skfd, session, i, hits, commands, reported>>

ReadLink ==
  /\ pc = "read" /\ Len(link_info) < station_count
  /\ station_count < TEN /\ inbox # <<>>
  /\ inbox' = Tail(inbox) /\ info' = Head(inbox)
  /\ answered' = answered \cup {Head(inbox).session}
  /\ link_info' = Append(link_info, StationOf(Head(inbox)))
  /\ UNCHANGED <<kernel, skfd, session, pc, station_count, j, i, hits, commands,
                 reported>>

ReadEnd ==
  /\ pc = "read"
  /\ Len(link_info) = station_count \/ station_count >= TEN
  /\ pc' = "search"
  /\ UNCHANGED <<kernel, socket, session, links, flows, answered>>

\* bst_search flags the link at hand, or does not.
Found ==
  /\ pc = "search" /\ j <= Len(link_info)
  /\ calm => hits = 0
  /\ hits' = hits + 1
  /\ pc' = IF skfd = "closed" THEN "receive" ELSE "flows"
  /\ kslot' = 1 /\ i' = 1
  /\ UNCHANGED <<calm, iwp, socket, session, links, info, commands, reported, answered>>

NotFound ==
  /\ pc = "search" /\ j <= Len(link_info)
  /\ j' = j + 1
  /\ UNCHANGED <<kernel, socket, session, pc, station_count, link_info, flows,
                 answered>>

SessionEnd ==
  /\ pc = "search" /\ j > Len(link_info)
  /\ pc' = "idle"
  /\ UNCHANGED <<kernel, socket, session, links, flows, answered>>

\* run_linger for the flow in info when its station is the one flagged, whether or
\* not another slot had the same flow.
Matches(m) == /\ m.kind = "flow" /\ m.entry # NoEntry
              /\ m.entry.station = link_info[j]
Throttle(m) ==
  commands' = IF Matches(m)
              THEN Append(commands, [slot |-> m.slot, entry |-> m.entry])
              ELSE commands

ReceiveFlow ==
  /\ pc = "receive" /\ i <= TEN
  /\ \/ /\ skfd # "closed" /\ inbox # <<>>
        /\ inbox' = Tail(inbox) /\ info' = Head(inbox)
        /\ answered' = answered \cup {Head(inbox).session}
        /\ Throttle(Head(inbox))
     \/ /\ skfd = "closed"        \* recvfrom fails, info is used again
        /\ Throttle(info)
        /\ UNCHANGED <<inbox, info, answered>>
  /\ i' = i + 1
  /\ UNCHANGED <<kernel, skfd, session, pc, links, hits, reported>>

\* close(skfd) discards what is still queued.
Closed == skfd' = "closed" /\ inbox' = <<>>

ReceiveEnd ==
  /\ pc = "receive" /\ i > TEN
  /\ Closed
  /\ j' = j + 1 /\ pc' = "search"
  /\ reported' = [s \in Slot |-> NoEntry]
  /\ UNCHANGED <<kernel, session, station_count, link_info, info, i, hits, commands,
                 answered>>

-----------------------------------------------------------------------------
Program ==
  \/ Begin \/ OpenFails \/ ReplyNone \/ ReplyStates \/ ReplyLink \/ ReplyLinksEnd
  \/ ReplyFlow \/ ReplyFlowsEnd \/ Await \/ ReadLink \/ ReadEnd \/ Found
  \/ NotFound \/ SessionEnd \/ ReceiveFlow \/ ReceiveEnd

Next == Program \/ Timer

Spec == Init /\ [][Next]_vars

\* A session that has begun goes on while it can; trees need not be pushed.
Proceed == pc # "idle" /\ Program
FairSpec == Spec /\ WF_vars(Proceed)

-----------------------------------------------------------------------------
(* Properties.                                                             *)

\* In a calm environment a session decides on what the kernel said to it, never
\* on a reply to an earlier request, left in the socket main_linger keeps open.
AnswersAreFresh == calm => answered \subseteq {session}

\* In a calm environment main_linger takes exactly the messages recv_cb sent: the
\* count it was told, the messages that follow and the ten flows are in step.
\* Whatever the table does, flows are never left for another session: the socket
\* they were asked on is closed when ten messages have been read.
NothingLeftBehind ==
  pc = "idle" => /\ calm => inbox = <<>>
                 /\ \A n \in DOMAIN inbox : inbox[n].kind # "flow"

\* The number of a used slot among the used ones.
Rank(s) == Cardinality({q \in Active(iwp) : q <= s})

\* In a calm environment the links the tree is asked about are those of the table,
\* once each, in the order of its slots, although they were counted in one pass
\* and sent in another.
LinksAreTheTable ==
  calm /\ pc = "search" =>
    /\ Len(link_info) = Cardinality(Active(iwp))
    /\ \A s \in Active(iwp) : link_info[Rank(s)] = iwp[s]

\* Whatever the table of links does: a session that flags one link sends at most one
\* command for a slot of flow_linger, in the order of the slots, and each for the flow
\* that recv_cb found there for this very request.  In a calm environment no flow of
\* the flagged station is passed over.  (Nothing merges the copies of a flow: one that
\* stands in several slots is throttled once for each.  And with a second flagged link
\* the socket is closed already, and every failing recvfrom leaves the last flow in
\* info to be matched again.)
CommandsAreTheSlots ==
  hits <= 1 =>
    /\ \A m, n \in DOMAIN commands : m < n => commands[m].slot < commands[n].slot
    /\ pc = "receive" =>
         \A n \in DOMAIN commands : commands[n].entry = reported[commands[n].slot]
    /\ calm /\ pc = "receive" /\ i > TEN =>
         \A s \in Slot : reported[s] # NoEntry /\ reported[s].station = link_info[j] =>
                          \E n \in DOMAIN commands : commands[n].slot = s

\* In a calm environment a session that was begun ends; the switch's main thread
\* does not stay in a recvfrom that nobody answers.
SessionEnds == calm /\ pc # "idle" ~> pc = "idle"
=============================================================================

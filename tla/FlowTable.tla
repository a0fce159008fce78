----------------------------- MODULE FlowTable -----------------------------
(***************************************************************************)
(* flow_linger, the table of current TCP flows that project/flow.c keeps   *)
(* for the control loop: for every TCP packet the flow's entry is found    *)
(* and refreshed, or made, and old entries are deleted.                    *)
(*                                                                         *)
(* A flow stands for its addresses and ports; an entry with sec = 0 is an  *)
(* unused slot, as in the code.  Seconds are unsigned: differences wrap at *)
(* Wrap, which stands for 2^32.  The clock is read once for the packet     *)
(* (wz_linger.sec) and again for the entry that is refreshed, so the       *)
(* second reading may be a second later.  flow_count is an int, from -Half *)
(* to Half - 1; Half stands for 2^31.                                      *)
(***************************************************************************)
EXTENDS Integers, FiniteSets

CONSTANTS Flow, None,
          Slots,         \* FLOWS_KEEP_LINGER
          Wrap, Half,
          Start, End,    \* the clock runs from Start to End
          MaxPackets     \* bound on the packets of a flow

ASSUME FlowAssumption ==
         /\ None \notin Flow /\ Slots \in Nat \ {0} /\ MaxPackets \in Nat
         /\ Start \in Nat /\ End \in Nat /\ Wrap \in Nat
         /\ Half \in Nat /\ Slots < Half
         /\ 2 < Start /\ Start <= End /\ End + 4 < Wrap

VARIABLES
  flow_linger, flow_count,
  wrapped,               \* flow_count has left its range since it was set to 1
  now,                   \* the clock, in seconds
  last, latest,          \* wz_linger.sec and the flow of the latest packet
  seen                   \* packets of each flow so far

vars == <<flow_linger, flow_count, wrapped, now, last, latest, seen>>

Slot == 0 .. Slots - 1
Unused == [flow |-> None, sec |-> 0, packets |-> 0]
Entry == [flow : Flow \cup {None}, sec : Nat, packets : Nat]

TypeOK ==
  /\ flow_linger \in [Slot -> Entry]
  /\ flow_count \in -Half .. Half - 1 /\ wrapped \in BOOLEAN
  /\ now \in Nat /\ last \in Nat /\ latest \in Flow \cup {None}
  /\ seen \in [Flow -> Nat]

Init ==
  /\ flow_linger = [s \in Slot |-> Unused] /\ flow_count = 0
  /\ wrapped = FALSE
  /\ now = Start /\ last = 0 /\ latest = None
  /\ seen = [f \in Flow |-> 0]

Tick == now < End /\ now' = now + 1
        /\ UNCHANGED <<flow_linger, flow_count, wrapped, last, latest, seen>>

-----------------------------------------------------------------------------
InUse(table) == {s \in Slot : table[s].sec # 0}
Of(f) == {s \in Slot : flow_linger[s].flow = f}
FirstOf(f) == CHOOSE s \in Of(f) : \A q \in Of(f) : s <= q
New(f) == [flow |-> f, sec |-> now, packets |-> 1]

\* The last loop: whatever is outdated goes, an unused slot (sec = 0) included.
Age(sec) == (now - sec) % Wrap
Outdated_Late(table) == {s \in Slot : Age(table[s].sec) > 3}
Outdated(table) == {s \in Slot : Age(table[s].sec) > 2}

\* The counter before it is stored in an int, and what the int then is.
Remaining_Up(count, n) == count + n
Remaining(count, n) == count - n
AsInt(n) == ((n + Half) % (2 * Half)) - Half

Expire(table, count, over) ==
  LET left == Remaining(count, Cardinality(Outdated(table))) IN
    /\ flow_linger' = [s \in Slot |-> IF s \in Outdated(table) THEN Unused ELSE table[s]]
    /\ flow_count' = AsInt(left)
    /\ wrapped' = (over \/ AsInt(left) # left)

Receive(f) ==
  /\ seen[f] < MaxPackets /\ seen' = [seen EXCEPT ![f] = @ + 1]
  /\ last' = now /\ latest' = f

\* flow_count is 0: the entry goes to slot 0, whatever is there.
StartTable(f) ==
  /\ Receive(f)
  /\ flow_count = 0
  /\ Expire([flow_linger EXCEPT ![0] = New(f)], 1, FALSE)
  /\ UNCHANGED now

\* The flow has an entry: the first one is refreshed, by a new clock reading.
Refreshed_CountsTwice(e, t) == [e EXCEPT !.sec = t, !.packets = @ + 2]
Refreshed(e, t) == [e EXCEPT !.sec = t, !.packets = @ + 1]

Refresh(f) ==
  /\ Receive(f)
  /\ flow_count # 0 /\ Of(f) # {}
  /\ now' \in {now, now + 1} /\ now' <= End
  /\ Expire([flow_linger EXCEPT ![FirstOf(f)] = Refreshed(@, now')], flow_count, wrapped)

\* The flow has none: it is written to every unused slot, the loop goes on.
Target_LastOnly(s) == s = Slots - 1 /\ flow_linger[s].sec = 0
Target_Any(s) == s = 0 \/ flow_linger[s].sec = 0
Target(s) == flow_linger[s].sec = 0

Insert(f) ==
  /\ Receive(f)
  /\ flow_count # 0 /\ Of(f) = {}
  /\ LET targets == {s \in Slot : Target(s)} IN
       Expire([s \in Slot |-> IF s \in targets THEN New(f) ELSE flow_linger[s]],
              flow_count + Cardinality(targets), wrapped)
  /\ UNCHANGED now

Packet(f) == StartTable(f) \/ Refresh(f) \/ Insert(f)

Next == Tick \/ \E f \in Flow : Packet(f)

Spec == Init /\ [][Next]_vars

-----------------------------------------------------------------------------
(* Properties.                                                             *)

\* After a packet no entry is older than two seconds: what the control loop
\* reads are flows that were alive when the latest packet came.
OnlyRecentFlows == \A s \in InUse(flow_linger) : last - flow_linger[s].sec <= 2

\* The packet count of an entry never exceeds the packets the flow has had,
\* although entries are made several times over, overwritten and refreshed.
NeverOvercounted ==
  \A s \in InUse(flow_linger) : flow_linger[s].packets <= seen[flow_linger[s].flow]

\* Until it wraps flow_count errs on one side only: it never exceeds the slots in
\* use, so a positive count means that there is a flow.  Lowered for the unused slots
\* by every packet, the int passes its least value in the end (after 2.4e8 packets of
\* a flow that has nine unused slots beside it) and then says nothing, until it happens
\* to be 0 and is set to 1.
CountIsLow == ~wrapped => flow_count <= Cardinality(InUse(flow_linger))

\* A packet never takes the entry of another flow that was alive in the last
\* two seconds, but for slot 0 when flow_count happens to be zero.
RecentStays ==
  [][\A s \in InUse(flow_linger) :
        \/ flow_linger'[s] = flow_linger[s]
        \/ flow_linger[s].flow = latest'
        \/ last' - flow_linger[s].sec > 2
        \/ s = 0 /\ flow_count = 0]_vars

\* The flow of a packet is in the table afterwards, unless the table was full of
\* other flows or the second changed while the entry was refreshed.
PacketIsTracked ==
  [][\A f \in Flow : Packet(f) =>
        \/ \E s \in Slot : flow_linger'[s].flow = f
        \/ Of(f) = {} /\ InUse(flow_linger) = Slot
        \/ now' # now]_vars

\* "if(flow_count == 0)//no data in flow_linger" (flow.c:854).
ZeroMeansNoData == flow_count = 0 => InUse(flow_linger) = {}
=============================================================================

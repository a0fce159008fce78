# A verification of the access-point measurement and control system

TLA+ models of the parts of this repository that keep state shared by several
actors, the TLC runs that check them on small instances, and proofs, checked by
TLAPS, of what matters most for every size.

Line numbers are those of the repository's files. Where a file exists in several
copies the models follow the latest one: `project/` for the access point,
`EXP/receive.c` for the collector. (`backup/`, `home_compute/` and `sendudp/` hold
copies; `status.c`, `scan.c`, `sch_generic.c` and `sch_fq_codel.c` are the same in
`backup/` and `home_compute/` as in `project/`. `project/` has no `codel.h`; the model follows
`backup/codel.h`, and other copies are in the root and in `home_compute/`.)

## 1. Inventory

```
        access point (kernel)                         server
  mac80211 tx ── list of drops ─┐
  codel ──────── list of drops ─┤  timer      UDP 6667  ┌ receive1 ┐
  driver ─────── stations ──────┼─ callback ───────────>│   pool   │─ processor ─ decode_* ─ lists
  scan ───────── beacons ───────┘ (sendudp.c)           │  (ring)  │                          │
  datapath flow ─ flow_linger ── UDP 6666 ─────────────>└ receive  ┘                    format_data
                                     │
                                 netlink: recv_cb <──── main_linger (ofproto.c) <── handle_msg
                                                         │ one session per tree      (tree pushed
                                                         └─ UDP 7777 ─> cwnd server   by Ryu app)
```

| Component | State | Operations | What is hard | What makes it correct |
|---|---|---|---|---|
| Dropped packets: `status.c`, `codel.h`, `sch_fq_codel.c`, `get_information` | two lists with head, tail, `last_call`, a flag; time watermarks | append on a drop; hand over in the timer; delete on a later drop | transmit path and timer share the list without a lock; deletion is deferred through a flag | no freed or null node followed; nothing freed unread; every drop reported once, in order, in the end |
| Stations: `compare_and_iwlist` | `linkinfo` (windows of samples), `iwp.link` (rates) | one turn per station and tick: find, store, rate, age, take over | rings, takeover by another station, entries written several times over | a window belongs to one station; samples in order; rates recent |
| Flow table: `flow.c` | `flow_linger`, `flow_count` | find/refresh, insert, expire on each TCP packet | counter that drifts, copies, unsigned ages | only recent flows; never overcounted; a live flow is not displaced |
| Control session: `main_linger` and `recv_cb` | netlink socket and its queue, table of links, what was read so far | open, request, replies, read, search, command, close | replies are not matched to requests; the table changes between two passes; a blocking read in the switch's main thread | decisions on fresh replies; nothing left for the next session; sessions end |
| Collector pool: `receive`, `receive1`, `g_mes_tn_process` | ring `buffer_pool`, `head`, `tail`, `mutex_pool` | store, take | test outside the mutex; no check for a full ring | first-in first-out, nothing twice, every datagram decoded |
| Collector sequences: `flow_seq_list` | table of flows with lists of numbers | SYN inserts, FIN clears, ACK records, counts and forgets | eviction, markers 0 and -1 that are also numbers, clocks of several access points | a segment is counted if and only if its number is open |
| Collector rings of times: `retrans_times`, `winsize_times`, `format_data` | two rings, head written by the decoder, tail by `format_data`; the file of training data | store a time; per round take a retransmission, else the packets that are due | a ring compared by `head > tail`, no check for a full one, a batch that counted before | marks and lines in order; nothing read that was not stored; nothing starves |
| Collector samples: `decode_queue`, `decode_survey`, `format_data` | lists of samples, lists of items with `q_p_last` | append; trim and compute an item; look an item up for a packet and free the old ones | the decoder appends to the list whose head `format_data` frees; `q_p_last` may be freed or not the last | a packet is paired with an item of its time; no freed node followed |
| Collector neighbours and stations: `decode_beacon`, `decode_iw` | `neibour_lists`, `station_lists`, the number in the head | walk and remove the old, enter the new; `format_data` reads the number | removal during the walk, unsigned ages, a reader without the mutex | names once, `l_last` the end, who was heard is listed |
| Queue samples and states: `compare_and_queue`, `recv_cb` | ring `apstates_global` | advance, fill, sum up | wrap of the ring, slots skipped | rates and maxima of the same samples |
| Neighbours: `scan.c`, `compare_and_beacon` | list of beacons, table of neighbours | insert, time out, walk | frees during a walk on another CPU | the list stays well formed |
| Decision tree: `ofproto.c` | a tree built from rows of text; a vector of 31 values | parse, join, fill, search | missing parameters and sons; fields in wrong places; a first row that is its own father | the leaf reached is the one the values select; the search ends |
| Public buffer: `write_2_public_buffer` | a datagram being filled | append, send when full | in `sendudp.c` little, the callback is its only caller; in `flow.c` it is filled by softirqs without a lock | a record is whole |
| cwnd servers, Ryu application, scripts | none that others depend on | - | - | - |
| Open vSwitch, mac80211, qdiscs, `stateMachine/` | - | third party | - | - |

Every hazard found in this code is listed in `PROJECT.json` ("hazards") at the line
where it bites, with the properties that cover it, or the reason why none does yet.

## 2. The models

### DropHandoff, DropReport: the list of dropped packets

The transmit path appends a node per dropped packet (`TxDrop`, `AppendHead`/`FillHead`,
`AppendNode`/`MoveTail`: `ieee80211_tx_status`, `status.c:1080-1150`, and, with the same
scheme, `codel_dequeue`). The timer callback takes `last_call` and the head (`Poll`,
`PollReturn`: `dpt_mac_linger` or `dpt_queue_linger`), walks the list and sends what is
later than its watermark (`WalkNode`), and raises the flag (`WalkEnd`). The next drop
that sees the flag deletes the list up to `last_call` (`FreeNode`, `FreeLoopEnd`,
`Settle`: `delete_before_last_call`). One action is one access to shared memory that the
other handler can tell apart; nodes are numbered by allocation, so a freed node is never
mistaken for a new one; following a node that is not live or not filled in is undefined
behaviour, sets `fault` and stops the model.

The two lists differ in one thing: `dpt_queue_linger` returns at once while the flag is
raised, `dpt_mac_linger` does not. `guarded`, chosen in `Init`, selects the list, and
`serial`, chosen there too, whether the handlers exclude each other (softirqs of one CPU)
or every step interleaves; one run covers the four cases. There is one transmit handler in
all of them: two CPUs that complete packets, or dequeue from codel, at the same moment are
not modelled.

`DropReport` says what the pair promises: the stamps of the drops, each once, in order
(drops with the same stamp go out as one record).

- **drop** (5 drops, 267,264 states). With `serial`: `HandoverIsSafe` (no bad node is
  followed or freed, neither error `printk` is reached), `ImplementsReport`,
  `DropsReported`. Without, up to the first undefined behaviour: the stamps still go out
  once and in order (`ReportedInOrder`), and on codel's list deletion and walk never meet
  (`DeleteExcludesWalk`), by the flag alone. `HandoverIsSafe` is *not* claimed there: for
  `status.c`'s list a callback may move `last_call` during a deletion, and the loop
  then runs past it.
- **drop_leak** (3 drops, a violation): see Findings.

Five drops allow a complete round of append, poll and delete with drops before and
after, and a second one that begins with what the first left; a node takes part in one
round, and a round hands to the next only the list, `last_call`, the flag and the
watermark.

### CollectorPool, DatagramQueue: the collector's ring

Two receivers (`Recvfrom`, `Lock`, `Store`, `Advance`, `Wrap`, `Unlock`) and one processor
(`Test` without the mutex, `ProcessorLock`, `Fetch`, `ProcessorUnlock`, `Process`).
`tail` is assigned twice per datagram (`+=`, then the modulo), and the processor may read
it in between, so `Advance` and `Wrap` are two actions. Offsets are counted in slots.
`paced`, chosen in `Init`, restricts the environment to bursts that stay less than a lap
ahead: nothing in the code ensures it, and the run shows both sides.

- **pool** (4 slots, 10 datagrams, 6,295 states). Paced, the ring implements the queue
  `DatagramQueue` (`ImplementsQueue`), and what is stored is decoded in the end
  (`StoredIsProcessed`), in spite of the unlocked test. With bursts of any length
  datagrams are lost, but only in whole laps, and never decoded twice or out of order
  (`LostInLaps`). A ring that is exactly full looks empty until the next datagram; the
  run reaches this.

Ten datagrams lap a ring of four slots twice, with two to spare.

### ControlSession: main_linger and recv_cb

A tree pushed to the switch starts a session (`Begin`). `sendto` runs `recv_cb` in the
kernel: `ReplyNone`, or `ReplyStates` with the number of links, then `ReplyLink` slot
by slot. `main_linger` reads (`Await`, `ReadLink`, `ReadEnd`), searches the tree for each
link (`Found`/`NotFound`, any answer), asks for the flows of a flagged one (`ReplyFlow`),
reads ten messages and throttles what matches (`ReceiveFlow`), and closes the socket
(`ReceiveEnd`). `Timer` is the callback that rewrites the table of links. A session that
flags nothing leaves the socket open for the next one; a session that flags a link closes
it inside the loop. `OpenFails` is `socket()` or `bind()` failing.

An entry of `flow_linger` is its flow and the station among its addresses; what the ten
slots hold when they are sent is any choice, copies of one flow included, since
FlowTable shows that a new flow fills every unused slot. `reported` records, for the
properties, what was found in each slot. Nothing in `main_linger` compares the flows of two
messages, so the run has one flow: every further one would behave the same.

`calm`, chosen in `Init`, is a quiet environment: the table changes between sessions only
and stays below TEN, bind succeeds, at most one link of a session is flagged.

- **control** (2 stations, TEN = 3, 2 sessions; 471,985 states). Calm:
  `AnswersAreFresh`, `LinksAreTheTable`, `SessionEnds`, the socket is empty at the end
  of a session (`NothingLeftBehind`), and every flow of the flagged station has its command
  (`CommandsAreTheSlots`). In any environment: no flow is left for another session (the
  other part of `NothingLeftBehind`), and the commands of one flagged link are one at most
  for a slot, in the order of the slots, each for the flow that was found there (the
  other parts of `CommandsAreTheSlots`).

Commands are one for a slot, not one for a flow: copies are not merged anywhere
(`flow.c:886-905`, `ofproto.c:654-712`), so a flow alone in the table is throttled once for
each of its copies, up to TEN times, by one flagged link.

The code relies on the conditions of `calm` and does not ensure them, and the properties
that assume `calm` do not cover what happens without them: with a table that changes
during a request, exactly TEN links or a failed bind, replies are left behind or awaited
for ever, and with a second flagged link its recvfrom fails on the closed socket and the
last flow is throttled up to TEN times. The last condition is the hardest to meet: a proper
tree flags every link (see DecisionTree), so it holds with one link or with a tree that
asks for unknown parameters. Two sessions are enough because all that one leaves to another
is the socket, its queue and the table. TEN = 3 leaves room for none, one or two links
below the limit, and for TEN.

### DecisionTree: init_linger_m, create_tree, bst_search

The rows of the message come one by one (`ReadRow`); the sons of a row are the first two
rows behind it that name it as their father (`lchild`, `rchild`: `find_lchild`,
`find_rchild`). What `create_tree` makes of a row depends on that row and the later ones
only, so a tree node is the number of its row. `Fill` is the vector of `main_linger` for a
link, `Descend`, `NotKnown`, `Arrive`, `ArriveNowhere` are `bst_search`, `SessionEnd` is
`destroy_everything`. `role` says which parameters are filled with the kernel's value;
eleven of the thirty are "misplaced": `neibours`, `inactive_time`, `rx_bytes` and six more get
their name, while their value is written to `station_count` or `qfrequeues`
(`ofproto.c:570`, `612-630`), so the tree reads what was on the stack, or 0, for the nine,
and one of their values for the two.
`project/tree.csv` asks for `neibours`, `expected_throughput`, `station_count` and
`qfrequeues`.

- **tree** (rows up to five, two parameters, one of them misplaced or unknown, values at
  and above the threshold; 1,608,590 states): `AnswerIsTheLeaf` against the least set of
  rows that the values lead to; `NullIsMalformed`; `SearchEnds`, although the first row
  names itself as its father, as that of `tree.csv` does. Five rows are a tree with two
  inner nodes, in every order, and every incomplete one.

`NullIsMalformed` says what the code makes of an answer: the class of a leaf is never
looked at, so every tree that is proper and asks for parameters of the vector flags every
link.

### FlowTable: flow_linger

`Packet(f)` is the TCP branch of `key_extract` (`flow.c:802-917`) as a whole, in its
three cases `StartTable` (`flow_count` is 0), `Refresh`, `Insert`, each with the loop that
expires old entries (`Expire`). The clock is read twice for a refreshed entry, so the
second reading may be a second later; ages are unsigned (`% Wrap`). The loop expires
unused slots too, again and again, and lowers `flow_count` for each, and an insertion
fills every unused slot: the model keeps both. `flow_count` is an int and wraps (`AsInt`;
`Half` is 2^31): lowered by every packet for the unused slots, it does so after some 2.4e8
packets. `wrapped` records that it has, since it was last set to 1.

- **flow_table** (3 flows, 3 slots, 3 packets of a flow, seconds 10 to 14, Half = 4; 249,080
  states): `OnlyRecentFlows`, `NeverOvercounted`, `CountIsLow`, `RecentStays`,
  `PacketIsTracked`: what can be trusted in spite of the copies and the counter. Five
  seconds let an entry be made, expire after two, and be made again; as many flows
  as slots let the table fill with different flows; with Half = 4, little more than the
  slots, three packets make the counter wrap. `CountIsLow` holds until then only: after the
  wrap a counter is above the slots in use, which the run reaches, and the other
  properties hold all the same. The run ends when packets and clock are used up
  (`CHECK_DEADLOCK FALSE`).
- **flow_zero** (a violation): see Findings.

### StationLinks: compare_and_iwlist

`Poll` is a tick with the stations the driver lists; each is processed by one turn of
the loop (`Found`, `NotFound`). A sample stands for its counters by station and time, a rate
for the pair of samples it came from. `TakenOver` advances the tail without the modulo,
as `sendudp.c:1164` does; a read past the end of the window (`FoundOverrun`) sets `fault`
and stops the model. `found1` is not reset between stations, as in the code.

- **links** (2 stations, 2 windows of 4 places, 475,340 states up to renaming of the
  stations): `OneWindowPerStation`, `WindowInOrder`, `RecentKeepsWindow`,
  `RatesAreRecent`. Steps of 1 and 6 ticks (2 to a second) let windows
  fill and wrap, and go stale in one step; 13 ticks are enough to fill a window, lose
  it to the other station, and overrun it. Stations are interchangeable: no definition
  and no property orders or names them, and no temporal property beyond single steps is
  checked, so the symmetry is sound.

After a takeover the samples of the former station stay in the window, and the rate of the
new one is computed against them until they have left it: `RatesAreRecent` says that a
rate comes from a sample, not from one of the same station.

### FlowSequences, RetransLog: the collector's sequence numbers

`Syn`, `Fin`, `Ack`, `Rst` are the branches of `decode_winsize` (`receive.c:542-564`), with
`insert_flow_info` (`Inserted`), `clear_flow_info` (`Cleared`) and `ack_flow_info`
(`Tracked`, `Hits`, `Acknowledged`) as a whole. `Message` is any flags, direction, number,
acknowledgement and clock. `RetransLog` is the promise: a set of open numbers for each
flow, a segment counted exactly if its number is open, numbers forgotten only when
acknowledged or with the flow. The promise ends at the first message the table has no
room for (an eviction, a repeated SYN, a full list, a number that is a marker): `trusted`
becomes FALSE then, which is `RetransLog!GiveUp`; `trusted` and `message` are ghosts.

- **sequences** (both directions of one connection, 2 entries of 2 numbers, numbers 0 to 3
  with 3 for the largest, two clock readings; 219,422 states): `ImplementsLog`, and,
  whatever the stream, `UnusedIsBlank` and `OnlyHandshakesDouble`: a flow gets a second
  entry from a repeated handshake and from nothing else. Two entries are full with
  one connection, so a repeated handshake evicts; two numbers fill a list with one
  retransmission to spare.

The log says nothing of what the code does beyond its room: the numbers an evicted flow
leaves to its successor, the entry that a second one hides, a segment numbered 0. What goes
at an eviction is the entry with the smallest time of a message, the first of them when
times are equal, and messages carry the clocks of several access points: it need not be
the one entered first. Nor does the log look at ages: it may forget any number that was
acknowledged, and the code, whose ages are unsigned, forgets one too early when a message
carries an earlier time.

### FormatRings: retrans_times, winsize_times and the loop of format_data

The decoder stores the time of every TCP packet (`Packet`) and of every retransmission
(`Retransmission`). A round of `format_data` (`Round`) takes one retransmission if it is
due (`ReadRetrans`), else it counts the packets (`Amount`) and takes those that are due
(`TakePacket`), writing a line for each (`Line`), with packets skipped behind it; `Final`
writes a line for the time still at hand. A line is marked drop in a round that has read a
retransmission (`Marked`). Such a round has no packets, with one exception the model keeps:
a segment numbered 0 is found in the free places of its flow, whose second is 0
(`receive.c:795-805`), and 0 is also the sign for "no retransmission" (`1889`), so the
packets have their turn and a whole batch of lines is marked. What the sections on the
samples leave is `horizon`, up to which the lists have items, and `paired`. `Line` skips
any number of packets, since the code subtracts with seconds and microseconds exchanged,
and then counts again what is left of the batch (`Left`).

- **format_rings** (rings of 3, packets of 2 seconds, retransmissions of second 0 or 2, up to
  4 times in each; 814,988 states): `RetransOnce` (marks in the order of the
  retransmissions, one each but for those of second 0), `NoMoreThanStored`, `NeverBack`,
  `FirstLapIsRead`. Four times lap a ring of three. The retransmissions of second 2 wait
  where packets of second 1 pass.

`head > tail` is all that is asked, and the count behind the wrap compares where it should
subtract (`1867`, `1896`): once a tail stands at the end of its ring it stays there, and
either ring is read once in the life of the program. That is a defect, of which no property
speaks; `FirstLapIsRead` is what is left of liveness. The writer does lap the reader; then
whole laps are lost.

### FormatLists: samples and items

`kind` is one of three lists handled by the same code (queue 3, the root queue f, the
survey), chosen in `Init`. `Decode` appends a sample; `Section` trims the list when it
spans 900 ms and computes an item (`AppendItem`, `InsertItem`); `Take` and `RoundEnd` look an
item up for a packet and free the old ones (`Freed`). `at` is the place of `q_p_last` in the
chain of items, 0 when its node has been freed. `attended` is an environment in which no
packet is more than OLD seconds later than the last item, and every list has a sample before
the one handled before it spans 900 ms (queue 3 before f, f before the survey).

- **format_lists** (5 samples, 6 times of 2 to a second, OLD = 0; 572,441 states):
  `OrderedBySecond`, `NeverEmptied`, `TakenIsPaired`; and `NoFault` when attended.
  Unattended, the run reaches the null pointer (`receive.c:1729`, `1799-1806`) and the use of
  the freed `q_p_last`: `NoFault` covers neither, it says that there is no third fault. Five samples make up to
  four items, enough to insert before, behind and at `q_p_last`, and to free.

The run also reaches what is no property: an item earlier than all others is lost, and an
append cuts off what an insertion had put behind `q_p_last`.

### NeighbourLists: decode_beacon, decode_iw

One list, whose `kind` says which handler; a turn of the walk is a step (`Keep`,
`RemoveOnly`, `RemoveHead`, `RemoveTail`, `RemoveMiddle`), `Enter` refreshes or appends.
`Format_data` tests, loads and reads the head in three steps, without the mutex. `ordered`
and `alone`, chosen in `Init`, say whether samples come in order of time and whether
`format_data` reads between two samples only.

- **neighbours** (4 names, AGE = 1, seconds 0 to 2, 7 samples; 394,546 states up to
  renaming of the names): `ListIsWellFormed`, `FreshAreListed` (ordered), `OldAreHalved`,
  `FaultsAreOfStations` (alone). Three removals of four different nodes cover head, middle,
  tail and only node, and the skipped successor. The names are interchangeable, and no
  property orders or names them.

The walk advances twice after a removal in the middle, so old neighbours stay
(`OldAreHalved` bounds how many); the number in the head is lost with the head. A sample
that is not in order makes every later node look old and empties the list. In the list
of stations the second sample of a station follows a null pointer and a removal behind
the head frees twice (`FaultsAreOfStations` says how far it gets), and a reader that is
not alone may follow a freed or null head.

### Bounds and fairness

The bounds are `MaxDrops`, `MaxDatagrams`, `MaxSessions`, `MaxPackets`, `MaxRows`,
`MaxTimes`, `MaxSamples`, `MaxTime`, `MaxSec`, `End`, `LastTick` (clocks), `Half` (an int's
range, half of it) and the sizes of tables; each is a CONSTANT with a named assumption. Fairness is assumed
where the code schedules itself:

- DropHandoff: a handler that was entered finishes (`WF(FinishTx)`), the timer callback
  re-arms itself (`sendudp.c:803-811`) and finishes (`WF(RunCallback)`). Nothing obliges
  a packet to be dropped.
- CollectorPool: a thread that can run does (`WF(Busy(r))`, `WF(Processor)`; the threads are
  endless loops of `start_threads`). No datagram need arrive. Weak fairness is enough
  for the mutex because a burst is finite.
- ControlSession: the switch's main thread goes on while it can (`WF(Proceed)`); trees
  need not be pushed.
- DecisionTree: a search that was entered goes on (`WF(Bst_search)`); links and messages need
  not come.
- FormatRings: `format_data` is a thread that loops for ever (`WF(Format_data)`); nothing
  need be stored.

Every module states its type invariant (`TypeOK`). Where it is proved for every size no
run repeats it. Two modules that a proof module extends together name their parts apart: the
initial states, the steps and the specification of StationLinks are `LinksInit`,
`LinksNext`, `LinksSpec`, its type invariant `LinksTypeOK`; those of NeighbourLists
`NeighboursInit`, `NeighboursNext`, `NeighboursSpec`, `NeighboursTypeOK`.

The other modules have no liveness property and no fairness.

## 3. Findings

- **drop_leak / ReadStructuresDeleted** (`status.c:966`). "give a sign (read_lin) to
  delete structures when data are read." (`sch_fq_codel.c:54`): when the list holds
  nothing behind `last_call`, `delete_before_last_call` empties it without freeing
  `last_call`. One node leaks whenever the callback read the whole list.
- **flow_zero / ZeroMeansNoData** (`flow.c:854`). The branch "no data in flow_linger" is
  taken with live flows in the table, since the counter is lowered for unused slots
  too; slot 0 is overwritten.

## 4. Proofs

The named assumptions on the constants (`DropAssumption`, `PoolAssumption`,
`ControlAssumption`, `FlowAssumption`, `LinksAssumption`, `SequencesAssumption`,
`RingsAssumption`, `ListsAssumption`, `NeighboursAssumption`, `TreeAssumption`) are all that the theorems take as given; TLC
evaluates them in the runs. The environments `serial`, `paced`, `calm` and `attended` are
variables that the invariants mention, so one theorem covers the environment and its
absence; so is `trusted`, the ghost that ends the promise of RetransLog.

| Theorem | Statement | Argument |
|---|---|---|
| `DropHandoffProofs!TypeCorrect` | `Spec => []TypeOK` | TypeOK needs `Room`: the nodes allocated stay below the bound while an append is under way |
| `FlagExcludes` | `Spec => []DeleteExcludesWalk` | `FlagInv`: on codel's list a deletion has the flag raised, so no walk can begin, and a walk that began has it lowered |
| `SerialSafe` | `Spec => []HandoverIsSafe` | `SerialInv`: that alone is not inductive; what carries it is the shape of the list at rest (`IdleInv`), during deletion (`FreeInv`) and append (`AppendInv`), stated with `Chain`: from a node on, consecutive nodes, all live, to the last packet |
| `StampsInOrder` | `Spec => []ReportedInOrder`, every interleaving | `OrderInv`: a node that was sent had been filled in, is not stamped again, and its stamp is not above the watermark; only what is above the watermark is sent, and from a live node |
| `HandoffIsReport` | `Spec => ImplementsReport` | `ReportInv`, when the handlers exclude each other: the nodes carry the stamps of the drops (`StampInv`), those deleted have been sent (`DeletedInv`), the walk has sent all before its cursor (`WalkInv`), the watermark is the last stamp sent (`WatermarkInv`); a step that sends is a step of the report, any other a drop or a stutter |
| `CollectorPoolProofs!TypeCorrect` | `Spec => []TypeOK` | `RingInv`: who is in the critical section holds the mutex (`MutexInv`), tail is the number stored modulo the ring but for the moment between its two assignments (`TailInv`), head the number taken (`HeadInv`) |
| `PacedRingIsQueue` | `Spec => ImplementsQueue` | `QueueInv` adds that those who hold a datagram are counted (`CountInv`), fewer than a lap is outstanding (`PaceInv`), what was taken is 1, 2, 3, ... (`TakenInv`), and the last lap stored is in its slots (`ContentInv`); the unlocked test errs only by finding work that is there |
| `OverrunsLoseLaps` | `Spec => []LostInLaps` | `LapInv`, with no bound on the receivers: the slot of number n holds the latest number stored that is n modulo the ring (`ContentInv`), and the last one decoded is no later than what head may find next (`LastInv`) |
| `ControlSessionProofs!TypeCorrect` | `Spec => []TypeOK`, every environment | `SessionInv`: where a session stands (`PlaceInv`), that only a bound socket queues and flows only while they are asked for (`QueueInv`), and that queued flows are behind those commanded, by slot (`CommandInv`) |
| `FreshAnswers`, `NothingIsLeft`, `LinksAreRead` | `AnswersAreFresh`, `NothingLeftBehind`, `LinksAreTheTable` | `CalmInv`: in a calm environment what was read and what is queued are together the reply of `recv_cb` up to the slot it is at, message by message (`StepInv`), all of this session (`FreshInv`); counting the used slots below a slot gives the place of its link |
| `CommandsOfSlots` | `CommandsAreTheSlots` | the order from `SessionInv`; `EntryInv`: what is queued or commanded is what was found in its slot; `FlowInv`, calm: the queue is the flows of the slots not yet read, and those read have their commands |
| `KernelTablesProofs!TypeCorrect`, `CountLow`, `RecentFlows`, `Undercounted` | the type, `CountIsLow`, `OnlyRecentFlows`, `NeverOvercounted` | one invariant, `TableInv`; entries not later than the clock are what makes the unsigned age the true age; expiring a set of slots lowers the counter by its size and the slots in use by no more, so the counter stays low while it is stored unchanged |
| `RecentFlowsStay`, `PacketsAreTracked` | `RecentStays`, `PacketIsTracked` | step properties, from the same invariant; a slot that a packet writes is unused, outdated or of its own flow, and what was just written is not outdated for a clock that stands still |
| `KernelTablesProofs!LinksTypeCorrect`, `WindowsAreUnique`, `WindowsInOrder` | `LinksTypeOK`, `OneWindowPerStation`, `WindowInOrder` | `LinksInv`: a window is blank or its latest sample is its station's, in order (`InOrder`), with the second it is marked with, or it was given up and its station silent for more than two seconds (`WindowGood`); the stations still to come in the callback were not sampled in it (`ListInv`), which is what keeps the times strictly ascending. One lemma, `PushedInOrder`, for the sample that is stored and the one that takes over: a full window drops its first, whose place is the one after head |
| `RecentKeeps`, `RecentRates` | `RecentKeepsWindow`, `RatesAreRecent` | step properties, from the same invariant with `RateInv`: an entry without a time is blank, and the first of a station is its latest, which deletion keeps because it goes by time alone |
| `CollectorTablesProofs!TypeCorrect`, `UnusedStaysBlank` | the type, `UnusedIsBlank` | `TableInv`: a blank unused entry is kept because numbers are recorded and forgotten only in entries of a flow |
| `HandshakesDouble` | `Spec => OnlyHandshakesDouble` | a step property, from the same invariant; clearing and acknowledging give no flow an entry, and a segment makes one only for a flow that has none |
| `TableIsLog` | `Spec => ImplementsLog` | `LogInv`: while the stream is trusted a flow has one entry at most (`Single`), and a list has each number once and no marker (`CleanList`), so the first entry and the first free place are the only ones that matter; one lemma for each operation on the table, and one for each kind of message |
| `CollectorTablesProofs!NeighboursTypeCorrect`, `WellFormed` | `NeighboursTypeOK`, `ListIsWellFormed` | `NeighboursInv`, every clock and reader: the walk is at a node, and a sample is entered in an empty list only after a removal (`HandlerInv`); a node's time is the one its name was entered with (`HeardInv`). The four removals are one operation on a sequence (`RemovalKeeps`), refreshing and appending another (`EnteredKeeps`); that `l_last` is the end is why a removal in the middle has a successor to skip to |
| `FreshListed` | `Spec => []FreshAreListed` | `HeardInv`, in order of time: whoever is fresh for the sample at hand has a node. Only a node that is old for the sample is removed, and its name's latest time is its own |
| `OldHalved` | `Spec => []OldAreHalved` | `HalvedInv`: of the nodes the walk has passed, no more are old than were removed; a removal in the middle passes one, and adds one to the count |
| `FaultsOfStations` | `Spec => FaultsAreOfStations` | a step property, from `ReaderInv`: a reader that is alone stands at a list that is not empty, between two samples |
| `FormatRingsProofs!TypeCorrect`, `TakenWereStored` | the type, `NoMoreThanStored` | `TailInv`: what was read is the tail of its ring, and the tail with the packets still counted stays below the length; `StoredInv`: before the ring wraps that sum is not above the head, which is then the number stored |
| `MarkedInTheirOrder` | `Spec => []RetransOnce` | `ReadInv`: what has been read lies before the lap that is being stored, place by place (`ReadPlaces`), and a mark is for the latest that was read (`MarkedRead`), which has no line before the end of its round unless its second is 0 (`MarkPending`); a place that is overwritten gets a number a whole lap later (`Filled`) |
| `LinesNeverBack` | `Spec => NeverBack` | a step property, from `LineInv`: what is not yet taken is less than a lap before the last line and before the packet at hand, and earlier than them only if the ring has been overrun (`Behind`) |
| `FormatListsProofs!TypeCorrect`, `ItemsAreOrdered` | the type, `OrderedBySecond` | the order alone is not inductive: `BehindLast`, what stands behind `q_p_last` has its second and an earlier time, is what keeps an append from breaking it |
| `AttendedIsSafe` | `Spec => []NoFault` | `PairInv`: there is an item before there is a lookup, and, attended, `q_p_last` is one of them |
| `SamplesStay`, `TakenArePaired` | `NeverEmptied`, `TakenIsPaired` | step properties, from the same invariant; a packet that is due is earlier than the last item by a second, so the lookup finds one and frees none from it on |
| `DecisionTreeProofs!TypeCorrect`, `LeafIsTheAnswer`, `ProperTreesAnswer` | the type, `AnswerIsTheLeaf`, `NullIsMalformed` | `SearchInv`: in a proper tree the search is at a row that the values lead to; `ProperSons`: the next two rows that name a father are its sons in a proper tree, ranked by counting |

Only model-checked: the liveness properties (`DropsReported`, `StoredIsProcessed`,
`SessionEnds`, `FirstLapIsRead`, `SearchEnds`), which the prover cannot treat under
fairness. Every invariant, action property and refinement that a passing run checks is a
theorem. There is no recursive operator in the project.

## 5. Not modelled yet, and the plan

In this order:

1. The ring of states, `compare_and_queue` with the rest of `recv_cb` (`sendudp.c:485`,
   `1189`), in the place of ControlSession's first reply.
2. The list of beacons (`scan.c`) and its walk in the timer: the same question as in
   DropHandoff, without a flag; `compare_and_beacon`'s table, whose loops never run (`1262`).
3. Wider environments for what is there: FlowTable with packets on several CPUs.

Of the collector's decoders `decode_drops`, which counts and logs, is left out. Of the
control program DecisionTree and ControlSession are not composed: ControlSession takes the
answer of the tree as any answer, which covers what DecisionTree allows.

Not planned, with the reasons in `PROJECT.json`: the third-party code around the changes
(Open vSwitch, mac80211, qdiscs, the state machine library), earlier copies, the cwnd
servers and the Ryu application (one request at a time, no state others depend on),
the offline scripts. Also left out within the models: the record formats and their
byte order, the survey and its copies, the log files, allocation failures.

## 6. How to run

In this directory, with the community modules and the TLAPS library on the path:

```
tlc -workers 2 -config DropHandoff.cfg DropHandoff.tla
tlapm DropHandoffProofs.tla
```

The other runs are named `<Module>_<run>.cfg`, or `<Module>.cfg` where a module has one
passing run. Each ends within a few minutes. A definition whose name has an underscore and a
second part (`Fresh_Ties`, `Full_Never`) is a faulty variant of the one that follows it:
put in its place it makes a run fail, which shows that the property depends on the code.

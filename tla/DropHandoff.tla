---------------------------- MODULE DropHandoff ----------------------------
(***************************************************************************)
(* The list of dropped TCP packets and its hand-off to the timer callback. *)
(*                                                                         *)
(* The transmit path (ieee80211_tx_status in project/status.c, and         *)
(* codel_dequeue in backup/codel.h, word for word the same scheme) appends *)
(* one node per dropped packet; the timer callback of project/sendudp.c    *)
(* walks the list, copies every node into the public buffer and raises a   *)
(* flag; the transmit path, on the next drop that finds the flag raised,   *)
(* frees the nodes up to the tail the callback saw.  No lock is taken.     *)
(*                                                                         *)
(* Nodes are numbered in the order of their allocation and 0 is the NULL   *)
(* pointer, so a freed node is never confused with a later one.  A         *)
(* dereference of a node that is not allocated, or not yet initialised,    *)
(* is undefined behaviour: it sets fault and the model stops there.        *)
(*                                                                         *)
(*   serial   the two handlers exclude each other (both run in softirq     *)
(*            context, one CPU); otherwise every step interleaves (SMP).   *)
(*            There is one transmit handler: two CPUs that append or       *)
(*            delete at once are left out.                                 *)
(*   guarded  the list of codel.h, whose dpt_queue_linger returns at once  *)
(*            while the flag is raised; otherwise the list of status.c,    *)
(*            whose dpt_mac_linger has no such test.                       *)
(***************************************************************************)
EXTENDS Integers, Sequences

CONSTANT MaxDrops       \* bound on the packets dropped

ASSUME DropAssumption == MaxDrops \in Nat

NULL == 0
Node == 1 .. MaxDrops
Pointer == 0 .. MaxDrops

VARIABLES
  guarded, serial,                        \* which list this is; one CPU or several
  p_linger, pkt_linger_last, last_call,   \* head, tail, tail seen by the callback
  readed_linger,                          \* "the callback has read the list"
  next, stamp,                            \* fields of the nodes
  live,                                   \* nodes allocated and not freed
  allocated, filled,                      \* kmalloc calls, nodes initialised
  clock,                                  \* do_gettimeofday
  tx, ptr,                                \* transmit path: its place, its cursor
  cb, cursor,                             \* callback: its place, its cursor
  watermark, reported,                    \* last_sec/last_usec_drop_mac; nodes sent
  fault, complaint                        \* undefined behaviour; printk of an error

list == <<p_linger, pkt_linger_last, last_call, readed_linger>>
memory == <<next, stamp, live, allocated, filled, clock>>
sent == <<watermark, reported>>
setting == <<guarded, serial>>
vars == <<setting, list, memory, tx, ptr, cb, cursor, sent, fault, complaint>>

ListType ==
  /\ p_linger \in Pointer /\ pkt_linger_last \in Pointer /\ last_call \in Pointer
  /\ readed_linger \in BOOLEAN

NodeType == next \in [Node -> Pointer] /\ stamp \in [Node -> Nat]

HeapType ==
  /\ live \in SUBSET Node
  /\ allocated \in Pointer /\ filled \in Pointer
  /\ clock \in Nat

PlaceType ==
  /\ tx \in {"idle", "free", "settle", "append", "head", "tail"}
  /\ cb \in {"idle", "dpt", "walk"}
  /\ ptr \in Pointer /\ cursor \in Pointer

OutcomeType ==
  /\ fault \in {"none", "null pointer", "freed node", "uninitialised node"}
  /\ complaint \in {"none", "unable to understand", "no last packet"}

SentType == watermark \in Nat /\ reported \in Seq(Node)

SettingType == guarded \in BOOLEAN /\ serial \in BOOLEAN

TypeOK == /\ SettingType
          /\ ListType /\ NodeType /\ HeapType /\ PlaceType /\ OutcomeType /\ SentType

Init ==
  /\ guarded \in BOOLEAN /\ serial \in BOOLEAN
  /\ p_linger = NULL /\ pkt_linger_last = NULL /\ last_call = NULL
  /\ readed_linger = FALSE
  /\ next = [n \in Node |-> NULL] /\ stamp = [n \in Node |-> 0]
  /\ live = {} /\ allocated = 0 /\ filled = 0 /\ clock = 1
  /\ tx = "idle" /\ ptr = NULL /\ cb = "idle" /\ cursor = NULL
  /\ watermark = 0 /\ reported = <<>>
  /\ fault = "none" /\ complaint = "none"

Fault(n) == IF n = NULL THEN "null pointer"
            ELSE IF n \in live THEN "uninitialised node" ELSE "freed node"

-----------------------------------------------------------------------------
(* Transmit path: a TCP packet that was not acknowledged, or was dropped.  *)

TxDrop ==
  /\ tx = "idle" /\ (serial => cb = "idle")
  /\ allocated < MaxDrops
  /\ \/ /\ readed_linger
        /\ tx' = "free" /\ ptr' = p_linger
     \/ /\ ~readed_linger
        /\ tx' = "append" /\ UNCHANGED ptr
  /\ UNCHANGED <<list, memory, cb, cursor, sent, fault, complaint>>

\* delete_before_last_call: the loop over the nodes before last_call.
InLoop_ToTheEnd == ptr # NULL
InLoop == ptr # NULL /\ ptr # last_call

FreeNode ==
  /\ tx = "free" /\ InLoop
  /\ fault' = IF ptr \in live THEN fault ELSE Fault(ptr)
  /\ live' = live \ {ptr} /\ ptr' = next[ptr]
  /\ UNCHANGED <<list, next, stamp, allocated, filled, clock, tx, cb, cursor,
                 sent, complaint>>

FreeLoopEnd ==
  /\ tx = "free" /\ ~InLoop
  /\ tx' = "settle"
  /\ UNCHANGED <<list, memory, ptr, cb, cursor, sent, fault, complaint>>

\* delete_before_last_call: what follows the loop.
FlagAfterDelete_Up == TRUE
FlagAfterDelete == FALSE

FreeLastCall ==
  /\ ptr = last_call /\ last_call \in live /\ next[last_call] # NULL
  /\ p_linger' = next[last_call]
  /\ live' = live \ {last_call}
  /\ last_call' = NULL /\ readed_linger' = FlagAfterDelete /\ tx' = "append"
  /\ UNCHANGED <<pkt_linger_last, fault, complaint>>

EmptyList ==
  /\ ptr = last_call /\ last_call \in live /\ next[last_call] = NULL
  /\ p_linger' = NULL /\ pkt_linger_last' = NULL
  /\ readed_linger' = FlagAfterDelete /\ tx' = "append"
  /\ UNCHANGED <<last_call, live, fault, complaint>>

LastCallInvalid ==
  /\ ptr = last_call /\ last_call \notin live
  /\ fault' = Fault(last_call)
  /\ UNCHANGED <<list, live, tx, complaint>>

NotUnderstood ==
  /\ ptr # last_call
  /\ complaint' = "unable to understand"
  /\ readed_linger' = FlagAfterDelete /\ tx' = "append"
  /\ UNCHANGED <<p_linger, pkt_linger_last, last_call, live, fault>>

Settle ==
  /\ tx = "settle"
  /\ FreeLastCall \/ EmptyList \/ LastCallInvalid \/ NotUnderstood
  /\ UNCHANGED <<next, stamp, allocated, filled, clock, ptr, cb, cursor, sent>>

\* kmalloc of the first node: p_linger points to it before it is filled in.
AppendHead ==
  /\ tx = "append" /\ p_linger = NULL
  /\ allocated' = allocated + 1 /\ live' = live \cup {allocated'}
  /\ p_linger' = allocated' /\ tx' = "head"
  /\ UNCHANGED <<pkt_linger_last, last_call, readed_linger, next, stamp, filled,
                 clock, ptr, cb, cursor, sent, fault, complaint>>

\* The stamp is the present time: the clock may or may not have moved on.
FillHead ==
  /\ tx = "head"
  /\ \E t \in clock .. clock + 1 :
        clock' = t /\ stamp' = [stamp EXCEPT ![allocated] = t]
  /\ next' = [next EXCEPT ![allocated] = NULL]
  /\ filled' = allocated
  /\ pkt_linger_last' = p_linger /\ tx' = "idle"
  /\ UNCHANGED <<p_linger, last_call, readed_linger, live, allocated, ptr, cb,
                 cursor, sent, fault, complaint>>

\* A further node, filled in and then linked behind the last one.
AppendNode ==
  /\ tx = "append" /\ p_linger # NULL
  /\ allocated' = allocated + 1 /\ filled' = allocated'
  /\ \E t \in clock .. clock + 1 :
        clock' = t /\ stamp' = [stamp EXCEPT ![allocated'] = t]
  /\ live' = live \cup {allocated'}
  /\ next' = IF pkt_linger_last \in live
             THEN [next EXCEPT ![pkt_linger_last] = allocated', ![allocated'] = NULL]
             ELSE next
  /\ fault' = IF pkt_linger_last \in live \cup {NULL} THEN fault
              ELSE Fault(pkt_linger_last)
  /\ complaint' = IF pkt_linger_last = NULL THEN "no last packet" ELSE complaint
  /\ tx' = IF pkt_linger_last = NULL THEN "idle" ELSE "tail"
  /\ UNCHANGED <<list, ptr, cb, cursor, sent>>

MoveTail ==
  /\ tx = "tail"
  /\ pkt_linger_last' = allocated /\ tx' = "idle"
  /\ UNCHANGED <<p_linger, last_call, readed_linger, memory, ptr, cb, cursor,
                 sent, fault, complaint>>

-----------------------------------------------------------------------------
(* The timer callback: get_information of project/sendudp.c.               *)

\* The tail remembered for delete_before_last_call.
LastSeen == pkt_linger_last

DptMac ==
  /\ ~guarded
  /\ last_call' = LastSeen /\ cb' = "dpt"

DptQueue_NoTest ==
  /\ guarded
  /\ last_call' = LastSeen /\ cb' = "dpt"
DptQueue ==
  /\ guarded
  /\ \/ readed_linger /\ UNCHANGED <<last_call, cb>>
     \/ ~readed_linger /\ last_call' = LastSeen /\ cb' = "dpt"

Poll ==
  /\ cb = "idle" /\ (serial => tx = "idle")
  /\ DptMac \/ DptQueue
  /\ UNCHANGED <<p_linger, pkt_linger_last, readed_linger, memory, tx, ptr,
                 cursor, sent, fault, complaint>>

PollReturn ==
  /\ cb = "dpt"
  /\ cursor' = p_linger
  /\ cb' = IF p_linger = NULL THEN "idle" ELSE "walk"
  /\ UNCHANGED <<list, memory, tx, ptr, sent, fault, complaint>>

\* The watermark: only a record later than the last one sent is sent.
Fresh_Ties(n) == stamp[n] >= watermark
Fresh(n) == stamp[n] > watermark

\* One turn of the loop: the copy of *ptr, the watermark, ptr = ptr->next.
WalkNode ==
  /\ cb = "walk" /\ cursor # NULL
  /\ cursor \in live /\ cursor <= filled
  /\ \/ /\ Fresh(cursor)
        /\ watermark' = stamp[cursor] /\ reported' = Append(reported, cursor)
     \/ /\ ~Fresh(cursor)
        /\ UNCHANGED sent
  /\ cursor' = next[cursor]
  /\ UNCHANGED <<list, memory, tx, ptr, cb, fault, complaint>>

WalkInvalid ==
  /\ cb = "walk" /\ cursor # NULL
  /\ ~(cursor \in live /\ cursor <= filled)
  /\ fault' = Fault(cursor)
  /\ UNCHANGED <<list, memory, tx, ptr, cb, cursor, sent, complaint>>

\* destroy_after_transmitted_mac80211, destroy_after_transmitted_codel
WalkEnd ==
  /\ cb = "walk" /\ cursor = NULL
  /\ readed_linger' = TRUE /\ cb' = "idle"
  /\ UNCHANGED <<p_linger, pkt_linger_last, last_call, memory, tx, ptr, cursor,
                 sent, fault, complaint>>

-----------------------------------------------------------------------------
Transmit == TxDrop \/ FreeNode \/ FreeLoopEnd \/ Settle \/ AppendHead
              \/ FillHead \/ AppendNode \/ MoveTail
Callback == Poll \/ PollReturn \/ WalkNode \/ WalkInvalid \/ WalkEnd

Running == fault = "none"
Stopped == ~Running /\ UNCHANGED vars

Next == (Running /\ (Transmit \/ Callback) /\ UNCHANGED setting) \/ Stopped

Spec == Init /\ [][Next]_vars

\* A handler that was entered finishes; the timer re-arms itself (callback).
FinishTx == Running /\ tx # "idle" /\ Transmit /\ UNCHANGED setting
RunCallback == Running /\ Callback /\ UNCHANGED setting
FairSpec == Spec /\ WF_vars(FinishTx) /\ WF_vars(RunCallback)

-----------------------------------------------------------------------------
(* Properties.                                                             *)

\* With the handlers serial no step of either touches a freed, a NULL or an
\* uninitialised node, and none is freed twice: the walk of get_information and
\* the frees of delete_before_last_call never meet on one node.  Nor are the
\* branches taken that print "unable to understand" (status.c:972) and "Error in
\* codel dropped packet part" (status.c:1148): last_call is on the list when it is
\* freed, and a list with a head has a tail.
HandoverIsSafe == serial => fault = "none" /\ complaint = "none"

\* While the transmit path deletes nodes of codel's list the callback is not on it:
\* the flag read_lin, tested by dpt_queue_linger, is all that keeps them apart.
DeleteExcludesWalk == guarded /\ tx \in {"free", "settle"} => cb = "idle"

\* No time stamp is sent twice, and none after a later one, even when the list is
\* walked again or while it is being freed: the watermark survives every race.
ReportedInOrder ==
  \A i, j \in DOMAIN reported : i < j => stamp[reported[i]] < stamp[reported[j]]

\* "give a sign (read_lin) to delete structures when data are read"
\* (project/sch_fq_codel.c:54): when delete_before_last_call returns, every
\* node up to last_call has been freed.
ReadStructuresDeleted ==
  [][Settle => \A n \in live' : n > last_call]_vars

\* What the callback sends is what DropReport promises: each time stamp once,
\* in the order of the drops, whatever polls and deletions come in between.  On
\* several CPUs nothing is promised: those runs map to a report without drops.
Report == INSTANCE DropReport
            WITH Stamp <- 1 .. MaxDrops + 1,
                 drops <- IF serial THEN [i \in 1 .. filled |-> stamp[i]] ELSE <<>>,
                 reported <- IF serial
                             THEN [i \in DOMAIN reported |-> stamp[reported[i]]]
                             ELSE <<>>
ImplementsReport == Report!Spec

\* With the handlers serial the stamp of every dropped packet is eventually sent:
\* the list handed over is never stuck between a raised flag and a callback that
\* returns at once.
DropsReported ==
  \A n \in Node :
     serial /\ n <= filled ~> \E i \in DOMAIN reported : stamp[reported[i]] = stamp[n]
=============================================================================

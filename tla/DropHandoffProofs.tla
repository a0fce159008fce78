------------------------- MODULE DropHandoffProofs -------------------------
(***************************************************************************)
(* Proofs about DropHandoff, for any number of drops: type correctness;    *)
(* when the handlers exclude each other, no invalid pointer is ever        *)
(* followed, and what is sent is what DropReport promises; when            *)
(* dpt_queue_linger tests the flag, deletion and walk exclude each other   *)
(* under every interleaving; no stamp is sent twice or out of order.       *)
(***************************************************************************)
EXTENDS DropHandoff, TLAPS

\* The list from node m on: consecutive nodes, all live, up to the last packet.
Chain(m) ==
  /\ m \in 1 .. allocated
  /\ filled = allocated
  /\ m .. allocated \subseteq live
  /\ \A n \in m .. allocated - 1 : next[n] = n + 1
  /\ next[allocated] = NULL

\* An idle list: empty, or a chain from p_linger to pkt_linger_last.
ListInv ==
  \/ p_linger = NULL /\ pkt_linger_last = NULL /\ filled = allocated
  \/ Chain(p_linger) /\ pkt_linger_last = allocated

IdleInv ==
  tx = "idle" =>
    /\ ListInv
    /\ readed_linger => p_linger # NULL /\ last_call \in p_linger .. allocated
    /\ cb = "dpt" => last_call = pkt_linger_last
    /\ cb = "walk" => /\ p_linger # NULL /\ last_call = pkt_linger_last
                      /\ cursor = NULL \/ cursor \in p_linger .. allocated

FreeInv ==
  tx \in {"free", "settle"} =>
    /\ Chain(ptr) /\ pkt_linger_last = allocated
    /\ last_call \in ptr .. allocated
    /\ tx = "settle" => ptr = last_call

AppendInv ==
  /\ tx \in {"append", "head", "tail"} => ~readed_linger
  /\ tx = "append" => ListInv
  /\ tx = "head" => p_linger = allocated /\ allocated \in Node /\ allocated \in live
  /\ tx = "tail" => Chain(p_linger)

Exclusive == tx = "idle" \/ cb = "idle"

\* The inductive invariant of the serial case; with TypeOK.
SerialInv == /\ fault = "none" /\ complaint = "none" /\ Exclusive
             /\ IdleInv /\ FreeInv /\ AppendInv

-----------------------------------------------------------------------------
\* The few facts about nodes and pointers the type proof rests on.
LEMMA PointerFacts ==
  /\ NULL \in Pointer /\ 1 \in Nat /\ 0 \in Nat /\ 0 \in Pointer
  /\ Node \subseteq Pointer
  /\ Pointer \subseteq Nat
  /\ \A n \in Pointer : n # NULL => n \in Node
  /\ \A n \in Pointer : n < MaxDrops => n + 1 \in Node
  BY DropAssumption DEF DropAssumption, Pointer, Node, NULL

\* An append is under way only while the bound on drops leaves room for it.
Room == tx \in {"free", "settle", "append"} => allocated < MaxDrops

LEMMA InitTyped == Init => TypeOK /\ Room
<1> SUFFICES ASSUME Init PROVE TypeOK /\ Room
  OBVIOUS
<1>1. ListType
  BY PointerFacts DEF Init, ListType
<1>0. SettingType
  BY DEF Init, SettingType
<1>2. NodeType
  BY PointerFacts DEF Init, NodeType
<1>3. HeapType
  BY PointerFacts DEF Init, HeapType
<1>4. PlaceType /\ OutcomeType /\ Room
  BY PointerFacts DEF Init, PlaceType, OutcomeType, Room
<1>5. SentType
  BY PointerFacts DEF Init, SentType
<1> QED
  BY <1>0, <1>1, <1>2, <1>3, <1>4, <1>5 DEF TypeOK

LEMMA TransmitTyped == TypeOK /\ Room /\ Transmit /\ UNCHANGED setting => TypeOK' /\ Room'
<1> SUFFICES ASSUME TypeOK, Room, Transmit, UNCHANGED setting PROVE TypeOK' /\ Room'
  OBVIOUS
<1>0. SettingType'
  BY DEF TypeOK, SettingType, setting
<1> USE <1>0, PointerFacts DEF TypeOK, list, memory, sent
<1>1. CASE TxDrop
  BY <1>1 DEF TxDrop, Room, ListType, NodeType, HeapType, PlaceType, OutcomeType, SentType
<1>2. CASE FreeNode
  BY <1>2 DEF FreeNode, InLoop, Fault, Room, ListType, NodeType, HeapType, PlaceType, OutcomeType, SentType
<1>3. CASE FreeLoopEnd
  BY <1>3 DEF FreeLoopEnd, InLoop, Room, ListType, NodeType, HeapType, PlaceType, OutcomeType, SentType
<1>4. CASE Settle
  BY <1>4 DEF Settle, FreeLastCall, EmptyList, LastCallInvalid, NotUnderstood, Fault,
     FlagAfterDelete, Room, ListType, NodeType, HeapType, PlaceType, OutcomeType, SentType
<1>5. CASE AppendHead
  BY <1>5 DEF AppendHead, Room, ListType, NodeType, HeapType, PlaceType, OutcomeType, SentType
<1>6. CASE FillHead
  <2>1. PICK t \in clock .. clock + 1 :
          clock' = t /\ stamp' = [stamp EXCEPT ![allocated] = t]
    BY <1>6 DEF FillHead
  <2>2. t \in Nat
    BY <2>1 DEF HeapType
  <2>3. NodeType'
    BY <1>6, <2>1, <2>2 DEF FillHead, NodeType
  <2>4. HeapType'
    BY <1>6, <2>1, <2>2 DEF FillHead, HeapType
  <2>5. ListType' /\ PlaceType' /\ OutcomeType' /\ SentType' /\ Room'
    BY <1>6 DEF FillHead, Room, ListType, PlaceType, OutcomeType, SentType
  <2> QED
    BY <2>3, <2>4, <2>5
<1>7. CASE AppendNode
  <2>1. PICK t \in clock .. clock + 1 :
          clock' = t /\ stamp' = [stamp EXCEPT ![allocated'] = t]
    BY <1>7 DEF AppendNode
  <2>2. t \in Nat /\ allocated' \in Node
    <3>1. tx = "append" /\ allocated' = allocated + 1
      BY <1>7 DEF AppendNode
    <3> QED
      BY <2>1, <3>1 DEF HeapType, Room
  <2>3. NodeType'
    <3>1. CASE pkt_linger_last \in live
      <4>1. next' = [next EXCEPT ![pkt_linger_last] = allocated', ![allocated'] = NULL]
        BY <1>7, <3>1 DEF AppendNode
      <4> QED
        BY <2>1, <2>2, <4>1 DEF NodeType
    <3>2. CASE pkt_linger_last \notin live
      <4>1. next' = next
        BY <1>7, <3>2 DEF AppendNode
      <4> QED
        BY <2>1, <2>2, <4>1 DEF NodeType
    <3> QED
      BY <3>1, <3>2
  <2>4. HeapType'
    BY <1>7, <2>1, <2>2 DEF AppendNode, HeapType
  <2>5. ListType' /\ SentType'
    BY <1>7 DEF AppendNode, ListType, SentType
  <2>6. PlaceType' /\ OutcomeType' /\ Room'
    BY <1>7 DEF AppendNode, Fault, Room, PlaceType, OutcomeType
  <2> QED
    BY <2>3, <2>4, <2>5, <2>6
<1>8. CASE MoveTail
  BY <1>8 DEF MoveTail, Room, ListType, NodeType, HeapType, PlaceType, OutcomeType, SentType
<1> QED
  BY <1>1, <1>2, <1>3, <1>4, <1>5, <1>6, <1>7, <1>8 DEF Transmit

LEMMA CallbackTyped == TypeOK /\ Room /\ Callback /\ UNCHANGED setting => TypeOK' /\ Room'
<1> SUFFICES ASSUME TypeOK, Room, Callback, UNCHANGED setting PROVE TypeOK' /\ Room'
  OBVIOUS
<1>0. SettingType'
  BY DEF TypeOK, SettingType, setting
<1> USE <1>0, PointerFacts DEF TypeOK, list, memory, sent
<1>1. CASE Poll
  BY <1>1 DEF Poll, DptMac, DptQueue, LastSeen, Room, ListType, NodeType, HeapType, PlaceType,
     OutcomeType, SentType
<1>2. CASE PollReturn
  BY <1>2 DEF PollReturn, Room, ListType, NodeType, HeapType, PlaceType, OutcomeType, SentType
<1>3. CASE WalkNode
  <2>1. cursor \in Node /\ cursor' \in Pointer
    BY <1>3 DEF WalkNode, PlaceType, NodeType
  <2>2. ListType' /\ NodeType' /\ HeapType' /\ OutcomeType' /\ Room'
    BY <1>3 DEF WalkNode, Room, ListType, NodeType, HeapType, OutcomeType
  <2>3. PlaceType'
    BY <1>3, <2>1 DEF WalkNode, PlaceType
  <2>4. SentType'
    <3>1. CASE UNCHANGED sent
      BY <3>1 DEF SentType
    <3>2. CASE watermark' = stamp[cursor] /\ reported' = Append(reported, cursor)
      BY <3>2, <2>1 DEF SentType, NodeType
    <3> QED
      BY <1>3, <3>1, <3>2 DEF WalkNode
  <2> QED
    BY <2>2, <2>3, <2>4
<1>4. CASE WalkInvalid
  BY <1>4 DEF WalkInvalid, Fault, Room, ListType, NodeType, HeapType, PlaceType,
     OutcomeType, SentType
<1>5. CASE WalkEnd
  BY <1>5 DEF WalkEnd, Room, ListType, NodeType, HeapType, PlaceType, OutcomeType, SentType
<1> QED
  BY <1>1, <1>2, <1>3, <1>4, <1>5 DEF Callback

LEMMA TypedStep == TypeOK /\ Room /\ [Next]_vars => TypeOK' /\ Room'
<1>1. TypeOK /\ Room /\ UNCHANGED vars => TypeOK' /\ Room'
  BY DEF TypeOK, SettingType, setting, Room, vars, list, memory, sent, ListType, NodeType, HeapType,
     PlaceType, OutcomeType, SentType
<1>2. QED
  BY <1>1, TransmitTyped, CallbackTyped DEF Next, Stopped

\* Type correctness, whichever way the handlers are scheduled.
THEOREM TypeCorrect == Spec => []TypeOK
BY InitTyped, TypedStep, PTL DEF Spec

-----------------------------------------------------------------------------
\* The flag protocol of dpt_queue_linger: the callback is on the list only with
\* the flag down, the transmit path deletes only with the flag up.
FlagInv ==
  /\ guarded /\ cb \in {"dpt", "walk"} => ~readed_linger
  /\ tx \in {"free", "settle"} => readed_linger
  /\ cb \in {"idle", "dpt", "walk"}

\* With the test of read_lin in dpt_queue_linger no interleaving lets the
\* transmit path delete nodes while the callback walks the list.
THEOREM FlagExcludes == Spec => []DeleteExcludesWalk
<1>1. Init => FlagInv
  BY DEF Init, FlagInv
<1>2. FlagInv /\ [Next]_vars => FlagInv'
  <2> SUFFICES ASSUME FlagInv, [Next]_vars PROVE FlagInv'
    OBVIOUS
  <2> USE DEF FlagInv, list, memory, sent
  <2>1. CASE Transmit /\ UNCHANGED setting
    <3>0. guarded' = guarded
      BY <2>1 DEF setting
    <3>1. TxDrop \/ FreeNode \/ FreeLoopEnd => FlagInv'
      BY <3>0 DEF TxDrop, FreeNode, FreeLoopEnd
    <3>2. ASSUME Settle PROVE FlagInv'
      <4>1. UNCHANGED cb /\ tx = "settle"
        BY <3>2 DEF Settle
      <4>2. CASE LastCallInvalid
        BY <3>0, <4>1, <4>2 DEF LastCallInvalid
      <4>3. CASE FreeLastCall \/ EmptyList \/ NotUnderstood
        <5>1. readed_linger' = FALSE /\ tx' = "append"
          BY <4>3 DEF FreeLastCall, EmptyList, NotUnderstood, FlagAfterDelete
        <5> QED
          BY <4>1, <5>1
      <4> QED
        BY <3>2, <4>2, <4>3 DEF Settle
    <3>3. AppendHead \/ FillHead \/ MoveTail => FlagInv'
      BY <3>0 DEF AppendHead, FillHead, MoveTail
    <3>4. ASSUME AppendNode PROVE FlagInv'
      <4>1. UNCHANGED <<cb, readed_linger>> /\ tx' \in {"idle", "tail"}
        BY <3>4 DEF AppendNode
      <4> QED
        BY <3>0, <4>1
    <3> QED
      BY <2>1, <3>1, <3>2, <3>3, <3>4 DEF Transmit
  <2>2. CASE Callback /\ UNCHANGED setting
    BY <2>2 DEF setting, Callback, Poll, DptMac, DptQueue, PollReturn, WalkNode,
       WalkInvalid, WalkEnd
  <2>3. CASE UNCHANGED vars
    BY <2>3 DEF vars, setting
  <2> QED
    BY <2>1, <2>2, <2>3 DEF Next, Stopped
<1>3. FlagInv => DeleteExcludesWalk
  BY DEF FlagInv, DeleteExcludesWalk
<1>4. QED
  BY <1>1, <1>2, <1>3, PTL DEF Spec

-----------------------------------------------------------------------------
LEMMA SerialInit == Init => SerialInv
BY DEF Init, SerialInv, Exclusive, IdleInv, FreeInv, AppendInv,
   ListInv, NULL

LEMMA SerialTransmit ==
  ASSUME serial, TypeOK, Room, SerialInv, Transmit PROVE SerialInv'
<1> USE DEF SerialInv, Exclusive, NULL, ListInv, list, memory, sent
<1>0. /\ allocated \in Nat /\ ptr \in Nat /\ p_linger \in Nat /\ last_call \in Nat
      /\ next \in [Node -> Pointer]
  BY PointerFacts DEF TypeOK, HeapType, PlaceType, ListType, NodeType
<1>1. CASE TxDrop
  BY <1>1 DEF TxDrop, IdleInv, FreeInv, AppendInv, Chain
<1>2. CASE FreeNode
  <2>1. /\ tx = "free" /\ Chain(ptr) /\ pkt_linger_last = allocated
        /\ last_call \in ptr .. allocated /\ ptr # last_call /\ cb = "idle"
    BY <1>2 DEF FreeNode, InLoop, FreeInv
  <2>2. ptr \in live /\ next[ptr] = ptr + 1 /\ ptr < allocated /\ ptr > 0
    BY <1>0, <2>1 DEF Chain
  <2>3. /\ ptr' = ptr + 1 /\ live' = live \ {ptr} /\ fault' = fault
        /\ UNCHANGED <<next, allocated, filled, tx, cb, complaint, last_call, pkt_linger_last>>
    BY <1>2, <2>2 DEF FreeNode, InLoop
  <2>4. Chain(ptr)'
    BY <1>0, <2>1, <2>2, <2>3 DEF Chain
  <2> QED
    BY <1>0, <2>1, <2>2, <2>3, <2>4 DEF IdleInv, FreeInv, AppendInv
<1>3. CASE FreeLoopEnd
  BY <1>3, <1>0 DEF FreeLoopEnd, InLoop, IdleInv, FreeInv, AppendInv, Chain
<1>4. CASE Settle
  <2>1. /\ tx = "settle" /\ Chain(ptr) /\ pkt_linger_last = allocated /\ cb = "idle"
        /\ last_call \in ptr .. allocated /\ ptr = last_call /\ cb' = "idle"
        /\ UNCHANGED <<next, allocated, filled>>
    BY <1>4 DEF Settle, FreeInv
  <2>2. last_call \in live
    BY <1>0, <2>1 DEF Chain
  <2>3. CASE FreeLastCall
    <3>1. /\ next[last_call] # 0 /\ p_linger' = next[last_call]
          /\ live' = live \ {last_call} /\ readed_linger' = FALSE /\ tx' = "append"
          /\ UNCHANGED <<pkt_linger_last, fault, complaint>>
      BY <2>3 DEF FreeLastCall, FlagAfterDelete
    <3>2. last_call < allocated /\ next[last_call] = last_call + 1
      BY <1>0, <2>1, <3>1 DEF Chain
    <3>3. Chain(p_linger)'
      BY <1>0, <2>1, <3>1, <3>2 DEF Chain
    <3> QED
      BY <2>1, <3>1, <3>3 DEF IdleInv, FreeInv, AppendInv
  <2>4. CASE EmptyList
    <3>1. /\ p_linger' = 0 /\ pkt_linger_last' = 0 /\ filled' = allocated'
          /\ readed_linger' = FALSE /\ tx' = "append" /\ UNCHANGED <<fault, complaint>>
      BY <2>1, <2>4 DEF EmptyList, FlagAfterDelete, Chain
    <3> QED
      BY <2>1, <3>1 DEF IdleInv, FreeInv, AppendInv
  <2> QED
    BY <1>4, <2>1, <2>2, <2>3, <2>4 DEF Settle, LastCallInvalid, NotUnderstood
<1>5. CASE AppendHead
  <2>1. tx = "append" /\ p_linger = 0 /\ ~readed_linger /\ cb = "idle"
    BY <1>5 DEF AppendHead, AppendInv
  <2>2. filled = allocated
    BY <2>1 DEF AppendInv, Chain
  <2>3. /\ allocated' = allocated + 1 /\ live' = live \cup {allocated'}
        /\ p_linger' = allocated' /\ tx' = "head"
        /\ UNCHANGED <<readed_linger, cb, fault, complaint>>
    BY <1>5 DEF AppendHead
  <2>4. allocated' \in Node
    BY <2>1, <2>3, PointerFacts DEF Room, TypeOK, HeapType
  <2> QED
    BY <2>1, <2>3, <2>4 DEF IdleInv, FreeInv, AppendInv
<1>6. CASE FillHead
  <2>1. /\ tx = "head" /\ p_linger = allocated /\ allocated \in Node /\ allocated \in live
        /\ ~readed_linger /\ cb = "idle"
    BY <1>6 DEF FillHead, AppendInv
  <2>2. /\ next' = [next EXCEPT ![allocated] = 0]
        /\ filled' = allocated /\ pkt_linger_last' = p_linger /\ tx' = "idle"
        /\ UNCHANGED <<p_linger, readed_linger, live, allocated, cb, fault, complaint>>
    BY <1>6 DEF FillHead
  <2>3. allocated > 0
    BY <2>1 DEF Node
  <2>4. Chain(p_linger)'
    BY <1>0, <2>1, <2>2, <2>3 DEF Chain
  <2> QED
    BY <2>1, <2>2, <2>4 DEF IdleInv, FreeInv, AppendInv
<1>7. CASE AppendNode
  <2>1. /\ tx = "append" /\ Chain(p_linger) /\ pkt_linger_last = allocated
        /\ ~readed_linger /\ cb = "idle"
    BY <1>7 DEF AppendNode, AppendInv
  <2>2. allocated \in live /\ allocated > 0
    BY <1>0, <2>1 DEF Chain
  <2>3. /\ allocated' = allocated + 1 /\ filled' = allocated'
        /\ live' = live \cup {allocated'}
        /\ UNCHANGED <<p_linger, readed_linger, cb>>
    BY <1>7 DEF AppendNode
  <2>4. /\ next' = [next EXCEPT ![allocated] = allocated', ![allocated'] = 0]
        /\ UNCHANGED <<fault, complaint>> /\ tx' = "tail"
    <3>1. pkt_linger_last \in live /\ pkt_linger_last # 0
      BY <2>1, <2>2
    <3>2. /\ next' = [next EXCEPT ![pkt_linger_last] = allocated', ![allocated'] = 0]
          /\ UNCHANGED <<fault, complaint>> /\ tx' = "tail"
      BY <1>7, <3>1 DEF AppendNode
    <3> QED
      BY <2>1, <3>2
  <2>5. allocated' \in Node
    BY <2>1, <2>3, PointerFacts DEF Room, TypeOK, HeapType
  <2>6. allocated \in Node
    BY <2>2, PointerFacts DEF TypeOK, HeapType
  <2>7. /\ \A n \in p_linger .. allocated : next'[n] = n + 1
        /\ next'[allocated'] = 0
    <3>1. \A n \in Node : next'[n] = IF n = allocated' THEN 0
                                     ELSE IF n = allocated THEN allocated' ELSE next[n]
      BY <1>0, <2>4
    <3>2. \A n \in p_linger .. allocated - 1 : n \in Node /\ next[n] = n + 1
      <4>1. \A n \in p_linger .. allocated - 1 : next[n] = n + 1
        BY <2>1 DEF Chain
      <4>2. p_linger .. allocated \subseteq Node
        BY <2>1 DEF Chain, TypeOK, HeapType
      <4> QED
        BY <1>0, <4>1, <4>2
    <3> QED
      BY <1>0, <2>1, <2>3, <2>5, <2>6, <3>1, <3>2
  <2>8. Chain(p_linger)'
    BY <1>0, <2>1, <2>3, <2>7 DEF Chain
  <2> QED
    BY <2>1, <2>3, <2>4, <2>8 DEF IdleInv, FreeInv, AppendInv
<1>8. CASE MoveTail
  BY <1>8, <1>0 DEF MoveTail, IdleInv, FreeInv, AppendInv, Chain
<1> QED
  BY <1>1, <1>2, <1>3, <1>4, <1>5, <1>6, <1>7, <1>8 DEF Transmit

LEMMA SerialCallback ==
  ASSUME serial, TypeOK, SerialInv, Callback PROVE SerialInv'
<1> USE DEF SerialInv, Exclusive, NULL, ListInv, list, memory, sent
<1>0. /\ allocated \in Nat /\ p_linger \in Nat /\ last_call \in Nat /\ filled \in Nat
  BY PointerFacts DEF TypeOK, HeapType, ListType
<1>1. CASE Poll
  BY <1>1, <1>0 DEF Poll, DptMac, DptQueue, LastSeen, IdleInv, FreeInv, AppendInv, Chain
<1>2. CASE PollReturn
  BY <1>2, <1>0 DEF PollReturn, IdleInv, FreeInv, AppendInv, Chain
<1>3. CASE WalkNode
  BY <1>3, <1>0 DEF WalkNode, IdleInv, FreeInv, AppendInv, Chain
<1>4. CASE WalkInvalid
  BY <1>4, <1>0 DEF WalkInvalid, IdleInv, FreeInv, AppendInv, Chain
<1>5. CASE WalkEnd
  BY <1>5, <1>0 DEF WalkEnd, IdleInv, FreeInv, AppendInv, Chain
<1> QED
  BY <1>1, <1>2, <1>3, <1>4, <1>5 DEF Callback

LEMMA SerialStep ==
  ASSUME serial, TypeOK, Room, SerialInv, [Next]_vars PROVE SerialInv'
<1>1. CASE UNCHANGED vars
  BY <1>1 DEF vars, list, memory, sent, SerialInv, Exclusive, IdleInv, FreeInv, AppendInv,
              ListInv, Chain
<1> QED
  BY <1>1, SerialTransmit, SerialCallback DEF Next, Stopped

\* When the two handlers exclude each other no freed, NULL or uninitialised node
\* is ever dereferenced and neither error branch of the list code is taken.
THEOREM SerialSafe == Spec => []HandoverIsSafe
<1> DEFINE Inv == serial => SerialInv
<1>1. Inv /\ TypeOK /\ Room /\ [Next]_vars => Inv'
  <2> SUFFICES ASSUME Inv, TypeOK, Room, [Next]_vars, serial' PROVE SerialInv'
    OBVIOUS
  <2>1. serial /\ SerialInv
    BY DEF Next, Stopped, vars, setting
  <2> QED
    BY <2>1, SerialStep
<1>2. Inv => HandoverIsSafe
  BY DEF SerialInv, HandoverIsSafe
<1>3. TypeOK /\ Room /\ [Next]_vars => TypeOK' /\ Room'
  BY TypedStep
<1>4. Init => Inv
  BY SerialInit
<1>5. QED
  BY <1>1, <1>2, <1>3, <1>4, InitTyped, PTL DEF Spec

-----------------------------------------------------------------------------
(* What is sent, on any number of CPUs.                                    *)

\* A node that was sent had been filled in, and is not stamped again; its stamp is
\* not above the watermark.
OrderInv ==
  /\ filled <= allocated /\ (tx = "head" => filled < allocated)
  /\ \A i \in DOMAIN reported : reported[i] <= filled /\ stamp[reported[i]] <= watermark
  /\ ReportedInOrder

LEMMA SentFacts ==
  ASSUME TypeOK
  PROVE  /\ allocated \in Nat /\ filled \in Nat /\ watermark \in Nat /\ clock \in Nat
         /\ stamp \in [Node -> Nat] /\ reported \in Seq(Node)
         /\ DOMAIN reported = 1 .. Len(reported) /\ Len(reported) \in Nat
         /\ \A i \in DOMAIN reported : /\ reported[i] \in Node /\ reported[i] \in Nat
                                       /\ stamp[reported[i]] \in Nat
         /\ \A n \in Node : n \in Nat /\ n >= 1 /\ stamp[n] \in Nat
<1>1. /\ allocated \in Nat /\ filled \in Nat /\ watermark \in Nat /\ clock \in Nat
      /\ stamp \in [Node -> Nat] /\ reported \in Seq(Node)
  BY PointerFacts DEF TypeOK, HeapType, NodeType, SentType
<1>2. \A n \in Node : n \in Nat /\ n >= 1 /\ stamp[n] \in Nat
  BY <1>1 DEF Node
<1>3. /\ DOMAIN reported = 1 .. Len(reported) /\ Len(reported) \in Nat
      /\ \A i \in DOMAIN reported : reported[i] \in Node
  BY <1>1
<1> QED
  BY <1>1, <1>2, <1>3

\* The steps that stamp a node stamp a new one.
LEMMA StampStep ==
  ASSUME TypeOK, Room, FillHead \/ AppendNode, filled <= allocated,
         tx = "head" => filled < allocated
  PROVE  /\ filled' = allocated' /\ filled' \in Nat /\ filled' > filled
         /\ \E t \in clock .. clock + 1 :
              clock' = t /\ stamp' = [stamp EXCEPT ![filled'] = t]
         /\ \A n \in Node : n <= filled => stamp'[n] = stamp[n]
         /\ UNCHANGED <<watermark, reported, cb, cursor, p_linger, last_call,
                        readed_linger>>
         /\ tx' # "head"
<1>1. CASE FillHead
  <2>1. PICK t \in clock .. clock + 1 :
          clock' = t /\ stamp' = [stamp EXCEPT ![allocated] = t]
    BY <1>1 DEF FillHead
  <2>2. /\ tx = "head" /\ allocated' = allocated /\ filled' = allocated /\ tx' = "idle"
        /\ UNCHANGED <<watermark, reported, cb, cursor, p_linger, last_call, readed_linger>>
    BY <1>1 DEF FillHead, sent
  <2>3. \A n \in Node : n <= filled => stamp'[n] = stamp[n]
    BY <2>1, <2>2, SentFacts
  <2> QED
    BY <2>1, <2>2, <2>3, SentFacts
<1>2. CASE AppendNode
  <2>1. PICK t \in clock .. clock + 1 :
          clock' = t /\ stamp' = [stamp EXCEPT ![allocated'] = t]
    BY <1>2 DEF AppendNode
  <2>2. /\ allocated' = allocated + 1 /\ filled' = allocated' /\ tx' \in {"idle", "tail"}
        /\ UNCHANGED <<watermark, reported, cb, cursor, p_linger, last_call, readed_linger>>
    BY <1>2 DEF AppendNode, sent, list
  <2>3. \A n \in Node : n <= filled => stamp'[n] = stamp[n]
    BY <2>1, <2>2, SentFacts
  <2>4. filled' \in Nat /\ filled' > filled
    BY <2>2, SentFacts
  <2>5. /\ UNCHANGED <<watermark, reported, cb, cursor, p_linger, last_call, readed_linger>>
        /\ filled' = allocated' /\ tx' # "head"
    BY <2>2
  <2>6. stamp' = [stamp EXCEPT ![filled'] = t]
    BY <2>1, <2>2
  <2> QED
    BY <2>1, <2>3, <2>4, <2>5, <2>6, Zenon
<1> QED
  BY <1>1, <1>2

LEMMA OrderStep == TypeOK /\ Room /\ OrderInv /\ [Next]_vars => OrderInv'
<1> SUFFICES ASSUME TypeOK, Room, OrderInv, [Next]_vars PROVE OrderInv'
  OBVIOUS
<1>1. CASE UNCHANGED <<stamp, filled, watermark, reported>> /\ filled' <= allocated'
             /\ (tx' = "head" => filled' < allocated')
  BY <1>1 DEF OrderInv, ReportedInOrder
<1>2. CASE UNCHANGED vars
  BY <1>1, <1>2 DEF OrderInv, vars, memory, sent
<1>3. CASE TxDrop \/ FreeNode \/ FreeLoopEnd \/ Settle \/ MoveTail
  <2>1. UNCHANGED <<stamp, filled, allocated, watermark, reported>> /\ tx' # "head"
    BY <1>3 DEF TxDrop, FreeNode, FreeLoopEnd, Settle, MoveTail, FreeLastCall, EmptyList,
                LastCallInvalid, NotUnderstood, memory, sent
  <2> QED
    BY <1>1, <2>1 DEF OrderInv
<1>4. CASE AppendHead
  BY <1>1, <1>4, SentFacts DEF AppendHead, OrderInv, sent
<1>5. CASE FillHead \/ AppendNode
  <2>1. /\ filled' = allocated' /\ filled' \in Nat /\ filled' > filled /\ tx' # "head"
        /\ \A n \in Node : n <= filled => stamp'[n] = stamp[n]
        /\ UNCHANGED <<watermark, reported>>
    BY <1>5, StampStep DEF OrderInv
  <2>2. \A i \in DOMAIN reported : stamp'[reported[i]] = stamp[reported[i]]
    BY <2>1, SentFacts DEF OrderInv
  <2>3. \A i \in DOMAIN reported : reported[i] <= filled' /\ stamp[reported[i]] <= watermark
    BY <2>1, SentFacts DEF OrderInv
  <2> QED
    BY <2>1, <2>2, <2>3 DEF OrderInv, ReportedInOrder
<1>6. CASE Poll \/ PollReturn \/ WalkInvalid \/ WalkEnd
  <2>1. UNCHANGED <<stamp, filled, allocated, watermark, reported, tx>>
    BY <1>6 DEF Poll, PollReturn, WalkInvalid, WalkEnd, memory, sent
  <2> QED
    BY <1>1, <2>1 DEF OrderInv
<1>7. CASE WalkNode
  <2>1. cursor \in live /\ cursor <= filled /\ UNCHANGED <<stamp, filled, allocated, tx>>
    BY <1>7 DEF WalkNode, memory
  <2>2. cursor \in Node
    BY <2>1 DEF TypeOK, HeapType
  <2>3. CASE UNCHANGED sent
    BY <1>1, <2>1, <2>3 DEF OrderInv, sent
  <2>4. CASE /\ Fresh(cursor)
             /\ watermark' = stamp[cursor] /\ reported' = Append(reported, cursor)
    <3>1. /\ DOMAIN reported' = 1 .. Len(reported) + 1
          /\ \A i \in DOMAIN reported : reported'[i] = reported[i]
          /\ reported'[Len(reported) + 1] = cursor
      BY <2>2, <2>4, SentFacts
    <3>2. stamp[cursor] \in Nat /\ stamp[cursor] > watermark
      BY <2>2, <2>4, SentFacts DEF Fresh
    <3>3. ASSUME NEW i \in DOMAIN reported'
          PROVE  /\ reported'[i] <= filled /\ stamp[reported'[i]] <= stamp[cursor]
                 /\ i \in DOMAIN reported => stamp[reported'[i]] < stamp[cursor]
      <4>1. i \in DOMAIN reported \/ i = Len(reported) + 1
        BY <3>1, SentFacts
      <4> QED
        BY <2>1, <3>1, <3>2, <4>1, SentFacts DEF OrderInv
    <3>4. ASSUME NEW i \in DOMAIN reported', NEW j \in DOMAIN reported', i < j
          PROVE  stamp[reported'[i]] < stamp[reported'[j]]
      <4>1. i \in DOMAIN reported /\ (j \in DOMAIN reported \/ j = Len(reported) + 1)
        BY <3>1, <3>4, SentFacts
      <4> QED
        BY <3>1, <3>3, <3>4, <4>1 DEF OrderInv, ReportedInOrder
    <3> QED
      BY <2>1, <2>4, <3>3, <3>4 DEF OrderInv, ReportedInOrder
  <2> QED
    BY <1>7, <2>3, <2>4 DEF WalkNode
<1> QED
  BY <1>2, <1>3, <1>4, <1>5, <1>6, <1>7 DEF Next, Stopped, Transmit, Callback

\* No time stamp is sent twice and none after a later one, for any number of drops,
\* for both lists and under every interleaving of the two handlers, those that
\* touch freed nodes included up to the step that does.
THEOREM StampsInOrder == Spec => []ReportedInOrder
<1>1. Init => OrderInv
  BY DEF Init, OrderInv, ReportedInOrder
<1>2. OrderInv => ReportedInOrder
  BY DEF OrderInv
<1> QED
  BY <1>1, <1>2, InitTyped, TypedStep, OrderStep, PTL DEF Spec

-----------------------------------------------------------------------------
(* On one CPU the callback sends what DropReport promises.                 *)

\* Every node up to n has its stamp below the watermark: it need not be sent.
SentUpTo(n) == \A m \in Node : m <= n => stamp[m] <= watermark
Before(p) == IF p = NULL THEN filled ELSE p - 1

\* The stamps follow the order of allocation, and are below the bound of Stamp.
StampInv ==
  /\ \A m, n \in Node : m <= n /\ n <= filled => stamp[m] <= stamp[n]
  /\ \A n \in Node : n <= filled => stamp[n] \in 1 .. clock
  /\ clock \in 1 .. filled + 1
  /\ tx = "head" => allocated = filled + 1

\* What left the list was sent, and so is what the flag gives leave to delete.
DeletedInv ==
  /\ tx \notin {"free", "settle"} => SentUpTo(Before(p_linger))
  /\ tx \in {"free", "settle"} => SentUpTo(last_call)
  /\ readed_linger /\ cb = "idle" => SentUpTo(last_call)
WalkInv == cb = "walk" => SentUpTo(Before(cursor))

\* The watermark is the stamp that was sent last.
WatermarkInv ==
  watermark = IF reported = <<>> THEN 0 ELSE stamp[reported[Len(reported)]]

ReportInv == StampInv /\ DeletedInv /\ WalkInv /\ WatermarkInv

LEMMA ReportInit == Init => ReportInv
<1> SUFFICES ASSUME Init PROVE ReportInv
  OBVIOUS
<1>1. /\ stamp = [n \in Node |-> 0] /\ filled = 0 /\ allocated = 0 /\ clock = 1 /\ tx = "idle"
      /\ cb = "idle" /\ readed_linger = FALSE /\ p_linger = NULL /\ watermark = 0
      /\ reported = <<>>
  BY DEF Init
<1>2. \A n \in Node : ~(n <= 0)
  BY DEF Node
<1> QED
  BY <1>1, <1>2
  DEF ReportInv, StampInv, DeletedInv, WalkInv, WatermarkInv, SentUpTo, Before, NULL

\* The steps that leave stamps, watermark and list as they are.
LEMMA ReportStays ==
  ASSUME ReportInv, UNCHANGED <<stamp, filled, clock, watermark, reported>>
  PROVE  /\ \A n : SentUpTo(n)' <=> SentUpTo(n)
         /\ \A n : Before(n)' = Before(n)
         /\ WatermarkInv'
         /\ (tx' = "head" => allocated' = filled + 1) => StampInv'
  BY DEF ReportInv, StampInv, WatermarkInv, SentUpTo, Before

\* The list with a head, on one CPU.
LEMMA ListFacts ==
  ASSUME TypeOK, SerialInv
  PROVE  /\ tx \in {"idle", "append"} =>
              /\ filled = allocated
              /\ p_linger # NULL => Chain(p_linger) /\ pkt_linger_last = allocated
         /\ tx \in {"free", "settle", "append", "head", "tail"} => cb = "idle"
         /\ NULL = 0 /\ p_linger \in Nat /\ last_call \in Nat
  BY PointerFacts
  DEF SerialInv, Exclusive, IdleInv, AppendInv, ListInv, Chain, NULL, TypeOK, ListType

LEMMA ReportDelete ==
  ASSUME TypeOK, serial, SerialInv, ReportInv, TxDrop \/ FreeNode \/ FreeLoopEnd \/ Settle
  PROVE  ReportInv'
<1>1. UNCHANGED <<stamp, filled, allocated, clock, watermark, reported, cb, cursor>>
      /\ tx' # "head"
  BY DEF TxDrop, FreeNode, FreeLoopEnd, Settle, FreeLastCall, EmptyList, LastCallInvalid,
         NotUnderstood, memory, sent
<1>2. /\ \A n : SentUpTo(n)' <=> SentUpTo(n)
      /\ \A n : Before(n)' = Before(n)
      /\ StampInv' /\ WatermarkInv'
  BY <1>1, ReportStays
<1>3. cb = "idle" /\ WalkInv'
  BY <1>1, ListFacts DEF TxDrop, FreeNode, FreeLoopEnd, Settle, WalkInv
<1>4. CASE TxDrop \/ FreeNode \/ FreeLoopEnd
  <2>1. UNCHANGED <<p_linger, last_call, readed_linger>>
    BY <1>4 DEF TxDrop, FreeNode, FreeLoopEnd, list
  <2>2. tx' \in {"free", "settle"} => SentUpTo(last_call)
    BY <1>3, <1>4 DEF TxDrop, FreeNode, FreeLoopEnd, ReportInv, DeletedInv
  <2>3. tx' \notin {"free", "settle"} => SentUpTo(Before(p_linger))
    BY <1>4 DEF TxDrop, FreeNode, FreeLoopEnd, ReportInv, DeletedInv
  <2>4. readed_linger => SentUpTo(last_call)
    BY <1>3 DEF ReportInv, DeletedInv
  <2>5. DeletedInv'
    BY <1>1, <2>1, <2>2, <2>3, <2>4 DEF DeletedInv, SentUpTo, Before
  <2> QED
    BY <1>2, <1>3, <2>5 DEF ReportInv
<1>5. CASE Settle
  <2>1. /\ tx = "settle" /\ Chain(ptr) /\ last_call \in ptr .. allocated /\ ptr = last_call
        /\ SentUpTo(last_call)
    BY <1>5 DEF Settle, SerialInv, FreeInv, ReportInv, DeletedInv
  <2>2. last_call \in live /\ filled = allocated /\ last_call \in Nat /\ last_call > 0
        /\ allocated \in Nat
    BY <2>1, SentFacts, ListFacts DEF Chain
  <2>3. readed_linger' = FALSE /\ tx' = "append"
    BY <1>5, <2>1, <2>2 DEF Settle, FreeLastCall, EmptyList, LastCallInvalid,
       NotUnderstood, FlagAfterDelete
  <2>4. Before(p_linger') = last_call
    <3>1. CASE FreeLastCall
      <4>1. p_linger' = next[last_call] /\ next[last_call] # NULL
        BY <3>1 DEF FreeLastCall
      <4>2. p_linger' = last_call + 1
        BY <2>1, <2>2, <4>1 DEF Chain
      <4> QED
        BY <2>2, <4>2 DEF Before, NULL
    <3>2. CASE EmptyList
      <4>1. p_linger' = NULL /\ next[last_call] = NULL
        BY <3>2 DEF EmptyList
      <4>2. last_call = allocated
        BY <2>1, <2>2, <4>1 DEF Chain, NULL
      <4> QED
        BY <2>2, <4>1, <4>2 DEF Before
    <3> QED
      BY <1>5, <2>1, <2>2, <3>1, <3>2 DEF Settle, LastCallInvalid, NotUnderstood
  <2>5. DeletedInv'
    <3>1. SentUpTo(Before(p_linger))'
      BY <1>1, <2>1, <2>4 DEF SentUpTo, Before
    <3> QED
      BY <2>3, <3>1 DEF DeletedInv
  <2> QED
    BY <1>2, <1>3, <2>5 DEF ReportInv
<1> QED
  BY <1>4, <1>5

\* A node is stamped with the present time.
LEMMA ReportStamp ==
  ASSUME TypeOK, Room, serial, SerialInv, OrderInv, ReportInv, FillHead \/ AppendNode
  PROVE  ReportInv' /\ filled' = filled + 1
<1>1. /\ filled' = allocated' /\ filled' \in Nat /\ filled' > filled
      /\ \A n \in Node : n <= filled => stamp'[n] = stamp[n]
      /\ UNCHANGED <<watermark, reported, cb, cursor, p_linger, last_call, readed_linger>>
      /\ tx' # "head"
  BY StampStep DEF OrderInv
<1>2. PICK t \in clock .. clock + 1 :
        clock' = t /\ stamp' = [stamp EXCEPT ![filled'] = t]
  BY StampStep DEF OrderInv
<1>3. filled' = filled + 1 /\ cb = "idle" /\ ~readed_linger /\ tx \in {"head", "append"}
      /\ tx' \in {"idle", "tail"}
  <2>1. CASE FillHead
    <3>1. tx = "head" /\ allocated' = allocated /\ tx' = "idle"
      BY <2>1 DEF FillHead
    <3> QED
      BY <1>1, <3>1, ListFacts DEF SerialInv, AppendInv, ReportInv, StampInv
  <2>2. CASE AppendNode
    <3>1. tx = "append" /\ allocated' = allocated + 1 /\ tx' \in {"idle", "tail"}
      BY <2>2 DEF AppendNode
    <3> QED
      BY <1>1, <3>1, ListFacts DEF SerialInv, AppendInv
  <2> QED
    BY <2>1, <2>2
<1>4. /\ clock \in 1 .. filled + 1 /\ clock \in Nat /\ filled \in Nat /\ t \in Nat
      /\ clock <= t /\ t <= filled + 2
  BY <1>2, SentFacts DEF ReportInv, StampInv
<1>5. /\ \A n \in Node : n <= filled' => n <= filled \/ n = filled'
      /\ filled' \in Node => stamp'[filled'] = t
  BY <1>1, <1>2, <1>3, SentFacts
<1>6. \A n \in Node : n <= filled => stamp[n] \in 1 .. clock
  BY DEF ReportInv, StampInv
<1>7. StampInv'
  <2>1. ASSUME NEW n \in Node, n <= filled' PROVE stamp'[n] \in 1 .. clock'
    <3>1. CASE n = filled'
      BY <1>2, <1>4, <1>5, <3>1
    <3>2. CASE n <= filled
      BY <1>1, <1>2, <1>4, <1>6, <3>2
    <3> QED
      BY <1>5, <2>1, <3>1, <3>2
  <2>2. ASSUME NEW m \in Node, NEW n \in Node, m <= n, n <= filled'
        PROVE  stamp'[m] <= stamp'[n]
    <3>0. m \in Nat /\ n \in Nat
      BY SentFacts
    <3>1. CASE n <= filled
      <4>1. m <= filled
        BY <1>4, <2>2, <3>0, <3>1
      <4> QED
        BY <1>1, <2>2, <3>1, <4>1 DEF ReportInv, StampInv
    <3>2. CASE n = filled'
      <4>1. stamp'[n] = t /\ m <= filled'
        BY <1>5, <2>2, <3>2
      <4>2. CASE m = filled'
        BY <1>4, <3>2, <4>1, <4>2
      <4>3. CASE m <= filled
        <5>1. stamp'[m] \in 1 .. clock
          BY <1>1, <1>6, <4>3
        <5> QED
          BY <1>4, <4>1, <5>1
      <4> QED
        BY <1>5, <4>1, <4>2, <4>3
    <3> QED
      BY <1>5, <2>2, <3>1, <3>2
  <2>3. clock' \in 1 .. filled' + 1
    BY <1>2, <1>3, <1>4
  <2> QED
    BY <1>1, <2>1, <2>2, <2>3 DEF StampInv
<1>8. DeletedInv' /\ WalkInv'
  <2>1. SentUpTo(Before(p_linger)) /\ p_linger # NULL /\ p_linger \in Nat
        /\ p_linger - 1 <= filled
    <3>1. CASE FillHead
      <4>1. tx = "head" /\ p_linger = allocated /\ allocated \in Node /\ allocated = filled + 1
        BY <3>1 DEF FillHead, SerialInv, AppendInv, ReportInv, StampInv
      <4> QED
        BY <1>4, <4>1, SentFacts DEF ReportInv, DeletedInv, NULL
    <3>2. CASE AppendNode
      <4>1. tx = "append" /\ p_linger # NULL
        BY <3>2 DEF AppendNode
      <4>2. Chain(p_linger) /\ filled = allocated
        BY <4>1, ListFacts
      <4> QED
        BY <1>4, <4>1, <4>2 DEF ReportInv, DeletedInv, Chain
    <3> QED
      BY <3>1, <3>2
  <2>2. SentUpTo(p_linger - 1)
    BY <2>1 DEF Before
  <2>3. \A m \in Node : m <= p_linger - 1 => stamp'[m] <= watermark
    <3>1. SUFFICES ASSUME NEW m \in Node, m <= p_linger - 1 PROVE stamp'[m] <= watermark
      OBVIOUS
    <3>2. m <= filled
      BY <1>4, <2>1, <3>1, SentFacts
    <3> QED
      BY <1>1, <2>2, <3>1, <3>2 DEF SentUpTo
  <2>4. SentUpTo(Before(p_linger))'
    BY <1>1, <2>1, <2>3 DEF SentUpTo, Before
  <2> QED
    BY <1>1, <1>3, <2>4 DEF DeletedInv, WalkInv
<1>9. WatermarkInv'
  <2>1. CASE reported = <<>>
    BY <1>1, <2>1 DEF ReportInv, WatermarkInv
  <2>2. CASE reported # <<>>
    <3>1. Len(reported) \in DOMAIN reported
      BY <2>2, SentFacts
    <3>2. reported[Len(reported)] \in Node /\ reported[Len(reported)] <= filled
      BY <3>1, SentFacts DEF OrderInv
    <3> QED
      BY <1>1, <2>2, <3>2 DEF ReportInv, WatermarkInv
  <2> QED
    BY <2>1, <2>2
<1> QED
  BY <1>3, <1>7, <1>8, <1>9 DEF ReportInv

\* The other steps of the transmit path.
LEMMA ReportLink ==
  ASSUME TypeOK, serial, SerialInv, ReportInv, AppendHead \/ MoveTail
  PROVE  ReportInv'
<1>1. /\ UNCHANGED <<stamp, filled, clock, watermark, reported, cb, cursor, last_call,
                     readed_linger>>
  BY DEF AppendHead, MoveTail, memory, sent
<1>2. cb = "idle" /\ ~readed_linger
  BY ListFacts DEF AppendHead, MoveTail, SerialInv, AppendInv
<1>3. CASE AppendHead
  <2>1. tx = "append" /\ p_linger = NULL /\ tx' = "head"
        /\ allocated' = allocated + 1 /\ p_linger' = allocated'
    BY <1>3 DEF AppendHead
  <2>2. filled = allocated /\ allocated \in Nat
    BY <2>1, ListFacts, SentFacts
  <2>3. Before(p_linger') = filled
    BY <2>1, <2>2 DEF Before, NULL
  <2>4. SentUpTo(filled)
    BY <2>1 DEF ReportInv, DeletedInv, Before
  <2>5. SentUpTo(Before(p_linger))'
    BY <1>1, <2>3, <2>4 DEF SentUpTo, Before
  <2>6. DeletedInv' /\ WalkInv'
    BY <1>1, <1>2, <2>1, <2>5 DEF DeletedInv, WalkInv
  <2> QED
    BY <1>1, <2>1, <2>2, <2>6, ReportStays DEF ReportInv
<1>4. CASE MoveTail
  <2>1. tx = "tail" /\ tx' = "idle" /\ p_linger' = p_linger
    BY <1>4 DEF MoveTail
  <2>2. SentUpTo(Before(p_linger))
    BY <2>1 DEF ReportInv, DeletedInv
  <2>3. SentUpTo(Before(p_linger))'
    BY <1>1, <2>1, <2>2 DEF SentUpTo, Before
  <2>4. DeletedInv' /\ WalkInv'
    BY <1>1, <1>2, <2>1, <2>3 DEF DeletedInv, WalkInv
  <2> QED
    BY <1>1, <2>1, <2>4, ReportStays DEF ReportInv
<1> QED
  BY <1>3, <1>4

\* The callback, except where it copies a node.
LEMMA ReportPoll ==
  ASSUME TypeOK, serial, SerialInv, ReportInv,
         Poll \/ PollReturn \/ WalkInvalid \/ WalkEnd \/ UNCHANGED vars
  PROVE  ReportInv'
<1>1. /\ UNCHANGED <<stamp, filled, clock, watermark, reported, tx, p_linger, allocated>>
  BY DEF Poll, PollReturn, WalkInvalid, WalkEnd, vars, list, memory, sent
<1>2. StampInv' /\ WatermarkInv'
  BY <1>1, ReportStays DEF ReportInv, StampInv
<1>3. /\ tx \notin {"free", "settle"} => SentUpTo(Before(p_linger))'
      /\ \A n : SentUpTo(n)' <=> SentUpTo(n)
  BY <1>1 DEF SentUpTo, Before, ReportInv, DeletedInv
<1>4. CASE WalkInvalid \/ UNCHANGED vars
  <2>1. UNCHANGED <<cb, cursor, last_call, readed_linger>>
    BY <1>4 DEF WalkInvalid, vars, list
  <2>2. DeletedInv' /\ WalkInv'
    BY <1>1, <2>1 DEF ReportInv, DeletedInv, WalkInv, SentUpTo, Before
  <2> QED
    BY <1>2, <2>2 DEF ReportInv
<1>5. CASE Poll
  <2>1. /\ tx = "idle" /\ UNCHANGED <<readed_linger, cursor>>
        /\ cb = "idle" /\ (cb' = "dpt" \/ (cb' = "idle" /\ last_call' = last_call))
    BY <1>5 DEF Poll, DptMac, DptQueue
  <2>2. DeletedInv' /\ WalkInv'
    BY <1>1, <1>3, <2>1 DEF ReportInv, DeletedInv, WalkInv, SentUpTo
  <2> QED
    BY <1>2, <2>2 DEF ReportInv
<1>6. CASE PollReturn
  <2>1. /\ cb = "dpt" /\ cursor' = p_linger /\ UNCHANGED <<last_call, readed_linger>>
        /\ cb' = IF p_linger = NULL THEN "idle" ELSE "walk"
    BY <1>6 DEF PollReturn, list
  <2>2. tx = "idle" /\ (readed_linger => p_linger # NULL)
    BY <2>1 DEF SerialInv, Exclusive, IdleInv
  <2>3. SentUpTo(Before(cursor))'
    BY <1>1, <1>3, <2>1, <2>2 DEF SentUpTo, Before
  <2>4. DeletedInv' /\ WalkInv'
    BY <1>1, <1>3, <2>1, <2>2, <2>3 DEF DeletedInv, WalkInv
  <2> QED
    BY <1>2, <2>4 DEF ReportInv
<1>7. CASE WalkEnd
  <2>1. /\ cb = "walk" /\ cursor = NULL /\ cb' = "idle" /\ last_call' = last_call
    BY <1>7 DEF WalkEnd
  <2>2. tx = "idle" /\ p_linger # NULL /\ last_call = pkt_linger_last
    BY <2>1 DEF SerialInv, Exclusive, IdleInv
  <2>3. last_call = filled
    BY <2>2, ListFacts
  <2>4. SentUpTo(filled)
    BY <2>1 DEF ReportInv, WalkInv, Before
  <2>5. SentUpTo(last_call)'
    BY <1>1, <2>1, <2>3, <2>4 DEF SentUpTo
  <2>6. DeletedInv' /\ WalkInv'
    BY <1>1, <1>3, <2>1, <2>2, <2>5 DEF DeletedInv, WalkInv
  <2> QED
    BY <1>2, <2>6 DEF ReportInv
<1> QED
  BY <1>4, <1>5, <1>6, <1>7

\* Where the walk stands, every earlier node was sent; now this one is, too.
LEMMA ReportWalk ==
  ASSUME TypeOK, serial, SerialInv, ReportInv, WalkNode
  PROVE  /\ ReportInv' /\ cursor \in Node /\ cursor <= filled
         /\ \A m \in Node : m < cursor => stamp[m] <= watermark
<1>1. /\ cb = "walk" /\ cursor # NULL /\ cb' = cb /\ cursor' = next[cursor]
      /\ UNCHANGED <<stamp, filled, clock, allocated, tx, p_linger, last_call, readed_linger>>
  BY DEF WalkNode, list, memory
<1>2. tx = "idle" /\ p_linger # NULL /\ cursor \in p_linger .. allocated
  BY <1>1 DEF SerialInv, Exclusive, IdleInv
<1>3. Chain(p_linger) /\ filled = allocated /\ allocated \in Nat /\ p_linger \in Nat
  BY <1>2, ListFacts, SentFacts
<1>4. cursor \in Node /\ cursor \in Nat /\ cursor <= filled /\ cursor > 0
  <2>1. cursor \in Nat /\ cursor \in live /\ cursor <= filled /\ cursor > 0
    BY <1>2, <1>3 DEF Chain
  <2> QED
    BY <2>1 DEF TypeOK, HeapType
<1>5. SentUpTo(cursor - 1)
  BY <1>1, <1>4 DEF ReportInv, WalkInv, Before, NULL
<1>6. \A m \in Node : m < cursor => stamp[m] <= watermark
  <2>1. SUFFICES ASSUME NEW m \in Node, m < cursor PROVE stamp[m] <= watermark
    OBVIOUS
  <2>2. m <= cursor - 1
    BY <1>4, <2>1, SentFacts
  <2> QED
    BY <1>5, <2>2 DEF SentUpTo
<1>7. /\ watermark' \in Nat /\ watermark' >= watermark /\ watermark' >= stamp[cursor]
      /\ WatermarkInv'
  <2>1. watermark \in Nat /\ stamp[cursor] \in Nat /\ reported \in Seq(Node)
    BY <1>4, SentFacts
  <2>2. CASE Fresh(cursor) /\ watermark' = stamp[cursor] /\ reported' = Append(reported, cursor)
    <3>1. reported' # <<>> /\ reported'[Len(reported')] = cursor
      BY <1>4, <2>1, <2>2
    <3> QED
      BY <1>1, <2>1, <2>2, <3>1 DEF Fresh, WatermarkInv
  <2>3. CASE ~Fresh(cursor) /\ UNCHANGED sent
    BY <1>1, <2>1, <2>3 DEF Fresh, WatermarkInv, sent, ReportInv
  <2> QED
    BY <2>2, <2>3 DEF WalkNode
<1>8. \A n : SentUpTo(n) => SentUpTo(n)'
  <2>1. SUFFICES ASSUME NEW n, SentUpTo(n), NEW m \in Node, m <= n
                 PROVE  stamp[m] <= watermark'
    BY <1>1 DEF SentUpTo
  <2>2. stamp[m] \in Nat /\ watermark \in Nat /\ stamp[m] <= watermark
    BY <2>1, SentFacts DEF SentUpTo
  <2> QED
    BY <1>7, <2>2
<1>9. \A m \in Node : m <= cursor => stamp[m] <= watermark'
  <2>1. SUFFICES ASSUME NEW m \in Node, m <= cursor PROVE stamp[m] <= watermark'
    OBVIOUS
  <2>2. m < cursor \/ m = cursor
    BY <1>4, <2>1, SentFacts
  <2> QED
    BY <1>6, <1>7, <2>2, SentFacts
<1>10. Before(cursor') = cursor
  <2>1. CASE cursor < allocated
    <3>1. cursor' = cursor + 1
      BY <1>1, <1>2, <1>3, <1>4, <2>1 DEF Chain
    <3> QED
      BY <1>4, <3>1 DEF Before, NULL
  <2>2. CASE cursor = allocated
    BY <1>1, <1>3, <2>2 DEF Chain, Before
  <2> QED
    BY <1>3, <1>4, <2>1, <2>2
<1>11. WalkInv'
  BY <1>1, <1>9, <1>10 DEF WalkInv, SentUpTo, Before
<1>12. DeletedInv'
  <2>1. SentUpTo(Before(p_linger))
    BY <1>2 DEF ReportInv, DeletedInv
  <2>2. \A m \in Node : m <= Before(p_linger) => stamp[m] <= watermark'
    <3>1. SUFFICES ASSUME NEW m \in Node, m <= Before(p_linger)
                   PROVE  stamp[m] <= watermark'
      OBVIOUS
    <3>2. stamp[m] \in Nat /\ watermark \in Nat /\ stamp[m] <= watermark
      BY <2>1, <3>1, SentFacts DEF SentUpTo
    <3> QED
      BY <1>7, <3>2
  <2>3. SentUpTo(Before(p_linger))'
    BY <1>1, <2>2 DEF SentUpTo, Before
  <2> QED
    BY <1>1, <1>2, <2>3 DEF DeletedInv
<1>13. StampInv'
  BY <1>1 DEF ReportInv, StampInv
<1> QED
  BY <1>4, <1>6, <1>7, <1>11, <1>12, <1>13 DEF ReportInv

LEMMA ReportStep ==
  ASSUME TypeOK, Room, serial, SerialInv, OrderInv, ReportInv, [Next]_vars
  PROVE  ReportInv'
  BY ReportDelete, ReportStamp, ReportLink, ReportPoll, ReportWalk
  DEF Next, Stopped, Transmit, Callback

-----------------------------------------------------------------------------
(* The refinement.                                                         *)

Drops == IF serial THEN [i \in 1 .. filled |-> stamp[i]] ELSE <<>>
Stamps == IF serial THEN [i \in DOMAIN reported |-> stamp[reported[i]]] ELSE <<>>

MappedOnes ==
  /\ Drops \in Seq(Nat) /\ Len(Drops) = filled /\ DOMAIN Drops = 1 .. filled
  /\ \A i \in 1 .. filled : Drops[i] = stamp[i]
  /\ Stamps \in Seq(Nat) /\ Len(Stamps) = Len(reported)
  /\ \A i \in 1 .. Len(reported) : Stamps[i] = stamp[reported[i]]
  /\ Report!Latest(Stamps) = watermark

LEMMA Mapped == TypeOK /\ serial /\ WatermarkInv => MappedOnes
<1> SUFFICES ASSUME TypeOK, serial, WatermarkInv PROVE MappedOnes
  OBVIOUS
<1>1. filled \in Pointer /\ 1 .. filled \subseteq Node
  <2>1. filled \in Pointer
    BY DEF TypeOK, HeapType
  <2> QED
    BY <2>1, PointerFacts, DropAssumption DEF Pointer, Node, DropAssumption
<1>2. Drops = [i \in 1 .. filled |-> stamp[i]]
  BY DEF Drops
<1>3. \A i \in 1 .. filled : stamp[i] \in Nat
  BY <1>1, SentFacts
<1>4. Drops \in Seq(Nat) /\ Len(Drops) = filled /\ DOMAIN Drops = 1 .. filled
      /\ \A i \in 1 .. filled : Drops[i] = stamp[i]
  <2>1. Drops \in Seq(Nat)
    <3>1. filled \in Nat
      BY SentFacts
    <3> QED
      BY <1>2, <1>3, <3>1
  <2>2. DOMAIN Drops = 1 .. filled /\ \A i \in 1 .. filled : Drops[i] = stamp[i]
    BY <1>2
  <2>3. Len(Drops) = filled
    BY <1>2, SentFacts
  <2> QED
    BY <2>1, <2>2, <2>3
<1>5. Stamps = [i \in 1 .. Len(reported) |-> stamp[reported[i]]]
  BY SentFacts DEF Stamps
<1>6. \A i \in 1 .. Len(reported) : stamp[reported[i]] \in Nat
  BY SentFacts
<1>7. Stamps \in Seq(Nat) /\ Len(Stamps) = Len(reported)
      /\ \A i \in 1 .. Len(reported) : Stamps[i] = stamp[reported[i]]
  BY <1>5, <1>6, SentFacts
<1>8. Report!Latest(Stamps) = watermark
  <2>1. CASE reported = <<>>
    <3>1. Len(Stamps) = 0
      BY <1>7, <2>1
    <3>2. Stamps = <<>>
      BY <1>7, <3>1
    <3> QED
      BY <2>1, <3>2 DEF Report!Latest, WatermarkInv
  <2>2. CASE reported # <<>>
    <3>1. Len(reported) \in 1 .. Len(reported)
      BY <2>2, SentFacts
    <3>2. Stamps # <<>> /\ Stamps[Len(Stamps)] = stamp[reported[Len(reported)]]
      BY <1>7, <3>1
    <3> QED
      BY <2>2, <3>2 DEF Report!Latest, WatermarkInv
  <2> QED
    BY <2>1, <2>2
<1> QED
  BY <1>4, <1>7, <1>8 DEF MappedOnes

\* Two sequences that agree are one.
LEMMA SeqAgree ==
  ASSUME NEW s \in Seq(Nat), NEW t \in Seq(Nat), Len(s) = Len(t),
         \A i \in 1 .. Len(s) : s[i] = t[i]
  PROVE  s = t
  OBVIOUS

LEMMA MappedPrime == TypeOK' /\ serial' /\ WatermarkInv' => MappedOnes'
  BY Mapped, PTL

\* A dropped packet is stamped: Drop of DropReport.
LEMMA RefineStamp ==
  ASSUME TypeOK, TypeOK', Room, serial, serial', SerialInv, OrderInv, ReportInv,
         FillHead \/ AppendNode
  PROVE  /\ \E t \in 1 .. MaxDrops + 1 :
              t >= Report!Latest(Drops) /\ Drops' = Append(Drops, t)
         /\ Stamps' = Stamps
<1>1. /\ ReportInv' /\ filled' = filled + 1 /\ filled \in Nat
      /\ \A n \in Node : n <= filled => stamp'[n] = stamp[n]
      /\ reported' = reported
  BY ReportStamp, StampStep, SentFacts DEF OrderInv
<1>2. PICK t \in clock .. clock + 1 :
        clock' = t /\ stamp' = [stamp EXCEPT ![filled'] = t]
  BY StampStep DEF OrderInv
<1>3. MappedOnes /\ MappedOnes'
  BY <1>1, Mapped, MappedPrime DEF ReportInv
<1>4. filled' \in Node /\ 1 .. filled \subseteq Node /\ filled' <= MaxDrops /\ MaxDrops \in Nat
  <2>1. filled' \in Pointer
    BY DEF TypeOK, HeapType
  <2> QED
    BY <1>1, <2>1, DropAssumption DEF Pointer, Node, DropAssumption
<1>5. /\ t \in Nat /\ clock \in Nat /\ clock <= t /\ t >= 1 /\ t <= filled' + 1
      /\ stamp'[filled'] = t
  <2>1. clock \in 1 .. filled + 1
    BY DEF ReportInv, StampInv
  <2> QED
    BY <1>1, <1>2, <1>4, <2>1, SentFacts
<1>6. t >= Report!Latest(Drops)
  <2>1. CASE filled = 0
    <3>1. Drops = <<>>
      BY <1>3, <2>1 DEF MappedOnes
    <3> QED
      BY <1>5, <3>1 DEF Report!Latest
  <2>2. CASE filled # 0
    <3>1. filled \in Node /\ filled \in 1 .. filled
      BY <1>1, <1>4, <2>2
    <3>2. stamp[filled] \in 1 .. clock
      BY <1>1, <3>1 DEF ReportInv, StampInv
    <3>3. Drops # <<>> /\ Drops[Len(Drops)] = stamp[filled]
      BY <1>3, <2>2, <3>1 DEF MappedOnes
    <3> QED
      BY <1>5, <3>2, <3>3 DEF Report!Latest
  <2> QED
    BY <2>1, <2>2
<1>7. Drops' = Append(Drops, t)
  <2>1. /\ Append(Drops, t) \in Seq(Nat) /\ Len(Append(Drops, t)) = filled + 1
        /\ \A i \in 1 .. filled : Append(Drops, t)[i] = stamp[i]
        /\ Append(Drops, t)[filled + 1] = t
    BY <1>1, <1>3, <1>5 DEF MappedOnes
  <2>2. /\ Drops' \in Seq(Nat) /\ Len(Drops') = filled + 1
        /\ \A i \in 1 .. filled + 1 : Drops'[i] = stamp'[i]
    BY <1>1, <1>3 DEF MappedOnes
  <2>3. ASSUME NEW i \in 1 .. filled + 1 PROVE Drops'[i] = Append(Drops, t)[i]
    <3>1. CASE i = filled + 1
      BY <1>1, <1>5, <2>1, <2>2, <3>1
    <3>2. CASE i # filled + 1
      <4>1. i \in 1 .. filled /\ i \in Node /\ i <= filled
        BY <1>1, <1>4, <3>2
      <4> QED
        BY <1>1, <2>1, <2>2, <4>1
    <3> QED
      BY <3>1, <3>2
  <2> QED
    BY <2>1, <2>2, <2>3, SeqAgree
<1>8. Stamps' = Stamps
  <2>1. ASSUME NEW i \in 1 .. Len(reported) PROVE Stamps'[i] = Stamps[i]
    <3>1. reported[i] \in Node /\ reported[i] <= filled
      BY SentFacts DEF OrderInv
    <3>2. reported' = reported /\ stamp'[reported[i]] = stamp[reported[i]]
      BY <1>1, <3>1
    <3>3. Stamps[i] = stamp[reported[i]] /\ Stamps'[i] = stamp'[reported'[i]]
      BY <1>3, <3>2 DEF MappedOnes
    <3> QED
      BY <3>2, <3>3
  <2>2. /\ Stamps \in Seq(Nat) /\ Stamps' \in Seq(Nat)
        /\ Len(Stamps) = Len(reported) /\ Len(Stamps') = Len(reported)
    BY <1>1, <1>3 DEF MappedOnes
  <2> QED
    BY <2>1, <2>2, SeqAgree
<1>9. t \in 1 .. MaxDrops + 1
  BY <1>1, <1>4, <1>5
<1> QED
  BY <1>6, <1>7, <1>8, <1>9

\* The callback copies a node, or has sent its stamp before.
LEMMA RefineWalk ==
  ASSUME TypeOK, TypeOK', serial, serial', SerialInv, ReportInv, WalkNode
  PROVE  /\ Drops' = Drops
         /\ \/ Stamps' = Stamps
            \/ \E i \in DOMAIN Drops :
                 /\ Drops[i] > Report!Latest(Stamps)
                 /\ \A j \in 1 .. i - 1 : Drops[j] <= Report!Latest(Stamps)
                 /\ Stamps' = Append(Stamps, Drops[i])
<1>1. /\ ReportInv' /\ cursor \in Node /\ cursor <= filled
      /\ \A m \in Node : m < cursor => stamp[m] <= watermark
  BY ReportWalk
<1>2. UNCHANGED <<stamp, filled, serial>>
  BY DEF WalkNode, memory
<1>3. MappedOnes /\ MappedOnes'
  BY <1>1, Mapped, MappedPrime DEF ReportInv
<1>4. Drops' = Drops
  BY <1>2 DEF Drops
<1>5. CASE UNCHANGED sent
  BY <1>2, <1>4, <1>5 DEF Stamps, sent
<1>6. CASE Fresh(cursor) /\ reported' = Append(reported, cursor)
  <2>1. cursor \in 1 .. filled /\ stamp[cursor] \in Nat /\ filled \in Nat
    BY <1>1, SentFacts
  <2>2. /\ cursor \in DOMAIN Drops /\ Drops[cursor] = stamp[cursor]
        /\ Drops[cursor] > Report!Latest(Stamps)
    BY <1>3, <1>6, <2>1 DEF MappedOnes, Fresh
  <2>3. ASSUME NEW j \in 1 .. cursor - 1 PROVE Drops[j] <= Report!Latest(Stamps)
    <3>1. j \in 1 .. filled /\ j < cursor
      BY <1>1, <2>1
    <3>2. j \in Node
      BY <1>1, <3>1, DropAssumption DEF Node, DropAssumption
    <3> QED
      BY <1>1, <1>3, <3>1, <3>2 DEF MappedOnes
  <2>4. Stamps' = Append(Stamps, stamp[cursor])
    <3>1. /\ Len(reported') = Len(reported) + 1 /\ Len(reported) \in Nat
          /\ \A i \in 1 .. Len(reported) : reported'[i] = reported[i]
          /\ reported'[Len(reported) + 1] = cursor
      BY <1>1, <1>6, SentFacts
    <3>2. /\ Append(Stamps, stamp[cursor]) \in Seq(Nat)
          /\ Len(Append(Stamps, stamp[cursor])) = Len(reported) + 1
          /\ \A i \in 1 .. Len(reported) :
               Append(Stamps, stamp[cursor])[i] = stamp[reported[i]]
          /\ Append(Stamps, stamp[cursor])[Len(reported) + 1] = stamp[cursor]
      BY <1>3, <2>1, <3>1 DEF MappedOnes
    <3>3. /\ Stamps' \in Seq(Nat) /\ Len(Stamps') = Len(reported) + 1
          /\ \A i \in 1 .. Len(reported) + 1 : Stamps'[i] = stamp[reported'[i]]
      BY <1>2, <1>3, <3>1 DEF MappedOnes
    <3>4. ASSUME NEW i \in 1 .. Len(reported) + 1
          PROVE  Stamps'[i] = Append(Stamps, stamp[cursor])[i]
      <4>1. i \in 1 .. Len(reported) \/ i = Len(reported) + 1
        BY <3>1
      <4> QED
        BY <3>1, <3>2, <3>3, <4>1
    <3> QED
      BY <3>2, <3>3, <3>4, SeqAgree
  <2>5. \A j \in 1 .. cursor - 1 : Drops[j] <= Report!Latest(Stamps)
    BY <2>3
  <2>6. Stamps' = Append(Stamps, Drops[cursor])
    BY <2>2, <2>4
  <2> QED
    BY <1>4, <2>2, <2>5, <2>6
<1> QED
  BY <1>5, <1>6 DEF WalkNode

\* The other steps change neither.
LEMMA RefineStutter ==
  ASSUME UNCHANGED serial,
         \/ TxDrop \/ FreeNode \/ FreeLoopEnd \/ Settle \/ AppendHead \/ MoveTail
         \/ Poll \/ PollReturn \/ WalkInvalid \/ WalkEnd \/ UNCHANGED vars
  PROVE  Drops' = Drops /\ Stamps' = Stamps
<1>1. UNCHANGED <<stamp, filled, reported>>
  BY DEF TxDrop, FreeNode, FreeLoopEnd, Settle, AppendHead, MoveTail, Poll, PollReturn,
         WalkInvalid, WalkEnd, vars, memory, sent
<1> QED
  BY <1>1 DEF Drops, Stamps

\* On one CPU the hand-off implements DropReport, for any number of drops and for
\* both lists: every distinct stamp is sent once, in the order of the drops, and none
\* is skipped, wherever polls and deletions fall.
THEOREM HandoffIsReport == Spec => ImplementsReport
<1> DEFINE Inv == /\ TypeOK /\ Room /\ OrderInv
                  /\ serial => SerialInv /\ ReportInv
           RStep == Report!Next \/ (Drops' = Drops /\ Stamps' = Stamps)
<1>1. Init => Inv
  <2>1. Init => OrderInv
    BY DEF Init, OrderInv, ReportedInOrder
  <2> QED
    BY <2>1, InitTyped, SerialInit, ReportInit
<1>2. Inv /\ [Next]_vars => Inv'
  <2> SUFFICES ASSUME Inv, [Next]_vars PROVE Inv'
    OBVIOUS
  <2>1. TypeOK' /\ Room' /\ OrderInv'
    BY TypedStep, OrderStep
  <2>2. serial' = serial
    BY DEF Next, Stopped, vars, setting
  <2>3. ASSUME serial PROVE SerialInv' /\ ReportInv'
    BY <2>3, SerialStep, ReportStep
  <2> QED
    BY <2>1, <2>2, <2>3
<1>3. Init => Report!Init
  <2> SUFFICES ASSUME Init PROVE Drops = <<>> /\ Stamps = <<>>
    BY DEF Report!Init, Drops, Stamps
  <2>1. filled = 0 /\ reported = <<>>
    BY DEF Init
  <2>2. 1 .. 0 = {} /\ DOMAIN << >> = {}
    OBVIOUS
  <2> QED
    BY <2>1, <2>2 DEF Drops, Stamps
<1>4. Inv /\ Inv' /\ [Next]_vars => RStep
  <2> SUFFICES ASSUME Inv, Inv', [Next]_vars PROVE RStep
    OBVIOUS
  <2>1. serial' = serial
    BY DEF Next, Stopped, vars, setting
  <2>2. CASE ~serial
    BY <2>1, <2>2 DEF Drops, Stamps
  <2>3. CASE serial /\ (FillHead \/ AppendNode)
    <3>1. /\ \E t \in 1 .. MaxDrops + 1 :
                t >= Report!Latest(Drops) /\ Drops' = Append(Drops, t)
          /\ Stamps' = Stamps
      BY <2>1, <2>3, RefineStamp
    <3> QED
      BY <3>1 DEF Report!Next, Report!Drop, Drops, Stamps
  <2>4. CASE serial /\ WalkNode
    <3>1. /\ Drops' = Drops
          /\ \/ Stamps' = Stamps
             \/ \E i \in DOMAIN Drops :
                  /\ Drops[i] > Report!Latest(Stamps)
                  /\ \A j \in 1 .. i - 1 : Drops[j] <= Report!Latest(Stamps)
                  /\ Stamps' = Append(Stamps, Drops[i])
      BY <2>1, <2>4, RefineWalk
    <3> QED
      BY <3>1 DEF Report!Next, Report!Report, Drops, Stamps
  <2>5. CASE \/ TxDrop \/ FreeNode \/ FreeLoopEnd \/ Settle \/ AppendHead \/ MoveTail
             \/ Poll \/ PollReturn \/ WalkInvalid \/ WalkEnd \/ UNCHANGED vars
    BY <2>1, <2>5, RefineStutter
  <2> QED
    BY <2>2, <2>3, <2>4, <2>5 DEF Next, Stopped, Transmit, Callback
<1>5. RStep => [Report!Next]_(Report!vars)
  BY DEF Report!vars, Drops, Stamps
<1> HIDE DEF Inv, RStep
<1> QED
  BY <1>1, <1>2, <1>3, <1>4, <1>5, PTL DEF Spec, ImplementsReport, Report!Spec
=============================================================================

----------------------- MODULE CollectorTablesProofs -----------------------
(***************************************************************************)
(* Proofs about what the decoders of the collector keep of connections and *)
(* of neighbours, for tables and lists of any size, any names, clocks and  *)
(* streams of messages.                                                    *)
(*                                                                         *)
(* FlowSequences: type correctness, that an unused entry never keeps       *)
(* numbers of a flow that had it, that only a handshake makes a second     *)
(* entry of a flow, and that the table implements the log of RetransLog.   *)
(*                                                                         *)
(* NeighbourLists: type correctness, that no name is listed twice and      *)
(* nothing is appended elsewhere than at the end, that the walk takes no   *)
(* fresh node and leaves no more old ones than it takes, and which list it *)
(* is that makes the collector follow a bad pointer.                       *)
(***************************************************************************)
EXTENDS FlowSequences, NeighbourLists, FiniteSetTheorems, SequenceTheorems,
        WellFoundedInduction, TLAPS

-----------------------------------------------------------------------------
(* FlowSequences.                                                          *)

\* The table by itself: its type, and its unused entries.
Blank(table) == \A e \in Place : table[e].flow = None => table[e] = NoRecord
Table(t) == t \in [Place -> Winsize_record]

LEMMA PlaceFacts ==
  /\ Place \subseteq Nat /\ 0 \in Place
  /\ IsFiniteSet(Place) /\ Cardinality(Place) = SEQLIST
  /\ None \notin Flow
<1>1. IsFiniteSet(0 .. SEQLIST - 1) /\ Cardinality(0 .. SEQLIST - 1) = SEQLIST
  BY FS_Interval, SequencesAssumption DEF SequencesAssumption
<1> QED
  BY <1>1, SequencesAssumption DEF SequencesAssumption, Place, Flow

LEMMA SequenceFacts ==
  Times \subseteq Nat /\ Sequence \subseteq Nat /\ Sent \subseteq Sequence /\ Acked \subseteq Sequence /\ 0 \in Sequence
  BY SequencesAssumption DEF SequencesAssumption, Sequence

LEMMA BlankTyped ==
  /\ NoSeq \in Seq_info /\ NoRecord \in Winsize_record /\ NoRecord.flow = None
<1>1. NoSeq \in Seq_info
  BY SequenceFacts DEF NoSeq, Seq_info
<1> QED
  BY <1>1 DEF NoRecord, Winsize_record

\* A set of places that is not empty has a first member.
LEMMA FirstIn ==
  ASSUME NEW S, S \subseteq Place, S # {}
  PROVE  First(S) \in S /\ First(S) \in Place
<1> DEFINE R == OpToRel(<, Nat)
<1>1. S \subseteq Nat
  BY PlaceFacts
<1>2. \E s \in S : \A q \in S : ~ (<<q, s>> \in R)
  <2> HIDE DEF R
  <2> QED
    BY <1>1, WFMin, NatLessThanWellFounded DEF R
<1>3. PICK s \in S : \A q \in S : ~ (<<q, s>> \in R)
  BY <1>2
<1>4. ASSUME NEW q \in S PROVE s <= q
  <2>1. ~ (q < s)
    BY <1>1, <1>3 DEF OpToRel
  <2> QED
    BY <2>1, <1>1
<1>5. First(S) \in S
  BY <1>3, <1>4 DEF First
<1> QED
  BY <1>5

-----------------------------------------------------------------------------
\* What a message carries.
LEMMA MessageTyped ==
  ASSUME NEW m \in Message
  PROVE  /\ m.flow \in Flow /\ m.flow # None /\ m.sec \in Times /\ m.sequence \in Sequence
         /\ Stamped(m) \in Seq_info
<1>1. m.flow \in Flow /\ m.sec \in Times /\ m.sequence \in Sequence
  BY SequenceFacts DEF Message
<1>2. Stamped(m) \in Seq_info
  BY <1>1 DEF Seq_info, Stamped
<1> QED
  BY <1>1, <1>2, PlaceFacts

\* A list, and an entry, with some members replaced.
LEMMA RecordWithList ==
  ASSUME NEW r \in Winsize_record, NEW l \in [Place -> Seq_info]
  PROVE  [r EXCEPT !.seq_list = l] \in Winsize_record /\ [r EXCEPT !.seq_list = l].flow = r.flow
  BY DEF Winsize_record

LEMMA RecordTaken ==
  ASSUME NEW r \in Winsize_record, NEW m \in Message
  PROVE  Taken(r, m) \in Winsize_record /\ Taken(r, m).flow # None
<1>1. r.seq_list \in [Place -> Seq_info]
  BY DEF Winsize_record
<1>2. [r.seq_list EXCEPT ![0] = Stamped(m)] \in [Place -> Seq_info]
  BY <1>1, MessageTyped
<1> QED
  BY <1>2, MessageTyped DEF Taken, Winsize_record

\* One entry replaced by one that is not unused, or by the blank one.
LEMMA Replaced ==
  ASSUME NEW t, Table(t), Blank(t), NEW e \in Place, NEW r \in Winsize_record,
         r.flow = None => r = NoRecord
  PROVE  Table([t EXCEPT ![e] = r]) /\ Blank([t EXCEPT ![e] = r])
  BY DEF Table, Blank

LEMMA ListReplaced ==
  ASSUME NEW t, Table(t), Blank(t), NEW e \in Place, t[e].flow # None,
         NEW l \in [Place -> Seq_info]
  PROVE  /\ Table([t EXCEPT ![e].seq_list = l])
         /\ Blank([t EXCEPT ![e].seq_list = l])
<1>1. [t EXCEPT ![e].seq_list = l] = [t EXCEPT ![e] = [t[e] EXCEPT !.seq_list = l]]
  BY Zenon
<1>2. t[e] \in Winsize_record
  BY DEF Table
<1>3. /\ [t[e] EXCEPT !.seq_list = l] \in Winsize_record
      /\ [t[e] EXCEPT !.seq_list = l].flow # None
  BY <1>2, RecordWithList
<1> QED
  BY <1>1, <1>3, Replaced

-----------------------------------------------------------------------------
(* What the operations make of a table.                                    *)

LEMMA EntryFacts ==
  ASSUME NEW f
  PROVE  EntriesOf(f) \subseteq Place /\ \A e \in EntriesOf(f) : flow_seq_list[e].flow = f
  BY DEF EntriesOf

\* Among the entries one is the oldest, so a new flow always gets an entry.
LEMMA OldestExists ==
  ASSUME Table(flow_seq_list)
  PROVE  Oldest # {}
<1> DEFINE R == OpToRel(<, Nat)
           Secs == {flow_seq_list[e].sec : e \in Place}
<1>1. \A e \in Place : flow_seq_list[e].sec \in Nat
  <2>1. \A e \in Place : flow_seq_list[e].sec \in Times \cup {0}
    BY DEF Table, Winsize_record
  <2> QED
    BY <2>1, SequenceFacts
<1>2. Secs \subseteq Nat /\ Secs # {}
  BY <1>1, PlaceFacts
<1>3. \E s \in Secs : \A q \in Secs : ~ (<<q, s>> \in R)
  <2> HIDE DEF R, Secs
  <2> QED
    BY <1>2, WFMin, NatLessThanWellFounded DEF R
<1>4. PICK e \in Place : \A q \in Secs : ~ (<<q, flow_seq_list[e].sec>> \in R)
  BY <1>3
<1>5. ASSUME NEW d \in Place PROVE flow_seq_list[e].sec <= flow_seq_list[d].sec
  <2>1. flow_seq_list[d].sec \in Secs
    OBVIOUS
  <2>2. ~ (flow_seq_list[d].sec < flow_seq_list[e].sec)
    BY <1>1, <1>4, <2>1 DEF OpToRel
  <2> QED
    BY <1>1, <2>2
<1> QED
  BY <1>5 DEF Oldest

LEMMA TargetIsPlace ==
  ASSUME Table(flow_seq_list)
  PROVE  Target \in Place
<1>1. Oldest # {} /\ Oldest \subseteq Place
  BY OldestExists DEF Oldest
<1> QED
  BY <1>1, FirstIn, EntryFacts DEF Target, Unused

LEMMA InsertedGood ==
  ASSUME Table(flow_seq_list), Blank(flow_seq_list), NEW m \in Message
  PROVE  Table(Inserted(m)) /\ Blank(Inserted(m))
<1>1. Target \in Place
  BY TargetIsPlace
<1>2. /\ Taken(flow_seq_list[Target], m) \in Winsize_record
      /\ Taken(flow_seq_list[Target], m).flow # None
  BY <1>1, RecordTaken DEF Table
<1>3. Inserted(m) = [flow_seq_list EXCEPT ![Target] = Taken(flow_seq_list[Target], m)]
  BY DEF Inserted
<1> DEFINE r == Taken(flow_seq_list[Target], m)
<1> HIDE DEF r
<1>4. /\ Table([flow_seq_list EXCEPT ![Target] = r])
      /\ Blank([flow_seq_list EXCEPT ![Target] = r])
  BY <1>1, <1>2, Replaced DEF r
<1> QED
  BY <1>3, <1>4 DEF r

LEMMA ClearedGood ==
  ASSUME Table(flow_seq_list), Blank(flow_seq_list), NEW f \in Flow
  PROVE  Table(Cleared(f)) /\ Blank(Cleared(f))
<1>1. CASE EntriesOf(f) = {}
  BY <1>1 DEF Cleared
<1>2. CASE EntriesOf(f) # {}
  <2>1. First(EntriesOf(f)) \in Place
    BY <1>2, EntryFacts, FirstIn
  <2> QED
    BY <1>2, <2>1, BlankTyped, Replaced DEF Cleared
<1> QED
  BY <1>1, <1>2

\* Recording a number keeps a list a list.
LEMMA RecordedTyped ==
  ASSUME NEW l \in [Place -> Seq_info], NEW m \in Message
  PROVE  Recorded(l, m) \in [Place -> Seq_info]
  BY MessageTyped DEF Recorded

LEMMA TrackedGood ==
  ASSUME Table(flow_seq_list), Blank(flow_seq_list), NEW m \in Message
  PROVE  Table(Tracked(m)) /\ Blank(Tracked(m))
<1>1. CASE EntriesOf(m.flow) = {}
  BY <1>1, InsertedGood DEF Tracked
<1>2. CASE EntriesOf(m.flow) # {}
  <2> DEFINE e == First(EntriesOf(m.flow))
             l == Recorded(flow_seq_list[e].seq_list, m)
  <2>1. e \in Place /\ flow_seq_list[e].flow # None
    BY <1>2, EntryFacts, FirstIn, MessageTyped
  <2>2. flow_seq_list[e].seq_list \in [Place -> Seq_info]
    BY <2>1 DEF Table, Winsize_record
  <2>3. l \in [Place -> Seq_info]
    BY <2>2, RecordedTyped
  <2>4. Tracked(m) = [flow_seq_list EXCEPT ![e].seq_list = l]
    BY <1>2, Zenon DEF Tracked
  <2> HIDE DEF e, l
  <2>5. /\ Table([flow_seq_list EXCEPT ![e].seq_list = l])
        /\ Blank([flow_seq_list EXCEPT ![e].seq_list = l])
    BY <2>1, <2>3, ListReplaced, Zenon
  <2> QED
    BY <2>4, <2>5
<1> QED
  BY <1>1, <1>2

LEMMA AcknowledgedGood ==
  ASSUME NEW t, Table(t), Blank(t), NEW m \in Message
  PROVE  Table(Acknowledged(t, m)) /\ Blank(Acknowledged(t, m))
<1> DEFINE others == {e \in Place : t[e].flow = Reverse(m.flow)}
           e == First(others)
           l == [i \in Place |-> IF Passed(t[e].seq_list[i], m) THEN NoSeq ELSE t[e].seq_list[i]]
<1>1. Reverse(m.flow) # None
  <2>1. m.flow \in Connection \X {"up", "down"}
    BY MessageTyped DEF Flow
  <2>2. Reverse(m.flow) \in Flow
    BY <2>1 DEF Reverse, Flow
  <2> QED
    BY <2>2, PlaceFacts
<1>2. CASE others = {}
  BY <1>2 DEF Acknowledged
<1>3. CASE others # {}
  <2>1. e \in others /\ e \in Place
    <3>1. others \subseteq Place
      OBVIOUS
    <3> HIDE DEF others
    <3> QED
      BY <1>3, <3>1, FirstIn
  <2>2. t[e].flow # None
    BY <2>1, <1>1
  <2>3. t[e].seq_list \in [Place -> Seq_info]
    BY <2>1 DEF Table, Winsize_record
  <2>4. l \in [Place -> Seq_info]
    BY <2>3, BlankTyped
  <2>5. Acknowledged(t, m) = [t EXCEPT ![e].seq_list = l]
    BY <1>3, Zenon DEF Acknowledged
  <2> HIDE DEF e, l
  <2>6. Table([t EXCEPT ![e].seq_list = l]) /\ Blank([t EXCEPT ![e].seq_list = l])
    BY <2>1, <2>2, <2>4, ListReplaced, Zenon
  <2> QED
    BY <2>5, <2>6
<1> QED
  BY <1>2, <1>3

LEMMA HitsTyped ==
  ASSUME NEW m \in Message
  PROVE  Hits(m) \in 0 .. SEQLIST
<1>1. SEQLIST \in Nat
  BY SequencesAssumption DEF SequencesAssumption
<1>2. ASSUME NEW S, S \subseteq Place PROVE Cardinality(S) \in 0 .. SEQLIST
  <2>1. IsFiniteSet(S) /\ Cardinality(S) <= Cardinality(Place)
    BY <1>2, PlaceFacts, FS_Subset
  <2> QED
    BY <2>1, <1>1, PlaceFacts, FS_CardinalityType
<1>3. \A numbers : Repeats(numbers, m.sequence) \subseteq Place
  BY DEF Repeats
<1>4. \A numbers : Cardinality(Repeats(numbers, m.sequence)) \in 0 .. SEQLIST
  BY <1>2, <1>3
<1> QED
  BY <1>1, <1>4 DEF Hits

-----------------------------------------------------------------------------
(* The theorems.                                                           *)

TableInv == TypeOK /\ Blank(flow_seq_list)

LEMMA InitInv == Init => TableInv
<1>1. SEQLIST \in Nat
  BY SequencesAssumption DEF SequencesAssumption
<1> QED
  BY <1>1, BlankTyped DEF Init, TableInv, TypeOK, Blank

LEMMA NextInv == TableInv /\ [Next]_vars => TableInv'
<1> SUFFICES ASSUME TableInv, [Next]_vars PROVE TableInv'
  OBVIOUS
<1>1. /\ Table(flow_seq_list) /\ Blank(flow_seq_list)
      /\ counted \in 0 .. SEQLIST /\ trusted \in BOOLEAN /\ SEQLIST \in Nat
  BY SequencesAssumption DEF SequencesAssumption, TableInv, TypeOK, Table
<1>2. SUFFICES /\ Table(flow_seq_list') /\ Blank(flow_seq_list')
               /\ counted' \in 0 .. SEQLIST /\ trusted' \in BOOLEAN
  <2>1. message' \in Message \cup {None}
    BY DEF TableInv, TypeOK, Next, vars
  <2> QED
    BY <2>1 DEF TableInv, TypeOK, Table, Blank
<1>3. ASSUME NEW m \in Message, Syn(m) PROVE <1>2!1
  <2>1. flow_seq_list' = Inserted(m) /\ counted' = 0 /\ trusted' \in BOOLEAN
    BY <1>1, <1>3 DEF Syn
  <2> QED
    BY <1>1, <2>1, InsertedGood
<1>4. ASSUME NEW m \in Message, Fin(m) PROVE <1>2!1
  <2>1. flow_seq_list' = Cleared(m.flow) /\ counted' = 0 /\ trusted' \in BOOLEAN
    BY <1>1, <1>4 DEF Fin
  <2>2. Table(Cleared(m.flow)) /\ Blank(Cleared(m.flow))
    BY <1>1, ClearedGood, MessageTyped
  <2> QED
    BY <1>1, <2>1, <2>2
<1>5. ASSUME NEW m \in Message, Ack(m) PROVE <1>2!1
  <2>1. CASE m.data
    <3>1. /\ flow_seq_list' = Acknowledged(Tracked(m), m)
          /\ counted' = Hits(m) /\ trusted' \in BOOLEAN
      BY <1>1, <1>5, <2>1 DEF Ack
    <3>2. Table(Tracked(m)) /\ Blank(Tracked(m))
      BY <1>1, TrackedGood
    <3> QED
      BY <3>1, <3>2, AcknowledgedGood, HitsTyped
  <2>2. CASE ~ m.data
    <3>1. /\ flow_seq_list' = Acknowledged(flow_seq_list, m)
          /\ counted' = 0 /\ trusted' \in BOOLEAN
      BY <1>1, <1>5, <2>2 DEF Ack
    <3> QED
      BY <1>1, <3>1, AcknowledgedGood
  <2> QED
    BY <2>1, <2>2
<1>6. ASSUME NEW m \in Message, Rst(m) PROVE <1>2!1
  BY <1>1, <1>6 DEF Rst
<1>7. CASE UNCHANGED vars
  BY <1>1, <1>7 DEF vars
<1> QED
  BY <1>3, <1>4, <1>5, <1>6, <1>7 DEF Next

\* Every variable keeps its type: no message, in whatever order, makes
\* insert_flow_info or ack_flow_info write outside the table or a list.
THEOREM TypeCorrect == Spec => []TypeOK
<1>1. TableInv => TypeOK
  BY DEF TableInv
<1> QED
  BY <1>1, InitInv, NextInv, PTL DEF Spec

\* An unused entry is blank, so a flow that gets one (insert_flow_info writes a
\* single number) begins without the numbers of another flow.
THEOREM UnusedStaysBlank == Spec => []UnusedIsBlank
<1>1. TableInv => UnusedIsBlank
  BY DEF TableInv, Blank, UnusedIsBlank, Unused, EntriesOf
<1> QED
  BY <1>1, InitInv, NextInv, PTL DEF Spec

-----------------------------------------------------------------------------
(* Who gets a second entry.                                                *)

\* In the table t entry d has been given to a flow that has entry e as well.
DoubledIn(t, d, e) ==
  /\ d # e /\ t[d].flow # None /\ flow_seq_list[d].flow # t[d].flow
  /\ t[e].flow = t[d].flow

\* A list replaced leaves every flow its entry.
LEMMA ListKeepsFlows ==
  ASSUME NEW t, Table(t), NEW e \in Place, NEW l \in [Place -> Seq_info]
  PROVE  \A d \in Place : [t EXCEPT ![e].seq_list = l][d].flow = t[d].flow
<1>1. [t EXCEPT ![e].seq_list = l] = [t EXCEPT ![e] = [t[e] EXCEPT !.seq_list = l]]
  BY Zenon
<1>2. t[e] \in Winsize_record
  BY DEF Table
<1>3. [t[e] EXCEPT !.seq_list = l].flow = t[e].flow
  BY <1>2, RecordWithList
<1> QED
  BY <1>1, <1>3 DEF Table

LEMMA AcknowledgedKeepsFlows ==
  ASSUME NEW t, Table(t), NEW m \in Message
  PROVE  \A d \in Place : Acknowledged(t, m)[d].flow = t[d].flow
<1> DEFINE others == {e \in Place : t[e].flow = Reverse(m.flow)}
           e == First(others)
           l == [i \in Place |-> IF Passed(t[e].seq_list[i], m) THEN NoSeq ELSE t[e].seq_list[i]]
<1>1. CASE others = {}
  BY <1>1 DEF Acknowledged
<1>2. CASE others # {}
  <2>1. e \in Place
    <3>1. others \subseteq Place
      OBVIOUS
    <3> HIDE DEF others
    <3> QED
      BY <1>2, <3>1, FirstIn
  <2>2. t[e].seq_list \in [Place -> Seq_info]
    BY <2>1 DEF Table, Winsize_record
  <2>3. l \in [Place -> Seq_info]
    BY <2>2, BlankTyped
  <2>4. Acknowledged(t, m) = [t EXCEPT ![e].seq_list = l]
    BY <1>2, Zenon DEF Acknowledged
  <2> HIDE DEF e, l
  <2>5. \A d \in Place : [t EXCEPT ![e].seq_list = l][d].flow = t[d].flow
    BY <2>1, <2>3, ListKeepsFlows
  <2> QED
    BY <2>4, <2>5
<1> QED
  BY <1>1, <1>2

\* An insertion changes the flow of one entry.
LEMMA InsertedAtTarget ==
  ASSUME Table(flow_seq_list), NEW m \in Message
  PROVE  /\ Target \in Place /\ Inserted(m)[Target].flow = m.flow
         /\ \A e \in Place : e # Target => Inserted(m)[e] = flow_seq_list[e]
<1>1. Target \in Place
  BY TargetIsPlace
<1>2. Inserted(m) = [flow_seq_list EXCEPT ![Target] = Taken(flow_seq_list[Target], m)]
  BY DEF Inserted
<1> QED
  BY <1>1, <1>2 DEF Taken, Table

LEMMA InsertedDoubles ==
  ASSUME Table(flow_seq_list), NEW m \in Message, NEW d \in Place, NEW e \in Place,
         DoubledIn(Inserted(m), d, e)
  PROVE  Inserted(m)[d].flow = m.flow /\ e \in EntriesOf(m.flow)
<1>1. d = Target
  BY InsertedAtTarget DEF DoubledIn
<1>2. Inserted(m)[d].flow = m.flow /\ Inserted(m)[e] = flow_seq_list[e]
  BY <1>1, InsertedAtTarget DEF DoubledIn
<1> QED
  BY <1>2 DEF DoubledIn, EntriesOf

LEMMA TrackedNeverDoubles ==
  ASSUME Table(flow_seq_list), NEW m \in Message, NEW d \in Place, NEW e \in Place
  PROVE  ~ DoubledIn(Tracked(m), d, e)
<1>1. CASE EntriesOf(m.flow) = {}
  BY <1>1, InsertedDoubles DEF Tracked
<1>2. CASE EntriesOf(m.flow) # {}
  <2> DEFINE c == First(EntriesOf(m.flow))
             l == Recorded(flow_seq_list[c].seq_list, m)
  <2>1. c \in Place
    BY <1>2, EntryFacts, FirstIn
  <2>2. flow_seq_list[c].seq_list \in [Place -> Seq_info]
    BY <2>1 DEF Table, Winsize_record
  <2>3. l \in [Place -> Seq_info]
    BY <2>2, RecordedTyped
  <2>4. Tracked(m) = [flow_seq_list EXCEPT ![c].seq_list = l]
    BY <1>2, Zenon DEF Tracked
  <2> HIDE DEF c, l
  <2>5. \A b \in Place : [flow_seq_list EXCEPT ![c].seq_list = l][b].flow = flow_seq_list[b].flow
    BY <2>1, <2>3, ListKeepsFlows
  <2> QED
    BY <2>4, <2>5 DEF DoubledIn
<1> QED
  BY <1>1, <1>2

LEMMA ClearedNeverDoubles ==
  ASSUME Table(flow_seq_list), NEW f \in Flow, NEW d \in Place, NEW e \in Place
  PROVE  ~ DoubledIn(Cleared(f), d, e)
<1>1. CASE EntriesOf(f) = {}
  BY <1>1 DEF Cleared, DoubledIn
<1>2. CASE EntriesOf(f) # {}
  <2>1. First(EntriesOf(f)) \in Place
    BY <1>2, EntryFacts, FirstIn
  <2> QED
    BY <1>2, <2>1, BlankTyped DEF Cleared, DoubledIn, Table
<1> QED
  BY <1>1, <1>2

LEMMA NextDoubles ==
  ASSUME Table(flow_seq_list), Blank(flow_seq_list), Next, NEW d \in Place, NEW e \in Place,
         DoubledIn(flow_seq_list', d, e)
  PROVE  \E m \in Message : m.flow = flow_seq_list'[d].flow /\ Syn(m)
<1>1. PICK m \in Message : Syn(m) \/ Fin(m) \/ Ack(m) \/ Rst(m)
  BY DEF Next
<1>2. CASE Syn(m)
  BY <1>2, InsertedDoubles DEF Syn
<1>3. CASE Fin(m)
  BY <1>3, ClearedNeverDoubles, MessageTyped DEF Fin
<1>4. CASE Ack(m)
  <2>1. CASE m.data
    <3>1. flow_seq_list' = Acknowledged(Tracked(m), m)
      BY <1>4, <2>1 DEF Ack
    <3>2. \A c \in Place : flow_seq_list'[c].flow = Tracked(m)[c].flow
      BY <3>1, TrackedGood, AcknowledgedKeepsFlows
    <3> QED
      BY <3>2, TrackedNeverDoubles DEF DoubledIn
  <2>2. CASE ~ m.data
    <3>1. flow_seq_list' = Acknowledged(flow_seq_list, m)
      BY <1>4, <2>2 DEF Ack
    <3> QED
      BY <3>1, AcknowledgedKeepsFlows DEF DoubledIn
  <2> QED
    BY <2>1, <2>2
<1>5. CASE Rst(m)
  BY <1>5 DEF Rst, DoubledIn
<1> QED
  BY <1>1, <1>2, <1>3, <1>4, <1>5

\* A flow that has an entry gets another one from insert_flow_info only for a SYN: what
\* ack_flow_info enters is of a flow without one.
THEOREM HandshakesDouble == Spec => OnlyHandshakesDouble
<1> DEFINE Step == \A d, e \in Place :
                     DoubledIn(flow_seq_list', d, e)
                       => \E m \in Message : m.flow = flow_seq_list'[d].flow /\ Syn(m)
<1>1. TableInv /\ [Next]_vars => [Step]_vars
  <2>1. TableInv => Table(flow_seq_list) /\ Blank(flow_seq_list)
    BY DEF TableInv, TypeOK, Table
  <2> QED
    BY <2>1, NextDoubles
<1>2. Step <=> \A d, e \in Place :
        LET f == flow_seq_list'[d].flow IN
        d # e /\ f # None /\ flow_seq_list[d].flow # f /\ flow_seq_list'[e].flow = f
          => \E m \in Message : m.flow = f /\ Syn(m)
  BY DEF DoubledIn
<1> HIDE DEF Step
<1> QED
  BY <1>1, <1>2, InitInv, NextInv, PTL DEF Spec, OnlyHandshakesDouble

-----------------------------------------------------------------------------
(* The log: what the table is good for while there is room for the stream. *)

EntriesIn(t, f) == {e \in Place : t[e].flow = f}
ListNumbers(l) == {l[i].seq : i \in Place} \ {0}
NumbersIn(t, f) ==
  IF EntriesIn(t, f) = {} THEN {} ELSE ListNumbers(t[First(EntriesIn(t, f))].seq_list)

\* A list whose numbers stand for themselves and are listed once.
CleanList(l) ==
  /\ \A i \in Place : l[i].seq # MINUS1
  /\ \A i, j \in Place : l[i].seq = l[j].seq /\ l[i].seq # 0 => i = j

\* A table with one entry for a flow at most, and with clean lists.
Single(t) == \A d, e \in Place : t[d].flow = t[e].flow /\ t[d].flow # None => d = e
Clean(t) == Table(t) /\ Blank(t) /\ Single(t) /\ \A e \in Place : CleanList(t[e].seq_list)

\* Entry e of t is replaced by r, or its list by l.
Changed(t, u, e, r) == u = [t EXCEPT ![e] = r]
Relisted(t, u, e, l) == u = [t EXCEPT ![e].seq_list = l]

LogInv == trusted => Clean(flow_seq_list)

LEMMA NumberFacts ==
  /\ MINUS1 # 0 /\ NoSeq.seq = 0
  /\ \A l \in [Place -> Seq_info] : \A i \in Place : l[i] \in Seq_info /\ l[i].seq \in Sequence
  /\ \A r \in Winsize_record : r.seq_list \in [Place -> Seq_info]
  /\ NoRecord.seq_list = [i \in Place |-> NoSeq]
  BY SequencesAssumption
  DEF SequencesAssumption, NoSeq, NoRecord, Seq_info, Winsize_record

LEMMA ReverseFacts ==
  ASSUME NEW f \in Flow
  PROVE  Reverse(f) \in Flow /\ Reverse(f) # f /\ Reverse(f) # None
<1>1. PICK c \in Connection, d \in {"up", "down"} : f = <<c, d>>
  BY DEF Flow
<1>2. Reverse(f) = <<c, IF d = "up" THEN "down" ELSE "up">>
  BY <1>1 DEF Reverse
<1>3. Reverse(f) \in Flow /\ Reverse(f) # f
  BY <1>1, <1>2 DEF Flow
<1> QED
  BY <1>3, PlaceFacts

\* The one entry of a flow.
LEMMA OneEntry ==
  ASSUME NEW t, Single(t), NEW f, f # None, NEW e \in Place, t[e].flow = f
  PROVE  /\ EntriesIn(t, f) = {e} /\ First(EntriesIn(t, f)) = e
         /\ NumbersIn(t, f) = ListNumbers(t[e].seq_list)
<1>1. EntriesIn(t, f) = {e}
  BY DEF Single, EntriesIn
<1>2. First(EntriesIn(t, f)) = e
  <2>1. EntriesIn(t, f) \subseteq Place /\ EntriesIn(t, f) # {}
    BY <1>1
  <2> QED
    BY <1>1, <2>1, FirstIn
<1> QED
  BY <1>1, <1>2 DEF NumbersIn

LEMMA NoEntry ==
  ASSUME NEW t, NEW f, \A e \in Place : t[e].flow # f
  PROVE  EntriesIn(t, f) = {} /\ NumbersIn(t, f) = {}
  BY DEF EntriesIn, NumbersIn

\* A flow that has neither the old nor the new entry keeps its numbers.
LEMMA OthersKeep ==
  ASSUME NEW t, Table(t), NEW e \in Place, NEW r, NEW u, Changed(t, u, e, r),
         NEW f, f # t[e].flow, f # r.flow
  PROVE  NumbersIn(u, f) = NumbersIn(t, f)
<1>1. u[e] = r /\ \A d \in Place : d # e => u[d] = t[d]
  BY DEF Table, Changed
<1>2. EntriesIn(u, f) = EntriesIn(t, f)
  BY <1>1 DEF EntriesIn
<1>3. CASE EntriesIn(t, f) = {}
  BY <1>2, <1>3 DEF NumbersIn
<1>4. CASE EntriesIn(t, f) # {}
  <2>1. First(EntriesIn(t, f)) \in EntriesIn(t, f)
    <3>1. EntriesIn(t, f) \subseteq Place
      BY DEF EntriesIn
    <3> QED
      BY <1>4, <3>1, FirstIn
  <2>2. u[First(EntriesIn(t, f))] = t[First(EntriesIn(t, f))]
    BY <1>1, <2>1 DEF EntriesIn
  <2>3. NumbersIn(t, f) = ListNumbers(t[First(EntriesIn(t, f))].seq_list)
    BY <1>4 DEF NumbersIn
  <2>4. NumbersIn(u, f) = ListNumbers(u[First(EntriesIn(t, f))].seq_list)
    BY <1>2, <1>4 DEF NumbersIn
  <2> QED
    BY <2>2, <2>3, <2>4
<1> QED
  BY <1>3, <1>4

\* An entry is replaced by one with a clean list, of a flow that has no other.
LEMMA ReplacedClean ==
  ASSUME NEW t, Clean(t), NEW e \in Place, NEW r \in Winsize_record,
         r.flow = None => r = NoRecord, CleanList(r.seq_list),
         r.flow # None => \A d \in Place : d # e => t[d].flow # r.flow,
         NEW u, Changed(t, u, e, r)
  PROVE  Clean(u)
<1>1. Table(u) /\ Blank(u)
  BY Replaced DEF Clean, Changed
<1>2. u[e] = r /\ \A d \in Place : d # e => u[d] = t[d]
  BY DEF Clean, Table, Changed
<1>3. Single(u)
  BY <1>2 DEF Clean, Single
<1>4. \A d \in Place : CleanList(u[d].seq_list)
  BY <1>2 DEF Clean
<1> QED
  BY <1>1, <1>3, <1>4 DEF Clean

\* The list of an entry is replaced: of the other flows, and of the flow itself.
LEMMA OthersKeepLists ==
  ASSUME NEW t, Table(t), NEW e \in Place, NEW l \in [Place -> Seq_info], NEW u,
         Relisted(t, u, e, l), NEW f, f # t[e].flow
  PROVE  NumbersIn(u, f) = NumbersIn(t, f)
<1> DEFINE r == [t[e] EXCEPT !.seq_list = l]
<1>1. Changed(t, u, e, r)
  BY Zenon DEF Changed, Relisted
<1>2. r.flow = t[e].flow
  BY RecordWithList DEF Table
<1> HIDE DEF r
<1> QED
  BY <1>1, <1>2, OthersKeep

LEMMA ListChanged ==
  ASSUME NEW t, Clean(t), NEW f, f # None, NEW e \in Place, t[e].flow = f,
         NEW l \in [Place -> Seq_info], CleanList(l),
         NEW u, Relisted(t, u, e, l)
  PROVE  Clean(u) /\ NumbersIn(u, f) = ListNumbers(l)
<1> DEFINE r == [t[e] EXCEPT !.seq_list = l]
<1>1. Changed(t, u, e, r)
  BY Zenon DEF Changed, Relisted
<1>2. t[e] \in Winsize_record /\ Table(t)
  BY DEF Clean, Table
<1>3. r \in Winsize_record /\ r.flow = f /\ r.seq_list = l
  <2>1. r \in Winsize_record /\ r.flow = f
    BY <1>2, RecordWithList
  <2>2. r.seq_list = l
    BY <1>2 DEF Winsize_record
  <2> QED
    BY <2>1, <2>2
<1> HIDE DEF r
<1>4. \A d \in Place : d # e => t[d].flow # f
  BY DEF Clean, Single
<1>5. Clean(u)
  BY <1>1, <1>3, <1>4, ReplacedClean
<1>6. u[e] = r
  BY <1>1, <1>2 DEF Table, Changed
<1>7. NumbersIn(u, f) = ListNumbers(l)
  BY <1>3, <1>5, <1>6, OneEntry DEF Clean
<1> QED
  BY <1>5, <1>7

-----------------------------------------------------------------------------
(* What each operation makes of a clean table.                             *)

LEMMA EntriesOfIn ==
  /\ \A f : EntriesOf(f) = EntriesIn(flow_seq_list, f)
  /\ \A f : NumbersOf(f) = NumbersIn(flow_seq_list, f)
  BY DEF EntriesOf, EntriesIn, NumbersOf, NumbersIn, ListNumbers

LEMMA InsertedLog ==
  ASSUME Clean(flow_seq_list), NEW m \in Message, Ordinary(m), EntriesOf(m.flow) = {},
         Unused # {}
  PROVE  /\ Clean(Inserted(m))
         /\ NumbersIn(Inserted(m), m.flow) = {m.sequence}
         /\ \A g \in Flow : g # m.flow => NumbersIn(Inserted(m), g) = NumbersOf(g)
<1> DEFINE r == Taken(flow_seq_list[Target], m)
           u == Inserted(m)
<1>1. /\ Table(flow_seq_list) /\ Blank(flow_seq_list)
      /\ Changed(flow_seq_list, u, Target, r)
  BY DEF Clean, Inserted, Changed
<1>2. Target \in Place /\ flow_seq_list[Target] = NoRecord
  <2>1. Target \in Unused /\ Target \in Place
    BY FirstIn, EntryFacts DEF Target, Unused
  <2> QED
    BY <1>1, <2>1, EntryFacts DEF Blank, Unused
<1>3. r \in Winsize_record /\ r.flow = m.flow /\ m.flow # None
  BY <1>2, BlankTyped, RecordTaken, MessageTyped DEF Taken
<1>4. r.seq_list = [i \in Place |-> IF i = 0 THEN Stamped(m) ELSE NoSeq]
  <2>1. r.seq_list = [NoRecord.seq_list EXCEPT ![0] = Stamped(m)]
    BY <1>2 DEF Taken
  <2> QED
    BY <2>1, NumberFacts, PlaceFacts
<1>5. /\ r.seq_list[0].seq = m.sequence /\ m.sequence # 0 /\ m.sequence # MINUS1
      /\ \A i \in Place : i # 0 => r.seq_list[i].seq = 0
  <2> HIDE DEF r
  <2>1. Stamped(m).seq = m.sequence
    BY DEF Stamped
  <2> QED
    BY <1>4, <2>1, NumberFacts, PlaceFacts DEF Ordinary
<1> HIDE DEF r
<1>6. CleanList(r.seq_list)
  BY <1>5, NumberFacts DEF CleanList
<1>7. ListNumbers(r.seq_list) = {m.sequence}
  BY <1>5, PlaceFacts DEF ListNumbers
<1>8. \A d \in Place : flow_seq_list[d].flow # m.flow
  BY DEF EntriesOf
<1> HIDE DEF u
<1>9. Clean(u)
  BY <1>1, <1>2, <1>3, <1>6, <1>8, ReplacedClean
<1>10. u[Target] = r
  BY <1>1, <1>2 DEF Table, Changed
<1>11. NumbersIn(u, m.flow) = {m.sequence}
  BY <1>2, <1>3, <1>7, <1>9, <1>10, OneEntry DEF Clean
<1>12. \A g \in Flow : g # m.flow => NumbersIn(u, g) = NumbersOf(g)
  <2>1. ASSUME NEW g \in Flow, g # m.flow PROVE NumbersIn(u, g) = NumbersOf(g)
    <3>1. g # flow_seq_list[Target].flow /\ g # r.flow
      BY <1>2, <1>3, <2>1, BlankTyped, PlaceFacts
    <3>2. NumbersIn(u, g) = NumbersIn(flow_seq_list, g)
      BY <1>1, <1>2, <3>1, OthersKeep
    <3> QED
      BY <3>2, EntriesOfIn
  <2> QED
    BY <2>1
<1> QED
  BY <1>9, <1>11, <1>12 DEF u

LEMMA ClearedLog ==
  ASSUME Clean(flow_seq_list), NEW f \in Flow
  PROVE  /\ Clean(Cleared(f)) /\ NumbersIn(Cleared(f), f) = {}
         /\ \A g \in Flow : g # f => NumbersIn(Cleared(f), g) = NumbersOf(g)
<1>1. CASE EntriesOf(f) = {}
  BY <1>1, EntriesOfIn DEF Cleared, NumbersIn
<1>2. CASE EntriesOf(f) # {}
  <2> DEFINE e == First(EntriesOf(f))
             u == Cleared(f)
  <2>1. /\ e \in Place /\ flow_seq_list[e].flow = f /\ f # None
        /\ Changed(flow_seq_list, u, e, NoRecord)
    BY <1>2, EntryFacts, FirstIn, PlaceFacts DEF Cleared, Changed
  <2>2. Table(flow_seq_list) /\ Single(flow_seq_list)
    BY DEF Clean
  <2>3. CleanList(NoRecord.seq_list)
    BY NumberFacts DEF CleanList
  <2> HIDE DEF e, u
  <2>4. Clean(u)
    BY <2>1, <2>3, BlankTyped, ReplacedClean
  <2>5. \A d \in Place : u[d].flow # f
    BY <2>1, <2>2, BlankTyped DEF Table, Single, Changed
  <2>6. \A g \in Flow : g # f => NumbersIn(u, g) = NumbersOf(g)
    <3>1. ASSUME NEW g \in Flow, g # f PROVE NumbersIn(u, g) = NumbersOf(g)
      <4>1. g # flow_seq_list[e].flow /\ g # NoRecord.flow
        BY <2>1, <3>1, BlankTyped, PlaceFacts
      <4>2. NumbersIn(u, g) = NumbersIn(flow_seq_list, g)
        BY <2>1, <2>2, <4>1, OthersKeep
      <4> QED
        BY <4>2, EntriesOfIn
    <3> QED
      BY <3>1
  <2>7. NumbersIn(u, f) = {}
    BY <2>5, NoEntry
  <2> QED
    BY <2>4, <2>6, <2>7 DEF u
<1> QED
  BY <1>1, <1>2

\* Recording a number in a clean list that has it or has a place for it.
LEMMA RecordedLog ==
  ASSUME NEW l \in [Place -> Seq_info], CleanList(l), NEW m \in Message, Ordinary(m),
         Repeats(l, m.sequence) \cup Vacant(l) # {}
  PROVE  /\ Recorded(l, m) \in [Place -> Seq_info] /\ CleanList(Recorded(l, m))
         /\ ListNumbers(Recorded(l, m)) = ListNumbers(l) \cup {m.sequence}
         /\ Cardinality(Repeats(l, m.sequence)) = IF m.sequence \in ListNumbers(l) THEN 1 ELSE 0
<1> DEFINE s == m.sequence
           hits == Repeats(l, s)
           places == IF hits # {} THEN hits ELSE IF Vacant(l) = {} THEN {} ELSE {First(Vacant(l))}
           k == Recorded(l, m)
<1>1. s # 0 /\ s # MINUS1 /\ Stamped(m).seq = s
  BY DEF Ordinary, Stamped
<1>2. k = [i \in Place |-> IF i \in places THEN Stamped(m) ELSE l[i]]
  BY Zenon DEF Recorded
<1>3. hits \subseteq Place /\ \A i \in Place : i \in hits <=> l[i].seq = s
  BY <1>1 DEF Repeats
<1>4. \A i \in Vacant(l) : i \in Place /\ l[i].seq = 0
  BY DEF Vacant, CleanList
<1>5. \E p \in Place : /\ places = {p}
                       /\ \/ l[p].seq = s /\ hits = {p}
                          \/ l[p].seq = 0 /\ hits = {}
  <2>1. CASE hits # {}
    <3>1. PICK p \in Place : p \in hits
      BY <1>3, <2>1
    <3>2. hits = {p}
      BY <1>1, <1>3, <3>1 DEF CleanList
    <3> QED
      BY <1>3, <3>1, <3>2
  <2>2. CASE hits = {}
    <3>1. Vacant(l) # {} /\ Vacant(l) \subseteq Place
      BY <1>4, <2>2
    <3>2. First(Vacant(l)) \in Vacant(l) /\ First(Vacant(l)) \in Place
      BY <3>1, FirstIn
    <3> QED
      BY <1>4, <2>2, <3>1, <3>2
  <2> QED
    BY <2>1, <2>2
<1>6. PICK p \in Place : /\ places = {p}
                         /\ \/ l[p].seq = s /\ hits = {p}
                            \/ l[p].seq = 0 /\ hits = {}
  BY <1>5
<1>7. k[p].seq = s /\ \A i \in Place : i # p => k[i] = l[i]
  BY <1>1, <1>2, <1>6
<1>8. k \in [Place -> Seq_info]
  BY RecordedTyped
<1>9. Cardinality(hits) = IF s \in ListNumbers(l) THEN 1 ELSE 0
  <2>1. s \in ListNumbers(l) <=> hits # {}
    BY <1>1, <1>3 DEF ListNumbers
  <2>2. Cardinality({}) = 0 /\ Cardinality({p}) = 1
    BY FS_EmptySet, FS_Singleton
  <2> HIDE DEF hits, s
  <2> QED
    BY <1>6, <2>1, <2>2
<1> HIDE DEF hits, places, s, k
<1>10. CleanList(k)
  <2>1. \A i \in Place : k[i].seq # MINUS1
    BY <1>1, <1>7 DEF CleanList
  <2>2. \A i \in Place : l[i].seq = s => i = p
    BY <1>3, <1>6
  <2>3. ASSUME NEW i \in Place, NEW j \in Place, k[i].seq = k[j].seq, k[i].seq # 0
        PROVE  i = j
    <3>1. CASE i = p \/ j = p
      BY <1>7, <2>2, <2>3, <3>1
    <3>2. CASE i # p /\ j # p
      BY <1>7, <2>3, <3>2 DEF CleanList
    <3> QED
      BY <3>1, <3>2
  <2> QED
    BY <2>1, <2>3 DEF CleanList
<1>11. ListNumbers(k) = ListNumbers(l) \cup {s}
  <2>1. \A n \in ListNumbers(k) : n \in ListNumbers(l) \cup {s}
    BY <1>7 DEF ListNumbers
  <2>2. \A n \in ListNumbers(l) : n \in ListNumbers(k)
    <3>1. SUFFICES ASSUME NEW i \in Place, l[i].seq # 0 PROVE l[i].seq \in ListNumbers(k)
      BY DEF ListNumbers
    <3>2. CASE i = p
      BY <1>1, <1>6, <1>7, <3>1, <3>2 DEF ListNumbers
    <3>3. CASE i # p
      BY <1>7, <3>1, <3>3 DEF ListNumbers
    <3> QED
      BY <3>2, <3>3
  <2>3. s \in ListNumbers(k)
    BY <1>1, <1>7 DEF ListNumbers
  <2> QED
    BY <2>1, <2>2, <2>3
<1> QED
  BY <1>8, <1>9, <1>10, <1>11 DEF k, s, hits

\* A segment there is room for.
LEMMA TrackedLog ==
  ASSUME Clean(flow_seq_list), NEW m \in Message, RoomForData(m)
  PROVE  /\ Clean(Tracked(m))
         /\ NumbersIn(Tracked(m), m.flow) = NumbersOf(m.flow) \cup {m.sequence}
         /\ \A g \in Flow : g # m.flow => NumbersIn(Tracked(m), g) = NumbersOf(g)
         /\ Hits(m) = IF m.sequence \in NumbersOf(m.flow) THEN 1 ELSE 0
<1>1. Ordinary(m) /\ m.flow \in Flow /\ m.flow # None
  BY MessageTyped DEF RoomForData
<1>2. CASE EntriesOf(m.flow) = {}
  <2>1. Unused # {} /\ Tracked(m) = Inserted(m) /\ Hits(m) = 0
    BY <1>2 DEF RoomForData, Tracked, Hits
  <2>2. NumbersOf(m.flow) = {}
    BY <1>2 DEF NumbersOf
  <2> QED
    BY <1>1, <1>2, <2>1, <2>2, InsertedLog
<1>3. CASE EntriesOf(m.flow) # {}
  <2> DEFINE e == First(EntriesOf(m.flow))
             l == flow_seq_list[e].seq_list
             k == Recorded(l, m)
  <2>1. e \in Place /\ flow_seq_list[e].flow = m.flow
    BY <1>3, EntryFacts, FirstIn
  <2>2. l \in [Place -> Seq_info] /\ CleanList(l)
    BY <2>1 DEF Clean, Table, Winsize_record
  <2>3. Repeats(l, m.sequence) \cup Vacant(l) # {}
    BY <1>3 DEF RoomForData
  <2>4. Relisted(flow_seq_list, Tracked(m), e, k)
    BY <1>3, Zenon DEF Tracked, Relisted
  <2>5. NumbersOf(m.flow) = ListNumbers(l)
    BY <1>3 DEF NumbersOf, ListNumbers
  <2>6. Hits(m) = Cardinality(Repeats(l, m.sequence))
    BY <1>3 DEF Hits
  <2> HIDE DEF e, l
  <2>7. /\ k \in [Place -> Seq_info] /\ CleanList(k)
        /\ ListNumbers(k) = ListNumbers(l) \cup {m.sequence}
        /\ Hits(m) = IF m.sequence \in ListNumbers(l) THEN 1 ELSE 0
    BY <1>1, <2>2, <2>3, <2>6, RecordedLog
  <2> HIDE DEF k
  <2>8. /\ Clean(Tracked(m)) /\ NumbersIn(Tracked(m), m.flow) = ListNumbers(k)
        /\ \A g : g # m.flow => NumbersIn(Tracked(m), g) = NumbersIn(flow_seq_list, g)
    <3>1. Clean(Tracked(m))
      BY <1>1, <2>1, <2>4, <2>7, ListChanged
    <3>2. NumbersIn(Tracked(m), m.flow) = ListNumbers(k)
      BY <1>1, <2>1, <2>4, <2>7, ListChanged
    <3>3. ASSUME NEW g, g # m.flow
          PROVE  NumbersIn(Tracked(m), g) = NumbersIn(flow_seq_list, g)
      BY <1>1, <2>1, <2>4, <2>7, <3>3, OthersKeepLists DEF Clean
    <3> QED
      BY <3>1, <3>2, <3>3
  <2> QED
    BY <2>5, <2>7, <2>8, EntriesOfIn
<1> QED
  BY <1>2, <1>3

\* The numbers an acknowledgement takes from a list are below it.
LEMMA PassedLog ==
  ASSUME NEW l \in [Place -> Seq_info], CleanList(l), NEW m \in Message, NEW k,
         k = [i \in Place |-> IF Passed(l[i], m) THEN NoSeq ELSE l[i]]
  PROVE  /\ k \in [Place -> Seq_info] /\ CleanList(k)
         /\ ListNumbers(k) \subseteq ListNumbers(l)
         /\ \A n \in ListNumbers(l) \ ListNumbers(k) : n < m.ack_sequence
<1>1. k \in [Place -> Seq_info]
  BY BlankTyped
<1>2. \A i \in Place : \/ k[i] = l[i]
                       \/ k[i].seq = 0 /\ l[i].seq < m.ack_sequence
  BY NumberFacts DEF Passed
<1>3. CleanList(k)
  BY <1>2, NumberFacts DEF CleanList
<1>4. ListNumbers(k) \subseteq ListNumbers(l)
  BY <1>2 DEF ListNumbers
<1>5. ASSUME NEW i \in Place, l[i].seq # 0, l[i].seq \notin ListNumbers(k)
      PROVE  l[i].seq < m.ack_sequence
  BY <1>2, <1>5 DEF ListNumbers
<1>6. \A n \in ListNumbers(l) \ ListNumbers(k) : n < m.ack_sequence
  BY <1>5 DEF ListNumbers
<1> QED
  BY <1>1, <1>3, <1>4, <1>6

LEMMA AcknowledgedLog ==
  ASSUME NEW t, Clean(t), NEW m \in Message
  PROVE  LET g == Reverse(m.flow)
             u == Acknowledged(t, m)
         IN  /\ Clean(u)
             /\ NumbersIn(u, g) \subseteq NumbersIn(t, g)
             /\ \A n \in NumbersIn(t, g) \ NumbersIn(u, g) : n < m.ack_sequence
             /\ \A f \in Flow : f # g => NumbersIn(u, f) = NumbersIn(t, f)
<1> DEFINE g == Reverse(m.flow)
           u == Acknowledged(t, m)
           others == {e \in Place : t[e].flow = g}
<1>1. g # None
  BY MessageTyped, ReverseFacts
<1>2. CASE others = {}
  <2>1. u = t
    BY <1>2 DEF Acknowledged
  <2> HIDE DEF u
  <2> QED
    BY <2>1 DEF u
<1>3. CASE others # {}
  <2> DEFINE e == First(others)
             l == t[e].seq_list
             k == [i \in Place |-> IF Passed(l[i], m) THEN NoSeq ELSE l[i]]
  <2>1. e \in Place /\ t[e].flow = g
    <3>1. others \subseteq Place
      OBVIOUS
    <3>2. First(others) \in others
      <4> HIDE DEF others
      <4> QED
        BY <1>3, <3>1, FirstIn
    <3> QED
      BY <3>2
  <2>2. Relisted(t, u, e, k)
    BY <1>3, Zenon DEF Acknowledged, Relisted
  <2>3. l \in [Place -> Seq_info] /\ CleanList(l)
    BY <2>1 DEF Clean, Table, Winsize_record
  <2>4. NumbersIn(t, g) = ListNumbers(l)
    <3>1. Single(t)
      BY DEF Clean
    <3> HIDE DEF e, g
    <3> QED
      BY <1>1, <2>1, <3>1, OneEntry
  <2> HIDE DEF e, l, g
  <2>5. /\ k \in [Place -> Seq_info] /\ CleanList(k)
        /\ ListNumbers(k) \subseteq ListNumbers(l)
        /\ \A n \in ListNumbers(l) \ ListNumbers(k) : n < m.ack_sequence
    BY <2>3, PassedLog
  <2> HIDE DEF k
  <2> HIDE DEF u
  <2>6. /\ Clean(u) /\ NumbersIn(u, g) = ListNumbers(k)
        /\ \A f : f # g => NumbersIn(u, f) = NumbersIn(t, f)
    <3>1. Clean(u)
      BY <1>1, <2>1, <2>2, <2>5, ListChanged
    <3>2. NumbersIn(u, g) = ListNumbers(k)
      BY <1>1, <2>1, <2>2, <2>5, ListChanged
    <3>3. ASSUME NEW f, f # g PROVE NumbersIn(u, f) = NumbersIn(t, f)
      BY <1>1, <2>1, <2>2, <2>5, <3>3, OthersKeepLists DEF Clean
    <3> QED
      BY <3>1, <3>2, <3>3
  <2> QED
    BY <2>4, <2>5, <2>6 DEF u, g
<1> QED
  BY <1>2, <1>3

-----------------------------------------------------------------------------
(* The steps of the table are steps of the log.                            *)

\* The numbers of a flow before and after a step.
LEMMA OpenFacts ==
  /\ \A f \in Flow : NumbersOf(f) = NumbersIn(flow_seq_list, f)
  /\ \A f \in Flow : NumbersOf(f)' = NumbersIn(flow_seq_list', f)
  BY DEF EntriesOf, EntriesIn, NumbersOf, NumbersIn, ListNumbers

LEMMA NumbersTyped ==
  ASSUME NEW t, Table(t), NEW f
  PROVE  NumbersIn(t, f) \subseteq Sequence
<1>1. CASE EntriesIn(t, f) = {}
  BY <1>1 DEF NumbersIn
<1>2. CASE EntriesIn(t, f) # {}
  <2> DEFINE e == First(EntriesIn(t, f))
  <2>1. e \in Place
    BY <1>2, FirstIn DEF EntriesIn
  <2>2. t[e].seq_list \in [Place -> Seq_info]
    BY <2>1, NumberFacts DEF Table
  <2>3. ListNumbers(t[e].seq_list) \subseteq Sequence
    BY <2>2, NumberFacts DEF ListNumbers
  <2> QED
    BY <1>2, <2>3 DEF NumbersIn
<1> QED
  BY <1>1, <1>2

\* A handshake there is room for opens its number.
LEMMA SynLog ==
  ASSUME Clean(flow_seq_list), trusted, trusted', NEW m \in Message, Syn(m)
  PROVE  Clean(flow_seq_list') /\ Log!Syn(m)
<1>1. /\ m.flags = "syn" /\ flow_seq_list' = Inserted(m) /\ counted' = 0
      /\ Ordinary(m) /\ EntriesOf(m.flow) = {} /\ Unused # {}
  BY DEF Syn, RoomForSyn
<1>2. /\ Clean(flow_seq_list')
      /\ NumbersIn(flow_seq_list', m.flow) = {m.sequence}
      /\ \A g \in Flow : g # m.flow => NumbersIn(flow_seq_list', g) = NumbersOf(g)
  BY <1>1, InsertedLog
<1>3. NumbersOf(m.flow) = {} /\ m.flow \in Flow
  BY <1>1, MessageTyped DEF NumbersOf
<1> QED
  BY <1>1, <1>2, <1>3, OpenFacts DEF Log!Syn, Log!Opens, Log!Keep

\* A FIN forgets the numbers of its flow.
LEMMA FinLog ==
  ASSUME Clean(flow_seq_list), trusted, trusted', NEW m \in Message, Fin(m)
  PROVE  Clean(flow_seq_list') /\ Log!Fin(m)
<1>1. m.flags = "fin" /\ flow_seq_list' = Cleared(m.flow) /\ counted' = 0 /\ m.flow \in Flow
  BY MessageTyped DEF Fin
<1>2. /\ Clean(flow_seq_list') /\ NumbersIn(flow_seq_list', m.flow) = {}
      /\ \A g \in Flow : g # m.flow => NumbersIn(flow_seq_list', g) = NumbersOf(g)
  BY <1>1, ClearedLog
<1> QED
  BY <1>1, <1>2, OpenFacts DEF Log!Fin, Log!Keep

LEMMA RstLog ==
  ASSUME Clean(flow_seq_list), trusted, trusted', NEW m \in Message, Rst(m)
  PROVE  Clean(flow_seq_list') /\ Log!Rst(m)
<1>1. m.flags = "rst" /\ flow_seq_list' = flow_seq_list /\ counted' = 0
  BY DEF Rst
<1> QED
  BY <1>1, OpenFacts DEF Log!Rst, Log!Keep

\* A segment there is room for is counted if its number is open, and opens it.
LEMMA SegmentLog ==
  ASSUME Clean(flow_seq_list), trusted, trusted', NEW m \in Message, Ack(m), m.data
  PROVE  Clean(flow_seq_list') /\ Log!Segment(m)
<1> DEFINE f == m.flow
           g == Reverse(m.flow)
           t == Tracked(m)
<1>1. /\ m.flags = "ack" /\ flow_seq_list' = Acknowledged(t, m)
      /\ counted' = Hits(m) /\ RoomForData(m)
  BY DEF Ack
<1>2. f \in Flow /\ g \in Flow /\ g # f
  BY MessageTyped, ReverseFacts
<1>3. /\ Clean(t) /\ NumbersIn(t, f) = NumbersOf(f) \cup {m.sequence}
      /\ \A h \in Flow : h # f => NumbersIn(t, h) = NumbersOf(h)
      /\ Hits(m) = IF m.sequence \in NumbersOf(f) THEN 1 ELSE 0
  BY <1>1, TrackedLog
<1> HIDE DEF t
<1>4. /\ Clean(flow_seq_list')
      /\ NumbersIn(flow_seq_list', g) \subseteq NumbersIn(t, g)
      /\ \A n \in NumbersIn(t, g) \ NumbersIn(flow_seq_list', g) : n < m.ack_sequence
      /\ \A h \in Flow : h # g => NumbersIn(flow_seq_list', h) = NumbersIn(t, h)
  BY <1>1, <1>3, AcknowledgedLog
<1>5. /\ NumbersIn(flow_seq_list', f) = NumbersOf(f) \cup {m.sequence}
      /\ \A h \in Flow \ {f, g} : NumbersIn(flow_seq_list', h) = NumbersOf(h)
      /\ NumbersIn(flow_seq_list', g) \subseteq NumbersOf(g)
      /\ \A n \in NumbersOf(g) \ NumbersIn(flow_seq_list', g) : n < m.ack_sequence
  BY <1>2, <1>3, <1>4
<1>6. Log!Opens(f, m.sequence) /\ Log!Counts(f, m.sequence)
  BY <1>1, <1>2, <1>3, <1>5, OpenFacts DEF Log!Opens, Log!Counts
<1>7. Log!Forgets(g, m.ack_sequence)
  BY <1>2, <1>5, OpenFacts DEF Log!Forgets
<1>8. Log!Keep(Flow \ {f, g})
  BY <1>5, OpenFacts DEF Log!Keep
<1> QED
  BY <1>1, <1>4, <1>6, <1>7, <1>8 DEF Log!Segment

\* An acknowledgement without data forgets numbers of the other direction only.
LEMMA PureAckLog ==
  ASSUME Clean(flow_seq_list), trusted, trusted', NEW m \in Message, Ack(m), ~ m.data
  PROVE  Clean(flow_seq_list') /\ Log!PureAck(m)
<1> DEFINE g == Reverse(m.flow)
<1>1. m.flags = "ack" /\ flow_seq_list' = Acknowledged(flow_seq_list, m) /\ counted' = 0
  BY DEF Ack
<1>2. g \in Flow
  BY MessageTyped, ReverseFacts
<1>3. /\ Clean(flow_seq_list')
      /\ NumbersIn(flow_seq_list', g) \subseteq NumbersIn(flow_seq_list, g)
      /\ \A n \in NumbersIn(flow_seq_list, g) \ NumbersIn(flow_seq_list', g) : n < m.ack_sequence
      /\ \A h \in Flow : h # g => NumbersIn(flow_seq_list', h) = NumbersIn(flow_seq_list, h)
  BY <1>1, AcknowledgedLog
<1>4. Log!Forgets(g, m.ack_sequence)
  BY <1>2, <1>3, OpenFacts DEF Log!Forgets
<1>5. Log!Keep(Flow \ {g})
  BY <1>3, OpenFacts DEF Log!Keep
<1> QED
  BY <1>1, <1>3, <1>4, <1>5 DEF Log!PureAck

\* As long as the stream is trusted the table stays clean, and a step of it is one of
\* the log; a message the table has no room for ends the log for good.
LEMMA LogInit == Init => LogInv /\ Log!Init
<1> SUFFICES ASSUME Init PROVE LogInv /\ Log!Init
  OBVIOUS
<1>1. TableInv /\ \A e \in Place : flow_seq_list[e] = NoRecord
  BY InitInv DEF Init
<1>2. Table(flow_seq_list) /\ Blank(flow_seq_list) /\ NoRecord.flow = None
  BY <1>1, BlankTyped DEF TableInv, TypeOK, Table
<1>3. CleanList(NoRecord.seq_list)
  BY NumberFacts DEF CleanList
<1>4. Clean(flow_seq_list)
  BY <1>1, <1>2, <1>3 DEF Clean, Single
<1>5. \A f \in Flow : NumbersOf(f) = {}
  <2>1. \A f \in Flow : f # None
    BY PlaceFacts
  <2>2. \A f \in Flow : EntriesOf(f) = {}
    BY <1>1, <1>2, <2>1 DEF EntriesOf
  <2> QED
    BY <2>2 DEF NumbersOf
<1> QED
  BY <1>4, <1>5 DEF LogInv, Init, Log!Init, Log!Nothing

LEMMA LogStep ==
  ASSUME TableInv, TableInv', LogInv, [Next]_vars
  PROVE  LogInv' /\ [Log!Next]_(Log!vars)
<1>1. trusted \in BOOLEAN /\ trusted' \in BOOLEAN
  BY DEF TableInv, TypeOK
<1>2. ASSUME NEW m \in Message, Syn(m) \/ Fin(m) \/ Ack(m) \/ Rst(m),
             message' = IF trusted' THEN m ELSE None
      PROVE  LogInv' /\ Log!Next
  <2>1. CASE trusted'
    <3>1. trusted /\ Clean(flow_seq_list) /\ message' = m
      BY <1>1, <1>2, <2>1 DEF LogInv, Syn, Fin, Ack, Rst
    <3>2. /\ Clean(flow_seq_list')
          /\ \/ Log!Syn(m) \/ Log!Fin(m) \/ Log!Rst(m) \/ Log!Segment(m) \/ Log!PureAck(m)
      BY <1>2, <2>1, <3>1, SynLog, FinLog, RstLog, SegmentLog, PureAckLog
    <3>3. \A f \in Flow : NumbersOf(f)' \in SUBSET Sequence
      BY <3>2, NumbersTyped, OpenFacts DEF Clean
    <3>4. [f \in Flow |-> IF trusted' THEN NumbersOf(f)' ELSE {}] \in [Flow -> SUBSET Sequence]
      BY <3>3
    <3>5. LogInv'
      BY <3>2 DEF LogInv, Clean
    <3> QED
      BY <1>1, <2>1, <3>1, <3>2, <3>4, <3>5 DEF Log!Next
  <2>2. CASE ~ trusted'
    <3>1. Log!GiveUp
      BY <1>1, <1>2, <2>2 DEF Log!GiveUp, Log!Nothing
    <3> QED
      BY <2>2, <3>1 DEF LogInv, Log!Next
  <2> QED
    BY <2>1, <2>2
<1>3. CASE Next
  BY <1>2, <1>3 DEF Next
<1>4. CASE UNCHANGED vars
  <2>1. /\ flow_seq_list' = flow_seq_list /\ counted' = counted
        /\ trusted' = trusted /\ message' = message
    BY <1>4 DEF vars
  <2>2. \A f \in Flow : NumbersOf(f)' = NumbersOf(f)
    BY <2>1, OpenFacts
  <2>3. LogInv'
    BY <2>1 DEF LogInv, Clean
  <2> QED
    BY <2>1, <2>2, <2>3 DEF Log!vars
<1> QED
  BY <1>3, <1>4

\* The table is the log that RetransLog promises: while there is room for the stream,
\* ack_flow_info adds 1 to count_retrans for a segment exactly if its number is open in
\* its flow, never more, and a number is forgotten only by an acknowledgement of the
\* other direction that is beyond it or by the flow's FIN.
THEOREM TableIsLog == Spec => ImplementsLog
<1>1. TableInv /\ LogInv /\ [Next]_vars => TableInv' /\ LogInv' /\ [Log!Next]_(Log!vars)
  BY NextInv, LogStep
<1> QED
  BY <1>1, InitInv, LogInit, PTL DEF Spec, ImplementsLog, Log!Spec

-----------------------------------------------------------------------------
(* NeighbourLists.  The invariant.                                         *)

\* The old ones among the first k nodes, and how many nodes the walk has passed.
OldUpTo(nodelist, k) == {i \in 1 .. k : Old(nodelist[i])}
Walked == IF pc = "walk" THEN tlist - 1 ELSE Len(list)

\* The handler is at a node of the list, or past them all with its sample.
HandlerInv ==
  /\ pc = "walk" => tlist \in 1 .. Len(list)
  /\ pc # "idle" => sample \in Node
  /\ pc = "enter" /\ list = <<>> => removed > 0

\* A node has the time its name was entered with, and whoever is fresh has a node.
HeardInv ==
  /\ \A i \in DOMAIN list : heard[list[i].name] = list[i].sec
  /\ ordered => \A n \in Name :
       /\ heard[n] <= sample.sec
       /\ heard[n] # NoTime /\ sample.sec - heard[n] <= AGE
            => \E i \in DOMAIN list : list[i].name = n

HalvedInv == Cardinality(OldUpTo(list, Walked)) <= removed

ReaderInv == alone => reader # "freed" /\ (reader # "out" => pc = "idle" /\ list # <<>>)

NeighboursInv ==
  /\ NeighboursTypeOK /\ ListIsWellFormed /\ HandlerInv
  /\ HeardInv /\ HalvedInv /\ ReaderInv

\* A node in numbers.
LEMMA NodeFacts ==
  /\ AGE \in Nat /\ NoTime = -1 /\ 0 \in Time
  /\ \A t \in Time : t \in Nat /\ t # NoTime
  /\ \A n \in Node : n.name \in Name /\ n.sec \in Time /\ n.sec \in Nat
<1>1. AGE \in Nat /\ MaxTime \in Nat
  BY NeighboursAssumption DEF NeighboursAssumption
<1>2. \A t \in 0 .. MaxTime : t \in Nat /\ t # -1
  BY <1>1
<1>3. \A n \in Node : n.name \in Name /\ n.sec \in Time
  BY DEF Node
<1> QED
  BY <1>1, <1>2, <1>3 DEF Time, NoTime

LEMMA ListTypes ==
  ASSUME NeighboursInv
  PROVE  /\ list \in Seq(Node) /\ Len(list) \in Nat /\ DOMAIN list = 1 .. Len(list)
         /\ l_last = Len(list) /\ count \in Nat
         /\ \A i \in 1 .. Len(list) : list[i] \in Node
         /\ \A i, j \in 1 .. Len(list) : list[i].name = list[j].name => i = j
<1>1. list \in Seq(Node) /\ count \in Nat
  BY DEF NeighboursInv, NeighboursTypeOK
<1>2. Len(list) \in Nat /\ DOMAIN list = 1 .. Len(list) /\ \A i \in 1 .. Len(list) : list[i] \in Node
  BY <1>1
<1> QED
  BY <1>1, <1>2 DEF NeighboursInv, ListIsWellFormed

LEMMA NumberTypes ==
  ASSUME NeighboursInv
  PROVE  /\ removed \in Nat /\ sample.sec \in Nat /\ AGE \in Nat
         /\ \A n \in Name : heard[n] \in Int
<1>1. removed \in Nat
  BY DEF NeighboursInv, NeighboursTypeOK
<1>2. sample.sec \in Nat
  <2>1. sample \in Node \cup {NoSample}
    BY DEF NeighboursInv, NeighboursTypeOK
  <2>2. CASE sample \in Node
    BY <2>2, NodeFacts
  <2>3. CASE sample = NoSample
    BY <2>3 DEF NoSample
  <2> QED
    BY <2>1, <2>2, <2>3
<1>3. \A n \in Name : heard[n] \in Int
  <2>1. heard \in [Name -> Time \cup {NoTime}]
    BY DEF NeighboursInv, NeighboursTypeOK
  <2>2. \A t \in Time \cup {NoTime} : t \in Int
    BY NodeFacts
  <2> QED
    BY <2>1, <2>2
<1> QED
  BY <1>1, <1>2, <1>3, NodeFacts

\* The nodes up to k that are old.
LEMMA UpTo ==
  ASSUME NEW l, NEW k \in Nat
  PROVE  IsFiniteSet(OldUpTo(l, k)) /\ Cardinality(OldUpTo(l, k)) \in Nat
<1>1. IsFiniteSet(1 .. k)
  BY FS_Interval
<1>2. OldUpTo(l, k) \subseteq 1 .. k
  BY DEF OldUpTo
<1> QED
  BY <1>1, <1>2, FS_Subset, FS_CardinalityType

LEMMA NoMoreOld ==
  ASSUME NEW l, NEW k \in Nat, NEW S, S \subseteq OldUpTo(l, k)
  PROVE  Cardinality(S) \in Nat /\ Cardinality(S) <= Cardinality(OldUpTo(l, k))
BY UpTo, FS_Subset, FS_CardinalityType

LEMMA OneMoreOld ==
  ASSUME NEW l, NEW k \in Nat, NEW x, NEW S, S \subseteq OldUpTo(l, k) \cup {x}
  PROVE  Cardinality(S) <= Cardinality(OldUpTo(l, k)) + 1
<1>1. IsFiniteSet(OldUpTo(l, k)) /\ Cardinality(OldUpTo(l, k)) \in Nat
  BY UpTo
<1>2. /\ IsFiniteSet(OldUpTo(l, k) \cup {x})
      /\ Cardinality(OldUpTo(l, k) \cup {x}) <= Cardinality(OldUpTo(l, k)) + 1
  BY <1>1, FS_AddElement
<1>3. Cardinality(S) <= Cardinality(OldUpTo(l, k) \cup {x}) /\ Cardinality(S) \in Nat
  BY <1>2, FS_Subset, FS_CardinalityType
<1>4. Cardinality(OldUpTo(l, k) \cup {x}) \in Nat
  BY <1>2, FS_CardinalityType
<1> QED
  BY <1>1, <1>2, <1>3, <1>4

-----------------------------------------------------------------------------
(* The walk removes a node.                                                *)

WithoutOne(l, i) ==
  /\ l \in Seq(Node) /\ Len(l) = Len(list) - 1
  /\ \A j \in 1 .. Len(l) : l[j] = IF j < i THEN list[j] ELSE list[j + 1]

\* What the four removals have in common: node i, which is old, goes, and the walk
\* passes no more than its successor.
Removal(i) ==
  /\ i \in 1 .. Len(list) /\ pc = "walk" /\ tlist = i /\ Old(list[i])
  /\ WithoutOne(list', i) /\ l_last' = Len(list') /\ count' \in Nat
  /\ removed' = removed + 1
  /\ \/ pc' = "walk" /\ tlist' \in {i, i + 1} /\ tlist' \in 1 .. Len(list')
     \/ pc' = "enter" /\ tlist' = 0 /\ Len(list') <= i
  /\ reader' = (IF reader = "loaded" THEN "freed" ELSE reader) \/ reader' = reader
  /\ fault' \in {"none", "null pointer", "freed node", "freed twice"}
  /\ UNCHANGED <<setting, sample, decoded, heard>>

LEMMA RemovalKeeps ==
  ASSUME NeighboursInv, NEW i \in 1 .. Len(list), Removal(i)
  PROVE  NeighboursInv'
<1>1. /\ list' \in Seq(Node) /\ Len(list') = Len(list) - 1 /\ Len(list) \in Nat
      /\ \A j \in 1 .. Len(list') : list'[j] = IF j < i THEN list[j] ELSE list[j + 1]
  BY ListTypes DEF Removal, WithoutOne
<1>2. Len(list') \in Nat /\ DOMAIN list' = 1 .. Len(list') /\ i \in Nat /\ i >= 1
  BY <1>1
<1> DEFINE Was(j) == IF j < i THEN j ELSE j + 1
<1>3. \A j \in 1 .. Len(list') : Was(j) \in 1 .. Len(list) /\ list'[j] = list[Was(j)]
  BY <1>1, <1>2
<1>4. \A j, k \in 1 .. Len(list') : Was(j) = Was(k) => j = k
  BY <1>1, <1>2
<1>5. \A k \in 1 .. Len(list) : k = i \/ \E j \in 1 .. Len(list') : Was(j) = k
  <2>1. ASSUME NEW k \in 1 .. Len(list), k # i PROVE \E j \in 1 .. Len(list') : Was(j) = k
    <3>1. CASE k < i
      <4>1. k \in 1 .. Len(list') /\ Was(k) = k
        BY <1>1, <1>2, <3>1
      <4> QED
        BY <4>1
    <3>2. CASE k > i
      <4>1. k - 1 \in 1 .. Len(list') /\ Was(k - 1) = k
        BY <1>1, <1>2, <3>2
      <4> QED
        BY <4>1
    <3> QED
      BY <1>2, <2>1, <3>1, <3>2
  <2> QED
    BY <2>1
<1>6. \A j \in 1 .. Len(list') : j < i => Was(j) = j
  OBVIOUS
<1> HIDE DEF Was
<1>7. /\ sample' = sample /\ heard' = heard /\ ordered' = ordered /\ alone' = alone
      /\ kind' = kind /\ decoded' = decoded /\ removed' = removed + 1 /\ pc = "walk"
      /\ tlist = i
  BY DEF Removal, setting
<1>8. NeighboursTypeOK'
  <2>1. /\ l_last' \in 0 .. Len(list') /\ tlist' \in 0 .. Len(list')
        /\ pc' \in {"idle", "walk", "enter"} /\ count' \in Nat
        /\ reader' \in {"out", "tested", "loaded", "freed"}
        /\ fault' \in {"none", "null pointer", "freed node", "freed twice"}
    <3>1. l_last' \in 0 .. Len(list')
      <4>1. l_last' = Len(list')
        BY DEF Removal
      <4> QED
        BY <1>2, <4>1
    <3>2. tlist' \in 0 .. Len(list')
      <4>1. tlist' \in 1 .. Len(list') \/ tlist' = 0
        BY DEF Removal
      <4> QED
        BY <1>2, <4>1
    <3>3. reader' \in {"out", "tested", "loaded", "freed"}
      BY DEF Removal, NeighboursInv, NeighboursTypeOK
    <3> QED
      BY <3>1, <3>2, <3>3 DEF Removal
  <2>2. removed' \in Nat
    BY <1>7, NumberTypes
  <2> QED
    BY <1>1, <1>7, <2>1, <2>2 DEF NeighboursInv, NeighboursTypeOK
<1>9. ListIsWellFormed'
  <2>1. ASSUME NEW j \in 1 .. Len(list'), NEW k \in 1 .. Len(list'), list'[j].name = list'[k].name
        PROVE  j = k
    <3>1. Was(j) = Was(k)
      BY <1>3, <2>1, ListTypes
    <3> QED
      BY <1>4, <3>1
  <2>2. l_last' = Len(list')
    BY DEF Removal
  <2> QED
    BY <1>2, <2>1, <2>2 DEF ListIsWellFormed
<1>10. HandlerInv'
  <2>1. removed' > 0 /\ sample' \in Node
    <3>1. removed' > 0
      BY <1>7, NumberTypes
    <3>2. sample \in Node
      BY <1>7 DEF NeighboursInv, HandlerInv
    <3> QED
      BY <1>7, <3>1, <3>2
  <2> QED
    BY <2>1 DEF HandlerInv, Removal
<1>11. HeardInv'
  <2>1. \A j \in DOMAIN list' : heard'[list'[j].name] = list'[j].sec
    BY <1>2, <1>3, <1>7, ListTypes DEF NeighboursInv, HeardInv
  <2>2. ASSUME ordered, NEW n \in Name, heard[n] # NoTime, sample.sec - heard[n] <= AGE
        PROVE  \E j \in DOMAIN list' : list'[j].name = n
    <3>1. PICK k \in 1 .. Len(list) : list[k].name = n
      BY <2>2, ListTypes DEF NeighboursInv, HeardInv
    <3>2. list[k].sec = heard[n] /\ heard[n] <= sample.sec
      BY <2>2, <3>1, ListTypes DEF NeighboursInv, HeardInv
    <3>3. ~ Old(list[k])
      <4> DEFINE x == heard[n]
                 y == sample.sec
      <4>1. x \in Int /\ y \in Int /\ AGE \in Int /\ x <= y /\ y - x <= AGE
        BY <2>2, <3>2, NumberTypes
      <4>2. Old(list[k]) <=> y - x > AGE \/ y < x
        BY <3>2 DEF Old
      <4> HIDE DEF x, y
      <4> QED
        BY <4>1, <4>2
    <3>4. k # i
      BY <3>3 DEF Removal
    <3>5. PICK j \in 1 .. Len(list') : Was(j) = k
      BY <1>5, <3>4
    <3> QED
      BY <1>2, <1>3, <3>1, <3>5
  <2>3. ordered => \A n \in Name : heard[n] <= sample.sec
    BY DEF NeighboursInv, HeardInv
  <2> QED
    BY <1>7, <2>1, <2>2, <2>3 DEF HeardInv
<1>12. HalvedInv'
  <2> DEFINE k == Walked'
  <2>1. k \in Nat /\ k <= i /\ k <= Len(list')
    <3>1. CASE pc' = "walk"
      <4>1. PICK t \in 1 .. Len(list') : t = tlist' /\ t \in {i, i + 1}
        BY <3>1 DEF Removal
      <4>2. k = t - 1
        BY <3>1, <4>1 DEF Walked
      <4>3. t \in Int /\ 1 <= t /\ t <= Len(list') /\ t <= i + 1 /\ i \in Int /\ Len(list') \in Int
        BY <1>2, <4>1
      <4> HIDE DEF k
      <4> QED
        BY <4>2, <4>3
    <3>2. CASE pc' # "walk"
      <4>1. k = Len(list') /\ Len(list') <= i
        BY <3>2 DEF Walked, Removal
      <4> QED
        BY <1>2, <4>1
    <3> QED
      BY <3>1, <3>2
  <2> HIDE DEF k
  <2>2. OldUpTo(list', k) \subseteq OldUpTo(list, i - 1) \cup {i}
    <3>1. ASSUME NEW j \in 1 .. k, Old(list'[j]), j # i PROVE j \in OldUpTo(list, i - 1)
      <4>1. j \in 1 .. Len(list') /\ j < i /\ j \in 1 .. i - 1
        BY <1>2, <2>1, <3>1
      <4> QED
        BY <1>3, <1>6, <3>1, <4>1 DEF OldUpTo
    <3> QED
      BY <3>1 DEF OldUpTo
  <2>3. Cardinality(OldUpTo(list, i - 1)) <= removed
    BY <1>7 DEF NeighboursInv, HalvedInv, Walked
  <2>4. i - 1 \in Nat
    BY <1>2
  <2>5. /\ Cardinality(OldUpTo(list, i - 1)) \in Nat
        /\ Cardinality(OldUpTo(list', k)) <= Cardinality(OldUpTo(list, i - 1)) + 1
        /\ Cardinality(OldUpTo(list', k)) \in Nat
    BY <2>1, <2>2, <2>4, UpTo, OneMoreOld
  <2>6. OldUpTo(list, Walked)' = OldUpTo(list', k)
    BY <1>7 DEF OldUpTo, Old, k
  <2>7. Cardinality(OldUpTo(list', k)) <= removed + 1
    BY <2>3, <2>5, NumberTypes
  <2> QED
    BY <1>7, <2>6, <2>7 DEF HalvedInv
<1>13. ReaderInv'
  BY <1>7 DEF NeighboursInv, ReaderInv, Removal
<1> QED
  BY <1>8, <1>9, <1>10, <1>11, <1>12, <1>13 DEF NeighboursInv

\* The nodes up to k, and the list without node i.
LEMMA FrontFacts ==
  ASSUME NeighboursInv, NEW k \in 0 .. Len(list)
  PROVE  /\ SubSeq(list, 1, k) \in Seq(Node) /\ Len(SubSeq(list, 1, k)) = k
         /\ \A j \in 1 .. k : SubSeq(list, 1, k)[j] = list[j]
<1>1. Len(list) \in Nat /\ \A j \in 1 .. Len(list) : list[j] \in Node
  BY ListTypes
<1>2. 1 \in Int /\ k \in Nat /\ \A j \in 1 .. k : list[j] \in Node
  BY <1>1
<1>3. /\ SubSeq(list, 1, k) \in Seq(Node)
      /\ Len(SubSeq(list, 1, k)) = IF 1 <= k THEN k - 1 + 1 ELSE 0
      /\ \A j \in 1 .. k - 1 + 1 : SubSeq(list, 1, k)[j] = list[1 + j - 1]
  BY <1>2, SubSeqProperties
<1>4. \A j \in 1 .. k : SubSeq(list, 1, k)[j] = list[j]
  <2>1. ASSUME NEW j \in 1 .. k PROVE SubSeq(list, 1, k)[j] = list[j]
    <3>1. j \in 1 .. k - 1 + 1 /\ 1 + j - 1 = j
      BY <1>2
    <3> QED
      BY <1>3, <3>1
  <2> QED
    BY <2>1
<1> QED
  BY <1>2, <1>3, <1>4

LEMMA WithoutFacts ==
  ASSUME NeighboursInv, NEW i \in 1 .. Len(list)
  PROVE  WithoutOne(Without(i), i)
<1> DEFINE n == Len(list)
           front == SubSeq(list, 1, i - 1)
           back == SubSeq(list, i + 1, n)
<1>1. n \in Nat /\ \A j \in 1 .. n : list[j] \in Node
  BY ListTypes
<1>2. i \in Nat /\ 1 <= i /\ i <= n
  BY <1>1
<1>3. front \in Seq(Node) /\ Len(front) = i - 1 /\ \A j \in 1 .. i - 1 : front[j] = list[j]
  <2>1. i - 1 \in 0 .. Len(list)
    BY <1>1, <1>2
  <2> QED
    BY <2>1, FrontFacts
<1>4. /\ back \in Seq(Node) /\ Len(back) = n - i
      /\ \A j \in 1 .. n - i : back[j] = list[i + j]
  <2>1. i + 1 \in Int /\ n \in Int /\ \A j \in i + 1 .. n : list[j] \in Node
    BY <1>1, <1>2
  <2>2. /\ SubSeq(list, i + 1, n) \in Seq(Node)
        /\ Len(SubSeq(list, i + 1, n)) = IF i + 1 <= n THEN n - (i + 1) + 1 ELSE 0
        /\ \A j \in 1 .. n - (i + 1) + 1 : SubSeq(list, i + 1, n)[j] = list[i + 1 + j - 1]
    <3> HIDE DEF n
    <3> QED
      BY <2>1, SubSeqProperties
  <2>3. ASSUME NEW j \in 1 .. n - i PROVE back[j] = list[i + j]
    <3>1. j \in 1 .. n - (i + 1) + 1 /\ i + 1 + j - 1 = i + j
      BY <1>1, <1>2
    <3> QED
      BY <2>2, <3>1
  <2>4. Len(back) = n - i
    <3> HIDE DEF n
    <3> QED
      BY <1>1, <1>2, <2>2
  <2> QED
    BY <2>2, <2>3, <2>4
<1> HIDE DEF front, back, n
<1>5. /\ front \o back \in Seq(Node) /\ Len(front \o back) = Len(front) + Len(back)
      /\ \A j \in 1 .. Len(front) + Len(back) :
           (front \o back)[j] = IF j <= Len(front) THEN front[j] ELSE back[j - Len(front)]
  BY <1>3, <1>4, ConcatProperties
<1>6. Len(front \o back) = n - 1
  BY <1>1, <1>2, <1>3, <1>4, <1>5
<1>7. ASSUME NEW j \in 1 .. n - 1
      PROVE  (front \o back)[j] = IF j < i THEN list[j] ELSE list[j + 1]
  <2>1. j \in 1 .. Len(front) + Len(back)
    BY <1>1, <1>2, <1>3, <1>4
  <2>2. CASE j < i
    <3>1. j <= Len(front) /\ j \in 1 .. i - 1
      BY <1>2, <1>3, <2>2
    <3> QED
      BY <1>3, <1>5, <2>1, <2>2, <3>1
  <2>3. CASE ~ (j < i)
    <3>1. ~ (j <= Len(front)) /\ j - Len(front) = j - (i - 1) /\ j - (i - 1) \in 1 .. n - i
          /\ i + (j - (i - 1)) = j + 1
      BY <1>1, <1>2, <1>3, <2>3
    <3>2. (front \o back)[j] = back[j - (i - 1)]
      BY <1>5, <2>1, <3>1
    <3>3. back[j - (i - 1)] = list[j + 1]
      BY <1>4, <3>1
    <3> QED
      BY <2>3, <3>2, <3>3
  <2> QED
    BY <2>2, <2>3
<1> QED
  BY <1>5, <1>6, <1>7 DEF WithoutOne, Without, front, back, n

LEMMA RemoveOnlyStep == NeighboursInv /\ RemoveOnly => NeighboursInv'
<1> SUFFICES ASSUME NeighboursInv, RemoveOnly PROVE NeighboursInv'
  OBVIOUS
<1>1. Len(list) = 1 /\ list' = <<>> /\ Len(list') = 0
  BY ListTypes DEF RemoveOnly
<1>2. WithoutOne(list', 1)
  <2>1. <<>> \in Seq(Node)
    OBVIOUS
  <2> QED
    BY <1>1, <2>1 DEF WithoutOne
<1>3. Len(list') <= 1 /\ l_last' = Len(list') /\ count' \in Nat /\ 1 \in 1 .. Len(list)
  BY <1>1 DEF RemoveOnly
<1>4. Removal(1)
  BY <1>2, <1>3 DEF RemoveOnly, Walk, Head_is_freed, Removal, NeighboursInv, NeighboursTypeOK
<1> QED
  BY <1>3, <1>4, RemovalKeeps

LEMMA RemoveHeadStep == NeighboursInv /\ RemoveHead => NeighboursInv'
<1> SUFFICES ASSUME NeighboursInv, RemoveHead PROVE NeighboursInv'
  OBVIOUS
<1>1. 1 \in 1 .. Len(list) /\ Len(list) # 1 /\ Len(list) \in Nat
  BY ListTypes DEF RemoveHead, Walk, NeighboursInv, HandlerInv
<1>2. list \in Seq(Node) /\ list # <<>> /\ list' = Tail(list)
  BY <1>1, ListTypes DEF RemoveHead
<1>3. /\ list' \in Seq(Node) /\ Len(list') = Len(list) - 1
      /\ \A j \in 1 .. Len(list') : list'[j] = list[j + 1]
  BY <1>2, HeadTailProperties
<1>4. Len(list') \in Nat /\ Len(list') >= 1
  BY <1>1, <1>3
<1>5. \A j \in 1 .. Len(list') : ~ (j < 1)
  BY <1>4
<1>6. WithoutOne(list', 1)
  BY <1>3, <1>5 DEF WithoutOne
<1>7. pc' = "walk" /\ tlist' = 1 /\ l_last' = Len(list')
  BY <1>1, <1>3, <1>4, ListTypes DEF RemoveHead, GoOn
<1>8. 1 \in {1, 1 + 1} /\ 1 \in 1 .. Len(list') /\ count' \in Nat
  BY <1>4 DEF RemoveHead
<1>9. Removal(1)
  BY <1>1, <1>6, <1>7, <1>8
     DEF RemoveHead, Walk, Head_is_freed, Removal, NeighboursInv, NeighboursTypeOK
<1> QED
  BY <1>1, <1>9, RemovalKeeps

LEMMA RemoveTailStep == NeighboursInv /\ RemoveTail => NeighboursInv'
<1> SUFFICES ASSUME NeighboursInv, RemoveTail PROVE NeighboursInv'
  OBVIOUS
<1>1. PICK i \in 2 .. Len(list) : Walk(i) /\ Old(list[i]) /\ l_last = i
  BY DEF RemoveTail
<1>2. i = Len(list) /\ i \in 1 .. Len(list) /\ i - 1 \in 0 .. Len(list) /\ i \in Nat
  <2>1. l_last = Len(list) /\ Len(list) \in Nat
    BY ListTypes
  <2>2. i = Len(list)
    BY <1>1, <2>1
  <2> QED
    BY <2>1, <2>2
<1>3. list' = SubSeq(list, 1, i - 1) /\ l_last' = i - 1 /\ pc' = "enter" /\ tlist' = 0
  BY <1>1 DEF RemoveTail
<1>4. /\ list' \in Seq(Node) /\ Len(list') = i - 1
      /\ \A j \in 1 .. i - 1 : list'[j] = list[j]
  BY <1>2, <1>3, FrontFacts
<1>5. \A j \in 1 .. i - 1 : j < i
  BY <1>2
<1>6. WithoutOne(list', i)
  BY <1>2, <1>4, <1>5 DEF WithoutOne
<1>7. Len(list') <= i
  BY <1>2, <1>4
<1>8. Removal(i)
  BY <1>1, <1>2, <1>3, <1>4, <1>6, <1>7
     DEF RemoveTail, Walk, Freed, Removal, NeighboursInv, NeighboursTypeOK
<1> QED
  BY <1>2, <1>8, RemovalKeeps

\* l_last is the end of the list: what is in the middle has a successor.
LEMMA MiddleHasSuccessor ==
  ASSUME NeighboursInv, NEW i \in 2 .. Len(list), l_last # i
  PROVE  i # Len(list) /\ LastBehind(i) = Len(list) - 1
<1>1. l_last = Len(list) /\ Len(list) \in Nat
  BY ListTypes
<1> QED
  BY <1>1 DEF LastBehind

LEMMA RemoveMiddleStep == NeighboursInv /\ RemoveMiddle => NeighboursInv'
<1> SUFFICES ASSUME NeighboursInv, RemoveMiddle PROVE NeighboursInv'
  OBVIOUS
<1>1. PICK i \in 2 .. Len(list) :
        /\ Walk(i) /\ Old(list[i]) /\ l_last # i
        /\ list' = Without(i) /\ l_last' = LastBehind(i)
        /\ removed' = removed + 1
        /\ IF i = Len(list)
           THEN fault' = "null pointer" /\ tlist' = 0 /\ pc' = "enter"
           ELSE Freed /\ GoOn(Behind(i))
        /\ UNCHANGED <<count, reader>>
  BY DEF RemoveMiddle
<1>2. i # Len(list) /\ LastBehind(i) = Len(list) - 1 /\ Len(list) \in Nat
  BY <1>1, ListTypes, MiddleHasSuccessor
<1>3. i \in 1 .. Len(list) /\ i \in Nat
  BY <1>2
<1>4. WithoutOne(list', i)
  BY <1>1, <1>3, WithoutFacts
<1>5. Len(list') = Len(list) - 1 /\ l_last' = Len(list')
  BY <1>1, <1>2, <1>4 DEF WithoutOne
<1>6. \/ pc' = "walk" /\ tlist' = i + 1 /\ i + 1 \in 1 .. Len(list')
      \/ pc' = "enter" /\ tlist' = 0 /\ Len(list') <= i
  <2>1. GoOn(i + 1)
    BY <1>1, <1>2 DEF Behind
  <2>2. CASE i + 1 <= Len(list')
    BY <1>2, <1>3, <1>5, <2>1, <2>2 DEF GoOn
  <2>3. CASE ~ (i + 1 <= Len(list'))
    BY <1>2, <1>3, <1>5, <2>1, <2>3 DEF GoOn
  <2> QED
    BY <2>2, <2>3
<1>7. Removal(i)
  BY <1>1, <1>2, <1>3, <1>4, <1>5, <1>6
     DEF Walk, Freed, Removal, NeighboursInv, NeighboursTypeOK
<1> QED
  BY <1>3, <1>7, RemovalKeeps

-----------------------------------------------------------------------------
(* The other steps.                                                        *)

LEMMA KeepStep == ASSUME NeighboursInv, NEW i \in DOMAIN list, Keep(i) PROVE NeighboursInv'
<1>1. /\ list' = list /\ l_last' = l_last /\ count' = count /\ reader' = reader /\ fault' = fault
      /\ removed' = removed /\ sample' = sample /\ decoded' = decoded /\ heard' = heard
      /\ kind' = kind /\ ordered' = ordered /\ alone' = alone
      /\ pc = "walk" /\ tlist = i /\ ~ Old(list[i])
  BY DEF Keep, Walk, setting, nodes
<1>2. Len(list) \in Nat /\ i \in 1 .. Len(list) /\ i \in Nat /\ i - 1 \in Nat
  BY ListTypes
<1>3. \/ pc' = "walk" /\ tlist' = i + 1 /\ i + 1 \in 1 .. Len(list)
      \/ pc' = "enter" /\ tlist' = 0 /\ i = Len(list)
  <2>1. GoOn(i + 1) /\ list' = list
    BY <1>1 DEF Keep
  <2>2. CASE i + 1 <= Len(list)
    BY <1>2, <2>1, <2>2 DEF GoOn
  <2>3. CASE ~ (i + 1 <= Len(list))
    BY <1>2, <2>1, <2>3 DEF GoOn
  <2> QED
    BY <2>2, <2>3
<1>4. NeighboursTypeOK'
  <2>1. tlist' \in 0 .. Len(list')
    <3>1. i + 1 \in 1 .. Len(list) => i + 1 \in 0 .. Len(list)
      BY <1>2
    <3>2. 0 \in 0 .. Len(list)
      BY <1>2
    <3> QED
      BY <1>1, <1>3, <3>1, <3>2
  <2>2. pc' \in {"idle", "walk", "enter"}
    BY <1>3
  <2> QED
    BY <1>1, <2>1, <2>2 DEF NeighboursInv, NeighboursTypeOK
<1>5. ListIsWellFormed'
  BY <1>1 DEF NeighboursInv, ListIsWellFormed
<1>6. HandlerInv'
  <2>1. list # <<>>
    BY <1>2
  <2> QED
    BY <1>1, <1>3, <2>1 DEF NeighboursInv, HandlerInv
<1>7. HeardInv'
  BY <1>1 DEF NeighboursInv, HeardInv
<1>8. HalvedInv'
  <2>1. Walked' = i
    <3>1. i + 1 - 1 = i
      BY <1>2
    <3> QED
      BY <1>1, <1>3, <3>1 DEF Walked
  <2>2. OldUpTo(list, i) = OldUpTo(list, i - 1)
    <3>1. \A j \in 1 .. i : j = i \/ j \in 1 .. i - 1
      BY <1>2
    <3>2. 1 .. i - 1 \subseteq 1 .. i
      BY <1>2
    <3> QED
      BY <1>1, <3>1, <3>2 DEF OldUpTo
  <2>3. OldUpTo(list, Walked)' = OldUpTo(list, i)
    BY <1>1, <2>1 DEF OldUpTo, Old
  <2>4. Walked = i - 1
    BY <1>1 DEF Walked
  <2> QED
    BY <1>1, <2>2, <2>3, <2>4 DEF NeighboursInv, HalvedInv
<1>9. ReaderInv'
  BY <1>1 DEF NeighboursInv, ReaderInv
<1> QED
  BY <1>4, <1>5, <1>6, <1>7, <1>8, <1>9 DEF NeighboursInv

\* The times of samples in order: who is fresh was fresh before.
LEMMA ArrivedFacts ==
  ASSUME NeighboursInv, NEW s \in Node, Arrived(s)
  PROVE  /\ sample' = s /\ decoded' \in 0 .. MaxSamples /\ removed' = 0 /\ pc = "idle"
         /\ alone => reader = "out"
         /\ ordered => \A n \in Name :
              /\ heard[n] <= s.sec
              /\ heard[n] # NoTime /\ s.sec - heard[n] <= AGE
                   => \E i \in DOMAIN list : list[i].name = n
<1>1. decoded' \in 0 .. MaxSamples
  <2>1. decoded \in 0 .. MaxSamples /\ MaxSamples \in Nat
    BY NeighboursAssumption DEF NeighboursInv, NeighboursTypeOK, NeighboursAssumption
  <2>2. decoded < MaxSamples /\ decoded' = decoded + 1
    BY DEF Arrived
  <2> QED
    BY <2>1, <2>2
<1>2. ASSUME ordered, NEW n \in Name
      PROVE  /\ heard[n] <= s.sec
             /\ s.sec - heard[n] <= AGE => sample.sec - heard[n] <= AGE
  <2> DEFINE h == heard[n]
             x == sample.sec
             y == s.sec
  <2>1. h \in Int /\ x \in Int /\ y \in Int /\ AGE \in Int
    BY NumberTypes, NodeFacts
  <2>2. h <= x
    BY <1>2 DEF NeighboursInv, HeardInv
  <2>3. x <= y
    <3>1. s.sec >= sample.sec
      BY <1>2 DEF Arrived
    <3> HIDE DEF x, y
    <3>2. y >= x
      BY <3>1 DEF x, y
    <3> QED
      BY <2>1, <3>2
  <2> HIDE DEF h, x, y
  <2>4. h <= y /\ (y - h <= AGE => x - h <= AGE)
    BY <2>1, <2>2, <2>3
  <2> QED
    BY <2>4 DEF h, x, y
<1> QED
  BY <1>1, <1>2 DEF Arrived, NeighboursInv, HeardInv

\* A name that is entered now is not old.
LEMMA NowIsFresh ==
  ASSUME NeighboursInv, NEW n, n.sec = sample.sec
  PROVE  ~ Old(n)
BY NumberTypes DEF Old

LEMMA FirstStep == ASSUME NeighboursInv, NEW s \in Node, EnterFirst(s) PROVE NeighboursInv'
<1>1. PICK n \in Name : /\ list' = <<[name |-> n, sec |-> s.sec]>>
                        /\ heard' = [heard EXCEPT ![n] = s.sec]
  BY DEF EnterFirst
<1>2. /\ list = <<>> /\ Arrived(s) /\ l_last' = 1 /\ count' = 1 /\ pc' = pc /\ tlist' = tlist
      /\ reader' = reader /\ fault' = fault
      /\ kind' = kind /\ ordered' = ordered /\ alone' = alone
  BY DEF EnterFirst, setting
<1>3. /\ sample' = s /\ decoded' \in 0 .. MaxSamples /\ removed' = 0 /\ pc' = "idle"
      /\ alone => reader = "out"
      /\ ordered => \A m \in Name :
           /\ heard[m] <= s.sec
           /\ ~ (heard[m] # NoTime /\ s.sec - heard[m] <= AGE)
  BY <1>2, ArrivedFacts
<1>4. s.sec \in Time /\ s.sec \in Nat
  BY NodeFacts
<1> DEFINE node == [name |-> n, sec |-> s.sec]
<1>5. node \in Node /\ node.name = n /\ node.sec = s.sec
  BY <1>4 DEF Node
<1> HIDE DEF node
<1>6. list' = <<node>>
  BY <1>1 DEF node
<1>7. list' \in Seq(Node) /\ Len(list') = 1 /\ list'[1] = node /\ DOMAIN list' = 1 .. 1
  BY <1>5, <1>6
<1>8. heard' \in [Name -> Time \cup {NoTime}] /\ heard'[n] = s.sec
      /\ \A m \in Name : m # n => heard'[m] = heard[m]
  BY <1>1, <1>4 DEF NeighboursInv, NeighboursTypeOK
<1>9. NeighboursTypeOK'
  <2>1. l_last' \in 0 .. Len(list') /\ tlist' \in 0 .. Len(list') /\ count' \in Nat /\ removed' \in Nat
    <3>1. tlist \in 0 .. 0
      BY <1>2 DEF NeighboursInv, NeighboursTypeOK
    <3> QED
      BY <1>2, <1>3, <1>7, <3>1
  <2> QED
    BY <1>2, <1>3, <1>7, <1>8, <2>1 DEF NeighboursInv, NeighboursTypeOK
<1>10. ListIsWellFormed'
  BY <1>2, <1>7 DEF ListIsWellFormed
<1>11. HandlerInv'
  BY <1>3 DEF HandlerInv
<1>12. HeardInv'
  <2>1. \A i \in DOMAIN list' : i = 1
    BY <1>7
  <2>2. 1 \in DOMAIN list'
    BY <1>7
  <2>3. ASSUME ordered, NEW m \in Name
        PROVE  /\ heard'[m] <= s.sec
               /\ heard'[m] # NoTime /\ s.sec - heard'[m] <= AGE => m = n
    BY <1>3, <1>4, <1>8, <2>3
  <2> QED
    BY <1>2, <1>3, <1>5, <1>7, <1>8, <2>1, <2>2, <2>3 DEF HeardInv
<1>13. HalvedInv'
  <2>1. OldUpTo(list, Walked)' = {}
    <3>1. Walked' = 1 /\ \A i \in 1 .. 1 : i = 1
      BY <1>3, <1>7 DEF Walked
    <3>2. ~ Old(list[1])'
      <4>1. list'[1].sec = sample'.sec /\ sample'.sec \in Nat /\ AGE \in Nat
        BY <1>3, <1>4, <1>5, <1>7, NodeFacts
      <4> DEFINE x == sample'.sec
      <4> HIDE DEF x
      <4>2. ~ (x - x > AGE \/ x < x)
        BY <4>1 DEF x
      <4> QED
        BY <4>1, <4>2 DEF Old, x
    <3> QED
      BY <3>1, <3>2 DEF OldUpTo
  <2> QED
    BY <1>3, <2>1, FS_EmptySet DEF HalvedInv
<1>14. ReaderInv'
  BY <1>2, <1>3 DEF ReaderInv
<1> QED
  BY <1>9, <1>10, <1>11, <1>12, <1>13, <1>14 DEF NeighboursInv

LEMMA AnotherStep == ASSUME NeighboursInv, NEW s \in Node, Another(s) PROVE NeighboursInv'
<1>1. /\ list # <<>> /\ list' = list /\ l_last' = l_last /\ count' = count /\ heard' = heard
      /\ pc' = "walk" /\ tlist' = 1 /\ reader' = reader /\ fault' = fault /\ Arrived(s)
      /\ kind' = kind /\ ordered' = ordered /\ alone' = alone
  BY DEF Another, setting, nodes
<1>2. /\ sample' = s /\ decoded' \in 0 .. MaxSamples /\ removed' = 0
      /\ alone => reader = "out"
      /\ ordered => \A n \in Name :
           /\ heard[n] <= s.sec
           /\ heard[n] # NoTime /\ s.sec - heard[n] <= AGE
                => \E i \in DOMAIN list : list[i].name = n
  BY <1>1, ArrivedFacts
<1>3. 1 \in 1 .. Len(list) /\ 1 \in 0 .. Len(list)
  BY <1>1, ListTypes
<1>4. NeighboursTypeOK' /\ ListIsWellFormed'
  BY <1>1, <1>2, <1>3 DEF NeighboursInv, NeighboursTypeOK, ListIsWellFormed
<1>5. HandlerInv' /\ ReaderInv'
  BY <1>1, <1>2, <1>3 DEF HandlerInv, ReaderInv
<1>6. HeardInv'
  BY <1>1, <1>2 DEF NeighboursInv, HeardInv
<1>7. HalvedInv'
  <2>1. Walked' = 0 /\ 1 .. 0 = {}
    BY <1>1 DEF Walked
  <2>2. OldUpTo(list, Walked)' = {}
    BY <2>1 DEF OldUpTo
  <2> QED
    BY <1>2, <2>2, FS_EmptySet DEF HalvedInv
<1> QED
  BY <1>4, <1>5, <1>6, <1>7 DEF NeighboursInv

\* The sample is at place p of the list, which is otherwise as it was.
EnteredAt(p) ==
  /\ list' \in Seq(Node) /\ p \in 1 .. Len(list') /\ Len(list) <= Len(list')
  /\ list'[p].name = sample.name /\ list'[p].sec = sample.sec
  /\ \A j \in 1 .. Len(list') :
       j = p \/ (j \in 1 .. Len(list) /\ list'[j] = list[j] /\ list[j].name # sample.name)
  /\ p \in 1 .. Len(list) => list[p].name = sample.name
  /\ l_last' = Len(list') /\ count' \in Nat
  /\ heard' = [heard EXCEPT ![sample.name] = sample.sec]
  /\ fault' \in {"none", "null pointer", "freed node", "freed twice"}
  /\ reader' = reader

LEMMA EnteredKeeps == ASSUME NeighboursInv, Enter, NEW p, EnteredAt(p) PROVE NeighboursInv'
<1>1. /\ pc = "enter" /\ pc' = "idle" /\ sample' = sample /\ tlist' = tlist /\ reader' = reader
      /\ decoded' = decoded /\ removed' = removed
      /\ kind' = kind /\ ordered' = ordered /\ alone' = alone
  BY DEF Enter, setting, EnteredAt
<1>2. /\ list' \in Seq(Node) /\ p \in 1 .. Len(list')
      /\ list'[p].name = sample.name /\ list'[p].sec = sample.sec
      /\ \A j \in 1 .. Len(list') :
           j = p \/ (j \in 1 .. Len(list) /\ list'[j] = list[j] /\ list[j].name # sample.name)
      /\ p \in 1 .. Len(list) => list[p].name = sample.name
      /\ l_last' = Len(list') /\ Len(list) <= Len(list') /\ Len(list) \in Nat
  BY ListTypes DEF EnteredAt
<1>3. Len(list') \in Nat /\ DOMAIN list' = 1 .. Len(list') /\ DOMAIN list = 1 .. Len(list)
  BY <1>2, ListTypes
<1>4. sample \in Node /\ sample.name \in Name /\ sample.sec \in Time
  BY <1>1, NodeFacts DEF NeighboursInv, HandlerInv
<1>5. /\ heard' \in [Name -> Time \cup {NoTime}] /\ heard'[sample.name] = sample.sec
      /\ \A m \in Name : m # sample.name => heard'[m] = heard[m]
  BY <1>4 DEF EnteredAt, NeighboursInv, NeighboursTypeOK
<1>6. NeighboursTypeOK'
  <2>1. tlist' \in 0 .. Len(list') /\ l_last' \in 0 .. Len(list')
    <3>1. tlist \in 0 .. Len(list)
      BY DEF NeighboursInv, NeighboursTypeOK
    <3> QED
      BY <1>1, <1>2, <1>3, <3>1
  <2>2. /\ count' \in Nat
        /\ fault' \in {"none", "null pointer", "freed node", "freed twice"}
    BY DEF EnteredAt
  <2> QED
    BY <1>1, <1>2, <1>5, <2>1, <2>2 DEF NeighboursInv, NeighboursTypeOK
<1>7. ListIsWellFormed'
  <2>1. ASSUME NEW j \in 1 .. Len(list'), NEW k \in 1 .. Len(list'), list'[j].name = list'[k].name
        PROVE  j = k
    BY <1>2, <2>1, ListTypes
  <2> QED
    BY <1>2, <1>3, <2>1 DEF ListIsWellFormed
<1>8. HandlerInv'
  BY <1>1 DEF HandlerInv
<1>9. HeardInv'
  <2>1. \A j \in DOMAIN list' : heard'[list'[j].name] = list'[j].sec
    <3>1. ASSUME NEW j \in 1 .. Len(list'), j # p PROVE heard'[list'[j].name] = list'[j].sec
      <4>1. j \in 1 .. Len(list) /\ list'[j] = list[j] /\ list[j].name # sample.name
        BY <1>2, <3>1
      <4>2. list[j].name \in Name /\ heard[list[j].name] = list[j].sec
        BY <1>3, <4>1, ListTypes, NodeFacts DEF NeighboursInv, HeardInv
      <4> QED
        BY <1>5, <4>1, <4>2
    <3> QED
      BY <1>2, <1>3, <1>5, <3>1
  <2>2. ASSUME ordered, NEW n \in Name, n # sample.name
        PROVE  /\ heard'[n] <= sample.sec
               /\ heard'[n] # NoTime /\ sample.sec - heard'[n] <= AGE
                    => \E j \in DOMAIN list' : list'[j].name = n
    <3>1. heard'[n] = heard[n] /\ heard[n] <= sample.sec
      BY <1>5, <2>2 DEF NeighboursInv, HeardInv
    <3>2. ASSUME heard[n] # NoTime, sample.sec - heard[n] <= AGE
          PROVE  \E j \in DOMAIN list' : list'[j].name = n
      <4>1. PICK j \in 1 .. Len(list) : list[j].name = n
        BY <1>3, <2>2, <3>2 DEF NeighboursInv, HeardInv
      <4>2. j \in 1 .. Len(list')
        BY <1>2, <1>3, <4>1
      <4>3. j # p
        BY <1>2, <2>2, <4>1
      <4> QED
        BY <1>2, <1>3, <4>1, <4>2, <4>3
    <3> QED
      BY <3>1, <3>2
  <2>3. /\ heard'[sample.name] <= sample.sec
        /\ \E j \in DOMAIN list' : list'[j].name = sample.name
    <3>1. heard'[sample.name] <= sample.sec
      BY <1>5, NumberTypes
    <3> QED
      BY <1>2, <1>3, <3>1
  <2> QED
    BY <1>1, <2>1, <2>2, <2>3 DEF HeardInv
<1>10. HalvedInv'
  <2>1. Walked' = Len(list') /\ Walked = Len(list)
    BY <1>1 DEF Walked
  <2>2. ~ Old(list'[p])
    BY <1>2, NowIsFresh
  <2>3. OldUpTo(list', Len(list')) \subseteq OldUpTo(list, Len(list))
    BY <1>2, <2>2 DEF OldUpTo
  <2>4. OldUpTo(list, Walked)' = OldUpTo(list', Len(list'))
    BY <1>1, <2>1 DEF OldUpTo, Old
  <2>5. /\ Cardinality(OldUpTo(list', Len(list'))) \in Nat
        /\ Cardinality(OldUpTo(list', Len(list'))) <= Cardinality(OldUpTo(list, Len(list)))
    BY <1>2, <2>3, NoMoreOld
  <2>6. Cardinality(OldUpTo(list, Len(list))) \in Nat /\ removed \in Nat
    BY <1>2, UpTo, NumberTypes
  <2>7. Cardinality(OldUpTo(list, Len(list))) <= removed
    BY <2>1 DEF NeighboursInv, HalvedInv
  <2>8. Cardinality(OldUpTo(list', Len(list'))) <= removed
    BY <2>5, <2>6, <2>7
  <2> QED
    BY <1>1, <2>4, <2>8 DEF HalvedInv
<1>11. ReaderInv'
  BY <1>1 DEF NeighboursInv, ReaderInv
<1> QED
  BY <1>6, <1>7, <1>8, <1>9, <1>10, <1>11 DEF NeighboursInv

LEMMA RefreshStep == NeighboursInv /\ Refresh => NeighboursInv'
<1> SUFFICES ASSUME NeighboursInv, Refresh PROVE NeighboursInv'
  OBVIOUS
<1>1. PICK i \in Of(sample.name) : list' = [list EXCEPT ![i].sec = sample.sec]
  BY DEF Refresh
<1>2. /\ list \in Seq(Node) /\ Len(list) \in Nat /\ i \in 1 .. Len(list)
      /\ list[i] \in Node /\ list[i].name = sample.name
      /\ \A j \in 1 .. Len(list) : list[j].name = list[i].name => j = i
  BY <1>1, ListTypes DEF Of
<1>3. sample \in Node /\ sample.sec \in Time
  BY NodeFacts DEF Refresh, Enter, NeighboursInv, HandlerInv
<1> DEFINE node == [list[i] EXCEPT !.sec = sample.sec]
<1>4. node \in Node /\ node.name = sample.name /\ node.sec = sample.sec
  BY <1>2, <1>3 DEF Node
<1>5. list' = [list EXCEPT ![i] = node]
  BY <1>1
<1> HIDE DEF node
<1>6. /\ list' \in Seq(Node) /\ Len(list') = Len(list) /\ list'[i] = node
      /\ \A j \in 1 .. Len(list) : j # i => list'[j] = list[j]
  BY <1>2, <1>4, <1>5
<1>7. l_last' = Len(list') /\ count' \in Nat
  BY <1>6, ListTypes DEF Refresh
<1>8. /\ fault' \in {"none", "null pointer", "freed node", "freed twice"} /\ reader' = reader
      /\ heard' = [heard EXCEPT ![sample.name] = sample.sec]
  BY DEF Refresh, NeighboursInv, NeighboursTypeOK
<1>9. /\ i \in 1 .. Len(list') /\ Len(list) <= Len(list')
      /\ \A j \in 1 .. Len(list') :
           j = i \/ (j \in 1 .. Len(list) /\ list'[j] = list[j] /\ list[j].name # sample.name)
  <2>1. i \in 1 .. Len(list') /\ Len(list) <= Len(list')
    BY <1>2, <1>6
  <2>2. ASSUME NEW j \in 1 .. Len(list'), j # i
        PROVE  j \in 1 .. Len(list) /\ list'[j] = list[j] /\ list[j].name # sample.name
    BY <1>2, <1>6, <2>2
  <2> QED
    BY <2>1, <2>2
<1>10. EnteredAt(i)
  BY <1>2, <1>4, <1>6, <1>7, <1>8, <1>9 DEF EnteredAt
<1> QED
  BY <1>10, EnteredKeeps DEF Refresh

LEMMA InsertStep == NeighboursInv /\ Insert => NeighboursInv'
<1> SUFFICES ASSUME NeighboursInv, Insert PROVE NeighboursInv'
  OBVIOUS
<1> DEFINE n == Len(list)
<1>1. n \in Nat /\ n \in 0 .. n /\ n + 1 \in 1 .. n + 1 /\ n + 1 \notin 1 .. n /\ l_last = n
  BY ListTypes
<1>2. sample \in Node
  BY DEF Insert, Enter, NeighboursInv, HandlerInv
<1>3. /\ list' \in Seq(Node) /\ Len(list') = n + 1 /\ list'[n + 1] = sample
      /\ \A j \in 1 .. n : list'[j] = list[j]
      /\ l_last' = n + 1
  <2>1. CASE list = <<>>
    <3>1. list' = <<sample>> /\ l_last' = 1 /\ n = 0
      BY <2>1 DEF Insert
    <3>2. <<sample>> \in Seq(Node) /\ Len(<<sample>>) = 1 /\ <<sample>>[1] = sample
      BY <1>2
    <3> QED
      BY <3>1, <3>2
  <2>2. CASE list # <<>>
    <3> DEFINE front == SubSeq(list, 1, n)
    <3>1. list' = front \o <<sample>> /\ l_last' = n + 1
      BY <1>1, <2>2 DEF Insert
    <3>2. front \in Seq(Node) /\ Len(front) = n /\ \A j \in 1 .. n : front[j] = list[j]
      BY <1>1, FrontFacts
    <3>3. <<sample>> \in Seq(Node) /\ Len(<<sample>>) = 1 /\ <<sample>>[1] = sample
      BY <1>2
    <3> HIDE DEF front, n
    <3>4. /\ front \o <<sample>> \in Seq(Node) /\ Len(front \o <<sample>>) = n + 1
          /\ \A j \in 1 .. n + 1 : (front \o <<sample>>)[j] =
                                     IF j <= n THEN front[j] ELSE <<sample>>[j - n]
      BY <3>2, <3>3, ConcatProperties
    <3>5. ~ (n + 1 <= n) /\ (n + 1) - n = 1 /\ \A j \in 1 .. n : j <= n /\ j \in 1 .. n + 1
      BY <1>1
    <3> QED
      BY <1>1, <3>1, <3>2, <3>3, <3>4, <3>5
  <2> QED
    BY <2>1, <2>2
<1>4. \A j \in 1 .. n : list[j].name # sample.name
  BY ListTypes DEF Insert, Of
<1>5. count' \in Nat
  <2>1. count \in Nat /\ (count' = 1 \/ count' = count + 1)
    BY ListTypes DEF Insert
  <2> QED
    BY <2>1
<1>6. /\ fault' \in {"none", "null pointer", "freed node", "freed twice"} /\ reader' = reader
      /\ heard' = [heard EXCEPT ![sample.name] = sample.sec]
  BY DEF Insert, NeighboursInv, NeighboursTypeOK
<1> HIDE DEF n
<1>7. \A j \in 1 .. n + 1 : j = n + 1 \/ j \in 1 .. n
  BY <1>1
<1>8. 1 .. Len(list') = 1 .. n + 1 /\ n <= Len(list') /\ l_last' = Len(list')
  BY <1>1, <1>3
<1> DEFINE p == n + 1
<1>9. /\ p \in 1 .. Len(list') /\ list'[p] = sample /\ p \notin 1 .. n
      /\ \A j \in 1 .. Len(list') : j = p \/ j \in 1 .. n
  BY <1>1, <1>3, <1>7, <1>8
<1> HIDE DEF p
<1>10. EnteredAt(p)
  BY <1>3, <1>4, <1>5, <1>6, <1>8, <1>9 DEF EnteredAt, n
<1> QED
  BY <1>10, EnteredKeeps DEF Insert

\* format_data changes nothing but what it holds itself.
LEMMA ReaderStep ==
  ASSUME NeighboursInv, Format_data
  PROVE  /\ NeighboursInv'
         /\ alone => fault' = fault
<1>1. /\ list' = list /\ l_last' = l_last /\ count' = count /\ pc' = pc /\ sample' = sample
      /\ tlist' = tlist /\ decoded' = decoded /\ heard' = heard /\ removed' = removed
      /\ kind' = kind /\ ordered' = ordered /\ alone' = alone
  BY DEF Format_data, TestList, LoadHead, ReadHead, setting, nodes, handler, history
<1>2. /\ reader' \in {"out", "tested", "loaded", "freed"}
      /\ fault' \in {"none", "null pointer", "freed node", "freed twice"}
  BY DEF Format_data, TestList, LoadHead, ReadHead, NeighboursInv, NeighboursTypeOK
<1>3. ReaderInv' /\ (alone => fault' = fault)
  BY <1>1 DEF Format_data, TestList, LoadHead, ReadHead, Read, NeighboursInv, ReaderInv
<1>4. NeighboursTypeOK' /\ ListIsWellFormed' /\ HandlerInv' /\ HeardInv'
  BY <1>1, <1>2
     DEF NeighboursInv, NeighboursTypeOK, ListIsWellFormed, HandlerInv, HeardInv
<1>5. HalvedInv'
  BY <1>1 DEF NeighboursInv, HalvedInv, OldUpTo, Walked, Old
<1> QED
  BY <1>3, <1>4, <1>5 DEF NeighboursInv

LEMMA NeighboursInvInit == NeighboursInit => NeighboursInv
<1> SUFFICES ASSUME NeighboursInit PROVE NeighboursInv
  OBVIOUS
<1>1. <<>> \in Seq(Node) /\ Len(<<>>) = 0 /\ 1 .. 0 = {} /\ 0 \in 0 .. 0
  OBVIOUS
<1>2. 0 \in 0 .. MaxSamples
  BY NeighboursAssumption DEF NeighboursAssumption
<1>3. [n \in Name |-> NoTime] \in [Name -> Time \cup {NoTime}]
  OBVIOUS
<1>4. NeighboursTypeOK
  <2>1. list \in Seq(Node) /\ l_last \in 0 .. Len(list) /\ tlist \in 0 .. Len(list)
    BY <1>1 DEF NeighboursInit
  <2>2. count \in Nat /\ decoded \in 0 .. MaxSamples /\ removed \in Nat
    BY <1>2 DEF NeighboursInit
  <2> QED
    BY <1>3, <2>1, <2>2 DEF NeighboursInit, NeighboursTypeOK
<1>5. DOMAIN list = {}
  BY DEF NeighboursInit
<1>6. ListIsWellFormed /\ HandlerInv /\ ReaderInv
  BY <1>1, <1>5 DEF NeighboursInit, ListIsWellFormed, HandlerInv, ReaderInv
<1>7. HeardInv
  <2>1. \A n \in Name : heard[n] = NoTime /\ heard[n] <= sample.sec
    BY NodeFacts DEF NeighboursInit, NoSample
  <2> QED
    BY <1>5, <2>1 DEF HeardInv
<1>8. HalvedInv
  <2>1. Walked = 0 /\ OldUpTo(list, 0) = {} /\ removed = 0
    BY <1>1 DEF NeighboursInit, Walked, OldUpTo
  <2> QED
    BY <2>1, FS_EmptySet DEF HalvedInv
<1> QED
  BY <1>4, <1>6, <1>7, <1>8 DEF NeighboursInv

LEMMA NeighboursInvStep ==
  NeighboursInv /\ [NeighboursNext]_neighbourVars => NeighboursInv'
<1> SUFFICES ASSUME NeighboursInv, [NeighboursNext]_neighbourVars PROVE NeighboursInv'
  OBVIOUS
<1>1. ASSUME NEW s \in Node, EnterFirst(s) PROVE NeighboursInv'
  BY <1>1, FirstStep
<1>2. ASSUME NEW s \in Node, Another(s) PROVE NeighboursInv'
  BY <1>2, AnotherStep
<1>3. ASSUME NEW i \in DOMAIN list, Keep(i) PROVE NeighboursInv'
  BY <1>3, KeepStep
<1>4. CASE RemoveOnly
  BY <1>4, RemoveOnlyStep
<1>5. CASE RemoveHead
  BY <1>5, RemoveHeadStep
<1>6. CASE RemoveTail
  BY <1>6, RemoveTailStep
<1>7. CASE RemoveMiddle
  BY <1>7, RemoveMiddleStep
<1>8. CASE Refresh
  BY <1>8, RefreshStep
<1>9. CASE Insert
  BY <1>9, InsertStep
<1>10. CASE Format_data
  BY <1>10, ReaderStep
<1>11. CASE UNCHANGED neighbourVars
  <2>1. /\ list' = list /\ l_last' = l_last /\ count' = count /\ pc' = pc /\ sample' = sample
        /\ tlist' = tlist /\ decoded' = decoded /\ heard' = heard /\ removed' = removed
        /\ kind' = kind /\ ordered' = ordered /\ alone' = alone
        /\ reader' = reader /\ fault' = fault
    BY <1>11 DEF neighbourVars, setting, nodes, handler, history
  <2>2. HalvedInv'
    BY <2>1 DEF NeighboursInv, HalvedInv, OldUpTo, Walked, Old
  <2> QED
    BY <2>1, <2>2 DEF NeighboursInv, NeighboursTypeOK, ListIsWellFormed, HandlerInv, HeardInv,
                      ReaderInv
<1> QED
  BY <1>1, <1>2, <1>3, <1>4, <1>5, <1>6, <1>7, <1>8, <1>9, <1>10, <1>11
     DEF NeighboursNext, Decode, Stopped

\* At any moment the list of neighbours or stations, the walk through it and the thread
\* that reads it are what NeighboursInv says.
THEOREM NeighboursInvariant == NeighboursSpec => []NeighboursInv
BY NeighboursInvInit, NeighboursInvStep, PTL DEF NeighboursSpec

\* The nodes, their count, the handler and the reader are well typed.
THEOREM NeighboursTypeCorrect == NeighboursSpec => []NeighboursTypeOK
<1>1. NeighboursInv => NeighboursTypeOK
  BY DEF NeighboursInv
<1> QED
  BY NeighboursInvariant, <1>1, PTL

\* decode_beacon and decode_iw list no name twice, and l_last is the end of the chain.
THEOREM WellFormed == NeighboursSpec => []ListIsWellFormed
<1>1. NeighboursInv => ListIsWellFormed
  BY DEF NeighboursInv
<1> QED
  BY NeighboursInvariant, <1>1, PTL

\* Between two samples in order, whoever was heard within AGE seconds is listed with
\* the time it was heard at.
THEOREM FreshListed == NeighboursSpec => []FreshAreListed
<1>1. NeighboursInv => FreshAreListed
  <2> SUFFICES ASSUME NeighboursInv, ordered, NEW n \in Name,
                      heard[n] # NoTime, sample.sec - heard[n] <= AGE
               PROVE  \E i \in DOMAIN list : list[i] = [name |-> n, sec |-> heard[n]]
    BY DEF FreshAreListed
  <2>1. PICK i \in DOMAIN list : list[i].name = n
    BY DEF NeighboursInv, HeardInv
  <2>2. list[i] \in Node /\ list[i].sec = heard[n]
    BY <2>1, ListTypes DEF NeighboursInv, HeardInv
  <2>3. list[i] = [name |-> n, sec |-> heard[n]]
    BY <2>1, <2>2 DEF Node
  <2> QED
    BY <2>3
<1> QED
  BY NeighboursInvariant, <1>1, PTL

\* The walk leaves no more old nodes than it removed.
THEOREM OldHalved == NeighboursSpec => []OldAreHalved
<1>1. NeighboursInv => OldAreHalved
  <2> SUFFICES ASSUME NeighboursInv, pc = "idle"
               PROVE  Cardinality({i \in DOMAIN list : Old(list[i])}) <= removed
    BY DEF OldAreHalved
  <2>1. {i \in DOMAIN list : Old(list[i])} = OldUpTo(list, Walked)
    BY ListTypes DEF OldUpTo, Walked
  <2> QED
    BY <2>1 DEF NeighboursInv, HalvedInv
<1> QED
  BY NeighboursInvariant, <1>1, PTL

\* Undisturbed by format_data the list of neighbours is safe, and that of stations
\* until a station comes again or is removed.
THEOREM FaultsOfStations == NeighboursSpec => FaultsAreOfStations
<1>1. NeighboursInv /\ [NeighboursNext]_neighbourVars =>
        [alone /\ fault' # fault =>
           /\ kind = "stations"
           /\ heard[sample.name] # NoTime \/ removed' > 0]_neighbourVars
  <2> SUFFICES ASSUME NeighboursInv, NeighboursNext, alone, fault' # fault
               PROVE  kind = "stations" /\ (heard[sample.name] # NoTime \/ removed' > 0)
    OBVIOUS
  <2>1. removed \in Nat /\ removed + 1 > 0
    BY NumberTypes
  <2>2. CASE RemoveTail
    BY <2>1, <2>2 DEF RemoveTail, Freed
  <2>3. CASE RemoveMiddle
    <3>1. PICK i \in 2 .. Len(list) :
            /\ l_last # i /\ removed' = removed + 1
            /\ IF i = Len(list) THEN fault' = "null pointer" ELSE Freed
      BY <2>3 DEF RemoveMiddle
    <3> QED
      BY <2>1, <3>1, MiddleHasSuccessor DEF Freed
  <2>4. CASE Refresh
    <3>1. PICK i \in DOMAIN list : list[i].name = sample.name
      BY <2>4 DEF Refresh, Of
    <3>2. heard[sample.name] = list[i].sec /\ list[i].sec \in Time
      BY <3>1, ListTypes, NodeFacts DEF NeighboursInv, HeardInv
    <3> QED
      BY <2>4, <3>2, NodeFacts DEF Refresh
  <2>5. CASE Insert
    <3>1. kind = "stations" /\ list = <<>> /\ pc = "enter" /\ removed' = removed
      BY <2>5 DEF Insert, Enter
    <3> QED
      BY <3>1 DEF NeighboursInv, HandlerInv
  <2>6. CASE Format_data
    BY <2>6, ReaderStep
  <2> QED
    BY <2>2, <2>3, <2>4, <2>5, <2>6
       DEF NeighboursNext, Decode, Stopped, EnterFirst, Another, Keep, RemoveOnly, RemoveHead,
           neighbourVars
<1> QED
  BY NeighboursInvariant, <1>1, PTL DEF NeighboursSpec, FaultsAreOfStations
=============================================================================

--------------------------- MODULE NeighbourLists ---------------------------
(***************************************************************************)
(* The lists of neighbours and of stations in the collector                *)
(* (EXP/receive.c).  decode_beacon enters the sender of a beacon into      *)
(* neibour_lists and decode_iw a sampled station into station_lists, each  *)
(* after a walk that removes what was not heard for AGE seconds;           *)
(* format_data writes the number that the head of the list carries into    *)
(* the training data.                                                      *)
(*                                                                         *)
(* The two handlers are the same but for the samples that a station should *)
(* have (iwh), so the model has one list, whose kind says which.  One turn *)
(* of the walk is a step: decode_beacon holds mutex_rdata, decode_iw does  *)
(* not, and format_data reads both lists without it.                       *)
(*                                                                         *)
(* list is the chain from the head on and l_last the place of the node it  *)
(* ends in for the code (0: NULL).  Only the head has a count.  A NULL or  *)
(* freed node that is followed, and a node freed twice, set fault and the  *)
(* model stops there.                                                      *)
(*                                                                         *)
(*   ordered    chosen once: the samples come in the order of their times. *)
(*   alone      chosen once: format_data reads between two samples only.   *)
(***************************************************************************)
EXTENDS Integers, Sequences, FiniteSets, TLC

CONSTANTS Name, NoName,
          AGE,                    \* seconds after which a node is old (10)
          MaxTime, MaxSamples     \* bounds on the times and on the samples

ASSUME NeighboursAssumption ==
         NoName \notin Name /\ AGE \in Nat /\ MaxTime \in Nat /\ MaxSamples \in Nat

VARIABLES
  kind, ordered, alone,
  list, l_last, count,
  pc, sample, tlist, decoded,     \* the handler; samples so far
  reader,                         \* format_data
  fault,
  heard, removed                  \* history: time a name was entered with, nodes
                                  \* removed for this sample

setting == <<kind, ordered, alone>>
nodes == <<list, l_last, count>>
handler == <<pc, sample, tlist, decoded>>
history == <<heard, removed>>
neighbourVars == <<setting, nodes, handler, reader, fault, history>>

Time == 0 .. MaxTime
NoTime == -1
Node == [name : Name, sec : Time]
NoSample == [name |-> NoName, sec |-> 0]

NeighboursTypeOK ==
  /\ kind \in {"neighbours", "stations"} /\ ordered \in BOOLEAN /\ alone \in BOOLEAN
  /\ list \in Seq(Node) /\ l_last \in 0 .. Len(list) /\ count \in Nat
  /\ pc \in {"idle", "walk", "enter"} /\ sample \in Node \cup {NoSample}
  /\ tlist \in 0 .. Len(list) /\ decoded \in 0 .. MaxSamples
  /\ reader \in {"out", "tested", "loaded", "freed"}
  /\ fault \in {"none", "null pointer", "freed node", "freed twice"}
  /\ heard \in [Name -> Time \cup {NoTime}] /\ removed \in Nat

NeighboursInit ==
  /\ kind \in {"neighbours", "stations"} /\ ordered \in BOOLEAN /\ alone \in BOOLEAN
  /\ list = <<>> /\ l_last = 0 /\ count = 0
  /\ pc = "idle" /\ sample = NoSample /\ tlist = 0 /\ decoded = 0
  /\ reader = "out" /\ fault = "none"
  /\ heard = [n \in Name |-> NoTime] /\ removed = 0

-----------------------------------------------------------------------------
(* A sample arrives.                                                       *)

Arrived(s) ==
  /\ pc = "idle" /\ decoded < MaxSamples /\ (alone => reader = "out")
  /\ ordered => s.sec >= sample.sec
  /\ sample' = s /\ decoded' = decoded + 1 /\ removed' = 0

\* The first neighbour is entered with the address of the access point that
\* reports the beacon, the first station with its own.
EnterFirst(s) ==
  /\ list = <<>> /\ Arrived(s)
  /\ \E n \in Name :
       /\ kind = "stations" => n = s.name
       /\ list' = <<[name |-> n, sec |-> s.sec]>>
       /\ heard' = [heard EXCEPT ![n] = s.sec]
  /\ l_last' = 1 /\ count' = 1
  /\ UNCHANGED <<setting, pc, tlist, reader, fault>>

Another(s) ==
  /\ list # <<>> /\ Arrived(s)
  /\ pc' = "walk" /\ tlist' = 1
  /\ UNCHANGED <<setting, nodes, reader, fault, heard>>

-----------------------------------------------------------------------------
(* The walk.                                                               *)

\* The age is an unsigned difference: a node heard later than the sample is old.
Old_Inclusive(n) == sample.sec - n.sec >= AGE \/ sample.sec < n.sec
Old(n) == sample.sec - n.sec > AGE \/ sample.sec < n.sec

Walk(i) == pc = "walk" /\ tlist = i /\ UNCHANGED <<setting, sample, decoded, heard>>

\* The end of the list or the turn for node i.
GoOn(i) ==
  IF i <= Len(list') THEN tlist' = i /\ pc' = "walk" ELSE tlist' = 0 /\ pc' = "enter"

Without(i) == SubSeq(list, 1, i - 1) \o SubSeq(list, i + 1, Len(list))

Keep(i) ==
  /\ Walk(i) /\ ~Old(list[i])
  /\ UNCHANGED <<nodes, reader, fault, removed>>
  /\ GoOn(i + 1)

\* format_data may hold the head.
Head_is_freed == reader' = IF reader = "loaded" THEN "freed" ELSE reader

RemoveOnly ==
  /\ Walk(1) /\ Old(list[1]) /\ l_last = 1
  /\ list' = <<>> /\ l_last' = 0 /\ count' = 0
  /\ Head_is_freed
  /\ removed' = removed + 1
  /\ tlist' = 0 /\ pc' = "enter"
  /\ UNCHANGED fault

\* Its successor, without a count, becomes the head and is next.
RemoveHead ==
  /\ Walk(1) /\ Old(list[1]) /\ l_last # 1
  /\ list' = Tail(list) /\ l_last' = l_last - 1 /\ count' = 0
  /\ Head_is_freed
  /\ removed' = removed + 1
  /\ GoOn(1)
  /\ UNCHANGED fault

\* decode_iw frees the node as if it were a sample and then once more.
Freed_Always == fault' = "freed twice"
Freed == fault' = IF kind = "stations" THEN "freed twice" ELSE fault

RemoveTail ==
  /\ \E i \in 2 .. Len(list) : Walk(i) /\ Old(list[i]) /\ l_last = i
  /\ list' = SubSeq(list, 1, l_last - 1) /\ l_last' = l_last - 1
  /\ Freed
  /\ removed' = removed + 1
  /\ tlist' = 0 /\ pc' = "enter"
  /\ UNCHANGED <<count, reader>>

\* The walk goes on behind the successor, which must not be NULL.
Behind_Two(i) == i + 2
Behind(i) == i + 1

LastBehind_Stays(i) == l_last
LastBehind(i) == IF l_last > i THEN l_last - 1 ELSE l_last

RemoveMiddle ==
  \E i \in 2 .. Len(list) :
    /\ Walk(i) /\ Old(list[i]) /\ l_last # i
    /\ list' = Without(i) /\ l_last' = LastBehind(i)
    /\ removed' = removed + 1
    /\ IF i = Len(list)
       THEN fault' = "null pointer" /\ tlist' = 0 /\ pc' = "enter"
       ELSE Freed /\ GoOn(Behind(i))
    /\ UNCHANGED <<count, reader>>

-----------------------------------------------------------------------------
(* The sample is entered.                                                  *)

Enter == pc = "enter" /\ pc' = "idle" /\ UNCHANGED <<setting, sample, tlist, decoded, removed>>

Of(n) == {i \in DOMAIN list : list[i].name = n}

\* A station's rates are computed from iwh, which is never set.
Refresh ==
  /\ Enter
  /\ \E i \in Of(sample.name) :
       /\ \A j \in Of(sample.name) : i <= j
       /\ list' = [list EXCEPT ![i].sec = sample.sec]
  /\ heard' = [heard EXCEPT ![sample.name] = sample.sec]
  /\ fault' = IF kind = "stations" THEN "null pointer" ELSE fault
  /\ UNCHANGED <<l_last, count, reader>>

\* Behind l_last; for a station the head is read first, to no use, so that the
\* compiler may leave it out.
Insert ==
  /\ Enter
  /\ Of(sample.name) = {}
  /\ IF list = <<>>
     THEN /\ list' = <<sample>> /\ l_last' = 1 /\ count' = 1
          /\ fault' \in {fault} \cup (IF kind = "stations" THEN {"null pointer"} ELSE {})
     ELSE /\ list' = SubSeq(list, 1, l_last) \o <<sample>> /\ l_last' = l_last + 1
          /\ count' = count + 1
          /\ UNCHANGED fault
  /\ heard' = [heard EXCEPT ![sample.name] = sample.sec]
  /\ UNCHANGED reader

-----------------------------------------------------------------------------
(* format_data.                                                            *)

Read == alone => pc = "idle"

TestList ==
  /\ Read /\ reader = "out" /\ list # <<>>
  /\ reader' = "tested"
  /\ UNCHANGED <<setting, nodes, handler, fault, history>>

LoadHead ==
  /\ Read /\ reader = "tested"
  /\ IF list = <<>>
     THEN fault' = "null pointer" /\ UNCHANGED reader
     ELSE reader' = "loaded" /\ UNCHANGED fault
  /\ UNCHANGED <<setting, nodes, handler, history>>

\* station_lists is loaded once more for the count.
ReadHead ==
  /\ Read /\ reader \in {"loaded", "freed"}
  /\ IF reader = "freed"
     THEN fault' = "freed node" /\ UNCHANGED reader
     ELSE /\ reader' \in {"out"} \cup (IF kind = "stations" THEN {"tested"} ELSE {})
          /\ UNCHANGED fault
  /\ UNCHANGED <<setting, nodes, handler, history>>

-----------------------------------------------------------------------------
Running == fault = "none"
Done == pc = "idle" /\ decoded = MaxSamples
Stopped == (~Running \/ Done) /\ UNCHANGED neighbourVars

Decode ==
  \/ \E s \in Node : EnterFirst(s) \/ Another(s)
  \/ \E i \in DOMAIN list : Keep(i)
  \/ RemoveOnly \/ RemoveHead \/ RemoveTail \/ RemoveMiddle
  \/ Refresh \/ Insert

Format_data == TestList \/ LoadHead \/ ReadHead

NeighboursNext == (Running /\ (Decode \/ Format_data)) \/ Stopped

NeighboursSpec == NeighboursInit /\ [][NeighboursNext]_neighbourVars

-----------------------------------------------------------------------------
(* Properties.                                                             *)

\* A name stands once in the list, although the first neighbour is entered under
\* another name than the rest and the walk takes nodes out from anywhere; and the
\* node behind which the code appends is the end of the chain: no append cuts nodes
\* off, and no walk runs into NULL behind a node in the middle.
ListIsWellFormed ==
  /\ \A i, j \in DOMAIN list : list[i].name = list[j].name => i = j
  /\ l_last = Len(list)

\* While samples come in order, who was entered within AGE seconds is listed with
\* the time of the latest sample: an old head, tail or middle node takes no fresh
\* one with it.
FreshAreListed ==
  ordered /\ pc = "idle" /\ fault = "none" =>
    \A n \in Name : heard[n] # NoTime /\ sample.sec - heard[n] <= AGE =>
                      \E i \in DOMAIN list : list[i] = [name |-> n, sec |-> heard[n]]

\* The walk leaves old nodes behind, those whose predecessor it removed, but never
\* more than it removed.
OldAreHalved ==
  pc = "idle" => Cardinality({i \in DOMAIN list : Old(list[i])}) <= removed

\* If format_data does not read in the middle of a sample, the list of neighbours
\* never makes the collector follow a bad pointer.  The list of stations does
\* before long, but never while every station is sampled once and none has been
\* removed for its age.
FaultsAreOfStations ==
  [][alone /\ fault' # fault =>
       /\ kind = "stations"
       /\ heard[sample.name] # NoTime \/ removed' > 0]_neighbourVars

\* Names differ by nothing else.
Interchangeable == Permutations(Name)
=============================================================================

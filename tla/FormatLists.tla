---------------------------- MODULE FormatLists ----------------------------
(***************************************************************************)
(* The sample lists of the collector (EXP/receive.c): samples of queue 3   *)
(* and of the root queue f (decode_queue) and of the survey                *)
(* (decode_survey), and what format_data makes of them: an item for every  *)
(* span of 900 ms, inserted into a list in order of time, in which it then *)
(* looks up the state of the network at the time of a packet and frees     *)
(* what has become old.                                                    *)
(*                                                                         *)
(* The three lists are handled by the same code but for a few places, so   *)
(* the model has one list, whose kind says which; the thread's own state   *)
(* that the section of the list before leaves behind is any.  The decoder  *)
(* appends under mutex_rdata and format_data takes a sample under it; the  *)
(* items belong to format_data alone.  Samples come from several access    *)
(* points over UDP: their times are in any order.                          *)
(*                                                                         *)
(* items is the chain from q_p_buffer on and at the place of q_p_last in   *)
(* it, 0 when there is none or its node has been freed.  A dereference of  *)
(* NULL or of a freed node sets fault and the model stops there.           *)
(*                                                                         *)
(*   attended   chosen once: every list has a sample before the one        *)
(*              handled before it spans 900 ms (queue 3 before f, f before *)
(*              the survey), and no packet is more than OLD seconds later  *)
(*              than the last item (nothing in the code ensures either).   *)
(***************************************************************************)
EXTENDS Integers, Sequences

CONSTANTS TICKS,           \* ticks of a second
          SPAN,           \* ticks of the 900 ms
          OLD,            \* seconds after which an item is old (10)
          MaxTime, MaxSamples     \* bounds on the times and on the samples

ASSUME ListsAssumption ==
         /\ TICKS \in Nat \ {0} /\ SPAN \in Nat \ {0} /\ OLD \in Nat
         /\ MaxTime \in Nat /\ MaxSamples \in Nat

VARIABLES
  kind, attended,
  samples, decoded,       \* queue_list or survey_list; samples appended
  items, at, pc,
  time_tp, keep,          \* packet looked up last, the item kept for it
  fault

setting == <<kind, attended>>
lookup == <<time_tp, keep>>
vars == <<setting, samples, decoded, items, at, pc, lookup, fault>>

Time == 0 .. MaxTime
None == -1
Sec(t) == t \div TICKS

\* The packets are tested against the last items of queue 3 and of the survey.
Anchored == kind \in {"queue_3", "survey"}

SettingType == kind \in {"queue_3", "queue_f", "survey"} /\ attended \in BOOLEAN
ListType == samples \in Seq(Time) /\ items \in Seq(Time) /\ at \in 0 .. Len(items)
PlaceType ==
  /\ pc \in {"section", "pair"} /\ decoded \in Nat
  /\ time_tp \in Time \cup {None} /\ keep \in Time \cup {None}
  /\ fault \in {"none", "null pointer", "freed node"}
TypeOK == SettingType /\ ListType /\ PlaceType

Init ==
  /\ kind \in {"queue_3", "queue_f", "survey"} /\ attended \in BOOLEAN
  /\ samples = <<>> /\ decoded = 0
  /\ items = <<>> /\ at = 0 /\ pc = "section"
  /\ time_tp = None /\ keep = None
  /\ fault = "none"

-----------------------------------------------------------------------------
\* decode_queue, decode_survey: append the sample.
Decode ==
  /\ decoded < MaxSamples
  /\ \E t \in Time : samples' = Append(samples, t)
  /\ decoded' = decoded + 1
  /\ UNCHANGED <<setting, items, at, pc, lookup, fault>>

-----------------------------------------------------------------------------
(* The section of the list.                                                *)

Latest == samples[Len(samples)]

\* Whether duration reaches 900 ms.  The survey has counters of its own, unsigned,
\* which may differ by anything; between a sample and itself there is nothing.
Spans_Any == {Latest - Head(samples) >= 0}
Spans == IF kind = "survey" THEN {Len(samples) > 1, FALSE}
         ELSE {Latest - Head(samples) >= SPAN}

\* With no sample in the list duration is still that of the list before; queue 3
\* is the first.
Inherited == IF kind = "queue_3" \/ attended THEN {FALSE} ELSE BOOLEAN

NotLate(t) == t >= items[at]

\* Behind the last item; what was linked behind it before is cut off.
AppendItem(t) ==
  /\ items' = SubSeq(items, 1, at) \o <<t>>
  /\ at' = at + 1

\* Before the first item of a later second.  An item that would be the first is
\* lost; one that comes behind the last does not become the last.
Later_Swapped(t) == {i \in DOMAIN items : Sec(items[i]) < Sec(t)}
Later(t) == {i \in DOMAIN items : Sec(items[i]) > Sec(t)}

InsertItem(t) ==
  \E k \in 0 .. Len(items) :
    /\ 1 .. k \cap Later(t) = {}
    /\ k = Len(items) \/ k + 1 \in Later(t)
    /\ IF k = 0
       THEN UNCHANGED <<items, at>>
       ELSE /\ items' = SubSeq(items, 1, k) \o <<t>> \o SubSeq(items, k + 1, Len(items))
            /\ at' = IF k < at THEN at + 1 ELSE at

NewItem(t) ==
  \/ /\ items = <<>>
     /\ items' = <<t>> /\ at' = 1
  \/ /\ items # <<>> /\ at # 0
     /\ IF NotLate(t) THEN AppendItem(t) ELSE InsertItem(t)

\* The head goes; q_p_last is read when there is one.
Removed == Tail(samples)

Compute ==
  /\ samples # <<>> /\ TRUE \in Spans
  /\ samples' = Removed
  /\ \/ NewItem(Latest) /\ UNCHANGED fault
     \/ /\ items # <<>> /\ at = 0
        /\ fault' = "freed node" /\ UNCHANGED <<items, at>>

NothingToCompute ==
  /\ \/ samples # <<>> /\ FALSE \in Spans
     \/ samples = <<>> /\ FALSE \in Inherited
  /\ UNCHANGED <<samples, items, at, fault>>

\* "&(queue_list_f->queue)" is NULL and so is what it is subtracted from.
ComputeOnNothing ==
  /\ samples = <<>> /\ TRUE \in Inherited
  /\ fault' = "null pointer"
  /\ UNCHANGED <<samples, items, at>>

Section ==
  /\ pc = "section"
  /\ Compute \/ NothingToCompute \/ ComputeOnNothing
  /\ pc' = IF items' = <<>> THEN "section" ELSE "pair"
  /\ UNCHANGED <<setting, decoded, lookup>>

-----------------------------------------------------------------------------
(* The lookup for a packet.                                                *)

\* The first item that is not earlier than the packet.
Reached(t, i) == items[i] >= t

\* The items passed on the way there that are old.
Aged_Unsigned(t) == {i \in DOMAIN items : Sec(t) - Sec(items[i]) > OLD \/ Sec(items[i]) > Sec(t)}
Aged(t) ==
  {i \in DOMAIN items : (\A j \in 1 .. i : ~Reached(t, j)) /\ Sec(t) - Sec(items[i]) > OLD}

Kept(t) ==
  \/ \E i \in DOMAIN items :
       /\ Reached(t, i) /\ \A j \in 1 .. i - 1 : ~Reached(t, j)
       /\ keep' = items[i]
  \/ /\ \A i \in DOMAIN items : ~Reached(t, i)
     /\ keep' = None                            \* q_keep is not initialised

\* The items before the last old one are freed.
Freed(t) ==
  \/ /\ Aged(t) = {} /\ UNCHANGED <<items, at>>
  \/ \E d \in Aged(t) :
       /\ \A i \in Aged(t) : i <= d
       /\ items' = SubSeq(items, d, Len(items))
       /\ at' = IF at >= d THEN at - d + 1 ELSE 0

Pair(t) ==
  /\ time_tp' = t
  /\ Kept(t)
  /\ Freed(t)
  /\ UNCHANGED <<setting, samples, decoded, fault>>

Due_SameSecond(t) == Sec(t) <= Sec(items[at])
Due(t) == Sec(t) < Sec(items[at])
InTime(t) == at # 0 => Sec(t) - Sec(items[at]) <= OLD

\* A packet is taken when both anchored lists are past its second; f is not asked.
Take ==
  /\ pc = "pair"
  /\ \E t \in Time :
       /\ Anchored => at # 0 /\ Due(t)
       /\ attended => InTime(t)
       /\ Pair(t)
  /\ UNCHANGED pc

\* The test of a packet reads q_p_last.
TakeInvalid ==
  /\ pc = "pair" /\ Anchored /\ at = 0
  /\ fault' = "freed node"
  /\ UNCHANGED <<setting, samples, decoded, items, at, pc, lookup>>

\* The end of the round: a packet that was not due is looked up all the same; or
\* there was none.
RoundEnd ==
  /\ pc = "pair"
  /\ \/ /\ Anchored => at # 0
        /\ \E t \in Time : (attended => InTime(t)) /\ Pair(t)
     \/ UNCHANGED <<setting, samples, decoded, items, at, lookup, fault>>
  /\ pc' = "section"

-----------------------------------------------------------------------------
Running == fault = "none"
Stopped == ~Running /\ UNCHANGED vars

Format_data == Section \/ Take \/ TakeInvalid \/ RoundEnd

Next == (Running /\ (Decode \/ Format_data)) \/ Stopped

Spec == Init /\ [][Next]_vars

-----------------------------------------------------------------------------
(* Properties.                                                             *)

\* The items are in the order of their seconds, although samples come in any
\* order, insertion looks at the seconds only, q_p_last may not be the end of the
\* chain and an append then cuts the rest off.
OrderedBySecond ==
  \A i, j \in DOMAIN items : i < j => Sec(items[i]) <= Sec(items[j])

\* In an attended collector format_data never follows a null pointer or a freed
\* node: what a lookup frees ends before q_p_last.
NoFault == attended => fault = "none"

\* A list of samples never becomes empty again, so that queue_list_last never
\* points at a freed node when the decoder appends: a head is freed only when
\* there is a later sample.
NeverEmptied == [][samples # <<>> => samples' # <<>>]_vars

\* A packet that is taken finds an item of queue 3 and of the survey, and none of
\* an earlier second would do: q_keep_3 and s_keep are never used uninitialised.
\* Nor does it cost queue 3 or the survey the last item, attended or not: the test
\* that lets the packet through keeps it.
TakenIsPaired ==
  [][Take /\ Anchored =>
       /\ keep' # None
       /\ \A i \in DOMAIN items : Reached(time_tp', i) => Sec(keep') <= Sec(items[i])
       /\ at' # 0 /\ items'[at'] = items[at]]_vars
=============================================================================

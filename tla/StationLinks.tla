---------------------------- MODULE StationLinks ----------------------------
(***************************************************************************)
(* compare_and_iwlist of project/sendudp.c: from the list of stations that *)
(* the driver hands over at every timer tick to the rates in iwp.link that *)
(* the control program asks for.                                           *)
(*                                                                         *)
(* linkinfo keeps a window of the last samples for up to TEN stations, a   *)
(* ring with a head where the next sample goes and a tail at the oldest.   *)
(* A rate is the difference between a station's new sample and the tail of *)
(* its window, if they are MinGap (100 ms) apart.  A sample stands for its *)
(* counters: its station and its time tell the properties apart.  A rate   *)
(* is the pair of samples it was computed from.                            *)
(*                                                                         *)
(* Not modelled: iwp.count, which nothing reads; the record of the sample, *)
(* written by the same watermark as those of DropHandoff; tmp3, which is   *)
(* allocated for every rate and never freed.                               *)
(***************************************************************************)
EXTENDS Integers, Sequences, FiniteSets, TLC

CONSTANTS Station, NoStation,
          TEN, IWAMOUNT,
          PerSec,        \* ticks of the clock in a second
          MinGap,        \* the 100 ms between two samples of a rate, in ticks
          Steps,         \* the ticks that pass between two callbacks
          FirstTick, LastTick

ASSUME LinksAssumption ==
         /\ NoStation \notin Station /\ IsFiniteSet(Station)
         /\ TEN \in Nat \ {0} /\ IWAMOUNT \in Nat \ {0, 1}
         /\ PerSec \in Nat \ {0} /\ MinGap \in Nat \ {0}
         /\ Steps \subseteq Nat \ {0} /\ FirstTick \in Nat /\ LastTick \in Nat
         /\ 3 * PerSec <= FirstTick /\ FirstTick <= LastTick

VARIABLES
  linkinfo,              \* the windows
  link,                  \* iwp.link, the rates
  tick,                  \* the clock, in ticks
  iwlist,                \* the stations still to be processed in this callback
  found1,                \* one of those processed had a window
  fault                  \* a sample was read past the end of a window

linkVars == <<linkinfo, link, tick, iwlist, found1, fault>>

Index == 0 .. TEN - 1
Place == 0 .. IWAMOUNT - 1
Sec(t) == t \div PerSec

NoSample == [station |-> NoStation, at |-> 0]
Sample == [station : Station \cup {NoStation}, at : Nat]
NoWindow == [station |-> NoStation, ring |-> [p \in Place |-> NoSample],
             head |-> 0, tail |-> 0, sec |-> 0]
Window == [station : Station \cup {NoStation}, ring : [Place -> Sample],
           head : Place, tail : 0 .. IWAMOUNT, sec : Nat]
NoRate == [station |-> NoStation, from |-> NoSample, at |-> 0]
Rate == [station : Station \cup {NoStation}, from : Sample, at : Nat]

LinksTypeOK ==
  /\ linkinfo \in [Index -> Window] /\ link \in [Index -> Rate]
  /\ tick \in Nat /\ iwlist \in Seq(Station)
  /\ found1 \in BOOLEAN /\ fault \in BOOLEAN

LinksInit ==
  /\ linkinfo = [w \in Index |-> NoWindow] /\ link = [s \in Index |-> NoRate]
  /\ tick = FirstTick /\ iwlist = <<>> /\ found1 = FALSE /\ fault = FALSE

-----------------------------------------------------------------------------
\* The timer callback gets the stations that are associated, in driver order, and
\* does nothing here if there are none.
Lists == UNION {{q \in [1 .. n -> Station] : \A i, j \in 1 .. n : q[i] = q[j] => i = j}
                  : n \in 1 .. Cardinality(Station)}

Poll ==
  /\ iwlist = <<>>
  /\ \E step \in Steps : tick' = tick + step
  /\ tick' <= LastTick
  /\ iwlist' \in Lists
  /\ found1' = FALSE
  /\ UNCHANGED <<linkinfo, link, fault>>

\* The sample goes to the head; a window that is full loses the one at the tail.
Full_Never(w) == FALSE
Full(w) == (w.head + 1) % IWAMOUNT = w.tail

Stored(w, st) ==
  LET filled == [w.ring EXCEPT ![w.head] = [station |-> st, at |-> tick]] IN
  [w EXCEPT !.head = (w.head + 1) % IWAMOUNT, !.sec = Sec(tick),
            !.ring = IF Full(w) THEN [filled EXCEPT ![w.tail] = NoSample] ELSE filled,
            !.tail = IF Full(w) THEN (w.tail + 1) % IWAMOUNT ELSE w.tail]

\* A new station takes a window over: here the tail is not wrapped.
TakenOver(w, st) ==
  [w EXCEPT !.station = st, !.sec = Sec(tick),
            !.ring = [w.ring EXCEPT ![w.head] = [station |-> st, at |-> tick]],
            !.head = (w.head + 1) % IWAMOUNT,
            !.tail = IF Full(w) THEN w.tail + 1 ELSE w.tail]

\* The windows that have had no sample for more than two seconds are given up,
\* with their station's name and samples left in place.
Stale_Early(w) == Sec(tick) - w.sec > 0
Stale(w) == Sec(tick) - w.sec > 2
GivenUp(windows) ==
  [w \in Index |-> IF Stale(windows[w]) THEN [windows[w] EXCEPT !.sec = 0] ELSE windows[w]]

-----------------------------------------------------------------------------
\* The rates: the first entry of the station is rewritten; a station without one
\* is written to every unused entry; what is older than two seconds is deleted.
EntriesOf(st) == {s \in Index : link[s].station = st}
Empty(s) == link[s].at = 0

Written_Last(st, s) ==
  \/ s \in EntriesOf(st) /\ \A q \in EntriesOf(st) : q <= s
  \/ EntriesOf(st) = {} /\ Empty(s)
Written(st, s) ==
  \/ s \in EntriesOf(st) /\ \A q \in EntriesOf(st) : s <= q
  \/ EntriesOf(st) = {} /\ Empty(s)

TooOld(r) == Sec(tick) - Sec(r.at) > 2

Rates(st, base) ==
  LET rate == [station |-> st, from |-> base, at |-> tick]
      written == [s \in Index |-> IF Written(st, s) THEN rate ELSE link[s]]
  IN  [s \in Index |-> IF TooOld(written[s]) THEN NoRate ELSE written[s]]

-----------------------------------------------------------------------------
(* One turn of the loop over the stations.                                 *)

WindowsOf_Fresh(st) == {w \in Index : linkinfo[w].station = st /\ linkinfo[w].sec # 0}
WindowsOf(st) == {w \in Index : linkinfo[w].station = st}
Turn(st) == iwlist # <<>> /\ st = Head(iwlist) /\ iwlist' = Tail(iwlist) /\ tick' = tick

\* The station has a window: the sample is stored, the tail is in the window, and
\* a rate is computed if the tail is old enough.
Found(st) ==
  /\ Turn(st)
  /\ \E w \in WindowsOf(st) :
       LET window == Stored(linkinfo[w], st)
           base == window.ring[window.tail]
       IN  /\ linkinfo[w].tail \in Place
           /\ linkinfo' = GivenUp([linkinfo EXCEPT ![w] = window])
           /\ link' = IF tick - base.at >= MinGap THEN Rates(st, base) ELSE link
  /\ found1' = TRUE
  /\ UNCHANGED fault

\* The tail is the place after the last: what is read there is no sample.
FoundOverrun(st) ==
  /\ Turn(st)
  /\ \E w \in WindowsOf(st) : linkinfo[w].tail \notin Place
  /\ fault' = TRUE
  /\ UNCHANGED <<linkinfo, link, found1>>

\* It has none: the first window that was given up is taken over, unless a
\* station before it in the list had a window (found1 is not reset).
Free(windows) == {w \in Index : windows[w].sec = 0}

NotFound(st) ==
  /\ Turn(st)
  /\ WindowsOf(st) = {}
  /\ LET windows == GivenUp(linkinfo) IN
       \/ /\ ~found1
          /\ \E w \in Free(windows) :
               /\ \A q \in Free(windows) : w <= q
               /\ linkinfo' = [windows EXCEPT ![w] = TakenOver(@, st)]
       \/ /\ found1 \/ Free(windows) = {}
          /\ linkinfo' = windows
  /\ UNCHANGED <<link, found1, fault>>

Running == ~fault
Stopped == (fault \/ (iwlist = <<>> /\ tick = LastTick)) /\ UNCHANGED linkVars

LinksNext ==
  \/ Running /\ (Poll \/ \E st \in Station : Found(st) \/ FoundOverrun(st) \/ NotFound(st))
  \/ Stopped

LinksSpec == LinksInit /\ [][LinksNext]_linkVars

-----------------------------------------------------------------------------
(* Properties.                                                             *)

\* A station never has two windows: its samples are not divided, whichever
\* stations come, go and come back, although a name outlives its window.
OneWindowPerStation ==
  \A w, v \in Index : linkinfo[w].station = linkinfo[v].station
                       => w = v \/ linkinfo[w].station = NoStation

\* The places from the tail up to the head.
Length(w) == (w.head + IWAMOUNT - w.tail) % IWAMOUNT
At(w, i) == w.ring[(w.tail + i) % IWAMOUNT]

\* From tail to head a window is full of samples in the order of their times, the
\* last one of the station that has it, and it never holds more than fit: the
\* rates never come from an emptied place or from a negative duration.
WindowInOrder ==
  \A n \in Index : LET w == linkinfo[n] IN
     w.station # NoStation /\ w.tail \in Place =>
       /\ Length(w) > 0 /\ At(w, Length(w) - 1).station = w.station
       /\ \A i \in 0 .. Length(w) - 1 : At(w, i).station # NoStation
       /\ \A i, j \in 0 .. Length(w) - 1 : i < j => At(w, i).at < At(w, j).at

\* A window passes to another station only when its station has not been sampled
\* for more than two seconds.
RecentKeepsWindow ==
  [][\A w \in Index : linkinfo'[w].station # linkinfo[w].station =>
        \/ linkinfo[w].station = NoStation
        \/ LET last == linkinfo[w].ring[(linkinfo[w].head + IWAMOUNT - 1) % IWAMOUNT]
           IN Sec(tick) - Sec(last.at) > 2]_linkVars

\* Of the entries of one station in iwp.link the first is the latest: the search
\* that stops at the first entry does not leave a newer copy behind it.
FirstEntryIsLatest ==
  \A s, q \in Index : s < q /\ link[s].station = link[q].station => link[s].at >= link[q].at

\* Whenever a rate is computed every entry that stays is at most two seconds old and
\* was computed against a sample, never an emptied place, and the one that a search
\* for a station finds is its latest.  (The sample may be that of another station,
\* from which the window was taken over.)
RatesAreRecent ==
  [][link' # link =>
       /\ \A s \in Index : link'[s].at # 0 => Sec(tick) - Sec(link'[s].at) <= 2
       /\ \A s \in Index : link'[s].at # 0 => link'[s].from.station # NoStation
       /\ FirstEntryIsLatest']_linkVars

\* Stations differ by name only.
Interchangeable == Permutations(Station)
=============================================================================

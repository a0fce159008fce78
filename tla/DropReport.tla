---------------------------- MODULE DropReport ----------------------------
(***************************************************************************)
(* What the hand-off of dropped packets promises the collector: packets    *)
(* are dropped in time order, and every distinct time stamp is reported    *)
(* once, in the order of the drops, none skipped.  Two packets dropped in  *)
(* the same microsecond are one report: the watermark of get_information   *)
(* (project/sendudp.c) cannot tell them apart.                             *)
(***************************************************************************)
EXTENDS Integers, Sequences

CONSTANT Stamp          \* the time stamps (sec, usec) as naturals

VARIABLES drops,        \* stamps of the dropped packets, oldest first
          reported      \* stamps written to the public buffer, in order

vars == <<drops, reported>>

Latest(s) == IF s = <<>> THEN 0 ELSE s[Len(s)]

Init == drops = <<>> /\ reported = <<>>

Drop == \E t \in Stamp : /\ t >= Latest(drops)
                         /\ drops' = Append(drops, t)
                         /\ UNCHANGED reported

Report == \E i \in DOMAIN drops :
             /\ drops[i] > Latest(reported)
             /\ \A j \in 1 .. i - 1 : drops[j] <= Latest(reported)
             /\ reported' = Append(reported, drops[i])
             /\ UNCHANGED drops

Next == Drop \/ Report

Spec == Init /\ [][Next]_vars
=============================================================================

--------------------------- MODULE DatagramQueue ---------------------------
(***************************************************************************)
(* What the buffer pool of the collector promises: a first-in first-out    *)
(* queue of datagrams.  Datagrams are named by the order in which they     *)
(* were accepted, so the queue holds Len(delivered) + 1 .. accepted.       *)
(***************************************************************************)
EXTENDS Integers, Sequences

VARIABLES accepted, delivered

Init == accepted = 0 /\ delivered = <<>>

Accept == accepted' = accepted + 1 /\ UNCHANGED delivered

Deliver == /\ Len(delivered) < accepted
           /\ delivered' = Append(delivered, Len(delivered) + 1)
           /\ UNCHANGED accepted

Next == Accept \/ Deliver

Spec == Init /\ [][Next]_<<accepted, delivered>>
=============================================================================

----------------------------- MODULE ByteChannel -----------------------------
(***************************************************************************)
(* What the data path promises in each direction while no bus reset        *)
(* clears a FIFO: a bounded channel that delivers the bytes put into it    *)
(* once each, in order, without loss.  Byte k is the k-th byte put in.     *)
(***************************************************************************)
EXTENDS Naturals, Sequences

CONSTANT Capacity   (* bytes the channel can hold undelivered, a number    *)

VARIABLES
  sent,   (* number of bytes put in                                        *)
  got     (* bytes delivered                                               *)

vars == <<sent, got>>

Init == sent = 0 /\ got = << >>

(* Back-pressure: the source waits while the channel is full.              *)
Put(n) ==
  /\ sent + n <= Len(got) + Capacity
  /\ sent' = sent + n
  /\ UNCHANGED got

Deliver(n) ==
  /\ Len(got) + n <= sent
  /\ got' = got \o [i \in 1..n |-> Len(got) + i]
  /\ UNCHANGED sent

Next == \E n \in 1..Capacity : Put(n) \/ Deliver(n)

Spec == Init /\ [][Next]_vars
=============================================================================

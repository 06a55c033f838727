--------------------------- MODULE StreamProtocol ---------------------------
(***************************************************************************)
(* What a stream promises to clients that use it as the tasks do: a block  *)
(* is taken from the pool, queued by its holder, received by the next      *)
(* holder and released once.  held is the set of blocks in clients' hands, *)
(* whoever the clients are and however many they are; SerialBridge is      *)
(* shown to follow this specification on both of its streams.              *)
(***************************************************************************)
EXTENDS Stream

VARIABLE held   (* the blocks allocated or received and not yet passed on  *)

vars == <<free, queue, held>>

PInit == Init /\ held = {}

GetBlock(b) ==
  /\ \E size \in 0..MAX_BLOCK_SIZE : get_block(b, size)
  /\ held' = held \cup {b}
  /\ UNCHANGED queue

SendNow(b) ==
  /\ b \in held
  /\ \E size \in 0..MAX_BLOCK_SIZE : send_or_drop(b, size)
  /\ held' = held \ {b}
  /\ UNCHANGED free

SendWait(b) ==
  /\ b \in held
  /\ \E size, len \in 0..MAX_BLOCK_SIZE : send(b, size, len)
  /\ held' = held \ {b}
  /\ UNCHANGED free

Receive ==
  /\ \E p \in block_pointer :
       /\ receive(p)
       /\ held' = held \cup {p.data}
  /\ UNCHANGED free

Release(b) ==
  /\ b \in held
  /\ release(b)
  /\ held' = held \ {b}
  /\ UNCHANGED queue

Next ==
  \/ \E b \in Blocks : GetBlock(b)
  \/ \E b \in Blocks : SendNow(b)
  \/ \E b \in Blocks : SendWait(b)
  \/ Receive
  \/ \E b \in Blocks : Release(b)

Spec == PInit /\ [][Next]_vars

-----------------------------------------------------------------------------
(* Type invariant: the pool, the pointers and the holders name blocks of   *)
(* this stream only, and no pointer spans more than a block.               *)
PTypeOK ==
  /\ TypeOK
  /\ held \in SUBSET Blocks

(* No block is queued twice.                                               *)
QueueInjective ==
  \A i, j \in 1..Len(queue) : queue[i].data = queue[j].data => i = j

(* Every block of the pool is in exactly one place: free, queued once, or  *)
(* held.  Nothing leaks and no block has two owners.                       *)
Ownership ==
  /\ QueueInjective
  /\ free \cap queued = {}
  /\ free \cap held = {}
  /\ queued \cap held = {}
  /\ free \cup queued \cup held = Blocks

(* A client that holds a block finds room in the queue for it, because the *)
(* queue and the pool have the same COUNT: its send is neither refused     *)
(* (cdc.h ignores the result) nor made to wait.                            *)
HolderCanSend == held # {} => ~full
=============================================================================

------------------------------- MODULE Stream -------------------------------
(***************************************************************************)
(* One stream_impl<MAX_BLOCK_SIZE, COUNT> of io/stream.h: a pool of COUNT  *)
(* memory blocks of MAX_BLOCK_SIZE bytes and a FreeRTOS queue of COUNT     *)
(* block pointers.  The module holds the operations only: the tasks that   *)
(* call them are in SerialBridge, the discipline they follow is in         *)
(* StreamProtocol.                                                         *)
(*                                                                         *)
(* The pool (etl::fixed_sized_memory_block_allocator) is not part of the   *)
(* repository: it is a set of free blocks of which allocate hands out any. *)
(***************************************************************************)
EXTENDS Naturals, Sequences, FiniteSets

CONSTANTS
  Blocks,         (* the memory blocks; COUNT is their number              *)
  MAX_BLOCK_SIZE, (* bytes of one block                                    *)
  NoBlock         (* the null data pointer of a default memory_block       *)

ASSUME StreamAssumption ==
  /\ IsFiniteSet(Blocks)
  /\ NoBlock \notin Blocks
  /\ MAX_BLOCK_SIZE \in Nat \ {0}

VARIABLES
  free,   (* _memory_pool: the blocks that are not allocated               *)
  queue   (* _message_queue: block_pointers, oldest first                  *)

COUNT == Cardinality(Blocks)

(* block_pointer: the data pointer and the size of a queued span.          *)
block_pointer == [data : Blocks, size : 0..MAX_BLOCK_SIZE]

Init ==
  /\ free  = Blocks
  /\ queue = << >>

TypeOK ==
  /\ free  \in SUBSET Blocks
  /\ queue \in Seq(block_pointer)

empty == queue = << >>

(* Mutant: a queue one slot shorter than the pool.                         *)
full_one_slot_short == Len(queue) >= COUNT - 1

full == Len(queue) >= COUNT

(* get_block(size) returns a free block, or fails when the pool is         *)
(* exhausted or size is more than the pool's block size.                   *)
can_get(size) == free # {} /\ size <= MAX_BLOCK_SIZE

get_block(b, size) ==
  /\ can_get(size)
  /\ b \in free
  /\ free' = free \ {b}

(* Mutant: the block never goes back to the pool.                          *)
release_nothing(b) == free' = free

(* The null pointer of a default memory_block is not one of the pool's     *)
(* blocks: releasing it changes nothing.                                   *)
release(b) == free' = free \cup ({b} \cap Blocks)

(* Mutant: the length is taken for the index of the last byte.             *)
send_or_drop_last_index(b, size) ==
  queue' = IF full THEN queue ELSE Append(queue, [data |-> b, size |-> size + 1])

(* send(block, 0): a full queue refuses the pointer at once.               *)
send_or_drop(b, size) ==
  queue' = IF full THEN queue ELSE Append(queue, [data |-> b, size |-> size])

(* Mutant: resized_len is not applied.                                     *)
send_whole_block(b, size, resized_len) ==
  /\ ~full
  /\ queue' = Append(queue, [data |-> b, size |-> size])

(* send(block, resized_len, wait): a smaller length shrinks the span; the  *)
(* wait argument is ignored for MAX_DELAY, so a full queue blocks.         *)
send(b, size, resized_len) ==
  /\ ~full
  /\ queue' = Append(queue, [data |-> b,
                             size |-> IF resized_len < size THEN resized_len ELSE size])

(* Mutant: the newest pointer first.                                       *)
receive_newest(p) ==
  /\ ~empty
  /\ p = queue[Len(queue)]
  /\ queue' = SubSeq(queue, 1, Len(queue) - 1)

receive(p) ==
  /\ ~empty
  /\ p = Head(queue)
  /\ queue' = Tail(queue)

(* The blocks named by the queued pointers.                                *)
queued == {queue[i].data : i \in 1..Len(queue)}
=============================================================================

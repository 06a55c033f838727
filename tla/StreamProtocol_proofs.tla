----------------------- MODULE StreamProtocol_proofs -----------------------
(***************************************************************************)
(* Ownership of the blocks and room in the queue, for any number of blocks *)
(* of any size and any number of clients.                                  *)
(***************************************************************************)
EXTENDS StreamProtocol, FiniteSetTheorems, SequenceTheorems, TLAPS

(* The blocks that a sequence of pointers names, and that it names none    *)
(* twice: queued and QueueInjective of any sequence.                       *)
Named(q) == {q[i].data : i \in 1..Len(q)}

NamesOnce(q) == \A i, j \in 1..Len(q) : q[i].data = q[j].data => i = j

-----------------------------------------------------------------------------
(* Queueing a pointer adds its block to the named ones.                    *)
LEMMA AppendNamed ==
  ASSUME NEW S, NEW q \in Seq(S), NEW e \in S
  PROVE  /\ Named(Append(q, e)) = Named(q) \cup {e.data}
         /\ NamesOnce(q) /\ e.data \notin Named(q) => NamesOnce(Append(q, e))
<1> DEFINE r == Append(q, e)
<1>1. /\ Len(q) \in Nat
      /\ Len(r) = Len(q) + 1
      /\ \A i \in 1..Len(q) : r[i] = q[i]
      /\ r[Len(q) + 1] = e
  BY LenProperties, AppendProperties
<1>2. 1..Len(r) = (1..Len(q)) \cup {Len(q) + 1}
  BY <1>1
<1> HIDE DEF r
<1>3. Named(r) = Named(q) \cup {e.data}
  BY <1>1, <1>2 DEF Named
<1>4. NamesOnce(q) /\ e.data \notin Named(q) => NamesOnce(r)
  BY <1>1, <1>2 DEF Named, NamesOnce
<1>5. QED
  BY <1>3, <1>4 DEF r

(* Taking the oldest pointer removes its block from the named ones.        *)
LEMMA TailNamed ==
  ASSUME NEW S, NEW q \in Seq(S), q # << >>, NamesOnce(q)
  PROVE  /\ Head(q).data \in Named(q)
         /\ Named(Tail(q)) = Named(q) \ {Head(q).data}
         /\ NamesOnce(Tail(q))
<1> DEFINE r == Tail(q)
<1>1. /\ Len(q) \in Nat \ {0}
      /\ Len(r) = Len(q) - 1
      /\ \A i \in 1..Len(r) : r[i] = q[i + 1]
      /\ Head(q) = q[1]
  BY EmptySeq, HeadTailProperties
<1> HIDE DEF r
<1>2. \A i \in 1..Len(r) : i + 1 \in 1..Len(q) /\ i + 1 # 1
  BY <1>1
<1>3. \A j \in 1..Len(q) : j # 1 => j - 1 \in 1..Len(r) /\ (j - 1) + 1 = j
  BY <1>1
<1>4. 1 \in 1..Len(q)
  BY <1>1
<1>5. Head(q).data \in Named(q)
  BY <1>1, <1>4 DEF Named
<1>6. Named(r) \subseteq Named(q) \ {Head(q).data}
  BY <1>1, <1>2, <1>4 DEF Named, NamesOnce
<1>7. Named(q) \ {Head(q).data} \subseteq Named(r)
  <2> SUFFICES ASSUME NEW j \in 1..Len(q), q[j].data # Head(q).data
               PROVE  q[j].data \in Named(r)
    BY DEF Named
  <2>1. j # 1
    BY <1>1
  <2>2. r[j - 1] = q[j]
    BY <1>1, <1>3, <2>1
  <2>3. QED
    BY <1>3, <2>1, <2>2 DEF Named
<1>8. NamesOnce(r)
  <2> SUFFICES ASSUME NEW i \in 1..Len(r), NEW j \in 1..Len(r), r[i].data = r[j].data
               PROVE  i = j
    BY DEF NamesOnce
  <2>1. q[i + 1].data = q[j + 1].data
    BY <1>1
  <2>2. i + 1 = j + 1
    BY <1>2, <2>1 DEF NamesOnce
  <2>3. QED
    BY <1>1, <2>2
<1>9. QED
  BY <1>5, <1>6, <1>7, <1>8 DEF r

(* A sequence that names blocks of B once each, but not b, is shorter than *)
(* B has blocks: the pigeonhole principle behind every ignored result.     *)
LEMMA ShortQueue ==
  ASSUME NEW B, IsFiniteSet(B), NEW b \in B,
         NEW q, Len(q) \in Nat, \A i \in 1..Len(q) : q[i].data \in B,
         NamesOnce(q), b \notin Named(q)
  PROVE  Len(q) < Cardinality(B)
<1> DEFINE T == B \ {b}
           f == [i \in 1..Len(q) |-> q[i].data]
<1>1. IsFiniteSet(T) /\ Cardinality(T) = Cardinality(B) - 1
  BY FS_RemoveElement
<1>2. f \in Injection(1..Len(q), T)
  BY DEF Injection, IsInjective, NamesOnce, Named
<1>3. Cardinality(1..Len(q)) <= Cardinality(T)
  BY <1>1, <1>2, FS_Injection
<1>4. Cardinality(1..Len(q)) = Len(q)
  <2>1. 1 \in Int /\ Len(q) \in Int
    OBVIOUS
  <2>2. Cardinality(1..Len(q)) = IF 1 > Len(q) THEN 0 ELSE Len(q) - 1 + 1
    BY <2>1, FS_Interval
  <2>3. QED
    BY <2>2
<1>5. Cardinality(B) \in Nat
  BY FS_CardinalityType
<1>6. QED
  BY <1>1, <1>3, <1>4, <1>5

-----------------------------------------------------------------------------
(* The initial pool is well-formed and owns every block.                   *)
LEMMA ProtocolInit == PInit => PTypeOK /\ Ownership
<1>1. << >> \in Seq(block_pointer) /\ Len(<< >>) = 0
  BY EmptySeq
<1>2. QED
  BY <1>1 DEF PInit, Init, PTypeOK, TypeOK, Ownership, QueueInjective, queued

(* Every operation keeps the pool, the pointers and the holders of the     *)
(* stream well-formed.                                                     *)
LEMMA ProtocolTypeStep == PTypeOK /\ [Next]_vars => PTypeOK'
<1> SUFFICES ASSUME PTypeOK, [Next]_vars PROVE PTypeOK'
  OBVIOUS
<1> USE DEF PTypeOK, TypeOK
<1>1. ASSUME NEW b \in Blocks, GetBlock(b) PROVE PTypeOK'
  BY <1>1 DEF GetBlock, get_block
<1>2. ASSUME NEW b \in Blocks, SendNow(b) PROVE PTypeOK'
  <2>1. PICK size \in 0..MAX_BLOCK_SIZE : send_or_drop(b, size)
    BY <1>2 DEF SendNow
  <2>2. [data |-> b, size |-> size] \in block_pointer
    BY DEF block_pointer
  <2>3. queue' \in Seq(block_pointer)
    BY <2>1, <2>2, AppendProperties DEF send_or_drop
  <2>4. QED
    BY <1>2, <2>3 DEF SendNow
<1>3. ASSUME NEW b \in Blocks, SendWait(b) PROVE PTypeOK'
  <2>1. PICK size \in 0..MAX_BLOCK_SIZE, len \in 0..MAX_BLOCK_SIZE : send(b, size, len)
    BY <1>3 DEF SendWait
  <2>2. [data |-> b, size |-> IF len < size THEN len ELSE size] \in block_pointer
    BY DEF block_pointer
  <2>3. queue' \in Seq(block_pointer)
    BY <2>1, <2>2, AppendProperties DEF send
  <2>4. QED
    BY <1>3, <2>3 DEF SendWait
<1>4. ASSUME Receive PROVE PTypeOK'
  <2>1. PICK p \in block_pointer : receive(p) /\ held' = held \cup {p.data}
    BY <1>4 DEF Receive
  <2>2. queue' \in Seq(block_pointer)
    BY <2>1, HeadTailProperties DEF receive, empty
  <2>3. QED
    BY <1>4, <2>1, <2>2 DEF Receive, block_pointer
<1>5. ASSUME NEW b \in Blocks, Release(b) PROVE PTypeOK'
  BY <1>5 DEF Release, release
<1>6. CASE UNCHANGED vars
  BY <1>6 DEF vars
<1>7. QED
  BY <1>1, <1>2, <1>3, <1>4, <1>5, <1>6 DEF Next

(* A held block finds the queue not full.                                  *)
LEMMA RoomForHeld == PTypeOK /\ Ownership => HolderCanSend
<1> SUFFICES ASSUME PTypeOK, Ownership, NEW b \in held
             PROVE  ~full
  BY DEF HolderCanSend
<1>1. /\ Len(queue) \in Nat
      /\ \A i \in 1..Len(queue) : queue[i].data \in Blocks
  <2>1. queue \in Seq(block_pointer)
    BY DEF PTypeOK, TypeOK
  <2>2. Len(queue) \in Nat /\ \A i \in 1..Len(queue) : queue[i] \in block_pointer
    BY <2>1, LenProperties, ElementOfSeq
  <2>3. QED
    BY <2>2 DEF block_pointer
<1>2. NamesOnce(queue) /\ b \notin Named(queue)
  BY DEF Ownership, QueueInjective, queued, Named, NamesOnce
<1>3. b \in Blocks /\ IsFiniteSet(Blocks)
  BY StreamAssumption DEF PTypeOK
<1>4. Len(queue) < Cardinality(Blocks)
  BY <1>1, <1>2, <1>3, ShortQueue
<1>5. Cardinality(Blocks) \in Nat
  BY <1>3, FS_CardinalityType
<1>6. QED
  BY <1>1, <1>4, <1>5 DEF full, COUNT

(* Every operation keeps each block in exactly one place.                  *)
LEMMA OwnershipStep == PTypeOK /\ Ownership /\ [Next]_vars => Ownership'
<1> SUFFICES ASSUME PTypeOK, Ownership, [Next]_vars PROVE Ownership'
  OBVIOUS
<1>0. /\ queued = Named(queue) /\ queued' = Named(queue')
      /\ QueueInjective <=> NamesOnce(queue)
      /\ QueueInjective' <=> NamesOnce(queue')
  BY DEF queued, Named, QueueInjective, NamesOnce
<1>a. ASSUME UNCHANGED queue PROVE queued' = queued /\ QueueInjective' = QueueInjective
  BY <1>a DEF queued, QueueInjective
<1>b. ASSUME NEW b \in held, NEW n \in 0..MAX_BLOCK_SIZE,
             queue' = Append(queue, [data |-> b, size |-> n])
      PROVE  queued' = queued \cup {b} /\ QueueInjective'
  <2>1. [data |-> b, size |-> n] \in block_pointer
    BY DEF PTypeOK, block_pointer
  <2>2. b \notin Named(queue)
    BY <1>0 DEF Ownership
  <2>3. QED
    BY <1>0, <1>b, <2>1, <2>2, AppendNamed DEF Ownership, PTypeOK, TypeOK
<1>1. ASSUME NEW b \in Blocks, GetBlock(b) PROVE Ownership'
  BY <1>1, <1>a DEF GetBlock, get_block, Ownership
<1>2. ASSUME NEW b \in Blocks, SendNow(b) PROVE Ownership'
  <2>1. PICK size \in 0..MAX_BLOCK_SIZE : send_or_drop(b, size)
    BY <1>2 DEF SendNow
  <2>2. b \in held /\ ~full
    BY <1>2, RoomForHeld DEF SendNow, HolderCanSend
  <2>3. queued' = queued \cup {b} /\ QueueInjective'
    BY <1>b, <2>1, <2>2 DEF send_or_drop
  <2>4. QED
    BY <1>2, <2>2, <2>3 DEF SendNow, Ownership
<1>3. ASSUME NEW b \in Blocks, SendWait(b) PROVE Ownership'
  <2>1. PICK size \in 0..MAX_BLOCK_SIZE, len \in 0..MAX_BLOCK_SIZE : send(b, size, len)
    BY <1>3 DEF SendWait
  <2>2. queued' = queued \cup {b} /\ QueueInjective'
    BY <1>3, <1>b, <2>1 DEF SendWait, send
  <2>3. QED
    BY <1>3, <2>2 DEF SendWait, Ownership
<1>4. ASSUME Receive PROVE Ownership'
  <2>1. PICK p \in block_pointer : receive(p) /\ held' = held \cup {p.data}
    BY <1>4 DEF Receive
  <2>2. queue # << >> /\ p = Head(queue) /\ queue' = Tail(queue)
    BY <2>1 DEF receive, empty
  <2>3. p.data \in queued /\ queued' = queued \ {p.data} /\ QueueInjective'
    BY <1>0, <2>2, TailNamed DEF Ownership, PTypeOK, TypeOK
  <2>4. QED
    BY <1>4, <2>1, <2>3 DEF Receive, Ownership
<1>5. ASSUME NEW b \in Blocks, Release(b) PROVE Ownership'
  BY <1>5, <1>a DEF Release, release, Ownership
<1>6. CASE UNCHANGED vars
  BY <1>6, <1>a DEF vars, Ownership
<1>7. QED
  BY <1>1, <1>2, <1>3, <1>4, <1>5, <1>6 DEF Next

-----------------------------------------------------------------------------
(* The pool, the queue and the holders name blocks of the stream only.     *)
THEOREM PTypeCorrect == Spec => []PTypeOK
<1>1. PInit => PTypeOK
  BY ProtocolInit
<1>2. PTypeOK /\ [Next]_vars => PTypeOK'
  BY ProtocolTypeStep
<1>3. QED
  BY <1>1, <1>2, PTL DEF Spec

(* No block leaks, is queued twice, or has two owners.                     *)
THEOREM OwnershipCorrect == Spec => []Ownership
<1>1. PInit => Ownership
  BY ProtocolInit
<1>2. PTypeOK /\ Ownership /\ [Next]_vars => Ownership'
  BY OwnershipStep
<1>3. QED
  BY <1>1, <1>2, PTypeCorrect, PTL DEF Spec

(* No holder's send is ever refused or made to wait.                       *)
THEOREM HoldersCanSend == Spec => []HolderCanSend
<1>1. PTypeOK /\ Ownership => HolderCanSend
  BY RoomForHeld
<1>2. QED
  BY <1>1, PTypeCorrect, OwnershipCorrect, PTL
=============================================================================

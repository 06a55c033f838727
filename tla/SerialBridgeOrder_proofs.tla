---------------------- MODULE SerialBridgeOrder_proofs ----------------------
(***************************************************************************)
(* The order of the bytes in each direction.  All that is on its way is a  *)
(* chain of sequences, from what has arrived to what has just been put in: *)
(* every one rises, and all of it lies below what comes behind it.  The    *)
(* steps that move bytes along the chain lose none of them either.         *)
(***************************************************************************)
EXTENDS SerialBridge_proofs

Rising(s) == \A i, j \in 1..Len(s) : i < j => s[i] < s[j]
UpTo(s, b) == \A i \in 1..Len(s) : s[i] <= b
Before(s, t) == \A i \in 1..Len(s), j \in 1..Len(t) : s[i] < t[j]

Chain(f, N, b) ==
  /\ \A n \in 0..N : f[n] \in Seq(Nat) /\ Rising(f[n]) /\ UpTo(f[n], b)
  /\ \A m, n \in 0..N : m < n => Before(f[m], f[n])

Bytes(s) == {s[i] : i \in 1..Len(s)}

(* The bytes 1..b are in the chain, and no others.                         *)
Complete(f, N, b) == UNION {Bytes(f[n]) : n \in 0..N} = 1..b

(* From the stages f to the stages g the order is kept and nothing is lost. *)
Kept(f, N, b, g, M, c) == Chain(g, M, c) /\ (Complete(f, N, b) => Complete(g, M, c))

(* What of the block's bytes from..to.                                     *)
Span(mem, blk, from, to) == SubSeq(mem[blk], from, to)
Queued(mem, p) == Span(mem, p.data, 1, p.size)

(* The two ends of the queue of each stream: what is left of the block a   *)
(* task reads, and the block a task has filled.                            *)
CliHand == IF cliPc = "chars" /\ cliBlk # NoBlock THEN Span(rxMem, cliBlk, cliPos + 1, cliLen) ELSE << >>
CdcRxHand == IF cdcPc = "send" THEN Span(rxMem, cdcBlk, 1, cdcLen) ELSE << >>
CdcTxHand == IF cdcPc = "write" THEN Span(txMem, cdcBlk, cdcSent + 1, cdcLen) ELSE << >>

RxStages ==
  [n \in 0..Len(rxQueue) + 3 |->
     IF n = 0 THEN consumed ELSE IF n = 1 THEN CliHand
     ELSE IF n <= Len(rxQueue) + 1 THEN Queued(rxMem, rxQueue[n - 1])
     ELSE IF n = Len(rxQueue) + 2 THEN CdcRxHand ELSE usbRx]

TxStages ==
  [n \in 0..Len(txQueue) + 2 |->
     IF n = 0 THEN hostGot ELSE IF n = 1 THEN usbTx ELSE IF n = 2 THEN CdcTxHand
     ELSE Queued(txMem, txQueue[n - 2])]

RxChained == ~replayed /\ ~shortRead => Chain(RxStages, Len(rxQueue) + 3, hostSent)

TxChained ==
  /\ Chain(TxStages, Len(txQueue) + 2, written)
  /\ cliPc = "send" => \A i \in 1..outLen : txMem[outBlk][i] = written + i

(* Everything put in is still on its way or has arrived.                   *)
RxAll == Complete(RxStages, Len(rxQueue) + 3, hostSent)
TxAll == Complete(TxStages, Len(txQueue) + 2, written)

OrderInv == BridgeInv /\ RxChained /\ TxChained

-----------------------------------------------------------------------------
(* Chains.                                                                 *)

(* Nothing is in any order.                                                *)
LEMMA EmptyInOrder ==
  /\ << >> \in Seq(Nat) /\ Rising(<< >>) /\ \A b : UpTo(<< >>, b)
  /\ \A s : Before(<< >>, s) /\ Before(s, << >>)
<1>1. << >> \in Seq(Nat) /\ Len(<< >>) = 0
  BY EmptySeq
<1> QED BY <1>1 DEF Rising, UpTo, Before

(* The elements of two sequences put together.                             *)
LEMMA ConcatElements ==
  ASSUME NEW s \in Seq(Nat), NEW t \in Seq(Nat)
  PROVE  /\ s \o t \in Seq(Nat)
         /\ Len(s) \in Nat /\ Len(t) \in Nat /\ Len(s \o t) = Len(s) + Len(t)
         /\ \A i \in 1..Len(s) : i \in 1..Len(s \o t) /\ (s \o t)[i] = s[i]
         /\ \A j \in 1..Len(t) : Len(s) + j \in 1..Len(s \o t) /\ (s \o t)[Len(s) + j] = t[j]
         /\ \A i \in 1..Len(s \o t) : i \in 1..Len(s) \/ \E j \in 1..Len(t) : i = Len(s) + j
<1> DEFINE r == s \o t
<1>1. Len(s) \in Nat /\ Len(t) \in Nat
  BY LenProperties
<1>2. r \in Seq(Nat) /\ Len(r) = Len(s) + Len(t)
  BY ConcatProperties
<1>3. \A i \in 1..Len(s) : i \in 1..Len(r) /\ r[i] = s[i]
  <2> SUFFICES ASSUME NEW i \in 1..Len(s) PROVE i \in 1..Len(r) /\ r[i] = s[i]
    OBVIOUS
  <2>1. i \in 1..Len(s) + Len(t) /\ i <= Len(s)
    BY <1>1
  <2> QED BY <1>2, <2>1, ConcatProperties
<1>4. \A j \in 1..Len(t) : Len(s) + j \in 1..Len(r) /\ r[Len(s) + j] = t[j]
  <2> SUFFICES ASSUME NEW j \in 1..Len(t)
               PROVE  Len(s) + j \in 1..Len(r) /\ r[Len(s) + j] = t[j]
    OBVIOUS
  <2>1. Len(s) + j \in 1..Len(s) + Len(t) /\ ~(Len(s) + j <= Len(s)) /\ (Len(s) + j) - Len(s) = j
    BY <1>1
  <2> QED BY <1>2, <2>1, ConcatProperties
<1>5. \A i \in 1..Len(r) : i \in 1..Len(s) \/ \E j \in 1..Len(t) : i = Len(s) + j
  <2> SUFFICES ASSUME NEW i \in 1..Len(r), i \notin 1..Len(s)
               PROVE  \E j \in 1..Len(t) : i = Len(s) + j
    OBVIOUS
  <2>1. i - Len(s) \in 1..Len(t) /\ i = Len(s) + (i - Len(s))
    BY <1>1, <1>2
  <2> QED BY <2>1
<1> QED BY <1>1, <1>2, <1>3, <1>4, <1>5

(* The bytes of two sequences put together.                                *)
LEMMA ConcatBytes ==
  ASSUME NEW s \in Seq(Nat), NEW t \in Seq(Nat)
  PROVE  Bytes(s \o t) = Bytes(s) \cup Bytes(t)
<1> DEFINE r == s \o t
<1>1. /\ \A i \in 1..Len(s) : i \in 1..Len(r) /\ r[i] = s[i]
      /\ \A j \in 1..Len(t) : Len(s) + j \in 1..Len(r) /\ r[Len(s) + j] = t[j]
      /\ \A i \in 1..Len(r) : i \in 1..Len(s) \/ \E j \in 1..Len(t) : i = Len(s) + j
  BY ConcatElements
<1> HIDE DEF r
<1>2. Bytes(s) \subseteq Bytes(r)
  BY <1>1 DEF Bytes
<1>3. Bytes(t) \subseteq Bytes(r)
  BY <1>1 DEF Bytes
<1>4. Bytes(r) \subseteq Bytes(s) \cup Bytes(t)
  <2> SUFFICES ASSUME NEW i \in 1..Len(r) PROVE r[i] \in Bytes(s) \cup Bytes(t)
    BY DEF Bytes
  <2>1. CASE i \in 1..Len(s)
    BY <1>1, <2>1 DEF Bytes
  <2>2. CASE i \notin 1..Len(s)
    <3>1. PICK j \in 1..Len(t) : i = Len(s) + j
      BY <1>1, <2>2
    <3> QED BY <1>1, <3>1 DEF Bytes
  <2> QED BY <2>1, <2>2
<1> QED BY <1>2, <1>3, <1>4 DEF r

(* Two chains of the same bytes.                                           *)
LEMMA SameBytes ==
  ASSUME NEW f, NEW g, NEW N, NEW M, NEW b,
         \A n \in 0..M : Bytes(g[n]) \subseteq UNION {Bytes(f[k]) : k \in 0..N},
         \A k \in 0..N : Bytes(f[k]) \subseteq UNION {Bytes(g[n]) : n \in 0..M}
  PROVE  Complete(f, N, b) => Complete(g, M, b)
<1>1. UNION {Bytes(g[n]) : n \in 0..M} = UNION {Bytes(f[k]) : k \in 0..N}
  OBVIOUS
<1> QED BY <1>1 DEF Complete

(* The same sequences with empty ones between.                             *)
LEMMA SameStages ==
  ASSUME NEW f, NEW g, NEW N, NEW M, NEW b,
         \A n \in 0..M : g[n] = << >> \/ \E k \in 0..N : g[n] = f[k],
         \A k \in 0..N : f[k] = << >> \/ \E n \in 0..M : f[k] = g[n]
  PROVE  Complete(f, N, b) => Complete(g, M, b)
<1>1. Bytes(<< >>) = {}
  BY EmptySeq DEF Bytes
<1>2. \A n \in 0..M : Bytes(g[n]) \subseteq UNION {Bytes(f[k]) : k \in 0..N}
  BY <1>1
<1>3. \A k \in 0..N : Bytes(f[k]) \subseteq UNION {Bytes(g[n]) : n \in 0..M}
  BY <1>1
<1> QED BY <1>2, <1>3, SameBytes

(* The order of two sequences put together.                                *)
LEMMA ConcatInOrder ==
  ASSUME NEW s \in Seq(Nat), NEW t \in Seq(Nat)
  PROVE  /\ s \o t \in Seq(Nat)
         /\ Rising(s \o t) <=> Rising(s) /\ Rising(t) /\ Before(s, t)
         /\ \A b : UpTo(s \o t, b) <=> UpTo(s, b) /\ UpTo(t, b)
         /\ \A u \in Seq(Nat) : Before(s \o t, u) <=> Before(s, u) /\ Before(t, u)
         /\ \A u \in Seq(Nat) : Before(u, s \o t) <=> Before(u, s) /\ Before(u, t)
<1> DEFINE r == s \o t
<1>1. Len(s) \in Nat /\ Len(t) \in Nat
  BY LenProperties
<1>2. r \in Seq(Nat)
  BY ConcatElements
<1>3. \A i \in 1..Len(s) : i \in 1..Len(r) /\ r[i] = s[i]
  BY ConcatElements
<1>4. \A j \in 1..Len(t) : Len(s) + j \in 1..Len(r) /\ r[Len(s) + j] = t[j]
  BY ConcatElements
<1>5. \A i \in 1..Len(r) : i \in 1..Len(s) \/ \E j \in 1..Len(t) : i = Len(s) + j
  BY ConcatElements
<1> HIDE DEF r
<1>6. Rising(r) <=> Rising(s) /\ Rising(t) /\ Before(s, t)
  <2>1. ASSUME Rising(r) PROVE Rising(s) /\ Rising(t) /\ Before(s, t)
    <3>1. Rising(s)
      BY <1>3, <2>1 DEF Rising
    <3>2. Rising(t)
      BY <1>1, <1>4, <2>1 DEF Rising
    <3>3. Before(s, t)
      <4> SUFFICES ASSUME NEW i \in 1..Len(s), NEW j \in 1..Len(t) PROVE s[i] < t[j]
        BY DEF Before
      <4>1. i < Len(s) + j
        BY <1>1
      <4> QED BY <1>3, <1>4, <2>1, <4>1 DEF Rising
    <3> QED BY <3>1, <3>2, <3>3
  <2>2. ASSUME Rising(s), Rising(t), Before(s, t) PROVE Rising(r)
    <3> SUFFICES ASSUME NEW i \in 1..Len(r), NEW j \in 1..Len(r), i < j PROVE r[i] < r[j]
      BY DEF Rising
    <3>1. CASE i \in 1..Len(s) /\ j \in 1..Len(s)
      BY <1>3, <2>2, <3>1 DEF Rising
    <3>2. CASE i \in 1..Len(s) /\ j \notin 1..Len(s)
      BY <1>3, <1>4, <1>5, <2>2, <3>2 DEF Before
    <3>3. CASE i \notin 1..Len(s)
      <4>1. PICK k \in 1..Len(t) : i = Len(s) + k
        BY <1>5, <3>3
      <4>2. j \notin 1..Len(s)
        BY <1>1, <4>1
      <4>3. PICK l \in 1..Len(t) : j = Len(s) + l
        BY <1>5, <4>2
      <4>4. k < l
        BY <1>1, <4>1, <4>3
      <4> QED BY <1>4, <2>2, <4>1, <4>3, <4>4 DEF Rising
    <3> QED BY <3>1, <3>2, <3>3
  <2> QED BY <2>1, <2>2
<1>7. \A b : UpTo(r, b) <=> UpTo(s, b) /\ UpTo(t, b)
  <2> SUFFICES ASSUME NEW b PROVE UpTo(r, b) <=> UpTo(s, b) /\ UpTo(t, b)
    OBVIOUS
  <2>1. UpTo(r, b) => UpTo(s, b) /\ UpTo(t, b)
    BY <1>3, <1>4 DEF UpTo
  <2>2. UpTo(s, b) /\ UpTo(t, b) => UpTo(r, b)
    BY <1>3, <1>4, <1>5 DEF UpTo
  <2> QED BY <2>1, <2>2
<1>8. ASSUME NEW u \in Seq(Nat)
      PROVE  /\ Before(r, u) <=> Before(s, u) /\ Before(t, u)
             /\ Before(u, r) <=> Before(u, s) /\ Before(u, t)
  <2>1. Before(r, u) => Before(s, u) /\ Before(t, u)
    BY <1>3, <1>4 DEF Before
  <2>2. Before(s, u) /\ Before(t, u) => Before(r, u)
    BY <1>3, <1>4, <1>5 DEF Before
  <2>3. Before(u, r) => Before(u, s) /\ Before(u, t)
    BY <1>3, <1>4 DEF Before
  <2>4. Before(u, s) /\ Before(u, t) => Before(u, r)
    BY <1>3, <1>4, <1>5 DEF Before
  <2> QED BY <2>1, <2>2, <2>3, <2>4
<1> QED BY <1>2, <1>6, <1>7, <1>8 DEF r

(* The first bytes of a sequence move to the end of the one before.        *)
LEMMA Moved ==
  ASSUME NEW f, NEW g, NEW N \in Nat, NEW b, Chain(f, N, b),
         NEW k \in 0..N, k + 1 <= N, NEW y \in Seq(Nat), NEW z \in Seq(Nat),
         f[k + 1] = y \o z, g[k] = f[k] \o y, g[k + 1] = z,
         \A n \in 0..N : n # k /\ n # k + 1 => g[n] = f[n]
  PROVE  Kept(f, N, b, g, N, b)
<1>1. k + 1 \in 0..N /\ k < k + 1 /\ k # k + 1
  OBVIOUS
<1>2. \A n \in 0..N : f[n] \in Seq(Nat) /\ Rising(f[n]) /\ UpTo(f[n], b)
  BY DEF Chain
<1>3. \A m, n \in 0..N : m < n => Before(f[m], f[n])
  BY DEF Chain
<1> DEFINE x == f[k]
<1>4. x \in Seq(Nat) /\ Rising(x) /\ UpTo(x, b)
  BY <1>2
<1>5. Rising(y) /\ Rising(z) /\ Before(y, z) /\ UpTo(y, b) /\ UpTo(z, b)
  <2>1. Rising(y \o z) /\ UpTo(y \o z, b)
    BY <1>1, <1>2
  <2> QED BY ONLY <2>1, y \in Seq(Nat), z \in Seq(Nat), ConcatInOrder
<1>6. Before(x, y) /\ Before(x, z)
  <2>1. Before(x, y \o z)
    BY <1>1, <1>3
  <2> QED BY ONLY <1>4, <2>1, y \in Seq(Nat), z \in Seq(Nat), ConcatInOrder
<1>7. \A n \in 0..N : /\ n < k => Before(f[n], x) /\ Before(f[n], y) /\ Before(f[n], z)
                      /\ k + 1 < n => Before(x, f[n]) /\ Before(y, f[n]) /\ Before(z, f[n])
  <2> SUFFICES ASSUME NEW n \in 0..N
               PROVE  /\ n < k => Before(f[n], x) /\ Before(f[n], y) /\ Before(f[n], z)
                      /\ k + 1 < n => Before(x, f[n]) /\ Before(y, f[n]) /\ Before(z, f[n])
    OBVIOUS
  <2>1. (n < k => n < k + 1) /\ (k + 1 < n => k < n)
    OBVIOUS
  <2>2. f[n] \in Seq(Nat)
    BY <1>2
  <2>3. n < k => Before(f[n], x) /\ Before(f[n], y \o z)
    BY <1>1, <1>3, <2>1
  <2>4. k + 1 < n => Before(x, f[n]) /\ Before(y \o z, f[n])
    BY <1>1, <1>3, <2>1
  <2> QED BY <2>2, <2>3, <2>4, ConcatInOrder
<1>8. g[k] = x \o y
  OBVIOUS
<1> HIDE DEF x
<1>11. x \o y \in Seq(Nat) /\ Rising(x \o y) /\ UpTo(x \o y, b) /\ Before(x \o y, z)
  BY ONLY <1>4, <1>5, <1>6, y \in Seq(Nat), z \in Seq(Nat), ConcatInOrder
<1>12. \A u \in Seq(Nat) : /\ Before(u, x) /\ Before(u, y) => Before(u, x \o y)
                           /\ Before(x, u) /\ Before(y, u) => Before(x \o y, u)
  BY ONLY <1>4, y \in Seq(Nat), ConcatInOrder
<1>9. \A n \in 0..N : g[n] \in Seq(Nat) /\ Rising(g[n]) /\ UpTo(g[n], b)
  <2> SUFFICES ASSUME NEW n \in 0..N PROVE g[n] \in Seq(Nat) /\ Rising(g[n]) /\ UpTo(g[n], b)
    OBVIOUS
  <2>1. CASE n = k
    BY <1>8, <1>11, <2>1
  <2>2. CASE n = k + 1
    BY <1>5, <2>2
  <2>3. CASE n # k /\ n # k + 1
    BY <1>2, <2>3
  <2> QED BY <2>1, <2>2, <2>3
<1>10. ASSUME NEW m \in 0..N, NEW n \in 0..N, m < n PROVE Before(g[m], g[n])
  <2>1. CASE n = k
    <3>1. m < k /\ m # k /\ m # k + 1
      BY <1>10, <2>1
    <3>2. g[m] = f[m] /\ f[m] \in Seq(Nat)
      BY <1>2, <3>1
    <3>3. Before(f[m], x) /\ Before(f[m], y)
      BY <1>7, <3>1
    <3>4. Before(f[m], x \o y)
      BY <1>12, <3>2, <3>3
    <3> QED BY <1>8, <2>1, <3>2, <3>4
  <2>2. CASE m = k /\ n = k + 1
    BY <1>8, <1>11, <2>2
  <2>3. CASE m = k /\ n # k + 1
    <3>1. k + 1 < n /\ n # k /\ n # k + 1
      BY <1>10, <2>3
    <3>2. g[n] = f[n] /\ f[n] \in Seq(Nat)
      BY <1>2, <3>1
    <3>3. Before(x, f[n]) /\ Before(y, f[n])
      BY <1>7, <3>1
    <3>4. Before(x \o y, f[n])
      BY <1>12, <3>2, <3>3
    <3> QED BY <1>8, <2>3, <3>2, <3>4
  <2>4. CASE m # k /\ n = k + 1
    <3>1. m < k /\ m # k /\ m # k + 1
      BY <1>10, <2>4
    <3>2. g[m] = f[m]
      BY <3>1
    <3> QED BY <1>7, <2>4, <3>1, <3>2
  <2>5. CASE m = k + 1
    <3>1. k + 1 < n /\ n # k /\ n # k + 1
      BY <1>10, <2>5
    <3>2. g[n] = f[n]
      BY <3>1
    <3> QED BY <1>7, <2>5, <3>1, <3>2
  <2>6. CASE m \notin {k, k + 1} /\ n \notin {k, k + 1}
    BY <1>3, <1>10, <2>6
  <2> QED BY <2>1, <2>2, <2>3, <2>4, <2>5, <2>6
<1>13. Complete(f, N, b) => Complete(g, N, b)
  <2>1. /\ Bytes(f[k]) = Bytes(x) /\ Bytes(f[k + 1]) = Bytes(y) \cup Bytes(z)
        /\ Bytes(g[k]) = Bytes(x) \cup Bytes(y) /\ Bytes(g[k + 1]) = Bytes(z)
    BY <1>4, <1>8, ConcatBytes DEF x
  <2>2. \A n \in 0..N : n # k /\ n # k + 1 => Bytes(g[n]) = Bytes(f[n])
    OBVIOUS
  <2>3. \A n \in 0..N : Bytes(g[n]) \subseteq UNION {Bytes(f[m]) : m \in 0..N}
    BY ONLY <1>1, <2>1, <2>2, k \in 0..N
  <2>4. \A n \in 0..N : Bytes(f[n]) \subseteq UNION {Bytes(g[m]) : m \in 0..N}
    BY ONLY <1>1, <2>1, <2>2, k \in 0..N
  <2> QED BY <2>3, <2>4, SameBytes
<1> QED BY <1>9, <1>10, <1>13 DEF Chain, Kept

(* Sequences of a chain, in their order, with empty ones between.          *)
LEMMA Picked ==
  ASSUME NEW f, NEW g, NEW N \in Nat, NEW M \in Nat, NEW b, Chain(f, N, b),
         NEW at, \A n \in 0..M : g[n] = << >> \/ (at[n] \in 0..N /\ g[n] = f[at[n]]),
         \A m, n \in 0..M : m < n /\ g[m] # << >> /\ g[n] # << >> => at[m] < at[n]
  PROVE  Chain(g, M, b)
<1>1. \A n \in 0..M : g[n] \in Seq(Nat) /\ Rising(g[n]) /\ UpTo(g[n], b)
  BY EmptyInOrder DEF Chain
<1>2. ASSUME NEW m \in 0..M, NEW n \in 0..M, m < n PROVE Before(g[m], g[n])
  <2>1. CASE g[m] = << >> \/ g[n] = << >>
    BY <2>1, EmptyInOrder
  <2>2. CASE g[m] # << >> /\ g[n] # << >>
    BY <1>2, <2>2 DEF Chain
  <2> QED BY <2>1, <2>2
<1> QED BY <1>1, <1>2 DEF Chain

(* The next bytes come last.                                               *)
LEMMA Extended ==
  ASSUME NEW f, NEW g, NEW N \in Nat, NEW b \in Nat, NEW c, Chain(f, N, b),
         NEW y \in Seq(Nat), c = b + Len(y), \A i \in 1..Len(y) : y[i] = b + i,
         \A n \in 0..N : n # N => g[n] = f[n], g[N] = f[N] \o y
  PROVE  Kept(f, N, b, g, N, c)
<1>a. Len(y) \in Nat
  BY LenProperties
<1>b. /\ c \in Nat /\ b <= c /\ Rising(y)
      /\ \A i \in 1..Len(y) : b < y[i] /\ y[i] <= c
  BY <1>a DEF Rising
<1>1. \A n \in 0..N : f[n] \in Seq(Nat) /\ Rising(f[n]) /\ UpTo(f[n], b)
  BY DEF Chain
<1>2. \A n \in 0..N : UpTo(f[n], c) /\ Before(f[n], y)
  <2> SUFFICES ASSUME NEW n \in 0..N PROVE UpTo(f[n], c) /\ Before(f[n], y)
    OBVIOUS
  <2> DEFINE s == f[n]
  <2>1. s \in Seq(Nat) /\ UpTo(s, b)
    BY <1>1
  <2> HIDE DEF s
  <2>2. \A i \in 1..Len(s) : s[i] \in Nat /\ s[i] <= b
    BY <2>1, ElementOfSeq DEF UpTo
  <2>3. \A j \in 1..Len(y) : y[j] \in Nat /\ b < y[j]
    BY <1>b, ElementOfSeq
  <2>4. ASSUME NEW i \in 1..Len(s) PROVE s[i] <= c
    <3>1. s[i] \in Nat /\ s[i] <= b /\ c \in Nat /\ b <= c
      BY <1>b, <2>2
    <3> QED BY ONLY <3>1, b \in Nat
  <2>5. ASSUME NEW i \in 1..Len(s), NEW j \in 1..Len(y) PROVE s[i] < y[j]
    <3>1. s[i] \in Nat /\ s[i] <= b /\ y[j] \in Nat /\ b < y[j]
      BY <2>2, <2>3
    <3> QED BY ONLY <3>1, b \in Nat
  <2> QED BY <2>4, <2>5 DEF s, UpTo, Before
<1>3. UpTo(y, c)
  BY <1>b DEF UpTo
<1>4. N \in 0..N
  OBVIOUS
<1>5. g[N] \in Seq(Nat) /\ Rising(g[N]) /\ UpTo(g[N], c)
  BY <1>1, <1>2, <1>3, <1>4, <1>b, ConcatInOrder
<1>6. \A n \in 0..N : g[n] \in Seq(Nat) /\ Rising(g[n]) /\ UpTo(g[n], c)
  BY <1>1, <1>2, <1>5
<1>7. ASSUME NEW m \in 0..N, NEW n \in 0..N, m < n PROVE Before(g[m], g[n])
  <2>a. m # N
    BY <1>7
  <2>b. Before(f[m], f[n])
    BY <1>7 DEF Chain
  <2>1. m # N /\ g[m] = f[m] /\ Before(f[m], f[n]) /\ f[m] \in Seq(Nat) /\ f[n] \in Seq(Nat)
    BY <1>1, <2>a, <2>b
  <2>2. CASE n = N
    <3>1. Before(f[m], y) /\ Before(f[m], f[N])
      BY <1>2, <2>1, <2>2
    <3>2. Before(f[m], f[N] \o y)
      BY ONLY <1>1, <1>4, <2>1, <3>1, y \in Seq(Nat), ConcatInOrder
    <3> QED BY <2>1, <2>2, <3>2
  <2>3. CASE n # N
    BY <2>1, <2>3
  <2> QED BY <2>2, <2>3
<1>8. Bytes(y) = b + 1..c
  <2>1. \A v \in b + 1..c : v - b \in 1..Len(y) /\ b + (v - b) = v
    BY <1>a
  <2>2. \A i \in 1..Len(y) : y[i] \in b + 1..c
    BY <1>a
  <2> QED BY <2>1, <2>2 DEF Bytes
<1>9. Complete(f, N, b) => Complete(g, N, c)
  <2> SUFFICES ASSUME Complete(f, N, b) PROVE Complete(g, N, c)
    OBVIOUS
  <2>1. UNION {Bytes(f[n]) : n \in 0..N} = 1..b
    BY DEF Complete
  <2>2. Bytes(g[N]) = Bytes(f[N]) \cup (b + 1..c) /\ \A n \in 0..N : n # N => Bytes(g[n]) = Bytes(f[n])
    BY <1>1, <1>4, <1>8, ConcatBytes
  <2>3. UNION {Bytes(g[n]) : n \in 0..N} = (UNION {Bytes(f[n]) : n \in 0..N}) \cup (b + 1..c)
    BY ONLY <1>4, <2>2
  <2>4. 1..b \cup (b + 1..c) = 1..c
    BY <1>b
  <2> QED BY <2>1, <2>3, <2>4 DEF Complete
<1> QED BY <1>6, <1>7, <1>9 DEF Chain, Kept

(* A span is cut in two; an empty span is the empty sequence.              *)
LEMMA CutSpan ==
  ASSUME NEW s \in Seq(Nat), NEW a \in Nat \ {0}, NEW m \in Nat, NEW b \in Nat,
         a <= m + 1, m <= b, b <= Len(s)
  PROVE  /\ SubSeq(s, a, m) \in Seq(Nat) /\ SubSeq(s, m + 1, b) \in Seq(Nat)
         /\ SubSeq(s, a, b) = SubSeq(s, a, m) \o SubSeq(s, m + 1, b)
<1>1. Len(s) \in Nat
  BY LenProperties
<1>2. m + 1 \in Nat \ {0} /\ m <= Len(s)
  BY <1>1
<1>3. a \in 1..Len(s) + 1 /\ m \in a - 1..Len(s) /\ b \in m..Len(s)
  BY <1>1, <1>2
<1>4. SubSeq(s, a, m) \in Seq(Nat) /\ SubSeq(s, m + 1, b) \in Seq(Nat)
  BY <1>2, SubSeqOfNat
<1>5. SubSeq(s, a, m) \o SubSeq(s, m + 1, b) = SubSeq(s, a, b)
  BY ONLY s \in Seq(Nat), <1>3, ConcatAdjacentSubSeq
<1> QED BY <1>4, <1>5

(* A sequence is cut after its first n elements.                           *)
LEMMA CutPrefix ==
  ASSUME NEW s \in Seq(Nat), NEW n \in Nat, n <= Len(s)
  PROVE  /\ SubSeq(s, 1, n) \in Seq(Nat) /\ SubSeq(s, n + 1, Len(s)) \in Seq(Nat)
         /\ s = SubSeq(s, 1, n) \o SubSeq(s, n + 1, Len(s))
         /\ Len(SubSeq(s, 1, n)) = n
<1>1. Len(s) \in Nat
  BY LenProperties
<1>2. SubSeq(s, 1, Len(s)) = s
  BY SubSeqFull
<1>3. 1 \in Nat \ {0} /\ 1 <= n + 1 /\ Len(s) <= Len(s)
  BY <1>1
<1>4. /\ SubSeq(s, 1, n) \in Seq(Nat) /\ SubSeq(s, n + 1, Len(s)) \in Seq(Nat)
      /\ SubSeq(s, 1, Len(s)) = SubSeq(s, 1, n) \o SubSeq(s, n + 1, Len(s))
  BY ONLY <1>1, <1>3, s \in Seq(Nat), n \in Nat, n <= Len(s), CutSpan
<1>5. Len(SubSeq(s, 1, n)) = IF 1 <= n THEN n - 1 + 1 ELSE 0
  BY ONLY <1>3, s \in Seq(Nat), n \in Nat, n <= Len(s), SubSeqOfNat
<1>6. (IF 1 <= n THEN n - 1 + 1 ELSE 0) = n
  OBVIOUS
<1>7. Len(SubSeq(s, 1, n)) = n
  BY ONLY <1>5, <1>6
<1> QED BY ONLY <1>2, <1>4, <1>7

(* The types of the counters and FIFOs.                                    *)
LEMMA BridgeNumbers ==
  ASSUME TypeInv
  PROVE  /\ hostSent \in Nat /\ written \in Nat /\ consumed \in Seq(Nat)
         /\ usbRx \in Seq(Nat) /\ Len(usbRx) \in Nat
         /\ usbTx \in Seq(Nat) /\ Len(usbTx) \in Nat
         /\ RX_BUFSIZE \in Nat /\ TX_BUFSIZE \in Nat
         /\ CLI_RX_BLOCKSIZE \in Nat /\ CLI_TX_BLOCKSIZE \in Nat
         /\ cdcSent \in Nat
         /\ cdcPc \in {"get", "send"} => cdcLen \in Nat \ {0} /\ cdcLen <= CLI_RX_BLOCKSIZE
         /\ cdcPc = "write" => cdcLen \in Nat /\ cdcLen <= CLI_TX_BLOCKSIZE
<1>1. /\ RX_BUFSIZE \in Nat /\ TX_BUFSIZE \in Nat
      /\ CLI_RX_BLOCKSIZE \in Nat /\ CLI_TX_BLOCKSIZE \in Nat /\ RX_BUFSIZE <= CLI_RX_BLOCKSIZE
  BY SizesType DEF Sizes
<1>2. /\ hostSent \in Nat /\ written \in Nat /\ consumed \in Seq(Nat)
      /\ usbRx \in Seq(Nat) /\ usbTx \in Seq(Nat) /\ cdcSent \in 0..CLI_TX_BLOCKSIZE
      /\ cdcPc \in {"get", "send"} => cdcLen \in 1..RX_BUFSIZE
      /\ cdcPc = "write" => cdcLen \in 0..CLI_TX_BLOCKSIZE
  BY DEF TypeInv, TypeOK
<1>3. Len(usbRx) \in Nat /\ Len(usbTx) \in Nat
  BY <1>2, LenProperties
<1>4. cdcPc \in {"get", "send"} => cdcLen \in Nat \ {0} /\ cdcLen <= CLI_RX_BLOCKSIZE
  BY <1>1, <1>2
<1>5. cdcSent \in Nat /\ (cdcPc = "write" => cdcLen \in Nat /\ cdcLen <= CLI_TX_BLOCKSIZE)
  BY <1>1, <1>2
<1> QED BY <1>1, <1>2, <1>3, <1>4, <1>5

(* The bytes of a block are a sequence.                                    *)
LEMMA BlockBytes ==
  ASSUME TypeInv
  PROVE  /\ \A b \in RxBlocks : rxMem[b] \in Seq(Nat) /\ Len(rxMem[b]) = CLI_RX_BLOCKSIZE
         /\ \A b \in TxBlocks : txMem[b] \in Seq(Nat) /\ Len(txMem[b]) = CLI_TX_BLOCKSIZE
         /\ \A i \in 1..Len(rxQueue) : /\ rxQueue[i].data \in RxBlocks
                                       /\ rxQueue[i].size \in 0..CLI_RX_BLOCKSIZE
         /\ \A i \in 1..Len(txQueue) : /\ txQueue[i].data \in TxBlocks
                                       /\ txQueue[i].size \in 0..CLI_TX_BLOCKSIZE
         /\ Len(rxQueue) \in Nat /\ Len(txQueue) \in Nat
<1>1. CLI_RX_BLOCKSIZE \in Nat /\ CLI_TX_BLOCKSIZE \in Nat
  BY SizesType DEF Sizes
<1>2. \A n \in Nat : \A r \in [1..n -> Nat] : r \in Seq(Nat) /\ Len(r) = n
  OBVIOUS
<1>3. /\ \A b \in RxBlocks : rxMem[b] \in [1..CLI_RX_BLOCKSIZE -> Nat]
      /\ \A b \in TxBlocks : txMem[b] \in [1..CLI_TX_BLOCKSIZE -> Nat]
  BY DEF TypeInv, TypeOK
<1>4. rxQueue \in Seq(Rx!block_pointer) /\ txQueue \in Seq(Tx!block_pointer)
  BY DEF TypeInv, TypeOK, Rx!TypeOK, Tx!TypeOK
<1>5. /\ \A i \in 1..Len(rxQueue) : rxQueue[i] \in Rx!block_pointer
      /\ \A i \in 1..Len(txQueue) : txQueue[i] \in Tx!block_pointer
      /\ Len(rxQueue) \in Nat /\ Len(txQueue) \in Nat
  BY <1>4, LenProperties, ElementOfSeq
<1>6. \A b \in RxBlocks : rxMem[b] \in Seq(Nat) /\ Len(rxMem[b]) = CLI_RX_BLOCKSIZE
  BY <1>1, <1>2, <1>3
<1>7. \A b \in TxBlocks : txMem[b] \in Seq(Nat) /\ Len(txMem[b]) = CLI_TX_BLOCKSIZE
  BY <1>1, <1>2, <1>3
<1> QED BY <1>5, <1>6, <1>7 DEF Rx!block_pointer, Tx!block_pointer

(* The stages of the tx direction one by one.                              *)
LEMMA TxStagesAt ==
  Len(txQueue) \in Nat =>
    /\ TxStages[0] = hostGot /\ TxStages[1] = usbTx /\ TxStages[2] = CdcTxHand
    /\ \A n \in 3..Len(txQueue) + 2 : TxStages[n] = Queued(txMem, txQueue[n - 2])
<1> SUFFICES ASSUME Len(txQueue) \in Nat
             PROVE  /\ TxStages[0] = hostGot /\ TxStages[1] = usbTx /\ TxStages[2] = CdcTxHand
                    /\ \A n \in 3..Len(txQueue) + 2 : TxStages[n] = Queued(txMem, txQueue[n - 2])
  OBVIOUS
<1>1. 0 \in 0..Len(txQueue) + 2 /\ 1 \in 0..Len(txQueue) + 2 /\ 2 \in 0..Len(txQueue) + 2
      /\ \A n \in 3..Len(txQueue) + 2 : n \in 0..Len(txQueue) + 2 /\ n # 0 /\ n # 1 /\ n # 2
  OBVIOUS
<1> QED BY <1>1 DEF TxStages

(* Nothing of the tx direction moves.                                      *)
LEMMA TxFrame ==
  ASSUME TxChained, UNCHANGED <<hostGot, usbTx, txMem, txQueue, written>>, CdcTxHand' = CdcTxHand,
         cliPc' = "send" => cliPc = "send" /\ UNCHANGED <<outBlk, outLen>>
  PROVE  TxChained' /\ (TxAll => TxAll')
<1>1. TxStages' = TxStages
  BY DEF TxStages, Queued, Span
<1>2. Chain(TxStages', Len(txQueue') + 2, written')
  BY <1>1 DEF TxChained
<1> QED BY <1>1, <1>2 DEF TxChained, TxAll

(* The host takes the first bytes of the FIFO.                             *)
LEMMA TxCollectStep ==
  ASSUME TypeInv, TxChained, NEW n \in 1..TX_BUFSIZE, HostCollect(n)
  PROVE  TxChained' /\ (TxAll => TxAll')
<1> DEFINE y == SubSeq(usbTx, 1, n)
           z == SubSeq(usbTx, n + 1, Len(usbTx))
           N == Len(txQueue) + 2
<1>1. N \in Nat /\ Len(txQueue) \in Nat /\ 0 \in 0..N /\ 0 + 1 <= N
  BY BlockBytes
<1>2. y \in Seq(Nat) /\ z \in Seq(Nat) /\ usbTx = y \o z
  <2>1. usbTx \in Seq(Nat) /\ n \in Nat /\ n <= Len(usbTx)
    BY BridgeNumbers DEF HostCollect
  <2> QED BY ONLY <2>1, CutPrefix
<1>3. hostGot' = hostGot \o y /\ usbTx' = z
  BY DEF HostCollect
<1>4. UNCHANGED <<txMem, txQueue, written, cliPc, outBlk, outLen>> /\ CdcTxHand' = CdcTxHand
  BY DEF HostCollect, CdcTxHand, Span, txVars, cdcVars, cliVars, outVars
<1> HIDE DEF y, z
<1>5. /\ TxStages[0 + 1] = y \o z /\ TxStages'[0] = TxStages[0] \o y /\ TxStages'[0 + 1] = z
      /\ \A m \in 0..N : m # 0 /\ m # 0 + 1 => TxStages'[m] = TxStages[m]
  BY <1>1, <1>2, <1>3, <1>4 DEF TxStages, Queued, Span
<1>6. Chain(TxStages, N, written)
  BY DEF TxChained
<1> HIDE DEF N
<1>7. Kept(TxStages, N, written, TxStages', N, written)
  BY ONLY <1>1, <1>2, <1>5, <1>6, Moved
<1> QED BY <1>4, <1>7 DEF Kept, TxChained, TxAll, N

(* A bus reset empties the FIFO.                                           *)
LEMMA TxResetStep ==
  ASSUME TypeInv, TxChained, BusReset
  PROVE  TxChained'
<1> DEFINE N == Len(txQueue) + 2
           at == [n \in 0..N |-> n]
<1>1. N \in Nat
  BY BlockBytes
<1>2. usbTx' = << >> /\ CdcTxHand' = CdcTxHand
      /\ UNCHANGED <<hostGot, txMem, txQueue, written, cliPc, outBlk, outLen>>
  BY DEF BusReset, CdcTxHand, Span, txVars, cdcVars, cliVars, outVars
<1>3. \A n \in 0..N : TxStages'[n] = << >> \/ TxStages'[n] = TxStages[n]
  BY <1>2 DEF TxStages, Queued, Span
<1>4. Chain(TxStages, N, written)
  BY DEF TxChained
<1>5. \A n \in 0..N : at[n] = n
  OBVIOUS
<1> HIDE DEF N, at
<1>6. /\ \A n \in 0..N : TxStages'[n] = << >> \/ (at[n] \in 0..N /\ TxStages'[n] = TxStages[at[n]])
      /\ \A m, n \in 0..N : m < n /\ TxStages'[m] # << >> /\ TxStages'[n] # << >> => at[m] < at[n]
  BY <1>3, <1>5
<1>7. Chain(TxStages', N, written)
  BY ONLY <1>1, <1>4, <1>6, Picked
<1> QED BY <1>2, <1>7 DEF TxChained, N

(* usb/cdc takes the oldest block, which is the next stage.                *)
LEMMA TxReceiveStep ==
  ASSUME TypeInv, TypeInv', TxChained, NEW p \in Tx!block_pointer, CdcTxReceive(p)
  PROVE  TxChained' /\ (TxAll => TxAll')
<1> DEFINE N == Len(txQueue) + 2
           M == Len(txQueue') + 2
           at == [n \in 0..M |-> IF n < 2 THEN n ELSE n + 1]
<1>1. txQueue # << >> /\ p = Head(txQueue) /\ txQueue' = Tail(txQueue)
  BY DEF CdcTxReceive, Tx!receive, Tx!empty
<1>2. /\ N \in Nat /\ M \in Nat /\ N = M + 1 /\ M >= 2 /\ Len(txQueue) \in Nat /\ Len(txQueue') \in Nat
      /\ p = txQueue[1]
      /\ \A i \in 1..Len(txQueue') : txQueue'[i] = txQueue[i + 1]
  <2>1. txQueue \in Seq(Tx!block_pointer)
    BY DEF TypeInv, TypeOK, Tx!TypeOK
  <2>2. Len(txQueue') = Len(txQueue) - 1 /\ \A i \in 1..Len(txQueue') : txQueue'[i] = txQueue[i + 1]
    BY <1>1, <2>1, HeadTailProperties
  <2>3. Len(txQueue) \in Nat \ {0} /\ p = txQueue[1]
    BY <1>1, <2>1, EmptySeq
  <2> QED BY <2>2, <2>3
<1>3. UNCHANGED <<hostGot, usbTx, txMem, written, cliPc, outBlk, outLen>>
  BY DEF CdcTxReceive, cliVars, outVars, hostVars
<1>4. CdcTxHand' = Queued(txMem, p)
  BY <1>3 DEF CdcTxReceive, CdcTxHand, Queued, Span
<1>5. \A n \in 0..M : at[n] \in 0..N /\ TxStages'[n] = TxStages[at[n]]
  <2> SUFFICES ASSUME NEW n \in 0..M PROVE at[n] \in 0..N /\ TxStages'[n] = TxStages[at[n]]
    OBVIOUS
  <2>1. at[n] \in 0..N /\ (n < 2 => at[n] = n) /\ (n >= 2 => at[n] = n + 1 /\ at[n] \in 3..N)
    BY <1>2
  <2>2. CASE n < 2
    BY <1>2, <1>3, <2>1, <2>2, TxStagesAt, n = 0 \/ n = 1 DEF TxStages
  <2>3. CASE n = 2
    BY <1>2, <1>4, <2>1, <2>3, TxStagesAt DEF TxStages
  <2>4. CASE n > 2
    <3>1. n - 2 \in 1..Len(txQueue') /\ TxStages'[n] = Queued(txMem', txQueue'[n - 2])
      BY <1>2, <2>4 DEF TxStages
    <3>2. TxStages[n + 1] = Queued(txMem, txQueue[(n + 1) - 2]) /\ (n + 1) - 2 = (n - 2) + 1
      BY <1>2, <2>1, <2>4, TxStagesAt
    <3> QED BY <1>2, <1>3, <2>1, <2>4, <3>1, <3>2 DEF Queued, Span
  <2> QED BY <2>1, <2>2, <2>3, <2>4
<1>6. \A m, n \in 0..M : m < n => at[m] < at[n]
  OBVIOUS
<1>7. Chain(TxStages, N, written)
  BY DEF TxChained
<1>8. N \in Nat /\ M \in Nat
  BY <1>2
<1> HIDE DEF N, M, at
<1>9. /\ \A n \in 0..M : TxStages'[n] = << >> \/ (at[n] \in 0..N /\ TxStages'[n] = TxStages[at[n]])
      /\ \A m, n \in 0..M : m < n /\ TxStages'[m] # << >> /\ TxStages'[n] # << >> => at[m] < at[n]
  BY <1>5, <1>6
<1>10. Chain(TxStages', M, written)
  BY ONLY <1>7, <1>8, <1>9, Picked
<1>11. Complete(TxStages, N, written) => Complete(TxStages', M, written)
  <2>1. TxStages[2] = << >>
    BY <1>2, TxStagesAt DEF CdcTxReceive, CdcTxHand
  <2>2. \A k \in 0..N : k # 2 => \E n \in 0..M : at[n] = k
    <3>1. \A k \in 0..N : /\ k < 2 => k \in 0..M /\ at[k] = k
                          /\ k > 2 => k - 1 \in 0..M /\ at[k - 1] = k
      BY <1>2 DEF N, M, at
    <3> QED BY <1>8, <3>1
  <2>3. \A k \in 0..N : TxStages[k] = << >> \/ \E n \in 0..M : TxStages[k] = TxStages'[n]
    BY <1>5, <2>1, <2>2
  <2>4. \A n \in 0..M : TxStages'[n] = << >> \/ \E k \in 0..N : TxStages'[n] = TxStages[k]
    BY <1>5
  <2> QED BY ONLY <2>3, <2>4, SameStages
<1> QED BY <1>3, <1>10, <1>11 DEF TxChained, TxAll, N, M

(* usb/cdc puts the first bytes of what is left of its block into the      *)
(* FIFO.                                                                   *)
LEMMA TxWriteStep ==
  ASSUME TypeInv, TxChained, CdcTxWrite
  PROVE  TxChained' /\ (TxAll => TxAll')
<1> DEFINE k == Smaller(TX_BUFSIZE - Len(usbTx), cdcLen - cdcSent)
           row == txMem[cdcBlk]
           y == SubSeq(row, cdcSent + 1, cdcSent + k)
           z == SubSeq(row, (cdcSent + k) + 1, cdcLen)
           N == Len(txQueue) + 2
<1>1. N \in Nat /\ Len(txQueue) \in Nat /\ 1 \in 0..N /\ 1 + 1 <= N
  BY BlockBytes
<1>2. cdcPc = "write" /\ cdcBlk \in TxBlocks /\ k > 0 /\ cdcSent \in Nat /\ cdcLen \in Nat
      /\ cdcLen <= CLI_TX_BLOCKSIZE
  <2>1. cdcPc = "write" /\ cdcBlk \in TxBlocks /\ k > 0
    BY DEF CdcTxWrite, TypeInv, TypeOK
  <2> QED BY <2>1, BridgeNumbers
<1>3. row \in Seq(Nat) /\ Len(row) = CLI_TX_BLOCKSIZE
  BY <1>2, BlockBytes
<1>4. k \in Nat /\ k <= cdcLen - cdcSent
  <2>1. Len(usbTx) \in Nat /\ TX_BUFSIZE \in Nat
    BY BridgeNumbers
  <2>2. TX_BUFSIZE - Len(usbTx) \in Int /\ cdcLen - cdcSent \in Int
    BY <1>2, <2>1
  <2>3. k \in Int /\ k <= cdcLen - cdcSent
    BY <2>2, SmallerType
  <2> HIDE DEF k
  <2> QED BY <1>2, <2>3
<1> HIDE DEF k, row
<1>5. UNCHANGED <<hostGot, txMem, txQueue, written, cliPc, outBlk, outLen>>
  BY DEF CdcTxWrite, txVars, cliVars, outVars, hostVars
<1>6. usbTx' = usbTx \o y /\ cdcSent' = cdcSent + k /\ cdcPc' = cdcPc /\ cdcBlk' = cdcBlk /\ cdcLen' = cdcLen
  BY DEF CdcTxWrite, k, row
<1>7. CdcTxHand = SubSeq(row, cdcSent + 1, cdcLen) /\ CdcTxHand' = z
  BY <1>2, <1>5, <1>6 DEF CdcTxHand, Span, row
<1>8. y \in Seq(Nat) /\ z \in Seq(Nat) /\ SubSeq(row, cdcSent + 1, cdcLen) = y \o z
  <2>1. cdcSent + 1 \in Nat \ {0} /\ cdcSent + k \in Nat /\ cdcSent + 1 <= (cdcSent + k) + 1
        /\ cdcSent + k <= cdcLen /\ cdcLen <= Len(row)
    BY <1>2, <1>3, <1>4
  <2> QED BY ONLY <1>2, <1>3, <2>1, CutSpan
<1> HIDE DEF y, z
<1>9. /\ TxStages[1 + 1] = y \o z /\ TxStages'[1] = TxStages[1] \o y /\ TxStages'[1 + 1] = z
      /\ \A m \in 0..N : m # 1 /\ m # 1 + 1 => TxStages'[m] = TxStages[m]
  <2>1. 1 + 1 = 2 /\ 2 \in 0..N
    BY <1>1
  <2>2. TxStages[1] = usbTx /\ TxStages[2] = CdcTxHand
    BY <1>1, TxStagesAt
  <2>3. TxStages'[1] = usbTx' /\ TxStages'[2] = CdcTxHand'
    BY <1>1, <1>5, <2>1 DEF TxStages
  <2>4. \A m \in 0..N : m # 1 /\ m # 2 => TxStages'[m] = TxStages[m]
    BY <1>1, <1>5 DEF TxStages, Queued, Span
  <2> QED BY <1>6, <1>7, <1>8, <2>1, <2>2, <2>3, <2>4
<1>10. Chain(TxStages, N, written)
  BY DEF TxChained
<1> HIDE DEF N
<1>11. Kept(TxStages, N, written, TxStages', N, written)
  BY ONLY <1>1, <1>8, <1>9, <1>10, Moved
<1> QED BY <1>5, <1>11 DEF Kept, TxChained, TxAll, N

(* The text goes into a free block: into none of the queue or of usb/cdc.  *)
LEMMA TxFillStep ==
  ASSUME TypeInv, TxInv, TxChained, NEW b \in TxBlocks, NEW len \in 1..outSize, CliGetBuffer(b, len)
  PROVE  TxChained' /\ (TxAll => TxAll')
<1> DEFINE N == Len(txQueue) + 2
           text == [i \in 1..len |-> written + i]
<1>1. /\ b \in txFree /\ txMem' = [txMem EXCEPT ![b] = Filled(@, text)]
      /\ outBlk' = b /\ outLen' = len
      /\ UNCHANGED <<hostGot, usbTx, txQueue, written, cdcVars>>
  BY DEF CliGetBuffer, Tx!get_block, hostVars
<1>2. b \notin TxP!queued /\ b \notin TxHeld
  BY <1>1 DEF TxInv, TxP!Ownership
<1>3. \A c \in TxBlocks : c # b => txMem'[c] = txMem[c]
  BY <1>1 DEF TypeInv, TypeOK
<1>4. \A i \in 1..Len(txQueue) : Queued(txMem', txQueue[i]) = Queued(txMem, txQueue[i])
  BY <1>2, <1>3, BlockBytes DEF TxP!queued, Queued, Span
<1>5. CdcTxHand' = CdcTxHand
  BY <1>1, <1>2, <1>3 DEF CdcTxHand, Span, TxHeld, cdcVars, TypeInv, TypeOK
<1>6. TxStages' = TxStages
  <2>1. Len(txQueue) \in Nat
    BY BlockBytes
  <2>2. \A n \in 0..Len(txQueue) + 2 : n \notin {0, 1, 2} => n - 2 \in 1..Len(txQueue)
    BY <2>1
  <2> QED BY <1>1, <1>4, <1>5, <2>2 DEF TxStages
<1>7. Chain(TxStages', Len(txQueue') + 2, written')
  BY <1>1, <1>6 DEF TxChained
<1>8. \A i \in 1..len : txMem'[b][i] = written + i
  <2>1. len \in Nat /\ written \in Nat /\ len <= CLI_TX_BLOCKSIZE /\ CLI_TX_BLOCKSIZE \in Nat
    BY SizesType DEF TypeInv, TypeOK, Sizes
  <2>2. text \in Seq(Nat) /\ Len(text) = len
    BY <2>1, CountUpType
  <2>3. txMem[b] \in [1..CLI_TX_BLOCKSIZE -> Nat] /\ txMem'[b] = Filled(txMem[b], text)
    BY <1>1 DEF TypeInv, TypeOK
  <2>4. \A i \in 1..len : i \in 1..CLI_TX_BLOCKSIZE /\ i <= Len(text) /\ text[i] = written + i
    BY <2>1, <2>2
  <2> HIDE DEF text
  <2> QED BY <2>3, <2>4 DEF Filled
<1> QED BY <1>1, <1>6, <1>7, <1>8 DEF TxChained, TxAll

(* What the cli task sends is higher than all it sent before, and becomes  *)
(* the last stage.                                                         *)
LEMMA TxSendStep ==
  ASSUME TypeInv, TxChained, CliSend
  PROVE  TxChained' /\ (TxAll => TxAll')
<1> DEFINE N == Len(txQueue) + 2
           M == Len(txQueue) + 3
           y == Span(txMem, outBlk, 1, outLen)
           h == [n \in 0..M |-> IF n <= N THEN TxStages[n] ELSE << >>]
           at == [n \in 0..M |-> n]
<1>1. /\ N \in Nat /\ M \in Nat /\ M = N + 1 /\ Len(txQueue) \in Nat
      /\ written \in Nat /\ outLen \in Nat \ {0} /\ outSize \in Nat /\ outLen <= outSize
      /\ outLen <= CLI_TX_BLOCKSIZE /\ CLI_TX_BLOCKSIZE \in Nat /\ outBlk \in TxBlocks
  <2>1. Len(txQueue) \in Nat
    BY BlockBytes
  <2>2. /\ written \in Nat /\ outSize \in 0..CLI_TX_BLOCKSIZE /\ CLI_TX_BLOCKSIZE \in Nat
        /\ outBlk \in TxBlocks /\ outLen \in 1..outSize
    BY BridgeNumbers DEF TypeInv, TypeOK, CliSend, CliAt
  <2> QED BY <2>1, <2>2
<1>2. txQueue' = Append(txQueue, [data |-> outBlk, size |-> outLen])
  <2>1. (IF outLen < outSize THEN outLen ELSE outSize) = outLen
    BY <1>1
  <2> QED BY <2>1 DEF CliSend, Tx!send
<1>3. /\ Len(txQueue') = Len(txQueue) + 1 /\ \A i \in 1..Len(txQueue) : txQueue'[i] = txQueue[i]
      /\ txQueue'[Len(txQueue) + 1] = [data |-> outBlk, size |-> outLen]
  <2>1. txQueue \in Seq(Tx!block_pointer) /\ [data |-> outBlk, size |-> outLen] \in Tx!block_pointer
    BY <1>1 DEF TypeInv, TypeOK, Tx!TypeOK, Tx!block_pointer
  <2> QED BY ONLY <1>2, <2>1, AppendProperties
<1>4. written' = written + outLen /\ UNCHANGED <<hostGot, usbTx, txMem, cdcVars>> /\ cliPc' # "send"
  BY DEF CliSend, hostVars
<1>5. CdcTxHand' = CdcTxHand
  BY <1>4 DEF CdcTxHand, Span, cdcVars
<1>6. y \in Seq(Nat) /\ Len(y) = outLen /\ \A i \in 1..outLen : y[i] = written + i
  <2>1. txMem[outBlk] \in Seq(Nat) /\ Len(txMem[outBlk]) = CLI_TX_BLOCKSIZE
    BY <1>1, BlockBytes
  <2>2. \A i \in 1..outLen : txMem[outBlk][i] = written + i /\ txMem[outBlk][i] \in Nat
    BY <1>1 DEF TxChained, CliSend, CliAt
  <2>3. 1 \in Int /\ outLen \in Int /\ 1 <= outLen /\ outLen - 1 + 1 = outLen
        /\ \A i \in 1..outLen : 1 + i - 1 = i
    BY <1>1
  <2>4. /\ SubSeq(txMem[outBlk], 1, outLen) \in Seq(Nat)
        /\ Len(SubSeq(txMem[outBlk], 1, outLen)) = outLen - 1 + 1
        /\ \A i \in 1..outLen - 1 + 1 : SubSeq(txMem[outBlk], 1, outLen)[i] = txMem[outBlk][1 + i - 1]
    BY ONLY <2>2, <2>3, SubSeqProperties
  <2> QED BY <2>2, <2>3, <2>4 DEF Span
<1> HIDE DEF y
<1>7. written' = written + Len(y) /\ \A i \in 1..Len(y) : y[i] = written + i
  BY <1>4, <1>6
<1>8. /\ \A n \in 0..M : n # M => TxStages'[n] = h[n]
      /\ TxStages'[M] = y /\ h[M] = << >>
  <2>1. \A n \in 0..M : n # M => n \in 0..N /\ h[n] = TxStages[n]
    BY <1>1
  <2>2. \A n \in 0..N : TxStages'[n] = TxStages[n]
    <3> SUFFICES ASSUME NEW n \in 0..N PROVE TxStages'[n] = TxStages[n]
      OBVIOUS
    <3>1. n \in 0..Len(txQueue') + 2 /\ (n > 2 => n - 2 \in 1..Len(txQueue))
      BY <1>1, <1>3
    <3>2. CASE n > 2
      <4>1. TxStages[n] = Queued(txMem, txQueue[n - 2])
        BY <1>1, <3>2, TxStagesAt
      <4>2. TxStages'[n] = Queued(txMem', txQueue'[n - 2])
        BY <3>1, <3>2 DEF TxStages
      <4> QED BY <1>3, <1>4, <3>1, <3>2, <4>1, <4>2 DEF Queued, Span
    <3>3. CASE ~(n > 2)
      BY <1>1, <1>4, <1>5, <3>1, <3>3, n = 0 \/ n = 1 \/ n = 2 DEF TxStages
    <3> QED BY <3>2, <3>3
  <2>3. /\ M \in 0..M /\ ~(M <= N) /\ M \in 0..Len(txQueue') + 2
        /\ M - 2 = Len(txQueue) + 1 /\ M \notin {0, 1, 2}
    BY <1>1, <1>3
  <2>4. TxStages'[M] = Queued(txMem', txQueue'[M - 2])
    BY <2>3 DEF TxStages
  <2>5. TxStages'[M] = y
    <3>1. txQueue'[M - 2].data = outBlk /\ txQueue'[M - 2].size = outLen
      BY <1>3, <2>3
    <3>2. TxStages'[M] = SubSeq(txMem'[outBlk], 1, outLen)
      BY <2>4, <3>1 DEF Queued, Span
    <3> QED BY <1>4, <3>2 DEF Span, y
  <2> QED BY <2>1, <2>2, <2>3, <2>5
<1>9. Chain(TxStages, N, written)
  BY DEF TxChained
<1>10. /\ \A n \in 0..M : h[n] = << >> \/ (at[n] \in 0..N /\ h[n] = TxStages[at[n]])
       /\ \A m, n \in 0..M : m < n /\ h[m] # << >> /\ h[n] # << >> => at[m] < at[n]
  BY <1>1
<1>11. Len(txQueue') + 2 = M
  BY <1>1, <1>3
<1> HIDE DEF N, M, h, at
<1>12. Chain(h, M, written)
  <2>1. N \in Nat /\ M \in Nat
    BY <1>1
  <2> QED BY ONLY <2>1, <1>9, <1>10, Picked
<1>13. TxStages'[M] = h[M] \o y
  BY <1>6, <1>8, ConcatEmptySeq
<1>14. Kept(h, M, written, TxStages', M, written')
  <2>1. /\ M \in Nat /\ written \in Nat /\ y \in Seq(Nat)
        /\ \A n \in 0..M : n # M => TxStages'[n] = h[n]
    BY <1>1, <1>6, <1>8
  <2> QED BY ONLY <2>1, <1>7, <1>12, <1>13, Extended
<1>15. Complete(TxStages, N, written) => Complete(h, M, written)
  <2>1. \A n \in 0..M : h[n] = << >> \/ \E k \in 0..N : h[n] = TxStages[k]
    BY <1>10
  <2>2. \A k \in 0..N : k \in 0..M /\ h[k] = TxStages[k]
    BY <1>1 DEF h, N, M
  <2> QED BY ONLY <2>1, <2>2, SameStages
<1> QED BY <1>4, <1>11, <1>14, <1>15 DEF Kept, TxChained, TxAll, N

(* Every step keeps the bytes of the tx direction in order.                *)
LEMMA TxChainedStep ==
  ASSUME TypeInv, TypeInv', TxInv, TxChained, [Next]_vars
  PROVE  TxChained' /\ (resets' = 0 /\ TxAll => TxAll')
<1> DEFINE Goal == TxChained' /\ (resets' = 0 /\ TxAll => TxAll')
<1>a. TxChained' /\ (TxAll => TxAll') => Goal
  OBVIOUS
<1> HIDE DEF Goal
<1> USE DEF CdcTxHand, Span, rxVars, txVars, cdcVars, inVars, outVars, cliVars, hostVars
<1>1. ASSUME NEW n \in 1..RX_BUFSIZE, HostSend(n) PROVE Goal
  BY <1>1, <1>a, TxFrame DEF HostSend
<1>2. ASSUME NEW n \in 1..TX_BUFSIZE, HostCollect(n) PROVE Goal
  BY <1>2, <1>a, TxCollectStep
<1>3. ASSUME BusReset PROVE Goal
  <2>1. TxChained' /\ resets' # 0
    BY <1>3, TxResetStep DEF BusReset, TypeInv, TypeOK
  <2> QED BY <2>1 DEF Goal
<1>4. ASSUME CdcRxCheck \/ CdcRxDone \/ CdcNoBlock \/ CdcRxSend \/ CdcPassEnd PROVE Goal
  BY <1>4, <1>a, TxFrame DEF CdcRxCheck, CdcRxDone, CdcNoBlock, CdcRxSend, CdcPassEnd
<1>5. ASSUME NEW b \in RxBlocks, CdcRxRead(b) PROVE Goal
  BY <1>5, <1>a, TxFrame DEF CdcRxRead
<1>6. ASSUME NEW p \in Tx!block_pointer, CdcTxReceive(p) PROVE Goal
  BY <1>6, <1>a, TxReceiveStep
<1>7. ASSUME CdcTxWrite PROVE Goal
  BY <1>7, <1>a, TxWriteStep
<1>8. ASSUME CdcTxRelease PROVE Goal
  <2>1. cdcSent \in Nat /\ cdcLen \in Nat /\ cdcSent >= cdcLen /\ cdcPc' # "write"
    BY <1>8, SizesType DEF CdcTxRelease, TypeInv, TypeOK, Sizes
  <2>2. cdcSent + 1 \in Int /\ cdcLen \in Int /\ cdcLen < cdcSent + 1
    BY <2>1
  <2>3. CdcTxHand = << >> /\ CdcTxHand' = << >>
    BY <2>1, <2>2, SubSeqEmpty
  <2>4. UNCHANGED <<hostGot, usbTx, txMem, txQueue, written, cliPc, outBlk, outLen>>
    BY <1>8 DEF CdcTxRelease
  <2> QED BY <2>3, <2>4, <1>a, TxFrame
<1>9. ASSUME CliInit \/ CliReceiveTimeout \/ CliReceiveChar \/ CliNoBuffer \/ CliPassEnd PROVE Goal
  BY <1>9, <1>a, TxFrame DEF CliInit, CliReceiveTimeout, CliReceiveChar, CliNoBuffer, CliPassEnd
<1>10. ASSUME NEW p \in Rx!block_pointer, CliReceive(p) PROVE Goal
  BY <1>10, <1>a, TxFrame DEF CliReceive
<1>11. ASSUME NEW n \in 0..MaxWrites, CliRelease(n) PROVE Goal
  BY <1>11, <1>a, TxFrame DEF CliRelease
<1>12. ASSUME NEW size \in {1, ReportSize}, CliWrite(size) PROVE Goal
  BY <1>12, <1>a, TxFrame DEF CliWrite
<1>13. ASSUME NEW b \in TxBlocks, NEW len \in 1..outSize, CliGetBuffer(b, len) PROVE Goal
  BY <1>13, <1>a, TxFillStep
<1>14. ASSUME CliSend PROVE Goal
  BY <1>14, <1>a, TxSendStep
<1>15. ASSUME Tick PROVE Goal
  BY <1>15, <1>a, TxFrame DEF Tick
<1>16. ASSUME UNCHANGED vars PROVE Goal
  BY <1>16, <1>a, TxFrame DEF vars
<1>17. Goal
  BY <1>1, <1>2, <1>3, <1>4, <1>5, <1>6, <1>7, <1>8, <1>9, <1>10, <1>11, <1>12, <1>13,
           <1>14, <1>15, <1>16 DEF Next, Usb, Cdc, Cli, cli_write_char, Report
<1> QED BY <1>17 DEF Goal

(* The stages of the rx direction one by one.                              *)
LEMMA RxStagesAt ==
  Len(rxQueue) \in Nat =>
    /\ RxStages[0] = consumed /\ RxStages[1] = CliHand
    /\ \A n \in 2..Len(rxQueue) + 1 : RxStages[n] = Queued(rxMem, rxQueue[n - 1])
    /\ RxStages[Len(rxQueue) + 2] = CdcRxHand /\ RxStages[Len(rxQueue) + 3] = usbRx
<1> SUFFICES ASSUME Len(rxQueue) \in Nat
             PROVE  /\ RxStages[0] = consumed /\ RxStages[1] = CliHand
                    /\ \A n \in 2..Len(rxQueue) + 1 : RxStages[n] = Queued(rxMem, rxQueue[n - 1])
                    /\ RxStages[Len(rxQueue) + 2] = CdcRxHand /\ RxStages[Len(rxQueue) + 3] = usbRx
  OBVIOUS
<1> DEFINE L == Len(rxQueue)
<1>1. 0 \in 0..L + 3 /\ 1 \in 0..L + 3 /\ \A n \in 2..L + 1 : n \in 0..L + 3 /\ n # 0 /\ n # 1
  OBVIOUS
<1>2. /\ L + 2 \in 0..L + 3 /\ L + 2 \notin {0, 1} /\ ~(L + 2 <= L + 1)
      /\ L + 3 \in 0..L + 3 /\ L + 3 \notin {0, 1} /\ ~(L + 3 <= L + 1) /\ L + 3 # L + 2
  OBVIOUS
<1>3. \A n \in 2..L + 1 : n <= L + 1
  OBVIOUS
<1> HIDE DEF L
<1>4. RxStages = [n \in 0..L + 3 |->
                    IF n = 0 THEN consumed ELSE IF n = 1 THEN CliHand
                    ELSE IF n <= L + 1 THEN Queued(rxMem, rxQueue[n - 1])
                    ELSE IF n = L + 2 THEN CdcRxHand ELSE usbRx]
  BY DEF RxStages, L
<1> QED BY <1>1, <1>2, <1>3, <1>4 DEF L

(* The same after a step.                                                  *)
LEMMA RxStagesNext ==
  Len(rxQueue') \in Nat =>
    /\ RxStages'[0] = consumed' /\ RxStages'[1] = CliHand'
    /\ \A n \in 2..Len(rxQueue') + 1 : RxStages'[n] = Queued(rxMem', rxQueue'[n - 1])
    /\ RxStages'[Len(rxQueue') + 2] = CdcRxHand' /\ RxStages'[Len(rxQueue') + 3] = usbRx'
<1>1. (Len(rxQueue) \in Nat =>
    /\ RxStages[0] = consumed /\ RxStages[1] = CliHand
    /\ \A n \in 2..Len(rxQueue) + 1 : RxStages[n] = Queued(rxMem, rxQueue[n - 1])
    /\ RxStages[Len(rxQueue) + 2] = CdcRxHand /\ RxStages[Len(rxQueue) + 3] = usbRx)'
  BY RxStagesAt, PTL
<1> QED BY <1>1

(* Nothing of the rx direction moves.                                      *)
LEMMA RxFrame ==
  ASSUME RxChained, UNCHANGED <<consumed, rxMem, rxQueue, usbRx, hostSent, replayed, shortRead>>,
         CliHand' = CliHand, CdcRxHand' = CdcRxHand
  PROVE  RxChained' /\ (RxAll => RxAll')
<1>1. RxStages' = RxStages
  BY DEF RxStages, Queued, Span
<1> QED BY <1>1 DEF RxChained, RxAll

(* A result that was too short is never forgotten.                         *)
LEMMA ShortReadStays == TypeInv /\ [Next]_vars /\ ~shortRead' => ~shortRead
<1> SUFFICES ASSUME TypeInv, [Next]_vars, ~shortRead' PROVE ~shortRead
  OBVIOUS
<1>1. shortRead' = shortRead \/ \E b \in RxBlocks : CdcRxRead(b)
  BY DEF Next, Usb, Cdc, Cli, cli_write_char, Report, Tick, vars, HostSend, HostCollect, BusReset,
       CdcRxCheck, CdcRxDone, CdcNoBlock, CdcRxSend, CdcTxReceive, CdcTxWrite,
       CdcTxRelease, CdcPassEnd, CliInit, CliReceive, CliReceiveTimeout, CliReceiveChar,
       CliRelease, CliWrite, CliGetBuffer, CliNoBuffer, CliSend, CliPassEnd,
       rxVars, txVars, cdcVars, inVars, outVars, cliVars, hostVars
<1>2. ASSUME NEW b \in RxBlocks, CdcRxRead(b) PROVE ~shortRead
  <2>1. shortRead' = (shortRead \/ Smaller(cdcLen, Len(usbRx)) < cdcLen)
    BY <1>2 DEF CdcRxRead
  <2> DEFINE e == Smaller(cdcLen, Len(usbRx)) < cdcLen
  <2> HIDE DEF e
  <2>2. shortRead' = (shortRead \/ e)
    BY <2>1 DEF e
  <2> QED BY <2>2, Zenon
<1> QED BY <1>1, <1>2

(* A packet of the host is higher than all it sent before.                 *)
LEMMA RxHostStep ==
  ASSUME TypeInv, Chain(RxStages, Len(rxQueue) + 3, hostSent), NEW k \in 1..RX_BUFSIZE, HostSend(k)
  PROVE  Chain(RxStages', Len(rxQueue') + 3, hostSent') /\ (RxAll => RxAll')
<1> DEFINE L == Len(rxQueue)
           N == L + 3
           y == [i \in 1..k |-> hostSent + i]
<1>1. L \in Nat /\ N \in Nat /\ k \in Nat /\ hostSent \in Nat
  BY BlockBytes, BridgeNumbers
<1>2. y \in Seq(Nat) /\ Len(y) = k /\ \A i \in 1..k : y[i] = hostSent + i
  BY <1>1, CountUpType
<1>3. usbRx' = usbRx \o y /\ hostSent' = hostSent + k
      /\ UNCHANGED <<consumed, rxMem, rxQueue, CliHand, CdcRxHand>>
  BY DEF HostSend, CliHand, CdcRxHand, Span, rxVars, cdcVars, cliVars, inVars
<1> HIDE DEF y
<1>4. hostSent' = hostSent + Len(y) /\ \A i \in 1..Len(y) : y[i] = hostSent + i
  BY <1>2, <1>3
<1>5. /\ \A n \in 0..N : n # N => RxStages'[n] = RxStages[n]
      /\ RxStages'[N] = RxStages[N] \o y
  <2>1. RxStages[N] = usbRx /\ RxStages'[N] = usbRx'
    BY <1>1, <1>3, RxStagesAt, RxStagesNext
  <2>2. \A n \in 0..N : n # N => n <= L + 2
    BY <1>1
  <2>3. \A n \in 0..N : n # N => RxStages'[n] = RxStages[n]
    BY <1>1, <1>3, <2>2 DEF RxStages, Queued, Span
  <2> QED BY <1>3, <2>1, <2>3
<1>7. Chain(RxStages, N, hostSent)
  OBVIOUS
<1>8. N = Len(rxQueue') + 3
  BY <1>3
<1> HIDE DEF N
<1>9. Kept(RxStages, N, hostSent, RxStages', N, hostSent')
  BY ONLY <1>1, <1>2, <1>4, <1>5, <1>7, Extended
<1> QED BY <1>8, <1>9 DEF Kept, RxAll, N

(* A bus reset empties the FIFO.                                           *)
LEMMA RxResetStep ==
  ASSUME TypeInv, Chain(RxStages, Len(rxQueue) + 3, hostSent), BusReset
  PROVE  Chain(RxStages', Len(rxQueue') + 3, hostSent')
<1> DEFINE N == Len(rxQueue) + 3
           at == [n \in 0..N |-> n]
<1>1. N \in Nat /\ Len(rxQueue) \in Nat
  BY BlockBytes
<1>2. usbRx' = << >> /\ UNCHANGED <<consumed, rxMem, rxQueue, hostSent, CliHand, CdcRxHand>>
  BY DEF BusReset, CliHand, CdcRxHand, Span, rxVars, cdcVars, cliVars, inVars
<1>3. \A n \in 0..N : RxStages'[n] = << >> \/ RxStages'[n] = RxStages[n]
  BY <1>1, <1>2 DEF RxStages, Queued, Span
<1>4. Chain(RxStages, N, hostSent)
  OBVIOUS
<1>5. \A n \in 0..N : at[n] = n
  OBVIOUS
<1>6. N = Len(rxQueue') + 3
  BY <1>2
<1> HIDE DEF N, at
<1>7. /\ \A n \in 0..N : RxStages'[n] = << >> \/ (at[n] \in 0..N /\ RxStages'[n] = RxStages[at[n]])
      /\ \A m, n \in 0..N : m < n /\ RxStages'[m] # << >> /\ RxStages'[n] # << >> => at[m] < at[n]
  BY <1>3, <1>5
<1>8. Chain(RxStages', N, hostSent)
  BY ONLY <1>1, <1>4, <1>7, Picked
<1> QED BY <1>2, <1>6, <1>8

(* usb/cdc reads all the bytes it counted into a free block, which is not  *)
(* in the queue and not the cli task's.                                    *)
LEMMA RxReadStep ==
  ASSUME TypeInv, RxP!Ownership, ~shortRead', NEW b \in RxBlocks, CdcRxRead(b),
         Chain(RxStages, Len(rxQueue) + 3, hostSent)
  PROVE  Chain(RxStages', Len(rxQueue') + 3, hostSent') /\ (RxAll => RxAll')
<1> DEFINE L == Len(rxQueue)
           N == L + 3
           k == L + 2
           c == Smaller(cdcLen, Len(usbRx))
           y == SubSeq(usbRx, 1, c)
           z == SubSeq(usbRx, c + 1, Len(usbRx))
<1>1. L \in Nat /\ N \in Nat /\ k \in 0..N /\ k + 1 = N /\ k + 1 <= N
  BY BlockBytes
<1>2. /\ b \in rxFree /\ rxMem' = [rxMem EXCEPT ![b] = Filled(@, y)]
      /\ usbRx' = z /\ cdcPc = "get" /\ cdcPc' = "send" /\ cdcBlk' = b
      /\ UNCHANGED <<rxQueue, cdcLen, cliPc, cliBlk, cliLen, cliPos, consumed, hostSent>>
  BY DEF CdcRxRead, Rx!get_block, cliVars, inVars, hostVars
<1>3. cdcLen \in Nat \ {0} /\ cdcLen <= CLI_RX_BLOCKSIZE /\ CLI_RX_BLOCKSIZE \in Nat
      /\ usbRx \in Seq(Nat) /\ Len(usbRx) \in Nat
  BY <1>2, BridgeNumbers
<1>4. c = cdcLen /\ c <= Len(usbRx)
  <2>1. ~(c < cdcLen)
    BY DEF CdcRxRead
  <2>2. c <= cdcLen /\ c <= Len(usbRx) /\ c \in {cdcLen, Len(usbRx)}
    BY <1>3, SmallerType
  <2> QED BY <1>3, <2>1, <2>2
<1>5. y \in Seq(Nat) /\ z \in Seq(Nat) /\ usbRx = y \o z /\ Len(y) = cdcLen
  <2>1. c \in Nat /\ c <= Len(usbRx) /\ usbRx \in Seq(Nat)
    BY <1>3, <1>4
  <2> HIDE DEF c
  <2>2. /\ SubSeq(usbRx, 1, c) \in Seq(Nat) /\ SubSeq(usbRx, c + 1, Len(usbRx)) \in Seq(Nat)
        /\ usbRx = SubSeq(usbRx, 1, c) \o SubSeq(usbRx, c + 1, Len(usbRx))
        /\ Len(SubSeq(usbRx, 1, c)) = c
    BY ONLY <2>1, CutPrefix
  <2> QED BY <1>4, <2>2
<1> HIDE DEF y, z, c
<1>6. b \notin RxP!queued /\ b \notin RxHeld
  BY <1>2 DEF RxP!Ownership
<1>7. \A d \in RxBlocks : d # b => rxMem'[d] = rxMem[d]
  BY <1>2 DEF TypeInv, TypeOK
<1>8. \A i \in 1..L : Queued(rxMem', rxQueue[i]) = Queued(rxMem, rxQueue[i])
  BY <1>6, <1>7, BlockBytes DEF RxP!queued, Queued, Span
<1>9. CliHand' = CliHand
  BY <1>2, <1>6, <1>7 DEF CliHand, Span, RxHeld, TypeInv, TypeOK
<1>10. CdcRxHand = << >> /\ CdcRxHand' = y
  <2>1. rxMem[b] \in [1..CLI_RX_BLOCKSIZE -> Nat] /\ rxMem'[b] = Filled(rxMem[b], y)
    BY <1>2 DEF TypeInv, TypeOK
  <2>2. \A i \in 1..cdcLen : i \in 1..CLI_RX_BLOCKSIZE /\ i <= Len(y) /\ y[i] \in Nat
    BY <1>3, <1>5, ElementOfSeq
  <2>3. \A i \in 1..cdcLen : rxMem'[b][i] = y[i] /\ rxMem'[b][i] \in Nat
    BY <2>1, <2>2 DEF Filled
  <2> DEFINE row == rxMem'[b]
  <2> HIDE DEF row
  <2>4. 1 \in Int /\ cdcLen \in Int /\ 1 <= cdcLen /\ cdcLen - 1 + 1 = cdcLen
        /\ \A i \in 1..cdcLen : 1 + i - 1 = i
    BY <1>3
  <2>5. \A i \in 1..cdcLen : row[i] = y[i] /\ row[i] \in Nat
    BY <2>3 DEF row
  <2>6. /\ SubSeq(row, 1, cdcLen) \in Seq(Nat) /\ Len(SubSeq(row, 1, cdcLen)) = cdcLen - 1 + 1
        /\ \A i \in 1..cdcLen - 1 + 1 : SubSeq(row, 1, cdcLen)[i] = row[1 + i - 1]
    BY ONLY <2>4, <2>5, SubSeqProperties
  <2>7. SubSeq(row, 1, cdcLen) = y
    <3> DEFINE s == SubSeq(row, 1, cdcLen)
    <3>1. s \in Seq(Nat) /\ Len(s) = Len(y) /\ \A i \in 1..Len(s) : s[i] = y[i]
      BY <1>5, <2>4, <2>5, <2>6
    <3> HIDE DEF s
    <3>2. s = y
      BY ONLY <1>5, <3>1, SeqEqual
    <3> QED BY <3>2 DEF s
  <2> QED BY <1>2, <2>7 DEF CdcRxHand, Span, row
<1>11. /\ RxStages[k + 1] = y \o z /\ RxStages'[k] = RxStages[k] \o y /\ RxStages'[k + 1] = z
       /\ \A n \in 0..N : n # k /\ n # k + 1 => RxStages'[n] = RxStages[n]
  <2>1. RxStages[k] = << >> /\ RxStages[k + 1] = usbRx /\ RxStages'[k] = y /\ RxStages'[k + 1] = z
    BY <1>1, <1>2, <1>10, RxStagesAt, RxStagesNext
  <2>2. \A n \in 0..N : n # k /\ n # k + 1 =>
          n = 0 \/ n = 1 \/ (n \in 2..L + 1 /\ n - 1 \in 1..L)
    BY <1>1
  <2>3. RxStages'[0] = RxStages[0] /\ RxStages'[1] = RxStages[1]
    BY <1>1, <1>2, <1>9, RxStagesAt, RxStagesNext
  <2>4. \A n \in 2..L + 1 : n - 1 \in 1..L => RxStages'[n] = RxStages[n]
    BY <1>1, <1>2, <1>8, RxStagesAt, RxStagesNext
  <2>5. \A n \in 0..N : n # k /\ n # k + 1 => RxStages'[n] = RxStages[n]
    BY <2>2, <2>3, <2>4
  <2>6. y = << >> \o y
    BY <1>5, ConcatEmptySeq
  <2> QED BY <1>5, <2>1, <2>5, <2>6
<1>12. Chain(RxStages, N, hostSent)
  OBVIOUS
<1>13. N = Len(rxQueue') + 3
  BY <1>2
<1> HIDE DEF N, k
<1>14. Kept(RxStages, N, hostSent, RxStages', N, hostSent)
  BY ONLY <1>1, <1>5, <1>11, <1>12, Moved
<1> QED BY <1>2, <1>13, <1>14 DEF Kept, RxAll, N

(* The block usb/cdc sends becomes the last of the queue, which has room.  *)
LEMMA RxSendStep ==
  ASSUME TypeInv, RoomInv, CdcRxSend, Chain(RxStages, Len(rxQueue) + 3, hostSent)
  PROVE  Chain(RxStages', Len(rxQueue') + 3, hostSent') /\ (RxAll => RxAll')
<1> DEFINE L == Len(rxQueue)
           N == L + 3
           M == L + 4
           last == [data |-> cdcBlk, size |-> cdcLen]
           at == [n \in 0..M |-> IF n <= L + 2 THEN n ELSE n - 1]
<1>1. L \in Nat /\ N \in Nat /\ M \in Nat
  BY BlockBytes
<1>2. /\ cdcPc = "send" /\ cdcPc' = "rx" /\ rxQueue' = Append(rxQueue, last)
      /\ UNCHANGED <<consumed, rxMem, usbRx, hostSent, CliHand>>
  BY DEF CdcRxSend, RoomInv, Rx!send_or_drop, CliHand, Span, cliVars, inVars, hostVars
<1>3. /\ Len(rxQueue') = L + 1 /\ \A i \in 1..L : rxQueue'[i] = rxQueue[i]
      /\ rxQueue'[L + 1] = last
  <2>1. cdcBlk \in RxBlocks /\ cdcLen \in 0..CLI_RX_BLOCKSIZE
    BY <1>2, BridgeNumbers DEF TypeInv, TypeOK
  <2>2. rxQueue \in Seq(Rx!block_pointer) /\ last \in Rx!block_pointer
    BY <2>1 DEF TypeInv, TypeOK, Rx!TypeOK, Rx!block_pointer
  <2> QED BY ONLY <1>2, <2>2, AppendProperties
<1>4. CdcRxHand = Queued(rxMem, last) /\ CdcRxHand' = << >>
  BY <1>2 DEF CdcRxHand, Queued, Span
<1> HIDE DEF last
<1>5. /\ RxStages[0] = consumed /\ RxStages[1] = CliHand
      /\ \A n \in 2..L + 1 : RxStages[n] = Queued(rxMem, rxQueue[n - 1])
      /\ RxStages[L + 2] = CdcRxHand /\ RxStages[L + 3] = usbRx
  BY <1>1, RxStagesAt
<1>6. /\ RxStages'[0] = consumed' /\ RxStages'[1] = CliHand'
      /\ \A n \in 2..L + 2 : RxStages'[n] = Queued(rxMem', rxQueue'[n - 1])
      /\ RxStages'[L + 3] = CdcRxHand' /\ RxStages'[L + 4] = usbRx'
  <2>1. Len(rxQueue') \in Nat /\ Len(rxQueue') + 1 = L + 2 /\ Len(rxQueue') + 2 = L + 3
        /\ Len(rxQueue') + 3 = L + 4
    BY <1>1, <1>3
  <2> QED BY <2>1, RxStagesNext
<1>13. ASSUME NEW n \in 0..M, n # L + 3
       PROVE  at[n] \in 0..N /\ RxStages'[n] = RxStages[at[n]]
  <2>1. /\ at[n] \in 0..N /\ (n <= L + 2 => at[n] = n) /\ (n = L + 4 => at[n] = L + 3)
        /\ n = 0 \/ n = 1 \/ (n \in 2..L + 1 /\ n - 1 \in 1..L) \/ n = L + 2 \/ n = L + 3 \/ n = L + 4
    BY <1>1
  <2>2. CASE n = 0 \/ n = 1
    BY <1>1, <1>2, <1>5, <1>6, <2>1, <2>2
  <2>3. CASE n \in 2..L + 1 /\ n - 1 \in 1..L
    <3>1. n \in 2..L + 2 /\ n <= L + 2
      BY <1>1, <2>3
    <3> QED BY <1>2, <1>3, <1>5, <1>6, <2>1, <2>3, <3>1
  <2>4. CASE n = L + 2
    <3>1. n \in 2..L + 2 /\ n - 1 = L + 1 /\ n <= L + 2
      BY <1>1, <2>4
    <3> QED BY <1>2, <1>3, <1>4, <1>5, <1>6, <2>1, <2>4, <3>1
  <2>6. CASE n = L + 4
    BY <1>2, <1>5, <1>6, <2>1, <2>6
  <2> QED BY <1>13, <2>1, <2>2, <2>3, <2>4, <2>6
<1>7. ASSUME NEW n \in 0..M
      PROVE  RxStages'[n] = << >> \/ (at[n] \in 0..N /\ RxStages'[n] = RxStages[at[n]])
  BY <1>4, <1>6, <1>13
<1>8. \A m, n \in 0..M : m < n /\ RxStages'[m] # << >> /\ RxStages'[n] # << >> => at[m] < at[n]
  <2> SUFFICES ASSUME NEW m \in 0..M, NEW n \in 0..M, m < n, RxStages'[m] # << >>, RxStages'[n] # << >>
               PROVE  at[m] < at[n]
    OBVIOUS
  <2>1. m # L + 3 /\ n # L + 3
    BY <1>4, <1>6
  <2> QED BY <1>1, <2>1
<1>9. M = Len(rxQueue') + 3
  BY <1>1, <1>3
<1>10. Chain(RxStages, N, hostSent)
  OBVIOUS
<1> HIDE DEF N, M, at
<1>11. Chain(RxStages', M, hostSent)
  BY ONLY <1>1, <1>7, <1>8, <1>10, Picked
<1>12. Complete(RxStages, N, hostSent) => Complete(RxStages', M, hostSent)
  <2>1. \A k \in 0..N : \E n \in 0..M : at[n] = k /\ n # L + 3
    <3>1. \A k \in 0..N : /\ k <= L + 2 => k \in 0..M /\ at[k] = k /\ k # L + 3
                          /\ k > L + 2 => k + 1 \in 0..M /\ at[k + 1] = k /\ k + 1 # L + 3
      BY <1>1 DEF N, M, at
    <3> QED BY <1>1, <3>1
  <2>2. \A k \in 0..N : RxStages[k] = << >> \/ \E n \in 0..M : RxStages[k] = RxStages'[n]
    <3> SUFFICES ASSUME NEW k \in 0..N PROVE RxStages[k] = << >> \/ \E n \in 0..M : RxStages[k] = RxStages'[n]
      OBVIOUS
    <3>1. PICK n \in 0..M : at[n] = k /\ n # L + 3
      BY <2>1
    <3>2. RxStages'[n] = RxStages[at[n]]
      BY <1>13, <3>1
    <3> QED BY <3>1, <3>2
  <2>3. \A n \in 0..M : RxStages'[n] = << >> \/ \E k \in 0..N : RxStages'[n] = RxStages[k]
    BY <1>7
  <2> QED BY ONLY <2>2, <2>3, SameStages
<1> QED BY <1>2, <1>9, <1>11, <1>12 DEF RxAll, N, M

(* The cli task takes the oldest block, which is the next stage.           *)
LEMMA RxReceiveStep ==
  ASSUME TypeInv, NEW p \in Rx!block_pointer, CliReceive(p), Chain(RxStages, Len(rxQueue) + 3, hostSent)
  PROVE  Chain(RxStages', Len(rxQueue') + 3, hostSent') /\ (RxAll => RxAll')
<1> DEFINE L == Len(rxQueue')
           N == L + 4
           M == L + 3
           at == [n \in 0..M |-> IF n = 0 THEN 0 ELSE n + 1]
<1>1. rxQueue # << >> /\ p = Head(rxQueue) /\ rxQueue' = Tail(rxQueue)
  BY DEF CliReceive, Rx!receive, Rx!empty
<1>2. /\ L \in Nat /\ Len(rxQueue) = L + 1 /\ p = rxQueue[1]
      /\ \A i \in 1..L : rxQueue'[i] = rxQueue[i + 1]
  <2>1. rxQueue \in Seq(Rx!block_pointer)
    BY DEF TypeInv, TypeOK, Rx!TypeOK
  <2>2. L = Len(rxQueue) - 1 /\ \A i \in 1..L : rxQueue'[i] = rxQueue[i + 1]
    BY <1>1, <2>1, HeadTailProperties
  <2>3. Len(rxQueue) \in Nat \ {0} /\ p = rxQueue[1]
    BY <1>1, <2>1, EmptySeq
  <2> QED BY <2>2, <2>3
<1>3. /\ cliPc = "recv" /\ cliPc' = "chars" /\ cliBlk' = p.data /\ cliLen' = p.size /\ cliPos' = cliPos
      /\ UNCHANGED <<consumed, rxMem, usbRx, hostSent, CdcRxHand>>
  BY DEF CliReceive, CliAt, CdcRxHand, Span, cdcVars, hostVars
<1>4. CliHand' = Queued(rxMem, p)
  <2>1. cliPos = 0 /\ p.data # NoBlock
    BY <1>3, BridgeAssumption DEF TypeInv, AtStart, Rx!block_pointer
  <2>2. cliPc' = "chars" /\ cliBlk' # NoBlock /\ cliPos' + 1 = 1
    BY <1>3, <2>1
  <2>3. CliHand' = SubSeq(rxMem'[cliBlk'], cliPos' + 1, cliLen')
    BY <2>2 DEF CliHand, Span
  <2> QED BY <1>3, <2>2, <2>3 DEF Queued, Span
<1>5. /\ RxStages[0] = consumed
      /\ \A n \in 2..L + 2 : RxStages[n] = Queued(rxMem, rxQueue[n - 1])
      /\ RxStages[L + 3] = CdcRxHand /\ RxStages[L + 4] = usbRx
  <2>1. Len(rxQueue) \in Nat /\ Len(rxQueue) + 1 = L + 2 /\ Len(rxQueue) + 2 = L + 3
        /\ Len(rxQueue) + 3 = L + 4
    BY <1>2
  <2> QED BY <2>1, RxStagesAt
<1>6. /\ RxStages'[0] = consumed' /\ RxStages'[1] = CliHand'
      /\ \A n \in 2..L + 1 : RxStages'[n] = Queued(rxMem', rxQueue'[n - 1])
      /\ RxStages'[L + 2] = CdcRxHand' /\ RxStages'[L + 3] = usbRx'
  BY <1>2, RxStagesNext
<1>7. ASSUME NEW n \in 0..M PROVE at[n] \in 0..N /\ RxStages'[n] = RxStages[at[n]]
  <2>1. /\ at[n] \in 0..N /\ (n = 0 => at[n] = 0) /\ (n # 0 => at[n] = n + 1)
        /\ n = 0 \/ n = 1 \/ (n \in 2..L + 1 /\ n - 1 \in 1..L) \/ n = L + 2 \/ n = L + 3
    BY <1>2
  <2>2. CASE n = 0
    BY <1>3, <1>5, <1>6, <2>1, <2>2
  <2>3. CASE n = 1
    <3>1. 2 \in 2..L + 2 /\ at[n] = 2 /\ 2 - 1 = 1
      BY <1>2, <2>1, <2>3
    <3> QED BY <1>2, <1>4, <1>5, <1>6, <2>1, <2>3, <3>1
  <2>4. CASE n \in 2..L + 1 /\ n - 1 \in 1..L
    <3>1. n + 1 \in 2..L + 2 /\ (n + 1) - 1 = (n - 1) + 1 /\ at[n] = n + 1
      BY <1>2, <2>1, <2>4
    <3> QED BY <1>2, <1>3, <1>5, <1>6, <2>1, <2>4, <3>1
  <2>5. CASE n = L + 2 \/ n = L + 3
    <3>1. n # 0 /\ (L + 2) + 1 = L + 3 /\ (L + 3) + 1 = L + 4
      BY <1>2, <2>5
    <3> QED BY <1>3, <1>5, <1>6, <2>1, <2>5, <3>1
  <2> QED BY <2>1, <2>2, <2>3, <2>4, <2>5
<1>8. \A m, n \in 0..M : m < n => at[m] < at[n]
  BY <1>2
<1>9. N = Len(rxQueue) + 3 /\ N \in Nat /\ M \in Nat
  BY <1>2
<1> HIDE DEF N, at
<1>10. Chain(RxStages, N, hostSent)
  BY <1>9
<1> HIDE DEF M
<1>11. Chain(RxStages', M, hostSent)
  BY ONLY <1>7, <1>8, <1>9, <1>10, Picked
<1>12. Complete(RxStages, N, hostSent) => Complete(RxStages', M, hostSent)
  <2>1. RxStages[1] = << >>
    BY <1>2, <1>3, RxStagesAt DEF CliHand
  <2>2. \A k \in 0..N : k # 1 => \E n \in 0..M : at[n] = k
    <3>1. \A k \in 0..N : /\ k = 0 => k \in 0..M /\ at[k] = k
                          /\ k > 1 => k - 1 \in 0..M /\ at[k - 1] = k
      BY <1>2 DEF N, M, at
    <3> QED BY <1>9, <3>1
  <2>3. \A k \in 0..N : RxStages[k] = << >> \/ \E n \in 0..M : RxStages[k] = RxStages'[n]
    BY <1>7, <2>1, <2>2
  <2>4. \A n \in 0..M : RxStages'[n] = << >> \/ \E k \in 0..N : RxStages'[n] = RxStages[k]
    BY <1>7
  <2> QED BY ONLY <2>3, <2>4, SameStages
<1> QED BY <1>3, <1>9, <1>11, <1>12 DEF M, RxAll

(* The cli task feeds the next character of its block to the CLI.          *)
LEMMA RxCharStep ==
  ASSUME TypeInv, CliReceiveChar, Chain(RxStages, Len(rxQueue) + 3, hostSent)
  PROVE  Chain(RxStages', Len(rxQueue') + 3, hostSent') /\ (RxAll => RxAll')
<1> DEFINE N == Len(rxQueue) + 3
           row == rxMem[cliBlk]
           q == cliPos + 1
           y == SubSeq(row, q, q)
           z == SubSeq(row, q + 1, cliLen)
<1>1. N \in Nat /\ Len(rxQueue) \in Nat /\ 0 \in 0..N /\ 0 + 1 <= N
  BY BlockBytes
<1>2. /\ cliPc = "chars" /\ cliPc' = "chars" /\ cliPos < cliLen /\ cliPos' = q
      /\ consumed' = Append(consumed, row[q])
      /\ UNCHANGED <<rxMem, rxQueue, usbRx, hostSent, cliBlk, cliLen, CdcRxHand>>
  BY DEF CliReceiveChar, CliAt, CdcRxHand, Span, rxVars, cdcVars, hostVars
<1>3. cliBlk \in RxBlocks /\ cliBlk # NoBlock /\ q \in Nat \ {0} /\ q <= cliLen /\ cliLen \in Nat
      /\ cliLen <= CLI_RX_BLOCKSIZE /\ consumed \in Seq(Nat)
  <2>1. cliLen \in 0..CLI_RX_BLOCKSIZE /\ cliPos \in 0..cliLen /\ CLI_RX_BLOCKSIZE \in Nat
        /\ (cliBlk = NoBlock => cliLen = 0) /\ cliBlk \in RxBlocks \cup {NoBlock} /\ consumed \in Seq(Nat)
    BY SizesType DEF TypeInv, TypeOK, Sizes
  <2> QED BY <1>2, <2>1
<1>4. row \in Seq(Nat) /\ cliLen <= Len(row) /\ Len(row) = CLI_RX_BLOCKSIZE
  BY <1>3, BlockBytes
<1>5. CliHand = SubSeq(row, q, cliLen) /\ CliHand' = z
  BY <1>2, <1>3 DEF CliHand, Span
<1> HIDE DEF row, q
<1>6. y \in Seq(Nat) /\ z \in Seq(Nat) /\ SubSeq(row, q, cliLen) = y \o z
  <2>1. q <= q + 1
    BY <1>3
  <2> QED BY ONLY <1>3, <1>4, <2>1, CutSpan
<1>7. consumed' = consumed \o y
  <2>1. q \in 1..Len(row) /\ row[q] \in Nat
    BY <1>3, <1>4, ElementOfSeq
  <2>2. q \in Int /\ q <= q /\ q - q + 1 = 1 /\ q + 1 - 1 = q /\ \A i \in q..q : row[i] \in Nat
    BY <1>3, <2>1
  <2>3. Len(y) = 1 /\ y[1] = row[q]
    <3>1. Len(y) = (IF q <= q THEN q - q + 1 ELSE 0) /\ \A i \in 1..q - q + 1 : y[i] = row[q + i - 1]
      BY ONLY <2>2, SubSeqProperties
    <3> QED BY <2>2, <3>1
  <2>4. <<row[q]>> \in Seq(Nat) /\ Len(<<row[q]>>) = 1 /\ <<row[q]>>[1] = row[q]
    BY <2>1
  <2> HIDE DEF y
  <2>5. y = <<row[q]>>
    BY <1>6, <2>3, <2>4, SeqEqual
  <2> QED BY <1>2, <1>3, <2>1, <2>5, AppendIsConcat
<1> HIDE DEF y, z
<1>8. /\ RxStages[0 + 1] = y \o z /\ RxStages'[0] = RxStages[0] \o y /\ RxStages'[0 + 1] = z
      /\ \A n \in 0..N : n # 0 /\ n # 0 + 1 => RxStages'[n] = RxStages[n]
  <2>1. RxStages[0] = consumed /\ RxStages[1] = CliHand /\ RxStages'[0] = consumed' /\ RxStages'[1] = CliHand'
    BY <1>1, <1>2, RxStagesAt, RxStagesNext
  <2>2. \A n \in 0..N : n # 0 /\ n # 1 => RxStages'[n] = RxStages[n]
    BY <1>1, <1>2 DEF RxStages, Queued, Span
  <2> QED BY <1>5, <1>6, <1>7, <2>1, <2>2
<1>9. Chain(RxStages, N, hostSent)
  OBVIOUS
<1>10. N = Len(rxQueue') + 3
  BY <1>2
<1> HIDE DEF N
<1>11. Kept(RxStages, N, hostSent, RxStages', N, hostSent)
  BY ONLY <1>1, <1>6, <1>8, <1>9, Moved
<1> QED BY <1>2, <1>10, <1>11 DEF Kept, RxAll, N

(* Every step keeps the bytes of the rx direction in order, until a block  *)
(* is replayed or a read comes out short.                                  *)
LEMMA RxChainedStep ==
  ASSUME BridgeInv, RxChained, [Next]_vars
  PROVE  RxChained' /\ (resets' = 0 /\ ~replayed' /\ ~shortRead' /\ RxAll => RxAll')
<1> SUFFICES ASSUME ~replayed', ~shortRead'
             PROVE  /\ Chain(RxStages', Len(rxQueue') + 3, hostSent')
                    /\ resets' = 0 /\ RxAll => RxAll'
  BY DEF RxChained
<1>a. TypeInv /\ ~replayed /\ ~shortRead
  BY ReplayedStays, ShortReadStays DEF BridgeInv
<1>b. RxP!Ownership /\ RoomInv /\ Chain(RxStages, Len(rxQueue) + 3, hostSent)
  BY <1>a DEF BridgeInv, RxInv, RxChained
<1> DEFINE Goal == /\ Chain(RxStages', Len(rxQueue') + 3, hostSent')
                   /\ resets' = 0 /\ RxAll => RxAll'
<1>f. ASSUME UNCHANGED <<consumed, rxMem, rxQueue, usbRx, hostSent>>,
             CliHand' = CliHand, CdcRxHand' = CdcRxHand
      PROVE  Goal
  <2>1. RxStages' = RxStages
    BY <1>f DEF RxStages, Queued, Span
  <2> QED BY <1>b, <1>f, <2>1 DEF RxAll
<1> HIDE DEF Goal
<1> USE DEF CliAt, CliHand, CdcRxHand, Span, rxVars, txVars, cdcVars, inVars, outVars, cliVars, hostVars
<1>1. ASSUME NEW k \in 1..RX_BUFSIZE, HostSend(k) PROVE Goal
  BY <1>1, <1>a, <1>b, RxHostStep DEF Goal
<1>2. ASSUME NEW n \in 1..TX_BUFSIZE, HostCollect(n) PROVE Goal
  BY <1>2, <1>f DEF HostCollect
<1>3. ASSUME BusReset PROVE Goal
  <2>1. resets' # 0
    BY <1>3, <1>a DEF BusReset, TypeInv, TypeOK
  <2> QED BY <1>3, <1>a, <1>b, <2>1, RxResetStep DEF Goal
<1>4. ASSUME CdcRxCheck \/ CdcRxDone \/ CdcNoBlock \/ CdcTxWrite \/ CdcTxRelease \/ CdcPassEnd
      PROVE  Goal
  BY <1>4, <1>f DEF CdcRxCheck, CdcRxDone, CdcNoBlock, CdcTxWrite, CdcTxRelease, CdcPassEnd
<1>5. ASSUME NEW b \in RxBlocks, CdcRxRead(b) PROVE Goal
  BY <1>5, <1>a, <1>b, RxReadStep DEF Goal
<1>6. ASSUME CdcRxSend PROVE Goal
  BY <1>6, <1>a, <1>b, RxSendStep DEF Goal
<1>7. ASSUME NEW p \in Tx!block_pointer, CdcTxReceive(p) PROVE Goal
  BY <1>7, <1>f DEF CdcTxReceive
<1>8. ASSUME CliInit \/ CliNoBuffer \/ CliSend \/ CliPassEnd PROVE Goal
  BY <1>8, <1>f DEF CliInit, CliNoBuffer, CliSend, CliPassEnd
<1>9. ASSUME NEW p \in Rx!block_pointer, CliReceive(p) PROVE Goal
  BY <1>9, <1>a, <1>b, RxReceiveStep DEF Goal
<1>10. ASSUME CliReceiveTimeout PROVE Goal
  <2>1. cliBlk = NoBlock /\ UNCHANGED cliBlk
    BY <1>10 DEF CliReceiveTimeout
  <2> QED BY <1>10, <1>f, <2>1 DEF CliReceiveTimeout
<1>11. ASSUME CliReceiveChar PROVE Goal
  BY <1>11, <1>a, <1>b, RxCharStep DEF Goal
<1>12. ASSUME NEW n \in 0..MaxWrites, CliRelease(n) PROVE Goal
  <2>1. cliPos \in Nat /\ cliLen \in Nat /\ cliPos >= cliLen /\ cliPc' # "chars"
    BY <1>12, <1>a, SizesType DEF CliRelease, TypeInv, TypeOK, Sizes
  <2>2. cliPos + 1 \in Int /\ cliLen \in Int /\ cliLen < cliPos + 1
    BY <2>1
  <2>3. CliHand = << >> /\ CliHand' = << >>
    BY <2>1, <2>2, SubSeqEmpty
  <2>4. UNCHANGED <<consumed, rxMem, rxQueue, usbRx, hostSent, cdcVars>>
    BY <1>12 DEF CliRelease
  <2> QED BY <1>f, <2>3, <2>4
<1>13. ASSUME NEW size \in {1, ReportSize}, CliWrite(size) PROVE Goal
  BY <1>13, <1>f DEF CliWrite
<1>14. ASSUME NEW b \in TxBlocks, NEW len \in 1..outSize, CliGetBuffer(b, len) PROVE Goal
  BY <1>14, <1>f DEF CliGetBuffer
<1>15. ASSUME Tick PROVE Goal
  BY <1>15, <1>f DEF Tick
<1>16. ASSUME UNCHANGED vars PROVE Goal
  BY <1>16, <1>f DEF vars
<1>17. Goal
  BY <1>1, <1>2, <1>3, <1>4, <1>5, <1>6, <1>7, <1>8, <1>9, <1>10, <1>11, <1>12, <1>13,
           <1>14, <1>15, <1>16 DEF Next, Usb, Cdc, Cli, cli_write_char, Report
<1> QED BY <1>17 DEF Goal

-----------------------------------------------------------------------------
(* Initially nothing is on its way.                                        *)
LEMMA OrderInit == Init => RxChained /\ TxChained
<1> SUFFICES ASSUME Init PROVE RxChained /\ TxChained
  OBVIOUS
<1>1. /\ rxQueue = << >> /\ txQueue = << >> /\ Len(<< >>) = 0 /\ usbRx = << >> /\ usbTx = << >>
      /\ cdcPc = "rx" /\ cliPc = "init" /\ consumed = << >> /\ hostGot = << >>
      /\ hostSent = 0 /\ written = 0
  BY EmptySeq DEF Init, Rx!Init, Tx!Init
<1>2. CliHand = << >> /\ CdcRxHand = << >> /\ CdcTxHand = << >>
  BY <1>1 DEF CliHand, CdcRxHand, CdcTxHand
<1>3. \A f, N, b : (\A n \in 0..N : f[n] = << >>) => Chain(f, N, b)
  BY EmptyInOrder DEF Chain
<1>4. \A n \in 0..Len(rxQueue) + 3 : RxStages[n] = << >>
  <2>1. \A n \in 0..3 : n <= 1 => n = 0 \/ n = 1
    OBVIOUS
  <2> QED BY <1>1, <1>2, <2>1 DEF RxStages
<1>5. \A n \in 0..Len(txQueue) + 2 : TxStages[n] = << >>
  BY <1>1, <1>2 DEF TxStages
<1> QED BY <1>1, <1>3, <1>4, <1>5 DEF RxChained, TxChained

(* The inductive invariant holds in every reachable state.                 *)
LEMMA OrderInvariant == Spec => []OrderInv
<1>1. Init => OrderInv
  BY BridgeInit, OrderInit DEF OrderInv
<1>2. OrderInv /\ [Next]_vars => OrderInv'
  <2> SUFFICES ASSUME OrderInv, [Next]_vars PROVE OrderInv'
    OBVIOUS
  <2>1. BridgeInv'
    BY BridgeStep DEF OrderInv
  <2>2. RxChained'
    BY RxChainedStep DEF OrderInv
  <2>3. TxChained'
    BY <2>1, TxChainedStep DEF OrderInv, BridgeInv
  <2> QED BY <2>1, <2>2, <2>3 DEF OrderInv
<1> QED BY <1>1, <1>2, PTL DEF Spec

(* The first stage of a chain is in order.                                 *)
LEMMA FirstInOrder ==
  ASSUME NEW f, NEW N \in Nat, NEW b, Chain(f, N, b)
  PROVE  StrictlyIncreasing(f[0])
<1> DEFINE s == f[0]
<1>1. s \in Seq(Nat) /\ Rising(s)
  BY 0 \in 0..N DEF Chain
<1> HIDE DEF s
<1>2. Len(s) \in Nat
  BY <1>1, LenProperties
<1>3. \A i \in 2..Len(s) : s[i - 1] < s[i]
  <2> SUFFICES ASSUME NEW i \in 2..Len(s) PROVE s[i - 1] < s[i]
    OBVIOUS
  <2>1. i - 1 \in 1..Len(s) /\ i \in 1..Len(s) /\ i - 1 < i
    BY <1>2
  <2> QED BY <1>1, <2>1 DEF Rising
<1> QED BY <1>3 DEF StrictlyIncreasing, s

(* The CLI is fed every byte at most once and in the order sent, whatever  *)
(* the interleaving and the bus resets, until a timed-out receive replays  *)
(* a block or a read comes out short.                                      *)
THEOREM RxAlwaysInOrder == Spec => []RxInOrder
<1>1. ASSUME OrderInv, ~replayed, ~shortRead PROVE StrictlyIncreasing(consumed)
  <2>1. Len(rxQueue) \in Nat /\ Len(rxQueue) + 3 \in Nat
    BY <1>1, BlockBytes DEF OrderInv, BridgeInv
  <2>2. Chain(RxStages, Len(rxQueue) + 3, hostSent)
    BY <1>1 DEF OrderInv, RxChained
  <2>3. StrictlyIncreasing(RxStages[0])
    BY <2>1, <2>2, FirstInOrder
  <2> QED BY <2>1, <2>3, RxStagesAt
<1>2. OrderInv => RxInOrder
  BY <1>1 DEF RxInOrder
<1> QED BY <1>2, OrderInvariant, PTL

(* The host gets every byte the CLI wrote at most once and in order,       *)
(* whatever the interleaving and the bus resets.                           *)
THEOREM TxAlwaysInOrder == Spec => []TxInOrder
<1>1. ASSUME OrderInv PROVE StrictlyIncreasing(hostGot)
  <2>1. Len(txQueue) \in Nat /\ Len(txQueue) + 2 \in Nat
    BY <1>1, BlockBytes DEF OrderInv, BridgeInv
  <2>2. Chain(TxStages, Len(txQueue) + 2, written)
    BY <1>1 DEF OrderInv, TxChained
  <2>3. StrictlyIncreasing(TxStages[0])
    BY <2>1, <2>2, FirstInOrder
  <2> QED BY <2>1, <2>3, TxStagesAt
<1>2. OrderInv => TxInOrder
  BY <1>1 DEF TxInOrder
<1> QED BY <1>2, OrderInvariant, PTL
=============================================================================

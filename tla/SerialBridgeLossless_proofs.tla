-------------------- MODULE SerialBridgeLossless_proofs --------------------
(***************************************************************************)
(* Until a bus reset clears the FIFOs each direction is a bounded channel: *)
(* it refines ByteChannel, for blocks and FIFOs of any number and size.    *)
(* Order and completeness of the chain of stages make what has arrived a   *)
(* prefix of what was put in; what has not arrived is in the places that   *)
(* the blocks and the FIFO have.                                           *)
(***************************************************************************)
EXTENDS SerialBridgeOrder_proofs, FunctionTheorems, WellFoundedInduction

(* The rx stream holds nothing longer than the FIFO it was read from.      *)
RxSizes ==
  /\ cliLen <= RX_BUFSIZE
  /\ \A i \in 1..Len(rxQueue) : rxQueue[i].size <= RX_BUFSIZE

(* What usb/cdc counted is still there: only a reset takes bytes away.     *)
NoShortRead ==
  resets = 0 => /\ ~shortRead
                /\ cdcPc = "get" => cdcLen <= Len(usbRx)

RxComplete == resets = 0 /\ ~replayed => RxAll
TxComplete == resets = 0 => TxAll

LosslessInv == OrderInv /\ RxSizes /\ NoShortRead /\ RxComplete /\ TxComplete

-----------------------------------------------------------------------------
(* Arithmetic of chains.                                                   *)

(* A set of numbers has a least one: the induction of these proofs.        *)
LEMMA LeastElement ==
  ASSUME NEW T \in SUBSET Nat, T # {}
  PROVE  \E m \in T : \A n \in T : m <= n
<1> DEFINE R == {p \in Nat \X Nat : p[1] < p[2]}
<1>1. IsWellFoundedOn(R, Nat)
  BY NatLessThanWellFounded DEF OpToRel
<1>2. \A m, n \in Nat : <<n, m>> \in R <=> n < m
  OBVIOUS
<1> HIDE DEF R
<1>3. PICK m \in T : \A n \in T : ~(<<n, m>> \in R)
  BY <1>1, WFMin
<1>4. \A n \in T : m <= n
  <2> SUFFICES ASSUME NEW n \in T PROVE m <= n
    OBVIOUS
  <2>1. m \in Nat /\ n \in Nat
    OBVIOUS
  <2>2. ~(n < m)
    BY <1>2, <1>3, <2>1
  <2> QED BY <2>1, <2>2
<1> QED BY <1>4

(* What has arrived of a chain that is in order and complete is a prefix   *)
(* of what was put in.                                                     *)
LEMMA ArrivedExactly ==
  ASSUME NEW f, NEW N \in Nat, NEW b \in Nat, Chain(f, N, b), Complete(f, N, b)
  PROVE  /\ \A i \in 1..Len(f[0]) : f[0][i] = i
         /\ Len(f[0]) <= b
<1> DEFINE s == f[0]
<1>1. s \in Seq(Nat) /\ Rising(s) /\ \A n \in 0..N : n # 0 => Before(s, f[n])
  <2>1. 0 \in 0..N /\ \A n \in 0..N : n # 0 => 0 < n
    OBVIOUS
  <2> QED BY <2>1 DEF Chain
<1>2. /\ \A i \in 1..Len(s) : s[i] \in 1..b
      /\ \A v \in 1..b : \E n \in 0..N : \E i \in 1..Len(f[n]) : f[n][i] = v
  <2>1. UNION {Bytes(f[n]) : n \in 0..N} = 1..b /\ 0 \in 0..N
    BY DEF Complete
  <2>2. \A i \in 1..Len(s) : s[i] \in 1..b
    BY <2>1 DEF Bytes
  <2>3. \A v \in 1..b : \E n \in 0..N : v \in Bytes(f[n])
    BY <2>1
  <2> QED BY <2>2, <2>3 DEF Bytes
<1> HIDE DEF s
<1>3. Len(s) \in Nat
  BY <1>1, LenProperties
<1> DEFINE W == {i \in 1..Len(s) : s[i] # i}
<1>4. W = {}
  <2> SUFFICES ASSUME W # {} PROVE FALSE
    OBVIOUS
  <2>0. W \in SUBSET Nat
    BY <1>3
  <2>1. PICK m \in W : \A n \in W : m <= n
    BY ONLY <2>0, W # {}, LeastElement
  <2>2. m \in 1..Len(s) /\ s[m] # m /\ s[m] \in 1..b /\ m \in Nat
    BY <1>2, <2>1
  <2>3. \A j \in 1..Len(s) : j < m => s[j] = j
    BY <2>1
  <2>4. m < s[m]
    <3>1. CASE m = 1
      BY <2>2, <3>1
    <3>2. CASE m # 1
      <4>1. m - 1 \in 1..Len(s) /\ m - 1 < m
        BY <2>2, <3>2
      <4>2. s[m - 1] < s[m] /\ s[m - 1] = m - 1
        BY <1>1, <2>2, <2>3, <4>1 DEF Rising
      <4> QED BY <2>2, <4>2
    <3> QED BY <3>1, <3>2
  <2>5. m \in 1..b
    BY <2>2, <2>4
  <2>6. PICK n \in 0..N : \E i \in 1..Len(f[n]) : f[n][i] = m
    BY <1>2, <2>5
  <2>7. PICK i \in 1..Len(f[n]) : f[n][i] = m
    BY <2>6
  <2>8. CASE n = 0
    <3>1. i \in 1..Len(s) /\ s[i] = m
      BY <2>7, <2>8 DEF s
    <3>2. i = m \/ i < m \/ m < i
      BY <2>2, <3>1
    <3>3. m < i => s[m] < s[i]
      BY <1>1, <2>2, <3>1 DEF Rising
    <3> QED BY <2>2, <2>3, <2>4, <3>1, <3>2, <3>3
  <2>9. CASE n # 0
    <3>1. s[m] < m
      BY <1>1, <2>2, <2>7, <2>9 DEF Before
    <3> QED BY <2>2, <2>4, <3>1
  <2> QED BY <2>8, <2>9
<1>5. \A i \in 1..Len(s) : s[i] = i
  BY <1>4
<1>6. Len(s) <= b
  <2>1. CASE Len(s) = 0
    BY <2>1
  <2>2. CASE Len(s) # 0
    <3>1. Len(s) \in 1..Len(s)
      BY <1>3, <2>2
    <3> QED BY <1>2, <1>5, <3>1
  <2> QED BY <2>1, <2>2
<1> QED BY <1>5, <1>6 DEF s

(* Numbers that all have a place of their own are no more than the places. *)
LEMMA NoMoreThanPlaces ==
  ASSUME NEW c \in Nat, NEW b \in Nat, NEW S, IsFiniteSet(S), NEW h,
         \A v \in c + 1..b : \E x \in S : h[x] = v
  PROVE  Cardinality(S) \in Nat /\ b <= c + Cardinality(S)
<1> DEFINE V == c + 1..b
           S0 == {x \in S : h[x] \in V}
           F == [x \in S0 |-> h[x]]
<1>1. S0 \subseteq S
  OBVIOUS
<1>2. IsFiniteSet(S0) /\ Cardinality(S0) <= Cardinality(S)
  BY <1>1, FS_Subset
<1>3. F \in [S0 -> V] /\ \A v \in V : \E x \in S0 : F[x] = v
  OBVIOUS
<1> HIDE DEF S0, F
<1>4. F \in Surjection(S0, V)
  BY <1>3, Fun_IsSurj
<1>5. Cardinality(V) <= Cardinality(S0)
  BY <1>2, <1>4, FS_Surjection
<1>6. Cardinality(V) = IF c + 1 > b THEN 0 ELSE b - (c + 1) + 1
  BY FS_Interval
<1> HIDE DEF V
<1>7. Cardinality(S) \in Nat /\ Cardinality(S0) \in Nat
  BY <1>2, FS_CardinalityType
<1> QED BY <1>2, <1>5, <1>6, <1>7

(* The bytes of a span are bytes of the block.                             *)
LEMMA SpanBytes ==
  ASSUME NEW s \in Seq(Nat), NEW a \in Nat \ {0}, NEW m \in Nat, m <= Len(s),
         NEW v \in Bytes(SubSeq(s, a, m))
  PROVE  \E i \in 1..m : s[i] = v
<1>1. Len(s) \in Nat
  BY LenProperties
<1>2. \A i \in a..m : s[i] \in Nat
  <2>1. \A i \in a..m : i \in 1..Len(s)
    BY <1>1
  <2> QED BY <2>1, ElementOfSeq
<1>3. /\ Len(SubSeq(s, a, m)) = IF a <= m THEN m - a + 1 ELSE 0
      /\ \A i \in 1..m - a + 1 : SubSeq(s, a, m)[i] = s[a + i - 1]
  BY ONLY <1>2, a \in Int, m \in Int, SubSeqProperties
<1>4. PICK i \in 1..Len(SubSeq(s, a, m)) : SubSeq(s, a, m)[i] = v
  BY DEF Bytes
<1>5. i \in 1..m - a + 1 /\ a + i - 1 \in 1..m
  BY <1>3, <1>4
<1> QED BY <1>3, <1>4, <1>5

-----------------------------------------------------------------------------
(* The places of each direction: the bytes of its blocks that can be used  *)
(* and those of its FIFO, which stands under NoBlock.                      *)
RxPlaces == (RxBlocks \cup {NoBlock}) \X (1..RX_BUFSIZE)
RxPlace == [x \in RxPlaces |-> IF x[1] = NoBlock THEN usbRx[x[2]] ELSE rxMem[x[1]][x[2]]]

TxPlaces == (TxBlocks \X (1..CLI_TX_BLOCKSIZE)) \cup ({NoBlock} \X (1..TX_BUFSIZE))
TxPlace == [x \in TxPlaces |-> IF x[1] = NoBlock THEN usbTx[x[2]] ELSE txMem[x[1]][x[2]]]

RxCapacity == RX_BUFSIZE * (Rx!COUNT + 1)
TxCapacity == TX_BUFSIZE + CLI_TX_BLOCKSIZE * Tx!COUNT

(* There are as many as the channels' capacities say.                      *)
LEMMA CountPlaces ==
  /\ Rx!COUNT \in Nat \ {0} /\ RxCapacity \in Nat /\ RX_BUFSIZE <= RxCapacity
  /\ IsFiniteSet(RxPlaces) /\ Cardinality(RxPlaces) = RxCapacity
  /\ Tx!COUNT \in Nat \ {0} /\ TxCapacity \in Nat
  /\ TX_BUFSIZE <= TxCapacity /\ CLI_TX_BLOCKSIZE <= TxCapacity
  /\ IsFiniteSet(TxPlaces) /\ Cardinality(TxPlaces) <= TxCapacity
<1>1. RX_BUFSIZE \in Nat \ {0} /\ TX_BUFSIZE \in Nat \ {0} /\ CLI_TX_BLOCKSIZE \in Nat \ {0}
  BY SizesType DEF Sizes
<1>2. /\ Rx!COUNT = Cardinality(RxBlocks) /\ Tx!COUNT = Cardinality(TxBlocks)
  BY DEF Rx!COUNT, Tx!COUNT, Rx!Cardinality, Tx!Cardinality, Cardinality
<1>3. /\ IsFiniteSet(RxBlocks) /\ IsFiniteSet(TxBlocks)
      /\ RxBlocks # {} /\ TxBlocks # {} /\ NoBlock \notin RxBlocks
  BY BridgeAssumption
<1>4. Rx!COUNT \in Nat \ {0} /\ Tx!COUNT \in Nat \ {0}
  BY <1>2, <1>3, FS_CardinalityType, FS_EmptySet
<1> DEFINE B == RxBlocks \cup {NoBlock}
<1>5. IsFiniteSet(B) /\ Cardinality(B) = Rx!COUNT + 1
  BY <1>2, <1>3, FS_AddElement
<1>6. /\ \A k \in Nat : IsFiniteSet(1..k) /\ Cardinality(1..k) = k
  <2> SUFFICES ASSUME NEW k \in Nat PROVE IsFiniteSet(1..k) /\ Cardinality(1..k) = k
    OBVIOUS
  <2>1. IsFiniteSet(1..k) /\ Cardinality(1..k) = IF 1 > k THEN 0 ELSE k - 1 + 1
    BY FS_Interval
  <2> QED BY <2>1
<1>7. IsFiniteSet(RxPlaces) /\ Cardinality(RxPlaces) = (Rx!COUNT + 1) * RX_BUFSIZE
  <2>1. IsFiniteSet(1..RX_BUFSIZE) /\ Cardinality(1..RX_BUFSIZE) = RX_BUFSIZE
    BY <1>1, <1>6
  <2> HIDE DEF B
  <2>2. IsFiniteSet(B \X (1..RX_BUFSIZE)) /\ Cardinality(B \X (1..RX_BUFSIZE)) = (Rx!COUNT + 1) * RX_BUFSIZE
    BY <1>5, <2>1, FS_Product
  <2> QED BY <2>2 DEF RxPlaces, B
<1> DEFINE S == TxBlocks \X (1..CLI_TX_BLOCKSIZE)
           T == {NoBlock} \X (1..TX_BUFSIZE)
<1>8. IsFiniteSet(S) /\ Cardinality(S) = Tx!COUNT * CLI_TX_BLOCKSIZE
  <2>1. IsFiniteSet(1..CLI_TX_BLOCKSIZE) /\ Cardinality(1..CLI_TX_BLOCKSIZE) = CLI_TX_BLOCKSIZE
    BY <1>1, <1>6
  <2> QED BY <1>2, <1>3, <2>1, FS_Product
<1>9. IsFiniteSet(T) /\ Cardinality(T) = 1 * TX_BUFSIZE
  <2>1. IsFiniteSet(1..TX_BUFSIZE) /\ Cardinality(1..TX_BUFSIZE) = TX_BUFSIZE
    BY <1>1, <1>6
  <2>2. IsFiniteSet({NoBlock}) /\ Cardinality({NoBlock}) = 1
    BY FS_Singleton
  <2>3. /\ IsFiniteSet({NoBlock} \X (1..TX_BUFSIZE))
        /\ Cardinality({NoBlock} \X (1..TX_BUFSIZE)) = Cardinality({NoBlock}) * Cardinality(1..TX_BUFSIZE)
    BY ONLY <2>1, <2>2, FS_Product
  <2> QED BY <2>1, <2>2, <2>3
<1> HIDE DEF S, T
<1>10. /\ IsFiniteSet(S \cup T) /\ Cardinality(S \cap T) \in Nat
       /\ Cardinality(S \cup T) = Cardinality(S) + Cardinality(T) - Cardinality(S \cap T)
  BY <1>8, <1>9, FS_Union, FS_Intersection, FS_CardinalityType
<1>11. TxPlaces = S \cup T
  BY DEF TxPlaces, S, T
<1>12. \A m, n \in Nat : m * n \in Nat /\ m * n = n * m /\ (n # 0 => m <= m * n)
  OBVIOUS
<1>13. RxCapacity \in Nat /\ RX_BUFSIZE <= RxCapacity /\ RxCapacity = (Rx!COUNT + 1) * RX_BUFSIZE
  <2>1. Rx!COUNT + 1 \in Nat /\ Rx!COUNT + 1 # 0
    BY <1>4
  <2> QED BY <1>1, <1>12, <2>1 DEF RxCapacity
<1>14. /\ CLI_TX_BLOCKSIZE * Tx!COUNT \in Nat /\ CLI_TX_BLOCKSIZE <= CLI_TX_BLOCKSIZE * Tx!COUNT
       /\ CLI_TX_BLOCKSIZE * Tx!COUNT = Tx!COUNT * CLI_TX_BLOCKSIZE
  BY <1>1, <1>4, <1>12
<1>15. TxCapacity \in Nat /\ TX_BUFSIZE <= TxCapacity /\ CLI_TX_BLOCKSIZE <= TxCapacity
       /\ TxCapacity = Tx!COUNT * CLI_TX_BLOCKSIZE + TX_BUFSIZE
  BY <1>1, <1>14 DEF TxCapacity
<1>16. Cardinality(TxPlaces) <= TxCapacity
  <2>1. Cardinality(S) = Tx!COUNT * CLI_TX_BLOCKSIZE /\ Cardinality(S) \in Nat /\ Cardinality(T) = TX_BUFSIZE
    BY <1>1, <1>8, <1>9, FS_CardinalityType
  <2> QED BY <1>1, <1>10, <1>11, <1>15, <2>1
<1> QED BY <1>4, <1>7, <1>10, <1>11, <1>13, <1>15, <1>16

(* All of the rx direction that the CLI has not been fed is in some place. *)
LEMMA RxInTransit ==
  ASSUME TypeInv, RxSizes, NEW n \in 1..Len(rxQueue) + 3, NEW v \in Bytes(RxStages[n])
  PROVE  \E x \in RxPlaces : RxPlace[x] = v
<1> DEFINE L == Len(rxQueue)
<1>1. L \in Nat /\ RX_BUFSIZE \in Nat /\ CLI_RX_BLOCKSIZE \in Nat /\ RX_BUFSIZE <= CLI_RX_BLOCKSIZE
  BY BlockBytes, SizesType DEF Sizes
<1>2. ASSUME NEW b \in RxBlocks, NEW a \in Nat \ {0}, NEW m \in Nat, m <= RX_BUFSIZE,
             v \in Bytes(SubSeq(rxMem[b], a, m))
      PROVE  \E x \in RxPlaces : RxPlace[x] = v
  <2>1. rxMem[b] \in Seq(Nat) /\ m <= Len(rxMem[b])
    BY <1>1, <1>2, BlockBytes
  <2>2. PICK i \in 1..m : rxMem[b][i] = v
    BY <1>2, <2>1, SpanBytes
  <2>3. i \in 1..RX_BUFSIZE
    BY <1>1, <1>2
  <2>4. <<b, i>> \in RxPlaces /\ b # NoBlock
    BY <2>3, BridgeAssumption DEF RxPlaces
  <2>5. RxPlace[<<b, i>>] = v
    BY <2>2, <2>4 DEF RxPlace
  <2> QED BY <2>4, <2>5
<1>3. Bytes(<< >>) = {}
  BY EmptySeq DEF Bytes
<1>4. n = 1 \/ (n \in 2..L + 1 /\ n - 1 \in 1..L) \/ n = L + 2 \/ n = L + 3
  BY <1>1
<1>5. CASE n = 1
  <2>1. v \in Bytes(CliHand)
    BY <1>1, <1>5, RxStagesAt
  <2>2. cliPc = "chars" /\ cliBlk # NoBlock /\ v \in Bytes(SubSeq(rxMem[cliBlk], cliPos + 1, cliLen))
    BY <1>3, <2>1 DEF CliHand, Span
  <2>3. /\ cliBlk \in RxBlocks /\ cliPos \in 0..cliLen
        /\ cliLen \in 0..CLI_RX_BLOCKSIZE /\ cliLen <= RX_BUFSIZE
    BY <2>2 DEF TypeInv, TypeOK, RxSizes
  <2>4. cliPos + 1 \in Nat \ {0} /\ cliLen \in Nat
    BY <1>1, <2>3
  <2> QED BY <1>2, <2>2, <2>3, <2>4
<1>6. CASE n \in 2..L + 1 /\ n - 1 \in 1..L
  <2> DEFINE p == rxQueue[n - 1]
  <2>1. v \in Bytes(SubSeq(rxMem[p.data], 1, p.size))
    BY <1>1, <1>6, RxStagesAt DEF Queued, Span
  <2>2. p.data \in RxBlocks /\ p.size \in 0..CLI_RX_BLOCKSIZE /\ p.size <= RX_BUFSIZE
    BY <1>6, BlockBytes DEF RxSizes
  <2>3. p.size \in Nat /\ 1 \in Nat \ {0}
    BY <1>1, <2>2
  <2> QED BY <1>2, <2>1, <2>2, <2>3
<1>7. CASE n = L + 2
  <2>1. v \in Bytes(CdcRxHand)
    BY <1>1, <1>7, RxStagesAt
  <2>2. cdcPc = "send" /\ v \in Bytes(SubSeq(rxMem[cdcBlk], 1, cdcLen))
    BY <1>3, <2>1 DEF CdcRxHand, Span
  <2>3. cdcBlk \in RxBlocks /\ cdcLen \in 1..RX_BUFSIZE
    BY <2>2 DEF TypeInv, TypeOK
  <2>4. cdcLen \in Nat /\ cdcLen <= RX_BUFSIZE /\ 1 \in Nat \ {0}
    BY <1>1, <2>3
  <2> QED BY <1>2, <2>2, <2>3, <2>4
<1>8. CASE n = L + 3
  <2>1. v \in Bytes(usbRx)
    BY <1>1, <1>8, RxStagesAt
  <2>2. PICK i \in 1..Len(usbRx) : usbRx[i] = v
    BY <2>1 DEF Bytes
  <2>3. Len(usbRx) \in Nat /\ Len(usbRx) <= RX_BUFSIZE
    BY BridgeNumbers DEF TypeInv, TypeOK
  <2>4. i \in 1..RX_BUFSIZE
    BY <1>1, <2>3
  <2>5. <<NoBlock, i>> \in RxPlaces
    BY <2>4 DEF RxPlaces
  <2>6. RxPlace[<<NoBlock, i>>] = v
    BY <2>2, <2>5 DEF RxPlace
  <2> QED BY <2>5, <2>6
<1> QED BY <1>4, <1>5, <1>6, <1>7, <1>8

(* The same for the tx direction.                                          *)
LEMMA TxInTransit ==
  ASSUME TypeInv, NEW n \in 1..Len(txQueue) + 2, NEW v \in Bytes(TxStages[n])
  PROVE  \E x \in TxPlaces : TxPlace[x] = v
<1> DEFINE L == Len(txQueue)
<1>1. L \in Nat /\ TX_BUFSIZE \in Nat /\ CLI_TX_BLOCKSIZE \in Nat
  BY BlockBytes, SizesType DEF Sizes
<1>2. ASSUME NEW b \in TxBlocks, NEW a \in Nat \ {0}, NEW m \in Nat, m <= CLI_TX_BLOCKSIZE,
             v \in Bytes(SubSeq(txMem[b], a, m))
      PROVE  \E x \in TxPlaces : TxPlace[x] = v
  <2>1. txMem[b] \in Seq(Nat) /\ m <= Len(txMem[b])
    BY <1>1, <1>2, BlockBytes
  <2>2. PICK i \in 1..m : txMem[b][i] = v
    BY <1>2, <2>1, SpanBytes
  <2>3. i \in 1..CLI_TX_BLOCKSIZE
    BY <1>1, <1>2
  <2>4. <<b, i>> \in TxPlaces /\ b # NoBlock
    BY <2>3, BridgeAssumption DEF TxPlaces
  <2>5. TxPlace[<<b, i>>] = v
    BY <2>2, <2>4 DEF TxPlace
  <2> QED BY <2>4, <2>5
<1>3. Bytes(<< >>) = {}
  BY EmptySeq DEF Bytes
<1>4. n = 1 \/ n = 2 \/ (n \in 3..L + 2 /\ n - 2 \in 1..L)
  BY <1>1
<1>5. CASE n = 1
  <2>1. v \in Bytes(usbTx)
    BY <1>1, <1>5, TxStagesAt
  <2>2. PICK i \in 1..Len(usbTx) : usbTx[i] = v
    BY <2>1 DEF Bytes
  <2>3. Len(usbTx) \in Nat /\ Len(usbTx) <= TX_BUFSIZE
    BY BridgeNumbers DEF TypeInv, TypeOK
  <2>4. i \in 1..TX_BUFSIZE
    BY <1>1, <2>3
  <2>5. <<NoBlock, i>> \in TxPlaces
    BY <2>4 DEF TxPlaces
  <2>6. TxPlace[<<NoBlock, i>>] = v
    BY <2>2, <2>5 DEF TxPlace
  <2> QED BY <2>5, <2>6
<1>6. CASE n = 2
  <2>1. v \in Bytes(CdcTxHand)
    BY <1>1, <1>6, TxStagesAt
  <2>2. cdcPc = "write" /\ v \in Bytes(SubSeq(txMem[cdcBlk], cdcSent + 1, cdcLen))
    BY <1>3, <2>1 DEF CdcTxHand, Span
  <2>3. cdcBlk \in TxBlocks /\ cdcLen \in Nat /\ cdcLen <= CLI_TX_BLOCKSIZE /\ cdcSent \in Nat
    BY <2>2, BridgeNumbers DEF TypeInv, TypeOK
  <2>4. cdcSent + 1 \in Nat \ {0}
    BY <2>3
  <2> QED BY <1>2, <2>2, <2>3, <2>4
<1>7. CASE n \in 3..L + 2 /\ n - 2 \in 1..L
  <2> DEFINE p == txQueue[n - 2]
  <2>1. v \in Bytes(SubSeq(txMem[p.data], 1, p.size))
    BY <1>1, <1>7, TxStagesAt DEF Queued, Span
  <2>2. p.data \in TxBlocks /\ p.size \in 0..CLI_TX_BLOCKSIZE
    BY <1>7, BlockBytes
  <2>3. p.size \in Nat /\ p.size <= CLI_TX_BLOCKSIZE /\ 1 \in Nat \ {0}
    BY <1>1, <2>2
  <2> QED BY <1>2, <2>1, <2>2, <2>3
<1> QED BY <1>4, <1>5, <1>6, <1>7

-----------------------------------------------------------------------------
(* What the invariant says of the two ends of each channel.                *)
RxExact ==
  /\ \A i \in 1..Len(consumed) : consumed[i] = i
  /\ Len(consumed) <= hostSent /\ hostSent <= Len(consumed) + RxCapacity

TxExact ==
  /\ \A i \in 1..Len(hostGot) : hostGot[i] = i
  /\ Len(hostGot) <= written /\ written <= Len(hostGot) + TxCapacity

(* A complete chain whose stages behind the first have places for K bytes  *)
(* has at most K bytes that have not arrived.                              *)
LEMMA FewInTransit ==
  ASSUME NEW f, NEW N \in Nat, NEW b \in Nat, Chain(f, N, b), Complete(f, N, b),
         NEW S, IsFiniteSet(S), NEW h,
         \A n \in 1..N : \A v \in Bytes(f[n]) : \E x \in S : h[x] = v
  PROVE  b <= Len(f[0]) + Cardinality(S)
<1> DEFINE c == Len(f[0])
<1>1. \A i \in 1..c : f[0][i] = i
  BY ArrivedExactly
<1>2. c \in Nat
  BY 0 \in 0..N, LenProperties DEF Chain
<1>3. \A v \in c + 1..b : \E x \in S : h[x] = v
  <2> SUFFICES ASSUME NEW v \in c + 1..b PROVE \E x \in S : h[x] = v
    OBVIOUS
  <2>1. v \in 1..b /\ v \notin 1..c
    BY <1>2
  <2>2. PICK n \in 0..N : v \in Bytes(f[n])
    BY <2>1 DEF Complete
  <2>3. n # 0
    <3>1. \A i \in 1..c : f[0][i] # v
      BY <1>1, <2>1
    <3> QED BY <2>2, <3>1 DEF Bytes
  <2>4. n \in 1..N
    BY <2>3
  <2> QED BY <2>2, <2>4
<1> HIDE DEF c
<1>4. b <= c + Cardinality(S)
  BY ONLY <1>2, <1>3, b \in Nat, IsFiniteSet(S), NoMoreThanPlaces
<1> QED BY <1>4 DEF c

(* The rx direction, before a reset or a replay.                           *)
LEMMA RxIsExact == LosslessInv /\ resets = 0 /\ ~replayed => RxExact
<1> SUFFICES ASSUME LosslessInv, resets = 0, ~replayed PROVE RxExact
  OBVIOUS
<1> DEFINE N == Len(rxQueue) + 3
<1>1. TypeInv /\ RxSizes /\ Chain(RxStages, N, hostSent) /\ Complete(RxStages, N, hostSent)
  BY DEF LosslessInv, OrderInv, BridgeInv, RxChained, NoShortRead, RxComplete, RxAll
<1>2. N \in Nat /\ hostSent \in Nat /\ RxStages[0] = consumed
  BY <1>1, BlockBytes, BridgeNumbers, RxStagesAt
<1>3. \A n \in 1..N : \A v \in Bytes(RxStages[n]) : \E x \in RxPlaces : RxPlace[x] = v
  BY <1>1, RxInTransit
<1>4. IsFiniteSet(RxPlaces) /\ Cardinality(RxPlaces) = RxCapacity
  BY CountPlaces
<1> HIDE DEF N
<1>5. (\A i \in 1..Len(RxStages[0]) : RxStages[0][i] = i) /\ Len(RxStages[0]) <= hostSent
  BY ONLY <1>1, <1>2, ArrivedExactly
<1>6. hostSent <= Len(RxStages[0]) + Cardinality(RxPlaces)
  BY ONLY <1>1, <1>2, <1>3, <1>4, FewInTransit
<1> QED BY <1>2, <1>4, <1>5, <1>6 DEF RxExact

(* The tx direction, before a reset.                                       *)
LEMMA TxIsExact == LosslessInv /\ resets = 0 => TxExact
<1> SUFFICES ASSUME LosslessInv, resets = 0 PROVE TxExact
  OBVIOUS
<1> DEFINE N == Len(txQueue) + 2
<1>1. TypeInv /\ Chain(TxStages, N, written) /\ Complete(TxStages, N, written)
  BY DEF LosslessInv, OrderInv, BridgeInv, TxChained, TxComplete, TxAll
<1>2. N \in Nat /\ written \in Nat /\ TxStages[0] = hostGot /\ hostGot \in Seq(Nat)
  BY <1>1, BlockBytes, BridgeNumbers, TxStagesAt DEF TypeInv, TypeOK
<1>3. \A n \in 1..N : \A v \in Bytes(TxStages[n]) : \E x \in TxPlaces : TxPlace[x] = v
  BY <1>1, TxInTransit
<1>4. IsFiniteSet(TxPlaces) /\ Cardinality(TxPlaces) <= TxCapacity /\ TxCapacity \in Nat
      /\ Cardinality(TxPlaces) \in Nat /\ Len(hostGot) \in Nat
  BY <1>2, CountPlaces, FS_CardinalityType, LenProperties
<1> HIDE DEF N
<1>5. (\A i \in 1..Len(TxStages[0]) : TxStages[0][i] = i) /\ Len(TxStages[0]) <= written
  BY ONLY <1>1, <1>2, ArrivedExactly
<1>6. written <= Len(TxStages[0]) + Cardinality(TxPlaces)
  <2>1. IsFiniteSet(TxPlaces)
    BY <1>4
  <2> QED BY ONLY <1>1, <1>2, <1>3, <2>1, FewInTransit
<1>7. written <= Len(hostGot) + TxCapacity
  BY <1>2, <1>4, <1>6
<1> QED BY <1>2, <1>5, <1>7 DEF TxExact

-----------------------------------------------------------------------------
(* The invariant is inductive.                                             *)

(* A reset is never forgotten.                                             *)
LEMMA ResetsStay == TypeInv /\ [Next]_vars /\ resets' = 0 => resets = 0
<1> SUFFICES ASSUME TypeInv, [Next]_vars, resets' = 0 PROVE resets = 0
  OBVIOUS
<1>1. resets \in Nat
  BY DEF TypeInv, TypeOK
<1>2. resets' = resets \/ resets' = resets + 1
  BY DEF Next, Usb, Cdc, Cli, cli_write_char, Report, Tick, vars, HostSend, HostCollect, BusReset,
       CdcRxCheck, CdcRxDone, CdcNoBlock, CdcRxRead, CdcRxSend, CdcTxReceive, CdcTxWrite,
       CdcTxRelease, CdcPassEnd, CliInit, CliReceive, CliReceiveTimeout, CliReceiveChar,
       CliRelease, CliWrite, CliGetBuffer, CliNoBuffer, CliSend, CliPassEnd,
       rxVars, txVars, cdcVars, inVars, outVars, cliVars, hostVars
<1> QED BY <1>1, <1>2

(* Only blocks filled from the FIFO enter the rx queue.                    *)
LEMMA RxSizesStep == TypeInv /\ RxSizes /\ [Next]_vars => RxSizes'
<1> SUFFICES ASSUME TypeInv, RxSizes, [Next]_vars PROVE RxSizes'
  OBVIOUS
<1>1. CASE CdcRxSend
  <2> DEFINE L == Len(rxQueue)
             last == [data |-> cdcBlk, size |-> cdcLen]
  <2>1. /\ cdcPc = "send" /\ cliLen' = cliLen
        /\ rxQueue' = rxQueue \/ rxQueue' = Append(rxQueue, last)
    BY <1>1 DEF CdcRxSend, Rx!send_or_drop, cliVars, inVars
  <2>2. cdcBlk \in RxBlocks /\ cdcLen \in 0..CLI_RX_BLOCKSIZE /\ cdcLen <= RX_BUFSIZE
    <3>1. cdcBlk \in RxBlocks /\ cdcLen \in 1..RX_BUFSIZE /\ RX_BUFSIZE \in Nat
      BY <2>1, BridgeNumbers DEF TypeInv, TypeOK
    <3> QED BY <2>1, <3>1, BridgeNumbers
  <2>3. CASE rxQueue' = rxQueue
    BY <2>1, <2>3 DEF RxSizes
  <2>4. CASE rxQueue' = Append(rxQueue, last)
    <3>1. rxQueue \in Seq(Rx!block_pointer) /\ last \in Rx!block_pointer
      BY <2>2 DEF TypeInv, TypeOK, Rx!TypeOK, Rx!block_pointer
    <3>2. Len(rxQueue') = L + 1 /\ (\A i \in 1..L : rxQueue'[i] = rxQueue[i]) /\ rxQueue'[L + 1] = last
      BY ONLY <2>4, <3>1, AppendProperties
    <3>3. L \in Nat
      BY BlockBytes
    <3>4. \A i \in 1..L + 1 : i \in 1..L \/ i = L + 1
      BY <3>3
    <3>5. \A i \in 1..L + 1 : rxQueue'[i].size <= RX_BUFSIZE
      BY <2>2, <3>2, <3>4 DEF RxSizes
    <3> QED BY <2>1, <3>2, <3>5 DEF RxSizes
  <2> QED BY <2>1, <2>3, <2>4
<1>2. ASSUME NEW p \in Rx!block_pointer, CliReceive(p) PROVE RxSizes'
  <2>1. rxQueue # << >> /\ p = Head(rxQueue) /\ rxQueue' = Tail(rxQueue) /\ cliLen' = p.size
    BY <1>2 DEF CliReceive, Rx!receive, Rx!empty
  <2>2. rxQueue \in Seq(Rx!block_pointer) /\ Len(rxQueue) \in Nat
    BY BlockBytes DEF TypeInv, TypeOK, Rx!TypeOK
  <2>3. Len(rxQueue') = Len(rxQueue) - 1 /\ \A i \in 1..Len(rxQueue') : rxQueue'[i] = rxQueue[i + 1]
    BY <2>1, <2>2, HeadTailProperties
  <2>4. Len(rxQueue) \in Nat \ {0} /\ p = rxQueue[1]
    BY <2>1, <2>2, EmptySeq
  <2>5. 1 \in 1..Len(rxQueue) /\ \A i \in 1..Len(rxQueue') : i + 1 \in 1..Len(rxQueue)
    BY <2>3, <2>4
  <2> QED BY <2>1, <2>3, <2>4, <2>5 DEF RxSizes
<1>3. CASE UNCHANGED <<cliLen, rxQueue>>
  BY <1>3 DEF RxSizes
<1>4. \/ UNCHANGED <<cliLen, rxQueue>> \/ CdcRxSend
      \/ \E p \in Rx!block_pointer : CliReceive(p)
  BY DEF Next, Usb, Cdc, Cli, cli_write_char, Report, Tick, vars, HostSend, HostCollect, BusReset,
       CdcRxCheck, CdcRxDone, CdcNoBlock, CdcRxRead, CdcTxReceive, CdcTxWrite,
       CdcTxRelease, CdcPassEnd, CliInit, CliReceiveTimeout, CliReceiveChar,
       CliRelease, CliWrite, CliGetBuffer, CliNoBuffer, CliSend, CliPassEnd,
       rxVars, txVars, cdcVars, inVars, outVars, cliVars, hostVars
<1> QED BY <1>1, <1>2, <1>3, <1>4

(* Between the count and the read of usb/cdc the host only adds bytes, and *)
(* nobody but a bus reset takes any.                                       *)
LEMMA CountStep ==
  TypeInv /\ [Next]_vars => (CountStale' => CountStale \/ BusReset)
<1> SUFFICES ASSUME TypeInv, [Next]_vars, CountStale', ~BusReset PROVE CountStale
  OBVIOUS
<1>1. usbRx \in Seq(Nat) /\ Len(usbRx) \in Nat /\ (cdcPc = "get" => cdcLen \in Nat \ {0})
  BY BridgeNumbers
<1>2. cdcPc' = "get" /\ cdcLen' > Len(usbRx')
  BY DEF CountStale
<1>3. ASSUME UNCHANGED usbRx, cdcPc = "get", cdcLen' = cdcLen PROVE CountStale
  BY <1>2, <1>3 DEF CountStale
<1>4. ASSUME NEW k \in 1..RX_BUFSIZE, HostSend(k) PROVE CountStale
  <2>1. /\ usbRx' = usbRx \o [i \in 1..k |-> hostSent + i]
        /\ UNCHANGED <<cdcPc, cdcLen>>
    BY <1>4 DEF HostSend, cdcVars
  <2>2. hostSent \in Nat /\ k \in Nat
    BY BridgeNumbers
  <2>3. [i \in 1..k |-> hostSent + i] \in Seq(Nat) /\ Len([i \in 1..k |-> hostSent + i]) = k
    BY <2>2, CountUpType
  <2>4. Len(usbRx') = Len(usbRx) + k
    BY <1>1, <2>1, <2>3, ConcatProperties
  <2> QED BY <1>1, <1>2, <2>1, <2>2, <2>4 DEF CountStale
<1>5. ASSUME CdcRxCheck PROVE CountStale
  BY <1>1, <1>2, <1>5 DEF CdcRxCheck
<1>6. ASSUME NEW b \in RxBlocks, CdcRxRead(b) PROVE CountStale
  BY <1>2, <1>6 DEF CdcRxRead
<1>7. ASSUME \/ CdcRxDone \/ CdcNoBlock \/ CdcRxSend \/ CdcTxWrite \/ CdcTxRelease \/ CdcPassEnd
             \/ Cli \/ Tick \/ UNCHANGED vars
             \/ \E n \in 1..TX_BUFSIZE : HostCollect(n)
             \/ \E p \in Tx!block_pointer : CdcTxReceive(p)
      PROVE  CountStale
  <2>1. UNCHANGED usbRx /\ cdcPc = "get" /\ cdcLen' = cdcLen
    BY <1>2, <1>7 DEF Cli, cli_write_char, Report, Tick, vars, HostCollect,
       CdcRxDone, CdcNoBlock, CdcRxSend, CdcTxReceive, CdcTxWrite,
       CdcTxRelease, CdcPassEnd, CliInit, CliReceive, CliReceiveTimeout, CliReceiveChar,
       CliRelease, CliWrite, CliGetBuffer, CliNoBuffer, CliSend, CliPassEnd,
       rxVars, txVars, cdcVars, inVars, outVars, cliVars, hostVars
  <2> QED BY <1>3, <2>1
<1> QED BY <1>4, <1>5, <1>6, <1>7 DEF Next, Usb, Cdc

(* The count of usb/cdc goes stale by a bus reset only, for all sizes,     *)
(* bounds and interleavings, timeouts and replayed blocks included.        *)
THEOREM StaleAlwaysByReset == Spec => StaleOnlyByReset
<1>1. BridgeInv /\ [Next]_vars => [CountStale' => CountStale \/ BusReset]_vars
  BY CountStep DEF BridgeInv
<1> QED BY BridgeInvariant, <1>1, PTL DEF Spec, StaleOnlyByReset

(* So without resets no read comes out short.                              *)
LEMMA NoShortReadStep == TypeInv /\ NoShortRead /\ [Next]_vars => NoShortRead'
<1> SUFFICES ASSUME TypeInv, NoShortRead, [Next]_vars, resets' = 0
             PROVE  ~shortRead' /\ (cdcPc' = "get" => cdcLen' <= Len(usbRx'))
  BY DEF NoShortRead
<1>1. resets = 0 /\ ~shortRead /\ (cdcPc = "get" => cdcLen <= Len(usbRx))
  BY ResetsStay DEF NoShortRead
<1>2. usbRx \in Seq(Nat) /\ Len(usbRx) \in Nat /\ (cdcPc = "get" => cdcLen \in Nat \ {0})
  BY BridgeNumbers
<1>3. cdcPc' = "get" => cdcLen' <= Len(usbRx')
  <2>1. TypeInv' /\ ~BusReset /\ ~CountStale
    BY <1>1, <1>2, TypeStep DEF BusReset, CountStale
  <2>2. ~CountStale'
    BY <2>1, CountStep
  <2>3. (cdcPc' = "get" => cdcLen' \in Nat) /\ Len(usbRx') \in Nat
    <3>1. (cdcPc' = "get" => cdcLen' \in 1..RX_BUFSIZE) /\ usbRx' \in Seq(Nat)
      BY <2>1 DEF TypeInv, TypeOK
    <3> QED BY <3>1, LenProperties, BridgeNumbers
  <2> QED BY <2>2, <2>3 DEF CountStale
<1>4. ASSUME NEW b \in RxBlocks, CdcRxRead(b) PROVE ~shortRead'
  <2>1. Smaller(cdcLen, Len(usbRx)) = cdcLen /\ cdcPc = "get"
    BY <1>1, <1>2, <1>4 DEF Smaller, CdcRxRead
  <2> DEFINE e == Smaller(cdcLen, Len(usbRx)) < cdcLen
  <2>2. ~e
    BY <1>2, <2>1
  <2>3. shortRead' = (shortRead \/ e)
    BY <1>4 DEF CdcRxRead
  <2> HIDE DEF e
  <2> QED BY <1>1, <2>2, <2>3, Zenon
<1>5. UNCHANGED shortRead \/ \E b \in RxBlocks : CdcRxRead(b)
  BY DEF Next, Usb, Cdc, Cli, cli_write_char, Report, Tick, vars, HostSend, HostCollect, BusReset,
       CdcRxCheck, CdcRxDone, CdcNoBlock, CdcRxSend, CdcTxReceive, CdcTxWrite,
       CdcTxRelease, CdcPassEnd, CliInit, CliReceive, CliReceiveTimeout, CliReceiveChar,
       CliRelease, CliWrite, CliGetBuffer, CliNoBuffer, CliSend, CliPassEnd
<1> QED BY <1>1, <1>3, <1>4, <1>5

(* Initially nothing is missing.                                           *)
LEMMA LosslessInit == Init => RxSizes /\ NoShortRead /\ RxComplete /\ TxComplete
<1> SUFFICES ASSUME Init PROVE RxSizes /\ NoShortRead /\ RxComplete /\ TxComplete
  OBVIOUS
<1>1. /\ rxQueue = << >> /\ txQueue = << >> /\ Len(<< >>) = 0 /\ usbRx = << >> /\ usbTx = << >>
      /\ cdcPc = "rx" /\ cliPc = "init" /\ consumed = << >> /\ hostGot = << >>
      /\ hostSent = 0 /\ written = 0 /\ cliLen = 0 /\ ~shortRead
  BY EmptySeq DEF Init, Rx!Init, Tx!Init
<1>2. CliHand = << >> /\ CdcRxHand = << >> /\ CdcTxHand = << >>
  BY <1>1 DEF CliHand, CdcRxHand, CdcTxHand
<1>3. \A f, N : (\A n \in 0..N : f[n] = << >>) => Complete(f, N, 0)
  <2> SUFFICES ASSUME NEW f, NEW N, \A n \in 0..N : f[n] = << >> PROVE Complete(f, N, 0)
    OBVIOUS
  <2>1. Bytes(<< >>) = {} /\ 1..0 = {}
    BY <1>1 DEF Bytes
  <2> QED BY <2>1 DEF Complete
<1>4. \A n \in 0..Len(rxQueue) + 3 : RxStages[n] = << >>
  <2>1. \A n \in 0..3 : n <= 1 => n = 0 \/ n = 1
    OBVIOUS
  <2> QED BY <1>1, <1>2, <2>1 DEF RxStages
<1>5. \A n \in 0..Len(txQueue) + 2 : TxStages[n] = << >>
  BY <1>1, <1>2 DEF TxStages
<1>6. RxSizes /\ NoShortRead
  BY <1>1, BridgeNumbers, SizesType DEF RxSizes, NoShortRead, Sizes
<1> QED BY <1>1, <1>3, <1>4, <1>5, <1>6 DEF RxComplete, TxComplete, RxAll, TxAll

(* The inductive invariant holds in every reachable state.                 *)
LEMMA LosslessInvariant == Spec => []LosslessInv
<1>1. Init => LosslessInv
  BY BridgeInit, OrderInit, LosslessInit DEF LosslessInv, OrderInv
<1>2. LosslessInv /\ [Next]_vars => LosslessInv'
  <2> SUFFICES ASSUME LosslessInv, [Next]_vars PROVE LosslessInv'
    OBVIOUS
  <2>1. OrderInv /\ BridgeInv /\ TypeInv /\ RxChained /\ TxChained /\ TxInv
    BY DEF LosslessInv, OrderInv, BridgeInv
  <2>2. BridgeInv' /\ TypeInv'
    BY <2>1, BridgeStep DEF BridgeInv
  <2>3. RxChained' /\ (resets' = 0 /\ ~replayed' /\ ~shortRead' /\ RxAll => RxAll')
    BY <2>1, RxChainedStep
  <2>4. TxChained' /\ (resets' = 0 /\ TxAll => TxAll')
    BY <2>1, <2>2, TxChainedStep
  <2>5. RxSizes' /\ NoShortRead'
    BY <2>1, RxSizesStep, NoShortReadStep DEF LosslessInv
  <2>6. resets' = 0 => resets = 0
    BY <2>1, ResetsStay
  <2>7. ~replayed' => ~replayed
    BY ReplayedStays
  <2>8. RxComplete'
    BY <2>3, <2>5, <2>6, <2>7 DEF LosslessInv, RxComplete, NoShortRead
  <2>9. TxComplete'
    BY <2>4, <2>6 DEF LosslessInv, TxComplete
  <2> QED BY <2>2, <2>3, <2>4, <2>5, <2>8, <2>9 DEF LosslessInv, OrderInv
<1> QED BY <1>1, <1>2, PTL DEF Spec

-----------------------------------------------------------------------------
(* The steps of the two channels.                                          *)

(* What arrives continues the count.                                       *)
LEMMA NextBytes ==
  ASSUME NEW s \in Seq(Nat), NEW y \in Seq(Nat),
         \A i \in 1..Len(s \o y) : (s \o y)[i] = i
  PROVE  y = [i \in 1..Len(y) |-> Len(s) + i]
<1>1. /\ Len(s) \in Nat /\ Len(y) \in Nat
      /\ \A j \in 1..Len(y) : Len(s) + j \in 1..Len(s \o y) /\ (s \o y)[Len(s) + j] = y[j]
  BY ConcatElements
<1>2. \A j \in 1..Len(y) : y[j] = Len(s) + j
  BY <1>1
<1> DEFINE t == [i \in 1..Len(y) |-> Len(s) + i]
<1>3. t \in Seq(Nat) /\ Len(t) = Len(y) /\ \A i \in 1..Len(y) : t[i] = Len(s) + i
  BY <1>1, CountUpType
<1> HIDE DEF t
<1>4. y = t
  BY <1>2, <1>3, SeqEqual
<1> QED BY <1>4 DEF t

(* A step is one of the rx channel, or leaves both its ends alone.         *)
LEMMA RxChannelStep ==
  ASSUME LosslessInv, LosslessInv', [Next]_vars, resets' = 0, ~replayed'
  PROVE  RxChannel!Next \/ UNCHANGED <<hostSent, consumed>>
<1>1. TypeInv /\ TypeInv'
  BY DEF LosslessInv, OrderInv, BridgeInv
<1>2. RxExact /\ RxExact'
  <2>1. (LosslessInv /\ resets = 0 /\ ~replayed => RxExact)'
    BY RxIsExact, PTL
  <2>2. resets = 0 /\ ~replayed
    BY <1>1, ResetsStay, ReplayedStays
  <2> QED BY <2>1, <2>2, RxIsExact
<1>3. /\ RxCapacity \in Nat /\ RX_BUFSIZE <= RxCapacity /\ RX_BUFSIZE \in Nat \ {0}
      /\ hostSent \in Nat /\ hostSent' \in Nat /\ consumed \in Seq(Nat) /\ Len(consumed) \in Nat
  BY <1>1, CountPlaces, SizesType, LenProperties DEF Sizes, TypeInv, TypeOK
<1>4. ASSUME NEW k \in 1..RX_BUFSIZE, HostSend(k) PROVE RxChannel!Next
  <2>1. hostSent' = hostSent + k /\ consumed' = consumed
    BY <1>4 DEF HostSend, cliVars, inVars
  <2>2. hostSent' <= Len(consumed') + RxCapacity
    BY <1>2 DEF RxExact, RxCapacity
  <2>3. hostSent + k <= Len(consumed) + RxCapacity
    BY <2>1, <2>2
  <2>4. k \in 1..RxCapacity
    BY <1>3
  <2>5. RxChannel!Put(k)
    BY <2>1, <2>3 DEF RxChannel!Put, RxCapacity
  <2> QED BY <2>4, <2>5 DEF RxChannel!Next, RxCapacity
<1>5. ASSUME CliReceiveChar PROVE RxChannel!Next
  <2> DEFINE c == rxMem[cliBlk][cliPos + 1]
             y == <<c>>
  <2>1. consumed' = Append(consumed, c) /\ hostSent' = hostSent
    BY <1>5 DEF CliReceiveChar, hostVars
  <2>2. c \in Nat
    <3>1. cliLen \in 0..CLI_RX_BLOCKSIZE /\ cliPos \in 0..cliLen /\ CLI_RX_BLOCKSIZE \in Nat
          /\ (cliBlk = NoBlock => cliLen = 0) /\ cliBlk \in RxBlocks \cup {NoBlock} /\ cliPos < cliLen
      BY <1>1, <1>5, SizesType DEF CliReceiveChar, TypeInv, TypeOK, Sizes
    <3>2. cliBlk \in RxBlocks /\ cliPos + 1 \in 1..CLI_RX_BLOCKSIZE
      BY <3>1
    <3>3. rxMem[cliBlk] \in Seq(Nat) /\ cliPos + 1 \in 1..Len(rxMem[cliBlk])
      BY <1>1, <3>2, BlockBytes
    <3> QED BY <3>3, ElementOfSeq
  <2> HIDE DEF c
  <2>3. y \in Seq(Nat) /\ Len(y) = 1 /\ consumed' = consumed \o y
    BY <1>3, <2>1, <2>2, AppendIsConcat
  <2> HIDE DEF y
  <2>4. /\ \A i \in 1..Len(consumed \o y) : (consumed \o y)[i] = i
        /\ Len(consumed \o y) <= hostSent
    BY <1>2, <2>1, <2>3 DEF RxExact
  <2>5. y = [i \in 1..Len(y) |-> Len(consumed) + i] /\ Len(consumed \o y) = Len(consumed) + Len(y)
    BY <1>3, <2>3, <2>4, NextBytes, ConcatElements
  <2>6. Len(consumed) + 1 <= hostSent /\ consumed' = consumed \o [i \in 1..1 |-> Len(consumed) + i]
    BY <2>3, <2>4, <2>5
  <2>7. RxChannel!Deliver(1) /\ 1 \in 1..RxCapacity
    BY <1>3, <2>1, <2>6 DEF RxChannel!Deliver
  <2> QED BY <2>7 DEF RxChannel!Next, RxCapacity
<1>6. \/ UNCHANGED <<hostSent, consumed>> \/ CliReceiveChar
      \/ \E k \in 1..RX_BUFSIZE : HostSend(k)
  BY DEF Next, Usb, Cdc, Cli, cli_write_char, Report, Tick, vars, HostCollect, BusReset,
       CdcRxCheck, CdcRxDone, CdcNoBlock, CdcRxRead, CdcRxSend, CdcTxReceive, CdcTxWrite,
       CdcTxRelease, CdcPassEnd, CliInit, CliReceive, CliReceiveTimeout,
       CliRelease, CliWrite, CliGetBuffer, CliNoBuffer, CliSend, CliPassEnd,
       rxVars, txVars, cdcVars, inVars, outVars, cliVars, hostVars
<1> QED BY <1>4, <1>5, <1>6

(* A step is one of the tx channel, or leaves both its ends alone.         *)
LEMMA TxChannelStep ==
  ASSUME LosslessInv, LosslessInv', [Next]_vars, resets' = 0
  PROVE  TxChannel!Next \/ UNCHANGED <<written, hostGot>>
<1>1. TypeInv /\ TypeInv'
  BY DEF LosslessInv, OrderInv, BridgeInv
<1>2. TxExact /\ TxExact'
  <2>1. (LosslessInv /\ resets = 0 => TxExact)'
    BY TxIsExact, PTL
  <2>2. resets = 0
    BY <1>1, ResetsStay
  <2> QED BY <2>1, <2>2, TxIsExact
<1>3. /\ TxCapacity \in Nat /\ TX_BUFSIZE <= TxCapacity /\ CLI_TX_BLOCKSIZE <= TxCapacity
      /\ TX_BUFSIZE \in Nat /\ CLI_TX_BLOCKSIZE \in Nat
      /\ written \in Nat /\ written' \in Nat /\ hostGot \in Seq(Nat) /\ Len(hostGot) \in Nat
  BY <1>1, CountPlaces, SizesType, LenProperties DEF Sizes, TypeInv, TypeOK
<1>4. ASSUME CliSend PROVE TxChannel!Next
  <2>1. written' = written + outLen /\ hostGot' = hostGot
    BY <1>4 DEF CliSend, hostVars
  <2>2. outLen \in 1..outSize /\ outSize \in 0..CLI_TX_BLOCKSIZE
    BY <1>1, <1>4 DEF CliSend, CliAt, TypeInv, TypeOK
  <2>3. written' <= Len(hostGot') + TxCapacity
    BY <1>2 DEF TxExact, TxCapacity
  <2>4. written + outLen <= Len(hostGot) + TxCapacity
    BY <2>1, <2>3
  <2>5. outLen \in 1..TxCapacity
    BY <1>3, <2>2
  <2>6. TxChannel!Put(outLen)
    BY <2>1, <2>4 DEF TxChannel!Put, TxCapacity
  <2> QED BY <2>5, <2>6 DEF TxChannel!Next, TxCapacity
<1>5. ASSUME NEW n \in 1..TX_BUFSIZE, HostCollect(n) PROVE TxChannel!Next
  <2> DEFINE y == SubSeq(usbTx, 1, n)
  <2>1. hostGot' = hostGot \o y /\ written' = written
    BY <1>5 DEF HostCollect, cliVars, outVars
  <2>2. y \in Seq(Nat) /\ Len(y) = n /\ n \in Nat
    <3>1. usbTx \in Seq(Nat) /\ n \in Nat /\ n <= Len(usbTx)
      BY <1>1, <1>5, BridgeNumbers DEF HostCollect
    <3>2. SubSeq(usbTx, 1, n) \in Seq(Nat) /\ Len(SubSeq(usbTx, 1, n)) = n
      BY ONLY <3>1, CutPrefix
    <3> QED BY <3>1, <3>2
  <2> HIDE DEF y
  <2>3. /\ \A i \in 1..Len(hostGot \o y) : (hostGot \o y)[i] = i
        /\ Len(hostGot \o y) <= written
    BY <1>2, <2>1 DEF TxExact
  <2>4. y = [i \in 1..Len(y) |-> Len(hostGot) + i] /\ Len(hostGot \o y) = Len(hostGot) + Len(y)
    BY <1>3, <2>2, <2>3, NextBytes, ConcatElements
  <2>5. Len(hostGot) + n <= written /\ hostGot' = hostGot \o [i \in 1..n |-> Len(hostGot) + i]
    BY <2>1, <2>2, <2>3, <2>4
  <2>6. TxChannel!Deliver(n) /\ n \in 1..TxCapacity
    BY <1>3, <2>1, <2>5 DEF TxChannel!Deliver
  <2> QED BY <2>6 DEF TxChannel!Next, TxCapacity
<1>6. \/ UNCHANGED <<written, hostGot>> \/ CliSend
      \/ \E n \in 1..TX_BUFSIZE : HostCollect(n)
  BY DEF Next, Usb, Cdc, Cli, cli_write_char, Report, Tick, vars, HostSend, BusReset,
       CdcRxCheck, CdcRxDone, CdcNoBlock, CdcRxRead, CdcRxSend, CdcTxReceive, CdcTxWrite,
       CdcTxRelease, CdcPassEnd, CliInit, CliReceive, CliReceiveTimeout, CliReceiveChar,
       CliRelease, CliWrite, CliGetBuffer, CliNoBuffer, CliPassEnd,
       rxVars, txVars, cdcVars, inVars, outVars, cliVars, hostVars
<1> QED BY <1>4, <1>5, <1>6

-----------------------------------------------------------------------------
(* The host's bytes reach the CLI exactly as they were sent, and the host  *)
(* is held back when the FIFO and the blocks are full, until the first bus *)
(* reset or replay: every step until then is one of ByteChannel.           *)
THEOREM RxLosslessUntilFault ==
  Spec => RxChannel!Init /\ [][RxChannel!Next \/ resets' > 0 \/ replayed']_<<hostSent, consumed>>
<1>1. Init => RxChannel!Init
  BY DEF Init, RxChannel!Init
<1>2. LosslessInv /\ LosslessInv' /\ [Next]_vars
        => [RxChannel!Next \/ resets' > 0 \/ replayed']_<<hostSent, consumed>>
  <2> SUFFICES ASSUME LosslessInv, LosslessInv', [Next]_vars, ~(resets' > 0), ~replayed'
               PROVE  RxChannel!Next \/ UNCHANGED <<hostSent, consumed>>
    OBVIOUS
  <2>1. resets' = 0
    <3>1. resets' \in Nat
      BY DEF LosslessInv, OrderInv, BridgeInv, TypeInv, TypeOK
    <3> QED BY <3>1
  <2> QED BY <2>1, RxChannelStep
<1> QED BY <1>1, <1>2, LosslessInvariant, PTL DEF Spec

(* What the CLI writes reaches the host exactly, and the cli task is held  *)
(* back when the blocks and the FIFO are full, until the first bus reset,  *)
(* whatever times out.                                                     *)
THEOREM TxLosslessUntilReset ==
  Spec => TxChannel!Init /\ [][TxChannel!Next \/ resets' > 0]_<<written, hostGot>>
<1>1. Init => TxChannel!Init
  BY DEF Init, TxChannel!Init
<1>2. LosslessInv /\ LosslessInv' /\ [Next]_vars
        => [TxChannel!Next \/ resets' > 0]_<<written, hostGot>>
  <2> SUFFICES ASSUME LosslessInv, LosslessInv', [Next]_vars, ~(resets' > 0)
               PROVE  TxChannel!Next \/ UNCHANGED <<written, hostGot>>
    OBVIOUS
  <2>1. resets' = 0
    <3>1. resets' \in Nat
      BY DEF LosslessInv, OrderInv, BridgeInv, TypeInv, TypeOK
    <3> QED BY <3>1
  <2> QED BY <2>1, TxChannelStep
<1> QED BY <1>1, <1>2, LosslessInvariant, PTL DEF Spec

(* The bounds of the runs on resets and timeouts, and what they mean.      *)
FaultBounds ==
  /\ resets <= MaxResets /\ timeouts <= MaxTimeouts
  /\ timeouts = 0 => ~replayed

(* They hold in every reachable state.                                     *)
LEMMA FaultsBounded == Spec => [](TypeInv /\ FaultBounds)
<1>1. Init => TypeInv /\ FaultBounds
  BY TypeInit, BridgeAssumption DEF Init, FaultBounds
<1>2. TypeInv /\ FaultBounds /\ [Next]_vars => TypeInv' /\ FaultBounds'
  <2> SUFFICES ASSUME TypeInv, FaultBounds, [Next]_vars PROVE FaultBounds'
    BY TypeStep
  <2>1. resets \in Nat /\ timeouts \in Nat /\ MaxResets \in Nat /\ MaxTimeouts \in Nat
    BY BridgeAssumption DEF TypeInv, TypeOK
  <2>2. \/ UNCHANGED <<resets, timeouts, replayed>>
        \/ resets < MaxResets /\ resets' = resets + 1 /\ UNCHANGED <<timeouts, replayed>>
        \/ timeouts < MaxTimeouts /\ timeouts' = timeouts + 1 /\ UNCHANGED resets
    BY DEF Next, Usb, Cdc, Cli, cli_write_char, Report, Tick, vars, HostSend, HostCollect, BusReset,
       CdcRxCheck, CdcRxDone, CdcNoBlock, CdcRxRead, CdcRxSend, CdcTxReceive, CdcTxWrite,
       CdcTxRelease, CdcPassEnd, CliInit, CliReceive, CliReceiveTimeout, CliReceiveChar,
       CliRelease, CliWrite, CliGetBuffer, CliNoBuffer, CliSend, CliPassEnd,
       rxVars, txVars, cdcVars, inVars, outVars, cliVars, hostVars
  <2> QED BY <2>1, <2>2 DEF FaultBounds
<1> QED BY <1>1, <1>2, PTL DEF Spec

(* Without resets and timeouts the rx direction is a lossless channel of   *)
(* the capacity of its blocks and its FIFO.                                *)
THEOREM RxIsLossless == MaxResets = 0 /\ MaxTimeouts = 0 /\ Spec => RxLossless
<1> SUFFICES ASSUME MaxResets = 0, MaxTimeouts = 0 PROVE Spec => RxLossless
  OBVIOUS
<1>1. TypeInv' /\ FaultBounds' => ~(resets' > 0) /\ ~replayed'
  BY DEF FaultBounds, TypeInv, TypeOK
<1>2. (TypeInv /\ FaultBounds)' /\ [RxChannel!Next \/ resets' > 0 \/ replayed']_<<hostSent, consumed>>
        => [RxChannel!Next]_<<hostSent, consumed>>
  BY <1>1
<1>3. Spec => RxChannel!Init /\ [][RxChannel!Next]_<<hostSent, consumed>>
  BY <1>2, FaultsBounded, RxLosslessUntilFault, PTL
<1> QED BY <1>3 DEF RxLossless, RxChannel!Spec, RxChannel!vars

(* Without resets the tx direction is a lossless channel of the capacity   *)
(* of its blocks and its FIFO.                                             *)
THEOREM TxIsLossless == MaxResets = 0 /\ Spec => TxLossless
<1> SUFFICES ASSUME MaxResets = 0 PROVE Spec => TxLossless
  OBVIOUS
<1>1. TypeInv' /\ FaultBounds' => ~(resets' > 0)
  BY DEF FaultBounds, TypeInv, TypeOK
<1>2. (TypeInv /\ FaultBounds)' /\ [TxChannel!Next \/ resets' > 0]_<<written, hostGot>>
        => [TxChannel!Next]_<<written, hostGot>>
  BY <1>1
<1>3. Spec => TxChannel!Init /\ [][TxChannel!Next]_<<written, hostGot>>
  BY <1>2, FaultsBounded, TxLosslessUntilReset, PTL
<1> QED BY <1>3 DEF TxLossless, TxChannel!Spec, TxChannel!vars
=============================================================================

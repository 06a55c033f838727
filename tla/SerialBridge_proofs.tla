------------------------ MODULE SerialBridge_proofs ------------------------
(***************************************************************************)
(* The safety of the data path for any number and size of blocks and       *)
(* FIFOs and without the bounds of the runs on writes, bytes, timeouts and *)
(* resets.                                                                 *)
(***************************************************************************)
EXTENDS SerialBridge, FiniteSetTheorems, SequenceTheorems, TLAPS

(* TypeOK is not inductive: CliReceive takes a new length and keeps the    *)
(* position, which is back at the start only because the loop over the     *)
(* previous block was finished.                                            *)
AtStart == cliPc # "chars" => cliPos = 0

TypeInv == TypeOK /\ AtStart

Sizes == {CLI_RX_BLOCKSIZE, CLI_TX_BLOCKSIZE, RX_BUFSIZE, TX_BUFSIZE,
          BannerSize, ReportSize}

-----------------------------------------------------------------------------
(* A part of a sequence of numbers is one, of the expected length.         *)
LEMMA SubSeqOfNat ==
  ASSUME NEW q \in Seq(Nat), NEW m \in Nat \ {0}, NEW n \in Nat, n <= Len(q)
  PROVE  /\ SubSeq(q, m, n) \in Seq(Nat)
         /\ Len(SubSeq(q, m, n)) = IF m <= n THEN n - m + 1 ELSE 0
<1>1. q \in [1..Len(q) -> Nat] /\ Len(q) \in Nat
  BY LenProperties
<1>2. \A i \in m..n : i \in 1..Len(q)
  BY <1>1
<1>3. \A i \in m..n : q[i] \in Nat
  BY <1>1, <1>2
<1>4. m \in Int /\ n \in Int
  OBVIOUS
<1>5. QED
  BY <1>3, <1>4, SubSeqProperties

(* What is left after n of them were taken is no longer than before.       *)
LEMMA RestOfNat ==
  ASSUME NEW q \in Seq(Nat), NEW n \in Nat
  PROVE  /\ SubSeq(q, n + 1, Len(q)) \in Seq(Nat)
         /\ Len(SubSeq(q, n + 1, Len(q))) <= Len(q)
<1>1. n + 1 \in Nat \ {0} /\ Len(q) \in Nat
  BY LenProperties
<1>2. QED
  BY <1>1, SubSeqOfNat

(* Writing data over the start of a block leaves a block.                  *)
LEMMA FilledType ==
  ASSUME NEW size \in Nat, NEW old \in [1..size -> Nat], NEW data \in Seq(Nat)
  PROVE  Filled(old, data) \in [1..size -> Nat]
<1>1. Len(data) \in Nat /\ \A i \in 1..Len(data) : data[i] \in Nat
  BY LenProperties
<1>2. QED
  BY <1>1 DEF Filled

(* Counting up from a number gives a sequence of numbers.                  *)
LEMMA CountUpType ==
  ASSUME NEW k \in Nat, NEW n \in Nat
  PROVE  /\ [i \in 1..n |-> k + i] \in Seq(Nat)
         /\ Len([i \in 1..n |-> k + i]) = n
<1>1. [i \in 1..n |-> k + i] \in [1..n -> Nat]
  OBVIOUS
<1>2. QED
  BY <1>1

(* The lesser of two numbers.                                              *)
LEMMA SmallerType ==
  ASSUME NEW a \in Int, NEW b \in Int
  PROVE  /\ Smaller(a, b) \in {a, b}
         /\ Smaller(a, b) <= a
         /\ Smaller(a, b) <= b
BY DEF Smaller

(* What one call of tud_cdc_n_write moves stays within the block and the   *)
(* FIFO.                                                                   *)
LEMMA WrittenPart ==
  ASSUME NEW size \in Nat, NEW row \in [1..size -> Nat],
         NEW fifo \in Seq(Nat), NEW room \in Nat,
         NEW sent \in Nat, NEW len \in Nat, len <= size,
         NEW n \in Nat \ {0}, n = Smaller(room - Len(fifo), len - sent)
  PROVE  /\ fifo \o SubSeq(row, sent + 1, sent + n) \in Seq(Nat)
         /\ Len(fifo \o SubSeq(row, sent + 1, sent + n)) <= room
         /\ sent + n <= len
<1>1. row \in Seq(Nat) /\ Len(row) = size /\ Len(fifo) \in Nat
  BY LenProperties
<1>2. n <= room - Len(fifo) /\ n <= len - sent
  BY <1>1, SmallerType
<1>3. sent + 1 \in Nat \ {0} /\ sent + n \in Nat /\ sent + n <= Len(row)
  BY <1>1, <1>2
<1>4. /\ SubSeq(row, sent + 1, sent + n) \in Seq(Nat)
      /\ Len(SubSeq(row, sent + 1, sent + n)) = IF sent + 1 <= sent + n THEN (sent + n) - (sent + 1) + 1 ELSE 0
  BY <1>1, <1>3, SubSeqOfNat
<1>5. Len(SubSeq(row, sent + 1, sent + n)) = n
  BY <1>4
<1>6. /\ fifo \o SubSeq(row, sent + 1, sent + n) \in Seq(Nat)
      /\ Len(fifo \o SubSeq(row, sent + 1, sent + n)) = Len(fifo) + n
  BY <1>4, <1>5, ConcatProperties
<1>7. Len(fifo) + n <= room /\ sent + n <= len
  <2> HIDE DEF Smaller
  <2>1. n \in Nat /\ room \in Nat /\ Len(fifo) \in Nat /\ sent \in Nat /\ len \in Nat
    BY <1>1
  <2>2. QED
    BY ONLY <1>2, <2>1
<1>8. QED
  BY <1>6, <1>7

(* What tud_cdc_n_read takes and what it leaves.                           *)
LEMMA ReadPart ==
  ASSUME NEW fifo \in Seq(Nat), NEW len \in Nat,
         NEW n, n = Smaller(len, Len(fifo))
  PROVE  /\ SubSeq(fifo, 1, n) \in Seq(Nat)
         /\ SubSeq(fifo, n + 1, Len(fifo)) \in Seq(Nat)
         /\ Len(SubSeq(fifo, n + 1, Len(fifo))) <= Len(fifo)
<1>1. Len(fifo) \in Nat
  BY LenProperties
<1>2. n \in Nat /\ n <= Len(fifo)
  BY <1>1, SmallerType
<1>3. SubSeq(fifo, 1, n) \in Seq(Nat)
  <2>1. 1 \in Nat \ {0}
    OBVIOUS
  <2>2. QED
    BY ONLY <1>2, <2>1, fifo \in Seq(Nat), SubSeqOfNat
<1>4. /\ SubSeq(fifo, n + 1, Len(fifo)) \in Seq(Nat)
      /\ Len(SubSeq(fifo, n + 1, Len(fifo))) <= Len(fifo)
  BY ONLY <1>2, fifo \in Seq(Nat), RestOfNat
<1>5. QED
  BY <1>3, <1>4

(* The constants are positive, and spans fit blocks.                       *)
LEMMA SizesType ==
  /\ \A s \in Sizes : s \in Nat \ {0}
  /\ RX_BUFSIZE <= CLI_RX_BLOCKSIZE
  /\ BannerSize <= CLI_TX_BLOCKSIZE
  /\ ReportSize <= CLI_TX_BLOCKSIZE
BY BridgeAssumption DEF Sizes

-----------------------------------------------------------------------------
(* The invariant by the part of the state that each conjunct is about.     *)
RxT == Rx!TypeOK /\ rxMem \in [RxBlocks -> [1..CLI_RX_BLOCKSIZE -> Nat]]

TxT == Tx!TypeOK /\ txMem \in [TxBlocks -> [1..CLI_TX_BLOCKSIZE -> Nat]]

UsbT ==
  /\ usbRx \in Seq(Nat) /\ Len(usbRx) <= RX_BUFSIZE
  /\ usbTx \in Seq(Nat) /\ Len(usbTx) <= TX_BUFSIZE

CdcT ==
  /\ cdcPc \in {"rx", "get", "send", "tx", "write", "delay"}
  /\ cdcPc = "send" => cdcBlk \in RxBlocks
  /\ cdcPc = "write" => cdcBlk \in TxBlocks
  /\ cdcPc \in {"get", "send"} => cdcLen \in 1..RX_BUFSIZE
  /\ cdcPc = "write" => cdcLen \in 0..CLI_TX_BLOCKSIZE
  /\ cdcSent \in 0..CLI_TX_BLOCKSIZE /\ (cdcPc = "write" => cdcSent <= cdcLen)

InT ==
  /\ cliBlk \in RxBlocks \cup {NoBlock}
  /\ cliLen \in 0..CLI_RX_BLOCKSIZE /\ (cliBlk = NoBlock => cliLen = 0)
  /\ cliPos \in 0..cliLen
  /\ AtStart

OutT ==
  /\ cliPc \in {"init", "recv", "chars", "process", "getbuf", "bufdelay", "send", "delay"}
  /\ outSize \in 0..CLI_TX_BLOCKSIZE
  /\ cliPc = "send" => outBlk \in TxBlocks /\ outLen \in 1..outSize

CountT ==
  /\ todo \in Nat /\ hostSent \in Nat /\ written \in Nat
  /\ consumed \in Seq(Nat) /\ hostGot \in Seq(Nat)
  /\ timeouts \in Nat /\ resets \in Nat

FlagT == cliReady \in BOOLEAN /\ replayed \in BOOLEAN /\ shortRead \in BOOLEAN

(* The parts are the whole.                                                *)
LEMMA TypeParts ==
  /\ TypeInv <=> RxT /\ TxT /\ UsbT /\ CdcT /\ InT /\ OutT /\ CountT /\ FlagT
  /\ (TypeInv <=> RxT /\ TxT /\ UsbT /\ CdcT /\ InT /\ OutT /\ CountT /\ FlagT)'
BY DEF TypeInv, TypeOK, RxT, TxT, UsbT, CdcT, InT, OutT, CountT, FlagT

(* A part whose variables do not change keeps its type.                    *)
LEMMA TypeFrame ==
  /\ RxT /\ UNCHANGED rxVars => RxT'
  /\ TxT /\ UNCHANGED txVars => TxT'
  /\ UsbT /\ UNCHANGED <<usbRx, usbTx>> => UsbT'
  /\ CdcT /\ UNCHANGED cdcVars => CdcT'
  /\ InT /\ UNCHANGED <<cliBlk, cliLen, cliPos, cliPc>> => InT'
  /\ OutT /\ UNCHANGED <<cliPc, outBlk, outSize, outLen>> => OutT'
  /\ CountT /\ UNCHANGED <<todo, hostSent, written, consumed, hostGot, timeouts, resets>>
       => CountT'
  /\ FlagT /\ UNCHANGED <<cliReady, replayed, shortRead>> => FlagT'
<1>1. RxT /\ UNCHANGED rxVars => RxT'
  BY DEF RxT, rxVars, Rx!TypeOK
<1>2. TxT /\ UNCHANGED txVars => TxT'
  BY DEF TxT, txVars, Tx!TypeOK
<1>3. UsbT /\ UNCHANGED <<usbRx, usbTx>> => UsbT'
  BY DEF UsbT
<1>4. CdcT /\ UNCHANGED cdcVars => CdcT'
  BY DEF CdcT, cdcVars
<1>5. InT /\ UNCHANGED <<cliBlk, cliLen, cliPos, cliPc>> => InT'
  BY DEF InT, AtStart
<1>6. OutT /\ UNCHANGED <<cliPc, outBlk, outSize, outLen>> => OutT'
  BY DEF OutT
<1>7. CountT /\ UNCHANGED <<todo, hostSent, written, consumed, hostGot, timeouts, resets>>
        => CountT'
  BY DEF CountT
<1>8. FlagT /\ UNCHANGED <<cliReady, replayed, shortRead>> => FlagT'
  BY DEF FlagT
<1>9. QED
  BY <1>1, <1>2, <1>3, <1>4, <1>5, <1>6, <1>7, <1>8

-----------------------------------------------------------------------------
(* The invariant holds initially.                                          *)
LEMMA TypeInit == Init => TypeInv
<1> SUFFICES ASSUME Init PROVE TypeInv
  OBVIOUS
<1>1. << >> \in Seq(Rx!block_pointer) /\ << >> \in Seq(Tx!block_pointer)
      /\ << >> \in Seq(Nat) /\ Len(<< >>) = 0
  BY EmptySeq
<1>2. 0 <= RX_BUFSIZE /\ 0 <= TX_BUFSIZE
      /\ 0 \in 0..CLI_RX_BLOCKSIZE /\ 0 \in 0..CLI_TX_BLOCKSIZE
  BY SizesType DEF Sizes
<1>3. RxT
  BY <1>1 DEF Init, Zeroed, RxT, Rx!Init, Rx!TypeOK
<1>4. TxT
  BY <1>1 DEF Init, Zeroed, TxT, Tx!Init, Tx!TypeOK
<1>5. UsbT
  BY <1>1, <1>2 DEF Init, UsbT
<1>6. CdcT
  BY <1>2 DEF Init, CdcT
<1>7. InT
  BY <1>2 DEF Init, InT, AtStart
<1>8. OutT
  BY <1>2 DEF Init, OutT
<1>9. CountT
  BY <1>1 DEF Init, CountT
<1>10. FlagT
  BY DEF Init, FlagT
<1>11. QED
  BY <1>3, <1>4, <1>5, <1>6, <1>7, <1>8, <1>9, <1>10, TypeParts

(* The host and the device stack.                                          *)
LEMMA UsbTypeStep == TypeInv /\ Usb => TypeInv'
<1> USE DEF cliVars, inVars, outVars, hostVars
<1> SUFFICES ASSUME TypeInv, Usb PROVE TypeInv'
  OBVIOUS
<1>a. RxT /\ TxT /\ UsbT /\ CdcT /\ InT /\ OutT /\ CountT /\ FlagT
  BY TypeParts
<1>1. ASSUME NEW n \in 1..RX_BUFSIZE, HostSend(n) PROVE TypeInv'
  <2>1. n \in Nat /\ Len(usbRx) \in Nat /\ usbRx \in Seq(Nat) /\ hostSent \in Nat
    BY <1>a, SizesType, LenProperties DEF Sizes, UsbT, CountT
  <2> DEFINE packet == [i \in 1..n |-> hostSent + i]
  <2>p. packet \in Seq(Nat) /\ Len(packet) = n
    BY <2>1, CountUpType
  <2>q. usbRx' = usbRx \o packet
    BY <1>1 DEF HostSend
  <2>2. usbRx' \in Seq(Nat) /\ Len(usbRx') = Len(usbRx) + n
    <3> HIDE DEF packet
    <3>1. QED
      BY <2>1, <2>p, <2>q, ConcatProperties
  <2>3. Len(usbRx') <= RX_BUFSIZE
    BY <1>1, <2>1, <2>2, SizesType DEF HostSend, Sizes
  <2>4. UsbT'
    BY <1>1, <1>a, <2>2, <2>3 DEF HostSend, UsbT
  <2>5. CountT'
    BY <1>1, <1>a, <2>1 DEF HostSend, CountT
  <2>6. RxT' /\ TxT' /\ CdcT' /\ InT' /\ OutT' /\ FlagT'
    BY <1>1, <1>a, TypeFrame DEF HostSend
  <2>7. QED
    BY <2>4, <2>5, <2>6, TypeParts
<1>2. ASSUME NEW n \in 1..TX_BUFSIZE, HostCollect(n) PROVE TypeInv'
  <2>1. n \in Nat /\ n <= Len(usbTx) /\ Len(usbTx) \in Nat /\ usbTx \in Seq(Nat)
    BY <1>2, <1>a, SizesType, LenProperties DEF Sizes, HostCollect, UsbT
  <2>2. SubSeq(usbTx, 1, n) \in Seq(Nat)
    BY <2>1, SubSeqOfNat
  <2>3. usbTx' \in Seq(Nat) /\ Len(usbTx') <= Len(usbTx)
    BY <1>2, <2>1, RestOfNat DEF HostCollect
  <2>4. hostGot' \in Seq(Nat)
    BY <1>2, <1>a, <2>2, ConcatProperties DEF HostCollect, CountT
  <2>5. Len(usbTx') <= TX_BUFSIZE
    BY <1>a, <2>1, <2>3, SizesType, LenProperties DEF Sizes, UsbT
  <2>6. UsbT'
    BY <1>2, <1>a, <2>3, <2>5 DEF HostCollect, UsbT
  <2>7. CountT'
    BY <1>2, <1>a, <2>4 DEF HostCollect, CountT
  <2>8. RxT' /\ TxT' /\ CdcT' /\ InT' /\ OutT' /\ FlagT'
    BY <1>2, <1>a, TypeFrame DEF HostCollect
  <2>9. QED
    BY <2>6, <2>7, <2>8, TypeParts
<1>3. ASSUME BusReset PROVE TypeInv'
  <2>1. << >> \in Seq(Nat) /\ Len(<< >>) = 0
    BY EmptySeq
  <2>2. UsbT'
    BY <1>3, <2>1, SizesType DEF BusReset, Sizes, UsbT
  <2>3. CountT'
    BY <1>3, <1>a DEF BusReset, CountT
  <2>4. RxT' /\ TxT' /\ CdcT' /\ InT' /\ OutT' /\ FlagT'
    BY <1>3, <1>a, TypeFrame DEF BusReset
  <2>5. QED
    BY <2>2, <2>3, <2>4, TypeParts
<1>4. QED
  BY <1>1, <1>2, <1>3 DEF Usb

(* The usb/cdc task.                                                       *)
LEMMA CdcTypeStep == TypeInv /\ Cdc => TypeInv'
<1> USE DEF cliVars, inVars, outVars, hostVars
<1> SUFFICES ASSUME TypeInv, Cdc PROVE TypeInv'
  OBVIOUS
<1>a. RxT /\ TxT /\ UsbT /\ CdcT /\ InT /\ OutT /\ CountT /\ FlagT
  BY TypeParts
<1>b. ASSUME UNCHANGED cliVars, UNCHANGED hostVars PROVE InT' /\ OutT' /\ CountT'
  BY <1>a, <1>b, TypeFrame
<1>c. ASSUME UNCHANGED <<rxVars, txVars, usbRx, usbTx>>,
             UNCHANGED cliVars, UNCHANGED hostVars, UNCHANGED shortRead, CdcT'
      PROVE  TypeInv'
  BY <1>a, <1>b, <1>c, TypeFrame, TypeParts
<1>1. CASE CdcRxCheck
  <2>1. Len(usbRx) \in 1..RX_BUFSIZE
    BY <1>1, <1>a, EmptySeq, SizesType DEF CdcRxCheck, Sizes, UsbT
  <2>2. CdcT'
    BY <1>1, <1>a, <2>1 DEF CdcRxCheck, CdcT
  <2>3. QED
    BY <1>1, <1>c, <2>2 DEF CdcRxCheck
<1>2. CASE CdcRxDone
  <2>1. CdcT'
    BY <1>2, <1>a DEF CdcRxDone, CdcT
  <2>2. QED
    BY <1>2, <1>c, <2>1 DEF CdcRxDone
<1>3. CASE CdcNoBlock
  <2>1. CdcT'
    BY <1>3, <1>a DEF CdcNoBlock, CdcT
  <2>2. QED
    BY <1>3, <1>c, <2>1 DEF CdcNoBlock
<1>4. ASSUME NEW b \in RxBlocks, CdcRxRead(b) PROVE TypeInv'
  <2> DEFINE n == Smaller(cdcLen, Len(usbRx))
  <2>1. cdcLen \in Nat /\ Len(usbRx) \in Nat /\ usbRx \in Seq(Nat)
    BY <1>4, <1>a, SizesType, LenProperties DEF CdcRxRead, Sizes, CdcT, UsbT
  <2>2. /\ SubSeq(usbRx, 1, n) \in Seq(Nat)
        /\ SubSeq(usbRx, n + 1, Len(usbRx)) \in Seq(Nat)
        /\ Len(SubSeq(usbRx, n + 1, Len(usbRx))) <= Len(usbRx)
    BY <2>1, ReadPart
  <2>3. rxMem \in [RxBlocks -> [1..CLI_RX_BLOCKSIZE -> Nat]] /\ CLI_RX_BLOCKSIZE \in Nat
    BY <1>a, SizesType DEF Sizes, RxT
  <2>4. Filled(rxMem[b], SubSeq(usbRx, 1, n)) \in [1..CLI_RX_BLOCKSIZE -> Nat]
    BY <2>2, <2>3, FilledType
  <2>5. rxMem' = [rxMem EXCEPT ![b] = Filled(rxMem[b], SubSeq(usbRx, 1, n))]
    BY <1>4 DEF CdcRxRead
  <2>6. rxMem' \in [RxBlocks -> [1..CLI_RX_BLOCKSIZE -> Nat]]
    BY <2>3, <2>4, <2>5
  <2>7. rxFree' \in SUBSET RxBlocks /\ rxQueue' = rxQueue
    BY <1>4, <1>a DEF CdcRxRead, Rx!get_block, RxT, Rx!TypeOK
  <2>8. RxT'
    BY <1>a, <2>6, <2>7 DEF RxT, Rx!TypeOK
  <2>9. usbRx' = SubSeq(usbRx, n + 1, Len(usbRx)) /\ usbTx' = usbTx
    BY <1>4 DEF CdcRxRead
  <2>10. usbRx' \in Seq(Nat) /\ Len(usbRx') <= Len(usbRx)
    BY <2>2, <2>9
  <2>11. Len(usbRx') \in Nat /\ RX_BUFSIZE \in Nat /\ Len(usbRx) <= RX_BUFSIZE
    BY <1>a, <2>10, SizesType, LenProperties DEF Sizes, UsbT
  <2>12. UsbT'
    BY <1>a, <2>1, <2>9, <2>10, <2>11 DEF UsbT
  <2>13. CdcT'
    BY <1>4, <1>a DEF CdcRxRead, CdcT
  <2>14. FlagT'
    BY <1>4, <1>a DEF CdcRxRead, FlagT
  <2>15. TxT' /\ InT' /\ OutT' /\ CountT'
    BY <1>4, <1>a, <1>b, TypeFrame DEF CdcRxRead
  <2>16. QED
    BY <2>8, <2>12, <2>13, <2>14, <2>15, TypeParts
<1>5. CASE CdcRxSend
  <2>1. [data |-> cdcBlk, size |-> cdcLen] \in Rx!block_pointer
    BY <1>5, <1>a, SizesType DEF CdcRxSend, Rx!block_pointer, Sizes, CdcT
  <2>2. rxQueue' \in Seq(Rx!block_pointer)
    BY <1>5, <1>a, <2>1, AppendProperties DEF CdcRxSend, Rx!send_or_drop, RxT, Rx!TypeOK
  <2>3. RxT'
    BY <1>5, <1>a, <2>2 DEF CdcRxSend, RxT, Rx!TypeOK
  <2>4. CdcT'
    BY <1>5, <1>a DEF CdcRxSend, CdcT
  <2>5. TxT' /\ UsbT' /\ FlagT' /\ InT' /\ OutT' /\ CountT'
    BY <1>5, <1>a, <1>b, TypeFrame DEF CdcRxSend
  <2>6. QED
    BY <2>3, <2>4, <2>5, TypeParts
<1>6. ASSUME NEW p \in Tx!block_pointer, CdcTxReceive(p) PROVE TypeInv'
  <2>1. txQueue' \in Seq(Tx!block_pointer)
    BY <1>6, <1>a, HeadTailProperties DEF CdcTxReceive, Tx!receive, Tx!empty, TxT, Tx!TypeOK
  <2>2. p.data \in TxBlocks /\ p.size \in 0..CLI_TX_BLOCKSIZE
    BY DEF Tx!block_pointer
  <2>3. TxT'
    BY <1>6, <1>a, <2>1 DEF CdcTxReceive, TxT, Tx!TypeOK
  <2>4. CdcT'
    BY <1>6, <2>2, SizesType DEF CdcTxReceive, CdcT, Sizes
  <2>5. RxT' /\ UsbT' /\ FlagT' /\ InT' /\ OutT' /\ CountT'
    BY <1>6, <1>a, <1>b, TypeFrame DEF CdcTxReceive
  <2>6. QED
    BY <2>3, <2>4, <2>5, TypeParts
<1>7. CASE CdcTxWrite
  <2> DEFINE n == Smaller(TX_BUFSIZE - Len(usbTx), cdcLen - cdcSent)
  <2>1. /\ cdcSent \in Nat /\ cdcLen \in Nat /\ cdcLen <= CLI_TX_BLOCKSIZE
        /\ CLI_TX_BLOCKSIZE \in Nat /\ TX_BUFSIZE \in Nat
    BY <1>7, <1>a, SizesType DEF CdcTxWrite, Sizes, CdcT
  <2>2. usbTx \in Seq(Nat) /\ Len(usbTx) \in Nat /\ Len(usbTx) <= TX_BUFSIZE
    BY <1>a, LenProperties DEF UsbT
  <2>3. txMem[cdcBlk] \in [1..CLI_TX_BLOCKSIZE -> Nat]
    BY <1>7, <1>a DEF CdcTxWrite, CdcT, TxT
  <2>4. n > 0 /\ n \in Int
    BY <1>7, <2>1, <2>2, SmallerType DEF CdcTxWrite
  <2>5. n \in Nat \ {0}
    BY <2>4
  <2>6. /\ usbTx' = usbTx \o SubSeq(txMem[cdcBlk], cdcSent + 1, cdcSent + n)
        /\ cdcSent' = cdcSent + n /\ cdcLen' = cdcLen
    BY <1>7 DEF CdcTxWrite, cdcVars
  <2>7. /\ usbTx' \in Seq(Nat) /\ Len(usbTx') <= TX_BUFSIZE
        /\ cdcSent + n <= cdcLen
    BY <2>1, <2>2, <2>3, <2>5, <2>6, WrittenPart
  <2>8. cdcSent' \in 0..CLI_TX_BLOCKSIZE /\ cdcSent' <= cdcLen'
    BY <2>1, <2>5, <2>6, <2>7
  <2>9. CdcT'
    BY <1>7, <1>a, <2>8 DEF CdcTxWrite, CdcT
  <2>10. UsbT'
    BY <1>7, <1>a, <2>7 DEF CdcTxWrite, UsbT
  <2>11. RxT' /\ TxT' /\ FlagT' /\ InT' /\ OutT' /\ CountT'
    BY <1>7, <1>a, <1>b, TypeFrame DEF CdcTxWrite
  <2>12. QED
    BY <2>9, <2>10, <2>11, TypeParts
<1>8. CASE CdcTxRelease
  <2>1. TxT'
    BY <1>8, <1>a DEF CdcTxRelease, Tx!release, TxT, Tx!TypeOK
  <2>2. CdcT'
    BY <1>8, SizesType DEF CdcTxRelease, CdcT, Sizes
  <2>3. RxT' /\ UsbT' /\ FlagT' /\ InT' /\ OutT' /\ CountT'
    BY <1>8, <1>a, <1>b, TypeFrame DEF CdcTxRelease
  <2>4. QED
    BY <2>1, <2>2, <2>3, TypeParts
<1>9. CASE CdcPassEnd
  <2>1. CdcT'
    BY <1>9, <1>a DEF CdcPassEnd, CdcT
  <2>2. QED
    BY <1>9, <1>c, <2>1 DEF CdcPassEnd
<1>10. QED
  BY <1>1, <1>2, <1>3, <1>4, <1>5, <1>6, <1>7, <1>8, <1>9 DEF Cdc

(* The cli task.                                                           *)
LEMMA CliTypeStep == TypeInv /\ Cli => TypeInv'
<1> USE DEF CliAt, inVars, outVars, hostVars
<1> SUFFICES ASSUME TypeInv, Cli PROVE TypeInv'
  OBVIOUS
<1>a. RxT /\ TxT /\ UsbT /\ CdcT /\ InT /\ OutT /\ CountT /\ FlagT
  BY TypeParts
<1>b. ASSUME UNCHANGED rxVars, UNCHANGED txVars, UNCHANGED <<usbRx, usbTx>>,
             UNCHANGED cdcVars, InT', OutT', CountT', FlagT'
      PROVE  TypeInv'
  BY <1>a, <1>b, TypeFrame, TypeParts
<1>1. CASE CliInit
  <2>1. InT' /\ CountT' /\ FlagT'
    BY <1>1, <1>a DEF CliInit, InT, AtStart, CountT, FlagT
  <2>2. OutT'
    BY <1>1, SizesType DEF CliInit, Sizes, OutT
  <2>3. QED
    BY <1>1, <1>b, <2>1, <2>2 DEF CliInit
<1>2. ASSUME NEW p \in Rx!block_pointer, CliReceive(p) PROVE TypeInv'
  <2>1. rxQueue' \in Seq(Rx!block_pointer)
    BY <1>2, <1>a, HeadTailProperties DEF CliReceive, Rx!receive, Rx!empty, RxT, Rx!TypeOK
  <2>2. RxT'
    BY <1>2, <1>a, <2>1 DEF CliReceive, RxT, Rx!TypeOK
  <2>3. p.data \in RxBlocks /\ p.size \in 0..CLI_RX_BLOCKSIZE /\ NoBlock \notin RxBlocks
    BY BridgeAssumption DEF Rx!block_pointer
  <2>4. cliPos = 0
    BY <1>2, <1>a DEF CliReceive, InT, AtStart
  <2>5. InT'
    BY <1>2, <2>3, <2>4, SizesType DEF CliReceive, InT, AtStart, Sizes
  <2>6. OutT'
    BY <1>2, <1>a DEF CliReceive, OutT
  <2>7. TxT' /\ UsbT' /\ CdcT' /\ CountT' /\ FlagT'
    BY <1>2, <1>a, TypeFrame DEF CliReceive
  <2>8. QED
    BY <2>2, <2>5, <2>6, <2>7, TypeParts
<1>3. CASE CliReceiveTimeout
  <2>1. InT' /\ OutT'
    BY <1>3, <1>a DEF CliReceiveTimeout, InT, AtStart, OutT
  <2>2. CountT'
    BY <1>3, <1>a DEF CliReceiveTimeout, CountT
  <2>3. FlagT'
    BY <1>3, <1>a DEF CliReceiveTimeout, FlagT
  <2>4. QED
    BY <1>3, <1>b, <2>1, <2>2, <2>3 DEF CliReceiveTimeout
<1>4. CASE CliReceiveChar
  <2>1. cliPos \in Nat /\ cliLen \in Nat /\ cliPos < cliLen /\ cliLen <= CLI_RX_BLOCKSIZE
    BY <1>4, <1>a, SizesType DEF CliReceiveChar, Sizes, InT
  <2>2. cliBlk \in RxBlocks
    BY <1>4, <1>a, <2>1 DEF CliReceiveChar, InT
  <2>3. cliPos + 1 \in 1..CLI_RX_BLOCKSIZE
    BY <2>1, SizesType DEF Sizes
  <2>4. rxMem[cliBlk] \in [1..CLI_RX_BLOCKSIZE -> Nat]
    BY <1>a, <2>2 DEF RxT
  <2>5. rxMem[cliBlk][cliPos + 1] \in Nat
    BY <2>3, <2>4
  <2>6. consumed' \in Seq(Nat)
    BY <1>4, <1>a, <2>5, AppendProperties DEF CliReceiveChar, CountT
  <2>7. InT'
    BY <1>4, <1>a, <2>1 DEF CliReceiveChar, InT, AtStart
  <2>8. CountT'
    BY <1>4, <1>a, <2>6 DEF CliReceiveChar, CountT
  <2>9. OutT' /\ FlagT'
    BY <1>4, <1>a DEF CliReceiveChar, OutT, FlagT
  <2>10. QED
    BY <1>4, <1>b, <2>7, <2>8, <2>9 DEF CliReceiveChar
<1>5. ASSUME NEW n \in 0..MaxWrites, CliRelease(n) PROVE TypeInv'
  <2>1. n \in Nat
    BY BridgeAssumption
  <2>2. RxT'
    BY <1>5, <1>a DEF CliRelease, Rx!release, RxT, Rx!TypeOK
  <2>3. InT'
    BY <1>5, <1>a, SizesType DEF CliRelease, InT, AtStart, Sizes
  <2>4. OutT'
    BY <1>5, <1>a DEF CliRelease, OutT
  <2>5. CountT'
    BY <1>5, <1>a, <2>1 DEF CliRelease, CountT
  <2>6. TxT' /\ UsbT' /\ CdcT' /\ FlagT'
    BY <1>5, <1>a, TypeFrame DEF CliRelease
  <2>7. QED
    BY <2>2, <2>3, <2>4, <2>5, <2>6, TypeParts
<1>6. ASSUME NEW size \in {1, ReportSize}, CliWrite(size) PROVE TypeInv'
  <2>1. size \in 0..CLI_TX_BLOCKSIZE
    BY SizesType DEF Sizes
  <2>2. OutT'
    BY <1>6, <2>1 DEF CliWrite, OutT
  <2>3. CountT'
    BY <1>6, <1>a DEF CliWrite, CountT
  <2>4. InT' /\ FlagT'
    BY <1>6, <1>a DEF CliWrite, InT, AtStart, FlagT
  <2>5. QED
    BY <1>6, <1>b, <2>2, <2>3, <2>4 DEF CliWrite
<1>7. ASSUME NEW b \in TxBlocks, NEW len \in 1..outSize, CliGetBuffer(b, len) PROVE TypeInv'
  <2>1. len \in Nat /\ written \in Nat /\ CLI_TX_BLOCKSIZE \in Nat
        /\ txMem \in [TxBlocks -> [1..CLI_TX_BLOCKSIZE -> Nat]]
    BY <1>a, SizesType DEF Sizes, CountT, TxT
  <2> DEFINE text == [i \in 1..len |-> written + i]
  <2>2. text \in Seq(Nat)
    BY <2>1, CountUpType
  <2>3. Filled(txMem[b], text) \in [1..CLI_TX_BLOCKSIZE -> Nat]
    <3> HIDE DEF text
    <3>1. QED
      BY <2>1, <2>2, FilledType
  <2>4. txMem' = [txMem EXCEPT ![b] = Filled(txMem[b], text)]
    BY <1>7 DEF CliGetBuffer
  <2>5. txMem' \in [TxBlocks -> [1..CLI_TX_BLOCKSIZE -> Nat]]
    <3> HIDE DEF text
    <3>1. QED
      BY <2>1, <2>3, <2>4
  <2>6. txFree' \in SUBSET TxBlocks /\ txQueue' = txQueue
    BY <1>7, <1>a DEF CliGetBuffer, Tx!get_block, TxT, Tx!TypeOK
  <2>7. TxT'
    BY <1>a, <2>5, <2>6 DEF TxT, Tx!TypeOK
  <2>8. OutT'
    BY <1>7, <1>a DEF CliGetBuffer, OutT
  <2>9. InT'
    BY <1>7, <1>a DEF CliGetBuffer, InT, AtStart
  <2>10. RxT' /\ UsbT' /\ CdcT' /\ CountT' /\ FlagT'
    BY <1>7, <1>a, TypeFrame DEF CliGetBuffer
  <2>11. QED
    BY <2>7, <2>8, <2>9, <2>10, TypeParts
<1>8. CASE CliNoBuffer
  <2>1. InT' /\ OutT' /\ CountT' /\ FlagT'
    BY <1>8, <1>a DEF CliNoBuffer, InT, AtStart, OutT, CountT, FlagT
  <2>2. QED
    BY <1>8, <1>b, <2>1 DEF CliNoBuffer
<1>9. CASE CliSend
  <2>1. outSize \in Nat /\ outLen \in Nat /\ outSize <= CLI_TX_BLOCKSIZE /\ outLen <= outSize
        /\ outBlk \in TxBlocks
    BY <1>9, <1>a, SizesType DEF CliSend, Sizes, OutT
  <2>2. [data |-> outBlk, size |-> IF outLen < outSize THEN outLen ELSE outSize]
          \in Tx!block_pointer
    BY <2>1, SizesType DEF Tx!block_pointer, Sizes
  <2>3. txQueue' \in Seq(Tx!block_pointer)
    BY <1>9, <1>a, <2>2, AppendProperties DEF CliSend, Tx!send, TxT, Tx!TypeOK
  <2>4. TxT'
    BY <1>9, <1>a, <2>3 DEF CliSend, TxT, Tx!TypeOK
  <2>5. CountT'
    BY <1>9, <1>a, <2>1 DEF CliSend, CountT
  <2>6. OutT'
    BY <1>9, SizesType DEF CliSend, OutT, Sizes
  <2>7. InT'
    BY <1>9, <1>a DEF CliSend, InT, AtStart
  <2>8. FlagT'
    BY <1>9, <1>a DEF CliSend, FlagT
  <2>9. RxT' /\ UsbT' /\ CdcT'
    BY <1>9, <1>a, TypeFrame DEF CliSend
  <2>10. QED
    BY <2>4, <2>5, <2>6, <2>7, <2>8, <2>9, TypeParts
<1>10. CASE CliPassEnd
  <2>1. InT' /\ OutT' /\ CountT' /\ FlagT'
    BY <1>10, <1>a DEF CliPassEnd, InT, AtStart, OutT, CountT, FlagT
  <2>2. QED
    BY <1>10, <1>b, <2>1 DEF CliPassEnd
<1>11. QED
  BY <1>1, <1>2, <1>3, <1>4, <1>5, <1>6, <1>7, <1>8, <1>9, <1>10 DEF Cli, cli_write_char, Report

(* Every step of the host, the tasks and the tick keeps the types.         *)
LEMMA TypeStep == TypeInv /\ [Next]_vars => TypeInv'
<1> USE DEF cliVars, inVars, outVars, hostVars
<1> SUFFICES ASSUME TypeInv, [Next]_vars PROVE TypeInv'
  OBVIOUS
<1>a. RxT /\ TxT /\ UsbT /\ CdcT /\ InT /\ OutT /\ CountT /\ FlagT
  BY TypeParts
<1>1. CASE Tick
  <2>1. CdcT'
    BY <1>1, <1>a DEF Tick, Delayed, CdcT
  <2>2. InT'
    BY <1>1, <1>a DEF Tick, Delayed, InT, AtStart, OutT
  <2>3. OutT'
    BY <1>1, <1>a DEF Tick, Delayed, OutT
  <2>4. RxT' /\ TxT' /\ UsbT' /\ CountT' /\ FlagT'
    BY <1>1, <1>a, TypeFrame DEF Tick
  <2>5. QED
    BY <2>1, <2>2, <2>3, <2>4, TypeParts
<1>2. CASE UNCHANGED vars
  <2>1. RxT' /\ TxT' /\ UsbT' /\ CdcT' /\ InT' /\ OutT' /\ CountT' /\ FlagT'
    BY <1>2, <1>a, TypeFrame DEF vars
  <2>2. QED
    BY <2>1, TypeParts
<1>3. QED
  BY <1>1, <1>2, UsbTypeStep, CdcTypeStep, CliTypeStep DEF Next

(* Every variable keeps its type: no FIFO overflows, no loop runs past the *)
(* end of a span and no span past the end of its block.                    *)
THEOREM TypeCorrect == Spec => []TypeOK
<1>1. Init => TypeInv
  BY TypeInit
<1>2. TypeInv /\ [Next]_vars => TypeInv'
  BY TypeStep
<1>3. TypeInv => TypeOK
  BY DEF TypeInv
<1>4. QED
  BY <1>1, <1>2, <1>3, PTL DEF Spec

-----------------------------------------------------------------------------
(* The tasks use both streams by the protocol of StreamProtocol, so what   *)
(* is proved of the protocol holds of the streams.                         *)

RxPf == INSTANCE StreamProtocol_proofs WITH
          Blocks <- RxBlocks, MAX_BLOCK_SIZE <- CLI_RX_BLOCKSIZE,
          free <- rxFree, queue <- rxQueue, held <- RxHeld
TxPf == INSTANCE StreamProtocol_proofs WITH
          Blocks <- TxBlocks, MAX_BLOCK_SIZE <- CLI_TX_BLOCKSIZE,
          free <- txFree, queue <- txQueue, held <- TxHeld

(* Ownership is a set of blocks: that the two tasks hold different ones,   *)
(* and that a queue had room when usb/cdc looked, is needed beside it.     *)
RxInv == ~replayed => /\ RxP!Ownership
                      /\ cdcPc = "send" /\ cliPc = "chars" => cdcBlk # cliBlk

TxInv == /\ TxP!Ownership
         /\ cdcPc = "write" /\ cliPc = "send" => cdcBlk # outBlk

RoomInv == cdcPc \in {"get", "send"} => ~Rx!full

BridgeInv == TypeInv /\ RxInv /\ TxInv /\ RoomInv

-----------------------------------------------------------------------------
(* Each instance of a module has operators of its own: what is proved in   *)
(* one and used of another is stated here once.                            *)
LEMMA RxInstances ==
  /\ RxPf!StreamAssumption
  /\ Rx!full <=> RxP!full
  /\ RxPf!full <=> RxP!full
  /\ RxP!PTypeOK <=> RxPf!PTypeOK
  /\ RxP!Ownership <=> RxPf!Ownership
<1>1. RxPf!StreamAssumption
  BY BridgeAssumption DEF RxPf!StreamAssumption, RxPf!IsFiniteSet, IsFiniteSet
<1>2. (Rx!full <=> RxP!full) /\ (RxPf!full <=> RxP!full)
  BY DEF Rx!full, RxP!full, RxPf!full, Rx!COUNT, RxP!COUNT, RxPf!COUNT,
         Rx!Cardinality, RxP!Cardinality, RxPf!Cardinality
<1>3. RxP!PTypeOK <=> RxPf!PTypeOK
  BY DEF RxP!PTypeOK, RxPf!PTypeOK, RxP!TypeOK, RxPf!TypeOK,
         RxP!block_pointer, RxPf!block_pointer
<1>4. RxP!Ownership <=> RxPf!Ownership
  BY DEF RxP!Ownership, RxPf!Ownership, RxP!queued, RxPf!queued,
         RxP!QueueInjective, RxPf!QueueInjective
<1>5. QED
  BY <1>1, <1>2, <1>3, <1>4

(* A step of the one copy is a step of the other.                          *)
LEMMA RxSteps == [RxP!Next]_(RxP!vars) => [RxPf!Next]_(RxPf!vars)
BY RxInstances
   DEF RxP!Next, RxP!vars, RxP!GetBlock, RxP!SendNow, RxP!SendWait, RxP!Receive, RxP!Release,
       RxP!get_block, RxP!can_get, RxP!send_or_drop, RxP!send, RxP!receive, RxP!empty,
       RxP!release, RxP!block_pointer,
       RxPf!Next, RxPf!vars, RxPf!GetBlock, RxPf!SendNow, RxPf!SendWait, RxPf!Receive,
       RxPf!Release, RxPf!get_block, RxPf!can_get, RxPf!send_or_drop, RxPf!send, RxPf!receive,
       RxPf!empty, RxPf!release, RxPf!block_pointer

(* The same for the tx stream.                                             *)
LEMMA TxInstances ==
  /\ TxPf!StreamAssumption
  /\ Tx!full <=> TxP!full
  /\ TxPf!full <=> TxP!full
  /\ TxP!PTypeOK <=> TxPf!PTypeOK
  /\ TxP!Ownership <=> TxPf!Ownership
<1>1. TxPf!StreamAssumption
  BY BridgeAssumption DEF TxPf!StreamAssumption, TxPf!IsFiniteSet, IsFiniteSet
<1>2. (Tx!full <=> TxP!full) /\ (TxPf!full <=> TxP!full)
  BY DEF Tx!full, TxP!full, TxPf!full, Tx!COUNT, TxP!COUNT, TxPf!COUNT,
         Tx!Cardinality, TxP!Cardinality, TxPf!Cardinality
<1>3. TxP!PTypeOK <=> TxPf!PTypeOK
  BY DEF TxP!PTypeOK, TxPf!PTypeOK, TxP!TypeOK, TxPf!TypeOK,
         TxP!block_pointer, TxPf!block_pointer
<1>4. TxP!Ownership <=> TxPf!Ownership
  BY DEF TxP!Ownership, TxPf!Ownership, TxP!queued, TxPf!queued,
         TxP!QueueInjective, TxPf!QueueInjective
<1>5. QED
  BY <1>1, <1>2, <1>3, <1>4

(* A step of the one copy is a step of the other.                          *)
LEMMA TxSteps == [TxP!Next]_(TxP!vars) => [TxPf!Next]_(TxPf!vars)
BY TxInstances
   DEF TxP!Next, TxP!vars, TxP!GetBlock, TxP!SendNow, TxP!SendWait, TxP!Receive, TxP!Release,
       TxP!get_block, TxP!can_get, TxP!send_or_drop, TxP!send, TxP!receive, TxP!empty,
       TxP!release, TxP!block_pointer,
       TxPf!Next, TxPf!vars, TxPf!GetBlock, TxPf!SendNow, TxPf!SendWait, TxPf!Receive,
       TxPf!Release, TxPf!get_block, TxPf!can_get, TxPf!send_or_drop, TxPf!send, TxPf!receive,
       TxPf!empty, TxPf!release, TxPf!block_pointer

(* The blocks in the tasks' hands are blocks of the stream.                *)
LEMMA StreamTypes == TypeInv => RxP!PTypeOK /\ TxP!PTypeOK
<1> SUFFICES ASSUME TypeInv PROVE RxP!PTypeOK /\ TxP!PTypeOK
  OBVIOUS
<1> USE DEF TypeInv, TypeOK
<1>1. RxHeld \in SUBSET RxBlocks /\ TxHeld \in SUBSET TxBlocks
  BY DEF RxHeld, TxHeld
<1>2. RxP!TypeOK /\ TxP!TypeOK
  BY DEF Rx!TypeOK, Tx!TypeOK, RxP!TypeOK, TxP!TypeOK, Rx!block_pointer, Tx!block_pointer,
         RxP!block_pointer, TxP!block_pointer
<1>3. QED
  BY <1>1, <1>2 DEF RxP!PTypeOK, TxP!PTypeOK
-----------------------------------------------------------------------------
(* A step of the system is a step of the rx stream's protocol, or leaves   *)
(* the stream alone, or replays a block.                                   *)
LEMMA RxStep ==
  ASSUME TypeInv, RxInv, [Next]_vars, ~replayed'
  PROVE  RxP!Next \/ UNCHANGED <<rxFree, rxQueue, RxHeld>>
<1> DEFINE Goal == RxP!Next \/ UNCHANGED <<rxFree, rxQueue, RxHeld>>
<1> USE DEF rxVars, txVars, cdcVars, inVars, outVars, cliVars, hostVars, CliAt, RxHeld
<1>1. ASSUME NEW b \in RxBlocks, CdcRxRead(b) PROVE Goal
  <2>1. RxHeld' = RxHeld \cup {b}
    BY <1>1 DEF CdcRxRead
  <2>a. cdcLen \in 0..CLI_RX_BLOCKSIZE
    <3>1. cdcPc = "get"
      BY <1>1 DEF CdcRxRead
    <3>2. cdcLen \in 1..RX_BUFSIZE
      BY <3>1 DEF TypeInv, TypeOK
    <3> QED BY <3>2, SizesType DEF Sizes
  <2>b. RxP!get_block(b, cdcLen)
    BY <1>1 DEF CdcRxRead, Rx!get_block, Rx!can_get, RxP!get_block, RxP!can_get
  <2>2. cdcLen \in 0..CLI_RX_BLOCKSIZE /\ RxP!get_block(b, cdcLen)
    BY <2>a, <2>b
  <2>3. RxP!GetBlock(b)
    BY <1>1, <2>1, <2>2 DEF CdcRxRead, RxP!GetBlock
  <2>4. QED
    BY <2>3 DEF RxP!Next
<1>2. CASE CdcRxSend
  <2>1. cdcBlk \in RxBlocks /\ cdcLen \in 0..CLI_RX_BLOCKSIZE
    BY <1>2, SizesType DEF CdcRxSend, TypeInv, TypeOK, Sizes
  <2>2. cliPc = "chars" => cdcBlk # cliBlk
    BY <1>2 DEF CdcRxSend, RxInv
  <2>3. RxHeld' = RxHeld \ {cdcBlk} /\ cdcBlk \in RxHeld
    BY <1>2, <2>2 DEF CdcRxSend
  <2>4. RxP!send_or_drop(cdcBlk, cdcLen)
    BY <1>2, RxInstances DEF CdcRxSend, Rx!send_or_drop, RxP!send_or_drop
  <2>5. RxP!SendNow(cdcBlk)
    BY <1>2, <2>1, <2>3, <2>4 DEF CdcRxSend, RxP!SendNow
  <2>6. QED
    BY <2>1, <2>5 DEF RxP!Next
<1>3. ASSUME NEW p \in Rx!block_pointer, CliReceive(p) PROVE Goal
  <2>1. p \in RxP!block_pointer /\ p.data \in RxBlocks /\ p.data # NoBlock
    BY BridgeAssumption DEF Rx!block_pointer, RxP!block_pointer
  <2>2. RxHeld' = RxHeld \cup {p.data}
    BY <1>3, <2>1 DEF CliReceive
  <2>3. RxP!receive(p)
    BY <1>3 DEF CliReceive, Rx!receive, Rx!empty, RxP!receive, RxP!empty
  <2>4. RxP!Receive
    BY <1>3, <2>1, <2>2, <2>3 DEF CliReceive, RxP!Receive
  <2>5. QED
    BY <2>4 DEF RxP!Next
<1>4. CASE CliReceiveTimeout
  <2>1. cliBlk = NoBlock
    BY <1>4 DEF CliReceiveTimeout
  <2>2. QED
    BY <1>4, <2>1 DEF CliReceiveTimeout
<1>5. ASSUME NEW n \in 0..MaxWrites, CliRelease(n) PROVE Goal
  <2>1. CASE cliBlk = NoBlock
    BY <1>5, <2>1, BridgeAssumption DEF CliRelease, Rx!release
  <2>2. CASE cliBlk # NoBlock
    <3>1. cliBlk \in RxBlocks /\ cliBlk \in RxHeld /\ RxHeld' = RxHeld \ {cliBlk}
      BY <1>5, <2>2 DEF CliRelease, TypeInv, TypeOK
    <3>2. RxP!Release(cliBlk)
      BY <1>5, <3>1 DEF CliRelease, Rx!release, RxP!release, RxP!Release
    <3>3. QED
      BY <3>1, <3>2 DEF RxP!Next
  <2>3. QED
    BY <2>1, <2>2
<1>6. CASE Usb
  BY <1>6 DEF Usb, HostSend, HostCollect, BusReset
<1>7. CASE CdcRxCheck \/ CdcRxDone \/ CdcNoBlock \/ CdcTxWrite \/ CdcTxRelease \/ CdcPassEnd
  BY <1>7 DEF CdcRxCheck, CdcRxDone, CdcNoBlock, CdcTxWrite, CdcTxRelease, CdcPassEnd
<1>8. ASSUME NEW p \in Tx!block_pointer, CdcTxReceive(p) PROVE Goal
  BY <1>8 DEF CdcTxReceive
<1>9. CASE CliInit \/ CliReceiveChar \/ CliNoBuffer \/ CliSend \/ CliPassEnd
  BY <1>9 DEF CliInit, CliReceiveChar, CliNoBuffer, CliSend, CliPassEnd
<1>10. ASSUME NEW size \in {1, ReportSize}, CliWrite(size) PROVE Goal
  BY <1>10 DEF CliWrite
<1>11. ASSUME NEW b \in TxBlocks, NEW len \in 1..outSize, CliGetBuffer(b, len) PROVE Goal
  BY <1>11 DEF CliGetBuffer
<1>12. CASE Tick
  BY <1>12 DEF Tick
<1>13. CASE UNCHANGED vars
  BY <1>13 DEF vars
<1>14. QED
  BY <1>1, <1>2, <1>3, <1>4, <1>5, <1>6, <1>7, <1>8, <1>9, <1>10, <1>11, <1>12, <1>13
     DEF Next, Cdc, Cli, cli_write_char, Report

(* A step of the system is a step of the tx stream's protocol, or leaves   *)
(* the stream alone.                                                       *)
LEMMA TxStep ==
  ASSUME TypeInv, TxInv, [Next]_vars
  PROVE  TxP!Next \/ UNCHANGED <<txFree, txQueue, TxHeld>>
<1> DEFINE Goal == TxP!Next \/ UNCHANGED <<txFree, txQueue, TxHeld>>
<1> USE DEF rxVars, txVars, cdcVars, inVars, outVars, cliVars, hostVars, CliAt, TxHeld
<1>1. ASSUME NEW b \in TxBlocks, NEW len \in 1..outSize, CliGetBuffer(b, len) PROVE Goal
  <2>1. TxHeld' = TxHeld \cup {b}
    BY <1>1 DEF CliGetBuffer
  <2>2. outSize \in 0..CLI_TX_BLOCKSIZE /\ TxP!get_block(b, outSize)
    BY <1>1 DEF CliGetBuffer, Tx!get_block, Tx!can_get, TxP!get_block, TxP!can_get,
                TypeInv, TypeOK
  <2>3. TxP!GetBlock(b)
    BY <1>1, <2>1, <2>2 DEF CliGetBuffer, TxP!GetBlock
  <2>4. QED
    BY <2>3 DEF TxP!Next
<1>2. CASE CliSend
  <2>1. outBlk \in TxBlocks /\ outSize \in 0..CLI_TX_BLOCKSIZE /\ outLen \in 0..CLI_TX_BLOCKSIZE
    <3>1. cliPc = "send"
      BY <1>2 DEF CliSend
    <3>2. outBlk \in TxBlocks /\ outSize \in 0..CLI_TX_BLOCKSIZE /\ outLen \in 1..outSize
      BY <3>1 DEF TypeInv, TypeOK
    <3> QED BY <3>2, SizesType DEF Sizes
  <2>2. TxHeld' = TxHeld \ {outBlk} /\ outBlk \in TxHeld
    BY <1>2 DEF CliSend
  <2>3. TxP!send(outBlk, outSize, outLen)
    BY <1>2, TxInstances DEF CliSend, Tx!send, TxP!send
  <2>4. TxP!SendWait(outBlk)
    BY <1>2, <2>1, <2>2, <2>3 DEF CliSend, TxP!SendWait
  <2>5. QED
    BY <2>1, <2>4 DEF TxP!Next
<1>3. ASSUME NEW p \in Tx!block_pointer, CdcTxReceive(p) PROVE Goal
  <2>1. p \in TxP!block_pointer
    BY DEF Tx!block_pointer, TxP!block_pointer
  <2>2. TxHeld' = TxHeld \cup {p.data}
    BY <1>3 DEF CdcTxReceive
  <2>3. TxP!receive(p)
    BY <1>3 DEF CdcTxReceive, Tx!receive, Tx!empty, TxP!receive, TxP!empty
  <2>4. TxP!Receive
    BY <1>3, <2>1, <2>2, <2>3 DEF CdcTxReceive, TxP!Receive
  <2>5. QED
    BY <2>4 DEF TxP!Next
<1>4. CASE CdcTxRelease
  <2>1. cdcBlk \in TxBlocks
    BY <1>4 DEF CdcTxRelease, TypeInv, TypeOK
  <2>2. cliPc = "send" => cdcBlk # outBlk
    BY <1>4 DEF CdcTxRelease, TxInv
  <2>3. TxHeld' = TxHeld \ {cdcBlk} /\ cdcBlk \in TxHeld
    BY <1>4, <2>2 DEF CdcTxRelease
  <2>4. TxP!Release(cdcBlk)
    BY <1>4, <2>3 DEF CdcTxRelease, Tx!release, TxP!release, TxP!Release
  <2>5. QED
    BY <2>1, <2>4 DEF TxP!Next
<1>5. CASE Usb
  BY <1>5 DEF Usb, HostSend, HostCollect, BusReset
<1>6. CASE CdcRxCheck \/ CdcRxDone \/ CdcNoBlock \/ CdcRxSend \/ CdcTxWrite \/ CdcPassEnd
  BY <1>6 DEF CdcRxCheck, CdcRxDone, CdcNoBlock, CdcRxSend, CdcTxWrite, CdcPassEnd
<1>7. ASSUME NEW b \in RxBlocks, CdcRxRead(b) PROVE Goal
  BY <1>7 DEF CdcRxRead
<1>8. CASE CliInit \/ CliReceiveTimeout \/ CliReceiveChar \/ CliNoBuffer \/ CliPassEnd
  BY <1>8 DEF CliInit, CliReceiveTimeout, CliReceiveChar, CliNoBuffer, CliPassEnd
<1>9. ASSUME NEW p \in Rx!block_pointer, CliReceive(p) PROVE Goal
  BY <1>9 DEF CliReceive
<1>10. ASSUME NEW n \in 0..MaxWrites, CliRelease(n) PROVE Goal
  BY <1>10 DEF CliRelease
<1>11. ASSUME NEW size \in {1, ReportSize}, CliWrite(size) PROVE Goal
  BY <1>11 DEF CliWrite
<1>12. CASE Tick
  BY <1>12 DEF Tick
<1>13. CASE UNCHANGED vars
  BY <1>13 DEF vars
<1>14. QED
  BY <1>1, <1>2, <1>3, <1>4, <1>5, <1>6, <1>7, <1>8, <1>9, <1>10, <1>11, <1>12, <1>13
     DEF Next, Cdc, Cli, cli_write_char, Report

-----------------------------------------------------------------------------
(* A replay is never forgotten.                                            *)
LEMMA ReplayedStays == [Next]_vars /\ ~replayed' => ~replayed
BY DEF Next, Usb, Cdc, Cli, cli_write_char, Report, Tick, vars, HostSend, HostCollect, BusReset,
       CdcRxCheck, CdcRxDone, CdcNoBlock, CdcRxRead, CdcRxSend, CdcTxReceive, CdcTxWrite,
       CdcTxRelease, CdcPassEnd, CliInit, CliReceive, CliReceiveTimeout, CliReceiveChar,
       CliRelease, CliWrite, CliGetBuffer, CliNoBuffer, CliSend, CliPassEnd,
       rxVars, txVars, cdcVars, inVars, outVars, cliVars, hostVars

(* The initial streams own all their blocks.                               *)
LEMMA StreamsInit == Init => RxP!PInit /\ TxP!PInit
BY DEF Init, Rx!Init, Tx!Init, RxP!PInit, TxP!PInit, RxP!Init, TxP!Init, RxHeld, TxHeld

(* The inductive invariant holds initially: all blocks are free.           *)
LEMMA BridgeInit == Init => BridgeInv
<1> SUFFICES ASSUME Init PROVE BridgeInv
  OBVIOUS
<1>1. RxP!Ownership /\ TxP!Ownership
  <2>1. /\ rxQueue = << >> /\ txQueue = << >> /\ rxFree = RxBlocks /\ txFree = TxBlocks
        /\ RxHeld = {} /\ TxHeld = {}
    BY DEF Init, Rx!Init, Tx!Init, RxHeld, TxHeld
  <2>2. Len(<< >>) = 0
    BY EmptySeq
  <2>3. QED
    BY <2>1, <2>2 DEF RxP!Ownership, TxP!Ownership, RxP!QueueInjective, TxP!QueueInjective,
                      RxP!queued, TxP!queued
<1>2. cdcPc = "rx"
  BY DEF Init
<1>3. QED
  BY <1>1, <1>2, TypeInit DEF BridgeInv, RxInv, TxInv, RoomInv

(* Until a block is replayed, each rx block stays in one place, and the    *)
(* block usb/cdc takes is not the one the cli task works on.               *)
LEMMA RxInvStep == BridgeInv /\ [Next]_vars => RxInv'
<1> SUFFICES ASSUME BridgeInv, [Next]_vars, ~replayed'
             PROVE  /\ RxP!Ownership'
                    /\ (cdcPc = "send" /\ cliPc = "chars" => cdcBlk # cliBlk)'
  BY DEF RxInv
<1>1. ~replayed
  BY ReplayedStays
<1>2. RxP!Ownership /\ TypeInv /\ RxInv
  BY <1>1 DEF BridgeInv, RxInv
<1>3. [RxP!Next]_(RxP!vars)
  BY <1>2, RxStep DEF RxP!vars
<1>4. RxP!Ownership'
  <2>1. RxPf!PTypeOK /\ RxPf!Ownership /\ [RxPf!Next]_(RxPf!vars)
    BY <1>2, <1>3, RxInstances, RxSteps, StreamTypes
  <2>2. RxPf!Ownership'
    BY <2>1, RxInstances, RxPf!OwnershipStep
  <2>3. (RxP!Ownership <=> RxPf!Ownership)'
    BY RxInstances, PTL
  <2>4. QED
    BY <2>2, <2>3
<1>5. (cdcPc = "send" /\ cliPc = "chars" => cdcBlk # cliBlk)'
  <2> SUFFICES ASSUME cdcPc' = "send", cliPc' = "chars" PROVE cdcBlk' # cliBlk'
    OBVIOUS
  <2> USE DEF rxVars, txVars, cdcVars, inVars, outVars, cliVars, hostVars, CliAt
  <2>1. ASSUME NEW b \in RxBlocks, CdcRxRead(b) PROVE cdcBlk' # cliBlk'
    <3>1. cdcBlk' = b /\ cliBlk' = cliBlk /\ b \in rxFree /\ cliPc = "chars"
      BY <2>1 DEF CdcRxRead, Rx!get_block
    <3>2. cliBlk \notin rxFree
      BY <1>2, <3>1, BridgeAssumption DEF RxP!Ownership, RxHeld, TypeInv, TypeOK, Rx!TypeOK
    <3>3. QED
      BY <3>1, <3>2
  <2>2. CASE ~\E b \in RxBlocks : CdcRxRead(b)
    <3>1. cdcPc = "send" /\ cliPc = "chars" /\ UNCHANGED <<cdcBlk, cliBlk>>
      BY <2>2 DEF Next, Usb, Cdc, Cli, cli_write_char, Report, Tick, vars, HostSend, HostCollect, BusReset,
                  CdcRxCheck, CdcRxDone, CdcNoBlock, CdcRxSend, CdcTxReceive, CdcTxWrite,
                  CdcTxRelease, CdcPassEnd, CliInit, CliReceive, CliReceiveTimeout,
                  CliReceiveChar, CliRelease, CliWrite, CliGetBuffer, CliNoBuffer, CliSend,
                  CliPassEnd
    <3>2. QED
      BY <1>1, <1>2, <3>1 DEF RxInv
  <2>3. QED
    BY <2>1, <2>2
<1>6. QED
  BY <1>4, <1>5

(* The same for the tx stream.                                             *)
LEMMA TxInvStep == BridgeInv /\ [Next]_vars => TxInv'
<1> SUFFICES ASSUME BridgeInv, [Next]_vars PROVE TxInv'
  OBVIOUS
<1>1. TypeInv /\ TxInv /\ TxP!Ownership
  BY DEF BridgeInv, TxInv
<1>2. [TxP!Next]_(TxP!vars)
  BY <1>1, TxStep DEF TxP!vars
<1>3. TxP!Ownership'
  <2>1. TxPf!PTypeOK /\ TxPf!Ownership /\ [TxPf!Next]_(TxPf!vars)
    BY <1>1, <1>2, TxInstances, TxSteps, StreamTypes
  <2>2. TxPf!Ownership'
    BY <2>1, TxInstances, TxPf!OwnershipStep
  <2>3. (TxP!Ownership <=> TxPf!Ownership)'
    BY TxInstances, PTL
  <2>4. QED
    BY <2>2, <2>3
<1>4. (cdcPc = "write" /\ cliPc = "send" => cdcBlk # outBlk)'
  <2> SUFFICES ASSUME cdcPc' = "write", cliPc' = "send" PROVE cdcBlk' # outBlk'
    OBVIOUS
  <2> USE DEF rxVars, txVars, cdcVars, inVars, outVars, cliVars, hostVars, CliAt
  <2>1. ASSUME NEW p \in Tx!block_pointer, CdcTxReceive(p) PROVE cdcBlk' # outBlk'
    <3>1. cdcBlk' = p.data /\ outBlk' = outBlk /\ cliPc = "send"
      BY <2>1 DEF CdcTxReceive
    <3>2. outBlk \notin TxP!queued
      BY <1>1, <3>1 DEF TxP!Ownership, TxHeld
    <3>3. p.data \in TxP!queued
      <4>1. txQueue # << >> /\ p = Head(txQueue)
        BY <2>1 DEF CdcTxReceive, Tx!receive, Tx!empty
      <4>2. Len(txQueue) \in Nat \ {0} /\ Head(txQueue) = txQueue[1]
        BY <1>1, <4>1, EmptySeq DEF TypeInv, TypeOK, Tx!TypeOK
      <4>3. QED
        BY <4>1, <4>2 DEF TxP!queued
    <3>4. QED
      BY <3>1, <3>2, <3>3
  <2>2. CASE ~\E p \in Tx!block_pointer : CdcTxReceive(p)
    <3>1. cdcPc = "write" /\ cliPc = "send" /\ UNCHANGED <<cdcBlk, outBlk>>
      BY <2>2 DEF Next, Usb, Cdc, Cli, cli_write_char, Report, Tick, vars, HostSend, HostCollect, BusReset,
                  CdcRxCheck, CdcRxDone, CdcNoBlock, CdcRxRead, CdcRxSend, CdcTxWrite,
                  CdcTxRelease, CdcPassEnd, CliInit, CliReceive, CliReceiveTimeout,
                  CliReceiveChar, CliRelease, CliWrite, CliGetBuffer, CliNoBuffer, CliSend,
                  CliPassEnd
    <3>2. QED
      BY <1>1, <3>1 DEF TxInv
  <2>3. QED
    BY <2>1, <2>2
<1>5. QED
  BY <1>3, <1>4 DEF TxInv

(* Between the test of the while loop and the send nobody else queues, so  *)
(* the room usb/cdc saw is still there.                                    *)
LEMMA RoomInvStep == BridgeInv /\ [Next]_vars => RoomInv'
<1> SUFFICES ASSUME BridgeInv, [Next]_vars, cdcPc' \in {"get", "send"}
             PROVE  ~Rx!full'
  BY DEF RoomInv
<1>1. ~Rx!full /\ UNCHANGED rxQueue
  BY DEF BridgeInv, RoomInv,
         Next, Usb, Cdc, Cli, cli_write_char, Report, Tick, vars, HostSend, HostCollect, BusReset,
         CdcRxCheck, CdcRxDone, CdcNoBlock, CdcRxRead, CdcRxSend, CdcTxReceive, CdcTxWrite,
         CdcTxRelease, CdcPassEnd, CliInit, CliReceive, CliReceiveTimeout, CliReceiveChar,
         CliRelease, CliWrite, CliGetBuffer, CliNoBuffer, CliSend, CliPassEnd,
         rxVars, txVars, cdcVars, inVars, outVars, cliVars, hostVars, CliAt
<1>2. QED
  BY <1>1 DEF Rx!full, Rx!COUNT

(* Every step keeps all parts of the inductive invariant.                  *)
LEMMA BridgeStep == BridgeInv /\ [Next]_vars => BridgeInv'
BY TypeStep, RxInvStep, TxInvStep, RoomInvStep DEF BridgeInv

(* The inductive invariant holds in every reachable state.                 *)
LEMMA BridgeInvariant == Spec => []BridgeInv
<1>1. Init => BridgeInv
  BY BridgeInit
<1>2. BridgeInv /\ [Next]_vars => BridgeInv'
  BY BridgeStep
<1>3. QED
  BY <1>1, <1>2, PTL DEF Spec

-----------------------------------------------------------------------------
(* The tasks follow the protocol on the tx stream in every interleaving.   *)
THEOREM TxRefinement == Spec => TxFollowsProtocol
<1>1. Init => TxP!PInit
  BY StreamsInit
<1>2. BridgeInv /\ [Next]_vars => [TxP!Next]_(TxP!vars)
  BY TxStep DEF BridgeInv, TxP!vars
<1>3. QED
  BY <1>1, <1>2, BridgeInvariant, PTL DEF Spec, TxFollowsProtocol, TxP!Spec

(* The tasks follow the protocol on the rx stream as long as no timed-out  *)
(* receive made the cli task work on an old block.                         *)
THEOREM RxRefinement == Spec => RxFollowsProtocol
<1>1. Init => RxP!PInit
  BY StreamsInit
<1>2. BridgeInv /\ [Next]_vars => [RxP!Next \/ replayed']_<<rxFree, rxQueue, RxHeld>>
  BY RxStep DEF BridgeInv
<1>3. QED
  BY <1>1, <1>2, BridgeInvariant, PTL DEF Spec, RxFollowsProtocol

(* No tx block leaks or has two owners.                                    *)
THEOREM TxOwnershipCorrect == Spec => []TxOwnership
<1>1. BridgeInv => TxOwnership
  BY DEF BridgeInv, TxInv, TxOwnership
<1>2. QED
  BY <1>1, BridgeInvariant, PTL

(* Without a replay no rx block leaks or has two owners.                   *)
THEOREM RxOwnershipCorrect == Spec => []RxOwnership
<1>1. BridgeInv => RxOwnership
  BY DEF BridgeInv, RxInv, RxOwnership
<1>2. QED
  BY <1>1, BridgeInvariant, PTL

(* The sends whose results are ignored are always accepted.                *)
THEOREM SendsAlwaysAccepted == Spec => []SendsAccepted
<1>1. ASSUME BridgeInv PROVE SendsAccepted
  <2>1. cdcPc = "send" => ~Rx!full
    BY <1>1 DEF BridgeInv, RoomInv
  <2>2. ASSUME cliPc = "send" PROVE ~Tx!full
    <3>1. TxPf!PTypeOK /\ TxPf!Ownership
      BY <1>1, StreamTypes, TxInstances DEF BridgeInv, TxInv
    <3>2. TxHeld # {}
      BY <2>2 DEF TxHeld
    <3>3. ~TxPf!full
      BY <3>1, <3>2, TxInstances, TxPf!RoomForHeld DEF TxPf!HolderCanSend
    <3>4. QED
      BY <3>3, TxInstances
  <2>3. QED
    BY <2>1, <2>2 DEF SendsAccepted
<1>2. QED
  BY <1>1, BridgeInvariant, PTL

(* A queue that names every block of a set has at least as many pointers.  *)
LEMMA LongQueue ==
  ASSUME NEW B, NEW q, Len(q) \in Nat, B = {q[i].data : i \in 1..Len(q)}
  PROVE  Cardinality(B) <= Len(q)
<1> DEFINE f == [i \in 1..Len(q) |-> q[i].data]
<1>1. f \in Surjection(1..Len(q), B)
  BY DEF Surjection
<1>2. ExistsSurjection(1..Len(q), B)
  BY <1>1 DEF ExistsSurjection
<1>3. QED
  BY <1>2, FS_SurjCardinalityBound

(* When usb/cdc finds no block, the cli task holds one: with none held all *)
(* blocks would be queued, and then the queue would be full.               *)
THEOREM SpinAlwaysBlamesCli == Spec => []SpinBlamesCli
<1>1. ASSUME BridgeInv, ~replayed, cdcPc = "get", ~Rx!can_get(cdcLen)
      PROVE  cliPc = "chars" /\ cliBlk # NoBlock
  <2>1. cdcLen <= CLI_RX_BLOCKSIZE
    BY <1>1, SizesType DEF BridgeInv, TypeInv, TypeOK, Sizes
  <2>2. rxFree = {}
    BY <1>1, <2>1 DEF Rx!can_get
  <2>3. RxP!queued \cup RxHeld = RxBlocks
    BY <1>1, <2>2 DEF BridgeInv, RxInv, RxP!Ownership
  <2>4. RxHeld # {}
    <3> SUFFICES ASSUME RxHeld = {} PROVE FALSE
      OBVIOUS
    <3>1. RxBlocks = {rxQueue[i].data : i \in 1..Len(rxQueue)}
      BY <2>3 DEF RxP!queued
    <3>2. Len(rxQueue) \in Nat
      BY <1>1, LenProperties DEF BridgeInv, TypeInv, TypeOK, Rx!TypeOK
    <3>3. Cardinality(RxBlocks) <= Len(rxQueue)
      BY <3>1, <3>2, LongQueue
    <3>4. Rx!Cardinality(RxBlocks) = Cardinality(RxBlocks)
      BY DEF Rx!Cardinality, Cardinality
    <3>5. Cardinality(RxBlocks) \in Nat
      BY FS_CardinalityType, BridgeAssumption
    <3>6. Rx!full
      BY <3>2, <3>3, <3>4, <3>5 DEF Rx!full, Rx!COUNT
    <3>7. QED
      BY <1>1, <3>6 DEF BridgeInv, RoomInv
  <2>5. QED
    BY <1>1, <2>4 DEF RxHeld
<1>2. BridgeInv => SpinBlamesCli
  BY <1>1 DEF SpinBlamesCli
<1>3. QED
  BY <1>2, BridgeInvariant, PTL

-----------------------------------------------------------------------------
(* How long a pass of usb/cdc can be.  In each round of the rx loop it     *)
(* takes three steps and fills a place of the rx queue; each tx block is   *)
(* received, written in at most CLI_TX_BLOCKSIZE pieces and released.      *)
RxRoom == Rx!COUNT - Len(rxQueue)

RxLeft ==
  CASE cdcPc = "rx"   -> 3 * RxRoom + 1
    [] cdcPc = "get"  -> 3 * RxRoom
    [] cdcPc = "send" -> 3 * RxRoom - 1
    [] OTHER          -> 0

TxBlockSteps == CLI_TX_BLOCKSIZE + 2

TxLeft == TxBlockSteps * Len(txQueue)
            + (IF cdcPc = "write" THEN cdcLen - cdcSent + 1 ELSE 0)

(* The steps usb/cdc can still take before its vTaskDelay(1), if get_block *)
(* finds a block.                                                          *)
StepsLeft == IF cdcPc = "delay" THEN 0 ELSE RxLeft + TxLeft + 1

PassBound == 3 * Rx!COUNT + 2 + TxBlockSteps * Tx!COUNT

(* Every step of usb/cdc brings it nearer to its delay, except a get_block *)
(* that fails, which costs one step more; and nobody else, neither the     *)
(* host refilling the FIFO nor a bus reset, can prolong a pass.            *)
PassShrinks ==
  /\ Cdc => StepsLeft' < StepsLeft \/ CdcNoBlock
  /\ CdcNoBlock => StepsLeft' = StepsLeft + 1
  /\ cdcPc # "delay" /\ ~Cdc => StepsLeft' = StepsLeft

(* The queues keep to their capacities, replays and resets included.       *)
QueuesFit == Len(rxQueue) <= Rx!COUNT /\ Len(txQueue) <= Tx!COUNT

(* What the arithmetic of a pass is done with.                             *)
LEMMA PassNumbers ==
  ASSUME TypeInv
  PROVE  /\ Rx!COUNT \in Nat \ {0} /\ Tx!COUNT \in Nat \ {0}
         /\ Len(rxQueue) \in Nat /\ Len(txQueue) \in Nat
         /\ TxBlockSteps = CLI_TX_BLOCKSIZE + 2 /\ CLI_TX_BLOCKSIZE \in Nat \ {0}
         /\ cdcPc = "write" => /\ cdcLen \in 0..CLI_TX_BLOCKSIZE
                               /\ cdcSent \in 0..CLI_TX_BLOCKSIZE /\ cdcSent <= cdcLen
<1>1. /\ Rx!Cardinality(RxBlocks) = Cardinality(RxBlocks)
      /\ Tx!Cardinality(TxBlocks) = Cardinality(TxBlocks)
  BY DEF Rx!Cardinality, Tx!Cardinality, Cardinality
<1>2. /\ Cardinality(RxBlocks) \in Nat /\ Cardinality(RxBlocks) # 0
      /\ Cardinality(TxBlocks) \in Nat /\ Cardinality(TxBlocks) # 0
  BY FS_CardinalityType, FS_EmptySet, BridgeAssumption
<1>3. Rx!COUNT \in Nat \ {0} /\ Tx!COUNT \in Nat \ {0}
  BY <1>1, <1>2 DEF Rx!COUNT, Tx!COUNT
<1>4. Len(rxQueue) \in Nat /\ Len(txQueue) \in Nat
  BY LenProperties DEF TypeInv, TypeOK, Rx!TypeOK, Tx!TypeOK
<1>5. CLI_TX_BLOCKSIZE \in Nat \ {0}
  BY SizesType DEF Sizes
<1>6. cdcPc = "write" => /\ cdcLen \in 0..CLI_TX_BLOCKSIZE
                         /\ cdcSent \in 0..CLI_TX_BLOCKSIZE /\ cdcSent <= cdcLen
  BY DEF TypeInv, TypeOK
<1>7. QED
  BY <1>3, <1>4, <1>5, <1>6 DEF TxBlockSteps

(* The lengths of a queue after a send and after a receive.                *)
LEMMA QueueSteps ==
  ASSUME NEW S, NEW q \in Seq(S)
  PROVE  /\ \A x \in S : Append(q, x) \in Seq(S) /\ Len(Append(q, x)) = Len(q) + 1
         /\ q # << >> => Len(Tail(q)) = Len(q) - 1 /\ Len(q) >= 1
<1>1. \A x \in S : Append(q, x) \in Seq(S) /\ Len(Append(q, x)) = Len(q) + 1
  BY AppendProperties
<1>2. q # << >> => Len(Tail(q)) = Len(q) - 1 /\ Len(q) >= 1
  BY HeadTailProperties, LenProperties, EmptySeq
<1>3. QED
  BY <1>1, <1>2

(* The steps left, by the place in the pass.                               *)
LeftAt ==
  /\ cdcPc = "rx"    => StepsLeft = 3 * RxRoom + TxBlockSteps * Len(txQueue) + 2
  /\ cdcPc = "get"   => StepsLeft = 3 * RxRoom + TxBlockSteps * Len(txQueue) + 1
  /\ cdcPc = "send"  => StepsLeft = 3 * RxRoom + TxBlockSteps * Len(txQueue)
  /\ cdcPc = "tx"    => StepsLeft = TxBlockSteps * Len(txQueue) + 1
  /\ cdcPc = "write" => StepsLeft = TxBlockSteps * Len(txQueue) + (cdcLen - cdcSent) + 2
  /\ cdcPc = "delay" => StepsLeft = 0

(* The definition of StepsLeft, evaluated at each place.                   *)
LEMMA LeftAtEach == TypeInv => LeftAt
<1> SUFFICES ASSUME TypeInv PROVE LeftAt
  OBVIOUS
<1> DEFINE k == TxBlockSteps * Len(txQueue)
<1> DEFINE r == 3 * RxRoom
<1> DEFINE d == cdcLen - cdcSent
<1>1. k \in Nat /\ r \in Int /\ (cdcPc = "write" => d \in Int)
  BY PassNumbers DEF RxRoom
<1>2. /\ cdcPc = "rx"    => RxLeft = r + 1
      /\ cdcPc = "get"   => RxLeft = r
      /\ cdcPc = "send"  => RxLeft = r - 1
      /\ cdcPc \in {"tx", "write"} => RxLeft = 0
      /\ cdcPc # "write" => TxLeft = k + 0
      /\ cdcPc = "write" => TxLeft = k + (d + 1)
      /\ cdcPc # "delay" => StepsLeft = RxLeft + TxLeft + 1
      /\ cdcPc = "delay" => StepsLeft = 0
  BY DEF RxLeft, TxLeft, StepsLeft
<1> HIDE DEF k, r, d
<1>3. /\ cdcPc = "rx"    => StepsLeft = r + k + 2
      /\ cdcPc = "get"   => StepsLeft = r + k + 1
      /\ cdcPc = "send"  => StepsLeft = r + k
      /\ cdcPc = "tx"    => StepsLeft = k + 1
      /\ cdcPc = "write" => StepsLeft = k + d + 2
      /\ cdcPc = "delay" => StepsLeft = 0
  BY ONLY <1>1, <1>2
<1>4. QED
  BY <1>3 DEF LeftAt, k, r, d

(* Only usb/cdc adds to the rx queue and only the cli task to the tx       *)
(* queue, and both find room.                                              *)
LEMMA QueuesFitStep == TypeInv /\ QueuesFit /\ [Next]_vars => QueuesFit'
<1> SUFFICES ASSUME TypeInv, QueuesFit, [Next]_vars
             PROVE  Len(rxQueue') <= Rx!COUNT /\ Len(txQueue') <= Tx!COUNT
  BY DEF QueuesFit, Rx!COUNT, Tx!COUNT
<1> DEFINE Goal == Len(rxQueue') <= Rx!COUNT /\ Len(txQueue') <= Tx!COUNT
<1> USE DEF rxVars, txVars, cdcVars, cliVars, hostVars
<1>a. /\ rxQueue \in Seq(Rx!block_pointer) /\ txQueue \in Seq(Tx!block_pointer)
      /\ rxQueue' \in Seq(Rx!block_pointer) /\ txQueue' \in Seq(Tx!block_pointer)
  BY TypeStep DEF TypeInv, TypeOK, Rx!TypeOK, Tx!TypeOK, Rx!block_pointer, Tx!block_pointer
<1>b. /\ Rx!COUNT \in Nat /\ Len(rxQueue) \in Nat /\ Len(rxQueue) <= Rx!COUNT
      /\ Tx!COUNT \in Nat /\ Len(txQueue) \in Nat /\ Len(txQueue) <= Tx!COUNT
  BY PassNumbers DEF QueuesFit
<1>1. CASE CdcRxSend
  <2>1. txQueue' = txQueue
    BY <1>1 DEF CdcRxSend
  <2>2. CASE Rx!full
    BY <1>1, <1>b, <2>1, <2>2 DEF CdcRxSend, Rx!send_or_drop
  <2>3. CASE ~Rx!full
    <3> DEFINE x == [data |-> cdcBlk, size |-> cdcLen]
    <3>1. rxQueue' = Append(rxQueue, x) /\ Len(rxQueue) < Rx!COUNT
      BY <1>1, <1>b, <2>3 DEF CdcRxSend, Rx!send_or_drop, Rx!full
    <3> HIDE DEF x
    <3>2. Len(rxQueue') = Len(rxQueue) + 1
      BY <3>1, <1>a
    <3>3. Len(rxQueue') <= Rx!COUNT
      BY ONLY <3>1, <3>2, <1>b
    <3>4. QED
      BY <3>3, <2>1, <1>b
  <2>4. QED
    BY <2>2, <2>3
<1>2. CASE CliSend
  <2> DEFINE x == [data |-> outBlk, size |-> IF outLen < outSize THEN outLen ELSE outSize]
  <2>1. rxQueue' = rxQueue /\ txQueue' = Append(txQueue, x) /\ Len(txQueue) < Tx!COUNT
    BY <1>2, <1>b DEF CliSend, Tx!send, Tx!full
  <2> HIDE DEF x
  <2>2. Len(txQueue') = Len(txQueue) + 1
    BY <2>1, <1>a
  <2>3. Len(txQueue') <= Tx!COUNT
    BY ONLY <2>1, <2>2, <1>b
  <2>4. QED
    BY <2>1, <2>3, <1>b
<1>3. ASSUME NEW p, CdcTxReceive(p) PROVE Goal
  <2>1. txQueue # << >> /\ txQueue' = Tail(txQueue) /\ rxQueue' = rxQueue
    BY <1>3 DEF CdcTxReceive, Tx!receive, Tx!empty
  <2>2. Len(txQueue') = Len(txQueue) - 1
    BY <2>1, <1>a, QueueSteps
  <2>3. Len(txQueue') <= Tx!COUNT
    BY ONLY <2>2, <1>b
  <2>4. QED
    BY <2>1, <2>3, <1>b
<1>4. ASSUME NEW p, CliReceive(p) PROVE Goal
  <2>1. rxQueue # << >> /\ rxQueue' = Tail(rxQueue) /\ txQueue' = txQueue
    BY <1>4 DEF CliReceive, Rx!receive, Rx!empty
  <2>2. Len(rxQueue') = Len(rxQueue) - 1
    BY <2>1, <1>a, QueueSteps
  <2>3. Len(rxQueue') <= Rx!COUNT
    BY ONLY <2>2, <1>b
  <2>4. QED
    BY <2>1, <2>3, <1>b
<1>5. CASE UNCHANGED <<rxQueue, txQueue>>
  BY <1>5, <1>b
<1>6. \/ CdcRxSend \/ CliSend \/ UNCHANGED <<rxQueue, txQueue>>
      \/ \E p : CdcTxReceive(p) \/ CliReceive(p)
  BY DEF Next, Usb, Cdc, Cli, cli_write_char, Report, Tick, vars, HostSend, HostCollect, BusReset,
         CdcRxCheck, CdcRxDone, CdcNoBlock, CdcRxRead, CdcTxWrite, CdcTxRelease, CdcPassEnd,
         CliInit, CliReceiveTimeout, CliReceiveChar, CliRelease, CliWrite, CliGetBuffer,
         CliNoBuffer, CliPassEnd
<1>7. QED
  BY <1>1, <1>2, <1>3, <1>4, <1>5, <1>6

(* The steps left are a number, and no more than PassBound.                *)
LEMMA StepsLeftBounded == BridgeInv /\ QueuesFit => StepsLeft \in 0..PassBound
<1> SUFFICES ASSUME BridgeInv, QueuesFit PROVE StepsLeft \in 0..PassBound
  OBVIOUS
<1>0. TypeInv
  BY DEF BridgeInv
<1> DEFINE n == Len(txQueue)
<1> DEFINE k == TxBlockSteps * n
<1> DEFINE K == TxBlockSteps * Tx!COUNT
<1> DEFINE d == cdcLen - cdcSent
<1>1. /\ n \in Nat /\ Tx!COUNT \in Nat /\ n <= Tx!COUNT /\ TxBlockSteps \in Nat
      /\ Rx!COUNT \in Nat /\ Len(rxQueue) \in Nat /\ Len(rxQueue) <= Rx!COUNT
      /\ TxBlockSteps = CLI_TX_BLOCKSIZE + 2 /\ CLI_TX_BLOCKSIZE \in Nat
  BY <1>0, PassNumbers DEF QueuesFit
<1>2. k \in Nat /\ K \in Nat /\ k <= K
  <2> HIDE DEF n
  <2>1. \A a \in Nat, b \in Nat, w \in Nat : a <= b => w * a <= w * b
    OBVIOUS
  <2>2. QED
    BY <1>1, <2>1
<1>3. RxRoom \in 0..Rx!COUNT
  BY <1>1 DEF RxRoom
<1>4. cdcPc \in {"get", "send"} => RxRoom >= 1
  BY <1>1 DEF BridgeInv, RoomInv, Rx!full, RxRoom
<1>5. LeftAt
  BY <1>0, LeftAtEach
<1>6. PassBound = 3 * Rx!COUNT + 2 + K
  BY DEF PassBound
<1>7. CASE cdcPc = "write"
  <2>1. TxPf!PTypeOK /\ TxPf!Ownership
    BY StreamTypes, TxInstances DEF BridgeInv, TxInv
  <2>2. TxHeld # {}
    BY <1>7 DEF TxHeld
  <2>3. ~TxPf!full
    BY <2>1, <2>2, TxInstances, TxPf!RoomForHeld DEF TxPf!HolderCanSend
  <2>4. ~Tx!full
    BY <2>3, TxInstances
  <2>5. n + 1 <= Tx!COUNT
    BY <1>1, <2>4 DEF Tx!full
  <2>6. k + TxBlockSteps <= K
    <3> HIDE DEF n
    <3>1. \A a \in Nat, b \in Nat, w \in Nat : a + 1 <= b => w * a + w <= w * b
      <4> SUFFICES ASSUME NEW a \in Nat, NEW b \in Nat, NEW w \in Nat, a + 1 <= b
                   PROVE  w * a + w <= w * b
        OBVIOUS
      <4>1. w * (a + 1) = w * a + w
        OBVIOUS
      <4>2. w * (a + 1) <= w * b
        OBVIOUS
      <4> QED BY ONLY <4>1, <4>2
    <3>2. QED
      BY <1>1, <2>5, <3>1
  <2>7. d \in 0..CLI_TX_BLOCKSIZE
    <3>1. /\ cdcLen \in 0..CLI_TX_BLOCKSIZE /\ cdcSent \in 0..CLI_TX_BLOCKSIZE
          /\ cdcSent <= cdcLen
      BY <1>0, <1>7, PassNumbers
    <3> QED BY ONLY <3>1, <1>1
  <2>8. StepsLeft = k + d + 2
    BY <1>5, <1>7 DEF LeftAt
  <2> HIDE DEF k, K, d, n
  <2>9. QED
    BY ONLY <1>1, <1>2, <1>6, <2>6, <2>7, <2>8
<1>8. CASE cdcPc # "write"
  <2>1. \/ StepsLeft = 3 * RxRoom + k + 2
        \/ RxRoom >= 1 /\ StepsLeft = 3 * RxRoom + k + 1
        \/ RxRoom >= 1 /\ StepsLeft = 3 * RxRoom + k
        \/ StepsLeft = k + 1
        \/ StepsLeft = 0
    <3>1. cdcPc \in {"rx", "get", "send", "tx", "delay"}
      BY <1>0, <1>8 DEF TypeInv, TypeOK
    <3> HIDE DEF k
    <3>2. QED
      BY <1>4, <1>5, <3>1 DEF LeftAt, k
  <2> HIDE DEF k, K, d, n
  <2>2. QED
    BY ONLY <1>1, <1>2, <1>3, <1>6, <2>1
<1>9. QED
  BY <1>7, <1>8

(* The effect of each step of usb/cdc on the steps left.                   *)
LEMMA PassShrinksStep == BridgeInv /\ QueuesFit /\ [Next]_vars => [PassShrinks]_vars
<1> SUFFICES ASSUME BridgeInv, QueuesFit, [Next]_vars PROVE PassShrinks
  OBVIOUS
<1> USE DEF rxVars, txVars, cdcVars, cliVars, hostVars
<1>0. TypeInv /\ TypeInv' /\ RoomInv
  BY TypeStep DEF BridgeInv
<1>a. LeftAt /\ LeftAt'
  <2>1. (TypeInv => LeftAt)'
    BY LeftAtEach, PTL
  <2>2. QED
    BY <1>0, <2>1, LeftAtEach
<1>b. /\ rxQueue \in Seq(Rx!block_pointer) /\ txQueue \in Seq(Tx!block_pointer)
      /\ rxQueue' \in Seq(Rx!block_pointer) /\ txQueue' \in Seq(Tx!block_pointer)
  BY <1>0 DEF TypeInv, TypeOK, Rx!TypeOK, Tx!TypeOK, Rx!block_pointer, Tx!block_pointer
<1>c. /\ Rx!COUNT \in Nat /\ Len(rxQueue) \in Nat /\ Len(rxQueue') \in Nat
      /\ Len(txQueue) \in Nat /\ Len(txQueue') \in Nat
      /\ TxBlockSteps = CLI_TX_BLOCKSIZE + 2 /\ CLI_TX_BLOCKSIZE \in Nat
  BY <1>0, <1>b, PassNumbers, LenProperties
<1>d. RxRoom \in Int /\ RxRoom' \in Int
      /\ RxRoom = Rx!COUNT - Len(rxQueue) /\ RxRoom' = Rx!COUNT - Len(rxQueue')
  BY <1>c DEF RxRoom, Rx!COUNT
<1> DEFINE k == TxBlockSteps * Len(txQueue)
<1> DEFINE kn == TxBlockSteps * Len(txQueue')
<1>e. k \in Nat /\ kn \in Nat
  BY <1>c
<1>f. TxBlockSteps' = TxBlockSteps
  BY DEF TxBlockSteps
<1> DEFINE Less == StepsLeft' < StepsLeft
<1>1. ASSUME CdcRxCheck PROVE Cdc /\ ~CdcNoBlock /\ Less
  <2>1. cdcPc = "rx" /\ cdcPc' = "get" /\ rxQueue' = rxQueue /\ txQueue' = txQueue
    BY <1>1 DEF CdcRxCheck
  <2>2. RxRoom' = RxRoom /\ kn = k
    BY <2>1, <1>d
  <2>3. StepsLeft = 3 * RxRoom + k + 2 /\ StepsLeft' = 3 * RxRoom' + kn + 1
    BY <2>1, <1>a, <1>f DEF LeftAt
  <2> HIDE DEF k, kn
  <2>4. Less
    BY ONLY <2>2, <2>3, <1>d, <1>e
  <2>5. QED
    BY <1>1, <2>1, <2>4 DEF Cdc, CdcNoBlock
<1>2. ASSUME CdcRxDone PROVE Cdc /\ ~CdcNoBlock /\ Less
  <2>1. cdcPc = "rx" /\ cdcPc' = "tx" /\ rxQueue' = rxQueue /\ txQueue' = txQueue
    BY <1>2 DEF CdcRxDone
  <2>2. RxRoom >= 0 /\ kn = k
    BY <2>1, <1>c, <1>d DEF QueuesFit
  <2>3. StepsLeft = 3 * RxRoom + k + 2 /\ StepsLeft' = kn + 1
    BY <2>1, <1>a, <1>f DEF LeftAt
  <2> HIDE DEF k, kn
  <2>4. Less
    BY ONLY <2>2, <2>3, <1>d, <1>e
  <2>5. QED
    BY <1>2, <2>1, <2>4 DEF Cdc, CdcNoBlock
<1>3. CASE CdcNoBlock
  <2>1. cdcPc = "get" /\ cdcPc' = "rx" /\ rxQueue' = rxQueue /\ txQueue' = txQueue
    BY <1>3 DEF CdcNoBlock
  <2>2. RxRoom' = RxRoom /\ kn = k
    BY <2>1, <1>d
  <2>3. StepsLeft = 3 * RxRoom + k + 1 /\ StepsLeft' = 3 * RxRoom' + kn + 2
    BY <2>1, <1>a, <1>f DEF LeftAt
  <2> HIDE DEF k, kn
  <2>4. StepsLeft' = StepsLeft + 1
    <3>1. 3 * RxRoom + k + 2 = (3 * RxRoom + k + 1) + 1
      BY ONLY <1>d, <1>e
    <3>2. QED
      BY <2>2, <2>3, <3>1
  <2>5. Cdc
    BY <1>3 DEF Cdc
  <2>6. QED
    BY <1>3, <2>4, <2>5 DEF PassShrinks
<1>4. ASSUME NEW b \in RxBlocks, CdcRxRead(b) PROVE Cdc /\ ~CdcNoBlock /\ Less
  <2>1. cdcPc = "get" /\ cdcPc' = "send" /\ rxQueue' = rxQueue /\ txQueue' = txQueue
    BY <1>4 DEF CdcRxRead
  <2>2. RxRoom' = RxRoom /\ kn = k
    BY <2>1, <1>d
  <2>3. StepsLeft = 3 * RxRoom + k + 1 /\ StepsLeft' = 3 * RxRoom' + kn
    BY <2>1, <1>a, <1>f DEF LeftAt
  <2> HIDE DEF k, kn
  <2>4. Less
    BY ONLY <2>2, <2>3, <1>d, <1>e
  <2>5. QED
    BY <1>4, <2>1, <2>4 DEF Cdc, CdcNoBlock
<1>5. ASSUME CdcRxSend PROVE Cdc /\ ~CdcNoBlock /\ Less
  <2>1. cdcPc = "send" /\ cdcPc' = "rx" /\ txQueue' = txQueue
    BY <1>5 DEF CdcRxSend
  <2> DEFINE x == [data |-> cdcBlk, size |-> cdcLen]
  <2>2. rxQueue' = Append(rxQueue, x)
    BY <1>0, <1>5, <2>1 DEF CdcRxSend, Rx!send_or_drop, RoomInv
  <2> HIDE DEF x
  <2>3. Len(rxQueue') = Len(rxQueue) + 1 /\ kn = k
    BY <2>1, <2>2, <1>b
  <2>4. StepsLeft = 3 * RxRoom + k /\ StepsLeft' = 3 * RxRoom' + kn + 2
    BY <2>1, <1>a, <1>f DEF LeftAt
  <2> HIDE DEF k, kn
  <2>5. Less
    BY ONLY <2>3, <2>4, <1>c, <1>d, <1>e
  <2>6. QED
    BY <1>5, <2>1, <2>5 DEF Cdc, CdcNoBlock
<1>6. ASSUME NEW p \in Tx!block_pointer, CdcTxReceive(p) PROVE Cdc /\ ~CdcNoBlock /\ Less
  <2>1. /\ cdcPc = "tx" /\ cdcPc' = "write"
        /\ txQueue # << >> /\ txQueue' = Tail(txQueue)
    BY <1>6 DEF CdcTxReceive, Tx!receive, Tx!empty
  <2>2. Len(txQueue) >= 1 /\ Len(txQueue') = Len(txQueue) - 1
    BY <2>1, <1>b, QueueSteps
  <2>3. k = kn + TxBlockSteps
    <3>1. \A w \in Nat, a \in Nat, b \in Nat : a = b - 1 => w * b = w * a + w
      OBVIOUS
    <3>2. QED
      BY <1>c, <2>2, <3>1
  <2>4. StepsLeft = k + 1 /\ StepsLeft' = kn + (cdcLen' - cdcSent') + 2
    BY <2>1, <1>a, <1>f DEF LeftAt
  <2>5. cdcLen' \in 0..CLI_TX_BLOCKSIZE /\ cdcSent' = 0
    BY <1>0, <1>6, <2>1 DEF CdcTxReceive, TypeInv, TypeOK
  <2> DEFINE d == cdcLen' - cdcSent'
  <2>a. d \in Int /\ d <= CLI_TX_BLOCKSIZE
    <3>1. cdcLen' \in Int /\ cdcSent' \in Int /\ cdcLen' <= CLI_TX_BLOCKSIZE /\ cdcSent' = 0
      BY <2>5
    <3>2. \A x, y \in Int : y = 0 => x - y \in Int /\ x - y = x
      OBVIOUS
    <3>3. QED
      BY <3>1, <3>2
  <2> HIDE DEF k, kn, d
  <2>6. Less
    <3>1. StepsLeft = k + 1 /\ StepsLeft' = kn + d + 2
      BY <2>4 DEF d
    <3>2. QED
      BY ONLY <2>3, <2>a, <3>1, <1>c, <1>e
  <2>7. QED
    BY <1>6, <2>1, <2>6 DEF Cdc, CdcNoBlock
<1>7. ASSUME CdcTxWrite PROVE Cdc /\ ~CdcNoBlock /\ Less
  <2>1. cdcPc = "write" /\ cdcPc' = "write" /\ txQueue' = txQueue /\ cdcLen' = cdcLen
    BY <1>7 DEF CdcTxWrite
  <2>2. /\ cdcLen \in 0..CLI_TX_BLOCKSIZE /\ cdcSent \in 0..CLI_TX_BLOCKSIZE
        /\ cdcSent' \in 0..CLI_TX_BLOCKSIZE
    BY <1>0, <2>1 DEF TypeInv, TypeOK
  <2>3. cdcSent' > cdcSent
    <3>1. PICK n : n > 0 /\ cdcSent' = cdcSent + n
                   /\ n = Smaller(TX_BUFSIZE - Len(usbTx), cdcLen - cdcSent)
      BY <1>7 DEF CdcTxWrite
    <3>2. n \in Int
      <4>1. TX_BUFSIZE \in Nat /\ Len(usbTx) \in Nat
        BY <1>0, SizesType, LenProperties DEF Sizes, TypeInv, TypeOK
      <4>2. TX_BUFSIZE - Len(usbTx) \in Int /\ cdcLen - cdcSent \in Int
        BY <4>1, <2>2, <1>c
      <4>3. QED
        BY <3>1, <4>2 DEF Smaller
    <3>3. QED
      BY ONLY <3>1, <3>2, <2>2, <1>c
  <2>4. /\ StepsLeft = k + (cdcLen - cdcSent) + 2
        /\ StepsLeft' = kn + (cdcLen' - cdcSent') + 2 /\ kn = k
    BY <2>1, <1>a, <1>f DEF LeftAt
  <2> DEFINE d == cdcLen - cdcSent
  <2> DEFINE e == cdcLen' - cdcSent'
  <2>a. d \in Int /\ e \in Int /\ e < d
    <3>1. /\ cdcLen \in Int /\ cdcSent \in Int /\ cdcLen' \in Int /\ cdcSent' \in Int
          /\ cdcLen' = cdcLen /\ cdcSent < cdcSent'
      BY <2>1, <2>2, <2>3, <1>c
    <3>2. \A x, y, z \in Int : y < z => x - y \in Int /\ x - z \in Int /\ x - z < x - y
      OBVIOUS
    <3>3. QED
      BY <3>1, <3>2
  <2> HIDE DEF k, kn, d, e
  <2>5. Less
    <3>1. StepsLeft = k + d + 2 /\ StepsLeft' = kn + e + 2 /\ kn = k
      BY <2>4 DEF d, e
    <3>2. QED
      BY ONLY <2>a, <3>1, <1>e
  <2>6. QED
    BY <1>7, <2>1, <2>5 DEF Cdc, CdcNoBlock
<1>8. ASSUME CdcTxRelease PROVE Cdc /\ ~CdcNoBlock /\ Less
  <2>1. cdcPc = "write" /\ cdcPc' = "tx" /\ txQueue' = txQueue
    BY <1>8 DEF CdcTxRelease
  <2>2. cdcLen \in 0..CLI_TX_BLOCKSIZE /\ cdcSent \in 0..CLI_TX_BLOCKSIZE /\ cdcSent <= cdcLen
    BY <1>0, <2>1 DEF TypeInv, TypeOK
  <2>3. StepsLeft = k + (cdcLen - cdcSent) + 2 /\ StepsLeft' = kn + 1 /\ kn = k
    BY <2>1, <1>a, <1>f DEF LeftAt
  <2> HIDE DEF k, kn
  <2>4. Less
    BY ONLY <2>2, <2>3, <1>c, <1>e
  <2>5. QED
    BY <1>8, <2>1, <2>4 DEF Cdc, CdcNoBlock
<1>9. ASSUME CdcPassEnd PROVE Cdc /\ ~CdcNoBlock /\ Less
  <2>1. cdcPc = "tx" /\ cdcPc' = "delay"
    BY <1>9 DEF CdcPassEnd
  <2>2. StepsLeft = k + 1 /\ StepsLeft' = 0
    BY <2>1, <1>a DEF LeftAt
  <2> HIDE DEF k, kn
  <2>3. Less
    BY ONLY <2>2, <1>e
  <2>4. QED
    BY <1>9, <2>1, <2>3 DEF Cdc, CdcNoBlock
<1>10. CASE ~Cdc
  <2>1. CASE cdcPc = "delay"
    BY <1>10, <2>1 DEF PassShrinks, Cdc
  <2>2. CASE cdcPc # "delay"
    <3>1. UNCHANGED <<rxQueue, txQueue, cdcPc, cdcLen, cdcSent>>
      BY <1>10, <2>2
         DEF Next, Usb, Cli, cli_write_char, Report, Tick, vars, HostSend, HostCollect, BusReset,
             CliInit, CliReceive, CliReceiveTimeout, CliReceiveChar, CliRelease, CliWrite,
             CliGetBuffer, CliNoBuffer, CliSend, CliPassEnd, CliAt
    <3>2. RxLeft' = RxLeft /\ TxLeft' = TxLeft
      BY <3>1, <1>d, <1>f DEF RxLeft, TxLeft
    <3>3. StepsLeft' = StepsLeft
      BY <3>1, <3>2 DEF StepsLeft
    <3>4. QED
      BY <1>10, <3>3 DEF PassShrinks, Cdc
  <2>3. QED
    BY <2>1, <2>2
<1>11. QED
  BY <1>1, <1>2, <1>3, <1>4, <1>5, <1>6, <1>7, <1>8, <1>9, <1>10 DEF Cdc, PassShrinks

(* Every pass of usb/cdc is bounded: it has at most PassBound steps left,  *)
(* and each of its steps is one less but a get_block that fails.  Nothing  *)
(* the host does prolongs a pass, and nothing else does, because the cli   *)
(* task does not run.  What a pass can still wait for is the two things a  *)
(* step needs: room in a full FIFO, and a block (SpinBlamesCli).           *)
THEOREM PassesAreBounded == Spec => [](StepsLeft \in 0..PassBound) /\ [][PassShrinks]_vars
<1>1. Init => QueuesFit
  <2>1. Init => Len(rxQueue) = 0 /\ Len(txQueue) = 0
    BY DEF Init, Rx!Init, Tx!Init
  <2>2. Init => TypeInv
    BY TypeInit
  <2>3. QED
    BY <2>1, <2>2, PassNumbers DEF QueuesFit
<1>2. BridgeInv /\ QueuesFit /\ [Next]_vars => QueuesFit'
  BY QueuesFitStep DEF BridgeInv
<1>3. QED
  BY <1>1, <1>2, BridgeInvariant, StepsLeftBounded, PassShrinksStep, PTL DEF Spec

(* usb/cdc in the loop of a get_block that fails.                          *)
Spinning ==
  /\ cdcPc \in {"rx", "get"} /\ cliPc = "chars"
  /\ usbRx # << >> /\ ~Rx!full /\ rxFree = {}

(* Once usb/cdc has interrupted the cli task between receive and release   *)
(* and finds no block, it polls for ever: the tick goes on, but no step of *)
(* the cli task is possible, and only a bus reset ends the loop (cdc.h:87).*)
THEOREM SpinEndsOnlyByReset ==
  Spec => [][Spinning => Spinning' \/ resets' > resets]_vars
<1>1. ASSUME TypeInv, [Next]_vars, Spinning PROVE Spinning' \/ resets' > resets
  <2> USE DEF rxVars, txVars, cdcVars, cliVars, hostVars
  <2>1. ASSUME NEW n \in 1..RX_BUFSIZE, HostSend(n) PROVE Spinning'
    <3> DEFINE y == [i \in 1..n |-> hostSent + i]
    <3>1. usbRx' = usbRx \o y /\ UNCHANGED <<rxFree, rxQueue, cdcPc, cliPc>>
      BY <2>1 DEF HostSend
    <3>2. hostSent \in Nat /\ usbRx \in Seq(Nat) /\ n \in Nat
      BY <1>1, SizesType DEF TypeInv, TypeOK, Sizes
    <3>3. y \in Seq(Nat)
      BY <3>2, CountUpType
    <3> HIDE DEF y
    <3>4. usbRx' # << >>
      BY <1>1, <3>1, <3>2, <3>3, ConcatEqualIffEmpty DEF Spinning
    <3>5. QED
      BY <1>1, <3>1, <3>4 DEF Spinning, Rx!full, Rx!COUNT
  <2>2. CASE BusReset
    <3>1. resets \in Nat /\ resets' = resets + 1
      BY <1>1, <2>2 DEF BusReset, TypeInv, TypeOK
    <3>2. QED
      BY <3>1
  <2>3. CASE UNCHANGED <<usbRx, rxFree, rxQueue, cliPc>> /\ cdcPc' \in {"rx", "get"}
    BY <1>1, <2>3 DEF Spinning, Rx!full, Rx!COUNT
  <2>4. \/ \E n \in 1..RX_BUFSIZE : HostSend(n)
        \/ BusReset
        \/ UNCHANGED <<usbRx, rxFree, rxQueue, cliPc>> /\ cdcPc' \in {"rx", "get"}
    BY <1>1 DEF Spinning, Next, Usb, Cdc, Cli, cli_write_char, Report, Tick, Delayed, vars,
                HostCollect, CdcRxCheck, CdcRxDone, CdcNoBlock, CdcRxRead, CdcRxSend,
                CdcTxReceive, CdcTxWrite, CdcTxRelease, CdcPassEnd, Rx!get_block, Rx!can_get,
                CliInit, CliReceive, CliReceiveTimeout, CliReceiveChar, CliRelease, CliWrite,
                CliGetBuffer, CliNoBuffer, CliSend, CliPassEnd, CliAt
  <2>5. QED
    BY <2>1, <2>2, <2>3, <2>4
<1>2. QED
  BY <1>1, BridgeInvariant, PTL DEF BridgeInv, Spec
=============================================================================

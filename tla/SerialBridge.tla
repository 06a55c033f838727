---------------------------- MODULE SerialBridge ----------------------------
(***************************************************************************)
(* The firmware's data path: the USB host, the CDC FIFOs of the device     *)
(* stack, the usb/cdc task that pumps bytes between the FIFOs and the two  *)
(* streams of the CLI, and the cli task that consumes and answers them.    *)
(*                                                                         *)
(*   host --> usbRx --> [usb/cdc] --> rx stream --> [cli]                  *)
(*   host <-- usbTx <-- [usb/cdc] <-- tx stream <-- [cli]                  *)
(*                                                                         *)
(* One core, preemptive fixed priorities: usb/cdc (High) runs whenever it  *)
(* is ready and cli (Low) only while usb/cdc is delayed, so a pass of      *)
(* usb/cdc falls between any two cli steps but never the other way round.  *)
(* usb/dev (Highest) preempts both, so FIFO traffic falls anywhere.        *)
(*                                                                         *)
(* Bytes are the numbers 1, 2, 3... in the order the host, or the cli      *)
(* task, produced them, so order, loss and repetition show in the values.  *)
(***************************************************************************)
EXTENDS Naturals, Sequences, FiniteSets

CONSTANTS
  RxBlocks, TxBlocks,   (* the blocks of the CLI's rx and tx streams        *)
  NoBlock,              (* data pointer of a default memory_block          *)
  CLI_RX_BLOCKSIZE, CLI_TX_BLOCKSIZE,
  RX_BUFSIZE, TX_BUFSIZE,   (* CFG_TUD_CDC_RX_BUFSIZE, CFG_TUD_CDC_TX_BUFSIZE *)
  BannerSize,           (* length of the greeting written by init          *)
  ReportSize,           (* get_write_buffer(block, 400) of ps and perf     *)
  MaxWrites,            (* bound: writes of one process() call             *)
  MaxHostBytes,         (* bound: bytes the host ever sends                *)
  MaxTimeouts,          (* bound: receives that run into their timeout     *)
  MaxResets             (* bound: USB bus resets                           *)

(* A FIFO's content fits a block (64 and 128 bytes at full speed) and what *)
(* the CLI asks for fits a tx block (22 and 400 of 420 bytes).             *)
ASSUME BridgeAssumption ==
  /\ IsFiniteSet(RxBlocks) /\ IsFiniteSet(TxBlocks)
  /\ RxBlocks # {} /\ TxBlocks # {}
  /\ NoBlock \notin RxBlocks \cup TxBlocks
  /\ {CLI_RX_BLOCKSIZE, CLI_TX_BLOCKSIZE, RX_BUFSIZE, TX_BUFSIZE,
      BannerSize, ReportSize} \subseteq Nat \ {0}
  /\ RX_BUFSIZE <= CLI_RX_BLOCKSIZE
  /\ BannerSize <= CLI_TX_BLOCKSIZE /\ ReportSize <= CLI_TX_BLOCKSIZE
  /\ {MaxWrites, MaxHostBytes, MaxTimeouts, MaxResets} \subseteq Nat

VARIABLES
  rxFree, rxQueue, rxMem,   (* rx stream: pool, queue, bytes of its blocks *)
  txFree, txQueue, txMem,   (* tx stream                                   *)
  usbRx, usbTx,             (* CDC FIFOs of the device stack               *)
  cdcPc,    (* where the usb/cdc task is; "delay": in vTaskDelay(1)        *)
  cdcBlk,   (* its local block                                             *)
  cdcLen,   (* count, then block.size_bytes()                              *)
  cdcSent,  (* sent: bytes of the tx block already in usbTx                *)
  cliPc,    (* where the cli task is                                       *)
  cliBlk, cliLen,   (* its local rx block, kept across loop iterations     *)
  cliPos,   (* characters of that block already fed to the CLI             *)
  cliReady, (* commands.init() has returned                                *)
  todo,     (* writes the running process() call will still make           *)
  outBlk, outSize, outLen,  (* its tx block: allocated size, bytes to send *)
  hostSent, (* number of bytes the host has sent                           *)
  consumed, (* history: bytes fed to the CLI                               *)
  written,  (* number of bytes the cli task has handed to the tx stream    *)
  hostGot,  (* history: bytes that reached the host                        *)
  timeouts, resets,
  replayed, (* history: a timed-out receive left an old block in cliBlk    *)
  shortRead (* history: tud_cdc_n_read returned less than count            *)

rxVars   == <<rxFree, rxQueue, rxMem>>
txVars   == <<txFree, txQueue, txMem>>
cdcVars  == <<cdcPc, cdcBlk, cdcLen, cdcSent>>
inVars   == <<cliBlk, cliLen, cliPos, consumed>>
outVars  == <<cliReady, todo, outBlk, outSize, outLen, written>>
cliVars  == <<cliPc, inVars, outVars, timeouts, replayed>>
hostVars == <<hostSent, hostGot, resets>>
vars == <<rxVars, txVars, usbRx, usbTx, cdcVars, cliVars, hostVars, shortRead>>

Rx == INSTANCE Stream WITH Blocks <- RxBlocks, MAX_BLOCK_SIZE <- CLI_RX_BLOCKSIZE,
                           free <- rxFree, queue <- rxQueue
Tx == INSTANCE Stream WITH Blocks <- TxBlocks, MAX_BLOCK_SIZE <- CLI_TX_BLOCKSIZE,
                           free <- txFree, queue <- txQueue

Smaller(a, b) == IF a < b THEN a ELSE b

(* The bytes a block holds after data was written at its start.            *)
Filled(old, data) ==
  [i \in DOMAIN old |-> IF i <= Len(data) THEN data[i] ELSE old[i]]

Zeroed(blocks, size) == [b \in blocks |-> [i \in 1..size |-> 0]]

Init ==
  /\ Rx!Init /\ rxMem = Zeroed(RxBlocks, CLI_RX_BLOCKSIZE)
  /\ Tx!Init /\ txMem = Zeroed(TxBlocks, CLI_TX_BLOCKSIZE)
  /\ usbRx = << >> /\ usbTx = << >>
  /\ cdcPc = "rx" /\ cdcBlk = NoBlock /\ cdcLen = 0 /\ cdcSent = 0
  /\ cliPc = "init" /\ cliBlk = NoBlock /\ cliLen = 0 /\ cliPos = 0
  /\ cliReady = FALSE /\ todo = 0
  /\ outBlk = NoBlock /\ outSize = 0 /\ outLen = 0
  /\ hostSent = 0 /\ consumed = << >> /\ written = 0 /\ hostGot = << >>
  /\ timeouts = 0 /\ resets = 0 /\ replayed = FALSE /\ shortRead = FALSE

-----------------------------------------------------------------------------
(* The host and the device stack (TinyUSB, run by usb/dev).                *)

(* A packet enters the FIFO only when the whole of it fits.                *)
HostSend(n) ==
  /\ n <= RX_BUFSIZE - Len(usbRx)
  /\ hostSent + n <= MaxHostBytes
  /\ hostSent' = hostSent + n
  /\ usbRx' = usbRx \o [i \in 1..n |-> hostSent + i]
  /\ UNCHANGED <<rxVars, txVars, usbTx, cdcVars, cliVars, hostGot, resets, shortRead>>

(* The host collects the first n bytes of the FIFO.                        *)
HostCollect(n) ==
  /\ n <= Len(usbTx)
  /\ hostGot' = hostGot \o SubSeq(usbTx, 1, n)
  /\ usbTx' = SubSeq(usbTx, n + 1, Len(usbTx))
  /\ UNCHANGED <<rxVars, txVars, usbRx, cdcVars, cliVars, hostSent, resets, shortRead>>

(* A bus reset clears both FIFOs.                                          *)
BusReset ==
  /\ resets < MaxResets
  /\ resets' = resets + 1
  /\ usbRx' = << >> /\ usbTx' = << >>
  /\ UNCHANGED <<rxVars, txVars, cdcVars, cliVars, hostSent, hostGot, shortRead>>

-----------------------------------------------------------------------------
(* The usb/cdc task: cdc_task_function.                                    *)

(* Mutant: the count is the FIFO's size, not what is in it.                *)
CdcRxCheck_fifo_size ==
  /\ cdcPc = "rx"
  /\ usbRx # << >> /\ ~Rx!full
  /\ cdcPc' = "get" /\ cdcLen' = RX_BUFSIZE
  /\ UNCHANGED <<rxVars, txVars, usbRx, usbTx, cdcBlk, cdcSent, cliVars, hostVars, shortRead>>

(* while ((count = tud_cdc_n_available(itf)) > 0 && !rx->full())           *)
CdcRxCheck ==
  /\ cdcPc = "rx"
  /\ usbRx # << >> /\ ~Rx!full
  /\ cdcPc' = "get" /\ cdcLen' = Len(usbRx)
  /\ UNCHANGED <<rxVars, txVars, usbRx, usbTx, cdcBlk, cdcSent, cliVars, hostVars, shortRead>>

CdcRxDone ==
  /\ cdcPc = "rx"
  /\ usbRx = << >> \/ Rx!full
  /\ cdcPc' = "tx"
  /\ UNCHANGED <<rxVars, txVars, usbRx, usbTx, cdcBlk, cdcLen, cdcSent, cliVars, hostVars, shortRead>>

(* Mutant: the continue is missing.                                        *)
CdcNoBlock_falls_through ==
  /\ cdcPc = "get"
  /\ ~Rx!can_get(cdcLen)
  /\ cdcPc' = "send"
  /\ UNCHANGED <<rxVars, txVars, usbRx, usbTx, cdcBlk, cdcLen, cdcSent, cliVars, hostVars, shortRead>>

(* if (!rx->get_block(block, count)) continue;                             *)
CdcNoBlock ==
  /\ cdcPc = "get"
  /\ ~Rx!can_get(cdcLen)
  /\ cdcPc' = "rx" /\ cdcLen' = 0
  /\ UNCHANGED <<rxVars, txVars, usbRx, usbTx, cdcBlk, cdcSent, cliVars, hostVars, shortRead>>

(* get_block and tud_cdc_n_read, whose result is ignored: the span keeps   *)
(* count bytes even when fewer were left in the FIFO.                      *)
CdcRxRead(b) ==
  /\ cdcPc = "get"
  /\ Rx!get_block(b, cdcLen)
  /\ LET n == Smaller(cdcLen, Len(usbRx))
     IN  /\ rxMem' = [rxMem EXCEPT ![b] = Filled(@, SubSeq(usbRx, 1, n))]
         /\ usbRx' = SubSeq(usbRx, n + 1, Len(usbRx))
         /\ shortRead' = (shortRead \/ n < cdcLen)
  /\ cdcPc' = "send" /\ cdcBlk' = b
  /\ UNCHANGED <<rxQueue, txVars, usbTx, cdcLen, cdcSent, cliVars, hostVars>>

(* rx->send(block, 0), whose result is ignored.                            *)
CdcRxSend ==
  /\ cdcPc = "send"
  /\ Rx!send_or_drop(cdcBlk, cdcLen)
  /\ cdcPc' = "rx" /\ cdcBlk' = NoBlock /\ cdcLen' = 0
  /\ UNCHANGED <<rxFree, rxMem, txVars, usbRx, usbTx, cdcSent, cliVars, hostVars, shortRead>>

(* Mutant: the task waits for an empty FIFO.                               *)
CdcTxReceive_empty_fifo(p) ==
  /\ cdcPc = "tx"
  /\ usbTx = << >>
  /\ Tx!receive(p)
  /\ cdcPc' = "write" /\ cdcBlk' = p.data /\ cdcLen' = p.size /\ cdcSent' = 0
  /\ UNCHANGED <<rxVars, txFree, txMem, usbRx, usbTx, cliVars, hostVars, shortRead>>

(* while (!tx->empty() && tud_cdc_n_write_available(itf) > 0) receive; the *)
(* receive cannot miss: usb/cdc is the only task that takes from the queue. *)
CdcTxReceive(p) ==
  /\ cdcPc = "tx"
  /\ Len(usbTx) < TX_BUFSIZE
  /\ Tx!receive(p)
  /\ cdcPc' = "write" /\ cdcBlk' = p.data /\ cdcLen' = p.size /\ cdcSent' = 0
  /\ UNCHANGED <<rxVars, txFree, txMem, usbRx, usbTx, cliVars, hostVars, shortRead>>

(* Mutant: the result of tud_cdc_n_write is ignored.                       *)
CdcTxWrite_result_ignored ==
  /\ cdcPc = "write"
  /\ cdcSent < cdcLen
  /\ LET n == Smaller(TX_BUFSIZE - Len(usbTx), cdcLen - cdcSent)
     IN  usbTx' = usbTx \o SubSeq(txMem[cdcBlk], cdcSent + 1, cdcSent + n)
  /\ cdcSent' = cdcLen
  /\ UNCHANGED <<rxVars, txVars, usbRx, cdcPc, cdcBlk, cdcLen, cliVars, hostVars, shortRead>>

(* while (sent < block.size_bytes()) sent += tud_cdc_n_write(...): a call  *)
(* that finds no room writes nothing, and the task spins.                  *)
CdcTxWrite ==
  /\ cdcPc = "write"
  /\ cdcSent < cdcLen
  /\ LET n == Smaller(TX_BUFSIZE - Len(usbTx), cdcLen - cdcSent)
     IN  /\ n > 0
         /\ usbTx' = usbTx \o SubSeq(txMem[cdcBlk], cdcSent + 1, cdcSent + n)
         /\ cdcSent' = cdcSent + n
  /\ UNCHANGED <<rxVars, txVars, usbRx, cdcPc, cdcBlk, cdcLen, cliVars, hostVars, shortRead>>

CdcTxRelease ==
  /\ cdcPc = "write"
  /\ cdcSent >= cdcLen
  /\ Tx!release(cdcBlk)
  /\ cdcPc' = "tx" /\ cdcBlk' = NoBlock /\ cdcLen' = 0 /\ cdcSent' = 0
  /\ UNCHANGED <<rxVars, txQueue, txMem, usbRx, usbTx, cliVars, hostVars, shortRead>>

(* Mutant: no vTaskDelay.                                                  *)
CdcPassEnd_no_delay ==
  /\ cdcPc = "tx"
  /\ Tx!empty \/ Len(usbTx) >= TX_BUFSIZE
  /\ cdcPc' = "rx"
  /\ UNCHANGED <<rxVars, txVars, usbRx, usbTx, cdcBlk, cdcLen, cdcSent, cliVars, hostVars, shortRead>>

(* Nothing left to write, or no room for it: vTaskDelay(1).                *)
CdcPassEnd ==
  /\ cdcPc = "tx"
  /\ Tx!empty \/ Len(usbTx) >= TX_BUFSIZE
  /\ cdcPc' = "delay"
  /\ UNCHANGED <<rxVars, txVars, usbRx, usbTx, cdcBlk, cdcLen, cdcSent, cliVars, hostVars, shortRead>>

Cdc ==
  \/ CdcRxCheck \/ CdcRxDone \/ CdcNoBlock \/ CdcRxSend
  \/ \E b \in RxBlocks : CdcRxRead(b)
  \/ \E p \in Tx!block_pointer : CdcTxReceive(p)
  \/ CdcTxWrite \/ CdcTxRelease \/ CdcPassEnd

-----------------------------------------------------------------------------
(* The cli task: cli_task_function and the commands object it drives.      *)

(* Low priority: a step of the cli task needs usb/cdc to be delayed.       *)
CliAt(pc) == cdcPc = "delay" /\ cliPc = pc

(* commands.init() ends by writing the greeting.                           *)
CliInit ==
  /\ CliAt("init")
  /\ cliPc' = "getbuf" /\ outSize' = BannerSize
  /\ UNCHANGED <<rxVars, txVars, usbRx, usbTx, cdcVars, inVars, cliReady, todo, outBlk, outLen,
                 written, timeouts, replayed, hostVars, shortRead>>

CliReceive(p) ==
  /\ CliAt("recv")
  /\ Rx!receive(p)
  /\ cliPc' = "chars" /\ cliBlk' = p.data /\ cliLen' = p.size
  /\ UNCHANGED <<rxFree, rxMem, txVars, usbRx, usbTx, cdcVars, cliPos, consumed, outVars, timeouts,
                 replayed, hostVars, shortRead>>

(* MAX_DELAY is 2^32-1 us, which us_to_freertos_ticks makes 4294967 ticks: *)
(* the wait ends after 72 minutes of silence.  The result of receive is    *)
(* ignored, so the loop goes on with the block of the previous iteration.  *)
CliReceiveTimeout ==
  /\ CliAt("recv")
  /\ Rx!empty
  /\ timeouts < MaxTimeouts
  /\ timeouts' = timeouts + 1
  /\ cliPc' = "chars"
  /\ replayed' = (replayed \/ cliBlk # NoBlock)
  /\ UNCHANGED <<rxVars, txVars, usbRx, usbTx, cdcVars, inVars, outVars,
                 hostVars, shortRead>>

(* for (auto c : block) commands.receive_char(c);                          *)
CliReceiveChar ==
  /\ CliAt("chars")
  /\ cliPos < cliLen
  /\ consumed' = Append(consumed, rxMem[cliBlk][cliPos + 1])
  /\ cliPos' = cliPos + 1
  /\ UNCHANGED <<rxVars, txVars, usbRx, usbTx, cdcVars, cliPc, cliBlk, cliLen, outVars, timeouts,
                 replayed, hostVars, shortRead>>

(* Mutant: the position in the block is kept.                              *)
CliRelease_no_rewind(n) ==
  /\ CliAt("chars")
  /\ cliPos >= cliLen
  /\ Rx!release(cliBlk)
  /\ cliPc' = "process" /\ todo' = n
  /\ UNCHANGED <<rxQueue, rxMem, txVars, usbRx, usbTx, cdcVars, cliBlk, cliLen, cliPos, consumed, cliReady,
                 outBlk, outSize, outLen, written, timeouts, replayed, hostVars, shortRead>>

(* rx->release(block), then commands.process(), which the embedded-cli     *)
(* library makes write up to MaxWrites times: echo, prompt and reports.    *)
CliRelease(n) ==
  /\ CliAt("chars")
  /\ cliPos >= cliLen
  /\ Rx!release(cliBlk)
  /\ cliPc' = "process" /\ cliPos' = 0 /\ todo' = n
  /\ UNCHANGED <<rxQueue, rxMem, txVars, usbRx, usbTx, cdcVars, cliBlk, cliLen, consumed, cliReady, outBlk, outSize,
                 outLen, written, timeouts, replayed, hostVars, shortRead>>

(* A write begins by asking for a buffer.                                  *)
CliWrite(size) ==
  /\ CliAt("process")
  /\ todo > 0
  /\ todo' = todo - 1
  /\ cliPc' = "getbuf" /\ outSize' = size
  /\ UNCHANGED <<rxVars, txVars, usbRx, usbTx, cdcVars, inVars, cliReady, outBlk, outLen, written,
                 timeouts, replayed, hostVars, shortRead>>

cli_write_char == CliWrite(1)

(* onps and onperf.                                                        *)
Report == CliWrite(ReportSize)

(* get_write_buffer succeeds and the text is put into the block: all of it *)
(* by write_string, the strlen of the report by onps and onperf.           *)
CliGetBuffer(b, len) ==
  /\ CliAt("getbuf")
  /\ Tx!get_block(b, outSize)
  /\ len = outSize \/ (cliReady /\ outSize = ReportSize)
  /\ txMem' = [txMem EXCEPT ![b] = Filled(@, [i \in 1..len |-> written + i])]
  /\ cliPc' = "send" /\ outBlk' = b /\ outLen' = len
  /\ UNCHANGED <<rxVars, txQueue, usbRx, usbTx, cdcVars, inVars, cliReady, todo, outSize, written,
                 timeouts, replayed, hostVars, shortRead>>

(* Mutant: get_write_buffer does not try again.                            *)
CliNoBuffer_gives_up ==
  /\ CliAt("getbuf")
  /\ ~Tx!can_get(outSize)
  /\ cliPc' = "send"
  /\ UNCHANGED <<rxVars, txVars, usbRx, usbTx, cdcVars, inVars, outVars, timeouts, replayed,
                 hostVars, shortRead>>

(* get_write_buffer: no block yet, vTaskDelay(1) and try again.            *)
CliNoBuffer ==
  /\ CliAt("getbuf")
  /\ ~Tx!can_get(outSize)
  /\ cliPc' = "bufdelay"
  /\ UNCHANGED <<rxVars, txVars, usbRx, usbTx, cdcVars, inVars, outVars, timeouts, replayed,
                 hostVars, shortRead>>

(* commands.send(block, len); a command returns to process(), the greeting *)
(* to the loop's first receive.                                            *)
CliSend ==
  /\ CliAt("send")
  /\ Tx!send(outBlk, outSize, outLen)
  /\ written' = written + outLen
  /\ cliPc' = IF cliReady THEN "process" ELSE "recv"
  /\ cliReady' = TRUE
  /\ outBlk' = NoBlock /\ outSize' = 0 /\ outLen' = 0
  /\ UNCHANGED <<rxVars, txFree, txMem, usbRx, usbTx, cdcVars, inVars, todo, timeouts, replayed, hostVars, shortRead>>

(* process() returns: vTaskDelay(1).                                       *)
CliPassEnd ==
  /\ CliAt("process")
  /\ todo = 0
  /\ cliPc' = "delay"
  /\ UNCHANGED <<rxVars, txVars, usbRx, usbTx, cdcVars, inVars, outVars, timeouts, replayed,
                 hostVars, shortRead>>

Cli ==
  \/ CliInit
  \/ \E p \in Rx!block_pointer : CliReceive(p)
  \/ CliReceiveTimeout \/ CliReceiveChar
  \/ \E n \in 0..MaxWrites : CliRelease(n)
  \/ cli_write_char \/ Report
  \/ \E b \in TxBlocks, len \in 1..outSize : CliGetBuffer(b, len)
  \/ CliNoBuffer \/ CliSend \/ CliPassEnd

-----------------------------------------------------------------------------
(* A kernel tick ends every vTaskDelay(1) begun before it.                 *)
Delayed == cdcPc = "delay" \/ cliPc \in {"delay", "bufdelay"}

Tick ==
  /\ Delayed
  /\ cdcPc' = IF cdcPc = "delay" THEN "rx" ELSE cdcPc
  /\ cliPc' = CASE cliPc = "delay" -> "recv"
                [] cliPc = "bufdelay" -> "getbuf"
                [] OTHER -> cliPc
  /\ UNCHANGED <<rxVars, txVars, usbRx, usbTx, cdcBlk, cdcLen, cdcSent, inVars, outVars, timeouts,
                 replayed, hostVars, shortRead>>

Usb ==
  \/ \E n \in 1..RX_BUFSIZE : HostSend(n)
  \/ \E n \in 1..TX_BUFSIZE : HostCollect(n)
  \/ BusReset

Next == Usb \/ Cdc \/ Cli \/ Tick

Spec == Init /\ [][Next]_vars

-----------------------------------------------------------------------------
(* Fairness.  usb/cdc outranks everything but usb/dev, which never runs    *)
(* forever, and the tick never stops: weak fairness.  The cli task is      *)
(* ready only while usb/cdc is delayed, again and again, and gets the rest *)
(* of every such millisecond: strong fairness.  The host collects a full   *)
(* FIFO, which is a full packet; a partial packet may stay, because the    *)
(* flush call of cdc.h is commented out.                                   *)
CollectFull ==
  /\ Len(usbTx) = TX_BUFSIZE
  /\ \E n \in 1..TX_BUFSIZE : HostCollect(n)

Fairness ==
  /\ WF_vars(Cdc) /\ SF_vars(Cli)
  /\ WF_vars(CollectFull)

FairSpec == Spec /\ Fairness /\ WF_vars(Tick)

(* The same system when no tick falls between the cli task's receive and   *)
(* its release, a window of some microseconds out of each millisecond.     *)
QuickTick == cliPc # "chars" /\ Tick

QuickNext == Usb \/ Cdc \/ Cli \/ QuickTick

QuickFairSpec == Init /\ [][QuickNext]_vars /\ Fairness /\ WF_vars(QuickTick)

-----------------------------------------------------------------------------
(* Type invariant.                                                         *)
TypeOK ==
  /\ Rx!TypeOK /\ rxMem \in [RxBlocks -> [1..CLI_RX_BLOCKSIZE -> Nat]]
  /\ Tx!TypeOK /\ txMem \in [TxBlocks -> [1..CLI_TX_BLOCKSIZE -> Nat]]
  /\ usbRx \in Seq(Nat) /\ Len(usbRx) <= RX_BUFSIZE
  /\ usbTx \in Seq(Nat) /\ Len(usbTx) <= TX_BUFSIZE
  /\ cdcPc \in {"rx", "get", "send", "tx", "write", "delay"}
  /\ cdcPc = "send" => cdcBlk \in RxBlocks
  /\ cdcPc = "write" => cdcBlk \in TxBlocks
  /\ cdcPc \in {"get", "send"} => cdcLen \in 1..RX_BUFSIZE
  /\ cdcPc = "write" => cdcLen \in 0..CLI_TX_BLOCKSIZE
  /\ cdcSent \in 0..CLI_TX_BLOCKSIZE /\ (cdcPc = "write" => cdcSent <= cdcLen)
  /\ cliPc \in {"init", "recv", "chars", "process", "getbuf", "bufdelay", "send", "delay"}
  /\ cliBlk \in RxBlocks \cup {NoBlock}
  /\ cliLen \in 0..CLI_RX_BLOCKSIZE /\ (cliBlk = NoBlock => cliLen = 0)
  /\ cliPos \in 0..cliLen
  /\ cliReady \in BOOLEAN /\ todo \in Nat
  /\ outSize \in 0..CLI_TX_BLOCKSIZE
  /\ cliPc = "send" => outBlk \in TxBlocks /\ outLen \in 1..outSize
  /\ hostSent \in Nat /\ written \in Nat
  /\ consumed \in Seq(Nat) /\ hostGot \in Seq(Nat)
  /\ timeouts \in Nat /\ resets \in Nat
  /\ replayed \in BOOLEAN /\ shortRead \in BOOLEAN

(* The blocks in the hands of the two tasks.                               *)
RxHeld == (IF cdcPc = "send" THEN {cdcBlk} ELSE {})
            \cup (IF cliPc = "chars" THEN {cliBlk} \ {NoBlock} ELSE {})
TxHeld == (IF cdcPc = "write" THEN {cdcBlk} ELSE {})
            \cup (IF cliPc = "send" THEN {outBlk} ELSE {})

RxP == INSTANCE StreamProtocol WITH
         Blocks <- RxBlocks, MAX_BLOCK_SIZE <- CLI_RX_BLOCKSIZE,
         free <- rxFree, queue <- rxQueue, held <- RxHeld
TxP == INSTANCE StreamProtocol WITH
         Blocks <- TxBlocks, MAX_BLOCK_SIZE <- CLI_TX_BLOCKSIZE,
         free <- txFree, queue <- txQueue, held <- TxHeld

(* usb/cdc and cli take, queue, receive and release the blocks of the rx   *)
(* stream by the protocol, in every interleaving, as long as no receive    *)
(* that timed out left the cli task with a block it had already released.  *)
RxFollowsProtocol ==
  RxP!PInit /\ [][RxP!Next \/ replayed']_<<rxFree, rxQueue, RxHeld>>

(* The same for the tx stream, without exception.                          *)
TxFollowsProtocol == TxP!Spec

(* No rx block leaks or has two owners, up to a replay: a timeout before   *)
(* the first block is harmless, because the span is still the null one.    *)
RxOwnership == ~replayed => RxP!Ownership

(* No tx block leaks or has two owners, whatever the host does.            *)
TxOwnership == TxP!Ownership

(* The two results the code ignores: the queue has room whenever usb/cdc   *)
(* sends with a wait of 0, so nothing is dropped, and whenever the cli     *)
(* task sends, so it is never made to wait.                                *)
SendsAccepted ==
  /\ cdcPc = "send" => ~Rx!full
  /\ cliPc = "send" => ~Tx!full

(* get_block of usb/cdc can fail in one case only: the cli task has been   *)
(* interrupted between receive and release.  It outranks the cli task, so  *)
(* nothing but a bus reset then ends its loop.                             *)
SpinBlamesCli ==
  ~replayed /\ cdcPc = "get" /\ ~Rx!can_get(cdcLen) => cliPc = "chars" /\ cliBlk # NoBlock

StrictlyIncreasing(s) == \A i \in 2..Len(s) : s[i-1] < s[i]

(* The CLI is fed each byte at most once and in the order sent, even when  *)
(* bus resets lose bytes, unless a reset struck between                    *)
(* tud_cdc_n_available and tud_cdc_n_read and left old bytes in the span.  *)
RxInOrder == ~replayed /\ ~shortRead => StrictlyIncreasing(consumed)

(* usb/cdc reads what it has counted, although it ignores the result of    *)
(* tud_cdc_n_read: whatever cli, ticks and the host do in between, only a  *)
(* bus reset makes the count of a later read wrong.                        *)
CountStale == cdcPc = "get" /\ cdcLen > Len(usbRx)

StaleOnlyByReset == [][CountStale' => CountStale \/ BusReset]_vars

(* The host gets each byte the CLI wrote at most once and in order, even   *)
(* across bus resets.                                                      *)
TxInOrder == StrictlyIncreasing(hostGot)

(* Without resets and timeouts each direction is a lossless bounded        *)
(* channel: what the host sends is consumed exactly, and it is held back   *)
(* when the FIFO and all the blocks are full.                              *)
RxChannel == INSTANCE ByteChannel WITH
  Capacity <- RX_BUFSIZE * (Rx!COUNT + 1), sent <- hostSent, got <- consumed
TxChannel == INSTANCE ByteChannel WITH
  Capacity <- TX_BUFSIZE + CLI_TX_BLOCKSIZE * Tx!COUNT, sent <- written, got <- hostGot

RxLossless == RxChannel!Spec
TxLossless == TxChannel!Spec

(* The usb/cdc task always comes back to its vTaskDelay: thread.h gives    *)
(* tasks of priority High "short deadlines, not much processing".          *)
CdcKeepsPace == []<>(cdcPc = "delay")

(* Every byte the host sends is eventually fed to the CLI.                 *)
EveryByteConsumed ==
  \A n \in 1..MaxHostBytes : hostSent >= n ~> Len(consumed) >= n

(* Everything the CLI writes eventually leaves the tx stream for the FIFO. *)
MaxWritten == BannerSize + MaxHostBytes * MaxWrites * ReportSize

EveryWriteHandedOver ==
  \A n \in 1..MaxWritten : written >= n ~> Len(hostGot) + Len(usbTx) >= n
=============================================================================

# unav2_firmware in TLA+

A formal model of the firmware of the unav2 motor controller board: C++ on an STM32F405 (one core), FreeRTOS, TinyUSB,
the Embedded Template Library (ETL) and embedded-cli. Paths below are relative to `src/app/` of the repository.
ETL, embedded-cli, TinyUSB, FreeRTOS and the STM32 HAL are submodules whose code is not in the tree; they are modelled
from the way this code uses them and marked external in `PROJECT.json`.

## 1. The system

At this commit the firmware boots, brings up a USB serial port and offers a command line on it (`ps`, `perf`).
Three tasks of its own and two of the kernel run, each with its own fixed priority:

| task | priority | what it does |
|---|---|---|
| `usb/dev` | Highest | `tud_init`, then `tud_task` for ever: handles what the USB interrupt has queued |
| `usb/cdc` | High | every tick: bytes from the CDC rx FIFO into blocks of the rx stream; blocks of the tx stream into the CDC tx FIFO |
| `Tmr Svc` | Mid | the kernel's timer task: carries out timer commands, calls timers back (no timer exists yet) |
| `cli` | Low | waits for a block of the rx stream, feeds its bytes to the CLI, answers through blocks of the tx stream |
| `IDLE` | Idle | runs while all others wait; its hook is empty |

```
 host --OUT--> rx FIFO --[usb/cdc]--> rx stream --[cli]--> embedded-cli
 host <--IN--- tx FIFO <-[usb/cdc]--- tx stream <-[cli]--- reports, echo, prompt
```

### Components

| component | code | state | operations | modelled in |
|---|---|---|---|---|
| block stream | `include/io/stream.h`, `bidirectional_stream.h`, `wrappers/private/queue_w.h` | pool of COUNT blocks, queue of COUNT block pointers | `get_block`, `send` (two forms), `receive`, `release`, `full`, `empty` | `Stream`, `StreamProtocol` |
| usb/cdc task | `include/io/usb/cdc.h` | a block, a count, bytes sent | the two loops of a pass, `vTaskDelay(1)` | `SerialBridge` |
| cli task and commands | `include/modules/cli/module.h`, `src/modules/cli/cli_commands.cpp`, `cmd_handlers/task_list.h` | a block kept over iterations, a tx block | `receive`, `receive_char`, `release`, `process`, `get_write_buffer`, `send`, `init` | `SerialBridge` |
| data path | the three above, with host and FIFOs | everything in flight | | `SerialBridge` against `ByteChannel` |
| boot sequence | `src/main.cpp`, `include/application.h`, `src/startup_stm32f405xx.s`, `src/system_stm32f4xx.c` | clock registers and their copies, time bases, creation of tasks | reset handler … scheduler … first steps of the tasks | `Boot` |
| HAL time base | `src/stm32f4xx_hal_timebase_tim.c`, `src/stm32f4xx_it.c` | TIM10, `uwTick` | `HAL_InitTick`, the interrupt | `Boot` |
| board, LEDs | `src/bsp/board.cpp` | USB pins, interrupt priority, LED pins | `init`, `set`, `init_usb_hw`, `OTG_FS_IRQHandler` | `Boot` |
| tasks and priorities | `include/wrappers/thread.h`, `FreeRTOSConfig.h` | state of each task | preemption, exceptions, pending switches | guards of `SerialBridge`, `Runs` of `Boot`, `KernelObjects` |
| queues, semaphores, timers | `include/wrappers/` | kernel objects | every function, for tasks and for interrupts; no caller of semaphores, timers and the interrupt variants at this commit | `KernelObjects` |
| cycle-counter timing | `include/timing.h` | `DWT->CYCCNT`, `ticks_per_us` | conversions, differences | `Timing`, `PerfCounter`, `Boot` |
| performance counters | `include/instrumentation.h` | `max`, `min`, `value`, `partial_timer` | `set`, `increment`, `timed_start`, `timed_end`, `track_period` | `PerfCounter` |
| USB descriptors | `src/io/usb/cdc/usb_descriptors.c`, `tusb_config.h` | one static buffer for all strings | the three callbacks | `UsbDescriptors` |
| FreeRTOS support, assertions | `src/freertos_support.cpp`, `src/custom_assert.c`, `configASSERT` | none of their own | `Error_Handler`, `abort`, memory of the kernel's tasks | `Boot`, `KernelObjects` |
| build, linker script, selection of HAL drivers, logging | | none | | not modelled |

### What is hard here

* **Preemption in the middle of a block's life.** `usb/cdc` may interrupt `cli` at any tick, so a block can be in two
  tasks' code at once. Blocks must not leak, nor have two owners (`RxOwnership`, `TxOwnership`, `…FollowsProtocol`).
* **Ignored results.** `cdc.h:91` drops the result of `send`, `cdc.h:90` that of `tud_cdc_n_read`, `module.h:45` that of
  `receive`. The first is harmless for a reason found elsewhere (`SendsAccepted`), the second up to a bus reset in between
  (`StaleOnlyByReset`); what follows the third, after 72 minutes, is stated nowhere and no property covers it.
* **Waiting inside a High task.** Two loops of `usb/cdc` have no delay (`cdc.h:88`, `cdc.h:99`). Whoever they wait for
  must be able to run (`CdcKeepsPace`, `SpinBlamesCli`).
* **Back-pressure end to end.** A slow CLI or host must hold bytes back, not lose them (`RxLossless`, `TxLossless`).
* **Faults.** Bus resets clear the FIFOs between any two steps; a wait "for ever" ends after 72 minutes.
* **Order during boot.** Nothing but the priorities puts `tud_init` before the first use of the stack; three copies of
  the core clock are taken at different moments (`CdcFindsAll`, `UsbIrqSafe`, `Calibrated`, `TimeBase1ms`).
* **Strings from one buffer.** Each string descriptor overwrites the previous one, while the control endpoint reads the
  answer packet by packet through a pointer (`HostReadsRight`, `StaysInside`).
* **Calls from interrupts.** An interrupt that is too urgent breaks the kernel's critical sections; one that forgets to
  ask for a switch leaves a woken task waiting for the next tick (`KernelExclusive`, `HighestRuns`).
* **Dropped results of timers.** `Timer` ignores whether its command was queued (`TaskCommandsKept`), and a period of
  less than a tick fails an assertion inside the kernel (`HaltsOnlyForShortPeriod`, `HaltIsFinal`).
* **Numbers.** A counter that wraps every 25.6 s, extremes that decay for ever, 32-bit products
  (`TimedExact`, `Envelope`, `DecayInRange`, `RoundTrip`).

`PROJECT.json` lists every hazard at its line with the properties that would catch it, or the reason why none does.

## 2. Modules

```
 Stream ── StreamProtocol ── StreamProtocol_proofs
   │             │                  │
   └─────── SerialBridge ── SerialBridge_proofs ── SerialBridgeOrder_proofs ── SerialBridgeLossless_proofs
 ByteChannel ────┘   └── MCSerialBridge
 Boot ── Boot_proofs
 UsbDescriptors ── MCUsbDescriptors, UsbDescriptors_proofs
 KernelObjects ── MCKernelObjects, KernelObjects_proofs
 Timing ── PerfCounter ── MCPerfCounter, PerfCounter_proofs
```

**`Stream`**: one `stream_impl<MAX_BLOCK_SIZE, COUNT>`. `free` is the memory pool, `queue` the FreeRTOS queue of
`(data, size)` pairs. Each operation of the class is an operator on these two; `SerialBridge` and `StreamProtocol` make
actions of them. `allocate` hands out any free block; `release` of the null block does nothing.

**`StreamProtocol`** (abstract specification): what clients of a stream must do (take, queue, receive, release, and only
what they hold), for any number of clients. The set `held` replaces the clients.

**`ByteChannel`** (abstract specification): a bounded channel that delivers each byte once and in order. Bytes are
numbered in the order they were put in.

**`SerialBridge`**: the composition. `cdcPc` is the place of `usb/cdc` in `cdc_task_function`: `rx` at the condition of
the rx loop, `get` before `get_block`, `send` before `send`, `tx` at the condition of the tx loop, `write` in the write
loop, `delay` in `vTaskDelay(1)`. `cliPc` is the place of `cli`: `init`, `recv`, `chars` (the `for` over the block),
`process`, `getbuf`/`bufdelay` (the loop of `get_write_buffer`), `send`, `delay`. One action is the code between two
points at which another actor can change what the code reads next. The priorities appear as the guard `CliAt`: `cli` moves
only while `usb/cdc` is delayed. The USB side (`HostSend`, `HostCollect`, `BusReset`) moves at any time, since `usb/dev`
outranks both. The line editor is external: `process()` makes any number of writes up to `MaxWrites`, each of one
character or of a report.
Two history variables mark what makes the ignored results visible: `replayed` (a `receive` timed out while the task still
had the span of a released block) and `shortRead` (fewer bytes were left than had been counted). They guard nothing.

**`Boot`**: `main` is the place of the thread of `main()`; `state` and `place` those of the tasks. RAM is arbitrary
until `Reset_Handler` has run. Interrupts happen between any two steps once enabled. The clock tree is the fields of the
two clock registers that the code sets (`CFGR`, `PLLCFGR`) and what the hardware makes of them (`Hclk`, `Tim10Clock`,
`UsbClock`); `SystemCoreClock`, `ticks_per_us`, `systick` and `tim10Psc` are the copies that the software computes.
`SystemCoreClockUpdate` is the code of `system_stm32f4xx.c` that nothing calls; the HAL, which is external, is taken to
compute the same from the same tables. An LED whose port is null in the board's table is passed over, and the registers
of a port without a clock take no writes.

**`UsbDescriptors`**: the callbacks of `usb_descriptors.c`, which return pointers, and the control endpoint, which sends
packets from there. A character is known by the string it belongs to, so a character of an earlier string shows. A host
may ask for anything, in any length, and break off anywhere. The lengths of the texts are a parameter.

**`KernelObjects`**: every function of the three wrappers, called by any tasks of any priorities, by the USB interrupt and
by the callback of a timer. A call enters a critical section of the kernel, has its effect, wakes at most one task (the
most urgent of those that wait), and leaves; a task that must wait tries again when it has been woken. `active` are the
exception handlers that have begun; levels and the mask decide which exception may come next, `yield` is the pending
PendSV, and `current` changes in `PendSV_Handler` only. `TmrSvc` is the kernel's timer task: it carries out the commands
in its queue and calls a timer back, late ones at once. A timer's callback may call the wrappers too; by the kernel's rule
it does not wait, but `Timer`'s own functions wait up to a block time for room in the very queue their caller empties,
and the model has them do so. The clients keep to the kernel's documented rules and to nothing else.

**`Timing`**: the conversions of `timing.h` on words of any width `WORD` (2^32 in the code), wrap-around included.

**`PerfCounter`**: one counter, the running cycle counter and a client that calls in any order. `value` starts arbitrary,
as the constructor leaves it. Every reading of the cycle counter is a step of its own, and time passes between them
(`Elapse`), since the task may be preempted: `pc` is the next reading in the running call, `ticks` the second one of
`track_period`, `stamp` that of `update_stats`; `period` is the local variable of `track_period` in between. Integers are
`int32_t`: sums and products wrap, as the processor's do, and a `max--` or `min++` at the end of the type, which is
undefined, is a choice (`Decayed`): it wraps, or the compiler has turned the comparison into one with the old extreme and
takes the new value. `elapsed`, `sinceCall`, `interval`, `lost`, `samples` and `untracked` are history: what the code has
no record of and the properties compare it with.

Operators whose name extends that of an action (`CdcTxWrite_result_ignored` …) are the same action with a plausible bug.
They belong to no specification; each property is known to fail when one of them takes the action's place
(`PROJECT.json`, "mutants").

## 3. What the runs check

| run | configuration | what it shows |
|---|---|---|
| `stream_protocol` | 3 blocks of 2 bytes | any clients that keep the protocol keep `Ownership`, and always find room (`HolderCanSend`) |
| `bridge_lossless` | 2+2 blocks, 4 bytes from the host, 1 write per `process()`, no faults | both directions implement `ByteChannel` (`RxLossless`, `TxLossless`); `usb/cdc` lacks a block only when it has interrupted `cli` between `receive` and `release` (`SpinBlamesCli`) |
| `bridge_rx_faults` | 4 bytes, one reset, one timed-out receive | rx follows `StreamProtocol`, keeps its blocks, feeds bytes in order and at most once, up to a replay or short read; what `usb/cdc` has counted is still there when it reads, but for a reset (`StaleOnlyByReset`) |
| `bridge_tx_faults` | 1 byte that causes up to 3 writes, one reset | tx follows `StreamProtocol`, no ignored or unbounded send meets a full queue (`SendsAccepted`), output in order and at most once |
| `bridge_live` | 3 bytes, `QuickFairSpec` | `usb/cdc` comes back to its delay again and again; every byte is consumed, every reply is handed over |
| `bridge_spin` (violation) | the same, `FairSpec` | finding 1 |
| `boot` | 8 MHz crystal, timeouts 100/2, 3 events | use after initialisation, safe USB interrupt, right time bases, all tasks reach their loops |
| `boot_dead_crystal` (violation) | the same | finding 2 |
| `perf_counter` | 8-bit words, 6 cycles per µs, 3 calls, samples -128, 5 and 127 | exact extremes and times across wraps, averages between old value and period (`TrackAverages`), conversions that come back |
| `perf_untracked` (violation) | the same | finding 3 |
| `usb_enumeration` | packets of 16 bytes, seven lengths of request, texts of 0 to 255 characters | every string is read as defined, in any order and after any break; nothing is read or written outside |
| `kernel_objects` | 4 tasks, queues of 1, waits of 0 and 1 tick, periods of 0 and 1 tick | critical sections exclude each other, the most urgent ready task runs, commands of tasks are kept, only a short period stops the system, and then for good (2 to 3 minutes) |

**Bounds.** The rx stream has two blocks in the code and in the model; the tx stream likewise. Block and FIFO sizes are 2
instead of 64, 420 and 128: enough for a FIFO to be empty, partly filled and full, for a block to be written in pieces,
and for a short read. Four host bytes fill the FIFO and one block, so that with smaller reads both blocks are queued,
one is held and the FIFO refills. With three writes the tx pool of two is exhausted. `MaxHostBytes`, `MaxWrites`,
`MaxResets`, `MaxTimeouts` bound histories only; the theorems hold without them being small. In the safety runs the
blocks of a pool are symmetric: no action prefers one. The liveness runs do not use symmetry. `MaxEvents` bounds the
requests of the host during one boot. In `perf_counter`, steps of 64 and 192 cycles make the 8-bit counter wrap within two
to four steps, a single interval exceed a turn, and quotients stay within a byte, as 2^32/168 stays within an `int32_t`;
6 cycles per µs divide neither step, so that quotients are rounded. Three calls are one that sets `value` and two of
`track_period`, the second of which measures from the first. The samples are the two ends of the type and a small one:
after an end has been recorded the decay overflows.
In `usb_enumeration`, packets are of 16 bytes, not 64, so that a string takes up to four and can be broken off in
between; the lengths a host asks for lie below, at and above those of the tables. In `kernel_objects` the tasks are the
idle task, one client below and one above the timer task: with them each call can interrupt, wake, be woken by, and wait
behind a more and a less urgent one. One place in each queue and one tick of waiting make full and empty, in time and too
late, the ordinary cases. It checks no deadlock, because a failed `configASSERT` does stop everything.

**Fairness.** `Cdc` is weakly fair: only `usb/dev` outranks it, which handles a finite number of events. `Tick` is weakly
fair: the kernel's timer never stops. `Cli` is strongly fair: it is ready only while `usb/cdc` is delayed, which recurs,
and gets the rest of each such millisecond. `CollectFull`: the host collects full packets; a partial packet may stay in
the FIFO because `tud_cdc_n_write_flush` is commented out (`cdc.h:101`), hence `EveryWriteHandedOver` promises no more
than the FIFO. A host that never collects stops `usb/cdc` in its write loop (`cdc.h:99`) and with it both directions;
nothing is promised then. Nothing is assumed of `HostSend` or `BusReset`. In `Boot`, the processor, the enabled
interrupts, a good crystal, the PLL and the tick are weakly fair, and `cli` strongly.

`QuickFairSpec` adds one assumption the code does not guarantee: no tick falls while `cli` is between `receive` and
`release`. It is there to show that this window is the only obstacle to the liveness properties: with it they hold,
without it `CdcKeepsPace` fails.

## 4. Findings

1. **`cdc.h:88`, livelock.** If `usb/cdc` interrupts `cli` between `receive` and `release` while the other rx block is
   queued and bytes are waiting, the queue is not full but the pool is empty. `get_block` fails and `continue` retries
   without a delay, at a priority above that of the only task that can release a block. Only a bus reset ends the loop.
   `thread.h:26-27` says of priority High "Urgent tasks, short deadlines, not much processing". (`bridge_spin`;
   `SpinBlamesCli`, proved, says that this is the only way to get there.)
2. **`main.cpp:12`, the crystal's timeout.** `SystemClock_Config` runs before `HAL_Init`, so the tick that times
   `HSE_STARTUP_TIMEOUT` ("Time out for HSE start up, in ms", `stm32f4xx_hal_conf.h:100`) stands still: with a dead
   crystal the program polls for ever and `Error_Handler` is not reached. The order alone would not mend it: TIM10
   interrupts every millisecond (proved: `TimeBase1ms`), but its callback `HAL_TIM_PeriodElapsedCallback` is defined
   nowhere in the program and nothing calls `HAL_IncTick` (`stm32f4xx_it.c:88`), so that "TIM10 as a time base source"
   (`stm32f4xx_hal_timebase_tim.c:34`) is no time base. (`boot_dead_crystal`)
3. **`instrumentation.h:66`, `track_period`.** "Used to determine the average period between each call"
   (`instrumentation.h:63`), but it sets the timer only if the timer is already set, and the constructor clears it.
   (`perf_untracked`)

Not a finding, since no line of the code says otherwise: with a full command queue, a `start`, `stop` or `set_period` from
an interrupt, or from a callback whose block time ends, is dropped without a trace; `TaskCommandsKept` says when one from
a task can be. A `set_period` below 1000 µs stops the system from inside the timer task, later than the call. And
`track_period` reads the cycle counter twice (`instrumentation.h:67-68`): what passes between the two readings, a
preemption for one, belongs to no period, so that the next one comes out short by as much. `TrackAverages` states exactly
this; the comment in line 63 promises no precision.

## 5. What is proved

All theorems hold for every value of the constants that the named `ASSUME`s admit (`StreamAssumption`,
`BridgeAssumption`, `BootAssumption`, `TimingAssumption`, `PerfAssumption`, `UsbAssumption`, `KernelAssumption`,
`HandlersAreNoTasks`). `BridgeAssumption` records what the sizes in
`tusb_config.h` and `module.h` provide: a FIFO's content fits an rx block, and the texts fit a tx block.

* **`StreamProtocol_proofs`**: `PTypeCorrect`, `OwnershipCorrect`, `HoldersCanSend`. `PTypeOK /\ Ownership` is inductive.
  That a holder finds room is a counting argument: the queued blocks are different from each other and from the held one,
  so fewer than COUNT (`ShortQueue`).
* **`SerialBridge_proofs`**: `TypeCorrect`. `TypeOK` alone is not inductive: `TypeInv` adds that the cli task is at the
  start of its block, outside of the loop over its characters.
  Then the two streams follow the protocol (`RxRefinement`, `TxRefinement`), hence
  `RxOwnershipCorrect`, `TxOwnershipCorrect`, `SendsAlwaysAccepted`, `SpinAlwaysBlamesCli`. Each step of `SerialBridge` is
  shown to be a step of `StreamProtocol` or a stutter under `held <- RxHeld` (`TxHeld`), and the step lemma of the
  protocol's own proof is used through an instance. The strengthening `BridgeInv` adds to the types and to `Ownership`:
  the two tasks hold *different* blocks, which a set of held blocks cannot say, and the rx queue has room from `usb/cdc`'s
  test until its send (`RoomInv`), since `usb/cdc` alone adds to that queue.
  Two results are the part of `CdcKeepsPace` that is no liveness. `PassesAreBounded` counts the steps left in a pass of
  `usb/cdc` (`StepsLeft`, at most `PassBound`, a formula in the sizes): each step lowers it except a `get_block` that
  fails, and nobody else changes it, not even a host that keeps refilling the FIFO, because every round of the rx loop
  uses up a place of the rx queue. So a pass that does not end waits for the host to take bytes from a full FIFO, or fails
  in `get_block` again and again, which by `SpinAlwaysBlamesCli` happens only while the interrupted cli task holds a block
  (or after a replay). `SpinEndsOnlyByReset` shows that this loop, the one run `bridge_spin` finds, is then left only by a
  bus reset.
* **`SerialBridgeOrder_proofs`**: `RxAlwaysInOrder`, `TxAlwaysInOrder`, across bus resets and in every interleaving.
  What is on its way in a direction is a *chain* of sequences, from what has arrived to what was just put in:
  `consumed`, the rest of the cli task's block, the queued blocks, the block of `usb/cdc`, the FIFO (`RxStages`,
  `TxStages`). Each rises and lies below all that come behind it (`Chain`). Every step then does one of three things to
  the chain, each a lemma: the head of one sequence goes to the end of the one before (`Moved`), sequences are taken as
  they are with empty ones between (`Picked`, which also covers what a reset drops), or the next numbers are added at
  the end (`Extended`). That a block being filled is none of the chain's is where `Ownership` is needed, so rx keeps its
  order only as long as no block is replayed. The same lemmas say which steps *lose* nothing: a chain is complete when
  every number up to the last one is in it (`Complete`), and `Kept` says a step keeps order and completeness together.
* **`SerialBridgeLossless_proofs`**: `RxLossless` and `TxLossless` for all sizes and bounds, as `RxIsLossless` (no
  resets, no timeouts, the setting of the run) and `TxIsLossless` (no resets, any timeouts), which are corollaries of
  two statements that also hold with faults: up to the first reset or replayed block every step of the rx path is a step
  of `ByteChannel` (`RxLosslessUntilFault`), up to the first reset every step of the tx path (`TxLosslessUntilReset`).
  `StaleAlwaysByReset`: a count of `usb/cdc` goes stale by a bus reset only, because it alone takes from the rx FIFO.
  `LosslessInv` adds completeness of both chains, that without resets no read comes out short (`NoShortRead`) and that
  no rx span exceeds the FIFO (`RxSizes`). Two arguments then give the channel. A first sequence that rises, of a
  complete chain, below everything else, is exactly 1, 2, 3... (`ArrivedExactly`, by the least number out of place). And
  the channel's capacity needs no sum over buffers: every number that is on its way has a place of its own, a byte of
  the FIFO or of one of the blocks, so there are no more of them than places (`NoMoreThanPlaces`, `CountPlaces`).
* **`Boot_proofs`**: `CdcAlwaysFindsAll`, `UsbIrqAlwaysSafe`, `AlwaysCalibrated`, `TimeBaseCorrect`, `BootTypeCorrect`,
  for every crystal of whole MHz. `BootInv` says from which point of `main()` each register has its final value, and that
  `usb/dev` stays ready from its creation until it has run `tud_init`; with its priority nothing else can run before.
* **`PerfCounter_proofs`**: `CounterTypes`, `EnvelopeCorrect`, `DecayNeverOverflows`, `TimedAlwaysExact`,
  `TrackAlwaysAverages`, `RoundTripCorrect`, for words of any even width and any number of updates. `CounterInv` adds to
  the types and `Envelope` what the extremes are before the first update, and `Gaps`: outside `track_period` the time
  since the last call is the time since the timer was set and the time `lost` before that in the call; in it, `period`
  is the interval from call to call less `lost`. `Envelope` and `DecayInRange` hold as long as no end of `int32_t` has
  been recorded (`Inside`): the extremes then stay where the decay is defined (`InsideRange`). That no time is taken for
  "no timeout" in `RoundTrip` rests on `ticks_per_us` (168) being even.
* **`UsbDescriptors_proofs`**: `UsbTypeCorrect`, `HostAlwaysReadsRight`, `AlwaysInside`, for all texts, packet sizes and
  requests. `UsbInv` adds to the types that while a string is being sent, the buffer begins with exactly its characters
  and its length (`Answer`), and that what is sent is no longer than its table (`Table`).
* **`KernelObjects_proofs`**: `KernelTypeCorrect`, `KernelAlwaysExclusive`, `HighestAlwaysRuns`, `HaltsOnlyThen`,
  `HaltAlwaysFinal`, for any tasks, priorities, capacities, waits and periods. `KernelInv` is `TypeOK` with `Sections`
  (who is in a critical section and which handlers are active exclude each other, because no handler that enters one is
  more urgent than the mask), `CallsInv` (the shape of the calls in progress), `Scheduled` (a switch is pending, or the
  current task is ready and none that is ready outranks it) and `ShortPeriods` (a period of 0 ticks, whether in a call,
  in the command queue or carried out, was asked for as less than 1000 µs). `TaskCommandsAlwaysKept` rests on the
  stronger `CommandsInv`: a task's call with a command that has not waited is ready and still has its block time
  (`TaskWaits`), and the timer task is blocked only while its queue is empty or while it waits for room in it
  (`TimerWaits`).

**Only model-checked**: what must eventually happen (`CdcKeepsPace`, `EveryByteConsumed`, `EveryWriteHandedOver`,
`BootCompletes`). Liveness under fairness, and ENABLED with it, is out of the prover's reach; what of `CdcKeepsPace` is
safety is proved (`PassesAreBounded`). The prover cannot instantiate the library's induction theorems either, which take
an operator as a parameter: where a proof needs induction over numbers it takes the least counterexample, which exists
because `<` is well-founded (`LeastElement`). The modules have no RECURSIVE operator.

## 6. What is not modelled

* The insides of the ETL pool (`stream.h:48`): its code is not in the repository, so whether `allocate` and `release`
  survive preemption cannot be read off. The model takes them as atomic; the hazard is listed.
* embedded-cli's editing, history and parsing; TinyUSB's endpoints; the HAL beyond what the boot relies on.
* Texts, formatting, logging, the linker script, the choice of drivers in `stm32f4xx_hal_conf.h`, the fields of the
  descriptor tables that only a host interprets.
* `SystemInit_ExtMemCtl` and the tables of external memory in `system_stm32f4xx.c`: not compiled for this board, and more
  than half of that file.
* Undefined results other than those of `PerfCounter`'s integers: of an `increment` or a product in `track_period` that
  overflows the model has the processor's result only, of the decay at the ends of `int32_t` two. Two contexts that use
  one counter at once: nothing says they may. `Instrumentation::search` and `create` (`instrumentation.h:108-130`) are
  private and never called.
* `HAL_SuspendTick`, `HAL_ResumeTick`, `board::toggle`, `get_uid`: no caller. The fault handlers are endless loops, after
  which nothing follows.
* The kernel's run-time counter (`freertos_support.cpp:20`), which only its statistics read, and the stack-overflow hook:
  the use of stacks is not modelled.

## 7. Plan

Order of work, most important behaviour first. Done: `Stream`, `StreamProtocol`, `SerialBridge` with `ByteChannel`,
`Boot`, `Timing`, `PerfCounter`, `UsbDescriptors`, `KernelObjects`, and the proofs listed above. Left:

1. **A second serial interface**: `cdc.h` loops over `CFG_TUD_CDC` interfaces; one is configured. A model with two streams
   would show whether a stuck one starves the other.
2. **Run-time statistics**: `getRunTimeCounterValue` (`freertos_support.cpp:20`) returns a time that wraps at 25.6 s and
   not at 2^32, which `ps` reports as shares of the run time.

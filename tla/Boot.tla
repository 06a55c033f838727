-------------------------------- MODULE Boot --------------------------------
(***************************************************************************)
(* From reset to running tasks: the reset handler, the static              *)
(* constructors, main() with its clock set-up, Application::setup, the     *)
(* start of the scheduler and the first steps of the three tasks.          *)
(* Interrupts (TIM10, the HAL's time base, and OTG_FS) fall between any    *)
(* two steps from the moment they are enabled.                             *)
(*                                                                         *)
(* The HAL, the kernel and the device stack are external: their calls do   *)
(* here what this program relies on.  Frequencies are in Hz.               *)
(***************************************************************************)
EXTENDS Naturals, Sequences

CONSTANTS
  HSE_VALUE,            (* frequency of the crystal: 8 MHz                  *)
  PLL_TIMEOUT_VALUE,    (* ms, of the HAL                                  *)
  MaxEvents             (* bound: USB events, and packets, of one boot     *)

MHz == 1000000
HSI_VALUE == 16 * MHz
HSE_STARTUP_TIMEOUT == 100

ASSUME BootAssumption ==
  /\ HSE_VALUE \in Nat \ {0} /\ HSE_VALUE % MHz = 0
  /\ PLL_TIMEOUT_VALUE \in Nat /\ MaxEvents \in Nat

VARIABLES
  main,      (* where the thread of main() is                              *)
  crystal, hseReady, pllReady,  (* oscillator, and its ready flags         *)
  CFGR, PLLCFGR,  (* the registers of the clocks                           *)
  SystemCoreClock,    (* the core clock as the software believes it        *)
  uwTick, tickstart,  (* the HAL's ms counter, and where a wait began      *)
  tim10On, tim10Psc, tim10Pending, (* TIM10: enabled, prescaler, interrupt *)
  ticks_per_us, systick, (* of Timing; reload of the kernel's timer, 0: off *)
  gpioClk,   (* the clocks of the GPIO ports are on                        *)
  outputs, lit,   (* LEDs whose pins are outputs, and those switched on    *)
  built,     (* the streams and their queues have been constructed         *)
  linked,    (* serial_interface.streams[0] is not null                    *)
  usbPins, otgPriority, (* pins and clock of the USB core; its IRQ priority *)
  stackUp,   (* tud_init has returned: queue created, interrupt enabled    *)
  otgPending, events, (* interrupt pending; events in the stack's queue    *)
  budget,    (* what is left of MaxEvents                                  *)
  state,     (* of each task: "none", "ready" or "blocked"                 *)
  place      (* of each task: "start", or "loop" once its set-up is done   *)

oscVars   == <<crystal, hseReady, pllReady>>
clockVars == <<CFGR, PLLCFGR, SystemCoreClock>>
tickVars  == <<uwTick, tickstart>>
timVars   == <<tim10On, tim10Psc, tim10Pending>>
calVars   == <<ticks_per_us, systick>>
ramVars   == <<built, linked>>
ledVars   == <<gpioClk, outputs, lit>>
usbVars   == <<usbPins, otgPriority, stackUp, otgPending, events, budget>>
taskVars  == <<state, place>>
vars == <<main, oscVars, clockVars, tickVars, timVars, calVars, ramVars, ledVars, usbVars,
          taskVars>>

Tasks == {"usb/dev", "usb/cdc", "cli", "Tmr Svc"}

(* Mutant: the device task is given the priority Mid.                      *)
Priority_dev_mid(t) ==
  CASE t = "usb/dev" -> 3 [] t = "usb/cdc" -> 5 [] t = "Tmr Svc" -> 3 [] t = "cli" -> 1

(* Highest, High and Low, of configMAX_PRIORITIES = 7, and                 *)
(* configTIMER_TASK_PRIORITY.                                              *)
Priority(t) ==
  CASE t = "usb/dev" -> 6 [] t = "usb/cdc" -> 5 [] t = "Tmr Svc" -> 3 [] t = "cli" -> 1

configLIBRARY_MAX_SYSCALL_INTERRUPT_PRIORITY == 5

(* The ports of the LEDs: the table of three names only the first.         *)
BoardLeds == {"activity", "warning", "error"}
is_valid(led) == led = "activity"

-----------------------------------------------------------------------------
(* The clock tree, and the software's picture of it.  sws selects the      *)
(* internal oscillator (0), the crystal (4) or the PLL (8).                *)

AHBPrescTable == <<0, 0, 0, 0, 0, 0, 0, 0, 1, 2, 3, 4, 6, 7, 8, 9>>
APBPrescTable == <<0, 0, 0, 0, 1, 2, 3, 4>>
ShiftRight(n, bits) == n \div <<1, 2, 4, 8, 16, 32, 64, 128, 256, 512>>[bits + 1]

(* What SystemCoreClockUpdate computes from the registers, and likewise    *)
(* the HAL when it has changed them.                                       *)
SystemCoreClockUpdate(cfg, pll) ==
  LET pllvco == ((IF pll.src # 0 THEN HSE_VALUE ELSE HSI_VALUE) \div pll.m) * pll.n
      clock == IF cfg.sws = 8 THEN pllvco \div ((pll.p + 1) * 2)
               ELSE IF cfg.sws = 4 THEN HSE_VALUE ELSE HSI_VALUE
  IN ShiftRight(clock, AHBPrescTable[cfg.hpre + 1])

(* HAL_RCC_GetPCLK2Freq.                                                   *)
GetPCLK2Freq(coreClock, cfg) == ShiftRight(coreClock, APBPrescTable[cfg.ppre2 + 1])

(* The hardware: dividers of 1, 2, 4, ... (32 is left out for the core),   *)
(* and a timer that runs at PCLK2 or, if that is divided, at twice PCLK2.  *)
AhbDivider(cfg) == IF cfg.hpre < 8 THEN 1 ELSE <<2, 4, 8, 16, 64, 128, 256, 512>>[cfg.hpre - 7]
ApbDivider(cfg) == IF cfg.ppre2 < 4 THEN 1 ELSE <<2, 4, 8, 16>>[cfg.ppre2 - 3]
Vco(pll) == ((IF pll.src = 1 THEN HSE_VALUE ELSE HSI_VALUE) \div pll.m) * pll.n
Hclk(cfg, pll) ==
  (IF cfg.sws = 0 THEN HSI_VALUE ELSE IF cfg.sws = 4 THEN HSE_VALUE ELSE Vco(pll) \div (2 * (pll.p + 1)))
    \div AhbDivider(cfg)
UsbClock(pll) == Vco(pll) \div pll.q
Tim10Clock(cfg, pll) ==
  IF cfg.ppre2 < 4 THEN Hclk(cfg, pll) ELSE 2 * (Hclk(cfg, pll) \div ApbDivider(cfg))

-----------------------------------------------------------------------------
(* Power-on: peripherals have their reset values, RAM holds anything.      *)
Init ==
  /\ main = "Reset_Handler"
  /\ crystal \in {"good", "dead"} /\ hseReady = FALSE /\ pllReady = FALSE
  /\ CFGR = [sws |-> 0, hpre |-> 0, ppre2 |-> 0]
  /\ PLLCFGR = [src |-> 0, m |-> 16, n |-> 192, p |-> 0, q |-> 4]
  /\ SystemCoreClock \in 0..1 /\ ticks_per_us \in 0..1
  /\ uwTick \in 0..1 /\ tickstart = 0
  /\ tim10On = FALSE /\ tim10Psc = 0 /\ tim10Pending = FALSE
  /\ systick = 0
  /\ gpioClk = FALSE /\ outputs = {} /\ lit = {}
  /\ built = FALSE /\ linked \in BOOLEAN
  /\ usbPins = FALSE /\ otgPriority = 0
  /\ stackUp = FALSE /\ otgPending = FALSE /\ events = 0 /\ budget = MaxEvents
  /\ state = [t \in Tasks |-> "none"] /\ place = [t \in Tasks |-> "start"]

-----------------------------------------------------------------------------
(* The thread of main().                                                   *)

(* .data is copied from flash and .bss filled with zeroes.                 *)
Reset_Handler ==
  /\ main = "Reset_Handler"
  /\ main' = "SystemInit"
  /\ SystemCoreClock' = 16 * MHz
  /\ ticks_per_us' = 0 /\ uwTick' = 0 /\ linked' = FALSE /\ built' = FALSE
  /\ UNCHANGED <<oscVars, CFGR, PLLCFGR, tickstart, timVars, systick, ledVars, usbVars, taskVars>>

(* The constructors: CDC sets its stream pointers to null, CLIModule       *)
(* builds its streams with their queues.                                   *)
CDC       == linked' = FALSE
CLIModule == built' = TRUE

(* SystemInit gives access to the FPU, then __libc_init_array runs the     *)
(* constructors.                                                           *)
StaticConstructors ==
  /\ main = "SystemInit"
  /\ main' = "SystemClock_Config"
  /\ CDC /\ CLIModule
  /\ UNCHANGED <<oscVars, clockVars, tickVars, timVars, calVars, ledVars, usbVars, taskVars>>

(* main() calls SystemClock_Config first: HAL_RCC_OscConfig switches the   *)
(* HSE on and notes the time.                                              *)
SystemClock_Config ==
  /\ main = "SystemClock_Config"
  /\ main' = "HSE" /\ tickstart' = uwTick
  /\ UNCHANGED <<oscVars, clockVars, uwTick, timVars, calVars, ramVars, ledVars, usbVars, taskVars>>

TimedOut(ms) == uwTick > tickstart + ms

PLLM == HSE_VALUE \div MHz

(* The PLL is fed with 1 MHz of the crystal, and multiplies it by 336.     *)
PllSettings == [src |-> 1, m |-> PLLM, n |-> 336, p |-> 0, q |-> 7]

(* It polls for the oscillator; not HAL_OK means Error_Handler().          *)
WaitHse ==
  /\ main = "HSE"
  /\ main' = IF hseReady THEN "PLL"
             ELSE IF TimedOut(HSE_STARTUP_TIMEOUT) THEN "Error_Handler" ELSE "HSE"
  /\ PLLCFGR' = IF hseReady THEN PllSettings ELSE PLLCFGR
  /\ tickstart' = IF hseReady THEN uwTick ELSE tickstart
  /\ UNCHANGED <<oscVars, CFGR, SystemCoreClock, uwTick, timVars, calVars, ramVars, ledVars, usbVars, taskVars>>

(* It polls for the PLL, whose outputs are divided by 2 and 7.             *)
WaitPll ==
  /\ main = "PLL"
  /\ main' = IF pllReady THEN "ClockConfig"
             ELSE IF TimedOut(PLL_TIMEOUT_VALUE) THEN "Error_Handler" ELSE "PLL"
  /\ UNCHANGED <<oscVars, clockVars, tickVars, timVars, calVars, ramVars, ledVars, usbVars, taskVars>>

(* Mutant: the timer is taken to run at PCLK2.                             *)
HAL_InitTick_single(coreClock, cfg) ==
  /\ tim10On' = TRUE
  /\ tim10Psc' = (GetPCLK2Freq(coreClock, cfg) \div MHz) - 1

(* TIM10 counts at 1 MHz with a period of 1000 and interrupts at its end.  *)
HAL_InitTick(coreClock, cfg) ==
  /\ tim10On' = TRUE
  /\ tim10Psc' = ((2 * GetPCLK2Freq(coreClock, cfg)) \div MHz) - 1

(* HAL_RCC_ClockConfig: the core runs from the PLL, PCLK2 at half of it,   *)
(* and the time base is set up anew.                                       *)
ClockConfig ==
  /\ main = "ClockConfig"
  /\ main' = "HAL_Init"
  /\ CFGR' = [sws |-> 8, hpre |-> 0, ppre2 |-> 4]
  /\ SystemCoreClock' = SystemCoreClockUpdate(CFGR', PLLCFGR)
  /\ HAL_InitTick(SystemCoreClock', CFGR')
  /\ UNCHANGED <<oscVars, PLLCFGR, tickVars, tim10Pending, calVars, ramVars, ledVars, usbVars, taskVars>>

HAL_Init ==
  /\ main = "HAL_Init"
  /\ main' = "Timing"
  /\ HAL_InitTick(SystemCoreClock, CFGR)
  /\ UNCHANGED <<oscVars, clockVars, tickVars, tim10Pending, calVars, ramVars, ledVars, usbVars, taskVars>>

(* Mutant: ticks per ms.                                                   *)
Timing_init_per_ms ==
  /\ main = "Timing"
  /\ main' = "setup"
  /\ ticks_per_us' = SystemCoreClock \div 1000
  /\ UNCHANGED <<oscVars, clockVars, tickVars, timVars, systick, ramVars, ledVars, usbVars, taskVars>>

(* Timing::init; HAL_RCC_GetHCLKFreq returns SystemCoreClock.              *)
Timing_init ==
  /\ main = "Timing"
  /\ main' = "setup"
  /\ ticks_per_us' = SystemCoreClock \div MHz
  /\ UNCHANGED <<oscVars, clockVars, tickVars, timVars, systick, ramVars, ledVars, usbVars, taskVars>>

(* Thread::create: xTaskCreateStatic with the thread's own stack.          *)
create(threads) == state' = [t \in Tasks |-> IF t \in threads THEN "ready" ELSE state[t]]

(* An LED without a port is passed over; the registers of a port without   *)
(* clock cannot be written.                                                *)
init(leds) == outputs' = {led \in leds : is_valid(led) /\ gpioClk'}
set(led)   == lit' = {led} \cap outputs'

(* Application::setup begins with the board: init_gpio, init_leds and      *)
(* led.set(true).                                                          *)
Board_init ==
  /\ main = "setup"
  /\ main' = "link_stream"
  /\ gpioClk' = TRUE
  /\ init(BoardLeds) /\ set("activity")
  /\ UNCHANGED <<oscVars, clockVars, tickVars, timVars, calVars, ramVars, usbVars, taskVars>>

link_stream == linked' = TRUE

(* It goes on with link_stream and cli_module.setup().                     *)
Application_setup ==
  /\ main = "link_stream"
  /\ main' = "CDC_setup"
  /\ link_stream
  /\ create({"cli"})
  /\ UNCHANGED <<oscVars, clockVars, tickVars, timVars, calVars, built, ledVars, usbVars, place>>

(* Mutant: the priority of the USB interrupt is left at its reset value.   *)
init_usb_hw_no_priority == usbPins' = TRUE /\ gpioClk' = TRUE /\ otgPriority' = otgPriority

(* The clocks of the USB core and of its port, the interrupt's priority,   *)
(* and the pins.                                                           *)
init_usb_hw ==
  /\ usbPins' = TRUE /\ gpioClk' = TRUE
  /\ otgPriority' = configLIBRARY_MAX_SYSCALL_INTERRUPT_PRIORITY

(* CDC::setup: the hardware first, then the tasks usb/dev and usb/cdc.     *)
CDC_setup ==
  /\ main = "CDC_setup"
  /\ main' = "vTaskStartScheduler"
  /\ init_usb_hw
  /\ create({"usb/dev", "usb/cdc"})
  /\ UNCHANGED <<oscVars, clockVars, tickVars, timVars, calVars, ramVars, outputs, lit, stackUp, otgPending,
                 events, budget, place>>

(* The kernel's timer is set to configTICK_RATE_HZ = 1000 from             *)
(* configCPU_CLOCK_HZ = SystemCoreClock.  The kernel's own tasks are       *)
(* created in the memory freertos_support.cpp gives it; the idle task only *)
(* runs while all others wait, and its hook is empty.                      *)
vTaskStartScheduler ==
  /\ main = "vTaskStartScheduler"
  /\ main' = "tasks"
  /\ systick' = SystemCoreClock \div 1000
  /\ create({"Tmr Svc"})
  /\ UNCHANGED <<oscVars, clockVars, tickVars, timVars, ticks_per_us, ramVars, ledVars, usbVars, place>>

Main ==
  \/ Reset_Handler \/ StaticConstructors
  \/ SystemClock_Config \/ WaitHse \/ WaitPll \/ ClockConfig
  \/ HAL_Init \/ Timing_init \/ Board_init \/ Application_setup \/ CDC_setup \/ vTaskStartScheduler

-----------------------------------------------------------------------------
(* Hardware.                                                               *)

HseStarts ==
  /\ main = "HSE" /\ crystal = "good" /\ ~hseReady
  /\ hseReady' = TRUE
  /\ UNCHANGED <<main, crystal, pllReady, clockVars, tickVars, timVars, calVars, ramVars, ledVars, usbVars, taskVars>>

PllLocks ==
  /\ main = "PLL" /\ ~pllReady
  /\ pllReady' = TRUE
  /\ UNCHANGED <<main, crystal, hseReady, clockVars, tickVars, timVars, calVars, ramVars, ledVars, usbVars, taskVars>>

Tim10Overflow ==
  /\ tim10On /\ ~tim10Pending
  /\ tim10Pending' = TRUE
  /\ UNCHANGED <<main, oscVars, clockVars, tickVars, tim10On, tim10Psc, calVars, ramVars, ledVars, usbVars, taskVars>>

(* The HAL's default callback does nothing, and the program has no other;  *)
(* nothing in it calls HAL_IncTick.                                        *)
HAL_TIM_PeriodElapsedCallback == UNCHANGED uwTick

(* HAL_TIM_IRQHandler clears the interrupt and calls the callback.         *)
TIM1_UP_TIM10_IRQHandler ==
  /\ tim10Pending
  /\ tim10Pending' = FALSE
  /\ HAL_TIM_PeriodElapsedCallback
  /\ UNCHANGED <<main, oscVars, clockVars, tickstart, tim10On, tim10Psc, calVars, ramVars, ledVars, usbVars, taskVars>>

(* tud_init shows the device to the host, which then sends requests.       *)
HostEvent ==
  /\ stackUp /\ ~otgPending /\ budget > 0
  /\ otgPending' = TRUE /\ budget' = budget - 1
  /\ UNCHANGED <<main, oscVars, clockVars, tickVars, timVars, calVars, ramVars, ledVars, usbPins, otgPriority,
                 stackUp, events, taskVars>>

(* tud_int_handler queues an event for usb/dev.                            *)
OTG_FS_IRQHandler ==
  /\ stackUp /\ otgPending
  /\ otgPending' = FALSE /\ events' = events + 1
  /\ state' = [state EXCEPT !["usb/dev"] = "ready"]
  /\ UNCHANGED <<main, oscVars, clockVars, tickVars, timVars, calVars, ramVars, ledVars, usbPins, otgPriority,
                 stackUp, budget, place>>

(* The tick ends the vTaskDelay(1) of usb/cdc.                             *)
KernelTick ==
  /\ systick > 0 /\ state["usb/cdc"] = "blocked"
  /\ state' = [state EXCEPT !["usb/cdc"] = "ready"]
  /\ UNCHANGED <<main, oscVars, clockVars, tickVars, timVars, calVars, ramVars, ledVars, usbVars, place>>

Hardware ==
  \/ HseStarts \/ PllLocks \/ Tim10Overflow \/ TIM1_UP_TIM10_IRQHandler
  \/ HostEvent \/ OTG_FS_IRQHandler \/ KernelTick

-----------------------------------------------------------------------------
(* The tasks: the ready task of the highest priority runs.                 *)
Runs(t) ==
  /\ main = "tasks"
  /\ state[t] = "ready"
  /\ \A u \in Tasks : state[u] = "ready" => Priority(u) <= Priority(t)

DevInit ==
  /\ Runs("usb/dev") /\ place["usb/dev"] = "start"
  /\ stackUp' = TRUE
  /\ place' = [place EXCEPT !["usb/dev"] = "loop"]
  /\ UNCHANGED <<main, oscVars, clockVars, tickVars, timVars, calVars, ramVars, ledVars, usbPins, otgPriority,
                 otgPending, events, budget, state>>

(* Mutant: tud_task does not wait.                                         *)
DevTask_no_wait ==
  /\ Runs("usb/dev") /\ place["usb/dev"] = "loop"
  /\ events' = events - 1
  /\ UNCHANGED <<main, oscVars, clockVars, tickVars, timVars, calVars, ramVars, ledVars, usbPins, otgPriority,
                 stackUp, otgPending, budget, state, place>>

(* tud_task handles an event, or waits for one.                            *)
DevTask ==
  /\ Runs("usb/dev") /\ place["usb/dev"] = "loop"
  /\ events' = IF events > 0 THEN events - 1 ELSE 0
  /\ state' = IF events > 0 THEN state ELSE [state EXCEPT !["usb/dev"] = "blocked"]
  /\ UNCHANGED <<main, oscVars, clockVars, tickVars, timVars, calVars, ramVars, ledVars, usbPins, otgPriority,
                 stackUp, otgPending, budget, place>>

(* Mutant: no vTaskDelay(1) at the end of the pass.                        *)
CdcPass_no_delay(bytes) ==
  /\ Runs("usb/cdc")
  /\ bytes => linked /\ stackUp /\ budget > 0
  /\ budget' = IF bytes THEN budget - 1 ELSE budget
  /\ state' = [state EXCEPT !["cli"] = IF bytes THEN "ready" ELSE state["cli"]]
  /\ place' = [place EXCEPT !["usb/cdc"] = "loop"]
  /\ UNCHANGED <<main, oscVars, clockVars, tickVars, timVars, calVars, ramVars, ledVars, usbPins, otgPriority,
                 stackUp, otgPending, events>>

(* One pass of usb/cdc up to its vTaskDelay(1): if a stream is linked it   *)
(* asks the stack, and hands the bytes of a packet to the cli task.        *)
CdcPass(bytes) ==
  /\ Runs("usb/cdc")
  /\ bytes => linked /\ stackUp /\ budget > 0
  /\ budget' = IF bytes THEN budget - 1 ELSE budget
  /\ state' = [state EXCEPT !["usb/cdc"] = "blocked", !["cli"] = IF bytes THEN "ready" ELSE state["cli"]]
  /\ place' = [place EXCEPT !["usb/cdc"] = "loop"]
  /\ UNCHANGED <<main, oscVars, clockVars, tickVars, timVars, calVars, ramVars, ledVars, usbPins, otgPriority,
                 stackUp, otgPending, events>>

(* The cli task runs, first through commands.init(), until it waits for    *)
(* a block.                                                                *)
CliPass ==
  /\ Runs("cli")
  /\ state' = [state EXCEPT !["cli"] = "blocked"]
  /\ place' = [place EXCEPT !["cli"] = "loop"]
  /\ UNCHANGED <<main, oscVars, clockVars, tickVars, timVars, calVars, ramVars, ledVars, usbVars>>

(* The timer task waits for a command; the application sends it none.      *)
TmrPass ==
  /\ Runs("Tmr Svc")
  /\ state' = [state EXCEPT !["Tmr Svc"] = "blocked"]
  /\ place' = [place EXCEPT !["Tmr Svc"] = "loop"]
  /\ UNCHANGED <<main, oscVars, clockVars, tickVars, timVars, calVars, ramVars, ledVars, usbVars>>

Dev == DevInit \/ DevTask
Cdc == \E bytes \in BOOLEAN : CdcPass(bytes)

Next == Main \/ Hardware \/ Dev \/ Cdc \/ CliPass \/ TmrPass

Spec == Init /\ [][Next]_vars

(* Fairness: the processor never stops, every enabled interrupt is taken,  *)
(* a good crystal starts, the tick goes on.  The cli task is ready only    *)
(* while the others are blocked, again and again: strong fairness, as for  *)
(* the timer task.                                                         *)
FairSpec ==
  /\ Spec
  /\ WF_vars(Main) /\ WF_vars(HseStarts) /\ WF_vars(PllLocks)
  /\ WF_vars(Tim10Overflow) /\ WF_vars(TIM1_UP_TIM10_IRQHandler)
  /\ WF_vars(OTG_FS_IRQHandler) /\ WF_vars(KernelTick)
  /\ WF_vars(Dev) /\ WF_vars(Cdc) /\ SF_vars(CliPass) /\ SF_vars(TmrPass)

-----------------------------------------------------------------------------
(* Type invariant: registers and counters, flags, places.                  *)
NumbersOK ==
  /\ SystemCoreClock \in Nat /\ ticks_per_us \in Nat /\ systick \in Nat
  /\ uwTick \in Nat /\ tickstart \in Nat /\ tim10Psc \in Nat
  /\ events \in Nat /\ budget \in Nat
  /\ otgPriority \in 0..15

RegistersOK ==
  /\ CFGR \in [sws : {0, 4, 8}, hpre : 0..15, ppre2 : 0..7]
  /\ PLLCFGR \in [src : 0..1, m : Nat, n : Nat, p : 0..3, q : Nat]

FlagsOK ==
  /\ hseReady \in BOOLEAN /\ pllReady \in BOOLEAN
  /\ tim10On \in BOOLEAN /\ tim10Pending \in BOOLEAN
  /\ gpioClk \in BOOLEAN /\ built \in BOOLEAN /\ linked \in BOOLEAN
  /\ usbPins \in BOOLEAN /\ stackUp \in BOOLEAN /\ otgPending \in BOOLEAN

PlacesOK ==
  /\ main \in {"Reset_Handler", "SystemInit", "SystemClock_Config", "HSE", "PLL", "ClockConfig",
               "HAL_Init", "Timing", "setup", "link_stream", "CDC_setup", "vTaskStartScheduler", "tasks",
               "Error_Handler"}
  /\ crystal \in {"good", "dead"}
  /\ outputs \subseteq BoardLeds /\ lit \subseteq BoardLeds
  /\ state \in [Tasks -> {"none", "ready", "blocked"}]
  /\ place \in [Tasks -> {"start", "loop"}]

TypeOK == NumbersOK /\ RegistersOK /\ FlagsOK /\ PlacesOK

(* usb/cdc finds the device stack initialised and its stream linked and    *)
(* built from its first pass on.  No code waits for the stack: the first   *)
(* call of usb/cdc comes after tud_init only because usb/dev outranks it.  *)
CdcFindsAll == place["usb/cdc"] = "loop" => stackUp /\ linked /\ built

(* Once tud_init lets the USB interrupt in, its handler may call the       *)
(* kernel: the scheduler runs (comment in cdc.h), the interrupt's priority *)
(* is not above the kernel's limit, and the USB core has pins and 48 MHz.  *)
UsbIrqSafe ==
  stackUp => /\ main = "tasks"
             /\ otgPriority >= configLIBRARY_MAX_SYSCALL_INTERRUPT_PRIORITY
             /\ usbPins /\ gpioClk /\ UsbClock(PLLCFGR) = 48 * MHz

(* From the copy of .data on, SystemCoreClock is the clock the core really *)
(* has; and when tasks run, Timing and the kernel's tick are scaled to it, *)
(* although each copied it at another moment.                              *)
Calibrated ==
  /\ main # "Reset_Handler" => /\ SystemCoreClock = Hclk(CFGR, PLLCFGR)
                               /\ SystemCoreClock = SystemCoreClockUpdate(CFGR, PLLCFGR)
  /\ main = "tasks" => /\ ticks_per_us = Hclk(CFGR, PLLCFGR) \div MHz
                       /\ systick = Hclk(CFGR, PLLCFGR) \div 1000

(* TIM10 interrupts every ms from the moment it is enabled.                *)
TimeBase1ms == tim10On => Tim10Clock(CFGR, PLLCFGR) = (tim10Psc + 1) * 1000 * 1000

(* With a crystal that starts, the LED is lit and all tasks reach their    *)
(* loops, whatever the host requests meanwhile.                            *)
BootCompletes == crystal = "good" ~> lit = {"activity"} /\ \A t \in Tasks : place[t] = "loop"

(* HSE_STARTUP_TIMEOUT bounds the wait for the crystal, and a failure ends *)
(* in Error_Handler.                                                       *)
DeadOscillatorReported == crystal = "dead" ~> main = "Error_Handler"
=============================================================================

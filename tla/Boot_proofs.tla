----------------------------- MODULE Boot_proofs -----------------------------
(***************************************************************************)
(* The safety properties of Boot for every crystal whose frequency is a    *)
(* whole number of MHz, every timeout and every number of host requests.   *)
(* The inductive invariant says of each register and variable from which   *)
(* point of main() on it has its final value.                              *)
(***************************************************************************)
EXTENDS Boot, TLAPS

Clocked    == {"HAL_Init", "Timing", "setup", "link_stream", "CDC_setup", "vTaskStartScheduler", "tasks"}
Unclocked  == {"SystemInit", "SystemClock_Config", "HSE", "PLL", "ClockConfig", "Error_Handler"}
Scaled     == {"setup", "link_stream", "CDC_setup", "vTaskStartScheduler", "tasks"}
Linked     == {"CDC_setup", "vTaskStartScheduler", "tasks"}
Created    == {"vTaskStartScheduler", "tasks"}

(* The registers as SystemClock_Config leaves them, and before.            *)
PllCFGR == [sws |-> 8, hpre |-> 0, ppre2 |-> 4]
HsiCFGR == [sws |-> 0, hpre |-> 0, ppre2 |-> 0]

ClockInv ==
  /\ main \in Unclocked \cup {"Reset_Handler"} => CFGR = HsiCFGR
  /\ main \in Unclocked => SystemCoreClock = 16 * MHz
  /\ main \in {"PLL", "ClockConfig"} => PLLCFGR = PllSettings
  /\ main \in Clocked => CFGR = PllCFGR /\ PLLCFGR = PllSettings /\ SystemCoreClock = 168 * MHz
  /\ main \in Scaled => ticks_per_us = 168
  /\ main = "tasks" => systick = 168 * 1000
  /\ tim10On => main \in Clocked /\ tim10Psc = 167

(* The device task has not been blocked before it has run tud_init, and    *)
(* nothing runs before the scheduler.                                      *)
TaskInv ==
  /\ main \notin {"Reset_Handler", "SystemInit"} => built
  /\ main \in Linked => linked
  /\ main \in Created => /\ usbPins /\ gpioClk
                         /\ otgPriority = configLIBRARY_MAX_SYSCALL_INTERRUPT_PRIORITY
  /\ main \in Created /\ ~stackUp => state["usb/dev"] = "ready"
  /\ stackUp => main = "tasks"
  /\ place["usb/dev"] = "start" <=> ~stackUp
  /\ place["usb/cdc"] = "loop" => stackUp

BootInv == TypeOK /\ ClockInv /\ TaskInv

(* The names of the tasks.                                                 *)
LEMMA TaskNames == "usb/dev" \in Tasks /\ "usb/cdc" \in Tasks /\ "cli" \in Tasks /\ "Tmr Svc" \in Tasks
BY DEF Tasks

(* A million is a number to divide by, and a thousand divides it.           *)
LEMMA MhzNat == MHz \in Nat \ {0} /\ (168 * MHz) \div 1000 = 168 * 1000
BY DEF MHz

(* The crystal divided by PLLM is 1 MHz.                                   *)
LEMMA PllInput == PLLM \in Nat \ {0} /\ HSE_VALUE \div PLLM = MHz
<1> DEFINE k == HSE_VALUE \div MHz
<1>1. HSE_VALUE = k * MHz /\ k \in Nat \ {0}
  BY BootAssumption DEF MHz
<1>2. HSE_VALUE \div k = MHz
  <2> HIDE DEF k
  <2> QED BY <1>1 DEF MHz
<1> QED BY <1>1, <1>2 DEF PLLM

(* The settings of the PLL make 336 MHz and have the types of the register. *)
LEMMA PllRates ==
  /\ Vco(PllSettings) = 336 * MHz
  /\ PllSettings \in [src : 0..1, m : Nat, n : Nat, p : 0..3, q : Nat]
<1>1. Vco(PllSettings) = (HSE_VALUE \div PLLM) * 336
  BY DEF PllSettings, Vco
<1> QED BY <1>1, PllInput DEF MHz, PllSettings

(* What the hardware makes of the settings of SystemClock_Config, and what *)
(* the software computes.                                                  *)
LEMMA ClockedRates ==
  /\ Hclk(PllCFGR, PllSettings) = 168 * MHz /\ UsbClock(PllSettings) = 48 * MHz
  /\ Tim10Clock(PllCFGR, PllSettings) = 168 * MHz
  /\ SystemCoreClockUpdate(PllCFGR, PllSettings) = 168 * MHz
  /\ GetPCLK2Freq(168 * MHz, PllCFGR) = 84 * MHz
<1> DEFINE v == Vco(PllSettings)
<1>1. v = 336 * MHz
  BY PllRates
<1>2. Hclk(PllCFGR, PllSettings) = (v \div 2) \div 1
  BY DEF PllSettings, PllCFGR, Hclk, AhbDivider
<1>3. UsbClock(PllSettings) = v \div 7
  BY DEF PllSettings, UsbClock
<1>4. Tim10Clock(PllCFGR, PllSettings) = 2 * (Hclk(PllCFGR, PllSettings) \div 2)
  BY DEF PllCFGR, Tim10Clock, ApbDivider
<1>5. AHBPrescTable[1] = 0 /\ APBPrescTable[5] = 1
  BY DEF AHBPrescTable, APBPrescTable
<1>6. SystemCoreClockUpdate(PllCFGR, PllSettings) = ShiftRight(v \div 2, 0)
  BY <1>5 DEF PllSettings, PllCFGR, SystemCoreClockUpdate, Vco
<1>7. GetPCLK2Freq(168 * MHz, PllCFGR) = ShiftRight(168 * MHz, 1)
  BY <1>5 DEF PllCFGR, GetPCLK2Freq
<1> HIDE DEF v
<1> QED BY <1>1, <1>2, <1>3, <1>4, <1>6, <1>7 DEF MHz, ShiftRight

(* The same of the reset values.                                           *)
LEMMA UnclockedRates ==
  ASSUME NEW pll
  PROVE  Hclk(HsiCFGR, pll) = 16 * MHz /\ SystemCoreClockUpdate(HsiCFGR, pll) = 16 * MHz
<1>1. Hclk(HsiCFGR, pll) = 16 * MHz
  BY DEF HsiCFGR, Hclk, AhbDivider, HSI_VALUE, MHz
<1>2. AHBPrescTable[1] = 0
  BY DEF AHBPrescTable
<1>3. SystemCoreClockUpdate(HsiCFGR, pll) = 16 * MHz
  BY <1>2 DEF HsiCFGR, SystemCoreClockUpdate, ShiftRight, HSI_VALUE, MHz
<1> QED BY <1>1, <1>3

(* ClockConfig completes the settings.                                     *)
LEMMA NewClocks ==
  ASSUME BootInv, ClockConfig
  PROVE  /\ CFGR' = PllCFGR /\ PLLCFGR' = PllSettings /\ SystemCoreClock' = 168 * MHz
         /\ tim10On' = TRUE /\ tim10Psc' = 167
<1>1. CFGR' = PllCFGR /\ PLLCFGR = PllSettings /\ PLLCFGR' = PLLCFGR
  BY DEF BootInv, ClockInv, ClockConfig, PllCFGR
<1>2. SystemCoreClock' = SystemCoreClockUpdate(CFGR', PLLCFGR)
  BY DEF ClockConfig
<1>3. SystemCoreClock' = 168 * MHz
  BY <1>1, <1>2, ClockedRates
<1>4. HAL_InitTick(SystemCoreClock', CFGR')
  BY DEF ClockConfig
<1>5. GetPCLK2Freq(SystemCoreClock', CFGR') = 84 * MHz
  BY <1>1, <1>3, ClockedRates
<1> QED BY <1>1, <1>3, <1>4, <1>5 DEF HAL_InitTick, MHz

(* HAL_Init sets the time base up once more.                               *)
LEMMA SameTick ==
  ASSUME BootInv, HAL_Init
  PROVE  tim10On' = TRUE /\ tim10Psc' = 167
<1>1. GetPCLK2Freq(SystemCoreClock, CFGR) = 84 * MHz
  BY ClockedRates DEF BootInv, ClockInv, HAL_Init, Clocked
<1>2. HAL_InitTick(SystemCoreClock, CFGR)
  BY DEF HAL_Init
<1> QED BY <1>1, <1>2 DEF HAL_InitTick, MHz

(* The invariant holds at power-on, whatever the RAM contains.             *)
LEMMA BootInit == Init => BootInv
<1> SUFFICES ASSUME Init PROVE BootInv
  OBVIOUS
<1> USE DEF Init
<1>1. NumbersOK
  BY BootAssumption DEF NumbersOK
<1>2. RegistersOK
  <2>1. CFGR = [sws |-> 0, hpre |-> 0, ppre2 |-> 0]
    OBVIOUS
  <2>2. PLLCFGR = [src |-> 0, m |-> 16, n |-> 192, p |-> 0, q |-> 4]
    OBVIOUS
  <2> QED BY ONLY <2>1, <2>2 DEF RegistersOK
<1>3. FlagsOK
  BY DEF FlagsOK
<1>4. PlacesOK
  BY DEF PlacesOK
<1>5. ClockInv
  BY DEF ClockInv, Clocked, Unclocked, Scaled, HsiCFGR
<1>6. TaskInv
  BY TaskNames DEF TaskInv, Linked, Created
<1> QED BY <1>1, <1>2, <1>3, <1>4, <1>5, <1>6 DEF BootInv, TypeOK

(* The registers of the clocks keep their ranges.                          *)
LEMMA RegistersStep == BootInv /\ [Next]_vars => RegistersOK'
<1> SUFFICES ASSUME BootInv, [Next]_vars PROVE RegistersOK'
  OBVIOUS
<1>1. RegistersOK
  BY DEF BootInv, TypeOK
<1> USE DEF RegistersOK, vars, oscVars, clockVars, tickVars, timVars, calVars,
           ramVars, ledVars, usbVars, taskVars
<1>2. CASE Reset_Handler
  BY <1>2, <1>1 DEF Reset_Handler
<1>3. CASE StaticConstructors
  BY <1>3, <1>1 DEF StaticConstructors, CDC, CLIModule
<1>4. CASE SystemClock_Config
  BY <1>4, <1>1 DEF SystemClock_Config
<1>5. CASE WaitHse
  BY <1>5, <1>1, PllRates DEF WaitHse
<1>6. CASE WaitPll
  BY <1>6, <1>1 DEF WaitPll
<1>7. CASE ClockConfig
  BY <1>7, <1>1 DEF ClockConfig
<1>8. CASE HAL_Init
  BY <1>8, <1>1 DEF HAL_Init
<1>9. CASE Timing_init
  BY <1>9, <1>1 DEF Timing_init
<1>10. CASE Board_init
  BY <1>10, <1>1 DEF Board_init, init, set
<1>11. CASE Application_setup
  BY <1>11, <1>1 DEF Application_setup, link_stream
<1>12. CASE CDC_setup
  BY <1>12, <1>1 DEF CDC_setup, init_usb_hw
<1>13. CASE vTaskStartScheduler
  BY <1>13, <1>1 DEF vTaskStartScheduler
<1>14. CASE Hardware
  BY <1>14, <1>1 DEF Hardware, HseStarts, PllLocks, Tim10Overflow, TIM1_UP_TIM10_IRQHandler, HostEvent, 
         OTG_FS_IRQHandler, KernelTick, HAL_TIM_PeriodElapsedCallback
<1>15. CASE DevInit
  BY <1>15, <1>1 DEF DevInit
<1>16. CASE DevTask
  BY <1>16, <1>1 DEF DevTask
<1>17. CASE Cdc
  BY <1>17, <1>1 DEF Cdc, CdcPass
<1>18. CASE CliPass
  BY <1>18, <1>1 DEF CliPass
<1>19. CASE TmrPass
  BY <1>19, <1>1 DEF TmrPass
<1>20. CASE UNCHANGED vars
  BY <1>20, <1>1
<1> QED
  BY <1>2, <1>3, <1>4, <1>5, <1>6, <1>7, <1>8, <1>9, <1>10, <1>11, <1>12, <1>13, <1>14, <1>15,
     <1>16, <1>17, <1>18, <1>19, <1>20
     DEF Next, Main, Dev

(* HAL_InitTick needs the clocks for its prescaler not to be negative.     *)
LEMMA NumbersStep == BootInv /\ [Next]_vars => NumbersOK'
<1> SUFFICES ASSUME BootInv, [Next]_vars PROVE NumbersOK'
  OBVIOUS
<1>1. NumbersOK
  BY DEF BootInv, TypeOK
<1>2. ClockConfig => tim10Psc' = 167 /\ SystemCoreClock' = 168 * MHz
  BY NewClocks
<1>3. HAL_Init => tim10Psc' = 167
  BY SameTick
<1>4. SystemCoreClock \div 1000 \in Nat
  BY <1>1 DEF NumbersOK
<1> USE DEF NumbersOK, vars, oscVars, clockVars, tickVars, timVars, calVars,
           ramVars, ledVars, usbVars, taskVars
<1>5. CASE Reset_Handler
  BY <1>5, <1>1 DEF Reset_Handler, MHz
<1>6. CASE StaticConstructors
  BY <1>6, <1>1 DEF StaticConstructors, CDC, CLIModule
<1>7. CASE SystemClock_Config
  BY <1>7, <1>1 DEF SystemClock_Config
<1>8. CASE WaitHse
  BY <1>8, <1>1 DEF WaitHse
<1>9. CASE WaitPll
  BY <1>9, <1>1 DEF WaitPll
<1>10. CASE ClockConfig
  BY <1>10, <1>1, <1>2, MhzNat DEF ClockConfig
<1>11. CASE HAL_Init
  BY <1>11, <1>1, <1>3 DEF HAL_Init
<1>12. CASE Timing_init
  BY <1>12, <1>1, MhzNat DEF Timing_init
<1>13. CASE Board_init
  BY <1>13, <1>1 DEF Board_init, init, set
<1>14. CASE Application_setup
  BY <1>14, <1>1 DEF Application_setup, link_stream
<1>15. CASE CDC_setup
  BY <1>15, <1>1 DEF CDC_setup, init_usb_hw, configLIBRARY_MAX_SYSCALL_INTERRUPT_PRIORITY
<1>16. CASE vTaskStartScheduler
  BY <1>16, <1>1, <1>4 DEF vTaskStartScheduler
<1>17. CASE Hardware
  BY <1>17, <1>1 DEF Hardware, HseStarts, PllLocks, Tim10Overflow, TIM1_UP_TIM10_IRQHandler, HostEvent, 
         OTG_FS_IRQHandler, KernelTick, HAL_TIM_PeriodElapsedCallback
<1>18. CASE DevInit
  BY <1>18, <1>1 DEF DevInit
<1>19. CASE DevTask
  BY <1>19, <1>1 DEF DevTask
<1>20. CASE Cdc
  BY <1>20, <1>1 DEF Cdc, CdcPass
<1>21. CASE CliPass
  BY <1>21, <1>1 DEF CliPass
<1>22. CASE TmrPass
  BY <1>22, <1>1 DEF TmrPass
<1>23. CASE UNCHANGED vars
  BY <1>23, <1>1
<1> QED
  BY <1>5, <1>6, <1>7, <1>8, <1>9, <1>10, <1>11, <1>12, <1>13, <1>14, <1>15, <1>16, <1>17,
     <1>18, <1>19, <1>20, <1>21, <1>22, <1>23
     DEF Next, Main, Dev

(* Flags stay flags.                                                       *)
LEMMA FlagsStep == BootInv /\ [Next]_vars => FlagsOK'
<1> SUFFICES ASSUME BootInv, [Next]_vars PROVE FlagsOK'
  OBVIOUS
<1>1. FlagsOK
  BY DEF BootInv, TypeOK
<1> USE DEF FlagsOK, vars, oscVars, clockVars, tickVars, timVars, calVars,
           ramVars, ledVars, usbVars, taskVars
<1>2. CASE Reset_Handler
  BY <1>2, <1>1 DEF Reset_Handler
<1>3. CASE StaticConstructors
  BY <1>3, <1>1 DEF StaticConstructors, CDC, CLIModule
<1>4. CASE SystemClock_Config
  BY <1>4, <1>1 DEF SystemClock_Config
<1>5. CASE WaitHse
  BY <1>5, <1>1 DEF WaitHse
<1>6. CASE WaitPll
  BY <1>6, <1>1 DEF WaitPll
<1>7. CASE ClockConfig
  BY <1>7, <1>1 DEF ClockConfig, HAL_InitTick
<1>8. CASE HAL_Init
  BY <1>8, <1>1 DEF HAL_Init, HAL_InitTick
<1>9. CASE Timing_init
  BY <1>9, <1>1 DEF Timing_init
<1>10. CASE Board_init
  BY <1>10, <1>1 DEF Board_init, init, set
<1>11. CASE Application_setup
  BY <1>11, <1>1 DEF Application_setup, link_stream
<1>12. CASE CDC_setup
  BY <1>12, <1>1 DEF CDC_setup, init_usb_hw
<1>13. CASE vTaskStartScheduler
  BY <1>13, <1>1 DEF vTaskStartScheduler
<1>14. CASE HseStarts
  BY <1>14, <1>1 DEF HseStarts
<1>15. CASE PllLocks
  BY <1>15, <1>1 DEF PllLocks
<1>16. CASE Tim10Overflow
  BY <1>16, <1>1 DEF Tim10Overflow
<1>17. CASE TIM1_UP_TIM10_IRQHandler
  BY <1>17, <1>1 DEF TIM1_UP_TIM10_IRQHandler, HAL_TIM_PeriodElapsedCallback
<1>18. CASE HostEvent
  BY <1>18, <1>1 DEF HostEvent
<1>19. CASE OTG_FS_IRQHandler
  BY <1>19, <1>1 DEF OTG_FS_IRQHandler
<1>20. CASE KernelTick
  BY <1>20, <1>1 DEF KernelTick
<1>21. CASE DevInit
  BY <1>21, <1>1 DEF DevInit
<1>22. CASE DevTask
  BY <1>22, <1>1 DEF DevTask
<1>23. CASE Cdc
  BY <1>23, <1>1 DEF Cdc, CdcPass
<1>24. CASE CliPass
  BY <1>24, <1>1 DEF CliPass
<1>25. CASE TmrPass
  BY <1>25, <1>1 DEF TmrPass
<1>26. CASE UNCHANGED vars
  BY <1>26, <1>1
<1> QED
  BY <1>2, <1>3, <1>4, <1>5, <1>6, <1>7, <1>8, <1>9, <1>10, <1>11, <1>12, <1>13, <1>14, <1>15,
     <1>16, <1>17, <1>18, <1>19, <1>20, <1>21, <1>22, <1>23, <1>24, <1>25, <1>26
     DEF Next, Main, Dev, Hardware

(* The thread of main() and the tasks stay in their places.                *)
LEMMA PlacesStep == BootInv /\ [Next]_vars => PlacesOK'
<1> SUFFICES ASSUME BootInv, [Next]_vars PROVE PlacesOK'
  OBVIOUS
<1>1. PlacesOK
  BY DEF BootInv, TypeOK
<1> USE DEF PlacesOK, vars, oscVars, clockVars, tickVars, timVars, calVars,
           ramVars, ledVars, usbVars, taskVars
<1>2. CASE Reset_Handler
  BY <1>2, <1>1 DEF Reset_Handler
<1>3. CASE StaticConstructors
  BY <1>3, <1>1 DEF StaticConstructors, CDC, CLIModule
<1>4. CASE SystemClock_Config
  BY <1>4, <1>1 DEF SystemClock_Config
<1>5. CASE WaitHse
  BY <1>5, <1>1 DEF WaitHse
<1>6. CASE WaitPll
  BY <1>6, <1>1 DEF WaitPll
<1>7. CASE ClockConfig
  BY <1>7, <1>1 DEF ClockConfig
<1>8. CASE HAL_Init
  BY <1>8, <1>1 DEF HAL_Init
<1>9. CASE Timing_init
  BY <1>9, <1>1 DEF Timing_init
<1>10. CASE Board_init
  BY <1>10, <1>1 DEF Board_init, init, set, BoardLeds
<1>11. CASE Application_setup
  BY <1>11, <1>1 DEF Application_setup, link_stream, create
<1>12. CASE CDC_setup
  BY <1>12, <1>1 DEF CDC_setup, init_usb_hw, create
<1>13. CASE vTaskStartScheduler
  BY <1>13, <1>1 DEF vTaskStartScheduler, create
<1>14. CASE Hardware
  BY <1>14, <1>1 DEF Hardware, HseStarts, PllLocks, Tim10Overflow, TIM1_UP_TIM10_IRQHandler, HostEvent, 
         OTG_FS_IRQHandler, KernelTick, HAL_TIM_PeriodElapsedCallback
<1>15. CASE DevInit
  BY <1>15, <1>1 DEF DevInit
<1>16. CASE DevTask
  BY <1>16, <1>1 DEF DevTask
<1>17. CASE Cdc
  <2>1. PICK bytes \in BOOLEAN : CdcPass(bytes)
    BY <1>17 DEF Cdc
  <2>2. state' \in [Tasks -> {"none", "ready", "blocked"}]
    BY <1>1, <2>1 DEF CdcPass
  <2>3. place' \in [Tasks -> {"start", "loop"}]
    BY <1>1, <2>1 DEF CdcPass
  <2> QED BY <1>1, <2>1, <2>2, <2>3 DEF CdcPass
<1>18. CASE CliPass
  BY <1>18, <1>1 DEF CliPass
<1>19. CASE TmrPass
  BY <1>19, <1>1 DEF TmrPass
<1>20. CASE UNCHANGED vars
  BY <1>20, <1>1
<1> QED
  BY <1>2, <1>3, <1>4, <1>5, <1>6, <1>7, <1>8, <1>9, <1>10, <1>11, <1>12, <1>13, <1>14, <1>15,
     <1>16, <1>17, <1>18, <1>19, <1>20
     DEF Next, Main, Dev

(* Clocks, time base and scale factors keep the values main() gave them.   *)
LEMMA BootClockStep == BootInv /\ [Next]_vars => ClockInv'
<1> SUFFICES ASSUME BootInv, [Next]_vars PROVE ClockInv'
  OBVIOUS
<1>1. ClockInv
  BY DEF BootInv, TypeOK
<1>2. ClockConfig => /\ CFGR' = PllCFGR /\ PLLCFGR' = PllSettings
                   /\ SystemCoreClock' = 168 * MHz /\ tim10Psc' = 167
  BY NewClocks
<1>3. HAL_Init => tim10Psc' = 167
  BY SameTick
<1>4. vTaskStartScheduler => systick' = 168 * 1000
  <2> SUFFICES ASSUME vTaskStartScheduler PROVE systick' = 168 * 1000
    OBVIOUS
  <2>1. main = "vTaskStartScheduler" /\ systick' = SystemCoreClock \div 1000
    BY DEF vTaskStartScheduler, create
  <2>2. SystemCoreClock = 168 * MHz
    BY <1>1, <2>1 DEF ClockInv, Clocked
  <2> QED BY <2>1, <2>2, MhzNat
<1> USE DEF ClockInv, Clocked, Unclocked, Scaled, vars, oscVars, clockVars, tickVars, timVars, calVars,
           ramVars, ledVars, usbVars, taskVars
<1>5. UNCHANGED <<main, CFGR, PLLCFGR, SystemCoreClock, ticks_per_us, systick, tim10On, tim10Psc>> => ClockInv'
  BY <1>1
<1>6. CASE Reset_Handler
  BY <1>6, <1>1 DEF Reset_Handler, HsiCFGR
<1>7. CASE StaticConstructors
  BY <1>7, <1>1 DEF StaticConstructors, CDC, CLIModule
<1>8. CASE SystemClock_Config
  BY <1>8, <1>1 DEF SystemClock_Config
<1>9. CASE WaitHse
  BY <1>9, <1>1 DEF WaitHse
<1>10. CASE WaitPll
  BY <1>10, <1>1 DEF WaitPll
<1>11. CASE ClockConfig
  BY <1>11, <1>1, <1>2 DEF ClockConfig
<1>12. CASE HAL_Init
  BY <1>12, <1>1, <1>3 DEF HAL_Init
<1>13. CASE Timing_init
  BY <1>13, <1>1 DEF Timing_init, MHz
<1>14. CASE Board_init
  BY <1>14, <1>1 DEF Board_init, init, set
<1>15. CASE Application_setup
  BY <1>15, <1>1 DEF Application_setup, link_stream
<1>16. CASE CDC_setup
  BY <1>16, <1>1 DEF CDC_setup, init_usb_hw
<1>17. CASE vTaskStartScheduler
  <2>1. /\ main = "vTaskStartScheduler" /\ main' = "tasks"
        /\ UNCHANGED <<CFGR, PLLCFGR, SystemCoreClock, ticks_per_us, tim10On, tim10Psc>>
    BY <1>17 DEF vTaskStartScheduler, create
  <2> QED BY <1>1, <1>17, <1>4, <2>1
<1>18. CASE HseStarts
  BY <1>18, <1>5 DEF HseStarts
<1>19. CASE PllLocks
  BY <1>19, <1>5 DEF PllLocks
<1>20. CASE Tim10Overflow
  BY <1>20, <1>5 DEF Tim10Overflow
<1>21. CASE TIM1_UP_TIM10_IRQHandler
  BY <1>21, <1>5 DEF TIM1_UP_TIM10_IRQHandler, HAL_TIM_PeriodElapsedCallback
<1>22. CASE HostEvent
  BY <1>22, <1>5 DEF HostEvent
<1>23. CASE OTG_FS_IRQHandler
  BY <1>23, <1>5 DEF OTG_FS_IRQHandler
<1>24. CASE KernelTick
  BY <1>24, <1>5 DEF KernelTick
<1>25. CASE DevInit
  BY <1>25, <1>5 DEF DevInit
<1>26. CASE DevTask
  BY <1>26, <1>5 DEF DevTask
<1>27. CASE Cdc
  BY <1>27, <1>5 DEF Cdc, CdcPass
<1>28. CASE CliPass
  BY <1>28, <1>5 DEF CliPass
<1>29. CASE TmrPass
  BY <1>29, <1>5 DEF TmrPass
<1>30. CASE UNCHANGED vars
  BY <1>30, <1>1
<1> QED
  BY <1>6, <1>7, <1>8, <1>9, <1>10, <1>11, <1>12, <1>13, <1>14, <1>15, <1>16, <1>17, <1>18,
     <1>19, <1>20, <1>21, <1>22, <1>23, <1>24, <1>25, <1>26, <1>27, <1>28, <1>29, <1>30
     DEF Next, Main, Dev, Hardware

(* While the stack is not up usb/dev is ready, and it outranks the others. *)
LEMMA BootTaskStep == BootInv /\ [Next]_vars => TaskInv'
<1> SUFFICES ASSUME BootInv, [Next]_vars PROVE TaskInv'
  OBVIOUS
<1>1. TaskInv /\ PlacesOK
  BY DEF BootInv, TypeOK
<1> USE DEF TaskInv, PlacesOK, Linked, Created, vars, oscVars, clockVars, tickVars, timVars, calVars,
           ramVars, ledVars, usbVars, taskVars
<1>2. CASE Reset_Handler
  BY <1>2, <1>1 DEF Reset_Handler
<1>3. CASE StaticConstructors
  BY <1>3, <1>1 DEF StaticConstructors, CDC, CLIModule
<1>4. CASE SystemClock_Config
  BY <1>4, <1>1 DEF SystemClock_Config
<1>5. CASE WaitHse
  BY <1>5, <1>1 DEF WaitHse
<1>6. CASE WaitPll
  BY <1>6, <1>1 DEF WaitPll
<1>7. CASE ClockConfig
  BY <1>7, <1>1 DEF ClockConfig
<1>8. CASE HAL_Init
  BY <1>8, <1>1 DEF HAL_Init
<1>9. CASE Timing_init
  BY <1>9, <1>1 DEF Timing_init
<1>10. CASE Board_init
  BY <1>10, <1>1 DEF Board_init, init, set
<1>11. CASE Application_setup
  BY <1>11, <1>1, TaskNames DEF Application_setup, link_stream, create
<1>12. CASE CDC_setup
  BY <1>12, <1>1, TaskNames DEF CDC_setup, init_usb_hw, create
<1>13. CASE vTaskStartScheduler
  BY <1>13, <1>1, TaskNames DEF vTaskStartScheduler, create
<1>14. CASE HseStarts
  BY <1>14, <1>1 DEF HseStarts
<1>15. CASE PllLocks
  BY <1>15, <1>1 DEF PllLocks
<1>16. CASE Tim10Overflow
  BY <1>16, <1>1 DEF Tim10Overflow
<1>17. CASE TIM1_UP_TIM10_IRQHandler
  BY <1>17, <1>1 DEF TIM1_UP_TIM10_IRQHandler, HAL_TIM_PeriodElapsedCallback
<1>18. CASE HostEvent
  BY <1>18, <1>1 DEF HostEvent
<1>19. CASE OTG_FS_IRQHandler
  BY <1>19, <1>1, TaskNames DEF OTG_FS_IRQHandler
<1>20. CASE KernelTick
  BY <1>20, <1>1, TaskNames DEF KernelTick
<1>21. CASE DevInit
  BY <1>21, <1>1, TaskNames DEF DevInit, Runs
<1>22. CASE DevTask
  BY <1>22, <1>1, TaskNames DEF DevTask, Runs
<1>23. CASE Cdc
  <2>1. PICK bytes \in BOOLEAN : CdcPass(bytes)
    BY <1>23 DEF Cdc
  <2>2. state["usb/dev"] # "ready" /\ main = "tasks"
    <3>1. Priority("usb/dev") = 6 /\ Priority("usb/cdc") = 5
      BY DEF Priority
    <3>2. Runs("usb/cdc")
      BY <2>1 DEF CdcPass
    <3>3. /\ main = "tasks"
          /\ state["usb/dev"] = "ready" => Priority("usb/dev") <= Priority("usb/cdc")
      BY <3>2, TaskNames, Zenon DEF Runs
    <3>4. ~(Priority("usb/dev") <= Priority("usb/cdc"))
      BY ONLY <3>1
    <3> QED BY <3>3, <3>4, Zenon
  <2>3. state'["usb/dev"] = state["usb/dev"] /\ place'["usb/dev"] = place["usb/dev"]
    BY <1>1, <2>1, TaskNames DEF CdcPass
  <2> QED BY <1>1, <2>1, <2>2, <2>3 DEF CdcPass
<1>24. CASE CliPass
  BY <1>24, <1>1, TaskNames DEF CliPass
<1>25. CASE TmrPass
  BY <1>25, <1>1, TaskNames DEF TmrPass
<1>26. CASE UNCHANGED vars
  BY <1>26, <1>1
<1> QED
  BY <1>2, <1>3, <1>4, <1>5, <1>6, <1>7, <1>8, <1>9, <1>10, <1>11, <1>12, <1>13, <1>14, <1>15,
     <1>16, <1>17, <1>18, <1>19, <1>20, <1>21, <1>22, <1>23, <1>24, <1>25, <1>26
     DEF Next, Main, Dev, Hardware

(* The inductive invariant holds in every reachable state.                 *)
THEOREM BootInvariant == Spec => []BootInv
<1>1. BootInv /\ [Next]_vars => BootInv'
  BY RegistersStep, NumbersStep, FlagsStep, PlacesStep, BootClockStep, BootTaskStep DEF BootInv, TypeOK
<1> QED BY BootInit, <1>1, PTL DEF Spec

(* The type invariant of Boot.                                             *)
THEOREM BootTypeCorrect == Spec => []TypeOK
<1>1. BootInv => TypeOK
  BY DEF BootInv
<1> QED BY BootInvariant, <1>1, PTL

(* usb/cdc finds the stack up and its stream linked, by the priorities and *)
(* the order of set-up alone.                                              *)
THEOREM CdcAlwaysFindsAll == Spec => []CdcFindsAll
<1>1. BootInv => CdcFindsAll
  BY DEF BootInv, TaskInv, CdcFindsAll, Linked, Created
<1> QED BY BootInvariant, <1>1, PTL

(* The USB interrupt never calls the kernel before the scheduler runs, nor *)
(* from a priority above the kernel's limit.                               *)
THEOREM UsbIrqAlwaysSafe == Spec => []UsbIrqSafe
<1>1. BootInv => UsbIrqSafe
  BY ClockedRates DEF BootInv, TaskInv, ClockInv, UsbIrqSafe, Clocked, Created,
         configLIBRARY_MAX_SYSCALL_INTERRUPT_PRIORITY
<1> QED BY BootInvariant, <1>1, PTL

(* SystemCoreClock, delays and measurements follow the real core clock.    *)
THEOREM AlwaysCalibrated == Spec => []Calibrated
<1>1. BootInv => Calibrated
  <2> SUFFICES ASSUME BootInv PROVE Calibrated
    OBVIOUS
  <2> USE DEF BootInv, ClockInv
  <2>1. CASE main \in Clocked
    <3>1. /\ Hclk(CFGR, PLLCFGR) = 168 * MHz /\ SystemCoreClockUpdate(CFGR, PLLCFGR) = 168 * MHz
          /\ SystemCoreClock = 168 * MHz
      BY <2>1, ClockedRates
    <3>2. main = "tasks" => /\ ticks_per_us = Hclk(CFGR, PLLCFGR) \div MHz
                            /\ systick = Hclk(CFGR, PLLCFGR) \div 1000
      BY <3>1 DEF Scaled, MHz
    <3> QED BY <3>1, <3>2 DEF Calibrated
  <2>2. CASE main \in Unclocked
    BY <2>2, UnclockedRates DEF Calibrated, Unclocked
  <2>3. CASE main = "Reset_Handler"
    BY <2>3 DEF Calibrated
  <2> QED BY <2>1, <2>2, <2>3 DEF TypeOK, PlacesOK, Clocked, Unclocked
<1> QED BY BootInvariant, <1>1, PTL

(* TIM10 interrupts every millisecond from the moment it is enabled.       *)
THEOREM TimeBaseCorrect == Spec => []TimeBase1ms
<1>1. BootInv => TimeBase1ms
  BY ClockedRates DEF BootInv, ClockInv, TimeBase1ms, MHz
<1> QED BY BootInvariant, <1>1, PTL
=============================================================================

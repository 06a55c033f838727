------------------------ MODULE KernelObjects_proofs ------------------------
(***************************************************************************)
(* The safety properties of KernelObjects for any number of tasks with any *)
(* priorities, any capacities, waits and periods.                          *)
(***************************************************************************)
EXTENDS KernelObjects, TLAPS

(* Nobody is in the kernel but the one that runs.                          *)
Sections ==
  /\ active \subseteq kernel
  /\ \A a, b \in kernel : a = b
  /\ \A t \in kernel : t \in Tasks => t = current /\ ~yield /\ active = {}
  /\ halted => kernel = {}

(* Unless a switch is pending the most urgent ready task is current.       *)
Scheduled ==
  ~yield => /\ status[current] = "ready"
            /\ \A t \in Tasks : status[t] = "ready" => Priority[t] <= Priority[current]

(* The calls are those of wrappers; only the timer task, which waits for   *)
(* commands outside callbacks, has one that is not.                        *)
GoodCall(c) == c \in CallType /\ (c.obj = "commands" => c.act = "put")
CallsInv ==
  /\ \A t \in Tasks : GoodCall(call[t]) \/ (t = TmrSvc /\ place = "drain")
  /\ TmrSvc \in kernel => place = "callback"

(* A period of 0 ticks, on its way or arrived, has been asked for.         *)
ShortPeriods ==
  /\ halted => short
  /\ \A t \in Tasks : call[t].cmd = "period_0" => short
  /\ \A i \in 1..Len(cmds) : cmds[i] = "period_0" => short

KernelInv == TypeOK /\ Sections /\ CallsInv /\ Scheduled /\ ShortPeriods

-----------------------------------------------------------------------------
(* What the wrappers ask for.                                              *)

(* set_period asks for 0 ticks only if it was given less than 1000 us.     *)
LEMMA PeriodCall ==
  ASSUME NEW us \in Nat
  PROVE  GoodCall(set_period(us)) /\ (set_period(us).cmd = "period_0" => us < 1000)
<1>1. us_to_freertos_ticks(us) = 0 => us < 1000
  BY DEF us_to_freertos_ticks
<1> DEFINE name == IF us_to_freertos_ticks(us) = 0 THEN "period_0" ELSE "period"
<1>2. name \in CmdNames /\ (name = "period_0" => us < 1000)
  BY <1>1 DEF CmdNames
<1>3. set_period(us) = [obj |-> "commands", act |-> "put", ticks |-> DEFAULT_BLOCKTIME, cmd |-> name]
  BY DEF set_period, Command
<1> HIDE DEF name
<1> QED BY <1>2, <1>3, KernelAssumption DEF GoodCall, CallType

(* None of the other calls names a period.                                 *)
LEMMA OtherCalls ==
  ASSUME NEW c \in Calls
  PROVE  GoodCall(c) /\ c.cmd # "period_0"
<1>1. \A us \in Nat : us_to_freertos_ticks(us) \in Nat
  BY DEF us_to_freertos_ticks
<1>2. \A obj \in {"queue", "semaphore"}, act \in {"put", "get", "reset"}, n \in Nat :
        GoodCall(Call(obj, act, n)) /\ Call(obj, act, n).cmd # "period_0"
  BY DEF Call, GoodCall, CallType, CmdNames
<1>3. \A auto \in BOOLEAN : GoodCall(set_reload_mode(auto)) /\ set_reload_mode(auto).cmd # "period_0"
  BY DEF set_reload_mode, Call, GoodCall, CallType, CmdNames
<1>4. GoodCall(start) /\ start.cmd # "period_0" /\ GoodCall(stop) /\ stop.cmd # "period_0"
  BY KernelAssumption DEF start, stop, Command, GoodCall, CallType, CmdNames
<1>5. \A us \in WaitsUs : us_to_freertos_ticks(us) \in Nat
  BY <1>1, KernelAssumption
<1>6. CASE c \in TimerCalls
  BY <1>3, <1>4, <1>6 DEF TimerCalls
<1>7. CASE c \in {reset_queue, give}
  BY <1>2, <1>7 DEF reset_queue, give
<1>8. CASE \E us \in WaitsUs : c = send(us) \/ c = receive(us) \/ c = take(us)
  BY <1>2, <1>5, <1>8 DEF send, receive, take
<1> QED BY <1>6, <1>7, <1>8 DEF Calls

(* A handler's call is one of them without a wait.                         *)
LEMMA IsrCall ==
  ASSUME NEW c, GoodCall(c)
  PROVE  GoodCall(from_isr(c)) /\ from_isr(c).cmd = c.cmd
BY DEF from_isr, GoodCall, CallType

(* A call that succeeds keeps every object within its capacity.            *)
LEMMA EffectKeeps ==
  ASSUME TypeOK, NEW c, GoodCall(c), Succeeds(c), Effect(c)
  PROVE  /\ count' \in [{"queue", "semaphore"} -> Nat]
         /\ count'["queue"] <= QueueSize /\ count'["semaphore"] <= 1
         /\ cmds' \in Seq(CmdNames) /\ Len(cmds') <= configTIMER_QUEUE_LENGTH
         /\ timer' \in [on : BOOLEAN, due : BOOLEAN, reload : BOOLEAN]
         /\ \A i \in 1..Len(cmds') : cmds'[i] = "period_0" =>
              c.cmd = "period_0" \/ \E j \in 1..Len(cmds) : cmds[j] = "period_0"
<1>1. count["queue"] \in Nat /\ count["semaphore"] \in Nat
  BY DEF TypeOK
<1>2. Capacity["queue"] = QueueSize /\ Capacity["semaphore"] = 1 /\ Capacity["commands"] = configTIMER_QUEUE_LENGTH
  BY DEF Capacity
<1>3. ASSUME c.obj \in {"queue", "semaphore"}
      PROVE  /\ count' \in [{"queue", "semaphore"} -> Nat]
             /\ count'["queue"] <= QueueSize /\ count'["semaphore"] <= 1
  <2> DEFINE n == IF c.act = "put" THEN count[c.obj] + 1 ELSE IF c.act = "get" THEN count[c.obj] - 1 ELSE 0
  <2>1. count' = [count EXCEPT ![c.obj] = n]
    BY <1>3 DEF Effect
  <2>2. messages_waiting(c.obj) = count[c.obj]
    BY <1>3 DEF messages_waiting
  <2>3. c.act = "put" => count[c.obj] # Capacity[c.obj]
    BY <2>2 DEF Succeeds, is_full
  <2>4. c.act = "get" => count[c.obj] # 0
    BY <2>2 DEF Succeeds, is_empty
  <2>5. count[c.obj] \in Nat /\ count[c.obj] <= Capacity[c.obj] /\ Capacity[c.obj] \in Nat
    BY <1>1, <1>2, <1>3, KernelAssumption DEF TypeOK
  <2>6. n \in Nat /\ n <= Capacity[c.obj]
    BY <2>3, <2>4, <2>5
  <2> HIDE DEF n
  <2>7. count' \in [{"queue", "semaphore"} -> Nat]
    BY <2>1, <2>6 DEF TypeOK
  <2>8. CASE c.obj = "queue"
    BY <1>2, <2>1, <2>6, <2>7, <2>8 DEF TypeOK
  <2>9. CASE c.obj = "semaphore"
    BY <1>2, <2>1, <2>6, <2>7, <2>9 DEF TypeOK
  <2> QED BY <1>3, <2>7, <2>8, <2>9
<1>4. ASSUME c.obj \notin {"queue", "semaphore"}
      PROVE  /\ count' \in [{"queue", "semaphore"} -> Nat]
             /\ count'["queue"] <= QueueSize /\ count'["semaphore"] <= 1
  <2>1. count' = count
    BY <1>4 DEF Effect
  <2> QED BY <2>1 DEF TypeOK
<1>5. ASSUME c.obj = "commands"
      PROVE  /\ cmds' \in Seq(CmdNames) /\ Len(cmds') <= configTIMER_QUEUE_LENGTH
             /\ \A i \in 1..Len(cmds') : cmds'[i] = "period_0" =>
                  c.cmd = "period_0" \/ \E j \in 1..Len(cmds) : cmds[j] = "period_0"
  <2>1. cmds' = Append(cmds, c.cmd) /\ c.cmd \in CmdNames /\ cmds \in Seq(CmdNames)
    BY <1>5 DEF Effect, GoodCall, CallType, TypeOK
  <2>2. Len(cmds) # configTIMER_QUEUE_LENGTH
    BY <1>2, <1>5 DEF GoodCall, Succeeds, is_full, messages_waiting
  <2>3. Len(cmds) \in Nat /\ Len(cmds) <= configTIMER_QUEUE_LENGTH
    BY <2>1 DEF TypeOK
  <2> QED BY <2>1, <2>2, <2>3, KernelAssumption
<1>6. ASSUME c.obj # "commands"
      PROVE  /\ cmds' \in Seq(CmdNames) /\ Len(cmds') <= configTIMER_QUEUE_LENGTH
             /\ \A i \in 1..Len(cmds') : cmds'[i] = "period_0" =>
                  c.cmd = "period_0" \/ \E j \in 1..Len(cmds) : cmds[j] = "period_0"
  <2>1. cmds' = cmds
    BY <1>6 DEF Effect
  <2> QED BY <2>1 DEF TypeOK
<1>7. timer' \in [on : BOOLEAN, due : BOOLEAN, reload : BOOLEAN]
  BY DEF Effect, TypeOK
<1> QED BY <1>3, <1>4, <1>5, <1>6, <1>7

-----------------------------------------------------------------------------
(* The steps.                                                              *)

(* The wait of a task ends only for the better: a woken task is a task.    *)
LEMMA WokenTasks ==
  ASSUME NEW obj, NEW act, NEW W \in Woken(obj, act)
  PROVE  W \subseteq Tasks
<1> DEFINE V == Waiters(obj, IF act = "put" THEN "get" ELSE "put")
<1>1. V \subseteq Tasks
  BY DEF Waiters
<1>2. Woken(obj, act) = IF V = {} THEN {{}} ELSE {{t} : t \in Urgent(V)}
  BY DEF Woken
<1>3. Urgent(V) \subseteq V
  BY DEF Urgent
<1> HIDE DEF V
<1> QED BY <1>1, <1>2, <1>3

(* After a wake-up the schedule is kept, if a switch is asked for whenever *)
(* a more urgent task woke up.                                             *)
LEMMA WakeSchedules ==
  ASSUME TypeOK, Scheduled, NEW W \in SUBSET Tasks, Wake(W), current' = current,
         ~yield' => ~yield /\ ~Preempts(W)
  PROVE  Scheduled'
<1> SUFFICES ASSUME ~yield'
             PROVE  /\ status'[current] = "ready"
                    /\ \A t \in Tasks : status'[t] = "ready" => Priority[t] <= Priority[current]
  BY DEF Scheduled
<1>1. status[current] = "ready" /\ \A t \in Tasks : status[t] = "ready" => Priority[t] <= Priority[current]
  BY DEF Scheduled
<1>2. \A t \in W : Priority[t] <= Priority[current]
  BY KernelAssumption DEF Preempts, TypeOK
<1> QED BY <1>1, <1>2 DEF Wake, TypeOK

(* What is masked is every handler that calls the kernel.                  *)
LEMMA HeldBack ==
  ASSUME NEW e \in Handlers, TakeException(e)
  PROVE  ~masked
<1>1. ~(Level[e] < configLIBRARY_MAX_SYSCALL_INTERRUPT_PRIORITY)
  BY DEF Handlers, Level, configLIBRARY_MAX_SYSCALL_INTERRUPT_PRIORITY, configLIBRARY_LOWEST_INTERRUPT_PRIORITY
<1> QED BY <1>1 DEF TakeException

(* The critical sections: every entry finds the kernel empty.              *)
LEMMA SectionsStep == KernelInv /\ [Next]_vars => Sections'
<1> SUFFICES ASSUME KernelInv, [Next]_vars PROVE Sections'
  OBVIOUS
<1>1. Sections /\ current \in Tasks /\ active \subseteq Handlers
  BY DEF KernelInv, TypeOK
<1>3. ASSUME NEW e \in Handlers, TakeException(e)
      PROVE  Sections'
  <2>1. kernel = {} /\ ~halted
    BY <1>3, HeldBack DEF masked
  <2> QED BY <1>1, <1>3, <2>1, HandlersAreNoTasks
       DEF TakeException, Sections, taskVars, objectVars, ghostVars
<1>4. ASSUME NEW e \in Handlers, Unmask(e), UNCHANGED halted
      PROVE  Sections'
  BY <1>1, <1>4 DEF Unmask, Sections
<1>5. CASE Interrupting \/ SysTick_Handler \/ PendSV_Handler
  BY <1>4, <1>5 DEF Interrupting, OTG_FS_IRQHandler, SysTick_Handler, PendSV_Handler, Handlers
<1>6. CASE TimerTask
  <2>1. Running(TmrSvc) /\ kernel = {} /\ active = {} /\ kernel' = kernel /\ active' = active
    BY <1>6 DEF TimerTask, Expire, AwaitCommand, Carry_out, Drained, CallbackReturns, Tmr, Running, masked
  <2> QED BY <2>1 DEF Sections
<1>7. ASSUME NEW t \in Tasks, TaskStep(t)
      PROVE  Sections'
  <2>1. CASE Calling(t) \/ Retry(t)
    <3>1. /\ Running(t) /\ kernel' = {t} /\ active' = active
          /\ UNCHANGED <<current, yield, halted>>
      BY <2>1 DEF Calling, Begin, Client, Retry, taskVars
    <3> QED BY <3>1 DEF Running, Sections, masked
  <2>2. CASE Succeed(t) \/ Block(t) \/ Fail(t)
    <3>1. t \in kernel /\ kernel' = kernel \ {t} /\ active = {} /\ active' = active /\ halted' = halted
      BY <2>2 DEF Succeed, Block, Fail, InKernel
    <3> QED BY <1>1, <3>1 DEF Sections
  <2>3. CASE abort(t)
    BY <1>1, <2>3 DEF abort, Error_Handler, Sections, taskVars, objectVars, ghostVars
  <2> QED BY <1>7, <2>1, <2>2, <2>3 DEF TaskStep
<1>8. CASE UNCHANGED vars
  BY <1>1, <1>8 DEF vars, taskVars, Sections
<1> QED BY <1>3, <1>5, <1>6, <1>7, <1>8 DEF Next, Exceptions

(* Whoever wakes a more urgent task asks for a switch.                     *)
LEMMA ScheduledStep == KernelInv /\ [Next]_vars => Scheduled'
<1> SUFFICES ASSUME KernelInv, [Next]_vars PROVE Scheduled'
  OBVIOUS
<1>1. TypeOK /\ Sections /\ Scheduled
  BY DEF KernelInv
<1>2. ASSUME UNCHANGED <<current, status, yield>>
      PROVE  Scheduled'
  BY <1>1, <1>2 DEF Scheduled
<1>3. ASSUME NEW e \in Handlers, TakeException(e)
      PROVE  Scheduled'
  BY <1>2, <1>3 DEF TakeException, taskVars
<1>4. ASSUME NEW c, NEW us, OTG_FS_IRQHandler(c, us)
      PROVE  Scheduled'
  <2>1. CASE Succeeds(c)
    <3>1. PICK W \in Woken(c.obj, c.act) : Wake(W) /\ portYIELD_FROM_ISR(Preempts(W))
      BY <1>4, <2>1 DEF OTG_FS_IRQHandler
    <3>2. W \in SUBSET Tasks
      BY WokenTasks
    <3>3. current' = current
      BY <1>4 DEF OTG_FS_IRQHandler
    <3> QED BY <1>1, <3>1, <3>2, <3>3, WakeSchedules DEF portYIELD_FROM_ISR
  <2>2. CASE ~Succeeds(c)
    BY <1>2, <1>4, <2>2 DEF OTG_FS_IRQHandler
  <2> QED BY <2>1, <2>2
<1>5. CASE SysTick_Handler
  <2>1. PICK W \in SUBSET Tasks : Wake(W) /\ (~yield' => ~yield /\ ~Preempts(W))
    BY <1>5 DEF SysTick_Handler
  <2>2. current' = current
    BY <1>5 DEF SysTick_Handler
  <2> QED BY <1>1, <2>1, <2>2, WakeSchedules
<1>6. CASE PendSV_Handler
  BY <1>1, <1>6 DEF PendSV_Handler, Urgent, Scheduled
<1>7. CASE TimerTask
  <2>1. ~yield /\ current' = current /\ current = TmrSvc
    BY <1>7 DEF TimerTask, Expire, AwaitCommand, Carry_out, Drained, CallbackReturns, Tmr, Running
  <2>2. CASE Expire \/ Drained \/ CallbackReturns
    BY <1>2, <2>1, <2>2 DEF Expire, Drained, CallbackReturns
  <2>3. CASE AwaitCommand
    BY <1>2, <2>1, <2>3 DEF AwaitCommand, Scheduled
  <2>4. CASE Carry_out
    <3>1. PICK W \in Woken("commands", "get") : Wake(W) /\ yield' = Preempts(W)
      BY <2>4 DEF Carry_out
    <3>2. W \in SUBSET Tasks
      BY WokenTasks
    <3> QED BY <1>1, <2>1, <3>1, <3>2, WakeSchedules
  <2> QED BY <1>7, <2>2, <2>3, <2>4 DEF TimerTask
<1>8. ASSUME NEW t \in Tasks, TaskStep(t)
      PROVE  Scheduled'
  <2>1. CASE Calling(t) \/ Retry(t) \/ abort(t) \/ Fail(t)
    <3>1. UNCHANGED <<current, status, yield>>
      BY <2>1 DEF Calling, Begin, Retry, abort, Error_Handler, Fail, taskVars
    <3> QED BY <1>2, <3>1
  <2>2. CASE Block(t)
    BY <2>2 DEF Block, Scheduled
  <2>3. CASE Succeed(t)
    <3>1. PICK W \in Woken(call[t].obj, call[t].act) : Wake(W) /\ yield' = Preempts(W)
      BY <2>3 DEF Succeed
    <3>2. W \in SUBSET Tasks
      BY WokenTasks
    <3>3. ~yield /\ current' = current
      BY <1>1, <2>3 DEF Succeed, InKernel, Sections
    <3> QED BY <1>1, <3>1, <3>2, <3>3, WakeSchedules
  <2> QED BY <1>8, <2>1, <2>2, <2>3 DEF TaskStep
<1>9. CASE UNCHANGED vars
  BY <1>2, <1>9 DEF vars, taskVars
<1> QED BY <1>3, <1>4, <1>5, <1>6, <1>7, <1>8, <1>9 DEF Next, Exceptions, Interrupting

(* The calls stay those of wrappers.                                       *)
LEMMA CallsStep == KernelInv /\ [Next]_vars => CallsInv'
<1> SUFFICES ASSUME KernelInv, [Next]_vars PROVE CallsInv'
  OBVIOUS
<1>1. CallsInv /\ call \in [Tasks -> CallType] /\ TmrSvc \in Tasks /\ TmrSvc \notin Handlers
  BY KernelAssumption, HandlersAreNoTasks DEF KernelInv, TypeOK
<1>2. ASSUME UNCHANGED <<call, place>>, TmrSvc \in kernel' => TmrSvc \in kernel
      PROVE  CallsInv'
  BY <1>1, <1>2 DEF CallsInv
<1>3. ASSUME NEW e \in Handlers, TakeException(e)
      PROVE  CallsInv'
  BY <1>1, <1>2, <1>3 DEF TakeException, taskVars
<1>4. CASE Interrupting \/ SysTick_Handler \/ PendSV_Handler
  BY <1>2, <1>4 DEF Interrupting, OTG_FS_IRQHandler, SysTick_Handler, PendSV_Handler, Unmask
<1>5. GoodCall(NoCall)
  BY DEF GoodCall, NoCall, Call, CallType, CmdNames
<1>6. CASE TimerTask
  <2>1. TmrSvc \notin kernel' /\ kernel' = kernel
    BY <1>6 DEF TimerTask, Expire, AwaitCommand, Carry_out, Drained, CallbackReturns, Tmr, Running, masked
  <2>2. CASE Expire
    BY <1>1, <2>1, <2>2 DEF Expire, Callback, CallsInv, Tmr
  <2>3. CASE AwaitCommand
    BY <1>1, <2>1, <2>3 DEF AwaitCommand, CallsInv
  <2>4. CASE Carry_out \/ Drained
    <3>1. call' = [call EXCEPT ![TmrSvc] = NoCall]
      BY <2>4 DEF Carry_out, Drained
    <3> QED BY <1>1, <1>5, <2>1, <3>1 DEF CallsInv
  <2>5. CASE CallbackReturns
    BY <1>1, <2>1, <2>5 DEF CallbackReturns, CallsInv, Tmr
  <2> QED BY <1>6, <2>2, <2>3, <2>4, <2>5 DEF TimerTask
<1>7. ASSUME NEW t \in Tasks, TaskStep(t)
      PROVE  CallsInv'
  <2>1. CASE Calling(t)
    <3>1. PICK c, us : Begin(t, c, us) /\ GoodCall(c)
      BY <2>1, OtherCalls, PeriodCall, KernelAssumption DEF Calling
    <3> QED BY <1>1, <3>1 DEF Begin, Client, CallsInv
  <2>2. CASE Retry(t)
    BY <1>1, <2>2 DEF Retry, taskVars, CallsInv
  <2>3. CASE Succeed(t) \/ Fail(t)
    <3>1. /\ kernel' = kernel \ {t} /\ t \in kernel
          /\ call' = [call EXCEPT ![t] = NoCall]
          /\ place' = IF t = TmrSvc THEN "drain" ELSE place
      BY <2>3 DEF Succeed, Fail, InKernel, Returns
    <3>2. Sections
      BY DEF KernelInv
    <3> QED BY <1>1, <1>5, <3>1, <3>2 DEF CallsInv, Sections
  <2>4. CASE Block(t) \/ abort(t)
    <3>1. kernel' \subseteq kernel /\ UNCHANGED <<call, place>>
      BY <2>4 DEF Block, abort, Error_Handler, InKernel, taskVars
    <3> QED BY <1>2, <3>1
  <2> QED BY <1>7, <2>1, <2>2, <2>3, <2>4 DEF TaskStep
<1>8. CASE UNCHANGED vars
  BY <1>2, <1>8 DEF vars, taskVars
<1> QED BY <1>3, <1>4, <1>6, <1>7, <1>8 DEF Next, Exceptions

(* A task in the kernel is in a call of a wrapper.                         *)
LEMMA InGoodCall ==
  ASSUME KernelInv, NEW t \in Tasks, t \in kernel
  PROVE  GoodCall(call[t])
<1>1. t # TmrSvc \/ place = "callback"
  BY DEF KernelInv, CallsInv
<1> QED BY <1>1 DEF KernelInv, CallsInv

(* An interrupt's call is one of a wrapper.                                *)
LEMMA InterruptingCall ==
  ASSUME Interrupting
  PROVE  \E c, us : /\ OTG_FS_IRQHandler(c, us) /\ GoodCall(c)
                    /\ c.cmd = "period_0" => us < 1000
<1>1. \A us \in PeriodsUs : GoodCall(from_isr(set_period(us)))
                            /\ (from_isr(set_period(us)).cmd = "period_0" => us < 1000)
  BY PeriodCall, IsrCall, KernelAssumption
<1>2. \A c \in IsrCalls : GoodCall(c) /\ c.cmd # "period_0"
  BY OtherCalls, IsrCall DEF IsrCalls
<1> QED BY <1>1, <1>2 DEF Interrupting

(* A period of 0 ticks is only ever somebody's wish.                       *)
LEMMA ShortStep == KernelInv /\ [Next]_vars => ShortPeriods'
<1> SUFFICES ASSUME KernelInv, [Next]_vars PROVE ShortPeriods'
  OBVIOUS
<1>1. /\ ShortPeriods /\ TypeOK /\ TmrSvc \in Tasks
      /\ call \in [Tasks -> CallType] /\ cmds \in Seq(CmdNames) /\ short \in BOOLEAN
  BY KernelAssumption DEF KernelInv, TypeOK
<1>2. NoCall.cmd # "period_0" /\ Call("commands", "get", 0).cmd # "period_0"
  BY DEF NoCall, Call
<1>3. ASSUME UNCHANGED <<halted, call, cmds>>, short => short'
      PROVE  ShortPeriods'
  BY <1>1, <1>3 DEF ShortPeriods
<1>4. ASSUME NEW e \in Handlers, TakeException(e)
      PROVE  ShortPeriods'
  BY <1>3, <1>4 DEF TakeException, taskVars, objectVars, ghostVars
<1>5. CASE SysTick_Handler \/ PendSV_Handler
  BY <1>3, <1>5 DEF SysTick_Handler, PendSV_Handler, objectVars, ghostVars
<1>6. CASE Interrupting
  <2>1. PICK c, us : /\ OTG_FS_IRQHandler(c, us) /\ GoodCall(c)
                     /\ c.cmd = "period_0" => us < 1000
    BY <1>6, InterruptingCall
  <2>2. (short => short') /\ (c.cmd = "period_0" => short') /\ halted' = halted /\ call' = call
    BY <2>1, ZenonT(30) DEF OTG_FS_IRQHandler
  <2>3. CASE Succeeds(c)
    <3>1. Effect(c)
      BY <2>1, <2>3 DEF OTG_FS_IRQHandler
    <3>2. \A i \in 1..Len(cmds') : cmds'[i] = "period_0" =>
            c.cmd = "period_0" \/ \E j \in 1..Len(cmds) : cmds[j] = "period_0"
      BY <1>1, <2>1, <2>3, <3>1, EffectKeeps
    <3> QED BY <1>1, <2>2, <3>2 DEF ShortPeriods
  <2>4. CASE ~Succeeds(c)
    <3>1. cmds' = cmds
      BY <2>1, <2>4 DEF OTG_FS_IRQHandler, objectVars
    <3> QED BY <1>3, <2>2, <3>1
  <2> QED BY <2>3, <2>4
<1>7. CASE TimerTask
  <2>1. short' = short
    BY <1>7 DEF TimerTask, Expire, AwaitCommand, Carry_out, Drained, CallbackReturns, Tmr, ghostVars
  <2>2. CASE Expire \/ CallbackReturns
    BY <1>3, <2>1, <2>2 DEF Expire, CallbackReturns, objectVars
  <2>3. CASE AwaitCommand \/ Drained
    <3>1. halted' = halted /\ cmds' = cmds
      BY <2>3 DEF AwaitCommand, Drained, objectVars
    <3>2. \A t \in Tasks : call'[t].cmd = "period_0" => call[t].cmd = "period_0"
      BY <1>1, <1>2, <2>3 DEF AwaitCommand, Drained
    <3> QED BY <1>1, <2>1, <3>1, <3>2 DEF ShortPeriods
  <2>4. CASE Carry_out
    <3>1. /\ cmds # <<>> /\ cmds' = Tail(cmds) /\ halted' = (Head(cmds) = "period_0")
          /\ call' = [call EXCEPT ![TmrSvc] = NoCall]
      BY <2>4 DEF Carry_out
    <3>2. Len(cmds) \in Nat /\ Len(cmds) > 0 /\ Head(cmds) = cmds[1]
      BY <1>1, <3>1
    <3>3. Len(cmds') = Len(cmds) - 1 /\ \A i \in 1..Len(cmds') : cmds'[i] = cmds[i + 1] /\ i + 1 \in 1..Len(cmds)
      BY <1>1, <3>1, <3>2
    <3>4. halted' => short
      BY <1>1, <3>1, <3>2 DEF ShortPeriods
    <3>5. \A t \in Tasks : call'[t].cmd = "period_0" => call[t].cmd = "period_0"
      BY <1>1, <1>2, <3>1
    <3> QED BY <1>1, <2>1, <3>3, <3>4, <3>5 DEF ShortPeriods
  <2> QED BY <1>7, <2>2, <2>3, <2>4 DEF TimerTask
<1>8. ASSUME NEW t \in Tasks, TaskStep(t)
      PROVE  ShortPeriods'
  <2>1. CASE Calling(t)
    <3>1. PICK c, us : Begin(t, c, us) /\ (c.cmd = "period_0" => us < 1000)
      BY <2>1, OtherCalls, PeriodCall, KernelAssumption DEF Calling
    <3>2. (short => short') /\ (c.cmd = "period_0" => short')
      <4> DEFINE sub == us < 1000
      <4>1. short' = (short \/ sub)
        BY <3>1 DEF Begin
      <4>2. c.cmd = "period_0" => sub
        BY <3>1
      <4> HIDE DEF sub
      <4>3. short => short'
        BY <4>1, ZenonT(30)
      <4>4. sub => short'
        BY <4>1, ZenonT(30)
      <4> QED BY <4>2, <4>3, <4>4, PTL
    <3>3. call' = [call EXCEPT ![t] = c] /\ halted' = halted /\ cmds' = cmds
      BY <3>1 DEF Begin, objectVars
    <3>4. \A u \in Tasks : call'[u].cmd = "period_0" => call[u].cmd = "period_0" \/ c.cmd = "period_0"
      BY <1>1, <3>3
    <3> QED BY <1>1, <3>2, <3>3, <3>4 DEF ShortPeriods
  <2>2. CASE Retry(t) \/ Block(t) \/ abort(t)
    BY <1>3, <2>2 DEF Retry, Block, abort, Error_Handler, taskVars, objectVars, ghostVars
  <2>3. CASE Fail(t) \/ Succeed(t)
    <3>1. call' = [call EXCEPT ![t] = NoCall] /\ halted' = halted /\ short' = short /\ t \in kernel
      BY <2>3 DEF Fail, Succeed, Returns, InKernel
    <3>2. \A u \in Tasks : call'[u].cmd = "period_0" => call[u].cmd = "period_0"
      BY <1>1, <1>2, <3>1
    <3>3. \A i \in 1..Len(cmds') : cmds'[i] = "period_0" =>
            call[t].cmd = "period_0" \/ \E j \in 1..Len(cmds) : cmds[j] = "period_0"
      <4>1. CASE Fail(t)
        BY <4>1 DEF Fail, objectVars
      <4>2. CASE Succeed(t)
        <5>1. Succeeds(call[t]) /\ Effect(call[t])
          BY <4>2 DEF Succeed
        <5> QED BY <1>1, <3>1, <5>1, EffectKeeps, InGoodCall
      <4> QED BY <2>3, <4>1, <4>2
    <3> QED BY <1>1, <3>1, <3>2, <3>3 DEF ShortPeriods
  <2> QED BY <1>8, <2>1, <2>2, <2>3 DEF TaskStep
<1>9. CASE UNCHANGED vars
  BY <1>3, <1>9 DEF vars, taskVars, objectVars, ghostVars
<1> QED BY <1>4, <1>5, <1>6, <1>7, <1>8, <1>9 DEF Next, Exceptions

(* Every step keeps the types and the capacities.                          *)
LEMMA TypeStep == KernelInv /\ [Next]_vars => TypeOK'
<1> SUFFICES ASSUME KernelInv, [Next]_vars PROVE TypeOK'
  OBVIOUS
<1>1. TypeOK
  BY DEF KernelInv
<1> DEFINE TaskTypes == /\ current \in Tasks /\ status \in [Tasks -> {"ready", "blocked"}]
                        /\ call \in [Tasks -> CallType] /\ left \in [Tasks -> Nat]
           ObjectTypes == /\ count \in [{"queue", "semaphore"} -> Nat]
                          /\ count["queue"] <= QueueSize /\ count["semaphore"] <= 1
                          /\ cmds \in Seq(CmdNames) /\ Len(cmds) <= configTIMER_QUEUE_LENGTH
                          /\ timer \in [on : BOOLEAN, due : BOOLEAN, reload : BOOLEAN]
           OtherTypes == /\ active \subseteq Handlers /\ kernel \subseteq Tasks \cup Handlers
                         /\ yield \in BOOLEAN /\ place \in {"expire", "drain", "callback"}
                         /\ halted \in BOOLEAN /\ short \in BOOLEAN
                         /\ looping \subseteq Tasks /\ waited \subseteq Tasks
<1>2. TaskTypes /\ ObjectTypes /\ OtherTypes /\ TmrSvc \in Tasks
  BY <1>1, KernelAssumption DEF TypeOK
<1>3. TaskTypes' /\ ObjectTypes' /\ OtherTypes' => TypeOK'
  BY DEF TypeOK
<1>4. ASSUME UNCHANGED objectVars PROVE ObjectTypes'
  BY <1>2, <1>4 DEF objectVars
<1>5. ASSUME UNCHANGED taskVars PROVE TaskTypes'
  BY <1>2, <1>5 DEF taskVars
<1>6. \A W : Preempts(W) \in BOOLEAN
  BY DEF Preempts
<1>7. \A W : Wake(W) => status' \in [Tasks -> {"ready", "blocked"}]
  BY <1>2 DEF Wake
<1>8. ASSUME NEW e \in Handlers, TakeException(e) PROVE TypeOK'
  BY <1>2, <1>3, <1>4, <1>5, <1>8 DEF TakeException, ghostVars
<1>9. CASE Interrupting
  <2>1. PICK c, us : /\ OTG_FS_IRQHandler(c, us) /\ GoodCall(c)
                     /\ c.cmd = "period_0" => us < 1000
    BY <1>9, InterruptingCall
  <2>2. /\ Unmask("OTG_FS") /\ short' = (short \/ us < 1000)
        /\ UNCHANGED <<current, call, left, place, halted, looping, waited>>
    BY <2>1 DEF OTG_FS_IRQHandler
  <2>3. CASE Succeeds(c)
    <3>1. ObjectTypes'
      BY <1>1, <2>1, <2>3, EffectKeeps DEF OTG_FS_IRQHandler
    <3>2. PICK W \in Woken(c.obj, c.act) : Wake(W) /\ yield' = (yield \/ Preempts(W))
      BY <2>1, <2>3 DEF OTG_FS_IRQHandler, portYIELD_FROM_ISR
    <3>3. TaskTypes'
      BY <1>2, <1>7, <2>2, <3>2
    <3>4. OtherTypes'
      BY <1>2, <1>6, <2>2, <3>2, ZenonT(30) DEF Unmask
    <3> QED BY <1>3, <3>1, <3>3, <3>4
  <2>4. CASE ~Succeeds(c)
    <3>1. UNCHANGED <<status, yield, objectVars>>
      BY <2>1, <2>4 DEF OTG_FS_IRQHandler
    <3>2. OtherTypes'
      BY <1>2, <2>2, <3>1, ZenonT(30) DEF Unmask
    <3> QED BY <1>2, <1>3, <1>4, <2>2, <3>1, <3>2
  <2> QED BY <2>3, <2>4
<1>10. CASE SysTick_Handler
  <2>1. PICK due \in {timer.due, timer.on}, W \in SUBSET Tasks, more \in BOOLEAN :
          /\ timer' = [timer EXCEPT !.due = due]
          /\ Wake(W) /\ yield' = (yield \/ Preempts(W) \/ more)
    BY <1>10 DEF SysTick_Handler
  <2>2. /\ Unmask("SysTick") /\ UNCHANGED <<current, call, count, cmds, place, halted, looping, ghostVars>>
        /\ left' = [t \in Tasks |-> left[t] - (IF status[t] = "blocked" /\ left[t] > 0 THEN 1 ELSE 0)]
    BY <1>10 DEF SysTick_Handler
  <2>3. left' \in [Tasks -> Nat]
    BY <1>2, <2>2
  <2>4. timer' \in [on : BOOLEAN, due : BOOLEAN, reload : BOOLEAN]
    BY <1>2, <2>1
  <2>5. OtherTypes'
    BY <1>2, <1>6, <2>1, <2>2, ZenonT(30) DEF Unmask, ghostVars
  <2> QED BY <1>2, <1>3, <1>7, <2>1, <2>2, <2>3, <2>4, <2>5
<1>11. CASE PendSV_Handler
  <2>1. current' \in Tasks
    BY <1>11 DEF PendSV_Handler, Urgent
  <2> QED BY <1>2, <1>3, <1>4, <1>11, <2>1 DEF PendSV_Handler, Unmask, ghostVars
<1>12. CASE TimerTask
  <2>1. UNCHANGED <<current, left, active, kernel, looping, ghostVars>>
    BY <1>12 DEF TimerTask, Expire, AwaitCommand, Carry_out, Drained, CallbackReturns, Tmr
  <2>2. NoCall \in CallType /\ Call("commands", "get", 0) \in CallType
    BY DEF NoCall, Call, CallType, CmdNames
  <2>3. CASE Expire
    BY <1>2, <1>3, <2>1, <2>3 DEF Expire, Callback, ghostVars
  <2>4. CASE AwaitCommand
    BY <1>2, <1>3, <1>4, <2>1, <2>2, <2>4 DEF AwaitCommand, ghostVars
  <2>5. CASE Carry_out
    <3>1. PICK W \in Woken("commands", "get") : Wake(W) /\ yield' = Preempts(W)
      BY <2>5 DEF Carry_out
    <3>2. /\ cmds # <<>> /\ cmds' = Tail(cmds) /\ halted' \in BOOLEAN /\ count' = count
          /\ call' = [call EXCEPT ![TmrSvc] = NoCall]
      BY <2>5 DEF Carry_out
    <3>3. /\ timer' \in [on : BOOLEAN, due : BOOLEAN, reload : BOOLEAN]
          /\ place' \in {"expire", "drain", "callback"}
      <4>1. PICK late \in BOOLEAN :
              /\ timer' = [timer EXCEPT !.due = FALSE, !.on = Head(cmds) # "stop" /\ (late => timer.reload)]
              /\ place' = "callback" \/ place' = place
        BY <2>5 DEF Carry_out, Callback
      <4> QED BY <1>2, <4>1
    <3>4. cmds' \in Seq(CmdNames) /\ Len(cmds') <= configTIMER_QUEUE_LENGTH
      BY <1>2, <3>2, KernelAssumption
    <3>5. OtherTypes'
      BY <1>2, <1>6, <2>1, <3>1, <3>2, <3>3, ZenonT(30) DEF ghostVars
    <3> QED BY <1>2, <1>3, <1>7, <2>1, <2>2, <3>1, <3>2, <3>3, <3>4, <3>5
  <2>6. CASE Drained \/ CallbackReturns
    BY <1>2, <1>3, <1>4, <2>1, <2>2, <2>6 DEF Drained, CallbackReturns, ghostVars
  <2> QED BY <1>12, <2>3, <2>4, <2>5, <2>6 DEF TimerTask
<1>13. ASSUME NEW t \in Tasks, TaskStep(t) PROVE TypeOK'
  <2>1. CASE Calling(t)
    <3>1. PICK c, us : Begin(t, c, us) /\ GoodCall(c)
      BY <2>1, OtherCalls, PeriodCall, KernelAssumption DEF Calling
    <3>2. c \in CallType /\ c.ticks \in Nat
      BY <3>1 DEF GoodCall, CallType
    <3>3. OtherTypes'
      BY <1>2, <3>1, ZenonT(30) DEF Begin
    <3> QED BY <1>2, <1>3, <1>4, <3>1, <3>2, <3>3 DEF Begin
  <2>2. CASE Retry(t) \/ abort(t)
    <3>1. UNCHANGED <<taskVars, active, yield, objectVars, place, halted, ghostVars>>
      BY <2>2 DEF Retry, abort, Error_Handler
    <3>2. kernel' \subseteq kernel \cup {t} /\ looping' \subseteq looping \cup {t}
      BY <2>2 DEF Retry, abort, Error_Handler
    <3>3. OtherTypes'
      BY <1>2, <3>1, <3>2 DEF ghostVars
    <3> QED BY <1>3, <1>4, <1>5, <3>1, <3>3
  <2>3. CASE Block(t)
    BY <1>2, <1>3, <1>4, <2>3 DEF Block, InKernel
  <2>4. CASE Succeed(t) \/ Fail(t)
    <3>1. /\ t \in kernel /\ kernel' = kernel \ {t}
          /\ call' = [call EXCEPT ![t] = NoCall] /\ left' = [left EXCEPT ![t] = 0]
          /\ waited' = waited \ {t} /\ place' = IF t = TmrSvc THEN "drain" ELSE place
          /\ UNCHANGED <<current, active, halted, looping, short>>
      BY <2>4 DEF Succeed, Fail, InKernel, Returns
    <3>2. NoCall \in CallType
      BY DEF NoCall, Call, CallType, CmdNames
    <3>3. CASE Succeed(t)
      <4>1. Succeeds(call[t]) /\ Effect(call[t])
        BY <3>3 DEF Succeed
      <4>2. ObjectTypes'
        BY <1>1, <3>1, <4>1, EffectKeeps, InGoodCall
      <4>3. PICK W \in Woken(call[t].obj, call[t].act) : Wake(W) /\ yield' = Preempts(W)
        BY <3>3 DEF Succeed
      <4>4. OtherTypes'
        BY <1>2, <1>6, <3>1, <4>3, ZenonT(30)
      <4> QED BY <1>2, <1>3, <1>7, <3>1, <3>2, <4>2, <4>3, <4>4
    <3>4. CASE Fail(t)
      <4>1. UNCHANGED <<status, yield, objectVars>>
        BY <3>4 DEF Fail
      <4>2. OtherTypes'
        BY <1>2, <3>1, <4>1, ZenonT(30)
      <4> QED BY <1>2, <1>3, <1>4, <3>1, <3>2, <4>1, <4>2
    <3> QED BY <2>4, <3>3, <3>4
  <2> QED BY <1>13, <2>1, <2>2, <2>3, <2>4 DEF TaskStep
<1>14. CASE UNCHANGED vars
  BY <1>2, <1>3, <1>4, <1>5, <1>14 DEF vars, ghostVars
<1> QED BY <1>8, <1>9, <1>10, <1>11, <1>12, <1>13, <1>14 DEF Next, Exceptions

(* The scheduler begins in the invariant.                                  *)
LEMMA KernelInit == Init => KernelInv
<1> SUFFICES ASSUME Init PROVE KernelInv
  OBVIOUS
<1>1. NoCall \in CallType /\ GoodCall(NoCall) /\ NoCall.cmd # "period_0"
  BY DEF NoCall, Call, CallType, CmdNames, GoodCall
<1>2. PICK us \in PeriodsUs : halted = (us_to_freertos_ticks(us) = 0) /\ short = (us < 1000)
  BY DEF Init
<1>3. halted \in BOOLEAN /\ short \in BOOLEAN /\ (halted => short)
  BY <1>2, KernelAssumption DEF us_to_freertos_ticks
<1>4. current \in Tasks /\ \A u \in Tasks : Priority[u] <= Priority[current]
  BY DEF Init, Urgent
<1>5. TypeOK
  <2>1. /\ status \in [Tasks -> {"ready", "blocked"}] /\ call \in [Tasks -> CallType]
        /\ left \in [Tasks -> Nat]
    BY <1>1 DEF Init
  <2>2. /\ count \in [{"queue", "semaphore"} -> Nat] /\ count["queue"] = 0 /\ count["semaphore"] = 0
        /\ timer \in [on : BOOLEAN, due : BOOLEAN, reload : BOOLEAN]
    BY DEF Init
  <2>3. cmds = <<>>
    BY DEF Init
  <2>10. cmds \in Seq(CmdNames) /\ Len(cmds) = 0
    BY <2>3
  <2>4. /\ active \subseteq Handlers /\ kernel \subseteq Tasks \cup Handlers /\ yield \in BOOLEAN
        /\ place \in {"expire", "drain", "callback"} /\ looping \subseteq Tasks /\ waited \subseteq Tasks
    <3>1. active = {} /\ kernel = {} /\ yield = FALSE /\ place = "drain" /\ looping = {} /\ waited = {}
      BY DEF Init
    <3> QED BY <3>1
  <2>5. 0 <= QueueSize /\ 0 <= configTIMER_QUEUE_LENGTH
    BY KernelAssumption
  <2> QED BY <1>3, <1>4, <2>1, <2>2, <2>3, <2>10, <2>4, <2>5 DEF TypeOK
<1>6. Sections /\ CallsInv
  BY <1>1 DEF Init, Sections, CallsInv
<1>7. Scheduled
  BY <1>4 DEF Init, Scheduled
<1>8. ShortPeriods
  BY <1>1, <1>3 DEF Init, ShortPeriods
<1> QED BY <1>5, <1>6, <1>7, <1>8 DEF KernelInv

-----------------------------------------------------------------------------

(* The inductive invariant holds in every reachable state.                 *)
THEOREM KernelInvariant == Spec => []KernelInv
<1>1. KernelInv /\ [Next]_vars => KernelInv'
  BY TypeStep, SectionsStep, CallsStep, ScheduledStep, ShortStep DEF KernelInv
<1> QED BY KernelInit, <1>1, PTL DEF Spec

(* Types, and no object beyond its capacity.                               *)
THEOREM KernelTypeCorrect == Spec => []TypeOK
<1>1. KernelInv => TypeOK
  BY DEF KernelInv
<1> QED BY KernelInvariant, <1>1, PTL

(* No two in the kernel at once.                                           *)
THEOREM KernelAlwaysExclusive == Spec => []KernelExclusive
<1>1. KernelInv => KernelExclusive
  BY DEF KernelInv, Sections, KernelExclusive
<1> QED BY KernelInvariant, <1>1, PTL

(* The most urgent ready task runs.                                        *)
THEOREM HighestAlwaysRuns == Spec => []HighestRuns
<1>1. KernelInv => HighestRuns
  BY DEF KernelInv, Scheduled, HighestRuns
<1> QED BY KernelInvariant, <1>1, PTL

(* Only a period of less than a tick halts the system.                     *)
THEOREM HaltsOnlyThen == Spec => []HaltsOnlyForShortPeriod
<1>1. KernelInv => HaltsOnlyForShortPeriod
  BY DEF KernelInv, ShortPeriods, HaltsOnlyForShortPeriod
<1> QED BY KernelInvariant, <1>1, PTL

(* And then nothing happens any more.                                      *)
THEOREM HaltAlwaysFinal == Spec => HaltIsFinal
<1>1. KernelInv /\ [Next]_vars =>
        (halted => UNCHANGED <<taskVars, kernel, yield, objectVars, place, halted, looping>>)
  <2> SUFFICES ASSUME KernelInv, [Next]_vars, halted
               PROVE  UNCHANGED <<taskVars, kernel, yield, objectVars, place, halted, looping>>
    OBVIOUS
  <2>1. kernel = {} /\ active = {} /\ masked
    BY DEF KernelInv, Sections, masked
  <2>2. \A t : ~Running(t)
    BY <2>1 DEF Running
  <2>3. \A e \in Handlers : ~TakeException(e)
    BY <2>1, HeldBack
  <2>4. ~Interrupting /\ ~SysTick_Handler /\ ~PendSV_Handler
    BY <2>1 DEF Interrupting, OTG_FS_IRQHandler, SysTick_Handler, PendSV_Handler, Unmask
  <2>5. ~TimerTask
    BY <2>2 DEF TimerTask, Expire, AwaitCommand, Carry_out, Drained, CallbackReturns, Tmr
  <2>6. \A t \in Tasks : ~TaskStep(t)
    BY <2>1, <2>2 DEF TaskStep, Calling, Begin, Client, Retry, Succeed, Block, Fail, InKernel, abort, Error_Handler
  <2>7. UNCHANGED vars
    BY <2>3, <2>4, <2>5, <2>6 DEF Next, Exceptions
  <2> QED BY <2>7 DEF vars
<1> QED BY KernelInvariant, <1>1, PTL DEF Spec, HaltIsFinal

-----------------------------------------------------------------------------
(* Which commands for the timer can be lost: a task's only after a wait,   *)
(* and only while the timer task was kept from emptying its queue.         *)

(* A call with a command is put into the commands, and has its block time  *)
(* left until it has waited.                                               *)
TaskWaits ==
  \A t \in Tasks : call[t].cmd # "none" =>
    /\ call[t].obj = "commands" /\ call[t].act = "put"
    /\ t \notin waited => left[t] > 0 /\ status[t] = "ready"

(* The timer task has time to wait only in a command from a callback; else *)
(* it is blocked only while its queue is empty.                            *)
TimerWaits ==
  /\ call[TmrSvc].cmd # "none" => place = "callback"
  /\ left[TmrSvc] > 0 => call[TmrSvc].cmd # "none"
  /\ status[TmrSvc] = "blocked" =>
       \/ call[TmrSvc].act = "put"
       \/ call[TmrSvc].obj = "commands" /\ call[TmrSvc].act = "get" /\ cmds = <<>>

CommandsInv == KernelInv /\ TaskWaits /\ TimerWaits

-----------------------------------------------------------------------------
(* A call with a command has a block time, and among those that the timer  *)
(* task may make only they have one.                                       *)
LEMMA CommandCalls ==
  ASSUME NEW t \in Tasks, Calling(t)
  PROVE  \E c, us : /\ Begin(t, c, us)
                    /\ c \in CallType
                    /\ c.cmd # "none" => c.obj = "commands" /\ c.act = "put" /\ c.ticks > 0
                    /\ t = TmrSvc /\ c.ticks > 0 => c.cmd # "none"
<1>1. \A obj, act, n : Call(obj, act, n).cmd = "none" /\ Call(obj, act, n).ticks = n
  BY DEF Call
<1>2. \A cmd : /\ Command(cmd).obj = "commands" /\ Command(cmd).act = "put"
               /\ Command(cmd).ticks > 0 /\ Command(cmd).cmd = cmd
  BY KernelAssumption DEF Command
<1>3. \A us : set_period(us).cmd # "none"
  BY <1>2 DEF set_period
<1>4. start.cmd # "none" /\ stop.cmd # "none"
  BY <1>2 DEF start, stop
<1>5. \A auto : set_reload_mode(auto).cmd = "none" /\ set_reload_mode(auto).ticks = 0
  BY <1>1 DEF set_reload_mode
<1>6. ASSUME NEW c \in Calls, t = TmrSvc => c.ticks = 0 \/ c \in TimerCalls, Begin(t, c, 1000)
      PROVE  /\ c \in CallType
             /\ c.cmd # "none" => c.obj = "commands" /\ c.act = "put" /\ c.ticks > 0
             /\ t = TmrSvc /\ c.ticks > 0 => c.cmd # "none"
  <2>1. c \in CallType
    BY OtherCalls DEF GoodCall
  <2>2. c \notin {start, stop} => c.cmd = "none"
    BY <1>1, <1>5 DEF Calls, TimerCalls, reset_queue, give, send, receive, take
  <2>3. c \in {start, stop} => c.obj = "commands" /\ c.act = "put" /\ c.ticks > 0 /\ c.cmd # "none"
    BY <1>2, <1>4 DEF start, stop
  <2>4. c \in TimerCalls \ {start, stop} => c.ticks = 0
    BY <1>5 DEF TimerCalls
  <2> QED BY <1>6, <2>1, <2>2, <2>3, <2>4
<1>7. ASSUME NEW us \in PeriodsUs, Begin(t, set_period(us), us)
      PROVE  /\ set_period(us) \in CallType
             /\ set_period(us).obj = "commands" /\ set_period(us).act = "put" /\ set_period(us).ticks > 0
             /\ set_period(us).cmd # "none"
  <2>1. set_period(us) \in CallType
    BY PeriodCall, KernelAssumption DEF GoodCall
  <2> QED BY <1>2, <1>3, <2>1 DEF set_period
<1> QED BY <1>6, <1>7 DEF Calling

(* Who runs, or is in the kernel, is ready.                                *)
LEMMA CallerReady ==
  ASSUME KernelInv, NEW t \in Tasks, Running(t) \/ t \in kernel
  PROVE  status[t] = "ready"
<1>1. t = current /\ ~yield
  BY DEF KernelInv, Sections, Running
<1> QED BY <1>1 DEF KernelInv, Scheduled

(* Waking makes nobody wait.                                               *)
LEMMA WakeReadies ==
  ASSUME TypeOK, NEW W, Wake(W)
  PROVE  \A t \in Tasks : /\ status[t] = "ready" => status'[t] = "ready"
                          /\ t \in W => status'[t] = "ready"
                          /\ status'[t] = "blocked" => status[t] = "blocked"
BY DEF TypeOK, Wake

(* A command put into the queue wakes the timer task, if it waits for one. *)
LEMMA CommandWakes ==
  ASSUME KernelInv, status[TmrSvc] = "blocked",
         call[TmrSvc].obj = "commands", call[TmrSvc].act = "get",
         NEW W \in Woken("commands", "put"), Wake(W)
  PROVE  status'[TmrSvc] = "ready"
<1>1. TmrSvc \in Tasks /\ TypeOK
  BY KernelAssumption DEF KernelInv
<1>2. \A t \in Waiters("commands", "get") : t = TmrSvc
  BY DEF Waiters, KernelInv, CallsInv, GoodCall
<1>3. TmrSvc \in Waiters("commands", "get")
  BY <1>1 DEF Waiters
<1>4. Priority[TmrSvc] <= Priority[TmrSvc]
  BY <1>1, KernelAssumption
<1>5. Urgent(Waiters("commands", "get")) = {TmrSvc}
  BY <1>2, <1>3, <1>4 DEF Urgent
<1>6. W = {TmrSvc}
  BY <1>3, <1>5 DEF Woken
<1> QED BY <1>1, <1>6, WakeReadies

(* The effect of a call that keeps the wrappers' forms: the commands stay, *)
(* or the timer task, if it waited for one, is woken.                      *)
LEMMA EffectWakes ==
  ASSUME KernelInv, NEW c, GoodCall(c), Effect(c), NEW W \in Woken(c.obj, c.act), Wake(W),
         status'[TmrSvc] = "blocked",
         call[TmrSvc].obj = "commands", call[TmrSvc].act = "get"
  PROVE  cmds' = cmds
<1>1. CASE c.obj = "commands"
  <2>1. c.act = "put"
    BY <1>1 DEF GoodCall
  <2>2. status[TmrSvc] = "blocked"
    BY WakeReadies, KernelAssumption DEF KernelInv
  <2> QED BY <1>1, <2>1, <2>2, CommandWakes
<1>2. CASE c.obj # "commands"
  BY <1>2 DEF Effect
<1> QED BY <1>1, <1>2

-----------------------------------------------------------------------------
(* The steps.                                                              *)

(* A task's command keeps its block time until the task waits.             *)
LEMMA TaskWaitsStep == CommandsInv /\ [Next]_vars => TaskWaits'
<1> SUFFICES ASSUME CommandsInv, [Next]_vars PROVE TaskWaits'
  OBVIOUS
<1>1. /\ KernelInv /\ TypeOK /\ TaskWaits /\ TmrSvc \in Tasks
      /\ call \in [Tasks -> CallType] /\ left \in [Tasks -> Nat]
      /\ status \in [Tasks -> {"ready", "blocked"}]
  BY KernelAssumption DEF CommandsInv, KernelInv, TypeOK
<1>2. NoCall.cmd = "none" /\ Call("commands", "get", 0).cmd = "none"
  BY DEF NoCall, Call
<1>3. ASSUME UNCHANGED <<call, left, waited>>,
             \A t \in Tasks : status[t] = "ready" => status'[t] = "ready"
      PROVE  TaskWaits'
  BY <1>1, <1>3 DEF TaskWaits
<1>4. ASSUME NEW e \in Handlers, TakeException(e)
      PROVE  TaskWaits'
  BY <1>3, <1>4 DEF TakeException, taskVars, ghostVars
<1>5. CASE Interrupting
  <2>1. PICK c, us : OTG_FS_IRQHandler(c, us)
    BY <1>5 DEF Interrupting
  <2>2. UNCHANGED <<call, left, waited>>
    BY <2>1 DEF OTG_FS_IRQHandler
  <2>3. (\E W : Wake(W)) \/ status' = status
    BY <2>1 DEF OTG_FS_IRQHandler
  <2> QED BY <1>1, <1>3, <2>2, <2>3, WakeReadies
<1>6. CASE SysTick_Handler
  <2>1. /\ \E W : Wake(W)
        /\ left' = [t \in Tasks |-> left[t] - (IF status[t] = "blocked" /\ left[t] > 0 THEN 1 ELSE 0)]
        /\ call' = call /\ waited' = waited
    BY <1>6 DEF SysTick_Handler, ghostVars
  <2>2. \A t \in Tasks : status[t] = "ready" => status'[t] = "ready" /\ left'[t] = left[t]
    BY <1>1, <2>1, WakeReadies
  <2> QED BY <1>1, <2>1, <2>2 DEF TaskWaits
<1>7. CASE PendSV_Handler
  BY <1>3, <1>7 DEF PendSV_Handler, ghostVars
<1>8. CASE TimerTask
  <2>1. left' = left /\ waited' = waited
    BY <1>8 DEF TimerTask, Expire, AwaitCommand, Carry_out, Drained, CallbackReturns, Tmr, ghostVars
  <2>2. CASE Expire \/ CallbackReturns
    BY <1>3, <2>1, <2>2 DEF Expire, CallbackReturns
  <2>3. CASE AwaitCommand
    <3>1. CASE cmds # <<>>
      BY <1>3, <2>1, <2>3, <3>1 DEF AwaitCommand
    <3>2. CASE cmds = <<>>
      <4>1. /\ status' = [status EXCEPT ![TmrSvc] = "blocked"]
            /\ call' = [call EXCEPT ![TmrSvc] = Call("commands", "get", 0)]
        BY <2>3, <3>2 DEF AwaitCommand
      <4> QED BY <1>1, <1>2, <2>1, <4>1 DEF TaskWaits
    <3> QED BY <3>1, <3>2
  <2>4. CASE Carry_out \/ Drained
    <3>1. call' = [call EXCEPT ![TmrSvc] = NoCall] /\ ((\E W : Wake(W)) \/ status' = status)
      BY <2>4 DEF Carry_out, Drained
    <3>2. \A t \in Tasks : status[t] = "ready" => status'[t] = "ready"
      BY <1>1, <3>1, WakeReadies
    <3> QED BY <1>1, <1>2, <2>1, <3>1, <3>2 DEF TaskWaits
  <2> QED BY <1>8, <2>2, <2>3, <2>4 DEF TimerTask
<1>9. ASSUME NEW t \in Tasks, TaskStep(t)
      PROVE  TaskWaits'
  <2>1. CASE Calling(t)
    <3>1. PICK c, us : /\ Begin(t, c, us)
                       /\ c.cmd # "none" => c.obj = "commands" /\ c.act = "put" /\ c.ticks > 0
      BY <2>1, CommandCalls
    <3>2. /\ call' = [call EXCEPT ![t] = c] /\ left' = [left EXCEPT ![t] = c.ticks]
          /\ status' = status /\ waited' = waited /\ Running(t)
      BY <3>1 DEF Begin, Client
    <3>3. status[t] = "ready"
      BY <1>1, <3>2, CallerReady
    <3> QED BY <1>1, <3>1, <3>2, <3>3 DEF TaskWaits
  <2>2. CASE Retry(t) \/ abort(t)
    BY <1>3, <2>2 DEF Retry, abort, Error_Handler, taskVars, ghostVars
  <2>3. CASE Succeed(t) \/ Fail(t)
    <3>1. /\ call' = [call EXCEPT ![t] = NoCall] /\ left' = [left EXCEPT ![t] = 0]
          /\ waited' = waited \ {t} /\ ((\E W : Wake(W)) \/ status' = status)
      BY <2>3 DEF Succeed, Fail, Returns
    <3>2. \A u \in Tasks : status[u] = "ready" => status'[u] = "ready"
      BY <1>1, <3>1, WakeReadies
    <3> QED BY <1>1, <1>2, <3>1, <3>2 DEF TaskWaits
  <2>4. CASE Block(t)
    <3>1. /\ UNCHANGED <<call, left>> /\ waited' = waited \cup {t}
          /\ status' = [status EXCEPT ![t] = "blocked"]
      BY <2>4 DEF Block
    <3> QED BY <1>1, <3>1 DEF TaskWaits
  <2> QED BY <1>9, <2>1, <2>2, <2>3, <2>4 DEF TaskStep
<1>10. CASE UNCHANGED vars
  BY <1>3, <1>10 DEF vars, taskVars, ghostVars
<1> QED BY <1>4, <1>5, <1>6, <1>7, <1>8, <1>9, <1>10 DEF Next, Exceptions

(* The timer task waits for room in its own queue, or for a command while  *)
(* there is none.                                                          *)
LEMMA TimerWaitsStep == CommandsInv /\ [Next]_vars => TimerWaits'
<1> SUFFICES ASSUME CommandsInv, [Next]_vars PROVE TimerWaits'
  OBVIOUS
<1>1. /\ KernelInv /\ TypeOK /\ TaskWaits /\ TimerWaits /\ TmrSvc \in Tasks
      /\ call \in [Tasks -> CallType] /\ left \in [Tasks -> Nat]
      /\ status \in [Tasks -> {"ready", "blocked"}]
  BY KernelAssumption DEF CommandsInv, KernelInv, TypeOK
<1>2. /\ NoCall.cmd = "none"
      /\ Call("commands", "get", 0).cmd = "none"
      /\ Call("commands", "get", 0).obj = "commands" /\ Call("commands", "get", 0).act = "get"
  BY DEF NoCall, Call
<1>3. ASSUME call'[TmrSvc] = call[TmrSvc], left'[TmrSvc] = left[TmrSvc],
             place' = place,
             status'[TmrSvc] = "blocked" => status[TmrSvc] = "blocked",
             status'[TmrSvc] = "blocked" /\ call[TmrSvc].obj = "commands" /\ call[TmrSvc].act = "get"
               => cmds' = cmds
      PROVE  TimerWaits'
  BY <1>1, <1>3 DEF TimerWaits
<1>4. ASSUME NEW e \in Handlers, TakeException(e)
      PROVE  TimerWaits'
  BY <1>3, <1>4 DEF TakeException, taskVars, objectVars
<1>5. CASE Interrupting
  <2>1. PICK c, us : /\ OTG_FS_IRQHandler(c, us) /\ GoodCall(c)
                     /\ c.cmd = "period_0" => us < 1000
    BY <1>5, InterruptingCall
  <2>2. UNCHANGED <<call, left, place>>
    BY <2>1 DEF OTG_FS_IRQHandler
  <2>3. CASE Succeeds(c)
    <3>1. Effect(c) /\ \E W \in Woken(c.obj, c.act) : Wake(W)
      BY <2>1, <2>3 DEF OTG_FS_IRQHandler
    <3>2. status'[TmrSvc] = "blocked" => status[TmrSvc] = "blocked"
      BY <1>1, <3>1, WakeReadies
    <3>3. status'[TmrSvc] = "blocked" /\ call[TmrSvc].obj = "commands" /\ call[TmrSvc].act = "get"
            => cmds' = cmds
      BY <1>1, <2>1, <3>1, EffectWakes
    <3> QED BY <1>3, <2>2, <3>2, <3>3
  <2>4. CASE ~Succeeds(c)
    <3>1. status' = status /\ cmds' = cmds
      BY <2>1, <2>4 DEF OTG_FS_IRQHandler, objectVars
    <3> QED BY <1>3, <2>2, <3>1
  <2> QED BY <2>3, <2>4
<1>6. CASE SysTick_Handler
  <2>1. /\ \E W : Wake(W)
        /\ left' = [t \in Tasks |-> left[t] - (IF status[t] = "blocked" /\ left[t] > 0 THEN 1 ELSE 0)]
        /\ UNCHANGED <<call, cmds, place>>
    BY <1>6 DEF SysTick_Handler
  <2>2. status'[TmrSvc] = "blocked" => status[TmrSvc] = "blocked"
    BY <1>1, <2>1, WakeReadies
  <2>3. left'[TmrSvc] > 0 => left[TmrSvc] > 0
    BY <1>1, <2>1
  <2> QED BY <1>1, <2>1, <2>2, <2>3 DEF TimerWaits
<1>7. CASE PendSV_Handler
  BY <1>3, <1>7 DEF PendSV_Handler, objectVars
<1>8. CASE TimerTask
  <2>1. left' = left /\ Running(TmrSvc)
    BY <1>8 DEF TimerTask, Expire, AwaitCommand, Carry_out, Drained, CallbackReturns, Tmr
  <2>2. status[TmrSvc] = "ready"
    BY <1>1, <2>1, CallerReady
  <2>3. CASE Expire
    <3>1. place = "expire" /\ place' = "callback" /\ UNCHANGED <<status, call, cmds>>
      BY <2>3 DEF Expire, Tmr, Callback
    <3> QED BY <1>1, <2>1, <2>2, <3>1 DEF TimerWaits
  <2>4. CASE AwaitCommand
    <3>1. place = "expire" /\ cmds' = cmds
      BY <2>4 DEF AwaitCommand, Tmr, objectVars
    <3>2. call[TmrSvc].cmd = "none" /\ ~(left[TmrSvc] > 0)
      BY <1>1, <3>1 DEF TimerWaits
    <3>3. CASE cmds # <<>>
      <4>1. UNCHANGED <<status, call>>
        BY <2>4, <3>3 DEF AwaitCommand
      <4> QED BY <2>1, <2>2, <3>2, <4>1 DEF TimerWaits
    <3>4. CASE cmds = <<>>
      <4>1. call'[TmrSvc] = Call("commands", "get", 0)
        BY <1>1, <2>4, <3>4 DEF AwaitCommand
      <4> QED BY <1>2, <2>1, <3>1, <3>2, <3>4, <4>1 DEF TimerWaits
    <3> QED BY <3>3, <3>4
  <2>5. CASE Carry_out \/ Drained
    <3>1. /\ place = "drain" /\ call' = [call EXCEPT ![TmrSvc] = NoCall]
          /\ (\E W : Wake(W)) \/ status' = status
      BY <2>5 DEF Carry_out, Drained, Tmr
    <3>2. call[TmrSvc].cmd = "none" /\ ~(left[TmrSvc] > 0)
      BY <1>1, <3>1 DEF TimerWaits
    <3>3. status'[TmrSvc] = "ready"
      BY <1>1, <2>2, <3>1, WakeReadies
    <3> QED BY <1>1, <1>2, <2>1, <3>1, <3>2, <3>3 DEF TimerWaits
  <2>6. CASE CallbackReturns
    <3>1. call[TmrSvc] = NoCall /\ UNCHANGED <<status, call>>
      BY <2>6 DEF CallbackReturns
    <3> QED BY <1>1, <1>2, <2>1, <2>2, <3>1 DEF TimerWaits
  <2> QED BY <1>8, <2>3, <2>4, <2>5, <2>6 DEF TimerTask
<1>9. ASSUME NEW t \in Tasks, TaskStep(t)
      PROVE  TimerWaits'
  <2>1. CASE Calling(t)
    <3>1. PICK c, us : /\ Begin(t, c, us)
                       /\ t = TmrSvc /\ c.ticks > 0 => c.cmd # "none"
      BY <2>1, CommandCalls
    <3>2. /\ call' = [call EXCEPT ![t] = c] /\ left' = [left EXCEPT ![t] = c.ticks]
          /\ UNCHANGED <<status, place, cmds>> /\ Running(t)
          /\ t = TmrSvc => place = "callback"
      BY <3>1 DEF Begin, Client, objectVars
    <3>3. CASE t = TmrSvc
      <4>1. status[TmrSvc] = "ready"
        BY <1>1, <3>2, <3>3, CallerReady
      <4>2. left'[TmrSvc] = c.ticks /\ call'[TmrSvc] = c
        BY <1>1, <3>2, <3>3
      <4> QED BY <3>1, <3>2, <3>3, <4>1, <4>2 DEF TimerWaits
    <3>4. CASE t # TmrSvc
      BY <1>1, <1>3, <3>2, <3>4
    <3> QED BY <3>3, <3>4
  <2>2. CASE Retry(t) \/ abort(t)
    BY <1>3, <2>2 DEF Retry, abort, Error_Handler, taskVars, objectVars
  <2>3. CASE Succeed(t) \/ Fail(t)
    <3>1. /\ call' = [call EXCEPT ![t] = NoCall] /\ left' = [left EXCEPT ![t] = 0]
          /\ place' = IF t = TmrSvc THEN "drain" ELSE place
          /\ (\E W : Wake(W)) \/ status' = status
          /\ t \in kernel
      BY <2>3 DEF Succeed, Fail, Returns, InKernel
    <3>2. CASE t = TmrSvc
      <4>1. status[TmrSvc] = "ready"
        BY <1>1, <3>1, <3>2, CallerReady
      <4>2. status'[TmrSvc] = "ready"
        BY <1>1, <3>1, <4>1, WakeReadies
      <4> QED BY <1>1, <1>2, <3>1, <3>2, <4>2 DEF TimerWaits
    <3>3. CASE t # TmrSvc
      <4>1. status'[TmrSvc] = "blocked" => status[TmrSvc] = "blocked"
        BY <1>1, <3>1, WakeReadies
      <4>2. status'[TmrSvc] = "blocked" /\ call[TmrSvc].obj = "commands" /\ call[TmrSvc].act = "get"
              => cmds' = cmds
        <5>1. CASE Succeed(t)
          <6>1. Effect(call[t]) /\ \E W \in Woken(call[t].obj, call[t].act) : Wake(W)
            BY <5>1 DEF Succeed
          <6>2. GoodCall(call[t])
            BY <1>1, <3>1, InGoodCall
          <6> QED BY <1>1, <6>1, <6>2, EffectWakes
        <5>2. CASE Fail(t)
          BY <5>2 DEF Fail, objectVars
        <5> QED BY <2>3, <5>1, <5>2
      <4>3. call'[TmrSvc] = call[TmrSvc] /\ left'[TmrSvc] = left[TmrSvc] /\ place' = place
        BY <1>1, <3>1, <3>3
      <4> QED BY <1>3, <4>1, <4>2, <4>3
    <3> QED BY <3>2, <3>3
  <2>4. CASE Block(t)
    <3>1. /\ UNCHANGED <<call, left, place, cmds>> /\ left[t] > 0
          /\ status' = [status EXCEPT ![t] = "blocked"]
      BY <2>4 DEF Block, objectVars
    <3>2. CASE t = TmrSvc
      <4>1. call[TmrSvc].act = "put"
        BY <1>1, <3>1, <3>2 DEF TimerWaits, TaskWaits
      <4> QED BY <1>1, <3>1, <4>1 DEF TimerWaits
    <3>3. CASE t # TmrSvc
      BY <1>1, <1>3, <3>1, <3>3
    <3> QED BY <3>2, <3>3
  <2> QED BY <1>9, <2>1, <2>2, <2>3, <2>4 DEF TaskStep
<1>10. CASE UNCHANGED vars
  BY <1>3, <1>10 DEF vars, taskVars, objectVars
<1> QED BY <1>4, <1>5, <1>6, <1>7, <1>8, <1>9, <1>10 DEF Next, Exceptions

-----------------------------------------------------------------------------
(* The inductive invariant holds in every reachable state.                 *)
THEOREM CommandsInvariant == Spec => []CommandsInv
<1>1. Init => CommandsInv
  <2> SUFFICES ASSUME Init PROVE CommandsInv
    OBVIOUS
  <2>1. TmrSvc \in Tasks /\ NoCall.cmd = "none"
    BY KernelAssumption DEF NoCall, Call
  <2>2. TaskWaits /\ TimerWaits
    BY <2>1 DEF Init, TaskWaits, TimerWaits
  <2> QED BY <2>2, KernelInit DEF CommandsInv
<1>2. KernelInv /\ [Next]_vars => KernelInv'
  BY TypeStep, SectionsStep, CallsStep, ScheduledStep, ShortStep DEF KernelInv
<1>3. CommandsInv /\ [Next]_vars => CommandsInv'
  BY <1>2, TaskWaitsStep, TimerWaitsStep DEF CommandsInv
<1> QED BY <1>1, <1>3, PTL DEF Spec

(* A task's command for the timer is lost only after a wait in which the   *)
(* timer task was ready but did not run, or waited for room itself.        *)
THEOREM TaskCommandsAlwaysKept == Spec => TaskCommandsKept
<1>1. ASSUME CommandsInv, [Next]_vars, NEW t \in Tasks,
             call[t].cmd # "none", call'[t] = NoCall, cmds' = cmds
      PROVE  t \in waited /\ (status[TmrSvc] = "ready" \/ call[TmrSvc].act = "put")
  <2>1. /\ KernelInv /\ TaskWaits /\ TimerWaits /\ TmrSvc \in Tasks /\ cmds \in Seq(CmdNames)
        /\ call \in [Tasks -> CallType] /\ status \in [Tasks -> {"ready", "blocked"}]
        /\ left \in [Tasks -> Nat]
    BY <1>1, KernelAssumption DEF CommandsInv, KernelInv, TypeOK
  <2>2. call[t].obj = "commands" /\ call[t].act = "put" /\ NoCall.cmd = "none"
    BY <1>1, <2>1 DEF TaskWaits, NoCall, Call
  <2>3. call' # call
    BY <1>1, <2>2
  <2>4. ~TimerTask
    <3>1. call[TmrSvc].cmd # "none" => place = "callback"
      BY <2>1 DEF TimerWaits
    <3>2. ~Expire /\ ~CallbackReturns
      BY <2>3 DEF Expire, CallbackReturns
    <3>3. ASSUME AwaitCommand \/ Carry_out \/ Drained PROVE FALSE
      <4>1. place # "callback" /\ \E c : call' = [call EXCEPT ![TmrSvc] = c]
        BY <2>3, <3>3 DEF AwaitCommand, Carry_out, Drained, Tmr
      <4>2. t # TmrSvc
        BY <1>1, <3>1, <4>1
      <4>3. call'[t] = call[t]
        BY <2>1, <4>1, <4>2
      <4> QED BY <1>1, <2>2, <4>3
    <3> QED BY <3>2, <3>3 DEF TimerTask
  <2>5. ~Exceptions
    BY <2>3 DEF Exceptions, TakeException, Interrupting, OTG_FS_IRQHandler, SysTick_Handler, PendSV_Handler, taskVars
  <2>6. PICK u \in Tasks : TaskStep(u)
    BY <1>1, <2>3, <2>4, <2>5 DEF Next, vars, taskVars
  <2>7. ~Retry(u) /\ ~Block(u) /\ ~abort(u)
    BY <2>3 DEF Retry, Block, abort, Error_Handler, taskVars
  <2>8. ~Calling(u)
    <3> SUFFICES ASSUME Calling(u) PROVE FALSE
      OBVIOUS
    <3>1. PICK c : call' = [call EXCEPT ![u] = c] /\ call[u] = NoCall
      BY DEF Calling, Begin, Client
    <3> QED BY <1>1, <2>1, <2>2, <3>1
  <2>9. Succeed(u) \/ Fail(u)
    BY <2>6, <2>7, <2>8 DEF TaskStep
  <2>10. u = t
    <3>1. call' = [call EXCEPT ![u] = NoCall]
      BY <2>9 DEF Succeed, Fail, Returns
    <3> QED BY <1>1, <2>1, <2>2, <3>1
  <2>11. ~Succeed(t)
    <3> SUFFICES ASSUME Succeed(t) PROVE FALSE
      OBVIOUS
    <3>1. cmds' = Append(cmds, call[t].cmd)
      BY <2>2 DEF Succeed, Effect
    <3>2. Len(Append(cmds, call[t].cmd)) = Len(cmds) + 1 /\ Len(cmds) \in Nat
      BY <2>1 DEF CallType
    <3> QED BY <1>1, <3>1, <3>2
  <2>12. ~Succeeds(call[t]) /\ left[t] = 0
    BY <2>9, <2>10, <2>11 DEF Fail
  <2>13. t \in waited
    BY <1>1, <2>1, <2>12 DEF TaskWaits
  <2>14. cmds # <<>>
    <3>1. Capacity["commands"] = configTIMER_QUEUE_LENGTH
      BY DEF Capacity
    <3>2. Len(cmds) = configTIMER_QUEUE_LENGTH
      BY <2>2, <2>12, <3>1 DEF Succeeds, is_full, messages_waiting
    <3> QED BY <3>2, KernelAssumption
  <2> QED BY <2>1, <2>13, <2>14 DEF TimerWaits
<1>2. CommandsInv /\ [Next]_vars =>
        \A t \in Tasks : call[t].cmd # "none" /\ call'[t] = NoCall /\ cmds' = cmds =>
          t \in waited /\ (status[TmrSvc] = "ready" \/ call[TmrSvc].act = "put")
  BY <1>1
<1> QED BY CommandsInvariant, <1>2, PTL DEF Spec, TaskCommandsKept
=============================================================================

--------------------------- MODULE KernelObjects ---------------------------
(***************************************************************************)
(* The wrappers of queues, semaphores and software timers, called by tasks *)
(* of several priorities, by an interrupt handler and by the callback of a *)
(* timer, on the preemptive kernel that FreeRTOSConfig.h asks for.         *)
(*                                                                         *)
(* A call enters a critical section of the kernel, has its effect, and     *)
(* leaves it; exceptions of the Cortex-M4 fall between any two steps as    *)
(* far as their levels and the critical section let them.  The kernel is   *)
(* external: it does here what its documentation promises to these calls.  *)
(* The clients are any tasks and any handler that keep to its rules.       *)
(***************************************************************************)
EXTENDS Integers, Sequences

CONSTANTS
  Tasks, Priority,   (* the tasks, and the priority of each                *)
  Idle, TmrSvc,      (* the kernel's own: idle task and timer task         *)
  QueueSize,
  configTIMER_QUEUE_LENGTH, DEFAULT_BLOCKTIME,
  WaitsUs, PeriodsUs (* bounds: the waits and periods that clients ask for *)

ASSUME KernelAssumption ==
  /\ Priority \in [Tasks -> Nat] /\ {Idle, TmrSvc} \subseteq Tasks
  /\ QueueSize \in Nat \ {0} /\ configTIMER_QUEUE_LENGTH \in Nat \ {0}
  /\ DEFAULT_BLOCKTIME \in Nat \ {0} /\ WaitsUs \subseteq Nat /\ PeriodsUs \subseteq Nat

VARIABLES
  current,           (* the task whose registers the processor holds       *)
  status,            (* of each task: "ready" or "blocked"                 *)
  call, left,        (* the call each task is in, and its ticks to wait    *)
  active,            (* the exception handlers that have begun             *)
  kernel,            (* the tasks and handlers in critical sections        *)
  yield,             (* PendSV is pending                                  *)
  count,             (* items in the queue, and of the semaphore           *)
  cmds, timer,       (* the queue of the timer task, and the timer         *)
  place,             (* where the timer task is                            *)
  halted,            (* a configASSERT has failed                          *)
  looping,           (* tasks that have come to Error_Handler              *)
  waited,            (* tasks that have waited in the call they are in     *)
  short              (* a period of less than a tick has been asked for    *)

taskVars   == <<current, status, call, left>>
objectVars == <<count, cmds, timer>>
ghostVars  == <<waited, short>>
vars == <<taskVars, active, kernel, yield, objectVars, place, halted, looping, ghostVars>>

-----------------------------------------------------------------------------
(* The wrappers' calls, as what they ask the kernel for: an object, what   *)
(* to do with it, ticks to wait and, for the timer, a command.             *)

(* Mutant: a tick of 10 ms.                                                *)
us_to_freertos_ticks_10ms(us) == us \div 10000
us_to_freertos_ticks(us) == us \div 1000

Call(obj, act, ticks) == [obj |-> obj, act |-> act, ticks |-> ticks, cmd |-> "none"]
NoCall == Call("none", "none", 0)

send(us)    == Call("queue", "put", us_to_freertos_ticks(us))
receive(us) == Call("queue", "get", us_to_freertos_ticks(us))
reset_queue == Call("queue", "reset", 0)
give        == Call("semaphore", "put", 0)
take(us)    == Call("semaphore", "get", us_to_freertos_ticks(us))

(* Mutant: the commands of a timer do not wait.                            *)
Command_no_wait(cmd) == [obj |-> "commands", act |-> "put", ticks |-> 0, cmd |-> cmd]
Command(cmd) == [obj |-> "commands", act |-> "put", ticks |-> DEFAULT_BLOCKTIME, cmd |-> cmd]
start == Command("start")
stop  == Command("stop")

(* A command has room for the period in ticks: what matters is whether it  *)
(* is 0.  reset() asks for what start() asks for.                          *)
set_period(us) == Command(IF us_to_freertos_ticks(us) = 0 THEN "period_0" ELSE "period")
set_reload_mode(auto) == Call("reload", IF auto THEN "auto" ELSE "once", 0)

TimerCalls == {start, stop} \cup {set_reload_mode(auto) : auto \in BOOLEAN}
Calls == {reset_queue, give} \cup TimerCalls \cup {send(us) : us \in WaitsUs}
           \cup {receive(us) : us \in WaitsUs} \cup {take(us) : us \in WaitsUs}

(* What the _from_isr functions ask for: the same, without a wait.         *)
from_isr(c) == [obj |-> c.obj, act |-> c.act, ticks |-> 0, cmd |-> c.cmd]
IsrCalls == {from_isr(c) : c \in Calls \ {reset_queue, set_reload_mode(TRUE), set_reload_mode(FALSE)}}

-----------------------------------------------------------------------------
(* Exceptions.  A lower level is more urgent; the kernel's critical        *)
(* sections, and a failed configASSERT, hold back the levels from 5 on.    *)
(* The handlers of the HAL's timer (level 0) and of NMI return without     *)
(* having called the kernel, and those of faults never return: nothing     *)
(* follows a fault, and they are left out.                                 *)

configLIBRARY_MAX_SYSCALL_INTERRUPT_PRIORITY == 5
configLIBRARY_LOWEST_INTERRUPT_PRIORITY == 15

(* Mutant: the USB interrupt has the level of the reset.                   *)
Level_otg_reset == [OTG_FS |-> 0, SysTick |-> 15, PendSV |-> 15]
Level ==
  [OTG_FS |-> configLIBRARY_MAX_SYSCALL_INTERRUPT_PRIORITY,
   SysTick |-> configLIBRARY_LOWEST_INTERRUPT_PRIORITY,
   PendSV |-> configLIBRARY_LOWEST_INTERRUPT_PRIORITY]
Handlers == {"OTG_FS", "SysTick", "PendSV"}

ASSUME HandlersAreNoTasks == Tasks \cap Handlers = {}

(* Mutant: a failed configASSERT only loops.                               *)
masked_by_sections == kernel # {}
masked == kernel # {} \/ halted

(* Before a handler masks the others it changes nothing.                   *)
TakeException(e) ==
  /\ \A a \in active : Level[e] < Level[a]
  /\ masked => Level[e] < configLIBRARY_MAX_SYSCALL_INTERRUPT_PRIORITY
  /\ e = "PendSV" => yield
  /\ active' = active \cup {e} /\ kernel' = kernel \cup {e}
  /\ UNCHANGED <<taskVars, yield, objectVars, place, halted, looping, ghostVars>>

Unmask(e) ==
  /\ e \in active /\ \A a \in active \ {e} : Level[e] < Level[a]
  /\ kernel' = kernel \ {e} /\ active' = active \ {e}

-----------------------------------------------------------------------------
(* The kernel's objects.                                                   *)

Capacity == [queue |-> QueueSize, semaphore |-> 1, commands |-> configTIMER_QUEUE_LENGTH]
messages_waiting(obj) == IF obj = "commands" THEN Len(cmds) ELSE count[obj]
is_empty(obj) == messages_waiting(obj) = 0
is_full(obj)  == messages_waiting(obj) = Capacity[obj]

Succeeds(c) == (c.act = "put" => ~is_full(c.obj)) /\ (c.act = "get" => ~is_empty(c.obj))

Effect(c) ==
  /\ count' = IF c.obj \notin {"queue", "semaphore"} THEN count
              ELSE [count EXCEPT ![c.obj] = IF c.act = "put" THEN @ + 1
                                            ELSE IF c.act = "get" THEN @ - 1 ELSE 0]
  /\ cmds' = IF c.obj = "commands" THEN Append(cmds, c.cmd) ELSE cmds
  /\ timer' = IF c.obj = "reload" THEN [timer EXCEPT !.reload = (c.act = "auto")] ELSE timer

(* A put ends the wait of a task for items, the others that for room: of   *)
(* the most urgent one.                                                    *)
Waiters(obj, act) == {t \in Tasks : status[t] = "blocked" /\ call[t].obj = obj /\ call[t].act = act}
Urgent(S) == {t \in S : \A u \in S : Priority[u] <= Priority[t]}
Woken(obj, act) ==
  LET W == Waiters(obj, IF act = "put" THEN "get" ELSE "put")
  IN IF W = {} THEN {{}} ELSE {{t} : t \in Urgent(W)}

Preempts(W) == \E t \in W : Priority[t] > Priority[current]
Wake(W) == status' = [t \in Tasks |-> IF t \in W THEN "ready" ELSE status[t]]

-----------------------------------------------------------------------------
(* Tasks.                                                                  *)

Running(t) == t = current /\ active = {} /\ ~masked /\ ~yield /\ t \notin looping

(* Who calls wrappers: tasks, and the timer's callback; not the hook of    *)
(* the idle task, which is empty.                                          *)
Client(t) == Running(t) /\ call[t] = NoCall /\ t # Idle /\ (t = TmrSvc => place = "callback")

Begin(t, c, us) ==
  /\ Client(t)
  /\ call' = [call EXCEPT ![t] = c]
  /\ left' = [left EXCEPT ![t] = c.ticks]
  /\ short' = (short \/ us < 1000)
  /\ kernel' = {t}
  /\ UNCHANGED <<current, status, active, yield, objectVars, place, halted, looping, waited>>

(* A callback may not wait, the kernel says; but Timer's functions do.      *)
Calling(t) ==
  \/ \E c \in Calls : (t = TmrSvc => c.ticks = 0 \/ c \in TimerCalls) /\ Begin(t, c, 1000)
  \/ \E us \in PeriodsUs : Begin(t, set_period(us), us)

(* One whose wait is over tries again.                                     *)
Retry(t) ==
  /\ Running(t) /\ call[t].act \in {"put", "get"} /\ (t = TmrSvc => place = "callback")
  /\ kernel' = {t}
  /\ UNCHANGED <<taskVars, active, yield, objectVars, place, halted, looping, ghostVars>>

InKernel(t) == t \in kernel /\ active = {} /\ kernel' = kernel \ {t}
Returns(t) ==
  /\ call' = [call EXCEPT ![t] = NoCall] /\ left' = [left EXCEPT ![t] = 0]
  /\ waited' = waited \ {t}
  /\ place' = IF t = TmrSvc THEN "drain" ELSE place

(* The call has its effect, and makes way for whom it has woken.           *)
Succeed(t) ==
  /\ InKernel(t) /\ Succeeds(call[t]) /\ Effect(call[t]) /\ Returns(t)
  /\ \E W \in Woken(call[t].obj, call[t].act) : Wake(W) /\ yield' = Preempts(W)
  /\ UNCHANGED <<current, active, halted, looping, short>>

(* It waits...                                                             *)
Block(t) ==
  /\ InKernel(t) /\ ~Succeeds(call[t]) /\ left[t] > 0
  /\ status' = [status EXCEPT ![t] = "blocked"] /\ yield' = TRUE
  /\ waited' = waited \cup {t}
  /\ UNCHANGED <<current, call, left, active, objectVars, place, halted, looping, short>>

(* ... or returns false, or nothing: the functions of Timer have no result.*)
Fail(t) ==
  /\ InKernel(t) /\ ~Succeeds(call[t]) /\ left[t] = 0 /\ Returns(t)
  /\ UNCHANGED <<current, status, active, yield, objectVars, halted, looping, short>>

(* Error_Handler ends in a loop that masks nothing; abort() and a failed   *)
(* assert() call it.                                                       *)
Error_Handler(t) == looping' = looping \cup {t}

abort(t) ==
  /\ Client(t)
  /\ Error_Handler(t)
  /\ UNCHANGED <<taskVars, active, kernel, yield, objectVars, place, halted, ghostVars>>

-----------------------------------------------------------------------------
(* The timer task.  It calls back a timer that is due, or else waits for a *)
(* command; then it carries out all commands there are.                    *)

Tmr(at) ==
  /\ Running(TmrSvc) /\ place = at
  /\ UNCHANGED <<current, left, active, kernel, looping, ghostVars>>

(* BaseTimerWrapper calls the delegate.                                    *)
Callback == place' = "callback"

Expire ==
  /\ Tmr("expire") /\ timer.due
  /\ timer' = [timer EXCEPT !.due = FALSE, !.on = timer.reload]
  /\ Callback
  /\ UNCHANGED <<status, call, yield, count, cmds, halted>>

AwaitCommand ==
  /\ Tmr("expire") /\ ~timer.due
  /\ place' = "drain"
  /\ IF cmds # <<>> THEN UNCHANGED <<status, call, yield>>
     ELSE /\ status' = [status EXCEPT ![TmrSvc] = "blocked"] /\ yield' = TRUE
          /\ call' = [call EXCEPT ![TmrSvc] = Call("commands", "get", 0)]
  /\ UNCHANGED <<objectVars, halted>>

(* start() may be carried out later than the timer's period: the callback  *)
(* comes at once.  A period makes the timer run, and must not be 0.        *)
Carry_out ==
  /\ Tmr("drain") /\ cmds # <<>>
  /\ cmds' = Tail(cmds)
  /\ halted' = (Head(cmds) = "period_0")
  /\ \E late \in (IF Head(cmds) = "start" THEN BOOLEAN ELSE {FALSE}) :
       /\ timer' = [timer EXCEPT !.due = FALSE,
                                 !.on = Head(cmds) # "stop" /\ (late => timer.reload)]
       /\ IF late THEN Callback ELSE UNCHANGED place
  /\ call' = [call EXCEPT ![TmrSvc] = NoCall]
  /\ \E W \in Woken("commands", "get") : Wake(W) /\ yield' = Preempts(W)
  /\ UNCHANGED count

Drained ==
  /\ Tmr("drain") /\ cmds = <<>>
  /\ place' = "expire" /\ call' = [call EXCEPT ![TmrSvc] = NoCall]
  /\ UNCHANGED <<status, yield, objectVars, halted>>

CallbackReturns ==
  /\ Tmr("callback") /\ call[TmrSvc] = NoCall
  /\ place' = "drain"
  /\ UNCHANGED <<status, call, yield, objectVars, halted>>

TimerTask == Expire \/ AwaitCommand \/ Carry_out \/ Drained \/ CallbackReturns

-----------------------------------------------------------------------------
(* Handlers.                                                               *)

(* Mutant: portYIELD_FROM_ISR is left out.                                 *)
portYIELD_FROM_ISR_nothing(woken) == UNCHANGED yield
portYIELD_FROM_ISR(woken) == yield' = (yield \/ woken)

OTG_FS_IRQHandler(c, us) ==
  /\ Unmask("OTG_FS")
  /\ short' = (short \/ us < 1000)
  /\ IF Succeeds(c)
     THEN /\ Effect(c)
          /\ \E W \in Woken(c.obj, c.act) : Wake(W) /\ portYIELD_FROM_ISR(Preempts(W))
     ELSE UNCHANGED <<status, yield, objectVars>>
  /\ UNCHANGED <<current, call, left, place, halted, looping, waited>>

Interrupting ==
  \/ \E c \in IsrCalls : OTG_FS_IRQHandler(c, 1000)
  \/ \E us \in PeriodsUs : OTG_FS_IRQHandler(from_isr(set_period(us)), us)

(* The tick: waits go on or end, and so does the wait of the timer task    *)
(* when the timer is due.                                                  *)
SysTick_Handler ==
  /\ Unmask("SysTick")
  /\ \E due \in {timer.due, timer.on} :
       LET Slice == \E t \in Tasks \ {current} : status[t] = "ready" /\ Priority[t] = Priority[current]
           Over == {t \in Tasks : /\ status[t] = "blocked"
                                  /\ \/ left[t] = 1
                                     \/ t = TmrSvc /\ place = "drain" /\ due}
       IN /\ timer' = [timer EXCEPT !.due = due]
          /\ left' = [t \in Tasks |-> left[t] - (IF status[t] = "blocked" /\ left[t] > 0 THEN 1 ELSE 0)]
          /\ Wake(Over) /\ yield' = (yield \/ Preempts(Over) \/ Slice)
  /\ UNCHANGED <<current, call, count, cmds, place, halted, looping, ghostVars>>

PendSV_Handler ==
  /\ Unmask("PendSV")
  /\ current' \in Urgent({t \in Tasks : status[t] = "ready"})
  /\ yield' = FALSE
  /\ UNCHANGED <<status, call, left, objectVars, place, halted, looping, ghostVars>>

-----------------------------------------------------------------------------
(* The scheduler has begun and all objects are made; a period of 0 has     *)
(* failed the assertion of xTimerCreateStatic.                             *)
Init ==
  /\ current \in Urgent(Tasks)
  /\ status = [t \in Tasks |-> "ready"]
  /\ call = [t \in Tasks |-> NoCall] /\ left = [t \in Tasks |-> 0]
  /\ active = {} /\ kernel = {} /\ yield = FALSE
  /\ count = [obj \in {"queue", "semaphore"} |-> 0] /\ cmds = <<>>
  /\ \E us \in PeriodsUs : halted = (us_to_freertos_ticks(us) = 0) /\ short = (us < 1000)
  /\ timer \in [on : {FALSE}, due : {FALSE}, reload : BOOLEAN]
  /\ place = "drain" /\ looping = {} /\ waited = {}

Exceptions ==
  \/ \E e \in Handlers : TakeException(e)
  \/ Interrupting \/ SysTick_Handler \/ PendSV_Handler

TaskStep(t) == Calling(t) \/ Retry(t) \/ Succeed(t) \/ Block(t) \/ Fail(t) \/ abort(t)

Next == Exceptions \/ TimerTask \/ \E t \in Tasks : TaskStep(t)

Spec == Init /\ [][Next]_vars

-----------------------------------------------------------------------------
CmdNames == {"none", "start", "stop", "period", "period_0"}
CallType == [obj : {"none", "queue", "semaphore", "commands", "reload"},
             act : {"none", "put", "get", "reset", "auto", "once"}, ticks : Nat, cmd : CmdNames]

(* Type invariant, with the capacities of the objects.                     *)
TypeOK ==
  /\ current \in Tasks /\ status \in [Tasks -> {"ready", "blocked"}]
  /\ call \in [Tasks -> CallType] /\ left \in [Tasks -> Nat]
  /\ active \subseteq Handlers /\ kernel \subseteq Tasks \cup Handlers /\ yield \in BOOLEAN
  /\ count \in [{"queue", "semaphore"} -> Nat]
  /\ count["queue"] <= QueueSize /\ count["semaphore"] <= 1
  /\ cmds \in Seq(CmdNames) /\ Len(cmds) <= configTIMER_QUEUE_LENGTH
  /\ timer \in [on : BOOLEAN, due : BOOLEAN, reload : BOOLEAN]
  /\ place \in {"expire", "drain", "callback"}
  /\ halted \in BOOLEAN /\ short \in BOOLEAN
  /\ looping \subseteq Tasks /\ waited \subseteq Tasks

(* No two are inside the kernel at once: what a task does in a critical    *)
(* section no handler that calls the kernel can see half done.             *)
KernelExclusive == \A a, b \in kernel : a = b

(* Outside handlers and critical sections, with no switch pending, a task  *)
(* runs and no ready one outranks it: no call that wakes a more urgent     *)
(* task, from a task or a handler, leaves it waiting for the next tick.    *)
HighestRuns ==
  active = {} /\ kernel = {} /\ ~yield =>
    status[current] = "ready" /\ \A t \in Tasks : status[t] = "ready" => Priority[t] <= Priority[current]

(* Timer ignores whether its command was taken.  A task's command is lost  *)
(* only after a wait in which the timer task was kept from running, or     *)
(* waited itself, in a callback, for room in its own queue.                *)
TaskCommandsKept ==
  [][\A t \in Tasks : call[t].cmd # "none" /\ call'[t] = NoCall /\ cmds' = cmds =>
       t \in waited /\ (status[TmrSvc] = "ready" \/ call[TmrSvc].act = "put")]_vars

(* The assertions of the timers stop the system only if somebody asked for *)
(* a period of less than a tick (the comments do not say so).              *)
HaltsOnlyForShortPeriod == halted => short

(* After a failed configASSERT no task, no USB interrupt and no tick does  *)
(* anything: the macro masks them before it loops.                         *)
HaltIsFinal == [][halted => UNCHANGED <<taskVars, kernel, yield, objectVars, place, halted, looping>>]_vars
=============================================================================

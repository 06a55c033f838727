-------------------------- MODULE MCKernelObjects --------------------------
(***************************************************************************)
(* The instance for TLC: the idle task, one client below and one above the *)
(* timer task, with the priorities Idle, Low, configTIMER_TASK_PRIORITY    *)
(* and High.                                                               *)
(***************************************************************************)
EXTENDS KernelObjects

MCPriority == [idle |-> 0, worker |-> 1, tmr |-> 3, driver |-> 5]
=============================================================================

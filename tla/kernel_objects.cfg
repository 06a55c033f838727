SPECIFICATION Spec
CONSTANTS
  Tasks = {"idle", "worker", "tmr", "driver"}
  Priority <- MCPriority
  Idle = "idle"
  TmrSvc = "tmr"
  QueueSize = 1
  configTIMER_QUEUE_LENGTH = 1
  DEFAULT_BLOCKTIME = 1
  WaitsUs = {500, 1000}
  PeriodsUs = {999, 1000}
INVARIANTS
  KernelExclusive
  HighestRuns
  HaltsOnlyForShortPeriod
PROPERTIES
  TaskCommandsKept
  HaltIsFinal
CHECK_DEADLOCK FALSE

SPECIFICATION Spec
CONSTANTS
  WORD = 256
  ticks_per_us = 6
  Thousand = 10
  Samples <- MCSamples
  Garbage <- MCGarbage
  Steps = {64, 192}
  StartTicks = {0}
  MaxCalls = 3
INVARIANT PeriodTracked

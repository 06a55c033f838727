SPECIFICATION FairSpec
CONSTANTS
  HSE_VALUE = 8000000
  PLL_TIMEOUT_VALUE = 2
  MaxEvents = 3
PROPERTY DeadOscillatorReported

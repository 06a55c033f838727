SPECIFICATION Spec
CONSTANTS
  CFG_TUD_CDC = 1
  CFG_TUD_ENDPOINT0_SIZE = 16
  Texts <- MCTexts
  Lengths = {2, 9, 18, 33, 64, 75, 255}
INVARIANTS TypeOK HostReadsRight StaysInside

SPECIFICATION Spec
CONSTANTS
  Blocks = {b1, b2, b3}
  MAX_BLOCK_SIZE = 2
  NoBlock = NoBlock
INVARIANT PTypeOK Ownership HolderCanSend

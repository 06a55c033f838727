SPECIFICATION Spec
CONSTANTS
  RxBlocks = {r1, r2}
  TxBlocks = {t1, t2}
  NoBlock = NoBlock
  CLI_RX_BLOCKSIZE = 2
  CLI_TX_BLOCKSIZE = 2
  RX_BUFSIZE = 2
  TX_BUFSIZE = 2
  BannerSize = 1
  ReportSize = 2
  MaxWrites = 0
  MaxHostBytes = 4
  MaxTimeouts = 1
  MaxResets = 1
SYMMETRY PoolSymmetry
INVARIANT RxOwnership RxInOrder
PROPERTY RxFollowsProtocol StaleOnlyByReset

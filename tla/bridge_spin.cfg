SPECIFICATION FairSpec
CONSTANTS
  RxBlocks = {r1, r2}
  TxBlocks = {t1, t2}
  NoBlock = NoBlock
  CLI_RX_BLOCKSIZE = 2
  CLI_TX_BLOCKSIZE = 2
  RX_BUFSIZE = 2
  TX_BUFSIZE = 2
  BannerSize = 1
  ReportSize = 2
  MaxWrites = 1
  MaxHostBytes = 3
  MaxTimeouts = 0
  MaxResets = 0
PROPERTY CdcKeepsPace

CONSTANTS
  Block = {"g", "c1", "c2", "a3", "a4", "b3", "b4"}
  Genesis = "g"
  Prev <- MCPrev
  Path <- MCPath
  Tx = {"p", "x", "y", "z"}
  NoTx = "null"
  BlockTxs <- MCBlockTxs
  Image <- MCImage
  Sms = {}
  Key = {"k1", "k2"}
  ZeroKey = "k0"
  Spinner <- MCSpinner
  PrevSpin <- MCPrevSpin
  Proof <- SameBeacon
  Mag <- FallingMag
  Beacon <- MCBeacon
  Defect <- NoDefect
  Early = {"a4"}
  CheckpointTable <- NoCheckpoint
  START_AMOUNT_BLOCKS = 2
  SPINNER_PVRB_BLOCK_WINDOW = 1
  StaleRecord = FALSE
SPECIFICATION Spec
PROPERTIES TxConserved

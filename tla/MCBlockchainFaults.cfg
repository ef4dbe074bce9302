CONSTANTS
  Block = {"g", "c1", "c2", "e2", "a3", "a4", "b3"}
  Genesis = "g"
  Prev <- MCPrev
  Path <- MCPath
  Tx = {"p", "y", "z"}
  NoTx = "null"
  BlockTxs <- FaultyTxs
  Image <- MCImage
  Sms = {}
  Key = {"k1", "k2"}
  ZeroKey = "k0"
  Spinner <- MCSpinner
  PrevSpin <- MCPrevSpin
  Proof <- SameBeacon
  Mag <- RisingMag
  Beacon <- MCBeacon
  Defect <- NoDefect
  Early = {"a3"}
  CheckpointTable <- EarlyCheckpoints
  START_AMOUNT_BLOCKS = 2
  SPINNER_PVRB_BLOCK_WINDOW = 1
  StaleRecord = TRUE
SPECIFICATION Spec
INVARIANTS TxTableExact NoDoubleSpend
PROPERTIES PointsHold ImplementsChainStore

SPECIFICATION FairSpec
CONSTANTS
  c1 = c1
  c2 = c2
  NoConn = NoConn
  NoBlock = NoBlock
  Conn <- McTwo
  Block <- McBlock
  Genesis = 0
  Height <- McHeight
  Parent <- McParent
  Bad = {93}
  ChainOf <- McFork
  Silent = {c2}
  Flaky = {c2}
  Outgoing = {c2}
  COUNT_LIMIT = 1
  IDS_COUNT = 10
  NSPANS_THRESHOLD = 1
  SIZE_THRESHOLD = 1
  NEAR_BLOCKS = 1
  MaxWire = 2
INVARIANTS
  TypeOK
  HashesBacked
  ScheduledIsAsked
  
  AnswersHaveBlocks
  KnownClosed

  
CHECK_DEADLOCK FALSE

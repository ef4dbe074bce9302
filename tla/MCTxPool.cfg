SPECIFICATION Spec
CONSTANTS
  a = a
  b = b
  c = c
  d = d
  g = g
  x = x
  y = y
  z = z
  nt = nt
  NoTx = nt
  Blk <- McBlk
  Genesis = g
  Prev <- McPrev
  BlkTx <- McBlkTx
  LOCKED_RATE = 9
  LIVETIME = 0
  ALT_LIVETIME = 1
  MESSAGE_LIVETIME = 0
  Tx <- McTx
  Image <- McImage
  Weight <- McWeight
  Rate <- McRate
  Needs <- McNeeds
  Locked = {b}
  Msg = {c}
  MAX_WEIGHT = 2
  MAX_TOTAL = 2
  Offered = {"local", "stem", "fluff"}
  MaxClock = 1
  MaxCounted = 5
CONSTRAINT Untorn
INVARIANTS
  TypeOK
  ImagesExact
  Loadable
  SortedCovers
  WeightCovers
  
  

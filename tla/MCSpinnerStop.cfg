CONSTANTS
  Worker = {w1, w2}
  Controller = {c1, c2}
  Peer = {}
  Idle = {}
  NoThread = none
  Background = TRUE
  Autodetect = FALSE
  Late = TRUE
SPECIFICATION Spec
INVARIANTS TypeOK StoppedIsQuiet
PROPERTIES StopReturns

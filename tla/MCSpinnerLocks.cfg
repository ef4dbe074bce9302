CONSTANTS
  Worker = {w1}
  Controller = {c1}
  Peer = {p1}
  Idle = {}
  NoThread = none
  Background = FALSE
  Autodetect = FALSE
  Late = TRUE
SPECIFICATION Spec
INVARIANTS NoLockCycle
CHECK_DEADLOCK FALSE

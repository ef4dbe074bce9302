CONSTANTS
  Worker = {w1, w2}
  Controller = {c1}
  Peer = {}
  Idle = {i1}
  NoThread = none
  Background = TRUE
  Autodetect = TRUE
  Late = TRUE
SPECIFICATION Spec
PROPERTIES RestartEnds
CHECK_DEADLOCK FALSE

CONSTANTS
  Worker = {w1, w2}
  Controller = {c1}
  Peer = {p1}
  Idle = {i1}
  NoThread = none
  Background = TRUE
  Autodetect = TRUE
  Late = FALSE
SPECIFICATION Spec
INVARIANTS ActiveExact PausesBalanced
CHECK_DEADLOCK FALSE

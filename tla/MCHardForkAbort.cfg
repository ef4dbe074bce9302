SPECIFICATION Spec
CONSTANTS
  Fork <- MixedForks
  Minor = {0, 3}
  window_size = 2
  MaxHeight = 4
  MaxForks = 3
INVARIANTS PastTrigger

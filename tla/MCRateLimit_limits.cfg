SPECIFICATION RateSpec
CONSTANTS
  a = a
  b = b
  c = c
  Process <- ThreeProcesses
  Limit = 2
  Window = 2
  MaxTime = 5
SYMMETRY Symmetry
INVARIANTS WindowHeld NoHastyRefusal SlidingWindowHeld
CHECK_DEADLOCK FALSE

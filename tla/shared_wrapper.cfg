SPECIFICATION Spec
CONSTANTS
  first = first
  second = second
  Workers <- MCWorkers
  Last = 2
  Stamps = {1, 2}
INVARIANTS
  OwnWrapper
CHECK_DEADLOCK FALSE

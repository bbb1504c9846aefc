SPECIFICATION PatrolsSpec
CONSTANTS
  Editor = {e1}
  Patrol = {a, b}
  Youth = {y}
  Typed = {}
  MaxNumber = 2
  NoPatrol = none
CHECK_DEADLOCK FALSE
INVARIANTS PlacedOnce

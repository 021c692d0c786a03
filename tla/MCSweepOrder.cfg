SPECIFICATION SweepSpec
CONSTANTS
  Nodes = {1, 2, 3}
CHECK_DEADLOCK FALSE
INVARIANTS
    TopoSound
PROPERTIES
    SweepCorrect

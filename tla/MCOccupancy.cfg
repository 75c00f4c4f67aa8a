CONSTANTS
  Cars = {c1, c2, c3}
  Entrances = {e1, e2}
  Exits = {x1}
  NUM_LEVELS = 2
  FLOOR_CAPACITY = 1
  NumPlates = 2
  NoCar = NoCar
SPECIFICATION Spec
SYMMETRY Symmetry
CONSTRAINT Scope
INVARIANTS TypeOK CountCoversCars FullMeansFull  MovesAreSignalled
CHECK_DEADLOCK FALSE

CONSTANTS
  Cars = {c1}
  Entrances = {e1}
  Exits = {x1}
  NUM_LEVELS = 2
  FLOOR_CAPACITY = 1
  NumPlates = 2
  NoCar = NoCar
SPECIFICATION Spec
INVARIANT FloorsEmptyAtEnd
CHECK_DEADLOCK FALSE

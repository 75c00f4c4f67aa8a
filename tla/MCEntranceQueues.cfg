CONSTANTS
  Entrances = {e1, e2}
  Handlers = {h1, h2}
  CarsToSim = 3
  NoCar = NoCar
  NoThread = NoThread
  Spurious = TRUE
SPECIFICATION Spec
SYMMETRY Symmetry
INVARIANTS TypeOK PopFindsCar CarsConserved GeneratorNotStranded
CHECK_DEADLOCK FALSE

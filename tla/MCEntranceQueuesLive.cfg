CONSTANTS
  Entrances = {e1}
  Handlers = {h1, h2}
  CarsToSim = 3
  NoCar = NoCar
  NoThread = NoThread
  Spurious = FALSE
SPECIFICATION FairSpec
INVARIANTS ManagerWaitsForCar NoCarUsesDeadStack PassInOrder
PROPERTY SimulationEnds
CHECK_DEADLOCK FALSE

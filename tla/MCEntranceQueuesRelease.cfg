CONSTANTS
  Entrances = {e1}
  Handlers = {h1}
  CarsToSim = 2
  NoCar = NoCar
  NoThread = NoThread
  Spurious = FALSE
SPECIFICATION FairSpec
PROPERTY ManagersReleased
CHECK_DEADLOCK FALSE

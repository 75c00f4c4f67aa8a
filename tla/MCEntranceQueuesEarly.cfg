CONSTANTS
  Entrances = {e1}
  Handlers = {h1}
  CarsToSim = 2
  NoCar = NoCar
  NoThread = NoThread
  Spurious = FALSE
SPECIFICATION Spec
INVARIANT QuitAfterAllCars
CHECK_DEADLOCK FALSE

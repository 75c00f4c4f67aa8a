CONSTANTS
  Nodes = {n1, n2, n3}
  NULL = NULL
  Keys = {k1, k2, k3}
  Values = {v1, v2}
  NoItem = NoItem
  Size = 2
  MaxItems = 4
  Levels = {l1}
  Gates = {g1, g2}
  MEDIAN_WINDOW = 3
  TEMPCHANGE_WINDOW = 10
  Temperatures = {42, 50, 58}
  Cars = {c1, c2, c3}
  Authorised = {c1, c2}
  NoCar = NoCar
  MaxRuns = 3
  NoObject = NoObject
SPECIFICATION Spec
SYMMETRY Symmetry
CONSTRAINT Scope
INVARIANTS
  ListTypeOK WellLinked SafeToDelete
  TableTypeOK
  AlarmTypeOK
  EntranceTypeOK SignAnswersOwnCar MonitorServesOccupant GateWakesAdmittedCar GateReleased
  HandshakeTypeOK FreshObjects ReadyIsInitialised LeftBehindOnlyEarly ClosingPasses
PROPERTIES
  ImplementsNodeList
  ImplementsKeyValues KeysApart
  AlarmOnEvidence GlitchIsNewest
CHECK_DEADLOCK FALSE

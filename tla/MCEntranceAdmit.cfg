CONSTANTS
  Cars = {c1}
  Authorised = {c1}
  NoCar = NoCar
SPECIFICATION EntranceFairSpec
PROPERTY AdmitReturns
CHECK_DEADLOCK FALSE

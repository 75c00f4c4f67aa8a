CONSTANTS
  Handlers = {h1, h2}
  Adders = {a1, a2}
  Requests = {r1, r2}
  NoRequest = NoRequest
  NoThread = NoThread
SPECIFICATION FairSpec
PROPERTY CloseTerminates
CHECK_DEADLOCK FALSE

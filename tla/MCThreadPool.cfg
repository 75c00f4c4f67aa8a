CONSTANTS
  Handlers = {h1, h2}
  Adders = {a1, a2}
  Requests = {r1, r2, r3}
  NoRequest = NoRequest
  NoThread = NoThread
SPECIFICATION FairSpec
INVARIANTS TypeOK NoStrandedRequest ExactlyOnce
PROPERTIES ImplementsWorkQueue RequestsServed
CHECK_DEADLOCK FALSE

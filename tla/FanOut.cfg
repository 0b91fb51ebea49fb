SPECIFICATION FairSpec
CONSTANTS
  Dev = {d1, d2}
  Item = {i1}
  MaxAttempts = 1
  Upsets = {"paused", "canceled", "resume", "crash", "reply", "goDirect"}
  MaxUpsets = 2
  None = None
INVARIANT TypeOK
INVARIANT DeliveredIsTrue
PROPERTY RefusalIsRespected
PROPERTY EveryDeviceSettles
CHECK_DEADLOCK FALSE

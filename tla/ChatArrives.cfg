SPECIFICATION FairSpec
CONSTANTS
  Msg = {1}
  Dev = {a, b}
  Item = {1}
  OpKinds = {}
  Routes = {TRUE, FALSE}
  Links = {1}
  Upsets = {"ack", "reply", "crash", "death", "disk", "expire", "forget"}
  MaxUpsets = 1
  None = None
INVARIANT NotCalledBackEarly
INVARIANT DeliveredIsReal
PROPERTY EveryMessageArrives
CHECK_DEADLOCK FALSE

SPECIFICATION Spec
CONSTANTS
  Dev = {a, b}
  Origin = a
  Emoji = {e1}
  Skew <- OriginAhead
  Gap = {2}
  Upsets = {"later"}
  MaxEvents = 1
  None = None
INVARIANT NotGivenUp
CHECK_DEADLOCK FALSE

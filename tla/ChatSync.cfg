SPECIFICATION FairSpec
CONSTANTS
  Dev = {a, b}
  Origin = a
  Emoji = {e1}
  Skew <- OriginAhead
  Gap = {2}
  Upsets = {"unsend", "react", "preview", "receipt", "lost"}
  MaxEvents = 2
  None = None
INVARIANT AgreedIsWanted
PROPERTY Converges
CHECK_DEADLOCK FALSE

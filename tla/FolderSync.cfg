SPECIFICATION FairSpec
CONSTANTS
  Member = {a, b}
  Content = {1, 2, 3}
  Size <- OwnSizes
  Shared = 1
  Group = TRUE
  Slack = 10
  SameSecond = FALSE
  Upsets = {"close", "lost", "disk", "overflow", "wait"}
  MaxEvents = 2
  None = None
INVARIANT TypeOK
INVARIANT NothingLost
INVARIANT DeleteSparesEdits
PROPERTY Converges
CHECK_DEADLOCK FALSE

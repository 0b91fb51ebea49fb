SPECIFICATION FairSpec
CONSTANTS
  Block = {b1, b2}
  Attempts = 3
  MaxStall = 2
  Upsets = {"edit", "drop", "crash", "disk", "cancel", "resend", "clear", "wait"}
  MaxUpsets = 2
  MaxEdits = 1
  None = None
INVARIANT TypeOK
INVARIANT WholeUnlessEarly
INVARIANT DoneIsLanded
INVARIANT NoSecondCopy
INVARIANT ResumeIsReal
PROPERTY EverySendEnds
CHECK_DEADLOCK FALSE

SPECIFICATION FairSpec
CONSTANTS
  a = a
  b1 = b1
  b2 = b2
  Ann = Ann
  Bob = Bob
  Dev = {a, b1, b2}
  Owner <- MCOwner
  Callee <- MCCallee
  Rank <- MCRank
  Callers = {a}
  MaxBreaks = 0
  None = None
INVARIANT ElsewhereIsTrue
PROPERTY HalfCallEnds
CHECK_DEADLOCK FALSE

SPECIFICATION Spec
CONSTANTS
  a = a
  b1 = b1
  b2 = b2
  Ann = Ann
  Bob = Bob
  Dev = {a, b1}
  Owner <- MCOwner
  Callee <- MCCallee
  Rank <- MCRank
  Callers = {a, b1}
  MaxBreaks = 1
  None = None
INVARIANT TypeOK
INVARIANT TwoSided
INVARIANT GlareKeepsOne
CHECK_DEADLOCK FALSE

SPECIFICATION Spec
CONSTANTS
  a = a
  b = b
  c = c
  c1 = c1
  h1 = h1
  h2 = h2
  None = None
  Operation = {a, b, c}
  Customer = {c1}
  Request = {"new", "refine1"}
  Handler = {h1, h2}
  Owner <- MCOwner
  Kind <- MCKind
  Target <- MCTarget
  Base <- MCBase
  GeminiEnabled = TRUE
  LeaseTime = 1
  MaxTime = 2
PROPERTIES
  RaceAnswersStale
CHECK_DEADLOCK FALSE

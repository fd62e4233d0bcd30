SPECIFICATION Spec
CONSTANTS
  r1 = r1
  r2 = r2
  Report <- MCReport
  Limit = 1
  CancelWins = TRUE
  EventErrors = {}
  UnplugsAnyTime = TRUE
PROPERTY ReadEnds

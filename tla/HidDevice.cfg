SPECIFICATION HidSpec
CONSTANTS
  r1 = r1
  r2 = r2
  Report <- MCReport
  a1 = a1
  a2 = a2
  Addresses <- MCAddresses
  Limit = 1
  CancelWins = TRUE
  EventErrors = {"loop"}
  UnplugsAnyTime = FALSE
INVARIANT OwnsWhatItUses
PROPERTIES ReturnsInOrder ReadEnds CloseEnds

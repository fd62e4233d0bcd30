SPECIFICATION DeviceSpec
CONSTANTS
  EP_0_LEN = 2
  Profiles <- MCProfiles
  r1 = r1
  NoReport = NoReport
  Report <- MCReport
  Recording = FALSE
INVARIANTS ReadsIntact StallsMatch AddressesAgree OneCallbackEach WritesIntact
PROPERTIES TransfersEnd RequestsAreAtomic

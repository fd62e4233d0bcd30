SPECIFICATION Spec
CONSTANTS
  EP_0_LEN = 2
  Profiles <- MoveAway
INVARIANT AddressesAgree

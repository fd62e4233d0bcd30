SPECIFICATION Spec
CONSTANTS
  EP_0_LEN = 2
  Profiles <- EmptyPacketLeft
INVARIANT OneCallbackEach

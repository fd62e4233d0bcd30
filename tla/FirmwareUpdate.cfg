SPECIFICATION ToolSpec
CONSTANTS
  i1 = i1
  i2 = i2
  e = e
  g = g
  a0 = a0
  a1 = a1
  a2 = a2
  a3 = a3
  b0 = b0
  b3 = b3
  cfg = cfg
  NumRows = 2
  Content <- MCContent
  Erased = e
  Garbage = g
  Images = {i1, i2}
  Image <- MCImage
  HefUnit = 1
  HefSealed = {i1}
  ConfigWords = cfg
  RamNoise = {cfg, e}
  EraseFaults <- LowerHalfFaults
  Commands <- MCCommands
  IdLike = {a0}
INVARIANTS TypeOK SuccessMeansInstalled ProgramsBlankUnits InStep
PROPERTIES RunEnds UpdateIsAtomic EventuallyInstalled

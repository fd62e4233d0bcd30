SPECIFICATION ServerSpec
CONSTANTS
  i1 = i1
  e = e
  g = g
  a = a
  s = s
  cfg = cfg
  NumRows = 2
  Content <- MCContent
  Erased = e
  Garbage = g
  Images = {i1}
  Image <- MCImage
  HefUnit = 1
  HefSealed = {}
  ConfigWords = cfg
  RamNoise = {cfg}
  EraseFaults <- MCEraseFaults
  Commands <- MCCommands
PROPERTIES ServesInOrder CommandsTakenUp

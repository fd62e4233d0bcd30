SPECIFICATION Spec
CONSTANTS
  Width = 14
  Poly <- MCPoly
  Page = 4
  FirstPage = 1
  LastPage = 2
  Words <- MCWords
  b1 = b1
  b2 = b2
  Byte <- MCByte
  Blank = Blank
  Base = 2
  Top = 6
  Space = 10
  Starts <- MCStarts
  Lengths <- MCLengths
  Uppers <- OnlyAbove
  MaxRecords = 3
INVARIANTS SealedStarts OneBitIsNoticed ImageIsTheFile AsksOutOfBounds ReadsItsNumber Understood
CHECK_DEADLOCK FALSE

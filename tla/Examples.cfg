SPECIFICATION Spec
CONSTANTS
  NoReport = NoReport
  Report <- MCReport
  Copies = {TRUE, FALSE}
  ConfiguresAgain = FALSE
  MaxBreaks <- MCBreaks
  Steps = 2
  Pause = 3
  Trigger = 2
  Keys <- MCKeys
  TooSoon = 1
  TooLate = 4
  TickLimit = 5
  OtherLeds = {}
  TickWrap = 4
  Late = 1
  CounterWrap = 4
  KilledWaiting = FALSE
  EP_2_LEN = 2
  Bytes = 2
  Recording = FALSE
  Apps <- AllApps
INVARIANTS TogglesMeetAgain StaysOnLine TypesInOrder StaysOnFigure CountsOnce BytesInOrder
PROPERTIES TypesWhenMeant RebootsWhenAsked PrintsItsCount KeepsReporting ReleasesKeys BytesGetThrough


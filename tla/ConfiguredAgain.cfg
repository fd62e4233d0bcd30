SPECIFICATION EndpointSpec
CONSTANTS
  r1 = r1
  r2 = r2
  NoReport = NoReport
  Report <- MCReport
  Recording = TRUE
  Copies = {FALSE}
  ConfiguresAgain = TRUE
PROPERTY DeliversOnce

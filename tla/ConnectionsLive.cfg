CONSTANTS
  line = line
  web = web
  here = here
  ann = ann
  bob = bob
  Conn = {line, web}
  Wss = {web}
  Host = {here}
  HostOf <- MCHostOf
  Player = {ann}
  Nobody = nobody
  Wizard = {}
  Total = 1
  PerHost = 2
  Rate = 1
  ForgetAbove = 0
  PlayerMax = 1
  Burst = 1
  OutputDepth = 1
  MaxLines = 2
  MaxTroubled = 2
SPECIFICATION FairSpec
PROPERTIES HeldUpGoesOn ClosedDeparts
CHECK_DEADLOCK FALSE

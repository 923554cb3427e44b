CONSTANTS
  sig = sig
  conn = conn
  root = root
  thing = thing
  v1 = v1
  v2 = v2
  bad = bad
  Signaller = sig
  Nobody = nobody
  Root = root
  Caller = {sig, conn}
  Uses <- MCUsesBoth
  Item = {root}
  Value = {v1, v2}
  Unstorable = {}
  QueueDepth = 1
  GripeLimit = 1
  MaxOps = 2
  MaxGripes = 0
  MaxFailures = 1
  MaxBoots = 1
SPECIFICATION FairSpec
INVARIANT AcceptedWorkRuns
PROPERTIES EveryoneReturns 
CHECK_DEADLOCK FALSE

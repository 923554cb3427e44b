CONSTANTS
  sig = sig
  conn = conn
  root = root
  thing = thing
  v1 = v1
  v2 = v2
  bad = bad
  Signaller = sig
  Nobody = nobody
  Root = root
  Caller = {sig, conn}
  Uses <- MCUses
  Item = {root, thing}
  Value = {v1, v2, bad}
  Unstorable = {bad}
  QueueDepth = 1
  GripeLimit = 2
  MaxOps = 1
  MaxGripes = 2
  MaxFailures = 1
  MaxBoots = 2
SPECIFICATION Spec
INVARIANTS WriteBehindComplete SaidIsSaved
PROPERTY DurableSpec
SYMMETRY Sym
CHECK_DEADLOCK FALSE

CONSTANTS
  a = a
  b = b
  Server = {a, b}
  Nobody = nobody
  MaxChanges = 3
  MaxCrashes = 2
  MaxLosses = 2
SPECIFICATION Spec
INVARIANTS  OneAuthority NoLostUpdate
CHECK_DEADLOCK FALSE

CONSTANTS
  Threads = {t1, t2}
  Patterns = {p}
  Invalid = {}
  NoCode = NoCode
  MaxCodes = 2
SPECIFICATION Spec
INVARIANT OwnedForLifetime
CHECK_DEADLOCK FALSE

\* Two orders, a ring of two rows, two callers of sweep(), a read that fails.
SPECIFICATION Spec
CONSTANTS
  ATTEMPTS_CAPACITY = 2
  Calls = {c1, c2}
  TIMEOUT = 1
  TARGET_CEILING = 2
  LATE_COMMIT = 3
  SETTLE = 1
  MaxDelay = 1
  LastSend = 0
  MaxTime = 4
  Sweepers = {timer, client}
  MaxWindows = 1
  MaxFailures = 1
  Null = Null
SYMMETRY Symmetric
INVARIANTS
  RowsKeepTheirOwn
  LossesAreKept
  JudgedOnce
  CriticalIsFinal
  LoadIsExpectedToShed

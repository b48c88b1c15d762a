\* One order, a ring of two rows and reads of the database that fail, for PendingDrains.
SPECIFICATION Spec
CONSTANTS
  ATTEMPTS_CAPACITY = 2
  Calls = {c1}
  TIMEOUT = 1
  TARGET_CEILING = 2
  LATE_COMMIT = 3
  SETTLE = 1
  MaxDelay = 1
  LastSend = 1
  MaxTime = 5
  Sweepers = {timer, client}
  MaxWindows = 0
  MaxFailures = 2
  Null = Null
PROPERTIES
  PendingDrains

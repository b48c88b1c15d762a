\* One die that may be at work for a tick after its roll, pauses from none to the length of the
\* window, a command that fails; ticks of ten seconds.
SPECIFICATION Spec
CONSTANTS
  Dice = {"response_drop"}
  Seconds = {0, 1, 3}
  CHAOS_WINDOW = 3
  DieLasts = 1
  MaxFailures = 1
  MaxTime = 7
CHECK_DEADLOCK FALSE
INVARIANTS
  PausedIsMarked
  WhatIsInjectedIsNamed
PROPERTIES
  PauseEnds
  ImplementsOutage

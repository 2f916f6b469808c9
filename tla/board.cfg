SPECIFICATION Spec
CONSTANTS
  Keys = {"A", "B"}
  Modifiers = {"shift"}
  CleanTicks = 4
  PulseTicks = 2
  Costs = {3}
  ResetTicks = 4
  Counts = 3
  Slow = 2
  Controls <- Modes
  Reloads = {2}
  VM1G = TRUE
  Careful = TRUE
INVARIANTS
  TypeOK
  InterruptPending
  PeriodExact
  OneShotOnce
PROPERTIES
  ReadyUntilRead
  ReadClears
CHECK_DEADLOCK TRUE

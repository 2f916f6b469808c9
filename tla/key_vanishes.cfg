SPECIFICATION Spec
CONSTANTS
  Keys = {"A", "B"}
  Modifiers = {"shift"}
  CleanTicks = 4
  PulseTicks = 2
  Costs = {3}
  ResetTicks = 4
  Counts = 3
  Slow = 2
  Controls = {}
  Reloads = {}
  VM1G = TRUE
  Careful = TRUE
PROPERTIES
  NoKeyVanishes
CHECK_DEADLOCK TRUE

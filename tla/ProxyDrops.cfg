SPECIFICATION Spec
CONSTANTS
  Paths = {"primary"}
  Primary = "primary"
  Asks = {a1, a2}
  SeenLimit = 2
  MaxTicks = 1
  None = None
INVARIANT
  DropsOnlyDuplicates
CHECK_DEADLOCK FALSE

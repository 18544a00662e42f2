CONSTANTS
  Depth = 4
  Trigger = 3
  MaxBytes = 2
  LineBytes = {"line", "twin"}
  Undisturbed = FALSE
SPECIFICATION Spec
CHECK_DEADLOCK FALSE
INVARIANT SelfTestPasses

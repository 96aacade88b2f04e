\* Three tasks start one by one, and finish one by one.
CONSTANTS
  MaxTasks = 10
  SlotBits = 3
  Spacing <- MCSpacing
SPECIFICATION SlotSpec
INVARIANT UsageNotNegative
CHECK_DEADLOCK FALSE

SPECIFICATION ConfigSpec
CONSTANTS
  Times = {0, 1}
  MaxConfigFaults = 0
INVARIANTS TimeIsCurrent

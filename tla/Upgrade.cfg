SPECIFICATION FairUpdateSpec
CONSTANTS
  MaxPackage = 2
  MaxAttempts = 2
  MaxFaults = 3
INVARIANTS
  ServicesRunOnWhole
  StatusTellsTheDisk
PROPERTY RecoverySettles

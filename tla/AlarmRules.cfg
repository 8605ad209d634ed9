SPECIFICATION UndisturbedSpec
CONSTANTS
  p1 = p1
  Points = {p1}
  Masters <- OnePoint
  Rules <- ManyRules
  MaxCount = 2
  MaxTime = 3
  ClockMaySlip = TRUE
INVARIANTS
  AlarmsAreSound
  JournalTellsState
PROPERTIES
  ChangesAreEarned
  AlarmsKeepTheirIdentity
  ImplementsLifecycle

SPECIFICATION AllConfigSpec
CONSTANTS
  Times = {0}
  MaxConfigFaults = 2
  Types = {"b", "c"}
  Keys = {"k", "l"}
  Forms <- TwoForms
  Releases <- ThreeReleases
  MaxTemplateEdits = 2
  MaxStarts = 2
  MaxTemplateFaults = 1
  p1 = p1
  Points = {p1}
  Masters <- TwoMasters
  Rules <- OneRule
  MaxCount = 2
  MaxTime = 1
  ClockMaySlip = FALSE
INVARIANTS
  RunningIsStored
  PollingIsExclusive
  TypesAreInForce
  CountsAreEarned
  MemoryIsDurable
PROPERTY ChoicesSurvive

SPECIFICATION PlatformSpec
CONSTANTS
  Static = {"s"}
  Dynamic = {"d"}
  RequireExplicit = TRUE
  MaxClients = 2
  MaxNetFaults = 2
  Zones = {"z1", "z2"}
  Servers = {"a", "b"}
  MaxChanges = 2
  Backends = {"a", "b"}
  MaxListenFailures = 3
  MaxSocketFaults = 3
  Connections = {"c", "d", "e"}
  Workers = {"v", "w"}
  Slots = 2
  Mappings = {"m"}
  Cells = {1}
  Conversions = {"f", "g"}
  MaxValues = 2
  MaxEdits = 2
  MaxReads = 2
  MaxServingFaults = 1
  Readers = {"r", "s"}
  MaxReaders = 1
  SendLimit = 2
  MaxAsked = 3
  MaxIoFaults = 2
CHECK_DEADLOCK FALSE
INVARIANTS
  ReportIsTrue
  NothingIsLeft
  ChangesAreHandledOnce
  AppliedIsInForce
  ServingIsReachable
  StopReachesEveryone
  ServedIsPublished
  AnswersGoForward
  ReadersAreAnswered
PROPERTY
  UnconfirmedIsUntouched

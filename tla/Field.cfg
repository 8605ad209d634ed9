SPECIFICATION FieldSpec
CONSTANTS
  Channels = {"a", "b"}
  Lines = {"p1", "p2", "q1"}
  PortOf <- TwoPorts
  MaxExchanges = 2
  MaxCommands = 1
  Plans = {1, 2, 3}
  DeviceOf <- TwoDevices
  ShapeOf <- TwoShapes
  Attempts = 1
  MaxPolls = 2
  MaxLineFaults = 2
  MaxTime = 4
  RawKept = 2
  HourKept = 7
  DayKept = 6
  MaxStoreFaults = 2
  a1 = a1
  Kinds = {"k", "l"}
  AlarmIds = {a1}
  EventLimit = 2
  EventsKept = 1
  EventWindow = 1
  MaxClock = 2
  MaxEventFaults = 2
  Targets = {"a", "b"}
  Words = {"u", "v"}
  MaxOrders = 3
  MaxOrderFaults = 2
INVARIANTS
  TalkIsExclusive
  ValuesAreCurrent
  NobodyWaitsInACircle
  AggregatesAreCurrent
  CountsFitRows
  StoreIsTrue
  ResponsesAreTrue

SPECIFICATION Spec
CONSTANTS
  raised = raised
  acknowledged = acknowledged
  Events <- TwoEvents
  Alarms <- OneAlarm
  PassSize = 2
  MaxInFlight = 2
  Tls = TRUE
  MaxFaults = 3
INVARIANT DeliveriesFollowTheClient

SPECIFICATION FairSpec
CONSTANTS
  raised = raised
  acknowledged = acknowledged
  Events <- TwoEvents
  Alarms <- OneAlarm
  PassSize = 1
  MaxInFlight = 2
  Tls = FALSE
  MaxFaults = 2
PROPERTY EventsAreDelivered

-------------------------- MODULE MCAlarmDelivery --------------------------
(* Instances of AlarmDelivery for TLC.                                     *)
EXTENDS AlarmDelivery

CONSTANTS raised, acknowledged

TwoEvents == {raised, acknowledged}
OneAlarm == {raised}
=============================================================================

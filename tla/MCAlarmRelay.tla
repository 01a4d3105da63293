----------------------------- MODULE MCAlarmRelay -----------------------------
(* Instances of AlarmRelay for TLC.                                           *)
EXTENDS AlarmRelay

=============================================================================

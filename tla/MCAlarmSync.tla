---------------------------- MODULE MCAlarmSync -----------------------------
(* An instance of AlarmSync for TLC: two alarms, three revisions in each   *)
(* of two collector runs.                                                  *)
EXTENDS AlarmSync
=============================================================================

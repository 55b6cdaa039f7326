----------------------------- MODULE MCAlarmFeed -----------------------------
(* Instances of AlarmFeed for TLC. *)
EXTENDS AlarmFeed, TLC

CONSTANTS k1, k2, c1

NoTimeouts   == {}
NoChannelOf  == [k \in {} |-> c1]
OneTimeout   == {k1}
OneChannelOf == [k \in {k1} |-> c1]
=============================================================================

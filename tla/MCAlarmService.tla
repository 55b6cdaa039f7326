--------------------------- MODULE MCAlarmService ---------------------------
(* An instance of AlarmService for TLC: two workers, a window of two       *)
(* values, thresholds on, below and above each value.                      *)
EXTENDS AlarmService

CONSTANTS w1, w2

MCLimits == {{}, {0}, {2}}

MCRules ==
    {[high |-> {2}, highClear |-> {0}, low |-> {},  lowClear |-> {}],
     [high |-> {},  highClear |-> {},  low |-> {0}, lowClear |-> {2}],
     [high |-> {2}, highClear |-> {},  low |-> {0}, lowClear |-> {}]}

MCJumpArguments ==
    {[warn |-> 0, red |-> -1, purple |-> 2, angle |-> 1],
     [warn |-> 1, red |-> 0,  purple |-> 0, angle |-> 0]}
=============================================================================

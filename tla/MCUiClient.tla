----------------------------- MODULE MCUiClient -----------------------------
(* An instance for TLC of what the interface does beside the alarm feed: the  *)
(* threshold panels and the control server, the record window, the replay     *)
(* window, the curves.  Control and Curves share no state with the rest, so a *)
(* run explores one of them, chosen by "part", while the others stay in their *)
(* initial states.  Records are explored alone with more rows and pages, and  *)
(* together with the replay window with one row and one page.                 *)
EXTENDS Control, Replay, Curves, TLC

CONSTANTS u1, u2, d1
MCNoText == -100
MCTypedTorque == {-3}
MCTypedAngle == {3, MCNoText}
MCTypedCan == {1, MCNoText}
MCSymmetry == Permutations(Uis)
MCDevicesOf == [can3axis |-> <<d1>>, sent |-> <<>>]

VARIABLE part
uiVars == <<controlVars, recordsVars, replayVars, curvesVars, part>>

UiInit ==
    /\ part \in {"control", "records", "replay", "curves"}
    /\ ControlInit /\ ReplayInit /\ CurvesInit

UiNext ==
    \/ part = "control" /\ ControlNext /\ UNCHANGED <<recordsVars, replayVars, curvesVars, part>>
    \/ part = "records" /\ RecordsNext /\ UNCHANGED <<controlVars, replayVars, curvesVars, part>>
    \/ /\ part = "replay" /\ ReplayNext /\ UNCHANGED <<controlVars, curvesVars, part>>
       /\ Len(table') <= 1 /\ pageLoads' <= 1 /\ ~filter'.recentOnly
    \/ part = "curves" /\ CurvesNext /\ UNCHANGED <<controlVars, recordsVars, replayVars, part>>

UiSpec == UiInit /\ [][UiNext]_uiVars
=============================================================================

---------------------------- MODULE AlarmReplica ----------------------------
(***************************************************************************)
(* What the alarm feed promises, with no trackers, messages or queues: a   *)
(* user interface shows, for every alarm, the truth of some revision of    *)
(* one collector run, that revision never goes back while the run is the   *)
(* same, and the shown run is never an older one.                          *)
(***************************************************************************)
EXTENDS Naturals, Sequences

CONSTANTS Keys, Alarms, NoAlarm

VARIABLES
    log,        \* log[e][r]: what revision r of collector run e changed
    epoch,      \* the run shown, 0 while none is
    known,      \* the revision shown, for each alarm
    shown       \* the alarms shown as active

vars == <<log, epoch, known, shown>>

\* The alarms active after revision r of run e.
Truth(runs, e, r) ==
    IF r = 0 THEN [k \in Keys |-> NoAlarm] ELSE runs[e][r].view

ShownAt(runs, e, revs) == [k \in Keys |-> Truth(runs, e, revs[k])[k]]

Init ==
    /\ log = << <<>> >>
    /\ epoch = 0
    /\ known = [k \in Keys |-> 0]
    /\ shown = [k \in Keys |-> NoAlarm]

\* The collector publishes a transition or starts a new run.
Publish ==
    /\ \E k \in Keys, a \in Alarms \cup {NoAlarm} :
          LET run == log[Len(log)]
              new == [key |-> k, view |-> [Truth(log, Len(log), Len(run)) EXCEPT ![k] = a]]
          IN  log' = [log EXCEPT ![Len(log)] = Append(run, new)]
    /\ UNCHANGED <<epoch, known, shown>>

NewRun ==
    /\ log' = Append(log, <<>>)
    /\ UNCHANGED <<epoch, known, shown>>

\* The picture moves forward: to later revisions of the same run, or to any
\* revisions of a later one.
Advance ==
    /\ epoch' \in 1 .. Len(log)
    /\ epoch' >= epoch
    /\ known' \in [Keys -> 0 .. Len(log[epoch'])]
    /\ epoch' = epoch => \A k \in Keys : known'[k] >= known[k]
    /\ shown' = ShownAt(log, epoch', known')
    /\ UNCHANGED log

Next == Publish \/ NewRun \/ Advance

Spec == Init /\ [][Next]_vars
=============================================================================

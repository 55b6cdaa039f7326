----------------------------- MODULE AlarmSync ------------------------------
(***************************************************************************)
(* The alarm protocol between a collector and one AlarmTracker over a feed *)
(* that may lose, duplicate, delay and reorder what the collector sent: a  *)
(* delivery picks any update or snapshot of any revision published so far. *)
(* The one order the tracker relies on is the one its doc comment names:   *)
(* snapshots of an older collector run never follow those of a newer one.  *)
(*                                                                         *)
(* AlarmFeed is the real chain of queues; it implements this module.  This *)
(* module implements AlarmReplica, for every set of alarms and any number  *)
(* of revisions and restarts (AlarmSyncProofs).                            *)
(***************************************************************************)
EXTENDS AlarmTracker, Sequences

CONSTANTS
    MaxRevision,   \* bound on the revisions of one run
    MaxEpoch       \* bound on the collector runs

ASSUME BoundsAssumption == MaxRevision \in Nat /\ MaxEpoch \in Nat

VARIABLES
    log,       \* log[e][r] = [key, view]: the alarm changed and all alarms after it
    tracker    \* the receiver's AlarmTracker

vars == <<log, tracker>>

LogEntries == [key : Keys, view : AlarmMap]

\* The alarms active after revision r of run e.
Truth(runs, e, r) ==
    IF r = 0 THEN [k \in Keys |-> NoAlarm] ELSE runs[e][r].view

\* The messages that carry revision r of run e.
UpdateAt(runs, e, r) ==
    [epoch |-> e, revision |-> r, key |-> runs[e][r].key,
     alarm |-> runs[e][r].view[runs[e][r].key]]

SnapshotAt(runs, e, r) ==
    [epoch |-> e, revision |-> r, alarms |-> Truth(runs, e, r)]

\* The log with one more transition of the current run.
Extended(runs, k, a) ==
    LET e == Len(runs)
        n == Len(runs[e])
    IN  [runs EXCEPT ![e] =
            Append(runs[e], [key |-> k, view |-> [Truth(runs, e, n) EXCEPT ![k] = a]])]

Init ==
    /\ log = << <<>> >>
    /\ tracker = EmptyTracker(NoEpoch)

\* publish_alarm: the next revision of the current run.
Publish(k, a) ==
    /\ Len(log[Len(log)]) < MaxRevision
    /\ log' = Extended(log, k, a)
    /\ UNCHANGED tracker

\* The collector process restarts with an empty alarm state and a new epoch.
Restart ==
    /\ Len(log) < MaxEpoch
    /\ log' = Append(log, <<>>)
    /\ UNCHANGED tracker

DeliverUpdate(e, r) ==
    /\ tracker' = ApplyUpdate(tracker, UpdateAt(log, e, r))
    /\ UNCHANGED log

DeliverSnapshot(e, r) ==
    /\ e >= tracker.epoch
    /\ tracker' = ApplySnapshot(tracker, SnapshotAt(log, e, r))
    /\ UNCHANGED log

Next ==
    \/ \E k \in Keys, a \in EventValue : Publish(k, a)
    \/ Restart
    \/ \E e \in 1 .. Len(log) : \E r \in 1 .. Len(log[e]) : DeliverUpdate(e, r)
    \/ \E e \in 1 .. Len(log) : \E r \in 0 .. Len(log[e]) : DeliverSnapshot(e, r)

Spec == Init /\ [][Next]_vars

-----------------------------------------------------------------------------

TypeOK ==
    /\ log \in Seq(Seq(LogEntries))
    /\ log # <<>>
    /\ tracker \in Trackers

(* Every alarm the tracker shows is the truth of the revision it knows for *)
(* that alarm, in the run it follows, however deltas and snapshots were    *)
(* lost, repeated or overtaken (apply_update, apply_snapshot).             *)
TrackerExact ==
    tracker.epoch # NoEpoch =>
        /\ tracker.epoch \in 1 .. Len(log)
        /\ \A k \in Keys :
              /\ Known(tracker, k) \in 0 .. Len(log[tracker.epoch])
              /\ tracker.active[k] = Truth(log, tracker.epoch, Known(tracker, k))[k]

\* Kept deltas are later than the last snapshot, and a tracker that has seen
\* nothing is empty: what the step to TrackerExact needs.
TrackerOrdered ==
    /\ \A k \in Keys : tracker.revisions[k] > 0 =>
                           tracker.revisions[k] > tracker.snapshot_revision
    /\ tracker.epoch = NoEpoch => tracker = EmptyTracker(NoEpoch)

IInv == TypeOK /\ TrackerOrdered /\ TrackerExact

Replica == INSTANCE AlarmReplica WITH
    epoch <- tracker.epoch,
    known <- [k \in Keys |-> Known(tracker, k)],
    shown <- tracker.active

\* The tracker after one more message of run e.
Merged(t, e, m) ==
    IF m.kind = "update" THEN ApplyUpdate(t, UpdateAt(log, e, m.revision))
                         ELSE ApplySnapshot(t, SnapshotAt(log, e, m.revision))

\* The messages of run e that may arrive, and the alarms one of them tells of.
Published(e) == [kind : {"update"}, revision : 1 .. Len(log[e])]
                    \cup [kind : {"snapshot"}, revision : 0 .. Len(log[e])]
Covered(e, m) == IF m.kind = "update" THEN {log[e][m.revision].key} ELSE Keys

(* Within a collector run the order in which its deltas and snapshots      *)
(* arrive, and how often, makes no difference (apply_update,               *)
(* apply_snapshot): any two of them leave the tracker as if they had come  *)
(* the other way round, the same one twice as if once, and after a message *)
(* the tracker knows no less of the alarms it tells of than the message.   *)
OrderIrrelevant ==
    \A e \in 1 .. Len(log) : tracker.epoch \in {NoEpoch, e} =>
        \A m \in Published(e) :
            LET once == Merged(tracker, e, m)
            IN  /\ Merged(once, e, m) = once
                /\ \A k \in Covered(e, m) : Known(once, k) >= m.revision
                /\ \A n \in Published(e) :
                       Merged(once, e, n) = Merged(Merged(tracker, e, n), e, m)

(* The tracker implements the abstract replica: what is shown only moves   *)
(* to later truths of the same run or to a later run.                      *)
ReplicaSpec == Replica!Spec
=============================================================================

---------------------------- MODULE AlarmTracker ----------------------------
(***************************************************************************)
(* AlarmTracker (domain/alarm_sync.rs): the merge of alarm deltas and      *)
(* alarm snapshots into one picture of the active alarms.                  *)
(*                                                                         *)
(* A collector run is identified by an epoch (a fresh uuid in the code, a  *)
(* run number here: only equality of epochs is ever used).  Within a run   *)
(* every alarm transition has the next revision, from 1.  A map of the     *)
(* code whose keys are (device_id, alarm_id) is a function on Keys with a  *)
(* value for "no entry": NoAlarm for an event, 0 for a revision.           *)
(***************************************************************************)
EXTENDS Integers

CONSTANTS
    Keys,      \* the (device_id, alarm_id) pairs
    Alarms,    \* the contents of a raised AlarmEvent
    NoAlarm    \* no active alarm; in an update, a cleared event

ASSUME NoAlarmAssumption == NoAlarm \notin Alarms

NoEpoch    == 0     \* epoch: None
NoRevision == -1    \* snapshot_revision: None (a snapshot may have revision 0)

EventValue == Alarms \cup {NoAlarm}
AlarmMap   == [Keys -> EventValue]

Updates   == [epoch : Nat \ {0}, revision : Nat \ {0}, key : Keys, alarm : EventValue]
Snapshots == [epoch : Nat \ {0}, revision : Nat, alarms : AlarmMap]

Trackers ==
    [epoch             : Nat,
     snapshot_revision : Nat \cup {NoRevision},
     revisions         : [Keys -> Nat],
     active            : AlarmMap]

\* AlarmTracker::default() with the epoch already set.
EmptyTracker(e) ==
    [epoch             |-> e,
     snapshot_revision |-> NoRevision,
     revisions         |-> [k \in Keys |-> 0],
     active            |-> [k \in Keys |-> NoAlarm]]

\* Mutant: a delta is compared with deltas of its alarm only, not with the snapshot.
UpdateAcceptedByKey(t, u) ==
    t.epoch \in {NoEpoch, u.epoch} /\ u.revision > t.revisions[u.key]

\* Mutant: one revision counter for all alarms, as if deltas came in order.
UpdateAcceptedInOrder(t, u) ==
    /\ t.epoch \in {NoEpoch, u.epoch}
    /\ u.revision > t.snapshot_revision
    /\ \A k \in Keys : u.revision > t.revisions[k]

\* apply_update returns true: no epoch yet or the tracker's own, later than
\* the last snapshot and later than the last delta of the same alarm.
UpdateAccepted(t, u) ==
    /\ t.epoch \in {NoEpoch, u.epoch}
    /\ u.revision > t.snapshot_revision
    /\ u.revision > t.revisions[u.key]

\* The tracker after apply_update.
ApplyUpdate(t, u) ==
    IF UpdateAccepted(t, u)
    THEN [epoch             |-> u.epoch,
          snapshot_revision |-> t.snapshot_revision,
          revisions         |-> [t.revisions EXCEPT ![u.key] = u.revision],
          active            |-> [t.active EXCEPT ![u.key] = u.alarm]]
    ELSE t

\* A snapshot of another epoch starts over.
Rebased(t, s) == IF t.epoch = s.epoch THEN t ELSE EmptyTracker(s.epoch)

\* Mutant: a snapshot one revision later is taken for a repeated one.
SnapshotAcceptedLate(t, s) == s.revision > Rebased(t, s).snapshot_revision + 1

SnapshotAccepted(t, s) == s.revision > Rebased(t, s).snapshot_revision

\* The deltas that survive a snapshot, tombstones of clears included.
RevisionsAfter(t, s) ==
    [k \in Keys |-> IF t.revisions[k] > s.revision THEN t.revisions[k] ELSE 0]

\* Mutant: the snapshot's alarms also replace those with later deltas.
ApplySnapshotWhole(t, s) ==
    LET base == Rebased(t, s)
    IN  IF SnapshotAccepted(t, s)
        THEN [epoch             |-> s.epoch,
              snapshot_revision |-> s.revision,
              revisions         |-> RevisionsAfter(base, s),
              active            |-> s.alarms]
        ELSE base

\* The tracker after apply_snapshot.
ApplySnapshot(t, s) ==
    LET base == Rebased(t, s)
        kept == RevisionsAfter(base, s)
    IN  IF SnapshotAccepted(t, s)
        THEN [epoch             |-> s.epoch,
              snapshot_revision |-> s.revision,
              revisions         |-> kept,
              active            |-> [k \in Keys |-> IF kept[k] > 0 THEN base.active[k]
                                                    ELSE s.alarms[k]]]
        ELSE base

\* The revision whose truth the tracker shows for alarm k.
Known(t, k) ==
    IF t.revisions[k] > 0 THEN t.revisions[k]
    ELSE IF t.snapshot_revision = NoRevision THEN 0 ELSE t.snapshot_revision
=============================================================================

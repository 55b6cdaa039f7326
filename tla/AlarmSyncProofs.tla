-------------------------- MODULE AlarmSyncProofs ---------------------------
(***************************************************************************)
(* Theorems about AlarmSync, for every set of alarms, every number of      *)
(* revisions and every number of collector runs: the tracker always shows  *)
(* truths, and it implements the abstract replica.                         *)
(***************************************************************************)
EXTENDS AlarmSync, TLAPS

-----------------------------------------------------------------------------
\* The log: its entries are total maps of alarms, and it only grows.

(* Every revision's alarms are a total map of alarms, the empty one at 0.  *)
LEMMA TruthType ==
    ASSUME NEW runs \in Seq(Seq(LogEntries)), NEW e \in 1 .. Len(runs),
           NEW r \in 0 .. Len(runs[e])
    PROVE  Truth(runs, e, r) \in AlarmMap
<1>1. CASE r = 0
    BY <1>1 DEF Truth, AlarmMap, EventValue
<1>2. CASE r # 0
    <2>1. runs[e][r] \in LogEntries
        BY <1>2
    <2>2. QED
        BY <1>2, <2>1 DEF Truth, LogEntries
<1>3. QED
    BY <1>1, <1>2

(* publish_alarm appends: earlier revisions keep their key and alarms, and *)
(* the log stays a log.                                                    *)
LEMMA ExtendedKeeps ==
    ASSUME NEW runs \in Seq(Seq(LogEntries)), runs # <<>>,
           NEW k \in Keys, NEW a \in EventValue
    PROVE  /\ Extended(runs, k, a) \in Seq(Seq(LogEntries))
           /\ Len(Extended(runs, k, a)) = Len(runs)
           /\ \A e \in 1 .. Len(runs) :
                 /\ Len(Extended(runs, k, a)[e]) >= Len(runs[e])
                 /\ \A r \in 1 .. Len(runs[e]) : Extended(runs, k, a)[e][r] = runs[e][r]
<1> DEFINE n == Len(runs)
           new == [key |-> k, view |-> [Truth(runs, n, Len(runs[n])) EXCEPT ![k] = a]]
<1>1. n \in 1 .. Len(runs) /\ runs[n] \in Seq(LogEntries)
    OBVIOUS
<1>2. Truth(runs, n, Len(runs[n])) \in AlarmMap
    BY <1>1, TruthType
<1>3. new \in LogEntries
    BY <1>2 DEF LogEntries, AlarmMap
<1>4. Append(runs[n], new) \in Seq(LogEntries)
    BY <1>1, <1>3
<1>5. Extended(runs, k, a) = [runs EXCEPT ![n] = Append(runs[n], new)]
    BY DEF Extended
<1> HIDE DEF new
<1>6. Extended(runs, k, a) \in Seq(Seq(LogEntries)) /\ Len(Extended(runs, k, a)) = Len(runs)
    BY <1>1, <1>4, <1>5
<1>7. ASSUME NEW e \in 1 .. Len(runs)
      PROVE  /\ Len(Extended(runs, k, a)[e]) >= Len(runs[e])
             /\ \A r \in 1 .. Len(runs[e]) : Extended(runs, k, a)[e][r] = runs[e][r]
    <2>1. CASE e = n
        BY <2>1, <1>1, <1>3, <1>5
    <2>2. CASE e # n
        BY <2>2, <1>1, <1>5
    <2>3. QED
        BY <2>1, <2>2
<1>8. QED
    BY <1>6, <1>7

-----------------------------------------------------------------------------
\* The messages of a log, and what applying one to a tracker gives.

(* What publish_alarm sends is an AlarmUpdate.                             *)
LEMMA UpdateType ==
    ASSUME NEW runs \in Seq(Seq(LogEntries)), NEW e \in 1 .. Len(runs),
           NEW r \in 1 .. Len(runs[e])
    PROVE  UpdateAt(runs, e, r) \in Updates
<1>1. runs[e][r] \in LogEntries
    OBVIOUS
<1>2. QED
    BY <1>1 DEF UpdateAt, Updates, LogEntries, AlarmMap, EventValue

(* What alarm_snapshot builds is an AlarmSnapshot.                         *)
LEMMA SnapshotType ==
    ASSUME NEW runs \in Seq(Seq(LogEntries)), NEW e \in 1 .. Len(runs),
           NEW r \in 0 .. Len(runs[e])
    PROVE  SnapshotAt(runs, e, r) \in Snapshots
BY TruthType DEF SnapshotAt, Snapshots

(* A tracker that starts over is a tracker.                                *)
LEMMA EmptyTrackerType ==
    ASSUME NEW e \in Nat
    PROVE  EmptyTracker(e) \in Trackers
BY DEF EmptyTracker, Trackers, AlarmMap, EventValue, NoRevision

(* apply_update yields a tracker; an accepted delta becomes what is known  *)
(* of its alarm and leaves the other alarms alone.                         *)
LEMMA ApplyUpdateEffect ==
    ASSUME NEW t \in Trackers, NEW u \in Updates, UpdateAccepted(t, u)
    PROVE  /\ ApplyUpdate(t, u) \in Trackers
           /\ ApplyUpdate(t, u).epoch = u.epoch
           /\ ApplyUpdate(t, u).snapshot_revision = t.snapshot_revision
           /\ ApplyUpdate(t, u).revisions = [t.revisions EXCEPT ![u.key] = u.revision]
           /\ ApplyUpdate(t, u).active = [t.active EXCEPT ![u.key] = u.alarm]
           /\ Known(ApplyUpdate(t, u), u.key) = u.revision
           /\ \A k \in Keys \ {u.key} : Known(ApplyUpdate(t, u), k) = Known(t, k)
           /\ u.revision > Known(t, u.key)
BY DEF ApplyUpdate, UpdateAccepted, Trackers, Updates, AlarmMap, EventValue, Known, NoRevision

(* An accepted snapshot keeps exactly the later deltas and replaces the    *)
(* rest by its own alarms.                                                 *)
LEMMA ApplySnapshotEffect ==
    ASSUME NEW t \in Trackers, NEW s \in Snapshots, SnapshotAccepted(t, s)
    PROVE  LET base == Rebased(t, s)
               after == ApplySnapshot(t, s)
           IN  /\ base \in Trackers
               /\ after \in Trackers
               /\ after.epoch = s.epoch
               /\ after.snapshot_revision = s.revision
               /\ \A k \in Keys :
                     \/ /\ base.revisions[k] > s.revision
                        /\ after.revisions[k] = base.revisions[k]
                        /\ after.active[k] = base.active[k]
                     \/ /\ base.revisions[k] <= s.revision
                        /\ after.revisions[k] = 0
                        /\ after.active[k] = s.alarms[k]
<1>1. Rebased(t, s) \in Trackers
    BY EmptyTrackerType DEF Rebased, Snapshots
<1>2. RevisionsAfter(Rebased(t, s), s) \in [Keys -> Nat]
    BY <1>1 DEF RevisionsAfter, Trackers
<1>3. ApplySnapshot(t, s) \in Trackers
    BY <1>1, <1>2 DEF ApplySnapshot, Trackers, Snapshots, AlarmMap
<1>4. QED
    BY <1>1, <1>2, <1>3 DEF ApplySnapshot, RevisionsAfter, Trackers, Snapshots, AlarmMap

-----------------------------------------------------------------------------

(* A new collector and a new tracker agree.                                *)
LEMMA InitIInv == Init => IInv
<1> SUFFICES ASSUME Init PROVE IInv
    OBVIOUS
<1>1. TypeOK
    BY EmptyTrackerType DEF Init, TypeOK, NoEpoch
<1>2. TrackerOrdered /\ TrackerExact
    BY DEF Init, TrackerOrdered, TrackerExact, EmptyTracker, NoEpoch
<1>3. QED
    BY <1>1, <1>2 DEF IInv

(* A step that only lengthens the log keeps the invariant.                 *)
LEMMA GrowIInv ==
    ASSUME IInv, UNCHANGED tracker,
           log' \in Seq(Seq(LogEntries)), Len(log') >= Len(log),
           \A e \in 1 .. Len(log) :
              /\ Len(log'[e]) >= Len(log[e])
              /\ \A r \in 1 .. Len(log[e]) : log'[e][r] = log[e][r]
    PROVE  IInv'
<1> USE DEF IInv
<1>1. TypeOK'
    BY DEF TypeOK
<1>2. TrackerOrdered'
    BY DEF TrackerOrdered
<1>3. TrackerExact'
    <2>1. SUFFICES ASSUME tracker.epoch # NoEpoch
                   PROVE  TrackerExact'
        BY DEF TrackerExact
    <2>2. tracker.epoch \in 1 .. Len(log)
        BY <2>1 DEF TrackerExact
    <2> DEFINE e == tracker.epoch
    <2>3. /\ Len(log[e]) \in Nat /\ Len(log'[e]) \in Nat
          /\ Len(log'[e]) >= Len(log[e])
          /\ \A r \in 1 .. Len(log[e]) : log'[e][r] = log[e][r]
        <3>1. log \in Seq(Seq(LogEntries))
            BY DEF TypeOK
        <3>2. Len(log) \in Nat /\ Len(log') \in Nat
            BY <3>1
        <3>3. e \in 1 .. Len(log) /\ e \in 1 .. Len(log')
            BY <2>2, <3>2
        <3>4. log[e] \in Seq(LogEntries) /\ log'[e] \in Seq(LogEntries)
            BY <3>1, <3>3
        <3>5. QED
            BY <3>3, <3>4
    <2>4. \A r \in 0 .. Len(log[e]) : Truth(log', e, r) = Truth(log, e, r)
        BY <2>3 DEF Truth
    <2>5. e \in 1 .. Len(log') /\ tracker' = tracker
        BY <2>2
    <2> HIDE DEF e
    <2>6. ASSUME NEW k \in Keys
          PROVE  /\ Known(tracker, k) \in 0 .. Len(log'[e])
                 /\ tracker.active[k] = Truth(log', e, Known(tracker, k))[k]
        <3>1. /\ Known(tracker, k) \in 0 .. Len(log[e])
              /\ tracker.active[k] = Truth(log, e, Known(tracker, k))[k]
            BY <2>1 DEF TrackerExact, e
        <3>2. QED
            BY <3>1, <2>3, <2>4
    <2>7. QED
        BY <2>5, <2>6 DEF TrackerExact, e
<1>4. QED
    BY <1>1, <1>2, <1>3

(* A transition published changes no truth the tracker already shows.      *)
LEMMA PublishIInv ==
    ASSUME IInv, NEW k \in Keys, NEW a \in EventValue, Publish(k, a)
    PROVE  IInv'
<1>1. /\ log' = Extended(log, k, a)
      /\ UNCHANGED tracker
    BY DEF Publish
<1>2. log \in Seq(Seq(LogEntries)) /\ log # <<>>
    BY DEF IInv, TypeOK
<1>3. QED
    BY <1>1, <1>2, ExtendedKeeps, GrowIInv

(* A new collector run changes no truth of the runs before it.             *)
LEMMA RestartIInv ==
    ASSUME IInv, Restart
    PROVE  IInv'
<1>1. log \in Seq(Seq(LogEntries)) /\ log # <<>>
    BY DEF IInv, TypeOK
<1>2. <<>> \in Seq(LogEntries)
    OBVIOUS
<1>3. /\ log' \in Seq(Seq(LogEntries))
      /\ Len(log') = Len(log) + 1
      /\ \A e \in 1 .. Len(log) : log'[e] = log[e]
    BY <1>1, <1>2 DEF Restart
<1>4. QED
    BY <1>1, <1>3, GrowIInv DEF Restart

(* An update, however late or often it is delivered, is either refused or  *)
(* makes its own alarm the truth of its own revision.                      *)
LEMMA DeliverUpdateIInv ==
    ASSUME IInv, NEW e \in 1 .. Len(log), NEW r \in 1 .. Len(log[e]), DeliverUpdate(e, r)
    PROVE  IInv'
<1> DEFINE u == UpdateAt(log, e, r)
<1>0. TypeOK /\ TrackerOrdered /\ TrackerExact
    BY DEF IInv
<1>1. u \in Updates /\ u.epoch = e /\ u.revision = r
    BY <1>0, UpdateType DEF TypeOK, UpdateAt
<1>2. u.alarm = Truth(log, e, r)[u.key]
    BY DEF UpdateAt, Truth
<1>3. tracker' = ApplyUpdate(tracker, u) /\ log' = log
    BY DEF DeliverUpdate
<1>4. CASE ~UpdateAccepted(tracker, u)
    <2>1. tracker' = tracker
        BY <1>3, <1>4 DEF ApplyUpdate
    <2>2. QED
        BY <2>1, <1>3 DEF IInv, TypeOK, TrackerOrdered, TrackerExact
<1>5. CASE UpdateAccepted(tracker, u)
    <2> HIDE DEF u
    <2>1. /\ tracker' \in Trackers
          /\ tracker'.epoch = e
          /\ tracker'.snapshot_revision = tracker.snapshot_revision
          /\ tracker'.revisions = [tracker.revisions EXCEPT ![u.key] = r]
          /\ tracker'.active = [tracker.active EXCEPT ![u.key] = u.alarm]
          /\ Known(tracker', u.key) = r
          /\ \A k \in Keys \ {u.key} : Known(tracker', k) = Known(tracker, k)
        BY <1>0, <1>1, <1>3, <1>5, ApplyUpdateEffect DEF TypeOK
    <2>2. /\ tracker.revisions \in [Keys -> Nat]
          /\ tracker.active \in [Keys -> EventValue]
          /\ u.key \in Keys
          /\ e \in Nat \ {0} /\ r \in Nat \ {0}
          /\ r > tracker.snapshot_revision
        BY <1>0, <1>1, <1>5 DEF TypeOK, Trackers, AlarmMap, Updates, UpdateAccepted
    <2>3. TypeOK'
        BY <1>0, <1>3, <2>1 DEF TypeOK
    <2>4. TrackerOrdered'
        BY <1>0, <2>1, <2>2 DEF TrackerOrdered, NoEpoch
    <2>5. TrackerExact'
        <3>1. SUFFICES ASSUME NEW k \in Keys
                       PROVE  /\ Known(tracker', k) \in 0 .. Len(log[e])
                              /\ tracker'.active[k] = Truth(log, e, Known(tracker', k))[k]
            BY <1>3, <2>1 DEF TrackerExact
        <3>2. CASE k = u.key
            BY <3>2, <1>2, <2>1, <2>2
        <3>3. CASE k # u.key
            <4>1. /\ Known(tracker', k) = Known(tracker, k)
                  /\ tracker'.active[k] = tracker.active[k]
                BY <3>3, <2>1, <2>2
            <4>2. CASE tracker.epoch = NoEpoch
                <5>1. tracker.active[k] = NoAlarm /\ Known(tracker, k) = 0
                    BY <4>2, <1>0 DEF TrackerOrdered, EmptyTracker, Known
                <5>2. QED
                    BY <4>1, <5>1 DEF Truth
            <4>3. CASE tracker.epoch # NoEpoch
                BY <4>1, <4>3, <1>0, <1>1, <1>5 DEF TrackerExact, UpdateAccepted
            <4>4. QED
                BY <4>2, <4>3
        <3>4. QED
            BY <3>2, <3>3
    <2>6. QED
        BY <2>3, <2>4, <2>5 DEF IInv
<1>6. QED
    BY <1>4, <1>5

(* A snapshot replaces every alarm but those with a later delta, whose     *)
(* truth the tracker keeps.                                                *)
LEMMA DeliverSnapshotIInv ==
    ASSUME IInv, NEW e \in 1 .. Len(log), NEW r \in 0 .. Len(log[e]), DeliverSnapshot(e, r)
    PROVE  IInv'
<1> DEFINE s == SnapshotAt(log, e, r)
           base == Rebased(tracker, s)
<1>0. TypeOK /\ TrackerOrdered /\ TrackerExact
    BY DEF IInv
<1>1. s \in Snapshots /\ s.epoch = e /\ s.revision = r /\ s.alarms = Truth(log, e, r)
    BY <1>0, SnapshotType DEF TypeOK, SnapshotAt
<1>2. tracker' = ApplySnapshot(tracker, s) /\ log' = log
    BY DEF DeliverSnapshot
<1>3. e \in Nat \ {0} /\ r \in Nat
    BY <1>0 DEF TypeOK
<1> HIDE DEF s
<1>4. base = IF tracker.epoch = e THEN tracker ELSE EmptyTracker(e)
    BY <1>1 DEF Rebased
<1>5. base \in Trackers /\ base.epoch = e
    <2>1. EmptyTracker(e) \in Trackers /\ EmptyTracker(e).epoch = e
        BY <1>3, EmptyTrackerType DEF EmptyTracker
    <2>2. QED
        BY <1>0, <1>4, <2>1 DEF TypeOK
\* The tracker the snapshot is merged into is ordered and exact for run e.
<1>6. ASSUME NEW k \in Keys
      PROVE  /\ base.revisions[k] > 0 => base.revisions[k] > base.snapshot_revision
             /\ Known(base, k) \in 0 .. Len(log[e])
             /\ base.active[k] = Truth(log, e, Known(base, k))[k]
    <2>1. CASE tracker.epoch = e
        BY <2>1, <1>0, <1>3, <1>4 DEF TrackerOrdered, TrackerExact, NoEpoch
    <2>2. CASE tracker.epoch # e
        <3>1. /\ base.revisions[k] = 0 /\ base.active[k] = NoAlarm /\ Known(base, k) = 0
            BY <2>2, <1>4 DEF EmptyTracker, Known
        <3>2. QED
            BY <3>1, <1>0 DEF Truth, TypeOK
    <2>3. QED
        BY <2>1, <2>2
<1>7. CASE ~SnapshotAccepted(tracker, s)
    <2>1. tracker' = base
        BY <1>2, <1>7 DEF ApplySnapshot
    <2>2. TypeOK'
        BY <1>0, <1>2, <1>5, <2>1 DEF TypeOK
    <2>3. TrackerOrdered'
        BY <1>3, <1>5, <1>6, <2>1 DEF TrackerOrdered, NoEpoch
    <2>4. TrackerExact'
        BY <1>2, <1>5, <1>6, <2>1 DEF TrackerExact
    <2>5. QED
        BY <2>2, <2>3, <2>4 DEF IInv
<1>8. CASE SnapshotAccepted(tracker, s)
    <2>1. /\ tracker' \in Trackers
          /\ tracker'.epoch = e
          /\ tracker'.snapshot_revision = r
          /\ \A k \in Keys :
                \/ /\ base.revisions[k] > r
                   /\ tracker'.revisions[k] = base.revisions[k]
                   /\ tracker'.active[k] = base.active[k]
                \/ /\ base.revisions[k] <= r
                   /\ tracker'.revisions[k] = 0
                   /\ tracker'.active[k] = Truth(log, e, r)[k]
        BY <1>0, <1>1, <1>2, <1>8, ApplySnapshotEffect DEF TypeOK
    <2>2. base.revisions \in [Keys -> Nat]
        BY <1>5 DEF Trackers
    <2> HIDE DEF base
    <2>3. TypeOK'
        BY <1>0, <1>2, <2>1 DEF TypeOK
    <2>4. TrackerOrdered'
        BY <1>3, <2>1, <2>2 DEF TrackerOrdered, NoEpoch
    <2>5. TrackerExact'
        <3>1. SUFFICES ASSUME NEW k \in Keys
                       PROVE  /\ Known(tracker', k) \in 0 .. Len(log[e])
                              /\ tracker'.active[k] = Truth(log, e, Known(tracker', k))[k]
            BY <1>2, <2>1 DEF TrackerExact
        <3>2. CASE base.revisions[k] > r
            <4>1. /\ tracker'.revisions[k] = base.revisions[k]
                  /\ tracker'.active[k] = base.active[k]
                  /\ base.revisions[k] > 0
                BY <3>2, <1>3, <2>1, <2>2
            <4>2. Known(tracker', k) = Known(base, k)
                BY <4>1 DEF Known
            <4>3. QED
                BY <4>1, <4>2, <1>6
        <3>3. CASE base.revisions[k] <= r
            <4>1. tracker'.revisions[k] = 0 /\ tracker'.active[k] = Truth(log, e, r)[k]
                BY <3>3, <1>3, <2>1, <2>2
            <4>2. Known(tracker', k) = r
                BY <4>1, <2>1, <1>3 DEF Known, NoRevision
            <4>3. QED
                BY <4>1, <4>2
        <3>4. QED
            BY <3>2, <3>3, <1>3, <2>2
    <2>6. QED
        BY <2>3, <2>4, <2>5 DEF IInv
<1>9. QED
    BY <1>7, <1>8

(* Every step of the protocol keeps the invariant.                         *)
LEMMA NextIInv == IInv /\ [Next]_vars => IInv'
<1> SUFFICES ASSUME IInv, [Next]_vars PROVE IInv'
    OBVIOUS
<1>1. ASSUME NEW k \in Keys, NEW a \in EventValue, Publish(k, a) PROVE IInv'
    BY <1>1, PublishIInv
<1>2. CASE Restart
    BY <1>2, RestartIInv
<1>3. ASSUME NEW e \in 1 .. Len(log), NEW r \in 1 .. Len(log[e]), DeliverUpdate(e, r)
      PROVE  IInv'
    BY <1>3, DeliverUpdateIInv
<1>4. ASSUME NEW e \in 1 .. Len(log), NEW r \in 0 .. Len(log[e]), DeliverSnapshot(e, r)
      PROVE  IInv'
    BY <1>4, DeliverSnapshotIInv
<1>5. CASE UNCHANGED vars
    BY <1>5 DEF vars, IInv, TypeOK, TrackerOrdered, TrackerExact
<1>6. QED
    BY <1>1, <1>2, <1>3, <1>4, <1>5 DEF Next

(* IInv is an invariant of the protocol.                                   *)
LEMMA AlwaysIInv == Spec => []IInv
BY InitIInv, NextIInv, PTL DEF Spec

-----------------------------------------------------------------------------

(* Whatever is lost, repeated, delayed or overtaken between the collector  *)
(* and the tracker, what apply_update and apply_snapshot leave as active   *)
(* is, alarm by alarm, the truth of one revision of one collector run.     *)
THEOREM AlwaysExact == Spec => []TrackerExact
<1>1. IInv => TrackerExact
    BY DEF IInv
<1>2. QED
    BY <1>1, AlwaysIInv, PTL

-----------------------------------------------------------------------------
\* Two messages of the run a tracker follows commute.

(* Trackers are equal when they agree alarm by alarm.                      *)
LEMMA SameTracker ==
    ASSUME NEW t \in Trackers, NEW v \in Trackers, t.epoch = v.epoch,
           t.snapshot_revision = v.snapshot_revision,
           \A k \in Keys : t.revisions[k] = v.revisions[k] /\ t.active[k] = v.active[k]
    PROVE  t = v
<1>1. t.revisions \in [Keys -> Nat] /\ v.revisions \in [Keys -> Nat]
    BY DEF Trackers
<1>2. t.active \in [Keys -> EventValue] /\ v.active \in [Keys -> EventValue]
    BY DEF Trackers, AlarmMap
<1>3. t.revisions = v.revisions /\ t.active = v.active
    BY <1>1, <1>2
<1>4. QED
    BY <1>3 DEF Trackers

\* after is t with delta u of its run merged, alarm by alarm.
MergesUpdate(t, u, after) ==
    /\ after \in Trackers
    /\ after.epoch = t.epoch
    /\ after.snapshot_revision = t.snapshot_revision
    /\ \A k \in Keys :
          \/ /\ k = u.key
             /\ u.revision > t.snapshot_revision
             /\ u.revision > t.revisions[k]
             /\ after.revisions[k] = u.revision
             /\ after.active[k] = u.alarm
          \/ /\ \/ k # u.key
                \/ u.revision <= t.snapshot_revision
                \/ u.revision <= t.revisions[k]
             /\ after.revisions[k] = t.revisions[k]
             /\ after.active[k] = t.active[k]

\* after is t with snapshot s of its run merged, alarm by alarm.
MergesSnapshot(t, s, after) ==
    /\ after \in Trackers
    /\ after.epoch = t.epoch
    /\ \/ s.revision <= t.snapshot_revision /\ after = t
       \/ /\ s.revision > t.snapshot_revision
          /\ after.snapshot_revision = s.revision
          /\ \A k \in Keys :
                \/ /\ t.revisions[k] > s.revision
                   /\ after.revisions[k] = t.revisions[k]
                   /\ after.active[k] = t.active[k]
                \/ /\ t.revisions[k] <= s.revision
                   /\ after.revisions[k] = 0
                   /\ after.active[k] = s.alarms[k]

(* apply_update merges a delta of the tracker's own run.                   *)
LEMMA UpdateMerge ==
    ASSUME NEW t \in Trackers, NEW u \in Updates, t.epoch = u.epoch
    PROVE  MergesUpdate(t, u, ApplyUpdate(t, u))
<1>1. /\ t.snapshot_revision \in Nat \cup {NoRevision}
      /\ t.revisions \in [Keys -> Nat] /\ t.active \in [Keys -> EventValue]
      /\ u.revision \in Nat /\ u.key \in Keys
    BY DEF Trackers, Updates, AlarmMap
<1>2. CASE UpdateAccepted(t, u)
    <2>1. u.revision > t.snapshot_revision /\ u.revision > t.revisions[u.key]
        BY <1>2 DEF UpdateAccepted
    <2>2. QED
        BY <1>1, <1>2, <2>1, ApplyUpdateEffect DEF MergesUpdate
<1>3. CASE ~UpdateAccepted(t, u)
    <2>1. u.revision <= t.snapshot_revision \/ u.revision <= t.revisions[u.key]
        BY <1>1, <1>3 DEF UpdateAccepted, NoRevision
    <2>2. QED
        BY <1>1, <1>3, <2>1 DEF ApplyUpdate, MergesUpdate
<1>4. QED
    BY <1>2, <1>3

(* apply_snapshot merges a snapshot of the tracker's own run.              *)
LEMMA SnapshotMerge ==
    ASSUME NEW t \in Trackers, NEW s \in Snapshots, t.epoch = s.epoch
    PROVE  MergesSnapshot(t, s, ApplySnapshot(t, s))
<1>1. Rebased(t, s) = t
    BY DEF Rebased
<1>2. t.snapshot_revision \in Nat \cup {NoRevision} /\ s.revision \in Nat
    BY DEF Trackers, Snapshots
<1>3. CASE SnapshotAccepted(t, s)
    <2>1. s.revision > t.snapshot_revision
        BY <1>1, <1>3 DEF SnapshotAccepted
    <2>2. QED
        BY <1>1, <1>3, <2>1, ApplySnapshotEffect DEF MergesSnapshot
<1>4. CASE ~SnapshotAccepted(t, s)
    <2>1. s.revision <= t.snapshot_revision
        BY <1>1, <1>2, <1>4 DEF SnapshotAccepted, NoRevision
    <2>2. QED
        BY <1>1, <1>4, <2>1 DEF ApplySnapshot, MergesSnapshot
<1>5. QED
    BY <1>3, <1>4

(* A tracker that has seen nothing takes its first message as one that     *)
(* starts over with the run of the message.                                *)
LEMMA FirstMessage ==
    ASSUME NEW e \in Nat \ {0}
    PROVE  /\ \A u \in Updates : u.epoch = e =>
                 ApplyUpdate(EmptyTracker(NoEpoch), u) = ApplyUpdate(EmptyTracker(e), u)
           /\ \A s \in Snapshots : s.epoch = e =>
                 ApplySnapshot(EmptyTracker(NoEpoch), s) = ApplySnapshot(EmptyTracker(e), s)
<1>1. ASSUME NEW u \in Updates, u.epoch = e
      PROVE  ApplyUpdate(EmptyTracker(NoEpoch), u) = ApplyUpdate(EmptyTracker(e), u)
    <2>1. u.revision \in Nat \ {0} /\ u.key \in Keys
        BY DEF Updates
    <2>2. UpdateAccepted(EmptyTracker(NoEpoch), u) /\ UpdateAccepted(EmptyTracker(e), u)
        BY <1>1, <2>1 DEF UpdateAccepted, EmptyTracker, NoEpoch, NoRevision
    <2>3. QED
        BY <2>2 DEF ApplyUpdate, EmptyTracker
<1>2. ASSUME NEW s \in Snapshots, s.epoch = e
      PROVE  ApplySnapshot(EmptyTracker(NoEpoch), s) = ApplySnapshot(EmptyTracker(e), s)
    <2>1. /\ Rebased(EmptyTracker(NoEpoch), s) = EmptyTracker(e)
          /\ Rebased(EmptyTracker(e), s) = EmptyTracker(e)
        BY <1>2 DEF Rebased, EmptyTracker, NoEpoch
    <2>2. QED
        BY <2>1 DEF ApplySnapshot, SnapshotAccepted
<1>3. QED
    BY <1>1, <1>2

(* A repeated delta is refused.                                            *)
LEMMA UpdateTwice ==
    ASSUME NEW t \in Trackers, NEW u \in Updates, t.epoch = u.epoch
    PROVE  ApplyUpdate(ApplyUpdate(t, u), u) = ApplyUpdate(t, u)
<1>1. u.key \in Keys /\ u.revision \in Nat /\ t.revisions \in [Keys -> Nat]
    BY DEF Updates, Trackers
<1>2. CASE UpdateAccepted(t, u)
    <2>1. ApplyUpdate(t, u).revisions[u.key] = u.revision
        BY <1>1, <1>2, ApplyUpdateEffect
    <2>2. ~UpdateAccepted(ApplyUpdate(t, u), u)
        BY <1>1, <2>1 DEF UpdateAccepted
    <2>3. QED
        BY <2>2 DEF ApplyUpdate
<1>3. CASE ~UpdateAccepted(t, u)
    BY <1>3 DEF ApplyUpdate
<1>4. QED
    BY <1>2, <1>3

(* A repeated snapshot is refused.                                         *)
LEMMA SnapshotTwice ==
    ASSUME NEW t \in Trackers, NEW s \in Snapshots, t.epoch = s.epoch
    PROVE  ApplySnapshot(ApplySnapshot(t, s), s) = ApplySnapshot(t, s)
<1>1. s.revision \in Nat
    BY DEF Snapshots
<1>2. /\ ApplySnapshot(t, s) \in Trackers
      /\ ApplySnapshot(t, s).epoch = s.epoch
      /\ s.revision <= ApplySnapshot(t, s).snapshot_revision
    BY <1>1, SnapshotMerge DEF MergesSnapshot
<1>3. MergesSnapshot(ApplySnapshot(t, s), s, ApplySnapshot(ApplySnapshot(t, s), s))
    BY <1>2, SnapshotMerge
<1>4. ApplySnapshot(t, s).snapshot_revision \in Nat \cup {NoRevision}
    BY <1>2 DEF Trackers
<1>5. QED
    BY <1>1, <1>2, <1>3, <1>4 DEF MergesSnapshot, NoRevision

(* Two deltas of one run, of which those with one revision are the same,   *)
(* merge in either order to the same tracker.                              *)
LEMMA UpdatesCommute ==
    ASSUME NEW t \in Trackers, NEW u \in Updates, NEW v \in Updates,
           u.revision = v.revision => u = v,
           NEW tu, NEW tv, NEW tuv, NEW tvu,
           MergesUpdate(t, u, tu), MergesUpdate(tu, v, tuv),
           MergesUpdate(t, v, tv), MergesUpdate(tv, u, tvu)
    PROVE  tuv = tvu
<1>1. /\ t.snapshot_revision \in Nat \cup {NoRevision}
      /\ \A k \in Keys : t.revisions[k] \in Nat
      /\ u.revision \in Nat /\ v.revision \in Nat
    BY DEF Trackers, Updates
<1>2. ASSUME NEW k \in Keys
      PROVE  tuv.revisions[k] = tvu.revisions[k] /\ tuv.active[k] = tvu.active[k]
    BY <1>1 DEF MergesUpdate, NoRevision
<1>3. /\ tuv \in Trackers /\ tvu \in Trackers
      /\ tuv.epoch = tvu.epoch /\ tuv.snapshot_revision = tvu.snapshot_revision
    BY DEF MergesUpdate
<1>4. QED
    BY <1>2, <1>3, SameTracker

(* Two snapshots of one run, of which those with one revision are the      *)
(* same, merge in either order to the same tracker.                        *)
LEMMA SnapshotsCommute ==
    ASSUME NEW t \in Trackers, NEW s \in Snapshots, NEW z \in Snapshots,
           s.revision = z.revision => s = z,
           NEW ts, NEW tz, NEW tsz, NEW tzs,
           MergesSnapshot(t, s, ts), MergesSnapshot(ts, z, tsz),
           MergesSnapshot(t, z, tz), MergesSnapshot(tz, s, tzs)
    PROVE  tsz = tzs
<1>1. /\ t.snapshot_revision \in Nat \cup {NoRevision}
      /\ \A k \in Keys : t.revisions[k] \in Nat
      /\ s.revision \in Nat /\ z.revision \in Nat
    BY DEF Trackers, Snapshots
<1>2. ASSUME NEW k \in Keys
      PROVE  tsz.revisions[k] = tzs.revisions[k] /\ tsz.active[k] = tzs.active[k]
    BY <1>1 DEF MergesSnapshot, NoRevision
<1>3. /\ tsz \in Trackers /\ tzs \in Trackers
      /\ tsz.epoch = tzs.epoch /\ tsz.snapshot_revision = tzs.snapshot_revision
    BY <1>1 DEF MergesSnapshot, NoRevision
<1>4. QED
    BY <1>2, <1>3, SameTracker

(* A delta and a snapshot of one run merge in either order to the same     *)
(* tracker: the snapshot drops what the late delta would be refused for.   *)
LEMMA UpdateSnapshotCommute ==
    ASSUME NEW t \in Trackers, NEW u \in Updates, NEW s \in Snapshots,
           NEW tu, NEW ts, NEW tus, NEW tsu,
           MergesUpdate(t, u, tu), MergesSnapshot(tu, s, tus),
           MergesSnapshot(t, s, ts), MergesUpdate(ts, u, tsu)
    PROVE  tus = tsu
<1>1. /\ t.snapshot_revision \in Nat \cup {NoRevision}
      /\ \A k \in Keys : t.revisions[k] \in Nat
      /\ u.revision \in Nat /\ s.revision \in Nat
    BY DEF Trackers, Updates, Snapshots
<1>2. ASSUME NEW k \in Keys
      PROVE  tus.revisions[k] = tsu.revisions[k] /\ tus.active[k] = tsu.active[k]
    BY <1>1 DEF MergesUpdate, MergesSnapshot, NoRevision
<1>3. /\ tus \in Trackers /\ tsu \in Trackers
      /\ tus.epoch = tsu.epoch /\ tus.snapshot_revision = tsu.snapshot_revision
    BY <1>1 DEF MergesUpdate, MergesSnapshot, NoRevision
<1>4. QED
    BY <1>2, <1>3, SameTracker

(* What an ordered tracker knows of an alarm after a message that tells of *)
(* it is at least the message's revision.                                  *)
LEMMA MessageCounts ==
    ASSUME NEW t \in Trackers,
           \A k \in Keys : t.revisions[k] > 0 => t.revisions[k] > t.snapshot_revision
    PROVE  /\ \A u \in Updates : t.epoch = u.epoch =>
                 Known(ApplyUpdate(t, u), u.key) >= u.revision
           /\ \A s \in Snapshots : t.epoch = s.epoch =>
                 \A k \in Keys : Known(ApplySnapshot(t, s), k) >= s.revision
<1>1. /\ t.snapshot_revision \in Nat \cup {NoRevision}
      /\ \A k \in Keys : t.revisions[k] \in Nat
    BY DEF Trackers
<1>2. ASSUME NEW u \in Updates, t.epoch = u.epoch
      PROVE  Known(ApplyUpdate(t, u), u.key) >= u.revision
    <2>1. u.key \in Keys /\ u.revision \in Nat \ {0}
        BY DEF Updates
    <2>2. \/ /\ u.revision > t.snapshot_revision
             /\ u.revision > t.revisions[u.key]
             /\ ApplyUpdate(t, u).revisions[u.key] = u.revision
          \/ /\ \/ u.revision <= t.snapshot_revision
                \/ u.revision <= t.revisions[u.key]
             /\ ApplyUpdate(t, u).revisions[u.key] = t.revisions[u.key]
        BY <1>2, <2>1, UpdateMerge DEF MergesUpdate
    <2>3. ApplyUpdate(t, u).snapshot_revision = t.snapshot_revision
        BY <1>2, UpdateMerge DEF MergesUpdate
    <2>4. QED
        BY <1>1, <2>1, <2>2, <2>3 DEF Known, NoRevision
<1>3. ASSUME NEW s \in Snapshots, t.epoch = s.epoch, NEW k \in Keys
      PROVE  Known(ApplySnapshot(t, s), k) >= s.revision
    <2>1. s.revision \in Nat
        BY DEF Snapshots
    <2>2. \/ s.revision <= t.snapshot_revision /\ ApplySnapshot(t, s) = t
          \/ /\ ApplySnapshot(t, s).snapshot_revision = s.revision
             /\ \/ /\ t.revisions[k] > s.revision
                   /\ ApplySnapshot(t, s).revisions[k] = t.revisions[k]
                \/ ApplySnapshot(t, s).revisions[k] = 0
        BY <1>3, SnapshotMerge DEF MergesSnapshot
    <2>3. QED
        BY <1>1, <2>1, <2>2 DEF Known, NoRevision
<1>4. QED
    BY <1>2, <1>3

(* Within a run, the order and the repetition of deltas and snapshots make *)
(* no difference to the tracker, and each message counts.                  *)
THEOREM OrderNeverMatters == Spec => []OrderIrrelevant
<1>1. IInv => OrderIrrelevant
    <2> SUFFICES ASSUME IInv, NEW e \in 1 .. Len(log), tracker.epoch \in {NoEpoch, e},
                        NEW m \in Published(e)
                 PROVE  LET once == Merged(tracker, e, m)
                        IN  /\ Merged(once, e, m) = once
                            /\ \A k \in Covered(e, m) : Known(once, k) >= m.revision
                            /\ \A n \in Published(e) :
                                   Merged(once, e, n) = Merged(Merged(tracker, e, n), e, m)
        BY DEF OrderIrrelevant
    <2> DEFINE t == IF tracker.epoch = e THEN tracker ELSE EmptyTracker(e)
    <2>1. /\ log \in Seq(Seq(LogEntries)) /\ tracker \in Trackers /\ TrackerOrdered
          /\ e \in Nat \ {0}
        BY DEF IInv, TypeOK
    <2>2. /\ t \in Trackers /\ t.epoch = e
          /\ \A k \in Keys : t.revisions[k] > 0 => t.revisions[k] > t.snapshot_revision
        <3>1. EmptyTracker(e) \in Trackers
            BY <2>1, EmptyTrackerType
        <3>2. QED
            BY <2>1, <3>1 DEF TrackerOrdered, EmptyTracker
    \* A message is a delta or a snapshot of run e, told apart by its kind.
    <2>3. ASSUME NEW n \in Published(e)
          PROVE  \/ /\ n.kind = "update"
                    /\ UpdateAt(log, e, n.revision) \in Updates
                    /\ UpdateAt(log, e, n.revision).epoch = e
                    /\ UpdateAt(log, e, n.revision).revision = n.revision
                    /\ Covered(e, n) = {UpdateAt(log, e, n.revision).key}
                    /\ \A v : Merged(v, e, n) = ApplyUpdate(v, UpdateAt(log, e, n.revision))
                 \/ /\ n.kind # "update"
                    /\ SnapshotAt(log, e, n.revision) \in Snapshots
                    /\ SnapshotAt(log, e, n.revision).epoch = e
                    /\ SnapshotAt(log, e, n.revision).revision = n.revision
                    /\ Covered(e, n) = Keys
                    /\ \A v : Merged(v, e, n) = ApplySnapshot(v, SnapshotAt(log, e, n.revision))
        <3>1. CASE n.kind = "update"
            <4>1. n.revision \in 1 .. Len(log[e])
                BY <3>1 DEF Published
            <4>2. UpdateAt(log, e, n.revision) \in Updates
                BY <2>1, <4>1, UpdateType
            <4>3. QED
                BY <3>1, <4>2 DEF Merged, Covered, UpdateAt
        <3>2. CASE n.kind # "update"
            <4>1. n.revision \in 0 .. Len(log[e])
                BY <3>2 DEF Published
            <4>2. SnapshotAt(log, e, n.revision) \in Snapshots
                BY <2>1, <4>1, SnapshotType
            <4>3. QED
                BY <3>2, <4>2 DEF Merged, Covered, SnapshotAt
        <3>3. QED
            BY <3>1, <3>2
    <2>4. ASSUME NEW n \in Published(e)
          PROVE  Merged(tracker, e, n) = Merged(t, e, n)
        <3>1. CASE tracker.epoch = e
            BY <3>1
        <3>2. CASE tracker.epoch # e
            <4>1. tracker = EmptyTracker(NoEpoch) /\ t = EmptyTracker(e)
                BY <2>1, <3>2 DEF TrackerOrdered
            <4>2. QED
                BY <2>1, <2>3, <4>1, FirstMessage
        <3>3. QED
            BY <3>1, <3>2
    <2> HIDE DEF t
    <2>5. ASSUME NEW n \in Published(e)
          PROVE  Merged(Merged(t, e, m), e, n) = Merged(Merged(t, e, n), e, m)
        <3> DEFINE U(x) == UpdateAt(log, e, x.revision)
                   S(x) == SnapshotAt(log, e, x.revision)
                   IsUpdate(x) == /\ U(x) \in Updates
                                  /\ \A v \in Trackers : v.epoch = e =>
                                        MergesUpdate(v, U(x), Merged(v, e, x))
                   IsSnapshot(x) == /\ S(x) \in Snapshots
                                    /\ \A v \in Trackers : v.epoch = e =>
                                          MergesSnapshot(v, S(x), Merged(v, e, x))
        <3>1. ASSUME NEW x \in Published(e)
              PROVE  /\ x.kind = "update" => IsUpdate(x) /\ U(x).revision = x.revision
                     /\ x.kind # "update" => IsSnapshot(x) /\ S(x).revision = x.revision
            BY <2>3, UpdateMerge, SnapshotMerge
        <3>2. m.revision = n.revision => U(m) = U(n) /\ S(m) = S(n)
            OBVIOUS
        <3> HIDE DEF U, S
        <3>3. ASSUME NEW x \in Published(e)
              PROVE  Merged(t, e, x) \in Trackers /\ Merged(t, e, x).epoch = e
            BY <2>2, <3>1 DEF MergesUpdate, MergesSnapshot
        <3>4. CASE m.kind = "update" /\ n.kind = "update"
            BY <2>2, <3>1, <3>2, <3>3, <3>4, UpdatesCommute
        <3>5. CASE m.kind = "update" /\ n.kind # "update"
            BY <2>2, <3>1, <3>3, <3>5, UpdateSnapshotCommute
        <3>6. CASE m.kind # "update" /\ n.kind = "update"
            BY <2>2, <3>1, <3>3, <3>6, UpdateSnapshotCommute
        <3>7. CASE m.kind # "update" /\ n.kind # "update"
            BY <2>2, <3>1, <3>2, <3>3, <3>7, SnapshotsCommute
        <3>8. QED
            BY <3>4, <3>5, <3>6, <3>7
    <2>6. Merged(Merged(t, e, m), e, m) = Merged(t, e, m)
        <3>1. CASE m.kind = "update"
            <4> DEFINE u == UpdateAt(log, e, m.revision)
            <4>1. u \in Updates /\ u.epoch = e /\ \A v : Merged(v, e, m) = ApplyUpdate(v, u)
                BY <2>3, <3>1
            <4> HIDE DEF u
            <4>2. ApplyUpdate(ApplyUpdate(t, u), u) = ApplyUpdate(t, u)
                BY <2>2, <4>1, UpdateTwice
            <4>3. QED
                BY <4>1, <4>2
        <3>2. CASE m.kind # "update"
            <4> DEFINE s == SnapshotAt(log, e, m.revision)
            <4>1. s \in Snapshots /\ s.epoch = e /\ \A v : Merged(v, e, m) = ApplySnapshot(v, s)
                BY <2>3, <3>2
            <4> HIDE DEF s
            <4>2. ApplySnapshot(ApplySnapshot(t, s), s) = ApplySnapshot(t, s)
                BY <2>2, <4>1, SnapshotTwice
            <4>3. QED
                BY <4>1, <4>2
        <3>3. QED
            BY <3>1, <3>2
    <2>7. \A k \in Covered(e, m) : Known(Merged(t, e, m), k) >= m.revision
        BY <2>2, <2>3, MessageCounts
    <2>8. QED
        BY <2>4, <2>5, <2>6, <2>7
<1>2. QED
    BY <1>1, AlwaysIInv, PTL

-----------------------------------------------------------------------------
\* The step simulation.

(* A tracker that has seen nothing is a replica that shows nothing.        *)
LEMMA InitReplica == Init => Replica!Init
BY DEF Init, Replica!Init, EmptyTracker, Known, NoEpoch

(* A step after which the tracker is exact and knows no less is an Advance *)
(* of the replica.                                                         *)
LEMMA AdvanceStep ==
    ASSUME IInv', log' = log, TypeOK,
           tracker'.epoch # NoEpoch, tracker'.epoch >= tracker.epoch,
           tracker'.epoch = tracker.epoch =>
               \A k \in Keys : Known(tracker', k) >= Known(tracker, k)
    PROVE  Replica!Advance
<1>1. tracker'.epoch \in 1 .. Len(log)
    BY DEF IInv, TrackerExact
<1>2. [k \in Keys |-> Known(tracker', k)] \in [Keys -> 0 .. Len(log[tracker'.epoch])]
    BY DEF IInv, TrackerExact
<1>3. tracker'.active
          = Replica!ShownAt(log, tracker'.epoch, [k \in Keys |-> Known(tracker', k)])
    <2>1. tracker'.active \in [Keys -> EventValue]
        BY DEF IInv, TypeOK, Trackers, AlarmMap
    <2>2. \A k \in Keys :
              tracker'.active[k] = Truth(log, tracker'.epoch, Known(tracker', k))[k]
        BY DEF IInv, TrackerExact
    <2>3. QED
        BY <2>1, <2>2 DEF Replica!ShownAt, Replica!Truth, Truth
<1>4. QED
    BY <1>1, <1>2, <1>3 DEF Replica!Advance

(* publish_alarm is the replica's Publish.                                 *)
LEMMA PublishReplica ==
    ASSUME IInv, NEW k \in Keys, NEW a \in EventValue, Publish(k, a)
    PROVE  Replica!Publish
BY DEF Publish, Extended, Replica!Publish, EventValue, Truth, Replica!Truth

(* An accepted update moves one alarm to a later revision; a refused one   *)
(* changes nothing.                                                        *)
LEMMA DeliverUpdateReplica ==
    ASSUME IInv, IInv', NEW e \in 1 .. Len(log), NEW r \in 1 .. Len(log[e]),
           DeliverUpdate(e, r)
    PROVE  Replica!Advance \/ UNCHANGED vars
<1> DEFINE u == UpdateAt(log, e, r)
<1>1. u \in Updates /\ u.epoch = e /\ tracker \in Trackers
    BY UpdateType DEF IInv, TypeOK, UpdateAt
<1>2. tracker' = ApplyUpdate(tracker, u) /\ log' = log
    BY DEF DeliverUpdate
<1>3. e \in Nat \ {0}
    BY DEF IInv, TypeOK
<1> HIDE DEF u
<1>4. CASE ~UpdateAccepted(tracker, u)
    BY <1>2, <1>4 DEF ApplyUpdate, vars
<1>5. CASE UpdateAccepted(tracker, u)
    <2>1. /\ tracker'.epoch = e
          /\ Known(tracker', u.key) = u.revision
          /\ \A k \in Keys \ {u.key} : Known(tracker', k) = Known(tracker, k)
          /\ u.revision > Known(tracker, u.key)
        BY <1>1, <1>2, <1>5, ApplyUpdateEffect
    <2>2. tracker.epoch \in {NoEpoch, e}
        BY <1>1, <1>5 DEF UpdateAccepted
    <2>3. \A k \in Keys : Known(tracker, k) \in Nat
        BY <1>1 DEF Known, Trackers
    <2>4. \A k \in Keys : Known(tracker', k) >= Known(tracker, k)
        BY <1>1, <2>1, <2>3 DEF Updates
    <2>5. QED
        BY <1>2, <1>3, <2>1, <2>2, <2>4, AdvanceStep DEF IInv, NoEpoch
<1>6. QED
    BY <1>4, <1>5

(* A snapshot moves every alarm to a later or the same revision, or all    *)
(* of them to a later run.                                                 *)
LEMMA DeliverSnapshotReplica ==
    ASSUME IInv, IInv', NEW e \in 1 .. Len(log), NEW r \in 0 .. Len(log[e]),
           DeliverSnapshot(e, r)
    PROVE  Replica!Advance
<1> DEFINE s == SnapshotAt(log, e, r)
<1>1. s \in Snapshots /\ s.epoch = e /\ s.revision = r /\ tracker \in Trackers
    BY SnapshotType DEF IInv, TypeOK, SnapshotAt
<1>2. tracker' = ApplySnapshot(tracker, s) /\ log' = log /\ e >= tracker.epoch
    BY DEF DeliverSnapshot
<1>3. e \in Nat \ {0} /\ r \in Nat
    BY DEF IInv, TypeOK
<1> HIDE DEF s
<1>4. tracker'.epoch = e
    <2>1. Rebased(tracker, s).epoch = e
        BY <1>1 DEF Rebased, EmptyTracker
    <2>2. QED
        BY <1>1, <1>2, <2>1 DEF ApplySnapshot
<1>5. ASSUME tracker.epoch = e, NEW k \in Keys
      PROVE  Known(tracker', k) >= Known(tracker, k)
    <2>1. Rebased(tracker, s) = tracker
        BY <1>1, <1>5 DEF Rebased
    <2>2. tracker.revisions[k] \in Nat /\ tracker.snapshot_revision \in Nat \cup {NoRevision}
        BY <1>1 DEF Trackers
    <2>3. CASE ~SnapshotAccepted(tracker, s)
        BY <1>2, <2>1, <2>2, <2>3 DEF ApplySnapshot, Known
    <2>4. CASE SnapshotAccepted(tracker, s)
        <3>1. r > tracker.snapshot_revision
            BY <1>1, <2>1, <2>4 DEF SnapshotAccepted
        <3>2. /\ tracker'.snapshot_revision = r
              /\ \/ tracker.revisions[k] > r /\ tracker'.revisions[k] = tracker.revisions[k]
                 \/ tracker.revisions[k] <= r /\ tracker'.revisions[k] = 0
            BY <1>1, <1>2, <2>1, <2>4, ApplySnapshotEffect
        <3>3. QED
            BY <1>3, <2>2, <3>1, <3>2 DEF Known, NoRevision
    <2>5. QED
        BY <2>3, <2>4
<1>6. QED
    BY <1>2, <1>3, <1>4, <1>5, AdvanceStep DEF IInv, NoEpoch

(* The merge of deltas and snapshots implements the abstract replica: what *)
(* a receiver shows only moves forward, to later truths of the same        *)
(* collector run or to a later run.                                        *)
THEOREM ImplementsReplica == Spec => ReplicaSpec
<1>1. IInv /\ IInv' /\ [Next]_vars => [Replica!Next]_Replica!vars
    <2> SUFFICES ASSUME IInv, IInv', [Next]_vars PROVE [Replica!Next]_Replica!vars
        OBVIOUS
    <2>1. ASSUME NEW k \in Keys, NEW a \in EventValue, Publish(k, a)
          PROVE  Replica!Next
        BY <2>1, PublishReplica DEF Replica!Next
    <2>2. CASE Restart
        BY <2>2 DEF Restart, Replica!Next, Replica!NewRun
    <2>3. ASSUME NEW e \in 1 .. Len(log), NEW r \in 1 .. Len(log[e]), DeliverUpdate(e, r)
          PROVE  [Replica!Next]_Replica!vars
        BY <2>3, DeliverUpdateReplica DEF Replica!Next, Replica!vars, vars
    <2>4. ASSUME NEW e \in 1 .. Len(log), NEW r \in 0 .. Len(log[e]), DeliverSnapshot(e, r)
          PROVE  Replica!Next
        BY <2>4, DeliverSnapshotReplica DEF Replica!Next
    <2>5. CASE UNCHANGED vars
        BY <2>5 DEF vars, Replica!vars
    <2>6. QED
        BY <2>1, <2>2, <2>3, <2>4, <2>5 DEF Next
<1>2. QED
    BY <1>1, InitReplica, AlwaysIInv, PTL DEF Spec, ReplicaSpec, Replica!Spec
=============================================================================

--------------------------- MODULE AlarmFeedProofs ---------------------------
(***************************************************************************)
(* Theorems about AlarmFeed, for any alarms, queue capacities, history     *)
(* limit and number of alarms and collector runs: repair never overtakes   *)
(* history, the history is in order, no alarm is lost in silence, the view *)
(* is faithful to its tracker, and the chain of queues implements          *)
(* AlarmSync.                                                              *)
(***************************************************************************)
EXTENDS AlarmFeed, FiniteSetTheorems, SequenceTheorems, TLAPS

\* Everything on its way, in no order.
Elements(q) == {q[i] : i \in DOMAIN q}
OnItsWay ==
    Elements(uiQ) \cup Elements(wire) \cup Elements(clientQ.queue) \cup Elements(alarmQ.queue)

\* Message n may follow message m: runs do not go back, and an update is
\* later than everything of its run before it.
InOrder(m, n) ==
    {m.type, n.type} \subseteq {"update", "snapshot"} =>
        /\ m.body.epoch <= n.body.epoch
        /\ m.body.epoch = n.body.epoch => m.body.revision <= n.body.revision
        /\ m.body.epoch = n.body.epoch /\ n.type = "update" => m.body.revision < n.body.revision

Sorted(q) == \A i, j \in DOMAIN q : i < j => InOrder(q[i], q[j])
Before(P, Q) == \A m \in P, n \in Q : InOrder(m, n)

(* The four queues one behind the other are in order.                      *)
FeedOrdered ==
    /\ Sorted(uiQ) /\ Sorted(wire) /\ Sorted(clientQ.queue) /\ Sorted(alarmQ.queue)
    /\ Before(Elements(uiQ), Elements(wire))
    /\ Before(Elements(uiQ), Elements(clientQ.queue))
    /\ Before(Elements(uiQ), Elements(alarmQ.queue))
    /\ Before(Elements(wire), Elements(clientQ.queue))
    /\ Before(Elements(wire), Elements(alarmQ.queue))
    /\ Before(Elements(clientQ.queue), Elements(alarmQ.queue))

(* Message m is what some run published.                                   *)
Genuine(m) ==
    /\ m.type = "update" =>
          \E e \in 1 .. Len(log) : \E r \in 1 .. Len(log[e]) : m.body = Sync!UpdateAt(log, e, r)
    /\ m.type = "snapshot" =>
          \E e \in 1 .. Len(log) : \E r \in 0 .. Len(log[e]) : m.body = Sync!SnapshotAt(log, e, r)

(* Message m is later than all the interface has applied.                  *)
Ahead(m) ==
    /\ m.type \in {"update", "snapshot"} => m.body.epoch >= view.tracker.epoch
    /\ m.type = "update" =>
          /\ m.body.epoch = view.tracker.epoch =>
                /\ m.body.revision > view.tracker.snapshot_revision
                /\ \A k \in Keys : m.body.revision > view.tracker.revisions[k]
          /\ \A i \in DOMAIN view.history :
                \/ view.history[i].epoch < m.body.epoch
                \/ view.history[i].epoch = m.body.epoch
                   /\ view.history[i].revision < m.body.revision

(* The interface knows only what was published, and its history is not of  *)
(* a later run than its tracker.                                           *)
ViewPublished ==
    /\ view.tracker.epoch <= Len(log)
    /\ view.tracker.epoch = NoEpoch => view.tracker = EmptyTracker(NoEpoch)
    /\ view.tracker.epoch # NoEpoch =>
          /\ view.tracker.snapshot_revision <= Len(log[view.tracker.epoch])
          /\ \A k \in Keys : view.tracker.revisions[k] <= Len(log[view.tracker.epoch])
    /\ \A i \in DOMAIN view.history :
          /\ view.history[i].epoch \in 1 .. Len(log)
          /\ view.history[i].epoch <= view.tracker.epoch
          /\ view.history[i].revision \in 1 .. Len(log[view.history[i].epoch])

(* The history is within its limit and newest first.                       *)
HistorySorted ==
    /\ Len(view.history) <= MaxHistory
    /\ \A i, j \in DOMAIN view.history : i < j =>
          LET new == view.history[i]
              old == view.history[j]
          IN  \/ new.epoch > old.epoch
              \/ new.epoch = old.epoch /\ new.revision > old.revision

Chain ==
    /\ FeedOrdered
    /\ \A m \in OnItsWay : Genuine(m) /\ Ahead(m)
    /\ ViewPublished /\ HistorySorted
    /\ IsFiniteSet(Published)

\* Revision r of the current run is on its way.
Coming(r) ==
    \E m \in OnItsWay : m.type = "update" /\ m.body.epoch = Current /\ m.body.revision = r

\* It is in the history, or left it at its far end.
Recalled(r) ==
    \/ \E i \in DOMAIN view.history :
          view.history[i].epoch = Current /\ view.history[i].revision = r
    \/ /\ Len(view.history) = MaxHistory /\ view.history[MaxHistory].epoch = Current
       /\ view.history[MaxHistory].revision >= r

\* The tracker follows an older run, and every snapshot that can make it join
\* the current one covers revision r.
Covered(r) ==
    /\ view.tracker.epoch \notin {NoEpoch, Current}
    /\ \A m \in OnItsWay :
          m.type = "snapshot" /\ m.body.epoch = Current => m.body.revision >= r

(* Every alarm owed to the client is on its way, recalled, or will be      *)
(* covered by the snapshot with which the tracker joins the current run.   *)
Owed ==
    Subscribed /\ ~LossCounted =>
        \A r \in since + 1 .. Revision : Coming(r) \/ Recalled(r) \/ Covered(r)

IInv == TypeOK /\ Chain /\ Owed /\ ViewFaithful

-----------------------------------------------------------------------------
\* The log and its messages.

Logs == Seq(Seq([key : Keys, view : AlarmMap]))

(* Every revision's alarms are a total map of alarms, and its messages are *)
(* an AlarmUpdate and an AlarmSnapshot.                                    *)
LEMMA LogMessages ==
    ASSUME NEW runs \in Logs, NEW e \in 1 .. Len(runs), NEW r \in 0 .. Len(runs[e])
    PROVE  /\ Sync!Truth(runs, e, r) \in AlarmMap
           /\ Sync!SnapshotAt(runs, e, r) \in Snapshots
           /\ Sync!SnapshotAt(runs, e, r).epoch = e
           /\ Sync!SnapshotAt(runs, e, r).revision = r
           /\ r # 0 => /\ Sync!UpdateAt(runs, e, r) \in Updates
                       /\ Sync!UpdateAt(runs, e, r).epoch = e
                       /\ Sync!UpdateAt(runs, e, r).revision = r
<1>1. runs[e] \in Seq([key : Keys, view : AlarmMap]) /\ e \in Nat \ {0} /\ r \in Nat
    BY DEF Logs
<1>2. r # 0 => runs[e][r].key \in Keys /\ runs[e][r].view \in AlarmMap
    <2>1. r # 0 => r \in 1 .. Len(runs[e])
        OBVIOUS
    <2>2. r # 0 => runs[e][r] \in [key : Keys, view : AlarmMap]
        BY <1>1, <2>1, ElementOfSeq
    <2>3. QED
        BY <2>2
<1>3. Sync!Truth(runs, e, r) \in AlarmMap
    BY <1>2 DEF Sync!Truth, AlarmMap, EventValue
<1>4. Sync!SnapshotAt(runs, e, r) \in Snapshots
    BY <1>1, <1>3 DEF Sync!SnapshotAt, Snapshots
<1>5. r # 0 => Sync!UpdateAt(runs, e, r) \in Updates
    BY <1>1, <1>2 DEF Sync!UpdateAt, Updates, AlarmMap
<1>6. QED
    BY <1>3, <1>4, <1>5 DEF Sync!SnapshotAt, Sync!UpdateAt

(* publish_alarm appends: the current run is one revision longer, nothing  *)
(* else changes, and earlier revisions keep their messages.                *)
LEMMA ExtendedKeeps ==
    ASSUME NEW runs \in Logs, runs # <<>>, NEW k \in Keys, NEW a \in EventValue
    PROVE  LET longer == Sync!Extended(runs, k, a)
           IN  /\ longer \in Logs /\ longer # <<>>
               /\ Len(longer) = Len(runs)
               /\ Len(longer[Len(runs)]) = Len(runs[Len(runs)]) + 1
               /\ \A e \in 1 .. Len(runs) :
                     /\ e # Len(runs) => longer[e] = runs[e]
                     /\ \A r \in 1 .. Len(runs[e]) : longer[e][r] = runs[e][r]
<1> DEFINE n == Len(runs)
           new == [key |-> k, view |-> [Sync!Truth(runs, n, Len(runs[n])) EXCEPT ![k] = a]]
           Entries == [key : Keys, view : AlarmMap]
<1>1. n \in 1 .. Len(runs) /\ runs[n] \in Seq(Entries) /\ runs \in Seq(Seq(Entries))
    BY DEF Logs
<1>2. new \in Entries
    BY <1>1, LogMessages DEF AlarmMap
<1>3. Sync!Extended(runs, k, a) = [runs EXCEPT ![n] = Append(runs[n], new)]
    BY DEF Sync!Extended
<1> HIDE DEF new, Entries
<1>4. /\ Append(runs[n], new) \in Seq(Entries) /\ Len(Append(runs[n], new)) = Len(runs[n]) + 1
      /\ \A r \in 1 .. Len(runs[n]) : Append(runs[n], new)[r] = runs[n][r]
    BY <1>1, <1>2
<1>5. [runs EXCEPT ![n] = Append(runs[n], new)] \in Seq(Seq(Entries))
    BY <1>1, <1>4
<1>6. QED
    BY <1>1, <1>3, <1>4, <1>5 DEF Logs, Entries

-----------------------------------------------------------------------------
\* Queues.

(* What is left of a queue whose first message was taken.                  *)
LEMMA TailOf ==
    ASSUME NEW S, NEW q \in Seq(S), q # <<>>
    PROVE  /\ Tail(q) \in Seq(S) /\ Len(Tail(q)) = Len(q) - 1
           /\ Head(q) \in S /\ Head(q) \in Elements(q)
           /\ Elements(q) = {Head(q)} \cup Elements(Tail(q))
           /\ Sorted(q) => Sorted(Tail(q)) /\ Before({Head(q)}, Elements(Tail(q)))
<1>1. /\ Head(q) = q[1] /\ 1 \in DOMAIN q
      /\ \A i \in DOMAIN Tail(q) : i + 1 \in DOMAIN q /\ Tail(q)[i] = q[i + 1]
      /\ \A i \in DOMAIN q : i # 1 => i - 1 \in DOMAIN Tail(q) /\ Tail(q)[i - 1] = q[i]
      /\ \A i \in DOMAIN q : i \in Nat
      /\ \A i \in DOMAIN Tail(q) : i \in Nat \ {0}
    OBVIOUS
<1>2. Elements(q) = {Head(q)} \cup Elements(Tail(q))
    <2>1. ASSUME NEW i \in DOMAIN q PROVE q[i] \in {Head(q)} \cup Elements(Tail(q))
        <3>1. CASE i = 1
            BY <1>1, <3>1
        <3>2. CASE i # 1
            BY <1>1, <3>2 DEF Elements
        <3>3. QED
            BY <3>1, <3>2
    <2>2. \A m \in {Head(q)} \cup Elements(Tail(q)) : m \in Elements(q)
        BY <1>1 DEF Elements
    <2>3. QED
        BY <2>1, <2>2 DEF Elements
<1>3. Sorted(q) => Sorted(Tail(q))
    BY <1>1 DEF Sorted
<1>4. Sorted(q) => Before({Head(q)}, Elements(Tail(q)))
    BY <1>1 DEF Sorted, Before, Elements
<1>5. QED
    BY <1>2, <1>3, <1>4

(* A queue with one more message behind the others.                        *)
LEMMA AppendTo ==
    ASSUME NEW S, NEW q \in Seq(S), NEW m \in S
    PROVE  /\ Append(q, m) \in Seq(S) /\ Len(Append(q, m)) = Len(q) + 1
           /\ Elements(Append(q, m)) = Elements(q) \cup {m}
           /\ Sorted(q) /\ Before(Elements(q), {m}) => Sorted(Append(q, m))
<1>1. /\ DOMAIN Append(q, m) = DOMAIN q \cup {Len(q) + 1}
      /\ \A i \in DOMAIN q : Append(q, m)[i] = q[i] /\ i \in Nat /\ i < Len(q) + 1
      /\ Append(q, m)[Len(q) + 1] = m /\ Len(q) + 1 \in Nat
    OBVIOUS
<1>2. Elements(Append(q, m)) = Elements(q) \cup {m}
    <2>1. \A x \in Elements(Append(q, m)) : x \in Elements(q) \cup {m}
        BY <1>1 DEF Elements
    <2>2. \A x \in Elements(q) \cup {m} : x \in Elements(Append(q, m))
        BY <1>1 DEF Elements
    <2>3. QED
        BY <2>1, <2>2
<1>3. ASSUME Sorted(q), Before(Elements(q), {m}) PROVE Sorted(Append(q, m))
    <2> SUFFICES ASSUME NEW i \in DOMAIN Append(q, m), NEW j \in DOMAIN Append(q, m), i < j
                 PROVE  InOrder(Append(q, m)[i], Append(q, m)[j])
        BY DEF Sorted
    <2>1. i \in DOMAIN q
        BY <1>1
    <2>2. q[i] \in Elements(q)
        BY <2>1 DEF Elements
    <2>3. CASE j \in DOMAIN q
        BY <1>1, <1>3, <2>1, <2>3 DEF Sorted
    <2>4. CASE j = Len(q) + 1
        BY <1>1, <1>3, <2>1, <2>2, <2>4 DEF Before
    <2>5. QED
        BY <1>1, <2>3, <2>4
<1>4. QED
    BY <1>2, <1>3

(* What a client still reads of a broken connection.                       *)
LEMMA PrefixOf ==
    ASSUME NEW S, NEW q \in Seq(S), NEW n \in 0 .. Len(q)
    PROVE  /\ SubSeq(q, 1, n) \in Seq(S) /\ Len(SubSeq(q, 1, n)) = n
           /\ Elements(SubSeq(q, 1, n)) \subseteq Elements(q)
           /\ Sorted(q) => Sorted(SubSeq(q, 1, n))
<1>1. /\ SubSeq(q, 1, n) \in Seq(S) /\ Len(SubSeq(q, 1, n)) = n
      /\ DOMAIN SubSeq(q, 1, n) = 1 .. n
      /\ \A i \in 1 .. n : SubSeq(q, 1, n)[i] = q[i] /\ i \in DOMAIN q
    OBVIOUS
<1>2. QED
    BY <1>1 DEF Elements, Sorted

(* Nothing is in an empty queue.                                           *)
LEMMA EmptyOne ==
    /\ Elements(<<>>) = {} /\ Sorted(<<>>)
    /\ \A S : <<>> \in Seq(S)
    /\ Len(<<>>) = 0
BY DEF Elements, Sorted

(* What a send does to a receiver's queue.                                 *)
LEMMA SentTo ==
    ASSUME NEW cap \in Nat \ {0}, NEW ch \in Receivers(Messages, cap), NEW m \in Messages
    PROVE  LET after == Sent(ch, cap, m)
           IN  /\ after \in Receivers(Messages, cap)
               /\ Elements(after.queue) \subseteq Elements(ch.queue) \cup {m}
               /\ Sorted(ch.queue) /\ Before(Elements(ch.queue), {m}) => Sorted(after.queue)
               /\ ~ after.lagged =>
                     ~ ch.lagged /\ Elements(after.queue) = Elements(ch.queue) \cup {m}
<1>1. ch.queue \in Seq(Messages) /\ ch.lagged \in BOOLEAN /\ Len(ch.queue) <= cap
      /\ ch = [queue |-> ch.queue, lagged |-> ch.lagged]
    BY DEF Receivers
<1>2. CASE Len(ch.queue) < cap
    <2>1. Sent(ch, cap, m) = [queue |-> Append(ch.queue, m), lagged |-> ch.lagged]
        BY <1>1, <1>2 DEF Sent
    <2>2. /\ Append(ch.queue, m) \in Seq(Messages)
          /\ Len(Append(ch.queue, m)) = Len(ch.queue) + 1
          /\ Elements(Append(ch.queue, m)) = Elements(ch.queue) \cup {m}
          /\ Sorted(ch.queue) /\ Before(Elements(ch.queue), {m}) => Sorted(Append(ch.queue, m))
        BY <1>1, AppendTo
    <2>3. Len(ch.queue) + 1 <= cap
        BY <1>1, <1>2
    <2>4. QED
        BY <1>1, <2>1, <2>2, <2>3 DEF Receivers
<1>3. CASE ~ (Len(ch.queue) < cap)
    <2>1. Sent(ch, cap, m) = [queue |-> Append(Tail(ch.queue), m), lagged |-> TRUE]
        BY <1>3 DEF Sent
    <2>2. ch.queue # <<>>
        BY <1>1, <1>3
    <2> DEFINE rest == Tail(ch.queue)
    <2>3. /\ rest \in Seq(Messages) /\ Len(rest) = Len(ch.queue) - 1
          /\ Elements(rest) \subseteq Elements(ch.queue)
          /\ Sorted(ch.queue) => Sorted(rest)
        BY <1>1, <2>2, TailOf
    <2> HIDE DEF rest
    <2>4. /\ Append(rest, m) \in Seq(Messages) /\ Len(Append(rest, m)) = Len(rest) + 1
          /\ Elements(Append(rest, m)) = Elements(rest) \cup {m}
          /\ Sorted(rest) /\ Before(Elements(rest), {m}) => Sorted(Append(rest, m))
        BY <2>3, AppendTo
    <2>5. Before(Elements(ch.queue), {m}) => Before(Elements(rest), {m})
        BY <2>3 DEF Before
    <2>6. Len(Append(rest, m)) <= cap
        BY <1>1, <2>3, <2>4
    <2>7. Sent(ch, cap, m) = [queue |-> Append(rest, m), lagged |-> TRUE]
        BY <2>1 DEF rest
    <2>8. QED
        BY <2>3, <2>4, <2>5, <2>6, <2>7 DEF Receivers
<1>4. QED
    BY <1>2, <1>3

(* What recv() does to it, whether it returns a message or Lagged.         *)
LEMMA ReceivedFrom ==
    ASSUME NEW cap \in Nat, NEW ch \in Receivers(Messages, cap)
    PROVE  /\ HasMessage(ch) =>
                 /\ ch.queue \in Seq(Messages) /\ ch.queue # <<>> /\ Head(ch.queue) \in Messages
                 /\ Received(ch) \in Receivers(Messages, cap)
                 /\ Received(ch).queue = Tail(ch.queue) /\ Received(ch).lagged = ch.lagged
           /\ LagReported(ch) \in Receivers(Messages, cap)
           /\ LagReported(ch).queue = ch.queue
           /\ EmptyChannel \in Receivers(Messages, cap)
           /\ EmptyChannel.queue = <<>> /\ ~ EmptyChannel.lagged
<1>1. ch.queue \in Seq(Messages) /\ ch.lagged \in BOOLEAN /\ Len(ch.queue) <= cap
      /\ ch = [queue |-> ch.queue, lagged |-> ch.lagged]
    BY DEF Receivers
<1>2. ASSUME HasMessage(ch)
      PROVE  /\ ch.queue \in Seq(Messages) /\ ch.queue # <<>> /\ Head(ch.queue) \in Messages
             /\ Received(ch) = [queue |-> Tail(ch.queue), lagged |-> ch.lagged]
             /\ Tail(ch.queue) \in Seq(Messages) /\ Len(Tail(ch.queue)) <= cap
    BY <1>1, <1>2, TailOf DEF HasMessage, Received
<1>3. LagReported(ch) \in Receivers(Messages, cap) /\ LagReported(ch).queue = ch.queue
    BY DEF LagReported, Receivers
<1>4. EmptyChannel \in Receivers(Messages, cap)
    BY DEF EmptyChannel, Receivers
<1>5. QED
    BY <1>1, <1>2, <1>3, <1>4 DEF Receivers, EmptyChannel

-----------------------------------------------------------------------------
\* The interface's alarm state.

(* apply_update: an accepted delta becomes what is known of its alarm.     *)
LEMMA TrackerAfterUpdate ==
    ASSUME NEW t \in Trackers, NEW u \in Updates
    PROVE  LET after == ApplyUpdate(t, u)
           IN  /\ after \in Trackers
               /\ ~ UpdateAccepted(t, u) => after = t
               /\ UpdateAccepted(t, u) =>
                     /\ after.epoch = u.epoch
                     /\ after.snapshot_revision = t.snapshot_revision
                     /\ after.revisions = [t.revisions EXCEPT ![u.key] = u.revision]
                     /\ after.active = [t.active EXCEPT ![u.key] = u.alarm]
<1>1. CASE UpdateAccepted(t, u)
    BY <1>1 DEF ApplyUpdate, Trackers, Updates, AlarmMap, EventValue
<1>2. CASE ~ UpdateAccepted(t, u)
    BY <1>2 DEF ApplyUpdate
<1>3. QED
    BY <1>1, <1>2

(* apply_snapshot: the tracker follows the snapshot's run, and what it     *)
(* keeps of deltas it had; only an unneeded snapshot of its own run        *)
(* changes nothing.                                                        *)
LEMMA TrackerAfterSnapshot ==
    ASSUME NEW t \in Trackers, NEW s \in Snapshots
    PROVE  LET after == ApplySnapshot(t, s)
           IN  /\ after \in Trackers
               /\ after.epoch = s.epoch
               /\ t.epoch # s.epoch => SnapshotAccepted(t, s)
               /\ ~ SnapshotAccepted(t, s) => after = t
               /\ SnapshotAccepted(t, s) => after.snapshot_revision = s.revision
               /\ \A k \in Keys :
                     after.revisions[k] <= IF t.epoch = s.epoch THEN t.revisions[k] ELSE 0
<1> DEFINE base == Rebased(t, s)
           kept == RevisionsAfter(base, s)
<1>1. EmptyTracker(s.epoch) \in Trackers /\ s.epoch \in Nat \ {0}
    BY DEF EmptyTracker, Trackers, Snapshots, AlarmMap, EventValue, NoRevision
<1>2. base \in Trackers /\ base.epoch = s.epoch
    BY <1>1 DEF Rebased, EmptyTracker
<1>3. t.epoch # s.epoch => SnapshotAccepted(t, s)
    BY DEF SnapshotAccepted, Rebased, EmptyTracker, NoRevision, Snapshots
<1>4. \A k \in Keys : /\ base.revisions[k] \in Nat
                      /\ base.revisions[k] = IF t.epoch = s.epoch THEN t.revisions[k] ELSE 0
    BY <1>2 DEF Rebased, EmptyTracker, Trackers
<1> HIDE DEF base
<1>5. kept \in [Keys -> Nat] /\ \A k \in Keys : kept[k] <= base.revisions[k]
    BY <1>4 DEF RevisionsAfter
<1> HIDE DEF kept
<1>6. CASE SnapshotAccepted(t, s)
    <2>1. ApplySnapshot(t, s) =
             [epoch |-> s.epoch, snapshot_revision |-> s.revision, revisions |-> kept,
              active |-> [k \in Keys |-> IF kept[k] > 0 THEN base.active[k] ELSE s.alarms[k]]]
        BY <1>6 DEF ApplySnapshot, base, kept
    <2>2. [k \in Keys |-> IF kept[k] > 0 THEN base.active[k] ELSE s.alarms[k]] \in AlarmMap
        BY <1>2 DEF Trackers, Snapshots, AlarmMap
    <2>3. s.epoch \in Nat /\ s.revision \in Nat
        BY DEF Snapshots
    <2>4. ApplySnapshot(t, s) \in Trackers
        BY <1>5, <2>1, <2>2, <2>3 DEF Trackers
    <2>5. QED
        BY <1>3, <1>4, <1>5, <1>6, <2>1, <2>4
<1>7. CASE ~ SnapshotAccepted(t, s)
    <2>1. ApplySnapshot(t, s) = t /\ t.epoch = s.epoch
        BY <1>3, <1>7 DEF ApplySnapshot, Rebased
    <2>2. QED
        BY <1>7, <2>1 DEF Trackers
<1>8. QED
    BY <1>6, <1>7

(* push_front: the newest is first, the others move down, the far end is   *)
(* cut at the limit.                                                       *)
LEMMA RecordedEffect ==
    ASSUME NEW h \in Seq(Updates), NEW u \in Updates
    PROVE  LET after == Recorded(h, u)
           IN  /\ after \in Seq(Updates)
               /\ Len(after) = IF Len(h) + 1 > MaxHistory THEN MaxHistory ELSE Len(h) + 1
               /\ after[1] = u
               /\ \A i \in 2 .. Len(after) : after[i] = h[i - 1] /\ i - 1 \in DOMAIN h
<1> DEFINE all == <<u>> \o h
<1>1. /\ all \in Seq(Updates) /\ Len(all) = Len(h) + 1 /\ Len(h) \in Nat
      /\ \A i \in 1 .. Len(h) + 1 : all[i] = IF i <= 1 THEN <<u>>[i] ELSE h[i - 1]
    <2>1. <<u>> \in Seq(Updates) /\ Len(<<u>>) = 1
        OBVIOUS
    <2>2. QED
        BY <2>1, ConcatProperties
<1>2. all[1] = u /\ \A i \in 2 .. Len(h) + 1 : all[i] = h[i - 1] /\ i - 1 \in DOMAIN h
    BY <1>1
<1> HIDE DEF all
<1>3. CASE Len(all) > MaxHistory
    <2>1. Recorded(h, u) = SubSeq(all, 1, MaxHistory)
        BY <1>3 DEF Recorded, all
    <2>2. MaxHistory \in Nat \ {0}
        BY ViewAssumption
    <2>3. /\ SubSeq(all, 1, MaxHistory) \in Seq(Updates)
          /\ Len(SubSeq(all, 1, MaxHistory)) = MaxHistory
          /\ \A i \in 1 .. MaxHistory : SubSeq(all, 1, MaxHistory)[i] = all[i]
        BY <1>1, <1>3, <2>2
    <2>4. QED
        BY <1>1, <1>2, <1>3, <2>1, <2>2, <2>3
<1>4. CASE ~ (Len(all) > MaxHistory)
    <2>1. Recorded(h, u) = all
        BY <1>4 DEF Recorded, all
    <2>2. QED
        BY <1>1, <1>2, <1>4, <2>1
<1>5. QED
    BY <1>3, <1>4

\* ViewFaithful of any alarm state.
Faithful(v) ==
    /\ \A k \in Keys :
          /\ v.active[k] # NoAlarm => v.active[k] = v.tracker.active[k]
          /\ v.active[k] = NoAlarm /\ v.tracker.active[k] # NoAlarm => k \in Timeouts
    /\ \A k \in v.acknowledged : v.active[k] # NoAlarm

(* apply_alarm: tracker and history take the update together or not at     *)
(* all, and the view stays faithful.                                       *)
LEMMA ApplyAlarmEffect ==
    ASSUME NEW v \in Views, NEW u \in Updates
    PROVE  LET w == ApplyAlarm(v, u)
           IN  /\ w \in Views
               /\ w.tracker = ApplyUpdate(v.tracker, u)
               /\ w.history = IF UpdateAccepted(v.tracker, u) THEN Recorded(v.history, u)
                              ELSE v.history
               /\ Faithful(v) => Faithful(w)
<1>1. /\ v.tracker \in Trackers /\ v.active \in AlarmMap /\ v.acknowledged \subseteq Keys
      /\ v.history \in Seq(Updates) /\ u.key \in Keys /\ u.alarm \in EventValue
    BY DEF Views, Updates
<1>2. CASE UpdateAccepted(v.tracker, u)
    <2> DEFINE w == ApplyAlarm(v, u)
               isNew == u.alarm = NoAlarm \/ v.active[u.key] = NoAlarm
    <2>1. w = [v EXCEPT !.tracker = ApplyUpdate(v.tracker, u),
                        !.active = [v.active EXCEPT ![u.key] = u.alarm],
                        !.acknowledged = IF isNew THEN v.acknowledged \ {u.key} ELSE v.acknowledged,
                        !.history = Recorded(v.history, u)]
        BY <1>2 DEF ApplyAlarm
    <2>2. /\ ApplyUpdate(v.tracker, u) \in Trackers
          /\ ApplyUpdate(v.tracker, u).active = [v.tracker.active EXCEPT ![u.key] = u.alarm]
        BY <1>1, <1>2, TrackerAfterUpdate
    <2>3. Recorded(v.history, u) \in Seq(Updates)
        BY <1>1, RecordedEffect
    <2>4. [v.active EXCEPT ![u.key] = u.alarm] \in AlarmMap
        BY <1>1 DEF AlarmMap
    <2> HIDE DEF w, isNew
    <2>5. /\ w \in Views
          /\ w.tracker = ApplyUpdate(v.tracker, u)
          /\ w.history = Recorded(v.history, u)
          /\ w.active = [v.active EXCEPT ![u.key] = u.alarm]
          /\ w.acknowledged = IF isNew THEN v.acknowledged \ {u.key} ELSE v.acknowledged
        BY <1>1, <2>1, <2>2, <2>3, <2>4 DEF Views
    <2>6. Faithful(v) => Faithful(w)
        BY <1>1, <2>2, <2>5 DEF Faithful, Trackers, AlarmMap, isNew
    <2>7. QED
        BY <1>2, <2>5, <2>6 DEF w
<1>3. CASE ~ UpdateAccepted(v.tracker, u)
    BY <1>1, <1>3, TrackerAfterUpdate DEF ApplyAlarm
<1>4. QED
    BY <1>2, <1>3

(* apply_alarm_snapshot: the tracker takes it, the history does not.       *)
LEMMA ApplyAlarmSnapshotEffect ==
    ASSUME NEW v \in Views, NEW s \in Snapshots
    PROVE  LET w == ApplyAlarmSnapshot(v, s)
           IN  /\ w \in Views
               /\ w.tracker = ApplySnapshot(v.tracker, s)
               /\ w.history = v.history
               /\ Faithful(v) => Faithful(w)
<1>1. /\ v.tracker \in Trackers /\ v.active \in AlarmMap /\ v.acknowledged \subseteq Keys
      /\ v.history \in Seq(Updates) /\ v.dismissed \subseteq Channels
    BY DEF Views
<1>2. CASE SnapshotAccepted(v.tracker, s)
    <2> DEFINE t == ApplySnapshot(v.tracker, s)
               same == v.tracker.epoch = s.epoch
               dismissed == IF same THEN v.dismissed ELSE {}
               shown == [k \in Keys |-> IF k \in Hidden(dismissed) THEN NoAlarm ELSE t.active[k]]
               marks == {k \in (IF same THEN v.acknowledged ELSE {}) : shown[k] # NoAlarm}
               w == ApplyAlarmSnapshot(v, s)
    <2>1. w = [v EXCEPT !.tracker = t, !.active = shown, !.acknowledged = marks,
                        !.dismissed = dismissed]
        BY <1>2 DEF ApplyAlarmSnapshot
    <2>2. t \in Trackers
        BY <1>1, TrackerAfterSnapshot
    <2>3. shown \in AlarmMap
        BY <2>2 DEF AlarmMap, EventValue, Trackers
    <2>4. \A k \in Hidden(dismissed) : k \in Timeouts
        BY DEF Hidden, TimeoutsOf
    <2>5. dismissed \subseteq Channels /\ marks \subseteq Keys
        BY <1>1
    <2>6. \A k \in marks : shown[k] # NoAlarm
        OBVIOUS
    <2>7. \A k \in Keys : shown[k] = IF k \in Hidden(dismissed) THEN NoAlarm ELSE t.active[k]
        OBVIOUS
    <2> HIDE DEF w, t, dismissed, shown, marks
    <2>8. /\ w \in Views /\ w.tracker = t /\ w.history = v.history
          /\ w.active = shown /\ w.acknowledged = marks
        BY <1>1, <2>1, <2>2, <2>3, <2>5 DEF Views
    <2>9. Faithful(w)
        BY <2>4, <2>6, <2>7, <2>8 DEF Faithful
    <2>10. QED
        BY <2>8, <2>9 DEF w, t
<1>3. CASE ~ SnapshotAccepted(v.tracker, s)
    BY <1>1, <1>3, TrackerAfterSnapshot DEF ApplyAlarmSnapshot
<1>4. QED
    BY <1>2, <1>3

(* The operator and new data change neither tracker nor, but for clearing  *)
(* it, history.                                                            *)
LEMMA OperatorEffect ==
    ASSUME NEW v \in Views, NEW w,
           \/ w = AcknowledgeAll(v)
           \/ \E c \in Channels : w = DismissChannel(v, c) \/ w = Sampled(v, c)
    PROVE  /\ w \in Views /\ w.tracker = v.tracker /\ w.history = v.history
           /\ Faithful(v) => Faithful(w)
<1>1. /\ v.tracker \in Trackers /\ v.active \in AlarmMap /\ v.acknowledged \subseteq Keys
      /\ v.history \in Seq(Updates) /\ v.dismissed \subseteq Channels
    BY DEF Views
<1>2. ASSUME NEW c \in Channels, w = DismissChannel(v, c)
      PROVE  /\ w \in Views /\ w.tracker = v.tracker /\ w.history = v.history
             /\ Faithful(v) => Faithful(w)
    <2> DEFINE shown == [k \in Keys |-> IF k \in TimeoutsOf(c) THEN NoAlarm ELSE v.active[k]]
               marks == v.acknowledged \ {k \in TimeoutsOf(c) : v.active[k] # NoAlarm}
    <2>1. w = [v EXCEPT !.dismissed = v.dismissed \cup {c}, !.active = shown, !.acknowledged = marks]
        BY <1>2 DEF DismissChannel
    <2>2. shown \in AlarmMap
        BY <1>1 DEF AlarmMap, EventValue
    <2>3. marks \subseteq Keys
        BY <1>1
    <2>4. /\ w \in Views /\ w.tracker = v.tracker /\ w.history = v.history
          /\ w.active = shown /\ w.acknowledged = marks
        BY <1>1, <2>1, <2>2, <2>3 DEF Views
    <2>5. ASSUME Faithful(v) PROVE Faithful(w)
        <3>1. TimeoutsOf(c) \subseteq Timeouts
            BY DEF TimeoutsOf
        <3>2. \A k \in Keys : shown[k] = IF k \in TimeoutsOf(c) THEN NoAlarm ELSE v.active[k]
            OBVIOUS
        <3>3. \A k \in marks : shown[k] # NoAlarm
            BY <1>1, <2>5 DEF Faithful
        <3> HIDE DEF shown, marks
        <3>4. QED
            BY <2>4, <2>5, <3>1, <3>2, <3>3 DEF Faithful
    <2>6. QED
        BY <2>4, <2>5
<1>3. ASSUME w = AcknowledgeAll(v)
      PROVE  /\ w \in Views /\ w.tracker = v.tracker /\ w.history = v.history
             /\ Faithful(v) => Faithful(w)
    BY <1>1, <1>3 DEF AcknowledgeAll, Views, Faithful
<1>4. ASSUME NEW c \in Channels, w = Sampled(v, c)
      PROVE  /\ w \in Views /\ w.tracker = v.tracker /\ w.history = v.history
             /\ Faithful(v) => Faithful(w)
    BY <1>1, <1>4 DEF Sampled, Views, Faithful
<1>5. QED
    BY <1>2, <1>3, <1>4

(* Clearing the history changes nothing else.                              *)
LEMMA ClearEffect ==
    ASSUME NEW v \in Views
    PROVE  /\ ClearHistory(v) \in Views /\ ClearHistory(v).tracker = v.tracker
           /\ ClearHistory(v).history = <<>>
           /\ Faithful(v) => Faithful(ClearHistory(v))
<1>1. <<>> \in Seq(Updates)
    OBVIOUS
<1>2. ClearHistory(v) \in Views /\ ClearHistory(v).history = <<>>
    BY <1>1 DEF ClearHistory, Views
<1>3. /\ ClearHistory(v).tracker = v.tracker /\ ClearHistory(v).active = v.active
      /\ ClearHistory(v).acknowledged = v.acknowledged
    BY DEF ClearHistory, Views
<1>4. QED
    BY <1>2, <1>3 DEF Faithful

-----------------------------------------------------------------------------
\* Messages on their way.

Relevant(m) == m.type \in {"update", "snapshot"}

(* What a message carries by its type.                                     *)
LEMMA Kinds ==
    /\ \A m \in Messages :
          /\ m.type \in {"update", "snapshot", "sample", "status"}
          /\ m.type = "update" => m.body \in Updates
          /\ m.type = "snapshot" => m.body \in Snapshots
          /\ m.type = "sample" => m.body \in Channels
    /\ \A u \in Updates : UpdateMsg(u) \in Messages
    /\ \A s \in Snapshots : SnapshotMsg(s) \in Messages
    /\ \A c \in Channels : SampleMsg(c) \in Messages
    /\ StatusMsg \in Messages
BY DEF Messages, UpdateMsg, SnapshotMsg, SampleMsg, StatusMsg

(* The types in one place.                                                 *)
LEMMA Typed ==
    ASSUME TypeOK
    PROVE  /\ log \in Logs /\ log # <<>> /\ Current \in 1 .. Len(log) /\ Current = Len(log)
           /\ Revision \in Nat /\ Revision \in 0 .. Len(log[Current])
           /\ \A e \in 1 .. Len(log) : Len(log[e]) \in Nat
           /\ alarmQ \in Receivers(Messages, AlarmCap) /\ AlarmCap \in Nat \ {0}
           /\ clientQ \in Receivers(Messages, ClientCap) /\ ClientCap \in Nat \ {0}
           /\ alarmQ.queue \in Seq(Messages) /\ clientQ.queue \in Seq(Messages)
           /\ uiQ \in Seq(Messages) /\ Len(uiQ) <= UiCap
           /\ wire \in Seq(Messages) /\ Len(wire) <= WireCap
           /\ view \in Views /\ view.tracker \in Trackers /\ view.history \in Seq(Updates)
           /\ since \in Nat
<1>1. \A e \in 1 .. Len(log) : log[e] \in Seq([key : Keys, view : AlarmMap])
    BY DEF TypeOK
<1>2. \A e \in 1 .. Len(log) : Len(log[e]) \in Nat
    BY <1>1
<1>3. QED
    BY <1>2, CapAssumption DEF TypeOK, Logs, Current, Revision, Receivers, Views

(* A message on its way has a run and a revision of the log.               *)
LEMMA Carried ==
    ASSUME TypeOK, NEW m \in OnItsWay, Genuine(m)
    PROVE  /\ m \in Messages
           /\ Relevant(m) => /\ m.body.epoch \in 1 .. Len(log)
                             /\ m.body.revision \in 0 .. Len(log[m.body.epoch])
           /\ m.type = "update" => m.body \in Updates /\ m.body.revision # 0
           /\ m.type = "snapshot" => m.body \in Snapshots
<1>1. m \in Messages
    <2>1. \A q \in Seq(Messages) : \A i \in DOMAIN q : q[i] \in Messages
        OBVIOUS
    <2>2. QED
        BY <2>1, Typed DEF OnItsWay, Elements
<1>2. ASSUME m.type = "update"
      PROVE  /\ m.body.epoch \in 1 .. Len(log)
             /\ m.body.revision \in 1 .. Len(log[m.body.epoch])
    <2>1. PICK e \in 1 .. Len(log) : \E r \in 1 .. Len(log[e]) : m.body = Sync!UpdateAt(log, e, r)
        BY <1>2 DEF Genuine
    <2>2. PICK r \in 1 .. Len(log[e]) : m.body = Sync!UpdateAt(log, e, r)
        BY <2>1
    <2>3. m.body.epoch = e /\ m.body.revision = r
        BY <2>2 DEF Sync!UpdateAt
    <2>4. QED
        BY <2>3
<1>3. ASSUME m.type = "snapshot"
      PROVE  /\ m.body.epoch \in 1 .. Len(log)
             /\ m.body.revision \in 0 .. Len(log[m.body.epoch])
    <2>1. PICK e \in 1 .. Len(log) :
              \E r \in 0 .. Len(log[e]) : m.body = Sync!SnapshotAt(log, e, r)
        BY <1>3 DEF Genuine
    <2>2. PICK r \in 0 .. Len(log[e]) : m.body = Sync!SnapshotAt(log, e, r)
        BY <2>1
    <2>3. m.body.epoch = e /\ m.body.revision = r
        BY <2>2 DEF Sync!SnapshotAt
    <2>4. QED
        BY <2>3
<1>4. QED
    BY <1>1, <1>2, <1>3, Kinds, Typed DEF Relevant

(* Only alarm updates and snapshots are ever out of order.                 *)
LEMMA AnyOrder ==
    ASSUME NEW m, NEW n, ~ Relevant(m) \/ ~ Relevant(n)
    PROVE  InOrder(m, n)
BY DEF InOrder, Relevant

(* What is published now comes after everything on its way.                *)
LEMMA NowIsLast ==
    ASSUME TypeOK, \A m \in OnItsWay : Genuine(m), NEW n,
           Relevant(n), n.body.epoch = Current, n.body.revision \in Nat,
           n.body.revision >= Revision, n.type = "update" => n.body.revision > Revision
    PROVE  Before(OnItsWay, {n})
<1> SUFFICES ASSUME NEW m \in OnItsWay, Relevant(m) PROVE InOrder(m, n)
    BY AnyOrder DEF Before
<1>1. m.body.epoch \in 1 .. Len(log) /\ m.body.revision \in 0 .. Len(log[m.body.epoch])
    BY Carried
<1>2. /\ Current = Len(log) /\ Revision = Len(log[Current])
      /\ Revision \in Nat
    BY Typed DEF Revision
<1>3. QED
    BY <1>1, <1>2 DEF InOrder, Relevant

(* The log grows, and what was published stays published.                  *)
LEMMA StillGenuine ==
    ASSUME TypeOK, Len(log') >= Len(log), Len(log') \in Nat,
           \A e \in 1 .. Len(log) :
               /\ Len(log'[e]) >= Len(log[e]) /\ Len(log'[e]) \in Nat
               /\ \A r \in 1 .. Len(log[e]) : log'[e][r] = log[e][r],
           NEW m, Genuine(m)
    PROVE  Genuine(m)'
<1>1. \A e \in 1 .. Len(log) : e \in 1 .. Len(log') /\ Len(log[e]) \in Nat
    BY Typed DEF TypeOK
<1>2. ASSUME NEW e \in 1 .. Len(log), NEW r \in 1 .. Len(log[e])
      PROVE  Sync!UpdateAt(log', e, r) = Sync!UpdateAt(log, e, r) /\ r \in 1 .. Len(log'[e])
    BY <1>1 DEF Sync!UpdateAt
<1>3. ASSUME NEW e \in 1 .. Len(log), NEW r \in 0 .. Len(log[e])
      PROVE  Sync!SnapshotAt(log', e, r) = Sync!SnapshotAt(log, e, r) /\ r \in 0 .. Len(log'[e])
    BY <1>1 DEF Sync!SnapshotAt, Sync!Truth
<1>4. QED
    BY <1>1, <1>2, <1>3 DEF Genuine

(* A step of the queues alone keeps the invariant if they stay in order,   *)
(* gain no alarm message but the snapshot of now, and lose no update       *)
(* uncounted.                                                              *)
LEMMA QueueStep ==
    ASSUME IInv, TypeOK', FeedOrdered', UNCHANGED <<log, view>>,
           \A m \in OnItsWay' :
               \/ m \in OnItsWay \/ ~ Relevant(m)
               \/ m = SnapshotMsg(Sync!SnapshotAt(log, Current, Revision)),
           (Subscribed /\ ~LossCounted)' =>
               \/ since' >= Revision
               \/ /\ Subscribed /\ ~LossCounted /\ since' = since
                  /\ \A m \in OnItsWay : m.type = "update" => m \in OnItsWay'
    PROVE  IInv'
<1> DEFINE now == SnapshotMsg(Sync!SnapshotAt(log, Current, Revision))
<1>0. TypeOK /\ Chain /\ Owed /\ ViewFaithful
    BY DEF IInv
<1>1. /\ Current \in 1 .. Len(log) /\ Revision \in 0 .. Len(log[Current])
      /\ Current = Len(log) /\ Revision \in Nat /\ since \in Nat
    BY <1>0, Typed
<1>2. /\ now.type = "snapshot" /\ now.body = Sync!SnapshotAt(log, Current, Revision)
      /\ now.body.epoch = Current /\ now.body.revision = Revision
    BY DEF SnapshotMsg, Sync!SnapshotAt
<1>3. Current' = Current /\ Revision' = Revision /\ Published' = Published
    BY DEF Current, Revision, Published
<1>4. ASSUME NEW m \in OnItsWay' PROVE (Genuine(m) /\ Ahead(m))'
    <2>1. CASE m \in OnItsWay
        BY <1>0, <2>1 DEF Chain, Genuine, Ahead
    <2>2. CASE ~ Relevant(m)
        BY <2>2 DEF Relevant, Genuine, Ahead
    <2>3. CASE m = now
        <3>1. view.tracker.epoch <= Len(log)
            BY <1>0 DEF Chain, ViewPublished
        <3>2. now.body.epoch >= view.tracker.epoch
            BY <1>0, <1>1, <1>2, <3>1, Typed DEF Trackers
        <3>3. QED
            BY <1>1, <1>2, <2>3, <3>2 DEF Genuine, Ahead
    <2>4. QED
        BY <2>1, <2>2, <2>3
<1>5. Chain'
    BY <1>0, <1>3, <1>4 DEF Chain, ViewPublished, HistorySorted
<1>6. ViewFaithful'
    BY <1>0 DEF ViewFaithful
<1>7. Owed'
    <2> SUFFICES ASSUME (Subscribed /\ ~LossCounted)', NEW r \in since' + 1 .. Revision'
                 PROVE  (Coming(r) \/ Recalled(r) \/ Covered(r))'
        BY DEF Owed
    <2>1. /\ Subscribed /\ ~LossCounted /\ since' = since
          /\ \A m \in OnItsWay : m.type = "update" => m \in OnItsWay'
        <3>1. since' \in Nat
            BY DEF TypeOK
        <3>2. r \in since' + 1 .. Revision
            BY <1>3
        <3>3. \A a, b \in Nat : r \in a + 1 .. b => ~ (a >= b)
            OBVIOUS
        <3>4. ~ (since' >= Revision)
            BY <1>1, <3>1, <3>2, <3>3
        <3>5. QED
            BY <3>4
    <2>2. Coming(r) \/ Recalled(r) \/ Covered(r)
        BY <1>0, <1>3, <2>1 DEF Owed
    <2>3. r \in Nat /\ r <= Revision
        BY <1>1, <1>3, <2>1
    <2>4. Coming(r) => Coming(r)'
        BY <1>3, <2>1 DEF Coming
    <2>5. Recalled(r) => Recalled(r)'
        BY <1>3 DEF Recalled
    <2>6. ASSUME Covered(r) PROVE Covered(r)'
        <3>1. ASSUME NEW m \in OnItsWay', m.type = "snapshot", m.body.epoch = Current
              PROVE  m.body.revision >= r
            <4>1. CASE m \in OnItsWay
                BY <2>6, <3>1, <4>1 DEF Covered
            <4>2. CASE m = now
                BY <1>1, <1>2, <2>3, <4>2
            <4>3. QED
                BY <3>1, <4>1, <4>2 DEF Relevant
        <3>2. QED
            BY <1>3, <2>6, <3>1 DEF Covered
    <2>7. QED
        BY <2>2, <2>4, <2>5, <2>6
<1>8. QED
    BY <1>5, <1>6, <1>7 DEF IInv

-----------------------------------------------------------------------------
\* Steps of the queues.

(* A message to the interface thread that may be refused is either queued  *)
(* or counted.                                                             *)
LEMMA TrySendEffect ==
    ASSUME TypeOK, NEW m \in Messages, TrySend(m)
    PROVE  /\ uiQ' \in Seq(Messages) /\ Len(uiQ') <= UiCap /\ feedDrop' \in BOOLEAN
           /\ Elements(uiQ') \subseteq Elements(uiQ) \cup {m}
           /\ Sorted(uiQ) /\ Before(Elements(uiQ), {m}) => Sorted(uiQ')
           /\ ~ feedDrop' => ~ feedDrop /\ Elements(uiQ') = Elements(uiQ) \cup {m}
<1>1. uiQ \in Seq(Messages) /\ Len(uiQ) <= UiCap /\ UiCap \in Nat /\ feedDrop \in BOOLEAN
    BY CapAssumption DEF TypeOK
<1>2. CASE Len(uiQ) < UiCap
    <2>1. uiQ' = Append(uiQ, m) /\ feedDrop' = feedDrop
        BY <1>2 DEF TrySend
    <2>2. /\ Append(uiQ, m) \in Seq(Messages) /\ Len(Append(uiQ, m)) = Len(uiQ) + 1
          /\ Elements(Append(uiQ, m)) = Elements(uiQ) \cup {m}
          /\ Sorted(uiQ) /\ Before(Elements(uiQ), {m}) => Sorted(Append(uiQ, m))
        BY <1>1, AppendTo
    <2>3. Len(uiQ) + 1 <= UiCap
        BY <1>1, <1>2
    <2>4. QED
        BY <1>1, <2>1, <2>2, <2>3
<1>3. CASE ~ (Len(uiQ) < UiCap)
    BY <1>1, <1>3 DEF TrySend
<1>4. QED
    BY <1>2, <1>3

(* The fan-out to a subscribed client queues the message, or drops the     *)
(* oldest one and will say so.                                             *)
LEMMA ToClientEffect ==
    ASSUME TypeOK, NEW m \in Messages, ToClient(m)
    PROVE  /\ clientQ' \in Receivers(Messages, ClientCap)
           /\ Elements(clientQ'.queue) \subseteq Elements(clientQ.queue) \cup {m}
           /\ Sorted(clientQ.queue) /\ Before(Elements(clientQ.queue), {m})
                 => Sorted(clientQ'.queue)
           /\ Subscribed /\ ~ clientQ'.lagged =>
                 /\ ~ clientQ.lagged
                 /\ Elements(clientQ'.queue) = Elements(clientQ.queue) \cup {m}
<1>1. clientQ \in Receivers(Messages, ClientCap) /\ ClientCap \in Nat \ {0}
    BY Typed
<1>2. CASE Subscribed
    <2>1. clientQ' = Sent(clientQ, ClientCap, m)
        BY <1>2 DEF ToClient
    <2>2. QED
        BY <1>1, <2>1, SentTo
<1>3. CASE ~ Subscribed
    BY <1>1, <1>3 DEF ToClient
<1>4. QED
    BY <1>2, <1>3

(* publish_alarm_snapshot queues the snapshot of now behind all else.      *)
LEMMA WithSnapshotEffect ==
    ASSUME IInv, alarmQ' = WithSnapshot(alarmQ)
    PROVE  LET now == SnapshotMsg(Sync!SnapshotAt(log, Current, Revision))
           IN  /\ alarmQ' \in Receivers(Messages, AlarmCap)
               /\ Elements(alarmQ'.queue) \subseteq Elements(alarmQ.queue) \cup {now}
               /\ Sorted(alarmQ'.queue)
               /\ Before(OnItsWay, {now})
               /\ ~ alarmQ'.lagged =>
                     /\ ~ alarmQ.lagged
                     /\ Elements(alarmQ'.queue) = Elements(alarmQ.queue) \cup {now}
<1> DEFINE now == SnapshotMsg(Sync!SnapshotAt(log, Current, Revision))
<1>1. TypeOK /\ FeedOrdered /\ \A m \in OnItsWay : Genuine(m)
    BY DEF IInv, Chain
<1>2. /\ alarmQ \in Receivers(Messages, AlarmCap) /\ AlarmCap \in Nat \ {0}
      /\ log \in Logs /\ Current \in 1 .. Len(log) /\ Revision \in 0 .. Len(log[Current])
      /\ Revision \in Nat
    BY <1>1, Typed
<1>3. Sync!SnapshotAt(log, Current, Revision) \in Snapshots
    BY <1>2, LogMessages
<1>4. now \in Messages /\ now.type = "snapshot"
      /\ now.body.epoch = Current /\ now.body.revision = Revision
    BY <1>3, Kinds DEF SnapshotMsg, Sync!SnapshotAt
<1>5. alarmQ' = Sent(alarmQ, AlarmCap, now)
    BY DEF WithSnapshot
<1> HIDE DEF now
<1>6. Before(OnItsWay, {now})
    BY <1>1, <1>2, <1>4, NowIsLast DEF Relevant
<1>7. Before(Elements(alarmQ.queue), {now}) /\ Sorted(alarmQ.queue)
    BY <1>1, <1>6 DEF Before, OnItsWay, FeedOrdered
<1>8. LET after == Sent(alarmQ, AlarmCap, now)
      IN  /\ after \in Receivers(Messages, AlarmCap)
          /\ Elements(after.queue) \subseteq Elements(alarmQ.queue) \cup {now}
          /\ Sorted(after.queue)
          /\ ~ after.lagged => /\ ~ alarmQ.lagged
                               /\ Elements(after.queue) = Elements(alarmQ.queue) \cup {now}
    BY <1>2, <1>4, <1>7, SentTo
<1>9. QED
    BY <1>5, <1>6, <1>8 DEF now

(* What is on its way is in order with the queues in front of it.          *)
LEMMA QueuesApart ==
    ASSUME Sorted(uiQ'), Sorted(wire'), Sorted(clientQ'.queue), Sorted(alarmQ'.queue),
           NEW m, FeedOrdered, Before(OnItsWay, {m}),
           Elements(uiQ') \subseteq Elements(uiQ),
           Elements(wire') \subseteq Elements(wire),
           Elements(clientQ'.queue) \subseteq Elements(clientQ.queue),
           Elements(alarmQ'.queue) \subseteq Elements(alarmQ.queue) \cup {m}
    PROVE  FeedOrdered'
BY DEF FeedOrdered, Before, OnItsWay

(* The forwarder's tick.                                                   *)
LEMMA SnapshotTickIInv == ASSUME IInv, SnapshotTick PROVE IInv'
<1> DEFINE now == SnapshotMsg(Sync!SnapshotAt(log, Current, Revision))
<1>0. TypeOK /\ FeedOrdered
    BY DEF IInv, Chain
<1>1. /\ UNCHANGED <<log, uiDrop, clientQ, conn, wire, uiQ, feedDrop, view, since>>
      /\ alarmQ' = WithSnapshot(alarmQ)
    BY DEF SnapshotTick, linkVars, uiVars
<1>2. /\ alarmQ' \in Receivers(Messages, AlarmCap)
      /\ Elements(alarmQ'.queue) \subseteq Elements(alarmQ.queue) \cup {now}
      /\ Sorted(alarmQ'.queue) /\ Before(OnItsWay, {now})
      /\ ~ alarmQ'.lagged => /\ ~ alarmQ.lagged
                             /\ Elements(alarmQ'.queue) = Elements(alarmQ.queue) \cup {now}
    BY <1>1, WithSnapshotEffect
<1> HIDE DEF now
<1>3. TypeOK'
    BY <1>0, <1>1, <1>2 DEF TypeOK
<1>4. FeedOrdered'
    BY <1>0, <1>1, <1>2, QueuesApart DEF FeedOrdered
<1>5. \A m \in OnItsWay' : m \in OnItsWay \/ m = now
    BY <1>1, <1>2 DEF OnItsWay
<1>6. (Subscribed /\ ~LossCounted)' =>
          /\ Subscribed /\ ~LossCounted /\ since' = since
          /\ \A m \in OnItsWay : m \in OnItsWay'
    BY <1>1, <1>2 DEF Subscribed, LossCounted, OnItsWay
<1>7. QED
    BY <1>1, <1>3, <1>4, <1>5, <1>6, QueueStep DEF now

(* serve_ui_client starts.                                                 *)
LEMMA ServeStartIInv == ASSUME IInv, ServeStart PROVE IInv'
<1> DEFINE now == SnapshotMsg(Sync!SnapshotAt(log, Current, Revision))
<1>0. TypeOK /\ FeedOrdered
    BY DEF IInv, Chain
<1>1. /\ UNCHANGED <<log, uiDrop, clientQ, wire, uiQ, feedDrop, view, since>>
      /\ alarmQ' = WithSnapshot(alarmQ) /\ conn = "accepted" /\ conn' = "serving"
    BY DEF ServeStart, uiVars
<1>2. /\ alarmQ' \in Receivers(Messages, AlarmCap)
      /\ Elements(alarmQ'.queue) \subseteq Elements(alarmQ.queue) \cup {now}
      /\ Sorted(alarmQ'.queue) /\ Before(OnItsWay, {now})
      /\ ~ alarmQ'.lagged => /\ ~ alarmQ.lagged
                             /\ Elements(alarmQ'.queue) = Elements(alarmQ.queue) \cup {now}
    BY <1>1, WithSnapshotEffect
<1> HIDE DEF now
<1>3. TypeOK'
    BY <1>0, <1>1, <1>2 DEF TypeOK, Connections
<1>4. FeedOrdered'
    BY <1>0, <1>1, <1>2, QueuesApart DEF FeedOrdered
<1>5. \A m \in OnItsWay' : m \in OnItsWay \/ m = now
    BY <1>1, <1>2 DEF OnItsWay
<1>6. (Subscribed /\ ~LossCounted)' =>
          /\ Subscribed /\ ~LossCounted /\ since' = since
          /\ \A m \in OnItsWay : m \in OnItsWay'
    BY <1>1, <1>2 DEF Subscribed, LossCounted, OnItsWay
<1>7. QED
    BY <1>1, <1>3, <1>4, <1>5, <1>6, QueueStep DEF now

(* What a task takes from the front of one queue and puts at the end of    *)
(* the next stays in order.                                                *)
LEMMA HeadMoves ==
    ASSUME NEW S, NEW q \in Seq(S), q # <<>>, Sorted(q), NEW P, Before(P, Elements(q))
    PROVE  /\ Sorted(Tail(q)) /\ Before({Head(q)}, Elements(Tail(q)))
           /\ Before(P, {Head(q)}) /\ Before(P, Elements(Tail(q)))
BY TailOf DEF Before

(* run_alarm_ui_forwarder passes a message on.                             *)
LEMMA ForwardIInv == ASSUME IInv, Forward PROVE IInv'
<1> DEFINE m == Head(alarmQ.queue)
           rest == Tail(alarmQ.queue)
<1>0. TypeOK /\ FeedOrdered
    BY DEF IInv, Chain
<1>1. /\ UNCHANGED <<log, uiDrop, conn, wire, uiQ, feedDrop, view, since>>
      /\ alarmQ' = Received(alarmQ) /\ HasMessage(alarmQ) /\ ToClient(m)
    BY DEF Forward, uiVars
<1>2. /\ alarmQ.queue \in Seq(Messages) /\ alarmQ.queue # <<>> /\ m \in Messages
      /\ alarmQ' \in Receivers(Messages, AlarmCap)
      /\ alarmQ'.queue = rest /\ alarmQ'.lagged = alarmQ.lagged
    BY <1>0, <1>1, Typed, ReceivedFrom
<1>3. Elements(alarmQ.queue) = {m} \cup Elements(rest)
    BY <1>2, TailOf
<1>4. /\ clientQ' \in Receivers(Messages, ClientCap)
      /\ Elements(clientQ'.queue) \subseteq Elements(clientQ.queue) \cup {m}
      /\ Sorted(clientQ.queue) /\ Before(Elements(clientQ.queue), {m}) => Sorted(clientQ'.queue)
      /\ Subscribed /\ ~ clientQ'.lagged =>
            ~ clientQ.lagged /\ Elements(clientQ'.queue) = Elements(clientQ.queue) \cup {m}
    BY <1>0, <1>1, <1>2, ToClientEffect
<1>5. /\ Sorted(rest) /\ Before({m}, Elements(rest))
      /\ \A P : Before(P, Elements(alarmQ.queue)) =>
                    Before(P, {m}) /\ Before(P, Elements(rest))
    BY <1>0, <1>2, HeadMoves DEF FeedOrdered
<1> HIDE DEF m, rest
<1>6. TypeOK'
    BY <1>0, <1>1, <1>2, <1>4 DEF TypeOK
<1>7. FeedOrdered'
    BY <1>0, <1>1, <1>2, <1>4, <1>5 DEF FeedOrdered, Before
<1>8. \A n \in OnItsWay' : n \in OnItsWay
    BY <1>1, <1>2, <1>3, <1>4 DEF OnItsWay
<1>9. (Subscribed /\ ~LossCounted)' =>
          /\ Subscribed /\ ~LossCounted /\ since' = since
          /\ \A n \in OnItsWay : n \in OnItsWay'
    BY <1>1, <1>2, <1>3, <1>4 DEF Subscribed, LossCounted, OnItsWay
<1>10. QED
    BY <1>1, <1>6, <1>7, <1>8, <1>9, QueueStep

(* It reports a lag.                                                       *)
LEMMA ForwarderLaggedIInv == ASSUME IInv, ForwarderLagged PROVE IInv'
<1>0. TypeOK /\ FeedOrdered
    BY DEF IInv, Chain
<1>1. /\ UNCHANGED <<log, clientQ, conn, wire, uiQ, feedDrop, view, since>>
      /\ alarmQ' = LagReported(alarmQ) /\ uiDrop' = TRUE
    BY DEF ForwarderLagged, linkVars, uiVars
<1>2. alarmQ' \in Receivers(Messages, AlarmCap) /\ alarmQ'.queue = alarmQ.queue
    BY <1>0, <1>1, Typed, ReceivedFrom
<1>3. TypeOK'
    BY <1>0, <1>1, <1>2 DEF TypeOK
<1>4. FeedOrdered' /\ OnItsWay' = OnItsWay
    BY <1>0, <1>1, <1>2 DEF FeedOrdered, OnItsWay
<1>5. LossCounted'
    BY <1>1 DEF LossCounted
<1>6. QED
    BY <1>1, <1>3, <1>4, <1>5, QueueStep

(* A sample goes to the client on the same queue.                          *)
LEMMA ForwardSampleIInv == ASSUME IInv, NEW c \in Channels, ForwardSample(c) PROVE IInv'
<1> DEFINE m == SampleMsg(c)
<1>0. TypeOK /\ FeedOrdered
    BY DEF IInv, Chain
<1>1. /\ UNCHANGED <<log, alarmQ, uiDrop, conn, wire, uiQ, feedDrop, view, since>>
      /\ ToClient(m)
    BY DEF ForwardSample, collectorVars, uiVars
<1>2. m \in Messages /\ ~ Relevant(m)
    BY Kinds DEF SampleMsg, Relevant
<1> HIDE DEF m
<1>3. /\ clientQ' \in Receivers(Messages, ClientCap)
      /\ Elements(clientQ'.queue) \subseteq Elements(clientQ.queue) \cup {m}
      /\ Sorted(clientQ.queue) /\ Before(Elements(clientQ.queue), {m}) => Sorted(clientQ'.queue)
      /\ Subscribed /\ ~ clientQ'.lagged =>
            ~ clientQ.lagged /\ Elements(clientQ'.queue) = Elements(clientQ.queue) \cup {m}
    BY <1>0, <1>1, <1>2, ToClientEffect
<1>4. \A P : Before(P, {m}) /\ Before({m}, P)
    BY <1>2, AnyOrder DEF Before
<1>5. TypeOK'
    BY <1>0, <1>1, <1>3 DEF TypeOK
<1>6. FeedOrdered'
    BY <1>0, <1>1, <1>3, <1>4 DEF FeedOrdered, Before
<1>7. \A n \in OnItsWay' : n \in OnItsWay \/ ~ Relevant(n)
    BY <1>1, <1>2, <1>3 DEF OnItsWay
<1>8. (Subscribed /\ ~LossCounted)' =>
          /\ Subscribed /\ ~LossCounted /\ since' = since
          /\ \A n \in OnItsWay : n \in OnItsWay'
    BY <1>1, <1>3 DEF Subscribed, LossCounted, OnItsWay
<1>9. QED
    BY <1>1, <1>5, <1>6, <1>7, <1>8, QueueStep

(* serve_ui_client writes a message.                                       *)
LEMMA ServeSendIInv == ASSUME IInv, ServeSend PROVE IInv'
<1> DEFINE m == Head(clientQ.queue)
           rest == Tail(clientQ.queue)
<1>0. TypeOK /\ FeedOrdered
    BY DEF IInv, Chain
<1>1. /\ UNCHANGED <<log, alarmQ, uiDrop, conn, uiQ, feedDrop, view, since>>
      /\ clientQ' = Received(clientQ) /\ HasMessage(clientQ)
      /\ wire' = Append(wire, m) /\ Len(wire) < WireCap
    BY DEF ServeSend, collectorVars, uiVars
<1>2. /\ clientQ.queue \in Seq(Messages) /\ clientQ.queue # <<>> /\ m \in Messages
      /\ clientQ' \in Receivers(Messages, ClientCap)
      /\ clientQ'.queue = rest /\ clientQ'.lagged = clientQ.lagged
    BY <1>0, <1>1, Typed, ReceivedFrom
<1>3. Elements(clientQ.queue) = {m} \cup Elements(rest)
    BY <1>2, TailOf
<1>4. /\ Append(wire, m) \in Seq(Messages) /\ Len(Append(wire, m)) = Len(wire) + 1
      /\ Elements(Append(wire, m)) = Elements(wire) \cup {m}
      /\ Sorted(wire) /\ Before(Elements(wire), {m}) => Sorted(Append(wire, m))
    BY <1>0, <1>2, Typed, AppendTo
<1>5. /\ Sorted(rest) /\ Before({m}, Elements(rest))
      /\ \A P : Before(P, Elements(clientQ.queue)) =>
                    Before(P, {m}) /\ Before(P, Elements(rest))
    BY <1>0, <1>2, HeadMoves DEF FeedOrdered
<1>6. Len(wire) + 1 <= WireCap
    BY <1>0, <1>1, Typed, CapAssumption
<1> HIDE DEF m, rest
<1>7. TypeOK'
    BY <1>0, <1>1, <1>2, <1>4, <1>6 DEF TypeOK
<1>8. FeedOrdered'
    BY <1>0, <1>1, <1>2, <1>3, <1>4, <1>5 DEF FeedOrdered, Before
<1>9. OnItsWay' = OnItsWay
    BY <1>1, <1>2, <1>3, <1>4 DEF OnItsWay
<1>10. (Subscribed /\ ~LossCounted)' => Subscribed /\ ~LossCounted /\ since' = since
    BY <1>1, <1>2 DEF Subscribed, LossCounted
<1>11. QED
    BY <1>1, <1>7, <1>8, <1>9, <1>10, QueueStep

(* It reports a lag.                                                       *)
LEMMA ServeLaggedIInv == ASSUME IInv, ServeLagged PROVE IInv'
<1>0. TypeOK /\ FeedOrdered
    BY DEF IInv, Chain
<1>1. /\ UNCHANGED <<log, alarmQ, conn, wire, uiQ, feedDrop, view, since>>
      /\ clientQ' = LagReported(clientQ) /\ uiDrop' = TRUE
    BY DEF ServeLagged, uiVars
<1>2. clientQ' \in Receivers(Messages, ClientCap) /\ clientQ'.queue = clientQ.queue
    BY <1>0, <1>1, Typed, ReceivedFrom
<1>3. TypeOK'
    BY <1>0, <1>1, <1>2 DEF TypeOK
<1>4. FeedOrdered' /\ OnItsWay' = OnItsWay
    BY <1>0, <1>1, <1>2 DEF FeedOrdered, OnItsWay
<1>5. LossCounted'
    BY <1>1 DEF LossCounted
<1>6. QED
    BY <1>1, <1>3, <1>4, <1>5, QueueStep

(* The socket fails: what was read of it stays in order.                   *)
LEMMA BreakAfterEffect ==
    ASSUME IInv, NEW n \in 0 .. Len(wire), BreakAfter(n)
    PROVE  /\ wire' \in Seq(Messages) /\ Len(wire') <= WireCap
           /\ Elements(wire') \subseteq Elements(wire) /\ Sorted(wire')
           /\ clientQ' \in Receivers(Messages, ClientCap)
           /\ clientQ'.queue = <<>> /\ Elements(clientQ'.queue) = {} /\ Sorted(clientQ'.queue)
           /\ conn' \in Connections /\ ~ Subscribed'
<1>1. TypeOK /\ FeedOrdered
    BY DEF IInv, Chain
<1>2. wire \in Seq(Messages) /\ Len(wire) <= WireCap /\ WireCap \in Nat /\ conn \in Connections
    BY <1>1, CapAssumption DEF TypeOK
<1>3. wire' = SubSeq(wire, 1, n) /\ clientQ' = EmptyChannel
    BY DEF BreakAfter
<1>4. clientQ' \in Receivers(Messages, ClientCap) /\ clientQ'.queue = <<>>
    BY <1>1, <1>3, Typed, ReceivedFrom
<1>5. conn' \in Connections /\ ~ Subscribed'
    BY <1>2 DEF BreakAfter, Subscribed, Connections
<1>6. n <= WireCap
    BY <1>2
<1>7. QED
    BY <1>1, <1>2, <1>3, <1>4, <1>5, <1>6, PrefixOf, EmptyOne DEF FeedOrdered

(* The connection breaks.                                                  *)
LEMMA BreakIInv == ASSUME IInv, NEW n \in 0 .. Len(wire), Break(n) PROVE IInv'
<1>0. TypeOK /\ FeedOrdered
    BY DEF IInv, Chain
<1>1. UNCHANGED <<log, alarmQ, uiDrop, uiQ, feedDrop, view, since>> /\ BreakAfter(n)
    BY DEF Break, collectorVars, uiVars
<1>2. /\ wire' \in Seq(Messages) /\ Len(wire') <= WireCap
      /\ Elements(wire') \subseteq Elements(wire) /\ Sorted(wire')
      /\ clientQ' \in Receivers(Messages, ClientCap)
      /\ clientQ'.queue = <<>> /\ Elements(clientQ'.queue) = {} /\ Sorted(clientQ'.queue)
      /\ conn' \in Connections /\ ~ Subscribed'
    BY <1>1, BreakAfterEffect
<1>3. TypeOK'
    BY <1>0, <1>1, <1>2 DEF TypeOK
<1>4. FeedOrdered'
    BY <1>0, <1>1, <1>2 DEF FeedOrdered, Before
<1>5. \A m \in OnItsWay' : m \in OnItsWay
    BY <1>1, <1>2 DEF OnItsWay
<1>6. QED
    BY <1>1, <1>2, <1>3, <1>4, <1>5, QueueStep

(* A connection: what was published before it is not owed.                 *)
LEMMA ConnectIInv == ASSUME IInv, Connect PROVE IInv'
<1>0. TypeOK /\ FeedOrdered
    BY DEF IInv, Chain
<1>1. /\ UNCHANGED <<log, alarmQ, uiDrop, clientQ, wire, view>>
      /\ conn' = "accepted" /\ since' = Revision /\ TrySend(StatusMsg)
    BY DEF Connect, collectorVars
<1>2. StatusMsg \in Messages /\ ~ Relevant(StatusMsg)
    BY Kinds DEF StatusMsg, Relevant
<1>3. /\ uiQ' \in Seq(Messages) /\ Len(uiQ') <= UiCap /\ feedDrop' \in BOOLEAN
      /\ Elements(uiQ') \subseteq Elements(uiQ) \cup {StatusMsg}
      /\ Sorted(uiQ) /\ Before(Elements(uiQ), {StatusMsg}) => Sorted(uiQ')
    BY <1>0, <1>1, <1>2, TrySendEffect
<1>4. \A P : Before(P, {StatusMsg}) /\ Before({StatusMsg}, P)
    BY <1>2, AnyOrder DEF Before
<1>5. Revision \in Nat
    BY <1>0, Typed
<1>6. TypeOK'
    BY <1>0, <1>1, <1>3, <1>5 DEF TypeOK, Connections
<1>7. FeedOrdered'
    BY <1>0, <1>1, <1>3, <1>4 DEF FeedOrdered, Before
<1>8. \A n \in OnItsWay' : n \in OnItsWay \/ ~ Relevant(n)
    BY <1>1, <1>2, <1>3 DEF OnItsWay
<1>9. since' >= Revision
    BY <1>1, <1>5
<1>10. QED
    BY <1>1, <1>6, <1>7, <1>8, <1>9, QueueStep

(* A failed attempt, or the end of a connection, only reports itself.      *)
LEMMA StatusIInv ==
    ASSUME IInv, conn = "down" \/ conn = "broken", conn' = "down", TrySend(StatusMsg),
           UNCHANGED <<log, alarmQ, uiDrop, clientQ, wire, view, since>>
    PROVE  IInv'
<1>0. TypeOK /\ FeedOrdered
    BY DEF IInv, Chain
<1>1. StatusMsg \in Messages /\ ~ Relevant(StatusMsg)
    BY Kinds DEF StatusMsg, Relevant
<1>2. /\ uiQ' \in Seq(Messages) /\ Len(uiQ') <= UiCap /\ feedDrop' \in BOOLEAN
      /\ Elements(uiQ') \subseteq Elements(uiQ) \cup {StatusMsg}
      /\ Sorted(uiQ) /\ Before(Elements(uiQ), {StatusMsg}) => Sorted(uiQ')
    BY <1>0, <1>1, TrySendEffect
<1>3. \A P : Before(P, {StatusMsg}) /\ Before({StatusMsg}, P)
    BY <1>1, AnyOrder DEF Before
<1>4. TypeOK'
    BY <1>0, <1>2 DEF TypeOK, Connections
<1>5. FeedOrdered'
    BY <1>0, <1>2, <1>3 DEF FeedOrdered, Before
<1>6. \A n \in OnItsWay' : n \in OnItsWay \/ ~ Relevant(n)
    BY <1>1, <1>2 DEF OnItsWay
<1>7. ~ Subscribed'
    BY DEF Subscribed
<1>8. QED
    BY <1>4, <1>5, <1>6, <1>7, QueueStep

(* resilient_feed_thread reads a frame: a snapshot waits for room.         *)
LEMMA ReadFrameIInv == ASSUME IInv, ReadFrame PROVE IInv'
<1> DEFINE m == Head(wire)
           rest == Tail(wire)
<1>0. TypeOK /\ FeedOrdered
    BY DEF IInv, Chain
<1>1. /\ UNCHANGED <<log, alarmQ, uiDrop, clientQ, conn, view, since>>
      /\ wire # <<>> /\ wire' = rest
    BY DEF ReadFrame, collectorVars
<1>2. /\ wire \in Seq(Messages) /\ Len(wire) <= WireCap /\ WireCap \in Nat
      /\ uiQ \in Seq(Messages) /\ Len(uiQ) <= UiCap /\ UiCap \in Nat
    BY <1>0, CapAssumption DEF TypeOK
<1>3. /\ m \in Messages /\ rest \in Seq(Messages) /\ Len(rest) = Len(wire) - 1
      /\ Elements(wire) = {m} \cup Elements(rest)
    BY <1>1, <1>2, TailOf
<1>4. /\ Sorted(rest) /\ Before({m}, Elements(rest))
      /\ \A P : Before(P, Elements(wire)) => Before(P, {m}) /\ Before(P, Elements(rest))
    BY <1>0, <1>1, <1>2, HeadMoves DEF FeedOrdered
<1>5. TrySend(m) \/ (Len(uiQ) < UiCap /\ uiQ' = Append(uiQ, m) /\ feedDrop' = feedDrop)
    BY DEF ReadFrame
<1>6. Len(rest) <= WireCap
    BY <1>2, <1>3
<1> HIDE DEF m, rest
<1>7. TrySend(m)
    BY <1>5 DEF TrySend
<1>8. /\ uiQ' \in Seq(Messages) /\ Len(uiQ') <= UiCap /\ feedDrop' \in BOOLEAN
      /\ Elements(uiQ') \subseteq Elements(uiQ) \cup {m}
      /\ Sorted(uiQ) /\ Before(Elements(uiQ), {m}) => Sorted(uiQ')
      /\ ~ feedDrop' => ~ feedDrop /\ Elements(uiQ') = Elements(uiQ) \cup {m}
    BY <1>0, <1>3, <1>7, TrySendEffect
<1>9. TypeOK'
    BY <1>0, <1>1, <1>3, <1>6, <1>8 DEF TypeOK
<1>10. FeedOrdered'
    BY <1>0, <1>1, <1>3, <1>4, <1>8 DEF FeedOrdered, Before
<1>11. \A n \in OnItsWay' : n \in OnItsWay
    BY <1>1, <1>3, <1>8 DEF OnItsWay
<1>12. (Subscribed /\ ~LossCounted)' =>
          /\ Subscribed /\ ~LossCounted /\ since' = since
          /\ \A n \in OnItsWay : n \in OnItsWay'
    BY <1>1, <1>3, <1>8 DEF Subscribed, LossCounted, OnItsWay
<1>13. QED
    BY <1>1, <1>9, <1>10, <1>11, <1>12, QueueStep

-----------------------------------------------------------------------------
\* Steps of the collector.

(* The log grows, the view stays: what the view knows stays published.     *)
LEMMA StillPublished ==
    ASSUME TypeOK, ViewPublished, HistorySorted, view' = view,
           Len(log') >= Len(log), Len(log') \in Nat,
           \A e \in 1 .. Len(log) : Len(log'[e]) >= Len(log[e]) /\ Len(log'[e]) \in Nat
    PROVE  ViewPublished' /\ HistorySorted'
<1>1. /\ view.tracker \in Trackers /\ view.history \in Seq(Updates)
      /\ \A e \in 1 .. Len(log) : Len(log[e]) \in Nat
    BY Typed
<1>2. view.tracker.epoch \in Nat /\ view.tracker.epoch <= Len(log)
    BY <1>1 DEF Trackers, ViewPublished
<1>3. view.tracker.epoch <= Len(log')
    BY <1>2
<1>4. ASSUME view.tracker.epoch # NoEpoch
      PROVE  /\ view.tracker.snapshot_revision <= Len(log'[view.tracker.epoch])
             /\ \A k \in Keys : view.tracker.revisions[k] <= Len(log'[view.tracker.epoch])
    <2>1. view.tracker.epoch \in 1 .. Len(log)
        BY <1>2, <1>4 DEF NoEpoch
    <2>2. /\ view.tracker.snapshot_revision <= Len(log[view.tracker.epoch])
          /\ \A k \in Keys : view.tracker.revisions[k] <= Len(log[view.tracker.epoch])
        BY <1>4 DEF ViewPublished
    <2>3. /\ view.tracker.snapshot_revision \in Int
          /\ \A k \in Keys : view.tracker.revisions[k] \in Int
        BY <1>1 DEF Trackers, NoRevision
    <2>4. QED
        BY <1>1, <2>1, <2>2, <2>3
<1>5. ASSUME NEW i \in DOMAIN view.history
      PROVE  /\ view.history[i].epoch \in 1 .. Len(log')
             /\ view.history[i].revision \in 1 .. Len(log'[view.history[i].epoch])
    <2>1. /\ view.history[i].epoch \in 1 .. Len(log)
          /\ view.history[i].revision \in 1 .. Len(log[view.history[i].epoch])
        BY DEF ViewPublished
    <2>2. QED
        BY <1>1, <2>1
<1>6. QED
    BY <1>3, <1>4, <1>5 DEF ViewPublished, HistorySorted

(* publish_alarm: the update of the next revision goes behind all else.    *)
LEMMA PublishIInv ==
    ASSUME IInv, NEW k \in Keys, NEW a \in EventValue, Publish(k, a)
    PROVE  IInv'
<1> DEFINE update == UpdateMsg(Sync!UpdateAt(log', Current, Revision + 1))
<1> PICK m : m = update
    OBVIOUS
<1>0. TypeOK /\ Chain /\ Owed /\ ViewFaithful
    BY DEF IInv
<1>1. /\ UNCHANGED <<uiDrop, clientQ, conn, wire, uiQ, feedDrop, view, since>>
      /\ log' = Sync!Extended(log, k, a) /\ alarmQ' = Sent(alarmQ, AlarmCap, m)
    BY DEF Publish, linkVars, uiVars
<1>2. /\ log \in Logs /\ log # <<>> /\ Current \in 1 .. Len(log) /\ Current = Len(log)
      /\ Revision \in Nat /\ since \in Nat
      /\ \A e \in 1 .. Len(log) : Len(log[e]) \in Nat
      /\ alarmQ \in Receivers(Messages, AlarmCap) /\ AlarmCap \in Nat \ {0}
      /\ view.tracker \in Trackers
    BY <1>0, Typed
<1>3. /\ log' \in Logs /\ log' # <<>> /\ Len(log') = Len(log)
      /\ Len(log'[Current]) = Revision + 1
      /\ \A e \in 1 .. Len(log) :
            /\ e # Current => log'[e] = log[e]
            /\ \A r \in 1 .. Len(log[e]) : log'[e][r] = log[e][r]
    BY <1>1, <1>2, ExtendedKeeps DEF Current, Revision
<1>4. Current' = Current /\ Revision' = Revision + 1
    BY <1>2, <1>3 DEF Current, Revision
<1>5. \A e \in 1 .. Len(log) : /\ Len(log'[e]) >= Len(log[e]) /\ Len(log'[e]) \in Nat
                               /\ e # Current => Len(log'[e]) = Len(log[e])
    BY <1>2, <1>3 DEF Revision
<1>6. /\ m \in Messages /\ m.type = "update" /\ m.body = Sync!UpdateAt(log', Current, Revision + 1)
      /\ m.body.epoch = Current /\ m.body.revision = Revision + 1
    <2>1. Current \in 1 .. Len(log') /\ Revision + 1 \in 0 .. Len(log'[Current])
          /\ Revision + 1 # 0
        BY <1>2, <1>3
    <2>2. Sync!UpdateAt(log', Current, Revision + 1) \in Updates
        BY <1>3, <2>1, LogMessages
    <2>3. QED
        BY <2>2, Kinds DEF UpdateMsg, Sync!UpdateAt
<1> HIDE DEF update
<1>7. Before(OnItsWay, {m})
    <2>1. m.body.revision \in Nat /\ m.body.revision > Revision /\ m.body.revision >= Revision
        BY <1>2, <1>6
    <2>2. \A n \in OnItsWay : Genuine(n)
        BY <1>0 DEF Chain
    <2>3. QED
        BY <1>0, <1>6, <2>1, <2>2, NowIsLast DEF Relevant
<1>8. FeedOrdered
    BY <1>0 DEF Chain
<1>9. /\ alarmQ' \in Receivers(Messages, AlarmCap)
      /\ Elements(alarmQ'.queue) \subseteq Elements(alarmQ.queue) \cup {m}
      /\ Sorted(alarmQ'.queue)
      /\ ~ alarmQ'.lagged => /\ ~ alarmQ.lagged
                             /\ Elements(alarmQ'.queue) = Elements(alarmQ.queue) \cup {m}
    <2>1. Before(Elements(alarmQ.queue), {m}) /\ Sorted(alarmQ.queue)
        BY <1>7, <1>8 DEF FeedOrdered, Before, OnItsWay
    <2>2. QED
        BY <1>1, <1>2, <1>6, <2>1, SentTo
<1>10. TypeOK'
    BY <1>0, <1>1, <1>3, <1>9 DEF TypeOK, Logs
<1>11. FeedOrdered'
    BY <1>1, <1>7, <1>8, <1>9, QueuesApart DEF FeedOrdered
<1>12. \A n \in OnItsWay' : n \in OnItsWay \/ n = m
    BY <1>1, <1>9 DEF OnItsWay
<1>13. ViewPublished' /\ HistorySorted'
    <2>1. TypeOK /\ ViewPublished /\ HistorySorted
        BY <1>0 DEF Chain
    <2>2. Len(log') >= Len(log) /\ Len(log') \in Nat
        BY <1>2, <1>3
    <2>3. QED
        BY <1>1, <1>5, <2>1, <2>2, StillPublished
<1>14. ASSUME NEW n \in OnItsWay' PROVE (Genuine(n) /\ Ahead(n))'
    <2>1. CASE n \in OnItsWay
        <3>1. Genuine(n) /\ Ahead(n)
            BY <1>0, <2>1 DEF Chain
        <3>2. Genuine(n)'
            BY <1>0, <1>2, <1>3, <1>5, <3>1, StillGenuine
        <3>3. Ahead(n)'
            BY <1>1, <3>1 DEF Ahead
        <3>4. QED
            BY <3>2, <3>3
    <2>2. CASE n = m
        <3>1. Genuine(m)'
            <4>1. Current \in 1 .. Len(log') /\ Revision + 1 \in 1 .. Len(log'[Current])
                BY <1>2, <1>3
            <4>2. QED
                BY <1>6, <4>1 DEF Genuine
        <3>2. /\ view.tracker.epoch <= Current /\ view.tracker.epoch \in Nat
              /\ view.tracker.snapshot_revision \in Int
              /\ \A key \in Keys : view.tracker.revisions[key] \in Nat
            BY <1>0, <1>2 DEF Chain, ViewPublished, Trackers, NoRevision
        <3>3. ASSUME view.tracker.epoch = Current
              PROVE  /\ m.body.revision > view.tracker.snapshot_revision
                     /\ \A key \in Keys : m.body.revision > view.tracker.revisions[key]
            <4>1. /\ view.tracker.snapshot_revision <= Revision
                  /\ \A key \in Keys : view.tracker.revisions[key] <= Revision
                BY <1>0, <1>2, <3>3 DEF Chain, ViewPublished, NoEpoch, Revision
            <4>2. QED
                BY <1>2, <1>6, <3>2, <4>1
        <3>4. ASSUME NEW i \in DOMAIN view.history
              PROVE  \/ view.history[i].epoch < Current
                     \/ view.history[i].epoch = Current /\ view.history[i].revision < Revision + 1
            <4>1. /\ view.history[i].epoch \in 1 .. Len(log)
                  /\ view.history[i].revision \in 1 .. Len(log[view.history[i].epoch])
                BY <1>0 DEF Chain, ViewPublished
            <4>2. QED
                BY <1>2, <4>1 DEF Revision
        <3>5. Ahead(m)'
            BY <1>1, <1>2, <1>6, <3>2, <3>3, <3>4 DEF Ahead
        <3>6. QED
            BY <2>2, <3>1, <3>5
    <2>3. QED
        BY <1>12, <2>1, <2>2
<1>15. IsFiniteSet(Published)'
    <2>1. Published' \subseteq Published \cup {<<Current, Revision + 1>>}
        <3>1. ASSUME NEW e \in DOMAIN log', NEW r \in DOMAIN log'[e]
              PROVE  <<e, r>> \in Published \cup {<<Current, Revision + 1>>}
            <4>1. e \in 1 .. Len(log) /\ e \in DOMAIN log
                BY <1>2, <1>3 DEF Logs
            <4>2. log'[e] \in Seq([key : Keys, view : AlarmMap])
                  /\ log[e] \in Seq([key : Keys, view : AlarmMap])
                BY <1>2, <1>3, <4>1 DEF Logs
            <4>3. r \in 1 .. Len(log'[e]) /\ DOMAIN log[e] = 1 .. Len(log[e])
                BY <4>2
            <4>4. r \in DOMAIN log[e] \/ (e = Current /\ r = Revision + 1)
                BY <1>2, <1>3, <1>5, <4>1, <4>3 DEF Revision
            <4>5. QED
                BY <4>1, <4>4 DEF Published
        <3>2. QED
            BY <3>1 DEF Published
    <2>2. IsFiniteSet(Published \cup {<<Current, Revision + 1>>})
        BY <1>0, FS_AddElement DEF Chain
    <2>3. QED
        BY <2>1, <2>2, FS_Subset
<1>16. Chain'
    BY <1>11, <1>13, <1>14, <1>15 DEF Chain
<1>17. Owed'
    <2> SUFFICES ASSUME (Subscribed /\ ~LossCounted)', NEW r \in since' + 1 .. Revision'
                 PROVE  (Coming(r) \/ Recalled(r) \/ Covered(r))'
        BY DEF Owed
    <2>1. /\ Subscribed /\ ~LossCounted
          /\ Elements(alarmQ'.queue) = Elements(alarmQ.queue) \cup {m}
        BY <1>1, <1>9 DEF Subscribed, LossCounted
    <2>2. m \in OnItsWay' /\ \A n \in OnItsWay : n \in OnItsWay'
        BY <1>1, <2>1 DEF OnItsWay
    <2>3. CASE r = Revision + 1
        BY <1>4, <1>6, <2>2, <2>3 DEF Coming
    <2>4. CASE r # Revision + 1
        <3>1. r \in since + 1 .. Revision
            BY <1>1, <1>2, <1>4, <2>4
        <3>2. Coming(r) \/ Recalled(r) \/ Covered(r)
            BY <1>0, <2>1, <3>1 DEF Owed
        <3>3. Coming(r) => Coming(r)'
            BY <1>4, <2>2 DEF Coming
        <3>4. Recalled(r) => Recalled(r)'
            BY <1>1, <1>4 DEF Recalled
        <3>5. Covered(r) => Covered(r)'
            BY <1>1, <1>4, <1>6, <1>12 DEF Covered
        <3>6. QED
            BY <3>2, <3>3, <3>4, <3>5
    <2>5. QED
        BY <2>3, <2>4
<1>18. ViewFaithful'
    BY <1>0, <1>1 DEF ViewFaithful
<1>19. QED
    BY <1>10, <1>16, <1>17, <1>18 DEF IInv

(* A new collector: the old one's messages stay in front.                  *)
LEMMA RestartIInv == ASSUME IInv, NEW n \in 0 .. Len(wire), Restart(n) PROVE IInv'
<1>0. TypeOK /\ Chain /\ Owed /\ ViewFaithful
    BY DEF IInv
<1>1. /\ log' = Append(log, <<>>) /\ alarmQ' = EmptyChannel /\ uiDrop' = FALSE /\ since' = 0
      /\ UNCHANGED <<uiQ, feedDrop, view>> /\ BreakAfter(n)
    BY DEF Restart, uiVars
<1>2. /\ wire' \in Seq(Messages) /\ Len(wire') <= WireCap
      /\ Elements(wire') \subseteq Elements(wire) /\ Sorted(wire')
      /\ clientQ' \in Receivers(Messages, ClientCap)
      /\ clientQ'.queue = <<>> /\ Elements(clientQ'.queue) = {} /\ Sorted(clientQ'.queue)
      /\ conn' \in Connections /\ ~ Subscribed'
    BY <1>1, BreakAfterEffect
<1>3. /\ alarmQ' \in Receivers(Messages, AlarmCap)
      /\ alarmQ'.queue = <<>> /\ Elements(alarmQ'.queue) = {} /\ Sorted(alarmQ'.queue)
    BY <1>0, <1>1, Typed, ReceivedFrom, EmptyOne
<1>4. /\ log' \in Seq(Seq([key : Keys, view : AlarmMap])) /\ log' # <<>>
      /\ Len(log') = Len(log) + 1 /\ Len(log) \in Nat
      /\ \A e \in 1 .. Len(log) : log'[e] = log[e]
      /\ log'[Len(log) + 1] = <<>>
    <2>1. <<>> \in Seq([key : Keys, view : AlarmMap])
        OBVIOUS
    <2>2. log \in Seq(Seq([key : Keys, view : AlarmMap]))
        BY <1>0 DEF TypeOK
    <2>3. QED
        BY <1>1, <2>1, <2>2
<1>5. \A e \in 1 .. Len(log) : Len(log[e]) \in Nat
    BY <1>0, Typed
<1>6. TypeOK'
    BY <1>0, <1>1, <1>2, <1>3, <1>4 DEF TypeOK
<1>7. FeedOrdered'
    BY <1>0, <1>1, <1>2, <1>3 DEF Chain, FeedOrdered, Before
<1>8. \A m \in OnItsWay' : m \in OnItsWay
    BY <1>1, <1>2, <1>3 DEF OnItsWay
<1>9. ASSUME NEW m \in OnItsWay' PROVE (Genuine(m) /\ Ahead(m))'
    <2>1. Genuine(m) /\ Ahead(m)
        BY <1>0, <1>8 DEF Chain
    <2>2. Genuine(m)'
        BY <1>0, <1>4, <1>5, <2>1, StillGenuine
    <2>3. QED
        BY <1>1, <2>1, <2>2 DEF Ahead
<1>10. ViewPublished' /\ HistorySorted'
    BY <1>0, <1>1, <1>4, <1>5, StillPublished DEF Chain
<1>11. IsFiniteSet(Published)'
    <2>1. ASSUME NEW e \in DOMAIN log', NEW r \in DOMAIN log'[e] PROVE <<e, r>> \in Published
        <3>1. e \in 1 .. Len(log) + 1 /\ DOMAIN log = 1 .. Len(log)
            BY <1>0, <1>4 DEF TypeOK
        <3>2. e # Len(log) + 1
            BY <1>4
        <3>3. e \in DOMAIN log /\ r \in DOMAIN log[e]
            BY <1>4, <3>1, <3>2
        <3>4. QED
            BY <3>3 DEF Published
    <2>2. Published' \subseteq Published
        BY <2>1 DEF Published
    <2>3. QED
        BY <1>0, <2>2, FS_Subset DEF Chain
<1>12. Chain'
    BY <1>7, <1>9, <1>10, <1>11 DEF Chain
<1>13. QED
    BY <1>0, <1>1, <1>2, <1>6, <1>12 DEF IInv, Owed, ViewFaithful

-----------------------------------------------------------------------------
\* Steps of the interface.

othersVars == <<log, alarmQ, uiDrop, clientQ, conn, wire, feedDrop>>

(* drain_messages takes the message all others come behind.                *)
LEMMA Drained ==
    ASSUME IInv, uiQ # <<>>, uiQ' = Tail(uiQ), UNCHANGED othersVars
    PROVE  /\ uiQ' \in Seq(Messages) /\ Len(uiQ') <= UiCap
           /\ FeedOrdered'
           /\ Head(uiQ) \in OnItsWay /\ Head(uiQ) \in Messages
           /\ OnItsWay = {Head(uiQ)} \cup OnItsWay'
           /\ \A n \in OnItsWay' : InOrder(Head(uiQ), n)
<1> DEFINE h == Head(uiQ)
<1>1. TypeOK /\ FeedOrdered
    BY DEF IInv, Chain
<1>2. uiQ \in Seq(Messages) /\ Len(uiQ) <= UiCap /\ UiCap \in Nat
    BY <1>1, CapAssumption DEF TypeOK
<1>3. /\ h \in Messages /\ Tail(uiQ) \in Seq(Messages) /\ Len(Tail(uiQ)) = Len(uiQ) - 1
      /\ Elements(uiQ) = {h} \cup Elements(Tail(uiQ))
      /\ Sorted(Tail(uiQ)) /\ Before({h}, Elements(Tail(uiQ)))
    BY <1>1, <1>2, TailOf DEF FeedOrdered
<1>4. Len(Tail(uiQ)) <= UiCap
    BY <1>2, <1>3
<1>5. UNCHANGED <<alarmQ, clientQ, wire>>
    BY DEF othersVars
<1> HIDE DEF h
<1>6. FeedOrdered'
    BY <1>1, <1>3, <1>5 DEF FeedOrdered, Before
<1>7. OnItsWay = {h} \cup OnItsWay' /\ h \in OnItsWay
    BY <1>3, <1>5 DEF OnItsWay
<1>8. \A n \in OnItsWay' : InOrder(h, n)
    BY <1>1, <1>3, <1>5 DEF FeedOrdered, Before, OnItsWay
<1>9. QED
    BY <1>3, <1>4, <1>6, <1>7, <1>8 DEF h

(* A step of the interface keeps the invariant if the view stays true and  *)
(* what is owed stays accounted for.                                       *)
LEMMA ViewStep ==
    ASSUME IInv, UNCHANGED othersVars,
           uiQ' \in Seq(Messages), Len(uiQ') <= UiCap, FeedOrdered',
           view' \in Views, since' \in Nat, since' >= since,
           \A m \in OnItsWay' : m \in OnItsWay /\ Ahead(m)',
           ViewPublished', HistorySorted', Faithful(view'),
           \A r \in since' + 1 .. Revision :
               Coming(r) \/ Recalled(r) \/ Covered(r) =>
                   (Coming(r) \/ Recalled(r) \/ Covered(r))'
    PROVE  IInv'
<1>0. TypeOK /\ Chain /\ Owed
    BY DEF IInv
<1>1. UNCHANGED <<log, alarmQ, uiDrop, clientQ, conn, wire, feedDrop>>
    BY DEF othersVars
<1>2. TypeOK'
    BY <1>0, <1>1 DEF TypeOK
<1>3. \A m \in OnItsWay' : Genuine(m)'
    BY <1>0, <1>1 DEF Chain, Genuine
<1>4. Chain'
    BY <1>0, <1>1, <1>3 DEF Chain, Published
<1>5. ViewFaithful'
    BY DEF ViewFaithful, Faithful
<1>6. /\ Revision' = Revision /\ Revision \in Nat /\ since \in Nat
      /\ Subscribed' = Subscribed /\ LossCounted' = LossCounted
    BY <1>0, <1>1, Typed DEF Revision, Current, Subscribed, LossCounted
<1>7. Owed'
    <2> SUFFICES ASSUME (Subscribed /\ ~LossCounted)', NEW r \in since' + 1 .. Revision'
                 PROVE  (Coming(r) \/ Recalled(r) \/ Covered(r))'
        BY DEF Owed
    <2>1. r \in since' + 1 .. Revision
        BY <1>6
    <2>2. \A a, b, c \in Nat : a >= b /\ r \in a + 1 .. c => r \in b + 1 .. c
        OBVIOUS
    <2>3. r \in since + 1 .. Revision
        BY <1>6, <2>1, <2>2
    <2>4. Coming(r) \/ Recalled(r) \/ Covered(r)
        BY <1>0, <1>6, <2>3 DEF Owed
    <2>5. QED
        BY <2>1, <2>4
<1>8. QED
    BY <1>2, <1>4, <1>5, <1>7 DEF IInv

(* The queue loses at most a message that is no update, tracker and        *)
(* history do not change.                                                  *)
LEMMA QuietView ==
    ASSUME IInv, UNCHANGED othersVars, since' = since,
           uiQ' = uiQ \/ (uiQ # <<>> /\ uiQ' = Tail(uiQ) /\ Head(uiQ).type # "update"),
           view' \in Views, view'.tracker = view.tracker, view'.history = view.history,
           Faithful(view) => Faithful(view')
    PROVE  IInv'
<1>0. TypeOK /\ Chain /\ FeedOrdered /\ Faithful(view)
    BY DEF IInv, Chain, ViewFaithful, Faithful
<1>1. UNCHANGED <<log, alarmQ, uiDrop, clientQ, conn, wire, feedDrop>>
    BY DEF othersVars
<1>2. /\ uiQ' \in Seq(Messages) /\ Len(uiQ') <= UiCap /\ FeedOrdered'
      /\ \A m \in OnItsWay' : m \in OnItsWay
      /\ \A m \in OnItsWay : m.type = "update" => m \in OnItsWay'
    <2>1. CASE uiQ' = uiQ
        BY <1>0, <1>1, <2>1 DEF TypeOK, FeedOrdered, OnItsWay
    <2>2. CASE uiQ # <<>> /\ uiQ' = Tail(uiQ) /\ Head(uiQ).type # "update"
        BY <2>2, Drained
    <2>3. QED
        BY <2>1, <2>2
<1>3. \A m \in OnItsWay' : m \in OnItsWay /\ Ahead(m)'
    BY <1>0, <1>2 DEF Chain, Ahead
<1>4. ViewPublished' /\ HistorySorted'
    BY <1>0, <1>1 DEF Chain, ViewPublished, HistorySorted
<1>5. Current' = Current
    BY <1>1 DEF Current
<1>6. ASSUME NEW r, Coming(r) \/ Recalled(r) \/ Covered(r)
      PROVE  (Coming(r) \/ Recalled(r) \/ Covered(r))'
    <2>1. Coming(r) => Coming(r)'
        BY <1>2, <1>5 DEF Coming
    <2>2. Recalled(r) => Recalled(r)'
        BY <1>5 DEF Recalled
    <2>3. Covered(r) => Covered(r)'
        BY <1>2, <1>5 DEF Covered
    <2>4. QED
        BY <1>6, <2>1, <2>2, <2>3
<1>7. since' \in Nat /\ since' >= since
    BY <1>0, Typed
<1>8. QED
    BY <1>0, <1>2, <1>3, <1>4, <1>6, <1>7, ViewStep

(* The operator dismisses a channel's timeouts.                            *)
LEMMA DismissIInv == ASSUME IInv, NEW c \in Channels, Dismiss(c) PROVE IInv'
<1>1. view' = DismissChannel(view, c) /\ UNCHANGED othersVars /\ uiQ' = uiQ /\ since' = since
    BY DEF Dismiss, Operator, othersVars, collectorVars, linkVars
<1>2. view \in Views
    BY Typed DEF IInv
<1>3. QED
    BY <1>1, <1>2, OperatorEffect, QuietView

(* The operator acknowledges all alarms shown.                             *)
LEMMA AcknowledgeIInv == ASSUME IInv, Acknowledge PROVE IInv'
<1>1. view' = AcknowledgeAll(view) /\ UNCHANGED othersVars /\ uiQ' = uiQ /\ since' = since
    BY DEF Acknowledge, Operator, othersVars, collectorVars, linkVars
<1>2. view \in Views
    BY Typed DEF IInv
<1>3. /\ view' \in Views /\ view'.tracker = view.tracker /\ view'.history = view.history
      /\ Faithful(view) => Faithful(view')
    BY <1>1, <1>2, OperatorEffect
<1>4. QED
    BY <1>1, <1>3, QuietView

(* The entries of the history are of the log, the first one the latest.    *)
LEMMA HistoryEntries ==
    ASSUME TypeOK, Chain
    PROVE  /\ DOMAIN view.history = 1 .. Len(view.history) /\ Len(view.history) \in Nat
           /\ \A i \in DOMAIN view.history :
                 /\ view.history[i] \in Updates
                 /\ view.history[i].epoch \in Nat \ {0} /\ view.history[i].revision \in Nat \ {0}
                 /\ view.history[i].epoch <= Current
                 /\ view.history[i].epoch = Current =>
                       /\ view.history[1].epoch = Current
                       /\ view.history[1].revision >= view.history[i].revision
<1>1. /\ view.history \in Seq(Updates) /\ Current = Len(log) /\ Current \in Nat
      /\ \A e \in 1 .. Len(log) : Len(log[e]) \in Nat
    BY Typed
<1>2. DOMAIN view.history = 1 .. Len(view.history) /\ Len(view.history) \in Nat
    BY <1>1
<1>3. ASSUME NEW i \in DOMAIN view.history
      PROVE  /\ view.history[i] \in Updates
             /\ view.history[i].epoch \in Nat \ {0} /\ view.history[i].revision \in Nat \ {0}
             /\ view.history[i].epoch <= Current
    <2>1. view.history[i] \in Updates
        BY <1>1, <1>3
    <2>2. view.history[i].epoch \in 1 .. Len(log)
        BY <1>3 DEF Chain, ViewPublished
    <2>3. QED
        BY <1>1, <2>1, <2>2 DEF Updates
<1>4. ASSUME NEW i \in DOMAIN view.history, view.history[i].epoch = Current
      PROVE  /\ view.history[1].epoch = Current
             /\ view.history[1].revision >= view.history[i].revision
    <2>1. CASE i = 1
        BY <1>3, <1>4, <2>1
    <2>2. CASE i # 1
        <3>1. 1 \in DOMAIN view.history /\ 1 < i
            BY <1>2, <1>4, <2>2
        <3>2. LET new == view.history[1]
                  old == view.history[i]
              IN  new.epoch > old.epoch \/ (new.epoch = old.epoch /\ new.revision > old.revision)
            BY <1>4, <3>1 DEF Chain, HistorySorted
        <3>3. QED
            BY <1>1, <1>3, <1>4, <3>1, <3>2
    <2>3. QED
        BY <2>1, <2>2
<1>5. QED
    BY <1>2, <1>3, <1>4

(* Clearing the history: its latest entry covers all of it.                *)
LEMMA ClearIInv == ASSUME IInv, Clear PROVE IInv'
<1>0. TypeOK /\ Chain /\ FeedOrdered /\ Faithful(view)
    BY DEF IInv, Chain, ViewFaithful, Faithful
<1>1. /\ view' = ClearHistory(view) /\ UNCHANGED othersVars /\ uiQ' = uiQ
      /\ view.history # <<>>
      /\ since' = IF view.history[1].epoch = Current
                  THEN Excused(view.history[1].revision) ELSE since
    BY DEF Clear, Operator, othersVars, collectorVars, linkVars
<1>2. UNCHANGED <<log, alarmQ, uiDrop, clientQ, conn, wire, feedDrop>>
    BY <1>1 DEF othersVars
<1>3. view \in Views /\ since \in Nat /\ Revision \in Nat /\ view.history \in Seq(Updates)
    BY <1>0, Typed
<1>4. /\ view' \in Views /\ view'.tracker = view.tracker /\ view'.history = <<>>
      /\ Faithful(view')
    BY <1>0, <1>1, <1>3, ClearEffect
<1>5. /\ DOMAIN view.history = 1 .. Len(view.history) /\ Len(view.history) \in Nat
      /\ \A i \in DOMAIN view.history :
            /\ view.history[i].revision \in Nat
            /\ view.history[i].epoch = Current =>
                  /\ view.history[1].epoch = Current
                  /\ view.history[1].revision >= view.history[i].revision
    BY <1>0, HistoryEntries
<1>6. 1 \in DOMAIN view.history
    BY <1>1, <1>3
<1>7. /\ since' \in Nat /\ since' >= since
      /\ view.history[1].epoch = Current => since' >= view.history[1].revision
    BY <1>1, <1>3, <1>5, <1>6 DEF Excused
<1>8. uiQ' \in Seq(Messages) /\ Len(uiQ') <= UiCap /\ FeedOrdered' /\ OnItsWay' = OnItsWay
    BY <1>0, <1>1, <1>2 DEF TypeOK, FeedOrdered, OnItsWay
<1>9. DOMAIN view'.history = {} /\ Len(view'.history) <= MaxHistory /\ Current' = Current
    BY <1>2, <1>4, ViewAssumption DEF Current
<1>10. \A m \in OnItsWay' : m \in OnItsWay /\ Ahead(m)'
    BY <1>0, <1>4, <1>8, <1>9 DEF Chain, Ahead
<1>11. ViewPublished' /\ HistorySorted'
    BY <1>0, <1>2, <1>4, <1>9 DEF Chain, ViewPublished, HistorySorted
<1>12. ASSUME NEW r \in since' + 1 .. Revision, Coming(r) \/ Recalled(r) \/ Covered(r)
       PROVE  (Coming(r) \/ Recalled(r) \/ Covered(r))'
    <2>1. Coming(r) => Coming(r)'
        BY <1>8, <1>9 DEF Coming
    <2>2. Covered(r) => Covered(r)'
        BY <1>4, <1>8, <1>9 DEF Covered
    <2>3. ~ Recalled(r)
        <3>1. r \in Nat /\ r > since'
            <4>1. \A a, b \in Nat : r \in a + 1 .. b => r \in Nat /\ r > a
                OBVIOUS
            <4>2. QED
                BY <1>3, <1>7, <1>12, <4>1
        <3>2. ASSUME NEW i \in DOMAIN view.history, view.history[i].epoch = Current
              PROVE  view.history[i].revision < r
            <4>1. /\ view.history[1].epoch = Current /\ view.history[1].revision \in Nat
                  /\ view.history[i].revision \in Nat
                  /\ view.history[1].revision >= view.history[i].revision
                BY <1>5, <1>6, <3>2
            <4>2. since' >= view.history[1].revision
                BY <1>7, <4>1
            <4>3. QED
                BY <1>7, <3>1, <4>1, <4>2
        <3>3. Len(view.history) = MaxHistory => MaxHistory \in DOMAIN view.history
            BY <1>5, ViewAssumption
        <3>4. \A i \in DOMAIN view.history : view.history[i].revision \in Nat
            BY <1>5
        <3>5. QED
            BY <3>1, <3>2, <3>3, <3>4 DEF Recalled
    <2>4. QED
        BY <1>12, <2>1, <2>2, <2>3
<1>13. QED
    BY <1>1, <1>4, <1>7, <1>8, <1>10, <1>11, <1>12, ViewStep

(* An update that the tracker accepts enters the history in front.         *)
LEMMA DrainAcceptedIInv ==
    ASSUME IInv, uiQ # <<>>, uiQ' = Tail(uiQ), UNCHANGED othersVars, since' = since,
           NEW u, Head(uiQ).type = "update", Head(uiQ).body = u,
           UpdateAccepted(view.tracker, u), view' = ApplyAlarm(view, u)
    PROVE  IInv'
<1>0. TypeOK /\ Chain /\ Faithful(view)
    BY DEF IInv, ViewFaithful, Faithful
<1>1. /\ uiQ' \in Seq(Messages) /\ Len(uiQ') <= UiCap /\ FeedOrdered'
      /\ Head(uiQ) \in OnItsWay /\ OnItsWay = {Head(uiQ)} \cup OnItsWay'
      /\ \A n \in OnItsWay' : InOrder(Head(uiQ), n)
    BY Drained
<1>2. Genuine(Head(uiQ)) /\ Ahead(Head(uiQ))
    BY <1>0, <1>1 DEF Chain
<1>3. /\ u \in Updates /\ u.epoch \in 1 .. Len(log) /\ u.revision \in 0 .. Len(log[u.epoch])
      /\ u.epoch \in Nat \ {0} /\ u.revision \in Nat \ {0}
    BY <1>0, <1>1, <1>2, Carried DEF Relevant, Updates
<1>4. /\ view \in Views /\ since \in Nat /\ view.history \in Seq(Updates)
      /\ view.tracker \in Trackers /\ Current = Len(log) /\ Current \in Nat
      /\ \A e \in 1 .. Len(log) : Len(log[e]) \in Nat
    BY <1>0, Typed
<1>5. log' = log /\ Current' = Current
    BY DEF othersVars, Current
<1>6. /\ view' \in Views /\ view'.tracker = ApplyUpdate(view.tracker, u)
      /\ view'.history = Recorded(view.history, u)
      /\ Faithful(view')
    BY <1>0, <1>3, <1>4, ApplyAlarmEffect
<1>7. /\ view'.tracker \in Trackers
      /\ view'.tracker.epoch = u.epoch
      /\ view'.tracker.snapshot_revision = view.tracker.snapshot_revision
      /\ view'.tracker.revisions = [view.tracker.revisions EXCEPT ![u.key] = u.revision]
    <2>1. LET after == ApplyUpdate(view.tracker, u)
          IN  /\ after \in Trackers
              /\ after.epoch = u.epoch
              /\ after.snapshot_revision = view.tracker.snapshot_revision
              /\ after.revisions = [view.tracker.revisions EXCEPT ![u.key] = u.revision]
        BY <1>3, <1>4, TrackerAfterUpdate
    <2>2. QED
        BY <1>6, <2>1
<1>8. /\ view'.history \in Seq(Updates)
      /\ Len(view'.history) = IF Len(view.history) + 1 > MaxHistory THEN MaxHistory
                              ELSE Len(view.history) + 1
      /\ view'.history[1] = u
      /\ \A i \in 2 .. Len(view'.history) :
            view'.history[i] = view.history[i - 1] /\ i - 1 \in DOMAIN view.history
    <2>1. LET after == Recorded(view.history, u)
          IN  /\ after \in Seq(Updates)
              /\ Len(after) = IF Len(view.history) + 1 > MaxHistory THEN MaxHistory
                              ELSE Len(view.history) + 1
              /\ after[1] = u
              /\ \A i \in 2 .. Len(after) :
                    after[i] = view.history[i - 1] /\ i - 1 \in DOMAIN view.history
        BY <1>3, <1>4, RecordedEffect
    <2>2. QED
        BY <1>6, <2>1
<1>9. /\ DOMAIN view.history = 1 .. Len(view.history) /\ Len(view.history) \in Nat
      /\ DOMAIN view'.history = 1 .. Len(view'.history) /\ Len(view'.history) \in Nat
      /\ MaxHistory \in Nat \ {0}
      /\ 1 \in DOMAIN view'.history
      /\ Len(view.history) <= MaxHistory /\ Len(view'.history) <= MaxHistory
    BY <1>0, <1>4, <1>8, ViewAssumption DEF Chain, HistorySorted
<1>10. \A i \in DOMAIN view.history :
          /\ view.history[i].epoch \in Nat /\ view.history[i].revision \in Nat
          /\ view.history[i].epoch <= Current
          /\ \/ view.history[i].epoch < u.epoch
             \/ view.history[i].epoch = u.epoch /\ view.history[i].revision < u.revision
    BY <1>0, <1>2, HistoryEntries DEF Ahead
<1>11. \A i \in DOMAIN view'.history : i # 1 => i \in 2 .. Len(view'.history)
    BY <1>9
\* The update is of the tracker's run, or the first the tracker sees.
<1>12. \/ view.tracker.epoch = u.epoch
       \/ view.tracker.epoch = NoEpoch /\ view.tracker.snapshot_revision = NoRevision
          /\ \A k \in Keys : view.tracker.revisions[k] = 0
    <2>1. view.tracker.epoch \in {NoEpoch, u.epoch}
        BY DEF UpdateAccepted
    <2>2. view.tracker.epoch = NoEpoch => view.tracker = EmptyTracker(NoEpoch)
        BY <1>0 DEF Chain, ViewPublished
    <2>3. QED
        BY <2>1, <2>2 DEF EmptyTracker
<1>13. /\ \A k \in Keys : view'.tracker.revisions[k] = IF k = u.key THEN u.revision
                                                       ELSE view.tracker.revisions[k]
       /\ \A k \in Keys : view.tracker.revisions[k] \in Nat
       /\ view.tracker.snapshot_revision \in Nat \cup {NoRevision}
    BY <1>4, <1>7 DEF Trackers
<1>14. ASSUME NEW m \in OnItsWay' PROVE m \in OnItsWay /\ Ahead(m)'
    <2>1. m \in OnItsWay /\ Genuine(m) /\ Ahead(m) /\ InOrder(Head(uiQ), m)
        BY <1>0, <1>1 DEF Chain
    <2>2. CASE ~ Relevant(m)
        BY <2>1, <2>2 DEF Relevant, Ahead
    <2>3. CASE Relevant(m)
        <3>1. /\ m.body.epoch \in 1 .. Len(log) /\ m.body.revision \in 0 .. Len(log[m.body.epoch])
              /\ m.type = "update" => m.body.revision # 0
            BY <1>0, <2>1, <2>3, Carried
        <3>2. m.body.epoch \in Nat /\ m.body.revision \in Nat
            BY <1>4, <3>1
        <3>3. /\ u.epoch <= m.body.epoch
              /\ m.type = "update" /\ u.epoch = m.body.epoch => u.revision < m.body.revision
            BY <2>1, <2>3 DEF InOrder, Relevant
        <3>4. m.body.epoch >= view'.tracker.epoch
            BY <1>3, <1>7, <3>2, <3>3
        <3>5. ASSUME m.type = "update", m.body.epoch = u.epoch
              PROVE  /\ m.body.revision > view'.tracker.snapshot_revision
                     /\ \A k \in Keys : m.body.revision > view'.tracker.revisions[k]
            <4>1. /\ m.body.revision > view.tracker.snapshot_revision
                  /\ \A k \in Keys : m.body.revision > view.tracker.revisions[k]
                <5>1. CASE view.tracker.epoch = u.epoch
                    BY <2>1, <3>5, <5>1 DEF Ahead
                <5>2. CASE view.tracker.epoch # u.epoch
                    BY <1>12, <3>1, <3>2, <3>5, <5>2 DEF NoRevision
                <5>3. QED
                    BY <5>1, <5>2
            <4>2. m.body.revision > u.revision
                BY <1>3, <3>2, <3>3, <3>5
            <4>3. QED
                BY <1>7, <1>13, <4>1, <4>2
        <3>6. ASSUME m.type = "update", NEW i \in DOMAIN view'.history
              PROVE  \/ view'.history[i].epoch < m.body.epoch
                     \/ view'.history[i].epoch = m.body.epoch
                        /\ view'.history[i].revision < m.body.revision
            <4>1. CASE i = 1
                BY <1>3, <1>8, <3>2, <3>3, <3>6, <4>1
            <4>2. CASE i # 1
                BY <1>8, <1>11, <2>1, <3>6, <4>2 DEF Ahead
            <4>3. QED
                BY <4>1, <4>2
        <3>7. QED
            BY <1>7, <2>1, <3>4, <3>5, <3>6 DEF Ahead
    <2>4. QED
        BY <2>2, <2>3
<1>15. ViewPublished'
    <2>1. u.epoch <= Len(log) /\ u.epoch # NoEpoch
        BY <1>3, <1>4 DEF NoEpoch
    <2>2. /\ view.tracker.snapshot_revision <= Len(log[u.epoch])
          /\ \A k \in Keys : view'.tracker.revisions[k] <= Len(log[u.epoch])
        <3>1. CASE view.tracker.epoch = u.epoch
            BY <1>0, <1>3, <1>4, <1>13, <2>1, <3>1 DEF Chain, ViewPublished
        <3>2. CASE view.tracker.epoch # u.epoch
            BY <1>3, <1>4, <1>12, <1>13, <3>2 DEF NoRevision
        <3>3. QED
            BY <3>1, <3>2
    <2>3. ASSUME NEW i \in DOMAIN view'.history
          PROVE  /\ view'.history[i].epoch \in 1 .. Len(log)
                 /\ view'.history[i].epoch <= u.epoch
                 /\ view'.history[i].revision \in 1 .. Len(log[view'.history[i].epoch])
        <3>1. CASE i = 1
            BY <1>3, <1>4, <1>8, <3>1
        <3>2. CASE i # 1
            <4>1. view'.history[i] = view.history[i - 1] /\ i - 1 \in DOMAIN view.history
                BY <1>8, <1>11, <2>3, <3>2
            <4>2. QED
                BY <1>0, <1>3, <1>10, <4>1 DEF Chain, ViewPublished
        <3>3. QED
            BY <3>1, <3>2
    <2>4. QED
        BY <1>5, <1>7, <2>1, <2>2, <2>3 DEF ViewPublished
<1>16. HistorySorted'
    <2> SUFFICES ASSUME NEW i \in DOMAIN view'.history, NEW j \in DOMAIN view'.history, i < j
                 PROVE  \/ view'.history[i].epoch > view'.history[j].epoch
                        \/ view'.history[i].epoch = view'.history[j].epoch
                           /\ view'.history[i].revision > view'.history[j].revision
        BY <1>9 DEF HistorySorted
    <2>1. j # 1 /\ i \in Nat /\ j \in Nat
        BY <1>9
    <2>2. view'.history[j] = view.history[j - 1] /\ j - 1 \in DOMAIN view.history
        BY <1>8, <1>11, <2>1
    <2>3. CASE i = 1
        BY <1>3, <1>8, <1>10, <2>2, <2>3
    <2>4. CASE i # 1
        <3>1. view'.history[i] = view.history[i - 1] /\ i - 1 \in DOMAIN view.history
              /\ i - 1 < j - 1
            BY <1>8, <1>11, <2>1, <2>4
        <3>2. QED
            BY <1>0, <2>2, <3>1 DEF Chain, HistorySorted
    <2>5. QED
        BY <2>3, <2>4
<1>17. ASSUME NEW r \in since' + 1 .. Revision, Coming(r) \/ Recalled(r) \/ Covered(r)
       PROVE  (Coming(r) \/ Recalled(r) \/ Covered(r))'
    <2>0. r \in Nat
        BY <1>0, Typed
    <2>1. CASE Coming(r)
        <3>1. PICK m \in OnItsWay : m.type = "update" /\ m.body.epoch = Current
                                    /\ m.body.revision = r
            BY <2>1 DEF Coming
        <3>2. CASE m \in OnItsWay'
            BY <1>5, <3>1, <3>2 DEF Coming
        <3>3. CASE m = Head(uiQ)
            BY <1>5, <1>8, <1>9, <3>1, <3>3 DEF Recalled
        <3>4. QED
            BY <1>1, <3>2, <3>3
    <2>2. CASE Covered(r)
        BY <1>1, <1>5, <1>7, <1>12, <2>2 DEF Covered
    <2>3. CASE Recalled(r)
        <3>1. PICK i \in DOMAIN view.history :
                  /\ view.history[i].epoch = Current
                  /\ \/ view.history[i].revision = r
                     \/ /\ i = MaxHistory /\ Len(view.history) = MaxHistory
                        /\ view.history[i].revision >= r
            BY <1>9, <2>3 DEF Recalled
        <3>2. CASE i = MaxHistory
            <4>1. MaxHistory \in DOMAIN view'.history /\ Len(view'.history) = MaxHistory
                  /\ view.history[i].revision >= r
                BY <1>8, <1>9, <1>10, <2>0, <3>1, <3>2
            <4>2. /\ view'.history[MaxHistory].epoch = Current
                  /\ view'.history[MaxHistory].revision >= r
                <5>1. CASE MaxHistory = 1
                    <6>1. u.epoch <= Current
                        BY <1>3, <1>4
                    <6>2. u.epoch = Current /\ u.revision > view.history[i].revision
                        BY <1>3, <1>4, <1>10, <3>1, <6>1
                    <6>3. QED
                        BY <1>3, <1>8, <1>10, <2>0, <4>1, <5>1, <6>2
                <5>2. CASE MaxHistory # 1
                    <6>1. /\ view'.history[MaxHistory] = view.history[MaxHistory - 1]
                          /\ MaxHistory - 1 \in DOMAIN view.history /\ MaxHistory - 1 < i
                        BY <1>8, <1>9, <1>11, <3>2, <4>1, <5>2
                    <6>2. LET new == view.history[MaxHistory - 1]
                              old == view.history[i]
                          IN  \/ new.epoch > old.epoch
                              \/ new.epoch = old.epoch /\ new.revision > old.revision
                        BY <1>0, <3>1, <6>1 DEF Chain, HistorySorted
                    <6>3. QED
                        BY <1>4, <1>10, <2>0, <3>1, <4>1, <6>1, <6>2
                <5>3. QED
                    BY <5>1, <5>2
            <4>3. QED
                BY <1>5, <4>1, <4>2 DEF Recalled
        <3>3. CASE i # MaxHistory
            <4>1. i + 1 \in 2 .. Len(view'.history) \/ i > MaxHistory
                BY <1>8, <1>9, <3>3
            <4>2. i <= MaxHistory
                BY <1>9
            <4>3. i + 1 \in DOMAIN view'.history /\ view'.history[i + 1] = view.history[i]
                BY <1>8, <1>9, <4>1, <4>2
            <4>4. QED
                BY <1>5, <3>1, <3>3, <4>3 DEF Recalled
        <3>4. QED
            BY <3>2, <3>3
    <2>4. QED
        BY <1>17, <2>1, <2>2, <2>3
<1>18. since' \in Nat /\ since' >= since
    BY <1>4
<1>19. QED
    BY <1>1, <1>6, <1>14, <1>15, <1>16, <1>17, <1>18, ViewStep

(* An update is refused only when its run is later than the tracker's: the *)
(* snapshots behind it cover it.                                           *)
LEMMA DrainRefusedIInv ==
    ASSUME IInv, uiQ # <<>>, uiQ' = Tail(uiQ), UNCHANGED othersVars, since' = since,
           NEW u, Head(uiQ).type = "update", Head(uiQ).body = u,
           ~ UpdateAccepted(view.tracker, u), view' = view
    PROVE  IInv'
<1>0. TypeOK /\ Chain /\ Faithful(view)
    BY DEF IInv, ViewFaithful, Faithful
<1>1. /\ uiQ' \in Seq(Messages) /\ Len(uiQ') <= UiCap /\ FeedOrdered'
      /\ Head(uiQ) \in OnItsWay /\ OnItsWay = {Head(uiQ)} \cup OnItsWay'
      /\ \A n \in OnItsWay' : InOrder(Head(uiQ), n)
    BY Drained
<1>2. Genuine(Head(uiQ)) /\ Ahead(Head(uiQ))
    BY <1>0, <1>1 DEF Chain
<1>3. u \in Updates
    BY <1>0, <1>1, <1>2, Carried
<1>4. view \in Views /\ since \in Nat /\ view.tracker \in Trackers
    BY <1>0, Typed
<1>5. UNCHANGED <<log, alarmQ, uiDrop, clientQ, conn, wire, feedDrop>> /\ Current' = Current
    BY DEF othersVars, Current
<1>6. view.tracker.epoch \notin {NoEpoch, u.epoch}
    <2>1. CASE view.tracker.epoch = u.epoch
        BY <1>2, <1>3, <2>1 DEF Ahead, UpdateAccepted, Updates
    <2>2. CASE view.tracker.epoch = NoEpoch
        <3>1. view.tracker = EmptyTracker(NoEpoch)
            BY <1>0, <2>2 DEF Chain, ViewPublished
        <3>2. QED
            BY <1>3, <3>1 DEF EmptyTracker, UpdateAccepted, Updates, NoRevision
    <2>3. QED
        BY <2>1, <2>2
<1>7. \A m \in OnItsWay' : m \in OnItsWay /\ Ahead(m)'
    BY <1>0, <1>1 DEF Chain, Ahead
<1>8. ViewPublished' /\ HistorySorted'
    BY <1>0, <1>5 DEF Chain, ViewPublished, HistorySorted
<1>9. ASSUME NEW r \in since' + 1 .. Revision, Coming(r) \/ Recalled(r) \/ Covered(r)
      PROVE  (Coming(r) \/ Recalled(r) \/ Covered(r))'
    <2>1. CASE Coming(r)
        <3>1. PICK m \in OnItsWay : m.type = "update" /\ m.body.epoch = Current
                                    /\ m.body.revision = r
            BY <2>1 DEF Coming
        <3>2. CASE m \in OnItsWay'
            BY <1>5, <3>1, <3>2 DEF Coming
        <3>3. CASE m = Head(uiQ)
            <4>1. u.epoch = Current /\ u.revision = r
                BY <3>1, <3>3
            <4>2. ASSUME NEW n \in OnItsWay', n.type = "snapshot", n.body.epoch = Current
                  PROVE  n.body.revision >= r
                <5>1. InOrder(Head(uiQ), n)
                    BY <1>1, <4>2
                <5>2. u.revision <= n.body.revision
                    BY <4>1, <4>2, <5>1 DEF InOrder
                <5>3. n.body.revision \in Nat /\ r \in Nat
                    <6>1. n \in OnItsWay /\ Genuine(n)
                        BY <1>0, <1>1, <4>2 DEF Chain
                    <6>2. QED
                        BY <1>0, <1>3, <4>1, <4>2, <6>1, Carried DEF Snapshots, Updates
                <5>4. QED
                    BY <4>1, <5>2, <5>3
            <4>3. Covered(r)'
                BY <1>5, <1>6, <4>1, <4>2 DEF Covered
            <4>4. QED
                BY <4>3
        <3>4. QED
            BY <1>1, <3>2, <3>3
    <2>2. CASE Recalled(r)
        BY <1>5, <2>2 DEF Recalled
    <2>3. CASE Covered(r)
        BY <1>1, <1>5, <2>3 DEF Covered
    <2>4. QED
        BY <1>9, <2>1, <2>2, <2>3
<1>10. since' \in Nat /\ since' >= since
    BY <1>4
<1>11. QED
    BY <1>0, <1>1, <1>4, <1>7, <1>8, <1>9, <1>10, ViewStep

(* A snapshot moves the tracker forward, at most to the run of what is     *)
(* behind it; joining the current run excuses what it covers.              *)
LEMMA DrainSnapshotIInv ==
    ASSUME IInv, uiQ # <<>>, uiQ' = Tail(uiQ), UNCHANGED othersVars,
           NEW s, Head(uiQ).type = "snapshot", Head(uiQ).body = s,
           view' = ApplyAlarmSnapshot(view, s),
           since' = IF s.epoch = Current /\ view.tracker.epoch \notin {NoEpoch, Current}
                    THEN Excused(s.revision) ELSE since
    PROVE  IInv'
<1>0. TypeOK /\ Chain /\ Faithful(view)
    BY DEF IInv, ViewFaithful, Faithful
<1>1. /\ uiQ' \in Seq(Messages) /\ Len(uiQ') <= UiCap /\ FeedOrdered'
      /\ Head(uiQ) \in OnItsWay /\ OnItsWay = {Head(uiQ)} \cup OnItsWay'
      /\ \A n \in OnItsWay' : InOrder(Head(uiQ), n)
    BY Drained
<1>2. Genuine(Head(uiQ)) /\ Ahead(Head(uiQ))
    BY <1>0, <1>1 DEF Chain
<1>3. /\ s \in Snapshots /\ s.epoch \in 1 .. Len(log) /\ s.revision \in 0 .. Len(log[s.epoch])
      /\ s.epoch \in Nat \ {0} /\ s.revision \in Nat /\ s.epoch >= view.tracker.epoch
    BY <1>0, <1>1, <1>2, Carried DEF Relevant, Snapshots, Ahead
<1>4. /\ view \in Views /\ since \in Nat /\ view.history \in Seq(Updates) /\ Revision \in Nat
      /\ view.tracker \in Trackers /\ Current = Len(log) /\ Current \in Nat
      /\ \A e \in 1 .. Len(log) : Len(log[e]) \in Nat
    BY <1>0, Typed
<1>5. log' = log /\ Current' = Current
    BY DEF othersVars, Current
<1>6. /\ view' \in Views /\ view'.tracker = ApplySnapshot(view.tracker, s)
      /\ view'.history = view.history /\ Faithful(view')
    BY <1>0, <1>3, <1>4, ApplyAlarmSnapshotEffect
<1>7. /\ view'.tracker \in Trackers
      /\ view'.tracker.epoch = s.epoch
      /\ \/ view'.tracker.snapshot_revision = s.revision
         \/ view.tracker.epoch = s.epoch
            /\ view'.tracker.snapshot_revision = view.tracker.snapshot_revision
      /\ \A k \in Keys : view'.tracker.revisions[k]
                             <= IF view.tracker.epoch = s.epoch THEN view.tracker.revisions[k] ELSE 0
    <2>1. LET t == view.tracker
              after == ApplySnapshot(t, s)
          IN  /\ after \in Trackers
              /\ after.epoch = s.epoch
              /\ t.epoch # s.epoch => SnapshotAccepted(t, s)
              /\ ~ SnapshotAccepted(t, s) => after = t
              /\ SnapshotAccepted(t, s) => after.snapshot_revision = s.revision
              /\ \A k \in Keys :
                    after.revisions[k] <= IF t.epoch = s.epoch THEN t.revisions[k] ELSE 0
        BY <1>3, <1>4, TrackerAfterSnapshot
    <2>2. QED
        BY <1>6, <2>1
<1>8. /\ view.tracker.epoch \in Nat
      /\ view.tracker.snapshot_revision \in Int /\ view'.tracker.snapshot_revision \in Int
      /\ \A k \in Keys : view.tracker.revisions[k] \in Nat /\ view'.tracker.revisions[k] \in Nat
    BY <1>4, <1>7 DEF Trackers, NoRevision
<1>9. ASSUME NEW m \in OnItsWay' PROVE m \in OnItsWay /\ Ahead(m)'
    <2>1. m \in OnItsWay /\ Genuine(m) /\ Ahead(m) /\ InOrder(Head(uiQ), m)
        BY <1>0, <1>1 DEF Chain
    <2>2. CASE ~ Relevant(m)
        BY <2>1, <2>2 DEF Relevant, Ahead
    <2>3. CASE Relevant(m)
        <3>1. /\ m.body.epoch \in 1 .. Len(log) /\ m.body.revision \in 0 .. Len(log[m.body.epoch])
              /\ m.type = "update" => m.body.revision # 0
            BY <1>0, <2>1, <2>3, Carried
        <3>2. m.body.epoch \in Nat /\ m.body.revision \in Nat
            BY <1>4, <3>1
        <3>3. /\ s.epoch <= m.body.epoch
              /\ m.type = "update" /\ s.epoch = m.body.epoch => s.revision < m.body.revision
            BY <2>1, <2>3 DEF InOrder, Relevant
        <3>4. m.body.epoch >= view'.tracker.epoch
            BY <1>3, <1>7, <3>2, <3>3
        <3>5. ASSUME m.type = "update", m.body.epoch = s.epoch
              PROVE  /\ m.body.revision > view'.tracker.snapshot_revision
                     /\ \A k \in Keys : m.body.revision > view'.tracker.revisions[k]
            <4>1. m.body.revision > s.revision /\ m.body.revision > 0
                BY <1>3, <3>1, <3>2, <3>3, <3>5
            <4>2. view.tracker.epoch = s.epoch =>
                      /\ m.body.revision > view.tracker.snapshot_revision
                      /\ \A k \in Keys : m.body.revision > view.tracker.revisions[k]
                BY <2>1, <3>5 DEF Ahead
            <4>3. m.body.revision > view'.tracker.snapshot_revision
                BY <1>7, <4>1, <4>2
            <4>4. ASSUME NEW k \in Keys PROVE m.body.revision > view'.tracker.revisions[k]
                BY <1>7, <1>8, <3>2, <4>1, <4>2
            <4>5. QED
                BY <4>3, <4>4
        <3>6. QED
            BY <1>6, <1>7, <2>1, <3>4, <3>5 DEF Ahead
    <2>4. QED
        BY <2>2, <2>3
<1>10. ViewPublished'
    <2>1. s.epoch <= Len(log) /\ s.epoch # NoEpoch
        BY <1>3, <1>4 DEF NoEpoch
    <2>2. view.tracker.epoch = s.epoch =>
              /\ view.tracker.snapshot_revision <= Len(log[s.epoch])
              /\ \A k \in Keys : view.tracker.revisions[k] <= Len(log[s.epoch])
        BY <1>0, <2>1 DEF Chain, ViewPublished
    <2>3. view'.tracker.snapshot_revision <= Len(log[s.epoch])
        BY <1>3, <1>4, <1>7, <2>2
    <2>4. ASSUME NEW k \in Keys PROVE view'.tracker.revisions[k] <= Len(log[s.epoch])
        BY <1>3, <1>4, <1>7, <1>8, <2>2
    <2>5. ASSUME NEW i \in DOMAIN view.history
          PROVE  /\ view.history[i].epoch \in 1 .. Len(log)
                 /\ view.history[i].epoch <= s.epoch
                 /\ view.history[i].revision \in 1 .. Len(log[view.history[i].epoch])
        <3>1. /\ view.history[i].epoch \in 1 .. Len(log)
              /\ view.history[i].epoch <= view.tracker.epoch
              /\ view.history[i].revision \in 1 .. Len(log[view.history[i].epoch])
            BY <1>0 DEF Chain, ViewPublished
        <3>2. QED
            BY <1>3, <1>4, <1>8, <3>1
    <2>6. QED
        BY <1>5, <1>6, <1>7, <2>1, <2>3, <2>4, <2>5 DEF ViewPublished
<1>11. HistorySorted'
    BY <1>0, <1>6 DEF Chain, HistorySorted
<1>12. since' \in Nat /\ since' >= since
    BY <1>3, <1>4 DEF Excused
<1>13. ASSUME NEW r \in since' + 1 .. Revision, Coming(r) \/ Recalled(r) \/ Covered(r)
       PROVE  (Coming(r) \/ Recalled(r) \/ Covered(r))'
    <2>1. CASE Coming(r)
        BY <1>1, <1>5, <2>1 DEF Coming
    <2>2. CASE Recalled(r)
        BY <1>5, <1>6, <2>2 DEF Recalled
    <2>3. CASE Covered(r)
        <3>1. CASE s.epoch = Current
            <4>1. s.revision >= r /\ view.tracker.epoch \notin {NoEpoch, Current}
                BY <1>1, <2>3, <3>1 DEF Covered
            <4>2. since' >= s.revision
                BY <1>3, <1>4, <3>1, <4>1 DEF Excused
            <4>3. \A a, b \in Nat : r \in a + 1 .. b => r \in Nat /\ r > a
                OBVIOUS
            <4>4. r \in Nat /\ r > since'
                BY <1>4, <1>12, <1>13, <4>3
            <4>5. QED
                BY <1>3, <1>12, <4>1, <4>2, <4>4
        <3>2. CASE s.epoch # Current
            BY <1>1, <1>3, <1>5, <1>7, <2>3, <3>2 DEF Covered, NoEpoch
        <3>3. QED
            BY <3>1, <3>2
    <2>4. QED
        BY <1>13, <2>1, <2>2, <2>3
<1>14. QED
    BY <1>1, <1>6, <1>9, <1>10, <1>11, <1>12, <1>13, ViewStep

(* drain_messages handles a message.                                       *)
LEMMA DrainIInv == ASSUME IInv, Drain PROVE IInv'
<1> DEFINE h == Head(uiQ)
<1>1. /\ uiQ # <<>> /\ uiQ' = Tail(uiQ) /\ view' = Handled(view, h) /\ UNCHANGED othersVars
      /\ since' = IF Joins(h) THEN Excused(h.body.revision) ELSE since
    BY DEF Drain, othersVars, collectorVars, linkVars
<1>2. h \in Messages
    BY <1>1, Drained
<1>3. view \in Views
    BY Typed DEF IInv
<1> HIDE DEF h
<1>4. CASE h.type = "update"
    <2>1. view' = ApplyAlarm(view, h.body) /\ since' = since
        BY <1>1, <1>4 DEF Handled, Joins
    <2>2. CASE UpdateAccepted(view.tracker, h.body)
        BY <1>1, <1>4, <2>1, <2>2, DrainAcceptedIInv DEF h
    <2>3. CASE ~ UpdateAccepted(view.tracker, h.body)
        <3>1. view' = view
            BY <2>1, <2>3 DEF ApplyAlarm
        <3>2. QED
            BY <1>1, <1>4, <2>1, <2>3, <3>1, DrainRefusedIInv DEF h
    <2>4. QED
        BY <2>2, <2>3
<1>5. CASE h.type = "snapshot"
    <2>1. view' = ApplyAlarmSnapshot(view, h.body)
        BY <1>1, <1>5 DEF Handled
    <2>2. since' = IF h.body.epoch = Current /\ view.tracker.epoch \notin {NoEpoch, Current}
                   THEN Excused(h.body.revision) ELSE since
        BY <1>1, <1>5 DEF Joins
    <2>3. QED
        BY <1>1, <1>5, <2>1, <2>2, DrainSnapshotIInv DEF h
<1>6. CASE h.type = "sample"
    <2>1. view' = Sampled(view, h.body) /\ since' = since /\ h.body \in Channels
        BY <1>1, <1>2, <1>6, Kinds DEF Handled, Joins
    <2>2. /\ view' \in Views /\ view'.tracker = view.tracker /\ view'.history = view.history
          /\ Faithful(view) => Faithful(view')
        BY <1>3, <2>1, OperatorEffect
    <2>3. QED
        BY <1>1, <1>6, <2>1, <2>2, QuietView DEF h
<1>7. CASE h.type = "status"
    <2>1. view' = view /\ since' = since
        BY <1>1, <1>7 DEF Handled, Joins
    <2>2. QED
        BY <1>1, <1>3, <1>7, <2>1, QuietView DEF h
<1>8. QED
    BY <1>2, <1>4, <1>5, <1>6, <1>7, Kinds

-----------------------------------------------------------------------------

(* Nothing has happened yet.                                               *)
LEMMA InitIInv == Init => IInv
<1> SUFFICES ASSUME Init PROVE IInv
    OBVIOUS
<1>1. /\ log = << <<>> >> /\ alarmQ = EmptyChannel /\ clientQ = EmptyChannel
      /\ uiDrop = FALSE /\ feedDrop = FALSE /\ conn = "down" /\ wire = <<>> /\ uiQ = <<>>
      /\ view = EmptyView /\ since = 0
    BY DEF Init
<1>2. /\ alarmQ.queue = <<>> /\ clientQ.queue = <<>>
      /\ \A cap \in Nat : EmptyChannel \in Receivers(Messages, cap)
    BY <1>1 DEF EmptyChannel, Receivers
<1>3. /\ Elements(<<>>) = {} /\ Sorted(<<>>) /\ \A S : <<>> \in Seq(S)
      /\ Len(<<>>) = 0 /\ DOMAIN <<>> = {}
    BY EmptyOne
<1>4. /\ log \in Seq(Seq([key : Keys, view : AlarmMap])) /\ log # <<>>
      /\ Len(log) = 1 /\ DOMAIN log = {1} /\ log[1] = <<>>
    <2>1. <<>> \in Seq([key : Keys, view : AlarmMap])
        OBVIOUS
    <2>2. QED
        BY <1>1, <2>1
<1>5. EmptyTracker(NoEpoch) \in Trackers /\ EmptyTracker(NoEpoch).epoch = NoEpoch
    BY DEF EmptyTracker, Trackers, AlarmMap, EventValue, NoEpoch, NoRevision
<1>6. /\ view \in Views /\ view.tracker = EmptyTracker(NoEpoch) /\ view.history = <<>>
      /\ view.active = view.tracker.active /\ view.acknowledged = {}
    BY <1>1, <1>3, <1>5 DEF EmptyView, Views, Trackers
<1>7. TypeOK
    <2>1. {AlarmCap, ClientCap, WireCap, UiCap} \subseteq Nat
        BY CapAssumption
    <2>2. alarmQ \in Receivers(Messages, AlarmCap) /\ clientQ \in Receivers(Messages, ClientCap)
        BY <1>1, <1>2, <2>1
    <2>3. wire \in Seq(Messages) /\ Len(wire) <= WireCap /\ uiQ \in Seq(Messages)
          /\ Len(uiQ) <= UiCap
        BY <1>1, <1>3, <2>1
    <2>4. {uiDrop, feedDrop} \subseteq BOOLEAN /\ conn \in Connections /\ since \in Nat
        BY <1>1 DEF Connections
    <2>5. QED
        BY <1>4, <1>6, <2>2, <2>3, <2>4 DEF TypeOK
<1>8. OnItsWay = {} /\ FeedOrdered
    BY <1>1, <1>2, <1>3 DEF OnItsWay, FeedOrdered, Before
<1>9. ViewPublished /\ HistorySorted
    BY <1>3, <1>4, <1>5, <1>6, ViewAssumption DEF ViewPublished, HistorySorted, NoEpoch
<1>10. Published = {}
    BY <1>3, <1>4 DEF Published
<1>11. Chain
    BY <1>8, <1>9, <1>10, FS_EmptySet DEF Chain
<1>12. Owed
    BY <1>1 DEF Owed, Subscribed
<1>13. ViewFaithful
    BY <1>6 DEF ViewFaithful
<1>14. QED
    BY <1>7, <1>11, <1>12, <1>13 DEF IInv

(* Every step of the chain keeps the invariant.                            *)
LEMMA NextIInv == IInv /\ [Next]_vars => IInv'
<1> SUFFICES ASSUME IInv, [Next]_vars PROVE IInv'
    OBVIOUS
<1>1. ASSUME NEW k \in Keys, NEW a \in EventValue, Publish(k, a) PROVE IInv'
    BY <1>1, PublishIInv
<1>2. ASSUME NEW c \in Channels, ForwardSample(c) PROVE IInv'
    BY <1>2, ForwardSampleIInv
<1>3. ASSUME NEW n \in 0 .. Len(wire), Break(n) \/ Restart(n) PROVE IInv'
    BY <1>3, BreakIInv, RestartIInv
<1>4. CASE ConnectFails
    BY <1>4, StatusIInv DEF ConnectFails, collectorVars, linkVars
<1>5. CASE ReadEof
    BY <1>5, StatusIInv DEF ReadEof, collectorVars
<1>6. ASSUME NEW c \in Channels, Dismiss(c) PROVE IInv'
    BY <1>6, DismissIInv
<1>7. CASE UNCHANGED vars
    <2>1. UNCHANGED othersVars /\ uiQ' = uiQ /\ view' = view /\ since' = since
        BY <1>7 DEF vars, othersVars
    <2>2. view \in Views
        BY Typed DEF IInv
    <2>3. QED
        BY <2>1, <2>2, QuietView
<1>8. QED
    BY <1>1, <1>2, <1>3, <1>4, <1>5, <1>6, <1>7, SnapshotTickIInv, ForwardIInv,
       ForwarderLaggedIInv, ServeStartIInv, ServeSendIInv, ServeLaggedIInv, ConnectIInv,
       ReadFrameIInv, DrainIInv, AcknowledgeIInv, ClearIInv
    DEF Next

(* IInv is an invariant of the chain.                                      *)
LEMMA AlwaysIInv == Spec => []IInv
BY InitIInv, NextIInv, PTL DEF Spec

-----------------------------------------------------------------------------
\* The properties.

(* Two queues in order, all of the first in front of all of the second.    *)
LEMMA OneBehindTheOther ==
    ASSUME NEW S, NEW p \in Seq(S), NEW q \in Seq(S)
    PROVE  /\ p \o q \in Seq(S)
           /\ Elements(p \o q) = Elements(p) \cup Elements(q)
           /\ Sorted(p) /\ Sorted(q) /\ Before(Elements(p), Elements(q)) => Sorted(p \o q)
<1> DEFINE s == p \o q
<1>1. /\ s \in Seq(S) /\ Len(s) = Len(p) + Len(q)
      /\ \A i \in 1 .. Len(p) + Len(q) : s[i] = IF i <= Len(p) THEN p[i] ELSE q[i - Len(p)]
    BY ConcatProperties
<1>2. /\ Len(p) \in Nat /\ Len(q) \in Nat /\ DOMAIN s = 1 .. Len(p) + Len(q)
      /\ DOMAIN p = 1 .. Len(p) /\ DOMAIN q = 1 .. Len(q)
    BY <1>1
<1> HIDE DEF s
<1>3. ASSUME NEW i \in DOMAIN s
      PROVE  \/ i <= Len(p) /\ i \in DOMAIN p /\ s[i] = p[i]
             \/ i > Len(p) /\ i - Len(p) \in DOMAIN q /\ s[i] = q[i - Len(p)]
    BY <1>1, <1>2
<1>4. \A i \in DOMAIN p : i \in DOMAIN s /\ s[i] = p[i]
    BY <1>1, <1>2
<1>5. ASSUME NEW i \in DOMAIN q
      PROVE  i + Len(p) \in DOMAIN s /\ s[i + Len(p)] = q[i]
    <2>1. i + Len(p) \in DOMAIN s /\ ~ (i + Len(p) <= Len(p)) /\ i + Len(p) - Len(p) = i
        BY <1>2
    <2>2. QED
        BY <1>1, <1>2, <2>1
<1>6. Elements(s) = Elements(p) \cup Elements(q)
    <2>1. \A x \in Elements(s) : x \in Elements(p) \cup Elements(q)
        BY <1>3 DEF Elements
    <2>2. \A x \in Elements(p) : x \in Elements(s)
        BY <1>4 DEF Elements
    <2>3. \A x \in Elements(q) : x \in Elements(s)
        BY <1>5 DEF Elements
    <2>4. QED
        BY <2>1, <2>2, <2>3
<1>7. ASSUME Sorted(p), Sorted(q), Before(Elements(p), Elements(q)),
             NEW i \in DOMAIN s, NEW j \in DOMAIN s, i < j
      PROVE  InOrder(s[i], s[j])
    <2>1. i \in Nat /\ j \in Nat
        BY <1>2
    <2>2. CASE j <= Len(p)
        BY <1>2, <1>3, <1>7, <2>1, <2>2 DEF Sorted
    <2>3. CASE i > Len(p)
        <3>1. /\ i - Len(p) \in DOMAIN q /\ s[i] = q[i - Len(p)]
              /\ j - Len(p) \in DOMAIN q /\ s[j] = q[j - Len(p)]
              /\ i - Len(p) < j - Len(p)
            BY <1>2, <1>3, <1>7, <2>1, <2>3
        <3>2. QED
            BY <1>7, <3>1 DEF Sorted
    <2>4. CASE i <= Len(p) /\ j > Len(p)
        <3>1. s[i] \in Elements(p) /\ s[j] \in Elements(q)
            BY <1>2, <1>3, <2>1, <2>4 DEF Elements
        <3>2. QED
            BY <1>7, <3>1 DEF Before
    <2>5. QED
        BY <1>2, <2>1, <2>2, <2>3, <2>4
<1>8. Sorted(p) /\ Sorted(q) /\ Before(Elements(p), Elements(q)) => Sorted(s)
    BY <1>7 DEF Sorted
<1>9. QED
    BY <1>1, <1>6, <1>8 DEF s

(* The messages in flight are those on their way, in order.                *)
LEMMA FlightInOrder ==
    ASSUME TypeOK, FeedOrdered
    PROVE  InFlight \in Seq(Messages) /\ Elements(InFlight) = OnItsWay /\ Sorted(InFlight)
<1> DEFINE p1 == uiQ \o wire
           p2 == p1 \o clientQ.queue
           p3 == p2 \o alarmQ.queue
<1>1. /\ uiQ \in Seq(Messages) /\ wire \in Seq(Messages)
      /\ clientQ.queue \in Seq(Messages) /\ alarmQ.queue \in Seq(Messages)
    BY Typed
<1>2. /\ p1 \in Seq(Messages) /\ Elements(p1) = Elements(uiQ) \cup Elements(wire)
      /\ Sorted(p1)
    <2>1. Sorted(uiQ) /\ Sorted(wire) /\ Before(Elements(uiQ), Elements(wire))
        BY DEF FeedOrdered
    <2>2. QED
        BY <1>1, <2>1, OneBehindTheOther
<1> HIDE DEF p1
<1>3. Before(Elements(p1), Elements(clientQ.queue)) /\ Before(Elements(p1), Elements(alarmQ.queue))
    BY <1>2 DEF FeedOrdered, Before
<1>4. /\ p2 \in Seq(Messages) /\ Elements(p2) = Elements(p1) \cup Elements(clientQ.queue)
      /\ Sorted(p2)
    <2>1. Sorted(clientQ.queue)
        BY DEF FeedOrdered
    <2>2. /\ p1 \o clientQ.queue \in Seq(Messages)
          /\ Elements(p1 \o clientQ.queue) = Elements(p1) \cup Elements(clientQ.queue)
          /\ Sorted(p1) /\ Sorted(clientQ.queue) /\ Before(Elements(p1), Elements(clientQ.queue)) =>
                 Sorted(p1 \o clientQ.queue)
        BY <1>1, <1>2, OneBehindTheOther
    <2>3. QED
        BY <1>1, <1>2, <1>3, <2>1, <2>2
<1> HIDE DEF p2
<1>5. Before(Elements(p2), Elements(alarmQ.queue))
    BY <1>3, <1>4 DEF FeedOrdered, Before
<1>6. /\ p3 \in Seq(Messages) /\ Elements(p3) = Elements(p2) \cup Elements(alarmQ.queue)
      /\ Sorted(p3)
    <2>1. Sorted(alarmQ.queue)
        BY DEF FeedOrdered
    <2>2. /\ p2 \o alarmQ.queue \in Seq(Messages)
          /\ Elements(p2 \o alarmQ.queue) = Elements(p2) \cup Elements(alarmQ.queue)
          /\ Sorted(p2) /\ Sorted(alarmQ.queue) /\ Before(Elements(p2), Elements(alarmQ.queue)) =>
                 Sorted(p2 \o alarmQ.queue)
        BY <1>1, <1>4, OneBehindTheOther
    <2>3. QED
        BY <1>1, <1>4, <1>5, <2>1, <2>2
<1>7. p3 = InFlight
    BY DEF p1, p2, InFlight
<1> HIDE DEF p3
<1>8. QED
    BY <1>2, <1>4, <1>6, <1>7 DEF OnItsWay

(* Types are correct and the history lists transitions newest first and    *)
(* none twice, whatever is lost, repeated or restarted (apply_alarm).      *)
THEOREM HistoryInOrder == Spec => []HistoryOrdered
<1>1. IInv => HistoryOrdered
    BY DEF IInv, Chain, HistorySorted, HistoryOrdered
<1>2. QED
    BY <1>1, AlwaysIInv, PTL

(* Repair never overtakes history: no snapshot in front of an update of    *)
(* the same run, nor one already applied, covers it                        *)
(* (publish_alarm_snapshot queues behind publish_alarm).                   *)
THEOREM HistoryFirst == Spec => []RepairFollowsHistory
<1>1. ASSUME IInv PROVE RepairFollowsHistory
    <2> SUFFICES ASSUME NEW i \in UpdatesAt(InFlight, DOMAIN InFlight)
                 PROVE  LET u == InFlight[i].body
                        IN  /\ u.epoch = view.tracker.epoch => UpdateAccepted(view.tracker, u)
                            /\ \A j \in 1 .. i - 1 :
                                  InFlight[j].type = "snapshot"
                                  /\ InFlight[j].body.epoch = u.epoch =>
                                      InFlight[j].body.revision < u.revision
        BY DEF RepairFollowsHistory
    <2> DEFINE m == InFlight[i]
    <2>1. TypeOK /\ FeedOrdered /\ \A n \in OnItsWay : Genuine(n) /\ Ahead(n)
        BY <1>1 DEF IInv, Chain
    <2>2. InFlight \in Seq(Messages) /\ Elements(InFlight) = OnItsWay /\ Sorted(InFlight)
        BY <2>1, FlightInOrder
    <2>3. i \in DOMAIN InFlight /\ m.type = "update"
        BY DEF UpdatesAt
    <2>4. m \in OnItsWay
        BY <2>2, <2>3 DEF Elements
    <2>5. m.body \in Updates /\ Ahead(m)
        BY <2>1, <2>3, <2>4, Carried
    <2>6. m.body.epoch = view.tracker.epoch => UpdateAccepted(view.tracker, m.body)
        BY <2>3, <2>5 DEF Ahead, UpdateAccepted, Updates
    <2>7. ASSUME NEW j \in 1 .. i - 1, InFlight[j].type = "snapshot",
                 InFlight[j].body.epoch = m.body.epoch
          PROVE  InFlight[j].body.revision < m.body.revision
        <3>1. j \in DOMAIN InFlight /\ j < i
            BY <2>2, <2>3
        <3>2. InOrder(InFlight[j], m)
            BY <2>2, <2>3, <3>1 DEF Sorted
        <3>3. QED
            BY <2>3, <2>7, <3>2 DEF InOrder
    <2>8. QED
        BY <2>6, <2>7
<1>2. QED
    BY <1>1, AlwaysIInv, PTL

(* No alarm is lost in silence: while a client is connected and no         *)
(* overflow is counted, every alarm published since it subscribed is in    *)
(* the history, was pushed out at its far end, or is on its way.           *)
THEOREM NoSilentLoss == Spec => []LossIsCounted
<1>1. ASSUME IInv PROVE LossIsCounted
    <2> SUFFICES ASSUME Subscribed, ~LossCounted, view.tracker.epoch \in {NoEpoch, Current},
                        NEW r \in since + 1 .. Revision
                 PROVE  ~Missing(r)
        BY DEF LossIsCounted
    <2>1. TypeOK /\ Chain /\ FeedOrdered /\ Owed
        BY <1>1 DEF IInv, Chain
    <2>2. Coming(r) \/ Recalled(r)
        BY <2>1 DEF Owed, Covered
    <2>3. CASE Coming(r)
        <3>1. PICK m \in OnItsWay : m.type = "update" /\ m.body.epoch = Current
                                    /\ m.body.revision = r
            BY <2>3 DEF Coming
        <3>2. PICK i \in DOMAIN InFlight : m = InFlight[i]
            BY <2>1, FlightInOrder DEF Elements
        <3>3. QED
            BY <3>1, <3>2 DEF Missing, UpdatesAt
    <2>4. CASE Recalled(r)
        <3>1. r \in Nat
            BY <2>1, Typed
        <3>2. Len(view.history) = MaxHistory => view.history[MaxHistory].revision \in Nat
            BY <2>1, HistoryEntries, ViewAssumption
        <3>3. QED
            BY <2>4, <3>1, <3>2 DEF Recalled, Missing
    <2>5. QED
        BY <2>2, <2>3, <2>4
<1>2. QED
    BY <1>1, AlwaysIInv, PTL

(* What the screen shows is the tracker's, except CAN timeouts the         *)
(* operator hid, and only alarms shown are acknowledged.                   *)
THEOREM FaithfulView == Spec => []ViewFaithful
<1>1. IInv => ViewFaithful
    BY DEF IInv
<1>2. QED
    BY <1>1, AlwaysIInv, PTL

-----------------------------------------------------------------------------
\* The step simulation.

(* AlarmSync's tracker is this one.                                        *)
LEMMA SameTracker ==
    /\ Sync!EventValue = EventValue
    /\ Sync!EmptyTracker(Sync!NoEpoch) = EmptyTracker(NoEpoch)
    /\ \A t, u : Sync!ApplyUpdate(t, u) = ApplyUpdate(t, u)
    /\ \A t, s : Sync!ApplySnapshot(t, s) = ApplySnapshot(t, s)
<1>1. /\ Sync!EventValue = EventValue
      /\ Sync!EmptyTracker(Sync!NoEpoch) = EmptyTracker(NoEpoch)
    BY DEF Sync!EventValue, EventValue, Sync!EmptyTracker, EmptyTracker, Sync!NoEpoch, NoEpoch,
       Sync!NoRevision, NoRevision
<1>2. ASSUME NEW t, NEW u PROVE Sync!ApplyUpdate(t, u) = ApplyUpdate(t, u)
    BY DEF Sync!ApplyUpdate, ApplyUpdate, Sync!UpdateAccepted, UpdateAccepted, Sync!NoEpoch,
       NoEpoch
<1>3. ASSUME NEW t, NEW s PROVE Sync!ApplySnapshot(t, s) = ApplySnapshot(t, s)
    BY DEF Sync!ApplySnapshot, ApplySnapshot, Sync!SnapshotAccepted, SnapshotAccepted,
       Sync!Rebased, Rebased, Sync!RevisionsAfter, RevisionsAfter, Sync!EmptyTracker,
       EmptyTracker, Sync!NoRevision, NoRevision
<1>4. QED
    BY <1>1, <1>2, <1>3

(* The bound on the alarms of all runs bounds those of one.                *)
LEMMA RunBounded ==
    ASSUME TypeOK, IsFiniteSet(Published), Cardinality(Published) < MaxAlarms
    PROVE  Len(log[Len(log)]) < MaxAlarms
<1> DEFINE run == {Current} \X (1 .. Revision)
<1>1. Revision \in Nat /\ Current \in 1 .. Len(log) /\ MaxAlarms \in Nat
    BY Typed, CapAssumption
<1>2. DOMAIN log = 1 .. Len(log) /\ DOMAIN log[Current] = 1 .. Revision
    BY <1>1 DEF TypeOK, Revision
<1>3. run \subseteq Published
    BY <1>1, <1>2 DEF Published
<1>4. Cardinality(run) <= Cardinality(Published) /\ Cardinality(Published) \in Nat
    BY <1>3, FS_Subset, FS_CardinalityType
<1>5. /\ IsFiniteSet({Current}) /\ Cardinality({Current}) = 1
      /\ IsFiniteSet(1 .. Revision) /\ Cardinality(1 .. Revision) = Revision
    <2>1. IsFiniteSet(1 .. Revision) /\ Cardinality(1 .. Revision) = Revision
        <3>1. 1 \in Int /\ Revision \in Int
            BY <1>1
        <3>2. IsFiniteSet(1 .. Revision)
              /\ Cardinality(1 .. Revision) = IF 1 > Revision THEN 0 ELSE Revision - 1 + 1
            BY <3>1, FS_Interval
        <3>3. QED
            BY <1>1, <3>2
    <2>2. QED
        BY <2>1, FS_Singleton
<1>6. Cardinality(run) = Revision
    <2>1. Cardinality(run) = Cardinality({Current}) * Cardinality(1 .. Revision)
        BY <1>5, FS_Product
    <2>2. QED
        BY <1>1, <1>5, <2>1
<1>7. QED
    BY <1>1, <1>4, <1>6 DEF Revision, Current

(* The chain of queues implements AlarmSync: it delivers only what some    *)
(* run published, and never a snapshot of an older run after a newer one.  *)
THEOREM ChainImplementsSync == Spec => ImplementsSync
<1>1. Init => Sync!Init
    BY SameTracker DEF Init, Sync!Init, EmptyView
<1>2. IInv /\ [Next]_vars => [Sync!Next]_Sync!vars
    <2> SUFFICES ASSUME IInv, [Next]_vars PROVE [Sync!Next]_Sync!vars
        OBVIOUS
    <2>0. TypeOK /\ Chain /\ view \in Views
        BY Typed DEF IInv
    <2>1. ASSUME NEW k \in Keys, NEW a \in EventValue, Publish(k, a) PROVE Sync!Next
        <3>1. Len(log[Len(log)]) < MaxAlarms
            BY <2>0, <2>1, RunBounded DEF Publish, Chain
        <3>2. Sync!Publish(k, a)
            BY <2>1, <3>1 DEF Publish, Sync!Publish, uiVars
        <3>3. QED
            BY <3>2, SameTracker DEF Sync!Next
    <2>2. ASSUME NEW n \in 0 .. Len(wire), Restart(n) PROVE Sync!Next
        BY <2>2 DEF Restart, uiVars, Sync!Next, Sync!Restart, Current
    <2>3. CASE Drain
        <3> DEFINE h == Head(uiQ)
        <3>1. /\ uiQ # <<>> /\ uiQ' = Tail(uiQ) /\ view' = Handled(view, h)
              /\ UNCHANGED othersVars /\ log' = log
            BY <2>3 DEF Drain, othersVars, collectorVars, linkVars
        <3>2. h \in OnItsWay /\ h \in Messages
            BY <3>1, Drained
        <3>3. Genuine(h) /\ Ahead(h)
            BY <2>0, <3>2 DEF Chain
        <3> HIDE DEF h
        <3>4. CASE h.type = "update"
            <4>1. PICK e \in 1 .. Len(log) :
                      \E r \in 1 .. Len(log[e]) : h.body = Sync!UpdateAt(log, e, r)
                BY <3>3, <3>4 DEF Genuine
            <4>2. PICK r \in 1 .. Len(log[e]) : h.body = Sync!UpdateAt(log, e, r)
                BY <4>1
            <4>3. view'.tracker = ApplyUpdate(view.tracker, h.body)
                <5>1. h.body \in Updates /\ view' = ApplyAlarm(view, h.body)
                    BY <3>1, <3>2, <3>4, Kinds DEF Handled
                <5>2. QED
                    BY <2>0, <5>1, ApplyAlarmEffect
            <4>4. Sync!DeliverUpdate(e, r)
                BY <3>1, <4>2, <4>3, SameTracker DEF Sync!DeliverUpdate
            <4>5. QED
                BY <4>4 DEF Sync!Next
        <3>5. CASE h.type = "snapshot"
            <4>1. PICK e \in 1 .. Len(log) :
                      \E r \in 0 .. Len(log[e]) : h.body = Sync!SnapshotAt(log, e, r)
                BY <3>3, <3>5 DEF Genuine
            <4>2. PICK r \in 0 .. Len(log[e]) : h.body = Sync!SnapshotAt(log, e, r)
                BY <4>1
            <4>3. view'.tracker = ApplySnapshot(view.tracker, h.body)
                <5>1. h.body \in Snapshots /\ view' = ApplyAlarmSnapshot(view, h.body)
                    BY <3>1, <3>2, <3>5, Kinds DEF Handled
                <5>2. QED
                    BY <2>0, <5>1, ApplyAlarmSnapshotEffect
            <4>4. e >= view.tracker.epoch
                BY <3>3, <3>5, <4>2 DEF Ahead, Sync!SnapshotAt
            <4>5. Sync!DeliverSnapshot(e, r)
                BY <3>1, <4>2, <4>3, <4>4, SameTracker DEF Sync!DeliverSnapshot
            <4>6. QED
                BY <4>5 DEF Sync!Next
        <3>6. CASE h.type = "sample"
            <4>1. view' = Sampled(view, h.body) /\ h.body \in Channels
                BY <3>1, <3>2, <3>6, Kinds DEF Handled
            <4>2. view'.tracker = view.tracker
                BY <2>0, <4>1, OperatorEffect
            <4>3. QED
                BY <3>1, <4>2 DEF Sync!vars
        <3>7. CASE h.type = "status"
            BY <3>1, <3>7 DEF Handled, Sync!vars
        <3>8. QED
            BY <3>2, <3>4, <3>5, <3>6, <3>7, Kinds
    <2>4. ASSUME view'.tracker = view.tracker, log' = log PROVE UNCHANGED Sync!vars
        BY <2>4 DEF Sync!vars
    <2>5. ASSUME NEW c \in Channels, Dismiss(c) PROVE UNCHANGED Sync!vars
        <3>1. view' = DismissChannel(view, c) /\ log' = log
            BY <2>5 DEF Dismiss, Operator, collectorVars
        <3>2. QED
            BY <2>0, <2>4, <3>1, OperatorEffect
    <2>6. CASE Acknowledge
        <3>1. view' = AcknowledgeAll(view) /\ log' = log
            BY <2>6 DEF Acknowledge, Operator, collectorVars
        <3>2. QED
            BY <2>0, <2>4, <3>1, OperatorEffect
    <2>7. CASE Clear
        <3>1. view' = ClearHistory(view) /\ log' = log
            BY <2>7 DEF Clear, Operator, collectorVars
        <3>2. QED
            BY <2>0, <2>4, <3>1, ClearEffect
    <2>8. ASSUME log' = log, view' = view PROVE UNCHANGED Sync!vars
        BY <2>4, <2>8
    <2>9. CASE \/ SnapshotTick \/ Forward \/ ForwarderLagged \/ ServeStart \/ ServeSend
               \/ ServeLagged \/ Connect \/ ConnectFails \/ ReadFrame \/ ReadEof
               \/ UNCHANGED vars
        <3>1. log' = log /\ view' = view
            BY <2>9 DEF SnapshotTick, Forward, ForwarderLagged, ServeStart, ServeSend,
               ServeLagged, Connect, ConnectFails, ReadFrame, ReadEof, vars,
               collectorVars, linkVars, uiVars
        <3>2. QED
            BY <2>8, <3>1
    <2>10. ASSUME NEW c \in Channels, ForwardSample(c) PROVE UNCHANGED Sync!vars
        BY <2>8, <2>10 DEF ForwardSample, collectorVars, uiVars
    <2>11. ASSUME NEW n \in 0 .. Len(wire), Break(n) PROVE UNCHANGED Sync!vars
        BY <2>8, <2>11 DEF Break, collectorVars, uiVars
    <2>12. QED
        BY <2>1, <2>2, <2>3, <2>5, <2>6, <2>7, <2>9, <2>10, <2>11 DEF Next
<1>3. QED
    BY <1>1, <1>2, AlwaysIInv, PTL DEF Spec, ImplementsSync, Sync!Spec

-----------------------------------------------------------------------------
\* What AlarmSyncProofs proves holds of the tracker behind the queues.

SyncProofs == INSTANCE AlarmSyncProofs WITH tracker <- view.tracker, MaxRevision <- MaxAlarms

(* Both instances of AlarmSync are the same.                               *)
LEMMA SameSync ==
    /\ Sync!Init => SyncProofs!Init
    /\ [Sync!Next]_Sync!vars => [SyncProofs!Next]_SyncProofs!vars
    /\ SyncProofs!TrackerExact => Sync!TrackerExact
<1>1. Sync!Init => SyncProofs!Init
    BY DEF Sync!Init, SyncProofs!Init, Sync!EmptyTracker, SyncProofs!EmptyTracker,
        Sync!NoEpoch, SyncProofs!NoEpoch, Sync!NoRevision, SyncProofs!NoRevision
<1>2. Sync!Next => SyncProofs!Next
    <2>1. ASSUME NEW k \in Keys, NEW a \in EventValue, Sync!Publish(k, a)
          PROVE  SyncProofs!Publish(k, a)
        BY <2>1
        DEF Sync!Publish, SyncProofs!Publish, Sync!Extended, SyncProofs!Extended, Sync!Truth,
            SyncProofs!Truth
    <2>2. ASSUME Sync!Restart PROVE SyncProofs!Restart
        BY <2>2 DEF Sync!Restart, SyncProofs!Restart
    <2>3. ASSUME NEW e \in 1 .. Len(log), NEW r \in 1 .. Len(log[e]), Sync!DeliverUpdate(e, r)
          PROVE  SyncProofs!DeliverUpdate(e, r)
        BY <2>3
        DEF Sync!DeliverUpdate, SyncProofs!DeliverUpdate, Sync!UpdateAt, SyncProofs!UpdateAt,
            Sync!ApplyUpdate, SyncProofs!ApplyUpdate, Sync!UpdateAccepted,
            SyncProofs!UpdateAccepted, Sync!NoEpoch, SyncProofs!NoEpoch
    <2>4. ASSUME NEW e \in 1 .. Len(log), NEW r \in 0 .. Len(log[e]), Sync!DeliverSnapshot(e, r)
          PROVE  SyncProofs!DeliverSnapshot(e, r)
        <3>1. SyncProofs!SnapshotAt(log, e, r) = Sync!SnapshotAt(log, e, r)
            BY DEF Sync!SnapshotAt, SyncProofs!SnapshotAt, Sync!Truth, SyncProofs!Truth
        <3>2. ASSUME NEW t, NEW s PROVE SyncProofs!ApplySnapshot(t, s) = Sync!ApplySnapshot(t, s)
            BY DEF Sync!ApplySnapshot, SyncProofs!ApplySnapshot, Sync!SnapshotAccepted,
                SyncProofs!SnapshotAccepted, Sync!Rebased, SyncProofs!Rebased,
                Sync!RevisionsAfter, SyncProofs!RevisionsAfter, Sync!EmptyTracker,
                SyncProofs!EmptyTracker, Sync!NoRevision, SyncProofs!NoRevision
        <3>3. QED
            BY <2>4, <3>1, <3>2 DEF Sync!DeliverSnapshot, SyncProofs!DeliverSnapshot
    <2>5. Sync!EventValue = EventValue /\ SyncProofs!EventValue = EventValue
        BY DEF Sync!EventValue, SyncProofs!EventValue, EventValue
    <2>6. QED
        BY <2>1, <2>2, <2>3, <2>4, <2>5 DEF Sync!Next, SyncProofs!Next
<1>3. Sync!vars = SyncProofs!vars /\ (UNCHANGED Sync!vars => UNCHANGED SyncProofs!vars)
    BY DEF Sync!vars, SyncProofs!vars
<1>4. SyncProofs!TrackerExact => Sync!TrackerExact
    BY DEF SyncProofs!TrackerExact, Sync!TrackerExact, SyncProofs!Known, Sync!Known,
        SyncProofs!Truth, Sync!Truth, SyncProofs!NoEpoch, Sync!NoEpoch,
        SyncProofs!NoRevision, Sync!NoRevision
<1>5. QED
    BY <1>1, <1>2, <1>3, <1>4

(* Whatever the queues lose and however often the client reconnects, every *)
(* alarm in the interface's tracker is the truth of one revision of one    *)
(* collector run (apply_alarm, apply_alarm_snapshot).                      *)
THEOREM ScreenTruthful == Spec => []Sync!TrackerExact
<1>1. SyncProofs!Spec => []SyncProofs!TrackerExact
    BY CapAssumption, NoAlarmAssumption, SyncProofs!AlwaysExact
<1>2. QED
    BY <1>1, SameSync, ChainImplementsSync, PTL
    DEF ImplementsSync, Sync!Spec, SyncProofs!Spec
=============================================================================

------------------------------ MODULE AlarmView ------------------------------
(***************************************************************************)
(* What the user interface keeps of the alarms (ui_client/alarm.rs): the   *)
(* tracker, the alarms shown, those acknowledged, the CAN channels whose   *)
(* timeout alarms the operator dismissed, and the history, newest first.   *)
(* An update in the history keeps its epoch and revision, which the code   *)
(* does not store.  Arrival times, the count of raises and the wording of  *)
(* the status line are left out.                                           *)
(***************************************************************************)
EXTENDS AlarmTracker, Sequences

CONSTANTS
    Channels,     \* CAN channels
    Timeouts,     \* the alarms that are CAN signal timeouts
    ChannelOf,    \* the channel of each of them
    MaxHistory    \* MAX_ALARM_HISTORY

ASSUME ViewAssumption ==
    /\ Timeouts \subseteq Keys
    /\ ChannelOf \in [Timeouts -> Channels]
    /\ MaxHistory \in Nat \ {0}

Views ==
    [tracker      : Trackers,
     active       : AlarmMap,
     acknowledged : SUBSET Keys,
     dismissed    : SUBSET Channels,
     history      : Seq(Updates)]

EmptyView ==
    [tracker      |-> EmptyTracker(NoEpoch),
     active       |-> EmptyTracker(NoEpoch).active,
     acknowledged |-> {},
     dismissed    |-> {},
     history      |-> <<>>]

TimeoutsOf(c) == {k \in Timeouts : ChannelOf[k] = c}

\* The alarms hidden by the dismissed channels cs.
Hidden(cs) == UNION {TimeoutsOf(c) : c \in cs}

\* Mutant: push_back.
RecordedLast(history, u) ==
    LET all == history \o <<u>>
    IN  IF Len(all) > MaxHistory THEN SubSeq(all, 1, MaxHistory) ELSE all

\* Mutant: pop_front down to the limit.
RecordedUnlessFull(history, u) ==
    LET all == <<u>> \o history
    IN  IF Len(all) > MaxHistory THEN Tail(all) ELSE all

\* push_front, then pop_back down to the limit.
Recorded(history, u) ==
    LET all == <<u>> \o history
    IN  IF Len(all) > MaxHistory THEN SubSeq(all, 1, MaxHistory) ELSE all

\* Mutant: an update of another run is applied too.
ApplyAlarmAnyRun(v, u) ==
    LET t == [v.tracker EXCEPT !.epoch = u.epoch]
    IN  IF UpdateAccepted(t, u)
        THEN [v EXCEPT !.tracker = ApplyUpdate(t, u),
                       !.active[u.key] = u.alarm,
                       !.acknowledged = @ \ {u.key},
                       !.history = Recorded(@, u)]
        ELSE v

\* apply_alarm: a clear, or a raise that is new to the view, ends an
\* acknowledgement; a rejected update changes nothing.
ApplyAlarm(v, u) ==
    LET isNew == u.alarm = NoAlarm \/ v.active[u.key] = NoAlarm
    IN  IF UpdateAccepted(v.tracker, u)
        THEN [v EXCEPT !.tracker = ApplyUpdate(@, u),
                       !.active[u.key] = u.alarm,
                       !.acknowledged = IF isNew THEN @ \ {u.key} ELSE @,
                       !.history = Recorded(@, u)]
        ELSE v

\* Mutant: acknowledgements of alarms that ended are kept.
ApplyAlarmSnapshotKeepingMarks(v, s) ==
    LET t         == ApplySnapshot(v.tracker, s)
        dismissed == IF v.tracker.epoch = s.epoch THEN v.dismissed ELSE {}
    IN  IF SnapshotAccepted(v.tracker, s)
        THEN [v EXCEPT !.tracker = t,
                       !.active = [k \in Keys |-> IF k \in Hidden(dismissed) THEN NoAlarm
                                                  ELSE t.active[k]],
                       !.dismissed = dismissed]
        ELSE v

\* apply_alarm_snapshot: the alarms shown become the tracker's, less the
\* timeouts of dismissed channels; another epoch forgets the operator's marks.
ApplyAlarmSnapshot(v, s) ==
    LET t         == ApplySnapshot(v.tracker, s)
        same      == v.tracker.epoch = s.epoch
        dismissed == IF same THEN v.dismissed ELSE {}
        shown     == [k \in Keys |-> IF k \in Hidden(dismissed) THEN NoAlarm
                                     ELSE t.active[k]]
    IN  IF SnapshotAccepted(v.tracker, s)
        THEN [v EXCEPT !.tracker = t,
                       !.active = shown,
                       !.acknowledged = {k \in (IF same THEN @ ELSE {}) : shown[k] # NoAlarm},
                       !.dismissed = dismissed]
        ELSE v

\* dismiss_channel_alarms
DismissChannel(v, c) ==
    [v EXCEPT !.dismissed = @ \cup {c},
              !.active = [k \in Keys |-> IF k \in TimeoutsOf(c) THEN NoAlarm ELSE @[k]],
              !.acknowledged = @ \ {k \in TimeoutsOf(c) : v.active[k] # NoAlarm}]

\* The confirm button of a channel's card: the channel is not dismissed and
\* has an active timeout that is not acknowledged.
CanDismiss(v, c) ==
    /\ c \notin v.dismissed
    /\ \E k \in TimeoutsOf(c) : v.active[k] # NoAlarm /\ k \notin v.acknowledged

\* acknowledge_all_alarms
AcknowledgeAll(v) ==
    [v EXCEPT !.acknowledged = @ \cup {k \in Keys : v.active[k] # NoAlarm}]

\* clear_alarm_panel_stats
ClearHistory(v) == [v EXCEPT !.history = <<>>]

\* handle_sample: new data of a channel ends its dismissal.
Sampled(v, c) == [v EXCEPT !.dismissed = @ \ {c}]
=============================================================================

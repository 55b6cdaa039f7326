------------------------------ MODULE AlarmFeed ------------------------------
(***************************************************************************)
(* The path of an alarm from the collector's EventBus to the screen:       *)
(*                                                                         *)
(*   publish_alarm --> alarmQ --> run_alarm_ui_forwarder --> clientQ       *)
(*     --> serve_ui_client --> wire --> resilient_feed_thread --> uiQ      *)
(*     --> drain_messages --> view                                         *)
(*                                                                         *)
(* Every queue is bounded and each of the five tasks runs at its own pace. *)
(* alarmQ and clientQ drop their oldest messages, uiQ refuses new ones but *)
(* makes a snapshot wait, a connection breaks at any byte and the          *)
(* collector restarts with another epoch and no alarms.  The state lock of *)
(* AlarmState makes numbering an alarm and queueing it one step; its       *)
(* revision and active map are the length and the last view of the current *)
(* run in log.  One client is followed; the copy of each alarm on the      *)
(* general bus does not come this way and is left out.  The loss counters  *)
(* are kept as "counted at least one loss".                                *)
(***************************************************************************)
EXTENDS AlarmView, Broadcast, FiniteSets

CONSTANTS
    MaxAlarms,      \* bound on the alarms published by all collector runs
    MaxEpoch,       \* bound on the collector runs
    AlarmCap,       \* bus_capacity
    ClientCap,      \* ui_feed_capacity
    WireCap,        \* frames the socket buffers hold
    UiCap           \* UI_QUEUE_CAPACITY

ASSUME CapAssumption ==
    {MaxAlarms, MaxEpoch, AlarmCap, ClientCap, WireCap, UiCap} \subseteq Nat \ {0}

VARIABLES
    log,        \* the alarms of every collector run, as in AlarmSync
    alarmQ,     \* the forwarder's receiver of alarm_tx
    clientQ,    \* the client's receiver of ui_tx
    uiDrop,     \* ui_drop of this collector run is not zero
    conn,       \* the client's connection
    wire,       \* frames written to the socket and not yet read
    uiQ,        \* the channel to the interface thread
    feedDrop,   \* dropped_messages of the interface is not zero
    view,       \* the interface's alarm state
    since       \* ghost: alarms of this run up to here are not owed to the client

vars == <<log, alarmQ, clientQ, uiDrop, conn, wire, uiQ, feedDrop, view, since>>

collectorVars == <<log, alarmQ, uiDrop>>
linkVars      == <<clientQ, conn, wire>>
uiVars        == <<uiQ, feedDrop, view>>

Current  == Len(log)
Revision == Len(log[Current])
\* The alarms of all runs, as run and revision.
Published == UNION {{e} \X DOMAIN log[e] : e \in DOMAIN log}

\* AlarmSync follows the tracker alone; its operators read the log.
Sync == INSTANCE AlarmSync WITH tracker <- view.tracker, MaxRevision <- MaxAlarms

UpdateMsg(u)   == [type |-> "update",   body |-> u]
SnapshotMsg(s) == [type |-> "snapshot", body |-> s]
SampleMsg(c)   == [type |-> "sample",   body |-> c]
StatusMsg      == [type |-> "status",   body |-> {}]

Messages ==
    [type : {"update"}, body : Updates] \cup [type : {"snapshot"}, body : Snapshots]
        \cup [type : {"sample"}, body : Channels] \cup {StatusMsg}

\* accepted: subscribed, its task not started; broken: the collector's end is
\* gone, what it wrote may still be read.
Connections == {"down", "accepted", "serving", "broken"}
Subscribed  == conn \in {"accepted", "serving"}

Init ==
    /\ log = << <<>> >>
    /\ alarmQ = EmptyChannel /\ clientQ = EmptyChannel
    /\ uiDrop = FALSE /\ feedDrop = FALSE
    /\ conn = "down" /\ wire = <<>> /\ uiQ = <<>>
    /\ view = EmptyView
    /\ since = 0

-----------------------------------------------------------------------------
(* The collector. *)

\* publish_alarm, under the state lock.
Publish(k, a) ==
    /\ Cardinality(Published) < MaxAlarms
    /\ log' = Sync!Extended(log, k, a)
    /\ alarmQ' = Sent(alarmQ, AlarmCap, UpdateMsg(Sync!UpdateAt(log', Current, Revision + 1)))
    /\ UNCHANGED <<uiDrop, linkVars, uiVars, since>>

\* publish_alarm_snapshot: behind every alarm published so far.
WithSnapshot(q) ==
    Sent(q, AlarmCap, SnapshotMsg(Sync!SnapshotAt(log, Current, Revision)))

\* The forwarder's one-second tick.
SnapshotTick ==
    /\ alarmQ' = WithSnapshot(alarmQ)
    /\ UNCHANGED <<log, uiDrop, linkVars, uiVars, since>>

\* ui_tx.send: without a receiver the message is dropped and not counted.
ToClient(m) == clientQ' = IF Subscribed THEN Sent(clientQ, ClientCap, m) ELSE clientQ

Forward ==
    /\ HasMessage(alarmQ)
    /\ ToClient(Head(alarmQ.queue))
    /\ alarmQ' = Received(alarmQ)
    /\ UNCHANGED <<log, uiDrop, conn, wire, uiVars, since>>

ForwarderLagged ==
    /\ alarmQ.lagged
    /\ alarmQ' = LagReported(alarmQ)
    /\ uiDrop' = TRUE
    /\ UNCHANGED <<log, linkVars, uiVars, since>>

\* run_ui_forwarder sends a sample of channel c on the same ui_tx.
ForwardSample(c) ==
    /\ ToClient(SampleMsg(c))
    /\ UNCHANGED <<collectorVars, conn, wire, uiVars, since>>

\* Mutant: the initial repair goes to the client past the pending alarms.
ServeStartDirect ==
    /\ conn = "accepted"
    /\ conn' = "serving"
    /\ clientQ' = Sent(clientQ, ClientCap, SnapshotMsg(Sync!SnapshotAt(log, Current, Revision)))
    /\ UNCHANGED <<log, uiDrop, alarmQ, wire, uiVars, since>>

\* serve_ui_client starts and asks for the initial repair.
ServeStart ==
    /\ conn = "accepted"
    /\ conn' = "serving"
    /\ alarmQ' = WithSnapshot(alarmQ)
    /\ UNCHANGED <<log, uiDrop, clientQ, wire, uiVars, since>>

ServeSend ==
    /\ conn = "serving" /\ HasMessage(clientQ) /\ Len(wire) < WireCap
    /\ wire' = Append(wire, Head(clientQ.queue))
    /\ clientQ' = Received(clientQ)
    /\ UNCHANGED <<collectorVars, conn, uiVars, since>>

ServeLagged ==
    /\ conn = "serving" /\ clientQ.lagged
    /\ clientQ' = LagReported(clientQ)
    /\ uiDrop' = TRUE
    /\ UNCHANGED <<log, alarmQ, conn, wire, uiVars, since>>

\* The socket fails: the client may still read a prefix of what was written.
BreakAfter(n) ==
    /\ conn' = IF Subscribed THEN "broken" ELSE conn
    /\ wire' = SubSeq(wire, 1, n)
    /\ clientQ' = EmptyChannel

Break(n) ==
    /\ Subscribed
    /\ BreakAfter(n)
    /\ UNCHANGED <<collectorVars, uiVars, since>>

\* The collector process dies and a new one starts.
Restart(n) ==
    /\ Current < MaxEpoch
    /\ log' = Append(log, <<>>)
    /\ alarmQ' = EmptyChannel
    /\ uiDrop' = FALSE
    /\ since' = 0
    /\ BreakAfter(n)
    /\ UNCHANGED uiVars

-----------------------------------------------------------------------------
(* The interface. *)

\* Mutant: the refused message is not counted.
TrySendSilently(m) ==
    /\ uiQ' = IF Len(uiQ) < UiCap THEN Append(uiQ, m) ELSE uiQ
    /\ UNCHANGED feedDrop

\* try_send_ui_msg of anything but a snapshot: a full queue refuses it.
TrySend(m) ==
    IF Len(uiQ) < UiCap
    THEN uiQ' = Append(uiQ, m) /\ UNCHANGED feedDrop
    ELSE feedDrop' = TRUE /\ UNCHANGED uiQ

\* TcpStream::connect succeeds and the collector accepts and subscribes.
Connect ==
    /\ conn = "down"
    /\ conn' = "accepted"
    /\ since' = Revision
    /\ TrySend(StatusMsg)
    /\ UNCHANGED <<collectorVars, clientQ, wire, view>>

\* The connect attempt fails; the thread reports it and tries again later.
ConnectFails ==
    /\ conn = "down"
    /\ TrySend(StatusMsg)
    /\ UNCHANGED <<collectorVars, linkVars, view, since>>

ReadFrame ==
    /\ wire # <<>>
    /\ IF Head(wire).type = "snapshot"
       THEN Len(uiQ) < UiCap /\ uiQ' = Append(uiQ, Head(wire)) /\ UNCHANGED feedDrop
       ELSE TrySend(Head(wire))
    /\ wire' = Tail(wire)
    /\ UNCHANGED <<collectorVars, clientQ, conn, view, since>>

\* End of the stream: report it, sleep, connect again.
ReadEof ==
    /\ conn = "broken" /\ wire = <<>>
    /\ conn' = "down"
    /\ TrySend(StatusMsg)
    /\ UNCHANGED <<collectorVars, clientQ, wire, view, since>>

\* handle_ui_msg
Handled(v, m) ==
    CASE m.type = "update"   -> ApplyAlarm(v, m.body)
      [] m.type = "snapshot" -> ApplyAlarmSnapshot(v, m.body)
      [] m.type = "sample"   -> Sampled(v, m.body)
      [] m.type = "status"   -> v

\* A snapshot moves the tracker from an older run to the current one.
Joins(m) ==
    /\ m.type = "snapshot" /\ m.body.epoch = Current
    /\ view.tracker.epoch \notin {NoEpoch, Current}

\* Alarms up to revision r of the current run are not owed any more.
Excused(r) == IF r > since THEN r ELSE since

\* drain_messages, one message.
Drain ==
    /\ uiQ # <<>>
    /\ view' = Handled(view, Head(uiQ))
    /\ uiQ' = Tail(uiQ)
    /\ since' = IF Joins(Head(uiQ)) THEN Excused(Head(uiQ).body.revision) ELSE since
    /\ UNCHANGED <<collectorVars, linkVars, feedDrop>>

\* The operator's buttons.
Operator(v) ==
    /\ view' = v
    /\ UNCHANGED <<collectorVars, linkVars, uiQ, feedDrop>>

Dismiss(c)     == CanDismiss(view, c) /\ Operator(DismissChannel(view, c)) /\ UNCHANGED since
Acknowledge    == Operator(AcknowledgeAll(view)) /\ UNCHANGED since

\* Revisions cleared from the history count as seen.
Clear ==
    /\ view.history # <<>>
    /\ Operator(ClearHistory(view))
    /\ since' = IF view.history[1].epoch = Current
                THEN Excused(view.history[1].revision) ELSE since

Next ==
    \/ \E k \in Keys, a \in EventValue : Publish(k, a)
    \/ SnapshotTick
    \/ Forward
    \/ ForwarderLagged
    \/ \E c \in Channels : ForwardSample(c)
    \/ ServeStart
    \/ ServeSend
    \/ ServeLagged
    \/ \E n \in 0 .. Len(wire) : Break(n)
    \/ \E n \in 0 .. Len(wire) : Restart(n)
    \/ Connect
    \/ ConnectFails
    \/ ReadFrame
    \/ ReadEof
    \/ Drain
    \/ \E c \in Channels : Dismiss(c)
    \/ Acknowledge
    \/ Clear

Spec == Init /\ [][Next]_vars

(* Every task of the chain keeps running.  A tick can delay the            *)
(* forwarder's recv and overrun a receiver that has just reported a lag,   *)
(* but ticks are a second apart: a receiver that can take a message again  *)
(* and again takes one.                                                    *)
Fairness ==
    /\ WF_vars(SnapshotTick)
    /\ SF_vars(Forward)
    /\ WF_vars(ForwarderLagged)
    /\ WF_vars(ServeStart)
    /\ SF_vars(ServeSend)
    /\ WF_vars(ServeLagged)
    /\ WF_vars(ReadFrame)
    /\ WF_vars(ReadEof)
    /\ WF_vars(Connect)
    /\ WF_vars(Drain)

FairSpec == Spec /\ Fairness

-----------------------------------------------------------------------------

TypeOK ==
    /\ log \in Seq(Seq([key : Keys, view : AlarmMap])) /\ log # <<>>
    /\ alarmQ \in Receivers(Messages, AlarmCap) /\ clientQ \in Receivers(Messages, ClientCap)
    /\ {uiDrop, feedDrop} \subseteq BOOLEAN
    /\ conn \in Connections
    /\ wire \in Seq(Messages) /\ Len(wire) <= WireCap
    /\ uiQ \in Seq(Messages) /\ Len(uiQ) <= UiCap
    /\ view \in Views
    /\ since \in Nat

\* Every message on its way, the next one to be applied first.
InFlight == uiQ \o wire \o clientQ.queue \o alarmQ.queue

UpdatesAt(s, I) == {i \in I : s[i].type = "update"}

(* Repair never overtakes history: no snapshot in front of an alarm update *)
(* of the same run, nor one already applied, covers that update's          *)
(* revision, so every update that arrives enters the history               *)
(* (publish_alarm_snapshot queues behind publish_alarm).                   *)
RepairFollowsHistory ==
    \A i \in UpdatesAt(InFlight, DOMAIN InFlight) :
        LET u == InFlight[i].body
        IN  /\ u.epoch = view.tracker.epoch => UpdateAccepted(view.tracker, u)
            /\ \A j \in 1 .. i - 1 :
                  InFlight[j].type = "snapshot" /\ InFlight[j].body.epoch = u.epoch =>
                      InFlight[j].body.revision < u.revision

(* The history lists transitions newest first and none twice, across lost  *)
(* connections, repeated snapshots and collector restarts.                 *)
HistoryOrdered ==
    /\ TypeOK
    /\ \A i, j \in DOMAIN view.history : i < j =>
          LET new == view.history[i]
              old == view.history[j]
          IN  \/ new.epoch > old.epoch
              \/ new.epoch = old.epoch /\ new.revision > old.revision

\* Revision r of the current run is neither in the history nor on its way,
\* and did not leave the history at its far end.
Missing(r) ==
    LET in(u) == u.epoch = Current /\ u.revision = r
    IN  /\ \A i \in DOMAIN view.history : ~in(view.history[i])
        /\ \A i \in UpdatesAt(InFlight, DOMAIN InFlight) : ~in(InFlight[i].body)
        /\ Len(view.history) = MaxHistory /\ view.history[MaxHistory].epoch = Current =>
              view.history[MaxHistory].revision < r

LossCounted == uiDrop \/ feedDrop \/ alarmQ.lagged \/ clientQ.lagged

(* No alarm is lost in silence: while a client is connected, every alarm   *)
(* published since it subscribed is in the history or on its way, unless   *)
(* some queue overflowed and ui_drop or dropped_messages says so.  Alarms  *)
(* of a new run from before the tracker joined it are excused.             *)
LossIsCounted ==
    Subscribed /\ ~LossCounted /\ view.tracker.epoch \in {NoEpoch, Current} =>
        \A r \in since + 1 .. Revision : ~Missing(r)

(* README.md 336: raises and clears all enter the history; snapshots do    *)
(* not restore what overflow or a disconnection lost.  For a client that   *)
(* stayed connected to a collector that counted no loss, nothing published *)
(* since it subscribed may be missing.                                     *)
EveryAlarmInHistory ==
    Subscribed /\ ~LossCounted => \A r \in since + 1 .. Revision : ~Missing(r)

(* The alarms shown are the tracker's, except CAN timeouts, which the      *)
(* operator can hide; only alarms shown are acknowledged.                  *)
ViewFaithful ==
    /\ \A k \in Keys :
          /\ view.active[k] # NoAlarm => view.active[k] = view.tracker.active[k]
          /\ view.active[k] = NoAlarm /\ view.tracker.active[k] # NoAlarm => k \in Timeouts
    /\ \A k \in view.acknowledged : view.active[k] # NoAlarm

(* The chain of queues delivers to the tracker what AlarmSync allows: an   *)
(* update or a snapshot that some run published, never a snapshot of an    *)
(* older run after a newer one.                                            *)
ImplementsSync == Sync!Spec

Truth == Sync!Truth(log, Current, Revision)

\* The connection lasts, and the flood of samples does not go on for ever.
Quiet ==
    /\ <>[](conn = "serving")
    /\ <>[][\A c \in Channels : ~ForwardSample(c)]_vars

(* A connection that lasts ends in the truth: once transitions and samples *)
(* stop, the tracker shows exactly the collector's active alarms, whatever *)
(* was lost.                                                               *)
Converges ==
    Quiet => <>[](view.tracker.epoch = Current /\ view.tracker.active = Truth)

(* events.rs 455: confirming a channel's alarm hides it until new data     *)
(* arrives.  Once data has ended the dismissal, a timeout that stays       *)
(* active is shown again, or dismissed again.                              *)
HiddenUntilNewData ==
    Quiet =>
        \A k \in Timeouts :
            []<>(\/ view.active[k] # NoAlarm
                 \/ view.tracker.active[k] = NoAlarm
                 \/ ChannelOf[k] \in view.dismissed)
=============================================================================

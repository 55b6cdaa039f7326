# Verification of the telemetry collector and its user interface

TLA+ models of the repository's collector, sessions and user interface, TLC
configurations that model-check them, and TLAPS proofs about them. All paths
are relative to the repository; line numbers are of the modelled commit.

## 1. The system

Devices (TCP, serial, CAN) send samples to the **collector**
(`src/bin/collector_service.rs`), which filters them, evaluates alarms, writes
them to PostgreSQL and feeds any number of **user interfaces** (`src/ui_client`)
over TCP. Both are tokio programs: every component below is a task or a thread
of its own, and they meet in bounded queues.

| Component | State it keeps | Operations | Talks to | What is hard | What makes it correct |
|---|---|---|---|---|---|
| Event bus `bus/mod.rs` | two broadcast channels, alarm revision, active map under one lock | `publish`, `publish_alarm`, `publish_alarm_snapshot`, subscribe | everything in the collector | slow receivers lose the oldest messages | revisions are dense and in bus order; repair is queued behind history |
| Store `bus/mod.rs:239` | a snapshot per device | upsert, read | sessions, ingress | read, await, write back | no update of another task is overwritten |
| Alarm protocol `domain/alarm_sync.rs` | epoch, snapshot revision, revision and event per alarm | `apply_update`, `apply_snapshot` | bus, interface | loss, repetition, reordering, restart | shows the truth of one revision and only moves forward |
| Alarm forwarding, UI feed `collector_service.rs:250-384` | receivers, client list, `ui_drop` | forward, snapshot tick, serve a client, accept | bus, interface | five queues of different pace, broken connections | a lasting connection converges; no loss without a counter |
| UI feed client `ui_client/feed.rs` | a connection, the queue to the interface thread | connect, read, try_send, reconnect | collector, interface | queue full, connection lost in a frame | samples may be refused, snapshots may not |
| UI alarm state `ui_client/alarm.rs`, `events.rs` | tracker, shown alarms, acknowledgements, dismissals, history | apply, dismiss, acknowledge, clear | feed client | the three collections must stay in step | nothing shown that the tracker denies; no mark outlives its alarm |
| Device session `session/mod.rs` | connection state, responders, `SessionCore.pending`, `last_rx`, the command queue | call, stop, select loop, reconnect | transport, bus, Store | commands, answers, deadlines, heartbeats, stop and failing writes race | every caller gets exactly one answer, retries follow the policy, stop always ends it |
| Device manager `app/mod.rs` | map of session handles | start, stop, call | sessions | used by no program | - |
| TCP ingress `ingress/tcp.rs` | registry of handles by peer address, cleanup tasks, the count of connections | accept, clean up | sessions, Store, alarm forwarder | cleanup of an old session after a new one of the same address; snapshots read and written back | a device is served while its connection is open; what is shown of it settles |
| CAN clock `ingress/can_clock.rs` | origin, anchor, last counter value, last time | `capture` | CAN ingress | counter resets, host clock jumps, overflow | times are monotone and keep the spacing |
| CAN ingress `ingress/can.rs` | watchdogs per signal, active SENT errors, transmit slot | open a candidate, frame, poll, transmit, end | CAN transport, alarms | raise by polling, clear by frame; echoes | an alarm is active exactly while its cause lasts; silence is noticed |
| CAN transport `transport/can.rs` | callback registry, frame queue | connect in a dozen calls, callbacks, recv, close | vendor DLL | any call may fail half-way; callbacks on foreign threads | nothing of a failed attempt or a closed transport stays |
| Serial ingress and auto-detection `ingress/serial.rs` | probe buffer, decoder buffer, demo alarm | scan, probe, handover, decode, end | byte transport, codecs | bytes read while probing, ports pulled out | each whole frame is published once, in order |
| Byte transports `transport/mod.rs` | handle, pending read | connect, read, write, close | sessions, serial ingress | a blocking read outlives its future | no byte lost, repeated or given to another port |
| Frame codecs `protocol/`, `feed.rs` | stream buffer | encode, try_decode | sessions, ingress, feed | resynchronisation | a valid frame behind noise is found |
| Signal processing `signal/mod.rs` | windows per signal | filter, average, normalise | pipeline | floating point | - |
| Alarm service `app/alarm_service.rs`, `domain/alarm.rs` | rules, detectors, active flags | evaluate, reconfigure | bus | reconfiguration while active, concurrent sources | raise and clear alternate, in publication order |
| Persistence `db/*`, `collector_service.rs:540` | queue, batch, counters | forward, batch, retry | database | outages, unknown commit outcome | at least once, in order, losses counted |
| Control of the collector `collector_service.rs:429-538`, `ui_client/alarm.rs:1-44`, `view.rs` | thresholds on both sides | request, apply, answer | interface, alarm service | two timeouts of different length | thresholds shown as in force are in force |
| UI series, replay and records `ui_client/series.rs`, `replay.rs`, `records.rs` | curves, jobs, a page of rows | push, reduce, load, export, page, open the replay from the records | database, feed | results and progress of threads meet later choices; pages of a growing table | every load lands, no row is skipped, no spike is lost |
| UI drawing, configuration | widgets, files | draw, load | the user | - | - |
| Sender with a window `bin/serial_sender_ui.rs` | the last worker's receiver, stop flag, counts | start, send once, replay, stop; one thread per send | serial port, CAN transport | three buttons replace what belongs to a running thread | Stop reaches the send; frames are whole; the count is true |
| Other senders and database tools `bin/*` | - | generate load, prepare the database | collector | - | - |

The hard parts are the alarm path (six tasks and two programs that must agree
about which alarms are active), the session loop, the persistence pipeline
under an outage, the watchdogs of the CAN ingress and the reads of the serial
one. The hazards listed in `PROJECT.json` give each one its line.

## 2. Modules

| Module | Models | Role |
|---|---|---|
| `AlarmReplica` | - | abstract: what an interface may show of the alarms |
| `AlarmTracker` | `domain/alarm_sync.rs` | operators `ApplyUpdate`, `ApplySnapshot` on a record |
| `AlarmSync` | `publish_alarm`, the tracker, any feed between them | implements `AlarmReplica` |
| `Broadcast` | a receiver of a tokio broadcast channel | operators, external |
| `AlarmView` | `ui_client/alarm.rs` | operators on the interface's alarm state |
| `AlarmFeed` | the real chain of tasks and queues | composes the above, implements `AlarmSync` |
| `CanClock` | `ingress/can_clock.rs` | state machine, one action per call of `capture` |
| `Session` | `session/mod.rs` | state machine of a session, its callers and its device |
| `AlarmService` | `app/alarm_service.rs`, `domain/alarm.rs` | state machine: workers that judge samples by one detector |
| `AtLeastOnce` | - | abstract: what persistence promises |
| `Pipeline` | `collector_service.rs`, `db/retry.rs`, `db/writer.rs` | the way into the database, implements `AtLeastOnce` |
| `CanTransport` | `transport/can.rs`, the candidates of `ingress/can.rs` | opening and closing an adapter, one action per call that may fail |
| `CanIngress` | `ingress/can.rs` | the loop on top of it; composes `CanTransport` and `CanClock` |
| `FrameCodecs` | `protocol/mod.rs`, `protocol/demo_serial.rs` | operators: the search of the three stream decoders |
| `SerialTransport` | the serial port of `transport/mod.rs` | operators and actions: a thread that reads, a task that may stop waiting |
| `SerialIngress` | `ingress/serial.rs` | scan, probe, run; composes the two above |
| `SerialSender` | `bin/serial_sender_ui.rs` | the window and its worker threads |
| `TcpIngress` | `ingress/tcp.rs`, parts of `session/mod.rs` and `collector_service.rs` | registry, sessions at their edges, what is counted of them |
| `Control` | `collector_service.rs:429-538`, `ui_client/alarm.rs`, `view.rs` | threshold requests of several interfaces |
| `Records` | `ui_client/records.rs` and its messages in `events.rs` | the record window and the growing table |
| `Replay` | `ui_client/replay.rs` and its messages in `events.rs` | the replay window, next to the record window (EXTENDS `Records`) |
| `Curves` | `ui_client/series.rs`, the sampler of `replay.rs` | a curve, and its two reductions as operators |
| `AlarmSyncProofs`, `AlarmFeedProofs`, `SessionProofs`, `AlarmServiceProofs`, `PipelineProofs` | - | theorems about the module they are named after |
| `CanIngressProofs` | - | theorems about `CanClock`, `CanTransport` and `CanIngress` |
| `LinesProofs` | - | theorems about `TcpIngress`, `SerialSender` and `SerialIngress` |
| `UiClientProofs` | - | theorems about `Control`, `Replay`, `Records` and `Curves` |
| `MC*` | - | instances for TLC |

```
AlarmReplica  <=refines=  AlarmSync  <=refines=  AlarmFeed
                          EXTENDS AlarmTracker   EXTENDS AlarmView (EXTENDS AlarmTracker), Broadcast

AtLeastOnce   <=refines=  Pipeline (EXTENDS Broadcast)

CanIngress    EXTENDS  CanTransport, CanClock
SerialIngress EXTENDS  SerialTransport, FrameCodecs
Replay        EXTENDS  Records
MCLines       EXTENDS  SerialIngress, SerialSender, TcpIngress
MCUiClient    EXTENDS  Control, Replay, Curves
```

`MCLines` and `MCUiClient` put modules side by side that share no state. The
variable `part` picks in `Init` the one a behaviour is about; the others stay in
their initial states, so the state space is the sum of theirs and not the product.

### Alarms

An `AlarmUpdate` is `[epoch, revision, key, alarm]`: `key` stands for
`(device_id, alarm_id)`, `alarm` is the event raised or `NoAlarm` for a clear.
Epochs are uuids in the code and compared for equality only; the model numbers
the collector runs, which lets properties speak of *older* runs although no
operator of `AlarmTracker` orders them. Maps of the code whose entries come and
go are total functions with a value for "no entry" (`NoAlarm`, revision `0`).

`log[e][r]` in `AlarmSync` is the alarm changed by revision `r` of run `e` and
all alarms active after it; the length of the current run is
`AlarmState.revision`, its last view the active map. Under the state lock of
`EventBus` numbering, changing the map and queueing on the bus are one step
(`bus/mod.rs:105-141`), so they are one action.

`AlarmSync` delivers *any* update or snapshot of the log at *any* time: loss is
a message that is never delivered, repetition and reordering are free. The one
constraint is that a snapshot of an older run never follows one of a newer run,
which the doc comment of `AlarmTracker` (`alarm_sync.rs:22-24`) names as the
order of the feed. `AlarmFeed` earns it: there each queue is a sequence, and TLC shows
that the chain implements `AlarmSync`.

| Action of `AlarmFeed` | Code |
|---|---|
| `Publish`, `SnapshotTick`, `Forward`, `ForwarderLagged` | `publish_alarm`, `run_alarm_ui_forwarder` |
| `ForwardSample` | `run_ui_forwarder`, as a source of messages that compete for the client's queue |
| `ServeStart`, `ServeSend`, `ServeLagged` | `serve_ui_client` |
| `Break`, `Restart` | the socket fails; the collector process dies and starts again |
| `Connect`, `ConnectFails`, `ReadFrame`, `ReadEof` | `resilient_feed_thread`; a snapshot waits for room in the queue, anything else is refused when it is full |
| `Drain` | one message of `drain_messages` through `handle_ui_msg` |
| `Dismiss`, `Acknowledge`, `Clear` | the operator's buttons, under the conditions `view.rs` draws them |

The loss counters are kept as "has counted something". `since` is a ghost: the
alarms of the current run that the connected client is not owed, because it
subscribed later, joined the run by a snapshot, or cleared its history.

### Sessions

`at` is the place in the task: `start`, `connecting` and `backoff` in `run`,
`select` in the loop of `connection_loop`, `events` inside `handle_core_events`
(with the events left in `todo`), `ending` and `done` after the watch channel or
the loop ended it. A branch of the select is an action that leaves events;
each event is an action of its own, so that a failing or hanging write falls
between any two of them. `stop` takes the task only where the code awaits.

`responders` (in `connection_loop`) and `pending` (in `SessionCore`) are two
functions on request ids, as the code has two maps. A deadline is a member of
`due` once it has passed; `silent` stands for `now - last_rx >
heartbeat_timeout`. The device is arbitrary: any frame at any time, a close, or
silence on a connection that stays open. `None` from the command queue does not
occur in the loop: the last handle's drop also drops the watch channel, and
`spawn_with_join` polls that first.

### CAN clock

One action for a frame without a counter value and one for a frame with one;
times are microseconds from 0 to `MaxTime`, `SystemTime::checked_add` fails
above it.

### Alarm service

A sample passes five detectors (axis limits, rules, torque jumps, angle jumps,
frame gaps), each with a lock, a state and alarm ids of its own, so a behaviour
follows one `detector` and one sensor; `Init` picks which. A worker takes a
sample (`Take`), reads the thresholds under their own lock (`Read`; the axis
detector has them under its state lock and skips this step), judges under the
state lock (`Judge`) and publishes one change after another before it lets the
lock go (`Publish`). The collector has one worker; the service is `Clone` and its
own tests share it between threads, so the model has several.

The set of verdicts is a function from an alarm to its level; `Changes` turns two
verdicts into the events the code pushes. Deviations from the mean of `Window`
values are kept times `Window`, in integers. The circular mean is trigonometry
and is left open: a mixture of angles may have any mean. `Change` is the
physical quantity, or the spacing of frames, and `NextTimes` lets a device start
its clock again.

### Persistence

`stage` is everything the processed bus ever carried, and a row of the database
is a position in it. The two readers of that bus are places in it (`alarmAt`,
`persistAt`): how far a reader is behind is exactly the number `Lagged` reports,
which `db_drop` adds up. The raw bus needs no such number, so it is a receiver of
`Broadcast`.

| Action of `Pipeline` | Code |
|---|---|
| `PublishRaw`, `Filter`, `FilterLagged` | ingress; `run_filtered_event_forwarder` |
| `AlarmReceive`, `RaiseAlarm`, `Judged`, `AlarmLagged` | `run_alarm_forwarder`, whose alarms come back on the same bus |
| `PersistReceive`, `Enqueue`, `PersistLagged` | `run_persistence_forwarder`; `send().await` waits for room |
| `WriterReceive`, `FlushTick` | the select loop of `start_pg_writer` |
| `WriteOk`, `WriteFails`, `BackoffEnds` | `persist_batch`, `retry_write`, `PgSink::write` |
| `StrayEnds`, `DatabaseTurns` | the server: a statement whose client gave up, an outage |
| `Restart` | the process exits with everything in memory and starts again |

`pending` holds the batches the writer must write before it selects again: an
event behind the samples collected so far is two. A failed write may have had no
effect, may have committed, or, after the timeout of ten seconds, may still run;
dropping the client does not cancel it. The ends of the channels are not modelled:
`run()` holds the bus until the process exits.

### CAN

`connect()` is the actions from `Prepare` to `Opened`; any of its calls may fail
(`PrepareFails`, `SetupFails`), is undone (`Undo`), and the ingress goes on with
the next candidate of `Candidates`: the configured channels, or every channel
when there is just one configured, on one or two kinds of hardware. The library
itself is `library`, `events` and the frames it hands to `Callback`.

`pc` follows `run_can_ingress`: `drain`, `recv`, `poll`, and back. `HandleFrame`
is the whole of `handle_frame`: the capture time (an action of `CanClock` for
the channel `Clocked`), the SENT errors, the watchdogs and every alarm
published. `errors` and the watchdogs are the task's memory, `alarms` what is
active on the bus. Time passes in `Tick`s; an age stops at `Timeout`. `quiet` is
a ghost that counts from the last frame that is a sign of life by the rule of
the configuration, as `SignOf` states it beside the code's own `Observed`.

### Serial lines

A byte knows the frame and place it was sent in, and the length a decoder reads
from it when it takes it for a header; that is all the codecs look at once
checksums are taken to be perfect. `TryDecode` is the search of the three
decoders. `reader` is the blocking thread of `serial_read_into`, `awaited` the
future that waits for it: `CancelRead` drops the future and leaves the thread,
whose `result` the next `TakeResult` gets. Closing needs the lock the thread
holds. The device sends its script once, on the port it is plugged into, and may
be pulled out.

`SerialSender` is the other end: `Window` are the buttons and messages of
`serial_sender_ui.rs`, `Worker(w)` the steps of one thread. `workerRx` and
`stopFlag` are the two fields of the window whose guards differ between the
buttons. `line` is what the port took, byte by byte.

### TCP

A connection's record is its session: `at` and `writes` are the place in
`set_state` or `publish_telemetry` (publish; read the snapshot; write it back),
`held` whether somebody has its handle, `cleanup` its cleanup task. `overlaps`
remembers that the address was taken again before the last cleanup had run. The
rest of a session is in `Session`.

### The interface beside the feed

`Control`: a click blocks its interface (`waitingFor`) for two seconds at most,
the request may live for five more in the collector. Torque and angle limits
travel in one command, so each panel sends the other's *applied* values along.
Numbers are shown with three decimals, which `Rounded` does with `Grain`.

`Records` and `Replay` share the queue to the interface thread (`inbox`):
progress is dropped when it is full, results wait for room. `walk` is a ghost
that follows a reader from page to page. A row may be inserted in front of
others, because a batch that waited for the database is older than the newest.
`Hits` are the places in the table of what a query finds, and `Number` counts the
hits up to a place: `Matching`, the answer without its limit, is defined by rank.

`Curves`: `push` is one action; the reductions `ForChart` and `ForReplay` are
operators, checked on every curve the actions can make.

## 3. What TLC checks

| Run | Question | Bounds | Distinct states |
|---|---|---|---|
| `alarm_sync` | Does the merge show truths only, whatever the order of its messages, and implement `AlarmReplica`? | 2 alarms, 3 revisions, 2 runs | 215 thousand |
| `alarm_feed` | Does the chain implement `AlarmSync`; can repair overtake history; does history stay in order; does a lasting connection converge? | 1 alarm, 2 publications, 2 runs, alarm queue of 2, others of 1 | 1.2 million |
| `alarm_feed_view` | Do shown alarms, marks and tracker stay in step; is every loss counted, also behind a full history? | 2 alarms, one a CAN timeout, 2 publications, 2 runs, queues and history of 1 | 8.3 million |
| `session` | Is every caller accounted for, every command sent as often as allowed, every `CommandResult` true? | 3 commands, two of them with one request id; 2 attempts; queue of 1, 2 frames in flight | 9.1 million |
| `session_live` | Does stop end it, is every call answered, is a vanished device noticed? | 2 commands, one idempotent with 2 attempts, one too large to encode; 1 frame in flight | 54 thousand |
| `alarm_service` | Does the bus hold the detector's verdict, do raises and clears take turns, do lasting thresholds end in the right alarms? | 5 detectors, 2 workers, 2 values, a window of 2, thresholds on, below and above the values | 27 thousand |
| `pipeline` | Does the database get the bus in order, at least once, without an uncounted gap; does an alarm follow its sample; does the queue drain? | 3 messages of any kind, buses and queue of 1, batches of 2, 2 runs, 3 rows | 1.0 million |
| `can_ingress` | Is everything undone that failed; are times monotone and exact in spacing; are both families of alarms true; is silence noticed? | 2 channels, one or both configured, up to 4 candidates; timeout of 2 ticks; 1 SENT error; counters 0-2, times 0-1; frame queue of 1 | 0.6 million |
| `lines` | Is every whole frame decoded once; does Stop reach the send, are frames whole and counts true; are TCP devices served and their states settled? | serial: 2 ports, 4 frames of 3 bytes behind noise, reads of up to 4 bytes, 1 pull; sender: 2 workers of 5 kinds, 2 frames of 2 bytes, 1 retry; TCP: 2 addresses, 2 connections, 1 sample each, 4 events | 3.1 million |
| `ui_client` | Are shown thresholds in force; does paging show everything; does every load land; do curves keep their spikes? | control: 2 interfaces, 3 requests, 1 restart; records: pages of 2, 3 rows, 3 loads; replay: 2 jobs next to 1 row and 1 page load, inbox of 2; curves: 8 samples of 2 values, cap of 7, window of 4 | 4.5 million |
| `alarm_new_run` | *violated*: does every alarm enter the history? | as `alarm_feed` | |
| `alarm_dismissed` | *violated*: does a dismissed alarm come back with new data? | 1 timeout, 1 channel | |

Why these bounds are enough for the cases that matter:

* A queue of capacity one already drops, refuses, blocks and lags; a second
  place is needed only where order inside the queue matters (the alarm queue,
  where a snapshot must stay behind a delta).
* Two runs show every mixture of an old and a new epoch in flight; three
  revisions are the least with a delta before, at and after a snapshot.
* `alarm_feed` has a history as long as its publications, which is what shows their
  order; `alarm_feed_view` has one of a single record and cuts it. That the order
  survives a cut of a longer one is proved (`HistoryInOrder`), not run.
* Two commands with one request id show `Busy`, late answers and reuse; the third
  has another id, so two deadlines may pass at once: a retry and a timeout in one
  batch of events, whose write may fail before the timeout was handled. A command
  too large to be encoded is in `session_live`.
* Two frames in flight are a buffer that holds one answer and one frame behind
  it; `MaxAttempts` 2 is the least with a retry and an end of retries. The safety
  run leaves out heartbeat answers, which only reset `silent`, as all frames do, and
  telemetry, whose acknowledgement is one more write beside the heartbeat's that
  belongs to no call; `session_live` has both.
* The counter of `CanClock` can start again, run past the end of time and stand
  still within three values; the proofs lift the bound.
* One or two channels give a channel with and one without the clock, watchdogs
  of any frame and of one id, candidates after the first, and an error on the
  other channel than the watchdog.
* A window of two values has a filling phase, a wrap of its ring and a mean
  between the values; two workers are enough for one to publish while the other
  judges. The jump thresholds include arguments in the wrong order and zero.
* Three messages are two samples of a full batch and an event, or an overrun of
  two messages at once; two runs show a statement of the old run that commits
  among the rows of the new one.
* The script of the serial line has noise that claims to be longer than a frame,
  noise that on a demo line is a stream header right in front of a frame, a frame
  whose body looks like such a header (and is one, if the port was opened inside
  it), a frame without samples, and frames with and without the alarm bit: a read
  of four bytes ends inside each of them. The second port
  is silent until the device is moved there.
* Two workers are one that ends and one that replaces it, of every pair of
  kinds; two frames are one that Stop falls into and one it prevents.
* Two connections from one address are an old session and a new one, from two
  they are neighbours; the queue of events holds a whole life of a session, and
  a second one overruns it.
* Three requests are two interfaces that set one class and one of them again;
  a page of two and three rows have an exact and a short last page.
* A curve's clock goes on by a step or starts again at any earlier time.

`MaxRevision`, `MaxEpoch` and `MaxAlarms` (and `MaxTime` of `AlarmService`, `MaxStage`,
`MaxRuns`, `MaxRows` of `Pipeline`; `MaxRequests`, `MaxCollectorRestarts`,
`MaxRows`, `MaxLoads`, `MaxReplays`, `MaxSamples`, `MaxPulls`, `MaxWorkers` and
`MaxConns` of the others) bound counters that grow without limit
in the code and are the only guards without a counterpart there; `WireCap`
stands for the socket buffers. The ghosts `sent` (capped one above its limit)
and `results` count what the environment can observe.

### Properties worth a sentence

* **`RepairFollowsHistory`** - no snapshot in front of an update covers it, at any
  place of the chain. It is what makes the history complete, and depends on
  `publish_alarm_snapshot` queueing behind the alarms (`bus/mod.rs:155-169`).
* **`LossIsCounted`** of `AlarmFeed` - an alarm that is neither in the history nor on its way was
  dropped by a queue, and a counter says so.
* **`OrderIrrelevant`** - in every state and for every two messages of a run: either
  order gives the same tracker, a repeated one changes nothing, and each alarm a
  message tells of is known at its revision or a later one. An `apply_update` that
  takes only the next revision breaks it.
* **`ImplementsSync`, `ReplicaSpec`** - the two refinements.
* **`Converges`** - after any loss, once the connection lasts and samples pause, the
  tracker shows exactly the collector's alarms.
* **`NobodyForgotten`** - the responder map and the pending map change in different
  steps, yet no caller is left out of both the queue and the maps, and no
  responder is without a deadline or an answer under way.
* **`SentWithinPolicy`** - a command that is not idempotent is written once, across
  reconnections, and no frame is about to go out for a command whose caller has
  been answered, whatever retry was under way when the answer came.
* **`BusAgrees`** - whoever judges, the bus ends up with the level of the detector's
  state; it fails as soon as the lock is let go before publishing.
* **`RaisesAndClearsAlternate`** - every event put on the bus raises an alarm that is
  not active there or clears one that is, also when a torque alarm changes its
  level, a threshold disappears, or two workers judge at once. It is stated on the
  events, not on the alarms: a second raise at the same level changes no alarm.
* **`Settles`** - when signal and thresholds rest, the alarms become what the
  thresholds say, although workers that judged by older thresholds may be late.
  Its premise has one worker judging in the end: two may overtake each other for
  ever. It says nothing of a value exactly between a rule's trigger and clear
  threshold, nor of a rule whose clear threshold equals its trigger, which flaps
  at that value; and a red threshold of zero alarms a constant signal for ever,
  which is why the jump detectors are right only for thresholds above zero.
* **`LossCounted`** of `Pipeline` - what is neither stored nor on its way is counted, message by
  message, however the forwarder waited and lagged. What the filter stage in front
  skips is not: it never reaches the processed bus, and no counter has it.
* **`ImplementsAtLeastOnce`** - rows come in bus order without gaps; repetitions are whole
  batches, and only of rows that are there or were given up.
* **`CauseStoredFirst`** - an alarm row never precedes the row of its sample.
* **`Drains`** - what was queued is stored once the database stays reachable.
* **`NothingLeftBehind`** - wherever opening an adapter fails, the library is
  finalised, no event is registered and no queue is in the process-wide registry
  before the next candidate; a queue left there would get the frames of another.
* **`AlarmsTrue`** - what is active on the bus is what the task believes, a silence
  alarm means a full timeout without a sign of life, and a report of type 0 ends
  every SENT error of its channel and no other.
* **`SilenceNoticed`** - a watched signal that gives no sign of life any more is in
  alarm at last and for good, whatever else its channel carries, echoes of its
  own id included. A loop that has ended watches nothing: nothing restarts it.
* **`EveryFrameOnce`** - every frame whose bytes all reached the port after it was
  opened is published once and in order: across noise, any cut into reads, the
  handover from the probe, and reads whose future was dropped. One exception is in
  the code: a demo stream packet has no checksum (`demo_serial.rs:275-282`), so a
  stream header where none was sent, in noise or in a frame whose begin was missed,
  is believed. It yields one packet of other bytes and costs the frame that begins
  inside it; `Swallowed` names exactly these frames, and nothing else may be lost.
* **`DemoAlarmTrue`** - the alarm is published on edges of its bit, yet what an
  earlier run of the port left active is cleared by the first packet. A packet that
  was none (see above) has any bit; the alarm then follows what was published.
* **`StopWorks`** - the running send is the one Stop reaches, it ends within its
  frame or tick, and while it uses the port the collector's configuration names
  its format, although three buttons with different guards replace these fields.
* **`WholeFrames`**, **`CountTrue`** - the line carries whole frames in order however
  writes are cut and tried again: every byte continues the one before it or begins
  the first frame of a later send, and a send that is done or stopped leaves no
  piece of a frame. The number shown at the end is the number sent.
* **`ServedWhileOpen`** - a session ends after its peer closed, or because its address
  was taken again before the cleanup of the last session had run: that cleanup
  removes by address (`ingress/tcp.rs:45`). No handle stays behind.
* **`StateSettles`** - once sessions rest and events are seen, an address counts as
  connected exactly if it is; and when all its sessions have ended, its snapshot
  says so, although the snapshot is read and written back in two steps.
* **`ThresholdsAgree`** - names every case in which an interface shows other
  thresholds than the collector checks: a restart, another interface, an answer
  on its way, or a request that was reported as failed and applied all the same.
* **`WholeList`** - paging by OFFSET shows each record once if rows come at the end.
* **`EveryLoadLands`** - a result of another mode than the chosen one would be thrown
  away without ending `loading`; it never happens, and no progress of one load is
  shown as that of another.
* **`SeriesIsSuffix`**, **`SpikesKept`** - a curve is an end of what was fed, of one
  time line, within window and cap, and it could not be longer: the sample before
  it is of an earlier time line, too old, or one too many. Both reductions keep its
  ends, its extremes, its order and the limit.
* **`ResultsMatch`** - one `CommandResult` per answered or timed-out call, none for
  calls that a lost connection ended.

### Two disagreements with the documentation

* `alarm_new_run`: `README.md:336` says raises and clears all enter the history
  unless a queue overflowed or the connection was lost. After a collector
  restart, updates of the new run that arrive before the first snapshot of that
  run was applied are refused (`alarm_sync.rs:44`) and never recorded.
* `alarm_dismissed`: a test names the rule that confirming a card hides the
  alarm until new data arrives (`events.rs:455`), and the README says the
  snapshot each second repairs what is shown. A repeated snapshot has an
  unchanged revision and is refused, so an alarm that stayed active is not shown
  again until some other alarm changes.

### Fairness

* `AlarmFeed`: weak fairness for each task of the chain, because tokio and the
  interface thread keep polling it. `Forward` and `ServeSend` get strong fairness:
  a tick or a lag report can disable a receive for a moment, but ticks are a
  second apart. No fairness for `Publish`, samples, `Break` and `Restart`.
* `Session`: the task runs, deadlines pass, and `select!` chooses a ready branch
  at random, so each branch has strong fairness; the stop watch is polled first
  (`biased`). There is no fairness for connecting, reading or writing: `StopEnds`
  holds although they hang for ever, `EveryCallAnswered` and `HalfOpenNoticed`
  name the premise that the task returns to its loop. That premise is real:
  `write_all` has no timeout, and while it hangs nothing but stop is served.

* `AlarmService`: samples keep coming to some worker and a worker that has one goes
  on (weak fairness); the state lock is had by one who asks for it again and again
  (strong fairness of `Judge`). Nothing makes signal or thresholds change.

* `Pipeline`: the forwarder and the writer run (weak fairness); `select!` picks a
  ready branch at random, so receiving and the flush tick have strong fairness.
  Nothing makes the database come back: `Drains` has that as its premise, which
  also means that no batch is refused for its content for ever.

* `CanIngress`: the runtime runs the task while it connects, loops and closes, and
  time passes (weak fairness of each). The adapter owes nothing: no fairness for
  frames, failures or self tests.

`SerialIngress`, `SerialSender`, `TcpIngress`, `Control`, `Records`, `Replay` and
`Curves` are checked for safety alone; what must come to pass there
(`EveryLoadLands`, `StateSettles`, `ServedWhileOpen`) is stated as what holds
whenever the parts are at rest or under way.

## 4. What is proved

`AlarmSyncProofs`, for any set of alarms, revisions and runs
(`NoAlarmAssumption`, `BoundsAssumption` are the only assumptions):

* `AlwaysExact`: `Spec => []TrackerExact`, and `OrderNeverMatters`:
  `Spec => []OrderIrrelevant`.
* `ImplementsReplica`: `Spec => ReplicaSpec`, the refinement.

The inductive invariant is `TypeOK /\ TrackerExact /\ TrackerOrdered`.
`TrackerExact` alone is not inductive: an accepted update with revision `r` of
alarm `k` leaves the other alarms at the snapshot's truth only because kept
deltas are later than the last snapshot, and the first message of a run is
merged into an empty tracker only because a tracker without epoch has seen
nothing; both are in `TrackerOrdered`. The log is append-only, so truths once
shown stay truths (`GrowIInv`); one lemma per action follows, then the
refinement, where `Known` of every alarm is shown not to decrease.

`OrderNeverMatters` follows from `TrackerOrdered` and the types. A delta keeps, of
its alarm, the greater revision (`UpdateMerge`); a snapshot is one delta for each
alarm and forgets the revisions it covers (`SnapshotMerge`); a tracker without run
takes its first message like one that starts over (`FirstMessage`). Two such
merges commute because two messages with one revision agree on every alarm both
tell of: both are read from the one log.

`CanIngressProofs`, for any counter width, latest time, configurations, bindings to
watch and frames of their types (`TimeAssumption`, `TransportAssumption`,
`IngressAssumption`, `FramesAssumption`):

* Of the clock alone: `NeverUnderflows` (no subtraction in `capture` is of a later
  value, and the types hold), `CaptureMonotone`, `SpacingPreserved`.
  `IngressDrivesClock` (`IngressSpec => Spec`) carries them over to the task: every
  step of it is a call of `capture`, a new clock, or leaves the clock alone.
* `NothingIsLeftBehind`: `IngressSpec => []NothingLeftBehind`, and
  `IngressAlarmsTrue`: `IngressSpec => []AlarmsTrue`.

The heart of the clock's invariant is `MappingExact`: the anchor reproduces the
capture time of the last hardware frame, or the sum overflowed. `NothingLeftBehind`
speaks of the places at which `connect` and `close` rest; `Undoable` says at every
place what is still to be undone, which is what makes the failure of each call
end there with nothing. `AlarmsTrue` says of which watchdogs and errors the alarms
on the bus are; it is kept because each alarm has one cause (`Causes`: an id is a
watched binding or a channel's error, never both) and because the age the task
counts is the time the binding has really been quiet (`QuietIsAge`).

`AlarmFeedProofs`, for any capacities of the queues, any `MAX_ALARM_HISTORY` above 0
(`CapAssumption`, `ViewAssumption`), any number of alarms, runs and connections:

* `HistoryInOrder`, `HistoryFirst`, `NoSilentLoss`, `FaithfulView`: the four
  invariants of the runs `alarm_feed` and `alarm_feed_view`.
* `ChainImplementsSync`: the chain refines `AlarmSync`, and `ScreenTruthful` carries
  `TrackerExact` over to the tracker at its end. It instantiates
  `AlarmSyncProofs`: what is proved there of every behaviour of `AlarmSync` is
  not proved a second time.

The invariant is `TypeOK /\ Chain /\ Owed /\ ViewFaithful`. `RepairFollowsHistory`
speaks of two queues; whether a step keeps it depends on all four, since messages
move from one to the next. `FeedOrdered` therefore orders the whole chain, front
to back, and `Ahead` says that everything in it is later than what the interface
has applied: that makes the history sorted and free of repetitions.
`LossIsCounted` is not inductive because it forgets *how* an alarm is owed:
`Owed` tells an update on its way from one in the history, one that left its far
end, and one that the snapshot with which the tracker joins the run will cover.

`SessionProofs`, for any calls, request ids, attempts and capacities
(`CallAssumption`), any number of reconnections:

* `NobodyIsForgotten`, `PolicyKept`, `ResultsTrue`: the invariants of the run
  `session`.

The session keeps a command in up to four places: the queue, `responders`, the
core's pending map, and the events still to be handled. `Books` states which
combinations exist (`MapsAgree`, `QueuedOnce`, `Waiting`, `TodoApplies`,
`Answered`). `NobodyForgotten` alone is not inductive: answering a caller frees its
id, which is right only because `todo` holds no second answer for that id, none
for a command still pending, and because a command is queued once and not while
it has a responder.
`Paid` bounds the frames sent by the attempts counted, strictly while a further
frame is about to go out. That such a frame is of a pending command whose caller
waits follows from `TodoApplies`, `MapsAgree` and `Waiting`: its command is pending,
what is pending has a responder, and who has a responder waits.

`AlarmServiceProofs`, for any workers, thresholds, rules and windows
(`ServiceAssumption`; its `{} \in Limits` is the limit that is not set, an `Option` in
the code):

* `BusAlwaysAgrees`: `Spec => []BusAgrees`; `TurnsTaken`:
  `Spec => RaisesAndClearsAlternate`.

The invariant adds to the types that exactly the worker holding the lock
publishes (`PublisherLocks`), and that what it has left to publish lies between
the alarms on the bus and the levels of the detector, alarm by alarm
(`Between`): its events end at the level, start from what is on the bus, and a
clear precedes the raise that replaces it. `TurnsTaken` needs all of it: the first
event left is the one published next, and it is only of use on the bus it was
made for because no other worker publishes in between.

`PipelineProofs`, for any capacities, batch size and bounds (`PipelineAssumption`),
any length of outage, late commits and restarts:

* `NothingUncounted`, `SampleBeforeAlarm`: `Spec => []LossCounted`,
  `Spec => []CauseStoredFirst`.
* `PromiseKept`: `Spec => ImplementsAtLeastOnce`, the refinement.

What is in memory stands in bus order from the first batch to the forwarder's
hand (`InOrder`) and is newer than every row (`Frontier`), with one exception: the
first batch once it was committed and the answer was lost. Statements that
outlive their timeout make the rest hard. `StrayPlaced` says that such a
statement holds the first batch, rows there are, or rows of a former run, and
`StraysApart` that statements of two runs do not mix; without them one late
statement could commit an alarm and another its sample after that. For the same
reason `CauseStored` strengthens `CauseStoredFirst`: a sample counts as lost only if
no write under way can still bring it. In the refinement a commit is a `Write` of
`AtLeastOnce` if it continues the rows and a `Rewrite` otherwise (`NewOrOld`,
`CommitSeen`).

`LinesProofs`, for any addresses, connections, workers, length of frames and capacity
(the assumptions of the three modules: `IngressAssumption`, `SenderAssumption`,
`ScriptAssumption`):

* TCP: `DevicesServed`: `RegistrySpec => []ServedWhileOpen`, and `ShownStateSettles`:
  `RegistrySpec => []StateSettles`.
* The sender: `StopAlwaysWorks`: `SenderSpec => []StopWorks`, `ShownCountIsTrue`:
  `SenderSpec => []CountTrue`, `DeviceGetsWholeFrames`: `SenderSpec => []WholeFrames`.
* Serial: `DemoAlarmFollowsTheDevice`: `SerialSpec => []DemoAlarmTrue`.

`ServedWhileOpen` forgets *why* a handle was dropped. `OneOpen` (one open connection of
an address, its latest) and `Lifecycle` (connections are accepted in order, cleanup
follows the end) show it: a handle that `Register` replaces is of an earlier
connection, which is closed, and one that a cleanup task finds and that is not of its
own session is of a connection that came before that cleanup, hence overlapped.
`StateSettles` speaks of quiet states only; `Told` extends it to those with events on
their way (the last one that tells of an address decides), and `StoreOwed` says that
whoever put a live state into a snapshot, stale copy or not, some session still
running will write `Disconnected`.

The sender's invariant joins the window to its threads. `WindowOK`: a send that is
under way and repeats is the last worker, and `stopFlag`, `workerRx` and the
collector's format are its own; "finished" is the last message of the queue.
`CountOK` looks through that queue: what the window will show once it has read it
fits the frames sent, and is the same number once the send is done. `PortOK` gives
the port to one worker from opening to end, and with it `LineOK` relates offset and
line: a frame that is being written is on the line up to its offset, a worker
between frames has all of them there. How many frames a worker still sends after
Stop is bounded by the end of its tick (`TickFacts`).

`DemoInv` says why edges are enough: while a port is open `demoAlarm` is unknown
before the first packet, and after it is the bit of the last one, or any bit if that
packet was made of bytes behind a false header, and agrees with the bus.

`UiClientProofs`, for any interfaces, thresholds typed, requests and restarts
(`ControlAssumption`), any devices and replays (`ReplayAssumption`), any rows, size of
a page and capacity of the queue (`RecordsAssumption`), any window and cap
(`CurvesAssumption`):

* `PanelsShowWhatIsChecked`: `ControlSpec => []ThresholdsAgree`.
* `LoadsLand`: `ReplaySpec => []EveryLoadLands`, and `PagingShowsAll`:
  `ReplaySpec => []WholeList`.
* `CurvesAreSuffixes`: `CurvesSpec => []SeriesIsSuffix`.

`ThresholdsAgree` compares two places that no step changes together. `ForceOK` says
that what the collector checks are the defaults or its last request's thresholds,
`PanelsOK` that a panel shows the defaults until a request is confirmed to it, and
`ToldOK` joins them: a request in force that was confirmed is what its interface
shows, and one that was handled but not yet told is still in force unless another
interface, or one reported as failed, came after it. `OtherPart` (the limits a panel
sends along are the ones it shows) is what lets one confirmation speak for both.

For the replay, `loading` is true exactly while one load is in its thread or its
result in the queue (`OneLoad`), that result is of the mode and sampling chosen now
(`MessagesOK`), and progress is of the load under way or comes before its result
(`OwnProgress`). For the records, `OnePage` says the same of a page; `PagesOK` and
`WindowFollows` that a page that waits is the walk's last one and that the window
stands where the walk is, or was cleared; `WalkOK` that the pages of a walk are full
up to the last, so that the next OFFSET is the number of rows already shown. That
a row at the end moves none of them is `MatchingGrows`: the rank of a hit counts
those up to it (`Numbered`), which a later row does not change.

`SeriesIsSuffix` is inductive with the types. Its proof follows `push`: the new sample
continues the time line or begins one (`ContinuesOrBegins`), the window drops
from the front (`WindowDrops`), then the cap does.

What stays with TLC, and why:

* All liveness (`Converges`, `StopEnds`, `EveryCallAnswered`, `HalfOpenNoticed`,
  `Settles`, `Drains`, `SilenceNoticed`): fairness is a statement about ENABLED,
  which the prover cannot reason about.
* `EveryFrameOnce`: that the decoders find each frame of a script again is a statement
  about what the recursive search of `FrameCodecs` computes. Proving it takes
  induction over data, whose theorems have operator parameters that no installed
  prover instantiates.
* `SpikesKept`: both reductions sort and flatten a sequence with recursive functions
  of the library, for the same reason.

## 5. Not modelled

* **Device manager and command service** (`app/mod.rs`). No program and no test of
  the repository creates them, so how their calls and stops meet, and on which
  threads, is decided nowhere. `call` holds a map guard across an await there
  (`app/mod.rs:80`), which would block a `stop_device` of the same device.
* **A rule replaced by one with another name while its alarm is active**
  (`alarm_service.rs:224`). No program calls `set_rule`; in `AlarmService` the rules
  of a sensor share a name.
* **Signal processing** (`signal/mod.rs`, the moving average of the CAN ingress):
  floating-point filters, out of TLC's arithmetic, with no discrete state whose
  loss a property could show.
* **Byte layouts and checksums** of the codecs, conversion of values, the demo
  clock: pure functions with round-trip tests. A checksum is taken to be perfect.
* **SQL text and partitions** (the database's), the health fields `db_connected` and
  `last_db_error`, the telemetry values in device snapshots.
* **The vendor's CAN library**, beyond what `transport/can.rs` calls.
* **egui drawing, fonts, configuration files, time formatting**: no state beyond the
  buttons `AlarmFeed`, `Control`, `Records` and `Replay` take from `view.rs`.
* **The other senders and the database tools**: they run to their end once and share
  no state with the system.

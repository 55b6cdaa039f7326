------------------------------ MODULE CanIngress ------------------------------
(***************************************************************************)
(* run_can_ingress (ingress/can.rs): one task opens the transport, then    *)
(* repeats: send what is queued for the adapter, wait for a frame at most  *)
(* the receive timeout, decode it and publish what it says, and poll the   *)
(* watchdogs of the signals.  It publishes two families of alarms: the     *)
(* silence of a watched signal, and the SENT errors a channel reports.     *)
(* The capture times of one channel are those of CanClock.                 *)
(*                                                                         *)
(* A frame is a record: its channel, what it carries, whether it is the    *)
(* echo of a frame sent, its counter value and the host time of its        *)
(* callback.  Values, texts and the moving average of the samples          *)
(* (SignalFilter) are left out.  Time for the watchdogs passes in ticks.   *)
(***************************************************************************)
EXTENDS CanClock, CanTransport

CONSTANTS
    Clocked,        \* the channel whose clock is CanClock's
    Watched,        \* the configured watchdogs: [enabled, targets]
    Timeout,        \* signal_timeout, in ticks
    ErrorTypes,     \* the SENT error types but 0
    Frames,         \* the frames the adapter may deliver
    MaxRequests     \* bound: self-test frames the operator asks for

AnyId == 0          \* identifier: None, any frame that decodes to a sample
NoId  == -1         \* no watchdog's

ASSUME IngressAssumption ==
    /\ Timeout \in Nat \ {0} /\ MaxRequests \in Nat
    /\ Clocked \in Channels
    /\ 0 \notin ErrorTypes
    /\ \A w \in Watched : w.enabled \in BOOLEAN /\ w.targets \subseteq [channel : Nat, id : {AnyId, 1}]

\* What a frame may carry: the samples of its id, or data that do not decode
\* to samples; a SENT error, of which 0 says that there is none any more.
Bodies == [id : {1, 256, 291}, sample : BOOLEAN, error : {0}]
    \cup [id : {3}, sample : {FALSE}, error : {0} \cup ErrorTypes]

ASSUME FramesAssumption ==
    Frames \subseteq [channel : Channels, body : Bodies, echo : BOOLEAN, ts : Timestamp, at : Time]

Targets == [channel : Channels, id : {AnyId, 1}]

VARIABLES
    pc,             \* where run_can_ingress is
    watchdogs,      \* signal_watchdogs: target -> [age, active]
    errors,         \* active_sent_errors of each channel
    alarms,         \* the alarms of this ingress that are active on the bus
    watching,       \* the watchdog configuration
    quiet,          \* ghost: ticks since the last sign of life of a target
    slot,           \* CAN_TX_SENDER of this process: set or not
    outbox,         \* the transmit queue
    requested       \* self-test frames operators asked for

coreVars == <<watchdogs, errors, alarms, quiet>>
txVars   == <<slot, outbox, requested>>
ingressVars == <<vars, linkVars, pc, coreVars, watching, txVars>>

\* No entry of channel_states, no watchdog.
NoWatchdogs == [t \in {} |-> 0]

IngressInit ==
    /\ Init /\ LinkInit
    /\ pc = "connect"
    /\ watchdogs = NoWatchdogs /\ quiet = NoWatchdogs
    /\ errors = [ch \in Channels |-> {}]
    /\ alarms = {}
    /\ watching \in Watched
    /\ slot = FALSE /\ outbox = <<>> /\ requested = 0

-----------------------------------------------------------------------------
(* Opening.                                                                *)

\* normalized_watchdog_targets
WatchTargets ==
    IF ~watching.enabled THEN {}
    ELSE IF watching.targets = {} THEN [channel : ActiveChannels, id : {AnyId}]
    ELSE {t \in watching.targets : t.channel \in ActiveChannels}

\* A watchdog that has just begun, or been fed.
Alive == [age |-> 0, active |-> FALSE]

\* The transport is open: its transmit queue is published, the core is new.
Start ==
    /\ pc = "connect" /\ link = "open"
    /\ slot' = TRUE
    /\ watchdogs' = [t \in WatchTargets |-> Alive]
    /\ quiet' = [t \in WatchTargets |-> 0]
    /\ pc' = "drain"
    /\ UNCHANGED <<vars, linkVars, errors, alarms, watching, outbox, requested>>

\* Every candidate failed: the task returns, and nothing tries again.
GiveUp ==
    /\ pc = "connect" /\ link = "idle" /\ attempt > Len(Candidates)
    /\ pc' = "ended"
    /\ UNCHANGED <<vars, linkVars, coreVars, watching, txVars>>

-----------------------------------------------------------------------------
(* The loop.                                                               *)

\* drain_tx_queue: everything queued is handed to the library.
DrainTx ==
    /\ pc = "drain"
    /\ outbox' = <<>>
    /\ pc' = "recv"
    /\ UNCHANGED <<vars, linkVars, coreVars, watching, slot, requested>>

Telemetry(frame) == ~frame.echo /\ frame.body.sample

\* Mutant: the echo of a sent frame is a sign of life.
ObservedEcho(frame) ==
    {t \in DOMAIN watchdogs : t.channel = frame.channel
                              /\ (IF t.id = AnyId THEN Telemetry(frame) ELSE t.id = frame.body.id)}

\* observe_signal_frame: the watchdogs the frame belongs to.
Observed(frame) ==
    {t \in DOMAIN watchdogs :
        /\ ~frame.echo
        /\ t.channel = frame.channel
        /\ IF t.id = AnyId THEN Telemetry(frame) ELSE t.id = frame.body.id}

(* handle_frame and reconcile_sent_error_events: error type 0 ends every   *)
(* error of the channel that is active, another type begins if it is not.  *)
Reports(frame, e) == ~frame.echo /\ frame.body.id = 3 /\ frame.body.error = e

\* Mutant: only the error type of the frame itself is cleared.
ErrorsEndedOne(frame) == IF Reports(frame, 0) THEN errors[frame.channel] \cap {0} ELSE {}

ErrorsEnded(frame) == IF Reports(frame, 0) THEN errors[frame.channel] ELSE {}
ErrorsBegun(frame) == {e \in ErrorTypes \ errors[frame.channel] : Reports(frame, e)}

ErrorAlarms(ch, es) == [channel : {ch}, silence : {NoId}, error : es]
SilenceAlarms(ts)   == {[channel |-> t.channel, silence |-> t.id, error |-> 0] : t \in ts}

\* A sign of life of a target: a received frame that it is configured for.
SignOf(t, frame) ==
    ~frame.echo /\ t.channel = frame.channel /\ (t.id = frame.body.id \/ (t.id = AnyId /\ frame.body.sample))

\* One frame: its time and its SENT errors, then the watchdogs it feeds, and
\* every alarm that changed is published.
HandleFrame ==
    /\ pc = "recv"
    /\ Dequeue
    /\ LET frame  == Head(queue)
           ch     == frame.channel
           ended  == ErrorsEnded(frame)
           begun  == ErrorsBegun(frame)
           fed    == Observed(frame)
           silent == {t \in fed : watchdogs[t].active}
       IN  /\ errors' = [errors EXCEPT ![ch] =
                            IF Reports(frame, 0) THEN {} ELSE @ \cup begun]
           /\ watchdogs' = [t \in DOMAIN watchdogs |-> IF t \in fed THEN Alive ELSE watchdogs[t]]
           /\ alarms' = (alarms \ (ErrorAlarms(ch, ended) \cup SilenceAlarms(silent)))
                        \cup ErrorAlarms(ch, begun)
           /\ quiet' = [t \in DOMAIN quiet |-> IF SignOf(t, frame) THEN 0 ELSE quiet[t]]
           /\ IF ch # Clocked THEN UNCHANGED vars
              ELSE IF frame.ts = 0 THEN CaptureHost(frame.at) ELSE CaptureHardware(frame.ts, frame.at)
    /\ pc' = "poll"
    /\ UNCHANGED <<config, attempt, link, library, events, registry, watching, txVars>>

\* The receive timeout passed without a frame.
RecvTimeout ==
    /\ pc = "recv" /\ queue = <<>>
    /\ pc' = "poll"
    /\ UNCHANGED <<vars, linkVars, coreVars, watching, txVars>>

Expired == {t \in DOMAIN watchdogs : ~watchdogs[t].active /\ watchdogs[t].age >= Timeout}

\* poll_signal_timeouts
Poll ==
    /\ pc = "poll"
    /\ watchdogs' = [t \in DOMAIN watchdogs |->
                       IF t \in Expired THEN [watchdogs[t] EXCEPT !.active = TRUE] ELSE watchdogs[t]]
    /\ alarms' = alarms \cup SilenceAlarms(Expired)
    /\ pc' = "drain"
    /\ UNCHANGED <<vars, linkVars, errors, quiet, watching, txVars>>

\* The blocking read failed (its thread panicked or the lock is poisoned):
\* the loop ends, its alarms stay.
RecvFails ==
    /\ pc = "recv"
    /\ pc' = "stop"
    /\ UNCHANGED <<vars, linkVars, coreVars, watching, txVars>>

StopTx ==
    /\ pc = "stop"
    /\ slot' = FALSE
    /\ pc' = "close"
    /\ UNCHANGED <<vars, linkVars, coreVars, watching, outbox, requested>>

\* The transport is closed, and the transmit queue dropped with what it holds.
CloseTransport ==
    /\ pc = "close"
    /\ Close \/ Closed
    /\ pc' = IF link' = "closed" THEN "ended" ELSE pc
    /\ outbox' = <<>>
    /\ UNCHANGED <<vars, coreVars, watching, slot, requested>>

-----------------------------------------------------------------------------
(* The others.                                                             *)

\* A tick of the clock; ages are of no interest past the timeout.
Tick ==
    /\ \E t \in DOMAIN watchdogs : watchdogs[t].age < Timeout \/ quiet[t] < Timeout
    /\ watchdogs' = [t \in DOMAIN watchdogs |->
                       [watchdogs[t] EXCEPT !.age = IF @ < Timeout THEN @ + 1 ELSE @]]
    /\ quiet' = [t \in DOMAIN quiet |-> IF quiet[t] < Timeout THEN quiet[t] + 1 ELSE quiet[t]]
    /\ UNCHANGED <<vars, linkVars, pc, errors, alarms, watching, txVars>>

Connect ==
    /\ pc = "connect"
    /\ Connecting
    /\ UNCHANGED <<vars, pc, coreVars, watching, txVars>>

Arrive ==
    /\ \E frame \in Frames : Callback(frame)
    /\ UNCHANGED <<vars, pc, coreVars, watching, txVars>>

\* The operator of an interface asks for the self test (ui_client/view.rs):
\* enqueue_can_tx looks for the queue in its own process, so only the
\* interface that runs this collector inside itself finds it.
RequestSelfTest ==
    /\ requested < MaxRequests
    /\ requested' = requested + 1
    /\ \E embedded \in BOOLEAN :
          outbox' = IF embedded /\ slot THEN Append(outbox, "self test") ELSE outbox
    /\ UNCHANGED <<vars, linkVars, pc, coreVars, watching, slot>>

Loop == DrainTx \/ HandleFrame \/ RecvTimeout \/ Poll

IngressNext ==
    \/ Connect \/ GiveUp \/ Start \/ Loop
    \/ RecvFails \/ StopTx \/ CloseTransport
    \/ Tick \/ Arrive \/ RequestSelfTest

IngressSpec == IngressInit /\ [][IngressNext]_ingressVars

\* The runtime runs the task; time passes.
FairIngressSpec ==
    /\ IngressSpec
    /\ WF_ingressVars(Connect \/ GiveUp \/ Start) /\ WF_ingressVars(Loop)
    /\ WF_ingressVars(StopTx \/ CloseTransport) /\ WF_ingressVars(Tick)

-----------------------------------------------------------------------------

IngressTypeOK ==
    /\ TypeOK /\ LinkTypeOK(Frames)
    /\ pc \in {"connect", "drain", "recv", "poll", "stop", "close", "ended"}
    /\ DOMAIN watchdogs \subseteq Targets /\ DOMAIN quiet = DOMAIN watchdogs
    /\ \A t \in DOMAIN watchdogs :
          watchdogs[t] \in [age : 0 .. Timeout, active : BOOLEAN] /\ quiet[t] \in 0 .. Timeout
    /\ errors \in [Channels -> SUBSET ErrorTypes]
    /\ watching \in Watched
    /\ slot \in BOOLEAN /\ requested \in 0 .. MaxRequests /\ Len(outbox) <= requested

\* The alarms on the bus are those the task believes in: no SENT error is
\* active without a report of its channel since the last "no error", and
\* every silence alarm belongs to a watchdog of a channel that is open.
AlarmsAgree ==
    alarms = (UNION {ErrorAlarms(ch, errors[ch]) : ch \in Channels})
             \cup SilenceAlarms({t \in DOMAIN watchdogs : watchdogs[t].active})

\* A silence alarm is active only while its signal is silent: it is raised
\* after a full timeout without a sign of life and ends with the first one,
\* whether or not that frame decodes, when an id is watched.
AlarmMeansSilence ==
    \A t \in DOMAIN watchdogs : SilenceAlarms({t}) \subseteq alarms => quiet[t] >= Timeout

(* Both families of alarms are true on the bus: every alarm that is active *)
(* there has its cause in the channel now, and no cause is forgotten,      *)
(* whatever else the frames of the channel carry.                          *)
AlarmsTrue == IngressTypeOK /\ AlarmsAgree /\ AlarmMeansSilence

(* A target that gives no sign of life any more is in alarm at last and    *)
(* for good, whatever else its channel and the others carry, the echoes of *)
(* its own frames included; unless the loop has ended.                     *)
SilenceNoticed ==
    \A t \in Targets :
        []<>(t \in DOMAIN watchdogs /\ quiet[t] < Timeout)
        \/ <>[](t \in DOMAIN watchdogs => SilenceAlarms({t}) \subseteq alarms \/ pc \in {"stop", "close", "ended"})
=============================================================================

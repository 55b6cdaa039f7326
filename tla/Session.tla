------------------------------ MODULE Session -------------------------------
(***************************************************************************)
(* DeviceSession (session/mod.rs): the task that owns the connection to    *)
(* one device.  Callers queue commands; the task sends them, matches the   *)
(* answers by request id, retries or times out what is not answered,       *)
(* probes a silent device with heartbeats, reconnects, and ends when it is *)
(* stopped.                                                                *)
(*                                                                         *)
(* at is where the task is.  In "select" it waits for whatever comes       *)
(* first; the branch it takes leaves events in todo, which it carries out  *)
(* one by one in "events".  Sending awaits the transport with no timeout,  *)
(* and nothing else is served meanwhile.  The device is arbitrary: it      *)
(* sends any frame at any time, closes the connection or falls silent.     *)
(* Time is kept as what has run out: the deadlines in due, and silent.     *)
(* Telemetry values, the Store and the wording of errors are left out.     *)
(***************************************************************************)
EXTENDS Naturals, Sequences, FiniteSets

CONSTANTS
    Calls,          \* calls of DeviceSessionHandle::call
    Ids,            \* request ids
    NoCall,
    IdOf,           \* the request id of each call's command
    Idempotent,     \* the calls whose command is idempotent
    TooLarge,       \* the calls whose command the codec refuses to encode
    MaxAttempts,    \* retry.max_attempts of each call's command
    Kinds,          \* the kinds of frames the device sends
    QueueCap,       \* capacity of the command queue, 256
    WireCap         \* bound on the frames on their way from the device

ASSUME CallAssumption ==
    /\ NoCall \notin Calls
    /\ IdOf \in [Calls -> Ids]
    /\ Idempotent \subseteq Calls /\ TooLarge \subseteq Calls
    /\ MaxAttempts \in [Calls -> Nat \ {0}]
    /\ Kinds \subseteq {"pong", "telemetry", "invalid", "other"}
    /\ QueueCap \in Nat \ {0} /\ WireCap \in Nat \ {0}

VARIABLES
    config,         \* SessionConfig: heartbeat and reconnection enabled or not
    at,             \* where the task is
    state,          \* ConnState
    stopped,        \* stop was called or the last handle dropped
    status,         \* what each call has come to
    queue,          \* the command queue
    responders,     \* the call to answer for each request id
    pending,        \* SessionCore.pending: the command waiting for an answer
    attempts,       \* PendingCommand.attempts
    due,            \* the pending request ids whose deadline has passed
    silent,         \* last_rx is longer ago than heartbeat_timeout
    todo,           \* core events not yet handled
    cause,          \* the call whose command branch left them
    buffer,         \* in_buf: frames read and not yet decoded
    device,         \* the device's end of the connection
    wire,           \* frames on their way from the device
    sent,           \* ghost: how often each command's frame was sent
    results         \* ghost: CommandResult events published per id and outcome

taskVars   == <<at, state, responders, pending, attempts, due, silent, todo, cause, buffer>>
deviceVars == <<device, wire>>
callVars   == <<status, queue>>
ghosts     == <<sent, results>>
vars       == <<config, stopped, taskVars, deviceVars, callVars, ghosts>>

Outcomes == {"ok", "timeout", "busy", "closed", "failed"}
States   == {"Disconnected", "Connecting", "Handshaking", "Ready", "Degraded", "Reconnecting"}
Places   == {"start", "connecting", "backoff", "select", "events", "ending", "done"}

None == [id \in Ids |-> NoCall]

\* What the device sends: telemetry (0x34) and heartbeat answers match no
\* command, whatever their request id.
Frames == [kind : Kinds \ {"other"}] \cup [kind : Kinds \cap {"other"}, id : Ids]

Transmit(id)  == [type |-> "transmit",  id |-> id]
Succeeded(id) == [type |-> "succeeded", id |-> id]
TimedOut(id)  == [type |-> "timed out", id |-> id]
Heartbeat     == [type |-> "heartbeat"]
SilentDevice  == [type |-> "silent"]
Ack           == [type |-> "ack"]
Log           == [type |-> "log"]

Init ==
    /\ config \in [heartbeat : BOOLEAN, reconnect : BOOLEAN]
    /\ at = "start" /\ state = "Disconnected" /\ stopped = FALSE
    /\ status = [c \in Calls |-> "idle"] /\ queue = <<>>
    /\ responders = None /\ pending = None
    /\ attempts = [c \in Calls |-> 0] /\ sent = [c \in Calls |-> 0]
    /\ due = {} /\ silent = FALSE
    /\ todo = <<>> /\ cause = NoCall /\ buffer = <<>>
    /\ device = "none" /\ wire = <<>>
    /\ results = [r \in Ids \X BOOLEAN |-> 0]

-----------------------------------------------------------------------------
(* Callers. *)

\* call: the command is queued when there is room; a session that has ended
\* has dropped its queue.
Call(c) ==
    /\ status[c] = "idle"
    /\ IF at = "done"
       THEN status' = [status EXCEPT ![c] = "closed"] /\ UNCHANGED queue
       ELSE /\ Len(queue) < QueueCap
            /\ status' = [status EXCEPT ![c] = "waiting"]
            /\ queue' = Append(queue, c)
    /\ UNCHANGED <<config, stopped, taskVars, deviceVars, ghosts>>

\* stop, or the last handle is dropped: both wake the watch channel.
Stop ==
    /\ ~stopped
    /\ stopped' = TRUE
    /\ UNCHANGED <<config, taskVars, deviceVars, callVars, ghosts>>

-----------------------------------------------------------------------------
(* Connection and end of the task. *)

Registered == {responders[id] : id \in Ids} \ {NoCall}

\* Mutant: only the commands the core still holds are closed.
DropConnectionOfPending(failing) ==
    /\ status' = [c \in Calls |-> IF pending[IdOf[c]] # c THEN status[c]
                                  ELSE IF c = failing THEN "failed" ELSE "closed"]
    /\ responders' = None /\ pending' = None
    /\ attempts' = [c \in Calls |-> 0] /\ due' = {} /\ silent' = FALSE
    /\ todo' = <<>> /\ cause' = NoCall /\ buffer' = <<>>
    /\ device' = "none" /\ wire' = <<>>

\* Mutant: a caller whose deadline was about to be handled gets its timeout,
\* without the event.
DropConnectionTimingOut(failing) ==
    /\ status' = [c \in Calls |-> CASE c \notin Registered -> status[c]
                                    [] c = failing -> "failed"
                                    [] pending[IdOf[c]] = c -> "closed"
                                    [] OTHER -> "timeout"]
    /\ responders' = None /\ pending' = None
    /\ attempts' = [c \in Calls |-> 0] /\ due' = {} /\ silent' = FALSE
    /\ todo' = <<>> /\ cause' = NoCall /\ buffer' = <<>>
    /\ device' = "none" /\ wire' = <<>>

\* connection_loop is left: its core, buffer and responders are dropped.  A
\* caller whose responder is dropped gets Closed; failing gets its own error.
DropConnection(failing) ==
    /\ status' = [c \in Calls |-> IF c \notin Registered THEN status[c]
                                  ELSE IF c = failing THEN "failed" ELSE "closed"]
    /\ responders' = None /\ pending' = None
    /\ attempts' = [c \in Calls |-> 0] /\ due' = {} /\ silent' = FALSE
    /\ todo' = <<>> /\ cause' = NoCall /\ buffer' = <<>>
    /\ device' = "none" /\ wire' = <<>>

\* connection_loop returned an error.
LoseConnection(failing) ==
    /\ DropConnection(failing)
    /\ at' = IF config.reconnect THEN "backoff" ELSE "ending"
    /\ state' = IF config.reconnect THEN "Reconnecting" ELSE state

\* run starts, or its back-off is over.
Connect ==
    /\ at \in {"start", "backoff"}
    /\ at' = "connecting" /\ state' = "Connecting"
    /\ UNCHANGED <<config, stopped, responders, pending, attempts, due, silent, todo, cause,
                   buffer, deviceVars, callVars, ghosts>>

ConnectOk ==
    /\ at = "connecting"
    /\ at' = "select" /\ state' = "Ready"    \* by way of Handshaking
    /\ device' = "up"
    /\ UNCHANGED <<config, stopped, responders, pending, attempts, due, silent, todo, cause,
                   buffer, wire, callVars, ghosts>>

ConnectFails ==
    /\ at = "connecting"
    /\ LoseConnection(NoCall)
    /\ UNCHANGED <<config, stopped, queue, ghosts>>

\* The event at the head of todo.
Now(type) == at = "events" /\ todo # <<>> /\ Head(todo).type = type

Writes == \E type \in {"transmit", "heartbeat", "ack"} : Now(type)

\* Mutant: stop is a message for the connected loop only.
StopSeenWhenConnected ==
    /\ stopped /\ at = "select"
    /\ DropConnection(NoCall)
    /\ at' = "ending"
    /\ UNCHANGED <<config, stopped, state, queue, ghosts>>

\* The watch channel cancels run wherever it awaits: not between an answer
\* taken from the core and its caller.
StopSeen ==
    /\ stopped
    /\ at \in {"start", "connecting", "backoff", "select"} \/ Writes
    /\ DropConnection(NoCall)
    /\ at' = "ending"
    /\ UNCHANGED <<config, stopped, state, queue, ghosts>>

\* set_state(Disconnected), close, and the session is dropped with its queue.
End ==
    /\ at = "ending"
    /\ at' = "done" /\ state' = "Disconnected"
    /\ queue' = <<>>
    /\ status' = [c \in Calls |-> IF \E i \in DOMAIN queue : queue[i] = c
                                  THEN "closed" ELSE status[c]]
    /\ UNCHANGED <<config, stopped, responders, pending, attempts, due, silent, todo, cause,
                   buffer, deviceVars, ghosts>>

-----------------------------------------------------------------------------
(* The branches of the select loop. *)

\* Mutant: a second command with the id of one in flight replaces it.
AcceptReplacing ==
    /\ at = "select" /\ queue # <<>>
    /\ LET c == Head(queue)
       IN  /\ responders' = [responders EXCEPT ![IdOf[c]] = c]
           /\ pending' = [pending EXCEPT ![IdOf[c]] = c]
           /\ attempts' = [attempts EXCEPT ![c] = 1]
           /\ todo' = <<Transmit(IdOf[c])>>
           /\ cause' = c
           /\ at' = "events"
           /\ due' = due \ {IdOf[c]}
    /\ queue' = Tail(queue)
    /\ UNCHANGED <<config, stopped, state, silent, buffer, deviceVars, status, ghosts>>

\* A command arrives: Busy while its request id is in use, else it is sent.
Accept ==
    /\ at = "select" /\ queue # <<>>
    /\ LET c == Head(queue)
       IN  IF responders[IdOf[c]] # NoCall
           THEN /\ status' = [status EXCEPT ![c] = "busy"]
                /\ UNCHANGED <<at, responders, pending, attempts, todo, cause>>
           ELSE /\ responders' = [responders EXCEPT ![IdOf[c]] = c]
                /\ pending' = [pending EXCEPT ![IdOf[c]] = c]
                /\ attempts' = [attempts EXCEPT ![c] = 1]
                /\ todo' = <<Transmit(IdOf[c])>>
                /\ cause' = c
                /\ at' = "events"
                /\ UNCHANGED status
    /\ queue' = Tail(queue)
    /\ UNCHANGED <<config, stopped, state, due, silent, buffer, deviceVars, ghosts>>

\* heartbeat_tick: probe, and give up on a device that has been silent.
HeartbeatTick ==
    /\ at = "select" /\ config.heartbeat
    /\ todo' = <<Heartbeat>> \o (IF silent THEN <<SilentDevice>> ELSE <<>>)
    /\ at' = "events"
    /\ UNCHANGED <<config, stopped, state, responders, pending, attempts, due, silent, cause,
                   buffer, deviceVars, callVars, ghosts>>

\* Mutant: commands are retried whether or not they are idempotent.
RetriesAny(id) == attempts[pending[id]] < MaxAttempts[pending[id]]

Retries(id) ==
    pending[id] \in Idempotent /\ attempts[pending[id]] < MaxAttempts[pending[id]]

\* Mutant: a retry is not counted.
RetriedUncounted(ids) == attempts

\* The attempts after the commands ids are retried.
Retried(ids) ==
    [c \in Calls |-> IF \E id \in ids : pending[id] = c THEN attempts[c] + 1 ELSE attempts[c]]

\* The set's elements in some order: pending is a HashMap.
Orders(S) == {f \in [1 .. Cardinality(S) -> S] : \A i, j \in DOMAIN f : f[i] = f[j] => i = j}

\* timeout_tick: every expired command is sent again or given up.
TimeoutTick ==
    /\ at = "select" /\ due # {}
    /\ LET again == {id \in due : Retries(id)}
       IN  /\ \E order \in Orders(due) :
                 todo' = [i \in DOMAIN order |-> IF order[i] \in again THEN Transmit(order[i])
                                                 ELSE TimedOut(order[i])]
           /\ pending' = [id \in Ids |-> IF id \in due \ again THEN NoCall ELSE pending[id]]
           /\ attempts' = Retried(again)
    /\ due' = {}
    /\ at' = "events"
    /\ UNCHANGED <<config, stopped, state, responders, silent, cause, buffer, deviceVars,
                   callVars, ghosts>>

\* transport.read returns n frames.
Read(n) ==
    /\ at = "select" /\ wire # <<>>
    /\ buffer' = SubSeq(wire, 1, n)
    /\ wire' = SubSeq(wire, n + 1, Len(wire))
    /\ at' = "events"
    /\ UNCHANGED <<config, stopped, state, responders, pending, attempts, due, silent, todo,
                   cause, device, callVars, ghosts>>

\* transport.read returns 0 or an error; what was on its way may be lost.
ReadFails ==
    /\ at = "select" /\ device = "closed"
    /\ LoseConnection(NoCall)
    /\ UNCHANGED <<config, stopped, queue, ghosts>>

\* Mutant: an answered command stays pending.
HandleFrameKeepingPending ==
    /\ at = "events" /\ todo = <<>> /\ buffer # <<>>
    /\ LET f == Head(buffer)
       IN  todo' = CASE f.kind = "pong" -> <<>>
                     [] f.kind = "telemetry" -> <<Ack>>
                     [] f.kind = "invalid" -> <<Log>>
                     [] f.kind = "other" -> IF pending[f.id] # NoCall THEN <<Succeeded(f.id)>>
                                            ELSE <<Log>>
    /\ buffer' = Tail(buffer)
    /\ silent' = FALSE
    /\ at' = IF todo' = <<>> /\ buffer' = <<>> THEN "select" ELSE "events"
    /\ UNCHANGED <<config, stopped, state, responders, pending, due, attempts, cause, deviceVars,
                   callVars, ghosts>>

\* handle_frame of the next frame in the buffer.  Telemetry never answers a
\* command; any other frame with the id of a pending command does.
HandleFrame ==
    /\ at = "events" /\ todo = <<>> /\ buffer # <<>>
    /\ LET f       == Head(buffer)
           answers == f.kind = "other" /\ pending[f.id] # NoCall
       IN  /\ todo' = CASE f.kind = "pong" -> <<>>
                        [] f.kind = "telemetry" -> <<Ack>>
                        [] answers -> <<Succeeded(f.id)>>
                        [] OTHER -> <<Log>>
           /\ pending' = IF answers THEN [pending EXCEPT ![f.id] = NoCall] ELSE pending
           /\ due' = IF answers THEN due \ {f.id} ELSE due
    /\ buffer' = Tail(buffer)
    /\ silent' = FALSE
    /\ at' = IF todo' = <<>> /\ buffer' = <<>> THEN "select" ELSE "events"
    /\ UNCHANGED <<config, stopped, state, responders, attempts, cause, deviceVars, callVars,
                   ghosts>>

-----------------------------------------------------------------------------
(* handle_core_events: the event at the head of todo. *)

\* The event is done; after the last one the loop selects again.
EventDone ==
    /\ todo' = Tail(todo)
    /\ at' = IF Tail(todo) = <<>> /\ buffer = <<>> THEN "select" ELSE "events"
    /\ cause' = IF Tail(todo) = <<>> THEN NoCall ELSE cause

\* The command whose frame the event at the head of todo sends.
Sending == IF Head(todo).type = "transmit" THEN pending[Head(todo).id] ELSE NoCall

\* Counted up to one more than is ever allowed.
CountSent ==
    sent' = [c \in Calls |-> IF c = Sending /\ sent[c] <= MaxAttempts[c] THEN sent[c] + 1
                             ELSE sent[c]]

\* Mutant: sending counts as having heard from the device.
WriteOkHeard ==
    /\ Writes /\ Sending \notin TooLarge
    /\ EventDone
    /\ CountSent
    /\ silent' = FALSE
    /\ UNCHANGED <<config, stopped, state, responders, pending, attempts, due, buffer,
                   deviceVars, callVars, results>>

WriteOk ==
    /\ Writes /\ Sending \notin TooLarge
    /\ EventDone
    /\ CountSent
    /\ UNCHANGED <<config, stopped, state, responders, pending, attempts, due, silent, buffer,
                   deviceVars, callVars, results>>

\* write_all fails: only the command just accepted gets the error itself.
WriteFails ==
    /\ Writes /\ Sending \notin TooLarge
    /\ LoseConnection(cause)
    /\ CountSent
    /\ UNCHANGED <<config, stopped, queue, results>>

\* One command the codec refuses costs every caller the connection.
EncodeFails ==
    /\ Writes /\ Sending \in TooLarge
    /\ LoseConnection(cause)
    /\ UNCHANGED <<config, stopped, queue, ghosts>>

Published(id, ok) == results' = [results EXCEPT ![<<id, ok>>] = @ + 1]

\* The responder of the event at the head of todo gets its outcome.
Complete(outcome) ==
    LET id == Head(todo).id
    IN  /\ status' = [c \in Calls |-> IF c = responders[id] THEN outcome ELSE status[c]]
        /\ responders' = [responders EXCEPT ![id] = NoCall]
        /\ Published(id, outcome = "ok")
        /\ EventDone
        /\ UNCHANGED <<config, stopped, state, pending, attempts, due, silent, buffer, deviceVars,
                       queue, sent>>

CommandSucceeded == Now("succeeded") /\ Complete("ok")
CommandTimedOut  == Now("timed out") /\ Complete("timeout")

LogEvent ==
    /\ Now("log")
    /\ EventDone
    /\ UNCHANGED <<config, stopped, state, responders, pending, attempts, due, silent, buffer,
                   deviceVars, callVars, ghosts>>

\* Degraded, and the connection is given up.
HeartbeatTimedOut ==
    /\ Now("silent")
    /\ DropConnection(NoCall)
    /\ at' = IF config.reconnect THEN "backoff" ELSE "ending"
    /\ state' = IF config.reconnect THEN "Reconnecting" ELSE "Degraded"
    /\ UNCHANGED <<config, stopped, queue, ghosts>>

-----------------------------------------------------------------------------
(* Time and the device. *)

Connected == at \in {"select", "events"}

Expire(id) ==
    /\ Connected /\ pending[id] # NoCall /\ id \notin due
    /\ due' = due \cup {id}
    /\ UNCHANGED <<config, stopped, at, state, responders, pending, attempts, silent, todo,
                   cause, buffer, deviceVars, callVars, ghosts>>

GrowSilent ==
    /\ Connected /\ config.heartbeat /\ ~silent
    /\ silent' = TRUE
    /\ UNCHANGED <<config, stopped, at, state, responders, pending, attempts, due, todo, cause,
                   buffer, deviceVars, callVars, ghosts>>

DeviceSends(f) ==
    /\ device = "up" /\ Len(wire) < WireCap
    /\ wire' = Append(wire, f)
    /\ UNCHANGED <<config, stopped, taskVars, device, callVars, ghosts>>

\* The device closes the connection, or vanishes and leaves it half open.
DeviceEnds(how) ==
    /\ device = "up"
    /\ device' = how
    /\ UNCHANGED <<config, stopped, taskVars, wire, callVars, ghosts>>

Task ==
    \/ Connect \/ ConnectOk \/ ConnectFails
    \/ StopSeen \/ End
    \/ Accept \/ HeartbeatTick \/ TimeoutTick \/ ReadFails
    \/ \E n \in 1 .. Len(wire) : Read(n)
    \/ HandleFrame
    \/ WriteOk \/ WriteFails \/ EncodeFails
    \/ CommandSucceeded \/ CommandTimedOut \/ LogEvent \/ HeartbeatTimedOut

Next ==
    \/ \E c \in Calls : Call(c)
    \/ Stop
    \/ Task
    \/ \E id \in Ids : Expire(id)
    \/ GrowSilent
    \/ \E f \in Frames : DeviceSends(f)
    \/ \E how \in {"closed", "vanished"} : DeviceEnds(how)

Spec == Init /\ [][Next]_vars

(* The runtime polls the task, time passes, and select! picks a ready      *)
(* branch at random.  Nothing says that a connect or a write ever returns. *)
Fairness ==
    /\ WF_vars(Connect) /\ SF_vars(StopSeen) /\ WF_vars(End)
    /\ SF_vars(Accept) /\ SF_vars(HeartbeatTick) /\ SF_vars(TimeoutTick) /\ SF_vars(ReadFails)
    /\ WF_vars(HandleFrame) /\ WF_vars(EncodeFails)
    /\ WF_vars(CommandSucceeded) /\ WF_vars(CommandTimedOut)
    /\ WF_vars(LogEvent) /\ WF_vars(HeartbeatTimedOut)
    /\ \A id \in Ids : WF_vars(Expire(id))
    /\ WF_vars(GrowSilent)

FairSpec == Spec /\ Fairness

-----------------------------------------------------------------------------

Events ==
    [type : {"transmit", "succeeded", "timed out"}, id : Ids]
        \cup [type : {"heartbeat", "silent", "ack", "log"}]

TypeOK ==
    /\ config \in [heartbeat : BOOLEAN, reconnect : BOOLEAN]
    /\ at \in Places /\ state \in States
    /\ {stopped, silent} \subseteq BOOLEAN
    /\ status \in [Calls -> Outcomes \cup {"idle", "waiting"}]
    /\ queue \in Seq(Calls) /\ Len(queue) <= QueueCap
    /\ responders \in [Ids -> Calls \cup {NoCall}]
    /\ pending \in [Ids -> Calls \cup {NoCall}]
    /\ attempts \in [Calls -> Nat] /\ sent \in [Calls -> Nat]
    /\ due \subseteq Ids
    /\ todo \in Seq(Events)
    /\ cause \in Calls \cup {NoCall}
    /\ buffer \in Seq(Frames) /\ wire \in Seq(Frames)
    /\ device \in {"none", "up", "closed", "vanished"}
    /\ results \in [Ids \X BOOLEAN -> Nat]

Queued(c) == \E i \in DOMAIN queue : queue[i] = c

\* todo holds the event that answers the command with this id.
Answering(id) == \E i \in DOMAIN todo : todo[i] \in {Succeeded(id), TimedOut(id)}

(* No caller is forgotten: a call waits exactly while it is queued or has  *)
(* a responder, and every responder either has a deadline running in the   *)
(* core or is about to be answered (responders and core.pending are two    *)
(* maps that change in different steps).                                   *)
NobodyForgotten ==
    /\ TypeOK
    /\ \A c \in Calls :
          status[c] = "waiting" <=> (Queued(c) \/ responders[IdOf[c]] = c)
    /\ \A id \in Ids :
          /\ pending[id] # NoCall => pending[id] = responders[id]
          /\ responders[id] # NoCall => pending[id] = responders[id] \/ Answering(id)
    /\ at = "done" => \A c \in Calls : status[c] # "waiting"

(* A command is sent at most as often as its retry policy allows, and a    *)
(* command that is not idempotent once, reconnections included; and no     *)
(* frame is about to be sent of a command whose caller has an outcome      *)
(* already (handle_timeout_tick, handle_frame, handle_core_events).        *)
SentWithinPolicy ==
    /\ \A c \in Calls : sent[c] <= IF c \in Idempotent THEN MaxAttempts[c] ELSE 1
    /\ \A i \in DOMAIN todo : todo[i].type = "transmit" =>
          LET c == pending[todo[i].id] IN c # NoCall /\ status[c] = "waiting"

\* How many calls with this id came to this outcome.
Ended(id, outcome) == Cardinality({c \in Calls : IdOf[c] = id /\ status[c] = outcome})

(* CommandResult tells the truth: one event with ok for every call that    *)
(* was answered, one without for every call that timed out, and none for   *)
(* the others, in particular none for calls a lost connection ended.       *)
ResultsMatch ==
    \A id \in Ids :
        /\ results[<<id, TRUE>>] = Ended(id, "ok")
        /\ results[<<id, FALSE>>] = Ended(id, "timeout")

(* A session that is stopped ends, with every caller answered, even if     *)
(* connecting or sending hangs for ever (the watch channel of              *)
(* spawn_with_join).                                                       *)
StopEnds == stopped ~> (at = "done" /\ \A c \in Calls : status[c] # "waiting")

(* Every queued command is answered, whatever the device does, as long as  *)
(* the task keeps coming back to its loop: connecting succeeds now and     *)
(* then, and no write hangs for ever.                                      *)
EveryCallAnswered ==
    []<>(at \in {"select", "done"})
        => \A c \in Calls : status[c] = "waiting" ~> status[c] # "waiting"

(* With heartbeats on, a device that vanished without closing is noticed,  *)
(* as long as no write to it hangs for ever.                               *)
HalfOpenNoticed ==
    config.heartbeat /\ []<>(at # "events") => (device = "vanished" ~> device # "vanished")
=============================================================================

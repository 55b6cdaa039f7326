---------------------------- MODULE SessionProofs ----------------------------
(***************************************************************************)
(* Theorems about Session, for any calls, request ids and retry policies:  *)
(* no caller is forgotten, no command is sent more often than its policy   *)
(* allows, and CommandResult events count exactly what the callers were    *)
(* told.                                                                   *)
(***************************************************************************)
EXTENDS Session, FunctionTheorems, FiniteSetTheorems, SequenceTheorems, TLAPS

\* The events that concern one command.
OfCommand == {"transmit", "succeeded", "timed out"}
Answers   == {"succeeded", "timed out"}

(* Where the task waits, no event is left over; outside connection_loop    *)
(* there is no core; a session that is done has dropped its queue.         *)
Rest ==
    /\ at # "events" => todo = <<>>
    /\ at \notin {"select", "events"} => responders = None /\ pending = None /\ due = {}
    /\ at = "done" => queue = <<>>

(* The two maps agree: what is pending has its responder, under the id of  *)
(* its command; only what is pending has a deadline.                       *)
MapsAgree ==
    /\ \A id \in Ids : pending[id] # NoCall => pending[id] = responders[id]
    /\ \A id \in Ids : responders[id] # NoCall => IdOf[responders[id]] = id
    /\ \A id \in due : pending[id] # NoCall
    /\ IsFiniteSet(due)

(* A command is queued once, and not while it has a responder.             *)
QueuedOnce ==
    /\ \A i, j \in DOMAIN queue : queue[i] = queue[j] => i = j
    /\ \A i \in DOMAIN queue : responders[IdOf[queue[i]]] # queue[i]

(* A call waits exactly while it is queued or has a responder.             *)
Waiting ==
    \A c \in Calls : status[c] = "waiting" <=> (Queued(c) \/ responders[IdOf[c]] = c)

(* todo holds one event at most for each id: an answer only for a command  *)
(* the core has let go and that still has its responder, a frame to send   *)
(* only for a pending command.                                             *)
TodoApplies ==
    /\ \A i, j \in DOMAIN todo :
          todo[i].type \in OfCommand /\ todo[j].type \in OfCommand /\ todo[i].id = todo[j].id
              => i = j
    /\ \A i \in DOMAIN todo :
          /\ todo[i].type = "transmit" => pending[todo[i].id] # NoCall
          /\ todo[i].type \in Answers =>
                responders[todo[i].id] # NoCall /\ pending[todo[i].id] = NoCall

(* A responder without a pending command is about to be answered.          *)
Answered ==
    \A id \in Ids : responders[id] # NoCall => pending[id] = responders[id] \/ Answering(id)

Books == Rest /\ MapsAgree /\ QueuedOnce /\ Waiting /\ TodoApplies /\ Answered

Limit(c) == IF c \in Idempotent THEN MaxAttempts[c] ELSE 1

\* The command with this id is about to be sent.
Transmitting(id) == \E i \in DOMAIN todo : todo[i].type = "transmit" /\ todo[i].id = id

(* Sent frames are paid for by attempts: a command that has not reached    *)
(* the core was never sent, a pending one was sent no more often than it   *)
(* has attempts, and less often while it is about to be sent again.        *)
Paid ==
    /\ \A c \in Calls : sent[c] <= Limit(c)
    /\ \A c \in Calls : status[c] = "idle" \/ Queued(c) => sent[c] = 0
    /\ \A id \in Ids : pending[id] # NoCall =>
          /\ sent[pending[id]] <= attempts[pending[id]]
          /\ attempts[pending[id]] <= Limit(pending[id])
          /\ Transmitting(id) => sent[pending[id]] < attempts[pending[id]]

\* The calls with this id that came to this outcome.
Came(id, outcome) == {c \in Calls : IdOf[c] = id /\ status[c] = outcome}

(* Events were counted as the callers were told.                           *)
Counted ==
    /\ \A id \in Ids : IsFiniteSet(Came(id, "ok")) /\ IsFiniteSet(Came(id, "timeout"))
    /\ ResultsMatch

IInv == TypeOK /\ Books /\ Paid /\ Counted

-----------------------------------------------------------------------------
\* Types.

\* What a call may be at.
Standings == Outcomes \cup {"idle", "waiting"}

(* The names of the model are where its types say they are.                *)
LEMMA Names ==
    /\ {"start", "connecting", "backoff", "select", "events", "ending", "done"} \subseteq Places
    /\ {"Disconnected", "Connecting", "Ready", "Reconnecting", "Degraded"} \subseteq States
    /\ {"idle", "waiting", "ok", "timeout", "busy", "closed", "failed"} \subseteq Standings
BY DEF Places, States, Standings, Outcomes

(* What is put in todo is an event; an event of a command has its id.      *)
LEMMA EventTypes ==
    /\ \A id \in Ids : Transmit(id) \in Events /\ Succeeded(id) \in Events
                       /\ TimedOut(id) \in Events
    /\ Heartbeat \in Events /\ SilentDevice \in Events /\ Ack \in Events /\ Log \in Events
    /\ \A e \in Events : e.type \in OfCommand => e.id \in Ids
<1>1. ASSUME NEW id \in Ids
      PROVE  Transmit(id) \in Events /\ Succeeded(id) \in Events /\ TimedOut(id) \in Events
    BY DEF Events, Transmit, Succeeded, TimedOut
<1>2. Heartbeat \in Events /\ SilentDevice \in Events /\ Ack \in Events /\ Log \in Events
    BY DEF Events, Heartbeat, SilentDevice, Ack, Log
<1>3. ASSUME NEW e \in Events, e.type \in OfCommand PROVE e.id \in Ids
    BY <1>3 DEF Events, OfCommand
<1>4. QED
    BY <1>1, <1>2, <1>3

(* A frame that may answer a command has an id.                            *)
LEMMA FrameTypes == \A f \in Frames : f.kind = "other" => f.id \in Ids
BY DEF Frames

(* An order of a finite set is a sequence that holds every element once.   *)
LEMMA OrderProperties ==
    ASSUME NEW S, IsFiniteSet(S), NEW order \in Orders(S)
    PROVE  /\ Cardinality(S) \in Nat
           /\ order \in [1 .. Cardinality(S) -> S]
           /\ \A i, j \in 1 .. Cardinality(S) : order[i] = order[j] => i = j
           /\ \A x \in S : \E i \in 1 .. Cardinality(S) : order[i] = x
<1>1. Cardinality(S) \in Nat
    BY FS_CardinalityType
<1>2. /\ order \in [1 .. Cardinality(S) -> S]
      /\ \A i, j \in 1 .. Cardinality(S) : order[i] = order[j] => i = j
    BY DEF Orders
<1>3. order \in Injection(1 .. Cardinality(S), S)
    BY <1>2, Fun_IsInj
<1>4. Cardinality(1 .. Cardinality(S)) = Cardinality(S)
    BY <1>1, FS_Interval
<1>5. order \in Surjection(1 .. Cardinality(S), S)
    BY <1>3, <1>4, FS_Injection
<1>6. QED
    BY <1>1, <1>2, <1>5, Fun_SurjectionProperties

(* Initially, everything has its type.                                     *)
LEMMA InitType == Init => TypeOK
<1> SUFFICES ASSUME Init PROVE TypeOK
    OBVIOUS
<1>1. at \in Places /\ state \in States
    BY Names DEF Init
<1>2. status \in [Calls -> Outcomes \cup {"idle", "waiting"}]
    BY DEF Init
<1>3. todo \in Seq(Events) /\ buffer \in Seq(Frames) /\ wire \in Seq(Frames) /\ queue \in Seq(Calls)
    BY DEF Init
<1>4. /\ responders \in [Ids -> Calls \cup {NoCall}] /\ pending \in [Ids -> Calls \cup {NoCall}]
      /\ attempts \in [Calls -> Nat] /\ sent \in [Calls -> Nat]
      /\ results \in [Ids \X BOOLEAN -> Nat]
    BY DEF Init, None
<1>5. Len(queue) <= QueueCap
    BY CallAssumption DEF Init
<1>6. QED
    BY <1>1, <1>2, <1>3, <1>4, <1>5 DEF Init, TypeOK

(* Losing the connection keeps the types of what it resets.                *)
LEMMA DropType ==
    ASSUME TypeOK, NEW failing \in Calls \cup {NoCall}, DropConnection(failing)
    PROVE  /\ status' \in [Calls -> Standings]
           /\ responders' \in [Ids -> Calls \cup {NoCall}]
           /\ pending' \in [Ids -> Calls \cup {NoCall}]
           /\ attempts' \in [Calls -> Nat] /\ due' \subseteq Ids /\ silent' \in BOOLEAN
           /\ todo' \in Seq(Events) /\ cause' \in Calls \cup {NoCall}
           /\ buffer' \in Seq(Frames) /\ wire' \in Seq(Frames)
           /\ device' \in {"none", "up", "closed", "vanished"}
<1>1. status \in [Calls -> Standings]
    BY DEF TypeOK, Standings
<1>2. status' \in [Calls -> Standings]
    BY <1>1, Names DEF DropConnection
<1>3. responders' \in [Ids -> Calls \cup {NoCall}] /\ pending' \in [Ids -> Calls \cup {NoCall}]
    BY DEF DropConnection, None
<1>4. attempts' \in [Calls -> Nat]
    BY DEF DropConnection
<1>5. todo' \in Seq(Events) /\ buffer' \in Seq(Frames) /\ wire' \in Seq(Frames)
    BY DEF DropConnection
<1>6. QED
    BY <1>2, <1>3, <1>4, <1>5 DEF DropConnection

\* TypeOK in the form the steps use.
Typed ==
    /\ config \in [heartbeat : BOOLEAN, reconnect : BOOLEAN]
    /\ at \in Places /\ state \in States
    /\ stopped \in BOOLEAN /\ silent \in BOOLEAN
    /\ status \in [Calls -> Standings]
    /\ queue \in Seq(Calls) /\ Len(queue) <= QueueCap
    /\ responders \in [Ids -> Calls \cup {NoCall}]
    /\ pending \in [Ids -> Calls \cup {NoCall}]
    /\ attempts \in [Calls -> Nat] /\ sent \in [Calls -> Nat]
    /\ due \subseteq Ids
    /\ todo \in Seq(Events)
    /\ cause \in Calls \cup {NoCall}
    /\ buffer \in Seq(Frames) /\ wire \in Seq(Frames)
    /\ device \in {"none", "up", "closed", "vanished"}
    /\ results \in [Ids \X BOOLEAN -> Nat]

(* Both say the same.                                                      *)
LEMMA TypedIsTypeOK == TypeOK <=> Typed
BY DEF TypeOK, Typed, Standings

(* Counting a frame keeps a count.                                         *)
LEMMA CountSentType ==
    ASSUME sent \in [Calls -> Nat], CountSent
    PROVE  sent' \in [Calls -> Nat]
<1>1. \A c \in Calls : sent[c] \in Nat /\ sent[c] + 1 \in Nat
    OBVIOUS
<1>2. QED
    BY <1>1, Zenon DEF CountSent

(* A queue with room takes one more.                                       *)
LEMMA QueueType ==
    ASSUME NEW q \in Seq(Calls), NEW c \in Calls, Len(q) < QueueCap
    PROVE  Append(q, c) \in Seq(Calls) /\ Len(Append(q, c)) <= QueueCap
<1>1. Append(q, c) \in Seq(Calls) /\ Len(Append(q, c)) = Len(q) + 1 /\ Len(q) \in Nat
    BY AppendProperties
<1>2. QED
    BY <1>1, CallAssumption

(* No step breaks a type.                                                  *)
LEMMA NextType == TypeOK /\ MapsAgree /\ [Next]_vars => TypeOK'
<1> SUFFICES ASSUME Typed, MapsAgree, [Next]_vars PROVE Typed'
    BY TypedIsTypeOK DEF TypeOK, Typed, Standings
<1>0. TypeOK
    BY TypedIsTypeOK
<1> USE CallAssumption, Names DEF Typed
<1>1. ASSUME NEW c \in Calls, Call(c) PROVE Typed'
    <2>1. status' \in [Calls -> Standings]
        BY <1>1 DEF Call
    <2>2. queue' \in Seq(Calls) /\ Len(queue') <= QueueCap
        <3>1. CASE at = "done"
            BY <1>1, <3>1 DEF Call
        <3>2. CASE at # "done"
            <4>1. queue' = Append(queue, c) /\ Len(queue) < QueueCap
                BY <1>1, <3>2 DEF Call
            <4>2. QED
                BY <4>1, QueueType
        <3>3. QED
            BY <3>1, <3>2
    <2>3. QED
        BY <1>1, <2>1, <2>2 DEF Call, taskVars, deviceVars, ghosts
<1>2. CASE Stop
    BY <1>2 DEF Stop, taskVars, deviceVars, callVars, ghosts
<1>3. CASE Connect \/ ConnectOk
    BY <1>3 DEF Connect, ConnectOk, deviceVars, callVars, ghosts
<1>4. CASE ConnectFails \/ ReadFails
    BY <1>0, <1>4, DropType DEF ConnectFails, ReadFails, LoseConnection, ghosts
<1>5. CASE StopSeen \/ HeartbeatTimedOut
    BY <1>0, <1>5, DropType DEF StopSeen, HeartbeatTimedOut, ghosts
<1>6. CASE End
    <2>1. status' \in [Calls -> Standings]
        BY <1>6 DEF End
    <2>2. QED
        BY <1>6, <2>1 DEF End, deviceVars, ghosts
<1>7. CASE Accept
    <2>1. /\ Head(queue) \in Calls /\ Tail(queue) \in Seq(Calls)
          /\ Len(Tail(queue)) <= QueueCap
        BY <1>7 DEF Accept
    <2>2. <<Transmit(IdOf[Head(queue)])>> \in Seq(Events)
        BY <2>1, EventTypes
    <2>3. status' \in [Calls -> Standings]
        <3>1. status' = status \/ status' = [status EXCEPT ![Head(queue)] = "busy"]
            BY <1>7 DEF Accept
        <3>2. QED
            BY <3>1
    <2>4. /\ responders' \in [Ids -> Calls \cup {NoCall}] /\ pending' \in [Ids -> Calls \cup {NoCall}]
          /\ attempts' \in [Calls -> Nat] /\ cause' \in Calls \cup {NoCall}
          /\ todo' \in Seq(Events) /\ at' \in Places
        <3>1. CASE responders[IdOf[Head(queue)]] # NoCall
            BY <1>7, <3>1 DEF Accept
        <3>2. CASE responders[IdOf[Head(queue)]] = NoCall
            <4>1. IdOf[Head(queue)] \in Ids
                BY <2>1
            <4>2. /\ responders' = [responders EXCEPT ![IdOf[Head(queue)]] = Head(queue)]
                  /\ pending' = [pending EXCEPT ![IdOf[Head(queue)]] = Head(queue)]
                  /\ attempts' = [attempts EXCEPT ![Head(queue)] = 1]
                  /\ todo' = <<Transmit(IdOf[Head(queue)])>>
                  /\ cause' = Head(queue) /\ at' = "events"
                BY <1>7, <3>2 DEF Accept
            <4>3. QED
                BY <2>1, <2>2, <4>1, <4>2
        <3>3. QED
            BY <3>1, <3>2
    <2>5. QED
        BY <1>7, <2>1, <2>3, <2>4 DEF Accept, deviceVars, ghosts
<1>8. CASE HeartbeatTick
    <2>1. todo' \in Seq(Events)
        BY <1>8, EventTypes DEF HeartbeatTick
    <2>2. QED
        BY <1>8, <2>1 DEF HeartbeatTick, deviceVars, callVars, ghosts
<1>9. CASE TimeoutTick
    <2> DEFINE again == {id \in due : Retries(id)}
               event(id) == IF id \in again THEN Transmit(id) ELSE TimedOut(id)
    <2>1. PICK order \in Orders(due) : todo' = [i \in DOMAIN order |-> event(order[i])]
        BY <1>9 DEF TimeoutTick
    <2>2. Cardinality(due) \in Nat /\ order \in [1 .. Cardinality(due) -> due]
        BY OrderProperties DEF MapsAgree
    <2>3. \A id \in due : event(id) \in Events
        BY EventTypes
    <2> HIDE DEF event
    <2>4. todo' \in Seq(Events)
        <3>1. todo' = [i \in 1 .. Cardinality(due) |-> event(order[i])]
            BY <2>1, <2>2
        <3>2. todo' \in [1 .. Cardinality(due) -> Events]
            BY <3>1, <2>2, <2>3
        <3>3. \A n \in Nat : \A f \in [1 .. n -> Events] : f \in Seq(Events)
            OBVIOUS
        <3>4. QED
            BY <3>2, <3>3, <2>2
    <2>5. attempts' \in [Calls -> Nat]
        BY <1>9 DEF TimeoutTick, Retried
    <2>6. pending' \in [Ids -> Calls \cup {NoCall}]
        BY <1>9 DEF TimeoutTick
    <2>7. QED
        BY <1>9, <2>4, <2>5, <2>6 DEF TimeoutTick, deviceVars, callVars, ghosts
<1>10. ASSUME NEW n \in 1 .. Len(wire), Read(n) PROVE Typed'
    <2>1. SubSeq(wire, 1, n) \in Seq(Frames) /\ SubSeq(wire, n + 1, Len(wire)) \in Seq(Frames)
        BY SubSeqProperties
    <2>2. QED
        BY <1>10, <2>1 DEF Read, callVars, ghosts
<1>11. CASE HandleFrame
    <2>1. Head(buffer) \in Frames /\ Tail(buffer) \in Seq(Frames)
        BY <1>11 DEF HandleFrame
    <2>2. todo' \in Seq(Events)
        BY <1>11, <2>1, FrameTypes, EventTypes DEF HandleFrame
    <2>3. pending' \in [Ids -> Calls \cup {NoCall}] /\ due' \subseteq Ids
        BY <1>11, <2>1, FrameTypes DEF HandleFrame
    <2>4. QED
        BY <1>11, <2>1, <2>2, <2>3 DEF HandleFrame, deviceVars, callVars, ghosts
<1>12. CASE WriteOk
    BY <1>12 DEF WriteOk, EventDone, CountSent, Writes, Now, deviceVars, callVars
<1>13. CASE WriteFails \/ EncodeFails
    <2>1. LoseConnection(cause) /\ UNCHANGED <<config, stopped, queue, results>>
        BY <1>13 DEF WriteFails, EncodeFails, ghosts
    <2>2. sent' \in [Calls -> Nat]
        <3>1. CountSent \/ sent' = sent
            BY <1>13 DEF WriteFails, EncodeFails, ghosts
        <3>2. QED
            BY <3>1, CountSentType
    <2>3. QED
        BY <1>0, <2>1, <2>2, DropType DEF LoseConnection
<1>14. CASE CommandSucceeded \/ CommandTimedOut
    <2>1. PICK outcome \in {"ok", "timeout"} :
             Complete(outcome) /\ todo # <<>> /\ Head(todo).type \in OfCommand
        BY <1>14 DEF CommandSucceeded, CommandTimedOut, Now, OfCommand
    <2>2. Head(todo).id \in Ids
        BY <2>1, EventTypes
    <2>3. status' \in [Calls -> Standings]
        BY <2>1 DEF Complete
    <2>4. results' \in [Ids \X BOOLEAN -> Nat]
        <3> DEFINE r == <<Head(todo).id, outcome = "ok">>
        <3>1. r \in Ids \X BOOLEAN
            BY <2>2
        <3>2. results' = [results EXCEPT ![r] = results[r] + 1]
            BY <2>1 DEF Complete, Published
        <3> HIDE DEF r
        <3>3. QED
            BY <3>1, <3>2
    <2>5. responders' \in [Ids -> Calls \cup {NoCall}]
        BY <2>1, <2>2 DEF Complete
    <2>6. QED
        BY <2>1, <2>3, <2>4, <2>5 DEF Complete, EventDone, deviceVars
<1>15. CASE LogEvent
    BY <1>15 DEF LogEvent, EventDone, Now, deviceVars, callVars, ghosts
<1>16. ASSUME NEW id \in Ids, Expire(id) PROVE Typed'
    BY <1>16 DEF Expire, deviceVars, callVars, ghosts
<1>17. CASE GrowSilent
    BY <1>17 DEF GrowSilent, deviceVars, callVars, ghosts
<1>18. ASSUME NEW f \in Frames, DeviceSends(f) PROVE Typed'
    BY <1>18 DEF DeviceSends, taskVars, callVars, ghosts
<1>19. ASSUME NEW how \in {"closed", "vanished"}, DeviceEnds(how) PROVE Typed'
    BY <1>19 DEF DeviceEnds, taskVars, callVars, ghosts
<1>20. CASE UNCHANGED vars
    BY <1>20 DEF vars, taskVars, deviceVars, callVars, ghosts
<1>21. QED
    BY <1>1, <1>2, <1>3, <1>4, <1>5, <1>6, <1>7, <1>8, <1>9, <1>10, <1>11, <1>12, <1>13,
       <1>14, <1>15, <1>16, <1>17, <1>18, <1>19, <1>20 DEF Next, Task

-----------------------------------------------------------------------------
\* The books: queue, responders, pending commands and events agree.

(* What the events are called.                                             *)
LEMMA EventFields ==
    /\ \A id \in Ids : /\ Transmit(id).type = "transmit" /\ Transmit(id).id = id
                       /\ Succeeded(id).type = "succeeded" /\ Succeeded(id).id = id
                       /\ TimedOut(id).type = "timed out" /\ TimedOut(id).id = id
    /\ Heartbeat.type \notin OfCommand /\ SilentDevice.type \notin OfCommand
    /\ Ack.type \notin OfCommand /\ Log.type \notin OfCommand
    /\ Answers \subseteq OfCommand /\ "transmit" \in OfCommand /\ "transmit" \notin Answers
BY DEF Transmit, Succeeded, TimedOut, Heartbeat, SilentDevice, Ack, Log, OfCommand, Answers

(* Both answers to a command are of its id.                                *)
LEMMA AnswerFields ==
    ASSUME NEW id \in Ids, NEW e \in {Succeeded(id), TimedOut(id)}
    PROVE  e.type \in Answers /\ e.id = id
<1>1. CASE e = Succeeded(id)
    BY <1>1 DEF Succeeded, Answers
<1>2. CASE e = TimedOut(id)
    BY <1>2 DEF TimedOut, Answers
<1>3. QED
    BY <1>1, <1>2

(* The positions of what is left of a sequence.                            *)
LEMMA TailPositions ==
    ASSUME NEW S, NEW s \in Seq(S), s # <<>>
    PROVE  /\ Head(s) = s[1] /\ 1 \in DOMAIN s
           /\ \A i \in DOMAIN Tail(s) : i + 1 \in DOMAIN s /\ Tail(s)[i] = s[i + 1]
           /\ \A i \in DOMAIN s : i # 1 => i - 1 \in DOMAIN Tail(s) /\ Tail(s)[i - 1] = s[i]
           /\ \A i \in DOMAIN s : i \in Nat
           /\ \A i \in DOMAIN Tail(s) : i \in Nat \ {0}
OBVIOUS

(* Losing the connection closes the books: what had a responder is told.   *)
LEMMA DropBooks ==
    ASSUME Typed, Books, NEW failing, DropConnection(failing), queue' = queue,
           at' \in {"backoff", "ending"}
    PROVE  Books'
<1>1. Rest'
    BY DEF DropConnection, Rest
<1>2. MapsAgree'
    BY FS_EmptySet DEF DropConnection, MapsAgree, None
<1>3. \A i \in DOMAIN queue : queue[i] \in Calls /\ IdOf[queue[i]] \in Ids
    BY CallAssumption DEF Typed
<1>4. QueuedOnce'
    BY <1>3, CallAssumption DEF DropConnection, QueuedOnce, Books, None
<1>5. Waiting'
    <2> SUFFICES ASSUME NEW c \in Calls
                 PROVE  (status'[c] = "waiting") <=> (Queued(c)' \/ responders'[IdOf[c]] = c)
        BY DEF Waiting
    <2>1. Queued(c)' <=> Queued(c)
        BY DEF Queued
    <2>2. IdOf[c] \in Ids /\ c # NoCall
        BY CallAssumption
    <2>3. responders'[IdOf[c]] # c
        BY <2>2 DEF DropConnection, None
    <2>4. c \in Registered <=> responders[IdOf[c]] = c
        BY <2>2 DEF Registered, Books, MapsAgree, Typed
    <2>5. status'[c] = IF c \notin Registered THEN status[c]
                       ELSE IF c = failing THEN "failed" ELSE "closed"
        BY DEF DropConnection
    <2>6. Queued(c) => responders[IdOf[c]] # c
        BY DEF Queued, Books, QueuedOnce
    <2>7. QED
        BY <2>1, <2>3, <2>4, <2>5, <2>6 DEF Books, Waiting
<1>6. TodoApplies' /\ Answered'
    BY DEF DropConnection, TodoApplies, Answered, None
<1>7. QED
    BY <1>1, <1>2, <1>4, <1>5, <1>6 DEF Books

(* An event that answers nobody leaves the books as they are.              *)
LEMMA EventBooks ==
    ASSUME Typed, Books, at = "events", todo # <<>>, Head(todo).type \notin Answers, EventDone,
           UNCHANGED <<responders, pending, due, status, queue>>
    PROVE  Books'
<1>1. todo \in Seq(Events) /\ todo' = Tail(todo)
    BY DEF Typed, EventDone
<1>2. Rest'
    BY DEF EventDone, Books, Rest
<1>3. MapsAgree' /\ QueuedOnce' /\ Waiting'
    BY DEF Books, MapsAgree, QueuedOnce, Waiting, Queued
<1>4. TodoApplies'
    BY <1>1, TailPositions DEF Books, TodoApplies
<1>5. Answered'
    <2> SUFFICES ASSUME NEW id \in Ids, Answering(id) PROVE Answering(id)'
        BY DEF Books, Answered
    <2>1. PICK i \in DOMAIN todo : todo[i] \in {Succeeded(id), TimedOut(id)}
        BY DEF Answering
    <2>2. todo[i].type \in Answers
        BY <2>1, AnswerFields
    <2>3. i # 1
        BY <2>2, <1>1, TailPositions
    <2>4. i - 1 \in DOMAIN Tail(todo) /\ Tail(todo)[i - 1] = todo[i]
        BY <2>3, <1>1, TailPositions
    <2>5. QED
        BY <2>1, <2>4, <1>1 DEF Answering
<1>6. QED
    BY <1>2, <1>3, <1>4, <1>5 DEF Books

(* Answering a caller takes its responder and its event together.          *)
LEMMA CompleteBooks ==
    ASSUME Typed, Books, at = "events", todo # <<>>, Head(todo).type \in Answers,
           NEW outcome \in {"ok", "timeout"}, Complete(outcome)
    PROVE  Books'
<1> DEFINE me == Head(todo).id
           c0 == responders[me]
<1>1. todo \in Seq(Events) /\ todo' = Tail(todo) /\ UNCHANGED <<pending, due, queue>>
    BY DEF Typed, Complete, EventDone
<1>2. Head(todo) = todo[1] /\ 1 \in DOMAIN todo
    BY <1>1, TailPositions
<1>3. me \in Ids /\ c0 # NoCall /\ pending[me] = NoCall /\ c0 \in Calls /\ IdOf[c0] = me
    <2>1. Head(todo) \in Events
        BY <1>1
    <2>2. me \in Ids
        BY <2>1, EventTypes, EventFields
    <2>3. c0 # NoCall /\ pending[me] = NoCall
        BY <1>2 DEF Books, TodoApplies
    <2>4. QED
        BY <2>2, <2>3 DEF Books, MapsAgree, Typed
<1>4. responders' = [responders EXCEPT ![me] = NoCall]
    BY DEF Complete
<1>5. \A id \in Ids : responders'[id] = IF id = me THEN NoCall ELSE responders[id]
    BY <1>4 DEF Typed
<1>6. \A c \in Calls : status'[c] = IF c = c0 THEN outcome ELSE status[c]
    BY DEF Complete
<1> HIDE DEF me, c0
<1>7. Rest'
    BY DEF Complete, EventDone, Books, Rest
<1>8. MapsAgree'
    BY <1>1, <1>3, <1>5 DEF Books, MapsAgree, Typed
<1>9. \A i \in DOMAIN queue : queue[i] \in Calls /\ IdOf[queue[i]] \in Ids
    BY CallAssumption DEF Typed
<1>10. QueuedOnce'
    BY <1>1, <1>5, <1>9, CallAssumption DEF Books, QueuedOnce
<1>11. Waiting'
    <2> SUFFICES ASSUME NEW c \in Calls
                 PROVE  (status'[c] = "waiting") <=> (Queued(c)' \/ responders'[IdOf[c]] = c)
        BY DEF Waiting
    <2>1. Queued(c)' <=> Queued(c)
        BY <1>1 DEF Queued
    <2>2. IdOf[c] \in Ids /\ c # NoCall
        BY CallAssumption
    <2>3. CASE c = c0
        <3>1. status'[c] # "waiting"
            BY <1>6, <2>3
        <3>2. ~ Queued(c)
            BY <1>3, <2>3 DEF Queued, Books, QueuedOnce, c0
        <3>3. responders'[IdOf[c]] # c
            BY <1>3, <1>5, <2>2, <2>3
        <3>4. QED
            BY <2>1, <3>1, <3>2, <3>3
    <2>4. CASE c # c0
        <3>1. responders'[IdOf[c]] = c <=> responders[IdOf[c]] = c
            BY <1>5, <2>2, <2>4 DEF c0
        <3>2. QED
            BY <2>1, <2>4, <3>1, <1>6 DEF Books, Waiting
    <2>5. QED
        BY <2>3, <2>4
<1>12. TodoApplies'
    <2>1. ASSUME NEW i \in DOMAIN Tail(todo), Tail(todo)[i].type \in OfCommand
          PROVE  Tail(todo)[i].id # me
        <3>1. i + 1 \in DOMAIN todo /\ Tail(todo)[i] = todo[i + 1] /\ i + 1 # 1
            BY <1>1, TailPositions
        <3>2. todo[1].type \in OfCommand /\ todo[1].id = me
            BY <1>2, EventFields DEF me
        <3>3. QED
            BY <1>2, <2>1, <3>1, <3>2 DEF Books, TodoApplies
    <2>2. ASSUME NEW i \in DOMAIN Tail(todo), Tail(todo)[i].type \in OfCommand
          PROVE  Tail(todo)[i].id \in Ids
        BY <1>1, <2>2, EventTypes
    <2>3. ASSUME NEW i \in DOMAIN Tail(todo), NEW j \in DOMAIN Tail(todo),
                 Tail(todo)[i].type \in OfCommand, Tail(todo)[j].type \in OfCommand,
                 Tail(todo)[i].id = Tail(todo)[j].id
          PROVE  i = j
        BY <1>1, <2>3, TailPositions DEF Books, TodoApplies
    <2>4. ASSUME NEW i \in DOMAIN Tail(todo)
          PROVE  /\ Tail(todo)[i].type = "transmit" => pending[Tail(todo)[i].id] # NoCall
                 /\ Tail(todo)[i].type \in Answers =>
                       /\ responders[Tail(todo)[i].id] # NoCall
                       /\ pending[Tail(todo)[i].id] = NoCall
        BY <1>1, TailPositions DEF Books, TodoApplies
    <2>5. ASSUME NEW i \in DOMAIN Tail(todo), Tail(todo)[i].type \in Answers
          PROVE  responders'[Tail(todo)[i].id] # NoCall
        BY <1>5, <2>1, <2>2, <2>4, <2>5, EventFields
    <2>6. QED
        BY <1>1, <2>3, <2>4, <2>5 DEF TodoApplies
<1>13. Answered'
    <2> SUFFICES ASSUME NEW id \in Ids, responders'[id] # NoCall, pending'[id] # responders'[id]
                 PROVE  Answering(id)'
        BY DEF Answered
    <2>1. id # me /\ Answering(id)
        BY <1>1, <1>5 DEF Books, Answered
    <2>2. PICK i \in DOMAIN todo : todo[i] \in {Succeeded(id), TimedOut(id)}
        BY <2>1 DEF Answering
    <2>3. i # 1
        BY <2>1, <2>2, <1>2, AnswerFields DEF me
    <2>4. i - 1 \in DOMAIN Tail(todo) /\ Tail(todo)[i - 1] = todo[i]
        BY <2>3, <1>1, TailPositions
    <2>5. QED
        BY <2>2, <2>4, <1>1 DEF Answering
<1>14. QED
    BY <1>7, <1>8, <1>10, <1>11, <1>12, <1>13 DEF Books

(* A caller queues its command.                                            *)
LEMMA CallBooks ==
    ASSUME Typed, Books, NEW c \in Calls, Call(c)
    PROVE  Books'
<1>1. UNCHANGED <<at, responders, pending, due, todo>>
    BY DEF Call, taskVars
<1>2. MapsAgree' /\ TodoApplies' /\ Answered'
    BY <1>1 DEF Books, MapsAgree, TodoApplies, Answered, Answering
<1>3. ~ Queued(c) /\ responders[IdOf[c]] # c
    BY DEF Call, Books, Waiting
<1>4. CASE at = "done"
    <2>1. queue' = queue /\ status' = [status EXCEPT ![c] = "closed"]
        BY <1>4 DEF Call
    <2>2. Rest' /\ QueuedOnce'
        BY <1>1, <2>1 DEF Books, Rest, QueuedOnce
    <2>3. Waiting'
        BY <1>1, <1>3, <2>1 DEF Books, Waiting, Queued, Typed
    <2>4. QED
        BY <1>2, <2>2, <2>3 DEF Books
<1>5. CASE at # "done"
    <2>1. queue' = Append(queue, c) /\ status' = [status EXCEPT ![c] = "waiting"]
        BY <1>5 DEF Call
    <2>2. /\ DOMAIN queue' = DOMAIN queue \cup {Len(queue) + 1}
          /\ queue'[Len(queue) + 1] = c
          /\ \A i \in DOMAIN queue : queue'[i] = queue[i] /\ i # Len(queue) + 1
        BY <2>1 DEF Typed
    <2>3. Rest'
        BY <1>1, <1>5 DEF Books, Rest
    <2>4. QueuedOnce'
        BY <1>1, <1>3, <2>2 DEF Books, QueuedOnce, Queued
    <2>5. \A d \in Calls : Queued(d)' <=> (Queued(d) \/ d = c)
        BY <2>2 DEF Queued
    <2>6. Waiting'
        BY <1>1, <2>1, <2>5 DEF Books, Waiting, Typed
    <2>7. QED
        BY <1>2, <2>3, <2>4, <2>6 DEF Books
<1>6. QED
    BY <1>4, <1>5

(* The session is dropped: the callers still in the queue are told.        *)
LEMMA EndBooks ==
    ASSUME Typed, Books, End
    PROVE  Books'
<1>1. UNCHANGED <<responders, pending, due, todo>> /\ queue' = <<>> /\ at' = "done" /\ at = "ending"
    BY DEF End
<1>2. responders = None /\ pending = None /\ due = {} /\ todo = <<>>
    BY <1>1 DEF Books, Rest
<1>3. Rest'
    BY <1>1, <1>2 DEF Rest
<1>4. MapsAgree' /\ TodoApplies' /\ Answered' /\ QueuedOnce'
    BY <1>1, <1>2 DEF Books, MapsAgree, TodoApplies, Answered, QueuedOnce, None
<1>5. Waiting'
    <2> SUFFICES ASSUME NEW c \in Calls
                 PROVE  (status'[c] = "waiting") <=> (Queued(c)' \/ responders'[IdOf[c]] = c)
        BY DEF Waiting
    <2>1. ~ Queued(c)' /\ responders'[IdOf[c]] # c /\ responders[IdOf[c]] # c
        BY <1>1, <1>2, CallAssumption DEF Queued, None
    <2>2. status'[c] = IF Queued(c) THEN "closed" ELSE status[c]
        BY DEF End, Queued
    <2>3. status[c] = "waiting" <=> Queued(c)
        BY <2>1 DEF Books, Waiting
    <2>4. QED
        BY <2>1, <2>2, <2>3
<1>6. QED
    BY <1>3, <1>4, <1>5 DEF Books

(* A command leaves the queue, for Busy or for the core.                   *)
LEMMA AcceptBooks ==
    ASSUME Typed, Books, Accept
    PROVE  Books'
<1> DEFINE c == Head(queue)
           id == IdOf[c]
<1>1. queue \in Seq(Calls) /\ queue # <<>> /\ queue' = Tail(queue) /\ at = "select" /\ due' = due
    BY DEF Typed, Accept
<1>2. c \in Calls /\ id \in Ids /\ c # NoCall /\ c = queue[1] /\ 1 \in DOMAIN queue
    BY <1>1, TailPositions, CallAssumption
<1>3. todo = <<>>
    BY <1>1 DEF Books, Rest
<1>4. Queued(c) /\ responders[id] # c /\ status[c] = "waiting"
    BY <1>2 DEF Queued, Books, QueuedOnce, Waiting
<1>5. \A d \in Calls : Queued(d)' <=> (Queued(d) /\ d # c)
    <2>1. ASSUME NEW d \in Calls, NEW i \in DOMAIN Tail(queue), Tail(queue)[i] = d
          PROVE  Queued(d) /\ d # c
        BY <1>1, <1>2, <2>1, TailPositions DEF Queued, Books, QueuedOnce
    <2>2. ASSUME NEW d \in Calls, NEW i \in DOMAIN queue, queue[i] = d, d # c
          PROVE  \E j \in DOMAIN Tail(queue) : Tail(queue)[j] = d
        BY <1>1, <1>2, <2>2, TailPositions
    <2>3. QED
        BY <1>1, <2>1, <2>2 DEF Queued
<1>6. \A i, j \in DOMAIN queue' : queue'[i] = queue'[j] => i = j
    BY <1>1, TailPositions DEF Books, QueuedOnce
<1>7. \A i \in DOMAIN queue' : /\ queue'[i] \in Calls /\ queue'[i] # c
                              /\ responders[IdOf[queue'[i]]] # queue'[i]
    BY <1>1, <1>2, TailPositions DEF Books, QueuedOnce
<1> HIDE DEF c, id
<1>8. CASE responders[id] # NoCall
    <2>1. status' = [status EXCEPT ![c] = "busy"]
        BY <1>8 DEF Accept, c, id
    <2>2. UNCHANGED <<at, responders, pending, todo>>
        BY <1>8 DEF Accept, c, id
    <2>3. Rest'
        BY <1>1, <2>2 DEF Books, Rest
    <2>4. MapsAgree' /\ TodoApplies' /\ Answered'
        BY <1>1, <2>2 DEF Books, MapsAgree, TodoApplies, Answered, Answering
    <2>5. QueuedOnce'
        BY <1>6, <1>7, <2>2 DEF QueuedOnce
    <2>6. Waiting'
        BY <1>2, <1>4, <1>5, <2>1, <2>2 DEF Books, Waiting, Typed, id
    <2>7. QED
        BY <2>3, <2>4, <2>5, <2>6 DEF Books
<1>9. CASE responders[id] = NoCall
    <2>1. /\ responders' = [responders EXCEPT ![id] = c]
          /\ pending' = [pending EXCEPT ![id] = c]
          /\ todo' = <<Transmit(id)>> /\ at' = "events" /\ status' = status
        BY <1>9 DEF Accept, c, id
    <2>2. \A i \in Ids : /\ responders'[i] = IF i = id THEN c ELSE responders[i]
                         /\ pending'[i] = IF i = id THEN c ELSE pending[i]
        BY <2>1 DEF Typed
    <2>3. Rest'
        BY <2>1 DEF Rest
    <2>4. MapsAgree'
        BY <1>1, <1>2, <2>2 DEF Books, MapsAgree, Typed, id
    <2>5. QueuedOnce'
        BY <1>6, <1>7, <2>2, CallAssumption DEF QueuedOnce
    <2>6. Waiting'
        BY <1>2, <1>4, <1>5, <1>9, <2>1, <2>2, CallAssumption DEF Books, Waiting, id
    <2>7. TodoApplies'
        <3>1. DOMAIN todo' = {1} /\ todo'[1] = Transmit(id)
            BY <2>1
        <3>2. Transmit(id).type = "transmit" /\ Transmit(id).id = id
            BY <1>2, EventFields
        <3>3. "transmit" \notin Answers /\ pending'[id] = c
            BY <1>2, <2>2, EventFields
        <3>4. QED
            BY <1>2, <3>1, <3>2, <3>3 DEF TodoApplies
    <2>8. Answered'
        BY <1>3, <2>2 DEF Books, Answered, Answering
    <2>9. QED
        BY <2>3, <2>4, <2>5, <2>6, <2>7, <2>8 DEF Books
<1>10. QED
    BY <1>8, <1>9

(* Expired commands are sent again or given up, each by one event.         *)
LEMMA TimeoutBooks ==
    ASSUME Typed, Books, TimeoutTick
    PROVE  Books'
<1> DEFINE again == {id \in due : Retries(id)}
           event(id) == IF id \in again THEN Transmit(id) ELSE TimedOut(id)
           N == Cardinality(due)
<1>1. /\ at = "select" /\ at' = "events" /\ due' = {}
      /\ UNCHANGED <<responders, status, queue>>
    BY DEF TimeoutTick, callVars
<1>2. PICK order \in Orders(due) : todo' = [i \in DOMAIN order |-> event(order[i])]
    BY DEF TimeoutTick
<1>3. /\ order \in [1 .. N -> due]
      /\ \A i, j \in 1 .. N : order[i] = order[j] => i = j
      /\ \A id \in due : \E i \in 1 .. N : order[i] = id
    BY OrderProperties DEF Books, MapsAgree
<1>4. \A id \in Ids : pending'[id] = IF id \in due \ again THEN NoCall ELSE pending[id]
    BY DEF TimeoutTick
<1>5. again \subseteq due /\ due \subseteq Ids
    BY DEF Typed
<1>6. \A id \in due : /\ event(id).id = id
                      /\ id \in again => event(id).type = "transmit"
                      /\ id \notin again => event(id) = TimedOut(id) /\ event(id).type = "timed out"
    BY <1>5, EventFields
<1> HIDE DEF again, event
<1>7. DOMAIN todo' = 1 .. N /\ \A i \in 1 .. N : todo'[i] = event(order[i]) /\ order[i] \in due
    BY <1>2, <1>3
<1> HIDE DEF N
<1>8. Rest'
    BY <1>1 DEF Rest
<1>9. MapsAgree'
    BY <1>1, <1>4, FS_EmptySet DEF Books, MapsAgree
<1>10. QueuedOnce' /\ Waiting'
    BY <1>1 DEF Books, QueuedOnce, Waiting, Queued
<1>11. TodoApplies'
    <2>1. ASSUME NEW i \in 1 .. N, NEW j \in 1 .. N, todo'[i].id = todo'[j].id
          PROVE  i = j
        <3>1. \A k \in 1 .. N : todo'[k].id = order[k]
            <4> SUFFICES ASSUME NEW k \in 1 .. N PROVE todo'[k].id = order[k]
                OBVIOUS
            <4>1. todo'[k] = event(order[k]) /\ order[k] \in due
                BY <1>7
            <4>2. event(order[k]).id = order[k]
                BY <1>6, <4>1
            <4>3. QED
                BY <4>1, <4>2
        <3>2. QED
            BY <1>3, <2>1, <3>1
    <2>2. ASSUME NEW i \in 1 .. N
          PROVE  /\ todo'[i].type = "transmit" => pending'[todo'[i].id] # NoCall
                 /\ todo'[i].type \in Answers =>
                       responders'[todo'[i].id] # NoCall /\ pending'[todo'[i].id] = NoCall
        <3> DEFINE id == order[i]
        <3>1. id \in due /\ id \in Ids /\ todo'[i] = event(id)
            BY <1>5, <1>7
        <3>2. pending[id] # NoCall /\ responders[id] # NoCall
            BY <3>1 DEF Books, MapsAgree
        <3> HIDE DEF id
        <3>3. CASE id \in again
            <4>1. todo'[i].id = id /\ todo'[i].type = "transmit" /\ pending'[id] # NoCall
                BY <1>4, <1>6, <3>1, <3>2, <3>3
            <4>2. QED
                BY <4>1, EventFields
        <3>4. CASE id \notin again
            <4>1. /\ todo'[i].id = id /\ todo'[i].type = "timed out"
                  /\ pending'[id] = NoCall /\ responders'[id] # NoCall
                BY <1>1, <1>4, <1>6, <3>1, <3>2, <3>4
            <4>2. QED
                BY <4>1
        <3>5. QED
            BY <3>3, <3>4
    <2>3. QED
        BY <1>7, <2>1, <2>2 DEF TodoApplies
<1>12. Answered'
    <2> SUFFICES ASSUME NEW id \in Ids, responders'[id] # NoCall, pending'[id] # responders'[id]
                 PROVE  Answering(id)'
        BY DEF Answered
    <2>1. todo = <<>>
        BY <1>1 DEF Books, Rest
    <2>2. pending[id] = responders[id]
        BY <1>1, <2>1 DEF Books, Answered, Answering
    <2>3. id \in due \ again
        BY <1>1, <1>4, <2>2
    <2>4. PICK i \in 1 .. N : order[i] = id
        BY <1>3, <2>3
    <2>5. todo'[i] = TimedOut(id)
        BY <1>6, <1>7, <2>3, <2>4
    <2>6. QED
        BY <1>7, <2>4, <2>5 DEF Answering
<1>13. QED
    BY <1>8, <1>9, <1>10, <1>11, <1>12 DEF Books

(* A frame answers at most the command that is pending under its id.       *)
LEMMA FrameBooks ==
    ASSUME Typed, Books, HandleFrame
    PROVE  Books'
<1> DEFINE f == Head(buffer)
           answers == f.kind = "other" /\ pending[f.id] # NoCall
<1>1. f \in Frames /\ todo = <<>> /\ at = "events" /\ UNCHANGED <<responders, status, queue>>
    BY DEF Typed, HandleFrame, callVars
<1>2. at' # "events" => todo' = <<>>
    BY DEF HandleFrame
<1>3. at' \in {"select", "events"}
    BY DEF HandleFrame
<1>4. Rest'
    BY <1>2, <1>3 DEF Rest
<1>5. QueuedOnce' /\ Waiting'
    BY <1>1 DEF Books, QueuedOnce, Waiting, Queued
<1>6. \A id \in Ids : responders[id] # NoCall => pending[id] = responders[id]
    BY <1>1 DEF Books, Answered, Answering
<1>7. CASE answers
    <2>1. f.id \in Ids /\ responders[f.id] # NoCall
        BY <1>1, <1>7, FrameTypes DEF Books, MapsAgree
    <2>2. todo' = <<Succeeded(f.id)>> /\ due' = due \ {f.id}
        BY <1>7 DEF HandleFrame
    <2>3. pending' = [pending EXCEPT ![f.id] = NoCall]
        BY <1>7 DEF HandleFrame
    <2>4. \A id \in Ids : pending'[id] = IF id = f.id THEN NoCall ELSE pending[id]
        BY <2>3 DEF Typed
    <2> HIDE DEF f, answers
    <2>5. MapsAgree'
        BY <1>1, <2>1, <2>2, <2>4, FS_RemoveElement DEF Books, MapsAgree, Typed
    <2>6. DOMAIN todo' = {1} /\ todo'[1] = Succeeded(f.id)
        BY <2>2
    <2>7. Succeeded(f.id).id = f.id /\ Succeeded(f.id).type = "succeeded"
        BY <2>1, EventFields
    <2>8. TodoApplies'
        BY <1>1, <2>1, <2>4, <2>6, <2>7 DEF TodoApplies
    <2>9. Answered'
        BY <1>1, <1>6, <2>4, <2>6 DEF Answered, Answering
    <2>10. QED
        BY <1>4, <1>5, <2>5, <2>8, <2>9 DEF Books
<1>8. CASE ~ answers
    <2>1. UNCHANGED <<pending, due>> /\ todo' \in {<<>>, <<Ack>>, <<Log>>}
        BY <1>8 DEF HandleFrame
    <2>2. ASSUME NEW i \in DOMAIN todo'
          PROVE  todo'[i].type \notin OfCommand
        <3>1. todo'[i] = Ack \/ todo'[i] = Log
            BY <2>1
        <3>2. QED
            BY <3>1, EventFields
    <2>3. MapsAgree' /\ Answered'
        BY <1>1, <1>6, <2>1 DEF Books, MapsAgree, Answered
    <2>4. TodoApplies'
        BY <2>2, EventFields DEF TodoApplies
    <2>5. QED
        BY <1>4, <1>5, <2>3, <2>4 DEF Books
<1>9. QED
    BY <1>7, <1>8

(* A probe and a silent device concern no command.                         *)
LEMMA HeartbeatEvents ==
    ASSUME HeartbeatTick, NEW i \in DOMAIN todo'
    PROVE  todo'[i].type \notin OfCommand
<1> DEFINE S == {Heartbeat, SilentDevice}
           rest == IF silent THEN <<SilentDevice>> ELSE <<>>
<1>1. <<Heartbeat>> \in Seq(S) /\ <<SilentDevice>> \in Seq(S) /\ <<>> \in Seq(S)
    OBVIOUS
<1>2. todo' = <<Heartbeat>> \o rest /\ rest \in Seq(S)
    BY <1>1 DEF HeartbeatTick
<1> HIDE DEF rest, S
<1>3. todo' \in Seq(S)
    BY <1>1, <1>2, ConcatProperties
<1>4. todo'[i] = Heartbeat \/ todo'[i] = SilentDevice
    BY <1>3 DEF S
<1>5. QED
    BY <1>4, EventFields

(* The heartbeat's events leave the books as they are.                     *)
LEMMA HeartbeatBooks ==
    ASSUME Typed, Books, HeartbeatTick
    PROVE  Books'
<1>1. /\ todo = <<>> /\ at' = "events"
      /\ UNCHANGED <<responders, pending, due, status, queue>>
    BY DEF HeartbeatTick, Books, Rest, callVars
<1>3. \A i \in DOMAIN todo' : todo'[i].type \notin OfCommand
    BY HeartbeatEvents
<1>4. Rest' /\ MapsAgree' /\ QueuedOnce' /\ Waiting'
    BY <1>1 DEF Books, Rest, MapsAgree, QueuedOnce, Waiting, Queued
<1>5. TodoApplies'
    BY <1>3, EventFields DEF TodoApplies
<1>6. Answered'
    BY <1>1 DEF Books, Answered, Answering
<1>7. QED
    BY <1>4, <1>5, <1>6 DEF Books

(* A deadline passes for a pending command.                                *)
LEMMA ExpireBooks ==
    ASSUME Typed, Books, NEW id \in Ids, Expire(id)
    PROVE  Books'
<1>1. /\ due' = due \cup {id} /\ pending[id] # NoCall /\ at \in {"select", "events"}
      /\ UNCHANGED <<at, responders, pending, todo, status, queue>>
    BY DEF Expire, Connected, callVars
<1>2. Rest' /\ QueuedOnce' /\ Waiting' /\ TodoApplies' /\ Answered'
    BY <1>1 DEF Books, Rest, QueuedOnce, Waiting, Queued, TodoApplies, Answered, Answering
<1>3. MapsAgree'
    BY <1>1, FS_AddElement DEF Books, MapsAgree
<1>4. QED
    BY <1>2, <1>3 DEF Books

(* Steps that move neither a call nor an event.                            *)
LEMMA OtherBooks ==
    ASSUME Typed, Books, UNCHANGED <<responders, pending, due, todo, status, queue>>,
           \/ at' = at
           \/ at \in {"start", "backoff"} /\ at' = "connecting"
           \/ at = "connecting" /\ at' = "select"
           \/ at = "select" /\ at' = "events"
    PROVE  Books'
<1>1. Rest'
    BY DEF Books, Rest
<1>2. QED
    BY <1>1 DEF Books, MapsAgree, QueuedOnce, Waiting, Queued, TodoApplies, Answered, Answering

(* No step breaks the books.                                               *)
LEMMA NextBooks == Typed /\ Books /\ [Next]_vars => Books'
<1> SUFFICES ASSUME Typed, Books, [Next]_vars PROVE Books'
    OBVIOUS
<1>1. ASSUME NEW c \in Calls, Call(c) PROVE Books'
    BY <1>1, CallBooks
<1>2. CASE Stop \/ GrowSilent
    BY <1>2, OtherBooks DEF Stop, GrowSilent, taskVars, deviceVars, callVars, ghosts
<1>3. CASE Connect \/ ConnectOk
    BY <1>3, OtherBooks DEF Connect, ConnectOk, deviceVars, callVars, ghosts
<1>4. CASE ConnectFails \/ ReadFails \/ WriteFails \/ EncodeFails
    BY <1>4, DropBooks DEF ConnectFails, ReadFails, WriteFails, EncodeFails, LoseConnection
<1>5. CASE StopSeen \/ HeartbeatTimedOut
    BY <1>5, DropBooks DEF StopSeen, HeartbeatTimedOut
<1>6. CASE End
    BY <1>6, EndBooks
<1>7. CASE Accept
    BY <1>7, AcceptBooks
<1>8. CASE HeartbeatTick
    BY <1>8, HeartbeatBooks
<1>9. CASE TimeoutTick
    BY <1>9, TimeoutBooks
<1>10. ASSUME NEW n \in 1 .. Len(wire), Read(n) PROVE Books'
    BY <1>10, OtherBooks DEF Read, callVars, ghosts
<1>11. CASE HandleFrame
    BY <1>11, FrameBooks
<1>12. CASE WriteOk \/ LogEvent
    BY <1>12, EventBooks DEF WriteOk, LogEvent, Writes, Now, Answers, callVars
<1>13. CASE CommandSucceeded
    BY <1>13, CompleteBooks DEF CommandSucceeded, Now, Answers
<1>14. CASE CommandTimedOut
    BY <1>14, CompleteBooks DEF CommandTimedOut, Now, Answers
<1>15. ASSUME NEW id \in Ids, Expire(id) PROVE Books'
    BY <1>15, ExpireBooks
<1>16. ASSUME NEW f \in Frames, DeviceSends(f) PROVE Books'
    BY <1>16, OtherBooks DEF DeviceSends, taskVars, callVars, ghosts
<1>17. ASSUME NEW how \in {"closed", "vanished"}, DeviceEnds(how) PROVE Books'
    BY <1>17, OtherBooks DEF DeviceEnds, taskVars, callVars, ghosts
<1>18. CASE UNCHANGED vars
    BY <1>18, OtherBooks DEF vars, taskVars, deviceVars, callVars, ghosts
<1>19. QED
    BY <1>1, <1>2, <1>3, <1>4, <1>5, <1>6, <1>7, <1>8, <1>9, <1>10, <1>11, <1>12, <1>13,
       <1>14, <1>15, <1>16, <1>17, <1>18 DEF Next, Task

-----------------------------------------------------------------------------
\* What was sent is paid for.

(* A lost connection moves nobody but those who wait, and them to an error. *)
LEMMA DropStatus ==
    ASSUME Typed, Books, NEW failing, DropConnection(failing), NEW c \in Calls
    PROVE  status'[c] = status[c] \/ (status[c] = "waiting" /\ status'[c] \in {"failed", "closed"})
<1>1. status'[c] = IF c \notin Registered THEN status[c]
                   ELSE IF c = failing THEN "failed" ELSE "closed"
    BY DEF DropConnection
<1>2. c \in Registered => responders[IdOf[c]] = c
    BY CallAssumption DEF Registered, Books, MapsAgree, Typed
<1>3. c \in Registered => status[c] = "waiting"
    BY <1>2 DEF Books, Waiting
<1>4. QED
    BY <1>1, <1>3

(* Nothing is sent, and nothing new is to be sent.                         *)
LEMMA KeptPaid ==
    ASSUME Paid, UNCHANGED <<sent, attempts>>,
           \A c \in Calls : (status'[c] = "idle" \/ Queued(c)') => (status[c] = "idle" \/ Queued(c)),
           \A id \in Ids : pending'[id] # NoCall =>
               pending'[id] = pending[id] /\ (Transmitting(id)' => Transmitting(id))
    PROVE  Paid'
BY DEF Paid

(* A lost connection forgets what was pending.                             *)
LEMMA DropPaid ==
    ASSUME Typed, Books, Paid, NEW failing, DropConnection(failing), queue' = queue,
           \A c \in Calls : sent'[c] <= Limit(c),
           \A c \in Calls : (status[c] = "idle" \/ Queued(c)) => sent'[c] = sent[c]
    PROVE  Paid'
<1>1. \A id \in Ids : pending'[id] = NoCall
    BY DEF DropConnection, None
<1>2. ASSUME NEW c \in Calls, status'[c] = "idle" \/ Queued(c)'
      PROVE  sent'[c] = 0
    <2>1. status[c] = "idle" \/ Queued(c)
        BY <1>2, DropStatus DEF Queued
    <2>2. QED
        BY <2>1 DEF Paid
<1>3. QED
    BY <1>1, <1>2 DEF Paid

(* A command enters the core with one attempt and nothing sent.            *)
LEMMA AcceptPaid ==
    ASSUME Typed, Books, Paid, Accept
    PROVE  Paid'
<1> DEFINE c == Head(queue)
           id == IdOf[c]
<1>1. queue \in Seq(Calls) /\ queue # <<>> /\ queue' = Tail(queue) /\ at = "select" /\ sent' = sent
    BY DEF Typed, Accept, ghosts
<1>2. c \in Calls /\ id \in Ids /\ c = queue[1] /\ 1 \in DOMAIN queue
    BY <1>1, TailPositions, CallAssumption
<1>3. todo = <<>>
    BY <1>1 DEF Books, Rest
<1>4. sent[c] = 0 /\ Queued(c)
    BY <1>2 DEF Queued, Paid
<1>5. \A d \in Calls : Queued(d)' => Queued(d)
    BY <1>1, TailPositions DEF Queued
<1> HIDE DEF c, id
<1>6. CASE responders[id] # NoCall
    <2>1. UNCHANGED <<attempts, pending, todo>>
        BY <1>6 DEF Accept, c, id
    <2>2. \A d \in Calls : status'[d] = "idle" => status[d] = "idle"
        BY <1>6 DEF Accept, c, id, Typed
    <2>3. QED
        BY <1>1, <1>5, <2>1, <2>2, KeptPaid DEF Transmitting
<1>7. CASE responders[id] = NoCall
    <2>1. /\ pending' = [pending EXCEPT ![id] = c] /\ attempts' = [attempts EXCEPT ![c] = 1]
          /\ todo' = <<Transmit(id)>> /\ status' = status
        BY <1>7 DEF Accept, c, id
    <2>2. \A i \in Ids : pending'[i] = IF i = id THEN c ELSE pending[i]
        BY <2>1 DEF Typed
    <2>3. attempts'[c] = 1 /\ \A d \in Calls : d # c => attempts'[d] = attempts[d]
        BY <1>2, <2>1 DEF Typed
    <2>4. DOMAIN todo' = {1} /\ todo'[1].id = id
        <3>1. Transmit(id).id = id
            BY <1>2, EventFields
        <3>2. QED
            BY <2>1, <3>1
    <2>5. 1 <= Limit(c)
        BY <1>2, CallAssumption DEF Limit
    <2>6. \A i \in Ids : pending[i] # NoCall => pending[i] # c
        BY <1>2, <1>4 DEF Books, MapsAgree, QueuedOnce, Queued
    <2>7. ASSUME NEW i \in Ids, pending'[i] # NoCall
          PROVE  /\ sent'[pending'[i]] <= attempts'[pending'[i]]
                 /\ attempts'[pending'[i]] <= Limit(pending'[i])
                 /\ Transmitting(i)' => sent'[pending'[i]] < attempts'[pending'[i]]
        <3>1. CASE i = id
            BY <1>1, <1>4, <2>2, <2>3, <2>5, <3>1
        <3>2. CASE i # id
            <4>1. pending'[i] = pending[i] /\ pending[i] # c /\ pending[i] \in Calls
                BY <2>2, <2>6, <2>7, <3>2 DEF Typed
            <4>2. ~ Transmitting(i)'
                BY <2>4, <3>2 DEF Transmitting
            <4>3. QED
                <5>1. /\ sent[pending[i]] <= attempts[pending[i]]
                      /\ attempts[pending[i]] <= Limit(pending[i])
                    BY <2>7, <4>1 DEF Paid
                <5>2. attempts'[pending'[i]] = attempts[pending[i]]
                    BY <2>3, <4>1
                <5>3. QED
                    BY <1>1, <4>1, <4>2, <5>1, <5>2
        <3>3. QED
            BY <3>1, <3>2
    <2>8. QED
        BY <1>1, <1>5, <2>1, <2>7 DEF Paid
<1>8. QED
    BY <1>6, <1>7

(* A retry is paid by one more attempt, which the policy still has.        *)
LEMMA TimeoutPaid ==
    ASSUME Typed, Books, Paid, TimeoutTick
    PROVE  Paid'
<1> DEFINE again == {id \in due : Retries(id)}
<1>1. sent' = sent /\ status' = status /\ queue' = queue /\ due \subseteq Ids /\ todo = <<>>
    BY DEF TimeoutTick, Typed, callVars, ghosts, Books, Rest
<1>2. \A id \in Ids : pending'[id] = IF id \in due \ again THEN NoCall ELSE pending[id]
    BY DEF TimeoutTick
<1>3. \A c \in Calls : attempts'[c] = IF \E id \in again : pending[id] = c THEN attempts[c] + 1
                                      ELSE attempts[c]
    BY DEF TimeoutTick, Retried
<1>4. ASSUME NEW id \in Ids, Transmitting(id)'
      PROVE  id \in again
    <2> DEFINE event(x) == IF x \in again THEN Transmit(x) ELSE TimedOut(x)
    <2>1. PICK order \in Orders(due) : todo' = [i \in DOMAIN order |-> event(order[i])]
        BY DEF TimeoutTick
    <2>2. \A i \in DOMAIN order : order[i] \in due
        BY DEF Orders
    <2>3. PICK i \in DOMAIN order : todo'[i].type = "transmit" /\ todo'[i].id = id
        BY <1>4, <2>1 DEF Transmitting
    <2>4. todo'[i] = event(order[i]) /\ order[i] \in Ids
        BY <1>1, <2>1, <2>2
    <2>5. CASE order[i] \in again
        BY <2>3, <2>4, <2>5, EventFields
    <2>6. CASE order[i] \notin again
        BY <2>3, <2>4, <2>6, EventFields
    <2>7. QED
        BY <2>5, <2>6
<1>5. ASSUME NEW id \in Ids, pending'[id] # NoCall
      PROVE  /\ sent'[pending'[id]] <= attempts'[pending'[id]]
             /\ attempts'[pending'[id]] <= Limit(pending'[id])
             /\ Transmitting(id)' => sent'[pending'[id]] < attempts'[pending'[id]]
    <2> DEFINE c == pending[id]
    <2>1. pending'[id] = c /\ c \in Calls /\ id \notin due \ again
        BY <1>2, <1>5 DEF Typed
    <2>2. /\ sent[c] \in Nat /\ attempts[c] \in Nat
          /\ sent[c] <= attempts[c] /\ attempts[c] <= Limit(c)
        BY <1>5, <2>1 DEF Typed, Paid
    <2>3. CASE id \in again
        <3>1. attempts'[c] = attempts[c] + 1
            BY <1>3, <2>1, <2>3
        <3>2. Limit(c) = MaxAttempts[c] /\ attempts[c] < MaxAttempts[c] /\ MaxAttempts[c] \in Nat
            BY <2>1, <2>3, CallAssumption DEF Retries, Limit
        <3>3. QED
            BY <1>1, <2>1, <2>2, <3>1, <3>2
    <2>4. CASE id \notin again
        <3>1. \A x \in again : pending[x] # c
            BY <1>1, <1>5, <2>1, <2>4 DEF Books, MapsAgree
        <3>2. attempts'[c] = attempts[c] /\ ~ Transmitting(id)'
            BY <1>3, <1>4, <2>1, <2>4, <3>1
        <3>3. QED
            BY <1>1, <2>1, <2>2, <3>2
    <2>5. QED
        BY <2>3, <2>4
<1>6. QED
    BY <1>1, <1>5 DEF Paid, Queued

(* The call whose frame is sent is pending, and has an attempt left.       *)
LEMMA SendingPaid ==
    ASSUME Typed, Books, Paid, todo # <<>>, CountSent
    PROVE  /\ \A c \in Calls : c # Sending => sent'[c] = sent[c]
           /\ Sending \in Calls =>
                 /\ Head(todo).type = "transmit" /\ Head(todo).id \in Ids
                 /\ pending[Head(todo).id] = Sending
                 /\ sent'[Sending] = sent[Sending] + 1
                 /\ sent'[Sending] <= attempts[Sending]
                 /\ attempts[Sending] <= Limit(Sending)
                 /\ status[Sending] = "waiting" /\ ~ Queued(Sending)
<1> DEFINE me == Head(todo).id
<1>1. \A c \in Calls : sent'[c] = IF c = Sending /\ sent[c] <= MaxAttempts[c] THEN sent[c] + 1
                                  ELSE sent[c]
    BY DEF CountSent
<1>2. ASSUME Sending \in Calls
      PROVE  /\ Head(todo).type = "transmit" /\ me \in Ids
             /\ pending[me] = Sending
             /\ sent'[Sending] = sent[Sending] + 1
             /\ sent'[Sending] <= attempts[Sending]
             /\ attempts[Sending] <= Limit(Sending)
             /\ status[Sending] = "waiting" /\ ~ Queued(Sending)
    <2>1. Head(todo).type = "transmit" /\ pending[me] = Sending
        BY <1>2, CallAssumption DEF Sending
    <2>2. me \in Ids
        <3>1. Head(todo) \in Events
            BY DEF Typed
        <3>2. QED
            BY <2>1, <3>1, EventTypes DEF OfCommand
    <2>3. Head(todo) = todo[1] /\ 1 \in DOMAIN todo
        BY TailPositions DEF Typed
    <2>4. Transmitting(me)
        BY <2>1, <2>3 DEF Transmitting
    <2>5. pending[me] # NoCall
        BY <1>2, <2>1, CallAssumption
    <2>6. sent[Sending] < attempts[Sending] /\ attempts[Sending] <= Limit(Sending)
        BY <2>1, <2>2, <2>4, <2>5 DEF Paid
    <2>7. /\ sent[Sending] \in Nat /\ attempts[Sending] \in Nat /\ MaxAttempts[Sending] \in Nat \ {0}
          /\ Limit(Sending) <= MaxAttempts[Sending] /\ Limit(Sending) \in Nat
        BY <1>2, CallAssumption DEF Typed, Limit
    <2>8. sent'[Sending] = sent[Sending] + 1 /\ sent'[Sending] <= attempts[Sending]
        BY <1>1, <1>2, <2>6, <2>7
    <2>9. responders[me] = Sending /\ IdOf[Sending] = me
        BY <2>1, <2>2, <2>5 DEF Books, MapsAgree
    <2>10. status[Sending] = "waiting" /\ ~ Queued(Sending)
        BY <1>2, <2>9 DEF Books, Waiting, QueuedOnce, Queued
    <2>11. QED
        BY <2>1, <2>2, <2>6, <2>8, <2>10
<1>3. QED
    BY <1>1, <1>2

(* A frame that was sent leaves todo.                                      *)
LEMMA WriteOkPaid ==
    ASSUME Typed, Books, Paid, WriteOk
    PROVE  Paid'
<1>1. /\ todo # <<>> /\ EventDone /\ CountSent /\ todo \in Seq(Events) /\ todo' = Tail(todo)
      /\ UNCHANGED <<pending, attempts, status, queue>>
    BY DEF WriteOk, Writes, Now, EventDone, callVars, Typed
<1>2. ASSUME NEW c \in Calls
      PROVE  /\ sent'[c] <= Limit(c)
             /\ status'[c] = "idle" \/ Queued(c)' => sent'[c] = 0
    <2>1. CASE c = Sending
        <3>1. /\ sent'[c] <= attempts[c] /\ attempts[c] <= Limit(c)
              /\ sent'[c] = sent[c] + 1 /\ status[c] = "waiting" /\ ~ Queued(c)
            BY <1>1, <2>1, SendingPaid
        <3>2. sent[c] \in Nat /\ attempts[c] \in Nat /\ Limit(c) \in Nat
            BY CallAssumption DEF Typed, Limit
        <3>3. QED
            BY <1>1, <3>1, <3>2 DEF Queued
    <2>2. CASE c # Sending
        BY <1>1, <2>2, SendingPaid DEF Paid, Queued
    <2>3. QED
        BY <2>1, <2>2
<1>3. ASSUME NEW id \in Ids, pending'[id] # NoCall
      PROVE  /\ sent'[pending'[id]] <= attempts'[pending'[id]]
             /\ attempts'[pending'[id]] <= Limit(pending'[id])
             /\ Transmitting(id)' => sent'[pending'[id]] < attempts'[pending'[id]]
    <2>1. pending'[id] = pending[id] /\ attempts' = attempts /\ pending[id] \in Calls
        BY <1>1, <1>3 DEF Typed
    <2>2. Transmitting(id)' =>
              Transmitting(id) /\ ~ (Head(todo).type = "transmit" /\ Head(todo).id = id)
        <3> SUFFICES ASSUME NEW i \in DOMAIN Tail(todo), Tail(todo)[i].type = "transmit",
                            Tail(todo)[i].id = id
                     PROVE  /\ Transmitting(id)
                            /\ ~ (Head(todo).type = "transmit" /\ Head(todo).id = id)
            BY <1>1 DEF Transmitting
        <3>1. i + 1 \in DOMAIN todo /\ todo[i + 1] = Tail(todo)[i] /\ i + 1 # 1
            BY <1>1, TailPositions
        <3>2. Head(todo) = todo[1] /\ 1 \in DOMAIN todo
            BY <1>1, TailPositions
        <3>3. Transmitting(id)
            BY <3>1 DEF Transmitting
        <3>4. ~ (Head(todo).type = "transmit" /\ Head(todo).id = id)
            BY <3>1, <3>2 DEF Books, TodoApplies, OfCommand
        <3>5. QED
            BY <3>3, <3>4
    <2>3. CASE pending[id] = Sending
        <3>1. /\ Head(todo).type = "transmit" /\ Head(todo).id \in Ids
              /\ pending[Head(todo).id] = pending[id]
              /\ sent'[pending[id]] <= attempts[pending[id]]
              /\ attempts[pending[id]] <= Limit(pending[id])
            BY <1>1, <2>1, <2>3, SendingPaid
        <3>2. Head(todo).id = id
            BY <1>3, <2>1, <3>1 DEF Books, MapsAgree
        <3>3. QED
            BY <2>1, <2>2, <3>1, <3>2
    <2>4. CASE pending[id] # Sending
        <3>1. sent'[pending[id]] = sent[pending[id]]
            BY <1>1, <2>1, <2>4, SendingPaid
        <3>2. QED
            BY <1>3, <2>1, <2>2, <3>1 DEF Paid
    <2>5. QED
        BY <2>3, <2>4
<1>4. QED
    BY <1>2, <1>3 DEF Paid

(* No step spends what is not paid.                                        *)
LEMMA NextPaid == Typed /\ Books /\ Paid /\ [Next]_vars => Paid'
<1> SUFFICES ASSUME Typed, Books, Paid, [Next]_vars PROVE Paid'
    OBVIOUS
<1>1. ASSUME NEW c \in Calls, Call(c) PROVE Paid'
    <2>1. UNCHANGED <<sent, attempts, pending, todo>>
        BY <1>1 DEF Call, taskVars, ghosts
    <2>2. \A d \in Calls : d # c => status'[d] = status[d]
        BY <1>1 DEF Call, Typed
    <2>3. \A d \in Calls : Queued(d)' => Queued(d) \/ d = c
        <3>1. queue' = queue \/ queue' = Append(queue, c)
            BY <1>1 DEF Call
        <3>2. QED
            <4>1. CASE queue' = queue
                BY <4>1 DEF Queued
            <4>2. CASE queue' = Append(queue, c)
                <5>1. \A i \in DOMAIN queue' :
                         (i \in DOMAIN queue /\ queue'[i] = queue[i]) \/ queue'[i] = c
                    BY <4>2 DEF Typed
                <5>2. QED
                    BY <5>1 DEF Queued
            <4>3. QED
                BY <3>1, <4>1, <4>2
    <2>4. \A d \in Calls : (status'[d] = "idle" \/ Queued(d)') => (status[d] = "idle" \/ Queued(d))
        BY <1>1, <2>2, <2>3 DEF Call
    <2>5. QED
        BY <2>1, <2>4, KeptPaid DEF Transmitting
<1>2. CASE Stop \/ GrowSilent \/ Connect \/ ConnectOk
    BY <1>2, KeptPaid
       DEF Stop, GrowSilent, Connect, ConnectOk, taskVars, deviceVars, callVars, ghosts, Queued,
           Transmitting
<1>3. CASE ConnectFails \/ ReadFails \/ StopSeen \/ HeartbeatTimedOut \/ EncodeFails
    <2>1. PICK failing : DropConnection(failing) /\ queue' = queue /\ sent' = sent
        BY <1>3 DEF ConnectFails, ReadFails, StopSeen, HeartbeatTimedOut, EncodeFails,
                    LoseConnection, ghosts
    <2>2. QED
        BY <2>1, DropPaid DEF Paid
<1>4. CASE WriteFails
    <2>1. /\ DropConnection(cause) /\ queue' = queue /\ todo # <<>> /\ CountSent
        BY <1>4 DEF WriteFails, LoseConnection, Writes, Now
    <2>2. ASSUME NEW c \in Calls
          PROVE  /\ sent'[c] <= Limit(c)
                 /\ (status[c] = "idle" \/ Queued(c)) => sent'[c] = sent[c]
        <3>1. CASE c = Sending
            <4>1. /\ sent'[c] = sent[c] + 1 /\ sent'[c] <= attempts[c] /\ attempts[c] <= Limit(c)
                  /\ status[c] = "waiting" /\ ~ Queued(c)
                BY <2>1, <3>1, SendingPaid
            <4>2. sent[c] \in Nat /\ attempts[c] \in Nat /\ Limit(c) \in Nat
                BY CallAssumption DEF Typed, Limit
            <4>3. QED
                BY <4>1, <4>2
        <3>2. CASE c # Sending
            BY <2>1, <3>2, SendingPaid DEF Paid
        <3>3. QED
            BY <3>1, <3>2
    <2>3. QED
        BY <2>1, <2>2, DropPaid
<1>5. CASE End
    <2>1. UNCHANGED <<sent, attempts, pending, todo>> /\ queue' = <<>>
        BY <1>5 DEF End, ghosts
    <2>2. \A c \in Calls : status'[c] = "idle" => status[c] = "idle"
        BY <1>5 DEF End
    <2>3. QED
        BY <2>1, <2>2, KeptPaid DEF Transmitting, Queued
<1>6. CASE Accept
    BY <1>6, AcceptPaid
<1>7. CASE TimeoutTick
    BY <1>7, TimeoutPaid
<1>8. CASE HeartbeatTick
    <2>1. UNCHANGED <<sent, attempts, pending, status, queue>>
        BY <1>8 DEF HeartbeatTick, callVars, ghosts
    <2>2. \A i \in DOMAIN todo' : todo'[i].type # "transmit"
        BY <1>8, HeartbeatEvents, EventFields
    <2>3. QED
        BY <2>1, <2>2, KeptPaid DEF Transmitting, Queued
<1>9. ASSUME NEW n \in 1 .. Len(wire), Read(n) PROVE Paid'
    BY <1>9, KeptPaid DEF Read, callVars, ghosts, Queued, Transmitting
<1>10. CASE HandleFrame
    <2>1. UNCHANGED <<sent, attempts, status, queue>>
        BY <1>10 DEF HandleFrame, callVars, ghosts
    <2>2. \A id \in Ids : pending'[id] # NoCall => pending'[id] = pending[id]
        BY <1>10 DEF HandleFrame, Typed
    <2>3. Head(buffer) \in Frames
        BY <1>10 DEF HandleFrame, Typed
    <2>4. \/ todo' \in {<<>>, <<Ack>>, <<Log>>}
          \/ Head(buffer).id \in Ids /\ todo' = <<Succeeded(Head(buffer).id)>>
        BY <1>10, <2>3, FrameTypes DEF HandleFrame
    <2>5. \A id \in Ids : ~ Transmitting(id)'
        <3> SUFFICES ASSUME NEW i \in DOMAIN todo' PROVE todo'[i].type # "transmit"
            BY DEF Transmitting
        <3>1. \/ todo'[i] = Ack \/ todo'[i] = Log
              \/ Head(buffer).id \in Ids /\ todo'[i] = Succeeded(Head(buffer).id)
            BY <2>4
        <3>2. QED
            <4>1. CASE todo'[i] = Ack \/ todo'[i] = Log
                <5>1. Ack.type # "transmit" /\ Log.type # "transmit"
                    BY DEF Ack, Log
                <5>2. QED
                    BY <4>1, <5>1
            <4>2. CASE Head(buffer).id \in Ids /\ todo'[i] = Succeeded(Head(buffer).id)
                BY <4>2 DEF Succeeded
            <4>3. QED
                BY <3>1, <4>1, <4>2
    <2>6. QED
        BY <2>1, <2>2, <2>5, KeptPaid DEF Queued
<1>11. CASE WriteOk
    BY <1>11, WriteOkPaid
<1>12. CASE LogEvent \/ CommandSucceeded \/ CommandTimedOut
    <2>1. UNCHANGED <<sent, attempts, pending, queue>> /\ todo \in Seq(Events) /\ todo # <<>>
          /\ todo' = Tail(todo)
        BY <1>12 DEF LogEvent, CommandSucceeded, CommandTimedOut, Complete, Now, EventDone,
                     callVars, ghosts, Typed
    <2>2. \A c \in Calls : status'[c] = "idle" => status[c] = "idle"
        BY <1>12 DEF LogEvent, CommandSucceeded, CommandTimedOut, Complete, callVars
    <2>3. \A id \in Ids : Transmitting(id)' => Transmitting(id)
        BY <2>1, TailPositions DEF Transmitting
    <2>4. QED
        BY <2>1, <2>2, <2>3, KeptPaid DEF Queued
<1>13. ASSUME NEW id \in Ids, Expire(id) PROVE Paid'
    BY <1>13, KeptPaid DEF Expire, callVars, ghosts, Queued, Transmitting
<1>14. ASSUME NEW f \in Frames, DeviceSends(f) PROVE Paid'
    BY <1>14, KeptPaid DEF DeviceSends, taskVars, callVars, ghosts, Queued, Transmitting
<1>15. ASSUME NEW how \in {"closed", "vanished"}, DeviceEnds(how) PROVE Paid'
    BY <1>15, KeptPaid DEF DeviceEnds, taskVars, callVars, ghosts, Queued, Transmitting
<1>16. CASE UNCHANGED vars
    BY <1>16, KeptPaid DEF vars, taskVars, deviceVars, callVars, ghosts, Queued, Transmitting
<1>17. QED
    BY <1>1, <1>2, <1>3, <1>4, <1>5, <1>6, <1>7, <1>8, <1>9, <1>10, <1>11, <1>12, <1>13,
       <1>14, <1>15, <1>16 DEF Next, Task

-----------------------------------------------------------------------------
\* CommandResult events are counted as the callers were told.

(* No call comes to an answer or a timeout, and no event is published.     *)
LEMMA KeptCounted ==
    ASSUME Counted, results' = results,
           \A c \in Calls : (status'[c] = "ok" <=> status[c] = "ok")
                            /\ (status'[c] = "timeout" <=> status[c] = "timeout")
    PROVE  Counted'
<1>1. \A id \in Ids : Came(id, "ok")' = Came(id, "ok") /\ Came(id, "timeout")' = Came(id, "timeout")
    BY DEF Came
<1>2. QED
    BY <1>1 DEF Counted, ResultsMatch, Ended, Came

(* One more call came to the outcome, and one more event says so.          *)
LEMMA CompleteCounted ==
    ASSUME Typed, Books, Counted, at = "events", todo # <<>>, Head(todo).type \in Answers,
           NEW outcome \in {"ok", "timeout"}, Complete(outcome)
    PROVE  Counted'
<1> DEFINE me == Head(todo).id
           c0 == responders[me]
           ok == outcome = "ok"
<1>1. me \in Ids /\ c0 \in Calls /\ IdOf[c0] = me /\ status[c0] = "waiting"
    <2>1. Head(todo) = todo[1] /\ 1 \in DOMAIN todo /\ Head(todo) \in Events
        BY TailPositions DEF Typed
    <2>2. me \in Ids
        BY <2>1, EventTypes, EventFields
    <2>3. c0 # NoCall
        BY <2>1 DEF Books, TodoApplies
    <2>4. c0 \in Calls /\ IdOf[c0] = me
        BY <2>2, <2>3 DEF Books, MapsAgree, Typed
    <2>5. QED
        BY <2>2, <2>4 DEF Books, Waiting
<1>2. \A c \in Calls : status'[c] = IF c = c0 THEN outcome ELSE status[c]
    BY DEF Complete
<1>3. results' = [results EXCEPT ![<<me, ok>>] = results[<<me, ok>>] + 1]
    BY DEF Complete, Published
<1> HIDE DEF me, c0
<1>4. ASSUME NEW id \in Ids, NEW o \in {"ok", "timeout"}
      PROVE  /\ IsFiniteSet(Came(id, o)')
             /\ results'[<<id, o = "ok">>] = Cardinality(Came(id, o)')
    <2>1. /\ IsFiniteSet(Came(id, o)) /\ results[<<id, o = "ok">>] = Cardinality(Came(id, o))
          /\ <<id, o = "ok">> \in Ids \X BOOLEAN
        BY DEF Counted, ResultsMatch, Ended, Came
    <2>2. CASE id = me /\ o = outcome
        <3>1. Came(id, o)' = Came(id, o) \cup {c0} /\ c0 \notin Came(id, o)
            BY <1>1, <1>2, <2>2 DEF Came
        <3>2. results'[<<id, o = "ok">>] = results[<<id, o = "ok">>] + 1
            BY <1>3, <2>1, <2>2 DEF Typed
        <3>3. QED
            BY <2>1, <3>1, <3>2, FS_AddElement
    <2>3. CASE ~ (id = me /\ o = outcome)
        <3>1. Came(id, o)' = Came(id, o)
            BY <1>1, <1>2, <2>3 DEF Came
        <3>2. <<id, o = "ok">> # <<me, ok>>
            BY <2>3
        <3>3. results'[<<id, o = "ok">>] = results[<<id, o = "ok">>]
            BY <1>3, <2>1, <3>2 DEF Typed
        <3>4. QED
            BY <2>1, <3>1, <3>3
    <2>4. QED
        BY <2>2, <2>3
<1>5. ASSUME NEW id \in Ids
      PROVE  /\ IsFiniteSet(Came(id, "ok")') /\ IsFiniteSet(Came(id, "timeout")')
             /\ results'[<<id, TRUE>>] = Cardinality(Came(id, "ok")')
             /\ results'[<<id, FALSE>>] = Cardinality(Came(id, "timeout")')
    <2>1. ("ok" = "ok") = TRUE /\ ("timeout" = "ok") = FALSE
        OBVIOUS
    <2>2. QED
        BY <1>4, <2>1
<1>6. QED
    BY <1>5 DEF Counted, ResultsMatch, Ended, Came

(* No step breaks the count.                                               *)
LEMMA NextCounted == Typed /\ Books /\ Counted /\ [Next]_vars => Counted'
<1> SUFFICES ASSUME Typed, Books, Counted, [Next]_vars PROVE Counted'
    OBVIOUS
<1>1. ASSUME NEW c \in Calls, Call(c) PROVE Counted'
    <2>1. \A d \in Calls : status'[d] = status[d]
                           \/ (status[d] = "idle" /\ status'[d] \in {"waiting", "closed"})
        BY <1>1 DEF Call, Typed
    <2>2. QED
        BY <1>1, <2>1, KeptCounted DEF Call, ghosts
<1>2. CASE CommandSucceeded
    BY <1>2, CompleteCounted DEF CommandSucceeded, Now, Answers
<1>3. CASE CommandTimedOut
    BY <1>3, CompleteCounted DEF CommandTimedOut, Now, Answers
<1>4. CASE ConnectFails \/ ReadFails \/ StopSeen \/ HeartbeatTimedOut \/ WriteFails \/ EncodeFails
    <2>1. PICK failing : DropConnection(failing) /\ results' = results
        BY <1>4 DEF ConnectFails, ReadFails, StopSeen, HeartbeatTimedOut, WriteFails, EncodeFails,
                    LoseConnection, ghosts
    <2>2. \A c \in Calls : status'[c] = status[c]
                           \/ (status[c] = "waiting" /\ status'[c] \in {"failed", "closed"})
        BY <2>1, DropStatus
    <2>3. QED
        BY <2>1, <2>2, KeptCounted
<1>5. CASE End
    <2>1. results' = results
        BY <1>5 DEF End, ghosts
    <2>2. \A c \in Calls : Queued(c) => status[c] = "waiting"
        BY DEF Books, Waiting
    <2>3. \A c \in Calls : status'[c] = status[c]
                           \/ (status[c] = "waiting" /\ status'[c] = "closed")
        BY <1>5, <2>2 DEF End, Queued
    <2>4. QED
        BY <2>1, <2>3, KeptCounted
<1>6. CASE Accept
    <2> DEFINE c == Head(queue)
    <2>1. c \in Calls /\ c = queue[1] /\ 1 \in DOMAIN queue /\ results' = results
        BY <1>6, TailPositions DEF Accept, Typed, ghosts
    <2>2. status[c] = "waiting"
        BY <2>1 DEF Books, Waiting, Queued
    <2>3. status' = status \/ status' = [status EXCEPT ![c] = "busy"]
        BY <1>6 DEF Accept
    <2> HIDE DEF c
    <2>4. \A d \in Calls : status'[d] = status[d]
                           \/ (status[d] = "waiting" /\ status'[d] = "busy")
        BY <2>1, <2>2, <2>3 DEF Typed
    <2>5. QED
        BY <2>1, <2>4, KeptCounted
<1>7. ASSUME UNCHANGED <<status, results>> PROVE Counted'
    BY <1>7, KeptCounted
<1>8. CASE Stop \/ GrowSilent \/ Connect \/ ConnectOk
    BY <1>7, <1>8 DEF Stop, GrowSilent, Connect, ConnectOk, callVars, ghosts
<1>9. CASE HeartbeatTick \/ TimeoutTick \/ HandleFrame \/ WriteOk \/ LogEvent
    BY <1>7, <1>9 DEF HeartbeatTick, TimeoutTick, HandleFrame, WriteOk, LogEvent, callVars, ghosts
<1>10. ASSUME NEW n \in 1 .. Len(wire), Read(n) PROVE Counted'
    BY <1>7, <1>10 DEF Read, callVars, ghosts
<1>11. ASSUME NEW id \in Ids, Expire(id) PROVE Counted'
    BY <1>7, <1>11 DEF Expire, callVars, ghosts
<1>12. ASSUME NEW f \in Frames, DeviceSends(f) PROVE Counted'
    BY <1>7, <1>12 DEF DeviceSends, callVars, ghosts
<1>13. ASSUME NEW how \in {"closed", "vanished"}, DeviceEnds(how) PROVE Counted'
    BY <1>7, <1>13 DEF DeviceEnds, callVars, ghosts
<1>14. CASE UNCHANGED vars
    BY <1>7, <1>14 DEF vars, callVars, ghosts
<1>15. QED
    BY <1>1, <1>2, <1>3, <1>4, <1>5, <1>6, <1>8, <1>9, <1>10, <1>11, <1>12, <1>13, <1>14
       DEF Next, Task

-----------------------------------------------------------------------------

(* A new session has nothing in any book.                                  *)
LEMMA InitIInv == Init => IInv
<1> SUFFICES ASSUME Init PROVE IInv
    OBVIOUS
<1>1. TypeOK
    BY InitType
<1>2. Rest /\ MapsAgree /\ TodoApplies /\ Answered
    BY FS_EmptySet DEF Init, Rest, MapsAgree, TodoApplies, Answered, None
<1>3. QueuedOnce /\ Waiting
    BY CallAssumption DEF Init, QueuedOnce, Waiting, Queued, None
<1>4. Paid
    BY CallAssumption DEF Init, Paid, Limit, None, Queued
<1>5. Counted
    <2>1. \A id \in Ids : Came(id, "ok") = {} /\ Came(id, "timeout") = {}
        BY DEF Init, Came
    <2>2. \A id \in Ids : results[<<id, TRUE>>] = 0 /\ results[<<id, FALSE>>] = 0
        BY DEF Init
    <2>3. QED
        BY <2>1, <2>2, FS_EmptySet DEF Counted, ResultsMatch, Ended, Came
<1>6. QED
    BY <1>1, <1>2, <1>3, <1>4, <1>5 DEF IInv, Books

(* The strengthened invariant is inductive.                                *)
LEMMA NextIInv == IInv /\ [Next]_vars => IInv'
<1> SUFFICES ASSUME IInv, [Next]_vars PROVE IInv'
    OBVIOUS
<1>1. Typed /\ Books /\ Paid /\ Counted /\ TypeOK
    BY TypedIsTypeOK DEF IInv
<1>2. TypeOK'
    BY <1>1, NextType DEF Books
<1>3. Books' /\ Paid' /\ Counted'
    BY <1>1, NextBooks, NextPaid, NextCounted
<1>4. QED
    BY <1>2, <1>3 DEF IInv

(* It holds in every state of every behaviour.                             *)
LEMMA AlwaysIInv == Spec => []IInv
BY InitIInv, NextIInv, PTL DEF Spec

(* For any calls, request ids, retry policies, queue and wire capacities:  *)
(* a caller waits exactly while its command is queued or has a responder,  *)
(* every responder has a deadline in the core or is about to be answered,  *)
(* and a session that has ended leaves nobody waiting.                     *)
THEOREM NobodyIsForgotten == Spec => []NobodyForgotten
<1>1. IInv => NobodyForgotten
    <2> SUFFICES ASSUME IInv PROVE NobodyForgotten
        OBVIOUS
    <2>1. ASSUME at = "done", NEW c \in Calls PROVE status[c] # "waiting"
        <3>1. queue = <<>> /\ responders[IdOf[c]] = NoCall /\ c # NoCall
            BY <2>1, CallAssumption DEF IInv, Books, Rest, None
        <3>2. QED
            BY <3>1 DEF IInv, Books, Waiting, Queued
    <2>2. QED
        BY <2>1 DEF IInv, Books, Waiting, MapsAgree, Answered, NobodyForgotten
<1>2. QED
    BY <1>1, AlwaysIInv, PTL

(* A command is sent at most as often as its policy allows, and one that   *)
(* is not idempotent at most once, over any number of connections; and a   *)
(* frame is only ever about to be sent of a command whose call still       *)
(* waits: none is sent again after its answer.                             *)
THEOREM PolicyKept == Spec => []SentWithinPolicy
<1>1. IInv => SentWithinPolicy
    <2> SUFFICES ASSUME IInv PROVE SentWithinPolicy
        OBVIOUS
    <2>1. \A c \in Calls : sent[c] <= IF c \in Idempotent THEN MaxAttempts[c] ELSE 1
        BY DEF IInv, Paid, Limit
    <2>2. ASSUME NEW i \in DOMAIN todo, todo[i].type = "transmit"
          PROVE  pending[todo[i].id] # NoCall /\ status[pending[todo[i].id]] = "waiting"
        <3>1. PICK id : id = todo[i].id
            OBVIOUS
        <3>2. todo[i] \in Events
            BY DEF IInv, TypeOK
        <3>3. id \in Ids
            BY <2>2, <3>1, <3>2, EventTypes DEF OfCommand
        <3>4. pending[id] # NoCall /\ pending[id] \in Calls \cup {NoCall}
            BY <2>2, <3>1, <3>3 DEF IInv, TypeOK, Books, TodoApplies
        <3>5. responders[IdOf[pending[id]]] = pending[id]
            BY <3>3, <3>4 DEF IInv, Books, MapsAgree
        <3>6. status[pending[id]] = "waiting"
            BY <3>4, <3>5 DEF IInv, Books, Waiting
        <3>7. QED
            BY <3>1, <3>4, <3>6
    <2>3. QED
        BY <2>1, <2>2 DEF SentWithinPolicy
<1>2. QED
    BY <1>1, AlwaysIInv, PTL

(* There is exactly one CommandResult for every call that was answered or  *)
(* timed out, with that outcome, and none for any other call.              *)
THEOREM ResultsTrue == Spec => []ResultsMatch
<1>1. IInv => ResultsMatch
    BY DEF IInv, Counted
<1>2. QED
    BY <1>1, AlwaysIInv, PTL
=============================================================================

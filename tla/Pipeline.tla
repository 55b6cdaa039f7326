------------------------------ MODULE Pipeline ------------------------------
(***************************************************************************)
(* The way of samples and events into the database (collector_service.rs,  *)
(* db/retry.rs, db/writer.rs):                                             *)
(*                                                                         *)
(*   raw bus --> run_filtered_event_forwarder --> processed bus            *)
(*     --> run_persistence_forwarder --> queue --> writer --> database     *)
(*            |                                                            *)
(*            +--> run_alarm_forwarder --> alarms, on the processed bus    *)
(*                                                                         *)
(* The processed bus is the sequence of its messages so far and one place  *)
(* per reader; a reader more than BusCap messages behind is told how many  *)
(* it missed; the raw bus has one reader here, which counts nothing.  The  *)
(* queue makes its sender wait.  The writer collects samples in a batch,   *)
(* writes an event by itself behind them, and repeats a failed write until *)
(* it succeeds.  A write may commit without the writer hearing of it, and  *)
(* one that timed out may commit much later.  The collector may exit and   *)
(* start again.  Whether PgSink has to connect first is part of the write; *)
(* the retry delay is any time.                                            *)
(***************************************************************************)
EXTENDS Integers, FiniteSets, Broadcast, Functions

CONSTANTS
    BusCap,         \* bus_capacity
    QueueCap,       \* DB_CMD_CHANNEL_CAPACITY
    BatchSize,      \* TELEMETRY_BATCH_SIZE
    MaxStage,       \* bound on the messages of the processed bus
    MaxRuns,        \* bound on the runs of the collector
    MaxRows         \* bound on the rows, counting repetitions

ASSUME PipelineAssumption ==
    {BusCap, QueueCap, BatchSize, MaxStage, MaxRuns, MaxRows} \subseteq Nat \ {0}

VARIABLES
    rawQ,       \* the filter's receiver of the raw bus
    stage,      \* the processed bus's messages
    alarmAt,    \* what the alarm forwarder reads next
    judging,    \* the sample it judges
    persistAt,  \* what the persistence forwarder reads next
    holding,    \* the message it waits to put into the queue
    dbDrop,     \* db_drop
    queue,      \* positions in stage, on their way to the writer
    batch,      \* telemetry_batch
    pending,    \* the batches the writer has to write before it selects again
    backoff,    \* the writer sleeps after an error
    up,         \* the database serves the collector
    stray,      \* batches of writes that timed out and still run
    table,      \* the database: positions in the order they were committed
    starts      \* the length of stage when each run of the collector began

vars == <<rawQ, stage, alarmAt, judging, persistAt, holding, dbDrop, queue,
          batch, pending, backoff, up, stray, table, starts>>

busVars    == <<rawQ, stage, starts>>
alarmVars  == <<alarmAt, judging>>
feedVars   == <<persistAt, holding, dbDrop>>
writerVars == <<batch, pending, backoff>>
dbVars     == <<up, stray, table>>

\* invalid: an id PostgreSQL has no room for; other: neither sample nor event.
Kinds    == {"sample", "invalid", "event", "other"}
Messages == [kind : Kinds, cause : Nat]

\* What the persistence forwarder should bring to the database.
Wanted(m) == m.kind # "other"

Began == starts[Len(starts)]

-----------------------------------------------------------------------------
(* Readers of the processed bus. *)

Behind(at)   == at + BusCap <= Len(stage)
Readable(at) == at <= Len(stage) /\ ~Behind(at)
Oldest       == Len(stage) - BusCap + 1

\* The bound on the messages, those of the raw bus included.
MayPublish == Len(stage) + Len(rawQ.queue) < MaxStage

-----------------------------------------------------------------------------

Init ==
    /\ rawQ = EmptyChannel /\ stage = <<>>
    /\ alarmAt = 1 /\ persistAt = 1
    /\ judging = {} /\ holding = {}
    /\ dbDrop = 0
    /\ queue = <<>> /\ batch = <<>> /\ pending = <<>> /\ backoff = FALSE
    /\ up \in BOOLEAN /\ stray = {} /\ table = <<>>
    /\ starts = <<0>>

\* Ingress publishes on the raw bus.
PublishRaw(kind) ==
    /\ MayPublish
    /\ rawQ' = Sent(rawQ, BusCap, kind)
    /\ UNCHANGED <<stage, starts, alarmVars, feedVars, queue, writerVars, dbVars>>

\* run_filtered_event_forwarder discards samples that are not finite.
Filter ==
    /\ HasMessage(rawQ)
    /\ rawQ' = Received(rawQ)
    /\ stage' = IF Head(rawQ.queue) = "nonfinite" THEN stage
                ELSE Append(stage, [kind |-> Head(rawQ.queue), cause |-> 0])
    /\ UNCHANGED <<starts, alarmVars, feedVars, queue, writerVars, dbVars>>

FilterLagged ==
    /\ rawQ.lagged
    /\ rawQ' = LagReported(rawQ)
    /\ UNCHANGED <<stage, starts, alarmVars, feedVars, queue, writerVars, dbVars>>

\* run_alarm_forwarder takes a message; a sample is judged.
AlarmReceive ==
    /\ judging = {} /\ Readable(alarmAt)
    /\ alarmAt' = alarmAt + 1
    /\ judging' = IF stage[alarmAt].kind \in {"sample", "invalid"} THEN {alarmAt} ELSE {}
    /\ UNCHANGED <<busVars, feedVars, queue, writerVars, dbVars>>

AlarmLagged ==
    /\ judging = {} /\ Behind(alarmAt)
    /\ alarmAt' = Oldest
    /\ UNCHANGED <<busVars, judging, feedVars, queue, writerVars, dbVars>>

\* evaluate_sample publishes a raise or a clear.
RaiseAlarm ==
    /\ MayPublish
    /\ \E p \in judging : stage' = Append(stage, [kind |-> "event", cause |-> p])
    /\ UNCHANGED <<rawQ, starts, alarmVars, feedVars, queue, writerVars, dbVars>>

Judged ==
    /\ judging # {} /\ judging' = {}
    /\ UNCHANGED <<busVars, alarmAt, feedVars, queue, writerVars, dbVars>>

\* run_persistence_forwarder takes a message.
PersistReceive ==
    /\ holding = {} /\ Readable(persistAt)
    /\ persistAt' = persistAt + 1
    /\ holding' = IF stage[persistAt].kind \in {"sample", "event"} THEN {persistAt} ELSE {}
    /\ dbDrop' = IF stage[persistAt].kind = "invalid" THEN dbDrop + 1 ELSE dbDrop
    /\ UNCHANGED <<busVars, alarmVars, queue, writerVars, dbVars>>

\* Mutant: one counted per lag, not one per message.
PersistLaggedOnce ==
    /\ holding = {} /\ Behind(persistAt)
    /\ persistAt' = Oldest
    /\ dbDrop' = dbDrop + 1
    /\ UNCHANGED <<busVars, alarmVars, holding, queue, writerVars, dbVars>>

PersistLagged ==
    /\ holding = {} /\ Behind(persistAt)
    /\ persistAt' = Oldest
    /\ dbDrop' = dbDrop + (persistAt' - persistAt)
    /\ UNCHANGED <<busVars, alarmVars, holding, queue, writerVars, dbVars>>

\* Its send waits for room in the queue.
Enqueue ==
    /\ holding # {} /\ Len(queue) < QueueCap
    /\ \E p \in holding : queue' = Append(queue, p)
    /\ holding' = {}
    /\ UNCHANGED <<busVars, alarmVars, persistAt, dbDrop, writerVars, dbVars>>

-----------------------------------------------------------------------------
(* The writer (start_pg_writer) and the database. *)

Selecting == pending = <<>>

BatchFull(b) == Len(b) >= BatchSize

\* flush_db_telemetry_batch: nothing to write when the batch is empty.
Flushed(b) == IF b = <<>> THEN <<>> ELSE <<b>>

\* Mutant: an event overtakes the samples before it.
TakenUnordered(p) ==
    IF stage[p].kind = "sample"
    THEN LET b == Append(batch, p)
         IN  IF BatchFull(b) THEN [batch |-> <<>>, pending |-> Flushed(b)]
             ELSE [batch |-> b, pending |-> <<>>]
    ELSE [batch |-> batch, pending |-> << <<p>> >>]

\* What the writer does with a command: a sample joins the batch, an event is
\* written behind it.
Taken(p) ==
    IF stage[p].kind = "sample"
    THEN LET b == Append(batch, p)
         IN  IF BatchFull(b) THEN [batch |-> <<>>, pending |-> Flushed(b)]
             ELSE [batch |-> b, pending |-> <<>>]
    ELSE [batch |-> <<>>, pending |-> Flushed(batch) \o << <<p>> >>]

WriterReceive ==
    /\ Selecting /\ queue # <<>>
    /\ queue' = Tail(queue)
    /\ batch' = Taken(Head(queue)).batch
    /\ pending' = Taken(Head(queue)).pending
    /\ UNCHANGED <<busVars, alarmVars, feedVars, backoff, dbVars>>

\* Mutant: the tick only flushes full batches.
FlushTickFull ==
    /\ Selecting /\ BatchFull(batch)
    /\ pending' = Flushed(batch)
    /\ batch' = <<>>
    /\ UNCHANGED <<busVars, alarmVars, feedVars, queue, backoff, dbVars>>

\* Mutant: the batch is written and not emptied.
FlushTickKeeping ==
    /\ Selecting /\ batch # <<>>
    /\ pending' = Flushed(batch)
    /\ UNCHANGED <<busVars, alarmVars, feedVars, queue, batch, backoff, dbVars>>

FlushTick ==
    /\ Selecting /\ batch # <<>>
    /\ pending' = Flushed(batch)
    /\ batch' = <<>>
    /\ UNCHANGED <<busVars, alarmVars, feedVars, queue, backoff, dbVars>>

Writing == pending # <<>> /\ ~backoff

\* The write commits and its answer arrives.
WriteOk ==
    /\ Writing /\ up
    /\ table' = table \o Head(pending)
    /\ pending' = Tail(pending)
    /\ UNCHANGED <<busVars, alarmVars, feedVars, queue, batch, backoff, up, stray>>

\* Rows may be repeated as long as the bound allows.
Room(b) == Len(table) + Len(b) <= MaxRows

\* The write fails: without an effect, after a commit whose answer is lost, or
\* by the timeout while the statement still runs.  retry_write keeps the batch
\* and sleeps.
WriteFails ==
    /\ Writing /\ ~up
    /\ \/ UNCHANGED <<table, stray>>
       \/ Room(Head(pending)) /\ table' = table \o Head(pending) /\ UNCHANGED stray
       \/ stray' = stray \cup {Head(pending)} /\ UNCHANGED table
    /\ backoff' = TRUE
    /\ UNCHANGED <<busVars, alarmVars, feedVars, queue, batch, pending, up>>

BackoffEnds ==
    /\ backoff /\ backoff' = FALSE
    /\ UNCHANGED <<busVars, alarmVars, feedVars, queue, batch, pending, dbVars>>

\* A statement that timed out commits or is cancelled.
StrayEnds ==
    /\ \E b \in stray :
          /\ stray' = stray \ {b}
          /\ \/ UNCHANGED table
             \/ Room(b) /\ table' = table \o b
    /\ UNCHANGED <<busVars, alarmVars, feedVars, queue, writerVars, up>>

DatabaseTurns ==
    /\ up' = ~up
    /\ UNCHANGED <<busVars, alarmVars, feedVars, queue, writerVars, stray, table>>

\* The process exits and starts again; a write under way may still commit.
Restart ==
    /\ Len(starts) < MaxRuns
    /\ starts' = Append(starts, Len(stage))
    /\ rawQ' = EmptyChannel /\ alarmAt' = Len(stage) + 1 /\ persistAt' = Len(stage) + 1
    /\ judging' = {} /\ holding' = {} /\ dbDrop' = 0
    /\ queue' = <<>> /\ batch' = <<>> /\ pending' = <<>> /\ backoff' = FALSE
    /\ \/ UNCHANGED stray
       \/ Writing /\ stray' = stray \cup {Head(pending)}
    /\ UNCHANGED <<stage, up, table>>

Next ==
    \/ \E kind \in Kinds \cup {"nonfinite"} : PublishRaw(kind)
    \/ Filter \/ FilterLagged
    \/ AlarmReceive \/ AlarmLagged \/ RaiseAlarm \/ Judged
    \/ PersistReceive \/ PersistLagged \/ Enqueue
    \/ WriterReceive \/ FlushTick \/ WriteOk \/ WriteFails \/ BackoffEnds
    \/ StrayEnds \/ DatabaseTurns \/ Restart

Spec == Init /\ [][Next]_vars

(* The tasks run.  Receiving and the flush tick compete in one select, so  *)
(* each needs strong fairness.  Nothing makes the database come back.      *)
Fairness ==
    /\ WF_vars(PersistReceive \/ PersistLagged \/ Enqueue)
    /\ SF_vars(WriterReceive) /\ SF_vars(FlushTick)
    /\ WF_vars(WriteOk) /\ WF_vars(BackoffEnds)

FairSpec == Spec /\ Fairness

-----------------------------------------------------------------------------

\* What the persistence forwarder and the writer hold.
InMemory ==
    holding \cup Range(queue) \cup Range(batch)
        \cup UNION {Range(pending[i]) : i \in DOMAIN pending}

Lost ==
    {p \in 1 .. persistAt - 1 : Wanted(stage[p])} \ (InMemory \cup Range(table))

Positions == 1 .. Len(stage)

TypeOK ==
    /\ rawQ \in Receivers(Kinds \cup {"nonfinite"}, BusCap) /\ stage \in Seq(Messages)
    /\ {alarmAt, persistAt} \subseteq 1 .. Len(stage) + 1
    /\ {judging, holding} \subseteq {{}} \cup {{p} : p \in Positions}
    /\ dbDrop \in 0 .. Len(stage)
    /\ queue \in Seq(Positions) /\ Len(queue) <= QueueCap
    /\ batch \in Seq(Positions) /\ Len(batch) < BatchSize
    /\ pending \in Seq(Seq(Positions) \ {<<>>}) /\ Len(pending) <= 2
    /\ backoff \in BOOLEAN /\ up \in BOOLEAN
    /\ stray \subseteq Seq(Positions) \ {<<>>}
    /\ table \in Seq(Positions)
    /\ starts \in Seq(0 .. Len(stage)) /\ starts # <<>>

(* Every sample and event that reached the processed bus in this run is in *)
(* the database, on its way, or counted: db_drop is never less than what   *)
(* is missing, however long the outage ("已计数的总线丢弃", README.md:336).   *)
LossCounted == TypeOK /\ Cardinality({p \in Lost : p > Began}) <= dbDrop

(* No alarm is in the database before the sample that caused it, unless    *)
(* that sample was lost: the writer flushes its batch before an event.     *)
CauseStoredFirst ==
    \A i \in DOMAIN table :
        LET cause == stage[table[i]].cause
        IN  cause # 0 => cause \in Lost \cup {table[j] : j \in 1 .. i - 1}

Promise == INSTANCE AtLeastOnce WITH log <- stage, lost <- Lost

(* The chain of forwarder, queue, batches and retries keeps the promise of *)
(* AtLeastOnce: order, no gaps, and repetition of whole batches only.      *)
ImplementsAtLeastOnce == Promise!Spec

(* A message that reached the queue is stored once the database stays      *)
(* reachable, unless the process exits first.                              *)
Drains ==
    <>[]up => \A p \in 1 .. MaxStage :
                  p \in InMemory ~> (p \in Range(table) \/ p <= Began)
=============================================================================

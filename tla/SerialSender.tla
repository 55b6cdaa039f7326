---------------------------- MODULE SerialSender ----------------------------
(***************************************************************************)
(* The sender program (bin/serial_sender_ui.rs): one window, and for every *)
(* send a thread of its own.  The window holds the receiver of the last    *)
(* worker it started (worker_rx) and the stop flag of the last one that    *)
(* has a flag (stop_flag); Start looks at the flag alone, the two CAN      *)
(* buttons at the receiver alone.  Workers are numbered as they start:     *)
(* "legacy", "demo" and "sent" write frames to the serial port, "replay"   *)
(* sends an exported file over CAN, "once" a single CAN frame.             *)
(* What the frames carry, when they are due and the log lines are left     *)
(* out; CAN sending fails or succeeds as CanTransport says.                *)
(***************************************************************************)
EXTENDS Naturals, Sequences

CONSTANTS
    MaxWorkers,     \* bound: how many workers are started
    Planned,        \* the frames of a whole send, the rows of the export
    RawLen,         \* bytes of a serial frame
    Pairs,          \* sensor_count: the frames of one SENT tick
    MaxRetries,     \* writes without progress that are tried again, 20
    FirstRows       \* rows whose progress is reported one by one, 5

ASSUME SenderAssumption ==
    /\ MaxWorkers \in Nat /\ Planned \in Nat /\ FirstRows \in Nat /\ MaxRetries \in Nat
    /\ RawLen \in Nat \ {0} /\ Pairs \in Nat \ {0}

VARIABLES
    work,           \* the workers
    workerRx,       \* the worker whose messages the window reads, or 0
    stopFlag,       \* the worker that Stop and is_running refer to, or 0
    inbox,          \* the messages of workerRx that are not read yet
    shown,          \* sent_frames in the window
    lastShown,      \* ghost: the send whose end is the last one shown, or 0
    portUser,       \* the worker that has the serial port open, or 0
    line,           \* the bytes the device received
    collector       \* config.toml of the collector: [serial_mode, can_enabled]

windowVars == <<workerRx, stopFlag, inbox, shown, lastShown>>
senderVars == <<work, windowVars, portUser, line, collector>>

SerialKinds == {"legacy", "demo", "sent"}
Kinds       == SerialKinds \cup {"replay", "once"}

IsSerial(w) == work[w].kind \in SerialKinds

Stats(n)       == [type |-> "stats", frames |-> n]
Finished(kind) == [type |-> "finished", outcome |-> kind]

NewWorker(kind) ==
    [kind |-> kind, at |-> "open", stop |-> FALSE, frames |-> 0, atStop |-> 0,
     offset |-> 0, retries |-> 0, acks |-> 0, outcome |-> "none"]

SenderInit ==
    /\ work = <<>> /\ workerRx = 0 /\ stopFlag = 0 /\ inbox = <<>>
    /\ shown = 0 /\ lastShown = 0 /\ portUser = 0 /\ line = <<>>
    /\ collector \in [serial_mode : SerialKinds, can_enabled : {FALSE}]

-----------------------------------------------------------------------------
(* The window.                                                             *)

Spawn(kind) ==
    /\ Len(work) < MaxWorkers
    /\ work' = Append(work, NewWorker(kind))
    /\ workerRx' = Len(work) + 1
    /\ inbox' = <<>>
    /\ UNCHANGED <<portUser, line>>

\* sync_collector_mode writes the mode to config.toml, its other keys stay.
SyncMode(kind) == collector' = [collector EXCEPT !.serial_mode = kind]

\* start_worker: the collector is told; the receiver of a CAN frame that is
\* still being sent is dropped.
StartWorker(kind) ==
    /\ kind \in SerialKinds /\ stopFlag = 0
    /\ Spawn(kind)
    /\ stopFlag' = Len(work) + 1
    /\ shown' = 0 /\ lastShown' = 0
    /\ SyncMode(kind)

\* Mutant: nothing is asked before a CAN frame is sent.
OnceAllowedAlways == TRUE

\* send_can_frame_once and start_can_export_replay refuse while messages of
\* another worker are awaited.
OnceAllowed == workerRx = 0

SendCanFrameOnce ==
    /\ OnceAllowed
    /\ Spawn("once")
    /\ UNCHANGED <<stopFlag, shown, lastShown, collector>>

StartCanExportReplay ==
    /\ workerRx = 0
    /\ Spawn("replay")
    /\ stopFlag' = Len(work) + 1
    /\ shown' = 0 /\ lastShown' = 0
    /\ UNCHANGED collector

\* sync_can_collector_config keeps the other keys of the file.
SyncCan ==
    /\ ~collector.can_enabled
    /\ collector' = [collector EXCEPT !.can_enabled = TRUE]
    /\ UNCHANGED <<work, windowVars, portUser, line>>

StopWorker ==
    /\ stopFlag # 0 /\ ~work[stopFlag].stop
    /\ work' = [work EXCEPT ![stopFlag].stop = TRUE, ![stopFlag].atStop = work[stopFlag].frames]
    /\ UNCHANGED <<windowVars, portUser, line, collector>>

ClearWorker == workerRx' = 0 /\ stopFlag' = 0 /\ inbox' = <<>>

\* drain_worker_messages handles any number of messages, then the buttons.
DrainStats ==
    /\ inbox # <<>> /\ Head(inbox).type = "stats"
    /\ shown' = Head(inbox).frames
    /\ inbox' = Tail(inbox)
    /\ UNCHANGED <<work, workerRx, stopFlag, lastShown, portUser, line, collector>>

DrainFinished ==
    /\ inbox # <<>> /\ Head(inbox).type = "finished"
    /\ lastShown' = IF work[workerRx].kind = "once" THEN lastShown ELSE workerRx
    /\ ClearWorker
    /\ UNCHANGED <<work, shown, portUser, line, collector>>

\* Disconnected: the worker is gone and left no message.
DrainDisconnected ==
    /\ workerRx # 0 /\ inbox = <<>> /\ work[workerRx].at = "ended"
    /\ ClearWorker
    /\ UNCHANGED <<work, shown, lastShown, portUser, line, collector>>

Window ==
    \/ \E kind \in SerialKinds : StartWorker(kind)
    \/ SendCanFrameOnce \/ StartCanExportReplay \/ SyncCan \/ StopWorker
    \/ DrainStats \/ DrainFinished \/ DrainDisconnected

-----------------------------------------------------------------------------
(* A worker.  Its messages reach the window while that holds its receiver. *)

Says(w, messages) == inbox' = IF workerRx = w THEN inbox \o messages ELSE inbox

Silent == UNCHANGED inbox

Goes(w, place) == work' = [work EXCEPT ![w].at = place]

Rest == UNCHANGED <<workerRx, stopFlag, shown, lastShown, collector>>

\* run_sender drops the port before its error is reported.
Fail(w) ==
    /\ Goes(w, "failed")
    /\ portUser' = IF portUser = w THEN 0 ELSE portUser
    /\ Silent /\ UNCHANGED line

Concludes(w, kind, place, messages) ==
    /\ work' = [work EXCEPT ![w].at = place, ![w].outcome = kind]
    /\ Says(w, Append(messages, Finished(kind)))
    /\ UNCHANGED <<portUser, line>>

\* The serial port opens if nobody has it; a CAN transport connects.
OpenLine(w) ==
    /\ work[w].at = "open"
    /\ IF IsSerial(w) THEN portUser = 0 /\ portUser' = w ELSE UNCHANGED portUser
    /\ Goes(w, "loop")
    /\ Silent /\ UNCHANGED line

\* The port is taken or gone, the transport does not connect, the export is
\* missing or empty, a row is malformed or cannot be sent, a write or a read
\* of answers fails.
WorkerFails(w) ==
    /\ work[w].at \in {"open", "write", "acks"} \/ (work[w].at = "loop" /\ ~IsSerial(w))
    /\ Fail(w)

\* A duration that Instant or u64 cannot hold ends the thread in a panic.
Overflows(w) ==
    /\ work[w].at = "loop" /\ IsSerial(w) /\ work[w].frames = 0
    /\ Goes(w, "ended")
    /\ portUser' = 0
    /\ Silent /\ UNCHANGED line

\* The SENT sender looks at the flag once per tick, the others at every frame.
LooksAtStop(w) == work[w].kind = "sent" => work[w].frames % Pairs = 0

Stopping(w) == work[w].stop /\ LooksAtStop(w)

\* demo and sent end at their deadline, whenever that passes, even if Stop was
\* pressed; so does the last frame of a legacy send or of an export.
Over(w) ==
    \/ work[w].frames = Planned
    \/ work[w].kind \in {"demo", "sent"} /\ LooksAtStop(w)

StopSending(w) ==
    /\ work[w].at = "loop" /\ work[w].kind # "once" /\ work[w].frames < Planned /\ Stopping(w)
    /\ Concludes(w, "stopped", "closing", <<>>)

DoneSending(w) ==
    /\ work[w].at = "loop" /\ IsSerial(w) /\ Over(w)
    /\ Concludes(w, "done", "closing", <<>>)

BeginFrame(w) ==
    /\ work[w].at = "loop" /\ IsSerial(w)
    /\ work[w].frames < Planned /\ ~Stopping(w)
    /\ work' = [work EXCEPT ![w].at = "write", ![w].offset = 0, ![w].retries = 0]
    /\ Silent /\ UNCHANGED <<portUser, line>>

\* Byte n of frame f of a sender.
ByteOf(w, f, n) == [by |-> w, frame |-> f, byte |-> n]

\* write_frame_all: the port takes some of the bytes, ...
WriteSome(w) ==
    /\ work[w].at = "write"
    /\ \E n \in 1 .. (RawLen - work[w].offset) :
          /\ work' = [work EXCEPT ![w].offset = @ + n, ![w].retries = 0]
          /\ line' = line \o [i \in 1 .. n |-> ByteOf(w, work[w].frames + 1, work[w].offset + i)]
    /\ Silent /\ UNCHANGED portUser

\* Mutant: a write that timed out is begun anew.
RetriedAnew(w) == [work EXCEPT ![w].retries = @ + 1, ![w].offset = 0]

Retried(w) == [work EXCEPT ![w].retries = @ + 1]

\* ... or none, which is tried again a number of times.
WriteNothing(w) ==
    /\ work[w].at = "write" /\ work[w].offset < RawLen
    /\ IF work[w].retries < MaxRetries
       THEN work' = Retried(w) /\ UNCHANGED <<inbox, portUser, line>>
       ELSE Fail(w)

\* The frame is written and flushed, and reported at once unless answers are
\* read first.
FrameWritten(w) ==
    /\ work[w].at = "write" /\ work[w].offset = RawLen
    /\ LET n == work[w].frames + 1 IN
       IF work[w].kind = "legacy"
       THEN work' = [work EXCEPT ![w].at = "acks", ![w].frames = n] /\ Silent
       ELSE work' = [work EXCEPT ![w].at = "loop", ![w].frames = n] /\ Says(w, <<Stats(n)>>)
    /\ UNCHANGED <<portUser, line>>

\* drain_ack: answers are counted until a read brings nothing.
ReadAck(w) ==
    /\ work[w].at = "acks" /\ work[w].acks < work[w].frames
    /\ work' = [work EXCEPT ![w].acks = @ + 1]
    /\ Silent /\ UNCHANGED <<portUser, line>>

NoMoreAcks(w) ==
    /\ work[w].at = "acks"
    /\ Goes(w, "loop")
    /\ Says(w, <<Stats(work[w].frames)>>)
    /\ UNCHANGED <<portUser, line>>

\* One row of the export, after its pause; the first are reported.
ReplayRow(w) ==
    /\ work[w].at = "loop" /\ work[w].kind = "replay"
    /\ work[w].frames < Planned /\ ~Stopping(w)
    /\ LET n == work[w].frames + 1 IN
       /\ work' = [work EXCEPT ![w].frames = n]
       /\ Says(w, IF n <= FirstRows THEN <<Stats(n)>> ELSE <<>>)
    /\ UNCHANGED <<portUser, line>>

\* Mutant: the coalesced progress is all there is.
ReplayTotalNone(w) == <<>>

ReplayTotal(w) == <<Stats(work[w].frames)>>

ReplayDone(w) ==
    /\ work[w].at = "loop" /\ work[w].kind = "replay" /\ work[w].frames = Planned
    /\ Concludes(w, "done", "ended", ReplayTotal(w))

OnceSent(w) ==
    /\ work[w].at = "loop" /\ work[w].kind = "once"
    /\ Concludes(w, "done", "ended", <<>>)

ReportFailure(w) ==
    /\ work[w].at = "failed"
    /\ Concludes(w, "failed", "ended", <<>>)

\* The thread returns: its port is closed after its end was reported.
Return(w) ==
    /\ work[w].at = "closing"
    /\ Goes(w, "ended")
    /\ portUser' = IF portUser = w THEN 0 ELSE portUser
    /\ Silent /\ UNCHANGED line

Worker(w) ==
    /\ \/ OpenLine(w) \/ WorkerFails(w) \/ Overflows(w)
       \/ StopSending(w) \/ DoneSending(w) \/ BeginFrame(w)
       \/ WriteSome(w) \/ WriteNothing(w) \/ FrameWritten(w)
       \/ ReadAck(w) \/ NoMoreAcks(w)
       \/ ReplayRow(w) \/ ReplayDone(w) \/ OnceSent(w)
       \/ ReportFailure(w) \/ Return(w)
    /\ Rest

SenderNext == Window \/ \E w \in DOMAIN work : Worker(w)

SenderSpec == SenderInit /\ [][SenderNext]_senderVars

-----------------------------------------------------------------------------

Places == {"open", "loop", "write", "acks", "failed", "closing", "ended"}

SenderTypeOK ==
    /\ \A w \in DOMAIN work :
          /\ work[w].kind \in Kinds /\ work[w].at \in Places /\ work[w].stop \in BOOLEAN
          /\ work[w].frames \in 0 .. Planned /\ work[w].offset \in 0 .. RawLen
          /\ work[w].retries \in 0 .. MaxRetries /\ work[w].acks \in 0 .. Planned
    /\ {workerRx, stopFlag, portUser, lastShown} \subseteq 0 .. Len(work)
    /\ Len(work) <= MaxWorkers /\ shown \in 0 .. Planned

\* The worker has not reported its end.
Busy(w) == work[w].at \notin {"closing", "ended"}

\* A send that is under way is the one that Stop reaches and whose messages
\* the window reads, although three buttons with different guards replace the
\* receiver and the flag; and while it uses the serial port the collector's
\* configuration names its format.
StopReachesWorker ==
    \A w \in DOMAIN work : Busy(w) /\ work[w].kind # "once" =>
        /\ stopFlag = w /\ workerRx = w
        /\ IsSerial(w) => collector.serial_mode = work[w].kind

\* After Stop a worker finishes at most the frame it is in, a SENT worker
\* the frames of its tick.
StopsSoon ==
    \A w \in DOMAIN work : work[w].stop =>
        work[w].frames <= work[w].atStop + (IF work[w].kind = "sent" THEN Pairs ELSE 1)

(* Stop works: it reaches the one send that is under way, whichever of the *)
(* buttons started it and whatever they replaced, and that send ends with  *)
(* the frame or tick it is in.                                             *)
StopWorks == SenderTypeOK /\ StopReachesWorker /\ StopsSoon

\* The byte that follows one.
NextByte(b) ==
    IF b.byte < RawLen THEN ByteOf(b.by, b.frame, b.byte + 1) ELSE ByteOf(b.by, b.frame + 1, 1)

\* The last byte of w on the line.
LastOf(w, i) == line[i].by = w /\ (i = Len(line) \/ line[i + 1].by # w)

\* Everything w counts as sent is on the line, and nothing else of it.
AllWhole(w) ==
    /\ work[w].frames > 0 <=> \E i \in DOMAIN line : line[i].by = w
    /\ \A i \in DOMAIN line : LastOf(w, i) => line[i] = ByteOf(w, work[w].frames, RawLen)

(* The device receives the frames of one sender after those of another,    *)
(* each whole and once, however the port cuts the writes and whichever are *)
(* tried again: every byte continues the frame before it, or begins the    *)
(* first frame of a later sender; only a sender that failed may leave its  *)
(* last frame short.                                                       *)
WholeFrames ==
    /\ \A i, j \in DOMAIN line : i < j => line[i].by <= line[j].by
    /\ \A i \in DOMAIN line :
          \/ i > 1 /\ line[i] = NextByte(line[i - 1])
          \/ (i = 1 \/ line[i - 1].by # line[i].by) /\ line[i] = ByteOf(line[i].by, 1, 1)
    /\ \A w \in DOMAIN work :
          IsSerial(w) /\ (work[w].at \in {"loop", "acks", "closing"} \/ work[w].outcome \in {"done", "stopped"})
              => AllWhole(w)

(* When the end of a send has been shown, the count beside it is that of   *)
(* the frames sent: exactly after a complete or stopped serial send and a  *)
(* complete replay; a failure may hide the last frame, and a stopped or    *)
(* failed replay the rows since its last report.                           *)
CountTrue ==
    lastShown # 0 =>
        LET w == work[lastShown] IN
        /\ shown <= w.frames
        /\ w.outcome = "done" \/ (w.outcome = "stopped" /\ w.kind # "replay") => shown = w.frames
        /\ w.kind \in SerialKinds => shown + 1 >= w.frames
=============================================================================

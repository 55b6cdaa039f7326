--------------------------- MODULE SerialTransport ---------------------------
(***************************************************************************)
(* SerialTransport (transport/mod.rs): one serial port behind blocking     *)
(* calls.  A read runs on a thread of its own and holds the port's lock;   *)
(* the task that waits for it may be cancelled, the thread may not: its    *)
(* handle stays in pending_read and the next read takes its result.        *)
(* Bytes are numbered in the order the device sends them.                  *)
(***************************************************************************)
EXTENDS Naturals, Sequences

CONSTANTS Ports, NoPort, Chunk      \* Chunk: read_chunk, 4096 bytes in the code

ASSUME SerialAssumption == NoPort \notin Ports /\ Chunk \in Nat \ {0}

VARIABLES
    port,           \* the port that is open
    wire,           \* its bytes in the operating system's buffer
    reader,         \* pending_read: no thread, blocked in the read, or done
    awaited,        \* a task waits in read()
    result          \* what the thread brought back: bytes, none on a timeout

transportVars == <<port, wire, reader, awaited, result>>

TransportInit ==
    /\ port = NoPort /\ wire = <<>>
    /\ reader = "none" /\ awaited = FALSE /\ result = <<>>

\* connect(): the port is opened with an empty buffer.
OpenPort(p) ==
    /\ port' = p /\ wire' = <<>>
    /\ reader' = "none" /\ awaited' = FALSE /\ result' = <<>>

\* serial_read_into: a thread is started unless one is there.
StartRead ==
    /\ ~awaited
    /\ awaited' = TRUE
    /\ reader' = IF reader = "none" THEN "blocked" ELSE reader
    /\ UNCHANGED <<port, wire, result>>

\* The operating system gives the thread some bytes, ...
ReadBytes ==
    /\ reader = "blocked" /\ wire # <<>>
    /\ \E n \in 1 .. (IF Len(wire) < Chunk THEN Len(wire) ELSE Chunk) :
          /\ result' = SubSeq(wire, 1, n)
          /\ wire' = SubSeq(wire, n + 1, Len(wire))
    /\ reader' = "done"
    /\ UNCHANGED <<port, awaited>>

\* ... none within its timeout, ...
ReadTimesOut ==
    /\ reader = "blocked" /\ wire = <<>>
    /\ reader' = "done"
    /\ UNCHANGED <<port, wire, awaited, result>>

\* ... or an error, when the device is gone.
ReadFails(gone) ==
    /\ reader = "blocked" /\ gone
    /\ reader' = "failed"
    /\ UNCHANGED <<port, wire, awaited, result>>

\* The task takes the result.
TakeResult ==
    /\ awaited /\ reader \in {"done", "failed"}
    /\ reader' = "none" /\ awaited' = FALSE /\ result' = <<>>
    /\ UNCHANGED <<port, wire>>

\* The future that waits is dropped: the thread goes on.
CancelRead ==
    /\ awaited
    /\ awaited' = FALSE
    /\ UNCHANGED <<port, wire, reader, result>>

\* write_all() and close() need the lock that a blocked read holds.
LockFree == reader # "blocked"

\* close(): the pending read is awaited, what it brought is dropped.
ClosePort ==
    /\ LockFree
    /\ port' = NoPort /\ wire' = <<>>
    /\ reader' = "none" /\ awaited' = FALSE /\ result' = <<>>
=============================================================================

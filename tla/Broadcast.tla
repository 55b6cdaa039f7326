------------------------------ MODULE Broadcast ------------------------------
(***************************************************************************)
(* One receiver of a tokio broadcast channel, as the collector uses it: a  *)
(* bounded queue that never blocks its sender.  A send to a full queue     *)
(* drops the oldest message, and the receiver's next recv() returns        *)
(* Lagged before it returns the oldest message kept.  The number in Lagged *)
(* only feeds loss counters, so it is kept as "some messages were lost".   *)
(***************************************************************************)
EXTENDS Naturals, Sequences

\* The receivers of capacity cap for a channel of messages.
Receivers(messages, cap) ==
    {ch \in [queue : Seq(messages), lagged : BOOLEAN] : Len(ch.queue) <= cap}

EmptyChannel == [queue |-> <<>>, lagged |-> FALSE]

\* Sender::send of message m to a receiver of capacity cap.
Sent(ch, cap, m) ==
    IF Len(ch.queue) < cap
    THEN [ch EXCEPT !.queue = Append(@, m)]
    ELSE [queue |-> Append(Tail(ch.queue), m), lagged |-> TRUE]

\* recv() would return Ok(Head(ch.queue)).
HasMessage(ch) == ~ch.lagged /\ ch.queue # <<>>

Received(ch) == [ch EXCEPT !.queue = Tail(@)]

\* recv() returned Err(Lagged(_)).
LagReported(ch) == [ch EXCEPT !.lagged = FALSE]
=============================================================================

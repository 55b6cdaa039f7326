----------------------------- MODULE AtLeastOnce -----------------------------
(***************************************************************************)
(* What persistence promises, with no queues, batches or connections: the  *)
(* messages of the bus reach the database in bus order, each at least once *)
(* unless it is lost, and no message is passed over unless it is lost.     *)
(* A write whose answer never came may still take effect, or do so again.  *)
(***************************************************************************)
EXTENDS Integers, Sequences, Functions

CONSTANTS Messages, Wanted(_)   \* Wanted: messages that persistence owes

VARIABLES
    log,        \* the messages of the bus
    table,      \* positions in log, in the order they were committed
    lost        \* positions given up

vars == <<log, table, lost>>

Stored == Range(table)
Owed   == {p \in DOMAIN log : Wanted(log[p])}

Init == log = <<>> /\ table = <<>> /\ lost = {}

Offer ==
    /\ Len(log') = Len(log) + 1 /\ log'[Len(log')] \in Messages
    /\ log = SubSeq(log', 1, Len(log))
    /\ UNCHANGED <<table, lost>>

\* A full bus overwrites messages, a process dies, a row is refused.
Lose ==
    /\ lost' \subseteq Owed \ Stored
    /\ lost \subseteq lost'
    /\ UNCHANGED <<log, table>>

\* The next messages are committed: all that is owed between the newest row
\* and the last of the batch.
Write(batch) ==
    /\ \A i, j \in DOMAIN batch : i < j => batch[i] < batch[j]
    /\ Range(batch) = {p \in Owed \ lost : /\ p <= batch[Len(batch)]
                                           /\ \A q \in Stored : q < p}
    /\ table' = table \o batch
    /\ UNCHANGED <<log, lost>>

\* A commit nobody waits for any more: of rows there are or that were given up.
Rewrite(batch) ==
    /\ Range(batch) \subseteq Stored \cup lost
    /\ table' = table \o batch
    /\ lost' = lost \ Range(batch)
    /\ UNCHANGED log

Commit ==
    \E length \in 1 .. Len(table') - Len(table) :
        LET batch == SubSeq(table', Len(table) + 1, Len(table'))
        IN  /\ length = Len(batch)
            /\ Write(batch) \/ Rewrite(batch)

Next == Offer \/ Lose \/ Commit

Spec == Init /\ [][Next]_vars
=============================================================================

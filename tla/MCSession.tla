----------------------------- MODULE MCSession ------------------------------
(* Instances of Session for TLC: two commands that share a request id, one *)
(* of them idempotent with two attempts, and one of another id, so that two *)
(* deadlines may pass in one batch of events.  In MCSessionLive.cfg that    *)
(* third command is too large to be encoded.                                *)
EXTENDS Session

CONSTANTS c1, c2, c3, i1, i2

MCIdOf        == [c \in Calls |-> IF c = c3 THEN i2 ELSE i1]
MCMaxAttempts == [c \in Calls |-> 2]
=============================================================================

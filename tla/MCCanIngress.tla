---------------------------- MODULE MCCanIngress ----------------------------
(* An instance of CanIngress for TLC: two channels, the first with a clock;*)
(* frames of a watched id that decode, do not decode, or are echoes, other *)
(* samples, and SENT errors.                                               *)
EXTENDS CanIngress

Frame(ch, id, sample, error, echo, ts, at) ==
    [channel |-> ch, body |-> [id |-> id, sample |-> sample, error |-> error],
     echo |-> echo, ts |-> ts, at |-> at]

\* Every time with one kind of frame, the other kinds without a counter.
MCFrames ==
    {Frame(0, 1, TRUE, 0, FALSE, ts, at) : ts \in Timestamp, at \in Time}
    \cup {Frame(0, 1, FALSE, 0, FALSE, 0, 0), Frame(0, 256, TRUE, 0, FALSE, 0, 0),
          Frame(0, 1, TRUE, 0, TRUE, 0, 0), Frame(1, 1, TRUE, 0, FALSE, 0, 0)}
    \cup {Frame(0, 3, FALSE, e, FALSE, 0, 0) : e \in {0} \cup ErrorTypes}

MCConfigs == {[auto |-> TRUE, channels |-> <<0>>], [auto |-> FALSE, channels |-> <<0, 1>>]}

MCWatched == {[enabled |-> FALSE, targets |-> {}], [enabled |-> TRUE, targets |-> {}],
              [enabled |-> TRUE, targets |-> [channel : {0, 1}, id : {1}]]}
=============================================================================

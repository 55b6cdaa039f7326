----------------------------- MODULE CanTransport -----------------------------
(***************************************************************************)
(* CanTransport (transport/can.rs): a CAN adapter opened through the       *)
(* vendor's TSMaster library.  The library calls back on threads of its    *)
(* own; the callbacks find the queue of the transport in a registry of     *)
(* the process.  Opening takes many calls, each of which may fail, and     *)
(* the ingress tries one configuration after the other                     *)
(* (connect_can_transport, ingress/can.rs), so what a failed attempt       *)
(* leaves behind meets the next one.                                       *)
(*                                                                         *)
(* The library itself is outside the repository: it is "out", initialized  *)
(* or connected to the adapter, and finalizing it ends its events.         *)
(***************************************************************************)
EXTENDS Naturals, Sequences, Functions

CONSTANTS
    LastChannel,    \* the highest channel index of an adapter, 3 in the code
    Configs,        \* the configurations: [auto, channels]
    WithCanFd,      \* the library exports the CAN FD functions
    QueueCap        \* CALLBACK_QUEUE_CAPACITY, 4096 in the code

Channels == 0 .. LastChannel

ASSUME TransportAssumption ==
    /\ LastChannel \in Nat /\ QueueCap \in Nat \ {0} /\ WithCanFd \in BOOLEAN
    /\ \A c \in Configs : c.auto \in BOOLEAN /\ c.channels \in Seq(Channels) \ {<<>>}

VARIABLES
    config,         \* the configuration of this run
    attempt,        \* the candidate that is being tried, or is in use
    link,           \* where connect() and close() are
    library,        \* the vendor library: "out", "initialized" or "connected"
    events,         \* the frame events registered with it
    registry,       \* CALLBACK_SENDERS: the attempts whose queue is registered
    queue           \* the frames the callbacks queued for the transport

linkVars == <<config, attempt, link, library, events, registry, queue>>

LinkInit ==
    /\ config \in Configs
    /\ attempt = 1
    /\ link = "idle"
    /\ library = "out" /\ events = {} /\ registry = {}
    /\ queue = <<>>

-----------------------------------------------------------------------------

Hardware == IF config.auto THEN <<"TC1016", "TC1012">> ELSE <<"configured">>

\* The other channels, from 0 on.
OtherThan(first) == [n \in 1 .. LastChannel |-> <<IF n <= first THEN n - 1 ELSE n>>]

\* One configured channel may be anywhere: it is tried first, then the others.
ChannelLists ==
    IF Len(config.channels) # 1 THEN <<config.channels>>
    ELSE <<config.channels>> \o OtherThan(config.channels[1])

\* candidate_can_configs
Candidates ==
    [n \in 1 .. Len(Hardware) * Len(ChannelLists) |->
        [hardware |-> Hardware[1 + ((n - 1) \div Len(ChannelLists))],
         channels |-> ChannelLists[1 + ((n - 1) % Len(ChannelLists))]]]

ActiveChannels == Range(Candidates[attempt].channels)

\* Up to initialize_lib_tsmaster there is nothing to undo; then the queue of
\* this attempt is registered.
Prepare ==
    /\ link = "idle"
    /\ attempt <= Len(Candidates)
    /\ library' = "initialized"
    /\ registry' = registry \cup {attempt}
    /\ queue' = <<>>
    /\ link' = "setup"
    /\ UNCHANGED <<config, attempt, events>>

\* No DLL, no such function, or a refused initialization: the next candidate.
PrepareFails ==
    /\ link = "idle"
    /\ attempt <= Len(Candidates)
    /\ attempt' = attempt + 1
    /\ UNCHANGED <<config, link, library, events, registry, queue>>

\* The channels are mapped, their rates set, and the adapter connected.
Setup ==
    /\ link = "setup"
    /\ library' = "connected"
    /\ link' = "listen"
    /\ UNCHANGED <<config, attempt, events, registry, queue>>

ListenCan ==
    /\ link = "listen"
    /\ "can" \notin events
    /\ events' = events \cup {"can"}
    /\ UNCHANGED <<config, attempt, link, library, registry, queue>>

ListenCanFd ==
    /\ link = "listen"
    /\ WithCanFd /\ "can" \in events /\ "canfd" \notin events
    /\ events' = events \cup {"canfd"}
    /\ UNCHANGED <<config, attempt, link, library, registry, queue>>

\* connect() returns Ok: the ingress has its transport.
Opened ==
    /\ link = "listen"
    /\ events = {"can"} \cup (IF WithCanFd THEN {"canfd"} ELSE {})
    /\ link' = "open"
    /\ UNCHANGED <<config, attempt, library, events, registry, queue>>

\* Mutant: a failed attempt leaves its queue in the registry.
UndoneButRegistered == registry

\* unregister_callback_sender
Undone == registry \ {attempt}

\* One of the calls failed: the queue is unregistered first, ...
SetupFails ==
    /\ \/ link = "setup"
       \/ link = "listen" /\ (IF WithCanFd THEN "canfd" ELSE "can") \notin events
    /\ registry' = Undone
    /\ link' = "undo"
    /\ UNCHANGED <<config, attempt, library, events, queue>>

\* ... then the library is disconnected and finalized: the next candidate.
Undo ==
    /\ link = "undo"
    /\ library' = "out" /\ events' = {}
    /\ queue' = <<>>
    /\ attempt' = attempt + 1
    /\ link' = "idle"
    /\ UNCHANGED <<config, registry>>

\* A frame from the adapter: the callback tries every registered queue and
\* drops the frame where there is no room.
Callback(frame) ==
    /\ events # {}
    /\ queue' = IF attempt \in registry /\ Len(queue) < QueueCap THEN Append(queue, frame) ELSE queue
    /\ UNCHANGED <<config, attempt, link, library, events, registry>>

\* recv() gives the oldest frame.
Dequeue ==
    /\ queue # <<>>
    /\ queue' = Tail(queue)

\* close(): the events, the library and the queue go first, ...
Close ==
    /\ link = "open"
    /\ library' = "out" /\ events' = {}
    /\ queue' = <<>>
    /\ link' = "closing"
    /\ UNCHANGED <<config, attempt, registry>>

\* ... the registration last.
Closed ==
    /\ link = "closing"
    /\ registry' = Undone
    /\ link' = "closed"
    /\ UNCHANGED <<config, attempt, library, events, queue>>

Connecting ==
    \/ Prepare \/ PrepareFails \/ Setup \/ ListenCan \/ ListenCanFd
    \/ Opened \/ SetupFails \/ Undo

-----------------------------------------------------------------------------

LinkTypeOK(Frames) ==
    /\ config \in Configs
    /\ attempt \in 1 .. Len(Candidates) + 1
    /\ link \in {"idle", "setup", "listen", "open", "undo", "closing", "closed"}
    /\ library \in {"out", "initialized", "connected"}
    /\ events \subseteq {"can", "canfd"}
    /\ registry \subseteq 1 .. Len(Candidates)
    /\ queue \in Seq(Frames) /\ Len(queue) <= QueueCap

(* Nothing of a failed attempt or a closed transport is left: between two  *)
(* attempts, after the last one and after close the library is out, no     *)
(* event is registered and no queue is; while a transport is in use, it is *)
(* the only one the callbacks can reach.                                   *)
NothingLeftBehind ==
    /\ link \in {"idle", "closed"} => library = "out" /\ events = {} /\ registry = {}
    /\ link \in {"setup", "listen", "open"} => registry = {attempt}
    /\ link = "open" => library = "connected" /\ "can" \in events
=============================================================================

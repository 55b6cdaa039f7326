----------------------------- MODULE TcpIngress -----------------------------
(***************************************************************************)
(* The collector as the devices behind its TCP ingress see it: start and   *)
(* readiness (collector_service.rs run), the accept loop with its registry *)
(* of session handles and its cleanup tasks (ingress/tcp.rs), the sessions *)
(* as far as they set their state in the Store and on the bus              *)
(* (session/mod.rs), and the count of connections that the alarm forwarder *)
(* keeps for /health.                                                      *)
(*                                                                         *)
(* A session and its entries in the registry and in the Store go by the    *)
(* address of the peer; connections are numbered as they arrive, and a     *)
(* peer may come back from the same address once its old connection is     *)
(* closed at its end.  A session lives until its peer closes or its last   *)
(* handle is dropped (spawn_with_join).                                    *)
(***************************************************************************)
EXTENDS Naturals, Sequences, FiniteSets

CONSTANTS
    Peers,          \* addresses
    MaxConns,       \* bound: how many connections arrive
    MaxSamples,     \* bound: samples each connection sends
    EventCap        \* capacity of the queue in front of the alarm forwarder

ASSUME IngressAssumption == MaxConns \in Nat /\ MaxSamples \in Nat /\ EventCap \in Nat \ {0}

VARIABLES
    stage,          \* how far the collector has started
    conn,           \* the connections and their sessions
    accepting,      \* the connection whose handle the accept loop still holds
    sessions,       \* the handle registered under each address, 0: none
    store,          \* conn_state of each address's snapshot
    events,         \* ConnStateChanged events not yet seen by the forwarder
    lost,           \* ghost: the forwarder has lagged
    active          \* active_sessions of the alarm forwarder

registryVars == <<stage, conn, accepting, sessions, store, events, lost, active>>

Running == stage # "exited"

NewConn(p, overlaps) ==
    [peer |-> p, open |-> TRUE, at |-> "backlog", state |-> "Disconnected", copy |-> "none",
     writes |-> "none", held |-> FALSE, ending |-> FALSE, cleanup |-> "none",
     samples |-> 0, overlaps |-> overlaps]

RegistryInit ==
    /\ stage = "starting"
    /\ conn = <<>> /\ accepting = 0
    /\ sessions = [p \in Peers |-> 0]
    /\ store = [p \in Peers |-> "none"]
    /\ events = <<>> /\ lost = FALSE /\ active = {}

-----------------------------------------------------------------------------
(* Start, and the peers.                                                   *)

\* The UI feed is bound, then ui_ready and ingress_ready are set; /ready
\* answers 200 from here on.
BecomeReady ==
    /\ stage = "starting"
    /\ stage' = "ready"
    /\ UNCHANGED <<conn, accepting, sessions, store, events, lost, active>>

\* run_tcp_ingress binds its address.
Listen ==
    /\ stage = "ready"
    /\ stage' = "listening"
    /\ UNCHANGED <<conn, accepting, sessions, store, events, lost, active>>

\* An address cannot be bound, or accept() fails: run() returns.
Exit ==
    /\ Running /\ accepting = 0
    /\ stage' = "exited"
    /\ UNCHANGED <<conn, accepting, sessions, store, events, lost, active>>

Of(p) == {n \in DOMAIN conn : conn[n].peer = p}

PeerConnects(p) ==
    /\ stage = "listening" /\ Len(conn) < MaxConns
    /\ \A n \in Of(p) : ~conn[n].open
    /\ conn' = Append(conn, NewConn(p, \E n \in Of(p) : conn[n].cleanup # "ran"))
    /\ UNCHANGED <<stage, accepting, sessions, store, events, lost, active>>

PeerCloses(n) ==
    /\ Running /\ conn[n].open
    /\ conn' = [conn EXCEPT ![n].open = FALSE]
    /\ UNCHANGED <<stage, accepting, sessions, store, events, lost, active>>

-----------------------------------------------------------------------------
(* The accept loop.                                                        *)

\* accept and spawn_with_join: the session runs before it is registered.
Accept(n) ==
    /\ stage = "listening" /\ accepting = 0
    /\ conn[n].at = "backlog" /\ \A m \in 1 .. (n - 1) : conn[m].at # "backlog"
    /\ conn' = [conn EXCEPT ![n].at = "run", ![n].held = TRUE]
    /\ accepting' = n
    /\ UNCHANGED <<stage, sessions, store, events, lost, active>>

\* Mutant: the handle is not kept.
RegisteredNone(p, n) == UNCHANGED sessions

\* A handle that was there under the same address is dropped.
Registered(p, n) == sessions' = [sessions EXCEPT ![p] = n]

\* The handle is in the map, then its cleanup task is spawned.
Register ==
    /\ Running /\ accepting # 0
    /\ LET p   == conn[accepting].peer
           old == sessions[p]
       IN  /\ Registered(p, accepting)
           /\ conn' = [n \in DOMAIN conn |->
                 [conn[n] EXCEPT !.held = IF n = old \/ (n = accepting /\ sessions'[p] # n) THEN FALSE ELSE @,
                                 !.cleanup = IF n = accepting THEN "waiting" ELSE @]]
    /\ accepting' = 0
    /\ UNCHANGED <<stage, store, events, lost, active>>

\* The cleanup task: the session has ended; whatever handle is registered
\* under its address is removed, and dropped.
Cleanup(n) ==
    /\ Running /\ conn[n].cleanup = "waiting" /\ conn[n].at = "done"
    /\ LET p == conn[n].peer IN
       /\ sessions' = [sessions EXCEPT ![p] = 0]
       /\ conn' = [m \in DOMAIN conn |->
             [conn[m] EXCEPT !.held = IF m = sessions[p] THEN FALSE ELSE @,
                             !.cleanup = IF m = n THEN "ran" ELSE @]]
    /\ UNCHANGED <<stage, accepting, store, events, lost, active>>

-----------------------------------------------------------------------------
(* A session.                                                              *)

\* A full queue loses its oldest event.
Published(e) ==
    /\ events' = IF Len(events) < EventCap THEN Append(events, e) ELSE Append(Tail(events), e)
    /\ lost' = (lost \/ Len(events) = EventCap)

\* set_state, up to its first await.
SetState(n, to) ==
    /\ conn' = [conn EXCEPT ![n].state = to, ![n].at = "read", ![n].writes = "state",
                            ![n].ending = (to = "Disconnected")]
    /\ Published([peer |-> conn[n].peer, to |-> to])
    /\ UNCHANGED <<stage, accepting, sessions, store, active>>

NextState(s) == CASE s = "Disconnected" -> "Connecting"
                  [] s = "Connecting"   -> "Handshaking"
                  [] s = "Handshaking"  -> "Ready"

\* run: the socket is connected already, so connect() succeeds.
Advance(n) ==
    /\ Running /\ conn[n].at = "run" /\ conn[n].state # "Ready"
    /\ SetState(n, NextState(conn[n].state))

\* A telemetry frame: publish_telemetry.
Sample(n) ==
    /\ Running /\ conn[n].at = "run" /\ conn[n].state = "Ready"
    /\ conn[n].samples < MaxSamples
    /\ conn' = [conn EXCEPT ![n].at = "read", ![n].writes = "telemetry", ![n].samples = @ + 1]
    /\ UNCHANGED <<stage, accepting, sessions, store, events, lost, active>>

\* Both read the snapshot and write it back; the lock is not held between.
ReadSnapshot(n) ==
    /\ Running /\ conn[n].at = "read"
    /\ conn' = [conn EXCEPT ![n].at = "write", ![n].copy = store[conn[n].peer]]
    /\ UNCHANGED <<stage, accepting, sessions, store, events, lost, active>>

WriteSnapshot(n) ==
    /\ Running /\ conn[n].at = "write"
    /\ store' = [store EXCEPT ![conn[n].peer] =
          CASE conn[n].writes = "state" -> conn[n].state
            [] conn[n].copy = "none"    -> "Disconnected"
            [] OTHER                    -> conn[n].copy]
    /\ conn' = [conn EXCEPT ![n].at = IF conn[n].ending THEN "done" ELSE "run", ![n].copy = "none"]
    /\ UNCHANGED <<stage, accepting, sessions, events, lost, active>>

\* The peer has closed: the loop ends and there is no reconnection.
ReadEnds(n) ==
    /\ Running /\ conn[n].at = "run" /\ conn[n].state = "Ready" /\ ~conn[n].open
    /\ SetState(n, "Disconnected")

\* Mutant: a session that was stopped does not say so.
SaysStoppedNever(n) == FALSE

\* set_state says nothing when the state is Disconnected already.
SaysStopped(n) == conn[n].state # "Disconnected"

\* The last handle is gone: whatever the session waits for is dropped.
HandleDropped(n) ==
    /\ Running /\ conn[n].at \in {"run", "read", "write"} /\ ~conn[n].held /\ ~conn[n].ending
    /\ IF SaysStopped(n)
       THEN SetState(n, "Disconnected")
       ELSE /\ conn' = [conn EXCEPT ![n].at = "done", ![n].ending = TRUE, ![n].copy = "none"]
            /\ UNCHANGED <<stage, accepting, sessions, store, events, lost, active>>

-----------------------------------------------------------------------------
(* The alarm forwarder.                                                    *)

\* run_alarm_forwarder on ConnStateChanged.
CountConnection ==
    /\ Running /\ events # <<>>
    /\ LET e == Head(events) IN
       active' = CASE e.to = "Ready"        -> active \cup {e.peer}
                   [] e.to = "Disconnected" -> active \ {e.peer}
                   [] OTHER                 -> active
    /\ events' = Tail(events)
    /\ UNCHANGED <<stage, conn, accepting, sessions, store, lost>>

RegistryNext ==
    \/ BecomeReady \/ Listen \/ Exit \/ Register \/ CountConnection
    \/ \E p \in Peers : PeerConnects(p)
    \/ \E n \in DOMAIN conn :
          \/ PeerCloses(n) \/ Accept(n) \/ Cleanup(n)
          \/ Advance(n) \/ Sample(n) \/ ReadSnapshot(n) \/ WriteSnapshot(n)
          \/ ReadEnds(n) \/ HandleDropped(n)

RegistrySpec == RegistryInit /\ [][RegistryNext]_registryVars

-----------------------------------------------------------------------------

ConnStates == {"Disconnected", "Connecting", "Handshaking", "Ready"}

Connections ==
    [peer : Peers, open : BOOLEAN, at : {"backlog", "run", "read", "write", "done"},
     state : ConnStates, copy : ConnStates \cup {"none"},
     writes : {"none", "state", "telemetry"}, held : BOOLEAN, ending : BOOLEAN,
     cleanup : {"none", "waiting", "ran"}, samples : 0 .. MaxSamples, overlaps : BOOLEAN]

RegistryTypeOK ==
    /\ stage \in {"starting", "ready", "listening", "exited"}
    /\ conn \in Seq(Connections) /\ Len(conn) <= MaxConns
    /\ accepting \in 0 .. Len(conn)
    /\ sessions \in [Peers -> 0 .. Len(conn)]
    /\ store \in [Peers -> ConnStates \cup {"none"}]
    /\ events \in Seq([peer : Peers, to : ConnStates]) /\ Len(events) <= EventCap
    /\ lost \in BOOLEAN /\ active \subseteq Peers

\* No handle stays behind: every registered handle belongs to a session of
\* its address whose cleanup is still to come, and whoever holds a handle is
\* registered or about to be.
NoHandleLeak ==
    /\ \A p \in Peers : sessions[p] # 0 =>
          /\ conn[sessions[p]].peer = p
          /\ conn[sessions[p]].held /\ conn[sessions[p]].cleanup = "waiting"
    /\ \A n \in DOMAIN conn : conn[n].held => n \in {accepting, sessions[conn[n].peer]}

(* A device is served while its connection is open: its session ends only  *)
(* after the peer has closed, unless the address was taken again before    *)
(* the cleanup of its last session (which then ends the new one); and no   *)
(* handle of a session stays behind.                                       *)
ServedWhileOpen ==
    /\ RegistryTypeOK /\ NoHandleLeak
    /\ \A n \in DOMAIN conn :
          conn[n].ending => \/ ~conn[n].open
                            \/ \E m \in Of(conn[n].peer) : m <= n /\ conn[m].overlaps

\* The session says nothing new until its peer acts.
Rests(n) == conn[n].at \in {"backlog", "done"} \/ (conn[n].at = "run" /\ conn[n].state = "Ready")

(* When the sessions of an address rest and their events have been seen,   *)
(* it counts as connected exactly if one of them is Ready, unless events   *)
(* were lost or two sessions of the address overlapped.  And whatever      *)
(* overlapped: once all of them have ended its snapshot says so, although  *)
(* the snapshot is read and written back in two steps.                     *)
StateSettles ==
    \A p \in Peers : (Running /\ \A n \in Of(p) : Rests(n)) =>
        /\ events = <<>> /\ ~lost /\ (\A n \in Of(p) : ~conn[n].overlaps) =>
              (p \in active <=> \E n \in Of(p) : conn[n].state = "Ready")
        /\ (\A n \in Of(p) : conn[n].at = "done") => store[p] \in {"none", "Disconnected"}
=============================================================================

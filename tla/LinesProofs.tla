---------------------------- MODULE LinesProofs ----------------------------
(***************************************************************************)
(* Theorems about the byte lines, for any addresses, number of connections *)
(* and workers, length of frames, capacity of the queue.  TCP: a device is *)
(* served while its connection is open, no handle stays behind, and what   *)
(* is shown of a device settles.  The sender: Stop reaches the send that   *)
(* is under way, its count is that of the frames sent, and the device gets *)
(* them whole.  Serial: the demo alarm is the bit of the last packet.      *)
(***************************************************************************)
EXTENDS SerialIngress, SerialSender, TcpIngress, SequenceTheorems, TLAPS

(* One connection of an address is open at most, the latest one; it counts *)
(* as overlapping if it came before the cleanup of one before it.          *)
OneOpen ==
    \A m, n \in DOMAIN conn :
        m < n /\ conn[m].peer = conn[n].peer
            => ~conn[m].open /\ (conn[m].cleanup # "ran" => conn[n].overlaps)

(* What has not been accepted has done nothing, and is accepted in order.  *)
(* A session that is ending says Disconnected; cleanup comes after its     *)
(* end.                                                                    *)
Lifecycle ==
    /\ \A n \in DOMAIN conn :
          /\ conn[n].at = "backlog" =>
                /\ conn[n].cleanup = "none" /\ ~conn[n].held /\ ~conn[n].ending
                /\ conn[n].state = "Disconnected"
                /\ \A m \in DOMAIN conn : n < m => conn[m].at = "backlog"
          /\ conn[n].at = "done" => conn[n].ending
          /\ conn[n].ending =>
                conn[n].at \in {"read", "write", "done"} /\ conn[n].state = "Disconnected"
          /\ conn[n].ending /\ conn[n].at # "done" => conn[n].writes = "state"
          /\ conn[n].at \in {"read", "write"} =>
                conn[n].ending \/ conn[n].state # "Disconnected"
          /\ conn[n].cleanup = "ran" => conn[n].at = "done"
    /\ accepting # 0 =>
          /\ conn[accepting].at # "backlog" /\ conn[accepting].cleanup = "none"
          /\ conn[accepting].held
          /\ \A m \in DOMAIN conn : accepting < m => conn[m].at = "backlog"

\* A connection of this address, no later than n, overlapped another.
Overlapped(n) == \E m \in Of(conn[n].peer) : m <= n /\ conn[m].overlaps

(* A handle is dropped only after the peer has closed or once the address  *)
(* was taken again too early.                                              *)
Dropped ==
    \A n \in DOMAIN conn :
        conn[n].at # "backlog" /\ ~conn[n].held => ~conn[n].open \/ Overlapped(n)

Served == \A n \in DOMAIN conn : conn[n].ending => ~conn[n].open \/ Overlapped(n)

\* The session has yet to write "Disconnected" into the snapshot.
Owes(n) == conn[n].state # "Disconnected" \/ (conn[n].ending /\ conn[n].at # "done")

(* Whoever left a state in the snapshot, some session will still clear it. *)
StoreOwed ==
    \A p \in Peers :
        store[p] \notin {"none", "Disconnected"} => \E n \in Of(p) : Owes(n)

\* The events that make address p count or not.
Telling(p) ==
    {i \in DOMAIN events : events[i].peer = p /\ events[i].to \in {"Ready", "Disconnected"}}

\* p counts as connected once the forwarder has seen all events.
Counts(p) ==
    \/ Telling(p) = {} /\ p \in active
    \/ \E i \in Telling(p) : events[i].to = "Ready" /\ \A j \in Telling(p) : j <= i

IsReady(p) == \E n \in Of(p) : conn[n].state = "Ready"

(* The events on their way lead to what the sessions are, as long as none  *)
(* was lost and the sessions of the address came one after the other.      *)
Told ==
    ~lost => \A p \in Peers : (\A n \in Of(p) : ~conn[n].overlaps) => (Counts(p) <=> IsReady(p))

IInv ==
    /\ RegistryTypeOK /\ NoHandleLeak /\ OneOpen /\ Lifecycle
    /\ Dropped /\ Served /\ StoreOwed /\ Told

-----------------------------------------------------------------------------
(* Types. *)

(* The connections and the tables by address.                              *)
LEMMA Typed ==
    ASSUME RegistryTypeOK
    PROVE  /\ conn \in Seq(Connections) /\ Len(conn) \in Nat /\ DOMAIN conn = 1 .. Len(conn)
           /\ accepting \in 0 .. Len(conn)
           /\ accepting # 0 => accepting \in DOMAIN conn
           /\ sessions \in [Peers -> 0 .. Len(conn)]
           /\ \A p \in Peers : sessions[p] # 0 => sessions[p] \in DOMAIN conn
           /\ store \in [Peers -> ConnStates \cup {"none"}]
           /\ events \in Seq([peer : Peers, to : ConnStates])
           /\ Len(events) \in Nat /\ Len(events) <= EventCap
           /\ lost \in BOOLEAN /\ active \subseteq Peers
           /\ \A n \in DOMAIN conn : n \in Nat /\ n # 0 /\ conn[n] \in Connections
                                     /\ conn[n].peer \in Peers
<1>1. /\ conn \in Seq(Connections) /\ Len(conn) \in Nat /\ DOMAIN conn = 1 .. Len(conn)
      /\ accepting \in 0 .. Len(conn)
      /\ sessions \in [Peers -> 0 .. Len(conn)]
      /\ store \in [Peers -> ConnStates \cup {"none"}]
      /\ events \in Seq([peer : Peers, to : ConnStates])
      /\ Len(events) \in Nat /\ Len(events) <= EventCap
      /\ lost \in BOOLEAN /\ active \subseteq Peers
    BY DEF RegistryTypeOK
<1>2. \A c \in Connections : c.peer \in Peers
    BY DEF Connections
<1>3. \A n \in DOMAIN conn : conn[n] \in Connections
    BY <1>1
<1>4. \A n \in 1 .. Len(conn) : n \in Nat /\ n # 0
    BY <1>1
<1>5. \A n \in 0 .. Len(conn) : n # 0 => n \in 1 .. Len(conn)
    BY <1>1
<1>6. QED
    BY <1>1, <1>2, <1>3, <1>4, <1>5

(* One connection changes.                                                 *)
LEMMA Changed ==
    ASSUME RegistryTypeOK, NEW n \in DOMAIN conn, NEW c \in Connections,
           conn' = [conn EXCEPT ![n] = c]
    PROVE  /\ conn' \in Seq(Connections) /\ Len(conn') = Len(conn)
           /\ DOMAIN conn' = DOMAIN conn /\ conn'[n] = c
           /\ \A m \in DOMAIN conn : m # n => conn'[m] = conn[m]
BY Typed, ExceptSeq

(* A session changes: not its peer, its handle or its registration.        *)
SameEntry(c, d) ==
    /\ c.peer = d.peer /\ c.open = d.open /\ c.held = d.held
    /\ c.cleanup = d.cleanup /\ c.overlaps = d.overlaps

(* A step of a session keeps the invariant, if it keeps what the session   *)
(* owes the store and the forwarder.                                       *)
LEMMA SessionStep ==
    ASSUME IInv, NEW n \in DOMAIN conn, NEW c \in Connections, SameEntry(c, conn[n]),
           conn' = [conn EXCEPT ![n] = c],
           conn[n].at \in {"run", "read", "write"},
           c.at \in {"run", "read", "write", "done"},
           c.at = "done" => c.ending,
           c.ending => c.at \in {"read", "write", "done"} /\ c.state = "Disconnected",
           c.ending /\ c.at # "done" => c.writes = "state",
           c.at \in {"read", "write"} => c.ending \/ c.state # "Disconnected",
           c.ending => conn[n].ending \/ ~conn[n].open \/ ~conn[n].held,
           UNCHANGED <<stage, accepting, sessions>>,
           store' \in [Peers -> ConnStates \cup {"none"}],
           events' \in Seq([peer : Peers, to : ConnStates]), Len(events') <= EventCap,
           lost' \in BOOLEAN, active' \subseteq Peers,
           StoreOwed', Told'
    PROVE  IInv'
<1>1. /\ conn' \in Seq(Connections) /\ Len(conn') = Len(conn)
      /\ DOMAIN conn' = DOMAIN conn /\ conn'[n] = c
      /\ \A m \in DOMAIN conn : m # n => conn'[m] = conn[m]
    BY Changed DEF IInv
<1>2. \A m \in DOMAIN conn : SameEntry(conn'[m], conn[m])
    BY <1>1 DEF SameEntry
<1>3. /\ accepting # 0 => accepting \in DOMAIN conn
      /\ \A p \in Peers : sessions[p] # 0 => sessions[p] \in DOMAIN conn
      /\ \A m \in DOMAIN conn : m \in Nat /\ m # 0 /\ conn[m].peer \in Peers
    BY Typed DEF IInv
<1>4. RegistryTypeOK'
    BY <1>1 DEF IInv, RegistryTypeOK
<1>5. NoHandleLeak'
    BY <1>1, <1>2, <1>3 DEF IInv, NoHandleLeak, SameEntry
<1>6. OneOpen'
    BY <1>1, <1>2 DEF IInv, OneOpen, SameEntry
<1>7. \A m \in DOMAIN conn : conn'[m].at = "backlog" <=> conn[m].at = "backlog"
    BY <1>1
<1>8. Lifecycle'
    <2>1. conn[n].at # "backlog" /\ conn[n].at # "done" /\ conn[n].cleanup # "ran"
        BY DEF IInv, Lifecycle
    <2>2. ASSUME NEW m \in DOMAIN conn
          PROVE  /\ conn'[m].at = "backlog" =>
                       /\ conn'[m].cleanup = "none" /\ ~conn'[m].held /\ ~conn'[m].ending
                       /\ conn'[m].state = "Disconnected"
                       /\ \A k \in DOMAIN conn : m < k => conn'[k].at = "backlog"
                 /\ conn'[m].at = "done" => conn'[m].ending
                 /\ conn'[m].ending => /\ conn'[m].at \in {"read", "write", "done"}
                                       /\ conn'[m].state = "Disconnected"
                 /\ conn'[m].ending /\ conn'[m].at # "done" => conn'[m].writes = "state"
                 /\ conn'[m].at \in {"read", "write"} =>
                       conn'[m].ending \/ conn'[m].state # "Disconnected"
                 /\ conn'[m].cleanup = "ran" => conn'[m].at = "done"
        <3>1. CASE m = n
            BY <1>1, <2>1, <3>1 DEF SameEntry
        <3>2. CASE m # n
            BY <1>1, <1>7, <3>2 DEF IInv, Lifecycle
        <3>3. QED
            BY <3>1, <3>2
    <2>3. accepting # 0 =>
              /\ conn'[accepting].at # "backlog" /\ conn'[accepting].cleanup = "none"
              /\ conn'[accepting].held
              /\ \A m \in DOMAIN conn : accepting < m => conn'[m].at = "backlog"
        BY <1>2, <1>3, <1>7 DEF IInv, Lifecycle, SameEntry
    <2>4. QED
        BY <1>1, <2>2, <2>3 DEF Lifecycle
<1>9. \A m \in DOMAIN conn : Overlapped(m)' <=> Overlapped(m)
    BY <1>1, <1>2 DEF Overlapped, Of, SameEntry
<1>10. Dropped'
    BY <1>1, <1>2, <1>7, <1>9 DEF IInv, Dropped, SameEntry
<1>11. Served'
    <2> SUFFICES ASSUME NEW m \in DOMAIN conn, conn'[m].ending
                 PROVE  ~conn'[m].open \/ Overlapped(m)'
        BY <1>1 DEF Served
    <2>1. conn[m].ending \/ ~conn[m].open \/ (conn[m].at # "backlog" /\ ~conn[m].held)
        BY <1>1
    <2>2. ~conn[m].open \/ Overlapped(m)
        BY <2>1 DEF IInv, Served, Dropped
    <2>3. QED
        BY <1>2, <1>9, <2>2 DEF SameEntry
<1>12. QED
    BY <1>4, <1>5, <1>6, <1>8, <1>10, <1>11 DEF IInv

-----------------------------------------------------------------------------
(* What the forwarder is told. *)

(* Where the sessions of an address do not overlap, all but the one that   *)
(* runs are over or have not begun.                                        *)
LEMMA Alone ==
    ASSUME IInv, NEW n \in DOMAIN conn, conn[n].at \in {"run", "read", "write"},
           \A m \in Of(conn[n].peer) : ~conn[m].overlaps,
           NEW m \in Of(conn[n].peer), m # n
    PROVE  conn[m].state = "Disconnected"
<1>1. m \in DOMAIN conn /\ conn[m].peer = conn[n].peer /\ n \in Nat /\ m \in Nat
      /\ n \in Of(conn[n].peer)
    BY Typed DEF IInv, Of
<1>2. CASE m < n
    <2>1. conn[m].cleanup = "ran"
        BY <1>1, <1>2 DEF IInv, OneOpen
    <2>2. QED
        BY <1>1, <2>1 DEF IInv, Lifecycle
<1>3. CASE n < m
    <2>1. conn[n].cleanup = "ran"
        BY <1>1, <1>3 DEF IInv, OneOpen
    <2>2. conn[n].at = "done"
        BY <2>1 DEF IInv, Lifecycle
    <2>3. QED
        BY <2>2
<1>4. QED
    BY <1>1, <1>2, <1>3

(* An event that joins the queue.                                          *)
LEMMA OneMoreEvent ==
    ASSUME RegistryTypeOK, NEW e \in [peer : Peers, to : ConnStates], Published(e)
    PROVE  /\ events' \in Seq([peer : Peers, to : ConnStates]) /\ Len(events') <= EventCap
           /\ lost' \in BOOLEAN
           /\ ~lost' => /\ ~lost /\ events' = Append(events, e)
                        /\ DOMAIN events' = DOMAIN events \cup {Len(events) + 1}
                        /\ Len(events) + 1 \notin DOMAIN events
                        /\ events'[Len(events) + 1] = e
                        /\ \A i \in DOMAIN events :
                              events'[i] = events[i] /\ i < Len(events) + 1 /\ i \in Nat
<1> DEFINE E == [peer : Peers, to : ConnStates]
<1>1. events \in Seq(E) /\ Len(events) \in Nat /\ Len(events) <= EventCap /\ lost \in BOOLEAN
    BY Typed
<1>2. EventCap \in Nat /\ EventCap # 0
    BY IngressAssumption
<1>3. e \in E
    OBVIOUS
<1> HIDE DEF E
<1>4. lost' = (lost \/ Len(events) = EventCap)
    BY DEF Published
<1>5. CASE Len(events) < EventCap
    <2>1. events' = Append(events, e)
        BY <1>5 DEF Published
    <2>2. /\ events' \in Seq(E) /\ Len(events') = Len(events) + 1
          /\ events'[Len(events) + 1] = e
          /\ DOMAIN events' = 1 .. Len(events) + 1 /\ DOMAIN events = 1 .. Len(events)
          /\ \A i \in 1 .. Len(events) : events'[i] = events[i]
        BY <1>1, <1>3, <2>1
    <2>3. /\ 1 .. Len(events) + 1 = 1 .. Len(events) \cup {Len(events) + 1}
          /\ Len(events) + 1 \notin 1 .. Len(events)
          /\ \A i \in 1 .. Len(events) : i < Len(events) + 1 /\ i \in Nat
          /\ Len(events) + 1 <= EventCap
        BY <1>1, <1>2, <1>5
    <2>4. QED
        BY <1>1, <1>4, <2>1, <2>2, <2>3 DEF E
<1>6. CASE ~(Len(events) < EventCap)
    <2>1. events' = Append(Tail(events), e) /\ Len(events) = EventCap /\ events # <<>>
        BY <1>1, <1>2, <1>6 DEF Published
    <2>2. events' \in Seq(E) /\ Len(events') = Len(events)
        BY <1>1, <1>3, <2>1
    <2>3. lost' = TRUE /\ Len(events') <= EventCap
        BY <1>1, <1>2, <1>4, <2>1, <2>2
    <2>4. QED
        BY <2>2, <2>3 DEF E
<1>7. QED
    BY <1>5, <1>6

(* A session that announces its new state tells the forwarder the truth.   *)
LEMMA Announced ==
    ASSUME IInv, NEW n \in DOMAIN conn, NEW c \in Connections, SameEntry(c, conn[n]),
           conn' = [conn EXCEPT ![n] = c], conn[n].at \in {"run", "read", "write"},
           Published([peer |-> conn[n].peer, to |-> c.state]), active' = active,
           c.state \in {"Ready", "Disconnected"} \/ conn[n].state # "Ready"
    PROVE  /\ events' \in Seq([peer : Peers, to : ConnStates]) /\ Len(events') <= EventCap
           /\ lost' \in BOOLEAN /\ Told'
<1> DEFINE e == [peer |-> conn[n].peer, to |-> c.state]
           last == Len(events) + 1
<1>1. /\ DOMAIN conn' = DOMAIN conn /\ conn'[n] = c
      /\ \A m \in DOMAIN conn : m # n => conn'[m] = conn[m]
    BY Changed DEF IInv
<1>2. conn[n].peer \in Peers /\ c.state \in ConnStates
    BY Typed DEF IInv, Connections
<1>3. e \in [peer : Peers, to : ConnStates]
    BY <1>2
<1>4. /\ events' \in Seq([peer : Peers, to : ConnStates]) /\ Len(events') <= EventCap
      /\ lost' \in BOOLEAN
      /\ ~lost' => /\ ~lost /\ DOMAIN events' = DOMAIN events \cup {last}
                   /\ last \notin DOMAIN events /\ events'[last] = e
                   /\ \A i \in DOMAIN events : events'[i] = events[i] /\ i < last /\ i \in Nat
    BY <1>3, OneMoreEvent DEF IInv
<1>5. last \in Nat
    BY Typed DEF IInv
<1>6. e.peer = conn[n].peer /\ e.to = c.state
    OBVIOUS
<1> HIDE DEF e, last
<1>7. Told'
    <2> SUFFICES ASSUME ~lost', NEW p \in Peers, \A m \in Of(p)' : ~conn'[m].overlaps
                 PROVE  Counts(p)' <=> IsReady(p)'
        BY DEF Told
    <2>1. /\ DOMAIN events' = DOMAIN events \cup {last}
          /\ last \notin DOMAIN events /\ events'[last] = e
          /\ \A i \in DOMAIN events : events'[i] = events[i] /\ i < last /\ i \in Nat
        BY <1>4
    <2>2. Of(p)' = Of(p) /\ \A m \in Of(p) : ~conn[m].overlaps
        BY <1>1 DEF Of, SameEntry
    <2>3. Counts(p) <=> IsReady(p)
        BY <1>4, <2>2 DEF IInv, Told
    <2>4. CASE p # conn[n].peer
        <3>1. Telling(p)' = Telling(p)
            BY <1>6, <2>1, <2>4 DEF Telling
        <3>2. \A i \in Telling(p) : events'[i] = events[i]
            BY <2>1 DEF Telling
        <3>3. Counts(p)' <=> Counts(p)
            BY <3>1, <3>2 DEF Counts
        <3>4. IsReady(p)' <=> IsReady(p)
            BY <1>1, <2>2, <2>4 DEF IsReady, Of
        <3>5. QED
            BY <2>3, <3>3, <3>4
    <2>5. CASE p = conn[n].peer /\ c.state \notin {"Ready", "Disconnected"}
        <3>1. Telling(p)' = Telling(p)
            BY <1>6, <2>1, <2>5 DEF Telling
        <3>2. \A i \in Telling(p) : events'[i] = events[i]
            BY <2>1 DEF Telling
        <3>3. Counts(p)' <=> Counts(p)
            BY <3>1, <3>2 DEF Counts
        <3>4. IsReady(p)' <=> IsReady(p)
            BY <1>1, <2>2, <2>5 DEF IsReady, Of
        <3>5. QED
            BY <2>3, <3>3, <3>4
    <2>6. ASSUME p = conn[n].peer, c.state \in {"Ready", "Disconnected"}
          PROVE  /\ last \in Telling(p)' /\ \A j \in Telling(p)' : j <= last
                 /\ n \in Of(p)
        <3>1. last \in Telling(p)'
            BY <1>6, <2>1, <2>6 DEF Telling
        <3>2. \A j \in Telling(p)' : j <= last
            <4>1. \A j \in Nat : (j < last \/ j = last) => j <= last
                BY <1>5
            <4>2. \A j \in Telling(p)' : j \in Nat /\ (j < last \/ j = last)
                BY <1>5, <2>1 DEF Telling
            <4>3. QED
                BY <4>1, <4>2
        <3>3. QED
            BY <2>6, <3>1, <3>2 DEF Of
    <2>7. CASE p = conn[n].peer /\ c.state = "Ready"
        <3>1. Counts(p)'
            BY <1>6, <2>1, <2>6, <2>7 DEF Counts
        <3>2. IsReady(p)'
            BY <1>1, <2>2, <2>6, <2>7 DEF IsReady
        <3>3. QED
            BY <3>1, <3>2
    <2>8. CASE p = conn[n].peer /\ c.state = "Disconnected"
        <3>1. ~Counts(p)'
            <4> SUFFICES ASSUME NEW i \in Telling(p)', events'[i].to = "Ready",
                                \A j \in Telling(p)' : j <= i
                         PROVE  FALSE
                BY <2>6, <2>8 DEF Counts
            <4>1. last <= i /\ i <= last /\ (i \in Nat)
                BY <1>5, <2>1, <2>6, <2>8 DEF Telling
            <4>2. i = last
                BY <1>5, <4>1
            <4>3. QED
                BY <1>6, <2>1, <2>8, <4>2
        <3>2. ~IsReady(p)'
            <4> SUFFICES ASSUME NEW m \in Of(p), conn'[m].state = "Ready" PROVE FALSE
                BY <2>2 DEF IsReady
            <4>1. m # n /\ m \in DOMAIN conn
                BY <1>1, <2>8 DEF Of
            <4>2. conn[m].state = "Disconnected"
                BY <2>2, <2>8, <4>1, Alone
            <4>3. QED
                BY <1>1, <4>1, <4>2
        <3>3. QED
            BY <3>1, <3>2
    <2>9. QED
        BY <2>4, <2>5, <2>7, <2>8
<1>8. QED
    BY <1>4, <1>7

(* A session that announces nothing leaves it as it is.                    *)
LEMMA Unheard ==
    ASSUME IInv, NEW n \in DOMAIN conn, NEW c \in Connections, SameEntry(c, conn[n]),
           conn' = [conn EXCEPT ![n] = c], c.state = conn[n].state,
           UNCHANGED <<events, lost, active>>
    PROVE  /\ events' \in Seq([peer : Peers, to : ConnStates]) /\ Len(events') <= EventCap
           /\ lost' \in BOOLEAN /\ active' \subseteq Peers /\ Told'
<1>1. /\ DOMAIN conn' = DOMAIN conn /\ conn'[n] = c
      /\ \A m \in DOMAIN conn : m # n => conn'[m] = conn[m]
    BY Changed DEF IInv
<1>2. \A p \in Peers : Of(p)' = Of(p)
    BY <1>1 DEF Of, SameEntry
<1>3. \A p \in Peers : Counts(p)' <=> Counts(p)
    BY DEF Counts, Telling
<1>4. \A p \in Peers : IsReady(p)' <=> IsReady(p)
    BY <1>1, <1>2 DEF IsReady, Of
<1>5. \A p \in Peers :
          (\A m \in Of(p)' : ~conn'[m].overlaps) <=> \A m \in Of(p) : ~conn[m].overlaps
    BY <1>1, <1>2 DEF Of, SameEntry
<1>6. Told'
    BY <1>3, <1>4, <1>5 DEF IInv, Told
<1>7. QED
    BY <1>6, Typed DEF IInv

(* A session that does not write the snapshot, and owes it no less.        *)
LEMMA StillOwed ==
    ASSUME IInv, NEW n \in DOMAIN conn, NEW c \in Connections, SameEntry(c, conn[n]),
           conn' = [conn EXCEPT ![n] = c], store' = store,
           Owes(n) => c.state # "Disconnected" \/ (c.ending /\ c.at # "done")
    PROVE  StoreOwed' /\ store' \in [Peers -> ConnStates \cup {"none"}]
<1>1. /\ DOMAIN conn' = DOMAIN conn /\ conn'[n] = c
      /\ \A m \in DOMAIN conn : m # n => conn'[m] = conn[m]
    BY Changed DEF IInv
<1>2. \A p \in Peers : Of(p)' = Of(p)
    BY <1>1 DEF Of, SameEntry
<1>3. \A m \in DOMAIN conn : Owes(m) => Owes(m)'
    BY <1>1 DEF Owes
<1>4. StoreOwed'
    <2> SUFFICES ASSUME NEW p \in Peers, store[p] \notin {"none", "Disconnected"}
                 PROVE  \E m \in Of(p)' : Owes(m)'
        BY DEF StoreOwed
    <2>1. PICK m \in Of(p) : Owes(m)
        BY DEF IInv, StoreOwed
    <2>2. QED
        BY <1>2, <1>3, <2>1 DEF Of
<1>5. QED
    BY <1>4, Typed DEF IInv

-----------------------------------------------------------------------------
(* The steps of a session. *)

(* The fields of a connection.                                             *)
LEMMA Fields ==
    ASSUME NEW c \in Connections
    PROVE  /\ c.peer \in Peers /\ c.open \in BOOLEAN
           /\ c.at \in {"backlog", "run", "read", "write", "done"}
           /\ c.state \in ConnStates /\ c.copy \in ConnStates \cup {"none"}
           /\ c.writes \in {"none", "state", "telemetry"} /\ c.held \in BOOLEAN
           /\ c.ending \in BOOLEAN /\ c.cleanup \in {"none", "waiting", "ran"}
           /\ c.samples \in 0 .. MaxSamples /\ c.overlaps \in BOOLEAN
BY DEF Connections

(* A connection with another value in one field is a connection.           *)
LEMMA WithField ==
    ASSUME NEW c \in Connections
    PROVE  /\ [c EXCEPT !.open = FALSE] \in Connections
           /\ \A x \in {"run", "read", "write", "done"} : [c EXCEPT !.at = x] \in Connections
           /\ \A x \in ConnStates : [c EXCEPT !.state = x] \in Connections
           /\ \A x \in ConnStates \cup {"none"} : [c EXCEPT !.copy = x] \in Connections
           /\ \A x \in {"state", "telemetry"} : [c EXCEPT !.writes = x] \in Connections
           /\ \A x \in BOOLEAN : [c EXCEPT !.ending = x] \in Connections
           /\ \A x \in BOOLEAN : [c EXCEPT !.held = x] \in Connections
           /\ \A x \in {"none", "waiting", "ran"} : [c EXCEPT !.cleanup = x] \in Connections
           /\ \A x \in 0 .. MaxSamples : [c EXCEPT !.samples = x] \in Connections
BY DEF Connections

(* set_state keeps the invariant: a session goes on, or ends because its   *)
(* peer has closed or its handle is gone.                                  *)
LEMMA SetStateStep ==
    ASSUME IInv, NEW n \in DOMAIN conn, NEW to \in ConnStates, SetState(n, to),
           conn[n].at \in {"run", "read", "write"}, ~conn[n].ending,
           to \in {"Ready", "Disconnected"} \/ conn[n].state # "Ready",
           to = "Disconnected" => ~conn[n].open \/ ~conn[n].held
    PROVE  IInv'
<1> DEFINE old == conn[n]
           c == [old EXCEPT !.state = to, !.at = "read", !.writes = "state",
                            !.ending = (to = "Disconnected")]
<1>1. old \in Connections /\ RegistryTypeOK
    BY Typed DEF IInv
<1>2. /\ c \in Connections /\ SameEntry(c, old)
      /\ c.at = "read" /\ c.state = to /\ c.writes = "state"
      /\ c.ending = (to = "Disconnected")
    <2>1. PICK d1 \in Connections : d1 = [old EXCEPT !.state = to]
        BY <1>1, WithField
    <2>2. PICK d2 \in Connections : d2 = [d1 EXCEPT !.at = "read"]
        BY WithField
    <2>3. PICK d3 \in Connections : d3 = [d2 EXCEPT !.writes = "state"]
        BY WithField
    <2>4. [d3 EXCEPT !.ending = (to = "Disconnected")] \in Connections
        BY WithField
    <2>5. c \in Connections
        BY <2>1, <2>2, <2>3, <2>4
    <2>6. QED
        BY <1>1, <2>5 DEF Connections, SameEntry
<1>3. conn' = [conn EXCEPT ![n] = c]
    BY Typed DEF IInv, SetState
<1>4. /\ Published([peer |-> conn[n].peer, to |-> c.state])
      /\ UNCHANGED <<stage, accepting, sessions, store, active>>
    BY <1>2 DEF SetState
<1> HIDE DEF c
<1>5. /\ events' \in Seq([peer : Peers, to : ConnStates]) /\ Len(events') <= EventCap
      /\ lost' \in BOOLEAN /\ Told'
    BY <1>2, <1>3, <1>4, Announced
<1>6. StoreOwed' /\ store' \in [Peers -> ConnStates \cup {"none"}]
    BY <1>2, <1>3, <1>4, StillOwed
<1>7. active' \subseteq Peers
    BY <1>1, <1>4, Typed
<1>8. QED
    BY <1>2, <1>3, <1>4, <1>5, <1>6, <1>7, SessionStep

(* A step of a session within itself.                                      *)
LEMMA InnerStep ==
    ASSUME IInv, NEW n \in DOMAIN conn, NEW c \in Connections, SameEntry(c, conn[n]),
           conn' = [conn EXCEPT ![n] = c], c.state = conn[n].state,
           conn[n].at \in {"run", "read", "write"},
           c.at \in {"run", "read", "write", "done"},
           c.at = "done" => c.ending,
           c.ending => c.at \in {"read", "write", "done"} /\ c.state = "Disconnected",
           c.ending /\ c.at # "done" => c.writes = "state",
           c.at \in {"read", "write"} => c.ending \/ c.state # "Disconnected",
           c.ending => conn[n].ending \/ ~conn[n].open \/ ~conn[n].held,
           UNCHANGED <<stage, accepting, sessions, events, lost, active>>,
           store' \in [Peers -> ConnStates \cup {"none"}], StoreOwed'
    PROVE  IInv'
BY Unheard, SessionStep

(* Advance, and the end of what a peer sends.                              *)
LEMMA AdvanceStep ==
    ASSUME IInv, NEW n \in DOMAIN conn, Advance(n) \/ ReadEnds(n)
    PROVE  IInv'
<1>1. conn[n].at = "run" /\ ~conn[n].ending /\ conn[n].state \in ConnStates
    BY Typed, Fields DEF IInv, Lifecycle, Advance, ReadEnds
<1>2. CASE Advance(n)
    <2>1. conn[n].state # "Ready" /\ SetState(n, NextState(conn[n].state))
        BY <1>2 DEF Advance
    <2>2. NextState(conn[n].state) \in {"Connecting", "Handshaking", "Ready"}
        BY <1>1, <2>1 DEF NextState, ConnStates
    <2>3. PICK to \in {"Connecting", "Handshaking", "Ready"} : SetState(n, to)
        BY <2>1, <2>2
    <2>4. to \in ConnStates /\ to # "Disconnected"
        BY DEF ConnStates
    <2>5. QED
        BY <1>1, <2>1, <2>3, <2>4, SetStateStep
<1>3. CASE ReadEnds(n)
    <2>1. ~conn[n].open /\ SetState(n, "Disconnected")
        BY <1>3 DEF ReadEnds
    <2>2. "Disconnected" \in ConnStates
        BY DEF ConnStates
    <2>3. QED
        BY <1>1, <2>1, <2>2, SetStateStep
<1>4. QED
    BY <1>2, <1>3

(* A sample, and the two halves of updating the snapshot.                  *)
LEMMA SampleStep == ASSUME IInv, NEW n \in DOMAIN conn, Sample(n) PROVE IInv'
<1> DEFINE old == conn[n]
           c == [old EXCEPT !.at = "read", !.writes = "telemetry", !.samples = @ + 1]
<1>1. /\ old \in Connections /\ conn \in Seq(Connections)
      /\ old.at = "run" /\ old.state = "Ready" /\ old.samples < MaxSamples
      /\ conn' = [conn EXCEPT ![n].at = "read", ![n].writes = "telemetry", ![n].samples = @ + 1]
      /\ UNCHANGED <<stage, accepting, sessions, store, events, lost, active>>
    BY Typed DEF IInv, Sample
<1>2. ~old.ending
    BY <1>1 DEF IInv, Lifecycle
<1>3. old.samples + 1 \in 0 .. MaxSamples
    BY <1>1, Fields, IngressAssumption
<1>4. /\ c \in Connections /\ SameEntry(c, old)
      /\ c.at = "read" /\ c.state = "Ready" /\ c.writes = "telemetry" /\ ~c.ending
    <2>1. PICK d1 \in Connections : d1 = [old EXCEPT !.at = "read"]
        BY <1>1, WithField
    <2>2. PICK d2 \in Connections : d2 = [d1 EXCEPT !.writes = "telemetry"]
        BY WithField
    <2>3. d2.samples = old.samples
        BY <1>1, <2>1, <2>2 DEF Connections
    <2>4. [d2 EXCEPT !.samples = @ + 1] \in Connections
        BY <1>3, <2>3, WithField
    <2>5. c \in Connections
        BY <2>1, <2>2, <2>4
    <2>6. QED
        BY <1>1, <1>2, <2>5 DEF Connections, SameEntry
<1>5. conn' = [conn EXCEPT ![n] = c]
    BY <1>1
<1> HIDE DEF c
<1>6. StoreOwed' /\ store' \in [Peers -> ConnStates \cup {"none"}]
    BY <1>1, <1>4, <1>5, StillOwed
<1>7. QED
    BY <1>1, <1>4, <1>5, <1>6, InnerStep

(* Reading the snapshot.                                                   *)
LEMMA ReadStep == ASSUME IInv, NEW n \in DOMAIN conn, ReadSnapshot(n) PROVE IInv'
<1> DEFINE old == conn[n]
           c == [old EXCEPT !.at = "write", !.copy = store[old.peer]]
<1>1. /\ old \in Connections /\ conn \in Seq(Connections) /\ old.peer \in Peers
      /\ store \in [Peers -> ConnStates \cup {"none"}]
      /\ old.at = "read"
      /\ conn' = [conn EXCEPT ![n].at = "write", ![n].copy = store[conn[n].peer]]
      /\ UNCHANGED <<stage, accepting, sessions, store, events, lost, active>>
    BY Typed DEF IInv, ReadSnapshot
<1>2. /\ c \in Connections /\ SameEntry(c, old)
      /\ c.at = "write" /\ c.state = old.state /\ c.writes = old.writes
      /\ c.ending = old.ending
    <2>1. PICK d1 \in Connections : d1 = [old EXCEPT !.at = "write"]
        BY <1>1, WithField
    <2>2. store[old.peer] \in ConnStates \cup {"none"}
        BY <1>1
    <2>3. [d1 EXCEPT !.copy = store[old.peer]] \in Connections
        BY <2>2, WithField
    <2>4. c \in Connections
        BY <2>1, <2>3
    <2>5. QED
        BY <1>1, <2>4 DEF Connections, SameEntry
<1>3. conn' = [conn EXCEPT ![n] = c]
    BY <1>1
<1>4. /\ old.ending => old.state = "Disconnected" /\ old.writes = "state"
      /\ old.ending \/ old.state # "Disconnected"
    BY <1>1 DEF IInv, Lifecycle
<1> HIDE DEF c
<1>5. StoreOwed' /\ store' \in [Peers -> ConnStates \cup {"none"}]
    BY <1>1, <1>2, <1>3, <1>4, StillOwed
<1>6. QED
    BY <1>1, <1>2, <1>3, <1>4, <1>5, InnerStep

(* Writing it back: the last thing that a session writes is Disconnected.  *)
LEMMA WriteStep == ASSUME IInv, NEW n \in DOMAIN conn, WriteSnapshot(n) PROVE IInv'
<1> DEFINE old == conn[n]
           at == IF old.ending THEN "done" ELSE "run"
           c == [old EXCEPT !.at = at, !.copy = "none"]
           written == CASE old.writes = "state" -> old.state
                        [] old.copy = "none"    -> "Disconnected"
                        [] OTHER                -> old.copy
<1>1. /\ old \in Connections /\ conn \in Seq(Connections) /\ old.peer \in Peers
      /\ store \in [Peers -> ConnStates \cup {"none"}]
      /\ old.at = "write"
      /\ conn' = [conn EXCEPT ![n].at = IF conn[n].ending THEN "done" ELSE "run",
                              ![n].copy = "none"]
      /\ store' = [store EXCEPT ![old.peer] = written]
      /\ UNCHANGED <<stage, accepting, sessions, events, lost, active>>
    BY Typed DEF IInv, WriteSnapshot
<1>2. /\ old.ending \in BOOLEAN /\ old.state \in ConnStates
      /\ old.samples \in 0 .. MaxSamples /\ old.copy \in ConnStates \cup {"none"}
      /\ old.writes \in {"none", "state", "telemetry"}
    BY <1>1, Fields DEF Connections
<1>3. /\ c \in Connections /\ SameEntry(c, old)
      /\ c.at = at /\ c.state = old.state /\ c.writes = old.writes /\ c.ending = old.ending
    <2>1. at \in {"run", "done"} /\ "none" \in ConnStates \cup {"none"}
        OBVIOUS
    <2> HIDE DEF at
    <2>2. PICK d1 \in Connections : d1 = [old EXCEPT !.at = at]
        BY <1>1, <2>1, WithField
    <2>3. [d1 EXCEPT !.copy = "none"] \in Connections
        BY <2>1, WithField
    <2>4. c \in Connections
        BY <2>2, <2>3
    <2>5. QED
        BY <1>1, <2>4 DEF Connections, SameEntry
<1>4. conn' = [conn EXCEPT ![n] = c]
    BY <1>1
<1>5. written \in ConnStates \cup {"none"} /\ (old.ending => written = "Disconnected")
    <2>1. old.ending => old.writes = "state" /\ old.state = "Disconnected"
        BY <1>1 DEF IInv, Lifecycle
    <2>2. "Disconnected" \in ConnStates
        BY DEF ConnStates
    <2>3. QED
        BY <1>2, <2>1, <2>2
<1>6. /\ old.ending => old.state = "Disconnected" /\ old.writes = "state"
      /\ old.ending \/ old.state # "Disconnected"
      /\ old.ending => at = "done"
      /\ ~old.ending => at = "run"
    BY <1>1 DEF IInv, Lifecycle
<1> HIDE DEF c, at, written
<1>7. store' \in [Peers -> ConnStates \cup {"none"}]
    BY <1>1, <1>5
<1>8. StoreOwed'
    <2>1. /\ DOMAIN conn' = DOMAIN conn /\ conn'[n] = c
          /\ \A m \in DOMAIN conn : m # n => conn'[m] = conn[m]
        BY <1>3, <1>4, Changed DEF IInv
    <2>2. \A p \in Peers : Of(p)' = Of(p)
        BY <1>3, <2>1 DEF Of, SameEntry
    <2> SUFFICES ASSUME NEW p \in Peers, store'[p] \notin {"none", "Disconnected"}
                 PROVE  \E m \in Of(p) : Owes(m)'
        BY <2>2 DEF StoreOwed
    <2>3. CASE p = old.peer
        <3>1. store'[p] = written
            BY <1>1, <2>3
        <3>2. ~old.ending /\ n \in Of(p)
            BY <1>5, <2>3, <3>1 DEF Of
        <3>3. c.state # "Disconnected"
            BY <1>3, <1>6, <3>2
        <3>4. Owes(n)'
            BY <2>1, <3>3 DEF Owes
        <3>5. QED
            BY <3>2, <3>4
    <2>4. CASE p # old.peer
        <3>1. store'[p] = store[p]
            BY <1>1, <2>4
        <3>2. PICK m \in Of(p) : Owes(m)
            BY <3>1 DEF IInv, StoreOwed
        <3>3. m # n /\ m \in DOMAIN conn
            BY <2>4 DEF Of
        <3>4. Owes(m)'
            BY <2>1, <3>2, <3>3 DEF Owes
        <3>5. QED
            BY <3>2, <3>4
    <2>5. QED
        BY <2>3, <2>4
<1>9. QED
    BY <1>1, <1>3, <1>4, <1>6, <1>7, <1>8, InnerStep

(* The last handle of a session is gone.                                   *)
LEMMA HandleDroppedStep == ASSUME IInv, NEW n \in DOMAIN conn, HandleDropped(n) PROVE IInv'
<1>1. conn[n].at \in {"run", "read", "write"} /\ ~conn[n].held /\ ~conn[n].ending
    BY DEF HandleDropped
<1>2. CASE SaysStopped(n)
    <2>1. SetState(n, "Disconnected")
        BY <1>2 DEF HandleDropped
    <2>2. "Disconnected" \in ConnStates
        BY DEF ConnStates
    <2>3. QED
        BY <1>1, <2>1, <2>2, SetStateStep
<1>3. CASE ~SaysStopped(n)
    <2> DEFINE old == conn[n]
               c == [old EXCEPT !.at = "done", !.ending = TRUE, !.copy = "none"]
    <2>1. /\ old \in Connections /\ conn \in Seq(Connections) /\ old.state = "Disconnected"
          /\ conn' = [conn EXCEPT ![n].at = "done", ![n].ending = TRUE, ![n].copy = "none"]
          /\ UNCHANGED <<stage, accepting, sessions, store, events, lost, active>>
        BY <1>3, Typed DEF IInv, HandleDropped, SaysStopped
    <2>2. /\ c \in Connections /\ SameEntry(c, old)
          /\ c.at = "done" /\ c.state = old.state /\ c.ending
        <3>1. PICK d1 \in Connections : d1 = [old EXCEPT !.at = "done"]
            BY <2>1, WithField
        <3>2. PICK d2 \in Connections : d2 = [d1 EXCEPT !.ending = TRUE]
            BY WithField
        <3>3. [d2 EXCEPT !.copy = "none"] \in Connections
            BY WithField
        <3>4. c \in Connections
            BY <3>1, <3>2, <3>3
        <3>5. QED
            BY <2>1, <3>4 DEF Connections, SameEntry
    <2>3. conn' = [conn EXCEPT ![n] = c]
        BY <2>1
    <2> HIDE DEF c
    <2>4. ~Owes(n)
        BY <1>1, <2>1 DEF Owes
    <2>5. StoreOwed' /\ store' \in [Peers -> ConnStates \cup {"none"}]
        BY <2>1, <2>2, <2>3, <2>4, StillOwed
    <2>6. QED
        BY <1>1, <2>1, <2>2, <2>3, <2>5, InnerStep
<1>4. QED
    BY <1>2, <1>3

-----------------------------------------------------------------------------
(* The steps of the peers, of the accept loop and of the cleanup tasks. *)

(* What such a step leaves to a connection.                                *)
SameSession(d, c) ==
    /\ d.peer = c.peer /\ d.state = c.state /\ d.ending = c.ending
    /\ d.overlaps = c.overlaps /\ (d.open => c.open)
    /\ (c.cleanup = "ran" => d.cleanup = "ran")
    /\ d.at = c.at \/ (c.at = "backlog" /\ d.at = "run")

(* It keeps the invariant, if the registry and the handles are right.      *)
LEMMA EntryStep ==
    ASSUME IInv, conn' \in Seq(Connections), Len(conn') = Len(conn),
           \A m \in DOMAIN conn : SameSession(conn'[m], conn[m]),
           stage' = stage, accepting' \in 0 .. Len(conn), sessions' \in [Peers -> 0 .. Len(conn)],
           UNCHANGED <<store, events, lost, active>>,
           NoHandleLeak', Lifecycle', Dropped'
    PROVE  IInv'
<1>1. DOMAIN conn' = DOMAIN conn
    BY Typed DEF IInv
<1>2. RegistryTypeOK'
    BY DEF IInv, RegistryTypeOK
<1>3. OneOpen'
    BY <1>1 DEF IInv, OneOpen, SameSession
<1>4. \A p \in Peers : Of(p)' = Of(p)
    BY <1>1 DEF Of, SameSession
<1>5. \A m \in DOMAIN conn : conn[m].peer \in Peers /\ conn'[m].peer = conn[m].peer
    BY Typed DEF IInv, SameSession
<1>6. \A m \in DOMAIN conn : Overlapped(m)' <=> Overlapped(m)
    BY <1>1, <1>4, <1>5 DEF Overlapped, Of, SameSession
<1>7. Served'
    BY <1>1, <1>6 DEF IInv, Served, SameSession
<1>8. \A m \in DOMAIN conn : Owes(m)' <=> Owes(m)
    BY <1>1 DEF IInv, Lifecycle, Owes, SameSession
<1>9. StoreOwed'
    BY <1>4, <1>8 DEF IInv, StoreOwed, Of
<1>10. Told'
    <2>1. \A p \in Peers : Counts(p)' <=> Counts(p)
        BY DEF Counts, Telling
    <2>2. \A p \in Peers : IsReady(p)' <=> IsReady(p)
        BY <1>4 DEF IsReady, Of, SameSession
    <2>3. \A p \in Peers :
              (\A m \in Of(p)' : ~conn'[m].overlaps) <=> \A m \in Of(p) : ~conn[m].overlaps
        BY <1>4 DEF Of, SameSession
    <2>4. QED
        BY <2>1, <2>2, <2>3 DEF IInv, Told
<1>11. QED
    BY <1>2, <1>3, <1>7, <1>9, <1>10 DEF IInv

(* A peer closes its connection.                                           *)
LEMMA PeerClosesStep == ASSUME IInv, NEW n \in DOMAIN conn, PeerCloses(n) PROVE IInv'
<1> DEFINE c == [conn[n] EXCEPT !.open = FALSE]
<1>1. conn[n] \in Connections
    BY Typed DEF IInv
<1>2. /\ c \in Connections /\ SameSession(c, conn[n]) /\ ~c.open
      /\ c.at = conn[n].at /\ c.held = conn[n].held /\ c.cleanup = conn[n].cleanup
      /\ c.writes = conn[n].writes
    <2>1. c \in Connections
        BY <1>1, WithField
    <2>2. QED
        BY <1>1, <2>1 DEF Connections, SameSession
<1>3. /\ conn' = [conn EXCEPT ![n] = c]
      /\ UNCHANGED <<stage, accepting, sessions, store, events, lost, active>>
    BY Typed DEF IInv, PeerCloses
<1> HIDE DEF c
<1>4. /\ conn' \in Seq(Connections) /\ Len(conn') = Len(conn)
      /\ DOMAIN conn' = DOMAIN conn /\ conn'[n] = c
      /\ \A m \in DOMAIN conn : m # n => conn'[m] = conn[m]
    BY <1>2, <1>3, Changed DEF IInv
<1>5. \A m \in DOMAIN conn : /\ SameSession(conn'[m], conn[m]) /\ conn'[m].at = conn[m].at
                             /\ conn'[m].held = conn[m].held
                             /\ conn'[m].cleanup = conn[m].cleanup
                             /\ conn'[m].writes = conn[m].writes
    BY <1>2, <1>4 DEF SameSession
<1>6. /\ accepting # 0 => accepting \in DOMAIN conn
      /\ \A p \in Peers : sessions[p] # 0 => sessions[p] \in DOMAIN conn
      /\ accepting \in 0 .. Len(conn) /\ sessions \in [Peers -> 0 .. Len(conn)]
    BY Typed DEF IInv
<1>7. NoHandleLeak'
    BY <1>3, <1>4, <1>5, <1>6 DEF IInv, NoHandleLeak, SameSession
<1>8. Lifecycle'
    BY <1>3, <1>4, <1>5, <1>6 DEF IInv, Lifecycle, SameSession
<1>9. \A m \in DOMAIN conn : Overlapped(m) => Overlapped(m)'
    BY <1>4, <1>5 DEF Overlapped, Of, SameSession
<1>10. Dropped'
    BY <1>4, <1>5, <1>9 DEF IInv, Dropped, SameSession
<1>11. QED
    BY <1>3, <1>4, <1>5, <1>6, <1>7, <1>8, <1>10, EntryStep

(* The accept loop takes the next connection.                              *)
LEMMA AcceptStep == ASSUME IInv, NEW n \in DOMAIN conn, Accept(n) PROVE IInv'
<1> DEFINE c == [conn[n] EXCEPT !.at = "run", !.held = TRUE]
<1>1. conn[n] \in Connections /\ conn[n].at = "backlog" /\ accepting = 0
    BY Typed DEF IInv, Accept
<1>2. /\ c \in Connections /\ SameSession(c, conn[n])
      /\ c.at = "run" /\ c.held = TRUE /\ c.cleanup = conn[n].cleanup
      /\ c.writes = conn[n].writes
    <2>1. PICK d \in Connections : d = [conn[n] EXCEPT !.at = "run"]
        BY <1>1, WithField
    <2>2. [d EXCEPT !.held = TRUE] \in Connections
        BY WithField
    <2>3. c \in Connections
        BY <2>1, <2>2
    <2>4. QED
        BY <1>1, <2>3 DEF Connections, SameSession
<1>3. /\ conn' = [conn EXCEPT ![n] = c] /\ accepting' = n
      /\ UNCHANGED <<stage, sessions, store, events, lost, active>>
    BY Typed DEF IInv, Accept
<1> HIDE DEF c
<1>4. /\ conn' \in Seq(Connections) /\ Len(conn') = Len(conn)
      /\ DOMAIN conn' = DOMAIN conn /\ conn'[n] = c
      /\ \A m \in DOMAIN conn : m # n => conn'[m] = conn[m]
    BY <1>2, <1>3, Changed DEF IInv
<1>5. \A m \in DOMAIN conn : SameSession(conn'[m], conn[m])
    BY <1>2, <1>4 DEF SameSession
<1>6. /\ \A p \in Peers : sessions[p] # 0 => sessions[p] \in DOMAIN conn
      /\ DOMAIN conn = 1 .. Len(conn) /\ sessions \in [Peers -> 0 .. Len(conn)]
      /\ Len(conn) \in Nat /\ n # 0
      /\ \A m \in DOMAIN conn : m # 0 /\ m \in Nat /\ conn[m].peer \in Peers
    BY Typed DEF IInv
<1>7. /\ conn[n].cleanup = "none" /\ ~conn[n].held /\ ~conn[n].ending
      /\ conn[n].state = "Disconnected"
      /\ \A m \in DOMAIN conn : n < m => conn[m].at = "backlog"
    BY <1>1 DEF IInv, Lifecycle
<1>8. NoHandleLeak'
    <2>1. \A p \in Peers : sessions[p] # 0 =>
              /\ sessions[p] # n /\ conn[sessions[p]].peer = p
              /\ conn[sessions[p]].held /\ conn[sessions[p]].cleanup = "waiting"
        BY <1>7 DEF IInv, NoHandleLeak
    <2>2. \A m \in DOMAIN conn : m # n /\ conn[m].held => m = sessions[conn[m].peer]
        BY <1>1, <1>6 DEF IInv, NoHandleLeak
    <2>3. QED
        BY <1>3, <1>4, <1>6, <2>1, <2>2 DEF NoHandleLeak
<1>9. Lifecycle'
    <2>1. \A m \in DOMAIN conn : n < m => m # n
        BY <1>6
    <2>2. ASSUME NEW m \in DOMAIN conn
          PROVE  /\ conn'[m].at = "backlog" =>
                       /\ conn'[m].cleanup = "none" /\ ~conn'[m].held /\ ~conn'[m].ending
                       /\ conn'[m].state = "Disconnected"
                       /\ \A k \in DOMAIN conn : m < k => conn'[k].at = "backlog"
                 /\ conn'[m].at = "done" => conn'[m].ending
                 /\ conn'[m].ending => /\ conn'[m].at \in {"read", "write", "done"}
                                       /\ conn'[m].state = "Disconnected"
                 /\ conn'[m].ending /\ conn'[m].at # "done" => conn'[m].writes = "state"
                 /\ conn'[m].at \in {"read", "write"} =>
                       conn'[m].ending \/ conn'[m].state # "Disconnected"
                 /\ conn'[m].cleanup = "ran" => conn'[m].at = "done"
        <3>1. CASE m = n
            BY <1>2, <1>4, <1>7, <3>1 DEF SameSession
        <3>2. CASE m # n
            <4>1. ASSUME conn[m].at = "backlog", NEW k \in DOMAIN conn, m < k
                  PROVE  k # n /\ conn[k].at = "backlog"
                <5>1. \A j \in 1 .. (n - 1) : conn[j].at # "backlog"
                    BY DEF Accept
                <5>2. ~(m < n)
                    BY <1>6, <4>1, <5>1
                <5>3. conn[k].at = "backlog"
                    BY <4>1 DEF IInv, Lifecycle
                <5>4. QED
                    BY <4>1, <5>2, <5>3
            <4>2. QED
                BY <1>4, <3>2, <4>1 DEF IInv, Lifecycle
        <3>3. QED
            BY <3>1, <3>2
    <2>3. /\ conn'[n].at # "backlog" /\ conn'[n].cleanup = "none" /\ conn'[n].held
          /\ \A m \in DOMAIN conn : n < m => conn'[m].at = "backlog"
        BY <1>2, <1>4, <1>7, <2>1
    <2>4. QED
        BY <1>3, <1>4, <2>2, <2>3 DEF Lifecycle
<1>10. Dropped'
    <2>1. \A m \in DOMAIN conn : Overlapped(m) => Overlapped(m)'
        BY <1>4, <1>5 DEF Overlapped, Of, SameSession
    <2>2. QED
        BY <1>2, <1>4, <1>5, <2>1 DEF IInv, Dropped, SameSession
<1>11. QED
    BY <1>3, <1>4, <1>5, <1>6, <1>8, <1>9, <1>10, EntryStep

\* Connection m, if the handle of old is dropped and n is marked for its cleanup.
Entry(c, m, old, n, to) ==
    [c EXCEPT !.held = IF m = old THEN FALSE ELSE @, !.cleanup = IF m = n THEN to ELSE @]

\* All connections become that.
AllEntries(old, n, to) == conn' = [m \in DOMAIN conn |-> Entry(conn[m], m, old, n, to)]

(* It is that connection otherwise.                                        *)
LEMMA EntryFields ==
    ASSUME NEW c \in Connections, NEW m, NEW old, NEW n, NEW to \in {"waiting", "ran"},
           NEW d, d = Entry(c, m, old, n, to)
    PROVE  /\ d \in Connections /\ d.peer = c.peer /\ d.open = c.open
           /\ d.at = c.at /\ d.state = c.state /\ d.writes = c.writes
           /\ d.ending = c.ending /\ d.overlaps = c.overlaps
           /\ d.held <=> c.held /\ m # old
           /\ d.cleanup = IF m = n THEN to ELSE c.cleanup
<1>1. PICK h \in BOOLEAN : h <=> c.held /\ m # old
    OBVIOUS
<1>2. PICK u \in {"none", "waiting", "ran"} : u = IF m = n THEN to ELSE c.cleanup
    BY Fields
<1>3. h = IF m = old THEN FALSE ELSE c.held
    BY <1>1, Fields
<1>4. PICK d1 \in Connections : d1 = [c EXCEPT !.held = h]
    BY WithField
<1>5. /\ d1.peer = c.peer /\ d1.open = c.open /\ d1.at = c.at /\ d1.state = c.state
      /\ d1.writes = c.writes /\ d1.ending = c.ending
      /\ d1.overlaps = c.overlaps /\ d1.held = h /\ d1.cleanup = c.cleanup
    BY <1>4 DEF Connections
<1>6. PICK d2 \in Connections : d2 = [d1 EXCEPT !.cleanup = u]
    BY WithField
<1>7. /\ d2.peer = d1.peer /\ d2.open = d1.open /\ d2.at = d1.at /\ d2.state = d1.state
      /\ d2.writes = d1.writes /\ d2.ending = d1.ending
      /\ d2.overlaps = d1.overlaps /\ d2.held = d1.held /\ d2.cleanup = u
    <2> HIDE <1>4
    <2>1. QED
        BY <1>6 DEF Connections
<1>8. d2 = d
    BY <1>2, <1>3, <1>4, <1>5, <1>6 DEF Entry
<1>9. QED
    BY <1>1, <1>2, <1>5, <1>6, <1>7, <1>8

(* All connections, then.                                                  *)
LEMMA Entries ==
    ASSUME RegistryTypeOK, NEW old, NEW n, NEW to \in {"waiting", "ran"},
           AllEntries(old, n, to)
    PROVE  /\ conn' \in Seq(Connections) /\ Len(conn') = Len(conn)
           /\ DOMAIN conn' = DOMAIN conn
           /\ \A m \in DOMAIN conn :
                 /\ conn'[m].peer = conn[m].peer /\ conn'[m].open = conn[m].open
                 /\ conn'[m].at = conn[m].at /\ conn'[m].state = conn[m].state
                 /\ conn'[m].writes = conn[m].writes /\ conn'[m].ending = conn[m].ending
                 /\ conn'[m].overlaps = conn[m].overlaps
                 /\ conn'[m].held <=> conn[m].held /\ m # old
                 /\ conn'[m].cleanup = IF m = n THEN to ELSE conn[m].cleanup
<1>1. /\ conn \in Seq(Connections) /\ Len(conn) \in Nat /\ DOMAIN conn = 1 .. Len(conn)
      /\ \A m \in DOMAIN conn : conn[m] \in Connections
    BY Typed
<1>2. ASSUME NEW m \in DOMAIN conn
      PROVE  /\ conn'[m] \in Connections
             /\ conn'[m].peer = conn[m].peer /\ conn'[m].open = conn[m].open
             /\ conn'[m].at = conn[m].at /\ conn'[m].state = conn[m].state
             /\ conn'[m].writes = conn[m].writes /\ conn'[m].ending = conn[m].ending
             /\ conn'[m].overlaps = conn[m].overlaps
             /\ conn'[m].held <=> conn[m].held /\ m # old
             /\ conn'[m].cleanup = IF m = n THEN to ELSE conn[m].cleanup
    <2>1. PICK c \in Connections : c = conn[m]
        BY <1>1
    <2>2. PICK d : d = conn'[m]
        OBVIOUS
    <2>3. d = Entry(c, m, old, n, to)
        BY <2>1, <2>2 DEF AllEntries
    <2>4. /\ d \in Connections /\ d.peer = c.peer /\ d.open = c.open
          /\ d.at = c.at /\ d.state = c.state /\ d.writes = c.writes
          /\ d.ending = c.ending /\ d.overlaps = c.overlaps
          /\ d.held <=> c.held /\ m # old
          /\ d.cleanup = IF m = n THEN to ELSE c.cleanup
        BY <2>3, EntryFields
    <2>5. QED
        BY <2>1, <2>2, <2>4
<1>3. DOMAIN conn' = 1 .. Len(conn)
    BY <1>1 DEF AllEntries
<1>4. conn' \in [1 .. Len(conn) -> Connections]
    BY <1>1, <1>2 DEF AllEntries
<1>5. conn' \in Seq(Connections) /\ Len(conn') = Len(conn)
    BY <1>1, <1>3, <1>4
<1>6. QED
    BY <1>1, <1>2, <1>3, <1>5

(* The handle is registered; one that was registered under the same        *)
(* address is dropped, and its peer has closed.                            *)
LEMMA RegisterStep == ASSUME IInv, Register PROVE IInv'
<1>1. PICK acc \in DOMAIN conn : acc = accepting /\ acc # 0
    BY Typed DEF IInv, Register
<1>2. PICK p \in Peers : p = conn[acc].peer
    BY Typed DEF IInv
<1>3. PICK old : old = sessions[p]
    OBVIOUS
<1>4. /\ sessions \in [Peers -> 0 .. Len(conn)] /\ DOMAIN conn = 1 .. Len(conn)
      /\ Len(conn) \in Nat /\ (old # 0 => old \in DOMAIN conn)
      /\ \A q \in Peers : sessions[q] # 0 => sessions[q] \in DOMAIN conn
      /\ \A m \in DOMAIN conn : m \in Nat /\ m # 0 /\ conn[m].peer \in Peers
    BY <1>3, Typed DEF IInv
<1>5. /\ sessions' = [sessions EXCEPT ![p] = acc] /\ accepting' = 0
      /\ UNCHANGED <<stage, store, events, lost, active>>
    BY <1>1, <1>2, <1>3 DEF Register, Registered
<1>6. /\ sessions'[p] = acc /\ sessions' \in [Peers -> 0 .. Len(conn)]
      /\ \A q \in Peers : q # p => sessions'[q] = sessions[q]
    BY <1>1, <1>4, <1>5
<1>7. AllEntries(old, acc, "waiting")
    <2>1. conn' = [m \in DOMAIN conn |->
              [conn[m] EXCEPT !.held = IF m = old \/ (m = acc /\ sessions'[p] # m)
                                       THEN FALSE ELSE @,
                              !.cleanup = IF m = acc THEN "waiting" ELSE @]]
        BY <1>1, <1>2, <1>3 DEF Register
    <2>2. QED
        BY <1>6, <2>1 DEF Entry, AllEntries
<1>8. RegistryTypeOK
    BY DEF IInv
<1>9. /\ conn' \in Seq(Connections) /\ Len(conn') = Len(conn) /\ DOMAIN conn' = DOMAIN conn
      /\ \A m \in DOMAIN conn :
            /\ conn'[m].peer = conn[m].peer /\ conn'[m].open = conn[m].open
            /\ conn'[m].at = conn[m].at /\ conn'[m].state = conn[m].state
            /\ conn'[m].writes = conn[m].writes /\ conn'[m].ending = conn[m].ending
            /\ conn'[m].overlaps = conn[m].overlaps
            /\ conn'[m].held <=> conn[m].held /\ m # old
            /\ conn'[m].cleanup = IF m = acc THEN "waiting" ELSE conn[m].cleanup
    BY <1>7, <1>8, Entries
<1>10. /\ conn[acc].at # "backlog" /\ conn[acc].cleanup = "none" /\ conn[acc].held
       /\ \A m \in DOMAIN conn : acc < m => conn[m].at = "backlog"
    BY <1>1 DEF IInv, Lifecycle
<1>11. /\ conn[acc].peer = p /\ old = sessions[p]
       /\ old # 0 => /\ conn[old].peer = p /\ conn[old].held /\ conn[old].cleanup = "waiting"
                     /\ old \in DOMAIN conn
    BY <1>2, <1>3, <1>4 DEF IInv, NoHandleLeak
<1>12. acc # old
    BY <1>1, <1>10, <1>11
<1>13. \A m \in DOMAIN conn : SameSession(conn'[m], conn[m])
    BY <1>10, <1>9 DEF SameSession
<1>14. NoHandleLeak'
    <2>1. ASSUME NEW q \in Peers, sessions'[q] # 0
          PROVE  /\ conn'[sessions'[q]].peer = q
                 /\ conn'[sessions'[q]].held /\ conn'[sessions'[q]].cleanup = "waiting"
        <3>1. CASE q = p
            BY <1>6, <1>10, <1>11, <1>12, <1>9, <3>1
        <3>2. CASE q # p
            <4>1. /\ sessions'[q] = sessions[q] /\ sessions[q] \in DOMAIN conn
                  /\ conn[sessions[q]].peer = q
                  /\ conn[sessions[q]].held /\ conn[sessions[q]].cleanup = "waiting"
                BY <1>4, <1>6, <2>1, <3>2 DEF IInv, NoHandleLeak
            <4>2. sessions[q] # old
                BY <1>4, <1>11, <3>2, <4>1
            <4>3. sessions[q] # acc
                BY <1>2, <3>2, <4>1
            <4>4. QED
                BY <1>9, <4>1, <4>2, <4>3
        <3>3. QED
            BY <3>1, <3>2
    <2>2. ASSUME NEW m \in DOMAIN conn, conn'[m].held
          PROVE  m \in {accepting', sessions'[conn'[m].peer]}
        <3>1. conn[m].held /\ m # old /\ conn'[m].peer = conn[m].peer
            BY <1>9, <2>2
        <3>2. m \in {acc, sessions[conn[m].peer]}
            BY <1>1, <3>1 DEF IInv, NoHandleLeak
        <3>3. QED
            BY <1>2, <1>3, <1>4, <1>6, <3>1, <3>2
    <2>3. QED
        BY <1>9, <2>1, <2>2 DEF NoHandleLeak
<1>15. Lifecycle'
    <2>1. \A m \in DOMAIN conn :
              /\ conn'[m].at = conn[m].at /\ conn'[m].state = conn[m].state
              /\ conn'[m].writes = conn[m].writes /\ conn'[m].ending = conn[m].ending
              /\ conn'[m].held => conn[m].held
              /\ conn'[m].cleanup = conn[m].cleanup \/ (m = acc /\ conn'[m].cleanup = "waiting")
        BY <1>9
    <2>2. QED
        BY <1>5, <1>10, <1>9, <2>1 DEF IInv, Lifecycle
<1>16. Dropped'
    <2>1. \A m \in DOMAIN conn : Overlapped(m) => Overlapped(m)'
        BY <1>13, <1>9 DEF Overlapped, Of, SameSession
    <2>2. ASSUME old # 0 PROVE ~conn[old].open
        <3>1. old < acc
            BY <1>4, <1>10, <1>11, <1>12, <2>2 DEF IInv, Lifecycle
        <3>2. QED
            BY <1>2, <1>11, <2>2, <3>1 DEF IInv, OneOpen
    <2>3. QED
        BY <1>4, <1>9, <2>1, <2>2 DEF IInv, Dropped
<1>17. QED
    BY <1>4, <1>5, <1>6, <1>13, <1>14, <1>15, <1>16, <1>9, EntryStep

(* A cleanup task removes the handle it finds: its own, or one of a        *)
(* session that overlapped.                                                *)
LEMMA CleanupStep == ASSUME IInv, NEW n \in DOMAIN conn, Cleanup(n) PROVE IInv'
<1>1. PICK p \in Peers : p = conn[n].peer
    BY Typed DEF IInv
<1>2. PICK old : old = sessions[p]
    OBVIOUS
<1>3. /\ sessions \in [Peers -> 0 .. Len(conn)] /\ DOMAIN conn = 1 .. Len(conn)
      /\ Len(conn) \in Nat /\ (old # 0 => old \in DOMAIN conn)
      /\ accepting \in 0 .. Len(conn) /\ (accepting # 0 => accepting \in DOMAIN conn)
      /\ \A q \in Peers : sessions[q] # 0 => sessions[q] \in DOMAIN conn
      /\ \A m \in DOMAIN conn : m \in Nat /\ m # 0 /\ conn[m].peer \in Peers
    BY <1>2, Typed DEF IInv
<1>4. /\ sessions' = [sessions EXCEPT ![p] = 0] /\ accepting' = accepting
      /\ conn[n].cleanup = "waiting" /\ conn[n].at = "done"
      /\ UNCHANGED <<stage, store, events, lost, active>>
    BY <1>1, <1>2 DEF Cleanup
<1>5. /\ sessions'[p] = 0 /\ sessions' \in [Peers -> 0 .. Len(conn)]
      /\ \A q \in Peers : q # p => sessions'[q] = sessions[q]
    BY <1>3, <1>4
<1>6. AllEntries(old, n, "ran")
    BY <1>1, <1>2 DEF Cleanup, Entry, AllEntries
<1>7. RegistryTypeOK
    BY DEF IInv
<1>8. /\ conn' \in Seq(Connections) /\ Len(conn') = Len(conn) /\ DOMAIN conn' = DOMAIN conn
      /\ \A m \in DOMAIN conn :
            /\ conn'[m].peer = conn[m].peer /\ conn'[m].open = conn[m].open
            /\ conn'[m].at = conn[m].at /\ conn'[m].state = conn[m].state
            /\ conn'[m].writes = conn[m].writes /\ conn'[m].ending = conn[m].ending
            /\ conn'[m].overlaps = conn[m].overlaps
            /\ conn'[m].held <=> conn[m].held /\ m # old
            /\ conn'[m].cleanup = IF m = n THEN "ran" ELSE conn[m].cleanup
    BY <1>6, <1>7, Entries
<1>9. accepting # 0 => /\ conn[accepting].at # "backlog" /\ conn[accepting].held
                       /\ conn[accepting].cleanup = "none"
                       /\ \A m \in DOMAIN conn : accepting < m => conn[m].at = "backlog"
    BY DEF IInv, Lifecycle
<1>10. /\ conn[n].peer = p /\ old = sessions[p]
       /\ old # 0 => /\ conn[old].peer = p /\ conn[old].held /\ conn[old].cleanup = "waiting"
                     /\ old \in DOMAIN conn
    BY <1>1, <1>2, <1>3 DEF IInv, NoHandleLeak
<1>11. accepting # 0 => accepting # old /\ accepting # n
    BY <1>3, <1>4, <1>9, <1>10
<1>12. \A m \in DOMAIN conn : SameSession(conn'[m], conn[m])
    BY <1>8 DEF SameSession
<1>13. NoHandleLeak'
    <2>1. ASSUME NEW q \in Peers, sessions'[q] # 0
          PROVE  /\ conn'[sessions'[q]].peer = q
                 /\ conn'[sessions'[q]].held /\ conn'[sessions'[q]].cleanup = "waiting"
        <3>1. q # p
            BY <1>5, <2>1
        <3>2. /\ sessions'[q] = sessions[q] /\ sessions[q] \in DOMAIN conn
              /\ conn[sessions[q]].peer = q
              /\ conn[sessions[q]].held /\ conn[sessions[q]].cleanup = "waiting"
            BY <1>3, <1>5, <2>1, <3>1 DEF IInv, NoHandleLeak
        <3>3. sessions[q] # old /\ sessions[q] # n
            BY <1>3, <1>10, <3>1, <3>2
        <3>4. QED
            BY <1>8, <3>2, <3>3
    <2>2. ASSUME NEW m \in DOMAIN conn, conn'[m].held
          PROVE  m \in {accepting', sessions'[conn'[m].peer]}
        <3>1. conn[m].held /\ m # old /\ conn'[m].peer = conn[m].peer
            BY <1>8, <2>2
        <3>2. m \in {accepting, sessions[conn[m].peer]}
            BY <3>1 DEF IInv, NoHandleLeak
        <3>3. QED
            BY <1>2, <1>3, <1>4, <1>5, <3>1, <3>2
    <2>3. QED
        BY <1>8, <2>1, <2>2 DEF NoHandleLeak
<1>14. Lifecycle'
    <2>1. \A m \in DOMAIN conn :
              /\ conn'[m].at = conn[m].at /\ conn'[m].state = conn[m].state
              /\ conn'[m].writes = conn[m].writes /\ conn'[m].ending = conn[m].ending
              /\ conn'[m].held => conn[m].held
              /\ m # n => conn'[m].cleanup = conn[m].cleanup
        BY <1>8
    <2>2. accepting # 0 =>
              /\ conn'[accepting].at # "backlog" /\ conn'[accepting].cleanup = "none"
              /\ conn'[accepting].held
              /\ \A m \in DOMAIN conn : accepting < m => conn'[m].at = "backlog"
        BY <1>3, <1>8, <1>9, <1>11
    <2>3. \A m \in DOMAIN conn : /\ conn'[m].at = "backlog" => conn'[m].cleanup = "none"
                                 /\ conn'[m].cleanup = "ran" => conn'[m].at = "done"
        BY <1>4, <2>1 DEF IInv, Lifecycle
    <2>4. QED
        BY <1>4, <1>8, <2>1, <2>2, <2>3 DEF IInv, Lifecycle
<1>15. Dropped'
    <2>1. \A m \in DOMAIN conn : Overlapped(m) => Overlapped(m)'
        BY <1>8, <1>12 DEF Overlapped, Of, SameSession
    <2>2. ASSUME old # 0 PROVE ~conn[old].open \/ Overlapped(old)
        <3>1. CASE old = n
            BY <1>4, <3>1 DEF IInv, Lifecycle, Served
        <3>2. CASE old < n
            BY <1>1, <1>10, <2>2, <3>2 DEF IInv, OneOpen
        <3>3. CASE n < old
            <4>1. conn[old].overlaps
                BY <1>4, <1>10, <2>2, <3>3 DEF IInv, OneOpen
            <4>2. old \in Of(conn[old].peer) /\ old <= old
                BY <1>3, <1>10, <2>2 DEF Of
            <4>3. QED
                BY <4>1, <4>2 DEF Overlapped
        <3>4. QED
            BY <1>3, <1>10, <2>2, <3>1, <3>2, <3>3
    <2>3. QED
        BY <1>3, <1>8, <2>1, <2>2 DEF IInv, Dropped
<1>16. QED
    BY <1>3, <1>4, <1>5, <1>8, <1>12, <1>13, <1>14, <1>15, EntryStep

(* A peer connects, after its last connection was closed.                  *)
LEMMA PeerConnectsStep == ASSUME IInv, NEW p \in Peers, PeerConnects(p) PROVE IInv'
<1> DEFINE new == Len(conn) + 1
           over == \E n \in Of(p) : conn[n].cleanup # "ran"
           c == NewConn(p, over)
<1>1. /\ conn \in Seq(Connections) /\ Len(conn) \in Nat /\ DOMAIN conn = 1 .. Len(conn)
      /\ accepting \in 0 .. Len(conn) /\ (accepting # 0 => accepting \in DOMAIN conn)
      /\ sessions \in [Peers -> 0 .. Len(conn)]
      /\ \A q \in Peers : sessions[q] # 0 => sessions[q] \in DOMAIN conn
      /\ \A m \in DOMAIN conn : m \in Nat /\ m # 0 /\ conn[m].peer \in Peers
    BY Typed DEF IInv
<1>2. /\ c \in Connections /\ c.peer = p /\ c.at = "backlog" /\ c.state = "Disconnected"
      /\ c.cleanup = "none" /\ ~c.held /\ ~c.ending /\ c.overlaps = over
    <2>1. 0 \in 0 .. MaxSamples
        BY IngressAssumption
    <2> HIDE DEF over
    <2>2. over \in BOOLEAN
        BY DEF over
    <2>3. QED
        BY <2>1, <2>2 DEF NewConn, Connections, ConnStates
<1>3. /\ Len(conn) < MaxConns /\ \A n \in Of(p) : ~conn[n].open
      /\ conn' = Append(conn, c)
      /\ UNCHANGED <<stage, accepting, sessions, store, events, lost, active>>
    BY DEF PeerConnects
<1> HIDE DEF c, over
<1>4. /\ conn' \in Seq(Connections) /\ Len(conn') = Len(conn) + 1
      /\ conn'[new] = c /\ DOMAIN conn' = 1 .. new
      /\ \A m \in DOMAIN conn : conn'[m] = conn[m]
    BY <1>1, <1>2, <1>3
<1>5. /\ DOMAIN conn' = DOMAIN conn \cup {new} /\ new \notin DOMAIN conn
      /\ \A m \in DOMAIN conn : m < new /\ ~(new < m) /\ ~(new <= m) /\ m # new
      /\ new \in Nat /\ new # 0
    BY <1>1, <1>4
<1>6. MaxConns \in Nat
    BY IngressAssumption
<1>7. RegistryTypeOK'
    <2>1. \A k, l \in Nat : k < l => k + 1 <= l
        OBVIOUS
    <2>2. accepting' \in 0 .. Len(conn') /\ sessions' \in [Peers -> 0 .. Len(conn')]
        BY <1>1, <1>3, <1>4
    <2>3. Len(conn') <= MaxConns
        BY <1>1, <1>3, <1>4, <1>6, <2>1
    <2>4. QED
        BY <1>3, <1>4, <2>2, <2>3 DEF IInv, RegistryTypeOK
<1> HIDE DEF new
<1>8. NoHandleLeak'
    <2>1. \A q \in Peers : sessions[q] # 0 =>
              /\ conn'[sessions[q]] = conn[sessions[q]] /\ conn[sessions[q]].peer = q
              /\ conn[sessions[q]].held /\ conn[sessions[q]].cleanup = "waiting"
        BY <1>1, <1>4 DEF IInv, NoHandleLeak
    <2>2. \A m \in DOMAIN conn : conn[m].held => m \in {accepting, sessions[conn[m].peer]}
        BY DEF IInv, NoHandleLeak
    <2>3. \A q \in Peers : sessions'[q] # 0 =>
              /\ conn'[sessions'[q]].peer = q
              /\ conn'[sessions'[q]].held /\ conn'[sessions'[q]].cleanup = "waiting"
        BY <1>3, <2>1
    <2>4. \A m \in DOMAIN conn' :
              conn'[m].held => m \in {accepting', sessions'[conn'[m].peer]}
        BY <1>2, <1>3, <1>4, <1>5, <2>2
    <2>5. QED
        BY <2>3, <2>4 DEF NoHandleLeak
<1>9. OneOpen'
    <2> SUFFICES ASSUME NEW m \in DOMAIN conn', NEW n \in DOMAIN conn',
                        m < n, conn'[m].peer = conn'[n].peer
                 PROVE  ~conn'[m].open /\ (conn'[m].cleanup # "ran" => conn'[n].overlaps)
        BY DEF OneOpen
    <2>1. CASE n = new
        <3>1. m \in DOMAIN conn
            BY <1>5, <2>1
        <3>2. m \in Of(p) /\ conn'[m] = conn[m]
            BY <1>2, <1>4, <2>1, <3>1 DEF Of
        <3>3. QED
            BY <1>2, <1>3, <1>4, <2>1, <3>2 DEF over
    <2>2. CASE n # new
        <3>1. n \in DOMAIN conn /\ m \in DOMAIN conn
            BY <1>5, <2>2
        <3>2. QED
            BY <1>4, <3>1 DEF IInv, OneOpen
    <2>3. QED
        BY <2>1, <2>2
<1>10. Lifecycle'
    <2>1. ASSUME NEW m \in DOMAIN conn'
          PROVE  /\ conn'[m].at = "backlog" =>
                       /\ conn'[m].cleanup = "none" /\ ~conn'[m].held /\ ~conn'[m].ending
                       /\ conn'[m].state = "Disconnected"
                       /\ \A k \in DOMAIN conn' : m < k => conn'[k].at = "backlog"
                 /\ conn'[m].at = "done" => conn'[m].ending
                 /\ conn'[m].ending => /\ conn'[m].at \in {"read", "write", "done"}
                                       /\ conn'[m].state = "Disconnected"
                 /\ conn'[m].ending /\ conn'[m].at # "done" => conn'[m].writes = "state"
                 /\ conn'[m].at \in {"read", "write"} =>
                       conn'[m].ending \/ conn'[m].state # "Disconnected"
                 /\ conn'[m].cleanup = "ran" => conn'[m].at = "done"
        <3>1. CASE m = new
            <4>1. \A k \in DOMAIN conn' : m < k => FALSE
                BY <1>5, <3>1
            <4>2. QED
                BY <1>2, <1>4, <3>1, <4>1
        <3>2. CASE m # new
            <4>1. m \in DOMAIN conn /\ conn'[m] = conn[m]
                BY <1>4, <1>5, <3>2
            <4>2. ASSUME conn[m].at = "backlog", NEW k \in DOMAIN conn', m < k
                  PROVE  conn'[k].at = "backlog"
                BY <1>2, <1>4, <1>5, <4>1, <4>2 DEF IInv, Lifecycle
            <4>3. QED
                BY <4>1, <4>2 DEF IInv, Lifecycle
        <3>3. QED
            BY <3>1, <3>2
    <2>2. accepting # 0 =>
              /\ conn[accepting].at # "backlog" /\ conn[accepting].cleanup = "none"
              /\ conn[accepting].held
              /\ \A m \in DOMAIN conn : accepting < m => conn[m].at = "backlog"
        BY DEF IInv, Lifecycle
    <2>3. accepting' # 0 =>
              /\ conn'[accepting'].at # "backlog" /\ conn'[accepting'].cleanup = "none"
              /\ conn'[accepting'].held
              /\ \A m \in DOMAIN conn' : accepting' < m => conn'[m].at = "backlog"
        BY <1>1, <1>2, <1>3, <1>4, <1>5, <2>2
    <2>4. QED
        BY <2>1, <2>3 DEF Lifecycle
<1>11. \A q \in Peers : Of(q) \subseteq Of(q)'
    BY <1>4, <1>5 DEF Of
<1>12. \A m \in DOMAIN conn : Overlapped(m) => Overlapped(m)'
    BY <1>4, <1>5 DEF Overlapped, Of
<1>13. Dropped' /\ Served'
    BY <1>2, <1>4, <1>5, <1>12 DEF IInv, Dropped, Served
<1>14. StoreOwed'
    <2> SUFFICES ASSUME NEW q \in Peers, store[q] \notin {"none", "Disconnected"}
                 PROVE  \E m \in Of(q)' : Owes(m)'
        BY <1>3 DEF StoreOwed
    <2>1. PICK m \in Of(q) : Owes(m)
        BY DEF IInv, StoreOwed
    <2>2. conn'[m] = conn[m] /\ m \in Of(q)'
        BY <1>4, <1>11 DEF Of
    <2>3. QED
        BY <2>1, <2>2 DEF Owes
<1>15. Told'
    <2> SUFFICES ASSUME ~lost, NEW q \in Peers, \A m \in Of(q)' : ~conn'[m].overlaps
                 PROVE  Counts(q)' <=> IsReady(q)'
        BY <1>3 DEF Told
    <2>1. \A m \in Of(q) : ~conn[m].overlaps
        BY <1>4, <1>11 DEF Of
    <2>2. Counts(q) <=> IsReady(q)
        BY <2>1 DEF IInv, Told
    <2>3. Counts(q)' <=> Counts(q)
        BY <1>3 DEF Counts, Telling
    <2>4. IsReady(q)' <=> IsReady(q)
        BY <1>2, <1>4, <1>5 DEF IsReady, Of
    <2>5. QED
        BY <2>2, <2>3, <2>4
<1>16. QED
    BY <1>7, <1>8, <1>9, <1>10, <1>13, <1>14, <1>15 DEF IInv

(* The forwarder takes the first event.                                    *)
LEMMA CountStep == ASSUME IInv, CountConnection PROVE IInv'
<1> DEFINE E == [peer : Peers, to : ConnStates]
<1>1. /\ events \in Seq(E) /\ events # <<>> /\ Len(events) \in Nat /\ Len(events) <= EventCap
      /\ active \subseteq Peers
      /\ events' = Tail(events)
      /\ UNCHANGED <<stage, conn, accepting, sessions, store, lost>>
    BY Typed DEF IInv, CountConnection
<1>2. EventCap \in Nat
    BY IngressAssumption
<1> HIDE DEF E
<1>3. /\ Len(events) # 0 /\ DOMAIN events = 1 .. Len(events) /\ events[1] \in E
      /\ events' \in Seq(E) /\ Len(events') = Len(events) - 1
      /\ DOMAIN events' = 1 .. (Len(events) - 1)
      /\ \A i \in 1 .. (Len(events) - 1) : events'[i] = events[i + 1]
      /\ Head(events) = events[1]
    BY <1>1
<1>4. PICK e \in E : e = events[1]
    BY <1>3
<1>5. e.peer \in Peers
    BY DEF E
<1>6. active' = CASE e.to = "Ready"        -> active \cup {e.peer}
                  [] e.to = "Disconnected" -> active \ {e.peer}
                  [] OTHER                 -> active
    BY <1>3, <1>4 DEF CountConnection
<1>7. active' \subseteq Peers
    BY <1>1, <1>5, <1>6
<1>8. RegistryTypeOK'
    <2>1. Len(events') <= EventCap
        BY <1>1, <1>2, <1>3
    <2>2. QED
        BY <1>1, <1>3, <1>7, <2>1 DEF IInv, RegistryTypeOK, E
<1>9. NoHandleLeak' /\ OneOpen' /\ Lifecycle' /\ Dropped' /\ Served' /\ StoreOwed'
    BY <1>1 DEF IInv, NoHandleLeak, OneOpen, Lifecycle, Dropped, Served, StoreOwed, Of,
                Overlapped, Owes
<1>10. ASSUME NEW p \in Peers PROVE Counts(p)' <=> Counts(p)
    <2>1. \A i \in Telling(p)' : /\ i \in Nat /\ i # 0 /\ i + 1 \in Telling(p)
                                 /\ events'[i] = events[i + 1]
        BY <1>3 DEF Telling
    <2>2. \A i \in Telling(p) : i \in Nat /\ (i = 1 \/ (i - 1 \in Telling(p)' /\ i - 1 + 1 = i))
        BY <1>3 DEF Telling
    <2>3. 1 \in Telling(p) <=> e.peer = p /\ e.to \in {"Ready", "Disconnected"}
        BY <1>3, <1>4 DEF Telling
    <2>4. CASE Telling(p)' = {}
        <3>1. CASE 1 \in Telling(p)
            <4>1. Telling(p) = {1}
                BY <2>2, <2>4, <3>1
            <4>2. Counts(p) <=> e.to = "Ready"
                BY <1>4, <4>1 DEF Counts
            <4>3. Counts(p)' <=> p \in active'
                BY <2>4 DEF Counts
            <4>4. p \in active' <=> e.to = "Ready"
                BY <1>6, <2>3, <3>1
            <4>5. QED
                BY <4>2, <4>3, <4>4
        <3>2. CASE 1 \notin Telling(p)
            <4>1. Telling(p) = {}
                BY <2>2, <2>4, <3>2
            <4>2. p \in active' <=> p \in active
                BY <1>6, <2>3, <3>2
            <4>3. QED
                BY <2>4, <4>1, <4>2 DEF Counts
        <3>3. QED
            BY <3>1, <3>2
    <2>5. CASE Telling(p)' # {}
        <3>1. ASSUME NEW i \in Telling(p)', events'[i].to = "Ready",
                     \A j \in Telling(p)' : j <= i
              PROVE  /\ i + 1 \in Telling(p) /\ events[i + 1].to = "Ready"
                     /\ \A j \in Telling(p) : j <= i + 1
            <4>1. ASSUME NEW j \in Telling(p) PROVE j <= i + 1
                <5>1. i \in Nat /\ j \in Nat
                    BY <2>1, <2>2
                <5>2. j = 1 \/ (j - 1 <= i)
                    BY <2>2, <3>1
                <5>3. QED
                    BY <5>1, <5>2
            <4>2. QED
                BY <2>1, <3>1, <4>1
        <3>2. ASSUME NEW i \in Telling(p), events[i].to = "Ready",
                     \A j \in Telling(p) : j <= i
              PROVE  /\ i - 1 \in Telling(p)' /\ events'[i - 1].to = "Ready"
                     /\ \A j \in Telling(p)' : j <= i - 1
            <4>1. \A j \in Telling(p)' : j \in Nat /\ j # 0 /\ j + 1 <= i
                BY <2>1, <3>2
            <4>2. i \in Nat /\ i # 1
                BY <2>2, <2>5, <4>1
            <4>3. i - 1 \in Telling(p)' /\ i - 1 + 1 = i
                BY <2>2, <4>2
            <4>4. \A j \in Telling(p)' : j <= i - 1
                BY <4>1, <4>2
            <4>5. QED
                BY <2>1, <3>2, <4>3, <4>4
        <3>3. Telling(p) # {}
            BY <2>1, <2>5
        <3>4. QED
            BY <2>5, <3>1, <3>2, <3>3 DEF Counts
    <2>6. QED
        BY <2>4, <2>5
<1>11. Told'
    <2>1. \A p \in Peers : Of(p)' = Of(p) /\ (IsReady(p)' <=> IsReady(p))
        BY <1>1 DEF Of, IsReady
    <2>2. QED
        BY <1>1, <1>10, <2>1 DEF IInv, Told
<1>12. QED
    BY <1>8, <1>9, <1>11 DEF IInv

-----------------------------------------------------------------------------
(* The collector. *)

(* Before anyone has connected.                                            *)
LEMMA InitIInv == RegistryInit => IInv
<1> SUFFICES ASSUME RegistryInit PROVE IInv
    OBVIOUS
<1>1. /\ conn = <<>> /\ accepting = 0 /\ sessions = [p \in Peers |-> 0]
      /\ store = [p \in Peers |-> "none"] /\ events = <<>> /\ lost = FALSE /\ active = {}
      /\ stage = "starting"
    BY DEF RegistryInit
<1>2. /\ conn \in Seq(Connections) /\ Len(conn) = 0 /\ DOMAIN conn = {}
      /\ events \in Seq([peer : Peers, to : ConnStates]) /\ Len(events) = 0
      /\ DOMAIN events = {}
    BY <1>1
<1>3. RegistryTypeOK
    <2>1. 0 \in 0 .. Len(conn) /\ Len(conn) <= MaxConns /\ Len(events) <= EventCap
        BY <1>2, IngressAssumption
    <2>2. sessions \in [Peers -> 0 .. Len(conn)] /\ store \in [Peers -> ConnStates \cup {"none"}]
        BY <1>1, <2>1
    <2>3. QED
        BY <1>1, <1>2, <2>1, <2>2 DEF RegistryTypeOK
<1>4. NoHandleLeak /\ OneOpen /\ Lifecycle /\ Dropped /\ Served /\ StoreOwed
    BY <1>1, <1>2 DEF NoHandleLeak, OneOpen, Lifecycle, Dropped, Served, StoreOwed
<1>5. Told
    BY <1>1, <1>2 DEF Told, Counts, Telling, IsReady, Of
<1>6. QED
    BY <1>3, <1>4, <1>5 DEF IInv

(* Every step keeps the invariant.                                         *)
LEMMA NextIInv == IInv /\ [RegistryNext]_registryVars => IInv'
<1> SUFFICES ASSUME IInv, [RegistryNext]_registryVars PROVE IInv'
    OBVIOUS
<1>1. ASSUME UNCHANGED <<conn, accepting, sessions, store, events, lost, active>>,
             stage' \in {"starting", "ready", "listening", "exited"}
      PROVE  IInv'
    <2>1. RegistryTypeOK'
        BY <1>1 DEF IInv, RegistryTypeOK
    <2>2. NoHandleLeak' /\ OneOpen' /\ Lifecycle' /\ Dropped' /\ Served' /\ StoreOwed'
        BY <1>1 DEF IInv, NoHandleLeak, OneOpen, Lifecycle, Dropped, Served, StoreOwed, Of,
                    Overlapped, Owes
    <2>3. Told'
        BY <1>1 DEF IInv, Told, Counts, Telling, IsReady, Of
    <2>4. QED
        BY <2>1, <2>2, <2>3 DEF IInv
<1>2. CASE BecomeReady \/ Listen \/ Exit
    BY <1>1, <1>2 DEF BecomeReady, Listen, Exit
<1>3. CASE Register
    BY <1>3, RegisterStep
<1>4. CASE CountConnection
    BY <1>4, CountStep
<1>5. CASE \E p \in Peers : PeerConnects(p)
    BY <1>5, PeerConnectsStep
<1>6. ASSUME NEW n \in DOMAIN conn,
             \/ PeerCloses(n) \/ Accept(n) \/ Cleanup(n)
             \/ Advance(n) \/ Sample(n) \/ ReadSnapshot(n) \/ WriteSnapshot(n)
             \/ ReadEnds(n) \/ HandleDropped(n)
      PROVE  IInv'
    BY <1>6, PeerClosesStep, AcceptStep, CleanupStep, AdvanceStep, SampleStep, ReadStep,
       WriteStep, HandleDroppedStep
<1>7. CASE UNCHANGED registryVars
    <2>1. stage' \in {"starting", "ready", "listening", "exited"}
        BY <1>7 DEF IInv, RegistryTypeOK, registryVars
    <2>2. QED
        BY <1>1, <1>7, <2>1 DEF registryVars
<1>8. QED
    BY <1>2, <1>3, <1>4, <1>5, <1>6, <1>7 DEF RegistryNext

(* It holds in every reachable state.                                      *)
LEMMA AlwaysIInv == RegistrySpec => []IInv
BY InitIInv, NextIInv, PTL DEF RegistrySpec

(* A device is served until it closes its connection: its session ends     *)
(* earlier only where its address was taken again before the cleanup of    *)
(* the last session; and every handle that exists is in the registry, or   *)
(* with the accept loop, until its session's cleanup.                      *)
THEOREM DevicesServed == RegistrySpec => []ServedWhileOpen
<1>1. IInv => ServedWhileOpen
    BY DEF IInv, Served, Overlapped, ServedWhileOpen
<1>2. QED
    BY <1>1, AlwaysIInv, PTL

(* The count for /health and the snapshots in the Store come to what the   *)
(* sessions are, once those rest and their events have been seen.          *)
THEOREM ShownStateSettles == RegistrySpec => []StateSettles
<1>1. ASSUME IInv PROVE StateSettles
    <2> SUFFICES ASSUME NEW p \in Peers, Running, \A n \in Of(p) : Rests(n)
                 PROVE  /\ events = <<>> /\ ~lost /\ (\A n \in Of(p) : ~conn[n].overlaps) =>
                              (p \in active <=> \E n \in Of(p) : conn[n].state = "Ready")
                        /\ (\A n \in Of(p) : conn[n].at = "done") =>
                              store[p] \in {"none", "Disconnected"}
        BY DEF StateSettles
    <2>1. ASSUME events = <<>>, ~lost, \A n \in Of(p) : ~conn[n].overlaps
          PROVE  p \in active <=> \E n \in Of(p) : conn[n].state = "Ready"
        <3>1. Telling(p) = {}
            BY <2>1 DEF Telling
        <3>2. Counts(p) <=> p \in active
            BY <3>1 DEF Counts
        <3>3. Counts(p) <=> IsReady(p)
            BY <1>1, <2>1 DEF IInv, Told
        <3>4. QED
            BY <3>2, <3>3 DEF IsReady
    <2>2. ASSUME \A n \in Of(p) : conn[n].at = "done"
          PROVE  store[p] \in {"none", "Disconnected"}
        <3>1. \A n \in Of(p) : ~Owes(n)
            BY <1>1, <2>2 DEF IInv, Lifecycle, Owes, Of
        <3>2. QED
            BY <1>1, <3>1 DEF IInv, StoreOwed
    <2>3. QED
        BY <2>1, <2>2
<1>2. QED
    BY <1>1, AlwaysIInv, PTL

------------------------------------------------------------------------------
(* The sender: its workers and what the window has read of them.             *)

Outcomes == {"none", "stopped", "done", "failed"}
WorkRec == [kind : Kinds, at : Places, stop : BOOLEAN, frames : 0..Planned, atStop : Nat,
            offset : 0..RawLen, retries : 0..MaxRetries, acks : 0..Planned, outcome : Outcomes]
StatsMsg == [type : {"stats"}, frames : 0..Planned]
EndMsg   == [type : {"finished"}, outcome : Outcomes]
Message  == StatsMsg \cup EndMsg
LineByte == [by : Nat, frame : Nat, byte : Nat]

\* A worker record that has not reported its end.
BusyRec(c) == c.at \notin {"closing", "ended"}

\* The last frame of the SENT tick that n is in.
TickEnd(n) == (n \div Pairs) * Pairs + Pairs

\* What a worker may still send after Stop.
StopFits(c) ==
    c.stop =>
        /\ c.kind # "sent" => c.frames <= c.atStop + (IF c.at = "write" THEN 0 ELSE 1)
        /\ c.kind = "sent" => c.frames <= TickEnd(c.atStop)
        /\ c.kind = "sent" /\ c.at = "write" => c.frames < TickEnd(c.atStop)

RecordFits(c) ==
    /\ c.acks <= c.frames
    /\ c.at = "write" => c.frames < Planned
    /\ c.at \in {"write", "acks"} => c.kind \in SerialKinds
    /\ c.kind = "once" => c.frames = 0
    /\ BusyRec(c) => c.outcome = "none"
    /\ StopFits(c)

SendTyped ==
    /\ work \in Seq(WorkRec) /\ Len(work) <= MaxWorkers
    /\ workerRx \in 0..Len(work) /\ stopFlag \in 0..Len(work)
    /\ portUser \in 0..Len(work) /\ lastShown \in 0..Len(work)
    /\ shown \in 0..Planned /\ inbox \in Seq(Message)
    /\ collector \in [serial_mode : SerialKinds, can_enabled : BOOLEAN]
    /\ line \in Seq(LineByte)
    /\ \A w \in DOMAIN work : RecordFits(work[w])

\* The send that is under way is the last worker, and the one Stop reaches; the
\* window reads the worker that Stop reaches, and a reported end comes last.
WindowOK ==
    /\ stopFlag # 0 => workerRx = stopFlag
    /\ workerRx = 0 => inbox = <<>>
    /\ \A w \in DOMAIN work : BusyRec(work[w]) /\ work[w].kind # "once" =>
          /\ stopFlag = w /\ w = Len(work)
          /\ IsSerial(w) => collector.serial_mode = work[w].kind
    /\ \A i \in DOMAIN inbox : inbox[i].type = "finished" => i = Len(inbox) /\ ~BusyRec(work[workerRx])
    /\ workerRx # 0 /\ work[workerRx].kind = "once" =>
          \A i \in DOMAIN inbox : inbox[i].type # "stats"

\* The count the window shows once it has read its messages.
LastReport(x) ==
    \/ shown = x /\ \A i \in DOMAIN inbox : inbox[i].type # "stats"
    \/ \E i \in DOMAIN inbox : /\ inbox[i].type = "stats" /\ inbox[i].frames = x
                               /\ \A j \in DOMAIN inbox : inbox[j].type = "stats" => j <= i

\* A count x is true of a worker as far as it got.
CountFits(c, x) ==
    /\ x <= c.frames
    /\ c.kind \in SerialKinds => x + 1 >= c.frames
    /\ c.kind \in SerialKinds /\ c.at \in {"open", "loop", "write"} => x = c.frames
    /\ c.outcome = "done" \/ (c.outcome = "stopped" /\ c.kind # "replay") => x = c.frames

CountOK ==
    /\ workerRx # 0 =>
          work[workerRx].kind = "once" \/ \E x \in 0..Planned : LastReport(x) /\ CountFits(work[workerRx], x)
    /\ lastShown # 0 =>
          /\ ~BusyRec(work[lastShown]) /\ CountFits(work[lastShown], shown)
          /\ workerRx # 0 => work[workerRx].kind = "once"

Writes == {"loop", "write", "acks", "closing"}

\* The port is used by a serial worker from its opening to its end.
PortOK ==
    /\ \A w \in DOMAIN work : IsSerial(w) /\ work[w].at \in Writes => portUser = w
    /\ \A i \in DOMAIN line :
          line[i].by \in DOMAIN work /\ IsSerial(line[i].by) /\ work[line[i].by].at # "open"
    /\ \A w \in DOMAIN work : work[w].at = "open" => work[w].frames = 0

\* Exactly the first n frames of w are on the line.
WholeTo(w, n) ==
    /\ n > 0 <=> \E i \in DOMAIN line : line[i].by = w
    /\ \A i \in DOMAIN line : LastOf(w, i) => line[i] = ByteOf(w, n, RawLen)

\* A frame that is being written is there up to its offset.
WrittenTo(w, c) ==
    IF c.offset = 0 THEN WholeTo(w, c.frames)
    ELSE line # <<>> /\ line[Len(line)] = ByteOf(w, c.frames + 1, c.offset)

\* The frames of c are all on the line and nothing else.
Settled(c) == c.at \in {"loop", "acks", "closing"} \/ c.outcome \in {"done", "stopped"}

LineOK ==
    /\ \A i, j \in DOMAIN line : i < j => line[i].by <= line[j].by
    /\ \A i \in DOMAIN line :
          \/ i > 1 /\ line[i] = NextByte(line[i - 1])
          \/ (i = 1 \/ line[i - 1].by # line[i].by) /\ line[i] = ByteOf(line[i].by, 1, 1)
    /\ \A w \in DOMAIN work : IsSerial(w) =>
          /\ Settled(work[w]) => WholeTo(w, work[w].frames)
          /\ work[w].at = "write" => WrittenTo(w, work[w])

SenderInv == SendTyped /\ WindowOK /\ CountOK /\ PortOK /\ LineOK

(* A tick ends behind each of its frames, at most a tick later.              *)
LEMMA TickFacts ==
    ASSUME NEW n \in Nat
    PROVE  TickEnd(n) \in Nat /\ n < TickEnd(n) /\ TickEnd(n) <= n + Pairs /\ TickEnd(n) % Pairs = 0
<1>1. Pairs \in Nat \ {0}
  BY SenderAssumption
<1>2. PICK k \in Nat : k = n \div Pairs /\ k * Pairs <= n /\ n < k * Pairs + Pairs
  BY <1>1
<1>3. k * Pairs \in Nat /\ TickEnd(n) = k * Pairs + Pairs
  BY <1>1, <1>2 DEF TickEnd
<1>4. TickEnd(n) = (k + 1) * Pairs
  BY <1>1, <1>3
<1>5. ((k + 1) * Pairs) % Pairs = 0
  BY <1>1
<1> QED BY <1>1, <1>2, <1>3, <1>4, <1>5

(* The invariant is stronger than what Stop promises.                        *)
LEMMA SenderInvStops == SenderInv => StopWorks
<1> SUFFICES ASSUME SenderInv PROVE StopWorks
  OBVIOUS
<1> USE DEF SenderInv
<1>1. \A w \in DOMAIN work : work[w] \in WorkRec /\ w \in Nat
  BY DEF SendTyped
<1>2. SenderTypeOK
  <2>1. ASSUME NEW w \in DOMAIN work
        PROVE  /\ work[w].kind \in Kinds /\ work[w].at \in Places /\ work[w].stop \in BOOLEAN
               /\ work[w].frames \in 0 .. Planned /\ work[w].offset \in 0 .. RawLen
               /\ work[w].retries \in 0 .. MaxRetries /\ work[w].acks \in 0 .. Planned
    BY <1>1 DEF WorkRec
  <2> QED BY <2>1 DEF SenderTypeOK, SendTyped
<1>3. StopReachesWorker
  <2>1. ASSUME NEW w \in DOMAIN work, Busy(w), work[w].kind # "once"
        PROVE  stopFlag = w /\ workerRx = w /\ (IsSerial(w) => collector.serial_mode = work[w].kind)
    <3>1. stopFlag = w /\ (IsSerial(w) => collector.serial_mode = work[w].kind)
      BY <2>1 DEF WindowOK, Busy, BusyRec
    <3>2. w # 0
      BY DEF SendTyped
    <3> QED BY <3>1, <3>2 DEF WindowOK
  <2> QED BY <2>1 DEF StopReachesWorker
<1>4. StopsSoon
  <2>1. ASSUME NEW w \in DOMAIN work, work[w].stop
        PROVE  work[w].frames <= work[w].atStop + (IF work[w].kind = "sent" THEN Pairs ELSE 1)
    <3>1. work[w].frames \in Nat /\ work[w].atStop \in Nat
      BY <1>1, SenderAssumption DEF WorkRec
    <3>2. StopFits(work[w])
      BY DEF SendTyped, RecordFits
    <3>3. CASE work[w].kind = "sent"
      BY <2>1, <3>1, <3>2, <3>3, TickFacts, SenderAssumption DEF StopFits
    <3>4. CASE work[w].kind # "sent"
      BY <2>1, <3>1, <3>2, <3>4 DEF StopFits
    <3> QED BY <3>3, <3>4
  <2> QED BY <2>1 DEF StopsSoon
<1> QED BY <1>2, <1>3, <1>4 DEF StopWorks

(* ... and than what the count shown promises.                               *)
LEMMA SenderInvCounts == SenderInv => CountTrue
<1> SUFFICES ASSUME SenderInv, lastShown # 0
             PROVE  LET w == work[lastShown] IN
                    /\ shown <= w.frames
                    /\ w.outcome = "done" \/ (w.outcome = "stopped" /\ w.kind # "replay") => shown = w.frames
                    /\ w.kind \in SerialKinds => shown + 1 >= w.frames
  BY DEF CountTrue
<1> QED BY DEF SenderInv, CountOK, CountFits

(* ... and than what the device is promised.                                 *)
LEMMA SenderInvWhole == SenderInv => WholeFrames
<1> SUFFICES ASSUME SenderInv PROVE WholeFrames
  OBVIOUS
<1>1. \A w \in DOMAIN work : WholeTo(w, work[w].frames) <=> AllWhole(w)
  BY DEF WholeTo, AllWhole
<1>2. \A w \in DOMAIN work :
          IsSerial(w) /\ (work[w].at \in {"loop", "acks", "closing"} \/ work[w].outcome \in {"done", "stopped"})
              => AllWhole(w)
  BY <1>1 DEF SenderInv, LineOK, Settled
<1> QED BY <1>2 DEF SenderInv, LineOK, WholeFrames

(* At first there are no workers.                                            *)
LEMMA SenderInitial == SenderInit => SenderInv
<1> SUFFICES ASSUME SenderInit PROVE SenderInv
  OBVIOUS
<1>1. /\ work = <<>> /\ workerRx = 0 /\ stopFlag = 0 /\ inbox = <<>>
      /\ shown = 0 /\ lastShown = 0 /\ portUser = 0 /\ line = <<>>
      /\ DOMAIN work = {} /\ DOMAIN line = {} /\ DOMAIN inbox = {} /\ Len(work) = 0
  BY DEF SenderInit
<1>2. collector \in [serial_mode : SerialKinds, can_enabled : BOOLEAN]
  BY DEF SenderInit
<1>3. SendTyped
  <2>1. work \in Seq(WorkRec) /\ inbox \in Seq(Message) /\ line \in Seq(LineByte)
    BY <1>1
  <2>2. MaxWorkers \in Nat /\ Planned \in Nat
    BY SenderAssumption
  <2> QED BY <1>1, <1>2, <2>1, <2>2 DEF SendTyped
<1>4. WindowOK /\ CountOK /\ PortOK /\ LineOK
  BY <1>1 DEF WindowOK, CountOK, PortOK, LineOK
<1> QED BY <1>3, <1>4 DEF SenderInv

\* Worker w becomes the record c.
Moved(w, c) ==
    /\ work' = [work EXCEPT ![w] = c]
    /\ c \in WorkRec /\ c.kind = work[w].kind /\ RecordFits(c)

\* It may say m: its end comes last, and what it reports fits its count.
Speaks(w, c, m) ==
    /\ BusyRec(c) => BusyRec(work[w])
    /\ m # <<>> => BusyRec(work[w])
    /\ \A i \in DOMAIN m :
          /\ m[i].type = "finished" => i = Len(m) /\ ~BusyRec(c)
          /\ m[i].type = "stats" => i = 1 /\ c.kind # "once" /\ CountFits(c, m[i].frames)
    /\ (\A i \in DOMAIN m : m[i].type # "stats") =>
          \A x \in 0..Planned : CountFits(work[w], x) => CountFits(c, x)

\* It leaves the line as it is, and the port to another.
KeepsPort(w, c) ==
    /\ c.at = "open" => work[w].at = "open" /\ c.frames = work[w].frames
    /\ IsSerial(w) /\ c.at \in Writes => portUser' = w
    /\ portUser' = portUser \/ (portUser \in {0, w} /\ portUser' \in {0, w})
    /\ IsSerial(w) /\ Settled(c) => WholeTo(w, c.frames)
    /\ IsSerial(w) /\ c.at = "write" => WrittenTo(w, c)

(* The other workers stay as they are.                                       *)
LEMMA MovedFacts ==
    ASSUME SendTyped, NEW w \in DOMAIN work, NEW c, Moved(w, c)
    PROVE  /\ work' \in Seq(WorkRec) /\ Len(work') = Len(work) /\ DOMAIN work' = DOMAIN work
           /\ work'[w] = c
           /\ \A v \in DOMAIN work : (v # w => work'[v] = work[v]) /\ work'[v].kind = work[v].kind
           /\ \A v \in DOMAIN work' : RecordFits(work'[v])
<1>1. work \in Seq(WorkRec) /\ c \in WorkRec /\ work' = [work EXCEPT ![w] = c] /\ c.kind = work[w].kind
  BY DEF SendTyped, Moved
<1>2. work' \in Seq(WorkRec) /\ Len(work') = Len(work) /\ DOMAIN work' = DOMAIN work
  BY <1>1
<1>3. work'[w] = c /\ \A v \in DOMAIN work : v # w => work'[v] = work[v]
  BY <1>1
<1>4. \A v \in DOMAIN work : RecordFits(work[v])
  BY DEF SendTyped
<1>5. RecordFits(c)
  BY DEF Moved
<1> QED BY <1>1, <1>2, <1>3, <1>4, <1>5

(* What the window holds stays right when a worker moves and speaks.         *)
LEMMA SpeakStep ==
    ASSUME SenderInv, NEW w \in DOMAIN work, NEW c, NEW m \in Seq(Message),
           Moved(w, c), Says(w, m), Rest, Speaks(w, c, m)
    PROVE  WindowOK' /\ CountOK' /\ inbox' \in Seq(Message)
<1>1. SendTyped /\ WindowOK /\ CountOK
  BY DEF SenderInv
<1>2. /\ Len(work') = Len(work) /\ DOMAIN work' = DOMAIN work
      /\ work'[w] = c
      /\ \A v \in DOMAIN work : (v # w => work'[v] = work[v]) /\ work'[v].kind = work[v].kind
  BY <1>1, MovedFacts
<1>3. /\ workerRx' = workerRx /\ stopFlag' = stopFlag /\ shown' = shown
      /\ lastShown' = lastShown /\ collector' = collector
  BY DEF Rest
<1>4. /\ inbox \in Seq(Message) /\ w # 0 /\ w \in Nat /\ DOMAIN work = 1 .. Len(work)
      /\ workerRx \in 0 .. Len(work) /\ lastShown \in 0 .. Len(work)
  BY <1>1 DEF SendTyped
<1>5. BusyRec(c) => BusyRec(work[w])
  BY DEF Speaks
<1>6. \/ inbox' = inbox
      \/ workerRx = w /\ m # <<>> /\ inbox' = inbox \o m
  BY <1>4 DEF Says
<1>7. inbox' \in Seq(Message)
  <2>1. inbox \o m \in Seq(Message)
    BY <1>4, ConcatProperties
  <2> QED BY <1>4, <1>6, <2>1
<1>8. ASSUME workerRx = w, m # <<>>, inbox' = inbox \o m
      PROVE  /\ Len(inbox') = Len(inbox) + Len(m)
             /\ \A i \in DOMAIN inbox : inbox'[i] = inbox[i] /\ inbox[i].type # "finished"
             /\ \A i \in DOMAIN inbox' : i > Len(inbox) => i - Len(inbox) \in DOMAIN m /\ inbox'[i] = m[i - Len(inbox)]
  <2>1. BusyRec(work[w])
    BY <1>8 DEF Speaks
  <2> QED BY <1>1, <1>4, <1>8, <2>1 DEF WindowOK
<1>9. WindowOK'
  <2>1. /\ stopFlag' # 0 => workerRx' = stopFlag'
        /\ workerRx' = 0 => inbox' = <<>>
    BY <1>1, <1>3, <1>4, <1>6 DEF WindowOK
  <2>2. \A v \in DOMAIN work' : BusyRec(work'[v]) /\ work'[v].kind # "once" =>
            /\ stopFlag' = v /\ v = Len(work')
            /\ work'[v].kind \in SerialKinds => collector'.serial_mode = work'[v].kind
    BY <1>1, <1>2, <1>3, <1>5 DEF WindowOK, IsSerial
  <2>3. \A i \in DOMAIN inbox' : inbox'[i].type = "finished" => i = Len(inbox') /\ ~BusyRec(work'[workerRx'])
    <3>1. CASE inbox' = inbox
      <4>1. \A i \in DOMAIN inbox : inbox[i].type = "finished" => i = Len(inbox) /\ ~BusyRec(work[workerRx])
        BY <1>1 DEF WindowOK
      <4>2. inbox # <<>> => workerRx \in DOMAIN work
        BY <1>1, <1>4 DEF WindowOK
      <4>3. ~BusyRec(work[workerRx]) /\ workerRx \in DOMAIN work => ~BusyRec(work'[workerRx])
        BY <1>2, <1>5
      <4> QED BY <1>3, <3>1, <4>1, <4>2, <4>3
    <3>2. CASE workerRx = w /\ m # <<>> /\ inbox' = inbox \o m
      <4>1. \A i \in DOMAIN m : m[i].type = "finished" => i = Len(m) /\ ~BusyRec(c)
        BY DEF Speaks
      <4>2. ASSUME NEW i \in DOMAIN inbox', inbox'[i].type = "finished"
            PROVE  i = Len(inbox') /\ ~BusyRec(c)
        <5>1. i \in 1 .. Len(inbox') /\ Len(inbox) \in Nat /\ Len(m) \in Nat /\ DOMAIN inbox = 1 .. Len(inbox)
          BY <1>4, <1>7
        <5>2. i > Len(inbox)
          BY <1>8, <3>2, <4>2, <5>1
        <5>3. i - Len(inbox) = Len(m) /\ ~BusyRec(c)
          BY <1>8, <3>2, <4>1, <4>2, <5>2
        <5>4. Len(inbox') = Len(inbox) + Len(m) /\ i \in Nat
          BY <1>8, <3>2, <5>1
        <5>5. i = Len(inbox')
          BY <5>1, <5>3, <5>4
        <5> QED BY <5>3, <5>5
      <4> QED BY <1>2, <1>3, <3>2, <4>2
    <3> QED BY <1>6, <3>1, <3>2
  <2>4. workerRx' # 0 /\ work'[workerRx'].kind = "once" =>
            \A i \in DOMAIN inbox' : inbox'[i].type # "stats"
    <3>1. CASE inbox' = inbox
      BY <1>1, <1>2, <1>3, <1>4, <3>1 DEF WindowOK
    <3>2. CASE workerRx = w /\ m # <<>> /\ inbox' = inbox \o m
      <4>1. \A i \in DOMAIN m : m[i].type = "stats" => c.kind # "once"
        BY DEF Speaks
      <4>2. work[w].kind = "once" => \A i \in DOMAIN inbox : inbox[i].type # "stats"
        BY <1>1, <1>4, <3>2 DEF WindowOK
      <4> QED BY <1>2, <1>3, <1>4, <1>7, <1>8, <3>2, <4>1, <4>2
    <3> QED BY <1>6, <3>1, <3>2
  <2> QED BY <2>1, <2>2, <2>3, <2>4 DEF WindowOK, IsSerial
<1>10. CountOK'
  <2>1. workerRx' # 0 => work'[workerRx'].kind = "once"
            \/ \E x \in 0..Planned : LastReport(x)' /\ CountFits(work'[workerRx'], x)
    <3> SUFFICES ASSUME workerRx # 0, work'[workerRx].kind # "once"
                 PROVE  \E x \in 0..Planned : LastReport(x)' /\ CountFits(work'[workerRx], x)
      BY <1>3
    <3>1. workerRx \in DOMAIN work /\ work[workerRx].kind # "once"
      BY <1>2, <1>4
    <3>2. PICK x \in 0..Planned : LastReport(x) /\ CountFits(work[workerRx], x)
      BY <1>1, <3>1 DEF CountOK
    <3>3. (\A i \in DOMAIN m : m[i].type # "stats") => (CountFits(work[w], x) => CountFits(c, x))
      BY DEF Speaks
    <3>4. CASE workerRx # w
      <4>1. inbox' = inbox /\ work'[workerRx] = work[workerRx]
        BY <1>2, <1>6, <3>1, <3>4
      <4> QED BY <1>3, <3>2, <4>1 DEF LastReport
    <3>5. CASE workerRx = w /\ \A i \in DOMAIN m : m[i].type # "stats"
      <4>1. CountFits(work'[workerRx], x)
        BY <1>2, <3>2, <3>3, <3>5
      <4>2. CASE inbox' = inbox
        BY <1>3, <3>2, <4>1, <4>2 DEF LastReport
      <4>3. CASE m # <<>> /\ inbox' = inbox \o m
        <5>1. LastReport(x)'
          <6>1. \A i \in DOMAIN inbox' : i > Len(inbox) => inbox'[i].type # "stats"
            BY <1>8, <3>5, <4>3
          <6>2. \A i \in DOMAIN inbox : i \in DOMAIN inbox' /\ inbox'[i] = inbox[i]
            BY <1>4, <1>7, <1>8, <3>5, <4>3
          <6>3. \A i \in DOMAIN inbox' : i > Len(inbox) \/ i \in DOMAIN inbox
            BY <1>4, <1>7
          <6> QED BY <1>3, <3>2, <6>1, <6>2, <6>3 DEF LastReport
        <5> QED BY <4>1, <5>1
      <4> QED BY <1>6, <4>2, <4>3
    <3>6. CASE workerRx = w /\ ~(\A i \in DOMAIN m : m[i].type # "stats")
      <4>1. PICK k \in DOMAIN m : m[k].type = "stats"
        BY <3>6
      <4>2. k = 1 /\ CountFits(c, m[1].frames) /\ \A i \in DOMAIN m : m[i].type = "stats" => i = 1
        BY <4>1 DEF Speaks
      <4>3. m[1] \in Message /\ m[1].type = "stats" /\ m # <<>> /\ 1 \in DOMAIN m
        BY <4>1, <4>2
      <4>4. m[1].frames \in 0 .. Planned
        BY <4>3 DEF Message, StatsMsg, EndMsg
      <4>5. inbox' = inbox \o m
        BY <3>6, <4>3 DEF Says
      <4>6. LastReport(m[1].frames)'
        <5>1. Len(inbox) + 1 \in DOMAIN inbox' /\ inbox'[Len(inbox) + 1] = m[1]
          BY <1>4, <4>3, <4>5
        <5>2. \A j \in DOMAIN inbox' : inbox'[j].type = "stats" => j <= Len(inbox) + 1
          BY <1>4, <1>7, <1>8, <3>6, <4>2, <4>3, <4>5
        <5> QED BY <4>3, <5>1, <5>2 DEF LastReport
      <4> QED BY <1>2, <3>6, <4>2, <4>4, <4>6
    <3> QED BY <3>4, <3>5, <3>6
  <2>2. lastShown' # 0 =>
          /\ ~BusyRec(work'[lastShown']) /\ CountFits(work'[lastShown'], shown')
          /\ workerRx' # 0 => work'[workerRx'].kind = "once"
    <3> SUFFICES ASSUME lastShown # 0
                 PROVE  /\ ~BusyRec(work'[lastShown]) /\ CountFits(work'[lastShown], shown)
                        /\ workerRx # 0 => work'[workerRx].kind = "once"
      BY <1>3
    <3>1. /\ ~BusyRec(work[lastShown]) /\ CountFits(work[lastShown], shown)
          /\ workerRx # 0 => work[workerRx].kind = "once"
      BY <1>1 DEF CountOK
    <3>2. shown \in 0 .. Planned /\ lastShown \in DOMAIN work
      BY <1>1, <1>4 DEF SendTyped
    <3>3. CASE lastShown = w
      <4>1. m = <<>>
        BY <3>1, <3>3 DEF Speaks
      <4>2. CountFits(work[w], shown) => CountFits(c, shown)
        BY <3>2, <4>1 DEF Speaks
      <4> QED BY <1>2, <1>4, <1>5, <3>1, <3>3, <4>2
    <3>4. CASE lastShown # w
      <4>1. work'[lastShown] = work[lastShown]
        BY <1>2, <3>2, <3>4
      <4>2. workerRx # 0 => work'[workerRx].kind = work[workerRx].kind
        BY <1>2, <1>4
      <4> QED BY <3>1, <4>1, <4>2
    <3> QED BY <3>3, <3>4
  <2> QED BY <2>1, <2>2 DEF CountOK
<1> QED BY <1>7, <1>9, <1>10

(* The bytes on the line stay right when a worker moves and writes none.     *)
LEMMA PortStep ==
    ASSUME SenderInv, NEW w \in DOMAIN work, NEW c,
           Moved(w, c), UNCHANGED line, KeepsPort(w, c)
    PROVE  PortOK' /\ LineOK' /\ portUser' \in 0 .. Len(work)
<1>1. SendTyped /\ PortOK /\ LineOK
  BY DEF SenderInv
<1>2. /\ Len(work') = Len(work) /\ DOMAIN work' = DOMAIN work
      /\ work'[w] = c
      /\ \A v \in DOMAIN work : (v # w => work'[v] = work[v]) /\ work'[v].kind = work[v].kind
  BY <1>1, MovedFacts
<1>3. w # 0 /\ w \in Nat /\ DOMAIN work = 1 .. Len(work) /\ portUser \in 0 .. Len(work)
  BY <1>1 DEF SendTyped
<1>4. /\ portUser' \in {portUser, 0, w}
      /\ \A v \in DOMAIN work : v # w /\ portUser = v => portUser' = v
  BY <1>3 DEF KeepsPort
<1>5. PortOK'
  <2>1. \A v \in DOMAIN work' : work'[v].kind \in SerialKinds /\ work'[v].at \in Writes => portUser' = v
    <3>1. \A v \in DOMAIN work : work[v].kind \in SerialKinds /\ work[v].at \in Writes => portUser = v
      BY <1>1 DEF PortOK, IsSerial
    <3>2. work[w].kind \in SerialKinds /\ c.at \in Writes => portUser' = w
      BY DEF KeepsPort, IsSerial
    <3> QED BY <1>2, <1>4, <3>1, <3>2
  <2>2. \A i \in DOMAIN line' :
            /\ line'[i].by \in DOMAIN work'
            /\ work'[line'[i].by].kind \in SerialKinds /\ work'[line'[i].by].at # "open"
    BY <1>1, <1>2 DEF PortOK, KeepsPort, IsSerial
  <2>3. \A v \in DOMAIN work' : work'[v].at = "open" => work'[v].frames = 0
    BY <1>1, <1>2 DEF PortOK, KeepsPort
  <2> QED BY <2>1, <2>2, <2>3 DEF PortOK, IsSerial
<1>6. LineOK'
  <2>1. /\ \A i, j \in DOMAIN line' : i < j => line'[i].by <= line'[j].by
        /\ \A i \in DOMAIN line' :
              \/ i > 1 /\ line'[i] = NextByte(line'[i - 1])
              \/ (i = 1 \/ line'[i - 1].by # line'[i].by) /\ line'[i] = ByteOf(line'[i].by, 1, 1)
    BY <1>1 DEF LineOK
  <2>2. \A v \in DOMAIN work : \A n : WholeTo(v, n) => WholeTo(v, n)'
    BY DEF WholeTo, LastOf
  <2>3. \A v \in DOMAIN work : WrittenTo(v, work'[v]) => WrittenTo(v, work[v])'
    BY DEF WrittenTo, WholeTo, LastOf
  <2>4. \A v \in DOMAIN work' : work'[v].kind \in SerialKinds =>
            /\ Settled(work'[v]) => WholeTo(v, work[v].frames)'
            /\ work'[v].at = "write" => WrittenTo(v, work[v])'
    <3> SUFFICES ASSUME NEW v \in DOMAIN work, work'[v].kind \in SerialKinds
                 PROVE  /\ Settled(work'[v]) => WholeTo(v, work'[v].frames)
                        /\ work'[v].at = "write" => WrittenTo(v, work'[v])
      BY <1>2, <2>2, <2>3
    <3>1. CASE v = w
      BY <1>2, <3>1 DEF KeepsPort, IsSerial
    <3>2. CASE v # w
      BY <1>1, <1>2, <3>2 DEF LineOK, IsSerial
    <3> QED BY <3>1, <3>2
  <2> QED BY <2>1, <2>4 DEF LineOK, IsSerial
<1> QED BY <1>3, <1>4, <1>5, <1>6

(* Both together.                                                            *)
LEMMA WorkerStep ==
    ASSUME SenderInv, NEW w \in DOMAIN work, NEW c, NEW m \in Seq(Message),
           Moved(w, c), Says(w, m), Rest, Speaks(w, c, m), UNCHANGED line, KeepsPort(w, c)
    PROVE  SenderInv'
<1>1. SendTyped
  BY DEF SenderInv
<1>2. WindowOK' /\ CountOK' /\ inbox' \in Seq(Message)
  BY SpeakStep
<1>3. PortOK' /\ LineOK' /\ portUser' \in 0 .. Len(work)
  BY PortStep
<1>4. /\ work' \in Seq(WorkRec) /\ Len(work') = Len(work)
      /\ \A v \in DOMAIN work' : RecordFits(work'[v])
  BY <1>1, MovedFacts
<1>5. SendTyped'
  BY <1>1, <1>2, <1>3, <1>4 DEF SendTyped, Rest
<1> QED BY <1>2, <1>3, <1>5 DEF SenderInv

(* A step without a message, and what is in one.                             *)
LEMMA Messages ==
    /\ <<>> \in Seq(Message)
    /\ \A n \in 0..Planned : Stats(n) \in Message /\ Stats(n).type = "stats" /\ Stats(n).frames = n
    /\ \A k \in Outcomes : Finished(k) \in Message /\ Finished(k).type = "finished"
    /\ \A a, b \in Message :
          /\ <<a>> \in Seq(Message) /\ Append(<<>>, a) = <<a>> /\ Append(<<a>>, b) \in Seq(Message)
          /\ <<a>> # <<>> /\ Len(<<a>>) = 1 /\ DOMAIN <<a>> = {1} /\ <<a>>[1] = a
          /\ Len(Append(<<a>>, b)) = 2 /\ DOMAIN Append(<<a>>, b) = {1, 2}
          /\ Append(<<a>>, b)[1] = a /\ Append(<<a>>, b)[2] = b
<1>1. \A n \in 0..Planned : Stats(n) \in Message /\ Stats(n).type = "stats" /\ Stats(n).frames = n
  BY DEF Stats, Message, StatsMsg
<1>2. \A k \in Outcomes : Finished(k) \in Message /\ Finished(k).type = "finished"
  BY DEF Finished, Message, EndMsg
<1>3. ASSUME NEW a \in Message, NEW b \in Message
      PROVE  /\ <<a>> \in Seq(Message) /\ Append(<<>>, a) = <<a>> /\ Append(<<a>>, b) \in Seq(Message)
             /\ <<a>> # <<>> /\ Len(<<a>>) = 1 /\ DOMAIN <<a>> = {1} /\ <<a>>[1] = a
             /\ Len(Append(<<a>>, b)) = 2 /\ DOMAIN Append(<<a>>, b) = {1, 2}
             /\ Append(<<a>>, b)[1] = a /\ Append(<<a>>, b)[2] = b
  <2>1. <<a>> \in Seq(Message) /\ Len(<<a>>) = 1 /\ <<a>>[1] = a /\ DOMAIN <<a>> = 1 .. 1
    OBVIOUS
  <2>2. /\ Append(<<a>>, b) \in Seq(Message) /\ Len(Append(<<a>>, b)) = 2
        /\ Append(<<a>>, b)[1] = a /\ Append(<<a>>, b)[2] = b /\ DOMAIN Append(<<a>>, b) = 1 .. 2
    OBVIOUS
  <2>3. Append(<<>>, a) = <<a>>
    OBVIOUS
  <2> QED BY <2>1, <2>2, <2>3
<1> QED BY <1>1, <1>2, <1>3

(* What a worker may do while it says nothing.                               *)
LEMMA SilentStep ==
    ASSUME SenderInv, NEW w \in DOMAIN work, NEW c, Moved(w, c), Silent, Rest, UNCHANGED line, KeepsPort(w, c),
           BusyRec(c) => BusyRec(work[w]),
           \A x \in 0..Planned : CountFits(work[w], x) => CountFits(c, x)
    PROVE  SenderInv'
<1>1. inbox \in Seq(Message)
  BY DEF SenderInv, SendTyped
<1>2. Says(w, <<>>)
  BY <1>1 DEF Says, Silent
<1>3. Speaks(w, c, <<>>)
  BY DEF Speaks
<1> QED BY <1>2, <1>3, Messages, WorkerStep

(* ... reports its count, ...                                                *)
LEMMA ReportStep ==
    ASSUME SenderInv, NEW w \in DOMAIN work, NEW c, NEW n \in 0..Planned,
           Moved(w, c), Says(w, <<Stats(n)>>), Rest, UNCHANGED line, KeepsPort(w, c),
           BusyRec(work[w]), c.kind # "once", CountFits(c, n)
    PROVE  SenderInv'
<1> DEFINE a == Stats(n)
<1>1. a \in Message /\ a.type = "stats" /\ a.frames = n
  BY Messages
<1>2. Says(w, <<a>>)
  OBVIOUS
<1> HIDE DEF a
<1>3. <<a>> \in Seq(Message) /\ <<a>> # <<>> /\ Len(<<a>>) = 1 /\ DOMAIN <<a>> = {1} /\ <<a>>[1] = a
  BY <1>1, Messages
<1>4. Speaks(w, c, <<a>>)
  BY <1>1, <1>3 DEF Speaks
<1> QED BY <1>2, <1>3, <1>4, WorkerStep

(* ... or its end, with or without a last count.                             *)
LEMMA EndStep ==
    ASSUME SenderInv, NEW w \in DOMAIN work, NEW c, NEW k \in Outcomes,
           Moved(w, c), Says(w, Append(<<>>, Finished(k))), Rest, UNCHANGED line, KeepsPort(w, c),
           BusyRec(work[w]), ~BusyRec(c),
           \A x \in 0..Planned : CountFits(work[w], x) => CountFits(c, x)
    PROVE  SenderInv'
<1> DEFINE a == Finished(k)
<1>1. a \in Message /\ a.type = "finished"
  BY Messages
<1>2. Says(w, Append(<<>>, a))
  OBVIOUS
<1> HIDE DEF a
<1>3. <<a>> \in Seq(Message) /\ Append(<<>>, a) = <<a>> /\ Len(<<a>>) = 1 /\ DOMAIN <<a>> = {1} /\ <<a>>[1] = a
  BY <1>1, Messages
<1>4. Speaks(w, c, <<a>>)
  BY <1>1, <1>3 DEF Speaks
<1> QED BY <1>2, <1>3, <1>4, WorkerStep

(* The last count and the end of a replay.                                   *)
LEMMA TotalStep ==
    ASSUME SenderInv, NEW w \in DOMAIN work, NEW c, NEW n \in 0..Planned, NEW k \in Outcomes,
           Moved(w, c), Says(w, Append(<<Stats(n)>>, Finished(k))), Rest, UNCHANGED line, KeepsPort(w, c),
           BusyRec(work[w]), ~BusyRec(c), c.kind # "once", CountFits(c, n)
    PROVE  SenderInv'
<1> DEFINE a == Stats(n)
           b == Finished(k)
<1>1. a \in Message /\ a.type = "stats" /\ a.frames = n /\ b \in Message /\ b.type = "finished"
  BY Messages
<1>2. Says(w, Append(<<a>>, b))
  OBVIOUS
<1> HIDE DEF a, b
<1> DEFINE m == Append(<<a>>, b)
<1>3. m \in Seq(Message) /\ Len(m) = 2 /\ DOMAIN m = {1, 2} /\ m[1] = a /\ m[2] = b
  BY <1>1, Messages
<1> HIDE DEF m
<1>4. Speaks(w, c, m)
  BY <1>1, <1>3 DEF Speaks
<1>5. Says(w, m)
  BY <1>2 DEF m
<1> QED BY <1>3, <1>4, <1>5, WorkerStep

(* What is known of a worker.                                                *)
LEMMA WorkerFacts ==
    ASSUME SenderInv, NEW w \in DOMAIN work
    PROVE  /\ work[w] \in WorkRec /\ RecordFits(work[w])
           /\ work[w].kind \in Kinds /\ work[w].at \in Places /\ work[w].stop \in BOOLEAN
           /\ work[w].frames \in Nat /\ work[w].frames <= Planned /\ work[w].atStop \in Nat
           /\ work[w].offset \in 0..RawLen /\ work[w].retries \in 0..MaxRetries
           /\ work[w].acks \in 0..Planned /\ work[w].outcome \in Outcomes
           /\ w \in Nat \ {0} /\ w <= Len(work) /\ Len(work) \in Nat /\ portUser \in 0..Len(work)
           /\ work[w].at = "open" => work[w].frames = 0 /\ WholeTo(w, 0)
           /\ IsSerial(w) /\ work[w].at \in Writes => portUser = w
           /\ IsSerial(w) /\ Settled(work[w]) => WholeTo(w, work[w].frames)
           /\ IsSerial(w) /\ work[w].at = "write" => WrittenTo(w, work[w])
<1>1. work \in Seq(WorkRec) /\ portUser \in 0..Len(work) /\ RecordFits(work[w])
  BY DEF SenderInv, SendTyped
<1>2. work[w] \in WorkRec /\ w \in Nat \ {0} /\ w <= Len(work) /\ Len(work) \in Nat
  BY <1>1
<1>3. /\ work[w].kind \in Kinds /\ work[w].at \in Places /\ work[w].stop \in BOOLEAN
      /\ work[w].frames \in Nat /\ work[w].frames <= Planned /\ work[w].atStop \in Nat
      /\ work[w].offset \in 0..RawLen /\ work[w].retries \in 0..MaxRetries
      /\ work[w].acks \in 0..Planned /\ work[w].outcome \in Outcomes
  BY <1>2, SenderAssumption DEF WorkRec
<1>4. work[w].at = "open" => work[w].frames = 0 /\ \A i \in DOMAIN line : line[i].by # w
  BY DEF SenderInv, PortOK
<1>5. work[w].at = "open" => WholeTo(w, 0)
  BY <1>4 DEF WholeTo, LastOf
<1>6. IsSerial(w) /\ work[w].at \in Writes => portUser = w
  BY DEF SenderInv, PortOK
<1>7. /\ IsSerial(w) /\ Settled(work[w]) => WholeTo(w, work[w].frames)
      /\ IsSerial(w) /\ work[w].at = "write" => WrittenTo(w, work[w])
  BY DEF SenderInv, LineOK
<1> QED BY <1>1, <1>2, <1>3, <1>4, <1>5, <1>6, <1>7

(* A worker begins, ...                                                      *)
LEMMA OpenLineStep ==
    ASSUME SenderInv, NEW w \in DOMAIN work, OpenLine(w), Rest
    PROVE  SenderInv'
<1> DEFINE c == [work[w] EXCEPT !.at = "loop"]
<1> USE WorkerFacts
<1>1. work[w].at = "open" /\ work' = [work EXCEPT ![w] = c] /\ Silent /\ UNCHANGED line
  BY DEF OpenLine, Goes
<1>2. /\ c \in WorkRec /\ c.kind = work[w].kind /\ c.at = "loop" /\ c.stop = work[w].stop
      /\ c.frames = work[w].frames /\ c.atStop = work[w].atStop /\ c.acks = work[w].acks
      /\ c.outcome = work[w].outcome
  BY DEF WorkRec, Places
<1> HIDE DEF c
<1>3. Moved(w, c)
  BY <1>1, <1>2 DEF Moved, RecordFits, StopFits, BusyRec
<1>4. KeepsPort(w, c)
  BY <1>1, <1>2 DEF KeepsPort, OpenLine, Settled, Writes
<1>5. BusyRec(work[w])
  BY <1>1 DEF BusyRec
<1>6. \A x \in 0..Planned : CountFits(work[w], x) => CountFits(c, x)
  BY <1>1, <1>2 DEF CountFits
<1> QED BY <1>1, <1>3, <1>4, <1>5, <1>6, SilentStep

(* ... or fails, ...                                                         *)
LEMMA FailStep ==
    ASSUME SenderInv, NEW w \in DOMAIN work, BusyRec(work[w]), Fail(w), Rest
    PROVE  SenderInv'
<1> DEFINE c == [work[w] EXCEPT !.at = "failed"]
<1> USE WorkerFacts
<1>1. work' = [work EXCEPT ![w] = c] /\ Silent /\ UNCHANGED line
  BY DEF Fail, Goes
<1>2. /\ c \in WorkRec /\ c.kind = work[w].kind /\ c.at = "failed" /\ c.stop = work[w].stop
      /\ c.frames = work[w].frames /\ c.atStop = work[w].atStop /\ c.acks = work[w].acks
      /\ c.outcome = work[w].outcome /\ c.outcome = "none"
  BY DEF WorkRec, Places, RecordFits
<1> HIDE DEF c
<1>3. Moved(w, c)
  BY <1>1, <1>2 DEF Moved, RecordFits, StopFits, BusyRec
<1>4. KeepsPort(w, c)
  BY <1>1, <1>2 DEF KeepsPort, Fail, Settled, Writes
<1>5. \A x \in 0..Planned : CountFits(work[w], x) => CountFits(c, x)
  BY <1>1, <1>2 DEF CountFits
<1> QED BY <1>1, <1>3, <1>4, <1>5, SilentStep

(* ... or panics.                                                            *)
LEMMA OverflowStep ==
    ASSUME SenderInv, NEW w \in DOMAIN work, Overflows(w), Rest
    PROVE  SenderInv'
<1> DEFINE c == [work[w] EXCEPT !.at = "ended"]
<1> USE WorkerFacts
<1>1. /\ work[w].at = "loop" /\ IsSerial(w) /\ portUser' = 0
      /\ work' = [work EXCEPT ![w] = c] /\ Silent /\ UNCHANGED line
  BY DEF Overflows, Goes
<1>2. /\ c \in WorkRec /\ c.kind = work[w].kind /\ c.at = "ended" /\ c.stop = work[w].stop
      /\ c.frames = work[w].frames /\ c.atStop = work[w].atStop /\ c.acks = work[w].acks
      /\ c.outcome = work[w].outcome /\ c.outcome = "none"
  BY <1>1 DEF WorkRec, Places, RecordFits, BusyRec
<1> HIDE DEF c
<1>3. Moved(w, c)
  BY <1>1, <1>2 DEF Moved, RecordFits, StopFits, BusyRec
<1>4. portUser = w
  BY <1>1 DEF Writes
<1>5. KeepsPort(w, c)
  BY <1>1, <1>2, <1>4 DEF KeepsPort, Settled, Writes
<1>6. \A x \in 0..Planned : CountFits(work[w], x) => CountFits(c, x)
  BY <1>1, <1>2 DEF CountFits
<1>7. ~BusyRec(c)
  BY <1>2 DEF BusyRec
<1> QED BY <1>1, <1>3, <1>5, <1>6, <1>7, SilentStep

(* A sender that sees Stop, or is through, says so while its port is open.   *)
LEMMA ConcludeStep ==
    ASSUME SenderInv, NEW w \in DOMAIN work, NEW k \in {"stopped", "done"},
           work[w].at = "loop", work[w].kind # "once", k = "done" => IsSerial(w),
           Concludes(w, k, "closing", <<>>), Rest
    PROVE  SenderInv'
<1> DEFINE c == [work[w] EXCEPT !.at = "closing", !.outcome = k]
<1> USE WorkerFacts
<1>1. /\ work' = [work EXCEPT ![w] = c] /\ Says(w, Append(<<>>, Finished(k)))
      /\ UNCHANGED <<portUser, line>>
  BY DEF Concludes
<1>2. /\ c \in WorkRec /\ c.kind = work[w].kind /\ c.at = "closing" /\ c.stop = work[w].stop
      /\ c.frames = work[w].frames /\ c.atStop = work[w].atStop /\ c.acks = work[w].acks
      /\ c.outcome = k /\ k \in Outcomes
  BY DEF WorkRec, Places, Outcomes
<1> HIDE DEF c
<1>3. Moved(w, c)
  BY <1>1, <1>2 DEF Moved, RecordFits, StopFits, BusyRec
<1>4. KeepsPort(w, c)
  BY <1>1, <1>2 DEF KeepsPort, Settled, Writes
<1>5. \A x \in 0..Planned : CountFits(work[w], x) => CountFits(c, x)
  BY <1>1, <1>2 DEF CountFits, Kinds, SerialKinds, IsSerial
<1>6. BusyRec(work[w]) /\ ~BusyRec(c)
  BY <1>2 DEF BusyRec
<1> QED BY <1>1, <1>2, <1>3, <1>4, <1>5, <1>6, EndStep

(* A frame is begun: not after Stop, unless the tick is not through.         *)
LEMMA BeginStep ==
    ASSUME SenderInv, NEW w \in DOMAIN work, BeginFrame(w), Rest
    PROVE  SenderInv'
<1> DEFINE c == [work[w] EXCEPT !.at = "write", !.offset = 0, !.retries = 0]
<1> USE WorkerFacts
<1>1. /\ work[w].at = "loop" /\ IsSerial(w) /\ work[w].frames < Planned /\ ~Stopping(w)
      /\ work' = [work EXCEPT ![w] = c] /\ Silent /\ UNCHANGED <<portUser, line>>
  BY DEF BeginFrame
<1>2. /\ c \in WorkRec /\ c.kind = work[w].kind /\ c.at = "write" /\ c.stop = work[w].stop
      /\ c.frames = work[w].frames /\ c.atStop = work[w].atStop /\ c.acks = work[w].acks
      /\ c.outcome = work[w].outcome /\ c.offset = 0
  <2>1. 0 \in 0..RawLen /\ 0 \in 0..MaxRetries
    BY SenderAssumption
  <2>2. work[w] \in WorkRec
    OBVIOUS
  <2> QED BY ONLY <2>1, <2>2 DEF WorkRec, Places
<1> HIDE DEF c
<1>3. work[w].stop => work[w].kind = "sent" /\ work[w].frames % Pairs # 0
  BY <1>1 DEF Stopping, LooksAtStop
<1>4. work[w].stop => work[w].frames <= TickEnd(work[w].atStop) /\ work[w].frames # TickEnd(work[w].atStop)
  BY <1>3, TickFacts DEF RecordFits, StopFits
<1>5. StopFits(c)
  BY <1>2, <1>3, <1>4, TickFacts DEF StopFits
<1>6. Moved(w, c)
  BY <1>1, <1>2, <1>5 DEF Moved, RecordFits, BusyRec, IsSerial, SerialKinds
<1>7. KeepsPort(w, c)
  BY <1>1, <1>2 DEF KeepsPort, Settled, Writes, WrittenTo, RecordFits, BusyRec
<1>8. \A x \in 0..Planned : CountFits(work[w], x) => CountFits(c, x)
  BY <1>1, <1>2 DEF CountFits
<1>9. BusyRec(work[w])
  BY <1>1 DEF BusyRec
<1> QED BY <1>1, <1>6, <1>7, <1>8, <1>9, SilentStep

(* A write that is tried again goes on where it was.                         *)
LEMMA RetryStep ==
    ASSUME SenderInv, NEW w \in DOMAIN work, WriteNothing(w), Rest
    PROVE  SenderInv'
<1> DEFINE c == [work[w] EXCEPT !.retries = @ + 1]
<1> USE WorkerFacts
<1>1. work[w].at = "write"
  BY DEF WriteNothing
<1>2. BusyRec(work[w])
  BY <1>1 DEF BusyRec
<1>3. CASE work[w].retries < MaxRetries
  <2>1. work' = [work EXCEPT ![w] = c] /\ Silent /\ UNCHANGED <<portUser, line>>
    BY <1>3 DEF WriteNothing, Retried, Silent
  <2>2. /\ c \in WorkRec /\ c.kind = work[w].kind /\ c.at = work[w].at /\ c.stop = work[w].stop
        /\ c.frames = work[w].frames /\ c.atStop = work[w].atStop /\ c.acks = work[w].acks
        /\ c.outcome = work[w].outcome /\ c.offset = work[w].offset
    <3>1. work[w].retries + 1 \in 0..MaxRetries
      BY <1>3, SenderAssumption
    <3>2. work[w] \in WorkRec
      OBVIOUS
    <3> QED BY ONLY <3>1, <3>2 DEF WorkRec
  <2> HIDE DEF c
  <2>3. Moved(w, c)
    BY <2>1, <2>2 DEF Moved, RecordFits, StopFits, BusyRec
  <2>4. KeepsPort(w, c)
    BY <1>1, <2>1, <2>2 DEF KeepsPort, Settled, Writes, WrittenTo
  <2>5. \A x \in 0..Planned : CountFits(work[w], x) => CountFits(c, x)
    BY <2>2 DEF CountFits
  <2> QED BY <1>2, <2>1, <2>3, <2>4, <2>5, SilentStep
<1>4. CASE ~(work[w].retries < MaxRetries)
  BY <1>2, <1>4, FailStep DEF WriteNothing
<1> QED BY <1>3, <1>4

(* The last byte of the frame under way is the last of its sender.           *)
LEMMA FrameIsWhole ==
    ASSUME SenderInv, NEW w \in DOMAIN work, IsSerial(w), work[w].at = "write", work[w].offset = RawLen
    PROVE  WholeTo(w, work[w].frames + 1)
<1> DEFINE n == work[w].frames + 1
<1> USE WorkerFacts
<1>1. line # <<>> /\ line[Len(line)] = ByteOf(w, n, RawLen)
  BY SenderAssumption DEF WrittenTo
<1>2. line \in Seq(LineByte) /\ \A i, j \in DOMAIN line : i < j => line[i].by <= line[j].by
  BY DEF SenderInv, SendTyped, LineOK
<1>3. Len(line) \in DOMAIN line /\ line[Len(line)].by = w /\ DOMAIN line = 1..Len(line) /\ Len(line) \in Nat
  BY <1>1, <1>2 DEF ByteOf
<1>4. ASSUME NEW i \in DOMAIN line
      PROVE  line[i].by \in Nat
  <2>1. line[i] \in LineByte
    BY <1>2
  <2> QED BY <2>1 DEF LineByte
<1>5. ASSUME NEW i \in DOMAIN line, LastOf(w, i)
      PROVE  i = Len(line)
  <2>1. CASE i < Len(line)
    <3>1. i + 1 \in DOMAIN line /\ i < i + 1
      BY <1>3, <2>1
    <3>2. line[i].by = w /\ line[i + 1].by # w
      BY <1>5, <2>1 DEF LastOf
    <3>3. w <= line[i + 1].by
      BY <1>2, <3>1, <3>2
    <3>4. line[i + 1].by <= w
      <4>1. CASE i + 1 = Len(line)
        BY <1>3, <3>2, <4>1
      <4>2. CASE i + 1 < Len(line)
        BY <1>2, <1>3, <3>1, <4>2
      <4> QED BY <1>3, <3>1, <4>1, <4>2
    <3> QED BY <1>4, <3>1, <3>2, <3>3, <3>4
  <2> QED BY <1>3, <2>1
<1> QED BY <1>1, <1>3, <1>5 DEF WholeTo

(* A frame that is written counts, and is reported unless answers come first. *)
LEMMA WrittenStep ==
    ASSUME SenderInv, NEW w \in DOMAIN work, FrameWritten(w), Rest
    PROVE  SenderInv'
<1> USE WorkerFacts
<1> DEFINE n == work[w].frames + 1
           c == [work[w] EXCEPT !.at = IF work[w].kind = "legacy" THEN "acks" ELSE "loop", !.frames = n]
<1>1. /\ work[w].at = "write" /\ work[w].offset = RawLen /\ UNCHANGED <<portUser, line>>
      /\ IF work[w].kind = "legacy" THEN Silent ELSE Says(w, <<Stats(n)>>)
      /\ work' = [work EXCEPT ![w] = c]
  BY DEF FrameWritten
<1>2. IsSerial(w) /\ n \in 0..Planned /\ work[w].frames < Planned
  BY <1>1, SenderAssumption DEF RecordFits, IsSerial
<1>3. /\ c \in WorkRec /\ c.kind = work[w].kind /\ c.at = (IF work[w].kind = "legacy" THEN "acks" ELSE "loop")
      /\ c.stop = work[w].stop /\ c.frames = n /\ c.atStop = work[w].atStop /\ c.acks = work[w].acks
      /\ c.outcome = work[w].outcome
  <2>1. work[w] \in WorkRec
    OBVIOUS
  <2> QED BY ONLY <1>2, <2>1 DEF WorkRec, Places
<1> HIDE DEF c
<1>4. Moved(w, c)
  <2>1. StopFits(c)
    <3>1. TickEnd(work[w].atStop) \in Nat
      BY TickFacts
    <3>2. StopFits(work[w])
      BY DEF RecordFits
    <3> QED BY <1>1, <1>2, <1>3, <3>1, <3>2 DEF StopFits, IsSerial, SerialKinds
  <2>2. RecordFits(c)
    BY <1>1, <1>2, <1>3, <2>1 DEF RecordFits, BusyRec, IsSerial, SerialKinds
  <2> QED BY <1>1, <1>3, <2>2 DEF Moved
<1>5. WholeTo(w, n)
  BY <1>1, <1>2, FrameIsWhole
<1>6. KeepsPort(w, c)
  BY <1>1, <1>3, <1>5 DEF KeepsPort, Writes
<1>7. BusyRec(work[w]) /\ BusyRec(c) /\ c.outcome = "none" /\ c.kind # "once"
  BY <1>1, <1>2, <1>3 DEF BusyRec, RecordFits, IsSerial, SerialKinds
<1>8. CASE work[w].kind = "legacy"
  <2>1. \A x \in 0..Planned : CountFits(work[w], x) => CountFits(c, x)
    BY <1>1, <1>2, <1>3, <1>7, <1>8 DEF CountFits, SerialKinds
  <2> QED BY <1>1, <1>4, <1>6, <1>7, <1>8, <2>1, SilentStep
<1>9. CASE work[w].kind # "legacy"
  <2>1. CountFits(c, n)
    BY <1>2, <1>3, <1>7 DEF CountFits
  <2> QED BY <1>1, <1>2, <1>4, <1>6, <1>7, <1>9, <2>1, ReportStep
<1> QED BY <1>8, <1>9

(* Answers are counted, ...                                                  *)
LEMMA AckStep ==
    ASSUME SenderInv, NEW w \in DOMAIN work, ReadAck(w), Rest
    PROVE  SenderInv'
<1> DEFINE c == [work[w] EXCEPT !.acks = @ + 1]
<1> USE WorkerFacts
<1>1. /\ work[w].at = "acks" /\ work[w].acks < work[w].frames
      /\ work' = [work EXCEPT ![w] = c] /\ Silent /\ UNCHANGED <<portUser, line>>
  BY DEF ReadAck
<1>2. /\ c \in WorkRec /\ c.kind = work[w].kind /\ c.at = "acks" /\ c.stop = work[w].stop
      /\ c.frames = work[w].frames /\ c.atStop = work[w].atStop /\ c.acks = work[w].acks + 1
      /\ c.outcome = work[w].outcome
  <2>1. work[w].acks + 1 \in 0..Planned
    BY <1>1, SenderAssumption
  <2>2. work[w] \in WorkRec
    OBVIOUS
  <2> QED BY ONLY <1>1, <2>1, <2>2 DEF WorkRec
<1> HIDE DEF c
<1>3. Moved(w, c)
  BY <1>1, <1>2 DEF Moved, RecordFits, StopFits, BusyRec
<1>4. KeepsPort(w, c)
  BY <1>1, <1>2 DEF KeepsPort, Settled, Writes
<1>5. \A x \in 0..Planned : CountFits(work[w], x) => CountFits(c, x)
  BY <1>1, <1>2 DEF CountFits
<1>6. BusyRec(work[w])
  BY <1>1 DEF BusyRec
<1> QED BY <1>1, <1>3, <1>4, <1>5, <1>6, SilentStep

(* ... and the frame is reported when none comes.                            *)
LEMMA NoMoreAcksStep ==
    ASSUME SenderInv, NEW w \in DOMAIN work, NoMoreAcks(w), Rest
    PROVE  SenderInv'
<1> DEFINE c == [work[w] EXCEPT !.at = "loop"]
<1> USE WorkerFacts
<1>1. /\ work[w].at = "acks" /\ work' = [work EXCEPT ![w] = c]
      /\ Says(w, <<Stats(work[w].frames)>>) /\ UNCHANGED <<portUser, line>>
  BY DEF NoMoreAcks, Goes
<1>2. /\ c \in WorkRec /\ c.kind = work[w].kind /\ c.at = "loop" /\ c.stop = work[w].stop
      /\ c.frames = work[w].frames /\ c.atStop = work[w].atStop /\ c.acks = work[w].acks
      /\ c.outcome = work[w].outcome
  BY DEF WorkRec, Places
<1> HIDE DEF c
<1>3. Moved(w, c)
  BY <1>1, <1>2 DEF Moved, RecordFits, StopFits, BusyRec
<1>4. KeepsPort(w, c)
  BY <1>1, <1>2 DEF KeepsPort, Settled, Writes
<1>5. BusyRec(work[w]) /\ c.kind # "once"
  BY <1>1, <1>2 DEF BusyRec, RecordFits, SerialKinds
<1>6. CountFits(c, work[w].frames)
  BY <1>2, <1>5 DEF CountFits
<1>7. work[w].frames \in 0..Planned
  BY SenderAssumption
<1> QED BY <1>1, <1>3, <1>4, <1>5, <1>6, <1>7, ReportStep

(* A row of the export is sent: not after Stop.                              *)
LEMMA RowStep ==
    ASSUME SenderInv, NEW w \in DOMAIN work, ReplayRow(w), Rest
    PROVE  SenderInv'
<1> USE WorkerFacts
<1> DEFINE n == work[w].frames + 1
           c == [work[w] EXCEPT !.frames = n]
<1>1. /\ work[w].at = "loop" /\ work[w].kind = "replay" /\ work[w].frames < Planned /\ ~work[w].stop
      /\ work' = [work EXCEPT ![w] = c] /\ Says(w, IF n <= FirstRows THEN <<Stats(n)>> ELSE <<>>)
      /\ UNCHANGED <<portUser, line>>
  BY DEF ReplayRow, Stopping, LooksAtStop
<1>2. n \in 0..Planned
  BY <1>1, SenderAssumption
<1>3. /\ c \in WorkRec /\ c.kind = "replay" /\ c.at = "loop" /\ ~c.stop
      /\ c.frames = n /\ c.acks = work[w].acks /\ c.outcome = work[w].outcome
  <2>1. work[w] \in WorkRec
    OBVIOUS
  <2> QED BY ONLY <1>1, <1>2, <2>1 DEF WorkRec
<1> HIDE DEF c
<1>4. Moved(w, c)
  <2>1. RecordFits(c)
    BY <1>1, <1>3 DEF RecordFits, StopFits, BusyRec
  <2> QED BY <1>1, <1>3, <2>1 DEF Moved
<1>5. ~IsSerial(w)
  BY <1>1 DEF IsSerial, SerialKinds
<1>6. KeepsPort(w, c)
  BY <1>1, <1>3, <1>5 DEF KeepsPort
<1>7. BusyRec(work[w]) /\ work[w].outcome = "none"
  BY <1>1 DEF BusyRec, RecordFits
<1>8. CASE n <= FirstRows
  <2>1. CountFits(c, n)
    BY <1>2, <1>3, <1>7 DEF CountFits, SerialKinds
  <2>2. Says(w, <<Stats(n)>>)
    BY <1>1, <1>8
  <2> QED BY <1>1, <1>2, <1>3, <1>4, <1>6, <1>7, <2>1, <2>2, ReportStep
<1>9. CASE ~(n <= FirstRows)
  <2>1. \A x \in 0..Planned : CountFits(work[w], x) => CountFits(c, x)
    BY <1>1, <1>2, <1>3, <1>7 DEF CountFits, SerialKinds
  <2>2. Silent
    <3>1. inbox \in Seq(Message)
      BY DEF SenderInv, SendTyped
    <3> QED BY <1>1, <1>9, <3>1 DEF Says, Silent
  <2> QED BY <1>1, <1>4, <1>6, <1>7, <2>1, <2>2, SilentStep
<1> QED BY <1>8, <1>9

(* A replay that is through reports its total.                               *)
LEMMA ReplayDoneStep ==
    ASSUME SenderInv, NEW w \in DOMAIN work, ReplayDone(w), Rest
    PROVE  SenderInv'
<1> USE WorkerFacts
<1> DEFINE n == work[w].frames
           c == [work[w] EXCEPT !.at = "ended", !.outcome = "done"]
<1>1. /\ work[w].at = "loop" /\ work[w].kind = "replay"
      /\ work' = [work EXCEPT ![w] = c] /\ Says(w, Append(<<Stats(n)>>, Finished("done")))
      /\ UNCHANGED <<portUser, line>>
  BY DEF ReplayDone, Concludes, ReplayTotal
<1>2. n \in 0..Planned /\ "done" \in Outcomes
  BY SenderAssumption DEF Outcomes
<1>3. /\ c \in WorkRec /\ c.kind = "replay" /\ c.at = "ended" /\ c.stop = work[w].stop
      /\ c.frames = n /\ c.atStop = work[w].atStop /\ c.acks = work[w].acks /\ c.outcome = "done"
  <2>1. work[w] \in WorkRec
    OBVIOUS
  <2> QED BY ONLY <1>1, <1>2, <2>1 DEF WorkRec, Places
<1> HIDE DEF c
<1>4. Moved(w, c)
  BY <1>1, <1>3 DEF Moved, RecordFits, StopFits, BusyRec
<1>5. ~IsSerial(w)
  BY <1>1 DEF IsSerial, SerialKinds
<1>6. KeepsPort(w, c)
  BY <1>1, <1>3, <1>5 DEF KeepsPort
<1>7. BusyRec(work[w]) /\ ~BusyRec(c)
  BY <1>1, <1>3 DEF BusyRec
<1>8. CountFits(c, n)
  BY <1>2, <1>3 DEF CountFits, SerialKinds
<1>9. PICK k \in Outcomes : Says(w, Append(<<Stats(n)>>, Finished(k)))
  BY ONLY <1>1, <1>2
<1> QED BY <1>1, <1>2, <1>3, <1>4, <1>6, <1>7, <1>8, <1>9, TotalStep

(* A single frame is sent, or a failure is reported.                         *)
LEMMA EndedStep ==
    ASSUME SenderInv, NEW w \in DOMAIN work, NEW k \in {"done", "failed"},
           work[w].at \in {"loop", "failed"},
           k = "done" => work[w].kind = "once",
           Concludes(w, k, "ended", <<>>), Rest
    PROVE  SenderInv'
<1> USE WorkerFacts
<1> DEFINE c == [work[w] EXCEPT !.at = "ended", !.outcome = k]
<1>1. /\ work' = [work EXCEPT ![w] = c] /\ Says(w, Append(<<>>, Finished(k)))
      /\ UNCHANGED <<portUser, line>> /\ k \in Outcomes
  BY DEF Concludes, Outcomes
<1>2. /\ c \in WorkRec /\ c.kind = work[w].kind /\ c.at = "ended" /\ c.stop = work[w].stop
      /\ c.frames = work[w].frames /\ c.atStop = work[w].atStop /\ c.acks = work[w].acks
      /\ c.outcome = k
  <2>1. work[w] \in WorkRec
    OBVIOUS
  <2> QED BY ONLY <1>1, <2>1 DEF WorkRec, Places
<1> HIDE DEF c
<1>3. Moved(w, c)
  BY <1>1, <1>2 DEF Moved, RecordFits, StopFits, BusyRec
<1>4. KeepsPort(w, c)
  BY <1>1, <1>2 DEF KeepsPort, Settled, Writes, IsSerial, SerialKinds
<1>5. \A x \in 0..Planned : CountFits(work[w], x) => CountFits(c, x)
  BY <1>1, <1>2 DEF CountFits, RecordFits, SerialKinds
<1>6. BusyRec(work[w]) /\ ~BusyRec(c)
  BY <1>2 DEF BusyRec
<1> QED BY <1>1, <1>3, <1>4, <1>5, <1>6, EndStep

(* The thread returns and its port is closed.                                *)
LEMMA ReturnStep ==
    ASSUME SenderInv, NEW w \in DOMAIN work, Return(w), Rest
    PROVE  SenderInv'
<1> USE WorkerFacts
<1> DEFINE c == [work[w] EXCEPT !.at = "ended"]
<1>1. /\ work[w].at = "closing" /\ work' = [work EXCEPT ![w] = c] /\ Silent /\ UNCHANGED line
      /\ portUser' = IF portUser = w THEN 0 ELSE portUser
  BY DEF Return, Goes
<1>2. /\ c \in WorkRec /\ c.kind = work[w].kind /\ c.at = "ended" /\ c.stop = work[w].stop
      /\ c.frames = work[w].frames /\ c.atStop = work[w].atStop /\ c.acks = work[w].acks
      /\ c.outcome = work[w].outcome
  BY DEF WorkRec, Places
<1> HIDE DEF c
<1>3. Moved(w, c)
  BY <1>1, <1>2 DEF Moved, RecordFits, StopFits, BusyRec
<1>4. KeepsPort(w, c)
  BY <1>1, <1>2 DEF KeepsPort, Settled, Writes
<1>5. \A x \in 0..Planned : CountFits(work[w], x) => CountFits(c, x)
  BY <1>1, <1>2 DEF CountFits
<1>6. ~BusyRec(c)
  BY <1>2 DEF BusyRec
<1> QED BY <1>1, <1>3, <1>4, <1>5, <1>6, SilentStep

(* Stop is pressed: the send under way, if any, is told.                     *)
LEMMA StopStep ==
    ASSUME SenderInv, StopWorker
    PROVE  SenderInv'
<1> DEFINE w == stopFlag
           c == [work[w] EXCEPT !.stop = TRUE, !.atStop = work[w].frames]
<1>1. w \in DOMAIN work
  BY DEF StopWorker, SenderInv, SendTyped
<1>2. /\ work' = [work EXCEPT ![w] = c] /\ Silent /\ Rest /\ UNCHANGED <<portUser, line>>
  BY DEF StopWorker, Silent, Rest, windowVars
<1> HIDE DEF w
<1> USE <1>1, WorkerFacts
<1>3. /\ c \in WorkRec /\ c.kind = work[w].kind /\ c.at = work[w].at /\ c.stop
      /\ c.frames = work[w].frames /\ c.atStop = work[w].frames /\ c.acks = work[w].acks
      /\ c.outcome = work[w].outcome /\ c.offset = work[w].offset
  <2>1. work[w] \in WorkRec /\ work[w].frames \in Nat
    OBVIOUS
  <2> QED BY ONLY <2>1 DEF WorkRec
<1> HIDE DEF c
<1>4. Moved(w, c)
  <2>1. StopFits(c)
    <3>1. TickEnd(c.atStop) \in Nat /\ c.atStop < TickEnd(c.atStop)
      BY <1>3, TickFacts
    <3> QED BY <1>3, <3>1 DEF StopFits
  <2> QED BY <1>2, <1>3, <2>1 DEF Moved, RecordFits, BusyRec
<1>5. KeepsPort(w, c)
  BY <1>2, <1>3 DEF KeepsPort, Settled, Writes, WrittenTo
<1>6. \A x \in 0..Planned : CountFits(work[w], x) => CountFits(c, x)
  BY <1>3 DEF CountFits
<1>7. BusyRec(c) => BusyRec(work[w])
  BY <1>3 DEF BusyRec
<1> QED BY <1>2, <1>4, <1>5, <1>6, <1>7, SilentStep

(* Where the parts of a sequence are when another is appended.               *)
LEMMA Appended ==
    ASSUME NEW S, NEW s \in Seq(S), NEW t \in Seq(S)
    PROVE  /\ s \o t \in Seq(S) /\ Len(s \o t) = Len(s) + Len(t)
           /\ DOMAIN (s \o t) = 1 .. (Len(s) + Len(t))
           /\ \A i \in 1 .. Len(s) : (s \o t)[i] = s[i]
           /\ \A i \in 1 .. Len(t) : (s \o t)[Len(s) + i] = t[i]
<1>1. s \o t \in Seq(S) /\ Len(s \o t) = Len(s) + Len(t)
  BY ConcatProperties
<1>2. \A i \in 1 .. Len(s) : (s \o t)[i] = s[i]
  OBVIOUS
<1>3. \A i \in 1 .. Len(t) : (s \o t)[Len(s) + i] = t[i]
  OBVIOUS
<1> QED BY <1>1, <1>2, <1>3

(* The port takes some bytes: they follow the last one that is there.        *)
LEMMA WriteSomeStep ==
    ASSUME SenderInv, NEW w \in DOMAIN work, WriteSome(w), Rest
    PROVE  SenderInv'
<1> USE WorkerFacts
<1>1. work[w].at = "write" /\ Silent /\ UNCHANGED portUser
  BY DEF WriteSome
<1>2. PICK n \in 1 .. (RawLen - work[w].offset) :
          /\ work' = [work EXCEPT ![w] = [work[w] EXCEPT !.offset = work[w].offset + n, !.retries = 0]]
          /\ line' = line \o [i \in 1 .. n |-> ByteOf(w, work[w].frames + 1, work[w].offset + i)]
  BY DEF WriteSome
<1> DEFINE f == work[w].frames + 1
           o == work[w].offset
           c == [work[w] EXCEPT !.offset = o + n, !.retries = 0]
           new == [i \in 1 .. n |-> ByteOf(w, f, o + i)]
<1>3. n \in Nat /\ n > 0 /\ o \in Nat /\ o + n <= RawLen /\ RawLen \in Nat /\ f \in Nat
  BY SenderAssumption
<1>4. /\ c \in WorkRec /\ c.kind = work[w].kind /\ c.at = "write" /\ c.stop = work[w].stop
      /\ c.frames = work[w].frames /\ c.atStop = work[w].atStop /\ c.acks = work[w].acks
      /\ c.outcome = work[w].outcome /\ c.offset = o + n
  <2>1. o + n \in 0..RawLen /\ 0 \in 0..MaxRetries /\ work[w] \in WorkRec
    BY <1>3, SenderAssumption
  <2> QED BY ONLY <1>1, <2>1 DEF WorkRec
<1>5. work' = [work EXCEPT ![w] = c] /\ line' = line \o new
  BY <1>2
<1> HIDE DEF c
<1>6. IsSerial(w) /\ BusyRec(work[w]) /\ work[w].outcome = "none" /\ portUser = w /\ WrittenTo(w, work[w])
  BY <1>1 DEF BusyRec, RecordFits, IsSerial, Writes
<1>7. Moved(w, c)
  BY <1>1, <1>4, <1>5 DEF Moved, RecordFits, StopFits, BusyRec
<1>8. WindowOK' /\ CountOK' /\ inbox' \in Seq(Message)
  <2>1. inbox \in Seq(Message)
    BY DEF SenderInv, SendTyped
  <2>2. Says(w, <<>>)
    BY <1>1, <2>1 DEF Says, Silent
  <2>3. \A x \in 0..Planned : CountFits(work[w], x) => CountFits(c, x)
    BY <1>1, <1>4 DEF CountFits
  <2>4. Speaks(w, c, <<>>)
    BY <1>6, <2>3 DEF Speaks
  <2> QED BY <1>7, <2>2, <2>4, Messages, SpeakStep
<1>9. /\ work' \in Seq(WorkRec) /\ Len(work') = Len(work) /\ DOMAIN work' = DOMAIN work
      /\ work'[w] = c
      /\ \A v \in DOMAIN work : (v # w => work'[v] = work[v]) /\ work'[v].kind = work[v].kind
      /\ \A v \in DOMAIN work' : RecordFits(work'[v])
  BY <1>7, MovedFacts DEF SenderInv
\* w is the last worker, and no other one writes.
<1>10. /\ w = Len(work)
       /\ \A v \in DOMAIN work : v # w => ~(IsSerial(v) /\ work[v].at \in Writes)
  <2>1. w = Len(work)
    BY <1>6 DEF SenderInv, WindowOK, IsSerial, SerialKinds
  <2>2. \A v \in DOMAIN work : IsSerial(v) /\ work[v].at \in Writes => portUser = v
    BY DEF SenderInv, PortOK
  <2> QED BY <1>6, <2>1, <2>2
<1>11. /\ line \in Seq(LineByte) /\ Len(line) \in Nat /\ DOMAIN line = 1 .. Len(line)
       /\ \A i \in DOMAIN line : line[i].by \in DOMAIN work /\ IsSerial(line[i].by) /\ work[line[i].by].at # "open"
       /\ \A i, j \in DOMAIN line : i < j => line[i].by <= line[j].by
       /\ \A i \in DOMAIN line : line[i].by \in Nat /\ line[i].by <= w
  <2>1. line \in Seq(LineByte) /\ \A i \in DOMAIN line : line[i].by \in DOMAIN work
    BY DEF SenderInv, SendTyped, PortOK
  <2>2. \A v \in DOMAIN work : v \in Nat /\ v <= w
    BY <1>10 DEF SenderInv, SendTyped
  <2> QED BY <2>1, <2>2 DEF SenderInv, PortOK, LineOK
<1>12. /\ new \in Seq(LineByte) /\ Len(new) = n
       /\ \A i \in 1 .. n : new[i] = ByteOf(w, f, o + i)
  <2>1. \A i \in 1 .. n : ByteOf(w, f, o + i) \in LineByte
    BY <1>3 DEF ByteOf, LineByte
  <2> QED BY <1>3, <2>1
<1>20. f = work[w].frames + 1 /\ o = work[w].offset
  OBVIOUS
<1> HIDE DEF new, f, o
<1>13. /\ line' \in Seq(LineByte) /\ Len(line') = Len(line) + n /\ DOMAIN line' = 1 .. (Len(line) + n)
       /\ \A i \in 1 .. Len(line) : line'[i] = line[i]
       /\ \A i \in 1 .. n : line'[Len(line) + i] = ByteOf(w, f, o + i) /\ line'[Len(line) + i].by = w
  <2>1. line \o new \in Seq(LineByte) /\ Len(line \o new) = Len(line) + n
    BY ONLY <1>11, <1>12, Appended
  <2>2. \A i \in 1 .. Len(line) : (line \o new)[i] = line[i]
    BY ONLY <1>11, <1>12, Appended
  <2>3. \A i \in 1 .. n : (line \o new)[Len(line) + i] = new[i]
    BY ONLY <1>11, <1>12, Appended
  <2>4. \A i \in 1 .. n : ByteOf(w, f, o + i).by = w
    BY ONLY <1>3 DEF ByteOf
  <2>5. DOMAIN (line \o new) = 1 .. (Len(line) + n)
    BY ONLY <2>1
  <2> QED BY ONLY <1>5, <1>12, <2>1, <2>2, <2>3, <2>4, <2>5
<1>14. \A i \in DOMAIN line' : i \in DOMAIN line \/ (\E k \in 1 .. n : i = Len(line) + k)
  <2>1. ASSUME NEW i \in DOMAIN line', i \notin DOMAIN line
        PROVE  i - Len(line) \in 1 .. n /\ i = Len(line) + (i - Len(line))
    BY <1>3, <1>11, <1>13, <2>1
  <2> QED BY <2>1
<1>15. \A i, m \in Nat : ByteOf(w, i, m).by = w /\ ByteOf(w, i, m).byte = m /\ ByteOf(w, i, m).frame = i
  BY DEF ByteOf
\* Where the new bytes begin.
<1>16. \/ line # <<>> /\ ByteOf(w, f, o + 1) = NextByte(line[Len(line)])
       \/ /\ line = <<>> \/ line[Len(line)].by # w
          /\ ByteOf(w, f, o + 1) = ByteOf(w, 1, 1)
  <2>1. CASE o # 0
    <3>1. line # <<>> /\ line[Len(line)] = ByteOf(w, f, o) /\ o < RawLen
      BY <1>3, <1>6, <1>20, <2>1 DEF WrittenTo
    <3>2. line[Len(line)].by = w /\ line[Len(line)].frame = f /\ line[Len(line)].byte = o
      BY ONLY <1>3, <3>1 DEF ByteOf
    <3> QED BY ONLY <1>3, <3>1, <3>2 DEF NextByte
  <2>2. CASE o = 0
    <3>1. WholeTo(w, work[w].frames)
      BY <1>6, <1>20, <2>2 DEF WrittenTo
    <3>2. CASE line # <<>> /\ line[Len(line)].by = w
      <4>1. Len(line) \in DOMAIN line
        BY <1>11, <3>2
      <4>2. LastOf(w, Len(line))
        BY <3>2 DEF LastOf
      <4>3. line[Len(line)] = ByteOf(w, work[w].frames, RawLen)
        BY <3>1, <4>1, <4>2 DEF WholeTo
      <4>4. NextByte(line[Len(line)]) = ByteOf(w, work[w].frames + 1, 1)
        BY <1>3, <1>15, <4>3 DEF NextByte
      <4> QED BY <1>20, <2>2, <3>2, <4>4
    <3>3. CASE line = <<>> \/ line[Len(line)].by # w
      <4>1. ~(\E i \in DOMAIN line : line[i].by = w)
        <5> SUFFICES ASSUME NEW i \in DOMAIN line, line[i].by = w PROVE FALSE
          OBVIOUS
        <5>1. Len(line) \in DOMAIN line /\ i \in Nat /\ i <= Len(line)
          BY <1>11
        <5>2. CASE i = Len(line)
          BY <1>11, <3>3, <5>1, <5>2
        <5>3. CASE i < Len(line)
          <6>1. w <= line[Len(line)].by /\ line[Len(line)].by <= w /\ line[Len(line)].by \in Nat
            BY <1>11, <5>1, <5>3
          <6> QED BY <1>11, <3>3, <5>1, <6>1
        <5> QED BY <5>1, <5>2, <5>3
      <4>2. ~(work[w].frames > 0)
        BY <3>1, <4>1 DEF WholeTo
      <4>3. f = 1 /\ o + 1 = 1
        BY <1>20, <2>2, <4>2
      <4> QED BY <3>3, <4>3
    <3> QED BY <3>2, <3>3
  <2> QED BY <2>1, <2>2
<1>17. LineOK'
  <2>1. ASSUME NEW i \in DOMAIN line', NEW j \in DOMAIN line', i < j
        PROVE  line'[i].by <= line'[j].by
    <3>1. CASE j \in DOMAIN line
      <4>1. i \in DOMAIN line
        BY ONLY <1>3, <1>11, <1>13, <2>1, <3>1
      <4>2. line'[i] = line[i] /\ line'[j] = line[j]
        BY ONLY <1>11, <1>13, <3>1, <4>1
      <4> QED BY ONLY <1>11, <2>1, <3>1, <4>1, <4>2
    <3>2. CASE \E k \in 1 .. n : j = Len(line) + k
      <4>1. line'[j].by = w
        BY ONLY <1>13, <3>2
      <4>2. line'[i].by <= w
        <5>1. CASE i \in DOMAIN line
          BY ONLY <1>11, <1>13, <5>1
        <5>2. CASE \E k \in 1 .. n : i = Len(line) + k
          <6>1. line'[i].by = w /\ w \in Nat
            BY <1>13, <5>2
          <6> QED BY ONLY <6>1
        <5> QED BY ONLY <1>14, <5>1, <5>2, <2>1
      <4> QED BY ONLY <4>1, <4>2
    <3> QED BY <1>14, <3>1, <3>2
  <2>2. ASSUME NEW i \in DOMAIN line'
        PROVE  \/ i > 1 /\ line'[i] = NextByte(line'[i - 1])
               \/ (i = 1 \/ line'[i - 1].by # line'[i].by) /\ line'[i] = ByteOf(line'[i].by, 1, 1)
    <3>1. CASE i \in DOMAIN line
      <4>1. \/ i > 1 /\ line[i] = NextByte(line[i - 1])
            \/ (i = 1 \/ line[i - 1].by # line[i].by) /\ line[i] = ByteOf(line[i].by, 1, 1)
        BY <3>1 DEF SenderInv, LineOK
      <4>2. line'[i] = line[i] /\ (i > 1 => line'[i - 1] = line[i - 1]) /\ (i = 1 \/ i > 1)
        BY <1>11, <1>13, <3>1
      <4> QED BY <4>1, <4>2
    <3>2. CASE i = Len(line) + 1
      <4>1. line'[i] = ByteOf(w, f, o + 1) /\ line'[i].by = w
        <5>1. 1 \in 1 .. n
          BY ONLY <1>3
        <5> QED BY ONLY <1>13, <3>2, <5>1
      <4>2. line # <<>> => i > 1 /\ line'[i - 1] = line[Len(line)]
        BY <1>11, <1>13, <3>2
      <4>3. line = <<>> => i = 1
        BY <3>2
      <4> QED BY <1>16, <4>1, <4>2, <4>3
    <3>3. ASSUME NEW k \in 1 .. n, i = Len(line) + k, k # 1
          PROVE  i > 1 /\ line'[i] = NextByte(line'[i - 1])
      <4>1. k - 1 \in 1 .. n /\ i - 1 = Len(line) + (k - 1) /\ i > 1 /\ o + (k - 1) < RawLen
        BY <1>3, <1>11, <3>3
      <4>2. line'[i] = ByteOf(w, f, o + k) /\ line'[i - 1] = ByteOf(w, f, o + (k - 1))
        BY <1>13, <3>3, <4>1
      <4>3. o + (k - 1) \in Nat /\ o + (k - 1) + 1 = o + k
        BY <1>3, <3>3
      <4>4. /\ line'[i - 1].by = w /\ line'[i - 1].frame = f /\ line'[i - 1].byte = o + (k - 1)
        BY ONLY <4>2 DEF ByteOf
      <4> QED BY ONLY <4>1, <4>2, <4>3, <4>4 DEF NextByte
    <3> QED BY <1>14, <3>1, <3>2, <3>3
  <2>3. ASSUME NEW v \in DOMAIN work', work'[v].kind \in SerialKinds
        PROVE  /\ Settled(work'[v]) => WholeTo(v, work[v].frames)'
               /\ work'[v].at = "write" => WrittenTo(v, work[v])'
    <3>1. CASE v = w
      <4>1. ~Settled(c) /\ c.offset # 0
        BY <1>3, <1>4, <1>6 DEF Settled
      <4>2. line' # <<>> /\ line'[Len(line')] = ByteOf(w, f, o + n)
        BY <1>3, <1>11, <1>13
      <4> QED BY <1>4, <1>9, <1>20, <3>1, <4>1, <4>2 DEF WrittenTo
    <3>2. CASE v # w
      <4>1. work'[v] = work[v] /\ v \in DOMAIN work /\ IsSerial(v)
        BY <1>9, <2>3, <3>2 DEF IsSerial
      <4>2. work[v].at # "write"
        BY <1>10, <3>2, <4>1 DEF Writes
      <4>3. ASSUME WholeTo(v, work[v].frames)
            PROVE  WholeTo(v, work[v].frames)'
        <5>1. (\E i \in DOMAIN line : line[i].by = v) <=> (\E i \in DOMAIN line' : line'[i].by = v)
          <6>1. \A i \in DOMAIN line : i \in DOMAIN line' /\ line'[i] = line[i]
            BY ONLY <1>3, <1>11, <1>13
          <6>2. ASSUME NEW i \in DOMAIN line', line'[i].by = v
                PROVE  i \in DOMAIN line
            BY ONLY <1>13, <1>14, <3>2, <6>2
          <6> QED BY ONLY <6>1, <6>2
        <5>2. ASSUME NEW i \in DOMAIN line', line'[i].by = v, i = Len(line') \/ line'[i + 1].by # v
              PROVE  line'[i] = ByteOf(v, work[v].frames, RawLen)
          <6>1. i \in DOMAIN line /\ line'[i] = line[i]
            <7>1. i \in DOMAIN line
              BY ONLY <1>13, <1>14, <3>2, <5>2
            <7> QED BY ONLY <1>11, <1>13, <7>1
          <6>2. i < Len(line) => i + 1 \in 1 .. Len(line) /\ line'[i + 1] = line[i + 1]
            BY <1>11, <1>13, <6>1
          <6>3. LastOf(v, i)
            BY <1>3, <1>11, <1>13, <5>2, <6>1, <6>2 DEF LastOf
          <6> QED BY <4>3, <6>1, <6>3 DEF WholeTo
        <5> QED BY <4>1, <4>3, <5>1, <5>2 DEF WholeTo, LastOf
      <4>4. Settled(work[v]) => WholeTo(v, work[v].frames)
        BY <4>1 DEF SenderInv, LineOK
      <4> QED BY <4>1, <4>2, <4>3, <4>4
    <3> QED BY <3>1, <3>2
  <2> QED BY <2>1, <2>2, <2>3 DEF LineOK, IsSerial
<1>18. PortOK'
  <2>1. \A v \in DOMAIN work' : work'[v].kind \in SerialKinds /\ work'[v].at \in Writes => portUser' = v
    BY <1>1, <1>6, <1>9, <1>10 DEF IsSerial
  <2>2. ASSUME NEW i \in DOMAIN line'
        PROVE  /\ line'[i].by \in DOMAIN work'
               /\ work'[line'[i].by].kind \in SerialKinds /\ work'[line'[i].by].at # "open"
    <3>1. CASE i \in DOMAIN line
      <4>1. line'[i] = line[i]
        BY <1>11, <1>13, <3>1
      <4>2. line[i].by \in DOMAIN work /\ IsSerial(line[i].by) /\ work[line[i].by].at # "open"
        BY <1>11, <3>1
      <4> QED BY <1>4, <1>9, <4>1, <4>2 DEF IsSerial
    <3>2. CASE \E k \in 1 .. n : i = Len(line) + k
      <4>1. line'[i].by = w
        BY ONLY <1>13, <3>2
      <4> QED BY <1>4, <1>6, <1>9, <4>1 DEF IsSerial
    <3> QED BY <1>14, <3>1, <3>2
  <2>3. \A v \in DOMAIN work' : work'[v].at = "open" => work'[v].frames = 0
    BY <1>4, <1>9 DEF SenderInv, PortOK
  <2> QED BY <2>1, <2>2, <2>3 DEF PortOK, IsSerial
<1>19. SendTyped'
  BY <1>1, <1>8, <1>9, <1>13 DEF SenderInv, SendTyped, Rest
<1> QED BY ONLY <1>8, <1>17, <1>18, <1>19 DEF SenderInv

(* A button starts a worker: none that Stop should reach is under way.       *)
LEMMA SpawnStep ==
    ASSUME SenderInv, NEW kind \in Kinds, Spawn(kind), stopFlag = 0,
           IF kind = "once" THEN workerRx = 0 /\ UNCHANGED <<stopFlag, shown, lastShown>>
                            ELSE stopFlag' = Len(work) + 1 /\ shown' = 0 /\ lastShown' = 0,
           IF kind \in SerialKinds THEN SyncMode(kind) ELSE UNCHANGED collector
    PROVE  SenderInv'
<1> DEFINE w == Len(work) + 1
           c == NewWorker(kind)
<1>1. /\ work \in Seq(WorkRec) /\ Len(work) \in Nat /\ DOMAIN work = 1 .. Len(work)
      /\ shown \in 0..Planned /\ lastShown \in 0..Len(work)
      /\ portUser \in 0..Len(work) /\ line \in Seq(LineByte)
      /\ collector \in [serial_mode : SerialKinds, can_enabled : BOOLEAN]
      /\ \A v \in DOMAIN work : RecordFits(work[v])
  BY DEF SenderInv, SendTyped
<1>2. Planned \in Nat /\ RawLen \in Nat /\ MaxRetries \in Nat
  BY SenderAssumption
<1>3. /\ c \in WorkRec /\ c.kind = kind /\ c.at = "open" /\ c.stop = FALSE /\ c.frames = 0
      /\ c.acks = 0 /\ c.outcome = "none"
  BY <1>2 DEF NewWorker, WorkRec, Places, Outcomes
<1>4. /\ Len(work) < MaxWorkers /\ work' = Append(work, c) /\ workerRx' = w /\ inbox' = <<>>
      /\ UNCHANGED <<portUser, line>>
  BY DEF Spawn
<1> HIDE DEF c
<1>5. RecordFits(c) /\ BusyRec(c)
  BY <1>2, <1>3 DEF RecordFits, StopFits, BusyRec
<1>6. /\ work' \in Seq(WorkRec) /\ Len(work') = w /\ DOMAIN work' = 1 .. w /\ work'[w] = c
      /\ \A v \in DOMAIN work : work'[v] = work[v]
      /\ \A v \in DOMAIN work' : v \in DOMAIN work \/ v = w
  BY <1>1, <1>3, <1>4
<1>7. \A v \in DOMAIN work : v # w /\ v \in DOMAIN work'
  BY <1>1, <1>6
<1>8. \A v \in DOMAIN work : ~(BusyRec(work[v]) /\ work[v].kind # "once")
  BY <1>1 DEF SenderInv, WindowOK
<1>9. /\ collector' \in [serial_mode : SerialKinds, can_enabled : BOOLEAN]
      /\ kind \in SerialKinds => collector'.serial_mode = kind
  BY <1>1 DEF SyncMode
<1>10. /\ stopFlag' \in 0..w /\ shown' \in 0..Planned /\ lastShown' \in 0..w
       /\ kind = "once" => stopFlag' = 0 /\ shown' = shown /\ lastShown' = lastShown
       /\ kind # "once" => stopFlag' = w /\ shown' = 0 /\ lastShown' = 0
  BY <1>1, <1>2
<1>11. SendTyped'
  <2>1. MaxWorkers \in Nat /\ w <= MaxWorkers
    BY <1>1, <1>4, SenderAssumption
  <2>2. \A v \in DOMAIN work' : RecordFits(work'[v])
    BY <1>1, <1>5, <1>6
  <2>3. <<>> \in Seq(Message)
    OBVIOUS
  <2> QED BY <1>1, <1>4, <1>6, <1>9, <1>10, <2>1, <2>2, <2>3 DEF SendTyped
<1>12. WindowOK'
  <2>1. \A v \in DOMAIN work' : BusyRec(work'[v]) /\ work'[v].kind # "once" =>
            /\ stopFlag' = v /\ v = Len(work')
            /\ work'[v].kind \in SerialKinds => collector'.serial_mode = work'[v].kind
    BY <1>3, <1>6, <1>8, <1>9, <1>10
  <2>2. DOMAIN inbox' = {}
    BY <1>4
  <2>3. stopFlag' # 0 => workerRx' = stopFlag'
    BY <1>4, <1>10
  <2> QED BY <1>4, <2>1, <2>2, <2>3 DEF WindowOK, IsSerial
<1>13. CountOK'
  <2>1. workerRx' # 0 => work'[workerRx'].kind = "once"
            \/ \E x \in 0..Planned : LastReport(x)' /\ CountFits(work'[workerRx'], x)
    <3>1. work'[workerRx'] = c
      BY <1>4, <1>6
    <3>2. ASSUME kind # "once"
          PROVE  LastReport(0)' /\ CountFits(c, 0) /\ 0 \in 0..Planned
      <4>1. shown' = 0 /\ DOMAIN inbox' = {}
        BY <1>4, <1>10, <3>2
      <4> QED BY <1>2, <1>3, <4>1 DEF LastReport, CountFits
    <3> QED BY <1>3, <3>1, <3>2
  <2>2. ASSUME lastShown' # 0
        PROVE  /\ ~BusyRec(work'[lastShown']) /\ CountFits(work'[lastShown'], shown')
               /\ workerRx' # 0 => work'[workerRx'].kind = "once"
    <3>1. kind = "once" /\ lastShown' = lastShown /\ shown' = shown
      BY <1>10, <2>2
    <3>2. lastShown \in DOMAIN work
      BY <1>1, <2>2, <3>1
    <3>3. ~BusyRec(work[lastShown]) /\ CountFits(work[lastShown], shown)
      BY <2>2, <3>1 DEF SenderInv, CountOK
    <3>4. work'[lastShown] = work[lastShown] /\ work'[workerRx'] = c
      BY <1>4, <1>6, <3>2
    <3> QED BY <1>3, <3>1, <3>3, <3>4
  <2> QED BY <2>1, <2>2 DEF CountOK
<1>14. PortOK'
  <2>1. \A v \in DOMAIN work' : work'[v].kind \in SerialKinds /\ work'[v].at \in Writes => portUser' = v
    BY <1>3, <1>4, <1>6 DEF SenderInv, PortOK, IsSerial, Writes
  <2>2. \A i \in DOMAIN line' :
            /\ line'[i].by \in DOMAIN work'
            /\ work'[line'[i].by].kind \in SerialKinds /\ work'[line'[i].by].at # "open"
    BY <1>4, <1>6, <1>7 DEF SenderInv, PortOK, IsSerial
  <2>3. \A v \in DOMAIN work' : work'[v].at = "open" => work'[v].frames = 0
    BY <1>3, <1>6 DEF SenderInv, PortOK
  <2> QED BY <2>1, <2>2, <2>3 DEF PortOK, IsSerial
<1>15. LineOK'
  <2>1. /\ \A i, j \in DOMAIN line' : i < j => line'[i].by <= line'[j].by
        /\ \A i \in DOMAIN line' :
              \/ i > 1 /\ line'[i] = NextByte(line'[i - 1])
              \/ (i = 1 \/ line'[i - 1].by # line'[i].by) /\ line'[i] = ByteOf(line'[i].by, 1, 1)
    BY <1>4 DEF SenderInv, LineOK
  <2>2. ASSUME NEW v \in DOMAIN work', work'[v].kind \in SerialKinds
        PROVE  /\ Settled(work'[v]) => WholeTo(v, work[v].frames)'
               /\ work'[v].at = "write" => WrittenTo(v, work[v])'
    <3>1. CASE v = w
      BY <1>3, <1>6, <3>1 DEF Settled
    <3>2. CASE v \in DOMAIN work
      <4>1. work'[v] = work[v] /\ IsSerial(v) /\ line' = line
        BY <1>4, <1>6, <2>2, <3>2 DEF IsSerial
      <4>2. /\ Settled(work[v]) => WholeTo(v, work[v].frames)
            /\ work[v].at = "write" => WrittenTo(v, work[v])
        BY <3>2, <4>1 DEF SenderInv, LineOK
      <4>3. WholeTo(v, work[v].frames) => WholeTo(v, work[v].frames)'
        BY <4>1 DEF WholeTo, LastOf
      <4>4. WrittenTo(v, work[v]) => WrittenTo(v, work[v])'
        BY <4>1, <4>3 DEF WrittenTo
      <4> QED BY <4>1, <4>2, <4>3, <4>4
    <3> QED BY <1>6, <3>1, <3>2
  <2> QED BY <2>1, <2>2 DEF LineOK, IsSerial
<1> QED BY <1>11, <1>12, <1>13, <1>14, <1>15 DEF SenderInv

(* The buttons that start a worker.                                          *)
LEMMA StartSteps ==
    ASSUME SenderInv,
           (\E kind \in SerialKinds : StartWorker(kind)) \/ SendCanFrameOnce \/ StartCanExportReplay
    PROVE  SenderInv'
<1>1. ASSUME NEW kind \in SerialKinds, StartWorker(kind) PROVE SenderInv'
  <2>1. kind \in Kinds /\ kind # "once"
    BY DEF Kinds, SerialKinds
  <2> QED BY <1>1, <2>1, SpawnStep DEF StartWorker
<1>2. workerRx = 0 => stopFlag = 0
  BY DEF SenderInv, WindowOK
<1>3. CASE SendCanFrameOnce
  <2>1. PICK kind \in Kinds : kind = "once" /\ kind \notin SerialKinds
    BY DEF Kinds, SerialKinds
  <2>2. Spawn(kind) /\ workerRx = 0 /\ UNCHANGED <<stopFlag, shown, lastShown, collector>>
    BY <1>3, <2>1 DEF SendCanFrameOnce, OnceAllowed
  <2> QED BY <1>2, <2>1, <2>2, SpawnStep
<1>4. CASE StartCanExportReplay
  <2>1. PICK kind \in Kinds : kind = "replay" /\ kind \notin SerialKinds
    BY DEF Kinds, SerialKinds
  <2>2. Spawn(kind) /\ workerRx = 0 /\ stopFlag' = Len(work) + 1 /\ shown' = 0 /\ lastShown' = 0 /\ UNCHANGED collector
    BY <1>4, <2>1 DEF StartCanExportReplay
  <2> QED BY <1>2, <2>1, <2>2, SpawnStep
<1> QED BY <1>1, <1>3, <1>4

(* What is on the line does not depend on the window.                        *)
LEMMA LineKept ==
    ASSUME SenderInv, UNCHANGED <<work, portUser, line>>
    PROVE  PortOK' /\ LineOK'
<1>1. PortOK'
  BY DEF SenderInv, PortOK, IsSerial
<1>2. LineOK'
  BY DEF SenderInv, LineOK, IsSerial, WholeTo, WrittenTo, LastOf
<1> QED BY <1>1, <1>2

(* The window reads a count, ...                                             *)
LEMMA StatsStep ==
    ASSUME SenderInv, DrainStats
    PROVE  SenderInv'
<1>1. /\ inbox # <<>> /\ Head(inbox).type = "stats" /\ shown' = Head(inbox).frames /\ inbox' = Tail(inbox)
      /\ UNCHANGED <<work, workerRx, stopFlag, lastShown, portUser, line, collector>>
  BY DEF DrainStats
<1>2. /\ inbox \in Seq(Message) /\ workerRx \in 0..Len(work) /\ DOMAIN work = 1 .. Len(work) /\ Len(work) \in Nat
  BY DEF SenderInv, SendTyped
<1>3. /\ inbox[1] = Head(inbox) /\ 1 \in DOMAIN inbox
      /\ inbox' \in Seq(Message) /\ Len(inbox') = Len(inbox) - 1 /\ Len(inbox) \in Nat
      /\ \A i \in DOMAIN inbox' : i + 1 \in DOMAIN inbox /\ inbox'[i] = inbox[i + 1] /\ i \in Nat
      /\ \A i \in DOMAIN inbox : i \in Nat /\ (i # 1 => i - 1 \in DOMAIN inbox' /\ inbox'[i - 1] = inbox[i])
  BY <1>1, <1>2
<1>4. inbox[1].frames \in 0..Planned
  <2>1. inbox[1] \in Message /\ inbox[1].type = "stats"
    BY <1>1, <1>2, <1>3
  <2> QED BY <2>1 DEF Message, StatsMsg, EndMsg
<1>5. workerRx # 0 /\ workerRx \in DOMAIN work /\ work[workerRx].kind # "once"
  <2>1. workerRx # 0
    BY <1>1 DEF SenderInv, WindowOK
  <2>2. work[workerRx].kind # "once"
    BY <1>1, <1>3, <2>1 DEF SenderInv, WindowOK
  <2> QED BY <1>2, <2>1, <2>2
<1>6. lastShown = 0
  BY <1>5 DEF SenderInv, CountOK
<1>7. SendTyped'
  BY <1>1, <1>3, <1>4 DEF SenderInv, SendTyped
<1>8. WindowOK'
  <2>1. \A i \in DOMAIN inbox' : inbox'[i].type = "finished" => i = Len(inbox') /\ ~BusyRec(work[workerRx])
    <3> SUFFICES ASSUME NEW i \in DOMAIN inbox', inbox'[i].type = "finished"
                 PROVE  i = Len(inbox') /\ ~BusyRec(work[workerRx])
      OBVIOUS
    <3>1. i + 1 \in DOMAIN inbox /\ inbox[i + 1].type = "finished"
      BY <1>3
    <3>2. i + 1 = Len(inbox) /\ ~BusyRec(work[workerRx])
      BY <3>1 DEF SenderInv, WindowOK
    <3> QED BY <1>3, <3>2
  <2>2. \A v \in DOMAIN work : BusyRec(work[v]) /\ work[v].kind # "once" =>
            /\ stopFlag = v /\ v = Len(work)
            /\ IsSerial(v) => collector.serial_mode = work[v].kind
    BY DEF SenderInv, WindowOK
  <2>3. stopFlag # 0 => workerRx = stopFlag
    BY DEF SenderInv, WindowOK
  <2> QED BY <1>1, <1>5, <2>1, <2>2, <2>3 DEF WindowOK, IsSerial
<1>9. CountOK'
  <2>1. PICK x \in 0..Planned : LastReport(x) /\ CountFits(work[workerRx], x)
    BY <1>5 DEF SenderInv, CountOK
  <2>2. PICK i \in DOMAIN inbox : /\ inbox[i].type = "stats" /\ inbox[i].frames = x
                                 /\ \A j \in DOMAIN inbox : inbox[j].type = "stats" => j <= i
    BY <1>1, <1>3, <2>1 DEF LastReport
  <2>3. LastReport(x)'
    <3>1. CASE i = 1
      <4>1. \A j \in DOMAIN inbox' : inbox'[j].type # "stats"
        <5> SUFFICES ASSUME NEW j \in DOMAIN inbox', inbox'[j].type = "stats" PROVE FALSE
          OBVIOUS
        <5>1. j + 1 \in DOMAIN inbox /\ inbox[j + 1].type = "stats" /\ j \in Nat /\ j > 0
          BY <1>3
        <5> QED BY <2>2, <3>1, <5>1
      <4>2. shown' = x
        BY <1>1, <1>3, <2>2, <3>1
      <4> QED BY <4>1, <4>2 DEF LastReport
    <3>2. CASE i # 1
      <4>1. i - 1 \in DOMAIN inbox' /\ inbox'[i - 1] = inbox[i] /\ i \in Nat
        BY <1>3, <3>2
      <4>2. ASSUME NEW j \in DOMAIN inbox', inbox'[j].type = "stats"
            PROVE  j <= i - 1
        <5>1. j + 1 \in DOMAIN inbox /\ inbox[j + 1].type = "stats" /\ j \in Nat
          BY <1>3, <4>2
        <5>2. j + 1 <= i
          BY <2>2, <5>1
        <5> QED BY <4>1, <5>1, <5>2
      <4> QED BY <2>2, <4>1, <4>2 DEF LastReport
    <3> QED BY <3>1, <3>2
  <2> QED BY <1>1, <1>6, <2>1, <2>3 DEF CountOK
<1> QED BY <1>1, <1>7, <1>8, <1>9, LineKept DEF SenderInv

(* ... the end of a send, or that its thread is gone.                        *)
LEMMA EndSteps ==
    ASSUME SenderInv, DrainFinished \/ DrainDisconnected
    PROVE  SenderInv'
<1>1. /\ workerRx' = 0 /\ stopFlag' = 0 /\ inbox' = <<>>
      /\ UNCHANGED <<work, shown, portUser, line, collector>>
  BY DEF DrainFinished, DrainDisconnected, ClearWorker
<1>2. /\ inbox \in Seq(Message) /\ workerRx \in 0..Len(work) /\ DOMAIN work = 1 .. Len(work) /\ Len(work) \in Nat
      /\ shown \in 0..Planned
  BY DEF SenderInv, SendTyped
<1>3. workerRx # 0 /\ workerRx \in DOMAIN work
  BY <1>2 DEF DrainFinished, DrainDisconnected, SenderInv, WindowOK
<1>4. ~BusyRec(work[workerRx]) /\ (DrainFinished => Len(inbox) = 1 /\ inbox[1].type = "finished")
  <2>1. CASE DrainFinished
    <3>1. 1 \in DOMAIN inbox /\ inbox[1].type = "finished"
      BY <1>2, <2>1 DEF DrainFinished
    <3>2. 1 = Len(inbox) /\ ~BusyRec(work[workerRx])
      BY <3>1 DEF SenderInv, WindowOK
    <3> QED BY <3>1, <3>2
  <2>2. CASE DrainDisconnected /\ ~DrainFinished
    BY <2>2 DEF DrainDisconnected, BusyRec
  <2> QED BY <2>1, <2>2
<1>5. \A v \in DOMAIN work : ~(BusyRec(work[v]) /\ work[v].kind # "once")
  <2> SUFFICES ASSUME NEW v \in DOMAIN work, BusyRec(work[v]), work[v].kind # "once" PROVE FALSE
    OBVIOUS
  <2>1. stopFlag = v /\ v # 0
    BY <1>2 DEF SenderInv, WindowOK
  <2>2. workerRx = v
    BY <2>1 DEF SenderInv, WindowOK
  <2> QED BY <1>4, <2>2
<1>6. lastShown' \in 0..Len(work)
  BY <1>2 DEF DrainFinished, DrainDisconnected, SenderInv, SendTyped
<1>7. SendTyped'
  <2>1. <<>> \in Seq(Message) /\ 0 \in 0..Len(work)
    BY <1>2
  <2> QED BY <1>1, <1>6, <2>1 DEF SenderInv, SendTyped
<1>8. WindowOK'
  <2>1. DOMAIN inbox' = {}
    BY <1>1
  <2> QED BY <1>1, <1>5, <2>1 DEF WindowOK
<1>9. CountOK'
  <2>1. ASSUME lastShown' # 0
        PROVE  ~BusyRec(work[lastShown']) /\ CountFits(work[lastShown'], shown)
    <3>1. CASE lastShown' = lastShown
      BY <2>1, <3>1 DEF SenderInv, CountOK
    <3>2. CASE lastShown' = workerRx /\ DrainFinished /\ work[workerRx].kind # "once"
      <4>1. PICK x \in 0..Planned : LastReport(x) /\ CountFits(work[workerRx], x)
        BY <1>3, <3>2 DEF SenderInv, CountOK
      <4>2. \A i \in DOMAIN inbox : inbox[i].type # "stats"
        BY <1>2, <1>4, <3>2
      <4>3. shown = x
        BY <4>1, <4>2 DEF LastReport
      <4> QED BY <1>4, <3>2, <4>1, <4>3
    <3> QED BY <3>1, <3>2 DEF DrainFinished, DrainDisconnected
  <2> QED BY <1>1, <2>1 DEF CountOK
<1> QED BY <1>1, <1>7, <1>8, <1>9, LineKept DEF SenderInv

(* Nothing moves, but the CAN key of the collector's configuration.          *)
LEMMA ConfigStep ==
    ASSUME SenderInv, UNCHANGED <<work, windowVars, portUser, line>>,
           collector' = collector \/ collector' = [collector EXCEPT !.can_enabled = TRUE]
    PROVE  SenderInv'
<1>1. collector' \in [serial_mode : SerialKinds, can_enabled : BOOLEAN] /\ collector'.serial_mode = collector.serial_mode
  BY DEF SenderInv, SendTyped
<1>2. SendTyped'
  BY <1>1 DEF SenderInv, SendTyped, windowVars
<1>3. WindowOK'
  BY <1>1 DEF SenderInv, WindowOK, IsSerial, windowVars
<1>4. CountOK'
  BY DEF SenderInv, CountOK, LastReport, windowVars
<1> QED BY <1>2, <1>3, <1>4, LineKept DEF SenderInv

(* Every step of a worker.                                                   *)
LEMMA WorkerSteps ==
    ASSUME SenderInv, NEW w \in DOMAIN work, Worker(w)
    PROVE  SenderInv'
<1>1. Rest
  BY DEF Worker
<1>2. CASE OpenLine(w)
  BY <1>1, <1>2, OpenLineStep
<1>3. CASE WorkerFails(w)
  BY <1>1, <1>3, FailStep DEF WorkerFails, BusyRec
<1>4. CASE Overflows(w)
  BY <1>1, <1>4, OverflowStep
<1>5. CASE StopSending(w)
  <2>1. PICK k \in {"stopped", "done"} : k = "stopped"
    OBVIOUS
  <2> QED BY <1>1, <1>5, <2>1, ConcludeStep DEF StopSending
<1>6. CASE DoneSending(w)
  <2>1. PICK k \in {"stopped", "done"} : k = "done"
    OBVIOUS
  <2>2. work[w].kind # "once"
    BY <1>6 DEF DoneSending, IsSerial, SerialKinds
  <2> QED BY <1>1, <1>6, <2>1, <2>2, ConcludeStep DEF DoneSending
<1>7. CASE BeginFrame(w)
  BY <1>1, <1>7, BeginStep
<1>8. CASE WriteSome(w)
  BY <1>1, <1>8, WriteSomeStep
<1>9. CASE WriteNothing(w)
  BY <1>1, <1>9, RetryStep
<1>10. CASE FrameWritten(w)
  BY <1>1, <1>10, WrittenStep
<1>11. CASE ReadAck(w)
  BY <1>1, <1>11, AckStep
<1>12. CASE NoMoreAcks(w)
  BY <1>1, <1>12, NoMoreAcksStep
<1>13. CASE ReplayRow(w)
  BY <1>1, <1>13, RowStep
<1>14. CASE ReplayDone(w)
  BY <1>1, <1>14, ReplayDoneStep
<1>15. CASE OnceSent(w)
  <2>1. PICK k \in {"done", "failed"} : k = "done"
    OBVIOUS
  <2> QED BY <1>1, <1>15, <2>1, EndedStep DEF OnceSent
<1>16. CASE ReportFailure(w)
  <2>1. PICK k \in {"done", "failed"} : k = "failed"
    OBVIOUS
  <2> QED BY <1>1, <1>16, <2>1, EndedStep DEF ReportFailure
<1>17. CASE Return(w)
  BY <1>1, <1>17, ReturnStep
<1> QED BY <1>2, <1>3, <1>4, <1>5, <1>6, <1>7, <1>8, <1>9, <1>10, <1>11, <1>12, <1>13, <1>14, <1>15, <1>16, <1>17
        DEF Worker

(* Every step of the sender.                                                 *)
LEMMA SenderSteps == SenderInv /\ [SenderNext]_senderVars => SenderInv'
<1> SUFFICES ASSUME SenderInv, [SenderNext]_senderVars PROVE SenderInv'
  OBVIOUS
<1>1. ASSUME NEW w \in DOMAIN work, Worker(w) PROVE SenderInv'
  BY <1>1, WorkerSteps
<1>2. CASE (\E kind \in SerialKinds : StartWorker(kind)) \/ SendCanFrameOnce \/ StartCanExportReplay
  BY <1>2, StartSteps
<1>3. CASE SyncCan
  BY <1>3, ConfigStep DEF SyncCan
<1>4. CASE StopWorker
  BY <1>4, StopStep
<1>5. CASE DrainStats
  BY <1>5, StatsStep
<1>6. CASE DrainFinished \/ DrainDisconnected
  BY <1>6, EndSteps
<1>7. CASE UNCHANGED senderVars
  BY <1>7, ConfigStep DEF senderVars
<1> QED BY <1>1, <1>2, <1>3, <1>4, <1>5, <1>6, <1>7 DEF SenderNext, Window

(* The invariant holds in every behaviour.                                   *)
LEMMA SenderAlways == SenderSpec => []SenderInv
BY SenderInitial, SenderSteps, PTL DEF SenderSpec

(* Stop reaches the send that is under way, whichever buttons were pressed   *)
(* before, and that send ends with its frame or tick: for every number of    *)
(* workers, length of a send and number of sensors (start_worker,            *)
(* start_can_export_replay, send_can_frame_once, drain_worker_messages).     *)
THEOREM StopAlwaysWorks == SenderSpec => []StopWorks
BY SenderAlways, SenderInvStops, PTL

(* The count beside the end of a send is that of the frames sent, however    *)
(* the messages of workers replaced by another are lost (run_sender,         *)
(* write_frame_all, drain_ack).                                              *)
THEOREM ShownCountIsTrue == SenderSpec => []CountTrue
BY SenderAlways, SenderInvCounts, PTL

(* The device receives the frames of one sender after those of another, each *)
(* whole and once, for every length of a frame, however the port cuts the    *)
(* writes and however many are tried again (write_frame_all).                *)
THEOREM DeviceGetsWholeFrames == SenderSpec => []WholeFrames
BY SenderAlways, SenderInvWhole, PTL

------------------------------------------------------------------------------
(* The demo alarm of the serial ingress.                                     *)

\* The frames whose samples are published.
Carriers == Useful \cup {NoFrame}

\* The alarm is what the last packet of this run said.
AlarmKept ==
    IF published = <<>> THEN demoAlarm = "none"
    ELSE demoAlarm \in Bits(Last(published)) /\ (port \in alarms <=> demoAlarm = "set")

OnPort == {"probe", "try", "run", "decode"}

DemoInv ==
    /\ published \in Seq(Carriers)
    /\ mode # "demo" => alarms = {}
    /\ mode = "demo" /\ pc \in OnPort => AlarmKept

(* The invariant is stronger than what the bus is promised.                  *)
LEMMA DemoInvTells == DemoInv => DemoAlarmTrue
BY DEF DemoInv, DemoAlarmTrue, AlarmKept, OnPort, Bits

(* A frame that is published becomes the last one, and its bit the alarm.    *)
LEMMA DemoDecodes == DemoInv /\ DecodeFrame => DemoInv'
<1> SUFFICES ASSUME DemoInv, DecodeFrame PROVE DemoInv'
  OBVIOUS
<1> DEFINE d == TryDecode(mode, Bytes(buf))
           BitTaken(bit) == IF mode = "demo" /\ d.frame \in Carriers /\ DemoAlarmChanges(bit)
                            THEN /\ demoAlarm' = bit
                                 /\ alarms' = IF bit = "set" THEN alarms \cup {port}
                                                             ELSE alarms \ {port}
                            ELSE UNCHANGED <<demoAlarm, alarms>>
<1>1. pc = "decode" /\ mode' = mode /\ port' = port
  BY DEF DecodeFrame, transportVars
<1>2. \/ published' = published /\ demoAlarm' = demoAlarm /\ alarms' = alarms
      \/ published' = WithSamples(d.frame) /\ \E bit \in Bits(d.frame) : BitTaken(bit)
  BY DEF DecodeFrame, Carriers
<1> HIDE DEF d
<1>3. CASE published' = published /\ demoAlarm' = demoAlarm /\ alarms' = alarms
  BY <1>1, <1>3 DEF DemoInv, AlarmKept, OnPort
<1>4. ASSUME published' = Append(published, d.frame), d.frame \in Carriers
      PROVE  published' \in Seq(Carriers) /\ published' # <<>> /\ Last(published') = d.frame
  <2>1. published \in Seq(Carriers)
    BY DEF DemoInv
  <2>2. published' \in Seq(Carriers) /\ Len(published') = Len(published) + 1 /\ published'[Len(published) + 1] = d.frame
    BY <1>4, <2>1
  <2> QED BY <2>1, <2>2 DEF Last
<1>5. ASSUME published' = WithSamples(d.frame), NEW bit \in Bits(d.frame), BitTaken(bit)
      PROVE  DemoInv'
  <2>1. CASE d.frame \notin Carriers
    BY <1>1, <1>5, <2>1 DEF DemoInv, AlarmKept, OnPort, WithSamples, Carriers
  <2>2. CASE d.frame \in Carriers
    <3>1. published' \in Seq(Carriers) /\ published' # <<>> /\ Last(published') = d.frame
      BY <1>4, <1>5, <2>2 DEF WithSamples, Carriers
    <3>2. mode # "demo" => alarms' = {}
      BY <1>5 DEF DemoInv
    <3>3. bit \in {"set", "clear"}
      BY <1>5 DEF Bits
    <3>4. CASE mode = "demo" /\ DemoAlarmChanges(bit)
      BY <1>1, <1>5, <2>2, <3>1, <3>2, <3>3, <3>4 DEF DemoInv, AlarmKept, OnPort
    <3>5. CASE mode = "demo" /\ ~DemoAlarmChanges(bit)
      <4>1. demoAlarm = bit /\ AlarmKept
        BY <1>1, <3>5 DEF DemoInv, OnPort, DemoAlarmChanges
      <4>2. port \in alarms <=> demoAlarm = "set"
        BY <3>3, <4>1 DEF AlarmKept
      <4> QED BY <1>1, <1>5, <3>1, <3>2, <3>5, <4>1, <4>2 DEF DemoInv, AlarmKept
    <3>6. CASE mode # "demo"
      BY <1>1, <3>1, <3>2, <3>6 DEF DemoInv
    <3> QED BY <3>4, <3>5, <3>6
  <2> QED BY <2>1, <2>2
<1> QED BY <1>2, <1>3, <1>5

(* Opening a port begins a run; no other step touches what was published.    *)
LEMMA DemoSteps == DemoInv /\ [SerialNext]_serialVars => DemoInv'
<1> SUFFICES ASSUME DemoInv, [SerialNext]_serialVars PROVE DemoInv'
  OBVIOUS
<1> USE DEF DemoInv, OnPort
<1> DEFINE Still == UNCHANGED <<mode, published, demoAlarm, alarms>>
<1>1. CASE DecodeFrame
  BY <1>1, DemoDecodes
<1>2. CASE Open
  BY <1>2 DEF Open, AlarmKept
<1>3. ASSUME Still, pc' = pc, port' = port
      PROVE  DemoInv'
  BY <1>3 DEF AlarmKept
<1>4. ASSUME Still, pc' \notin OnPort
      PROVE  DemoInv'
  BY <1>4
<1>5. ASSUME Still, pc \in OnPort, port' = port
      PROVE  DemoInv'
  BY <1>5 DEF AlarmKept
<1>6. CASE Scan \/ OpenFails \/ NoneFound
  BY <1>4, <1>6 DEF Scan, OpenFails, NoneFound
<1>7. CASE Reject \/ End
  BY <1>4, <1>7 DEF Reject, End
<1>8. CASE BeginRead \/ EndRead \/ EndFailed \/ ProbeTimeout
  BY <1>5, <1>8 DEF BeginRead, EndRead, EndFailed, ProbeTimeout, Reads, StartRead, TakeResult, CancelRead, taskVars
<1>9. CASE TryFrame
  BY <1>5, <1>9 DEF TryFrame, transportVars
<1>10. CASE SelectCancels \/ Thread
  BY <1>3, <1>10 DEF SelectCancels, Thread, CancelRead, ReadBytes, ReadTimesOut, ReadFails, taskVars
<1>11. CASE Send \/ Pull \/ PlugIn
  BY <1>3, <1>11 DEF Send, Pull, PlugIn, taskVars, transportVars
<1>12. CASE UNCHANGED serialVars
  BY <1>3, <1>12 DEF serialVars, taskVars, transportVars
<1> QED BY <1>1, <1>2, <1>6, <1>7, <1>8, <1>9, <1>10, <1>11, <1>12 DEF SerialNext, Task

(* After the first demo packet of a run the alarm on the bus is the bit of   *)
(* the last packet, for every script of the device and every order in which  *)
(* it is unplugged, probed and read: an alarm that an earlier run of the     *)
(* port left active is cleared by the first packet that says so              *)
(* (demo_alarm_state in ingress/serial.rs).                                  *)
THEOREM DemoAlarmFollowsTheDevice == SerialSpec => []DemoAlarmTrue
<1>1. SerialInit => DemoInv
  BY DEF SerialInit, DemoInv, AlarmKept, OnPort
<1> QED BY <1>1, DemoSteps, DemoInvTells, PTL DEF SerialSpec
=============================================================================

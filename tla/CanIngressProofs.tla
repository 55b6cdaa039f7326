--------------------------- MODULE CanIngressProofs ---------------------------
(***************************************************************************)
(* The CAN ingress, for every width of the counter and of SystemTime, any  *)
(* channels, configurations, watchdogs and frames.                         *)
(*                                                                         *)
(* First the clock alone: capture times never go back, the counter         *)
(* subtraction never underflows, t_sec is exact and the spacing of         *)
(* consecutive hardware frames is kept.  All of it follows from one        *)
(* inductive invariant, IInv, whose core is MappingExact: the anchor       *)
(* reproduces the last frame's capture time.  Then the task: what it does  *)
(* to the clock is what the clock alone may do; what it does to the        *)
(* adapter leaves nothing behind; its alarms are true.                     *)
(***************************************************************************)
EXTENDS CanIngress, TLAPS

-----------------------------------------------------------------------------
(* The clock.                                                              *)

(* A new clock satisfies the invariant.                                    *)
LEMMA InitIInv == Init => IInv
<1> SUFFICES ASSUME Init PROVE IInv
  OBVIOUS
<1>1. ~hardware /\ hardware \in BOOLEAN
  BY DEF Init
<1>2. TypeOK
  BY <1>1 DEF Init, TypeOK
<1>3. AnchorBehind /\ AfterOrigin
  BY SMT DEF Init, AnchorBehind, AfterOrigin, None
<1>4. MappingKnown /\ MappingExact
  BY <1>1 DEF Init, MappingKnown, MappingExact
<1> QED BY <1>2, <1>3, <1>4 DEF IInv

\* A frame without a counter value changes neither the mapping nor, by the
\* clamp, the order of capture times.
LEMMA HostStep ==
    ASSUME IInv, NEW received \in Time, CaptureHost(received)
    PROVE  IInv' /\ lastCaptured' >= lastCaptured /\ ~hardware'
<1>1. /\ origin' = IF origin = None THEN received ELSE origin
      /\ lastCaptured' = IF lastCaptured # None /\ received < lastCaptured
                         THEN lastCaptured ELSE received
      /\ hardware' = FALSE
      /\ UNCHANGED <<anchorUs, anchorTime, lastTimestamp>>
  BY DEF CaptureHost, FirstOrigin, Clamped
<1>2. TypeOK'
  <2>1. hardware' \in BOOLEAN
    BY <1>1
  <2>2. origin' \in Time \cup {None} /\ lastCaptured' \in Time \cup {None}
    BY <1>1 DEF IInv, TypeOK
  <2> QED BY <1>1, <2>1, <2>2 DEF IInv, TypeOK
<1>3. AnchorBehind' /\ AfterOrigin'
  BY <1>1, SMT, TimeAssumption DEF IInv, TypeOK, AnchorBehind, AfterOrigin, Time, None
<1>4. MappingKnown' /\ MappingExact'
  <2>1. lastCaptured' # None
    BY <1>1, SMT, TimeAssumption DEF Time, None
  <2> QED BY <1>1, <2>1 DEF MappingKnown, MappingExact
<1>5. lastCaptured' >= lastCaptured
  BY <1>1, SMT, TimeAssumption DEF IInv, TypeOK, Time, None
<1> QED BY <1>1, <1>2, <1>3, <1>4, <1>5 DEF IInv

\* The spacing property of one step.
Spaced ==
    hardware /\ hardware' /\ lastTimestamp' >= lastTimestamp /\ Mapped(lastTimestamp') <= MaxTime
        => lastCaptured' - lastCaptured = lastTimestamp' - lastTimestamp

\* A frame with a counter value: us and time are the mapping it is measured
\* with, whose counter value is not above the frame's own.
LEMMA HardwareStep ==
    ASSUME IInv, NEW received \in Time, NEW ts \in Timestamp \ {0},
           CaptureHardware(ts, received)
    PROVE  IInv' /\ lastCaptured' >= lastCaptured /\ Spaced
<1> DEFINE us     == IF NeedsAnchor(ts) THEN ts ELSE anchorUs
           time   == IF NeedsAnchor(ts) THEN received ELSE anchorTime
           mapped == Added(time, ts - us, received)
           clamps == Clamped(mapped) # mapped
<1>1. /\ origin' = IF origin = None THEN received ELSE origin
      /\ lastTimestamp' = ts
      /\ lastCaptured' = Clamped(mapped)
      /\ anchorUs' = IF clamps THEN ts ELSE us
      /\ anchorTime' = IF clamps THEN lastCaptured ELSE time
      /\ hardware' = TRUE
  BY DEF CaptureHardware, FirstOrigin
<1>2. us \in Timestamp /\ us <= ts /\ time \in Time
  BY SMT, TimeAssumption DEF IInv, TypeOK, AnchorBehind, NeedsAnchor, Time, Timestamp, None
<1>3. /\ mapped \in Time
      /\ time + (ts - us) <= MaxTime => mapped = time + (ts - us)
  <2> HIDE DEF us, time
  <2> QED BY <1>2, SMT, TimeAssumption DEF Added, Time, Timestamp
<1>4. /\ clamps => lastCaptured \in Time /\ Clamped(mapped) = lastCaptured /\ mapped < lastCaptured
      /\ Clamped(mapped) \in Time
      /\ Clamped(mapped) >= lastCaptured
      /\ ~clamps => Clamped(mapped) = mapped
  <2> HIDE DEF mapped
  <2> QED BY <1>3, SMT, TimeAssumption DEF IInv, TypeOK, Clamped, Time, None
<1> HIDE DEF us, time, mapped, clamps
<1>5. TypeOK'
  BY <1>1, <1>2, <1>4, SMT DEF IInv, TypeOK
<1>6. AnchorBehind' /\ AfterOrigin' /\ MappingKnown'
  <2>1. CASE lastCaptured = None
    <3>1. origin = None
      BY <2>1 DEF IInv, AfterOrigin
    <3>2. mapped = received
      <4>1. us = ts /\ time = received
        BY <2>1 DEF IInv, MappingKnown, NeedsAnchor, us, time
      <4> QED
        BY <4>1, SMT, TimeAssumption DEF mapped, Added, Time, Timestamp
    <3> QED
      BY <1>1, <1>2, <1>4, <2>1, <3>1, <3>2, SMT, TimeAssumption
         DEF AnchorBehind, AfterOrigin, MappingKnown, Time, Timestamp, None, Clamped
  <2>2. CASE lastCaptured # None
    BY <1>1, <1>2, <1>4, <2>2, SMT, TimeAssumption
       DEF IInv, TypeOK, AnchorBehind, AfterOrigin, MappingKnown, Time, Timestamp, None
  <2> QED BY <2>1, <2>2
<1>7. MappingExact'
  BY <1>1, <1>2, <1>3, <1>4, SMT, TimeAssumption DEF MappingExact, Mapped, Time, Timestamp
<1>8. Spaced
  <2> SUFFICES ASSUME hardware, ts >= lastTimestamp, Mapped(ts) <= MaxTime
               PROVE  lastCaptured' - lastCaptured = ts - lastTimestamp
    BY <1>1 DEF Spaced
  <2>1. us = anchorUs /\ time = anchorTime
    BY SMT, TimeAssumption DEF IInv, TypeOK, MappingKnown, NeedsAnchor, AnchorBehind, us, time,
       Time, Timestamp, None
  <2>2. mapped = Mapped(ts)
    BY <1>3, <2>1 DEF Mapped
  <2>3. lastCaptured = Mapped(lastTimestamp)
    BY <1>2, <2>1, SMT, TimeAssumption
       DEF IInv, TypeOK, MappingExact, MappingKnown, AnchorBehind, Mapped, Time, Timestamp, None
  <2> QED
    BY <1>1, <1>2, <1>3, <1>4, <2>1, <2>2, <2>3, SMT, TimeAssumption
       DEF IInv, TypeOK, AnchorBehind, Mapped, Time, Timestamp, None
<1> QED BY <1>1, <1>4, <1>5, <1>6, <1>7, <1>8 DEF IInv

\* Every step keeps the invariant and satisfies both action properties.
LEMMA StepFacts ==
    ASSUME IInv, [Next]_vars
    PROVE  IInv' /\ [lastCaptured' >= lastCaptured]_vars /\ [Spaced]_vars
<1>1. CASE Next
  <2>1. ASSUME NEW received \in Time, CaptureHost(received)
        PROVE  IInv' /\ lastCaptured' >= lastCaptured /\ Spaced
    BY <2>1, HostStep DEF Spaced
  <2>2. ASSUME NEW received \in Time, NEW ts \in Timestamp \ {0}, CaptureHardware(ts, received)
        PROVE  IInv' /\ lastCaptured' >= lastCaptured /\ Spaced
    BY <2>2, HardwareStep
  <2> QED BY <1>1, <2>1, <2>2 DEF Next
<1>2. CASE UNCHANGED vars
  BY <1>2 DEF vars, IInv, TypeOK, AnchorBehind, AfterOrigin, MappingKnown, MappingExact, Mapped
<1> QED BY <1>1, <1>2

\* IInv is an invariant.
LEMMA AlwaysIInv == Spec => []IInv
BY InitIInv, StepFacts, PTL DEF Spec

(* The counter subtraction of capture() cannot underflow, t_sec is the      *)
(* distance to the first frame and never the default of a negative         *)
(* duration, and every field holds a time or counter value or None.        *)
THEOREM NeverUnderflows == Spec => [](TypeOK /\ DifferencesDefined)
<1>1. IInv => TypeOK /\ DifferencesDefined
  BY DEF IInv, DifferencesDefined
<1> QED BY <1>1, AlwaysIInv, PTL

(* Capture times never go back, for any counter and any host clock.        *)
THEOREM CaptureMonotone == Spec => Monotone
BY InitIInv, StepFacts, PTL DEF Spec, Monotone

(* The spacing of consecutive frames with counter values in order is kept. *)
THEOREM SpacingPreserved == Spec => SpacingKept
BY InitIInv, StepFacts, PTL DEF Spec, SpacingKept, Spaced

-----------------------------------------------------------------------------
(* The adapter.                                                            *)

(* The candidates are finitely many, at least one, and each has channels   *)
(* of the adapter.                                                         *)
LEMMA CandidateFacts ==
    ASSUME config \in Configs
    PROVE  /\ Len(Candidates) \in Nat
           /\ \A n \in 1 .. Len(Candidates) : Range(Candidates[n].channels) \subseteq Channels
<1>1. config.channels \in Seq(Channels) /\ config.channels # <<>>
  BY TransportAssumption
<1>2. /\ ChannelLists \in Seq(Seq(Channels))
      /\ Len(ChannelLists) \in Nat \ {0}
  <2>1. CASE Len(config.channels) # 1
    BY <1>1, <2>1 DEF ChannelLists
  <2>2. CASE Len(config.channels) = 1
    <3>1. config.channels[1] \in 0 .. LastChannel
      <4>1. \A q \in Seq(Channels) : Len(q) = 1 => q[1] \in Channels
        OBVIOUS
      <4> QED BY <1>1, <2>2, <4>1 DEF Channels
    <3>2. \A n \in 1 .. LastChannel :
             <<IF n <= config.channels[1] THEN n - 1 ELSE n>> \in Seq(Channels)
      BY <3>1, TransportAssumption DEF Channels
    <3>3. OtherThan(config.channels[1]) \in Seq(Seq(Channels))
      BY <3>2, TransportAssumption DEF OtherThan
    <3>4. <<config.channels>> \in Seq(Seq(Channels)) /\ Len(<<config.channels>>) = 1
      BY <1>1
    <3>5. ChannelLists = <<config.channels>> \o OtherThan(config.channels[1])
      BY <2>2 DEF ChannelLists
    <3> QED BY <3>3, <3>4, <3>5
  <2> QED BY <2>1, <2>2
<1>3. Len(Hardware) \in Nat
  BY DEF Hardware
<1>4. PICK K \in Nat : K = Len(Hardware) * Len(ChannelLists)
  <2>1. \A x, y \in Nat : x * y \in Nat
    OBVIOUS
  <2> QED BY <1>2, <1>3, <2>1
<1>5. PICK L \in Nat \ {0} : L = Len(ChannelLists)
  BY <1>2
<1>6. /\ DOMAIN Candidates = 1 .. K
      /\ \A n \in 1 .. K : Candidates[n].channels = ChannelLists[1 + ((n - 1) % L)]
  BY <1>4, <1>5 DEF Candidates
<1>7. Candidates = [n \in 1 .. K |-> Candidates[n]]
  BY <1>4 DEF Candidates
<1>8. Len(Candidates) = K
  BY <1>7, SMT
<1>9. ASSUME NEW n \in 1 .. K
      PROVE  Range(Candidates[n].channels) \subseteq Channels
  <2>1. 1 + ((n - 1) % L) \in 1 .. L
    OBVIOUS
  <2>2. ChannelLists[1 + ((n - 1) % L)] \in Seq(Channels)
    BY <1>2, <1>5, <2>1
  <2>3. \A q \in Seq(Channels) : Range(q) \subseteq Channels
    BY DEF Range
  <2> QED BY <1>6, <2>2, <2>3
<1> QED BY <1>8, <1>9

(* What is left to undo at each place of connect() and close().            *)
Undoable ==
    /\ link # "idle" => attempt <= Len(Candidates)
    /\ link \in {"idle", "undo", "closed"} => registry = {}
    /\ link \in {"setup", "listen", "open", "closing"} => registry = {attempt}
    /\ link \in {"idle", "setup", "closing", "closed"} => events = {}
    /\ link \in {"idle", "closing", "closed"} => library = "out"
    /\ link \in {"listen", "open"} => library = "connected"
    /\ link = "open" => "can" \in events

(* The configuration fixes the candidates.                                 *)
LEMMA CandidatesKept == config' = config => Candidates' = Candidates
BY DEF Candidates, Hardware, ChannelLists

(* Nothing is undone before it was done.                                   *)
LEMMA LinkInitial == LinkInit => LinkTypeOK(Frames) /\ Undoable
<1> SUFFICES ASSUME LinkInit PROVE LinkTypeOK(Frames) /\ Undoable
  OBVIOUS
<1>1. Len(Candidates) \in Nat
  BY CandidateFacts DEF LinkInit
<1>2. Len(queue) = 0 /\ queue \in Seq(Frames)
  BY DEF LinkInit
<1> QED BY <1>1, <1>2, TransportAssumption DEF LinkInit, LinkTypeOK, Undoable

(* The callbacks and recv() keep the queue within its capacity.            *)
LEMMA QueueStep ==
    ASSUME queue \in Seq(Frames), Len(queue) <= QueueCap,
           \/ queue' \in {queue, <<>>}
           \/ Dequeue
           \/ \E frame \in Frames : Callback(frame)
    PROVE  queue' \in Seq(Frames) /\ Len(queue') <= QueueCap
<1>1. QueueCap \in Nat \ {0}
  BY TransportAssumption
<1>2. CASE queue' \in {queue, <<>>}
  <2>1. <<>> \in Seq(Frames) /\ Len(<<>>) = 0
    OBVIOUS
  <2>2. CASE queue' = queue
    BY <2>2
  <2>3. CASE queue' = <<>>
    BY <1>1, <2>1, <2>3
  <2> QED BY <1>2, <2>2, <2>3
<1>3. CASE Dequeue
  <2>1. queue # <<>> /\ queue' = Tail(queue)
    BY <1>3 DEF Dequeue
  <2> QED BY <1>1, <2>1
<1>4. ASSUME NEW frame \in Frames, Callback(frame)
      PROVE  queue' \in Seq(Frames) /\ Len(queue') <= QueueCap
  <2>1. queue' = queue \/ (Len(queue) < QueueCap /\ queue' = Append(queue, frame))
    BY <1>4 DEF Callback
  <2> QED BY <1>1, <2>1
<1> QED BY <1>2, <1>3, <1>4

(* The frames that come and go do not touch what connect() and close() do. *)
LEMMA FramesStep ==
    ASSUME LinkTypeOK(Frames), Undoable,
           UNCHANGED <<config, attempt, link, library, events, registry>>,
           queue' = queue \/ Dequeue \/ \E frame \in Frames : Callback(frame)
    PROVE  LinkTypeOK(Frames)' /\ Undoable'
<1>1. queue' \in Seq(Frames) /\ Len(queue') <= QueueCap
  BY QueueStep DEF LinkTypeOK
<1>2. Candidates' = Candidates
  BY CandidatesKept
<1> QED BY <1>1, <1>2 DEF LinkTypeOK, Undoable

(* Each step of connect() and close() leaves what the next one undoes.     *)
LEMMA LinkStep ==
    ASSUME LinkTypeOK(Frames), Undoable, Connecting \/ Close \/ Closed
    PROVE  LinkTypeOK(Frames)' /\ Undoable'
<1>1. config' = config /\ queue' \in {queue, <<>>}
  BY DEF Connecting, Prepare, PrepareFails, Setup, ListenCan, ListenCanFd, Opened, SetupFails, Undo,
         Close, Closed
<1>2. queue' \in Seq(Frames) /\ Len(queue') <= QueueCap
  BY <1>1, QueueStep DEF LinkTypeOK
<1>3. Candidates' = Candidates /\ Len(Candidates) \in Nat
  BY <1>1, CandidatesKept, CandidateFacts DEF LinkTypeOK
<1>4. config \in Configs /\ attempt \in 1 .. Len(Candidates) + 1
  BY DEF LinkTypeOK
<1>5. CASE Prepare
  <2>1. /\ link = "idle" /\ link' = "setup" /\ library' = "initialized"
        /\ attempt <= Len(Candidates)
        /\ registry' = {attempt} /\ events' = {} /\ attempt' = attempt
    BY <1>5 DEF Prepare, Undoable
  <2> QED BY <1>1, <1>2, <1>3, <1>4, <2>1 DEF LinkTypeOK, Undoable
<1>6. CASE PrepareFails
  BY <1>1, <1>2, <1>3, <1>4, <1>6 DEF PrepareFails, LinkTypeOK, Undoable
<1>7. CASE Setup
  BY <1>1, <1>2, <1>3, <1>4, <1>7 DEF Setup, LinkTypeOK, Undoable
<1>8. CASE ListenCan
  BY <1>1, <1>2, <1>3, <1>4, <1>8 DEF ListenCan, LinkTypeOK, Undoable
<1>9. CASE ListenCanFd
  BY <1>1, <1>2, <1>3, <1>4, <1>9 DEF ListenCanFd, LinkTypeOK, Undoable
<1>10. CASE Opened
  BY <1>1, <1>2, <1>3, <1>4, <1>10 DEF Opened, LinkTypeOK, Undoable
<1>11. CASE SetupFails
  BY <1>1, <1>2, <1>3, <1>4, <1>11 DEF SetupFails, Undone, LinkTypeOK, Undoable
<1>12. CASE Undo
  BY <1>1, <1>2, <1>3, <1>4, <1>12 DEF Undo, LinkTypeOK, Undoable
<1>13. CASE Close
  BY <1>1, <1>2, <1>3, <1>4, <1>13 DEF Close, LinkTypeOK, Undoable
<1>14. CASE Closed
  BY <1>1, <1>2, <1>3, <1>4, <1>14 DEF Closed, Undone, LinkTypeOK, Undoable
<1> QED
  BY <1>5, <1>6, <1>7, <1>8, <1>9, <1>10, <1>11, <1>12, <1>13, <1>14 DEF Connecting

-----------------------------------------------------------------------------
(* The alarms.                                                             *)

ErrorAlarm(ch, e) == [channel |-> ch, silence |-> NoId, error |-> e]
SilenceAlarm(t)   == [channel |-> t.channel, silence |-> t.id, error |-> 0]

(* The two families do not overlap, and an alarm names its cause.          *)
LEMMA AlarmNames ==
    /\ \A c, d, e, f : ErrorAlarm(c, e) = ErrorAlarm(d, f) => c = d /\ e = f
    /\ \A t, u \in Targets : SilenceAlarm(t) = SilenceAlarm(u) => t = u
    /\ \A c, e : \A t \in Targets : ErrorAlarm(c, e) # SilenceAlarm(t)
<1>1. \A c, d, e, f : ErrorAlarm(c, e) = ErrorAlarm(d, f) => c = d /\ e = f
  BY DEF ErrorAlarm
<1>2. \A t, u \in Targets : SilenceAlarm(t) = SilenceAlarm(u) => t = u
  BY DEF SilenceAlarm, Targets
<1>3. \A c, e : \A t \in Targets : ErrorAlarm(c, e) # SilenceAlarm(t)
  BY DEF ErrorAlarm, SilenceAlarm, Targets, AnyId, NoId
<1> QED BY <1>1, <1>2, <1>3

(* The sets of alarms the actions add and remove, alarm by alarm.          *)
LEMMA AlarmSets ==
    /\ \A ch, es, a : a \in ErrorAlarms(ch, es) <=> \E e \in es : a = ErrorAlarm(ch, e)
    /\ \A ts, a : a \in SilenceAlarms(ts) <=> \E t \in ts : a = SilenceAlarm(t)
<1>1. \A ch, es, a : a \in ErrorAlarms(ch, es) <=> \E e \in es : a = ErrorAlarm(ch, e)
  BY DEF ErrorAlarms, ErrorAlarm
<1>2. \A ts, a : a \in SilenceAlarms(ts) <=> \E t \in ts : a = SilenceAlarm(t)
  BY DEF SilenceAlarms, SilenceAlarm
<1> QED BY <1>1, <1>2

(* AlarmsAgree, cause by cause.                                            *)
Causes ==
    /\ \A ch \in Channels, e \in ErrorTypes : e \in errors[ch] <=> ErrorAlarm(ch, e) \in alarms
    /\ \A t \in DOMAIN watchdogs : watchdogs[t].active <=> SilenceAlarm(t) \in alarms
    /\ \A a \in alarms :
          \/ \E ch \in Channels, e \in ErrorTypes : a = ErrorAlarm(ch, e)
          \/ \E t \in DOMAIN watchdogs : a = SilenceAlarm(t)

(* The age the code keeps is the silence there is, and only after a full   *)
(* timeout of it is a watchdog active.                                     *)
QuietIsAge ==
    /\ pc = "connect" => DOMAIN watchdogs = {}
    /\ \A t \in DOMAIN watchdogs :
          /\ quiet[t] = watchdogs[t].age
          /\ watchdogs[t].active => watchdogs[t].age >= Timeout

CoreTypeOK ==
    /\ DOMAIN watchdogs \subseteq Targets /\ DOMAIN quiet = DOMAIN watchdogs
    /\ \A t \in DOMAIN watchdogs :
          watchdogs[t] \in [age : 0 .. Timeout, active : BOOLEAN] /\ quiet[t] \in 0 .. Timeout
    /\ errors \in [Channels -> SUBSET ErrorTypes]

(* Alarm by alarm or as sets, it says the same.                            *)
LEMMA AgreeByCause == CoreTypeOK => (AlarmsAgree <=> Causes)
<1> SUFFICES ASSUME CoreTypeOK PROVE AlarmsAgree <=> Causes
  OBVIOUS
<1> DEFINE fromErrors == UNION {ErrorAlarms(ch, errors[ch]) : ch \in Channels}
           fromSilence == SilenceAlarms({t \in DOMAIN watchdogs : watchdogs[t].active})
<1>1. \A a : a \in fromErrors <=> \E ch \in Channels, e \in ErrorTypes :
                                     e \in errors[ch] /\ a = ErrorAlarm(ch, e)
  BY AlarmSets DEF CoreTypeOK
<1>2. \A a : a \in fromSilence <=> \E t \in DOMAIN watchdogs :
                                     watchdogs[t].active /\ a = SilenceAlarm(t)
  BY AlarmSets
<1>3. AlarmsAgree <=> \A a : a \in alarms <=> a \in fromErrors \/ a \in fromSilence
  <2>1. AlarmsAgree = (alarms = fromErrors \cup fromSilence)
    BY DEF AlarmsAgree
  <2> HIDE DEF fromErrors, fromSilence
  <2> QED BY <2>1
<1> HIDE DEF fromErrors, fromSilence
<1>4. DOMAIN watchdogs \subseteq Targets
  BY DEF CoreTypeOK
<1>5. ASSUME AlarmsAgree PROVE Causes
  <2>1. \A ch \in Channels, e \in ErrorTypes : e \in errors[ch] <=> ErrorAlarm(ch, e) \in alarms
    BY <1>1, <1>2, <1>3, <1>4, <1>5, AlarmNames
  <2>2. \A t \in DOMAIN watchdogs : watchdogs[t].active <=> SilenceAlarm(t) \in alarms
    BY <1>1, <1>2, <1>3, <1>4, <1>5, AlarmNames
  <2>3. \A a \in alarms : \/ \E ch \in Channels, e \in ErrorTypes : a = ErrorAlarm(ch, e)
                          \/ \E t \in DOMAIN watchdogs : a = SilenceAlarm(t)
    BY <1>1, <1>2, <1>3, <1>5
  <2> QED BY <2>1, <2>2, <2>3 DEF Causes
<1>6. ASSUME Causes PROVE AlarmsAgree
  <2>1. \A a \in alarms : a \in fromErrors \/ a \in fromSilence
    BY <1>1, <1>2, <1>6 DEF Causes
  <2>2. \A a \in fromErrors : a \in alarms
    BY <1>1, <1>6 DEF Causes
  <2>3. \A a \in fromSilence : a \in alarms
    BY <1>2, <1>6 DEF Causes
  <2> QED BY <1>3, <2>1, <2>2, <2>3
<1> QED BY <1>5, <1>6

CoreInv == CoreTypeOK /\ Causes /\ QuietIsAge

(* Whoever leaves the core and the alarms alone keeps what is true of them. *)
LEMMA CoreKept ==
    ASSUME CoreInv, UNCHANGED coreVars, pc' = "connect" => pc = "connect"
    PROVE  CoreInv'
<1>1. UNCHANGED <<watchdogs, errors, alarms, quiet>>
  BY DEF coreVars
<1> QED BY <1>1 DEF CoreInv, CoreTypeOK, Causes, QuietIsAge

(* Only what an open channel can show is watched.                          *)
LEMMA WatchTargetsIn ==
    ASSUME config \in Configs, watching \in Watched, attempt \in 1 .. Len(Candidates)
    PROVE  WatchTargets \subseteq Targets
<1>1. ActiveChannels \subseteq Channels
  BY CandidateFacts DEF ActiveChannels
<1>2. watching.targets \subseteq [channel : Nat, id : {AnyId, 1}]
  BY IngressAssumption
<1>3. \A t \in [channel : Nat, id : {AnyId, 1}] : t.channel \in Channels => t \in Targets
  BY DEF Targets
<1>4. [channel : ActiveChannels, id : {AnyId}] \subseteq Targets
  BY <1>1 DEF Targets
<1> QED BY <1>1, <1>2, <1>3, <1>4 DEF WatchTargets

(* The new watchdogs have no alarm, and there are none of earlier ones.    *)
LEMMA StartStep ==
    ASSUME CoreInv, LinkTypeOK(Frames), Undoable, watching \in Watched, Start
    PROVE  CoreInv'
<1>1. /\ watchdogs' = [t \in WatchTargets |-> Alive] /\ quiet' = [t \in WatchTargets |-> 0]
      /\ errors' = errors /\ alarms' = alarms /\ pc' = "drain"
      /\ pc = "connect" /\ link = "open"
  BY DEF Start
<1>2. WatchTargets \subseteq Targets
  BY <1>1, WatchTargetsIn DEF LinkTypeOK, Undoable
<1>3. DOMAIN watchdogs = {}
  BY <1>1 DEF CoreInv, QuietIsAge
<1>4. /\ DOMAIN watchdogs' = WatchTargets /\ DOMAIN quiet' = WatchTargets
      /\ \A t \in WatchTargets : watchdogs'[t] = Alive /\ quiet'[t] = 0
  BY <1>1
<1>5. Alive \in [age : 0 .. Timeout, active : BOOLEAN] /\ ~Alive.active /\ Alive.age = 0
  BY IngressAssumption DEF Alive
<1>6. CoreTypeOK'
  BY <1>1, <1>2, <1>4, <1>5, IngressAssumption DEF CoreInv, CoreTypeOK
<1>7. Causes'
  <2>1. \A ch \in Channels, e \in ErrorTypes : e \in errors'[ch] <=> ErrorAlarm(ch, e) \in alarms'
    BY <1>1 DEF CoreInv, Causes
  <2>2. \A a \in alarms' : \E ch \in Channels, e \in ErrorTypes : a = ErrorAlarm(ch, e)
    BY <1>1, <1>3 DEF CoreInv, Causes
  <2>3. \A t \in DOMAIN watchdogs' : ~watchdogs'[t].active /\ SilenceAlarm(t) \notin alarms'
    BY <1>2, <1>4, <1>5, <2>2, AlarmNames
  <2> QED BY <2>1, <2>2, <2>3 DEF Causes, ErrorAlarm, SilenceAlarm
<1>8. QuietIsAge'
  BY <1>1, <1>4, <1>5 DEF QuietIsAge
<1> QED BY <1>6, <1>7, <1>8 DEF CoreInv

(* A tick makes the ages and the silence longer alike.                     *)
LEMMA TickStep ==
    ASSUME CoreInv, Tick
    PROVE  CoreInv'
<1> DEFINE older(n) == IF n < Timeout THEN n + 1 ELSE n
<1>1. /\ watchdogs' = [t \in DOMAIN watchdogs |-> [watchdogs[t] EXCEPT !.age = older(watchdogs[t].age)]]
      /\ quiet' = [t \in DOMAIN quiet |-> older(quiet[t])]
      /\ errors' = errors /\ alarms' = alarms /\ pc' = pc
  BY DEF Tick
<1>2. /\ \A n \in 0 .. Timeout : older(n) \in 0 .. Timeout /\ older(n) >= n
      /\ Timeout \in Nat
  BY IngressAssumption
<1> HIDE DEF older
<1>3. DOMAIN watchdogs' = DOMAIN watchdogs /\ DOMAIN quiet' = DOMAIN quiet
  BY <1>1
<1>4. ASSUME NEW t \in DOMAIN watchdogs
      PROVE  /\ watchdogs'[t] \in [age : 0 .. Timeout, active : BOOLEAN]
             /\ watchdogs'[t].age = older(watchdogs[t].age)
             /\ watchdogs'[t].active = watchdogs[t].active
             /\ quiet'[t] = older(quiet[t])
  <2>1. watchdogs'[t] = [watchdogs[t] EXCEPT !.age = older(watchdogs[t].age)]
    BY <1>1
  <2>2. watchdogs[t] \in [age : 0 .. Timeout, active : BOOLEAN]
    BY DEF CoreInv, CoreTypeOK
  <2>3. older(watchdogs[t].age) \in 0 .. Timeout
    BY <1>2, <2>2
  <2>4. quiet'[t] = older(quiet[t])
    BY <1>1 DEF CoreInv, CoreTypeOK
  <2> QED BY <2>1, <2>2, <2>3, <2>4
<1>5. CoreTypeOK'
  BY <1>1, <1>2, <1>3, <1>4 DEF CoreInv, CoreTypeOK
<1>6. Causes'
  BY <1>1, <1>3, <1>4 DEF CoreInv, Causes
<1>7. QuietIsAge'
  BY <1>1, <1>2, <1>3, <1>4 DEF CoreInv, CoreTypeOK, QuietIsAge
<1> QED BY <1>5, <1>6, <1>7 DEF CoreInv

(* poll_signal_timeouts raises the alarms of the watchdogs it activates.   *)
LEMMA PollStep ==
    ASSUME CoreInv, Poll
    PROVE  CoreInv'
<1>1. /\ watchdogs' = [t \in DOMAIN watchdogs |->
                         IF t \in Expired THEN [watchdogs[t] EXCEPT !.active = TRUE] ELSE watchdogs[t]]
      /\ alarms' = alarms \cup SilenceAlarms(Expired)
      /\ errors' = errors /\ quiet' = quiet /\ pc' = "drain"
  BY DEF Poll
<1>2. DOMAIN watchdogs' = DOMAIN watchdogs /\ DOMAIN watchdogs \subseteq Targets
  BY <1>1 DEF CoreInv, CoreTypeOK
<1>3. \A t \in DOMAIN watchdogs : t \in Expired <=> ~watchdogs[t].active /\ watchdogs[t].age >= Timeout
  BY DEF Expired
<1>4. Expired \subseteq DOMAIN watchdogs
  BY DEF Expired
<1>5. ASSUME NEW t \in DOMAIN watchdogs
      PROVE  /\ watchdogs'[t] \in [age : 0 .. Timeout, active : BOOLEAN]
             /\ watchdogs'[t].age = watchdogs[t].age
             /\ watchdogs'[t].active = (watchdogs[t].active \/ t \in Expired)
  <2>1. watchdogs[t] \in [age : 0 .. Timeout, active : BOOLEAN]
    BY DEF CoreInv, CoreTypeOK
  <2>2. CASE t \in Expired
    <3>1. watchdogs'[t] = [watchdogs[t] EXCEPT !.active = TRUE]
      BY <1>1, <2>2
    <3> QED BY <2>1, <2>2, <3>1
  <2>3. CASE t \notin Expired
    BY <1>1, <2>1, <2>3
  <2> QED BY <2>2, <2>3
<1>6. CoreTypeOK'
  BY <1>1, <1>2, <1>5 DEF CoreInv, CoreTypeOK
<1>7. Causes'
  <2>1. \A a : a \in alarms' <=> a \in alarms \/ \E t \in Expired : a = SilenceAlarm(t)
    BY <1>1, AlarmSets
  <2>2. \A ch \in Channels, e \in ErrorTypes : e \in errors'[ch] <=> ErrorAlarm(ch, e) \in alarms'
    BY <1>1, <1>2, <1>4, <2>1, AlarmNames DEF CoreInv, Causes
  <2>3. \A t \in DOMAIN watchdogs' : watchdogs'[t].active <=> SilenceAlarm(t) \in alarms'
    BY <1>2, <1>4, <1>5, <2>1, AlarmNames DEF CoreInv, Causes
  <2>4. \A a \in alarms' : \/ \E ch \in Channels, e \in ErrorTypes : a = ErrorAlarm(ch, e)
                           \/ \E t \in DOMAIN watchdogs' : a = SilenceAlarm(t)
    BY <1>2, <1>4, <2>1 DEF CoreInv, Causes
  <2> QED BY <2>2, <2>3, <2>4 DEF Causes, ErrorAlarm, SilenceAlarm
<1>8. QuietIsAge'
  BY <1>1, <1>2, <1>3, <1>5 DEF CoreInv, QuietIsAge
<1> QED BY <1>6, <1>7, <1>8 DEF CoreInv

(* The watchdogs a frame feeds are those it is a sign of life for: no frame *)
(* has the identifier that stands for any.                                 *)
LEMMA FedAreAlive ==
    ASSUME NEW frame \in Frames, NEW t \in DOMAIN watchdogs
    PROVE  t \in Observed(frame) <=> SignOf(t, frame)
<1>1. frame.body \in Bodies
  BY FramesAssumption
<1>2. frame.body.id # AnyId
  <2>1. \A b \in [id : {1, 256, 291}, sample : BOOLEAN, error : {0}] : b.id # 0
    OBVIOUS
  <2>2. \A b \in [id : {3}, sample : {FALSE}, error : {0} \cup ErrorTypes] : b.id # 0
    OBVIOUS
  <2> QED BY <1>1, <2>1, <2>2 DEF Bodies, AnyId
<1> QED BY <1>2 DEF Observed, SignOf, Telemetry

(* A frame ends the errors of its channel or begins one, and it feeds its  *)
(* watchdogs: every alarm follows its cause.                               *)
LEMMA HandleFrameStep ==
    ASSUME CoreInv, queue \in Seq(Frames), HandleFrame
    PROVE  CoreInv'
<1>1. PICK frame \in Frames : frame = Head(queue)
  BY DEF HandleFrame, Dequeue
<1>2. PICK ch \in Channels : ch = frame.channel
  BY FramesAssumption
<1>3. /\ errors' = [errors EXCEPT ![ch] =
                       IF Reports(frame, 0) THEN {} ELSE @ \cup ErrorsBegun(frame)]
      /\ watchdogs' = [t \in DOMAIN watchdogs |-> IF t \in Observed(frame) THEN Alive ELSE watchdogs[t]]
      /\ alarms' = (alarms \ (ErrorAlarms(ch, ErrorsEnded(frame))
                              \cup SilenceAlarms({t \in Observed(frame) : watchdogs[t].active})))
                   \cup ErrorAlarms(ch, ErrorsBegun(frame))
      /\ quiet' = [t \in DOMAIN quiet |-> IF SignOf(t, frame) THEN 0 ELSE quiet[t]]
      /\ pc' = "poll"
  BY <1>1, <1>2 DEF HandleFrame
<1>4. /\ ErrorsEnded(frame) = IF Reports(frame, 0) THEN errors[ch] ELSE {}
      /\ Reports(frame, 0) => ErrorsBegun(frame) = {}
      /\ ErrorsBegun(frame) \subseteq ErrorTypes
      /\ errors[ch] \subseteq ErrorTypes
  BY <1>2, IngressAssumption DEF ErrorsEnded, ErrorsBegun, Reports, CoreInv, CoreTypeOK
<1>5. /\ DOMAIN watchdogs \subseteq Targets /\ DOMAIN quiet = DOMAIN watchdogs
      /\ DOMAIN watchdogs' = DOMAIN watchdogs /\ DOMAIN quiet' = DOMAIN watchdogs
      /\ Observed(frame) \subseteq DOMAIN watchdogs
  BY <1>3 DEF CoreInv, CoreTypeOK, Observed
<1>6. Alive \in [age : 0 .. Timeout, active : BOOLEAN] /\ ~Alive.active /\ Alive.age = 0
  BY IngressAssumption DEF Alive
<1>7. \A t \in DOMAIN watchdogs :
         IF t \in Observed(frame) THEN watchdogs'[t] = Alive /\ quiet'[t] = 0
         ELSE watchdogs'[t] = watchdogs[t] /\ quiet'[t] = quiet[t]
  BY <1>3, <1>5, FedAreAlive
<1>8. CoreTypeOK'
  <2>1. errors' \in [Channels -> SUBSET ErrorTypes]
    <3>1. errors \in [Channels -> SUBSET ErrorTypes]
      BY DEF CoreInv, CoreTypeOK
    <3>2. CASE Reports(frame, 0)
      BY <1>3, <3>1, <3>2
    <3>3. CASE ~Reports(frame, 0)
      BY <1>2, <1>3, <1>4, <3>1, <3>3
    <3> QED BY <3>2, <3>3
  <2>2. \A t \in DOMAIN watchdogs' :
           watchdogs'[t] \in [age : 0 .. Timeout, active : BOOLEAN] /\ quiet'[t] \in 0 .. Timeout
    BY <1>5, <1>6, <1>7, IngressAssumption DEF CoreInv, CoreTypeOK
  <2> QED BY <1>5, <2>1, <2>2 DEF CoreTypeOK
<1>9. Causes'
  <2>1. \A a : a \in alarms' <=>
           \/ /\ a \in alarms
              /\ ~ \E e \in ErrorsEnded(frame) : a = ErrorAlarm(ch, e)
              /\ ~ \E t \in Observed(frame) : watchdogs[t].active /\ a = SilenceAlarm(t)
           \/ \E e \in ErrorsBegun(frame) : a = ErrorAlarm(ch, e)
    BY <1>3, AlarmSets
  <2>2. \A c \in Channels, e \in ErrorTypes :
           e \in errors'[c] <=> (e \in errors[c] /\ ~(c = ch /\ e \in ErrorsEnded(frame)))
                                \/ (c = ch /\ e \in ErrorsBegun(frame))
    <3>1. errors \in [Channels -> SUBSET ErrorTypes]
      BY DEF CoreInv, CoreTypeOK
    <3>2. CASE Reports(frame, 0)
      BY <1>3, <1>4, <3>1, <3>2
    <3>3. CASE ~Reports(frame, 0)
      BY <1>3, <1>4, <3>1, <3>3
    <3> QED BY <3>2, <3>3
  <2>3. \A c \in Channels, e \in ErrorTypes : e \in errors'[c] <=> ErrorAlarm(c, e) \in alarms'
    BY <1>5, <2>1, <2>2, AlarmNames DEF CoreInv, Causes
  <2>4. \A t \in DOMAIN watchdogs' : watchdogs'[t].active <=> SilenceAlarm(t) \in alarms'
    BY <1>5, <1>6, <1>7, <2>1, AlarmNames DEF CoreInv, Causes
  <2>5. \A a \in alarms' : \/ \E c \in Channels, e \in ErrorTypes : a = ErrorAlarm(c, e)
                           \/ \E t \in DOMAIN watchdogs' : a = SilenceAlarm(t)
    BY <1>4, <1>5, <2>1 DEF CoreInv, Causes
  <2> QED BY <2>3, <2>4, <2>5 DEF Causes, ErrorAlarm, SilenceAlarm
<1>10. QuietIsAge'
  BY <1>3, <1>5, <1>6, <1>7 DEF CoreInv, QuietIsAge
<1> QED BY <1>8, <1>9, <1>10 DEF CoreInv

-----------------------------------------------------------------------------
(* The task.                                                               *)

\* What the transmit queue holds.
SelfTests == {"self test"}

TaskTypeOK ==
    /\ pc \in {"connect", "drain", "recv", "poll", "stop", "close", "ended"}
    /\ watching \in Watched
    /\ slot \in BOOLEAN /\ requested \in 0 .. MaxRequests
    /\ outbox \in Seq(SelfTests) /\ Len(outbox) <= requested

IngressInv == IInv /\ LinkTypeOK(Frames) /\ Undoable /\ CoreInv /\ TaskTypeOK

(* The task begins with nothing open, nothing watched and no alarm.        *)
LEMMA IngressInitial == IngressInit => IngressInv
<1> SUFFICES ASSUME IngressInit PROVE IngressInv
  OBVIOUS
<1>1. Init /\ LinkInit
  BY DEF IngressInit
<1>2. IInv
  BY <1>1, InitIInv
<1>3. LinkTypeOK(Frames) /\ Undoable
  BY <1>1, LinkInitial
<1>4. /\ DOMAIN watchdogs = {} /\ quiet = watchdogs
      /\ errors = [ch \in Channels |-> {}] /\ alarms = {}
  BY DEF IngressInit, NoWatchdogs
<1>5. CoreInv
  BY <1>4 DEF CoreInv, CoreTypeOK, Causes, QuietIsAge
<1>6. TaskTypeOK
  <2>1. <<>> \in Seq(SelfTests) /\ Len(<<>>) = 0
    OBVIOUS
  <2>2. 0 \in 0 .. MaxRequests /\ 0 <= 0
    BY IngressAssumption
  <2>3. Len(outbox) <= requested /\ requested \in 0 .. MaxRequests /\ outbox \in Seq(SelfTests)
    BY <2>1, <2>2 DEF IngressInit
  <2>4. slot \in BOOLEAN /\ watching \in Watched /\ pc = "connect"
    BY DEF IngressInit
  <2> QED BY <2>3, <2>4, Zenon DEF TaskTypeOK
<1> QED BY <1>2, <1>3, <1>5, <1>6 DEF IngressInv

(* Whatever the task does to its clock, capture() does.                    *)
LEMMA ClockStep ==
    ASSUME IngressInv, [IngressNext]_ingressVars
    PROVE  [Next]_vars
<1>1. CASE HandleFrame
  <2>1. PICK frame \in Frames :
           \/ UNCHANGED vars
           \/ frame.ts = 0 /\ CaptureHost(frame.at)
           \/ frame.ts # 0 /\ CaptureHardware(frame.ts, frame.at)
    <3>1. queue \in Seq(Frames) /\ queue # <<>>
      BY <1>1 DEF IngressInv, LinkTypeOK, HandleFrame, Dequeue
    <3>2. Head(queue) \in Frames
      BY <3>1
    <3> QED BY <1>1, <3>2 DEF HandleFrame
  <2>2. frame.at \in Time /\ frame.ts \in Timestamp
    BY FramesAssumption
  <2> QED BY <2>1, <2>2 DEF Next
<1>2. CASE ~HandleFrame
  <2>1. UNCHANGED vars
    BY <1>2 DEF IngressNext, ingressVars, Connect, GiveUp, Start, Loop, DrainTx, RecvTimeout, Poll, RecvFails,
                StopTx, CloseTransport, Tick, Arrive, RequestSelfTest
  <2> QED BY <2>1
<1> QED BY <1>1, <1>2

(* Whatever the task does to its adapter, connect(), close(), recv() and   *)
(* the callbacks do.                                                       *)
LEMMA AdapterStep ==
    ASSUME IngressInv, [IngressNext]_ingressVars
    PROVE  LinkTypeOK(Frames)' /\ Undoable'
<1>1. CASE Connect \/ CloseTransport
  <2>1. Connecting \/ Close \/ Closed
    BY <1>1 DEF Connect, CloseTransport
  <2> QED BY <2>1, LinkStep DEF IngressInv
<1>2. CASE HandleFrame \/ Arrive
  <2>1. UNCHANGED <<config, attempt, link, library, events, registry>>
    BY <1>2 DEF HandleFrame, Arrive, Callback
  <2>2. Dequeue \/ \E frame \in Frames : Callback(frame)
    BY <1>2 DEF HandleFrame, Arrive
  <2> QED BY <2>1, <2>2, FramesStep DEF IngressInv
<1>3. CASE ~(Connect \/ CloseTransport \/ HandleFrame \/ Arrive)
  <2>1. UNCHANGED linkVars
    BY <1>3 DEF IngressNext, ingressVars, GiveUp, Start, Loop, DrainTx, RecvTimeout, Poll, RecvFails,
                StopTx, Tick, RequestSelfTest
  <2> QED BY <2>1, FramesStep DEF IngressInv, linkVars
<1> QED BY <1>1, <1>2, <1>3

(* Every step keeps the alarms and their causes together.                  *)
LEMMA CoreStep ==
    ASSUME IngressInv, [IngressNext]_ingressVars
    PROVE  CoreInv'
<1>1. CASE Start
  BY <1>1, StartStep DEF IngressInv, TaskTypeOK
<1>2. CASE HandleFrame
  BY <1>2, HandleFrameStep DEF IngressInv, LinkTypeOK
<1>3. CASE Poll
  BY <1>3, PollStep DEF IngressInv
<1>4. CASE Tick
  BY <1>4, TickStep DEF IngressInv
<1>5. CASE ~(Start \/ HandleFrame \/ Poll \/ Tick)
  <2>1. UNCHANGED coreVars
    BY <1>5 DEF IngressNext, ingressVars, Connect, GiveUp, Loop, DrainTx, RecvTimeout, RecvFails,
                StopTx, CloseTransport, Arrive, RequestSelfTest
  <2>2. pc' = "connect" => pc = "connect"
    BY <1>5 DEF IngressNext, ingressVars, Connect, GiveUp, Loop, DrainTx, RecvTimeout, RecvFails,
                StopTx, CloseTransport, Arrive, RequestSelfTest
  <2> QED BY <2>1, <2>2, CoreKept DEF IngressInv
<1> QED BY <1>1, <1>2, <1>3, <1>4, <1>5

(* The transmit queue holds at most what was asked for.                    *)
LEMMA TaskStep ==
    ASSUME IngressInv, [IngressNext]_ingressVars
    PROVE  TaskTypeOK'
<1>1. TaskTypeOK /\ MaxRequests \in Nat
  BY IngressAssumption DEF IngressInv
<1>2. pc' \in {"connect", "drain", "recv", "poll", "stop", "close", "ended"}
  BY <1>1 DEF TaskTypeOK, IngressNext, ingressVars, Connect, GiveUp, Start, Tick, Arrive, Loop, DrainTx,
              HandleFrame, RecvTimeout, Poll, RecvFails, StopTx, CloseTransport, RequestSelfTest
<1>3. watching' = watching
  BY DEF IngressNext, ingressVars, Connect, GiveUp, Start, Tick, Arrive, Loop, DrainTx,
         HandleFrame, RecvTimeout, Poll, RecvFails, StopTx, CloseTransport, RequestSelfTest
<1>4. slot' = slot \/ slot' = TRUE \/ slot' = FALSE
  BY DEF IngressNext, ingressVars, txVars, Connect, GiveUp, Start, Tick, Arrive, Loop, DrainTx,
         HandleFrame, RecvTimeout, Poll, RecvFails, StopTx, CloseTransport, RequestSelfTest
<1>5. PICK e : e = "self test"
  OBVIOUS
<1>6. PICK R : R = SelfTests /\ e \in R
  BY <1>5 DEF SelfTests
<1>7. \/ outbox' \in {outbox, <<>>} /\ requested' = requested
      \/ /\ outbox' \in {outbox, Append(outbox, e)}
         /\ requested' = requested + 1 /\ requested < MaxRequests
  <2>1. CASE RequestSelfTest
    BY <1>5, <2>1 DEF RequestSelfTest
  <2>2. CASE ~RequestSelfTest
    BY <2>2 DEF IngressNext, ingressVars, txVars, Connect, GiveUp, Start, Tick, Arrive, Loop, DrainTx,
                HandleFrame, RecvTimeout, Poll, RecvFails, StopTx, CloseTransport
  <2> QED BY <2>1, <2>2
<1>8. requested' \in 0 .. MaxRequests /\ outbox' \in Seq(R) /\ Len(outbox') <= requested'
  <2>1. requested \in 0 .. MaxRequests /\ outbox \in Seq(R) /\ Len(outbox) <= requested
    BY <1>1, <1>6 DEF TaskTypeOK
  <2>2. CASE outbox' = outbox
    BY <1>1, <1>7, <2>1, <2>2
  <2>3. CASE outbox' = <<>> /\ requested' = requested
    BY <1>1, <2>1, <2>3
  <2>4. CASE outbox' = Append(outbox, e) /\ requested' = requested + 1 /\ requested < MaxRequests
    BY <1>1, <1>6, <2>1, <2>4
  <2> QED BY <1>7, <2>2, <2>3, <2>4
<1>9. slot' \in BOOLEAN
  BY <1>1, <1>4 DEF TaskTypeOK
<1> QED BY <1>1, <1>2, <1>3, <1>6, <1>8, <1>9, Zenon DEF TaskTypeOK

(* The invariant of the task.                                              *)
LEMMA AlwaysIngressInv == IngressSpec => []IngressInv
<1>1. IngressInv /\ [IngressNext]_ingressVars => IngressInv'
  <2> SUFFICES ASSUME IngressInv, [IngressNext]_ingressVars PROVE IngressInv'
    OBVIOUS
  <2>1. IInv'
    BY ClockStep, StepFacts DEF IngressInv
  <2> QED BY <2>1, AdapterStep, CoreStep, TaskStep DEF IngressInv
<1> QED BY <1>1, IngressInitial, PTL DEF IngressSpec

(* The task drives the clock of its channel as CanClock allows and no      *)
(* other way, whatever else it does: what is proved of the clock holds of  *)
(* the capture times it publishes.                                         *)
THEOREM IngressDrivesClock == IngressSpec => Spec
<1>1. IngressInit => Init
  BY DEF IngressInit
<1> QED BY <1>1, ClockStep, AlwaysIngressInv, PTL DEF IngressSpec, Spec

(* A failed attempt to open the adapter leaves nothing behind for the next *)
(* one, nor does a closed transport; and only the queue of the transport   *)
(* in use can be reached by the callbacks of the library.                  *)
THEOREM NothingIsLeftBehind == IngressSpec => []NothingLeftBehind
<1>1. IngressInv => NothingLeftBehind
  BY DEF IngressInv, Undoable, NothingLeftBehind
<1> QED BY <1>1, AlwaysIngressInv, PTL

(* An alarm of the ingress is on the bus exactly while its cause is there: *)
(* a SENT error that was reported and not withdrawn, a watched signal that *)
(* has been silent for the whole timeout.                                  *)
THEOREM IngressAlarmsTrue == IngressSpec => []AlarmsTrue
<1>1. IngressInv => AlarmsTrue
  <2> SUFFICES ASSUME IngressInv PROVE AlarmsTrue
    OBVIOUS
  <2>1. IngressTypeOK
    BY DEF IngressInv, IInv, CoreInv, CoreTypeOK, TaskTypeOK, IngressTypeOK
  <2>2. AlarmsAgree
    BY AgreeByCause DEF IngressInv, CoreInv
  <2>3. AlarmMeansSilence
    <3>1. ASSUME NEW t \in DOMAIN watchdogs, SilenceAlarms({t}) \subseteq alarms
          PROVE  quiet[t] >= Timeout
      <4>1. SilenceAlarm(t) \in alarms
        BY <3>1, AlarmSets
      <4> QED BY <4>1 DEF IngressInv, CoreInv, Causes, QuietIsAge
    <3> QED BY <3>1 DEF AlarmMeansSilence
  <2> QED BY <2>1, <2>2, <2>3 DEF AlarmsTrue
<1> QED BY <1>1, AlwaysIngressInv, PTL
=============================================================================

---------------------------- MODULE AlarmService ----------------------------
(***************************************************************************)
(* AlarmService (app/alarm_service.rs, domain/alarm.rs): samples are       *)
(* judged by detectors, thresholds change meanwhile, and every change of   *)
(* verdict is published on the bus as a raise or a clear.                  *)
(*                                                                         *)
(* The service is cloned freely, so several workers may judge samples at   *)
(* once.  A worker reads the thresholds, takes the detector's state lock,  *)
(* judges, and publishes the changes one by one before it lets the lock    *)
(* go; the CAN axis detector keeps its thresholds under that same lock.    *)
(* Detectors share neither locks nor state nor alarm ids, and their states *)
(* are kept per device and sensor: a behaviour follows one detector and    *)
(* one sensor.  Values are integers; a deviation from the mean of Window   *)
(* values is kept times Window, so it is exact.  The circular mean of      *)
(* angles is any angle, unless all its values are the same.                *)
(***************************************************************************)
EXTENDS Integers, Sequences, FiniteSets
LOCAL INSTANCE Functions

CONSTANTS
    Workers,        \* threads that judge samples
    NoWorker,
    Values,         \* values of the sensor; for frame gaps, the spacing
    Window,         \* SENT_JUMP_BASELINE_WINDOW
    Limits,         \* options of a threshold: {} is None, {x} is Some(x)
    Rules,          \* the rules that may be set for the sensor
    JumpArguments,  \* arguments of set_sent_jump_config
    GapArguments,   \* arguments of set_sent_frame_gap_config
    MaxTime         \* bound on the time of a sample

ASSUME ServiceAssumption ==
    /\ NoWorker \notin Workers
    /\ Values \subseteq Nat /\ GapArguments \subseteq Nat /\ MaxTime \in Nat
    /\ Window \in Nat \ {0}
    /\ {} \in Limits /\ \A l \in Limits : l \subseteq Int /\ Cardinality(l) <= 1
    /\ Rules \subseteq [high : Limits, highClear : Limits, low : Limits, lowClear : Limits]
    /\ JumpArguments \subseteq [warn : Int, red : Int, purple : Int, angle : Int]

VARIABLES
    detector,       \* the detector followed
    signal,         \* what the sensor measures
    clock,          \* t_sec of its last sample
    config,         \* the detector's thresholds
    state,          \* its state for this sensor
    lock,           \* the worker that holds its state lock
    task,           \* what each worker is doing
    active          \* the bus's active alarms: the level of each, or "Normal"

vars == <<detector, signal, clock, config, state, lock, task, active>>

Detectors == {"axis", "rule", "torque", "angle", "gap"}
Levels    == {"Normal", "Warning", "Critical", "Purple"}

\* The alarms of a detector, in the order it judges them.
BoundsOf(d) == IF d \in {"axis", "rule"} THEN <<"high", "low">> ELSE <<d>>
Alarms      == {BoundsOf(detector)[i] : i \in DOMAIN BoundsOf(detector)}

Idle == [at |-> "idle"]

-----------------------------------------------------------------------------
(* Thresholds. *)

Abs(x) == IF x < 0 THEN -x ELSE x
Larger(x, y) == IF x < y THEN y ELSE x

\* normalized: absolute values with warn <= red <= purple.
Normalized(c) ==
    LET warn == Abs(c.warn)
        red  == Larger(Abs(c.red), warn)
    IN  [warn |-> warn, red |-> red, purple |-> Larger(Abs(c.purple), red), angle |-> Abs(c.angle)]

InitialConfig(d) ==
    CASE d = "axis" -> {[high |-> {}, low |-> {}]}
      [] d = "rule" -> {{}}
      [] d \in {"torque", "angle"} -> {Normalized(c) : c \in JumpArguments}
      [] d = "gap" -> GapArguments \ {0}

-----------------------------------------------------------------------------
(* Windows of the last values. *)

EmptyRing == [values |-> [i \in 0 .. Window - 1 |-> 0], len |-> 0, next |-> 0]

\* push_history
Pushed(r, v) ==
    [values |-> [r.values EXCEPT ![r.next] = v],
     len    |-> IF r.len < Window THEN r.len + 1 ELSE Window,
     next   |-> (r.next + 1) % Window]

Ready(r) == r.len >= Window

\* Window times the distance of v from the mean.
Deviation(r, v) == Abs(v * Window - SumFunction(r.values))

\* level_for
LevelFor(c, deviation) ==
    IF deviation >= c.purple * Window THEN "Purple"
    ELSE IF deviation >= c.red * Window THEN "Critical"
    ELSE IF deviation > c.warn * Window THEN "Warning"
    ELSE "Normal"

\* angle_delta_abs is 0 when the window holds nothing but v.
AngleExceeds(r, v, red) ==
    IF \A i \in DOMAIN r.values : r.values[i] = v THEN {0 >= red} ELSE BOOLEAN

-----------------------------------------------------------------------------
(* Verdicts: the states a detector may have after a sample. *)

If(condition, level) == IF condition THEN level ELSE "Normal"

InitialState(d) ==
    [levels |-> [b \in {BoundsOf(d)[i] : i \in DOMAIN BoundsOf(d)} |-> "Normal"],
     ring   |-> EmptyRing,
     last   |-> {}]

\* Mutant: a bound that is disabled keeps its alarm.
AxisJudgedForgetting(s, c, v) ==
    [s EXCEPT !.levels = [high |-> IF c.high = {} THEN s.levels.high
                                   ELSE If(\E h \in c.high : v >= h, "Warning"),
                          low  |-> If(\E l \in c.low : v <= l, "Warning")]]

\* evaluate_thresholds
AxisJudged(s, c, v) ==
    [s EXCEPT !.levels = [high |-> If(\E h \in c.high : v >= h, "Warning"),
                          low  |-> If(\E l \in c.low : v <= l, "Warning")]]

\* unwrap_or
Or(option, default) == IF option = {} THEN default ELSE CHOOSE x \in option : TRUE

\* evaluate_high and evaluate_low: an active alarm ends at the clear threshold.
RuleJudged(s, r, v) ==
    LET above(h) == IF s.levels.high = "Normal" THEN v >= h ELSE v > Or(r.highClear, h)
        below(l) == IF s.levels.low = "Normal" THEN v <= l ELSE v < Or(r.lowClear, l)
    IN  [s EXCEPT !.levels = [high |-> If(\E h \in r.high : above(h), "Warning"),
                              low  |-> If(\E l \in r.low : below(l), "Warning")]]

\* SentTorqueJumpState::evaluate
TorqueJudged(s, c, v) ==
    [s EXCEPT !.levels.torque = IF Ready(s.ring) THEN LevelFor(c, Deviation(s.ring, v)) ELSE @,
              !.ring = Pushed(@, v)]

\* SentAngleJumpState::evaluate
AngleJudged(s, c, v) ==
    {[s EXCEPT !.levels.angle = IF Ready(s.ring) THEN If(exceeds, "Critical") ELSE @,
               !.ring = Pushed(@, v)] : exceeds \in AngleExceeds(s.ring, v, c.angle)}

\* evaluate_sent_frame_gap: neither the first sample nor one of a clock that
\* went back is judged.
GapJudged(s, threshold, t) ==
    [s EXCEPT !.levels.gap = IF \E last \in s.last : t >= last
                             THEN If(\E last \in s.last : t - last > threshold, "Warning")
                             ELSE @,
              !.last = {t}]

Judged(s, c, sample) ==
    CASE detector = "axis"   -> {AxisJudged(s, c, sample.value)}
      [] detector = "rule"   -> {RuleJudged(s, r, sample.value) : r \in c}
      [] detector = "torque" -> {TorqueJudged(s, c, sample.value)}
      [] detector = "angle"  -> AngleJudged(s, c, sample.value)
      [] detector = "gap"    -> {GapJudged(s, c, sample.time)}

\* Mutant: a raise of another level is not preceded by a clear.
ChangesWithoutClear(b, old, new) ==
    IF old = new THEN <<>> ELSE <<[alarm |-> b, level |-> new]>>

\* What is published when alarm b goes from level old to level new.
Changes(b, old, new) ==
    LET clear == [alarm |-> b, level |-> "Normal"]
        raise == [alarm |-> b, level |-> new]
    IN  CASE old = new -> <<>>
          [] old # new /\ old = "Normal" -> <<raise>>
          [] old # new /\ new = "Normal" -> <<clear>>
          [] OTHER -> <<clear, raise>>

EventsOf(old, new) ==
    LET of(i) == Changes(BoundsOf(detector)[i], old.levels[BoundsOf(detector)[i]],
                         new.levels[BoundsOf(detector)[i]])
    IN  IF detector \in {"axis", "rule"} THEN of(1) \o of(2) ELSE of(1)

-----------------------------------------------------------------------------

Init ==
    /\ detector \in Detectors
    /\ signal \in Values /\ clock = 0
    /\ config \in InitialConfig(detector)
    /\ state = InitialState(detector)
    /\ lock = NoWorker
    /\ task = [w \in Workers |-> Idle]
    /\ active = [a \in Alarms |-> "Normal"]

\* The sensor's value, or the spacing of its frames, changes.
Change(v) ==
    /\ v # signal
    /\ signal' = v
    /\ UNCHANGED <<detector, clock, config, state, lock, task, active>>

\* set_can_axis_thresholds waits for the state lock; it refuses a low
\* threshold that is not below the high one.
SetAxis(high, low) ==
    /\ detector = "axis" /\ lock = NoWorker
    /\ \A h \in high, l \in low : l < h
    /\ config' = [high |-> high, low |-> low]
    /\ UNCHANGED <<detector, signal, clock, state, lock, task, active>>

\* set_rule: the rules of a sensor all have one name.
SetRule(r) ==
    /\ detector = "rule"
    /\ config' = {r}
    /\ UNCHANGED <<detector, signal, clock, state, lock, task, active>>

SetJump(c) ==
    /\ detector \in {"torque", "angle"}
    /\ config' = Normalized(c)
    /\ UNCHANGED <<detector, signal, clock, state, lock, task, active>>

SetGap(threshold) ==
    /\ detector = "gap" /\ threshold # 0
    /\ config' = threshold
    /\ UNCHANGED <<detector, signal, clock, state, lock, task, active>>

\* The next sample's time: the spacing later, or less when the device starts
\* its clock again.
NextTimes == {t \in {clock + signal} : t <= MaxTime} \cup {t \in {0} : t < clock}

\* evaluate_sample begins.
Take(w) ==
    /\ task[w] = Idle
    /\ IF detector = "gap" THEN clock' \in NextTimes ELSE UNCHANGED clock
    /\ task' = [task EXCEPT ![w] =
                    [at |-> IF detector = "axis" THEN "judging" ELSE "reading",
                     sample |-> [value |-> signal, time |-> clock']]]
    /\ UNCHANGED <<detector, signal, config, state, lock, active>>

\* The thresholds are read, under a lock of their own.
Read(w) ==
    /\ task[w].at = "reading"
    /\ task' = [task EXCEPT ![w] =
                    IF detector = "rule" /\ config = {} THEN Idle
                    ELSE [at |-> "judging", sample |-> @.sample, config |-> config]]
    /\ UNCHANGED <<detector, signal, clock, config, state, lock, active>>

\* The thresholds worker w judges by.
ConfigFor(w) == IF detector = "axis" THEN config ELSE task[w].config

\* Mutant: the lock is let go before the changes are published.
JudgeReleasing(w) ==
    /\ task[w].at = "judging" /\ lock = NoWorker
    /\ \E new \in Judged(state, ConfigFor(w), task[w].sample) :
          /\ state' = new
          /\ task' = [task EXCEPT ![w] = IF EventsOf(state, new) = <<>> THEN Idle
                                         ELSE [at |-> "publishing",
                                               events |-> EventsOf(state, new)]]
    /\ UNCHANGED <<detector, signal, clock, config, lock, active>>

\* The sample is judged under the state lock, which is kept while there is
\* anything to publish.
Judge(w) ==
    /\ task[w].at = "judging" /\ lock = NoWorker
    /\ \E new \in Judged(state, ConfigFor(w), task[w].sample) :
          /\ state' = new
          /\ IF EventsOf(state, new) = <<>>
             THEN task' = [task EXCEPT ![w] = Idle] /\ UNCHANGED lock
             ELSE /\ task' = [task EXCEPT ![w] = [at |-> "publishing",
                                                  events |-> EventsOf(state, new)]]
                  /\ lock' = w
    /\ UNCHANGED <<detector, signal, clock, config, active>>

\* EventBus::publish of one change; the last one frees the lock.
Publish(w) ==
    /\ task[w].at = "publishing"
    /\ LET event == Head(task[w].events)
           rest  == Tail(task[w].events)
       IN  /\ active' = [active EXCEPT ![event.alarm] = event.level]
           /\ IF rest = <<>>
              THEN task' = [task EXCEPT ![w] = Idle] /\ lock' = NoWorker
              ELSE task' = [task EXCEPT ![w].events = rest] /\ UNCHANGED lock
    /\ UNCHANGED <<detector, signal, clock, config, state>>

Next ==
    \/ \E v \in Values : Change(v)
    \/ \E high, low \in Limits : SetAxis(high, low)
    \/ \E r \in Rules : SetRule(r)
    \/ \E c \in JumpArguments : SetJump(c)
    \/ \E threshold \in GapArguments : SetGap(threshold)
    \/ \E w \in Workers : Take(w) \/ Read(w) \/ Judge(w) \/ Publish(w)

Spec == Init /\ [][Next]_vars

(* Samples keep coming to some worker, and a worker that has one goes on;  *)
(* a lock asked for again and again is had.                                *)
Fairness ==
    /\ WF_vars(\E w \in Workers : Take(w))
    /\ \A w \in Workers : WF_vars(Read(w)) /\ SF_vars(Judge(w)) /\ WF_vars(Publish(w))

FairSpec == Spec /\ Fairness

-----------------------------------------------------------------------------

Events == [alarm : Alarms, level : Levels]

Rings == [values : [0 .. Window - 1 -> Values \cup {0}],
          len : 0 .. Window, next : 0 .. Window - 1]

Samples == [value : Values, time : 0 .. MaxTime]

Configs ==
    CASE detector = "axis" -> {c \in [high : Limits, low : Limits] :
                                  \A h \in c.high, l \in c.low : l < h}
      [] detector = "rule" -> {{}} \cup {{r} : r \in Rules}
      [] detector \in {"torque", "angle"} ->
            {c \in [warn : Nat, red : Nat, purple : Nat, angle : Nat] :
                c.warn <= c.red /\ c.red <= c.purple}
      [] detector = "gap" -> GapArguments \ {0}

TypeOK ==
    /\ detector \in Detectors
    /\ signal \in Values /\ clock \in 0 .. MaxTime
    /\ config \in Configs
    /\ state \in [levels : [Alarms -> Levels], ring : Rings,
                  last : {{}} \cup {{t} : t \in 0 .. MaxTime}]
    /\ lock \in Workers \cup {NoWorker}
    /\ DOMAIN task = Workers
    /\ \A w \in Workers :
          \/ task[w] = Idle
          \/ /\ task[w].at \in {"reading", "judging"} /\ task[w].sample \in Samples
             /\ task[w].at = "judging" => ConfigFor(w) \in Configs
          \/ task[w] \in [at : {"publishing"}, events : Seq(Events) \ {<<>>}]
    /\ active \in [Alarms -> Levels]

\* The last of these changes of alarm a is to this level.
LeadsTo(events, a, level) ==
    \E i \in DOMAIN events :
        /\ events[i] = [alarm |-> a, level |-> level]
        /\ \A j \in DOMAIN events : events[j].alarm = a => j <= i

(* The bus and the detector agree: an alarm is active, at the detector's   *)
(* level, as soon as the worker that judged last has published, whoever    *)
(* judges meanwhile ("Publish before another sample can change this        *)
(* state", evaluate_rule_sample).                                          *)
BusAgrees ==
    /\ TypeOK
    /\ \A a \in Alarms :
          \/ active[a] = state.levels[a]
          \/ \E w \in Workers :
                /\ lock = w /\ task[w].at = "publishing"
                /\ LeadsTo(task[w].events, a, state.levels[a])

(* On the bus the raises and clears of an alarm take turns: every event a  *)
(* worker publishes clears an alarm that is active there or raises one     *)
(* that is not, whatever the other workers judged and published since the  *)
(* worker read its sample (evaluate_*_sample, EventBus::publish).          *)
RaisesAndClearsAlternate ==
    [][\A w \in Workers : task[w].at = "publishing" /\ task'[w] # task[w] =>
           LET event == Head(task[w].events)
           IN  active[event.alarm] = "Normal" <=> event.level # "Normal"]_vars

\* Whether the alarms are right for a lasting signal under lasting thresholds.
\* A rule whose clear threshold is its trigger never rests there.
Right ==
    CASE detector = "axis" ->
            /\ active["high"] # "Normal" <=> \E h \in config.high : signal >= h
            /\ active["low"] # "Normal" <=> \E l \in config.low : signal <= l
      [] detector = "rule" ->
            \A r \in config :
                /\ r.high = {} => active["high"] = "Normal"
                /\ r.low = {} => active["low"] = "Normal"
                /\ \A h \in r.high :
                      /\ signal < h /\ signal <= Or(r.highClear, h) => active["high"] = "Normal"
                      /\ signal >= h /\ signal > Or(r.highClear, h) => active["high"] # "Normal"
                /\ \A l \in r.low :
                      /\ signal > l /\ signal >= Or(r.lowClear, l) => active["low"] = "Normal"
                      /\ signal <= l /\ signal < Or(r.lowClear, l) => active["low"] # "Normal"
      [] detector = "torque" -> config.red > 0 => active["torque"] = "Normal"
      [] detector = "angle" -> config.angle > 0 => active["angle"] = "Normal"
      [] detector = "gap" -> active["gap"] # "Normal" <=> signal > config

(* Whatever was published, whichever thresholds were read before and after *)
(* they changed: once the signal and the thresholds rest and one worker    *)
(* judges, the alarms come to be right and stay so.                        *)
Settles ==
    /\ <>[][UNCHANGED <<signal, config>>]_vars
    /\ \E w \in Workers : <>[](\A u \in Workers \ {w} : task[u] = Idle)
    => <>[]Right
=============================================================================

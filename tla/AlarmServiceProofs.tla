------------------------- MODULE AlarmServiceProofs -------------------------
(***************************************************************************)
(* Theorems about AlarmService, for any workers, thresholds, rules and     *)
(* windows: the bus never disagrees with the detector once the changes of  *)
(* the worker that judged last are published, and the raises and clears of *)
(* an alarm take turns.                                                    *)
(***************************************************************************)
EXTENDS AlarmService, SequenceTheorems, TLAPS

(* The changes left to publish, between the levels on the bus and those of *)
(* the detector: an alarm without a change is at its level, the last       *)
(* change of an alarm leads to its level, the first one starts from where  *)
(* the bus is, and of two changes of an alarm the first is the clear and   *)
(* the second the raise.                                                   *)
NoneMissing(bus, levels, events) ==
    \A a \in Alarms : (\A i \in DOMAIN events : events[i].alarm # a) => bus[a] = levels[a]

EndsAtLevel(levels, events) ==
    \A i \in DOMAIN events :
        (\A j \in DOMAIN events : events[j].alarm = events[i].alarm => j <= i)
            => events[i].level = levels[events[i].alarm]

StartsFromBus(bus, events) ==
    \A i \in DOMAIN events :
        (\A j \in DOMAIN events : events[j].alarm = events[i].alarm => i <= j)
            => (bus[events[i].alarm] = "Normal" <=> events[i].level # "Normal")

ClearThenRaise(events) ==
    \A i, j \in DOMAIN events :
        i < j /\ events[i].alarm = events[j].alarm
            => events[i].level = "Normal" /\ events[j].level # "Normal"

Between(bus, levels, events) ==
    /\ NoneMissing(bus, levels, events)
    /\ EndsAtLevel(levels, events)
    /\ StartsFromBus(bus, events)
    /\ ClearThenRaise(events)

(* The worker that publishes holds the lock, and nobody else does; without *)
(* one the bus agrees with the detector.                                   *)
PublisherLocks == \A w \in Workers : task[w].at = "publishing" <=> lock = w

OnTheBus ==
    /\ lock = NoWorker => active = state.levels
    /\ \A w \in Workers : lock = w => Between(active, state.levels, task[w].events)

IInv == TypeOK /\ PublisherLocks /\ OnTheBus

-----------------------------------------------------------------------------
(* Types. *)

(* The alarms of each detector.                                            *)
LEMMA AlarmNames ==
    ASSUME detector \in Detectors
    PROVE  /\ detector \in {"axis", "rule"} => Alarms = {"high", "low"}
           /\ detector \notin {"axis", "rule"} => Alarms = {detector}
<1>1. CASE detector \in {"axis", "rule"}
    <2>1. BoundsOf(detector) = <<"high", "low">>
        BY <1>1 DEF BoundsOf
    <2>2. DOMAIN BoundsOf(detector) = 1 .. 2 /\ 1 .. 2 = {1, 2}
        BY <2>1
    <2>3. QED
        BY <1>1, <2>1, <2>2 DEF Alarms
<1>2. CASE detector \notin {"axis", "rule"}
    <2>1. BoundsOf(detector) = <<detector>>
        BY <1>2 DEF BoundsOf
    <2>2. DOMAIN BoundsOf(detector) = 1 .. 1 /\ 1 .. 1 = {1}
        BY <2>1
    <2>3. QED
        BY <1>2, <2>1, <2>2 DEF Alarms
<1>3. QED
    BY <1>1, <1>2

(* Absolute values and the larger of two values.                           *)
LEMMA Magnitudes ==
    /\ \A x \in Int : Abs(x) \in Nat
    /\ \A x, y \in Nat : Larger(x, y) \in Nat /\ x <= Larger(x, y) /\ y <= Larger(x, y)
BY DEF Abs, Larger

(* Normalized thresholds are in order.                                     *)
LEMMA NormalizedOrder ==
    ASSUME NEW c \in JumpArguments
    PROVE  LET n == Normalized(c) IN
           /\ n \in [warn : Nat, red : Nat, purple : Nat, angle : Nat]
           /\ n.warn <= n.red /\ n.red <= n.purple
<1>1. c.warn \in Int /\ c.red \in Int /\ c.purple \in Int /\ c.angle \in Int
    BY ServiceAssumption
<1> DEFINE warn == Abs(c.warn)
           red == Larger(Abs(c.red), warn)
           purple == Larger(Abs(c.purple), red)
<1>2. warn \in Nat /\ red \in Nat /\ warn <= red
    BY <1>1, Magnitudes
<1>3. purple \in Nat /\ red <= purple /\ Abs(c.angle) \in Nat
    BY <1>1, <1>2, Magnitudes
<1>4. Normalized(c) = [warn |-> warn, red |-> red, purple |-> purple, angle |-> Abs(c.angle)]
    BY DEF Normalized
<1> HIDE DEF warn, red, purple
<1>5. QED
    BY <1>2, <1>3, <1>4

(* A window that receives a value of the sensor is a window.               *)
LEMMA PushedType ==
    ASSUME NEW r \in Rings, NEW v \in Values
    PROVE  Pushed(r, v) \in Rings
<1>1. Window \in Nat /\ Window > 0
    BY ServiceAssumption
<1>2. r.values \in [0 .. Window - 1 -> Values \cup {0}] /\ r.next \in 0 .. Window - 1
    /\ r.len \in 0 .. Window
    BY DEF Rings
<1>3. [r.values EXCEPT ![r.next] = v] \in [0 .. Window - 1 -> Values \cup {0}]
    BY <1>2
<1>4. (r.next + 1) % Window \in 0 .. Window - 1
    BY <1>1, <1>2
<1>5. (IF r.len < Window THEN r.len + 1 ELSE Window) \in 0 .. Window
    BY <1>1, <1>2
<1>6. QED
    BY <1>3, <1>4, <1>5 DEF Pushed, Rings

\* The states of a detector.
States == [levels : [Alarms -> Levels], ring : Rings,
           last : {{}} \cup {{t} : t \in 0 .. MaxTime}]

(* A judgement of the detector gives a state of it.                        *)
LEMMA JudgedType ==
    ASSUME detector \in Detectors, NEW s \in States, NEW c \in Configs,
           NEW sample \in Samples, NEW new \in Judged(s, c, sample)
    PROVE  new \in States
<1> DEFINE two(h, l) == [s EXCEPT !.levels = [high |-> h, low |-> l]]
<1>0. sample.value \in Values /\ sample.time \in 0 .. MaxTime
    BY DEF Samples
<1>1. \A condition : If(condition, "Warning") \in Levels /\ If(condition, "Critical") \in Levels
    BY DEF If, Levels
<1>2. \A h, l \in Levels : detector \in {"axis", "rule"} => two(h, l) \in States
    <2> SUFFICES ASSUME NEW h \in Levels, NEW l \in Levels, detector \in {"axis", "rule"}
                 PROVE  two(h, l) \in States
        OBVIOUS
    <2>1. [high |-> h, low |-> l] \in [{"high", "low"} -> Levels]
        OBVIOUS
    <2>2. [high |-> h, low |-> l] \in [Alarms -> Levels]
        BY <2>1, AlarmNames
    <2>3. QED
        BY <2>2 DEF States
<1> HIDE DEF two
<1>3. CASE detector = "axis"
    <2>1. new = AxisJudged(s, c, sample.value)
        BY <1>3 DEF Judged
    <2>2. new = two(If(\E h \in c.high : sample.value >= h, "Warning"),
                    If(\E l \in c.low : sample.value <= l, "Warning"))
        BY <2>1 DEF AxisJudged, two
    <2>3. QED
        BY <1>1, <1>2, <1>3, <2>2
<1>4. CASE detector = "rule"
    <2>1. PICK r \in c : new = RuleJudged(s, r, sample.value)
        BY <1>4 DEF Judged
    <2>2. \E p, q : new = two(If(p, "Warning"), If(q, "Warning"))
        BY <2>1 DEF RuleJudged, two
    <2>3. QED
        BY <1>1, <1>2, <1>4, <2>2
<1>5. CASE detector = "torque"
    <2>1. new = TorqueJudged(s, c, sample.value)
        BY <1>5 DEF Judged
    <2>2. /\ s.ring \in Rings /\ s.levels \in [Alarms -> Levels]
          /\ s.last \in {{}} \cup {{t} : t \in 0 .. MaxTime}
        BY DEF States
    <2>3. \A d : LevelFor(c, d) \in Levels
        BY DEF LevelFor, Levels
    <2>4. PICK level : level = IF Ready(s.ring) THEN LevelFor(c, Deviation(s.ring, sample.value))
                               ELSE s.levels.torque
        OBVIOUS
    <2>5. "torque" \in Alarms
        BY <1>5, AlarmNames
    <2>6. level \in Levels
        BY <2>2, <2>3, <2>4, <2>5
    <2>7. new = [s EXCEPT !.levels.torque = level, !.ring = Pushed(s.ring, sample.value)]
        BY <2>1, <2>4 DEF TorqueJudged
    <2>8. new = [levels |-> [s.levels EXCEPT !["torque"] = level],
                 ring |-> Pushed(s.ring, sample.value), last |-> s.last]
        BY <2>7 DEF States
    <2>9. QED
        BY <1>0, <2>2, <2>6, <2>8, PushedType DEF States
<1>6. CASE detector = "angle"
    <2>1. PICK exceeds \in AngleExceeds(s.ring, sample.value, c.angle) :
             new = [s EXCEPT !.levels.angle = IF Ready(s.ring) THEN If(exceeds, "Critical") ELSE @,
                             !.ring = Pushed(@, sample.value)]
        BY <1>6 DEF Judged, AngleJudged
    <2>2. /\ s.ring \in Rings /\ s.levels \in [Alarms -> Levels]
          /\ s.last \in {{}} \cup {{t} : t \in 0 .. MaxTime}
        BY DEF States
    <2>4. PICK level : level = IF Ready(s.ring) THEN If(exceeds, "Critical") ELSE s.levels.angle
        OBVIOUS
    <2>5. "angle" \in Alarms
        BY <1>6, AlarmNames
    <2>6. level \in Levels
        BY <1>1, <2>2, <2>4, <2>5
    <2>7. new = [s EXCEPT !.levels.angle = level, !.ring = Pushed(s.ring, sample.value)]
        BY <2>1, <2>4
    <2>8. new = [levels |-> [s.levels EXCEPT !["angle"] = level],
                 ring |-> Pushed(s.ring, sample.value), last |-> s.last]
        BY <2>7 DEF States
    <2>9. QED
        BY <1>0, <2>2, <2>6, <2>8, PushedType DEF States
<1>7. CASE detector = "gap"
    <2>1. new = GapJudged(s, c, sample.time)
        BY <1>7 DEF Judged
    <2>2. s.ring \in Rings /\ s.levels \in [Alarms -> Levels]
        BY DEF States
    <2>3. PICK level : level = IF \E last \in s.last : sample.time >= last
                               THEN If(\E last \in s.last : sample.time - last > c, "Warning")
                               ELSE s.levels.gap
        OBVIOUS
    <2>4. "gap" \in Alarms
        BY <1>7, AlarmNames
    <2>5. level \in Levels
        BY <1>1, <2>2, <2>3, <2>4
    <2>6. new = [s EXCEPT !.levels.gap = level, !.last = {sample.time}]
        BY <2>1, <2>3 DEF GapJudged
    <2>7. new = [levels |-> [s.levels EXCEPT !["gap"] = level], ring |-> s.ring,
                 last |-> {sample.time}]
        BY <2>6 DEF States
    <2>8. QED
        BY <1>0, <2>2, <2>5, <2>7 DEF States
<1>8. QED
    BY <1>3, <1>4, <1>5, <1>6, <1>7 DEF Detectors

-----------------------------------------------------------------------------
(* The changes of a judgement. *)

(* Positions of a sequence, and sequences over a larger set.               *)
LEMMA Positions ==
    ASSUME NEW S, NEW T, S \subseteq T, NEW s \in Seq(S)
    PROVE  /\ s \in Seq(T) /\ Len(s) \in Nat /\ DOMAIN s = 1 .. Len(s)
           /\ s # <<>> => 1 \in DOMAIN s /\ Len(s) \in DOMAIN s /\ Len(s) # 0
           /\ s = <<>> => Len(s) = 0
           /\ \A i \in DOMAIN s : s[i] \in S
OBVIOUS

\* The changes of one alarm.
Own(b) == [alarm : {b}, level : Levels]

\* The changes s lead alarm b from one level to another.
LeadsOver(b, old, new, s) ==
    /\ s \in Seq(Own(b))
    /\ s = <<>> => old = new
    /\ s # <<>> => /\ s[Len(s)].level = new
                   /\ old = "Normal" <=> s[1].level # "Normal"
    /\ \A i, j \in DOMAIN s : i < j => s[i].level = "Normal" /\ s[j].level # "Normal"

(* What is published of one alarm: nothing if its level stays, else events *)
(* that lead to the new level, a clear before a raise.                     *)
LEMMA ChangesOfOne ==
    \A b : \A x, y \in Levels : LeadsOver(b, x, y, Changes(b, x, y))
<1> SUFFICES ASSUME NEW b, NEW old \in Levels, NEW new \in Levels,
                    NEW s, s = Changes(b, old, new)
             PROVE  LeadsOver(b, old, new, s)
    OBVIOUS
<1> DEFINE clear == [alarm |-> b, level |-> "Normal"]
           raise == [alarm |-> b, level |-> new]
<1>0. clear \in Own(b) /\ raise \in Own(b)
    BY DEF Own, Levels
<1>1. CASE old = new
    BY <1>1 DEF Changes, LeadsOver
<1>2. CASE old # new /\ (old = "Normal" \/ new = "Normal")
    <2>1. s = <<raise>>
        BY <1>2 DEF Changes, LeadsOver
    <2>2. Len(s) = 1 /\ DOMAIN s = {1} /\ s[1] = raise /\ s # <<>>
        BY <2>1
    <2>3. raise.level = new
        OBVIOUS
    <2>4. s \in Seq(Own(b))
        BY <1>0, <2>1
    <2>5. \A i, j \in DOMAIN s : ~(i < j)
        BY <2>2
    <2>6. QED
        BY <1>2, <2>2, <2>3, <2>4, <2>5 DEF LeadsOver
<1>3. CASE old # new /\ old # "Normal" /\ new # "Normal"
    <2>1. s = <<clear, raise>>
        BY <1>3 DEF Changes, LeadsOver
    <2>2. Len(s) = 2 /\ DOMAIN s = 1 .. 2 /\ s[1] = clear /\ s[2] = raise /\ s # <<>>
        BY <2>1
    <2>3. raise.level = new /\ clear.level = "Normal"
        OBVIOUS
    <2>4. s \in Seq(Own(b))
        BY <1>0, <2>1
    <2>5. \A i, j \in DOMAIN s : i < j => i = 1 /\ j = 2
        BY <2>2
    <2>6. QED
        BY <1>3, <2>2, <2>3, <2>4, <2>5 DEF LeadsOver
<1>4. QED
    BY <1>1, <1>2, <1>3

(* What a judgement publishes lies between the old levels and the new.     *)
LEMMA EventsBetween ==
    ASSUME detector \in Detectors, NEW old, NEW new,
           old.levels \in [Alarms -> Levels], new.levels \in [Alarms -> Levels]
    PROVE  /\ EventsOf(old, new) \in Seq(Events)
           /\ Between(old.levels, new.levels, EventsOf(old, new))
<1>1. CASE detector \notin {"axis", "rule"}
    <2> DEFINE s == Changes(detector, old.levels[detector], new.levels[detector])
    <2>1. Alarms = {detector}
        BY <1>1, AlarmNames
    <2>2. BoundsOf(detector)[1] = detector /\ EventsOf(old, new) = s
        BY <1>1 DEF EventsOf, BoundsOf
    <2>3. /\ old.levels[detector] \in Levels /\ new.levels[detector] \in Levels
          /\ s = Changes(detector, old.levels[detector], new.levels[detector])
        BY <2>1
    <2> HIDE DEF s
    <2>4. /\ s \in Seq(Own(detector))
          /\ s = <<>> => old.levels[detector] = new.levels[detector]
          /\ s # <<>> => /\ s[Len(s)].level = new.levels[detector]
                         /\ old.levels[detector] = "Normal" <=> s[1].level # "Normal"
          /\ \A i, j \in DOMAIN s : i < j => s[i].level = "Normal" /\ s[j].level # "Normal"
        <3>1. LeadsOver(detector, old.levels[detector], new.levels[detector], s)
            BY <2>3, ChangesOfOne
        <3>2. QED
            BY <3>1 DEF LeadsOver
    <2>5. Own(detector) = Events
        BY <2>1 DEF Events, Own
    <2>6a. /\ Len(s) \in Nat /\ DOMAIN s = 1 .. Len(s)
           /\ s # <<>> => 1 \in DOMAIN s /\ Len(s) \in DOMAIN s
           /\ \A i \in DOMAIN s : s[i] \in Own(detector)
        BY <2>4, Positions
    <2>6. \A i \in DOMAIN s : s[i].alarm = detector /\ 1 \in DOMAIN s /\ Len(s) \in DOMAIN s
                              /\ 1 <= i /\ i <= Len(s) /\ i \in Nat
        BY <2>6a DEF Own
    <2>7. NoneMissing(old.levels, new.levels, s)
        BY <2>1, <2>4, <2>6, <2>6a DEF NoneMissing
    <2>8. EndsAtLevel(new.levels, s)
        <3> SUFFICES ASSUME NEW i \in DOMAIN s,
                            \A j \in DOMAIN s : s[j].alarm = s[i].alarm => j <= i
                     PROVE  s[i].level = new.levels[s[i].alarm]
            BY DEF EndsAtLevel
        <3>1. Len(s) <= i
            BY <2>6
        <3>2. i = Len(s) /\ s # <<>>
            BY <2>4, <2>6, <3>1
        <3>3. QED
            BY <2>4, <2>6, <3>2
    <2>9. StartsFromBus(old.levels, s)
        <3> SUFFICES ASSUME NEW i \in DOMAIN s,
                            \A j \in DOMAIN s : s[j].alarm = s[i].alarm => i <= j
                     PROVE  old.levels[s[i].alarm] = "Normal" <=> s[i].level # "Normal"
            BY DEF StartsFromBus
        <3>1. i <= 1
            BY <2>6
        <3>2. i = 1 /\ s # <<>>
            BY <2>4, <2>6, <3>1
        <3>3. QED
            BY <2>4, <2>6, <3>2
    <2>10. ClearThenRaise(s)
        BY <2>4 DEF ClearThenRaise
    <2>11. QED
        BY <2>2, <2>4, <2>5, <2>7, <2>8, <2>9, <2>10 DEF Between
<1>2. CASE detector \in {"axis", "rule"}
    <2> DEFINE s == Changes("high", old.levels["high"], new.levels["high"])
               t == Changes("low", old.levels["low"], new.levels["low"])
               both == s \o t
    <2>1. Alarms = {"high", "low"}
        BY <1>2, AlarmNames
    <2>2. EventsOf(old, new) = both
        BY <1>2 DEF EventsOf, BoundsOf
    <2>3. /\ old.levels["high"] \in Levels /\ new.levels["high"] \in Levels
          /\ old.levels["low"] \in Levels /\ new.levels["low"] \in Levels
          /\ s = Changes("high", old.levels["high"], new.levels["high"])
          /\ t = Changes("low", old.levels["low"], new.levels["low"])
        BY <2>1
    <2> HIDE DEF s, t
    <2>4. /\ s \in Seq(Own("high"))
          /\ s = <<>> => old.levels["high"] = new.levels["high"]
          /\ s # <<>> => /\ s[Len(s)].level = new.levels["high"]
                         /\ old.levels["high"] = "Normal" <=> s[1].level # "Normal"
          /\ \A i, j \in DOMAIN s : i < j => s[i].level = "Normal" /\ s[j].level # "Normal"
        <3>1. LeadsOver("high", old.levels["high"], new.levels["high"], s)
            BY <2>3, ChangesOfOne
        <3>2. QED
            BY <3>1 DEF LeadsOver
    <2>5. /\ t \in Seq(Own("low"))
          /\ t = <<>> => old.levels["low"] = new.levels["low"]
          /\ t # <<>> => /\ t[Len(t)].level = new.levels["low"]
                         /\ old.levels["low"] = "Normal" <=> t[1].level # "Normal"
          /\ \A i, j \in DOMAIN t : i < j => t[i].level = "Normal" /\ t[j].level # "Normal"
        <3>1. LeadsOver("low", old.levels["low"], new.levels["low"], t)
            BY <2>3, ChangesOfOne
        <3>2. QED
            BY <3>1 DEF LeadsOver
    <2>6. s \in Seq(Events) /\ t \in Seq(Events)
        <3>1. Own("high") \subseteq Events /\ Own("low") \subseteq Events
            BY <2>1 DEF Events, Own
        <3>2. QED
            BY <2>4, <2>5, <3>1, Positions
    <2>7. both \in Seq(Events)
        BY <2>6
    <2> DEFINE m == Len(s)
               n == Len(t)
    <2>8. m \in Nat /\ n \in Nat /\ DOMAIN s = 1 .. m /\ DOMAIN t = 1 .. n
          /\ DOMAIN both = 1 .. m + n
        BY <2>6
    <2>9. /\ \A i \in 1 .. m : both[i] = s[i]
          /\ \A i \in m + 1 .. m + n : both[i] = t[i - m]
        BY <2>6, <2>8
    <2>10. \A i \in 1 .. m : s[i].alarm = "high"
        <3>1. \A i \in 1 .. m : s[i] \in Own("high")
            BY <2>4, <2>8, Positions
        <3>2. QED
            BY <3>1 DEF Own
    <2>11. \A j \in 1 .. n : t[j].alarm = "low"
        <3>1. \A j \in 1 .. n : t[j] \in Own("low")
            BY <2>5, <2>8, Positions
        <3>2. QED
            BY <3>1 DEF Own
    <2>12. (m = 0 => s = <<>>) /\ (n = 0 => t = <<>>)
        BY <2>6, Positions DEF m, n
    <2> HIDE DEF m, n, both
    <2>13. \A i \in DOMAIN both :
              \/ i \in 1 .. m /\ both[i] = s[i] /\ both[i].alarm = "high"
              \/ /\ i \in m + 1 .. m + n /\ i - m \in 1 .. n
                 /\ both[i] = t[i - m] /\ both[i].alarm = "low"
        <3> TAKE i \in DOMAIN both
        <3>1. i \in 1 .. m \/ (i \in m + 1 .. m + n /\ i - m \in 1 .. n)
            BY <2>8
        <3>2. QED
            BY <2>9, <2>10, <2>11, <3>1
    <2>14. /\ m # 0 => /\ 1 \in DOMAIN both /\ both[1] = s[1] /\ both[1].alarm = "high"
                       /\ m \in DOMAIN both /\ both[m] = s[m] /\ both[m].alarm = "high"
           /\ n # 0 => /\ m + 1 \in DOMAIN both /\ both[m + 1] = t[1] /\ both[m + 1].alarm = "low"
                       /\ m + n \in DOMAIN both /\ both[m + n] = t[n] /\ both[m + n].alarm = "low"
        <3>1. ASSUME m # 0
              PROVE  /\ 1 \in DOMAIN both /\ both[1] = s[1] /\ both[1].alarm = "high"
                     /\ m \in DOMAIN both /\ both[m] = s[m] /\ both[m].alarm = "high"
            <4>1. 1 \in 1 .. m /\ m \in 1 .. m /\ 1 \in DOMAIN both /\ m \in DOMAIN both
                BY <2>8, <3>1
            <4>2. QED
                BY <2>9, <2>10, <4>1
        <3>2. ASSUME n # 0
              PROVE  /\ m + 1 \in DOMAIN both /\ both[m + 1] = t[1] /\ both[m + 1].alarm = "low"
                     /\ m + n \in DOMAIN both /\ both[m + n] = t[n] /\ both[m + n].alarm = "low"
            <4>1. /\ m + 1 \in m + 1 .. m + n /\ m + n \in m + 1 .. m + n
                  /\ (m + 1) - m = 1 /\ (m + n) - m = n
                  /\ m + 1 \in DOMAIN both /\ m + n \in DOMAIN both
                  /\ 1 \in 1 .. n /\ n \in 1 .. n
                BY <2>8, <3>2
            <4>2. both[m + 1] = t[1] /\ both[m + n] = t[n]
                BY <2>9, <4>1
            <4>3. QED
                BY <2>11, <4>1, <4>2
        <3>3. QED
            BY <3>1, <3>2
    <2>15. NoneMissing(old.levels, new.levels, both)
        BY <2>1, <2>4, <2>5, <2>12, <2>14 DEF NoneMissing
    <2>16. EndsAtLevel(new.levels, both)
        <3> SUFFICES ASSUME NEW i \in DOMAIN both,
                            \A j \in DOMAIN both : both[j].alarm = both[i].alarm => j <= i
                     PROVE  both[i].level = new.levels[both[i].alarm]
            BY DEF EndsAtLevel
        <3>1. CASE i \in 1 .. m /\ both[i] = s[i] /\ both[i].alarm = "high"
            <4>1. m # 0
                BY <2>8, <3>1
            <4>2. m <= i
                BY <2>14, <3>1, <4>1
            <4>3. i = m /\ s # <<>>
                BY <2>8, <3>1, <4>2
            <4>4. QED
                BY <2>4, <3>1, <4>3 DEF m
        <3>2. CASE /\ i \in m + 1 .. m + n /\ i - m \in 1 .. n
                   /\ both[i] = t[i - m] /\ both[i].alarm = "low"
            <4>1. n # 0
                BY <2>8, <3>2
            <4>2. m + n <= i
                BY <2>14, <3>2, <4>1
            <4>3. i - m = n /\ t # <<>>
                BY <2>8, <3>2, <4>2
            <4>4. QED
                BY <2>5, <3>2, <4>3 DEF n
        <3>3. QED
            BY <2>13, <3>1, <3>2
    <2>17. StartsFromBus(old.levels, both)
        <3> SUFFICES ASSUME NEW i \in DOMAIN both,
                            \A j \in DOMAIN both : both[j].alarm = both[i].alarm => i <= j
                     PROVE  old.levels[both[i].alarm] = "Normal" <=> both[i].level # "Normal"
            BY DEF StartsFromBus
        <3>1. CASE i \in 1 .. m /\ both[i] = s[i] /\ both[i].alarm = "high"
            <4>1. m # 0
                BY <2>8, <3>1
            <4>2. i <= 1
                BY <2>14, <3>1, <4>1
            <4>3. i = 1 /\ s # <<>>
                BY <2>8, <3>1, <4>2
            <4>4. QED
                BY <2>4, <3>1, <4>3
        <3>2. CASE /\ i \in m + 1 .. m + n /\ i - m \in 1 .. n
                   /\ both[i] = t[i - m] /\ both[i].alarm = "low"
            <4>1. n # 0
                BY <2>8, <3>2
            <4>2. i <= m + 1
                BY <2>14, <3>2, <4>1
            <4>3. i - m = 1 /\ t # <<>>
                BY <2>8, <3>2, <4>2
            <4>4. QED
                BY <2>5, <3>2, <4>3
        <3>3. QED
            BY <2>13, <3>1, <3>2
    <2>18. ClearThenRaise(both)
        <3> SUFFICES ASSUME NEW i \in DOMAIN both, NEW j \in DOMAIN both,
                            i < j, both[i].alarm = both[j].alarm
                     PROVE  both[i].level = "Normal" /\ both[j].level # "Normal"
            BY DEF ClearThenRaise
        <3>1. CASE i \in 1 .. m /\ both[i] = s[i] /\ both[i].alarm = "high"
            <4>1. j \in 1 .. m /\ both[j] = s[j]
                BY <2>13, <3>1
            <4>2. QED
                BY <2>4, <2>8, <3>1, <4>1
        <3>2. CASE /\ i \in m + 1 .. m + n /\ i - m \in 1 .. n
                   /\ both[i] = t[i - m] /\ both[i].alarm = "low"
            <4>1. j - m \in 1 .. n /\ both[j] = t[j - m]
                BY <2>13, <3>2
            <4>2. i - m < j - m
                BY <2>8, <3>2, <4>1
            <4>3. QED
                BY <2>5, <2>8, <3>2, <4>1, <4>2
        <3>3. QED
            BY <2>13, <3>1, <3>2
    <2>19. QED
        BY <2>2, <2>7, <2>15, <2>16, <2>17, <2>18 DEF Between
<1>3. QED
    BY <1>1, <1>2
-----------------------------------------------------------------------------
(* The publication of one change. *)

(* When the first change is published, the rest lies between the bus that  *)
(* then is and the same levels.                                            *)
LEMMA RestBetween ==
    ASSUME NEW bus \in [Alarms -> Levels], NEW levels, NEW events \in Seq(Events),
           events # <<>>, Between(bus, levels, events)
    PROVE  /\ Head(events) \in Events
           /\ bus[Head(events).alarm] = "Normal" <=> Head(events).level # "Normal"
           /\ Tail(events) \in Seq(Events)
           /\ Between([bus EXCEPT ![Head(events).alarm] = Head(events).level],
                      levels, Tail(events))
<1> DEFINE first == Head(events)
           rest == Tail(events)
           n == Len(events)
           after == [bus EXCEPT ![first.alarm] = first.level]
<1>1. /\ n \in Nat /\ n # 0 /\ DOMAIN events = 1 .. n
      /\ rest \in Seq(Events) /\ DOMAIN rest = 1 .. n - 1
      /\ first = events[1] /\ first \in Events
      /\ \A i \in 1 .. n - 1 : rest[i] = events[i + 1]
    OBVIOUS
<1>2. first.alarm \in Alarms /\ first.level \in Levels
    <2>1. \A e \in Events : e.alarm \in Alarms /\ e.level \in Levels
        BY DEF Events
    <2> HIDE DEF first
    <2>2. QED
        BY <1>1, <2>1
<1>3. after[first.alarm] = first.level
    /\ \A a \in Alarms : a # first.alarm => after[a] = bus[a]
    BY <1>2
<1>4. \A i \in DOMAIN events : events[i] \in Events /\ events[i].alarm \in Alarms
    <2>1. \A i \in DOMAIN events : events[i] \in Events
        OBVIOUS
    <2>2. QED
        BY <2>1 DEF Events
<1> HIDE DEF first, rest, n, after
<1>5. 1 \in DOMAIN events /\ \A i \in DOMAIN events : i \in Nat /\ 1 <= i
    BY <1>1
<1>6. \A i \in DOMAIN rest : /\ i \in Nat /\ 1 <= i /\ i + 1 \in DOMAIN events
                            /\ rest[i] = events[i + 1]
    BY <1>1
<1>7. \A i \in DOMAIN events : i = 1 \/ (i - 1 \in DOMAIN rest /\ rest[i - 1] = events[i])
    <2> TAKE i \in DOMAIN events
    <2>1. i # 1 => i - 1 \in 1 .. n - 1 /\ (i - 1) + 1 = i
        BY <1>1
    <2>2. QED
        BY <1>1, <2>1
<1>8. bus[first.alarm] = "Normal" <=> first.level # "Normal"
    BY <1>1, <1>5 DEF Between, StartsFromBus
<1>9. NoneMissing(after, levels, rest)
    <2> SUFFICES ASSUME NEW a \in Alarms, \A i \in DOMAIN rest : rest[i].alarm # a
                 PROVE  after[a] = levels[a]
        BY DEF NoneMissing
    <2>1. CASE a = first.alarm
        <3>1. \A j \in DOMAIN events : events[j].alarm = first.alarm => j <= 1
            BY <1>5, <1>7, <2>1
        <3>2. first.level = levels[first.alarm]
            BY <1>1, <1>5, <3>1 DEF Between, EndsAtLevel
        <3>3. QED
            BY <1>3, <2>1, <3>2
    <2>2. CASE a # first.alarm
        <3>1. \A j \in DOMAIN events : events[j].alarm # a
            BY <1>1, <1>7, <2>2
        <3>2. QED
            BY <1>3, <2>2, <3>1 DEF Between, NoneMissing
    <2>3. QED
        BY <2>1, <2>2
<1>10. EndsAtLevel(levels, rest)
    <2> SUFFICES ASSUME NEW i \in DOMAIN rest,
                        \A j \in DOMAIN rest : rest[j].alarm = rest[i].alarm => j <= i
                 PROVE  rest[i].level = levels[rest[i].alarm]
        BY DEF EndsAtLevel
    <2>1. \A j \in DOMAIN events : events[j].alarm = events[i + 1].alarm => j <= i + 1
        <3> SUFFICES ASSUME NEW j \in DOMAIN events, events[j].alarm = events[i + 1].alarm
                     PROVE  j <= i + 1
            OBVIOUS
        <3>1. CASE j = 1
            BY <1>6, <3>1
        <3>2. CASE j # 1
            <4>1. j - 1 <= i
                BY <1>6, <1>7, <3>2
            <4>2. QED
                BY <1>5, <1>6, <4>1
        <3>3. QED
            BY <3>1, <3>2
    <2>2. QED
        BY <1>6, <2>1 DEF Between, EndsAtLevel
<1>11. StartsFromBus(after, rest)
    <2> SUFFICES ASSUME NEW i \in DOMAIN rest,
                        \A j \in DOMAIN rest : rest[j].alarm = rest[i].alarm => i <= j
                 PROVE  after[rest[i].alarm] = "Normal" <=> rest[i].level # "Normal"
        BY DEF StartsFromBus
    <2>1. CASE rest[i].alarm = first.alarm
        <3>1. 1 < i + 1 /\ events[1].alarm = events[i + 1].alarm
            BY <1>1, <1>6, <2>1
        <3>2. first.level = "Normal" /\ events[i + 1].level # "Normal"
            BY <1>1, <1>5, <1>6, <3>1 DEF Between, ClearThenRaise
        <3>3. QED
            BY <1>3, <1>6, <2>1, <3>2
    <2>2. CASE rest[i].alarm # first.alarm
        <3>1. \A j \in DOMAIN events : events[j].alarm = events[i + 1].alarm => i + 1 <= j
            <4> SUFFICES ASSUME NEW j \in DOMAIN events, events[j].alarm = events[i + 1].alarm
                         PROVE  i + 1 <= j
                OBVIOUS
            <4>1. j # 1
                BY <1>1, <1>6, <2>2
            <4>2. i <= j - 1
                BY <1>6, <1>7, <4>1
            <4>3. QED
                BY <1>5, <1>6, <4>2
        <3>2. bus[rest[i].alarm] = "Normal" <=> rest[i].level # "Normal"
            BY <1>6, <3>1 DEF Between, StartsFromBus
        <3>3. QED
            BY <1>3, <1>4, <1>6, <2>2, <3>2
    <2>3. QED
        BY <2>1, <2>2
<1>12. ClearThenRaise(rest)
    <2> SUFFICES ASSUME NEW i \in DOMAIN rest, NEW j \in DOMAIN rest,
                        i < j, rest[i].alarm = rest[j].alarm
                 PROVE  rest[i].level = "Normal" /\ rest[j].level # "Normal"
        BY DEF ClearThenRaise
    <2>1. i + 1 < j + 1
        BY <1>6
    <2>2. QED
        BY <1>6, <2>1 DEF Between, ClearThenRaise
<1>13. QED
    BY <1>1, <1>8, <1>9, <1>10, <1>11, <1>12 DEF Between, first, rest, after

(* When nothing is left to publish the bus is at the levels.               *)
LEMMA NothingBetween ==
    ASSUME NEW bus \in [Alarms -> Levels], NEW levels \in [Alarms -> Levels],
           Between(bus, levels, <<>>)
    PROVE  bus = levels
<1>1. \A a \in Alarms : bus[a] = levels[a]
    <2>1. DOMAIN <<>> = {}
        OBVIOUS
    <2>2. QED
        BY <2>1 DEF Between, NoneMissing
<1>2. QED
    BY <1>1

-----------------------------------------------------------------------------
(* The invariant. *)

(* It holds initially.                                                     *)
LEMMA InitIInv == Init => IInv
<1> SUFFICES ASSUME Init PROVE IInv
    OBVIOUS
<1>1. detector \in Detectors
    BY DEF Init
<1>2. config \in Configs
    <2>1. CASE detector = "axis"
        <3>1. config = [high |-> {}, low |-> {}] /\ {} \in Limits
            BY <2>1, ServiceAssumption DEF Init, InitialConfig
        <3>2. QED
            BY <2>1, <3>1 DEF Configs
    <2>2. CASE detector = "rule"
        BY <2>2 DEF Init, InitialConfig, Configs
    <2>3. CASE detector \in {"torque", "angle"}
        <3>1. PICK c \in JumpArguments : config = Normalized(c)
            BY <2>3 DEF Init, InitialConfig
        <3>2. /\ config \in [warn : Nat, red : Nat, purple : Nat, angle : Nat]
              /\ config.warn <= config.red /\ config.red <= config.purple
            BY <3>1, NormalizedOrder
        <3>3. QED
            BY <2>3, <3>2 DEF Configs
    <2>4. CASE detector = "gap"
        BY <2>4 DEF Init, InitialConfig, Configs
    <2>5. QED
        BY <1>1, <2>1, <2>2, <2>3, <2>4 DEF Detectors
<1>3. state.levels = [a \in Alarms |-> "Normal"]
    BY DEF Init, InitialState, Alarms
<1>4. state \in States
    <2>1. Window \in Nat /\ Window > 0 /\ MaxTime \in Nat
        BY ServiceAssumption
    <2>2. EmptyRing \in Rings
        BY <2>1 DEF EmptyRing, Rings
    <2>3. state.levels \in [Alarms -> Levels]
        BY <1>3 DEF Levels
    <2>4. state = [levels |-> state.levels, ring |-> EmptyRing, last |-> {}]
        BY DEF Init, InitialState
    <2>5. QED
        BY <2>2, <2>3, <2>4 DEF States
<1>5. TypeOK
    BY <1>1, <1>2, <1>4, ServiceAssumption DEF Init, TypeOK, States, Levels, Idle
<1>6. PublisherLocks
    BY ServiceAssumption DEF Init, PublisherLocks, Idle
<1>7. OnTheBus
    BY <1>3, ServiceAssumption DEF Init, OnTheBus
<1>8. QED
    BY <1>5, <1>6, <1>7 DEF IInv

\* The part of TypeOK about one worker.
Busy(w) ==
    \/ task[w] = Idle
    \/ /\ task[w].at \in {"reading", "judging"} /\ task[w].sample \in Samples
       /\ task[w].at = "judging" => ConfigFor(w) \in Configs
    \/ task[w] \in [at : {"publishing"}, events : Seq(Events) \ {<<>>}]

(* Sets that depend on the detector alone stay what they are.              *)
LEMMA SameDetector ==
    ASSUME detector' = detector
    PROVE  Alarms' = Alarms /\ Configs' = Configs /\ Events' = Events
<1>1. Alarms' = Alarms
    BY DEF Alarms
<1>2. Configs' = Configs
    BY DEF Configs
<1>3. Events' = Events
    BY <1>1 DEF Events
<1>4. QED
    BY <1>1, <1>2, <1>3

(* A step that only sets thresholds keeps the invariant.                   *)
LEMMA SetKeeps ==
    ASSUME IInv, detector' = detector, config' \in Configs,
           UNCHANGED <<detector, signal, clock, state, lock, task, active>>
    PROVE  IInv'
<1>1. Alarms' = Alarms /\ Configs' = Configs /\ Events' = Events
    BY SameDetector
<1>2. ASSUME NEW w \in Workers PROVE Busy(w)'
    <2>1. Busy(w)
        BY DEF IInv, TypeOK, Busy
    <2>2. ConfigFor(w) \in Configs => ConfigFor(w)' \in Configs
        BY DEF ConfigFor
    <2>3. QED
        BY <1>1, <2>1, <2>2 DEF Busy
<1>3. TypeOK'
    BY <1>1, <1>2 DEF IInv, TypeOK, Busy
<1>4. PublisherLocks'
    BY DEF IInv, PublisherLocks
<1>5. OnTheBus'
    BY <1>1 DEF IInv, OnTheBus, Between, NoneMissing, EndsAtLevel, StartsFromBus, ClearThenRaise
<1>6. QED
    BY <1>3, <1>4, <1>5 DEF IInv

(* Each way to set thresholds keeps the invariant.                         *)
LEMMA SettingKeeps ==
    ASSUME IInv
    PROVE  /\ \A high, low \in Limits : SetAxis(high, low) => IInv'
           /\ \A r \in Rules : SetRule(r) => IInv'
           /\ \A c \in JumpArguments : SetJump(c) => IInv'
           /\ \A threshold \in GapArguments : SetGap(threshold) => IInv'
<1>1. ASSUME NEW high \in Limits, NEW low \in Limits, SetAxis(high, low) PROVE IInv'
    <2>1. [high |-> high, low |-> low] \in Configs
        <3> DEFINE c == [high |-> high, low |-> low]
        <3>1. c \in [high : Limits, low : Limits] /\ \A h \in c.high, l \in c.low : l < h
            BY <1>1 DEF SetAxis
        <3>2. detector = "axis"
            BY <1>1 DEF SetAxis
        <3> HIDE DEF c
        <3>3. c \in Configs
            BY <3>1, <3>2 DEF Configs
        <3>4. QED
            BY <3>3 DEF c
    <2>2. QED
        BY <1>1, <2>1, SetKeeps DEF SetAxis
<1>2. ASSUME NEW r \in Rules, SetRule(r) PROVE IInv'
    <2>1. {r} \in Configs
        BY <1>2 DEF SetRule, Configs
    <2>2. QED
        BY <1>2, <2>1, SetKeeps DEF SetRule
<1>3. ASSUME NEW c \in JumpArguments, SetJump(c) PROVE IInv'
    <2>1. PICK n : n = Normalized(c)
        OBVIOUS
    <2>2. /\ n \in [warn : Nat, red : Nat, purple : Nat, angle : Nat]
          /\ n.warn <= n.red /\ n.red <= n.purple
        BY <2>1, NormalizedOrder
    <2>3. n \in Configs
        BY <1>3, <2>2 DEF SetJump, Configs
    <2>4. QED
        BY <1>3, <2>1, <2>3, SetKeeps DEF SetJump
<1>4. ASSUME NEW threshold \in GapArguments, SetGap(threshold) PROVE IInv'
    <2>1. threshold \in Configs
        BY <1>4 DEF SetGap, Configs
    <2>2. QED
        BY <1>4, <2>1, SetKeeps DEF SetGap
<1>5. QED
    BY <1>1, <1>2, <1>3, <1>4

(* A step of worker w before it publishes, to another task than            *)
(* publishing, keeps the invariant.                                        *)
LEMMA TaskKeeps ==
    ASSUME IInv, NEW w \in Workers, NEW new,
           task[w].at # "publishing", task' = [task EXCEPT ![w] = new],
           new.at # "publishing", Busy(w)', clock' \in 0 .. MaxTime,
           UNCHANGED <<detector, signal, config, state, lock, active>>
    PROVE  IInv'
<1>1. Alarms' = Alarms /\ Configs' = Configs /\ Events' = Events
    BY SameDetector
<1>2. DOMAIN task = Workers
    BY DEF IInv, TypeOK
<1>3. task'[w] = new /\ \A u \in Workers : u # w => task'[u] = task[u]
    BY <1>2
<1>4. ASSUME NEW u \in Workers PROVE Busy(u)'
    <2>1. CASE u = w
        BY <2>1
    <2>2. CASE u # w
        <3>1. Busy(u)
            BY DEF IInv, TypeOK, Busy
        <3>2. ConfigFor(u)' = ConfigFor(u) /\ task'[u] = task[u]
            BY <1>3, <2>2 DEF ConfigFor
        <3>3. QED
            BY <1>1, <3>1, <3>2 DEF Busy
    <2>3. QED
        BY <2>1, <2>2
<1>5. DOMAIN task' = Workers
    BY <1>2
<1>6. TypeOK'
    BY <1>1, <1>4, <1>5 DEF IInv, TypeOK, Busy
<1>7. PublisherLocks'
    BY <1>3 DEF IInv, PublisherLocks
<1>8. OnTheBus'
    <2>1. ASSUME NEW u \in Workers, lock = u PROVE u # w
        BY <2>1 DEF IInv, PublisherLocks
    <2>2. ASSUME NEW u \in Workers, lock' = u
          PROVE  Between(active, state.levels, task[u].events)' 
        <3>1. Between(active, state.levels, task[u].events) /\ task'[u] = task[u]
            BY <1>3, <2>1, <2>2 DEF IInv, OnTheBus
        <3>2. QED
            BY <1>1, <3>1
               DEF Between, NoneMissing, EndsAtLevel, StartsFromBus, ClearThenRaise
    <2>3. QED
        BY <2>2 DEF IInv, OnTheBus
<1>9. QED
    BY <1>6, <1>7, <1>8 DEF IInv

(* Taking a sample and reading the thresholds keep it.                     *)
LEMMA TakeKeeps ==
    ASSUME IInv, NEW w \in Workers, Take(w)
    PROVE  IInv'
<1>1. signal \in Values /\ clock \in 0 .. MaxTime /\ MaxTime \in Nat /\ Values \subseteq Nat
    BY ServiceAssumption DEF IInv, TypeOK
<1>2. clock' \in 0 .. MaxTime
    BY <1>1 DEF Take, NextTimes
<1>3. PICK sample : sample = [value |-> signal, time |-> clock']
    OBVIOUS
<1>4. sample \in Samples
    BY <1>1, <1>2, <1>3 DEF Samples
<1>5. PICK at : at = IF detector = "axis" THEN "judging" ELSE "reading"
    OBVIOUS
<1> DEFINE new == [at |-> at, sample |-> sample]
<1>6. task' = [task EXCEPT ![w] = new] /\ task[w].at # "publishing"
    BY <1>3, <1>5 DEF Take, Idle
<1>7. task'[w] = new
    BY <1>6 DEF IInv, TypeOK
<1>8. config \in Configs /\ Configs' = Configs
    BY SameDetector DEF IInv, TypeOK, Take
<1>9. Busy(w)'
    <2>1. new.at = "judging" => ConfigFor(w)' = config
        BY <1>5 DEF ConfigFor, Take
    <2>2. new.at \in {"reading", "judging"} /\ new.sample \in Samples
        BY <1>4, <1>5
    <2>3. QED
        BY <1>7, <1>8, <2>1, <2>2 DEF Busy
<1>10. new.at # "publishing"
    BY <1>5
<1> HIDE DEF new
<1>11. QED
    BY <1>2, <1>6, <1>9, <1>10, TaskKeeps DEF Take

(* Reading the thresholds keeps it.                                        *)
LEMMA ReadKeeps ==
    ASSUME IInv, NEW w \in Workers, Read(w)
    PROVE  IInv'
<1>1. task[w].at = "reading" /\ DOMAIN task = Workers /\ Configs' = Configs
    BY SameDetector DEF IInv, TypeOK, Read
<1>2. task[w].sample \in Samples
    BY <1>1 DEF IInv, TypeOK, Idle
<1>3. CASE detector = "rule" /\ config = {}
    <2>1. task' = [task EXCEPT ![w] = Idle] /\ task'[w] = Idle
        BY <1>1, <1>3 DEF Read
    <2>2. Busy(w)' /\ Idle.at # "publishing"
        BY <2>1 DEF Busy, Idle
    <2>3. clock' \in 0 .. MaxTime
        BY DEF IInv, TypeOK, Read
    <2>4. QED
        BY <1>1, <2>1, <2>2, <2>3, TaskKeeps DEF Read
<1>4. CASE ~(detector = "rule" /\ config = {})
    <2> DEFINE new == [at |-> "judging", sample |-> task[w].sample, config |-> config]
    <2>1. task' = [task EXCEPT ![w] = new] /\ task'[w] = new
        BY <1>1, <1>4 DEF Read
    <2>2. config \in Configs
        BY DEF IInv, TypeOK
    <2>3. ConfigFor(w)' = config
        BY <2>1 DEF ConfigFor, Read
    <2>4. Busy(w)'
        BY <1>1, <1>2, <2>1, <2>2, <2>3 DEF Busy
    <2>5. clock' \in 0 .. MaxTime /\ new.at # "publishing"
        BY DEF IInv, TypeOK, Read
    <2> HIDE DEF new
    <2>6. QED
        BY <1>1, <2>1, <2>4, <2>5, TaskKeeps DEF Read
<1>5. QED
    BY <1>3, <1>4

(* A judgement that finds the lock free keeps it.                          *)
LEMMA JudgeKeeps ==
    ASSUME IInv, NEW w \in Workers, Judge(w)
    PROVE  IInv'
<1>1. task[w].at = "judging" /\ lock = NoWorker
    BY DEF Judge
<1>2. PICK new \in Judged(state, ConfigFor(w), task[w].sample) :
          /\ state' = new
          /\ IF EventsOf(state, new) = <<>>
             THEN task' = [task EXCEPT ![w] = Idle] /\ UNCHANGED lock
             ELSE /\ task' = [task EXCEPT ![w] = [at |-> "publishing",
                                                  events |-> EventsOf(state, new)]]
                  /\ lock' = w
    BY DEF Judge
<1>3. /\ task[w].sample \in Samples /\ ConfigFor(w) \in Configs
      /\ detector \in Detectors /\ state \in States
      /\ DOMAIN task = Workers /\ active \in [Alarms -> Levels]
    BY <1>1 DEF IInv, TypeOK, Idle, States
<1>4. state' \in States
    BY <1>2, <1>3, JudgedType
<1>5. state.levels \in [Alarms -> Levels] /\ new.levels \in [Alarms -> Levels]
    BY <1>2, <1>3, <1>4 DEF States
<1>6. active = state.levels
    BY <1>1 DEF IInv, OnTheBus
<1>7. PICK events : events = EventsOf(state, new)
    OBVIOUS
<1>8. events \in Seq(Events) /\ Between(active, new.levels, events)
    BY <1>3, <1>5, <1>6, <1>7, EventsBetween
<1>9. UNCHANGED <<detector, signal, clock, config, active>>
    BY DEF Judge
<1>10. Alarms' = Alarms /\ Configs' = Configs /\ Events' = Events
    BY <1>9, SameDetector
<1>11. \A u \in Workers : u # w => task'[u] = task[u]
    BY <1>2, <1>3
<1>12. DOMAIN task' = Workers
    BY <1>2, <1>3
<1>13. task'[w] = IF events = <<>> THEN Idle ELSE [at |-> "publishing", events |-> events]
    BY <1>2, <1>3, <1>7
<1>14. ASSUME NEW u \in Workers PROVE Busy(u)'
    <2>1. CASE u = w
        BY <1>8, <1>10, <1>13, <2>1 DEF Busy
    <2>2. CASE u # w
        <3>1. Busy(u)
            BY DEF IInv, TypeOK, Busy
        <3>2. ConfigFor(u)' = ConfigFor(u) /\ task'[u] = task[u]
            BY <1>9, <1>11, <2>2 DEF ConfigFor
        <3>3. QED
            BY <1>10, <3>1, <3>2 DEF Busy
    <2>3. QED
        BY <2>1, <2>2
<1>15. TypeOK'
    <2>1. lock' \in Workers \cup {NoWorker}
        BY <1>1, <1>2
    <2>2. QED
        BY <1>4, <1>9, <1>10, <1>12, <1>14, <2>1 DEF IInv, TypeOK, Busy, States
<1>16. \A u \in Workers : task[u].at # "publishing" /\ u # NoWorker
    BY <1>1, ServiceAssumption DEF IInv, PublisherLocks
<1>17. CASE events = <<>>
    <2>1. task'[w].at # "publishing" /\ lock' = NoWorker
        BY <1>1, <1>2, <1>7, <1>13, <1>17 DEF Idle
    <2>2. PublisherLocks'
        BY <1>11, <1>16, <2>1 DEF PublisherLocks
    <2>3. active' = state'.levels
        BY <1>2, <1>3, <1>5, <1>8, <1>9, <1>17, NothingBetween
    <2>4. OnTheBus'
        BY <1>16, <2>1, <2>3 DEF OnTheBus
    <2>5. QED
        BY <1>15, <2>2, <2>4 DEF IInv
<1>18. CASE events # <<>>
    <2>1. task'[w].at = "publishing" /\ task'[w].events = events /\ lock' = w
        BY <1>2, <1>7, <1>13, <1>18
    <2>2. PublisherLocks'
        BY <1>11, <1>16, <2>1 DEF PublisherLocks
    <2>3. Between(active, state.levels, task[w].events)'
        BY <1>2, <1>8, <1>9, <1>10, <2>1
           DEF Between, NoneMissing, EndsAtLevel, StartsFromBus, ClearThenRaise
    <2>4. OnTheBus'
        BY <1>16, <2>1, <2>3 DEF OnTheBus
    <2>5. QED
        BY <1>15, <2>2, <2>4 DEF IInv
<1>19. QED
    BY <1>17, <1>18

(* The worker that publishes one change publishes the first of those that  *)
(* lie between the bus and the levels.                                     *)
LEMMA PublishFirst ==
    ASSUME IInv, NEW w \in Workers, Publish(w)
    PROVE  LET events == task[w].events
           IN  /\ lock = w /\ active \in [Alarms -> Levels]
               /\ task[w] = [at |-> "publishing", events |-> events]
               /\ events \in Seq(Events) /\ events # <<>>
               /\ Between(active, state.levels, events)
<1>1. task[w].at = "publishing"
    BY DEF Publish
<1>2. task[w] \in [at : {"publishing"}, events : Seq(Events) \ {<<>>}]
    BY <1>1 DEF IInv, TypeOK, Idle
<1>3. lock = w
    BY <1>1 DEF IInv, PublisherLocks
<1>4. QED
    BY <1>2, <1>3 DEF IInv, OnTheBus, TypeOK

(* Publishing a change keeps the invariant.                                *)
LEMMA PublishKeeps ==
    ASSUME IInv, NEW w \in Workers, Publish(w)
    PROVE  IInv'
<1>1. PICK events : events = task[w].events
    OBVIOUS
<1>2. /\ lock = w /\ active \in [Alarms -> Levels]
      /\ task[w] = [at |-> "publishing", events |-> events]
      /\ events \in Seq(Events) /\ events # <<>>
      /\ Between(active, state.levels, events)
    BY <1>1, PublishFirst
<1>3. PICK first, rest : first = Head(events) /\ rest = Tail(events)
    OBVIOUS
<1>4. /\ active' = [active EXCEPT ![first.alarm] = first.level]
      /\ IF rest = <<>>
         THEN task' = [task EXCEPT ![w] = Idle] /\ lock' = NoWorker
         ELSE task' = [task EXCEPT ![w].events = rest] /\ UNCHANGED lock
      /\ UNCHANGED <<detector, signal, clock, config, state>>
    BY <1>1, <1>3 DEF Publish
<1>5. /\ first \in Events /\ rest \in Seq(Events)
      /\ Between(active', state.levels, rest)
    BY <1>2, <1>3, <1>4, RestBetween
<1>6. active' \in [Alarms -> Levels]
    <2>1. first.alarm \in Alarms /\ first.level \in Levels
        BY <1>5 DEF Events
    <2>2. QED
        BY <1>2, <1>4, <2>1
<1>7. Alarms' = Alarms /\ Configs' = Configs /\ Events' = Events
    BY <1>4, SameDetector
<1>8. DOMAIN task = Workers
    BY DEF IInv, TypeOK
<1>9. DOMAIN task' = Workers /\ \A u \in Workers : u # w => task'[u] = task[u]
    BY <1>4, <1>8
<1>10. task'[w] = IF rest = <<>> THEN Idle ELSE [at |-> "publishing", events |-> rest]
    BY <1>2, <1>4, <1>8
<1>11. ASSUME NEW u \in Workers PROVE Busy(u)'
    <2>1. CASE u = w
        BY <1>5, <1>7, <1>10, <2>1 DEF Busy
    <2>2. CASE u # w
        <3>1. Busy(u)
            BY DEF IInv, TypeOK, Busy
        <3>2. ConfigFor(u)' = ConfigFor(u) /\ task'[u] = task[u]
            BY <1>4, <1>9, <2>2 DEF ConfigFor
        <3>3. QED
            BY <1>7, <3>1, <3>2 DEF Busy
    <2>3. QED
        BY <2>1, <2>2
<1>12. TypeOK'
    <2>1. lock' \in Workers \cup {NoWorker}
        BY <1>2, <1>4
    <2>2. QED
        BY <1>4, <1>6, <1>7, <1>9, <1>11, <2>1 DEF IInv, TypeOK, Busy
<1>13. \A u \in Workers : u # NoWorker /\ (u # w => task[u].at # "publishing")
    BY <1>2, ServiceAssumption DEF IInv, PublisherLocks
<1>14. CASE rest = <<>>
    <2>1. task'[w].at # "publishing" /\ lock' = NoWorker
        BY <1>4, <1>10, <1>14 DEF Idle
    <2>2. PublisherLocks'
        BY <1>9, <1>13, <2>1 DEF PublisherLocks
    <2>3. state.levels \in [Alarms -> Levels]
        BY DEF IInv, TypeOK
    <2>4. active' = state.levels
        BY <1>5, <1>6, <1>14, <2>3, NothingBetween
    <2>5. OnTheBus'
        BY <1>4, <1>13, <2>1, <2>4 DEF OnTheBus
    <2>6. QED
        BY <1>12, <2>2, <2>5 DEF IInv
<1>15. CASE rest # <<>>
    <2>1. task'[w].at = "publishing" /\ task'[w].events = rest /\ lock' = w
        BY <1>2, <1>4, <1>10, <1>15
    <2>2. PublisherLocks'
        BY <1>9, <1>13, <2>1 DEF PublisherLocks
    <2>3. Between(active, state.levels, task[w].events)'
        BY <1>4, <1>5, <1>7, <2>1
           DEF Between, NoneMissing, EndsAtLevel, StartsFromBus, ClearThenRaise
    <2>4. OnTheBus'
        BY <1>13, <2>1, <2>3 DEF OnTheBus
    <2>5. QED
        BY <1>12, <2>2, <2>4 DEF IInv
<1>16. QED
    BY <1>14, <1>15

(* The invariant is inductive.                                             *)
LEMMA NextIInv == IInv /\ [Next]_vars => IInv'
<1> SUFFICES ASSUME IInv, [Next]_vars PROVE IInv'
    OBVIOUS
<1>1. ASSUME NEW v \in Values, Change(v) PROVE IInv'
    <2>1. Alarms' = Alarms /\ Configs' = Configs /\ Events' = Events
        BY <1>1, SameDetector DEF Change
    <2>2. \A w \in Workers : ConfigFor(w)' = ConfigFor(w)
        BY <1>1 DEF Change, ConfigFor
    <2>3. TypeOK'
        BY <1>1, <2>1, <2>2 DEF Change, IInv, TypeOK
    <2>4. PublisherLocks' /\ OnTheBus'
        BY <1>1, <2>1 DEF Change, IInv, PublisherLocks, OnTheBus, Between, NoneMissing,
                          EndsAtLevel, StartsFromBus, ClearThenRaise
    <2>5. QED
        BY <2>3, <2>4 DEF IInv
<1>2. ASSUME NEW w \in Workers, Take(w) \/ Read(w) \/ Judge(w) \/ Publish(w) PROVE IInv'
    BY <1>2, TakeKeeps, ReadKeeps, JudgeKeeps, PublishKeeps
<1>3. CASE UNCHANGED vars
    <2>1. config' \in Configs
        BY <1>3 DEF IInv, TypeOK, vars
    <2>2. QED
        BY <1>3, <2>1, SetKeeps DEF vars
<1>4. QED
    BY <1>1, <1>2, <1>3, SettingKeeps DEF Next

(* It holds in every state of every behaviour.                             *)
LEMMA AlwaysIInv == Spec => []IInv
BY InitIInv, NextIInv, PTL DEF Spec

(* For any workers, thresholds, rules and windows: an alarm on the bus is  *)
(* at the level of the detector, or the worker that holds the lock has yet *)
(* to publish the change that brings it there.                             *)
THEOREM BusAlwaysAgrees == Spec => []BusAgrees
<1>1. IInv => BusAgrees
    <2> SUFFICES ASSUME IInv, NEW a \in Alarms, active[a] # state.levels[a]
                 PROVE  \E w \in Workers :
                            /\ lock = w /\ task[w].at = "publishing"
                            /\ LeadsTo(task[w].events, a, state.levels[a])
        BY DEF IInv, BusAgrees
    <2>1. lock # NoWorker
        BY DEF IInv, OnTheBus
    <2>2. PICK w \in Workers : lock = w
        BY <2>1 DEF IInv, TypeOK
    <2>3. task[w].at = "publishing" /\ Between(active, state.levels, task[w].events)
        BY <2>2 DEF IInv, PublisherLocks, OnTheBus
    <2>4. PICK events : events = task[w].events
        OBVIOUS
    <2>5. events \in Seq(Events)
        BY <2>3, <2>4 DEF IInv, TypeOK, Idle
    <2>6. \A i \in DOMAIN events : i \in Nat /\ events[i] \in Events
        BY <2>5
    <2>7. PICK i \in DOMAIN events : events[i].alarm = a
        BY <2>3, <2>4 DEF Between, NoneMissing
    <2>8. PICK k \in DOMAIN events :
              /\ events[k].alarm = a
              /\ \A j \in DOMAIN events : events[j].alarm = a => j <= k
        <3>1. CASE \A j \in DOMAIN events : events[j].alarm = a => j <= i
            BY <2>7, <3>1
        <3>2. CASE \E k \in DOMAIN events : events[k].alarm = a /\ i < k
            <4>1. PICK k \in DOMAIN events : events[k].alarm = a /\ i < k
                BY <3>2
            <4>2. events[k].level # "Normal"
                BY <2>3, <2>4, <2>7, <4>1 DEF Between, ClearThenRaise
            <4>3. \A j \in DOMAIN events : events[j].alarm = a => ~(k < j)
                BY <2>3, <2>4, <4>1, <4>2 DEF Between, ClearThenRaise
            <4>4. \A j \in DOMAIN events : events[j].alarm = a => j <= k
                BY <2>6, <4>3
            <4>5. QED
                BY <4>1, <4>4
        <3>3. QED
            BY <2>6, <3>1, <3>2
    <2>9. events[k].level = state.levels[a]
        BY <2>3, <2>4, <2>8 DEF Between, EndsAtLevel
    <2>10. events[k] = [alarm |-> a, level |-> state.levels[a]]
        <3>1. \A e \in Events : e = [alarm |-> e.alarm, level |-> e.level]
            BY DEF Events
        <3>2. QED
            BY <2>6, <2>8, <2>9, <3>1
    <2>11. LeadsTo(events, a, state.levels[a])
        BY <2>8, <2>10 DEF LeadsTo
    <2>12. QED
        BY <2>2, <2>3, <2>4, <2>11
<1>2. QED
    BY <1>1, AlwaysIInv, PTL

(* Every event a worker publishes clears an active alarm or raises an      *)
(* inactive one: no alarm is raised twice or cleared twice on the bus,     *)
(* whatever the workers interleave.                                        *)
THEOREM TurnsTaken == Spec => RaisesAndClearsAlternate
<1> DEFINE Alternate ==
        \A w \in Workers : task[w].at = "publishing" /\ task'[w] # task[w] =>
            LET event == Head(task[w].events)
            IN  active[event.alarm] = "Normal" <=> event.level # "Normal"
<1>1. IInv /\ [Next]_vars => [Alternate]_vars
    <2> SUFFICES ASSUME IInv, Next, NEW w \in Workers,
                        task[w].at = "publishing", task'[w] # task[w],
                        NEW first, first = Head(task[w].events)
                 PROVE  active[first.alarm] = "Normal" <=> first.level # "Normal"
        OBVIOUS
    \* Only the worker itself moves its task, and a publishing one publishes.
    <2>1. Publish(w)
        <3>1. DOMAIN task = Workers
            BY DEF IInv, TypeOK
        <3>2. ASSUME NEW v \in Workers, Take(v) \/ Read(v) \/ Judge(v) \/ Publish(v)
              PROVE  Publish(w)
            <4>1. v = w
                <5>1. CASE Take(v)
                    BY <3>1, <5>1 DEF Take
                <5>2. CASE Read(v)
                    BY <3>1, <5>2 DEF Read
                <5>3. CASE Judge(v)
                    BY <3>1, <5>3 DEF Judge
                <5>4. CASE Publish(v)
                    BY <3>1, <5>4 DEF Publish
                <5>5. QED
                    BY <3>2, <5>1, <5>2, <5>3, <5>4
            <4>2. ~Take(w) /\ ~Read(w) /\ ~Judge(w)
                BY DEF Take, Read, Judge, Idle
            <4>3. QED
                BY <3>2, <4>1, <4>2
        <3>3. CASE UNCHANGED task
            BY <3>3
        <3>4. QED
            BY <3>2, <3>3 DEF Next, Change, SetAxis, SetRule, SetJump, SetGap
    <2>2. PICK events : events = task[w].events
        OBVIOUS
    <2>3. /\ active \in [Alarms -> Levels]
          /\ events \in Seq(Events) /\ events # <<>>
          /\ Between(active, state.levels, events)
        BY <2>1, <2>2, PublishFirst
    <2>4. first = Head(events)
        BY <2>2
    <2>5. active[Head(events).alarm] = "Normal" <=> Head(events).level # "Normal"
        BY <2>3, RestBetween
    <2>6. QED
        BY <2>4, <2>5
<1>2. QED
    BY <1>1, AlwaysIInv, PTL DEF Spec, RaisesAndClearsAlternate
=============================================================================

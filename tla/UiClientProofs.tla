---------------------------- MODULE UiClientProofs ----------------------------
(* The user interface beside the alarm feed, for any number of interfaces,    *)
(* requests and restarts, any thresholds typed, any devices and any capacity  *)
(* of the message queue: the thresholds a panel shows are the ones the        *)
(* collector checks, unless one of four things happened (ThresholdsAgree),    *)
(* every replay that is loading lands (EveryLoadLands), paging through the    *)
(* records shows each of them once (WholeList), and a curve is the end of     *)
(* what was fed that it should be (SeriesIsSuffix).                           *)
EXTENDS Control, Replay, Curves, FiniteSetTheorems, SequenceTheorems, TLAPS

------------------------------------------------------------------------------
(* Rounding to three decimals.                                                *)

(* Multiples of a number that differ, differ by at least that number.         *)
LEMMA Multiples ==
    ASSUME NEW a \in Nat, NEW b \in Nat, NEW g \in Nat, a < b
    PROVE  a * g + g <= b * g
<1>1. PICK d \in Nat : b = a + 1 + d
  <2>1. b - a - 1 \in Nat /\ b = a + 1 + (b - a - 1)
    OBVIOUS
  <2> QED BY <2>1
<1>2. b * g = a * g + g + d * g
  BY <1>1
<1>3. d * g \in Nat /\ a * g \in Nat
  OBVIOUS
<1> QED BY <1>2, <1>3

(* A quotient is the number of whole multiples.                               *)
LEMMA Quotient ==
    ASSUME NEW v \in Nat, NEW g \in Nat \ {0}
    PROVE  /\ v \div g \in Nat
           /\ (v \div g) * g <= v
           /\ v < (v \div g) * g + g
OBVIOUS

(* Thresholds are rounded to a natural number, in order, and only once.       *)
LEMMA RoundedFacts ==
    /\ \A v \in Nat : Rounded(v) \in Nat
    /\ \A v, w \in Nat : v <= w => Rounded(v) <= Rounded(w)
    /\ \A v \in Nat : Rounded(Rounded(v)) = Rounded(v)
<1>1. PICK h \in Nat : h = Grain \div 2 /\ h < Grain
  BY ControlAssumption
<1>2. Grain \in Nat \ {0}
  BY ControlAssumption
<1>3. ASSUME NEW v \in Nat
      PROVE  \E q \in Nat : /\ Rounded(v) = q * Grain /\ q = (v + h) \div Grain
                            /\ q * Grain <= v + h /\ v + h < q * Grain + Grain
  <2>1. v + h \in Nat
    OBVIOUS
  <2> QED BY <1>1, <1>2, <2>1, Quotient DEF Rounded
<1>4. \A a, b \in Nat : a * Grain <= b * Grain + Grain - 1 => a <= b
  <2>1. \A a, b \in Nat : b < a => b * Grain + Grain <= a * Grain
    BY <1>2, Multiples
  <2>2. \A a \in Nat : a * Grain \in Nat
    BY <1>2
  <2> QED BY <1>2, <2>1, <2>2
<1>5. \A a \in Nat : a * Grain \in Nat
  BY <1>2
<1>6. \A v \in Nat : Rounded(v) \in Nat
  BY <1>3, <1>5
<1>7. ASSUME NEW v \in Nat, NEW w \in Nat, v <= w
      PROVE  Rounded(v) <= Rounded(w)
  <2>1. PICK q \in Nat : Rounded(v) = q * Grain /\ q * Grain <= v + h
    BY <1>3
  <2>2. PICK p \in Nat : Rounded(w) = p * Grain /\ w + h < p * Grain + Grain
    BY <1>3
  <2>3. q <= p
    BY <1>2, <1>4, <1>5, <1>7, <2>1, <2>2
  <2>4. \A a, b \in Nat : a <= b => a * Grain <= b * Grain
    <3>1. ASSUME NEW a \in Nat, NEW b \in Nat, a < b PROVE a * Grain <= b * Grain
      BY <1>2, <1>5, <3>1, Multiples
    <3> QED BY <1>5, <3>1
  <2> QED BY <2>1, <2>2, <2>3, <2>4
<1>8. ASSUME NEW v \in Nat
      PROVE  Rounded(Rounded(v)) = Rounded(v)
  <2>1. PICK k \in Nat : Rounded(v) = k * Grain
    BY <1>3
  <2>2. PICK q \in Nat : /\ Rounded(Rounded(v)) = q * Grain
                         /\ q * Grain <= k * Grain + h /\ k * Grain + h < q * Grain + Grain
    BY <1>3, <1>5, <2>1
  <2>3. q <= k /\ k <= q
    BY <1>1, <1>2, <1>4, <1>5, <2>2
  <2> QED BY <2>1, <2>2, <2>3
<1> QED BY <1>6, <1>7, <1>8

------------------------------------------------------------------------------
(* Thresholds and requests.                                                   *)

Ladder     == [warn : Nat, red : Nat, angle : Nat]
Bands      == [high : Int \cup {NoText}, low : Int \cup {NoText}]
Thresholds == [jump : Ladder, gap : Int, can : Bands]

(* Both sides begin with thresholds.                                          *)
LEMMA DefaultsTyped == Defaults \in Thresholds /\ Defaults.jump.warn <= Defaults.jump.red
<1>1. Grain \in Nat /\ 2 * Grain \in Nat /\ Grain <= 2 * Grain
  BY ControlAssumption
<1>2. [warn |-> Grain, red |-> 2 * Grain, angle |-> Grain] \in Ladder
  BY <1>1 DEF Ladder
<1>3. [high |-> NoText, low |-> NoText] \in Bands
  BY DEF Bands
<1> QED BY <1>1, <1>2, <1>3 DEF Defaults, Thresholds

(* What is typed becomes a natural number.                                    *)
LEMMA NumbersTyped ==
    ASSUME NEW text \in Int \cup {NoText}, NEW default \in Nat
    PROVE  NumberIn(text, default) \in Nat
BY DEF NumberIn, Magnitude

(* Two sets of thresholds look the same in a class if they are, and a ladder  *)
(* also if its rounded values are.                                            *)
LEMMA ShownFacts ==
    ASSUME NEW x \in Thresholds, NEW y \in Thresholds
    PROVE  /\ \A c \in Classes : x[c] = y[c] => Shown(x)[c] = Shown(y)[c]
           /\ /\ Rounded(x.jump.warn) = Rounded(y.jump.warn)
              /\ Rounded(x.jump.red) = Rounded(y.jump.red)
              /\ Rounded(x.jump.angle) = Rounded(y.jump.angle)
              => Shown(x)["jump"] = Shown(y)["jump"]
<1>1. ASSUME NEW z \in Thresholds
      PROVE  /\ Shown(z)["jump"] = [f \in {"warn", "red", "angle"} |-> Rounded(z.jump[f])]
             /\ Shown(z)["gap"] = z["gap"] /\ Shown(z)["can"] = z["can"]
  <2>1. PICK j : j = [f \in DOMAIN z.jump |-> Rounded(z.jump[f])]
    OBVIOUS
  <2>2. Shown(z) = [z EXCEPT !.jump = j]
    BY <2>1 DEF Shown
  <2>3. Shown(z)["jump"] = j /\ Shown(z)["gap"] = z["gap"] /\ Shown(z)["can"] = z["can"]
    BY <2>2 DEF Thresholds
  <2>4. z.jump \in Ladder
    BY DEF Thresholds
  <2>5. DOMAIN z.jump = {"warn", "red", "angle"}
    BY <2>4 DEF Ladder
  <2> QED BY <2>1, <2>3, <2>5
<1>2. ASSUME NEW c \in Classes, x[c] = y[c]
      PROVE  Shown(x)[c] = Shown(y)[c]
  <2>1. CASE c = "jump"
    <3>1. \A f \in {"warn", "red", "angle"} : Rounded(x.jump[f]) = Rounded(y.jump[f])
      BY <1>2, <2>1
    <3> QED BY <1>1, <2>1, <3>1
  <2>2. CASE c = "gap"
    BY <1>1, <1>2, <2>2
  <2>3. CASE c = "can"
    BY <1>1, <1>2, <2>3
  <2> QED BY <2>1, <2>2, <2>3 DEF Classes
<1>3. ASSUME Rounded(x.jump.warn) = Rounded(y.jump.warn), Rounded(x.jump.red) = Rounded(y.jump.red),
             Rounded(x.jump.angle) = Rounded(y.jump.angle)
      PROVE  Shown(x)["jump"] = Shown(y)["jump"]
  <2>1. \A f \in {"warn", "red", "angle"} : Rounded(x.jump[f]) = Rounded(y.jump[f])
    BY <1>3
  <2> QED BY <1>1, <2>1
<1> QED BY <1>2, <1>3

Panels == {"torque", "angle", "gap", "can"}
Stages == {"sent", "answered", "done"}
Tolds  == {"nothing", "ok", "error"}
Wanted == Ladder \cup Int \cup Bands

Request == [ui : Uis, panel : Panels, wanted : Wanted, stage : Stages, ok : BOOLEAN, told : Tolds]

\* A panel wants what its class has.
Fits(panel, wanted) ==
    /\ panel \in {"torque", "angle"} => wanted \in Ladder
    /\ panel = "gap" => wanted \in Int
    /\ panel = "can" => wanted \in Bands

(* What the interface shows after a confirmed command is its own part of it.  *)
LEMMA ShownAfterFacts ==
    ASSUME NEW old \in Thresholds, NEW panel \in Panels, NEW wanted, Fits(panel, wanted)
    PROVE  /\ ShownAfter(panel, old, wanted) \in Thresholds
           /\ panel # "gap" => ShownAfter(panel, old, wanted).gap = old.gap
           /\ panel # "can" => ShownAfter(panel, old, wanted).can = old.can
           /\ panel \notin {"torque", "angle"} => ShownAfter(panel, old, wanted).jump = old.jump
           /\ panel = "gap" => ShownAfter(panel, old, wanted).gap = wanted
           /\ panel = "can" => ShownAfter(panel, old, wanted).can = wanted
           /\ panel = "torque" =>
                 /\ ShownAfter(panel, old, wanted).jump.warn = Rounded(wanted.warn)
                 /\ ShownAfter(panel, old, wanted).jump.red = Rounded(wanted.red)
                 /\ ShownAfter(panel, old, wanted).jump.angle = old.jump.angle
           /\ panel = "angle" =>
                 /\ ShownAfter(panel, old, wanted).jump.warn = old.jump.warn
                 /\ ShownAfter(panel, old, wanted).jump.red = old.jump.red
                 /\ ShownAfter(panel, old, wanted).jump.angle = Rounded(wanted.angle)
<1>1. /\ old.jump \in Ladder
      /\ \A x \in Ladder : [old EXCEPT !.jump = x] \in Thresholds
  BY DEF Thresholds
<1>2. \A j \in Ladder : \A n \in Nat : /\ [j EXCEPT !.warn = n] \in Ladder
                                        /\ [j EXCEPT !.red = n] \in Ladder
                                        /\ [j EXCEPT !.angle = n] \in Ladder
  BY DEF Ladder
<1>3. CASE panel = "torque"
  <2>1. wanted.warn \in Nat /\ wanted.red \in Nat
    BY <1>3 DEF Fits, Ladder
  <2>2. PICK w \in Nat, r \in Nat : w = Rounded(wanted.warn) /\ r = Rounded(wanted.red)
    BY <2>1, RoundedFacts
  <2>3. PICK one : one = [old EXCEPT !.jump.warn = w]
    OBVIOUS
  <2>4. one \in Thresholds /\ one.jump = [old.jump EXCEPT !.warn = w] /\ one.gap = old.gap /\ one.can = old.can
    <3>1. one = [old EXCEPT !.jump = [old.jump EXCEPT !.warn = w]]
      BY <2>3
    <3>2. PICK n \in Ladder : n = [old.jump EXCEPT !.warn = w]
      BY <1>1, <1>2
    <3>3. one = [old EXCEPT !.jump = n]
      BY <3>1, <3>2
    <3>4. one \in Thresholds
      BY <1>1, <3>3
    <3>5. one.jump = n /\ one.gap = old.gap /\ one.can = old.can
      BY <3>3 DEF Thresholds
    <3> QED BY <3>2, <3>4, <3>5
  <2>5. PICK two : two = [one EXCEPT !.jump.red = r]
    OBVIOUS
  <2>6. two \in Thresholds /\ two.jump = [one.jump EXCEPT !.red = r] /\ two.gap = one.gap /\ two.can = one.can
    <3>1. two = [one EXCEPT !.jump = [one.jump EXCEPT !.red = r]]
      BY <2>5
    <3>2. one.jump \in Ladder
      BY <2>4 DEF Thresholds
    <3>3. two \in Thresholds
      BY <1>2, <2>4, <3>1, <3>2 DEF Thresholds
    <3> QED BY <2>4, <3>1, <3>3 DEF Thresholds
  <2>7. ShownAfter(panel, old, wanted) = two
    BY <1>3, <2>2, <2>3, <2>5 DEF ShownAfter
  <2>8. two.jump.warn = w /\ two.jump.red = r /\ two.jump.angle = old.jump.angle
    <3>1. old.jump \in Ladder /\ one.jump \in Ladder
      BY <2>4 DEF Thresholds
    <3> QED BY <2>4, <2>6, <3>1 DEF Ladder
  <2> QED BY <1>3, <2>2, <2>4, <2>6, <2>7, <2>8
<1>4. CASE panel = "angle"
  <2>1. wanted.angle \in Nat
    BY <1>4 DEF Fits, Ladder
  <2>2. PICK a \in Nat : a = Rounded(wanted.angle)
    BY <2>1, RoundedFacts
  <2>3. PICK n \in Ladder : n = [old.jump EXCEPT !.angle = a]
    BY <1>1, <1>2
  <2>4. PICK one : one = [old EXCEPT !.jump = n]
    OBVIOUS
  <2>5. one \in Thresholds /\ one.jump = [old.jump EXCEPT !.angle = a]
        /\ one.gap = old.gap /\ one.can = old.can
    <3>1. one \in Thresholds
      BY <1>1, <2>4
    <3>2. one.jump = n /\ one.gap = old.gap /\ one.can = old.can
      BY <2>4 DEF Thresholds
    <3> QED BY <2>3, <3>1, <3>2
  <2>6. ShownAfter(panel, old, wanted) = one
    <3>1. one = [old EXCEPT !.jump = [old.jump EXCEPT !.angle = a]]
      BY <2>3, <2>4
    <3>2. one = [old EXCEPT !.jump.angle = a]
      BY <3>1
    <3> QED BY <1>4, <2>2, <3>2 DEF ShownAfter
  <2>7. one.jump.angle = a /\ one.jump.warn = old.jump.warn /\ one.jump.red = old.jump.red
    <3>1. old.jump \in Ladder
      BY DEF Thresholds
    <3> QED BY <2>5, <3>1 DEF Ladder
  <2> QED BY <1>4, <2>2, <2>5, <2>6, <2>7
<1>5. CASE panel = "gap"
  <2>1. ShownAfter(panel, old, wanted) = [old EXCEPT !.gap = wanted] /\ wanted \in Int
    BY <1>5 DEF ShownAfter, Fits
  <2> QED BY <1>5, <2>1 DEF Thresholds
<1>6. CASE panel = "can"
  <2>1. ShownAfter(panel, old, wanted) = [old EXCEPT !.can = wanted] /\ wanted \in Bands
    BY <1>6 DEF ShownAfter, Fits
  <2> QED BY <1>6, <2>1 DEF Thresholds
<1> QED BY <1>3, <1>4, <1>5, <1>6 DEF Panels

------------------------------------------------------------------------------
(* The invariant of the control connections.                                  *)

ControlTyped ==
    /\ inForce \in Thresholds /\ applied \in [Uis -> Thresholds]
    /\ asked \in Seq(Request)
    /\ waitingFor \in [Uis -> 0..MaxRequests]
    /\ setBy \in [Classes -> Nat] /\ confirmed \in [Uis -> [Classes -> Nat]]

(* What is in force is what the detectors rely on.                            *)
Usable(x) ==
    /\ x.jump.warn <= x.jump.red
    /\ NoText \in {x.can.high, x.can.low} \/ x.can.low < x.can.high
    /\ x.gap > 0

(* A request that was not handled is not answered, nor reported as done.      *)
RequestsOK == \A r \in Asked :
    /\ Fits(asked[r].panel, asked[r].wanted)
    /\ asked[r].stage = "sent" => ~asked[r].ok /\ asked[r].told # "ok"

(* The part of a jump command that is not the panel's own is what u shows.    *)
OtherPart(u, panel, wanted) ==
    /\ panel = "torque" => wanted.angle = applied[u].jump.angle /\ wanted.warn <= wanted.red
    /\ panel = "angle" => wanted.warn = applied[u].jump.warn /\ wanted.red = applied[u].jump.red

(* An interface waits for its own request, and for the only one of its own    *)
(* that was neither confirmed nor reported as failed.                         *)
WaitsOK ==
    /\ \A u \in Uis : waitingFor[u] # 0 =>
          /\ waitingFor[u] \in Asked
          /\ asked[waitingFor[u]].ui = u /\ asked[waitingFor[u]].told = "nothing"
          /\ OtherPart(u, asked[waitingFor[u]].panel, asked[waitingFor[u]].wanted)
    /\ \A r \in Asked : asked[r].told = "nothing" => waitingFor[asked[r].ui] = r

(* The thresholds in force are the defaults or those of the last request.     *)
ForceOK == \A c \in Classes :
    /\ setBy[c] = 0 => inForce[c] = Defaults[c]
    /\ setBy[c] # 0 =>
          /\ setBy[c] \in Asked
          /\ ClassOf(asked[setBy[c]].panel) = c
          /\ asked[setBy[c]].ok
          /\ inForce[c] = Normalized(c, asked[setBy[c]].wanted)

(* A panel shows the defaults until a request of its own is confirmed.        *)
PanelsOK == \A u \in Uis :
    /\ applied[u].jump.warn <= applied[u].jump.red
    /\ \A c \in Classes : confirmed[u][c] = 0 => applied[u][c] = Defaults[c]

(* The request in force was confirmed to its interface: that shows it.  A     *)
(* request handled that is still waited for: it is in force, or one of        *)
(* another interface is, or one that was reported as failed.                  *)
ToldOK == \A u \in Uis, c \in Classes :
    /\ setBy[c] # 0 /\ asked[setBy[c]].ui = u /\ asked[setBy[c]].told = "ok"
          => Shown(inForce)[c] = Shown(applied[u])[c]
    /\ /\ waitingFor[u] # 0
       /\ asked[waitingFor[u]].stage = "answered" /\ asked[waitingFor[u]].ok
       /\ c = ClassOf(asked[waitingFor[u]].panel)
       => \/ setBy[c] = waitingFor[u]
          \/ setBy[c] # 0 /\ (asked[setBy[c]].ui # u \/ asked[setBy[c]].told = "error")

ControlInv ==
    ControlTyped /\ Usable(inForce) /\ RequestsOK /\ WaitsOK /\ ForceOK /\ PanelsOK /\ ToldOK

(* The invariant is stronger than what the panels promise.                    *)
LEMMA ControlInvAgrees == ControlInv => ThresholdsAgree
<1> SUFFICES ASSUME ControlInv PROVE ThresholdsAgree
  OBVIOUS
<1> USE DEF ControlInv
<1>1. ControlTypeOK
  <2>1. \A r \in Asked : asked[r] \in Request
    BY DEF ControlTyped, Asked
  <2>2. \A r \in Asked : asked[r].stage \in {"sent", "answered", "done"} /\ asked[r].ok \in BOOLEAN
    BY <2>1 DEF Request, Stages
  <2> QED BY <2>2 DEF ControlTyped, Usable, ControlTypeOK
<1>2. ASSUME NEW u \in Uis, NEW c \in Classes,
             ~CollectorForgot(u, c), ~SetByAnother(u, c), ~NotConfirmed(c), ~AnswerOnItsWay(c)
      PROVE  Shown(inForce)[c] = Shown(applied[u])[c]
  <2>1. inForce \in Thresholds /\ applied[u] \in Thresholds
    BY DEF ControlTyped
  <2>2. CASE setBy[c] = 0
    <3>1. confirmed[u][c] = 0
      BY <1>2, <2>2 DEF CollectorForgot
    <3>2. inForce[c] = applied[u][c]
      BY <2>2, <3>1 DEF ForceOK, PanelsOK
    <3> QED BY <2>1, <3>2, ShownFacts
  <2>3. CASE setBy[c] # 0
    <3>1. setBy[c] \in Asked
      BY <2>3 DEF ForceOK
    <3>2. asked[setBy[c]] \in Request
      BY <3>1 DEF ControlTyped, Asked
    <3>3. asked[setBy[c]].told = "ok" /\ asked[setBy[c]].ui = u
      BY <1>2, <2>3, <3>2 DEF SetByAnother, NotConfirmed, AnswerOnItsWay, Request, Tolds
    <3> QED BY <2>3, <3>3 DEF ToldOK
  <2> QED BY <2>2, <2>3
<1> QED BY <1>1, <1>2 DEF ThresholdsAgree

(* At first nothing is asked and everybody has the defaults.                  *)
LEMMA ControlInitial == ControlInit => ControlInv
<1> SUFFICES ASSUME ControlInit PROVE ControlInv
  OBVIOUS
<1>1. asked = <<>> /\ DOMAIN asked = {} /\ asked \in Seq(Request)
  BY DEF ControlInit
<1>2. /\ inForce = Defaults /\ \A u \in Uis : applied[u] = Defaults /\ waitingFor[u] = 0
      /\ \A c \in Classes : setBy[c] = 0
  BY DEF ControlInit
<1>3. ControlTyped
  <2>1. inForce \in Thresholds /\ applied \in [Uis -> Thresholds]
    BY DefaultsTyped DEF ControlInit
  <2>2. waitingFor \in [Uis -> 0..MaxRequests]
    BY ControlAssumption DEF ControlInit
  <2>3. setBy \in [Classes -> Nat] /\ confirmed \in [Uis -> [Classes -> Nat]]
    BY DEF ControlInit
  <2> QED BY <1>1, <2>1, <2>2, <2>3 DEF ControlTyped
<1>4. Usable(inForce)
  <2>1. Defaults.can.high = NoText /\ Defaults.gap = 1
    BY DEF Defaults
  <2> QED BY <1>2, <2>1, DefaultsTyped DEF Usable
<1>5. RequestsOK /\ WaitsOK
  BY <1>1, <1>2 DEF RequestsOK, WaitsOK, Asked
<1>6. ForceOK /\ PanelsOK
  BY <1>2, DefaultsTyped DEF ForceOK, PanelsOK
<1>7. ToldOK
  BY <1>2 DEF ToldOK
<1> QED BY <1>3, <1>4, <1>5, <1>6, <1>7 DEF ControlInv

(* A new request is the last one.                                             *)
LEMMA AskFacts ==
    ASSUME ControlTyped, NEW u \in Uis, NEW panel \in Panels, NEW wanted \in Wanted,
           Ask(u, panel, wanted)
    PROVE  /\ waitingFor[u] = 0
           /\ asked' \in Seq(Request)
           /\ Len(asked') = Len(asked) + 1 /\ Len(asked) \in Nat
           /\ Asked = 1..Len(asked) /\ Asked' = 1..(Len(asked) + 1)
           /\ \A r \in Asked : asked'[r] = asked[r]
           /\ asked'[Len(asked) + 1].ui = u /\ asked'[Len(asked) + 1].panel = panel
           /\ asked'[Len(asked) + 1].wanted = wanted /\ asked'[Len(asked) + 1].stage = "sent"
           /\ ~asked'[Len(asked) + 1].ok /\ asked'[Len(asked) + 1].told = "nothing"
           /\ waitingFor' \in [Uis -> 0..MaxRequests]
           /\ waitingFor'[u] = Len(asked) + 1
           /\ \A v \in Uis \ {u} : waitingFor'[v] = waitingFor[v]
           /\ UNCHANGED <<inForce, applied, setBy, confirmed>>
<1>1. asked \in Seq(Request) /\ Len(asked) \in Nat /\ Asked = 1..Len(asked)
  BY DEF ControlTyped, Asked
<1>2. Cardinality(Asked) = Len(asked)
  <2>1. Cardinality(1..Len(asked)) = Len(asked)
    BY <1>1, FS_Interval
  <2> QED BY <1>1, <2>1
<1>3. PICK q : q = [ui |-> u, panel |-> panel, wanted |-> wanted,
                    stage |-> "sent", ok |-> FALSE, told |-> "nothing"]
  OBVIOUS
<1>4. q \in Request
  BY <1>3 DEF Request, Stages, Tolds
<1>5. /\ q.ui = u /\ q.panel = panel /\ q.wanted = wanted
      /\ q.stage = "sent" /\ ~q.ok /\ q.told = "nothing"
  BY <1>3
<1>6. /\ waitingFor[u] = 0 /\ Len(asked) < MaxRequests
      /\ asked' = Append(asked, q)
      /\ waitingFor' = [waitingFor EXCEPT ![u] = Len(asked) + 1]
      /\ UNCHANGED <<inForce, applied, setBy, confirmed>>
  BY <1>2, <1>3, Zenon DEF Ask
<1>7. /\ asked' \in Seq(Request)
      /\ Len(asked') = Len(asked) + 1 /\ Asked' = 1..(Len(asked) + 1)
      /\ \A r \in Asked : asked'[r] = asked[r]
      /\ asked'[Len(asked) + 1] = q
  <2>1. asked' = Append(asked, q)
    BY <1>6
  <2> QED BY <1>1, <1>4, <2>1 DEF Asked
<1>8. waitingFor' \in [Uis -> 0..MaxRequests]
  <2>1. Len(asked) + 1 \in 0..MaxRequests
    BY <1>1, <1>6, ControlAssumption
  <2>2. waitingFor' = [waitingFor EXCEPT ![u] = Len(asked) + 1] /\ waitingFor \in [Uis -> 0..MaxRequests]
    BY <1>6 DEF ControlTyped
  <2> QED BY <2>1, <2>2
<1>9. waitingFor'[u] = Len(asked) + 1 /\ \A v \in Uis \ {u} : waitingFor'[v] = waitingFor[v]
  <2>1. waitingFor' = [waitingFor EXCEPT ![u] = Len(asked) + 1] /\ DOMAIN waitingFor = Uis
    BY <1>6 DEF ControlTyped
  <2> QED BY <2>1
<1> QED BY <1>1, <1>5, <1>6, <1>7, <1>8, <1>9

(* A click asks for what fits the panel and carries the other part as shown.  *)
LEMMA AskStep ==
    ASSUME ControlInv, NEW u \in Uis, NEW panel \in Panels, NEW wanted \in Wanted,
           Ask(u, panel, wanted), Fits(panel, wanted),
           OtherPart(u, panel, wanted)
    PROVE  ControlInv'
<1> USE DEF ControlInv
<1>1. PICK n \in Nat : n = Len(asked)
  BY DEF ControlTyped
<1>2. /\ Asked = 1..n /\ Asked' = 1..(n + 1)
      /\ \A r \in Asked : asked'[r] = asked[r]
      /\ asked'[n + 1].ui = u /\ asked'[n + 1].panel = panel /\ asked'[n + 1].wanted = wanted
      /\ asked'[n + 1].stage = "sent" /\ ~asked'[n + 1].ok /\ asked'[n + 1].told = "nothing"
  BY <1>1, AskFacts
<1>3. /\ asked' \in Seq(Request) /\ waitingFor' \in [Uis -> 0..MaxRequests]
      /\ waitingFor[u] = 0 /\ waitingFor'[u] = n + 1
      /\ \A v \in Uis \ {u} : waitingFor'[v] = waitingFor[v]
      /\ inForce' = inForce /\ applied' = applied /\ setBy' = setBy /\ confirmed' = confirmed
  BY <1>1, AskFacts
<1>4. ControlTyped' /\ Usable(inForce)'
  BY <1>3 DEF ControlTyped, Usable
<1>5. RequestsOK'
  <2>1. \A r \in Asked' : r \in Asked \/ r = n + 1
    BY <1>2
  <2> QED BY <1>2, <2>1 DEF RequestsOK
<1>6. WaitsOK'
  <2>1. \A r \in Asked' : r \in Asked \/ r = n + 1
    BY <1>2
  <2>2. n + 1 \in Asked' /\ Asked \subseteq Asked' /\ n + 1 # 0
    BY <1>2
  <2>3. OtherPart(u, asked[n + 1].panel, asked[n + 1].wanted)'
    BY <1>2, <1>3 DEF OtherPart
  <2>4. ASSUME NEW v \in Uis, waitingFor'[v] # 0
        PROVE  /\ waitingFor'[v] \in Asked'
               /\ asked'[waitingFor'[v]].ui = v /\ asked'[waitingFor'[v]].told = "nothing"
               /\ OtherPart(v, asked[waitingFor[v]].panel, asked[waitingFor[v]].wanted)'
    <3>1. CASE v = u
      BY <1>2, <1>3, <2>2, <2>3, <3>1
    <3>2. CASE v # u
      <4>1. waitingFor'[v] = waitingFor[v] /\ waitingFor[v] \in Asked
        BY <1>3, <2>4, <3>2 DEF WaitsOK
      <4>2. asked'[waitingFor[v]] = asked[waitingFor[v]]
        BY <1>2, <4>1
      <4>3. OtherPart(v, asked[waitingFor[v]].panel, asked[waitingFor[v]].wanted) /\ asked[waitingFor[v]].ui = v
            /\ asked[waitingFor[v]].told = "nothing"
        BY <2>4, <4>1 DEF WaitsOK
      <4> QED BY <1>3, <2>2, <4>1, <4>2, <4>3 DEF OtherPart
    <3> QED BY <3>1, <3>2
  <2>5. ASSUME NEW r \in Asked', asked'[r].told = "nothing"
        PROVE  waitingFor'[asked'[r].ui] = r
    <3>1. CASE r = n + 1
      BY <1>2, <1>3, <3>1
    <3>2. CASE r \in Asked
      <4>1. asked[r].told = "nothing" /\ waitingFor[asked[r].ui] = r
        BY <1>2, <2>5, <3>2 DEF WaitsOK
      <4>2. asked[r].ui \in Uis /\ r # 0
        <5>1. asked[r] \in Request
          BY <3>2 DEF ControlTyped, Asked
        <5>2. asked[r].ui \in Uis
          BY <5>1 DEF Request
        <5> QED BY <1>2, <3>2, <5>2
      <4>3. asked[r].ui # u
        BY <1>3, <4>1, <4>2
      <4> QED BY <1>2, <1>3, <3>2, <4>1, <4>2, <4>3
    <3> QED BY <2>1, <3>1, <3>2
  <2> QED BY <2>4, <2>5 DEF WaitsOK
<1>7. ForceOK' /\ PanelsOK'
  BY <1>2, <1>3 DEF ForceOK, PanelsOK
<1>8. ToldOK'
  <2>1. \A c \in Classes : setBy[c] # 0 => setBy[c] \in Asked
    BY DEF ForceOK
  <2>2. ASSUME NEW v \in Uis, NEW c \in Classes,
               setBy'[c] # 0 /\ asked'[setBy'[c]].ui = v /\ asked'[setBy'[c]].told = "ok"
        PROVE  Shown(inForce)'[c] = Shown(applied[v])'[c]
    <3>1. Shown(inForce)[c] = Shown(applied[v])[c]
      BY <1>2, <1>3, <2>1, <2>2 DEF ToldOK
    <3> QED BY <1>3, <3>1 DEF Shown
  <2>3. ASSUME NEW v \in Uis, NEW c \in Classes,
               waitingFor'[v] # 0,
               asked'[waitingFor'[v]].stage = "answered" /\ asked'[waitingFor'[v]].ok,
               c = ClassOf(asked'[waitingFor'[v]].panel)
        PROVE  \/ setBy'[c] = waitingFor'[v]
               \/ setBy'[c] # 0 /\ (asked'[setBy'[c]].ui # v \/ asked'[setBy'[c]].told = "error")
    <3>1. v # u /\ waitingFor'[v] = waitingFor[v]
      BY <1>2, <1>3, <2>3
    <3>2. waitingFor[v] \in Asked
      BY <2>3, <3>1 DEF WaitsOK
    <3>3. asked'[waitingFor[v]] = asked[waitingFor[v]]
      BY <1>2, <3>2
    <3>4. \/ setBy[c] = waitingFor[v]
          \/ setBy[c] # 0 /\ (asked[setBy[c]].ui # v \/ asked[setBy[c]].told = "error")
      BY <2>3, <3>1, <3>3 DEF ToldOK
    <3> QED BY <1>2, <1>3, <2>1, <3>1, <3>4
  <2> QED BY <2>2, <2>3 DEF ToldOK, ClassOf
<1> QED BY <1>4, <1>5, <1>6, <1>7, <1>8

(* What becomes of a request are its stage, its answer and its report.        *)
LEMMA RequestFields ==
    ASSUME NEW q \in Request
    PROVE  /\ \A x \in Stages :
                 /\ [q EXCEPT !.stage = x] \in Request
                 /\ [q EXCEPT !.stage = x].ui = q.ui /\ [q EXCEPT !.stage = x].panel = q.panel
                 /\ [q EXCEPT !.stage = x].wanted = q.wanted /\ [q EXCEPT !.stage = x].stage = x
                 /\ [q EXCEPT !.stage = x].ok = q.ok /\ [q EXCEPT !.stage = x].told = q.told
           /\ \A x \in BOOLEAN :
                 /\ [q EXCEPT !.ok = x] \in Request
                 /\ [q EXCEPT !.ok = x].ui = q.ui /\ [q EXCEPT !.ok = x].panel = q.panel
                 /\ [q EXCEPT !.ok = x].wanted = q.wanted /\ [q EXCEPT !.ok = x].stage = q.stage
                 /\ [q EXCEPT !.ok = x].ok = x /\ [q EXCEPT !.ok = x].told = q.told
           /\ \A x \in Tolds :
                 /\ [q EXCEPT !.told = x] \in Request
                 /\ [q EXCEPT !.told = x].ui = q.ui /\ [q EXCEPT !.told = x].panel = q.panel
                 /\ [q EXCEPT !.told = x].wanted = q.wanted /\ [q EXCEPT !.told = x].stage = q.stage
                 /\ [q EXCEPT !.told = x].ok = q.ok /\ [q EXCEPT !.told = x].told = x
BY DEF Request

\* Request r alone changes, and not in what it asks for.
Amended(r) ==
    /\ asked' \in Seq(Request) /\ Asked' = Asked
    /\ \A i \in Asked \ {r} : asked'[i] = asked[i]
    /\ asked'[r].ui = asked[r].ui /\ asked'[r].panel = asked[r].panel
    /\ asked'[r].wanted = asked[r].wanted

(* Putting another record in the place of a request amends it.                *)
LEMMA Amends ==
    ASSUME ControlTyped, NEW r \in Asked, NEW q \in Request,
           q.ui = asked[r].ui, q.panel = asked[r].panel, q.wanted = asked[r].wanted,
           asked' = [asked EXCEPT ![r] = q]
    PROVE  Amended(r) /\ asked'[r] = q
<1>1. asked \in Seq(Request) /\ r \in DOMAIN asked
  BY DEF ControlTyped, Asked
<1>2. asked' \in Seq(Request) /\ DOMAIN asked' = DOMAIN asked /\ asked'[r] = q
  BY <1>1
<1>3. \A i \in DOMAIN asked \ {r} : asked'[i] = asked[i]
  BY <1>1
<1> QED BY <1>2, <1>3 DEF Amended, Asked

(* The other requests are as they were.                                       *)
LEMMA AmendedRequests ==
    ASSUME ControlInv, NEW r \in Asked, Amended(r),
           asked'[r].stage = "sent" => ~asked'[r].ok /\ asked'[r].told # "ok"
    PROVE  RequestsOK'
BY DEF ControlInv, RequestsOK, Amended

(* Nobody's waiting changes when nothing is reported.                         *)
LEMMA AmendedWaits ==
    ASSUME ControlInv, NEW r \in Asked, Amended(r), asked'[r].told = asked[r].told,
           UNCHANGED <<waitingFor, applied>>
    PROVE  WaitsOK'
<1>1. \A i \in Asked : /\ asked'[i].ui = asked[i].ui /\ asked'[i].told = asked[i].told
                       /\ asked'[i].panel = asked[i].panel /\ asked'[i].wanted = asked[i].wanted
  BY DEF Amended
<1>2. Asked' = Asked
  BY DEF Amended
<1> QED BY <1>1, <1>2 DEF ControlInv, WaitsOK, OtherPart

(* An interface that is told the end of its request waits no longer.          *)
LEMMA WaitEnds ==
    ASSUME ControlInv, NEW u \in Uis, NEW r \in Asked, r = waitingFor[u], Amended(r),
           asked'[r].told # "nothing",
           waitingFor' = [waitingFor EXCEPT ![u] = 0],
           \A v \in Uis \ {u} : applied'[v] = applied[v]
    PROVE  WaitsOK' /\ waitingFor' \in [Uis -> 0..MaxRequests]
<1> USE DEF ControlInv
<1>1. /\ waitingFor'[u] = 0 /\ \A v \in Uis \ {u} : waitingFor'[v] = waitingFor[v]
      /\ waitingFor' \in [Uis -> 0..MaxRequests]
  BY ControlAssumption DEF ControlTyped
<1>2. r # 0
  BY DEF ControlTyped, Asked
<1>3. asked[r].ui = u
  BY <1>2 DEF WaitsOK
<1>4. ASSUME NEW v \in Uis, waitingFor'[v] # 0
      PROVE  /\ waitingFor'[v] \in Asked'
             /\ asked'[waitingFor'[v]].ui = v /\ asked'[waitingFor'[v]].told = "nothing"
             /\ OtherPart(v, asked[waitingFor[v]].panel, asked[waitingFor[v]].wanted)'
  <2>1. v # u /\ waitingFor'[v] = waitingFor[v]
    BY <1>1, <1>4
  <2>2. /\ waitingFor[v] \in Asked /\ asked[waitingFor[v]].ui = v
        /\ asked[waitingFor[v]].told = "nothing"
        /\ OtherPart(v, asked[waitingFor[v]].panel, asked[waitingFor[v]].wanted)
    BY <1>4, <2>1 DEF WaitsOK
  <2>3. asked'[waitingFor[v]] = asked[waitingFor[v]] /\ Asked' = Asked
    BY <1>3, <2>1, <2>2 DEF Amended
  <2> QED BY <2>1, <2>2, <2>3 DEF OtherPart
<1>5. ASSUME NEW i \in Asked', asked'[i].told = "nothing"
      PROVE  waitingFor'[asked'[i].ui] = i
  <2>1. i \in Asked /\ i # r /\ asked'[i] = asked[i]
    BY <1>5 DEF Amended
  <2>2. asked[i] \in Request
    BY <2>1 DEF ControlTyped, Asked
  <2>3. asked[i].ui \in Uis
    BY <2>2 DEF Request
  <2>4. waitingFor[asked[i].ui] = i
    BY <1>5, <2>1 DEF WaitsOK
  <2> QED BY <1>1, <2>1, <2>3, <2>4
<1> QED BY <1>1, <1>4, <1>5 DEF WaitsOK

(* What is in force stays confirmed.                                          *)
LEMMA AmendedForce ==
    ASSUME ControlInv, NEW r \in Asked, Amended(r), asked[r].ok => asked'[r].ok,
           UNCHANGED <<inForce, setBy>>
    PROVE  ForceOK'
<1>1. \A i \in Asked : /\ asked[i].ok => asked'[i].ok
                       /\ asked'[i].panel = asked[i].panel /\ asked'[i].wanted = asked[i].wanted
  BY DEF Amended
<1>2. Asked' = Asked
  BY DEF Amended
<1> QED BY <1>1, <1>2 DEF ControlInv, ForceOK

(* Setting one class leaves the others.                                       *)
LEMMA SetClass ==
    ASSUME NEW x \in Thresholds, NEW c \in Classes, NEW v,
           c = "jump" => v \in Ladder, c = "gap" => v \in Int, c = "can" => v \in Bands
    PROVE  /\ [x EXCEPT ![c] = v] \in Thresholds
           /\ [x EXCEPT ![c] = v][c] = v
           /\ \A d \in Classes \ {c} : [x EXCEPT ![c] = v][d] = x[d]
<1>1. CASE c = "jump"
  BY <1>1 DEF Thresholds, Classes
<1>2. CASE c = "gap"
  BY <1>2 DEF Thresholds, Classes
<1>3. CASE c = "can"
  BY <1>3 DEF Thresholds, Classes
<1> QED BY <1>1, <1>2, <1>3 DEF Classes

(* What the control server accepts and puts in order is usable.               *)
LEMMA AcceptedUsable ==
    ASSUME NEW panel \in Panels, NEW wanted, Fits(panel, wanted), Accepts(ClassOf(panel), wanted),
           NEW x \in Thresholds, Usable(x)
    PROVE  /\ ClassOf(panel) \in Classes
           /\ [x EXCEPT ![ClassOf(panel)] = Normalized(ClassOf(panel), wanted)] \in Thresholds
           /\ Usable([x EXCEPT ![ClassOf(panel)] = Normalized(ClassOf(panel), wanted)])
<1>1. PICK c : c = ClassOf(panel)
  OBVIOUS
<1>2. PICK v : v = Normalized(c, wanted)
  OBVIOUS
<1>3. /\ c = "jump" => wanted \in Ladder
      /\ c = "gap" => wanted \in Int
      /\ c = "can" => wanted \in Bands
      /\ c \in Classes
  BY <1>1 DEF Fits, ClassOf, Panels, Classes
<1>4. c = "jump" => v \in Ladder /\ v.warn <= v.red
  <2> SUFFICES ASSUME c = "jump" PROVE v \in Ladder /\ v.warn <= v.red
    OBVIOUS
  <2>1. wanted \in Ladder /\ wanted.warn \in Nat /\ wanted.red \in Nat
    BY <1>3 DEF Ladder
  <2>2. CASE wanted.red < wanted.warn
    <3>1. v = [wanted EXCEPT !.red = wanted.warn]
      BY <1>2, <2>2 DEF Normalized
    <3> QED BY <2>1, <3>1 DEF Ladder
  <2>3. CASE ~(wanted.red < wanted.warn)
    <3>1. v = wanted
      BY <1>2, <2>3 DEF Normalized
    <3> QED BY <2>1, <2>3, <3>1
  <2> QED BY <2>2, <2>3
<1>5. c # "jump" => v = wanted
  BY <1>2 DEF Normalized
<1>6. c = "gap" => v > 0
  BY <1>1, <1>5 DEF Accepts
<1>7. c = "can" => NoText \in {v.high, v.low} \/ v.low < v.high
  BY <1>1, <1>5 DEF Accepts
<1>8. PICK y : y = [x EXCEPT ![c] = v]
  OBVIOUS
<1>9. y \in Thresholds /\ y[c] = v /\ \A d \in Classes \ {c} : y[d] = x[d]
  <2>1. c = "jump" => v \in Ladder
    BY <1>4
  <2>2. c = "gap" => v \in Int
    BY <1>3, <1>5
  <2>3. c = "can" => v \in Bands
    BY <1>3, <1>5
  <2>4. /\ [x EXCEPT ![c] = v] \in Thresholds
        /\ [x EXCEPT ![c] = v][c] = v
        /\ \A d \in Classes \ {c} : [x EXCEPT ![c] = v][d] = x[d]
    BY <1>3, <2>1, <2>2, <2>3, SetClass
  <2> QED BY <1>8, <2>4
<1>10. Usable(y)
  <2>1. CASE c = "jump"
    <3>1. y.jump = v /\ y.gap = x.gap /\ y.can = x.can
      BY <1>9, <2>1 DEF Classes
    <3> QED BY <1>4, <2>1, <3>1 DEF Usable
  <2>2. CASE c = "gap"
    <3>1. y.jump = x.jump /\ y.gap = v /\ y.can = x.can
      BY <1>9, <2>2 DEF Classes
    <3> QED BY <1>6, <2>2, <3>1 DEF Usable
  <2>3. CASE c = "can"
    <3>1. y.jump = x.jump /\ y.gap = x.gap /\ y.can = v
      BY <1>9, <2>3 DEF Classes
    <3> QED BY <1>7, <2>3, <3>1 DEF Usable
  <2> QED BY <1>3, <2>1, <2>2, <2>3 DEF Classes
<1> QED BY <1>1, <1>2, <1>3, <1>8, <1>9, <1>10

(* A request is accepted or it is not.                                        *)
LEMMA AcceptsOrNot ==
    ASSUME NEW c \in Classes, NEW wanted
    PROVE  Accepts(c, wanted) \in BOOLEAN
<1>1. CASE c = "can"
  <2>1. Accepts(c, wanted) = (\/ NoText \in {wanted.high, wanted.low} \/ wanted.low < wanted.high)
    BY <1>1 DEF Accepts
  <2> QED BY <2>1, Zenon
<1>2. CASE c = "gap"
  <2>1. Accepts(c, wanted) = (wanted > 0)
    BY <1>2 DEF Accepts
  <2> QED BY <2>1
<1>3. CASE c = "jump"
  BY <1>3 DEF Accepts
<1> QED BY <1>1, <1>2, <1>3 DEF Classes

(* The control server handles a request: the last one of its class is in      *)
(* force, and nobody was told of it yet.                                      *)
LEMMA HandleStep ==
    ASSUME ControlInv, NEW r \in Asked, HandleRequest(r)
    PROVE  ControlInv'
<1> USE DEF ControlInv
<1>1. PICK c : c = ClassOf(asked[r].panel)
  OBVIOUS
<1>2. PICK ok \in BOOLEAN : ok = Accepts(c, asked[r].wanted)
  <2>1. Accepts(c, asked[r].wanted) \in BOOLEAN
    <3>1. asked[r] \in Request
      BY DEF ControlTyped, Asked
    <3>2. asked[r].panel \in Panels
      BY <3>1 DEF Request
    <3>3. c \in Classes
      BY <1>1, <3>2 DEF ClassOf, Panels, Classes
    <3> QED BY <3>3, AcceptsOrNot
  <2> QED BY <2>1
<1>3. asked[r] \in Request /\ asked[r].panel \in Panels /\ r \in Nat /\ r # 0
  <2>1. asked[r] \in Request /\ r \in Nat /\ r # 0
    BY DEF ControlTyped, Asked
  <2> QED BY <2>1 DEF Request
<1>4. /\ asked[r].stage = "sent" /\ ~asked[r].ok /\ asked[r].told # "ok"
      /\ Fits(asked[r].panel, asked[r].wanted)
  BY DEF RequestsOK, HandleRequest
<1>5. Amended(r) /\ asked'[r].stage = "answered" /\ asked'[r].ok = ok /\ asked'[r].told = asked[r].told
  <2>1. PICK q1 \in Request : q1 = [asked[r] EXCEPT !.stage = "answered"]
    BY <1>3, RequestFields DEF Stages
  <2>2. /\ q1.ui = asked[r].ui /\ q1.panel = asked[r].panel /\ q1.wanted = asked[r].wanted
        /\ q1.stage = "answered" /\ q1.told = asked[r].told
    BY <1>3, <2>1, RequestFields DEF Stages
  <2>3. PICK q2 \in Request : q2 = [q1 EXCEPT !.ok = ok]
    BY RequestFields
  <2>4. /\ q2.ui = q1.ui /\ q2.panel = q1.panel /\ q2.wanted = q1.wanted
        /\ q2.stage = q1.stage /\ q2.told = q1.told /\ q2.ok = ok
    BY <2>3, RequestFields
  <2>5. asked' = [asked EXCEPT ![r] = q2]
    <3>1. asked' = [asked EXCEPT ![r].stage = "answered", ![r].ok = ok]
      BY <1>1, <1>2 DEF HandleRequest
    <3>2. DOMAIN asked = Asked
      BY DEF Asked
    <3> QED BY <2>1, <2>3, <3>1, <3>2
  <2> QED BY <2>2, <2>4, <2>5, Amends
<1>6. UNCHANGED <<applied, waitingFor, confirmed>>
  BY DEF HandleRequest
<1>7. RequestsOK' /\ WaitsOK'
  BY <1>5, <1>6, AmendedRequests, AmendedWaits
<1>8. PanelsOK'
  BY <1>6 DEF PanelsOK
<1>9. Asked' = Asked /\ \A i \in Asked : /\ asked'[i].ui = asked[i].ui /\ asked'[i].told = asked[i].told
                                         /\ asked'[i].panel = asked[i].panel
                                         /\ asked'[i].wanted = asked[i].wanted
                                         /\ i # r => asked'[i] = asked[i]
  BY <1>5 DEF Amended
<1>10. CASE ~ok
  <2>1. inForce' = inForce /\ setBy' = setBy
    BY <1>1, <1>2, <1>10 DEF HandleRequest
  <2>2. ForceOK'
    BY <1>4, <1>5, <2>1, AmendedForce
  <2>3. ControlTyped' /\ Usable(inForce)'
    BY <1>5, <1>6, <2>1 DEF ControlTyped, Usable, Amended
  <2>4. ToldOK'
    <3>1. \A d \in Classes : setBy[d] # 0 => setBy[d] \in Asked
      BY DEF ForceOK
    <3>2. \A v \in Uis : waitingFor[v] # 0 => waitingFor[v] \in Asked
      BY DEF WaitsOK
    <3>3. ASSUME NEW v \in Uis, NEW d \in Classes,
                 setBy[d] # 0 /\ asked'[setBy[d]].ui = v /\ asked'[setBy[d]].told = "ok"
          PROVE  Shown(inForce)'[d] = Shown(applied[v])'[d]
      BY <1>6, <1>9, <2>1, <3>1, <3>3 DEF ToldOK, Shown
    <3>4. ASSUME NEW v \in Uis, NEW d \in Classes,
                 waitingFor[v] # 0,
                 asked'[waitingFor[v]].stage = "answered" /\ asked'[waitingFor[v]].ok,
                 d = ClassOf(asked'[waitingFor[v]].panel)
          PROVE  \/ setBy[d] = waitingFor[v]
                 \/ setBy[d] # 0 /\ (asked'[setBy[d]].ui # v \/ asked'[setBy[d]].told = "error")
      <4>1. waitingFor[v] # r
        BY <1>5, <1>10, <3>4
      <4>2. asked'[waitingFor[v]] = asked[waitingFor[v]]
        BY <1>9, <3>2, <3>4, <4>1
      <4> QED BY <1>9, <3>1, <3>4, <4>2 DEF ToldOK
    <3> QED BY <1>6, <2>1, <3>3, <3>4 DEF ToldOK, ClassOf
  <2> QED BY <1>7, <1>8, <2>2, <2>3, <2>4
<1>11. CASE ok
  <2>1. inForce' = [inForce EXCEPT ![c] = Normalized(c, asked[r].wanted)] /\ setBy' = [setBy EXCEPT ![c] = r]
    BY <1>1, <1>2, <1>11 DEF HandleRequest
  <2>2. c \in Classes /\ inForce' \in Thresholds /\ Usable(inForce')
    BY <1>1, <1>2, <1>3, <1>4, <1>11, <2>1, AcceptedUsable DEF ControlTyped
  <2>3. /\ inForce'[c] = Normalized(c, asked[r].wanted) /\ \A d \in Classes \ {c} : inForce'[d] = inForce[d]
        /\ setBy'[c] = r /\ \A d \in Classes \ {c} : setBy'[d] = setBy[d]
        /\ setBy' \in [Classes -> Nat]
    <3>1. inForce \in Thresholds /\ setBy \in [Classes -> Nat]
      BY DEF ControlTyped
    <3>2. DOMAIN inForce = Classes
      BY <3>1 DEF Thresholds, Classes
    <3> QED BY <1>3, <2>1, <2>2, <3>1, <3>2
  <2>4. ControlTyped' /\ Usable(inForce)'
    BY <1>5, <1>6, <2>2, <2>3 DEF ControlTyped, Usable, Amended
  <2>5. ForceOK'
    <3>1. ASSUME NEW d \in Classes
          PROVE  /\ setBy'[d] = 0 => inForce'[d] = Defaults[d]
                 /\ setBy'[d] # 0 =>
                       /\ setBy'[d] \in Asked'
                       /\ ClassOf(asked'[setBy'[d]].panel) = d
                       /\ asked'[setBy'[d]].ok
                       /\ inForce'[d] = Normalized(d, asked'[setBy'[d]].wanted)
      <4>1. CASE d = c
        BY <1>1, <1>3, <1>5, <1>9, <1>11, <2>3, <4>1
      <4>2. CASE d # c
        <5>1. setBy'[d] = setBy[d] /\ inForce'[d] = inForce[d]
          BY <2>3, <4>2
        <5>2. CASE setBy[d] = 0
          BY <5>1, <5>2 DEF ForceOK
        <5>3. CASE setBy[d] # 0
          <6>1. /\ setBy[d] \in Asked /\ ClassOf(asked[setBy[d]].panel) = d /\ asked[setBy[d]].ok
                /\ inForce[d] = Normalized(d, asked[setBy[d]].wanted)
            BY <5>3 DEF ForceOK
          <6>2. setBy[d] # r
            BY <1>4, <6>1
          <6> QED BY <1>9, <5>1, <5>3, <6>1, <6>2
        <5> QED BY <5>2, <5>3
      <4> QED BY <4>1, <4>2
    <3> QED BY <3>1 DEF ForceOK, ClassOf, Normalized, Defaults
  <2>6. ToldOK'
    <3>1. \A d \in Classes : setBy[d] # 0 => setBy[d] \in Asked
      BY DEF ForceOK
    <3>2. ASSUME NEW v \in Uis, NEW d \in Classes,
                 setBy'[d] # 0 /\ asked'[setBy'[d]].ui = v /\ asked'[setBy'[d]].told = "ok"
          PROVE  Shown(inForce')[d] = Shown(applied[v])[d]
      <4>1. d # c
        BY <1>4, <1>5, <2>3, <3>2
      <4>2. setBy'[d] = setBy[d] /\ inForce'[d] = inForce[d]
        BY <2>3, <4>1
      <4>3. Shown(inForce)[d] = Shown(applied[v])[d]
        BY <1>9, <3>1, <3>2, <4>2 DEF ToldOK
      <4>4. Shown(inForce')[d] = Shown(inForce)[d]
        BY <2>2, <4>2, ShownFacts DEF ControlTyped
      <4> QED BY <4>3, <4>4
    <3>3. ASSUME NEW v \in Uis, NEW d \in Classes,
                 waitingFor[v] # 0,
                 asked'[waitingFor[v]].stage = "answered" /\ asked'[waitingFor[v]].ok,
                 d = ClassOf(asked'[waitingFor[v]].panel)
          PROVE  \/ setBy'[d] = waitingFor[v]
                 \/ setBy'[d] # 0 /\ (asked'[setBy'[d]].ui # v \/ asked'[setBy'[d]].told = "error")
      <4>1. waitingFor[v] \in Asked
        BY <3>3 DEF WaitsOK
      <4>2. CASE waitingFor[v] = r
        BY <1>1, <1>9, <2>3, <3>3, <4>2
      <4>3. CASE waitingFor[v] # r /\ d = c
        <5>1. asked[r].told = "nothing" => waitingFor[asked[r].ui] = r
          BY DEF WaitsOK
        <5>2. asked[r].ui # v \/ asked[r].told = "error"
          BY <1>3, <1>4, <4>3, <5>1 DEF Request, Tolds
        <5> QED BY <1>3, <1>9, <2>3, <4>3, <5>2
      <4>4. CASE waitingFor[v] # r /\ d # c
        <5>1. asked'[waitingFor[v]] = asked[waitingFor[v]] /\ setBy'[d] = setBy[d]
          BY <1>9, <2>3, <4>1, <4>4
        <5>2. \/ setBy[d] = waitingFor[v]
              \/ setBy[d] # 0 /\ (asked[setBy[d]].ui # v \/ asked[setBy[d]].told = "error")
          BY <3>3, <5>1 DEF ToldOK
        <5> QED BY <1>9, <3>1, <5>1, <5>2
      <4> QED BY <4>2, <4>3, <4>4
    <3> QED BY <1>6, <3>2, <3>3 DEF ToldOK, ClassOf, Shown
  <2> QED BY <1>7, <1>8, <2>4, <2>5, <2>6
<1> QED BY <1>10, <1>11

(* A request that gets another stage and another report.                      *)
LEMMA Reported ==
    ASSUME ControlTyped, NEW r \in Asked, NEW stage \in Stages, NEW told \in Tolds,
           asked' = [asked EXCEPT ![r].stage = stage, ![r].told = told]
    PROVE  /\ Amended(r)
           /\ asked'[r].stage = stage /\ asked'[r].told = told /\ asked'[r].ok = asked[r].ok
<1>1. asked[r] \in Request /\ DOMAIN asked = Asked
  BY DEF ControlTyped, Asked
<1>2. PICK q1 \in Request : q1 = [asked[r] EXCEPT !.stage = stage]
  BY <1>1, RequestFields
<1>3. /\ q1.ui = asked[r].ui /\ q1.panel = asked[r].panel /\ q1.wanted = asked[r].wanted
      /\ q1.stage = stage /\ q1.told = asked[r].told /\ q1.ok = asked[r].ok
  BY <1>1, <1>2, RequestFields
<1>4. PICK q2 \in Request : q2 = [q1 EXCEPT !.told = told]
  BY RequestFields
<1>5. /\ q2.ui = q1.ui /\ q2.panel = q1.panel /\ q2.wanted = q1.wanted
      /\ q2.stage = q1.stage /\ q2.told = told /\ q2.ok = q1.ok
  BY <1>4, RequestFields
<1>6. asked' = [asked EXCEPT ![r] = q2]
  BY <1>1, <1>2, <1>4
<1>7. q2.ui = asked[r].ui /\ q2.panel = asked[r].panel /\ q2.wanted = asked[r].wanted
  BY <1>3, <1>5
<1>8. Amended(r) /\ asked'[r] = q2
  BY <1>6, <1>7, Amends
<1> QED BY <1>3, <1>5, <1>8

(* The line that never comes is answered with an error, and sets nothing.     *)
LEMMA TimeOutStep ==
    ASSUME ControlInv, NEW r \in Asked, RequestTimesOut(r)
    PROVE  ControlInv'
<1> USE DEF ControlInv
<1>1. asked[r] \in Request
  BY DEF ControlTyped, Asked
<1>2. asked[r].stage = "sent" /\ ~asked[r].ok /\ asked[r].told # "ok"
  BY DEF RequestsOK, RequestTimesOut
<1>3. /\ Amended(r) /\ asked'[r].stage = "answered"
      /\ asked'[r].told = asked[r].told /\ asked'[r].ok = asked[r].ok
  <2>1. PICK q \in Request : q = [asked[r] EXCEPT !.stage = "answered"]
    BY <1>1, RequestFields DEF Stages
  <2>2. /\ q.ui = asked[r].ui /\ q.panel = asked[r].panel /\ q.wanted = asked[r].wanted
        /\ q.stage = "answered" /\ q.told = asked[r].told /\ q.ok = asked[r].ok
    BY <1>1, <2>1, RequestFields DEF Stages
  <2>3. asked' = [asked EXCEPT ![r] = q]
    BY <2>1 DEF RequestTimesOut
  <2> QED BY <2>2, <2>3, Amends
<1>4. UNCHANGED <<inForce, applied, waitingFor, setBy, confirmed>>
  BY DEF RequestTimesOut
<1>5. RequestsOK' /\ WaitsOK' /\ ForceOK'
  BY <1>3, <1>4, AmendedRequests, AmendedWaits, AmendedForce
<1>6. ControlTyped' /\ Usable(inForce)' /\ PanelsOK'
  BY <1>3, <1>4 DEF ControlTyped, Usable, Amended, PanelsOK
<1>7. ToldOK'
  <2>1. \A i \in Asked : /\ asked'[i].ui = asked[i].ui /\ asked'[i].told = asked[i].told
                         /\ asked'[i].panel = asked[i].panel /\ asked'[i].ok = asked[i].ok
                         /\ i # r => asked'[i] = asked[i]
    BY <1>3 DEF Amended
  <2>2. \A d \in Classes : setBy[d] # 0 => setBy[d] \in Asked
    BY DEF ForceOK
  <2>3. \A v \in Uis : waitingFor[v] # 0 => waitingFor[v] \in Asked
    BY DEF WaitsOK
  <2>4. ASSUME NEW v \in Uis, NEW d \in Classes,
               setBy[d] # 0 /\ asked'[setBy[d]].ui = v /\ asked'[setBy[d]].told = "ok"
        PROVE  Shown(inForce)'[d] = Shown(applied[v])'[d]
    BY <1>4, <2>1, <2>2, <2>4 DEF ToldOK, Shown
  <2>5. ASSUME NEW v \in Uis, NEW d \in Classes,
               waitingFor[v] # 0,
               asked'[waitingFor[v]].stage = "answered" /\ asked'[waitingFor[v]].ok,
               d = ClassOf(asked'[waitingFor[v]].panel)
        PROVE  \/ setBy[d] = waitingFor[v]
               \/ setBy[d] # 0 /\ (asked'[setBy[d]].ui # v \/ asked'[setBy[d]].told = "error")
    <3>1. waitingFor[v] # r
      BY <1>2, <1>3, <2>5
    <3>2. asked'[waitingFor[v]] = asked[waitingFor[v]]
      BY <2>1, <2>3, <2>5, <3>1
    <3> QED BY <2>1, <2>2, <2>5, <3>2 DEF ToldOK
  <2> QED BY <1>4, <2>4, <2>5 DEF ToldOK, ClassOf
<1> QED BY <1>5, <1>6, <1>7

(* A request reported as failed: nothing else changes for anybody.            *)
LEMMA FailureStep ==
    ASSUME ControlInv, NEW u \in Uis, NEW r \in Asked, r = waitingFor[u], Amended(r),
           asked'[r].told = "error", asked'[r].ok = asked[r].ok,
           asked'[r].stage = "sent" => asked[r].stage = "sent",
           waitingFor' = [waitingFor EXCEPT ![u] = 0],
           UNCHANGED <<inForce, applied, setBy, confirmed>>
    PROVE  ControlInv'
<1> USE DEF ControlInv
<1>1. RequestsOK'
  BY AmendedRequests DEF RequestsOK
<1>2. WaitsOK' /\ waitingFor' \in [Uis -> 0..MaxRequests]
  BY WaitEnds
<1>3. ForceOK'
  BY AmendedForce
<1>4. ControlTyped' /\ Usable(inForce)' /\ PanelsOK'
  BY <1>2 DEF ControlTyped, Usable, Amended, PanelsOK
<1>5. ToldOK'
  <2>1. \A i \in Asked : /\ asked'[i].ui = asked[i].ui
                         /\ i # r => asked'[i] = asked[i]
    BY DEF Amended
  <2>2. \A d \in Classes : setBy[d] # 0 => setBy[d] \in Asked
    BY DEF ForceOK
  <2>3. DOMAIN waitingFor = Uis
    BY DEF ControlTyped
  <2>4. ASSUME NEW v \in Uis, NEW d \in Classes,
               setBy[d] # 0 /\ asked'[setBy[d]].ui = v /\ asked'[setBy[d]].told = "ok"
        PROVE  Shown(inForce)'[d] = Shown(applied[v])'[d]
    <3>1. setBy[d] # r /\ asked'[setBy[d]] = asked[setBy[d]]
      BY <2>1, <2>2, <2>4
    <3> QED BY <2>4, <3>1 DEF ToldOK, Shown
  <2>5. ASSUME NEW v \in Uis, NEW d \in Classes,
               waitingFor'[v] # 0,
               asked'[waitingFor'[v]].stage = "answered" /\ asked'[waitingFor'[v]].ok,
               d = ClassOf(asked'[waitingFor'[v]].panel)
        PROVE  \/ setBy[d] = waitingFor'[v]
               \/ setBy[d] # 0 /\ (asked'[setBy[d]].ui # v \/ asked'[setBy[d]].told = "error")
    <3>1. v # u /\ waitingFor'[v] = waitingFor[v]
      BY <2>3, <2>5
    <3>2. waitingFor[v] \in Asked /\ asked[waitingFor[v]].ui = v
      BY <2>5, <3>1 DEF WaitsOK
    <3>3. r # 0 /\ asked[r].ui = u
      <4>1. r # 0
        BY DEF ControlTyped, Asked
      <4> QED BY <4>1 DEF WaitsOK
    <3>4. asked'[waitingFor[v]] = asked[waitingFor[v]]
      BY <2>1, <3>1, <3>2, <3>3
    <3>5. \/ setBy[d] = waitingFor[v]
          \/ setBy[d] # 0 /\ (asked[setBy[d]].ui # v \/ asked[setBy[d]].told = "error")
      BY <2>5, <3>1, <3>4 DEF ToldOK
    <3>6. setBy[d] # 0 => /\ asked'[setBy[d]].ui = asked[setBy[d]].ui
                          /\ asked[setBy[d]].told = "error" => asked'[setBy[d]].told = "error"
      BY <2>1, <2>2
    <3> QED BY <3>1, <3>5, <3>6
  <2> QED BY <2>4, <2>5 DEF ToldOK, ClassOf
<1> QED BY <1>1, <1>2, <1>3, <1>4, <1>5

(* An interface that gives up reports a failure, whatever becomes of it.      *)
LEMMA GivesUpStep ==
    ASSUME ControlInv, NEW u \in Uis, GivesUp(u)
    PROVE  ControlInv'
<1> USE DEF ControlInv
<1>1. PICK r : r = waitingFor[u]
  OBVIOUS
<1>2. r \in Asked
  BY <1>1 DEF GivesUp, WaitsOK
<1>3. asked[r] \in Request /\ asked[r].stage \in Stages
  <2>1. asked[r] \in Request
    BY <1>2 DEF ControlTyped, Asked
  <2> QED BY <2>1 DEF Request
<1>4. PICK delivered \in BOOLEAN :
         asked' = [asked EXCEPT ![r].told = "error",
                      ![r].stage = IF delivered /\ @ = "sent" THEN @ ELSE "done"]
  BY <1>1 DEF GivesUp
<1>5. PICK stage \in Stages :
         /\ stage = IF delivered /\ asked[r].stage = "sent" THEN asked[r].stage ELSE "done"
         /\ stage = "sent" => asked[r].stage = "sent"
  BY <1>3 DEF Stages
<1>6. PICK told \in Tolds : told = "error"
  BY DEF Tolds
<1>7. asked' = [asked EXCEPT ![r].stage = stage, ![r].told = told]
  <2>1. PICK q1 : q1 = [asked[r] EXCEPT !.told = told]
    OBVIOUS
  <2>2. q1.stage = asked[r].stage
    BY <1>3, <1>6, <2>1, RequestFields
  <2>3. asked' = [asked EXCEPT ![r] = [q1 EXCEPT !.stage = stage]]
    BY <1>2, <1>4, <1>5, <1>6, <2>1, <2>2 DEF Asked
  <2>4. [q1 EXCEPT !.stage = stage] = [[asked[r] EXCEPT !.stage = stage] EXCEPT !.told = told]
    BY <1>3, <2>1 DEF Request
  <2> QED BY <1>2, <2>3, <2>4 DEF Asked
<1>8. /\ Amended(r)
      /\ asked'[r].stage = stage /\ asked'[r].told = told /\ asked'[r].ok = asked[r].ok
  BY <1>2, <1>7, Reported
<1>9. waitingFor' = [waitingFor EXCEPT ![u] = 0] /\ UNCHANGED <<inForce, applied, setBy, confirmed>>
  BY DEF GivesUp
<1> QED BY <1>1, <1>2, <1>5, <1>6, <1>8, <1>9, FailureStep

(* What an interface shows once its own request in force is confirmed is what *)
(* the collector checks, up to the three decimals.                            *)
LEMMA ConfirmedShown ==
    ASSUME NEW panel \in Panels, NEW wanted, Fits(panel, wanted),
           NEW x \in Thresholds, NEW old \in Thresholds,
           x[ClassOf(panel)] = Normalized(ClassOf(panel), wanted),
           panel = "torque" => wanted.angle = old.jump.angle /\ wanted.warn <= wanted.red,
           panel = "angle" => wanted.warn = old.jump.warn /\ wanted.red = old.jump.red,
           old.jump.warn <= old.jump.red
    PROVE  Shown(x)[ClassOf(panel)] = Shown(ShownAfter(panel, old, wanted))[ClassOf(panel)]
<1>1. PICK y \in Thresholds : y = ShownAfter(panel, old, wanted)
  BY ShownAfterFacts
<1>2. CASE panel \in {"torque", "angle"}
  <2>1. ClassOf(panel) = "jump"
    BY <1>2 DEF ClassOf
  <2>2. wanted \in Ladder /\ old.jump \in Ladder
    BY <1>2 DEF Fits, Thresholds
  <2>3. /\ wanted.warn \in Nat /\ wanted.red \in Nat /\ wanted.angle \in Nat
        /\ old.jump.warn \in Nat /\ old.jump.red \in Nat
    BY <2>2 DEF Ladder
  <2>4. x.jump = wanted
    <3>1. wanted.warn <= wanted.red
      BY <1>2
    <3>2. ~(wanted.red < wanted.warn)
      BY <2>3, <3>1
    <3> QED BY <2>1, <3>2 DEF Normalized
  <2>5. CASE panel = "torque"
    <3>1. /\ y.jump.warn = Rounded(wanted.warn) /\ y.jump.red = Rounded(wanted.red)
          /\ y.jump.angle = wanted.angle
      BY <1>1, <2>5, ShownAfterFacts
    <3>2. /\ Rounded(x.jump.warn) = Rounded(y.jump.warn)
          /\ Rounded(x.jump.red) = Rounded(y.jump.red)
          /\ Rounded(x.jump.angle) = Rounded(y.jump.angle)
      BY <2>3, <2>4, <3>1, RoundedFacts
    <3>3. Shown(x)["jump"] = Shown(y)["jump"]
      BY <3>2, ShownFacts
    <3> QED BY <1>1, <2>1, <3>3
  <2>6. CASE panel = "angle"
    <3>1. /\ y.jump.warn = wanted.warn /\ y.jump.red = wanted.red
          /\ y.jump.angle = Rounded(wanted.angle)
      BY <1>1, <2>6, ShownAfterFacts
    <3>2. /\ Rounded(x.jump.warn) = Rounded(y.jump.warn)
          /\ Rounded(x.jump.red) = Rounded(y.jump.red)
          /\ Rounded(x.jump.angle) = Rounded(y.jump.angle)
      BY <2>3, <2>4, <3>1, RoundedFacts
    <3>3. Shown(x)["jump"] = Shown(y)["jump"]
      BY <3>2, ShownFacts
    <3> QED BY <1>1, <2>1, <3>3
  <2> QED BY <1>2, <2>5, <2>6
<1>3. CASE panel \in {"gap", "can"}
  <2>1. ClassOf(panel) = panel /\ ClassOf(panel) \in Classes /\ panel # "jump"
    BY <1>3 DEF ClassOf, Classes
  <2>2. x[panel] = wanted
    BY <2>1 DEF Normalized
  <2>3. y[panel] = wanted
    BY <1>1, <1>3, ShownAfterFacts
  <2>4. x[ClassOf(panel)] = y[ClassOf(panel)]
    BY <2>1, <2>2, <2>3
  <2>5. Shown(x)[ClassOf(panel)] = Shown(y)[ClassOf(panel)]
    BY <2>1, <2>4, ShownFacts
  <2> QED BY <1>1, <2>5
<1> QED BY <1>2, <1>3 DEF Panels

(* The interface takes its answer.                                            *)
LEMMA AnsweredStep ==
    ASSUME ControlInv, NEW u \in Uis, Answered(u)
    PROVE  ControlInv'
<1> USE DEF ControlInv
<1>1. PICK r : r = waitingFor[u]
  OBVIOUS
<1>2. /\ r \in Asked /\ r # 0 /\ r \in Nat /\ asked[r].ui = u /\ asked[r].told = "nothing"
      /\ OtherPart(u, asked[r].panel, asked[r].wanted)
  <2>1. r # 0
    BY <1>1 DEF Answered
  <2>2. r \in Nat
    BY <1>1, ControlAssumption DEF ControlTyped
  <2> QED BY <1>1, <2>1, <2>2 DEF WaitsOK
<1>3. /\ asked[r] \in Request /\ asked[r].stage = "answered"
      /\ asked[r].panel \in Panels /\ Fits(asked[r].panel, asked[r].wanted)
  <2>1. asked[r] \in Request
    BY <1>2 DEF ControlTyped, Asked
  <2> QED BY <1>1, <1>2, <2>1 DEF Request, RequestsOK, Answered
<1>4. PICK told \in Tolds : /\ told = IF asked[r].ok THEN "ok" ELSE "error"
                            /\ told # "nothing"
  BY DEF Tolds
<1>5. PICK stage \in Stages : stage = "done"
  BY DEF Stages
<1>6. /\ Amended(r)
      /\ asked'[r].stage = stage /\ asked'[r].told = told /\ asked'[r].ok = asked[r].ok
  <2>1. asked' = [asked EXCEPT ![r].stage = stage, ![r].told = told]
    BY <1>1, <1>4, <1>5 DEF Answered
  <2> QED BY <1>2, <2>1, Reported
<1>7. waitingFor' = [waitingFor EXCEPT ![u] = 0] /\ inForce' = inForce /\ setBy' = setBy
  BY DEF Answered
<1>8. CASE ~asked[r].ok
  <2>1. UNCHANGED <<applied, confirmed>> /\ told = "error"
    BY <1>1, <1>4, <1>8 DEF Answered, AnswerTaken
  <2> QED BY <1>1, <1>2, <1>5, <1>6, <1>7, <2>1, FailureStep
<1>9. CASE asked[r].ok
  <2>1. PICK c : c = ClassOf(asked[r].panel)
    OBVIOUS
  <2>2. PICK y : y = ShownAfter(asked[r].panel, applied[u], asked[r].wanted)
    OBVIOUS
  <2>3. applied' = [applied EXCEPT ![u] = y] /\ confirmed' = [confirmed EXCEPT ![u][c] = r]
    BY <1>1, <1>9, <2>1, <2>2 DEF Answered, AnswerTaken, ShownOnceAsked
  <2>4. c \in Classes /\ applied[u] \in Thresholds
    BY <1>3, <2>1 DEF ControlTyped, ClassOf, Panels, Classes
  <2>5. /\ y \in Thresholds
        /\ \A d \in Classes \ {c} : y[d] = applied[u][d]
        /\ y.jump.warn <= y.jump.red
    <3>1. y \in Thresholds
      BY <1>3, <2>2, <2>4, ShownAfterFacts
    <3>2. ASSUME NEW d \in Classes \ {c} PROVE y[d] = applied[u][d]
      <4>1. CASE d = "jump"
        <5>1. asked[r].panel \notin {"torque", "angle"}
          BY <2>1, <4>1 DEF ClassOf
        <5> QED BY <1>3, <2>2, <2>4, <4>1, <5>1, ShownAfterFacts
      <4>2. CASE d = "gap"
        <5>1. asked[r].panel # "gap"
          BY <2>1, <4>2 DEF ClassOf
        <5> QED BY <1>3, <2>2, <2>4, <4>2, <5>1, ShownAfterFacts
      <4>3. CASE d = "can"
        <5>1. asked[r].panel # "can"
          BY <2>1, <4>3 DEF ClassOf
        <5> QED BY <1>3, <2>2, <2>4, <4>3, <5>1, ShownAfterFacts
      <4> QED BY <4>1, <4>2, <4>3 DEF Classes
    <3>3. applied[u].jump.warn <= applied[u].jump.red
      BY DEF PanelsOK
    <3>4. y.jump.warn <= y.jump.red
      <4>1. CASE asked[r].panel = "torque"
        <5>1. asked[r].wanted.warn \in Nat /\ asked[r].wanted.red \in Nat
          BY <1>3, <4>1 DEF Fits, Ladder
        <5>2. asked[r].wanted.warn <= asked[r].wanted.red
          BY <1>2, <4>1 DEF OtherPart
        <5>3. Rounded(asked[r].wanted.warn) <= Rounded(asked[r].wanted.red)
          BY <5>1, <5>2, RoundedFacts
        <5>4. y.jump.warn = Rounded(asked[r].wanted.warn) /\ y.jump.red = Rounded(asked[r].wanted.red)
          BY <1>3, <2>2, <2>4, <4>1, ShownAfterFacts
        <5> QED BY <5>3, <5>4
      <4>2. CASE asked[r].panel = "angle"
        <5>1. y.jump.warn = applied[u].jump.warn /\ y.jump.red = applied[u].jump.red
          BY <1>3, <2>2, <2>4, <4>2, ShownAfterFacts
        <5> QED BY <3>3, <5>1
      <4>3. CASE asked[r].panel \notin {"torque", "angle"}
        <5>1. y.jump = applied[u].jump
          BY <1>3, <2>2, <2>4, <4>3, ShownAfterFacts
        <5> QED BY <3>3, <5>1
      <4> QED BY <4>1, <4>2, <4>3
    <3> QED BY <3>1, <3>2, <3>4
  <2>6. applied' \in [Uis -> Thresholds] /\ applied'[u] = y /\ \A v \in Uis \ {u} : applied'[v] = applied[v]
    BY <2>3, <2>5 DEF ControlTyped
  <2>7. /\ confirmed' \in [Uis -> [Classes -> Nat]] /\ confirmed'[u][c] = r
        /\ \A v \in Uis, d \in Classes : v # u \/ d # c => confirmed'[v][d] = confirmed[v][d]
    <3>1. PICK k \in [Classes -> Nat] : k = [confirmed[u] EXCEPT ![c] = r]
      BY <1>2, <2>4 DEF ControlTyped
    <3>2. confirmed' = [confirmed EXCEPT ![u] = k] /\ confirmed \in [Uis -> [Classes -> Nat]]
      BY <2>3, <3>1 DEF ControlTyped
    <3>3. confirmed' \in [Uis -> [Classes -> Nat]] /\ confirmed'[u] = k
          /\ \A v \in Uis \ {u} : confirmed'[v] = confirmed[v]
      BY <3>2
    <3>4. confirmed[u] \in [Classes -> Nat]
      BY <3>2
    <3>5. k[c] = r /\ \A d \in Classes \ {c} : k[d] = confirmed[u][d]
      BY <2>4, <3>1, <3>4
    <3> QED BY <3>3, <3>5
  <2>8. WaitsOK' /\ waitingFor' \in [Uis -> 0..MaxRequests]
    BY <1>1, <1>2, <1>4, <1>6, <1>7, <2>6, WaitEnds
  <2>9. ForceOK'
    BY <1>2, <1>6, <1>7, AmendedForce
  <2>10. RequestsOK'
    BY <1>2, <1>5, <1>6, AmendedRequests
  <2>11. ControlTyped' /\ Usable(inForce)'
    BY <1>6, <1>7, <2>6, <2>7, <2>8 DEF ControlTyped, Usable, Amended
  <2>12. PanelsOK'
    <3>1. ASSUME NEW v \in Uis
          PROVE  /\ applied'[v].jump.warn <= applied'[v].jump.red
                 /\ \A d \in Classes : confirmed'[v][d] = 0 => applied'[v][d] = Defaults[d]
      <4>1. CASE v = u
        <5>1. ASSUME NEW d \in Classes, confirmed'[u][d] = 0 PROVE applied'[u][d] = Defaults[d]
          <6>1. d # c
            BY <1>2, <2>7, <5>1
          <6> QED BY <2>5, <2>6, <2>7, <5>1, <6>1 DEF PanelsOK
        <5> QED BY <2>5, <2>6, <4>1, <5>1
      <4>2. CASE v # u
        BY <2>6, <2>7, <4>2 DEF PanelsOK
      <4> QED BY <4>1, <4>2
    <3> QED BY <3>1 DEF PanelsOK, Defaults
  <2>13. ToldOK'
    <3>1. \A i \in Asked : asked'[i].ui = asked[i].ui /\ (i # r => asked'[i] = asked[i])
      BY <1>6 DEF Amended
    <3>2. \A d \in Classes : setBy[d] # 0 => setBy[d] \in Asked
      BY DEF ForceOK
    <3>3. ASSUME NEW v \in Uis, NEW d \in Classes,
                 setBy[d] # 0 /\ asked'[setBy[d]].ui = v /\ asked'[setBy[d]].told = "ok"
          PROVE  Shown(inForce)[d] = Shown(applied'[v])[d]
      <4>1. CASE setBy[d] = r
        <5>1. v = u /\ d = c
          BY <1>2, <2>1, <3>1, <3>3, <4>1 DEF ForceOK
        <5>2. inForce[c] = Normalized(c, asked[r].wanted)
          BY <1>2, <4>1, <5>1 DEF ForceOK
        <5>3. inForce \in Thresholds /\ applied[u].jump.warn <= applied[u].jump.red
          BY DEF ControlTyped, PanelsOK
        <5>4. Shown(inForce)[c] = Shown(y)[c]
          BY <1>2, <1>3, <2>1, <2>2, <2>4, <5>2, <5>3, ConfirmedShown DEF OtherPart
        <5> QED BY <2>6, <5>1, <5>4
      <4>2. CASE setBy[d] # r
        <5>1. asked[setBy[d]].ui = v /\ asked[setBy[d]].told = "ok"
          BY <3>1, <3>2, <3>3, <4>2
        <5>2. Shown(inForce)[d] = Shown(applied[v])[d]
          BY <3>3, <5>1 DEF ToldOK
        <5>3. CASE v # u
          BY <2>6, <5>2, <5>3
        <5>4. CASE v = u
          <6>1. d # c
            <7>1. \/ setBy[c] = r
                  \/ setBy[c] # 0 /\ (asked[setBy[c]].ui # u \/ asked[setBy[c]].told = "error")
              BY <1>1, <1>2, <1>3, <1>9, <2>1, <2>4 DEF ToldOK
            <7> QED BY <4>2, <5>1, <5>4, <7>1
          <6>2. applied'[u][d] = applied[u][d] /\ applied'[u] \in Thresholds
            BY <2>5, <2>6, <6>1
          <6>3. Shown(applied'[u])[d] = Shown(applied[u])[d]
            BY <2>4, <6>2, ShownFacts
          <6> QED BY <5>2, <5>4, <6>3
        <5> QED BY <5>3, <5>4
      <4> QED BY <4>1, <4>2
    <3>4. ASSUME NEW v \in Uis, NEW d \in Classes,
                 waitingFor'[v] # 0,
                 asked'[waitingFor'[v]].stage = "answered" /\ asked'[waitingFor'[v]].ok,
                 d = ClassOf(asked'[waitingFor'[v]].panel)
          PROVE  \/ setBy[d] = waitingFor'[v]
                 \/ setBy[d] # 0 /\ (asked'[setBy[d]].ui # v \/ asked'[setBy[d]].told = "error")
      <4>1. v # u /\ waitingFor'[v] = waitingFor[v]
        BY <1>7, <3>4 DEF ControlTyped
      <4>2. waitingFor[v] \in Asked /\ asked[waitingFor[v]].ui = v
        BY <3>4, <4>1 DEF WaitsOK
      <4>3. asked'[waitingFor[v]] = asked[waitingFor[v]]
        BY <1>2, <3>1, <4>1, <4>2
      <4>4. \/ setBy[d] = waitingFor[v]
            \/ setBy[d] # 0 /\ (asked[setBy[d]].ui # v \/ asked[setBy[d]].told = "error")
        BY <3>4, <4>1, <4>3 DEF ToldOK
      <4>5. setBy[d] # 0 => /\ asked'[setBy[d]].ui = asked[setBy[d]].ui
                            /\ asked[setBy[d]].told = "error" => asked'[setBy[d]].told = "error"
        BY <1>2, <3>1, <3>2
      <4> QED BY <4>1, <4>4, <4>5
    <3>5. ASSUME NEW v \in Uis, NEW d \in Classes,
                 setBy[d] # 0 /\ asked'[setBy[d]].ui = v /\ asked'[setBy[d]].told = "ok"
          PROVE  Shown(inForce)'[d] = Shown(applied[v])'[d]
      <4>1. Shown(inForce)[d] = Shown(applied'[v])[d]
        BY <3>3, <3>5
      <4> QED BY <1>7, <4>1 DEF Shown
    <3> QED BY <1>7, <3>4, <3>5 DEF ToldOK, ClassOf
  <2> QED BY <2>8, <2>9, <2>10, <2>11, <2>12, <2>13
<1> QED BY <1>8, <1>9

(* A collector that starts again has the defaults, and no request of before.  *)
LEMMA RestartStep ==
    ASSUME ControlInv, CollectorRestarts
    PROVE  ControlInv'
<1> USE DEF ControlInv
<1>1. /\ inForce' = Defaults /\ applied' = applied /\ waitingFor' = waitingFor /\ confirmed' = confirmed
      /\ setBy' \in [Classes -> Nat] /\ \A c \in Classes : setBy'[c] = 0
  BY DEF CollectorRestarts
<1>2. ASSUME NEW r \in Asked
      PROVE  \E q \in Request :
                /\ q = [asked[r] EXCEPT !.stage = "done"]
                /\ q.ui = asked[r].ui /\ q.panel = asked[r].panel /\ q.wanted = asked[r].wanted
                /\ q.stage = "done" /\ q.told = asked[r].told /\ q.ok = asked[r].ok
  <2>1. asked[r] \in Request
    BY DEF ControlTyped, Asked
  <2>2. PICK stage \in Stages : stage = "done"
    BY DEF Stages
  <2>3. PICK q \in Request : q = [asked[r] EXCEPT !.stage = stage]
    BY <2>1, RequestFields
  <2>4. /\ q.ui = asked[r].ui /\ q.panel = asked[r].panel /\ q.wanted = asked[r].wanted
        /\ q.stage = stage /\ q.told = asked[r].told /\ q.ok = asked[r].ok
    BY <2>1, <2>3, RequestFields
  <2> QED BY <2>2, <2>3, <2>4
<1>3. /\ asked' \in Seq(Request) /\ Asked' = Asked
      /\ \A r \in Asked :
            /\ asked'[r].ui = asked[r].ui /\ asked'[r].panel = asked[r].panel
            /\ asked'[r].wanted = asked[r].wanted /\ asked'[r].stage = "done"
            /\ asked'[r].told = asked[r].told /\ asked'[r].ok = asked[r].ok
  <2>1. asked' = [r \in Asked |-> [asked[r] EXCEPT !.stage = "done"]]
    BY DEF CollectorRestarts
  <2>2. Len(asked) \in Nat /\ Asked = 1..Len(asked)
    BY DEF ControlTyped, Asked
  <2>3. \A r \in Asked : asked'[r] \in Request
    BY <1>2, <2>1
  <2>4. asked' = [r \in 1..Len(asked) |-> asked'[r]] /\ DOMAIN asked' = Asked
    BY <2>1, <2>2
  <2>5. asked' \in Seq(Request)
    BY <2>2, <2>3, <2>4
  <2>6. Asked' = Asked
    BY <2>4 DEF Asked
  <2> QED BY <1>2, <2>1, <2>5, <2>6
<1>4. ControlTyped' /\ Usable(inForce)'
  <2>1. Defaults.can.high = NoText /\ Defaults.gap = 1
    BY DEF Defaults
  <2> QED BY <1>1, <1>3, <2>1, DefaultsTyped DEF ControlTyped, Usable
<1>5. RequestsOK' /\ WaitsOK'
  BY <1>1, <1>3 DEF RequestsOK, WaitsOK, OtherPart
<1>6. ForceOK' /\ PanelsOK'
  BY <1>1 DEF ForceOK, PanelsOK, Defaults
<1>7. ToldOK'
  <2>1. \A v \in Uis : waitingFor[v] # 0 => waitingFor[v] \in Asked
    BY DEF WaitsOK
  <2> QED BY <1>1, <1>3, <2>1 DEF ToldOK
<1> QED BY <1>4, <1>5, <1>6, <1>7

(* A click on the torque panel: its own numbers in order, the angle as shown. *)
LEMMA TorqueStep ==
    ASSUME ControlInv, NEW u \in Uis, ApplyTorque(u)
    PROVE  ControlInv'
<1>1. PICK warn \in TypedTorque, red \in TypedTorque :
         /\ NumberIn(warn, Grain) <= NumberIn(red, 2 * Grain)
         /\ Ask(u, "torque", TorqueCommand(u, warn, red))
  BY DEF ApplyTorque
<1>2. PICK w \in Nat, d \in Nat : w = NumberIn(warn, Grain) /\ d = NumberIn(red, 2 * Grain)
  <2>1. Grain \in Nat /\ 2 * Grain \in Nat
    BY ControlAssumption
  <2>2. warn \in Int \cup {NoText} /\ red \in Int \cup {NoText}
    BY ControlAssumption
  <2> QED BY <2>1, <2>2, NumbersTyped
<1>3. PICK wanted : wanted = [warn |-> w, red |-> d, angle |-> applied[u].jump.angle]
  OBVIOUS
<1>4. applied[u] \in Thresholds
  BY DEF ControlInv, ControlTyped
<1>5. applied[u].jump \in Ladder
  BY <1>4 DEF Thresholds
<1>6. wanted \in Ladder /\ wanted.warn = w /\ wanted.red = d /\ wanted.angle = applied[u].jump.angle
  BY <1>3, <1>5 DEF Ladder
<1>7. PICK panel \in Panels : panel = "torque"
  BY DEF Panels
<1>8. Ask(u, panel, wanted)
  BY <1>1, <1>2, <1>3, <1>7 DEF TorqueCommand
<1>9. Fits(panel, wanted) /\ OtherPart(u, panel, wanted) /\ wanted \in Wanted
  BY <1>1, <1>2, <1>6, <1>7 DEF Fits, OtherPart, Wanted
<1> QED BY <1>8, <1>9, AskStep

(* A click on the angle panel: its own number, the torques as shown.          *)
LEMMA AngleStep ==
    ASSUME ControlInv, NEW u \in Uis, ApplyAngle(u)
    PROVE  ControlInv'
<1>1. PICK angle \in TypedAngle : Ask(u, "angle", AngleCommand(u, angle))
  BY DEF ApplyAngle
<1>2. PICK a \in Nat : a = NumberIn(angle, Grain)
  <2>1. Grain \in Nat /\ angle \in Int \cup {NoText}
    BY ControlAssumption
  <2> QED BY <2>1, NumbersTyped
<1>3. PICK wanted : wanted = [applied[u].jump EXCEPT !.angle = a]
  OBVIOUS
<1>4. applied[u] \in Thresholds
  BY DEF ControlInv, ControlTyped
<1>5. applied[u].jump \in Ladder
  BY <1>4 DEF Thresholds
<1>6. wanted \in Ladder /\ wanted.warn = applied[u].jump.warn /\ wanted.red = applied[u].jump.red
  BY <1>3, <1>5 DEF Ladder
<1>7. PICK panel \in Panels : panel = "angle"
  BY DEF Panels
<1>8. Ask(u, panel, wanted)
  BY <1>1, <1>2, <1>3, <1>7 DEF AngleCommand
<1>9. Fits(panel, wanted) /\ OtherPart(u, panel, wanted) /\ wanted \in Wanted
  BY <1>6, <1>7 DEF Fits, OtherPart, Wanted
<1> QED BY <1>8, <1>9, AskStep

(* A click on the gap or the CAN panel carries what was typed.                *)
LEMMA GapOrCanStep ==
    ASSUME ControlInv, NEW u \in Uis, ApplyGap(u) \/ ApplyCan(u)
    PROVE  ControlInv'
<1>1. PICK panel \in Panels, wanted \in Wanted :
         Ask(u, panel, wanted) /\ Fits(panel, wanted) /\ OtherPart(u, panel, wanted)
  <2>1. CASE ApplyGap(u)
    <3>1. PICK panel \in Panels : panel = "gap"
      BY DEF Panels
    <3>2. PICK gap \in TypedGap : Ask(u, panel, gap)
      BY <2>1, <3>1 DEF ApplyGap
    <3>3. gap \in Int
      BY ControlAssumption
    <3> QED BY <3>1, <3>2, <3>3 DEF Fits, OtherPart, Wanted
  <2>2. CASE ApplyCan(u)
    <3>1. PICK panel \in Panels : panel = "can"
      BY DEF Panels
    <3>2. PICK high \in TypedCan, low \in TypedCan : Ask(u, panel, [high |-> high, low |-> low])
      BY <2>2, <3>1 DEF ApplyCan
    <3>3. high \in Int \cup {NoText} /\ low \in Int \cup {NoText}
      BY ControlAssumption
    <3>4. [high |-> high, low |-> low] \in Bands
      BY <3>3 DEF Bands
    <3> QED BY <3>1, <3>2, <3>4 DEF Fits, OtherPart, Wanted
  <2> QED BY <2>1, <2>2
<1> QED BY <1>1, AskStep

(* The control connections keep their invariant.                              *)
LEMMA AlwaysControlInv == ControlSpec => []ControlInv
<1>1. ASSUME ControlInv, [ControlNext]_controlVars
      PROVE  ControlInv'
  <2>1. ASSUME NEW u \in Uis, ApplyTorque(u) \/ ApplyAngle(u) \/ ApplyGap(u) \/ ApplyCan(u)
        PROVE  ControlInv'
    BY <1>1, <2>1, TorqueStep, AngleStep, GapOrCanStep
  <2>2. ASSUME NEW r \in Asked, HandleRequest(r) \/ RequestTimesOut(r)
        PROVE  ControlInv'
    BY <1>1, <2>2, HandleStep, TimeOutStep
  <2>3. ASSUME NEW u \in Uis, Answered(u) \/ GivesUp(u)
        PROVE  ControlInv'
    BY <1>1, <2>3, AnsweredStep, GivesUpStep
  <2>4. CASE CollectorRestarts
    BY <1>1, <2>4, RestartStep
  <2>5. CASE UNCHANGED controlVars
    <3> USE <2>5 DEF controlVars
    <3>1. ControlTyped' /\ Usable(inForce)' /\ RequestsOK'
      BY <1>1 DEF ControlInv, ControlTyped, Usable, RequestsOK, Asked
    <3>2. WaitsOK'
      BY <1>1 DEF ControlInv, WaitsOK, OtherPart, Asked
    <3>3. ForceOK' /\ PanelsOK'
      BY <1>1 DEF ControlInv, ForceOK, PanelsOK, Asked
    <3>4. ToldOK'
      BY <1>1 DEF ControlInv, ToldOK, Shown
    <3> QED BY <3>1, <3>2, <3>3, <3>4 DEF ControlInv
  <2> QED BY <1>1, <2>1, <2>2, <2>3, <2>4, <2>5 DEF ControlNext
<1> QED BY <1>1, ControlInitial, PTL DEF ControlSpec

(* Thresholds shown as in force are the ones the collector checks, for any    *)
(* number of interfaces, requests and restarts and whatever is typed: unless  *)
(* the collector restarted, another interface set them, or the interface was  *)
(* told that its request failed, or is not told yet.                          *)
THEOREM PanelsShowWhatIsChecked == ControlSpec => []ThresholdsAgree
<1>1. ControlInv => ThresholdsAgree
  BY ControlInvAgrees
<1> QED BY <1>1, AlwaysControlInv, PTL

------------------------------------------------------------------------------
(* The replay window: the message queue.                                      *)

Queue(q) == \E S : q \in Seq(S)

(* A message that is sent is the last one.                                    *)
LEMMA Grows ==
    ASSUME Queue(inbox), NEW m, inbox' = Append(inbox, m)
    PROVE  /\ Queue(inbox')
           /\ \E n \in Nat :
                 /\ DOMAIN inbox = 1..n /\ DOMAIN inbox' = 1..(n + 1)
                 /\ \A i \in 1..n : inbox'[i] = inbox[i]
                 /\ inbox'[n + 1] = m
<1>1. PICK S : inbox \in Seq(S)
  BY DEF Queue
<1>2. PICK T : T = S \cup {m}
  OBVIOUS
<1>3. inbox \in Seq(T) /\ m \in T
  BY <1>1, <1>2
<1>4. inbox' \in Seq(T)
  BY <1>3
<1>5. PICK n \in Nat : n = Len(inbox)
  BY <1>3
<1>6. /\ DOMAIN inbox = 1..n /\ DOMAIN inbox' = 1..(n + 1)
      /\ \A i \in 1..n : inbox'[i] = inbox[i]
      /\ inbox'[n + 1] = m
  BY <1>3, <1>5
<1> QED BY <1>4, <1>6 DEF Queue

(* The message handled is the first one, and the others move up.              *)
LEMMA Shrinks ==
    ASSUME Queue(inbox), inbox # <<>>, inbox' = Tail(inbox)
    PROVE  /\ Queue(inbox')
           /\ Head(inbox) = inbox[1]
           /\ \E n \in Nat :
                 /\ DOMAIN inbox = 1..(n + 1) /\ DOMAIN inbox' = 1..n
                 /\ \A i \in 1..n : inbox'[i] = inbox[i + 1]
<1>1. PICK S : inbox \in Seq(S)
  BY DEF Queue
<1>2. Len(inbox) \in Nat /\ Len(inbox) > 0 /\ inbox' \in Seq(S)
  BY <1>1
<1>3. PICK n \in Nat : Len(inbox) = n + 1
  <2>1. Len(inbox) - 1 \in Nat /\ Len(inbox) = (Len(inbox) - 1) + 1
    BY <1>2
  <2> QED BY <2>1
<1>4. /\ DOMAIN inbox = 1..(n + 1) /\ DOMAIN inbox' = 1..n
      /\ \A i \in 1..n : inbox'[i] = inbox[i + 1]
  BY <1>1, <1>2, <1>3
<1>5. Head(inbox) = inbox[1]
  BY <1>1, <1>2
<1> QED BY <1>2, <1>4, <1>5 DEF Queue

------------------------------------------------------------------------------
(* The replay window: what holds of it.                                       *)

ReplayState == [mode : Modes, downsampling : BOOLEAN, device : AnyDevice, loading : BOOLEAN,
                exporting : BOOLEAN, data : OnShow \cup {Nothing}, current : Nat, total : Nat]

ReplayTyped ==
    /\ Queue(inbox)
    /\ replay \in ReplayState /\ replays \in Nat
    /\ loadJob \in LoadJobs \cup {Nothing} /\ exportJob \in ExportJobs \cup {Nothing}

\* A result that waits is for the mode and the sampling chosen now.
MessagesOK == \A i \in DOMAIN inbox :
    /\ inbox[i].kind = "progress" => inbox[i].done \in Nat /\ inbox[i].total \in Nat
    /\ inbox[i].kind = "loaded" =>
          /\ inbox[i].ok \in BOOLEAN /\ inbox[i].device \in AnyDevice
          /\ inbox[i].mode = replay.mode /\ inbox[i].downsampling = replay.downsampling

\* One load is in its thread or in the queue exactly while it is shown.
OneLoad ==
    /\ \A i, j \in Waiting("loaded") : i = j
    /\ loadJob # Nothing =>
          /\ Waiting("loaded") = {}
          /\ loadJob.mode = replay.mode /\ loadJob.downsampling = replay.downsampling
    /\ replay.loading <=> (loadJob # Nothing \/ Waiting("loaded") # {})

\* Progress that waits is of the load in the thread, or its result comes later.
OwnProgress == \A i \in Waiting("progress") :
    \/ loadJob # Nothing /\ inbox[i].id = loadJob.id
    \/ \E j \in Waiting("loaded") : i < j /\ inbox[j].id = inbox[i].id

OneExport ==
    /\ \A i, j \in Waiting("exported") : i = j
    /\ exportJob # Nothing => Waiting("exported") = {}
    /\ replay.exporting <=> (exportJob # Nothing \/ Waiting("exported") # {})

ReplayInv == ReplayTyped /\ MessagesOK /\ OneLoad /\ OwnProgress /\ OneExport /\ ShownAsAsked

(* The invariant is stronger than what the replay window promises.            *)
LEMMA ReplayInvLands == ReplayInv => EveryLoadLands
<1> SUFFICES ASSUME ReplayInv PROVE EveryLoadLands
  OBVIOUS
<1> USE DEF ReplayInv
<1> DEFINE underWay == {inbox[i] : i \in Waiting("loaded")}
                       \cup (IF loadJob = Nothing THEN {} ELSE {loadJob})
<1>1. replay.exporting = (exportJob # Nothing \/ Waiting("exported") # {})
  <2>1. replay.exporting \in BOOLEAN
    BY DEF ReplayTyped, ReplayState
  <2> QED BY <2>1 DEF OneExport
<1>2. replay.loading <=> underWay # {}
  BY DEF OneLoad
<1>3. \A one, other \in underWay : one.id = other.id
  BY DEF OneLoad
<1>4. ASSUME NEW one \in underWay
      PROVE  one.mode = replay.mode /\ \A i \in Waiting("progress") : inbox[i].id = one.id
  <2>1. CASE loadJob # Nothing
    <3>1. one = loadJob /\ Waiting("loaded") = {}
      BY <2>1 DEF OneLoad
    <3> QED BY <2>1, <3>1 DEF OneLoad, OwnProgress
  <2>2. CASE loadJob = Nothing
    <3>1. PICK j \in Waiting("loaded") : one = inbox[j]
      BY <2>2
    <3>2. inbox[j].mode = replay.mode
      BY DEF MessagesOK, Waiting
    <3>3. \A i \in Waiting("loaded") : i = j
      BY DEF OneLoad
    <3> QED BY <2>2, <3>1, <3>2, <3>3 DEF OwnProgress
  <2> QED BY <2>1, <2>2
<1> HIDE DEF underWay
<1>5. /\ replay.loading <=> underWay # {}
      /\ \A one, other \in underWay : one.id = other.id
      /\ \A one \in underWay :
            /\ one.mode = replay.mode
            /\ \A i \in Waiting("progress") : inbox[i].id = one.id
  BY <1>2, <1>3, <1>4
<1>6. ShownAsAsked
  OBVIOUS
<1> QED BY <1>1, <1>5, <1>6 DEF EveryLoadLands, underWay

(* At first nothing is loaded, exported or waiting.                           *)
LEMMA ReplayInitial == ReplayInit => ReplayInv
<1> SUFFICES ASSUME ReplayInit PROVE ReplayInv
  OBVIOUS
<1>1. inbox = <<>> /\ DOMAIN inbox = {}
  BY DEF ReplayInit, RecordsInit
<1>2. Queue(inbox)
  <2>1. inbox \in Seq({})
    BY <1>1
  <2> QED BY <2>1 DEF Queue
<1>3. /\ replay \in ReplayState /\ replay.data = Nothing /\ ~replay.loading /\ ~replay.exporting
      /\ loadJob = Nothing /\ exportJob = Nothing /\ replays \in Nat
  BY DEF ReplayInit, ReplayState, AnyDevice, Modes
<1>4. \A kind : Waiting(kind) = {}
  BY <1>1 DEF Waiting
<1> QED BY <1>1, <1>2, <1>3, <1>4 DEF ReplayInv, ReplayTyped, MessagesOK, OneLoad, OwnProgress,
           OneExport, ShownAsAsked

(* What waits of each kind when a message is sent.                            *)
LEMMA Sent ==
    ASSUME ReplayInv, NEW m, NEW own, m.kind = own, inbox' = Append(inbox, m)
    PROVE  /\ Queue(inbox)'
           /\ \E n \in Nat :
                 /\ DOMAIN inbox = 1..n /\ DOMAIN inbox' = 1..(n + 1)
                 /\ \A i \in 1..n : inbox'[i] = inbox[i]
                 /\ inbox'[n + 1] = m
                 /\ Waiting(own)' = Waiting(own) \cup {n + 1}
                 /\ \A kind : kind # own => Waiting(kind)' = Waiting(kind)
           /\ \A kind : \A i \in Waiting(kind) : i \in DOMAIN inbox /\ inbox'[i] = inbox[i]
<1>1. Queue(inbox)
  BY DEF ReplayInv, ReplayTyped
<1>2. Queue(inbox')
  BY <1>1, Grows
<1>3. PICK n \in Nat :
         /\ DOMAIN inbox = 1..n /\ DOMAIN inbox' = 1..(n + 1)
         /\ \A i \in 1..n : inbox'[i] = inbox[i]
         /\ inbox'[n + 1] = m
  BY <1>1, Grows
<1>4. \A i \in DOMAIN inbox' : i \in DOMAIN inbox \/ i = n + 1
  BY <1>3
<1>5. DOMAIN inbox \subseteq DOMAIN inbox' /\ n + 1 \in DOMAIN inbox' /\ n + 1 \notin DOMAIN inbox
  BY <1>3
<1>6. Waiting(own)' = Waiting(own) \cup {n + 1}
  BY <1>3, <1>4, <1>5 DEF Waiting
<1>7. ASSUME NEW kind, kind # own
      PROVE  Waiting(kind)' = Waiting(kind)
  BY <1>3, <1>4, <1>5, <1>7 DEF Waiting
<1>8. \A kind : \A i \in Waiting(kind) : i \in DOMAIN inbox /\ inbox'[i] = inbox[i]
  BY <1>3 DEF Waiting
<1> QED BY <1>2, <1>3, <1>6, <1>7, <1>8 DEF Queue

(* What waits of each kind when a message is handled.                         *)
LEMMA Handled ==
    ASSUME ReplayInv, inbox # <<>>, inbox' = Tail(inbox)
    PROVE  /\ Queue(inbox)'
           /\ Head(inbox) = inbox[1] /\ 1 \in DOMAIN inbox
           /\ \E n \in Nat :
                 /\ DOMAIN inbox = 1..(n + 1) /\ DOMAIN inbox' = 1..n
                 /\ \A i \in 1..n : inbox'[i] = inbox[i + 1]
                 /\ \A kind : /\ Waiting(kind) \subseteq 1..(n + 1)
                              /\ Waiting(kind)' = {i \in 1..n : i + 1 \in Waiting(kind)}
                              /\ inbox[1].kind = kind <=> 1 \in Waiting(kind)
<1>1. Queue(inbox)
  BY DEF ReplayInv, ReplayTyped
<1>2. Queue(inbox') /\ Head(inbox) = inbox[1]
  BY <1>1, Shrinks
<1>3. PICK n \in Nat :
         /\ DOMAIN inbox = 1..(n + 1) /\ DOMAIN inbox' = 1..n
         /\ \A i \in 1..n : inbox'[i] = inbox[i + 1]
  BY <1>1, Shrinks
<1>4. ASSUME NEW kind
      PROVE  /\ Waiting(kind) \subseteq 1..(n + 1)
             /\ Waiting(kind)' = {i \in 1..n : i + 1 \in Waiting(kind)}
             /\ inbox[1].kind = kind <=> 1 \in Waiting(kind)
  <2>1. \A i \in 1..n : i + 1 \in 1..(n + 1)
    OBVIOUS
  <2>2. 1 \in 1..(n + 1)
    OBVIOUS
  <2> QED BY <1>3, <2>1, <2>2 DEF Waiting
<1>5. 1 \in DOMAIN inbox
  BY <1>3
<1> QED BY <1>2, <1>3, <1>4, <1>5 DEF Queue

(* Steps that leave the window and the queue alone.                           *)
LEMMA ReplayStutters ==
    ASSUME ReplayInv, UNCHANGED <<inbox, replay, loadJob, exportJob, replays>>
    PROVE  ReplayInv'
<1>1. \A kind : Waiting(kind)' = Waiting(kind)
  BY DEF Waiting
<1>2. ReplayTyped' /\ MessagesOK'
  BY DEF ReplayInv, ReplayTyped, MessagesOK, Queue
<1>3. OneLoad' /\ OneExport' /\ OwnProgress'
  BY <1>1 DEF ReplayInv, OneLoad, OneExport, OwnProgress
<1> QED BY <1>2, <1>3 DEF ReplayInv, ShownAsAsked

(* No result waits that a choice made while nothing loads could miss.         *)
LEMMA ChoiceStep ==
    ASSUME ReplayInv, ~replay.loading, replay' \in ReplayState,
           replay'.loading = replay.loading, replay'.exporting = replay.exporting,
           UNCHANGED <<inbox, loadJob, exportJob, replays>>, ShownAsAsked'
    PROVE  ReplayInv'
<1>1. \A kind : Waiting(kind)' = Waiting(kind)
  BY DEF Waiting
<1>2. Waiting("loaded") = {} /\ loadJob = Nothing
  BY DEF ReplayInv, OneLoad
<1>3. ReplayTyped'
  BY DEF ReplayInv, ReplayTyped, Queue
<1>4. MessagesOK'
  <2>1. \A i \in DOMAIN inbox : inbox[i].kind # "loaded"
    BY <1>2 DEF Waiting
  <2> QED BY <2>1 DEF ReplayInv, MessagesOK
<1>5. OneLoad' /\ OneExport' /\ OwnProgress'
  BY <1>1, <1>2 DEF ReplayInv, OneLoad, OneExport, OwnProgress
<1> QED BY <1>3, <1>4, <1>5 DEF ReplayInv

(* The fields of the window's state that are written.                         *)
LEMMA StateFields ==
    ASSUME NEW s \in ReplayState, NEW b \in BOOLEAN
    PROVE  /\ [s EXCEPT !.loading = b] \in ReplayState /\ [s EXCEPT !.exporting = b] \in ReplayState
           /\ \A m \in Modes : [s EXCEPT !.mode = m] \in ReplayState
           /\ \A d \in AnyDevice : [s EXCEPT !.device = d] \in ReplayState
           /\ [s EXCEPT !.downsampling = b] \in ReplayState
           /\ \A x \in OnShow \cup {Nothing} : [s EXCEPT !.data = x] \in ReplayState
           /\ \A x \in Nat : /\ [s EXCEPT !.current = x] \in ReplayState
                             /\ [s EXCEPT !.total = x] \in ReplayState
BY DEF ReplayState

(* The choices of the window.                                                 *)
LEMMA ChooseStep ==
    ASSUME ReplayInv,
           \/ \E m \in Modes : ChooseMode(m)
           \/ \E d \in AnyDevice : TypeDevice(d)
           \/ ToggleDownsampling
    PROVE  ReplayInv'
<1>1. replay \in ReplayState
  BY DEF ReplayInv, ReplayTyped
<1>2. ASSUME NEW m \in Modes, ChooseMode(m)
      PROVE  ReplayInv'
  <2>1. PICK s \in ReplayState : s = [replay EXCEPT !.mode = m]
    BY <1>1, StateFields
  <2>2. replay' = [s EXCEPT !.data = Nothing]
    BY <1>1, <1>2, <2>1 DEF ChooseMode, Chosen, ReplayState
  <2>3. replay' \in ReplayState
    BY <2>2, StateFields
  <2>4. s.loading = replay.loading /\ s.exporting = replay.exporting
    BY <1>1, <2>1 DEF ReplayState
  <2>5. replay'.loading = s.loading /\ replay'.exporting = s.exporting /\ replay'.data = Nothing
    BY <2>2 DEF ReplayState
  <2>6. UNCHANGED <<inbox, loadJob, exportJob, replays>> /\ ~replay.loading
    BY <1>2 DEF ChooseMode, recordsVars
  <2> QED BY <2>3, <2>4, <2>5, <2>6, ChoiceStep DEF ShownAsAsked
<1>3. ASSUME NEW d \in AnyDevice, TypeDevice(d)
      PROVE  ReplayInv'
  <2>1. replay' = [replay EXCEPT !.device = d] /\ replay' \in ReplayState
    BY <1>1, <1>3, StateFields DEF TypeDevice
  <2>2. /\ replay'.loading = replay.loading /\ replay'.exporting = replay.exporting
        /\ replay'.data = replay.data /\ replay'.mode = replay.mode
        /\ replay'.downsampling = replay.downsampling
    BY <1>1, <2>1 DEF ReplayState
  <2>3. UNCHANGED <<inbox, loadJob, exportJob, replays>> /\ ~replay.loading
    BY <1>3 DEF TypeDevice, recordsVars
  <2>4. ShownAsAsked'
    BY <2>2 DEF ReplayInv, ShownAsAsked
  <2> QED BY <2>1, <2>2, <2>3, <2>4, ChoiceStep
<1>4. CASE ToggleDownsampling
  <2>1. PICK b \in BOOLEAN : b = ~replay.downsampling
    BY Zenon
  <2>2. PICK s \in ReplayState : s = [replay EXCEPT !.downsampling = b]
    BY <1>1, StateFields
  <2>3. replay' = [s EXCEPT !.data = Nothing]
    BY <1>1, <1>4, <2>1, <2>2 DEF ToggleDownsampling, Chosen, ReplayState
  <2>4. replay' \in ReplayState
    BY <2>3, StateFields
  <2>5. s.loading = replay.loading /\ s.exporting = replay.exporting
    BY <1>1, <2>2 DEF ReplayState
  <2>6. replay'.loading = s.loading /\ replay'.exporting = s.exporting /\ replay'.data = Nothing
    BY <2>3 DEF ReplayState
  <2>7. UNCHANGED <<inbox, loadJob, exportJob, replays>> /\ ~replay.loading
    BY <1>4 DEF ToggleDownsampling, recordsVars
  <2> QED BY <2>4, <2>5, <2>6, <2>7, ChoiceStep DEF ShownAsAsked
<1> QED BY <1>2, <1>3, <1>4

(* A load that is asked for is the only one.                                  *)
LEMMA LoadStep ==
    ASSUME ReplayInv, NEW prepared \in ReplayState, ~replay.loading, ~prepared.loading,
           prepared.exporting = replay.exporting,
           prepared.data = Nothing \/ prepared = replay,
           RequestLoad(prepared)
    PROVE  ReplayInv'
<1> USE DEF ReplayInv
<1>1. PICK n \in Nat : n = replays + 1 /\ n = replays'
  BY DEF RequestLoad, ReplayTyped
<1>2. /\ replay' = [prepared EXCEPT !.loading = TRUE, !.current = 0, !.total = 0]
      /\ loadJob' = [id |-> n, mode |-> prepared.mode, device |-> prepared.device,
                     downsampling |-> prepared.downsampling, done |-> 0]
      /\ inbox' = inbox /\ exportJob' = exportJob
  BY <1>1 DEF RequestLoad, recordsVars
<1>3. loadJob' \in LoadJobs /\ loadJob'.mode = prepared.mode
      /\ loadJob'.downsampling = prepared.downsampling /\ loadJob' # Nothing
  <2>1. prepared.mode \in Modes /\ prepared.device \in AnyDevice /\ prepared.downsampling \in BOOLEAN
    BY DEF ReplayState
  <2>2. loadJob' \in LoadJobs
    BY <1>2, <2>1 DEF LoadJobs
  <2> QED BY <1>2, <2>2, ReplayAssumption
<1>4. PICK s1 \in ReplayState : s1 = [prepared EXCEPT !.loading = TRUE]
  BY StateFields
<1>5. PICK s2 \in ReplayState : s2 = [s1 EXCEPT !.current = 0]
  BY StateFields
<1>6. replay' = [s2 EXCEPT !.total = 0] /\ replay' \in ReplayState
  <2>1. replay' = [s2 EXCEPT !.total = 0]
    BY <1>2, <1>4, <1>5 DEF ReplayState
  <2> QED BY <2>1, StateFields
<1>7. /\ replay'.mode = prepared.mode /\ replay'.downsampling = prepared.downsampling
      /\ replay'.loading /\ replay'.exporting = prepared.exporting /\ replay'.data = prepared.data
  <2>1. /\ s1.mode = prepared.mode /\ s1.downsampling = prepared.downsampling
        /\ s1.loading /\ s1.exporting = prepared.exporting /\ s1.data = prepared.data
    BY <1>4 DEF ReplayState
  <2>2. /\ s2.mode = s1.mode /\ s2.downsampling = s1.downsampling
        /\ s2.loading = s1.loading /\ s2.exporting = s1.exporting /\ s2.data = s1.data
    BY <1>5 DEF ReplayState
  <2>3. /\ replay'.mode = s2.mode /\ replay'.downsampling = s2.downsampling
        /\ replay'.loading = s2.loading /\ replay'.exporting = s2.exporting /\ replay'.data = s2.data
    BY <1>6 DEF ReplayState
  <2> QED BY <2>1, <2>2, <2>3
<1>8. \A kind : Waiting(kind)' = Waiting(kind)
  BY <1>2 DEF Waiting
<1>9. Waiting("loaded") = {} /\ loadJob = Nothing /\ Waiting("progress") = {}
  BY DEF OneLoad, OwnProgress
<1>10. ReplayTyped'
  BY <1>1, <1>2, <1>3, <1>6 DEF ReplayTyped, Queue
<1>11. MessagesOK'
  <2>1. \A i \in DOMAIN inbox : inbox[i].kind # "loaded"
    BY <1>9 DEF Waiting
  <2> QED BY <1>2, <2>1 DEF MessagesOK
<1>12. OneLoad' /\ OneExport' /\ OwnProgress'
  BY <1>2, <1>3, <1>7, <1>8, <1>9 DEF OneLoad, OneExport, OwnProgress
<1>13. ShownAsAsked'
  BY <1>7 DEF ShownAsAsked
<1> QED BY <1>10, <1>11, <1>12, <1>13

(* The button, and the record window that opens a replay.                     *)
LEMMA OpenStep ==
    ASSUME ReplayInv, Load \/ OpenFromRecords
    PROVE  ReplayInv'
<1>1. replay \in ReplayState
  BY DEF ReplayInv, ReplayTyped
<1>2. CASE Load
  BY <1>1, <1>2, LoadStep DEF Load
<1>3. CASE OpenFromRecords
  <2>1. PICK m \in Modes : m = IF "can" \in filter.groups THEN "can3axis" ELSE "sent"
    BY DEF Modes
  <2>2. PICK s \in ReplayState : s = [replay EXCEPT !.mode = m]
    BY <1>1, StateFields
  <2>3. PICK prepared \in ReplayState : prepared = [s EXCEPT !.data = Nothing]
    BY StateFields
  <2>4. RequestLoad(prepared)
    <3>1. prepared = [replay EXCEPT !.mode = m, !.data = Nothing]
      BY <1>1, <2>2, <2>3 DEF ReplayState
    <3> QED BY <1>3, <2>1, <3>1 DEF OpenFromRecords
  <2>5. s.loading = replay.loading /\ s.exporting = replay.exporting
    BY <1>1, <2>2 DEF ReplayState
  <2>6. prepared.loading = s.loading /\ prepared.exporting = s.exporting /\ prepared.data = Nothing
    BY <2>3 DEF ReplayState
  <2>7. ~replay.loading
    BY <1>3 DEF OpenFromRecords, MayOpen
  <2> QED BY <2>4, <2>5, <2>6, <2>7, LoadStep
<1> QED BY <1>2, <1>3

(* An export that is asked for is the only one.                               *)
LEMMA ExportStep ==
    ASSUME ReplayInv, Export
    PROVE  ReplayInv'
<1> USE DEF ReplayInv
<1>1. /\ ~replay.exporting /\ replays' = replays + 1 /\ replay' = [replay EXCEPT !.exporting = TRUE]
      /\ exportJob' = [mode |-> replay.mode, device |-> replay.device]
      /\ inbox' = inbox /\ loadJob' = loadJob
  BY DEF Export, recordsVars
<1>2. replay \in ReplayState
  BY DEF ReplayTyped
<1>3. exportJob' \in ExportJobs /\ exportJob' # Nothing
  <2>1. replay.mode \in Modes /\ replay.device \in AnyDevice
    BY <1>2 DEF ReplayState
  <2>2. exportJob' \in ExportJobs
    BY <1>1, <2>1 DEF ExportJobs
  <2> QED BY <2>2, ReplayAssumption
<1>4. /\ replay' \in ReplayState
      /\ replay'.mode = replay.mode /\ replay'.downsampling = replay.downsampling
      /\ replay'.loading = replay.loading /\ replay'.exporting /\ replay'.data = replay.data
  BY <1>1, <1>2 DEF ReplayState
<1>5. \A kind : Waiting(kind)' = Waiting(kind)
  BY <1>1 DEF Waiting
<1>6. ReplayTyped'
  BY <1>1, <1>3, <1>4 DEF ReplayTyped, Queue
<1>7. MessagesOK'
  BY <1>1, <1>4 DEF MessagesOK
<1>8. OneLoad' /\ OwnProgress' /\ OneExport'
  BY <1>1, <1>3, <1>4, <1>5 DEF OneLoad, OwnProgress, OneExport
<1>9. ShownAsAsked'
  BY <1>4 DEF ShownAsAsked
<1> QED BY <1>6, <1>7, <1>8, <1>9

(* Handling the first message moves the others up, and loses none of a kind   *)
(* it is not of itself.                                                       *)
LEMMA MovedUp ==
    ASSUME ReplayInv, inbox # <<>>, inbox' = Tail(inbox), NEW kind, inbox[1].kind # kind
    PROVE  /\ (Waiting(kind)' = {}) = (Waiting(kind) = {})
           /\ (\A i, j \in Waiting(kind) : i = j) => (\A i, j \in Waiting(kind)' : i = j)
           /\ \A i \in Waiting(kind) : i - 1 \in Waiting(kind)' /\ inbox'[i - 1] = inbox[i]
           /\ \A i \in Waiting(kind)' : /\ i + 1 \in Waiting(kind) /\ inbox'[i] = inbox[i + 1]
                                        /\ i \in Nat
<1>1. PICK n \in Nat :
         /\ DOMAIN inbox = 1..(n + 1) /\ DOMAIN inbox' = 1..n
         /\ \A i \in 1..n : inbox'[i] = inbox[i + 1]
         /\ Waiting(kind) \subseteq 1..(n + 1)
         /\ Waiting(kind)' = {i \in 1..n : i + 1 \in Waiting(kind)}
         /\ inbox[1].kind = kind <=> 1 \in Waiting(kind)
  BY Handled
<1>2. ASSUME NEW i \in Waiting(kind)
      PROVE  i - 1 \in Waiting(kind)' /\ inbox'[i - 1] = inbox[i]
  <2>1. i \in 1..(n + 1) /\ i # 1
    BY <1>1
  <2>2. i - 1 \in 1..n /\ (i - 1) + 1 = i
    BY <2>1
  <2> QED BY <1>1, <2>2
<1>3. \A i \in Waiting(kind)' : /\ i + 1 \in Waiting(kind) /\ inbox'[i] = inbox[i + 1]
                                /\ i \in Nat
  BY <1>1
<1>4. (Waiting(kind)' = {}) = (Waiting(kind) = {})
  BY <1>2, <1>3
<1>5. (\A i, j \in Waiting(kind) : i = j) => (\A i, j \in Waiting(kind)' : i = j)
  BY <1>3
<1> QED BY <1>2, <1>3, <1>4, <1>5

(* Progress stays the load's own when something else than its result is       *)
(* handled.                                                                   *)
LEMMA ProgressMovedUp ==
    ASSUME ReplayInv, inbox # <<>>, inbox' = Tail(inbox), inbox[1].kind # "loaded",
           loadJob' = loadJob
    PROVE  OwnProgress'
<1>1. ASSUME NEW i \in Waiting("progress")'
      PROVE  \/ loadJob' # Nothing /\ inbox'[i].id = loadJob'.id
             \/ \E j \in Waiting("loaded")' : i < j /\ inbox'[j].id = inbox'[i].id
  <2>1. i \in Nat /\ i + 1 \in Waiting("progress") /\ inbox'[i] = inbox[i + 1]
    <3>1. PICK n \in Nat :
             /\ \A k \in 1..n : inbox'[k] = inbox[k + 1]
             /\ Waiting("progress")' = {k \in 1..n : k + 1 \in Waiting("progress")}
      BY Handled
    <3>2. i \in 1..n /\ i + 1 \in Waiting("progress")
      BY <1>1, <3>1
    <3>3. inbox'[i] = inbox[i + 1]
      BY <3>1, <3>2
    <3>4. i \in Nat
      BY <3>2
    <3> QED BY <3>2, <3>3, <3>4
  <2>2. CASE loadJob # Nothing /\ inbox[i + 1].id = loadJob.id
    BY <2>1, <2>2
  <2>3. CASE \E j \in Waiting("loaded") : i + 1 < j /\ inbox[j].id = inbox[i + 1].id
    <3>1. PICK j \in Waiting("loaded") : i + 1 < j /\ inbox[j].id = inbox[i + 1].id
      BY <2>3
    <3>2. j - 1 \in Waiting("loaded")' /\ inbox'[j - 1] = inbox[j]
      BY MovedUp
    <3>3. j \in Nat
      <4>1. PICK n \in Nat : \A kind : Waiting(kind) \subseteq 1..(n + 1)
        BY Handled
      <4>2. j \in 1..(n + 1)
        BY <4>1
      <4> QED BY <4>2
    <3>4. i < j - 1
      BY <2>1, <3>1, <3>3
    <3> QED BY <2>1, <3>1, <3>2, <3>4
  <2> QED BY <2>1, <2>2, <2>3 DEF ReplayInv, OwnProgress
<1> QED BY <1>1 DEF OwnProgress

(* A page of the record window, sent or handled, is nothing to the replay.    *)
LEMMA PageStep ==
    ASSUME ReplayInv, PageJobEnds \/ PageLoaded, UNCHANGED replayVars
    PROVE  ReplayInv'
<1> USE DEF ReplayInv
<1>1. replay' = replay /\ loadJob' = loadJob /\ exportJob' = exportJob /\ replays' = replays
  BY DEF replayVars
<1>2. CASE PageJobEnds
  <2>1. \E m : m.kind = "page" /\ inbox' = Append(inbox, m)
    BY <1>2, Zenon DEF PageJobEnds
  <2>2. PICK m : m.kind = "page" /\ inbox' = Append(inbox, m)
    BY <2>1
  <2>3. PICK n \in Nat :
           /\ DOMAIN inbox = 1..n /\ DOMAIN inbox' = 1..(n + 1)
           /\ \A i \in 1..n : inbox'[i] = inbox[i]
           /\ inbox'[n + 1] = m
           /\ \A kind : kind # "page" => Waiting(kind)' = Waiting(kind)
    BY <2>2, Sent
  <2>4. /\ Waiting("loaded")' = Waiting("loaded") /\ Waiting("progress")' = Waiting("progress")
        /\ Waiting("exported")' = Waiting("exported")
        /\ \A kind : \A i \in Waiting(kind) : inbox'[i] = inbox[i]
    BY <2>2, <2>3, Sent
  <2>5. Queue(inbox)'
    BY <2>2, Sent
  <2>6. ReplayTyped'
    BY <1>1, <2>5 DEF ReplayTyped
  <2>7. MessagesOK'
    <3>1. \A i \in DOMAIN inbox' : i \in DOMAIN inbox \/ i = n + 1
      BY <2>3
    <3> QED BY <1>1, <2>2, <2>3, <3>1 DEF MessagesOK
  <2>8. OneLoad' /\ OwnProgress' /\ OneExport'
    BY <1>1, <2>4 DEF OneLoad, OwnProgress, OneExport
  <2> QED BY <1>1, <2>6, <2>7, <2>8 DEF ShownAsAsked
<1>3. CASE PageLoaded
  <2>1. inbox # <<>> /\ Head(inbox).kind = "page" /\ inbox' = Tail(inbox)
    BY <1>3 DEF PageLoaded
  <2>2. Queue(inbox)' /\ inbox[1].kind = "page"
    BY <2>1, Handled
  <2>3. PICK n \in Nat :
           /\ DOMAIN inbox = 1..(n + 1) /\ DOMAIN inbox' = 1..n
           /\ \A i \in 1..n : inbox'[i] = inbox[i + 1]
           /\ \A kind : /\ Waiting(kind) \subseteq 1..(n + 1)
                        /\ Waiting(kind)' = {i \in 1..n : i + 1 \in Waiting(kind)}
                        /\ inbox[1].kind = kind <=> 1 \in Waiting(kind)
    BY <2>1, Handled
  <2>4. \A i \in DOMAIN inbox' : i + 1 \in DOMAIN inbox /\ inbox'[i] = inbox[i + 1]
    BY <2>3
  <2>5. ReplayTyped' /\ MessagesOK'
    BY <1>1, <2>2, <2>4 DEF ReplayTyped, MessagesOK
  <2>6. inbox[1].kind # "loaded" /\ inbox[1].kind # "progress" /\ inbox[1].kind # "exported"
    BY <2>2
  <2>7. OneLoad' /\ OneExport'
    BY <1>1, <2>1, <2>6, MovedUp DEF OneLoad, OneExport
  <2>8. OwnProgress'
    BY <1>1, <2>1, <2>6, ProgressMovedUp
  <2> QED BY <1>1, <2>5, <2>7, <2>8 DEF ShownAsAsked
<1> QED BY <1>2, <1>3

(* The thread's own progress, sent or dropped.                                *)
LEMMA AdvanceStep ==
    ASSUME ReplayInv, LoadAdvances
    PROVE  ReplayInv'
<1> USE DEF ReplayInv
<1>1. /\ loadJob # Nothing /\ loadJob \in LoadJobs
      /\ loadJob' = [loadJob EXCEPT !.done = @ + 1]
      /\ replay' = replay /\ exportJob' = exportJob /\ replays' = replays
  BY DEF LoadAdvances, ReplayTyped
<1>2. /\ loadJob' \in LoadJobs /\ loadJob' # Nothing /\ loadJob.done \in Nat
      /\ loadJob'.id = loadJob.id /\ loadJob'.mode = loadJob.mode
      /\ loadJob'.downsampling = loadJob.downsampling
  <2>1. /\ loadJob' \in LoadJobs /\ loadJob.done \in Nat
        /\ loadJob'.id = loadJob.id /\ loadJob'.mode = loadJob.mode
        /\ loadJob'.downsampling = loadJob.downsampling
    BY <1>1 DEF LoadJobs
  <2> QED BY <2>1, ReplayAssumption
<1>3. CASE inbox' = inbox
  <2>1. \A kind : Waiting(kind)' = Waiting(kind)
    BY <1>3 DEF Waiting
  <2>2. ReplayTyped' /\ MessagesOK'
    BY <1>1, <1>2, <1>3 DEF ReplayTyped, MessagesOK, Queue
  <2>3. OneLoad' /\ OwnProgress' /\ OneExport'
    BY <1>1, <1>2, <1>3, <2>1 DEF OneLoad, OwnProgress, OneExport
  <2> QED BY <1>1, <2>2, <2>3 DEF ShownAsAsked
<1>4. CASE inbox' # inbox
  <2>1. PICK m : /\ m = [kind |-> "progress", id |-> loadJob.id, mode |-> loadJob.mode,
                         done |-> loadJob.done, total |-> RowsCounted]
                 /\ inbox' = Append(inbox, m)
    BY <1>4, Zenon DEF LoadAdvances, Progress
  <2>2. /\ m.kind = "progress" /\ m.id = loadJob.id /\ m.done \in Nat /\ m.total \in Nat
        /\ inbox' = Append(inbox, m)
    BY <1>2, <2>1 DEF RowsCounted
  <2>3. PICK n \in Nat :
           /\ DOMAIN inbox = 1..n /\ DOMAIN inbox' = 1..(n + 1)
           /\ \A i \in 1..n : inbox'[i] = inbox[i]
           /\ inbox'[n + 1] = m
           /\ Waiting("progress")' = Waiting("progress") \cup {n + 1}
           /\ \A kind : kind # "progress" => Waiting(kind)' = Waiting(kind)
    BY <2>2, Sent
  <2>4. /\ Waiting("loaded")' = Waiting("loaded") /\ Waiting("exported")' = Waiting("exported")
        /\ Waiting("progress")' = Waiting("progress") \cup {n + 1}
        /\ \A i \in Waiting("progress") : inbox'[i] = inbox[i]
    BY <2>1, <2>2, <2>3, Sent
  <2>5. Queue(inbox)'
    BY <2>2, Sent
  <2>6. ReplayTyped'
    BY <1>1, <1>2, <2>5 DEF ReplayTyped
  <2>7. MessagesOK'
    <3>1. \A i \in DOMAIN inbox' : i \in DOMAIN inbox \/ i = n + 1
      BY <2>3
    <3> QED BY <1>1, <2>2, <2>3, <3>1 DEF MessagesOK
  <2>8. OneLoad' /\ OneExport'
    BY <1>1, <1>2, <2>4 DEF OneLoad, OneExport
  <2>9. OwnProgress'
    <3>1. Waiting("loaded") = {}
      BY <1>1 DEF OneLoad
    <3>2. \A i \in Waiting("progress") : inbox'[i].id = loadJob.id
      BY <2>4, <3>1 DEF OwnProgress
    <3>3. inbox'[n + 1].id = loadJob.id
      BY <2>2, <2>3
    <3> QED BY <1>2, <2>4, <3>2, <3>3 DEF OwnProgress
  <2> QED BY <1>1, <2>6, <2>7, <2>8, <2>9 DEF ShownAsAsked
<1> QED BY <1>3, <1>4

(* The result is sent behind all progress of its load.                        *)
LEMMA ResultStep ==
    ASSUME ReplayInv, LoadEnds
    PROVE  ReplayInv'
<1> USE DEF ReplayInv
<1>1. /\ loadJob # Nothing /\ loadJob \in LoadJobs /\ loadJob' = Nothing
      /\ replay' = replay /\ exportJob' = exportJob /\ replays' = replays
  BY DEF LoadEnds, ReplayTyped
<1> DEFINE Result(ok) == [kind |-> "loaded", id |-> loadJob.id, mode |-> loadJob.mode, ok |-> ok,
                          downsampling |-> loadJob.downsampling, device |-> DeviceRead(loadJob)]
<1>20. PICK ok \in BOOLEAN : inbox' = Append(inbox, Result(ok))
  BY Zenon DEF LoadEnds
<1>2. PICK m : m = Result(ok) /\ inbox' = Append(inbox, m)
  BY Zenon, <1>20
<1>3. /\ m.kind = "loaded" /\ m.id = loadJob.id /\ m.mode = loadJob.mode /\ m.ok \in BOOLEAN
      /\ m.downsampling = loadJob.downsampling /\ m.device = DeviceRead(loadJob)
  BY <1>2
<1>4. DeviceRead(loadJob) \in AnyDevice
  <2>1. loadJob.mode \in Modes /\ loadJob.device \in AnyDevice
    BY <1>1 DEF LoadJobs
  <2>2. DevicesOf[loadJob.mode] \in Seq(Devices)
    BY <2>1, ReplayAssumption
  <2>3. DevicesOf[loadJob.mode] # <<>> => DevicesOf[loadJob.mode][1] \in Devices
    BY <2>2
  <2> QED BY <2>1, <2>3 DEF DeviceRead, AnyDevice
<1>5. PICK n \in Nat :
         /\ DOMAIN inbox = 1..n /\ DOMAIN inbox' = 1..(n + 1)
         /\ \A i \in 1..n : inbox'[i] = inbox[i]
         /\ inbox'[n + 1] = m
         /\ Waiting("loaded")' = Waiting("loaded") \cup {n + 1}
         /\ \A kind : kind # "loaded" => Waiting(kind)' = Waiting(kind)
  BY <1>2, <1>3, Sent
<1>6. /\ Waiting("loaded")' = Waiting("loaded") \cup {n + 1}
      /\ Waiting("exported")' = Waiting("exported") /\ Waiting("progress")' = Waiting("progress")
      /\ \A i \in Waiting("progress") : inbox'[i] = inbox[i] /\ i \in 1..n
  BY <1>2, <1>3, <1>5, Sent
<1>7. Waiting("loaded") = {} /\ loadJob.mode = replay.mode /\ loadJob.downsampling = replay.downsampling
      /\ replay.loading
  BY <1>1 DEF OneLoad
<1>8. Queue(inbox)'
  BY <1>2, <1>3, Sent
<1>9. ReplayTyped'
  BY <1>1, <1>8 DEF ReplayTyped
<1>10. MessagesOK'
  <2>1. \A i \in DOMAIN inbox' : i \in DOMAIN inbox \/ i = n + 1
    BY <1>5
  <2> QED BY <1>1, <1>3, <1>4, <1>5, <1>7, <2>1 DEF MessagesOK
<1>11. OneLoad' /\ OneExport'
  BY <1>1, <1>6, <1>7 DEF OneLoad, OneExport
<1>12. OwnProgress'
  <2>1. \A i \in Waiting("progress") : inbox'[i].id = loadJob.id
    BY <1>6, <1>7 DEF OwnProgress
  <2>2. inbox'[n + 1].id = loadJob.id
    BY <1>3, <1>5
  <2>3. \A i \in 1..n : i < n + 1
    OBVIOUS
  <2> QED BY <1>6, <2>1, <2>2, <2>3 DEF OwnProgress
<1> QED BY <1>1, <1>9, <1>10, <1>11, <1>12 DEF ShownAsAsked

(* The end of an export is sent.                                              *)
LEMMA ExportEndStep ==
    ASSUME ReplayInv, ExportEnds
    PROVE  ReplayInv'
<1> USE DEF ReplayInv
<1>1. /\ exportJob # Nothing /\ exportJob' = Nothing
      /\ replay' = replay /\ loadJob' = loadJob /\ replays' = replays
  BY DEF ExportEnds
<1>2. PICK m : m = [kind |-> "exported"] /\ inbox' = Append(inbox, m)
  BY Zenon DEF ExportEnds
<1>3. m.kind = "exported"
  BY <1>2
<1>4. PICK n \in Nat :
         /\ DOMAIN inbox = 1..n /\ DOMAIN inbox' = 1..(n + 1)
         /\ \A i \in 1..n : inbox'[i] = inbox[i]
         /\ inbox'[n + 1] = m
         /\ Waiting("exported")' = Waiting("exported") \cup {n + 1}
         /\ \A kind : kind # "exported" => Waiting(kind)' = Waiting(kind)
  BY <1>2, <1>3, Sent
<1>5. /\ Waiting("exported")' = Waiting("exported") \cup {n + 1}
      /\ Waiting("loaded")' = Waiting("loaded") /\ Waiting("progress")' = Waiting("progress")
      /\ \A kind : \A i \in Waiting(kind) : inbox'[i] = inbox[i]
  BY <1>2, <1>3, <1>4, Sent
<1>6. Queue(inbox)'
  BY <1>2, <1>3, Sent
<1>7. ReplayTyped'
  BY <1>1, <1>6 DEF ReplayTyped
<1>8. MessagesOK'
  <2>1. \A i \in DOMAIN inbox' : i \in DOMAIN inbox \/ i = n + 1
    BY <1>4
  <2> QED BY <1>1, <1>3, <1>4, <2>1 DEF MessagesOK
<1>9. OneLoad' /\ OwnProgress'
  BY <1>1, <1>5 DEF OneLoad, OwnProgress
<1>10. OneExport'
  BY <1>1, <1>5 DEF OneExport
<1> QED BY <1>1, <1>7, <1>8, <1>9, <1>10 DEF ShownAsAsked

(* Progress that is shown.                                                    *)
LEMMA ProgressStep ==
    ASSUME ReplayInv, ProgressTaken
    PROVE  ReplayInv'
<1> USE DEF ReplayInv
<1>1. /\ inbox # <<>> /\ Head(inbox).kind = "progress" /\ inbox' = Tail(inbox)
      /\ loadJob' = loadJob /\ exportJob' = exportJob /\ replays' = replays
      /\ replay \in ReplayState
  BY DEF ProgressTaken, Taken, ReplayTyped
<1>2. Queue(inbox)' /\ Head(inbox) = inbox[1] /\ inbox[1].kind = "progress" /\ 1 \in DOMAIN inbox
  BY <1>1, Handled
<1>3. /\ replay' \in ReplayState
      /\ replay'.mode = replay.mode /\ replay'.downsampling = replay.downsampling
      /\ replay'.loading = replay.loading /\ replay'.exporting = replay.exporting
      /\ replay'.data = replay.data
  <2>1. CASE replay' = replay
    BY <1>1, <2>1
  <2>2. CASE replay' # replay
    <3>1. PICK x \in Nat, y \in Nat : x = inbox[1].done /\ y = inbox[1].total
      BY <1>2 DEF MessagesOK
    <3>2. PICK s : s = [replay EXCEPT !.current = x]
      OBVIOUS
    <3>3. replay' = [s EXCEPT !.total = y]
      BY <1>1, <1>2, <2>2, <3>1, <3>2 DEF ProgressTaken, ReplayState
    <3>4. /\ s \in ReplayState
          /\ s.mode = replay.mode /\ s.downsampling = replay.downsampling
          /\ s.loading = replay.loading /\ s.exporting = replay.exporting /\ s.data = replay.data
      BY <1>1, <3>2 DEF ReplayState
    <3>5. /\ replay' \in ReplayState
          /\ replay'.mode = s.mode /\ replay'.downsampling = s.downsampling
          /\ replay'.loading = s.loading /\ replay'.exporting = s.exporting /\ replay'.data = s.data
      BY <3>3, <3>4 DEF ReplayState
    <3> QED BY <3>4, <3>5
  <2> QED BY <2>1, <2>2
<1>4. \A i \in DOMAIN inbox' : i + 1 \in DOMAIN inbox /\ inbox'[i] = inbox[i + 1]
  BY <1>1, Handled
<1>5. ReplayTyped' /\ MessagesOK'
  BY <1>1, <1>2, <1>3, <1>4 DEF ReplayTyped, MessagesOK
<1>6. inbox[1].kind # "loaded" /\ inbox[1].kind # "exported"
  BY <1>2
<1>7. OneLoad' /\ OneExport'
  BY <1>1, <1>3, <1>6, MovedUp DEF OneLoad, OneExport
<1>8. OwnProgress'
  BY <1>1, <1>6, ProgressMovedUp
<1>9. ShownAsAsked'
  BY <1>3 DEF ShownAsAsked
<1> QED BY <1>5, <1>7, <1>8, <1>9

(* The end of an export is shown.                                             *)
LEMMA ExportedStep ==
    ASSUME ReplayInv, ExportedTaken
    PROVE  ReplayInv'
<1> USE DEF ReplayInv
<1>1. /\ inbox # <<>> /\ Head(inbox).kind = "exported" /\ inbox' = Tail(inbox)
      /\ loadJob' = loadJob /\ exportJob' = exportJob /\ replays' = replays
      /\ replay \in ReplayState /\ replay' = [replay EXCEPT !.exporting = FALSE]
  BY DEF ExportedTaken, Taken, ReplayTyped
<1>2. Queue(inbox)' /\ Head(inbox) = inbox[1] /\ inbox[1].kind = "exported"
  BY <1>1, Handled
<1>3. /\ replay' \in ReplayState
      /\ replay'.mode = replay.mode /\ replay'.downsampling = replay.downsampling
      /\ replay'.loading = replay.loading /\ ~replay'.exporting /\ replay'.data = replay.data
  BY <1>1 DEF ReplayState
<1>4. \A i \in DOMAIN inbox' : i + 1 \in DOMAIN inbox /\ inbox'[i] = inbox[i + 1]
  BY <1>1, Handled
<1>5. ReplayTyped' /\ MessagesOK'
  BY <1>1, <1>2, <1>3, <1>4 DEF ReplayTyped, MessagesOK
<1>6. inbox[1].kind # "loaded"
  BY <1>2
<1>7. OneLoad'
  BY <1>1, <1>3, <1>6, MovedUp DEF OneLoad
<1>8. OwnProgress'
  BY <1>1, <1>6, ProgressMovedUp
<1>9. OneExport'
  <2>1. 1 \in Waiting("exported")
    BY <1>1, <1>2, Handled
  <2>2. Waiting("exported") = {1} /\ exportJob = Nothing
    BY <2>1 DEF OneExport
  <2>3. Waiting("exported")' = {}
    <3>1. PICK n \in Nat : Waiting("exported")' = {i \in 1..n : i + 1 \in Waiting("exported")}
      BY <1>1, Handled
    <3> QED BY <2>2, <3>1
  <2> QED BY <1>1, <1>3, <2>2, <2>3 DEF OneExport
<1>10. ShownAsAsked'
  BY <1>3 DEF ShownAsAsked
<1> QED BY <1>5, <1>7, <1>8, <1>9, <1>10

(* The result lands: it is for the mode and the sampling chosen now.          *)
LEMMA LandStep ==
    ASSUME ReplayInv, LoadedTaken
    PROVE  ReplayInv'
<1> USE DEF ReplayInv
<1>1. /\ inbox # <<>> /\ Head(inbox).kind = "loaded" /\ inbox' = Tail(inbox)
      /\ loadJob' = loadJob /\ exportJob' = exportJob /\ replays' = replays
      /\ replay \in ReplayState
  BY DEF LoadedTaken, Taken, ReplayTyped
<1>2. Queue(inbox)' /\ Head(inbox) = inbox[1] /\ inbox[1].kind = "loaded" /\ 1 \in DOMAIN inbox
  BY <1>1, Handled
<1>3. /\ inbox[1].mode = replay.mode /\ inbox[1].downsampling = replay.downsampling
      /\ inbox[1].ok \in BOOLEAN /\ inbox[1].device \in AnyDevice
  BY <1>2 DEF MessagesOK
<1>4. /\ replay' \in ReplayState
      /\ replay'.mode = replay.mode /\ replay'.downsampling = replay.downsampling
      /\ ~replay'.loading /\ replay'.exporting = replay.exporting
      /\ ShownAsAsked'
  <2>1. PICK s1 \in ReplayState : s1 = [replay EXCEPT !.loading = FALSE]
    BY <1>1, StateFields
  <2>2. /\ s1.mode = replay.mode /\ s1.downsampling = replay.downsampling
        /\ ~s1.loading /\ s1.exporting = replay.exporting
    BY <1>1, <2>1 DEF ReplayState
  <2>3. CASE inbox[1].ok
    <3>1. PICK x : x = [mode |-> inbox[1].mode, device |-> inbox[1].device,
                        downsampling |-> inbox[1].downsampling]
      OBVIOUS
    <3>2. x \in OnShow /\ x.mode = replay.mode /\ x.downsampling = replay.downsampling
      BY <1>1, <1>3, <3>1 DEF OnShow, ReplayState
    <3>3. PICK s2 \in ReplayState : s2 = [s1 EXCEPT !.device = inbox[1].device]
      BY <1>3, StateFields
    <3>4. replay' = [s2 EXCEPT !.data = x]
      BY <1>1, <1>2, <1>3, <2>1, <2>3, <3>1, <3>3 DEF LoadedTaken, ReplayState
    <3>5. replay' \in ReplayState
      BY <3>2, <3>4, StateFields
    <3>6. /\ s2.mode = s1.mode /\ s2.downsampling = s1.downsampling
          /\ s2.loading = s1.loading /\ s2.exporting = s1.exporting
      BY <3>3 DEF ReplayState
    <3>7. /\ replay'.mode = s2.mode /\ replay'.downsampling = s2.downsampling
          /\ replay'.loading = s2.loading /\ replay'.exporting = s2.exporting /\ replay'.data = x
      BY <3>4 DEF ReplayState
    <3> QED BY <2>2, <3>2, <3>5, <3>6, <3>7 DEF ShownAsAsked
  <2>4. CASE ~inbox[1].ok
    <3>1. replay' = [s1 EXCEPT !.data = Nothing]
      BY <1>1, <1>2, <1>3, <2>1, <2>4 DEF LoadedTaken, ReplayState
    <3>2. replay' \in ReplayState
      BY <3>1, StateFields
    <3>3. /\ replay'.mode = s1.mode /\ replay'.downsampling = s1.downsampling
          /\ replay'.loading = s1.loading /\ replay'.exporting = s1.exporting
          /\ replay'.data = Nothing
      BY <3>1 DEF ReplayState
    <3> QED BY <2>2, <3>2, <3>3 DEF ShownAsAsked
  <2> QED BY <2>3, <2>4
<1>5. \A i \in DOMAIN inbox' : i + 1 \in DOMAIN inbox /\ inbox'[i] = inbox[i + 1]
  BY <1>1, Handled
<1>6. ReplayTyped' /\ MessagesOK'
  BY <1>1, <1>2, <1>4, <1>5 DEF ReplayTyped, MessagesOK
<1>7. Waiting("loaded") = {1} /\ loadJob = Nothing
  <2>1. 1 \in Waiting("loaded")
    BY <1>1, <1>2, Handled
  <2> QED BY <2>1 DEF OneLoad
<1>8. Waiting("loaded")' = {} /\ Waiting("progress")' = {}
  <2>1. PICK n \in Nat :
           /\ Waiting("loaded")' = {i \in 1..n : i + 1 \in Waiting("loaded")}
           /\ Waiting("progress")' = {i \in 1..n : i + 1 \in Waiting("progress")}
    BY <1>1, Handled
  <2>2. ASSUME NEW i \in 1..n, i + 1 \in Waiting("progress") PROVE FALSE
    <3>1. \E j \in Waiting("loaded") : i + 1 < j
      BY <1>7, <2>2 DEF OwnProgress
    <3>2. i + 1 < 1
      BY <1>7, <3>1
    <3> QED BY <3>2
  <2> QED BY <1>7, <2>1, <2>2
<1>9. OneLoad' /\ OwnProgress'
  BY <1>1, <1>4, <1>7, <1>8 DEF OneLoad, OwnProgress
<1>10. OneExport'
  <2>1. inbox[1].kind # "exported"
    BY <1>2
  <2> QED BY <1>1, <1>4, <2>1, MovedUp DEF OneExport
<1> QED BY <1>4, <1>6, <1>9, <1>10

(* The windows keep their invariant.                                          *)
LEMMA AlwaysReplayInv == ReplaySpec => []ReplayInv
<1>1. ASSUME ReplayInv, [ReplayNext]_<<recordsVars, replayVars>>
      PROVE  ReplayInv'
  <2>1. CASE RecordsNext /\ UNCHANGED replayVars
    <3>1. CASE PageJobEnds \/ PageLoaded
      BY <1>1, <2>1, <3>1, PageStep
    <3>2. CASE ~(PageJobEnds \/ PageLoaded)
      <4>1. inbox' = inbox
        BY <2>1, <3>2 DEF RecordsNext, LoadFirst, PreviousPage, NextPage, RequestPage,
           LastFiveMinutes, ToggleGroup, RowInserted
      <4> QED BY <1>1, <2>1, <4>1, ReplayStutters DEF replayVars
    <3> QED BY <3>1, <3>2
  <2>2. CASE \/ \E m \in Modes : ChooseMode(m)
             \/ \E d \in Devices \cup {NoDevice} : TypeDevice(d)
             \/ ToggleDownsampling
    BY <1>1, <2>2, ChooseStep DEF AnyDevice
  <2>3. CASE Load \/ OpenFromRecords
    BY <1>1, <2>3, OpenStep
  <2>4. CASE Export
    BY <1>1, <2>4, ExportStep
  <2>5. CASE LoadAdvances \/ LoadEnds \/ ExportEnds
    BY <1>1, <2>5, AdvanceStep, ResultStep, ExportEndStep
  <2>6. CASE ProgressTaken \/ LoadedTaken \/ ExportedTaken
    BY <1>1, <2>6, ProgressStep, LandStep, ExportedStep
  <2>7. CASE UNCHANGED <<recordsVars, replayVars>>
    BY <1>1, <2>7, ReplayStutters DEF recordsVars, replayVars
  <2> QED BY <1>1, <2>1, <2>2, <2>3, <2>4, <2>5, <2>6, <2>7 DEF ReplayNext
<1> QED BY <1>1, ReplayInitial, PTL DEF ReplaySpec

(* A load always lands, for any devices, any capacity of the queue and any    *)
(* number of loads: while the window says it loads one load is under way, for *)
(* the mode chosen now, and what waits of progress is its own.                *)
THEOREM LoadsLand == ReplaySpec => []EveryLoadLands
<1>1. ReplayInv => EveryLoadLands
  BY ReplayInvLands
<1> QED BY <1>1, AlwaysReplayInv, PTL

------------------------------------------------------------------------------
(* The curves: one series, for any window, cap and steps of the clock.        *)

Point == [t : 0..Span, v : Values]

CurvesTyped ==
    /\ points \in Seq(Point) /\ Len(points) <= MaxPoints
    /\ fed \in Seq(Point) /\ Len(points) <= Len(fed)

CurvesInv == CurvesTyped /\ SeriesIsSuffix

(* A set of numbers that has every smaller one as well is an interval.        *)
LEMMA InitialNumbers ==
    ASSUME NEW n \in Nat, NEW S \in SUBSET (1..n),
           \A i \in S : 1..i \subseteq S
    PROVE  Cardinality(S) \in Nat /\ S = 1..Cardinality(S)
<1> DEFINE k == Cardinality(S)
<1>1. IsFiniteSet(1..n) /\ IsFiniteSet(S) /\ k \in Nat
  <2>1. IsFiniteSet(1..n)
    BY FS_Interval
  <2>2. IsFiniteSet(S)
    BY <2>1, FS_Subset
  <2> QED BY <2>1, <2>2, FS_CardinalityType
<1>2. ASSUME NEW i \in S PROVE i <= k
  <2>1. i \in Nat /\ i > 0 /\ 1..i \in SUBSET S
    OBVIOUS
  <2>2. Cardinality(1..i) = i
    BY <2>1, FS_Interval
  <2>3. Cardinality(1..i) <= k
    BY <1>1, <2>1, FS_Subset
  <2> QED BY <2>2, <2>3
<1>3. S \in SUBSET (1..k)
  BY <1>1, <1>2
<1>4. IsFiniteSet(1..k) /\ Cardinality(1..k) = k
  BY <1>1, FS_Interval
<1>5. S = 1..k
  BY <1>3, <1>4, FS_Subset
<1> QED BY <1>1, <1>5

(* A piece of a sequence.                                                     *)
LEMMA PieceOf ==
    ASSUME NEW T, NEW g \in Seq(T), NEW b \in Nat \ {0}, b <= Len(g) + 1
    PROVE  /\ Len(g) \in Nat
           /\ SubSeq(g, b, Len(g)) \in Seq(T)
           /\ Len(SubSeq(g, b, Len(g))) = Len(g) - b + 1
           /\ \A i \in 1..Len(g) - b + 1 : SubSeq(g, b, Len(g))[i] = g[b + i - 1]
<1>1. Len(g) \in Nat /\ b \in Int /\ Len(g) \in Int
  OBVIOUS
<1>2. \A i \in b..Len(g) : g[i] \in T
  BY <1>1
<1> DEFINE s == SubSeq(g, b, Len(g))
<1>3. /\ s \in Seq(T)
      /\ Len(s) = IF b <= Len(g) THEN Len(g) - b + 1 ELSE 0
      /\ \A i \in 1..Len(g) - b + 1 : s[i] = g[b + i - 1]
  BY ONLY <1>1, <1>2, SubSeqProperties
<1> HIDE DEF s
<1>4. Len(s) = Len(g) - b + 1
  BY <1>1, <1>3
<1> QED BY <1>1, <1>3, <1>4 DEF s

(* The last element of a sequence.                                            *)
LEMMA LastPiece ==
    ASSUME NEW T, NEW g \in Seq(T), Len(g) > 0
    PROVE  SubSeq(g, Len(g), Len(g)) = <<g[Len(g)]>>
<1>1. Len(g) \in Nat \ {0} /\ Len(g) <= Len(g) + 1
  OBVIOUS
<1> DEFINE s == SubSeq(g, Len(g), Len(g))
           e == <<g[Len(g)]>>
<1>2. /\ s \in Seq(T) /\ Len(s) = Len(g) - Len(g) + 1
      /\ \A i \in 1..Len(g) - Len(g) + 1 : s[i] = g[Len(g) + i - 1]
  BY <1>1, PieceOf
<1>3. e \in Seq(T) /\ Len(e) = 1 /\ e[1] = g[Len(g)]
  BY <1>1
<1> HIDE DEF s, e
<1>4. Len(s) = 1 /\ s[1] = g[Len(g)]
  <2>1. Len(g) - Len(g) + 1 = 1 /\ Len(g) + 1 - 1 = Len(g) /\ 1 \in 1..1
    BY <1>1
  <2> QED BY <1>2, <2>1
<1>5. \A i \in 1..Len(s) : s[i] = e[i]
  <2>1. \A i \in 1..1 : i = 1
    OBVIOUS
  <2> QED BY <1>3, <1>4, <2>1
<1>6. Len(s) = Len(e)
  BY <1>3, <1>4
<1>7. s = e
  BY ONLY <1>2, <1>3, <1>5, <1>6, SeqEqual
<1> QED BY <1>7 DEF s, e

(* The end of an end.                                                         *)
LEMMA EndOfEnd ==
    ASSUME NEW T, NEW g \in Seq(T), NEW b \in 1..Len(g) + 1, NEW k \in 0..Len(SubSeq(g, b, Len(g)))
    PROVE  /\ SubSeq(g, b, Len(g)) \in Seq(T) /\ Len(SubSeq(g, b, Len(g))) = Len(g) - b + 1
           /\ \A i \in 1..Len(g) - b + 1 : SubSeq(g, b, Len(g))[i] = g[b + i - 1]
           /\ SubSeq(SubSeq(g, b, Len(g)), k + 1, Len(SubSeq(g, b, Len(g)))) = SubSeq(g, b + k, Len(g))
<1> DEFINE s == SubSeq(g, b, Len(g))
<1>1. Len(g) \in Nat /\ b \in Nat \ {0} /\ b <= Len(g) + 1
  OBVIOUS
<1>2. s \in Seq(T) /\ Len(s) = Len(g) - b + 1 /\ \A i \in 1..Len(g) - b + 1 : s[i] = g[b + i - 1]
  BY <1>1, PieceOf
<1> HIDE DEF s
<1> DEFINE e == SubSeq(s, k + 1, Len(s))
           f == SubSeq(g, b + k, Len(g))
<1>3. k \in 0..Len(s)
  BY DEF s
<1>4. e \in Seq(T) /\ Len(e) = Len(s) - k /\ \A i \in 1..Len(s) - k : e[i] = s[k + i]
  <2>1. k + 1 \in Nat \ {0} /\ k + 1 <= Len(s) + 1 /\ Len(s) \in Nat /\ k \in Nat
    BY <1>1, <1>2, <1>3
  <2>2. /\ e \in Seq(T) /\ Len(e) = Len(s) - (k + 1) + 1
        /\ \A i \in 1..Len(s) - (k + 1) + 1 : e[i] = s[(k + 1) + i - 1]
    BY <1>2, <2>1, PieceOf
  <2> HIDE DEF e
  <2>3. Len(s) - (k + 1) + 1 = Len(s) - k /\ \A i \in 1..Len(s) - k : (k + 1) + i - 1 = k + i
    BY <2>1
  <2> QED BY <2>2, <2>3
<1>5. f \in Seq(T) /\ Len(f) = Len(g) - b - k + 1 /\ \A i \in 1..Len(g) - b - k + 1 : f[i] = g[b + k + i - 1]
  <2>1. b + k \in Nat \ {0} /\ b + k <= Len(g) + 1 /\ k \in Nat /\ b \in Nat
    BY <1>1, <1>2, <1>3
  <2>2. /\ f \in Seq(T) /\ Len(f) = Len(g) - (b + k) + 1
        /\ \A i \in 1..Len(g) - (b + k) + 1 : f[i] = g[(b + k) + i - 1]
    BY <2>1, PieceOf
  <2> HIDE DEF f
  <2>3. Len(g) - (b + k) + 1 = Len(g) - b - k + 1
    BY <1>1, <2>1
  <2> QED BY <2>2, <2>3
<1> HIDE DEF e, f
<1>6. Len(e) = Len(f) /\ \A i \in 1..Len(e) : e[i] = f[i]
  <2>1. Len(e) = Len(f)
    BY <1>1, <1>2, <1>3, <1>4, <1>5
  <2>2. ASSUME NEW i \in 1..Len(e) PROVE e[i] = f[i]
    <3>1. k + i \in 1..Len(g) - b + 1 /\ i \in 1..Len(s) - k /\ i \in 1..Len(g) - b - k + 1
      BY <1>1, <1>2, <1>3, <1>4
    <3>2. e[i] = s[k + i] /\ f[i] = g[b + k + i - 1] /\ s[k + i] = g[b + (k + i) - 1]
      BY <1>2, <1>4, <1>5, <3>1
    <3>3. b + (k + i) - 1 = b + k + i - 1
      BY <1>1, <1>3, <3>1
    <3> QED BY <3>2, <3>3
  <2> QED BY <2>1, <2>2
<1>7. e = f
  BY <1>4, <1>5, <1>6, SeqEqual
<1> QED BY <1>2, <1>7 DEF e, f, s

(* How many points the window drops: those before the first that is in it.    *)
LEMMA WindowDrops ==
    ASSUME NEW s \in Seq(Point), s # <<>>, NEW t \in 0..Span, s[Len(s)].t = t
    PROVE  \E k \in 0..Len(s) - 1 :
              /\ Windowed(s, t) = SubSeq(s, k + 1, Len(s))
              /\ k > 0 => s[k].t < t - Window
              /\ s[k + 1].t >= t - Window
<1> DEFINE Old == {i \in DOMAIN s : \A j \in 1..i : s[j].t < t - Window}
           k == Cardinality(Old)
<1>1. Len(s) \in Nat \ {0} /\ DOMAIN s = 1..Len(s) /\ t \in Nat /\ Window \in Nat
  BY CurvesAssumption
<1>2. \A i \in DOMAIN s : s[i].t \in Nat
  <2>1. \A i \in DOMAIN s : s[i] \in Point
    OBVIOUS
  <2> QED BY <2>1, CurvesAssumption DEF Point
<1>3. Old \in SUBSET (1..Len(s)) /\ \A i \in Old : 1..i \subseteq Old
  BY <1>1
<1>4. k \in Nat /\ Old = 1..k
  BY <1>1, <1>3, InitialNumbers
<1>5. Len(s) \notin Old
  BY <1>1, <1>2
<1> HIDE DEF k
<1>6. k < Len(s)
  <2>1. CASE k >= Len(s)
    <3>1. Len(s) \in 1..k
      BY <1>1, <1>4, <2>1
    <3> QED BY <1>4, <1>5, <3>1
  <2> QED BY <1>1, <1>4, <2>1
<1>7. k > 0 => s[k].t < t - Window
  <2>1. k > 0 => k \in Old
    <3>1. k > 0 => k \in 1..k
      BY <1>4
    <3> QED BY <1>4, <3>1
  <2>2. \A i \in Old : i \in 1..i /\ s[i].t < t - Window
    BY <1>1
  <2> QED BY <2>1, <2>2
<1>8. s[k + 1].t >= t - Window
  <2>1. k + 1 \in DOMAIN s /\ k + 1 \notin Old
    <3>1. k + 1 \in 1..Len(s) /\ k + 1 \notin 1..k
      BY <1>1, <1>4, <1>6
    <3> QED BY <1>1, <1>4, <3>1
  <2>2. \A j \in 1..k : s[j].t < t - Window
    <3> SUFFICES ASSUME NEW j \in 1..k PROVE s[j].t < t - Window
      OBVIOUS
    <3>1. j \in Old /\ j \in 1..j
      BY <1>4
    <3> QED BY <3>1
  <2>3. ~(s[k + 1].t < t - Window)
    <3>1. PICK j \in 1..k + 1 : ~(s[j].t < t - Window)
      BY <2>1
    <3>2. j \in 1..k \/ j = k + 1
      BY <1>4, <3>1
    <3> QED BY <2>2, <3>1, <3>2
  <2> QED BY <1>1, <1>2, <2>1, <2>3
<1>9. Windowed(s, t) = SubSeq(s, k + 1, Len(s))
  BY DEF Windowed, k
<1>10. k \in 0..Len(s) - 1
  BY <1>1, <1>4, <1>6
<1> QED BY <1>7, <1>8, <1>9, <1>10

(* A point that is fed goes to the end, or begins a new time line.            *)
LEMMA ContinuesOrBegins ==
    ASSUME CurvesInv, NEW p \in Point, NEW g, g = Append(fed, p)
    PROVE  \E b \in 1..Len(g) :
              /\ Continued(p) = SubSeq(g, b, Len(g))
              /\ \A i, j \in b..Len(g) : i <= j => g[i].t <= g[j].t
              /\ b > 1 => \/ g[b].t < g[b - 1].t
                          \/ g[b - 1].t < p.t - Window
                          \/ Len(g) - b + 1 > MaxPoints
<1>1. /\ fed \in Seq(Point) /\ points \in Seq(Point) /\ Len(fed) \in Nat /\ Len(points) \in Nat
      /\ Len(points) <= Len(fed) /\ Window \in Nat /\ MaxPoints \in Nat
  BY CurvesAssumption DEF CurvesInv, CurvesTyped
<1>2. /\ g \in Seq(Point) /\ Len(g) = Len(fed) + 1 /\ g[Len(g)] = p
      /\ \A i \in 1..Len(fed) : g[i] = fed[i]
  BY <1>1
<1>3. \A i \in 1..Len(g) : g[i].t \in Nat
  <2>1. \A i \in 1..Len(g) : g[i] \in Point
    BY <1>2
  <2> QED BY <2>1, CurvesAssumption DEF Point
<1>4. p.t \in Nat
  BY CurvesAssumption DEF Point
<1>5. CASE fed = <<>>
  <2>1. points = <<>> /\ Len(g) = 1
    BY <1>1, <1>2, <1>5
  <2>2. Continued(p) = <<p>>
    <3>1. Continued(p) = Append(<<>>, p)
      BY <2>1 DEF Continued
    <3> QED BY <3>1
  <2>3. SubSeq(g, 1, Len(g)) = <<p>>
    <3>1. SubSeq(g, Len(g), Len(g)) = <<g[Len(g)]>>
      <4>1. Len(g) > 0 /\ g \in Seq(Point)
        BY <1>2, <2>1
      <4> QED BY ONLY <4>1, LastPiece
    <3> QED BY <1>2, <2>1, <3>1
  <2>4. \A i, j \in 1..Len(g) : i <= j => g[i].t <= g[j].t
    <3> SUFFICES ASSUME NEW i \in 1..Len(g), NEW j \in 1..Len(g) PROVE g[i].t <= g[j].t
      OBVIOUS
    <3>1. i = 1 /\ j = 1 /\ g[1].t \in Nat
      BY <1>3, <2>1
    <3> QED BY <3>1
  <2>5. 1 \in 1..Len(g)
    BY <2>1
  <2> QED BY <2>2, <2>3, <2>4, <2>5
<1>6. CASE fed # <<>> /\ p.t < Last(points).t
  <2>1. points # <<>> /\ Len(points) > 0
    BY <1>1, <1>6 DEF CurvesInv, SeriesIsSuffix
  <2>2. Last(points) = fed[Len(fed)]
    <3>1. points = SubSeq(fed, Begin, Len(fed)) /\ Begin = Len(fed) - Len(points) + 1
      BY DEF CurvesInv, SeriesIsSuffix, Begin
    <3>2. points[Len(points)] = fed[Begin + Len(points) - 1]
      <4>1. Begin \in Nat \ {0} /\ Begin <= Len(fed) + 1 /\ Len(points) \in 1..Len(fed) - Begin + 1
        <5>1. Begin = Len(fed) - Len(points) + 1
          BY <3>1
        <5>2. Len(fed) \in Nat /\ Len(points) \in Nat /\ Len(points) <= Len(fed) /\ Len(points) > 0
          BY <1>1, <2>1
        <5> QED BY ONLY <5>1, <5>2
      <4>2. SubSeq(fed, Begin, Len(fed))[Len(points)] = fed[Begin + Len(points) - 1]
        BY <1>1, <4>1, PieceOf
      <4> QED BY <3>1, <4>2
    <3>3. Begin + Len(points) - 1 = Len(fed)
      <4>1. Begin = Len(fed) - Len(points) + 1 /\ Len(fed) \in Nat /\ Len(points) \in Nat
        BY <1>1, <3>1
      <4> QED BY ONLY <4>1
    <3> QED BY <3>2, <3>3 DEF Last
  <2>3. Continued(p) = <<p>>
    BY <1>6, <2>1 DEF Continued
  <2>4. SubSeq(g, Len(g), Len(g)) = <<p>>
    <3>1. Len(g) > 0 /\ g \in Seq(Point)
      BY <1>1, <1>2
    <3>2. SubSeq(g, Len(g), Len(g)) = <<g[Len(g)]>>
      BY ONLY <3>1, LastPiece
    <3> QED BY <1>2, <3>2
  <2>5. Len(g) - 1 = Len(fed) /\ Len(fed) \in 1..Len(fed)
    BY <1>1, <1>2, <2>1
  <2>6. g[Len(g)].t < g[Len(g) - 1].t
    BY <1>2, <1>6, <2>2, <2>5
  <2>7. Len(g) \in 1..Len(g)
    BY <1>1, <1>2
  <2>8. \A i, j \in Len(g)..Len(g) : i <= j => g[i].t <= g[j].t
    <3> SUFFICES ASSUME NEW i \in Len(g)..Len(g), NEW j \in Len(g)..Len(g) PROVE g[i].t <= g[j].t
      OBVIOUS
    <3>1. i = Len(g) /\ j = Len(g)
      BY <1>1, <1>2
    <3> QED BY <1>2, <1>4, <3>1
  <2> QED BY <2>3, <2>4, <2>6, <2>7, <2>8
<1>7. CASE fed # <<>> /\ ~(p.t < Last(points).t)
  <2> DEFINE b == Len(fed) - Len(points) + 1
  <2>1. points # <<>> /\ Len(points) > 0 /\ fed # <<>>
    BY <1>1, <1>7 DEF CurvesInv, SeriesIsSuffix
  <2>2. /\ b = Begin /\ b \in 1..Len(fed) /\ b \in 1..Len(g) /\ b \in Nat
        /\ Len(fed) \in 1..Len(fed)
    BY <1>1, <1>2, <2>1 DEF Begin
  <2>3. points = SubSeq(fed, b, Len(fed)) /\ Len(points) = Len(fed) - b + 1
    <3>1. points = SubSeq(fed, b, Len(fed))
      BY <2>2 DEF CurvesInv, SeriesIsSuffix
    <3>2. Len(points) = Len(fed) - b + 1
      BY <1>1
    <3> QED BY <3>1, <3>2
  <2> HIDE DEF b
  <2>4. Last(points) = fed[Len(fed)]
    <3>1. points[Len(points)] = fed[b + Len(points) - 1]
      BY <1>1, <2>1, <2>2, <2>3
    <3>2. b + Len(points) - 1 = Len(fed)
      BY <1>1, <2>2, <2>3
    <3> QED BY <3>1, <3>2 DEF Last
  <2>5. Continued(p) = SubSeq(g, b, Len(g))
    <3> DEFINE s == SubSeq(g, b, Len(g))
               r == Append(points, p)
    <3>1. Continued(p) = r
      BY <1>7 DEF Continued
    <3>2. s \in Seq(Point) /\ Len(s) = Len(g) - b + 1 /\ \A i \in 1..Len(g) - b + 1 : s[i] = g[b + i - 1]
      BY <1>1, <1>2, <2>2
    <3>3. /\ r \in Seq(Point) /\ Len(r) = Len(points) + 1 /\ r[Len(points) + 1] = p
          /\ \A i \in 1..Len(points) : r[i] = points[i]
      BY <1>1
    <3>4. \A i \in 1..Len(points) : points[i] = fed[b + i - 1]
      BY <1>1, <2>2, <2>3
    <3> HIDE DEF s, r
    <3>5. Len(r) = Len(s)
      BY <1>1, <1>2, <2>2, <2>3, <3>2, <3>3
    <3>6. ASSUME NEW i \in 1..Len(r) PROVE r[i] = s[i]
      <4>1. CASE i = Len(points) + 1
        <5>1. b + i - 1 = Len(g) /\ i \in 1..Len(g) - b + 1
          BY <1>1, <1>2, <2>2, <2>3, <4>1
        <5> QED BY <1>2, <3>2, <3>3, <4>1, <5>1
      <4>2. CASE i # Len(points) + 1
        <5>1. i \in 1..Len(points) /\ b + i - 1 \in 1..Len(fed) /\ i \in 1..Len(g) - b + 1
          BY <1>1, <1>2, <2>2, <2>3, <3>3, <4>2
        <5> QED BY <1>2, <3>2, <3>3, <3>4, <5>1
      <4> QED BY <4>1, <4>2
    <3>7. r = s
      BY <3>2, <3>3, <3>5, <3>6, SeqEqual
    <3> QED BY <3>1, <3>7 DEF s
  <2>6. ASSUME NEW i \in b..Len(g), NEW j \in b..Len(g), i <= j PROVE g[i].t <= g[j].t
    <3>1. ASSUME NEW k \in b..Len(fed) PROVE k \in 1..Len(fed) /\ g[k] = fed[k] /\ fed[k].t <= fed[Len(fed)].t
      <4>1. k \in 1..Len(fed) /\ k <= Len(fed) /\ Len(fed) \in b..Len(fed)
        BY <1>1, <2>2
      <4> QED BY <1>2, <2>2, <4>1 DEF CurvesInv, SeriesIsSuffix
    <3>2. i \in 1..Len(g) /\ j \in 1..Len(g)
      BY <1>1, <1>2, <2>2
    <3>3. CASE j # Len(g)
      <4>1. i \in b..Len(fed) /\ j \in b..Len(fed)
        BY <1>1, <1>2, <2>2, <2>6, <3>3
      <4>2. fed[i].t <= fed[j].t
        BY <2>2, <2>6, <4>1 DEF CurvesInv, SeriesIsSuffix
      <4> QED BY <3>1, <4>1, <4>2
    <3>4. CASE j = Len(g) /\ i # Len(g)
      <4>1. i \in b..Len(fed)
        BY <1>1, <1>2, <2>2, <3>4
      <4>2. g[i].t <= fed[Len(fed)].t /\ fed[Len(fed)] = g[Len(fed)] /\ Len(fed) \in 1..Len(g)
        BY <1>1, <1>2, <2>2, <3>1, <4>1
      <4>3. ~(p.t < fed[Len(fed)].t) /\ fed[Len(fed)].t \in Nat /\ g[i].t \in Nat
        BY <1>3, <1>7, <2>4, <3>2, <4>2
      <4>4. g[j] = p
        BY <1>2, <3>4
      <4>5. g[i].t <= p.t
        <5>1. fed[Len(fed)].t <= p.t
          BY ONLY <1>4, <4>3
        <5> QED BY ONLY <1>4, <4>2, <4>3, <5>1
      <4> QED BY <4>4, <4>5
    <3>5. CASE j = Len(g) /\ i = Len(g)
      BY <1>3, <3>2, <3>5
    <3> QED BY <3>3, <3>4, <3>5
  <2>7. ASSUME b > 1
        PROVE  \/ g[b].t < g[b - 1].t
               \/ g[b - 1].t < p.t - Window
               \/ Len(g) - b + 1 > MaxPoints
    <3>1. \/ fed[b].t < fed[b - 1].t
          \/ fed[b - 1].t < Now - Window
          \/ Len(points) = MaxPoints
      BY <2>2, <2>7 DEF CurvesInv, SeriesIsSuffix
    <3>2. b - 1 \in 1..Len(fed) /\ g[b] = fed[b] /\ g[b - 1] = fed[b - 1]
      BY <1>1, <1>2, <2>2, <2>7
    <3>3. Now = fed[Len(fed)].t /\ Now \in Nat /\ Now <= p.t
      <4>1. Now = fed[Len(fed)].t
        BY <2>1 DEF Now, Last
      <4>2. Now \in Nat
        BY <1>2, <1>3, <2>2, <4>1, <1>1
      <4> QED BY <1>4, <1>7, <2>4, <4>1, <4>2
    <3>4. g[b - 1].t \in Nat
      BY <1>1, <1>2, <1>3, <3>2
    <3>5. CASE fed[b - 1].t < Now - Window
      BY <1>1, <1>4, <3>2, <3>3, <3>4, <3>5
    <3>6. CASE Len(points) = MaxPoints
      BY <1>1, <1>2, <2>2, <2>3, <3>6
    <3> QED BY <3>1, <3>2, <3>5, <3>6
  <2> QED BY <2>2, <2>5, <2>6, <2>7
<1> QED BY <1>5, <1>6, <1>7

(* A point that is fed leaves the curve such an end again.                    *)
LEMMA PushStep ==
    ASSUME CurvesInv, NEW p \in Point, Push(p)
    PROVE  CurvesInv'
<1> DEFINE g == Append(fed, p)
           n == Len(g)
<1>1. /\ fed' = g /\ points' = Capped(Windowed(Continued(p), p.t))
  BY DEF Push
<1>2. fed \in Seq(Point) /\ Window \in Nat /\ MaxPoints \in Nat \ {0}
  BY CurvesAssumption DEF CurvesInv, CurvesTyped
<1>3. g \in Seq(Point) /\ n \in Nat \ {0} /\ g[n] = p /\ g # <<>>
  BY <1>2
<1>4. \A i \in 1..n : g[i] \in Point /\ g[i].t \in Nat
  <2>1. \A i \in 1..n : g[i] \in Point
    BY <1>3
  <2> QED BY <2>1, CurvesAssumption DEF Point
<1>5. p.t \in 0..Span /\ p.t \in Nat
  BY CurvesAssumption DEF Point
<1>6. PICK b \in 1..n :
              /\ Continued(p) = SubSeq(g, b, n)
              /\ \A i, j \in b..n : i <= j => g[i].t <= g[j].t
              /\ b > 1 => \/ g[b].t < g[b - 1].t
                          \/ g[b - 1].t < p.t - Window
                          \/ n - b + 1 > MaxPoints
  BY ContinuesOrBegins
<1> HIDE DEF g, n
<1> DEFINE s == SubSeq(g, b, n)
<1>7. /\ s \in Seq(Point) /\ Len(s) = n - b + 1 /\ s # <<>>
      /\ \A i \in 1..n - b + 1 : s[i] = g[b + i - 1]
      /\ \A k \in 0..n - b + 1 : SubSeq(s, k + 1, Len(s)) = SubSeq(g, b + k, n)
  <2>1. b \in 1..Len(g) + 1 /\ n = Len(g)
    BY <1>3 DEF n
  <2>2. Len(s) = n - b + 1 /\ s \in Seq(Point) /\ \A i \in 1..n - b + 1 : s[i] = g[b + i - 1]
    BY <1>3, <2>1
  <2>3. ASSUME NEW k \in 0..n - b + 1 PROVE SubSeq(s, k + 1, Len(s)) = SubSeq(g, b + k, n)
    <3>1. g \in Seq(Point) /\ b \in 1..Len(g) + 1 /\ k \in 0..Len(SubSeq(g, b, Len(g)))
      BY <1>3, <2>1, <2>2
    <3>2. SubSeq(SubSeq(g, b, Len(g)), k + 1, Len(SubSeq(g, b, Len(g)))) = SubSeq(g, b + k, Len(g))
      BY ONLY <3>1, EndOfEnd
    <3> QED BY <2>1, <3>2
  <2> QED BY <1>3, <2>2, <2>3
<1> HIDE DEF s
<1>8. s[Len(s)].t = p.t
  <2>1. Len(s) \in 1..n - b + 1 /\ b + Len(s) - 1 = n
    BY <1>3, <1>7
  <2> QED BY <1>3, <1>7, <2>1
<1>9. PICK k \in 0..Len(s) - 1 :
              /\ Windowed(s, p.t) = SubSeq(s, k + 1, Len(s))
              /\ k > 0 => s[k].t < p.t - Window
              /\ s[k + 1].t >= p.t - Window
  BY <1>5, <1>7, <1>8, WindowDrops
<1> DEFINE c == b + k
<1>10. c \in 1..n /\ Windowed(s, p.t) = SubSeq(g, c, n)
  BY <1>3, <1>7, <1>9
<1>11. c > 1 => \/ g[c].t < g[c - 1].t
                \/ g[c - 1].t < p.t - Window
                \/ n - c + 1 > MaxPoints
  <2>1. CASE k = 0
    BY <1>3, <1>6, <2>1
  <2>2. CASE k > 0
    <3>1. k \in 1..n - b + 1 /\ b + k - 1 = c - 1
      BY <1>3, <1>7, <1>9, <2>2
    <3>2. s[k] = g[c - 1]
      BY <1>7, <3>1
    <3> QED BY <1>9, <2>2, <3>2
  <2> QED BY <1>9, <2>1, <2>2
<1>12. g[c].t >= p.t - Window
  <2>1. k + 1 \in 1..n - b + 1 /\ b + (k + 1) - 1 = c
    BY <1>3, <1>7, <1>9
  <2> QED BY <1>7, <1>9, <2>1
<1> HIDE DEF c
<1> DEFINE d == IF n - c + 1 > MaxPoints THEN n - MaxPoints + 1 ELSE c
<1>13. /\ d \in 1..n /\ d >= c /\ n - d + 1 <= MaxPoints /\ d \in Nat
       /\ d # c => n - d + 1 = MaxPoints
       /\ d = c => n - c + 1 <= MaxPoints
  BY <1>2, <1>3, <1>10
<1>14. points' = SubSeq(g, d, n)
  <2> DEFINE w == SubSeq(g, c, n)
  <2>1. /\ Len(w) = n - c + 1
        /\ \A j \in 0..n - c + 1 : SubSeq(w, j + 1, Len(w)) = SubSeq(g, c + j, n)
    <3>1. c \in 1..Len(g) + 1 /\ n = Len(g)
      BY <1>3, <1>10 DEF n
    <3>2. Len(w) = n - c + 1
      BY <1>3, <3>1
    <3>3. ASSUME NEW j \in 0..n - c + 1 PROVE SubSeq(w, j + 1, Len(w)) = SubSeq(g, c + j, n)
      BY <1>3, <3>1, <3>2, EndOfEnd
    <3> QED BY <3>2, <3>3
  <2>2. points' = Capped(w)
    BY <1>1, <1>6, <1>10 DEF s
  <2> HIDE DEF w
  <2>3. CASE n - c + 1 > MaxPoints
    <3> DEFINE j == n - c + 1 - MaxPoints
    <3>1. j \in 0..n - c + 1 /\ c + j = d /\ Len(w) - MaxPoints + 1 = j + 1
      BY <1>2, <1>3, <1>10, <2>1, <2>3
    <3>2. points' = SubSeq(w, j + 1, Len(w))
      BY <2>1, <2>2, <2>3, <3>1 DEF Capped
    <3> QED BY <2>1, <3>1, <3>2
  <2>4. CASE ~(n - c + 1 > MaxPoints)
    BY <2>1, <2>2, <2>4 DEF Capped, w
  <2> QED BY <2>3, <2>4
<1> HIDE DEF d
<1>15. points' \in Seq(Point) /\ Len(points') = n - d + 1
  BY <1>3, <1>13, <1>14 DEF n
<1>16. Len(fed') = n /\ Begin' = d /\ fed' \in Seq(Point) /\ fed' # <<>> /\ points' # <<>>
  BY <1>1, <1>3, <1>13, <1>15 DEF n, g, Begin
<1>17. Now' = p.t
  BY <1>1, <1>3, <1>16 DEF Now, Last, g, n
<1>18. CurvesTypeOK'
  <2>1. \A i \in DOMAIN points' : points'[i] \in Point
    BY <1>15
  <2> QED BY <1>13, <1>15, <2>1 DEF CurvesTypeOK, Point
<1>19. \A i, j \in d..n : i <= j => g[i].t <= g[j].t
  <2>1. d..n \subseteq b..n
    BY <1>3, <1>9, <1>10, <1>13 DEF c
  <2> QED BY <1>6, <2>1
<1>20. ASSUME NEW i \in d..n PROVE g[i].t >= p.t - Window
  <2>1. i \in 1..n /\ c \in b..n /\ i \in b..n /\ c <= i /\ c \in 1..n
    BY <1>3, <1>9, <1>10, <1>13 DEF c
  <2>2. g[c].t <= g[i].t
    BY <1>6, <2>1
  <2> QED BY <1>2, <1>4, <1>5, <1>12, <2>1, <2>2
<1>21. d > 1 => \/ g[d].t < g[d - 1].t
                \/ g[d - 1].t < p.t - Window
                \/ Len(points') = MaxPoints
  <2>1. CASE d = c
    <3>1. n - c + 1 <= MaxPoints /\ ~(n - c + 1 > MaxPoints)
      BY <1>2, <1>3, <1>10, <1>13, <2>1
    <3> QED BY <1>11, <2>1, <3>1
  <2>2. CASE d # c
    BY <1>13, <1>15, <2>2
  <2> QED BY <2>1, <2>2
<1>22. Len(points') <= MaxPoints /\ Len(points') <= Len(fed')
  BY <1>3, <1>13, <1>15, <1>16
<1>23. SeriesIsSuffix'
  <2>1. fed' = g /\ Len(fed') = n /\ Begin' = d /\ Now' = p.t
    BY <1>1, <1>16, <1>17 DEF g
  <2>2. points' = SubSeq(fed', Begin', Len(fed'))
    BY <1>14, <2>1
  <2> QED BY <1>16, <1>18, <1>19, <1>20, <1>21, <2>1, <2>2 DEF SeriesIsSuffix
<1> QED BY <1>15, <1>16, <1>22, <1>23 DEF CurvesInv, CurvesTyped

(* The points that are fed are points.                                        *)
LEMMA CurvesSteps == CurvesInv /\ [CurvesNext]_curvesVars => CurvesInv'
<1> SUFFICES ASSUME CurvesInv, [CurvesNext]_curvesVars PROVE CurvesInv'
  OBVIOUS
<1>1. Now \in Nat
  <2>1. CASE fed = <<>>
    BY <2>1 DEF Now
  <2>2. CASE fed # <<>>
    <3>1. fed[Len(fed)] \in Point
      BY <2>2 DEF CurvesInv, CurvesTyped
    <3> QED BY <2>2, <3>1, CurvesAssumption DEF Now, Last, Point
  <2> QED BY <2>1, <2>2
<1>2. ASSUME NEW d \in Steps, NEW v \in Values, Push([t |-> Now + d, v |-> v]) PROVE CurvesInv'
  <2>1. Now + d \in 0..Span
    BY <1>1, <1>2, CurvesAssumption DEF Push
  <2>2. [t |-> Now + d, v |-> v] \in Point
    BY <2>1 DEF Point
  <2> QED BY <1>2, <2>2, PushStep
<1>3. ASSUME NEW t \in 0..Now - 1, NEW v \in Values, Push([t |-> t, v |-> v])
      PROVE  CurvesInv'
  <2>1. [t |-> t, v |-> v] \in Point
    BY <1>1, <1>3, CurvesAssumption DEF Push, Point
  <2> QED BY <1>3, <2>1, PushStep
<1>4. CASE UNCHANGED curvesVars
  BY <1>4 DEF curvesVars, CurvesInv, CurvesTyped, SeriesIsSuffix, CurvesTypeOK, Begin, Now
<1> QED BY <1>2, <1>3, <1>4 DEF CurvesNext

(* A curve is the end of what was fed, of one time line and within the window *)
(* and the cap, and no longer end would be: for every window, cap and         *)
(* sequence of samples, clocks that step back included (SensorSeries::push).  *)
THEOREM CurvesAreSuffixes == CurvesSpec => []SeriesIsSuffix
<1>1. CurvesInit => CurvesInv
  <2> SUFFICES ASSUME CurvesInit PROVE CurvesInv
    OBVIOUS
  <2>1. points = <<>> /\ fed = <<>> /\ Begin = 1 /\ MaxPoints \in Nat
    BY CurvesAssumption DEF CurvesInit, Begin
  <2> QED BY <2>1 DEF CurvesInv, CurvesTyped, SeriesIsSuffix, CurvesTypeOK
<1>2. CurvesInv => SeriesIsSuffix
  BY DEF CurvesInv
<1> QED BY <1>1, <1>2, CurvesSteps, PTL DEF CurvesSpec

------------------------------------------------------------------------------
(* The record window: rows of a query and their numbers.                      *)

(* Numbers in a finite set are numbered from 1 to how many there are.         *)
LEMMA Numbered ==
    ASSUME NEW S \in SUBSET Nat, IsFiniteSet(S)
    PROVE  /\ Cardinality(S) \in Nat
           /\ \A i, k \in S :
                 Cardinality({j \in S : j <= i}) = Cardinality({j \in S : j <= k}) => i = k
           /\ \A n \in 1..Cardinality(S) : \E i \in S : Cardinality({j \in S : j <= i}) = n
<1> DEFINE upTo(i) == {j \in S : j <= i}
           c == Cardinality(S)
           f == [i \in S |-> Cardinality(upTo(i))]
<1>1. c \in Nat
  BY FS_CardinalityType
<1>2. ASSUME NEW i \in S
      PROVE  IsFiniteSet(upTo(i)) /\ Cardinality(upTo(i)) \in 1..c
  <2>1. upTo(i) \in SUBSET S /\ i \in upTo(i)
    OBVIOUS
  <2> HIDE DEF upTo
  <2>2. IsFiniteSet(upTo(i)) /\ Cardinality(upTo(i)) <= c
    BY <2>1, FS_Subset
  <2>3. Cardinality(upTo(i)) \in Nat
    BY <2>2, FS_CardinalityType
  <2>4. Cardinality(upTo(i)) # 0
    BY <2>1, <2>2, FS_EmptySet
  <2> QED BY <1>1, <2>2, <2>3, <2>4
<1>3. ASSUME NEW i \in S, NEW k \in S, i < k
      PROVE  Cardinality(upTo(i)) # Cardinality(upTo(k))
  <2>1. upTo(i) \in SUBSET upTo(k) /\ k \in upTo(k) /\ k \notin upTo(i)
    <3>1. i \in Nat /\ k \in Nat
      OBVIOUS
    <3>2. k <= k /\ ~(k <= i) /\ \A j \in Nat : j <= i => j <= k
      BY <1>3, <3>1
    <3> QED BY <3>2
  <2>2. IsFiniteSet(upTo(k))
    BY <1>2
  <2> HIDE DEF upTo
  <2>3. Cardinality(upTo(k)) = Cardinality(upTo(i)) => upTo(k) = upTo(i)
    BY <2>1, <2>2, FS_Subset
  <2> QED BY <2>1, <2>3
<1>4. ASSUME NEW i \in S, NEW k \in S, Cardinality(upTo(i)) = Cardinality(upTo(k))
      PROVE  i = k
  <2>1. i \in Nat /\ k \in Nat
    OBVIOUS
  <2>2. ~(i < k) /\ ~(k < i)
    BY <1>3, <1>4
  <2> QED BY <2>1, <2>2
<1>5. f \in Injection(S, 1..c)
  <2>1. f \in [S -> 1..c]
    BY <1>2
  <2>2. \A a, b \in DOMAIN f : f[a] = f[b] => a = b
    BY <1>4
  <2> QED BY <2>1, <2>2 DEF Injection, IsInjective
<1>6. IsFiniteSet(1..c) /\ Cardinality(1..c) = c
  BY <1>1, FS_Interval
<1>7. f \in Surjection(S, 1..c)
  <2> HIDE DEF f, c
  <2>1. Cardinality(S) = Cardinality(1..c)
    BY <1>6 DEF c
  <2> QED BY <1>5, <1>6, <2>1, FS_Injection
<1>8. ASSUME NEW n \in 1..c PROVE \E i \in S : Cardinality(upTo(i)) = n
  <2>1. PICK i \in S : f[i] = n
    BY <1>7 DEF Surjection
  <2> QED BY <2>1
<1> QED BY <1>1, <1>4, <1>8

Row == [id : Nat, group : Groups, recent : BOOLEAN]

\* Hits, Number and Matching of any table.
HitsIn(tab, q) == {i \in DOMAIN tab : tab[i].group \in q.groups /\ (q.recentOnly => tab[i].recent)}
RankIn(tab, q, i) == Cardinality({j \in HitsIn(tab, q) : j <= i})
MatchingIn(tab, q) ==
    [n \in 1..Cardinality(HitsIn(tab, q)) |-> tab[CHOOSE i \in HitsIn(tab, q) : RankIn(tab, q, i) = n]]

(* What a query finds: its hits in the order of the table.                    *)
LEMMA MatchingFacts ==
    ASSUME NEW tab \in Seq(Row), NEW q
    PROVE  /\ HitsIn(tab, q) \in SUBSET (1..Len(tab)) /\ IsFiniteSet(HitsIn(tab, q))
           /\ Cardinality(HitsIn(tab, q)) \in Nat
           /\ MatchingIn(tab, q) \in Seq(Row) /\ Len(MatchingIn(tab, q)) = Cardinality(HitsIn(tab, q))
           /\ \A n \in 1..Len(MatchingIn(tab, q)) : \E i \in HitsIn(tab, q) :
                 RankIn(tab, q, i) = n /\ MatchingIn(tab, q)[n] = tab[i]
           /\ \A i, k \in HitsIn(tab, q) : RankIn(tab, q, i) = RankIn(tab, q, k) => i = k
<1> DEFINE c == Cardinality(HitsIn(tab, q))
           at(n) == CHOOSE i \in HitsIn(tab, q) : RankIn(tab, q, i) = n
<1>1. Len(tab) \in Nat /\ DOMAIN tab = 1..Len(tab)
  OBVIOUS
<1>2. HitsIn(tab, q) \in SUBSET (1..Len(tab)) /\ HitsIn(tab, q) \in SUBSET Nat
  BY <1>1 DEF HitsIn
<1>3. IsFiniteSet(HitsIn(tab, q))
  <2>1. IsFiniteSet(1..Len(tab))
    BY <1>1, FS_Interval
  <2> QED BY <1>2, <2>1, FS_Subset
<1>4. /\ c \in Nat
      /\ \A i, k \in HitsIn(tab, q) : RankIn(tab, q, i) = RankIn(tab, q, k) => i = k
      /\ \A n \in 1..c : \E i \in HitsIn(tab, q) : RankIn(tab, q, i) = n
  BY <1>2, <1>3, Numbered DEF RankIn
<1>5. ASSUME NEW n \in 1..c PROVE at(n) \in HitsIn(tab, q) /\ RankIn(tab, q, at(n)) = n /\ tab[at(n)] \in Row
  <2>1. at(n) \in HitsIn(tab, q) /\ RankIn(tab, q, at(n)) = n
    BY <1>4
  <2> QED BY <1>1, <1>2, <2>1
<1> HIDE DEF at
<1>6. MatchingIn(tab, q) = [n \in 1..c |-> tab[at(n)]]
  BY DEF MatchingIn, at
<1> HIDE DEF c
<1>7. MatchingIn(tab, q) \in Seq(Row) /\ Len(MatchingIn(tab, q)) = c
  <2>1. MatchingIn(tab, q) \in [1..c -> Row]
    BY <1>5, <1>6
  <2>2. DOMAIN MatchingIn(tab, q) = 1..c
    BY <1>6
  <2> QED BY <1>4, <2>1, <2>2
<1>8. \A n \in 1..Len(MatchingIn(tab, q)) : \E i \in HitsIn(tab, q) :
                 RankIn(tab, q, i) = n /\ MatchingIn(tab, q)[n] = tab[i]
  BY <1>5, <1>6, <1>7
<1> QED BY <1>2, <1>3, <1>4, <1>7, <1>8 DEF c

(* A row at the end of the table leaves in place what a query found before.   *)
LEMMA MatchingGrows ==
    ASSUME NEW tab \in Seq(Row), NEW e \in Row, NEW q, NEW grown \in {Append(tab, e)}
    PROVE  /\ Len(MatchingIn(tab, q)) <= Len(MatchingIn(grown, q))
           /\ \A n \in 1..Len(MatchingIn(tab, q)) : MatchingIn(grown, q)[n] = MatchingIn(tab, q)[n]
<1>1. /\ grown \in Seq(Row) /\ Len(grown) = Len(tab) + 1 /\ Len(tab) \in Nat
      /\ \A i \in 1..Len(tab) : grown[i] = tab[i]
      /\ DOMAIN tab = 1..Len(tab) /\ DOMAIN grown = 1..Len(tab) + 1
  OBVIOUS
<1>2. /\ HitsIn(tab, q) \in SUBSET (1..Len(tab))
      /\ MatchingIn(tab, q) \in Seq(Row) /\ Len(MatchingIn(tab, q)) = Cardinality(HitsIn(tab, q))
      /\ \A n \in 1..Len(MatchingIn(tab, q)) : \E i \in HitsIn(tab, q) :
            RankIn(tab, q, i) = n /\ MatchingIn(tab, q)[n] = tab[i]
  BY MatchingFacts
<1>3. /\ HitsIn(grown, q) \in SUBSET (1..Len(grown)) /\ IsFiniteSet(HitsIn(grown, q))
      /\ MatchingIn(grown, q) \in Seq(Row) /\ Len(MatchingIn(grown, q)) = Cardinality(HitsIn(grown, q))
      /\ \A n \in 1..Len(MatchingIn(grown, q)) : \E i \in HitsIn(grown, q) :
            RankIn(grown, q, i) = n /\ MatchingIn(grown, q)[n] = grown[i]
      /\ \A i, k \in HitsIn(grown, q) : RankIn(grown, q, i) = RankIn(grown, q, k) => i = k
  BY <1>1, MatchingFacts
<1>4. HitsIn(tab, q) = {i \in HitsIn(grown, q) : i <= Len(tab)}
  <2>1. \A i \in 1..Len(tab) : i \in 1..Len(tab) + 1 /\ i <= Len(tab)
    BY <1>1
  <2>2. \A i \in 1..Len(tab) + 1 : i <= Len(tab) => i \in 1..Len(tab)
    BY <1>1
  <2> QED BY <1>1, <2>1, <2>2 DEF HitsIn
<1>5. Cardinality(HitsIn(tab, q)) <= Cardinality(HitsIn(grown, q))
  BY <1>3, <1>4, FS_Subset
<1>6. ASSUME NEW i \in HitsIn(tab, q) PROVE RankIn(grown, q, i) = RankIn(tab, q, i)
  <2>1. i \in 1..Len(tab)
    BY <1>2
  <2>2. \A j \in HitsIn(grown, q) : j \in Nat /\ (j <= i => j <= Len(tab))
    BY <1>1, <1>3, <2>1
  <2>3. {j \in HitsIn(grown, q) : j <= i} = {j \in HitsIn(tab, q) : j <= i}
    BY <1>4, <2>2
  <2> QED BY <2>3 DEF RankIn
<1>7. ASSUME NEW n \in 1..Len(MatchingIn(tab, q)) PROVE MatchingIn(grown, q)[n] = MatchingIn(tab, q)[n]
  <2>1. PICK i \in HitsIn(tab, q) : RankIn(tab, q, i) = n /\ MatchingIn(tab, q)[n] = tab[i]
    BY <1>2
  <2>2. n \in 1..Len(MatchingIn(grown, q))
    BY <1>2, <1>3, <1>5
  <2>3. PICK k \in HitsIn(grown, q) : RankIn(grown, q, k) = n /\ MatchingIn(grown, q)[n] = grown[k]
    BY <1>3, <2>2
  <2>4. i \in HitsIn(grown, q) /\ RankIn(grown, q, i) = n
    BY <1>4, <1>6, <2>1
  <2>5. i = k
    BY <1>3, <2>3, <2>4
  <2> QED BY <1>1, <1>2, <2>1, <2>3, <2>5
<1> QED BY <1>2, <1>3, <1>5, <1>7
(* What a query finds, now and in the next state.                             *)
LEMMA MatchingOf ==
    ASSUME NEW q
    PROVE  Matching(q) = MatchingIn(table, q) /\ Matching(q)' = MatchingIn(table', q)
BY DEF Matching, MatchingIn, Hits, HitsIn, Number, RankIn

------------------------------------------------------------------------------
(* The record window: what holds of it.                                       *)

RecordsTyped ==
    /\ table \in Seq(Row) /\ filter \in Queries
    /\ records \in [page : Nat, next : BOOLEAN, data : Seq(Row) \cup {Nothing}, loading : BOOLEAN]
    /\ pageJob \in PageJobs \cup {Nothing}
    /\ walk \in [ok : BOOLEAN, ids : Seq(Nat), of : Queries \cup {Nothing}, page : Nat, atEnd : BOOLEAN]
    /\ Len(table) <= MaxRows /\ Len(inbox) <= InboxCap

\* One page is being read or waits, exactly while that is shown.
OnePage ==
    /\ \A i, j \in Waiting("page") : i = j
    /\ pageJob # Nothing => Waiting("page") = {}
    /\ records.loading <=> (pageJob # Nothing \/ Waiting("page") # {})

\* A page that waits is the last one of the walk.
PagesOK == \A i \in Waiting("page") :
    /\ inbox[i].ok \in BOOLEAN
    /\ inbox[i].ok =>
          /\ inbox[i].page \in Nat /\ inbox[i].next \in BOOLEAN /\ inbox[i].rows \in Seq(Row)
          /\ walk.ok => inbox[i].page = walk.page /\ inbox[i].next = ~walk.atEnd

\* What a walk has shown, and that its pages are full up to the last.
WalkOK == walk.ok =>
    /\ walk.of \in Queries
    /\ Len(walk.ids) <= Len(Matching(walk.of))
    /\ \A n \in 1..Len(walk.ids) : walk.ids[n] = Matching(walk.of)[n].id
    /\ ~walk.atEnd => Len(walk.ids) = (walk.page + 1) * PageSize

\* The window stands where the walk is, or was cleared; a walk goes on only
\* where there is more.
WindowFollows == walk.ok =>
    /\ (\A i \in Waiting("page") : ~inbox[i].ok) =>
          \/ /\ records.page = walk.page
             /\ records.data # Nothing => records.next = ~walk.atEnd
             /\ records.next => ~walk.atEnd
          \/ records.page = 0 /\ ~records.next /\ records.data = Nothing
    /\ pageJob # Nothing /\ pageJob.page = walk.page + 1 => ~walk.atEnd

RecordsInv == RecordsTyped /\ OnePage /\ PagesOK /\ WalkOK /\ WindowFollows

(* The invariant is stronger than what paging promises.                       *)
LEMMA RecordsInvWhole == ReplayInv /\ RecordsInv => WholeList
<1> SUFFICES ASSUME ReplayInv, RecordsInv PROVE WholeList
  OBVIOUS
<1> USE DEF RecordsInv
<1>1. RecordsTypeOK
  <2>1. records.page \in Nat /\ records.loading \in BOOLEAN /\ records.next \in BOOLEAN
    BY DEF RecordsTyped
  <2>2. filter.groups \subseteq Groups
    BY DEF RecordsTyped, Queries
  <2>3. (Waiting("page") # {}) <=> (\E i \in DOMAIN inbox : inbox[i].kind = "page")
    BY DEF Waiting
  <2>4. records.loading = (pageJob # Nothing \/ \E i \in DOMAIN inbox : inbox[i].kind = "page")
    BY <2>1, <2>3 DEF OnePage
  <2> QED BY <2>1, <2>2, <2>4 DEF RecordsTypeOK, RecordsTyped
<1>2. ASSUME walk.ok PROVE walk.ids = Ids(SubSeq(Matching(walk.of), 1, Len(walk.ids)))
  <2> DEFINE m == Matching(walk.of)
             k == Len(walk.ids)
             p == SubSeq(m, 1, k)
  <2>1. /\ m \in Seq(Row) /\ k \in Nat /\ k <= Len(m) /\ walk.ids \in Seq(Nat)
        /\ \A n \in 1..k : walk.ids[n] = m[n].id
    <3>1. MatchingIn(table, walk.of) \in Seq(Row)
      BY MatchingFacts DEF RecordsTyped
    <3>2. m \in Seq(Row)
      BY <3>1, MatchingOf
    <3>3. walk.ids \in Seq(Nat)
      BY DEF RecordsTyped
    <3> QED BY <1>2, <3>2, <3>3 DEF WalkOK
  <2> HIDE DEF m
  <2>2. p \in Seq(Row) /\ Len(p) = k /\ \A n \in 1..k : p[n] = m[n]
    BY <2>1
  <2> HIDE DEF k, p
  <2>3. DOMAIN p = 1..k /\ DOMAIN walk.ids = 1..k
    BY <2>1, <2>2 DEF k
  <2>4. \A n \in 1..k : walk.ids[n] = p[n].id
    BY <2>1, <2>2
  <2>5. Ids(p) = [n \in 1..k |-> p[n].id]
    BY <2>3 DEF Ids
  <2>6. walk.ids = [n \in 1..k |-> walk.ids[n]]
    <3>1. walk.ids \in [1..k -> Nat]
      BY <2>1 DEF k
    <3> QED BY <3>1
  <2>7. walk.ids = Ids(p)
    BY <2>4, <2>5, <2>6
  <2> QED BY <2>7 DEF p, k, m
<1>3. ASSUME walk.ok, records.page = walk.page, ~records.loading, records.data # Nothing
      PROVE  records.next = ~walk.atEnd
  <2>1. \A i \in Waiting("page") : ~inbox[i].ok
    BY <1>3 DEF OnePage
  <2> QED BY <1>3, <2>1 DEF WindowFollows
<1> QED BY <1>1, <1>2, <1>3 DEF WholeList

(* At first there are no rows and nothing is loaded.                          *)
LEMMA RecordsInitial == ReplayInit => RecordsInv
<1> SUFFICES ASSUME ReplayInit PROVE RecordsInv
  OBVIOUS
<1>1. RecordsInit /\ inbox = <<>> /\ table = <<>> /\ Len(inbox) = 0 /\ Len(table) = 0 /\ ~walk.ok
  BY DEF ReplayInit, RecordsInit, NoWalk
<1>2. Waiting("page") = {}
  BY <1>1 DEF Waiting
<1>3. RecordsTyped
  <2>1. filter \in Queries
    BY <1>1 DEF RecordsInit, Queries
  <2>2. walk \in [ok : BOOLEAN, ids : Seq(Nat), of : Queries \cup {Nothing}, page : Nat, atEnd : BOOLEAN]
    BY <1>1 DEF RecordsInit, NoWalk
  <2>3. records \in [page : Nat, next : BOOLEAN, data : Seq(Row) \cup {Nothing}, loading : BOOLEAN]
    BY <1>1 DEF RecordsInit
  <2>4. table \in Seq(Row)
    BY <1>1
  <2> QED BY <1>1, <2>1, <2>2, <2>3, <2>4, RecordsAssumption DEF RecordsTyped, RecordsInit
<1> QED BY <1>1, <1>2, <1>3 DEF RecordsInv, OnePage, PagesOK, WalkOK, WindowFollows, RecordsInit

(* Steps that leave the window and its messages alone.                        *)
LEMMA RecordsStutter ==
    ASSUME RecordsInv, UNCHANGED recordsVars
    PROVE  RecordsInv'
<1>1. Waiting("page")' = Waiting("page")
  BY DEF Waiting, recordsVars
<1>2. \A q : Matching(q)' = Matching(q)
  BY MatchingOf DEF recordsVars
<1>3. RecordsTyped' /\ OnePage' /\ PagesOK' /\ WindowFollows'
  BY <1>1 DEF RecordsInv, recordsVars, RecordsTyped, OnePage, PagesOK, WindowFollows
<1>4. WalkOK'
  BY <1>2 DEF RecordsInv, recordsVars, WalkOK
<1> QED BY <1>3, <1>4 DEF RecordsInv

(* A page is asked for.                                                       *)
LEMMA RequestStep ==
    ASSUME RecordsInv, LoadFirst \/ PreviousPage \/ NextPage
    PROVE  RecordsInv'
<1> USE DEF RecordsInv
<1>1. PICK page \in Nat :
         /\ RequestPage(page)
         /\ page = 0 \/ (records.page > 0 /\ page = records.page - 1) \/ (records.next /\ page = records.page + 1)
  <2>1. records.page \in Nat /\ 0 \in Nat
    BY DEF RecordsTyped
  <2>2. CASE LoadFirst
    BY <2>1, <2>2 DEF LoadFirst
  <2>3. CASE PreviousPage
    <3>1. records.page - 1 \in Nat
      BY <2>1, <2>3 DEF PreviousPage
    <3> QED BY <2>3, <3>1 DEF PreviousPage
  <2>4. CASE NextPage
    <3>1. records.page + 1 \in Nat
      BY <2>1
    <3> QED BY <2>4, <3>1 DEF NextPage
  <2> QED BY <2>2, <2>3, <2>4
<1>2. /\ ~records.loading /\ records' = [records EXCEPT !.loading = TRUE]
      /\ pageJob' = [page |-> page, query |-> filter]
      /\ UNCHANGED <<table, filter, inbox, walk>>
  BY <1>1 DEF RequestPage
<1>3. /\ records' \in [page : Nat, next : BOOLEAN, data : Seq(Row) \cup {Nothing}, loading : BOOLEAN]
      /\ records'.loading = TRUE /\ records'.page = records.page /\ records'.next = records.next
      /\ records'.data = records.data
  BY <1>2 DEF RecordsTyped
<1>4. pageJob' \in PageJobs /\ pageJob' # Nothing /\ pageJob'.page = page
  BY <1>1, <1>2, RecordsAssumption DEF RecordsTyped, PageJobs
<1>5. Waiting("page") = {} /\ Waiting("page")' = {} /\ pageJob = Nothing
  <2>1. Waiting("page")' = Waiting("page")
    BY <1>2 DEF Waiting
  <2> QED BY <1>2, <2>1 DEF OnePage
<1>6. RecordsTyped' /\ OnePage' /\ PagesOK'
  BY <1>2, <1>3, <1>4, <1>5 DEF RecordsTyped, OnePage, PagesOK
<1>7. WalkOK'
  <2>1. \A q : Matching(q)' = Matching(q)
    BY <1>2, MatchingOf
  <2> QED BY <1>2, <2>1 DEF WalkOK
<1>8. WindowFollows'
  <2>1. ASSUME walk.ok
        PROVE  \/ /\ records.page = walk.page
                  /\ records.data # Nothing => records.next = ~walk.atEnd
                  /\ records.next => ~walk.atEnd
               \/ records.page = 0 /\ ~records.next /\ records.data = Nothing
    BY <1>5, <2>1 DEF WindowFollows
  <2>2. ASSUME walk.ok, page = walk.page + 1 PROVE ~walk.atEnd
    <3>1. walk.page \in Nat /\ records.page \in Nat
      BY DEF RecordsTyped
    <3> QED BY <1>1, <2>1, <2>2, <3>1
  <2> QED BY <1>2, <1>3, <1>4, <1>5, <2>1, <2>2 DEF WindowFollows
<1> QED BY <1>6, <1>7, <1>8

(* The toggles, and the button that clears the window.                        *)
LEMMA FilterStep ==
    ASSUME RecordsInv, LastFiveMinutes \/ \E g \in Groups : ToggleGroup(g)
    PROVE  RecordsInv'
<1> USE DEF RecordsInv
<1>1. /\ UNCHANGED <<table, pageJob, inbox, walk>>
      /\ \/ UNCHANGED records
         \/ records' = [records EXCEPT !.page = 0, !.next = FALSE, !.data = Nothing]
  BY DEF LastFiveMinutes, ToggleGroup
<1>2. filter' \in Queries
  <2>1. CASE LastFiveMinutes
    BY <2>1 DEF LastFiveMinutes, RecordsTyped, Queries
  <2>2. ASSUME NEW g \in Groups, ToggleGroup(g) PROVE filter' \in Queries
    BY <2>2 DEF ToggleGroup, RecordsTyped, Queries
  <2> QED BY <2>1, <2>2
<1>3. /\ records' \in [page : Nat, next : BOOLEAN, data : Seq(Row) \cup {Nothing}, loading : BOOLEAN]
      /\ records'.loading = records.loading
      /\ records' = records \/ (records'.page = 0 /\ ~records'.next /\ records'.data = Nothing)
  <2>1. CASE UNCHANGED records
    BY <2>1 DEF RecordsTyped
  <2>2. CASE records' = [records EXCEPT !.page = 0, !.next = FALSE, !.data = Nothing]
    <3>1. records'.page = 0 /\ records'.next = FALSE /\ records'.data = Nothing
      BY <2>2 DEF RecordsTyped
    <3>2. /\ records' \in [page : Nat, next : BOOLEAN, data : Seq(Row) \cup {Nothing}, loading : BOOLEAN]
          /\ records'.loading = records.loading
      BY <2>2 DEF RecordsTyped
    <3> QED BY <3>1, <3>2
  <2> QED BY <1>1, <2>1, <2>2
<1>4. Waiting("page")' = Waiting("page") /\ \A q : Matching(q)' = Matching(q)
  BY <1>1, MatchingOf DEF Waiting
<1>5. RecordsTyped' /\ OnePage' /\ PagesOK'
  BY <1>1, <1>2, <1>3, <1>4 DEF RecordsTyped, OnePage, PagesOK
<1>6. WalkOK'
  BY <1>1, <1>4 DEF WalkOK
<1>7. WindowFollows'
  BY <1>1, <1>3, <1>4 DEF WindowFollows
<1> QED BY <1>5, <1>6, <1>7

(* The window takes the page, or that there is none.                          *)
LEMMA PageLoadedStep ==
    ASSUME ReplayInv, RecordsInv, PageLoaded
    PROVE  RecordsInv'
<1> USE DEF RecordsInv
<1>1. /\ inbox # <<>> /\ inbox' = Tail(inbox) /\ Head(inbox) = inbox[1] /\ inbox[1].kind = "page"
      /\ UNCHANGED <<table, filter, pageJob, walk>>
  BY Handled DEF PageLoaded
<1>2. PICK n \in Nat :
         /\ DOMAIN inbox = 1..(n + 1) /\ DOMAIN inbox' = 1..n
         /\ Waiting("page")' = {i \in 1..n : i + 1 \in Waiting("page")}
         /\ 1 \in Waiting("page")
  BY <1>1, Handled
<1>3. Waiting("page")' = {} /\ pageJob = Nothing /\ \A i \in Waiting("page") : i = 1
  <2>1. \A i \in Waiting("page") : i = 1
    BY <1>2 DEF OnePage
  <2>2. \A i \in 1..n : i + 1 # 1
    OBVIOUS
  <2>3. Waiting("page")' = {}
    BY <1>2, <2>1, <2>2
  <2> QED BY <1>2, <2>1, <2>3 DEF OnePage
<1>4. records' = IF inbox[1].ok
                 THEN [page |-> inbox[1].page, next |-> inbox[1].next,
                       data |-> inbox[1].rows, loading |-> FALSE]
                 ELSE [records EXCEPT !.loading = FALSE, !.data = Nothing]
  BY <1>1 DEF PageLoaded
<1>5. /\ inbox[1].ok \in BOOLEAN
      /\ inbox[1].ok =>
            /\ inbox[1].page \in Nat /\ inbox[1].next \in BOOLEAN /\ inbox[1].rows \in Seq(Row)
            /\ walk.ok => inbox[1].page = walk.page /\ inbox[1].next = ~walk.atEnd
  BY <1>2 DEF PagesOK
<1>6. /\ records' \in [page : Nat, next : BOOLEAN, data : Seq(Row) \cup {Nothing}, loading : BOOLEAN]
      /\ records'.loading = FALSE
      /\ inbox[1].ok => records'.page = inbox[1].page /\ records'.next = inbox[1].next
      /\ ~inbox[1].ok => /\ records'.page = records.page /\ records'.next = records.next
                         /\ records'.data = Nothing
  <2>1. CASE inbox[1].ok
    BY <1>4, <1>5, <2>1
  <2>2. CASE ~inbox[1].ok
    BY <1>4, <2>2 DEF RecordsTyped
  <2> QED BY <2>1, <2>2
<1>7. Len(inbox)' <= InboxCap
  <2>1. PICK S : inbox \in Seq(S)
    BY DEF ReplayInv, ReplayTyped, Queue
  <2>2. Len(inbox) \in Nat /\ Len(inbox') = Len(inbox) - 1
    BY <1>1, <2>1
  <2> QED BY <2>2, RecordsAssumption DEF RecordsTyped
<1>8. RecordsTyped' /\ OnePage' /\ PagesOK'
  BY <1>1, <1>3, <1>6, <1>7 DEF RecordsTyped, OnePage, PagesOK
<1>9. WalkOK'
  <2>1. \A q : Matching(q)' = Matching(q)
    BY <1>1, MatchingOf
  <2> QED BY <1>1, <2>1 DEF WalkOK
<1>10. WindowFollows'
  <2>1. ASSUME walk.ok, inbox[1].ok PROVE WindowFollows'
    BY <1>1, <1>3, <1>5, <1>6, <2>1 DEF WindowFollows
  <2>2. ASSUME walk.ok, ~inbox[1].ok PROVE WindowFollows'
    <3>1. \A i \in Waiting("page") : ~inbox[i].ok
      BY <1>3, <2>2
    <3> QED BY <1>1, <1>3, <1>6, <2>2, <3>1 DEF WindowFollows
  <2> QED BY <1>1, <2>1, <2>2 DEF WindowFollows
<1> QED BY <1>8, <1>9, <1>10

(* A row inserted into a table, and one at its end.                           *)
LEMMA Inserted ==
    ASSUME NEW tab \in Seq(Row), NEW at \in 1..Len(tab) + 1, NEW e \in Row
    PROVE  /\ InsertAt(tab, at, e) \in Seq(Row)
           /\ Len(InsertAt(tab, at, e)) = Len(tab) + 1
           /\ at = Len(tab) + 1 => InsertAt(tab, at, e) = Append(tab, e)
<1> DEFINE before == SubSeq(tab, 1, at - 1)
           after == SubSeq(tab, at, Len(tab))
<1>1. Len(tab) \in Nat /\ at \in Nat \ {0} /\ at <= Len(tab) + 1 /\ at - 1 \in Nat
  OBVIOUS
<1>2. /\ before \in Seq(Row) /\ Len(before) = at - 1
      /\ \A i \in 1..at - 1 : before[i] = tab[i]
  <2>1. \A i \in 1..at - 1 : tab[i] \in Row
    BY <1>1
  <2>2. /\ before \in Seq(Row) /\ Len(before) = IF 1 <= at - 1 THEN (at - 1) - 1 + 1 ELSE 0
        /\ \A i \in 1..(at - 1) - 1 + 1 : before[i] = tab[1 + i - 1]
    BY ONLY <1>1, <2>1, SubSeqProperties
  <2> HIDE DEF before
  <2>3. Len(before) = at - 1 /\ (at - 1) - 1 + 1 = at - 1 /\ \A i \in 1..at - 1 : 1 + i - 1 = i
    BY <1>1, <2>2
  <2> QED BY <2>2, <2>3
<1>3. after \in Seq(Row) /\ Len(after) = Len(tab) - at + 1
  BY <1>1, PieceOf
<1>4. InsertAt(tab, at, e) = (before \o <<e>>) \o after
  BY DEF InsertAt
<1> HIDE DEF before, after
<1>5. before \o <<e>> \in Seq(Row) /\ Len(before \o <<e>>) = at
  <2>1. <<e>> \in Seq(Row) /\ Len(<<e>>) = 1
    OBVIOUS
  <2> QED BY <1>1, <1>2, <2>1
<1>6. InsertAt(tab, at, e) \in Seq(Row) /\ Len(InsertAt(tab, at, e)) = Len(tab) + 1
  BY <1>1, <1>3, <1>4, <1>5
<1>7. ASSUME at = Len(tab) + 1 PROVE InsertAt(tab, at, e) = Append(tab, e)
  <2>1. before = tab
    <3>1. Len(before) = Len(tab) /\ \A i \in 1..Len(before) : before[i] = tab[i]
      BY <1>1, <1>2, <1>7
    <3> QED BY <1>2, <3>1, SeqEqual
  <2>2. after = <<>>
    <3>1. Len(after) = 0
      BY <1>1, <1>3, <1>7
    <3> QED BY <1>3, <3>1
  <2>3. (before \o <<e>>) \o after = before \o <<e>>
    BY <1>5, <2>2
  <2>4. tab \o <<e>> = Append(tab, e)
    OBVIOUS
  <2> QED BY <1>4, <2>1, <2>3, <2>4
<1> QED BY <1>6, <1>7

(* The collector inserts a row: at the end, or the walk is over.              *)
LEMMA InsertStep ==
    ASSUME RecordsInv, NEW g \in Groups, NEW recent \in BOOLEAN, RowInserted(g, recent)
    PROVE  RecordsInv'
<1> USE DEF RecordsInv
<1> DEFINE e == [id |-> Len(table) + 1, group |-> g, recent |-> recent]
<1>1. table \in Seq(Row) /\ Len(table) \in Nat /\ e \in Row
  BY DEF RecordsTyped, Row
<1>2. PICK at \in 1..Len(table) + 1 :
         /\ table' = InsertAt(table, at, e)
         /\ walk' = IF at = Len(table) + 1 THEN walk ELSE NoWalk
  BY DEF RowInserted
<1>3. Len(table) < MaxRows /\ UNCHANGED <<filter, records, pageJob, inbox>>
  BY DEF RowInserted
<1> HIDE DEF e
<1>4. /\ table' \in Seq(Row) /\ Len(table') = Len(table) + 1
      /\ at = Len(table) + 1 => table' = Append(table, e)
  BY <1>1, <1>2, Inserted
<1>5. walk' = walk \/ (walk' = NoWalk /\ ~walk'.ok)
  BY <1>2 DEF NoWalk
<1>6. walk' \in [ok : BOOLEAN, ids : Seq(Nat), of : Queries \cup {Nothing}, page : Nat, atEnd : BOOLEAN]
  <2>1. NoWalk \in [ok : BOOLEAN, ids : Seq(Nat), of : Queries \cup {Nothing}, page : Nat, atEnd : BOOLEAN]
    <3>1. <<>> \in Seq(Nat) /\ Nothing \in Queries \cup {Nothing}
      OBVIOUS
    <3> QED BY <3>1 DEF NoWalk
  <2> QED BY <1>5, <2>1 DEF RecordsTyped
<1>7. Waiting("page")' = Waiting("page")
  BY <1>3 DEF Waiting
<1>8. RecordsTyped'
  BY <1>1, <1>3, <1>4, <1>6, RecordsAssumption DEF RecordsTyped
<1>9. OnePage' /\ PagesOK' /\ WindowFollows'
  <2>1. OnePage'
    BY <1>3, <1>7 DEF OnePage
  <2>2. PagesOK'
    BY <1>3, <1>5, <1>7 DEF PagesOK
  <2>3. WindowFollows'
    BY <1>3, <1>5, <1>7 DEF WindowFollows
  <2> QED BY <2>1, <2>2, <2>3
<1>10. WalkOK'
  <2>1. CASE at = Len(table) + 1
    <3>1. walk' = walk /\ table' = Append(table, e)
      BY <1>2, <1>4, <2>1
    <3>2. PICK q : q = walk.of
      OBVIOUS
    <3>3. /\ Len(Matching(q)) <= Len(Matching(q)')
          /\ \A n \in 1..Len(Matching(q)) : Matching(q)'[n] = Matching(q)[n]
      <4>1. /\ Len(MatchingIn(table, q)) <= Len(MatchingIn(table', q))
            /\ \A n \in 1..Len(MatchingIn(table, q)) : MatchingIn(table', q)[n] = MatchingIn(table, q)[n]
        <5>1. PICK grown : grown = table'
          OBVIOUS
        <5>2. table \in Seq(Row) /\ e \in Row /\ grown \in {Append(table, e)}
          BY <1>1, <3>1, <5>1
        <5>3. /\ Len(MatchingIn(table, q)) <= Len(MatchingIn(grown, q))
              /\ \A n \in 1..Len(MatchingIn(table, q)) : MatchingIn(grown, q)[n] = MatchingIn(table, q)[n]
          BY ONLY <5>2, MatchingGrows
        <5> QED BY <5>1, <5>3
      <4>2. Matching(q) = MatchingIn(table, q) /\ Matching(q)' = MatchingIn(table', q)
        BY MatchingOf
      <4> QED BY <4>1, <4>2
    <3>4. Len(Matching(q)) \in Nat /\ Len(Matching(q)') \in Nat
      <4>1. MatchingIn(table, q) \in Seq(Row) /\ MatchingIn(table', q) \in Seq(Row)
        BY <1>1, <1>4, MatchingFacts
      <4> QED BY <4>1, MatchingOf
    <3>5. Len(walk.ids) \in Nat
      BY DEF RecordsTyped
    <3>6. ASSUME walk.ok
          PROVE  /\ Len(walk.ids) <= Len(Matching(q)')
                 /\ \A n \in 1..Len(walk.ids) : walk.ids[n] = Matching(q)'[n].id
      <4>1. Len(walk.ids) <= Len(Matching(q)) /\ \A n \in 1..Len(walk.ids) : walk.ids[n] = Matching(q)[n].id
        BY <3>2, <3>6 DEF WalkOK
      <4>2. \A n \in 1..Len(walk.ids) : n \in 1..Len(Matching(q))
        BY <3>4, <3>5, <4>1
      <4> QED BY <3>3, <3>4, <3>5, <4>1, <4>2
    <3>7. Matching(walk.of)' = Matching(q)'
      BY <3>1, <3>2, MatchingOf
    <3> QED BY <3>1, <3>6, <3>7 DEF WalkOK
  <2>2. CASE at # Len(table) + 1
    BY <1>2, <2>2 DEF WalkOK, NoWalk
  <2> QED BY <2>1, <2>2
<1> QED BY <1>8, <1>9, <1>10

(* A message of another kind, sent or handled, is nothing to the window.      *)
LEMMA OtherMessage ==
    ASSUME ReplayInv, RecordsInv, UNCHANGED <<table, filter, records, pageJob, walk>>,
           \/ Len(inbox) < InboxCap /\ \E m : m.kind # "page" /\ inbox' = Append(inbox, m)
           \/ inbox # <<>> /\ inbox[1].kind # "page" /\ inbox' = Tail(inbox)
    PROVE  RecordsInv'
<1> USE DEF RecordsInv
<1>1. /\ Len(inbox)' <= InboxCap
      /\ Waiting("page")' = {} <=> Waiting("page") = {}
      /\ \A i, j \in Waiting("page")' : i = j
      /\ \A i \in Waiting("page") : \E j \in Waiting("page")' : inbox'[j] = inbox[i]
      /\ \A j \in Waiting("page")' : \E i \in Waiting("page") : inbox'[j] = inbox[i]
  <2>0. PICK S : inbox \in Seq(S)
    BY DEF ReplayInv, ReplayTyped, Queue
  <2>1. CASE Len(inbox) < InboxCap /\ \E m : m.kind # "page" /\ inbox' = Append(inbox, m)
    <3>1. PICK m : m.kind # "page" /\ inbox' = Append(inbox, m)
      BY <2>1
    <3>2. /\ Waiting("page")' = Waiting("page")
          /\ \A i \in Waiting("page") : inbox'[i] = inbox[i]
      <4>1. PICK own : own = m.kind
        OBVIOUS
      <4> QED BY <3>1, <4>1, Sent
    <3>3. Len(inbox') = Len(inbox) + 1 /\ Len(inbox) \in Nat
      BY <2>0, <3>1
    <3>4. Len(inbox)' <= InboxCap
      BY <2>1, <3>3, RecordsAssumption
    <3>5. \A i, j \in Waiting("page") : i = j
      BY DEF OnePage
    <3> QED BY <3>2, <3>4, <3>5
  <2>2. CASE inbox # <<>> /\ inbox[1].kind # "page" /\ inbox' = Tail(inbox)
    <3>1. /\ (Waiting("page")' = {}) = (Waiting("page") = {})
          /\ \A i, j \in Waiting("page")' : i = j
          /\ \A i \in Waiting("page") : i - 1 \in Waiting("page")' /\ inbox'[i - 1] = inbox[i]
          /\ \A i \in Waiting("page")' : i + 1 \in Waiting("page") /\ inbox'[i] = inbox[i + 1]
      BY <2>2, MovedUp DEF OnePage
    <3>2. Len(inbox') = Len(inbox) - 1 /\ Len(inbox) \in Nat
      BY <2>0, <2>2
    <3>3. Len(inbox)' <= InboxCap
      BY <3>2, RecordsAssumption DEF RecordsTyped
    <3> QED BY <3>1, <3>3
  <2> QED BY <2>1, <2>2
<1>2. RecordsTyped' /\ OnePage'
  BY <1>1 DEF RecordsTyped, OnePage
<1>3. PagesOK'
  BY <1>1 DEF PagesOK
<1>4. WalkOK'
  <2>1. \A q : Matching(q)' = Matching(q)
    BY MatchingOf
  <2> QED BY <2>1 DEF WalkOK
<1>5. WindowFollows'
  <2>1. (\A i \in Waiting("page")' : ~inbox'[i].ok) => (\A i \in Waiting("page") : ~inbox[i].ok)
    BY <1>1
  <2> QED BY <2>1 DEF WindowFollows
<1> QED BY <1>2, <1>3, <1>4, <1>5

(* What one page reads of what a query finds.                                 *)
LEMMA PageRead ==
    ASSUME NEW m \in Seq(Row), NEW off \in Nat,
           NEW last \in {IF off + FetchLimit <= Len(m) THEN off + FetchLimit ELSE Len(m)},
           NEW rows \in {SubSeq(m, off + 1, last)}
    PROVE  /\ rows \in Seq(Row) /\ Page(rows) \in Seq(Row)
           /\ off <= Len(m) =>
                 /\ Len(rows) > PageSize <=> Len(m) - off > PageSize
                 /\ Len(Page(rows)) = IF Len(m) - off > PageSize THEN PageSize ELSE Len(m) - off
                 /\ \A n \in 1..Len(Page(rows)) : Page(rows)[n] = m[off + n]
<1>1. /\ PageSize \in Nat \ {0} /\ FetchLimit = PageSize + 1 /\ Len(m) \in Nat
      /\ last \in Nat /\ last <= Len(m) /\ off + 1 \in Nat
  BY RecordsAssumption DEF FetchLimit
<1>2. \A i \in off + 1..last : m[i] \in Row
  BY <1>1
<1>3. rows = SubSeq(m, off + 1, last)
  OBVIOUS
<1>4. last = IF off + PageSize + 1 <= Len(m) THEN off + PageSize + 1 ELSE Len(m)
  BY <1>1
<1>5. /\ rows \in Seq(Row)
      /\ Len(rows) = IF off + 1 <= last THEN last - (off + 1) + 1 ELSE 0
      /\ \A n \in 1..last - (off + 1) + 1 : rows[n] = m[(off + 1) + n - 1]
  BY ONLY <1>1, <1>2, <1>3, SubSeqProperties
<1>6. Page(rows) \in Seq(Row) /\ Len(rows) \in Nat
      /\ Len(Page(rows)) = (IF Len(rows) > PageSize THEN PageSize ELSE Len(rows))
      /\ \A n \in 1..Len(Page(rows)) : Page(rows)[n] = rows[n]
  <2>1. CASE Len(rows) > PageSize
    <3>1. Page(rows) = SubSeq(rows, 1, PageSize)
      BY <2>1 DEF Page
    <3>2. Len(rows) \in Nat /\ \A n \in 1..PageSize : rows[n] \in Row
      BY <1>1, <1>5, <2>1
    <3>3. /\ SubSeq(rows, 1, PageSize) \in Seq(Row) /\ Len(SubSeq(rows, 1, PageSize)) = PageSize
          /\ \A n \in 1..PageSize : SubSeq(rows, 1, PageSize)[n] = rows[n]
      BY <1>1, <1>5, <2>1, <3>2
    <3> QED BY <2>1, <3>1, <3>2, <3>3
  <2>2. CASE ~(Len(rows) > PageSize)
    BY <1>5, <2>2 DEF Page
  <2> QED BY <2>1, <2>2
<1>7. ASSUME off <= Len(m)
      PROVE  /\ Len(rows) > PageSize <=> Len(m) - off > PageSize
             /\ Len(Page(rows)) = IF Len(m) - off > PageSize THEN PageSize ELSE Len(m) - off
             /\ \A n \in 1..Len(Page(rows)) : Page(rows)[n] = m[off + n]
  <2>1. Len(rows) = IF Len(m) - off > PageSize THEN PageSize + 1 ELSE Len(m) - off
    BY <1>1, <1>4, <1>5, <1>7
  <2>2. /\ Len(rows) > PageSize <=> Len(m) - off > PageSize
        /\ Len(Page(rows)) = IF Len(m) - off > PageSize THEN PageSize ELSE Len(m) - off
    BY <1>1, <1>6, <1>7, <2>1
  <2>3. ASSUME NEW n \in 1..Len(Page(rows)) PROVE Page(rows)[n] = m[off + n]
    <3>1. n \in 1..last - (off + 1) + 1 /\ (off + 1) + n - 1 = off + n
      BY <1>1, <1>4, <1>7, <2>2
    <3> QED BY <1>5, <1>6, <3>1
  <2> QED BY <2>2, <2>3
<1> QED BY <1>5, <1>6, <1>7

(* The thread's page: it begins the walk, goes on with it, or is not of it.   *)
LEMMA PageEndStep ==
    ASSUME ReplayInv, RecordsInv, PageJobEnds
    PROVE  RecordsInv'
<1> USE DEF RecordsInv
<1>1. /\ pageJob # Nothing /\ pageJob' = Nothing /\ Len(inbox) < InboxCap
      /\ UNCHANGED <<table, filter, records>>
  BY DEF PageJobEnds
<1>2. pageJob \in PageJobs /\ pageJob.page \in Nat /\ pageJob.query \in Queries
  BY <1>1 DEF RecordsTyped, PageJobs
<1>3. Waiting("page") = {} /\ records.loading = TRUE
  BY <1>1 DEF OnePage, RecordsTyped
<1>4. \A q : Matching(q)' = Matching(q)
  BY <1>1, MatchingOf
<1>5. ASSUME NEW m, m.kind = "page", inbox' = Append(inbox, m),
             m.ok \in BOOLEAN,
             walk' \in [ok : BOOLEAN, ids : Seq(Nat), of : Queries \cup {Nothing}, page : Nat, atEnd : BOOLEAN],
             m.ok => /\ m.page \in Nat /\ m.next \in BOOLEAN /\ m.rows \in Seq(Row)
                     /\ walk'.ok => m.page = walk'.page /\ m.next = ~walk'.atEnd,
             ~m.ok => walk' = walk,
             WalkOK'
      PROVE  RecordsInv'
  <2>1. PICK n \in Nat :
           /\ inbox'[n + 1] = m
           /\ Waiting("page")' = Waiting("page") \cup {n + 1}
    BY <1>5, Sent
  <2>2. Waiting("page")' = {n + 1}
    BY <1>3, <2>1
  <2>3. Len(inbox)' <= InboxCap
    <3>1. PICK S : inbox \in Seq(S)
      BY DEF ReplayInv, ReplayTyped, Queue
    <3>2. Len(inbox') = Len(inbox) + 1 /\ Len(inbox) \in Nat
      BY <1>5, <3>1
    <3> QED BY <1>1, <3>2, RecordsAssumption
  <2>4. RecordsTyped'
    BY <1>1, <1>5, <2>3 DEF RecordsTyped
  <2>5. OnePage'
    BY <1>1, <1>3, <2>2 DEF OnePage
  <2>6. PagesOK'
    BY <1>5, <2>1, <2>2 DEF PagesOK
  <2>7. WindowFollows'
    <3>1. CASE m.ok
      BY <1>1, <2>1, <2>2, <3>1 DEF WindowFollows
    <3>2. CASE ~m.ok
      BY <1>1, <1>3, <1>5, <3>2 DEF WindowFollows
    <3> QED BY <3>1, <3>2
  <2> QED BY <1>5, <2>4, <2>5, <2>6, <2>7
<1>6. CASE inbox' = Append(inbox, [kind |-> "page", ok |-> FALSE]) /\ UNCHANGED walk
  <2> DEFINE m == [kind |-> "page", ok |-> FALSE]
  <2>1. m.kind = "page" /\ m.ok = FALSE
    OBVIOUS
  <2> HIDE DEF m
  <2>2. WalkOK'
    BY <1>4, <1>6 DEF WalkOK
  <2>3. inbox' = Append(inbox, m)
    BY <1>6 DEF m
  <2>4. walk' \in [ok : BOOLEAN, ids : Seq(Nat), of : Queries \cup {Nothing}, page : Nat, atEnd : BOOLEAN]
    BY <1>6 DEF RecordsTyped
  <2> QED BY <1>5, <1>6, <2>1, <2>2, <2>3, <2>4
<1> DEFINE rows == Fetched(pageJob.query, pageJob.page)
           found == Matching(pageJob.query)
           off == pageJob.page * PageSize
           message == [kind |-> "page", ok |-> TRUE, page |-> pageJob.page,
                       rows |-> Page(rows), next |-> Len(rows) > PageSize]
<1>7. found \in Seq(Row) /\ off \in Nat /\ PageSize \in Nat \ {0} /\ Len(found) \in Nat
  <2>1. MatchingIn(table, pageJob.query) \in Seq(Row)
    BY MatchingFacts DEF RecordsTyped
  <2>2. found \in Seq(Row)
    BY <2>1, MatchingOf
  <2> HIDE DEF found
  <2> QED BY <1>2, <2>2, RecordsAssumption
<1>8. \E last : /\ last = IF off + FetchLimit <= Len(found) THEN off + FetchLimit ELSE Len(found)
                /\ rows = SubSeq(found, off + 1, last)
  BY DEF Fetched, Offset
<1> HIDE DEF rows, found, off
<1>9. /\ rows \in Seq(Row) /\ Page(rows) \in Seq(Row)
      /\ off <= Len(found) =>
            /\ Len(rows) > PageSize <=> Len(found) - off > PageSize
            /\ Len(Page(rows)) = IF Len(found) - off > PageSize THEN PageSize ELSE Len(found) - off
            /\ \A n \in 1..Len(Page(rows)) : Page(rows)[n] = found[off + n]
  <2>1. PICK last : /\ last \in {IF off + FetchLimit <= Len(found) THEN off + FetchLimit ELSE Len(found)}
                    /\ rows \in {SubSeq(found, off + 1, last)}
    BY <1>8
  <2>2. found \in Seq(Row) /\ off \in Nat
    BY <1>7
  <2> QED BY ONLY <2>1, <2>2, PageRead
<1>10. CASE inbox' = Append(inbox, message) /\ walk' = Walked(pageJob, rows)
  <2>1. /\ message.kind = "page" /\ message.ok = TRUE /\ message.page = pageJob.page
        /\ message.rows = Page(rows) /\ message.next = (Len(rows) > PageSize)
    OBVIOUS
  <2>2. message.next \in BOOLEAN
    BY <2>1
  <2> HIDE DEF message
  <2> DEFINE shown == Ids(Page(rows))
             continues == walk.ok /\ walk.of = pageJob.query /\ pageJob.page = walk.page + 1
             begun == IF pageJob.page = 0 THEN <<>> ELSE walk.ids
             ids == begun \o shown
  <2>3. /\ shown \in Seq(Nat) /\ Len(shown) = Len(Page(rows)) /\ Len(shown) \in Nat
        /\ \A n \in 1..Len(shown) : shown[n] = Page(rows)[n].id
    <3>1. PICK k \in Nat : k = Len(Page(rows))
      BY <1>9
    <3>2. DOMAIN Page(rows) = 1..k /\ \A n \in 1..k : Page(rows)[n] \in Row
      BY <1>9, <3>1
    <3>3. shown = [n \in 1..k |-> Page(rows)[n].id]
      BY <3>2 DEF Ids
    <3>4. \A n \in 1..k : Page(rows)[n].id \in Nat
      BY <3>2 DEF Row
    <3> HIDE DEF shown
    <3>5. shown \in [1..k -> Nat] /\ DOMAIN shown = 1..k /\ \A n \in 1..k : shown[n] = Page(rows)[n].id
      BY <3>3, <3>4
    <3>6. shown \in Seq(Nat) /\ Len(shown) = k
      BY <3>1, <3>5
    <3> QED BY <3>1, <3>5, <3>6
  <2>4. CASE ~(pageJob.page = 0 \/ continues)
    <3>1. walk' = NoWalk /\ ~walk'.ok
      BY <1>10, <2>4 DEF Walked, NoWalk
    <3>2. NoWalk \in [ok : BOOLEAN, ids : Seq(Nat), of : Queries \cup {Nothing}, page : Nat, atEnd : BOOLEAN]
      <4>1. <<>> \in Seq(Nat) /\ Nothing \in Queries \cup {Nothing}
        OBVIOUS
      <4> QED BY <4>1 DEF NoWalk
    <3>3. WalkOK'
      BY <3>1 DEF WalkOK
    <3> QED BY <1>2, <1>5, <1>9, <1>10, <2>1, <2>2, <3>1, <3>2, <3>3
  <2>5. CASE pageJob.page = 0 \/ continues
    <3>1. /\ begun \in Seq(Nat) /\ Len(begun) = off /\ off <= Len(found)
          /\ \A n \in 1..off : begun[n] = found[n].id
      <4>1. CASE pageJob.page = 0
        BY <1>7, <4>1, RecordsAssumption DEF off
      <4>2. CASE continues /\ pageJob.page # 0
        <5>1. ~walk.atEnd
          BY <1>1, <4>2 DEF WindowFollows
        <5>2. /\ Len(walk.ids) = (walk.page + 1) * PageSize /\ Len(walk.ids) <= Len(found)
              /\ \A n \in 1..Len(walk.ids) : walk.ids[n] = found[n].id
          BY <4>2, <5>1 DEF WalkOK, found
        <5>3. Len(walk.ids) = off /\ walk.ids \in Seq(Nat)
          BY <4>2, <5>2 DEF off, RecordsTyped
        <5> QED BY <4>2, <5>2, <5>3
      <4> QED BY <2>5, <4>1, <4>2
    <3>2. walk' = [ok |-> TRUE, ids |-> ids, of |-> pageJob.query, page |-> pageJob.page,
                   atEnd |-> Len(ids) = Len(found)]
      BY <1>10, <2>5 DEF Walked, found
    <3> HIDE DEF shown, begun
    <3>3. /\ ids \in Seq(Nat) /\ Len(ids) = off + Len(shown)
          /\ \A n \in 1..off : ids[n] = begun[n]
          /\ \A n \in off + 1..off + Len(shown) : ids[n] = shown[n - off]
      <4>1. begun \in Seq(Nat) /\ shown \in Seq(Nat)
        BY <2>3, <3>1
      <4>2. /\ ids \in Seq(Nat) /\ Len(ids) = Len(begun) + Len(shown)
            /\ \A n \in 1..Len(begun) + Len(shown) :
                  ids[n] = IF n <= Len(begun) THEN begun[n] ELSE shown[n - Len(begun)]
        BY ONLY <4>1, ConcatProperties
      <4> HIDE DEF ids
      <4>3. /\ \A n \in 1..off : n \in 1..off + Len(shown) /\ n <= off
            /\ \A n \in off + 1..off + Len(shown) : n \in 1..off + Len(shown) /\ ~(n <= off)
        BY ONLY <1>7, <2>3
      <4>4. Len(begun) = off
        BY <3>1
      <4> QED BY ONLY <4>2, <4>3, <4>4
    <3> HIDE DEF ids
    <3>4. /\ walk'.ok = TRUE /\ walk'.ids = ids /\ walk'.of = pageJob.query /\ walk'.page = pageJob.page
          /\ walk'.atEnd = (Len(ids) = Len(found))
      BY <3>2
    <3>5. walk' \in [ok : BOOLEAN, ids : Seq(Nat), of : Queries \cup {Nothing}, page : Nat, atEnd : BOOLEAN]
      BY <1>2, <3>2, <3>3
    <3>6. /\ Len(ids) <= Len(found)
          /\ Len(ids) = Len(found) <=> ~(Len(rows) > PageSize)
          /\ Len(rows) > PageSize => Len(ids) = off + PageSize
      <4>1. /\ Len(rows) > PageSize <=> Len(found) - off > PageSize
            /\ Len(shown) = IF Len(found) - off > PageSize THEN PageSize ELSE Len(found) - off
        BY <1>9, <2>3, <3>1
      <4>2. Len(ids) = off + Len(shown) /\ off <= Len(found)
        BY <3>1, <3>3
      <4>3. CASE Len(found) - off > PageSize
        BY ONLY <1>7, <4>1, <4>2, <4>3
      <4>4. CASE ~(Len(found) - off > PageSize)
        <5>1. Len(ids) = Len(found) /\ ~(Len(rows) > PageSize)
          BY ONLY <1>7, <4>1, <4>2, <4>4
        <5> QED BY <1>7, <5>1
      <4> QED BY <4>3, <4>4
    <3>7. ASSUME NEW n \in 1..Len(ids) PROVE ids[n] = found[n].id
      <4>1. CASE n <= off
        <5>1. n \in 1..off
          BY <1>7, <3>3, <4>1
        <5> QED BY <3>1, <3>3, <5>1
      <4>2. CASE n > off
        <5>1. n \in off + 1..off + Len(shown) /\ n - off \in 1..Len(shown) /\ off + (n - off) = n
          BY <1>7, <2>3, <3>3, <4>2
        <5> QED BY <1>9, <2>3, <3>1, <3>3, <5>1
      <4>3. n \in Nat
        BY <3>3
      <4> QED BY <1>7, <4>1, <4>2, <4>3
    <3>8. WalkOK'
      <4>1. Matching(walk.of)' = found
        <5>1. PICK q : q = pageJob.query
          OBVIOUS
        <5>2. walk.of' = q
          BY <3>4, <5>1
        <5>3. Matching(walk.of)' = MatchingIn(table', q)
          BY <5>2, MatchingOf
        <5> QED BY <1>1, <5>1, <5>3, MatchingOf DEF found
      <4>2. (pageJob.page + 1) * PageSize = off + PageSize
        BY <1>2, <1>7 DEF off
      <4> QED BY <1>2, <3>4, <3>6, <3>7, <4>1, <4>2 DEF WalkOK
    <3>9. message.next = ~walk'.atEnd
      <4>1. CASE Len(rows) > PageSize
        <5>1. message.next = TRUE /\ walk'.atEnd = FALSE
          BY <2>1, <3>4, <3>6, <4>1
        <5> QED BY <5>1
      <4>2. CASE ~(Len(rows) > PageSize)
        <5>1. message.next = FALSE /\ walk'.atEnd = TRUE
          <6>1. (Len(rows) > PageSize) = FALSE /\ (Len(ids) = Len(found)) = TRUE
            BY <3>6, <4>2
          <6> QED BY <2>1, <3>4, <6>1
        <5> QED BY <5>1
      <4> QED BY <4>1, <4>2
    <3> QED BY <1>2, <1>5, <1>9, <1>10, <2>1, <2>2, <3>4, <3>5, <3>8, <3>9
  <2> QED BY <2>4, <2>5
<1> QED BY <1>6, <1>10 DEF PageJobEnds, rows, message

(* The steps of the replay window leave the record window its own.            *)
LEMMA ReplayStep ==
    ASSUME ReplayInv, RecordsInv,
           \/ \E m \in Modes : ChooseMode(m)
           \/ \E d \in Devices \cup {NoDevice} : TypeDevice(d)
           \/ ToggleDownsampling \/ Load \/ Export \/ OpenFromRecords
           \/ LoadAdvances \/ LoadEnds \/ ExportEnds
           \/ ProgressTaken \/ LoadedTaken \/ ExportedTaken
    PROVE  RecordsInv'
<1>1. CASE \/ \E m \in Modes : ChooseMode(m)
           \/ \E d \in Devices \cup {NoDevice} : TypeDevice(d)
           \/ ToggleDownsampling \/ Load \/ Export \/ OpenFromRecords
  <2>1. UNCHANGED recordsVars
    BY <1>1 DEF ChooseMode, TypeDevice, ToggleDownsampling, Load, Export, OpenFromRecords, RequestLoad
  <2> QED BY <2>1, RecordsStutter
<1>2. CASE LoadAdvances
  <2>1. UNCHANGED <<table, filter, records, pageJob, walk>>
    BY <1>2 DEF LoadAdvances
  <2>2. CASE UNCHANGED inbox
    <3>1. UNCHANGED recordsVars
      BY <1>2, <2>2 DEF LoadAdvances, recordsVars
    <3> QED BY <3>1, RecordsStutter
  <2>3. CASE inbox' # inbox
    <3>1. Len(inbox) < InboxCap /\ \E m : m.kind = "progress" /\ inbox' = Append(inbox, m)
      BY <1>2, <2>3 DEF LoadAdvances, Progress
    <3>2. \E m : m.kind # "page" /\ inbox' = Append(inbox, m)
      BY <3>1
    <3> QED BY <2>1, <3>1, <3>2, OtherMessage
  <2> QED BY <2>2, <2>3
<1>3. CASE LoadEnds
  <2>1. UNCHANGED <<table, filter, records, pageJob, walk>> /\ Len(inbox) < InboxCap
    BY <1>3 DEF LoadEnds
  <2>2. \E m : m.kind = "loaded" /\ inbox' = Append(inbox, m)
    BY <1>3, Zenon DEF LoadEnds
  <2>3. \E m : m.kind # "page" /\ inbox' = Append(inbox, m)
    BY <2>2
  <2> QED BY <2>1, <2>3, OtherMessage
<1>4. CASE ExportEnds
  <2>1. UNCHANGED <<table, filter, records, pageJob, walk>> /\ Len(inbox) < InboxCap
    BY <1>4 DEF ExportEnds
  <2>2. \E m : m.kind = "exported" /\ inbox' = Append(inbox, m)
    BY <1>4, Zenon DEF ExportEnds
  <2>3. \E m : m.kind # "page" /\ inbox' = Append(inbox, m)
    BY <2>2
  <2> QED BY <2>1, <2>3, OtherMessage
<1>5. CASE ProgressTaken \/ LoadedTaken \/ ExportedTaken
  <2>1. PICK kind \in {"progress", "loaded", "exported"} : Taken(kind)
    BY <1>5 DEF ProgressTaken, LoadedTaken, ExportedTaken
  <2>2. /\ UNCHANGED <<table, filter, records, pageJob, walk>>
        /\ inbox # <<>> /\ Head(inbox).kind = kind /\ inbox' = Tail(inbox)
    BY <2>1 DEF Taken
  <2>3. inbox[1].kind # "page"
    <3>1. Head(inbox) = inbox[1]
      BY <2>2, Handled
    <3> QED BY <2>2, <3>1
  <2> QED BY <2>2, <2>3, OtherMessage
<1> QED BY <1>1, <1>2, <1>3, <1>4, <1>5

(* Both windows keep their invariants.                                        *)
LEMMA AlwaysRecordsInv == ReplaySpec => []RecordsInv
<1>1. ASSUME ReplayInv, RecordsInv, [ReplayNext]_<<recordsVars, replayVars>>
      PROVE  RecordsInv'
  <2>1. CASE RecordsNext
    <3>1. CASE LoadFirst \/ PreviousPage \/ NextPage
      BY <1>1, <3>1, RequestStep
    <3>2. CASE LastFiveMinutes \/ \E g \in Groups : ToggleGroup(g)
      BY <1>1, <3>2, FilterStep
    <3>3. CASE PageJobEnds
      BY <1>1, <3>3, PageEndStep
    <3>4. CASE PageLoaded
      BY <1>1, <3>4, PageLoadedStep
    <3>5. CASE \E g \in Groups, recent \in BOOLEAN : RowInserted(g, recent)
      BY <1>1, <3>5, InsertStep
    <3> QED BY <2>1, <3>1, <3>2, <3>3, <3>4, <3>5 DEF RecordsNext
  <2>2. CASE UNCHANGED <<recordsVars, replayVars>>
    BY <1>1, <2>2, RecordsStutter
  <2>3. CASE ReplayNext /\ ~RecordsNext
    BY <1>1, <2>3, ReplayStep DEF ReplayNext
  <2> QED BY <1>1, <2>1, <2>2, <2>3
<1> QED BY <1>1, RecordsInitial, AlwaysReplayInv, PTL DEF ReplaySpec

(* Paging shows every record once, for any page size, any groups, any table   *)
(* and any capacity of the message queue, beside any use of the replay        *)
(* window; and the button to the next page is there until all were shown      *)
(* (request_alarm_records_page, LIMIT and OFFSET).                            *)
THEOREM PagingShowsAll == ReplaySpec => []WholeList
<1>1. ReplayInv /\ RecordsInv => WholeList
  BY RecordsInvWhole
<1> QED BY <1>1, AlwaysReplayInv, AlwaysRecordsInv, PTL
=============================================================================

------------------------------ MODULE Control ------------------------------
(* How an operator's alarm thresholds reach the collector: the threshold     *)
(* panels of the user interfaces (ui_client/view.rs, alarm.rs, models.rs),    *)
(* one control connection per request, and the collector's control server    *)
(* (collector_service.rs, app/alarm_service.rs).                              *)
(*                                                                            *)
(* A click blocks its interface until the answer is there or two seconds have *)
(* passed; the request itself lives on in the collector, which may apply it   *)
(* after the interface has given up.  Nothing stores the thresholds: a        *)
(* collector that restarts has its defaults again.                            *)
EXTENDS Integers, FiniteSets, Sequences

CONSTANTS Uis,           \* running user interfaces
          Grain,         \* thresholds are shown with three decimals: a multiple of this
          TypedTorque, TypedAngle, TypedGap, TypedCan, \* what the operators type
          NoText,        \* an empty input field
          MaxRequests, MaxCollectorRestarts

ASSUME ControlAssumption ==
    /\ Grain \in Nat \ {0}
    /\ TypedTorque \cup TypedAngle \cup TypedCan \subseteq Int \cup {NoText} /\ TypedGap \subseteq Int
    /\ MaxRequests \in Nat \ {0} /\ MaxCollectorRestarts \in Nat

VARIABLES inForce,    \* the collector's thresholds
          applied,    \* applied[u]: the thresholds u shows as current
          asked,      \* the requests made so far, in order
          waitingFor, \* waitingFor[u]: the request u is blocked on, 0 when none
          setBy,      \* setBy[c]: the request class c was last set by, 0: the defaults
          confirmed,  \* confirmed[u][c]: the last request of u answered with ok
          collectorRestarts

controlVars == <<inForce, applied, asked, waitingFor, setBy, confirmed, collectorRestarts>>

Asked == DOMAIN asked
Classes == {"jump", "gap", "can"}

Magnitude(v) == IF v < 0 THEN -v ELSE v
Rounded(v) == ((v + Grain \div 2) \div Grain) * Grain
NumberIn(text, default) == IF text = NoText THEN default ELSE Magnitude(text)

\* Both sides start from the same thresholds, written down twice in the code.
Defaults == [jump |-> [warn |-> Grain, red |-> 2 * Grain, angle |-> Grain],
             gap |-> 1,
             can |-> [high |-> NoText, low |-> NoText]]

(* What the panels put into a request.  One command carries the torque and    *)
(* the angle thresholds: each panel adds the other's applied ones.            *)
\* Mutant: the other group of the command is taken from the defaults.
TorqueCommandOfDefaults(u, warn, red) ==
    [warn |-> NumberIn(warn, Grain), red |-> NumberIn(red, 2 * Grain),
     angle |-> Defaults.jump.angle]

TorqueCommand(u, warn, red) ==
    [warn |-> NumberIn(warn, Grain), red |-> NumberIn(red, 2 * Grain),
     angle |-> applied[u].jump.angle]
AngleCommand(u, angle) == [applied[u].jump EXCEPT !.angle = NumberIn(angle, Grain)]

\* What the interface shows once its command is confirmed: its own part,
\* rounded to three decimals; CAN and gap thresholds as they were typed.
ShownAfter(panel, old, wanted) ==
    CASE panel = "torque" -> [old EXCEPT !.jump.warn = Rounded(wanted.warn),
                                         !.jump.red = Rounded(wanted.red)]
      [] panel = "angle" -> [old EXCEPT !.jump.angle = Rounded(wanted.angle)]
      [] panel = "gap" -> [old EXCEPT !.gap = wanted]
      [] panel = "can" -> [old EXCEPT !.can = wanted]

ClassOf(panel) == IF panel \in {"torque", "angle"} THEN "jump" ELSE panel

\* set_can_axis_thresholds refuses an inverted band, set_sent_frame_gap_config
\* a gap of zero; set_sent_jump_config orders what it is given.
Accepts(class, wanted) ==
    CASE class = "can" -> \/ NoText \in {wanted.high, wanted.low}
                          \/ wanted.low < wanted.high
      [] class = "gap" -> wanted > 0
      [] class = "jump" -> TRUE
Normalized(class, wanted) ==
    IF class = "jump" /\ wanted.red < wanted.warn
    THEN [wanted EXCEPT !.red = wanted.warn] ELSE wanted

ControlInit ==
    /\ inForce = Defaults
    /\ applied = [u \in Uis |-> Defaults]
    /\ asked = <<>>
    /\ waitingFor = [u \in Uis |-> 0]
    /\ setBy = [c \in Classes |-> 0]
    /\ confirmed = [u \in Uis |-> [c \in Classes |-> 0]]
    /\ collectorRestarts = 0

Ask(u, panel, wanted) ==
    /\ waitingFor[u] = 0
    /\ Cardinality(Asked) < MaxRequests
    /\ asked' = Append(asked, [ui |-> u, panel |-> panel, wanted |-> wanted,
                               stage |-> "sent", ok |-> FALSE, told |-> "nothing"])
    /\ waitingFor' = [waitingFor EXCEPT ![u] = Cardinality(Asked) + 1]
    /\ UNCHANGED <<inForce, applied, setBy, confirmed, collectorRestarts>>

\* The panels check their own input before they send it.
ApplyTorque(u) == \E warn, red \in TypedTorque :
    /\ NumberIn(warn, Grain) <= NumberIn(red, 2 * Grain)
    /\ Ask(u, "torque", TorqueCommand(u, warn, red))
ApplyAngle(u) == \E angle \in TypedAngle : Ask(u, "angle", AngleCommand(u, angle))
ApplyGap(u) == \E gap \in TypedGap : gap > 0 /\ Ask(u, "gap", gap)
ApplyCan(u) == \E high, low \in TypedCan : Ask(u, "can", [high |-> high, low |-> low])

\* The control server read the whole line: it sets the thresholds or refuses,
\* and has an answer.  Nothing is awaited between the two.
HandleRequest(r) ==
    /\ asked[r].stage = "sent"
    /\ LET class == ClassOf(asked[r].panel)
           ok == Accepts(class, asked[r].wanted)
       IN /\ asked' = [asked EXCEPT ![r].stage = "answered", ![r].ok = ok]
          /\ IF ok
             THEN /\ inForce' = [inForce EXCEPT ![class] = Normalized(class, asked[r].wanted)]
                  /\ setBy' = [setBy EXCEPT ![class] = r]
             ELSE UNCHANGED <<inForce, setBy>>
    /\ UNCHANGED <<applied, waitingFor, confirmed, collectorRestarts>>

\* The line did not arrive within five seconds, or not whole: an error answer.
RequestTimesOut(r) ==
    /\ asked[r].stage = "sent"
    /\ asked' = [asked EXCEPT ![r].stage = "answered"]
    /\ UNCHANGED <<inForce, applied, waitingFor, setBy, confirmed, collectorRestarts>>

\* The interface has its answer: only an ok changes what it shows.
ShownOnceAsked(u) == ShownAfter(asked[waitingFor[u]].panel, applied[u], asked[waitingFor[u]].wanted)
AnswerTaken(u) ==
    IF asked[waitingFor[u]].ok
    THEN /\ applied' = [applied EXCEPT ![u] = ShownOnceAsked(u)]
         /\ confirmed' = [confirmed EXCEPT ![u][ClassOf(asked[waitingFor[u]].panel)] = waitingFor[u]]
    ELSE UNCHANGED <<applied, confirmed>>
Answered(u) ==
    /\ waitingFor[u] # 0
    /\ asked[waitingFor[u]].stage = "answered"
    /\ AnswerTaken(u)
    /\ asked' = [asked EXCEPT ![waitingFor[u]].stage = "done",
                              ![waitingFor[u]].told = IF asked[waitingFor[u]].ok THEN "ok" ELSE "error"]
    /\ waitingFor' = [waitingFor EXCEPT ![u] = 0]
    /\ UNCHANGED <<inForce, setBy, collectorRestarts>>

\* Two seconds, or the connection fails: an error, whatever becomes of the
\* request.  A request that was never delivered is never handled.
GivesUp(u) ==
    /\ waitingFor[u] # 0
    /\ waitingFor' = [waitingFor EXCEPT ![u] = 0]
    /\ \E delivered \in BOOLEAN :
          asked' = [asked EXCEPT ![waitingFor[u]].told = "error",
                       ![waitingFor[u]].stage = IF delivered /\ @ = "sent" THEN @ ELSE "done"]
    /\ UNCHANGED <<inForce, applied, setBy, confirmed, collectorRestarts>>

\* The collector stops: its connections end and its thresholds are gone.
CollectorRestarts ==
    /\ collectorRestarts < MaxCollectorRestarts
    /\ collectorRestarts' = collectorRestarts + 1
    /\ inForce' = Defaults
    /\ setBy' = [c \in Classes |-> 0]
    /\ asked' = [r \in Asked |-> [asked[r] EXCEPT !.stage = "done"]]
    /\ UNCHANGED <<applied, waitingFor, confirmed>>

ControlNext ==
    \/ \E u \in Uis : ApplyTorque(u) \/ ApplyAngle(u) \/ ApplyGap(u) \/ ApplyCan(u)
    \/ \E r \in Asked : HandleRequest(r) \/ RequestTimesOut(r)
    \/ \E u \in Uis : Answered(u) \/ GivesUp(u)
    \/ CollectorRestarts
ControlSpec == ControlInit /\ [][ControlNext]_controlVars

------------------------------------------------------------------------------
(* Type correctness, with what the detectors rely on: the collector never     *)
(* holds an inverted torque ladder, an inverted CAN band or a zero gap.       *)
ControlTypeOK ==
    /\ waitingFor \in [Uis -> 0..MaxRequests]
    /\ \A r \in Asked : asked[r].stage \in {"sent", "answered", "done"} /\ asked[r].ok \in BOOLEAN
    /\ inForce.jump.warn <= inForce.jump.red
    /\ NoText \in {inForce.can.high, inForce.can.low} \/ inForce.can.low < inForce.can.high
    /\ inForce.gap > 0

Shown(thresholds) ==
    [thresholds EXCEPT !.jump = [f \in DOMAIN @ |-> Rounded(@[f])]]

\* Why an interface may show other thresholds than the collector checks.
CollectorForgot(u, c) == setBy[c] = 0 /\ confirmed[u][c] # 0
SetByAnother(u, c) == setBy[c] # 0 /\ asked[setBy[c]].ui # u
NotConfirmed(c) == setBy[c] # 0 /\ asked[setBy[c]].told = "error"
AnswerOnItsWay(c) == setBy[c] # 0 /\ asked[setBy[c]].told = "nothing"

(* Thresholds shown as in force are the ones the collector checks, up to      *)
(* their three decimals, and this also for the other group a jump command     *)
(* carries: unless the collector restarted, another interface set them, or    *)
(* the interface was told its request failed and it was applied all the same. *)
ThresholdsAgree ==
    /\ ControlTypeOK
    /\ \A u \in Uis, c \in Classes :
          \/ Shown(inForce)[c] = Shown(applied[u])[c]
          \/ CollectorForgot(u, c)
          \/ SetByAnother(u, c)
          \/ NotConfirmed(c)
          \/ AnswerOnItsWay(c)
=============================================================================

------------------------------ MODULE CanClock ------------------------------
(***************************************************************************)
(* CanClock (ingress/can_clock.rs): the capture time of every frame of a   *)
(* CAN channel, from the adapter's microsecond counter and the host time   *)
(* at which the driver's callback ran.  Either may jump: the counter is    *)
(* missing (0) or starts again, the host clock is adjusted backwards, and  *)
(* adding a counter difference to a host time may exceed what SystemTime   *)
(* can hold.  Times are microseconds.                                      *)
(***************************************************************************)
EXTENDS Integers

CONSTANTS
    MaxTimestamp,   \* the greatest counter value, u64::MAX
    MaxTime         \* the latest SystemTime

ASSUME TimeAssumption == MaxTimestamp \in Nat /\ MaxTime \in Nat

None == -1          \* an Option that is None; times and counters are naturals

Time      == 0 .. MaxTime
Timestamp == 0 .. MaxTimestamp

VARIABLES
    origin,         \* the host time of the first frame
    anchorUs,       \* anchor: a counter value ...
    anchorTime,     \* ... and the host time it stands for
    lastTimestamp,  \* the last counter value that was not 0
    lastCaptured,   \* the capture time of the last frame
    hardware        \* ghost: the last frame had a counter value

vars == <<origin, anchorUs, anchorTime, lastTimestamp, lastCaptured, hardware>>

Init ==
    /\ origin = None
    /\ anchorUs = None /\ anchorTime = None
    /\ lastTimestamp = None /\ lastCaptured = None
    /\ hardware = FALSE

\* checked_add(..).unwrap_or(received)
Added(time, us, received) == IF time + us <= MaxTime THEN time + us ELSE received

\* Mutant: a frame may be captured before the one preceding it.
ClampedNever(time) == time

\* No frame is captured before the one preceding it.
Clamped(time) == IF lastCaptured # None /\ time < lastCaptured THEN lastCaptured ELSE time

\* get_or_insert
FirstOrigin(received) == origin' = IF origin = None THEN received ELSE origin

\* Mutant: a missing counter value is remembered as the last one.
CaptureHostAsTimestamp(received) ==
    /\ FirstOrigin(received)
    /\ lastCaptured' = Clamped(received)
    /\ hardware' = FALSE
    /\ lastTimestamp' = 0
    /\ UNCHANGED <<anchorUs, anchorTime>>

\* capture(0, received)
CaptureHost(received) ==
    /\ FirstOrigin(received)
    /\ lastCaptured' = Clamped(received)
    /\ hardware' = FALSE
    /\ UNCHANGED <<anchorUs, anchorTime, lastTimestamp>>

\* The counter has no mapping to host time yet, or ran backwards.
NeedsAnchor(ts) == anchorUs = None \/ ts < lastTimestamp

\* Mutant: a clamped frame keeps the mapping it was measured with.
CaptureHardwareKeepingAnchor(ts, received) ==
    LET us   == IF NeedsAnchor(ts) THEN ts ELSE anchorUs
        time == IF NeedsAnchor(ts) THEN received ELSE anchorTime
    IN  /\ FirstOrigin(received)
        /\ lastTimestamp' = ts
        /\ lastCaptured' = Clamped(Added(time, ts - us, received))
        /\ anchorUs' = us
        /\ anchorTime' = time
        /\ hardware' = TRUE

\* capture(ts, received) with ts # 0: a frame that had to be clamped makes a
\* new mapping, so that the spacing goes on from there.
CaptureHardware(ts, received) ==
    LET us     == IF NeedsAnchor(ts) THEN ts ELSE anchorUs
        time   == IF NeedsAnchor(ts) THEN received ELSE anchorTime
        mapped == Added(time, ts - us, received)
        clamps == Clamped(mapped) # mapped
    IN  /\ FirstOrigin(received)
        /\ lastTimestamp' = ts
        /\ lastCaptured' = Clamped(mapped)
        /\ anchorUs' = IF clamps THEN ts ELSE us
        /\ anchorTime' = IF clamps THEN lastCaptured ELSE time
        /\ hardware' = TRUE

Next ==
    \E received \in Time :
        \/ CaptureHost(received)
        \/ \E ts \in Timestamp \ {0} : CaptureHardware(ts, received)

Spec == Init /\ [][Next]_vars

-----------------------------------------------------------------------------

TypeOK ==
    /\ origin \in Time \cup {None}
    /\ anchorTime \in Time \cup {None}
    /\ lastCaptured \in Time \cup {None}
    /\ anchorUs \in Timestamp \cup {None}
    /\ lastTimestamp \in Timestamp \cup {None}
    /\ hardware \in BOOLEAN

(* timestamp_us - anchor_us never underflows: a counter value that is not  *)
(* a reset is never below the one the mapping was made with.               *)
AnchorBehind ==
    /\ anchorUs = None <=> lastTimestamp = None
    /\ anchorUs = None <=> anchorTime = None
    /\ anchorUs <= lastTimestamp

(* A capture time is never before the first frame, so t_sec is the true    *)
(* distance from it and never the zero of unwrap_or_default().             *)
AfterOrigin ==
    /\ origin = None <=> lastCaptured = None
    /\ origin <= lastCaptured

(* Both subtractions capture() makes are of an earlier value from a later  *)
(* one.                                                                    *)
DifferencesDefined == AnchorBehind /\ AfterOrigin

(* Capture times never go back, whatever the counter and the host clock do. *)
Monotone == [][lastCaptured' >= lastCaptured]_vars

\* What the mapping makes of counter value ts.
Mapped(ts) == anchorTime + (ts - anchorUs)

(* Between two frames in a row that both carry counter values in order,    *)
(* the capture times differ by exactly the counter difference: late or     *)
(* irregular callbacks do not distort the spacing.                         *)
SpacingKept ==
    [][hardware /\ hardware' /\ lastTimestamp' >= lastTimestamp /\ Mapped(lastTimestamp') <= MaxTime
          => lastCaptured' - lastCaptured = lastTimestamp' - lastTimestamp]_vars

\* The mapping gives the last frame's capture time, or overflowed.
MappingExact ==
    hardware => lastCaptured = Mapped(lastTimestamp) \/ Mapped(lastTimestamp) > MaxTime

\* What the step needs to preserve all of the above.
MappingKnown ==
    /\ hardware => anchorUs # None
    /\ anchorUs # None => lastCaptured # None

IInv == TypeOK /\ AnchorBehind /\ AfterOrigin /\ MappingKnown /\ MappingExact
=============================================================================

------------------------------- MODULE Curves -------------------------------
(* The curves of the user interface: one SensorSeries fed with the samples of *)
(* a source (ui_client/series.rs), the reduction of it for the live chart     *)
(* (downsample_for_chart), and the sampler of the replay window, which keeps  *)
(* every point until there are too many and time buckets from then on         *)
(* (ui_client/replay.rs).  A point is [t, v]; times are whole ticks.          *)
EXTENDS Integers, Sequences, FiniteSets, SequencesExt

CONSTANTS Window,      \* WINDOW_SECS
          MaxPoints,   \* MAX_POINTS_PER_SERIES
          Span,        \* the replayed time range is 0..Span
          Values, Steps, \* what samples carry, how far apart they are
          MaxSamples   \* bound: samples fed

ASSUME CurvesAssumption ==
    /\ Window \in Nat /\ MaxPoints \in Nat \ {0} /\ Span \in Nat \ {0}
    /\ MaxSamples \in Nat /\ Values \subseteq Int /\ Steps \subseteq Nat

VARIABLES points, \* SensorSeries.points
          fed     \* ghost: every sample since the series was created

curvesVars == <<points, fed>>

CurvesInit == points = <<>> /\ fed = <<>>

\* Mutant: a clock that steps back goes on with the old curve.
ContinuedRegardless(p) == Append(points, p)

\* push: a clock that steps back starts a new time line, then the window and
\* the cap drop the oldest points.
Continued(p) ==
    IF points # <<>> /\ p.t < Last(points).t THEN <<p>> ELSE Append(points, p)
Windowed(seq, t) ==
    LET old == Cardinality({i \in DOMAIN seq : \A j \in 1..i : seq[j].t < t - Window})
    IN SubSeq(seq, old + 1, Len(seq))
Capped(seq) == IF Len(seq) > MaxPoints THEN SubSeq(seq, Len(seq) - MaxPoints + 1, Len(seq)) ELSE seq

Push(p) ==
    /\ Len(fed) < MaxSamples
    /\ p.t <= Span
    /\ points' = Capped(Windowed(Continued(p), p.t))
    /\ fed' = Append(fed, p)

Now == IF fed = <<>> THEN 0 ELSE Last(fed).t
CurvesNext ==
    \/ \E d \in Steps, v \in Values : Push([t |-> Now + d, v |-> v])
    \/ \E t \in 0..Now - 1, v \in Values : Push([t |-> t, v |-> v])   \* steps back
CurvesSpec == CurvesInit /\ [][CurvesNext]_curvesVars

------------------------------------------------------------------------------
\* The first lowest and the first highest point of seq[from..to].
Lowest(seq, from, to) ==
    CHOOSE i \in from..to : \A j \in from..to :
        seq[i].v < seq[j].v \/ (seq[i].v = seq[j].v /\ i <= j)
Highest(seq, from, to) ==
    CHOOSE i \in from..to : \A j \in from..to :
        seq[i].v > seq[j].v \/ (seq[i].v = seq[j].v /\ i <= j)

\* Both points of a bucket in the order of time, one when they are the same.
Extremes(seq, from, to) ==
    LET low == Lowest(seq, from, to)
        high == Highest(seq, from, to)
    IN IF low = high THEN <<seq[low]>>
       ELSE IF low < high THEN <<seq[low], seq[high]>> ELSE <<seq[high], seq[low]>>

CeilDiv(a, b) == (a + b - 1) \div b
BucketCount(max) == IF max < 4 THEN 1 ELSE (max - 2) \div 2

\* downsample_for_chart: buckets of equally many points between the ends.
BucketEnd(seq, start, size) ==
    IF start + size - 1 < Len(seq) - 1 THEN start + size - 1 ELSE Len(seq) - 1
ForChart(seq, max) ==
    IF max = 0 THEN <<>>
    ELSE IF Len(seq) <= max \/ max < 4 THEN seq
    ELSE LET size == CeilDiv(Len(seq) - 2, BucketCount(max))
             bucket(k) == LET start == 2 + (k - 1) * size
                          IN Extremes(seq, start, BucketEnd(seq, start, size))
         IN <<seq[1]>>
            \o FlattenSeq([k \in 1..CeilDiv(Len(seq) - 2, size) |-> bucket(k)])
            \o <<Last(seq)>>

\* ReplaySeriesSampler: buckets of equally long time.  A point on the border
\* of two buckets may be put in either by the rounding of the division; which
\* one makes no difference here.
ReplayBucket(t, max) ==
    LET at == (t * BucketCount(max)) \div Span + 1
    IN IF at > BucketCount(max) THEN BucketCount(max) ELSE at
WithoutRepeats(seq) ==
    LET kept == SetToSortSeq({i \in DOMAIN seq : i = 1 \/ seq[i] # seq[i - 1]}, <)
    IN [i \in DOMAIN kept |-> seq[kept[i]]]
\* push_sampled keeps the first of equal extremes, finish orders by time: the
\* lower one first when both are at the same time.
BucketPoints(inBucket) ==
    IF inBucket = <<>> THEN <<>>
    ELSE LET low == inBucket[Lowest(inBucket, 1, Len(inBucket))]
             high == inBucket[Highest(inBucket, 1, Len(inBucket))]
         IN IF low.t <= high.t THEN <<low, high>> ELSE <<high, low>>

\* Mutant: the last bucket is never flushed.
ForReplayUnended(seq, max) ==
    IF Len(seq) <= max THEN seq
    ELSE WithoutRepeats(
           <<seq[1]>> \o
           FlattenSeq([k \in 1..BucketCount(max) - 1 |->
               BucketPoints(SelectSeq(seq, LAMBDA p : ReplayBucket(p.t, max) = k))])
           \o <<Last(seq)>>)

ForReplay(seq, max) ==
    IF Len(seq) <= max THEN seq
    ELSE WithoutRepeats(
           <<seq[1]>> \o
           FlattenSeq([k \in 1..BucketCount(max) |->
               BucketPoints(SelectSeq(seq, LAMBDA p : ReplayBucket(p.t, max) = k))])
           \o <<Last(seq)>>)

------------------------------------------------------------------------------
CurvesTypeOK ==
    /\ Len(points) <= MaxPoints
    /\ \A i \in DOMAIN points : points[i].t \in 0..Span /\ points[i].v \in Values

\* The samples of the time line that is running now.
Lines == {i \in DOMAIN fed : i = 1 \/ fed[i].t < fed[i - 1].t}
ThisLine == IF fed = <<>> THEN <<>>
            ELSE SubSeq(fed, CHOOSE i \in Lines : \A j \in Lines : j <= i, Len(fed))

\* Where in all that was fed the curve begins.
Begin == Len(fed) - Len(points) + 1

(* A curve never mixes two time lines of a source, and never loses a sample   *)
(* that is still in the window, save the oldest ones over the cap: it is an   *)
(* end of what was fed, in the order of time and within the window, and the   *)
(* sample before it belongs to an earlier time line, is too old, or is one    *)
(* too many.                                                                  *)
SeriesIsSuffix ==
    /\ CurvesTypeOK
    /\ fed # <<>> => points # <<>>
    /\ points = SubSeq(fed, Begin, Len(fed))
    /\ \A i, j \in Begin .. Len(fed) : i <= j => fed[i].t <= fed[j].t
    /\ \A i \in Begin .. Len(fed) : fed[i].t >= Now - Window
    /\ Begin > 1 => \/ fed[Begin].t < fed[Begin - 1].t
                    \/ fed[Begin - 1].t < Now - Window
                    \/ Len(points) = MaxPoints

\* What a reduced curve has to keep of the whole one.
Faithful(whole, reduced, max) ==
    /\ Len(reduced) <= max
    /\ \A i \in 1..Len(reduced) - 1 : reduced[i].t <= reduced[i + 1].t
    /\ reduced # <<>> => reduced[1] = whole[1] /\ Last(reduced) = Last(whole)
    /\ ToSet(reduced) \subseteq ToSet(whole)
    /\ {p.v : p \in ToSet(whole)} # {} =>
         \A v \in {whole[Lowest(whole, 1, Len(whole))].v, whole[Highest(whole, 1, Len(whole))].v} :
             \E p \in ToSet(reduced) : p.v = v

(* A spike survives both reductions, whatever the number of points allowed:   *)
(* the highest and the lowest value stay, as do the two ends, in the order of *)
(* time and within the limit.                                                 *)
SpikesKept ==
    \A max \in 4..MaxSamples :
        /\ Faithful(points, ForChart(points, max), max)
        /\ Faithful(ThisLine, ForReplay(ThisLine, max), max)
=============================================================================

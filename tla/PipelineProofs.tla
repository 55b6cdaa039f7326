--------------------------- MODULE PipelineProofs ---------------------------
(***************************************************************************)
(* Theorems about Pipeline, for any capacities, batch size and number of   *)
(* restarts: what the database lacks is counted, no alarm is stored before *)
(* the sample that caused it, and the chain of forwarder, queue, batches,  *)
(* retries and writes that outlive their timeout implements AtLeastOnce.   *)
(***************************************************************************)
EXTENDS Pipeline, SequenceTheorems, FiniteSetTheorems, TLAPS

Stored == Range(table)

Sorted(s) == \A i, j \in DOMAIN s : i < j => s[i] < s[j]

Below(P, Q) == \A p \in P, q \in Q : p < q

\* The messages in the batches that the writer has to write.
Unwritten == UNION {Range(pending[i]) : i \in DOMAIN pending}

(* What is in memory stands in bus order: the batches, what is collected   *)
(* for the next one, the queue, the message that waits for room in it.     *)
InOrder ==
    /\ \A i \in DOMAIN pending : Sorted(pending[i])
    /\ \A i, j \in DOMAIN pending : i < j => Below(Range(pending[i]), Range(pending[j]))
    /\ Sorted(batch) /\ Sorted(queue)
    /\ Below(Unwritten, Range(batch) \cup Range(queue) \cup holding)
    /\ Below(Range(batch), Range(queue) \cup holding)
    /\ Below(Range(queue), holding)

(* It came from the bus in this run and is owed to the database.           *)
Fresh ==
    /\ \A p \in InMemory : Began < p /\ p < persistAt /\ Wanted(stage[p])
    /\ \A p \in judging : Began < p /\ Wanted(stage[p])
    /\ Began < persistAt /\ Began < alarmAt
    /\ \A s \in Range(starts) : s <= Began

\* The batch to be written first.
First == IF pending = <<>> THEN {} ELSE Range(Head(pending))

(* Everything in memory is newer than every row, but for the first batch   *)
(* once it has been committed without an answer.                           *)
Frontier ==
    /\ \A p \in Stored : p < persistAt
    /\ \/ Below(Stored, InMemory)
       \/ First \subseteq Stored /\ Below(Stored, InMemory \ First)

(* A write that outlives its timeout holds the first batch of the writer,  *)
(* rows that are stored, or rows of a former run; those of different runs  *)
(* that are not stored do not mix.                                         *)
StrayPlaced ==
    \A b \in stray :
        /\ Sorted(b) /\ \A p \in Range(b) : Wanted(stage[p])
        /\ \/ pending # <<>> /\ b = Head(pending)
           \/ Range(b) \subseteq Stored
           \/ Range(b) \subseteq 1 .. Began

Divides(s, b, c) == (\A p \in Range(b) : p <= s) /\ (\A q \in Range(c) : s < q)

StraysApart ==
    \A b, c \in stray :
        \/ b = c \/ Range(b) \subseteq Stored \/ Range(c) \subseteq Stored
        \/ \E s \in Range(starts) : Divides(s, b, c) \/ Divides(s, c, b)

(* An alarm comes after its sample, in the same run of the collector.      *)
CauseBefore ==
    \A p \in Positions :
        LET cause == stage[p].cause
        IN  cause # 0 => /\ cause \in 1 .. p - 1 /\ Wanted(stage[cause])
                         /\ \A s \in Range(starts) : s < p => s < cause

\* Message c is lost and no write under way can bring it back.
Gone(c) == c \in Lost /\ \A b \in stray : c \notin Range(b)

(* The sample of an alarm in the database was stored before it or is gone. *)
CauseStored ==
    \A i \in DOMAIN table :
        LET cause == stage[table[i]].cause
        IN  cause # 0 => Gone(cause) \/ \E j \in 1 .. i - 1 : table[j] = cause

LostNow == {p \in Lost : p > Began}

(* What was lost in this run is counted.                                   *)
Counted ==
    /\ dbDrop <= persistAt - 1 - Began
    /\ IsFiniteSet(LostNow) /\ Cardinality(LostNow) <= dbDrop

IInv ==
    /\ TypeOK /\ InOrder /\ Fresh /\ Frontier
    /\ StrayPlaced /\ StraysApart /\ CauseBefore /\ CauseStored /\ Counted

-----------------------------------------------------------------------------
(* Sequences. *)

(* The empty sequence.                                                     *)
LEMMA EmptySequence == Range(<<>>) = {} /\ Sorted(<<>>) /\ \A S : <<>> \in Seq(S)
BY DEF Range, Sorted

(* The elements of a sequence.                                             *)
LEMMA RangeType ==
    ASSUME NEW S, NEW s \in Seq(S)
    PROVE  Range(s) \subseteq S /\ (s # <<>> => Range(s) # {})
<1>1. Range(s) \subseteq S
    BY DEF Range
<1>2. s # <<>> => 1 \in DOMAIN s
    OBVIOUS
<1>3. QED
    BY <1>1, <1>2 DEF Range

(* Appending to a sequence.                                                *)
LEMMA AppendTo ==
    ASSUME NEW S, NEW s \in Seq(S), NEW e \in S
    PROVE  /\ Append(s, e) \in Seq(S) \ {<<>>}
           /\ Len(Append(s, e)) = Len(s) + 1 /\ Len(s) \in Nat
           /\ Range(Append(s, e)) = Range(s) \cup {e}
           /\ Sorted(s) /\ (\A q \in Range(s) : q < e) => Sorted(Append(s, e))
<1> DEFINE t == Append(s, e)
           n == Len(s)
<1>1. /\ t \in Seq(S) /\ t # <<>> /\ Len(t) = n + 1 /\ n \in Nat
      /\ DOMAIN t = 1 .. n + 1 /\ DOMAIN s = 1 .. n
      /\ t[n + 1] = e /\ \A i \in 1 .. n : t[i] = s[i]
    OBVIOUS
<1> HIDE DEF t, n
<1>2. DOMAIN t = DOMAIN s \cup {n + 1}
    BY <1>1
<1>3. Range(t) = Range(s) \cup {e}
    BY <1>1, <1>2 DEF Range
<1>4. ASSUME Sorted(s), \A q \in Range(s) : q < e
      PROVE  Sorted(t)
    <2> SUFFICES ASSUME NEW i \in DOMAIN t, NEW j \in DOMAIN t, i < j
                 PROVE  t[i] < t[j]
        BY DEF Sorted
    <2>1. i \in 1 .. n /\ (j \in 1 .. n \/ j = n + 1)
        BY <1>1
    <2>2. QED
        BY <1>1, <1>4, <2>1 DEF Sorted, Range
<1>5. QED
    BY <1>1, <1>3, <1>4 DEF t, n

(* Taking the first element off.                                           *)
LEMMA HeadAndTail ==
    ASSUME NEW S, NEW s \in Seq(S), s # <<>>
    PROVE  /\ Head(s) \in S /\ Tail(s) \in Seq(S)
           /\ Len(Tail(s)) = Len(s) - 1 /\ Len(s) \in Nat \ {0}
           /\ Range(s) = {Head(s)} \cup Range(Tail(s))
           /\ Sorted(s) => Sorted(Tail(s)) /\ \A q \in Range(Tail(s)) : Head(s) < q
<1> DEFINE t == Tail(s)
           n == Len(s)
<1>1. /\ t \in Seq(S) /\ n \in Nat /\ n # 0 /\ Len(t) = n - 1
      /\ DOMAIN t = 1 .. n - 1 /\ DOMAIN s = 1 .. n
      /\ Head(s) = s[1] /\ s[1] \in S
      /\ \A i \in 1 .. n - 1 : t[i] = s[i + 1]
    OBVIOUS
<1> HIDE DEF t, n
<1>2. \A i \in DOMAIN t : i + 1 \in DOMAIN s /\ t[i] = s[i + 1] /\ 1 < i + 1
    BY <1>1
<1>3. \A i \in DOMAIN s : i = 1 \/ (i - 1 \in DOMAIN t /\ t[i - 1] = s[i])
    <2> TAKE i \in DOMAIN s
    <2>1. i # 1 => i - 1 \in 1 .. n - 1 /\ (i - 1) + 1 = i
        BY <1>1
    <2>2. QED
        BY <1>1, <2>1
<1>4. 1 \in DOMAIN s
    BY <1>1
<1>5. Range(s) = {Head(s)} \cup Range(t)
    BY <1>1, <1>2, <1>3, <1>4 DEF Range
<1>6. ASSUME Sorted(s)
      PROVE  Sorted(t) /\ \A q \in Range(t) : Head(s) < q
    <2>1. \A i, j \in DOMAIN t : i < j => i + 1 < j + 1
        BY <1>1
    <2>2. QED
        BY <1>1, <1>2, <1>4, <1>6, <2>1 DEF Sorted, Range
<1>7. QED
    BY <1>1, <1>5, <1>6 DEF t, n

(* One sequence after another.                                             *)
LEMMA Concatenation ==
    ASSUME NEW S, NEW s \in Seq(S), NEW t \in Seq(S)
    PROVE  /\ s \o t \in Seq(S)
           /\ Range(s \o t) = Range(s) \cup Range(t)
           /\ Len(s \o t) = Len(s) + Len(t) /\ Len(s) \in Nat /\ Len(t) \in Nat
           /\ \A i \in 1 .. Len(s) : (s \o t)[i] = s[i]
           /\ \A i \in 1 .. Len(t) : (s \o t)[Len(s) + i] = t[i]
<1> DEFINE u == s \o t
           m == Len(s)
           n == Len(t)
<1>1. /\ u \in Seq(S) /\ m \in Nat /\ n \in Nat /\ Len(u) = m + n
      /\ DOMAIN s = 1 .. m /\ DOMAIN t = 1 .. n /\ DOMAIN u = 1 .. m + n
      /\ \A i \in 1 .. m + n : u[i] = IF i <= m THEN s[i] ELSE t[i - m]
    BY ConcatProperties
<1> HIDE DEF u, m, n
<1>2. \A i \in 1 .. m : i \in DOMAIN u /\ u[i] = s[i]
    BY <1>1
<1>3. \A i \in 1 .. n : m + i \in DOMAIN u /\ u[m + i] = t[i]
    <2> TAKE i \in 1 .. n
    <2>1. m + i \in 1 .. m + n /\ ~(m + i <= m) /\ (m + i) - m = i
        BY <1>1
    <2>2. QED
        BY <1>1, <2>1
<1>4. \A i \in DOMAIN u : i \in 1 .. m \/ (i - m \in 1 .. n /\ u[i] = t[i - m])
    <2> TAKE i \in DOMAIN u
    <2>1. i \in 1 .. m \/ (i - m \in 1 .. n /\ ~(i <= m))
        BY <1>1
    <2>2. QED
        BY <1>1, <2>1
<1>5. Range(u) = Range(s) \cup Range(t)
    <2>1. Range(u) \subseteq Range(s) \cup Range(t)
        BY <1>1, <1>2, <1>4 DEF Range
    <2>2. Range(s) \subseteq Range(u)
        BY <1>1, <1>2 DEF Range
    <2>3. Range(t) \subseteq Range(u)
        BY <1>1, <1>3 DEF Range
    <2>4. QED
        BY <2>1, <2>2, <2>3
<1>6. QED
    BY <1>1, <1>2, <1>3, <1>5 DEF u, m, n

(* A set of messages that is empty or holds one.                           *)
LEMMA OneAtMost ==
    ASSUME NEW S, NEW P \in {{}} \cup {{p} : p \in S}
    PROVE  P \subseteq S /\ \A p, q \in P : p = q
OBVIOUS

(* The batches still to be written.                                        *)
LEMMA UnwrittenEmpty == pending = <<>> => Unwritten = {} /\ First = {}
BY DEF Unwritten, First

-----------------------------------------------------------------------------
(* The variables, one by one. *)

(* What TypeOK says.                                                       *)
LEMMA Typed ==
    TypeOK =>
        /\ stage \in Seq(Messages) /\ Len(stage) \in Nat /\ Positions = 1 .. Len(stage)
        /\ DOMAIN stage = Positions
        /\ alarmAt \in 1 .. Len(stage) + 1 /\ persistAt \in 1 .. Len(stage) + 1
        /\ judging \subseteq Positions /\ holding \subseteq Positions
        /\ (\A p, q \in holding : p = q)
        /\ dbDrop \in 0 .. Len(stage)
        /\ queue \in Seq(Positions) /\ batch \in Seq(Positions)
        /\ pending \in Seq(Seq(Positions) \ {<<>>})
        /\ stray \subseteq Seq(Positions) \ {<<>>}
        /\ table \in Seq(Positions)
        /\ starts \in Seq(0 .. Len(stage)) /\ starts # <<>>
        /\ Began \in 0 .. Len(stage) /\ Began \in Range(starts)
        /\ Stored \subseteq Positions /\ Lost \subseteq Positions
        /\ \A p \in Positions : stage[p] \in Messages /\ p \in Nat
<1> SUFFICES ASSUME TypeOK
             PROVE  /\ stage \in Seq(Messages) /\ Len(stage) \in Nat
                    /\ Positions = 1 .. Len(stage) /\ DOMAIN stage = Positions
                    /\ alarmAt \in 1 .. Len(stage) + 1 /\ persistAt \in 1 .. Len(stage) + 1
                    /\ judging \subseteq Positions /\ holding \subseteq Positions
                    /\ (\A p, q \in holding : p = q)
                    /\ dbDrop \in 0 .. Len(stage)
                    /\ queue \in Seq(Positions) /\ batch \in Seq(Positions)
                    /\ pending \in Seq(Seq(Positions) \ {<<>>})
                    /\ stray \subseteq Seq(Positions) \ {<<>>}
                    /\ table \in Seq(Positions)
                    /\ starts \in Seq(0 .. Len(stage)) /\ starts # <<>>
                    /\ Began \in 0 .. Len(stage) /\ Began \in Range(starts)
                    /\ Stored \subseteq Positions /\ Lost \subseteq Positions
                    /\ \A p \in Positions : stage[p] \in Messages /\ p \in Nat
    OBVIOUS
<1>1. stage \in Seq(Messages) /\ Len(stage) \in Nat /\ DOMAIN stage = 1 .. Len(stage)
    BY DEF TypeOK
<1>2. Positions = 1 .. Len(stage)
    BY DEF Positions
<1>3. alarmAt \in 1 .. Len(stage) + 1 /\ persistAt \in 1 .. Len(stage) + 1
    BY DEF TypeOK
<1>4. judging \subseteq Positions /\ holding \subseteq Positions /\ \A p, q \in holding : p = q
    BY OneAtMost DEF TypeOK
<1>5. /\ dbDrop \in 0 .. Len(stage)
      /\ queue \in Seq(Positions) /\ batch \in Seq(Positions)
      /\ pending \in Seq(Seq(Positions) \ {<<>>})
      /\ stray \subseteq Seq(Positions) \ {<<>>}
      /\ table \in Seq(Positions)
      /\ starts \in Seq(0 .. Len(stage)) /\ starts # <<>>
    BY DEF TypeOK
<1>6. Began \in 0 .. Len(stage) /\ Began \in Range(starts)
    <2> DEFINE S == 0 .. Len(stage)
    <2>1. starts \in Seq(S) /\ starts # <<>>
        BY <1>5
    <2> HIDE DEF S
    <2>2. Len(starts) \in DOMAIN starts
        BY <2>1
    <2>3. Began \in S
        BY <2>1, <2>2 DEF Began
    <2>4. QED
        BY <2>2, <2>3 DEF S, Began, Range
<1>7. Stored \subseteq Positions
    BY <1>5, RangeType DEF Stored
<1>8. Lost \subseteq Positions
    BY <1>1, <1>2, <1>3 DEF Lost
<1>9. \A p \in Positions : stage[p] \in Messages /\ p \in Nat
    BY <1>1, <1>2
<1>10. QED
    BY <1>1, <1>2, <1>3, <1>4, <1>5, <1>6, <1>7, <1>8, <1>9

(* Messages of the bus.                                                    *)
LEMMA MessageFields ==
    \A m \in Messages : m.kind \in Kinds /\ m.cause \in Nat
BY DEF Messages

(* The memory, the rows and what is lost.                                  *)
LEMMA Placed ==
    ASSUME IInv
    PROVE  /\ InMemory \subseteq Positions
           /\ Lost \cap InMemory = {} /\ Lost \cap Stored = {}
           /\ \A p \in Positions :
                 Wanted(stage[p]) /\ p < persistAt => p \in InMemory \cup Stored \cup Lost
           /\ \A p \in Lost : Wanted(stage[p]) /\ p < persistAt
<1>1. /\ queue \in Seq(Positions) /\ batch \in Seq(Positions) /\ holding \subseteq Positions
      /\ pending \in Seq(Seq(Positions) \ {<<>>})
      /\ Positions = 1 .. Len(stage) /\ Len(stage) \in Nat
      /\ persistAt \in 1 .. Len(stage) + 1
    BY Typed DEF IInv
<1>2. Range(queue) \subseteq Positions /\ Range(batch) \subseteq Positions
    BY <1>1, RangeType
<1>3. Unwritten \subseteq Positions
    <2>1. \A i \in DOMAIN pending : pending[i] \in Seq(Positions)
        <3> DEFINE T == Seq(Positions) \ {<<>>}
        <3>1. pending \in Seq(T)
            BY <1>1
        <3> HIDE DEF T
        <3>2. \A i \in DOMAIN pending : pending[i] \in T
            BY <3>1
        <3>3. QED
            BY <3>2 DEF T
    <2>2. QED
        BY <2>1, RangeType DEF Unwritten
<1>4. InMemory \subseteq Positions
    BY <1>1, <1>2, <1>3 DEF InMemory, Unwritten
<1>5. \A p \in 1 .. persistAt - 1 : p < persistAt
    BY <1>1
<1>6. \A p \in Positions : p < persistAt => p \in 1 .. persistAt - 1
    BY <1>1
<1>7. QED
    BY <1>4, <1>5, <1>6 DEF Lost, Stored

-----------------------------------------------------------------------------
(* Steps that lose and store nothing. *)

(* What is lost follows from the bus, the memory and the rows.             *)
LEMMA LostKept ==
    ASSUME UNCHANGED <<stage, persistAt, table>>, InMemory' = InMemory
    PROVE  Lost' = Lost
BY DEF Lost

(* A step of the filter, the alarm forwarder or the database that touches  *)
(* neither the bus nor what is on its way keeps the invariant.             *)
LEMMA QuietStep ==
    ASSUME IInv,
           UNCHANGED <<stage, starts, persistAt, holding, dbDrop, queue, batch, pending,
                       stray, table>>,
           rawQ' \in Receivers(Kinds \cup {"nonfinite"}, BusCap),
           alarmAt' \in 1 .. Len(stage) + 1, Began < alarmAt',
           judging' \in {{}} \cup {{p} : p \in Positions},
           \A p \in judging' : Began < p /\ Wanted(stage[p]),
           backoff' \in BOOLEAN, up' \in BOOLEAN
    PROVE  IInv' /\ Lost' = Lost
<1>1. InMemory' = InMemory
    BY DEF InMemory
<1>2. Lost' = Lost
    BY <1>1, LostKept
<1>3. Began' = Began /\ Positions' = Positions /\ Stored' = Stored /\ First' = First
      /\ Unwritten' = Unwritten
    BY DEF Began, Positions, Stored, First, Unwritten
<1>4. TypeOK'
    BY <1>3 DEF IInv, TypeOK
<1>5. InOrder'
    BY <1>3 DEF IInv, InOrder
<1>6. Fresh'
    BY <1>1, <1>3 DEF IInv, Fresh
<1>7. Frontier'
    BY <1>1, <1>3 DEF IInv, Frontier
<1>8. StrayPlaced' /\ StraysApart'
    BY <1>3 DEF IInv, StrayPlaced, StraysApart
<1>9. CauseBefore'
    BY <1>3 DEF IInv, CauseBefore
<1>10. CauseStored'
    BY <1>2 DEF IInv, CauseStored, Gone
<1>11. Counted'
    BY <1>2, <1>3 DEF IInv, Counted, LostNow
<1>12. QED
    BY <1>2, <1>4, <1>5, <1>6, <1>7, <1>8, <1>9, <1>10, <1>11 DEF IInv

(* A step that moves messages within the memory, in order, keeps it; it    *)
(* leaves the first batch to be written alone if there is one.             *)
LEMMA MemoryStep ==
    ASSUME IInv, TypeOK', InOrder', InMemory' = InMemory,
           UNCHANGED <<rawQ, stage, starts, alarmAt, judging, persistAt, dbDrop, stray, table>>,
           pending = <<>> \/ pending' = pending
    PROVE  IInv' /\ Lost' = Lost
<1>1. Lost' = Lost
    BY LostKept
<1>2. Began' = Began /\ Positions' = Positions /\ Stored' = Stored
    BY DEF Began, Positions, Stored
<1>3. Fresh'
    BY <1>2 DEF IInv, Fresh
<1>4. Frontier'
    <2>1. CASE pending = <<>>
        <3>1. Below(Stored, InMemory)
            BY <2>1 DEF IInv, Frontier, First
        <3>2. QED
            BY <1>2, <3>1 DEF IInv, Frontier
    <2>2. CASE pending' = pending
        <3>1. First' = First
            BY <2>2 DEF First
        <3>2. QED
            BY <1>2, <3>1 DEF IInv, Frontier
    <2>3. QED
        BY <2>1, <2>2
<1>5. StrayPlaced' /\ StraysApart'
    BY <1>2 DEF IInv, StrayPlaced, StraysApart
<1>6. CauseBefore'
    BY <1>2 DEF IInv, CauseBefore
<1>7. CauseStored'
    BY <1>1 DEF IInv, CauseStored, Gone
<1>8. Counted'
    BY <1>1, <1>2 DEF IInv, Counted, LostNow
<1>9. QED
    BY <1>1, <1>3, <1>4, <1>5, <1>6, <1>7, <1>8 DEF IInv

(* A message that joins the bus keeps the invariant: it is a message of    *)
(* ingress, or an alarm about the sample that is judged.                   *)
LEMMA StageGrows ==
    ASSUME IInv, NEW m \in Messages, stage' = Append(stage, m),
           m.cause = 0 \/ m.cause \in judging,
           rawQ' \in Receivers(Kinds \cup {"nonfinite"}, BusCap),
           UNCHANGED <<starts, alarmVars, feedVars, queue, writerVars, dbVars>>
    PROVE  IInv' /\ Lost' = Lost
<1> DEFINE n == Len(stage)
<1>1. /\ stage \in Seq(Messages) /\ n \in Nat /\ Positions = 1 .. n
      /\ alarmAt \in 1 .. n + 1 /\ persistAt \in 1 .. n + 1
      /\ judging \subseteq Positions /\ holding \subseteq Positions
      /\ dbDrop \in 0 .. n
      /\ queue \in Seq(Positions) /\ batch \in Seq(Positions)
      /\ pending \in Seq(Seq(Positions) \ {<<>>})
      /\ stray \subseteq Seq(Positions) \ {<<>>}
      /\ table \in Seq(Positions)
      /\ starts \in Seq(0 .. n) /\ starts # <<>>
      /\ Stored \subseteq Positions /\ Began \in 0 .. n
    BY Typed DEF IInv
<1>2. /\ stage' \in Seq(Messages) /\ Len(stage') = n + 1
      /\ stage'[n + 1] = m /\ \A p \in 1 .. n : stage'[p] = stage[p]
    BY <1>1
<1>3. Positions' = 1 .. n + 1 /\ Positions \subseteq Positions'
    BY <1>1, <1>2 DEF Positions
<1>4. UNCHANGED <<starts, alarmAt, judging, persistAt, holding, dbDrop, queue, batch,
                  pending, backoff, up, stray, table>>
    BY DEF alarmVars, feedVars, writerVars, dbVars
<1>5. InMemory' = InMemory /\ Began' = Began /\ Stored' = Stored /\ First' = First
      /\ Unwritten' = Unwritten
    BY <1>4 DEF InMemory, Began, Stored, First, Unwritten
<1>6. Lost' = Lost
    <2>1. \A p \in 1 .. persistAt - 1 : p \in 1 .. n
        BY <1>1
    <2>2. \A p \in 1 .. persistAt - 1 : Wanted(stage'[p]) <=> Wanted(stage[p])
        BY <1>2, <2>1
    <2>3. QED
        BY <1>4, <1>5, <2>2 DEF Lost
<1> HIDE DEF n
<1>7. TypeOK'
    <2>1. /\ alarmAt' \in 1 .. Len(stage') + 1 /\ persistAt' \in 1 .. Len(stage') + 1
          /\ dbDrop' \in 0 .. Len(stage')
        BY <1>1, <1>2, <1>4
    <2>2. {judging, holding}' \subseteq {{}} \cup {{p} : p \in Positions'}
        <3>1. \A P \in {{}} \cup {{p} : p \in Positions} : P \in {{}} \cup {{p} : p \in Positions'}
            BY <1>3
        <3>2. {judging, holding} \subseteq {{}} \cup {{p} : p \in Positions}
            BY DEF IInv, TypeOK
        <3>3. QED
            BY <1>4, <3>1, <3>2
    <2>3. \A S, T : S \subseteq T => Seq(S) \subseteq Seq(T)
        OBVIOUS
    <2>4. queue' \in Seq(Positions') /\ batch' \in Seq(Positions') /\ table' \in Seq(Positions')
        BY <1>1, <1>3, <1>4, <2>3
    <2>5. Seq(Positions) \ {<<>>} \subseteq Seq(Positions') \ {<<>>}
        <3>1. Seq(Positions) \subseteq Seq(Positions')
            BY <1>3, <2>3
        <3>2. QED
            BY <3>1
    <2>6. pending' \in Seq(Seq(Positions') \ {<<>>}) /\ stray' \subseteq Seq(Positions') \ {<<>>}
        BY <1>1, <1>4, <2>3, <2>5
    <2>7. 0 .. n \subseteq 0 .. Len(stage')
        BY <1>1, <1>2
    <2>8. starts' \in Seq(0 .. Len(stage')) /\ starts' # <<>>
        BY <1>1, <1>4, <2>3, <2>7
    <2>9. /\ Len(queue') <= QueueCap /\ Len(batch') < BatchSize /\ Len(pending') <= 2
          /\ backoff' \in BOOLEAN /\ up' \in BOOLEAN
        BY <1>4 DEF IInv, TypeOK
    <2>10. QED
        BY <1>2, <2>1, <2>2, <2>4, <2>6, <2>8, <2>9 DEF TypeOK
<1>8. InOrder'
    BY <1>4, <1>5 DEF IInv, InOrder
<1>9. \A p \in Positions : stage'[p] = stage[p]
    BY <1>1, <1>2
<1>10. InMemory \subseteq Positions
    BY Placed
<1>11. Fresh'
    BY <1>1, <1>4, <1>5, <1>9, <1>10 DEF IInv, Fresh
<1>12. Frontier'
    BY <1>4, <1>5 DEF IInv, Frontier
<1>13. StrayPlaced'
    <2>1. \A b \in stray : Range(b) \subseteq Positions
        BY <1>1, RangeType
    <2>2. QED
        BY <1>4, <1>5, <1>9, <2>1 DEF IInv, StrayPlaced
<1>14. StraysApart'
    BY <1>4, <1>5 DEF IInv, StraysApart
<1>15. CauseBefore'
    <2> SUFFICES ASSUME NEW p \in Positions', stage'[p].cause # 0
                 PROVE  /\ stage'[p].cause \in 1 .. p - 1 /\ Wanted(stage'[stage'[p].cause])
                        /\ \A s \in Range(starts) : s < p => s < stage'[p].cause
        BY <1>4 DEF CauseBefore
    <2>1. CASE p \in Positions
        <3>1. /\ stage[p].cause \in 1 .. p - 1 /\ Wanted(stage[stage[p].cause])
              /\ \A s \in Range(starts) : s < p => s < stage[p].cause
            BY <1>9, <2>1 DEF IInv, CauseBefore
        <3>2. stage[p].cause \in Positions
            BY <1>1, <2>1, <3>1
        <3>3. QED
            BY <1>9, <2>1, <3>1, <3>2
    <2>2. CASE p \notin Positions
        <3>1. p = n + 1 /\ stage'[p] = m /\ m.cause \in judging
            BY <1>1, <1>2, <1>3, <2>2
        <3>2. m.cause \in 1 .. p - 1
            <4>1. p - 1 = n
                BY <1>1, <3>1
            <4>2. m.cause \in 1 .. n
                BY <1>1, <3>1
            <4>3. QED
                BY <4>1, <4>2
        <3>3. Wanted(stage'[m.cause]) /\ Began < m.cause
            BY <1>1, <1>9, <3>1 DEF IInv, Fresh
        <3>4. ASSUME NEW s \in Range(starts) PROVE s < m.cause
            <4>1. s <= Began /\ s \in 0 .. n
                BY <1>1, RangeType DEF IInv, Fresh
            <4>2. QED
                BY <1>1, <3>2, <3>3, <4>1
        <3>5. QED
            BY <3>1, <3>2, <3>3, <3>4
    <2>3. QED
        BY <2>1, <2>2
<1>16. CauseStored'
    <2>1. \A i \in DOMAIN table : table[i] \in Positions
        BY <1>1
    <2>2. QED
        BY <1>4, <1>6, <1>9, <2>1 DEF IInv, CauseStored, Gone
<1>17. Counted'
    BY <1>4, <1>5, <1>6 DEF IInv, Counted, LostNow
<1>18. QED
    BY <1>6, <1>7, <1>8, <1>11, <1>12, <1>13, <1>14, <1>15, <1>16, <1>17 DEF IInv

-----------------------------------------------------------------------------
(* Between the forwarder and the writer. *)

(* Two sequences of one element each, one after the other.                 *)
LEMMA Pair == \A x, y : <<x>> \o <<y>> = <<x, y>>
<1> SUFFICES ASSUME NEW x, NEW y PROVE <<x>> \o <<y>> = <<x, y>>
    OBVIOUS
<1>1. PICK S, s, t, u : S = {x, y} /\ s = <<x>> /\ t = <<y>> /\ u = <<x, y>>
    OBVIOUS
<1>2. /\ s \in Seq(S) /\ t \in Seq(S) /\ u \in Seq(S)
      /\ Len(s) = 1 /\ Len(t) = 1 /\ Len(u) = 2
      /\ s[1] = x /\ t[1] = y /\ u[1] = x /\ u[2] = y
    BY <1>1
<1>3. /\ s \o t \in Seq(S) /\ Len(s \o t) = 2
      /\ (s \o t)[1] = s[1] /\ (s \o t)[1 + 1] = t[1]
    <2>1. /\ s \o t \in Seq(S) /\ Len(s \o t) = Len(s) + Len(t)
          /\ \A i \in 1 .. Len(s) : (s \o t)[i] = s[i]
          /\ \A i \in 1 .. Len(t) : (s \o t)[Len(s) + i] = t[i]
        BY <1>2, Concatenation
    <2>2. 1 \in 1 .. Len(s) /\ 1 \in 1 .. Len(t)
        BY <1>2
    <2>3. QED
        BY <1>2, <2>1, <2>2
<1>4. PICK v : v = s \o t
    OBVIOUS
<1>5. v \in Seq(S) /\ Len(v) = 2 /\ v[1] = x /\ v[2] = y
    BY <1>2, <1>3, <1>4
<1>6. \A i \in 1 .. 2 : i = 1 \/ i = 2
    OBVIOUS
<1>7. \A i \in 1 .. Len(v) : v[i] = u[i]
    BY <1>2, <1>5, <1>6
<1>8. v = u
    BY <1>2, <1>5, <1>7, SeqEqual
<1>9. QED
    BY <1>1, <1>4, <1>8

(* The messages in at most two batches.                                    *)
LEMMA Batches ==
    ASSUME NEW S, NEW b \in Seq(S) \ {<<>>}, NEW c \in Seq(S) \ {<<>>}
    PROVE  /\ <<b>> \in Seq(Seq(S) \ {<<>>}) /\ Len(<<b>>) = 1
           /\ UNION {Range(<<b>>[i]) : i \in DOMAIN <<b>>} = Range(b)
           /\ <<b, c>> \in Seq(Seq(S) \ {<<>>}) /\ Len(<<b, c>>) = 2
           /\ UNION {Range(<<b, c>>[i]) : i \in DOMAIN <<b, c>>} = Range(b) \cup Range(c)
<1> DEFINE T == Seq(S) \ {<<>>}
<1>1. b \in T /\ c \in T
    OBVIOUS
<1> HIDE DEF T
<1>2. <<b>> \in Seq(T) /\ <<b, c>> \in Seq(T)
    BY <1>1
<1>3. DOMAIN <<b>> = {1} /\ DOMAIN <<b, c>> = {1, 2}
    OBVIOUS
<1>4. <<b>>[1] = b /\ <<b, c>>[1] = b /\ <<b, c>>[2] = c
    OBVIOUS
<1>5. UNION {Range(<<b>>[i]) : i \in DOMAIN <<b>>} = Range(b)
    BY <1>3, <1>4
<1>6. UNION {Range(<<b, c>>[i]) : i \in DOMAIN <<b, c>>} = Range(b) \cup Range(c)
    BY <1>3, <1>4
<1>7. QED
    BY <1>2, <1>5, <1>6 DEF T

(* One message is a batch.                                                 *)
LEMMA Single ==
    ASSUME NEW S, NEW p \in S
    PROVE  <<p>> \in Seq(S) \ {<<>>} /\ Range(<<p>>) = {p} /\ Sorted(<<p>>)
<1>1. <<p>> \in Seq(S) /\ <<p>> # <<>> /\ DOMAIN <<p>> = {1} /\ <<p>>[1] = p
    OBVIOUS
<1>2. QED
    BY <1>1 DEF Range, Sorted

(* The message that waits enters the queue.                                *)
LEMMA EnqueueStep == ASSUME IInv, Enqueue PROVE IInv' /\ Lost' = Lost
<1>1. /\ queue \in Seq(Positions) /\ holding \subseteq Positions
      /\ \A q, r \in holding : q = r
    BY Typed DEF IInv
<1>2. PICK p \in holding : queue' = Append(queue, p)
    BY DEF Enqueue
<1>3. holding = {p} /\ p \in Positions
    BY <1>1, <1>2
<1>4. holding' = {} /\ Len(queue) < QueueCap
    BY DEF Enqueue
<1>5. UNCHANGED <<rawQ, stage, starts, alarmAt, judging, persistAt, dbDrop, batch, pending,
                  backoff, up, stray, table>>
    BY DEF Enqueue, busVars, alarmVars, writerVars, dbVars
<1>6. QueueCap \in Nat
    BY PipelineAssumption
<1>7. Below(Range(queue), {p})
    BY <1>3 DEF IInv, InOrder
<1>8. /\ queue' \in Seq(Positions) /\ Len(queue') <= QueueCap
      /\ Range(queue') = Range(queue) \cup {p} /\ Sorted(queue')
    <2>1. Sorted(queue) /\ \A q \in Range(queue) : q < p
        BY <1>7 DEF IInv, InOrder, Below
    <2>2. QED
        BY <1>1, <1>2, <1>3, <1>4, <1>6, <2>1, AppendTo
<1>9. Positions' = Positions /\ Unwritten' = Unwritten
    BY <1>5 DEF Positions, Unwritten
<1>10. InMemory' = InMemory
    BY <1>3, <1>4, <1>5, <1>8 DEF InMemory
<1>11. TypeOK'
    BY <1>4, <1>5, <1>8, <1>9 DEF IInv, TypeOK
<1>12. InOrder'
    <2>1. Range(queue') \cup holding' = Range(queue) \cup holding
        BY <1>3, <1>4, <1>8
    <2>2. /\ Below(Unwritten, Range(batch) \cup (Range(queue') \cup holding'))
          /\ Below(Range(batch), Range(queue') \cup holding')
          /\ Below(Range(queue'), holding')
        BY <1>4, <2>1 DEF IInv, InOrder, Below
    <2>3. Below(Unwritten, Range(batch) \cup Range(queue') \cup holding')
        BY <2>2 DEF Below
    <2>4. QED
        BY <1>5, <1>8, <1>9, <2>2, <2>3 DEF IInv, InOrder
<1>13. QED
    BY <1>5, <1>10, <1>11, <1>12, MemoryStep

(* The batch is handed over when the tick comes.                           *)
LEMMA FlushStep == ASSUME IInv, FlushTick PROVE IInv' /\ Lost' = Lost
<1>1. /\ pending = <<>> /\ batch # <<>> /\ batch' = <<>> /\ pending' = <<batch>>
    BY DEF FlushTick, Selecting, Flushed
<1>2. UNCHANGED <<rawQ, stage, starts, alarmAt, judging, persistAt, holding, dbDrop, queue,
                  backoff, up, stray, table>>
    BY DEF FlushTick, busVars, alarmVars, feedVars, dbVars
<1>3. batch \in Seq(Positions) \ {<<>>}
    BY <1>1, Typed DEF IInv
<1>4. pending' \in Seq(Seq(Positions) \ {<<>>}) /\ Len(pending') = 1
    BY <1>1, <1>3, Batches
<1>5. Unwritten' = Range(batch) /\ Unwritten = {}
    BY <1>1, <1>3, Batches, UnwrittenEmpty DEF Unwritten
<1>6. Positions' = Positions
    BY <1>2 DEF Positions
<1>7. Range(batch') = {} /\ Sorted(batch') /\ batch' \in Seq(Positions)
    BY <1>1, EmptySequence
<1>8. InMemory' = InMemory
    BY <1>2, <1>5, <1>7 DEF InMemory, Unwritten
<1>9. TypeOK'
    <2>1. Len(batch') < BatchSize
        BY <1>1, PipelineAssumption
    <2>2. QED
        BY <1>2, <1>4, <1>6, <1>7, <2>1 DEF IInv, TypeOK
<1>10. InOrder'
    <2>1. DOMAIN pending' = {1} /\ pending'[1] = batch
        BY <1>1
    <2>2. \A i, j \in DOMAIN pending' : ~(i < j)
        BY <2>1
    <2>3. Below(Unwritten', Range(batch') \cup Range(queue') \cup holding')
        BY <1>2, <1>5, <1>7 DEF IInv, InOrder, Below
    <2>4. Below(Range(batch'), Range(queue') \cup holding')
        BY <1>7 DEF Below
    <2>5. QED
        BY <1>2, <1>7, <2>1, <2>2, <2>3, <2>4 DEF IInv, InOrder
<1>11. QED
    BY <1>1, <1>2, <1>8, <1>9, <1>10, MemoryStep

(* The writer takes a command: a sample joins the batch, which may be full *)
(* then, an event is written behind it.                                    *)
LEMMA ReceiveStep == ASSUME IInv, WriterReceive PROVE IInv' /\ Lost' = Lost
<1>1. pending = <<>> /\ queue # <<>> /\ queue' = Tail(queue)
    BY DEF WriterReceive, Selecting
<1>2. UNCHANGED <<rawQ, stage, starts, alarmAt, judging, persistAt, holding, dbDrop,
                  backoff, up, stray, table>>
    BY DEF WriterReceive, busVars, alarmVars, feedVars, dbVars
<1>3. PICK p : p = Head(queue)
    OBVIOUS
<1>4. batch' = Taken(p).batch /\ pending' = Taken(p).pending
    BY <1>3 DEF WriterReceive
<1>5. batch \in Seq(Positions) /\ queue \in Seq(Positions)
    BY Typed DEF IInv
<1>6. Sorted(batch) /\ Sorted(queue)
    BY DEF IInv, InOrder
<1>7. /\ p \in Positions /\ queue' \in Seq(Positions)
      /\ Len(queue') = Len(queue) - 1 /\ Len(queue) \in Nat \ {0}
      /\ Range(queue) = {p} \cup Range(queue') /\ Sorted(queue')
      /\ \A q \in Range(queue') : p < q
    BY <1>1, <1>3, <1>5, <1>6, HeadAndTail
<1>8. \A q \in Range(batch) : q < p
    BY <1>7 DEF IInv, InOrder, Below
<1>9. \A q \in holding : p < q
    BY <1>7 DEF IInv, InOrder, Below
<1>10. PICK longer : longer = Append(batch, p)
    OBVIOUS
<1>11. /\ longer \in Seq(Positions) \ {<<>>} /\ Len(longer) = Len(batch) + 1
       /\ Range(longer) = Range(batch) \cup {p} /\ Sorted(longer)
    BY <1>5, <1>6, <1>7, <1>8, <1>10, AppendTo
<1>12. Positions' = Positions /\ Unwritten = {}
    BY <1>1, <1>2, UnwrittenEmpty DEF Positions
<1>13. BatchSize \in Nat \ {0} /\ QueueCap \in Nat /\ Len(<<>>) = 0
    BY PipelineAssumption
\* What each case has to show.
<1> DEFINE Done == /\ pending' \in Seq(Seq(Positions) \ {<<>>}) /\ Len(pending') <= 2
                   /\ batch' \in Seq(Positions) /\ Len(batch') < BatchSize
                   /\ Unwritten' \cup Range(batch') = Range(batch) \cup {p}
                   /\ Sorted(batch') /\ \A i \in DOMAIN pending' : Sorted(pending'[i])
                   /\ \A i, j \in DOMAIN pending' :
                         i < j => Below(Range(pending'[i]), Range(pending'[j]))
                   /\ Below(Unwritten', Range(batch'))
<1>14. Done
    <2>1. CASE stage[p].kind = "sample" /\ ~BatchFull(longer)
        <3>1. batch' = longer /\ pending' = <<>>
            BY <1>4, <1>10, <2>1 DEF Taken
        <3>2. Len(longer) \in Nat /\ Len(batch') < BatchSize
            BY <1>11, <1>13, <2>1, <3>1 DEF BatchFull
        <3>3. Unwritten' = {} /\ DOMAIN pending' = {} /\ Len(pending') = 0
            BY <3>1 DEF Unwritten
        <3>4. pending' \in Seq(Seq(Positions) \ {<<>>})
            BY <3>1
        <3>5. QED
            BY <1>11, <3>1, <3>2, <3>3, <3>4 DEF Below
    <2>2. CASE stage[p].kind = "sample" /\ BatchFull(longer)
        <3>1. batch' = <<>> /\ pending' = <<longer>>
            BY <1>4, <1>10, <1>11, <2>2 DEF Taken, Flushed
        <3>2. /\ pending' \in Seq(Seq(Positions) \ {<<>>}) /\ Len(pending') = 1
              /\ Unwritten' = Range(longer)
            BY <1>11, <3>1, Batches DEF Unwritten
        <3>3. DOMAIN pending' = {1} /\ pending'[1] = longer
            BY <3>1
        <3>4. \A i, j \in DOMAIN pending' : ~(i < j)
            BY <3>3
        <3>5. Range(batch') = {} /\ Sorted(batch') /\ batch' \in Seq(Positions)
            BY <3>1, EmptySequence
        <3>6. QED
            BY <1>11, <1>13, <3>1, <3>2, <3>3, <3>4, <3>5 DEF Below
    <2>3. CASE stage[p].kind # "sample" /\ batch = <<>>
        <3>1. batch' = <<>> /\ pending' = << <<p>> >>
            BY <1>4, <2>3 DEF Taken, Flushed
        <3>2. <<p>> \in Seq(Positions) \ {<<>>} /\ Range(<<p>>) = {p} /\ Sorted(<<p>>)
            BY <1>7, Single
        <3>3. /\ pending' \in Seq(Seq(Positions) \ {<<>>}) /\ Len(pending') = 1
              /\ Unwritten' = {p}
            BY <3>1, <3>2, Batches DEF Unwritten
        <3>4. DOMAIN pending' = {1} /\ pending'[1] = <<p>>
            BY <3>1
        <3>5. \A i, j \in DOMAIN pending' : ~(i < j)
            BY <3>4
        <3>6. Range(batch') = {} /\ Range(batch) = {} /\ Sorted(batch') /\ batch' \in Seq(Positions)
            BY <2>3, <3>1, EmptySequence
        <3>7. QED
            BY <1>13, <3>1, <3>2, <3>3, <3>4, <3>5, <3>6 DEF Below
    <2>4. CASE stage[p].kind # "sample" /\ batch # <<>>
        <3>1. <<p>> \in Seq(Positions) \ {<<>>} /\ Range(<<p>>) = {p} /\ Sorted(<<p>>)
            BY <1>7, Single
        <3>2. batch \in Seq(Positions) \ {<<>>}
            BY <1>5, <2>4
        <3>3. batch' = <<>> /\ pending' = <<batch, <<p>> >>
            <4>1. batch' = <<>> /\ pending' = <<batch>> \o << <<p>> >>
                BY <1>4, <2>4 DEF Taken, Flushed
            <4>2. QED
                BY <4>1, Pair
        <3>4. /\ pending' \in Seq(Seq(Positions) \ {<<>>}) /\ Len(pending') = 2
              /\ Unwritten' = Range(batch) \cup {p}
            BY <3>1, <3>2, <3>3, Batches DEF Unwritten
        <3>5. DOMAIN pending' = {1, 2} /\ pending'[1] = batch /\ pending'[2] = <<p>>
            BY <3>3
        <3>6. \A i, j \in DOMAIN pending' : i < j => i = 1 /\ j = 2
            BY <3>5
        <3>7. Below(Range(batch), Range(<<p>>))
            BY <1>8, <3>1 DEF Below
        <3>8. Range(batch') = {} /\ Sorted(batch') /\ batch' \in Seq(Positions)
            BY <3>3, EmptySequence
        <3>9. \A i \in DOMAIN pending' : Sorted(pending'[i])
            BY <1>6, <3>1, <3>5
        <3>10. \A i, j \in DOMAIN pending' : i < j => Below(Range(pending'[i]), Range(pending'[j]))
            BY <3>5, <3>6, <3>7
        <3>11. QED
            BY <1>13, <3>3, <3>4, <3>8, <3>9, <3>10 DEF Below
    <2>5. QED
        BY <2>1, <2>2, <2>3, <2>4
<1>15. Done
    BY <1>14
<1> HIDE DEF Done
<1>16. InMemory' = InMemory
    <2>1. Unwritten' \cup Range(batch') = Range(batch) \cup {p}
        BY <1>15 DEF Done
    <2>2. QED
        BY <1>2, <1>7, <1>12, <2>1 DEF InMemory, Unwritten
<1>17. TypeOK'
    <2>1. Len(queue') <= QueueCap
        BY <1>7, <1>13 DEF IInv, TypeOK
    <2>2. QED
        BY <1>2, <1>7, <1>12, <1>15, <2>1 DEF Done, IInv, TypeOK
<1>18. InOrder'
    <2>1. \A q \in Unwritten' \cup Range(batch'), r \in Range(queue') \cup holding' : q < r
        <3>1. \A q \in Range(batch), r \in Range(queue') \cup holding : q < r
            BY <1>7 DEF IInv, InOrder, Below
        <3>2. \A r \in Range(queue') \cup holding : p < r
            BY <1>7, <1>9
        <3>3. QED
            BY <1>2, <1>15, <3>1, <3>2 DEF Done
    <2>2. Below(Unwritten', Range(batch') \cup Range(queue') \cup holding')
        BY <1>15, <2>1 DEF Done, Below
    <2>3. Below(Range(batch'), Range(queue') \cup holding')
        BY <2>1 DEF Below
    <2>4. Below(Range(queue'), holding')
        BY <1>2, <1>7 DEF IInv, InOrder, Below
    <2>5. QED
        BY <1>7, <1>15, <2>2, <2>3, <2>4 DEF Done, InOrder
<1>19. QED
    BY <1>1, <1>2, <1>16, <1>17, <1>18, MemoryStep

-----------------------------------------------------------------------------
(* From the bus into memory. *)

(* Adding a set to what was lost adds at most its size.                    *)
LEMMA AtMostTheSum ==
    ASSUME NEW P, NEW Q, NEW R, IsFiniteSet(P), IsFiniteSet(Q), R \subseteq P \cup Q,
           NEW n \in Nat, NEW k \in Nat, Cardinality(P) <= n, Cardinality(Q) <= k
    PROVE  IsFiniteSet(R) /\ Cardinality(R) <= n + k
<1>1. /\ IsFiniteSet(P \cup Q) /\ IsFiniteSet(P \cap Q)
      /\ Cardinality(P \cup Q) = Cardinality(P) + Cardinality(Q) - Cardinality(P \cap Q)
    BY FS_Union, FS_Intersection
<1>2. IsFiniteSet(R) /\ Cardinality(R) <= Cardinality(P \cup Q)
    BY <1>1, FS_Subset
<1>3. /\ Cardinality(P) \in Nat /\ Cardinality(Q) \in Nat /\ Cardinality(P \cap Q) \in Nat
      /\ Cardinality(R) \in Nat /\ Cardinality(P \cup Q) \in Nat
    BY <1>1, <1>2, FS_CardinalityType
<1>4. QED
    BY <1>1, <1>2, <1>3

(* A step of the persistence forwarder past some messages: those it owes   *)
(* the database it takes or counts.                                        *)
LEMMA ForwarderStep ==
    ASSUME IInv, holding = {}, NEW passed,
           persistAt' \in persistAt + 1 .. Len(stage) + 1,
           holding' \in {{}} \cup {{p} : p \in persistAt .. persistAt' - 1},
           \A p \in holding' : Wanted(stage[p]),
           \A p \in persistAt .. persistAt' - 1 : Wanted(stage[p]) => p \in holding' \cup passed,
           IsFiniteSet(passed), dbDrop' - dbDrop \in 0 .. persistAt' - persistAt,
           dbDrop' \in Nat, Cardinality(passed) <= dbDrop' - dbDrop,
           UNCHANGED <<busVars, alarmVars, queue, writerVars, dbVars>>
    PROVE  IInv' /\ Lost \subseteq Lost'
<1>1. UNCHANGED <<rawQ, stage, starts, alarmAt, judging, queue, batch, pending, backoff, up,
                  stray, table>>
    BY DEF busVars, alarmVars, writerVars, dbVars
<1>2. /\ Len(stage) \in Nat /\ Positions = 1 .. Len(stage) /\ persistAt \in 1 .. Len(stage) + 1
      /\ dbDrop \in 0 .. Len(stage) /\ Began \in 0 .. Len(stage)
    BY Typed DEF IInv
<1>3. Began' = Began /\ Positions' = Positions /\ Stored' = Stored /\ First' = First
      /\ Unwritten' = Unwritten
    BY <1>1 DEF Began, Positions, Stored, First, Unwritten
<1>4. InMemory' = InMemory \cup holding'
    BY <1>1 DEF InMemory
<1>5. \A p \in holding' : p \in Positions /\ persistAt <= p /\ p < persistAt'
    <2>1. \A p \in persistAt .. persistAt' - 1 :
              p \in Positions /\ persistAt <= p /\ p < persistAt'
        <3>1. \A n, a, b \in Nat : 1 <= a /\ b <= n + 1 =>
                  \A p \in a .. b - 1 : p \in 1 .. n /\ a <= p /\ p < b
            OBVIOUS
        <3>2. /\ persistAt' \in Nat /\ persistAt' <= Len(stage) + 1
              /\ persistAt \in Nat /\ 1 <= persistAt
            BY <1>2
        <3>3. QED
            BY <1>2, <3>1, <3>2
    <2>2. \A p \in holding' : p \in persistAt .. persistAt' - 1
        OBVIOUS
    <2>3. QED
        BY <2>1, <2>2
<1>6. \A p, q \in holding' : p = q
    OBVIOUS
<1>7. \A p \in InMemory : p < persistAt /\ p \in Nat
    BY <1>2, Placed DEF IInv, Fresh
<1>8. TypeOK'
    <2>1. holding' \in {{}} \cup {{p} : p \in Positions}
        BY <1>5
    <2>2. judging \in {{}} \cup {{p} : p \in Positions}
        BY DEF IInv, TypeOK
    <2>3. dbDrop' \in 0 .. Len(stage)
        BY <1>2 DEF IInv, Counted
    <2>4. {judging, holding}' \subseteq {{}} \cup {{p} : p \in Positions}
        BY <1>1, <2>1, <2>2
    <2>5. {alarmAt, persistAt}' \subseteq 1 .. Len(stage) + 1
        BY <1>1, <1>2 DEF IInv, TypeOK
    <2>6. QED
        BY <1>1, <1>3, <2>3, <2>4, <2>5 DEF IInv, TypeOK
<1>9. InOrder'
    <2>1. \A p \in Range(queue) \cup Range(batch) \cup Unwritten, q \in holding' : p < q
        <3>1. Range(queue) \cup Range(batch) \cup Unwritten \subseteq InMemory
            BY DEF InMemory, Unwritten
        <3>2. \A p \in Range(queue) \cup Range(batch) \cup Unwritten : p < persistAt /\ p \in Nat
            BY <1>7, <3>1
        <3>3. QED
            BY <1>2, <1>5, <3>2
    <2>2. QED
        BY <1>1, <1>3, <2>1 DEF IInv, InOrder, Below
<1>10. Fresh'
    <2>1. \A p \in InMemory' : Began < p /\ p < persistAt' /\ Wanted(stage[p])
        <3>1. \A p \in InMemory : Began < p /\ p < persistAt' /\ Wanted(stage[p])
            BY <1>2, <1>7 DEF IInv, Fresh
        <3>2. \A p \in holding' : Began < p
            BY <1>2, <1>5 DEF IInv, Fresh
        <3>3. QED
            BY <1>4, <1>5, <3>1, <3>2
    <2>2. Began < persistAt'
        BY <1>2 DEF IInv, Fresh
    <2>3. QED
        BY <1>1, <1>3, <2>1, <2>2 DEF IInv, Fresh
<1>11. Frontier'
    <2>1. Below(Stored, holding')
        <3>1. \A p \in Stored : p < persistAt /\ p \in Nat
            BY Typed DEF IInv, Frontier
        <3>2. QED
            BY <1>2, <1>5, <3>1 DEF Below
    <2>2. \A p \in Stored : p < persistAt'
        <3>1. \A p \in Stored : p < persistAt /\ p \in Nat
            BY Typed DEF IInv, Frontier
        <3>2. QED
            BY <1>2, <3>1
    <2>3. QED
        BY <1>3, <1>4, <2>1, <2>2 DEF IInv, Frontier, Below
<1>12. Lost \subseteq Lost'
    <2>1. \A p \in Lost : p \in 1 .. persistAt' - 1
        BY <1>2 DEF Lost
    <2>2. \A p \in Lost : p \notin holding'
        <3>1. \A p \in Lost : p < persistAt /\ p \in Nat
            BY <1>2 DEF Lost
        <3>2. QED
            BY <1>2, <1>5, <3>1
    <2>3. \A p \in Lost : Wanted(stage[p]) /\ p \notin InMemory \cup Range(table)
        BY DEF Lost
    <2>4. QED
        BY <1>1, <1>4, <2>1, <2>2, <2>3 DEF Lost
<1>13. StrayPlaced' /\ StraysApart'
    BY <1>1, <1>3 DEF IInv, StrayPlaced, StraysApart
<1>14. CauseBefore'
    BY <1>1, <1>3 DEF IInv, CauseBefore
<1>15. CauseStored'
    <2>1. \A c : Gone(c) => Gone(c)'
        BY <1>1, <1>12 DEF Gone
    <2>2. QED
        BY <1>1, <2>1 DEF IInv, CauseStored
<1>16. Counted'
    <2>1. LostNow' \subseteq LostNow \cup passed
        <3> SUFFICES ASSUME NEW p \in LostNow' PROVE p \in LostNow \cup passed
            OBVIOUS
        <3>1. /\ p \in 1 .. persistAt' - 1 /\ Wanted(stage[p]) /\ Began < p
              /\ p \notin InMemory \cup holding' /\ p \notin Range(table)
            BY <1>1, <1>3, <1>4 DEF LostNow, Lost
        <3>2. CASE p < persistAt
            BY <1>2, <3>1, <3>2 DEF LostNow, Lost
        <3>3. CASE ~(p < persistAt)
            <4>1. p \in persistAt .. persistAt' - 1
                BY <1>2, <3>1, <3>3
            <4>2. QED
                BY <3>1, <4>1
        <3>4. QED
            BY <3>2, <3>3
    <2>2. PICK k : k = dbDrop' - dbDrop
        OBVIOUS
    <2>3. k \in Nat /\ dbDrop \in Nat /\ dbDrop' = dbDrop + k /\ k <= persistAt' - persistAt
        <3>1. \A m \in Int : k \in 0 .. m => k \in Nat /\ k <= m
            OBVIOUS
        <3>2. persistAt' - persistAt \in Int
            BY <1>2
        <3>3. k \in Nat /\ k <= persistAt' - persistAt
            BY <2>2, <3>1, <3>2
        <3>4. \A x, y, z \in Nat : z = x - y => x = y + z
            OBVIOUS
        <3>5. dbDrop \in Nat /\ dbDrop' \in Nat
            <4>1. Len(stage) \in Nat /\ dbDrop \in 0 .. Len(stage)
                BY <1>2
            <4>2. QED
                BY <4>1
        <3>6. QED
            BY <2>2, <3>3, <3>4, <3>5
    <2>4. IsFiniteSet(LostNow') /\ Cardinality(LostNow') <= dbDrop + k
        BY <2>1, <2>2, <2>3, AtMostTheSum DEF IInv, Counted
    <2>5. dbDrop' <= persistAt' - 1 - Began
        BY <1>2, <2>3 DEF IInv, Counted
    <2>6. QED
        BY <1>3, <2>3, <2>4, <2>5 DEF Counted
<1>17. QED
    BY <1>8, <1>9, <1>10, <1>11, <1>12, <1>13, <1>14, <1>15, <1>16 DEF IInv

(* The forwarder takes a message.                                          *)
LEMMA PersistReceiveStep == ASSUME IInv, PersistReceive PROVE IInv' /\ Lost \subseteq Lost'
<1>1. /\ Len(stage) \in Nat /\ persistAt \in 1 .. Len(stage) + 1 /\ dbDrop \in 0 .. Len(stage)
      /\ stage \in Seq(Messages)
    BY Typed DEF IInv
<1>2. /\ holding = {} /\ persistAt <= Len(stage) /\ persistAt' = persistAt + 1
      /\ holding' = IF stage[persistAt].kind \in {"sample", "event"} THEN {persistAt} ELSE {}
      /\ dbDrop' = IF stage[persistAt].kind = "invalid" THEN dbDrop + 1 ELSE dbDrop
    BY DEF PersistReceive, Readable
<1>3. persistAt .. persistAt' - 1 = {persistAt} /\ persistAt' - persistAt = 1
    BY <1>1, <1>2
<1>4. stage[persistAt].kind \in {"sample", "invalid", "event", "other"}
    BY <1>1, <1>2, MessageFields DEF Kinds
<1>5. PICK passed : passed = IF stage[persistAt].kind = "invalid" THEN {persistAt} ELSE {}
    OBVIOUS
<1>6. IsFiniteSet(passed) /\ Cardinality(passed) <= dbDrop' - dbDrop
    <2>1. CASE stage[persistAt].kind = "invalid"
        <3>1. IsFiniteSet(passed) /\ Cardinality(passed) = 1
            BY <1>5, <2>1, FS_Singleton
        <3>2. QED
            BY <1>1, <1>2, <2>1, <3>1
    <2>2. CASE stage[persistAt].kind # "invalid"
        <3>1. IsFiniteSet(passed) /\ Cardinality(passed) = 0
            BY <1>5, <2>2, FS_EmptySet
        <3>2. QED
            BY <1>1, <1>2, <2>2, <3>1
    <2>3. QED
        BY <2>1, <2>2
<1>7. dbDrop' - dbDrop \in 0 .. persistAt' - persistAt /\ dbDrop' \in Nat
    BY <1>1, <1>2, <1>3
<1>8. persistAt' \in persistAt + 1 .. Len(stage) + 1
    BY <1>1, <1>2
<1>9. /\ holding' \in {{}} \cup {{p} : p \in persistAt .. persistAt' - 1}
      /\ \A p \in holding' : Wanted(stage[p])
      /\ \A p \in persistAt .. persistAt' - 1 : Wanted(stage[p]) => p \in holding' \cup passed
    BY <1>2, <1>3, <1>4, <1>5 DEF Wanted
<1>10. UNCHANGED <<busVars, alarmVars, queue, writerVars, dbVars>>
    BY DEF PersistReceive
<1>11. QED
    BY <1>2, <1>6, <1>7, <1>8, <1>9, <1>10, ForwarderStep

(* The forwarder learns how many messages it missed.                       *)
LEMMA PersistLaggedStep == ASSUME IInv, PersistLagged PROVE IInv' /\ Lost \subseteq Lost'
<1>1. /\ Len(stage) \in Nat /\ persistAt \in 1 .. Len(stage) + 1 /\ dbDrop \in 0 .. Len(stage)
    BY Typed DEF IInv
<1>2. BusCap \in Nat \ {0}
    BY PipelineAssumption
<1>3. /\ holding = {} /\ holding' = {} /\ persistAt + BusCap <= Len(stage)
      /\ persistAt' = Len(stage) - BusCap + 1
      /\ dbDrop' = dbDrop + (persistAt' - persistAt)
    BY DEF PersistLagged, Behind, Oldest
<1>4. /\ persistAt' \in persistAt + 1 .. Len(stage) + 1
      /\ dbDrop' - dbDrop = persistAt' - persistAt /\ dbDrop' \in Nat
      /\ dbDrop' - dbDrop \in 0 .. persistAt' - persistAt
    BY <1>1, <1>2, <1>3
<1>5. PICK passed : passed = persistAt .. persistAt' - 1
    OBVIOUS
<1>6. IsFiniteSet(passed) /\ Cardinality(passed) <= dbDrop' - dbDrop
    <2>1. PICK last : last = persistAt' - 1
        OBVIOUS
    <2>2. last \in Int /\ persistAt \in Int /\ persistAt <= last
          /\ last - persistAt + 1 = persistAt' - persistAt
        <3>1. persistAt' \in Int /\ persistAt < persistAt'
            BY <1>1, <1>4
        <3>2. \A x, y \in Int : x < y => y - 1 \in Int /\ x <= y - 1 /\ (y - 1) - x + 1 = y - x
            OBVIOUS
        <3>3. persistAt \in Int
            BY <1>1
        <3>4. /\ persistAt' - 1 \in Int /\ persistAt <= persistAt' - 1
              /\ (persistAt' - 1) - persistAt + 1 = persistAt' - persistAt
            BY <3>1, <3>2, <3>3
        <3>5. QED
            BY <2>1, <3>3, <3>4
    <2>3. /\ IsFiniteSet(persistAt .. last)
          /\ Cardinality(persistAt .. last) = last - persistAt + 1
        BY <2>2, FS_Interval
    <2>4. QED
        BY <1>4, <1>5, <2>1, <2>2, <2>3
<1>7. holding' \in {{}} \cup {{p} : p \in persistAt .. persistAt' - 1}
    BY <1>3
<1>8. UNCHANGED <<busVars, alarmVars, queue, writerVars, dbVars>>
    BY <1>3 DEF PersistLagged
<1>9. QED
    BY <1>3, <1>4, <1>5, <1>6, <1>7, <1>8, ForwarderStep

-----------------------------------------------------------------------------
(* Into the database. *)

(* The first batch and the others.                                         *)
LEMMA FirstBatch ==
    ASSUME IInv, pending # <<>>
    PROVE  /\ Head(pending) \in Seq(Positions) \ {<<>>} /\ First = Range(Head(pending))
           /\ Sorted(Head(pending)) /\ First \subseteq InMemory
           /\ Below(First, InMemory \ First)
           /\ Tail(pending) \in Seq(Seq(Positions) \ {<<>>})
           /\ Len(Tail(pending)) < Len(pending) /\ Len(pending) \in Nat
           /\ Len(Tail(pending)) \in Nat
           /\ \A i \in DOMAIN Tail(pending) :
                 i \in Nat /\ i + 1 \in DOMAIN pending /\ Tail(pending)[i] = pending[i + 1]
           /\ UNION {Range(Tail(pending)[i]) : i \in DOMAIN Tail(pending)} = Unwritten \ First
<1> DEFINE T == Seq(Positions) \ {<<>>}
           rest == Tail(pending)
           held == UNION {Range(rest[i]) : i \in DOMAIN rest}
<1>1. pending \in Seq(T)
    BY Typed DEF IInv
<1> HIDE DEF T
<1>2. /\ Head(pending) = pending[1] /\ pending[1] \in T /\ 1 \in DOMAIN pending
      /\ rest \in Seq(T) /\ Len(rest) < Len(pending) /\ Len(pending) \in Nat /\ Len(rest) \in Nat
      /\ \A i \in DOMAIN rest :
            i \in Nat /\ i # 0 /\ i + 1 \in DOMAIN pending /\ rest[i] = pending[i + 1]
      /\ \A i \in DOMAIN pending : i = 1 \/ (i - 1 \in DOMAIN rest /\ rest[i - 1] = pending[i])
    <2>1. /\ Head(pending) = pending[1] /\ pending[1] \in T /\ 1 \in DOMAIN pending
          /\ rest \in Seq(T) /\ Len(rest) = Len(pending) - 1
          /\ Len(pending) \in Nat /\ Len(rest) \in Nat
          /\ DOMAIN rest = 1 .. Len(pending) - 1 /\ DOMAIN pending = 1 .. Len(pending)
          /\ \A i \in 1 .. Len(pending) - 1 : rest[i] = pending[i + 1]
        BY <1>1
    <2> HIDE DEF rest
    <2>2. \A i \in DOMAIN rest :
              i \in Nat /\ i # 0 /\ i + 1 \in DOMAIN pending /\ rest[i] = pending[i + 1]
        BY <2>1
    <2>3. ASSUME NEW i \in DOMAIN pending
          PROVE  i = 1 \/ (i - 1 \in DOMAIN rest /\ rest[i - 1] = pending[i])
        <3>1. i # 1 => i - 1 \in 1 .. Len(pending) - 1 /\ (i - 1) + 1 = i
            BY <2>1
        <3>2. QED
            BY <2>1, <3>1
    <2>4. QED
        BY <2>1, <2>2, <2>3
<1> HIDE DEF rest
<1>3. First = Range(pending[1]) /\ First \subseteq Unwritten
    BY <1>2 DEF First, Unwritten
<1>4. Below(First, held)
    <2>1. \A i \in DOMAIN rest : 1 < i + 1
        BY <1>2
    <2>2. \A i \in DOMAIN rest : Below(Range(pending[1]), Range(pending[i + 1]))
        BY <1>2, <2>1 DEF IInv, InOrder
    <2>3. QED
        BY <1>2, <1>3, <2>2 DEF Below
<1>5. Unwritten = First \cup held
    <2>1. held \subseteq Unwritten
        BY <1>2 DEF Unwritten
    <2>2. Unwritten \subseteq First \cup held
        BY <1>2, <1>3 DEF Unwritten
    <2>3. QED
        BY <1>3, <2>1, <2>2
<1>6. First \cap held = {}
    <2>1. \A p \in First : p \in Nat
        BY <1>2, <1>3, Typed, RangeType DEF IInv, T
    <2>2. \A p \in First : p < p => FALSE
        BY <2>1
    <2>3. QED
        BY <1>4, <2>2 DEF Below
<1>7. InMemory = First \cup held \cup Range(batch) \cup Range(queue) \cup holding
    BY <1>5 DEF InMemory, Unwritten
<1>8. Below(First, InMemory \ First)
    <2>1. Below(First, Range(batch) \cup Range(queue) \cup holding)
        BY <1>3 DEF IInv, InOrder, Below
    <2>2. QED
        BY <1>4, <1>7, <2>1 DEF Below
<1>9. Sorted(pending[1])
    BY <1>2 DEF IInv, InOrder
<1>10. held = Unwritten \ First
    BY <1>5, <1>6
<1>11. QED
    BY <1>2, <1>3, <1>7, <1>8, <1>9, <1>10 DEF T, rest, held

\* The batches whose rows may be committed next.
Committable(b) == (pending # <<>> /\ b = Head(pending)) \/ b \in stray

(* Such a batch holds messages that the database should have, in order.    *)
LEMMA BatchFacts ==
    ASSUME IInv, NEW b, Committable(b)
    PROVE  /\ b \in Seq(Positions) \ {<<>>} /\ Sorted(b)
           /\ \A p \in Range(b) : p \in Positions /\ Wanted(stage[p]) /\ p < persistAt
           /\ b \in stray => \/ pending # <<>> /\ b = Head(pending)
                             \/ Range(b) \subseteq Stored \/ Range(b) \subseteq 1 .. Began
<1>1. CASE pending # <<>> /\ b = Head(pending)
    <2>1. b \in Seq(Positions) \ {<<>>} /\ Sorted(b) /\ Range(b) \subseteq InMemory
        BY <1>1, FirstBatch
    <2>2. QED
        BY <1>1, <2>1, Placed DEF IInv, Fresh
<1>2. CASE b \in stray
    <2>1. b \in Seq(Positions) \ {<<>>} /\ Range(b) \subseteq Positions
        BY <1>2, Typed, RangeType DEF IInv
    <2>2. /\ Sorted(b) /\ \A p \in Range(b) : Wanted(stage[p])
          /\ \/ pending # <<>> /\ b = Head(pending)
             \/ Range(b) \subseteq Stored \/ Range(b) \subseteq 1 .. Began
        BY <1>2 DEF IInv, StrayPlaced
    <2>3. CASE Range(b) \subseteq Stored
        BY <2>1, <2>2, <2>3 DEF IInv, Frontier
    <2>4. CASE Range(b) \subseteq 1 .. Began
        <3>1. Began \in Nat /\ persistAt \in Nat /\ Began < persistAt
            BY Typed DEF IInv, Fresh
        <3>2. \A p \in 1 .. Began : p < persistAt
            BY <3>1
        <3>3. QED
            BY <2>1, <2>2, <2>4, <3>2
    <2>5. QED
        BY <1>1, <2>2, <2>3, <2>4
<1>3. QED
    BY <1>1, <1>2 DEF Committable

(* It continues the rows, or holds rows and what was lost.                 *)
LEMMA NewOrOld ==
    ASSUME IInv, NEW b, Committable(b)
    PROVE  \/ pending # <<>> /\ b = Head(pending) /\ Below(Stored, InMemory)
           \/ Range(b) \subseteq Stored
           \/ Range(b) \subseteq 1 .. Began /\ Range(b) \subseteq Stored \cup Lost
<1>1. CASE pending # <<>> /\ b = Head(pending)
    BY <1>1 DEF IInv, Frontier, First
<1>2. CASE Range(b) \subseteq Stored
    BY <1>2
<1>3. CASE Range(b) \subseteq 1 .. Began
    <2>1. \A p \in Range(b) : p \in InMemory \cup Stored \cup Lost
        BY BatchFacts, Placed
    <2>2. \A p \in InMemory : Began < p /\ p \in Nat
        BY Placed, Typed DEF IInv, Fresh
    <2>3. Began \in Nat
        BY Typed DEF IInv
    <2>4. \A p \in Range(b) : p \notin InMemory
        BY <1>3, <2>2, <2>3
    <2>5. QED
        BY <1>3, <2>1, <2>4
<1>4. QED
    BY <1>1, <1>2, <1>3, BatchFacts DEF Committable

(* The sample of an alarm in it is stored, comes before it in the batch,   *)
(* or is gone.                                                             *)
LEMMA CauseInBatch ==
    ASSUME IInv, NEW b, Committable(b), NEW k \in DOMAIN b, stage[b[k]].cause # 0
    PROVE  LET cause == stage[b[k]].cause
           IN  \/ cause \in Stored
               \/ \E l \in DOMAIN b : l < k /\ b[l] = cause
               \/ Gone(cause)
<1> DEFINE p == b[k]
           cause == stage[p].cause
<1>1. /\ b \in Seq(Positions) /\ Sorted(b) /\ p \in Positions /\ Wanted(stage[p]) /\ p < persistAt
      /\ p \in Range(b)
    <2>1. p \in Range(b) /\ b \in Seq(Positions) /\ Sorted(b)
        BY BatchFacts DEF Range
    <2>2. QED
        BY <2>1, BatchFacts
<1>2. /\ cause \in 1 .. p - 1 /\ Wanted(stage[cause])
      /\ \A s \in Range(starts) : s < p => s < cause
    BY <1>1 DEF IInv, CauseBefore
<1>3. /\ Positions = 1 .. Len(stage) /\ Len(stage) \in Nat /\ persistAt \in Nat
      /\ Began \in Nat /\ Began \in Range(starts) /\ table \in Seq(Positions)
    BY Typed DEF IInv
<1> HIDE DEF p, cause
<1>4. cause \in Positions /\ cause < p /\ cause < persistAt /\ cause \in Nat /\ p \in Nat
    BY <1>1, <1>2, <1>3
<1>5. cause \in InMemory \cup Stored \cup Lost
    BY <1>2, <1>4, Placed
<1>6. ASSUME cause \in Range(b) PROVE \E l \in DOMAIN b : l < k /\ b[l] = cause
    <2>1. PICK l \in DOMAIN b : b[l] = cause
        BY <1>6 DEF Range
    <2>2. l \in Nat /\ k \in Nat
        BY <1>1
    <2>3. l # k
        BY <1>4, <2>1 DEF p
    <2>4. ~(k < l)
        <3>1. k < l => b[k] < b[l]
            BY <1>1 DEF Sorted
        <3>2. ~(p < cause)
            BY <1>4
        <3>3. QED
            BY <2>1, <3>1, <3>2 DEF p
    <2>5. QED
        BY <2>1, <2>2, <2>3, <2>4
<1>7. CASE p \in Stored
    <2>1. PICK i \in DOMAIN table : table[i] = p
        BY <1>7 DEF Stored, Range
    <2>2. Gone(cause) \/ \E j \in 1 .. i - 1 : table[j] = cause
        BY <2>1 DEF IInv, CauseStored, p, cause
    <2>3. \A j \in 1 .. i - 1 : j \in DOMAIN table
        BY <1>3
    <2>4. QED
        BY <2>2, <2>3 DEF Stored, Range, p, cause
<1>8. CASE p \notin Stored /\ pending # <<>> /\ b = Head(pending)
    <2>1. /\ p \in First /\ First = Range(b) /\ First \subseteq InMemory
          /\ Below(First, InMemory \ First)
        BY <1>1, <1>8, FirstBatch
    <2>2. Began < p
        BY <2>1 DEF IInv, Fresh
    <2>3. Began < cause
        BY <1>2, <1>3, <2>2
    <2>4. cause \in InMemory => cause \in Range(b)
        <3>1. cause \in InMemory \ First => p < cause
            BY <2>1 DEF Below
        <3>2. QED
            BY <1>4, <2>1, <3>1
    <2>5. cause \in Lost => Gone(cause)
        <3> SUFFICES ASSUME cause \in Lost, NEW c \in stray, cause \in Range(c) PROVE FALSE
            BY DEF Gone
        <3>1. cause \notin InMemory /\ cause \notin Stored
            BY Placed
        <3>2. \/ pending # <<>> /\ c = Head(pending)
              \/ Range(c) \subseteq Stored \/ Range(c) \subseteq 1 .. Began
            BY DEF IInv, StrayPlaced
        <3>3. cause \notin 1 .. Began
            BY <1>3, <1>4, <2>3
        <3>4. QED
            BY <1>8, <2>1, <3>1, <3>2, <3>3
    <2>6. QED
        BY <1>5, <1>6, <2>4, <2>5 DEF p, cause
<1>9. CASE p \notin Stored /\ b \in stray /\ ~(pending # <<>> /\ b = Head(pending))
    <2>1. Range(b) \subseteq 1 .. Began
        BY <1>1, <1>9 DEF IInv, StrayPlaced
    <2>2. cause \notin InMemory
        <3>1. p <= Began
            BY <1>1, <1>3, <2>1
        <3>2. cause < Began
            BY <1>3, <1>4, <3>1
        <3>3. QED
            BY <1>3, <1>4, <3>2 DEF IInv, Fresh
    <2>3. cause \in Lost => Gone(cause) \/ cause \in Range(b)
        <3> SUFFICES ASSUME cause \in Lost, NEW c \in stray, cause \in Range(c),
                            cause \notin Range(b)
                     PROVE  FALSE
            BY DEF Gone
        <3>1. cause \notin Stored
            BY Placed
        <3>2. PICK s \in Range(starts) : Divides(s, b, c) \/ Divides(s, c, b)
            BY <1>1, <1>9, <3>1 DEF IInv, StraysApart
        <3>3. s \in Nat
            BY Typed, RangeType DEF IInv
        <3>4. CASE Divides(s, b, c)
            <4>1. p <= s /\ s < cause
                BY <1>1, <3>4 DEF Divides
            <4>2. QED
                BY <1>4, <3>3, <4>1
        <3>5. CASE Divides(s, c, b)
            <4>1. cause <= s /\ s < p
                BY <1>1, <3>5 DEF Divides
            <4>2. s < cause
                BY <1>2, <4>1
            <4>3. QED
                BY <1>4, <3>3, <4>1, <4>2
        <3>6. QED
            BY <3>2, <3>4, <3>5
    <2>4. QED
        BY <1>5, <1>6, <2>2, <2>3 DEF p, cause
<1>10. QED
    BY <1>7, <1>8, <1>9 DEF Committable

(* What is gone stays gone when a batch is committed.                      *)
LEMMA GoneForGood ==
    ASSUME IInv, NEW b, Committable(b), Lost' = Lost \ Range(b), stray' \subseteq stray,
           NEW c, Gone(c)
    PROVE  Gone(c)'
<1>1. c \notin Range(b)
    <2>1. CASE b \in stray
        BY <2>1 DEF Gone
    <2>2. CASE pending # <<>> /\ b = Head(pending)
        BY <2>2, FirstBatch, Placed DEF Gone
    <2>3. QED
        BY <2>1, <2>2 DEF Committable
<1>2. QED
    BY <1>1 DEF Gone

(* The rows of a batch are committed; the writer may or may not hear of    *)
(* it.  They join the table behind the others and are not lost any more.   *)
LEMMA CommitStep ==
    ASSUME IInv, NEW b, Committable(b), table' = table \o b, stray' \subseteq stray,
           \/ pending' = pending
           \/ pending # <<>> /\ b = Head(pending) /\ pending' = Tail(pending),
           UNCHANGED <<rawQ, stage, starts, alarmAt, judging, persistAt, holding, dbDrop,
                       queue, batch, up>>,
           backoff' \in BOOLEAN
    PROVE  IInv' /\ Lost' = Lost \ Range(b) /\ Stored' = Stored \cup Range(b)
<1>1. /\ table \in Seq(Positions) /\ Stored \subseteq Positions
      /\ pending \in Seq(Seq(Positions) \ {<<>>})
      /\ stray \subseteq Seq(Positions) \ {<<>>}
      /\ Positions = 1 .. Len(stage) /\ Len(stage) \in Nat /\ Began \in Nat
    BY Typed DEF IInv
<1>2. /\ b \in Seq(Positions) /\ Sorted(b)
      /\ \A p \in Range(b) : p \in Positions /\ Wanted(stage[p]) /\ p < persistAt
    BY BatchFacts
<1>3. /\ table' \in Seq(Positions) /\ Stored' = Stored \cup Range(b)
      /\ Len(table') = Len(table) + Len(b) /\ Len(table) \in Nat /\ Len(b) \in Nat
      /\ \A i \in 1 .. Len(table) : table'[i] = table[i]
      /\ \A i \in 1 .. Len(b) : table'[Len(table) + i] = b[i]
    BY <1>1, <1>2, Concatenation DEF Stored
<1>4. Positions' = Positions /\ Began' = Began
    BY DEF Positions, Began
<1>5. pending' = Tail(pending) /\ pending # <<>> /\ b = Head(pending)
          => /\ Unwritten' = Unwritten \ First /\ First = Range(b) /\ First \subseteq InMemory
             /\ \A p \in First : p < p => FALSE
    <2>1. ASSUME pending' = Tail(pending), pending # <<>>, b = Head(pending)
          PROVE  Unwritten' = Unwritten \ First /\ First = Range(b) /\ First \subseteq InMemory
        BY <2>1, FirstBatch DEF Unwritten
    <2>2. QED
        BY <1>1, <2>1, Placed
<1>6. /\ InMemory' \subseteq InMemory /\ InMemory \subseteq InMemory' \cup Range(b)
      /\ pending' = pending => InMemory' = InMemory /\ First' = First
      /\ pending' # pending => InMemory' \subseteq InMemory \ First
    <2>1. CASE pending' = pending
        BY <2>1 DEF InMemory, First
    <2>2. CASE pending # <<>> /\ b = Head(pending) /\ pending' = Tail(pending)
        <3>1. InMemory' = (Unwritten \ First) \cup Range(batch) \cup Range(queue) \cup holding
            BY <1>5, <2>2 DEF InMemory, Unwritten
        <3>2. InMemory = Unwritten \cup Range(batch) \cup Range(queue) \cup holding
            BY DEF InMemory, Unwritten
        <3>3. First \subseteq Unwritten
            BY <2>2, FirstBatch, <1>1 DEF First, Unwritten
        <3>4. \A p \in First : p \notin Range(batch) \cup Range(queue) \cup holding
            BY <1>5, <2>2, <3>3 DEF IInv, InOrder, Below
        <3>5. QED
            BY <1>5, <2>2, <3>1, <3>2, <3>4
    <2>3. QED
        BY <2>1, <2>2
<1>7. Lost' = Lost \ Range(b)
    BY <1>3, <1>6 DEF Lost, Stored
<1>8. TypeOK'
    <2>1. pending' \in Seq(Seq(Positions) \ {<<>>}) /\ Len(pending') <= 2
        <3>1. Len(pending) <= 2
            BY DEF IInv, TypeOK
        <3>2. CASE pending # <<>> /\ pending' = Tail(pending)
            <4>1. /\ Tail(pending) \in Seq(Seq(Positions) \ {<<>>})
                  /\ Len(Tail(pending)) < Len(pending) /\ Len(pending) \in Nat
                  /\ Len(Tail(pending)) \in Nat
                BY <3>2, FirstBatch
            <4>2. Len(Tail(pending)) <= 2
                BY <3>1, <4>1
            <4>3. QED
                BY <3>2, <4>1, <4>2
        <3>3. QED
            BY <1>1, <3>1, <3>2
    <2>2. QED
        BY <1>1, <1>3, <1>4, <2>1 DEF IInv, TypeOK
<1>9. InOrder'
    <2>1. Unwritten' \subseteq Unwritten
        BY <1>5 DEF Unwritten
    <2>2. /\ \A i \in DOMAIN pending' : Sorted(pending'[i])
          /\ \A i, j \in DOMAIN pending' : i < j => Below(Range(pending'[i]), Range(pending'[j]))
        <3>1. CASE pending' = pending
            BY <3>1 DEF IInv, InOrder
        <3>2. CASE pending # <<>> /\ pending' = Tail(pending)
            <4>1. \A i \in DOMAIN pending' :
                     i \in Nat /\ i + 1 \in DOMAIN pending /\ pending'[i] = pending[i + 1]
                BY <3>2, FirstBatch
            <4>2. \A i, j \in DOMAIN pending' : i < j => i + 1 < j + 1
                BY <4>1
            <4>3. QED
                BY <4>1, <4>2 DEF IInv, InOrder
        <3>3. QED
            BY <3>1, <3>2
    <2>3. Below(Unwritten', Range(batch) \cup Range(queue) \cup holding)
        BY <2>1 DEF IInv, InOrder, Below
    <2>4. QED
        BY <2>2, <2>3 DEF IInv, InOrder
<1>10. Fresh'
    BY <1>4, <1>6 DEF IInv, Fresh
<1>11. Frontier'
    <2>1. \A p \in Stored' : p < persistAt
        BY <1>2, <1>3 DEF IInv, Frontier
    <2>2. Below(Stored, InMemory \ First)
        BY DEF IInv, Frontier, Below
    <2>3. Below(Range(b), InMemory \ First)
        <3>1. CASE pending # <<>> /\ b = Head(pending)
            BY <3>1, FirstBatch
        <3>2. CASE Range(b) \subseteq Stored
            BY <2>2, <3>2 DEF Below
        <3>3. CASE Range(b) \subseteq 1 .. Began
            <4>1. \A p \in 1 .. Began, q \in InMemory : p < q
                BY <1>1, Placed DEF IInv, Fresh
            <4>2. QED
                BY <3>3, <4>1 DEF Below
        <3>4. QED
            BY <3>1, <3>2, <3>3, NewOrOld
    <2>4. Below(Stored', InMemory \ First)
        BY <1>3, <2>2, <2>3 DEF Below
    <2>5. CASE pending' # pending
        BY <1>6, <2>1, <2>4, <2>5 DEF Frontier, Below
    <2>6. CASE pending' = pending /\ First \subseteq Stored'
        BY <1>6, <2>1, <2>4, <2>6 DEF Frontier
    <2>7. CASE pending' = pending /\ ~(First \subseteq Stored')
        <3>1. Below(Stored, InMemory)
            BY <1>3, <2>7 DEF IInv, Frontier
        <3>2. ~(pending # <<>> /\ b = Head(pending))
            BY <1>3, <2>7, FirstBatch
        <3>3. Below(Range(b), InMemory)
            <4>1. CASE Range(b) \subseteq Stored
                BY <3>1, <4>1 DEF Below
            <4>2. CASE Range(b) \subseteq 1 .. Began
                <5>1. \A p \in 1 .. Began, q \in InMemory : p < q
                    BY <1>1, Placed DEF IInv, Fresh
                <5>2. QED
                    BY <4>2, <5>1 DEF Below
            <4>3. QED
                BY <3>2, <4>1, <4>2, NewOrOld
        <3>4. QED
            BY <1>3, <1>6, <2>1, <2>7, <3>1, <3>3 DEF Frontier, Below
    <2>8. QED
        BY <2>5, <2>6, <2>7
<1>12. StrayPlaced'
    <2> SUFFICES ASSUME NEW c \in stray'
                 PROVE  /\ Sorted(c) /\ \A p \in Range(c) : Wanted(stage[p])
                        /\ \/ pending' # <<>> /\ c = Head(pending')
                           \/ Range(c) \subseteq Stored'
                           \/ Range(c) \subseteq 1 .. Began
        BY <1>4 DEF StrayPlaced
    <2>1. /\ Sorted(c) /\ \A p \in Range(c) : Wanted(stage[p])
          /\ \/ pending # <<>> /\ c = Head(pending)
             \/ Range(c) \subseteq Stored \/ Range(c) \subseteq 1 .. Began
        BY DEF IInv, StrayPlaced
    <2>2. pending' = pending \/ (c = Head(pending) => Range(c) \subseteq Stored')
        BY <1>3
    <2>3. QED
        BY <1>3, <2>1, <2>2
<1>13. StraysApart'
    BY <1>3 DEF IInv, StraysApart
<1>14. CauseBefore'
    BY <1>4 DEF IInv, CauseBefore
<1>15. CauseStored'
    <2> DEFINE n == Len(table)
    <2> SUFFICES ASSUME NEW i \in DOMAIN table', NEW cause, cause = stage[table'[i]].cause,
                        cause # 0
                 PROVE  Gone(cause)' \/ \E j \in 1 .. i - 1 : table'[j] = cause
        BY DEF CauseStored
    <2>1. DOMAIN table' = 1 .. n + Len(b) /\ DOMAIN b = 1 .. Len(b) /\ DOMAIN table = 1 .. n
        BY <1>1, <1>2, <1>3
    <2>2. Gone(cause) => Gone(cause)'
        BY <1>7, GoneForGood
    <2> HIDE DEF n
    <2>3. CASE i \in 1 .. n
        <3>1. i \in DOMAIN table /\ table'[i] = table[i]
            BY <1>3, <2>1, <2>3 DEF n
        <3>2. Gone(cause) \/ \E j \in 1 .. i - 1 : table[j] = cause
            BY <3>1 DEF IInv, CauseStored
        <3>3. \A j \in 1 .. i - 1 : j \in 1 .. n
            BY <1>3, <2>3 DEF n
        <3>4. QED
            BY <1>3, <2>2, <3>2, <3>3 DEF n
    <2>4. CASE i \notin 1 .. n
        <3>1. PICK k \in DOMAIN b : i = n + k
            <4>1. i - n \in 1 .. Len(b) /\ n + (i - n) = i
                BY <1>3, <2>1, <2>4 DEF n
            <4>2. QED
                BY <2>1, <4>1
        <3>2. table'[i] = b[k]
            BY <1>3, <2>1, <3>1 DEF n
        <3>3. \/ cause \in Stored
              \/ \E l \in DOMAIN b : l < k /\ b[l] = cause
              \/ Gone(cause)
            BY <3>2, CauseInBatch
        <3>4. CASE cause \in Stored
            <4>1. PICK j \in DOMAIN table : table[j] = cause
                BY <3>4 DEF Stored, Range
            <4>2. j \in 1 .. i - 1
                BY <1>3, <2>1, <3>1 DEF n
            <4>3. QED
                BY <1>3, <2>1, <4>1, <4>2 DEF n
        <3>5. ASSUME NEW l \in DOMAIN b, l < k, b[l] = cause
              PROVE  \E j \in 1 .. i - 1 : table'[j] = cause
            <4>1. n + l \in 1 .. i - 1 /\ table'[n + l] = b[l]
                BY <1>3, <2>1, <3>1, <3>5 DEF n
            <4>2. QED
                BY <3>5, <4>1
        <3>6. QED
            BY <2>2, <3>3, <3>4, <3>5
    <2>5. QED
        BY <2>3, <2>4
<1>16. Counted'
    <2>1. LostNow' \subseteq LostNow
        BY <1>4, <1>7 DEF LostNow
    <2>2. IsFiniteSet(LostNow) /\ Cardinality(LostNow) <= dbDrop /\ dbDrop <= persistAt - 1 - Began
        BY DEF IInv, Counted
    <2>3. IsFiniteSet(LostNow') /\ Cardinality(LostNow') <= Cardinality(LostNow)
        BY <2>1, <2>2, FS_Subset
    <2>4. Cardinality(LostNow') \in Nat /\ Cardinality(LostNow) \in Nat /\ dbDrop \in Nat
        BY <2>2, <2>3, FS_CardinalityType, Typed DEF IInv
    <2>5. Cardinality(LostNow') <= dbDrop
        BY <2>2, <2>3, <2>4
    <2>6. QED
        BY <1>4, <2>2, <2>3, <2>5 DEF Counted
<1>17. QED
    BY <1>3, <1>7, <1>8, <1>9, <1>10, <1>11, <1>12, <1>13, <1>14, <1>15, <1>16 DEF IInv

(* A write that runs on after its timeout, and one that is cancelled: how  *)
(* the statements that outlive their writer relate to one another.         *)
LEMMA StraysStayApart ==
    ASSUME IInv, NEW more, more \subseteq {b \in {Head(pending)} : pending # <<>>},
           stray' \subseteq stray \cup more
    PROVE  /\ \A b \in stray' \ stray :
                 pending # <<>> /\ b = Head(pending) /\ Sorted(b)
                     /\ b \in Seq(Positions) \ {<<>>}
                     /\ \A p \in Range(b) : Wanted(stage[p]) /\ Began < p
           /\ \A b, c \in stray' :
                 \/ b = c \/ Range(b) \subseteq Stored \/ Range(c) \subseteq Stored
                 \/ \E s \in Range(starts) : Divides(s, b, c) \/ Divides(s, c, b)
           /\ \A c : c \in Lost /\ (\A b \in stray : c \notin Range(b))
                         => \A b \in stray' : c \notin Range(b)
<1>1. ASSUME NEW b \in stray' \ stray
      PROVE  /\ pending # <<>> /\ b = Head(pending) /\ Sorted(b)
             /\ b \in Seq(Positions) \ {<<>>} /\ Range(b) \subseteq InMemory
    BY FirstBatch
<1>2. \A b \in stray' \ stray : \A p \in Range(b) : Wanted(stage[p]) /\ Began < p
    BY <1>1 DEF IInv, Fresh
<1>3. Began \in Range(starts) /\ Began \in Nat
    BY Typed DEF IInv
<1>4. ASSUME NEW b \in stray' \ stray, NEW c \in stray
      PROVE  \/ b = c \/ Range(c) \subseteq Stored
             \/ \E s \in Range(starts) : Divides(s, c, b)
    <2>1. pending # <<>> /\ b = Head(pending)
        BY <1>1
    <2>2. \/ c = Head(pending) \/ Range(c) \subseteq Stored \/ Range(c) \subseteq 1 .. Began
        BY DEF IInv, StrayPlaced
    <2>3. CASE Range(c) \subseteq 1 .. Began
        <3>1. \A p \in 1 .. Began : p <= Began
            BY <1>3
        <3>2. Divides(Began, c, b)
            BY <1>2, <2>3, <3>1 DEF Divides
        <3>3. QED
            BY <1>3, <3>2
    <2>4. QED
        BY <2>1, <2>2, <2>3
<1>5. ASSUME NEW b \in stray', NEW c \in stray'
      PROVE  \/ b = c \/ Range(b) \subseteq Stored \/ Range(c) \subseteq Stored
             \/ \E s \in Range(starts) : Divides(s, b, c) \/ Divides(s, c, b)
    <2>1. CASE b \in stray /\ c \in stray
        BY <2>1 DEF IInv, StraysApart
    <2>2. CASE b \notin stray /\ c \in stray
        BY <1>4, <2>2
    <2>3. CASE b \in stray /\ c \notin stray
        BY <1>4, <2>3
    <2>4. CASE b \notin stray /\ c \notin stray
        BY <1>1, <2>4
    <2>5. QED
        BY <2>1, <2>2, <2>3, <2>4
<1>6. ASSUME NEW c \in Lost, \A b \in stray : c \notin Range(b), NEW b \in stray'
      PROVE  c \notin Range(b)
    BY <1>1, <1>6, Placed
<1>7. QED
    BY <1>1, <1>2, <1>5, <1>6

(* Nothing else changes when a write times out or a statement is cancelled.*)
LEMMA StrayStep ==
    ASSUME IInv, NEW more, more \subseteq {b \in {Head(pending)} : pending # <<>>},
           stray' \subseteq stray \cup more, backoff' \in BOOLEAN,
           UNCHANGED <<rawQ, stage, starts, alarmAt, judging, persistAt, holding, dbDrop,
                       queue, batch, pending, up, table>>
    PROVE  IInv' /\ Lost' = Lost
<1>1. InMemory' = InMemory
    BY DEF InMemory
<1>2. Lost' = Lost
    BY <1>1, LostKept
<1>3. Began' = Began /\ Positions' = Positions /\ Stored' = Stored /\ First' = First
      /\ Unwritten' = Unwritten
    BY DEF Began, Positions, Stored, First, Unwritten
<1>4. \A b \in stray' \ stray :
          pending # <<>> /\ b = Head(pending) /\ Sorted(b)
              /\ b \in Seq(Positions) \ {<<>>}
              /\ \A p \in Range(b) : Wanted(stage[p]) /\ Began < p
    BY StraysStayApart
<1>5. TypeOK'
    <2>1. stray \subseteq Seq(Positions) \ {<<>>}
        BY Typed DEF IInv
    <2>2. stray' \subseteq Seq(Positions) \ {<<>>}
        BY <1>4, <2>1
    <2>3. QED
        BY <1>3, <2>2 DEF IInv, TypeOK
<1>6. InOrder'
    BY <1>3 DEF IInv, InOrder
<1>7. Fresh'
    BY <1>1, <1>3 DEF IInv, Fresh
<1>8. Frontier'
    BY <1>1, <1>3 DEF IInv, Frontier
<1>9. StrayPlaced'
    BY <1>3, <1>4 DEF IInv, StrayPlaced
<1>10. StraysApart'
    BY <1>3, StraysStayApart DEF StraysApart
<1>11. CauseBefore'
    BY <1>3 DEF IInv, CauseBefore
<1>12. CauseStored'
    <2>1. \A c : Gone(c) => Gone(c)'
        BY <1>2, StraysStayApart DEF Gone
    <2>2. QED
        BY <2>1 DEF IInv, CauseStored
<1>13. Counted'
    BY <1>2, <1>3 DEF IInv, Counted, LostNow
<1>14. QED
    BY <1>2, <1>5, <1>6, <1>7, <1>8, <1>9, <1>10, <1>11, <1>12, <1>13 DEF IInv

(* A new run of the collector: the memory is gone, but a write under way   *)
(* may still be committed.                                                 *)
LEMMA RestartStep == ASSUME IInv, Restart PROVE IInv' /\ Lost \subseteq Lost'
<1> DEFINE n == Len(stage)
           more == {b \in {Head(pending)} : pending # <<>>}
<1>1. /\ n \in Nat /\ Positions = 1 .. n /\ DOMAIN stage = Positions /\ stage \in Seq(Messages)
      /\ table \in Seq(Positions) /\ Stored \subseteq Positions
      /\ stray \subseteq Seq(Positions) \ {<<>>}
      /\ starts \in Seq(0 .. n) /\ starts # <<>>
      /\ persistAt \in 1 .. n + 1
    BY Typed DEF IInv
<1>2. /\ starts' = Append(starts, n) /\ rawQ' = EmptyChannel
      /\ alarmAt' = n + 1 /\ persistAt' = n + 1
      /\ judging' = {} /\ holding' = {} /\ dbDrop' = 0
      /\ queue' = <<>> /\ batch' = <<>> /\ pending' = <<>> /\ backoff' = FALSE
      /\ UNCHANGED <<stage, up, table>>
    BY DEF Restart
<1>3. stray' \subseteq stray \cup more
    BY DEF Restart, Writing
<1>4. /\ \A b \in stray' \ stray :
             pending # <<>> /\ b = Head(pending) /\ Sorted(b)
                 /\ b \in Seq(Positions) \ {<<>>}
                 /\ \A p \in Range(b) : Wanted(stage[p]) /\ Began < p
      /\ \A b, c \in stray' :
             \/ b = c \/ Range(b) \subseteq Stored \/ Range(c) \subseteq Stored
             \/ \E s \in Range(starts) : Divides(s, b, c) \/ Divides(s, c, b)
      /\ \A c : c \in Lost /\ (\A b \in stray : c \notin Range(b))
                    => \A b \in stray' : c \notin Range(b)
    BY <1>3, StraysStayApart
<1>5. n \in 0 .. n
    BY <1>1
<1>6. /\ starts' \in Seq(0 .. n) /\ starts' # <<>> /\ Range(starts') = Range(starts) \cup {n}
      /\ Len(starts') = Len(starts) + 1 /\ Len(starts) \in Nat
    BY <1>1, <1>2, <1>5, AppendTo
<1>7. Began' = n
    BY <1>1, <1>2 DEF Began
<1>8. Positions' = Positions /\ Stored' = Stored
    BY <1>2 DEF Positions, Stored
<1>9. Unwritten' = {} /\ First' = {} /\ InMemory' = {} /\ Range(queue') = {} /\ Range(batch') = {}
      /\ Sorted(queue') /\ Sorted(batch')
    <2>1. DOMAIN pending' = {}
        BY <1>2
    <2>2. QED
        BY <1>2, <2>1, EmptySequence DEF Unwritten, First, InMemory
<1>10. Lost' = {p \in 1 .. n : Wanted(stage[p])} \ Stored
    BY <1>1, <1>2, <1>9 DEF Lost, Stored
<1>11. Lost \subseteq Lost'
    <2>1. \A p \in Lost : Wanted(stage[p]) /\ p \in 1 .. n /\ p \notin Stored
        BY <1>1, Typed, Placed DEF IInv
    <2>2. QED
        BY <1>10, <2>1
<1>12. \A b \in stray' : /\ b \in Seq(Positions) \ {<<>>} /\ Sorted(b)
                         /\ Range(b) \subseteq Positions
                         /\ \A p \in Range(b) : Wanted(stage[p])
    <2>1. \A b \in stray' : b \in Seq(Positions) \ {<<>>}
        BY <1>1, <1>4
    <2>2. QED
        BY <1>4, <2>1, RangeType DEF IInv, StrayPlaced
<1> HIDE DEF n, more
<1>13. TypeOK'
    <2>1. rawQ' \in Receivers(Kinds \cup {"nonfinite"}, BusCap)
        <3>1. BusCap \in Nat
            BY PipelineAssumption
        <3>2. 0 <= BusCap
            BY <3>1
        <3>3. EmptyChannel.queue \in Seq(Kinds \cup {"nonfinite"}) /\ Len(EmptyChannel.queue) = 0
            BY EmptySequence DEF EmptyChannel
        <3>4. QED
            BY <1>2, <3>2, <3>3 DEF Receivers, EmptyChannel
    <2>2. /\ {alarmAt', persistAt'} \subseteq 1 .. Len(stage') + 1
          /\ dbDrop' \in 0 .. Len(stage')
        BY <1>1, <1>2 DEF n
    <2>3. /\ queue' \in Seq(Positions) /\ batch' \in Seq(Positions)
          /\ pending' \in Seq(Seq(Positions) \ {<<>>})
        BY <1>2, EmptySequence
    <2>4. Len(queue') <= QueueCap /\ Len(batch') < BatchSize /\ Len(pending') <= 2
        BY <1>2, PipelineAssumption
    <2>5. stray' \subseteq Seq(Positions) \ {<<>>}
        BY <1>12
    <2>6. up' \in BOOLEAN /\ stage' \in Seq(Messages)
        BY <1>1, <1>2 DEF IInv, TypeOK
    <2>7. starts' \in Seq(0 .. Len(stage')) /\ starts' # <<>>
        BY <1>2, <1>6 DEF n
    <2>8. QED
        BY <1>1, <1>2, <1>8, <2>1, <2>2, <2>3, <2>4, <2>5, <2>6, <2>7 DEF TypeOK
<1>14. InOrder'
    <2>1. DOMAIN pending' = {}
        BY <1>2
    <2>2. QED
        BY <1>2, <1>9, <2>1 DEF InOrder, Below
<1>15. Fresh'
    <2>1. \A s \in Range(starts) : s <= n
        BY <1>1, RangeType
    <2>2. \A s \in Range(starts') : s <= n
        BY <1>1, <1>6, <2>1
    <2>3. n < n + 1
        BY <1>1
    <2>4. QED
        BY <1>2, <1>7, <1>9, <2>2, <2>3 DEF Fresh
<1>16. Frontier'
    <2>1. \A p \in Stored : p < n + 1
        BY <1>1
    <2>2. QED
        BY <1>2, <1>8, <1>9, <2>1 DEF Frontier, Below
<1>17. StrayPlaced'
    BY <1>1, <1>2, <1>7, <1>12 DEF StrayPlaced
<1>18. StraysApart'
    BY <1>4, <1>6, <1>8 DEF StraysApart
<1>19. CauseBefore'
    <2>1. \A p \in Positions : ~(n < p)
        BY <1>1
    <2>2. QED
        BY <1>2, <1>6, <1>8, <2>1 DEF IInv, CauseBefore
<1>20. CauseStored'
    <2>1. \A c : Gone(c) => Gone(c)'
        BY <1>4, <1>11 DEF Gone
    <2>2. QED
        BY <1>2, <2>1 DEF IInv, CauseStored
<1>21. Counted'
    <2>1. LostNow' = {}
        <3>1. \A p \in 1 .. n : ~(n < p)
            BY <1>1
        <3>2. \A p : p \in LostNow' => p \in 1 .. n /\ p > n
            BY <1>7, <1>10 DEF LostNow
        <3>3. QED
            BY <3>1, <3>2
    <2>2. IsFiniteSet({}) /\ Cardinality({}) = 0
        BY FS_EmptySet
    <2>3. dbDrop' <= persistAt' - 1 - Began'
        BY <1>1, <1>2, <1>7
    <2>4. QED
        BY <1>2, <2>1, <2>2, <2>3 DEF Counted
<1>22. QED
    BY <1>11, <1>13, <1>14, <1>15, <1>16, <1>17, <1>18, <1>19, <1>20, <1>21 DEF IInv

-----------------------------------------------------------------------------
(* Every step. *)

(* The filter's receiver of the raw bus.                                   *)
LEMMA RawBus ==
    ASSUME NEW S, NEW cap \in Nat \ {0}, NEW ch \in Receivers(S, cap)
    PROVE  /\ \A m \in S : Sent(ch, cap, m) \in Receivers(S, cap)
           /\ HasMessage(ch) => Received(ch) \in Receivers(S, cap) /\ Head(ch.queue) \in S
           /\ LagReported(ch) \in Receivers(S, cap)
<1>1. ch.queue \in Seq(S) /\ ch.lagged \in BOOLEAN /\ Len(ch.queue) <= cap
      /\ ch = [queue |-> ch.queue, lagged |-> ch.lagged]
    BY DEF Receivers
<1>2. ASSUME NEW m \in S PROVE Sent(ch, cap, m) \in Receivers(S, cap)
    <2>1. CASE Len(ch.queue) < cap
        <3>1. Sent(ch, cap, m) = [queue |-> Append(ch.queue, m), lagged |-> ch.lagged]
            BY <1>1, <2>1 DEF Sent
        <3>2. Append(ch.queue, m) \in Seq(S) /\ Len(Append(ch.queue, m)) <= cap
            BY <1>1, <2>1
        <3>3. QED
            BY <1>1, <3>1, <3>2 DEF Receivers
    <2>2. CASE ~(Len(ch.queue) < cap)
        <3>1. Sent(ch, cap, m) = [queue |-> Append(Tail(ch.queue), m), lagged |-> TRUE]
            BY <2>2 DEF Sent
        <3>2. ch.queue # <<>>
            BY <1>1, <2>2
        <3>3. Tail(ch.queue) \in Seq(S) /\ Len(Tail(ch.queue)) = Len(ch.queue) - 1
            BY <1>1, <3>2, HeadAndTail
        <3>4. Append(Tail(ch.queue), m) \in Seq(S) /\ Len(Append(Tail(ch.queue), m)) <= cap
            BY <1>1, <3>3
        <3>5. QED
            BY <3>1, <3>4 DEF Receivers
    <2>3. QED
        BY <2>1, <2>2
<1>3. ASSUME HasMessage(ch) PROVE Received(ch) \in Receivers(S, cap) /\ Head(ch.queue) \in S
    <2>1. /\ Tail(ch.queue) \in Seq(S) /\ Len(Tail(ch.queue)) = Len(ch.queue) - 1
          /\ Head(ch.queue) \in S
        BY <1>1, <1>3, HeadAndTail DEF HasMessage
    <2>2. Len(Tail(ch.queue)) <= cap
        BY <1>1, <2>1
    <2>3. Received(ch) \in Receivers(S, cap)
        BY <2>1, <2>2 DEF Received, Receivers
    <2>4. QED
        BY <2>1, <2>3
<1>4. LagReported(ch) \in Receivers(S, cap)
    BY <1>1 DEF LagReported, Receivers
<1>5. QED
    BY <1>2, <1>3, <1>4

(* The steps in front of the persistence forwarder and those of the        *)
(* database alone: none of them stores, loses or publishes.                *)
LEMMA AsideStep ==
    ASSUME IInv,
           \/ \E kind \in Kinds \cup {"nonfinite"} : PublishRaw(kind)
           \/ Filter /\ Head(rawQ.queue) = "nonfinite"
           \/ FilterLagged \/ AlarmReceive \/ AlarmLagged \/ Judged
           \/ BackoffEnds \/ DatabaseTurns
    PROVE  IInv' /\ Lost' = Lost /\ UNCHANGED <<stage, table>>
<1> DEFINE R == Receivers(Kinds \cup {"nonfinite"}, BusCap)
<1>1. /\ rawQ \in R /\ BusCap \in Nat \ {0}
      /\ {judging} \subseteq {{}} \cup {{p} : p \in Positions}
      /\ backoff \in BOOLEAN /\ up \in BOOLEAN
    BY PipelineAssumption DEF IInv, TypeOK
<1>2. /\ stage \in Seq(Messages) /\ Len(stage) \in Nat /\ Positions = 1 .. Len(stage)
      /\ alarmAt \in 1 .. Len(stage) + 1 /\ Began \in Nat
    BY Typed DEF IInv
<1>3. Began < alarmAt /\ \A p \in judging : Began < p /\ Wanted(stage[p])
    BY DEF IInv, Fresh
<1> HIDE DEF R
<1>4. CASE \E kind \in Kinds \cup {"nonfinite"} : PublishRaw(kind)
    <2>1. rawQ' \in R
        BY <1>1, <1>4, RawBus DEF PublishRaw, R
    <2>2. UNCHANGED <<stage, starts, alarmVars, feedVars, queue, writerVars, dbVars>>
        BY <1>4 DEF PublishRaw
    <2>3. QED
        BY <1>1, <1>2, <1>3, <2>1, <2>2, QuietStep
           DEF R, alarmVars, feedVars, writerVars, dbVars
<1>5. CASE Filter /\ Head(rawQ.queue) = "nonfinite"
    <2>1. rawQ' \in R
        BY <1>1, <1>5, RawBus DEF Filter, R
    <2>2. UNCHANGED <<stage, starts, alarmVars, feedVars, queue, writerVars, dbVars>>
        BY <1>5 DEF Filter
    <2>3. QED
        BY <1>1, <1>2, <1>3, <2>1, <2>2, QuietStep
           DEF R, alarmVars, feedVars, writerVars, dbVars
<1>6. CASE FilterLagged
    <2>1. rawQ' \in R
        BY <1>1, <1>6, RawBus DEF FilterLagged, R
    <2>2. UNCHANGED <<stage, starts, alarmVars, feedVars, queue, writerVars, dbVars>>
        BY <1>6 DEF FilterLagged
    <2>3. QED
        BY <1>1, <1>2, <1>3, <2>1, <2>2, QuietStep
           DEF R, alarmVars, feedVars, writerVars, dbVars
<1>7. CASE AlarmReceive
    <2>1. alarmAt <= Len(stage) /\ alarmAt' = alarmAt + 1
        BY <1>7 DEF AlarmReceive, Readable
    <2>2. /\ alarmAt' \in 1 .. Len(stage) + 1 /\ Began < alarmAt' /\ alarmAt \in Positions
        BY <1>2, <1>3, <2>1
    <2>3. /\ judging' \in {{}} \cup {{p} : p \in Positions}
          /\ \A p \in judging' : p = alarmAt /\ Wanted(stage[p])
        BY <1>7, <2>2 DEF AlarmReceive, Wanted
    <2>4. UNCHANGED <<busVars, feedVars, queue, writerVars, dbVars>>
        BY <1>7 DEF AlarmReceive
    <2>5. QED
        BY <1>1, <1>3, <2>2, <2>3, <2>4, QuietStep
           DEF R, busVars, feedVars, writerVars, dbVars
<1>8. CASE AlarmLagged
    <2>1. alarmAt' = Len(stage) - BusCap + 1 /\ alarmAt + BusCap <= Len(stage)
        BY <1>8 DEF AlarmLagged, Behind, Oldest
    <2>2. alarmAt' \in 1 .. Len(stage) + 1 /\ Began < alarmAt'
        BY <1>1, <1>2, <1>3, <2>1
    <2>3. UNCHANGED <<busVars, judging, feedVars, queue, writerVars, dbVars>>
        BY <1>8 DEF AlarmLagged
    <2>4. QED
        BY <1>1, <1>3, <2>2, <2>3, QuietStep DEF R, busVars, feedVars, writerVars, dbVars
<1>9. CASE Judged
    <2>1. judging' = {} /\ UNCHANGED <<busVars, alarmAt, feedVars, queue, writerVars, dbVars>>
        BY <1>9 DEF Judged
    <2>2. QED
        BY <1>1, <1>2, <1>3, <2>1, QuietStep DEF R, busVars, feedVars, writerVars, dbVars
<1>10. CASE BackoffEnds
    <2>1. /\ backoff' \in BOOLEAN
          /\ UNCHANGED <<busVars, alarmVars, feedVars, queue, batch, pending, dbVars>>
        BY <1>10 DEF BackoffEnds
    <2>2. QED
        BY <1>1, <1>2, <1>3, <2>1, QuietStep DEF R, busVars, alarmVars, feedVars, dbVars
<1>11. CASE DatabaseTurns
    <2>1. /\ up' \in BOOLEAN
          /\ UNCHANGED <<busVars, alarmVars, feedVars, queue, writerVars, stray, table>>
        BY <1>11 DEF DatabaseTurns
    <2>2. QED
        BY <1>1, <1>2, <1>3, <2>1, QuietStep DEF R, busVars, alarmVars, feedVars, writerVars
<1>12. QED
    BY <1>4, <1>5, <1>6, <1>7, <1>8, <1>9, <1>10, <1>11

(* A message joins the processed bus: from the filter, or as an alarm.     *)
LEMMA PublishStep ==
    ASSUME IInv, (Filter /\ Head(rawQ.queue) # "nonfinite") \/ RaiseAlarm
    PROVE  /\ IInv' /\ Lost' = Lost /\ table' = table
           /\ \E m \in Messages : stage' = Append(stage, m)
<1>1. /\ rawQ \in Receivers(Kinds \cup {"nonfinite"}, BusCap) /\ BusCap \in Nat \ {0}
    BY PipelineAssumption DEF IInv, TypeOK
<1>2. CASE Filter /\ Head(rawQ.queue) # "nonfinite"
    <2> DEFINE m == [kind |-> Head(rawQ.queue), cause |-> 0]
    <2>1. /\ HasMessage(rawQ) /\ rawQ' = Received(rawQ) /\ stage' = Append(stage, m)
          /\ UNCHANGED <<starts, alarmVars, feedVars, queue, writerVars, dbVars>>
        BY <1>2 DEF Filter
    <2>2. Head(rawQ.queue) \in Kinds /\ rawQ' \in Receivers(Kinds \cup {"nonfinite"}, BusCap)
        BY <1>1, <1>2, <2>1, RawBus
    <2>3. m \in Messages /\ m.cause = 0
        BY <2>2 DEF Messages
    <2> HIDE DEF m
    <2>4. IInv' /\ Lost' = Lost
        BY <2>1, <2>2, <2>3, StageGrows
    <2>5. QED
        BY <2>1, <2>3, <2>4 DEF dbVars
<1>3. CASE RaiseAlarm
    <2>1. PICK p \in judging : stage' = Append(stage, [kind |-> "event", cause |-> p])
        BY <1>3 DEF RaiseAlarm
    <2> DEFINE m == [kind |-> "event", cause |-> p]
    <2>2. p \in Nat
        BY <2>1, Typed DEF IInv
    <2>3. m \in Messages /\ m.cause \in judging
        BY <2>1, <2>2 DEF Messages, Kinds
    <2>4. rawQ' = rawQ /\ UNCHANGED <<starts, alarmVars, feedVars, queue, writerVars, dbVars>>
        BY <1>3 DEF RaiseAlarm
    <2>5. stage' = Append(stage, m)
        BY <2>1
    <2> HIDE DEF m
    <2>6. IInv' /\ Lost' = Lost
        BY <1>1, <2>3, <2>4, <2>5, StageGrows
    <2>7. QED
        BY <2>3, <2>4, <2>5, <2>6 DEF dbVars
<1>4. QED
    BY <1>2, <1>3

(* The rows that a step commits, if it commits any.                        *)
LEMMA DatabaseStep ==
    ASSUME IInv, WriteOk \/ WriteFails \/ StrayEnds
    PROVE  /\ IInv' /\ stage' = stage
           /\ \/ table' = table /\ Lost' = Lost
              \/ \E b : /\ Committable(b) /\ table' = table \o b
                        /\ Lost' = Lost \ Range(b) /\ Stored' = Stored \cup Range(b)
<1>1. backoff \in BOOLEAN
    BY DEF IInv, TypeOK
<1>2. CASE WriteOk
    <2> DEFINE b == Head(pending)
    <2>1. /\ pending # <<>> /\ table' = table \o b /\ pending' = Tail(pending)
          /\ UNCHANGED <<busVars, alarmVars, feedVars, queue, batch, backoff, up, stray>>
        BY <1>2 DEF WriteOk, Writing
    <2>2. Committable(b)
        BY <2>1 DEF Committable
    <2> HIDE DEF b
    <2>3. IInv' /\ Lost' = Lost \ Range(b) /\ Stored' = Stored \cup Range(b)
        <3>1. UNCHANGED <<rawQ, stage, starts, alarmAt, judging, persistAt, holding, dbDrop,
                          queue, batch, up>>
            BY <2>1 DEF busVars, alarmVars, feedVars
        <3>2. pending # <<>> /\ b = Head(pending) /\ pending' = Tail(pending)
            BY <2>1 DEF b
        <3>3. backoff' \in BOOLEAN /\ stray' \subseteq stray
            BY <1>1, <2>1
        <3>4. QED
            BY <2>1, <2>2, <3>1, <3>2, <3>3, CommitStep
    <2>4. QED
        BY <2>1, <2>2, <2>3 DEF busVars
<1>3. CASE WriteFails
    <2> DEFINE b == Head(pending)
    <2>1. /\ pending # <<>> /\ backoff' \in BOOLEAN
          /\ UNCHANGED <<busVars, alarmVars, feedVars, queue, batch, pending, up>>
          /\ \/ UNCHANGED <<table, stray>>
             \/ table' = table \o b /\ stray' = stray
             \/ stray' = stray \cup {b} /\ table' = table
        BY <1>3 DEF WriteFails, Writing
    <2>2. UNCHANGED <<rawQ, stage, starts, alarmAt, judging, persistAt, holding, dbDrop,
                      queue, batch, pending, up>>
        BY <2>1 DEF busVars, alarmVars, feedVars
    <2>3. CASE table' = table
        <3> DEFINE more == {c \in {Head(pending)} : pending # <<>>}
        <3>1. stray' \subseteq stray \cup more
            BY <2>1
        <3> HIDE DEF more
        <3>2. more \subseteq {c \in {Head(pending)} : pending # <<>>}
            BY DEF more
        <3>3. IInv' /\ Lost' = Lost
            BY <2>1, <2>2, <2>3, <3>1, <3>2, StrayStep
        <3>4. QED
            BY <2>2, <2>3, <3>3
    <2>4. CASE table' = table \o b /\ stray' = stray
        <3>1. Committable(b)
            BY <2>1 DEF Committable
        <3> HIDE DEF b
        <3>2. IInv' /\ Lost' = Lost \ Range(b) /\ Stored' = Stored \cup Range(b)
            BY <2>1, <2>2, <2>4, <3>1, CommitStep
        <3>3. QED
            BY <2>2, <2>4, <3>1, <3>2
    <2>5. QED
        BY <2>1, <2>3, <2>4
<1>4. CASE StrayEnds
    <2>1. PICK b \in stray : /\ stray' = stray \ {b}
                             /\ table' = table \/ table' = table \o b
        BY <1>4 DEF StrayEnds
    <2>2. UNCHANGED <<rawQ, stage, starts, alarmAt, judging, persistAt, holding, dbDrop,
                      queue, batch, pending, backoff, up>>
        BY <1>4 DEF StrayEnds, busVars, alarmVars, feedVars, writerVars
    <2>3. CASE table' = table
        <3>1. stray' \subseteq stray \cup {}
            BY <2>1
        <3>2. {} \subseteq {c \in {Head(pending)} : pending # <<>>}
            OBVIOUS
        <3>3. IInv' /\ Lost' = Lost
            BY <1>1, <2>2, <2>3, <3>1, <3>2, StrayStep
        <3>4. QED
            BY <2>2, <2>3, <3>3
    <2>4. CASE table' = table \o b
        <3>1. Committable(b) /\ stray' \subseteq stray
            BY <2>1 DEF Committable
        <3>2. IInv' /\ Lost' = Lost \ Range(b) /\ Stored' = Stored \cup Range(b)
            BY <1>1, <2>2, <2>4, <3>1, CommitStep
        <3>3. QED
            BY <2>2, <2>4, <3>1, <3>2
    <2>5. QED
        BY <2>1, <2>3, <2>4
<1>5. QED
    BY <1>2, <1>3, <1>4

-----------------------------------------------------------------------------
(* The specification. *)

(* The invariant holds at first.                                           *)
LEMMA InitIInv == Init => IInv /\ Promise!Init
<1> SUFFICES ASSUME Init PROVE IInv /\ Promise!Init
    OBVIOUS
<1>1. /\ stage = <<>> /\ table = <<>> /\ queue = <<>> /\ batch = <<>> /\ pending = <<>>
      /\ alarmAt = 1 /\ persistAt = 1 /\ judging = {} /\ holding = {} /\ dbDrop = 0
      /\ starts = <<0>> /\ stray = {} /\ backoff = FALSE /\ up \in BOOLEAN
      /\ rawQ = EmptyChannel
    BY DEF Init
<1>2. Len(stage) = 0 /\ Positions = {} /\ DOMAIN pending = {} /\ DOMAIN table = {}
    BY <1>1 DEF Positions
<1>3. Range(starts) = {0} /\ Began = 0 /\ starts \in Seq(0 .. 0) /\ starts # <<>>
    <2>1. 0 \in 0 .. 0
        OBVIOUS
    <2>2. <<0>> \in Seq(0 .. 0) /\ <<0>> # <<>> /\ Range(<<0>>) = {0}
        BY <2>1, Single
    <2>3. QED
        BY <1>1, <2>2 DEF Began
<1>4. /\ Range(queue) = {} /\ Range(batch) = {} /\ Stored = {} /\ Unwritten = {} /\ First = {}
      /\ InMemory = {} /\ Sorted(queue) /\ Sorted(batch)
    BY <1>1, <1>2, EmptySequence DEF Stored, Unwritten, First, InMemory
<1>5. Lost = {}
    <2>1. 1 .. persistAt - 1 = {}
        BY <1>1
    <2>2. QED
        BY <2>1 DEF Lost
<1>6. TypeOK
    <2>1. rawQ \in Receivers(Kinds \cup {"nonfinite"}, BusCap)
        <3>1. BusCap \in Nat
            BY PipelineAssumption
        <3>2. 0 <= BusCap
            BY <3>1
        <3>3. EmptyChannel.queue \in Seq(Kinds \cup {"nonfinite"}) /\ Len(EmptyChannel.queue) = 0
            BY EmptySequence DEF EmptyChannel
        <3>4. QED
            BY <1>1, <3>2, <3>3 DEF Receivers, EmptyChannel
    <2>2. /\ {alarmAt, persistAt} \subseteq 1 .. Len(stage) + 1 /\ dbDrop \in 0 .. Len(stage)
        BY <1>1, <1>2
    <2>3. /\ stage \in Seq(Messages) /\ queue \in Seq(Positions) /\ batch \in Seq(Positions)
          /\ table \in Seq(Positions) /\ pending \in Seq(Seq(Positions) \ {<<>>})
        BY <1>1, EmptySequence
    <2>4. Len(queue) <= QueueCap /\ Len(batch) < BatchSize /\ Len(pending) <= 2
        BY <1>1, PipelineAssumption
    <2>5. QED
        BY <1>1, <1>2, <1>3, <2>1, <2>2, <2>3, <2>4 DEF TypeOK
<1>7. InOrder
    BY <1>1, <1>2, <1>4 DEF InOrder, Below
<1>8. Fresh
    BY <1>1, <1>3, <1>4 DEF Fresh
<1>9. Frontier /\ StrayPlaced /\ StraysApart /\ CauseBefore /\ CauseStored
    BY <1>1, <1>2, <1>4 DEF Frontier, Below, StrayPlaced, StraysApart, CauseBefore, CauseStored
<1>10. Counted
    <2>1. LostNow = {} /\ IsFiniteSet({}) /\ Cardinality({}) = 0
        BY <1>5, FS_EmptySet DEF LostNow
    <2>2. QED
        BY <1>1, <1>3, <2>1 DEF Counted
<1>11. QED
    BY <1>1, <1>5, <1>6, <1>7, <1>8, <1>9, <1>10 DEF IInv, Promise!Init

(* AtLeastOnce sees what joins the bus.                                    *)
LEMMA OfferStep ==
    ASSUME IInv, NEW m \in Messages, stage' = Append(stage, m), table' = table, Lost' = Lost
    PROVE  Promise!Offer
<1>1. stage \in Seq(Messages) /\ Len(stage) \in Nat
    BY Typed DEF IInv
<1>2. PICK n : n = Len(stage)
    OBVIOUS
<1>3. PICK s : s = Append(stage, m)
    OBVIOUS
<1>4. /\ s \in Seq(Messages) /\ Len(s) = n + 1 /\ n \in Nat /\ s[n + 1] = m
      /\ \A i \in 1 .. n : s[i] = stage[i] /\ s[i] \in Messages
    BY <1>1, <1>2, <1>3
<1>5. SubSeq(s, 1, n) \in Seq(Messages) /\ Len(SubSeq(s, 1, n)) = n
      /\ \A i \in 1 .. n : SubSeq(s, 1, n)[i] = s[i]
    <2>1. /\ SubSeq(s, 1, n) \in Seq(Messages)
          /\ Len(SubSeq(s, 1, n)) = IF 1 <= n THEN n - 1 + 1 ELSE 0
          /\ \A i \in 1 .. n - 1 + 1 : SubSeq(s, 1, n)[i] = s[1 + i - 1]
        BY <1>4, SubSeqProperties
    <2>2. n - 1 + 1 = n /\ \A i \in 1 .. n : 1 + i - 1 = i
        BY <1>4
    <2>3. ~(1 <= n) => n = 0
        BY <1>4
    <2>4. QED
        BY <2>1, <2>2, <2>3
<1>6. stage = SubSeq(s, 1, n)
    BY <1>1, <1>2, <1>4, <1>5, SeqEqual
<1>7. QED
    BY <1>2, <1>3, <1>4, <1>6 DEF Promise!Offer

(* It sees what is lost.                                                   *)
LEMMA LoseStep ==
    ASSUME IInv, IInv', stage' = stage, table' = table, Lost \subseteq Lost'
    PROVE  Promise!Lose
<1>1. stage \in Seq(Messages) /\ Len(stage) \in Nat /\ DOMAIN stage = 1 .. Len(stage)
    BY Typed DEF IInv
<1>2. persistAt' \in 1 .. Len(stage) + 1
    BY DEF IInv, TypeOK
<1>3. \A p \in 1 .. persistAt' - 1 : p \in DOMAIN stage
    <2>1. \A n, k \in Nat : k <= n + 1 => \A p \in 1 .. k - 1 : p \in 1 .. n
        OBVIOUS
    <2>2. persistAt' \in Nat /\ persistAt' <= Len(stage) + 1
        BY <1>1, <1>2
    <2>3. QED
        BY <1>1, <2>1, <2>2
<1>4. \A p \in Lost' : p \in DOMAIN stage /\ Wanted(stage[p]) /\ p \notin Range(table)
    BY <1>3 DEF Lost
<1>5. QED
    BY <1>4 DEF Promise!Lose, Promise!Owed, Promise!Stored, Promise!Range, Range

(* It sees the rows of a batch as the next ones, or as a repetition.       *)
LEMMA CommitSeen ==
    ASSUME IInv, NEW b, Committable(b), table' = table \o b, stage' = stage,
           Lost' = Lost \ Range(b)
    PROVE  Promise!Commit
<1>1. /\ table \in Seq(Positions) /\ DOMAIN stage = Positions
      /\ Positions = 1 .. Len(stage) /\ Len(stage) \in Nat /\ Stored \subseteq Positions
      /\ persistAt \in Nat
    BY Typed DEF IInv
<1>2. /\ b \in Seq(Positions) /\ b # <<>> /\ Sorted(b)
      /\ \A p \in Range(b) : p \in Positions /\ Wanted(stage[p]) /\ p < persistAt
    BY BatchFacts
<1>3. PICK m, n, u : m = Len(table) /\ n = Len(b) /\ u = table \o b
    OBVIOUS
<1>4. /\ u \in Seq(Positions) /\ Len(u) = m + n /\ m \in Nat /\ n \in Nat /\ n # 0
      /\ \A i \in 1 .. n : u[m + i] = b[i]
    BY <1>1, <1>2, <1>3, Concatenation
<1>5. SubSeq(u, m + 1, m + n) = b
    <2>1. \A i \in m + 1 .. m + n : u[i] \in Positions
        BY <1>4
    <2>2. /\ SubSeq(u, m + 1, m + n) \in Seq(Positions)
          /\ Len(SubSeq(u, m + 1, m + n)) = IF m + 1 <= m + n THEN m + n - (m + 1) + 1 ELSE 0
          /\ \A i \in 1 .. m + n - (m + 1) + 1 :
                SubSeq(u, m + 1, m + n)[i] = u[m + 1 + i - 1]
        BY <1>4, <2>1, SubSeqProperties
    <2>3. /\ m + 1 <= m + n /\ m + n - (m + 1) + 1 = n
          /\ \A i \in 1 .. n : m + 1 + i - 1 = m + i
        BY <1>4
    <2>4. Len(SubSeq(u, m + 1, m + n)) = n
          /\ \A i \in 1 .. n : SubSeq(u, m + 1, m + n)[i] = b[i]
        BY <1>4, <2>2, <2>3
    <2>5. QED
        BY <1>2, <1>3, <2>2, <2>4, SeqEqual
<1>6. n \in DOMAIN b /\ DOMAIN b = 1 .. n
    BY <1>2, <1>3, <1>4
<1>7. Promise!Range(b) = Range(b) /\ Promise!Stored = Stored
    BY DEF Promise!Range, Range, Promise!Stored, Stored
<1>8. Promise!Write(b) \/ Promise!Rewrite(b)
    <2>1. CASE pending # <<>> /\ b = Head(pending) /\ Below(Stored, InMemory)
        <3>1. /\ First = Range(b) /\ First \subseteq InMemory
              /\ Below(First, InMemory \ First)
            BY <2>1, FirstBatch
        <3>2. b[n] \in Range(b)
            BY <1>6 DEF Range
        <3>3. ASSUME NEW p \in Range(b)
              PROVE  /\ p \in Promise!Owed \ Lost /\ p <= b[n]
                     /\ \A q \in Stored : q < p
            <4>1. p \in Positions /\ Wanted(stage[p]) /\ p \notin Lost
                BY <1>2, <3>1, Placed
            <4>2. p <= b[n]
                <5>1. PICK i \in DOMAIN b : b[i] = p
                    BY DEF Range
                <5>2. i = n \/ i < n
                    BY <1>4, <1>6, <5>1
                <5>3. i < n => b[i] < b[n]
                    BY <1>2, <1>6, <5>1 DEF Sorted
                <5>4. b[n] \in Nat /\ p \in Nat
                    <6>1. b[n] \in Positions /\ p \in Positions
                        BY <1>2, <3>2, <4>1
                    <6>2. QED
                        BY <1>1, <6>1
                <5>5. QED
                    BY <5>1, <5>2, <5>3, <5>4
            <4>3. \A q \in Stored : q < p
                BY <2>1, <3>1 DEF Below
            <4>4. QED
                BY <1>1, <4>1, <4>2, <4>3 DEF Promise!Owed
        <3>4. ASSUME NEW p \in Promise!Owed \ Lost, p <= b[n], \A q \in Stored : q < p
              PROVE  p \in Range(b)
            <4>1. p \in Positions /\ Wanted(stage[p])
                BY <1>1 DEF Promise!Owed
            <4>2. p \in Nat /\ b[n] \in Nat /\ b[n] < persistAt
                BY <1>1, <1>2, <3>2, <4>1
            <4>3. p < persistAt /\ ~(p < p) /\ ~(b[n] < p)
                BY <1>1, <3>4, <4>2
            <4>4. p \in InMemory
                BY <3>4, <4>1, <4>3, Placed
            <4>5. QED
                BY <3>1, <3>2, <4>3, <4>4 DEF Below
        <3>5. Lost' = Lost
            BY <3>1, Placed
        <3>6. Range(b) = {p \in Promise!Owed \ Lost : p <= b[n] /\ \A q \in Stored : q < p}
            BY <3>3, <3>4
        <3>7. Promise!Write(b)
            BY <1>2, <1>3, <1>7, <3>5, <3>6 DEF Promise!Write, Sorted
        <3>8. QED
            BY <3>7
    <2>2. CASE Range(b) \subseteq Stored \cup Lost
        BY <1>7, <2>2 DEF Promise!Rewrite
    <2>3. QED
        BY <2>1, <2>2, NewOrOld
<1>9. SubSeq(table', Len(table) + 1, Len(table')) = b /\ n \in 1 .. Len(table') - Len(table)
    <2>1. table' = u /\ Len(table) = m
        BY <1>3
    <2>2. n \in 1 .. (m + n) - m
        BY <1>4
    <2>3. QED
        BY <1>4, <1>5, <2>1, <2>2
<1>10. QED
    BY <1>3, <1>8, <1>9 DEF Promise!Commit

(* Every step keeps the invariant and is one that AtLeastOnce allows.      *)
LEMMA NextStep ==
    ASSUME IInv, [Next]_vars
    PROVE  IInv' /\ (Promise!Next \/ UNCHANGED Promise!vars)
<1>1. CASE \/ \E kind \in Kinds \cup {"nonfinite"} : PublishRaw(kind)
           \/ Filter /\ Head(rawQ.queue) = "nonfinite"
           \/ FilterLagged \/ AlarmReceive \/ AlarmLagged \/ Judged
           \/ BackoffEnds \/ DatabaseTurns
    BY <1>1, AsideStep DEF Promise!vars
<1>2. CASE (Filter /\ Head(rawQ.queue) # "nonfinite") \/ RaiseAlarm
    BY <1>2, PublishStep, OfferStep DEF Promise!Next
<1>3. CASE PersistReceive
    <2>1. IInv' /\ Lost \subseteq Lost' /\ stage' = stage /\ table' = table
        BY <1>3, PersistReceiveStep DEF PersistReceive, busVars, dbVars
    <2>2. QED
        BY <2>1, LoseStep DEF Promise!Next
<1>4. CASE PersistLagged
    <2>1. IInv' /\ Lost \subseteq Lost' /\ stage' = stage /\ table' = table
        BY <1>4, PersistLaggedStep DEF PersistLagged, busVars, dbVars
    <2>2. QED
        BY <2>1, LoseStep DEF Promise!Next
<1>5. CASE Restart
    <2>1. IInv' /\ Lost \subseteq Lost' /\ stage' = stage /\ table' = table
        BY <1>5, RestartStep DEF Restart
    <2>2. QED
        BY <2>1, LoseStep DEF Promise!Next
<1>6. CASE Enqueue
    BY <1>6, EnqueueStep DEF Enqueue, busVars, dbVars, Promise!vars
<1>7. CASE WriterReceive
    BY <1>7, ReceiveStep DEF WriterReceive, busVars, dbVars, Promise!vars
<1>8. CASE FlushTick
    BY <1>8, FlushStep DEF FlushTick, busVars, dbVars, Promise!vars
<1>9. CASE WriteOk \/ WriteFails \/ StrayEnds
    <2>1. IInv' /\ stage' = stage
        BY <1>9, DatabaseStep
    <2>2. CASE table' = table /\ Lost' = Lost
        BY <2>1, <2>2 DEF Promise!vars
    <2>3. ASSUME NEW b, Committable(b), table' = table \o b, Lost' = Lost \ Range(b)
          PROVE  Promise!Commit
        BY <2>1, <2>3, CommitSeen
    <2>4. QED
        BY <1>9, <2>1, <2>2, <2>3, DatabaseStep DEF Promise!Next
<1>10. CASE UNCHANGED vars
    <2>1. /\ UNCHANGED <<rawQ, stage, alarmAt, judging, persistAt, holding, dbDrop, queue>>
          /\ UNCHANGED <<batch, pending, backoff, up, stray, table, starts>>
        BY <1>10 DEF vars
    <2>2. /\ rawQ \in Receivers(Kinds \cup {"nonfinite"}, BusCap)
          /\ {judging} \subseteq {{}} \cup {{p} : p \in Positions}
          /\ backoff \in BOOLEAN /\ up \in BOOLEAN
        BY DEF IInv, TypeOK
    <2>3. /\ alarmAt \in 1 .. Len(stage) + 1 /\ Began < alarmAt
          /\ \A p \in judging : Began < p /\ Wanted(stage[p])
        BY Typed DEF IInv, Fresh
    <2>4. IInv' /\ Lost' = Lost
        BY <2>1, <2>2, <2>3, QuietStep
    <2>5. QED
        BY <2>1, <2>4 DEF Promise!vars
<1>11. QED
    BY <1>1, <1>2, <1>3, <1>4, <1>5, <1>6, <1>7, <1>8, <1>9, <1>10 DEF Next

(* The invariant holds throughout.                                         *)
THEOREM AlwaysIInv == Spec => []IInv
<1>1. Init => IInv
    BY InitIInv
<1>2. IInv /\ [Next]_vars => IInv'
    BY NextStep
<1>3. QED
    BY <1>1, <1>2, PTL DEF Spec

(* db_drop is never less than the number of samples and events of this run *)
(* that are neither stored nor on their way (run_persistence_forwarder).   *)
THEOREM NothingUncounted == Spec => []LossCounted
<1>1. IInv => LossCounted
    BY DEF IInv, Counted, LossCounted, LostNow
<1>2. QED
    BY <1>1, AlwaysIInv, PTL

(* No alarm is stored before its sample, unless that was lost: the writer  *)
(* flushes its batch before an event and repeats a failed write before it  *)
(* goes on (start_pg_writer, retry_write).                                 *)
THEOREM SampleBeforeAlarm == Spec => []CauseStoredFirst
<1>1. IInv => CauseStoredFirst
    <2> SUFFICES ASSUME IInv, NEW i \in DOMAIN table, NEW cause,
                        cause = stage[table[i]].cause, cause # 0
                 PROVE  cause \in Lost \cup {table[j] : j \in 1 .. i - 1}
        BY DEF CauseStoredFirst
    <2>1. Gone(cause) \/ \E j \in 1 .. i - 1 : table[j] = cause
        BY DEF IInv, CauseStored
    <2>2. QED
        BY <2>1 DEF Gone
<1>2. QED
    BY <1>1, AlwaysIInv, PTL

(* The chain of forwarder, queue, batches, retries and late commits keeps  *)
(* the promise of AtLeastOnce: bus order, no gaps but for what is lost, a  *)
(* repetition only of what is stored or was given up.                      *)
THEOREM PromiseKept == Spec => ImplementsAtLeastOnce
<1>1. Init => Promise!Init
    BY InitIInv
<1>2. IInv /\ [Next]_vars => [Promise!Next]_Promise!vars
    BY NextStep
<1>3. QED
    BY <1>1, <1>2, AlwaysIInv, PTL DEF Spec, ImplementsAtLeastOnce, Promise!Spec
=============================================================================

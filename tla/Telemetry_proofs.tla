-------------------------- MODULE Telemetry_proofs ---------------------------
(***************************************************************************)
(* Theorems about what two targets tell of themselves: the records of      *)
(* live-shadow, and the outputs of io-shadow.                              *)
(***************************************************************************)
EXTENDS LiveShadow, IoShadow, TLAPS, SequenceTheorems, FiniteSetTheorems

-----------------------------------------------------------------------------
(* Remainders, maxima and minima.                                           *)

\* A number is what its quotient and its remainder make of it, and no other ones.
LEMMA RemainderUnique ==
  ASSUME NEW d \in Nat \ {0}, NEW q \in Int, NEW r \in 0 .. d - 1
  PROVE  (q * d + r) % d = r
OBVIOUS

LEMMA RemainderExists ==
  ASSUME NEW d \in Nat \ {0}, NEW n \in Int
  PROVE  /\ n % d \in 0 .. d - 1
         /\ \E q \in Int : n = q * d + (n % d)
<1>1. n % d \in 0 .. d - 1
  OBVIOUS
<1>2. n = (n \div d) * d + (n % d) /\ n \div d \in Int
  OBVIOUS
<1> QED BY <1>1, <1>2

\* The remainder of the next number.
LEMMA RemainderNext ==
  ASSUME NEW d \in Nat \ {0}, NEW n \in Int
  PROVE  (n + 1) % d = IF (n % d) + 1 = d THEN 0 ELSE (n % d) + 1
<1>1. PICK q \in Int : n = q * d + (n % d)
  BY RemainderExists
<1>2. PICK r \in 0 .. d - 1 : n % d = r
  BY RemainderExists
<1>3. CASE r + 1 = d
  <2>1. n + 1 = (q + 1) * d + 0
    BY <1>1, <1>2, <1>3
  <2>2. ((q + 1) * d + 0) % d = 0
    BY RemainderUnique
  <2> QED BY <1>2, <1>3, <2>1, <2>2
<1>4. CASE r + 1 # d
  <2>1. n + 1 = q * d + (r + 1) /\ r + 1 \in 0 .. d - 1
    BY <1>1, <1>2, <1>4
  <2>2. (q * d + (r + 1)) % d = r + 1
    BY <2>1, RemainderUnique
  <2> QED BY <1>2, <1>4, <2>1, <2>2
<1> QED BY <1>3, <1>4

\* A number is no smaller than what it is a multiple of.
LEMMA MultipleReaches ==
  ASSUME NEW d \in Nat \ {0}, NEW n \in Nat \ {0}, n % d = 0
  PROVE  n >= d
<1>1. ASSUME n < d PROVE FALSE
  <2>1. n = 0 * d + n /\ n \in 0 .. d - 1
    BY <1>1
  <2>2. (0 * d + n) % d = n
    BY <2>1, RemainderUnique
  <2> QED BY <2>1, <2>2
<1> QED BY <1>1

\* An upper bound that is an element is the maximum.
LEMMA MaxIs ==
  ASSUME NEW S \in SUBSET Int, NEW m \in S, \A x \in S : x <= m
  PROVE  Max(S) = m
<1>1. \E x \in S : \A y \in S : x >= y
  OBVIOUS
<1>2. Max(S) \in S /\ \A y \in S : Max(S) >= y
  BY <1>1 DEF Max
<1>3. Max(S) \in Int /\ m \in Int /\ Max(S) >= m /\ Max(S) <= m
  BY <1>2
<1> QED BY <1>3

\* The greater and the smaller of two.
LEMMA OfTwo ==
  ASSUME NEW a \in Int, NEW b \in Int
  PROVE  /\ Max({a, b}) = IF a >= b THEN a ELSE b
         /\ Min({a, b}) = IF a <= b THEN a ELSE b
<1>1. Max({a, b}) = IF a >= b THEN a ELSE b
  BY MaxIs
<1>2. \E x \in {a, b} : \A y \in {a, b} : x <= y
  OBVIOUS
<1>3. Min({a, b}) \in {a, b} /\ \A y \in {a, b} : Min({a, b}) <= y
  BY <1>2 DEF Min
<1> QED BY <1>1, <1>3

-----------------------------------------------------------------------------
(* The runs so far.                                                         *)

Run == [cost : Costs, on_time : BOOLEAN]

\* A run takes some cycles.
LEMMA CostType == \A cost \in Costs : cost \in Nat /\ cost > 0 /\ cost \in Int
<1> SUFFICES ASSUME NEW cost \in Costs PROVE cost \in Nat /\ cost > 0 /\ cost \in Int
  OBVIOUS
<1>1. cost \in Nat \ {0}
  BY LiveShadowConstants
<1> QED BY <1>1

\* What one more run does to the history, the costs and the overruns.
LEMMA RunAppended ==
  ASSUME TypeOK, NEW run \in Run, runs' = Append(runs, run)
  PROVE  /\ Len(runs) \in Nat /\ Len(runs') = Len(runs) + 1
         /\ DOMAIN runs = 1 .. Len(runs) /\ DOMAIN runs' = 1 .. Len(runs) + 1
         /\ \A i \in 1 .. Len(runs) : runs'[i] = runs[i] /\ runs[i] \in Run
         /\ runs'[Len(runs) + 1] = run
<1>1. runs \in Seq(Run)
  BY DEF TypeOK, Run
<1>2. /\ Len(runs) \in Nat /\ DOMAIN runs = 1 .. Len(runs)
      /\ \A i \in 1 .. Len(runs) : runs[i] \in Run
  BY <1>1, LenProperties, ElementOfSeq
<1>3. /\ runs' \in Seq(Run) /\ Len(runs') = Len(runs) + 1
      /\ \A i \in 1 .. Len(runs) : runs'[i] = runs[i]
      /\ runs'[Len(runs) + 1] = run
  BY <1>1, AppendProperties
<1>4. DOMAIN runs' = 1 .. Len(runs) + 1
  BY <1>3, LenProperties
<1> QED BY <1>2, <1>3, <1>4

\* A range of runs that have been has the costs it had.
LEMMA CostsKept ==
  ASSUME TypeOK, NEW run \in Run, runs' = Append(runs, run),
         NEW first \in Int, first >= 1, NEW last \in Int, last <= Len(runs)
  PROVE  /\ CostsOf(first, last)' = CostsOf(first, last)
         /\ CostsOf(first, last) \subseteq Costs
<1>1. \A n \in first .. last : runs'[n] = runs[n] /\ runs[n] \in Run
  BY RunAppended
<1> QED BY <1>1 DEF CostsOf, Run

\* A range that ends with the new run has that one's cost besides.
LEMMA CostsGrow ==
  ASSUME TypeOK, NEW run \in Run, runs' = Append(runs, run),
         NEW last, last = Len(runs), NEW first \in Int, first >= 1, first <= last + 1
  PROVE  CostsOf(first, last + 1)' = CostsOf(first, last) \cup {run.cost}
<1>1. /\ last \in Nat
      /\ \A n \in 1 .. last : runs'[n] = runs[n]
      /\ runs'[last + 1] = run
  BY RunAppended
<1>2. first .. last + 1 = (first .. last) \cup {last + 1}
  BY <1>1
<1>3. {runs'[n].cost : n \in first .. last + 1}
        = {runs[n].cost : n \in first .. last} \cup {run.cost}
  BY <1>1, <1>2
<1> QED BY <1>3 DEF CostsOf

\* The peak of a range is a cost, and the maximum if there are any runs in it.
LEMMA PeakIsMax ==
  ASSUME runs \in Seq(Run), NEW v, NEW first \in 1 .. Len(runs), NEW last \in first .. Len(runs),
         IsPeak(v, first, last)
  PROVE  v = Max(CostsOf(first, last))
<1>1. /\ v \in CostsOf(first, last) /\ \A x \in CostsOf(first, last) : x <= v
  <2>1. Len(runs) \in Nat
    BY LenProperties
  <2>2. ~(first > last)
    BY <2>1
  <2> QED BY <2>2 DEF IsPeak
<1>2. CostsOf(first, last) \subseteq Int
  <2>1. \A n \in first .. last : runs[n].cost \in Int
    <3>1. \A n \in 1 .. Len(runs) : runs[n] \in Run
      BY ElementOfSeq
    <3>2. Len(runs) \in Nat
      BY LenProperties
    <3> QED BY <3>1, <3>2, CostType DEF Run
  <2> QED BY <2>1 DEF CostsOf
<1> QED BY <1>1, <1>2, MaxIs

\* The peak with the new run is the greater of the old one and its cost.
LEMMA PeakGrows ==
  ASSUME TypeOK, NEW run \in Run, runs' = Append(runs, run),
         NEW last, last = Len(runs), NEW first \in Int, first >= 1, first <= last + 1,
         NEW v \in Costs \cup {0}, IsPeak(v, first, last)
  PROVE  IsPeak(Max({v, run.cost}), first, last + 1)'
<1>1. last \in Nat /\ run.cost \in Costs
  BY RunAppended DEF Run
<1>2. CostsOf(first, last + 1)' = CostsOf(first, last) \cup {run.cost}
  BY CostsGrow
<1>3. PICK m : m = Max({v, run.cost})
  OBVIOUS
<1>4. v \in Int /\ run.cost \in Int /\ m = IF v >= run.cost THEN v ELSE run.cost
  <2>1. v \in Int /\ run.cost \in Int
    BY <1>1, CostType
  <2> QED BY <1>3, <2>1, OfTwo
<1>5. SUFFICES m \in CostsOf(first, last) \cup {run.cost}
               /\ \A x \in CostsOf(first, last) \cup {run.cost} : x <= m
  <2>1. ~(first > last + 1)
    BY <1>1
  <2> QED BY <1>2, <1>3, <1>5, <2>1 DEF IsPeak
<1>6. CASE first > last
  <2>1. first .. last = {}
    BY <1>1, <1>6
  <2>2. CostsOf(first, last) = {}
    BY <2>1 DEF CostsOf
  <2>3. v = 0
    BY <1>6 DEF IsPeak
  <2> QED BY <1>1, <1>4, <2>2, <2>3, CostType
<1>7. CASE ~(first > last)
  <2>1. CostsOf(first, last) \subseteq Int
    <3>1. last \in Int /\ last <= Len(runs)
      BY <1>1
    <3>2. CostsOf(first, last) \subseteq Costs
      BY <3>1, CostsKept
    <3> QED BY <3>2, CostType
  <2>2. v \in CostsOf(first, last) /\ \A x \in CostsOf(first, last) : x <= v
    BY <1>7 DEF IsPeak
  <2> QED BY <1>4, <2>1, <2>2
<1> QED BY <1>6, <1>7

\* The overruns among runs that have been are those they were, and finitely many;
\* one more run may add one.
LEMMA OverrunsKept ==
  ASSUME TypeOK, NEW run \in Run, runs' = Append(runs, run), NEW last \in 0 .. Len(runs)
  PROVE  Overruns(last)' = Overruns(last)
<1>1. \A i \in 1 .. last : runs'[i] = runs[i]
  BY RunAppended
<1> QED BY <1>1 DEF Overruns

LEMMA OverrunsFinite ==
  ASSUME NEW last \in Nat
  PROVE  IsFiniteSet(Overruns(last)) /\ Cardinality(Overruns(last)) \in Nat
<1>1. IsFiniteSet(1 .. last)
  BY FS_Interval
<1>2. IsFiniteSet(Overruns(last))
  BY <1>1, FS_Subset DEF Overruns
<1> QED BY <1>2, FS_CardinalityType

LEMMA OverrunsGrow ==
  ASSUME TypeOK, NEW run \in Run, runs' = Append(runs, run), NEW last, last = Len(runs)
  PROVE  Cardinality(Overruns(last + 1)') = Cardinality(Overruns(last))
           + (IF run.cost > CONTROL_DEADLINE_CYCLES THEN 1 ELSE 0)
<1>1. /\ last \in Nat /\ runs'[last + 1] = run
      /\ \A i \in 1 .. last : runs'[i] = runs[i]
  BY RunAppended
<1>2. 1 .. last + 1 = (1 .. last) \cup {last + 1} /\ last + 1 \notin 1 .. last
  BY <1>1
<1>3. Overruns(last + 1)' = IF run.cost > CONTROL_DEADLINE_CYCLES
                            THEN Overruns(last) \cup {last + 1} ELSE Overruns(last)
  BY <1>1, <1>2 DEF Overruns
<1>4. last + 1 \notin Overruns(last)
  BY <1>2 DEF Overruns
<1>5. IsFiniteSet(Overruns(last)) /\ Cardinality(Overruns(last)) \in Nat
  BY <1>1, OverrunsFinite
<1>6. Cardinality(Overruns(last) \cup {last + 1}) = Cardinality(Overruns(last)) + 1
  BY <1>4, <1>5, FS_AddElement
<1> QED BY <1>3, <1>5, <1>6

-----------------------------------------------------------------------------
(* What is said of the runs, while they become more.                        *)

\* What a record says of the runs up to its own stays true.
LEMMA TellsRunsKept ==
  ASSUME TypeOK, NEW run \in Run, runs' = Append(runs, run)
  PROVE  \A r \in Records : TellsRuns(r) => TellsRuns(r)'
<1> SUFFICES ASSUME NEW r \in Records, TellsRuns(r) PROVE TellsRuns(r)'
  OBVIOUS
<1> DEFINE n == r.sequence + 1
           first == n - PROFILE_DECIMATION + 1
<1>1. /\ n \in DOMAIN runs /\ n % PROFILE_DECIMATION = 0
      /\ r.critical = runs[n].cost
      /\ r.window_max = Max(CostsOf(first, n)) /\ r.boot_max = Max(CostsOf(1, n))
      /\ r.overruns = Min({OVERRUN_MAX, Cardinality(Overruns(n))})
      /\ r.token => runs[n].on_time
  BY DEF TellsRuns
<1>2. /\ Len(runs) \in Nat /\ n \in 1 .. Len(runs) /\ runs'[n] = runs[n]
      /\ n \in DOMAIN runs'
  BY <1>1, RunAppended
<1>3. first \in Int /\ first >= 1
  <2>1. n \in Nat \ {0} /\ PROFILE_DECIMATION \in Nat \ {0}
    BY <1>2, LiveShadowConstants
  <2>2. n >= PROFILE_DECIMATION
    BY <1>1, <2>1, MultipleReaches
  <2> QED BY <2>1, <2>2
<1>4. n \in Int /\ n <= Len(runs) /\ n \in 0 .. Len(runs)
  BY <1>2
<1> HIDE DEF n, first
<1>5. CostsOf(first, n)' = CostsOf(first, n) /\ CostsOf(1, n)' = CostsOf(1, n)
  BY <1>3, <1>4, CostsKept
<1>6. Overruns(n)' = Overruns(n)
  BY <1>4, OverrunsKept
<1>7. /\ n \in DOMAIN runs' /\ n % PROFILE_DECIMATION = 0
      /\ r.critical = runs'[n].cost
      /\ r.window_max = Max(CostsOf(first, n)') /\ r.boot_max = Max(CostsOf(1, n)')
      /\ r.overruns = Min({OVERRUN_MAX, Cardinality(Overruns(n)')})
      /\ r.token => runs'[n].on_time
  BY <1>1, <1>2, <1>5, <1>6
<1> QED BY <1>7 DEF n, first, TellsRuns

\* The statistics of the runs with the new one among them.
LEMMA StatisticsGrow ==
  ASSUME TypeOK, StatisticsTell, NEW run \in Run, runs' = Append(runs, run),
         NEW n, n = Len(runs), n < MaxRuns,
         NEW cost, cost = run.cost, Account(cost),
         NEW peak, peak = Max({window_max, cost}), NEW first, first = n - profile_divider + 1
  PROVE  /\ n \in Nat /\ n + 1 <= MaxRuns /\ sequence = n
         /\ WrappingIncrement(sequence) = IF n + 1 = SEQUENCE_RANGE THEN 0 ELSE n + 1
         /\ (n + 1) % PROFILE_DECIMATION =
              IF profile_divider + 1 >= PROFILE_DECIMATION THEN 0 ELSE profile_divider + 1
         /\ IsPeak(peak, first, n + 1)' /\ peak \in Costs
         /\ IsPeak(boot_max, 1, n + 1)' /\ boot_max' \in Costs
         /\ overrun_count' = Min({OVERRUN_MAX, Cardinality(Overruns(n + 1)')})
         /\ overrun_count' \in 0 .. OVERRUN_MAX
<1>1. /\ n \in Nat /\ n < SEQUENCE_RANGE /\ MaxRuns \in Nat
      /\ run.cost \in Costs /\ cost \in Nat /\ cost > 0
  BY RunAppended, LiveShadowConstants, CostType DEF Run
<1>2. /\ sequence = n /\ profile_divider = n % PROFILE_DECIMATION
      /\ IsPeak(window_max, n - profile_divider + 1, n) /\ IsPeak(boot_max, 1, n)
      /\ overrun_count = Min({OVERRUN_MAX, Cardinality(Overruns(n))})
  BY <1>1 DEF StatisticsTell
<1>3. /\ profile_divider \in 0 .. PROFILE_DECIMATION - 1 /\ PROFILE_DECIMATION \in Nat \ {0}
      /\ window_max \in Costs \cup {0} /\ boot_max \in Costs \cup {0}
      /\ overrun_count \in 0 .. OVERRUN_MAX /\ OVERRUN_MAX \in Nat
  BY LiveShadowConstants DEF TypeOK
<1>4. (n + 1) % PROFILE_DECIMATION =
        IF profile_divider + 1 >= PROFILE_DECIMATION THEN 0 ELSE profile_divider + 1
  <2>1. n \in Int
    BY <1>1
  <2>2. (n + 1) % PROFILE_DECIMATION =
          IF profile_divider + 1 = PROFILE_DECIMATION THEN 0 ELSE profile_divider + 1
    BY <1>2, <1>3, <2>1, RemainderNext
  <2> QED BY <1>3, <2>2
<1>5. first \in Int /\ first >= 1 /\ first <= n + 1
  <2>1. profile_divider <= n
    <3>1. ASSUME n < PROFILE_DECIMATION PROVE profile_divider = n
      <4>1. n = 0 * PROFILE_DECIMATION + n /\ n \in 0 .. PROFILE_DECIMATION - 1 /\ 0 \in Int
        BY <1>1, <1>3, <3>1
      <4>2. (0 * PROFILE_DECIMATION + n) % PROFILE_DECIMATION = n
        BY <1>3, <4>1, RemainderUnique
      <4> QED BY <1>2, <4>1, <4>2
    <3> QED BY <1>1, <1>3, <3>1
  <2> QED BY <1>1, <1>3, <2>1
<1>6. IsPeak(peak, first, n + 1)' /\ peak \in Costs
  <2>1. PICK w : w = window_max
    OBVIOUS
  <2>2. w \in Costs \cup {0} /\ IsPeak(w, first, n) /\ peak = Max({w, run.cost})
    BY <1>2, <1>3, <2>1
  <2>3. IsPeak(peak, first, n + 1)'
    BY <1>5, <2>2, PeakGrows
  <2>4. peak \in Costs
    BY <1>1, <2>2, OfTwo, CostType
  <2> QED BY <2>3, <2>4
<1>7. IsPeak(boot_max, 1, n + 1)' /\ boot_max' \in Costs
  <2>1. PICK b, m : b = boot_max /\ m = Max({b, run.cost})
    OBVIOUS
  <2>2. b \in Costs \cup {0} /\ IsPeak(b, 1, n) /\ boot_max' = m
    BY <1>2, <1>3, <2>1 DEF Account
  <2>3. 1 \in Int /\ 1 >= 1 /\ 1 <= n + 1
    BY <1>1
  <2>4. IsPeak(m, 1, n + 1)'
    BY <2>1, <2>2, <2>3, PeakGrows
  <2>5. m \in Costs
    BY <1>1, <2>1, <2>2, OfTwo, CostType
  <2>6. IsPeak(m, 1, n + 1)' => IsPeak(boot_max, 1, n + 1)'
    BY <2>2 DEF IsPeak
  <2> QED BY <2>2, <2>4, <2>5, <2>6
<1>8. overrun_count' = Min({OVERRUN_MAX, Cardinality(Overruns(n + 1)')})
      /\ overrun_count' \in 0 .. OVERRUN_MAX
  <2>1. PICK c : c = Cardinality(Overruns(n))
    OBVIOUS
  <2>2. c \in Nat
    BY <1>1, <2>1, OverrunsFinite
  <2>3. PICK d : d = Cardinality(Overruns(n + 1)')
    OBVIOUS
  <2>4. d = c + (IF cost > CONTROL_DEADLINE_CYCLES THEN 1 ELSE 0)
    <3>1. Cardinality(Overruns(n + 1)') = Cardinality(Overruns(n))
            + (IF run.cost > CONTROL_DEADLINE_CYCLES THEN 1 ELSE 0)
      BY OverrunsGrow
    <3> QED BY <2>1, <2>3, <3>1
  <2>5. /\ Min({OVERRUN_MAX, c}) = IF OVERRUN_MAX <= c THEN OVERRUN_MAX ELSE c
        /\ Min({OVERRUN_MAX, d}) = IF OVERRUN_MAX <= d THEN OVERRUN_MAX ELSE d
    <3>1. c \in Int /\ d \in Int /\ OVERRUN_MAX \in Int
      BY <1>3, <2>2, <2>4
    <3> QED BY <3>1, OfTwo
  <2>6. overrun_count' = IF cost > CONTROL_DEADLINE_CYCLES
                         THEN IF overrun_count < OVERRUN_MAX THEN overrun_count + 1
                                                             ELSE overrun_count
                         ELSE overrun_count
    BY DEF Account, SaturatingIncrement
  <2>7. overrun_count = Min({OVERRUN_MAX, c})
    BY <1>2, <2>1
  <2>8. overrun_count' = Min({OVERRUN_MAX, d}) /\ overrun_count' \in 0 .. OVERRUN_MAX
    BY <1>3, <2>2, <2>4, <2>5, <2>6, <2>7
  <2> QED BY <2>3, <2>8
<1>9. n + 1 <= MaxRuns
  BY <1>1
<1> QED BY <1>1, <1>2, <1>4, <1>6, <1>7, <1>8, <1>9 DEF WrappingIncrement

-----------------------------------------------------------------------------
(* The records on their way.                                                *)

\* What appending to a queue and taking its head off do to it.
LEMMA QueueFacts ==
  ASSUME NEW S, NEW q \in Seq(S)
  PROVE  /\ Len(q) \in Nat /\ DOMAIN q = 1 .. Len(q)
         /\ q = <<>> <=> Len(q) = 0
         /\ \A i \in 1 .. Len(q) : q[i] \in S
         /\ \A r \in S : /\ Append(q, r) \in Seq(S)
                         /\ Len(Append(q, r)) = Len(q) + 1
                         /\ \A i \in 1 .. Len(q) : Append(q, r)[i] = q[i]
                         /\ Append(q, r)[Len(q) + 1] = r
         /\ q # <<>> => /\ Head(q) \in S /\ Head(q) = q[1]
                        /\ Tail(q) \in Seq(S)
                        /\ Len(Tail(q)) = Len(q) - 1
                        /\ \A i \in 1 .. Len(q) - 1 : Tail(q)[i] = q[i + 1]
<1>1. /\ Len(q) \in Nat /\ DOMAIN q = 1 .. Len(q)
      /\ \A i \in 1 .. Len(q) : q[i] \in S
  BY LenProperties, ElementOfSeq
<1>2. q = <<>> <=> Len(q) = 0
  BY EmptySeq
<1>3. \A r \in S : /\ Append(q, r) \in Seq(S)
                   /\ Len(Append(q, r)) = Len(q) + 1
                   /\ \A i \in 1 .. Len(q) : Append(q, r)[i] = q[i]
                   /\ Append(q, r)[Len(q) + 1] = r
  BY AppendProperties
<1>4. q # <<>> => /\ Head(q) \in S /\ Tail(q) \in Seq(S) /\ Len(Tail(q)) = Len(q) - 1
                  /\ \A i \in 1 .. Len(Tail(q)) : Tail(q)[i] = q[i + 1]
  BY HeadTailProperties
<1>5. q # <<>> => Head(q) = q[1]
  OBVIOUS
<1> QED BY <1>1, <1>2, <1>3, <1>4, <1>5

\* A record in front of a sequence is its head, and the sequence its tail.
LEMMA RecordInFront ==
  ASSUME NEW S, NEW r \in S, NEW q \in Seq(S)
  PROVE  <<r>> \o q # <<>> /\ Tail(<<r>> \o q) = q
<1> DEFINE s == <<r>> \o q
<1>1. <<r>> \in Seq(S) /\ Len(<<r>>) = 1 /\ <<r>>[1] = r /\ Len(q) \in Nat
  BY LenProperties
<1>2. /\ s \in Seq(S) /\ Len(s) = 1 + Len(q)
      /\ \A i \in 1 .. 1 + Len(q) : s[i] = IF i <= 1 THEN <<r>>[i] ELSE q[i - 1]
  BY <1>1, ConcatProperties
<1> HIDE DEF s
<1>3. s # <<>>
  BY <1>1, <1>2, EmptySeq
<1>4. /\ Tail(s) \in Seq(S) /\ Len(Tail(s)) = Len(q)
      /\ \A i \in 1 .. Len(q) : Tail(s)[i] = s[i + 1]
  BY <1>1, <1>2, <1>3, QueueFacts
<1>5. \A i \in 1 .. Len(q) : Tail(s)[i] = q[i]
  BY <1>1, <1>2, <1>4
<1>6. Tail(s) = q
  BY <1>4, <1>5, SeqEqual
<1> QED BY <1>3, <1>6 DEF s

\* Taking the head off and putting it in front again changes nothing.
LEMMA HeadInFront ==
  ASSUME NEW S, NEW q \in Seq(S), q # <<>>
  PROVE  <<Head(q)>> \o Tail(q) = q
<1> DEFINE s == <<Head(q)>> \o Tail(q)
<1>1. /\ Head(q) \in S /\ Head(q) = q[1] /\ Tail(q) \in Seq(S)
      /\ Len(q) \in Nat /\ Len(Tail(q)) = Len(q) - 1
      /\ \A i \in 1 .. Len(q) - 1 : Tail(q)[i] = q[i + 1]
  BY QueueFacts
<1>2. <<Head(q)>> \in Seq(S) /\ Len(<<Head(q)>>) = 1 /\ <<Head(q)>>[1] = Head(q)
  BY <1>1
<1>3. /\ s \in Seq(S) /\ Len(s) = Len(q)
      /\ \A i \in 1 .. Len(q) : s[i] = IF i <= 1 THEN <<Head(q)>>[i] ELSE Tail(q)[i - 1]
  BY <1>1, <1>2, ConcatProperties
<1> HIDE DEF s
<1>4. \A i \in 1 .. Len(q) : s[i] = q[i]
  BY <1>1, <1>2, <1>3
<1>5. s = q
  BY <1>3, <1>4, SeqEqual
<1> QED BY <1>5 DEF s

\* The record received last, and the one being sent.
Received == IF sent = NoRecord THEN <<>> ELSE <<sent>>

InTransit == IF pump.pc = "start" THEN <<pump.record>>
             ELSE IF active /\ ~complete THEN <<buffer>> ELSE <<>>

LEMMA StreamParts ==
  ASSUME TypeOK, PumpOwns
  PROVE  /\ Stream = Received \o InTransit \o queue
         /\ Received \in Seq(Records) /\ InTransit \in Seq(Records) /\ queue \in Seq(Records)
         /\ Stream \in Seq(Records)
<1>1. Stream = Received \o InTransit \o queue
  BY DEF Stream, Received, InTransit
<1>2. Received \in Seq(Records)
  BY DEF TypeOK, Received
<1>3. InTransit \in Seq(Records)
  BY DEF PumpOwns, InTransit
<1>4. queue \in Seq(Records)
  BY DEF TypeOK
<1> QED BY <1>1, <1>2, <1>3, <1>4, ConcatProperties

\* A record is not the empty value.
LEMMA NoRecordIsNone == NoRecord \notin Records
BY DEF NoRecord, Records

\* The part of the type invariant that the pump can disturb.
PumpTyped ==
  /\ queue \in Seq(Records) /\ Len(queue) < QUEUE_STORAGE
  /\ pump.record \in Records \cup {NoRecord}
  /\ buffer \in Records \cup {NoRecord} /\ sent \in Records \cup {NoRecord}

PumpStep == RecordTxDma \/ TransferComplete

\* The pump and the channel keep their own account.
LEMMA PumpOwned == PumpTyped /\ PumpOwns /\ PumpStep => PumpTyped' /\ PumpOwns'
<1> SUFFICES ASSUME PumpTyped, PumpOwns, PumpStep PROVE PumpTyped' /\ PumpOwns'
  OBVIOUS
<1> USE DEF PumpTyped
<1>1. CASE TransferComplete
  BY <1>1 DEF TransferComplete, PumpOwns
<1>2. CASE EnterPump
  BY <1>2 DEF EnterPump, PumpOwns
<1>3. CASE TakeState
  <2>1. CASE active /\ ~complete
    BY <1>3, <2>1 DEF TakeState, ReturnFromPump, IdlePump, PumpOwns
  <2>2. CASE ~(active /\ ~complete)
    BY <1>3, <2>2 DEF TakeState, PumpOwns
  <2> QED BY <2>1, <2>2
<1>4. CASE Dequeue
  <2>1. queue # <<>> => Head(queue) \in Records
    BY QueueFacts
  <2>2. CASE queue = <<>>
    BY <1>4, <2>2 DEF Dequeue, PumpOwns
  <2>3. CASE queue # <<>>
    BY <1>4, <2>1, <2>3 DEF Dequeue, PumpOwns
  <2> QED BY <2>2, <2>3
<1>5. CASE FreeSlot
  <2>1. /\ queue # <<>> /\ pump.record = Head(queue) /\ ~active /\ ~complete
        /\ queue' = Tail(queue) /\ pump' = [pump EXCEPT !.pc = "start"]
        /\ UNCHANGED <<active, complete, buffer, sent>>
    BY <1>5 DEF FreeSlot, PumpOwns
  <2>2. /\ Head(queue) \in Records /\ Tail(queue) \in Seq(Records)
        /\ Len(Tail(queue)) = Len(queue) - 1 /\ Len(queue) \in Nat
    BY <2>1, QueueFacts
  <2>3. Len(queue') < QUEUE_STORAGE
    BY <2>1, <2>2, RecordQueueStorage
  <2>4. PumpOwns'
    BY <2>1, <2>2 DEF PumpOwns
  <2>5. PumpTyped'
    BY <2>1, <2>2, <2>3
  <2> QED BY <2>4, <2>5
<1>6. CASE StartTransfer
  BY <1>6 DEF StartTransfer, ReturnFromPump, IdlePump, PumpOwns
<1>7. CASE Park
  BY <1>7 DEF Park, ReturnFromPump, IdlePump, PumpOwns
<1> QED BY <1>1, <1>2, <1>3, <1>4, <1>5, <1>6, <1>7 DEF PumpStep, RecordTxDma

\* They move the records along: what leaves the stream has been received, and
\* another one after it.
LEMMA PumpMoves ==
  ASSUME TypeOK, PumpOwns, TypeOK', PumpOwns', PumpStep
  PROVE  Stream' = Stream \/ (Stream # <<>> /\ Stream' = Tail(Stream))
<1>1. /\ Stream = Received \o InTransit \o queue
      /\ Stream' = Received' \o InTransit' \o queue'
      /\ Received \in Seq(Records) /\ InTransit \in Seq(Records) /\ queue \in Seq(Records)
  <2>1. (TypeOK /\ PumpOwns => Stream = Received \o InTransit \o queue)'
    BY StreamParts, PTL
  <2> QED BY <2>1, StreamParts
<1>2. CASE TransferComplete
  <2>1. /\ InTransit = <<buffer>> /\ buffer \in Records /\ sent' = buffer
        /\ InTransit' = <<>> /\ queue' = queue
    BY <1>2 DEF TransferComplete, PumpOwns, InTransit
  <2>2. Received' = <<buffer>>
    BY <2>1, NoRecordIsNone DEF Received
  <2>3. /\ <<buffer>> \in Seq(Records)
        /\ Stream' = <<buffer>> \o queue
    <3>1. <<buffer>> \in Seq(Records)
      BY <2>1
    <3>2. <<buffer>> \o <<>> = <<buffer>>
      BY <3>1, ConcatEmptySeq
    <3> QED BY <1>1, <2>1, <2>2, <3>1, <3>2
  <2>4. CASE sent = NoRecord
    <3>1. Received = <<>> /\ <<>> \o <<buffer>> = <<buffer>>
      BY <2>3, <2>4, ConcatEmptySeq DEF Received
    <3> QED BY <1>1, <2>1, <2>3, <3>1
  <2>5. CASE sent # NoRecord
    <3>1. Received = <<sent>> /\ sent \in Records
      BY <2>5 DEF Received, TypeOK
    <3>2. <<sent>> \in Seq(Records) /\ <<buffer>> \o queue \in Seq(Records)
      BY <1>1, <2>3, <3>1, ConcatProperties
    <3>3. Stream = <<sent>> \o (<<buffer>> \o queue)
      BY <1>1, <2>1, <2>3, <3>1, <3>2, ConcatAssociative
    <3> QED BY <2>3, <3>1, <3>2, <3>3, RecordInFront
  <2> QED BY <2>4, <2>5
<1>3. CASE FreeSlot
  <2>1. /\ InTransit = <<>> /\ InTransit' = <<Head(queue)>>
        /\ queue # <<>> /\ queue' = Tail(queue) /\ Received' = Received
    BY <1>3 DEF FreeSlot, PumpOwns, InTransit, Received
  <2>2. <<Head(queue)>> \in Seq(Records) /\ Tail(queue) \in Seq(Records)
    BY <1>1, <2>1, QueueFacts
  <2>3. Stream' = Received \o (<<Head(queue)>> \o Tail(queue))
    BY <1>1, <2>1, <2>2, ConcatAssociative
  <2>4. <<Head(queue)>> \o Tail(queue) = queue /\ Received \o <<>> = Received
    BY <1>1, <2>1, HeadInFront, ConcatEmptySeq
  <2> QED BY <1>1, <2>1, <2>3, <2>4
<1>4. CASE EnterPump \/ TakeState \/ Dequeue \/ StartTransfer \/ Park
  <2>1. UNCHANGED <<InTransit, queue, sent>>
    <3>1. CASE EnterPump
      BY <3>1 DEF EnterPump, PumpOwns, InTransit
    <3>2. CASE TakeState
      BY <3>2 DEF TakeState, ReturnFromPump, IdlePump, PumpOwns, InTransit
    <3>3. CASE Dequeue
      BY <3>3 DEF Dequeue, PumpOwns, InTransit
    <3>4. CASE StartTransfer
      BY <3>4 DEF StartTransfer, ReturnFromPump, IdlePump, PumpOwns, InTransit
    <3>5. CASE Park
      BY <3>5 DEF Park, ReturnFromPump, IdlePump, PumpOwns, InTransit
    <3> QED BY <1>4, <3>1, <3>2, <3>3, <3>4, <3>5
  <2>2. Received' = Received
    BY <2>1 DEF Received
  <2> QED BY <1>1, <2>1, <2>2
<1> QED BY <1>2, <1>3, <1>4 DEF PumpStep, RecordTxDma

-----------------------------------------------------------------------------
(* What the stream tells, while it moves.                                   *)

\* The stream as a sequence s of records, the number next of the run to be
\* recorded next, and the count of drops.
Told(s, next, drops) ==
  /\ \A i \in 1 .. Len(s) : TellsRuns(s[i])
  /\ \A i \in 1 .. Len(s) - 1 : TellsDrops(s[i], s[i + 1])
  /\ s # <<>> => TellsDrops(s[Len(s)], [sequence |-> next, dropped |-> drops])

LEMMA StreamIsTold ==
  ASSUME TypeOK, PumpOwns
  PROVE  Told(Stream, NextSequence, dropped_records) <=> StreamTells /\ NextTells
<1>1. DOMAIN Stream = 1 .. Len(Stream)
  BY StreamParts, QueueFacts
<1> QED BY <1>1 DEF Told, StreamTells, NextTells

\* One more record has been received.
LEMMA ToldOfTail ==
  ASSUME NEW s \in Seq(Records), s # <<>>, NEW next, NEW drops, Told(s, next, drops)
  PROVE  Told(Tail(s), next, drops)
<1> DEFINE t == Tail(s)
<1>1. /\ Len(s) \in Nat /\ Len(t) = Len(s) - 1 /\ (t = <<>> <=> Len(t) = 0)
      /\ \A i \in 1 .. Len(s) - 1 : t[i] = s[i + 1]
  BY QueueFacts
<1> HIDE DEF t
<1>2. \A i \in 1 .. Len(t) : i + 1 \in 1 .. Len(s)
  BY <1>1
<1>3. \A i \in 1 .. Len(t) : TellsRuns(t[i])
  BY <1>1, <1>2 DEF Told
<1>4. \A i \in 1 .. Len(t) - 1 : TellsDrops(t[i], t[i + 1])
  <2> SUFFICES ASSUME NEW i \in 1 .. Len(t) - 1 PROVE TellsDrops(t[i], t[i + 1])
    OBVIOUS
  <2>1. t[i] = s[i + 1] /\ t[i + 1] = s[i + 1 + 1] /\ i + 1 \in 1 .. Len(s) - 1
    BY <1>1
  <2> QED BY <2>1 DEF Told
<1>5. t # <<>> => TellsDrops(t[Len(t)], [sequence |-> next, dropped |-> drops])
  <2> SUFFICES ASSUME t # <<>>
               PROVE  TellsDrops(t[Len(t)], [sequence |-> next, dropped |-> drops])
    OBVIOUS
  <2>1. t[Len(t)] = s[Len(s)]
    BY <1>1
  <2> QED BY <2>1 DEF Told
<1> QED BY <1>3, <1>4, <1>5 DEF Told, t

\* A run that is not recorded, whether its window goes on or is dropped, leaves
\* the records true of the runs.
LEMMA ToldOfMoreRuns ==
  ASSUME TypeOK, NEW run \in Run, runs' = Append(runs, run),
         NEW s \in Seq(Records), NEW next, NEW drops, NEW after, NEW dropped,
         Told(s, next, drops),
         \A r \in Records : TellsDrops(r, [sequence |-> next, dropped |-> drops])
                              => TellsDrops(r, [sequence |-> after, dropped |-> dropped])
  PROVE  Told(s, after, dropped)'
<1>1. \A i \in 1 .. Len(s) : s[i] \in Records
  BY QueueFacts
<1>2. s # <<>> => Len(s) \in 1 .. Len(s)
  BY QueueFacts
<1>3. \A i \in 1 .. Len(s) : TellsRuns(s[i])'
  BY <1>1, TellsRunsKept DEF Told
<1>4. s # <<>> => TellsDrops(s[Len(s)], [sequence |-> after, dropped |-> dropped])
  BY <1>1, <1>2 DEF Told
<1> QED BY <1>3, <1>4 DEF Told, TellsDrops

\* The record of the new run joins the stream.
LEMMA ToldOfAccepted ==
  ASSUME TypeOK, NEW run \in Run, runs' = Append(runs, run),
         NEW s \in Seq(Records), NEW next, NEW drops, NEW after,
         Told(s, next, drops),
         NEW r \in Records, TellsRuns(r)', r.sequence = next, r.dropped = drops,
         TellsDrops(r, [sequence |-> after, dropped |-> drops])
  PROVE  Told(Append(s, r), after, drops)'
<1> DEFINE t == Append(s, r)
<1>1. /\ Len(s) \in Nat /\ Len(t) = Len(s) + 1 /\ (s = <<>> <=> Len(s) = 0)
      /\ \A i \in 1 .. Len(s) : t[i] = s[i] /\ s[i] \in Records
      /\ t[Len(s) + 1] = r
  BY QueueFacts
<1> HIDE DEF t
<1>2. \A i \in 1 .. Len(t) : TellsRuns(t[i])'
  <2> SUFFICES ASSUME NEW i \in 1 .. Len(t) PROVE TellsRuns(t[i])'
    OBVIOUS
  <2>1. CASE i \in 1 .. Len(s)
    <3>1. TellsRuns(s[i]) /\ s[i] \in Records
      BY <1>1, <2>1 DEF Told
    <3>2. TellsRuns(s[i])'
      BY <3>1, TellsRunsKept
    <3> QED BY <1>1, <2>1, <3>2
  <2>2. CASE i \notin 1 .. Len(s)
    <3>1. t[i] = r
      BY <1>1, <2>2
    <3> QED BY <3>1
  <2> QED BY <2>1, <2>2
<1>3. \A i \in 1 .. Len(t) - 1 : TellsDrops(t[i], t[i + 1])
  <2> SUFFICES ASSUME NEW i \in 1 .. Len(s) PROVE TellsDrops(t[i], t[i + 1])
    BY <1>1
  <2>1. CASE i = Len(s)
    <3>1. TellsDrops(s[i], [sequence |-> next, dropped |-> drops])
      BY <1>1, <2>1 DEF Told
    <3>2. t[i] = s[i] /\ t[i + 1] = r
      BY <1>1, <2>1
    <3> QED BY <3>1, <3>2 DEF TellsDrops
  <2>2. CASE i # Len(s)
    <3>1. i \in 1 .. Len(s) - 1 /\ t[i] = s[i] /\ t[i + 1] = s[i + 1]
      BY <1>1, <2>2
    <3> QED BY <3>1 DEF Told
  <2> QED BY <2>1, <2>2
<1>4. TellsDrops(t[Len(t)], [sequence |-> after, dropped |-> drops])
  BY <1>1
<1> QED BY <1>2, <1>3, <1>4 DEF Told, t, TellsDrops

\* A window that is dropped moves the number on and is counted.
LEMMA DropCounted ==
  ASSUME NEW next \in Int, NEW drops \in 0 .. DROPPED_MAX, NEW r \in Records,
         TellsDrops(r, [sequence |-> next, dropped |-> drops])
  PROVE  TellsDrops(r, [sequence |-> next + PROFILE_DECIMATION,
                        dropped |-> SaturatingIncrement(drops, DROPPED_MAX)])
<1> DEFINE d == PROFILE_DECIMATION
           more == SaturatingIncrement(drops, DROPPED_MAX)
<1>1. /\ d \in Int /\ DROPPED_MAX \in Nat /\ r.sequence \in Int /\ r.dropped \in Int
      /\ drops \in Int
  BY LiveShadowConstants DEF Records
<1>2. ASSUME more < DROPPED_MAX PROVE next + d - r.sequence = d * (1 + more - r.dropped)
  <2>1. drops < DROPPED_MAX /\ more = drops + 1
    BY <1>1, <1>2 DEF SaturatingIncrement
  <2>2. next - r.sequence = d * (1 + drops - r.dropped)
    BY <2>1 DEF TellsDrops
  <2> HIDE DEF d, more
  <2>3. PICK k \in Int : k = 1 + drops - r.dropped
    BY <1>1
  <2>4. 1 + more - r.dropped = k + 1 /\ d * (k + 1) = d * k + d /\ next - r.sequence = d * k
    BY <1>1, <2>1, <2>2, <2>3
  <2>5. next + d - r.sequence = d * k + d
    <3>1. PICK p \in Int : p = d * k
      BY <1>1
    <3> QED BY <1>1, <2>4, <3>1
  <2> QED BY <2>4, <2>5
<1> DEFINE after == [sequence |-> next + d, dropped |-> more]
<1>3. after.sequence = next + d /\ after.dropped = more
  OBVIOUS
<1> HIDE DEF d, more, after
<1>4. TellsDrops(r, after)
  BY <1>1, <1>2, <1>3 DEF TellsDrops, d
<1> QED BY <1>4 DEF after, d, more

\* A peak of any range of runs that have been is a maximum.
PeaksAreMaxima ==
  \A v : \A first \in 1 .. Len(runs) : \A last \in first .. Len(runs) :
    IsPeak(v, first, last) => v = Max(CostsOf(first, last))

LEMMA PeaksFound == runs \in Seq(Run) => PeaksAreMaxima
BY PeakIsMax DEF PeaksAreMaxima

\* A record of the run that makes it says what is true of the runs.
LEMMA SampleTells ==
  ASSUME NEW n \in Nat, NEW run \in Run, NEW r \in Records,
         Len(runs') = n + 1, runs'[n + 1] = run, runs' \in Seq(Run),
         r.sequence = n, (n + 1) % PROFILE_DECIMATION = 0,
         r.critical = run.cost,
         IsPeak(r.window_max, n + 1 - PROFILE_DECIMATION + 1, n + 1)',
         IsPeak(r.boot_max, 1, n + 1)',
         r.overruns = Min({OVERRUN_MAX, Cardinality(Overruns(n + 1)')}),
         r.token => run.on_time
  PROVE  TellsRuns(r)'
<1> DEFINE start == n + 1 - PROFILE_DECIMATION + 1
<1>1. /\ DOMAIN runs' = 1 .. n + 1 /\ n + 1 \in Nat \ {0} /\ PROFILE_DECIMATION \in Nat \ {0}
      /\ n + 1 \in DOMAIN runs' /\ n + 1 \in start .. n + 1 /\ start \in Int
  BY LenProperties, LiveShadowConstants
<1>2. n + 1 >= PROFILE_DECIMATION
  BY <1>1, MultipleReaches
<1>3. start \in 1 .. n + 1 /\ 1 \in 1 .. n + 1 /\ n + 1 \in 1 .. n + 1
  BY <1>1, <1>2
<1>4. PeaksAreMaxima'
  <2>1. (runs \in Seq(Run) => PeaksAreMaxima)'
    BY PeaksFound, PTL
  <2> QED BY <2>1
<1>5. \A v : \A p \in 1 .. n + 1 : \A last \in p .. n + 1 :
         IsPeak(v, p, last)' => v = Max(CostsOf(p, last)')
  BY <1>4 DEF PeaksAreMaxima
<1> HIDE DEF start
<1>6. r.window_max = Max(CostsOf(start, n + 1)') /\ r.boot_max = Max(CostsOf(1, n + 1)')
  BY <1>1, <1>3, <1>5 DEF start
<1> QED BY <1>1, <1>6 DEF TellsRuns, start

\* The producer's record joins the stream.
LEMMA RecordEnqueued ==
  ASSUME TypeOK, PumpOwns, NEW r \in Records, ~QueueFull, Enqueue(r)
  PROVE  PumpTyped' /\ PumpOwns' /\ Stream' = Append(Stream, r)
<1>1. /\ queue' = Append(queue, r) /\ UNCHANGED <<pump, active, complete, buffer, sent>>
      /\ queue \in Seq(Records) /\ Len(queue) < QUEUE_STORAGE /\ Len(queue) # QUEUE_STORAGE - 1
  BY DEF Enqueue, TypeOK, QueueFull
<1>2. /\ Len(queue) \in Nat /\ Append(queue, r) \in Seq(Records)
      /\ Len(Append(queue, r)) = Len(queue) + 1
      /\ \A i \in 1 .. Len(queue) : Append(queue, r)[i] = queue[i]
      /\ queue # <<>> => Head(queue) = queue[1] /\ Len(queue) # 0
  BY <1>1, QueueFacts
<1>3. Len(queue') < QUEUE_STORAGE /\ queue' \in Seq(Records)
  BY <1>1, <1>2, RecordQueueStorage
<1>4. PumpTyped'
  BY <1>1, <1>3 DEF PumpTyped, TypeOK
<1>5. queue # <<>> => queue' # <<>> /\ Head(queue') = Head(queue)
  <2> SUFFICES ASSUME queue # <<>> PROVE queue' # <<>> /\ Head(queue') = Head(queue)
    OBVIOUS
  <2>1. Len(queue') # 0 /\ 1 \in 1 .. Len(queue)
    BY <1>1, <1>2
  <2>2. queue' # <<>> /\ Head(queue') = queue'[1]
    BY <1>3, <2>1, QueueFacts
  <2> QED BY <1>1, <1>2, <2>1, <2>2
<1>6. PumpOwns'
  BY <1>1, <1>5 DEF PumpOwns
<1>7. Stream' = Append(Stream, r)
  <2> DEFINE front == Received \o InTransit
  <2>1. Stream = front \o queue /\ front \in Seq(Records) /\ <<r>> \in Seq(Records)
    BY StreamParts, ConcatProperties
  <2>2. Stream' = front \o Append(queue, r)
    BY <1>1 DEF Stream, Received, InTransit
  <2> HIDE DEF front
  <2>3. Append(queue, r) = queue \o <<r>> /\ front \o queue \in Seq(Records)
    BY <1>1, <2>1, AppendIsConcat, ConcatProperties
  <2>4. Append(front \o queue, r) = (front \o queue) \o <<r>>
    BY <2>3, AppendIsConcat
  <2> QED BY <1>1, <2>1, <2>2, <2>3, <2>4, ConcatAssociative
<1> QED BY <1>4, <1>6, <1>7

-----------------------------------------------------------------------------
(* The inductive invariant of live-shadow.                                  *)

\* A token comes of a step whose timing is Healthy, and that event was on time.
LEMMA TokenOnTime ==
  ASSUME TypeOK, MonitorTimed, NEW token \in Tokens(OnEvent(monitor, 0).health)
  PROVE  token \in BOOLEAN /\ (token => silence < LATE_AFTER)
<1>1. monitor \in Monitors(-TIMEOUT_AFTER .. 0) /\ silence \in 0 .. TIMEOUT_AFTER
      /\ LATE_AFTER \in Nat /\ TIMEOUT_AFTER \in Nat
  BY SensorTimingLimits DEF TypeOK
<1>2. monitor.seen \in BOOLEAN /\ monitor.reference \in -TIMEOUT_AFTER .. 0
  BY <1>1 DEF Monitors
<1>3. token \in BOOLEAN
  <2>1. \A timing, wheel : TokenMade(timing, wheel) \in BOOLEAN
    BY DEF TokenMade, Evaluate, Denied
  <2> QED BY <2>1 DEF Tokens
<1>4. ASSUME token PROVE silence < LATE_AFTER
  <2>1. OnEvent(monitor, 0).health = "Healthy"
    BY <1>4 DEF Tokens, ClosedLoopEligible
  <2>2. monitor.seen /\ ClassifyElapsed(SaturatingSub(0, monitor.reference)) = "Healthy"
    BY <1>2, <2>1 DEF OnEvent
  <2>3. SaturatingSub(0, monitor.reference) = -monitor.reference
    BY <1>1, <1>2 DEF SaturatingSub
  <2>4. ~(-monitor.reference >= LATE_AFTER)
    BY <2>2, <2>3 DEF ClassifyElapsed
  <2>5. silence = -monitor.reference
    BY <2>2 DEF MonitorTimed
  <2> QED BY <1>1, <1>2, <2>4, <2>5
<1> QED BY <1>3, <1>4

\* The monitor after an event.
LEMMA EventTimed ==
  ASSUME TypeOK, monitor' = OnEvent(monitor, 0), silence' = 0
  PROVE  monitor' \in Monitors(-TIMEOUT_AFTER .. 0) /\ MonitorTimed'
<1>1. /\ monitor.seen \in BOOLEAN /\ monitor.cadence_verified \in BOOLEAN
      /\ 0 \in -TIMEOUT_AFTER .. 0
  BY SensorTimingLimits DEF TypeOK, Monitors
<1>2. OnEvent(monitor, 0).health \in SensorTimingHealth
  BY DEF OnEvent, ClassifyElapsed, SensorTimingHealth
<1>3. monitor' \in Monitors(-TIMEOUT_AFTER .. 0)
  BY <1>1, <1>2 DEF OnEvent, Monitors
<1>4. MonitorTimed'
  <2>1. monitor'.reference = 0
    BY DEF OnEvent
  <2>2. PICK z \in Int : z = monitor'.reference /\ z >= 0 /\ z <= 0
    BY <2>1
  <2>3. silence' = -z
    BY <2>2
  <2> QED BY <2>2, <2>3, Zenon DEF MonitorTimed
<1> QED BY <1>3, <1>4

\* The part of the type invariant that a run of imu_data_ready always writes.
RunTyped ==
  /\ configured \in BOOLEAN
  /\ monitor \in Monitors(-TIMEOUT_AFTER .. 0)
  /\ profile_divider \in 0 .. PROFILE_DECIMATION - 1
  /\ sequence \in 0 .. SEQUENCE_RANGE - 1 /\ dropped_records \in 0 .. DROPPED_MAX
  /\ window_max \in Costs \cup {0} /\ boot_max \in Costs \cup {0}
  /\ overrun_count \in 0 .. OVERRUN_MAX
  /\ silence \in 0 .. TIMEOUT_AFTER
  /\ runs \in Seq(Run)

LEMMA TypeParts == TypeOK <=> RunTyped /\ PumpTyped
BY DEF TypeOK, RunTyped, PumpTyped, Run

\* The statistics of n runs.
StatisticsOf(n) ==
  /\ n <= MaxRuns
  /\ sequence = IF n = SEQUENCE_RANGE THEN 0 ELSE n
  /\ profile_divider = n % PROFILE_DECIMATION
  /\ \E first : first = n - profile_divider + 1 /\ IsPeak(window_max, first, n)
  /\ IsPeak(boot_max, 1, n)
  /\ overrun_count = Min({OVERRUN_MAX, Cardinality(Overruns(n))})

StatisticsSoFar == \E n : n = Len(runs) /\ StatisticsOf(n)

LEMMA StatisticsOfRuns == StatisticsSoFar <=> StatisticsTell
BY DEF StatisticsSoFar, StatisticsOf, StatisticsTell

\* A run of imu_data_ready keeps the invariant.
LEMMA ImuDataReadyIInv == ASSUME IInv, ImuDataReady PROVE IInv'
<1> USE DEF IInv
<1>0. TypeOK /\ PumpOwns /\ MonitorTimed /\ StatisticsTell
      /\ Told(Stream, NextSequence, dropped_records)
  BY StreamIsTold DEF StreamTells
<1>1. PICK cost \in Costs, token \in Tokens(OnEvent(monitor, 0).health) :
        /\ Account(cost)
        /\ IF profile_divider + 1 >= PROFILE_DECIMATION
           THEN Publish(ProfileSample(cost, Max({window_max, cost}), token))
           ELSE /\ profile_divider' = profile_divider + 1
                /\ window_max' = Max({window_max, cost})
                /\ UNCHANGED <<pumping, dropped_records>>
        /\ runs' = Append(runs, [cost |-> cost, on_time |-> silence < LATE_AFTER])
  BY DEF ImuDataReady
<1>2. PICK n, peak, first : /\ n = Len(runs) /\ peak = Max({window_max, cost})
                            /\ first = n - profile_divider + 1
  OBVIOUS
<1>3. PICK run : run = [cost |-> cost, on_time |-> silence < LATE_AFTER]
  OBVIOUS
<1>4. /\ run \in Run /\ run.cost = cost /\ runs' = Append(runs, run)
      /\ token \in BOOLEAN /\ (token => run.on_time)
  <2>1. (silence < LATE_AFTER) \in BOOLEAN
    OBVIOUS
  <2> QED BY <1>0, <1>1, <1>3, <2>1, TokenOnTime DEF Run
<1>5. /\ n \in Nat /\ n + 1 <= MaxRuns /\ n < MaxRuns /\ sequence = n
      /\ sequence' = IF n + 1 = SEQUENCE_RANGE THEN 0 ELSE n + 1
      /\ (n + 1) % PROFILE_DECIMATION =
           IF profile_divider + 1 >= PROFILE_DECIMATION THEN 0 ELSE profile_divider + 1
      /\ IsPeak(peak, first, n + 1)' /\ peak \in Costs
      /\ IsPeak(boot_max, 1, n + 1)' /\ boot_max' \in Costs
      /\ overrun_count' = Min({OVERRUN_MAX, Cardinality(Overruns(n + 1)')})
      /\ overrun_count' \in 0 .. OVERRUN_MAX
  <2>1. n < MaxRuns /\ sequence' = WrappingIncrement(sequence)
    BY <1>2 DEF ImuDataReady
  <2> QED BY <1>0, <1>1, <1>2, <1>4, <2>1, StatisticsGrow
<1>6. /\ Len(runs') = n + 1 /\ runs'[n + 1] = run /\ runs' \in Seq(Run)
  BY <1>0, <1>2, <1>4, RunAppended, AppendProperties DEF TypeOK, Run
<1>7. /\ monitor' \in Monitors(-TIMEOUT_AFTER .. 0) /\ MonitorTimed'
      /\ silence' = 0 /\ UNCHANGED configured
  BY <1>0, EventTimed DEF ImuDataReady
<1>8. /\ profile_divider \in 0 .. PROFILE_DECIMATION - 1 /\ PROFILE_DECIMATION \in Nat \ {0}
      /\ MaxRuns \in Nat /\ MaxRuns <= SEQUENCE_RANGE /\ SEQUENCE_RANGE \in Nat \ {0}
      /\ TIMEOUT_AFTER \in Nat /\ DROPPED_MAX \in Nat
      /\ dropped_records \in 0 .. DROPPED_MAX
  BY <1>0, LiveShadowConstants, SensorTimingLimits DEF TypeOK
<1>9. sequence' \in 0 .. SEQUENCE_RANGE - 1
  BY <1>5, <1>8
<1>10. /\ configured' \in BOOLEAN /\ silence' \in 0 .. TIMEOUT_AFTER
       /\ boot_max' \in Costs \cup {0}
  BY <1>0, <1>5, <1>7, <1>8 DEF TypeOK
<1>11. PICK s, next, drops : s = Stream /\ next = NextSequence /\ drops = dropped_records
  OBVIOUS
<1>12. /\ s \in Seq(Records) /\ Told(s, next, drops)
       /\ next = n - profile_divider + PROFILE_DECIMATION - 1 /\ next \in Int
       /\ drops \in 0 .. DROPPED_MAX
  BY <1>0, <1>2, <1>5, <1>8, <1>11, StreamParts DEF NextSequence
<1>13. SUFFICES
         /\ PumpTyped' /\ PumpOwns' /\ dropped_records' \in 0 .. DROPPED_MAX
         /\ profile_divider' \in 0 .. PROFILE_DECIMATION - 1
         /\ profile_divider' = (n + 1) % PROFILE_DECIMATION
         /\ window_max' \in Costs \cup {0}
         /\ \E from : from = n + 1 - profile_divider' + 1 /\ IsPeak(window_max, from, n + 1)'
         /\ Told(Stream, NextSequence, dropped_records)'
  <2>1. RunTyped'
    BY <1>5, <1>6, <1>7, <1>9, <1>10, <1>13 DEF RunTyped
  <2>2. (RunTyped /\ PumpTyped => TypeOK)'
    BY TypeParts, PTL
  <2>3. (TypeOK /\ PumpOwns =>
          (Told(Stream, NextSequence, dropped_records) => StreamTells /\ NextTells))'
    BY StreamIsTold, PTL
  <2>4. StatisticsTell'
    <3>1. StatisticsOf(n + 1)'
      BY <1>5, <1>13 DEF StatisticsOf
    <3>2. StatisticsSoFar'
      BY <1>6, <3>1 DEF StatisticsSoFar
    <3>3. (StatisticsSoFar => StatisticsTell)'
      BY StatisticsOfRuns, PTL
    <3> QED BY <3>2, <3>3
  <2> QED BY <1>7, <1>13, <2>1, <2>2, <2>3, <2>4
<1>14. CASE ~(profile_divider + 1 >= PROFILE_DECIMATION)
  <2>1. /\ profile_divider' = profile_divider + 1 /\ window_max' = peak
        /\ UNCHANGED <<pumping, dropped_records>>
    BY <1>1, <1>2, <1>14
  <2>2. PumpTyped' /\ PumpOwns' /\ Stream' = s
    BY <1>0, <1>11, <2>1 DEF pumping, TypeOK, PumpTyped, PumpOwns, Stream
  <2>3. NextSequence' = next /\ dropped_records' = drops
    BY <1>6, <1>8, <1>5, <1>11, <1>12, <2>1 DEF NextSequence
  <2>4. Told(s, next, drops)'
    BY <1>0, <1>4, <1>12, ToldOfMoreRuns
  <2>5. Told(Stream, NextSequence, dropped_records)'
    BY <2>2, <2>3, <2>4 DEF Told
  <2>6. n + 1 - profile_divider' + 1 = first
    BY <1>2, <1>5, <1>8, <2>1
  <2>7. IsPeak(window_max, first, n + 1)'
    BY <1>5, <2>1 DEF IsPeak
  <2> QED BY <1>5, <1>8, <1>14, <2>1, <2>2, <2>5, <2>6, <2>7
<1>15. CASE profile_divider + 1 >= PROFILE_DECIMATION
  <2> DEFINE r == ProfileSample(cost, Max({window_max, cost}), token)
  <2>1. Publish(r)
    BY <1>1, <1>15
  <2>2. /\ profile_divider' = 0 /\ window_max' = 0 /\ profile_divider = PROFILE_DECIMATION - 1
        /\ profile_divider' = (n + 1) % PROFILE_DECIMATION
        /\ profile_divider' \in 0 .. PROFILE_DECIMATION - 1
    BY <1>5, <1>8, <1>15, <2>1 DEF Publish
  <2>3. next = n /\ NextSequence' = next + PROFILE_DECIMATION
    BY <1>5, <1>6, <1>8, <1>12, <2>2 DEF NextSequence
  <2>4. \E from : from = n + 1 - profile_divider' + 1 /\ IsPeak(window_max, from, n + 1)'
    <3>1. n + 1 - profile_divider' + 1 = n + 2 /\ n + 2 > n + 1
      BY <1>5, <2>2
    <3>2. IsPeak(window_max, n + 2, n + 1)'
      BY <2>2, <3>1 DEF IsPeak
    <3> QED BY <3>1, <3>2
  <2>5. PICK sample : sample = r
    OBVIOUS
  <2>6. /\ sample.sequence = next /\ sample.dropped = drops /\ sample.critical = run.cost
        /\ sample.window_max = peak /\ sample.boot_max = boot_max'
        /\ sample.overruns = overrun_count' /\ sample.token = token
        /\ sample \in Records
    <3>1. sample = [sequence |-> n, dropped |-> drops, critical |-> cost, window_max |-> peak,
                    boot_max |-> boot_max', overruns |-> overrun_count', token |-> token]
      BY <1>2, <1>5, <1>11, <2>5 DEF ProfileSample
    <3> QED BY <1>4, <1>5, <1>12, <2>3, <3>1 DEF Records
  <2> HIDE DEF r
  <2>7. CASE QueueFull
    <3>1. /\ UNCHANGED pumping
          /\ dropped_records' = SaturatingIncrement(drops, DROPPED_MAX)
      BY <1>11, <2>1, <2>7 DEF Publish
    <3>2. PumpTyped' /\ PumpOwns' /\ Stream' = s
      BY <1>0, <1>11, <3>1 DEF pumping, TypeOK, PumpTyped, PumpOwns, Stream
    <3>3. PICK more : more = SaturatingIncrement(drops, DROPPED_MAX)
      OBVIOUS
    <3>4. more \in 0 .. DROPPED_MAX
      BY <1>8, <1>12, <3>3 DEF SaturatingIncrement
    <3>5. Told(s, next + PROFILE_DECIMATION, more)'
      <4>1. \A q \in Records :
              TellsDrops(q, [sequence |-> next, dropped |-> drops]) =>
                TellsDrops(q, [sequence |-> next + PROFILE_DECIMATION, dropped |-> more])
        BY <1>12, <3>3, DropCounted
      <4> QED BY <1>0, <1>4, <1>12, <4>1, ToldOfMoreRuns
    <3>6. Told(Stream, NextSequence, dropped_records)'
      BY <2>3, <3>1, <3>2, <3>3, <3>5 DEF Told
    <3> QED BY <2>2, <2>4, <3>1, <3>2, <3>3, <3>4, <3>6
  <2>8. CASE ~QueueFull
    <3>1. Enqueue(sample) /\ dropped_records' = drops
      BY <1>11, <2>1, <2>5, <2>8 DEF Publish
    <3>2. PumpTyped' /\ PumpOwns' /\ Stream' = Append(s, sample)
      BY <1>0, <1>11, <2>6, <2>8, <3>1, RecordEnqueued
    <3>3. TellsRuns(sample)'
      <4>1. first = n + 1 - PROFILE_DECIMATION + 1
        BY <1>2, <1>5, <1>8, <2>2
      <4>2. IsPeak(sample.window_max, n + 1 - PROFILE_DECIMATION + 1, n + 1)'
        BY <1>5, <2>6, <4>1
      <4>3. IsPeak(sample.boot_max, 1, n + 1)'
        BY <1>5, <2>6 DEF IsPeak
      <4>4. sample.overruns = Min({OVERRUN_MAX, Cardinality(Overruns(n + 1)')})
        BY <1>5, <2>6
      <4>5. (n + 1) % PROFILE_DECIMATION = 0
        BY <2>2
      <4>6. sample.token => run.on_time
        BY <1>4, <2>6
      <4>7. runs \in Seq(Run) /\ runs' \in Seq(Run)
        BY <1>0, <1>6 DEF TypeOK, Run
      <4> QED BY <1>4, <1>5, <1>6, <2>3, <2>6, <4>2, <4>3, <4>4, <4>5, <4>6, <4>7, SampleTells
    <3>4. TellsDrops(sample, [sequence |-> next + PROFILE_DECIMATION, dropped |-> drops])
      <4> DEFINE after == [sequence |-> next + PROFILE_DECIMATION, dropped |-> drops]
      <4>1. after.sequence = next + PROFILE_DECIMATION /\ after.dropped = drops
        OBVIOUS
      <4> HIDE DEF after
      <4>2. after.sequence - sample.sequence = PROFILE_DECIMATION * 1
            /\ 1 + after.dropped - sample.dropped = 1
        BY <1>8, <1>12, <2>6, <4>1
      <4>3. TellsDrops(sample, after)
        BY <4>2 DEF TellsDrops
      <4> QED BY <4>3 DEF after
    <3>5. Told(Append(s, sample), next + PROFILE_DECIMATION, drops)'
      BY <1>0, <1>4, <1>12, <2>6, <3>3, <3>4, ToldOfAccepted
    <3>6. Told(Stream, NextSequence, dropped_records)'
      BY <2>3, <3>1, <3>2, <3>5 DEF Told
    <3> QED BY <1>12, <2>2, <2>4, <3>1, <3>2, <3>6
  <2> QED BY <2>7, <2>8
<1> QED BY <1>14, <1>15

\* The state after init satisfies the invariant.
LEMMA InitIInv == Init => IInv
<1> SUFFICES ASSUME Init PROVE IInv
  OBVIOUS
<1> USE DEF Init, InitPump, IdlePump
<1>1. Len(runs) = 0 /\ runs \in Seq(Run)
  BY EmptySeq
<1>2. /\ PROFILE_DECIMATION \in Nat \ {0} /\ SEQUENCE_RANGE \in Nat \ {0}
      /\ DROPPED_MAX \in Nat /\ OVERRUN_MAX \in Nat /\ MaxRuns \in Nat
      /\ TIMEOUT_AFTER \in Nat
  BY LiveShadowConstants, SensorTimingLimits
<1>3. RunTyped
  <2>1. monitor \in Monitors(-TIMEOUT_AFTER .. 0)
    BY <1>2 DEF NewMonitor, Monitors, SensorTimingHealth
  <2> QED BY <1>1, <1>2, <2>1 DEF RunTyped
<1>4. PumpTyped /\ PumpOwns
  <2>1. queue \in Seq(Records) /\ Len(queue) < QUEUE_STORAGE
    BY EmptySeq, RecordQueueStorage
  <2> QED BY <2>1 DEF PumpTyped, PumpOwns
<1>5. MonitorTimed
  BY DEF MonitorTimed, NewMonitor
<1>6. Stream = <<>>
  <2>1. <<>> \o <<>> = <<>>
    BY EmptySeq, ConcatEmptySeq
  <2> QED BY <2>1 DEF Stream
<1>7. Told(Stream, NextSequence, dropped_records)
  BY <1>6, EmptySeq DEF Told
<1>8. StatisticsTell
  <2>1. 0 % PROFILE_DECIMATION = 0
    <3>1. (0 * PROFILE_DECIMATION + 0) % PROFILE_DECIMATION = 0
      BY <1>2, RemainderUnique
    <3> QED BY <1>2, <3>1
  <2>2. IsPeak(0, 1, 0)
    BY DEF IsPeak
  <2>3. Cardinality(Overruns(0)) = 0
    <3>1. Overruns(0) = {}
      BY DEF Overruns
    <3> QED BY <3>1, FS_EmptySet
  <2>4. Min({OVERRUN_MAX, 0}) = 0
    <3>1. OVERRUN_MAX \in Int /\ 0 \in Int
      BY <1>2
    <3>2. Min({OVERRUN_MAX, 0}) = IF OVERRUN_MAX <= 0 THEN OVERRUN_MAX ELSE 0
      BY <3>1, OfTwo
    <3> QED BY <1>2, <3>2
  <2>5. IsPeak(window_max, 1, 0) /\ IsPeak(boot_max, 1, 0) /\ 1 = 0 - profile_divider + 1
    BY <2>2
  <2>6. overrun_count = Min({OVERRUN_MAX, Cardinality(Overruns(0))})
    BY <2>3, <2>4
  <2>7. StatisticsOf(0)
    BY <1>2, <2>1, <2>5, <2>6 DEF StatisticsOf
  <2> QED BY <1>1, <2>7, StatisticsOfRuns DEF StatisticsSoFar
<1> QED BY <1>3, <1>4, <1>5, <1>7, <1>8, TypeParts, StreamIsTold DEF IInv

\* The pump and the channel keep it.
LEMMA PumpIInv ==
  ASSUME IInv, PumpStep, UNCHANGED <<configured, monitor, silence, statistics>>
  PROVE  IInv'
<1> USE DEF IInv, statistics
<1>0. /\ TypeOK /\ PumpOwns /\ PumpTyped /\ RunTyped
      /\ Told(Stream, NextSequence, dropped_records)
  BY StreamIsTold, TypeParts DEF StreamTells
<1>1. PumpTyped' /\ PumpOwns'
  BY <1>0, PumpOwned
<1>2. RunTyped'
  BY <1>0 DEF RunTyped
<1>3. TypeOK'
  <2>1. (RunTyped /\ PumpTyped => TypeOK)'
    BY TypeParts, PTL
  <2> QED BY <1>1, <1>2, <2>1
<1>4. MonitorTimed' /\ StatisticsTell'
  BY DEF MonitorTimed, StatisticsTell, IsPeak, CostsOf, Overruns
<1>5. Told(Stream, NextSequence, dropped_records)'
  <2>1. PICK s, next, drops : s = Stream /\ next = NextSequence /\ drops = dropped_records
    OBVIOUS
  <2>2. s \in Seq(Records) /\ Told(s, next, drops)
    BY <1>0, <2>1, StreamParts
  <2>3. NextSequence' = next /\ dropped_records' = drops
    BY <2>1 DEF NextSequence
  <2>4. PICK t : t = Stream'
    OBVIOUS
  <2>5. Told(t, next, drops)
    <3>1. t = s \/ (s # <<>> /\ t = Tail(s))
      BY <1>0, <1>1, <1>3, <2>1, <2>4, PumpMoves
    <3>2. s # <<>> => Told(Tail(s), next, drops)
      BY <2>2, ToldOfTail
    <3> QED BY <2>2, <3>1, <3>2
  <2>6. \A r : TellsRuns(r) => TellsRuns(r)'
    BY DEF TellsRuns, CostsOf, Overruns
  <2> QED BY <2>3, <2>4, <2>5, <2>6 DEF Told, TellsDrops
<1>6. (TypeOK /\ PumpOwns =>
        (Told(Stream, NextSequence, dropped_records) => StreamTells /\ NextTells))'
  BY StreamIsTold, PTL
<1> QED BY <1>1, <1>3, <1>4, <1>5, <1>6

\* A millisecond of silence keeps it.
LEMMA TimingHealthIInv == ASSUME IInv, TimingHealth PROVE IInv'
<1> USE DEF IInv, statistics
<1>1. /\ UNCHANGED <<pumping, configured, statistics>>
      /\ silence' = SaturatingIncrement(silence, TIMEOUT_AFTER)
  BY DEF TimingHealth
<1>2. /\ monitor \in Monitors(-TIMEOUT_AFTER .. 0) /\ silence \in 0 .. TIMEOUT_AFTER
      /\ TIMEOUT_AFTER \in Nat
  BY SensorTimingLimits DEF StreamTells, TypeOK
<1>3. PICK reference \in -TIMEOUT_AFTER .. 0 : reference = monitor.reference
  BY <1>2 DEF Monitors
<1>4. PICK aged : aged = IF reference > -TIMEOUT_AFTER THEN reference - 1 ELSE reference
  OBVIOUS
<1>5. aged \in -TIMEOUT_AFTER .. 0
  BY <1>2, <1>4
<1>6. /\ monitor'.seen = monitor.seen /\ monitor'.reference = aged
      /\ monitor' \in Monitors(-TIMEOUT_AFTER .. 0)
  <2> DEFINE m == [monitor EXCEPT !.reference = IF @ > -TIMEOUT_AFTER THEN @ - 1 ELSE @]
  <2>1. monitor' = PollMonitor(m, 0)
    BY DEF TimingHealth
  <2>2. /\ m.seen = monitor.seen /\ m.reference = aged
        /\ m \in Monitors(-TIMEOUT_AFTER .. 0)
    BY <1>2, <1>3, <1>4, <1>5 DEF Monitors
  <2> HIDE DEF m
  <2>3. \A elapsed : ClassifyElapsed(elapsed) \in SensorTimingHealth
    BY DEF ClassifyElapsed, SensorTimingHealth
  <2>4. \E h \in SensorTimingHealth : monitor' = [m EXCEPT !.health = h]
    BY <2>1, <2>3 DEF PollMonitor, SensorTimingHealth
  <2> QED BY <2>2, <2>4 DEF Monitors
<1>7. MonitorTimed'
  <2> SUFFICES ASSUME monitor'.seen PROVE silence' = -monitor'.reference
    BY DEF MonitorTimed
  <2>1. silence = -reference
    BY <1>3, <1>6 DEF MonitorTimed
  <2>2. silence' = -aged
    BY <1>1, <1>2, <1>4, <2>1 DEF SaturatingIncrement
  <2> QED BY <1>6, <2>2
<1>8. silence' \in 0 .. TIMEOUT_AFTER
  BY <1>1, <1>2 DEF SaturatingIncrement
<1>9. TypeOK'
  BY <1>1, <1>6, <1>8 DEF StreamTells, TypeOK, pumping
<1>10. PumpOwns'
  BY <1>1 DEF PumpOwns, pumping
<1>11. StatisticsTell' /\ StreamTells' /\ NextTells'
  <2>1. StatisticsTell'
    BY <1>1 DEF StatisticsTell, IsPeak, CostsOf, Overruns
  <2>2. Stream' = Stream /\ NextSequence' = NextSequence /\ UNCHANGED <<runs, dropped_records>>
    BY <1>1 DEF Stream, NextSequence, pumping
  <2>3. \A r : TellsRuns(r) => TellsRuns(r)'
    BY <2>2 DEF TellsRuns, CostsOf, Overruns
  <2> QED BY <1>9, <2>1, <2>2, <2>3 DEF StreamTells, NextTells, TellsDrops
<1> QED BY <1>7, <1>10, <1>11

\* So does a step that changes nothing.
LEMMA StutterIInv == ASSUME IInv, UNCHANGED vars PROVE IInv'
<1> USE DEF IInv
<1>1. UNCHANGED <<pumping, configured, monitor, silence, statistics>>
  BY DEF vars
<1>2. TypeOK' /\ PumpOwns' /\ MonitorTimed'
  BY <1>1 DEF StreamTells, TypeOK, PumpOwns, MonitorTimed, pumping, statistics
<1>3. StatisticsTell'
  BY <1>1 DEF StatisticsTell, IsPeak, CostsOf, Overruns, statistics
<1>4. Stream' = Stream /\ NextSequence' = NextSequence /\ UNCHANGED <<runs, dropped_records>>
  BY <1>1 DEF Stream, NextSequence, pumping, statistics
<1>5. \A r : TellsRuns(r) => TellsRuns(r)'
  BY <1>4 DEF TellsRuns, CostsOf, Overruns
<1>6. StreamTells' /\ NextTells'
  BY <1>2, <1>4, <1>5 DEF StreamTells, NextTells, TellsDrops
<1> QED BY <1>2, <1>3, <1>6

\* Every step keeps it.
LEMMA StepIInv == IInv /\ [Next]_vars => IInv'
<1> SUFFICES ASSUME IInv, [Next]_vars PROVE IInv'
  OBVIOUS
<1>1. CASE ProfileTxDma \/ ProfileTransferComplete
  BY <1>1, PumpIInv DEF ProfileTxDma, ProfileTransferComplete, PumpStep
<1> QED BY <1>1, ImuDataReadyIInv, TimingHealthIInv, StutterIInv DEF Next

\* The inductive invariant of live-shadow.
THEOREM Invariance == Spec => []IInv
BY InitIInv, StepIInv, PTL DEF Spec

\* Types of live-shadow; its queue never holds more than its storage allows.
THEOREM TypeCorrect == Spec => []TypeOK
<1>1. IInv => TypeOK
  BY DEF IInv, StreamTells
<1> QED BY <1>1, Invariance, PTL

\* Every record on its way says what is true of the runs it stands for, and each
\* one tells from the one before it how many windows were dropped between them,
\* for every decimation, deadline, queue and counter, and every interleaving of
\* the runs, the timing monitor, the pump and the channel.
THEOREM StreamIsTrue == Spec => []StreamTells
<1>1. IInv => StreamTells
  BY DEF IInv
<1> QED BY <1>1, Invariance, PTL

-----------------------------------------------------------------------------
(* The outputs of io-shadow: numbers that wrap, and what is told modulo      *)
(* their range.                                                              *)

\* What leaves no remainder is a multiple, and any multiple away leaves none.
LEMMA Multiples ==
  ASSUME NEW d \in Nat \ {0}, NEW n \in Int
  PROVE  n % d = 0 <=> \E q \in Int : n = q * d
<1>1. ASSUME n % d = 0 PROVE \E q \in Int : n = q * d
  <2>1. PICK q \in Int : n = q * d + (n % d)
    BY RemainderExists
  <2> QED BY <1>1, <2>1
<1>2. ASSUME NEW q \in Int, n = q * d PROVE n % d = 0
  <2>1. n = q * d + 0 /\ 0 \in 0 .. d - 1
    BY <1>2
  <2> QED BY <2>1, RemainderUnique
<1> QED BY <1>1, <1>2

LEMMA MultipleShifts ==
  ASSUME NEW d \in Nat \ {0}, NEW n \in Int, n % d = 0, NEW k \in Int
  PROVE  (n + k * d) % d = 0
<1>1. PICK q \in Int : n = q * d
  BY Multiples
<1>2. n + k * d = (q + k) * d /\ n + k * d \in Int /\ q + k \in Int
  BY <1>1
<1> QED BY <1>2, Multiples

\* The numbers of the outputs.
Word == 0 .. U32_RANGE - 1

\* A number grows by one, or falls by what is a whole range less than that.
LEMMA IncrementIs ==
  ASSUME NEW n \in Word
  PROVE  /\ Increment(n) \in Word
         /\ Increment(n) = IF n + 1 = U32_RANGE THEN 0 ELSE n + 1
         /\ \E k \in {0, -1} : Increment(n) = n + 1 + k * U32_RANGE
<1>1. U32_RANGE \in Nat \ {0}
  BY IoShadowConstants
<1>2. n = 0 * U32_RANGE + n
  BY <1>1 DEF Word
<1>3. n % U32_RANGE = n
  BY <1>1, <1>2, RemainderUnique DEF Word
<1>4. Increment(n) = IF n + 1 = U32_RANGE THEN 0 ELSE n + 1
  <2>1. n \in Int
    BY <1>1 DEF Word
  <2>2. (n + 1) % U32_RANGE = IF (n % U32_RANGE) + 1 = U32_RANGE
                              THEN 0 ELSE (n % U32_RANGE) + 1
    BY <1>1, <2>1, RemainderNext
  <2> QED BY <1>3, <2>2 DEF Increment
<1>5. CASE n + 1 = U32_RANGE
  <2>1. 0 = n + 1 + (-1) * U32_RANGE
    BY <1>1, <1>5 DEF Word
  <2> QED BY <1>1, <1>4, <1>5, <2>1 DEF Word
<1>6. CASE n + 1 # U32_RANGE
  <2>1. n + 1 = n + 1 + 0 * U32_RANGE
    BY <1>1 DEF Word
  <2> QED BY <1>1, <1>4, <1>6, <2>1 DEF Word
<1> QED BY <1>5, <1>6

\* One number that steps with something that does not wrap stays in step with it.
LEMMA StepsWithHistory ==
  ASSUME NEW x \in Word, NEW z \in Int, (x - z) % U32_RANGE = 0
  PROVE  (Increment(x) - (z + 1)) % U32_RANGE = 0
<1>1. U32_RANGE \in Nat \ {0} /\ x \in Int
  BY IoShadowConstants DEF Word
<1>2. PICK k \in {0, -1} : Increment(x) = x + 1 + k * U32_RANGE
  BY IncrementIs
<1>3. k \in Int /\ x - z \in Int
  BY <1>1
<1>4. (x - z + k * U32_RANGE) % U32_RANGE = 0
  BY <1>1, <1>3, MultipleShifts
<1>5. Increment(x) - (z + 1) = x - z + k * U32_RANGE
  BY <1>1, <1>2, <1>3
<1> QED BY <1>4, <1>5

\* Two numbers that step together stay as far apart.
LEMMA StepTogether ==
  ASSUME NEW x \in Word, NEW y \in Word, NEW z \in Int, (x - y - z) % U32_RANGE = 0
  PROVE  (Increment(x) - Increment(y) - z) % U32_RANGE = 0
<1>1. U32_RANGE \in Nat \ {0} /\ x \in Int /\ y \in Int
  BY IoShadowConstants DEF Word
<1>2. PICK k \in {0, -1} : Increment(x) = x + 1 + k * U32_RANGE
  BY IncrementIs
<1>3. PICK j \in {0, -1} : Increment(y) = y + 1 + j * U32_RANGE
  BY IncrementIs
<1>4. k - j \in Int /\ x - y - z \in Int
  BY <1>1
<1>5. (x - y - z + (k - j) * U32_RANGE) % U32_RANGE = 0
  BY <1>1, <1>4, MultipleShifts
<1>6. Increment(x) - Increment(y) - z = x - y - z + (k - j) * U32_RANGE
  <2>1. (k - j) * U32_RANGE = k * U32_RANGE - j * U32_RANGE
    BY <1>1
  <2> QED BY <1>1, <1>2, <1>3, <2>1
<1> QED BY <1>5, <1>6

\* What an attempt does to the statistics, with the telemetry's fourth field or
\* without it.
TelemetryStatistics == [next_sequence : Word, opportunities : Word, done : Word, busy : Word]

LEMMA CountedIs ==
  ASSUME NEW stats \in Statistics \cup TelemetryStatistics, NEW answer \in Answers
  PROVE  /\ stats \in Statistics => Counted(stats, answer) \in Statistics
         /\ stats \in TelemetryStatistics =>
              /\ Counted(stats, answer) \in TelemetryStatistics
              /\ Counted(stats, answer).next_sequence = stats.next_sequence
         /\ stats.opportunities \in Word /\ stats.done \in Word /\ stats.busy \in Word
         /\ Counted(stats, answer).opportunities = Increment(stats.opportunities)
         /\ Counted(stats, answer).done
              = IF answer = "Done" THEN Increment(stats.done) ELSE stats.done
         /\ Counted(stats, answer).busy
              = IF answer = "Busy" THEN Increment(stats.busy) ELSE stats.busy
<1>1. stats.opportunities \in Word /\ stats.done \in Word /\ stats.busy \in Word
  BY DEF Statistics, TelemetryStatistics, Word
<1>2. /\ Increment(stats.opportunities) \in Word /\ Increment(stats.done) \in Word
      /\ Increment(stats.busy) \in Word
  BY <1>1, IncrementIs
<1>3. CASE stats \in Statistics /\ stats \notin TelemetryStatistics
  BY <1>1, <1>2, <1>3 DEF Counted, Statistics, Word, Answers
<1>4. CASE stats \in TelemetryStatistics
  <2>1. stats \notin Statistics
    <3>1. "next_sequence" \in DOMAIN stats
      BY <1>4 DEF TelemetryStatistics
    <3>2. stats \in Statistics => "next_sequence" \notin DOMAIN stats
      BY DEF Statistics
    <3> QED BY <3>1, <3>2
  <2> QED BY <1>1, <1>2, <1>4, <2>1 DEF Counted, TelemetryStatistics, Answers
<1> QED BY <1>3, <1>4

\* What an attempt does to the history.
LEMMA TriedIs ==
  ASSUME NEW history \in History, NEW answer \in Answers
  PROVE  /\ Tried(history, answer) \in History /\ Untried(history) \in History
         /\ Tried(history, answer).errors
              = IF answer = "Error" THEN history.errors + 1 ELSE history.errors
         /\ Tried(history, answer).silent
              = IF answer = "Done" THEN 0 ELSE history.silent + 1
         /\ Tried(history, answer).untried = 0
         /\ Untried(history).errors = history.errors
         /\ Untried(history).silent = history.silent
         /\ Untried(history).untried = history.untried + 1
         /\ history.errors \in Nat /\ history.silent \in Nat /\ history.untried \in Nat
BY DEF Tried, Untried, History, Answers

\* The failed attempts can still be told after another attempt.
LEMMA ErrorsStillInferred ==
  ASSUME NEW stats \in Statistics \cup TelemetryStatistics, NEW history \in History,
         NEW answer \in Answers, ErrorsInferred(stats, history)
  PROVE  ErrorsInferred(Counted(stats, answer), Tried(history, answer))
<1> DEFINE o == stats.opportunities
           d == stats.done
           b == stats.busy
           e == history.errors
<1>1. /\ o \in Word /\ d \in Word /\ b \in Word /\ e \in Nat
      /\ o \in Int /\ d \in Int /\ b \in Int /\ e \in Int
  <2>1. o \in Word /\ d \in Word /\ b \in Word
    BY CountedIs
  <2> QED BY <2>1, TriedIs DEF Word
<1>2. (o - d - b - e) % U32_RANGE = 0
  BY DEF ErrorsInferred
<1> HIDE DEF o, d, b, e
<1>3. CASE answer = "Done"
  <2>1. (o - d - (b + e)) % U32_RANGE = 0
    <3>1. o - d - b - e = o - d - (b + e)
      BY <1>1
    <3> QED BY <1>2, <3>1
  <2>2. (Increment(o) - Increment(d) - (b + e)) % U32_RANGE = 0
    BY <1>1, <2>1, StepTogether
  <2>3. Increment(o) - Increment(d) - b - e = Increment(o) - Increment(d) - (b + e)
    <3>1. Increment(o) \in Int /\ Increment(d) \in Int
      BY <1>1, IncrementIs DEF Word
    <3> QED BY <1>1, <3>1
  <2>4. (Increment(o) - Increment(d) - b - e) % U32_RANGE = 0
    BY <2>2, <2>3
  <2>5. /\ Counted(stats, answer).opportunities = Increment(o)
        /\ Counted(stats, answer).done = Increment(d)
        /\ Counted(stats, answer).busy = b
        /\ Tried(history, answer).errors = e
    BY <1>3, CountedIs, TriedIs DEF o, d, b, e
  <2> QED BY <2>4, <2>5 DEF ErrorsInferred
<1>4. CASE answer = "Busy"
  <2>1. (o - b - (d + e)) % U32_RANGE = 0
    <3>1. o - d - b - e = o - b - (d + e)
      BY <1>1
    <3> QED BY <1>2, <3>1
  <2>2. (Increment(o) - Increment(b) - (d + e)) % U32_RANGE = 0
    BY <1>1, <2>1, StepTogether
  <2>3. Increment(o) - d - Increment(b) - e = Increment(o) - Increment(b) - (d + e)
    <3>1. Increment(o) \in Int /\ Increment(b) \in Int
      BY <1>1, IncrementIs DEF Word
    <3> QED BY <1>1, <3>1
  <2>4. (Increment(o) - d - Increment(b) - e) % U32_RANGE = 0
    BY <2>2, <2>3
  <2>5. /\ Counted(stats, answer).opportunities = Increment(o)
        /\ Counted(stats, answer).done = d
        /\ Counted(stats, answer).busy = Increment(b)
        /\ Tried(history, answer).errors = e
    BY <1>4, CountedIs, TriedIs DEF o, d, b, e
  <2> QED BY <2>4, <2>5 DEF ErrorsInferred
<1>5. CASE answer = "Error"
  <2>1. (o - (d + b + e)) % U32_RANGE = 0
    <3>1. o - d - b - e = o - (d + b + e)
      BY <1>1
    <3> QED BY <1>2, <3>1
  <2>2. (Increment(o) - (d + b + e + 1)) % U32_RANGE = 0
    BY <1>1, <2>1, StepsWithHistory
  <2>3. Increment(o) - d - b - (e + 1) = Increment(o) - (d + b + e + 1)
    <3>1. Increment(o) \in Int
      BY <1>1, IncrementIs DEF Word
    <3> QED BY <1>1, <3>1
  <2>4. (Increment(o) - d - b - (e + 1)) % U32_RANGE = 0
    BY <2>2, <2>3
  <2>5. /\ Counted(stats, answer).opportunities = Increment(o)
        /\ Counted(stats, answer).done = d
        /\ Counted(stats, answer).busy = b
        /\ Tried(history, answer).errors = e + 1
    BY <1>5, CountedIs, TriedIs DEF o, d, b, e
  <2> QED BY <2>4, <2>5 DEF ErrorsInferred
<1> QED BY <1>3, <1>4, <1>5 DEF Answers

\* An output that is not tried at a tick waits for one more since its last attempt;
\* one whose decimation divides the range is tried when it has waited for all.
LEMMA CadenceIs ==
  ASSUME NEW t \in Word, NEW d \in 1 .. U32_RANGE
  PROVE  /\ t % d \in 0 .. d - 1 /\ Increment(t) % d \in 0 .. d - 1
         /\ Increment(t) % d # 0 =>
              Increment(t) = t + 1 /\ Increment(t) % d = (t % d) + 1
         /\ U32_RANGE % d = 0 /\ Increment(t) % d = 0 => (t % d) + 1 = d
<1>1. U32_RANGE \in Nat \ {0} /\ d \in Nat \ {0} /\ t \in Int
  BY IoShadowConstants DEF Word
<1>2. Increment(t) \in Int
  BY <1>1, IncrementIs DEF Word
<1>3. t % d \in 0 .. d - 1 /\ Increment(t) % d \in 0 .. d - 1
  BY <1>1, <1>2, RemainderExists
<1>4. (t + 1) % d = IF (t % d) + 1 = d THEN 0 ELSE (t % d) + 1
  BY <1>1, RemainderNext
<1>5. Increment(t) = IF t + 1 = U32_RANGE THEN 0 ELSE t + 1
  BY IncrementIs
<1>6. 0 % d = 0
  <2>1. 0 = 0 * d /\ 0 \in Int
    BY <1>1
  <2> QED BY <1>1, <2>1, Multiples
<1>7. CASE t + 1 = U32_RANGE
  <2>1. Increment(t) = 0 /\ Increment(t) % d = 0
    BY <1>5, <1>6, <1>7
  <2>2. U32_RANGE % d = 0 => (t % d) + 1 = d
    BY <1>1, <1>3, <1>4, <1>7
  <2> QED BY <1>3, <2>1, <2>2
<1>8. CASE t + 1 # U32_RANGE
  <2>1. Increment(t) = t + 1 /\ Increment(t) % d = (t + 1) % d
    BY <1>5, <1>8
  <2> QED BY <1>1, <1>3, <1>4, <2>1
<1> QED BY <1>7, <1>8

\* At a tick that publishes, the next packet's number tells the tick.
LEMMA NumberTellsTick ==
  ASSUME OutputsInv, Increment(tick) % TELEMETRY_DECIMATION = 0
  PROVE  /\ Increment(tick)
              = ((telemetry.next_sequence + 1) * TELEMETRY_DECIMATION) % U32_RANGE
         /\ (Increment(telemetry.next_sequence) * TELEMETRY_DECIMATION
               + 0 - Increment(tick)) % U32_RANGE = 0
<1> DEFINE n == telemetry.next_sequence
           d == TELEMETRY_DECIMATION
           u == seen.telemetry.untried
           M == U32_RANGE
<1>1. /\ M \in Nat \ {0} /\ d \in 1 .. M /\ M % d = 0 /\ d \in Int
      /\ n \in Word /\ tick \in Word /\ n \in Int /\ tick \in Int
  BY IoShadowConstants DEF OutputsInv, OutputsTell, OutputsTyped, Word
<1>2. u = tick % d /\ (n * d + u - tick) % M = 0
  BY DEF OutputsInv, CountersInStep
<1>3. u + 1 = d /\ u \in Int
  BY <1>1, <1>2, CadenceIs
<1>4. PICK k \in {0, -1} : Increment(tick) = tick + 1 + k * M
  BY <1>1, IncrementIs
<1>5. PICK j \in {0, -1} : Increment(n) = n + 1 + j * M
  BY <1>1, IncrementIs
<1>6. Increment(tick) \in 0 .. M - 1
  BY <1>1, IncrementIs DEF Word
<1> HIDE DEF n, d, u, M
<1>7. k \in Int /\ j \in Int /\ u \in Int
  BY <1>1, <1>3
<1>8. n * d \in Int /\ j * d \in Int /\ k * M \in Int
  BY <1>1, <1>7
<1>9. PICK q \in Int : n * d + u - tick = q * M
  <2>1. n * d + u - tick \in Int
    BY <1>1, <1>7, <1>8
  <2> QED BY <1>1, <1>2, <2>1, Multiples
<1>10. (n + 1) * d = n * d + d
  BY <1>1
<1>11. (n + 1) * d = q * M - k * M + Increment(tick)
  <2>1. q * M \in Int
    BY <1>1
  <2> QED BY <1>1, <1>3, <1>4, <1>7, <1>8, <1>9, <1>10, <2>1
<1>12. (n + 1) * d = (q - k) * M + Increment(tick)
  <2>1. (q - k) * M = q * M - k * M
    BY <1>1, <1>7
  <2> QED BY <1>11, <2>1
<1>13. ((n + 1) * d) % M = Increment(tick)
  <2>1. q - k \in Int
    BY <1>7
  <2>2. ((q - k) * M + Increment(tick)) % M = Increment(tick)
    BY <1>1, <1>6, <2>1, RemainderUnique
  <2> QED BY <1>12, <2>2
<1>14. Increment(n) * d + 0 - Increment(tick) = (q - k + j * d) * M
  <2>1. Increment(n) * d = (n + 1) * d + (j * M) * d
    BY <1>1, <1>5, <1>7
  <2>2. (j * M) * d = (j * d) * M
    BY <1>1, <1>7
  <2>3. (q - k + j * d) * M = (q - k) * M + (j * d) * M
    BY <1>1, <1>7, <1>8
  <2>4. /\ (n + 1) * d \in Int /\ (j * d) * M \in Int /\ (q - k) * M \in Int
        /\ Increment(tick) \in Int
    BY <1>1, <1>6, <1>7, <1>8
  <2> QED BY <1>12, <2>1, <2>2, <2>3, <2>4
<1>15. (Increment(n) * d + 0 - Increment(tick)) % M = 0
  <2>1. q - k + j * d \in Int
    BY <1>7, <1>8
  <2>2. (q - k + j * d) * M \in Int
    BY <1>1, <2>1
  <2> QED BY <1>1, <1>14, <2>1, <2>2, Multiples
<1> QED BY <1>13, <1>15 DEF n, d, M

\* The telemetry's part of the invariant.
TelemetryTells ==
  /\ telemetry \in TelemetryStatistics
  /\ packet \in [sequence : Word, sample_index : Word] \cup {Nothing}
  /\ ErrorsInferred(telemetry, seen.telemetry)
  /\ GapIsSilence /\ PacketDatesItself
  /\ seen.telemetry.untried < TELEMETRY_DECIMATION
  /\ seen.telemetry.untried = tick % TELEMETRY_DECIMATION
  /\ (telemetry.next_sequence * TELEMETRY_DECIMATION + seen.telemetry.untried - tick)
        % U32_RANGE = 0

\* The display's part of it.
DisplayTells ==
  /\ oled \in Statistics
  /\ page \in Pages /\ shown \in Pages \cup {"blank"}
  /\ ErrorsInferred(oled, seen.oled)
  /\ DisplayIsRecent
  /\ seen.oled.untried < OLED_DECIMATION
  /\ seen.oled.untried = tick % OLED_DECIMATION

LEMMA TwoOutputs ==
  /\ OutputsInv <=> /\ tick \in Word
                    /\ seen \in [ticks : Nat, telemetry : History, oled : History]
                    /\ TelemetryTells /\ DisplayTells
  /\ OutputsInv' <=> /\ tick' \in Word
                     /\ seen' \in [ticks : Nat, telemetry : History, oled : History]
                     /\ TelemetryTells' /\ DisplayTells'
BY DEF OutputsInv, OutputsTell, OutputsTyped, HistoryTyped, CountersInStep, CadenceKept,
       TelemetryTells, DisplayTells, Statistics, TelemetryStatistics, Word

\* A packet has a number.
LEMMA PacketIsSomething ==
  \A p \in [sequence : Word, sample_index : Word] : p # Nothing
<1>1. -1 \notin Word
  BY IoShadowConstants DEF Word
<1>2. Nothing.sequence = -1
  BY DEF Nothing
<1> QED BY <1>1, <1>2

\* An attempt to publish keeps it, whatever the transport answers.
LEMMA PublishTells ==
  ASSUME OutputsInv, tick' = Increment(tick), tick' % TELEMETRY_DECIMATION = 0,
         NEW answer \in Answers, PublishLatest(tick', answer),
         seen.telemetry \in History, seen'.telemetry = Tried(seen.telemetry, answer)
  PROVE  TelemetryTells'
<1> DEFINE n == telemetry.next_sequence
<1>1. /\ tick \in Word /\ TelemetryTells /\ telemetry \in TelemetryStatistics
      /\ U32_RANGE \in Nat \ {0} /\ TELEMETRY_DECIMATION \in 1 .. U32_RANGE
  BY TwoOutputs, IoShadowConstants DEF TelemetryTells
<1>2. n \in Word /\ Increment(n) \in Word /\ tick' \in Word
  BY <1>1, IncrementIs DEF TelemetryStatistics
<1>3. PICK counted \in TelemetryStatistics : counted = Counted(telemetry, answer)
  BY <1>1, CountedIs
<1>4. telemetry' = [counted EXCEPT !.next_sequence = Increment(n)]
  <2>1. counted.next_sequence = n
    BY <1>1, <1>3, CountedIs
  <2> QED BY <1>3, <2>1 DEF PublishLatest
<1>5. /\ telemetry' \in TelemetryStatistics /\ telemetry'.next_sequence = Increment(n)
      /\ telemetry'.opportunities = counted.opportunities
      /\ telemetry'.done = counted.done /\ telemetry'.busy = counted.busy
  BY <1>2, <1>3, <1>4 DEF TelemetryStatistics
<1>6. ErrorsInferred(telemetry, seen.telemetry)'
  <2>1. ErrorsInferred(Counted(telemetry, answer), Tried(seen.telemetry, answer))
    BY <1>1, ErrorsStillInferred DEF TelemetryTells
  <2> QED BY <1>3, <1>5, <2>1 DEF ErrorsInferred
<1>7. seen'.telemetry.untried = 0
  BY TriedIs
<1>8. /\ tick' = ((n + 1) * TELEMETRY_DECIMATION) % U32_RANGE
      /\ (Increment(n) * TELEMETRY_DECIMATION + 0 - tick') % U32_RANGE = 0
  BY NumberTellsTick
<1>9. /\ packet' \in [sequence : Word, sample_index : Word] \cup {Nothing}
      /\ PacketDatesItself'
  <2>1. CASE answer = "Done"
    <3>1. packet' = [sequence |-> n, sample_index |-> tick']
      BY <2>1 DEF PublishLatest, Packet
    <3>2. PICK at : at = tick'
      OBVIOUS
    <3>3. packet' = [sequence |-> n, sample_index |-> at] /\ at \in Word
      BY <1>2, <3>1, <3>2
    <3> QED BY <1>2, <1>8, <3>2, <3>3 DEF PacketDatesItself
  <2>2. CASE answer # "Done"
    <3>1. packet' = packet
      BY <2>2 DEF PublishLatest
    <3> QED BY <1>1, <3>1 DEF TelemetryTells, PacketDatesItself
  <2> QED BY <2>1, <2>2
<1>10. GapIsSilence'
  <2>1. CASE answer = "Done"
    <3>1. packet'.sequence = n /\ seen'.telemetry.silent = 0
      <4>1. packet'.sequence = n
        BY <2>1 DEF PublishLatest, Packet
      <4>2. Tried(seen.telemetry, answer).silent = 0
        BY <2>1, TriedIs
      <4> QED BY <4>1, <4>2
    <3>2. (n - n) % U32_RANGE = 0
      <4>1. n - n = 0 * U32_RANGE /\ n - n \in Int
        BY <1>1, <1>2 DEF Word
      <4> QED BY <1>1, <4>1, Multiples
    <3>3. (Increment(n) - (n + 1)) % U32_RANGE = 0
      BY <1>2, <3>2, StepsWithHistory DEF Word
    <3>4. Increment(n) - n - 1 - 0 = Increment(n) - (n + 1)
      BY <1>1, <1>2 DEF Word
    <3>5. (Increment(n) - n - 1 - 0) % U32_RANGE = 0
      BY <3>3, <3>4
    <3> QED BY <1>5, <3>1, <3>5 DEF GapIsSilence
  <2>2. CASE answer # "Done"
    <3> DEFINE s == packet.sequence
               silent == seen.telemetry.silent
    <3>1. packet' = packet /\ seen'.telemetry.silent = silent + 1 /\ silent \in Int
      <4>1. packet' = packet
        BY <2>2 DEF PublishLatest
      <4>2. Tried(seen.telemetry, answer).silent = silent + 1 /\ silent \in Int
        BY <2>2, TriedIs
      <4> QED BY <4>1, <4>2
    <3>2. SUFFICES ASSUME packet # Nothing
                   PROVE  (Increment(n) - s - 1 - (silent + 1)) % U32_RANGE = 0
      BY <1>5, <3>1 DEF GapIsSilence
    <3>3. s \in Int
      BY <1>1, <3>2 DEF TelemetryTells, Word
    <3>4. (n - s - 1 - silent) % U32_RANGE = 0
      BY <1>1, <3>2 DEF TelemetryTells, GapIsSilence
    <3>5. n \in Int /\ Increment(n) \in Int
      BY <1>2 DEF Word
    <3> HIDE DEF n, s, silent
    <3>6. n - (s + 1 + silent) = n - s - 1 - silent
      BY <3>1, <3>3, <3>5
    <3>7. (Increment(n) - (s + 1 + silent + 1)) % U32_RANGE = 0
      <4>1. (n - (s + 1 + silent)) % U32_RANGE = 0 /\ s + 1 + silent \in Int
        BY <3>1, <3>3, <3>4, <3>6
      <4> QED BY <1>2, <4>1, StepsWithHistory
    <3>8. Increment(n) - s - 1 - (silent + 1) = Increment(n) - (s + 1 + silent + 1)
      BY <3>1, <3>3, <3>5
    <3> QED BY <3>7, <3>8
  <2> QED BY <2>1, <2>2
<1> HIDE DEF n
<1> QED BY <1>1, <1>5, <1>6, <1>7, <1>8, <1>9, <1>10 DEF TelemetryTells

\* A tick that does not publish keeps it too.
LEMMA NoPublishTells ==
  ASSUME OutputsInv, tick' = Increment(tick), tick' % TELEMETRY_DECIMATION # 0,
         UNCHANGED <<telemetry, packet>>,
         seen.telemetry \in History, seen'.telemetry = Untried(seen.telemetry)
  PROVE  TelemetryTells'
<1> DEFINE u == seen.telemetry.untried
<1>1. /\ tick \in Word /\ TelemetryTells
      /\ U32_RANGE \in Nat \ {0} /\ TELEMETRY_DECIMATION \in 1 .. U32_RANGE
  BY TwoOutputs, IoShadowConstants DEF TelemetryTells
<1>2. /\ tick' = tick + 1 /\ tick' % TELEMETRY_DECIMATION = u + 1
      /\ tick' % TELEMETRY_DECIMATION < TELEMETRY_DECIMATION
  BY <1>1, CadenceIs DEF TelemetryTells
<1>3. /\ seen'.telemetry.errors = seen.telemetry.errors
      /\ seen'.telemetry.silent = seen.telemetry.silent
      /\ seen'.telemetry.untried = u + 1 /\ u \in Nat
  BY TriedIs DEF Answers
<1>4. (telemetry.next_sequence * TELEMETRY_DECIMATION + (u + 1) - (tick + 1)) % U32_RANGE = 0
  <2>1. telemetry.next_sequence * TELEMETRY_DECIMATION \in Int /\ tick \in Int
    BY <1>1 DEF TelemetryTells, TelemetryStatistics, Word
  <2>2. telemetry.next_sequence * TELEMETRY_DECIMATION + (u + 1) - (tick + 1)
          = telemetry.next_sequence * TELEMETRY_DECIMATION + u - tick
    BY <1>3, <2>1
  <2> QED BY <1>1, <2>2 DEF TelemetryTells
<1>5. ErrorsInferred(telemetry, seen.telemetry)' /\ GapIsSilence' /\ PacketDatesItself'
  BY <1>1, <1>3 DEF TelemetryTells, ErrorsInferred, GapIsSilence, PacketDatesItself
<1> HIDE DEF u
<1> QED BY <1>1, <1>2, <1>3, <1>4, <1>5 DEF TelemetryTells

\* One page more is one page later.
LEMMA OneLater ==
  ASSUME NEW p \in Pages, NEW turns \in Nat
  PROVE  Later(p, turns) \in Pages /\ NextPage(Later(p, turns)) = Later(p, turns + 1)
<1>1. (turns + 1) % 3 = IF (turns % 3) + 1 = 3 THEN 0 ELSE (turns % 3) + 1
  BY RemainderNext
<1>2. turns % 3 \in 0 .. 2
  BY RemainderExists
<1>3. /\ NextPage(p) \in Pages /\ NextPage(NextPage(p)) \in Pages
      /\ NextPage(NextPage(NextPage(p))) = p
  BY DEF NextPage, Pages
<1> QED BY <1>1, <1>2, <1>3 DEF Later

\* An attempt to show a page keeps the display's part, whatever it answers.
LEMMA PresentTells ==
  ASSUME OutputsInv, tick' = Increment(tick), tick' % OLED_DECIMATION = 0,
         NEW answer \in Answers, PresentLatest(answer),
         seen.oled \in History, seen'.oled = Tried(seen.oled, answer)
  PROVE  DisplayTells'
<1>1. DisplayTells /\ oled \in Statistics /\ OLED_DECIMATION > 0
  BY TwoOutputs, IoShadowConstants DEF DisplayTells
<1>2. oled' = Counted(oled, answer) /\ oled' \in Statistics
  BY <1>1, CountedIs DEF PresentLatest
<1>3. ErrorsInferred(oled, seen.oled)'
  <2>1. ErrorsInferred(Counted(oled, answer), Tried(seen.oled, answer))
    BY <1>1, ErrorsStillInferred DEF DisplayTells
  <2> QED BY <1>2, <2>1 DEF ErrorsInferred
<1>4. seen'.oled.untried = 0 /\ seen.oled.silent \in Nat
  BY TriedIs
<1>5. page' = NextPage(page) /\ page' \in Pages /\ page \in Pages
  BY <1>1 DEF DisplayTells, PresentLatest, NextPage, Pages
<1>6. shown' \in Pages \cup {"blank"} /\ DisplayIsRecent'
  <2>1. CASE answer = "Done"
    <3>1. shown' = page /\ seen'.oled.silent = 0
      <4>1. shown' = page
        BY <2>1 DEF PresentLatest
      <4>2. Tried(seen.oled, answer).silent = 0
        BY <2>1, TriedIs
      <4> QED BY <4>1, <4>2
    <3>2. Later(page, 0) = page /\ Later(page, 0 + 1) = NextPage(page)
      BY <1>5, OneLater DEF Later
    <3> QED BY <1>5, <3>1, <3>2 DEF DisplayIsRecent
  <2>2. CASE answer # "Done"
    <3>1. shown' = shown /\ seen'.oled.silent = seen.oled.silent + 1
      <4>1. shown' = shown
        BY <2>2 DEF PresentLatest
      <4>2. Tried(seen.oled, answer).silent = seen.oled.silent + 1
        BY <2>2, TriedIs
      <4> QED BY <4>1, <4>2
    <3>2. shown \in Pages \cup {"blank"} /\ (shown # "blank" => shown \in Pages)
      BY <1>1 DEF DisplayTells
    <3>3. shown # "blank" =>
            NextPage(page) = Later(shown, seen.oled.silent + 1 + 1)
      <4>1. PICK turns \in Nat : turns = seen.oled.silent + 1
        BY <1>4
      <4>2. shown # "blank" => page = Later(shown, turns)
        BY <1>1, <4>1 DEF DisplayTells, DisplayIsRecent
      <4>3. shown # "blank" => NextPage(Later(shown, turns)) = Later(shown, turns + 1)
        BY <3>2, OneLater
      <4> QED BY <4>1, <4>2, <4>3
    <3> QED BY <1>5, <3>1, <3>2, <3>3 DEF DisplayIsRecent
  <2> QED BY <2>1, <2>2
<1> QED BY <1>1, <1>2, <1>3, <1>4, <1>5, <1>6 DEF DisplayTells

\* A tick that shows none keeps it too.
LEMMA NoPresentTells ==
  ASSUME OutputsInv, tick' = Increment(tick), tick' % OLED_DECIMATION # 0,
         UNCHANGED <<oled, page, shown>>,
         seen.oled \in History, seen'.oled = Untried(seen.oled)
  PROVE  DisplayTells'
<1>1. tick \in Word /\ DisplayTells /\ OLED_DECIMATION \in 1 .. U32_RANGE
  BY TwoOutputs, IoShadowConstants
<1>2. /\ tick' % OLED_DECIMATION = seen.oled.untried + 1
      /\ tick' % OLED_DECIMATION < OLED_DECIMATION
  BY <1>1, CadenceIs DEF DisplayTells
<1>3. /\ seen'.oled.errors = seen.oled.errors
      /\ seen'.oled.silent = seen.oled.silent
      /\ seen'.oled.untried = seen.oled.untried + 1
  BY TriedIs DEF Answers
<1> QED BY <1>1, <1>2, <1>3 DEF DisplayTells, ErrorsInferred, DisplayIsRecent

\* It holds at first: nothing has been counted, and no tick has passed.
LEMMA InitOutputsInv == InitOutputs => OutputsInv
<1> SUFFICES ASSUME InitOutputs PROVE OutputsInv
  OBVIOUS
<1> USE DEF InitOutputs
<1>1. /\ U32_RANGE \in Nat \ {0}
      /\ TELEMETRY_DECIMATION \in Nat \ {0} /\ OLED_DECIMATION \in Nat \ {0}
  BY IoShadowConstants
<1>2. \A d \in Nat \ {0} : 0 % d = 0
  <2>1. \A d \in Nat \ {0} : 0 = 0 * d
    OBVIOUS
  <2> QED BY <2>1, Multiples
<1>3. /\ tick \in Word
      /\ seen \in [ticks : Nat, telemetry : History, oled : History]
  BY <1>1 DEF Word, History
<1>4. TelemetryTells
  <2>1. /\ telemetry \in TelemetryStatistics
        /\ packet \in [sequence : Word, sample_index : Word] \cup {Nothing}
    BY <1>1 DEF TelemetryStatistics, Word
  <2>2. ErrorsInferred(telemetry, seen.telemetry)
    BY <1>1, <1>2, 0 - 0 - 0 - 0 = 0 DEF ErrorsInferred
  <2>3. (0 * TELEMETRY_DECIMATION + 0 - 0) % U32_RANGE = 0
    <3>1. 0 * TELEMETRY_DECIMATION + 0 - 0 = 0
      BY <1>1
    <3> QED BY <1>1, <1>2, <3>1
  <2>4. GapIsSilence /\ PacketDatesItself
    BY DEF GapIsSilence, PacketDatesItself
  <2>5. /\ seen.telemetry.untried = 0 /\ tick = 0 /\ telemetry.next_sequence = 0
        /\ 0 < TELEMETRY_DECIMATION /\ 0 % TELEMETRY_DECIMATION = 0
    BY <1>1, <1>2
  <2> QED BY <2>1, <2>2, <2>3, <2>4, <2>5 DEF TelemetryTells
<1>5. DisplayTells
  <2>1. oled \in Statistics /\ page \in Pages /\ shown \in Pages \cup {"blank"}
    BY <1>1 DEF Statistics, Pages
  <2>2. ErrorsInferred(oled, seen.oled)
    BY <1>1, <1>2, 0 - 0 - 0 - 0 = 0 DEF ErrorsInferred
  <2>3. DisplayIsRecent
    BY DEF DisplayIsRecent
  <2>4. seen.oled.untried = 0 /\ tick = 0 /\ 0 < OLED_DECIMATION /\ 0 % OLED_DECIMATION = 0
    BY <1>1, <1>2
  <2> QED BY <2>1, <2>2, <2>3, <2>4 DEF DisplayTells
<1> QED BY <1>3, <1>4, <1>5, TwoOutputs

\* A tick keeps it.
LEMMA OutputCadenceInv == ASSUME OutputsInv, OutputCadence PROVE OutputsInv'
<1> DEFINE at == Increment(tick)
<1>1. /\ tick \in Word /\ TelemetryTells /\ DisplayTells
      /\ seen \in [ticks : Nat, telemetry : History, oled : History]
  BY TwoOutputs
<1>2. PICK written \in TransportAnswers, presented \in DisplayAnswers :
        /\ IF at % TELEMETRY_DECIMATION = 0
           THEN PublishLatest(at, written) ELSE UNCHANGED <<telemetry, packet>>
        /\ IF at % OLED_DECIMATION = 0
           THEN PresentLatest(presented) ELSE UNCHANGED <<oled, page, shown>>
        /\ seen' = [ticks |-> seen.ticks + 1,
                    telemetry |-> IF at % TELEMETRY_DECIMATION = 0
                                  THEN Tried(seen.telemetry, written)
                                  ELSE Untried(seen.telemetry),
                    oled |-> IF at % OLED_DECIMATION = 0
                             THEN Tried(seen.oled, presented)
                             ELSE Untried(seen.oled)]
  BY DEF OutputCadence
<1>3. /\ tick' = at /\ tick' \in Word
      /\ written \in Answers /\ presented \in Answers
      /\ seen.telemetry \in History /\ seen.oled \in History
  BY <1>1, IncrementIs, IoShadowConstants DEF OutputCadence
<1>4. /\ seen'.telemetry = IF at % TELEMETRY_DECIMATION = 0
                           THEN Tried(seen.telemetry, written) ELSE Untried(seen.telemetry)
      /\ seen'.oled = IF at % OLED_DECIMATION = 0
                      THEN Tried(seen.oled, presented) ELSE Untried(seen.oled)
  BY <1>2
<1>5. seen' \in [ticks : Nat, telemetry : History, oled : History]
  <2>1. /\ Tried(seen.telemetry, written) \in History /\ Untried(seen.telemetry) \in History
        /\ Tried(seen.oled, presented) \in History /\ Untried(seen.oled) \in History
        /\ seen.ticks + 1 \in Nat
    <3>1. Tried(seen.telemetry, written) \in History /\ Untried(seen.telemetry) \in History
      BY <1>3, TriedIs
    <3>2. Tried(seen.oled, presented) \in History /\ Untried(seen.oled) \in History
      BY <1>3, TriedIs
    <3> QED BY <1>1, <3>1, <3>2
  <2> QED BY <1>2, <2>1
<1>6. TelemetryTells'
  <2>1. CASE at % TELEMETRY_DECIMATION = 0
    BY <1>2, <1>3, <1>4, <2>1, PublishTells
  <2>2. CASE at % TELEMETRY_DECIMATION # 0
    BY <1>2, <1>3, <1>4, <2>2, NoPublishTells
  <2> QED BY <2>1, <2>2
<1>7. DisplayTells'
  <2>1. CASE at % OLED_DECIMATION = 0
    BY <1>2, <1>3, <1>4, <2>1, PresentTells
  <2>2. CASE at % OLED_DECIMATION # 0
    BY <1>2, <1>3, <1>4, <2>2, NoPresentTells
  <2> QED BY <2>1, <2>2
<1> QED BY <1>3, <1>5, <1>6, <1>7, TwoOutputs

\* So does every step.
LEMMA StepOutputsInv == OutputsInv /\ [NextOutputs]_outputs => OutputsInv'
<1> SUFFICES ASSUME OutputsInv, UNCHANGED outputs PROVE OutputsInv'
  BY OutputCadenceInv DEF NextOutputs, Over
<1> QED BY DEF outputs, OutputsInv, OutputsTell, OutputsTyped, HistoryTyped, CountersInStep,
               ErrorsInferred, GapIsSilence, PacketDatesItself, DisplayIsRecent, CadenceKept

\* The inductive invariant of io-shadow.
THEOREM OutputsInvariance == OutputsSpec => []OutputsInv
BY InitOutputsInv, StepOutputsInv, PTL DEF OutputsSpec

\* What a receiver and a debugger conclude from the telemetry, the display and
\* the statistics is what happened, for all decimations, ranges that the
\* telemetry's divides, and whatever the transport and the display answer.
THEOREM OutputsAreTold == OutputsSpec => []OutputsTell
<1>1. OutputsInv => OutputsTell
  BY DEF OutputsInv
<1> QED BY <1>1, OutputsInvariance, PTL
=============================================================================

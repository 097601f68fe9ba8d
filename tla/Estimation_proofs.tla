-------------------------- MODULE Estimation_proofs --------------------------
(***************************************************************************)
(* Theorems about what becomes of the measurements: the unwrapping of a    *)
(* 16-bit counter, for every bound, every envelope and every movement of   *)
(* the shaft; and the estimates that the two estimators call Valid, for    *)
(* any number of measurement channels and any masks the designs accept.    *)
(***************************************************************************)
EXTENDS EncoderTracking, StateEstimators, TLAPS

-----------------------------------------------------------------------------
(* The 16-bit arithmetic.                                                   *)

\* A multiple of the counter's range that is less than one turn is zero.
LEMMA LessThanATurn ==
  ASSUME NEW n \in Int, n % 65536 = 0, -65536 < n, n < 65536
  PROVE  n = 0
OBVIOUS

\* Whole turns add up.
LEMMA TurnsAdd ==
  ASSUME NEW m \in Int, NEW n \in Int, m % 65536 = 0, n % 65536 = 0
  PROVE  (m + n) % 65536 = 0 /\ (m - n) % 65536 = 0 /\ (-m) % 65536 = 0
OBVIOUS

\* The u16 difference of two numbers, read as an i16, is their difference up to
\* whole turns of the counter.
LEMMA DifferenceModuloTurns ==
  ASSUME NEW a \in Int, NEW b \in Int
  PROVE  /\ AsI16(WrappingSub(a, b)) \in Int
         /\ -32768 <= AsI16(WrappingSub(a, b)) /\ AsI16(WrappingSub(a, b)) <= 32767
         /\ (AsI16(WrappingSub(a, b)) - (a - b)) % 65536 = 0
<1>1. PICK w \in Int : w = WrappingSub(a, b)
  BY DEF WrappingSub
<1>2. 0 <= w /\ w <= 65535 /\ (w - (a - b)) % 65536 = 0
  BY <1>1 DEF WrappingSub
<1>3. CASE w < 32768
  BY <1>1, <1>2, <1>3 DEF AsI16
<1>4. CASE w >= 32768
  <2>1. AsI16(w) = w - 65536
    BY <1>4 DEF AsI16
  <2>2. (w - 65536 - (a - b)) % 65536 = 0
    BY <1>2
  <2> QED BY <1>1, <1>2, <1>4, <2>1, <2>2
<1> QED BY <1>3, <1>4

\* Counts stand for positions up to whole turns, and so do their differences.
LEMMA TurnsSubstituted ==
  ASSUME NEW d \in Int, NEW p \in Int, NEW q \in Int,
         (d - ((p % 65536) - (q % 65536))) % 65536 = 0
  PROVE  (d - (p - q)) % 65536 = 0
OBVIOUS

\* So it is for the counts of two positions and their displacement.
LEMMA DeltaModuloTurns ==
  ASSUME NEW p \in Int, NEW q \in Int
  PROVE  LET d == AsI16(WrappingSub(p % 65536, q % 65536))
         IN  /\ d \in Int /\ -32768 <= d /\ d <= 32767
             /\ (d - (p - q)) % 65536 = 0
<1> DEFINE d == AsI16(WrappingSub(p % 65536, q % 65536))
<1>1. p % 65536 \in Int /\ q % 65536 \in Int
  OBVIOUS
<1>2. /\ d \in Int /\ -32768 <= d /\ d <= 32767
      /\ (d - ((p % 65536) - (q % 65536))) % 65536 = 0
  BY <1>1, DifferenceModuloTurns
<1> HIDE DEF d
<1>3. (d - (p - q)) % 65536 = 0
  BY <1>2, TurnsSubstituted
<1> QED BY <1>2, <1>3 DEF d

\* It is the displacement itself when the two cannot differ by a turn.
LEMMA DeltaExact ==
  ASSUME NEW p \in Int, NEW q \in Int, NEW d \in Int, NEW distance \in Int,
         -32768 <= d, d <= 32767, (d - (p - q)) % 65536 = 0,
         p - q <= distance, q - p <= distance, distance + MAX_DELTA < 65536
  PROVE  /\ Abs(d) <= MAX_DELTA <=> Abs(p - q) <= MAX_DELTA
         /\ Abs(d) <= MAX_DELTA => d = p - q
<1>1. MAX_DELTA \in Int /\ MAX_DELTA < 32768
  BY EncoderTransferBound
<1>2. ASSUME Abs(d) <= MAX_DELTA \/ Abs(p - q) <= MAX_DELTA
      PROVE  d = p - q
  <2>1. d - (p - q) \in Int /\ -65536 < d - (p - q) /\ d - (p - q) < 65536
    BY <1>1, <1>2 DEF Abs
  <2>2. d - (p - q) = 0
    BY <2>1, LessThanATurn
  <2> QED BY <2>2
<1> QED BY <1>2

-----------------------------------------------------------------------------
(* The inductive invariant.                                                 *)

\* Where the tracker is primed, its next difference is that of the shaft's
\* present position and the one accepted last.
LEMMA RawDeltaFacts ==
  ASSUME IInv, Primed
  PROVE  /\ RawDelta \in Int
         /\ (RawDelta - (position - anchor.last)) % 65536 = 0
         /\ Unambiguous(reach) =>
              /\ Abs(RawDelta) <= MAX_DELTA <=> Abs(position - anchor.last) <= MAX_DELTA
              /\ Abs(RawDelta) <= MAX_DELTA => RawDelta = position - anchor.last
<1> DEFINE p == position
           q == anchor.last
           d == AsI16(WrappingSub(p % 65536, q % 65536))
<1>1. /\ p \in Int /\ q \in Int /\ reach \in Int
      /\ p - q <= reach /\ q - p <= reach
      /\ tracker.previous_count = q % 65536
  BY DEF IInv, TypeOK, Anchored
<1>2. RawDelta = d
  BY <1>1 DEF RawDelta, Count
<1> HIDE DEF p, q
<1>3. d \in Int /\ -32768 <= d /\ d <= 32767 /\ (d - (p - q)) % 65536 = 0
  <2>1. p \in Int /\ q \in Int BY <1>1
  <2> QED BY <2>1, DeltaModuloTurns
<1> HIDE DEF d
<1>4. ASSUME Unambiguous(reach)
      PROVE  /\ Abs(d) <= MAX_DELTA <=> Abs(p - q) <= MAX_DELTA
             /\ Abs(d) <= MAX_DELTA => d = p - q
  <2>1. reach + MAX_DELTA < 65536
    BY <1>4 DEF Unambiguous
  <2> QED BY <1>1, <1>3, <2>1, DeltaExact
<1>5. RawDelta \in Int /\ (RawDelta - (p - q)) % 65536 = 0
  BY <1>2, <1>3
<1>6. Unambiguous(reach) => /\ Abs(RawDelta) <= MAX_DELTA <=> Abs(p - q) <= MAX_DELTA
                            /\ Abs(RawDelta) <= MAX_DELTA => RawDelta = p - q
  BY <1>2, <1>4
<1> QED BY <1>5, <1>6 DEF p, q

\* The timer's count is a u16.
LEMMA CountType ==
  ASSUME TypeOK
  PROVE  Count \in Counts
<1>1. position \in Int
  BY DEF TypeOK
<1>2. Count \in Int /\ 0 <= Count /\ Count <= 65535
  BY <1>1 DEF Count
<1> QED BY <1>2 DEF Counts

LEMMA InitIInv == Init => IInv
<1> SUFFICES ASSUME Init PROVE IInv
  OBVIOUS
<1>1. ~Primed
  BY DEF Init, NewTracker, Primed
<1>2. TypeOK
  BY EncoderTransferBound DEF Init, TypeOK, NewTracker, Counts, None
<1> QED BY <1>1, <1>2 DEF IInv, Anchored, Exact, WholeTurns

\* The shaft moves no further than its reach grows.
LEMMA TurnIInv ==
  ASSUME IInv, Turn
  PROVE  IInv'
<1>1. PICK step \in Steps : position' = position + step
  BY DEF Turn
<1>2. /\ step \in Int /\ step <= MaxStep /\ -step <= MaxStep /\ MaxStep \in Nat
      /\ position \in Int /\ reach \in Nat /\ now \in Nat /\ MaxSamples \in Nat
      /\ anchor.last \in Int
  BY EncoderTransferBound DEF IInv, TypeOK
<1>3. /\ reach' = reach + MaxStep /\ now' = now + 1 /\ now < MaxSamples
      /\ UNCHANGED <<direction, tracker, status, anchor, widest>>
  BY DEF Turn
<1>4. TypeOK'
  BY <1>1, <1>2, <1>3 DEF IInv, TypeOK
<1>5. Anchored'
  BY <1>1, <1>2, <1>3 DEF IInv, Anchored, Primed
<1>6. Exact' /\ WholeTurns'
  BY <1>3 DEF IInv, Exact, WholeTurns, Primed, Displacement, Multiplier
<1> QED BY <1>4, <1>5, <1>6 DEF IInv

\* A new origin: nothing has been unwrapped and nothing moved.
LEMMA PrimeIInv ==
  ASSUME IInv, Prime
  PROVE  IInv'
<1>1. /\ tracker' = [previous_count |-> Count, previous_at |-> now, unwrapped |-> 0]
      /\ anchor' = [origin |-> position, last |-> position]
      /\ reach' = 0 /\ widest' = 0 /\ status' = "Primed"
      /\ UNCHANGED <<direction, position, now>>
  BY DEF Prime, shaft
<1>2. position \in Int /\ now \in 0 .. MaxSamples /\ Count \in Counts
  BY CountType DEF IInv, TypeOK
<1>3. TypeOK'
  BY <1>1, <1>2, EncoderTransferBound DEF IInv, TypeOK, Counts, None
<1>4. Anchored'
  BY <1>1, <1>2 DEF Anchored, Count
<1>5. Displacement' = 0
  BY <1>1, <1>2 DEF Displacement, Multiplier
<1>6. Exact' /\ WholeTurns'
  BY <1>1, <1>5 DEF Exact, WholeTurns
<1> QED BY <1>3, <1>4, <1>6 DEF IInv

\* An accepted difference adds the displacement, up to whole turns, and exactly
\* when the reach is unambiguous.
LEMMA AcceptIInv ==
  ASSUME IInv, Accept
  PROVE  IInv'
<1>1. /\ tracker' = [previous_count |-> Count, previous_at |-> now,
                     unwrapped |-> tracker.unwrapped + RawDelta * Multiplier]
      /\ anchor' = [anchor EXCEPT !.last = position]
      /\ reach' = 0 /\ status' = "Ready"
      /\ widest' = IF reach > widest THEN reach ELSE widest
      /\ UNCHANGED <<direction, position, now>>
      /\ Primed /\ Abs(RawDelta) <= MAX_DELTA
  BY DEF Accept, shaft
<1>2. /\ position \in Int /\ now \in 0 .. MaxSamples /\ Count \in Counts
      /\ tracker.unwrapped \in Int /\ anchor \in [origin : Int, last : Int]
      /\ reach \in Nat /\ widest \in Nat
  BY CountType DEF IInv, TypeOK
<1>3. RawDelta \in Int /\ (RawDelta - (position - anchor.last)) % 65536 = 0
  BY <1>1, RawDeltaFacts
<1>4. TypeOK'
  BY <1>1, <1>2, <1>3, EncoderTransferBound DEF IInv, TypeOK, Counts, None, Multiplier
<1>5. Anchored'
  BY <1>1, <1>2 DEF Anchored, Count
<1>6. /\ tracker'.unwrapped = tracker.unwrapped + RawDelta * Multiplier
      /\ Displacement' = Displacement + (position - anchor.last) * Multiplier
      /\ Displacement \in Int /\ Displacement' \in Int
  BY <1>1, <1>2 DEF Displacement, Multiplier
<1>7. WholeTurns'
  <2> DEFINE before == tracker.unwrapped - Displacement
             added == RawDelta - (position - anchor.last)
  <2>1. before \in Int /\ before % 65536 = 0
    BY <1>1, <1>2, <1>6 DEF IInv, WholeTurns
  <2>2. added \in Int /\ added % 65536 = 0
    BY <1>2, <1>3
  <2>3. tracker'.unwrapped - Displacement' = before + added
        \/ tracker'.unwrapped - Displacement' = before - added
    BY <1>2, <1>3, <1>6 DEF Multiplier
  <2> HIDE DEF before, added
  <2>4. (before + added) % 65536 = 0 /\ (before - added) % 65536 = 0
    BY <2>1, <2>2, TurnsAdd
  <2>5. (tracker'.unwrapped - Displacement') % 65536 = 0
    BY <2>3, <2>4
  <2> QED BY <2>5 DEF WholeTurns
<1>8. Exact'
  <2>1. SUFFICES ASSUME Unambiguous(widest)' PROVE tracker'.unwrapped = Displacement'
    BY DEF Exact
  <2>2. Unambiguous(widest) /\ Unambiguous(reach)
    BY <1>1, <1>2, <2>1, EncoderTransferBound DEF Unambiguous
  <2>3. tracker.unwrapped = Displacement
    BY <1>1, <2>2 DEF IInv, Exact
  <2>4. RawDelta = position - anchor.last
    BY <1>1, <2>2, RawDeltaFacts
  <2> QED BY <1>6, <2>3, <2>4
<1> QED BY <1>4, <1>5, <1>7, <1>8 DEF IInv

\* Every step preserves the invariant.
LEMMA StepIInv == IInv /\ [Next]_vars => IInv'
<1> SUFFICES ASSUME IInv, [Next]_vars PROVE IInv'
  OBVIOUS
<1>1. CASE Reset
  <2>1. ~Primed'
    BY <1>1 DEF Reset, NewTracker, Primed
  <2>2. TypeOK'
    BY <1>1 DEF Reset, shaft, NewTracker, IInv, TypeOK, None, Counts
  <2> QED BY <2>1, <2>2 DEF IInv, Anchored, Exact, WholeTurns
<1>2. CASE UNCHANGED <<direction, shaft, tracker, history>> /\ status' \in {status, "Rejected"}
  BY <1>2 DEF shaft, history, IInv, TypeOK, Anchored, Exact, WholeTurns, Primed, Displacement,
     Multiplier
<1> QED BY <1>1, <1>2, TurnIInv, PrimeIInv, AcceptIInv
        DEF Next, ObserveUsable, RefuseDelta, RefuseTime, RefuseInput, vars

\* The invariant that carries the properties below holds throughout.
THEOREM Invariance == Spec => []IInv
BY InitIInv, StepIInv, PTL DEF Spec

\* Every state is well typed.
THEOREM TypeCorrect == Spec => []TypeOK
BY Invariance, PTL DEF IInv

\* While no more samples are lost in a row than the envelope allows, the unwrapped
\* count is the shaft's true displacement.
THEOREM ExactUnwrapping == Spec => []Exact
BY Invariance, PTL DEF IInv

\* Whatever is lost, it is wrong by whole turns of the counter only.
THEOREM WrongByWholeTurns == Spec => []WholeTurns
BY Invariance, PTL DEF IInv

\* The invariant decides what the bound accepts.
LEMMA IInvDecides == IInv => DecidesByDisplacement
BY RawDeltaFacts DEF DecidesByDisplacement

\* A sample is accepted if, and only if, the shaft is within the bound of where
\* it was accepted last.
THEOREM BoundDecides == Spec => []DecidesByDisplacement
BY Invariance, IInvDecides, PTL

-----------------------------------------------------------------------------
(* The two estimators.                                                      *)

\* The initial state satisfies the inductive invariant.
LEMMA EstimatorInit == ASSUME InitEstimator PROVE EstimatorInv
BY DEF InitEstimator, EstimatorInv, EstimatorTypeOK, ValidMasks, ValidIsFresh, ObserverSound, StateValidity

\* Neither bookkeeping nor numbers disturb the masks of the design.
LEMMA DesignKept == ASSUME ValidMasks, UNCHANGED design PROVE ValidMasks'
BY DEF ValidMasks, design

\* Every call preserves the inductive invariant.
LEMMA EstimatorStep == ASSUME EstimatorInv, [NextEstimator]_estimation PROVE EstimatorInv'
<1> USE DEF EstimatorInv, EstimatorTypeOK, ValidIsFresh, ObserverSound, StateValidity
<1>1. UNCHANGED design => ValidMasks'
  BY DesignKept
<1>2. CASE ResetEstimator
  BY <1>1, <1>2 DEF ResetEstimator, design
<1>3. CASE RefuseReset
  BY <1>1, <1>3 DEF RefuseReset, design
<1>4. CASE RefuseStep
  BY <1>1, <1>4 DEF RefuseStep, Opportunity, design
<1>5. CASE ObserverStep
  <2>1. UNCHANGED design /\ periods' = periods + 1 /\ UNCHANGED <<finite, covariance>>
    BY <1>5 DEF ObserverStep, Opportunity
  <2>2. \/ /\ predictions' = predictions + 1 /\ validity' = "Valid" /\ corrected' = required
           /\ UNCHANGED errors
        \/ /\ UNCHANGED <<predictions, corrected>> /\ validity' = "Invalid"
           /\ errors' = errors + 1
    BY <1>5 DEF ObserverStep, Succeed, NumericalFault
  <2>3. kind = "LinearObserver"
    BY <1>5 DEF ObserverStep
  <2> QED
    BY <1>1, <2>1, <2>2, <2>3 DEF design
<1>6. CASE FilterFaults
  <2>1. /\ UNCHANGED design /\ periods' = periods + 1 /\ predictions' = predictions + 1
        /\ validity' = "Invalid" /\ UNCHANGED corrected /\ errors' = errors + 1 /\ kind = "Ekf"
    BY <1>6 DEF FilterFaults, Opportunity, NumericalFault
  <2>2. finite' \in BOOLEAN /\ covariance' \in BOOLEAN
    BY <1>6 DEF FilterFaults, Spread
  <2> QED
    BY <1>1, <2>1, <2>2 DEF design
<1>7. CASE FilterEnds
  <2>1. /\ UNCHANGED design /\ periods' = periods + 1 /\ predictions' = predictions + 1
        /\ finite' \in BOOLEAN /\ covariance' \in BOOLEAN /\ kind = "Ekf"
    BY <1>7 DEF FilterEnds, Opportunity, Spread
  <2>2. PICK m \in Measurements :
          ~Refused(m) /\ IF finite' /\ covariance' THEN Succeed(Corrections(m))
                                                   ELSE NumericalFault
    BY <1>7 DEF FilterEnds
  <2>3. required \subseteq Corrections(m) /\ Corrections(m) \subseteq Channels
    BY <2>2 DEF Refused, ChannelRefused, Corrections, ValidMasks
  <2>4. \/ /\ finite' /\ covariance' /\ validity' = "Valid" /\ corrected' = Corrections(m)
           /\ UNCHANGED errors
        \/ validity' = "Invalid" /\ corrected' = corrected /\ errors' = errors + 1
    BY <2>2 DEF Succeed, NumericalFault
  <2> QED
    BY <1>1, <2>1, <2>3, <2>4 DEF design
<1>8. CASE UNCHANGED estimation
  BY <1>1, <1>8 DEF estimation, design
<1> QED
  BY <1>2, <1>3, <1>4, <1>5, <1>6, <1>7, <1>8 DEF NextEstimator, Over

\* The inductive invariant of the estimators.
THEOREM EstimatorInvariance == EstimatorSpec => []EstimatorInv
<1>1. InitEstimator => EstimatorInv
  BY EstimatorInit
<1>2. EstimatorInv /\ [NextEstimator]_estimation => EstimatorInv'
  BY EstimatorStep
<1> QED
  BY <1>1, <1>2, PTL DEF EstimatorSpec

\* Types of the estimators, for any number of channels.
THEOREM EstimatorTypes == EstimatorSpec => []EstimatorTypeOK
<1>1. EstimatorInv => EstimatorTypeOK
  BY DEF EstimatorInv
<1> QED
  BY <1>1, EstimatorInvariance, PTL

\* A Valid estimate is finite, and the step that made it corrected with every
\* channel the design requires.
THEOREM ValidEstimates == EstimatorSpec => []ValidIsFresh
<1>1. EstimatorInv => ValidIsFresh
  BY DEF EstimatorInv
<1> QED
  BY <1>1, EstimatorInvariance, PTL

\* Every call is a step of the contract.
LEMMA EstimatorStepRefines == ASSUME EstimatorInv, EstimatorInv', [NextEstimator]_estimation
                     PROVE  [Contract!Next]_(Contract!estimate)
<1> USE DEF EstimatorInv, EstimatorTypeOK, Contract!estimate, Contract!Next
<1>1. CASE ResetEstimator
  BY <1>1 DEF ResetEstimator, Contract!Reset
<1>2. CASE RefuseReset
  BY <1>2 DEF RefuseReset, Contract!RefuseReset
<1>3. CASE RefuseStep
  BY <1>3 DEF RefuseStep, Opportunity, Contract!RefuseStep
<1>4. CASE ObserverStep
  <2>1. periods' = periods + 1 /\ UNCHANGED <<finite, covariance>> /\ finite /\ covariance
    BY <1>4 DEF ObserverStep, Opportunity, ObserverSound
  <2>2. CASE predictions' = predictions + 1 /\ Succeed(required)
    BY <2>1, <2>2 DEF Succeed, Contract!Succeed
  <2>3. CASE UNCHANGED predictions /\ NumericalFault
    BY <2>1, <2>3 DEF NumericalFault, Contract!NumericalFault
  <2> QED
    BY <1>4, <2>2, <2>3 DEF ObserverStep
<1>5. CASE FilterFaults
  <2>1. /\ periods' = periods + 1 /\ predictions' = predictions + 1 /\ validity' = "Invalid"
        /\ errors' = errors + 1
    BY <1>5 DEF FilterFaults, Opportunity, NumericalFault
  <2>2. Spread
    BY <1>5 DEF FilterFaults
  <2>3. periods' - predictions' = periods - predictions
    BY <2>1
  <2>4. /\ (finite' /\ covariance') => (finite /\ covariance)
        /\ (finite' /\ covariance') \in BOOLEAN
    BY <2>2 DEF Spread
  <2>5. Contract!NumericalFault
    BY <2>1, <2>3, <2>4, Zenon DEF Contract!NumericalFault
  <2> QED
    BY <2>5
<1>6. CASE FilterEnds
  <2>1. /\ periods' = periods + 1 /\ predictions' = predictions + 1
        /\ Spread
    BY <1>6 DEF FilterEnds, Opportunity
  <2>2. \/ finite' /\ covariance' /\ validity' = "Valid" /\ UNCHANGED errors
        \/ validity' = "Invalid" /\ errors' = errors + 1
    BY <1>6 DEF FilterEnds, Succeed, NumericalFault
  <2>3. periods' - predictions' = periods - predictions
    BY <2>1
  <2>4. /\ (finite' /\ covariance') => (finite /\ covariance)
        /\ (finite' /\ covariance') \in BOOLEAN
    BY <2>1 DEF Spread
  <2>5. CASE finite' /\ covariance' /\ validity' = "Valid" /\ UNCHANGED errors
    <3>1. finite /\ covariance /\ (finite' /\ covariance') = (finite /\ covariance)
      BY <2>4, <2>5
    <3>2. Contract!Succeed
      BY <2>3, <2>5, <3>1, Zenon DEF Contract!Succeed
    <3> QED
      BY <3>2
  <2>6. CASE validity' = "Invalid" /\ errors' = errors + 1
    <3>1. Contract!NumericalFault
      BY <2>3, <2>4, <2>6, Zenon DEF Contract!NumericalFault
    <3> QED
      BY <3>1
  <2> QED
    BY <2>2, <2>5, <2>6
<1>7. CASE UNCHANGED estimation
  BY <1>7 DEF estimation
<1> QED
  BY <1>1, <1>2, <1>3, <1>4, <1>5, <1>6, <1>7 DEF NextEstimator, Over

\* LinearObserver and ExtendedKalmanFilter keep the contract: numbers that have
\* become non-finite are never called Valid before a reset, and a period that is
\* missed is never made up but was answered by an error.
THEOREM Refinement == EstimatorSpec => ImplementsContract
<1>1. InitEstimator => Contract!Init
  BY DEF InitEstimator, Contract!Init
<1>2. EstimatorInv /\ EstimatorInv' /\ [NextEstimator]_estimation => [Contract!Next]_(Contract!estimate)
  BY EstimatorStepRefines
<1> QED
  BY <1>1, <1>2, EstimatorInvariance, PTL DEF EstimatorSpec, ImplementsContract, Contract!Spec
=============================================================================

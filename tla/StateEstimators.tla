-------------------------- MODULE StateEstimators ---------------------------
(***************************************************************************)
(* The two estimators a control runtime can own, LinearObserver and        *)
(* ExtendedKalmanFilter, under any sequence of control opportunities and   *)
(* resets.  Of the numbers only this is kept: whether they are finite, and *)
(* how many control periods the state has been predicted through.          *)
(*                                                                         *)
(* A non-finite number spreads: every row of a prediction is a sum over    *)
(* all states, so a state or covariance that holds one holds one after it. *)
(***************************************************************************)
EXTENDS Integers, RuntimeAuthority

CONSTANTS
  UPRIGHT_MEASUREMENT_COUNT,
  MaxPeriods                  (* bound: control periods since a reset       *)

ASSUME EstimatorConstants ==
  UPRIGHT_MEASUREMENT_COUNT \in Nat \ {0} /\ MaxPeriods \in Nat

Channels == 0 .. UPRIGHT_MEASUREMENT_COUNT - 1

VARIABLES
  kind,         (* "LinearObserver" or "Ekf"                                *)
  used,         (* used_measurements                                        *)
  required,     (* required_measurements                                    *)
  finite,       (* the state's numbers are finite                           *)
  covariance,   (* the covariance's are (an observer has none)              *)
  predictions,  (* predictions the state has been through since the reset   *)
  validity,
  periods,      (* history: control opportunities since the reset           *)
  errors,       (* history: those of them that were answered by an error    *)
  corrected     (* history: channels of the last step that returned Ok      *)

design == <<kind, used, required>>
estimation == <<design, finite, covariance, predictions, validity, periods, errors,
                corrected>>

\* ObserverDesign::new and EkfDesign::new accept these masks.  An observer
\* corrects with the channels it requires.
ValidMasks ==
  /\ used # {} /\ required \subseteq used
  /\ kind = "LinearObserver" => used = required

\* LinearObserver::new, ExtendedKalmanFilter::new
InitEstimator ==
  /\ kind \in {"LinearObserver", "Ekf"}
  /\ used \in SUBSET Channels /\ required \in SUBSET Channels
  /\ ValidMasks
  /\ finite = TRUE /\ covariance = TRUE
  /\ predictions = 0 /\ periods = 0 /\ errors = 0
  /\ validity = "Invalid"
  /\ corrected = {}

-----------------------------------------------------------------------------
(* reset                                                                    *)

ResetEstimator ==
  /\ finite' = TRUE /\ covariance' = TRUE
  /\ predictions' = 0 /\ periods' = 0 /\ errors' = 0
  /\ validity' = "Invalid"
  /\ UNCHANGED <<design, corrected>>

\* The state or the variance given is not finite.
RefuseReset ==
  /\ validity' = "Invalid"
  /\ UNCHANGED <<design, finite, covariance, predictions, periods, errors, corrected>>

-----------------------------------------------------------------------------
(* step.  A measurement says whether its timing is valid, whether the inputs *)
(* given with it are finite, and which channels are available and finite.    *)

Measurements ==
  [timing_valid : BOOLEAN, inputs_finite : BOOLEAN,
   available : SUBSET Channels, readable : SUBSET Channels]

\* A required channel is missing, or a channel that is looked at is not finite:
\* the observer looks at those it requires, the filter at all that are there.
ChannelRefused(m) ==
  \/ ~(required \subseteq m.available)
  \/ ~((IF kind = "Ekf" THEN m.available ELSE required) \subseteq m.readable)

Refused(m) == ~m.timing_valid \/ ~m.inputs_finite \/ ChannelRefused(m)

Opportunity == periods < MaxPeriods /\ periods' = periods + 1 /\ UNCHANGED design

\* validate_inputs of the filter, the checks at the head of the observer's step.
RefuseStep ==
  /\ Opportunity
  /\ \E m \in Measurements : Refused(m)
  /\ validity' = "Invalid" /\ errors' = errors + 1
  /\ UNCHANGED <<finite, covariance, predictions, corrected>>

Succeed(channels) == validity' = "Valid" /\ corrected' = channels /\ UNCHANGED errors
NumericalFault == validity' = "Invalid" /\ errors' = errors + 1 /\ UNCHANGED corrected

\* LinearObserver::step: the corrected state is committed if it is finite.
ObserverStep ==
  /\ kind = "LinearObserver" /\ Opportunity
  /\ \E m \in Measurements : ~Refused(m)
  /\ \/ predictions' = predictions + 1 /\ Succeed(required)
     \/ UNCHANGED predictions /\ NumericalFault
  /\ UNCHANGED <<finite, covariance>>

\* What prediction and corrections may do to the numbers of the filter.
Spread ==
  /\ finite' \in BOOLEAN /\ covariance' \in BOOLEAN
  /\ finite' => finite
  /\ covariance' => covariance

\* The channels ExtendedKalmanFilter::step corrects with, in this order.
Corrections(m) == used \cap m.available

\* ExtendedKalmanFilter::step, a correction that fails: its innovation variance
\* is not finite, as it is for the first if the covariance is not, or too small.
\* The prediction and the corrections before it stay.
FilterFaults ==
  /\ kind = "Ekf" /\ Opportunity
  /\ \E m \in Measurements : ~Refused(m) /\ Corrections(m) # {}
  /\ Spread
  /\ predictions' = predictions + 1
  /\ NumericalFault

\* Mutation of FilterEnds: only the covariance is looked at in the end.
FilterEndsUnchecked ==
  /\ kind = "Ekf" /\ Opportunity
  /\ Spread
  /\ predictions' = predictions + 1
  /\ \E m \in Measurements :
       /\ ~Refused(m)
       /\ Corrections(m) # {} => covariance
       /\ IF covariance' THEN Succeed(Corrections(m)) ELSE NumericalFault

\* ExtendedKalmanFilter::step to its end: every correction was computed, which
\* none is from a covariance that is not finite.
FilterEnds ==
  /\ kind = "Ekf" /\ Opportunity
  /\ Spread
  /\ predictions' = predictions + 1
  /\ \E m \in Measurements :
       /\ ~Refused(m)
       /\ Corrections(m) # {} => covariance
       /\ IF finite' /\ covariance' THEN Succeed(Corrections(m)) ELSE NumericalFault

\* Bound: the run is over.
Over == periods = MaxPeriods /\ UNCHANGED estimation

NextEstimator ==
  ResetEstimator \/ RefuseReset \/ RefuseStep \/ ObserverStep \/ FilterFaults \/ FilterEnds \/ Over

EstimatorSpec == InitEstimator /\ [][NextEstimator]_estimation

-----------------------------------------------------------------------------
(* Properties                                                               *)

EstimatorTypeOK ==
  /\ kind \in {"LinearObserver", "Ekf"}
  /\ used \subseteq Channels /\ required \subseteq Channels
  /\ finite \in BOOLEAN /\ covariance \in BOOLEAN
  /\ predictions \in Nat /\ periods \in Nat /\ errors \in Nat
  /\ validity \in StateValidity
  /\ corrected \subseteq Channels

\* A Valid estimate is of finite numbers and was corrected, by the step that made
\* it, with every channel its design requires.
ValidIsFresh ==
  validity = "Valid" => finite /\ covariance /\ required \subseteq corrected

\* The observer's numbers never need a reset.
ObserverSound == kind = "LinearObserver" => finite /\ covariance

Contract == INSTANCE BalanceStateEstimator
  WITH usable <- finite /\ covariance, lag <- periods - predictions

\* Both estimators keep the contract: a filter whose numbers have become non-finite
\* in the middle of a step never reports a Valid estimate again until it is reset,
\* and the periods an estimate has missed are never made up, but each of them was
\* answered by an error: a caller that counts those bounds the lag.
ImplementsContract == Contract!Spec

EstimatorInv == EstimatorTypeOK /\ ValidMasks /\ ValidIsFresh /\ ObserverSound /\ predictions <= periods
=============================================================================

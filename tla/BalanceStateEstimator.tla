----------------------- MODULE BalanceStateEstimator ------------------------
(***************************************************************************)
(* What a control runtime can rely on of a balance-state estimator.  The   *)
(* trait of that name in supervisor/state-estimator states only the        *)
(* signatures; this contract is read off the return paths of its two       *)
(* implementations, LinearObserver and ExtendedKalmanFilter.               *)
(*                                                                         *)
(* An estimate is Valid exactly after a step that succeeded, a step can    *)
(* only succeed on numbers that are usable, and only a reset makes them    *)
(* usable again.  A refused step does not advance the estimate, and        *)
(* nothing makes up for it: "lag" is the number of control periods by      *)
(* which even a Valid estimate is behind the plant's input history.  It    *)
(* never grows silently: every period of lag is one of the "errors" the    *)
(* caller was told of since the reset.                                     *)
(***************************************************************************)
EXTENDS Integers

VARIABLES usable, validity, lag, errors

estimate == <<usable, validity, lag, errors>>

Init == usable = TRUE /\ validity = "Invalid" /\ lag = 0 /\ errors = 0

Reset == usable' = TRUE /\ validity' = "Invalid" /\ lag' = 0 /\ errors' = 0

RefuseReset == validity' = "Invalid" /\ UNCHANGED <<usable, lag, errors>>

Succeed == usable /\ validity' = "Valid" /\ UNCHANGED <<usable, lag, errors>>

\* An error before the prediction: nothing but the validity and the lag moves.
RefuseStep ==
  /\ validity' = "Invalid"
  /\ lag' = lag + 1 /\ errors' = errors + 1
  /\ UNCHANGED usable

\* An error after it: the prediction is kept or dropped, the numbers may be lost.
NumericalFault ==
  /\ validity' = "Invalid"
  /\ lag' \in {lag, lag + 1} /\ errors' = errors + 1
  /\ usable' \in BOOLEAN /\ (usable' => usable)

Next == Reset \/ RefuseReset \/ Succeed \/ RefuseStep \/ NumericalFault

Spec == Init /\ [][Next]_estimate
=============================================================================

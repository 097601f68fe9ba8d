--------------------------- MODULE ControlRuntime ---------------------------
(***************************************************************************)
(* One call of ControlRuntime::step from supervisor/control-runtime:       *)
(* estimator, state-feedback controller, inverse actuator model and        *)
(* runtime authority in the order the code composes them.                  *)
(*                                                                         *)
(* Numbers are abstracted to what the composition tells apart.  An effort  *)
(* is named by the request it came from, NoEffort is the zero input; the   *)
(* LQI integral is the number of updates committed to it; and the data of  *)
(* one call says which computation failed, if any, how fast the reaction   *)
(* wheel is, and whether the actuator model saturated a request.           *)
(***************************************************************************)
EXTENDS Integers, RuntimeAuthority

NoEffort == -1

StateFeedbackController == {"Lqr", "Lqi"}

\* The request is the demand with the integral as it is, the candidate the one
\* with the integral advanced.  A failure of the candidate is only met when a
\* candidate is tried.
ControlData ==
  [failure : {"none", "request", "candidate"}, reaction_wheel : ReactionWheelAuthority,
   request_saturated : BOOLEAN, candidate_saturated : BOOLEAN]

\* ControlRuntime::new, and what reset returns it to.
NewControlRuntime == [applied |-> NoEffort, integral |-> 0]

\* evaluate_demand: the actuator model's commands and the authority's decision
\* on them.  LinearObserver::step returns only estimates that are Valid.
EvaluateDemand(input, data, saturated) ==
  Evaluate([operating_state |-> input.operating_state, timing |-> input.timing,
            estimate_validity |-> "Valid", reaction_wheel |-> data.reaction_wheel],
           [drive_saturated |-> saturated, reaction_saturated |-> saturated])

\* Mutation of FullyUnconstrained: it only asks for authority.
OnlyAuthorized(decision) == decision.authorized

FullyUnconstrained(decision) == decision.authorized /\ ~decision.constrained

\* An LQI controller tries a candidate if the plain request is fully
\* unconstrained, and commits it if the candidate is as well.
CandidateTried(controller, input, data) ==
  /\ controller = "Lqi"
  /\ FullyUnconstrained(EvaluateDemand(input, data, data.request_saturated))

IntegratorAdvances(controller, input, data) ==
  /\ CandidateTried(controller, input, data)
  /\ FullyUnconstrained(EvaluateDemand(input, data, data.candidate_saturated))

\* The call returns an Err, and leaves the runtime as it was.
StepFails(controller, input, data) ==
  \/ data.failure = "request"
  \/ data.failure = "candidate" /\ CandidateTried(controller, input, data)

StepDecision(controller, input, data) ==
  EvaluateDemand(input, data, IF IntegratorAdvances(controller, input, data)
                              THEN data.candidate_saturated ELSE data.request_saturated)

\* Mutation of ControlStep: a denied call keeps the remembered input.
ControlStepKeepsInput(runtime, controller, input, data, request) ==
  [applied  |-> IF StepDecision(controller, input, data).authorized
                THEN request ELSE runtime.applied,
   integral |-> IF IntegratorAdvances(controller, input, data)
                THEN runtime.integral + 1 ELSE runtime.integral]

\* The runtime after a call that does not fail: only an authorized request is
\* remembered as the input the plant has received.
ControlStep(runtime, controller, input, data, request) ==
  [applied  |-> IF StepDecision(controller, input, data).authorized
                THEN request ELSE NoEffort,
   integral |-> IF IntegratorAdvances(controller, input, data)
                THEN runtime.integral + 1 ELSE runtime.integral]
=============================================================================

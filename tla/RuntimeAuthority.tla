-------------------------- MODULE RuntimeAuthority --------------------------
(***************************************************************************)
(* The gate that turns a bounded actuator request into one the physical    *)
(* output may carry, from supervisor/runtime-state.  The AuthorizedActuation*)
(* token of the code is the field "authorized" of a decision: it exists    *)
(* exactly when no hard reason denies it.                                  *)
(***************************************************************************)

OperatingState == {"Boot", "HardwareCheck", "Standby", "CaptureWindow",
                   "Balancing", "MomentumLimited", "Fault"}

\* The states whose actuation_authority() is ClosedLoop.
ClosedLoopStates == {"Balancing", "MomentumLimited"}

ReactionWheelAuthority == {"Nominal", "Warning", "Exhausted"}

StateValidity == {"Invalid", "Valid"}

\* Mutation of DenyingReasons: the operating state only constrains.
DenyingReasonsWithoutState ==
  {"SENSOR_TIMING", "ESTIMATE_INVALID", "REACTION_WHEEL_EXHAUSTED"}

\* The AuthorityReasons bits that deny, and those that only constrain.
DenyingReasons == {"OPERATING_STATE", "SENSOR_TIMING", "ESTIMATE_INVALID",
                   "REACTION_WHEEL_EXHAUSTED"}
ConstrainingReasons == {"REACTION_WHEEL_WARNING", "DRIVE_SATURATED",
                        "REACTION_SATURATED"}

\* When RuntimeAuthority::evaluate reports each reason.  A context is the
\* AuthorityContext of the code, commands the saturation flags of the pair.
Reported(reason, context, commands) ==
  CASE reason = "OPERATING_STATE"          -> context.operating_state \notin ClosedLoopStates
    [] reason = "SENSOR_TIMING"            -> context.timing # "Healthy"
    [] reason = "ESTIMATE_INVALID"         -> context.estimate_validity # "Valid"
    [] reason = "REACTION_WHEEL_EXHAUSTED" -> context.reaction_wheel = "Exhausted"
    [] reason = "REACTION_WHEEL_WARNING"   -> context.reaction_wheel = "Warning"
    [] reason = "DRIVE_SATURATED"          -> commands.drive_saturated
    [] reason = "REACTION_SATURATED"       -> commands.reaction_saturated

Denied(context, commands) ==
  \E reason \in DenyingReasons : Reported(reason, context, commands)

Constrained(context, commands) ==
  \E reason \in ConstrainingReasons : Reported(reason, context, commands)

\* Mutation of Evaluate: a denied request does not hold the integrator.
EvaluateHoldIfConstrained(context, commands) ==
  [authorized |-> ~Denied(context, commands),
   constrained |-> Constrained(context, commands),
   hold_integrator |-> Constrained(context, commands),
   reasons |-> {reason \in DenyingReasons \cup ConstrainingReasons :
                  Reported(reason, context, commands)}]

\* RuntimeAuthority::evaluate
Evaluate(context, commands) ==
  [authorized      |-> ~Denied(context, commands),
   constrained     |-> Constrained(context, commands),
   hold_integrator |-> Denied(context, commands) \/ Constrained(context, commands),
   reasons         |-> {reason \in DenyingReasons \cup ConstrainingReasons :
                          Reported(reason, context, commands)}]
=============================================================================

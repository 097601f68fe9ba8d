--------------------------- MODULE ActuationGate ----------------------------
(***************************************************************************)
(* What the platform promises to the actuators, whichever target or host   *)
(* runs it: they are driven only while the runtime is live, a fault        *)
(* latches for good, and once it has latched no effort is ever started     *)
(* again.  Effort that was already being driven may stay.                  *)
(***************************************************************************)
VARIABLES
  mode,    (* "disarmed", "live", or "latched" by a fault                   *)
  effort   (* the actuators hold an authorized, possibly non-zero, command  *)

vars == <<mode, effort>>

Init == mode = "disarmed" /\ effort = FALSE

\* The loop is closed.
GoLive == mode = "disarmed" /\ mode' = "live" /\ UNCHANGED effort

\* A fault is latched.
Latch == mode # "latched" /\ mode' = "latched" /\ UNCHANGED effort

\* An authorized command is driven.
Drive == mode = "live" /\ effort' = TRUE /\ UNCHANGED mode

\* The output is made neutral.
Neutralize == effort' = FALSE /\ UNCHANGED mode

Next == GoLive \/ Latch \/ Drive \/ Neutralize

Spec == Init /\ [][Next]_vars
=============================================================================

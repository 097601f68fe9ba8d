---------------------------- MODULE VelocityLoop ----------------------------
(***************************************************************************)
(* The outer loop of the production path: VelocityLoop, run every so many  *)
(* runtime steps.  Of its numbers only this is kept: how many updates its  *)
(* integral has taken in.                                                  *)
(***************************************************************************)
EXTENDS Integers

NewOuterLoop == [divider |-> 0, integral |-> 0]

\* VelocityLoop::update, which refuses a state or a target that is not finite
\* before it integrates, and finds a pitch reference that is not finite after.
VelocityUpdates(integral, hold) ==
  LET integrated == IF hold THEN integral ELSE integral + 1
  IN  {[ok |-> FALSE, integral |-> integral],
       [ok |-> FALSE, integral |-> integrated],
       [ok |-> TRUE,  integral |-> integrated]}

OuterDue(outer, decimation) == outer.divider + 1 >= decimation

\* The outer loop after a runtime step: its divider, and the velocity loop when
\* it is due.
OuterResults(outer, decimation, hold) ==
  IF OuterDue(outer, decimation)
  THEN {[ok |-> update.ok, outer |-> [divider |-> 0, integral |-> update.integral]] :
          update \in VelocityUpdates(outer.integral, hold)}
  ELSE {[ok |-> TRUE, outer |-> [outer EXCEPT !.divider = @ + 1]]}
=============================================================================

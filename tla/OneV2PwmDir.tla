---------------------------- MODULE OneV2PwmDir -----------------------------
(***************************************************************************)
(* The electrical encoding of the ONE V2 motor interface, from             *)
(* firmware/actuators/one-v2-pwm-dir: the PWM line idles high and effort   *)
(* pulls it low, the sign goes to the direction line.  A command is an     *)
(* integer number of steps of full effort.                                 *)
(***************************************************************************)
EXTENDS Integers

CONSTANT FullEffort   (* steps of a unit command                             *)

ASSUME Resolution == FullEffort \in Nat \ {0}

Efforts == -FullEffort .. FullEffort

MotorElectricalCommand ==
  [direction_high : BOOLEAN, pwm_line_high : 0 .. FullEffort]

ElectricalActuation ==
  [drive : MotorElectricalCommand, reaction : MotorElectricalCommand]

ZeroEffort ==
  LET zero == [direction_high |-> FALSE, pwm_line_high |-> FullEffort]
  IN  [drive |-> zero, reaction |-> zero]

EncodeChannel(command) ==
  [direction_high |-> command < 0,
   pwm_line_high  |-> FullEffort - (IF command < 0 THEN -command ELSE command)]

EncodeAuthorized(commands) ==
  [drive |-> EncodeChannel(commands.drive), reaction |-> EncodeChannel(commands.reaction)]
=============================================================================

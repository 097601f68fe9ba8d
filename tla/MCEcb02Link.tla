----------------------------- MODULE MCEcb02Link -----------------------------
(***************************************************************************)
(* The two ends of the ECB02 link, each by itself: the image that gives it *)
(* telemetry and may be refused, and the host that takes records from it   *)
(* and may miss some.  A behaviour is about the one or the other.          *)
(***************************************************************************)
EXTENDS IoShadow, RecordCapture

VARIABLE end        (* "board" or "host"                                     *)

LinkVars == <<end, outputs, capturing>>

LinkInit == end \in {"board", "host"} /\ InitOutputs /\ InitCapture

AtBoard == end = "board" /\ NextOutputs /\ UNCHANGED <<end, capturing>>
AtHost  == end = "host" /\ NextCapture /\ UNCHANGED <<end, outputs>>

LinkNext == AtBoard \/ AtHost

LinkSpec == LinkInit /\ [][LinkNext]_LinkVars
=============================================================================

----------------------------- MODULE MCRobotLink -----------------------------
(* RobotLink with two requests and two connections: enough for a request     *)
(* that outlives its connection and for the next one to overtake it.         *)
EXTENDS RobotLink
=============================================================================

------------------------------ MODULE MCServer ------------------------------
(* Server with two tasks: one in the hands of the worker while the other is  *)
(* added, queued, polled or swept.                                           *)
EXTENDS Server
=============================================================================

---------------------------- MODULE MCMiddleware ----------------------------
(* Middleware with two clients, each of which may hold the lock and submit a *)
(* task, or one of them both.                                               *)
EXTENDS Middleware
=============================================================================

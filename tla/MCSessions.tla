----------------------------- MODULE MCSessions -----------------------------
(* Sessions with two users, one of whom can come back with a new token after *)
(* a logout or a sweep.                                                      *)
EXTENDS Sessions
=============================================================================

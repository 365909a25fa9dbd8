----------------------------- MODULE MCSessions -----------------------------
(* Instance of Sessions for TLC. *)
EXTENDS Sessions

CONSTANTS u1, u2, p1, r1, r2
=============================================================================

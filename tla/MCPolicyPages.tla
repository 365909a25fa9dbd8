--------------------------- MODULE MCPolicyPages ---------------------------
(* Instance of PolicyPages for TLC. *)
EXTENDS PolicyPages, TLC

CONSTANTS self, colleague, p1, t1, x1, x2, r1, r2

MCRole == (self :> "ADMIN") @@ (colleague :> "ADMIN")

Interchangeable == Permutations(Text) \cup Permutations(Request)
=============================================================================

------------------------------ MODULE MCUsers ------------------------------
(* Instances of Users for TLC. *)
EXTENDS Users, TLC

CONSTANTS u1, u2, u3, p1, p2, r1

\* All accounts but the founder, and the request slots, are interchangeable.
Interchangeable ==
    Permutations(Account \ {Founder}) \cup Permutations(Request)
        \cup Permutations(Secret)
=============================================================================

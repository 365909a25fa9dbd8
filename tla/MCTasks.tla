------------------------------ MODULE MCTasks ------------------------------
(* Instances of Tasks for TLC. *)
EXTENDS Tasks, TLC

CONSTANTS admin, dev, c1, c2, v1, p1, t1, t2, r1, r2

MCRole == [u \in User |-> IF u = admin THEN "ADMIN" ELSE "DEV"]

Interchangeable ==
    Permutations(Request) \cup Permutations(STAFF_DEVICE_CHECKS) \cup Permutations(Extra)
=============================================================================

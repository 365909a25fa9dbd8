----------------------------- MODULE MCFindings -----------------------------
(* Instances of Findings for TLC. *)
EXTENDS Findings, TLC

CONSTANTS admin, dev, f1, f2, s1, s2, s3, r1, r2

MCRole == [u \in User |-> IF u = admin THEN "ADMIN" ELSE "DEV"]

Switched == {"AUTO_ONLY", "MANUAL_ONLY"}
ManualOnly == {"MANUAL_ONLY"}
AutoOnly == {"AUTO_ONLY"}

\* Ids of rows and request slots are interchangeable; the two users are not.
Interchangeable ==
    Permutations(Request) \cup Permutations(ScanId) \cup Permutations(Finding)
=============================================================================

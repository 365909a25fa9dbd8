--------------------------- MODULE MCIntegrations ---------------------------
(* Instances of Integrations for TLC. *)
EXTENDS Integrations, TLC

CONSTANTS i1, y1, y2, r1, w1, w2, g1, g2

\* All repositories are in the first workspace: once the second one is selected,
\* Bitbucket refuses those that stay selected.
MCRepositories == (w1 :> {g1, g2}) @@ (w2 :> {})
=============================================================================

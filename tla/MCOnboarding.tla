---------------------------- MODULE MCOnboarding ----------------------------
(* Instance of Onboarding for TLC. *)
EXTENDS Onboarding

CONSTANTS self, colleague, newcomer, h1

\* An account alone, and all three calls.  The second creation finds the address
\* taken, unless the first one failed.
MCForms ==
    { [email |-> newcomer, role |-> "SUPER_ADMIN", profile |-> FALSE, device |-> FALSE],
      [email |-> newcomer, role |-> "DEV", profile |-> TRUE, device |-> TRUE] }
=============================================================================

---------------------------- MODULE MCWorkbench ----------------------------
(* Instance of Workbench for TLC. *)
EXTENDS Workbench

CONSTANTS self, colleague
=============================================================================

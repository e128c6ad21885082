---------------------------- MODULE MCAutomation ----------------------------
(* The small instances of Automation; the .cfg files give the constants. *)
EXTENDS Automation
=============================================================================

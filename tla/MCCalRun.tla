------------------------------ MODULE MCCalRun ------------------------------
(***************************************************************************)
(* The reference node at two metres and another anchor; a board that reads *)
(* long, and one that would need more than                                 *)
(* CAL_TX_DLY_MAX.  The constants are the code's, but for batches of four  *)
(* samples, of which a fourth, one, must be answered.                      *)
(***************************************************************************)
EXTENDS CalRun

MCDist(p) == IF p = "reference" THEN 2000 ELSE 3500

MCIdeals == {2 * 16385 + 401, 2 * 16385 + 2700}

\* `cal ref 2000', one with the wrong distance, `cal peer 1 3500'.
MCRequests ==
  {[peer |-> "reference", ref |-> 2000, persist |-> TRUE],
   [peer |-> "reference", ref |-> 2600, persist |-> TRUE],
   [peer |-> "anchor", ref |-> 3500, persist |-> FALSE]}

CONSTANTS MaxCommands, MaxReboots

VARIABLES commands, reboots

mcVars == <<vars, commands, reboots>>

MCInit == Init /\ commands = 0 /\ reboots = 0

MCNext ==
  \/ /\ Operator /\ commands < MaxCommands
     /\ commands' = commands + 1 /\ UNCHANGED reboots
  \/ (Shell \/ WaitTimesOut \/ Loop) /\ UNCHANGED <<commands, reboots>>
  \/ /\ Reboot /\ reboots < MaxReboots
     /\ reboots' = reboots + 1 /\ UNCHANGED commands

MCSpec == MCInit /\ [][MCNext]_mcVars /\ Fairness
=============================================================================

-------------------------- MODULE MCSurveyThreads --------------------------
(***************************************************************************)
(* One gauge of each kind, boards enough for either or for none, and three *)
(* sessions: one to leave a result, one to take it away while it is told   *)
(* or applied, one more to leave another.                                  *)
(***************************************************************************)
EXTENDS SurveyThreads

MCGauges == {1, 2}
MCSpatial == {2}
MCRefs == {1, 2}
=============================================================================

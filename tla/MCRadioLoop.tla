---------------------------- MODULE MCRadioLoop ----------------------------
(***************************************************************************)
(* An instance of RadioLoop: receptions are told apart modulo 3, a batch   *)
(* has two exchanges, so one follows another.  There is no other bound.    *)
(***************************************************************************)
EXTENDS RadioLoop
=============================================================================

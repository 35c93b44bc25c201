---------------------------- MODULE MCSuperframe ----------------------------
(***************************************************************************)
(* The constants of the code in ticks of 250 UWB microseconds, except for  *)
(* the counter's modulus, whose 67108.9 ticks become the power of two      *)
(* below.  The gateway starts two superframes before the counter wraps.    *)
(* What does not divide is rounded to the side that is worse for the       *)
(* properties: a preamble of 1016 UWB us to 5 ticks.                       *)
(***************************************************************************)
EXTENDS Superframe

MCWrap == 65536
MCStart == MCWrap - 2 * Period + 300

\* disc_resp_delay_uus(0), which is also WAVE's, and of the last anchor.
MCDelays == {8, 8 + 3 * 14}

\* Around the edges of the window of the predicted beacon, and mid-frame.
MCPhases == {Period - 7, Period - 6, 0, 12, 13, 400}

\* A JOIN too late, at the last moment, a step that just fits, one that solves.
MCGwOffsets == {5, 20, 61, 700}

\* Back at once, after some superframes, and after the counter came round.
MCSpells == {100, 3500, 33000, MCWrap - 300}
=============================================================================

------------------------------ MODULE MCNetUplink ------------------------------
(***************************************************************************)
(* A queue for two fixes and MaxFixes of them, so that it overflows; a     *)
(* link that drops at most MaxDrops times, a broker that fails as often as *)
(* it likes.                                                               *)
(***************************************************************************)
EXTENDS NetUplink

CONSTANTS MaxFixes, MaxDrops

VARIABLE drops

mcVars == <<vars, drops>>

MCInit == Init /\ drops = 0

MCNext ==
  \/ /\ \/ submitted < MaxFixes /\ Submit
        \/ Thread
        \/ Deliver \/ IfaceUp \/ Joined \/ Bound \/ BrokerChanges \/ Settles
     /\ UNCHANGED drops
  \/ drops < MaxDrops /\ LinkDrops /\ drops' = drops + 1

MCSpec == MCInit /\ [][MCNext]_mcVars /\ Fairness

\* Each fix that waits on a connection that stands is delivered, or a newer one.
FixesArrive == \A n \in 1..MaxFixes : FixArrives(n)

================================================================================

------------------------------- MODULE FixStream -------------------------------
(***************************************************************************)
(* What the uplink promises of the fixes it accepts (net_uplink.h), told   *)
(* without threads, queue or network.  A fix waits until it is delivered,  *)
(* lost, or too old: Depth fixes newer than it have been accepted.  Fixes  *)
(* are delivered or lost strictly oldest first, each at most once.         *)
(*                                                                         *)
(* NetUplink implements it: fixes wait in the queue, or in the hands of    *)
(* the thread that publishes them.                                         *)
(***************************************************************************)
EXTENDS Naturals

CONSTANT Depth  \* how many newer fixes make one too old

VARIABLES
  accepted,     \* fixes so far, numbered in their order
  waiting,      \* those neither delivered nor given up
  delivered     \* the last one delivered; 0 for none

Init == accepted = 0 /\ waiting = {} /\ delivered = 0

\* The newest fix is always kept; others may be dropped for it, but only when
\* they are too old.
Accept ==
  /\ accepted' = accepted + 1
  /\ accepted' \in waiting' /\ waiting' \subseteq waiting \union {accepted'}
  /\ \A f \in waiting \ waiting' : f + Depth <= accepted'
  /\ UNCHANGED delivered

Oldest(f) == f \in waiting /\ \A g \in waiting : f <= g

Deliver(f) ==
  /\ Oldest(f)
  /\ delivered' = f
  /\ waiting' = waiting \ {f}
  /\ UNCHANGED accepted

\* The connection died, or seemed to work and was dead.
Lose(f) ==
  /\ Oldest(f)
  /\ waiting' = waiting \ {f}
  /\ UNCHANGED <<accepted, delivered>>

Next == Accept \/ \E f \in waiting : Deliver(f) \/ Lose(f)

Spec == Init /\ [][Next]_<<accepted, waiting, delivered>>
================================================================================

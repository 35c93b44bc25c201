------------------------------ MODULE AposGeom ------------------------------
(***************************************************************************)
(* What the solver (apos_geom.c) can answer for a mesh, its arithmetic     *)
(* abstracted.  The gauge g is the sequence of node indices                *)
(* <<origin, xaxis, plane>> in 2D and <<origin, xaxis, plane, up>> in 3D.  *)
(* Which nodes are placed depends on the edges and on the ranges: the      *)
(* edges decide what the greedy seeding loop may place, the ranges (a      *)
(* failed trilateration) what it leaves out.  So the outcomes are the sets *)
(* of placed nodes the edges support.                                      *)
(***************************************************************************)
EXTENDS AposTable

MinNodes(g) == Len(g)              \* APOS_MIN_NODES_2D / _3D
Needed(g) == Len(g) - 1            \* placed neighbours to place a node

GaugeNodes(g) == {g[k] : k \in DOMAIN g}

GaugeValid(g, n) ==
  /\ n >= MinNodes(g)
  /\ \A a, b \in DOMAIN g : g[a] \in 1..n /\ (a # b => g[a] # g[b])

\* The triangle of the gauge must have been ranged, and in 3D the `up' node
\* against all three of its corners: otherwise -ENODATA.
GaugeRanged(m, g) ==
  \A a, b \in DOMAIN g : a # b => Joined(m, g[a], g[b])

PlacedNeighbours(m, p, i) == {j \in p \ {i} : Joined(m, i, j)}

\* p can be built up from the gauge, each node placed from at least `need'
\* neighbours placed before it.
Grown(m, g, p, need) ==
  \A q \in SUBSET (p \ GaugeNodes(g)) :
    q # {} => \E i \in q :
                Cardinality(PlacedNeighbours(m, p \ q, i)) >= need

\* The sets of nodes apos_geom_seed() may place.
Placements(m, g, n) ==
  {p \in SUBSET (1..n) : GaugeNodes(g) \subseteq p /\ Grown(m, g, p, Needed(g))}

\* A node placed from exactly the needed number of neighbours has two mirror
\* solutions: it is counted ambiguous, and judge_result() then refuses.
MayAccept(m, g, n, p) == p = 1..n /\ Grown(m, g, p, Needed(g) + 1)
=============================================================================

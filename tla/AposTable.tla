----------------------------- MODULE AposTable -----------------------------
(***************************************************************************)
(* The gateway's survey table (apos_table.c): the anchors that answered    *)
(* enumeration, in the order they answered, and the directed measurements  *)
(* between them.                                                           *)
(*                                                                         *)
(* A table is a sequence of peers [eui, addr]; node indices are 1..Len(t)  *)
(* (0-based in the code).  A measurement set m holds the ordered pairs     *)
(* <<from, to>> that carry a usable measurement: find_meas() only ever     *)
(* asks whether a row exists with enough exchanges and a positive mean.    *)
(***************************************************************************)
EXTENDS Integers, Sequences, FiniteSets

CONSTANTS MaxNodes      \* APOS_MAX_NODES, the capacity of the table

ASSUME TableAssumption == MaxNodes \in Nat \ {0}

NoIndex == 0            \* -ENOENT

FindEui(t, e) ==
  IF \E k \in DOMAIN t : t[k].eui = e
    THEN CHOOSE k \in DOMAIN t : t[k].eui = e
    ELSE NoIndex

FindAddr(t, a) ==
  IF \E k \in DOMAIN t : t[k].addr = a
    THEN CHOOSE k \in DOMAIN t : t[k].addr = a
    ELSE NoIndex

\* Another board already claims the address: -EADDRINUSE.
AddrInUse_AnyBoard(t, e, a) ==
  FindEui(t, e) = NoIndex /\ \E k \in DOMAIN t : t[k].addr = a

AddrInUse(t, e, a) ==
  \E k \in DOMAIN t : t[k].addr = a /\ k # FindEui(t, e)

\* A board never seen before finds no row left: -ENOSPC.
NoSpace(t, e) == FindEui(t, e) = NoIndex /\ Len(t) >= MaxNodes

\* Idempotent on the EUI: a board that answers again refreshes its own row.
AddPeer(t, e, a) ==
  IF FindEui(t, e) = NoIndex
    THEN Append(t, [eui |-> e, addr |-> a])
    ELSE [t EXCEPT ![FindEui(t, e)] = [eui |-> e, addr |-> a]]

AddMeas(t, m, from, to) ==
  IF from # to /\ from \in DOMAIN t /\ to \in DOMAIN t
    THEN m \cup {<<from, to>>}
    ELSE m

\* One direction is enough for an edge of the symmetrised mesh.
Joined(m, i, j) == <<i, j>> \in m \/ <<j, i>> \in m

\* The two sides of ordered pair k of the row-major walk over n nodes, the
\* diagonal left out (k counts from 0).
PairFrom(k, n) == (k \div (n - 1)) + 1

PairTo_Diagonal(k, n) == (k % (n - 1)) + 1

PairTo(k, n) ==
  LET col == k % (n - 1)
  IN  (IF col >= k \div (n - 1) THEN col + 1 ELSE col) + 1
=============================================================================

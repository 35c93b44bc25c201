------------------------------- MODULE GwCore -------------------------------
(***************************************************************************)
(* The gateway's seats (gw_core.c): one per ranging slot of the superframe *)
(* and each the lease of one tag, which is known by its EUI and addressed  *)
(* by a short address from a pool that only moves forward.                 *)
(*                                                                         *)
(* Frames are any frames at all: a tag may ask again for a seat it has, or *)
(* renew or release one it lost long ago.  A call that changes nothing (a  *)
(* full table, an address nobody holds) is no step.  The tier is the tag's *)
(* wish, which no decision here looks at.                                  *)
(***************************************************************************)
EXTENDS Integers, FiniteSets

CONSTANTS
  Eui,        \* identities of the tags
  NSlots,     \* GW_N_CFP
  Base,       \* GW_TAG_ADDR_BASE
  Top,        \* 0xFFFE: the pool is Base..(Top - 1)
  Lease       \* GW_LEASE_SF

\* 0 is nobody's address, and the pool outnumbers the slots.
ASSUME CoreAssumption ==
  /\ NSlots \in Nat \ {0} /\ Lease \in Nat \ {0}
  /\ Base \in Nat \ {0} /\ Top \in Nat
  /\ Top - Base > NSlots

Slot == 0..(NSlots - 1)
Pool == Base..(Top - 1)

NoSeat == [addr |-> 0]
Seat == [addr : Pool, eui : Eui, lease : 1..Lease]

VARIABLES seats, next_short_addr

coreVars == <<seats, next_short_addr>>

Free(i) == seats[i] = NoSeat
Live == {i \in Slot : ~Free(i)}

\* A seat that is held has some of its lease left.
TypeOK ==
  /\ seats \in [Slot -> Seat \cup {NoSeat}]
  /\ next_short_addr \in Pool

Init ==
  /\ seats = [i \in Slot |-> NoSeat]
  /\ next_short_addr = Base

-----------------------------------------------------------------------------

HasAddr(i, a) == ~Free(i) /\ seats[i].addr = a
HasEui(i, e) == ~Free(i) /\ seats[i].eui = e

Held(a) == \E i \in Slot : HasAddr(i, a)
Seated(e) == \E i \in Slot : HasEui(i, e)

\* The k-th address from the pool's cursor on, the pool being a ring.
PoolSize == Top - Base
Try_Stands(k) == next_short_addr
Try(k) == Base + (((next_short_addr - Base) + k) % PoolSize)

\* The first address from the cursor on that no live seat holds; the cursor
\* stops behind it.  NSlots + 1 addresses are tried, then Base is given away.
Alloc_Restarts(a) ==
  /\ a \in Pool /\ ~Held(a)
  /\ \A b \in Base..(a - 1) : Held(b)
  /\ UNCHANGED next_short_addr

Alloc_AnyHolder(a) ==
  a = next_short_addr /\ next_short_addr' = Try(1)

Alloc(a) ==
  \/ \E k \in 0..NSlots :
       /\ a = Try(k) /\ ~Held(a)
       /\ \A j \in 0..(k - 1) : Held(Try(j))
       /\ next_short_addr' = Try(k + 1)
  \/ /\ \A k \in 0..NSlots : Held(Try(k))
     /\ a = Base
     /\ next_short_addr' = Try(NSlots + 1)

Leased(e, a) == [addr |-> a, eui |-> e, lease |-> Lease]

\* A tag that already has a seat is given the same one, its lease anew.
Rejoin(e, i) ==
  /\ HasEui(i, e)
  /\ seats' = [seats EXCEPT ![i].lease = Lease]
  /\ UNCHANGED next_short_addr

JoinNew(e, i, a) ==
  /\ ~Seated(e)
  /\ Free(i) /\ \A j \in 0..(i - 1) : ~Free(j)
  /\ Alloc(a)
  /\ seats' = [seats EXCEPT ![i] = Leased(e, a)]

\* A board that sends from address a: whoever that is.
Keepalive(a) ==
  \E i \in Slot :
    /\ HasAddr(i, a)
    /\ seats' = [seats EXCEPT ![i].lease = Lease]
    /\ UNCHANGED next_short_addr

Release(a) ==
  \E i \in Slot :
    /\ HasAddr(i, a)
    /\ seats' = [seats EXCEPT ![i] = NoSeat]
    /\ UNCHANGED next_short_addr

\* One superframe of a lease.
Aged_StopsAtOne(s) ==
  IF s = NoSeat \/ s.lease = 1 THEN s ELSE [s EXCEPT !.lease = s.lease - 1]

Aged(s) ==
  IF s = NoSeat \/ s.lease = 1 THEN NoSeat ELSE [s EXCEPT !.lease = s.lease - 1]

Tick ==
  /\ seats' = [i \in Slot |-> Aged(seats[i])]
  /\ UNCHANGED next_short_addr

\* uwb_gateway_run() starts over with gw_core_init().
Restart ==
  /\ seats' = [i \in Slot |-> NoSeat]
  /\ next_short_addr' = Base

CoreNext ==
  \/ \E e \in Eui, i \in Slot : Rejoin(e, i) \/ \E a \in Pool : JoinNew(e, i, a)
  \/ \E a \in Pool : Keepalive(a) \/ Release(a)
  \/ Tick \/ Restart

CoreSpec == Init /\ [][CoreNext]_coreVars

-----------------------------------------------------------------------------

\* No tag has two slots, and no two tags share an address: the slot map of the
\* beacon tells each tag its own slot, and a fix is published under the
\* identity found by its sender's address.
SeatsDistinct ==
  \A i, j \in Live :
    i # j => seats[i].addr # seats[j].addr /\ seats[i].eui # seats[j].eui

\* The last line of alloc_short_addr(), that gives away an address which may
\* be held, is never reached: one of the addresses tried is always free, also
\* when the pool goes round and meets tags that kept their lease all along.
AddressesSuffice == \E k \in 0..NSlots : ~Held(Try(k))
=============================================================================

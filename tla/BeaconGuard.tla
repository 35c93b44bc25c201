---------------------------- MODULE BeaconGuard ----------------------------
(***************************************************************************)
(* beacon_guard.c: an anchor's prediction of the gateway's next beacon.    *)
(* Before it transmits an anchor asks whether the instant is clear of the  *)
(* beacon; the question itself rolls the prediction forward over beacons   *)
(* that were not heard, and drops it after too many of them.               *)
(*                                                                         *)
(* Times are those of the radio's counter, modulo Wrap (2^32 in the code). *)
(* The code compares them by the sign of their difference in 32 bits,      *)
(* which is Signed here: it is right for instants less than half a Wrap    *)
(* apart, and only for those.                                              *)
(***************************************************************************)
EXTENDS Integers

CONSTANTS
    Period,      \* T_SUPERFRAME_UUS
    Guard,       \* BEACON_GUARD_UUS, on each side
    Occupancy,   \* BEACON_OCCUPANCY_UUS
    MaxMisses,   \* BEACON_GUARD_MAX_MISSES
    Wrap         \* the counter's modulus

\* A whole lock, with the instants around it, fits in half a Wrap.
ASSUME GuardAssumption ==
    /\ Period \in Nat \ {0} /\ Guard \in Nat /\ Occupancy \in Nat
    /\ MaxMisses \in Nat /\ Wrap \in Nat \ {0}
    /\ 2 * Guard + Occupancy < Period
    /\ 2 * (MaxMisses + 3) * Period < Wrap

Clock == 0 .. Wrap - 1

Prediction == [next : Clock, misses : 0 .. MaxMisses, locked : BOOLEAN]

Signed_Plain(d) == d

\* (int32_t)d
Signed(d) == LET r == d % Wrap IN IF 2 * r < Wrap THEN r ELSE r - Wrap

\* beacon_guard_init
Unlocked == [next |-> 0, misses |-> 0, locked |-> FALSE]

\* beacon_guard_beacon
Anchored(at) == [next |-> (at + Period) % Wrap, misses |-> 0, locked |-> TRUE]

\* The prediction k beacons on.
Ahead(g, k) == [g EXCEPT !.next = (@ + k * Period) % Wrap, !.misses = @ + k]

\* tx lies behind the window of the predicted beacon.
Past(g, tx) == Signed(tx - (g.next + Occupancy + Guard)) > 0

\* The beacons that may still be stepped over.
Spare(g) == MaxMisses - g.misses

Stale_Never(g) == g

\* The prediction is too old to be trusted.
Stale(g) == [g EXCEPT !.locked = FALSE]

\* The loop of beacon_guard_tx_allowed: on to the superframe of tx, each beacon
\* stepped over a miss; with the misses used up the prediction is dropped.
Rolled(g, tx) ==
    LET reach == {k \in 0 .. Spare(g) : ~Past(Ahead(g, k), tx)}
    IN  IF ~g.locked THEN g
        ELSE IF reach = {} THEN Stale(Ahead(g, Spare(g)))
        ELSE Ahead(g, CHOOSE k \in reach : \A j \in reach : k <= j)

\* The answer of beacon_guard_tx_allowed, once rolled: not within the guard of
\* the predicted beacon, or nothing to go by.
Allowed(g, tx) ==
    LET r == Rolled(g, tx)
    IN  r.locked => Signed(tx - (r.next - Guard)) < 0
=============================================================================

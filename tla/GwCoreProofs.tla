---------------------------- MODULE GwCoreProofs ----------------------------
(***************************************************************************)
(* What holds of the gateway's seats for any number of tags, of slots and  *)
(* of addresses.  The one argument about numbers is that of the pool: the  *)
(* NSlots + 1 addresses tried from the cursor on are all different, and no *)
(* more than NSlots of them can be held.                                   *)
(***************************************************************************)
EXTENDS GwTags, FiniteSetTheorems, TLAPS

\* What division by a positive number returns.
LEMMA DivisionFact ==
  ASSUME NEW k \in Nat, NEW d \in Nat \ {0}
  PROVE  /\ k \div d \in Nat
         /\ k % d \in 0..(d - 1)
         /\ k = d * (k \div d) + (k % d)
BY SMT

\* Multiplication is monotone.
LEMMA ProductMonotone ==
  ASSUME NEW d \in Nat \ {0}, NEW q \in Nat, NEW n \in Nat, q >= n
  PROVE  d * q >= d * n
BY Z3

\* Quotient and remainder are what they were built from.
LEMMA QuotientRemainder ==
  ASSUME NEW d \in Nat \ {0}, NEW q \in Nat, NEW r \in 0..(d - 1)
  PROVE  (d * q + r) \div d = q /\ (d * q + r) % d = r
<1> DEFINE k == d * q + r
           a == k \div d
           b == k % d
<1>1. k \in Nat /\ d * q \in Nat
  OBVIOUS
<1>2. a \in Nat /\ b \in 0..(d - 1) /\ k = d * a + b
  BY <1>1, DivisionFact
<1>3. d * (q + 1) = d * q + d /\ d * (a + 1) = d * a + d /\ d * a \in Nat
  BY <1>2, SMT
<1>4. ~(a >= q + 1)
  BY <1>1, <1>2, <1>3, ProductMonotone
<1>5. ~(q >= a + 1)
  <2>1. SUFFICES ASSUME q >= a + 1 PROVE FALSE
    OBVIOUS
  <2>2. d * q >= d * (a + 1)
    BY <1>2, <2>1, ProductMonotone
  <2> HIDE DEF a, b
  <2> QED
    BY <1>1, <1>2, <1>3, <2>2
<1>6. a = q
  BY <1>2, <1>4, <1>5
<1> QED
  BY <1>1, <1>2, <1>6

\* Within one turn of a ring no position is met twice.
LEMMA RingInjective ==
  ASSUME NEW p \in Nat \ {0}, NEW c \in Nat,
         NEW x \in 0..(p - 1), NEW y \in 0..(p - 1),
         (c + x) % p = (c + y) % p
  PROVE  x = y
<1> DEFINE a == (c + x) \div p
           b == (c + y) \div p
           r == (c + x) % p
<1>1. c + x \in Nat /\ c + y \in Nat
  OBVIOUS
<1>2. a \in Nat /\ r \in 0..(p - 1) /\ c + x = p * a + r
  BY <1>1, DivisionFact
<1>3. b \in Nat /\ c + y = p * b + r
  BY <1>1, DivisionFact
<1> HIDE DEF a, b, r
<1>4. p * a \in Nat /\ p * b \in Nat
  BY <1>2, <1>3
<1>5. ~(a >= b + 1)
  <2>1. SUFFICES ASSUME a >= b + 1 PROVE FALSE
    OBVIOUS
  <2>2. p * a >= p * (b + 1)
    BY <1>2, <1>3, <2>1, ProductMonotone
  <2>3. p * (b + 1) = p * b + p
    BY <1>3
  <2> QED
    BY <1>2, <1>3, <1>4, <2>2, <2>3
<1>6. ~(b >= a + 1)
  <2>1. SUFFICES ASSUME b >= a + 1 PROVE FALSE
    OBVIOUS
  <2>2. p * b >= p * (a + 1)
    BY <1>2, <1>3, <2>1, ProductMonotone
  <2>3. p * (a + 1) = p * a + p
    BY <1>2
  <2> QED
    BY <1>2, <1>3, <1>4, <2>2, <2>3
<1>7. a = b
  BY <1>2, <1>3, <1>5, <1>6
<1> QED
  BY <1>2, <1>3, <1>4, <1>7

-----------------------------------------------------------------------------
(* The pool of addresses *)

\* The addresses tried are addresses of the pool, the first at the cursor.
LEMMA TryInPool ==
  ASSUME TypeOK, NEW k \in Nat
  PROVE  Try(k) \in Pool /\ Try(0) = next_short_addr
<1> DEFINE c == next_short_addr - Base
<1>1. c \in Nat /\ c < PoolSize /\ PoolSize \in Nat \ {0}
  BY CoreAssumption DEF TypeOK, Pool, PoolSize
<1>2. (c + k) % PoolSize \in 0..(PoolSize - 1)
  <2>1. c + k \in Nat
    BY <1>1
  <2> HIDE DEF c
  <2> QED
    BY <1>1, <2>1, DivisionFact
<1>3. c % PoolSize = c
  <2>1. PoolSize * 0 + c = c /\ c \in 0..(PoolSize - 1)
    BY <1>1
  <2> QED
    BY <1>1, <2>1, QuotientRemainder
<1>4. c + 0 = c /\ Base + c = next_short_addr
  BY <1>1, CoreAssumption DEF TypeOK, Pool
<1>5. Try(k) = Base + ((c + k) % PoolSize) /\ Try(0) = Base + (c % PoolSize)
  BY <1>4 DEF Try
<1>6. \A r \in 0..(PoolSize - 1) : Base + r \in Pool
  BY CoreAssumption DEF Pool, PoolSize
<1> HIDE DEF c
<1> QED
  BY <1>2, <1>3, <1>4, <1>5, <1>6

\* No address is tried twice.
LEMMA TryInjective ==
  ASSUME TypeOK, NEW x \in 0..NSlots, NEW y \in 0..NSlots, Try(x) = Try(y)
  PROVE  x = y
<1> DEFINE c == next_short_addr - Base
<1>1. c \in Nat /\ PoolSize \in Nat \ {0} /\ NSlots < PoolSize
  BY CoreAssumption DEF TypeOK, Pool, PoolSize
<1>2. x \in 0..(PoolSize - 1) /\ y \in 0..(PoolSize - 1)
  BY <1>1, CoreAssumption
<1>3. c + x \in Nat /\ c + y \in Nat
  BY <1>1, <1>2
<1>4. (c + x) % PoolSize \in Nat /\ (c + y) % PoolSize \in Nat
  BY <1>1, <1>3, DivisionFact
<1>5. (c + x) % PoolSize = (c + y) % PoolSize
  BY <1>4, CoreAssumption DEF Try
<1> QED
  BY <1>1, <1>2, <1>5, RingInjective

\* One of the addresses tried is free: they outnumber the slots.
LEMMA OneIsFree ==
  ASSUME TypeOK
  PROVE  AddressesSuffice
<1> SUFFICES ASSUME \A k \in 0..NSlots : Held(Try(k))
             PROVE  FALSE
  BY DEF AddressesSuffice
<1> DEFINE holder == [k \in 0..NSlots |-> CHOOSE i \in Slot : HasAddr(i, Try(k))]
<1>1. \A k \in 0..NSlots : holder[k] \in Slot /\ HasAddr(holder[k], Try(k))
  BY DEF Held
<1>2. holder \in [0..NSlots -> Slot]
  BY <1>1
<1>3. /\ IsFiniteSet(0..NSlots) /\ Cardinality(0..NSlots) = NSlots + 1
      /\ IsFiniteSet(Slot) /\ Cardinality(Slot) = NSlots
  BY CoreAssumption, FS_Interval DEF Slot
<1>4. PICK x, y \in 0..NSlots : x # y /\ holder[x] = holder[y]
  <2>1. Cardinality(Slot) < Cardinality(0..NSlots)
    BY <1>3, CoreAssumption
  <2> HIDE DEF holder
  <2> QED
    BY <1>2, <1>3, <2>1, FS_PigeonHole
<1>5. Try(x) = Try(y)
  BY <1>1, <1>4 DEF HasAddr
<1> QED
  BY <1>4, <1>5, TryInjective

-----------------------------------------------------------------------------
(* What a step does to the seats *)

\* Seats may become free; those that do not keep their tag and its address.
Keeps ==
  /\ seats' \in [Slot -> Seat \cup {NoSeat}]
  /\ \A i \in Slot :
       \/ seats'[i] = NoSeat
       \/ /\ seats[i] # NoSeat
          /\ seats'[i].addr = seats[i].addr /\ seats'[i].eui = seats[i].eui

\* A held seat is told from a free one by its address.
LEMMA SeatFacts ==
  /\ \A s \in Seat : s # NoSeat /\ s.addr \in Pool /\ s.eui \in Eui
                     /\ s.lease \in 1..Lease
  /\ \A e \in Eui, a \in Pool : Leased(e, a) \in Seat
  /\ 0 \notin Pool
BY CoreAssumption DEF Seat, NoSeat, Pool, Leased

\* A rejoin renews a lease and moves nothing.
LEMMA RejoinKeeps ==
  ASSUME TypeOK, NEW e \in Eui, NEW i \in Slot, Rejoin(e, i)
  PROVE  Keeps
<1>1. seats[i] \in Seat
  BY DEF TypeOK, Rejoin, HasEui, Free
<1>2. [seats[i] EXCEPT !.lease = Lease] \in Seat
  BY <1>1, CoreAssumption DEF Seat
<1> QED
  BY <1>1, <1>2, SeatFacts DEF TypeOK, Rejoin, Keeps

\* So does a keep-alive.
LEMMA KeepaliveKeeps ==
  ASSUME TypeOK, NEW a, Keepalive(a)
  PROVE  Keeps
<1>1. PICK i \in Slot : /\ HasAddr(i, a)
                        /\ seats' = [seats EXCEPT ![i].lease = Lease]
  BY DEF Keepalive
<1>2. seats[i] \in Seat
  BY <1>1 DEF TypeOK, HasAddr, Free
<1>3. [seats[i] EXCEPT !.lease = Lease] \in Seat
  BY <1>2, CoreAssumption DEF Seat
<1> QED
  BY <1>1, <1>2, <1>3, SeatFacts DEF TypeOK, Keeps

\* A release frees a seat and moves nothing.
LEMMA ReleaseKeeps ==
  ASSUME TypeOK, NEW a, Release(a)
  PROVE  Keeps
<1>1. PICK i \in Slot : seats' = [seats EXCEPT ![i] = NoSeat]
  BY DEF Release
<1> QED
  BY <1>1 DEF TypeOK, Keeps

\* A superframe shortens leases, frees seats and moves nothing.
LEMMA TickKeeps ==
  ASSUME TypeOK, Tick
  PROVE  Keeps
<1>1. \A s \in Seat : \/ Aged(s) = NoSeat
                      \/ /\ Aged(s) \in Seat
                         /\ Aged(s).addr = s.addr /\ Aged(s).eui = s.eui
  BY CoreAssumption DEF Aged, Seat
<1>2. Aged(NoSeat) = NoSeat
  BY DEF Aged
<1> QED
  BY <1>1, <1>2, SeatFacts DEF TypeOK, Tick, Keeps

\* A new tag is given an address that nobody holds.
LEMMA JoinFresh ==
  ASSUME TypeOK, NEW e \in Eui, NEW i \in Slot, NEW a \in Pool, JoinNew(e, i, a)
  PROVE  /\ ~Seated(e) /\ ~Held(a)
         /\ seats' = [seats EXCEPT ![i] = Leased(e, a)]
         /\ next_short_addr' \in Pool
         /\ \E k \in 0..NSlots : /\ a = Try(k)
                                 /\ \A j \in 0..(k - 1) : Held(Try(j))
                                 /\ next_short_addr' = Try(k + 1)
<1>1. ~ \A k \in 0..NSlots : Held(Try(k))
  BY OneIsFree DEF AddressesSuffice
<1>2. PICK k \in 0..NSlots : /\ a = Try(k) /\ ~Held(a)
                             /\ \A j \in 0..(k - 1) : Held(Try(j))
                             /\ next_short_addr' = Try(k + 1)
  BY <1>1 DEF JoinNew, Alloc
<1>3. k + 1 \in Nat
  BY CoreAssumption
<1>4. Try(k + 1) \in Pool
  BY <1>3, TryInPool
<1> QED
  BY <1>2, <1>4 DEF JoinNew

-----------------------------------------------------------------------------
(* The seats and the pool, under any frames at all *)

CoreIInv == TypeOK /\ SeatsDistinct

\* Seats that are only kept or freed stay well formed and distinct.
LEMMA KeepsInvariant ==
  ASSUME CoreIInv, Keeps, next_short_addr' \in Pool
  PROVE  CoreIInv'
<1>1. TypeOK'
  BY DEF Keeps, TypeOK
<1>2. SeatsDistinct'
  BY DEF CoreIInv, Keeps, SeatsDistinct, Live, Free
<1> QED
  BY <1>1, <1>2 DEF CoreIInv

\* A new tag disturbs nobody: it has no seat yet, and its address is free.
LEMMA JoinInvariant ==
  ASSUME CoreIInv, NEW e \in Eui, NEW i \in Slot, NEW a \in Pool, JoinNew(e, i, a)
  PROVE  CoreIInv'
<1>1. TypeOK
  BY DEF CoreIInv
<1>2. /\ ~Seated(e) /\ ~Held(a)
      /\ seats' = [seats EXCEPT ![i] = Leased(e, a)]
      /\ next_short_addr' \in Pool
  BY <1>1, JoinFresh
<1>3. TypeOK'
  BY <1>1, <1>2, SeatFacts DEF TypeOK
<1>4. /\ seats'[i].addr = a /\ seats'[i].eui = e
      /\ \A j \in Slot \ {i} : seats'[j] = seats[j]
  BY <1>1, <1>2 DEF TypeOK, Leased
<1>5. \A j \in Live : seats[j].addr # a /\ seats[j].eui # e
  BY <1>2 DEF Live, Free, Held, Seated, HasAddr, HasEui
<1>6. SeatsDistinct'
  BY <1>4, <1>5 DEF CoreIInv, SeatsDistinct, Live, Free
<1> QED
  BY <1>3, <1>6 DEF CoreIInv

\* The gateway starts with every seat free.
LEMMA CoreInitial == Init => CoreIInv
BY CoreAssumption DEF Init, CoreIInv, TypeOK, SeatsDistinct, Live, Free, Pool

\* One step per operation of the gateway.
LEMMA CoreStep == CoreIInv /\ [CoreNext]_coreVars => CoreIInv'
<1> SUFFICES ASSUME CoreIInv, [CoreNext]_coreVars
             PROVE  CoreIInv'
  OBVIOUS
<1>1. TypeOK /\ next_short_addr \in Pool
  BY DEF CoreIInv, TypeOK
<1>2. ASSUME NEW e \in Eui, NEW i \in Slot, Rejoin(e, i)
      PROVE  CoreIInv'
  <2>1. next_short_addr' = next_short_addr
    BY <1>2 DEF Rejoin
  <2> QED
    BY <1>1, <1>2, <2>1, RejoinKeeps, KeepsInvariant
<1>3. ASSUME NEW e \in Eui, NEW i \in Slot, NEW a \in Pool, JoinNew(e, i, a)
      PROVE  CoreIInv'
  BY <1>3, JoinInvariant
<1>4. ASSUME NEW a \in Pool, Keepalive(a)
      PROVE  CoreIInv'
  <2>1. next_short_addr' = next_short_addr
    BY <1>4 DEF Keepalive
  <2> QED
    BY <1>1, <1>4, <2>1, KeepaliveKeeps, KeepsInvariant
<1>5. ASSUME NEW a \in Pool, Release(a)
      PROVE  CoreIInv'
  <2>1. next_short_addr' = next_short_addr
    BY <1>5 DEF Release
  <2> QED
    BY <1>1, <1>5, <2>1, ReleaseKeeps, KeepsInvariant
<1>6. CASE Tick
  <2>1. next_short_addr' = next_short_addr
    BY <1>6 DEF Tick
  <2> QED
    BY <1>1, <1>6, <2>1, TickKeeps, KeepsInvariant
<1>7. CASE Restart
  <2>1. Keeps /\ next_short_addr' \in Pool
    BY <1>7, CoreAssumption DEF Restart, Keeps, Pool
  <2> QED
    BY <2>1, KeepsInvariant
<1>8. CASE UNCHANGED coreVars
  BY <1>8 DEF coreVars, CoreIInv, TypeOK, SeatsDistinct, Live, Free
<1> QED
  BY <1>2, <1>3, <1>4, <1>5, <1>6, <1>7, <1>8 DEF CoreNext

\* A seat that is held is some tag's, under an address of the pool, with some
\* of its lease left; no two seats have a tag or an address in common.
THEOREM CoreCorrect == CoreSpec => [](TypeOK /\ SeatsDistinct)
<1>1. Init => CoreIInv
  BY CoreInitial
<1>2. CoreIInv /\ [CoreNext]_coreVars => CoreIInv'
  BY CoreStep
<1> QED
  BY <1>1, <1>2, PTL DEF CoreSpec, CoreIInv

\* alloc_short_addr() always finds a free address: its last line is dead code
\* whenever the pool has more addresses than the superframe has slots.
THEOREM AlwaysAddressesSuffice == CoreSpec => []AddressesSuffice
<1>1. TypeOK /\ SeatsDistinct => AddressesSuffice
  BY OneIsFree
<1> QED
  BY <1>1, CoreCorrect, PTL

-----------------------------------------------------------------------------
(* The same, when the frames are those of tags *)

\* To the gateway a tag's step is one of any frames at all.
LEMMA TagsStep == CoreIInv /\ [TagsNext]_systemVars => [CoreNext]_coreVars
<1> SUFFICES ASSUME CoreIInv, [TagsNext]_systemVars
             PROVE  [CoreNext]_coreVars
  OBVIOUS
<1>1. ASSUME NEW e \in Eui, Join(e)
      PROVE  CoreNext
  BY <1>1 DEF Join, CoreNext
<1>2. ASSUME NEW a, Keepalive(a) \/ Release(a)
      PROVE  CoreNext
  <2>1. \A i \in Slot : HasAddr(i, a) => a \in Pool
    BY SeatFacts DEF CoreIInv, TypeOK, HasAddr, Free
  <2> QED
    BY <1>2, <2>1 DEF CoreNext, Keepalive, Release
<1>3. ASSUME NEW e \in Eui, TagKeepalive(e) \/ TagRelease(e) \/ TagDies(e)
      PROVE  CoreNext \/ UNCHANGED coreVars
  BY <1>2, <1>3 DEF TagKeepalive, TagRelease, TagDies
<1>4. Superframe \/ GatewayRestart => CoreNext
  BY DEF Superframe, GatewayRestart, CoreNext
<1>5. UNCHANGED systemVars => UNCHANGED coreVars
  BY DEF systemVars
<1> QED
  BY <1>1, <1>3, <1>4, <1>5 DEF TagsNext

\* The gateway among its tags behaves as the gateway alone.
THEOREM TagsImplementCore == TagsSpec => CoreSpec
<1>1. Init => CoreIInv
  BY CoreInitial
<1>2. CoreIInv /\ [CoreNext]_coreVars => CoreIInv'
  BY CoreStep
<1>3. CoreIInv /\ [TagsNext]_systemVars => [CoreNext]_coreVars
  BY TagsStep
<1>4. TagsInit => Init
  BY DEF TagsInit
<1> QED
  BY <1>1, <1>2, <1>3, <1>4, PTL DEF TagsSpec, CoreSpec

\* No tag has two slots and no two tags share an address, whatever the tags do.
THEOREM AlwaysSeatsDistinct == TagsSpec => [](TypeOK /\ SeatsDistinct)
BY TagsImplementCore, CoreCorrect, PTL

\* Short of a restart or a full turn of the pool, every address that is in use,
\* or that a tag still takes for its own, lies behind the pool's cursor.  The
\* next address to be given away is thus nobody's, present or past.
Behind ==
  /\ \A i \in Live : seats[i].addr < next_short_addr
  /\ \A e \in Eui : mine[e] < next_short_addr
  /\ \A e \in Eui : ~Mistaken(e)

TagsIInv ==
  /\ CoreIInv
  /\ mine \in [Eui -> Pool \cup {0}]
  /\ ~restarted /\ ~wrapped => Behind

\* Seats that are only kept or freed leave nobody mistaken.
LEMMA KeepsBehind ==
  ASSUME TypeOK, Behind, Keeps,
         next_short_addr' = next_short_addr, mine' = mine
  PROVE  Behind'
<1>1. \A i \in Live' : /\ i \in Live
                       /\ seats'[i].addr = seats[i].addr
                       /\ seats'[i].eui = seats[i].eui
  BY DEF Keeps, Live, Free
<1>2. \A e \in Eui : ~Mistaken(e)'
  BY <1>1 DEF Behind, Mistaken, HasAddr, Live, Free
<1> QED
  BY <1>1, <1>2 DEF Behind

\* A fresh address lies behind the cursor that gave it away, and only there.
LEMMA JoinBehind ==
  ASSUME CoreIInv, Behind, NEW e \in Eui, NEW i \in Slot, NEW a \in Pool,
         mine \in [Eui -> Pool \cup {0}],
         JoinNew(e, i, a), next_short_addr' >= next_short_addr,
         mine' \in {mine, [mine EXCEPT ![e] = seats'[i].addr]}
  PROVE  Behind'
<1>1. TypeOK
  BY DEF CoreIInv
<1>2. /\ ~Held(a)
      /\ seats' = [seats EXCEPT ![i] = Leased(e, a)]
      /\ next_short_addr' \in Pool
      /\ \E k \in 0..NSlots : /\ a = Try(k)
                              /\ \A j \in 0..(k - 1) : Held(Try(j))
                              /\ next_short_addr' = Try(k + 1)
  BY <1>1, JoinFresh
<1>3. Try(0) = next_short_addr
  BY <1>1, TryInPool
<1>4. ~Held(next_short_addr)
  <2>1. next_short_addr \in Nat
    BY <1>1, CoreAssumption DEF TypeOK, Pool
  <2> QED
    BY <2>1, <1>1, SeatFacts, CoreAssumption
    DEF Behind, Held, HasAddr, Live, TypeOK, Pool, Free
<1>5. a = next_short_addr /\ next_short_addr' = Try(1)
  <2>1. PICK k \in 0..NSlots : /\ a = Try(k)
                               /\ \A j \in 0..(k - 1) : Held(Try(j))
                               /\ next_short_addr' = Try(k + 1)
    BY <1>2
  <2>2. k = 0
    BY <1>3, <1>4, <2>1, CoreAssumption
  <2> QED
    BY <1>3, <2>1, <2>2
<1>6. a < next_short_addr'
  <2>1. Try(1) # Try(0)
    BY <1>1, TryInjective, CoreAssumption
  <2> QED
    BY <1>1, <1>2, <1>3, <1>5, <2>1, CoreAssumption DEF TypeOK, Pool
<1>7. /\ seats'[i].addr = a /\ seats'[i].eui = e
      /\ \A j \in Slot \ {i} : seats'[j] = seats[j]
  BY <1>1, <1>2 DEF TypeOK, Leased
<1>8. \A o \in Eui : mine'[o] = mine[o] \/ (o = e /\ mine'[o] = a)
  BY <1>7
<1>9. \A j \in Slot : HasAddr(j, a)' => j = i
  BY <1>2, <1>7 DEF Held, HasAddr, Free
<1>10. \A j \in Live' : seats'[j].addr < next_short_addr'
  <2>1. ASSUME NEW j \in Live
        PROVE  seats[j].addr < next_short_addr'
    <3>1. seats[j].addr \in Int /\ a \in Int /\ next_short_addr' \in Int
      BY <1>1, <1>2, SeatFacts, CoreAssumption DEF TypeOK, Live, Free, Pool
    <3>2. seats[j].addr < a
      BY <1>5 DEF Behind
    <3> QED
      BY <1>6, <3>1, <3>2
  <2> QED
    BY <1>6, <1>7, <2>1 DEF Live, Free
<1>11. \A o \in Eui : mine'[o] < next_short_addr'
  <2>1. ASSUME NEW o \in Eui
        PROVE  mine[o] < next_short_addr'
    <3>1. mine[o] \in Int /\ a \in Int /\ next_short_addr' \in Int
      BY <1>2, CoreAssumption DEF Pool
    <3>2. mine[o] < a
      BY <1>5 DEF Behind
    <3> QED
      BY <1>6, <3>1, <3>2
  <2> QED
    BY <1>6, <1>8, <2>1
<1>12. ASSUME NEW o \in Eui, Mistaken(o)'
       PROVE  FALSE
  <2>1. PICK j \in Slot : /\ seats'[j] # NoSeat
                         /\ seats'[j].addr = mine'[o] /\ seats'[j].eui # o
    BY <1>12 DEF Mistaken, HasAddr, Free
  <2>2. CASE mine'[o] = mine[o]
    <3>1. mine[o] < a /\ mine[o] \in Int /\ a \in Int
      BY <1>5, CoreAssumption DEF Behind, Pool
    <3>2. mine[o] # a
      BY <3>1
    <3>3. j # i
      BY <1>7, <2>1, <2>2, <3>2 DEF HasAddr
    <3>4. HasAddr(j, mine[o]) /\ seats[j].eui # o
      BY <1>7, <2>1, <2>2, <3>3 DEF HasAddr, Free
    <3> QED
      BY <3>4 DEF Behind, Mistaken
  <2>3. CASE o = e /\ mine'[o] = a
    BY <1>7, <1>9, <2>1, <2>3 DEF HasAddr, Free
  <2> QED
    BY <1>8, <2>2, <2>3
<1> QED
  BY <1>10, <1>11, <1>12 DEF Behind

\* No tag has an address before it is granted one.
LEMMA TagsInitial == TagsInit => TagsIInv
<1>1. Base \in Nat \ {0}
  BY CoreAssumption
<1> QED
  BY <1>1, CoreInitial
  DEF TagsInit, Init, TagsIInv, Behind, Live, Free, Mistaken, HasAddr

\* One step per action of the tags, the superframe and the power cut.
LEMMA TagsInvariant == TagsIInv /\ [TagsNext]_systemVars => TagsIInv'
<1> SUFFICES ASSUME TagsIInv, [TagsNext]_systemVars
             PROVE  TagsIInv'
  OBVIOUS
<1>1. /\ CoreIInv /\ TypeOK /\ SeatsDistinct
      /\ mine \in [Eui -> Pool \cup {0}]
      /\ ~restarted /\ ~wrapped => Behind
  BY DEF TagsIInv, CoreIInv
<1>2. CoreIInv'
  BY <1>1, TagsStep, CoreStep
<1>3. ASSUME NEW e \in Eui, Join(e)
      PROVE  TagsIInv'
  <2>1. PICK i \in Slot :
          /\ Rejoin(e, i) \/ \E a \in Pool : JoinNew(e, i, a)
          /\ mine' \in {mine, [mine EXCEPT ![e] = seats'[i].addr]}
    BY <1>3 DEF Join
  <2>2. /\ wrapped' = (wrapped \/ next_short_addr' < next_short_addr)
        /\ restarted' = restarted
    BY <1>3 DEF Join
  <2>3. CASE Rejoin(e, i)
    <3>1. /\ next_short_addr' = next_short_addr /\ Keeps
          /\ seats'[i].addr = seats[i].addr /\ HasEui(i, e)
          /\ seats[i] \in Seat
      <4>1. Keeps /\ next_short_addr' = next_short_addr /\ HasEui(i, e)
        BY <1>1, <2>3, RejoinKeeps DEF Rejoin
      <4>2. seats[i] \in Seat
        BY <1>1, <4>1 DEF TypeOK, HasEui, Free
      <4>3. seats'[i] = [seats[i] EXCEPT !.lease = Lease]
        BY <1>1, <2>3 DEF Rejoin, TypeOK
      <4>4. seats'[i].addr = seats[i].addr
        BY <4>2, <4>3 DEF Seat
      <4> QED
        BY <4>1, <4>2, <4>4
    <3>2. /\ seats[i].addr \in Pool
          /\ mine' \in {mine, [mine EXCEPT ![e] = seats[i].addr]}
      BY <2>1, <3>1, SeatFacts
    <3>3. mine' \in [Eui -> Pool \cup {0}]
      BY <1>1, <3>2
    <3>4. ASSUME ~restarted, ~wrapped
          PROVE  Behind'
      <4>1. Behind
        BY <1>1, <3>4
      <4> DEFINE heard == [mine EXCEPT ![e] = seats[i].addr]
      <4>2. /\ seats[i].addr < next_short_addr
            /\ \A j \in Slot : HasAddr(j, seats[i].addr) => seats[j].eui = e
        BY <1>1, <3>1, <4>1 DEF Behind, SeatsDistinct, HasAddr, HasEui, Live, Free
      <4>3. \A o \in Eui : /\ mine'[o] < next_short_addr
                           /\ \A j \in Slot : HasAddr(j, mine'[o]) => seats[j].eui = o
        BY <1>1, <3>2, <4>1, <4>2 DEF Behind, Mistaken
      <4>4. \A j \in Live' : /\ j \in Live
                             /\ seats'[j].addr = seats[j].addr
                             /\ seats'[j].eui = seats[j].eui
        BY <3>1 DEF Keeps, Live, Free
      <4>5. \A o \in Eui : ~Mistaken(o)'
        BY <4>3, <4>4 DEF Mistaken, HasAddr, Live, Free
      <4>6. \A j \in Live' : seats'[j].addr < next_short_addr'
        BY <3>1, <4>1, <4>4 DEF Behind
      <4>7. \A o \in Eui : mine'[o] < next_short_addr'
        BY <3>1, <4>3
      <4> QED
        BY <4>5, <4>6, <4>7 DEF Behind
    <3>5. ~restarted' /\ ~wrapped' => Behind'
      BY <2>2, <3>4
    <3> QED
      BY <1>2, <3>3, <3>5 DEF TagsIInv
  <2>4. ASSUME NEW a \in Pool, JoinNew(e, i, a)
        PROVE  TagsIInv'
    <3>1. seats'[i].addr = a /\ next_short_addr' \in Pool
      BY <1>1, <2>4, JoinFresh DEF TypeOK, Leased
    <3>2. mine' \in [Eui -> Pool \cup {0}]
      BY <1>1, <2>1, <3>1
    <3>3. ASSUME ~restarted', ~wrapped'
          PROVE  Behind'
      <4>1. ~restarted /\ ~wrapped /\ ~(next_short_addr' < next_short_addr)
        BY <2>2, <3>3
      <4>2. next_short_addr' >= next_short_addr
        BY <1>1, <3>1, <4>1, CoreAssumption DEF TypeOK, Pool
      <4> QED
        BY <1>1, <2>1, <2>4, <4>1, <4>2, JoinBehind
    <3> QED
      BY <1>2, <3>2, <3>3 DEF TagsIInv
  <2> QED
    BY <2>1, <2>3, <2>4
<1>4. ASSUME Keeps, next_short_addr' = next_short_addr, UNCHANGED tagVars
      PROVE  TagsIInv'
  <2>1. mine' = mine /\ restarted' = restarted /\ wrapped' = wrapped
    BY <1>4 DEF tagVars
  <2>2. ASSUME ~restarted, ~wrapped
        PROVE  Behind'
    BY <1>1, <1>4, <2>1, <2>2, KeepsBehind
  <2> QED
    BY <1>1, <1>2, <2>1, <2>2 DEF TagsIInv
<1>5. ASSUME NEW e \in Eui, TagKeepalive(e)
      PROVE  TagsIInv'
  <2>1. Keeps
    BY <1>1, <1>5, KeepaliveKeeps DEF TagKeepalive
  <2>2. next_short_addr' = next_short_addr /\ UNCHANGED tagVars
    BY <1>5 DEF TagKeepalive, Keepalive
  <2> QED
    BY <1>4, <2>1, <2>2
<1>6. ASSUME NEW e \in Eui, TagRelease(e)
      PROVE  TagsIInv'
  <2>1. Keeps
    <3>1. CASE Release(mine[e])
      BY <1>1, <3>1, ReleaseKeeps
    <3>2. CASE UNCHANGED coreVars
      BY <1>1, <3>2 DEF coreVars, TypeOK, Keeps
    <3> QED
      BY <1>6, <3>1, <3>2 DEF TagRelease
  <2>2. /\ next_short_addr' = next_short_addr
        /\ mine' = [mine EXCEPT ![e] = 0]
        /\ restarted' = restarted /\ wrapped' = wrapped
    BY <1>6 DEF TagRelease, Release, coreVars
  <2>3. mine' \in [Eui -> Pool \cup {0}]
    BY <1>1, <2>2
  <2>4. ASSUME ~restarted, ~wrapped
        PROVE  Behind'
    <3>1. Behind
      BY <1>1, <2>4
    <3>2. \A j \in Live' : /\ j \in Live
                           /\ seats'[j].addr = seats[j].addr
                           /\ seats'[j].eui = seats[j].eui
                           /\ seats'[j].addr # 0
      BY <1>1, <2>1, SeatFacts DEF Keeps, Live, Free, TypeOK
    <3>3. \A o \in Eui : mine'[o] = mine[o] \/ mine'[o] = 0
      BY <1>1, <2>2
    <3>4. \A o \in Eui : ~Mistaken(o)'
      BY <3>1, <3>2, <3>3 DEF Behind, Mistaken, HasAddr, Live, Free
    <3>5. next_short_addr \in Int /\ 0 < next_short_addr
      BY <1>1, CoreAssumption DEF TypeOK, Pool
    <3>6. \A o \in Eui : mine'[o] < next_short_addr'
      BY <2>2, <3>1, <3>3, <3>5 DEF Behind
    <3> QED
      BY <2>2, <3>1, <3>2, <3>4, <3>6 DEF Behind
  <2> QED
    BY <1>2, <2>2, <2>3, <2>4 DEF TagsIInv
<1>7. ASSUME UNCHANGED coreVars, UNCHANGED <<mine, restarted, wrapped>>
      PROVE  TagsIInv'
  BY <1>2, <1>7 DEF TagsIInv, coreVars, Behind, Mistaken, HasAddr, Live, Free
<1>8. CASE Superframe
  <2>1. Keeps
    BY <1>1, <1>8, TickKeeps DEF Superframe
  <2>2. next_short_addr' = next_short_addr /\ UNCHANGED tagVars
    BY <1>8 DEF Superframe, Tick
  <2> QED
    BY <1>4, <2>1, <2>2
<1>9. CASE GatewayRestart
  BY <1>1, <1>2, <1>9 DEF GatewayRestart, TagsIInv
<1>10. ASSUME NEW e \in Eui, TagDies(e)
       PROVE  TagsIInv'
  BY <1>7, <1>10 DEF TagDies
<1>11. CASE UNCHANGED systemVars
  BY <1>7, <1>11 DEF systemVars, coreVars, tagVars
<1> QED
  BY <1>3, <1>5, <1>6, <1>8, <1>9, <1>10, <1>11 DEF TagsNext

\* Until the gateway restarts or its pool has gone round, nobody ever renews
\* another tag's lease, or has fixes published under another tag's identity.
THEOREM AlwaysStragglersUnmistaken == TagsSpec => []StragglersUnmistaken
<1>1. TagsIInv => StragglersUnmistaken
  BY DEF TagsIInv, Behind, StragglersUnmistaken
<1>2. TagsInit => TagsIInv
  BY TagsInitial
<1>3. TagsIInv /\ [TagsNext]_systemVars => TagsIInv'
  BY TagsInvariant
<1> QED
  BY <1>1, <1>2, <1>3, PTL DEF TagsSpec
=============================================================================

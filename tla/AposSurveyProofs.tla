-------------------------- MODULE AposSurveyProofs --------------------------
(***************************************************************************)
(* Theorems about the gateway's survey machine, for any number of boards   *)
(* and addresses, any gauges and any retry bounds, and about the survey    *)
(* end to end, for any number of anchors, any losses and any power cuts.   *)
(*                                                                         *)
(* The machine.  Each safety property of AposGw is a conjunct of IInv, and *)
(* IInv is inductive: one lemma per action shows that the action preserves *)
(* it, one step of that lemma per conjunct.  What the conjuncts need of    *)
(* one another: the walk's cursor stays inside the table because the table *)
(* is fixed while ranging and pair_total is its number of ordered pairs    *)
(* (PhaseFacts); an answer is filed under the cursor's own pair because    *)
(* await_from and await_peer are that pair's addresses (AwaitIsAtCursor)   *)
(* and addresses are unique (PeersDistinct); an apply points only at nodes *)
(* of the table because the result is about it (ResultMatchesTable).       *)
(*                                                                         *)
(* End to end.  The gateway of the composed system takes only steps of     *)
(* AposGw, so IInv holds here too.  To it come what the anchors' replies   *)
(* on their way are worth (AckIsTrue, RangeIsTrue): an acknowledgement     *)
(* that is still owed tells what its anchor has on flash, because an       *)
(* anchor that owes a reply hears no other SETPOS.                         *)
(*                                                                         *)
(* For the behaviours in which nothing is lost (Smooth): the gateway acts  *)
(* only when every anchor listens, every window is then open, so a command *)
(* that is out has its good answer on the way and no timeout ever comes.   *)
(***************************************************************************)
EXTENDS AposSurvey, TLAPS

\* What division by a positive number returns.
LEMMA DivisionFact ==
  ASSUME NEW k \in Nat, NEW d \in Nat \ {0}
  PROVE  /\ k \div d \in Nat
         /\ k % d \in 0..(d - 1)
         /\ k = d * (k \div d) + (k % d)
BY SMT

\* Multiplication is monotone.
LEMMA ProductMonotone ==
  ASSUME NEW d \in Nat \ {0}, NEW q \in Nat, NEW n \in Nat, q >= n
  PROVE  d * q >= d * n
BY Z3

\* Quotient and remainder are what they were built from.
LEMMA QuotientRemainder ==
  ASSUME NEW d \in Nat \ {0}, NEW q \in Nat, NEW r \in 0..(d - 1)
  PROVE  (d * q + r) \div d = q /\ (d * q + r) % d = r
<1> DEFINE k == d * q + r
           a == k \div d
           b == k % d
<1>1. k \in Nat /\ d * q \in Nat
  OBVIOUS
<1>2. a \in Nat /\ b \in 0..(d - 1) /\ k = d * a + b
  BY <1>1, DivisionFact
<1>3. d * (q + 1) = d * q + d /\ d * (a + 1) = d * a + d /\ d * a \in Nat
  BY <1>2, SMT
<1>4. ~(a >= q + 1)
  BY <1>1, <1>2, <1>3, ProductMonotone
<1>5. ~(q >= a + 1)
  <2>1. SUFFICES ASSUME q >= a + 1 PROVE FALSE
    OBVIOUS
  <2>2. d * q >= d * (a + 1)
    BY <1>2, <2>1, ProductMonotone
  <2> HIDE DEF a, b
  <2> QED
    BY <1>1, <1>2, <1>3, <2>2
<1>6. a = q
  BY <1>2, <1>4, <1>5
<1> QED
  BY <1>1, <1>2, <1>6

\* Every position of the walk is a pair of two different nodes of the table.
LEMMA PairInRange ==
  ASSUME NEW n \in Nat, n >= 2, NEW k \in Nat, k < n * (n - 1)
  PROVE  /\ PairFrom(k, n) \in 1..n
         /\ PairTo(k, n) \in 1..n
         /\ PairFrom(k, n) # PairTo(k, n)
<1> DEFINE d == n - 1
<1>1. d \in Nat \ {0}
  OBVIOUS
<1>2. k \div d \in Nat /\ k % d \in 0..(d - 1) /\ k = d * (k \div d) + (k % d)
  BY <1>1, DivisionFact
<1> DEFINE q == k \div d
           r == k % d
<1>3. q < n
  <2>1. SUFFICES ASSUME q >= n PROVE FALSE
    BY <1>2
  <2>2. d * q >= d * n
    BY <1>1, <1>2, <2>1, ProductMonotone
  <2>3. d * n = n * (n - 1)
    BY SMT
  <2>4. d * q \in Nat /\ d * n \in Nat
    BY <1>1, <1>2
  <2> QED
    BY <1>2, <2>2, <2>3, <2>4
<1>4. PairFrom(k, n) = q + 1
  BY DEF PairFrom
<1>5. PairTo(k, n) = (IF r >= q THEN r + 1 ELSE r) + 1
  BY DEF PairTo
<1> HIDE DEF q, r
<1> QED
  BY <1>1, <1>2, <1>3, <1>4, <1>5 DEF q, r

\* The walk visits every ordered pair of two different nodes, and nothing else.
LEMMA PairsCovered ==
  ASSUME NEW n \in Nat, n >= 2
  PROVE  {<<PairFrom(k, n), PairTo(k, n)>> : k \in 0..(n * (n - 1) - 1)}
           = {p \in (1..n) \X (1..n) : p[1] # p[2]}
<1> DEFINE d == n - 1
           last == n * d - 1
<1>0. d \in Nat \ {0} /\ n * d \in Nat /\ last \in Int
  BY SMT
<1>1. ASSUME NEW k \in 0..last
      PROVE  /\ PairFrom(k, n) \in 1..n /\ PairTo(k, n) \in 1..n
             /\ PairFrom(k, n) # PairTo(k, n)
  <2>1. k \in Nat /\ k < n * (n - 1)
    BY <1>0
  <2> QED
    BY <2>1, PairInRange
<1>2. ASSUME NEW i \in 1..n, NEW j \in 1..n, i # j
      PROVE  \E k \in 0..last : PairFrom(k, n) = i /\ PairTo(k, n) = j
  <2> DEFINE q == i - 1
             r == IF j < i THEN j - 1 ELSE j - 2
             k == d * q + r
  <2>1. q \in Nat /\ r \in 0..(d - 1) /\ q <= d
    BY <1>0, <1>2
  <2>2. k \div d = q /\ k % d = r
    BY <1>0, <2>1, QuotientRemainder
  <2>3. k \in 0..last
    <3>1. d * d >= d * q
      BY <1>0, <2>1, ProductMonotone
    <3>2. n * d = d * d + d
      BY SMT
    <3>3. d * q \in Nat /\ d * d \in Nat
      BY <1>0, <2>1
    <3> HIDE DEF d, q, r
    <3> QED
      BY <1>0, <2>1, <3>1, <3>2, <3>3
  <2>4. PairFrom(k, n) = q + 1
    BY <2>2 DEF PairFrom
  <2>5. PairTo(k, n) = (IF r >= q THEN r + 1 ELSE r) + 1
    BY <2>2 DEF PairTo
  <2>6. q + 1 = i /\ (IF r >= q THEN r + 1 ELSE r) + 1 = j
    BY <1>2
  <2> QED
    BY <2>3, <2>4, <2>5, <2>6
<1>3. n * (n - 1) - 1 = last
  OBVIOUS
<1> HIDE DEF d, last
<1>4. ASSUME NEW p \in {<<PairFrom(k, n), PairTo(k, n)>> : k \in 0..last}
      PROVE  p \in (1..n) \X (1..n) /\ p[1] # p[2]
  BY <1>1
<1>5. ASSUME NEW p \in (1..n) \X (1..n), p[1] # p[2]
      PROVE  p \in {<<PairFrom(k, n), PairTo(k, n)>> : k \in 0..last}
  BY <1>2, <1>5
<1> QED
  BY <1>3, <1>4, <1>5

-----------------------------------------------------------------------------
(* The table *)

\* A row found by address is a row of the table, with that address.
LEMMA FindAddrFinds ==
  ASSUME NEW t \in Seq(Peer), NEW a, FindAddr(t, a) # NoIndex
  PROVE  FindAddr(t, a) \in DOMAIN t /\ t[FindAddr(t, a)].addr = a
BY DEF FindAddr, NoIndex

\* A row is found by identity exactly when there is one.
LEMMA FindEuiFinds ==
  ASSUME NEW t \in Seq(Peer), NEW e
  PROVE  /\ FindEui(t, e) # NoIndex =>
              FindEui(t, e) \in DOMAIN t /\ t[FindEui(t, e)].eui = e
         /\ FindEui(t, e) = NoIndex => \A k \in DOMAIN t : t[k].eui # e
<1>1. CASE \E k \in DOMAIN t : t[k].eui = e
  <2>1. FindEui(t, e) \in DOMAIN t /\ t[FindEui(t, e)].eui = e
    BY <1>1 DEF FindEui
  <2>2. 0 \notin DOMAIN t
    OBVIOUS
  <2> QED
    BY <2>1, <2>2 DEF NoIndex
<1>2. CASE ~\E k \in DOMAIN t : t[k].eui = e
  BY <1>2 DEF FindEui, NoIndex
<1> QED
  BY <1>1, <1>2

\* In a table without duplicate addresses a row is found by its own address.
LEMMA FindAddrUnique ==
  ASSUME NEW t \in Seq(Peer),
         \A i, j \in DOMAIN t : i # j => t[i].addr # t[j].addr,
         NEW k \in DOMAIN t
  PROVE  FindAddr(t, t[k].addr) = k
BY DEF FindAddr

\* An accepted answer keeps the table well formed, duplicate-free and within
\* its capacity.
LEMMA AddPeerKeepsDistinct ==
  ASSUME NEW t \in Seq(Peer), NEW e \in Eui, NEW a \in Addr,
         \A i, j \in DOMAIN t :
           i # j => t[i].eui # t[j].eui /\ t[i].addr # t[j].addr,
         Len(t) <= MaxNodes,
         ~AddrInUse(t, e, a), ~NoSpace(t, e)
  PROVE  LET u == AddPeer(t, e, a)
         IN  /\ u \in Seq(Peer) /\ Len(u) <= MaxNodes
             /\ \A i, j \in DOMAIN u :
                  i # j => u[i].eui # u[j].eui /\ u[i].addr # u[j].addr
<1> DEFINE p == [eui |-> e, addr |-> a]
           f == FindEui(t, e)
<1>1. p \in Peer /\ p.eui = e /\ p.addr = a
  BY DEF Peer
<1>2. MaxNodes \in Nat
  BY TableAssumption
<1>3. CASE f = NoIndex
  <2>1. AddPeer(t, e, a) = Append(t, p)
    BY <1>3 DEF AddPeer
  <2>2. \A k \in DOMAIN t : t[k].eui # e /\ t[k].addr # a
    <3>1. \A k \in DOMAIN t : t[k].eui # e
      BY <1>3, FindEuiFinds
    <3>2. \A k \in DOMAIN t : k # NoIndex
      BY DEF NoIndex
    <3> QED
      BY <1>3, <3>1, <3>2 DEF AddrInUse
  <2>3. Len(t) < MaxNodes
    BY <1>2, <1>3 DEF NoSpace
  <2> HIDE DEF p
  <2> QED
    BY <1>1, <1>2, <2>1, <2>2, <2>3
<1>4. CASE f # NoIndex
  <2>1. AddPeer(t, e, a) = [t EXCEPT ![f] = p]
    BY <1>4 DEF AddPeer
  <2>2. f \in DOMAIN t /\ t[f].eui = e
    BY <1>4, FindEuiFinds
  <2>3. \A k \in DOMAIN t : k # f => t[k].addr # a
    BY DEF AddrInUse
  <2> HIDE DEF p, f
  <2> QED
    BY <1>1, <1>2, <2>1, <2>2, <2>3
<1> QED
  BY <1>3, <1>4

-----------------------------------------------------------------------------
(* The inductive invariant *)

\* The invariant holds at boot.
LEMMA InitIInv == Init => IInv
<1> SUFFICES ASSUME Init PROVE IInv
  OBVIOUS
<1> USE GwAssumption, TableAssumption DEF Init
<1>1. TypeOK
  <2>1. FlagsOK
    BY DEF FlagsOK
  <2>2. CursorsOK
    BY DEF CursorsOK
  <2>3. res \in Result
    BY DEF NoResult, Result, NoIndex
  <2>4. DataOK
    BY <2>3 DEF DataOK
  <2> QED
    BY <2>1, <2>2, <2>4 DEF TypeOK
<1>2. PhaseFacts
  BY DEF PhaseFacts
<1>3. PeersDistinct
  BY DEF PeersDistinct
<1>4. AwaitIsAtCursor
  BY DEF AwaitIsAtCursor
<1>5. MeasBehindCursor
  BY DEF MeasBehindCursor
<1>6. ResultMatchesTable
  BY DEF ResultMatchesTable
<1>7. ApplyAccounting
  BY DEF ApplyAccounting
<1>8. StoreUsable
  BY DEF StoreUsable, NoSurvey
<1> QED
  BY <1>1, <1>2, <1>3, <1>4, <1>5, <1>6, <1>7, <1>8 DEF IInv

\* It holds after a power cut: only the flash is left, and it was usable.
LEMMA RebootIInv ==
  ASSUME IInv, Reboot
  PROVE  IInv'
<1> USE GwAssumption, TableAssumption DEF Reboot
<1>1. TypeOK'
  <2>1. FlagsOK'
    BY DEF FlagsOK
  <2>2. CursorsOK'
    BY DEF CursorsOK
  <2>3. (res \in Result)'
    BY DEF NoResult, Result, NoIndex
  <2>4. DataOK'
    BY <2>3 DEF DataOK, IInv, TypeOK
  <2> QED
    BY <2>1, <2>2, <2>4 DEF TypeOK
<1>2. PhaseFacts'
  BY DEF PhaseFacts
<1>3. PeersDistinct'
  BY DEF PeersDistinct
<1>4. AwaitIsAtCursor'
  BY DEF AwaitIsAtCursor
<1>5. MeasBehindCursor'
  BY DEF MeasBehindCursor
<1>6. ResultMatchesTable'
  BY DEF ResultMatchesTable
<1>7. ApplyAccounting'
  BY DEF ApplyAccounting
<1>8. StoreUsable'
  BY DEF IInv, StoreUsable
<1> QED
  BY <1>1, <1>2, <1>3, <1>4, <1>5, <1>6, <1>7, <1>8 DEF IInv

\* A step that leaves the table alone keeps it free of duplicates.
LEMMA PeersDistinctKept ==
  ASSUME PeersDistinct, UNCHANGED peers
  PROVE  PeersDistinct'
BY DEF PeersDistinct

\* One that leaves table, measurements and cursor alone keeps them in order.
LEMMA MeasBehindCursorKept ==
  ASSUME MeasBehindCursor, UNCHANGED <<peers, meas, pair_idx>>
  PROVE  MeasBehindCursor'
BY DEF MeasBehindCursor

\* One that touches neither table nor result keeps them matched.
LEMMA ResultMatchesTableKept ==
  ASSUME ResultMatchesTable, UNCHANGED <<peers, pair_idx, resultVars>>
  PROVE  ResultMatchesTable'
BY DEF ResultMatchesTable, resultVars

\* One that does not write flash keeps it usable.
LEMMA StoreUsableKept ==
  ASSUME StoreUsable, UNCHANGED store
  PROVE  StoreUsable'
BY DEF StoreUsable

\* One that touches no part of an apply keeps its counts.
LEMMA ApplyAccountingKept ==
  ASSUME ApplyAccounting, UNCHANGED <<phase, have_result, res, applied, apply_idx, ending>>
  PROVE  ApplyAccounting'
BY DEF ApplyAccounting

\* The walk's cursor may only move forward over measurements.
LEMMA MeasBehindLaterCursor ==
  ASSUME MeasBehindCursor, UNCHANGED <<peers, meas>>,
         pair_idx \in Nat, pair_idx' = pair_idx + 1
  PROVE  MeasBehindCursor'
<1>1. 0..(pair_idx - 1) \subseteq 0..(pair_idx' - 1)
  OBVIOUS
<1> QED
  BY <1>1 DEF MeasBehindCursor

\* A new gauge leaves table, result and cursors alone.
LEMMA SetGaugeIInv ==
  ASSUME IInv, NEW g \in Gauge, SetGauge(g)
  PROVE  IInv'
<1> USE DEF SetGauge, Busy, tableVars, resultVars, rangeVars, applyVars, awaitVars
<1>1. FlagsOK'
  BY DEF IInv, TypeOK, FlagsOK
<1>2. CursorsOK'
  BY DEF IInv, TypeOK, CursorsOK
<1>3. DataOK'
  BY DEF IInv, TypeOK, DataOK
<1>4. PhaseFacts'
  BY GwAssumption DEF IInv, PhaseFacts, NoGauge
<1>5. PeersDistinct'
  BY PeersDistinctKept DEF IInv
<1>6. AwaitIsAtCursor'
  BY DEF IInv, AwaitIsAtCursor, CursorFrom, CursorTo
<1>7. MeasBehindCursor'
  BY MeasBehindCursorKept DEF IInv
<1>8. ResultMatchesTable'
  BY ResultMatchesTableKept DEF IInv
<1>9. ApplyAccounting'
  BY ApplyAccountingKept DEF IInv
<1>10. StoreUsable'
  BY StoreUsableKept DEF IInv
<1> QED
  BY <1>1, <1>2, <1>3, <1>4, <1>5, <1>6, <1>7, <1>8, <1>9, <1>10 DEF IInv, TypeOK

\* What `apos enum' and `apos run' have in common.
LEMMA BeginEnumIInv ==
  ASSUME IInv, NEW s \in Session, is_run' \in BOOLEAN, is_run' => gauge # NoGauge, res' \in Result, BeginEnum(s)
  PROVE  IInv'
<1> USE DEF BeginEnum, Busy, ClearTable, DropResult, applyVars
<1>1. FlagsOK'
  BY DEF IInv, TypeOK, FlagsOK
<1>2. CursorsOK'
  BY GwAssumption DEF IInv, TypeOK, CursorsOK
<1>3. DataOK'
  BY TableAssumption DEF IInv, TypeOK, DataOK
<1>4. PhaseFacts'
  BY GwAssumption DEF PhaseFacts
<1>5. PeersDistinct'
  BY DEF PeersDistinct
<1>6. AwaitIsAtCursor'
  BY DEF AwaitIsAtCursor
<1>7. MeasBehindCursor'
  BY DEF MeasBehindCursor
<1>8. ResultMatchesTable'
  BY DEF ResultMatchesTable
<1>9. ApplyAccounting'
  BY DEF ApplyAccounting
<1>10. StoreUsable'
  BY StoreUsableKept DEF IInv
<1> QED
  BY <1>1, <1>2, <1>3, <1>4, <1>5, <1>6, <1>7, <1>8, <1>9, <1>10 DEF IInv, TypeOK

\* An apply starts from a result, with nothing counted yet.
LEMMA StartApplyIInv ==
  ASSUME IInv, NEW force \in BOOLEAN, StartApply(force)
  PROVE  IInv'
<1> USE DEF StartApply, Busy, OpensWindows, cmdVars, tableVars, resultVars, rangeVars
<1>1. FlagsOK'
  BY DEF IInv, TypeOK, FlagsOK
<1>2. CursorsOK'
  BY GwAssumption, TableAssumption DEF IInv, TypeOK, CursorsOK
<1>3. DataOK'
  BY DEF IInv, TypeOK, DataOK
<1>4. PhaseFacts'
  BY DEF IInv, PhaseFacts
<1>5. PeersDistinct'
  BY PeersDistinctKept DEF IInv
<1>6. AwaitIsAtCursor'
  BY DEF AwaitIsAtCursor
<1>7. MeasBehindCursor'
  BY MeasBehindCursorKept DEF IInv
<1>8. ResultMatchesTable'
  BY ResultMatchesTableKept DEF IInv
<1>9. ApplyAccounting'
  <2>1. res.n \in Nat
    BY DEF IInv, TypeOK, DataOK, Result
  <2> QED
    BY <2>1 DEF ApplyAccounting
<1>10. StoreUsable'
  BY StoreUsableKept DEF IInv
<1> QED
  BY <1>1, <1>2, <1>3, <1>4, <1>5, <1>6, <1>7, <1>8, <1>9, <1>10 DEF IInv, TypeOK

\* The clock changes nothing the invariant speaks of but the timer.
LEMMA TimerFiresIInv ==
  ASSUME IInv, TimerFires
  PROVE  IInv'
<1> USE DEF TimerFires, cmdVars, tableVars, resultVars, rangeVars, applyVars
<1>1. FlagsOK'
  BY DEF IInv, TypeOK, FlagsOK
<1>2. CursorsOK'
  BY DEF IInv, TypeOK, CursorsOK
<1>3. DataOK'
  BY DEF IInv, TypeOK, DataOK
<1>4. PhaseFacts'
  BY DEF IInv, PhaseFacts, TypeOK, CursorsOK
<1>5. PeersDistinct'
  BY PeersDistinctKept DEF IInv
<1>6. AwaitIsAtCursor'
  BY DEF IInv, AwaitIsAtCursor, CursorFrom, CursorTo
<1>7. MeasBehindCursor'
  BY MeasBehindCursorKept DEF IInv
<1>8. ResultMatchesTable'
  BY ResultMatchesTableKept DEF IInv
<1>9. ApplyAccounting'
  BY ApplyAccountingKept DEF IInv
<1>10. StoreUsable'
  BY StoreUsableKept DEF IInv
<1> QED
  BY <1>1, <1>2, <1>3, <1>4, <1>5, <1>6, <1>7, <1>8, <1>9, <1>10 DEF IInv, TypeOK

\* A round of polls only counts up to EnumRounds.
LEMMA EnumSendIInv ==
  ASSUME IInv, EnumSend
  PROVE  IInv'
<1> USE DEF EnumSend, tableVars, resultVars, rangeVars, applyVars
<1>1. FlagsOK'
  BY DEF IInv, TypeOK, FlagsOK
<1>2. CursorsOK'
  BY GwAssumption DEF IInv, TypeOK, CursorsOK
<1>3. DataOK'
  BY DEF IInv, TypeOK, DataOK
<1>4. PhaseFacts'
  BY DEF IInv, PhaseFacts, TypeOK, CursorsOK
<1>5. PeersDistinct'
  BY PeersDistinctKept DEF IInv
<1>6. AwaitIsAtCursor'
  BY DEF IInv, AwaitIsAtCursor, CursorFrom, CursorTo
<1>7. MeasBehindCursor'
  BY MeasBehindCursorKept DEF IInv
<1>8. ResultMatchesTable'
  BY ResultMatchesTableKept DEF IInv
<1>9. ApplyAccounting'
  BY ApplyAccountingKept DEF IInv
<1>10. StoreUsable'
  BY StoreUsableKept DEF IInv
<1> QED
  BY <1>1, <1>2, <1>3, <1>4, <1>5, <1>6, <1>7, <1>8, <1>9, <1>10 DEF IInv, TypeOK

\* A late answer is dropped by its phase; one that is taken finds no
\* measurement and no result yet that the table's growth could invalidate.
LEMMA OnEnumRspIInv ==
  ASSUME IInv, NEW s \in Session, NEW b \in Board, OnEnumRsp(s, b)
  PROVE  IInv'
<1> USE DEF OnEnumRsp, EnumAccepts, cmdVars, resultVars, rangeVars, applyVars, awaitVars
<1>a. b.eui \in Eui /\ b.addr \in Addr
  BY GwAssumption
<1>b. meas = {} /\ pair_idx = 0 /\ ~have_result /\ ~awaiting
  BY DEF IInv, PhaseFacts, AwaitIsAtCursor
<1>c. /\ peers' \in Seq(Peer) /\ Len(peers') <= MaxNodes
      /\ PeersDistinct'
  <2>1. CASE UNCHANGED peers
    BY <2>1, PeersDistinctKept DEF IInv, TypeOK, DataOK
  <2>2. CASE /\ ~AddrInUse(peers, b.eui, b.addr) /\ ~NoSpace(peers, b.eui)
            /\ peers' = AddPeer(peers, b.eui, b.addr)
    BY <1>a, <2>2, AddPeerKeepsDistinct DEF IInv, TypeOK, DataOK, PeersDistinct
  <2> QED
    BY <2>1, <2>2
<1>1. FlagsOK'
  BY DEF IInv, TypeOK, FlagsOK
<1>2. CursorsOK'
  BY DEF IInv, TypeOK, CursorsOK
<1>3. DataOK'
  BY <1>c DEF IInv, TypeOK, DataOK
<1>4. PhaseFacts'
  BY <1>b DEF IInv, PhaseFacts
<1>5. PeersDistinct'
  BY <1>c
<1>6. AwaitIsAtCursor'
  BY <1>b DEF AwaitIsAtCursor
<1>7. MeasBehindCursor'
  BY <1>b DEF MeasBehindCursor
<1>8. ResultMatchesTable'
  BY <1>b DEF ResultMatchesTable
<1>9. ApplyAccounting'
  BY DEF ApplyAccounting
<1>10. StoreUsable'
  BY StoreUsableKept DEF IInv
<1> QED
  BY <1>1, <1>2, <1>3, <1>4, <1>5, <1>6, <1>7, <1>8, <1>9, <1>10 DEF IInv, TypeOK

\* The answer is of the pair at the cursor, so it is filed under that pair.
LEMMA OnRangeRspIInv ==
  ASSUME IInv, NEW s, NEW src, NEW peer, NEW usable \in BOOLEAN, OnRangeRsp(s, src, peer, usable)
  PROVE  IInv'
<1> USE DEF OnRangeRsp, RangeAccepts, cmdVars, resultVars, applyVars
<1> DEFINE n == Len(peers)
<1>a. /\ n \in Nat /\ n >= 2 /\ pair_idx \in Nat /\ pair_idx < n * (n - 1)
      /\ await_from = peers[CursorFrom].addr /\ await_peer = peers[CursorTo].addr
  BY DEF IInv, TypeOK, CursorsOK, DataOK, PhaseFacts, AwaitIsAtCursor
<1>b. /\ CursorFrom \in DOMAIN peers /\ CursorTo \in DOMAIN peers
      /\ CursorFrom \in 1..n /\ CursorTo \in 1..n
  <2>1. CursorFrom \in 1..n /\ CursorTo \in 1..n
    BY <1>a, PairInRange DEF CursorFrom, CursorTo
  <2> QED
    BY <2>1 DEF IInv, TypeOK, DataOK
<1>c. /\ FindAddr(peers, await_from) = CursorFrom
      /\ FindAddr(peers, await_peer) = CursorTo
  BY <1>a, <1>b, FindAddrUnique DEF IInv, TypeOK, DataOK, PeersDistinct
<1>d. meas' \subseteq meas \cup {<<CursorFrom, CursorTo>>}
  BY <1>c DEF AddMeas
<1> HIDE DEF n
<1>1. FlagsOK'
  BY DEF IInv, TypeOK, FlagsOK
<1>2. CursorsOK'
  BY GwAssumption DEF IInv, TypeOK, CursorsOK
<1>3. DataOK'
  <2>1. n <= MaxNodes /\ MaxNodes \in Nat
    BY TableAssumption DEF n, IInv, TypeOK, DataOK
  <2>2. <<CursorFrom, CursorTo>> \in (1..MaxNodes) \X (1..MaxNodes)
    BY <1>a, <1>b, <2>1
  <2> QED
    BY <1>d, <2>2 DEF IInv, TypeOK, DataOK
<1>4. PhaseFacts'
  <2>1. pair_idx < pair_total /\ pair_idx \in Nat /\ pair_total \in Nat
    BY DEF IInv, TypeOK, CursorsOK, AwaitIsAtCursor
  <2> QED
    BY <2>1 DEF IInv, PhaseFacts
<1>5. PeersDistinct'
  BY PeersDistinctKept DEF IInv
<1>6. AwaitIsAtCursor'
  BY DEF AwaitIsAtCursor
<1>7. MeasBehindCursor'
  <2>1. /\ 0..(pair_idx - 1) \subseteq 0..(pair_idx' - 1)
        /\ pair_idx \in 0..(pair_idx' - 1)
    BY <1>a
  <2>2. <<CursorFrom, CursorTo>>
           = <<PairFrom(pair_idx, Len(peers')), PairTo(pair_idx, Len(peers'))>>
    BY DEF CursorFrom, CursorTo
  <2> QED
    BY <1>d, <2>1, <2>2 DEF IInv, MeasBehindCursor
<1>8. ResultMatchesTable'
  BY DEF IInv, PhaseFacts, ResultMatchesTable
<1>9. ApplyAccounting'
  BY DEF ApplyAccounting
<1>10. StoreUsable'
  BY StoreUsableKept DEF IInv
<1> QED
  BY <1>1, <1>2, <1>3, <1>4, <1>5, <1>6, <1>7, <1>8, <1>9, <1>10 DEF IInv, TypeOK

\* The acknowledged node is placed, so it counts as one that was not skipped.
LEMMA OnSetposAckIInv ==
  ASSUME IInv, NEW s, NEW src, NEW ok \in BOOLEAN, OnSetposAck(s, src, ok)
  PROVE  IInv'
<1> USE DEF OnSetposAck, AckAccepts, cmdVars, tableVars, resultVars, rangeVars
<1>a. /\ apply_idx \in Nat /\ res.n \in 0..MaxNodes /\ apply_idx < res.n
      /\ apply_idx + 1 \in res.placed /\ MaxNodes \in Nat
  BY TableAssumption DEF IInv, TypeOK, CursorsOK, DataOK, Result, AwaitIsAtCursor
<1>1. FlagsOK'
  BY DEF IInv, TypeOK, FlagsOK
<1>2. CursorsOK'
  BY <1>a, GwAssumption DEF IInv, TypeOK, CursorsOK
<1>3. DataOK'
  BY DEF IInv, TypeOK, DataOK, Outcome
<1>4. PhaseFacts'
  BY DEF IInv, PhaseFacts, TypeOK, CursorsOK
<1>5. PeersDistinct'
  BY PeersDistinctKept DEF IInv
<1>6. AwaitIsAtCursor'
  BY DEF AwaitIsAtCursor
<1>7. MeasBehindCursor'
  BY MeasBehindCursorKept DEF IInv
<1>8. ResultMatchesTable'
  BY ResultMatchesTableKept DEF IInv
<1>9. ApplyAccounting'
  <2>1. applied \in Seq(Outcome) /\ applied' = Append(applied, IF ok THEN "ok" ELSE "fail")
    BY DEF IInv, TypeOK, DataOK
  <2>2. /\ Len(applied) = apply_idx
        /\ \A k \in DOMAIN applied : applied[k] = "skip" <=> k \notin res.placed
    BY DEF IInv, ApplyAccounting
  <2>3. ~ending
    BY <1>a DEF IInv, ApplyAccounting
  <2> QED
    BY <1>a, <2>1, <2>2, <2>3 DEF IInv, ApplyAccounting
<1>10. StoreUsable'
  BY StoreUsableKept DEF IInv
<1> QED
  BY <1>1, <1>2, <1>3, <1>4, <1>5, <1>6, <1>7, <1>8, <1>9, <1>10 DEF IInv, TypeOK

\* Only a run whose gauge has three nodes or four goes on to RANGE.
LEMMA EnumDoneIInv ==
  ASSUME IInv, EnumDone
  PROVE  IInv'
<1> USE DEF EnumDone, cmdVars, tableVars, resultVars, rangeVars, applyVars
<1>a. meas = {} /\ pair_idx = 0 /\ ~have_result /\ ~awaiting
  BY DEF IInv, PhaseFacts, AwaitIsAtCursor
<1>b. /\ Len(peers) \in Nat
      /\ phase' = "RANGE" =>
           /\ Len(peers) >= 3 /\ pair_idx' = 0
           /\ pair_total' = Len(peers) * (Len(peers) - 1)
           /\ is_run /\ gauge # NoGauge
  <2>1. is_run => gauge \in Gauge /\ gauge # NoGauge
    BY DEF IInv, TypeOK, DataOK, PhaseFacts
  <2>2. is_run => MinNodes(gauge) \in {3, 4}
    BY <2>1, GwAssumption DEF MinNodes
  <2> QED
    BY <2>1, <2>2 DEF IInv, TypeOK, DataOK
<1>1. FlagsOK'
  BY DEF IInv, TypeOK, FlagsOK
<1>2. CursorsOK'
  <2>1. Len(peers) \in Nat
    BY DEF IInv, TypeOK, DataOK
  <2>2. Len(peers) >= 3 => Len(peers) * (Len(peers) - 1) \in Nat
    BY <2>1
  <2> QED
    BY <1>a, <1>b, <2>2, GwAssumption DEF IInv, TypeOK, CursorsOK
<1>3. DataOK'
  BY DEF IInv, TypeOK, DataOK
<1>4. PhaseFacts'
  BY <1>a, <1>b DEF IInv, PhaseFacts, TypeOK, DataOK
<1>5. PeersDistinct'
  BY PeersDistinctKept DEF IInv
<1>6. AwaitIsAtCursor'
  BY <1>a DEF AwaitIsAtCursor
<1>7. MeasBehindCursor'
  BY <1>a DEF IInv, MeasBehindCursor
<1>8. ResultMatchesTable'
  BY <1>a DEF ResultMatchesTable
<1>9. ApplyAccounting'
  BY DEF ApplyAccounting
<1>10. StoreUsable'
  BY StoreUsableKept DEF IInv
<1> QED
  BY <1>1, <1>2, <1>3, <1>4, <1>5, <1>6, <1>7, <1>8, <1>9, <1>10 DEF IInv, TypeOK

\* A timeout forgets the command, with or without its pair.
LEMMA RangeTimeoutIInv ==
  ASSUME IInv, RangeTimeout
  PROVE  IInv'
<1> USE DEF RangeTimeout, RetirePair, cmdVars, tableVars, resultVars, applyVars
<1>a. /\ pair_idx \in Nat /\ pair_total \in Nat /\ pair_idx < pair_total
      /\ ~have_result /\ ~awaiting'
  BY DEF IInv, TypeOK, CursorsOK, PhaseFacts, AwaitIsAtCursor
<1>1. FlagsOK'
  BY DEF IInv, TypeOK, FlagsOK
<1>2. CursorsOK'
  BY <1>a, GwAssumption DEF IInv, TypeOK, CursorsOK
<1>3. DataOK'
  BY DEF IInv, TypeOK, DataOK
<1>4. PhaseFacts'
  BY <1>a DEF IInv, PhaseFacts
<1>5. PeersDistinct'
  BY PeersDistinctKept DEF IInv
<1>6. AwaitIsAtCursor'
  BY <1>a DEF AwaitIsAtCursor
<1>7. MeasBehindCursor'
  BY <1>a, MeasBehindCursorKept, MeasBehindLaterCursor DEF IInv
<1>8. ResultMatchesTable'
  BY <1>a DEF ResultMatchesTable
<1>9. ApplyAccounting'
  BY DEF ApplyAccounting
<1>10. StoreUsable'
  BY StoreUsableKept DEF IInv
<1> QED
  BY <1>1, <1>2, <1>3, <1>4, <1>5, <1>6, <1>7, <1>8, <1>9, <1>10 DEF IInv, TypeOK

\* The command names the two sides of the pair at the cursor.
LEMMA RangeCmdIInv ==
  ASSUME IInv, NEW tx \in BOOLEAN, RangeCmd(tx)
  PROVE  IInv'
<1> USE DEF RangeCmd, RetirePair, TxGivesUp, cmdVars, tableVars, resultVars, applyVars
<1>a. /\ pair_idx \in Nat /\ pair_total \in Nat /\ pair_idx < pair_total
      /\ ~have_result /\ ~awaiting
  BY DEF IInv, TypeOK, CursorsOK, PhaseFacts
<1>b. CursorFrom \in DOMAIN peers /\ CursorTo \in DOMAIN peers
  <2>1. /\ Len(peers) \in Nat /\ Len(peers) >= 2
        /\ pair_idx < Len(peers) * (Len(peers) - 1)
    BY <1>a DEF IInv, TypeOK, DataOK, PhaseFacts
  <2>2. CursorFrom \in 1..Len(peers) /\ CursorTo \in 1..Len(peers)
    BY <1>a, <2>1, PairInRange DEF CursorFrom, CursorTo
  <2> QED
    BY <2>2 DEF IInv, TypeOK, DataOK
<1>1. FlagsOK'
  BY DEF IInv, TypeOK, FlagsOK
<1>2. CursorsOK'
  BY <1>a, GwAssumption DEF IInv, TypeOK, CursorsOK
<1>3. DataOK'
  <2>1. peers[CursorFrom] \in Peer /\ peers[CursorTo] \in Peer
    BY <1>b DEF IInv, TypeOK, DataOK
  <2> QED
    BY <2>1 DEF IInv, TypeOK, DataOK, Peer
<1>4. PhaseFacts'
  BY <1>a DEF IInv, PhaseFacts
<1>5. PeersDistinct'
  BY PeersDistinctKept DEF IInv
<1>6. AwaitIsAtCursor'
  <2>1. CASE awaiting'
    <3>1. pair_idx' = pair_idx /\ phase' = "RANGE" /\ pair_total' = pair_total
      BY <1>a, <2>1
    <3> QED
      BY <1>a, <3>1 DEF AwaitIsAtCursor, CursorFrom, CursorTo
  <2> QED
    BY <2>1 DEF AwaitIsAtCursor
<1>7. MeasBehindCursor'
  BY <1>a, MeasBehindCursorKept, MeasBehindLaterCursor DEF IInv
<1>8. ResultMatchesTable'
  BY <1>a DEF ResultMatchesTable
<1>9. ApplyAccounting'
  BY DEF ApplyAccounting
<1>10. StoreUsable'
  BY StoreUsableKept DEF IInv
<1> QED
  BY <1>1, <1>2, <1>3, <1>4, <1>5, <1>6, <1>7, <1>8, <1>9, <1>10 DEF IInv, TypeOK

\* A solve that succeeds places the whole gauge, its origin first, and the
\* walk has ended when it runs.
LEMMA RangeSolveIInv ==
  ASSUME IInv, RangeSolve
  PROVE  IInv'
<1> USE DEF RangeSolve, cmdVars, tableVars, resultVars, rangeVars, applyVars,
            awaitVars
<1>a. /\ pair_idx = Len(peers) * (Len(peers) - 1) /\ ~have_result
      /\ Len(peers) \in 0..MaxNodes /\ MaxNodes \in Nat
      /\ DOMAIN peers = 1..Len(peers)
  BY TableAssumption DEF IInv, TypeOK, CursorsOK, DataOK, PhaseFacts
<1>b. \/ UNCHANGED resultVars
      \/ /\ res' \in Result /\ res'.n = Len(peers)
         /\ res'.placed \subseteq DOMAIN peers /\ res'.origin \in res'.placed
         /\ have_result' = TRUE /\ accepted' \in BOOLEAN
         /\ accepted' => res'.placed = DOMAIN peers
  <2>1. CASE SolveFails
    BY <2>1 DEF SolveFails
  <2>2. CASE \E placed \in SUBSET DOMAIN peers, judged \in BOOLEAN :
               SolveSucceeds(placed, judged)
    <3>1. PICK placed \in SUBSET DOMAIN peers, judged \in BOOLEAN :
            SolveSucceeds(placed, judged)
      BY <2>2
    <3> DEFINE g == GaugeIndices
    <3>2. gauge \in Gauge /\ 1 \in DOMAIN gauge
      <4>1. gauge \in Gauge
        BY DEF IInv, TypeOK, DataOK, PhaseFacts
      <4> QED
        BY <4>1, GwAssumption
    <3>3. g[1] \in placed
      <4>1. GaugeNodes(g) \subseteq placed
        BY <3>1 DEF SolveSucceeds, Placements
      <4>2. 1 \in DOMAIN g
        BY <3>2 DEF GaugeIndices
      <4> QED
        BY <4>1, <4>2 DEF GaugeNodes
    <3>4. judged => placed = DOMAIN peers
      BY <1>a, <3>1 DEF SolveSucceeds, MayAccept
    <3>5. /\ res' = [n |-> Len(peers), placed |-> placed, origin |-> g[1]]
          /\ have_result' = TRUE /\ accepted' = judged
      BY <3>1 DEF SolveSucceeds
    <3> HIDE DEF g
    <3>6. res' \in Result
      BY <1>a, <3>3, <3>5 DEF Result
    <3> QED
      BY <3>3, <3>4, <3>5, <3>6
  <2> QED
    BY <2>1, <2>2
<1>1. FlagsOK'
  BY <1>b DEF IInv, TypeOK, FlagsOK
<1>2. CursorsOK'
  BY DEF IInv, TypeOK, CursorsOK
<1>3. DataOK'
  BY <1>b DEF IInv, TypeOK, DataOK
<1>4. PhaseFacts'
  BY DEF IInv, PhaseFacts
<1>5. PeersDistinct'
  BY PeersDistinctKept DEF IInv
<1>6. AwaitIsAtCursor'
  BY DEF AwaitIsAtCursor
<1>7. MeasBehindCursor'
  BY MeasBehindCursorKept DEF IInv
<1>8. ResultMatchesTable'
  BY <1>a, <1>b DEF ResultMatchesTable
<1>9. ApplyAccounting'
  BY DEF ApplyAccounting
<1>10. StoreUsable'
  BY StoreUsableKept DEF IInv
<1> QED
  BY <1>1, <1>2, <1>3, <1>4, <1>5, <1>6, <1>7, <1>8, <1>9, <1>10 DEF IInv, TypeOK

\* A timeout repeats the SETPOS or counts its node as failed.
LEMMA ApplyTimeoutIInv ==
  ASSUME IInv, ApplyTimeout
  PROVE  IInv'
<1> USE DEF ApplyTimeout, cmdVars, tableVars, resultVars, rangeVars
<1>a. /\ apply_idx \in Nat /\ res.n \in 0..MaxNodes /\ apply_idx < res.n
      /\ apply_idx + 1 \in res.placed /\ MaxNodes \in Nat
  BY TableAssumption DEF IInv, TypeOK, CursorsOK, DataOK, Result, AwaitIsAtCursor
<1>1. FlagsOK'
  BY DEF IInv, TypeOK, FlagsOK
<1>2. CursorsOK'
  BY <1>a, GwAssumption DEF IInv, TypeOK, CursorsOK
<1>3. DataOK'
  BY DEF IInv, TypeOK, DataOK, Outcome
<1>4. PhaseFacts'
  BY DEF IInv, PhaseFacts, TypeOK, CursorsOK
<1>5. PeersDistinct'
  BY PeersDistinctKept DEF IInv
<1>6. AwaitIsAtCursor'
  BY DEF AwaitIsAtCursor
<1>7. MeasBehindCursor'
  BY MeasBehindCursorKept DEF IInv
<1>8. ResultMatchesTable'
  BY ResultMatchesTableKept DEF IInv
<1>9. ApplyAccounting'
  <2>1. /\ applied \in Seq(Outcome) /\ ~ending
        /\ Len(applied) = apply_idx
        /\ \A k \in DOMAIN applied : applied[k] = "skip" <=> k \notin res.placed
    BY <1>a DEF IInv, TypeOK, DataOK, ApplyAccounting
  <2>2. CASE UNCHANGED <<applied, apply_idx>>
    BY <2>2 DEF IInv, ApplyAccounting
  <2>3. CASE applied' = Append(applied, "fail") /\ apply_idx' = apply_idx + 1
    BY <1>a, <2>1, <2>3 DEF IInv, ApplyAccounting
  <2> QED
    BY <2>2, <2>3
<1>10. StoreUsable'
  BY StoreUsableKept DEF IInv
<1> QED
  BY <1>1, <1>2, <1>3, <1>4, <1>5, <1>6, <1>7, <1>8, <1>9, <1>10 DEF IInv, TypeOK

\* Opening the windows touches no counter.
LEMMA ApplyReopenIInv ==
  ASSUME IInv, ApplyReopen
  PROVE  IInv'
<1> USE DEF ApplyReopen, cmdVars, tableVars, resultVars, rangeVars
<1>1. FlagsOK'
  BY DEF IInv, TypeOK, FlagsOK
<1>2. CursorsOK'
  BY DEF IInv, TypeOK, CursorsOK
<1>3. DataOK'
  BY DEF IInv, TypeOK, DataOK
<1>4. PhaseFacts'
  BY DEF IInv, PhaseFacts, TypeOK, CursorsOK
<1>5. PeersDistinct'
  BY PeersDistinctKept DEF IInv
<1>6. AwaitIsAtCursor'
  BY DEF AwaitIsAtCursor
<1>7. MeasBehindCursor'
  BY MeasBehindCursorKept DEF IInv
<1>8. ResultMatchesTable'
  BY ResultMatchesTableKept DEF IInv
<1>9. ApplyAccounting'
  BY ApplyAccountingKept DEF IInv
<1>10. StoreUsable'
  BY StoreUsableKept DEF IInv
<1> QED
  BY <1>1, <1>2, <1>3, <1>4, <1>5, <1>6, <1>7, <1>8, <1>9, <1>10 DEF IInv, TypeOK

\* The end of an apply leaves its result in place.
LEMMA ApplyEndIInv ==
  ASSUME IInv, ApplyEnd
  PROVE  IInv'
<1> USE DEF ApplyEnd, Applying, cmdVars, tableVars, resultVars, rangeVars, awaitVars
<1>1. FlagsOK'
  BY DEF IInv, TypeOK, FlagsOK
<1>2. CursorsOK'
  BY DEF IInv, TypeOK, CursorsOK
<1>3. DataOK'
  BY DEF IInv, TypeOK, DataOK
<1>4. PhaseFacts'
  BY DEF IInv, PhaseFacts
<1>5. PeersDistinct'
  BY PeersDistinctKept DEF IInv
<1>6. AwaitIsAtCursor'
  BY DEF AwaitIsAtCursor
<1>7. MeasBehindCursor'
  BY MeasBehindCursorKept DEF IInv
<1>8. ResultMatchesTable'
  BY ResultMatchesTableKept DEF IInv
<1>9. ApplyAccounting'
  BY DEF ApplyAccounting
<1>10. StoreUsable'
  BY StoreUsableKept DEF IInv
<1> QED
  BY <1>1, <1>2, <1>3, <1>4, <1>5, <1>6, <1>7, <1>8, <1>9, <1>10 DEF IInv, TypeOK

\* The skip loop appends one "skip" for each of the unplaced nodes it passes.
LEMMA SkippedAccounts ==
  ASSUME IInv, phase = "APPLY", NEW k, SkipsTo(k)
  PROVE  LET a == applied \o Skipped(k)
         IN  /\ a \in Seq(Outcome) /\ Len(a) = k
             /\ \A j \in DOMAIN a : a[j] = "skip" <=> j \notin res.placed
             /\ k \in Nat /\ k <= res.n /\ res.n \in Nat /\ res.n <= MaxNodes
<1>1. /\ applied \in Seq(Outcome) /\ Len(applied) = apply_idx
      /\ \A j \in DOMAIN applied : applied[j] = "skip" <=> j \notin res.placed
      /\ apply_idx \in Nat /\ res.n \in 0..MaxNodes /\ MaxNodes \in Nat
  BY TableAssumption
     DEF IInv, TypeOK, CursorsOK, DataOK, Result, ApplyAccounting
<1>2. /\ k \in apply_idx..res.n
      /\ \A j \in (apply_idx + 1)..k : j \notin res.placed
  BY DEF SkipsTo
<1>3. /\ Skipped(k) \in Seq(Outcome) /\ Len(Skipped(k)) = k - apply_idx
      /\ \A j \in 1..(k - apply_idx) : Skipped(k)[j] = "skip"
  BY <1>1, <1>2 DEF Skipped, Outcome
<1> DEFINE a == applied \o Skipped(k)
<1>4. a \in Seq(Outcome) /\ Len(a) = k
  BY <1>1, <1>2, <1>3
<1>5. ASSUME NEW j \in DOMAIN a
      PROVE  a[j] = "skip" <=> j \notin res.placed
  <2>1. j \in 1..k
    BY <1>4
  <2>2. CASE j <= apply_idx
    BY <1>1, <1>2, <1>3, <2>1, <2>2
  <2>3. CASE j > apply_idx
    <3>1. a[j] = Skipped(k)[j - apply_idx]
      BY <1>1, <1>2, <1>3, <2>1, <2>3
    <3> QED
      BY <1>1, <1>2, <1>3, <2>1, <2>3, <3>1
  <2> QED
    BY <1>1, <2>1, <2>2, <2>3
<1> QED
  BY <1>1, <1>2, <1>4, <1>5

\* A step that only skips ends at the last node.
LEMMA ApplySkipOnlyIInv ==
  ASSUME IInv, ApplySkipOnly
  PROVE  IInv'
<1> USE DEF ApplySkipOnly, Applying, cmdVars, tableVars, resultVars, rangeVars, awaitVars
<1>a. LET a == applied \o Skipped(res.n)
      IN  /\ a \in Seq(Outcome) /\ Len(a) = res.n
          /\ \A j \in DOMAIN a : a[j] = "skip" <=> j \notin res.placed
          /\ res.n \in Nat /\ res.n <= MaxNodes
  BY SkippedAccounts
<1>b. MaxNodes \in Nat
  BY TableAssumption
<1>1. FlagsOK'
  BY DEF IInv, TypeOK, FlagsOK
<1>2. CursorsOK'
  BY <1>a, <1>b DEF IInv, TypeOK, CursorsOK
<1>3. DataOK'
  BY <1>a DEF IInv, TypeOK, DataOK
<1>4. PhaseFacts'
  BY DEF IInv, PhaseFacts, TypeOK, CursorsOK
<1>5. PeersDistinct'
  BY PeersDistinctKept DEF IInv
<1>6. AwaitIsAtCursor'
  BY DEF AwaitIsAtCursor
<1>7. MeasBehindCursor'
  BY MeasBehindCursorKept DEF IInv
<1>8. ResultMatchesTable'
  BY ResultMatchesTableKept DEF IInv
<1>9. ApplyAccounting'
  BY <1>a DEF IInv, ApplyAccounting
<1>10. StoreUsable'
  BY StoreUsableKept DEF IInv
<1> QED
  BY <1>1, <1>2, <1>3, <1>4, <1>5, <1>6, <1>7, <1>8, <1>9, <1>10 DEF IInv, TypeOK

\* The record persist_survey() builds is a survey.
LEMMA SurveyIsRecord ==
  ASSUME NEW f \in Peer, NEW z \in Peer, NEW n \in SUBSET Peer, NEW s \in Session
  PROVE  [valid |-> TRUE, first |-> f, nodes |-> n, zero |-> z, solved |-> s]
           \in Survey
BY DEF Survey

\* The survey is written only when the origin of the gauge of now is among its
\* nodes, so the anchor it lists first is one of them.
LEMMA ApplyPersistIInv ==
  ASSUME IInv, NEW saved \in BOOLEAN, ApplyPersist(saved)
  PROVE  IInv'
<1> USE DEF ApplyPersist, Applying, cmdVars, tableVars, resultVars, rangeVars, awaitVars
<1>a. LET a == applied \o Skipped(res.n)
      IN  /\ a \in Seq(Outcome) /\ Len(a) = res.n
          /\ \A j \in DOMAIN a : a[j] = "skip" <=> j \notin res.placed
          /\ res.n \in Nat /\ res.n <= MaxNodes
  BY SkippedAccounts
<1>b. MaxNodes \in Nat
  BY TableAssumption
<1>c. \/ store' = store
      \/ /\ store' \in Survey
         /\ store'.first \in store'.nodes /\ store'.zero \in store'.nodes
         /\ \A p, q \in store'.nodes :
              p # q => p.addr # q.addr /\ p.eui # q.eui
  <2>1. SUFFICES ASSUME saved
                 PROVE  /\ store' \in Survey
                        /\ store'.first \in store'.nodes
                        /\ store'.zero \in store'.nodes
                        /\ \A p, q \in store'.nodes :
                             p # q => p.addr # q.addr /\ p.eui # q.eui
    OBVIOUS
  <2>2. CurrentOrigin \in res.placed
    BY <2>1 DEF MayPersist
  <2>3. /\ res.placed \subseteq DOMAIN peers /\ res.origin \in res.placed
        /\ peers \in Seq(Peer)
    BY DEF IInv, TypeOK, DataOK, ApplyAccounting, ResultMatchesTable
  <2>4. session \in Session
    BY DEF IInv, TypeOK, DataOK, PhaseFacts
  <2> DEFINE nodes == {peers[k] : k \in res.placed}
  <2>5. store' = [valid |-> TRUE, first |-> peers[CurrentOrigin], nodes |-> nodes,
                  zero |-> peers[res.origin], solved |-> session]
    BY <2>1
  <2>6. \A k \in res.placed : peers[k] \in Peer
    BY <2>3
  <2>7. nodes \subseteq Peer /\ peers[CurrentOrigin] \in nodes
        /\ peers[res.origin] \in nodes
    BY <2>2, <2>3, <2>6
  <2>8. ASSUME NEW p \in nodes, NEW q \in nodes, p # q
        PROVE  p.addr # q.addr /\ p.eui # q.eui
    <3>1. PICK i \in res.placed, j \in res.placed : p = peers[i] /\ q = peers[j]
      OBVIOUS
    <3> QED
      BY <2>3, <2>8, <3>1 DEF IInv, PeersDistinct
  <2> HIDE DEF nodes
  <2>9. store' \in Survey
    <3>1. /\ peers[CurrentOrigin] \in Peer /\ peers[res.origin] \in Peer
          /\ nodes \in SUBSET Peer
      BY <2>7
    <3> QED
      BY <2>4, <2>5, <3>1, SurveyIsRecord
  <2>10. /\ store'.first = peers[CurrentOrigin] /\ store'.zero = peers[res.origin]
         /\ store'.nodes = nodes
    BY <2>5
  <2> QED
    BY <2>7, <2>8, <2>9, <2>10
<1>1. FlagsOK'
  BY DEF IInv, TypeOK, FlagsOK
<1>2. CursorsOK'
  BY <1>a, <1>b DEF IInv, TypeOK, CursorsOK
<1>3. DataOK'
  BY <1>a, <1>c DEF IInv, TypeOK, DataOK
<1>4. PhaseFacts'
  BY DEF IInv, PhaseFacts, TypeOK, CursorsOK
<1>5. PeersDistinct'
  BY PeersDistinctKept DEF IInv
<1>6. AwaitIsAtCursor'
  BY DEF AwaitIsAtCursor
<1>7. MeasBehindCursor'
  BY MeasBehindCursorKept DEF IInv
<1>8. ResultMatchesTable'
  BY ResultMatchesTableKept DEF IInv
<1>9. ApplyAccounting'
  BY <1>a DEF IInv, ApplyAccounting
<1>10. StoreUsable'
  BY <1>c DEF IInv, StoreUsable
<1> QED
  BY <1>1, <1>2, <1>3, <1>4, <1>5, <1>6, <1>7, <1>8, <1>9, <1>10 DEF IInv, TypeOK

\* The node a SETPOS goes to is the first placed one at or after the cursor.
LEMMA ApplyCmdIInv ==
  ASSUME IInv, NEW k \in 0..MaxNodes, NEW tx \in BOOLEAN, ApplyCmd(k, tx)
  PROVE  IInv'
<1> USE DEF ApplyCmd, Applying, TxGivesUp, cmdVars, tableVars, resultVars, rangeVars
<1> DEFINE a == applied \o Skipped(k)
<1>a. /\ a \in Seq(Outcome) /\ Len(a) = k
      /\ \A j \in DOMAIN a : a[j] = "skip" <=> j \notin res.placed
      /\ k \in Nat /\ k < res.n /\ res.n \in Nat /\ res.n <= MaxNodes
  BY SkippedAccounts
<1>b. MaxNodes \in Nat
  BY TableAssumption
<1>c. k + 1 \in res.placed /\ k + 1 \in DOMAIN peers
  BY DEF SkipsTo, IInv, ApplyAccounting, ResultMatchesTable
<1> HIDE DEF a
<1>d. /\ applied' \in Seq(Outcome) /\ Len(applied') = apply_idx'
      /\ \A j \in DOMAIN applied' : applied'[j] = "skip" <=> j \notin res.placed
      /\ apply_idx' \in {k, k + 1}
  <2>1. CASE applied' = a /\ apply_idx' = k
    BY <1>a, <2>1
  <2>2. CASE applied' = a \o <<"fail">> /\ apply_idx' = k + 1
    <3>1. Append(a, "fail") = a \o <<"fail">>
      BY <1>a
    <3>2. applied' = Append(a, "fail")
      BY <2>2, <3>1
    <3> QED
      BY <1>a, <1>c, <2>2, <3>2 DEF Outcome
  <2> QED
    BY <2>1, <2>2 DEF a
<1>1. FlagsOK'
  BY DEF IInv, TypeOK, FlagsOK
<1>2. CursorsOK'
  BY <1>a, <1>b, GwAssumption DEF IInv, TypeOK, CursorsOK
<1>3. DataOK'
  <2>1. peers[k + 1] \in Peer
    BY <1>c DEF IInv, TypeOK, DataOK
  <2> QED
    BY <1>d, <2>1 DEF IInv, TypeOK, DataOK, Peer
<1>4. PhaseFacts'
  BY DEF IInv, PhaseFacts, TypeOK, CursorsOK
<1>5. PeersDistinct'
  BY PeersDistinctKept DEF IInv
<1>6. AwaitIsAtCursor'
  <2>1. CASE awaiting'
    <3>1. apply_idx' = k
      BY <2>1 DEF IInv, AwaitIsAtCursor
    <3> QED
      BY <1>c, <2>1, <3>1 DEF AwaitIsAtCursor
  <2> QED
    BY <2>1 DEF AwaitIsAtCursor
<1>7. MeasBehindCursor'
  BY MeasBehindCursorKept DEF IInv
<1>8. ResultMatchesTable'
  BY ResultMatchesTableKept DEF IInv
<1>9. ApplyAccounting'
  BY <1>a, <1>d DEF IInv, ApplyAccounting
<1>10. StoreUsable'
  BY StoreUsableKept DEF IInv
<1> QED
  BY <1>1, <1>2, <1>3, <1>4, <1>5, <1>6, <1>7, <1>8, <1>9, <1>10 DEF IInv, TypeOK

-----------------------------------------------------------------------------
(* Every step, and the theorems *)

\* An operator's command, a frame, a step of the machine, the clock, a power
\* cut, or nothing.
LEMMA NextIInv ==
  ASSUME IInv, [Next]_vars
  PROVE  IInv'
<1>1. CASE Command
  <2>1. ASSUME NEW g \in Gauge, SetGauge(g) PROVE IInv'
    BY <2>1, SetGaugeIInv
  <2>2. ASSUME NEW s \in Session, StartEnum(s) PROVE IInv'
    <3>1. is_run' = FALSE /\ res' \in Result /\ BeginEnum(s)
      BY <2>2 DEF StartEnum, IInv, TypeOK, DataOK
    <3> QED
      BY <3>1, BeginEnumIInv
  <2>3. ASSUME NEW s \in Session, StartRun(s) PROVE IInv'
    <3>1. NoResult \in Result
      BY TableAssumption DEF NoResult, Result, NoIndex
    <3>2. is_run' = TRUE /\ gauge # NoGauge /\ res' \in Result /\ BeginEnum(s)
      BY <2>3, <3>1 DEF StartRun
    <3> QED
      BY <3>2, BeginEnumIInv
  <2>4. ASSUME NEW force \in BOOLEAN, StartApply(force) PROVE IInv'
    BY <2>4, StartApplyIInv
  <2> QED
    BY <1>1, <2>1, <2>2, <2>3, <2>4 DEF Command
<1>2. CASE Receive
  <2>1. ASSUME NEW s \in Session, NEW b \in Board, OnEnumRsp(s, b) PROVE IInv'
    BY <2>1, OnEnumRspIInv
  <2>2. ASSUME NEW s \in Session, NEW src \in Addr, NEW peer \in Addr,
               NEW usable \in BOOLEAN, OnRangeRsp(s, src, peer, usable)
        PROVE  IInv'
    BY <2>2, OnRangeRspIInv
  <2>3. ASSUME NEW s \in Session, NEW src \in Addr, NEW ok \in BOOLEAN,
               OnSetposAck(s, src, ok)
        PROVE  IInv'
    BY <2>3, OnSetposAckIInv
  <2> QED
    BY <1>2, <2>1, <2>2, <2>3 DEF Receive
<1>3. CASE Step
  <2>1. ASSUME NEW tx \in BOOLEAN, RangeCmd(tx) PROVE IInv'
    BY <2>1, RangeCmdIInv
  <2>2. ASSUME NEW saved \in BOOLEAN, ApplyPersist(saved) PROVE IInv'
    BY <2>2, ApplyPersistIInv
  <2>3. ASSUME NEW k \in 0..MaxNodes, NEW tx \in BOOLEAN, ApplyCmd(k, tx)
        PROVE  IInv'
    BY <2>3, ApplyCmdIInv
  <2> QED
    BY <1>3, <2>1, <2>2, <2>3, EnumSendIInv, EnumDoneIInv, RangeTimeoutIInv,
       RangeSolveIInv, ApplyTimeoutIInv, ApplyReopenIInv, ApplySkipOnlyIInv,
       ApplyEndIInv
       DEF Step
<1>4. CASE UNCHANGED vars
  <2> USE <1>4 DEF vars, cmdVars, tableVars, resultVars, rangeVars, applyVars, awaitVars
  <2>1. TypeOK'
    BY DEF IInv, TypeOK, FlagsOK, CursorsOK, DataOK
  <2>2. PhaseFacts' /\ AwaitIsAtCursor'
    BY DEF IInv, PhaseFacts, AwaitIsAtCursor, CursorFrom, CursorTo
  <2> QED
    BY <2>1, <2>2, PeersDistinctKept, MeasBehindCursorKept,
       ResultMatchesTableKept, ApplyAccountingKept, StoreUsableKept
       DEF IInv
<1> QED
  BY <1>1, <1>2, <1>3, <1>4, TimerFiresIInv, RebootIInv DEF Next

\* The parts hold together at every point of every behaviour.
THEOREM Inductive == Spec => []IInv
<1>1. Init => IInv
  BY InitIInv
<1>2. IInv /\ [Next]_vars => IInv'
  BY NextIInv
<1> QED
  BY <1>1, <1>2, PTL DEF Spec

\* Every counter of the step machine stays within its bound and everything it
\* keeps is complete, for any number of boards, retries and rounds.
THEOREM TypeCorrect == Spec => []TypeOK
<1>1. IInv => TypeOK
  BY DEF IInv
<1> QED
  BY <1>1, Inductive, PTL

\* Whatever answers arrive, the table never has one board, or one address,
\* twice (apos_table_add_peer).
THEOREM AlwaysPeersDistinct == Spec => []PeersDistinct
<1>1. IInv => PeersDistinct
  BY DEF IInv
<1> QED
  BY <1>1, Inductive, PTL

\* What is outstanding is the pair, or the anchor, at the cursor, and no
\* measurement is of another run or of a pair not yet walked (on_range_rsp,
\* retire_pair, start_run).
THEOREM AlwaysCursorIsTrue == Spec => []CursorIsTrue
<1>1. IInv => CursorIsTrue
  BY DEF IInv, CursorIsTrue
<1> QED
  BY <1>1, Inductive, PTL

\* The walk commands every ordered pair of boards, whatever the table's size
\* (pair_of, start_run).
THEOREM AlwaysWalkCoversPairs == Spec => []WalkCoversPairs
<1>1. ASSUME IInv PROVE WalkCoversPairs
  <2>1. SUFFICES ASSUME phase = "RANGE" PROVE WalkCoversPairs
    BY DEF WalkCoversPairs
  <2>2. /\ peers \in Seq(Peer) /\ Len(peers) \in Nat /\ Len(peers) >= 2
        /\ DOMAIN peers = 1..Len(peers)
        /\ pair_total = Len(peers) * (Len(peers) - 1)
    BY <1>1, <2>1 DEF IInv, PhaseFacts, TypeOK, DataOK
  <2> QED
    BY <2>2, PairsCovered DEF WalkCoversPairs
<1> QED
  BY <1>1, Inductive, PTL

\* A result that may be applied is a result about the present table
\* (do_solve, start_enum, start_run).
THEOREM AlwaysResultMatchesTable == Spec => []ResultMatchesTable
<1>1. IInv => ResultMatchesTable
  BY DEF IInv
<1> QED
  BY <1>1, Inductive, PTL

\* The report of an apply counts every node exactly once (step_apply).
THEOREM AlwaysApplyAccounting == Spec => []ApplyAccounting
<1>1. IInv => ApplyAccounting
  BY DEF IInv
<1> QED
  BY <1>1, Inductive, PTL

\* A survey on flash can be published, whichever gauge it was written under
\* and whatever power cuts came since (persist_survey).
THEOREM AlwaysStoreUsable == Spec => []StoreUsable
<1>1. IInv => StoreUsable
  BY DEF IInv
<1> QED
  BY <1>1, Inductive, PTL

\* Only an answer, a retry or the end of the retries settles a ranging command
\* (on_range_rsp, step_range).
THEOREM RangeIsSettled == Spec => OutstandingRangeIsSettled
<1> DEFINE Settled ==
      phase = "RANGE" /\ awaiting /\ phase' = "RANGE" /\ ~awaiting' =>
        \/ pair_idx' = pair_idx + 1
        \/ pair_idx' = pair_idx /\ pair_retries' = pair_retries + 1
<1>1. ASSUME [Next]_vars PROVE [Settled]_vars
  <2>1. CASE Command
    BY <2>1 DEF Command, SetGauge, StartEnum, StartRun, BeginEnum, StartApply, Busy
  <2>2. CASE Receive
    BY <2>2 DEF Receive, OnEnumRsp, OnRangeRsp, OnSetposAck, AckAccepts, awaitVars
  <2>3. CASE Step
    <3>1. CASE RangeTimeout
      BY <3>1 DEF RangeTimeout, RetirePair
    <3>2. CASE RangeSolve \/ \E tx \in BOOLEAN : RangeCmd(tx)
      BY <3>2 DEF RangeSolve, RangeCmd
    <3> QED
      BY <2>3, <3>1, <3>2
         DEF Step, EnumSend, EnumDone, ApplyTimeout, ApplyReopen, Applying,
             ApplySkipOnly, ApplyEnd, ApplyPersist, ApplyCmd
  <2>4. CASE TimerFires \/ Reboot
    BY <2>4 DEF TimerFires, Reboot
  <2> QED
    BY <1>1, <2>1, <2>2, <2>3, <2>4 DEF Next, vars
<1> QED
  BY <1>1, PTL DEF Spec, OutstandingRangeIsSettled

-----------------------------------------------------------------------------
(* The survey end to end *)

\* What an owed reply says is so, whenever it arrives.
AckIsTrue ==
  \A a \in Addr : out[a].kind = "ack" /\ out[a].ok => nvs[a] = out[a].session

RangeIsTrue ==
  \A a \in Addr :
    out[a].kind = "range" /\ out[a].usable =>
      <<out[a].session, a, out[a].peer>> \in measured

\* A survey that was persisted by this apply is the one that is applied.
PersistIsTrue ==
  phase = "APPLY" /\ ending /\ persisted =>
    /\ store.valid /\ store.solved = session
    /\ store.nodes = {peers[k] : k \in res.placed}

SInv ==
  /\ IInv /\ Node!TypeOK
  /\ AckIsTrue /\ RangeIsTrue
  /\ OkIsOnFlash /\ RangeIsReal /\ PersistIsTrue

-----------------------------------------------------------------------------
(* The gateway's steps *)

\* Nobody is newly counted as done, and who was is still commanded as before.
NoNewOk ==
  phase' = "APPLY" =>
    \A k \in DOMAIN applied' :
      applied'[k] = "ok" =>
        /\ phase = "APPLY" /\ k \in DOMAIN applied /\ applied[k] = "ok"
        /\ session' = session /\ peers' = peers

NoNewMeas ==
  \A p \in meas' : p \in meas /\ session' = session /\ peers' = peers

NoNewSurvey ==
  phase' = "APPLY" /\ ending' /\ persisted' =>
    /\ phase = "APPLY" /\ ending /\ persisted
    /\ UNCHANGED <<session, peers, res, store>>

\* What the skip loop counts is only skipped.
LEMMA SkippedIsSkip ==
  ASSUME NEW a \in Seq(Outcome), NEW n \in Nat, Len(a) = n,
         NEW k \in Nat, k >= n, NEW o \in Outcome, o # "skip",
         NEW j \in DOMAIN (a \o [i \in 1..(k - n) |-> "skip"]),
         (a \o [i \in 1..(k - n) |-> "skip"])[j] = o
  PROVE  j \in DOMAIN a /\ a[j] = o
<1> DEFINE s == [i \in 1..(k - n) |-> "skip"]
<1>1. s \in Seq({"skip"}) /\ Len(s) = k - n
  OBVIOUS
<1>2. \A i \in 1..(k - n) : s[i] = "skip"
  OBVIOUS
<1> HIDE DEF s
<1>3. j \in 1..k /\ Len(a \o s) = k
  BY <1>1 DEF s
<1>4. j > n => (a \o s)[j] = s[j - n]
  BY <1>1, <1>3
<1>5. j <= n => (a \o s)[j] = a[j]
  BY <1>1, <1>3
<1>6. CASE j > n
  BY <1>2, <1>3, <1>4, <1>6 DEF s
<1>7. CASE j <= n
  BY <1>3, <1>5, <1>7 DEF s
<1> QED
  BY <1>3, <1>6, <1>7

\* Settling skipped peers counts nobody as done who was not.
LEMMA SkipKeepsOk ==
  ASSUME IInv, phase = "APPLY", NEW k \in Nat, k >= apply_idx,
         NEW j \in DOMAIN (applied \o Skipped(k)), (applied \o Skipped(k))[j] = "ok"
  PROVE  j \in DOMAIN applied /\ applied[j] = "ok"
<1>1. applied \in Seq(Outcome) /\ Len(applied) = apply_idx /\ apply_idx \in Nat
  BY DEF IInv, TypeOK, DataOK, CursorsOK, ApplyAccounting
<1> QED
  BY <1>1, SkippedIsSkip DEF Skipped, Outcome

\* What the gateway does without a frame.
Unasked == Command \/ Step \/ TimerFires \/ Reboot \/ UNCHANGED vars

HearsEnum == \E s \in Session, b \in Board : OnEnumRsp(s, b)
HearsRange(usable) ==
  \E s \in Session, src, peer \in Addr : OnRangeRsp(s, src, peer, usable)
HearsAck(ok) == \E s \in Session, src \in Addr : OnSetposAck(s, src, ok)

\* Only an acknowledgement counts an anchor as done.
LEMMA OthersNoNewOk ==
  ASSUME IInv,
         Unasked \/ HearsEnum \/ (\E usable \in BOOLEAN : HearsRange(usable)) \/ HearsAck(FALSE)
  PROVE  NoNewOk
<1> USE DEF NoNewOk
<1>0. applied \in Seq(Outcome)
  BY DEF IInv, TypeOK, DataOK
<1>1. CASE Command
  <2>1. ASSUME NEW g \in Gauge, SetGauge(g) PROVE NoNewOk
    BY <2>1 DEF SetGauge, Busy
  <2>2. ASSUME NEW s \in Session, StartEnum(s) \/ StartRun(s) PROVE NoNewOk
    BY <2>2 DEF StartEnum, StartRun, BeginEnum
  <2>3. ASSUME NEW force \in BOOLEAN, StartApply(force) PROVE NoNewOk
    BY <2>3 DEF StartApply
  <2> QED
    BY <1>1, <2>1, <2>2, <2>3 DEF Command
<1>2. CASE HearsEnum \/ \E usable \in BOOLEAN : HearsRange(usable)
  BY <1>2 DEF HearsEnum, HearsRange, OnEnumRsp, EnumAccepts, OnRangeRsp, RangeAccepts
<1>6. CASE HearsAck(FALSE)
  <2>1. /\ phase = "APPLY" /\ session' = session /\ peers' = peers
        /\ applied' = Append(applied, "fail")
    BY <1>6 DEF HearsAck, OnSetposAck, AckAccepts, cmdVars, tableVars
  <2> QED
    BY <1>0, <2>1
<1>3. CASE Step
  <2>1. CASE EnumSend \/ EnumDone
    BY <2>1 DEF EnumSend, EnumDone
  <2>2. CASE RangeTimeout \/ RangeSolve \/ \E tx \in BOOLEAN : RangeCmd(tx)
    BY <2>2 DEF RangeTimeout, RangeSolve, RangeCmd
  <2>3. CASE ApplyTimeout
    <3>1. /\ phase = "APPLY" /\ session' = session /\ peers' = peers
          /\ applied' \in {applied, Append(applied, "fail")}
      BY <2>3 DEF ApplyTimeout, cmdVars, tableVars
    <3> QED
      BY <1>0, <3>1
  <2>4. CASE ApplyReopen \/ ApplyEnd
    BY <2>4 DEF ApplyReopen, ApplyEnd, cmdVars, tableVars
  <2>5. ASSUME ApplySkipOnly \/ \E saved \in BOOLEAN : ApplyPersist(saved)
        PROVE  NoNewOk
    <3>1. /\ phase = "APPLY" /\ session' = session /\ peers' = peers
          /\ applied' = applied \o Skipped(res.n)
          /\ res.n \in Nat /\ res.n >= apply_idx
      BY <2>5 DEF ApplySkipOnly, ApplyPersist, Applying, SkipsTo, cmdVars, tableVars,
                  IInv, ApplyAccounting, TypeOK, DataOK, Result, CursorsOK
    <3> QED
      BY <3>1, SkipKeepsOk
  <2>6. ASSUME NEW k \in 0..MaxNodes, NEW tx \in BOOLEAN, ApplyCmd(k, tx)
        PROVE  NoNewOk
    <3> DEFINE a == applied \o Skipped(k)
    <3>1. /\ phase = "APPLY" /\ session' = session /\ peers' = peers
          /\ applied' = a \/ applied' = a \o <<"fail">>
      BY <2>6 DEF ApplyCmd, Applying, cmdVars, tableVars
    <3>6. k \in Nat /\ k >= apply_idx
      BY <2>6, TableAssumption
         DEF ApplyCmd, SkipsTo, IInv, TypeOK, CursorsOK, DataOK, Result
    <3>2. a \in Seq(Outcome)
      <4>1. Skipped(k) \in Seq(Outcome)
        BY <3>6 DEF Skipped, Outcome, IInv, TypeOK, CursorsOK
      <4> QED
        BY <1>0, <4>1
    <3>3. \A j \in DOMAIN a : a[j] = "ok" => j \in DOMAIN applied /\ applied[j] = "ok"
      BY <3>1, <3>6, SkipKeepsOk
    <3> HIDE DEF a
    <3>4. Append(a, "fail") = a \o <<"fail">>
      BY <3>2
    <3>5. \A j \in DOMAIN applied' :
            applied'[j] = "ok" => j \in DOMAIN a /\ a[j] = "ok"
      BY <3>1, <3>2, <3>4
    <3> QED
      BY <3>1, <3>3, <3>5
  <2> QED
    BY <1>3, <2>1, <2>2, <2>3, <2>4, <2>5, <2>6 DEF Step
<1>4. CASE TimerFires \/ Reboot
  BY <1>4 DEF TimerFires, Reboot, cmdVars, tableVars, applyVars
<1>5. CASE UNCHANGED vars
  BY <1>5 DEF vars, cmdVars, tableVars, applyVars
<1> QED
  BY <1>1, <1>2, <1>3, <1>4, <1>5, <1>6 DEF Unasked

\* Only a range response adds a measurement.
LEMMA OthersNoNewMeas ==
  ASSUME IInv,
         Unasked \/ HearsEnum \/ HearsRange(FALSE) \/ \E ok \in BOOLEAN : HearsAck(ok)
  PROVE  NoNewMeas
<1> USE DEF NoNewMeas
<1>1. CASE Command
  BY <1>1 DEF Command, SetGauge, StartEnum, StartRun, BeginEnum, ClearTable, StartApply,
              cmdVars, tableVars
<1>2. CASE HearsEnum
  BY <1>2 DEF HearsEnum, OnEnumRsp, EnumAccepts, IInv, PhaseFacts
<1>6. CASE HearsRange(FALSE) \/ \E ok \in BOOLEAN : HearsAck(ok)
  BY <1>6 DEF HearsRange, OnRangeRsp, HearsAck, OnSetposAck, cmdVars, tableVars
<1>3. CASE Step
  <2>1. CASE EnumSend \/ EnumDone
    BY <2>1 DEF EnumSend, EnumDone, cmdVars, tableVars
  <2>2. CASE RangeTimeout \/ RangeSolve \/ \E tx \in BOOLEAN : RangeCmd(tx)
    BY <2>2 DEF RangeTimeout, RangeSolve, RangeCmd, cmdVars, tableVars
  <2>3. CASE ApplyTimeout \/ ApplyReopen \/ ApplyEnd \/ ApplySkipOnly
    BY <2>3 DEF ApplyTimeout, ApplyReopen, ApplyEnd, ApplySkipOnly, cmdVars, tableVars
  <2>4. CASE \/ \E saved \in BOOLEAN : ApplyPersist(saved)
             \/ \E k \in 0..MaxNodes, tx \in BOOLEAN : ApplyCmd(k, tx)
    BY <2>4 DEF ApplyPersist, ApplyCmd, cmdVars, tableVars
  <2> QED
    BY <1>3, <2>1, <2>2, <2>3, <2>4 DEF Step
<1>4. CASE TimerFires \/ Reboot
  BY <1>4 DEF TimerFires, Reboot, cmdVars, tableVars
<1>5. CASE UNCHANGED vars
  BY <1>5 DEF vars, cmdVars, tableVars
<1> QED
  BY <1>1, <1>2, <1>3, <1>4, <1>5, <1>6 DEF Unasked

\* Only persist_survey() makes a survey persisted.
LEMMA OthersNoNewSurvey ==
  ASSUME IInv, [Next]_vars, ~ApplyPersist(TRUE)
  PROVE  NoNewSurvey
<1> USE DEF NoNewSurvey
<1>1. CASE Command
  BY <1>1 DEF Command, SetGauge, Busy, StartEnum, StartRun, BeginEnum, StartApply
<1>2. CASE Receive
  BY <1>2 DEF Receive, OnEnumRsp, EnumAccepts, OnRangeRsp, RangeAccepts, OnSetposAck,
              AckAccepts, cmdVars, tableVars, resultVars
<1>3. CASE Step
  <2>1. CASE EnumSend \/ EnumDone
    BY <2>1 DEF EnumSend, EnumDone
  <2>2. CASE RangeTimeout \/ RangeSolve \/ \E tx \in BOOLEAN : RangeCmd(tx)
    BY <2>2 DEF RangeTimeout, RangeSolve, RangeCmd
  <2>3. CASE ApplyTimeout \/ ApplyReopen \/ ApplyEnd \/ ApplySkipOnly
    BY <2>3 DEF ApplyTimeout, ApplyReopen, ApplyEnd, ApplySkipOnly, Applying,
                cmdVars, tableVars, resultVars
  <2>4. CASE \/ ApplyPersist(FALSE)
             \/ \E k \in 0..MaxNodes, tx \in BOOLEAN : ApplyCmd(k, tx)
    BY <2>4 DEF ApplyPersist, ApplyCmd, Applying, cmdVars, tableVars, resultVars
  <2> QED
    BY <1>3, <2>1, <2>2, <2>3, <2>4 DEF Step
<1>4. CASE TimerFires \/ Reboot
  BY <1>4 DEF TimerFires, Reboot, cmdVars, tableVars, resultVars, applyVars
<1>5. CASE UNCHANGED vars
  BY <1>5 DEF vars, cmdVars, tableVars, resultVars, applyVars
<1> QED
  BY <1>1, <1>2, <1>3, <1>4, <1>5 DEF Next

-----------------------------------------------------------------------------
(* The anchors' steps *)

\* The gateway sends in its session, and only to boards of its table.
Sent ==
  \/ (SendBegin \/ SendEnd) /\ UNCHANGED measured
  \/ \E a, peer \in Addr : SendRangeCmd(a, peer)
  \/ \E a \in Addr : SendSetpos(a)

\* What an anchor does on its own, or with nobody left to hear.
Alone ==
  /\ UNCHANGED measured
  /\ \/ \E a \in Addr :
          \/ \E again \in BOOLEAN : Node!SendReply(a, again)
          \/ Node!Lapse(a) \/ Node!QueryWindow(a) \/ Node!Reboot(a)
     \/ UNCHANGED nodeVars

NodeStep == (session \in Session /\ session' = session /\ Sent) \/ Alone

\* Every row of the table holds the address of an anchor.
LEMMA PeerAddr ==
  ASSUME IInv, NEW k \in DOMAIN peers
  PROVE  peers[k].addr \in Addr
<1>1. peers[k] \in Peer
  BY DEF IInv, TypeOK, DataOK
<1> QED
  BY <1>1 DEF Peer

\* In a step of the composition either the anchors rest or one of them takes a
\* step of AposNode.
LEMMA SurveyStepOfNodes ==
  ASSUME IInv, [SurveyNext]_surveyVars
  PROVE  NodeStep
<1> USE DEF NodeStep
<1>0. phase # "IDLE" => session \in Session
  BY DEF IInv, PhaseFacts, TypeOK, DataOK
<1>1. CASE GatewayCommand \/ GatewayReboot \/ GatewayTimer \/ GatewayQuiet
  BY <1>1 DEF GatewayCommand, GatewayReboot, GatewayTimer, GatewayQuiet, Alone
<1>2. CASE GatewayBegin
  BY <1>0, <1>2 DEF GatewayBegin, EnumSend, ApplyReopen, cmdVars, Sent
<1>3. CASE GatewayEnd
  BY <1>0, <1>3 DEF GatewayEnd, ApplyEnd, Applying, cmdVars, Sent
<1>4. CASE GatewayRange
  <2>1. PICK tx \in BOOLEAN : RangeCmd(tx)
    BY <1>4 DEF GatewayRange
  <2>2. phase = "RANGE" /\ session' = session /\ pair_idx < pair_total
    BY <2>1 DEF RangeCmd, cmdVars
  <2>3. CursorFrom \in DOMAIN peers /\ CursorTo \in DOMAIN peers
    <3>1. peers \in Seq(Peer) /\ pair_idx \in Nat
      BY DEF IInv, TypeOK, DataOK, CursorsOK
    <3>2. Len(peers) >= 2 /\ pair_total = Len(peers) * (Len(peers) - 1)
      BY <2>2 DEF IInv, PhaseFacts
    <3>3. CursorFrom \in 1..Len(peers) /\ CursorTo \in 1..Len(peers)
      BY <2>2, <3>1, <3>2, PairInRange DEF CursorFrom, CursorTo
    <3> QED
      BY <3>1, <3>3
  <2>4. await_from' \in Addr /\ await_peer' \in Addr
    BY <2>1, <2>3, PeerAddr DEF RangeCmd
  <2> QED
    BY <1>0, <1>4, <2>2, <2>4 DEF GatewayRange, Sent
<1>5. CASE GatewaySetpos
  <2>1. PICK k \in 0..MaxNodes, tx \in BOOLEAN : ApplyCmd(k, tx)
    BY <1>5 DEF GatewaySetpos
  <2>2. phase = "APPLY" /\ session' = session /\ k + 1 \in res.placed
    BY <2>1 DEF ApplyCmd, Applying, SkipsTo, cmdVars
  <2>3. k + 1 \in DOMAIN peers
    BY <2>2 DEF IInv, ApplyAccounting, ResultMatchesTable
  <2>4. await_from' \in Addr
    BY <2>1, <2>3, PeerAddr DEF ApplyCmd
  <2> QED
    BY <1>0, <1>5, <2>2, <2>4 DEF GatewaySetpos, Sent
<1>6. CASE \E a \in Addr : NodeReply(a) \/ NodeClock(a) \/ NodeReboot(a)
  BY <1>6 DEF NodeReply, NodeClock, NodeReboot, Alone
<1>7. CASE UNCHANGED surveyVars
  BY <1>7 DEF surveyVars, Alone
<1> QED
  BY <1>1, <1>2, <1>3, <1>4, <1>5, <1>6, <1>7 DEF SurveyNext

\* A reply that is owed is one of the three, in some session.
LEMMA ReplyShape ==
  ASSUME Node!TypeOK, NEW a \in Addr, out[a] # Node!NoReply
  PROVE  /\ out[a].kind \in {"enum", "range", "ack"}
         /\ out[a].session \in Session
         /\ out[a].kind = "range" => out[a].peer \in Addr /\ out[a].usable \in BOOLEAN
         /\ out[a].kind = "ack" => out[a].ok \in BOOLEAN
<1>1. out[a] \in Node!Reply
  BY DEF Node!TypeOK
<1>2. CASE \E s \in Session : out[a] = Node!EnumRsp(s)
  BY <1>2 DEF Node!EnumRsp
<1>3. CASE \E s \in Session, p \in Addr, u \in BOOLEAN : out[a] = Node!RangeRsp(s, p, u)
  BY <1>3 DEF Node!RangeRsp
<1>4. CASE \E s \in Session, ok \in BOOLEAN : out[a] = Node!SetposAck(s, ok)
  BY <1>4 DEF Node!SetposAck
<1>5. CASE \E s \in Session : out[a] = [Node!EnumRsp(s) EXCEPT !.left = 0]
  BY <1>5 DEF Node!EnumRsp
<1>6. CASE \E s \in Session, p \in Addr, u \in BOOLEAN :
              out[a] = [Node!RangeRsp(s, p, u) EXCEPT !.left = 0]
  BY <1>6 DEF Node!RangeRsp
<1> QED
  BY <1>1, <1>2, <1>3, <1>4, <1>5, <1>6 DEF Node!Reply

\* A reply that is sent again is the same reply.
LEMMA AgainIsSame ==
  ASSUME Node!TypeOK, NEW a \in Addr, Node!SendReply(a, TRUE)
  PROVE  /\ out'[a] \in Node!Reply
         /\ out[a].kind \in {"enum", "range"} /\ out'[a].kind = out[a].kind
         /\ out[a].kind = "range" =>
              /\ out'[a].session = out[a].session /\ out'[a].peer = out[a].peer
              /\ out'[a].usable = out[a].usable
<1>1. /\ out[a] \in Node!Reply /\ out[a] # Node!NoReply /\ out[a].left > 0
      /\ out'[a] = [out[a] EXCEPT !.left = 0]
  BY DEF Node!TypeOK, Node!SendReply, Node!Listening
<1>2. CASE \E s \in Session : out[a] = Node!EnumRsp(s)
  BY <1>1, <1>2 DEF Node!Reply, Node!EnumRsp
<1>3. CASE \E s \in Session, p \in Addr, u \in BOOLEAN : out[a] = Node!RangeRsp(s, p, u)
  BY <1>1, <1>3 DEF Node!Reply, Node!RangeRsp
<1>4. CASE \E s \in Session, ok \in BOOLEAN : out[a] = Node!SetposAck(s, ok)
  BY <1>1, <1>4 DEF Node!SetposAck
<1>5. CASE \E s \in Session : out[a] = [Node!EnumRsp(s) EXCEPT !.left = 0]
  BY <1>1, <1>5 DEF Node!EnumRsp
<1>6. CASE \E s \in Session, p \in Addr, u \in BOOLEAN :
              out[a] = [Node!RangeRsp(s, p, u) EXCEPT !.left = 0]
  BY <1>1, <1>6 DEF Node!RangeRsp
<1> QED
  BY <1>1, <1>2, <1>3, <1>4, <1>5, <1>6 DEF Node!Reply

\* The parts of an anchor's state keep their types, and its replies their truth.
NodeInv == Node!TypeOK /\ AckIsTrue /\ RangeIsTrue

\* SURVEY_BEGIN keeps the types of the anchors and the truth of what they owe.
LEMMA BeginNodeInv ==
  ASSUME NodeInv, session \in Session, SendBegin, UNCHANGED measured
  PROVE  NodeInv'
<1>1. PICK H \in SUBSET Addr : Node!OnSurveyBegin(H, session)
  BY DEF SendBegin
<1>2. \A a \in Addr : out'[a] = Node!EnumRsp(session) \/ out'[a] = out[a]
  BY <1>1 DEF Node!OnSurveyBegin
<1>3. nvs' = nvs /\ Node!EnumRsp(session) \in Node!Reply /\ Node!EnumRsp(session).kind = "enum"
  BY <1>1 DEF Node!OnSurveyBegin, Node!Reply, Node!EnumRsp
<1>4. Node!TypeOK'
  BY <1>1, <1>3 DEF NodeInv, Node!TypeOK, Node!OnSurveyBegin
<1> QED
  BY <1>2, <1>3, <1>4 DEF NodeInv, AckIsTrue, RangeIsTrue

\* So does SURVEY_END.
LEMMA EndNodeInv ==
  ASSUME NodeInv, SendEnd, UNCHANGED measured
  PROVE  NodeInv'
<1>1. PICK H \in SUBSET Addr : Node!OnSurveyEnd(H, session)
  BY DEF SendEnd
<1>2. out' = out /\ nvs' = nvs
  BY <1>1 DEF Node!OnSurveyEnd
<1>3. Node!TypeOK'
  BY <1>1 DEF NodeInv, Node!TypeOK, Node!OnSurveyEnd
<1> QED
  BY <1>2, <1>3 DEF NodeInv, AckIsTrue, RangeIsTrue

\* So does RANGE_CMD, whose answer is the only one that measures.
LEMMA RangeNodeInv ==
  ASSUME NodeInv, session \in Session, NEW a \in Addr, NEW peer \in Addr,
         SendRangeCmd(a, peer)
  PROVE  NodeInv'
<1>1. ASSUME NEW usable \in BOOLEAN, Node!OnRangeCmd(a, session, peer, usable),
             measured' = IF usable THEN measured \cup {<<session, a, peer>>} ELSE measured
      PROVE  NodeInv'
  <2> DEFINE r == Node!RangeRsp(session, peer, usable)
  <2>1. /\ r \in Node!Reply /\ r.kind = "range" /\ r.session = session
        /\ r.peer = peer /\ r.usable = usable
    BY DEF Node!Reply, Node!RangeRsp
  <2>2. nvs' = nvs /\ out' = [out EXCEPT ![a] = r]
    BY <1>1 DEF Node!OnRangeCmd
  <2> HIDE DEF r
  <2>3. Node!TypeOK'
    BY <1>1, <2>1, <2>2 DEF NodeInv, Node!TypeOK, Node!OnRangeCmd
  <2>4. AckIsTrue'
    BY <2>1, <2>2 DEF NodeInv, Node!TypeOK, AckIsTrue
  <2>5. RangeIsTrue'
    BY <1>1, <2>1, <2>2 DEF NodeInv, Node!TypeOK, RangeIsTrue
  <2> QED
    BY <2>3, <2>4, <2>5 DEF NodeInv
<1>2. CASE Node!OnRangeCmdRefused(a, session) /\ UNCHANGED measured
  <2>1. Node!TypeOK'
    BY <1>2 DEF NodeInv, Node!TypeOK, Node!OnRangeCmdRefused, Node!Closed, Node!WindowOpen
  <2> QED
    BY <1>2, <2>1 DEF Node!OnRangeCmdRefused, NodeInv, AckIsTrue, RangeIsTrue
<1>3. CASE Unheard
  BY <1>3 DEF Unheard, nodeVars, NodeInv, Node!TypeOK, AckIsTrue, RangeIsTrue
<1> QED
  BY <1>1, <1>2, <1>3 DEF SendRangeCmd

\* So does SETPOS: an acknowledgement that says ok is owed only after the save.
LEMMA SetposNodeInv ==
  ASSUME NodeInv, session \in Session, NEW a \in Addr, SendSetpos(a)
  PROVE  NodeInv'
<1>0. measured' = measured
  BY DEF SendSetpos
<1>1. ASSUME NEW ok \in BOOLEAN, Node!OnSetpos(a, session, ok) PROVE NodeInv'
  <2> DEFINE r == Node!SetposAck(session, ok)
  <2>1. r \in Node!Reply /\ r.kind = "ack" /\ r.session = session /\ r.ok = ok
    BY DEF Node!Reply, Node!SetposAck
  <2>2. /\ nvs' = (IF ok THEN [nvs EXCEPT ![a] = session] ELSE nvs)
        /\ out' = [out EXCEPT ![a] = r]
    BY <1>1 DEF Node!OnSetpos, Node!SavedPos
  <2> HIDE DEF r
  <2>3. Node!TypeOK'
    BY <1>1, <2>1, <2>2 DEF NodeInv, Node!TypeOK, Node!OnSetpos
  <2>4. AckIsTrue'
    BY <2>1, <2>2 DEF NodeInv, Node!TypeOK, AckIsTrue
  <2>5. RangeIsTrue'
    BY <1>0, <2>1, <2>2 DEF NodeInv, Node!TypeOK, RangeIsTrue
  <2> QED
    BY <2>3, <2>4, <2>5 DEF NodeInv
<1>2. CASE UNCHANGED nodeVars
  BY <1>0, <1>2 DEF nodeVars, NodeInv, Node!TypeOK, AckIsTrue, RangeIsTrue
<1> QED
  BY <1>1, <1>2 DEF SendSetpos, Node!OnSetposRefused, Node!nodeVars, nodeVars, Unheard

\* So does what an anchor does by itself: a reply sent, a clock, a power cut.
LEMMA AloneNodeInv ==
  ASSUME NodeInv, Alone
  PROVE  NodeInv'
<1>0. measured' = measured
  BY DEF Alone
<1>1. Node!NoReply \in Node!Reply /\ Node!NoReply.kind = "none"
  BY DEF Node!Reply, Node!NoReply
<1>2. ASSUME NEW a \in Addr, Node!SendReply(a, FALSE) \/ Node!Reboot(a) PROVE NodeInv'
  <2>1. out' = [out EXCEPT ![a] = Node!NoReply] /\ nvs' = nvs
    BY <1>2 DEF Node!SendReply, Node!Reboot
  <2>2. Node!TypeOK'
    BY <1>1, <1>2, <2>1 DEF NodeInv, Node!TypeOK, Node!SendReply, Node!Reboot
  <2> QED
    BY <1>0, <1>1, <2>1, <2>2 DEF NodeInv, Node!TypeOK, AckIsTrue, RangeIsTrue
<1>3. ASSUME NEW a \in Addr, Node!SendReply(a, TRUE) PROVE NodeInv'
  <2>1. /\ nvs' = nvs /\ \A b \in Addr \ {a} : out'[b] = out[b]
        /\ win' = win /\ expired' = expired /\ ram' = ram
        /\ out' = [out EXCEPT ![a] = out'[a]]
    BY <1>3 DEF Node!SendReply, NodeInv, Node!TypeOK
  <2>2. /\ out'[a] \in Node!Reply
        /\ out[a].kind \in {"enum", "range"} /\ out'[a].kind = out[a].kind
        /\ out[a].kind = "range" =>
             /\ out'[a].session = out[a].session /\ out'[a].peer = out[a].peer
             /\ out'[a].usable = out[a].usable
    BY <1>3, AgainIsSame DEF NodeInv
  <2>3. Node!TypeOK'
    BY <2>1, <2>2 DEF NodeInv, Node!TypeOK
  <2>4. AckIsTrue'
    BY <2>1, <2>2 DEF NodeInv, AckIsTrue
  <2>5. RangeIsTrue'
    BY <1>0, <2>1, <2>2 DEF NodeInv, RangeIsTrue
  <2> QED
    BY <2>3, <2>4, <2>5 DEF NodeInv
<1>4. ASSUME NEW a \in Addr, Node!Lapse(a) \/ Node!QueryWindow(a) PROVE NodeInv'
  <2>1. out' = out /\ nvs' = nvs
    BY <1>4 DEF Node!Lapse, Node!QueryWindow
  <2>2. Node!TypeOK'
    BY <1>4 DEF NodeInv, Node!TypeOK, Node!Lapse, Node!QueryWindow, Node!Closed
  <2> QED
    BY <1>0, <2>1, <2>2 DEF NodeInv, AckIsTrue, RangeIsTrue
<1>5. CASE UNCHANGED nodeVars
  BY <1>0, <1>5 DEF nodeVars, NodeInv, Node!TypeOK, AckIsTrue, RangeIsTrue
<1> QED
  BY <1>2, <1>3, <1>4, <1>5 DEF Alone

\* Every step of an anchor keeps the invariant of the anchors.
LEMMA NodeStepNodeInv ==
  ASSUME NodeInv, NodeStep
  PROVE  NodeInv'
BY BeginNodeInv, EndNodeInv, RangeNodeInv, SetposNodeInv, AloneNodeInv DEF NodeStep, Sent

\* Flash changes only to the position of the session it is commanded in, and
\* the history only grows.
LEMMA FlashChanges ==
  ASSUME Node!TypeOK, NodeStep
  PROVE  /\ measured \subseteq measured'
         /\ \A b \in Addr : nvs'[b] = nvs[b] \/ (nvs'[b] = session /\ session' = session)
<1>1. CASE Alone
  BY <1>1 DEF Alone, Node!SendReply, Node!Lapse, Node!QueryWindow, Node!Reboot, nodeVars
<1>2. CASE session' = session /\ Sent
  <2>1. CASE (SendBegin \/ SendEnd) /\ UNCHANGED measured
    BY <2>1 DEF SendBegin, SendEnd, Node!OnSurveyBegin, Node!OnSurveyEnd
  <2>2. CASE \E a, peer \in Addr : SendRangeCmd(a, peer)
    BY <2>2 DEF SendRangeCmd, Node!OnRangeCmd, Node!OnRangeCmdRefused, Unheard, nodeVars
  <2>3. ASSUME NEW a \in Addr, SendSetpos(a)
        PROVE  /\ measured' = measured
               /\ \A b \in Addr : nvs'[b] = nvs[b] \/ nvs'[b] = session
    BY <2>3 DEF SendSetpos, Node!OnSetpos, Node!SavedPos, Node!OnSetposRefused,
                Node!nodeVars, Unheard, nodeVars, Node!TypeOK
  <2> QED
    BY <1>2, <2>1, <2>2, <2>3 DEF Sent
<1> QED
  BY <1>1, <1>2 DEF NodeStep

-----------------------------------------------------------------------------
(* The gateway among the anchors *)

\* Which reply makes the gateway count an anchor, or a pair.
HeardOk(a) ==
  out[a].kind = "ack" /\ out[a].ok /\ OnSetposAck(out[a].session, a, TRUE)

HeardRange(a) ==
  /\ out[a].kind = "range" /\ out[a].usable
  /\ OnRangeRsp(out[a].session, a, out[a].peer, TRUE)

\* When a reply reaches the gateway, it is one of its three handlers that runs.
LEMMA HearsKinds ==
  ASSUME Node!TypeOK, NEW a \in Addr, out[a] # Node!NoReply, GatewayHears(a, out[a])
  PROVE  \/ UNCHANGED vars \/ HearsEnum
         \/ HearsRange(FALSE) \/ HeardRange(a)
         \/ HearsAck(FALSE) \/ HeardOk(a)
<1>1. /\ out[a].kind \in {"enum", "range", "ack"}
      /\ out[a].session \in Session
      /\ out[a].kind = "range" => out[a].peer \in Addr /\ out[a].usable \in BOOLEAN
      /\ out[a].kind = "ack" => out[a].ok \in BOOLEAN
  BY ReplyShape
<1>2. BoardAt(a) \in Board
  BY SurveyAssumption DEF BoardAt
<1>3. CASE out[a].kind = "enum"
  BY <1>1, <1>2, <1>3 DEF GatewayHears, HearsEnum
<1>4. CASE out[a].kind = "range"
  <2>1. UNCHANGED vars \/ OnRangeRsp(out[a].session, a, out[a].peer, out[a].usable)
    BY <1>4 DEF GatewayHears
  <2>2. CASE out[a].usable = TRUE
    BY <1>4, <2>1, <2>2 DEF HeardRange
  <2>3. CASE out[a].usable = FALSE
    BY <1>1, <1>4, <2>1, <2>3 DEF HearsRange
  <2> QED
    BY <1>1, <1>4, <2>2, <2>3
<1>5. CASE out[a].kind = "ack"
  <2>1. UNCHANGED vars \/ OnSetposAck(out[a].session, a, out[a].ok)
    BY <1>5 DEF GatewayHears
  <2>2. CASE out[a].ok = TRUE
    BY <1>5, <2>1, <2>2 DEF HeardOk
  <2>3. CASE out[a].ok = FALSE
    BY <1>1, <1>5, <2>1, <2>3 DEF HearsAck
  <2> QED
    BY <1>1, <1>5, <2>2, <2>3
<1> QED
  BY <1>1, <1>3, <1>4, <1>5

\* The steps of the composition, seen from the gateway.
LEMMA StepKinds ==
  ASSUME Node!TypeOK, [SurveyNext]_surveyVars
  PROVE  \/ Unasked \/ HearsEnum \/ HearsRange(FALSE) \/ HearsAck(FALSE)
         \/ \E a \in Addr : HeardRange(a) \/ HeardOk(a)
<1>1. CASE GatewayCommand \/ GatewayReboot \/ GatewayTimer
  BY <1>1 DEF GatewayCommand, GatewayReboot, GatewayTimer, Unasked
<1>2. CASE GatewayQuiet \/ GatewayBegin \/ GatewayEnd \/ GatewayRange \/ GatewaySetpos
  BY <1>2 DEF GatewayQuiet, GatewayBegin, GatewayEnd, GatewayRange, GatewaySetpos,
              Unasked, Step
<1>3. ASSUME NEW a \in Addr, NodeReply(a)
      PROVE  \/ UNCHANGED vars \/ HearsEnum
             \/ HearsRange(FALSE) \/ HeardRange(a)
             \/ HearsAck(FALSE) \/ HeardOk(a)
  <2>1. out[a] # Node!NoReply
    BY <1>3 DEF NodeReply, Node!SendReply, Node!Listening
  <2> QED
    BY <1>3, <2>1, HearsKinds DEF NodeReply
<1>4. CASE (\E a \in Addr : NodeClock(a) \/ NodeReboot(a)) \/ UNCHANGED surveyVars
  BY <1>4 DEF NodeClock, NodeReboot, surveyVars, Unasked
<1> QED
  BY <1>1, <1>2, <1>3, <1>4 DEF SurveyNext, Unasked

\* The gateway of the composition takes steps of AposGw, or none.
LEMMA SurveyStepOfGateway ==
  ASSUME Node!TypeOK, [SurveyNext]_surveyVars
  PROVE  [Next]_vars
<1>1. CASE Unasked \/ HearsEnum \/ HearsRange(FALSE) \/ HearsAck(FALSE)
  BY <1>1 DEF Unasked, HearsEnum, HearsRange, HearsAck, Next, Receive
<1>2. ASSUME NEW a \in Addr, HeardRange(a) \/ HeardOk(a) PROVE [Next]_vars
  <2>0. out[a].kind \in {"range", "ack"}
    BY <1>2 DEF HeardRange, HeardOk
  <2>1. out[a] # Node!NoReply
    <3>1. Node!NoReply.kind = "none"
      BY DEF Node!NoReply
    <3> QED
      BY <2>0, <3>1
  <2>2. out[a].session \in Session /\ (out[a].kind = "range" => out[a].peer \in Addr)
    BY <2>1, ReplyShape
  <2> QED
    BY <1>2, <2>2 DEF HeardRange, HeardOk, Next, Receive
<1> QED
  BY <1>1, <1>2, StepKinds

\* Whom the report counts is a board of the table.
LEMMA AppliedArePeers ==
  ASSUME IInv, phase = "APPLY"
  PROVE  /\ applied \in Seq(Outcome) /\ apply_idx \in Nat /\ Len(applied) = apply_idx
         /\ DOMAIN applied \subseteq DOMAIN peers
BY DEF IInv, TypeOK, DataOK, CursorsOK, ApplyAccounting, ResultMatchesTable

\* A step keeps OkIsOnFlash: a new ok is that of a true acknowledgement, and no
\* anchor that is counted loses its position.
LEMMA OkStaysOnFlash ==
  ASSUME SInv, [SurveyNext]_surveyVars, NodeStep
  PROVE  OkIsOnFlash'
<1> SUFFICES ASSUME (phase = "APPLY")', NEW k \in DOMAIN applied', applied'[k] = "ok"
             PROVE  nvs'[peers'[k].addr] = session'
  BY DEF OkIsOnFlash
<1>1. \A b \in Addr : nvs'[b] = nvs[b] \/ (nvs'[b] = session /\ session' = session)
  BY FlashChanges DEF SInv
<1>2. CASE NoNewOk
  <2>1. /\ phase = "APPLY" /\ k \in DOMAIN applied /\ applied[k] = "ok"
        /\ session' = session /\ peers' = peers
    BY <1>2 DEF NoNewOk
  <2>2. peers[k].addr \in Addr
    BY <2>1, AppliedArePeers, PeerAddr DEF SInv
  <2>3. nvs[peers[k].addr] = session
    BY <2>1 DEF SInv, OkIsOnFlash
  <2> QED
    BY <1>1, <2>1, <2>2, <2>3
<1>3. ASSUME NEW a \in Addr, HeardOk(a) PROVE nvs'[peers'[k].addr] = session'
  <2>1. /\ phase = "APPLY" /\ awaiting /\ a = await_from /\ out[a].session = session
        /\ session' = session /\ peers' = peers /\ applied' = Append(applied, "ok")
    BY <1>3 DEF HeardOk, OnSetposAck, AckAccepts, cmdVars, tableVars
  <2>2. nvs[a] = session
    BY <1>3, <2>1 DEF HeardOk, SInv, AckIsTrue
  <2>3. nvs'[a] = session
    BY <1>1, <2>2
  <2>4. peers[apply_idx + 1].addr = a
    BY <2>1 DEF SInv, IInv, AwaitIsAtCursor
  <2>5. /\ applied \in Seq(Outcome) /\ apply_idx \in Nat /\ Len(applied) = apply_idx
        /\ DOMAIN applied \subseteq DOMAIN peers
    BY <2>1, AppliedArePeers DEF SInv
  <2>6. CASE k = apply_idx + 1
    BY <2>1, <2>3, <2>4, <2>6
  <2>7. CASE k # apply_idx + 1
    <3>1. k \in DOMAIN applied /\ applied[k] = "ok"
      BY <2>1, <2>5, <2>7
    <3>2. peers[k].addr \in Addr /\ nvs[peers[k].addr] = session
      BY <2>1, <2>5, <3>1, PeerAddr DEF SInv, OkIsOnFlash
    <3> QED
      BY <1>1, <2>1, <3>2
  <2> QED
    BY <2>6, <2>7
<1>4. ASSUME NEW a \in Addr, HeardRange(a) PROVE NoNewOk
  BY <1>4 DEF HeardRange, OnRangeRsp, RangeAccepts, NoNewOk
<1> QED
  BY <1>2, <1>3, <1>4, StepKinds, OthersNoNewOk DEF SInv

\* A step keeps RangeIsReal: a new measurement is that of a true response.
LEMMA RangeStaysReal ==
  ASSUME SInv, [SurveyNext]_surveyVars, NodeStep
  PROVE  RangeIsReal'
<1> SUFFICES ASSUME NEW p \in meas'
             PROVE  <<session', peers'[p[1]].addr, peers'[p[2]].addr>> \in measured'
  BY DEF RangeIsReal
<1>1. measured \subseteq measured'
  BY FlashChanges DEF SInv
<1>2. CASE NoNewMeas
  BY <1>1, <1>2 DEF NoNewMeas, SInv, RangeIsReal
<1>3. ASSUME NEW a \in Addr, HeardRange(a)
      PROVE  <<session', peers'[p[1]].addr, peers'[p[2]].addr>> \in measured'
  <2> DEFINE from == FindAddr(peers, await_from)
             to == FindAddr(peers, await_peer)
  <2>1. /\ a = await_from /\ out[a].peer = await_peer /\ out[a].session = session
        /\ session' = session /\ peers' = peers /\ meas' = AddMeas(peers, meas, from, to)
    BY <1>3 DEF HeardRange, OnRangeRsp, RangeAccepts, cmdVars
  <2>2. <<session, await_from, await_peer>> \in measured
    BY <1>3, <2>1 DEF HeardRange, SInv, RangeIsTrue
  <2>3. peers \in Seq(Peer)
    BY DEF SInv, IInv, TypeOK, DataOK
  <2>4. CASE p \in meas
    BY <1>1, <2>1, <2>4 DEF SInv, RangeIsReal
  <2>5. CASE p \notin meas
    <3>1. p = <<from, to>> /\ from \in DOMAIN peers /\ to \in DOMAIN peers
      BY <2>1, <2>5 DEF AddMeas
    <3>2. from # NoIndex /\ to # NoIndex
      BY <2>3, <3>1 DEF NoIndex
    <3>3. peers[from].addr = await_from /\ peers[to].addr = await_peer
      BY <2>3, <3>2, FindAddrFinds
    <3> QED
      BY <1>1, <2>1, <2>2, <3>1, <3>3
  <2> QED
    BY <2>4, <2>5
<1>4. ASSUME NEW a \in Addr, HeardOk(a) PROVE NoNewMeas
  BY <1>4 DEF HeardOk, OnSetposAck, NoNewMeas, cmdVars, tableVars
<1> QED
  BY <1>2, <1>3, <1>4, StepKinds, OthersNoNewMeas DEF SInv

\* A step keeps PersistIsTrue: what is saved is the survey that was applied.
LEMMA PersistStaysTrue ==
  ASSUME IInv, PersistIsTrue, [Next]_vars
  PROVE  PersistIsTrue'
<1>1. CASE ApplyPersist(TRUE)
  BY <1>1 DEF ApplyPersist, PersistIsTrue, cmdVars, tableVars, resultVars
<1>2. CASE ~ApplyPersist(TRUE)
  <2>1. NoNewSurvey
    BY <1>2, OthersNoNewSurvey
  <2> QED
    BY <2>1 DEF NoNewSurvey, PersistIsTrue
<1> QED
  BY <1>1, <1>2

-----------------------------------------------------------------------------
(* The theorems *)

\* The invariant holds at the start.
LEMMA SurveyInitSInv == SurveyInit => SInv
<1> SUFFICES ASSUME SurveyInit PROVE SInv
  OBVIOUS
<1>1. IInv
  BY InitIInv DEF SurveyInit
<1>2. Node!TypeOK
  BY DEF SurveyInit, Node!Init, Node!TypeOK, Node!Reply
<1>3. AckIsTrue /\ RangeIsTrue
  BY DEF SurveyInit, Node!Init, AckIsTrue, RangeIsTrue, Node!NoReply
<1>4. OkIsOnFlash /\ RangeIsReal /\ PersistIsTrue
  BY DEF SurveyInit, Init, OkIsOnFlash, RangeIsReal, PersistIsTrue
<1> QED
  BY <1>1, <1>2, <1>3, <1>4 DEF SInv

\* Every step keeps the invariant.
LEMMA SurveyStepSInv ==
  ASSUME SInv, [SurveyNext]_surveyVars
  PROVE  SInv' /\ [Next]_vars
<1>1. [Next]_vars
  BY SurveyStepOfGateway DEF SInv
<1>2. IInv'
  BY <1>1, NextIInv DEF SInv
<1>3. NodeStep
  BY SurveyStepOfNodes DEF SInv
<1>4. NodeInv'
  BY <1>3, NodeStepNodeInv DEF SInv, NodeInv
<1>5. OkIsOnFlash' /\ RangeIsReal'
  BY <1>3, OkStaysOnFlash, RangeStaysReal
<1>6. PersistIsTrue'
  BY <1>1, PersistStaysTrue DEF SInv
<1> QED
  BY <1>1, <1>2, <1>4, <1>5, <1>6 DEF SInv, NodeInv

\* Whatever the air and the anchors do, the invariant of the whole survey
\* holds: the gateway's own and the truth of the replies on their way.
THEOREM SurveyInductive == SurveySpec => []SInv
<1>1. SurveyInit => SInv
  BY SurveyInitSInv
<1>2. SInv /\ [SurveyNext]_surveyVars => SInv'
  BY SurveyStepSInv
<1> QED
  BY <1>1, <1>2, PTL DEF SurveySpec

\* Among anchors that answer as apos_node.c does, over an air that loses what
\* it likes, the gateway behaves as AposGw says: the composition implements it.
THEOREM SurveyImplementsGateway == SurveySpec => Init /\ [][Next]_vars
<1>1. SurveyInit => Init /\ SInv
  BY SurveyInitSInv DEF SurveyInit
<1>2. SInv /\ [SurveyNext]_surveyVars => SInv' /\ [Next]_vars
  BY SurveyStepSInv
<1> QED
  BY <1>1, <1>2, PTL DEF SurveySpec

\* An anchor that is reported as done has this survey's coordinates on its
\* flash (on_setpos_ack, handle_setpos).
THEOREM AlwaysOkIsOnFlash == SurveySpec => []OkIsOnFlash
<1>1. SInv => OkIsOnFlash
  BY DEF SInv
<1> QED
  BY <1>1, SurveyInductive, PTL

\* No measurement is filed that was not made between those two boards in this
\* session (on_range_rsp, handle_range_cmd).
THEOREM AlwaysRangeIsReal == SurveySpec => []RangeIsReal
<1>1. SInv => RangeIsReal
  BY DEF SInv
<1> QED
  BY <1>1, SurveyInductive, PTL

\* After an apply that is reported clean the gateway and all its anchors have
\* one survey (step_apply, persist_survey).
THEOREM AlwaysCleanApplyAgrees == SurveySpec => []CleanApplyAgrees
<1>1. ASSUME SInv PROVE CleanApplyAgrees
  <2> SUFFICES ASSUME phase = "APPLY", ending, persisted,
                      \A k \in DOMAIN applied : applied[k] = "ok",
                      NEW k \in DOMAIN peers
               PROVE  nvs[peers[k].addr] = store.solved /\ peers[k] \in store.nodes
    BY DEF CleanApplyAgrees
  <2>1. /\ store.solved = session
        /\ store.nodes = {peers[j] : j \in res.placed}
    BY <1>1 DEF SInv, PersistIsTrue
  <2>2. /\ have_result /\ Len(applied) = Len(peers)
        /\ \A j \in DOMAIN applied : applied[j] = "skip" <=> j \notin res.placed
    BY <1>1 DEF SInv, IInv, ApplyAccounting, ResultMatchesTable
  <2>3. k \in DOMAIN applied
    BY <1>1, <2>2 DEF SInv, IInv, TypeOK, DataOK
  <2> QED
    BY <1>1, <2>1, <2>2, <2>3 DEF SInv, OkIsOnFlash
<1> QED
  BY <1>1, SurveyInductive, PTL

-----------------------------------------------------------------------------
(* When nothing goes wrong                                                 *)

\* Every row of the table is what the anchor at its address answers.
RowsAreBoards == \A k \in DOMAIN peers : peers[k] = BoardAt(peers[k].addr)

\* A SURVEY_BEGIN of this phase has gone out.
Opened ==
  \/ phase = "ENUM" /\ enum_round > 0
  \/ phase = "RANGE"
  \/ phase = "APPLY" /\ ~reopen

AllOpen == Opened => \A a \in Addr : win[a] = session /\ ~expired[a]

\* The answer to the command that is out is on its way, and it is a good one.
Expected ==
  IF phase = "RANGE" THEN Node!RangeRsp(session, await_peer, TRUE)
                     ELSE Node!SetposAck(session, TRUE)

AnswerOwed == awaiting => timer = "running" /\ out[await_from] = Expected

\* Nobody else owes anything, but for the answers to a SURVEY_BEGIN, for which
\* the gateway waits its slot out.
OthersListen ==
  \A a \in Addr : out[a] # Node!NoReply =>
    \/ awaiting /\ a = await_from
    \/ /\ timer = "running" /\ ~awaiting /\ Opened /\ phase # "RANGE"
       /\ out[a] = Node!EnumRsp(session)

Prompt == phase = "RANGE" /\ ~awaiting => timer = "due"

Smooth == AllOpen /\ AnswerOwed /\ OthersListen /\ Prompt

RInv == RowsAreBoards /\ (reliable => Smooth) /\ ReliableIsComplete

\* An address names one board.
LEMMA BoardAtIsBoard ==
  ASSUME NEW a \in Addr
  PROVE  BoardAt(a) \in Board /\ BoardAt(a).addr = a /\ BoardAt(a) \in Peer
<1>1. BoardAt(a) \in Board /\ BoardAt(a).addr = a
  BY SurveyAssumption DEF BoardAt
<1> QED
  BY <1>1, GwAssumption DEF Peer

\* Settling skipped peers counts nobody as failed who was not.
LEMMA SkipKeepsFail ==
  ASSUME IInv, phase = "APPLY", NEW k \in Nat, k >= apply_idx,
         \A j \in DOMAIN applied : applied[j] # "fail"
  PROVE  \A j \in DOMAIN (applied \o Skipped(k)) : (applied \o Skipped(k))[j] # "fail"
<1>1. applied \in Seq(Outcome) /\ Len(applied) = apply_idx /\ apply_idx \in Nat
  BY DEF IInv, TypeOK, DataOK, CursorsOK, ApplyAccounting
<1>2. ASSUME NEW j \in DOMAIN (applied \o Skipped(k)), (applied \o Skipped(k))[j] = "fail"
      PROVE  j \in DOMAIN applied /\ applied[j] = "fail"
  BY <1>1, <1>2, SkippedIsSkip DEF Skipped, Outcome
<1> QED
  BY <1>2

\* Among rows that are the boards' own no two share an address.
LEMMA BoardsDoNotClash ==
  ASSUME IInv, RowsAreBoards, NEW a \in Addr
  PROVE  ~AddrInUse(peers, BoardAt(a).eui, BoardAt(a).addr)
<1> DEFINE e == BoardAt(a).eui
<1> SUFFICES ASSUME NEW k \in DOMAIN peers, peers[k].addr = a, k # FindEui(peers, e)
             PROVE  FALSE
  BY BoardAtIsBoard DEF AddrInUse
<1>1. peers[k].eui = e
  BY DEF RowsAreBoards
<1>2. peers \in Seq(Peer) /\ \A i, j \in DOMAIN peers : i # j => peers[i].eui # peers[j].eui
  BY DEF IInv, TypeOK, DataOK, PeersDistinct
<1>3. FindEui(peers, e) \in DOMAIN peers /\ peers[FindEui(peers, e)].eui = e
  BY <1>1, <1>2, FindEuiFinds
<1> QED
  BY <1>1, <1>2, <1>3

\* A board that answers gets a row that is its own.
LEMMA AnswerKeepsRows ==
  ASSUME IInv, RowsAreBoards, NEW a \in Addr
  PROVE  \A k \in DOMAIN AddPeer(peers, BoardAt(a).eui, a) :
           LET r == AddPeer(peers, BoardAt(a).eui, a)[k]
           IN  r = BoardAt(r.addr)
<1> DEFINE e == BoardAt(a).eui
           row == [eui |-> e, addr |-> a]
           i == FindEui(peers, e)
<1>1. row = BoardAt(a) /\ row.addr = a
  BY BoardAtIsBoard DEF Peer
<1>2. peers \in Seq(Peer)
  BY DEF IInv, TypeOK, DataOK
<1> HIDE DEF row
<1>3. CASE i = NoIndex
  <2>1. AddPeer(peers, e, a) = Append(peers, row)
    BY <1>3 DEF AddPeer, row
  <2> QED
    BY <1>1, <1>2, <2>1 DEF RowsAreBoards
<1>4. CASE i # NoIndex
  <2>1. AddPeer(peers, e, a) = [peers EXCEPT ![i] = row]
    BY <1>4 DEF AddPeer, row
  <2> QED
    BY <1>1, <1>2, <2>1 DEF RowsAreBoards
<1> QED
  BY <1>3, <1>4

\* A step of the gateway's own keeps the table or empties it.
LEMMA UnaskedKeepsRows ==
  ASSUME Unasked
  PROVE  peers' = peers \/ peers' = <<>>
<1>1. CASE Command
  BY <1>1 DEF Command, SetGauge, StartEnum, StartRun, BeginEnum, ClearTable, StartApply,
              tableVars
<1>2. CASE Step
  BY <1>2 DEF Step, EnumSend, EnumDone, RangeTimeout, RangeSolve, RangeCmd, ApplyTimeout,
              ApplyReopen, ApplySkipOnly, ApplyEnd, ApplyPersist, ApplyCmd, tableVars
<1>3. CASE TimerFires \/ Reboot \/ UNCHANGED vars
  BY <1>3 DEF TimerFires, Reboot, vars, tableVars
<1> QED
  BY <1>1, <1>2, <1>3 DEF Unasked

\* Every step keeps the rows the boards' own.
LEMMA RowsStayBoards ==
  ASSUME SInv, RowsAreBoards, [SurveyNext]_surveyVars
  PROVE  RowsAreBoards'
<1>1. CASE peers' = peers \/ peers' = <<>>
  BY <1>1 DEF RowsAreBoards, BoardAt
<1>2. ASSUME NEW a \in Addr, EnumAccepts(out[a].session), OnEnumRsp(out[a].session, BoardAt(a))
      PROVE  RowsAreBoards'
  <2>1. peers' = peers \/ peers' = AddPeer(peers, BoardAt(a).eui, a)
    BY <1>2, BoardAtIsBoard DEF OnEnumRsp
  <2>2. CASE peers' = AddPeer(peers, BoardAt(a).eui, a)
    <3> DEFINE t == AddPeer(peers, BoardAt(a).eui, a)
    <3>1. \A k \in DOMAIN t : t[k] = BoardAt(t[k].addr)
      BY AnswerKeepsRows DEF SInv
    <3> HIDE DEF t
    <3> QED
      BY <2>2, <3>1 DEF RowsAreBoards, BoardAt, t
  <2> QED
    BY <1>1, <2>1, <2>2
<1>3. ASSUME NEW a \in Addr, NodeReply(a) PROVE RowsAreBoards'
  <2>1. out[a] # Node!NoReply
    BY <1>3 DEF NodeReply, Node!SendReply, Node!Listening
  <2>2. out[a].kind \in {"enum", "range", "ack"}
    BY <2>1, ReplyShape DEF SInv
  <2>3. CASE UNCHANGED vars
    BY <1>1, <2>3 DEF vars, tableVars
  <2>4. CASE GatewayHears(a, out[a]) /\ out[a].kind = "enum"
    BY <1>2, <2>3, <2>4 DEF GatewayHears
  <2>5. CASE GatewayHears(a, out[a]) /\ out[a].kind \in {"range", "ack"}
    <3>1. peers' = peers
      BY <2>5 DEF GatewayHears, OnRangeRsp, OnSetposAck, vars, tableVars
    <3> QED
      BY <1>1, <3>1
  <2> QED
    BY <1>3, <2>2, <2>3, <2>4, <2>5 DEF NodeReply
<1>4. CASE Unasked
  BY <1>1, <1>4, UnaskedKeepsRows
<1>5. CASE GatewayCommand \/ GatewayReboot \/ GatewayTimer \/ GatewayQuiet
  BY <1>4, <1>5 DEF GatewayCommand, GatewayReboot, GatewayTimer, GatewayQuiet, Unasked, Step
<1>6. CASE GatewayBegin \/ GatewayEnd \/ GatewayRange \/ GatewaySetpos
  BY <1>4, <1>6 DEF GatewayBegin, GatewayEnd, GatewayRange, GatewaySetpos, Unasked, Step
<1>7. CASE (\E a \in Addr : NodeClock(a) \/ NodeReboot(a)) \/ UNCHANGED surveyVars
  BY <1>4, <1>7 DEF NodeClock, NodeReboot, surveyVars, Unasked
<1> QED
  BY <1>3, <1>5, <1>6, <1>7 DEF SurveyNext

\* While a command is out, its answer is on its way and the timer runs.
LEMMA AnswerComes ==
  ASSUME IInv, Smooth, awaiting
  PROVE  /\ phase \in {"RANGE", "APPLY"} /\ await_from \in Addr
         /\ timer = "running" /\ out[await_from] = Expected
         /\ out[await_from] # Node!NoReply /\ Listeners # Addr
<1>1. \/ phase = "RANGE" /\ pair_idx < pair_total /\ await_from = peers[CursorFrom].addr
      \/ phase = "APPLY" /\ apply_idx + 1 \in res.placed
           /\ await_from = peers[apply_idx + 1].addr
  BY DEF IInv, AwaitIsAtCursor
<1>2. CASE phase = "RANGE"
  <2>1. peers \in Seq(Peer) /\ pair_idx \in Nat
    BY DEF IInv, TypeOK, DataOK, CursorsOK
  <2>2. Len(peers) >= 2 /\ pair_total = Len(peers) * (Len(peers) - 1)
    BY <1>2 DEF IInv, PhaseFacts
  <2>3. CursorFrom \in 1..Len(peers)
    BY <1>1, <1>2, <2>1, <2>2, PairInRange DEF CursorFrom
  <2>4. CursorFrom \in DOMAIN peers
    BY <2>1, <2>3
  <2> QED
    BY <1>1, <1>2, <2>4, PeerAddr DEF Smooth, AnswerOwed, Expected, Listeners,
       Node!RangeRsp, Node!NoReply
<1>3. CASE phase = "APPLY"
  <2>1. apply_idx + 1 \in DOMAIN peers
    BY <1>1, <1>3 DEF IInv, ApplyAccounting, ResultMatchesTable
  <2> QED
    BY <1>1, <1>3, <2>1, PeerAddr DEF Smooth, AnswerOwed, Expected, Listeners,
       Node!SetposAck, Node!NoReply
<1> QED
  BY <1>1, <1>2, <1>3

\* In ENUM and IDLE no command is out.
LEMMA NothingOut ==
  ASSUME IInv, phase \notin {"RANGE", "APPLY"}
  PROVE  ~awaiting
BY DEF IInv, AwaitIsAtCursor

\* Whenever the gateway acts, every anchor listens.
LEMMA AllListen ==
  ASSUME IInv, Smooth, ~awaiting, timer = "due" \/ ~Opened \/ phase = "RANGE"
  PROVE  Listeners = Addr /\ \A a \in Addr : out[a] = Node!NoReply
BY DEF Smooth, OthersListen, Listeners

\* A step that the anchors sit out.
LEMMA RestIsSmooth ==
  ASSUME \A a \in Addr : out'[a] = Node!NoReply, ~awaiting',
         phase' = "RANGE" => timer' = "due",
         AllOpen'
  PROVE  Smooth'
BY DEF Smooth, AnswerOwed, OthersListen, Prompt

\* An operator's command finds everybody listening.
LEMMA CommandSmooth ==
  ASSUME IInv, Smooth, ReliableIsComplete, reliable, GatewayCommand
  PROVE  Smooth' /\ ReliableIsComplete'
<1>1. phase = "IDLE" /\ out' = out /\ reliable' = reliable
  BY DEF GatewayCommand, Command, SetGauge, StartEnum, StartRun, BeginEnum, StartApply,
         Busy, nodeVars
<1>2. ~awaiting /\ \A a \in Addr : out[a] = Node!NoReply
  BY <1>1, NothingOut, AllListen DEF Opened
<1>3. /\ ~awaiting'
      /\ \/ phase' = "IDLE"
         \/ phase' = "ENUM" /\ enum_round' = 0
         \/ phase' = "APPLY" /\ reopen' /\ applied' = <<>>
  BY <1>1, <1>2 DEF GatewayCommand, Command, SetGauge, StartEnum, StartRun, BeginEnum,
         StartApply, OpensWindows, awaitVars
<1>4. ~Opened'
  BY <1>3 DEF Opened
<1> QED
  BY <1>1, <1>2, <1>3, <1>4, RestIsSmooth DEF AllOpen, Opened, ReliableIsComplete

\* The timer fires only when every answer is in.
LEMMA TimerSmooth ==
  ASSUME IInv, Smooth, ReliableIsComplete, reliable, GatewayTimer
  PROVE  Smooth' /\ ReliableIsComplete'
<1>1. /\ Listeners = Addr /\ timer' = "due" /\ awaiting' = awaiting /\ phase' = phase
      /\ UNCHANGED <<enum_round, reopen, session, win, expired, out>>
      /\ UNCHANGED <<reliable, pair_idx, peers, meas, applied>>
  BY DEF GatewayTimer, TimerFires, cmdVars, tableVars, rangeVars, applyVars, nodeVars
<1>2. ~awaiting
  BY <1>1, AnswerComes
<1>3. \A a \in Addr : out[a] = Node!NoReply
  BY <1>1 DEF Listeners
<1>4. AllOpen'
  BY <1>1 DEF Smooth, AllOpen, Opened
<1> QED
  BY <1>1, <1>2, <1>3, <1>4, RestIsSmooth DEF ReliableIsComplete

\* No answer is missed, so nothing is retried or given up.
LEMMA QuietSmooth ==
  ASSUME IInv, Smooth, ReliableIsComplete, reliable, GatewayQuiet
  PROVE  Smooth' /\ ReliableIsComplete'
<1>0. UNCHANGED <<win, expired, out, reliable>> /\ ~RangeTimeout /\ ~ApplyTimeout
  BY AnswerComes DEF GatewayQuiet, RangeTimeout, ApplyTimeout, nodeVars
<1>1. CASE EnumDone
  <2>1. /\ phase = "ENUM" /\ timer = "due" /\ enum_round > 0 /\ ~awaiting
        /\ timer' = "due" /\ ~awaiting'
        /\ phase' = "IDLE" \/ (phase' = "RANGE" /\ pair_idx' = 0)
        /\ session' = session
    BY <1>1, GwAssumption, NothingOut DEF EnumDone, cmdVars, IInv, TypeOK, CursorsOK
  <2>2. \A a \in Addr : out[a] = Node!NoReply
    BY <2>1, AllListen
  <2>3. AllOpen'
    BY <1>0, <2>1 DEF Smooth, AllOpen, Opened
  <2>4. 0..(0 - 1) = {}
    OBVIOUS
  <2>5. ReliableIsComplete'
    BY <2>1, <2>4 DEF ReliableIsComplete
  <2> QED
    BY <1>0, <2>1, <2>2, <2>3, <2>5, RestIsSmooth
<1>2. CASE RangeSolve
  <2>1. phase = "RANGE" /\ ~awaiting /\ phase' = "IDLE" /\ ~awaiting'
    BY <1>2 DEF RangeSolve, awaitVars
  <2>2. \A a \in Addr : out[a] = Node!NoReply
    BY <2>1, AllListen
  <2> QED
    BY <1>0, <2>1, <2>2, RestIsSmooth DEF AllOpen, Opened, ReliableIsComplete
<1>3. CASE ApplySkipOnly \/ \E saved \in BOOLEAN : ApplyPersist(saved)
  <2>1. /\ phase = "APPLY" /\ ~awaiting /\ timer = "due"
        /\ UNCHANGED <<phase, awaiting, timer, reopen, session>>
        /\ applied' = applied \o Skipped(res.n)
        /\ res.n \in Nat /\ res.n >= apply_idx
    BY <1>3 DEF ApplySkipOnly, ApplyPersist, Applying, SkipsTo, cmdVars, awaitVars,
                IInv, ApplyAccounting, TypeOK, DataOK, Result, CursorsOK
  <2>2. \A a \in Addr : out[a] = Node!NoReply
    BY <2>1, AllListen
  <2>3. AllOpen'
    BY <1>0, <2>1 DEF Smooth, AllOpen, Opened
  <2>4. ReliableIsComplete'
    BY <1>0, <2>1, SkipKeepsFail DEF ReliableIsComplete
  <2> QED
    BY <1>0, <2>1, <2>2, <2>3, <2>4, RestIsSmooth
<1> QED
  BY <1>0, <1>1, <1>2, <1>3 DEF GatewayQuiet

\* Everybody hears SURVEY_BEGIN and opens its window.
LEMMA BeginSmooth ==
  ASSUME IInv, Node!TypeOK, Smooth, ReliableIsComplete, reliable, GatewayBegin
  PROVE  Smooth' /\ ReliableIsComplete'
<1>1. /\ phase \in {"ENUM", "APPLY"} /\ ~awaiting
      /\ timer = "due" \/ ~Opened
      /\ phase' = phase /\ session' = session /\ ~awaiting' /\ timer' = "running"
      /\ phase = "ENUM" => enum_round' > 0
      /\ phase = "APPLY" => ~reopen'
      /\ UNCHANGED <<reliable, applied>>
  BY NothingOut DEF GatewayBegin, EnumSend, ApplyReopen, Opened, cmdVars, applyVars,
     IInv, TypeOK, CursorsOK
<1>2. Listeners = Addr
  BY <1>1, AllListen
<1>3. Node!OnSurveyBegin(Addr, session)
  BY <1>2 DEF GatewayBegin, SendBegin, Hears
<1>4. \A a \in Addr : /\ win'[a] = session /\ ~expired'[a]
                      /\ out'[a] = Node!EnumRsp(session)
  BY <1>3 DEF Node!OnSurveyBegin
<1>5. AllOpen' /\ Opened'
  BY <1>1, <1>4 DEF AllOpen, Opened
<1>6. OthersListen'
  BY <1>1, <1>4, <1>5 DEF OthersListen, Node!EnumRsp
<1> QED
  BY <1>1, <1>5, <1>6 DEF Smooth, AnswerOwed, Prompt, ReliableIsComplete

\* SURVEY_END ends the apply with everybody listening.
LEMMA EndSmooth ==
  ASSUME IInv, Smooth, ReliableIsComplete, reliable, GatewayEnd
  PROVE  Smooth' /\ ReliableIsComplete'
<1>1. phase' = "IDLE" /\ ~awaiting /\ ~awaiting' /\ timer = "due" /\ out' = out
  BY DEF GatewayEnd, ApplyEnd, Applying, SendEnd, Node!OnSurveyEnd, awaitVars
<1>2. \A a \in Addr : out[a] = Node!NoReply
  BY <1>1, AllListen
<1> QED
  BY <1>1, <1>2, RestIsSmooth DEF AllOpen, Opened, ReliableIsComplete

\* The command of the walk is heard, and answered with a usable batch.
LEMMA RangeSmooth ==
  ASSUME IInv, Node!TypeOK, Smooth, ReliableIsComplete, reliable, GatewayRange
  PROVE  Smooth' /\ ReliableIsComplete'
<1>1. RangeCmd(TRUE) /\ SendRangeCmd(await_from', await_peer') /\ reliable' = reliable
  BY DEF GatewayRange
<1>2. /\ phase = "RANGE" /\ phase' = "RANGE" /\ ~awaiting /\ awaiting' /\ timer' = "running"
      /\ pair_idx < pair_total
      /\ await_from' = peers[CursorFrom].addr /\ await_peer' = peers[CursorTo].addr
      /\ UNCHANGED <<session, peers, meas, pair_idx>>
  BY <1>1 DEF RangeCmd, cmdVars, tableVars
<1>3. /\ await_from' \in Addr /\ await_peer' \in Addr
      /\ session \in Session /\ NoSession \notin Session
  <2>1. peers \in Seq(Peer) /\ pair_idx \in Nat
    BY DEF IInv, TypeOK, DataOK, CursorsOK
  <2>2. Len(peers) >= 2 /\ pair_total = Len(peers) * (Len(peers) - 1)
    BY <1>2 DEF IInv, PhaseFacts
  <2>3. CursorFrom \in 1..Len(peers) /\ CursorTo \in 1..Len(peers)
    BY <1>2, <2>1, <2>2, PairInRange DEF CursorFrom, CursorTo
  <2>4. CursorFrom \in DOMAIN peers /\ CursorTo \in DOMAIN peers
    BY <2>1, <2>3
  <2> QED
    BY <1>2, <2>4, PeerAddr, GwAssumption DEF IInv, PhaseFacts, TypeOK, DataOK
<1>4. /\ \A a \in Addr : out[a] = Node!NoReply
      /\ \A a \in Addr : win[a] = session /\ ~expired[a]
  BY <1>2, AllListen DEF Smooth, AllOpen, Opened
<1>5. Node!OnRangeCmd(await_from', session, await_peer', TRUE)
  <2>1. Node!WindowOpen(await_from') /\ Node!AnswersPolls(await_peer')
    BY <1>3, <1>4 DEF Node!WindowOpen, Node!AnswersPolls, Node!Listening
  <2>2. ~Node!OnRangeCmdRefused(await_from', session) /\ ~Unheard
    BY <1>3, <1>4, <2>1 DEF Node!OnRangeCmdRefused, Unheard
  <2> QED
    BY <1>1, <2>1, <2>2 DEF SendRangeCmd
<1>6. /\ out' = [out EXCEPT ![await_from'] = Node!RangeRsp(session, await_peer', TRUE)]
      /\ win' = win /\ \A a \in Addr : ~expired'[a]
  BY <1>4, <1>5 DEF Node!OnRangeCmd, Node!TypeOK
<1>7. AllOpen'
  BY <1>2, <1>4, <1>6 DEF AllOpen
<1>8. AnswerOwed'
  BY <1>2, <1>3, <1>6 DEF AnswerOwed, Expected, Node!TypeOK, Node!RangeRsp
<1>9. OthersListen'
  BY <1>2, <1>3, <1>4, <1>6 DEF OthersListen, Node!TypeOK, Node!NoReply
<1>10. ReliableIsComplete'
  BY <1>1, <1>2 DEF ReliableIsComplete
<1> QED
  BY <1>2, <1>7, <1>8, <1>9, <1>10 DEF Smooth, Prompt

\* SETPOS is heard, accepted and saved.
LEMMA SetposSmooth ==
  ASSUME IInv, Node!TypeOK, Smooth, ReliableIsComplete, reliable, GatewaySetpos
  PROVE  Smooth' /\ ReliableIsComplete'
<1>1. PICK k \in 0..MaxNodes : ApplyCmd(k, TRUE)
  BY DEF GatewaySetpos
<1>2. /\ phase = "APPLY" /\ phase' = "APPLY" /\ ~awaiting /\ ~reopen /\ timer = "due"
      /\ awaiting' /\ timer' = "running" /\ ~reopen'
      /\ await_from' = peers[k + 1].addr /\ k + 1 \in res.placed
      /\ applied' = applied \o Skipped(k) /\ k >= apply_idx /\ k \in Nat
      /\ session' = session
  BY <1>1, TableAssumption
     DEF ApplyCmd, Applying, SkipsTo, cmdVars, IInv, TypeOK, CursorsOK, DataOK, Result
<1>3. /\ await_from' \in Addr /\ session \in Session /\ NoSession \notin Session
  <2>1. k + 1 \in DOMAIN peers
    BY <1>2 DEF IInv, ApplyAccounting, ResultMatchesTable
  <2> QED
    BY <1>2, <2>1, PeerAddr, GwAssumption DEF IInv, PhaseFacts, TypeOK, DataOK
<1>4. /\ \A a \in Addr : out[a] = Node!NoReply
      /\ \A a \in Addr : win[a] = session /\ ~expired[a]
  BY <1>2, AllListen DEF Smooth, AllOpen, Opened
<1>5. Node!OnSetpos(await_from', session, TRUE) /\ reliable' = reliable
  <2>1. Node!SetposAccepted(await_from', session)
    BY <1>3, <1>4 DEF Node!SetposAccepted
  <2>2. ~Node!OnSetposRefused(await_from', session) /\ ~Unheard
    BY <2>1 DEF Node!OnSetposRefused, Unheard
  <2> QED
    BY <2>2 DEF GatewaySetpos, SendSetpos
<1>6. /\ out' = [out EXCEPT ![await_from'] = Node!SetposAck(session, TRUE)]
      /\ win' = win /\ \A a \in Addr : ~expired'[a]
  BY <1>4, <1>5 DEF Node!OnSetpos, Node!TypeOK
<1>7. AllOpen'
  BY <1>2, <1>4, <1>6 DEF AllOpen
<1>8. AnswerOwed'
  BY <1>2, <1>3, <1>6 DEF AnswerOwed, Expected, Node!TypeOK, Node!SetposAck
<1>9. OthersListen'
  BY <1>2, <1>3, <1>4, <1>6 DEF OthersListen, Node!TypeOK, Node!NoReply
<1>10. ReliableIsComplete'
  BY <1>2, <1>5, SkipKeepsFail DEF ReliableIsComplete
<1> QED
  BY <1>2, <1>7, <1>8, <1>9, <1>10 DEF Smooth, Prompt

\* The response that was waited for puts the pair at the cursor in the table.
LEMMA ResponseFilesPair ==
  ASSUME IInv, NEW s, NEW src, NEW peer, OnRangeRsp(s, src, peer, TRUE)
  PROVE  /\ meas' = meas \cup {<<CursorFrom, CursorTo>>}
         /\ pair_idx' = pair_idx + 1 /\ peers' = peers
<1> DEFINE n == Len(peers)
<1>1. /\ n \in Nat /\ n >= 2 /\ pair_idx \in Nat /\ pair_idx < n * (n - 1)
      /\ await_from = peers[CursorFrom].addr /\ await_peer = peers[CursorTo].addr
      /\ peers \in Seq(Peer)
  BY DEF OnRangeRsp, RangeAccepts, IInv, TypeOK, CursorsOK, DataOK, PhaseFacts,
         AwaitIsAtCursor
<1>2. CursorFrom \in 1..n /\ CursorTo \in 1..n /\ CursorFrom # CursorTo
  BY <1>1, PairInRange DEF CursorFrom, CursorTo
<1>3. CursorFrom \in DOMAIN peers /\ CursorTo \in DOMAIN peers
  BY <1>1, <1>2
<1>4. /\ FindAddr(peers, await_from) = CursorFrom
      /\ FindAddr(peers, await_peer) = CursorTo
  BY <1>1, <1>3, FindAddrUnique DEF IInv, PeersDistinct
<1> QED
  BY <1>2, <1>3, <1>4 DEF OnRangeRsp, AddMeas

\* Every answer arrives and is the one that was waited for.
LEMMA ReplySmooth ==
  ASSUME SInv, RowsAreBoards, Smooth, ReliableIsComplete, reliable,
         NEW a \in Addr, NodeReply(a)
  PROVE  Smooth' /\ ReliableIsComplete'
<1>0. IInv /\ Node!TypeOK
  BY DEF SInv
<1>1. /\ out[a] # Node!NoReply /\ out' = [out EXCEPT ![a] = Node!NoReply]
      /\ UNCHANGED <<win, expired, reliable>> /\ GatewayHears(a, out[a])
  BY DEF NodeReply, Node!SendReply, Node!Listening
<1>2. out'[a] = Node!NoReply /\ \A b \in Addr \ {a} : out'[b] = out[b]
  BY <1>0, <1>1 DEF Node!TypeOK
<1>3. CASE awaiting /\ phase = "RANGE"
  <2>1. a = await_from /\ out[a] = Node!RangeRsp(session, await_peer, TRUE)
    BY <1>0, <1>1, <1>3, AnswerComes DEF Smooth, OthersListen, Expected
  <2>2. OnRangeRsp(session, a, await_peer, TRUE)
    <3>1. /\ out[a].kind = "range" /\ out[a].session = session
          /\ out[a].peer = await_peer /\ out[a].usable = TRUE
      BY <2>1 DEF Node!RangeRsp
    <3>2. RangeAccepts(session, a, await_peer)
      BY <1>3, <2>1 DEF RangeAccepts
    <3> QED
      BY <1>1, <3>1, <3>2 DEF GatewayHears
  <2>3. /\ ~awaiting' /\ timer' = "due" /\ phase' = "RANGE" /\ session' = session
        /\ meas' = meas \cup {<<CursorFrom, CursorTo>>}
        /\ pair_idx' = pair_idx + 1 /\ peers' = peers
    BY <1>0, <1>3, <2>2, ResponseFilesPair DEF OnRangeRsp, cmdVars
  <2>4. \A b \in Addr : out'[b] = Node!NoReply
    BY <1>1, <1>2, <1>3, <2>1 DEF Smooth, OthersListen
  <2>5. AllOpen'
    BY <1>1, <1>3, <2>3 DEF Smooth, AllOpen, Opened
  <2>6. ReliableIsComplete'
    <3>1. pair_idx \in Nat
      BY <1>0 DEF IInv, TypeOK, CursorsOK
    <3>2. \A k \in 0..(pair_idx' - 1) : k \in 0..(pair_idx - 1) \/ k = pair_idx
      BY <2>3, <3>1
    <3> QED
      BY <1>3, <2>3, <3>2 DEF ReliableIsComplete, CursorFrom, CursorTo
  <2> QED
    BY <2>3, <2>4, <2>5, <2>6, RestIsSmooth
<1>4. CASE awaiting /\ phase = "APPLY"
  <2>1. a = await_from /\ out[a] = Node!SetposAck(session, TRUE)
    BY <1>0, <1>1, <1>4, AnswerComes DEF Smooth, OthersListen, Expected
  <2>2. OnSetposAck(session, a, TRUE)
    <3>1. out[a].kind = "ack" /\ out[a].session = session /\ out[a].ok = TRUE
      BY <2>1 DEF Node!SetposAck
    <3>2. AckAccepts(session, a)
      BY <1>4, <2>1 DEF AckAccepts
    <3> QED
      BY <1>1, <3>1, <3>2 DEF GatewayHears
  <2>3. /\ ~awaiting' /\ phase' = "APPLY" /\ session' = session /\ reopen' = reopen
        /\ applied' = Append(applied, "ok")
    BY <1>4, <2>2 DEF OnSetposAck, cmdVars
  <2>4. \A b \in Addr : out'[b] = Node!NoReply
    BY <1>1, <1>2, <1>4, <2>1 DEF Smooth, OthersListen
  <2>5. AllOpen'
    BY <1>1, <1>4, <2>3 DEF Smooth, AllOpen, Opened
  <2>6. ReliableIsComplete'
    <3>1. applied \in Seq(Outcome)
      BY <1>0 DEF IInv, TypeOK, DataOK
    <3> QED
      BY <1>4, <2>3, <3>1 DEF ReliableIsComplete
  <2> QED
    BY <2>3, <2>4, <2>5, <2>6, RestIsSmooth
<1>5. CASE ~awaiting
  <2>1. /\ timer = "running" /\ Opened /\ phase \in {"ENUM", "APPLY"}
        /\ out[a] = Node!EnumRsp(session)
    BY <1>1, <1>5 DEF Smooth, OthersListen, Opened
  <2>2. /\ UNCHANGED <<phase, session, enum_round, reopen, awaiting, timer, applied>>
    <3>1. CASE UNCHANGED vars
      BY <3>1 DEF vars, cmdVars, applyVars, awaitVars
    <3>2. CASE OnEnumRsp(session, BoardAt(a))
      BY <1>0, <3>2, BoardsDoNotClash DEF OnEnumRsp, cmdVars, applyVars, awaitVars
    <3> QED
      BY <1>1, <2>1, <3>1, <3>2 DEF GatewayHears, Node!EnumRsp
  <2>3. AllOpen' /\ Opened'
    BY <1>1, <2>1, <2>2 DEF Smooth, AllOpen, Opened
  <2>4. OthersListen'
    BY <1>2, <1>5, <2>1, <2>2, <2>3 DEF Smooth, OthersListen
  <2> QED
    BY <1>1, <1>5, <2>1, <2>2, <2>3, <2>4 DEF Smooth, AnswerOwed, Prompt, ReliableIsComplete
<1> QED
  BY <1>0, <1>3, <1>4, <1>5, AnswerComes

\* Windows are looked at only while the gateway is idle.
LEMMA ClockSmooth ==
  ASSUME SInv, Smooth, ReliableIsComplete, reliable, NEW a \in Addr, NodeClock(a)
  PROVE  Smooth' /\ ReliableIsComplete'
<1>1. phase = "IDLE" /\ out' = out /\ UNCHANGED <<vars, reliable>>
  BY DEF NodeClock, Busy, Node!Lapse, Node!QueryWindow
<1>2. phase' = "IDLE" /\ awaiting' = awaiting
  BY <1>1 DEF vars, awaitVars
<1>3. ~awaiting /\ \A b \in Addr : out[b] = Node!NoReply
  BY <1>1, NothingOut, AllListen DEF SInv, Opened
<1> QED
  BY <1>1, <1>2, <1>3, RestIsSmooth DEF AllOpen, Opened, ReliableIsComplete

\* Every step of the survey keeps it.
LEMMA SurveyStepRInv ==
  ASSUME SInv, RInv, [SurveyNext]_surveyVars
  PROVE  RInv'
<1>1. RowsAreBoards'
  BY RowsStayBoards DEF RInv
<1>2. reliable' = reliable
  BY DEF SurveyNext, surveyVars, GatewayCommand, GatewayReboot, GatewayTimer, GatewayQuiet,
         GatewayBegin, GatewayEnd, GatewayRange, GatewaySetpos, NodeReply, NodeClock,
         NodeReboot
<1>3. CASE ~reliable
  BY <1>1, <1>2, <1>3 DEF RInv, ReliableIsComplete
<1>4. CASE reliable
  <2>1. IInv /\ Node!TypeOK /\ RowsAreBoards /\ Smooth /\ ReliableIsComplete
    BY <1>4 DEF SInv, RInv
  <2>2. CASE UNCHANGED surveyVars
    BY <1>1, <2>1, <2>2
       DEF RInv, ReliableIsComplete, surveyVars, nodeVars, vars, cmdVars, tableVars,
           rangeVars, applyVars, awaitVars, Smooth, AllOpen, AnswerOwed, OthersListen,
           Prompt, Opened, Expected
  <2>3. ~GatewayReboot /\ \A a \in Addr : ~NodeReboot(a)
    BY <1>4 DEF GatewayReboot, NodeReboot
  <2>4. CASE SurveyNext
    <3>1. Smooth' /\ ReliableIsComplete'
      BY <1>4, <2>1, <2>3, <2>4, CommandSmooth, TimerSmooth, QuietSmooth, BeginSmooth,
         EndSmooth, RangeSmooth, SetposSmooth, ReplySmooth, ClockSmooth DEF SurveyNext
    <3> QED
      BY <1>1, <3>1 DEF RInv
  <2> QED
    BY <2>2, <2>4
<1> QED
  BY <1>3, <1>4 DEF ReliableIsComplete

\* When no frame is lost, no flash write fails and every answer comes in time, the
\* walk measures every pair it passes and no anchor fails its SETPOS: nothing
\* but faults makes a hole (step_range, step_apply, apos_node_on_rx).
THEOREM AlwaysReliableIsComplete == SurveySpec => []ReliableIsComplete
<1>1. SurveyInit => SInv /\ RInv
  <2> SUFFICES ASSUME SurveyInit PROVE RInv
    BY SurveyInitSInv
  <2>1. Smooth
    BY DEF SurveyInit, Init, Node!Init, Smooth, AllOpen, Opened, AnswerOwed, OthersListen,
           Prompt
  <2> QED
    BY <2>1 DEF SurveyInit, Init, RInv, RowsAreBoards, ReliableIsComplete
<1>2. SInv /\ RInv /\ [SurveyNext]_surveyVars => SInv' /\ RInv'
  BY SurveyStepSInv, SurveyStepRInv
<1>3. SInv /\ RInv => ReliableIsComplete
  BY DEF RInv
<1> QED
  BY <1>1, <1>2, <1>3, PTL DEF SurveySpec
=============================================================================

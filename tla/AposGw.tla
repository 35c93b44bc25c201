------------------------------- MODULE AposGw -------------------------------
(***************************************************************************)
(* The gateway side of the anchor survey (apos_gw.c): a step machine that  *)
(* enumerates the anchors, ranges every ordered pair of them, solves for   *)
(* their coordinates, and later pushes the coordinates back one anchor at  *)
(* a time and persists the survey.                                         *)
(*                                                                         *)
(* The frames that reach it are any frames at all of the three kinds it    *)
(* handles: late, duplicated, out of phase, of any source.  A frame a      *)
(* handler drops changes nothing and is no step here.  Time is one         *)
(* deadline, next_action_ms, that is "due" or still "running"; the         *)
(* microseconds left before the beacon matter only in that the solve and   *)
(* the flash write wait for a superframe's start, which is a delay.        *)
(*                                                                         *)
(* A transmission either reports success or not: `tx' is tx_now()'s answer.*)
(***************************************************************************)
EXTENDS AposGeom

CONSTANTS
  Eui,            \* identities of the boards
  Addr,           \* short addresses a board may own
  GwAddr,         \* 0x0000, the gateway's own address
  Board,          \* the [eui, addr] pairs that may answer enumeration
  Session,        \* what new_session() may draw; never NoSession
  NoSession,      \* 0, "none"
  Gauge,          \* the gauges an operator may set, as addresses
  EnumRounds,     \* APOS_GW_ENUM_ROUNDS
  RangeRetries,   \* APOS_GW_RANGE_RETRIES
  ApplyRetries,   \* APOS_GW_APPLY_RETRIES
  TxFailLimit     \* APOS_GW_TX_FAIL_LIMIT

ASSUME GwAssumption ==
  /\ GwAddr \notin Addr
  /\ Board \subseteq [eui : Eui, addr : Addr \cup {GwAddr}]
  /\ NoSession \notin Session
  /\ Gauge \subseteq Seq(Addr)
  /\ \A g \in Gauge : Len(g) \in {3, 4}
  /\ \A g \in Gauge : \A a, b \in DOMAIN g : a # b => g[a] # g[b]
  /\ EnumRounds \in Nat \ {0}
  /\ RangeRetries \in Nat
  /\ ApplyRetries \in Nat
  /\ TxFailLimit \in Nat \ {0}

Peer == [eui : Eui, addr : Addr]
NoGauge == <<>>                     \* gauge_addr all zero

\* The solver's answer: how many nodes it was given, which it placed, and
\* the node at the origin of its frame.
NoResult == [n |-> 0, placed |-> {}, origin |-> NoIndex]
Result == [n : 0..MaxNodes, placed : SUBSET (1..MaxNodes), origin : 0..MaxNodes]

\* The survey on the gateway's flash.  `zero' is the anchor its coordinates
\* put at (0, 0, 0) and `solved' the session whose ranges they come from:
\* both stand for the coordinates themselves.
NoSurvey == [valid |-> FALSE]
Survey == [valid : {TRUE}, first : Peer, nodes : SUBSET Peer,
           zero : Peer, solved : Session]

VARIABLES
  phase, session, is_run, enum_round,       \* the phase and its command
  gauge,                                    \* gauge_addr
  peers, meas,                              \* tbl
  have_result, accepted, res,               \* the last solve
  pair_idx, pair_total, pair_retries,       \* RANGE cursor
  apply_idx, apply_retries, applied,        \* APPLY cursor; see below
  reopen, ending, persisted,
  awaiting, await_from, await_peer, tx_fails, timer,
  store                                     \* apos_store: flash and its cache

\* applied[k] is what node k was counted as.  The three counters of the code,
\* applied_ok, applied_fail and applied_skip, are how often each occurs.
Outcome == {"ok", "fail", "skip"}

cmdVars == <<session, is_run, enum_round, gauge>>
tableVars == <<peers, meas>>
resultVars == <<have_result, accepted, res>>
rangeVars == <<pair_idx, pair_total, pair_retries>>
applyVars == <<apply_idx, apply_retries, applied, reopen, ending, persisted>>
awaitVars == <<awaiting, await_from, await_peer, tx_fails, timer>>
vars == <<phase, cmdVars, tableVars, resultVars, rangeVars, applyVars,
          awaitVars, store>>

FlagsOK ==
  /\ is_run \in BOOLEAN
  /\ have_result \in BOOLEAN /\ accepted \in BOOLEAN
  /\ reopen \in BOOLEAN /\ ending \in BOOLEAN /\ persisted \in BOOLEAN
  /\ awaiting \in BOOLEAN

CursorsOK ==
  /\ phase \in {"IDLE", "ENUM", "RANGE", "APPLY"}
  /\ enum_round \in 0..EnumRounds
  /\ pair_idx \in Nat /\ pair_total \in Nat
  /\ pair_retries \in 0..RangeRetries
  /\ apply_idx \in 0..MaxNodes
  /\ apply_retries \in 0..ApplyRetries
  /\ tx_fails \in 0..(TxFailLimit - 1)
  /\ timer \in {"due", "running"}

DataOK ==
  /\ session \in Session \cup {NoSession}
  /\ gauge \in Gauge \cup {NoGauge}
  /\ peers \in Seq(Peer) /\ Len(peers) <= MaxNodes
  /\ meas \subseteq (1..MaxNodes) \X (1..MaxNodes)
  /\ res \in Result
  /\ applied \in Seq(Outcome)
  /\ await_from \in Addr \cup {GwAddr}
  /\ await_peer \in Addr \cup {GwAddr}
  /\ store \in Survey \cup {NoSurvey}

\* Every bounded counter stays within its bound, and what is stored for later
\* is complete: the table within its capacity, a survey with all its parts.
TypeOK == FlagsOK /\ CursorsOK /\ DataOK

\* apos_gw_init(), on a board that never stored a survey.
Init ==
  /\ phase = "IDLE" /\ session = NoSession /\ is_run = FALSE /\ enum_round = 0
  /\ gauge = NoGauge
  /\ peers = <<>> /\ meas = {}
  /\ have_result = FALSE /\ accepted = FALSE /\ res = NoResult
  /\ pair_idx = 0 /\ pair_total = 0 /\ pair_retries = 0
  /\ apply_idx = 0 /\ apply_retries = 0 /\ applied = <<>>
  /\ reopen = FALSE /\ ending = FALSE /\ persisted = FALSE
  /\ awaiting = FALSE /\ await_from = GwAddr /\ await_peer = GwAddr
  /\ tx_fails = 0 /\ timer = "due"
  /\ store = NoSurvey

-----------------------------------------------------------------------------
(* Operator commands (apos_shell.c; each refuses first while busy), and    *)
(* the power                                                               *)

Busy == phase # "IDLE"

\* A power cut: RAM as at boot, flash as it was.
Reboot ==
  /\ phase' = "IDLE" /\ session' = NoSession /\ is_run' = FALSE
  /\ enum_round' = 0 /\ gauge' = NoGauge
  /\ peers' = <<>> /\ meas' = {}
  /\ have_result' = FALSE /\ accepted' = FALSE /\ res' = NoResult
  /\ pair_idx' = 0 /\ pair_total' = 0 /\ pair_retries' = 0
  /\ apply_idx' = 0 /\ apply_retries' = 0 /\ applied' = <<>>
  /\ reopen' = FALSE /\ ending' = FALSE /\ persisted' = FALSE
  /\ awaiting' = FALSE /\ await_from' = GwAddr /\ await_peer' = GwAddr
  /\ tx_fails' = 0 /\ timer' = "due"
  /\ UNCHANGED store

SetGauge(g) ==
  /\ ~Busy
  /\ gauge' = g
  /\ UNCHANGED <<phase, session, is_run, enum_round, tableVars, resultVars,
                 rangeVars, applyVars, awaitVars, store>>

ClearTable == peers' = <<>> /\ meas' = {}

DropResult_KeepsFlag == accepted' = FALSE /\ UNCHANGED have_result
DropResult == accepted' = FALSE /\ have_result' = FALSE

\* What `apos enum' and `apos run' share: a fresh session, an empty table, no
\* result, and every cursor of an earlier run cleared.
BeginEnum(s) ==
  /\ ~Busy
  /\ phase' = "ENUM"
  /\ session' = s
  /\ enum_round' = 0
  /\ ClearTable
  /\ DropResult
  /\ pair_idx' = 0 /\ pair_total' = 0 /\ pair_retries' = 0
  /\ awaiting' = FALSE /\ tx_fails' = 0 /\ timer' = "due"
  /\ UNCHANGED <<gauge, applyVars, await_from, await_peer, store>>

StartEnum(s) == BeginEnum(s) /\ is_run' = FALSE /\ UNCHANGED res

StartRun(s) ==
  /\ gauge # NoGauge
  /\ BeginEnum(s)
  /\ is_run' = TRUE
  /\ res' = NoResult

OpensWindows_Trusts == reopen' = FALSE
OpensWindows == reopen' = TRUE

StartApply(force) ==
  /\ ~Busy
  /\ have_result
  /\ accepted \/ force
  /\ phase' = "APPLY"
  /\ apply_idx' = 0 /\ apply_retries' = 0 /\ applied' = <<>>
  /\ OpensWindows /\ ending' = FALSE /\ persisted' = FALSE
  /\ awaiting' = FALSE /\ tx_fails' = 0 /\ timer' = "due"
  /\ UNCHANGED <<cmdVars, tableVars, resultVars, rangeVars, await_from,
                 await_peer, store>>

-----------------------------------------------------------------------------
(* Received frames: apos_gw_on_rx() *)

EnumAccepts_AnyPhase(s) == Busy /\ s = session
EnumAccepts(s) == phase = "ENUM" /\ s = session

OnEnumRsp(s, b) ==
  /\ EnumAccepts(s)
  /\ b.addr # GwAddr
  /\ IF AddrInUse(peers, b.eui, b.addr)
       THEN phase' = "IDLE" /\ UNCHANGED peers
       ELSE /\ ~NoSpace(peers, b.eui)
            /\ peers' = AddPeer(peers, b.eui, b.addr)
            /\ UNCHANGED phase
  /\ UNCHANGED <<cmdVars, meas, resultVars, rangeVars, applyVars, awaitVars,
                 store>>

RangeAccepts_AnyPeer(s, src, peer) ==
  /\ s = session /\ awaiting /\ phase = "RANGE"
  /\ src = await_from

RangeAccepts(s, src, peer) ==
  /\ s = session /\ awaiting /\ phase = "RANGE"
  /\ src = await_from /\ peer = await_peer

\* `usable': enough exchanges were kept and their mean is positive.  A batch
\* that is not leaves a hole; the walk moves on either way.
OnRangeRsp(s, src, peer, usable) ==
  /\ RangeAccepts(s, src, peer)
  /\ meas' = IF usable
               THEN AddMeas(peers, meas, FindAddr(peers, await_from),
                            FindAddr(peers, await_peer))
               ELSE meas
  /\ awaiting' = FALSE /\ tx_fails' = 0 /\ timer' = "due"
  /\ pair_retries' = 0
  /\ pair_idx' = pair_idx + 1
  /\ UNCHANGED <<phase, cmdVars, peers, resultVars, pair_total, applyVars,
                 await_from, await_peer, store>>

AckAccepts_AnySource(s, src) ==
  s = session /\ awaiting /\ phase = "APPLY"

AckAccepts_AnyPhase(s, src) == s = session /\ awaiting /\ src = await_from
AckAccepts(s, src) ==
  s = session /\ awaiting /\ phase = "APPLY" /\ src = await_from

\* `ok' is what the anchor says of its own flash write.
OnSetposAck(s, src, ok) ==
  /\ AckAccepts(s, src)
  /\ applied' = Append(applied, IF ok THEN "ok" ELSE "fail")
  /\ apply_idx' = apply_idx + 1
  /\ apply_retries' = 0
  /\ awaiting' = FALSE /\ tx_fails' = 0 /\ timer' = "due"
  /\ UNCHANGED <<phase, cmdVars, tableVars, resultVars, rangeVars, reopen,
                 ending, persisted, await_from, await_peer, store>>

-----------------------------------------------------------------------------
(* apos_gw_step(): one action per return of the three phase handlers *)

\* next_action_ms passes.
TimerFires ==
  /\ timer = "running"
  /\ timer' = "due"
  /\ UNCHANGED <<phase, cmdVars, tableVars, resultVars, rangeVars, applyVars,
                 awaiting, await_from, await_peer, tx_fails, store>>

\* A round counts whether or not its SURVEY_BEGIN left the radio.
EnumSend ==
  /\ phase = "ENUM" /\ timer = "due"
  /\ enum_round < EnumRounds
  /\ enum_round' = enum_round + 1
  /\ timer' = "running"
  /\ UNCHANGED <<phase, session, is_run, gauge, tableVars, resultVars,
                 rangeVars, applyVars, awaiting, await_from, await_peer,
                 tx_fails, store>>

EnumDone ==
  /\ phase = "ENUM" /\ timer = "due"
  /\ enum_round >= EnumRounds
  /\ IF is_run /\ Len(peers) >= MinNodes(gauge)
       THEN /\ phase' = "RANGE"
            /\ pair_total' = Len(peers) * (Len(peers) - 1)
            /\ pair_idx' = 0 /\ pair_retries' = 0
            /\ awaiting' = FALSE /\ tx_fails' = 0 /\ timer' = "due"
       ELSE phase' = "IDLE" /\ UNCHANGED <<rangeVars, awaiting, tx_fails, timer>>
  /\ UNCHANGED <<cmdVars, tableVars, resultVars, applyVars, await_from,
                 await_peer, store>>

RetirePair_SamePair ==
  awaiting' = FALSE /\ pair_retries' = 0 /\ UNCHANGED pair_idx
    /\ tx_fails' = 0

RetirePair_KeepsFails ==
  awaiting' = FALSE /\ pair_retries' = 0 /\ pair_idx' = pair_idx + 1
    /\ tx_fails' = tx_fails + 1

RetirePair ==
  awaiting' = FALSE /\ pair_retries' = 0 /\ pair_idx' = pair_idx + 1
    /\ tx_fails' = 0

RangeTimeout ==
  /\ phase = "RANGE" /\ awaiting /\ timer = "due"
  /\ IF pair_retries < RangeRetries
       THEN /\ pair_retries' = pair_retries + 1
            /\ awaiting' = FALSE
            /\ UNCHANGED <<pair_idx, tx_fails>>
       ELSE RetirePair
  /\ UNCHANGED <<phase, cmdVars, tableVars, resultVars, pair_total, applyVars,
                 await_from, await_peer, timer, store>>


\* A frame that does not leave the radio is tried again on the next step, and
\* counts against TxFailLimit instead of against the retries.
TxGivesUp == tx_fails + 1 >= TxFailLimit

CursorFrom == PairFrom(pair_idx, Len(peers))
CursorTo == PairTo(pair_idx, Len(peers))

RangeCmd(tx) ==
  /\ phase = "RANGE" /\ ~awaiting
  /\ pair_idx < pair_total
  /\ await_from' = peers[CursorFrom].addr
  /\ await_peer' = peers[CursorTo].addr
  /\ \/ /\ tx
        /\ awaiting' = TRUE /\ tx_fails' = 0 /\ timer' = "running"
        /\ UNCHANGED <<pair_idx, pair_retries>>
     \/ /\ ~tx /\ ~TxGivesUp
        /\ tx_fails' = tx_fails + 1
        /\ UNCHANGED <<awaiting, pair_idx, pair_retries, timer>>
     \/ /\ ~tx /\ TxGivesUp
        /\ RetirePair
        /\ UNCHANGED timer
  /\ UNCHANGED <<phase, cmdVars, tableVars, resultVars, pair_total, applyVars,
                 store>>

GaugeResolves == \A k \in DOMAIN gauge : FindAddr(peers, gauge[k]) # NoIndex
GaugeIndices == [k \in DOMAIN gauge |-> FindAddr(peers, gauge[k])]

\* do_solve().  A failed solve leaves have_result FALSE, and nobody reads what
\* it leaves in res.  In 3D the `up' node may also fail to trilaterate.
SolveFails ==
  /\ \/ ~GaugeResolves
     \/ ~GaugeValid(GaugeIndices, Len(peers))
     \/ ~GaugeRanged(meas, GaugeIndices)
     \/ Len(gauge) = 4
  /\ UNCHANGED resultVars

SolveSucceeds(placed, judged) ==
  /\ GaugeResolves
  /\ GaugeValid(GaugeIndices, Len(peers))
  /\ GaugeRanged(meas, GaugeIndices)
  /\ placed \in Placements(meas, GaugeIndices, Len(peers))
  /\ judged => MayAccept(meas, GaugeIndices, Len(peers), placed)
  /\ res' = [n |-> Len(peers), placed |-> placed, origin |-> GaugeIndices[1]]
  /\ have_result' = TRUE
  /\ accepted' = judged

RangeSolve ==
  /\ phase = "RANGE" /\ ~awaiting
  /\ pair_idx >= pair_total
  /\ \/ SolveFails
     \/ \E placed \in SUBSET DOMAIN peers, judged \in BOOLEAN :
          SolveSucceeds(placed, judged)
  /\ phase' = "IDLE"
  /\ UNCHANGED <<cmdVars, tableVars, rangeVars, applyVars, awaitVars, store>>

ApplyTimeout ==
  /\ phase = "APPLY" /\ awaiting /\ timer = "due"
  /\ awaiting' = FALSE
  /\ IF apply_retries < ApplyRetries
       THEN /\ apply_retries' = apply_retries + 1
            /\ UNCHANGED <<apply_idx, applied, tx_fails>>
       ELSE /\ applied' = Append(applied, "fail")
            /\ apply_idx' = apply_idx + 1
            /\ apply_retries' = 0 /\ tx_fails' = 0
  /\ UNCHANGED <<phase, cmdVars, tableVars, resultVars, rangeVars, reopen,
                 ending, persisted, await_from, await_peer, timer, store>>

\* The SURVEY_BEGIN that opens the windows again.  Nothing depends on whether
\* it left the radio.
ApplyReopen ==
  /\ phase = "APPLY" /\ ~awaiting /\ reopen
  /\ reopen' = FALSE
  /\ timer' = "running"
  /\ UNCHANGED <<phase, cmdVars, tableVars, resultVars, rangeVars, apply_idx,
                 apply_retries, applied, ending, persisted, awaiting,
                 await_from, await_peer, tx_fails, store>>

Applying == phase = "APPLY" /\ ~awaiting /\ ~reopen /\ timer = "due"

\* SURVEY_END, sent once whether or not it leaves the radio.
ApplyEnd ==
  /\ Applying /\ ending
  /\ ending' = FALSE
  /\ phase' = "IDLE"
  /\ UNCHANGED <<cmdVars, tableVars, resultVars, rangeVars, apply_idx,
                 apply_retries, applied, reopen, persisted, awaitVars, store>>

\* The loop over unplaced nodes stops after node k.
SkipsTo_Nobody(k) == k = apply_idx

SkipsTo(k) ==
  /\ k \in apply_idx..res.n
  /\ \A j \in (apply_idx + 1)..k : j \notin res.placed
  /\ k < res.n => k + 1 \in res.placed

Skipped(k) == [j \in 1..(k - apply_idx) |-> "skip"]

\* Only unplaced nodes were left, and the beacon is too close to write flash.
ApplySkipOnly ==
  /\ Applying /\ ~ending
  /\ SkipsTo(res.n)
  /\ apply_idx' = res.n
  /\ applied' = applied \o Skipped(res.n)
  /\ UNCHANGED <<phase, cmdVars, tableVars, resultVars, rangeVars,
                 apply_retries, reopen, ending, persisted, awaitVars, store>>

\* persist_survey() resolves the gauge of now, not the one of the solve.
CurrentOrigin == FindAddr(peers, gauge[1])

MayPersist_AnyOrigin == GaugeResolves

MayPersist == GaugeResolves /\ CurrentOrigin \in res.placed

ApplyPersist(saved) ==
  /\ Applying /\ ~ending
  /\ SkipsTo(res.n)
  /\ apply_idx' = res.n
  /\ applied' = applied \o Skipped(res.n)
  /\ saved => MayPersist
  /\ persisted' = saved
  /\ store' = IF saved
                THEN [valid |-> TRUE,
                      first |-> peers[CurrentOrigin],
                      nodes |-> {peers[k] : k \in res.placed},
                      zero |-> peers[res.origin],
                      solved |-> session]
                ELSE store
  /\ ending' = TRUE
  /\ UNCHANGED <<phase, cmdVars, tableVars, resultVars, rangeVars,
                 apply_retries, reopen, awaitVars>>

\* The skip loop, then one SETPOS.
ApplyCmd(k, tx) ==
  /\ Applying /\ ~ending
  /\ SkipsTo(k) /\ k < res.n
  /\ await_from' = peers[k + 1].addr
  /\ \/ /\ tx
        /\ awaiting' = TRUE /\ tx_fails' = 0 /\ timer' = "running"
        /\ apply_idx' = k
        /\ applied' = applied \o Skipped(k)
        /\ UNCHANGED apply_retries
     \/ /\ ~tx /\ ~TxGivesUp
        /\ tx_fails' = tx_fails + 1
        /\ apply_idx' = k
        /\ applied' = applied \o Skipped(k)
        /\ UNCHANGED <<awaiting, timer, apply_retries>>
     \/ /\ ~tx /\ TxGivesUp
        /\ tx_fails' = 0
        /\ apply_idx' = k + 1
        /\ applied' = (applied \o Skipped(k)) \o <<"fail">>
        /\ apply_retries' = 0
        /\ UNCHANGED <<awaiting, timer>>
  /\ UNCHANGED <<phase, cmdVars, tableVars, resultVars, rangeVars, reopen,
                 ending, persisted, await_peer, store>>

-----------------------------------------------------------------------------

Command ==
  \/ \E g \in Gauge : SetGauge(g)
  \/ \E s \in Session : StartEnum(s) \/ StartRun(s)
  \/ \E force \in BOOLEAN : StartApply(force)

Receive ==
  \/ \E s \in Session, b \in Board : OnEnumRsp(s, b)
  \/ \E s \in Session, src, peer \in Addr, usable \in BOOLEAN :
       OnRangeRsp(s, src, peer, usable)
  \/ \E s \in Session, src \in Addr, ok \in BOOLEAN : OnSetposAck(s, src, ok)

Step ==
  \/ EnumSend \/ EnumDone
  \/ RangeTimeout \/ RangeSolve
  \/ \E tx \in BOOLEAN : RangeCmd(tx)
  \/ ApplyTimeout \/ ApplyReopen \/ ApplySkipOnly \/ ApplyEnd
  \/ \E saved \in BOOLEAN : ApplyPersist(saved)
  \/ \E k \in 0..MaxNodes, tx \in BOOLEAN : ApplyCmd(k, tx)

Next == Command \/ Receive \/ Step \/ TimerFires \/ Reboot

\* The gateway loop calls apos_gw_step() once or more in every superframe, the
\* first time with enough of it left for any step; the clock runs.  Nothing is
\* assumed of the anchors or of the radio.
Fairness == WF_vars(Step) /\ WF_vars(TimerFires)

Spec == Init /\ [][Next]_vars /\ Fairness

-----------------------------------------------------------------------------
(* What the gateway promises *)

\* No two rows of the table share a board or an address, also after boards
\* answered twice, moved to another address or claimed a neighbour's: peers
\* are commanded by address and told apart by identity.
PeersDistinct ==
  \A i, j \in DOMAIN peers :
    i # j => peers[i].eui # peers[j].eui /\ peers[i].addr # peers[j].addr

\* What an answer is matched against is what the cursor points at.  In RANGE a
\* cursor that has moved, or a table that has grown, since the command went
\* out would file a measurement under the wrong pair; in APPLY it would credit
\* the wrong anchor.  And nobody is sent coordinates the solve did not find.
AwaitIsAtCursor ==
  awaiting =>
    \/ /\ phase = "RANGE" /\ pair_idx < pair_total
       /\ await_from = peers[CursorFrom].addr
       /\ await_peer = peers[CursorTo].addr
    \/ /\ phase = "APPLY" /\ apply_idx < res.n
       /\ await_from = peers[apply_idx + 1].addr
       /\ apply_idx + 1 \in res.placed

\* Every measurement is of a pair the walk has already left, of this table:
\* none survives from an earlier run, none is filed ahead of its command.
MeasBehindCursor ==
  meas \subseteq {<<PairFrom(k, Len(peers)), PairTo(k, Len(peers))>> :
                    k \in 0..(pair_idx - 1)}

\* The cursor tells what is outstanding from what is measured: a board that joins
\* late, measurements that outlive their run, or a cursor that moves before the
\* answer would break one or the other (on_enum_rsp, start_run, retire_pair).
CursorIsTrue == AwaitIsAtCursor /\ MeasBehindCursor

\* The walk commands every ordered pair of the table, and no board against
\* itself.
WalkCoversPairs ==
  phase = "RANGE" =>
    {<<PairFrom(k, Len(peers)), PairTo(k, Len(peers))>> :
       k \in 0..(pair_total - 1)}
    = {p \in (DOMAIN peers) \X (DOMAIN peers) : p[1] # p[2]}

\* The result an operator may apply belongs to the table it will be applied
\* through: its node k is peer k, and every pair of that table was walked.
ResultMatchesTable ==
  have_result =>
    /\ res.n = Len(peers)
    /\ res.origin \in res.placed /\ res.placed \subseteq DOMAIN peers
    /\ pair_idx = Len(peers) * (Len(peers) - 1)
    /\ accepted => res.placed = DOMAIN peers

\* The three counters of the final report cover the nodes exactly once each:
\* the skipped ones are the unplaced ones, and the report is not made before
\* the last node is accounted for.
ApplyAccounting ==
  phase = "APPLY" =>
    /\ have_result
    /\ Len(applied) = apply_idx /\ apply_idx <= res.n
    /\ \A k \in DOMAIN applied : applied[k] = "skip" <=> k \notin res.placed
    /\ ending => apply_idx = res.n

\* What is on the gateway's flash can be published: the anchor it lists first
\* and the one its coordinates put at (0, 0, 0) are both among its nodes, and
\* no two of these share an address.
StoreUsable ==
  store.valid =>
    /\ store.first \in store.nodes /\ store.zero \in store.nodes
    /\ \A p, q \in store.nodes :
         p # q => p.addr # q.addr /\ p.eui # q.eui

\* What the other parts rely on to be inductive.
PhaseFacts ==
  /\ phase = "ENUM" => meas = {} /\ pair_idx = 0 /\ ~have_result
  /\ phase = "RANGE" =>
       /\ Len(peers) >= 2 /\ ~have_result
       /\ pair_total = Len(peers) * (Len(peers) - 1)
       /\ pair_idx <= pair_total
  /\ have_result \/ phase = "RANGE" \/ (phase = "ENUM" /\ is_run) =>
       gauge # NoGauge
  /\ have_result \/ phase # "IDLE" => session # NoSession

\* Inductive.
IInv ==
  /\ TypeOK /\ PhaseFacts
  /\ PeersDistinct /\ AwaitIsAtCursor /\ MeasBehindCursor
  /\ ResultMatchesTable /\ ApplyAccounting /\ StoreUsable

\* The anchor listed first on the gateway's flash is the gauge origin of the
\* survey's coordinates, the one at (0, 0, 0): the geographic reference of the
\* published map belongs to it.
StoreOriginFirst == store.valid => store.first = store.zero

\* A command that is out is answered, retried or given up: no other frame, and
\* no other step, makes the walk forget that it is waiting.
OutstandingRangeIsSettled ==
  [][phase = "RANGE" /\ awaiting /\ phase' = "RANGE" /\ ~awaiting' =>
       \/ pair_idx' = pair_idx + 1
       \/ pair_idx' = pair_idx /\ pair_retries' = pair_retries + 1]_vars

\* Whatever the anchors and the radio do, a survey ends: every command that is
\* refused while one is busy will be possible again.
SurveyEnds == Busy ~> ~Busy
=============================================================================

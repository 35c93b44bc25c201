----------------------------- MODULE AposSurvey -----------------------------
(***************************************************************************)
(* The survey end to end: the gateway (AposGw), every anchor (AposNode)    *)
(* and the air between them.  A transmission is over before the next step, *)
(* so what can be late is only a reply an anchor still owes, and what can  *)
(* come twice is one it sends again.  The air loses what it likes, and a   *)
(* transmission that reported a failure may have been heard all the same.  *)
(*                                                                         *)
(* `reliable' behaviours are the ones the timeouts were chosen for: frames *)
(* arrive, flash writes work, nobody loses power, answers come before      *)
(* their timeout, and windows outlast a phase, if not the pause before     *)
(* `apos apply'.                                                           *)
(***************************************************************************)
EXTENDS AposGw

VARIABLES win, expired, ram, nvs, out, reliable, measured

Node == INSTANCE AposNode WITH Anchor <- Addr

nodeVars == <<win, expired, ram, nvs, out>>
surveyVars == <<vars, nodeVars, reliable, measured>>

\* measured: the batches that were run and usable, as <<session, from, to>>.
\* A history, read by no action.

\* Every anchor is a board: its address belongs to some EUI.
ASSUME SurveyAssumption == \A a \in Addr : \E b \in Board : b.addr = a

SurveyInit ==
  /\ Init /\ Node!Init
  /\ reliable \in BOOLEAN
  /\ measured = {}

BoardAt(a) == CHOOSE b \in Board : b.addr = a

Listeners == {a \in Addr : out[a] = Node!NoReply}

\* Which anchors hear a broadcast.
Hears(H) == H \subseteq Listeners /\ (reliable => H = Listeners)

SendBegin == \E H \in SUBSET Addr : Hears(H) /\ Node!OnSurveyBegin(H, session)
SendEnd == \E H \in SUBSET Addr : Hears(H) /\ Node!OnSurveyEnd(H, session)

Unheard == ~reliable /\ UNCHANGED <<nodeVars, measured>>

SendRangeCmd(a, peer) ==
  \/ \E usable \in BOOLEAN :
       /\ Node!OnRangeCmd(a, session, peer, usable)
       /\ reliable => (usable <=> Node!AnswersPolls(peer))
       /\ measured' = IF usable THEN measured \cup {<<session, a, peer>>}
                                ELSE measured
  \/ Node!OnRangeCmdRefused(a, session) /\ UNCHANGED measured
  \/ Unheard

SendSetpos(a) ==
  /\ UNCHANGED measured
  /\ \/ \E ok \in BOOLEAN : Node!OnSetpos(a, session, ok) /\ (reliable => ok)
     \/ Node!OnSetposRefused(a, session)
     \/ Unheard

\* What a frame of anchor a does at the gateway, which may be nothing.
GatewayHears(a, f) ==
  CASE f.kind = "enum" ->
         LET b == BoardAt(a)
             taken == AddrInUse(peers, b.eui, b.addr) \/ ~NoSpace(peers, b.eui)
         IN  IF EnumAccepts(f.session) /\ taken THEN OnEnumRsp(f.session, b)
                                                ELSE UNCHANGED vars
    [] f.kind = "range" ->
         IF RangeAccepts(f.session, a, f.peer)
           THEN OnRangeRsp(f.session, a, f.peer, f.usable)
           ELSE UNCHANGED vars
    [] f.kind = "ack" ->
         IF AckAccepts(f.session, a) THEN OnSetposAck(f.session, a, f.ok)
                                     ELSE UNCHANGED vars

-----------------------------------------------------------------------------

GatewayCommand == Command /\ UNCHANGED <<nodeVars, reliable, measured>>

GatewayReboot ==
  ~reliable /\ Reboot /\ UNCHANGED <<nodeVars, reliable, measured>>

\* In a reliable behaviour answers come before the timeout.
GatewayTimer ==
  /\ reliable => Listeners = Addr
  /\ TimerFires
  /\ UNCHANGED <<nodeVars, reliable, measured>>

\* The steps that put nothing on the air.
GatewayQuiet ==
  /\ \/ EnumDone \/ RangeTimeout \/ RangeSolve \/ ApplyTimeout \/ ApplySkipOnly
     \/ \E saved \in BOOLEAN : /\ ApplyPersist(saved)
                               /\ reliable => (saved <=> MayPersist)
  /\ UNCHANGED <<nodeVars, reliable, measured>>

GatewayBegin ==
  /\ EnumSend \/ ApplyReopen
  /\ SendBegin
  /\ UNCHANGED <<reliable, measured>>

GatewayEnd == ApplyEnd /\ SendEnd /\ UNCHANGED <<reliable, measured>>

GatewayRange ==
  /\ \E tx \in BOOLEAN : RangeCmd(tx) /\ (reliable => tx)
  /\ SendRangeCmd(await_from', await_peer')
  /\ UNCHANGED reliable

GatewaySetpos ==
  /\ \E k \in 0..MaxNodes, tx \in BOOLEAN : ApplyCmd(k, tx) /\ (reliable => tx)
  /\ SendSetpos(await_from')
  /\ UNCHANGED reliable

NodeReply(a) ==
  /\ \E again \in BOOLEAN : Node!SendReply(a, again) /\ (reliable => ~again)
  /\ \/ GatewayHears(a, out[a])
     \/ ~reliable /\ UNCHANGED vars
  /\ UNCHANGED <<reliable, measured>>

NodeClock(a) ==
  /\ reliable => ~Busy
  /\ Node!Lapse(a) \/ Node!QueryWindow(a)
  /\ UNCHANGED <<vars, reliable, measured>>

NodeReboot(a) ==
  ~reliable /\ Node!Reboot(a) /\ UNCHANGED <<vars, reliable, measured>>

SurveyNext ==
  \/ GatewayCommand \/ GatewayReboot \/ GatewayTimer \/ GatewayQuiet
  \/ GatewayBegin \/ GatewayEnd \/ GatewayRange \/ GatewaySetpos
  \/ \E a \in Addr : NodeReply(a) \/ NodeClock(a) \/ NodeReboot(a)

SurveySpec == SurveyInit /\ [][SurveyNext]_surveyVars

-----------------------------------------------------------------------------

\* An anchor the gateway counts as done has this survey's coordinates on its
\* flash: no late, repeated or foreign acknowledgement is taken for its own.
OkIsOnFlash ==
  phase = "APPLY" =>
    \A k \in DOMAIN applied : applied[k] = "ok" => nvs[peers[k].addr] = session

\* Every measurement of the mesh comes from a batch that this board ran against
\* that peer in this session: no answer is filed under another pair.
RangeIsReal ==
  \A p \in meas :
    <<session, peers[p[1]].addr, peers[p[2]].addr>> \in measured

\* When nothing goes wrong, nothing is missing: every pair walked is measured,
\* and every anchor takes its coordinates, however long the operator waited
\* before applying them.
ReliableIsComplete ==
  reliable =>
    /\ phase = "RANGE" =>
         \A k \in 0..(pair_idx - 1) :
           <<PairFrom(k, Len(peers)), PairTo(k, Len(peers))>> \in meas
    /\ phase = "APPLY" => \A k \in DOMAIN applied : applied[k] # "fail"

\* An apply that is reported clean - nobody failed, nobody skipped, persisted -
\* leaves gateway and anchors with one survey.
CleanApplyAgrees ==
  phase = "APPLY" /\ ending /\ persisted
      /\ (\A k \in DOMAIN applied : applied[k] = "ok") =>
    \A k \in DOMAIN peers :
      /\ nvs[peers[k].addr] = store.solved
      /\ peers[k] \in store.nodes

\* An anchor counted as failed "is still on its OLD coordinates".
FailIsOld ==
  phase = "APPLY" =>
    \A k \in DOMAIN applied : applied[k] = "fail" => nvs[peers[k].addr] # session

\* Outside its window an anchor transmits nothing.
SilentOutsideWindow ==
  [][\A a \in Addr :
       out[a] = Node!NoReply /\ out'[a].kind \in {"range", "ack"} =>
         Node!WindowOpen(a)]_surveyVars
=============================================================================

------------------------------ MODULE MCAposGw ------------------------------
(***************************************************************************)
(* A gateway, three boards that answer, one of them also under the address *)
(* of another (it was re-addressed in between, or is misconfigured), and a *)
(* board that claims the gateway's address; a fifth board, that is heard   *)
(* only where the table is full.  A gauge is of three anchors (2D), one of *)
(* them possibly unheard, or of four (3D).  Operators give at most         *)
(* MaxCommands commands, a power cut counting as one; nothing else is      *)
(* bounded.                                                                *)
(***************************************************************************)
EXTENDS AposGw

CONSTANTS e1, e2, e3, e4, e5, a1, a2, a3, a4, a5, gw, s1, s2, none, MaxCommands

MCEui == {e1, e2, e3, e4, e5}
MCAddr == {a1, a2, a3, a4, a5}
MCBoard ==
  {[eui |-> e1, addr |-> a1], [eui |-> e2, addr |-> a2],
   [eui |-> e2, addr |-> a3], [eui |-> e3, addr |-> a3],
   [eui |-> e4, addr |-> gw], [eui |-> e5, addr |-> a5]}
MCSession == {s1, s2}
MCGauge == {<<a1, a2, a3>>, <<a2, a3, a4>>, <<a2, a1, a4, a3>>}

VARIABLE commands

mcVars == <<vars, commands>>

\* The gauge has been set, and an enumeration has come back empty.
Ready ==
  /\ phase = "IDLE" /\ session = s1 /\ is_run = FALSE
  /\ enum_round = EnumRounds
  /\ commands = 0
  /\ gauge = <<a1, a2, a3>>
  /\ peers = <<>> /\ meas = {}
  /\ have_result = FALSE /\ accepted = FALSE /\ res = NoResult
  /\ pair_idx = 0 /\ pair_total = 0
  /\ await_from = gw /\ await_peer = gw

FourBoards ==
  <<[eui |-> e1, addr |-> a1], [eui |-> e2, addr |-> a2],
    [eui |-> e3, addr |-> a3], [eui |-> e4, addr |-> a4]>>

\* An enumeration, the last command given, that has filled the table.
Full ==
  /\ phase = "ENUM" /\ session = s1 /\ is_run = FALSE
  /\ enum_round = EnumRounds
  /\ commands = MaxCommands
  /\ gauge = <<a1, a2, a3>>
  /\ peers = FourBoards /\ meas = {}
  /\ have_result = FALSE /\ accepted = FALSE /\ res = NoResult
  /\ pair_idx = 0 /\ pair_total = 0
  /\ await_from = gw /\ await_peer = gw

\* A four-node survey solved with one node left out, as a run with a board
\* out of everybody's range leaves it.
Solved ==
  /\ phase = "IDLE" /\ session = s1 /\ is_run = TRUE
  /\ enum_round = EnumRounds
  /\ gauge \in MCGauge
  /\ commands = 0
  /\ peers = FourBoards
  /\ meas = {p \in (1..4) \X (1..4) :
               p[1] # p[2] /\ \A i \in {1, 2} : p[i] \in GaugeNodes(GaugeIndices)}
  /\ have_result = TRUE /\ accepted = FALSE
  /\ res = [n |-> 4, placed |-> GaugeNodes(GaugeIndices),
            origin |-> GaugeIndices[1]]
  /\ pair_idx = 12 /\ pair_total = 12
  /\ await_from = a4 /\ await_peer = a3

MCInit ==
  /\ Ready \/ Full \/ Solved
  /\ pair_retries = 0 /\ awaiting = FALSE /\ tx_fails = 0 /\ timer = "due"
  /\ apply_idx = 0 /\ apply_retries = 0 /\ applied = <<>>
  /\ reopen = FALSE /\ ending = FALSE /\ persisted = FALSE
  /\ store = NoSurvey

FifthOnFull ==
  \A k \in DOMAIN peers' : peers'[k].eui = e5 => Len(peers) >= MaxNodes

MCNext ==
  \/ /\ \/ Command /\ (session' = s2 \/ UNCHANGED session)
        \/ Reboot
     /\ commands < MaxCommands
     /\ commands' = commands + 1
  \/ /\ Receive \/ Step \/ TimerFires
     /\ FifthOnFull
     /\ UNCHANGED commands

MCSpec == MCInit /\ [][MCNext]_mcVars /\ Fairness
=============================================================================

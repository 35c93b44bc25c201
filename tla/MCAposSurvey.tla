---------------------------- MODULE MCAposSurvey ----------------------------
(***************************************************************************)
(* A gateway and three anchors.  A reliable behaviour starts at boot; a    *)
(* lossy one starts in the middle of a run, at the last pair of the second *)
(* anchor, or where a run has been solved and waits to be applied.  Each   *)
(* start leaves a number of operator's commands and of faults to come: a   *)
(* fault is a power cut or, in a lossy behaviour, a window that lapses.    *)
(***************************************************************************)
EXTENDS AposSurvey

CONSTANTS e1, e2, e3, a1, a2, a3, gw, s1, s2, none,
  Commands, Applies, Faults

MCEui == {e1, e2, e3}
MCAddr == {a1, a2, a3}
MCBoard ==
  {[eui |-> e1, addr |-> a1], [eui |-> e2, addr |-> a2], [eui |-> e3, addr |-> a3]}
MCSession == {s1, s2}
MCGauge == {<<a1, a2, a3>>}

VARIABLES commands, faults

mcVars == <<surveyVars, commands, faults>>

ThreeAnchors ==
  <<[eui |-> e1, addr |-> a1], [eui |-> e2, addr |-> a2], [eui |-> e3, addr |-> a3]>>

AllPairs == {p \in (1..3) \X (1..3) : p[1] # p[2]}

Boot ==
  /\ commands = Commands /\ faults = 0
  /\ reliable = TRUE
  /\ SurveyInit

Walked == {<<1, 2>>, <<1, 3>>, <<2, 1>>}

Batches(m) ==
  {<<s1, ThreeAnchors[p[1]].addr, ThreeAnchors[p[2]].addr>> : p \in m}

Ranging ==
  /\ commands = 0 /\ faults = Faults
  /\ phase = "RANGE" /\ session = s1
  /\ meas = Walked /\ measured = Batches(Walked)
  /\ have_result = FALSE /\ res = NoResult
  /\ pair_idx = 3
  /\ await_from = a2 /\ await_peer = a1

\* A run has ended, and applying it has not begun.
Solved ==
  /\ commands = Applies /\ faults = Faults
  /\ phase = "IDLE" /\ session = s1
  /\ meas = AllPairs
  /\ measured = Batches(AllPairs)
  /\ have_result = TRUE
  /\ res = [n |-> 3, placed |-> 1..3, origin |-> 1]
  /\ pair_idx = 6
  /\ await_from = a3 /\ await_peer = a2

Midway ==
  /\ Ranging \/ Solved
  /\ reliable = FALSE
  /\ is_run = TRUE /\ enum_round = EnumRounds
  /\ gauge = <<a1, a2, a3>>
  /\ peers = ThreeAnchors
  /\ accepted = have_result
  /\ pair_total = 6 /\ pair_retries = 0
  /\ apply_idx = 0 /\ apply_retries = 0 /\ applied = <<>>
  /\ reopen = FALSE /\ ending = FALSE /\ persisted = FALSE
  /\ awaiting = FALSE /\ tx_fails = 0 /\ timer = "due"
  /\ win = [a \in Addr |-> s1] /\ expired = [a \in Addr |-> FALSE]
  /\ out = [a \in Addr |-> Node!NoReply]
  /\ ram = [a \in Addr |-> none] /\ nvs = [a \in Addr |-> none]
  /\ store = NoSurvey

MCInit == Boot \/ Midway

MCNext ==
  \/ /\ GatewayCommand
     /\ session' = session \/ (reliable /\ (session = none \/ session' = s2))
     /\ commands > 0 /\ commands' = commands - 1
     /\ UNCHANGED faults
  \/ /\ \/ GatewayReboot
        \/ \E a \in Addr : NodeReboot(a) \/ (~reliable /\ NodeClock(a))
     /\ faults > 0 /\ faults' = faults - 1
     /\ UNCHANGED commands
  \/ /\ \/ GatewayTimer \/ GatewayQuiet
        \/ GatewayBegin \/ GatewayEnd \/ GatewayRange \/ GatewaySetpos
        \/ \E a \in Addr : NodeReply(a) \/ (reliable /\ NodeClock(a))
     /\ UNCHANGED <<commands, faults>>

MCSpec == MCInit /\ [][MCNext]_mcVars
=============================================================================

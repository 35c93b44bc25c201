--------------------------- MODULE SurveyThreads ---------------------------
(***************************************************************************)
(* The gateway's survey as three threads see it, without a lock: the       *)
(* shell's commands assign the survey's variables one by one and its       *)
(* reports read them one by one (apos_gw.c, apos_shell.c); the uplink      *)
(* formats the stored survey field by field (pos_json.c); the loop, which  *)
(* nothing preempts, comes between any two of their statements.            *)
(*                                                                         *)
(* AposGw takes a command as one step.  Here it is a sequence of           *)
(* assignments that the loop may interrupt, in the order of the source.    *)
(* Only the shell starts commands: apos_gw_trigger_from_mqtt() has no      *)
(* caller.  What the frames carry is in AposGw; here a round finds a board *)
(* or none, and a pair is over.                                            *)
(***************************************************************************)
EXTENDS Naturals, Sequences, FiniteSets

CONSTANTS
  Gauges, Spatial,      \* gauges that can be set, and those of them in 3D
  Min2D, Min3D,         \* APOS_MIN_NODES_2D, APOS_MIN_NODES_3D
  MaxNodes,             \* APOS_MAX_NODES
  Rounds,               \* APOS_GW_ENUM_ROUNDS
  Refs,                 \* geographic references that can be set
  MaxSession            \* bound: enumerations and runs that are started

ASSUME ThreadsAssumption ==
  /\ 0 \notin Gauges /\ Spatial \subseteq Gauges
  /\ Min2D \in Nat /\ Min3D \in Nat /\ Min2D >= 1 /\ Min3D >= 1
  /\ MaxNodes \in Nat /\ Rounds \in Nat /\ MaxSession \in Nat

VARIABLES
  mem,      \* the variables that the threads share
  flash,    \* the survey and the reference in flash
  writes,   \* what the shell's command has still to assign
  reads,    \* what it has still to read for its report
  told,     \* what the report was told so far
  saving,   \* the loop has written the survey and not yet its cache
  todo,     \* what the uplink has still to read for the map
  map,      \* the map
  done,     \* what the loop did for the command
  made      \* what the last result was made of

vars == <<mem, flash, writes, reads, told, saving, todo, map, done, made>>

\* gauge_addr is two halves here, of four assignments.  A part of a result or
\* of a survey is the session it comes from, 0 when it is cleared; sessions are
\* drawn at random and taken to be new.
Boot(stored) ==
  [phase |-> "IDLE", session |-> 0, is_run |-> FALSE, enum_round |-> 0,
   peers |-> 0, pair_idx |-> 0, pair_total |-> 0, apply_idx |-> 0,
   apply_ending |-> FALSE, have_result |-> FALSE, accepted |-> FALSE,
   res |-> 0, quality |-> 0, redundancy |-> 0,
   origin |-> 0, up |-> 0,
   node0 |-> stored.survey, node1 |-> stored.survey,
   lat |-> stored.ref, lon |-> stored.ref]

Nothing == [rounds |-> 0, pairs |-> 0, nodes |-> 0]
NoMap == [node0 |-> 0, node1 |-> 0, lat |-> 0, lon |-> 0]

Init ==
  /\ flash = [survey |-> 0, ref |-> 0]
  /\ mem = Boot(flash)
  /\ writes = <<>> /\ reads = <<>> /\ told = {}
  /\ saving = FALSE /\ todo = <<>> /\ map = NoMap
  /\ done = Nothing
  /\ made = [rounds |-> 0, pairs |-> 0, nodes |-> 0, peers |-> 0, origin |-> 0, up |-> 0]

MinNodes(up) == IF up \in Spatial THEN Min3D ELSE Min2D

-----------------------------------------------------------------------------
(***************************************************************************)
(* The shell.                                                              *)
(***************************************************************************)

Busy == mem.phase # "IDLE"

\* Every command but `apos show' is refused while a survey runs.
Ready == writes = <<>> /\ reads = <<>>
Command == Ready /\ ~Busy

EnumWrites ==
  << <<"peers", 0>>, <<"have_result", FALSE>>, <<"session", mem.session + 1>>,
     <<"enum_round", 0>>, <<"is_run", FALSE>>, <<"pair_idx", 0>>, <<"pair_total", 0>>,
     <<"accepted", FALSE>>, <<"redundancy", 0>>, <<"phase", "ENUM">> >>

RunWrites_PhaseFirst ==
  << <<"peers", 0>>, <<"res", 0>>, <<"have_result", FALSE>>, <<"accepted", FALSE>>,
     <<"redundancy", 0>>, <<"session", mem.session + 1>>, <<"phase", "ENUM">>,
     <<"enum_round", 0>>, <<"pair_idx", 0>>, <<"pair_total", 0>>, <<"is_run", TRUE>> >>

RunWrites_KeepsFlag ==
  << <<"peers", 0>>, <<"res", 0>>, <<"accepted", FALSE>>,
     <<"redundancy", 0>>, <<"session", mem.session + 1>>, <<"enum_round", 0>>,
     <<"pair_idx", 0>>, <<"pair_total", 0>>, <<"is_run", TRUE>>, <<"phase", "ENUM">> >>

RunWrites ==
  << <<"peers", 0>>, <<"res", 0>>, <<"have_result", FALSE>>, <<"accepted", FALSE>>,
     <<"redundancy", 0>>, <<"session", mem.session + 1>>, <<"enum_round", 0>>,
     <<"pair_idx", 0>>, <<"pair_total", 0>>, <<"is_run", TRUE>>, <<"phase", "ENUM">> >>

ApplyWrites ==
  << <<"apply_idx", 0>>, <<"apply_ending", FALSE>>, <<"phase", "APPLY">> >>

\* A command begins: it will assign ws, then read rs for its report.
Begin(ws, rs) ==
  /\ writes' = ws /\ reads' = rs /\ told' = {}
  /\ UNCHANGED <<mem, saving, todo, map, made>>

SetGauge(g) ==
  /\ Command
  /\ Begin(<< <<"origin", g>>, <<"up", g>> >>, <<>>) /\ UNCHANGED <<flash, done>>

StartEnum ==
  /\ Command /\ mem.session < MaxSession
  /\ Begin(EnumWrites, <<>>) /\ done' = Nothing /\ UNCHANGED flash

StartRun ==
  /\ Command /\ mem.session < MaxSession
  /\ mem.origin # 0
  /\ Begin(RunWrites, <<>>) /\ done' = Nothing /\ UNCHANGED flash

\* The caveat for an unverified mesh is read after the command was given.
StartApply(force) ==
  /\ Command /\ mem.have_result
  /\ IF mem.accepted \/ force
     THEN Begin(ApplyWrites, <<"redundancy", "quality", "redundancy">>) /\ done' = Nothing
     ELSE Begin(<<>>, <<"res", "res">>) /\ UNCHANGED done
  /\ UNCHANGED flash

\* The status is copied first; it says whether there is a result to report.
Show ==
  /\ Ready
  /\ Begin(<<>>, IF mem.have_result THEN <<"quality", "redundancy", "redundancy">> ELSE <<>>)
  /\ UNCHANGED <<flash, done>>

\* apos_store_set_ref(): the cache only if the flash took it.
SetRef(r, written) ==
  /\ Command
  /\ flash' = IF written THEN [flash EXCEPT !.ref = r] ELSE flash
  /\ Begin(IF written THEN << <<"lat", r>>, <<"lon", r>> >> ELSE <<>>, <<>>)
  /\ UNCHANGED done

Assign ==
  /\ writes # <<>>
  /\ mem' = [mem EXCEPT ![Head(writes)[1]] = Head(writes)[2]]
  /\ writes' = Tail(writes)
  /\ UNCHANGED <<flash, reads, told, saving, todo, map, done, made>>

Read ==
  /\ writes = <<>> /\ reads # <<>>
  /\ told' = told \union {mem[Head(reads)]}
  /\ reads' = Tail(reads)
  /\ UNCHANGED <<mem, flash, writes, saving, todo, map, done, made>>

Shell ==
  \/ \E g \in Gauges : SetGauge(g)
  \/ StartEnum \/ StartRun \/ Show
  \/ \E force \in BOOLEAN : StartApply(force)
  \/ \E r \in Refs, written \in BOOLEAN : SetRef(r, written)
  \/ Assign \/ Read

-----------------------------------------------------------------------------
(***************************************************************************)
(* The loop: one step of the survey at a time.                             *)
(***************************************************************************)

shellVars == <<writes, reads, told>>
uplinkVars == <<todo, map>>

InPhase(p) == mem.phase = p /\ ~saving /\ UNCHANGED <<shellVars, uplinkVars>>

EnumRound(found) ==
  /\ InPhase("ENUM") /\ mem.enum_round < Rounds
  /\ mem.peers + found <= MaxNodes
  /\ mem' = [mem EXCEPT !.enum_round = @ + 1, !.peers = @ + found]
  /\ done' = [done EXCEPT !.rounds = @ + 1]
  /\ UNCHANGED <<flash, saving, made>>

EnumEnds ==
  /\ InPhase("ENUM") /\ mem.enum_round >= Rounds
  /\ mem' = IF mem.is_run /\ mem.peers >= MinNodes(mem.up)
            THEN [mem EXCEPT !.phase = "RANGE", !.pair_idx = 0,
                             !.pair_total = mem.peers * (mem.peers - 1)]
            ELSE [mem EXCEPT !.phase = "IDLE"]
  /\ UNCHANGED <<flash, saving, done, made>>

PairIsOver ==
  /\ InPhase("RANGE") /\ mem.pair_idx < mem.pair_total
  /\ mem' = [mem EXCEPT !.pair_idx = @ + 1]
  /\ done' = [done EXCEPT !.pairs = @ + 1]
  /\ UNCHANGED <<flash, saving, made>>

\* do_solve() leaves the quality figures even if it fails.
SolveFails ==
  /\ InPhase("RANGE") /\ mem.pair_idx >= mem.pair_total
  /\ \E q \in {mem.quality, mem.session}, r \in {mem.res, mem.session} :
       mem' = [mem EXCEPT !.phase = "IDLE", !.quality = q, !.res = r]
  /\ UNCHANGED <<flash, saving, done, made>>

Solve(verdict) ==
  /\ InPhase("RANGE") /\ mem.pair_idx >= mem.pair_total
  /\ mem' = [mem EXCEPT !.phase = "IDLE", !.have_result = TRUE, !.accepted = verdict,
                        !.res = mem.session, !.quality = mem.session,
                        !.redundancy = mem.session]
  /\ made' = [rounds |-> done.rounds, pairs |-> done.pairs, nodes |-> 0,
              peers |-> mem.peers, origin |-> mem.origin, up |-> mem.up]
  /\ UNCHANGED <<flash, saving, done>>

\* The result has as many nodes as the table had when it was solved.
ApplyNode ==
  /\ InPhase("APPLY") /\ ~mem.apply_ending /\ mem.apply_idx < made.peers
  /\ mem' = [mem EXCEPT !.apply_idx = @ + 1]
  /\ done' = [done EXCEPT !.nodes = @ + 1]
  /\ UNCHANGED <<flash, saving, made>>

ReachesCache_EvenFailed(written) == TRUE

\* The cache is updated only after the write succeeded.
ReachesCache(written) == written

\* persist_survey(), which may also refuse.
Persist(written) ==
  /\ InPhase("APPLY") /\ ~mem.apply_ending /\ mem.apply_idx >= made.peers
  /\ flash' = IF written THEN [flash EXCEPT !.survey = mem.res] ELSE flash
  /\ saving' = ReachesCache(written)
  /\ mem' = [mem EXCEPT !.apply_ending = TRUE]
  /\ made' = [made EXCEPT !.nodes = done.nodes]
  /\ UNCHANGED done

CacheSurvey ==
  /\ saving /\ saving' = FALSE
  /\ mem' = [mem EXCEPT !.node0 = mem.res, !.node1 = mem.res]
  /\ UNCHANGED <<flash, shellVars, uplinkVars, done, made>>

ApplyEnds ==
  /\ InPhase("APPLY") /\ mem.apply_ending
  /\ mem' = [mem EXCEPT !.phase = "IDLE", !.apply_ending = FALSE]
  /\ UNCHANGED <<flash, saving, done, made>>

Loop ==
  \/ \E found \in 0..MaxNodes : EnumRound(found)
  \/ EnumEnds \/ PairIsOver \/ SolveFails
  \/ \E verdict \in BOOLEAN : Solve(verdict)
  \/ ApplyNode
  \/ \E written \in BOOLEAN : Persist(written)
  \/ CacheSurvey \/ ApplyEnds

-----------------------------------------------------------------------------
(***************************************************************************)
(* The uplink formats the map when it has connected.                       *)
(***************************************************************************)

\* Without a survey the map is a stub.
FormatMap ==
  /\ todo = <<>> /\ mem.node0 # 0
  /\ todo' = <<"lat", "lon", "node0", "node1">> /\ map' = NoMap
  /\ UNCHANGED <<mem, flash, shellVars, saving, done, made>>

FormatField ==
  /\ todo # <<>>
  /\ map' = [map EXCEPT ![Head(todo)] = mem[Head(todo)]]
  /\ todo' = Tail(todo)
  /\ UNCHANGED <<mem, flash, shellVars, saving, done, made>>

Uplink == FormatMap \/ FormatField

Reboot ==
  /\ mem' = [Boot(flash) EXCEPT !.session = mem.session]
  /\ writes' = <<>> /\ reads' = <<>> /\ told' = {}
  /\ saving' = FALSE /\ todo' = <<>> /\ map' = NoMap
  /\ done' = Nothing
  /\ UNCHANGED <<flash, made>>

Next == Shell \/ Loop \/ Uplink \/ Reboot

Spec == Init /\ [][Next]_vars

-----------------------------------------------------------------------------
(***************************************************************************)
(* Properties.                                                             *)
(***************************************************************************)

\* The loop never works on half a command: a result rests on all the rounds
\* and all the ordered pairs of its own run, and on one gauge, the one that
\* said how many boards are enough; an apply visits every node (the order of
\* the assignments in apos_gw_start_run(), with the phase as the last).
CommandIsWhole ==
  /\ mem.have_result =>
       /\ made.rounds = Rounds
       /\ made.pairs = made.peers * (made.peers - 1)
       /\ made.origin = made.up /\ made.peers >= MinNodes(made.up)
  /\ mem.phase = "APPLY" /\ mem.apply_ending => made.nodes = made.peers

\* What `apos show' and `apos apply' report of a result is of one result, and
\* not of one half-built or cleared: "it sees the previous one or the next one"
\* (apos_gw.c:379-380), and for as long as it reads.
ReportIsOfOneResult == 0 \notin told /\ Cardinality(told) <= 1

\* A thread that reads the stored survey reads what is on flash, but for the
\* moment between a write and its copy: "a failed save leaves apos_store_get()
\* reporting what is actually on flash" (apos_store.c:156-157).
StoreTellsFlash ==
  /\ ~saving => mem.node0 = flash.survey /\ mem.node1 = flash.survey
  /\ writes = <<>> => mem.lat = flash.ref /\ mem.lon = flash.ref

\* The map is "the surveyed geometry if one has been applied" (net_uplink.c:448),
\* so all of one survey.
MapIsOneSurvey == todo = <<>> => map.node0 = map.node1
=============================================================================

-------------------------- MODULE SurveyThreadsProofs --------------------------
(***************************************************************************)
(* The survey's variables, shared without a lock, for any number of boards *)
(* and rounds, any gauges and any references.                              *)
(*                                                                         *)
(* A thread that is stopped between two statements leaves the variables    *)
(* half assigned, so what holds of them holds of what they are or will be  *)
(* when the command has made its assignments (Will): it survives the first *)
(* assignment as it survives the last, and says what a variable is once    *)
(* there is nothing left to assign.  The loop rests until then, since the  *)
(* phase comes last (CommandFirst), and finds its cursors prepared; its    *)
(* own steps are judged by the simpler Settled.                            *)
(***************************************************************************)
EXTENDS SurveyThreads, FiniteSetTheorems, TLAPS

\* The shared variables, and those of them that count.
Fields ==
  {"phase", "session", "is_run", "enum_round", "peers", "pair_idx", "pair_total",
   "apply_idx", "apply_ending", "have_result", "accepted", "res", "quality",
   "redundancy", "origin", "up", "node0", "node1", "lat", "lon"}

Counters == {"session", "enum_round", "peers", "pair_idx", "apply_idx"}

Values == Nat \cup BOOLEAN \cup {"ENUM", "APPLY"} \cup Gauges \cup Refs

\* What a command has still to assign: its phase, if it sets one, at the end,
\* and nothing of the stored survey.
WritesOK ==
  /\ writes \in Seq(Fields \X Values)
  /\ \A i \in DOMAIN writes :
       /\ writes[i][1] \notin {"node0", "node1"}
       /\ writes[i][1] \in Counters => writes[i][2] \in Nat
       /\ writes[i][1] = "phase" => i = Len(writes) /\ writes[i][2] \in {"ENUM", "APPLY"}

MemOK ==
  /\ DOMAIN mem = Fields /\ \A f \in Counters : mem[f] \in Nat
  /\ DOMAIN flash = {"survey", "ref"} /\ DOMAIN done = {"rounds", "pairs", "nodes"}
  /\ DOMAIN made = {"rounds", "pairs", "nodes", "peers", "origin", "up"}
  /\ made.peers \in Nat

\* Variable f is v, or will be when the command has made its assignments.
Will(f, v) ==
  /\ \A i \in DOMAIN writes : writes[i][1] = f => writes[i][2] = v
  /\ mem[f] = v \/ \E i \in DOMAIN writes : writes[i][1] = f

\* The command in progress starts phase p.
Starts(p) == \E i \in DOMAIN writes : writes[i][1] = "phase" /\ writes[i][2] = p

\* The result is about to be dropped.
Drops == \E i \in DOMAIN writes : writes[i][1] = "have_result"

\* The loop rests while a command assigns, and finds its phase prepared.
CommandFirst ==
  /\ writes # <<>> => mem.phase = "IDLE"
  /\ Starts("ENUM") =>
       /\ done = Nothing /\ Will("enum_round", 0) /\ Will("have_result", FALSE)
       /\ \E s \in Nat \ {0} : Will("session", s)
  /\ Starts("APPLY") =>
       done = Nothing /\ Will("apply_idx", 0) /\ Will("apply_ending", FALSE)

OneGauge == \E g : Will("origin", g) /\ Will("up", g)

CacheTellsFlash ==
  /\ Will("lat", flash.ref) /\ Will("lon", flash.ref)
  /\ IF saving THEN mem.phase = "APPLY" /\ flash.survey = mem.res
               ELSE Will("node0", flash.survey) /\ Will("node1", flash.survey)

\* What the loop did is what its cursors say.
LoopIsTrue ==
  /\ mem.phase = "ENUM" =>
       /\ ~mem.have_result /\ mem.session # 0
       /\ done.rounds = mem.enum_round /\ mem.enum_round <= Rounds /\ done.pairs = 0
  /\ mem.phase = "RANGE" =>
       /\ ~mem.have_result /\ mem.session # 0
       /\ done.rounds = Rounds
       /\ mem.pair_total = mem.peers * (mem.peers - 1)
       /\ done.pairs = mem.pair_idx /\ mem.pair_idx <= mem.pair_total
       /\ mem.peers >= MinNodes(mem.up)
  /\ mem.phase = "APPLY" =>
       done.nodes = mem.apply_idx /\ mem.apply_idx <= made.peers

\* A result is of one session, also while it is reported.
OneResult ==
  /\ Drops => Will("have_result", FALSE)
  /\ mem.have_result /\ ~Drops =>
       \E s : s # 0 /\ Will("res", s) /\ Will("quality", s) /\ Will("redundancy", s)

ReportIsTrue ==
  /\ reads \in Seq({"res", "quality", "redundancy"})
  /\ reads # <<>> => mem.have_result /\ ~Drops
  /\ \E s : /\ s # 0 /\ told \subseteq {s}
            /\ reads # <<>> =>
                 Will("res", s) /\ Will("quality", s) /\ Will("redundancy", s)

TInv ==
  /\ WritesOK /\ MemOK
  /\ CommandFirst /\ OneGauge /\ CacheTellsFlash
  /\ LoopIsTrue /\ OneResult /\ ReportIsTrue
  /\ CommandIsWhole

-----------------------------------------------------------------------------
(* An assignment *)

\* One assignment takes the first of the list and leaves the other variables.
LEMMA AssignFacts ==
  ASSUME WritesOK, MemOK, Assign
  PROVE  /\ 1 \in DOMAIN writes /\ writes[1][1] \in Fields
         /\ mem'[writes[1][1]] = writes[1][2]
         /\ \A f \in Fields : f # writes[1][1] => mem'[f] = mem[f]
         /\ DOMAIN mem' = Fields
         /\ writes' \in Seq(Fields \X Values) /\ Len(writes) \in Nat
         /\ Len(writes') = Len(writes) - 1
         /\ DOMAIN writes = 1..Len(writes) /\ DOMAIN writes' = 1..Len(writes')
         /\ \A i \in DOMAIN writes' : i + 1 \in DOMAIN writes /\ writes'[i] = writes[i + 1]
<1>1. writes \in Seq(Fields \X Values) /\ writes # <<>> /\ writes' = Tail(writes)
  BY DEF WritesOK, Assign
<1>2. /\ Len(writes) \in Nat \ {0} /\ DOMAIN writes = 1..Len(writes)
      /\ Head(writes) = writes[1]
      /\ writes[1] \in Fields \X Values
  BY <1>1
<1>3. /\ writes' \in Seq(Fields \X Values) /\ Len(writes') = Len(writes) - 1
      /\ DOMAIN writes' = 1..Len(writes')
      /\ \A i \in DOMAIN writes' : i + 1 \in DOMAIN writes /\ writes'[i] = writes[i + 1]
  BY <1>1
<1>4. writes[1][1] \in Fields
  BY <1>2
<1>5. mem' = [mem EXCEPT ![writes[1][1]] = writes[1][2]]
  BY <1>2 DEF Assign
<1> QED
  BY <1>2, <1>3, <1>4, <1>5 DEF MemOK

\* What a command promises of a variable it keeps promising until it is so.
LEMMA WillStays ==
  ASSUME WritesOK, MemOK, Assign, NEW f \in Fields, NEW v, Will(f, v)
  PROVE  Will(f, v)'
<1>1. ASSUME NEW i \in DOMAIN writes', writes'[i][1] = f PROVE writes'[i][2] = v
  BY <1>1, AssignFacts DEF Will
<1>2. mem'[f] = v \/ \E i \in DOMAIN writes' : writes'[i][1] = f
  <2>1. CASE writes[1][1] = f
    BY <2>1, AssignFacts DEF Will
  <2>2. CASE writes[1][1] # f
    <3>1. mem'[f] = mem[f]
      BY <2>2, AssignFacts
    <3>2. ASSUME NEW i \in DOMAIN writes, writes[i][1] = f
          PROVE  \E j \in DOMAIN writes' : writes'[j][1] = f
      <4>1. i - 1 \in DOMAIN writes' /\ i = (i - 1) + 1
        BY <2>2, <3>2, AssignFacts
      <4> QED
        BY <3>2, <4>1, AssignFacts
    <3> QED
      BY <3>1, <3>2 DEF Will
  <2> QED
    BY <2>1, <2>2
<1> QED
  BY <1>1, <1>2 DEF Will

\* What is promised is so when nothing is left to assign.
LEMMA WillIs ==
  ASSUME writes = <<>>
  PROVE  \A f, v : Will(f, v) <=> mem[f] = v
BY DEF Will

\* An assignment keeps the invariant.
LEMMA AssignTInv ==
  ASSUME TInv, Assign
  PROVE  TInv'
<1>0. WritesOK /\ MemOK /\ mem.phase = "IDLE" /\ ~saving
      /\ UNCHANGED <<flash, reads, told, saving, todo, map, done, made>>
  BY DEF TInv, Assign, CommandFirst, CacheTellsFlash
<1> DEFINE f1 == writes[1][1]
           v1 == writes[1][2]
<1>1. /\ f1 \in Fields /\ mem'[f1] = v1 /\ \A f \in Fields : f # f1 => mem'[f] = mem[f]
      /\ DOMAIN mem' = Fields
      /\ writes' \in Seq(Fields \X Values)
      /\ Len(writes) \in Nat /\ Len(writes') = Len(writes) - 1
      /\ DOMAIN writes = 1..Len(writes) /\ DOMAIN writes' = 1..Len(writes')
      /\ \A i \in DOMAIN writes' : i + 1 \in DOMAIN writes /\ writes'[i] = writes[i + 1]
      /\ 1 \in DOMAIN writes
  BY <1>0, AssignFacts
<1>2. WritesOK'
  <2>1. ASSUME NEW i \in DOMAIN writes'
        PROVE  /\ writes'[i][1] \notin {"node0", "node1"}
               /\ writes'[i][1] \in Counters => writes'[i][2] \in Nat
               /\ writes'[i][1] = "phase" =>
                    i = Len(writes') /\ writes'[i][2] \in {"ENUM", "APPLY"}
    BY <1>0, <1>1, <2>1 DEF WritesOK
  <2> QED
    BY <1>1, <2>1 DEF WritesOK
<1>3. MemOK'
  <2>1. ASSUME NEW f \in Counters PROVE mem'[f] \in Nat
    <3>1. f \in Fields
      BY DEF Counters, Fields
    <3>2. f1 \in Counters => v1 \in Nat
      BY <1>0, <1>1 DEF WritesOK
    <3> QED
      BY <1>0, <1>1, <3>1, <3>2 DEF MemOK
  <2> QED
    BY <1>0, <1>1, <2>1 DEF MemOK
<1>4. \A p : Starts(p)' => Starts(p)
  BY <1>1 DEF Starts
<1>5. Drops' => Drops
  BY <1>1 DEF Drops
<1>6. {"enum_round", "have_result", "session", "apply_idx", "apply_ending", "origin",
       "up", "lat", "lon", "node0", "node1", "res", "quality", "redundancy", "phase"}
         \subseteq Fields
  BY DEF Fields
<1>7. mem'["phase"] = "IDLE" \/ (f1 = "phase" /\ mem'["phase"] = v1)
  BY <1>0, <1>1, <1>6
<1>8. CommandFirst'
  <2>1. writes' # <<>> => mem'["phase"] = "IDLE"
    <3>1. writes' # <<>> => Len(writes') # 0
      BY <1>1
    <3>2. f1 = "phase" => Len(writes) = 1
      BY <1>0, <1>1 DEF WritesOK
    <3> QED
      BY <1>1, <1>7, <3>1, <3>2
  <2>2. ASSUME Starts("ENUM")'
        PROVE  /\ done' = Nothing /\ Will("enum_round", 0)' /\ Will("have_result", FALSE)'
               /\ \E s \in Nat \ {0} : Will("session", s)'
    <3>1. Starts("ENUM")
      BY <1>4, <2>2
    <3>2. PICK s \in Nat \ {0} : Will("session", s)
      BY <3>1 DEF TInv, CommandFirst
    <3>3. Will("session", s)'
      BY <1>0, <1>6, <3>2, WillStays
    <3> QED
      BY <1>0, <1>6, <3>1, <3>3, WillStays DEF TInv, CommandFirst
  <2>3. ASSUME Starts("APPLY")'
        PROVE  /\ done' = Nothing /\ Will("apply_idx", 0)' /\ Will("apply_ending", FALSE)'
    BY <1>0, <1>4, <1>6, <2>3, WillStays DEF TInv, CommandFirst
  <2> QED
    BY <2>1, <2>2, <2>3 DEF CommandFirst
<1>9. OneGauge'
  <2>1. PICK g : Will("origin", g) /\ Will("up", g)
    BY DEF TInv, OneGauge
  <2>2. Will("origin", g)' /\ Will("up", g)'
    BY <1>0, <1>6, <2>1, WillStays
  <2> QED
    BY <2>2 DEF OneGauge
<1>10. CacheTellsFlash'
  <2>1. PICK r, s : r = flash.ref /\ s = flash.survey
    OBVIOUS
  <2>2. Will("lat", r) /\ Will("lon", r) /\ Will("node0", s) /\ Will("node1", s)
    BY <1>0, <2>1 DEF TInv, CacheTellsFlash
  <2>3. Will("lat", r)' /\ Will("lon", r)' /\ Will("node0", s)' /\ Will("node1", s)'
    BY <1>0, <1>6, <2>2, WillStays
  <2> QED
    BY <1>0, <2>1, <2>3 DEF CacheTellsFlash
<1>11. OneResult'
  <2>1. Drops' => Will("have_result", FALSE)'
    BY <1>0, <1>5, <1>6, WillStays DEF TInv, OneResult
  <2>2. ASSUME mem'["have_result"], ~Drops'
        PROVE  \E s : s # 0 /\ Will("res", s)' /\ Will("quality", s)' /\ Will("redundancy", s)'
    <3>1. ~Drops
      <4>1. SUFFICES ASSUME Drops PROVE FALSE
        OBVIOUS
      <4>2. Will("have_result", FALSE)'
        BY <1>0, <1>6, <4>1, WillStays DEF TInv, OneResult
      <4> QED
        BY <2>2, <4>2 DEF Will, Drops
    <3>2. f1 # "have_result"
      BY <1>1, <3>1 DEF Drops
    <3>3. mem.have_result
      BY <1>1, <1>6, <2>2, <3>2
    <3>4. PICK s : s # 0 /\ Will("res", s) /\ Will("quality", s) /\ Will("redundancy", s)
      BY <3>1, <3>3 DEF TInv, OneResult
    <3> QED
      BY <1>0, <1>6, <3>4, WillStays
  <2> QED
    BY <2>1, <2>2 DEF OneResult
<1>12. ReportIsTrue'
  <2>1. PICK s : /\ s # 0 /\ told \subseteq {s}
                 /\ reads # <<>> =>
                      Will("res", s) /\ Will("quality", s) /\ Will("redundancy", s)
    BY DEF TInv, ReportIsTrue
  <2>2. reads # <<>> => Will("res", s)' /\ Will("quality", s)' /\ Will("redundancy", s)'
    BY <1>0, <1>6, <2>1, WillStays
  <2>3. ASSUME reads # <<>> PROVE mem'["have_result"] /\ ~Drops'
    <3>1. mem.have_result /\ ~Drops
      BY <2>3 DEF TInv, ReportIsTrue
    <3>2. f1 # "have_result"
      BY <1>1, <3>1 DEF Drops
    <3> QED
      BY <1>1, <1>5, <1>6, <3>1, <3>2
  <2> QED
    BY <1>0, <2>1, <2>2, <2>3 DEF TInv, ReportIsTrue
<1>13. mem'["have_result"] => mem.have_result
  <2>1. CASE f1 = "have_result"
    <3>1. Will("have_result", FALSE)
      BY <1>1, <2>1 DEF TInv, OneResult, Drops
    <3> QED
      BY <1>1, <2>1, <3>1 DEF Will
  <2>2. CASE f1 # "have_result"
    BY <1>1, <1>6, <2>2
  <2> QED
    BY <2>1, <2>2
<1>14. CASE mem'["phase"] = "IDLE"
  <2>1. LoopIsTrue' /\ CommandIsWhole'
    BY <1>0, <1>13, <1>14 DEF TInv, LoopIsTrue, CommandIsWhole
  <2> QED
    BY <1>0, <1>2, <1>3, <1>8, <1>9, <1>10, <1>11, <1>12, <2>1 DEF TInv
<1>15. CASE f1 = "phase" /\ mem'["phase"] = v1
  <2>1. writes' = <<>> /\ v1 \in {"ENUM", "APPLY"} /\ Starts(v1)
    BY <1>0, <1>1, <1>15 DEF WritesOK, Starts
  <2>2. \A f, v : Will(f, v)' <=> mem'[f] = v
    BY <2>1 DEF Will
  <2>3. ASSUME v1 = "ENUM" PROVE LoopIsTrue' /\ CommandIsWhole'
    <3>1. PICK s \in Nat \ {0} : Will("session", s)
      BY <2>1, <2>3 DEF TInv, CommandFirst
    <3>2. Will("session", s)' /\ Will("enum_round", 0)' /\ Will("have_result", FALSE)'
      BY <1>0, <1>6, <2>1, <2>3, <3>1, WillStays DEF TInv, CommandFirst
    <3>3. mem'["session"] # 0 /\ mem'["enum_round"] = 0 /\ ~mem'["have_result"]
      BY <2>2, <3>2
    <3>4. done' = Nothing
      BY <1>0, <2>1, <2>3 DEF TInv, CommandFirst
    <3> QED
      BY <1>15, <2>3, <3>3, <3>4, ThreadsAssumption DEF LoopIsTrue, CommandIsWhole, Nothing
  <2>4. ASSUME v1 = "APPLY" PROVE LoopIsTrue' /\ CommandIsWhole'
    <3>1. Will("apply_idx", 0)' /\ Will("apply_ending", FALSE)'
      BY <1>0, <1>6, <2>1, <2>4, WillStays DEF TInv, CommandFirst
    <3>2. mem'["apply_idx"] = 0 /\ ~mem'["apply_ending"]
      BY <2>2, <3>1
    <3>3. done' = Nothing /\ made.peers \in Nat
      BY <1>0, <2>1, <2>4 DEF TInv, CommandFirst, MemOK
    <3> QED
      BY <1>0, <1>13, <1>15, <2>4, <3>2, <3>3
         DEF TInv, LoopIsTrue, CommandIsWhole, Nothing
  <2>5. LoopIsTrue' /\ CommandIsWhole'
    BY <2>1, <2>3, <2>4
  <2> QED
    BY <1>0, <1>2, <1>3, <1>8, <1>9, <1>10, <1>11, <1>12, <2>5 DEF TInv
<1> QED
  BY <1>7, <1>14, <1>15

-----------------------------------------------------------------------------
(* The commands *)

\* A variable that a command does not assign is what it was.
LEMMA WillRemain ==
  ASSUME UNCHANGED mem, NEW f, NEW v, mem[f] = v,
         \A i \in DOMAIN writes' : writes'[i][1] # f
  PROVE  Will(f, v)'
BY DEF Will

\* Between commands the two halves of the gauge, and of the reference, agree.
LEMMA ReadyFacts ==
  ASSUME TInv, Ready
  PROVE  /\ writes = <<>> /\ \A f, v : Will(f, v) <=> mem[f] = v
         /\ mem.origin = mem.up /\ mem.lat = flash.ref /\ mem.lon = flash.ref
         /\ mem.session \in Nat
<1>1. writes = <<>> /\ \A f, v : Will(f, v) <=> mem[f] = v
  BY WillIs DEF Ready
<1> QED
  BY <1>1 DEF TInv, OneGauge, CacheTellsFlash, MemOK, Counters

\* What may be assigned.
LEMMA ValuesAre ==
  Nat \subseteq Values /\ BOOLEAN \subseteq Values /\ {"ENUM", "APPLY"} \subseteq Values
BY DEF Values

\* What a command assigns, and what it leaves alone: the gauge and the reference
\* whole, the cache of the survey, and none of a result but by dropping it.
SettingsWhole ==
  /\ \E g : Will("origin", g)' /\ Will("up", g)'
  /\ DOMAIN flash' = {"survey", "ref"} /\ flash'.survey = flash.survey
  /\ Will("lat", flash.ref)' /\ Will("lon", flash.ref)'
  /\ \A i \in DOMAIN writes' : writes'[i][1] \notin {"node0", "node1"}

ResultPart == {"have_result", "res", "quality", "redundancy"}

ResultKept == \A i \in DOMAIN writes' : writes'[i][1] \notin ResultPart

ResultDropped == Will("have_result", FALSE)'

\* Assigning none of the settings leaves them whole.
SettingsPart == {"origin", "up", "lat", "lon", "node0", "node1"}

LEMMA SettingsStayWhole ==
  ASSUME TInv, Ready, UNCHANGED <<mem, flash>>,
         \A i \in DOMAIN writes' : writes'[i][1] \notin SettingsPart
  PROVE  SettingsWhole
<1>1. PICK g, r : g = mem["origin"] /\ r = flash.ref
  OBVIOUS
<1>2. mem["up"] = g /\ mem["lat"] = r /\ mem["lon"] = r
  BY <1>1, ReadyFacts
<1>3. Will("origin", g)' /\ Will("up", g)' /\ Will("lat", r)' /\ Will("lon", r)'
  BY <1>1, <1>2, WillRemain DEF SettingsPart
<1>4. DOMAIN flash' = {"survey", "ref"} /\ flash'.survey = flash.survey
  BY DEF TInv, MemOK
<1> QED
  BY <1>1, <1>3, <1>4 DEF SettingsWhole, SettingsPart

\* What it starts, if anything.
StartsNothing == done' = done /\ ~Starts("ENUM")' /\ ~Starts("APPLY")'

StartsWhole ==
  /\ done' = Nothing
  /\ \/ /\ ~Starts("APPLY")'
        /\ Will("enum_round", 0)' /\ Will("have_result", FALSE)'
        /\ \E s \in Nat \ {0} : Will("session", s)'
     \/ /\ ~Starts("ENUM")'
        /\ Will("apply_idx", 0)' /\ Will("apply_ending", FALSE)'

\* What it reports of a result it does not change.
Reports(rs) ==
  /\ rs \in Seq({"res", "quality", "redundancy"})
  /\ rs # <<>> => mem.have_result /\ ResultKept

\* A command begins with nothing left to assign, so what was promised is so; it
\* promises what the survey needs of it, and touches nothing else yet.
LEMMA BeginTInv ==
  ASSUME TInv, Ready, NEW rs, Begin(writes', rs), WritesOK', SettingsWhole,
         writes' # <<>> \/ done' # done => mem.phase = "IDLE",
         StartsNothing \/ StartsWhole,
         ResultKept \/ ResultDropped,
         Reports(rs)
  PROVE  TInv'
<1> USE DEF SettingsWhole, ResultPart, ResultKept, ResultDropped, StartsNothing, StartsWhole,
            Reports
<1>0. /\ writes = <<>> /\ reads' = rs /\ told' = {}
      /\ UNCHANGED <<mem, saving, made>>
  BY DEF Ready, Begin
<1>1. MemOK'
  <2>1. DOMAIN flash' = {"survey", "ref"} /\ DOMAIN done' = {"rounds", "pairs", "nodes"}
    BY DEF TInv, MemOK, Nothing
  <2> QED
    BY <1>0, <2>1 DEF TInv, MemOK
<1>2. CommandFirst'
  <2>1. Starts("ENUM")' \/ Starts("APPLY")' => writes' # <<>>
    BY DEF Starts
  <2> QED
    BY <1>0, <2>1 DEF CommandFirst
<1>3. OneGauge'
  BY DEF OneGauge
<1>4. CacheTellsFlash'
  <2>1. \/ saving /\ mem.phase = "APPLY" /\ flash.survey = mem.res
        \/ ~saving /\ mem.node0 = flash.survey /\ mem.node1 = flash.survey
    BY <1>0, WillIs DEF TInv, CacheTellsFlash
  <2>2. CASE saving
    BY <1>0, <2>1, <2>2 DEF CacheTellsFlash
  <2>3. CASE ~saving
    <3>1. PICK v : v = flash.survey
      OBVIOUS
    <3>2. Will("node0", v)' /\ Will("node1", v)'
      BY <1>0, <2>1, <2>3, <3>1, WillRemain
    <3> QED
      BY <1>0, <2>3, <3>1, <3>2 DEF CacheTellsFlash
  <2> QED
    BY <2>2, <2>3
<1>5. LoopIsTrue' /\ CommandIsWhole'
  BY <1>0 DEF TInv, LoopIsTrue, CommandIsWhole
<1>6. OneResult'
  <2>1. Drops' => Will("have_result", FALSE)'
    BY DEF Drops
  <2>2. ASSUME mem'["have_result"], ~Drops'
        PROVE  \E s : s # 0 /\ Will("res", s)' /\ Will("quality", s)' /\ Will("redundancy", s)'
    <3>1. \A i \in DOMAIN writes' :
            writes'[i][1] \notin {"have_result", "res", "quality", "redundancy"}
      BY <2>2 DEF Will, Drops
    <3>2. mem.have_result /\ ~Drops
      BY <1>0, <2>2 DEF Drops
    <3>3. PICK s : s # 0 /\ Will("res", s) /\ Will("quality", s) /\ Will("redundancy", s)
      BY <3>2 DEF TInv, OneResult
    <3>4. mem["res"] = s /\ mem["quality"] = s /\ mem["redundancy"] = s
      BY <1>0, <3>3, WillIs
    <3>5. Will("res", s)' /\ Will("quality", s)' /\ Will("redundancy", s)'
      BY <1>0, <3>1, <3>4, WillRemain
    <3> QED
      BY <3>3, <3>5
  <2> QED
    BY <2>1, <2>2 DEF OneResult
<1>7. ReportIsTrue'
  <2>1. ASSUME rs # <<>>
        PROVE  /\ mem'["have_result"] /\ ~Drops'
               /\ \E s : s # 0 /\ Will("res", s)' /\ Will("quality", s)' /\ Will("redundancy", s)'
    BY <1>0, <1>6, <2>1 DEF OneResult, Drops
  <2>2. CASE rs = <<>>
    <3>1. 1 # 0 /\ told' \subseteq {1}
      BY <1>0
    <3> QED
      BY <1>0, <2>2, <3>1 DEF ReportIsTrue
  <2>3. CASE rs # <<>>
    BY <1>0, <2>1, <2>3 DEF ReportIsTrue
  <2> QED
    BY <2>2, <2>3
<1> QED
  BY <1>1, <1>2, <1>3, <1>4, <1>5, <1>6, <1>7 DEF TInv

\* `apos show' assigns nothing.
LEMMA ShowTInv ==
  ASSUME TInv, Show
  PROVE  TInv'
<1> DEFINE rs == IF mem.have_result THEN <<"quality", "redundancy", "redundancy">> ELSE <<>>
<1>1. Ready /\ Begin(writes', rs) /\ writes' = <<>> /\ UNCHANGED <<flash, done, mem>>
  BY DEF Show, Begin
<1>2. rs \in Seq({"res", "quality", "redundancy"}) /\ (rs # <<>> => mem.have_result)
  <2>1. CASE mem.have_result
    <3>1. rs = <<"quality", "redundancy", "redundancy">>
      BY <2>1
    <3>2. <<"quality", "redundancy", "redundancy">> \in Seq({"res", "quality", "redundancy"})
      OBVIOUS
    <3> QED
      BY <2>1, <3>1, <3>2
  <2>2. CASE ~mem.have_result
    <3>1. rs = <<>>
      BY <2>2
    <3> QED
      BY <3>1
  <2> QED
    BY <2>1, <2>2
<1> HIDE DEF rs
<1>3. WritesOK' /\ StartsNothing /\ ResultKept
  BY <1>1 DEF WritesOK, Starts, StartsNothing, ResultKept
<1>4. SettingsWhole
  BY <1>1, ReadyFacts DEF TInv, MemOK, Will, SettingsWhole
<1>5. Reports(rs)
  BY <1>2, <1>3 DEF Reports
<1> QED
  BY <1>1, <1>3, <1>4, <1>5, BeginTInv

\* `apos gauge' assigns the two halves.
LEMMA SetGaugeTInv ==
  ASSUME TInv, NEW g \in Gauges, SetGauge(g)
  PROVE  TInv'
<1> DEFINE ws == << <<"origin", g>>, <<"up", g>> >>
<1>1. Ready /\ Begin(writes', <<>>) /\ writes' = ws /\ UNCHANGED <<flash, done, mem>>
      /\ mem.phase = "IDLE"
  BY DEF SetGauge, Begin, Command, Busy
<1>2. /\ DOMAIN ws = 1..2 /\ Len(ws) = 2
      /\ ws[1] = <<"origin", g>> /\ ws[2] = <<"up", g>>
      /\ ws \in Seq(Fields \X Values)
  BY DEF Fields, Values
<1> HIDE DEF ws
<1>3. \A i \in DOMAIN ws : ws[i][1] \in {"origin", "up"} /\ ws[i][2] = g
  BY <1>2
<1>4. WritesOK' /\ StartsNothing /\ ResultKept
  BY <1>1, <1>2, <1>3 DEF WritesOK, Starts, Counters, StartsNothing, ResultKept, ResultPart
<1>5. SettingsWhole
  <2>1. Will("origin", g)' /\ Will("up", g)'
    BY <1>1, <1>2, <1>3 DEF Will
  <2>2. Will("lat", flash.ref)' /\ Will("lon", flash.ref)'
    BY <1>1, <1>3, ReadyFacts DEF Will
  <2> QED
    BY <1>1, <1>3, <2>1, <2>2 DEF TInv, MemOK, SettingsWhole
<1>6. Reports(<<>>)
  BY DEF Reports
<1> QED
  BY <1>1, <1>4, <1>5, <1>6, BeginTInv

\* `apos ref' assigns the two halves of what it has put on flash.
LEMMA SetRefTInv ==
  ASSUME TInv, NEW r \in Refs, NEW written \in BOOLEAN, SetRef(r, written)
  PROVE  TInv'
<1>1. /\ Ready /\ Begin(writes', <<>>) /\ UNCHANGED <<done, mem>> /\ mem.phase = "IDLE"
      /\ \/ /\ flash' = [flash EXCEPT !.ref = r]
            /\ writes' = << <<"lat", r>>, <<"lon", r>> >>
         \/ flash' = flash /\ writes' = <<>>
  BY DEF SetRef, Begin, Command, Busy
<1>2. DOMAIN flash' = {"survey", "ref"} /\ flash'.survey = flash.survey
  BY <1>1 DEF TInv, MemOK
<1>3. mem.lat = flash.ref /\ mem.lon = flash.ref
      /\ \E g : mem["origin"] = g /\ mem["up"] = g
  BY <1>1, ReadyFacts
<1>6. Reports(<<>>)
  BY DEF Reports
<1>4. CASE writes' = <<>> /\ flash' = flash
  <2>1. WritesOK' /\ StartsNothing /\ ResultKept
    BY <1>1, <1>4 DEF WritesOK, Starts, StartsNothing, ResultKept
  <2>2. SettingsWhole
    BY <1>1, <1>2, <1>3, <1>4 DEF Will, SettingsWhole
  <2> QED
    BY <1>1, <1>6, <2>1, <2>2, BeginTInv
<1>5. CASE flash' = [flash EXCEPT !.ref = r] /\ writes' = << <<"lat", r>>, <<"lon", r>> >>
  <2> DEFINE ws == << <<"lat", r>>, <<"lon", r>> >>
  <2>1. /\ DOMAIN ws = 1..2 /\ Len(ws) = 2
        /\ ws[1] = <<"lat", r>> /\ ws[2] = <<"lon", r>>
        /\ ws \in Seq(Fields \X Values)
    BY DEF Fields, Values
  <2>2. writes' = ws /\ flash'.ref = r
    BY <1>5 DEF TInv, MemOK
  <2> HIDE DEF ws
  <2>3. \A i \in DOMAIN ws : ws[i][1] \in {"lat", "lon"} /\ ws[i][2] = r
    BY <2>1
  <2>4. WritesOK' /\ StartsNothing /\ ResultKept
    BY <1>1, <2>1, <2>2, <2>3
       DEF WritesOK, Starts, Counters, StartsNothing, ResultKept, ResultPart
  <2>5. SettingsWhole
    <3>1. Will("lat", flash.ref)' /\ Will("lon", flash.ref)'
      BY <2>1, <2>2, <2>3 DEF Will
    <3>2. \E g : Will("origin", g)' /\ Will("up", g)'
      BY <1>1, <1>3, <2>2, <2>3 DEF Will
    <3> QED
      BY <1>2, <2>2, <2>3, <3>1, <3>2 DEF SettingsWhole
  <2> QED
    BY <1>1, <1>6, <2>4, <2>5, BeginTInv
<1> QED
  BY <1>1, <1>4, <1>5

\* `apos apply' starts an apply from its first node, or says why it does not.
LEMMA StartApplyTInv ==
  ASSUME TInv, NEW force \in BOOLEAN, StartApply(force)
  PROVE  TInv'
<1>1. /\ Ready /\ UNCHANGED <<mem, flash>> /\ mem.phase = "IDLE" /\ mem.have_result
      /\ \/ /\ Begin(writes', <<"redundancy", "quality", "redundancy">>)
            /\ writes' = ApplyWrites /\ done' = Nothing
         \/ Begin(writes', <<"res", "res">>) /\ writes' = <<>> /\ done' = done
  BY DEF StartApply, Begin, Command, Busy
<1>4. CASE writes' = <<>> /\ done' = done /\ Begin(writes', <<"res", "res">>)
  <2>1. WritesOK' /\ StartsNothing /\ ResultKept
    BY <1>4 DEF WritesOK, Starts, StartsNothing, ResultKept
  <2>2. SettingsWhole
    BY <1>1, <1>4, SettingsStayWhole
  <2>3. Reports(<<"res", "res">>)
    BY <1>1, <2>1 DEF Reports
  <2> QED
    BY <1>1, <1>4, <2>1, <2>2, <2>3, BeginTInv
<1>5. CASE /\ writes' = ApplyWrites /\ done' = Nothing
           /\ Begin(writes', <<"redundancy", "quality", "redundancy">>)
  <2>1. PICK no : no = FALSE
    OBVIOUS
  <2> DEFINE ws == << <<"apply_idx", 0>>, <<"apply_ending", no>>, <<"phase", "APPLY">> >>
  <2>2. /\ DOMAIN ws = 1..3 /\ Len(ws) = 3
        /\ ws[1] = <<"apply_idx", 0>> /\ ws[2] = <<"apply_ending", no>>
        /\ ws[3] = <<"phase", "APPLY">>
    OBVIOUS
  <2>3. ws \in Seq(Fields \X Values)
    <3>1. no \in BOOLEAN /\ 0 \in Nat
      BY <2>1
    <3>3. 0 \in Values /\ no \in Values /\ "APPLY" \in Values
      BY <3>1, ValuesAre
    <3>2. {"apply_idx", "apply_ending", "phase"} \subseteq Fields
      BY DEF Fields
    <3> QED
      BY <3>2, <3>3
  <2>4. writes' = ws
    BY <1>5, <2>1 DEF ApplyWrites
  <2> HIDE DEF ws
  <2>5. WritesOK' /\ ResultKept /\ ~Starts("ENUM")'
    BY <2>2, <2>3, <2>4 DEF WritesOK, Counters, ResultKept, ResultPart, Starts
  <2>6. Will("apply_idx", 0)' /\ Will("apply_ending", no)'
    BY <2>2, <2>4 DEF Will
  <2>7. SettingsWhole
    <3>1. \A i \in DOMAIN writes' : writes'[i][1] \notin SettingsPart
      BY <2>2, <2>4 DEF SettingsPart
    <3> QED
      BY <1>1, <3>1, SettingsStayWhole
  <2>8. Reports(<<"redundancy", "quality", "redundancy">>)
    BY <1>1, <2>5 DEF Reports
  <2> QED
    BY <1>1, <1>5, <2>1, <2>5, <2>6, <2>7, <2>8, BeginTInv DEF StartsWhole
<1> QED
  BY <1>1, <1>4, <1>5

\* `apos enum' drops the last result and starts ENUM from its first round.
LEMMA StartEnumTInv ==
  ASSUME TInv, StartEnum
  PROVE  TInv'
<1>1. /\ Ready /\ UNCHANGED <<mem, flash>> /\ mem.phase = "IDLE"
      /\ Begin(writes', <<>>) /\ writes' = EnumWrites /\ done' = Nothing
  BY DEF StartEnum, Begin, Command, Busy
<1>4. PICK no, s : no = FALSE /\ s = mem.session + 1
  OBVIOUS
<1>5. s \in Nat \ {0}
  BY <1>1, <1>4, ReadyFacts
<1> DEFINE ws ==
  << <<"peers", 0>>, <<"have_result", no>>, <<"session", s>>,
     <<"enum_round", 0>>, <<"is_run", no>>, <<"pair_idx", 0>>, <<"pair_total", 0>>,
     <<"accepted", no>>, <<"redundancy", 0>>, <<"phase", "ENUM">> >>
<1>6. /\ DOMAIN ws = 1..10 /\ Len(ws) = 10
      /\ ws[1] = <<"peers", 0>> /\ ws[2] = <<"have_result", no>>
      /\ ws[3] = <<"session", s>> /\ ws[4] = <<"enum_round", 0>>
      /\ ws[5] = <<"is_run", no>> /\ ws[6] = <<"pair_idx", 0>>
      /\ ws[7] = <<"pair_total", 0>> /\ ws[8] = <<"accepted", no>>
      /\ ws[9] = <<"redundancy", 0>> /\ ws[10] = <<"phase", "ENUM">>
  OBVIOUS
<1>7. ws \in Seq(Fields \X Values)
  <2>3. no \in BOOLEAN /\ s \in Nat /\ 0 \in Nat
    BY <1>4, <1>5
  <2>1. 0 \in Values /\ no \in Values /\ s \in Values /\ "ENUM" \in Values
    BY <2>3, ValuesAre
  <2>2. {"peers", "have_result", "session", "enum_round", "is_run", "pair_idx",
         "pair_total", "accepted", "redundancy", "phase"} \subseteq Fields
    BY DEF Fields
  <2> QED
    BY <2>1, <2>2
<1>8. writes' = ws
  BY <1>1, <1>4 DEF EnumWrites
<1> HIDE DEF ws
<1>9. WritesOK' /\ ~Starts("APPLY")'
  <2>1. \A i \in DOMAIN ws : ws[i][1] \in Counters => ws[i][2] \in Nat
    BY <1>5, <1>6 DEF Counters
  <2>2. \A i \in DOMAIN ws : ws[i][1] = "phase" => i = 10 /\ ws[i][2] = "ENUM"
    BY <1>6
  <2>3. \A i \in DOMAIN ws : ws[i][1] \notin {"node0", "node1"}
    BY <1>6
  <2> QED
    BY <1>6, <1>7, <1>8, <2>1, <2>2, <2>3 DEF WritesOK, Starts
<1>10. Will("enum_round", 0)' /\ Will("have_result", no)' /\ Will("session", s)'
  BY <1>6, <1>8 DEF Will
<1>11. SettingsWhole
  <2>1. \A i \in DOMAIN writes' : writes'[i][1] \notin SettingsPart
    BY <1>6, <1>8 DEF SettingsPart
  <2> QED
    BY <1>1, <2>1, SettingsStayWhole
<1>12. Reports(<<>>)
  BY DEF Reports
<1>13. StartsWhole /\ ResultDropped
  BY <1>1, <1>4, <1>5, <1>9, <1>10 DEF StartsWhole, ResultDropped
<1> QED
  BY <1>1, <1>9, <1>11, <1>12, <1>13, BeginTInv

\* `apos run' does so too.
LEMMA StartRunTInv ==
  ASSUME TInv, StartRun
  PROVE  TInv'
<1>1. /\ Ready /\ UNCHANGED <<mem, flash>> /\ mem.phase = "IDLE"
      /\ Begin(writes', <<>>) /\ writes' = RunWrites /\ done' = Nothing
  BY DEF StartRun, Begin, Command, Busy
<1>4. PICK no, yes, s : no = FALSE /\ yes = TRUE /\ s = mem.session + 1
  OBVIOUS
<1>5. s \in Nat \ {0}
  BY <1>1, <1>4, ReadyFacts
<1> DEFINE ws ==
  << <<"peers", 0>>, <<"res", 0>>, <<"have_result", no>>, <<"accepted", no>>,
     <<"redundancy", 0>>, <<"session", s>>, <<"enum_round", 0>>,
     <<"pair_idx", 0>>, <<"pair_total", 0>>, <<"is_run", yes>>, <<"phase", "ENUM">> >>
<1>6. /\ DOMAIN ws = 1..11 /\ Len(ws) = 11
      /\ ws[1] = <<"peers", 0>> /\ ws[2] = <<"res", 0>>
      /\ ws[3] = <<"have_result", no>> /\ ws[4] = <<"accepted", no>>
      /\ ws[5] = <<"redundancy", 0>> /\ ws[6] = <<"session", s>>
      /\ ws[7] = <<"enum_round", 0>> /\ ws[8] = <<"pair_idx", 0>>
      /\ ws[9] = <<"pair_total", 0>> /\ ws[10] = <<"is_run", yes>>
      /\ ws[11] = <<"phase", "ENUM">>
  OBVIOUS
<1>7. ws \in Seq(Fields \X Values)
  <2>3. no \in BOOLEAN /\ yes \in BOOLEAN /\ s \in Nat /\ 0 \in Nat
    BY <1>4, <1>5
  <2>1. 0 \in Values /\ no \in Values /\ yes \in Values /\ s \in Values /\ "ENUM" \in Values
    BY <2>3, ValuesAre
  <2>2. {"peers", "res", "have_result", "session", "enum_round", "is_run", "pair_idx",
         "pair_total", "accepted", "redundancy", "phase"} \subseteq Fields
    BY DEF Fields
  <2> QED
    BY <2>1, <2>2
<1>8. writes' = ws
  BY <1>1, <1>4 DEF RunWrites
<1> HIDE DEF ws
<1>9. WritesOK' /\ ~Starts("APPLY")'
  <2>1. \A i \in DOMAIN ws : ws[i][1] \in Counters => ws[i][2] \in Nat
    BY <1>5, <1>6 DEF Counters
  <2>2. \A i \in DOMAIN ws : ws[i][1] = "phase" => i = 11 /\ ws[i][2] = "ENUM"
    BY <1>6
  <2>3. \A i \in DOMAIN ws : ws[i][1] \notin {"node0", "node1"}
    BY <1>6
  <2> QED
    BY <1>6, <1>7, <1>8, <2>1, <2>2, <2>3 DEF WritesOK, Starts
<1>10. Will("enum_round", 0)' /\ Will("have_result", no)' /\ Will("session", s)'
  BY <1>6, <1>8 DEF Will
<1>11. SettingsWhole
  <2>1. \A i \in DOMAIN writes' : writes'[i][1] \notin SettingsPart
    BY <1>6, <1>8 DEF SettingsPart
  <2> QED
    BY <1>1, <2>1, SettingsStayWhole
<1>12. Reports(<<>>)
  BY DEF Reports
<1>13. StartsWhole /\ ResultDropped
  BY <1>1, <1>4, <1>5, <1>9, <1>10 DEF StartsWhole, ResultDropped
<1> QED
  BY <1>1, <1>9, <1>11, <1>12, <1>13, BeginTInv

-----------------------------------------------------------------------------
(* Between commands *)

\* The invariant when the shell has nothing left to assign.
Settled ==
  /\ MemOK /\ LoopIsTrue /\ CommandIsWhole
  /\ mem.origin = mem.up
  /\ mem.lat = flash.ref /\ mem.lon = flash.ref
  /\ IF saving THEN mem.phase = "APPLY" /\ flash.survey = mem.res
               ELSE mem.node0 = flash.survey /\ mem.node1 = flash.survey
  /\ mem.have_result =>
       mem.res # 0 /\ mem.quality = mem.res /\ mem.redundancy = mem.res
  /\ reads \in Seq({"res", "quality", "redundancy"})
  /\ reads # <<>> => mem.have_result /\ told \subseteq {mem.res}
  /\ \E s : s # 0 /\ told \subseteq {s}

LEMMA TInvSettled ==
  ASSUME TInv, writes = <<>>
  PROVE  Settled
<1>1. \A f, v : Will(f, v) <=> mem[f] = v
  BY WillIs
<1>2. ~Drops
  BY DEF Drops
<1>3. mem.origin = mem.up
  BY <1>1 DEF TInv, OneGauge
<1>4. /\ mem.lat = flash.ref /\ mem.lon = flash.ref
      /\ IF saving THEN mem.phase = "APPLY" /\ flash.survey = mem.res
                   ELSE mem.node0 = flash.survey /\ mem.node1 = flash.survey
  BY <1>1 DEF TInv, CacheTellsFlash
<1>5. mem.have_result =>
        mem.res # 0 /\ mem.quality = mem.res /\ mem.redundancy = mem.res
  BY <1>1, <1>2 DEF TInv, OneResult
<1>6. /\ reads \in Seq({"res", "quality", "redundancy"})
      /\ reads # <<>> => mem.have_result /\ told \subseteq {mem.res}
      /\ \E s : s # 0 /\ told \subseteq {s}
  BY <1>1 DEF TInv, ReportIsTrue
<1> QED
  BY <1>3, <1>4, <1>5, <1>6 DEF TInv, Settled

LEMMA SettledTInv ==
  ASSUME Settled, writes = <<>>
  PROVE  TInv
<1>1. \A f, v : Will(f, v) <=> mem[f] = v
  BY WillIs
<1>2. WritesOK /\ CommandFirst /\ ~Drops
  BY DEF WritesOK, CommandFirst, Starts, Drops
<1>3. OneGauge
  BY <1>1 DEF Settled, OneGauge
<1>4. CacheTellsFlash
  BY <1>1 DEF Settled, CacheTellsFlash
<1>5. OneResult
  BY <1>1, <1>2 DEF Settled, OneResult
<1>6. ReportIsTrue
  <2>1. CASE reads = <<>>
    BY <2>1 DEF Settled, ReportIsTrue
  <2>2. CASE reads # <<>>
    <3>1. mem.have_result /\ mem.res # 0 /\ told \subseteq {mem.res}
      BY <2>2 DEF Settled
    <3>2. Will("res", mem.res) /\ Will("quality", mem.res) /\ Will("redundancy", mem.res)
      BY <1>1, <3>1 DEF Settled
    <3> QED
      BY <1>2, <3>1, <3>2 DEF Settled, ReportIsTrue
  <2> QED
    BY <2>1, <2>2
<1> QED
  BY <1>2, <1>3, <1>4, <1>5, <1>6 DEF Settled, TInv

\* So a step that leaves nothing to assign may be judged by it.
LEMMA SettledStep == Settled' /\ writes' = <<>> => TInv'
<1>1. Settled /\ writes = <<>> => TInv
  BY SettledTInv
<1>2. (Settled /\ writes = <<>> => TInv)'
  BY <1>1, PTL
<1> QED
  BY <1>2

-----------------------------------------------------------------------------
(* The report, the loop, the uplink, and a reboot *)

\* A word read for the report is of the result that is reported.
LEMMA ReadTInv ==
  ASSUME TInv, Read
  PROVE  TInv'
<1>1. /\ writes = <<>> /\ writes' = <<>> /\ reads # <<>>
      /\ told' = told \cup {mem[Head(reads)]} /\ reads' = Tail(reads)
      /\ UNCHANGED <<mem, flash, saving, done, made>>
  BY DEF Read
<1>2. Settled
  BY <1>1, TInvSettled
<1>3. Head(reads) \in {"res", "quality", "redundancy"}
      /\ Tail(reads) \in Seq({"res", "quality", "redundancy"})
  BY <1>1, <1>2 DEF Settled
<1>4. mem.have_result /\ mem.res # 0 /\ mem[Head(reads)] = mem.res
  BY <1>1, <1>2, <1>3 DEF Settled
<1>5. told' \subseteq {mem.res}
  BY <1>1, <1>2, <1>4 DEF Settled
<1>6. Settled'
  BY <1>1, <1>2, <1>3, <1>4, <1>5 DEF Settled, MemOK, LoopIsTrue, CommandIsWhole
<1> QED
  BY <1>1, <1>6, SettledStep

\* The loop's steps find nothing left to assign, and assign no setting.
LEMMA LoopFacts ==
  ASSUME TInv, mem.phase # "IDLE" \/ saving, UNCHANGED shellVars
  PROVE  /\ Settled /\ writes' = <<>> /\ mem.phase # "IDLE"
         /\ reads' = reads /\ told' = told
<1>1. mem.phase # "IDLE"
  BY DEF TInv, CacheTellsFlash
<1>2. writes = <<>>
  BY <1>1 DEF TInv, CommandFirst
<1> QED
  BY <1>1, <1>2, TInvSettled DEF shellVars

\* Most of them touch neither a setting nor a result.
Untouched == {"origin", "up", "lat", "lon", "node0", "node1",
              "have_result", "res", "quality", "redundancy"}

LEMMA LoopKeeps ==
  ASSUME Settled, writes' = <<>>, UNCHANGED <<flash, reads, told, saving>>,
         MemOK', LoopIsTrue', CommandIsWhole',
         \A f \in Untouched : mem'[f] = mem[f],
         ~saving
  PROVE  TInv'
<1>1. /\ mem'.origin = mem.origin /\ mem'.up = mem.up
      /\ mem'.lat = mem.lat /\ mem'.lon = mem.lon
      /\ mem'.node0 = mem.node0 /\ mem'.node1 = mem.node1
      /\ mem'.have_result = mem.have_result /\ mem'.res = mem.res
      /\ mem'.quality = mem.quality /\ mem'.redundancy = mem.redundancy
  BY DEF Untouched
<1>2. Settled'
  BY <1>1 DEF Settled
<1> QED
  BY <1>2, SettledStep

LEMMA EnumRoundTInv ==
  ASSUME TInv, NEW found \in 0..MaxNodes, EnumRound(found)
  PROVE  TInv'
<1>1. /\ mem.phase = "ENUM" /\ ~saving /\ mem.enum_round < Rounds
      /\ mem' = [mem EXCEPT !.enum_round = @ + 1, !.peers = @ + found]
      /\ done' = [done EXCEPT !.rounds = @ + 1]
      /\ UNCHANGED <<flash, saving, made, shellVars>>
  BY DEF EnumRound, InPhase
<1>2. Settled /\ writes' = <<>> /\ reads' = reads /\ told' = told
  BY <1>1, LoopFacts
<1>3. mem.enum_round \in Nat /\ mem.peers \in Nat /\ found \in Nat /\ Rounds \in Nat
  BY <1>2, ThreadsAssumption DEF Settled, MemOK, Counters
<1>4. /\ mem'.enum_round = mem.enum_round + 1 /\ mem'.peers = mem.peers + found
      /\ DOMAIN mem' = Fields
      /\ \A f \in Fields \ {"enum_round", "peers"} : mem'[f] = mem[f]
  BY <1>1, <1>2 DEF Settled, MemOK, Fields
<1>5. /\ done'.rounds = done.rounds + 1 /\ done'.pairs = done.pairs
      /\ DOMAIN done' = {"rounds", "pairs", "nodes"}
  BY <1>1, <1>2 DEF Settled, MemOK
<1>6. MemOK'
  BY <1>1, <1>2, <1>3, <1>4, <1>5 DEF Settled, MemOK, Counters, Fields
<1>7. mem'.phase = "ENUM" /\ mem'.have_result = mem.have_result
      /\ mem'.session = mem.session
  BY <1>1, <1>4 DEF Fields
<1>8. LoopIsTrue' /\ CommandIsWhole'
  BY <1>1, <1>2, <1>3, <1>4, <1>5, <1>7 DEF Settled, LoopIsTrue, CommandIsWhole
<1>9. \A f \in Untouched : mem'[f] = mem[f]
  BY <1>4 DEF Untouched, Fields
<1> QED
  BY <1>1, <1>2, <1>6, <1>8, <1>9, LoopKeeps

\* With enough boards the pairs begin; otherwise the survey is over.
LEMMA EnumEndsTInv ==
  ASSUME TInv, EnumEnds
  PROVE  TInv'
<1>1. /\ mem.phase = "ENUM" /\ ~saving /\ mem.enum_round >= Rounds
      /\ UNCHANGED <<flash, saving, made, done, shellVars>>
      /\ \/ /\ mem.peers >= MinNodes(mem.up)
            /\ mem' = [mem EXCEPT !.phase = "RANGE", !.pair_idx = 0,
                                  !.pair_total = mem.peers * (mem.peers - 1)]
         \/ mem' = [mem EXCEPT !.phase = "IDLE"]
  BY DEF EnumEnds, InPhase
<1>2. Settled /\ writes' = <<>> /\ reads' = reads /\ told' = told
  BY <1>1, LoopFacts
<1>3. mem.enum_round \in Nat /\ Rounds \in Nat /\ mem.enum_round = Rounds
  BY <1>1, <1>2, ThreadsAssumption DEF Settled, MemOK, Counters, LoopIsTrue
<1>4. /\ DOMAIN mem' = Fields
      /\ \A f \in Fields \ {"phase", "pair_idx", "pair_total"} : mem'[f] = mem[f]
      /\ mem'.pair_idx \in {mem.pair_idx, 0}
  BY <1>1, <1>2 DEF Settled, MemOK, Fields
<1>5. \/ /\ mem'.phase = "RANGE" /\ mem.peers >= MinNodes(mem.up) /\ mem'.pair_idx = 0
         /\ mem'.pair_total = mem.peers * (mem.peers - 1)
      \/ mem'.phase = "IDLE"
  BY <1>1, <1>2 DEF Settled, MemOK, Fields
<1>6. MemOK'
  BY <1>1, <1>2, <1>4 DEF Settled, MemOK, Counters, Fields
<1>7. /\ mem'.have_result = mem.have_result /\ mem'.session = mem.session
      /\ mem'.peers = mem.peers /\ mem'.up = mem.up
  BY <1>4 DEF Fields
<1>8. CommandIsWhole'
  BY <1>1, <1>2, <1>5, <1>7 DEF Settled, CommandIsWhole
<1>9. LoopIsTrue'
  <2>1. CASE mem'.phase = "IDLE"
    BY <2>1 DEF LoopIsTrue
  <2>2. CASE /\ mem'.phase = "RANGE" /\ mem.peers >= MinNodes(mem.up) /\ mem'.pair_idx = 0
             /\ mem'.pair_total = mem.peers * (mem.peers - 1)
    <3>1. 0 <= mem.peers * (mem.peers - 1)
      <4>1. mem.peers \in Nat
        BY <1>2 DEF Settled, MemOK, Counters
      <4> QED
        BY <4>1
    <3> QED
      BY <1>1, <1>2, <1>3, <1>7, <2>2, <3>1 DEF Settled, LoopIsTrue, MinNodes
  <2> QED
    BY <1>5, <2>1, <2>2
<1>10. \A f \in Untouched : mem'[f] = mem[f]
  BY <1>4 DEF Untouched, Fields
<1> QED
  BY <1>1, <1>2, <1>6, <1>8, <1>9, <1>10, LoopKeeps

\* Every ordered pair is counted once.
LEMMA PairIsOverTInv ==
  ASSUME TInv, PairIsOver
  PROVE  TInv'
<1>1. /\ mem.phase = "RANGE" /\ ~saving /\ mem.pair_idx < mem.pair_total
      /\ mem' = [mem EXCEPT !.pair_idx = @ + 1]
      /\ done' = [done EXCEPT !.pairs = @ + 1]
      /\ UNCHANGED <<flash, saving, made, shellVars>>
  BY DEF PairIsOver, InPhase
<1>2. Settled /\ writes' = <<>> /\ reads' = reads /\ told' = told
  BY <1>1, LoopFacts
<1>3. mem.pair_idx \in Nat /\ mem.pair_total \in Int
  <2>1. mem.peers \in Nat /\ mem.pair_total = mem.peers * (mem.peers - 1)
    BY <1>1, <1>2 DEF Settled, MemOK, Counters, LoopIsTrue
  <2> QED
    BY <1>2, <2>1 DEF Settled, MemOK, Counters
<1>4. /\ mem'.pair_idx = mem.pair_idx + 1 /\ DOMAIN mem' = Fields
      /\ \A f \in Fields \ {"pair_idx"} : mem'[f] = mem[f]
  BY <1>1, <1>2 DEF Settled, MemOK, Fields
<1>5. /\ done'.pairs = done.pairs + 1 /\ done'.rounds = done.rounds
      /\ DOMAIN done' = {"rounds", "pairs", "nodes"}
  BY <1>1, <1>2 DEF Settled, MemOK
<1>6. MemOK'
  BY <1>1, <1>2, <1>3, <1>4, <1>5 DEF Settled, MemOK, Counters, Fields
<1>7. /\ mem'.have_result = mem.have_result /\ mem'.session = mem.session
      /\ mem'.peers = mem.peers /\ mem'.up = mem.up /\ mem'.phase = "RANGE"
      /\ mem'.pair_total = mem.pair_total
  BY <1>1, <1>4 DEF Fields
<1>8. CommandIsWhole'
  BY <1>1, <1>2, <1>7 DEF Settled, CommandIsWhole
<1>9. LoopIsTrue'
  BY <1>1, <1>2, <1>3, <1>4, <1>5, <1>7 DEF Settled, LoopIsTrue, MinNodes
<1>10. \A f \in Untouched : mem'[f] = mem[f]
  BY <1>4 DEF Untouched, Fields
<1> QED
  BY <1>1, <1>2, <1>6, <1>8, <1>9, <1>10, LoopKeeps

\* A failed solve leaves half a result that no report reads.
LEMMA SolveFailsTInv ==
  ASSUME TInv, SolveFails
  PROVE  TInv'
<1>1. /\ mem.phase = "RANGE" /\ ~saving
      /\ \E q, r : mem' = [mem EXCEPT !.phase = "IDLE", !.quality = q, !.res = r]
      /\ UNCHANGED <<flash, saving, done, made, shellVars>>
  BY DEF SolveFails, InPhase
<1>2. Settled /\ writes' = <<>> /\ reads' = reads /\ told' = told
  BY <1>1, LoopFacts
<1>3. /\ DOMAIN mem' = Fields /\ mem'.phase = "IDLE"
      /\ \A f \in Fields \ {"phase", "quality", "res"} : mem'[f] = mem[f]
  BY <1>1, <1>2 DEF Settled, MemOK, Fields
<1>4. /\ mem'.have_result = mem.have_result /\ mem'.origin = mem.origin /\ mem'.up = mem.up
      /\ mem'.lat = mem.lat /\ mem'.lon = mem.lon
      /\ mem'.node0 = mem.node0 /\ mem'.node1 = mem.node1
  BY <1>3 DEF Fields
<1>5. MemOK'
  BY <1>1, <1>2, <1>3 DEF Settled, MemOK, Counters, Fields
<1>6. ~mem.have_result /\ ~mem'.have_result
  BY <1>1, <1>2, <1>4 DEF Settled, LoopIsTrue
<1>7. LoopIsTrue' /\ CommandIsWhole'
  BY <1>3, <1>6 DEF LoopIsTrue, CommandIsWhole
<1>8. Settled'
  BY <1>1, <1>2, <1>4, <1>5, <1>6, <1>7 DEF Settled
<1> QED
  BY <1>2, <1>8, SettledStep

\* A result is made of the rounds, the pairs and the gauge of its own run.
LEMMA SolveTInv ==
  ASSUME TInv, NEW verdict \in BOOLEAN, Solve(verdict)
  PROVE  TInv'
<1>1. /\ mem.phase = "RANGE" /\ ~saving /\ mem.pair_idx >= mem.pair_total
      /\ mem' = [mem EXCEPT !.phase = "IDLE", !.have_result = TRUE, !.accepted = verdict,
                        !.res = mem.session, !.quality = mem.session,
                        !.redundancy = mem.session]
      /\ made' = [rounds |-> done.rounds, pairs |-> done.pairs, nodes |-> 0,
                  peers |-> mem.peers, origin |-> mem.origin, up |-> mem.up]
      /\ UNCHANGED <<flash, saving, done, shellVars>>
  BY DEF Solve, InPhase
<1>2. Settled /\ writes' = <<>> /\ reads' = reads /\ told' = told
  BY <1>1, LoopFacts
<1>3. /\ DOMAIN mem' = Fields /\ mem'.phase = "IDLE" /\ mem'.have_result
      /\ mem'.res = mem.session /\ mem'.quality = mem.session
      /\ mem'.redundancy = mem.session
      /\ \A f \in Fields \ {"phase", "have_result", "accepted", "res", "quality", "redundancy"} :
           mem'[f] = mem[f]
  BY <1>1, <1>2 DEF Settled, MemOK, Fields
<1>4. /\ mem'.origin = mem.origin /\ mem'.up = mem.up
      /\ mem'.lat = mem.lat /\ mem'.lon = mem.lon
      /\ mem'.node0 = mem.node0 /\ mem'.node1 = mem.node1
  BY <1>3 DEF Fields
<1>5. /\ DOMAIN made' = {"rounds", "pairs", "nodes", "peers", "origin", "up"}
      /\ made'.rounds = done.rounds /\ made'.pairs = done.pairs
      /\ made'.peers = mem.peers /\ made'.origin = mem.origin /\ made'.up = mem.up
  BY <1>1
<1>6. mem.peers \in Nat /\ mem.pair_idx \in Nat
  BY <1>2 DEF Settled, MemOK, Counters
<1>7. MemOK'
  BY <1>1, <1>2, <1>3, <1>5, <1>6 DEF Settled, MemOK, Counters, Fields
<1>8. /\ ~mem.have_result /\ mem.session # 0 /\ done.rounds = Rounds
      /\ mem.pair_total = mem.peers * (mem.peers - 1)
      /\ done.pairs = mem.pair_idx /\ mem.pair_idx <= mem.pair_total
      /\ mem.peers >= MinNodes(mem.up)
  BY <1>1, <1>2 DEF Settled, LoopIsTrue
<1>9. done.pairs = mem.peers * (mem.peers - 1)
  BY <1>1, <1>6, <1>8
<1>10. LoopIsTrue' /\ CommandIsWhole'
  BY <1>2, <1>3, <1>5, <1>8, <1>9 DEF Settled, LoopIsTrue, CommandIsWhole, MinNodes
<1>11. Settled'
  BY <1>1, <1>2, <1>3, <1>4, <1>7, <1>8, <1>10 DEF Settled
<1> QED
  BY <1>2, <1>11, SettledStep

\* An apply visits the nodes one by one.
LEMMA ApplyNodeTInv ==
  ASSUME TInv, ApplyNode
  PROVE  TInv'
<1>1. /\ mem.phase = "APPLY" /\ ~saving /\ ~mem.apply_ending /\ mem.apply_idx < made.peers
      /\ mem' = [mem EXCEPT !.apply_idx = @ + 1]
      /\ done' = [done EXCEPT !.nodes = @ + 1]
      /\ UNCHANGED <<flash, saving, made, shellVars>>
  BY DEF ApplyNode, InPhase
<1>2. Settled /\ writes' = <<>> /\ reads' = reads /\ told' = told
  BY <1>1, LoopFacts
<1>3. mem.apply_idx \in Nat /\ made.peers \in Nat
  BY <1>2 DEF Settled, MemOK, Counters
<1>4. /\ mem'.apply_idx = mem.apply_idx + 1 /\ DOMAIN mem' = Fields
      /\ \A f \in Fields \ {"apply_idx"} : mem'[f] = mem[f]
  BY <1>1, <1>2 DEF Settled, MemOK, Fields
<1>5. done'.nodes = done.nodes + 1 /\ DOMAIN done' = {"rounds", "pairs", "nodes"}
  BY <1>1, <1>2 DEF Settled, MemOK
<1>6. MemOK'
  BY <1>1, <1>2, <1>3, <1>4, <1>5 DEF Settled, MemOK, Counters, Fields
<1>7. /\ mem'.have_result = mem.have_result /\ mem'.phase = "APPLY"
      /\ mem'.apply_ending = mem.apply_ending
  BY <1>1, <1>4 DEF Fields
<1>8. LoopIsTrue' /\ CommandIsWhole'
  BY <1>1, <1>2, <1>3, <1>4, <1>5, <1>7 DEF Settled, LoopIsTrue, CommandIsWhole
<1>9. \A f \in Untouched : mem'[f] = mem[f]
  BY <1>4 DEF Untouched, Fields
<1> QED
  BY <1>1, <1>2, <1>6, <1>8, <1>9, LoopKeeps

\* The write comes when every node was visited, and its cache is due if it succeeded.
LEMMA PersistTInv ==
  ASSUME TInv, NEW written \in BOOLEAN, Persist(written)
  PROVE  TInv'
<1>1. /\ mem.phase = "APPLY" /\ ~saving /\ ~mem.apply_ending /\ mem.apply_idx >= made.peers
      /\ \/ written /\ flash' = [flash EXCEPT !.survey = mem.res] /\ saving' = TRUE
         \/ ~written /\ flash' = flash /\ saving' = FALSE
      /\ mem' = [mem EXCEPT !.apply_ending = TRUE]
      /\ made' = [made EXCEPT !.nodes = done.nodes]
      /\ UNCHANGED <<done, shellVars>>
  BY DEF Persist, InPhase, ReachesCache
<1>2. Settled /\ writes' = <<>> /\ reads' = reads /\ told' = told
  BY <1>1, LoopFacts
<1>3. /\ DOMAIN flash' = {"survey", "ref"} /\ flash'.ref = flash.ref
      /\ IF saving' THEN flash'.survey = mem.res ELSE flash'.survey = flash.survey
  BY <1>1, <1>2 DEF Settled, MemOK
<1>4. DOMAIN mem' = Fields /\ \A f \in Fields \ {"apply_ending"} : mem'[f] = mem[f]
  BY <1>1, <1>2 DEF Settled, MemOK, Fields
<1>5. /\ mem'.phase = "APPLY" /\ mem'.have_result = mem.have_result
      /\ mem'.origin = mem.origin /\ mem'.up = mem.up
      /\ mem'.lat = mem.lat /\ mem'.lon = mem.lon
      /\ mem'.node0 = mem.node0 /\ mem'.node1 = mem.node1
      /\ mem'.res = mem.res /\ mem'.quality = mem.quality
      /\ mem'.redundancy = mem.redundancy /\ mem'.apply_idx = mem.apply_idx
  BY <1>1, <1>4 DEF Fields
<1>6. /\ DOMAIN made' = {"rounds", "pairs", "nodes", "peers", "origin", "up"}
      /\ made'.nodes = done.nodes /\ made'.peers = made.peers /\ made'.rounds = made.rounds
      /\ made'.pairs = made.pairs /\ made'.origin = made.origin /\ made'.up = made.up
  BY <1>1, <1>2 DEF Settled, MemOK
<1>7. MemOK'
  BY <1>1, <1>2, <1>3, <1>4, <1>6 DEF Settled, MemOK, Counters, Fields
<1>8. done.nodes = mem.apply_idx /\ mem.apply_idx = made.peers
  BY <1>1, <1>2 DEF Settled, MemOK, Counters, LoopIsTrue
<1>9. LoopIsTrue' /\ CommandIsWhole'
  BY <1>1, <1>2, <1>5, <1>6, <1>8 DEF Settled, MemOK, LoopIsTrue, CommandIsWhole
<1>10. Settled'
  BY <1>1, <1>2, <1>3, <1>5, <1>7, <1>9 DEF Settled
<1> QED
  BY <1>2, <1>10, SettledStep

\* The cache becomes what was written.
LEMMA CacheSurveyTInv ==
  ASSUME TInv, CacheSurvey
  PROVE  TInv'
<1>1. /\ saving /\ saving' = FALSE
      /\ mem' = [mem EXCEPT !.node0 = mem.res, !.node1 = mem.res]
      /\ UNCHANGED <<flash, done, made, shellVars>>
  BY DEF CacheSurvey
<1>2. Settled /\ writes' = <<>> /\ reads' = reads /\ told' = told
  BY <1>1, LoopFacts
<1>3. /\ DOMAIN mem' = Fields /\ mem'.node0 = mem.res /\ mem'.node1 = mem.res
      /\ \A f \in Fields \ {"node0", "node1"} : mem'[f] = mem[f]
  BY <1>1, <1>2 DEF Settled, MemOK, Fields
<1>4. /\ mem'.phase = mem.phase /\ mem'.have_result = mem.have_result
      /\ mem'.origin = mem.origin /\ mem'.up = mem.up
      /\ mem'.lat = mem.lat /\ mem'.lon = mem.lon
      /\ mem'.res = mem.res /\ mem'.quality = mem.quality
      /\ mem'.redundancy = mem.redundancy /\ mem'.apply_idx = mem.apply_idx
      /\ mem'.apply_ending = mem.apply_ending
  BY <1>3 DEF Fields
<1>5. MemOK'
  BY <1>1, <1>2, <1>3 DEF Settled, MemOK, Counters, Fields
<1>6. LoopIsTrue' /\ CommandIsWhole'
  BY <1>1, <1>2, <1>4 DEF Settled, LoopIsTrue, CommandIsWhole
<1>7. Settled'
  BY <1>1, <1>2, <1>3, <1>4, <1>5, <1>6 DEF Settled
<1> QED
  BY <1>2, <1>7, SettledStep

\* An apply ends.
LEMMA ApplyEndsTInv ==
  ASSUME TInv, ApplyEnds
  PROVE  TInv'
<1>1. /\ mem.phase = "APPLY" /\ ~saving
      /\ mem' = [mem EXCEPT !.phase = "IDLE", !.apply_ending = FALSE]
      /\ UNCHANGED <<flash, saving, done, made, shellVars>>
  BY DEF ApplyEnds, InPhase
<1>2. Settled /\ writes' = <<>> /\ reads' = reads /\ told' = told
  BY <1>1, LoopFacts
<1>3. /\ DOMAIN mem' = Fields /\ mem'.phase = "IDLE"
      /\ \A f \in Fields \ {"phase", "apply_ending"} : mem'[f] = mem[f]
  BY <1>1, <1>2 DEF Settled, MemOK, Fields
<1>4. MemOK'
  BY <1>1, <1>2, <1>3 DEF Settled, MemOK, Counters, Fields
<1>5. mem'.have_result = mem.have_result
  BY <1>3 DEF Fields
<1>6. LoopIsTrue' /\ CommandIsWhole'
  BY <1>1, <1>2, <1>3, <1>5 DEF Settled, LoopIsTrue, CommandIsWhole
<1>7. \A f \in Untouched : mem'[f] = mem[f]
  BY <1>3 DEF Untouched, Fields
<1> QED
  BY <1>1, <1>2, <1>4, <1>6, <1>7, LoopKeeps

\* The uplink only reads, and so does a step that does nothing.
LEMMA ReaderTInv ==
  ASSUME TInv, UNCHANGED <<mem, flash, writes, reads, told, saving, done, made>>
  PROVE  TInv'
<1>1. \A f, v : Will(f, v)' <=> Will(f, v)
  BY DEF Will
<1>2. (\A p : Starts(p)' <=> Starts(p)) /\ (Drops' <=> Drops)
  BY DEF Starts, Drops
<1>3. WritesOK' /\ MemOK' /\ LoopIsTrue' /\ CommandIsWhole'
  BY DEF TInv, WritesOK, MemOK, LoopIsTrue, CommandIsWhole
<1>4. CommandFirst' /\ OneGauge'
  BY <1>1, <1>2 DEF TInv, CommandFirst, OneGauge
<1>5. CacheTellsFlash'
  <2>1. PICK r, s : r = flash.ref /\ s = flash.survey
    OBVIOUS
  <2>2. flash'.ref = r /\ flash'.survey = s
    BY <2>1
  <2> QED
    BY <1>1, <2>1, <2>2 DEF TInv, CacheTellsFlash
<1>6. OneResult' /\ ReportIsTrue'
  BY <1>1, <1>2 DEF TInv, OneResult, ReportIsTrue
<1> QED
  BY <1>3, <1>4, <1>5, <1>6 DEF TInv

\* After boot the shared variables are what is on flash.
LEMMA BootFacts ==
  ASSUME NEW stored
  PROVE  /\ DOMAIN Boot(stored) = Fields
         /\ \A f \in Counters : Boot(stored)[f] = 0
         /\ Boot(stored).phase = "IDLE" /\ Boot(stored).have_result = FALSE
         /\ Boot(stored).origin = Boot(stored).up
         /\ Boot(stored).lat = stored.ref /\ Boot(stored).lon = stored.ref
         /\ Boot(stored).node0 = stored.survey /\ Boot(stored).node1 = stored.survey
<1>1. PICK no, s, r : no = FALSE /\ s = stored.survey /\ r = stored.ref
  OBVIOUS
<1> DEFINE b ==
  [phase |-> "IDLE", session |-> 0, is_run |-> no, enum_round |-> 0,
   peers |-> 0, pair_idx |-> 0, pair_total |-> 0, apply_idx |-> 0,
   apply_ending |-> no, have_result |-> no, accepted |-> no,
   res |-> 0, quality |-> 0, redundancy |-> 0,
   origin |-> 0, up |-> 0, node0 |-> s, node1 |-> s, lat |-> r, lon |-> r]
<1>2. Boot(stored) = b
  BY <1>1 DEF Boot
<1>3. /\ DOMAIN b = Fields
      /\ b.phase = "IDLE" /\ b.have_result = no /\ b.origin = b.up
      /\ b.lat = r /\ b.lon = r /\ b.node0 = s /\ b.node1 = s
  BY DEF Fields
<1>4. \A f \in Counters : b[f] = 0
  BY DEF Counters
<1> HIDE DEF b
<1> QED
  BY <1>1, <1>2, <1>3, <1>4

\* The session is not forgotten: the next is new.
LEMMA RebootTInv ==
  ASSUME TInv, Reboot
  PROVE  TInv'
<1>1. /\ mem' = [Boot(flash) EXCEPT !.session = mem.session]
      /\ writes' = <<>> /\ reads' = <<>> /\ told' = {} /\ ~saving' /\ done' = Nothing
      /\ UNCHANGED <<flash, made>>
  BY DEF Reboot
<1>2. mem.session \in Nat
  BY DEF TInv, MemOK, Counters
<1>3. /\ DOMAIN mem' = Fields /\ \A f \in Counters : mem'[f] \in Nat
      /\ mem'.phase = "IDLE" /\ mem'.have_result = FALSE /\ mem'.origin = mem'.up
      /\ mem'.lat = flash.ref /\ mem'.lon = flash.ref
      /\ mem'.node0 = flash.survey /\ mem'.node1 = flash.survey
  <2>1. PICK stored, m, n : stored = flash /\ m = mem' /\ n = mem.session
    OBVIOUS
  <2>2. n \in Nat /\ m = [Boot(stored) EXCEPT !.session = n]
    BY <1>1, <1>2, <2>1
  <2>3. /\ DOMAIN m = Fields /\ \A f \in Counters : m[f] \in Nat
        /\ m.phase = "IDLE" /\ m.have_result = FALSE /\ m.origin = m.up
        /\ m.lat = stored.ref /\ m.lon = stored.ref
        /\ m.node0 = stored.survey /\ m.node1 = stored.survey
    <3>1. "session" \in Fields /\ Counters \subseteq Fields
      BY DEF Fields, Counters
    <3>2. DOMAIN Boot(stored) = Fields
      BY BootFacts
    <3>3. DOMAIN m = Fields /\ m["session"] = n
          /\ \A f \in Fields \ {"session"} : m[f] = Boot(stored)[f]
      BY <2>2, <3>1, <3>2
    <3>4. {"phase", "have_result", "origin", "up", "lat", "lon", "node0", "node1"} \subseteq
            Fields \ {"session"}
      BY DEF Fields
    <3>5. PICK b : b = Boot(stored)
      OBVIOUS
    <3>6. /\ \A f \in Counters : b[f] = 0
          /\ b["phase"] = "IDLE" /\ b["origin"] = b["up"]
          /\ b["lat"] = stored.ref /\ b["lon"] = stored.ref
          /\ b["node0"] = stored.survey /\ b["node1"] = stored.survey
      BY <3>5, BootFacts
    <3>7. b["have_result"] = FALSE
      BY <3>5, BootFacts
    <3>8. m["have_result"] = FALSE
      BY <3>3, <3>4, <3>5, <3>7
    <3>9. \A f \in Counters : m[f] \in Nat
      BY <2>2, <3>1, <3>3, <3>5, <3>6
    <3> QED
      BY <3>3, <3>4, <3>5, <3>6, <3>8, <3>9
  <2> QED
    BY <2>1, <2>3, Zenon
<1>4. MemOK'
  BY <1>1, <1>3 DEF TInv, MemOK, Nothing
<1>5. LoopIsTrue' /\ CommandIsWhole'
  BY <1>3 DEF LoopIsTrue, CommandIsWhole
<1>6. /\ \E s : s # 0 /\ told' \subseteq {s}
      /\ reads' \in Seq({"res", "quality", "redundancy"})
  <2>1. 1 # 0 /\ told' \subseteq {1}
    BY <1>1
  <2> QED
    BY <1>1, <2>1
<1>7. Settled'
  BY <1>1, <1>3, <1>4, <1>5, <1>6 DEF Settled
<1> QED
  BY <1>1, <1>7, SettledStep

-----------------------------------------------------------------------------
(* The theorems *)

LEMMA InitTInv ==
  ASSUME Init
  PROVE  TInv
<1>1. /\ flash = [survey |-> 0, ref |-> 0] /\ mem = Boot(flash)
      /\ writes = <<>> /\ reads = <<>> /\ told = {} /\ ~saving /\ done = Nothing
      /\ made = [rounds |-> 0, pairs |-> 0, nodes |-> 0, peers |-> 0, origin |-> 0, up |-> 0]
  BY DEF Init
<1>2. /\ DOMAIN mem = Fields /\ \A f \in Counters : mem[f] \in Nat
      /\ mem.phase = "IDLE" /\ mem.have_result = FALSE /\ mem.origin = mem.up
      /\ mem.lat = flash.ref /\ mem.lon = flash.ref
      /\ mem.node0 = flash.survey /\ mem.node1 = flash.survey
  <2>1. PICK b, m : b = flash /\ m = mem
    OBVIOUS
  <2>2. m = Boot(b)
    BY <1>1, <2>1
  <2>3. /\ DOMAIN m = Fields /\ \A f \in Counters : m[f] = 0
        /\ m.phase = "IDLE" /\ m.have_result = FALSE /\ m.origin = m.up
        /\ m.lat = b.ref /\ m.lon = b.ref
        /\ m.node0 = b.survey /\ m.node1 = b.survey
    BY <2>2, BootFacts, Zenon
  <2>4. \A f \in Counters : m[f] \in Nat
    BY <2>3
  <2> QED
    BY <2>1, <2>3, <2>4, Zenon
<1>3. MemOK
  BY <1>1, <1>2 DEF MemOK, Nothing
<1>4. LoopIsTrue /\ CommandIsWhole
  BY <1>2 DEF LoopIsTrue, CommandIsWhole
<1>5. /\ \E s : s # 0 /\ told \subseteq {s}
      /\ reads \in Seq({"res", "quality", "redundancy"})
  <2>1. 1 # 0 /\ told \subseteq {1}
    BY <1>1
  <2> QED
    BY <1>1, <2>1
<1>6. Settled
  BY <1>1, <1>2, <1>3, <1>4, <1>5 DEF Settled
<1> QED
  BY <1>1, <1>6, SettledTInv

\* The invariant of the three threads is inductive: every statement of the
\* shell, of the loop and of the uplink keeps it, in whatever order they come.
THEOREM ThreadsInductive == Spec => []TInv
<1>1. Init => TInv
  BY InitTInv
<1>2. TInv /\ [Next]_vars => TInv'
  <2> SUFFICES ASSUME TInv, [Next]_vars PROVE TInv'
    OBVIOUS
  <2>1. CASE Shell
    <3>1. ASSUME NEW g \in Gauges, SetGauge(g) PROVE TInv'
      BY <3>1, SetGaugeTInv
    <3>2. CASE StartEnum
      BY <3>2, StartEnumTInv
    <3>3. CASE StartRun
      BY <3>3, StartRunTInv
    <3>4. CASE Show
      BY <3>4, ShowTInv
    <3>5. ASSUME NEW force \in BOOLEAN, StartApply(force) PROVE TInv'
      BY <3>5, StartApplyTInv
    <3>6. ASSUME NEW r \in Refs, NEW written \in BOOLEAN, SetRef(r, written) PROVE TInv'
      BY <3>6, SetRefTInv
    <3>7. CASE Assign
      BY <3>7, AssignTInv
    <3>8. CASE Read
      BY <3>8, ReadTInv
    <3> QED
      BY <2>1, <3>1, <3>2, <3>3, <3>4, <3>5, <3>6, <3>7, <3>8 DEF Shell
  <2>2. CASE Loop
    <3>1. ASSUME NEW found \in 0..MaxNodes, EnumRound(found) PROVE TInv'
      BY <3>1, EnumRoundTInv
    <3>2. CASE EnumEnds
      BY <3>2, EnumEndsTInv
    <3>3. CASE PairIsOver
      BY <3>3, PairIsOverTInv
    <3>4. CASE SolveFails
      BY <3>4, SolveFailsTInv
    <3>5. ASSUME NEW verdict \in BOOLEAN, Solve(verdict) PROVE TInv'
      BY <3>5, SolveTInv
    <3>6. CASE ApplyNode
      BY <3>6, ApplyNodeTInv
    <3>7. ASSUME NEW written \in BOOLEAN, Persist(written) PROVE TInv'
      BY <3>7, PersistTInv
    <3>8. CASE CacheSurvey
      BY <3>8, CacheSurveyTInv
    <3>9. CASE ApplyEnds
      BY <3>9, ApplyEndsTInv
    <3> QED
      BY <2>2, <3>1, <3>2, <3>3, <3>4, <3>5, <3>6, <3>7, <3>8, <3>9 DEF Loop
  <2>3. CASE Uplink
    <3>1. UNCHANGED <<mem, flash, writes, reads, told, saving, done, made>>
      BY <2>3 DEF Uplink, FormatMap, FormatField, shellVars
    <3> QED
      BY <3>1, ReaderTInv
  <2>4. CASE Reboot
    BY <2>4, RebootTInv
  <2>5. CASE UNCHANGED vars
    BY <2>5, ReaderTInv DEF vars
  <2> QED
    BY <2>1, <2>2, <2>3, <2>4, <2>5 DEF Next
<1> QED
  BY <1>1, <1>2, PTL DEF Spec

\* The loop works on whole commands: the phase is the last variable that
\* apos_gw_start_run() and its like assign, so a result rests on every round
\* and every pair of its run and on one gauge, and an apply visits every node.
THEOREM AlwaysCommandIsWhole == Spec => []CommandIsWhole
<1>1. TInv => CommandIsWhole
  BY DEF TInv
<1> QED
  BY <1>1, ThreadsInductive, PTL

\* `apos show' and `apos apply' tell of one result, although the loop may run
\* between the words they read: a result in place is kept while they read it.
THEOREM AlwaysReportIsOfOneResult == Spec => []ReportIsOfOneResult
<1>1. TInv => ReportIsOfOneResult
  <2> SUFFICES ASSUME TInv PROVE ReportIsOfOneResult
    OBVIOUS
  <2>1. PICK s : s # 0 /\ told \subseteq {s}
    BY DEF TInv, ReportIsTrue
  <2>2. told = {} \/ told = {s}
    BY <2>1
  <2>3. Cardinality(told) <= 1
    <3>1. CASE told = {}
      BY <3>1, FS_EmptySet
    <3>2. CASE told = {s}
      BY <3>2, FS_Singleton
    <3> QED
      BY <2>2, <3>1, <3>2
  <2> QED
    BY <2>1, <2>3 DEF ReportIsOfOneResult
<1> QED
  BY <1>1, ThreadsInductive, PTL

\* What apos_store_get() returns is on flash, between a write and its copy
\* excepted: the cache follows the flash, and only if the flash took it.
THEOREM AlwaysStoreTellsFlash == Spec => []StoreTellsFlash
<1>1. TInv => StoreTellsFlash
  <2> SUFFICES ASSUME TInv PROVE StoreTellsFlash
    OBVIOUS
  <2>1. ASSUME writes = <<>> PROVE mem.lat = flash.ref /\ mem.lon = flash.ref
    BY <2>1, TInvSettled DEF Settled
  <2>2. ASSUME ~saving PROVE mem.node0 = flash.survey /\ mem.node1 = flash.survey
    BY <2>2 DEF TInv, CacheTellsFlash, WritesOK, Will
  <2> QED
    BY <2>1, <2>2 DEF StoreTellsFlash
<1> QED
  BY <1>1, ThreadsInductive, PTL
=============================================================================

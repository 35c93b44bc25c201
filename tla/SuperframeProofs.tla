-------------------------- MODULE SuperframeProofs --------------------------
(***************************************************************************)
(* The superframe in time, for any durations that satisfy the assumptions  *)
(* of the module: the gateway's cadence and the types (FInv), and what the *)
(* anchor's prediction is worth (KInv).                                    *)
(*                                                                         *)
(* The prediction knows instants only modulo Wrap.  KInv says which beacon *)
(* it stands for: the prediction is the same reading as a beacon foretold  *)
(* by the last one heard (Follows), and those it has stepped over lie      *)
(* behind all that the anchor may still ask about (PassedBehind).  Within  *)
(* half a turn of the last beacon the comparisons are then exact; beyond,  *)
(* everything foretold is long past, so an answer they let through is      *)
(* harmless.  A retry needs no clock at all: the reading that refused it   *)
(* is a pause old (RetryReady).                                            *)
(***************************************************************************)
EXTENDS Superframe, WellFoundedInduction, TLAPS

\* What division of an integer by a positive number returns.
LEMMA IntegerDivision ==
  ASSUME NEW x \in Int, NEW d \in Nat \ {0}
  PROVE  /\ x \div d \in Int
         /\ x % d \in 0 .. (d - 1)
         /\ x = d * (x \div d) + (x % d)
BY SMT

\* A set of naturals that is not empty has a least element.
LEMMA LeastElement ==
  ASSUME NEW S \in SUBSET Nat, S # {}
  PROVE  \E k \in S : \A j \in S : k <= j
<1> DEFINE R == OpToRel(<, Nat)
<1>1. IsWellFoundedOn(R, Nat)
  BY NatLessThanWellFounded
<1>2. \A x, y \in Nat : y < x => <<y, x>> \in R
  BY Zenon DEF OpToRel
<1> HIDE DEF R
<1>3. \E x \in S : \A y \in S : ~ (<<y, x>> \in R)
  BY <1>1, WFMin
<1>4. \E x \in S : \A y \in S : ~ (y < x)
  BY <1>2, <1>3, Zenon
<1> HIDE <1>1, <1>2, <1>3
<1> QED
  BY <1>4

\* A reading of the counter is one of its values.
LEMMA ClockValue ==
  ASSUME NEW d \in Nat
  PROVE  d % Wrap \in Clock
BY GuardAssumption, IntegerDivision DEF Clock

\* Stepping the prediction over beacons, within the misses left, keeps its type.
LEMMA AheadType ==
  ASSUME NEW p \in Prediction, NEW k \in 0 .. Spare(p)
  PROVE  Ahead(p, k) \in Prediction
<1>1. p.next \in Nat /\ p.misses \in 0 .. MaxMisses /\ MaxMisses \in Nat /\ Period \in Nat
  BY GuardAssumption DEF Prediction, Clock
<1>2. k \in Nat /\ p.misses + k \in 0 .. MaxMisses
  BY <1>1 DEF Spare
<1>3. k * Period \in Nat
  BY <1>1, <1>2
<1>4. (p.next + k * Period) % Wrap \in Clock
  BY <1>1, <1>3, ClockValue
<1> QED
  BY <1>2, <1>4 DEF Ahead, Prediction

\* Rolling a prediction forward keeps its type.
LEMMA RolledType ==
  ASSUME NEW p \in Prediction, NEW tx \in Clock
  PROVE  Rolled(p, tx) \in Prediction
<1> DEFINE reach == {k \in 0 .. Spare(p) : ~Past(Ahead(p, k), tx)}
<1>1. Spare(p) \in 0 .. Spare(p)
  BY GuardAssumption DEF Prediction, Spare
<1>2. CASE ~p.locked
  BY <1>2 DEF Rolled
<1>3. CASE p.locked /\ reach = {}
  <2>1. Ahead(p, Spare(p)) \in Prediction
    BY <1>1, AheadType
  <2> QED
    BY <1>3, <2>1 DEF Rolled, Stale, Prediction
<1>4. CASE p.locked /\ reach # {}
  <2> DEFINE least == CHOOSE k \in reach : \A j \in reach : k <= j
  <2>1. Spare(p) \in Nat
    BY GuardAssumption DEF Prediction, Spare
  <2>2. reach \in SUBSET Nat
    BY <2>1
  <2>3. \E k \in reach : \A j \in reach : k <= j
    <3> HIDE DEF reach
    <3> QED
      BY <1>4, <2>2, LeastElement
  <2>4. least \in reach
    BY <2>3
  <2>5. Ahead(p, least) \in Prediction
    BY <2>4, AheadType
  <2> QED
    BY <1>4, <2>5 DEF Rolled
<1> QED
  BY <1>2, <1>3, <1>4

\* The gateway is back in time, and everything has its type.
FInv == TypeOK /\ BeaconIsReady

\* It holds at the start.
LEMMA FInvInit == Init => FInv
<1> SUFFICES ASSUME Init PROVE FInv
  OBVIOUS
<1> USE GuardAssumption, FrameAssumption
<1>1. Anchored(Start % Wrap) \in Prediction
  <2>1. Start % Wrap \in Clock
    BY ClockValue
  <2>2. (Start % Wrap) + Period \in Nat
    BY <2>1 DEF Clock
  <2>3. ((Start % Wrap) + Period) % Wrap \in Clock
    BY <2>2, ClockValue
  <2> QED
    BY <2>3 DEF Anchored, Prediction
<1>2. Unlocked \in Prediction
  BY DEF Unlocked, Prediction, Clock
<1>3. TypeOK
  <2>1. Start \in Nat /\ Body \in Nat /\ MaxFrames \in Nat /\ MaxWork \in Nat /\ MaxFaults \in Nat
    OBVIOUS
  <2>2. g \in Prediction /\ heard \in Nat
    BY <1>1, <1>2, <2>1 DEF Init
  <2>3. last \in [what : Verdicts, at : Nat, basis : Nat]
    BY DEF Init, Nothing, Verdicts
  <2>4. job \in Job \cup {NoJob} /\ deaf \in Nat
    BY <2>1 DEF Init
  <2>5. now \in Nat /\ next \in Nat /\ free \in Nat /\ onAir \in Nat
    BY <2>1 DEF Init
  <2>6. on \in BOOLEAN /\ hurt \in BOOLEAN
    BY DEF Init
  <2>7. frames \in 0 .. MaxFrames /\ work \in 0 .. MaxWork /\ faults \in 0 .. MaxFaults
    BY <2>1 DEF Init
  <2> QED
    BY <2>2, <2>3, <2>4, <2>5, <2>6, <2>7 DEF TypeOK
<1>4. BeaconIsReady
  BY DEF Init, BeaconIsReady, Armed
<1> QED
  BY <1>3, <1>4 DEF FInv

\* The instants at which the gateway's beacons find the anchor keep the anchor's
\* types.
LEMMA ObserveType ==
  ASSUME TypeOK, NEW t \in Nat, Observe(t)
  PROVE  /\ g' \in Prediction /\ heard' \in Nat /\ deaf' \in Nat
         /\ job' \in Job \cup {NoJob}
         /\ last' \in [what : Verdicts, at : Nat, basis : Nat]
<1> USE GuardAssumption, FrameAssumption
<1>1. Anchored(t % Wrap) \in Prediction
  <2>1. t % Wrap \in Clock
    BY ClockValue
  <2>2. (t % Wrap) + Period \in Nat
    BY <2>1 DEF Clock
  <2>3. ((t % Wrap) + Period) % Wrap \in Clock
    BY <2>2, ClockValue
  <2> QED
    BY <2>3 DEF Anchored, Prediction
<1>2. g' \in Prediction /\ heard' \in Nat
  BY <1>1 DEF Observe, TypeOK
<1>3. deaf' \in Nat
  BY DEF Observe, TypeOK, Later
<1>4. last' \in [what : Verdicts, at : Nat, basis : Nat]
  BY DEF Observe, TypeOK, Nothing, Verdicts
<1> QED
  BY <1>2, <1>3, <1>4 DEF Observe, TypeOK

-----------------------------------------------------------------------------
\* The gateway's handlers.

\* A GRANT leaves the gateway's loop in time for the beacon.
LEMMA GrantStep ==
  ASSUME FInv, NEW t \in Int, Grant(t)
  PROVE  FInv'
<1> USE FrameAssumption
<1>1. /\ t \in Nat /\ now' = t /\ t <= next - Margin
      /\ Margin \in Nat /\ Turnaround \in Nat /\ Body \in Nat /\ ArmLead \in Nat
      /\ GwTxTimeout \in Nat /\ MaxWork \in Nat /\ MaxFaults \in Nat
  BY DEF FInv, TypeOK, Grant, Listens, NothingDueBefore
<1>2. work' \in 0 .. MaxWork /\ faults' \in 0 .. MaxFaults
  BY <1>1 DEF FInv, TypeOK, Grant, Work, Fault
<1>3. free' \in Nat
  BY <1>1 DEF FInv, TypeOK, Grant
<1>4. TypeOK'
  <2>1. on' \in BOOLEAN /\ hurt' \in BOOLEAN
    BY Zenon DEF FInv, TypeOK, Grant
  <2> QED
    BY <1>1, <1>2, <1>3, <2>1 DEF FInv, TypeOK, Grant, anchor
<1>5. BeaconIsReady'
  <2>1. CASE hurt' = TRUE
    BY <2>1 DEF BeaconIsReady
  <2>2. CASE free' = t + Turnaround + Body
    BY <1>1, <2>2 DEF FInv, TypeOK, Grant, BeaconIsReady, Armed
  <2> QED
    BY <2>1, <2>2 DEF Grant
<1> QED
  BY <1>4, <1>5 DEF FInv

\* A step of the survey, the solve included, leaves the loop in time.
LEMMA SurveyStepStep ==
  ASSUME FInv, NEW t \in Int, SurveyStep(t)
  PROVE  FInv'
<1> USE FrameAssumption
<1>1. /\ t \in Nat /\ now' = t /\ t <= next - Margin
      /\ Margin \in Nat /\ StepBudget \in Nat /\ SolveBudget \in Nat /\ ArmLead \in Nat
      /\ MaxWork \in Nat /\ ArmLead <= Margin
  BY DEF FInv, TypeOK, SurveyStep, Listens, NothingDueBefore
<1>2. work' \in 0 .. MaxWork
  BY <1>1 DEF FInv, TypeOK, SurveyStep, Work
<1>3. PICK d \in StepSpans(t) : free' = t + d
  BY DEF SurveyStep
<1>4. d \in Nat /\ t + d <= next - Margin
  BY <1>1, <1>3 DEF StepSpans, FInv, TypeOK
<1>5. TypeOK'
  BY <1>1, <1>2, <1>3, <1>4 DEF FInv, TypeOK, SurveyStep, anchor
<1>6. BeaconIsReady'
  BY <1>1, <1>3, <1>4 DEF FInv, TypeOK, SurveyStep, BeaconIsReady, Armed
<1> QED
  BY <1>5, <1>6 DEF FInv

\* A beacon that goes out leaves a whole superframe for the next.
LEMMA BeaconSentStep == FInv /\ BeaconSent => FInv'
<1> SUFFICES ASSUME FInv, BeaconSent PROVE FInv'
  OBVIOUS
<1> USE FrameAssumption, GuardAssumption
<1>1. /\ next \in Nat /\ Body \in Nat /\ Period \in Nat /\ MaxFrames \in Nat
      /\ ArmLead \in Nat /\ Body + ArmLead <= Margin /\ Margin < Period
  BY DEF FInv, TypeOK
<1>2. /\ now' = next /\ onAir' = next /\ next' = next + Period /\ free' = next + Body
      /\ hurt' = FALSE /\ frames' = frames + 1 /\ frames < MaxFrames
      /\ UNCHANGED <<on, work, faults>>
  BY DEF BeaconSent
<1>3. /\ g' \in Prediction /\ heard' \in Nat /\ deaf' \in Nat
      /\ job' \in Job \cup {NoJob} /\ last' \in [what : Verdicts, at : Nat, basis : Nat]
  BY <1>1, ObserveType DEF FInv, BeaconSent
<1>4. TypeOK'
  <2>1. on' \in BOOLEAN /\ hurt' \in BOOLEAN
    BY <1>2, Zenon DEF FInv, TypeOK
  <2>2. /\ now' \in Nat /\ next' \in Nat /\ free' \in Nat /\ onAir' \in Nat
        /\ frames' \in 0 .. MaxFrames /\ work' \in 0 .. MaxWork
        /\ faults' \in 0 .. MaxFaults
    BY <1>1, <1>2, <1>3 DEF FInv, TypeOK
  <2> QED
    BY <2>1, <2>2, <1>1, <1>2, <1>3 DEF FInv, TypeOK
<1>5. BeaconIsReady'
  BY <1>1, <1>2 DEF BeaconIsReady, Armed
<1> QED
  BY <1>4, <1>5 DEF FInv

\* After a beacon that was missed the next one is a whole superframe away.
LEMMA BeaconMissedStep == FInv /\ BeaconMissed => FInv'
<1> SUFFICES ASSUME FInv, BeaconMissed PROVE FInv'
  OBVIOUS
<1> USE FrameAssumption, GuardAssumption
<1>1. /\ next \in Nat /\ free \in Nat /\ Period \in Nat /\ MaxFrames \in Nat
      /\ ArmLead \in Nat /\ ArmLead <= Period
  BY DEF FInv, TypeOK
<1>2. /\ now' = next /\ next' = free + Period
      /\ hurt' = FALSE /\ frames' = frames + 1 /\ frames < MaxFrames
      /\ UNCHANGED <<on, free, onAir, work, faults, g, heard, deaf, job, last>>
  BY DEF BeaconMissed, anchor
<1>3. TypeOK'
  <2>1. on' \in BOOLEAN /\ hurt' \in BOOLEAN
    BY <1>2, Zenon DEF FInv, TypeOK
  <2>2. /\ now' \in Nat /\ next' \in Nat /\ free' \in Nat /\ onAir' \in Nat
        /\ frames' \in 0 .. MaxFrames /\ work' \in 0 .. MaxWork
        /\ faults' \in 0 .. MaxFaults
    BY <1>1, <1>2 DEF FInv, TypeOK
  <2> QED
    BY <2>1, <2>2, <1>1, <1>2 DEF FInv, TypeOK
<1>4. BeaconIsReady'
  BY <1>1, <1>2 DEF BeaconIsReady, Armed
<1> QED
  BY <1>3, <1>4 DEF FInv

\* After a beacon whose completion is not seen the next one is a whole
\* superframe away.
LEMMA BeaconStuckStep == FInv /\ BeaconStuck => FInv'
<1> SUFFICES ASSUME FInv, BeaconStuck PROVE FInv'
  OBVIOUS
<1> USE FrameAssumption, GuardAssumption
<1>1. /\ next \in Nat /\ free \in Nat /\ Period \in Nat /\ MaxFrames \in Nat
      /\ MaxFaults \in Nat /\ Margin \in Nat /\ GwTxTimeout \in Nat
      /\ ArmLead \in Nat /\ ArmLead <= Period
  BY DEF FInv, TypeOK
<1>2. /\ now' = next /\ free' = Later(free, next - Margin) + GwTxTimeout
      /\ next' = free' + Period /\ hurt' = FALSE
      /\ frames' = frames + 1 /\ frames < MaxFrames
      /\ faults < MaxFaults /\ faults' = faults + 1
      /\ UNCHANGED <<on, work>>
  BY DEF BeaconStuck, Fault
<1>3. free' \in Nat /\ next' \in Nat
  BY <1>1, <1>2 DEF Later
<1>4. /\ onAir' \in Nat /\ g' \in Prediction /\ heard' \in Nat /\ deaf' \in Nat
      /\ job' \in Job \cup {NoJob} /\ last' \in [what : Verdicts, at : Nat, basis : Nat]
  <2>1. CASE onAir' = next /\ Observe(next)
    BY <1>1, <2>1, ObserveType DEF FInv
  <2>2. CASE UNCHANGED <<onAir, anchor>>
    BY <2>2 DEF FInv, TypeOK, anchor
  <2> QED
    BY <2>1, <2>2 DEF BeaconStuck
<1>5. TypeOK'
  <2>1. on' \in BOOLEAN /\ hurt' \in BOOLEAN
    BY <1>2, Zenon DEF FInv, TypeOK
  <2>2. /\ now' \in Nat /\ next' \in Nat /\ free' \in Nat /\ onAir' \in Nat
        /\ frames' \in 0 .. MaxFrames /\ work' \in 0 .. MaxWork
        /\ faults' \in 0 .. MaxFaults
    BY <1>1, <1>2, <1>3, <1>4 DEF FInv, TypeOK
  <2> QED
    BY <2>1, <2>2, <1>1, <1>2, <1>3, <1>4 DEF FInv, TypeOK
<1>6. BeaconIsReady'
  BY <1>1, <1>2, <1>3 DEF BeaconIsReady, Armed
<1> QED
  BY <1>5, <1>6 DEF FInv

\* A gateway that loses its power owes no beacon.
LEMMA PowerCutStep == FInv /\ PowerCut => FInv'
<1> SUFFICES ASSUME FInv, PowerCut PROVE FInv'
  OBVIOUS
<1> USE FrameAssumption
<1>1. TypeOK'
  <2>1. on' \in BOOLEAN /\ hurt' \in BOOLEAN
    BY Zenon DEF FInv, TypeOK, PowerCut
  <2>2. /\ now' \in Nat /\ next' \in Nat /\ free' \in Nat /\ onAir' \in Nat
        /\ frames' \in 0 .. MaxFrames /\ work' \in 0 .. MaxWork
        /\ faults' \in 0 .. MaxFaults
    BY DEF FInv, TypeOK, PowerCut, Fault, anchor
  <2> QED
    BY <2>1, <2>2 DEF FInv, TypeOK, PowerCut, Fault, anchor
<1>2. BeaconIsReady'
  BY DEF PowerCut, BeaconIsReady
<1> QED
  BY <1>1, <1>2 DEF FInv

\* A gateway that starts sends its beacon at once.
LEMMA PowerOnStep ==
  ASSUME FInv, NEW t \in Int, PowerOn(t)
  PROVE  FInv'
<1> USE FrameAssumption, GuardAssumption
<1>1. /\ t \in Nat /\ Period \in Nat /\ MaxFrames \in Nat
      /\ ArmLead \in Nat /\ ArmLead <= Period
  BY DEF FInv, TypeOK, PowerOn, NothingDueBefore
<1>2. /\ now' = t /\ on' = TRUE /\ free' = t /\ onAir' = t /\ next' = t + Period
      /\ frames' = frames + 1 /\ frames < MaxFrames
      /\ UNCHANGED <<hurt, work, faults>>
  BY DEF PowerOn
<1>3. /\ g' \in Prediction /\ heard' \in Nat /\ deaf' \in Nat
      /\ job' \in Job \cup {NoJob} /\ last' \in [what : Verdicts, at : Nat, basis : Nat]
  BY <1>1, ObserveType DEF FInv, PowerOn
<1>4. TypeOK'
  BY <1>1, <1>2, <1>3 DEF FInv, TypeOK
<1>5. BeaconIsReady'
  BY <1>1, <1>2 DEF BeaconIsReady, Armed
<1> QED
  BY <1>4, <1>5 DEF FInv

-----------------------------------------------------------------------------
\* The anchor's.  None touches the gateway.
LEMMA GatewayKept ==
  ASSUME BeaconIsReady, UNCHANGED gateway
  PROVE  BeaconIsReady'
BY DEF BeaconIsReady, Armed, gateway

\* What the anchor says has its type.
LEMMA SaysType ==
  ASSUME TypeOK, NEW what \in Verdicts, NEW at \in Nat, Says(what, at)
  PROVE  last' \in [what : Verdicts, at : Nat, basis : Nat]
BY DEF TypeOK, Says

\* The answer to a poll, however it ends, keeps the types.
LEMMA PollStep ==
  ASSUME FInv, NEW t \in Int, NEW d \in Delays, Poll(t, d)
  PROVE  FInv'
<1> USE FrameAssumption
<1> DEFINE tx == t + d
<1>1. /\ t \in Nat /\ d \in Nat /\ tx \in Nat /\ Body \in Nat
      /\ AnchorTxTimeout \in Nat /\ MaxWork \in Nat /\ MaxFaults \in Nat
  BY DEF FInv, TypeOK, Poll, Hears, NothingDueBefore
<1>2. g' \in Prediction
  <2>1. tx % Wrap \in Clock
    BY <1>1, ClockValue
  <2> QED
    BY <2>1, RolledType DEF FInv, TypeOK, Poll
<1>3. \E what \in Verdicts : Says(what, tx)
  BY DEF Poll, Verdicts
<1>4. last' \in [what : Verdicts, at : Nat, basis : Nat]
  BY <1>1, <1>3, SaysType DEF FInv
<1>5. deaf' \in Nat
  BY <1>1 DEF Poll
<1>6. work' \in 0 .. MaxWork /\ faults' \in 0 .. MaxFaults
  <2>1. work' \in 0 .. MaxWork
    BY <1>1 DEF FInv, TypeOK, Poll, Work
  <2>2. UNCHANGED faults \/ Fault
    BY DEF Poll
  <2> QED
    BY <1>1, <2>1, <2>2 DEF FInv, TypeOK, Fault
<1>7. now' = t /\ UNCHANGED <<gateway, heard, job>>
  BY DEF Poll
<1>8. TypeOK'
  BY <1>1, <1>2, <1>4, <1>5, <1>6, <1>7 DEF FInv, TypeOK, gateway
<1> QED
  BY <1>7, <1>8, GatewayKept DEF FInv

\* A command is worked at for a natural time.
LEMMA SpanType ==
  ASSUME NEW kind \in {"begin", "range", "setpos"}, NEW span \in WorkSpans(kind)
  PROVE  span \in Nat
<1> USE FrameAssumption
<1>1. CASE kind = "begin"
  <2>1. PICK s \in Slots : span = s * EnumSlot
    BY <1>1 DEF WorkSpans
  <2>2. s \in Nat /\ EnumSlot \in Nat
    OBVIOUS
  <2>3. s * EnumSlot \in Nat
    BY <2>2
  <2> QED
    BY <2>1, <2>3
<1>2. CASE kind = "range"
  BY <1>2 DEF WorkSpans, BatchSpans
<1>3. CASE kind = "setpos"
  BY <1>3 DEF WorkSpans
<1> QED
  BY <1>1, <1>2, <1>3

\* A command that is taken keeps the types.
LEMMA CommandStep ==
  ASSUME FInv, NEW t \in Int, NEW kind \in {"begin", "range", "setpos"},
         NEW span \in WorkSpans(kind), Command(t, kind, span)
  PROVE  FInv'
<1> USE FrameAssumption
<1>1. t \in Nat /\ span \in Nat /\ MaxWork \in Nat
  BY SpanType DEF FInv, TypeOK, Command, Hears, NothingDueBefore
<1>2. job' \in Job
  <2>1. (t - heard <= Period) \in BOOLEAN /\ Tries(kind) \in 1 .. 2
    BY DEF Tries
  <2>2. t + span \in Nat
    BY <1>1
  <2> QED
    BY <2>1, <2>2 DEF Command, Job
<1>3. now' = t /\ deaf' = t + span /\ UNCHANGED <<gateway, faults, g, heard, last>>
  BY DEF Command
<1>4. work' \in 0 .. MaxWork
  BY <1>1 DEF FInv, TypeOK, Command, Work
<1>5. TypeOK'
  BY <1>1, <1>2, <1>3, <1>4 DEF FInv, TypeOK, gateway
<1> QED
  BY <1>3, <1>5, GatewayKept DEF FInv

\* A reply that is not sent leaves a job with its types.
LEMMA NotSentType ==
  ASSUME TypeOK, job # NoJob, NEW refused \in BOOLEAN, NEW until \in Nat,
         NotSent(refused, until)
  PROVE  job' \in Job \cup {NoJob} /\ deaf' \in Nat
<1> USE FrameAssumption
<1>1. RetryAt(until) \in Nat
  BY DEF RetryAt
<1>2. job \in Job
  BY DEF TypeOK
<1>3. CASE job.tries > 1
  <2>1. job.tries - 1 \in 1 .. 2
    BY <1>2, <1>3 DEF Job
  <2>2. job' = [job EXCEPT !.due = RetryAt(until), !.tries = job.tries - 1,
                           !.refused = refused]
    BY <1>3 DEF NotSent
  <2>3. job' \in Job
    BY <1>1, <1>2, <2>1, <2>2 DEF Job
  <2> QED
    BY <1>1, <1>3, <2>3 DEF NotSent
<1>4. CASE ~(job.tries > 1)
  BY <1>4 DEF NotSent
<1> QED
  BY <1>3, <1>4

\* A reply, however it ends, keeps the types.
LEMMA ReplyStep == FInv /\ Reply => FInv'
<1> SUFFICES ASSUME FInv, Reply PROVE FInv'
  OBVIOUS
<1> USE FrameAssumption
<1> DEFINE asked == job.due + Lookahead
<1>1. job # NoJob /\ job \in Job /\ job.due \in Nat
  BY DEF FInv, TypeOK, Reply, Job
<1>2. /\ asked \in Nat /\ Preamble \in Nat /\ Body \in Nat /\ NodeTxTimeout \in Nat
      /\ MaxFaults \in Nat
  BY <1>1
<1>3. g' \in Prediction
  <2>1. asked % Wrap \in Clock
    BY <1>2, ClockValue
  <2> QED
    BY <2>1, RolledType DEF FInv, TypeOK, Reply
<1>4. /\ job' \in Job \cup {NoJob} /\ deaf' \in Nat
      /\ last' \in [what : Verdicts, at : Nat, basis : Nat]
  <2>0. /\ "reply" \in Verdicts /\ "failed" \in Verdicts
        /\ job.due + Preamble \in Nat /\ job.due + Preamble + Body \in Nat
    BY <1>1, <1>2 DEF Verdicts
  <2>1. CASE ~Allowed(g, asked % Wrap)
    <3>1. PICK what \in {"refused", "refused again"} : Says(what, asked)
      BY <2>1 DEF Reply
    <3>2. NotSent(TRUE, job.due)
      BY <2>1 DEF Reply
    <3>3. last' \in [what : Verdicts, at : Nat, basis : Nat]
      BY <1>2, <3>1, SaysType DEF FInv, Verdicts
    <3> QED
      BY <1>1, <3>2, <3>3, NotSentType DEF FInv
  <2>2. CASE Says("reply", job.due + Preamble) /\ job' = NoJob
             /\ deaf' = job.due + Preamble + Body
    BY <2>2, <2>0, SaysType DEF FInv
  <2>3. CASE Says("failed", job.due + Preamble)
             /\ \E wait \in {0, NodeTxTimeout} : NotSent(FALSE, job.due + wait)
    <3>1. last' \in [what : Verdicts, at : Nat, basis : Nat]
      BY <2>3, <2>0, SaysType DEF FInv
    <3>2. PICK wait \in {0, NodeTxTimeout} : NotSent(FALSE, job.due + wait)
      BY <2>3
    <3>3. job.due + wait \in Nat
      BY <1>1, <1>2
    <3> QED
      BY <1>1, <3>1, <3>2, <3>3, NotSentType DEF FInv
  <2> QED
    BY <2>1, <2>2, <2>3 DEF Reply
<1>5. now' = job.due /\ UNCHANGED <<gateway, work, heard>>
  BY DEF Reply
<1>6. faults' \in 0 .. MaxFaults
  <2>1. UNCHANGED faults \/ Fault
    BY DEF Reply
  <2> QED
    BY <1>2, <2>1 DEF FInv, TypeOK, Fault
<1>7. TypeOK'
  BY <1>1, <1>3, <1>4, <1>5, <1>6 DEF FInv, TypeOK, gateway
<1> QED
  BY <1>5, <1>7, GatewayKept DEF FInv

-----------------------------------------------------------------------------
\* A step of anyone keeps the invariant.
LEMMA FInvStep == FInv /\ [Next]_vars => FInv'
<1> SUFFICES ASSUME FInv, [Next]_vars PROVE FInv'
  OBVIOUS
<1> USE FrameAssumption
<1>1. now \in Nat /\ next \in Nat /\ onAir \in Nat /\ heard \in Nat /\ Period \in Nat
  BY GuardAssumption DEF FInv, TypeOK
<1>2. CASE GatewayNext
  <2>1. ASSUME NEW o \in GwOffsets, Grant(next - o) PROVE FInv'
    BY <1>1, <2>1, GrantStep
  <2>2. ASSUME NEW o \in GwOffsets, SurveyStep(next - o) PROVE FInv'
    BY <1>1, <2>2, SurveyStepStep
  <2>3. ASSUME NEW s \in Spells, PowerOn(onAir + s) PROVE FInv'
    BY <1>1, <2>3, PowerOnStep
  <2> QED
    BY <1>2, <2>1, <2>2, <2>3, BeaconSentStep, BeaconMissedStep, BeaconStuckStep,
       PowerCutStep DEF GatewayNext
<1>3. CASE AnchorNext
  <2>1. \A at : \A x \in Instants(at) : x \in Int
    BY <1>1 DEF Instants
  <2>2. ASSUME NEW d \in Delays, NEW x \in Instants(now + d), Poll(x - d, d)
        PROVE  FInv'
    <3>1. x - d \in Int
      BY <2>1
    <3> QED
      BY <2>2, <3>1, PollStep
  <2>3. ASSUME NEW kind \in {"begin", "range", "setpos"}, NEW d \in WorkSpans(kind),
               NEW x \in Instants(now + (d + Lookahead)),
               Command(x - (d + Lookahead), kind, d)
        PROVE  FInv'
    <3>1. d + Lookahead \in Int
      BY SpanType
    <3>2. x - (d + Lookahead) \in Int
      BY <2>1, <3>1
    <3> QED
      BY <2>3, <3>2, CommandStep
  <2> QED
    BY <1>3, <2>2, <2>3, ReplyStep DEF AnchorNext
<1>4. CASE UNCHANGED vars
  BY <1>4 DEF FInv, TypeOK, BeaconIsReady, Armed, vars, gateway, anchor
<1> QED
  BY <1>2, <1>3, <1>4 DEF Next

\* The types hold in every behaviour of the superframe (uwb_gateway.c:315-417,
\* uwb_slave.c:295-371): in particular the prediction never counts more misses
\* than it may, and a reply is tried at most twice.
THEOREM FrameTypeCorrect == Spec => []TypeOK
<1>1. FInv => TypeOK
  BY DEF FInv
<1> QED
  BY <1>1, FInvInit, FInvStep, PTL DEF Spec

\* In every behaviour the gateway is back from what it does in time for its
\* beacon, unless a transmission has failed to complete (uwb_gateway.c:319-383):
\* for any durations with which the margin covers a GRANT and the arming of the
\* beacon.
THEOREM AlwaysBeaconIsReady == Spec => []BeaconIsReady
<1>1. FInv => BeaconIsReady
  BY DEF FInv
<1> QED
  BY <1>1, FInvInit, FInvStep, PTL DEF Spec

-----------------------------------------------------------------------------
(***************************************************************************)
(* The counter.  Instants that differ by whole turns of it are the same to *)
(* the prediction; a difference is told apart within half a turn.          *)
(***************************************************************************)

\* Quotient and remainder are unique.
LEMMA RemainderUnique ==
  ASSUME NEW d \in Nat \ {0}, NEW p \in Int, NEW q \in Int,
         NEW r \in 0 .. (d - 1), NEW s \in 0 .. (d - 1),
         d * p + r = d * q + s
  PROVE  p = q /\ r = s
<1>1. d * (p - q) = d * p - d * q
  BY Z3
<1>2. d * (p - q) = s - r
  <2>1. d * p \in Int /\ d * q \in Int
    OBVIOUS
  <2> QED
    BY <1>1, <2>1
<1>3. ~(p - q >= 1)
  <2>1. p - q >= 1 => d * (p - q) >= d
    BY Z3
  <2> QED
    BY <1>2, <2>1
<1>4. ~(q - p >= 1)
  <2>1. q - p >= 1 => d * (p - q) <= 0 - d
    BY Z3
  <2> QED
    BY <1>2, <2>1
<1>5. p = q
  BY <1>3, <1>4
<1> QED
  BY <1>5

\* Two instants that the counter cannot tell apart.
Same(x, y) == x % Wrap = y % Wrap

\* Whole turns make no difference.
LEMMA SameTurns ==
  ASSUME NEW x \in Int, NEW y \in Int, NEW q \in Int, x = y + Wrap * q
  PROVE  Same(x, y)
<1>1. Wrap \in Nat \ {0}
  BY GuardAssumption
<1>2. /\ x \div Wrap \in Int /\ x % Wrap \in 0 .. (Wrap - 1)
      /\ x = Wrap * (x \div Wrap) + (x % Wrap)
  BY <1>1, IntegerDivision
<1>3. /\ y \div Wrap \in Int /\ y % Wrap \in 0 .. (Wrap - 1)
      /\ y = Wrap * (y \div Wrap) + (y % Wrap)
  BY <1>1, IntegerDivision
<1> DEFINE a == x \div Wrap
           b == y \div Wrap
           r == x % Wrap
           s == y % Wrap
<1> HIDE DEF a, b, r, s
<1>4. Wrap * (b + q) = Wrap * b + Wrap * q
  <2>1. b \in Int
    BY <1>3 DEF b
  <2> QED
    BY <1>1, <2>1, Z3
<1>5. Wrap * a + r = Wrap * (b + q) + s
  <2>1. x = Wrap * a + r /\ y = Wrap * b + s
    BY <1>2, <1>3 DEF a, b, r, s
  <2>2. a \in Int /\ b \in Int /\ r \in Int /\ s \in Int
    BY <1>1, <1>2, <1>3 DEF a, b, r, s
  <2>3. Wrap * a \in Int /\ Wrap * b \in Int /\ Wrap * q \in Int
    BY <1>1, <2>2
  <2> HIDE <1>1
  <2> QED
    BY <1>4, <2>1, <2>2, <2>3
<1>6. a \in Int /\ b + q \in Int /\ r \in 0 .. (Wrap - 1) /\ s \in 0 .. (Wrap - 1)
  BY <1>2, <1>3 DEF a, b, r, s
<1>7. r = s
  <2> DEFINE c == b + q
  <2>1. c \in Int /\ Wrap * a + r = Wrap * c + s
    BY <1>5, <1>6
  <2> HIDE DEF c
  <2> QED
    BY <1>1, <1>6, <2>1, RemainderUnique
<1> QED
  BY <1>7 DEF Same, r, s

\* Two that are the same are whole turns apart.
LEMMA TurnsApart ==
  ASSUME NEW x \in Int, NEW y \in Int, Same(x, y)
  PROVE  \E q \in Int : x = y + Wrap * q
<1>1. Wrap \in Nat \ {0}
  BY GuardAssumption
<1> DEFINE a == x \div Wrap
           b == y \div Wrap
<1>2. a \in Int /\ x % Wrap \in Int /\ x = Wrap * a + (x % Wrap)
  BY <1>1, IntegerDivision
<1>3. b \in Int /\ y % Wrap \in Int /\ y = Wrap * b + (y % Wrap)
  BY <1>1, IntegerDivision
<1> HIDE DEF a, b
<1>4. Wrap * (a - b) = Wrap * a - Wrap * b
  BY <1>1, <1>2, <1>3, Z3
<1>5. Wrap * a \in Int /\ Wrap * b \in Int
  BY <1>1, <1>2, <1>3
<1>6. x = y + Wrap * (a - b)
  BY <1>2, <1>3, <1>4, <1>5 DEF Same
<1>7. a - b \in Int
  BY <1>2, <1>3
<1> QED
  BY <1>6, <1>7

\* A reading is the same as the instant, and is one of the counter's values.
LEMMA Reading ==
  ASSUME NEW x \in Int
  PROVE  x % Wrap \in Clock /\ Same(x % Wrap, x)
<1>1. Wrap \in Nat \ {0}
  BY GuardAssumption
<1>2. x \div Wrap \in Int /\ x % Wrap \in 0 .. (Wrap - 1) /\ x = Wrap * (x \div Wrap) + (x % Wrap)
  BY <1>1, IntegerDivision
<1>3. x % Wrap = x + Wrap * (0 - (x \div Wrap))
  <2>1. Wrap * (0 - (x \div Wrap)) = 0 - Wrap * (x \div Wrap)
    BY <1>1, <1>2, Z3
  <2> DEFINE t == Wrap * (x \div Wrap)
  <2>2. t \in Int
    BY <1>1, <1>2
  <2> QED
    BY <1>2, <2>1, <2>2
<1>4. 0 - (x \div Wrap) \in Int /\ x % Wrap \in Int
  BY <1>1, <1>2
<1> QED
  BY <1>2, <1>3, <1>4, SameTurns DEF Clock

\* Sameness goes through sums and differences.
LEMMA SameSum ==
  ASSUME NEW x \in Int, NEW y \in Int, NEW u \in Int, NEW v \in Int,
         Same(x, y), Same(u, v)
  PROVE  Same(x + u, y + v) /\ Same(x - u, y - v)
<1>1. PICK p \in Int : x = y + Wrap * p
  BY TurnsApart
<1>2. PICK q \in Int : u = v + Wrap * q
  BY TurnsApart
<1>3. Wrap \in Int
  BY GuardAssumption
<1>4. Wrap * (p + q) = Wrap * p + Wrap * q /\ Wrap * (p - q) = Wrap * p - Wrap * q
  BY <1>3, Z3
<1>5. Wrap * p \in Int /\ Wrap * q \in Int
  BY <1>3
<1>6. x + u = (y + v) + Wrap * (p + q) /\ x - u = (y - v) + Wrap * (p - q)
  BY <1>1, <1>2, <1>4, <1>5
<1>7. p + q \in Int /\ p - q \in Int
  OBVIOUS
<1> QED
  BY <1>6, <1>7, SameTurns

\* Within half a turn a difference is what its sign in the code says.
LEMMA SignedNear ==
  ASSUME NEW x \in Int, NEW d \in Int, Same(x, d), 0 - Wrap <= 2 * d, 2 * d < Wrap
  PROVE  Signed(x) = d
<1>1. Wrap \in Nat \ {0}
  BY GuardAssumption
<1>2. x % Wrap = d % Wrap
  BY DEF Same
<1>3. d \div Wrap \in Int /\ d % Wrap \in 0 .. (Wrap - 1) /\ d = Wrap * (d \div Wrap) + (d % Wrap)
  BY <1>1, IntegerDivision
<1>4. Wrap * 0 = 0 /\ Wrap * (0 - 1) = 0 - Wrap
  BY <1>1, Z3
<1>5. CASE d >= 0
  <2>1. d \in 0 .. (Wrap - 1) /\ Wrap * 0 + d = Wrap * (d \div Wrap) + (d % Wrap)
    BY <1>1, <1>3, <1>4, <1>5
  <2>2. d = d % Wrap
    BY <1>1, <1>3, <2>1, RemainderUnique
  <2> QED
    BY <1>2, <2>2 DEF Signed
<1>6. CASE d < 0
  <2>1. d + Wrap \in 0 .. (Wrap - 1) /\ Wrap * (0 - 1) + (d + Wrap) = d
    BY <1>1, <1>4, <1>6
  <2>2. d + Wrap = d % Wrap
    BY <1>1, <1>3, <2>1, RemainderUnique
  <2>3. ~(2 * (d + Wrap) < Wrap)
    BY <1>1
  <2> QED
    BY <1>1, <1>2, <2>2, <2>3 DEF Signed
<1> QED
  BY <1>5, <1>6

\* Signed picks the representative within half a turn.
LEMMA SignedIs ==
  ASSUME NEW x \in Int
  PROVE  /\ Signed(x) \in Int /\ Same(Signed(x), x)
         /\ 0 - Wrap <= 2 * Signed(x) /\ 2 * Signed(x) < Wrap
<1>1. Wrap \in Nat \ {0}
  BY GuardAssumption
<1> DEFINE r == x % Wrap
<1>2. r \in 0 .. (Wrap - 1) /\ Same(r, x)
  BY Reading DEF Clock
<1>3. Same(r - Wrap, x)
  <2>1. Wrap * (0 - 1) = 0 - Wrap
    BY <1>1, Z3
  <2>2. r - Wrap = r + Wrap * (0 - 1) /\ r - Wrap \in Int /\ r \in Int
    BY <1>1, <1>2, <2>1
  <2>3. Same(r - Wrap, r)
    BY <2>2, SameTurns
  <2> QED
    BY <1>2, <2>3 DEF Same
<1> HIDE DEF r
<1> QED
  BY <1>1, <1>2, <1>3 DEF Signed, r

-----------------------------------------------------------------------------
(***************************************************************************)
(* The beacons that one heard at h foretells, and what the prediction says *)
(* of them.                                                                *)
(***************************************************************************)

\* The k-th beacon after h.
BeaconAt(h, k) == h + k * Period

\* The beacons are a Period apart.
LEMMA BeaconsApart ==
  ASSUME NEW h \in Int, NEW j \in Nat, NEW k \in Nat
  PROVE  /\ BeaconAt(h, k) \in Int /\ BeaconAt(h, 0) = h
         /\ BeaconAt(h, k + 1) = BeaconAt(h, k) + Period
         /\ BeaconAt(h, j + k) = BeaconAt(h, j) + k * Period
         /\ j <= k => BeaconAt(h, j) <= BeaconAt(h, k)
         /\ j < k => BeaconAt(h, j) + Period <= BeaconAt(h, k)
<1>1. Period \in Nat \ {0}
  BY GuardAssumption
<1>2. /\ j * Period \in Int /\ k * Period \in Int /\ 0 * Period = 0
      /\ (k + 1) * Period = k * Period + Period
      /\ (j + k) * Period = j * Period + k * Period
  BY <1>1, Z3
<1>3. j <= k => j * Period <= k * Period
  BY <1>1, Z3
<1>4. j < k => j * Period + Period <= k * Period
  <2>1. j + 1 <= k => (j + 1) * Period <= k * Period
    BY <1>1, Z3
  <2>2. (j + 1) * Period = j * Period + Period
    BY <1>1, Z3
  <2> QED
    BY <2>1, <2>2
<1> QED
  BY <1>1, <1>2, <1>3, <1>4 DEF BeaconAt

\* A lock lies within half a turn of the counter.
LEMMA LockIsShort ==
  ASSUME NEW h \in Int, NEW k \in 0 .. MaxMisses + 1
  PROVE  /\ BeaconAt(h, k) \in Int /\ h <= BeaconAt(h, k)
         /\ BeaconAt(h, k) <= BeaconAt(h, MaxMisses + 1)
         /\ 2 * (BeaconAt(h, MaxMisses + 1) + 2 * Period - h) < Wrap
<1>1. MaxMisses \in Nat /\ Period \in Nat \ {0} /\ 2 * (MaxMisses + 3) * Period < Wrap
      /\ Wrap \in Nat
  BY GuardAssumption
<1>2. k \in Nat /\ MaxMisses + 1 \in Nat
  BY <1>1
<1>3. BeaconAt(h, k) <= BeaconAt(h, MaxMisses + 1) /\ BeaconAt(h, k) \in Int
  BY <1>1, <1>2, BeaconsApart
<1>4. BeaconAt(h, 0) <= BeaconAt(h, k) /\ BeaconAt(h, 0) = h
  <2>1. 0 \in Nat /\ 0 <= k
    BY <1>2
  <2> QED
    BY <1>2, <2>1, BeaconsApart
<1>5. 2 * (BeaconAt(h, MaxMisses + 1) + 2 * Period - h) < Wrap
  <2>1. (MaxMisses + 1) * Period + 2 * Period = (MaxMisses + 3) * Period
    BY <1>1, Z3
  <2>2. 2 * (MaxMisses + 3) * Period = 2 * ((MaxMisses + 3) * Period)
    BY <1>1, Z3
  <2> DEFINE m == (MaxMisses + 1) * Period
             n == (MaxMisses + 3) * Period
  <2>3. m \in Int /\ n \in Int /\ m + 2 * Period = n /\ 2 * n < Wrap
    BY <1>1, <2>1, <2>2
  <2>4. BeaconAt(h, MaxMisses + 1) = h + m
    BY DEF BeaconAt
  <2> HIDE DEF m, n
  <2> QED
    BY <1>1, <2>3, <2>4
<1> QED
  BY <1>3, <1>4, <1>5

\* Behind the window: what the code's comparison says within half a turn.
LEMMA PastMeans ==
  ASSUME NEW p \in Prediction, NEW n \in Int, NEW x \in Int, Same(p.next, n),
         0 - Wrap <= 2 * (x - n - Occupancy - Guard), 2 * (x - n - Occupancy - Guard) < Wrap
  PROVE  Past(p, x % Wrap) <=> x > n + Occupancy + Guard
<1>1. Occupancy \in Int /\ Guard \in Int /\ Wrap \in Nat \ {0} /\ p.next \in Int
  BY GuardAssumption DEF Prediction, Clock
<1>2. x % Wrap \in Int /\ Same(x % Wrap, x)
  BY <1>1, Reading DEF Clock
<1> DEFINE w == Occupancy + Guard
<1>3. w \in Int /\ Same(w, w)
  BY <1>1 DEF Same
<1> HIDE DEF w
<1>4. Same(p.next + w, n + w)
  BY <1>1, <1>3, SameSum
<1>5. Same((x % Wrap) - (p.next + w), x - (n + w))
  <2>1. p.next + w \in Int /\ n + w \in Int
    BY <1>1, <1>3
  <2> QED
    BY <1>2, <1>4, <2>1, SameSum
<1> USE DEF w
<1>6. /\ (x % Wrap) - (p.next + w) = (x % Wrap) - (p.next + Occupancy + Guard)
      /\ x - (n + w) = x - n - Occupancy - Guard
      /\ (x % Wrap) - (p.next + Occupancy + Guard) \in Int
      /\ x - n - Occupancy - Guard \in Int
  BY <1>1, <1>2
<1>7. Signed((x % Wrap) - (p.next + Occupancy + Guard)) = x - n - Occupancy - Guard
  BY <1>5, <1>6, SignedNear
<1> QED
  BY <1>1, <1>7 DEF Past

\* Before the window, likewise.
LEMMA BeforeMeans ==
  ASSUME NEW p \in Prediction, NEW n \in Int, NEW x \in Int, Same(p.next, n),
         0 - Wrap <= 2 * (x - n + Guard), 2 * (x - n + Guard) < Wrap
  PROVE  Signed((x % Wrap) - (p.next - Guard)) < 0 <=> x < n - Guard
<1>1. Guard \in Int /\ Wrap \in Nat \ {0} /\ p.next \in Int
  BY GuardAssumption DEF Prediction, Clock
<1>2. x % Wrap \in Int /\ Same(x % Wrap, x)
  BY <1>1, Reading DEF Clock
<1>3. Same(Guard, Guard)
  BY DEF Same
<1>4. Same(p.next - Guard, n - Guard)
  BY <1>1, <1>3, SameSum
<1>5. Same((x % Wrap) - (p.next - Guard), x - (n - Guard))
  <2>1. p.next - Guard \in Int /\ n - Guard \in Int
    BY <1>1
  <2> QED
    BY <1>2, <1>4, <2>1, SameSum
<1>6. /\ x - (n - Guard) = x - n + Guard
      /\ (x % Wrap) - (p.next - Guard) \in Int /\ x - n + Guard \in Int
  BY <1>1, <1>2
<1>7. Signed((x % Wrap) - (p.next - Guard)) = x - n + Guard
  BY <1>5, <1>6, SignedNear
<1> QED
  BY <1>1, <1>7

\* A prediction that was rolled is either the first whose window tx is not
\* behind, or dropped because tx is behind them all.
LEMMA RolledIs ==
  ASSUME NEW p \in Prediction, NEW tx \in Clock, p.locked
  PROVE  \E k \in 0 .. Spare(p) :
           /\ \A j \in 0 .. k - 1 : Past(Ahead(p, j), tx)
           /\ \/ Rolled(p, tx) = Ahead(p, k) /\ ~Past(Ahead(p, k), tx)
              \/ /\ k = Spare(p) /\ Past(Ahead(p, k), tx)
                 /\ Rolled(p, tx) = Stale(Ahead(p, k))
<1> DEFINE reach == {k \in 0 .. Spare(p) : ~Past(Ahead(p, k), tx)}
<1>1. Spare(p) \in Nat
  BY GuardAssumption DEF Prediction, Spare
<1>2. CASE reach = {}
  <2>1. Rolled(p, tx) = Stale(Ahead(p, Spare(p)))
    BY <1>2 DEF Rolled
  <2>2. \A j \in 0 .. Spare(p) : Past(Ahead(p, j), tx)
    BY <1>2
  <2>3. Spare(p) \in 0 .. Spare(p) /\ \A j \in 0 .. Spare(p) - 1 : j \in 0 .. Spare(p)
    BY <1>1
  <2> QED
    BY <2>1, <2>2, <2>3
<1>3. CASE reach # {}
  <2> DEFINE least == CHOOSE k \in reach : \A j \in reach : k <= j
  <2>1. reach \in SUBSET Nat
    BY <1>1
  <2>2. \E k \in reach : \A j \in reach : k <= j
    <3> HIDE DEF reach
    <3> QED
      BY <1>3, <2>1, LeastElement
  <2>3. least \in reach /\ \A j \in reach : least <= j
    BY <2>2
  <2>4. Rolled(p, tx) = Ahead(p, least)
    BY <1>3 DEF Rolled
  <2> HIDE DEF least
  <2>5. \A j \in 0 .. least - 1 : Past(Ahead(p, j), tx)
    BY <1>1, <2>3
  <2> QED
    BY <2>3, <2>4, <2>5
<1> QED
  BY <1>2, <1>3

\* The prediction of p follows the beacon heard at h.
Follows(p, h) == p.locked => Same(p.next, BeaconAt(h, p.misses + 1))

\* So does that prediction some beacons on.
LEMMA AheadFollows ==
  ASSUME NEW p \in Prediction, NEW h \in Int, NEW k \in 0 .. Spare(p), p.locked, Follows(p, h)
  PROVE  /\ Ahead(p, k) \in Prediction /\ Ahead(p, k).locked
         /\ Ahead(p, k).misses = p.misses + k
         /\ Same(Ahead(p, k).next, BeaconAt(h, p.misses + k + 1))
         /\ p.misses + k + 1 \in 1 .. MaxMisses + 1
<1>1. p.misses \in 0 .. MaxMisses /\ MaxMisses \in Nat /\ Period \in Nat /\ p.next \in Int
  BY GuardAssumption DEF Prediction, Clock
<1>2. k \in Nat /\ p.misses + k \in 0 .. MaxMisses /\ p.misses + 1 \in Nat
  BY <1>1 DEF Spare
<1>3. Ahead(p, k) \in Prediction
  BY AheadType
<1>4. /\ Ahead(p, k).locked /\ Ahead(p, k).misses = p.misses + k
      /\ Ahead(p, k).next = (p.next + k * Period) % Wrap
  BY DEF Ahead, Prediction
<1>5. BeaconAt(h, p.misses + 1) \in Int /\ k * Period \in Int
      /\ BeaconAt(h, (p.misses + 1) + k) = BeaconAt(h, p.misses + 1) + k * Period
  <2>1. k * Period \in Int
    BY <1>1, <1>2
  <2> QED
    BY <1>2, <2>1, BeaconsApart
<1>6. Same(p.next + k * Period, BeaconAt(h, p.misses + 1) + k * Period)
  <2>1. Same(k * Period, k * Period) /\ Same(p.next, BeaconAt(h, p.misses + 1))
    BY DEF Same, Follows
  <2> QED
    BY <1>1, <1>5, <2>1, SameSum
<1>7. Same((p.next + k * Period) % Wrap, p.next + k * Period)
  <2>1. p.next + k * Period \in Int
    BY <1>1, <1>5
  <2> QED
    BY <2>1, Reading
<1>8. (p.misses + 1) + k = p.misses + k + 1
  BY <1>1, <1>2
<1>9. Same(Ahead(p, k).next, BeaconAt(h, p.misses + k + 1))
  BY <1>4, <1>5, <1>6, <1>7, <1>8 DEF Same
<1> QED
  BY <1>1, <1>2, <1>3, <1>4, <1>9

-----------------------------------------------------------------------------
\* x lies behind the window of the k-th beacon after h.
Behind(h, k, x) == BeaconAt(h, k) + Occupancy + Guard < x

\* What lies behind a beacon lies behind those before it.
LEMMA BehindAll ==
  ASSUME NEW h \in Int, NEW j \in Nat, NEW k \in Nat, NEW x \in Int, j <= k, Behind(h, k, x)
  PROVE  Behind(h, j, x)
<1>1. BeaconAt(h, j) <= BeaconAt(h, k) /\ BeaconAt(h, j) \in Int /\ BeaconAt(h, k) \in Int
  BY BeaconsApart
<1> QED
  BY <1>1, GuardAssumption DEF Behind

\* An instant half a turn or more after h lies behind all that h foretells, and
\* by more than a superframe.
LEMMA FarIsBehind ==
  ASSUME NEW h \in Int, NEW x \in Int, ~(2 * (x - h) < Wrap)
  PROVE  /\ Behind(h, MaxMisses + 1, x)
         /\ BeaconAt(h, MaxMisses + 1) + 2 * Period < x
<1>1. MaxMisses + 1 \in 0 .. MaxMisses + 1 /\ Occupancy + Guard < Period
      /\ Period \in Nat /\ Wrap \in Nat /\ Occupancy \in Nat /\ Guard \in Nat
  BY GuardAssumption
<1>2. BeaconAt(h, MaxMisses + 1) \in Int
      /\ 2 * (BeaconAt(h, MaxMisses + 1) + 2 * Period - h) < Wrap
  BY <1>1, LockIsShort
<1> QED
  BY <1>1, <1>2 DEF Behind

\* Within half a turn of h the comparisons with the beacons it foretells are exact.
LEMMA NearIsExact ==
  ASSUME NEW p \in Prediction, NEW h \in Int, NEW x \in Int, h <= x, 2 * (x - h) < Wrap,
         NEW k \in 1 .. MaxMisses + 1, Same(p.next, BeaconAt(h, k))
  PROVE  /\ Past(p, x % Wrap) <=> Behind(h, k, x)
         /\ ~Behind(h, k, x) =>
              (Signed((x % Wrap) - (p.next - Guard)) < 0 <=> x < BeaconAt(h, k) - Guard)
<1>1. Occupancy \in Nat /\ Guard \in Nat /\ Period \in Nat /\ Wrap \in Nat
      /\ 2 * Guard + Occupancy < Period
  BY GuardAssumption
<1> DEFINE n == BeaconAt(h, k)
           m == BeaconAt(h, MaxMisses + 1)
<1>2. /\ n \in Int /\ m \in Int /\ h <= n /\ n <= m /\ 2 * (m + 2 * Period - h) < Wrap
  <2>1. k \in 0 .. MaxMisses + 1 /\ MaxMisses + 1 \in 0 .. MaxMisses + 1
    BY GuardAssumption
  <2> QED
    BY <2>1, LockIsShort
<1> HIDE DEF n, m
<1>3. 0 - Wrap <= 2 * (x - n - Occupancy - Guard) /\ 2 * (x - n - Occupancy - Guard) < Wrap
  BY <1>1, <1>2
<1>4. Same(p.next, n)
  BY DEF n
<1>5. Past(p, x % Wrap) <=> x > n + Occupancy + Guard
  BY <1>2, <1>3, <1>4, PastMeans
<1>6. Behind(h, k, x) <=> x > n + Occupancy + Guard
  BY <1>1, <1>2 DEF Behind, n
<1>7. ASSUME ~Behind(h, k, x)
      PROVE  Signed((x % Wrap) - (p.next - Guard)) < 0 <=> x < n - Guard
  <2>1. x <= n + Occupancy + Guard
    BY <1>1, <1>2, <1>6, <1>7
  <2>2. 0 - Wrap <= 2 * (x - n + Guard) /\ 2 * (x - n + Guard) < Wrap
    BY <1>1, <1>2, <2>1
  <2> QED
    BY <1>2, <1>4, <2>2, BeforeMeans
<1> QED
  BY <1>5, <1>6, <1>7 DEF n

\* Rolled forward the prediction still follows its beacon, and has stepped only
\* over beacons that the instant lies behind.
LEMMA RolledMeans ==
  ASSUME NEW p \in Prediction, NEW h \in Int, NEW x \in Int, h <= x,
         p.locked, Follows(p, h),
         NEW r, r = Rolled(p, x % Wrap)
  PROVE  /\ r \in Prediction /\ Follows(r, h) /\ p.misses <= r.misses
         /\ r.locked /\ p.misses < r.misses => Behind(h, r.misses, x)
         /\ ~r.locked => Behind(h, MaxMisses + 1, x)
         /\ r.locked => ~(2 * (x - h) < Wrap) \/ ~Behind(h, r.misses + 1, x)
<1>1. x % Wrap \in Clock /\ p.misses \in 0 .. MaxMisses /\ MaxMisses \in Nat
  BY Reading, GuardAssumption DEF Prediction
<1>2. r \in Prediction
  BY <1>1, RolledType
<1>3. PICK k \in 0 .. Spare(p) :
           /\ \A j \in 0 .. k - 1 : Past(Ahead(p, j), x % Wrap)
           /\ \/ r = Ahead(p, k) /\ ~Past(Ahead(p, k), x % Wrap)
              \/ /\ k = Spare(p) /\ Past(Ahead(p, k), x % Wrap)
                 /\ r = Stale(Ahead(p, k))
  BY <1>1, RolledIs
<1>4. k \in Nat /\ p.misses + k \in 0 .. MaxMisses /\ Spare(p) \in Nat
      /\ p.misses + Spare(p) = MaxMisses
  BY <1>1 DEF Spare
<1>5. \A j \in 0 .. k :
        /\ Ahead(p, j) \in Prediction /\ Ahead(p, j).locked
        /\ Ahead(p, j).misses = p.misses + j
        /\ Same(Ahead(p, j).next, BeaconAt(h, p.misses + j + 1))
        /\ p.misses + j + 1 \in 1 .. MaxMisses + 1
  <2> TAKE j \in 0 .. k
  <2>1. j \in 0 .. Spare(p)
    BY <1>4
  <2> QED
    BY <2>1, AheadFollows
<1>6. k \in 0 .. k
  BY <1>4
<1>7. r.locked <=> r = Ahead(p, k) /\ ~Past(Ahead(p, k), x % Wrap)
  BY <1>3, <1>5, <1>6 DEF Stale, Prediction
<1>8. r.misses = p.misses + k
  BY <1>3, <1>5, <1>6 DEF Stale, Prediction
<1>9. Follows(r, h)
  <2>1. CASE r.locked
    BY <1>5, <1>6, <1>7, <1>8 DEF Follows
  <2>2. CASE ~r.locked
    BY <2>2 DEF Follows
  <2> QED
    BY <2>1, <2>2
<1>10. CASE ~(2 * (x - h) < Wrap)
  <2>1. Behind(h, MaxMisses + 1, x)
    BY <1>10, FarIsBehind
  <2>2. r.misses \in Nat /\ r.misses <= MaxMisses + 1 /\ MaxMisses + 1 \in Nat
    BY <1>1, <1>4, <1>8
  <2>3. Behind(h, r.misses, x)
    BY <2>1, <2>2, BehindAll
  <2> QED
    BY <1>1, <1>2, <1>4, <1>8, <1>9, <1>10, <2>1, <2>3
<1>11. CASE 2 * (x - h) < Wrap
  <2>1. \A j \in 0 .. k : Past(Ahead(p, j), x % Wrap) <=> Behind(h, p.misses + j + 1, x)
    BY <1>5, <1>11, NearIsExact
  <2>2. p.misses < r.misses => Behind(h, r.misses, x)
    <3> SUFFICES ASSUME p.misses < r.misses PROVE Behind(h, r.misses, x)
      OBVIOUS
    <3>1. k - 1 \in 0 .. k - 1 /\ k - 1 \in 0 .. k /\ p.misses + (k - 1) + 1 = r.misses
      BY <1>1, <1>4, <1>8
    <3>2. Past(Ahead(p, k - 1), x % Wrap)
      BY <1>3, <3>1
    <3>3. Behind(h, p.misses + (k - 1) + 1, x)
      BY <2>1, <3>1, <3>2
    <3> QED
      BY <3>1, <3>3
  <2>3. ~r.locked => Behind(h, MaxMisses + 1, x)
    <3> SUFFICES ASSUME ~r.locked PROVE Behind(h, MaxMisses + 1, x)
      OBVIOUS
    <3>1. k = Spare(p) /\ Past(Ahead(p, k), x % Wrap)
      BY <1>3, <1>7
    <3>2. Behind(h, p.misses + k + 1, x)
      BY <1>6, <2>1, <3>1
    <3>3. p.misses + k + 1 = MaxMisses + 1
      BY <1>4, <3>1
    <3> QED
      BY <3>2, <3>3
  <2>4. r.locked => ~Behind(h, r.misses + 1, x)
    BY <1>6, <1>7, <1>8, <2>1
  <2> QED
    BY <1>1, <1>2, <1>4, <1>8, <1>9, <2>2, <2>3, <2>4
<1> QED
  BY <1>10, <1>11

\* What an instant that is allowed, or refused, is to the beacons foretold.
LEMMA VerdictMeans ==
  ASSUME NEW p \in Prediction, NEW h \in Int, NEW x \in Int, h <= x,
         p.locked, Follows(p, h),
         NEW r, r = Rolled(p, x % Wrap), r.locked, 2 * (x - h) < Wrap
  PROVE  /\ r.misses + 1 \in 1 .. MaxMisses + 1 /\ ~Behind(h, r.misses + 1, x)
         /\ Allowed(p, x % Wrap) <=> x < BeaconAt(h, r.misses + 1) - Guard
<1>1. /\ r \in Prediction /\ Follows(r, h) /\ ~Behind(h, r.misses + 1, x)
  BY RolledMeans
<1>2. r.misses + 1 \in 1 .. MaxMisses + 1
  BY <1>1, GuardAssumption DEF Prediction
<1>3. Same(r.next, BeaconAt(h, r.misses + 1))
  BY <1>1 DEF Follows
<1>4. Signed((x % Wrap) - (r.next - Guard)) < 0 <=> x < BeaconAt(h, r.misses + 1) - Guard
  BY <1>1, <1>2, <1>3, NearIsExact
<1> QED
  BY <1>1, <1>2, <1>4 DEF Allowed

\* A prediction that was dropped, or never was, stays as it is.
LEMMA UnlockedStays ==
  ASSUME NEW p \in Prediction, NEW tx, ~p.locked
  PROVE  Rolled(p, tx) = p /\ Allowed(p, tx)
BY DEF Rolled, Allowed

-----------------------------------------------------------------------------
(***************************************************************************)
(* What the anchor knows of the air.                                       *)
(***************************************************************************)

\* The first instant that the anchor may still ask about.
Soonest == IF job = NoJob THEN Later(now, deaf + Preamble) ELSE job.due + Lookahead

\* The beacons that its prediction has stepped over.
Passed == IF g.locked THEN g.misses ELSE MaxMisses + 1

\* They lie behind all that it may still ask about.
PassedBehind ==
  Passed > 0 /\ (g.locked \/ heard > 0) => Behind(heard, Passed, Soonest)

InOrder == heard <= now /\ (job # NoJob => now <= job.due)

\* An answer is clear of every beacon that the last one heard foretells, sent or
\* still to come.
AnswerClear ==
  last.what = "answer" /\ last.basis > 0
    => \A k \in 1 .. MaxMisses + 1 : ~Overlap(last.at, BeaconAt(last.basis, k))

\* A reply that was refused waits with the beacon it was refused for as the next.
RetryReady ==
  job # NoJob /\ job.refused =>
    /\ g.locked
    /\ \E u \in 0 .. 2 * Guard + Occupancy :
         Same(g.next, job.due + Lookahead - Pause + Guard - u)

\* The reply to a batch is asked about while the prediction may still hold,
\* however often it is tried.
BatchInTime ==
  job # NoJob /\ job.kind = "range" /\ job.fresh /\ g.locked =>
    job.due + Lookahead + (IF job.tries > 1 THEN NodeTxTimeout + Pause ELSE 0)
      <= BeaconAt(heard, MaxMisses + 1)

KInv ==
  /\ Follows(g, heard) /\ PassedBehind /\ InOrder /\ AnswerClear
  /\ RefusalIsPredicted /\ RetryReady /\ RetryGetsThrough /\ BatchInTime

\* A beacon that is received is followed.
LEMMA AnchoredFollows ==
  ASSUME NEW t \in Nat
  PROVE  Follows(Anchored(t % Wrap), t) /\ Anchored(t % Wrap).misses = 0
         /\ Anchored(t % Wrap).locked
<1>1. Period \in Nat /\ t % Wrap \in Int /\ Same(t % Wrap, t)
  BY GuardAssumption, Reading DEF Clock
<1>2. Same((t % Wrap) + Period, t + Period)
  <2>1. Same(Period, Period)
    BY DEF Same
  <2> QED
    BY <1>1, <2>1, SameSum
<1>3. Same(((t % Wrap) + Period) % Wrap, (t % Wrap) + Period)
  <2>1. (t % Wrap) + Period \in Int
    BY <1>1
  <2> QED
    BY <2>1, Reading
<1>4. BeaconAt(t, 0 + 1) = t + Period
  BY <1>1, BeaconsApart
<1>5. Anchored(t % Wrap) = [next |-> ((t % Wrap) + Period) % Wrap, misses |-> 0, locked |-> TRUE]
  BY DEF Anchored
<1>6. Same(((t % Wrap) + Period) % Wrap, BeaconAt(t, 0 + 1))
  BY <1>2, <1>3, <1>4 DEF Same
<1> QED
  BY <1>5, <1>6 DEF Follows

\* It holds at the start, whether the first beacon was heard or not.
LEMMA KInvInit == Init => KInv
<1> SUFFICES ASSUME Init PROVE KInv
  OBVIOUS
<1>1. Start \in Nat
  BY FrameAssumption
<1>2. Follows(g, heard)
  BY <1>1, AnchoredFollows DEF Init, Unlocked, Follows
<1>3. PassedBehind
  BY <1>1, AnchoredFollows DEF Init, Unlocked, PassedBehind, Passed
<1>4. InOrder
  BY <1>1 DEF Init, InOrder
<1>5. AnswerClear /\ RefusalIsPredicted /\ RetryGetsThrough
  BY DEF Init, Nothing, AnswerClear, RefusalIsPredicted, RetryGetsThrough
<1>6. RetryReady /\ BatchInTime
  BY DEF Init, RetryReady, BatchInTime
<1> QED
  BY <1>2, <1>3, <1>4, <1>5, <1>6 DEF KInv

\* Time passes for the anchor: it hears a beacon, or does not.
Passes ==
  /\ now <= now' /\ (job # NoJob => now' <= job.due)
  /\ job' = job /\ deaf <= deaf' /\ (last' = last \/ last' = Nothing)
  /\ \/ UNCHANGED <<g, heard>>
     \/ job = NoJob /\ g' = Anchored(now' % Wrap) /\ heard' = now'

\* A beacon on the air, heard or not, is time passing.
LEMMA ObservePasses ==
  ASSUME FInv, NEW t \in Nat, Observe(t), now' = t, NothingDueBefore(t)
  PROVE  Passes
<1>1. deaf <= deaf'
  BY FrameAssumption DEF Observe, Later, FInv, TypeOK
<1> QED
  BY <1>1 DEF Observe, Passes, NothingDueBefore

\* So is what does not touch the anchor.
LEMMA StillPasses ==
  ASSUME FInv, UNCHANGED anchor, now' = now \/ NothingDueBefore(now'),
         InOrder
  PROVE  Passes
<1>1. deaf \in Nat /\ now \in Nat
  BY DEF FInv, TypeOK
<1>2. now <= now' /\ (job # NoJob => now' <= job.due)
  BY <1>1 DEF NothingDueBefore, InOrder
<1> QED
  BY <1>1, <1>2 DEF Passes, anchor

\* All that the gateway does is time passing for the anchor.
LEMMA GatewayPasses == FInv /\ InOrder /\ GatewayNext => Passes
<1> SUFFICES ASSUME FInv, InOrder, GatewayNext PROVE Passes
  OBVIOUS
<1>1. next \in Nat
  BY DEF FInv, TypeOK
<1>2. ASSUME NEW t, Grant(t) \/ SurveyStep(t) PROVE Passes
  BY <1>2, StillPasses DEF Grant, SurveyStep
<1>3. BeaconSent => Passes
  BY <1>1, ObservePasses DEF BeaconSent
<1>4. BeaconMissed => Passes
  BY StillPasses DEF BeaconMissed
<1>5. BeaconStuck => Passes
  BY <1>1, ObservePasses, StillPasses DEF BeaconStuck
<1>6. PowerCut => Passes
  BY StillPasses DEF PowerCut
<1>7. ASSUME NEW s \in Spells, PowerOn(onAir + s) PROVE Passes
  <2>1. onAir + s \in Nat
    BY FrameAssumption DEF FInv, TypeOK
  <2> QED
    BY <1>7, <2>1, ObservePasses DEF PowerOn
<1> QED
  BY <1>2, <1>3, <1>4, <1>5, <1>6, <1>7 DEF GatewayNext

\* A later end of what keeps the anchor busy lets it ask later, never sooner.
LEMMA LaterMonotone ==
  ASSUME NEW a \in Nat, NEW b \in Nat, NEW c \in Nat, NEW d \in Nat, NEW p \in Nat,
         a <= c, b <= d
  PROVE  /\ Later(a, b + p) \in Nat /\ Later(c, d + p) \in Nat
         /\ Later(a, b + p) <= Later(c, d + p)
BY DEF Later

\* Time passing keeps the invariant.
LEMMA PassesKeeps == FInv /\ FInv' /\ KInv /\ Passes => KInv'
<1> SUFFICES ASSUME FInv, FInv', KInv, Passes PROVE KInv'
  OBVIOUS
<1>1. /\ now \in Nat /\ now' \in Nat /\ deaf \in Nat /\ deaf' \in Nat /\ heard \in Nat
      /\ heard' \in Nat /\ job \in Job \cup {NoJob} /\ g \in Prediction
      /\ Preamble \in Nat /\ Lookahead \in Nat
  BY FrameAssumption DEF FInv, TypeOK
<1>2. AnswerClear' /\ RefusalIsPredicted' /\ RetryGetsThrough'
  <2>1. CASE last' = last
    BY <2>1 DEF KInv, AnswerClear, RefusalIsPredicted, RetryGetsThrough
  <2>2. CASE last' = Nothing
    BY <2>2 DEF Nothing, AnswerClear, RefusalIsPredicted, RetryGetsThrough
  <2> QED
    BY <2>1, <2>2 DEF Passes
<1>3. CASE UNCHANGED <<g, heard>>
  <2>1. Follows(g, heard)'
    BY <1>3 DEF KInv, Follows
  <2>2. InOrder'
    BY <1>1, <1>3 DEF KInv, InOrder, Passes
  <2>3. RetryReady' /\ BatchInTime'
    BY <1>3 DEF KInv, RetryReady, BatchInTime, Passes
  <2>4. PassedBehind'
    <3>1. Soonest \in Int /\ Soonest' \in Int /\ Soonest <= Soonest'
      <4>1. CASE job = NoJob
        <5>0. now \in Nat /\ now' \in Nat /\ deaf \in Nat /\ deaf' \in Nat /\ Preamble \in Nat
          BY <1>1
        <5>1. now <= now' /\ deaf <= deaf'
          BY DEF Passes
        <5>2. Soonest = Later(now, deaf + Preamble) /\ Soonest' = Later(now', deaf' + Preamble)
          BY <4>1 DEF Soonest, Passes
        <5>3. /\ Later(now, deaf + Preamble) \in Nat /\ Later(now', deaf' + Preamble) \in Nat
              /\ Later(now, deaf + Preamble) <= Later(now', deaf' + Preamble)
          BY <5>0, <5>1, LaterMonotone
        <5> QED
          BY <5>2, <5>3
      <4>2. CASE job # NoJob
        <5>1. job.due \in Nat
          BY <1>1, <4>2 DEF Job
        <5> QED
          BY <1>1, <4>2, <5>1 DEF Soonest, Passes
      <4> QED
        BY <4>1, <4>2
    <3>2. Passed' = Passed /\ Passed \in Nat
      BY <1>1, <1>3, GuardAssumption DEF Passed, Prediction
    <3>3. BeaconAt(heard, Passed) + Occupancy + Guard \in Int
      <4>1. BeaconAt(heard, Passed) \in Int
        BY <1>1, <3>2, BeaconsApart
      <4> QED
        BY <4>1, GuardAssumption
    <3>4. Behind(heard, Passed, Soonest) => Behind(heard, Passed, Soonest')
      BY <3>1, <3>3 DEF Behind
    <3> QED
      BY <1>3, <3>2, <3>4 DEF KInv, PassedBehind
  <2> QED
    BY <1>2, <2>1, <2>2, <2>3, <2>4 DEF KInv
<1>4. CASE job = NoJob /\ g' = Anchored(now' % Wrap) /\ heard' = now'
  <2>1. Follows(g', heard') /\ g'.misses = 0 /\ g'.locked
    BY <1>1, <1>4, AnchoredFollows
  <2>2. Follows(g, heard)'
    BY <2>1 DEF Follows
  <2>3. PassedBehind'
    BY <2>1 DEF PassedBehind, Passed
  <2>4. InOrder' /\ RetryReady' /\ BatchInTime'
    BY <1>1, <1>4 DEF InOrder, RetryReady, BatchInTime, Passes
  <2> QED
    BY <1>2, <2>2, <2>3, <2>4 DEF KInv
<1> QED
  BY <1>3, <1>4 DEF Passes

-----------------------------------------------------------------------------
\* A transmission that is refused finds the prediction locked, and its beacon
\* within the guarded window.
LEMMA RefusedReady ==
  ASSUME NEW p \in Prediction, NEW x \in Int, ~Allowed(p, x % Wrap)
  PROVE  LET r == Rolled(p, x % Wrap)
         IN  /\ p.locked /\ r.locked /\ r \in Prediction
             /\ \E u \in 0 .. 2 * Guard + Occupancy : Same(r.next, x + Guard - u)
<1> DEFINE r == Rolled(p, x % Wrap)
           e == x % Wrap
           w == 2 * Guard + Occupancy
           u == Signed(e - (r.next - Guard))
<1>1. p.locked /\ r.locked /\ ~(u < 0)
  BY DEF Allowed, Rolled
<1>2. e \in Clock /\ e \in Int /\ Same(e, x)
  BY Reading DEF Clock
<1>3. r \in Prediction
  BY <1>2, RolledType
<1>4. /\ Guard \in Nat /\ Occupancy \in Nat /\ Wrap \in Nat /\ r.next \in Int
      /\ 2 * w < Wrap
  <2>1. Guard \in Nat /\ Occupancy \in Nat /\ Wrap \in Nat /\ Period \in Nat \ {0}
        /\ 2 * Guard + Occupancy < Period /\ MaxMisses \in Nat
    BY GuardAssumption
  <2>2. 2 * (BeaconAt(0, MaxMisses + 1) + 2 * Period - 0) < Wrap /\ 0 <= BeaconAt(0, MaxMisses + 1)
        /\ BeaconAt(0, MaxMisses + 1) \in Int
    <3>1. MaxMisses + 1 \in 0 .. MaxMisses + 1
      BY <2>1
    <3> QED
      BY <3>1, LockIsShort
  <2>3. 2 * w < Wrap
    BY <2>1, <2>2
  <2> QED
    BY <1>3, <2>1, <2>3 DEF Prediction, Clock
<1>5. ~Past(r, e)
  <2>1. PICK k \in 0 .. Spare(p) :
           \/ r = Ahead(p, k) /\ ~Past(Ahead(p, k), e)
           \/ r = Stale(Ahead(p, k))
    BY <1>1, <1>2, RolledIs
  <2>2. r # Stale(Ahead(p, k))
    <3>1. Ahead(p, k) \in Prediction
      BY AheadType
    <3> QED
      BY <1>1, <3>1 DEF Stale, Prediction
  <2> QED
    BY <2>1, <2>2
<1> HIDE DEF r, e
<1>6. u \in Int /\ 0 <= u /\ Same(u, e - (r.next - Guard)) /\ 2 * u < Wrap
  <2>1. e - (r.next - Guard) \in Int
    BY <1>2, <1>4
  <2> QED
    BY <1>1, <2>1, SignedIs
<1>7. w \in Nat
  BY <1>4
<1> HIDE DEF u, w
<1> DEFINE z == e - (r.next - Guard)
<1>20. z \in Int /\ Same(u, z)
  BY <1>2, <1>4, <1>6
<1>8. Same(e - (r.next + Occupancy + Guard), u - w)
  <2>1. z - w = e - (r.next + Occupancy + Guard)
    BY <1>2, <1>4 DEF w
  <2> HIDE DEF z
  <2>2. Same(w, w)
    BY DEF Same
  <2>3. Same(u - w, z - w)
    BY <1>6, <1>7, <1>20, <2>2, SameSum
  <2> QED
    BY <2>1, <2>3 DEF Same
<1>9. Past(r, e) <=> Signed(e - (r.next + Occupancy + Guard)) > 0
  BY DEF Past
<1>10. u \in 0 .. w
  <2>1. 0 <= u
    BY <1>6
  <2>2. 0 - Wrap <= 2 * (u - w) /\ 2 * (u - w) < Wrap
    BY <1>4, <1>6, <1>7, <2>1
  <2>3. e - (r.next + Occupancy + Guard) \in Int /\ u - w \in Int
    BY <1>2, <1>4, <1>6, <1>7
  <2>4. Signed(e - (r.next + Occupancy + Guard)) = u - w
    BY <1>8, <2>2, <2>3, SignedNear
  <2> QED
    BY <1>5, <1>6, <1>7, <1>9, <2>1, <2>4
<1>11. Same(r.next, x + Guard - u)
  <2>1. Same(Guard, Guard) /\ x \in Int
    BY DEF Same
  <2>2. Same(e + Guard, x + Guard)
    BY <1>2, <1>4, <2>1, SameSum
  <2>3. (e + Guard) - z = r.next
    BY <1>2, <1>4
  <2> DEFINE a == x + Guard
             b == e + Guard
  <2>4. a \in Int /\ b \in Int /\ Same(a, b)
    BY <1>2, <1>4, <2>2 DEF Same
  <2> HIDE DEF a, b, z
  <2>5. Same(a - u, b - z)
    BY <1>6, <1>20, <2>4, SameSum
  <2>6. b - z = r.next
    BY <2>3 DEF b
  <2>7. a - u = x + Guard - u
    BY <1>4, <1>6 DEF a
  <2>8. Same(a - u, r.next)
    BY <2>5, <2>6
  <2> QED
    BY <2>7, <2>8 DEF Same
<1> QED
  BY <1>1, <1>3, <1>10, <1>11 DEF r, e, w

\* A pause later the same beacon is past, and the one after it not yet near.
LEMMA RetryAllowed ==
  ASSUME NEW p \in Prediction, NEW y \in Int, p.locked,
         NEW u \in 0 .. 2 * Guard + Occupancy, Same(p.next, y - Pause + Guard - u)
  PROVE  Allowed(p, y % Wrap)
<1>1. /\ Guard \in Nat /\ Occupancy \in Nat /\ Wrap \in Nat /\ Period \in Nat \ {0}
      /\ MaxMisses \in Nat /\ p.misses \in 0 .. MaxMisses /\ Pause \in Nat /\ u \in Nat
      /\ u <= 2 * Guard + Occupancy
      /\ 2 * Guard + Occupancy < Pause /\ Pause + 2 * Guard + Occupancy < Period
  BY GuardAssumption, FrameAssumption, ClearanceAssumption DEF Prediction
<1> DEFINE n == y - Pause + Guard - u
           c == (p.misses + 1) * Period
           h == n - c
<1>2. n \in Int /\ c \in Int /\ h \in Int
  BY <1>1
<1>3. BeaconAt(h, p.misses + 1) = n
  BY <1>2 DEF BeaconAt
<1>4. c <= BeaconAt(0, MaxMisses + 1) /\ 0 <= c
      /\ 2 * (BeaconAt(0, MaxMisses + 1) + 2 * Period - 0) < Wrap
      /\ BeaconAt(0, MaxMisses + 1) \in Int
  <2>1. p.misses + 1 \in 0 .. MaxMisses + 1 /\ MaxMisses + 1 \in 0 .. MaxMisses + 1
    BY <1>1
  <2>2. /\ 0 <= BeaconAt(0, p.misses + 1) /\ BeaconAt(0, p.misses + 1) <= BeaconAt(0, MaxMisses + 1)
        /\ 2 * (BeaconAt(0, MaxMisses + 1) + 2 * Period - 0) < Wrap
        /\ BeaconAt(0, MaxMisses + 1) \in Int
    BY <2>1, LockIsShort
  <2>3. BeaconAt(0, p.misses + 1) = c
    BY <1>2 DEF BeaconAt
  <2> HIDE DEF c
  <2> QED
    BY <2>2, <2>3
<1> HIDE DEF c
<1>5. h <= y /\ 2 * (y - h) < Wrap
  BY <1>1, <1>2, <1>4
<1>6. Follows(p, h)
  BY <1>3 DEF Follows
<1>7. Behind(h, p.misses + 1, y) /\ y < n + Period - Guard
  BY <1>1, <1>2, <1>3 DEF Behind
<1> HIDE DEF n, h
<1> DEFINE r == Rolled(p, y % Wrap)
<1>8. CASE ~r.locked
  BY <1>8 DEF Allowed
<1>9. CASE r.locked
  <2>1. /\ r.misses + 1 \in 1 .. MaxMisses + 1 /\ ~Behind(h, r.misses + 1, y)
        /\ Allowed(p, y % Wrap) <=> y < BeaconAt(h, r.misses + 1) - Guard
    BY <1>2, <1>5, <1>6, <1>9, VerdictMeans
  <2>2. p.misses <= r.misses /\ r \in Prediction
    BY <1>2, <1>5, <1>6, RolledMeans
  <2>3. r.misses \in Int /\ r.misses # p.misses
    BY <1>7, <2>1, <2>2, GuardAssumption DEF Prediction
  <2>4. p.misses + 1 \in Nat /\ r.misses + 1 \in Nat /\ p.misses + 1 < r.misses + 1
    BY <1>1, <2>1, <2>2, <2>3
  <2>5. BeaconAt(h, p.misses + 1) + Period <= BeaconAt(h, r.misses + 1)
        /\ BeaconAt(h, r.misses + 1) \in Int
    BY <1>2, <2>4, BeaconsApart
  <2>6. y < BeaconAt(h, r.misses + 1) - Guard
    BY <1>1, <1>2, <1>3, <1>7, <2>5
  <2> QED
    BY <2>1, <2>6
<1> QED
  BY <1>8, <1>9

\* What lies behind a beacon at x does so later.
LEMMA BehindLater ==
  ASSUME NEW h \in Int, NEW k \in Nat, NEW x \in Int, NEW y \in Int, x <= y, Behind(h, k, x)
  PROVE  Behind(h, k, y)
<1>1. BeaconAt(h, k) \in Int
  BY BeaconsApart
<1> QED
  BY <1>1, GuardAssumption DEF Behind

\* What the types and the order of instants say of the next question.
LEMMA SoonestType ==
  ASSUME FInv, InOrder
  PROVE  Soonest \in Int /\ heard \in Int /\ heard <= Soonest /\ Passed \in 0 .. MaxMisses + 1
<1>1. /\ now \in Nat /\ deaf \in Nat /\ heard \in Nat /\ Preamble \in Nat /\ Lookahead \in Nat
      /\ heard <= now
  BY FrameAssumption DEF FInv, TypeOK, InOrder
<1>2. Passed \in 0 .. MaxMisses + 1
  BY GuardAssumption DEF FInv, TypeOK, Passed, Prediction
<1>3. CASE job = NoJob
  BY <1>1, <1>2, <1>3 DEF Soonest, Later
<1>4. CASE job # NoJob
  <2>1. job.due \in Nat /\ now <= job.due
    BY <1>4 DEF FInv, TypeOK, Job, InOrder
  <2> QED
    BY <1>1, <1>2, <1>4, <2>1 DEF Soonest
<1> QED
  BY <1>3, <1>4

-----------------------------------------------------------------------------
\* Asking about x rolls the prediction on, over beacons that lie behind x.
LEMMA AskedKeeps ==
  ASSUME FInv, KInv, NEW x \in Int, Soonest <= x,
         g' = Rolled(g, x % Wrap), heard' = heard
  PROVE  /\ g' \in Prediction /\ Follows(g', heard)
         /\ heard \in Int /\ heard <= x
         /\ Passed' \in 0 .. MaxMisses + 1
         /\ Passed' > 0 /\ (g'.locked \/ heard > 0) => Behind(heard, Passed', x)
         /\ g'.locked => g.locked /\ Passed' = g'.misses
         /\ g.locked /\ ~g'.locked => Behind(heard, MaxMisses + 1, x)
<1>1. /\ Soonest \in Int /\ heard \in Int /\ heard <= Soonest /\ Passed \in 0 .. MaxMisses + 1
      /\ g \in Prediction /\ Follows(g, heard) /\ heard \in Nat
  BY SoonestType DEF KInv, FInv, TypeOK
<1>2. heard <= x
  BY <1>1
<1>3. Passed' = IF g'.locked THEN g'.misses ELSE MaxMisses + 1
  BY DEF Passed
<1>4. Passed \in Nat /\ MaxMisses + 1 \in Nat /\ MaxMisses \in Nat
  BY <1>1, GuardAssumption
<1>5. Passed > 0 /\ (g.locked \/ heard > 0) => Behind(heard, Passed, x)
  BY <1>1, <1>4, BehindLater DEF KInv, PassedBehind
<1>6. CASE ~g.locked
  <2>1. g' = g
    BY <1>1, <1>6, UnlockedStays
  <2>2. Passed' = Passed
    BY <1>3, <2>1 DEF Passed
  <2>3. Passed' > 0 /\ (g'.locked \/ heard > 0) => Behind(heard, Passed', x)
    BY <1>5, <2>1, <2>2
  <2> QED
    BY <1>1, <1>2, <1>6, <2>1, <2>2, <2>3
<1>7. CASE g.locked
  <2>1. /\ g' \in Prediction /\ Follows(g', heard) /\ g.misses <= g'.misses
        /\ g'.locked /\ g.misses < g'.misses => Behind(heard, g'.misses, x)
        /\ ~g'.locked => Behind(heard, MaxMisses + 1, x)
    BY <1>1, <1>2, <1>7, RolledMeans
  <2>2. g.misses \in 0 .. MaxMisses /\ g'.misses \in 0 .. MaxMisses
    BY <1>1, <2>1 DEF Prediction
  <2>3. Passed' \in 0 .. MaxMisses + 1
    BY <1>3, <1>4, <2>2
  <2>4. Passed = g.misses
    BY <1>7 DEF Passed
  <2>5. Passed' > 0 => Behind(heard, Passed', x)
    <3>1. CASE ~g'.locked
      BY <1>3, <2>1, <3>1
    <3>2. CASE g'.locked /\ g.misses < g'.misses
      BY <1>3, <2>1, <3>2
    <3>3. CASE g'.locked /\ g'.misses = g.misses
      BY <1>3, <1>5, <1>7, <2>4, <3>3
    <3> QED
      BY <2>1, <2>2, <3>1, <3>2, <3>3
  <2> QED
    BY <1>1, <1>2, <1>3, <1>7, <2>1, <2>3, <2>5
<1> QED
  BY <1>6, <1>7

\* Where the question is allowed, x is clear of all the beacons foretold.
LEMMA AllowedClear ==
  ASSUME FInv, KInv, NEW x \in Int, Soonest <= x,
         g' = Rolled(g, x % Wrap), heard' = heard, heard > 0,
         Allowed(g, x % Wrap), NEW k \in 1 .. MaxMisses + 1
  PROVE  Behind(heard, k, x) \/ x < BeaconAt(heard, k) - Guard
<1>1. /\ g' \in Prediction /\ Follows(g', heard)
      /\ heard \in Int /\ heard <= x
      /\ Passed' \in 0 .. MaxMisses + 1
      /\ Passed' > 0 => Behind(heard, Passed', x)
      /\ g'.locked => g.locked /\ Passed' = g'.misses
  BY AskedKeeps
<1>2. k \in Nat /\ MaxMisses + 1 \in Nat /\ Passed' \in Nat /\ k <= MaxMisses + 1
  BY <1>1, GuardAssumption
<1>3. CASE k <= Passed'
  <2>1. Behind(heard, Passed', x)
    BY <1>1, <1>2, <1>3
  <2> QED
    BY <1>1, <1>2, <1>3, <2>1, BehindAll
<1>4. CASE ~(2 * (x - heard) < Wrap)
  BY <1>1, <1>2, <1>4, FarIsBehind, BehindAll
<1>5. CASE Passed' < k /\ 2 * (x - heard) < Wrap
  <2>1. g'.locked
    BY <1>2, <1>5 DEF Passed
  <2>2. x < BeaconAt(heard, g'.misses + 1) - Guard
    BY <1>1, <1>5, <2>1, VerdictMeans DEF FInv, TypeOK, KInv
  <2>3. g'.misses + 1 \in Nat /\ g'.misses + 1 <= k
    BY <1>1, <1>2, <1>5, <2>1
  <2>4. /\ BeaconAt(heard, g'.misses + 1) <= BeaconAt(heard, k)
        /\ BeaconAt(heard, g'.misses + 1) \in Int /\ BeaconAt(heard, k) \in Int
    BY <1>1, <1>2, <2>3, BeaconsApart
  <2> QED
    BY <1>1, <2>2, <2>4, GuardAssumption
<1> QED
  BY <1>2, <1>3, <1>4, <1>5

\* Where it is refused, x is in the window of the next beacon foretold, unless
\* the counter cannot tell any more.
LEMMA RefusedAround ==
  ASSUME FInv, KInv, NEW x \in Int, Soonest <= x,
         g' = Rolled(g, x % Wrap), heard' = heard, ~Allowed(g, x % Wrap)
  PROVE  /\ g.locked /\ g'.locked
         /\ \/ ~(2 * (x - heard) < Wrap)
            \/ /\ g'.misses + 1 \in 1 .. MaxMisses + 1
               /\ BeaconAt(heard, g'.misses + 1) - Guard <= x
               /\ x <= BeaconAt(heard, g'.misses + 1) + Occupancy + Guard
<1>1. heard \in Int /\ heard <= x /\ g \in Prediction /\ Follows(g, heard)
  BY AskedKeeps DEF FInv, TypeOK, KInv
<1>2. g.locked /\ g'.locked
  BY DEF Allowed, Rolled
<1>3. ASSUME 2 * (x - heard) < Wrap
      PROVE  /\ g'.misses + 1 \in 1 .. MaxMisses + 1
             /\ BeaconAt(heard, g'.misses + 1) - Guard <= x
             /\ x <= BeaconAt(heard, g'.misses + 1) + Occupancy + Guard
  <2>1. /\ g'.misses + 1 \in 1 .. MaxMisses + 1 /\ ~Behind(heard, g'.misses + 1, x)
        /\ ~(x < BeaconAt(heard, g'.misses + 1) - Guard)
    BY <1>1, <1>2, <1>3, VerdictMeans
  <2> DEFINE m == g'.misses + 1
             b == BeaconAt(heard, m)
  <2>2. m \in Nat
    BY <2>1
  <2>3. b \in Int
    <3> HIDE DEF m
    <3> QED
      BY <1>1, <2>2, BeaconsApart
  <2>4. ~(x < b - Guard) /\ ~(b + Occupancy + Guard < x)
    BY <2>1 DEF Behind
  <2> HIDE DEF b
  <2>5. b - Guard <= x /\ x <= b + Occupancy + Guard
    BY <2>3, <2>4, GuardAssumption
  <2> QED
    BY <2>1, <2>5 DEF b
<1> QED
  BY <1>2, <1>3

\* Hence a refusal, said of x, is of a beacon that the last one foretold.
LEMMA RefusalSaid ==
  ASSUME FInv, KInv, NEW x \in Int, Soonest <= x,
         g' = Rolled(g, x % Wrap), heard' = heard, ~Allowed(g, x % Wrap),
         NEW what, Says(what, x)
  PROVE  RefusalIsPredicted'
<1>1. last' = [what |-> what, at |-> x, basis |-> heard]
  BY DEF Says
<1>2. heard \in Int
  BY AskedKeeps
<1> SUFFICES ASSUME x - heard < Wrap \div 2
             PROVE  \E k \in 1 .. MaxMisses + 1 :
                      LET b == heard + k * Period
                      IN  b - Guard <= x /\ x <= b + Occupancy + Guard
  BY <1>1 DEF RefusalIsPredicted
<1>3. 2 * (x - heard) < Wrap
  BY <1>2, GuardAssumption
<1> DEFINE k == g'.misses + 1
<1>4. /\ k \in 1 .. MaxMisses + 1
      /\ BeaconAt(heard, k) - Guard <= x /\ x <= BeaconAt(heard, k) + Occupancy + Guard
  BY <1>3, RefusedAround
<1> HIDE DEF k
<1> QED
  BY <1>4 DEF BeaconAt

-----------------------------------------------------------------------------
\* An answer at x that was allowed is clear of the beacons foretold.
LEMMA AnswerSaid ==
  ASSUME FInv, KInv, NEW x \in Int, Soonest <= x,
         g' = Rolled(g, x % Wrap), heard' = heard,
         NEW what, Says(what, x), what = "answer" => Allowed(g, x % Wrap)
  PROVE  AnswerClear'
<1>1. last' = [what |-> what, at |-> x, basis |-> heard]
  BY DEF Says
<1> SUFFICES ASSUME what = "answer", heard > 0, NEW k \in 1 .. MaxMisses + 1
             PROVE  ~Overlap(x, BeaconAt(heard, k))
  BY <1>1 DEF AnswerClear
<1>2. Behind(heard, k, x) \/ x < BeaconAt(heard, k) - Guard
  BY AllowedClear
<1>3. heard \in Int /\ k \in Nat
  BY AskedKeeps
<1> DEFINE b == BeaconAt(heard, k)
<1>4. b \in Int
  BY <1>3, BeaconsApart
<1>5. b + Occupancy + Guard < x \/ x < b - Guard
  BY <1>2 DEF Behind
<1> HIDE DEF b
<1>6. /\ Preamble \in Nat /\ Body \in Nat /\ Guard \in Nat /\ Occupancy \in Nat
      /\ Preamble + Body <= Guard + 1
  BY GuardAssumption, FrameAssumption, ClearanceAssumption
<1>7. ~(x - Preamble < b + Body /\ b - Preamble < x + Body)
  BY <1>4, <1>5, <1>6
<1> QED
  BY <1>7 DEF Overlap, b

\* A poll, however its answer ends, keeps the invariant.
LEMMA PollKeeps ==
  ASSUME FInv, KInv, NEW t \in Int, NEW d \in Delays, Poll(t, d)
  PROVE  KInv'
<1>1. /\ t \in Nat /\ d \in Nat /\ Body \in Nat /\ Preamble \in Nat /\ AnchorTxTimeout \in Nat
      /\ Guard \in Nat /\ Occupancy \in Nat /\ Period \in Nat
      /\ d <= AnchorTxTimeout /\ d + 2 * Guard + Occupancy < Period
  BY GuardAssumption, FrameAssumption, ClearanceAssumption
     DEF FInv, TypeOK, Poll, Hears, NothingDueBefore
<1> DEFINE x == t + d
<1>2. job = NoJob /\ Soonest <= t
  BY <1>1 DEF FInv, TypeOK, Poll, Hears, NothingDueBefore, Soonest, Later
<1>3. x \in Int /\ Soonest <= x /\ t <= x
  BY <1>1, <1>2, SoonestType DEF KInv
<1>4. g' = Rolled(g, x % Wrap) /\ heard' = heard /\ now' = t /\ job' = NoJob
  BY <1>2 DEF Poll
<1>5. \E what \in {"refused", "failed", "answer"} :
        /\ Says(what, x) /\ (what = "answer" => Allowed(g, x % Wrap))
        /\ (what = "refused" => ~Allowed(g, x % Wrap))
  BY DEF Poll
<1>6. deaf' \in Nat /\ (Allowed(g, x % Wrap) => x <= deaf')
  <2>1. CASE ~Allowed(g, x % Wrap)
    BY <1>1, <2>1 DEF Poll
  <2>2. CASE deaf' \in {x, x + Body, t + AnchorTxTimeout}
    BY <1>1, <2>2
  <2> QED
    BY <2>1, <2>2 DEF Poll
<1> HIDE DEF x
<1>7. AnswerClear'
  BY <1>3, <1>4, <1>5, AnswerSaid
<1>8. RefusalIsPredicted' /\ RetryGetsThrough'
  <2>1. PICK what \in {"refused", "failed", "answer"} :
          Says(what, x) /\ (what = "refused" => ~Allowed(g, x % Wrap))
    BY <1>5
  <2>2. last'.what = what
    BY <2>1 DEF Says
  <2>3. RefusalIsPredicted'
    <3>1. CASE what = "refused"
      BY <1>3, <1>4, <2>1, <3>1, RefusalSaid
    <3>2. CASE what # "refused"
      BY <2>2, <3>2 DEF RefusalIsPredicted
    <3> QED
      BY <3>1, <3>2
  <2> QED
    BY <2>2, <2>3 DEF RetryGetsThrough
<1>9. /\ Follows(g', heard) /\ heard \in Int /\ heard <= now
      /\ Passed' \in 0 .. MaxMisses + 1
      /\ Passed' > 0 /\ (g'.locked \/ heard > 0) => Behind(heard, Passed', x)
      /\ g'.locked => Passed' = g'.misses
  BY <1>3, <1>4, AskedKeeps DEF KInv, InOrder
<1>10. Follows(g, heard)'
  BY <1>4, <1>9 DEF Follows
<1>11. InOrder'
  BY <1>1, <1>4, <1>9 DEF InOrder, Poll, Hears, NothingDueBefore, FInv, TypeOK
<1>12. RetryReady' /\ BatchInTime'
  BY <1>4 DEF RetryReady, BatchInTime
<1>13. PassedBehind'
  <2> DEFINE s == Later(t, deaf' + Preamble)
  <2>1. Soonest' = s
    BY <1>4 DEF Soonest
  <2>2. s \in Nat /\ t <= s /\ deaf' <= s
    <3>1. \A a \in Nat : Later(t, a + Preamble) \in Nat /\ t <= Later(t, a + Preamble)
                         /\ a <= Later(t, a + Preamble)
      BY <1>1 DEF Later
    <3> QED
      BY <1>6, <3>1
  <2> HIDE DEF s
  <2> SUFFICES ASSUME Passed' > 0, g'.locked \/ heard > 0
               PROVE  Behind(heard, Passed', s)
    BY <1>4, <2>1 DEF PassedBehind
  <2>3. Behind(heard, Passed', x) /\ Passed' \in Nat
    BY <1>9
  <2>4. CASE Allowed(g, x % Wrap)
    BY <1>3, <1>6, <1>9, <2>2, <2>3, <2>4, BehindLater
  <2>5. CASE ~Allowed(g, x % Wrap)
    <3>1. /\ g'.locked
          /\ \/ ~(2 * (x - heard) < Wrap)
             \/ /\ g'.misses + 1 \in 1 .. MaxMisses + 1
                /\ BeaconAt(heard, g'.misses + 1) - Guard <= x
      BY <1>3, <1>4, <2>5, RefusedAround
    <3> DEFINE b == BeaconAt(heard, Passed')
    <3>2. b \in Int /\ BeaconAt(heard, Passed' + 1) = b + Period
      BY <1>9, <2>3, BeaconsApart
    <3>3. b + Occupancy + Guard < t
      <4>1. CASE ~(2 * (x - heard) < Wrap)
        <5>1. BeaconAt(heard, MaxMisses + 1) + 2 * Period < x
          BY <1>3, <1>9, <4>1, FarIsBehind
        <5>2. b <= BeaconAt(heard, MaxMisses + 1) /\ BeaconAt(heard, MaxMisses + 1) \in Int
          <6>1. MaxMisses + 1 \in 0 .. MaxMisses + 1
            BY GuardAssumption
          <6> QED
            BY <1>9, <6>1, LockIsShort
        <5> HIDE DEF b
        <5> QED
          BY <1>1, <3>2, <5>1, <5>2 DEF x
      <4>2. CASE BeaconAt(heard, g'.misses + 1) - Guard <= x
        <5>1. Passed' = g'.misses
          BY <1>9, <3>1
        <5>2. BeaconAt(heard, Passed' + 1) - Guard <= x
          BY <4>2, <5>1, Zenon
        <5> HIDE DEF b
        <5>3. (b + Period) - Guard <= x
          BY <3>2, <5>2
        <5> QED
          BY <1>1, <3>2, <5>3 DEF x
      <4> QED
        BY <3>1, <4>1, <4>2
    <3>4. Behind(heard, Passed', t)
      BY <3>3 DEF Behind
    <3> QED
      BY <1>1, <1>9, <2>2, <2>3, <3>4, BehindLater
  <2> QED
    BY <2>4, <2>5
<1> QED
  BY <1>7, <1>8, <1>10, <1>11, <1>12, <1>13 DEF KInv

-----------------------------------------------------------------------------
\* A command keeps the invariant: the deadline of a batch leaves its reply, and
\* the retry of it, within the misses the prediction survives.
LEMMA CommandKeeps ==
  ASSUME FInv, KInv, NEW t \in Int, NEW kind \in {"begin", "range", "setpos"},
         NEW span \in WorkSpans(kind), Command(t, kind, span)
  PROVE  KInv'
<1>1. /\ t \in Nat /\ span \in Nat /\ Lookahead \in Nat /\ Preamble \in Nat
      /\ Period \in Nat /\ NodeTxTimeout \in Nat /\ Pause \in Nat /\ now <= t
      /\ Deadline \in Nat /\ Exchange \in Nat /\ MaxMisses \in Nat
  BY GuardAssumption, FrameAssumption, SpanType
     DEF FInv, TypeOK, Command, Hears, NothingDueBefore
<1>2. job = NoJob /\ Soonest <= t /\ Soonest \in Int /\ heard \in Int /\ heard <= now
      /\ Passed \in Nat /\ now \in Int
  <2>1. job = NoJob /\ Soonest <= t
    BY <1>1 DEF FInv, TypeOK, Command, Hears, NothingDueBefore, Soonest, Later
  <2> QED
    BY <2>1, SoonestType DEF KInv, InOrder, FInv, TypeOK
<1>3. /\ job' = [kind |-> kind, due |-> t + span, fresh |-> t - heard <= Period,
                 refused |-> FALSE, tries |-> Tries(kind)]
      /\ g' = g /\ heard' = heard /\ last' = last /\ now' = t
  BY DEF Command
<1>4. job' # NoJob /\ job'.due = t + span
  BY <1>3 DEF NoJob
<1>5. AnswerClear' /\ RefusalIsPredicted' /\ RetryGetsThrough'
  BY <1>3 DEF KInv, AnswerClear, RefusalIsPredicted, RetryGetsThrough
<1>6. Follows(g, heard)'
  BY <1>3 DEF KInv, Follows
<1>7. InOrder'
  BY <1>1, <1>2, <1>3, <1>4 DEF InOrder
<1>8. RetryReady'
  BY <1>3 DEF RetryReady
<1>9. PassedBehind'
  <2>1. Soonest' = t + span + Lookahead
    BY <1>4 DEF Soonest
  <2>2. Passed' = Passed
    BY <1>3 DEF Passed
  <2>3. t + span + Lookahead \in Int /\ Soonest <= t + span + Lookahead
    BY <1>1, <1>2
  <2>4. Behind(heard, Passed, Soonest) => Behind(heard, Passed, t + span + Lookahead)
    BY <1>2, <2>3, BehindLater
  <2> QED
    BY <1>3, <2>1, <2>2, <2>4 DEF KInv, PassedBehind
<1>10. BatchInTime'
  <2> SUFFICES ASSUME kind = "range", t - heard <= Period
               PROVE  t + span + Lookahead + (NodeTxTimeout + Pause)
                        <= BeaconAt(heard, MaxMisses + 1)
    <3>1. kind = "range" => job'.tries = 2
      BY <1>3 DEF Tries
    <3>2. job'.kind = kind /\ (job'.fresh <=> t - heard <= Period)
      BY <1>3
    <3>3. job'.tries = 2
          => (IF job'.tries > 1 THEN NodeTxTimeout + Pause ELSE 0) = NodeTxTimeout + Pause
      OBVIOUS
    <3> QED
      BY <1>3, <1>4, <3>1, <3>2, <3>3 DEF BatchInTime
  <2>1. span <= Deadline + Exchange
    BY <1>1 DEF WorkSpans, BatchSpans
  <2>2. BeaconAt(heard, MaxMisses + 1) = heard + (MaxMisses * Period + Period)
    <3>1. (MaxMisses + 1) * Period = MaxMisses * Period + Period
      BY <1>1, Z3
    <3> QED
      BY <3>1 DEF BeaconAt
  <2> DEFINE c == MaxMisses * Period
  <2>3. c \in Int /\ Deadline + Exchange + NodeTxTimeout + Pause + Lookahead <= c
    BY <1>1, ClearanceAssumption
  <2> HIDE DEF c
  <2>4. t + span + Lookahead + (NodeTxTimeout + Pause) <= heard + (c + Period)
    BY <1>1, <1>2, <2>1, <2>3
  <2> QED
    BY <2>2, <2>4 DEF c
<1> QED
  BY <1>5, <1>6, <1>7, <1>8, <1>9, <1>10 DEF KInv

\* A batch in time is judged by a prediction that still holds.
LEMMA BatchIsJudged ==
  ASSUME FInv, KInv, Reply, job.kind = "range", job.fresh, g.locked
  PROVE  g'.locked
<1> DEFINE x == job.due + Lookahead
<1>1. job # NoJob /\ job \in Job
  BY DEF Reply, FInv, TypeOK
<1>2. /\ job.due \in Nat /\ Lookahead \in Nat /\ NodeTxTimeout \in Nat /\ Pause \in Nat
      /\ Occupancy \in Nat /\ Guard \in Nat
  BY <1>1, FrameAssumption, GuardAssumption DEF Job
<1>3. Soonest = x /\ x \in Int
  BY <1>1, <1>2 DEF Soonest
<1>4. g' = Rolled(g, x % Wrap) /\ heard' = heard
  BY DEF Reply
<1>5. heard \in Int
  BY SoonestType DEF KInv
<1>6. x <= BeaconAt(heard, MaxMisses + 1) /\ BeaconAt(heard, MaxMisses + 1) \in Int
  <2>1. MaxMisses + 1 \in 0 .. MaxMisses + 1
    BY GuardAssumption
  <2>2. BeaconAt(heard, MaxMisses + 1) \in Int
    BY <1>5, <2>1, LockIsShort
  <2>3. x + (IF job.tries > 1 THEN NodeTxTimeout + Pause ELSE 0) <= BeaconAt(heard, MaxMisses + 1)
    BY <1>1 DEF KInv, BatchInTime
  <2> QED
    BY <1>2, <1>3, <2>2, <2>3
<1>7. ~Behind(heard, MaxMisses + 1, x)
  BY <1>2, <1>3, <1>6 DEF Behind
<1> HIDE DEF x
<1>8. x <= x /\ Soonest <= x
  BY <1>3
<1> QED
  BY <1>3, <1>4, <1>7, <1>8, AskedKeeps

-----------------------------------------------------------------------------
\* A reply not sent is done with, or to be tried once more.
LEMMA NotSentEnds ==
  ASSUME FInv, job # NoJob, NEW wait \in {0, NodeTxTimeout}, NEW f \in BOOLEAN,
         NotSent(f, job.due + wait)
  PROVE  \/ job' = NoJob /\ deaf' = job.due + wait
         \/ /\ job' # NoJob /\ job.tries > 1
            /\ job'.due = job.due + wait + Pause /\ job'.tries = job.tries - 1
            /\ job'.refused = f /\ job'.kind = job.kind /\ job'.fresh = job.fresh
<1>1. job \in Job
  BY DEF FInv, TypeOK
<1>2. CASE job.tries > 1
  <2>1. job' = [job EXCEPT !.due = job.due + wait + Pause, !.tries = job.tries - 1,
                           !.refused = f]
    BY <1>2 DEF NotSent, RetryAt
  <2> QED
    BY <1>1, <1>2, <2>1 DEF Job, NoJob
<1>3. CASE ~(job.tries > 1)
  BY <1>3 DEF NotSent
<1> QED
  BY <1>2, <1>3

\* How a reply may end.
LEMMA ReplyEnds ==
  ASSUME FInv, Reply
  PROVE  \/ job' = NoJob /\ deaf' \in Nat /\ job.due <= deaf'
         \/ \E wait \in {0, NodeTxTimeout}, f \in BOOLEAN :
              /\ job' # NoJob /\ job.tries > 1
              /\ job'.due = job.due + wait + Pause /\ job'.tries = job.tries - 1
              /\ job'.refused = f /\ job'.kind = job.kind /\ job'.fresh = job.fresh
              /\ f => wait = 0 /\ ~Allowed(g, (job.due + Lookahead) % Wrap)
<1>1. job # NoJob /\ job.due \in Nat
  BY DEF Reply, FInv, TypeOK, Job
<1>2. Preamble \in Nat /\ Body \in Nat /\ NodeTxTimeout \in Nat /\ Pause \in Nat
  BY FrameAssumption
<1>3. \A wait \in {0, NodeTxTimeout} :
        job.due + wait \in Nat /\ job.due <= job.due + wait
  BY <1>1, <1>2
<1>4. CASE ~Allowed(g, (job.due + Lookahead) % Wrap)
  <2>1. NotSent(TRUE, job.due)
    BY <1>4 DEF Reply
  <2>2. NotSent(TRUE, job.due + 0) /\ 0 \in {0, NodeTxTimeout} /\ TRUE \in BOOLEAN
    <3>1. job.due + 0 = job.due
      BY <1>1
    <3> QED
      BY <2>1, <3>1
  <2> HIDE <1>2
  <2>3. \/ job' = NoJob /\ deaf' = job.due + 0
        \/ /\ job' # NoJob /\ job.tries > 1
           /\ job'.due = job.due + 0 + Pause /\ job'.tries = job.tries - 1
           /\ job'.refused = TRUE /\ job'.kind = job.kind /\ job'.fresh = job.fresh
    BY <1>1, <2>2, NotSentEnds
  <2> QED
    BY <1>3, <1>4, <2>2, <2>3
<1>5. CASE job' = NoJob /\ deaf' = job.due + Preamble + Body
  <2>1. job.due + Preamble + Body \in Nat /\ job.due <= job.due + Preamble + Body
    BY <1>1, <1>2
  <2> QED
    BY <1>5, <2>1
<1>6. CASE \E wait \in {0, NodeTxTimeout} : NotSent(FALSE, job.due + wait)
  <2>1. PICK wait \in {0, NodeTxTimeout} : NotSent(FALSE, job.due + wait)
    BY <1>6
  <2>2. \/ job' = NoJob /\ deaf' = job.due + wait
        \/ /\ job' # NoJob /\ job.tries > 1
           /\ job'.due = job.due + wait + Pause /\ job'.tries = job.tries - 1
           /\ job'.refused = FALSE /\ job'.kind = job.kind /\ job'.fresh = job.fresh
    BY <1>1, <2>1, NotSentEnds
  <2> QED
    BY <1>3, <2>2
<1> QED
  BY <1>4, <1>5, <1>6 DEF Reply

\* A reply, however it ends, keeps the invariant.
LEMMA ReplyKeeps == FInv /\ KInv /\ Reply => KInv'
<1> SUFFICES ASSUME FInv, KInv, Reply PROVE KInv'
  OBVIOUS
<1> DEFINE x == job.due + Lookahead
<1>1. job # NoJob /\ job \in Job /\ job.due \in Nat
  BY DEF Reply, FInv, TypeOK, Job
<1>2. /\ Lookahead \in Nat /\ NodeTxTimeout \in Nat /\ Pause \in Nat /\ Preamble \in Nat
      /\ Lookahead <= Preamble /\ Guard \in Nat /\ Occupancy \in Nat
  BY FrameAssumption, GuardAssumption, ClearanceAssumption
<1>3. Soonest = x /\ x \in Int /\ Soonest <= x
  BY <1>1, <1>2 DEF Soonest
<1>4. g' = Rolled(g, x % Wrap) /\ heard' = heard /\ now' = job.due /\ g \in Prediction
  BY DEF Reply, FInv, TypeOK
<1>5. \E what \in {"refused", "refused again", "reply", "failed"} :
        \E at : /\ Says(what, at)
                /\ what \in {"refused", "refused again"} => at = x /\ ~Allowed(g, x % Wrap)
                /\ what = "refused again" => job.refused
  BY DEF Reply
<1>6. \/ job' = NoJob /\ deaf' \in Nat /\ job.due <= deaf'
      \/ \E wait \in {0, NodeTxTimeout}, f \in BOOLEAN :
           /\ job' # NoJob /\ job.tries > 1
           /\ job'.due = job.due + wait + Pause /\ job'.tries = job.tries - 1
           /\ job'.refused = f /\ job'.kind = job.kind /\ job'.fresh = job.fresh
           /\ f => wait = 0 /\ ~Allowed(g, x % Wrap)
  BY ReplyEnds
<1>7. RetryReady => (job.refused => Allowed(g, x % Wrap))
  <2> SUFFICES ASSUME RetryReady, job.refused PROVE Allowed(g, x % Wrap)
    OBVIOUS
  <2>1. PICK u \in 0 .. 2 * Guard + Occupancy :
          Same(g.next, job.due + Lookahead - Pause + Guard - u)
    BY <1>1 DEF RetryReady
  <2>2. g.locked
    BY <1>1 DEF RetryReady
  <2>3. job.due + Lookahead - Pause + Guard - u = x - Pause + Guard - u
    BY <1>1, <1>2
  <2> HIDE DEF x
  <2>4. Same(g.next, x - Pause + Guard - u)
    BY <2>1, <2>3
  <2> QED
    BY <1>3, <1>4, <2>2, <2>4, RetryAllowed
<1>8. ASSUME ~Allowed(g, x % Wrap)
      PROVE  g'.locked /\ \E u \in 0 .. 2 * Guard + Occupancy : Same(g'.next, x + Guard - u)
  <2> HIDE DEF x
  <2> QED
    BY <1>3, <1>4, <1>8, RefusedReady
<1>9. ASSUME job' # NoJob
      PROVE  \E wait \in {0, NodeTxTimeout}, f \in BOOLEAN :
               /\ job.tries > 1
               /\ job'.due = job.due + wait + Pause /\ job'.tries = job.tries - 1
               /\ job'.refused = f /\ job'.kind = job.kind /\ job'.fresh = job.fresh
               /\ f => wait = 0 /\ ~Allowed(g, x % Wrap)
  BY <1>6, <1>9
<1>10. RefusalIsPredicted' /\ RetryGetsThrough' /\ AnswerClear'
  <2>0. PICK what \in {"refused", "refused again", "reply", "failed"} :
          \E at : /\ Says(what, at)
                  /\ what \in {"refused", "refused again"} => at = x /\ ~Allowed(g, x % Wrap)
                  /\ what = "refused again" => job.refused
    BY <1>5
  <2>1. PICK at :
          /\ Says(what, at)
          /\ what \in {"refused", "refused again"} => at = x /\ ~Allowed(g, x % Wrap)
          /\ what = "refused again" => job.refused
    BY <2>0
  <2> HIDE DEF x
  <2>2. last'.what = what
    BY <2>1 DEF Says
  <2>3. RetryGetsThrough'
    BY <1>7, <2>1, <2>2 DEF KInv, RetryGetsThrough
  <2>4. AnswerClear'
    BY <2>2 DEF AnswerClear
  <2>5. RefusalIsPredicted'
    <3>1. CASE what \in {"refused", "refused again"}
      BY <1>3, <1>4, <2>1, <3>1, RefusalSaid
    <3>2. CASE what \notin {"refused", "refused again"}
      BY <2>2, <3>2 DEF RefusalIsPredicted
    <3> QED
      BY <3>1, <3>2
  <2> QED
    BY <2>3, <2>4, <2>5
<1>11. /\ Follows(g', heard) /\ heard \in Int /\ heard <= now /\ now \in Nat
       /\ Passed' \in 0 .. MaxMisses + 1
       /\ Passed' > 0 /\ (g'.locked \/ heard > 0) => Behind(heard, Passed', x)
       /\ g'.locked => g.locked
  <2> HIDE DEF x
  <2> QED
    BY <1>3, <1>4, AskedKeeps DEF KInv, InOrder, FInv, TypeOK
<1>12. Follows(g, heard)'
  BY <1>4, <1>11 DEF Follows
<1>13. InOrder'
  <2>1. heard' <= now'
    BY <1>1, <1>4, <1>11 DEF KInv, InOrder
  <2>2. job' # NoJob => now' <= job'.due
    <3> SUFFICES ASSUME job' # NoJob PROVE job.due <= job'.due
      BY <1>4
    <3>1. PICK wait \in {0, NodeTxTimeout} : job'.due = job.due + wait + Pause
      BY <1>9
    <3> QED
      BY <1>1, <1>2, <3>1
  <2> QED
    BY <2>1, <2>2 DEF InOrder
<1>14. RetryReady'
  <2> SUFFICES ASSUME job' # NoJob, job'.refused
               PROVE  /\ g'.locked
                      /\ \E u \in 0 .. 2 * Guard + Occupancy :
                           Same(g'.next, job'.due + Lookahead - Pause + Guard - u)
    BY DEF RetryReady
  <2>1. job'.due = job.due + 0 + Pause /\ ~Allowed(g, x % Wrap)
    BY <1>9
  <2>2. g'.locked /\ \E u \in 0 .. 2 * Guard + Occupancy : Same(g'.next, x + Guard - u)
    BY <1>8, <2>1
  <2>3. \A u \in 0 .. 2 * Guard + Occupancy :
          job'.due + Lookahead - Pause + Guard - u = x + Guard - u
    BY <1>1, <1>2, <2>1
  <2> HIDE DEF x
  <2> QED
    BY <2>2, <2>3
<1>15. BatchInTime'
  <2> SUFFICES ASSUME job' # NoJob, job'.kind = "range", job'.fresh, g'.locked
               PROVE  job'.due + Lookahead + (IF job'.tries > 1 THEN NodeTxTimeout + Pause ELSE 0)
                        <= BeaconAt(heard, MaxMisses + 1)
    BY <1>4 DEF BatchInTime
  <2>1. PICK wait \in {0, NodeTxTimeout} :
          /\ job.tries > 1 /\ job'.due = job.due + wait + Pause /\ job'.tries = job.tries - 1
          /\ job'.kind = job.kind /\ job'.fresh = job.fresh
    BY <1>9
  <2>2. job.tries \in 1 .. 2
    BY <1>1 DEF Job
  <2>3. job.due + Lookahead + (NodeTxTimeout + Pause) <= BeaconAt(heard, MaxMisses + 1)
    BY <1>1, <1>11, <2>1 DEF KInv, BatchInTime
  <2>4. ~(job'.tries > 1)
    BY <2>1, <2>2
  <2>5. wait \in Nat /\ wait <= NodeTxTimeout
    BY <1>2
  <2> DEFINE b == BeaconAt(heard, MaxMisses + 1)
  <2>6. b \in Int
    <3>1. MaxMisses + 1 \in 0 .. MaxMisses + 1
      BY GuardAssumption
    <3> QED
      BY <1>11, <3>1, LockIsShort
  <2> HIDE DEF b
  <2>7. job.due + wait + Pause + Lookahead + 0 <= b
    BY <1>1, <1>2, <2>3, <2>5, <2>6 DEF b
  <2> QED
    BY <2>1, <2>4, <2>7 DEF b
<1>16. PassedBehind'
  <2>1. Soonest' \in Int /\ x <= Soonest'
    <3>1. CASE job' = NoJob /\ deaf' \in Nat /\ job.due <= deaf'
      <4>1. Soonest' = Later(job.due, deaf' + Preamble)
        BY <1>4, <3>1 DEF Soonest
      <4>2. \A a \in Nat : job.due <= a =>
              /\ Later(job.due, a + Preamble) \in Nat
              /\ x <= Later(job.due, a + Preamble)
        BY <1>1, <1>2 DEF Later
      <4> QED
        BY <3>1, <4>1, <4>2
    <3>2. CASE job' # NoJob
      <4>1. PICK wait \in {0, NodeTxTimeout} : job'.due = job.due + wait + Pause
        BY <1>9, <3>2
      <4>2. Soonest' = job.due + wait + Pause + Lookahead
        BY <3>2, <4>1 DEF Soonest
      <4>3. wait \in Nat
        BY <1>2
      <4> QED
        BY <1>1, <1>2, <4>2, <4>3
    <3> QED
      BY <1>6, <3>1, <3>2
  <2> HIDE DEF x
  <2>2. Passed' \in Nat
    BY <1>11
  <2>3. Behind(heard, Passed', x) => Behind(heard, Passed', Soonest')
    BY <1>3, <1>11, <2>1, <2>2, BehindLater
  <2> QED
    BY <1>4, <1>11, <2>3 DEF PassedBehind
<1> QED
  BY <1>10, <1>12, <1>13, <1>14, <1>15, <1>16 DEF KInv

-----------------------------------------------------------------------------
\* A step of anyone keeps what the anchor knows, and the prediction a batch is
\* judged by.
LEMMA KInvStep ==
  FInv /\ FInv' /\ KInv /\ [Next]_vars
    => KInv' /\ (job.kind = "range" /\ job.fresh /\ g.locked => g'.locked)
<1> SUFFICES ASSUME FInv, FInv', KInv, [Next]_vars
             PROVE  KInv' /\ (job.kind = "range" /\ job.fresh /\ g.locked => g'.locked)
  OBVIOUS
<1>1. heard \in Nat /\ Period \in Nat
  BY GuardAssumption DEF FInv, TypeOK
<1>2. CASE GatewayNext
  <2>1. Passes
    BY <1>2, GatewayPasses DEF KInv
  <2>2. job.kind = "range" => g' = g
    BY <2>1 DEF Passes, NoJob
  <2> QED
    BY <2>1, <2>2, PassesKeeps
<1>3. CASE AnchorNext
  <2>1. \A at : \A x \in Instants(at) : x \in Int
    BY <1>1, FrameAssumption DEF Instants
  <2>2. ASSUME NEW d \in Delays, NEW x \in Instants(now + d), Poll(x - d, d)
        PROVE  KInv' /\ job.kind # "range"
    <3>1. d \in Int /\ x \in Int /\ x - d \in Int
      BY <2>1, FrameAssumption
    <3>2. job = NoJob
      BY <2>2 DEF Poll, Hears
    <3> QED
      BY <2>2, <3>1, <3>2, PollKeeps DEF NoJob
  <2>3. ASSUME NEW kind \in {"begin", "range", "setpos"}, NEW d \in WorkSpans(kind),
               NEW x \in Instants(now + (d + Lookahead)),
               Command(x - (d + Lookahead), kind, d)
        PROVE  KInv' /\ job.kind # "range"
    <3>1. d + Lookahead \in Int
      BY SpanType, FrameAssumption
    <3>2. x - (d + Lookahead) \in Int
      BY <2>1, <3>1
    <3>3. job = NoJob
      BY <2>3 DEF Command, Hears
    <3> QED
      BY <2>3, <3>2, <3>3, CommandKeeps DEF NoJob
  <2>4. Reply => KInv' /\ (job.kind = "range" /\ job.fresh /\ g.locked => g'.locked)
    BY ReplyKeeps, BatchIsJudged
  <2> QED
    BY <1>3, <2>2, <2>3, <2>4 DEF AnchorNext
<1>4. CASE UNCHANGED vars
  <2>1. UNCHANGED <<now, g, heard, deaf, job, last>>
    BY <1>4 DEF vars, anchor
  <2>2. Soonest' = Soonest /\ Passed' = Passed
    BY <2>1 DEF Soonest, Passed
  <2>3. Follows(g, heard)' /\ PassedBehind' /\ InOrder' /\ AnswerClear'
    BY <2>1, <2>2 DEF KInv, Follows, PassedBehind, InOrder, AnswerClear
  <2>4. RefusalIsPredicted' /\ RetryReady' /\ RetryGetsThrough' /\ BatchInTime'
    BY <2>1 DEF KInv, RefusalIsPredicted, RetryReady, RetryGetsThrough, BatchInTime
  <2> QED
    BY <2>1, <2>3, <2>4 DEF KInv
<1> QED
  BY <1>2, <1>3, <1>4 DEF Next

\* What the anchor knows holds in every behaviour.
LEMMA AlwaysKInv == Spec => [](FInv /\ KInv)
<1>1. Init => FInv /\ KInv
  BY FInvInit, KInvInit
<1>2. (FInv /\ KInv) /\ [Next]_vars => (FInv /\ KInv)'
  BY FInvStep, KInvStep
<1> QED
  BY <1>1, <1>2, PTL DEF Spec

\* In every behaviour no delayed answer shares the air with a beacon that the
\* last one heard foretells (beacon_guard.c:25-56, asked by anchor_respond.c and
\* uwb_slave.c), whatever the delays, on whichever side of the counter's wrap,
\* and however long the gateway was off.
THEOREM AlwaysAnswersSpareBeacon == Spec => []AnswersSpareBeacon
<1>1. AnswerClear => AnswersSpareBeacon
  BY DEF AnswerClear, AnswersSpareBeacon, Foretold, BeaconAt
<1>2. FInv /\ KInv => AnswersSpareBeacon
  BY <1>1 DEF KInv
<1> QED
  BY <1>2, AlwaysKInv, PTL

\* In every behaviour a refusal is of the window around a beacon that the last
\* one heard foretells: a prediction that has lapsed holds nothing back
\* (beacon_guard.c:33-50).
THEOREM AlwaysRefusalIsPredicted == Spec => []RefusalIsPredicted
<1>1. FInv /\ KInv => RefusalIsPredicted
  BY DEF KInv
<1> QED
  BY <1>1, AlwaysKInv, PTL

\* In every behaviour the retry of a refused reply is let through: the pause is
\* longer than the window and shorter than what is left of the superframe
\* (apos_node.c:241-270).
THEOREM AlwaysRetryGetsThrough == Spec => []RetryGetsThrough
<1>1. FInv /\ KInv => RetryGetsThrough
  BY DEF KInv
<1> QED
  BY <1>1, AlwaysKInv, PTL

\* No step of anyone drops the prediction that the reply to a fresh batch will
\* be judged by (apos_node.c:299-360, apos_node.h:79-94).
THEOREM AlwaysBatchKeepsLock == Spec => BatchKeepsLock
<1> DEFINE Keeps == job.kind = "range" /\ job.fresh /\ g.locked => g'.locked
<1>1. FInv /\ KInv /\ FInv' /\ [Next]_vars => [Keeps]_vars
  BY KInvStep
<1>2. (FInv /\ KInv) /\ (FInv /\ KInv)' /\ [Next]_vars => [Keeps]_vars
  BY <1>1
<1> HIDE DEF Keeps
<1>3. Spec => [][Keeps]_vars
  BY <1>2, AlwaysKInv, PTL DEF Spec
<1> QED
  BY <1>3 DEF BatchKeepsLock, Keeps
=============================================================================

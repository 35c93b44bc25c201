----------------------------- MODULE Superframe -----------------------------
(***************************************************************************)
(* The superframe in time: the gateway that keeps its beacon's cadence     *)
(* between GRANTs and survey steps (uwb_gateway.c), and one anchor that    *)
(* keeps off the beacon (uwb_slave.c, anchor_respond.c, apos_node.c) by    *)
(* asking its prediction of it (beacon_guard.c).                           *)
(*                                                                         *)
(* Every action happens at an instant of its own, to which it moves the    *)
(* clock; what is due (a beacon, a reply) is never passed over.  Instants  *)
(* are RMARKERs, as the radio stamps them: a frame is on the air from      *)
(* Preamble before it until Body after it.                                 *)
(***************************************************************************)
EXTENDS BeaconGuard

CONSTANTS
    Preamble, Body,   \* a frame on the air, before and after its RMARKER
    Margin,           \* BEACON_ARM_MARGIN_UUS
    ArmLead,          \* the latest start of a delayed beacon, before its RMARKER
    Turnaround,       \* RX_TO_TX_DLY_UUS, of a GRANT
    StepBudget,       \* APOS_GW_STEP_BUDGET_UUS
    SolveBudget,      \* APOS_GW_SOLVE_BUDGET_UUS
    GwTxTimeout,      \* TX_COMPLETE_TIMEOUT_MS of the gateway
    Delays,           \* from a poll to its answer (disc_resp_delay_uus and WAVE)
    AnchorTxTimeout,  \* TX_COMPLETE_TIMEOUT_MS of the answers
    Lookahead,        \* TX_GUARD_LOOKAHEAD_UUS
    NodeTxTimeout,    \* TX_COMPLETE_TIMEOUT_MS of the survey's replies
    Pause,            \* k_sleep(K_MSEC(5)) before the one retry
    EnumSlot, Slots,      \* APOS_ENUM_SLOT_MS; those of the APOS_ENUM_SLOTS drawn
    Deadline,         \* APOS_RANGE_BATCH_DEADLINE_MS
    Exchange,         \* the longest single exchange of a batch, with its pause
    MaxExchanges,     \* APOS_MAX_EXCHANGES
    Saves,            \* how long storing a position may take
    Start,            \* when the gateway starts
    GwOffsets,        \* bound: how long before the beacon the gateway is given work
    Phases,           \* bound: where in the anchor's superframe it is made to transmit
    Spells,           \* bound: how long a gateway is off
    MaxFrames,        \* bound: superframes
    MaxWork,          \* bound: frames and steps that gateway and anchor work at
    MaxFaults,        \* bound: transmissions that never complete, power cuts
    FaultFrames       \* bound: the superframes they happen in

ASSUME FrameAssumption ==
    /\ {Preamble, Body, Margin, ArmLead, Turnaround, StepBudget, SolveBudget,
        GwTxTimeout, AnchorTxTimeout, Lookahead,
        NodeTxTimeout, Pause, EnumSlot,
        Deadline, Exchange, MaxExchanges, Start, MaxFrames, MaxWork,
        MaxFaults, FaultFrames} \subseteq Nat
    /\ Delays \subseteq Nat /\ Saves \subseteq Nat /\ GwOffsets \subseteq Nat
    /\ Spells \subseteq Nat /\ Slots \subseteq Nat /\ Phases \subseteq 0 .. Period - 1
    /\ Turnaround + Body + ArmLead <= Margin
    /\ ArmLead <= Margin /\ Margin < Period

\* What the guard, the pause, the delays and the deadline of a batch are sized
\* for (uwb_mac.h:28-46, apos_node.c:241-252, anchor_respond.c:36-47,
\* apos_node.h:79-94).
ASSUME ClearanceAssumption ==
    /\ Preamble + Body <= Guard + 1 /\ Lookahead <= Preamble
    /\ 2 * Guard + Occupancy < Pause /\ Pause + 2 * Guard + Occupancy < Period
    /\ \A d \in Delays : d <= AnchorTxTimeout /\ d + 2 * Guard + Occupancy < Period
    /\ Deadline + Exchange + NodeTxTimeout + Pause + Lookahead <= MaxMisses * Period

VARIABLES
    now,     \* the clock
    on,      \* the gateway has power
    next,    \* next_beacon
    free,    \* when the gateway's loop is back from what it does
    hurt,    \* a transmission has not completed since the last beacon
    onAir,   \* the last beacon that was sent
    frames, work, faults,   \* what the bounds count
    g,       \* bguard
    heard,   \* the last beacon this anchor received
    deaf,    \* until when its loop is busy with what it received
    job,     \* the survey command it is working at
    last     \* what it last did: its verdict, the instant, and heard at the time

gateway == <<on, next, free, hurt, onAir, frames>>
anchor == <<g, heard, deaf, job, last>>
vars == <<now, gateway, work, faults, anchor>>

Verdicts == {"none", "answer", "reply", "refused", "refused again", "failed"}
NoJob == [kind |-> "none"]
Job == [kind : {"begin", "range", "setpos"}, due : Nat, fresh : BOOLEAN,
        refused : BOOLEAN, tries : 1 .. 2]

\* Types, the misses within their bound and the tries of a reply within theirs.
TypeOK ==
    /\ now \in Nat /\ on \in BOOLEAN /\ next \in Nat /\ free \in Nat
    /\ hurt \in BOOLEAN /\ onAir \in Nat /\ frames \in 0 .. MaxFrames
    /\ work \in 0 .. MaxWork /\ faults \in 0 .. MaxFaults
    /\ g \in Prediction /\ heard \in Nat /\ deaf \in Nat
    /\ job \in Job \cup {NoJob}
    /\ last \in [what : Verdicts, at : Nat, basis : Nat]

Nothing == [what |-> "none", at |-> 0, basis |-> 0]

Later(a, b) == IF a < b THEN b ELSE a

\* Nothing due is passed over on the way to t.
NothingDueBefore(t) ==
    /\ now <= t
    /\ on => t <= next
    /\ job # NoJob => t <= job.due

Fault == faults < MaxFaults /\ frames < FaultFrames /\ faults' = faults + 1
Work == work < MaxWork /\ work' = work + 1

-----------------------------------------------------------------------------
(***************************************************************************)
(* The gateway.  Its loop gives itself a receive window that ends Margin   *)
(* before the beacon, answers a JOIN with a delayed GRANT and takes at     *)
(* most one step of a survey per pass, if the step fits.                   *)
(***************************************************************************)

Listens_ToTheBeacon(t) == on /\ free <= t /\ t <= next

\* The loop is receiving at t.
Listens(t) == on /\ free <= t /\ t <= next - Margin

\* A JOIN received at t; the wait for its GRANT may time out.
Grant(t) ==
    /\ Listens(t) /\ NothingDueBefore(t) /\ Work
    /\ now' = t
    /\ \/ free' = t + Turnaround + Body /\ UNCHANGED <<hurt, faults>>
       \/ Fault /\ free' = t + Turnaround + GwTxTimeout /\ hurt' = TRUE
    /\ UNCHANGED <<on, next, onAir, frames, anchor>>

\* How long a step of the survey that starts at t may take.  The solve and the
\* flash write are put off to a pass with enough time.
StepSpans(t) ==
    {d \in {StepBudget} : next - t > Margin + StepBudget}
    \cup {d \in {SolveBudget} : /\ next - t > Margin + StepBudget
                                /\ next - t - Margin >= SolveBudget}

SurveyStep(t) ==
    /\ Listens(t) /\ NothingDueBefore(t) /\ Work
    /\ now' = t
    /\ \E d \in StepSpans(t) : free' = t + d
    /\ UNCHANGED <<on, next, hurt, onAir, frames, faults, anchor>>

\* The air is the beacon's.  The anchor receives it, or does not: its receiver
\* is elsewhere, or the frame is lost.  What it did before the last beacon no
\* property asks about any more.
Observe(t) ==
    /\ \/ /\ deaf <= t - Preamble /\ job = NoJob
          /\ g' = Anchored(t % Wrap) /\ heard' = t
       \/ UNCHANGED <<g, heard>>
    /\ deaf' = Later(deaf, t + Body)
    /\ last' = IF last.at < onAir THEN Nothing ELSE last
    /\ UNCHANGED job

Armed == free + ArmLead <= next

\* tx_beacon, in time: the next one is a Period after it.
BeaconSent ==
    /\ on /\ frames < MaxFrames /\ NothingDueBefore(next) /\ Armed
    /\ now' = next /\ onAir' = next /\ next' = next + Period
    /\ free' = next + Body
    /\ hurt' = FALSE /\ frames' = frames + 1
    /\ Observe(next)
    /\ UNCHANGED <<on, work, faults>>

\* tx_beacon too late: the loop goes on from the time it is.
BeaconMissed ==
    /\ on /\ frames < MaxFrames /\ NothingDueBefore(next) /\ ~Armed
    /\ now' = next /\ next' = free + Period
    /\ hurt' = FALSE /\ frames' = frames + 1
    /\ UNCHANGED <<on, free, onAir, work, faults, anchor>>

\* The beacon is armed and its completion never seen, sent or not: the loop goes
\* on from the end of its wait.
BeaconStuck ==
    /\ on /\ frames < MaxFrames /\ NothingDueBefore(next) /\ Armed
    /\ Fault
    /\ now' = next
    /\ free' = Later(free, next - Margin) + GwTxTimeout
    /\ next' = free' + Period
    /\ hurt' = FALSE /\ frames' = frames + 1
    /\ \/ onAir' = next /\ Observe(next)
       \/ UNCHANGED <<onAir, anchor>>
    /\ UNCHANGED <<on, work>>

PowerCut ==
    /\ on /\ Fault
    /\ on' = FALSE /\ hurt' = FALSE
    /\ UNCHANGED <<now, next, free, onAir, frames, work, anchor>>

\* uwb_gateway_run again: the first beacon goes out at once.
PowerOn(t) ==
    /\ ~on /\ frames < MaxFrames /\ NothingDueBefore(t)
    /\ now' = t /\ on' = TRUE /\ free' = t
    /\ onAir' = t /\ next' = t + Period
    /\ frames' = frames + 1
    /\ Observe(t)
    /\ UNCHANGED <<hurt, work, faults>>

-----------------------------------------------------------------------------
(***************************************************************************)
(* The anchor.  A poll is answered at a fixed delay; a survey command is   *)
(* worked at, deaf to everything else, and then answered at once.  Both    *)
(* ask the prediction first.                                               *)
(***************************************************************************)

\* A frame with its RMARKER at t is received.
Hears(t) ==
    /\ NothingDueBefore(t) /\ job = NoJob
    /\ deaf + Preamble <= t

Says(what, at) == last' = [what |-> what, at |-> at, basis |-> heard]

\* anchor_respond_wave_poll, anchor_respond_discovery: the answer is refused by
\* the prediction, misses its slot (the loop was too slow: its time has come),
\* goes out, or never completes.
Poll(t, delay) ==
    LET tx == t + delay IN
    /\ Hears(t) /\ Work
    /\ now' = t
    /\ g' = Rolled(g, tx % Wrap)
    /\ IF ~Allowed(g, tx % Wrap)
       THEN Says("refused", tx) /\ deaf' = t + Body /\ UNCHANGED faults
       ELSE \/ Says("failed", tx) /\ deaf' = tx /\ UNCHANGED faults
            \/ Says("answer", tx) /\ deaf' = tx + Body /\ UNCHANGED faults
            \/ Fault /\ Says("answer", tx) /\ deaf' = t + AnchorTxTimeout
    /\ UNCHANGED <<gateway, heard, job>>

BatchSpans_CountOnly == {Exchange, MaxExchanges * Exchange}

\* How long a command is worked at: the stagger, the batch, the save.
BatchSpans ==
    {d \in {Exchange, Deadline, Deadline + Exchange} : d <= MaxExchanges * Exchange}
WorkSpans(kind) ==
    CASE kind = "begin"  -> {s * EnumSlot : s \in Slots}
      [] kind = "range"  -> BatchSpans
      [] kind = "setpos" -> Saves

\* The replies that are tried again.
Tries(kind) == IF kind = "setpos" THEN 1 ELSE 2

\* handle_survey_begin, handle_range_cmd, handle_setpos, up to their reply.
Command(t, kind, span) ==
    /\ Hears(t) /\ Work
    /\ now' = t
    /\ job' = [kind |-> kind, due |-> t + span, fresh |-> t - heard <= Period,
               refused |-> FALSE, tries |-> Tries(kind)]
    /\ deaf' = t + span
    /\ UNCHANGED <<gateway, faults, g, heard, last>>

RetryAt_AtOnce(t) == t

RetryAt(t) == t + Pause

\* Not sent: tried once more after the pause, or given up.
NotSent(refused, until) ==
    IF job.tries > 1
    THEN /\ job' = [job EXCEPT !.due = RetryAt(until), !.tries = @ - 1, !.refused = refused]
         /\ deaf' = RetryAt(until)
    ELSE job' = NoJob /\ deaf' = until

\* tx_now: asked about Lookahead from now, sent at once; it may be refused, go
\* out, or fail, at the start or after the wait for its completion.
Reply ==
    LET asked == job.due + Lookahead IN
    /\ job # NoJob /\ NothingDueBefore(job.due)
    /\ now' = job.due
    /\ g' = Rolled(g, asked % Wrap)
    /\ IF ~Allowed(g, asked % Wrap)
       THEN /\ Says(IF job.refused THEN "refused again" ELSE "refused", asked)
            /\ NotSent(TRUE, job.due) /\ UNCHANGED faults
       ELSE \/ /\ Says("reply", job.due + Preamble)
               /\ job' = NoJob /\ deaf' = job.due + Preamble + Body
               /\ UNCHANGED faults
            \/ /\ Fault /\ Says("failed", job.due + Preamble)
               /\ \E wait \in {0, NodeTxTimeout} : NotSent(FALSE, job.due + wait)
    /\ UNCHANGED <<gateway, work, heard>>

-----------------------------------------------------------------------------
\* The gateway has sent its first beacon, and the anchor heard it or not.
Init ==
    /\ now = Start /\ on = TRUE /\ next = Start + Period /\ free = Start
    /\ hurt = FALSE /\ onAir = Start /\ frames = 0 /\ work = 0 /\ faults = 0
    /\ \/ g = Anchored(Start % Wrap) /\ heard = Start
       \/ g = Unlocked /\ heard = 0
    /\ deaf = Start + Body /\ job = NoJob /\ last = Nothing

\* The explored instants for the anchor's transmissions to be asked about, of the
\* superframe of t and the next.
Instants(t) ==
    LET k0 == (t - heard) \div Period
    IN  {heard + k * Period + p : k \in k0 .. k0 + 1, p \in Phases}

GatewayNext ==
    \/ \E o \in GwOffsets : o <= next /\ (Grant(next - o) \/ SurveyStep(next - o))
    \/ BeaconSent \/ BeaconMissed \/ BeaconStuck \/ PowerCut
    \/ \E s \in Spells : PowerOn(onAir + s)

AnchorNext ==
    \/ \E d \in Delays : \E x \in Instants(now + d) : x >= d /\ Poll(x - d, d)
    \/ \E kind \in {"begin", "range", "setpos"} : \E d \in WorkSpans(kind) :
         LET ahead == d + Lookahead
         IN  \E x \in Instants(now + ahead) : x >= ahead /\ Command(x - ahead, kind, d)
    \/ Reply

Next == GatewayNext \/ AnchorNext

Spec == Init /\ [][Next]_vars

-----------------------------------------------------------------------------
\* Two frames, by their RMARKERs, are on the air at once.
Overlap(a, b) == a - Preamble < b + Body /\ b - Preamble < a + Body

\* The beacon at b is one that the beacon heard at h foretells.
Foretold(b, h) == h > 0 /\ \E k \in 1 .. MaxMisses + 1 : b = h + k * Period

\* A delayed answer is never on the air together with a beacon that the last
\* one heard foretells (beacon_guard.h:7-19), from either side of the counter's
\* wrap and however many beacons were missed up to the limit.
AnswersSpareBeacon ==
    last.what = "answer" /\ Foretold(onAir, last.basis) => ~Overlap(last.at, onAir)

\* The same of the replies to the survey's commands, which ask the same
\* question (uwb_mac.h:28-41 sizes the guard for both).
RepliesSpareBeacon ==
    last.what = "reply" /\ Foretold(onAir, last.basis) => ~Overlap(last.at, onAir)

\* A transmission is refused only around a beacon that the last one heard
\* foretells: a prediction that is too old to be trusted holds nothing back
\* (beacon_guard.h:44-51).  Unless the silence exceeded what the counter can
\* tell apart.
RefusalIsPredicted ==
    /\ last.what \in {"refused", "refused again"}
    /\ last.at - last.basis < Wrap \div 2
    => \E k \in 1 .. MaxMisses + 1 :
         LET b == last.basis + k * Period
         IN  b - Guard <= last.at /\ last.at <= b + Occupancy + Guard

\* The retry of a refused reply is never refused for the same beacon: the pause
\* outlasts the window (apos_node.c:241-248).
RetryGetsThrough == last.what # "refused again"

\* The reply to a batch is judged by a prediction that still holds, if the
\* command came within a superframe of a beacon: the deadline of the batch keeps
\* it within the misses the prediction survives (apos_node.h:79-94).
BatchKeepsLock ==
    [][job.kind = "range" /\ job.fresh /\ g.locked => g'.locked]_vars

\* Whatever the gateway was given to do, it is back in time to send the beacon
\* at its instant, unless a transmission failed to complete.
BeaconIsReady == on /\ ~hurt => Armed
=============================================================================

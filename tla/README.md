# Verification of the ANCLA firmware

Formal models of the firmware of the UWB anchors and their gateway (`src/`), the
TLC runs that check them on small instances, and the TLAPS proofs of what holds
for every instance. Line numbers refer to files under `src/src/` unless a path
says otherwise. The firmware runs one of three roles, chosen at build or at
start-up: the *gateway* (`uwb_gateway_run`), an *anchor*, called SLAVE in the
code (`uwb_slave_run`), or the calibration image.

## 1. The system

### 1.1 Components

| component | state it keeps | operations | talks to |
|---|---|---|---|
| `apos_gw` (gateway's survey) | `phase`, `session`, table, cursors `pair_idx`/`apply_idx`, what is outstanding, one deadline, the result | `apos_gw_set_gauge`, `_start_enum`, `_start_run`, `_start_apply`; `apos_gw_on_rx` (three kinds of frame); `apos_gw_step` (one step per call) | commands from the shell's thread, frames and steps from the gateway's loop, geometry, store |
| `apos_table` | peers and directed pair measurements | add, find, symmetrise | `apos_gw`, `apos_geom` |
| `apos_geom` | none (scratch) | seed, refine, check, solve | `apos_gw` |
| `apos_store` | the survey on flash, a geographic reference | save, load, set/clear reference | `apos_gw`, `net_uplink`, shell |
| `apos_node` (anchor's survey) | window (session, deadline), configuration in RAM and on flash | handlers of SURVEY_BEGIN, SETPOS, SURVEY_END, RANGE_CMD; `apos_node_window_open`; `tx_now` | the SLAVE loop, `beacon_guard`, `ss_initiator`, `uwb_store`, `anchor_respond` (by the window) |
| `gw_core` (seats) | one seat per ranging slot, the pool's cursor | join, keepalive, release, superframe tick | the gateway's loop |
| `uwb_gateway` (loop) | `next_beacon`, the receive hand-off | send the beacon, receive, dispatch, send a GRANT, step the survey | radio, `gw_core`, `apos_gw`, `pos_sink` |
| `uwb_slave` (loop) | the receive hand-off, `bguard` | receive, offer the frame to each handler in turn | radio, `apos_node`, `anchor_respond`, `beacon_guard` |
| `anchor_respond`, `disc_schedule` | none | delayed answers to WAVE polls and DISCOVERY | radio, `beacon_guard` |
| `beacon_guard` | the predicted beacon, misses, lock | beacon, "may I transmit at" | `uwb_slave`, `apos_node`, `anchor_respond` |
| `ss_initiator` | none | one ranging exchange | radio |
| `net_uplink`, `pos_sink` | WiFi and MQTT state, queue of fixes | submit, a thread that connects and drains, callbacks of events | gateway's loop, WiFi driver, DHCP, broker, `apos_store` |
| `uwb_config`, `net_config`, their stores | the live configuration and its keys on flash | setters; load, save one value each | shells, roles, boot |
| shells | none | parse, change the live configuration, save, print | all of the above, from the shell's thread |
| `cal_run`, `cal_math`, `cal_solve` | `g_req`, `g_res`, `g_busy`, two semaphores; the delays in four places | execute a command, run a batch, solve a delay, apply it | shell's thread and the calibration image's loop |
| radio, driver's interrupt | status register, receive buffer, interrupt enables | receive, `dwt_isr`, callbacks, `dwt_forcetrxoff` | both receive loops, `ss_initiator` |
| `apos_frame`, `uwb_frame`, `pos_json`, `tag_id` | none | pack, parse, format, hash | - |
| rest of the driver, boards | registers | - | vendored / data |

The gateway's loop and the shell share `apos_gw`'s variables with no lock. The
loop is cooperative and of the highest priority (`K_PRIO_COOP(0)`, main.c:93),
the shell and the uplink's thread are preemptible, and there is one core. The
interrupt of the radio is served by the system work queue, which hands one frame
at a time to the loop through `rx_pending`. Everything else crosses the air.

### 1.2 What is hard

* A survey is a long conversation over an air that loses frames. Replies come
  late, twice, or from the wrong board; a reply that the sender reports as not
  sent may have been received. Cursors, retries and a single deadline have to
  agree on what is outstanding.
* Operators stop between `apos run` and `apos apply`, change the gauge in
  between, and windows lapse meanwhile. The apply writes several flashes, one
  after the other, and any write may fail.
* A table, a pool and a queue run full; leases run out while their tag goes on;
  the gateway restarts with an empty table among tags that do not know.
* Beacons have to go out at their instant whatever the loop is doing, and every
  anchor has to keep off them from a prediction, with a counter that wraps every
  17 s, deaf while it runs a batch.
* The uplink has to survive a network that fails in every order.
* Three threads read and write the survey without a lock, field by field; so do
  the shell, the loop and the uplink with the configuration.
* One radio, one status register: the interrupt routine clears bits that a
  ranging exchange polls, a good frame raises two interrupts, the driver turns
  the interrupt off while it stops the receiver, and the loop sleeps for ever if
  nobody wakes it.
* A calibration command may give up on a batch that then goes on, changes the
  radio and leaves its result to the next command.
* Settings are written key by key, any key may fail, the power may go in between,
  and the boot reads the keys in whatever order the flash gives them.

### 1.3 What makes each component correct

* `apos_gw`: an answer is credited to what is outstanding and to nothing else
  (`CursorIsTrue`, `OutstandingRangeIsSettled`); the walk is complete
  (`WalkCoversPairs`); a result is applied only through its own table
  (`ResultMatchesTable`); the report accounts for everybody (`ApplyAccounting`);
  it ends (`SurveyEnds`). Among the threads, the loop never works on half a
  command (`CommandIsWhole`) and a report is of one result (`ReportIsOfOneResult`).
* survey end to end: what the gateway believes of an anchor is so (`OkIsOnFlash`,
  `RangeIsReal`, `CleanApplyAgrees`); without losses nothing is missing
  (`ReliableIsComplete`).
* `apos_table`: `PeersDistinct`. `apos_store`: `StoreUsable`, `StoreTellsFlash`.
* `gw_core`: one tag, one address, one seat (`SeatsDistinct`); an address is
  always found (`AddressesSuffice`); a tag that lost its address is not mistaken
  for its next owner (`StragglersUnmistaken`); seats of dead tags come free
  (`SilentTagsLeave`).
* the superframe: `BeaconIsReady` for the gateway; `AnswersSpareBeacon`,
  `RefusalIsPredicted`, `RetryGetsThrough`, `BatchKeepsLock` for the anchor.
* `net_uplink`: `KeepsNewest`, `ImplementsStream`, `OneConnection`,
  `RecoversInPlace`, `FixesArrive`.
* radio and receive loop: `EventIsWhole`, `NothingLost`, `NeverDeaf`; a ranging
  exchange: `ExchangeIsHonest`.
* calibration: a command gets its own batch's result (`AnswerIsOwn`), success
  means right (`Calibrated`), failure means unchanged (`FailureChangesNothing`),
  saved means in force (`SavedIsInForce`), the console comes back
  (`ConsoleComesBack`).
* configuration: what is not reported as lost is what the next boot works with
  (`SaidIsSaved`).

## 2. The modules

    AposTable <- AposGeom <- AposGw <- AposSurvey -> AposNode (INSTANCE)
                                          ^
                                   AposSurveyProofs
    GwCore <- GwTags <- GwCoreProofs
    BeaconGuard <- Superframe <- SuperframeProofs
    FixStream <- NetUplink (INSTANCE, a refinement) <- NetUplinkProofs
    RadioLoop <- RadioLoopProofs
    CalRun <- CalRunProofs
    SurveyThreads <- SurveyThreadsProofs
    BoardConfig <- BoardConfigProofs

`A <- B` means that B extends A. Every `MC...` module extends the module of its
name and gives its constants.

**AposTable, AposGeom.** A table is a sequence of `[eui, addr]`, a measurement
an ordered pair of node indices. `AddPeer` has the three outcomes of
`apos_table_add_peer` (refresh, append, refuse); `PairFrom`, `PairTo` are the
arithmetic of the walk (apos_gw.c:359). The geometry is the set of node sets the
solver *can* place, given the gauge and the measured pairs, and when the result
may be accepted; its numerics are not modelled, so a solve is a nondeterministic
choice among them.

**AposGw.** One action per command (`SetGauge`, `StartEnum`, `StartRun`,
`StartApply`), per kind of frame (`OnEnumRsp`, `OnRangeRsp`, `OnSetposAck`), per
branch of a step (`EnumSend`, `EnumDone`, `RangeTimeout`, `RangeCmd`,
`RangeSolve`, `ApplyTimeout`, `ApplyReopen`, `ApplySkipOnly`, `ApplyCmd`,
`ApplyPersist`, `ApplyEnd`), and `Reboot`. The variables are the fields of the
static state in apos_gw.c under their names; `timer` is `next_action_ms`, either
running or due. A frame that a handler drops is no step. Frames are any frames
at all, so this module assumes nothing of the anchors. Coordinates are the
session they were solved in; `store` is what `apos_store_save` leaves.
`tx_now` may report a failure (`tx = FALSE`); in AposSurvey such a frame may
have been heard all the same.

**AposNode.** All anchors, as functions of their short address: `win` and
`expired` (the window, and whether its deadline has passed: it is *closed* only
when somebody asks), `ram`, `nvs`, and `out`, the reply the anchor owes. While it
owes one it is deaf, because the SLAVE loop handles a frame to the end before it
arms the receiver.

**AposSurvey.** The gateway, the anchors and the air, with every transmission of
the one joined to the handlers of the others. `reliable` behaviours lose
nothing and keep the timeouts in their intended order; the others lose what they
like. Session numbers are fresh: the code draws 16 bits at random, a repetition
(2^-16) is left out.

**GwCore, GwTags.** GwCore is gw_core.c alone, with frames of any kind; GwTags
adds the tags and the gateway's dispatch. The tags' firmware is not in the
repository. A tag is modelled with no more discipline than the gateway may
expect: it goes on from the address it was last granted, notices neither the
loss of its lease nor a restart, and may die.

**BeaconGuard, Superframe.** BeaconGuard holds the functions of beacon_guard.c
over a counter of modulus `Wrap`, with the code's signed comparison. Superframe
puts one gateway and one anchor into time. Every action happens at an instant
of its own; what is due (the next beacon, a reply) is never passed over. Gateway:
`Grant`, `SurveyStep`, the three ends of `tx_beacon` (`BeaconSent`,
`BeaconMissed`, `BeaconStuck`), `PowerCut`, `PowerOn`. Anchor: `Poll` (a WAVE
poll or DISCOVERY, answered at a fixed delay), `Command` and `Reply` (the three
survey handlers that end with `tx_now`). Instants are RMARKERs; a frame occupies
the air from its preamble to its end. A missed slot (`dwt_starttx` refuses) means
that the instant has already gone by; that is why an anchor that rolled its
prediction over a beacon and then did not transmit is not blind to that beacon:
it is busy until after it. Clock drift (some 32 us, far inside the guard) is left
out, and so are the polls of a ranging batch, which never ask the prediction.

**NetUplink.** `pc` is the place of `uplink_thread`, one action per stretch
between two blocking calls; the event callbacks are actions of their own
(`Deliver`), and `Submit` is the gateway's loop, atomic because the loop
outranks the thread. WiFi driver, DHCP and broker are external and do what the
thread's comments expect of them: the driver refuses a request while it is
associated (net_uplink.c:551-553) and does not re-associate by itself. Back-off
ladders, which only change how long a wait lasts, are one step.

**FixStream** is what the uplink promises of fixes, without thread, queue or network:
they leave strictly oldest first, delivered or lost, each once, and one is dropped for
a newer only when `Depth` newer ones have been accepted. `Stream` in NetUplink is the
refinement mapping: the fixes that wait are those in `fix_q` and the one
`drain_fix_queue` holds, so taking one from the queue is a stutter, a publication the
abstract delivery, a failed one the abstract loss. The property `ImplementsStream` is
`Stream!Spec`.

**RadioLoop.** The radio and its status register, the interrupt's work item with
`dwt_isr()` step by step (the status read once, bits cleared, callbacks in their
order), the two callbacks with their guard `rx_pending`, and the receive loop of
the slave, the gateway and the calibration image. `ss_initiator`'s exchanges, which turn the
interrupts off and poll the same register, are part of the loop. The work item
preempts the loop; the radio comes between any two steps of either. One thing is
assumed of the air: a frame lasts more than a millisecond, so none ends in the few
statements between re-arming the receiver and looking at an event that already
waited. The gateway may transmit whenever it is about to arm the receiver (when it
does is Superframe's), and its wait of 400 ms may end at any time. Three
consequences are benign: the pass of the interrupt for a trailing CIADONE may hand
the same event over twice (a gateway may then publish a fix twice), an event left
from before a batch may pair its length with later data, and a CIAERR left behind
wastes one exchange. One is not, and `missed` excepts it from `NeverDeaf`:
`dwt_forcetrxoff()` turns the GPIO interrupt off, and an edge in that moment, while an
answer is given over a receiver that is on or the gateway gives up its wait, leaves
the board deaf until a reboot; the gateway goes on beaconing, its 400 ms arm a
receiver that no interrupt reports on. (uwb_slave.c:54-55 says
`rx_pending` is cleared before status and length are touched; the code clears it
after, which is the right order.) A response is accepted by its frame type alone,
as in the code. The 25 ms waits for a transmission to end and the debug heartbeat are
left out.

**CalRun.** A command (`Begin` to `SaveRx`) on the shell's thread, one action per
statement of the hand-shake in `cal_run_execute()`, against a loop that runs
batches: the request's fields, the two semaphores, `g_busy`, and the timeout that
gives up on a batch without stopping it (the batch of a `cal ref` that timed out
still applies its delay). A batch reads `g_req` while it runs, as the code does.
Samples are a bag; `IsMedian`, `FilteredMeans` and `SolveStep` are the arithmetic of
cal_math.c and cal_solve.c with their roundings and clamps. The delays live in four
places: the loop's copy, the radio, the shared configuration, the flash. Not
modelled: `anchor ant` with another receive delay followed by `cal ref` without a
reboot, and the 32-bit overflow of distances past 2.1 km.

**SurveyThreads.** The commands and reports of the shell as sequences of single
assignments (`writes`) and single reads (`reads`), the loop between any two of them,
and the uplink reading the stored survey field by field for the map. The loop is
atomic, for nothing preempts it, except at the flash write in `apos_store_save()`.
Stores are in the order of the source: the variables are not volatile, and what a
compiler may reorder is not modelled. `apos_gw_trigger_from_mqtt()` and
`apos_store_clear()` have no caller. `apos zoff` is left out. The survey that
`apos show` prints from the store can be torn as the map can.

**BoardConfig.** The live configuration, the keys in flash, the boot that loads them
in any order through the setters, `main()`'s choice of what to run, the console's
commands as assignments followed by saves, SETPOS from the loop in the middle of
them, failing reads and writes, power cuts. A value that a setter refuses changes
nothing and is no step. Once a SETPOS has come between two statements of `anchor
pos`, the position may be mixed, or flash may keep the old one although the SETPOS
was acknowledged; `raced` excepts that from `SaidIsSaved` (uwb_store.c:32 says the
coordinates and their flag "can never disagree"). A power cut between two keys
leaves the host of one `net broker` with the port of another: nothing was reported,
so nothing is claimed. A string is one value: one that is read while it is being
copied is not modelled.

## 3. The runs

Passing runs:

| run | configuration | distinct states | shows |
|---|---|---|---|
| `gw_survey` | MCAposGw.cfg | 386,000 | the gateway against any frames: the invariants of AposGw, the settlement of commands, and that a survey ends |
| `survey` | MCAposSurvey.cfg | 885,000 | gateway, three anchors and the air: the four end-to-end properties |
| `gw_tags` | MCGwTags.cfg | 210,000 | seats, addresses, leases, with tags and one restart |
| `uplink` | MCNetUplink.cfg | 209,000 | queue, connection, recovery in place, delivery, and that it all implements FixStream |
| `superframe` | MCSuperframe.cfg | 621,000 | cadence and prediction, with the code's durations |
| `calibration` | MCCalRun.cfg | 588,000 | commands, batches that outlast them, wild samples, failing flash, restarts |
| `radio_loop` | MCRadioLoop.cfg | 1,407,000 | the hand-off from the interrupt and the ranging exchanges |
| `threads` | MCSurveyThreads.cfg | 2,003,000 | shell, loop and uplink without a lock |
| `config` | MCBoardConfig.cfg | 1,751,000 | commands, SETPOS, faults of flash, power cuts, every order of loading |

Runs that end in a violation, each of a statement of the repository about the
program (section 6): `gauge_changed`, `slow_dhcp`, `live_config`.

For every property of a passing run PROJECT.json lists a mutant: a definition
of the model with a plausible mistake (`X_...` beside `X` in the module), under
which the same run finds the property violated. `TypeOK` is a property of
`gw_survey` only; in the other modules that have proofs it is a theorem.

### 3.1 Bounds, and why they are enough

*gw_survey.* Three boards answer, one of them also under another's address, and
one claims the gateway's: every way a row can clash. Three ways to start: the
gauge set and nothing enumerated; an enumeration that has filled the table, where
a fifth board answers; and a solved four-node survey with one node left out, under
a 2D or a 3D gauge. Two commands (a power cut counts as one) reach run
then apply, a gauge change in between, and an apply after another run. One
enumeration round, one retry, a transmit limit of 2: each counter takes its zero,
its middle and its end. The walk over more peers is proved.

*survey.* Three anchors, the least for a 2D gauge. Reliable behaviours from boot
with four commands (gauge, run, apply and one more). Lossy behaviours start in
the middle of a run, at a turn of the cursor from one board to the next, or
where a run waits to be applied; one fault (a power cut or a lapsed window) on
top of any losses. Losses are not bounded.

*gw_tags.* Two slots, three tags, three addresses: the table fills, the pool
goes round and meets addresses still held. A lease of two superframes, one
restart, one silent tag.

*uplink.* A queue of two and five fixes, so that it overflows while one is in the
thread's hands; two tries to associate; three link drops (none in the run of
`Recovers`); a broker that fails without limit until the network settles.

*superframe.* The constants are the code's, in ticks of 250 UWB us, rounded to
the side worse for the properties; `Wrap` is 2^16 ticks for 67,108.9. Six
superframes are one more than the prediction survives. They start two before
the wrap. The anchor transmits at instants one tick on either side of each edge
of the predicted window, in it and in mid-frame; the gateway is given work too
late, at the last moment, where a step just fits and where a solve fits. Two
pieces of work, one fault (a transmission that never completes, a power cut) in
the first two superframes, silences up to nearly a whole wrap. After a silence of
more than half a wrap the signed comparison lies, and a prediction long dead may
hold back an answer: `RefusalIsPredicted` says so and excludes it. How long a
solve takes is not known (apos_gw.h says it has not been timed): the model gives
it its budget.

*calibration.* Two commands: the first may time out and leave its batch to the
second. Batches of four samples, of which one must be answered (the code's
quarter): wild samples can be in the minority or not, and all can be lost. Two boards
to range with, and one request with the wrong distance; of the two boards that are
calibrated one needs a delay out of range. One reboot.

*radio_loop.* No bound but that receptions are numbered modulo 3 and batches have
two exchanges: two receptions at most are ever told apart, the one that waits and
the latest. The proof is for any numbers.

*threads.* Three sessions: one leaves a result, the next takes it away while it is
being told or applied, the third leaves another. Tables of at most three boards,
two rounds, a gauge of each kind.

*config.* One string of each kind, two values, three commands, which is what it
takes to make a gateway and give it a network, and one fault. Power cuts are not
bounded.

`CHECK_DEADLOCK FALSE` is given where the system does come to rest: `gw_survey`
and `survey` once the operator's commands are used up and the gateway is idle,
`uplink` with the fixes used up or the thread given up for good, `superframe` at
its last superframe, `calibration` once its commands are used up, `radio_loop`
because a slave whose edge was missed really stops.

### 3.2 Fairness

* AposGw: weak fairness of `Step` and `TimerFires`. The loop calls
  `apos_gw_step` at the top of every pass, with a whole superframe's budget right
  after each beacon (uwb_gateway.c:327-364), and time passes. `SurveyEnds` needs
  nothing of the anchors.
* GwTags: weak fairness of `Superframe`: the tick runs once per beacon, whatever
  was received (uwb_gateway.c:409).
* NetUplink: weak fairness of the thread, which runs whenever the loop sleeps in
  `k_sem_take`; strong fairness of `PollFails`: a connection that is dead is
  found out in the end, by MQTT's keep-alive if by nothing else.
* CalRun: weak fairness of the shell's thread and of the loop, which both run
  whenever they have something to do; none of the timeout, so `ConsoleComesBack`
  holds without its help.
* The other modules state safety only.

## 4. The proofs

Each theorem holds for every value of the constants that meets the named
assumption of the module, which TLC evaluates in the runs.

**AposSurveyProofs**, the gateway's machine (`TableAssumption`, `GwAssumption`). `IInv`
is type correctness and the safety invariants together with `PhaseFacts`, which says
what each phase implies for the others (in RANGE `pair_total` is n(n-1), in ENUM
nothing is measured, a result needs a gauge). Without it `CursorIsTrue` is not
inductive: the cursor would be in range only by the phase it came from. `Inductive`
has one lemma per action. `AlwaysWalkCoversPairs` says for any number of peers that
the arithmetic of the walk enumerates exactly the ordered pairs; its heart is the
uniqueness of quotient and remainder (`QuotientRemainder`). `RangeIsSettled` is the
action property.

**AposSurveyProofs**, end to end (besides, `SurveyAssumption`: an anchor's address
belongs to a board). `SurveyImplementsGateway`: with real anchors and an air that
loses what it likes, the gateway takes only steps of AposGw, so `IInv` carries
over. `SInv` adds what a reply in the air is worth: an acknowledgement still owed tells
what its anchor has on flash (`AckIsTrue`), a response still owed is of a batch that
was run (`RangeIsTrue`). Both last until the reply is heard because an anchor that
owes one hears nothing else meanwhile. `AlwaysOkIsOnFlash`, `AlwaysRangeIsReal` and
`AlwaysCleanApplyAgrees` hold for any number of anchors, losses and power cuts.
`AlwaysReliableIsComplete` is about the behaviours that lose nothing: `RInv` adds that
in them every window is open, the answer to an outstanding command is owed or was a
good one, and all the other anchors listen when the gateway next sends (`Smooth`), so
no timeout is ever taken.

**GwCoreProofs** (`CoreAssumption`: the pool has more addresses than there are
slots). `AlwaysAddressesSuffice` is a pigeonhole argument: one more tried address
than slots cannot all be held. `TagsImplementCore` shows that GwTags takes only
steps of GwCore, so `AlwaysSeatsDistinct` carries over. `AlwaysStragglersUnmistaken`
rests on every address in a tag's hands lying behind the pool's cursor until it
has been round.

**NetUplinkProofs** (`UplinkAssumption`). The strengthening says what the thread
may hold and what is behind `submitted`; `AlwaysKeepsNewest`, `AlwaysOneConnection`
and `FixesInOrder` follow, for any depth. `UplinkIsStream` is the refinement: what
waits is an interval of numbers and the fix in hand (`WaitingIs`), and each step of
the uplink maps to one of FixStream or to a stutter (`NextStreams`).

**SuperframeProofs** (`GuardAssumption`, `FrameAssumption`, `ClearanceAssumption`).
`FrameTypeCorrect` contains that a prediction rolled forward, however far, never counts
more misses than it may: the loop stops at the *least* number of beacons, which exists
because the naturals are well founded. `AlwaysBeaconIsReady`: the invariant is
inductive with the types, from `Turnaround + Body + ArmLead <= Margin`, which the
code's numbers satisfy. The anchor's side rests on `KInv`: a locked prediction is, on
the wrapping counter, the beacon heard last plus one superframe for it and for every
miss (`Follows`); the beacons it has stepped over lie behind all that it may still be
asked about (`PassedBehind`); an answer is clear of every foretold beacon, sent or to
come (`AnswerClear`); a reply that was refused waits with the beacon that refused it as
the next (`RetryReady`); a batch still has misses to spare (`BatchInTime`). The
signed comparison is right as long as the instant asked about is less than half a turn
away from the prediction, and beyond that every beacon that was foretold is already
past; so `AlwaysAnswersSpareBeacon` needs no bound on the silence and
`AlwaysRefusalIsPredicted` just the one it states. `ClearanceAssumption` is what the
guard, the pause and the deadline of a batch are sized for in the code's comments.

**RadioLoopProofs** (`RadioAssumption`). `IInv` says, for every statement of the loop,
which interrupts are enabled, who holds the event that waits, that status and length
are of one event, that an active receiver leaves no trace of an earlier frame, and
that a high line is being looked after. `EventsAreWhole`, `NothingIsLost`,
`ExchangesAreHonest` and `AlwaysHears` follow, for any number of exchanges.

**CalRunProofs** (`CalAssumption`, `PrecisionAssumption`). In the first half the
arithmetic stays closed: what was measured does not matter to the hand-shake. While a
command that found nothing under way waits, its request is asked for, or runs, or is
done (`Asked`, `Runs`, `Done`), and in no two of those states; the delays in the four
places agree but between the statements that move them. `AnswersAreOwn`,
`FailuresChangeNothing` and `SavedDelaysAreInForce` follow. In the second half the
arithmetic is opened for `AlwaysCalibrated`. A batch with one peer holds samples at two
distances only (`Sampled`), so the recursion in the bags' cardinality and in the sum of
a set need only be unfolded for sets of one and two elements. Where fewer than half are
wild the median is the true reading, the median deviation is 0, six times the least
deviation of 1 mm shuts the wild ones out (`MajorityIsMean`), and the mean is what the
peer reads at. `CorrectionIsExact`: a tick being longer than 2 mm, rounding the reading
to millimetres and the correction to ticks gives back the very number of ticks. The
clamp of the solve never acts on a delay within `CAL_TX_DLY_MIN..MAX`.
`PrecisionAssumption` is just these three margins, of which the code's constants are
2.34 mm, and 35,385 of 65,000; what is nearer than 6 mm is no wild sample.

**SurveyThreadsProofs** (`ThreadsAssumption`). Between two assignments of a command
the variables contradict one another, so `TInv` speaks of what a variable is *or will
be* when the command has made its assignments (`Will`): that is preserved by each of
them, and is about the variable itself once there are none left. The phase comes last
in every command, so the loop rests until then and finds cursors and flags prepared
(`CommandFirst`): an order of assignments the code's comment asks for, and the heart of
`AlwaysCommandIsWhole`. Where the loop runs the shell has nothing to assign, so its
steps are judged by the simpler `Settled`. `AlwaysReportIsOfOneResult` needs besides
that a report has begun before its result can be replaced, `AlwaysStoreTellsFlash`
that nothing runs between the write and the copy but readers.

**BoardConfigProofs** (`ConfigAssumption`, `NamesAssumption`: no two settings share a
key, as their names in net_store.c:18-23 and uwb_store.c:26-30 do not). `SaidIsSaved`
is a statement about the end of commands and of the boot. `CInv` carries it through
both: a command takes its fields out of what was said, assigns all of them before it
saves any, and saves every key of what it assigns (`CommandOK`), so a field that it
has no longer to save agrees with flash (`SavesOK`); a record that the boot's setter
would refuse is one of the defaults, which is what the field has when it is loaded
(`Whole`, `BootOK`); and a position is changed as one, unless a SETPOS races
(`CfgOK`).

Only model-checked: liveness (`SurveyEnds`, `SilentTagsLeave`, `RecoversInPlace`,
`FixesArrive`, `ConsoleComesBack`), which is beyond the prover. Every invariant that a
passing run checks is proved, the action properties and refinements with them.

## 5. What is not modelled

* Frame layouts (`apos_frame`, `uwb_frame`), the text of the JSON payloads, the hash
  `tag_id`, parsing and printing of the shells: pure conversions with unit tests in
  `src/tests/`. Frames are records here.
* The solver's numerics and the quality figures: floating-point data. AposGeom says
  which nodes may be placed and when a result may be accepted.
* The vendored driver, 41,000 of the repository's 52,800 lines of implementation:
  register access and set-up of two chips. Modelled of it are the interrupt's work
  item, `dwt_isr()` for receptions, `dwt_forcetrxoff()` and the interrupt mask.
* `uwb_radio`, `uwb_dwtime`: bring-up and units of time. Of `main.c` the order of the
  start is in BoardConfig.
* Code without a caller: `apos_gw_trigger_from_mqtt`, `apos_store_clear`, the calibration
  record and the split of `cal_math.c`.

The lines that definitions translate are some 5,450, nearly half of the firmware's own
11,500.

## 6. Findings

Shown by a run each:

1. `gauge_changed`: a gauge changed between run and apply stores a survey whose
   first node is not the node at (0,0,0), against apos_store.h:57.
2. `slow_dhcp`: an address that comes after the 30 s of wait leaves the uplink
   refusing itself for as long as the association stands, against
   net_uplink.c:268-269.
3. `live_config`: "changes take effect on the next boot" (anchor_shell.c:9-11,
   net_shell.c:6-7) holds of the loops only. `require_gateway()` (apos_shell.c:55) asks
   for the mode of the live configuration: after `anchor mode gateway` on a running
   anchor `apos gauge` and `apos run` are accepted, and the survey is busy until a
   reboot, with no loop to step it. The uplink reads the live network, credentials and
   board id whenever it connects (net_uplink.c:235-238, 319-328, 372-373, 400-414).
   Besides, a gateway without a position refuses to run, but its uplink starts and the
   `apos` commands are accepted.

Disagreements without a run of their own. Each is stated by a definition that stays in
the module named; listed in the .cfg of its MC module as an INVARIANT
(`SilentOutsideWindow` as a PROPERTY) it is violated.

4. `FailIsOld` (AposSurvey): an anchor whose acknowledgements are lost is reported "still
   on its OLD coordinates" (apos_gw.c:1002-1005, docs/anchor-auto-positioning.md:482)
   although it applied and saved the new ones (apos_node.c:285-313).
5. `SilentOutsideWindow` (AposSurvey): SETPOS is honoured in a window past its deadline
   that nothing has queried since (apos_node.c:274, 84-98), against apos_node.h:17-21.
6. `FixIsOwn` (GwTags): after a restart the pool starts over (gw_core.c:16-20), and
   fixes of a tag that did not rejoin are published under another tag's identity
   (uwb_gateway.c:246-260), against pos_json.h:44.
7. `LinkTruth` (NetUplink): a disconnect delivered before the thread sets
   `wifi_associated` (net_uplink.c:276) is overwritten, against net_uplink.c:118-120.
8. `RepliesSpareBeacon` (Superframe): an immediate reply is judged by the start of its
   preamble (apos_node.c:131) where the guard is sized for its RMARKER
   (uwb_mac.h:33-40), and may be on the air when the beacon starts.
9. `NeverAnothersResult` (CalRun): the reset of `done_sem` does not keep a command from
   the result of an earlier one whose batch is still running (cal_run.c:84-93).
10. `MapIsOneSurvey` (SurveyThreads): the uplink formats the stored survey field by
    field (pos_json.c:114-150) while the loop may copy a new one over it
    (apos_store.c:156-161), against net_uplink.c:448.

4, 5 and 8 need nothing but an ordinary loss or an ordinary instant; 1, 3 and 9 an
operator's command; 6 a restart; 2 and 7 a slow or unlucky network; 10 a survey that
ends while the uplink connects.

## 7. Plan

Done, in this order: the survey on the gateway, the nodes, their composition; seats
and tags; the uplink; the superframe; the calibration; the radio, its interrupt and the
receive loop; the threads of the survey; the configuration; the stream of fixes that
the uplink implements; the proofs above.

Next:

1. An abstract one-place buffer that RadioLoop refines.
2. Abstract specifications: a survey as one atomic change of everybody's coordinates,
   with the apply refining it when its report is clean.
3. `AposGeom`: the order in which the seed places nodes, against a reference
   definition over all small meshes.
4. Proofs of the refinements of 1 and 2.

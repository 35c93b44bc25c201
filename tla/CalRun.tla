------------------------------- MODULE CalRun -------------------------------
(***************************************************************************)
(* The calibration image: a command on the shell's thread hands a request  *)
(* to the loop that owns the radio and waits for the result of the batch   *)
(* (cal_run.c, cal_shell.c), and a batch against the reference node solves *)
(* the transmit antenna delay (cal_math.c, cal_solve.c).                   *)
(*                                                                         *)
(* The loop is of the higher priority: it comes between any two statements *)
(* of the shell, the shell comes in where the loop sleeps between samples  *)
(* or waits.  A batch that outlasts the 30 s of the wait is a fault that   *)
(* may happen to any.  The loop's duty as a responder is in RadioLoop.     *)
(* There is one console and so one command at a time.                      *)
(*                                                                         *)
(* Distances are millimetres, delays ticks of the radio.  What a peer's    *)
(* exchange measures is its true distance, off by the error of the delays  *)
(* in force; a wild exchange is off by WildOffset besides.                 *)
(***************************************************************************)
EXTENDS Integers, FiniteSetsExt, Bags

CONSTANTS
  Peers, Dist(_),        \* boards to range with, and how far away they are
  WildOffset,
  NSamples,              \* CAL_MAX_SAMPLES
  MmPerKiloTick,         \* CAL_MM_PER_UNIT_X1000
  MaxTotal,              \* CAL_MAX_TOTAL_DLY
  TxMin, TxMax,          \* CAL_TX_DLY_MIN, CAL_TX_DLY_MAX
  Seed,                  \* UWB_ANT_DELAY_DEFAULT
  Ideals,                \* combined delays that would be right for a board
  Requests,              \* what `cal ref' and `cal peer' ask for
  AntTx                  \* what `anchor ant' sets, receive delay at Seed

ASSUME CalAssumption ==
  /\ NSamples \in Nat \ {0} /\ MmPerKiloTick \in Nat \ {0}
  /\ TxMin \in Nat \ {0} /\ TxMax \in Nat \ {0} /\ Seed \in Nat /\ MaxTotal \in Nat
  /\ Ideals \subseteq Nat /\ AntTx \subseteq Nat
  /\ Requests \subseteq [peer : Peers, ref : Int, persist : BOOLEAN]

\* A tick is two millimetres at least (cal_math.h:15), no delay that may be
\* applied comes near the clamp of the solve (cal_math.h:18, cal_solve.h:31-32),
\* and a wild sample is farther off than six times the least deviation the
\* filter of the means reckons with (cal_math.c:108-111).
ASSUME PrecisionAssumption ==
  /\ MmPerKiloTick >= 2000 /\ TxMax + Seed < MaxTotal
  /\ \A p \in Peers : Dist(p) \in Int
  /\ WildOffset \in Int /\ (WildOffset > 6 \/ -WildOffset > 6)

VARIABLES
  pc,         \* where the shell's thread is
  cmd,        \* its request
  unread,     \* fields of it not yet copied to g_req
  out, ret,   \* what cal_run_execute() gave back
  g_busy, g_req, g_res,
  req_sem, done_sem,
  batch,      \* the loop's batch, or NoBatch while it waits
  cfg_live,   \* the loop's copy of the delays
  tx_reg,     \* the radio's transmit delay
  conf, nvs,  \* the delays of the shared configuration, and in flash
  ideal,      \* the combined delay that is right for this board
  quiet,      \* the command found no batch asked for or running
  before      \* the radio's delay when the command started

shellVars == <<pc, cmd, unread, out, ret, quiet, before>>
handVars == <<g_busy, g_req, g_res, req_sem, done_sem>>
delayVars == <<cfg_live, tx_reg, conf, nvs>>
vars == <<shellVars, handVars, batch, delayVars, ideal>>

-----------------------------------------------------------------------------
(***************************************************************************)
(* The arithmetic.                                                         *)
(***************************************************************************)

Abs(x) == IF x < 0 THEN -x ELSE x

DivRound_Truncates(num, den) == num \div den

\* Signed division rounded to the nearest.
DivRound(num, den) ==
  IF num >= 0 THEN (num + den \div 2) \div den ELSE -((-num + den \div 2) \div den)

Clamp(x, lo, hi) == IF x < lo THEN lo ELSE IF x > hi THEN hi ELSE x

\* The combined delay that moves what is measured onto the reference.
SolveStep(measured, ref, total) ==
  Clamp(total + DivRound((measured - ref) * 1000, MmPerKiloTick), 0, MaxTotal)

\* All of the correction goes to the transmit delay.
SolvedTx(measured, ref, d) == SolveStep(measured, ref, d.tx + d.rx) - d.rx

(***************************************************************************)
(* The samples of a batch are a bag: their order tells nothing.            *)
(***************************************************************************)

\* The samples of the bag b within limit of m.
Within(b, m, limit) ==
  LET near == {v \in DOMAIN b : Abs(v - m) <= limit} IN [v \in near |-> b[v]]

\* How far the samples are from m.
Deviations(b, m) ==
  [d \in {Abs(v - m) : v \in DOMAIN b} |->
     BagCardinality(Within(b, m, d)) - BagCardinality(Within(b, m, d - 1))]

\* m is in the middle of the sorted samples, the upper of two.
IsMedian(b, m) ==
  LET below == [v \in {v \in DOMAIN b : v < m} |-> b[v]]
  IN /\ BagCardinality(below) <= BagCardinality(b) \div 2
     /\ BagCardinality(below) + b[m] > BagCardinality(b) \div 2

Mean(b) == MapThenSumSet(LAMBDA v : v * b[v], DOMAIN b) \div BagCardinality(b)

\* The means of the samples within six median deviations of the median: one.
FilteredMeans(b) ==
  UNION {{Mean(Within(b, med, 6 * Max({1, mad}))) :
            mad \in {d \in DOMAIN Deviations(b, med) : IsMedian(Deviations(b, med), d)}} :
            med \in {m \in DOMAIN b : IsMedian(b, m)}}

\* What an exchange with p measures.
Reading(p) ==
  Dist(p) + ((ideal - tx_reg - cfg_live.rx) * MmPerKiloTick) \div 1000

-----------------------------------------------------------------------------
(***************************************************************************)
(* The state.                                                              *)
(***************************************************************************)

Delays == [tx : Nat, rx : Nat]
Field == {"peer", "ref", "persist"}
Status == {"ok", "nodata", "range"}

NoBatch == [running |-> FALSE, n |-> 0, ref |-> 0, samples |-> EmptyBag,
            peers |-> {}, wild |-> 0]
\* The peers and the count of wild samples are not in the code's struct: they
\* say what the result was made of.
NoResult == [status |-> "ok", ref |-> 0, old_tx |-> 0, new_tx |-> 0,
             peers |-> {}, wild |-> 0, valid |-> 0]

ResultOK(r) ==
  /\ r.status \in Status /\ r.ref \in Int
  /\ r.old_tx \in Nat /\ r.new_tx \in Nat
  /\ r.peers \subseteq Peers

ShellTypeOK ==
  /\ pc \in {"idle", "copy", "reset", "give", "wait", "read", "conf", "save_tx", "save_rx"}
  /\ cmd \in [peer : Peers, ref : Int, persist : BOOLEAN]
  /\ g_req \in [peer : Peers, ref : Int, persist : BOOLEAN]
  /\ unread \subseteq Field /\ (unread # {} => pc = "copy")
  /\ ret \in Status \union {"none", "timeout", "saved", "unsaved"}
  /\ g_busy \in BOOLEAN /\ (g_busy => pc \in {"copy", "reset", "give", "wait", "read"})
  /\ quiet \in BOOLEAN

LoopTypeOK ==
  /\ req_sem \in BOOLEAN /\ done_sem \in BOOLEAN
  /\ batch.running \in BOOLEAN /\ batch.n \in 0..NSamples
  /\ batch.ref \in Int /\ batch.peers \subseteq Peers

DelayTypeOK ==
  /\ cfg_live \in Delays /\ conf \in Delays /\ nvs \in Delays
  /\ tx_reg \in Nat /\ ideal \in Ideals /\ before \in Nat

\* Among them: only a command that is handing over or waiting holds g_busy.
TypeOK ==
  /\ ShellTypeOK /\ LoopTypeOK /\ DelayTypeOK
  /\ ResultOK(out) /\ ResultOK(g_res)

\* g_req is zero then, and read only after it was written.
Init ==
  /\ nvs = [tx |-> Seed, rx |-> Seed]
  /\ ideal \in Ideals
  /\ cmd \in Requests /\ g_req = cmd
  /\ cfg_live = nvs /\ tx_reg = nvs.tx /\ conf = nvs
  /\ pc = "idle" /\ unread = {} /\ out = NoResult /\ ret = "none"
  /\ quiet = TRUE /\ before = nvs.tx
  /\ g_busy = FALSE /\ g_res = NoResult
  /\ req_sem = FALSE /\ done_sem = FALSE /\ batch = NoBatch

-----------------------------------------------------------------------------
(***************************************************************************)
(* The shell's thread: cmd_peer(), cmd_ref(), cal_run_execute().           *)
(***************************************************************************)

At(here, there) == pc = here /\ pc' = there

\* g_busy turns away a command while another one waits, which a single
\* console cannot ask for.
Begin(r) ==
  /\ At("idle", "copy") /\ ~g_busy
  /\ g_busy' = TRUE
  /\ cmd' = r /\ unread' = Field
  /\ ret' = "none"
  /\ quiet' = (~batch.running /\ ~req_sem) /\ before' = tx_reg
  /\ UNCHANGED <<out, g_req, g_res, req_sem, done_sem, batch, delayVars, ideal>>

\* g_req = *req, in whatever order the compiler copies the fields.
CopyField(f) ==
  /\ pc = "copy" /\ f \in unread
  /\ g_req' = [g_req EXCEPT ![f] = cmd[f]]
  /\ unread' = unread \ {f}
  /\ pc' = IF unread = {f} THEN "reset" ELSE "copy"
  /\ UNCHANGED <<cmd, out, ret, quiet, before, g_busy, g_res, req_sem, done_sem,
                 batch, delayVars, ideal>>

Cleared_Not(sem) == sem

\* k_sem_reset().
Cleared(sem) == FALSE

ResetDone ==
  /\ At("reset", "give")
  /\ done_sem' = Cleared(done_sem)
  /\ UNCHANGED <<cmd, unread, out, ret, quiet, before, g_busy, g_req, g_res, req_sem,
                 batch, delayVars, ideal>>

GiveRequest ==
  /\ At("give", "wait")
  /\ req_sem' = TRUE
  /\ UNCHANGED <<cmd, unread, out, ret, quiet, before, g_busy, g_req, g_res, done_sem,
                 batch, delayVars, ideal>>

TakeDone ==
  /\ At("wait", "read") /\ done_sem
  /\ done_sem' = FALSE
  /\ UNCHANGED <<cmd, unread, out, ret, quiet, before, g_busy, g_req, g_res, req_sem,
                 batch, delayVars, ideal>>

\* The batch goes on.
WaitTimesOut ==
  /\ At("wait", "idle") /\ ~done_sem /\ batch.running
  /\ g_busy' = FALSE /\ ret' = "timeout"
  /\ UNCHANGED <<cmd, unread, out, quiet, before, g_req, g_res, req_sem, done_sem,
                 batch, delayVars, ideal>>

\* *out = g_res; only a `cal ref' that went well has anything left to do.
ReadResult ==
  /\ pc = "read"
  /\ out' = g_res /\ ret' = g_res.status
  /\ g_busy' = FALSE
  /\ pc' = IF g_res.status = "ok" /\ cmd.persist THEN "conf" ELSE "idle"
  /\ UNCHANGED <<cmd, unread, quiet, before, g_req, g_res, req_sem, done_sem,
                 batch, delayVars, ideal>>

SetConf ==
  /\ At("conf", "save_tx")
  /\ conf' = [conf EXCEPT !.tx = out.new_tx]
  /\ UNCHANGED <<cmd, unread, out, ret, quiet, before, handVars, batch, cfg_live,
                 tx_reg, nvs, ideal>>

AfterTx_Forgets(written) == ret

\* What a `cal ref' will report once the first key was tried.
AfterTx(written) == IF ret = "ok" /\ ~written THEN "unsaved" ELSE ret

\* uwb_store_save_ant(): both keys are tried, the first failure is reported.
SaveTx(written) ==
  /\ At("save_tx", "save_rx")
  /\ nvs' = IF written THEN [nvs EXCEPT !.tx = conf.tx] ELSE nvs
  /\ ret' = AfterTx(written)
  /\ UNCHANGED <<cmd, unread, out, quiet, before, handVars, batch, cfg_live, tx_reg,
                 conf, ideal>>

SaveRx(written) ==
  /\ At("save_rx", "idle")
  /\ nvs' = IF written THEN [nvs EXCEPT !.rx = conf.rx] ELSE nvs
  /\ ret' = IF ret = "ok" THEN IF written THEN "saved" ELSE "unsaved" ELSE ret
  /\ UNCHANGED <<cmd, unread, out, quiet, before, handVars, batch, cfg_live, tx_reg,
                 conf, ideal>>

\* `anchor ant' changes the shared configuration; the loop's copy and the
\* radio keep their delays until the next boot.
SetAnt(tx) ==
  /\ At("idle", "save_tx")
  /\ conf' = [tx |-> tx, rx |-> Seed]
  /\ ret' = "none"
  /\ UNCHANGED <<cmd, unread, out, quiet, before, handVars, batch, cfg_live, tx_reg,
                 nvs, ideal>>

-----------------------------------------------------------------------------
(***************************************************************************)
(* The loop.  ss_initiator_range() fails or gives a distance.              *)
(***************************************************************************)

\* One exchange of batch b, of reference distance ref, with the peer that
\* g_req names now.
Ranged(b, ref, outcome) ==
  LET offset == IF outcome = "wild" THEN WildOffset ELSE 0
  IN [running |-> TRUE, n |-> b.n + 1, ref |-> ref,
      samples |-> IF outcome = "lost" THEN b.samples
                  ELSE b.samples (+) SetToBag({Reading(g_req.peer) + offset}),
      peers |-> b.peers \union {g_req.peer},
      wild |-> b.wild + (IF outcome = "wild" THEN 1 ELSE 0)]

Outcome == {"good", "wild", "lost"}

\* The reference distance is copied first, the peer is read in every exchange.
StartBatch(outcome) ==
  /\ ~batch.running /\ req_sem
  /\ req_sem' = FALSE
  /\ batch' = Ranged(NoBatch, g_req.ref, outcome)
  /\ UNCHANGED <<shellVars, g_busy, g_req, g_res, done_sem, delayVars, ideal>>

Exchange(outcome) ==
  /\ batch.running /\ batch.n < NSamples
  /\ batch' = Ranged(batch, batch.ref, outcome)
  /\ UNCHANGED <<shellVars, handVars, delayVars, ideal>>

\* Too few answers, a report, or a delay solved, in range or not.
ResultOf(mean) ==
  LET valid == BagCardinality(batch.samples)
      base == [NoResult EXCEPT !.ref = batch.ref, !.peers = batch.peers,
                               !.wild = batch.wild, !.valid = valid]
      solved == SolvedTx(mean, batch.ref, cfg_live)
      tried == [base EXCEPT !.old_tx = cfg_live.tx]
  IN IF valid < NSamples \div 4 THEN [base EXCEPT !.status = "nodata"]
     ELSE IF ~g_req.persist THEN base
     ELSE IF solved \in TxMin..TxMax THEN [tried EXCEPT !.new_tx = solved]
     ELSE [tried EXCEPT !.status = "range",
                        !.new_tx = IF solved < TxMin THEN TxMin ELSE TxMax]

Applies_EvenClamped(res) == g_req.persist /\ res.new_tx # 0

Applies(res) == g_req.persist /\ res.status = "ok"

\* A solved delay is applied hot, to the loop's copy and to the radio.
Apply(res) ==
  IF Applies(res)
  THEN cfg_live' = [cfg_live EXCEPT !.tx = res.new_tx] /\ tx_reg' = res.new_tx
  ELSE UNCHANGED <<cfg_live, tx_reg>>

\* A bag without samples has no mean, and is not asked for one.
Means(b) == IF b = EmptyBag THEN {0} ELSE FilteredMeans(b)

FinishBatch_TellsSuccess ==
  /\ batch.running /\ batch.n = NSamples
  /\ \E mean \in Means(batch.samples) : g_res' = ResultOf(mean)
  /\ Apply(g_res')
  /\ batch' = NoBatch
  /\ done_sem' = (g_res'.status = "ok")
  /\ UNCHANGED <<shellVars, g_busy, g_req, req_sem, conf, nvs, ideal>>

FinishBatch ==
  /\ batch.running /\ batch.n = NSamples
  /\ \E mean \in Means(batch.samples) : g_res' = ResultOf(mean)
  /\ Apply(g_res')
  /\ batch' = NoBatch
  /\ done_sem' = TRUE
  /\ UNCHANGED <<shellVars, g_busy, g_req, req_sem, conf, nvs, ideal>>

\* main() up to cal_run(): the delays are what the flash has.
Reboot ==
  /\ cfg_live' = nvs /\ tx_reg' = nvs.tx /\ conf' = nvs
  /\ pc' = "idle" /\ unread' = {} /\ out' = NoResult /\ ret' = "none"
  /\ quiet' = TRUE /\ before' = nvs.tx
  /\ g_busy' = FALSE /\ g_res' = NoResult
  /\ req_sem' = FALSE /\ done_sem' = FALSE /\ batch' = NoBatch
  /\ UNCHANGED <<cmd, g_req, nvs, ideal>>

-----------------------------------------------------------------------------
\* A loop that is not asleep between two samples comes first.
LoopAsleep == batch.running \/ ~req_sem

Shell ==
  /\ LoopAsleep
  /\ \/ \E f \in Field : CopyField(f)
     \/ ResetDone \/ GiveRequest \/ TakeDone \/ ReadResult \/ SetConf
     \/ \E written \in BOOLEAN : SaveTx(written) \/ SaveRx(written)

Operator ==
  /\ LoopAsleep
  /\ \/ \E r \in Requests : Begin(r)
     \/ \E tx \in AntTx : SetAnt(tx)

Loop ==
  \/ \E outcome \in Outcome : StartBatch(outcome) \/ Exchange(outcome)
  \/ FinishBatch

Next == Operator \/ Shell \/ WaitTimesOut \/ Loop \/ Reboot

Spec == Init /\ [][Next]_vars

\* Both threads run; nobody has to be rescued by the end of a wait.
Fairness == WF_vars(Shell) /\ WF_vars(Loop)

FairSpec == Spec /\ Fairness

-----------------------------------------------------------------------------
(***************************************************************************)
(* Properties.                                                             *)
(***************************************************************************)

Answered == ret \in Status \union {"saved", "unsaved"}

OwnResult ==
  /\ out.ref = cmd.ref
  /\ out.peers = {cmd.peer}
  /\ out.new_tx # 0 <=> cmd.persist /\ out.status # "nodata"

\* The result a command is given is that of a batch with its peer, its
\* distance and its persist flag (the handshake of cal_run.c:35-38), provided
\* that no batch of an earlier command was asked for or running when it began.
AnswerIsOwn == Answered /\ quiet => OwnResult

\* A command is never handed the result of another one: what the comment of
\* cal_run.c:84-87 says the reset of done_sem sees to.
NeverAnothersResult == Answered => OwnResult

\* A `cal ref' over the true distance that reports success, with fewer wild
\* samples than half, leaves the radio and the loop's copy on the delay that
\* is right for the board (cal_run.c:160-175, cal_solve.c:15-43).
Calibrated ==
  /\ quiet /\ ret \in {"ok", "saved", "unsaved"} /\ cmd.persist
  /\ cmd.ref = Dist(cmd.peer) /\ 2 * out.wild < out.valid
  => cfg_live.tx = tx_reg /\ tx_reg + cfg_live.rx = ideal

\* A report, or a calibration that failed, leaves the radio as it was: an
\* -ERANGE is "NOT applied" (cal_shell.c:124-128).
FailureChangesNothing ==
  quiet /\ Answered /\ (~cmd.persist \/ ret \in {"nodata", "range"})
    => tx_reg = before /\ cfg_live.tx = before

\* "applied and saved": what the next boot starts from is what the radio runs
\* on now, and the delay the result told (cal_shell.c:135-157).
SavedIsInForce ==
  quiet /\ ret = "saved" => nvs = cfg_live /\ nvs.tx = out.new_tx /\ tx_reg = nvs.tx

\* The console always comes back free for another command (cal_run.c:65-99):
\* no request is lost between the two semaphores, and no way out leaves g_busy
\* set.
ConsoleComesBack == []<>(pc = "idle" /\ ~g_busy)
=============================================================================

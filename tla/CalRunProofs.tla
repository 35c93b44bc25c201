---------------------------- MODULE CalRunProofs ----------------------------
(***************************************************************************)
(* The calibration image, for any batch size, board and list of requests.  *)
(* First the handshake: nothing that was measured matters to it, so the    *)
(* arithmetic stays closed.  Then the arithmetic: what the filter makes of *)
(* a batch of which less than half is wild, that the two roundings cancel, *)
(* and so that a calibration sets the delay that is right for the board.   *)
(***************************************************************************)
EXTENDS CalRun, TLAPS

\* What a batch of the present command gives, whatever it measured.
Own(r) ==
  /\ r.ref = cmd.ref
  /\ r.peers = {cmd.peer}
  /\ r.new_tx # 0 <=> cmd.persist /\ r.status # "nodata"

\* What became of the delays when its result was r.
InForce(r) ==
  tx_reg = IF cmd.persist /\ r.status = "ok" THEN r.new_tx ELSE before

\* The request, from the console to the loop.
Copied ==
  /\ pc \in {"reset", "give", "wait"} => g_req = cmd
  /\ pc = "copy" => \A f \in Field \ unread : g_req[f] = cmd[f]

\* The three places a request is in while its command waits.
Asked == req_sem /\ ~batch.running /\ ~done_sem /\ tx_reg = before
Runs ==
  /\ ~req_sem /\ batch.running /\ ~done_sem /\ tx_reg = before
  /\ batch.ref = cmd.ref /\ batch.peers = {cmd.peer}
Done == ~req_sem /\ ~batch.running /\ Own(g_res) /\ InForce(g_res)

Handshake ==
  quiet =>
    /\ pc \in {"copy", "reset", "give"} => ~req_sem /\ ~batch.running /\ tx_reg = before
    /\ pc = "give" => ~done_sem
    /\ pc = "wait" => Asked \/ Runs \/ (Done /\ done_sem)
    /\ pc = "read" => Done
    /\ Answered => Done /\ out = g_res

\* Where a command is once it was answered.
Afterwards ==
  /\ pc \in {"copy", "reset", "give", "wait", "read"} => ret = "none"
  /\ pc = "conf" => ret = "ok"
  /\ pc \in {"save_tx", "save_rx"} => ret \in {"none", "ok", "unsaved"}
  /\ pc = "save_tx" => ret # "unsaved"
  /\ ret \in {"saved", "unsaved"} => cmd.persist /\ out.status = "ok"
  /\ ret \in Status => out.status = ret
  /\ pc # "idle" /\ ret = "ok" => cmd.persist

\* The delays kept in three places.
Kept ==
  /\ cfg_live.tx = tx_reg
  /\ cfg_live.rx = Seed /\ conf.rx = Seed /\ nvs.rx = Seed
  /\ pc = "save_tx" /\ ret = "ok" => conf.tx = out.new_tx
  /\ pc = "save_rx" /\ ret = "ok" => conf.tx = out.new_tx /\ nvs.tx = conf.tx
  /\ ret = "saved" => nvs.tx = out.new_tx

IInv == TypeOK /\ Copied /\ Handshake /\ Afterwards /\ Kept

USE CalAssumption

-----------------------------------------------------------------------------

\* A result is well formed whatever the mean was.
LEMMA ResultType ==
  ASSUME TypeOK, NEW mean
  PROVE  /\ ResultOf(mean).status \in Status
         /\ ResultOf(mean).ref = batch.ref
         /\ ResultOf(mean).old_tx \in Nat
         /\ ResultOf(mean).new_tx \in Nat
         /\ ResultOf(mean).peers = batch.peers
         /\ ResultOf(mean).new_tx # 0 <=> g_req.persist /\ ResultOf(mean).status # "nodata"
<1> DEFINE solved == SolvedTx(mean, batch.ref, cfg_live)
           valid == BagCardinality(batch.samples)
<1> HIDE DEF solved, valid
<1>1. CASE valid < NSamples \div 4
  BY <1>1 DEF ResultOf, valid, NoResult, TypeOK, ShellTypeOK, LoopTypeOK, Status
<1>2. CASE ~(valid < NSamples \div 4) /\ ~g_req.persist
  BY <1>2 DEF ResultOf, valid, NoResult, TypeOK, ShellTypeOK, LoopTypeOK, Status
<1>3. CASE ~(valid < NSamples \div 4) /\ g_req.persist /\ solved \in TxMin..TxMax
  <2>1. ResultOf(mean) =
          [[NoResult EXCEPT !.ref = batch.ref, !.peers = batch.peers, !.wild = batch.wild,
                            !.valid = valid] EXCEPT !.old_tx = cfg_live.tx, !.new_tx = solved]
    BY <1>3 DEF ResultOf, valid, solved, NoResult
  <2>2. cfg_live.tx \in Nat
    BY DEF TypeOK, DelayTypeOK, Delays
  <2>3. solved \in Nat /\ solved # 0
    BY <1>3
  <2> QED
    BY <1>3, <2>1, <2>2, <2>3 DEF NoResult, TypeOK, ShellTypeOK, LoopTypeOK, Status
<1>4. CASE ~(valid < NSamples \div 4) /\ g_req.persist /\ solved \notin TxMin..TxMax
  <2>1. PICK t \in {TxMin, TxMax} : ResultOf(mean) =
          [[NoResult EXCEPT !.ref = batch.ref, !.peers = batch.peers, !.wild = batch.wild,
                            !.valid = valid] EXCEPT !.old_tx = cfg_live.tx,
                            !.status = "range", !.new_tx = t]
    <3>1. CASE solved < TxMin
      BY <1>4, <3>1 DEF ResultOf, valid, solved, NoResult
    <3>2. CASE ~(solved < TxMin)
      BY <1>4, <3>2 DEF ResultOf, valid, solved, NoResult
    <3> QED BY <3>1, <3>2
  <2>2. cfg_live.tx \in Nat
    BY DEF TypeOK, DelayTypeOK, Delays
  <2> QED
    BY <1>4, <2>1, <2>2 DEF NoResult, TypeOK, ShellTypeOK, LoopTypeOK, Status
<1> QED BY <1>1, <1>2, <1>3, <1>4

LEMMA RestingBatch ==
  /\ NoBatch.running = FALSE /\ NoBatch.n = 0 /\ NoBatch.ref = 0 /\ NoBatch.peers = {}
  /\ 0 \in 0..NSamples
<1>1. 0 \in 0..NSamples
  OBVIOUS
<1> QED BY <1>1 DEF NoBatch

THEOREM InitHolds == Init => IInv
<1> SUFFICES ASSUME Init PROVE IInv
  OBVIOUS
<1>1. ShellTypeOK
  BY DEF Init, ShellTypeOK
<1>2. LoopTypeOK
  <2>1. batch.running \in BOOLEAN /\ req_sem \in BOOLEAN /\ done_sem \in BOOLEAN
    BY RestingBatch DEF Init
  <2>2. batch.n \in 0..NSamples /\ batch.ref \in Int /\ batch.peers \subseteq Peers
    BY RestingBatch DEF Init
  <2> QED BY <2>1, <2>2 DEF LoopTypeOK
<1>3. DelayTypeOK
  BY DEF Init, DelayTypeOK, Delays
<1>4. ResultOK(out) /\ ResultOK(g_res)
  BY DEF Init, NoResult, Status, ResultOK
<1>5. Copied /\ Handshake /\ Afterwards /\ Kept
  BY DEF Init, Copied, Handshake, Afterwards, Kept, Answered, NoResult, NoBatch, Status
<1> QED BY <1>1, <1>2, <1>3, <1>4, <1>5 DEF IInv, TypeOK

-----------------------------------------------------------------------------
(***************************************************************************)
(* The shell's steps.                                                      *)
(***************************************************************************)

LEMMA BeginKeeps ==
  ASSUME IInv, NEW r \in Requests, Begin(r)
  PROVE  IInv'
<1> USE DEF IInv, TypeOK, Begin, At, shellVars, handVars, delayVars
<1>1. ShellTypeOK'
  BY DEF ShellTypeOK, Status, Field
<1>2. LoopTypeOK' /\ ResultOK(out)' /\ ResultOK(g_res)'
  BY DEF LoopTypeOK, ResultOK, Status
<1>3. DelayTypeOK'
  BY DEF DelayTypeOK, Delays, ResultOK
<1>4. Copied'
  BY DEF Copied, ShellTypeOK, Field
<1>5. Handshake'
  BY DEF Handshake, ShellTypeOK, LoopTypeOK, Copied, Asked, Runs, Done, Own, InForce, Answered,
         Afterwards, Status
<1>6. Afterwards'
  BY DEF Afterwards, ShellTypeOK, ResultOK, Handshake, Status, Answered, Done
<1>7. Kept'
  BY DEF Kept, ShellTypeOK, DelayTypeOK, Afterwards, Delays, Status
<1> QED BY <1>1, <1>2, <1>3, <1>4, <1>5, <1>6, <1>7

LEMMA CopyFieldKeeps ==
  ASSUME IInv, NEW f \in Field, CopyField(f)
  PROVE  IInv'
<1> USE DEF IInv, TypeOK, CopyField, At, shellVars, handVars, delayVars
<1>1. ShellTypeOK'
  BY DEF ShellTypeOK, Status, Field
<1>2. LoopTypeOK' /\ ResultOK(out)' /\ ResultOK(g_res)'
  BY DEF LoopTypeOK, ResultOK, Status
<1>3. DelayTypeOK'
  BY DEF DelayTypeOK, Delays, ResultOK
<1>4. Copied'
  BY DEF Copied, ShellTypeOK, Field
<1>5. Handshake'
  BY DEF Handshake, ShellTypeOK, LoopTypeOK, Copied, Asked, Runs, Done, Own, InForce, Answered,
         Afterwards, Status
<1>6. Afterwards'
  BY DEF Afterwards, ShellTypeOK, ResultOK, Handshake, Status, Answered, Done
<1>7. Kept'
  BY DEF Kept, ShellTypeOK, DelayTypeOK, Afterwards, Delays, Status
<1> QED BY <1>1, <1>2, <1>3, <1>4, <1>5, <1>6, <1>7

LEMMA ResetDoneKeeps ==
  ASSUME IInv, ResetDone
  PROVE  IInv'
<1> USE DEF IInv, TypeOK, ResetDone, At, shellVars, handVars, delayVars, Cleared
<1>1. ShellTypeOK'
  BY DEF ShellTypeOK, Status, Field
<1>2. LoopTypeOK' /\ ResultOK(out)' /\ ResultOK(g_res)'
  BY DEF LoopTypeOK, ResultOK, Status
<1>3. DelayTypeOK'
  BY DEF DelayTypeOK, Delays, ResultOK
<1>4. Copied'
  BY DEF Copied, ShellTypeOK, Field
<1>5. Handshake'
  BY DEF Handshake, ShellTypeOK, LoopTypeOK, Copied, Asked, Runs, Done, Own, InForce, Answered,
         Afterwards, Status
<1>6. Afterwards'
  BY DEF Afterwards, ShellTypeOK, ResultOK, Handshake, Status, Answered, Done
<1>7. Kept'
  BY DEF Kept, ShellTypeOK, DelayTypeOK, Afterwards, Delays, Status
<1> QED BY <1>1, <1>2, <1>3, <1>4, <1>5, <1>6, <1>7

LEMMA GiveRequestKeeps ==
  ASSUME IInv, GiveRequest
  PROVE  IInv'
<1> USE DEF IInv, TypeOK, GiveRequest, At, shellVars, handVars, delayVars
<1>1. ShellTypeOK'
  BY DEF ShellTypeOK, Status, Field
<1>2. LoopTypeOK' /\ ResultOK(out)' /\ ResultOK(g_res)'
  BY DEF LoopTypeOK, ResultOK, Status
<1>3. DelayTypeOK'
  BY DEF DelayTypeOK, Delays, ResultOK
<1>4. Copied'
  BY DEF Copied, ShellTypeOK, Field
<1>5. Handshake'
  BY DEF Handshake, ShellTypeOK, LoopTypeOK, Copied, Asked, Runs, Done, Own, InForce, Answered,
         Afterwards, Status
<1>6. Afterwards'
  BY DEF Afterwards, ShellTypeOK, ResultOK, Handshake, Status, Answered, Done
<1>7. Kept'
  BY DEF Kept, ShellTypeOK, DelayTypeOK, Afterwards, Delays, Status
<1> QED BY <1>1, <1>2, <1>3, <1>4, <1>5, <1>6, <1>7

LEMMA TakeDoneKeeps ==
  ASSUME IInv, TakeDone
  PROVE  IInv'
<1> USE DEF IInv, TypeOK, TakeDone, At, shellVars, handVars, delayVars
<1>1. ShellTypeOK'
  BY DEF ShellTypeOK, Status, Field
<1>2. LoopTypeOK' /\ ResultOK(out)' /\ ResultOK(g_res)'
  BY DEF LoopTypeOK, ResultOK, Status
<1>3. DelayTypeOK'
  BY DEF DelayTypeOK, Delays, ResultOK
<1>4. Copied'
  BY DEF Copied, ShellTypeOK, Field
<1>5. Handshake'
  BY DEF Handshake, ShellTypeOK, LoopTypeOK, Copied, Asked, Runs, Done, Own, InForce, Answered,
         Afterwards, Status
<1>6. Afterwards'
  BY DEF Afterwards, ShellTypeOK, ResultOK, Handshake, Status, Answered, Done
<1>7. Kept'
  BY DEF Kept, ShellTypeOK, DelayTypeOK, Afterwards, Delays, Status
<1> QED BY <1>1, <1>2, <1>3, <1>4, <1>5, <1>6, <1>7

LEMMA WaitTimesOutKeeps ==
  ASSUME IInv, WaitTimesOut
  PROVE  IInv'
<1> USE DEF IInv, TypeOK, WaitTimesOut, At, shellVars, handVars, delayVars
<1>1. ShellTypeOK'
  BY DEF ShellTypeOK, Status, Field
<1>2. LoopTypeOK' /\ ResultOK(out)' /\ ResultOK(g_res)'
  BY DEF LoopTypeOK, ResultOK, Status
<1>3. DelayTypeOK'
  BY DEF DelayTypeOK, Delays, ResultOK
<1>4. Copied'
  BY DEF Copied, ShellTypeOK, Field
<1>5. Handshake'
  BY DEF Handshake, ShellTypeOK, LoopTypeOK, Copied, Asked, Runs, Done, Own, InForce, Answered,
         Afterwards, Status
<1>6. Afterwards'
  BY DEF Afterwards, ShellTypeOK, ResultOK, Handshake, Status, Answered, Done
<1>7. Kept'
  BY DEF Kept, ShellTypeOK, DelayTypeOK, Afterwards, Delays, Status
<1> QED BY <1>1, <1>2, <1>3, <1>4, <1>5, <1>6, <1>7

LEMMA ReadResultKeeps ==
  ASSUME IInv, ReadResult
  PROVE  IInv'
<1> USE DEF IInv, TypeOK, ReadResult, At, shellVars, handVars, delayVars
<1>1. ShellTypeOK'
  <2>1. ret' \in Status \union {"none", "timeout", "saved", "unsaved"}
    BY DEF ResultOK
  <2>2. pc' = "conf" \/ pc' = "idle"
    OBVIOUS
  <2> QED BY <2>1, <2>2 DEF ShellTypeOK
<1>2. LoopTypeOK' /\ ResultOK(out)' /\ ResultOK(g_res)'
  BY DEF LoopTypeOK, ResultOK, Status
<1>3. DelayTypeOK'
  BY DEF DelayTypeOK, Delays, ResultOK
<1>4. Copied'
  BY DEF Copied, ShellTypeOK, Field
<1>5. Handshake'
  BY DEF Handshake, ShellTypeOK, LoopTypeOK, Copied, Asked, Runs, Done, Own, InForce, Answered,
         Afterwards, Status
<1>6. Afterwards'
  BY DEF Afterwards, ShellTypeOK, ResultOK, Handshake, Status, Answered, Done
<1>7. Kept'
  <2>1. ret' \in Status /\ (pc' = "conf" \/ pc' = "idle")
    BY DEF ResultOK
  <2> QED BY <2>1 DEF Kept, Status
<1> QED BY <1>1, <1>2, <1>3, <1>4, <1>5, <1>6, <1>7

LEMMA SetConfKeeps ==
  ASSUME IInv, SetConf
  PROVE  IInv'
<1> USE DEF IInv, TypeOK, SetConf, At, shellVars, handVars, delayVars
<1>1. ShellTypeOK'
  BY DEF ShellTypeOK, Status, Field
<1>2. LoopTypeOK' /\ ResultOK(out)' /\ ResultOK(g_res)'
  BY DEF LoopTypeOK, ResultOK, Status
<1>3. DelayTypeOK'
  BY DEF DelayTypeOK, Delays, ResultOK
<1>4. Copied'
  BY DEF Copied, ShellTypeOK, Field
<1>5. Handshake'
  BY DEF Handshake, ShellTypeOK, LoopTypeOK, Copied, Asked, Runs, Done, Own, InForce, Answered,
         Afterwards, Status
<1>6. Afterwards'
  BY DEF Afterwards, ShellTypeOK, ResultOK, Handshake, Status, Answered, Done
<1>7. Kept'
  BY DEF Kept, ShellTypeOK, DelayTypeOK, Afterwards, Delays, Status
<1> QED BY <1>1, <1>2, <1>3, <1>4, <1>5, <1>6, <1>7

LEMMA SaveTxKeeps ==
  ASSUME IInv, NEW written \in BOOLEAN, SaveTx(written)
  PROVE  IInv'
<1> USE DEF IInv, TypeOK, SaveTx, At, shellVars, handVars, delayVars, AfterTx
<1>1. ShellTypeOK'
  <2>1. ret' = ret \/ ret' = "saved" \/ ret' = "unsaved"
    OBVIOUS
  <2>2. ret' \in Status \union {"none", "timeout", "saved", "unsaved"}
    BY <2>1 DEF ShellTypeOK
  <2> QED BY <2>2 DEF ShellTypeOK
<1>2. LoopTypeOK' /\ ResultOK(out)' /\ ResultOK(g_res)'
  BY DEF LoopTypeOK, ResultOK, Status
<1>3. DelayTypeOK'
  BY DEF DelayTypeOK, Delays, ResultOK
<1>4. Copied'
  BY DEF Copied, ShellTypeOK, Field
<1>5. Handshake'
  BY DEF Handshake, ShellTypeOK, LoopTypeOK, Copied, Asked, Runs, Done, Own, InForce, Answered,
         Afterwards, Status
<1>6. Afterwards'
  BY DEF Afterwards, ShellTypeOK, ResultOK, Handshake, Status, Answered, Done
<1>7. Kept'
  BY DEF Kept, ShellTypeOK, DelayTypeOK, Afterwards, Delays, Status
<1> QED BY <1>1, <1>2, <1>3, <1>4, <1>5, <1>6, <1>7

LEMMA SaveRxKeeps ==
  ASSUME IInv, NEW written \in BOOLEAN, SaveRx(written)
  PROVE  IInv'
<1> USE DEF IInv, TypeOK, SaveRx, At, shellVars, handVars, delayVars
<1>1. ShellTypeOK'
  <2>1. ret' = ret \/ ret' = "saved" \/ ret' = "unsaved"
    OBVIOUS
  <2>2. ret' \in Status \union {"none", "timeout", "saved", "unsaved"}
    BY <2>1 DEF ShellTypeOK
  <2> QED BY <2>2 DEF ShellTypeOK
<1>2. LoopTypeOK' /\ ResultOK(out)' /\ ResultOK(g_res)'
  BY DEF LoopTypeOK, ResultOK, Status
<1>3. DelayTypeOK'
  BY DEF DelayTypeOK, Delays, ResultOK
<1>4. Copied'
  BY DEF Copied, ShellTypeOK, Field
<1>5. Handshake'
  BY DEF Handshake, ShellTypeOK, LoopTypeOK, Copied, Asked, Runs, Done, Own, InForce, Answered,
         Afterwards, Status
<1>6. Afterwards'
  BY DEF Afterwards, ShellTypeOK, ResultOK, Handshake, Status, Answered, Done
<1>7. Kept'
  BY DEF Kept, ShellTypeOK, DelayTypeOK, Afterwards, Delays, Status
<1> QED BY <1>1, <1>2, <1>3, <1>4, <1>5, <1>6, <1>7

LEMMA SetAntKeeps ==
  ASSUME IInv, NEW tx \in AntTx, SetAnt(tx)
  PROVE  IInv'
<1> USE DEF IInv, TypeOK, SetAnt, At, shellVars, handVars, delayVars
<1>1. ShellTypeOK'
  BY DEF ShellTypeOK, Status, Field
<1>2. LoopTypeOK' /\ ResultOK(out)' /\ ResultOK(g_res)'
  BY DEF LoopTypeOK, ResultOK, Status
<1>3. DelayTypeOK'
  BY DEF DelayTypeOK, Delays, ResultOK
<1>4. Copied'
  BY DEF Copied, ShellTypeOK, Field
<1>5. Handshake'
  BY DEF Handshake, ShellTypeOK, LoopTypeOK, Copied, Asked, Runs, Done, Own, InForce, Answered,
         Afterwards, Status
<1>6. Afterwards'
  BY DEF Afterwards, ShellTypeOK, ResultOK, Handshake, Status, Answered, Done
<1>7. Kept'
  BY DEF Kept, ShellTypeOK, DelayTypeOK, Afterwards, Delays, Status
<1> QED BY <1>1, <1>2, <1>3, <1>4, <1>5, <1>6, <1>7

-----------------------------------------------------------------------------
(***************************************************************************)
(* The loop's steps, and a restart.                                        *)
(***************************************************************************)

LEMMA StartBatchKeeps ==
  ASSUME IInv, NEW outcome \in Outcome, StartBatch(outcome)
  PROVE  IInv'
<1> USE DEF IInv, TypeOK
<1>1. /\ batch'.running = TRUE /\ batch'.n = 1
      /\ batch'.ref = g_req.ref /\ batch'.peers = {g_req.peer}
  BY DEF StartBatch, Ranged, NoBatch
<1>2. /\ g_req.ref \in Int /\ g_req.peer \in Peers
      /\ UNCHANGED <<shellVars, g_busy, g_req, g_res, done_sem, delayVars, ideal>>
      /\ ~batch.running /\ req_sem /\ req_sem' = FALSE
  BY DEF StartBatch, ShellTypeOK
<1>3. batch'.n \in 0..NSamples
  BY <1>1
<1>4. LoopTypeOK'
  BY <1>1, <1>2, <1>3 DEF LoopTypeOK
<1>5. ShellTypeOK' /\ DelayTypeOK' /\ ResultOK(out)' /\ ResultOK(g_res)'
  BY <1>2 DEF ShellTypeOK, DelayTypeOK, ResultOK, shellVars, delayVars
<1>6. Handshake'
  BY <1>1, <1>2 DEF Handshake, Copied, ShellTypeOK, Asked, Runs, Done, Own, InForce, Answered,
                    Afterwards, shellVars, delayVars
<1>7. Copied' /\ Afterwards' /\ Kept'
  BY <1>2 DEF Copied, Afterwards, Kept, shellVars, delayVars
<1> QED BY <1>4, <1>5, <1>6, <1>7

LEMMA ExchangeKeeps ==
  ASSUME IInv, NEW outcome \in Outcome, Exchange(outcome)
  PROVE  IInv'
<1> USE DEF IInv, TypeOK
<1>1. /\ batch'.running = TRUE /\ batch'.n = batch.n + 1
      /\ batch'.ref = batch.ref /\ batch'.peers = batch.peers \union {g_req.peer}
  BY DEF Exchange, Ranged
<1>2. /\ g_req.peer \in Peers
      /\ UNCHANGED <<shellVars, handVars, delayVars, ideal>>
      /\ batch.running /\ batch.n < NSamples
  BY DEF Exchange, ShellTypeOK
<1>3. batch'.n \in 0..NSamples /\ batch'.peers \subseteq Peers
  BY <1>1, <1>2 DEF LoopTypeOK
<1>4. LoopTypeOK'
  BY <1>1, <1>2, <1>3 DEF LoopTypeOK, handVars
<1>5. ShellTypeOK' /\ DelayTypeOK' /\ ResultOK(out)' /\ ResultOK(g_res)'
  BY <1>2 DEF ShellTypeOK, DelayTypeOK, ResultOK, shellVars, handVars, delayVars
<1>6. Copied' /\ Afterwards' /\ Kept'
  BY <1>2 DEF Copied, Afterwards, Kept, shellVars, handVars, delayVars
<1>7. Handshake'
  BY <1>1, <1>2 DEF Handshake, Copied, Asked, Runs, Done, Own, InForce, Answered,
                    shellVars, handVars, delayVars
<1> QED BY <1>4, <1>5, <1>6, <1>7

LEMMA FinishBatchKeeps ==
  ASSUME IInv, FinishBatch
  PROVE  IInv'
<1> USE DEF IInv, TypeOK
<1>1. PICK mean \in Means(batch.samples) : g_res' = ResultOf(mean)
  BY DEF FinishBatch
<1>2. /\ g_res'.status \in Status /\ g_res'.ref = batch.ref
      /\ g_res'.old_tx \in Nat /\ g_res'.new_tx \in Nat
      /\ g_res'.peers = batch.peers
      /\ g_res'.new_tx # 0 <=> g_req.persist /\ g_res'.status # "nodata"
  BY <1>1, ResultType
<1>3. /\ UNCHANGED <<shellVars, g_busy, g_req, req_sem, conf, nvs, ideal>>
      /\ batch' = NoBatch /\ done_sem' = TRUE /\ batch.running
  BY DEF FinishBatch
<1>4. /\ tx_reg' = IF g_req.persist /\ g_res'.status = "ok" THEN g_res'.new_tx ELSE tx_reg
      /\ cfg_live'.tx = IF g_req.persist /\ g_res'.status = "ok"
                        THEN g_res'.new_tx ELSE cfg_live.tx
      /\ cfg_live' \in Delays /\ tx_reg' \in Nat /\ cfg_live'.rx = cfg_live.rx
  BY <1>2 DEF FinishBatch, Apply, Applies, DelayTypeOK, Delays
<1>5. batch'.running = FALSE /\ batch'.n = 0 /\ batch'.ref = 0 /\ batch'.peers = {}
  BY <1>3 DEF NoBatch
<1>6. ResultOK(g_res)' /\ ResultOK(out)'
  BY <1>2, <1>3 DEF ResultOK, LoopTypeOK, shellVars
<1>7. LoopTypeOK'
  <2>1. batch'.running \in BOOLEAN /\ req_sem' \in BOOLEAN /\ done_sem' \in BOOLEAN
    BY <1>3, RestingBatch DEF LoopTypeOK
  <2>2. batch'.n \in 0..NSamples /\ batch'.ref \in Int /\ batch'.peers \subseteq Peers
    BY <1>3, RestingBatch
  <2> QED BY <2>1, <2>2 DEF LoopTypeOK
<1>8. ShellTypeOK' /\ DelayTypeOK'
  BY <1>3, <1>4 DEF ShellTypeOK, DelayTypeOK, shellVars
<1>9. Copied' /\ Afterwards' /\ Kept'
  BY <1>3, <1>4 DEF Copied, Afterwards, Kept, shellVars
<1>10. Handshake'
  <2>1. ASSUME quiet PROVE pc \notin {"copy", "reset", "give", "read"} /\ ~Answered
    BY <2>1, <1>3 DEF Handshake, Done
  <2>2. ASSUME quiet, pc = "wait" PROVE Runs
    BY <2>2, <1>3 DEF Handshake, Asked, Done
  <2>3. ASSUME quiet, pc = "wait" PROVE Done'
    BY <2>2, <2>3, <1>2, <1>3, <1>4, <1>5
       DEF Runs, Done, Own, InForce, Copied, shellVars
  <2> QED
    BY <2>1, <2>3, <1>3 DEF Handshake, Answered, shellVars
<1> QED BY <1>6, <1>7, <1>8, <1>9, <1>10

LEMMA RebootKeeps ==
  ASSUME IInv, Reboot
  PROVE  IInv'
<1> USE DEF IInv, TypeOK
<1>1. LoopTypeOK'
  <2>1. batch'.running \in BOOLEAN /\ req_sem' \in BOOLEAN /\ done_sem' \in BOOLEAN
    BY RestingBatch DEF Reboot
  <2>2. batch'.n \in 0..NSamples /\ batch'.ref \in Int /\ batch'.peers \subseteq Peers
    BY RestingBatch DEF Reboot
  <2> QED BY <2>1, <2>2 DEF LoopTypeOK
<1>2. ResultOK(out)' /\ ResultOK(g_res)'
  BY DEF Reboot, NoResult, Status, ResultOK
<1>3. ShellTypeOK'
  BY DEF Reboot, ShellTypeOK
<1>4. DelayTypeOK'
  BY DEF Reboot, DelayTypeOK, Delays
<1>5. Copied' /\ Handshake' /\ Afterwards'
  BY DEF Reboot, Copied, Handshake, Afterwards, Answered, Status
<1>6. Kept'
  BY DEF Reboot, Kept, DelayTypeOK, Delays
<1> QED BY <1>1, <1>2, <1>3, <1>4, <1>5, <1>6

-----------------------------------------------------------------------------
\* Whoever moves, the hand-over stands.
LEMMA NextKeeps == IInv /\ [Next]_vars => IInv'
<1> SUFFICES ASSUME IInv, [Next]_vars PROVE IInv'
  OBVIOUS
<1>1. CASE Operator
  BY <1>1, BeginKeeps, SetAntKeeps DEF Operator
<1>2. CASE Shell
  BY <1>2, CopyFieldKeeps, ResetDoneKeeps, GiveRequestKeeps, TakeDoneKeeps,
     ReadResultKeeps, SetConfKeeps, SaveTxKeeps, SaveRxKeeps DEF Shell
<1>3. CASE WaitTimesOut
  BY <1>3, WaitTimesOutKeeps
<1>4. CASE Loop
  BY <1>4, StartBatchKeeps, ExchangeKeeps, FinishBatchKeeps DEF Loop
<1>5. CASE Reboot
  BY <1>5, RebootKeeps
<1>6. CASE UNCHANGED vars
  BY <1>6 DEF IInv, TypeOK, ShellTypeOK, LoopTypeOK, DelayTypeOK, ResultOK, Copied,
              Handshake, Afterwards, Kept, Asked, Runs, Done, Own, InForce, Answered, vars, shellVars, handVars, delayVars
<1> QED BY <1>1, <1>2, <1>3, <1>4, <1>5, <1>6 DEF Next

THEOREM Invariance == Spec => []IInv
<1> QED BY InitHolds, NextKeeps, PTL DEF Spec

\* Types, and no console left busy.
THEOREM TypeCorrect == Spec => []TypeOK
<1>1. IInv => TypeOK
  BY DEF IInv
<1> QED BY <1>1, Invariance, PTL

\* The handshake of cal_run.c:35-38: a command that found the loop at rest is
\* answered with its own result.
THEOREM AnswersAreOwn == Spec => []AnswerIsOwn
<1>1. IInv => AnswerIsOwn
  BY DEF IInv, Handshake, Done, Own, AnswerIsOwn, OwnResult
<1> QED BY <1>1, Invariance, PTL

\* A report or a failed calibration leaves the radio alone.
THEOREM FailuresChangeNothing == Spec => []FailureChangesNothing
<1>1. IInv => FailureChangesNothing
  BY DEF IInv, Handshake, Done, InForce, Afterwards, Kept, FailureChangesNothing, Answered,
         Status
<1> QED BY <1>1, Invariance, PTL

\* "applied and saved" is true of the radio and of the flash.
THEOREM SavedDelaysAreInForce == Spec => []SavedIsInForce
<1>1. IInv => SavedIsInForce
  <2> SUFFICES ASSUME IInv, quiet, ret = "saved"
               PROVE nvs = cfg_live /\ nvs.tx = out.new_tx /\ tx_reg = nvs.tx
    BY DEF SavedIsInForce
  <2>1. Done /\ out = g_res /\ cmd.persist /\ out.status = "ok"
    BY DEF IInv, Handshake, Afterwards, Answered
  <2>2. tx_reg = out.new_tx /\ nvs.tx = out.new_tx /\ cfg_live.tx = tx_reg
    BY <2>1 DEF IInv, Kept, Done, InForce
  <2>3. nvs = cfg_live
    BY <2>2 DEF IInv, TypeOK, DelayTypeOK, Delays, Kept
  <2> QED BY <2>2, <2>3
<1> QED BY <1>1, Invariance, PTL

-----------------------------------------------------------------------------
(***************************************************************************)
(* How much a bag holds.                                                   *)
(***************************************************************************)

HIDE CalAssumption

\* The total of a bag is what its elements add up to, however it is taken apart.
LEMMA CardinalityUnfolds ==
  ASSUME NEW b
  PROVE  BagCardinality(b) =
           (CHOOSE f : f = [S \in SUBSET DOMAIN b |->
              IF S = {} THEN 0
              ELSE b[CHOOSE e \in S : TRUE] + f[S \ {CHOOSE e \in S : TRUE}]])[DOMAIN b]
BY DEF BagCardinality

\* Of no element, of one, of two.
LEMMA CardinalityOfNone ==
  ASSUME NEW b, DOMAIN b = {}
  PROVE  BagCardinality(b) = 0
<1> DEFINE IsSum(f) ==
      f = [S \in SUBSET DOMAIN b |->
             IF S = {} THEN 0
             ELSE b[CHOOSE e \in S : TRUE] + f[S \ {CHOOSE e \in S : TRUE}]]
<1>1. BagCardinality(b) = (CHOOSE f : IsSum(f))[DOMAIN b]
  BY CardinalityUnfolds
<1>2. IsSum([S \in SUBSET DOMAIN b |-> 0])
  OBVIOUS
<1>3. PICK f : f = (CHOOSE h : IsSum(h))
  OBVIOUS
<1>4. IsSum(f)
  BY <1>2, <1>3
<1>5. f[{}] = 0
  BY <1>4
<1> QED
  BY <1>1, <1>3, <1>5

LEMMA CardinalityOfOne ==
  ASSUME NEW b, NEW x, DOMAIN b = {x}, b[x] \in Int
  PROVE  BagCardinality(b) = b[x]
<1> DEFINE IsSum(f) ==
      f = [S \in SUBSET DOMAIN b |->
             IF S = {} THEN 0
             ELSE b[CHOOSE e \in S : TRUE] + f[S \ {CHOOSE e \in S : TRUE}]]
           one == [S \in SUBSET DOMAIN b |-> IF S = {} THEN 0 ELSE b[x]]
<1>1. BagCardinality(b) = (CHOOSE f : IsSum(f))[DOMAIN b]
  BY CardinalityUnfolds
<1>2. (CHOOSE e \in {x} : TRUE) = x
  OBVIOUS
<1>3. IsSum(one)
  <2>1. SUFFICES ASSUME NEW S \in SUBSET DOMAIN b
                 PROVE  one[S] = IF S = {} THEN 0
                          ELSE b[CHOOSE e \in S : TRUE] + one[S \ {CHOOSE e \in S : TRUE}]
    OBVIOUS
  <2>2. CASE S = {}
    BY <2>2
  <2>3. CASE S = {x}
    <3>1. S \ {CHOOSE e \in S : TRUE} = {}
      BY <1>2, <2>3
    <3>2. one[{}] = 0 /\ one[S] = b[x]
      BY <2>3
    <3> QED
      BY <1>2, <2>3, <3>1, <3>2
  <2> QED
    BY <2>2, <2>3
<1>4. PICK f : f = (CHOOSE h : IsSum(h))
  OBVIOUS
<1>5. IsSum(f)
  BY <1>3, <1>4
<1>6. f[{}] = 0 /\ f[{x}] = b[x] + f[{x} \ {x}]
  BY <1>2, <1>5
<1>7. {x} \ {x} = {}
  OBVIOUS
<1> HIDE DEF IsSum, one
<1>8. f[{x}] = b[x] + 0
  BY <1>6, <1>7
<1> QED
  BY <1>1, <1>4, <1>8

LEMMA CardinalityOfTwo ==
  ASSUME NEW b, NEW x, NEW y, x # y, DOMAIN b = {x, y}, b[x] \in Int, b[y] \in Int
  PROVE  BagCardinality(b) = b[x] + b[y]
<1> DEFINE IsSum(f) ==
      f = [S \in SUBSET DOMAIN b |->
             IF S = {} THEN 0
             ELSE b[CHOOSE e \in S : TRUE] + f[S \ {CHOOSE e \in S : TRUE}]]
           two == [S \in SUBSET DOMAIN b |->
                     (IF x \in S THEN b[x] ELSE 0) + (IF y \in S THEN b[y] ELSE 0)]
<1>1. BagCardinality(b) = (CHOOSE f : IsSum(f))[DOMAIN b]
  BY CardinalityUnfolds
<1>2. two[{}] = 0 /\ two[{x}] = b[x] /\ two[{y}] = b[y] /\ two[{x, y}] = b[x] + b[y]
  OBVIOUS
<1>3. IsSum(two)
  <2>1. SUFFICES ASSUME NEW S \in SUBSET DOMAIN b
                 PROVE  two[S] = IF S = {} THEN 0
                          ELSE b[CHOOSE e \in S : TRUE] + two[S \ {CHOOSE e \in S : TRUE}]
    OBVIOUS
  <2> HIDE DEF two, IsSum
  <2>2. CASE S = {}
    BY <1>2, <2>2
  <2>3. CASE S # {}
    <3>1. PICK e : e = (CHOOSE v \in S : TRUE)
      OBVIOUS
    <3>2. e \in S
      BY <2>3, <3>1
    <3>3. two[S] = b[e] + two[S \ {e}]
      <4>1. CASE S = {x}
        <5>1. e = x /\ S \ {e} = {}
          BY <3>2, <4>1
        <5>2. two[S] = b[x] /\ two[S \ {e}] = 0
          BY <1>2, <4>1, <5>1
        <5> QED BY <5>1, <5>2
      <4>2. CASE S = {y}
        <5>1. e = y /\ S \ {e} = {}
          BY <3>2, <4>2
        <5>2. two[S] = b[y] /\ two[S \ {e}] = 0
          BY <1>2, <4>2, <5>1
        <5> QED BY <5>1, <5>2
      <4>3. CASE S = {x, y}
        <5>1. two[S] = b[x] + b[y]
          BY <1>2, <4>3
        <5>2. CASE e = x
          <6>1. S \ {e} = {y}
            BY <4>3, <5>2
          <6>2. two[S \ {e}] = b[y]
            BY <1>2, <6>1
          <6> QED BY <5>1, <5>2, <6>2
        <5>3. CASE e = y
          <6>1. S \ {e} = {x}
            BY <4>3, <5>3
          <6>2. two[S \ {e}] = b[x]
            BY <1>2, <6>1
          <6> QED BY <5>1, <5>3, <6>2
        <5> QED BY <3>2, <4>3, <5>2, <5>3
      <4> QED
        BY <2>3, <4>1, <4>2, <4>3
    <3> QED
      BY <2>3, <3>1, <3>3
  <2> QED
    BY <2>2, <2>3
<1>4. PICK f : f = (CHOOSE h : IsSum(h))
  OBVIOUS
<1> HIDE DEF two
<1>5. IsSum(f)
  <2> HIDE DEF IsSum
  <2> QED BY <1>3, <1>4
<1>6. \A S \in SUBSET DOMAIN b : S # {} =>
        f[S] = b[CHOOSE e \in S : TRUE] + f[S \ {CHOOSE e \in S : TRUE}]
  BY <1>5
<1>7. f[{}] = 0
  BY <1>5
<1> HIDE DEF IsSum
<1>8. f[{x}] = b[x] /\ f[{y}] = b[y]
  <2>1. (CHOOSE e \in {x} : TRUE) = x /\ (CHOOSE e \in {y} : TRUE) = y
    OBVIOUS
  <2>2. f[{x}] = b[x] + f[{x} \ {x}] /\ f[{y}] = b[y] + f[{y} \ {y}]
    BY <1>6, <2>1
  <2>3. {x} \ {x} = {} /\ {y} \ {y} = {}
    OBVIOUS
  <2>4. f[{x}] = b[x] + 0 /\ f[{y}] = b[y] + 0
    BY <1>7, <2>2, <2>3
  <2> QED
    BY <2>4
<1>9. f[{x, y}] = b[x] + b[y]
  <2>1. PICK e : e = (CHOOSE v \in {x, y} : TRUE)
    OBVIOUS
  <2>2. e \in {x, y}
    BY <2>1
  <2>3. f[{x, y}] = b[e] + f[{x, y} \ {e}]
    BY <1>6, <2>1
  <2>4. CASE e = x
    <3>1. {x, y} \ {e} = {y}
      BY <2>4
    <3> QED BY <1>8, <2>3, <2>4, <3>1
  <2>5. CASE e = y
    <3>1. {x, y} \ {e} = {x}
      BY <2>5
    <3>2. f[{x, y}] = b[y] + b[x]
      BY <1>8, <2>3, <2>5, <3>1
    <3> QED BY <3>2
  <2> QED
    BY <2>2, <2>4, <2>5
<1> QED
  BY <1>1, <1>4, <1>9

\* The same of the sum the mean is taken of.
LEMMA SumOfOne ==
  ASSUME NEW b, NEW x \in Int, DOMAIN b = {x}, b[x] \in Int
  PROVE  MapThenSumSet(LAMBDA v : v * b[v], DOMAIN b) = x * b[x]
<1> DEFINE IsSum(f) ==
      f = [s \in SUBSET DOMAIN b |->
             IF s = {} THEN 0
             ELSE (CHOOSE e \in s : TRUE) * b[CHOOSE e \in s : TRUE]
                    + f[s \ {CHOOSE e \in s : TRUE}]]
           one == [s \in SUBSET DOMAIN b |-> IF s = {} THEN 0 ELSE x * b[x]]
<1>1. MapThenSumSet(LAMBDA v : v * b[v], DOMAIN b) = (CHOOSE f : IsSum(f))[DOMAIN b]
  BY DEF MapThenSumSet, MapThenFoldSet
<1>2. (CHOOSE e \in {x} : TRUE) = x
  OBVIOUS
<1>3. IsSum(one)
  <2>1. SUFFICES ASSUME NEW s \in SUBSET DOMAIN b
                 PROVE  one[s] = IF s = {} THEN 0
                          ELSE (CHOOSE e \in s : TRUE) * b[CHOOSE e \in s : TRUE]
                                 + one[s \ {CHOOSE e \in s : TRUE}]
    OBVIOUS
  <2>2. CASE s = {}
    BY <2>2
  <2>3. CASE s = {x}
    <3>1. s \ {CHOOSE e \in s : TRUE} = {}
      BY <1>2, <2>3
    <3>2. one[{}] = 0 /\ one[s] = x * b[x]
      BY <2>3
    <3> QED
      BY <1>2, <2>3, <3>1, <3>2
  <2> QED
    BY <2>2, <2>3
<1>4. PICK f : f = (CHOOSE h : IsSum(h))
  OBVIOUS
<1>5. IsSum(f)
  BY <1>3, <1>4
<1>6. f[{}] = 0 /\ f[{x}] = x * b[x] + f[{x} \ {x}]
  BY <1>2, <1>5
<1>7. x * b[x] \in Int /\ {x} \ {x} = {}
  OBVIOUS
<1> HIDE DEF IsSum, one
<1>8. f[{x}] = x * b[x] + 0
  BY <1>6, <1>7
<1>9. f[{x}] = x * b[x]
  BY <1>7, <1>8
<1> QED
  BY <1>1, <1>4, <1>9, Zenon

-----------------------------------------------------------------------------
(***************************************************************************)
(* A batch of one peer has samples at two distances only, and the filter   *)
(* keeps the ones most agree on.                                           *)
(***************************************************************************)

\* The bag of m samples at x and n at y.
TwoPoint(x, y, m, n) ==
  [v \in {u \in {x, y} : IF u = x THEN m > 0 ELSE n > 0} |-> IF v = x THEN m ELSE n]

\* What it holds.
LEMMA TwoPointFacts ==
  ASSUME NEW x \in Int, NEW y \in Int, x # y, NEW m \in Nat, NEW n \in Nat
  PROVE  LET b == TwoPoint(x, y, m, n)
         IN /\ x \in DOMAIN b <=> m > 0
            /\ y \in DOMAIN b <=> n > 0
            /\ DOMAIN b \subseteq {x, y}
            /\ m > 0 => b[x] = m
            /\ n > 0 => b[y] = n
BY DEF TwoPoint

\* A bag over x and y has as many samples as there are at either.
LEMMA CardinalityOverTwo ==
  ASSUME NEW b, NEW x, NEW y, x # y, DOMAIN b \subseteq {x, y},
         NEW m \in Nat, NEW n \in Nat,
         x \in DOMAIN b <=> m > 0, m > 0 => b[x] = m,
         y \in DOMAIN b <=> n > 0, n > 0 => b[y] = n
  PROVE  BagCardinality(b) = m + n
<1>1. CASE m = 0 /\ n = 0
  <2>1. x \notin DOMAIN b /\ y \notin DOMAIN b
    BY <1>1
  <2>2. DOMAIN b = {}
    BY <2>1
  <2> QED
    BY <1>1, <2>2, CardinalityOfNone
<1>2. CASE m > 0 /\ n = 0
  <2>1. DOMAIN b = {x} /\ b[x] = m
    BY <1>2
  <2>2. BagCardinality(b) = b[x]
    BY <2>1, CardinalityOfOne
  <2> QED
    BY <1>2, <2>1, <2>2
<1>3. CASE m = 0 /\ n > 0
  <2>1. DOMAIN b = {y} /\ b[y] = n
    BY <1>3
  <2>2. BagCardinality(b) = b[y]
    BY <2>1, CardinalityOfOne
  <2> QED
    BY <1>3, <2>1, <2>2
<1>4. CASE m > 0 /\ n > 0
  <2>1. DOMAIN b = {x, y} /\ b[x] = m /\ b[y] = n
    BY <1>4
  <2>2. BagCardinality(b) = b[x] + b[y]
    BY <2>1, CardinalityOfTwo
  <2> QED
    BY <2>1, <2>2
<1> QED
  BY <1>1, <1>2, <1>3, <1>4

\* The median is where most samples are.
LEMMA MedianOfTwo ==
  ASSUME NEW x \in Int, NEW y \in Int, x # y, NEW m \in Nat, NEW n \in Nat, m > n,
         NEW z \in DOMAIN TwoPoint(x, y, m, n), IsMedian(TwoPoint(x, y, m, n), z)
  PROVE  z = x
<1> DEFINE b == TwoPoint(x, y, m, n)
           below == [v \in {v \in DOMAIN b : v < z} |-> b[v]]
<1>1. /\ x \in DOMAIN b <=> m > 0
      /\ y \in DOMAIN b <=> n > 0
      /\ DOMAIN b \subseteq {x, y}
      /\ m > 0 => b[x] = m
      /\ n > 0 => b[y] = n
  BY TwoPointFacts
<1>2. /\ BagCardinality(below) <= BagCardinality(b) \div 2
      /\ BagCardinality(below) + b[z] > BagCardinality(b) \div 2
  BY DEF IsMedian
<1> HIDE DEF b
<1>3. BagCardinality(b) = m + n
  BY <1>1, CardinalityOverTwo
<1>4. SUFFICES ASSUME z = y PROVE FALSE
  BY <1>1 DEF b
<1>5. z \in DOMAIN b /\ n > 0 /\ b[z] = n /\ m > 0
  BY <1>1, <1>4 DEF b
<1>6. CASE x < y
  <2>1. DOMAIN below = {x} /\ below[x] = m
    BY <1>1, <1>4, <1>5, <1>6
  <2>2. BagCardinality(below) = m
    <3> HIDE DEF below
    <3> QED BY <2>1, CardinalityOfOne
  <2> QED
    BY <1>2, <1>3, <2>2
<1>7. CASE y < x
  <2>1. DOMAIN below = {}
    BY <1>1, <1>4, <1>7
  <2>2. BagCardinality(below) = 0
    <3> HIDE DEF below
    <3> QED BY <2>1, CardinalityOfNone
  <2> QED
    BY <1>2, <1>3, <1>5, <2>2
<1> QED
  BY <1>6, <1>7

\* The samples within d of x: those at x, and the others if they are that near.
LEMMA WithinTwo ==
  ASSUME NEW x \in Int, NEW w \in Int, w # 0, NEW m \in Nat, NEW n \in Nat, NEW d \in Int
  PROVE  /\ d < 0 => BagCardinality(Within(TwoPoint(x, x + w, m, n), x, d)) = 0
         /\ d >= 0 /\ d < Abs(w) => BagCardinality(Within(TwoPoint(x, x + w, m, n), x, d)) = m
         /\ d >= Abs(w) => BagCardinality(Within(TwoPoint(x, x + w, m, n), x, d)) = m + n
<1> DEFINE b == TwoPoint(x, x + w, m, n)
           c == Within(b, x, d)
           y == x + w
           p == IF d >= 0 THEN m ELSE 0
           q == IF d >= Abs(w) THEN n ELSE 0
<1>0. y \in Int /\ x # y
  OBVIOUS
<1>1. /\ x \in DOMAIN b <=> m > 0
      /\ y \in DOMAIN b <=> n > 0
      /\ DOMAIN b \subseteq {x, y}
      /\ m > 0 => b[x] = m
      /\ n > 0 => b[y] = n
  BY <1>0, TwoPointFacts
<1>2. Abs(x - x) = 0 /\ Abs(y - x) = Abs(w) /\ Abs(w) \in Nat /\ Abs(w) > 0
  BY DEF Abs
<1>3. c = [v \in {v \in DOMAIN b : Abs(v - x) <= d} |-> b[v]]
  BY DEF Within
<1>4. p \in Nat /\ q \in Nat
  OBVIOUS
<1> HIDE DEF b, y
<1>5. x \in DOMAIN c <=> m > 0 /\ d >= 0
  BY <1>1, <1>2, <1>3
<1>6. y \in DOMAIN c <=> n > 0 /\ d >= Abs(w)
  BY <1>1, <1>2, <1>3
<1>7. DOMAIN c \subseteq {x, y}
  BY <1>1, <1>3
<1>8. \A v \in DOMAIN c : c[v] = b[v]
  BY <1>3
<1> HIDE DEF c
<1>9. /\ x \in DOMAIN c <=> p > 0
      /\ y \in DOMAIN c <=> q > 0
      /\ p > 0 => c[x] = p
      /\ q > 0 => c[y] = q
  BY <1>1, <1>2, <1>5, <1>6, <1>8
<1>10. BagCardinality(c) = p + q
  <2> HIDE DEF p, q
  <2> QED BY <1>0, <1>4, <1>7, <1>9, CardinalityOverTwo
<1>11. Abs(w) \in Nat
  BY <1>2
<1> QED
  BY <1>10, <1>11 DEF b, c, y

\* Six millimetres from x there are only the samples at x.
LEMMA NearAreAtX ==
  ASSUME NEW x \in Int, NEW w \in Int, Abs(w) > 6, NEW m \in Nat, NEW n \in Nat, m > n
  PROVE  DOMAIN Within(TwoPoint(x, x + w, m, n), x, 6) = {x}
<1> DEFINE y == x + w
           b == TwoPoint(x, y, m, n)
           c == Within(b, x, 6)
<1>0. y \in Int /\ x # y /\ m > 0
  BY DEF Abs
<1>1. x \in DOMAIN b /\ DOMAIN b \subseteq {x, y} /\ b[x] = m
  BY <1>0, TwoPointFacts
<1>2. Abs(x - x) = 0 /\ Abs(y - x) = Abs(w) /\ Abs(w) \in Nat
  BY DEF Abs
<1>3. c = [v \in {v \in DOMAIN b : Abs(v - x) <= 6} |-> b[v]]
  BY DEF Within
<1> HIDE DEF y, b
<1>4. x \in DOMAIN c /\ y \notin DOMAIN c /\ DOMAIN c \subseteq {x, y}
  BY <1>1, <1>2, <1>3
<1>5. c[x] = b[x]
  BY <1>3, <1>4
<1>6. DOMAIN c = {x} /\ c[x] = m
  BY <1>1, <1>4, <1>5
<1> QED
  <2> HIDE DEF c
  <2> QED BY <1>6 DEF c, b, y

\* And all of them.
LEMMA NearCount ==
  ASSUME NEW x \in Int, NEW w \in Int, Abs(w) > 6, NEW m \in Nat, NEW n \in Nat, m > n
  PROVE  Within(TwoPoint(x, x + w, m, n), x, 6)[x] = m
<1> DEFINE y == x + w
           b == TwoPoint(x, y, m, n)
           c == Within(b, x, 6)
<1>0. y \in Int /\ x # y /\ m > 0
  BY DEF Abs
<1>1. x \in DOMAIN b /\ DOMAIN b \subseteq {x, y} /\ b[x] = m
  BY <1>0, TwoPointFacts
<1>2. Abs(x - x) = 0 /\ Abs(y - x) = Abs(w) /\ Abs(w) \in Nat
  BY DEF Abs
<1>3. c = [v \in {v \in DOMAIN b : Abs(v - x) <= 6} |-> b[v]]
  BY DEF Within
<1> HIDE DEF y, b
<1>4. x \in DOMAIN c /\ y \notin DOMAIN c /\ DOMAIN c \subseteq {x, y}
  BY <1>1, <1>2, <1>3
<1>5. c[x] = b[x]
  BY <1>3, <1>4
<1>6. DOMAIN c = {x} /\ c[x] = m
  BY <1>1, <1>4, <1>5
<1> QED
  <2> HIDE DEF c
  <2> QED BY <1>6 DEF c, b, y

\* The deviations from x are a bag of the same kind.
LEMMA DeviationsOfTwo ==
  ASSUME NEW x \in Int, NEW w \in Int, w # 0, NEW m \in Nat, m > 0, NEW n \in Nat
  PROVE  Deviations(TwoPoint(x, x + w, m, n), x) = TwoPoint(0, Abs(w), m, n)
<1> DEFINE b == TwoPoint(x, x + w, m, n)
           y == x + w
           far == Abs(w)
           near == {Abs(v - x) : v \in DOMAIN b}
           count(d) == BagCardinality(Within(b, x, d)) - BagCardinality(Within(b, x, d - 1))
<1>0. y \in Int /\ x # y /\ w # 0 /\ far \in Int
  BY DEF Abs
<1>1. /\ x \in DOMAIN b
      /\ y \in DOMAIN b <=> n > 0
      /\ DOMAIN b \subseteq {x, y}
  BY <1>0, TwoPointFacts
<1>2. Abs(x - x) = 0 /\ Abs(y - x) = far /\ far \in Nat /\ far > 0
  BY DEF Abs
<1>3. Deviations(b, x) = [d \in near |-> count(d)]
  BY DEF Deviations
<1>4. count(0) = m /\ count(far) = n
  <2>0. \A d \in Int :
                        /\ d < 0 => BagCardinality(Within(b, x, d)) = 0
                        /\ d >= 0 /\ d < far => BagCardinality(Within(b, x, d)) = m
                        /\ d >= far => BagCardinality(Within(b, x, d)) = m + n
    BY <1>0, WithinTwo
  <2> HIDE DEF b, far
  <2>1. BagCardinality(Within(b, x, 0)) = m /\ BagCardinality(Within(b, x, 0 - 1)) = 0
    BY <1>2, <2>0
  <2>2. BagCardinality(Within(b, x, far)) = m + n
    BY <1>2, <2>0
  <2>3. BagCardinality(Within(b, x, far - 1)) = m
    BY <1>2, <2>0
  <2> QED
    BY <2>1, <2>2, <2>3
<1>5. near = {u \in {0, far} : IF u = 0 THEN m > 0 ELSE n > 0}
  <2> HIDE DEF b, y, far
  <2> QED BY <1>1, <1>2
<1>6. \A d \in near : count(d) = IF d = 0 THEN m ELSE n
  <2> HIDE DEF count, far
  <2> QED BY <1>4, <1>5
<1> QED
  <2> HIDE DEF near, count, far, b
  <2>1. Deviations(b, x) = TwoPoint(0, far, m, n)
    BY <1>3, <1>5, <1>6 DEF TwoPoint
  <2> QED BY <2>1 DEF b, far

\* Where most samples agree, the filter leaves nothing but them.
LEMMA MajorityIsMean ==
  ASSUME NEW x \in Int, NEW w \in Int, Abs(w) > 6, NEW m \in Nat, NEW n \in Nat, m > n,
         NEW mean \in FilteredMeans(TwoPoint(x, x + w, m, n))
  PROVE  mean = x
<1> DEFINE b == TwoPoint(x, x + w, m, n)
<1>0. w # 0 /\ x + w \in Int /\ x # x + w /\ m > 0 /\ Abs(w) \in Int /\ Abs(w) # 0
  BY DEF Abs
<1>1. PICK c : c = Within(b, x, 6)
  OBVIOUS
<1>2. PICK med \in {z \in DOMAIN b : IsMedian(b, z)} :
        mean \in {Mean(Within(b, med, 6 * Max({1, mad}))) :
            mad \in {d \in DOMAIN Deviations(b, med) : IsMedian(Deviations(b, med), d)}}
  BY DEF FilteredMeans
<1>3. med = x
  <2> HIDE DEF b
  <2>1. med \in DOMAIN b /\ IsMedian(b, med)
    OBVIOUS
  <2> QED
    BY <1>0, <2>1, MedianOfTwo DEF b
<1>4. PICK mad \in {d \in DOMAIN Deviations(b, x) : IsMedian(Deviations(b, x), d)} :
        mean = Mean(Within(b, x, 6 * Max({1, mad})))
  <2> HIDE DEF b
  <2> QED BY <1>2, <1>3
<1>5. Deviations(b, x) = TwoPoint(0, Abs(w), m, n)
  BY <1>0, DeviationsOfTwo
<1>6. mad = 0
  <2>1. mad \in DOMAIN TwoPoint(0, Abs(w), m, n) /\ IsMedian(TwoPoint(0, Abs(w), m, n), mad)
    BY <1>4, <1>5
  <2> QED
    BY <1>0, <2>1, MedianOfTwo
<1>7. Max({1, 0}) = 1
  BY DEF Max
<1>8. mean = Mean(c)
  <2> HIDE DEF b
  <2> QED BY <1>4, <1>6, <1>7, <1>1
<1>9. DOMAIN Within(b, x, 6) = {x}
  BY NearAreAtX
<1>10. Within(b, x, 6)[x] = m
  BY NearCount
<1>11. DOMAIN c = {x} /\ c[x] = m
  <2> HIDE DEF b
  <2> QED BY <1>1, <1>9, <1>10
<1>12. c[x] \in Int /\ m \in Nat /\ m # 0
  BY <1>0, <1>11
<1>13. MapThenSumSet(LAMBDA v : v * c[v], DOMAIN c) = x * c[x]
  BY <1>11, <1>12, SumOfOne, Zenon
<1>14. BagCardinality(c) = m
  BY <1>11, <1>12, CardinalityOfOne
<1>15. (x * m) \div m = x
  BY <1>0, SMT
<1>16. Mean(c) = (x * m) \div m
  BY <1>11, <1>13, <1>14 DEF Mean
<1> QED
  BY <1>8, <1>15, <1>16

-----------------------------------------------------------------------------
(***************************************************************************)
(* The correction of what was measured.                                    *)
(***************************************************************************)

\* A division with a remainder gives the quotient.
LEMMA QuotientOf ==
  ASSUME NEW d \in Nat \ {0}, NEW q \in Int, NEW r \in 0..(d - 1)
  PROVE  (d * q + r) \div d = q
<1> DEFINE k == d * q + r
           a == k \div d
           b == k % d
<1>1. k \in Int /\ d * q \in Int
  OBVIOUS
<1>2. a \in Int /\ b \in 0..(d - 1) /\ k = d * a + b
  <2> HIDE DEF k
  <2> QED BY <1>1
<1> HIDE DEF a, b
<1>3. d * a - d * q = r - b /\ r - b < d /\ b - r < d /\ d * a \in Int
  BY <1>1, <1>2
<1>4. a - q \in Int /\ d * a - d * q = d * (a - q)
  BY <1>2
<1>5. a - q = 0
  <2> DEFINE t == a - q
  <2>1. t \in Int /\ d * t = r - b
    BY <1>3, <1>4
  <2> HIDE DEF t
  <2>2. ~(t >= 1)
    <3>1. t >= 1 => d * t >= d
      BY <2>1, Z3
    <3> QED BY <1>2, <1>3, <2>1, <3>1
  <2>3. ~(t <= -1)
    <3>1. t <= -1 => d * t <= -d
      BY <2>1, Z3
    <3> QED BY <1>2, <1>3, <2>1, <3>1
  <2> QED BY <2>1, <2>2, <2>3 DEF t
<1> QED
  BY <1>2, <1>5 DEF a, k

\* A distance that is k ticks too long is corrected by k ticks, whatever the
\* two roundings do.
LEMMA CorrectionIsExact ==
  ASSUME NEW k \in Int
  PROVE  DivRound(((k * MmPerKiloTick) \div 1000) * 1000, MmPerKiloTick) = k
<1> DEFINE M == MmPerKiloTick
           e == k * M
           r == e % 1000
           num == (e \div 1000) * 1000
<1>1. M \in Nat /\ M >= 2000 /\ e \in Int
  BY CalAssumption, PrecisionAssumption
<1>2. e \div 1000 \in Int /\ r \in 0..999 /\ e = 1000 * (e \div 1000) + r
  <2> HIDE DEF e
  <2> QED BY <1>1
<1>3. num = e - r /\ num \in Int
  <2> HIDE DEF e, r
  <2> QED BY <1>1, <1>2
<1>4. M \div 2 \in Nat /\ M \div 2 >= 1000 /\ M - M \div 2 >= 1000
  <2> HIDE DEF M
  <2> QED BY <1>1
<1> HIDE DEF r, num
<1>5. CASE num >= 0
  <2>1. num + M \div 2 = M * k + (M \div 2 - r) /\ M \div 2 - r \in 0..(M - 1)
    BY <1>1, <1>2, <1>3, <1>4
  <2>2. (num + M \div 2) \div M = k
    <3> HIDE DEF M
    <3> QED BY <1>1, <2>1, QuotientOf
  <2>3. DivRound(num, M) = k
    <3> HIDE DEF M
    <3> QED BY <1>5, <2>2 DEF DivRound
  <2> QED BY <2>3 DEF num, e
<1>6. CASE num < 0
  <2>1. /\ -num + M \div 2 = M * (-k) + (r + M \div 2)
        /\ r + M \div 2 \in 0..(M - 1) /\ -k \in Int
    BY <1>1, <1>2, <1>3, <1>4
  <2>2. (-num + M \div 2) \div M = -k
    <3> HIDE DEF M
    <3> QED BY <1>1, <2>1, QuotientOf
  <2>3. DivRound(num, M) = k
    <3> HIDE DEF M
    <3> QED BY <1>3, <1>6, <2>2 DEF DivRound
  <2> QED BY <2>3 DEF num, e
<1> QED
  BY <1>3, <1>5, <1>6 DEF num, e, M

-----------------------------------------------------------------------------
(***************************************************************************)
(* The samples of a batch.                                                 *)
(***************************************************************************)

\* Before the first answer there is no sample, and an answer adds one.
LEMMA NothingSampled ==
  ASSUME NEW x, NEW y
  PROVE  EmptyBag = TwoPoint(x, y, 0, 0)
BY DEF TwoPoint, EmptyBag, SetToBag

LEMMA SampleAdded ==
  ASSUME NEW x \in Int, NEW y \in Int, x # y, NEW m \in Nat, NEW n \in Nat
  PROVE  /\ TwoPoint(x, y, m, n) (+) SetToBag({x}) = TwoPoint(x, y, m + 1, n)
         /\ TwoPoint(x, y, m, n) (+) SetToBag({y}) = TwoPoint(x, y, m, n + 1)
<1> DEFINE b == TwoPoint(x, y, m, n)
<1>1. /\ x \in DOMAIN b <=> m > 0
      /\ y \in DOMAIN b <=> n > 0
      /\ DOMAIN b \subseteq {x, y}
      /\ m > 0 => b[x] = m
      /\ n > 0 => b[y] = n
  BY TwoPointFacts
<1> HIDE DEF b
<1>2. b (+) SetToBag({x}) = TwoPoint(x, y, m + 1, n)
  <2> DEFINE c == b (+) SetToBag({x})
  <2>1. c = [e \in DOMAIN b \union {x} |->
               (IF e \in DOMAIN b THEN b[e] ELSE 0) + (IF e \in {x} THEN 1 ELSE 0)]
    BY DEF (+), SetToBag
  <2>2. DOMAIN b \union {x} = {u \in {x, y} : IF u = x THEN m + 1 > 0 ELSE n > 0}
    BY <1>1
  <2>3. \A e \in DOMAIN b \union {x} :
          (IF e \in DOMAIN b THEN b[e] ELSE 0) + (IF e \in {x} THEN 1 ELSE 0)
            = IF e = x THEN m + 1 ELSE n
    BY <1>1
  <2> HIDE DEF c
  <2>4. c = TwoPoint(x, y, m + 1, n)
    BY <2>1, <2>2, <2>3 DEF TwoPoint
  <2> QED BY <2>4 DEF c
<1>3. b (+) SetToBag({y}) = TwoPoint(x, y, m, n + 1)
  <2> DEFINE c == b (+) SetToBag({y})
  <2>1. c = [e \in DOMAIN b \union {y} |->
               (IF e \in DOMAIN b THEN b[e] ELSE 0) + (IF e \in {y} THEN 1 ELSE 0)]
    BY DEF (+), SetToBag
  <2>2. DOMAIN b \union {y} = {u \in {x, y} : IF u = x THEN m > 0 ELSE n + 1 > 0}
    BY <1>1
  <2>3. \A e \in DOMAIN b \union {y} :
          (IF e \in DOMAIN b THEN b[e] ELSE 0) + (IF e \in {y} THEN 1 ELSE 0)
            = IF e = x THEN m ELSE n + 1
    BY <1>1
  <2> HIDE DEF c
  <2>4. c = TwoPoint(x, y, m, n + 1)
    BY <2>1, <2>2, <2>3 DEF TwoPoint
  <2> QED BY <2>4 DEF c
<1> QED
  BY <1>2, <1>3 DEF b

\* While a batch runs with one peer only, its samples are what that peer reads
\* at and, as many as were wild, that far off.
Sampled ==
  batch.running =>
    /\ batch.wild \in Nat /\ batch.peers # {}
    /\ \A p \in Peers : batch.peers = {p} =>
         \E good \in Nat :
           batch.samples = TwoPoint(Reading(p), Reading(p) + WildOffset, good, batch.wild)

\* A delay that was solved at the true distance is the one that is right.
SolvedRight ==
  \A p \in Peers :
    /\ g_res.status = "ok" /\ g_res.new_tx # 0
    /\ g_res.peers = {p} /\ g_res.ref = Dist(p) /\ 2 * g_res.wild < g_res.valid
    => g_res.new_tx + Seed = ideal

\* The handshake, what a batch holds and what the last one gave.
CInv == IInv /\ Sampled /\ SolvedRight

\* A reading at the true distance is solved to the delay that is right, if that
\* may be applied: the clamp of SolveStep is out of its way.
LEMMA SolvedIsIdeal ==
  ASSUME DelayTypeOK, cfg_live.tx = tx_reg, cfg_live.rx = Seed, NEW p \in Peers,
         SolvedTx(Reading(p), Dist(p), cfg_live) \in TxMin..TxMax
  PROVE  SolvedTx(Reading(p), Dist(p), cfg_live) + Seed = ideal
<1> DEFINE k == ideal - tx_reg - cfg_live.rx
           off == (k * MmPerKiloTick) \div 1000
<1>1. /\ ideal \in Nat /\ tx_reg \in Nat /\ Seed \in Nat /\ MaxTotal \in Nat /\ TxMax \in Nat
      /\ TxMax + Seed < MaxTotal /\ Dist(p) \in Int /\ MmPerKiloTick \in Nat
  BY CalAssumption, PrecisionAssumption DEF DelayTypeOK
<1>2. k \in Int
  BY <1>1
<1>3. off \in Int /\ Reading(p) = Dist(p) + off
  <2>1. k * MmPerKiloTick \in Int
    <3> HIDE DEF k
    <3> QED BY <1>1, <1>2
  <2>2. off \in Int
    <3> DEFINE e == k * MmPerKiloTick
    <3>1. off = e \div 1000 /\ e \in Int
      BY <2>1
    <3> HIDE DEF e, off
    <3> QED BY <3>1
  <2> QED BY <2>2 DEF Reading
<1>4. DivRound(off * 1000, MmPerKiloTick) = k
  <2> HIDE DEF k
  <2> QED BY <1>2, CorrectionIsExact
<1> HIDE DEF off
<1>5. Reading(p) - Dist(p) = off
  BY <1>1, <1>3
<1>6. SolvedTx(Reading(p), Dist(p), cfg_live) = Clamp(ideal, 0, MaxTotal) - Seed
  <2>1. SolveStep(Reading(p), Dist(p), cfg_live.tx + cfg_live.rx) =
          Clamp((tx_reg + Seed) + k, 0, MaxTotal)
    <3> HIDE DEF k
    <3> QED BY <1>4, <1>5 DEF SolveStep
  <2>2. (tx_reg + Seed) + k = ideal
    BY <1>1
  <2> QED BY <2>1, <2>2 DEF SolvedTx
<1> QED
  BY <1>1, <1>6 DEF Clamp

\* One exchange more with the peer of the batch, or with another one.
LEMMA RangedSamples ==
  ASSUME NEW b, NEW ref, NEW outcome \in Outcome, NEW p \in Peers, Reading(p) \in Int,
         g_req.peer = p, NEW good \in Nat, b.wild \in Nat,
         b.samples = TwoPoint(Reading(p), Reading(p) + WildOffset, good, b.wild)
  PROVE  /\ Ranged(b, ref, outcome).wild \in Nat
         /\ \E more \in Nat :
              Ranged(b, ref, outcome).samples =
                TwoPoint(Reading(p), Reading(p) + WildOffset, more, Ranged(b, ref, outcome).wild)
<1> DEFINE x == Reading(p)
           y == x + WildOffset
           next == Ranged(b, ref, outcome)
<1>1. x \in Int /\ y \in Int /\ x # y
  BY PrecisionAssumption
<1>2. /\ next.wild = b.wild + (IF outcome = "wild" THEN 1 ELSE 0)
      /\ next.samples = IF outcome = "lost" THEN b.samples
           ELSE b.samples (+) SetToBag({x + (IF outcome = "wild" THEN WildOffset ELSE 0)})
  BY DEF Ranged
<1>3. /\ TwoPoint(x, y, good, b.wild) (+) SetToBag({x}) = TwoPoint(x, y, good + 1, b.wild)
      /\ TwoPoint(x, y, good, b.wild) (+) SetToBag({y}) = TwoPoint(x, y, good, b.wild + 1)
  <2> HIDE DEF x, y
  <2> QED BY <1>1, SampleAdded
<1>4. b.samples = TwoPoint(x, y, good, b.wild) /\ x + 0 = x /\ good + 1 \in Nat
  BY <1>1
<1>5. y = x + WildOffset
  OBVIOUS
<1> HIDE DEF x, y, next
<1>6. CASE outcome = "lost"
  <2>1. next.wild = b.wild /\ next.samples = TwoPoint(x, y, good, next.wild)
    BY <1>2, <1>4, <1>6
  <2> QED BY <2>1 DEF next, x, y
<1>7. CASE outcome = "good"
  <2>1. next.wild = b.wild /\ next.samples = TwoPoint(x, y, good + 1, next.wild)
    BY <1>2, <1>3, <1>4, <1>7
  <2> QED BY <1>4, <2>1 DEF next, x, y
<1>8. CASE outcome = "wild"
  <2>1. next.wild = b.wild + 1 /\ next.samples = TwoPoint(x, y, good, b.wild + 1)
    BY <1>2, <1>3, <1>4, <1>5, <1>8
  <2>2. next.wild \in Nat /\ next.samples = TwoPoint(x, y, good, next.wild)
    BY <2>1
  <2> QED BY <2>2 DEF next, x, y
<1> QED
  BY <1>6, <1>7, <1>8 DEF Outcome

\* A batch has the samples that were near and those that were not.
LEMMA TwoPointTotal ==
  ASSUME NEW x \in Int, NEW y \in Int, x # y, NEW m \in Nat, NEW n \in Nat
  PROVE  BagCardinality(TwoPoint(x, y, m, n)) = m + n
<1> DEFINE b == TwoPoint(x, y, m, n)
<1>1. /\ x \in DOMAIN b <=> m > 0
      /\ y \in DOMAIN b <=> n > 0
      /\ DOMAIN b \subseteq {x, y}
      /\ m > 0 => b[x] = m
      /\ n > 0 => b[y] = n
  BY TwoPointFacts
<1> HIDE DEF b
<1>2. BagCardinality(b) = m + n
  BY <1>1, CardinalityOverTwo
<1> QED
  BY <1>2 DEF b

\* A mean of a batch of one peer with fewer wild samples than half.
LEMMA MeanIsReading ==
  ASSUME Sampled, batch.running, NEW p \in Peers, batch.peers = {p}, Reading(p) \in Int,
         2 * batch.wild < BagCardinality(batch.samples),
         NEW mean \in Means(batch.samples)
  PROVE  mean = Reading(p)
<1> DEFINE x == Reading(p)
           y == x + WildOffset
           n == batch.wild
<1>1. PICK m \in Nat : batch.samples = TwoPoint(x, y, m, n)
  BY DEF Sampled
<1>2. x \in Int /\ WildOffset \in Int /\ Abs(WildOffset) > 6 /\ n \in Nat
  BY PrecisionAssumption DEF Sampled, Abs
<1>3. y \in Int /\ x # y
  BY PrecisionAssumption
<1>4. 2 * n < BagCardinality(batch.samples) /\ mean \in Means(batch.samples)
  OBVIOUS
<1> HIDE DEF x, y, n
<1>5. PICK b : b = TwoPoint(x, y, m, n)
  OBVIOUS
<1>6. b = batch.samples
  BY <1>1, <1>5
<1>7. m > 0 => x \in DOMAIN TwoPoint(x, y, m, n)
  BY <1>2, <1>3, TwoPointFacts
<1>8. m > 0 => x \in DOMAIN b
  BY <1>5, <1>7
<1>9. BagCardinality(TwoPoint(x, y, m, n)) = m + n
  BY <1>2, <1>3, TwoPointTotal
<1>10. m > n
  BY <1>1, <1>2, <1>4, <1>9
<1>11. b # EmptyBag
  <2>1. x \in DOMAIN b
    BY <1>2, <1>8, <1>10
  <2> QED BY <2>1 DEF EmptyBag, SetToBag
<1>12. mean \in FilteredMeans(TwoPoint(x, y, m, n))
  BY <1>4, <1>5, <1>6, <1>11 DEF Means
<1>13. mean = x
  BY <1>2, <1>10, <1>12, MajorityIsMean DEF y
<1> QED
  BY <1>13 DEF x

\* What the radio reads at is a whole number.
LEMMA ReadingIsWhole ==
  ASSUME DelayTypeOK, NEW p \in Peers
  PROVE  Reading(p) \in Int
<1> DEFINE e == (ideal - tx_reg - cfg_live.rx) * MmPerKiloTick
<1>1. /\ ideal \in Int /\ tx_reg \in Int /\ cfg_live.rx \in Int
      /\ Dist(p) \in Int /\ MmPerKiloTick \in Int
  BY CalAssumption, PrecisionAssumption DEF DelayTypeOK, Delays
<1>2. e \in Int
  BY <1>1
<1> HIDE DEF e
<1>3. e \div 1000 \in Int
  BY <1>2
<1> QED
  BY <1>1, <1>3 DEF Reading, e

\* Nobody else touches what a batch measures and what it gave.
LEMMA UnmovedSamples ==
  ASSUME Sampled, SolvedRight, UNCHANGED <<batch, g_res, tx_reg, cfg_live, ideal>>
  PROVE  Sampled' /\ SolvedRight'
BY DEF Sampled, SolvedRight, Reading

\* The first exchange of a batch.
LEMMA StartBatchSamples ==
  ASSUME CInv, NEW outcome \in Outcome, StartBatch(outcome)
  PROVE  Sampled' /\ SolvedRight'
<1>1. UNCHANGED <<g_res, tx_reg, cfg_live, ideal, g_req>>
  BY DEF StartBatch, delayVars
<1>2. batch' = Ranged(NoBatch, g_req.ref, outcome)
  BY DEF StartBatch
<1>3. batch'.peers = {g_req.peer} /\ g_req.peer \in Peers
  BY <1>2 DEF Ranged, NoBatch, CInv, IInv, TypeOK, ShellTypeOK
<1>4. DelayTypeOK
  BY DEF CInv, IInv, TypeOK
<1>5. NoBatch.wild = 0 /\ NoBatch.samples = EmptyBag
  BY DEF NoBatch
<1>6. batch'.wild \in Nat
  BY <1>2, <1>5 DEF Ranged
<1>7. ASSUME NEW p \in Peers, batch'.peers = {p}
      PROVE  \E good \in Nat :
               batch'.samples = TwoPoint(Reading(p), Reading(p) + WildOffset, good, batch'.wild)
  <2>1. g_req.peer = p
    BY <1>3, <1>7
  <2>2. Reading(p) \in Int
    BY <1>4, ReadingIsWhole
  <2>3. NoBatch.samples = TwoPoint(Reading(p), Reading(p) + WildOffset, 0, NoBatch.wild)
    BY <1>5, NothingSampled
  <2>4. 0 \in Nat /\ NoBatch.wild \in Nat
    BY <1>5
  <2> HIDE DEF NoBatch
  <2>5. \E more \in Nat :
          Ranged(NoBatch, g_req.ref, outcome).samples =
            TwoPoint(Reading(p), Reading(p) + WildOffset, more,
                     Ranged(NoBatch, g_req.ref, outcome).wild)
    BY <2>1, <2>2, <2>3, <2>4, RangedSamples
  <2> QED
    BY <1>2, <2>5
<1>8. \A p \in Peers : Reading(p)' = Reading(p)
  BY <1>1 DEF Reading
<1>9. Sampled'
  BY <1>3, <1>6, <1>7, <1>8 DEF Sampled
<1>10. SolvedRight'
  BY <1>1 DEF SolvedRight, CInv
<1> QED
  BY <1>9, <1>10

\* An exchange with another peer than the batch's leaves none it could be of.
LEMMA ExchangeSamples ==
  ASSUME CInv, NEW outcome \in Outcome, Exchange(outcome)
  PROVE  Sampled' /\ SolvedRight'
<1>1. UNCHANGED <<g_res, tx_reg, cfg_live, ideal, g_req>> /\ batch.running
  BY DEF Exchange, delayVars, handVars
<1>2. batch' = Ranged(batch, batch.ref, outcome)
  BY DEF Exchange
<1>3. batch'.peers = batch.peers \union {g_req.peer} /\ g_req.peer \in Peers
  BY <1>2 DEF Ranged, CInv, IInv, TypeOK, ShellTypeOK
<1>4. DelayTypeOK
  BY DEF CInv, IInv, TypeOK
<1>5. batch.wild \in Nat /\ batch.peers # {}
  BY <1>1 DEF CInv, Sampled
<1>6. batch'.wild \in Nat /\ batch'.peers # {}
  BY <1>2, <1>3, <1>5 DEF Ranged
<1>7. ASSUME NEW p \in Peers, batch'.peers = {p}
      PROVE  \E good \in Nat :
               batch'.samples = TwoPoint(Reading(p), Reading(p) + WildOffset, good, batch'.wild)
  <2>1. g_req.peer = p /\ batch.peers = {p}
    BY <1>3, <1>5, <1>7
  <2>2. Reading(p) \in Int
    BY <1>4, ReadingIsWhole
  <2>3. PICK good \in Nat :
          batch.samples = TwoPoint(Reading(p), Reading(p) + WildOffset, good, batch.wild)
    BY <1>1, <2>1 DEF CInv, Sampled
  <2>4. \E more \in Nat :
          Ranged(batch, batch.ref, outcome).samples =
            TwoPoint(Reading(p), Reading(p) + WildOffset, more,
                     Ranged(batch, batch.ref, outcome).wild)
    BY <1>5, <2>1, <2>2, <2>3, RangedSamples
  <2> QED
    BY <1>2, <2>4
<1>8. \A p \in Peers : Reading(p)' = Reading(p)
  BY <1>1 DEF Reading
<1>9. Sampled'
  BY <1>6, <1>7, <1>8 DEF Sampled
<1>10. SolvedRight'
  BY <1>1 DEF SolvedRight, CInv
<1> QED
  BY <1>9, <1>10

\* What is solved from a batch of one peer at its true distance.
LEMMA ResultIsRight ==
  ASSUME CInv, batch.running, NEW mean \in Means(batch.samples), NEW p \in Peers,
         NEW r, r = ResultOf(mean), r.status = "ok", r.new_tx # 0,
         r.peers = {p}, r.ref = Dist(p), 2 * r.wild < r.valid
  PROVE  r.new_tx + Seed = ideal
<1> DEFINE solved == SolvedTx(mean, batch.ref, cfg_live)
           valid == BagCardinality(batch.samples)
<1>1. DelayTypeOK /\ cfg_live.tx = tx_reg /\ cfg_live.rx = Seed /\ Sampled
  BY DEF CInv, IInv, TypeOK, Kept
<1> HIDE DEF solved, valid
<1>2. /\ solved \in TxMin..TxMax /\ r.new_tx = solved
      /\ r.peers = batch.peers /\ r.ref = batch.ref
      /\ r.wild = batch.wild /\ r.valid = valid
  <2>1. CASE valid < NSamples \div 4
    BY <2>1 DEF ResultOf, valid, NoResult
  <2>2. CASE ~(valid < NSamples \div 4) /\ ~g_req.persist
    BY <2>2 DEF ResultOf, valid, NoResult
  <2>3. CASE ~(valid < NSamples \div 4) /\ g_req.persist /\ solved \in TxMin..TxMax
    BY <2>3 DEF ResultOf, valid, solved, NoResult
  <2>4. CASE ~(valid < NSamples \div 4) /\ g_req.persist /\ solved \notin TxMin..TxMax
    BY <2>4 DEF ResultOf, valid, solved, NoResult
  <2> QED
    BY <2>1, <2>2, <2>3, <2>4
<1>3. batch.peers = {p} /\ batch.ref = Dist(p) /\ 2 * batch.wild < BagCardinality(batch.samples)
  BY <1>2 DEF valid
<1>4. mean = Reading(p)
  <2>1. Reading(p) \in Int
    BY <1>1, ReadingIsWhole
  <2> QED
    BY <1>1, <1>3, <2>1, MeanIsReading
<1>5. solved = SolvedTx(Reading(p), Dist(p), cfg_live)
  BY <1>3, <1>4 DEF solved
<1>6. SolvedTx(Reading(p), Dist(p), cfg_live) + Seed = ideal
  BY <1>1, <1>2, <1>5, SolvedIsIdeal
<1> QED
  BY <1>2, <1>5, <1>6

\* The end of a batch, and a restart.
LEMMA FinishBatchSamples ==
  ASSUME CInv, FinishBatch
  PROVE  Sampled' /\ SolvedRight'
<1>1. PICK mean \in Means(batch.samples) : g_res' = ResultOf(mean)
  BY DEF FinishBatch
<1>2. batch.running /\ ideal' = ideal /\ batch'.running = FALSE
  BY DEF FinishBatch, NoBatch
<1>3. Sampled'
  BY <1>2 DEF Sampled
<1>4. ASSUME NEW p \in Peers, g_res'.status = "ok", g_res'.new_tx # 0,
             g_res'.peers = {p}, g_res'.ref = Dist(p), 2 * g_res'.wild < g_res'.valid
      PROVE  g_res'.new_tx + Seed = ideal
  BY <1>1, <1>2, <1>4, ResultIsRight
<1>5. SolvedRight'
  BY <1>2, <1>4 DEF SolvedRight
<1> QED
  BY <1>3, <1>5

LEMMA RebootSamples ==
  ASSUME Reboot
  PROVE  Sampled' /\ SolvedRight'
<1>1. batch'.running = FALSE /\ g_res'.new_tx = 0
  BY DEF Reboot, NoBatch, NoResult
<1> QED
  BY <1>1 DEF Sampled, SolvedRight

\* Whoever moves.
LEMMA SamplesKept == CInv /\ [Next]_vars => CInv'
<1> SUFFICES ASSUME CInv, [Next]_vars PROVE CInv'
  OBVIOUS
<1>1. IInv'
  BY NextKeeps DEF CInv
<1>2. Sampled /\ SolvedRight
  BY DEF CInv
<1>3. CASE Operator
  <2>1. UNCHANGED <<batch, g_res, tx_reg, cfg_live, ideal>>
    BY <1>3 DEF Operator, Begin, SetAnt, delayVars, handVars
  <2> QED BY <1>1, <1>2, <2>1, UnmovedSamples DEF CInv
<1>4. CASE Shell \/ WaitTimesOut
  <2>1. UNCHANGED <<batch, g_res, tx_reg, cfg_live, ideal>>
    BY <1>4 DEF Shell, CopyField, ResetDone, GiveRequest, TakeDone, ReadResult, SetConf, SaveTx,
                SaveRx, WaitTimesOut, delayVars, handVars
  <2> QED BY <1>1, <1>2, <2>1, UnmovedSamples DEF CInv
<1>5. CASE Loop
  BY <1>1, <1>5, StartBatchSamples, ExchangeSamples, FinishBatchSamples DEF Loop, CInv
<1>6. CASE Reboot
  BY <1>1, <1>6, RebootSamples DEF CInv
<1>7. CASE UNCHANGED vars
  <2>1. UNCHANGED <<batch, g_res, tx_reg, cfg_live, ideal>>
    BY <1>7 DEF vars, delayVars, handVars
  <2> QED BY <1>1, <1>2, <2>1, UnmovedSamples DEF CInv
<1> QED
  BY <1>3, <1>4, <1>5, <1>6, <1>7 DEF Next

\* The samples of a batch and the delay solved from them, in all that happens.
THEOREM CalibrationInductive == Spec => []CInv
<1>1. Init => CInv
  <2> SUFFICES ASSUME Init PROVE CInv
    OBVIOUS
  <2>1. batch.running = FALSE /\ g_res.new_tx = 0
    BY DEF Init, NoBatch, NoResult
  <2> QED BY <2>1, InitHolds DEF CInv, Sampled, SolvedRight
<1> QED BY <1>1, SamplesKept, PTL DEF Spec

\* A `cal ref' over the true distance that reports success leaves the board on
\* the delay that is right for it, whatever a minority of its samples read
\* (cal_run.c:160-175, cal_solve.c:15-43).
THEOREM AlwaysCalibrated == Spec => []Calibrated
<1>1. CInv => Calibrated
  <2> SUFFICES ASSUME CInv, quiet, ret \in {"ok", "saved", "unsaved"}, cmd.persist,
                      cmd.ref = Dist(cmd.peer), 2 * out.wild < out.valid
               PROVE  cfg_live.tx = tx_reg /\ tx_reg + cfg_live.rx = ideal
    BY DEF Calibrated
  <2>1. Done /\ out = g_res /\ out.status = "ok"
    BY DEF CInv, IInv, Handshake, Afterwards, Answered, Status
  <2>2. cmd.peer \in Peers
    BY DEF CInv, IInv, TypeOK, ShellTypeOK
  <2>3. /\ g_res.status = "ok" /\ g_res.new_tx # 0 /\ g_res.peers = {cmd.peer}
        /\ g_res.ref = Dist(cmd.peer) /\ 2 * g_res.wild < g_res.valid
    BY <2>1 DEF Done, Own
  <2>4. g_res.new_tx + Seed = ideal
    BY <2>2, <2>3 DEF CInv, SolvedRight
  <2>5. tx_reg = g_res.new_tx /\ cfg_live.tx = tx_reg /\ cfg_live.rx = Seed
    BY <2>1 DEF Done, InForce, CInv, IInv, Kept
  <2> QED
    BY <2>4, <2>5
<1> QED BY <1>1, CalibrationInductive, PTL
=============================================================================

-------------------------- MODULE RadioLoopProofs --------------------------
(***************************************************************************)
(* The receive loop of all images, for batches of any size and receptions  *)
(* that are told apart in any way: what an event is, what an exchange may  *)
(* take for its response, and that a sleeping loop will be woken.          *)
(***************************************************************************)
EXTENDS RadioLoop, TLAPS

\* The two interrupt enables follow the loop.
Enables ==
  /\ ien <=> pc \notin {"poll", "wait"}
  /\ ~ien => ~work /\ isr.at = "idle"
  /\ gint <=> pc \notin {"off_tx", "off_enter"}

\* An event waits from its callback until the loop clears rx_pending.
Waiting ==
  /\ rx_pending <=> rx_sem \/ pc \in {"status", "len", "clear"}
  /\ pc \in {"status", "len", "clear"} => ~rx_sem
  /\ req \/ rxready => role = "cal"
  /\ rxready => rx_sem
  /\ rxready => pc \in {"off_enter", "clear_status", "mask", "poll", "wait", "arm"}

Whole ==
  /\ rx_status = rx_len
  /\ role = "slave" /\ pc = "len" => status = rx_status
  /\ EventIsWhole

\* While the receiver is on nothing of an earlier frame is to come.
Receiver ==
  /\ rx # "off" => ~work /\ isr.at = "idle" /\ ~cia
  /\ rx = "await" => pc = "wait"
  /\ rx = "listen" => pc # "wait"
  /\ pc \in {"clear_status", "mask", "poll"} => rx = "off"

\* What the interrupt routine reads is of the last reception, and so is the
\* event that waits, unless a batch came between and nothing is to come.
LastOne ==
  /\ isr.at \in {"ok", "err"} => isr.ev.n = buf.n
  /\ rx_pending /\ pc \notin {"poll", "wait"} =>
       rx_len.n = buf.n \/ (stat = {} /\ ~cia /\ isr.at \in {"idle", "pin"})
  /\ rx_pending /\ pc = "poll" => rx_len.n = buf.n \/ ~cia

\* An exchange starts without a good frame, and only its response makes one.
Exchange ==
  /\ pc \in {"mask", "poll"} => "good" \notin stat
  /\ pc = "wait" => ~ranged
  /\ pc = "wait" /\ rx = "await" => "good" \notin stat
  /\ pc = "wait" /\ "good" \notin stat => ~answered
  /\ pc = "wait" /\ "good" \in stat => (answered <=> buf.kind = "resp")
  /\ ExchangeIsHonest

\* A high line is looked after, and the receiver goes off only for an event.
Served ==
  /\ ien /\ "ciaerr" \in stat => "good" \in stat
  /\ ien /\ ~missed /\ stat # {} =>
       work \/ isr.at # "idle" \/ pc \in {"off_enter", "clear_status"}
  /\ pc = "take" /\ rx = "off" /\ ~missed =>
       rx_sem \/ isr.at \in {"ok", "err"} \/ (stat # {} /\ (work \/ isr.at = "pin"))

IInv ==
  /\ TypeOK /\ Enables /\ Waiting /\ Whole /\ Receiver /\ LastOne /\ Exchange /\ Served

USE RadioAssumption

-----------------------------------------------------------------------------

\* Every variable keeps to its values.
LEMMA RadioTypeKeeps ==
  ASSUME IInv, Next
  PROVE  RadioTypeOK'
<1> USE DEF RadioTypeOK, radioVars, irqVars, handVars, loopVars, ghostVars, Bits, Kind
<1>0. RadioTypeOK
  BY DEF IInv, TypeOK
<1>1. CASE Receives
  <2>1. PICK n \in {(buf.n + 1) % Ids} :
          /\ \E bits \in SUBSET Bits : Raise(bits)
          /\ \E kind \in Kind \union {"bad"} : buf' = [n |-> n, kind |-> kind]
    BY <1>1 DEF Receives
  <2>2. n \in 0..(Ids - 1)
    BY <1>0
  <2>3. stat' \subseteq Bits
    BY <1>0, <2>1 DEF Raise
  <2>4. QED
    BY <1>0, <1>1, <2>1, <2>2, <2>3 DEF Receives
<1>2. CASE CiaDone
  BY <1>0, <1>2 DEF CiaDone, Raise
<1>3. CASE IsrOk
  BY <1>0, <1>3 DEF IsrOk, HandOff
<1>4. CASE IsrErr
  BY <1>0, <1>4 DEF IsrErr, HandOff
<1>5. CASE Arm
  BY <1>0, <1>5 DEF Arm, At
<1>6. CASE TurnedOff
  BY <1>0, <1>6 DEF TurnedOff, At
<1>7. CASE ClearStatus
  BY <1>0, <1>7 DEF ClearStatus, At, EnterClears, Bits
<1>8. CASE Poll
  BY <1>0, <1>8 DEF Poll, At
<1>9. CASE WaitSees
  BY <1>0, <1>9 DEF WaitSees, At
<1>10. CASE WaitFails
  BY <1>0, <1>10 DEF WaitFails, At
<1>11. CASE Leave
  BY <1>0, <1>11 DEF Leave, At
<1>12. CASE HandlerStarts \/ HandlerEnds \/ IsrReads \/ Take \/ CopyStatus \/
              CopyLen \/ Clear \/ Check \/ Ignore \/ Answer \/ RangeCmd \/ Batch \/
              Mask \/ Request
  BY <1>0, <1>12 DEF HandlerStarts, HandlerEnds, High, Idle, IsrReads, Take, At,
     CopyStatus, CopyLen, Clear, Pending, Check, Bad, NoFrame, Ignore, Answer,
     ForceOff, RangeCmd, Batch, Mask, Request
<1>13. CASE WaitEnds
  BY <1>0, <1>13 DEF WaitEnds, At, ForceOff
<1>14. CASE Transmit
  BY <1>0, <1>14 DEF Transmit, At, ForceOff
<1>15. QED
  BY <1>1, <1>2, <1>3, <1>4, <1>5, <1>6, <1>7, <1>8, <1>9, <1>10, <1>11, <1>12, <1>13,
     <1>14
     DEF Next, Radio, Handler, Loop, Exchanges

\* So do the flags,
LEMMA FlagsKeep ==
  ASSUME IInv, Next
  PROVE  FlagsOK'
<1> USE DEF FlagsOK, radioVars, irqVars, handVars, loopVars, ghostVars, TypeOK
<1>0. FlagsOK
  BY DEF IInv, TypeOK
<1>1. CASE Receives
  BY <1>0, <1>1 DEF Receives, Raise
<1>2. CASE CiaDone
  BY <1>0, <1>2 DEF CiaDone, Raise
<1>3. CASE HandlerStarts
  BY <1>0, <1>3 DEF HandlerStarts
<1>4. CASE IsrOk
  BY <1>0, <1>4 DEF IsrOk, HandOff
<1>5. CASE IsrErr
  BY <1>0, <1>5 DEF IsrErr, HandOff
<1>6. CASE Arm
  BY <1>0, <1>6 DEF Arm, At
<1>7. CASE Take
  BY <1>0, <1>7 DEF Take, At
<1>8. CASE Clear
  BY <1>0, <1>8 DEF Clear, At, Pending
<1>9. CASE Answer
  BY <1>0, <1>9 DEF Answer, At, ForceOff
<1>10. CASE RangeCmd
  BY <1>0, <1>10 DEF RangeCmd, At, ForceOff
<1>11. CASE Batch
  BY <1>0, <1>11 DEF Batch, At, ForceOff
<1>12. CASE TurnedOff
  BY <1>0, <1>12 DEF TurnedOff, At
<1>13. CASE Mask
  BY <1>0, <1>13 DEF Mask, At
<1>14. CASE Poll
  BY <1>0, <1>14 DEF Poll, At
<1>15. CASE WaitSees
  BY <1>0, <1>15 DEF WaitSees, At
<1>16. CASE WaitFails
  BY <1>0, <1>16 DEF WaitFails, At
<1>17. CASE Leave
  BY <1>0, <1>17 DEF Leave, At
<1>18. CASE Request
  BY <1>0, <1>18 DEF Request
<1>19. CASE HandlerEnds \/ IsrReads \/ CopyStatus \/ CopyLen \/ Check \/ Ignore \/
              ClearStatus
  BY <1>0, <1>19 DEF HandlerEnds, High, Idle, IsrReads, CopyStatus, At, CopyLen, Check,
     Bad, NoFrame, Ignore, ClearStatus, EnterClears, Bits
<1>20. CASE WaitEnds
  BY <1>0, <1>20 DEF WaitEnds, At, ForceOff
<1>21. CASE Transmit
  BY <1>0, <1>21 DEF Transmit, At, ForceOff
<1>22. QED
  BY <1>1, <1>2, <1>3, <1>4, <1>5, <1>6, <1>7, <1>8, <1>9, <1>10, <1>11, <1>12, <1>13,
     <1>14, <1>15, <1>16, <1>17, <1>18, <1>19, <1>20, <1>21
     DEF Next, Radio, Handler, Loop, Exchanges

\* the events
LEMMA EventsKeep ==
  ASSUME IInv, Next
  PROVE  EventsOK'
<1> USE DEF RadioTypeOK, EventsOK, radioVars, irqVars, handVars, loopVars, ghostVars,
     Event, Idle
<1>0. RadioTypeOK /\ EventsOK
  BY DEF IInv, TypeOK
<1>1. CASE HandlerStarts
  BY <1>0, <1>1 DEF HandlerStarts
<1>2. CASE HandlerEnds
  BY <1>0, <1>2 DEF HandlerEnds, High, Idle
<1>3. CASE IsrReads
  BY <1>0, <1>3 DEF IsrReads, High
<1>4. CASE IsrOk
  BY <1>0, <1>4 DEF IsrOk, HandOff
<1>5. CASE IsrErr
  BY <1>0, <1>5 DEF IsrErr, HandOff
<1>6. CASE CopyStatus
  BY <1>0, <1>6 DEF CopyStatus, At
<1>7. CASE CopyLen
  BY <1>0, <1>7 DEF CopyLen, At
<1>8. CASE Receives \/ CiaDone \/ Arm \/ Take \/ Clear \/ Check \/ Ignore \/ Answer \/
              RangeCmd \/ Batch \/ TurnedOff \/ ClearStatus \/ Mask \/ Poll \/
              WaitSees \/ WaitFails \/ Leave \/ Request
  BY <1>0, <1>8 DEF Receives, Raise, CiaDone, Arm, At, Take, Clear, Pending, Check,
     Bad, NoFrame, Ignore, Answer, ForceOff, RangeCmd, Batch, TurnedOff, ClearStatus,
     EnterClears, Bits, Mask, Poll, WaitSees, WaitFails, Leave, Request
<1>9. CASE WaitEnds
  BY <1>0, <1>9 DEF WaitEnds, At, ForceOff
<1>10. CASE Transmit
  BY <1>0, <1>10 DEF Transmit, At, ForceOff
<1>11. QED
  BY <1>1, <1>2, <1>3, <1>4, <1>5, <1>6, <1>7, <1>8, <1>9, <1>10
     DEF Next, Radio, Handler, Loop, Exchanges

\* and the place of the loop.
LEMMA LoopTypeKeeps ==
  ASSUME IInv, Next
  PROVE  LoopTypeOK'
<1> USE DEF LoopTypeOK, radioVars, irqVars, handVars, loopVars, ghostVars, Reading
<1>0. LoopTypeOK
  BY DEF IInv, TypeOK
<1>1. CASE Arm
  BY <1>0, <1>1 DEF Arm, At
<1>2. CASE Take
  BY <1>0, <1>2 DEF Take, At
<1>3. CASE CopyStatus
  BY <1>0, <1>3 DEF CopyStatus, At
<1>4. CASE CopyLen
  BY <1>0, <1>4 DEF CopyLen, At
<1>5. CASE Clear
  BY <1>0, <1>5 DEF Clear, At, Pending
<1>6. CASE Check
  BY <1>0, <1>6 DEF Check, At, Bad, NoFrame
<1>7. CASE Ignore
  BY <1>0, <1>7 DEF Ignore, At
<1>8. CASE Answer
  BY <1>0, <1>8 DEF Answer, At, ForceOff
<1>9. CASE RangeCmd
  BY <1>0, <1>9 DEF RangeCmd, At, ForceOff
<1>10. CASE Batch
  BY <1>0, <1>10 DEF Batch, At, ForceOff
<1>11. CASE TurnedOff
  BY <1>0, <1>11 DEF TurnedOff, At
<1>12. CASE ClearStatus
  BY <1>0, <1>12 DEF ClearStatus, At, EnterClears, Bits
<1>13. CASE Mask
  BY <1>0, <1>13 DEF Mask, At
<1>14. CASE Poll
  BY <1>0, <1>14 DEF Poll, At
<1>15. CASE WaitSees
  BY <1>0, <1>15 DEF WaitSees, At
<1>16. CASE WaitFails
  BY <1>0, <1>16 DEF WaitFails, At
<1>17. CASE Leave
  BY <1>0, <1>17 DEF Leave, At
<1>18. CASE Receives \/ CiaDone \/ HandlerStarts \/ HandlerEnds \/ IsrReads \/ IsrOk \/
              IsrErr \/ Request
  BY <1>0, <1>18 DEF Receives, Raise, CiaDone, HandlerStarts, HandlerEnds, High, Idle,
     IsrReads, IsrOk, HandOff, IsrErr, Request
<1>19. CASE WaitEnds
  BY <1>0, <1>19 DEF WaitEnds, At, ForceOff
<1>20. CASE Transmit
  BY <1>0, <1>20 DEF Transmit, At, ForceOff
<1>21. QED
  BY <1>1, <1>2, <1>3, <1>4, <1>5, <1>6, <1>7, <1>8, <1>9, <1>10, <1>11, <1>12, <1>13,
     <1>14, <1>15, <1>16, <1>17, <1>18, <1>19, <1>20
     DEF Next, Radio, Handler, Loop, Exchanges

\* The enables follow the loop.
LEMMA EnablesKeep ==
  ASSUME IInv, Next
  PROVE  Enables'
<1> USE DEF TypeOK, Enables, RadioTypeOK, FlagsOK, EventsOK, LoopTypeOK, radioVars,
     irqVars, handVars, loopVars, ghostVars, Idle
<1>0. TypeOK /\ Enables
  BY DEF IInv, TypeOK
<1>1. CASE Receives
  BY <1>0, <1>1 DEF Receives, Raise
<1>2. CASE CiaDone
  BY <1>0, <1>2 DEF CiaDone, Raise
<1>3. CASE HandlerStarts
  BY <1>0, <1>3 DEF HandlerStarts
<1>4. CASE HandlerEnds
  BY <1>0, <1>4 DEF HandlerEnds, High, Idle
<1>5. CASE IsrReads
  BY <1>0, <1>5 DEF IsrReads, High
<1>6. CASE IsrOk
  BY <1>0, <1>6 DEF IsrOk, HandOff
<1>7. CASE IsrErr
  BY <1>0, <1>7 DEF IsrErr, HandOff
<1>8. CASE Arm
  BY <1>0, <1>8 DEF Arm, At
<1>9. CASE Take
  BY <1>0, <1>9 DEF Take, At
<1>10. CASE CopyStatus
  BY <1>0, <1>10 DEF CopyStatus, At
<1>11. CASE CopyLen
  BY <1>0, <1>11 DEF CopyLen, At
<1>12. CASE Clear
  BY <1>0, <1>12 DEF Clear, At, Pending
<1>13. CASE Check
  BY <1>0, <1>13 DEF Check, At, Bad, NoFrame
<1>14. CASE Ignore
  BY <1>0, <1>14 DEF Ignore, At
<1>15. CASE Answer
  BY <1>0, <1>15 DEF Answer, At, ForceOff
<1>16. CASE RangeCmd
  BY <1>0, <1>16 DEF RangeCmd, At, ForceOff
<1>17. CASE Batch
  BY <1>0, <1>17 DEF Batch, At, ForceOff
<1>18. CASE TurnedOff
  BY <1>0, <1>18 DEF TurnedOff, At
<1>19. CASE ClearStatus
  BY <1>0, <1>19 DEF ClearStatus, At, EnterClears, Bits
<1>20. CASE Mask
  BY <1>0, <1>20 DEF Mask, At
<1>21. CASE Poll
  BY <1>0, <1>21 DEF Poll, At
<1>22. CASE WaitSees
  BY <1>0, <1>22 DEF WaitSees, At
<1>23. CASE WaitFails
  BY <1>0, <1>23 DEF WaitFails, At
<1>24. CASE Leave
  BY <1>0, <1>24 DEF Leave, At
<1>25. CASE Request
  BY <1>0, <1>25 DEF Request
<1>26. CASE WaitEnds
  BY <1>0, <1>26 DEF WaitEnds, At, ForceOff
<1>27. CASE Transmit
  BY <1>0, <1>27 DEF Transmit, At, ForceOff
<1>28. QED
  BY <1>1, <1>2, <1>3, <1>4, <1>5, <1>6, <1>7, <1>8, <1>9, <1>10, <1>11, <1>12, <1>13,
     <1>14, <1>15, <1>16, <1>17, <1>18, <1>19, <1>20, <1>21, <1>22, <1>23, <1>24, <1>25,
     <1>26, <1>27
     DEF Next, Radio, Handler, Loop, Exchanges

\* An event waits until it is cleared.
LEMMA WaitingKeeps ==
  ASSUME IInv, Next
  PROVE  Waiting'
<1> USE DEF TypeOK, Waiting, RadioTypeOK, FlagsOK, EventsOK, LoopTypeOK, radioVars,
     irqVars, handVars, loopVars, ghostVars, Idle
<1>0. TypeOK /\ Waiting
  BY DEF IInv, TypeOK
<1>1. CASE IsrOk
  BY <1>0, <1>1 DEF IsrOk, HandOff
<1>2. CASE IsrErr
  BY <1>0, <1>2 DEF IsrErr, HandOff
<1>3. CASE Arm
  BY <1>0, <1>3 DEF Arm, At
<1>4. CASE Take
  BY <1>0, <1>4 DEF Take, At
<1>5. CASE CopyStatus
  BY <1>0, <1>5 DEF CopyStatus, At
<1>6. CASE CopyLen
  BY <1>0, <1>6 DEF CopyLen, At
<1>7. CASE Clear
  BY <1>0, <1>7 DEF Clear, At, Pending
<1>8. CASE Check
  BY <1>0, <1>8 DEF Check, At, Bad, NoFrame
<1>9. CASE Ignore
  BY <1>0, <1>9 DEF Ignore, At
<1>10. CASE Answer
  BY <1>0, <1>10 DEF Answer, At, ForceOff
<1>11. CASE RangeCmd
  BY <1>0, <1>11 DEF RangeCmd, At, ForceOff
<1>12. CASE Batch
  BY <1>0, <1>12 DEF Batch, At, ForceOff
<1>13. CASE TurnedOff
  BY <1>0, <1>13 DEF TurnedOff, At
<1>14. CASE ClearStatus
  BY <1>0, <1>14 DEF ClearStatus, At, EnterClears, Bits
<1>15. CASE Mask
  BY <1>0, <1>15 DEF Mask, At
<1>16. CASE Poll
  BY <1>0, <1>16 DEF Poll, At
<1>17. CASE WaitSees
  BY <1>0, <1>17 DEF WaitSees, At
<1>18. CASE WaitFails
  BY <1>0, <1>18 DEF WaitFails, At
<1>19. CASE Leave
  BY <1>0, <1>19 DEF Leave, At
<1>20. CASE Request
  BY <1>0, <1>20 DEF Request
<1>21. CASE Receives \/ CiaDone \/ HandlerStarts \/ HandlerEnds \/ IsrReads
  BY <1>0, <1>21 DEF Receives, Raise, CiaDone, HandlerStarts, HandlerEnds, High, Idle,
     IsrReads
<1>22. CASE WaitEnds
  BY <1>0, <1>22 DEF WaitEnds, At, ForceOff
<1>23. CASE Transmit
  BY <1>0, <1>23 DEF Transmit, At, ForceOff
<1>24. QED
  BY <1>1, <1>2, <1>3, <1>4, <1>5, <1>6, <1>7, <1>8, <1>9, <1>10, <1>11, <1>12, <1>13,
     <1>14, <1>15, <1>16, <1>17, <1>18, <1>19, <1>20, <1>21, <1>22, <1>23
     DEF Next, Radio, Handler, Loop, Exchanges

\* The copies are of one event.
LEMMA WholeKeeps ==
  ASSUME IInv, Next
  PROVE  Whole'
<1> USE DEF TypeOK, Waiting, Whole, RadioTypeOK, FlagsOK, EventsOK, LoopTypeOK,
     radioVars, irqVars, handVars, loopVars, ghostVars, EventIsWhole, Idle
<1>0. TypeOK /\ Waiting /\ Whole
  BY DEF IInv, TypeOK
<1>1. CASE IsrOk
  BY <1>0, <1>1 DEF IsrOk, HandOff
<1>2. CASE IsrErr
  BY <1>0, <1>2 DEF IsrErr, HandOff
<1>3. CASE Arm
  BY <1>0, <1>3 DEF Arm, At
<1>4. CASE Take
  BY <1>0, <1>4 DEF Take, At
<1>5. CASE CopyStatus
  BY <1>0, <1>5 DEF CopyStatus, At
<1>6. CASE CopyLen
  BY <1>0, <1>6 DEF CopyLen, At
<1>7. CASE Clear
  BY <1>0, <1>7 DEF Clear, At, Pending
<1>8. CASE Check
  BY <1>0, <1>8 DEF Check, At, Bad, NoFrame
<1>9. CASE Ignore
  BY <1>0, <1>9 DEF Ignore, At
<1>10. CASE Answer
  BY <1>0, <1>10 DEF Answer, At, ForceOff
<1>11. CASE RangeCmd
  BY <1>0, <1>11 DEF RangeCmd, At, ForceOff
<1>12. CASE Batch
  BY <1>0, <1>12 DEF Batch, At, ForceOff
<1>13. CASE TurnedOff
  BY <1>0, <1>13 DEF TurnedOff, At
<1>14. CASE ClearStatus
  BY <1>0, <1>14 DEF ClearStatus, At, EnterClears, Bits
<1>15. CASE Mask
  BY <1>0, <1>15 DEF Mask, At
<1>16. CASE Poll
  BY <1>0, <1>16 DEF Poll, At
<1>17. CASE WaitSees
  BY <1>0, <1>17 DEF WaitSees, At
<1>18. CASE WaitFails
  BY <1>0, <1>18 DEF WaitFails, At
<1>19. CASE Leave
  BY <1>0, <1>19 DEF Leave, At
<1>20. CASE Receives \/ CiaDone \/ HandlerStarts \/ HandlerEnds \/ IsrReads \/ Request
  BY <1>0, <1>20 DEF Receives, Raise, CiaDone, HandlerStarts, HandlerEnds, High, Idle,
     IsrReads, Request
<1>21. CASE WaitEnds
  BY <1>0, <1>21 DEF WaitEnds, At, ForceOff
<1>22. CASE Transmit
  BY <1>0, <1>22 DEF Transmit, At, ForceOff
<1>23. QED
  BY <1>1, <1>2, <1>3, <1>4, <1>5, <1>6, <1>7, <1>8, <1>9, <1>10, <1>11, <1>12, <1>13,
     <1>14, <1>15, <1>16, <1>17, <1>18, <1>19, <1>20, <1>21, <1>22
     DEF Next, Radio, Handler, Loop, Exchanges

\* Nothing is to come while the receiver is on.
LEMMA ReceiverKeeps ==
  ASSUME IInv, Next
  PROVE  Receiver'
<1> USE DEF TypeOK, Enables, Receiver, Exchange, RadioTypeOK, FlagsOK, EventsOK,
     LoopTypeOK, radioVars, irqVars, handVars, loopVars, ghostVars, Idle
<1>0. TypeOK /\ Enables /\ Receiver /\ Exchange
  BY DEF IInv, TypeOK
<1>1. CASE Receives
  BY <1>0, <1>1 DEF Receives, Raise
<1>2. CASE CiaDone
  BY <1>0, <1>2 DEF CiaDone, Raise
<1>3. CASE HandlerStarts
  BY <1>0, <1>3 DEF HandlerStarts
<1>4. CASE HandlerEnds
  BY <1>0, <1>4 DEF HandlerEnds, High, Idle
<1>5. CASE IsrReads
  BY <1>0, <1>5 DEF IsrReads, High
<1>6. CASE IsrOk
  BY <1>0, <1>6 DEF IsrOk, HandOff
<1>7. CASE IsrErr
  BY <1>0, <1>7 DEF IsrErr, HandOff
<1>8. CASE Arm
  BY <1>0, <1>8 DEF Arm, At
<1>9. CASE Take
  BY <1>0, <1>9 DEF Take, At
<1>10. CASE CopyStatus
  BY <1>0, <1>10 DEF CopyStatus, At
<1>11. CASE CopyLen
  BY <1>0, <1>11 DEF CopyLen, At
<1>12. CASE Clear
  BY <1>0, <1>12 DEF Clear, At, Pending
<1>13. CASE Check
  BY <1>0, <1>13 DEF Check, At, Bad, NoFrame
<1>14. CASE Ignore
  BY <1>0, <1>14 DEF Ignore, At
<1>15. CASE Answer
  BY <1>0, <1>15 DEF Answer, At, ForceOff
<1>16. CASE RangeCmd
  BY <1>0, <1>16 DEF RangeCmd, At, ForceOff
<1>17. CASE Batch
  BY <1>0, <1>17 DEF Batch, At, ForceOff
<1>18. CASE TurnedOff
  BY <1>0, <1>18 DEF TurnedOff, At
<1>19. CASE ClearStatus
  BY <1>0, <1>19 DEF ClearStatus, At, EnterClears, Bits
<1>20. CASE Mask
  BY <1>0, <1>20 DEF Mask, At
<1>21. CASE Poll
  BY <1>0, <1>21 DEF Poll, At
<1>22. CASE WaitSees
  BY <1>0, <1>22 DEF WaitSees, At
<1>23. CASE WaitFails
  BY <1>0, <1>23 DEF WaitFails, At
<1>24. CASE Leave
  BY <1>0, <1>24 DEF Leave, At
<1>25. CASE Request
  BY <1>0, <1>25 DEF Request
<1>26. CASE WaitEnds
  BY <1>0, <1>26 DEF WaitEnds, At, ForceOff
<1>27. CASE Transmit
  BY <1>0, <1>27 DEF Transmit, At, ForceOff
<1>28. QED
  BY <1>1, <1>2, <1>3, <1>4, <1>5, <1>6, <1>7, <1>8, <1>9, <1>10, <1>11, <1>12, <1>13,
     <1>14, <1>15, <1>16, <1>17, <1>18, <1>19, <1>20, <1>21, <1>22, <1>23, <1>24, <1>25,
     <1>26, <1>27
     DEF Next, Radio, Handler, Loop, Exchanges

\* What is told is of the last reception.
LEMMA LastOneKeeps ==
  ASSUME IInv, Next
  PROVE  LastOne'
<1> USE DEF TypeOK, Enables, Waiting, Receiver, LastOne, RadioTypeOK, FlagsOK,
     EventsOK, LoopTypeOK, radioVars, irqVars, handVars, loopVars, ghostVars, Reading,
     Idle
<1>0. TypeOK /\ Enables /\ Waiting /\ Receiver /\ LastOne
  BY DEF IInv, TypeOK
<1>1. CASE Receives
  BY <1>0, <1>1 DEF Receives, Raise
<1>2. CASE CiaDone
  BY <1>0, <1>2 DEF CiaDone, Raise
<1>3. CASE HandlerStarts
  BY <1>0, <1>3 DEF HandlerStarts
<1>4. CASE HandlerEnds
  BY <1>0, <1>4 DEF HandlerEnds, High, Idle
<1>5. CASE IsrReads
  BY <1>0, <1>5 DEF IsrReads, High
<1>6. CASE IsrOk
  BY <1>0, <1>6 DEF IsrOk, HandOff
<1>7. CASE IsrErr
  <2>1. [isr.ev EXCEPT !.kind = "bad"].n = isr.ev.n
    BY <1>0 DEF Event
  <2>2. QED
    BY <1>0, <1>7, <2>1 DEF IsrErr, HandOff
<1>8. CASE Arm
  BY <1>0, <1>8 DEF Arm, At
<1>9. CASE Take
  BY <1>0, <1>9 DEF Take, At
<1>10. CASE CopyStatus
  BY <1>0, <1>10 DEF CopyStatus, At
<1>11. CASE CopyLen
  BY <1>0, <1>11 DEF CopyLen, At
<1>12. CASE Clear
  BY <1>0, <1>12 DEF Clear, At, Pending
<1>13. CASE Check
  BY <1>0, <1>13 DEF Check, At, Bad, NoFrame
<1>14. CASE Ignore
  BY <1>0, <1>14 DEF Ignore, At
<1>15. CASE Answer
  BY <1>0, <1>15 DEF Answer, At, ForceOff
<1>16. CASE RangeCmd
  BY <1>0, <1>16 DEF RangeCmd, At, ForceOff
<1>17. CASE Batch
  BY <1>0, <1>17 DEF Batch, At, ForceOff
<1>18. CASE TurnedOff
  BY <1>0, <1>18 DEF TurnedOff, At
<1>19. CASE ClearStatus
  BY <1>0, <1>19 DEF ClearStatus, At, EnterClears, Bits
<1>20. CASE Mask
  BY <1>0, <1>20 DEF Mask, At
<1>21. CASE Poll
  BY <1>0, <1>21 DEF Poll, At
<1>22. CASE WaitSees
  BY <1>0, <1>22 DEF WaitSees, At
<1>23. CASE WaitFails
  BY <1>0, <1>23 DEF WaitFails, At
<1>24. CASE Leave
  BY <1>0, <1>24 DEF Leave, At
<1>25. CASE Request
  BY <1>0, <1>25 DEF Request
<1>26. CASE WaitEnds
  BY <1>0, <1>26 DEF WaitEnds, At, ForceOff
<1>27. CASE Transmit
  BY <1>0, <1>27 DEF Transmit, At, ForceOff
<1>28. QED
  BY <1>1, <1>2, <1>3, <1>4, <1>5, <1>6, <1>7, <1>8, <1>9, <1>10, <1>11, <1>12, <1>13,
     <1>14, <1>15, <1>16, <1>17, <1>18, <1>19, <1>20, <1>21, <1>22, <1>23, <1>24, <1>25,
     <1>26, <1>27
     DEF Next, Radio, Handler, Loop, Exchanges

\* An exchange is of its own response.
LEMMA ExchangeKeeps ==
  ASSUME IInv, Next
  PROVE  Exchange'
<1> USE DEF TypeOK, Enables, Receiver, Exchange, RadioTypeOK, FlagsOK, EventsOK,
     LoopTypeOK, radioVars, irqVars, handVars, loopVars, ghostVars, ExchangeIsHonest,
     Idle
<1>0. TypeOK /\ Enables /\ Receiver /\ Exchange
  BY DEF IInv, TypeOK
<1>1. CASE Receives
  BY <1>0, <1>1 DEF Receives, Raise
<1>2. CASE CiaDone
  BY <1>0, <1>2 DEF CiaDone, Raise
<1>3. CASE IsrOk
  BY <1>0, <1>3 DEF IsrOk, HandOff
<1>4. CASE IsrErr
  BY <1>0, <1>4 DEF IsrErr, HandOff
<1>5. CASE Arm
  BY <1>0, <1>5 DEF Arm, At
<1>6. CASE Take
  BY <1>0, <1>6 DEF Take, At
<1>7. CASE CopyStatus
  BY <1>0, <1>7 DEF CopyStatus, At
<1>8. CASE CopyLen
  BY <1>0, <1>8 DEF CopyLen, At
<1>9. CASE Clear
  BY <1>0, <1>9 DEF Clear, At, Pending
<1>10. CASE Check
  BY <1>0, <1>10 DEF Check, At, Bad, NoFrame
<1>11. CASE Ignore
  BY <1>0, <1>11 DEF Ignore, At
<1>12. CASE Answer
  BY <1>0, <1>12 DEF Answer, At, ForceOff
<1>13. CASE RangeCmd
  BY <1>0, <1>13 DEF RangeCmd, At, ForceOff
<1>14. CASE Batch
  BY <1>0, <1>14 DEF Batch, At, ForceOff
<1>15. CASE TurnedOff
  BY <1>0, <1>15 DEF TurnedOff, At
<1>16. CASE ClearStatus
  BY <1>0, <1>16 DEF ClearStatus, At, EnterClears, Bits
<1>17. CASE Mask
  BY <1>0, <1>17 DEF Mask, At
<1>18. CASE Poll
  BY <1>0, <1>18 DEF Poll, At
<1>19. CASE WaitSees
  BY <1>0, <1>19 DEF WaitSees, At
<1>20. CASE WaitFails
  BY <1>0, <1>20 DEF WaitFails, At
<1>21. CASE Leave
  BY <1>0, <1>21 DEF Leave, At
<1>22. CASE HandlerStarts \/ HandlerEnds \/ IsrReads \/ Request
  BY <1>0, <1>22 DEF HandlerStarts, HandlerEnds, High, Idle, IsrReads, Request
<1>23. CASE WaitEnds
  BY <1>0, <1>23 DEF WaitEnds, At, ForceOff
<1>24. CASE Transmit
  BY <1>0, <1>24 DEF Transmit, At, ForceOff
<1>25. QED
  BY <1>1, <1>2, <1>3, <1>4, <1>5, <1>6, <1>7, <1>8, <1>9, <1>10, <1>11, <1>12, <1>13,
     <1>14, <1>15, <1>16, <1>17, <1>18, <1>19, <1>20, <1>21, <1>22, <1>23, <1>24
     DEF Next, Radio, Handler, Loop, Exchanges

\* A high line is looked after.
LEMMA ServedKeeps ==
  ASSUME IInv, Next
  PROVE  Served'
<1> USE DEF TypeOK, Enables, Waiting, Receiver, Exchange, Served, RadioTypeOK, FlagsOK,
     EventsOK, LoopTypeOK, radioVars, irqVars, handVars, loopVars, ghostVars, Idle
<1>0. TypeOK /\ Enables /\ Waiting /\ Receiver /\ Exchange /\ Served
  BY DEF IInv, TypeOK
<1>1. CASE Receives
  BY <1>0, <1>1 DEF Receives, Raise
<1>2. CASE CiaDone
  BY <1>0, <1>2 DEF CiaDone, Raise
<1>3. CASE HandlerStarts
  BY <1>0, <1>3 DEF HandlerStarts
<1>4. CASE HandlerEnds
  BY <1>0, <1>4 DEF HandlerEnds, High, Idle
<1>5. CASE IsrReads
  BY <1>0, <1>5 DEF IsrReads, High
<1>6. CASE IsrOk
  BY <1>0, <1>6 DEF IsrOk, HandOff
<1>7. CASE IsrErr
  BY <1>0, <1>7 DEF IsrErr, HandOff
<1>8. CASE Arm
  BY <1>0, <1>8 DEF Arm, At
<1>9. CASE Take
  BY <1>0, <1>9 DEF Take, At
<1>10. CASE CopyStatus
  BY <1>0, <1>10 DEF CopyStatus, At
<1>11. CASE CopyLen
  BY <1>0, <1>11 DEF CopyLen, At
<1>12. CASE Clear
  BY <1>0, <1>12 DEF Clear, At, Pending
<1>13. CASE Check
  BY <1>0, <1>13 DEF Check, At, Bad, NoFrame
<1>14. CASE Ignore
  BY <1>0, <1>14 DEF Ignore, At
<1>15. CASE Answer
  BY <1>0, <1>15 DEF Answer, At, ForceOff
<1>16. CASE RangeCmd
  BY <1>0, <1>16 DEF RangeCmd, At, ForceOff
<1>17. CASE Batch
  BY <1>0, <1>17 DEF Batch, At, ForceOff
<1>18. CASE TurnedOff
  BY <1>0, <1>18 DEF TurnedOff, At
<1>19. CASE ClearStatus
  BY <1>0, <1>19 DEF ClearStatus, At, EnterClears, Bits
<1>20. CASE Mask
  BY <1>0, <1>20 DEF Mask, At
<1>21. CASE Poll
  BY <1>0, <1>21 DEF Poll, At
<1>22. CASE WaitSees
  BY <1>0, <1>22 DEF WaitSees, At
<1>23. CASE WaitFails
  BY <1>0, <1>23 DEF WaitFails, At
<1>24. CASE Leave
  BY <1>0, <1>24 DEF Leave, At
<1>25. CASE Request
  BY <1>0, <1>25 DEF Request
<1>26. CASE WaitEnds
  BY <1>0, <1>26 DEF WaitEnds, At, ForceOff
<1>27. CASE Transmit
  BY <1>0, <1>27 DEF Transmit, At, ForceOff
<1>28. QED
  BY <1>1, <1>2, <1>3, <1>4, <1>5, <1>6, <1>7, <1>8, <1>9, <1>10, <1>11, <1>12, <1>13,
     <1>14, <1>15, <1>16, <1>17, <1>18, <1>19, <1>20, <1>21, <1>22, <1>23, <1>24, <1>25,
     <1>26, <1>27
     DEF Next, Radio, Handler, Loop, Exchanges

-----------------------------------------------------------------------------

\* The invariant holds at the start,
LEMMA InitHolds == Init => IInv
<1> SUFFICES ASSUME Init
             PROVE  IInv
  OBVIOUS
<1> USE DEF Init
<1>1. RadioTypeOK
  BY DEF RadioTypeOK, Bits
<1>2. FlagsOK
  BY DEF FlagsOK
<1>3. EventsOK
  BY DEF EventsOK, Idle, Event
<1>4. LoopTypeOK
  BY DEF LoopTypeOK
<1>5. Enables /\ Waiting /\ Receiver
  BY DEF Enables, Waiting, Receiver, Idle
<1>6. Whole /\ LastOne /\ Exchange /\ Served
  BY DEF Whole, EventIsWhole, LastOne, Exchange, ExchangeIsHonest, Served, Idle
<1>7. QED
  BY <1>1, <1>2, <1>3, <1>4, <1>5, <1>6 DEF IInv, TypeOK

\* and every step keeps it.
LEMMA StepHolds == IInv /\ [Next]_vars => IInv'
<1>1. CASE IInv /\ Next
  BY <1>1, RadioTypeKeeps, FlagsKeep, EventsKeep, LoopTypeKeeps, EnablesKeep, WaitingKeeps,
     WholeKeeps, ReceiverKeeps, LastOneKeeps, ExchangeKeeps, ServedKeeps DEF IInv, TypeOK
<1>2. CASE IInv /\ UNCHANGED vars
  BY <1>2 DEF IInv, TypeOK, RadioTypeOK, FlagsOK, EventsOK, LoopTypeOK, Enables, Waiting,
     Whole, EventIsWhole, Receiver, LastOne, Exchange, ExchangeIsHonest, Served, vars,
     radioVars, irqVars, handVars, loopVars, ghostVars
<1>3. QED
  BY <1>1, <1>2

\* The strengthened invariant holds of every run, whatever the size of a batch.
THEOREM Invariance == Spec => []IInv
BY InitHolds, StepHolds, PTL DEF Spec

\* Every variable keeps to its values.
THEOREM TypeCorrect == Spec => []TypeOK
<1>1. IInv => TypeOK
  BY DEF IInv
<1>2. QED
  BY <1>1, Invariance, PTL

\* The status and the length that the anchor's loop takes are of one event.
THEOREM EventsAreWhole == Spec => []EventIsWhole
<1>1. IInv => EventIsWhole
  BY DEF IInv, Whole
<1>2. QED
  BY <1>1, Invariance, PTL

\* The guard of the callbacks turns away repeats only.
THEOREM NothingIsLost == Spec => []NothingLost
<1>1. IInv => NothingLost
  <2> SUFFICES ASSUME IInv, isr.at \in {"ok", "err"}, rx_pending
               PROVE  rx_len.n = isr.ev.n
    BY DEF NothingLost
  <2>1. pc \notin {"poll", "wait"}
    BY DEF IInv, Enables
  <2>2. QED
    BY <2>1 DEF IInv, LastOne
<1>2. QED
  BY <1>1, Invariance, PTL

\* A distance is the answer to the poll of its own exchange.
THEOREM ExchangesAreHonest == Spec => []ExchangeIsHonest
<1>1. IInv => ExchangeIsHonest
  BY DEF IInv, Exchange
<1>2. QED
  BY <1>1, Invariance, PTL

\* A loop that sleeps will be woken, but for the edge that NeverDeaf excepts.
THEOREM AlwaysHears == Spec => []NeverDeaf
<1>1. IInv => NeverDeaf
  <2> SUFFICES ASSUME IInv, pc = "take", ~rx_sem, ~missed, ~work, isr.at = "idle"
               PROVE  rx = "listen" /\ ien /\ gint /\ stat = {} /\ ~rx_pending
    BY DEF NeverDeaf
  <2>1. ien /\ gint /\ ~rx_pending
    BY DEF IInv, Enables, Waiting
  <2>2. stat = {}
    BY <2>1 DEF IInv, Served
  <2>3. rx = "listen"
    BY <2>2 DEF IInv, TypeOK, RadioTypeOK, Receiver, Served
  <2>4. QED
    BY <2>1, <2>2, <2>3
<1>2. QED
  BY <1>1, Invariance, PTL
=============================================================================

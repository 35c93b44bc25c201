----------------------------- MODULE RadioLoop -----------------------------
(***************************************************************************)
(* How a board's radio is shared: the radio and its status register, the *)
(* interrupt's work item with the driver's interrupt routine, the receive  *)
(* loop of slave, gateway and calibration image (uwb_slave.c,              *)
(* uwb_gateway.c, cal_run.c) and the ranging exchanges it makes as an      *)
(* initiator (ss_initiator.c), which poll the same register with the       *)
(* interrupts off.                                                         *)
(*                                                                         *)
(* The work item runs on the system workqueue, cooperative and above the   *)
(* loop, so it comes between any two steps of the loop and the loop takes  *)
(* none while it is due.  The radio comes between any two steps of either. *)
(* A frame is more than a millisecond on the air: where an event waits     *)
(* already when the receiver is started, none ends in the few statements   *)
(* before the loop has taken the event and looked at its length.           *)
(* The gateway's instants are in Superframe: here it may transmit whenever *)
(* it is about to arm the receiver, and its wait may end at any time.      *)
(***************************************************************************)
EXTENDS Integers

CONSTANTS
  Ids,    \* receptions are numbered modulo Ids
  NExch   \* exchanges of a batch

ASSUME RadioAssumption == Ids \in Nat \ {0} /\ NExch \in Nat

VARIABLES
  role,        \* "slave" or "cal"
  rx,          \* the receiver: off, listening, or awaiting a response
  stat,        \* SYS_STATUS, as far as it is about reception
  cia,         \* the diagnostics of the last good frame are still computed
  buf,         \* the receive buffer
  ien, gint,   \* RX interrupts enabled in the radio; the GPIO interrupt
  work,        \* the interrupt's work item is submitted
  isr,         \* where it runs, and what dwt_isr() has read
  rx_status, rx_len, rx_pending, rx_sem,
  pc, status, flen, rxready, req, left,
  ranged,      \* the exchange gave a distance
  answered,    \* a response came after its poll
  missed       \* an edge came while the loop had the GPIO interrupt off

radioVars == <<rx, stat, cia, buf>>
irqVars == <<ien, gint, work, isr>>
handVars == <<rx_status, rx_len, rx_pending, rx_sem>>
loopVars == <<pc, status, flen, rxready, req, left>>
ghostVars == <<ranged, answered, missed>>
vars == <<role, radioVars, irqVars, handVars, loopVars, ghostVars>>

\* What the good frames of a run are to this board: one it may answer, a
\* command to range, a response of somebody, or too short or long to be one.
Kind == {"poll", "cmd", "resp", "runt"}
NoFrame == {"runt", "bad"}             \* lengths the loop refuses
Event == [n : 0..(Ids - 1), kind : Kind \union {"bad"}, trailing : BOOLEAN]
Bits == {"good", "cia", "ciaerr", "err", "to"}
Ends == {"good", "ciaerr", "err", "to"}   \* what an exchange waits for

Idle == [at |-> "idle", ok |-> FALSE, err |-> FALSE,
         ev |-> [n |-> 0, kind |-> "bad", trailing |-> FALSE]]

Reading == {"status", "len", "clear", "check"}

RadioTypeOK ==
  /\ role \in {"slave", "gateway", "cal"} /\ rx \in {"off", "listen", "await"}
  /\ stat \subseteq Bits
  /\ buf \in [n : 0..(Ids - 1), kind : Kind \union {"bad"}]

FlagsOK ==
  /\ cia \in BOOLEAN /\ ien \in BOOLEAN /\ gint \in BOOLEAN /\ work \in BOOLEAN
  /\ rx_pending \in BOOLEAN /\ rx_sem \in BOOLEAN
  /\ rxready \in BOOLEAN /\ req \in BOOLEAN
  /\ ranged \in BOOLEAN /\ answered \in BOOLEAN /\ missed \in BOOLEAN

EventsOK ==
  /\ isr \in [at : {"idle", "pin", "ok", "err"}, ok : BOOLEAN, err : BOOLEAN, ev : Event]
  /\ rx_status \in Event /\ rx_len \in Event
  /\ status \in Event /\ flen \in Event

LoopTypeOK ==
  /\ pc \in Reading \union {"arm", "take", "handle", "off_tx", "off_enter",
                            "clear_status", "mask", "poll", "wait"}
  /\ left \in 0..NExch /\ (pc = "wait" => left > 0)

TypeOK == RadioTypeOK /\ FlagsOK /\ EventsOK /\ LoopTypeOK

Init ==
  /\ role \in {"slave", "gateway", "cal"}
  /\ rx = "off" /\ stat = {} /\ cia = FALSE /\ buf = [n |-> 0, kind |-> "bad"]
  /\ ien = TRUE /\ gint = TRUE /\ work = FALSE /\ isr = Idle
  /\ rx_status = Idle.ev /\ rx_len = Idle.ev /\ rx_pending = FALSE /\ rx_sem = FALSE
  /\ pc = "arm" /\ status = Idle.ev /\ flen = Idle.ev
  /\ rxready = FALSE /\ req = FALSE /\ left = 0
  /\ ranged = FALSE /\ answered = FALSE /\ missed = FALSE

-----------------------------------------------------------------------------
(***************************************************************************)
(* The radio.                                                              *)
(***************************************************************************)

\* The line is high while an enabled bit is set; its rising edge submits the
\* work item, unless the GPIO interrupt is off: then it is lost.
Raise(bits) ==
  LET rises == ien /\ stat = {}
  IN /\ stat' = stat \union bits
     /\ work' = (work \/ (rises /\ gint))
     /\ missed' = (missed \/ (rises /\ ~gint /\ pc = "off_tx"))
     /\ UNCHANGED <<ien, gint, isr>>

\* A reception ends, and the receiver with it: a good frame, whose timestamp
\* may be flagged bad, an error, or the timeout that the gateway and an exchange set.
Receives ==
  /\ rx # "off" /\ (rx = "listen" => pc \notin Reading /\ ~rx_sem)
  /\ rx' = "off"
  /\ \E n \in {(buf.n + 1) % Ids} :
       \/ \E kind \in Kind, flagged \in SUBSET {"ciaerr"} :
            /\ Raise({"good"} \union flagged)
            /\ buf' = [n |-> n, kind |-> kind] /\ cia' = TRUE
            /\ answered' = (answered \/ (rx = "await" /\ kind = "resp"))
       \/ \E bit \in {"err"} \union (IF rx = "await" \/ role = "gateway" THEN {"to"} ELSE {}) :
            /\ Raise({bit})
            /\ buf' = [n |-> n, kind |-> "bad"] /\ UNCHANGED <<cia, answered>>
  /\ UNCHANGED <<role, handVars, loopVars, ranged>>

\* CIADONE trails the good frame.
CiaDone ==
  /\ cia /\ cia' = FALSE /\ Raise({"cia"})
  /\ UNCHANGED <<role, rx, buf, handVars, loopVars, ranged, answered>>

-----------------------------------------------------------------------------
(***************************************************************************)
(* The work item: dwt_isr() while the line is high.                        *)
(***************************************************************************)

High == ien /\ stat # {}

HandlerStarts ==
  /\ work /\ isr.at = "idle"
  /\ work' = FALSE /\ isr' = [isr EXCEPT !.at = "pin"]
  /\ UNCHANGED <<role, radioVars, ien, gint, handVars, loopVars, ghostVars>>

HandlerEnds ==
  /\ isr.at = "pin" /\ ~High
  /\ isr' = Idle
  /\ UNCHANGED <<role, radioVars, ien, gint, work, handVars, loopVars, ghostVars>>

\* The routine decides on the status it reads here, not on a later one.
IsrReads ==
  /\ isr.at = "pin" /\ High
  /\ \E ok \in {stat \intersect {"good", "cia"} # {}}, err \in {stat \intersect {"err", "to"} # {}} :
       isr' = [at |-> IF ok THEN "ok" ELSE IF err THEN "err" ELSE "pin",
               ok |-> ok, err |-> err,
               ev |-> [n |-> buf.n, kind |-> buf.kind, trailing |-> "good" \notin stat]]
  /\ UNCHANGED <<role, radioVars, ien, gint, work, handVars, loopVars, ghostVars>>

HandOff_Unguarded(e) ==
  /\ rx_status' = e /\ rx_len' = e /\ rx_pending' = TRUE /\ rx_sem' = TRUE

\* A callback does nothing while an event waits for the loop.
HandOff(e) ==
  IF rx_pending THEN UNCHANGED handVars
  ELSE rx_status' = e /\ rx_len' = e /\ rx_pending' = TRUE /\ rx_sem' = TRUE

IsrOk ==
  /\ isr.at = "ok"
  /\ stat' = stat \ {"good", "cia", "ciaerr"}
  /\ HandOff(isr.ev)
  /\ isr' = [isr EXCEPT !.at = IF isr.err THEN "err" ELSE "pin"]
  /\ UNCHANGED <<role, rx, cia, buf, ien, gint, work, loopVars, ghostVars>>

IsrErr ==
  /\ isr.at = "err"
  /\ stat' = stat \ {"err", "to", "cia", "ciaerr"}
  /\ HandOff([isr.ev EXCEPT !.kind = "bad"])
  /\ isr' = [isr EXCEPT !.at = "pin"]
  /\ UNCHANGED <<role, rx, cia, buf, ien, gint, work, loopVars, ghostVars>>

-----------------------------------------------------------------------------
(***************************************************************************)
(* The loop.                                                               *)
(***************************************************************************)

At(l) == pc = l /\ ~work /\ isr.at = "idle"

\* rx_arm().  CIA gives up the last frame.  In the calibration image a batch
\* goes on to the event that was there before it.
Arm ==
  /\ At("arm")
  /\ rx' = "listen" /\ cia' = FALSE
  /\ pc' = IF rxready THEN "len" ELSE "take"
  /\ rx_sem' = (rx_sem /\ ~rxready) /\ rxready' = FALSE
  /\ UNCHANGED <<role, stat, buf, irqVars, rx_status, rx_len, rx_pending,
                 status, flen, req, left, ghostVars>>

Take ==
  /\ At("take") /\ rx_sem /\ ~req
  /\ rx_sem' = FALSE
  /\ pc' = IF role = "slave" THEN "status" ELSE "len"
  /\ UNCHANGED <<role, radioVars, irqVars, rx_status, rx_len, rx_pending,
                 status, flen, rxready, req, left, ghostVars>>

\* Only the slave keeps the status.
CopyStatus ==
  /\ At("status")
  /\ status' = rx_status /\ pc' = "len"
  /\ UNCHANGED <<role, radioVars, irqVars, handVars, flen, rxready, req, left, ghostVars>>

CopyLen ==
  /\ At("len")
  /\ flen' = rx_len /\ pc' = "clear"
  /\ UNCHANGED <<role, radioVars, irqVars, handVars, status, rxready, req, left, ghostVars>>

Pending_KeptIfBad(e) == e.kind \in NoFrame

\* What the loop leaves of rx_pending, whatever the event was.
Pending(e) == FALSE

Clear ==
  /\ At("clear")
  /\ rx_pending' = Pending(flen) /\ pc' = "check"
  /\ UNCHANGED <<role, radioVars, irqVars, rx_status, rx_len, rx_sem,
                 status, flen, rxready, req, left, ghostVars>>

Bad_NoArm == "take"

\* Where an event without a frame leads.
Bad == "arm"

Check ==
  /\ At("check")
  /\ pc' = IF flen.kind \in NoFrame THEN Bad ELSE "handle"
  /\ UNCHANGED <<role, radioVars, irqVars, handVars, status, flen, rxready, req, left, ghostVars>>

\* dwt_forcetrxoff(): with the receiver on, the GPIO interrupt is off meanwhile.
ForceOff(meanwhile, next) ==
  /\ pc' = IF rx = "off" THEN next ELSE meanwhile
  /\ gint' = (rx = "off")

\* The gateway waits 400 ms at most, and starts again.
WaitEnds ==
  /\ At("take") /\ role = "gateway" /\ ~rx_sem
  /\ ForceOff("off_tx", "arm")
  /\ UNCHANGED <<role, radioVars, ien, work, isr, handVars,
                 status, flen, rxready, req, left, ghostVars>>

\* It transmits a beacon, or a step of the survey, before it arms the receiver.
Transmit ==
  /\ At("arm") /\ role = "gateway"
  /\ ForceOff("off_tx", "arm")
  /\ UNCHANGED <<role, radioVars, ien, work, isr, handVars,
                 status, flen, rxready, req, left, ghostVars>>

\* The frame in the buffer is nobody's, or this board may not answer it.
Ignore ==
  /\ At("handle") /\ pc' = "arm"
  /\ UNCHANGED <<role, radioVars, irqVars, handVars, status, flen, rxready, req, left, ghostVars>>

\* It answers: whichever the way, the transmitter takes over from a receiver
\* that is still on.
Answer ==
  /\ At("handle") /\ buf.kind = "poll"
  /\ ForceOff("off_tx", "arm")
  /\ UNCHANGED <<role, radioVars, ien, work, isr, handVars,
                 status, flen, rxready, req, left, ghostVars>>

\* An anchor is told to range with a peer.
RangeCmd ==
  /\ At("handle") /\ role = "slave" /\ buf.kind = "cmd"
  /\ left' = NExch /\ ForceOff("off_enter", "clear_status")
  /\ UNCHANGED <<role, radioVars, ien, work, isr, handVars,
                 status, flen, rxready, req, ghostVars>>

\* The calibration image is asked for a batch, perhaps with an event waiting.
Request ==
  /\ role = "cal" /\ req' = TRUE
  /\ UNCHANGED <<role, radioVars, irqVars, handVars,
                 pc, status, flen, rxready, left, ghostVars>>

Batch ==
  /\ At("take") /\ req /\ req' = FALSE
  /\ rxready' = rx_sem
  /\ left' = NExch /\ ForceOff("off_enter", "clear_status")
  /\ UNCHANGED <<role, radioVars, ien, work, isr, handVars, status, flen, ghostVars>>

TurnedOff ==
  /\ pc \in {"off_tx", "off_enter"} /\ At(pc)
  /\ rx' = "off" /\ gint' = TRUE
  /\ pc' = IF pc = "off_tx" THEN "arm" ELSE "clear_status"
  /\ UNCHANGED <<role, stat, cia, buf, ien, work, isr, handVars,
                 status, flen, rxready, req, left, ghostVars>>

-----------------------------------------------------------------------------
(***************************************************************************)
(* The exchanges.                                                          *)
(***************************************************************************)

EnterClears_NotGood == {"ciaerr", "err", "to"}

\* What ss_initiator_enter() clears of the status.
EnterClears == {"good", "cia", "ciaerr", "err", "to"}

ClearStatus ==
  /\ At("clear_status")
  /\ stat' = stat \ EnterClears /\ pc' = "mask"
  /\ UNCHANGED <<role, rx, cia, buf, irqVars, handVars,
                 status, flen, rxready, req, left, ghostVars>>

Mask ==
  /\ At("mask")
  /\ ien' = FALSE /\ pc' = "poll"
  /\ ranged' = FALSE /\ answered' = FALSE
  /\ UNCHANGED <<role, radioVars, gint, work, isr, handVars,
                 status, flen, rxready, req, left, missed>>

\* The poll goes out and the receiver comes on for the response, or it is
\* refused or not confirmed and the exchange is over.
Poll ==
  /\ At("poll") /\ left > 0
  /\ ranged' = FALSE /\ answered' = FALSE /\ cia' = FALSE
  /\ \/ rx' = "await" /\ pc' = "wait" /\ left' = left
     \/ rx' = "off" /\ pc' = "poll" /\ left' = left - 1
  /\ UNCHANGED <<role, stat, buf, irqVars, handVars, status, flen, rxready, req, missed>>

\* A good frame is taken, and is a distance if it is a response.  The sleep
\* after every exchange outlasts CIA.
WaitSees ==
  /\ At("wait") /\ "good" \in stat
  /\ stat' = stat \ {"good"} /\ ranged' = (buf.kind = "resp")
  /\ cia' = FALSE /\ left' = left - 1 /\ pc' = "poll"
  /\ UNCHANGED <<role, rx, buf, irqVars, handVars,
                 status, flen, rxready, req, answered, missed>>

\* An error, a timeout, or nothing for RX_DONE_TIMEOUT_MS.
WaitFails ==
  /\ At("wait") /\ "good" \notin stat
  /\ rx' = "off" /\ stat' = stat \ {"ciaerr", "err", "to"}
  /\ cia' = FALSE /\ left' = left - 1 /\ pc' = "poll"
  /\ UNCHANGED <<role, buf, irqVars, handVars, status, flen, rxready, req, ghostVars>>

\* The batch is over, on the anchor perhaps by its deadline.
Leave ==
  /\ At("poll") /\ (left = 0 \/ role = "slave")
  /\ rx' = "off" /\ stat' = {} /\ ien' = TRUE /\ pc' = "arm"
  /\ left' = 0 /\ ranged' = FALSE /\ answered' = FALSE
  /\ UNCHANGED <<role, cia, buf, gint, work, isr, handVars,
                 status, flen, rxready, req, missed>>

-----------------------------------------------------------------------------
Radio == Receives \/ CiaDone
Handler == HandlerStarts \/ HandlerEnds \/ IsrReads \/ IsrOk \/ IsrErr
Exchanges == ClearStatus \/ Mask \/ Poll \/ WaitSees \/ WaitFails \/ Leave
Loop ==
  \/ Arm \/ Take \/ CopyStatus \/ CopyLen \/ Clear \/ Check
  \/ Ignore \/ Answer \/ RangeCmd \/ Batch \/ TurnedOff \/ WaitEnds \/ Transmit
  \/ Exchanges

Next == Radio \/ Handler \/ Loop \/ Request

Spec == Init /\ [][Next]_vars

-----------------------------------------------------------------------------
(***************************************************************************)
(* Properties.                                                             *)
(***************************************************************************)

\* The status and the length the slave takes with an event are of one event,
\* although a second callback may come between the two copies (uwb_slave.c).
EventIsWhole == role = "slave" /\ pc \in {"clear", "check", "handle"} => status = flen

\* The guard turns away only the repeats of a reception: what it refuses is
\* never the first that is heard of a frame or of an error (cb_rx_ok()).
NothingLost == isr.at \in {"ok", "err"} /\ rx_pending => rx_len.n = isr.ev.n

\* An exchange gives a distance if and only if a response came after its own
\* poll: no earlier reception is taken for one, and none is taken away by the
\* interrupt routine, which clears the same bits (ss_initiator.c).
ExchangeIsHonest == pc = "poll" => ranged = answered

\* A loop that sleeps will be woken, and the gateway's not by its 400 ms alone:
\* an interrupt is under way, or the receiver is on, the interrupt can come and the callbacks are not shut out.
\* The exception is missed: dwt_forcetrxoff() turns the GPIO interrupt off, and
\* a frame that ends just then leaves the line high without an edge.  A batch
\* survives that, an answer given while the receiver was on does not, nor does the
\* gateway's wait, whose end arms a receiver that nobody listens to any more.
NeverDeaf ==
  pc = "take" /\ ~rx_sem /\ ~req /\ ~missed =>
    \/ work \/ isr.at # "idle"
    \/ rx = "listen" /\ ien /\ gint /\ stat = {} /\ ~rx_pending
=============================================================================

------------------------------ MODULE AposNode ------------------------------
(***************************************************************************)
(* The anchors' side of the survey (apos_node.c), for all anchors at once: *)
(* every variable is a function of the anchor's short address.             *)
(*                                                                         *)
(* The SLAVE loop handles one frame to the end before it arms the receiver *)
(* again.  So an anchor that still owes a reply - it sleeps out its        *)
(* stagger slot, or runs a batch - hears nothing, and out[a] holds that    *)
(* reply until it is sent.  A frame that a handler refuses changes         *)
(* nothing, except where the query of the window closes it.                *)
(*                                                                         *)
(* A position is the session whose survey it comes from, or NoSession for  *)
(* none: all nodes of one survey lie in one frame.                         *)
(***************************************************************************)
EXTENDS Integers

CONSTANTS Anchor, Session, NoSession

VARIABLES
  win,        \* window_session; NoSession when closed
  expired,    \* window_deadline_ms has passed
  ram,        \* the loop's snapshot of the configuration, and the singleton
  nvs,        \* what uwb_store has on flash
  out         \* the reply owed to the gateway

nodeVars == <<win, expired, ram, nvs, out>>

NoReply == [kind |-> "none"]

\* `left' is how often a reply that would not transmit is still retried.
EnumRsp(s) == [kind |-> "enum", session |-> s, left |-> 1]
RangeRsp(s, peer, usable) ==
  [kind |-> "range", session |-> s, peer |-> peer, usable |-> usable, left |-> 1]
SetposAck(s, ok) == [kind |-> "ack", session |-> s, ok |-> ok, left |-> 0]

Reply ==
  {NoReply}
    \cup {EnumRsp(s) : s \in Session}
    \cup {RangeRsp(s, p, u) : s \in Session, p \in Anchor, u \in BOOLEAN}
    \cup {SetposAck(s, ok) : s \in Session, ok \in BOOLEAN}
    \cup {[EnumRsp(s) EXCEPT !.left = 0] : s \in Session}
    \cup {[RangeRsp(s, p, u) EXCEPT !.left = 0] :
            s \in Session, p \in Anchor, u \in BOOLEAN}

TypeOK ==
  /\ win \in [Anchor -> Session \cup {NoSession}]
  /\ expired \in [Anchor -> BOOLEAN]
  /\ ram \in [Anchor -> Session \cup {NoSession}]
  /\ nvs \in [Anchor -> Session \cup {NoSession}]
  /\ out \in [Anchor -> Reply]

Init ==
  /\ win = [a \in Anchor |-> NoSession]
  /\ expired = [a \in Anchor |-> FALSE]
  /\ ram = [a \in Anchor |-> NoSession]
  /\ nvs = [a \in Anchor |-> NoSession]
  /\ out = [a \in Anchor |-> NoReply]

Listening(a) == out[a] = NoReply

\* What apos_node_window_open() answers.
WindowOpen(a) == win[a] # NoSession /\ ~expired[a]

\* A peer's poll is answered by an anchor that has a position or is itself in
\* a survey window.
AnswersPolls(a) == Listening(a) /\ (WindowOpen(a) \/ ram[a] # NoSession)

-----------------------------------------------------------------------------
(* The handlers.  H is the set of anchors that hear the frame. *)

OnSurveyBegin(H, s) ==
  /\ H \subseteq {a \in Anchor : Listening(a)}
  /\ win' = [a \in Anchor |-> IF a \in H THEN s ELSE win[a]]
  /\ expired' = [a \in Anchor |-> a \notin H /\ expired[a]]
  /\ out' = [a \in Anchor |-> IF a \in H THEN EnumRsp(s) ELSE out[a]]
  /\ UNCHANGED <<ram, nvs>>

OnSurveyEnd(H, s) ==
  /\ H \subseteq {a \in Anchor : Listening(a)}
  /\ win' = [a \in Anchor |-> IF a \in H /\ win[a] = s THEN NoSession ELSE win[a]]
  /\ expired' = [a \in Anchor |-> expired[a] /\ ~(a \in H /\ win[a] = s)]
  /\ UNCHANGED <<ram, nvs, out>>

\* The session alone is compared: the deadline is not looked at.
SetposAccepted(a, s) == s = win[a]

\* The singleton and the snapshot take the position before it is saved; the
\* acknowledgement says whether the save worked.
SavedPos_Never(a, s, ok) == nvs
SavedPos(a, s, ok) == IF ok THEN [nvs EXCEPT ![a] = s] ELSE nvs

OnSetpos(a, s, ok) ==
  /\ Listening(a)
  /\ SetposAccepted(a, s)
  /\ expired' = [expired EXCEPT ![a] = FALSE]
  /\ ram' = [ram EXCEPT ![a] = s]
  /\ nvs' = SavedPos(a, s, ok)
  /\ out' = [out EXCEPT ![a] = SetposAck(s, ok)]
  /\ UNCHANGED win

OnSetposRefused(a, s) ==
  /\ Listening(a)
  /\ ~SetposAccepted(a, s)
  /\ UNCHANGED nodeVars

\* The query of an expired window closes it.
Closed(a) == [win EXCEPT ![a] = IF WindowOpen(a) THEN win[a] ELSE NoSession]

\* A batch against a peer that answers gives a usable mean or too few
\* exchanges; against one that does not, never a usable one.
OnRangeCmd(a, s, peer, usable) ==
  /\ Listening(a)
  /\ WindowOpen(a) /\ s = win[a]
  /\ usable => AnswersPolls(peer)
  /\ expired' = [expired EXCEPT ![a] = FALSE]
  /\ out' = [out EXCEPT ![a] = RangeRsp(s, peer, usable)]
  /\ UNCHANGED <<win, ram, nvs>>

OnRangeCmdRefused(a, s) ==
  /\ Listening(a)
  /\ ~(WindowOpen(a) /\ s = win[a])
  /\ win' = Closed(a)
  /\ expired' = [expired EXCEPT ![a] = expired[a] /\ WindowOpen(a)]
  /\ UNCHANGED <<ram, nvs, out>>

\* The reply leaves the radio, or not.  `again': the transmission reported a
\* failure, whether or not the frame went out, and is retried.
SendReply(a, again) ==
  /\ ~Listening(a)
  /\ again => out[a].left > 0
  /\ out' = [out EXCEPT ![a] = IF again THEN [out[a] EXCEPT !.left = 0]
                                        ELSE NoReply]
  /\ UNCHANGED <<win, expired, ram, nvs>>

\* window_deadline_ms passes.
Lapse(a) ==
  /\ WindowOpen(a)
  /\ expired' = [expired EXCEPT ![a] = TRUE]
  /\ UNCHANGED <<win, ram, nvs, out>>

\* Any frame that is not the survey's makes the SLAVE loop ask for the window.
QueryWindow(a) ==
  /\ Listening(a)
  /\ win[a] # NoSession /\ expired[a]
  /\ win' = Closed(a)
  /\ expired' = [expired EXCEPT ![a] = FALSE]
  /\ UNCHANGED <<ram, nvs, out>>

Reboot(a) ==
  /\ win' = [win EXCEPT ![a] = NoSession]
  /\ expired' = [expired EXCEPT ![a] = FALSE]
  /\ ram' = [ram EXCEPT ![a] = nvs[a]]
  /\ out' = [out EXCEPT ![a] = NoReply]
  /\ UNCHANGED nvs
=============================================================================

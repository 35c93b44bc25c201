------------------------------- MODULE GwTags -------------------------------
(***************************************************************************)
(* The seats of the gateway (GwCore) and the tags that live by them, over  *)
(* an air that loses frames, with a gateway that may lose power.           *)
(*                                                                         *)
(* The tag's program is not part of the repository.  It is modelled from   *)
(* what the gateway expects of it, and with no more discipline than that:  *)
(* it asks for a seat whenever it likes (uwb_frame_is_join), takes the     *)
(* address of a GRANT it hears, sends from that address until it hears     *)
(* another, leaves, starts over or dies - and it does not notice that its  *)
(* lease has run out or that the gateway was restarted.                    *)
(***************************************************************************)
EXTENDS GwCore

VARIABLES
  mine,       \* the address each tag takes for its own; 0 for none
  silent,     \* the tags that are gone for good
  restarted,  \* history: the gateway lost power
  wrapped     \* history: the pool's cursor has been round, since power-up

tagVars == <<mine, silent, restarted, wrapped>>
systemVars == <<coreVars, tagVars>>

TagsInit ==
  /\ Init
  /\ mine = [e \in Eui |-> 0]
  /\ silent = {}
  /\ restarted = FALSE /\ wrapped = FALSE

\* The tag's JOIN is heard.  Its GRANT, that names the seat's address, is
\* missed by its delayed transmission, or by the tag, or adopted.
Join(e) ==
  /\ e \notin silent
  /\ \E i \in Slot :
       /\ Rejoin(e, i) \/ \E a \in Pool : JoinNew(e, i, a)
       /\ mine' \in {mine, [mine EXCEPT ![e] = seats'[i].addr]}
  /\ wrapped' = (wrapped \/ next_short_addr' < next_short_addr)
  /\ UNCHANGED <<silent, restarted>>

TagKeepalive(e) ==
  /\ e \notin silent
  /\ Keepalive(mine[e])
  /\ UNCHANGED tagVars

\* The tag leaves; the gateway may not hear it.
TagRelease(e) ==
  /\ e \notin silent
  /\ Release(mine[e]) \/ UNCHANGED coreVars
  /\ mine' = [mine EXCEPT ![e] = 0]
  /\ UNCHANGED <<silent, restarted, wrapped>>

TagDies(e) ==
  /\ silent' = silent \cup {e}
  /\ UNCHANGED <<coreVars, mine, restarted, wrapped>>

\* Every superframe ends, whatever was received in it.
Superframe == Tick /\ UNCHANGED tagVars

GatewayRestart ==
  /\ Restart
  /\ restarted' = TRUE
  /\ UNCHANGED <<mine, silent, wrapped>>

TagsNext ==
  \/ \E e \in Eui : Join(e) \/ TagKeepalive(e) \/ TagRelease(e) \/ TagDies(e)
  \/ Superframe
  \/ GatewayRestart

TagsSpec == TagsInit /\ [][TagsNext]_systemVars /\ WF_systemVars(Superframe)

-----------------------------------------------------------------------------

\* A fix sent from tag e's address is published under another tag's identity.
Mistaken(e) == \E i \in Slot : HasAddr(i, mine[e]) /\ seats[i].eui # e

\* Short of a restart, or of a full turn of the pool, a tag that goes on under
\* an address it has lost is taken for nobody - never for another tag, whose
\* lease it would renew and under whose identity its fixes would be published.
StragglersUnmistaken ==
  ~restarted /\ ~wrapped => \A e \in Eui : ~Mistaken(e)

\* The slot of a tag that is gone becomes free, unless another tag takes that
\* tag's address for its own and so keeps the lease alive.
SilentTagsLeave ==
  \A e \in Eui :
    e \in silent ~>
      \/ ~Seated(e)
      \/ \E o \in Eui \ silent, i \in Slot : HasEui(i, e) /\ HasAddr(i, mine[o])

\* A fix is published under its own tag's identity, or, when its sender has no
\* seat, under no tag's.
FixIsOwn == \A e \in Eui \ silent : ~Mistaken(e)
=============================================================================

------------------------------ MODULE MCGwTags ------------------------------
(***************************************************************************)
(* Two slots and three tags that want one, over a pool of three addresses, *)
(* so that the table fills up, the pool goes round, and its cursor meets   *)
(* addresses that are held.  The gateway restarts at most once, and at     *)
(* most one tag, whichever, falls silent.                                  *)
(***************************************************************************)
EXTENDS GwTags

CONSTANTS t1, t2, t3

MCEui == {t1, t2, t3}

MCNext ==
  \/ \E e \in Eui : Join(e) \/ TagKeepalive(e) \/ TagRelease(e)
  \/ silent = {} /\ \E e \in Eui : TagDies(e)
  \/ Superframe
  \/ ~restarted /\ GatewayRestart

MCSpec == TagsInit /\ [][MCNext]_systemVars /\ WF_systemVars(Superframe)
=============================================================================

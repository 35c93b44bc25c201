--------------------------- MODULE MCBoardConfig ---------------------------
(***************************************************************************)
(* One string of each kind, two values, three commands (as many as it      *)
(* takes to give a gateway its network) and one fault, with a SETPOS or a  *)
(* power cut between any two steps, and every order of the keys.           *)
(***************************************************************************)
EXTENDS BoardConfig

MCWifi == <<"ssid">>
MCMqtt == <<"user">>
=============================================================================

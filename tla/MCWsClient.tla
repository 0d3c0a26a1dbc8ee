----------------------------- MODULE MCWsClient -----------------------------
(* Instances of WsClient for TLC. *)
EXTENDS WsClient

OneOrTwo == {1, 2}
JustOne  == {1}
=============================================================================

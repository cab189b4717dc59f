-------------------------------- MODULE MCTester -------------------------------
(* One player and up to two sessions by either overload; the graph of          *)
(* proto_dice's get_rtp with a second round, which makes a cycle.              *)
EXTENDS Strategy

CONSTANTS alice, BET, platform

MCNodes == {"root", "bet"}
MCChildren == [n \in MCNodes |-> IF n = "root" THEN <<"bet">> ELSE <<"bet", "root">>]
===============================================================================

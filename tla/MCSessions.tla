------------------------------ MODULE MCSessions ------------------------------
(* Two session ids, two players and two casinos that the tables do not tell    *)
(* apart: what one session does to another.                                    *)
EXTENDS GameContract, TLC

CONSTANTS s1, s2, alice, bob, c1, c2, BET, platform

Symmetry == Permutations({s1, s2}) \cup Permutations({alice, bob})
===============================================================================

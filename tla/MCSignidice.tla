------------------------------ MODULE MCSignidice ------------------------------
(* Two sessions of one player at one casino, each with two full rounds of      *)
(* signidice, and every signature over either's digest offered to both.        *)
EXTENDS Events, TLC

CONSTANTS s1, s2, alice, c1, BET, platform

Symmetry == Permutations({s1, s2})
===============================================================================

------------------------------- MODULE MCGames --------------------------------
(* Each example game, with two sessions of one id one after the other, in BET  *)
(* or another token, raised by one or two; two rounds of multi_stub, whose     *)
(* types go up to 2; dice bets, numbers and rolls at the ends of their ranges. *)
EXTENDS Games

CONSTANTS s1, alice, c1, BET, KTN, platform

Amounts == 1..2
PayoutValues == 0..104
MaxWinValues == 0..104
Counts == {0, 1, 2, 4}
ChosenNumbers == {0, 1, 2, 51, 98, 99, 100}
RollValues == {0, 1, 2, 51, 52, 98, 99}
===============================================================================

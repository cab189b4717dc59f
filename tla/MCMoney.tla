-------------------------------- MODULE MCMoney --------------------------------
(* One session id, one casino, small amounts of every kind: what is paid.      *)
EXTENDS GameContract

CONSTANTS s1, alice, c1, BET, KTN, platform

Amounts == 1..2
PayoutValues == 0..6
MaxWinValues == {1, 3, 6}
===============================================================================

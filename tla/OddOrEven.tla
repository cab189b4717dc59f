------------------------------- MODULE OddOrEven ------------------------------
(* examples/odd_or_even: up to three rounds of double or half, raised by a     *)
(* deposit before each; instead of betting the player may take what is won.    *)
EXTENDS GameCalls

CONSTANT CoreToken

MAX_NUM_ROUNDS == 3

OnNewGame(row, own) ==
    IF own # NoOwn THEN {Fails}
    ELSE {Code([round |-> 1, prev_round_deposit |-> 0], <<require_action(FALSE)>>)}

WinOf(row) == (row.deposit * 3) \div 2

(* prev_round_deposit is zero_asset before the first roll, and comparing it    *)
(* with a deposit of another token fails.                                      *)
Comparable(row, own) == own.round > 1 \/ row.token = CoreToken

MaxWin(row) == update_max_win(row.token, WinOf(row))

Take(row, own) ==
    IF own.round = 1
    THEN Code(own, <<MaxWin(row), finish_game(row.token, row.deposit)>>)
    ELSE IF row.deposit = own.prev_round_deposit
    THEN Code(own, <<MaxWin(row), finish_game(row.token, WinOf(row))>>)
    ELSE Fails

(* Fault: no raise is asked for.                                               *)
Bet_SameStake(row, own) ==
    IF own.round <= MAX_NUM_ROUNDS /\ Comparable(row, own)
    THEN Code(own, <<MaxWin(row), require_random>>)
    ELSE Fails

Bet(row, own) ==
    IF /\ own.round <= MAX_NUM_ROUNDS
       /\ Comparable(row, own) /\ row.deposit > own.prev_round_deposit
    THEN Code(own, <<MaxWin(row), require_random>>)
    ELSE Fails

OnAction(row, own) ==
    IF own = NoOwn THEN {Fails} ELSE {Take(row, own), Bet(row, own)}

Rolled(row, own) ==
    [round |-> own.round + 1, prev_round_deposit |-> row.deposit]

(* An odd number wins.                                                         *)
OnRandom(row, own) ==
    IF own = NoOwn THEN {Fails}
    ELSE { Code(Rolled(row, own),
                IF own.round = MAX_NUM_ROUNDS
                THEN <<finish_game(row.token, WinOf(row))>>
                ELSE <<require_action(TRUE)>>),
           Code(Rolled(row, own), <<finish_game(row.token, row.deposit \div 2)>>) }

(* Fault: the row stays.                                                       *)
OnFinish_Keeps(own) == own

OnFinish(own) == NoOwn
===============================================================================

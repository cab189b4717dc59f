------------------------------- MODULE ProtoDice ------------------------------
(* examples/proto_dice: the player bets that a roll of 0..99 is above his      *)
(* number; the smaller the chance, the larger the profit.                      *)
EXTENDS GameCalls

CONSTANTS
    CoreToken,
    MinBet, MaxBet, MaxPayout,  \* the casino's parameters of the game
    Numbers,                    \* numbers a client sends, 0 and 100 included
    Rolls                       \* the rolls, of 0..99

(* asset(param, core_symbol) compared with a deposit of another token fails.   *)
check_bet(row) ==
    /\ row.token = CoreToken
    /\ MinBet <= row.deposit /\ row.deposit <= MaxBet

calc_max_win(row, num) ==
    LET win_chance == 100 - num
    IN IF win_chance > 98 THEN row.deposit
       ELSE MaxPayout \div win_chance + row.deposit

OnNewGame(row, own) ==
    IF check_bet(row) THEN {Code(own, <<require_action(FALSE)>>)} ELSE {Fails}

(* Fault: the max win is told to the casino after the roll.                    *)
OnAction_NoMaxWin(row, own) ==
    { IF num > 0 /\ num < 100 /\ own = NoOwn
      THEN Code([number |-> num], <<require_random>>)
      ELSE Fails : num \in Numbers }

OnAction(row, own) ==
    { IF num > 0 /\ num < 100 /\ own = NoOwn
      THEN Code([number |-> num],
                <<update_max_win(CoreToken, calc_max_win(row, num)), require_random>>)
      ELSE Fails : num \in Numbers }

Settled(row, own, roll) ==
    finish_game(CoreToken, IF own.number >= roll THEN 0
                           ELSE calc_max_win(row, own.number))

OnRandom(row, own) ==
    IF own = NoOwn THEN {Fails}
    ELSE {Code(own, <<Settled(row, own, roll)>>) : roll \in Rolls}

OnFinish(own) == NoOwn
===============================================================================

------------------------------ MODULE WinRaiseLose ----------------------------
(* examples/win_raise_lose: the player decides whether he wins, loses or       *)
(* raises.  There is no random value.                                          *)
EXTENDS GameCalls

WinCoef == 2

(* Fault: the first move is not asked for.                                     *)
OnNewGame_Silent(row, own) == {Code(own, <<>>)}

OnNewGame(row, own) == {Code(own, <<require_action(FALSE)>>)}

MaxWin(row) == update_max_win(row.token, row.deposit * WinCoef)

(* Fault: the win is reckoned on the deposit of the last decision.             *)
Win_Old(row, own) ==
    finish_game(row.token,
                WinCoef * (IF own = NoOwn THEN row.deposit ELSE own.deposit))

Win(row, own) == finish_game(row.token, WinCoef * row.deposit)

OnAction(row, own) ==
    LET roll == [deposit |-> row.deposit]
    IN { Code(roll, <<MaxWin(row), Win(row, own)>>),
         Code(roll, <<MaxWin(row), finish_game(row.token, 0)>>),
         Code(roll, <<MaxWin(row), require_action(TRUE)>>),
         Fails }

OnRandom(row, own) == {Code(own, <<>>)}

OnFinish(own) == NoOwn
===============================================================================

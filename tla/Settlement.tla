------------------------------ MODULE Settlement ------------------------------
(* What a session pays when it ends: handle_player_win and                   *)
(* handle_player_loss_or_tie of game_base.hpp, with the three transfer        *)
(* helpers they call.                                                         *)
(*                                                                            *)
(* A session's deposit is part real tokens, held by the game contract, and    *)
(* part bonus, which the casino only promised.  Every payment is split pro    *)
(* rata between the two parts, in 64-bit integer arithmetic.                  *)
EXTENDS Integers

CONSTANTS
    CoreToken,      \* the token bonuses may be given in (core_symbol, "BET")
    MaxAmount       \* the largest amount an asset holds (2^62 - 1 on chain)

ASSUME MaxAmountAssumption == MaxAmount \in Nat \ {0}

(* A row is a session record; only these fields of it are read here:          *)
(* deposit, bonus_deposit and token.                                          *)
RealDeposit(row) == row.deposit - row.bonus_deposit

(* asset * int64 / int64: the part of an amount that the bonus earned.        *)
(* Fault: rounded up instead of down.                                          *)
BonusShare_Up(amount, row) ==
    (amount * row.bonus_deposit + row.deposit - 1) \div row.deposit

BonusShare(amount, row) == (amount * row.bonus_deposit) \div row.deposit

(* asset's operator*= checks its 128-bit product against max_amount; its      *)
(* operator/= refuses to divide by zero.                                      *)
ShareComputable(amount, row) ==
    /\ amount * row.bonus_deposit <= MaxAmount
    /\ row.deposit # 0

(* transfer_bonus_from_casino refuses every token but the core one.           *)
BonusTokenOK(bonus, row) == bonus # 0 => row.token = CoreToken

(* The player made a profit.  The profit is the casino's to pay: the real     *)
(* part as tokens (onloss), the bonus part as a bonus (sesaddbon) together    *)
(* with the bonus deposit.  The game itself returns the real deposit.         *)
(* Fault: the reported payout leaves out the returned deposit.                 *)
PlayerWin_ReportsProfit(row, player_win) ==
    LET bonus_win == BonusShare(player_win, row)
        real_win  == player_win - bonus_win
    IN [payout     |-> row.deposit + player_win,
        onloss     |-> real_win,
        sesaddbon  |-> row.bonus_deposit + bonus_win,
        transfer   |-> RealDeposit(row),
        casino_win |-> 0,
        sespayout  |-> real_win]

PlayerWin(row, player_win) ==
    LET bonus_win == BonusShare(player_win, row)
        real_win  == player_win - bonus_win
    IN [payout     |-> row.deposit + player_win,
        onloss     |-> real_win,
        sesaddbon  |-> row.bonus_deposit + bonus_win,
        transfer   |-> RealDeposit(row),
        casino_win |-> 0,
        sespayout  |-> RealDeposit(row) + real_win]

PlayerWinAllowed(row, player_win) ==
    LET s == PlayerWin(row, player_win)
    IN /\ player_win > 0
       /\ ShareComputable(player_win, row)
       /\ s.sesaddbon <= MaxAmount
       /\ s.sespayout <= MaxAmount
       /\ BonusTokenOK(s.sesaddbon, row)

(* The player lost, tied or is refunded.  The game pays the real part of the  *)
(* payout to the player and the rest of the real deposit to the casino; the   *)
(* bonus part is re-issued by the casino and what is left of it is burned.    *)
PlayerLossOrTie(row, player_payout) ==
    LET bonus_payout == BonusShare(player_payout, row)
        real_payout  == player_payout - bonus_payout
    IN [payout     |-> player_payout,
        onloss     |-> 0,
        sesaddbon  |-> bonus_payout,
        transfer   |-> real_payout,
        casino_win |-> RealDeposit(row) - real_payout,
        sespayout  |-> real_payout]

PlayerLossOrTieAllowed(row, player_payout) ==
    /\ player_payout <= row.deposit
    /\ ShareComputable(player_payout, row)
    /\ BonusTokenOK(PlayerLossOrTie(row, player_payout).sesaddbon, row)

(* The sets settlements live in, for the type invariants of the modules that  *)
(* use them.                                                                  *)
Outcome == [payout : Int, onloss : Int, sesaddbon : Int, transfer : Int,
            casino_win : Int, sespayout : Int]

(* What an outcome o of a row's settlement owes, for the properties of the     *)
(* modules that settle.                                                        *)
PaysAll(o, row) ==
    /\ o.transfer >= 0 /\ o.onloss >= 0 /\ o.sesaddbon >= 0 /\ o.casino_win >= 0
    /\ o.payout = o.transfer + o.onloss + o.sesaddbon
    /\ o.transfer + o.casino_win = RealDeposit(row)
    /\ o.sespayout = o.transfer + o.onloss

RoundsUp(o, row) ==
    LET extra == (o.transfer + o.onloss) * row.deposit
                   - o.payout * RealDeposit(row)
    IN 0 <= extra /\ extra < row.deposit
===============================================================================

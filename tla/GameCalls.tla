------------------------------ MODULE GameCalls -------------------------------
(* What a game's callback does, as data: the row it leaves in the game's own   *)
(* table and the SDK calls it makes, in order.  Amounts are of a token, as the *)
(* SDK compares it with the session's.                                         *)
EXTENDS Integers, Sequences

require_action(allow_deposit) ==
    [call |-> "require_action", allow_deposit |-> allow_deposit]
require_random == [call |-> "require_random"]
update_max_win(token, amount) ==
    [call |-> "update_max_win", token |-> token, amount |-> amount]
finish_game(token, amount) ==
    [call |-> "finish_game", token |-> token, amount |-> amount]

(* An eosio::check of the game itself fails.                                   *)
check_fails == [call |-> "check"]

(* The game's own table has no row for the session.                            *)
NoOwn == [own |-> "none"]

Code(own, calls) == [own |-> own, calls |-> calls]

(* A callback that ends in a failed check.                                     *)
Fails == Code(NoOwn, <<check_fails>>)
===============================================================================

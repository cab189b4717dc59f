------------------------------- MODULE MultiStub ------------------------------
(* examples/multi_stub: the player names a number of rounds and then plays     *)
(* them; the last one takes the deposit.  Of event_numbers only the first      *)
(* entry and the length matter to the course of the game.                      *)
EXTENDS GameCalls

CONSTANTS
    CoreToken,
    MaxType,        \* numeric_limits<uint16_t>::max(), an action's largest type
    Params          \* parameters a client sends, 0 and too large ones included

Types == 0..MaxType

(* rolls.emplace fails when the session has a row.                             *)
OnNewGame(row, own) ==
    IF own # NoOwn THEN {Fails}
    ELSE {Code([rounds |-> 0, played |-> 0], <<require_action(FALSE)>>)}

(* Fault: more rounds than an action's type can count.                         *)
ActionAllowed_AnyCount(own, type, param) ==
    /\ own # NoOwn
    /\ type = own.played
    /\ own.played = 0 => param > 0

ActionAllowed(own, type, param) ==
    /\ own # NoOwn
    /\ type = own.played
    /\ own.played = 0 => param > 0 /\ param <= MaxType

OnAction(row, own) ==
    { IF ActionAllowed(own, type, param)
      THEN Code([rounds |-> IF own.played = 0 THEN param ELSE own.rounds,
                 played |-> own.played + 1],
                <<require_random>>)
      ELSE Fails : type \in Types, param \in Params }

(* Fault: one round too many is asked for.                                     *)
OnRandom_OneMore(row, own) ==
    IF own = NoOwn THEN {Fails}
    ELSE {Code(own, IF own.played <= own.rounds THEN <<require_action(FALSE)>>
                    ELSE <<finish_game(CoreToken, 0)>>)}

OnRandom(row, own) ==
    IF own = NoOwn THEN {Fails}
    ELSE {Code(own, IF own.played < own.rounds THEN <<require_action(FALSE)>>
                    ELSE <<finish_game(CoreToken, 0)>>)}

OnFinish(own) == NoOwn
===============================================================================

--------------------------------- MODULE Stub ---------------------------------
(* examples/stub: a game that only walks through the states and always takes   *)
(* the deposit.                                                                *)
EXTENDS GameCalls

CONSTANT CoreToken

OnNewGame(row, own) == {Code(NoOwn, <<require_action(FALSE)>>)}

(* Action types 0 and 1; any other does nothing.                               *)
OnAction(row, own) ==
    { Code(NoOwn, <<require_random>>),
      Code(NoOwn, <<require_action(FALSE)>>),
      Code(NoOwn, <<>>) }

OnRandom(row, own) == {Code(NoOwn, <<finish_game(CoreToken, 0)>>)}

OnFinish(own) == own
===============================================================================

-------------------------------- MODULE Games ---------------------------------
(* The example games on top of the SDK.  GameContract lets a callback make any *)
(* calls; here it makes the calls the deployed game's code makes, and no       *)
(* others, and the game keeps a table of its own, one row per session.         *)
EXTENDS GameContract, GameCalls

CONSTANTS
    GameNames,                  \* the games that may be deployed
    MaxType, Params,            \* of multi_stub
    MinBet, MaxBet, MaxPayout,  \* of proto_dice
    Numbers, Rolls

ASSUME GamesAssumption ==
    /\ GameNames \subseteq
         {"stub", "multi_stub", "odd_or_even", "proto_dice", "win_raise_lose"}
    /\ MaxType \in Nat /\ Params \subseteq Nat
    /\ MinBet \in Nat /\ MaxBet \in Nat /\ MaxPayout \in Nat
    /\ Numbers \subseteq Nat /\ Rolls \subseteq 0..99

VARIABLES
    game,       \* the deployed game
    own_table,  \* its table: ses_id -> own row, or NoOwn
    work        \* what is left of the running callback

gameVars == <<vars, game, own_table, work>>

St   == INSTANCE Stub
Mult == INSTANCE MultiStub
Odd  == INSTANCE OddOrEven
Dice == INSTANCE ProtoDice
Wrl  == INSTANCE WinRaiseLose

-------------------------------------------------------------------------------
(* The virtual methods: the codes a callback may run, over the inputs it may   *)
(* be given, from the session's row and the game's own.                        *)

on_new_game(row, own) ==
    CASE game = "stub"           -> St!OnNewGame(row, own)
      [] game = "multi_stub"     -> Mult!OnNewGame(row, own)
      [] game = "odd_or_even"    -> Odd!OnNewGame(row, own)
      [] game = "proto_dice"     -> Dice!OnNewGame(row, own)
      [] game = "win_raise_lose" -> Wrl!OnNewGame(row, own)

on_action(row, own) ==
    CASE game = "stub"           -> St!OnAction(row, own)
      [] game = "multi_stub"     -> Mult!OnAction(row, own)
      [] game = "odd_or_even"    -> Odd!OnAction(row, own)
      [] game = "proto_dice"     -> Dice!OnAction(row, own)
      [] game = "win_raise_lose" -> Wrl!OnAction(row, own)

on_random(row, own) ==
    CASE game = "stub"           -> St!OnRandom(row, own)
      [] game = "multi_stub"     -> Mult!OnRandom(row, own)
      [] game = "odd_or_even"    -> Odd!OnRandom(row, own)
      [] game = "proto_dice"     -> Dice!OnRandom(row, own)
      [] game = "win_raise_lose" -> Wrl!OnRandom(row, own)

on_finish(own) ==
    CASE game = "stub"           -> St!OnFinish(own)
      [] game = "multi_stub"     -> Mult!OnFinish(own)
      [] game = "odd_or_even"    -> Odd!OnFinish(own)
      [] game = "proto_dice"     -> Dice!OnFinish(own)
      [] game = "win_raise_lose" -> Wrl!OnFinish(own)

Idle == Code(NoOwn, <<>>)

-------------------------------------------------------------------------------
(* Calls.                                                                      *)

(* The SDK's check_only_states and amount checks, call by call.                *)
Accepted(row, c) ==
    \/ c.call = "require_action" /\ CanRequireAction(row)
    \/ c.call = "require_random" /\ CanRequireRandom(row)
    \/ c.call = "update_max_win" /\ c.token = row.token /\ CanUpdateMaxWin(row)
    \/ c.call = "finish_game" /\ c.token = row.token /\ CanFinish(row, c.amount)

Call(c) ==
    \/ c.call = "require_action" /\ RequireAction(c.allow_deposit)
    \/ c.call = "require_random" /\ RequireRandom
    \/ c.call = "update_max_win" /\ c.token = tx.row.token
         /\ UpdateMaxWin(c.amount)
    \/ c.call = "finish_game" /\ c.token = tx.row.token /\ FinishGame(c.amount)

(* An SDK action that may hand the session to the game's code.                 *)
Codes(callback, row, own) ==
    CASE callback = "on_new_game" -> on_new_game(row, own)
      [] callback = "on_action"   -> on_action(row, own)
      [] callback = "on_random"   -> on_random(row, own)

Enter(id) ==
    /\ work' \in IF tx' = NoTx THEN {Idle}
                 ELSE Codes(tx'.callback, tx'.row, own_table[id])
    /\ UNCHANGED own_table

(* finish_game ends in on_finish.                                              *)
MakeCall ==
    /\ tx # NoTx
    /\ work.calls # <<>>
    /\ Call(Head(work.calls))
    /\ work' = Code(IF tx'.row = NoRow THEN on_finish(work.own) ELSE work.own,
                    Tail(work.calls))
    /\ UNCHANGED own_table

GameReturn ==
    /\ tx # NoTx
    /\ work.calls = <<>>
    /\ Commit
    /\ own_table' = [own_table EXCEPT ![tx.ses_id] = work.own]
    /\ work' = Idle

GameAbort == Abort /\ work' = Idle /\ UNCHANGED own_table

(* close ends in on_finish too, but for a session that never started.          *)
GameClose(id) ==
    /\ Close(id)
    /\ own_table' = [own_table EXCEPT ![id] = IF sessions[id].state = "req_start" THEN @
                                  ELSE on_finish(@)]
    /\ UNCHANGED work

-------------------------------------------------------------------------------
GameInit ==
    /\ Init
    /\ game \in GameNames
    /\ own_table = [id \in SesIds |-> NoOwn]
    /\ work = Idle

GameStep ==
    \/ \E id \in SesIds :
         \/ Deposit(id) /\ UNCHANGED <<own_table, work>>
         \/ (Start(id) \/ Play(id)) /\ Enter(id)
         \/ GameClose(id)
    \/ MakeCall \/ GameReturn \/ GameAbort
    \/ Environment /\ UNCHANGED <<own_table, work>>

GameNext == GameStep /\ UNCHANGED game

GameSpec == GameInit /\ [][GameNext]_gameVars

-------------------------------------------------------------------------------
(* Properties.                                                                 *)

(* A game makes no other use of the SDK than GameContract allows for: what is  *)
(* checked and proved there holds of the game.  In particular it never returns *)
(* from on_new_game with a session that newgame could start a second time.     *)
SdkSpec == Spec

(* stub and multi_stub pay zero_asset, which is in the core token.             *)
PaysIn(token) == token = CoreToken \/ game \notin {"stub", "multi_stub"}

(* Once both signatures are in, the game asks nothing the SDK refuses: a       *)
(* refusal would leave the session waiting for a signature it can never use,   *)
(* until it expires and the casino pays for it.                                *)
RandomAccepted ==
    tx # NoTx /\ tx.callback = "on_random" /\ work.calls # <<>>
      /\ (tx.row # NoRow => PaysIn(tx.row.token))
    => tx.row # NoRow /\ Accepted(tx.row, Head(work.calls))

(* The game's own row goes with the session: one that outlived it would make   *)
(* on_new_game fail for every later session of that id, or lend it old rolls.  *)
OwnRowsLive ==
    \A id \in SesIds :
        own_table[id] # NoOwn => sessions[id] # NoRow /\ Started(sessions[id])

Announced(row, c) ==
    IF c.call = "update_max_win"
    THEN [row EXCEPT !.last_max_win = c.amount - row.deposit] ELSE row

Playable(row, calls) ==
    \A i \in DOMAIN calls :
        Accepted(IF i = 1 THEN row ELSE Announced(row, calls[i - 1]), calls[i])

(* Whenever it is the player's turn some move is accepted by the game and all  *)
(* its calls by the SDK: a player whose every move fails would run into the    *)
(* time-out, which takes the whole deposit.                                    *)
MoveLeft ==
    \A id \in SesIds :
        LET row == sessions[id] IN
        row # NoRow /\ row.state \in {"req_action", "req_allow_deposit"} =>
          LET moved == [row EXCEPT !.state = "req_action", !.acted = TRUE]
          IN \E code \in on_action(moved, own_table[id]) : Playable(moved, code.calls)

(* A game that lets the player win pays the win it announced, no less: what    *)
(* the casino set aside for the session is what the player could hope for.     *)
WinAsAnnounced ==
    receipt # NoReceipt /\ receipt.outcome.payout > receipt.row.deposit
    => receipt.outcome.payout = receipt.row.deposit + receipt.row.last_max_win

(* A multi_stub session never sees another round than the player asked for:    *)
(* while he may move, rounds are left, and it ends on the last one's random    *)
(* value, not before.                                                          *)
RoundsAsAsked ==
    game = "multi_stub" =>
      /\ \A id \in SesIds :
           LET row == sessions[id]
               own == own_table[id]
           IN row # NoRow /\ own # NoOwn /\ row.state = "req_action" =>
                own.played = 0 \/ own.played < own.rounds
      /\ tx # NoTx /\ tx.row = NoRow =>
           own_table[tx.ses_id].played = own_table[tx.ses_id].rounds

(* Every roll of odd_or_even is for a stake that grew: a bet after a win needs *)
(* a deposit above the one already won on, so nobody rolls twice on one stake, *)
(* and a third win ends the session instead of leaving a fourth round.         *)
RaisesStake ==
    game = "odd_or_even" =>
      \A id \in SesIds :
          LET row == sessions[id]
              own == own_table[id]
          IN row # NoRow /\ own # NoOwn =>
             /\ own.round <= Odd!MAX_NUM_ROUNDS
             /\ IF row.state \in {"req_signidice_part_1", "req_signidice_part_2"}
                THEN own.prev_round_deposit < row.deposit
                ELSE own.prev_round_deposit <= row.deposit

-------------------------------------------------------------------------------
(* multi_stub_tests.cpp:146, new_session_token_test: a session may be opened   *)
(* in a token other than BET (line 163 stakes 5 KEK).  Then its last round     *)
(* ends it, as it ends one in BET.                                             *)
OtherTokenFinishes ==
    tx # NoTx /\ tx.callback = "on_random" /\ tx.row # NoRow
      /\ tx.row.token # CoreToken /\ work.calls # <<>>
    => Accepted(tx.row, Head(work.calls))
===============================================================================

------------------------------ MODULE GamesProofs -------------------------------
(* Each of the example games is a game as GameContract has it: whatever it is  *)
(* sent, it makes calls that are among a callback's, and it does not return    *)
(* from on_new_game with a session that could be started again.  So the        *)
(* theorems about the contract hold of the contract each of them is linked to. *)
EXTENDS Games, GameContractProofs

SdkCalls ==
    [call : {"require_action"}, allow_deposit : BOOLEAN]
    \cup [call : {"require_random", "check"}]
    \cup [call : {"update_max_win", "finish_game"}, token : Tokens, amount : Nat]

(* proto_dice divides by what the number leaves of a hundred.                  *)
OwnOK(own) == game = "proto_dice" => own = NoOwn \/ own \in [number : 1..99]

CodeOK(code) == code.calls \in Seq(SdkCalls) /\ OwnOK(code.own)

(* What is left of an on_new_game that has not named the next state yet.       *)
AsksFirst(calls) == calls \in {<<require_action(FALSE)>>, <<check_fails>>}

Unstarted(t) == t.callback = "on_new_game" /\ t.row # NoRow /\ t.row.state = "req_start"

SdkInv ==
    /\ game \in GameNames
    /\ DOMAIN own_table = SesIds
    /\ \A id \in SesIds : OwnOK(own_table[id])
    /\ CodeOK(work)
    /\ tx # NoTx /\ Unstarted(tx) => AsksFirst(work.calls)

-------------------------------------------------------------------------------
(* The games.                                                                  *)

LEMMA CallSeqs ==
    /\ <<>> \in Seq(SdkCalls)
    /\ \A c \in SdkCalls : <<c>> \in Seq(SdkCalls)
    /\ \A c, d \in SdkCalls : <<c, d>> \in Seq(SdkCalls)
OBVIOUS

LEMMA CallTypes ==
    /\ \A b \in BOOLEAN : require_action(b) \in SdkCalls
    /\ require_random \in SdkCalls /\ check_fails \in SdkCalls
    /\ \A t \in Tokens, n \in Nat :
         update_max_win(t, n) \in SdkCalls /\ finish_game(t, n) \in SdkCalls
BY DEF SdkCalls, require_action, require_random, check_fails, update_max_win,
       finish_game

LEMMA CodeIsOK ==
    ASSUME NEW own, OwnOK(own), NEW calls \in Seq(SdkCalls)
    PROVE  CodeOK(Code(own, calls)) /\ Code(own, calls).calls = calls
BY DEF CodeOK, Code

LEMMA FailsIsOK == CodeOK(Fails) /\ AsksFirst(Fails.calls)
BY CallSeqs, CallTypes DEF CodeOK, OwnOK, Fails, Code, AsksFirst

LEMMA AskFirstIsOK ==
    ASSUME NEW own, OwnOK(own)
    PROVE  LET code == Code(own, <<require_action(FALSE)>>)
           IN CodeOK(code) /\ AsksFirst(code.calls)
BY CallSeqs, CallTypes, CodeIsOK DEF AsksFirst

(* What has to be shown of a game's callbacks.                                 *)
AllOK(codes) == \A code \in codes : CodeOK(code)
AllAskFirst(codes) == \A code \in codes : AsksFirst(code.calls)

LEMMA StubOK ==
    ASSUME NEW row \in Row, NEW own, game = "stub"
    PROVE  /\ AllOK(St!OnNewGame(row, own)) /\ AllAskFirst(St!OnNewGame(row, own))
           /\ AllOK(St!OnAction(row, own)) /\ AllOK(St!OnRandom(row, own))
           /\ OwnOK(St!OnFinish(own))
<1>1. \A o : OwnOK(o)  BY DEF OwnOK
<1>2. CoreToken \in Tokens /\ 0 \in Nat  BY SetsAssumption
<1>3. AllOK(St!OnNewGame(row, own)) /\ AllAskFirst(St!OnNewGame(row, own))
  <2>1. \A o : St!Code(o, <<St!require_action(FALSE)>>)
              = Code(o, <<require_action(FALSE)>>)
    BY DEF St!Code, Code, St!require_action, require_action
  <2>. QED
    BY <1>1, <2>1, AskFirstIsOK DEF AllOK, AllAskFirst, St!OnNewGame, St!NoOwn, NoOwn
<1>4. AllOK(St!OnAction(row, own))
  BY <1>1, CallSeqs, CallTypes, CodeIsOK DEF AllOK, St!OnAction, St!Code, Code,
     St!require_action, require_action, St!require_random, require_random
<1>5. AllOK(St!OnRandom(row, own))
  BY <1>1, <1>2, CallSeqs, CallTypes, CodeIsOK DEF AllOK, St!OnRandom, St!Code,
     Code, St!finish_game, finish_game
<1>. QED  BY <1>1, <1>3, <1>4, <1>5

LEMMA MultiStubOK ==
    ASSUME NEW row \in Row, NEW own, game = "multi_stub"
    PROVE  /\ AllOK(Mult!OnNewGame(row, own)) /\ AllAskFirst(Mult!OnNewGame(row, own))
           /\ AllOK(Mult!OnAction(row, own)) /\ AllOK(Mult!OnRandom(row, own))
           /\ OwnOK(Mult!OnFinish(own))
<1>1. \A o : OwnOK(o)  BY DEF OwnOK
<1>2. CoreToken \in Tokens /\ 0 \in Nat  BY SetsAssumption
<1>3. Mult!Fails = Fails
  BY DEF Mult!Fails, Fails, Mult!Code, Code, Mult!check_fails, check_fails,
     Mult!NoOwn, NoOwn
<1>4. AllOK(Mult!OnNewGame(row, own)) /\ AllAskFirst(Mult!OnNewGame(row, own))
  <2>1. \A o : Mult!Code(o, <<Mult!require_action(FALSE)>>)
              = Code(o, <<require_action(FALSE)>>)
    BY DEF Mult!Code, Code, Mult!require_action, require_action
  <2>. QED
    BY <1>1, <1>3, <2>1, AskFirstIsOK, FailsIsOK DEF AllOK, AllAskFirst, Mult!OnNewGame
<1>5. AllOK(Mult!OnAction(row, own))
  <2>1. ASSUME NEW o PROVE CodeOK(Mult!Code(o, <<Mult!require_random>>))
    BY <1>1, CallSeqs, CallTypes, CodeIsOK DEF Mult!Code, Code,
       Mult!require_random, require_random
  <2>2. ASSUME NEW code \in Mult!OnAction(row, own) PROVE CodeOK(code)
    <3>1. PICK type \in Mult!Types, param \in Params :
            code = IF Mult!ActionAllowed(own, type, param)
                   THEN Mult!Code([rounds |-> IF own.played = 0 THEN param
                                              ELSE own.rounds,
                                   played |-> own.played + 1],
                                  <<Mult!require_random>>)
                   ELSE Mult!Fails
      BY <2>2 DEF Mult!OnAction
    <3>. QED  BY <1>3, <2>1, <3>1, FailsIsOK
  <2>. QED  BY <2>2 DEF AllOK
<1>6. AllOK(Mult!OnRandom(row, own))
  BY <1>1, <1>2, <1>3, CallSeqs, CallTypes, CodeIsOK, FailsIsOK DEF AllOK,
     Mult!OnRandom, Mult!Code, Code, Mult!finish_game, finish_game,
     Mult!require_action, require_action
<1>. QED  BY <1>1, <1>4, <1>5, <1>6

LEMMA OddOrEvenOK ==
    ASSUME NEW row \in Row, NEW own, game = "odd_or_even"
    PROVE  /\ AllOK(Odd!OnNewGame(row, own)) /\ AllAskFirst(Odd!OnNewGame(row, own))
           /\ AllOK(Odd!OnAction(row, own)) /\ AllOK(Odd!OnRandom(row, own))
           /\ OwnOK(Odd!OnFinish(own))
<1>1. \A o : OwnOK(o)  BY DEF OwnOK
<1>2. row.token \in Tokens /\ row.deposit \in Nat  BY DEF Row
<1>3. Odd!WinOf(row) \in Nat /\ row.deposit \div 2 \in Nat
  BY <1>2 DEF Odd!WinOf
<1>4. Odd!Fails = Fails
  BY DEF Odd!Fails, Fails, Odd!Code, Code, Odd!check_fails, check_fails,
     Odd!NoOwn, NoOwn
<1>5. AllOK(Odd!OnNewGame(row, own)) /\ AllAskFirst(Odd!OnNewGame(row, own))
  <2>1. \A o : Odd!Code(o, <<Odd!require_action(FALSE)>>)
              = Code(o, <<require_action(FALSE)>>)
    BY DEF Odd!Code, Code, Odd!require_action, require_action
  <2>. QED
    BY <1>1, <1>4, <2>1, AskFirstIsOK, FailsIsOK DEF AllOK, AllAskFirst, Odd!OnNewGame
<1>6. Odd!MaxWin(row) \in SdkCalls
  BY <1>2, <1>3, CallTypes DEF Odd!MaxWin, Odd!update_max_win, update_max_win
<1>7. \A n \in Nat : Odd!finish_game(row.token, n) \in SdkCalls
  BY <1>2, CallTypes DEF Odd!finish_game, finish_game
<1>8. AllOK(Odd!OnAction(row, own))
  <2>1. CodeOK(Odd!Take(row, own))
    BY <1>1, <1>2, <1>3, <1>4, <1>6, <1>7, CallSeqs, CodeIsOK, FailsIsOK
       DEF Odd!Take, Odd!Code, Code
  <2>2. CodeOK(Odd!Bet(row, own))
    BY <1>1, <1>4, <1>6, CallSeqs, CallTypes, CodeIsOK, FailsIsOK
       DEF Odd!Bet, Odd!Code, Code, Odd!require_random, require_random
  <2>. QED  BY <1>4, <2>1, <2>2, FailsIsOK DEF AllOK, Odd!OnAction
<1>9. AllOK(Odd!OnRandom(row, own))
  BY <1>1, <1>3, <1>4, <1>7, CallSeqs, CallTypes, CodeIsOK, FailsIsOK
     DEF AllOK, Odd!OnRandom, Odd!Code, Code, Odd!require_action, require_action
<1>. QED  BY <1>1, <1>5, <1>8, <1>9

LEMMA WinRaiseLoseOK ==
    ASSUME NEW row \in Row, NEW own, game = "win_raise_lose"
    PROVE  /\ AllOK(Wrl!OnNewGame(row, own)) /\ AllAskFirst(Wrl!OnNewGame(row, own))
           /\ AllOK(Wrl!OnAction(row, own)) /\ AllOK(Wrl!OnRandom(row, own))
           /\ OwnOK(Wrl!OnFinish(own))
<1>1. \A o : OwnOK(o)  BY DEF OwnOK
<1>2. row.token \in Tokens /\ row.deposit \in Nat  BY DEF Row
<1>3. Wrl!Fails = Fails
  BY DEF Wrl!Fails, Fails, Wrl!Code, Code, Wrl!check_fails, check_fails,
     Wrl!NoOwn, NoOwn
<1>4. AllOK(Wrl!OnNewGame(row, own)) /\ AllAskFirst(Wrl!OnNewGame(row, own))
  <2>1. \A o : Wrl!Code(o, <<Wrl!require_action(FALSE)>>)
              = Code(o, <<require_action(FALSE)>>)
    BY DEF Wrl!Code, Code, Wrl!require_action, require_action
  <2>. QED
    BY <1>1, <2>1, AskFirstIsOK DEF AllOK, AllAskFirst, Wrl!OnNewGame
<1>5. row.deposit * Wrl!WinCoef \in Nat /\ Wrl!WinCoef * row.deposit \in Nat
  BY <1>2 DEF Wrl!WinCoef
<1>6. /\ Wrl!MaxWin(row) \in SdkCalls /\ Wrl!Win(row, own) \in SdkCalls
      /\ Wrl!finish_game(row.token, 0) \in SdkCalls
  BY <1>2, <1>5, CallTypes DEF Wrl!MaxWin, Wrl!Win, Wrl!update_max_win,
     update_max_win, Wrl!finish_game, finish_game
<1>7. AllOK(Wrl!OnAction(row, own))
  <2>1. ASSUME NEW o, NEW c \in SdkCalls, NEW d \in SdkCalls
        PROVE  CodeOK(Wrl!Code(o, <<c, d>>))
    BY <1>1, CallSeqs, CodeIsOK DEF Wrl!Code, Code
  <2>2. Wrl!require_action(TRUE) \in SdkCalls
    BY CallTypes DEF Wrl!require_action, require_action
  <2>. QED  BY <1>3, <1>6, <2>1, <2>2, FailsIsOK DEF AllOK, Wrl!OnAction
<1>8. AllOK(Wrl!OnRandom(row, own))
  BY <1>1, CallSeqs, CodeIsOK DEF AllOK, Wrl!OnRandom, Wrl!Code, Code
<1>. QED  BY <1>1, <1>4, <1>7, <1>8

LEMMA ProtoDiceOK ==
    ASSUME NEW row \in Row, NEW own, OwnOK(own), game = "proto_dice"
    PROVE  /\ AllOK(Dice!OnNewGame(row, own)) /\ AllAskFirst(Dice!OnNewGame(row, own))
           /\ AllOK(Dice!OnAction(row, own)) /\ AllOK(Dice!OnRandom(row, own))
           /\ OwnOK(Dice!OnFinish(own))
<1>1. row.token \in Tokens /\ row.deposit \in Nat /\ CoreToken \in Tokens
  BY SetsAssumption DEF Row
<1>2. Dice!NoOwn = NoOwn /\ OwnOK(NoOwn)  BY DEF Dice!NoOwn, NoOwn, OwnOK
<1>3. Dice!Fails = Fails
  BY DEF Dice!Fails, Fails, Dice!Code, Code, Dice!check_fails, check_fails,
     Dice!NoOwn, NoOwn
<1>4. AllOK(Dice!OnNewGame(row, own)) /\ AllAskFirst(Dice!OnNewGame(row, own))
  <2>1. \A o : Dice!Code(o, <<Dice!require_action(FALSE)>>)
              = Code(o, <<require_action(FALSE)>>)
    BY DEF Dice!Code, Code, Dice!require_action, require_action
  <2>. QED
    BY <1>3, <2>1, AskFirstIsOK, FailsIsOK DEF AllOK, AllAskFirst, Dice!OnNewGame
<1>5. ASSUME NEW num \in 1..99 PROVE Dice!calc_max_win(row, num) \in Nat
  <2>1. 100 - num \in Nat \ {0} /\ MaxPayout \in Nat  BY GamesAssumption
  <2>2. MaxPayout \div (100 - num) \in Nat  BY <2>1
  <2>. QED  BY <1>1, <2>2 DEF Dice!calc_max_win
<1>6. AllOK(Dice!OnAction(row, own))
  <2>1. SUFFICES ASSUME NEW num \in Numbers, num > 0, num < 100
                 PROVE  CodeOK(Dice!Code([number |-> num],
                          <<Dice!update_max_win(CoreToken, Dice!calc_max_win(row, num)),
                            Dice!require_random>>))
    BY <1>3, FailsIsOK DEF AllOK, Dice!OnAction
  <2>2. num \in 1..99  BY <2>1, GamesAssumption
  <2>3. /\ OwnOK([number |-> num]) /\ Dice!require_random \in SdkCalls
        /\ Dice!update_max_win(CoreToken, Dice!calc_max_win(row, num)) \in SdkCalls
    BY <1>1, <1>5, <2>2, CallTypes DEF OwnOK, Dice!update_max_win, update_max_win,
       Dice!require_random, require_random
  <2>. QED  BY <2>3, CallSeqs, CodeIsOK DEF Dice!Code, Code
<1>7. AllOK(Dice!OnRandom(row, own))
  <2>1. CASE own = NoOwn  BY <1>2, <1>3, <2>1, FailsIsOK DEF AllOK, Dice!OnRandom
  <2>2. CASE own # NoOwn
    <3>1. own.number \in 1..99  BY <2>2 DEF OwnOK
    <3>2. ASSUME NEW roll \in Rolls
          PROVE  CodeOK(Dice!Code(own, <<Dice!Settled(row, own, roll)>>))
      <4>1. Dice!Settled(row, own, roll) \in SdkCalls
        BY <1>1, <1>5, <3>1, CallTypes DEF Dice!Settled, Dice!finish_game, finish_game
      <4>. QED  BY <4>1, CallSeqs, CodeIsOK DEF Dice!Code, Code
    <3>. QED  BY <1>2, <2>2, <3>2 DEF AllOK, Dice!OnRandom
  <2>. QED  BY <2>1, <2>2
<1>. QED  BY <1>2, <1>4, <1>6, <1>7 DEF Dice!OnFinish

-------------------------------------------------------------------------------
(* The callbacks.                                                              *)

(* Whatever game is deployed.                                                  *)
LEMMA EveryGameOK ==
    ASSUME NEW row \in Row, NEW own, OwnOK(own), game \in GameNames
    PROVE  /\ AllOK(on_new_game(row, own)) /\ AllAskFirst(on_new_game(row, own))
           /\ AllOK(on_action(row, own)) /\ AllOK(on_random(row, own))
           /\ OwnOK(on_finish(own))
<1>1. game \in {"stub", "multi_stub", "odd_or_even", "proto_dice", "win_raise_lose"}
  BY GamesAssumption
<1>2. CASE game = "stub"
  BY <1>2, StubOK DEF on_new_game, on_action, on_random, on_finish
<1>3. CASE game = "multi_stub"
  BY <1>3, MultiStubOK DEF on_new_game, on_action, on_random, on_finish
<1>4. CASE game = "odd_or_even"
  BY <1>4, OddOrEvenOK DEF on_new_game, on_action, on_random, on_finish
<1>5. CASE game = "proto_dice"
  BY <1>5, ProtoDiceOK DEF on_new_game, on_action, on_random, on_finish
<1>6. CASE game = "win_raise_lose"
  BY <1>6, WinRaiseLoseOK DEF on_new_game, on_action, on_random, on_finish
<1>. QED  BY <1>1, <1>2, <1>3, <1>4, <1>5, <1>6

LEMMA IdleOK == CodeOK(Idle)
BY CallSeqs DEF CodeOK, OwnOK, Idle, Code

(* A transaction the game's code joins has a row to work on.                   *)
LEMMA EnteredRow ==
    ASSUME LedgerInv', SessionInv', NEW id \in SesIds, Start(id) \/ Play(id)
    PROVE  /\ receipt' = NoReceipt
           /\ tx' # NoTx => tx' \in Tx /\ tx'.row \in Row
<1>1. \A callback, i, row, book, seq, random :
        Begin(callback, i, row, book, seq, random)
          => receipt' = NoReceipt /\ tx'.receipt = NoReceipt
  BY DEF Begin
<1>2. \A casino_id, row, book, seq :
        NewGameInternal(id, casino_id, row, book, seq)
          => receipt' = NoReceipt /\ tx'.receipt = NoReceipt
  BY <1>1 DEF NewGameInternal
<1>3. ASSUME Start(id) PROVE receipt' = NoReceipt /\ tx'.receipt = NoReceipt
  BY <1>2, <1>3, Zenon DEF Start, NewGame, NewGameBonus
<1>4. ASSUME NEW sign, SignidicePart1(id, sign)
      PROVE  receipt' = NoReceipt /\ tx' = NoTx
  BY <1>4 DEF SignidicePart1, Ready, Store
<1>5. ASSUME Play(id)
      PROVE  receipt' = NoReceipt /\ (tx' # NoTx => tx'.receipt = NoReceipt)
  BY <1>1, <1>4, <1>5, Zenon DEF Play, GameAction, SignidicePart2
<1>6. ASSUME tx' # NoTx, tx'.receipt = NoReceipt PROVE tx' \in Tx /\ tx'.row \in Row
  <2>1. tx' \in Tx  BY <1>6 DEF LedgerInv, TypeOK
  <2>. QED  BY <1>6, <2>1, NoReceiptIsNoReceipt DEF SessionInv, Tx
<1>. QED  BY <1>3, <1>5, <1>6

(* A step that hands the session to the game, or ends before it does.          *)
LEMMA EnterStep ==
    ASSUME LedgerInv, LedgerInv', SessionInv', SdkInv, UNCHANGED game,
           NEW id \in SesIds, Start(id) \/ Play(id), Enter(id)
    PROVE  SdkInv'
<1>1. UNCHANGED own_table /\ \A own : OwnOK(own)' = OwnOK(own)
  BY DEF Enter, OwnOK
<1>2. CASE tx' = NoTx
  <2>1. work' = Idle  BY <1>2 DEF Enter
  <2>. QED  BY <1>1, <1>2, <2>1, IdleOK DEF SdkInv, CodeOK
<1>3. CASE tx' # NoTx
  <2>1. tx' \in Tx /\ tx'.row \in Row  BY <1>3, EnteredRow
  <2>3. work' \in Codes(tx'.callback, tx'.row, own_table[id])  BY <1>3 DEF Enter
  <2>4. game \in GameNames /\ OwnOK(own_table[id])  BY DEF SdkInv
  <2>5. CodeOK(work') /\ (tx'.callback = "on_new_game" => AsksFirst(work'.calls))
    BY <2>1, <2>3, <2>4, EveryGameOK DEF Codes, AllOK, AllAskFirst, Tx, Callbacks
  <2>. QED  BY <1>1, <2>4, <2>5 DEF SdkInv, CodeOK, Unstarted
<1>. QED  BY <1>2, <1>3

(* A call the game makes is one GameContract lets it make.                     *)
LEMMA CallStep ==
    ASSUME Payouts = Nat, MaxWins = Nat, LedgerInv, SdkInv, UNCHANGED game, MakeCall
    PROVE  Callback /\ SdkInv'
<1>. DEFINE c == Head(work.calls)
<1>1. work.calls \in Seq(SdkCalls) /\ work.calls # <<>> /\ Call(c)
  BY DEF SdkInv, CodeOK, MakeCall
<1>2. c \in SdkCalls /\ Tail(work.calls) \in Seq(SdkCalls)  BY <1>1
<1>3. /\ c.call = "require_action" => c.allow_deposit \in BOOLEAN
      /\ c.call \in {"update_max_win", "finish_game"} => c.amount \in Nat
  BY <1>2 DEF SdkCalls
<1>. HIDE DEF c
<1>4. Callback  BY <1>1, <1>3 DEF Call, Callback
<1>5. InCallback /\ tx \in Tx /\ tx.row \in Row
  <2>1. InCallback
    BY <1>1 DEF Call, RequireAction, RequireRandom, UpdateMaxWin, FinishGame
  <2>. QED  BY <2>1, InCallbackType DEF LedgerInv
<1>6. ASSUME Unstarted(tx') PROVE FALSE
  <2>1. CASE Unstarted(tx)
    <3>1. AsksFirst(work.calls)  BY <1>5, <2>1 DEF SdkInv, InCallback
    <3>2. c = require_action(FALSE)
      <4>1. \A first : Head(<<first>>) = first  OBVIOUS
      <4>2. c \in {require_action(FALSE), check_fails}
        BY <3>1, <4>1, Zenon DEF AsksFirst, c
      <4>3. c # check_fails  BY <1>1 DEF Call, check_fails
      <4>. QED  BY <4>2, <4>3
    <3>3. RequireAction(FALSE)  BY <1>1, <3>2 DEF Call, require_action
    <3>4. tx'.row.state = "req_action"
      BY <1>5, <3>3 DEF RequireAction, Tx, Row
    <3>. QED  BY <1>6, <3>4 DEF Unstarted
  <2>2. CASE ~Unstarted(tx)
    <3>1. tx.callback = "on_new_game" => tx.row.state # "req_start"
      BY <1>5, <2>2, NoRowIsNoRow DEF Unstarted
    <3>2. tx'.callback = tx.callback
      BY <1>1, <1>5 DEF Call, RequireAction, RequireRandom, UpdateMaxWin, FinishGame, Tx
    <3>3. CASE tx'.row = NoRow  BY <1>6, <3>3 DEF Unstarted
    <3>4. CASE tx'.row # NoRow
      <4>1. tx'.row.state \in {"req_action", "req_allow_deposit",
                               "req_signidice_part_1", tx.row.state}
        <5>1. ASSUME NEW b, RequireAction(b)
              PROVE  tx'.row.state \in {"req_action", "req_allow_deposit"}
          BY <1>5, <5>1 DEF RequireAction, Tx, Row
        <5>2. ASSUME RequireRandom PROVE tx'.row.state = "req_signidice_part_1"
          BY <1>5, <5>2 DEF RequireRandom, Tx, Row
        <5>3. ASSUME NEW n, UpdateMaxWin(n) PROVE tx'.row.state = tx.row.state
          <6>1. PICK lost, book :
                  tx' = [tx EXCEPT !.row.last_max_win = lost, !.book = book]
            BY <5>3 DEF UpdateMaxWin
          <6>. QED  BY <1>5, <6>1 DEF Tx, Row
        <5>4. ASSUME NEW n, FinishGame(n) PROVE tx'.row = NoRow
          BY <1>5, <5>4 DEF FinishGame, Tx
        <5>. QED  BY <1>1, <3>4, <5>1, <5>2, <5>3, <5>4 DEF Call
      <4>. QED  BY <1>6, <3>1, <3>2, <4>1 DEF Unstarted
    <3>. QED  BY <3>3, <3>4
  <2>. QED  BY <2>1, <2>2
<1>7. OwnOK(work.own) /\ OwnOK(on_finish(work.own))
  BY <1>5, EveryGameOK DEF SdkInv, CodeOK
<1>8. work'.calls = Tail(work.calls) /\ work'.own \in {work.own, on_finish(work.own)}
  BY DEF MakeCall, Code
<1>9. UNCHANGED own_table  BY DEF MakeCall
<1>. QED  BY <1>2, <1>4, <1>6, <1>7, <1>8, <1>9 DEF SdkInv, CodeOK, OwnOK

(* A callback returns only when all its calls are made.                        *)
LEMMA ReturnStep ==
    ASSUME LedgerInv, SdkInv, UNCHANGED game, GameReturn
    PROVE  Return /\ SdkInv'
<1>1. tx # NoTx /\ work.calls = <<>> /\ Commit  BY DEF GameReturn
<1>2. ~AsksFirst(work.calls)  BY <1>1 DEF AsksFirst
<1>3. Return  BY <1>1, <1>2 DEF SdkInv, Unstarted, Return
<1>4. tx' = NoTx /\ work' = Idle
      /\ own_table' = [own_table EXCEPT ![tx.ses_id] = work.own]
  BY DEF GameReturn, Commit
<1>. QED  BY <1>3, <1>4, IdleOK DEF SdkInv, CodeOK, OwnOK

LEMMA CloseStepOK ==
    ASSUME LedgerInv, SdkInv, UNCHANGED game, NEW id \in SesIds, GameClose(id)
    PROVE  SdkInv'
<1>1. sessions[id] \in Row /\ tx' = NoTx /\ UNCHANGED work
  BY DEF GameClose, Close, Ready, Store, LedgerInv, TypeOK
<1>2. OwnOK(on_finish(own_table[id]))
  BY <1>1, EveryGameOK DEF SdkInv
<1>3. own_table' = [own_table EXCEPT ![id] = own_table'[id]]
      /\ own_table'[id] \in {own_table[id], on_finish(own_table[id])}
  BY DEF GameClose, SdkInv
<1>4. /\ DOMAIN own_table' = SesIds
      /\ \A i \in SesIds : own_table'[i] \in {own_table[i], on_finish(own_table[id])}
  BY <1>3 DEF SdkInv
<1>5. \A i \in SesIds : OwnOK(own_table'[i])  BY <1>2, <1>4 DEF SdkInv
<1>. QED  BY <1>1, <1>4, <1>5 DEF SdkInv, CodeOK, OwnOK

-------------------------------------------------------------------------------
LEMMA SdkStep ==
    ASSUME Payouts = Nat, MaxWins = Nat,
           LedgerInv, SessionInv, SdkInv, [GameNext]_gameVars
    PROVE  [Next]_vars /\ LedgerInv' /\ SessionInv' /\ SdkInv'
<1>1. [Next]_vars
  <2>1. CASE UNCHANGED gameVars  BY <2>1 DEF gameVars
  <2>2. CASE GameNext
    <3>1. CASE MakeCall
      BY <2>2, <3>1, CallStep DEF GameNext, Next
    <3>2. CASE GameReturn
      BY <2>2, <3>2, ReturnStep DEF GameNext, Next, Callback
    <3>3. CASE GameAbort  BY <3>3 DEF GameAbort, Next, Callback
    <3>4. CASE \E id \in SesIds : Deposit(id) \/ Start(id) \/ Play(id) \/ GameClose(id)
      BY <3>4 DEF GameClose, Next
    <3>5. CASE Environment  BY <3>5 DEF Next
    <3>. QED  BY <2>2, <3>1, <3>2, <3>3, <3>4, <3>5 DEF GameNext, GameStep
  <2>. QED  BY <2>1, <2>2
<1>2. LedgerInv'  BY <1>1, LedgerStep
<1>3. SessionInv'  BY <1>1, <1>2, SessionStep
<1>4. SdkInv'
  <2>1. CASE UNCHANGED gameVars
    BY <2>1 DEF gameVars, vars, SdkInv, CodeOK, OwnOK
  <2>2. CASE GameNext
    <3>1. UNCHANGED game  BY <2>2 DEF GameNext
    <3>2. ASSUME UNCHANGED <<own_table, work>>, tx' \in {tx, NoTx} PROVE SdkInv'
      BY <3>1, <3>2 DEF SdkInv, CodeOK, OwnOK
    <3>3. ASSUME NEW id \in SesIds, Deposit(id), UNCHANGED <<own_table, work>>
          PROVE  SdkInv'
      BY <3>2, <3>3 DEF Deposit, OnTransfer, OnTransferNew, OnTransferExtra,
         DepositBonus, Store
    <3>4. ASSUME NEW id \in SesIds, Start(id) \/ Play(id), Enter(id) PROVE SdkInv'
      BY <1>2, <1>3, <3>1, <3>4, EnterStep
    <3>5. ASSUME NEW id \in SesIds, GameClose(id) PROVE SdkInv'
      BY <3>1, <3>5, CloseStepOK
    <3>6. CASE MakeCall  BY <3>1, <3>6, CallStep
    <3>7. CASE GameReturn  BY <3>1, <3>7, ReturnStep
    <3>8. CASE GameAbort
      BY <3>1, <3>8, IdleOK DEF GameAbort, Abort, SdkInv, CodeOK, OwnOK
    <3>9. CASE Environment /\ UNCHANGED <<own_table, work>>
      BY <3>2, <3>9 DEF Environment, InitContract, Toggle, Tick
    <3>. QED  BY <2>2, <3>3, <3>4, <3>5, <3>6, <3>7, <3>8, <3>9 DEF GameNext, GameStep
  <2>. QED  BY <2>1, <2>2
<1>. QED  BY <1>1, <1>2, <1>3, <1>4

-------------------------------------------------------------------------------
(* The game's own rows.                                                        *)

RowInv ==
    /\ OwnRowsLive
    /\ tx # NoTx /\ tx.row = NoRow => work.own = NoOwn
    /\ game = "stub" => work.own = NoOwn /\ \A id \in SesIds : own_table[id] = NoOwn

LEMMA FinishClears ==
    ASSUME game \in GameNames, NEW own, game = "stub" => own = NoOwn
    PROVE  on_finish(own) = NoOwn
<1>1. game \in {"stub", "multi_stub", "odd_or_even", "proto_dice", "win_raise_lose"}
  BY GamesAssumption
<1>. QED  BY <1>1 DEF on_finish, St!OnFinish, Mult!OnFinish, Mult!NoOwn, Odd!OnFinish,
             Odd!NoOwn, Dice!OnFinish, Dice!NoOwn, Wrl!OnFinish, Wrl!NoOwn, NoOwn

LEMMA StubKeepsNothing ==
    ASSUME game = "stub", NEW row, NEW own, NEW callback \in Callbacks,
           NEW code \in Codes(callback, row, own)
    PROVE  code.own = NoOwn
<1>1. code \in St!OnNewGame(row, own) \/ code \in St!OnAction(row, own)
       \/ code \in St!OnRandom(row, own)
  BY DEF Codes, Callbacks, on_new_game, on_action, on_random
<1>2. \A calls : St!Code(St!NoOwn, calls).own = NoOwn
  BY DEF St!Code, St!NoOwn, NoOwn
<1>3. \E calls : code = St!Code(St!NoOwn, calls)
  BY <1>1, Zenon DEF St!OnNewGame, St!OnAction, St!OnRandom
<1>. QED  BY <1>2, <1>3

LEMMA StaysStarted ==
    ASSUME NEW row \in Row, NEW new \in Row, Started(row), Kept(row, new)
    PROVE  Started(new)
<1>1. /\ new.digest.seed = row.digest.seed
      /\ Len(new.digest.signs) >= Len(row.digest.signs)
  BY DEF Kept
<1>2. row.digest \in Digest /\ new.digest \in Digest  BY DEF Row
<1>3. CASE row.digest.seed # <<>>  BY <1>1, <1>3 DEF Started, NoDigest
<1>4. CASE row.digest.seed = <<>>
  <2>1. row.digest.signs # <<>>  BY <1>2, <1>4 DEF Started, NoDigest, Digest
  <2>2. row.digest.signs \in Seq(Keys) /\ new.digest.signs \in Seq(Keys)
    BY <1>2 DEF Digest
  <2>3. new.digest.signs # <<>>  BY <1>1, <2>1, <2>2
  <2>. QED  BY <2>3 DEF Started, NoDigest
<1>. QED  BY <1>3, <1>4

(* A step that settles nothing ends no session.                                *)
LEMMA QuietRows ==
    ASSUME LedgerInv, LedgerInv', Good, OwnRowsLive, UNCHANGED own_table,
           receipt' = NoReceipt \/ UNCHANGED sessions
    PROVE  OwnRowsLive'
<1>1. SUFFICES ASSUME NEW id \in SesIds, own_table[id] # NoOwn
               PROVE  sessions'[id] # NoRow /\ Started(sessions'[id])
  BY DEF OwnRowsLive, Started
<1>2. sessions[id] # NoRow /\ Started(sessions[id])  BY <1>1 DEF OwnRowsLive
<1>3. CASE UNCHANGED sessions  BY <1>2, <1>3
<1>4. CASE receipt' = NoReceipt
  <2>1. sessions'[id] # NoRow
    BY <1>2, <1>4 DEF Good, OnlyCloses, NoReceipt
  <2>2. sessions[id] \in Row /\ sessions'[id] \in Row
    BY <1>2, <2>1 DEF LedgerInv, TypeOK
  <2>3. Kept(sessions[id], sessions'[id])  BY <1>2, <2>1 DEF Good
  <2>. QED  BY <1>2, <2>1, <2>2, <2>3, StaysStarted
<1>. QED  BY <1>3, <1>4

LEMMA RowStep ==
    ASSUME LedgerInv, LedgerInv', SessionInv', Good, SdkInv, RowInv,
           [GameNext]_gameVars
    PROVE  RowInv'
<1>1. CASE UNCHANGED gameVars
  BY <1>1 DEF gameVars, vars, RowInv, OwnRowsLive, Started
<1>2. CASE GameNext
  <2>. UNCHANGED game  BY <1>2 DEF GameNext
  <2>1. ASSUME UNCHANGED <<own_table, work>>, tx' \in {tx, NoTx}, receipt' = NoReceipt
        PROVE  RowInv'
    BY <2>1, QuietRows DEF RowInv
  <2>2. ASSUME NEW id \in SesIds, Deposit(id), UNCHANGED <<own_table, work>>
        PROVE  RowInv'
    BY <2>1, <2>2 DEF Deposit, OnTransfer, OnTransferNew, OnTransferExtra,
       DepositBonus, Store
  <2>3. ASSUME NEW id \in SesIds, Start(id) \/ Play(id), Enter(id) PROVE RowInv'
    <3>1. OwnRowsLive'  BY <2>3, EnteredRow, QuietRows DEF RowInv, Enter
    <3>2. tx' # NoTx => tx' \in Tx /\ tx'.row # NoRow
      BY <2>3, EnteredRow, NoRowIsNoRow
    <3>3. ASSUME game = "stub" PROVE work'.own = NoOwn
      <4>1. CASE tx' = NoTx  BY <2>3, <4>1 DEF Enter, Idle, Code
      <4>2. CASE tx' # NoTx
        BY <2>3, <3>2, <3>3, <4>2, StubKeepsNothing DEF Enter, Tx
      <4>. QED  BY <4>1, <4>2
    <3>. QED  BY <2>3, <3>1, <3>2, <3>3 DEF RowInv, Enter
  <2>4. ASSUME NEW id \in SesIds, GameClose(id) PROVE RowInv'
    <3>1. /\ sessions' = [sessions EXCEPT ![id] = NoRow] /\ tx' = NoTx
          /\ sessions[id] # NoRow /\ UNCHANGED work
          /\ sessions \in [SesIds -> Row \cup {NoRow}]
      BY <2>4 DEF GameClose, Close, Ready, Store, LedgerInv, TypeOK
    <3>2. own_table' = [own_table EXCEPT ![id] = NoOwn]
      <4>1. CASE sessions[id].state = "req_start"
        <5>1. ~Started(sessions[id])  BY <3>1, <4>1 DEF LedgerInv
        <5>2. own_table[id] = NoOwn  BY <5>1 DEF RowInv, OwnRowsLive
        <5>. QED  BY <2>4, <4>1, <5>2 DEF GameClose
      <4>2. CASE sessions[id].state # "req_start"
        <5>1. on_finish(own_table[id]) = NoOwn
          BY FinishClears DEF SdkInv, RowInv
        <5>. QED  BY <2>4, <4>2, <5>1 DEF GameClose
      <4>. QED  BY <4>1, <4>2
    <3>3. \A i \in SesIds : i # id =>
            own_table'[i] = own_table[i] /\ sessions'[i] = sessions[i]
      BY <3>1, <3>2 DEF SdkInv
    <3>4. own_table'[id] = NoOwn  BY <3>2 DEF SdkInv
    <3>5. OwnRowsLive'  BY <3>3, <3>4 DEF RowInv, OwnRowsLive, Started
    <3>. QED  BY <3>1, <3>3, <3>4, <3>5 DEF RowInv
  <2>5. CASE MakeCall
    <3>1. UNCHANGED <<own_table, sessions>>
          /\ work'.own = IF tx'.row = NoRow THEN on_finish(work.own) ELSE work.own
      BY <2>5 DEF MakeCall, Call, RequireAction, RequireRandom, UpdateMaxWin,
         FinishGame, Code
    <3>2. on_finish(work.own) = NoOwn  BY FinishClears DEF SdkInv, RowInv
    <3>3. OwnRowsLive'  BY <3>1, QuietRows DEF RowInv
    <3>. QED  BY <3>1, <3>2, <3>3 DEF RowInv
  <2>6. CASE GameReturn
    <3>1. /\ tx # NoTx /\ tx \in Tx /\ tx' = NoTx /\ work' = Idle
          /\ sessions' = [sessions EXCEPT ![tx.ses_id] = tx.row]
          /\ own_table' = [own_table EXCEPT ![tx.ses_id] = work.own]
          /\ sessions \in [SesIds -> Row \cup {NoRow}]
      BY <2>6 DEF GameReturn, Commit, LedgerInv, TypeOK
    <3>2. \A i \in SesIds :
            /\ own_table'[i] = IF i = tx.ses_id THEN work.own ELSE own_table[i]
            /\ sessions'[i] = IF i = tx.ses_id THEN tx.row ELSE sessions[i]
      BY <3>1 DEF SdkInv
    <3>3. work.own # NoOwn => tx.row # NoRow /\ Started(tx.row)
      BY <3>1 DEF RowInv, LedgerInv
    <3>4. OwnRowsLive'  BY <3>2, <3>3 DEF RowInv, OwnRowsLive, Started
    <3>. QED  BY <3>1, <3>2, <3>4 DEF RowInv, Idle, Code
  <2>7. CASE GameAbort
    <3>1. UNCHANGED <<own_table, sessions>> /\ work' = Idle /\ tx' = NoTx
      BY <2>7 DEF GameAbort, Abort
    <3>. QED  BY <3>1, QuietRows DEF RowInv, Idle, Code
  <2>8. CASE Environment /\ UNCHANGED <<own_table, work>>
    BY <2>1, <2>8 DEF Environment, InitContract, Toggle, Tick
  <2>. QED  BY <1>2, <2>2, <2>3, <2>4, <2>5, <2>6, <2>7, <2>8 DEF GameNext, GameStep
<1>. QED  BY <1>1, <1>2

-------------------------------------------------------------------------------
LEMMA GamesStart == GameInit => Init /\ LedgerInv /\ SessionInv /\ SdkInv
<1>. SUFFICES ASSUME GameInit PROVE LedgerInv /\ SessionInv /\ SdkInv /\ Init
  OBVIOUS
<1>1. Init  BY DEF GameInit
<1>2. SdkInv  BY <1>1, IdleOK DEF GameInit, Init, SdkInv, CodeOK, OwnOK
<1>. QED  BY <1>1, <1>2, LedgerInit, SessionInit

(* Each game, where GameContract lets a game name any amount, behaves as        *)
(* GameContract lets it: SdkSpec, whatever the tables, bets and rolls.          *)
THEOREM GamesUseTheSdk ==
    ASSUME Payouts = Nat, MaxWins = Nat
    PROVE  GameSpec => SdkSpec
<1>1. GameInit => Init /\ LedgerInv /\ SessionInv /\ SdkInv  BY GamesStart
<1>2. LedgerInv /\ SessionInv /\ SdkInv /\ [GameNext]_gameVars
        => [Next]_vars /\ LedgerInv' /\ SessionInv' /\ SdkInv'
  BY SdkStep
<1>. QED  BY <1>1, <1>2, PTL DEF GameSpec, SdkSpec, Spec

(* So the money of every example game is right, for any number of sessions.    *)
THEOREM GamesHoldTheDeposits ==
    ASSUME Payouts = Nat, MaxWins = Nat
    PROVE  GameSpec => []LedgerInv
<1>. QED  BY GamesUseTheSdk, LedgerSound, PTL DEF SdkSpec

(* No game keeps a row of its own for a session that is over or not begun, so   *)
(* on_new_game never meets one.                                                 *)
THEOREM OwnRowsLiveWithSessions ==
    ASSUME Payouts = Nat, MaxWins = Nat
    PROVE  GameSpec => []OwnRowsLive
<1>. DEFINE Inv == LedgerInv /\ SessionInv /\ SdkInv /\ RowInv
<1>1. GameInit => Inv
  <2>. SUFFICES ASSUME GameInit PROVE Inv  OBVIOUS
  <2>1. RowInv  BY DEF GameInit, Init, RowInv, OwnRowsLive, Idle, Code
  <2>. QED  BY <2>1, GamesStart DEF GameInit
<1>2. Inv /\ [GameNext]_gameVars => Inv'
  <2>. SUFFICES ASSUME Inv, [GameNext]_gameVars PROVE Inv'  OBVIOUS
  <2>1. [Next]_vars /\ LedgerInv' /\ SessionInv' /\ SdkInv'  BY SdkStep
  <2>2. Good  BY <2>1, SessionStep
  <2>. QED  BY <2>1, <2>2, RowStep
<1>3. Inv => OwnRowsLive  BY DEF RowInv
<1>. QED  BY <1>1, <1>2, <1>3, PTL DEF GameSpec

-------------------------------------------------------------------------------
(* What the example games promise their players and the casino: for every one   *)
(* of them a row of its own and a row of the SDK can only be in certain         *)
(* positions together (Position), and each of its callbacks leads, call by      *)
(* call, from a position to a position or to a payout that was announced        *)
(* (PlaysOut).  The callbacks are looked at once, game by game, and the steps   *)
(* of the contract once for all games.                                          *)

Rolling == {"req_signidice_part_1", "req_signidice_part_2"}

(* A game's own row beside the session's, between two transactions.             *)
StubAt(row) == row.last_max_win = 0

MultiStubAt(row, own) ==
    /\ row.last_max_win = 0
    /\ row.state # "req_allow_deposit"
    /\ IF own = NoOwn THEN row.state = "req_start"
       ELSE /\ own \in [rounds : 0..MaxType, played : 0..MaxType]
            /\ own.played <= own.rounds
            /\ row.state = "req_action" => own.played = 0 \/ own.played < own.rounds

OddOrEvenAt(row, own) ==
    IF own = NoOwn THEN row.state = "req_start"
    ELSE /\ own \in [round : 1..Odd!MAX_NUM_ROUNDS, prev_round_deposit : Nat]
         /\ IF row.state \in Rolling
            THEN /\ own.prev_round_deposit < row.deposit
                 /\ row.last_max_win = Odd!WinOf(row) - row.deposit
            ELSE own.prev_round_deposit <= row.deposit

ProtoDiceAt(row, own) ==
    /\ row.state # "req_start" => row.token = CoreToken
    /\ IF own = NoOwn THEN row.state \in {"req_start", "req_action"}
       ELSE /\ own \in [number : 1..99]
            /\ row.state \in Rolling
            /\ row.last_max_win = Dice!calc_max_win(row, own.number) - row.deposit

WinRaiseLoseAt(row) == row.state \notin Rolling

Position(g, row, own) ==
    /\ row.deposit <= MaxDeposit
    /\ g = "stub" => StubAt(row)
    /\ g = "multi_stub" => MultiStubAt(row, own)
    /\ g = "odd_or_even" => OddOrEvenAt(row, own)
    /\ g = "proto_dice" => ProtoDiceAt(row, own)
    /\ g = "win_raise_lose" => WinRaiseLoseAt(row)

-------------------------------------------------------------------------------
(* What the SDK makes of the row when it accepts a call that ends no session.   *)
After(row, c) ==
    CASE c.call = "require_action" ->
           [row EXCEPT !.state = IF c.allow_deposit THEN "req_allow_deposit"
                                 ELSE "req_action"]
      [] c.call = "require_random" -> [row EXCEPT !.state = "req_signidice_part_1"]
      [] OTHER -> Announced(row, c)

(* The last call of a callback, if the SDK accepts it.  Only the last round of  *)
(* multi_stub ends it, in on_random.                                            *)
LastCall(g, callback, row, own, c) ==
    Accepted(row, c) =>
      IF c.call = "finish_game"
      THEN /\ c.amount > row.deposit => c.amount = row.deposit + row.last_max_win
           /\ g = "multi_stub" => callback = "on_random" /\ own.played = own.rounds
      ELSE Position(g, After(row, c), own)

(* The calls that are left of a callback: none, one, or a max win and one.      *)
PlaysOut(g, callback, row, own, calls) ==
    \/ calls = <<>> /\ Position(g, row, own)
    \/ calls = <<calls[1]>> /\ LastCall(g, callback, row, own, calls[1])
    \/ /\ calls = <<calls[1], calls[2]>>
       /\ calls[1].call = "update_max_win"
       /\ Accepted(row, calls[1]) =>
            LastCall(g, callback, Announced(row, calls[1]), own, calls[2])

(* Amounts whose products an asset holds: the SDK refuses a settlement whose    *)
(* pro-rata share it cannot compute.                                            *)
SmallAmounts ==
    /\ MaxDeposit * (MaxDeposit + MaxPayout) <= MaxAmount
    /\ 2 * MaxDeposit + MaxPayout <= MaxAmount

(* stub and multi_stub pay in the core token whatever the session's is.         *)
InItsToken(g, row) == row.token = CoreToken \/ g \notin {"stub", "multi_stub"}

(* What on_random may be left with: a call the SDK accepts, or none.            *)
Welcome(g, row, c) == SmallAmounts /\ InItsToken(g, row) => Accepted(row, c)

Answers(g, row, calls) ==
    calls = <<>> \/ (calls = <<calls[1]>> /\ Welcome(g, row, calls[1]))

AsAnnounced(rcpt) ==
    rcpt # NoReceipt /\ rcpt.outcome.payout > rcpt.row.deposit
    => rcpt.outcome.payout = rcpt.row.deposit + rcpt.row.last_max_win

(* The invariant by induction.                                                  *)
Playing(g, t, stored, w) ==
    /\ AsAnnounced(t.receipt)
    /\ IF t.row = NoRow
       THEN w.calls = <<>> /\ (g = "multi_stub" => stored.played = stored.rounds)
       ELSE /\ PlaysOut(g, t.callback, t.row, w.own, w.calls)
            /\ t.callback = "on_random" =>
                 /\ Answers(g, t.row, w.calls)
                 /\ g = "multi_stub" => w.own = stored

PlayInv ==
    /\ \A id \in SesIds : sessions[id] # NoRow
         => Position(game, sessions[id], own_table[id])
    /\ tx # NoTx => Playing(game, tx, own_table[tx.ses_id], work)
    /\ AsAnnounced(receipt)

-------------------------------------------------------------------------------
(* Calls.                                                                       *)

LEMMA SameCode ==
    \A own, calls :
    /\ St!Code(own, calls) = Code(own, calls)
    /\ Mult!Code(own, calls) = Code(own, calls)
    /\ Odd!Code(own, calls) = Code(own, calls)
    /\ Dice!Code(own, calls) = Code(own, calls)
    /\ Wrl!Code(own, calls) = Code(own, calls)
BY DEF St!Code, Mult!Code, Odd!Code, Dice!Code, Wrl!Code, Code

LEMMA SameCalls ==
    /\ \A b : /\ St!require_action(b) = require_action(b)
             /\ Mult!require_action(b) = require_action(b)
             /\ Odd!require_action(b) = require_action(b)
             /\ Dice!require_action(b) = require_action(b)
             /\ Wrl!require_action(b) = require_action(b)
    /\ St!require_random = require_random
    /\ Mult!require_random = require_random
    /\ Odd!require_random = require_random
    /\ Dice!require_random = require_random
    /\ \A t, n : /\ St!finish_game(t, n) = finish_game(t, n)
                /\ Mult!finish_game(t, n) = finish_game(t, n)
                /\ Odd!finish_game(t, n) = finish_game(t, n)
                /\ Dice!finish_game(t, n) = finish_game(t, n)
                /\ Wrl!finish_game(t, n) = finish_game(t, n)
                /\ Odd!update_max_win(t, n) = update_max_win(t, n)
                /\ Dice!update_max_win(t, n) = update_max_win(t, n)
                /\ Wrl!update_max_win(t, n) = update_max_win(t, n)
BY DEF St!require_action, Mult!require_action, Odd!require_action,
   Dice!require_action, Wrl!require_action, require_action,
   St!require_random, Mult!require_random, Odd!require_random,
   Dice!require_random, require_random,
   St!finish_game, Mult!finish_game, Odd!finish_game, Dice!finish_game,
   Wrl!finish_game, finish_game,
   Odd!update_max_win, Dice!update_max_win, Wrl!update_max_win, update_max_win

LEMMA SameFails ==
    /\ St!NoOwn = NoOwn /\ Mult!NoOwn = NoOwn /\ Odd!NoOwn = NoOwn
    /\ Dice!NoOwn = NoOwn /\ Wrl!NoOwn = NoOwn
    /\ Mult!Fails = Fails /\ Odd!Fails = Fails
    /\ Dice!Fails = Fails /\ Wrl!Fails = Fails
<1>1. /\ Mult!check_fails = check_fails /\ Odd!check_fails = check_fails
      /\ Dice!check_fails = check_fails /\ Wrl!check_fails = check_fails
  BY DEF Mult!check_fails, Odd!check_fails, Dice!check_fails, Wrl!check_fails,
     check_fails
<1>2. /\ St!NoOwn = NoOwn /\ Mult!NoOwn = NoOwn /\ Odd!NoOwn = NoOwn
      /\ Dice!NoOwn = NoOwn /\ Wrl!NoOwn = NoOwn
  BY DEF St!NoOwn, Mult!NoOwn, Odd!NoOwn, Dice!NoOwn, Wrl!NoOwn, NoOwn
<1>. QED
  BY <1>1, <1>2, SameCode DEF Mult!Fails, Odd!Fails, Dice!Fails, Wrl!Fails, Fails

LEMMA CodeFields ==
    \A own, calls : Code(own, calls).own = own /\ Code(own, calls).calls = calls
BY DEF Code

LEMMA CallNames ==
    /\ \A b : /\ require_action(b).call = "require_action"
             /\ require_action(b).allow_deposit = b
    /\ require_random.call = "require_random"
    /\ \A t, n : /\ update_max_win(t, n).call = "update_max_win"
                /\ update_max_win(t, n).token = t
                /\ update_max_win(t, n).amount = n
                /\ finish_game(t, n).call = "finish_game"
                /\ finish_game(t, n).token = t
                /\ finish_game(t, n).amount = n
    /\ check_fails.call = "check"
BY DEF require_action, require_random, update_max_win, finish_game, check_fails

(* The three shapes of a callback, and a failing one.                           *)
LEMMA NoCallPlays ==
    ASSUME NEW g, NEW callback, NEW row, NEW own, Position(g, row, own)
    PROVE  PlaysOut(g, callback, row, own, <<>>)
BY DEF PlaysOut

LEMMA OneCallPlays ==
    ASSUME NEW g, NEW callback, NEW row, NEW own, NEW c,
           LastCall(g, callback, row, own, c)
    PROVE  PlaysOut(g, callback, row, own, <<c>>)
<1>1. <<c>>[1] = c  OBVIOUS
<1>. QED  BY <1>1, Zenon DEF PlaysOut

LEMMA TwoCallsPlay ==
    ASSUME NEW g, NEW callback, NEW row, NEW own, NEW c, NEW d,
           c.call = "update_max_win",
           LastCall(g, callback, Announced(row, c), own, d)
    PROVE  PlaysOut(g, callback, row, own, <<c, d>>)
<1>1. <<c, d>>[1] = c /\ <<c, d>>[2] = d  OBVIOUS
<1>. QED  BY <1>1, Zenon DEF PlaysOut

LEMMA FailsPlays ==
    ASSUME NEW g, NEW callback, NEW row, NEW own
    PROVE  PlaysOut(g, callback, row, own, Fails.calls)
<1>1. ~Accepted(row, check_fails)  BY CallNames DEF Accepted
<1>2. LastCall(g, callback, row, own, check_fails)  BY <1>1 DEF LastCall
<1>3. Fails.calls = <<check_fails>>  BY CodeFields DEF Fails
<1>. QED  BY <1>2, <1>3, OneCallPlays

LEMMA CodePlays ==
    ASSUME NEW g, NEW callback, NEW row, NEW own, NEW calls, NEW code,
           code = Code(own, calls), PlaysOut(g, callback, row, own, calls)
    PROVE  PlaysOut(g, callback, row, code.own, code.calls)
<1>1. code.own = own /\ code.calls = calls  BY CodeFields
<1>. QED  BY <1>1

LEMMA Asks ==
    ASSUME NEW g, NEW callback, NEW row, NEW own, NEW b \in BOOLEAN,
           Position(g, [row EXCEPT !.state = IF b THEN "req_allow_deposit"
                                             ELSE "req_action"], own)
    PROVE  LastCall(g, callback, row, own, require_action(b))
BY CallNames DEF LastCall, After

LEMMA Draws ==
    ASSUME NEW g, NEW callback, NEW row, NEW own,
           CanRequireRandom(row) =>
             Position(g, [row EXCEPT !.state = "req_signidice_part_1"], own)
    PROVE  LastCall(g, callback, row, own, require_random)
<1>1. Accepted(row, require_random) => CanRequireRandom(row)
  BY CallNames DEF Accepted
<1>. QED  BY <1>1, CallNames DEF LastCall, After

LEMMA Pays ==
    ASSUME NEW g, NEW callback, NEW row, NEW own, NEW token, NEW amount,
           amount > row.deposit => amount = row.deposit + row.last_max_win,
           g = "multi_stub" => callback = "on_random" /\ own.played = own.rounds
    PROVE  LastCall(g, callback, row, own, finish_game(token, amount))
BY CallNames DEF LastCall

-------------------------------------------------------------------------------
(* on_new_game.                                                                 *)

LEMMA NewGamePlays ==
    ASSUME game \in GameNames, NEW row \in Row, row.state = "req_start",
           row.last_max_win = 0, row.deposit <= MaxDeposit,
           NEW code \in on_new_game(row, NoOwn)
    PROVE  PlaysOut(game, "on_new_game", row, code.own, code.calls)
<1>. DEFINE new == [row EXCEPT !.state = "req_action"]
            asks == <<require_action(FALSE)>>
<1>1. /\ new.state = "req_action" /\ new.deposit = row.deposit
      /\ new.last_max_win = 0 /\ new.token = row.token /\ row.deposit \in Nat
  BY DEF Row
<1>2. ASSUME NEW own, Position(game, new, own)
      PROVE  PlaysOut(game, "on_new_game", row, own, asks)
  BY <1>2, Asks, OneCallPlays
<1>. HIDE DEF new, asks
<1>3. ASSUME NEW own, code \in {Code(own, asks), Fails}, Position(game, new, own)
      PROVE  PlaysOut(game, "on_new_game", row, code.own, code.calls)
  <2>1. CASE code = Code(own, asks)  BY <1>2, <1>3, <2>1, CodePlays
  <2>2. CASE code = Fails  BY <2>2, FailsPlays
  <2>. QED  BY <1>3, <2>1, <2>2
<1>4. game \in {"stub", "multi_stub", "odd_or_even", "proto_dice", "win_raise_lose"}
  BY GamesAssumption
<1>5. CASE game = "stub"
  <2>1. code = Code(NoOwn, asks)
    BY <1>5, SameCode, SameCalls, SameFails DEF asks, on_new_game, St!OnNewGame
  <2>2. Position(game, new, NoOwn)  BY <1>1, <1>5 DEF Position, StubAt
  <2>. QED  BY <1>3, <2>1, <2>2
<1>6. CASE game = "multi_stub"
  <2>. DEFINE own == [rounds |-> 0, played |-> 0]
  <2>1. code = Code(own, asks)
    BY <1>6, SameCode, SameCalls, SameFails DEF asks, on_new_game, Mult!OnNewGame
  <2>2. own # NoOwn /\ own \in [rounds : 0..MaxType, played : 0..MaxType]
        /\ own.played = 0 /\ own.rounds = 0
    BY GamesAssumption DEF NoOwn
  <2>3. Position(game, new, own)
    BY <1>1, <1>6, <2>2 DEF Position, MultiStubAt
  <2>. QED  BY <1>3, <2>1, <2>3
<1>7. CASE game = "odd_or_even"
  <2>. DEFINE own == [round |-> 1, prev_round_deposit |-> 0]
  <2>1. code = Code(own, asks)
    BY <1>7, SameCode, SameCalls, SameFails DEF asks, on_new_game, Odd!OnNewGame
  <2>2. own # NoOwn /\ own \in [round : 1..Odd!MAX_NUM_ROUNDS, prev_round_deposit : Nat]
        /\ own.prev_round_deposit = 0
    BY DEF NoOwn, Odd!MAX_NUM_ROUNDS
  <2>3. Position(game, new, own)
    BY <1>1, <1>7, <2>2 DEF Position, OddOrEvenAt, Rolling
  <2>. QED  BY <1>3, <2>1, <2>3
<1>8. CASE game = "proto_dice"
  <2>1. IF row.token = CoreToken /\ Dice!check_bet(row) THEN code = Code(NoOwn, asks)
        ELSE code = Fails
    BY <1>8, SameCode, SameCalls, SameFails
       DEF asks, on_new_game, Dice!OnNewGame, Dice!check_bet
  <2>2. row.token = CoreToken => Position(game, new, NoOwn)
    BY <1>1, <1>8 DEF Position, ProtoDiceAt
  <2>. QED  BY <1>3, <2>1, <2>2, FailsPlays
<1>9. CASE game = "win_raise_lose"
  <2>1. code = Code(NoOwn, asks)
    BY <1>9, SameCode, SameCalls, SameFails DEF asks, on_new_game, Wrl!OnNewGame
  <2>2. Position(game, new, NoOwn)
    BY <1>1, <1>9 DEF Position, WinRaiseLoseAt, Rolling
  <2>. QED  BY <1>3, <2>1, <2>2
<1>. QED  BY <1>4, <1>5, <1>6, <1>7, <1>8, <1>9

-------------------------------------------------------------------------------
(* on_action, game by game, for a row at the player's turn.                     *)

LEMMA StubActs ==
    ASSUME game = "stub", NEW row \in Row, NEW own, Position(game, row, own),
           NEW code \in St!OnAction(row, own)
    PROVE  PlaysOut(game, "on_action", row, code.own, code.calls)
<1>1. \A s : Position(game, [row EXCEPT !.state = s], NoOwn)
  BY DEF Position, StubAt, Row
<1>2. Position(game, row, NoOwn)  BY DEF Position, StubAt
<1>3. CASE code = Code(NoOwn, <<>>)
  BY <1>2, <1>3, CodeFields, NoCallPlays
<1>4. CASE code = Code(NoOwn, <<require_random>>)
  <2>1. LastCall(game, "on_action", row, NoOwn, require_random)
    BY <1>1, Draws
  <2>. QED  BY <1>4, <2>1, CodePlays, OneCallPlays
<1>5. CASE code = Code(NoOwn, <<require_action(FALSE)>>)
  <2>1. LastCall(game, "on_action", row, NoOwn, require_action(FALSE))
    BY <1>1, Asks
  <2>. QED  BY <1>5, <2>1, CodePlays, OneCallPlays
<1>. QED
  BY <1>3, <1>4, <1>5, SameCode, SameCalls, SameFails DEF St!OnAction

LEMMA MultiStubActs ==
    ASSUME game = "multi_stub", NEW row \in Row, row.state = "req_action", NEW own,
           Position(game, row, own), NEW code \in Mult!OnAction(row, own)
    PROVE  PlaysOut(game, "on_action", row, code.own, code.calls)
<1>1. MultiStubAt(row, own) /\ row.deposit <= MaxDeposit  BY DEF Position
<1>2. own \in [rounds : 0..MaxType, played : 0..MaxType] /\ own # NoOwn
      /\ (own.played = 0 \/ own.played < own.rounds)
  BY <1>1 DEF MultiStubAt
<1>3. PICK type \in Mult!Types, param \in Params :
        code = IF Mult!ActionAllowed(own, type, param)
               THEN Mult!Code([rounds |-> IF own.played = 0 THEN param
                                          ELSE own.rounds,
                               played |-> own.played + 1],
                              <<Mult!require_random>>)
               ELSE Mult!Fails
  BY DEF Mult!OnAction
<1>4. CASE ~Mult!ActionAllowed(own, type, param)
  BY <1>3, <1>4, SameFails, FailsPlays
<1>5. CASE Mult!ActionAllowed(own, type, param)
  <2>. DEFINE new == [rounds |-> IF own.played = 0 THEN param ELSE own.rounds,
                      played |-> own.played + 1]
  <2>1. code = Code(new, <<require_random>>)
    BY <1>3, <1>5, SameCode, SameCalls
  <2>2. /\ new.played = own.played + 1
        /\ new.rounds = IF own.played = 0 THEN param ELSE own.rounds
        /\ new \in [rounds : 0..MaxType, played : 0..MaxType] /\ new # NoOwn
        /\ new.played <= new.rounds
    <3>1. own.played = 0 => param \in 1..MaxType
      BY <1>5, SameFails, GamesAssumption DEF Mult!ActionAllowed
    <3>2. own.played \in 0..MaxType /\ own.rounds \in 0..MaxType /\ MaxType \in Nat
      BY <1>2, GamesAssumption
    <3>3. DOMAIN new # DOMAIN NoOwn  BY DEF NoOwn
    <3>4. new \in [rounds : 0..MaxType, played : 0..MaxType]
      BY <1>2, <3>1, <3>2
    <3>. QED  BY <1>2, <3>1, <3>2, <3>3, <3>4
  <2>. HIDE DEF new
  <2>3. Position(game, [row EXCEPT !.state = "req_signidice_part_1"], new)
    <3>. DEFINE drawn == [row EXCEPT !.state = "req_signidice_part_1"]
    <3>1. drawn.state = "req_signidice_part_1" /\ drawn.deposit = row.deposit
          /\ drawn.last_max_win = row.last_max_win
      BY DEF Row
    <3>. HIDE DEF drawn
    <3>2. MultiStubAt(drawn, new)  BY <1>1, <2>2, <3>1 DEF MultiStubAt
    <3>3. Position(game, drawn, new)  BY <1>1, <3>1, <3>2 DEF Position
    <3>. QED  BY <3>3 DEF drawn
  <2>. QED  BY <2>1, <2>3, CodeFields, Draws, OneCallPlays
<1>. QED  BY <1>4, <1>5

LEMMA OddOrEvenActs ==
    ASSUME game = "odd_or_even", NEW row \in Row, row.state = "req_action", NEW own,
           Position(game, row, own), NEW code \in Odd!OnAction(row, own)
    PROVE  PlaysOut(game, "on_action", row, code.own, code.calls)
<1>. DEFINE told == Announced(row, Odd!MaxWin(row))
            drawn == [told EXCEPT !.state = "req_signidice_part_1"]
<1>1. /\ own # NoOwn /\ row.deposit <= MaxDeposit
      /\ own \in [round : 1..Odd!MAX_NUM_ROUNDS, prev_round_deposit : Nat]
  BY DEF Position, OddOrEvenAt
<1>2. row.deposit \in Nat /\ Odd!WinOf(row) \in Int  BY DEF Row, Odd!WinOf
<1>3. /\ Odd!MaxWin(row) = update_max_win(row.token, Odd!WinOf(row))
      /\ Odd!MaxWin(row).call = "update_max_win"
      /\ Odd!MaxWin(row).amount = Odd!WinOf(row)
  BY SameCalls, CallNames DEF Odd!MaxWin
<1>4. /\ told = [row EXCEPT !.last_max_win = Odd!WinOf(row) - row.deposit]
      /\ told.deposit = row.deposit
      /\ told.last_max_win = Odd!WinOf(row) - row.deposit
  BY <1>3 DEF Announced, Row
<1>5. /\ drawn.state = "req_signidice_part_1" /\ drawn.deposit = row.deposit
      /\ drawn.last_max_win = Odd!WinOf(row) - row.deposit
      /\ Odd!WinOf(drawn) = Odd!WinOf(row)
  BY <1>4 DEF Row, Odd!WinOf
<1>. HIDE DEF told, drawn
<1>6. ASSUME NEW d, LastCall(game, "on_action", told, own, d)
      PROVE  PlaysOut(game, "on_action", row, own, <<Odd!MaxWin(row), d>>)
  BY <1>3, <1>6, TwoCallsPlay DEF told
<1>7. ASSUME NEW amount \in {row.deposit, Odd!WinOf(row)},
             code = Code(own, <<Odd!MaxWin(row), finish_game(row.token, amount)>>)
      PROVE  PlaysOut(game, "on_action", row, code.own, code.calls)
  <2>1. amount > told.deposit => amount = told.deposit + told.last_max_win
    BY <1>2, <1>4, <1>7
  <2>2. LastCall(game, "on_action", told, own, finish_game(row.token, amount))
    BY <2>1, Pays
  <2>. QED  BY <1>6, <1>7, <2>2, CodeFields
<1>8. ASSUME row.deposit > own.prev_round_deposit,
             code = Code(own, <<Odd!MaxWin(row), require_random>>)
      PROVE  PlaysOut(game, "on_action", row, code.own, code.calls)
  <2>1. Position(game, drawn, own)
    BY <1>1, <1>2, <1>5, <1>8 DEF Position, OddOrEvenAt, Rolling
  <2>2. LastCall(game, "on_action", told, own, require_random)
    BY <2>1, Draws DEF drawn
  <2>. QED  BY <1>6, <1>8, <2>2, CodeFields
<1>9. code \in {Odd!Take(row, own), Odd!Bet(row, own)}
  BY <1>1, SameFails DEF Odd!OnAction
<1>10. \/ code = Code(own, <<Odd!MaxWin(row), finish_game(row.token, row.deposit)>>)
       \/ code = Code(own, <<Odd!MaxWin(row), finish_game(row.token, Odd!WinOf(row))>>)
       \/ /\ code = Code(own, <<Odd!MaxWin(row), require_random>>)
          /\ row.deposit > own.prev_round_deposit
       \/ code = Fails
  BY <1>9, SameCode, SameCalls, SameFails DEF Odd!Take, Odd!Bet
<1>. QED  BY <1>7, <1>8, <1>10, FailsPlays

LEMMA ProtoDiceActs ==
    ASSUME game = "proto_dice", NEW row \in Row, row.state = "req_action", NEW own,
           Position(game, row, own), NEW code \in Dice!OnAction(row, own)
    PROVE  PlaysOut(game, "on_action", row, code.own, code.calls)
<1>1. row.token = CoreToken /\ row.deposit <= MaxDeposit
  BY DEF Position, ProtoDiceAt
<1>2. PICK num \in Numbers :
        code = IF num > 0 /\ num < 100 /\ own = Dice!NoOwn
               THEN Dice!Code([number |-> num],
                      <<Dice!update_max_win(CoreToken, Dice!calc_max_win(row, num)),
                        Dice!require_random>>)
               ELSE Dice!Fails
  BY DEF Dice!OnAction
<1>3. CASE ~(num > 0 /\ num < 100 /\ own = Dice!NoOwn)
  BY <1>2, <1>3, SameFails, FailsPlays
<1>4. CASE num > 0 /\ num < 100 /\ own = Dice!NoOwn
  <2>. DEFINE new == [number |-> num]
              win == Dice!calc_max_win(row, num)
              c == update_max_win(CoreToken, win)
              told == Announced(row, c)
              drawn == [told EXCEPT !.state = "req_signidice_part_1"]
  <2>1. code = Code(new, <<c, require_random>>)
    BY <1>2, <1>4, SameCode, SameCalls
  <2>2. new \in [number : 1..99] /\ new.number = num /\ new # NoOwn
    <3>1. num \in 1..99  BY <1>4, GamesAssumption
    <3>2. DOMAIN new # DOMAIN NoOwn  BY DEF NoOwn
    <3>. QED  BY <3>1, <3>2
  <2>3. c.call = "update_max_win" /\ c.amount = win  BY CallNames
  <2>. HIDE DEF c, new
  <2>4. told = [row EXCEPT !.last_max_win = win - row.deposit]
    BY <2>3 DEF Announced
  <2>. HIDE DEF told, win
  <2>5. /\ drawn.state = "req_signidice_part_1" /\ drawn.deposit = row.deposit
        /\ drawn.token = row.token /\ drawn.last_max_win = win - row.deposit
    BY <2>4 DEF Row
  <2>6. Dice!calc_max_win(drawn, num) = win
    BY <2>5 DEF Dice!calc_max_win, win
  <2>. HIDE DEF drawn
  <2>7. ProtoDiceAt(drawn, new)
    BY <1>1, <2>2, <2>5, <2>6 DEF ProtoDiceAt, Rolling
  <2>8. Position(game, drawn, new)  BY <1>1, <2>5, <2>7 DEF Position
  <2>9. LastCall(game, "on_action", told, new, require_random)
    BY <2>8, Draws DEF drawn
  <2>. QED  BY <2>1, <2>3, <2>9, CodeFields, TwoCallsPlay DEF told
<1>. QED  BY <1>3, <1>4

LEMMA WinRaiseLoseActs ==
    ASSUME game = "win_raise_lose", NEW row \in Row, row.state = "req_action",
           NEW own, Position(game, row, own), NEW code \in Wrl!OnAction(row, own)
    PROVE  PlaysOut(game, "on_action", row, code.own, code.calls)
<1>. DEFINE roll == [deposit |-> row.deposit]
            c == update_max_win(row.token, row.deposit * 2)
            told == Announced(row, c)
<1>1. row.deposit \in Nat /\ row.deposit <= MaxDeposit  BY DEF Row, Position
<1>2. c.call = "update_max_win" /\ c.amount = row.deposit * 2  BY CallNames
<1>3. \/ code = Code(roll, <<c, finish_game(row.token, 2 * row.deposit)>>)
      \/ code = Code(roll, <<c, finish_game(row.token, 0)>>)
      \/ code = Code(roll, <<c, require_action(TRUE)>>)
      \/ code = Fails
  BY SameCode, SameCalls, SameFails
     DEF Wrl!OnAction, Wrl!MaxWin, Wrl!Win, Wrl!WinCoef
<1>. HIDE DEF c, roll
<1>4. told = [row EXCEPT !.last_max_win = row.deposit * 2 - row.deposit]
  BY <1>2 DEF Announced
<1>. HIDE DEF told
<1>5. told.deposit = row.deposit /\ told.last_max_win = row.deposit
  BY <1>1, <1>4 DEF Row
<1>6. ASSUME NEW d, LastCall(game, "on_action", told, roll, d),
             code = Code(roll, <<c, d>>)
      PROVE  PlaysOut(game, "on_action", row, code.own, code.calls)
  BY <1>2, <1>6, CodeFields, TwoCallsPlay DEF told
<1>7. ASSUME NEW n \in {0, 2 * row.deposit}
      PROVE  LastCall(game, "on_action", told, roll, finish_game(row.token, n))
  <2>1. n > told.deposit => n = told.deposit + told.last_max_win
    BY <1>1, <1>5, <1>7
  <2>. QED  BY <2>1, Pays
<1>8. LastCall(game, "on_action", told, roll, require_action(TRUE))
  <2>. DEFINE raised == [told EXCEPT !.state = "req_allow_deposit"]
  <2>1. raised.state = "req_allow_deposit" /\ raised.deposit = row.deposit
    BY <1>4 DEF Row
  <2>2. Position(game, raised, roll)
    BY <1>1, <2>1 DEF Position, WinRaiseLoseAt, Rolling
  <2>. QED  BY <2>2, Asks
<1>. QED  BY <1>3, <1>6, <1>7, <1>8, FailsPlays

LEMMA ActionPlays ==
    ASSUME game \in GameNames, NEW row \in Row, row.state = "req_action", NEW own,
           Position(game, row, own), NEW code \in on_action(row, own)
    PROVE  PlaysOut(game, "on_action", row, code.own, code.calls)
<1>1. game \in {"stub", "multi_stub", "odd_or_even", "proto_dice", "win_raise_lose"}
  BY GamesAssumption
<1>. QED  BY <1>1, StubActs, MultiStubActs, OddOrEvenActs, ProtoDiceActs,
             WinRaiseLoseActs DEF on_action

-------------------------------------------------------------------------------
(* What finish_game accepts.                                                    *)

LEMMA LossAccepted ==
    ASSUME SmallAmounts, NEW row \in Row, BonusFits(row), row.deposit <= MaxDeposit,
           NEW p \in Nat, p <= row.deposit
    PROVE  PlayerLossOrTieAllowed(row, p)
<1>1. /\ row.deposit \in Nat \ {0} /\ row.bonus_deposit \in Nat
      /\ row.bonus_deposit <= row.deposit
      /\ MaxDeposit \in Nat /\ MaxPayout \in Nat /\ MaxAmount \in Nat
  BY BoundsAssumption, GamesAssumption, MaxAmountAssumption DEF Row, BonusFits
<1>2. p * row.bonus_deposit <= MaxAmount
  <2>1. p * row.bonus_deposit <= p * MaxDeposit  BY <1>1, MulMono
  <2>2. MaxDeposit * p <= MaxDeposit * (MaxDeposit + MaxPayout)  BY <1>1, MulMono
  <2>3. p * MaxDeposit = MaxDeposit * p  BY <1>1
  <2>4. MaxDeposit * (MaxDeposit + MaxPayout) <= MaxAmount
        /\ MaxDeposit * (MaxDeposit + MaxPayout) \in Nat
        /\ MaxDeposit * p \in Nat /\ p * row.bonus_deposit \in Nat
    BY <1>1 DEF SmallAmounts
  <2>. QED  BY <1>1, <2>1, <2>2, <2>3, <2>4
<1>3. row.bonus_deposit = 0 => BonusShare(p, row) = 0
  <2>1. ASSUME row.bonus_deposit = 0 PROVE p * row.bonus_deposit = 0  BY <2>1
  <2>2. 0 \div row.deposit = 0  BY <1>1
  <2>. QED  BY <2>1, <2>2 DEF BonusShare
<1>4. PlayerLossOrTie(row, p).sesaddbon = BonusShare(p, row)
  BY DEF PlayerLossOrTie
<1>5. row.bonus_deposit > 0 => row.token = CoreToken  BY DEF BonusFits
<1>6. BonusTokenOK(PlayerLossOrTie(row, p).sesaddbon, row)
  BY <1>1, <1>3, <1>4, <1>5 DEF BonusTokenOK
<1>. QED  BY <1>1, <1>2, <1>6 DEF PlayerLossOrTieAllowed, ShareComputable

LEMMA WinAccepted ==
    ASSUME SmallAmounts, NEW row \in Row, BonusFits(row), row.deposit <= MaxDeposit,
           NEW w \in Nat \ {0}, w <= MaxDeposit \/ w <= MaxPayout
    PROVE  PlayerWinAllowed(row, w)
<1>. DEFINE s == BonusShare(w, row)
<1>1. /\ row.deposit \in Nat \ {0} /\ row.bonus_deposit \in Nat
      /\ row.bonus_deposit <= row.deposit
      /\ MaxDeposit \in Nat /\ MaxPayout \in Nat /\ MaxAmount \in Nat
  BY BoundsAssumption, GamesAssumption, MaxAmountAssumption DEF Row, BonusFits
<1>2. w <= MaxDeposit + MaxPayout  BY <1>1
<1>3. w * row.bonus_deposit <= MaxAmount
  <2>1. w * row.bonus_deposit <= w * MaxDeposit  BY <1>1, MulMono
  <2>2. MaxDeposit * w <= MaxDeposit * (MaxDeposit + MaxPayout)
    BY <1>1, <1>2, MulMono
  <2>3. w * MaxDeposit = MaxDeposit * w  BY <1>1
  <2>4. MaxDeposit * (MaxDeposit + MaxPayout) <= MaxAmount
        /\ MaxDeposit * (MaxDeposit + MaxPayout) \in Nat
        /\ MaxDeposit * w \in Nat /\ w * row.bonus_deposit \in Nat
    BY <1>1 DEF SmallAmounts
  <2>. QED  BY <1>1, <2>1, <2>2, <2>3, <2>4
<1>4. s \in Nat /\ s <= w
  <2>1. Stake(row)  BY RowIsStake
  <2>. QED  BY <2>1, ShareBound
<1>5. /\ PlayerWin(row, w).sesaddbon = row.bonus_deposit + s
      /\ PlayerWin(row, w).sespayout = RealDeposit(row) + (w - s)
  BY DEF PlayerWin
<1>6. row.bonus_deposit = 0 => s = 0
  <2>1. ASSUME row.bonus_deposit = 0 PROVE w * row.bonus_deposit = 0  BY <2>1
  <2>2. 0 \div row.deposit = 0  BY <1>1
  <2>. QED  BY <2>1, <2>2 DEF BonusShare
<1>. HIDE DEF s
<1>7. row.deposit + w <= MaxAmount  BY <1>1, <1>2 DEF SmallAmounts
<1>8. /\ PlayerWin(row, w).sesaddbon <= MaxAmount
      /\ PlayerWin(row, w).sespayout <= MaxAmount
  BY <1>1, <1>4, <1>5, <1>7 DEF RealDeposit
<1>9. BonusTokenOK(PlayerWin(row, w).sesaddbon, row)
  BY <1>1, <1>4, <1>5, <1>6 DEF BonusTokenOK, BonusFits
<1>10. w > 0 /\ row.deposit # 0  BY <1>1
<1>. QED
  BY <1>3, <1>8, <1>9, <1>10, Zenon DEF PlayerWinAllowed, ShareComputable

(* finish_game pays any payout the casino was told to reckon with.              *)
LEMMA PayoutAccepted ==
    ASSUME SmallAmounts, NEW row \in Row, BonusFits(row), row.deposit <= MaxDeposit,
           row.state \in {"req_action", "req_signidice_part_2"},
           NEW payout \in Nat, payout - row.deposit <= row.last_max_win,
           payout <= row.deposit + MaxDeposit \/ payout <= row.deposit + MaxPayout
    PROVE  Accepted(row, finish_game(row.token, payout))
<1>1. row.deposit \in Nat /\ MaxDeposit \in Nat /\ MaxPayout \in Nat
  BY BoundsAssumption, GamesAssumption DEF Row
<1>2. CASE payout - row.deposit > 0
  <2>1. payout - row.deposit \in Nat \ {0}  BY <1>1, <1>2
  <2>2. payout - row.deposit <= MaxDeposit \/ payout - row.deposit <= MaxPayout
    BY <1>1
  <2>3. PlayerWinAllowed(row, payout - row.deposit)  BY <2>1, <2>2, WinAccepted
  <2>. QED  BY <1>2, <2>3, CallNames DEF Accepted, CanFinish, WithinMaxWin
<1>3. CASE ~(payout - row.deposit > 0)
  <2>1. PlayerLossOrTieAllowed(row, payout)  BY <1>1, <1>3, LossAccepted
  <2>. QED  BY <1>3, <2>1, CallNames DEF Accepted, CanFinish, WithinMaxWin
<1>. QED  BY <1>2, <1>3

-------------------------------------------------------------------------------
(* on_random, for a row whose second signature has come in.                     *)

RandomOK(row, own, code) ==
    /\ PlaysOut(game, "on_random", row, code.own, code.calls)
    /\ BonusFits(row) => Answers(game, row, code.calls)
    /\ game = "multi_stub" => code.own = own

LEMMA AnswerOK ==
    ASSUME NEW row, NEW own, NEW new, NEW c, NEW code, code = Code(new, <<c>>),
           LastCall(game, "on_random", row, new, c),
           BonusFits(row) => Welcome(game, row, c),
           game = "multi_stub" => new = own
    PROVE  RandomOK(row, own, code)
<1>1. code.own = new /\ code.calls = <<c>>  BY CodeFields
<1>2. <<c>>[1] = c  OBVIOUS
<1>3. PlaysOut(game, "on_random", row, new, <<c>>)  BY OneCallPlays
<1>4. BonusFits(row) => Answers(game, row, <<c>>)  BY <1>2, Zenon DEF Answers
<1>. QED  BY <1>1, <1>3, <1>4 DEF RandomOK

LEMMA StubAnswers ==
    ASSUME game = "stub", NEW row \in Row, row.state = "req_signidice_part_2",
           NEW own, Position(game, row, own), NEW code \in St!OnRandom(row, own)
    PROVE  RandomOK(row, own, code)
<1>1. row.last_max_win = 0 /\ row.deposit <= MaxDeposit  BY DEF Position, StubAt
<1>2. code = Code(NoOwn, <<finish_game(CoreToken, 0)>>)
  BY SameCode, SameCalls, SameFails DEF St!OnRandom
<1>3. row.deposit \in Nat /\ MaxDeposit \in Nat  BY BoundsAssumption DEF Row
<1>4. LastCall(game, "on_random", row, NoOwn, finish_game(CoreToken, 0))
  BY <1>3, Pays
<1>5. ASSUME SmallAmounts, BonusFits(row), row.token = CoreToken
      PROVE  Accepted(row, finish_game(CoreToken, 0))
  BY <1>1, <1>3, <1>5, PayoutAccepted
<1>6. BonusFits(row) => Welcome(game, row, finish_game(CoreToken, 0))
  BY <1>5 DEF Welcome, InItsToken
<1>. QED  BY <1>2, <1>4, <1>6, AnswerOK

LEMMA MultiStubAnswers ==
    ASSUME game = "multi_stub", NEW row \in Row, row.state = "req_signidice_part_2",
           NEW own, Position(game, row, own), NEW code \in Mult!OnRandom(row, own)
    PROVE  RandomOK(row, own, code)
<1>1. /\ row.last_max_win = 0 /\ row.deposit <= MaxDeposit /\ own # NoOwn
      /\ own \in [rounds : 0..MaxType, played : 0..MaxType]
      /\ own.played <= own.rounds
  BY DEF Position, MultiStubAt
<1>2. code = Code(own, IF own.played < own.rounds THEN <<require_action(FALSE)>>
                       ELSE <<finish_game(CoreToken, 0)>>)
  BY <1>1, SameCode, SameCalls, SameFails DEF Mult!OnRandom
<1>3. row.deposit \in Nat /\ MaxDeposit \in Nat  BY BoundsAssumption DEF Row
<1>4. CASE own.played < own.rounds
  <2>. DEFINE new == [row EXCEPT !.state = "req_action"]
  <2>1. /\ new.state = "req_action" /\ new.deposit = row.deposit
        /\ new.last_max_win = 0
    BY <1>1 DEF Row
  <2>. HIDE DEF new
  <2>2. Position(game, new, own)  BY <1>1, <1>4, <2>1 DEF Position, MultiStubAt
  <2>3. LastCall(game, "on_random", row, own, require_action(FALSE))
    BY <2>2, Asks DEF new
  <2>4. Welcome(game, row, require_action(FALSE))
    BY CallNames DEF Welcome, Accepted, CanRequireAction
  <2>. QED  BY <1>2, <1>4, <2>3, <2>4, AnswerOK
<1>5. CASE ~(own.played < own.rounds)
  <2>1. own.played = own.rounds  BY <1>1, <1>5, GamesAssumption
  <2>2. LastCall(game, "on_random", row, own, finish_game(CoreToken, 0))
    BY <1>3, <2>1, Pays
  <2>3. ASSUME SmallAmounts, BonusFits(row), row.token = CoreToken
        PROVE  Accepted(row, finish_game(CoreToken, 0))
    BY <1>1, <1>3, <2>3, PayoutAccepted
  <2>4. BonusFits(row) => Welcome(game, row, finish_game(CoreToken, 0))
    BY <2>3 DEF Welcome, InItsToken
  <2>. QED  BY <1>2, <1>5, <2>2, <2>4, AnswerOK
<1>. QED  BY <1>4, <1>5

LEMMA OddOrEvenAnswers ==
    ASSUME game = "odd_or_even", NEW row \in Row, row.state = "req_signidice_part_2",
           NEW own, Position(game, row, own), NEW code \in Odd!OnRandom(row, own)
    PROVE  RandomOK(row, own, code)
<1>. DEFINE rolled == Odd!Rolled(row, own)
            win == Odd!WinOf(row)
<1>1. /\ row.deposit <= MaxDeposit /\ own # NoOwn
      /\ own \in [round : 1..Odd!MAX_NUM_ROUNDS, prev_round_deposit : Nat]
      /\ row.last_max_win = win - row.deposit
  BY DEF Position, OddOrEvenAt, Rolling
<1>2. \/ code = Code(rolled, IF own.round = Odd!MAX_NUM_ROUNDS
                             THEN <<finish_game(row.token, win)>>
                             ELSE <<require_action(TRUE)>>)
      \/ code = Code(rolled, <<finish_game(row.token, row.deposit \div 2)>>)
  BY <1>1, SameCode, SameCalls, SameFails DEF Odd!OnRandom
<1>3. row.deposit \in Nat \ {0} /\ MaxDeposit \in Nat  BY BoundsAssumption DEF Row
<1>4. /\ win \in Nat /\ row.deposit \div 2 \in Nat
      /\ row.deposit \div 2 <= row.deposit /\ row.deposit <= win
      /\ win <= row.deposit + row.deposit
  BY <1>3 DEF Odd!WinOf
<1>. HIDE DEF win
<1>5. ASSUME NEW n \in {win, row.deposit \div 2},
             code = Code(rolled, <<finish_game(row.token, n)>>)
      PROVE  RandomOK(row, own, code)
  <2>1. n \in Nat /\ (n > row.deposit => n = row.deposit + row.last_max_win)
    BY <1>1, <1>3, <1>4, <1>5
  <2>2. LastCall(game, "on_random", row, rolled, finish_game(row.token, n))
    BY <2>1, Pays
  <2>3. n - row.deposit <= row.last_max_win /\ n <= row.deposit + MaxDeposit
    BY <1>1, <1>3, <1>4, <1>5
  <2>4. ASSUME SmallAmounts, BonusFits(row)
        PROVE  Accepted(row, finish_game(row.token, n))
    BY <1>1, <2>1, <2>3, <2>4, PayoutAccepted
  <2>5. BonusFits(row) => Welcome(game, row, finish_game(row.token, n))
    BY <2>4 DEF Welcome
  <2>. QED  BY <1>5, <2>2, <2>5, AnswerOK
<1>6. ASSUME own.round # Odd!MAX_NUM_ROUNDS,
             code = Code(rolled, <<require_action(TRUE)>>)
      PROVE  RandomOK(row, own, code)
  <2>. DEFINE new == [row EXCEPT !.state = "req_allow_deposit"]
  <2>1. new.state = "req_allow_deposit" /\ new.deposit = row.deposit
    BY DEF Row
  <2>2. /\ rolled.prev_round_deposit = row.deposit /\ rolled # NoOwn
        /\ rolled \in [round : 1..Odd!MAX_NUM_ROUNDS, prev_round_deposit : Nat]
    <3>1. DOMAIN rolled # DOMAIN NoOwn  BY DEF NoOwn, Odd!Rolled
    <3>2. own.round + 1 \in 1..Odd!MAX_NUM_ROUNDS
      BY <1>1, <1>6 DEF Odd!MAX_NUM_ROUNDS
    <3>. QED  BY <1>3, <3>1, <3>2 DEF Odd!Rolled
  <2>. HIDE DEF new, rolled
  <2>3. Position(game, new, rolled)
    BY <1>1, <1>3, <2>1, <2>2 DEF Position, OddOrEvenAt, Rolling
  <2>4. LastCall(game, "on_random", row, rolled, require_action(TRUE))
    BY <2>3, Asks DEF new
  <2>5. Welcome(game, row, require_action(TRUE))
    BY CallNames DEF Welcome, Accepted, CanRequireAction
  <2>. QED  BY <1>6, <2>4, <2>5, AnswerOK
<1>. QED  BY <1>2, <1>5, <1>6

LEMMA ProtoDiceAnswers ==
    ASSUME game = "proto_dice", NEW row \in Row, row.state = "req_signidice_part_2",
           NEW own, Position(game, row, own), NEW code \in Dice!OnRandom(row, own)
    PROVE  RandomOK(row, own, code)
<1>. DEFINE win == Dice!calc_max_win(row, own.number)
<1>1. /\ row.deposit <= MaxDeposit /\ row.token = CoreToken /\ own # NoOwn
      /\ own \in [number : 1..99] /\ row.last_max_win = win - row.deposit
  BY DEF Position, ProtoDiceAt
<1>2. PICK n \in {0, win} : code = Code(own, <<finish_game(row.token, n)>>)
  BY <1>1, SameCode, SameCalls, SameFails DEF Dice!OnRandom, Dice!Settled
<1>3. row.deposit \in Nat \ {0} /\ MaxDeposit \in Nat /\ MaxPayout \in Nat
  BY BoundsAssumption, GamesAssumption DEF Row
<1>4. win \in Nat /\ row.deposit <= win /\ win <= row.deposit + MaxPayout
  <2>1. 100 - own.number \in 1..99  BY <1>1
  <2>2. MaxPayout \div (100 - own.number) \in 0..MaxPayout
    <3>1. \A d \in 1..99 : MaxPayout \div d \in 0..MaxPayout
      <4>. SUFFICES ASSUME NEW d \in 1..99 PROVE MaxPayout \div d \in 0..MaxPayout
        OBVIOUS
      <4>1. MaxPayout \div d \in Nat /\ (MaxPayout \div d) * d <= MaxPayout
        BY <1>3, DivBracket
      <4>2. (MaxPayout \div d) * 1 <= (MaxPayout \div d) * d  BY <4>1, MulMono
      <4>. QED  BY <1>3, <4>1, <4>2
    <3>. QED  BY <2>1, <3>1
  <2>. QED  BY <1>3, <2>2 DEF Dice!calc_max_win
<1>. HIDE DEF win
<1>5. n \in Nat /\ (n > row.deposit => n = row.deposit + row.last_max_win)
       /\ n - row.deposit <= row.last_max_win /\ n <= row.deposit + MaxPayout
  BY <1>1, <1>3, <1>4
<1>6. LastCall(game, "on_random", row, own, finish_game(row.token, n))
  BY <1>5, Pays
<1>7. ASSUME SmallAmounts, BonusFits(row)
      PROVE  Accepted(row, finish_game(row.token, n))
  BY <1>1, <1>5, <1>7, PayoutAccepted
<1>8. BonusFits(row) => Welcome(game, row, finish_game(row.token, n))
  BY <1>7 DEF Welcome
<1>. QED  BY <1>2, <1>6, <1>8, AnswerOK

LEMMA RandomPlays ==
    ASSUME game \in GameNames, NEW row \in Row, row.state = "req_signidice_part_2",
           NEW own, Position(game, row, own), NEW code \in on_random(row, own)
    PROVE  RandomOK(row, own, code)
<1>1. game \in {"stub", "multi_stub", "odd_or_even", "proto_dice", "win_raise_lose"}
  BY GamesAssumption
<1>2. game # "win_raise_lose"  BY DEF Position, WinRaiseLoseAt, Rolling
<1>. QED  BY <1>1, <1>2, StubAnswers, MultiStubAnswers, OddOrEvenAnswers,
             ProtoDiceAnswers DEF on_random

-------------------------------------------------------------------------------
(* Positions that the SDK's own steps lead to.                                  *)

(* Only these fields of the row count.                                          *)
LEMMA PositionSame ==
    ASSUME NEW g, NEW own, NEW row, NEW new, Position(g, row, own),
           new.deposit = row.deposit, new.state = row.state,
           new.token = row.token, new.last_max_win = row.last_max_win
    PROVE  Position(g, new, own)
BY DEF Position, StubAt, MultiStubAt, OddOrEvenAt, Odd!WinOf, ProtoDiceAt,
   Dice!calc_max_win, WinRaiseLoseAt

LEMMA PositionMoved ==
    ASSUME NEW g, NEW own, NEW row, NEW new, Position(g, row, own),
           row.state \in {"req_action", "req_allow_deposit"},
           new.state = "req_action", new.deposit = row.deposit,
           new.token = row.token, new.last_max_win = row.last_max_win
    PROVE  Position(g, new, own)
BY DEF Position, StubAt, MultiStubAt, OddOrEvenAt, ProtoDiceAt, WinRaiseLoseAt, Rolling

LEMMA PositionSigned ==
    ASSUME NEW g, NEW own, NEW row, NEW new, Position(g, row, own),
           row.state = "req_signidice_part_1", new.state = "req_signidice_part_2",
           new.deposit = row.deposit, new.token = row.token,
           new.last_max_win = row.last_max_win
    PROVE  Position(g, new, own)
BY DEF Position, StubAt, MultiStubAt, OddOrEvenAt, Odd!WinOf, ProtoDiceAt,
   Dice!calc_max_win, WinRaiseLoseAt, Rolling

LEMMA PositionRaised ==
    ASSUME NEW g, NEW own, NEW row, NEW new, Position(g, row, own),
           row.state = "req_allow_deposit", new.state = "req_allow_deposit",
           row.deposit \in Nat, new.deposit \in Nat,
           row.deposit <= new.deposit, new.deposit <= MaxDeposit,
           new.token = row.token, new.last_max_win = row.last_max_win
    PROVE  Position(g, new, own)
BY DEF Position, StubAt, MultiStubAt, OddOrEvenAt, ProtoDiceAt, WinRaiseLoseAt, Rolling

LEMMA PositionFresh ==
    ASSUME NEW g, NEW new, new.state = "req_start", new.last_max_win = 0,
           new.deposit <= MaxDeposit
    PROVE  Position(g, new, NoOwn)
BY DEF Position, StubAt, MultiStubAt, OddOrEvenAt, ProtoDiceAt, WinRaiseLoseAt, Rolling

-------------------------------------------------------------------------------
(* The steps.                                                                   *)

(* One that runs no game code and settles nothing.                              *)
LEMMA PlayQuiet ==
    ASSUME PlayInv, UNCHANGED <<game, own_table, work>>, tx' = tx,
           receipt' = NoReceipt,
           \A id \in SesIds : sessions'[id] # NoRow
             => Position(game, sessions'[id], own_table[id])
    PROVE  PlayInv'
BY DEF PlayInv, Playing, AsAnnounced, Answers, Welcome, InItsToken, SmallAmounts

(* One that replaces a row and settles nothing.                                 *)
LEMMA PlayStore ==
    ASSUME LedgerInv, PlayInv, UNCHANGED <<game, own_table, work>>,
           NEW id \in SesIds, NEW row, NEW book, Store(id, row, book, NoReceipt),
           Position(game, row, own_table[id])
    PROVE  PlayInv'
<1>1. sessions' = [sessions EXCEPT ![id] = row] /\ receipt' = NoReceipt /\ tx' = tx
  BY DEF Store
<1>2. sessions \in [SesIds -> Row \cup {NoRow}]  BY DEF LedgerInv, TypeOK
<1>3. \A i \in SesIds : sessions'[i] # NoRow
        => Position(game, sessions'[i], own_table[i])
  BY <1>1, <1>2 DEF PlayInv
<1>. QED  BY <1>1, <1>3, PlayQuiet

LEMMA DepositPlays ==
    ASSUME LedgerInv, RowInv, PlayInv, UNCHANGED <<game, own_table, work>>,
           NEW id \in SesIds, Deposit(id)
    PROVE  PlayInv'
<1>. DEFINE row == sessions[id]
<1>1. row \in Row \cup {NoRow} /\ session_seq \in Nat
      /\ (row # NoRow => Position(game, row, own_table[id]))
  BY DEF LedgerInv, TypeOK, PlayInv
<1>2. PICK from \in Players, quantity \in Quantities :
        \/ \E token \in Tokens : OnTransfer(id, from, quantity, token)
        \/ DepositBonus(id, from, quantity)
  BY DEF Deposit
<1>3. quantity \in Nat /\ quantity # 0 /\ MaxDeposit \in Nat
  BY SetsAssumption, BoundsAssumption
<1>4. ASSUME NEW token \in Tokens, OnTransferNew(id, from, quantity, token)
      PROVE  PlayInv'
  <2>1. PICK new \in CreateSession(session_seq, from, token, quantity) :
          \E book : Store(id, new, book, NoReceipt)
    BY <1>4 DEF OnTransferNew
  <2>2. new.state = "req_start" /\ new.last_max_win = 0 /\ new.deposit = quantity
    BY DEF CreateSession
  <2>3. row = NoRow /\ quantity <= MaxDeposit  BY <1>4 DEF OnTransferNew
  <2>4. own_table[id] = NoOwn  BY <2>3 DEF RowInv, OwnRowsLive
  <2>5. Position(game, new, own_table[id])  BY <2>2, <2>3, <2>4, PositionFresh
  <2>. QED  BY <2>1, <2>5, PlayStore
<1>5. ASSUME NEW new, NEW book, row # NoRow,
             ExtraDepositAllowed(row, from, quantity), Store(id, new, book, NoReceipt),
             new.deposit = row.deposit + quantity, new.state = row.state,
             new.token = row.token, new.last_max_win = row.last_max_win
      PROVE  PlayInv'
  <2>1. /\ row.state = "req_allow_deposit" /\ row.deposit \in Nat
        /\ row.deposit + quantity <= MaxDeposit
    BY <1>1, <1>5 DEF ExtraDepositAllowed, Row
  <2>2. Position(game, new, own_table[id])
    BY <1>1, <1>3, <1>5, <2>1, PositionRaised
  <2>. QED  BY <1>5, <2>2, PlayStore
<1>6. ASSUME row # NoRow
      PROVE  LET new == HandleExtraDeposit(row, quantity)
                 bonus == [new EXCEPT !.bonus_deposit = @ + quantity]
             IN /\ new.deposit = row.deposit + quantity /\ new.state = row.state
                /\ new.token = row.token /\ new.last_max_win = row.last_max_win
                /\ bonus.deposit = row.deposit + quantity /\ bonus.state = row.state
                /\ bonus.token = row.token /\ bonus.last_max_win = row.last_max_win
  BY <1>1, <1>6 DEF HandleExtraDeposit, Row
<1>7. ASSUME NEW token \in Tokens, OnTransferExtra(id, from, quantity, token)
      PROVE  PlayInv'
  <2>1. row # NoRow /\ ExtraDepositAllowed(row, from, quantity)
    BY <1>7 DEF OnTransferExtra
  <2>2. PICK book : Store(id, HandleExtraDeposit(row, quantity), book, NoReceipt)
    BY <1>7 DEF OnTransferExtra
  <2>. QED  BY <1>5, <1>6, <2>1, <2>2
<1>8. CASE DepositBonus(id, from, quantity)
  <2>1. row # NoRow /\ ExtraDepositAllowed(row, from, quantity)
    BY <1>8 DEF DepositBonus
  <2>2. PICK book : Store(id, [HandleExtraDeposit(row, quantity)
                                EXCEPT !.bonus_deposit = @ + quantity],
                          book, NoReceipt)
    BY <1>8 DEF DepositBonus
  <2>. QED  BY <1>5, <1>6, <2>1, <2>2
<1>. QED  BY <1>2, <1>4, <1>7, <1>8 DEF OnTransfer

(* A callback the SDK enters has to lead on from the row it is given.           *)
LEMMA EnterPlays ==
    ASSUME PlayInv, UNCHANGED game, NEW id \in SesIds, Enter(id),
           NEW callback \in Callbacks, NEW row \in Row, NEW book, NEW seq, NEW random,
           Begin(callback, id, row, book, seq, random),
           \A code \in Codes(callback, row, own_table[id]) :
             /\ PlaysOut(game, callback, row, code.own, code.calls)
             /\ callback = "on_random" =>
                  /\ Answers(game, row, code.calls)
                  /\ game = "multi_stub" => code.own = own_table[id]
    PROVE  PlayInv'
<1>1. /\ tx' = [callback |-> callback, ses_id |-> id, row |-> row, book |-> book,
                seq |-> seq, random |-> random, receipt |-> NoReceipt]
      /\ receipt' = NoReceipt /\ UNCHANGED sessions
  BY DEF Begin
<1>2. /\ tx'.callback = callback /\ tx'.row = row /\ tx'.ses_id = id
      /\ tx'.receipt = NoReceipt
  BY <1>1
<1>3. tx' # NoTx /\ row # NoRow  BY <1>2, NoRowIsNoRow DEF NoTx, Callbacks
<1>4. work' \in Codes(callback, row, own_table[id]) /\ UNCHANGED own_table
  BY <1>2, <1>3 DEF Enter
<1>5. Playing(game, tx', own_table[id], work')
  BY <1>2, <1>3, <1>4 DEF Playing, AsAnnounced
<1>6. \A i \in SesIds : sessions[i] # NoRow => Position(game, sessions[i], own_table[i])
  BY DEF PlayInv
<1>7. PlayInv' = (/\ \A i \in SesIds : sessions'[i] # NoRow
                       => Position(game', sessions'[i], own_table'[i])
                  /\ tx' # NoTx => Playing(game', tx', own_table'[tx'.ses_id], work')
                  /\ AsAnnounced(receipt'))
  BY DEF PlayInv
<1>. QED  BY <1>1, <1>2, <1>4, <1>5, <1>6, <1>7 DEF AsAnnounced

LEMMA StartPlays ==
    ASSUME LedgerInv, SdkInv, RowInv, PlayInv, UNCHANGED game,
           NEW id \in SesIds, Start(id), Enter(id), LedgerInv'
    PROVE  PlayInv'
<1>1. /\ sessions[id] \in Row \cup {NoRow} /\ session_seq \in Nat
      /\ CoreToken \in Tokens /\ game \in GameNames
      /\ sessions[id] # NoRow => Position(game, sessions[id], own_table[id])
  BY SetsAssumption DEF LedgerInv, TypeOK, SdkInv, PlayInv
<1>2. ASSUME sessions[id] # NoRow => ~Started(sessions[id])
      PROVE  own_table[id] = NoOwn
  BY <1>2 DEF RowInv, OwnRowsLive
<1>3. ASSUME NEW casino_id \in Casinos, NEW row \in Row, NEW book, NEW seq,
             NewGameInternal(id, casino_id, row, book, seq),
             row.last_max_win = 0, row.deposit <= MaxDeposit, own_table[id] = NoOwn
      PROVE  PlayInv'
  <2>. DEFINE new == [row EXCEPT !.idle = 0, !.casino_id = casino_id,
                         !.digest = calc_seed(casino_id, row.ses_seq, row.player)]
  <2>1. /\ Begin("on_new_game", id, new, NotifyNewSession(book, casino_id), seq,
                 NoDigest)
        /\ row.state = "req_start"
    BY <1>3 DEF NewGameInternal
  <2>2. /\ new.state = "req_start" /\ new.last_max_win = 0
        /\ new.deposit <= MaxDeposit
    BY <1>3, <2>1 DEF Row
  <2>3. new \in Row
    <3>1. row.ses_seq \in Nat /\ row.player \in Players  BY DEF Row
    <3>2. calc_seed(casino_id, row.ses_seq, row.player) \in Digest
      BY <3>1, SeedType
    <3>. QED  BY <3>2 DEF Row
  <2>. HIDE DEF new
  <2>4. \A code \in Codes("on_new_game", new, own_table[id]) :
          PlaysOut(game, "on_new_game", new, code.own, code.calls)
    BY <1>1, <1>3, <2>2, <2>3, NewGamePlays DEF Codes
  <2>. QED  BY <2>1, <2>3, <2>4, EnterPlays DEF Callbacks
<1>4. ASSUME NEW casino_id \in Casinos, NewGame(id, casino_id) PROVE PlayInv'
  <2>1. /\ NewGameInternal(id, casino_id, sessions[id], books[id], session_seq)
        /\ sessions[id] # NoRow /\ sessions[id].state = "req_start"
    BY <1>4 DEF NewGame, NewGameInternal
  <2>2. /\ ~Started(sessions[id]) /\ sessions[id].last_max_win = 0
        /\ sessions[id] \in Row
    BY <2>1, UnstartedRow
  <2>3. sessions[id].deposit <= MaxDeposit  BY <1>1, <2>1 DEF Position
  <2>. QED  BY <1>2, <1>3, <2>1, <2>2, <2>3
<1>5. ASSUME NEW casino_id \in Casinos, NEW from \in Players,
             NEW quantity \in Quantities,
             NewGameBonus(id, casino_id, from, quantity)
      PROVE  PlayInv'
  <2>1. quantity \in Nat \ {0}  BY SetsAssumption
  <2>2. CASE sessions[id] # NoRow
    <3>. DEFINE row == sessions[id]
                new == AddBonus(row, quantity)
    <3>1. /\ NewGameInternal(id, casino_id, new,
               NotifyNewBonusDeposit(books[id], row.casino_id, quantity), session_seq)
          /\ row.deposit + quantity <= MaxDeposit
      BY <1>5, <2>2 DEF NewGameBonus
    <3>2. row \in Row /\ new \in Row  BY <1>1, <2>1, <2>2, AddBonusType
    <3>3. /\ new.state = row.state /\ new.deposit = row.deposit + quantity
          /\ new.last_max_win = row.last_max_win
      BY <3>2 DEF AddBonus, Row
    <3>4. row.state = "req_start"  BY <3>1, <3>3 DEF NewGameInternal
    <3>5. ~Started(row) /\ row.last_max_win = 0  BY <2>2, <3>4, UnstartedRow
    <3>. HIDE DEF new
    <3>. QED  BY <1>2, <1>3, <3>1, <3>2, <3>3, <3>5
  <2>3. CASE sessions[id] = NoRow
    <3>1. PICK row \in CreateSession(session_seq, from, CoreToken, 0) :
            /\ NewGameInternal(id, casino_id, AddBonus(row, quantity),
                 NotifyNewBonusDeposit(books[id], row.casino_id, quantity),
                 session_seq + 1)
            /\ row.deposit + quantity <= MaxDeposit
      BY <1>5, <2>3 DEF NewGameBonus
    <3>2. AddBonus(row, quantity) \in Row /\ row.deposit = 0
      BY <1>1, <2>1, CreateType
    <3>3. /\ AddBonus(row, quantity).last_max_win = 0
          /\ AddBonus(row, quantity).deposit = row.deposit + quantity
      BY DEF CreateSession, AddBonus
    <3>. QED  BY <1>2, <1>3, <2>3, <3>1, <3>2, <3>3
  <2>. QED  BY <2>2, <2>3
<1>. QED  BY <1>4, <1>5 DEF Start

LEMMA MovePlays ==
    ASSUME LedgerInv, LedgerInv', SdkInv, PlayInv, UNCHANGED game,
           NEW id \in SesIds, Play(id), Enter(id)
    PROVE  PlayInv'
<1>. DEFINE row == sessions[id]
            own == own_table[id]
<1>1. /\ row \in Row \cup {NoRow} /\ game \in GameNames
      /\ row # NoRow => Position(game, row, own)
  BY DEF LedgerInv, TypeOK, SdkInv, PlayInv
<1>. HIDE DEF own
<1>2. ASSUME GameAction(id) PROVE PlayInv'
  <2>. DEFINE new == [row EXCEPT !.idle = 0, !.state = "req_action", !.acted = TRUE]
  <2>1. /\ Begin("on_action", id, new, [books[id] EXCEPT !.moved = TRUE],
                 session_seq, NoDigest)
        /\ row # NoRow /\ row.state \in {"req_action", "req_allow_deposit"}
    BY <1>2 DEF GameAction
  <2>2. /\ new \in Row /\ new.state = "req_action" /\ new.deposit = row.deposit
        /\ new.token = row.token /\ new.last_max_win = row.last_max_win
    BY <1>1, <2>1 DEF Row, States
  <2>. HIDE DEF new
  <2>3. Position(game, new, own)  BY <1>1, <2>1, <2>2, PositionMoved
  <2>4. \A code \in Codes("on_action", new, own) :
          PlaysOut(game, "on_action", new, code.own, code.calls)
    BY <1>1, <2>2, <2>3, ActionPlays DEF Codes
  <2>. QED  BY <2>1, <2>2, <2>4, EnterPlays DEF Callbacks, own
<1>3. ASSUME NEW sign \in Signatures, SignidicePart1(id, sign) PROVE PlayInv'
  <2>. DEFINE new == [row EXCEPT !.digest = Sha256(sign), !.idle = 0,
                                 !.state = "req_signidice_part_2"]
  <2>1. /\ Store(id, new, books[id], NoReceipt) /\ row # NoRow /\ tx = NoTx
        /\ row.state = "req_signidice_part_1"
    BY <1>3 DEF SignidicePart1, Ready
  <2>2. /\ new.state = "req_signidice_part_2" /\ new.deposit = row.deposit
        /\ new.token = row.token /\ new.last_max_win = row.last_max_win
    BY <1>1, <2>1 DEF Row
  <2>. HIDE DEF new
  <2>3. Position(game, new, own)  BY <1>1, <2>1, <2>2, PositionSigned
  <2>4. sessions' = [sessions EXCEPT ![id] = new] /\ receipt' = NoReceipt
        /\ tx' = NoTx /\ UNCHANGED own_table
        /\ sessions \in [SesIds -> Row \cup {NoRow}]
    BY <2>1 DEF Store, Enter, LedgerInv, TypeOK
  <2>5. \A i \in SesIds : sessions'[i] # NoRow
          => Position(game, sessions'[i], own_table[i])
    BY <2>3, <2>4 DEF PlayInv, own
  <2>. QED  BY <2>4, <2>5 DEF PlayInv, AsAnnounced
<1>4. ASSUME NEW sign \in Signatures, SignidicePart2(id, sign) PROVE PlayInv'
  <2>. DEFINE new == [row EXCEPT !.digest = Sha256(sign), !.idle = 0]
  <2>1. /\ Begin("on_random", id, new, books[id], session_seq, Sha256(sign))
        /\ row # NoRow /\ row.state = "req_signidice_part_2"
    BY <1>4 DEF SignidicePart2
  <2>2. /\ new.state = row.state /\ new.deposit = row.deposit
        /\ new.token = row.token /\ new.last_max_win = row.last_max_win
        /\ new.bonus_deposit = row.bonus_deposit
    BY <1>1, <2>1 DEF Row
  <2>3. new \in Row /\ BonusFits(new)
    <3>1. row \in Row  BY <1>1, <2>1
    <3>2. Sha256(sign) \in Digest  BY <1>4, <3>1, SignedType DEF SignidicePart2
    <3>3. new \in Row  BY <3>1, <3>2 DEF Row
    <3>4. BonusFits(row)  BY <2>1 DEF LedgerInv, Sound
    <3>. QED  BY <2>2, <3>3, <3>4 DEF BonusFits
  <2>. HIDE DEF new
  <2>4. Position(game, new, own)  BY <1>1, <2>1, <2>2, PositionSame
  <2>5. \A code \in Codes("on_random", new, own) : RandomOK(new, own, code)
    BY <1>1, <2>1, <2>2, <2>3, <2>4, RandomPlays DEF Codes
  <2>. QED  BY <2>1, <2>3, <2>5, EnterPlays DEF Callbacks, RandomOK, own
<1>. QED  BY <1>2, <1>3, <1>4 DEF Play

(* A call goes through only if the SDK accepts it, and then does what After or  *)
(* finish_game say.                                                             *)
LEMMA CallDoes ==
    ASSUME LedgerInv, InCallback, NEW c \in SdkCalls, Call(c)
    PROVE  /\ Accepted(tx.row, c)
           /\ tx'.callback = tx.callback /\ tx'.ses_id = tx.ses_id /\ tx' # NoTx
           /\ UNCHANGED <<sessions, receipt>>
           /\ IF c.call = "finish_game"
              THEN /\ tx'.row = NoRow /\ tx'.receipt # NoReceipt
                   /\ tx'.receipt.row = tx.row
                   /\ tx'.receipt.outcome.payout = c.amount
              ELSE tx'.row = After(tx.row, c) /\ tx'.receipt = tx.receipt
<1>1. tx \in Tx /\ tx.row \in Row /\ tx # NoTx
  BY InCallbackType DEF LedgerInv, InCallback
<1>2. ASSUME tx'.callback = tx.callback PROVE tx' # NoTx
  BY <1>1, <1>2 DEF Tx, NoTx, Callbacks
<1>3. CASE c.call = "require_action" /\ RequireAction(c.allow_deposit)
  <2>1. tx' = [tx EXCEPT !.row = After(tx.row, c)]
    BY <1>1, <1>3 DEF RequireAction, After, Tx, Row
  <2>. QED
    BY <1>1, <1>2, <1>3, <2>1 DEF RequireAction, Accepted, Tx
<1>4. CASE c.call = "require_random" /\ RequireRandom
  <2>1. tx' = [tx EXCEPT !.row = After(tx.row, c)]
    BY <1>1, <1>4 DEF RequireRandom, After, Tx, Row
  <2>. QED
    BY <1>1, <1>2, <1>4, <2>1 DEF RequireRandom, Accepted, Tx
<1>5. CASE c.call = "update_max_win" /\ c.token = tx.row.token /\ UpdateMaxWin(c.amount)
  <2>1. PICK book : tx' = [tx EXCEPT
            !.row.last_max_win = c.amount - tx.row.deposit, !.book = book]
    BY <1>5 DEF UpdateMaxWin
  <2>2. tx'.row = After(tx.row, c)
    BY <1>1, <1>5, <2>1 DEF After, Announced, Tx, Row
  <2>. QED
    BY <1>1, <1>2, <1>5, <2>1, <2>2 DEF UpdateMaxWin, Accepted, Tx
<1>6. CASE c.call = "finish_game" /\ c.token = tx.row.token /\ FinishGame(c.amount)
  <2>. DEFINE o == IF c.amount - tx.row.deposit > 0
                   THEN PlayerWin(tx.row, c.amount - tx.row.deposit)
                   ELSE PlayerLossOrTie(tx.row, c.amount)
              rcpt == ReceiptOf("finish", tx.row, tx.book, o)
  <2>1. PICK book : tx' = [tx EXCEPT !.row = NoRow, !.book = book, !.receipt = rcpt]
    BY <1>6 DEF FinishGame
  <2>2. c.amount \in Nat /\ tx.row.deposit \in Nat  BY <1>1, <1>6 DEF SdkCalls, Row
  <2>3. o.payout = c.amount  BY <2>2 DEF PlayerWin, PlayerLossOrTie
  <2>. HIDE DEF o
  <2>4. rcpt.row = tx.row /\ rcpt.outcome = o /\ rcpt # NoReceipt
    BY DEF ReceiptOf, NoReceipt
  <2>. HIDE DEF rcpt
  <2>5. tx'.row = NoRow /\ tx'.receipt = rcpt /\ tx'.callback = tx.callback
        /\ tx'.ses_id = tx.ses_id
    BY <1>1, <2>1 DEF Tx
  <2>6. CanFinish(tx.row, c.amount) /\ UNCHANGED <<sessions, receipt>>
    BY <1>6 DEF FinishGame
  <2>. QED  BY <1>2, <1>6, <2>3, <2>4, <2>5, <2>6 DEF Accepted
<1>. QED  BY <1>3, <1>4, <1>5, <1>6 DEF Call

LEMMA HeadTailOne ==
    ASSUME NEW s, NEW a, s = <<a>>
    PROVE  Head(s) = a /\ Tail(s) = <<>>
<1>1. Head(<<a>>) = a /\ Tail(<<a>>) = <<>>  OBVIOUS
<1>. QED  BY <1>1

LEMMA HeadTailTwo ==
    ASSUME NEW s, NEW a, NEW b, s = <<a, b>>
    PROVE  Head(s) = a /\ Tail(s) = <<b>>
<1>1. Head(<<a, b>>) = a /\ Tail(<<a, b>>) = <<b>>  OBVIOUS
<1>. QED  BY <1>1

LEMMA MakeCallPlays ==
    ASSUME LedgerInv, SdkInv, PlayInv, UNCHANGED game, MakeCall
    PROVE  PlayInv'
<1>. DEFINE c == Head(work.calls)
            stored == own_table[tx.ses_id]
<1>1. work.calls \in Seq(SdkCalls) /\ work.calls # <<>> /\ Call(c) /\ tx # NoTx
  BY DEF SdkInv, CodeOK, MakeCall
<1>2. c \in SdkCalls  BY <1>1
<1>3. InCallback
  BY <1>1 DEF Call, RequireAction, RequireRandom, UpdateMaxWin, FinishGame
<1>4. tx.row # NoRow  BY <1>3 DEF InCallback
<1>5. /\ PlaysOut(game, tx.callback, tx.row, work.own, work.calls)
      /\ tx.callback = "on_random" =>
           /\ Answers(game, tx.row, work.calls)
           /\ game = "multi_stub" => work.own = stored
      /\ AsAnnounced(tx.receipt)
  BY <1>1, <1>4 DEF PlayInv, Playing
<1>6. /\ UNCHANGED own_table /\ work'.calls = Tail(work.calls)
      /\ work'.own = IF tx'.row = NoRow THEN on_finish(work.own) ELSE work.own
  BY DEF MakeCall, Code
<1>7. /\ Accepted(tx.row, c)
      /\ tx'.callback = tx.callback /\ tx'.ses_id = tx.ses_id /\ tx' # NoTx
      /\ UNCHANGED <<sessions, receipt>>
      /\ IF c.call = "finish_game"
         THEN /\ tx'.row = NoRow /\ tx'.receipt # NoReceipt
              /\ tx'.receipt.row = tx.row
              /\ tx'.receipt.outcome.payout = c.amount
         ELSE tx'.row = After(tx.row, c) /\ tx'.receipt = tx.receipt
  BY <1>1, <1>2, <1>3, CallDoes
<1>8. ASSUME Playing(game, tx', stored, work') PROVE PlayInv'
  <2>1. PlayInv' = (/\ \A i \in SesIds : sessions'[i] # NoRow
                         => Position(game', sessions'[i], own_table'[i])
                    /\ tx' # NoTx
                         => Playing(game', tx', own_table'[tx'.ses_id], work')
                    /\ AsAnnounced(receipt'))
    BY DEF PlayInv
  <2>. QED  BY <1>6, <1>7, <1>8, <2>1 DEF PlayInv
<1>9. CASE work.calls = <<work.calls[1]>>
           /\ LastCall(game, tx.callback, tx.row, work.own, work.calls[1])
  <2>1. c = work.calls[1] /\ work'.calls = <<>>
    <3>. DEFINE a == work.calls[1]
    <3>1. work.calls = <<a>>  BY <1>9
    <3>. HIDE DEF a
    <3>2. Head(work.calls) = a /\ Tail(work.calls) = <<>>  BY <3>1, HeadTailOne
    <3>. QED  BY <1>6, <3>2 DEF a
  <2>2. CASE c.call = "finish_game"
    <3>1. /\ c.amount > tx.row.deposit
               => c.amount = tx.row.deposit + tx.row.last_max_win
          /\ game = "multi_stub" =>
               tx.callback = "on_random" /\ work.own.played = work.own.rounds
      BY <1>7, <1>9, <2>1, <2>2 DEF LastCall
    <3>2. Playing(game, tx', stored, work')
      BY <1>5, <1>7, <2>1, <2>2, <3>1 DEF Playing, AsAnnounced
    <3>. QED  BY <1>8, <3>2
  <2>3. CASE c.call # "finish_game"
    <3>1. Position(game, tx'.row, work.own)
      BY <1>7, <1>9, <2>1, <2>3 DEF LastCall
    <3>2. tx'.row # NoRow
      <4>1. tx.row \in Row  BY <1>3, InCallbackType DEF LedgerInv
      <4>2. DOMAIN After(tx.row, c) = DOMAIN tx.row  BY DEF After, Announced
      <4>3. DOMAIN tx.row # DOMAIN NoRow  BY <4>1 DEF Row, NoRow
      <4>. QED  BY <1>7, <2>3, <4>2, <4>3
    <3>3. Playing(game, tx', stored, work')
      BY <1>5, <1>6, <1>7, <2>1, <2>3, <3>1, <3>2 DEF Playing, PlaysOut, Answers
    <3>. QED  BY <1>8, <3>3
  <2>. QED  BY <2>2, <2>3
<1>10. CASE /\ work.calls = <<work.calls[1], work.calls[2]>>
            /\ work.calls[1].call = "update_max_win"
            /\ Accepted(tx.row, work.calls[1]) =>
                 LastCall(game, tx.callback, Announced(tx.row, work.calls[1]),
                          work.own, work.calls[2])
  <2>. DEFINE d == work.calls[2]
  <2>1. c = work.calls[1] /\ work'.calls = <<d>>
    <3>1. Head(work.calls) = work.calls[1] /\ Tail(work.calls) = <<work.calls[2]>>
      <4>. DEFINE a == work.calls[1]
                  b == work.calls[2]
      <4>1. work.calls = <<a, b>>  BY <1>10
      <4>. HIDE DEF a, b
      <4>2. Head(work.calls) = a /\ Tail(work.calls) = <<b>>
        BY <4>1, HeadTailTwo
      <4>. QED  BY <4>2 DEF a, b
    <3>. QED  BY <1>6, <3>1
  <2>2. tx'.row = Announced(tx.row, c) /\ tx'.receipt = tx.receipt
    BY <1>7, <1>10, <2>1 DEF After
  <2>3. LastCall(game, tx'.callback, tx'.row, work.own, d)
    BY <1>7, <1>10, <2>1, <2>2
  <2>. HIDE DEF d
  <2>4. PlaysOut(game, tx'.callback, tx'.row, work.own, work'.calls)
    BY <2>1, <2>3, OneCallPlays
  <2>5. tx'.callback # "on_random"
    <3>1. \A a, b, e : <<a, b>> # <<e>> /\ <<a, b>> # <<>>  OBVIOUS
    <3>. QED  BY <1>5, <1>7, <1>10, <3>1 DEF Answers
  <2>6. tx'.row # NoRow
    <3>1. tx.row \in Row  BY <1>3, InCallbackType DEF LedgerInv
    <3>2. DOMAIN Announced(tx.row, c) = DOMAIN tx.row  BY DEF Announced
    <3>3. DOMAIN tx.row # DOMAIN NoRow  BY <3>1 DEF Row, NoRow
    <3>. QED  BY <2>2, <3>2, <3>3
  <2>7. Playing(game, tx', stored, work')
    BY <1>5, <1>6, <2>2, <2>4, <2>5, <2>6 DEF Playing
  <2>. QED  BY <1>8, <2>7
<1>. QED  BY <1>1, <1>5, <1>9, <1>10 DEF PlaysOut

LEMMA ReturnPlays ==
    ASSUME LedgerInv, SdkInv, PlayInv, UNCHANGED game, GameReturn
    PROVE  PlayInv'
<1>. DEFINE id == tx.ses_id
<1>1. /\ tx # NoTx /\ tx' = NoTx /\ work.calls = <<>> /\ receipt' = tx.receipt
      /\ sessions' = [sessions EXCEPT ![id] = tx.row]
      /\ own_table' = [own_table EXCEPT ![id] = work.own]
      /\ sessions \in [SesIds -> Row \cup {NoRow}] /\ DOMAIN own_table = SesIds
  BY DEF GameReturn, Commit, LedgerInv, TypeOK, SdkInv
<1>2. Playing(game, tx, own_table[id], work)  BY <1>1 DEF PlayInv
<1>. HIDE DEF id
<1>3. ASSUME tx.row # NoRow PROVE Position(game, tx.row, work.own)
  <2>1. \A a, b : <<>> # <<a>> /\ <<>> # <<a, b>>  OBVIOUS
  <2>. QED  BY <1>1, <1>2, <1>3, <2>1 DEF Playing, PlaysOut
<1>4. ASSUME NEW i \in SesIds, sessions'[i] # NoRow
      PROVE  Position(game, sessions'[i], own_table'[i])
  <2>1. CASE i = id  BY <1>1, <1>3, <1>4, <2>1
  <2>2. CASE i # id
    <3>1. sessions'[i] = sessions[i] /\ own_table'[i] = own_table[i]
      BY <1>1, <2>2
    <3>. QED  BY <1>4, <3>1 DEF PlayInv
  <2>. QED  BY <2>1, <2>2
<1>5. AsAnnounced(tx.receipt)  BY <1>2 DEF Playing
<1>. QED  BY <1>1, <1>4, <1>5 DEF PlayInv, AsAnnounced

(* close pays what was announced, the deposit or nothing.                       *)
LEMMA ClosePlays ==
    ASSUME LedgerInv, SdkInv, PlayInv, UNCHANGED game, NEW id \in SesIds, GameClose(id)
    PROVE  PlayInv'
<1>. DEFINE row == sessions[id]
            o == CloseOutcome(row)
            rcpt == ReceiptOf("close", row, books[id], o)
<1>1. /\ row \in Row /\ tx' = NoTx /\ receipt' = rcpt
      /\ sessions' = [sessions EXCEPT ![id] = NoRow]
      /\ sessions \in [SesIds -> Row \cup {NoRow}]
  BY DEF GameClose, Close, Ready, Store, LedgerInv, TypeOK
<1>2. \A i \in SesIds : i # id => own_table'[i] = own_table[i]
  BY DEF GameClose, SdkInv
<1>3. row.deposit \in Nat /\ row.last_max_win \in Int  BY <1>1 DEF Row
<1>4. o.payout > row.deposit => o.payout = row.deposit + row.last_max_win
  BY <1>3 DEF CloseOutcome, PlayerWin, PlayerLossOrTie
<1>5. rcpt.row = row /\ rcpt.outcome = o  BY DEF ReceiptOf
<1>. HIDE DEF rcpt, o
<1>6. AsAnnounced(rcpt)  BY <1>4, <1>5 DEF AsAnnounced
<1>7. \A i \in SesIds : sessions'[i] # NoRow
        => Position(game, sessions'[i], own_table'[i])
  BY <1>1, <1>2 DEF PlayInv
<1>. QED  BY <1>1, <1>6, <1>7 DEF PlayInv, AsAnnounced

LEMMA EnvironmentPlays ==
    ASSUME LedgerInv, PlayInv, UNCHANGED <<game, own_table, work>>, Environment
    PROVE  PlayInv'
<1>1. tx' = tx /\ receipt' = NoReceipt
  BY DEF Environment, InitContract, Toggle, Tick
<1>2. sessions \in [SesIds -> Row \cup {NoRow}]  BY DEF LedgerInv, TypeOK
<1>3. CASE Tick
  <2>1. ASSUME NEW id \in SesIds, sessions'[id] # NoRow
        PROVE  Position(game, sessions'[id], own_table[id])
    <3>. DEFINE row == sessions[id]
    <3>1. sessions'[id] = Older(row)  BY <1>3 DEF Tick
    <3>2. row # NoRow /\ row \in Row  BY <1>2, <2>1, <3>1 DEF Older
    <3>3. /\ Older(row).deposit = row.deposit /\ Older(row).state = row.state
          /\ Older(row).token = row.token
          /\ Older(row).last_max_win = row.last_max_win
      BY <3>2 DEF Older, Row
    <3>4. Position(game, row, own_table[id])  BY <3>2 DEF PlayInv
    <3>. QED  BY <3>1, <3>3, <3>4, PositionSame
  <2>. QED  BY <1>1, <2>1, PlayQuiet
<1>4. CASE UNCHANGED sessions
  BY <1>1, <1>4, PlayQuiet DEF PlayInv
<1>. QED  BY <1>3, <1>4 DEF Environment, InitContract, Toggle

LEMMA PlayStep ==
    ASSUME LedgerInv, LedgerInv', SdkInv, RowInv, PlayInv, [GameNext]_gameVars
    PROVE  PlayInv'
<1>1. CASE UNCHANGED gameVars
  <2>1. PlayInv' = (/\ \A i \in SesIds : sessions'[i] # NoRow
                         => Position(game', sessions'[i], own_table'[i])
                    /\ tx' # NoTx
                         => Playing(game', tx', own_table'[tx'.ses_id], work')
                    /\ AsAnnounced(receipt'))
    BY DEF PlayInv
  <2>. QED  BY <1>1, <2>1 DEF gameVars, vars, PlayInv
<1>2. CASE GameNext
  <2>. UNCHANGED game  BY <1>2 DEF GameNext
  <2>1. ASSUME NEW id \in SesIds, Deposit(id), UNCHANGED <<own_table, work>>
        PROVE  PlayInv'
    BY <2>1, DepositPlays
  <2>2. ASSUME NEW id \in SesIds, Start(id), Enter(id) PROVE PlayInv'
    BY <2>2, StartPlays
  <2>3. ASSUME NEW id \in SesIds, Play(id), Enter(id) PROVE PlayInv'
    BY <2>3, MovePlays
  <2>4. ASSUME NEW id \in SesIds, GameClose(id) PROVE PlayInv'
    BY <2>4, ClosePlays
  <2>5. CASE MakeCall  BY <2>5, MakeCallPlays
  <2>6. CASE GameReturn  BY <2>6, ReturnPlays
  <2>7. CASE GameAbort
    BY <2>7 DEF GameAbort, Abort, PlayInv
  <2>8. CASE Environment /\ UNCHANGED <<own_table, work>>
    BY <2>8, EnvironmentPlays
  <2>. QED  BY <1>2, <2>1, <2>2, <2>3, <2>4, <2>5, <2>6, <2>7, <2>8
            DEF GameNext, GameStep
<1>. QED  BY <1>1, <1>2

-------------------------------------------------------------------------------
(* The promises.                                                                *)

AllInv == LedgerInv /\ SessionInv /\ SdkInv /\ RowInv /\ PlayInv

(* The invariant by induction of all four games' promises, for any tables,      *)
(* amounts, numbers and rolls.                                                  *)
LEMMA Plays ==
    ASSUME Payouts = Nat, MaxWins = Nat
    PROVE  GameSpec => []AllInv
<1>1. GameInit => AllInv
  <2>. SUFFICES ASSUME GameInit PROVE AllInv  OBVIOUS
  <2>1. RowInv  BY DEF GameInit, Init, RowInv, OwnRowsLive, Idle, Code
  <2>2. PlayInv  BY DEF GameInit, Init, PlayInv, AsAnnounced
  <2>. QED  BY <2>1, <2>2, GamesStart DEF AllInv
<1>2. AllInv /\ [GameNext]_gameVars => AllInv'
  <2>. SUFFICES ASSUME AllInv, [GameNext]_gameVars PROVE AllInv'  OBVIOUS
  <2>1. [Next]_vars /\ LedgerInv' /\ SessionInv' /\ SdkInv'
    BY SdkStep DEF AllInv
  <2>2. Good  BY <2>1, SessionStep DEF AllInv
  <2>3. RowInv'  BY <2>1, <2>2, RowStep DEF AllInv
  <2>4. PlayInv'  BY <2>1, PlayStep DEF AllInv
  <2>. QED  BY <2>1, <2>3, <2>4 DEF AllInv
<1>. QED  BY <1>1, <1>2, PTL DEF GameSpec

(* A player who wins is paid the win the game had announced, whichever game it  *)
(* is: what the casino set aside is what the player gets.                       *)
THEOREM WinsAreAsAnnounced ==
    ASSUME Payouts = Nat, MaxWins = Nat
    PROVE  GameSpec => []WinAsAnnounced
<1>1. AllInv => WinAsAnnounced
  BY DEF AllInv, PlayInv, AsAnnounced, WinAsAnnounced
<1>. QED  BY <1>1, Plays, PTL

(* multi_stub plays as many rounds as the player asked for, for every           *)
(* numeric_limit of the round count.                                            *)
THEOREM MultiStubPlaysAllRounds ==
    ASSUME Payouts = Nat, MaxWins = Nat
    PROVE  GameSpec => []RoundsAsAsked
<1>1. AllInv => RoundsAsAsked
  <2>. SUFFICES ASSUME AllInv, game = "multi_stub" PROVE RoundsAsAsked
    BY DEF RoundsAsAsked
  <2>1. ASSUME NEW id \in SesIds, sessions[id] # NoRow, own_table[id] # NoOwn,
               sessions[id].state = "req_action"
        PROVE  own_table[id].played = 0
                 \/ own_table[id].played < own_table[id].rounds
    BY <2>1 DEF AllInv, PlayInv, Position, MultiStubAt
  <2>2. ASSUME tx # NoTx, tx.row = NoRow
        PROVE  own_table[tx.ses_id].played = own_table[tx.ses_id].rounds
    BY <2>2 DEF AllInv, PlayInv, Playing
  <2>. QED  BY <2>1, <2>2 DEF RoundsAsAsked
<1>. QED  BY <1>1, Plays, PTL

(* Every roll of odd_or_even is for a stake above the one already won on.       *)
THEOREM OddOrEvenRaisesStakes ==
    ASSUME Payouts = Nat, MaxWins = Nat
    PROVE  GameSpec => []RaisesStake
<1>1. AllInv => RaisesStake
  <2>. SUFFICES ASSUME AllInv, game = "odd_or_even", NEW id \in SesIds,
                       sessions[id] # NoRow, own_table[id] # NoOwn
                PROVE  /\ own_table[id].round <= Odd!MAX_NUM_ROUNDS
                       /\ IF sessions[id].state \in Rolling
                          THEN own_table[id].prev_round_deposit < sessions[id].deposit
                          ELSE own_table[id].prev_round_deposit <= sessions[id].deposit
    BY DEF RaisesStake, Rolling
  <2>1. OddOrEvenAt(sessions[id], own_table[id])  BY DEF AllInv, PlayInv, Position
  <2>. QED  BY <2>1 DEF OddOrEvenAt, Odd!MAX_NUM_ROUNDS
<1>. QED  BY <1>1, Plays, PTL

(* Once both signatures are in, the SDK refuses nothing the game asks for, as   *)
(* long as the products a settlement computes fit an asset; on chain, with      *)
(* 2^62 - 1, deposits and wins up to a billion units do.                        *)
THEOREM RandomIsAccepted ==
    ASSUME Payouts = Nat, MaxWins = Nat, SmallAmounts
    PROVE  GameSpec => []RandomAccepted
<1>1. AllInv => RandomAccepted
  <2>. SUFFICES ASSUME AllInv, tx # NoTx, tx.callback = "on_random",
                       work.calls # <<>>, tx.row # NoRow => PaysIn(tx.row.token)
                PROVE  tx.row # NoRow /\ Accepted(tx.row, Head(work.calls))
    BY DEF RandomAccepted
  <2>1. Playing(game, tx, own_table[tx.ses_id], work)  BY DEF AllInv, PlayInv
  <2>2. tx.row # NoRow  BY <2>1 DEF Playing
  <2>3. /\ work.calls = <<work.calls[1]>>
        /\ Welcome(game, tx.row, work.calls[1])
    BY <2>1, <2>2 DEF Playing, Answers
  <2>4. Head(work.calls) = work.calls[1]
    <3>. DEFINE a == work.calls[1]
    <3>1. work.calls = <<a>>  BY <2>3
    <3>. HIDE DEF a
    <3>2. Head(work.calls) = a  BY <3>1, HeadTailOne
    <3>. QED  BY <3>2 DEF a
  <2>5. Accepted(tx.row, work.calls[1])
    BY <2>2, <2>3 DEF Welcome, InItsToken, PaysIn
  <2>. QED  BY <2>2, <2>4, <2>5
<1>. QED  BY <1>1, Plays, PTL

-------------------------------------------------------------------------------
(* A move for the player.                                                       *)

(* The client may send a number of proto_dice and a round count of multi_stub   *)
(* that the games take.                                                         *)
LegalInputs ==
    /\ \E num \in Numbers : num \in 1..99
    /\ \E param \in Params : param \in 1..MaxType

LEMMA OnePlayable ==
    ASSUME NEW row, NEW c, Accepted(row, c)
    PROVE  Playable(row, <<c>>)
BY DEF Playable

LEMMA TwoPlayable ==
    ASSUME NEW row, NEW c, NEW d, Accepted(row, c), Accepted(Announced(row, c), d)
    PROVE  Playable(row, <<c, d>>)
BY DEF Playable

(* A max win is told and a payout it covers follows.                            *)
LEMMA PayoutPlayable ==
    ASSUME SmallAmounts, NEW row \in Row, row.state = "req_action", BonusFits(row),
           row.deposit <= MaxDeposit, NEW win \in Nat, NEW payout \in Nat,
           payout <= win, payout <= row.deposit + MaxDeposit
    PROVE  Playable(row, <<update_max_win(row.token, win),
                           finish_game(row.token, payout)>>)
<1>. DEFINE c == update_max_win(row.token, win)
            told == Announced(row, c)
<1>1. c.call = "update_max_win" /\ c.amount = win /\ c.token = row.token
  BY CallNames
<1>2. Accepted(row, c)  BY <1>1 DEF Accepted, CanUpdateMaxWin
<1>. HIDE DEF c
<1>3. row.deposit \in Nat /\ win - row.deposit \in Int  BY DEF Row
<1>4. told = [row EXCEPT !.last_max_win = win - row.deposit]
  BY <1>1 DEF Announced
<1>. HIDE DEF told
<1>5. /\ told \in Row /\ told.deposit = row.deposit /\ told.token = row.token
      /\ told.state = row.state /\ told.last_max_win = win - row.deposit
      /\ told.bonus_deposit = row.bonus_deposit
  BY <1>3, <1>4 DEF Row
<1>6. BonusFits(told)  BY <1>5 DEF BonusFits
<1>7. payout - told.deposit <= told.last_max_win  BY <1>3, <1>5
<1>8. Accepted(told, finish_game(told.token, payout))
  BY <1>5, <1>6, <1>7, PayoutAccepted
<1>. QED  BY <1>2, <1>5, <1>8, TwoPlayable DEF told, c

(* A max win is told and a random value asked for.                              *)
LEMMA RollPlayable ==
    ASSUME NEW row \in Row, row.state = "req_action", NEW win
    PROVE  Playable(row, <<update_max_win(row.token, win), require_random>>)
<1>. DEFINE c == update_max_win(row.token, win)
            told == Announced(row, c)
<1>1. c.call = "update_max_win" /\ c.token = row.token  BY CallNames
<1>2. Accepted(row, c)  BY <1>1 DEF Accepted, CanUpdateMaxWin
<1>. HIDE DEF c
<1>3. told.state = "req_action"  BY <1>1 DEF Announced, Row
<1>4. Accepted(told, require_random)  BY <1>3, CallNames DEF Accepted, CanRequireRandom
<1>. QED  BY <1>2, <1>4, TwoPlayable DEF c

Move(row, own) == \E code \in on_action(row, own) : Playable(row, code.calls)

LEMMA StubMoves ==
    ASSUME game = "stub", NEW row, NEW own
    PROVE  Move(row, own)
<1>1. Code(NoOwn, <<>>) \in on_action(row, own)
  BY SameCode, SameFails DEF on_action, St!OnAction
<1>2. Code(NoOwn, <<>>).calls = <<>>  BY CodeFields
<1>3. Playable(row, <<>>)  BY DEF Playable
<1>. QED  BY <1>1, <1>2, <1>3 DEF Move

LEMMA MultiStubMoves ==
    ASSUME game = "multi_stub", LegalInputs, NEW row \in Row,
           row.state = "req_action", NEW own, Position(game, row, own)
    PROVE  Move(row, own)
<1>1. /\ own # NoOwn /\ own \in [rounds : 0..MaxType, played : 0..MaxType]
      /\ own.played = 0 \/ own.played < own.rounds
  BY DEF Position, MultiStubAt
<1>2. PICK param \in Params : param \in 1..MaxType  BY DEF LegalInputs
<1>3. Mult!ActionAllowed(own, own.played, param) /\ own.played \in Mult!Types
  BY <1>1, <1>2, GamesAssumption, SameFails DEF Mult!ActionAllowed, Mult!Types
<1>. DEFINE code == Mult!Code([rounds |-> IF own.played = 0 THEN param ELSE own.rounds,
                               played |-> own.played + 1],
                              <<Mult!require_random>>)
<1>4. code \in Mult!OnAction(row, own)  BY <1>2, <1>3 DEF Mult!OnAction
<1>5. code \in on_action(row, own)  BY <1>4 DEF on_action
<1>6. code.calls = <<require_random>>  BY SameCode, SameCalls, CodeFields
<1>. HIDE DEF code
<1>7. Playable(row, <<require_random>>)
  BY CallNames, OnePlayable DEF Accepted, CanRequireRandom
<1>. QED  BY <1>5, <1>6, <1>7 DEF Move

LEMMA OddOrEvenMoves ==
    ASSUME game = "odd_or_even", SmallAmounts, NEW row \in Row,
           row.state = "req_action", BonusFits(row), NEW own, Position(game, row, own)
    PROVE  Move(row, own)
<1>. DEFINE win == Odd!WinOf(row)
<1>1. /\ own # NoOwn /\ row.deposit <= MaxDeposit
      /\ own \in [round : 1..Odd!MAX_NUM_ROUNDS, prev_round_deposit : Nat]
      /\ own.prev_round_deposit <= row.deposit
  BY DEF Position, OddOrEvenAt, Rolling
<1>2. row.deposit \in Nat /\ MaxDeposit \in Nat  BY BoundsAssumption DEF Row
<1>3. win \in Nat /\ row.deposit <= win /\ win <= row.deposit + row.deposit
  BY <1>2 DEF Odd!WinOf
<1>4. /\ Odd!Take(row, own) \in on_action(row, own)
      /\ Odd!Bet(row, own) \in on_action(row, own)
  BY <1>1, SameFails DEF on_action, Odd!OnAction
<1>5. Odd!MaxWin(row) = update_max_win(row.token, win)
  BY SameCalls DEF Odd!MaxWin
<1>. HIDE DEF win
<1>6. CASE own.round = 1
  <2>1. Odd!Take(row, own).calls
          = <<update_max_win(row.token, win), finish_game(row.token, row.deposit)>>
    BY <1>5, <1>6, SameCode, SameCalls, CodeFields DEF Odd!Take
  <2>2. Playable(row, Odd!Take(row, own).calls)
    BY <1>1, <1>2, <1>3, <2>1, PayoutPlayable
  <2>. QED  BY <1>4, <2>2 DEF Move
<1>7. CASE own.round # 1 /\ row.deposit = own.prev_round_deposit
  <2>1. Odd!Take(row, own).calls
          = <<update_max_win(row.token, win), finish_game(row.token, win)>>
    BY <1>5, <1>7, SameCode, SameCalls, CodeFields DEF Odd!Take, win
  <2>2. win <= row.deposit + MaxDeposit  BY <1>1, <1>2, <1>3
  <2>3. Playable(row, Odd!Take(row, own).calls)
    BY <1>1, <1>3, <2>1, <2>2, PayoutPlayable
  <2>. QED  BY <1>4, <2>3 DEF Move
<1>8. CASE own.round # 1 /\ row.deposit # own.prev_round_deposit
  <2>1. /\ own.round <= Odd!MAX_NUM_ROUNDS /\ own.round > 1
        /\ row.deposit > own.prev_round_deposit
    BY <1>1, <1>2, <1>8 DEF Odd!MAX_NUM_ROUNDS
  <2>2. Odd!Bet(row, own).calls
          = <<update_max_win(row.token, win), require_random>>
    BY <1>5, <2>1, SameCode, SameCalls, CodeFields DEF Odd!Bet, Odd!Comparable
  <2>3. Playable(row, Odd!Bet(row, own).calls)  BY <2>2, RollPlayable
  <2>. QED  BY <1>4, <2>3 DEF Move
<1>. QED  BY <1>6, <1>7, <1>8

LEMMA ProtoDiceMoves ==
    ASSUME game = "proto_dice", LegalInputs, NEW row \in Row,
           row.state = "req_action", NEW own, Position(game, row, own)
    PROVE  Move(row, own)
<1>1. own = NoOwn /\ row.token = CoreToken  BY DEF Position, ProtoDiceAt, Rolling
<1>2. PICK num \in Numbers : num \in 1..99  BY DEF LegalInputs
<1>. DEFINE win == Dice!calc_max_win(row, num)
            code == Dice!Code([number |-> num],
                              <<Dice!update_max_win(CoreToken, win), Dice!require_random>>)
<1>3. code \in Dice!OnAction(row, own)
  BY <1>1, <1>2, SameFails DEF Dice!OnAction
<1>4. code \in on_action(row, own)  BY <1>3 DEF on_action
<1>. HIDE DEF win
<1>5. code.calls = <<update_max_win(row.token, win), require_random>>
  BY <1>1, SameCode, SameCalls, CodeFields
<1>. HIDE DEF code
<1>6. Playable(row, code.calls)  BY <1>5, RollPlayable
<1>. QED  BY <1>4, <1>6 DEF Move

LEMMA WinRaiseLoseMoves ==
    ASSUME game = "win_raise_lose", SmallAmounts, NEW row \in Row,
           row.state = "req_action", BonusFits(row), NEW own, Position(game, row, own)
    PROVE  Move(row, own)
<1>. DEFINE roll == [deposit |-> row.deposit]
            calls == <<update_max_win(row.token, row.deposit * 2),
                       finish_game(row.token, 0)>>
<1>1. row.deposit \in Nat /\ row.deposit <= MaxDeposit /\ MaxDeposit \in Nat
  BY BoundsAssumption DEF Row, Position
<1>2. Code(roll, calls) \in on_action(row, own)
  BY SameCode, SameCalls DEF on_action, Wrl!OnAction, Wrl!MaxWin, Wrl!WinCoef
<1>3. Code(roll, calls).calls = calls  BY CodeFields
<1>4. Playable(row, calls)
  <2>1. row.deposit * 2 \in Nat /\ 0 <= row.deposit * 2
        /\ 0 <= row.deposit + MaxDeposit
    BY <1>1
  <2>. QED  BY <1>1, <2>1, PayoutPlayable
<1>. QED  BY <1>2, <1>3, <1>4 DEF Move

(* Whenever it is the player's turn, some move of his goes through: no game     *)
(* leaves him to the time-out that takes the deposit.                           *)
THEOREM PlayersCanMove ==
    ASSUME Payouts = Nat, MaxWins = Nat, SmallAmounts, LegalInputs
    PROVE  GameSpec => []MoveLeft
<1>1. AllInv => MoveLeft
  <2>. SUFFICES ASSUME AllInv, NEW id \in SesIds, sessions[id] # NoRow,
                       sessions[id].state \in {"req_action", "req_allow_deposit"}
                PROVE  Move([sessions[id] EXCEPT !.state = "req_action", !.acted = TRUE],
                            own_table[id])
    BY DEF MoveLeft, Move
  <2>. DEFINE row == sessions[id]
              own == own_table[id]
              moved == [row EXCEPT !.state = "req_action", !.acted = TRUE]
  <2>1. row \in Row /\ BonusFits(row) /\ Position(game, row, own)
        /\ game \in GameNames
    BY DEF AllInv, LedgerInv, TypeOK, Sound, PlayInv, SdkInv
  <2>2. /\ moved \in Row /\ moved.state = "req_action" /\ moved.deposit = row.deposit
        /\ moved.bonus_deposit = row.bonus_deposit /\ moved.token = row.token
        /\ moved.last_max_win = row.last_max_win
    BY <2>1 DEF Row, States
  <2>. HIDE DEF moved, own
  <2>3. BonusFits(moved)  BY <2>1, <2>2 DEF BonusFits
  <2>4. Position(game, moved, own)  BY <2>1, <2>2, PositionMoved
  <2>5. game \in {"stub", "multi_stub", "odd_or_even", "proto_dice", "win_raise_lose"}
    BY <2>1, GamesAssumption
  <2>6. Move(moved, own)
    BY <2>2, <2>3, <2>4, <2>5, StubMoves, MultiStubMoves, OddOrEvenMoves,
       ProtoDiceMoves, WinRaiseLoseMoves
  <2>. QED  BY <2>6 DEF moved, own
<1>. QED  BY <1>1, Plays, PTL

===============================================================================

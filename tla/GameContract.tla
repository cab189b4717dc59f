----------------------------- MODULE GameContract -----------------------------
(* The game contract of the SDK (class game_sdk::game, game_base.hpp): the     *)
(* session table, the actions that players, the platform, the casino and       *)
(* anyone else may push, and the calls a game makes from its callbacks.         *)
(*                                                                             *)
(* An EOSIO action is atomic.  An action that runs no game code is one step    *)
(* here.  newgame, newgamebon, gameaction and sgdicesecond call a virtual      *)
(* method that every game writes for itself; such an action is a transaction   *)
(* `tx' that holds its own copy of the session, the game's calls (RequireAction,*)
(* RequireRandom, UpdateMaxWin, FinishGame) are steps on that copy, and Return *)
(* commits it.  Any failing eosio::check, in the SDK, in the game or in a      *)
(* contract it notifies, is Abort: nothing of the transaction remains.         *)
(*                                                                             *)
(* `books' is not the contract's own state.  It is what the inline actions the *)
(* contract sent have told, or moved at, the token and casino contracts, kept  *)
(* per session id: the ledger the properties are about.                        *)
EXTENDS Settlement, Sequences

CONSTANTS
    SesIds,         \* session ids a client may name
    Players, Casinos, Tokens,
    PlatformKey,    \* the platform's RSA key; a casino's key is the casino
    Quantities,     \* amounts a transfer or a bonus may carry
    Payouts,        \* amounts a game may pass to finish_game
    MaxWins,        \* amounts a game may pass to update_max_win
    TtlValues,      \* session_ttl values init may be given, in seconds
    RawCasinoIds,   \* casino_id of a new row: create_session leaves it unset
    RawActed,       \* acted of a new row: create_session leaves it unset
    Switches,       \* the listings and bans the platform and casinos toggle
    MaxDeposit,     \* bound: a session's deposit
    MaxSessions,    \* bound: sessions ever created
    LongAgo,        \* bound: seconds without an update are counted up to it
    MaxSigns        \* bound: signatures applied to one session

ASSUME SetsAssumption ==
    /\ Quantities \subseteq Nat \ {0}
    /\ Payouts \subseteq Nat
    /\ MaxWins \subseteq Nat
    /\ TtlValues \subseteq Nat
    /\ RawCasinoIds \subseteq Casinos
    /\ RawActed \subseteq BOOLEAN
    /\ CoreToken \in Tokens

ASSUME BoundsAssumption ==
    /\ MaxDeposit \in Nat /\ MaxSessions \in Nat /\ MaxSigns \in Nat
    /\ MaxDeposit <= MaxAmount
    /\ LongAgo \in Nat /\ \A ttl \in TtlValues : ttl < LongAgo

VARIABLES
    sessions,       \* the session table: ses_id -> row, or NoRow
    session_seq,    \* global.session_seq
    session_ttl,    \* global.session_ttl, Uninit before the init action
    books,          \* ses_id -> what other contracts hold and were told
    rolls,          \* the digests already handed to on_random
    receipt,        \* the settlement the last step made, or NoReceipt
    blocked,        \* the switches that are off for the game
    tx              \* the transaction a callback is running in, or NoTx

vars == <<sessions, session_seq, session_ttl, books, rolls, receipt,
          blocked, tx>>

-------------------------------------------------------------------------------
(* Data.                                                                       *)

States == {"req_allow_deposit", "req_start", "req_action",
           "req_signidice_part_1", "req_signidice_part_2"}

(* A digest is the seed of calc_seed and the keys of the signatures hashed     *)
(* into it since: sha256 is collision-free, and an RSA signature (PKCS#1 v1.5) *)
(* is a function of key and digest.                                            *)
Keys   == Casinos \cup {PlatformKey}
Seeds  == Casinos \X Nat \X Players
Digest == [seed : Seeds \cup {<<>>}, signs : Seq(Keys)]
NoDigest == [seed |-> <<>>, signs |-> <<>>]

(* Fault: the seed forgets which session it is for.                            *)
calc_seed_NoSeq(casino_id, ses_seq, player) ==
    [seed |-> <<casino_id, 0, player>>, signs |-> <<>>]

calc_seed(casino_id, ses_seq, player) ==
    [seed |-> <<casino_id, ses_seq, player>>, signs |-> <<>>]

Row == [ses_seq : Nat, casino_id : Casinos, player : Players, state : States,
        token : Tokens, deposit : Nat \ {0}, bonus_deposit : Nat,
        digest : Digest, idle : Nat, last_max_win : Int, acted : BOOLEAN]
NoRow == [state |-> "none"]

Book == [held    : [Tokens -> Int],      \* tokens the game holds for the session
         open    : [Casinos -> Int],     \* sessions the casino counts as open
         locked  : [Casinos -> Int],     \* max win the casino set aside
         staked  : [Casinos -> Int],     \* real deposits the casino was told of
         pledged : [Casinos -> Int],     \* bonus deposits the casino locked
         moved   : BOOLEAN]              \* the player has taken an action

AtZero(S) == [x \in S |-> 0]
EmptyBook == [held |-> AtZero(Tokens), open |-> AtZero(Casinos),
              locked |-> AtZero(Casinos), staked |-> AtZero(Casinos),
              pledged |-> AtZero(Casinos), moved |-> FALSE]

Receipt == [by : {"finish", "close"}, row : Row, outcome : Outcome,
            locked : Int, moved : BOOLEAN]
NoReceipt == [by |-> "none"]

Callbacks == {"on_new_game", "on_action", "on_random"}
Tx == [callback : Callbacks, ses_id : SesIds, row : Row \cup {NoRow},
       book : Book, seq : Nat, random : Digest,
       receipt : Receipt \cup {NoReceipt}]
NoTx == [callback |-> "none"]

Uninit == -1

-------------------------------------------------------------------------------
(* Checks (the `checkers' of the class).  require_auth only says who pushes an *)
(* action: signidice and close check none, the rest need the platform's key.   *)

Expired(row) == row.idle > session_ttl
Started(row) == row.digest # NoDigest

GameActive           == <<"game">> \notin blocked
CasinoActive(c)      == <<"casino", c>> \notin blocked
GameListed(c)        == <<"listing", c>> \notin blocked
TokenAccepted(c, t)  == <<"token", c, t>> \notin blocked
ParamsKnown(c, t)    == <<"params", c, t>> \notin blocked
NotBanned(p)         == <<"banned", p>> \notin blocked

(* No transaction runs and init has been pushed: before it `platform' is the   *)
(* empty name, and every read of the platform's tables fails.                  *)
Ready == tx = NoTx /\ session_ttl # Uninit

-------------------------------------------------------------------------------
(* The inline actions the contract sends, as they change a session's book.     *)

NotifyNewSession(book, casino) ==
    [book EXCEPT !.open[casino] = @ + 1]

NotifyUpdateSession(book, casino, max_win_delta) ==
    [book EXCEPT !.locked[casino] = @ + max_win_delta]

(* Fault: sesclose does not release the max win.                               *)
NotifyCloseSession_KeepsMaxWin(book, row) ==
    [book EXCEPT !.open[row.casino_id] = @ - 1]

NotifyCloseSession(book, row) ==
    [book EXCEPT !.open[row.casino_id]   = @ - 1,
                 !.locked[row.casino_id] = @ - row.last_max_win]

NotifyNewRealDeposit(book, casino, quantity) ==
    [book EXCEPT !.staked[casino] = @ + quantity]

NotifyNewBonusDeposit(book, casino, quantity) ==
    [book EXCEPT !.pledged[casino] = @ + quantity]

Received(book, token, quantity) ==
    [book EXCEPT !.held[token] = @ + quantity]

(* Fault: the casino's win is not transferred.                                 *)
PaidOut_KeepsCasinoWin(book, row, outcome) ==
    [book EXCEPT !.held[row.token] = @ - outcome.transfer]

(* Fault: the bonus, which the game never received, is paid out by it.         *)
PaidOut_BonusToo(book, row, outcome) ==
    [book EXCEPT !.held[row.token] =
                     @ - outcome.transfer - outcome.casino_win - row.bonus_deposit]

PaidOut(book, row, outcome) ==
    [book EXCEPT !.held[row.token] = @ - outcome.transfer - outcome.casino_win]

(* The row is erased: what was counted for this session only ends with it.     *)
Forgotten(book) == [book EXCEPT !.staked = AtZero(Casinos),
                                !.pledged = AtZero(Casinos), !.moved = FALSE]

ReceiptOf(by, row, book, outcome) ==
    [by |-> by, row |-> row, outcome |-> outcome,
     locked |-> book.locked[row.casino_id], moved |-> book.moved]

-------------------------------------------------------------------------------
(* How a step ends: an action without game code stores its result, one with    *)
(* game code opens a transaction.                                              *)

Store(id, row, book, rcpt) ==
    /\ sessions' = [sessions EXCEPT ![id] = row]
    /\ books' = [books EXCEPT ![id] = book]
    /\ receipt' = rcpt
    /\ UNCHANGED <<session_ttl, rolls, blocked, tx>>

Begin(callback, id, row, book, seq, random) ==
    /\ tx' = [callback |-> callback, ses_id |-> id, row |-> row, book |-> book,
              seq |-> seq, random |-> random, receipt |-> NoReceipt]
    /\ receipt' = NoReceipt
    /\ UNCHANGED <<sessions, session_seq, session_ttl, books, rolls, blocked>>

-------------------------------------------------------------------------------
(* Deposits.                                                                   *)

(* create_session sets neither casino_id nor acted, nor the digest, whose      *)
(* constructor zeroes it.                                                      *)
CreateSession(seq, player, token, deposit) ==
    { [ses_seq |-> seq, casino_id |-> c, player |-> player,
       state |-> "req_start", token |-> token, deposit |-> deposit,
       bonus_deposit |-> 0, digest |-> NoDigest, idle |-> 0,
       last_max_win |-> 0, acted |-> a] : c \in RawCasinoIds, a \in RawActed }

HandleExtraDeposit(row, quantity) ==
    [row EXCEPT !.deposit = @ + quantity, !.idle = 0]

(* Fault: a deposit is taken for an expired session.                           *)
ExtraDepositAllowed_Late(row, from, quantity) ==
    /\ row.state = "req_allow_deposit"
    /\ row.player = from
    /\ row.deposit + quantity <= MaxDeposit

ExtraDepositAllowed(row, from, quantity) ==
    /\ ~Expired(row)
    /\ row.state = "req_allow_deposit"
    /\ row.player = from
    /\ row.deposit + quantity <= MaxDeposit

(* newgamebon and depositbon: bonuses come in the core token only.             *)
(* Fault: in any token.                                                        *)
BonusToken_Any(row) == TRUE

BonusToken(row) == row.token = CoreToken

OnTransferNew(id, from, quantity, token) ==
    /\ sessions[id] = NoRow
    /\ GameActive
    /\ session_seq < MaxSessions
    /\ quantity <= MaxDeposit
    /\ session_seq' = session_seq + 1
    /\ \E row \in CreateSession(session_seq, from, token, quantity) :
         Store(id, row,
               NotifyNewRealDeposit(Received(books[id], token, quantity),
                                    row.casino_id, quantity),
               NoReceipt)

OnTransferExtra(id, from, quantity, token) ==
    LET row == sessions[id] IN
    /\ row # NoRow
    /\ row.token = token
    /\ TokenAccepted(row.casino_id, token)
    /\ ExtraDepositAllowed(row, from, quantity)
    /\ Store(id, HandleExtraDeposit(row, quantity),
             NotifyNewRealDeposit(Received(books[id], token, quantity),
                                  row.casino_id, quantity),
             NoReceipt)
    /\ UNCHANGED session_seq

(* A token transfer to the game, its memo naming the session.                  *)
OnTransfer(id, from, quantity, token) ==
    /\ Ready
    /\ NotBanned(from)
    /\ \/ OnTransferNew(id, from, quantity, token)
       \/ OnTransferExtra(id, from, quantity, token)

(* depositbon: a bonus on top of a running session.                            *)
DepositBonus(id, from, quantity) ==
    LET row == sessions[id] IN
    /\ Ready
    /\ row # NoRow
    /\ BonusToken(row)
    /\ ExtraDepositAllowed(row, from, quantity)
    /\ Store(id, [HandleExtraDeposit(row, quantity)
                    EXCEPT !.bonus_deposit = @ + quantity],
             NotifyNewBonusDeposit(books[id], row.casino_id, quantity),
             NoReceipt)
    /\ UNCHANGED session_seq

-------------------------------------------------------------------------------
(* Starting a game.                                                            *)

(* Fault: a running game can be started again.                                 *)
NewGameInternal_AnyState(id, casino_id, row, book, seq) ==
    /\ GameActive
    /\ CasinoActive(casino_id)
    /\ GameListed(casino_id)
    /\ ~Expired(row)
    /\ Begin("on_new_game", id,
             [row EXCEPT !.idle = 0, !.casino_id = casino_id,
                         !.digest = calc_seed(casino_id, row.ses_seq, row.player)],
             NotifyNewSession(book, casino_id), seq, NoDigest)

NewGameInternal(id, casino_id, row, book, seq) ==
    /\ GameActive
    /\ CasinoActive(casino_id)
    /\ GameListed(casino_id)
    /\ ~Expired(row)
    /\ row.state = "req_start"
    /\ row.deposit > 0 => TokenAccepted(casino_id, row.token)
    /\ ParamsKnown(casino_id, row.token)
    /\ Begin("on_new_game", id,
             [row EXCEPT !.idle = 0, !.casino_id = casino_id,
                         !.digest = calc_seed(casino_id, row.ses_seq, row.player)],
             NotifyNewSession(book, casino_id), seq, NoDigest)

(* newgame and newgameaffl, which ignores its affiliate.                       *)
NewGame(id, casino_id) ==
    /\ Ready
    /\ sessions[id] # NoRow
    /\ NewGameInternal(id, casino_id, sessions[id], books[id], session_seq)

(* Fault: the bonus is not part of the deposit.                                *)
AddBonus_Beside(row, quantity) == [row EXCEPT !.bonus_deposit = quantity]

AddBonus(row, quantity) ==
    [row EXCEPT !.deposit = @ + quantity, !.bonus_deposit = quantity]

(* newgamebon: the row may exist (its player transferred first) or not.        *)
NewGameBonus(id, casino_id, from, quantity) ==
    LET Begun(row, seq) ==
            /\ BonusToken(row)
            /\ row.deposit + quantity <= MaxDeposit
            /\ NewGameInternal(id, casino_id, AddBonus(row, quantity),
                   NotifyNewBonusDeposit(books[id], row.casino_id, quantity), seq)
    IN /\ Ready
       /\ \/ /\ sessions[id] # NoRow
             /\ Begun(sessions[id], session_seq)
          \/ /\ sessions[id] = NoRow
             /\ session_seq < MaxSessions
             /\ \E row \in CreateSession(session_seq, from, CoreToken, 0) :
                  Begun(row, session_seq + 1)

-------------------------------------------------------------------------------
(* The player's move and the two halves of signidice.                          *)

GameAction(id) ==
    LET row == sessions[id] IN
    /\ Ready
    /\ row # NoRow
    /\ ~Expired(row)
    /\ row.state \in {"req_action", "req_allow_deposit"}
    /\ Begin("on_action", id,
             [row EXCEPT !.idle = 0, !.state = "req_action", !.acted = TRUE],
             [books[id] EXCEPT !.moved = TRUE], session_seq, NoDigest)

(* A signature is the key that made it and the digest it was made over.        *)
RsaVerify(digest, sign, key) == sign.key = key /\ sign.digest = digest
Sha256(sign) == [sign.digest EXCEPT !.signs = Append(@, sign.key)]

(* The signatures around: over the digest of any session, with any key.        *)
Signatures == [key : Keys,
               digest : {sessions[id].digest :
                           id \in {i \in SesIds : sessions[i] # NoRow}}]

SignidicePart1(id, sign) ==
    LET row == sessions[id] IN
    /\ Ready
    /\ row # NoRow
    /\ ~Expired(row)
    /\ row.state = "req_signidice_part_1"
    /\ RsaVerify(row.digest, sign, PlatformKey)
    /\ Len(row.digest.signs) < MaxSigns
    /\ Store(id, [row EXCEPT !.digest = Sha256(sign), !.idle = 0,
                             !.state = "req_signidice_part_2"],
             books[id], NoReceipt)
    /\ UNCHANGED session_seq

(* Fault: the new digest goes to the game but not into the row.                *)
SignidicePart2_NotStored(id, sign) ==
    LET row == sessions[id] IN
    /\ Ready
    /\ row # NoRow
    /\ ~Expired(row)
    /\ row.state = "req_signidice_part_2"
    /\ RsaVerify(row.digest, sign, row.casino_id)
    /\ Begin("on_random", id, [row EXCEPT !.idle = 0],
             books[id], session_seq, Sha256(sign))

SignidicePart2(id, sign) ==
    LET row == sessions[id] IN
    /\ Ready
    /\ row # NoRow
    /\ ~Expired(row)
    /\ row.state = "req_signidice_part_2"
    /\ RsaVerify(row.digest, sign, row.casino_id)
    /\ Len(row.digest.signs) < MaxSigns
    /\ Begin("on_random", id,
             [row EXCEPT !.digest = Sha256(sign), !.idle = 0],
             books[id], session_seq, Sha256(sign))

-------------------------------------------------------------------------------
(* The calls a game makes from on_new_game, on_action and on_random: the       *)
(* `state changers' of the class.  get_session fails once the row is erased.   *)

InCallback == tx # NoTx /\ tx.row # NoRow

CanRequireAction(row) ==
    row.state \in {"req_start", "req_action", "req_signidice_part_2"}

RequireAction(allow_deposit) ==
    /\ InCallback
    /\ CanRequireAction(tx.row)
    /\ tx' = [tx EXCEPT !.row.state =
                 IF allow_deposit THEN "req_allow_deposit" ELSE "req_action"]
    /\ UNCHANGED <<sessions, session_seq, session_ttl, books, rolls, receipt,
                   blocked>>

CanRequireRandom(row) == row.state \in {"req_action", "req_signidice_part_2"}

RequireRandom ==
    /\ InCallback
    /\ CanRequireRandom(tx.row)
    /\ tx' = [tx EXCEPT !.row.state = "req_signidice_part_1"]
    /\ UNCHANGED <<sessions, session_seq, session_ttl, books, rolls, receipt,
                   blocked>>

(* What sesupdate tells the casino: the change of the max casino loss.         *)
(* Fault: the loss itself.                                                     *)
MaxWinDelta_Whole(row, max_casino_lost) == max_casino_lost

MaxWinDelta(row, max_casino_lost) == max_casino_lost - row.last_max_win

CanUpdateMaxWin(row) == row.state \in {"req_action", "req_allow_deposit"}

(* new_max_win is a total payout, the deposit included.                        *)
UpdateMaxWin(new_max_win) ==
    LET max_casino_lost == new_max_win - tx.row.deposit
    IN /\ InCallback
       /\ CanUpdateMaxWin(tx.row)
       /\ tx' = [tx EXCEPT
                   !.row.last_max_win = max_casino_lost,
                   !.book = NotifyUpdateSession(@, tx.row.casino_id,
                                     MaxWinDelta(tx.row, max_casino_lost))]
       /\ UNCHANGED <<sessions, session_seq, session_ttl, books, rolls, receipt,
                      blocked>>

(* Fault: last_max_win taken for a payout, the deposit not counted.            *)
WithinMaxWin_Payout(row, player_win) ==
    player_win <= row.last_max_win + row.deposit

WithinMaxWin(row, player_win) == player_win <= row.last_max_win

CanFinish(row, player_payout) ==
    LET player_win == player_payout - row.deposit
    IN /\ row.state \in {"req_action", "req_signidice_part_2"}
       /\ WithinMaxWin(row, player_win)
       /\ IF player_win > 0 THEN PlayerWinAllowed(row, player_win)
          ELSE PlayerLossOrTieAllowed(row, player_payout)

(* finish_game with the transfers, sesclose and the erase it ends in.          *)
FinishGame(player_payout) ==
    LET row        == tx.row
        player_win == player_payout - row.deposit
        outcome    == IF player_win > 0 THEN PlayerWin(row, player_win)
                      ELSE PlayerLossOrTie(row, player_payout)
    IN /\ InCallback
       /\ CanFinish(row, player_payout)
       /\ tx' = [tx EXCEPT
                   !.row = NoRow,
                   !.book = Forgotten(NotifyCloseSession(
                                        PaidOut(@, row, outcome), row)),
                   !.receipt = ReceiptOf("finish", row, tx.book, outcome)]
       /\ UNCHANGED <<sessions, session_seq, session_ttl, books, rolls, receipt,
                      blocked>>

(* The callback returns and the transaction is applied.                        *)
Commit ==
    /\ tx # NoTx
    /\ sessions' = [sessions EXCEPT ![tx.ses_id] = tx.row]
    /\ books' = [books EXCEPT ![tx.ses_id] = tx.book]
    /\ session_seq' = tx.seq
    /\ receipt' = tx.receipt
    /\ rolls' = IF tx.callback = "on_random" THEN rolls \cup {tx.random}
                ELSE rolls
    /\ tx' = NoTx
    /\ UNCHANGED <<session_ttl, blocked>>

(* The SDK leaves it to the game to leave req_start in on_new_game; here every *)
(* game does (Games shows it of the games of the repository).                  *)
Return ==
    /\ tx # NoTx
    /\ tx.callback = "on_new_game" /\ tx.row # NoRow
         => tx.row.state # "req_start"
    /\ Commit

(* A check fails somewhere in the transaction, in the SDK, in the game or in a *)
(* contract it notifies.                                                       *)
Abort ==
    /\ tx # NoTx
    /\ tx' = NoTx
    /\ UNCHANGED <<sessions, session_seq, session_ttl, books, rolls, receipt,
                   blocked>>

-------------------------------------------------------------------------------
(* Closing an expired session, and the rest of the environment.                *)

(* close's switch: who pays for the time that ran out.                         *)
(* Fault: the platform's lateness is the player's loss.                        *)
CloseRefunds_NotPart1(row) ==
    \/ row.state = "req_start"
    \/ row.state \in {"req_action", "req_allow_deposit"} /\ ~row.acted

CloseRefunds(row) ==
    \/ row.state \in {"req_start", "req_signidice_part_1"}
    \/ row.state \in {"req_action", "req_allow_deposit"} /\ ~row.acted

CloseOutcome(row) ==
    IF row.state = "req_signidice_part_2" THEN PlayerWin(row, row.last_max_win)
    ELSE PlayerLossOrTie(row, IF CloseRefunds(row) THEN row.deposit ELSE 0)

CloseAllowed(row) ==
    IF row.state = "req_signidice_part_2"
    THEN PlayerWinAllowed(row, row.last_max_win)
    ELSE PlayerLossOrTieAllowed(row, IF CloseRefunds(row) THEN row.deposit ELSE 0)

(* Fault: a session can be closed only while the game is listed.               *)
ClosingTime_Listed(row) == Expired(row) /\ GameActive

ClosingTime(row) == Expired(row)

Close(id) ==
    LET row     == sessions[id]
        outcome == CloseOutcome(row)
        paid    == PaidOut(books[id], row, outcome)
    IN /\ Ready
       /\ row # NoRow
       /\ ClosingTime(row)
       /\ CloseAllowed(row)
       /\ Store(id, NoRow,
                Forgotten(IF row.state = "req_start" THEN paid
                          ELSE NotifyCloseSession(paid, row)),
                ReceiptOf("close", row, books[id], outcome))
       /\ UNCHANGED session_seq

(* init may be pushed again at any time and then replaces session_ttl.         *)
InitContract(ttl) ==
    /\ tx = NoTx
    /\ session_ttl' = ttl
    /\ receipt' = NoReceipt
    /\ UNCHANGED <<sessions, session_seq, books, rolls, blocked, tx>>

(* The platform or a casino lists, delists, pauses or bans.                    *)
Toggle(switch) ==
    /\ tx = NoTx
    /\ blocked' = IF switch \in blocked THEN blocked \ {switch}
                  ELSE blocked \cup {switch}
    /\ receipt' = NoReceipt
    /\ UNCHANGED <<sessions, session_seq, session_ttl, books, rolls, tx>>

(* A second passes.  A row keeps the seconds since its last_update.            *)
Older(row) == IF row = NoRow THEN NoRow
              ELSE [row EXCEPT !.idle = IF @ < LongAgo THEN @ + 1 ELSE @]

Tick ==
    /\ tx = NoTx
    /\ sessions' = [id \in SesIds |-> Older(sessions[id])]
    /\ receipt' = NoReceipt
    /\ UNCHANGED <<session_seq, session_ttl, books, rolls, blocked, tx>>

-------------------------------------------------------------------------------
Init ==
    /\ sessions = [id \in SesIds |-> NoRow]
    /\ session_seq = 0
    /\ session_ttl = Uninit
    /\ books = [id \in SesIds |-> EmptyBook]
    /\ rolls = {}
    /\ receipt = NoReceipt
    /\ blocked = {}
    /\ tx = NoTx

Callback ==
    \/ \E allow_deposit \in BOOLEAN : RequireAction(allow_deposit)
    \/ RequireRandom
    \/ \E new_max_win \in MaxWins : UpdateMaxWin(new_max_win)
    \/ \E player_payout \in Payouts : FinishGame(player_payout)
    \/ Return
    \/ Abort

Deposit(id) ==
    \E from \in Players, quantity \in Quantities :
      \/ \E token \in Tokens : OnTransfer(id, from, quantity, token)
      \/ DepositBonus(id, from, quantity)

Start(id) ==
    \E casino_id \in Casinos :
      \/ NewGame(id, casino_id)
      \/ \E from \in Players, quantity \in Quantities :
           NewGameBonus(id, casino_id, from, quantity)

Play(id) ==
    \/ GameAction(id)
    \/ \E sign \in Signatures : SignidicePart1(id, sign) \/ SignidicePart2(id, sign)

Environment ==
    \/ \E ttl \in TtlValues : InitContract(ttl)
    \/ \E switch \in Switches : Toggle(switch)
    \/ Tick

Next ==
    \/ \E id \in SesIds : Deposit(id) \/ Start(id) \/ Play(id) \/ Close(id)
    \/ Callback
    \/ Environment

Spec == Init /\ [][Next]_vars

-------------------------------------------------------------------------------
(* Properties.                                                                 *)

(* Every variable keeps to its data type; in particular a committed row always *)
(* has a positive deposit, which the shares of a settlement divide by.         *)
TypeOK ==
    /\ sessions \in [SesIds -> Row \cup {NoRow}]
    /\ session_seq \in Nat
    /\ session_ttl \in TtlValues \cup {Uninit}
    /\ books \in [SesIds -> Book]
    /\ rolls \subseteq Digest
    /\ receipt \in Receipt \cup {NoReceipt}
    /\ blocked \subseteq Switches
    /\ tx \in Tx \cup {NoTx}

(* What a session has to hold: the real part of its deposit, in its token.     *)
Escrow(row) ==
    [t \in Tokens |-> IF row # NoRow /\ t = row.token THEN RealDeposit(row) ELSE 0]

(* The game holds, per session, exactly the real deposit of the live row and   *)
(* nothing once the row is gone: no deposit is stranded by an ending, none is  *)
(* paid out of another session's tokens.                                       *)
EscrowExact == \A id \in SesIds : books[id].held = Escrow(sessions[id])

Hosts(row, c) == row # NoRow /\ Started(row) /\ row.casino_id = c

Balanced(row, book) ==
    \A c \in Casinos :
        /\ book.open[c] = IF Hosts(row, c) THEN 1 ELSE 0
        /\ book.locked[c] = IF Hosts(row, c) THEN row.last_max_win ELSE 0

(* The casino that hosts a started session counts it as open once and has set  *)
(* aside exactly its last_max_win; no other casino, and no casino once the     *)
(* session is over, holds anything back for it.  newsession, sesupdate and     *)
(* sesclose must balance over every path, update_max_win being relative.       *)
CasinoBalanced == \A id \in SesIds : Balanced(sessions[id], books[id])

BonusFits(row) ==
    /\ row.bonus_deposit <= row.deposit
    /\ row.bonus_deposit > 0 => row.token = CoreToken

(* The bonus part of the deposit never exceeds the deposit, and only the core  *)
(* token carries one: else a settlement would owe a negative amount, or end in *)
(* transfer_bonus_from_casino's check for ever.                                *)
BonusWithinDeposit ==
    \A id \in SesIds : sessions[id] # NoRow => BonusFits(sessions[id])

(* A settlement pays the payout and no more: no part of it is negative, the    *)
(* player's parts add up to the payout, what leaves the game is the real       *)
(* deposit, and the reported payout is what the player got in real tokens.     *)
PaidInFull == receipt # NoReceipt => PaysAll(receipt.outcome, receipt.row)

(* The player's part in real tokens is the pro-rata share of the payout,       *)
(* rounded up to the unit, whether he won, lost, tied or timed out: the bonus  *)
(* part is what integer division truncates.                                    *)
ProRata == receipt # NoReceipt => RoundsUp(receipt.outcome, receipt.row)

Covered(rcpt) ==
    \/ rcpt.outcome.onloss = 0
    \/ rcpt.outcome.payout - rcpt.row.deposit <= rcpt.locked

(* The casino never pays a player more than it was asked to set aside for that *)
(* session, however the deposit grew after update_max_win.                     *)
CasinoExposure == receipt # NoReceipt => Covered(receipt)

(* A time-out costs the player something only when the player had moved and    *)
(* it was the player's turn again; whoever else is late, the deposit comes     *)
(* back whole.                                                                 *)
LossNeedsOwnMove ==
    receipt # NoReceipt /\ receipt.by = "close"
        /\ receipt.outcome.payout < receipt.row.deposit
    => receipt.moved /\ receipt.row.state \in {"req_action", "req_allow_deposit"}

(* No random value is handed to the game twice, in one session or in two,      *)
(* whatever signatures are pushed again.                                       *)
FreshRandom == tx # NoTx /\ tx.callback = "on_random" => tx.random \notin rolls

(* Two live sessions never wait for a signature over the same digest, so a     *)
(* signature made for one is of no use in another.                             *)
DigestsDistinct ==
    \A i, j \in SesIds :
        i # j /\ sessions[i] # NoRow /\ sessions[j] # NoRow
          /\ Started(sessions[i]) /\ Started(sessions[j])
        => sessions[i].digest # sessions[j].digest

(* What a step may make of a live row: end an expired one by close and any     *)
(* other by finish_game, and leave an expired one as it is, but for its age.   *)
OnlyCloses(row, new, rcpt) ==
    IF new = NoRow THEN rcpt.by = (IF Expired(row) THEN "close" ELSE "finish")
    ELSE Expired(row) => [new EXCEPT !.idle = row.idle] = row

(* Once a session has expired under the TTL in force, nothing but close (or    *)
(* time, or a new TTL) touches it; and close never ends one that has not.      *)
ExpiredOnlyCloses ==
    [][\A id \in SesIds : sessions[id] # NoRow
                            => OnlyCloses(sessions[id], sessions'[id], receipt')]_vars

(* What a session keeps while it lives: player, token and sequence number, of  *)
(* either part of its deposit at least what it had, and once it has started    *)
(* its casino and its digest, which only grows by signatures.                  *)
Kept(row, new) ==
    /\ new.player = row.player
    /\ new.token = row.token
    /\ new.ses_seq = row.ses_seq
    /\ RealDeposit(new) >= RealDeposit(row)
    /\ new.bonus_deposit >= row.bonus_deposit
    /\ Started(row) =>
         /\ new.casino_id = row.casino_id
         /\ new.digest.seed = row.digest.seed
         /\ Len(new.digest.signs) >= Len(row.digest.signs)

(* No step exchanges a live session for another under its id, or takes from    *)
(* it, short of ending it: newgame pushed again, a bonus for a row that exists *)
(* and a signature over an older digest change nothing it has to keep.         *)
IdentityFixed ==
    [][\A id \in SesIds : sessions[id] # NoRow /\ sessions'[id] # NoRow
                            => Kept(sessions[id], sessions'[id])]_vars

(* The invariant by induction that EscrowExact, CasinoBalanced,                *)
(* BonusWithinDeposit, PaidInFull, ProRata and CasinoExposure follow from: a   *)
(* transaction's copy is as sound as a stored row, a row is started exactly    *)
(* when it has left req_start, and an unstarted row has neither bonus nor win. *)
Sound(row, book) ==
    /\ book.held = Escrow(row)
    /\ Balanced(row, book)
    /\ row # NoRow =>
         /\ BonusFits(row)
         /\ row.state # "req_start" => Started(row)
         /\ ~Started(row) => row.last_max_win = 0 /\ row.bonus_deposit = 0

Proper(rcpt) ==
    rcpt # NoReceipt => /\ PaysAll(rcpt.outcome, rcpt.row)
                        /\ RoundsUp(rcpt.outcome, rcpt.row)
                        /\ Covered(rcpt)

LedgerInv ==
    /\ TypeOK
    /\ \A id \in SesIds :
         /\ Sound(sessions[id], books[id])
         /\ sessions[id] # NoRow /\ Started(sessions[id])
              => sessions[id].state # "req_start"
    /\ tx # NoTx => /\ Sound(tx.row, tx.book)
                    /\ tx.row # NoRow =>
                         /\ Started(tx.row)
                         /\ tx.row.state = "req_start"
                              => tx.callback = "on_new_game"
                    /\ Proper(tx.receipt)
    /\ Proper(receipt)

(* The contract implements Escrow, the promise that a deposit stays whole      *)
(* until it is divided once.  A session is opened by its row, playing once the *)
(* row has a seed.                                                             *)
PhaseOf(row) == IF row = NoRow THEN "none"
                ELSE IF Started(row) THEN "playing" ELSE "opened"

SplitOf(rcpt) ==
    IF rcpt = NoReceipt THEN [player |-> 0, casino |-> 0, divided |-> FALSE]
    ELSE [player |-> rcpt.outcome.transfer, casino |-> rcpt.outcome.casino_win,
          divided |-> TRUE]

Phases  == [id \in SesIds |-> PhaseOf(sessions[id])]
HeldNow == [id \in SesIds |-> books[id].held]

E == INSTANCE Escrow WITH
       phase <- Phases, held <- HeldNow, split <- SplitOf(receipt)
EscrowSpec == E!Spec

-------------------------------------------------------------------------------
(* Liveness.  Time passes whatever transactions run in between; a transaction  *)
(* ends (the chain cuts one that does not); close, which anybody may push,     *)
(* is pushed again and again while it would succeed.                           *)
Fairness ==
    /\ SF_vars(Tick)
    /\ WF_vars(Return \/ Abort)
    /\ \A id \in SesIds : SF_vars(Close(id))

FairSpec == Spec /\ Fairness

(* A session waiting for the casino's signature that has no win to pay: the    *)
(* one state close can do nothing about (see CasinoPaysTimeout).               *)
Unpayable(row) == row.state = "req_signidice_part_2" /\ row.last_max_win <= 0

(* No session is forgotten: again and again it is over or freshly played.  In  *)
(* particular delisting the game, its casino or its token, or banning its      *)
(* player, never keeps a deposit from being paid out.                          *)
NeverForgotten ==
    \A id \in SesIds :
        []<>(\/ sessions[id] = NoRow
             \/ sessions[id].idle = 0
             \/ Unpayable(sessions[id]))

-------------------------------------------------------------------------------
(* Statements of the repository that the code does not keep.                   *)

(* game_base.hpp:521: "if casino doesn't provide signidice we assume that      *)
(* casino lost": close can pay the player of every session that expired while  *)
(* it waited for the casino.                                                   *)
CasinoPaysTimeout ==
    \A id \in SesIds :
        LET row == sessions[id] IN
        row # NoRow /\ Expired(row) /\ row.state = "req_signidice_part_2"
        => CloseAllowed(row)

(* game_base.hpp:529: "if platform doesn't provide signidice we refund deposit *)
(* to player": close can refund every session that expired in a state that is  *)
(* refunded.                                                                   *)
RefundPossible ==
    \A id \in SesIds :
        LET row == sessions[id] IN
        row # NoRow /\ Expired(row) /\ CloseRefunds(row) => CloseAllowed(row)

(* game_base.hpp:527 says of req_start "here we haven't info about casino",    *)
(* and odd_or_even_tests.cpp:276 counts every real deposit in the volume of    *)
(* the casino played at: the host of a started session has been told of the    *)
(* session's whole real deposit.                                               *)
StakeReportedToHost ==
    \A id \in SesIds :
        LET row == sessions[id] IN
        row # NoRow /\ Started(row)
        => books[id].staked[row.casino_id] = RealDeposit(row)

===============================================================================

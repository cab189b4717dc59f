--------------------------- MODULE GameContractProofs ---------------------------
(* Proofs about GameContract and the settlements it makes, for every value of   *)
(* the constants: what a settlement pays, that the types are kept, that the     *)
(* books balance, and what a step may make of a session.                        *)
EXTENDS GameContract, TLAPS

-------------------------------------------------------------------------------
(* What a settlement pays, for every deposit, bonus and amount.                 *)

(* A row as far as a settlement reads it: some bonus, at most the deposit.      *)
Stake(row) ==
    /\ row.deposit \in Nat \ {0}
    /\ row.bonus_deposit \in Nat
    /\ row.bonus_deposit <= row.deposit

(* Integer division brackets the exact quotient.                                *)
LEMMA DivBracket ==
    ASSUME NEW n \in Nat, NEW d \in Nat \ {0}
    PROVE  /\ n \div d \in Nat
           /\ (n \div d) * d <= n
           /\ n < (n \div d) * d + d
OBVIOUS

(* A product with a factor of at most d is at most d times the other.           *)
LEMMA MulMono ==
    ASSUME NEW x \in Nat, NEW y \in Int, NEW z \in Int, y <= z
    PROVE  x * y <= x * z
OBVIOUS

LEMMA MulCancel ==
    ASSUME NEW x \in Int, NEW y \in Int, NEW d \in Nat \ {0}, x * d < y * d + d
    PROVE  x <= y
OBVIOUS

(* The bonus share of an amount is a natural number, at most the amount.        *)
LEMMA ShareBound ==
    ASSUME NEW row, Stake(row), NEW amount \in Nat
    PROVE  /\ BonusShare(amount, row) \in Nat
           /\ BonusShare(amount, row) <= amount
           /\ BonusShare(amount, row) * row.deposit <= amount * row.bonus_deposit
           /\ amount * row.bonus_deposit
                < BonusShare(amount, row) * row.deposit + row.deposit
<1>. DEFINE d == row.deposit
            b == row.bonus_deposit
            s == (amount * b) \div d
<1>1. d \in Nat \ {0} /\ b \in Nat /\ b <= d  BY DEF Stake
<1>2. amount * b \in Nat  BY <1>1
<1>3. s \in Nat /\ s * d <= amount * b /\ amount * b < s * d + d
  BY <1>1, <1>2, DivBracket
<1>4. amount * b <= amount * d  BY <1>1, MulMono
<1>5. s * d < amount * d + d  BY <1>1, <1>3, <1>4
<1>6. s <= amount  BY <1>1, <1>3, <1>5, MulCancel
<1>. QED  BY <1>3, <1>6 DEF BonusShare

(* handle_player_win: every part is what it should be, and the real part is the *)
(* pro-rata share of the payout rounded up.                                     *)
THEOREM WinPays ==
    ASSUME NEW row, Stake(row), NEW w \in Nat \ {0}
    PROVE  /\ PaysAll(PlayerWin(row, w), row)
           /\ RoundsUp(PlayerWin(row, w), row)
           /\ PlayerWin(row, w).payout - row.deposit = w
<1>. DEFINE d == row.deposit
            b == row.bonus_deposit
            s == BonusShare(w, row)
<1>1. d \in Nat \ {0} /\ b \in Nat /\ b <= d  BY DEF Stake
<1>2. s \in Nat /\ s <= w /\ s * d <= w * b /\ w * b < s * d + d
  BY ShareBound
<1>. HIDE DEF s, d, b
<1>3. PlayerWin(row, w) =
        [payout |-> d + w, onloss |-> w - s, sesaddbon |-> b + s,
         transfer |-> d - b, casino_win |-> 0, sespayout |-> (d - b) + (w - s)]
  BY DEF PlayerWin, RealDeposit, s, d, b
<1>4. PaysAll(PlayerWin(row, w), row)
  BY <1>1, <1>2, <1>3 DEF PaysAll, RealDeposit, d, b
<1>5. ((d - b) + (w - s)) * d - (d + w) * (d - b) = w * b - s * d
  BY <1>1, <1>2
<1>6. RoundsUp(PlayerWin(row, w), row)
  BY <1>1, <1>2, <1>3, <1>5 DEF RoundsUp, RealDeposit, d, b
<1>7. PlayerWin(row, w).payout - row.deposit = w  BY <1>1, <1>3 DEF d
<1>. QED  BY <1>4, <1>6, <1>7

(* handle_player_loss_or_tie: the same for a payout of at most the deposit; in  *)
(* particular the casino's part is never negative.                              *)
THEOREM LossPays ==
    ASSUME NEW row, Stake(row), NEW p \in Nat, p <= row.deposit
    PROVE  /\ PaysAll(PlayerLossOrTie(row, p), row)
           /\ RoundsUp(PlayerLossOrTie(row, p), row)
           /\ PlayerLossOrTie(row, p).onloss = 0
<1>. DEFINE d == row.deposit
            b == row.bonus_deposit
            s == BonusShare(p, row)
<1>1. d \in Nat \ {0} /\ b \in Nat /\ b <= d /\ p <= d  BY DEF Stake
<1>2. s \in Nat /\ s <= p /\ s * d <= p * b /\ p * b < s * d + d
  BY ShareBound
<1>. HIDE DEF s, d, b
<1>3. PlayerLossOrTie(row, p) =
        [payout |-> p, onloss |-> 0, sesaddbon |-> s, transfer |-> p - s,
         casino_win |-> (d - b) - (p - s), sespayout |-> p - s]
  BY DEF PlayerLossOrTie, RealDeposit, s, d, b
<1>4. (d - b) - (p - s) >= 0
  <2>1. (d - p) * (d - b) >= 0  BY <1>1
  <2>2. (d - p) * (d - b) = d * d - d * b - p * d + p * b  BY <1>1
  <2>3. (p + b - d) * d < s * d + d  BY <1>1, <1>2, <2>1, <2>2
  <2>4. p + b - d <= s  BY <1>1, <1>2, <2>3, MulCancel
  <2>. QED  BY <1>1, <1>2, <2>4
<1>5. PaysAll(PlayerLossOrTie(row, p), row)
  BY <1>1, <1>2, <1>3, <1>4 DEF PaysAll, RealDeposit, d, b
<1>6. (p - s) * d - p * (d - b) = p * b - s * d
  BY <1>1, <1>2
<1>7. RoundsUp(PlayerLossOrTie(row, p), row)
  BY <1>1, <1>2, <1>3, <1>6 DEF RoundsUp, RealDeposit, d, b
<1>8. PlayerLossOrTie(row, p).onloss = 0  BY <1>3
<1>. QED  BY <1>5, <1>7, <1>8


-------------------------------------------------------------------------------
(* The contract.                                                                *)

(* A row is never mistaken for the absence of one, nor a receipt.               *)
LEMMA NoRowIsNoRow == NoRow \notin Row
BY DEF NoRow, Row, States

LEMMA NoReceiptIsNoReceipt == NoReceipt \notin Receipt
BY DEF NoReceipt, Receipt

LEMMA NoTxIsNoTx == NoTx \notin Tx
BY DEF NoTx, Tx, Callbacks

LEMMA NoDigestType == NoDigest \in Digest
BY DEF NoDigest, Digest

LEMMA EmptyBookType == EmptyBook \in Book
BY DEF EmptyBook, Book, AtZero

LEMMA SeedType ==
    ASSUME NEW c \in Casinos, NEW n \in Nat, NEW p \in Players
    PROVE  calc_seed(c, n, p) \in Digest
BY DEF calc_seed, Digest, Seeds

LEMMA Sha256Type ==
    ASSUME NEW d \in Digest, NEW k \in Keys
    PROVE  [d EXCEPT !.signs = Append(@, k)] \in Digest
<1>1. d.signs \in Seq(Keys)  BY DEF Digest
<1>2. Append(d.signs, k) \in Seq(Keys)  BY <1>1
<1>. QED  BY <1>2 DEF Digest

(* Paying out keeps a book a book.                                              *)
LEMMA PaidType ==
    ASSUME NEW row \in Row, NEW book \in Book, NEW o \in Outcome
    PROVE  PaidOut(book, row, o) \in Book
<1>1. /\ row.token \in Tokens /\ o.transfer \in Int /\ o.casino_win \in Int
      /\ book.held \in [Tokens -> Int]
  BY DEF Row, Outcome, Book
<1>2. [book.held EXCEPT ![row.token] = @ - o.transfer - o.casino_win]
         \in [Tokens -> Int]
  BY <1>1
<1>. QED  BY <1>2 DEF PaidOut, Book

LEMMA ShareType ==
    ASSUME NEW row \in Row, NEW amount \in Int
    PROVE  BonusShare(amount, row) \in Int
BY DEF BonusShare, Row

LEMMA WinType ==
    ASSUME NEW row \in Row, NEW w \in Int
    PROVE  PlayerWin(row, w) \in Outcome
<1>1. BonusShare(w, row) \in Int  BY ShareType
<1>2. row.deposit \in Int /\ row.bonus_deposit \in Int  BY DEF Row
<1>. QED  BY <1>1, <1>2 DEF PlayerWin, Outcome, RealDeposit

LEMMA LossType ==
    ASSUME NEW row \in Row, NEW p \in Int
    PROVE  PlayerLossOrTie(row, p) \in Outcome
<1>1. BonusShare(p, row) \in Int  BY ShareType
<1>2. row.deposit \in Int /\ row.bonus_deposit \in Int  BY DEF Row
<1>. QED  BY <1>1, <1>2 DEF PlayerLossOrTie, Outcome, RealDeposit

(* What the two steps of an ending make of a book.                              *)
LEMMA CloseBookType ==
    ASSUME NEW book \in Book, NEW row \in Row
    PROVE  /\ Forgotten(book) \in Book
           /\ NotifyCloseSession(book, row) \in Book
           /\ Forgotten(NotifyCloseSession(book, row)) \in Book
<1>1. ASSUME NEW b \in Book PROVE Forgotten(b) \in Book
  <2>1. AtZero(Casinos) \in [Casinos -> Int]  BY DEF AtZero
  <2>. QED  BY <2>1 DEF Forgotten, Book
<1>2. NotifyCloseSession(book, row) \in Book
  <2>1. row.casino_id \in Casinos /\ row.last_max_win \in Int  BY DEF Row
  <2>. DEFINE b == [book EXCEPT !.open[row.casino_id] = @ - 1]
  <2>2. b \in Book  BY <2>1 DEF Book
  <2>3. [b EXCEPT !.locked[row.casino_id] = @ - row.last_max_win] \in Book
    <3>. HIDE DEF b
    <3>. QED  BY <2>1, <2>2 DEF Book
  <2>. QED  BY <2>3 DEF NotifyCloseSession
<1>. QED  BY <1>1, <1>2

LEMMA ReceiptType ==
    ASSUME NEW row \in Row, NEW book \in Book, NEW o \in Outcome,
           NEW by \in {"finish", "close"}
    PROVE  ReceiptOf(by, row, book, o) \in Receipt
BY DEF ReceiptOf, Receipt, Book, Row

-------------------------------------------------------------------------------
(* Type correctness.                                                            *)

(* Storing a row, or opening a transaction on one, keeps the types.             *)
LEMMA StoreType ==
    ASSUME TypeOK, NEW id \in SesIds, NEW row \in Row \cup {NoRow},
           NEW book \in Book, NEW rcpt \in Receipt \cup {NoReceipt},
           Store(id, row, book, rcpt), session_seq' \in Nat
    PROVE  TypeOK'
BY DEF TypeOK, Store

LEMMA BeginType ==
    ASSUME TypeOK, NEW id \in SesIds, NEW row \in Row, NEW book \in Book,
           NEW seq \in Nat, NEW random \in Digest, NEW callback \in Callbacks,
           Begin(callback, id, row, book, seq, random)
    PROVE  TypeOK'
<1>1. [callback |-> callback, ses_id |-> id, row |-> row, book |-> book,
       seq |-> seq, random |-> random, receipt |-> NoReceipt] \in Tx
  BY DEF Tx
<1>. QED  BY <1>1 DEF TypeOK, Begin

(* A row newly made for a transfer, or for a bonus that is added at once.       *)
LEMMA CreateType ==
    ASSUME NEW seq \in Nat, NEW player \in Players, NEW token \in Tokens,
           NEW deposit \in Nat, NEW row \in CreateSession(seq, player, token, deposit)
    PROVE  /\ row.casino_id \in Casinos
           /\ row.deposit = deposit
           /\ row.token = token
           /\ row.state = "req_start"
           /\ row.digest = NoDigest
           /\ row.bonus_deposit = 0
           /\ row.last_max_win = 0
           /\ row # NoRow
           /\ deposit # 0 => row \in Row
           /\ \A q \in Nat \ {0} : AddBonus(row, q) \in Row
<1>1. PICK c \in RawCasinoIds, a \in RawActed :
        row = [ses_seq |-> seq, casino_id |-> c, player |-> player,
               state |-> "req_start", token |-> token, deposit |-> deposit,
               bonus_deposit |-> 0, digest |-> NoDigest, idle |-> 0,
               last_max_win |-> 0, acted |-> a]
  BY DEF CreateSession
<1>2. c \in Casinos /\ a \in BOOLEAN  BY SetsAssumption
<1>3. row.state # "none"  BY <1>1
<1>4. deposit # 0 => row \in Row
  BY <1>1, <1>2, NoDigestType DEF Row, States
<1>5. \A q \in Nat \ {0} : AddBonus(row, q) \in Row
  <2>. TAKE q \in Nat \ {0}
  <2>1. deposit + q \in Nat \ {0}  OBVIOUS
  <2>2. row \in [ses_seq : Nat, casino_id : Casinos, player : Players,
                 state : States, token : Tokens, deposit : Nat,
                 bonus_deposit : Nat, digest : Digest, idle : Nat,
                 last_max_win : Int, acted : BOOLEAN]
    BY <1>1, <1>2, NoDigestType DEF States
  <2>3. row.deposit + q \in Nat \ {0}  BY <1>1, <2>1
  <2>. QED  BY <2>2, <2>3 DEF AddBonus, Row
<1>6. row # NoRow  BY <1>3 DEF NoRow
<1>7. /\ row.casino_id \in Casinos /\ row.deposit = deposit /\ row.token = token
      /\ row.state = "req_start" /\ row.digest = NoDigest
      /\ row.bonus_deposit = 0 /\ row.last_max_win = 0
  BY <1>1, <1>2
<1>. QED  BY ONLY <1>4, <1>5, <1>6, <1>7

LEMMA AddBonusType ==
    ASSUME NEW row \in Row, NEW q \in Nat \ {0}
    PROVE  AddBonus(row, q) \in Row
<1>1. row.deposit + q \in Nat \ {0}  BY DEF Row
<1>. QED  BY <1>1 DEF AddBonus, Row

LEMMA OnTransferType ==
    ASSUME TypeOK, NEW id \in SesIds, NEW from \in Players,
           NEW quantity \in Quantities, NEW token \in Tokens,
           OnTransfer(id, from, quantity, token)
    PROVE  TypeOK'
<1>. quantity \in Nat \ {0}  BY SetsAssumption
<1>. books[id] \in Book /\ session_seq \in Nat /\ sessions[id] \in Row \cup {NoRow}
  BY DEF TypeOK
<1>1. CASE OnTransferNew(id, from, quantity, token)
  <2>1. PICK row \in CreateSession(session_seq, from, token, quantity) :
          Store(id, row, NotifyNewRealDeposit(Received(books[id], token, quantity),
                                              row.casino_id, quantity), NoReceipt)
    BY <1>1 DEF OnTransferNew
  <2>2. row \in Row /\ row.casino_id \in Casinos  BY CreateType
  <2>3. Received(books[id], token, quantity) \in Book  BY DEF Received, Book
  <2>4. NotifyNewRealDeposit(Received(books[id], token, quantity),
                             row.casino_id, quantity) \in Book
    BY <2>2, <2>3 DEF NotifyNewRealDeposit, Book
  <2>5. session_seq' \in Nat  BY <1>1 DEF OnTransferNew
  <2>. DEFINE book == NotifyNewRealDeposit(Received(books[id], token, quantity),
                                           row.casino_id, quantity)
  <2>6. Store(id, row, book, NoReceipt) /\ book \in Book  BY <2>1, <2>4
  <2>. HIDE DEF book
  <2>. QED  BY <2>2, <2>5, <2>6, StoreType
<1>2. CASE OnTransferExtra(id, from, quantity, token)
  <2>1. sessions[id] \in Row  BY <1>2 DEF OnTransferExtra
  <2>2. sessions[id].casino_id \in Casinos  BY <2>1 DEF Row
  <2>3. HandleExtraDeposit(sessions[id], quantity) \in Row
    <3>1. sessions[id].deposit + quantity \in Nat \ {0}  BY <2>1 DEF Row
    <3>. QED  BY <2>1, <3>1 DEF HandleExtraDeposit, Row
  <2>4. Received(books[id], token, quantity) \in Book  BY DEF Received, Book
  <2>5. NotifyNewRealDeposit(Received(books[id], token, quantity),
                             sessions[id].casino_id, quantity) \in Book
    BY <2>2, <2>4 DEF NotifyNewRealDeposit, Book
  <2>6. session_seq' \in Nat  BY <1>2 DEF OnTransferExtra
  <2>. DEFINE new == HandleExtraDeposit(sessions[id], quantity)
              book == NotifyNewRealDeposit(Received(books[id], token, quantity),
                                           sessions[id].casino_id, quantity)
  <2>7. Store(id, new, book, NoReceipt)  BY <1>2 DEF OnTransferExtra
  <2>8. new \in Row /\ book \in Book  BY <2>3, <2>5
  <2>. HIDE DEF new, book
  <2>. QED  BY <2>6, <2>7, <2>8, StoreType
<1>. QED  BY <1>1, <1>2 DEF OnTransfer

LEMMA DepositBonusType ==
    ASSUME TypeOK, NEW id \in SesIds, NEW from \in Players,
           NEW quantity \in Quantities, DepositBonus(id, from, quantity)
    PROVE  TypeOK'
<1>. DEFINE new == [HandleExtraDeposit(sessions[id], quantity)
                      EXCEPT !.bonus_deposit = @ + quantity]
            book == NotifyNewBonusDeposit(books[id], sessions[id].casino_id, quantity)
<1>1. quantity \in Nat  BY SetsAssumption
<1>2. sessions[id] \in Row /\ books[id] \in Book  BY DEF DepositBonus, TypeOK
<1>3. new \in Row
  <2>1. sessions[id].deposit + quantity \in Nat \ {0}
         /\ sessions[id].bonus_deposit + quantity \in Nat  BY <1>1, <1>2 DEF Row
  <2>. QED  BY <1>2, <2>1 DEF HandleExtraDeposit, Row
<1>4. book \in Book
  <2>1. sessions[id].casino_id \in Casinos  BY <1>2 DEF Row
  <2>. QED  BY <1>1, <1>2, <2>1 DEF NotifyNewBonusDeposit, Book
<1>5. session_seq' \in Nat  BY DEF DepositBonus, TypeOK
<1>6. Store(id, new, book, NoReceipt)  BY DEF DepositBonus
<1>. HIDE DEF new, book
<1>. QED  BY <1>3, <1>4, <1>5, <1>6, StoreType

LEMMA NewGameInternalType ==
    ASSUME TypeOK, NEW id \in SesIds, NEW casino_id \in Casinos, NEW row \in Row,
           NEW book \in Book, NEW seq \in Nat,
           NewGameInternal(id, casino_id, row, book, seq)
    PROVE  TypeOK'
<1>. DEFINE d == calc_seed(casino_id, row.ses_seq, row.player)
            new == [row EXCEPT !.idle = 0, !.casino_id = casino_id, !.digest = d]
            nbook == NotifyNewSession(book, casino_id)
<1>1. d \in Digest
  <2>1. row.ses_seq \in Nat /\ row.player \in Players  BY DEF Row
  <2>. QED  BY <2>1, SeedType
<1>2. new \in Row  BY <1>1 DEF Row
<1>3. nbook \in Book  BY DEF NotifyNewSession, Book
<1>4. Begin("on_new_game", id, new, nbook, seq, NoDigest)  BY DEF NewGameInternal
<1>5. "on_new_game" \in Callbacks  BY DEF Callbacks
<1>. HIDE DEF new, nbook
<1>. QED  BY <1>2, <1>3, <1>4, <1>5, NoDigestType, BeginType

LEMMA NewGameType ==
    ASSUME TypeOK, NEW id \in SesIds, NEW casino_id \in Casinos,
           NewGame(id, casino_id)
    PROVE  TypeOK'
<1>1. sessions[id] \in Row /\ books[id] \in Book /\ session_seq \in Nat
  BY DEF NewGame, TypeOK
<1>. QED  BY <1>1, NewGameInternalType DEF NewGame

LEMMA NewGameBonusType ==
    ASSUME TypeOK, NEW id \in SesIds, NEW casino_id \in Casinos,
           NEW from \in Players, NEW quantity \in Quantities,
           NewGameBonus(id, casino_id, from, quantity)
    PROVE  TypeOK'
<1>1. quantity \in Nat \ {0} /\ CoreToken \in Tokens  BY SetsAssumption
<1>2. books[id] \in Book /\ session_seq \in Nat
       /\ sessions[id] \in Row \cup {NoRow}  BY DEF TypeOK
<1>3. PICK row, seq :
        /\ seq \in Nat
        /\ AddBonus(row, quantity) \in Row /\ row.casino_id \in Casinos
        /\ NewGameInternal(id, casino_id, AddBonus(row, quantity),
             NotifyNewBonusDeposit(books[id], row.casino_id, quantity), seq)
  <2>1. CASE sessions[id] # NoRow
    <3>1. sessions[id] \in Row  BY <1>2, <2>1
    <3>2. sessions[id].casino_id \in Casinos  BY <3>1 DEF Row
    <3>3. NewGameInternal(id, casino_id, AddBonus(sessions[id], quantity),
            NotifyNewBonusDeposit(books[id], sessions[id].casino_id, quantity),
            session_seq)
      BY <2>1 DEF NewGameBonus
    <3>. QED  BY <1>1, <1>2, <3>1, <3>2, <3>3, AddBonusType
  <2>2. CASE sessions[id] = NoRow
    <3>1. PICK row \in CreateSession(session_seq, from, CoreToken, 0) :
            NewGameInternal(id, casino_id, AddBonus(row, quantity),
              NotifyNewBonusDeposit(books[id], row.casino_id, quantity),
              session_seq + 1)
      BY <2>2 DEF NewGameBonus
    <3>2. AddBonus(row, quantity) \in Row /\ row.casino_id \in Casinos
      BY <1>1, <1>2, CreateType
    <3>3. session_seq + 1 \in Nat  BY <1>2
    <3>. QED  BY <3>1, <3>2, <3>3
  <2>. QED  BY <2>1, <2>2
<1>4. NotifyNewBonusDeposit(books[id], row.casino_id, quantity) \in Book
  BY <1>1, <1>2, <1>3 DEF NotifyNewBonusDeposit, Book
<1>. QED  BY <1>3, <1>4, NewGameInternalType

LEMMA GameActionType ==
    ASSUME TypeOK, NEW id \in SesIds, GameAction(id)
    PROVE  TypeOK'
<1>. DEFINE new == [sessions[id] EXCEPT !.idle = 0, !.state = "req_action",
                                        !.acted = TRUE]
            book == [books[id] EXCEPT !.moved = TRUE]
<1>1. sessions[id] \in Row /\ books[id] \in Book /\ session_seq \in Nat
  BY DEF GameAction, TypeOK
<1>2. new \in Row  BY <1>1 DEF Row, States
<1>3. book \in Book  BY <1>1 DEF Book
<1>4. Begin("on_action", id, new, book, session_seq, NoDigest)  BY DEF GameAction
<1>5. "on_action" \in Callbacks  BY DEF Callbacks
<1>. HIDE DEF new, book
<1>. QED  BY <1>1, <1>2, <1>3, <1>4, <1>5, NoDigestType, BeginType

(* A verified signature over a row's digest hashes to a digest.                 *)
LEMMA SignedType ==
    ASSUME NEW row \in Row, NEW sign \in Signatures, NEW key,
           RsaVerify(row.digest, sign, key)
    PROVE  Sha256(sign) \in Digest
<1>1. sign.digest \in Digest /\ sign.key \in Keys
  BY DEF RsaVerify, Row, Signatures
<1>. QED  BY <1>1, Sha256Type DEF Sha256

LEMMA SignidicePart1Type ==
    ASSUME TypeOK, NEW id \in SesIds, NEW sign \in Signatures,
           SignidicePart1(id, sign)
    PROVE  TypeOK'
<1>. DEFINE new == [sessions[id] EXCEPT !.digest = Sha256(sign), !.idle = 0,
                                        !.state = "req_signidice_part_2"]
<1>1. sessions[id] \in Row /\ books[id] \in Book /\ session_seq' \in Nat
  BY DEF SignidicePart1, TypeOK
<1>2. Sha256(sign) \in Digest  BY <1>1, SignedType DEF SignidicePart1
<1>3. new \in Row  BY <1>1, <1>2 DEF Row, States
<1>4. Store(id, new, books[id], NoReceipt)  BY DEF SignidicePart1
<1>. HIDE DEF new
<1>. QED  BY <1>1, <1>3, <1>4, StoreType

LEMMA SignidicePart2Type ==
    ASSUME TypeOK, NEW id \in SesIds, NEW sign \in Signatures,
           SignidicePart2(id, sign)
    PROVE  TypeOK'
<1>. DEFINE new == [sessions[id] EXCEPT !.digest = Sha256(sign), !.idle = 0]
<1>1. sessions[id] \in Row /\ books[id] \in Book /\ session_seq \in Nat
  BY DEF SignidicePart2, TypeOK
<1>2. Sha256(sign) \in Digest  BY <1>1, SignedType DEF SignidicePart2
<1>3. new \in Row  BY <1>1, <1>2 DEF Row
<1>4. Begin("on_random", id, new, books[id], session_seq, Sha256(sign))
  BY DEF SignidicePart2
<1>5. "on_random" \in Callbacks  BY DEF Callbacks
<1>. HIDE DEF new
<1>. QED  BY <1>1, <1>2, <1>3, <1>4, <1>5, BeginType

(* A transaction in progress whose row, book or receipt changes stays one.      *)
LEMMA TxTypes ==
    ASSUME tx \in Tx, NEW row \in Row \cup {NoRow}, NEW book \in Book,
           NEW rcpt \in Receipt \cup {NoReceipt}
    PROVE  /\ [tx EXCEPT !.row = row] \in Tx
           /\ [tx EXCEPT !.row = row, !.book = book] \in Tx
           /\ [tx EXCEPT !.row = row, !.book = book, !.receipt = rcpt] \in Tx
BY DEF Tx

(* While a callback runs on a live row, the transaction holds one.              *)
LEMMA InCallbackType ==
    ASSUME TypeOK, InCallback
    PROVE  tx \in Tx /\ tx.row \in Row /\ tx.book \in Book
BY DEF TypeOK, InCallback, Tx

LEMMA RequireActionType ==
    ASSUME TypeOK, NEW allow_deposit \in BOOLEAN, RequireAction(allow_deposit)
    PROVE  TypeOK'
<1>. DEFINE st == IF allow_deposit THEN "req_allow_deposit" ELSE "req_action"
            new == [tx.row EXCEPT !.state = st]
<1>1. tx \in Tx /\ tx.row \in Row  BY InCallbackType DEF RequireAction, CanRequireAction
<1>2. new \in Row  BY <1>1 DEF Row, States
<1>3. tx' = [tx EXCEPT !.row = new]  BY DEF RequireAction, CanRequireAction
<1>4. tx' \in Tx  BY <1>1, <1>2, <1>3 DEF Tx
<1>. QED  BY <1>4 DEF RequireAction, CanRequireAction, TypeOK

LEMMA RequireRandomType ==
    ASSUME TypeOK, RequireRandom
    PROVE  TypeOK'
<1>. DEFINE new == [tx.row EXCEPT !.state = "req_signidice_part_1"]
<1>1. tx \in Tx /\ tx.row \in Row  BY InCallbackType DEF RequireRandom, CanRequireRandom
<1>2. new \in Row  BY <1>1 DEF Row, States
<1>3. tx' = [tx EXCEPT !.row = new]  BY DEF RequireRandom, CanRequireRandom
<1>4. tx' \in Tx  BY <1>1, <1>2, <1>3 DEF Tx
<1>. QED  BY <1>4 DEF RequireRandom, CanRequireRandom, TypeOK

(* What UpdateMaxWin makes of the row and the book.                             *)
LEMMA UpdateMaxWinStep ==
    ASSUME TypeOK, NEW new_max_win \in MaxWins, UpdateMaxWin(new_max_win)
    PROVE  \E lost \in Int :
             LET delta == lost - tx.row.last_max_win
                 row   == [tx.row EXCEPT !.last_max_win = lost]
                 book  == NotifyUpdateSession(tx.book, tx.row.casino_id, delta)
             IN /\ row \in Row
                /\ book \in Book
                /\ tx' = [tx EXCEPT !.row = row, !.book = book]
                /\ tx' \in Tx
<1>. DEFINE lost == new_max_win - tx.row.deposit
            delta == lost - tx.row.last_max_win
            row == [tx.row EXCEPT !.last_max_win = lost]
            book == NotifyUpdateSession(tx.book, tx.row.casino_id, delta)
<1>1. tx \in Tx /\ tx.row \in Row /\ tx.book \in Book
  BY InCallbackType DEF UpdateMaxWin, CanUpdateMaxWin
<1>2. lost \in Int /\ delta \in Int /\ tx.row.casino_id \in Casinos
  BY <1>1, SetsAssumption DEF Row
<1>3. row \in Row  BY <1>1, <1>2 DEF Row
<1>4. book \in Book  BY <1>1, <1>2 DEF NotifyUpdateSession, Book
<1>5. tx' = [tx EXCEPT !.row = row, !.book = book]
  BY <1>1 DEF UpdateMaxWin, CanUpdateMaxWin, MaxWinDelta, Tx
<1>6. tx' \in Tx
  <2>. HIDE DEF row, book
  <2>. QED  BY <1>1, <1>3, <1>4, <1>5, TxTypes
<1>. QED  BY <1>2, <1>3, <1>4, <1>5, <1>6

LEMMA UpdateMaxWinType ==
    ASSUME TypeOK, NEW new_max_win \in MaxWins, UpdateMaxWin(new_max_win)
    PROVE  TypeOK'
<1>1. tx' \in Tx  BY UpdateMaxWinStep
<1>. QED  BY <1>1 DEF UpdateMaxWin, CanUpdateMaxWin, TypeOK

(* What FinishGame makes of the transaction: a settlement with an outcome that  *)
(* handle_player_win or handle_player_loss_or_tie allowed.                      *)
LEMMA FinishGameStep ==
    ASSUME TypeOK, NEW player_payout \in Payouts, FinishGame(player_payout)
    PROVE  \E o \in Outcome :
             /\ \/ \E w \in Int : /\ o = PlayerWin(tx.row, w)
                                  /\ PlayerWinAllowed(tx.row, w)
                                  /\ w <= tx.row.last_max_win
                \/ \E p \in Nat : /\ o = PlayerLossOrTie(tx.row, p)
                                  /\ PlayerLossOrTieAllowed(tx.row, p)
             /\ tx' = [tx EXCEPT
                         !.row = NoRow,
                         !.book = Forgotten(NotifyCloseSession(
                                    PaidOut(tx.book, tx.row, o), tx.row)),
                         !.receipt = ReceiptOf("finish", tx.row, tx.book, o)]
<1>1. tx \in Tx /\ tx.row \in Row /\ tx.book \in Book
  BY InCallbackType DEF FinishGame, CanFinish
<1>. DEFINE w == player_payout - tx.row.deposit
<1>2. w \in Int /\ player_payout \in Nat  BY <1>1, SetsAssumption DEF Row
<1>3. CASE w > 0
  <2>1. PlayerWin(tx.row, w) \in Outcome  BY <1>1, <1>2, WinType
  <2>. QED  BY <1>2, <1>3, <2>1 DEF FinishGame, CanFinish, WithinMaxWin
<1>4. CASE ~(w > 0)
  <2>1. PlayerLossOrTie(tx.row, player_payout) \in Outcome
    BY <1>1, <1>2, LossType
  <2>. QED  BY <1>2, <1>4, <2>1 DEF FinishGame, CanFinish
<1>. QED  BY <1>3, <1>4

LEMMA FinishGameType ==
    ASSUME TypeOK, NEW player_payout \in Payouts, FinishGame(player_payout)
    PROVE  TypeOK'
<1>1. tx \in Tx /\ tx.row \in Row /\ tx.book \in Book
  BY InCallbackType DEF FinishGame, CanFinish
<1>2. PICK o \in Outcome :
        tx' = [tx EXCEPT !.row = NoRow,
                         !.book = Forgotten(NotifyCloseSession(
                                    PaidOut(tx.book, tx.row, o), tx.row)),
                         !.receipt = ReceiptOf("finish", tx.row, tx.book, o)]
  BY FinishGameStep
<1>3. PaidOut(tx.book, tx.row, o) \in Book
  BY <1>1, PaidType
<1>4. Forgotten(NotifyCloseSession(PaidOut(tx.book, tx.row, o), tx.row)) \in Book
  BY <1>1, <1>3, CloseBookType
<1>5. ReceiptOf("finish", tx.row, tx.book, o) \in Receipt  BY <1>1, ReceiptType
<1>6. tx' \in Tx  BY <1>1, <1>2, <1>4, <1>5, TxTypes
<1>. QED  BY <1>6 DEF FinishGame, CanFinish, TypeOK

LEMMA ReturnType ==
    ASSUME TypeOK, Return
    PROVE  TypeOK'
<1>1. tx \in Tx  BY DEF TypeOK, Return, Commit
<1>2. /\ tx.ses_id \in SesIds /\ tx.row \in Row \cup {NoRow} /\ tx.book \in Book
      /\ tx.seq \in Nat /\ tx.random \in Digest
      /\ tx.receipt \in Receipt \cup {NoReceipt}
  BY <1>1 DEF Tx
<1>3. sessions' \in [SesIds -> Row \cup {NoRow}] /\ books' \in [SesIds -> Book]
  BY <1>2 DEF Return, Commit, TypeOK
<1>4. rolls' \subseteq Digest  BY <1>2 DEF Return, Commit, TypeOK
<1>. QED  BY <1>2, <1>3, <1>4 DEF Return, Commit, TypeOK

(* close pays one of the two outcomes.                                          *)
LEMMA CloseStep ==
    ASSUME NEW row \in Row
    PROVE  CloseOutcome(row) \in Outcome
<1>1. row.last_max_win \in Int /\ row.deposit \in Int  BY DEF Row
<1>. QED  BY <1>1, WinType, LossType DEF CloseOutcome

LEMMA CloseType ==
    ASSUME TypeOK, NEW id \in SesIds, Close(id)
    PROVE  TypeOK'
<1>. DEFINE row == sessions[id]
            outcome == CloseOutcome(row)
            paid == PaidOut(books[id], row, outcome)
            book == Forgotten(IF row.state = "req_start" THEN paid
                              ELSE NotifyCloseSession(paid, row))
            rcpt == ReceiptOf("close", row, books[id], outcome)
<1>1. row \in Row /\ books[id] \in Book /\ session_seq' \in Nat
  BY DEF Close, TypeOK
<1>2. outcome \in Outcome  BY <1>1, CloseStep
<1>3. paid \in Book  BY <1>1, <1>2, PaidType
<1>4. book \in Book  BY <1>1, <1>3, CloseBookType
<1>5. rcpt \in Receipt  BY <1>1, <1>2, ReceiptType
<1>6. Store(id, NoRow, book, rcpt)  BY DEF Close
<1>. HIDE DEF book, rcpt
<1>. QED  BY <1>1, <1>4, <1>5, <1>6, StoreType

LEMMA TickType ==
    ASSUME TypeOK, Tick
    PROVE  TypeOK'
<1>1. \A id \in SesIds : Older(sessions[id]) \in Row \cup {NoRow}
  <2>. TAKE id \in SesIds
  <2>1. CASE sessions[id] = NoRow  BY <2>1 DEF Older
  <2>2. CASE sessions[id] \in Row  BY <2>2, BoundsAssumption DEF Older, Row
  <2>. QED  BY <2>1, <2>2 DEF TypeOK
<1>. QED  BY <1>1 DEF Tick, TypeOK

LEMMA TypeInit == Init => TypeOK
BY EmptyBookType DEF Init, TypeOK

(* One step of the contract keeps the types, one case per action.               *)
LEMMA TypeStep == TypeOK /\ [Next]_vars => TypeOK'
<1>. SUFFICES ASSUME TypeOK, [Next]_vars PROVE TypeOK'  OBVIOUS
<1>1. ASSUME NEW id \in SesIds, Deposit(id) PROVE TypeOK'
  BY <1>1, OnTransferType, DepositBonusType DEF Deposit
<1>2. ASSUME NEW id \in SesIds, Start(id) PROVE TypeOK'
  BY <1>2, NewGameType, NewGameBonusType DEF Start
<1>3. ASSUME NEW id \in SesIds, Play(id) PROVE TypeOK'
  BY <1>3, GameActionType, SignidicePart1Type, SignidicePart2Type DEF Play
<1>4. ASSUME NEW id \in SesIds, Close(id) PROVE TypeOK'
  BY <1>4, CloseType
<1>5. CASE Callback
  <2>1. ASSUME Abort PROVE TypeOK'  BY <2>1 DEF Abort, TypeOK
  <2>. QED  BY <1>5, <2>1, RequireActionType, RequireRandomType,
               UpdateMaxWinType, FinishGameType, ReturnType DEF Callback
<1>6. CASE Environment
  <2>1. ASSUME NEW ttl \in TtlValues, InitContract(ttl) PROVE TypeOK'
    BY <2>1 DEF InitContract, TypeOK
  <2>2. ASSUME NEW switch \in Switches, Toggle(switch) PROVE TypeOK'
    BY <2>2 DEF Toggle, TypeOK
  <2>. QED  BY <1>6, <2>1, <2>2, TickType DEF Environment
<1>7. CASE UNCHANGED vars  BY <1>7 DEF vars, TypeOK
<1>. QED  BY <1>1, <1>2, <1>3, <1>4, <1>5, <1>6, <1>7 DEF Next

(* Type correctness: whatever is pushed, every row, book and receipt keeps to   *)
(* its type, and a stored session always has a positive deposit.                *)
THEOREM TypeCorrect == Spec => []TypeOK
<1>. QED  BY TypeInit, TypeStep, PTL DEF Spec

-------------------------------------------------------------------------------
(* The money of the contract: LedgerInv is inductive, and what it implies.      *)

(* A row is a stake as settlements see it.                                      *)
LEMMA RowIsStake ==
    ASSUME NEW row \in Row, BonusFits(row)
    PROVE  Stake(row)
BY DEF Row, BonusFits, Stake

LEMMA NoDigestUnseeded ==
    /\ \A c, n, p : calc_seed(c, n, p) # NoDigest
    /\ \A d \in Digest, k \in Keys : Sha256([key |-> k, digest |-> d]) # NoDigest
<1>1. ASSUME NEW c, NEW n, NEW p PROVE calc_seed(c, n, p) # NoDigest
  <2>1. calc_seed(c, n, p).seed = <<c, n, p>> /\ NoDigest.seed = <<>>
    BY DEF calc_seed, NoDigest
  <2>2. <<c, n, p>> # <<>>  OBVIOUS
  <2>. QED  BY <2>1, <2>2
<1>2. ASSUME NEW d \in Digest, NEW k \in Keys
      PROVE  Sha256([key |-> k, digest |-> d]) # NoDigest
  <2>1. d.signs \in Seq(Keys)  BY DEF Digest
  <2>2. Sha256([key |-> k, digest |-> d]).signs = Append(d.signs, k)
    BY DEF Sha256, Digest
  <2>3. Append(d.signs, k) # <<>>  BY <2>1
  <2>. QED  BY <2>2, <2>3 DEF NoDigest
<1>. QED  BY <1>1, <1>2

(* A step that leaves a started row's money alone keeps it sound.               *)
LEMMA SoundSame ==
    ASSUME NEW row \in Row, NEW book \in Book, NEW new \in Row, NEW nbook \in Book,
           Sound(row, book), Started(row), Started(new),
           new.token = row.token, new.deposit = row.deposit,
           new.bonus_deposit = row.bonus_deposit, new.casino_id = row.casino_id,
           new.last_max_win = row.last_max_win,
           nbook.held = book.held, nbook.open = book.open, nbook.locked = book.locked
    PROVE  Sound(new, nbook)
<1>1. row # NoRow /\ new # NoRow  BY NoRowIsNoRow
<1>2. Escrow(new) = Escrow(row)  BY <1>1 DEF Escrow, RealDeposit
<1>3. Balanced(new, nbook)  BY <1>1 DEF Sound, Balanced, Hosts
<1>4. BonusFits(new)  BY <1>1 DEF Sound, BonusFits
<1>. QED  BY <1>1, <1>2, <1>3, <1>4 DEF Sound

(* A real deposit, counted in its token and told to a casino.                   *)
LEMMA SoundDeposit ==
    ASSUME NEW row \in Row, NEW book \in Book, NEW q \in Nat, NEW c \in Casinos,
           Sound(row, book)
    PROVE  Sound(HandleExtraDeposit(row, q),
                 NotifyNewRealDeposit(Received(book, row.token, q), c, q))
<1>. DEFINE new == HandleExtraDeposit(row, q)
            nbook == NotifyNewRealDeposit(Received(book, row.token, q), c, q)
<1>1. row # NoRow  BY NoRowIsNoRow
<1>2. /\ new.token = row.token /\ new.deposit = row.deposit + q
      /\ new.bonus_deposit = row.bonus_deposit /\ new.casino_id = row.casino_id
      /\ new.last_max_win = row.last_max_win /\ new.state = row.state
      /\ new.digest = row.digest
  BY DEF HandleExtraDeposit, Row
<1>3. new # NoRow
  <2>1. new.state # "none"  BY <1>2 DEF Row, States
  <2>. QED  BY <2>1 DEF NoRow
<1>4. /\ nbook.held = [book.held EXCEPT ![row.token] = @ + q]
      /\ nbook.open = book.open /\ nbook.locked = book.locked
  BY DEF NotifyNewRealDeposit, Received, Book
<1>5. nbook.held = Escrow(new)
  BY <1>1, <1>2, <1>3, <1>4 DEF Sound, Escrow, RealDeposit, Row
<1>6. Balanced(new, nbook)
  BY <1>1, <1>2, <1>3, <1>4 DEF Sound, Balanced, Hosts, Started
<1>7. BonusFits(new)  BY <1>1, <1>2 DEF Sound, BonusFits, Row
<1>8. Sound(new, nbook)
  <2>. HIDE DEF new, nbook
  <2>. QED  BY <1>1, <1>2, <1>3, <1>5, <1>6, <1>7 DEF Sound, Started
<1>. QED  BY <1>8

(* A bonus on top: the real deposit stays what it was.                          *)
LEMMA SoundBonus ==
    ASSUME NEW row \in Row, NEW book \in Book, NEW q \in Nat, NEW c \in Casinos,
           Sound(row, book), Started(row), row.token = CoreToken
    PROVE  Sound([HandleExtraDeposit(row, q) EXCEPT !.bonus_deposit = @ + q],
                 NotifyNewBonusDeposit(book, c, q))
<1>. DEFINE new == [HandleExtraDeposit(row, q) EXCEPT !.bonus_deposit = @ + q]
            nbook == NotifyNewBonusDeposit(book, c, q)
<1>1. row # NoRow  BY NoRowIsNoRow
<1>2. /\ new.token = row.token /\ new.deposit = row.deposit + q
      /\ new.bonus_deposit = row.bonus_deposit + q
      /\ new.casino_id = row.casino_id /\ new.last_max_win = row.last_max_win
      /\ new.state = row.state /\ new.digest = row.digest
  BY DEF HandleExtraDeposit, Row
<1>3. new # NoRow
  <2>1. new.state # "none"  BY <1>2 DEF Row, States
  <2>. QED  BY <2>1 DEF NoRow
<1>4. nbook.held = book.held /\ nbook.open = book.open /\ nbook.locked = book.locked
  BY DEF NotifyNewBonusDeposit, Book
<1>5. nbook.held = Escrow(new)
  <2>1. RealDeposit(new) = RealDeposit(row)  BY <1>2 DEF RealDeposit, Row
  <2>. HIDE DEF new, nbook
  <2>. QED  BY <2>1, <1>1, <1>2, <1>3, <1>4 DEF Sound, Escrow
<1>6. Balanced(new, nbook)
  BY <1>1, <1>2, <1>3, <1>4 DEF Sound, Balanced, Hosts, Started
<1>7. BonusFits(new)  BY <1>1, <1>2 DEF Sound, BonusFits, Row
<1>8. Sound(new, nbook)
  <2>. HIDE DEF new, nbook
  <2>. QED  BY <1>1, <1>2, <1>3, <1>5, <1>6, <1>7 DEF Sound, Started
<1>. QED  BY <1>8

(* A session opened by a transfer.                                              *)
LEMMA SoundOpen ==
    ASSUME NEW seq \in Nat, NEW player \in Players, NEW token \in Tokens,
           NEW q \in Nat \ {0}, NEW row \in CreateSession(seq, player, token, q),
           NEW book \in Book, NEW c \in Casinos, Sound(NoRow, book)
    PROVE  Sound(row, NotifyNewRealDeposit(Received(book, token, q), c, q))
<1>. DEFINE nbook == NotifyNewRealDeposit(Received(book, token, q), c, q)
<1>1. /\ row \in Row /\ row # NoRow /\ row.token = token /\ row.deposit = q
      /\ row.bonus_deposit = 0 /\ row.last_max_win = 0
      /\ row.state = "req_start" /\ ~Started(row)
  BY CreateType DEF Started
<1>2. /\ nbook.held = [book.held EXCEPT ![token] = @ + q]
      /\ nbook.open = book.open /\ nbook.locked = book.locked
  BY DEF NotifyNewRealDeposit, Received, Book
<1>3. book.held = [t \in Tokens |-> 0]  BY DEF Sound, Escrow
<1>4. nbook.held = Escrow(row)  BY <1>1, <1>2, <1>3 DEF Escrow, RealDeposit
<1>5. Balanced(row, nbook)  BY <1>1, <1>2 DEF Sound, Balanced, Hosts
<1>6. BonusFits(row)  BY <1>1 DEF BonusFits
<1>. HIDE DEF nbook
<1>7. Sound(row, nbook)  BY <1>1, <1>4, <1>5, <1>6 DEF Sound
<1>. QED  BY <1>7 DEF nbook

Unbooked(book) == \A c \in Casinos : book.open[c] = 0 /\ book.locked[c] = 0

(* The game starts on a row no casino has been asked to host.                   *)
LEMMA SoundStart ==
    ASSUME NEW row \in Row, NEW book \in Book, NEW c \in Casinos,
           Unbooked(book), BonusFits(row), book.held = Escrow(row),
           row.last_max_win = 0
    PROVE  LET new == [row EXCEPT !.idle = 0, !.casino_id = c,
                         !.digest = calc_seed(c, row.ses_seq, row.player)]
           IN /\ Sound(new, NotifyNewSession(book, c))
              /\ Started(new)
<1>. DEFINE new == [row EXCEPT !.idle = 0, !.casino_id = c,
                      !.digest = calc_seed(c, row.ses_seq, row.player)]
            nbook == NotifyNewSession(book, c)
<1>1. /\ new.token = row.token /\ new.deposit = row.deposit
      /\ new.bonus_deposit = row.bonus_deposit /\ new.casino_id = c
      /\ new.last_max_win = 0 /\ new.state = row.state
      /\ new.digest = calc_seed(c, row.ses_seq, row.player)
  BY DEF Row
<1>2. row # NoRow  BY NoRowIsNoRow
<1>3. new # NoRow
  <2>1. new.state # "none"  BY <1>1 DEF Row, States
  <2>. QED  BY <2>1 DEF NoRow
<1>4. Started(new)  BY <1>1, NoDigestUnseeded DEF Started
<1>5. /\ nbook.held = book.held /\ nbook.locked = book.locked
      /\ nbook.open = [book.open EXCEPT ![c] = @ + 1]
  BY DEF NotifyNewSession, Book
<1>6. nbook.open \in [Casinos -> Int] /\ book.open \in [Casinos -> Int]
  BY <1>5 DEF Book
<1>7. Sound(new, nbook)
  <2>. HIDE DEF new, nbook
  <2>1. nbook.held = Escrow(new)
    BY <1>1, <1>2, <1>3, <1>5 DEF Escrow, RealDeposit
  <2>2. Balanced(new, nbook)
    BY <1>1, <1>3, <1>4, <1>5, <1>6 DEF Balanced, Hosts, Unbooked
  <2>3. BonusFits(new)  BY <1>1 DEF BonusFits
  <2>. QED  BY <1>3, <1>4, <2>1, <2>2, <2>3 DEF Sound
<1>. QED  BY <1>4, <1>7

(* update_max_win tells the casino the difference it has to add.                *)
LEMMA SoundMaxWin ==
    ASSUME NEW row \in Row, NEW book \in Book, NEW lost \in Int,
           Sound(row, book), Started(row)
    PROVE  LET new == [row EXCEPT !.last_max_win = lost]
           IN /\ Sound(new, NotifyUpdateSession(book, row.casino_id,
                                                lost - row.last_max_win))
              /\ Started(new)
<1>. DEFINE new == [row EXCEPT !.last_max_win = lost]
            c == row.casino_id
            nbook == NotifyUpdateSession(book, c, lost - row.last_max_win)
<1>1. /\ new.token = row.token /\ new.deposit = row.deposit
      /\ new.bonus_deposit = row.bonus_deposit /\ new.casino_id = c
      /\ new.last_max_win = lost /\ new.state = row.state
      /\ new.digest = row.digest
  BY DEF Row
<1>2. row # NoRow /\ c \in Casinos /\ row.last_max_win \in Int
  BY NoRowIsNoRow DEF Row
<1>3. new # NoRow
  <2>1. new.state # "none"  BY <1>1 DEF Row, States
  <2>. QED  BY <2>1 DEF NoRow
<1>4. Started(new)  BY <1>1 DEF Started
<1>5. /\ nbook.held = book.held /\ nbook.open = book.open
      /\ nbook.locked = [book.locked EXCEPT ![c] = @ + (lost - row.last_max_win)]
  BY DEF NotifyUpdateSession, Book
<1>6. book.locked \in [Casinos -> Int]  BY DEF Book
<1>7. Sound(new, nbook)
  <2>. HIDE DEF new, nbook
  <2>1. nbook.held = Escrow(new)
    BY <1>1, <1>2, <1>3, <1>5 DEF Sound, Escrow, RealDeposit
  <2>2. Balanced(new, nbook)
    <3>. SUFFICES ASSUME NEW k \in Casinos
                  PROVE  /\ nbook.open[k] = IF Hosts(new, k) THEN 1 ELSE 0
                         /\ nbook.locked[k] = IF Hosts(new, k) THEN lost ELSE 0
      BY <1>1 DEF Balanced
    <3>1. Hosts(new, k) <=> k = c  BY <1>1, <1>3, <1>4 DEF Hosts
    <3>2. Hosts(row, k) <=> k = c  BY <1>2 DEF Hosts
    <3>3. book.locked[k] = IF k = c THEN row.last_max_win ELSE 0
      BY <3>2 DEF Sound, Balanced
    <3>4. book.open[k] = IF k = c THEN 1 ELSE 0
      BY <3>2 DEF Sound, Balanced
    <3>. QED  BY <1>2, <1>5, <1>6, <3>1, <3>3, <3>4
  <2>3. BonusFits(new)  BY <1>1, <1>2 DEF Sound, BonusFits
  <2>. QED  BY <1>3, <1>4, <2>1, <2>2, <2>3 DEF Sound
<1>. QED  BY <1>4, <1>7

(* An ending that pays out the real deposit leaves nothing behind: neither      *)
(* tokens nor, at the host of a started session, an open session or a max win.  *)
LEMMA SoundEnd ==
    ASSUME NEW row \in Row, NEW book \in Book, NEW o \in Outcome,
           Sound(row, book), o.transfer + o.casino_win = RealDeposit(row)
    PROVE  /\ Started(row) => Sound(NoRow, Forgotten(NotifyCloseSession(
                                             PaidOut(book, row, o), row)))
           /\ ~Started(row) => Sound(NoRow, Forgotten(PaidOut(book, row, o)))
<1>. DEFINE paid == PaidOut(book, row, o)
            c == row.casino_id
<1>1. /\ row # NoRow /\ c \in Casinos /\ row.token \in Tokens
      /\ row.last_max_win \in Int /\ RealDeposit(row) \in Int
      /\ o.transfer \in Int /\ o.casino_win \in Int
  BY NoRowIsNoRow DEF Row, Outcome, RealDeposit
<1>2. /\ paid.held = [book.held EXCEPT
                        ![row.token] = @ - o.transfer - o.casino_win]
      /\ paid.open = book.open /\ paid.locked = book.locked /\ paid \in Book
  BY <1>1 DEF PaidOut, Book
<1>3. paid.held = Escrow(NoRow)
  <2>1. book.held = [t \in Tokens |-> IF t = row.token THEN RealDeposit(row) ELSE 0]
    BY <1>1 DEF Sound, Escrow
  <2>2. Escrow(NoRow) = [t \in Tokens |-> 0]  BY DEF Escrow
  <2>. QED  BY <1>1, <1>2, <2>1, <2>2
<1>. HIDE DEF paid
<1>4. ASSUME NEW b \in Book, b.held = Escrow(NoRow), Unbooked(b)
      PROVE  Sound(NoRow, Forgotten(b))
  <2>1. /\ Forgotten(b).held = b.held /\ Forgotten(b).open = b.open
        /\ Forgotten(b).locked = b.locked
    BY DEF Forgotten, Book
  <2>. QED  BY <1>4, <2>1 DEF Sound, Balanced, Hosts, Unbooked
<1>5. CASE Started(row)
  <2>. DEFINE b == NotifyCloseSession(paid, row)
  <2>1. /\ b.held = paid.held
        /\ b.open = [book.open EXCEPT ![c] = @ - 1]
        /\ b.locked = [book.locked EXCEPT ![c] = @ - row.last_max_win]
    BY <1>1, <1>2 DEF NotifyCloseSession, Book
  <2>2. b \in Book  BY <1>2, CloseBookType
  <2>. HIDE DEF b
  <2>3. Unbooked(b)
    <3>. SUFFICES ASSUME NEW k \in Casinos
                  PROVE  b.open[k] = 0 /\ b.locked[k] = 0
      BY DEF Unbooked
    <3>1. Hosts(row, k) <=> k = c  BY <1>1, <1>5 DEF Hosts
    <3>2. /\ book.open[k] = IF k = c THEN 1 ELSE 0
          /\ book.locked[k] = IF k = c THEN row.last_max_win ELSE 0
      BY <3>1 DEF Sound, Balanced
    <3>3. book.open \in [Casinos -> Int] /\ book.locked \in [Casinos -> Int]
      BY DEF Book
    <3>. QED  BY <1>1, <2>1, <3>2, <3>3
  <2>4. Sound(NoRow, Forgotten(b))  BY <1>3, <1>4, <2>1, <2>2, <2>3
  <2>. QED  BY <1>5, <2>4 DEF b, paid
<1>6. CASE ~Started(row)
  <2>1. Unbooked(paid)  BY <1>2, <1>6 DEF Sound, Balanced, Hosts, Unbooked
  <2>2. Sound(NoRow, Forgotten(paid))  BY <1>2, <1>3, <1>4, <2>1
  <2>. QED  BY <1>6, <2>2 DEF paid
<1>. QED  BY <1>5, <1>6

-------------------------------------------------------------------------------
(* The actions.                                                                 *)

(* A stored row that is sound, and not started while in req_start.              *)
LEMMA StoreLedger ==
    ASSUME LedgerInv, TypeOK', tx = NoTx, NEW id \in SesIds, NEW row, NEW book,
           NEW rcpt, Store(id, row, book, rcpt), Sound(row, book), Proper(rcpt),
           row # NoRow /\ Started(row) => row.state # "req_start"
    PROVE  LedgerInv'
<1>1. /\ sessions' = [sessions EXCEPT ![id] = row]
      /\ books' = [books EXCEPT ![id] = book]
      /\ receipt' = rcpt /\ tx' = NoTx
  BY DEF Store
<1>2. \A i \in SesIds :
        /\ Sound(sessions'[i], books'[i])
        /\ sessions'[i] # NoRow /\ Started(sessions'[i])
             => sessions'[i].state # "req_start"
  BY <1>1 DEF LedgerInv, TypeOK
<1>. QED  BY <1>1, <1>2 DEF LedgerInv

LEMMA BeginLedger ==
    ASSUME LedgerInv, TypeOK', NEW callback, NEW id \in SesIds, NEW row \in Row,
           NEW book, NEW seq, NEW random,
           Begin(callback, id, row, book, seq, random),
           Sound(row, book), Started(row),
           row.state = "req_start" => callback = "on_new_game"
    PROVE  LedgerInv'
<1>1. /\ tx'.row = row /\ tx'.book = book /\ tx'.receipt = NoReceipt
      /\ tx'.callback = callback
      /\ receipt' = NoReceipt /\ UNCHANGED <<sessions, books>>
  BY DEF Begin
<1>2. Proper(NoReceipt)  BY DEF Proper
<1>. QED  BY <1>1, <1>2 DEF LedgerInv

LEMMA NoReceiptProper == Proper(NoReceipt)
BY DEF Proper

LEMMA OnTransferLedger ==
    ASSUME LedgerInv, NEW id \in SesIds, NEW from \in Players,
           NEW quantity \in Quantities, NEW token \in Tokens,
           OnTransfer(id, from, quantity, token)
    PROVE  LedgerInv'
<1>1. quantity \in Nat \ {0}  BY SetsAssumption
<1>2. /\ TypeOK /\ tx = NoTx /\ books[id] \in Book /\ session_seq \in Nat
      /\ sessions[id] \in Row \cup {NoRow} /\ Sound(sessions[id], books[id])
      /\ sessions[id] # NoRow /\ Started(sessions[id])
           => sessions[id].state # "req_start"
  BY DEF LedgerInv, TypeOK, OnTransfer, Ready
<1>3. TypeOK'  BY <1>2, OnTransferType
<1>4. CASE OnTransferNew(id, from, quantity, token)
  <2>1. PICK row \in CreateSession(session_seq, from, token, quantity) :
          Store(id, row, NotifyNewRealDeposit(Received(books[id], token, quantity),
                                              row.casino_id, quantity), NoReceipt)
    BY <1>4 DEF OnTransferNew
  <2>. DEFINE book == NotifyNewRealDeposit(Received(books[id], token, quantity),
                                           row.casino_id, quantity)
  <2>2. /\ row.casino_id \in Casinos /\ row.deposit = quantity
        /\ row.token = token /\ row.bonus_deposit = 0 /\ row.last_max_win = 0
        /\ row.digest = NoDigest /\ row # NoRow
    <3>1. session_seq \in Nat /\ quantity \in Nat  BY <1>1, <1>2
    <3>. QED  BY <3>1, CreateType
  <2>6. ~Started(row)  BY <2>2 DEF Started
  <2>3. sessions[id] = NoRow  BY <1>4 DEF OnTransferNew
  <2>4. Sound(row, book)  BY <1>1, <1>2, <2>2, <2>3, SoundOpen
  <2>5. Store(id, row, book, NoReceipt)  BY <2>1
  <2>. HIDE DEF book
  <2>. QED  BY <1>2, <1>3, <2>6, <2>4, <2>5, NoReceiptProper, StoreLedger
<1>5. CASE OnTransferExtra(id, from, quantity, token)
  <2>. DEFINE row == sessions[id]
              new == HandleExtraDeposit(row, quantity)
              book == NotifyNewRealDeposit(Received(books[id], token, quantity),
                                           row.casino_id, quantity)
  <2>1. row \in Row /\ row.token = token /\ row.state = "req_allow_deposit"
    BY <1>2, <1>5 DEF OnTransferExtra, ExtraDepositAllowed
  <2>2. row.casino_id \in Casinos  BY <2>1 DEF Row
  <2>3. Sound(new, book)  BY <1>1, <1>2, <2>1, <2>2, SoundDeposit
  <2>4. new.state # "req_start"  BY <2>1 DEF HandleExtraDeposit, Row
  <2>5. Store(id, new, book, NoReceipt)  BY <1>5 DEF OnTransferExtra
  <2>. HIDE DEF new, book
  <2>. QED  BY <1>2, <1>3, <2>3, <2>4, <2>5, NoReceiptProper, StoreLedger
<1>. QED  BY <1>4, <1>5 DEF OnTransfer

LEMMA DepositBonusLedger ==
    ASSUME LedgerInv, NEW id \in SesIds, NEW from \in Players,
           NEW quantity \in Quantities, DepositBonus(id, from, quantity)
    PROVE  LedgerInv'
<1>. DEFINE row == sessions[id]
            new == [HandleExtraDeposit(row, quantity)
                      EXCEPT !.bonus_deposit = @ + quantity]
            book == NotifyNewBonusDeposit(books[id], row.casino_id, quantity)
<1>1. quantity \in Nat  BY SetsAssumption
<1>2. /\ TypeOK /\ tx = NoTx /\ books[id] \in Book /\ row \in Row
      /\ Sound(row, books[id])
  BY DEF LedgerInv, TypeOK, DepositBonus, Ready
<1>3. TypeOK'  BY <1>2, DepositBonusType
<1>4. row.token = CoreToken /\ row.state = "req_allow_deposit"
  BY DEF DepositBonus, BonusToken, ExtraDepositAllowed
<1>5. Started(row)  BY <1>2, <1>4, NoRowIsNoRow DEF Sound
<1>6. row.casino_id \in Casinos  BY <1>2 DEF Row
<1>7. Sound(new, book)  BY <1>1, <1>2, <1>4, <1>5, <1>6, SoundBonus
<1>8. new.state # "req_start"  BY <1>2, <1>4 DEF HandleExtraDeposit, Row
<1>9. Store(id, new, book, NoReceipt)  BY DEF DepositBonus
<1>. HIDE DEF row, new, book
<1>. QED  BY <1>2, <1>3, <1>7, <1>8, <1>9, NoReceiptProper, StoreLedger

(* newgame and newgamebon begin on a row in req_start, which no casino hosts.   *)
LEMMA NewGameInternalLedger ==
    ASSUME LedgerInv, TypeOK', NEW id \in SesIds, NEW casino_id \in Casinos,
           NEW row \in Row, NEW book \in Book, NEW seq,
           NewGameInternal(id, casino_id, row, book, seq),
           Unbooked(book), BonusFits(row), book.held = Escrow(row),
           row.last_max_win = 0
    PROVE  LedgerInv'
<1>. DEFINE d == calc_seed(casino_id, row.ses_seq, row.player)
            new == [row EXCEPT !.idle = 0, !.casino_id = casino_id, !.digest = d]
            nbook == NotifyNewSession(book, casino_id)
<1>1. Sound(new, nbook) /\ Started(new)  BY SoundStart
<1>2. new \in Row
  <2>1. row.ses_seq \in Nat /\ row.player \in Players  BY DEF Row
  <2>2. d \in Digest  BY <2>1, SeedType
  <2>. QED  BY <2>2 DEF Row
<1>3. Begin("on_new_game", id, new, nbook, seq, NoDigest)  BY DEF NewGameInternal
<1>. HIDE DEF new, nbook
<1>. QED  BY <1>1, <1>2, <1>3, BeginLedger

(* The facts about a stored row in req_start that a start needs.                *)
LEMMA UnstartedRow ==
    ASSUME LedgerInv, NEW id \in SesIds, sessions[id] # NoRow,
           sessions[id].state = "req_start"
    PROVE  /\ sessions[id] \in Row /\ books[id] \in Book
           /\ ~Started(sessions[id])
           /\ Unbooked(books[id])
           /\ sessions[id].last_max_win = 0
           /\ sessions[id].bonus_deposit = 0
           /\ books[id].held = Escrow(sessions[id])
           /\ BonusFits(sessions[id])
<1>1. /\ Sound(sessions[id], books[id]) /\ ~Started(sessions[id])
      /\ sessions[id] \in Row /\ books[id] \in Book
  BY DEF LedgerInv, TypeOK
<1>2. Unbooked(books[id])  BY <1>1 DEF Sound, Balanced, Hosts, Unbooked
<1>. QED  BY <1>1, <1>2 DEF Sound

LEMMA NewGameLedger ==
    ASSUME LedgerInv, NEW id \in SesIds, NEW casino_id \in Casinos,
           NewGame(id, casino_id)
    PROVE  LedgerInv'
<1>1. TypeOK'  BY NewGameType DEF LedgerInv
<1>2. NewGameInternal(id, casino_id, sessions[id], books[id], session_seq)
       /\ sessions[id] # NoRow /\ sessions[id].state = "req_start"
  BY DEF NewGame, NewGameInternal
<1>. QED  BY <1>1, <1>2, UnstartedRow, NewGameInternalLedger

(* A bonus given at the start: the real deposit, nought or transferred before,  *)
(* stays what the game holds.                                                   *)
LEMMA NewGameBonusLedger ==
    ASSUME LedgerInv, NEW id \in SesIds, NEW casino_id \in Casinos,
           NEW from \in Players, NEW quantity \in Quantities,
           NewGameBonus(id, casino_id, from, quantity)
    PROVE  LedgerInv'
<1>1. quantity \in Nat \ {0} /\ CoreToken \in Tokens  BY SetsAssumption
<1>2. /\ TypeOK /\ books[id] \in Book /\ session_seq \in Nat
      /\ Sound(sessions[id], books[id])
  BY DEF LedgerInv, TypeOK
<1>3. TypeOK'  BY <1>2, NewGameBonusType
<1>. DEFINE Good(row) ==
              /\ AddBonus(row, quantity) \in Row
              /\ row.casino_id \in Casinos
              /\ BonusFits(AddBonus(row, quantity))
              /\ Escrow(AddBonus(row, quantity)) = books[id].held
              /\ AddBonus(row, quantity).last_max_win = 0
            book(row) == NotifyNewBonusDeposit(books[id], row.casino_id, quantity)
<1>4. Unbooked(books[id]) /\ \E row, seq :
        Good(row) /\ NewGameInternal(id, casino_id, AddBonus(row, quantity),
                                     book(row), seq)
  <2>1. CASE sessions[id] # NoRow
    <3>. DEFINE row == sessions[id]
    <3>1. /\ NewGameInternal(id, casino_id, AddBonus(row, quantity), book(row),
                             session_seq)
          /\ row.token = CoreToken
      BY <2>1 DEF NewGameBonus, BonusToken
    <3>2. AddBonus(row, quantity).state = "req_start"
      BY <3>1 DEF NewGameInternal
    <3>3. row \in Row  BY <1>2, <2>1 DEF TypeOK
    <3>4. row.state = "req_start"  BY <3>2, <3>3 DEF AddBonus, Row
    <3>5. /\ ~Started(row) /\ Unbooked(books[id]) /\ row.last_max_win = 0
          /\ row.bonus_deposit = 0 /\ books[id].held = Escrow(row)
      BY <2>1, <3>4, UnstartedRow
    <3>6. /\ AddBonus(row, quantity) \in Row /\ row.casino_id \in Casinos
          /\ AddBonus(row, quantity).token = CoreToken
          /\ AddBonus(row, quantity).deposit = row.deposit + quantity
          /\ AddBonus(row, quantity).bonus_deposit = quantity
          /\ AddBonus(row, quantity).last_max_win = 0
      BY <1>1, <3>1, <3>3, <3>5, AddBonusType DEF AddBonus, Row
    <3>7. row.deposit \in Nat /\ AddBonus(row, quantity) # NoRow
      BY <3>3, <3>6, NoRowIsNoRow DEF Row
    <3>8. BonusFits(AddBonus(row, quantity))  BY <1>1, <3>6, <3>7 DEF BonusFits
    <3>9. Escrow(AddBonus(row, quantity)) = books[id].held
      BY <1>1, <2>1, <3>1, <3>5, <3>6, <3>7 DEF Escrow, RealDeposit
    <3>10. Good(row)  BY <3>6, <3>8, <3>9
    <3>. QED  BY <3>1, <3>5, <3>10
  <2>2. CASE sessions[id] = NoRow
    <3>1. PICK row \in CreateSession(session_seq, from, CoreToken, 0) :
            NewGameInternal(id, casino_id, AddBonus(row, quantity), book(row),
                            session_seq + 1)
      BY <2>2 DEF NewGameBonus
    <3>2. /\ row.casino_id \in Casinos /\ AddBonus(row, quantity) \in Row
          /\ row.deposit = 0 /\ row.token = CoreToken
      BY <1>1, <1>2, CreateType
    <3>3. /\ AddBonus(row, quantity).token = CoreToken
          /\ AddBonus(row, quantity).deposit = quantity
          /\ AddBonus(row, quantity).bonus_deposit = quantity
          /\ AddBonus(row, quantity).last_max_win = 0
      BY <1>1, <3>2 DEF CreateSession, AddBonus
    <3>4. BonusFits(AddBonus(row, quantity))  BY <1>1, <3>3 DEF BonusFits
    <3>5. Escrow(AddBonus(row, quantity)) = Escrow(NoRow)
      BY <1>1, <3>3 DEF Escrow, RealDeposit
    <3>6. Unbooked(books[id]) /\ books[id].held = Escrow(NoRow)
      BY <1>2, <2>2 DEF Sound, Balanced, Hosts, Unbooked
    <3>7. Good(row)  BY <3>2, <3>3, <3>4, <3>5, <3>6
    <3>. QED  BY <3>1, <3>6, <3>7
  <2>. QED  BY <2>1, <2>2
<1>5. PICK row, seq :
        Good(row) /\ NewGameInternal(id, casino_id, AddBonus(row, quantity),
                                     book(row), seq)
  BY <1>4
<1>6. /\ book(row) \in Book /\ Unbooked(book(row))
      /\ book(row).held = books[id].held
  BY <1>1, <1>2, <1>4, <1>5 DEF NotifyNewBonusDeposit, Book, Unbooked
<1>. QED  BY <1>3, <1>5, <1>6, NewGameInternalLedger

LEMMA GameActionLedger ==
    ASSUME LedgerInv, NEW id \in SesIds, GameAction(id)
    PROVE  LedgerInv'
<1>. DEFINE row == sessions[id]
            new == [row EXCEPT !.idle = 0, !.state = "req_action", !.acted = TRUE]
            book == [books[id] EXCEPT !.moved = TRUE]
<1>1. /\ TypeOK /\ row \in Row /\ books[id] \in Book /\ Sound(row, books[id])
      /\ row.state # "req_start" /\ row # NoRow
  BY DEF LedgerInv, TypeOK, GameAction
<1>2. TypeOK'  BY <1>1, GameActionType
<1>3. Started(row)  BY <1>1 DEF Sound
<1>4. /\ new \in Row /\ new.token = row.token /\ new.deposit = row.deposit
      /\ new.bonus_deposit = row.bonus_deposit /\ new.casino_id = row.casino_id
      /\ new.last_max_win = row.last_max_win /\ new.digest = row.digest
      /\ new.state # "req_start"
  BY <1>1 DEF Row, States
<1>5. /\ book \in Book /\ book.held = books[id].held
      /\ book.open = books[id].open /\ book.locked = books[id].locked
  BY <1>1 DEF Book
<1>6. Started(new)  BY <1>3, <1>4 DEF Started
<1>7. Begin("on_action", id, new, book, session_seq, NoDigest)  BY DEF GameAction
<1>. HIDE DEF row, new, book
<1>8. Sound(new, book)  BY <1>1, <1>3, <1>4, <1>5, <1>6, SoundSame
<1>. QED  BY <1>2, <1>4, <1>6, <1>7, <1>8, BeginLedger

(* A verified signature over a row's digest never hashes to the unset digest.   *)
LEMMA SignedStarted ==
    ASSUME NEW row \in Row, NEW sign \in Signatures, NEW key,
           RsaVerify(row.digest, sign, key)
    PROVE  Sha256(sign) # NoDigest
<1>1. sign.digest \in Digest /\ sign.key \in Keys
       /\ sign = [key |-> sign.key, digest |-> sign.digest]
  BY DEF RsaVerify, Row, Signatures
<1>. QED  BY <1>1, NoDigestUnseeded

LEMMA SignidicePart1Ledger ==
    ASSUME LedgerInv, NEW id \in SesIds, NEW sign \in Signatures,
           SignidicePart1(id, sign)
    PROVE  LedgerInv'
<1>. DEFINE row == sessions[id]
            new == [row EXCEPT !.digest = Sha256(sign), !.idle = 0,
                               !.state = "req_signidice_part_2"]
<1>1. /\ TypeOK /\ tx = NoTx /\ row \in Row /\ books[id] \in Book
      /\ Sound(row, books[id]) /\ row.state = "req_signidice_part_1" /\ row # NoRow
  BY DEF LedgerInv, TypeOK, SignidicePart1, Ready
<1>2. TypeOK'  BY <1>1, SignidicePart1Type
<1>3. Started(row)  BY <1>1 DEF Sound
<1>4. Sha256(sign) \in Digest /\ Sha256(sign) # NoDigest
  BY <1>1, SignedType, SignedStarted DEF SignidicePart1
<1>5. /\ new \in Row /\ new.token = row.token /\ new.deposit = row.deposit
      /\ new.bonus_deposit = row.bonus_deposit /\ new.casino_id = row.casino_id
      /\ new.last_max_win = row.last_max_win /\ new.digest = Sha256(sign)
      /\ new.state # "req_start"
  BY <1>1, <1>4 DEF Row, States
<1>6. Started(new)  BY <1>4, <1>5 DEF Started
<1>7. Store(id, new, books[id], NoReceipt)  BY DEF SignidicePart1
<1>. HIDE DEF row, new
<1>8. Sound(new, books[id])  BY <1>1, <1>3, <1>5, <1>6, SoundSame
<1>. QED  BY <1>1, <1>2, <1>5, <1>7, <1>8, NoReceiptProper, StoreLedger

LEMMA SignidicePart2Ledger ==
    ASSUME LedgerInv, NEW id \in SesIds, NEW sign \in Signatures,
           SignidicePart2(id, sign)
    PROVE  LedgerInv'
<1>. DEFINE row == sessions[id]
            new == [row EXCEPT !.digest = Sha256(sign), !.idle = 0]
<1>1. /\ TypeOK /\ row \in Row /\ books[id] \in Book
      /\ Sound(row, books[id]) /\ row.state = "req_signidice_part_2" /\ row # NoRow
  BY DEF LedgerInv, TypeOK, SignidicePart2
<1>2. TypeOK'  BY <1>1, SignidicePart2Type
<1>3. Started(row)  BY <1>1 DEF Sound
<1>4. Sha256(sign) \in Digest /\ Sha256(sign) # NoDigest
  BY <1>1, SignedType, SignedStarted DEF SignidicePart2
<1>5. /\ new \in Row /\ new.token = row.token /\ new.deposit = row.deposit
      /\ new.bonus_deposit = row.bonus_deposit /\ new.casino_id = row.casino_id
      /\ new.last_max_win = row.last_max_win /\ new.digest = Sha256(sign)
      /\ new.state # "req_start"
  BY <1>1, <1>4 DEF Row
<1>6. Started(new)  BY <1>4, <1>5 DEF Started
<1>7. Begin("on_random", id, new, books[id], session_seq, Sha256(sign))
  BY DEF SignidicePart2
<1>. HIDE DEF row, new
<1>8. Sound(new, books[id])  BY <1>1, <1>3, <1>5, <1>6, SoundSame
<1>. QED  BY <1>2, <1>5, <1>6, <1>7, <1>8, BeginLedger

(* A call from a callback works on a sound, started copy.                       *)
LEMMA InCallbackSound ==
    ASSUME LedgerInv, InCallback
    PROVE  /\ TypeOK
           /\ tx \in Tx /\ tx.row \in Row /\ tx.book \in Book
           /\ Sound(tx.row, tx.book) /\ Started(tx.row) /\ Proper(tx.receipt)
           /\ tx.row.state = "req_start" => tx.callback = "on_new_game"
BY InCallbackType DEF LedgerInv, InCallback

(* ... and need only leave it sound.                                            *)
LEMMA TxLedger ==
    ASSUME LedgerInv, TypeOK', UNCHANGED <<sessions, books, receipt>>,
           Sound(tx'.row, tx'.book), Proper(tx'.receipt),
           tx'.row # NoRow =>
             /\ Started(tx'.row)
             /\ tx'.row.state = "req_start" => tx'.callback = "on_new_game"
    PROVE  LedgerInv'
BY DEF LedgerInv

LEMMA RequireLedger ==
    ASSUME LedgerInv, InCallback, TypeOK', NEW st \in States, st # "req_start",
           tx' = [tx EXCEPT !.row.state = st],
           UNCHANGED <<sessions, books, receipt>>
    PROVE  LedgerInv'
<1>. DEFINE new == [tx.row EXCEPT !.state = st]
<1>1. /\ tx \in Tx /\ tx.row \in Row /\ tx.book \in Book
      /\ Sound(tx.row, tx.book) /\ Started(tx.row) /\ Proper(tx.receipt)
  BY InCallbackSound
<1>2. /\ new \in Row /\ new.token = tx.row.token /\ new.deposit = tx.row.deposit
      /\ new.bonus_deposit = tx.row.bonus_deposit
      /\ new.casino_id = tx.row.casino_id
      /\ new.last_max_win = tx.row.last_max_win /\ new.digest = tx.row.digest
      /\ new.state = st
  BY <1>1 DEF Row
<1>3. Started(new)  BY <1>1, <1>2 DEF Started
<1>4. tx'.row = new /\ tx'.book = tx.book /\ tx'.receipt = tx.receipt
  BY <1>1 DEF Tx
<1>. HIDE DEF new
<1>5. Sound(new, tx.book)  BY <1>1, <1>2, <1>3, SoundSame
<1>. QED  BY <1>1, <1>2, <1>3, <1>4, <1>5, TxLedger

LEMMA RequireActionLedger ==
    ASSUME LedgerInv, NEW allow_deposit \in BOOLEAN, RequireAction(allow_deposit)
    PROVE  LedgerInv'
<1>. DEFINE st == IF allow_deposit THEN "req_allow_deposit" ELSE "req_action"
<1>1. TypeOK'  BY RequireActionType DEF LedgerInv
<1>2. st \in States /\ st # "req_start"  BY DEF States
<1>3. /\ InCallback /\ tx' = [tx EXCEPT !.row.state = st]
      /\ UNCHANGED <<sessions, books, receipt>>
  BY DEF RequireAction, CanRequireAction
<1>. HIDE DEF st
<1>. QED  BY <1>1, <1>2, <1>3, RequireLedger

LEMMA RequireRandomLedger ==
    ASSUME LedgerInv, RequireRandom
    PROVE  LedgerInv'
<1>1. TypeOK'  BY RequireRandomType DEF LedgerInv
<1>2. "req_signidice_part_1" \in States  BY DEF States
<1>3. /\ InCallback /\ tx' = [tx EXCEPT !.row.state = "req_signidice_part_1"]
      /\ UNCHANGED <<sessions, books, receipt>>
  BY DEF RequireRandom, CanRequireRandom
<1>. QED  BY <1>1, <1>2, <1>3, RequireLedger

LEMMA UpdateMaxWinLedger ==
    ASSUME LedgerInv, NEW new_max_win \in MaxWins, UpdateMaxWin(new_max_win)
    PROVE  LedgerInv'
<1>1. InCallback /\ UNCHANGED <<sessions, books, receipt>>  BY DEF UpdateMaxWin, CanUpdateMaxWin
<1>2. /\ TypeOK /\ tx \in Tx /\ tx.row \in Row /\ tx.book \in Book
      /\ Sound(tx.row, tx.book) /\ Started(tx.row) /\ Proper(tx.receipt)
      /\ tx.row.state # "req_start"
  BY <1>1, InCallbackSound DEF UpdateMaxWin, CanUpdateMaxWin
<1>3. TypeOK'  BY <1>2, UpdateMaxWinType
<1>4. PICK lost \in Int :
        tx' = [tx EXCEPT
                 !.row = [tx.row EXCEPT !.last_max_win = lost],
                 !.book = NotifyUpdateSession(tx.book, tx.row.casino_id,
                                              lost - tx.row.last_max_win)]
  BY <1>2, UpdateMaxWinStep
<1>5. /\ tx'.row = [tx.row EXCEPT !.last_max_win = lost]
      /\ tx'.book = NotifyUpdateSession(tx.book, tx.row.casino_id,
                                        lost - tx.row.last_max_win)
      /\ tx'.receipt = tx.receipt
  BY <1>2, <1>4 DEF Tx
<1>6. Sound(tx'.row, tx'.book) /\ Started(tx'.row)  BY <1>2, <1>5, SoundMaxWin
<1>7. tx'.row.state # "req_start"  BY <1>2, <1>5 DEF Row
<1>. QED  BY <1>1, <1>2, <1>3, <1>5, <1>6, <1>7, TxLedger

(* The receipt of a sound row's ending, whichever handler settles it.           *)
LEMMA WinReceipt ==
    ASSUME NEW row \in Row, NEW book \in Book, NEW by \in {"finish", "close"},
           Sound(row, book), Started(row), NEW w \in Int,
           PlayerWinAllowed(row, w), w <= row.last_max_win
    PROVE  /\ Proper(ReceiptOf(by, row, book, PlayerWin(row, w)))
           /\ PlayerWin(row, w).transfer + PlayerWin(row, w).casino_win
                = RealDeposit(row)
<1>1. w \in Nat \ {0}  BY DEF PlayerWinAllowed
<1>2. row # NoRow  BY NoRowIsNoRow
<1>3. Stake(row)  BY <1>2, RowIsStake DEF Sound
<1>4. /\ PaysAll(PlayerWin(row, w), row) /\ RoundsUp(PlayerWin(row, w), row)
      /\ PlayerWin(row, w).payout - row.deposit = w
  BY <1>1, <1>3, WinPays
<1>5. book.locked[row.casino_id] = row.last_max_win
  <2>1. row.casino_id \in Casinos  BY DEF Row
  <2>2. Hosts(row, row.casino_id)  BY <1>2 DEF Hosts
  <2>. QED  BY <2>1, <2>2 DEF Sound, Balanced
<1>6. Covered(ReceiptOf(by, row, book, PlayerWin(row, w)))
  BY <1>4, <1>5 DEF Covered, ReceiptOf
<1>. QED  BY <1>4, <1>6 DEF Proper, ReceiptOf, PaysAll

LEMMA LossReceipt ==
    ASSUME NEW row \in Row, NEW book \in Book, NEW by \in {"finish", "close"},
           Sound(row, book), NEW p \in Nat, PlayerLossOrTieAllowed(row, p)
    PROVE  /\ Proper(ReceiptOf(by, row, book, PlayerLossOrTie(row, p)))
           /\ PlayerLossOrTie(row, p).transfer + PlayerLossOrTie(row, p).casino_win
                = RealDeposit(row)
<1>1. p <= row.deposit  BY DEF PlayerLossOrTieAllowed
<1>2. Stake(row)  BY NoRowIsNoRow, RowIsStake DEF Sound
<1>3. /\ PaysAll(PlayerLossOrTie(row, p), row)
      /\ RoundsUp(PlayerLossOrTie(row, p), row)
      /\ PlayerLossOrTie(row, p).onloss = 0
  BY <1>1, <1>2, LossPays
<1>. QED  BY <1>3 DEF Proper, Covered, ReceiptOf, PaysAll

LEMMA FinishGameLedger ==
    ASSUME LedgerInv, NEW player_payout \in Payouts, FinishGame(player_payout)
    PROVE  LedgerInv'
<1>1. InCallback /\ UNCHANGED <<sessions, books, receipt>>  BY DEF FinishGame, CanFinish
<1>2. /\ TypeOK /\ tx \in Tx /\ tx.row \in Row /\ tx.book \in Book
      /\ Sound(tx.row, tx.book) /\ Started(tx.row)
  BY <1>1, InCallbackSound
<1>3. TypeOK'  BY <1>2, FinishGameType
<1>4. PICK o \in Outcome :
        /\ \/ \E w \in Int : /\ o = PlayerWin(tx.row, w)
                             /\ PlayerWinAllowed(tx.row, w)
                             /\ w <= tx.row.last_max_win
           \/ \E p \in Nat : /\ o = PlayerLossOrTie(tx.row, p)
                             /\ PlayerLossOrTieAllowed(tx.row, p)
        /\ tx' = [tx EXCEPT
                    !.row = NoRow,
                    !.book = Forgotten(NotifyCloseSession(
                               PaidOut(tx.book, tx.row, o), tx.row)),
                    !.receipt = ReceiptOf("finish", tx.row, tx.book, o)]
  BY <1>2, FinishGameStep
<1>5. /\ Proper(ReceiptOf("finish", tx.row, tx.book, o))
      /\ o.transfer + o.casino_win = RealDeposit(tx.row)
  BY <1>2, <1>4, WinReceipt, LossReceipt
<1>6. /\ tx'.row = NoRow
      /\ tx'.book = Forgotten(NotifyCloseSession(
                                PaidOut(tx.book, tx.row, o), tx.row))
      /\ tx'.receipt = ReceiptOf("finish", tx.row, tx.book, o)
  BY <1>2, <1>4 DEF Tx
<1>7. Sound(tx'.row, tx'.book)  BY <1>2, <1>5, <1>6, SoundEnd
<1>. QED  BY <1>1, <1>3, <1>5, <1>6, <1>7, TxLedger

LEMMA ReturnLedger ==
    ASSUME LedgerInv, Return
    PROVE  LedgerInv'
<1>1. TypeOK'  BY ReturnType DEF LedgerInv
<1>2. /\ sessions' = [sessions EXCEPT ![tx.ses_id] = tx.row]
      /\ books' = [books EXCEPT ![tx.ses_id] = tx.book]
      /\ receipt' = tx.receipt /\ tx' = NoTx
      /\ tx # NoTx
  BY DEF Return, Commit
<1>3. /\ Sound(tx.row, tx.book) /\ Proper(tx.receipt)
      /\ tx.row # NoRow => tx.row.state # "req_start"
  BY <1>2 DEF LedgerInv, Return, Commit
<1>4. \A i \in SesIds :
        /\ Sound(sessions'[i], books'[i])
        /\ sessions'[i] # NoRow /\ Started(sessions'[i])
             => sessions'[i].state # "req_start"
  BY <1>2, <1>3 DEF LedgerInv, TypeOK
<1>. QED  BY <1>1, <1>2, <1>3, <1>4 DEF LedgerInv

LEMMA CloseLedger ==
    ASSUME LedgerInv, NEW id \in SesIds, Close(id)
    PROVE  LedgerInv'
<1>. DEFINE row == sessions[id]
            o == CloseOutcome(row)
            paid == PaidOut(books[id], row, o)
            book == Forgotten(IF row.state = "req_start" THEN paid
                              ELSE NotifyCloseSession(paid, row))
            rcpt == ReceiptOf("close", row, books[id], o)
<1>1. /\ TypeOK /\ tx = NoTx /\ row \in Row /\ books[id] \in Book
      /\ Sound(row, books[id]) /\ row # NoRow /\ CloseAllowed(row)
      /\ Started(row) => row.state # "req_start"
  BY DEF LedgerInv, TypeOK, Close, Ready
<1>2. TypeOK'  BY <1>1, CloseType
<1>3. row.state # "req_start" <=> Started(row)  BY <1>1 DEF Sound
<1>4. o \in Outcome  BY <1>1, CloseStep
<1>5. Proper(rcpt) /\ o.transfer + o.casino_win = RealDeposit(row)
  <2>1. CASE row.state = "req_signidice_part_2"
    <3>1. row.last_max_win \in Int  BY <1>1 DEF Row
    <3>2. o = PlayerWin(row, row.last_max_win)
           /\ PlayerWinAllowed(row, row.last_max_win)
      BY <1>1, <2>1 DEF CloseOutcome, CloseAllowed
    <3>3. Started(row)  BY <1>3, <2>1
    <3>. QED  BY <1>1, <3>1, <3>2, <3>3, WinReceipt
  <2>2. CASE row.state # "req_signidice_part_2"
    <3>. DEFINE p == IF CloseRefunds(row) THEN row.deposit ELSE 0
    <3>1. p \in Nat  BY <1>1 DEF Row
    <3>2. o = PlayerLossOrTie(row, p) /\ PlayerLossOrTieAllowed(row, p)
      BY <1>1, <2>2 DEF CloseOutcome, CloseAllowed
    <3>. HIDE DEF p
    <3>. QED  BY <1>1, <3>1, <3>2, LossReceipt
  <2>. QED  BY <2>1, <2>2
<1>6. Sound(NoRow, book)
  <2>. HIDE DEF o
  <2>. QED  BY <1>1, <1>3, <1>4, <1>5, SoundEnd
<1>7. Store(id, NoRow, book, rcpt)  BY DEF Close
<1>. HIDE DEF book, rcpt
<1>. QED  BY <1>1, <1>2, <1>5, <1>6, <1>7, StoreLedger

LEMMA TickLedger ==
    ASSUME LedgerInv, Tick
    PROVE  LedgerInv'
<1>1. TypeOK /\ TypeOK'  BY TickType DEF LedgerInv
<1>2. ASSUME NEW id \in SesIds
      PROVE  /\ Sound(sessions'[id], books'[id])
             /\ sessions'[id] # NoRow /\ Started(sessions'[id])
                  => sessions'[id].state # "req_start"
  <2>1. sessions'[id] = Older(sessions[id]) /\ books'[id] = books[id]
    BY DEF Tick
  <2>2. /\ Sound(sessions[id], books[id])
        /\ sessions[id] # NoRow /\ Started(sessions[id])
             => sessions[id].state # "req_start"
    BY DEF LedgerInv
  <2>3. CASE sessions[id] = NoRow  BY <2>1, <2>2, <2>3 DEF Older
  <2>4. CASE sessions[id] \in Row
    <3>. DEFINE row == sessions[id]
                new == Older(row)
    <3>1. row # NoRow  BY <2>4, NoRowIsNoRow
    <3>2. /\ new.token = row.token /\ new.deposit = row.deposit
          /\ new.bonus_deposit = row.bonus_deposit
          /\ new.casino_id = row.casino_id
          /\ new.last_max_win = row.last_max_win
          /\ new.digest = row.digest /\ new.state = row.state
      BY <2>4, <3>1 DEF Older, Row
    <3>3. new # NoRow
      <4>1. new.state # "none"  BY <2>4, <3>2 DEF Row, States
      <4>. QED  BY <4>1 DEF NoRow
    <3>. HIDE DEF new
    <3>4. Escrow(new) = Escrow(row)  BY <3>1, <3>2, <3>3 DEF Escrow, RealDeposit
    <3>5. Balanced(new, books[id])
      BY <2>2, <3>1, <3>2, <3>3 DEF Sound, Balanced, Hosts, Started
    <3>6. Sound(new, books[id])
      BY <2>2, <3>1, <3>2, <3>3, <3>4, <3>5 DEF Sound, BonusFits, Started
    <3>. QED  BY <2>1, <2>2, <3>1, <3>2, <3>6 DEF new, Started
  <2>. QED  BY <1>1, <2>3, <2>4 DEF TypeOK
<1>3. tx' = NoTx /\ receipt' = NoReceipt  BY DEF Tick
<1>. QED  BY <1>1, <1>2, <1>3, NoReceiptProper DEF LedgerInv

LEMMA LedgerInit == Init => LedgerInv
<1>. SUFFICES ASSUME Init PROVE LedgerInv  OBVIOUS
<1>1. Sound(NoRow, EmptyBook)
  BY DEF Sound, EmptyBook, Escrow, AtZero, Balanced, Hosts
<1>. QED  BY <1>1, TypeInit, NoReceiptProper DEF Init, LedgerInv

LEMMA LedgerStep == LedgerInv /\ [Next]_vars => LedgerInv'
<1>. SUFFICES ASSUME LedgerInv, [Next]_vars PROVE LedgerInv'  OBVIOUS
<1>0. TypeOK'  BY TypeStep DEF LedgerInv
<1>1. ASSUME NEW id \in SesIds, Deposit(id) PROVE LedgerInv'
  BY <1>1, OnTransferLedger, DepositBonusLedger DEF Deposit
<1>2. ASSUME NEW id \in SesIds, Start(id) PROVE LedgerInv'
  BY <1>2, NewGameLedger, NewGameBonusLedger DEF Start
<1>3. ASSUME NEW id \in SesIds, Play(id) PROVE LedgerInv'
  BY <1>3, GameActionLedger, SignidicePart1Ledger, SignidicePart2Ledger DEF Play
<1>4. ASSUME NEW id \in SesIds, Close(id) PROVE LedgerInv'
  BY <1>4, CloseLedger
<1>5. CASE Callback
  <2>1. ASSUME Abort PROVE LedgerInv'  BY <1>0, <2>1 DEF Abort, LedgerInv
  <2>. QED  BY <1>5, <2>1, RequireActionLedger, RequireRandomLedger,
               UpdateMaxWinLedger, FinishGameLedger, ReturnLedger DEF Callback
<1>6. CASE Environment
  <2>1. ASSUME NEW ttl \in TtlValues, InitContract(ttl) PROVE LedgerInv'
    BY <1>0, <2>1, NoReceiptProper DEF InitContract, LedgerInv
  <2>2. ASSUME NEW switch \in Switches, Toggle(switch) PROVE LedgerInv'
    BY <1>0, <2>2, NoReceiptProper DEF Toggle, LedgerInv
  <2>. QED  BY <1>6, <2>1, <2>2, TickLedger DEF Environment
<1>7. CASE UNCHANGED vars  BY <1>0, <1>7 DEF vars, LedgerInv
<1>. QED  BY <1>1, <1>2, <1>3, <1>4, <1>5, <1>6, <1>7 DEF Next

(* The contract's ledger: stored rows and the copies of running transactions    *)
(* are sound, and every settlement is.                                          *)
THEOREM LedgerSound == Spec => []LedgerInv
<1>. QED  BY LedgerInit, LedgerStep, PTL DEF Spec

(* The game holds exactly the real deposit of every live session, and nothing   *)
(* for one that is over.                                                        *)
THEOREM EscrowIsExact == Spec => []EscrowExact
<1>1. LedgerInv => EscrowExact  BY DEF LedgerInv, Sound, EscrowExact
<1>. QED  BY <1>1, LedgerSound, PTL

(* A casino counts a session open and keeps its max win set aside exactly while *)
(* it hosts it.                                                                 *)
THEOREM CasinoIsBalanced == Spec => []CasinoBalanced
<1>1. LedgerInv => CasinoBalanced  BY DEF LedgerInv, Sound, CasinoBalanced
<1>. QED  BY <1>1, LedgerSound, PTL

(* No deposit is more bonus than deposit, nor bonus in another token.           *)
THEOREM BonusIsWithinDeposit == Spec => []BonusWithinDeposit
<1>1. LedgerInv => BonusWithinDeposit  BY DEF LedgerInv, Sound, BonusWithinDeposit
<1>. QED  BY <1>1, LedgerSound, PTL

(* Every settlement, by finish_game or by close, pays its payout and no more,   *)
(* in parts that are never negative.                                            *)
THEOREM SettlementsPayInFull == Spec => []PaidInFull
<1>1. LedgerInv => PaidInFull  BY DEF LedgerInv, Proper, PaidInFull
<1>. QED  BY <1>1, LedgerSound, PTL

(* The player's real tokens are the pro-rata share of the payout, rounded up.   *)
THEOREM SettlementsAreProRata == Spec => []ProRata
<1>1. LedgerInv => ProRata  BY DEF LedgerInv, Proper, ProRata
<1>. QED  BY <1>1, LedgerSound, PTL

(* A casino never loses more on a session than it was told to set aside.        *)
THEOREM ExposureIsBounded == Spec => []CasinoExposure
<1>1. LedgerInv => CasinoExposure  BY DEF LedgerInv, Proper, CasinoExposure
<1>. QED  BY <1>1, LedgerSound, PTL

-------------------------------------------------------------------------------
(* What a step may make of a session: no live session is exchanged for another, *)
(* an expired one is only closed, and the contract implements Escrow.           *)
(*                                                                              *)
(* All three compare a row with what replaces it.  An action that runs game     *)
(* code replaces it only when its transaction commits, after any number of      *)
(* calls; SessionInv ties the row the transaction works on, or the settlement   *)
(* it made, to the row that is still stored.                                    *)

SessionInv ==
    tx # NoTx =>
      LET row == sessions[tx.ses_id] IN
      /\ row # NoRow => ~Expired(row)
      /\ tx.row # NoRow =>
           /\ tx.receipt = NoReceipt
           /\ Escrow(tx.row) = Escrow(row)
           /\ row # NoRow => Kept(row, tx.row)
      /\ tx.row = NoRow =>
           /\ tx.receipt \in Receipt
           /\ tx.receipt.by = "finish"
           /\ Escrow(tx.receipt.row) = Escrow(row)

(* What a step of the contract can be in the eyes of Escrow, told from the row, *)
(* the row that replaces it and the settlement.                                 *)
Creates(row, new, rcpt) ==
    /\ row = NoRow /\ new \in Row /\ ~Started(new) /\ rcpt = NoReceipt
    /\ RealDeposit(new) \in Quantities
TopsUp(row, new, rcpt) ==
    /\ row \in Row /\ Started(row) /\ new \in Row /\ Started(new)
    /\ rcpt = NoReceipt /\ new.token = row.token
    /\ \E q \in Quantities : RealDeposit(new) = RealDeposit(row) + q
Starts(row, new, rcpt) ==
    /\ PhaseOf(row) \in {"none", "opened"} /\ PhaseOf(new) = "playing"
    /\ Escrow(new) = Escrow(row) /\ rcpt = NoReceipt
Settles(row, new, rcpt) ==
    /\ new = NoRow /\ rcpt \in Receipt /\ Proper(rcpt)
    /\ Escrow(rcpt.row) = Escrow(row)
Nothing(row, new, rcpt) ==
    PhaseOf(new) = PhaseOf(row) /\ Escrow(new) = Escrow(row) /\ rcpt = NoReceipt

Lawful(row, new, rcpt) ==
    /\ \/ Creates(row, new, rcpt) \/ TopsUp(row, new, rcpt) \/ Starts(row, new, rcpt)
       \/ Settles(row, new, rcpt) \/ Nothing(row, new, rcpt)
    /\ row # NoRow => /\ OnlyCloses(row, new, rcpt)
                      /\ new # NoRow => Kept(row, new)

(* What a step does to all sessions.                                            *)
Good ==
    /\ \A id \in SesIds : sessions[id] # NoRow
         => OnlyCloses(sessions[id], sessions'[id], receipt')
    /\ \A id \in SesIds : sessions[id] # NoRow /\ sessions'[id] # NoRow
         => Kept(sessions[id], sessions'[id])
    /\ [E!Next]_(E!vars)

-------------------------------------------------------------------------------
(* Rows.                                                                        *)

LEMMA KeptSame ==
    ASSUME NEW row \in Row, NEW new \in Row, new.player = row.player,
           new.token = row.token, new.ses_seq = row.ses_seq,
           RealDeposit(new) >= RealDeposit(row),
           new.bonus_deposit >= row.bonus_deposit,
           Started(row) => new.casino_id = row.casino_id /\ new.digest = row.digest
    PROVE  Kept(row, new)
<1>1. Len(row.digest.signs) \in Nat  BY DEF Row, Digest
<1>. QED  BY <1>1 DEF Kept

(* What is kept does not depend on the state, the age or the max win.           *)
LEMMA KeptOn ==
    ASSUME NEW row, NEW mid, NEW new, Kept(row, mid),
           new.player = mid.player, new.token = mid.token,
           new.ses_seq = mid.ses_seq, new.deposit = mid.deposit,
           new.bonus_deposit = mid.bonus_deposit,
           new.casino_id = mid.casino_id, new.digest = mid.digest
    PROVE  Kept(row, new)
BY DEF Kept, RealDeposit

LEMMA EscrowSame ==
    ASSUME NEW row \in Row, NEW new \in Row, new.token = row.token,
           RealDeposit(new) = RealDeposit(row)
    PROVE  Escrow(new) = Escrow(row)
BY NoRowIsNoRow DEF Escrow

(* A deposit on top, real or bonus.                                             *)
LEMMA ExtraRow ==
    ASSUME NEW row \in Row, NEW q \in Nat
    PROVE  LET extra == HandleExtraDeposit(row, q)
               bonus == [extra EXCEPT !.bonus_deposit = @ + q]
           IN /\ extra \in Row /\ bonus \in Row
              /\ bonus.deposit = row.deposit + q
              /\ bonus.bonus_deposit = row.bonus_deposit + q
<1>. DEFINE extra == HandleExtraDeposit(row, q)
<1>1. row.deposit + q \in Nat \ {0} /\ row.bonus_deposit + q \in Nat  BY DEF Row
<1>2. extra \in Row /\ extra.bonus_deposit = row.bonus_deposit
       /\ extra.deposit = row.deposit + q
  BY <1>1 DEF HandleExtraDeposit, Row
<1>. HIDE DEF extra
<1>3. [extra EXCEPT !.bonus_deposit = @ + q] \in Row  BY <1>1, <1>2 DEF Row
<1>4. /\ [extra EXCEPT !.bonus_deposit = @ + q].deposit = row.deposit + q
      /\ [extra EXCEPT !.bonus_deposit = @ + q].bonus_deposit = row.bonus_deposit + q
  BY <1>2 DEF Row
<1>. QED  BY <1>2, <1>3, <1>4 DEF extra

-------------------------------------------------------------------------------
(* Escrow's steps.                                                              *)

LEMMA EscrowState ==
    ASSUME LedgerInv
    PROVE  /\ Phases \in [SesIds -> {"none", "opened", "playing"}]
           /\ HeldNow \in [SesIds -> [Tokens -> Int]]
           /\ \A id \in SesIds : /\ Phases[id] = PhaseOf(sessions[id])
                                 /\ HeldNow[id] = Escrow(sessions[id])
BY DEF LedgerInv, TypeOK, Book, Phases, PhaseOf, HeldNow, Sound

(* A step that replaces one row changes Escrow's variables at that id.          *)
LEMMA EscrowChange ==
    ASSUME LedgerInv, LedgerInv', NEW id \in SesIds, NEW new,
           sessions' = [sessions EXCEPT ![id] = new]
    PROVE  /\ Phases' = [Phases EXCEPT ![id] = PhaseOf(new)]
           /\ HeldNow' = [HeldNow EXCEPT ![id] = Escrow(new)]
<1>1. /\ Phases' \in [SesIds -> {"none", "opened", "playing"}]
      /\ HeldNow' \in [SesIds -> [Tokens -> Int]]
      /\ \A i \in SesIds : /\ Phases'[i] = PhaseOf(sessions'[i])
                           /\ HeldNow'[i] = Escrow(sessions'[i])
  BY DEF LedgerInv, TypeOK, Book, Phases, PhaseOf, HeldNow, Sound, Escrow, Started
<1>2. sessions \in [SesIds -> Row \cup {NoRow}]  BY DEF LedgerInv, TypeOK
<1>3. \A i \in SesIds : sessions'[i] = IF i = id THEN new ELSE sessions[i]
  BY <1>2
<1>. QED  BY <1>1, <1>3, EscrowState

LEMMA LawfulImplements ==
    ASSUME LedgerInv, LedgerInv', NEW id \in SesIds, NEW new, NEW rcpt,
           sessions' = [sessions EXCEPT ![id] = new], receipt' = rcpt,
           Lawful(sessions[id], new, rcpt)
    PROVE  E!Next
<1>. DEFINE row == sessions[id]
<1>1. /\ Phases' = [Phases EXCEPT ![id] = PhaseOf(new)]
      /\ HeldNow' = [HeldNow EXCEPT ![id] = Escrow(new)]
      /\ Phases \in [SesIds -> {"none", "opened", "playing"}]
      /\ HeldNow \in [SesIds -> [Tokens -> Int]]
      /\ Phases[id] = PhaseOf(row) /\ HeldNow[id] = Escrow(row)
      /\ SplitOf(receipt)' = SplitOf(rcpt)
  BY EscrowState, EscrowChange DEF SplitOf
<1>2. SplitOf(NoReceipt) = [player |-> 0, casino |-> 0, divided |-> FALSE]
  BY DEF SplitOf
<1>. HIDE DEF row
<1>3. CASE Creates(row, new, rcpt)
  <2>. DEFINE t == new.token
              q == RealDeposit(new)
  <2>1. t \in Tokens /\ q \in Quantities /\ new # NoRow
    BY <1>3, NoRowIsNoRow DEF Creates, Row
  <2>2. PhaseOf(row) = "none" /\ PhaseOf(new) = "opened"
    BY <1>3, <2>1 DEF Creates, PhaseOf
  <2>3. Escrow(new) = [Escrow(row) EXCEPT ![t] = q]
    BY <1>3, <2>1 DEF Creates, Escrow
  <2>4. HeldNow' = [HeldNow EXCEPT ![id][t] = q]
    <3>. HIDE DEF t, q
    <3>. QED  BY <1>1, <2>3
  <2>. HIDE DEF t, q
  <2>5. E!Open(id, t, q)
    BY <1>1, <1>2, <1>3, <2>2, <2>4 DEF E!Open, E!Undivided, Creates
  <2>. QED  BY <2>1, <2>5 DEF E!Next
<1>4. CASE TopsUp(row, new, rcpt)
  <2>. DEFINE t == row.token
  <2>1. t \in Tokens /\ new # NoRow /\ row # NoRow /\ new.token = t
    BY <1>4, NoRowIsNoRow DEF TopsUp, Row
  <2>2. PICK q \in Quantities : RealDeposit(new) = RealDeposit(row) + q
    BY <1>4 DEF TopsUp
  <2>3. PhaseOf(row) = "playing" /\ PhaseOf(new) = "playing"
    BY <1>4, <2>1 DEF TopsUp, PhaseOf
  <2>4. /\ Escrow(row) = [u \in Tokens |-> IF u = t THEN RealDeposit(row) ELSE 0]
        /\ Escrow(new) = [u \in Tokens |-> IF u = t THEN RealDeposit(new) ELSE 0]
    BY <2>1 DEF Escrow
  <2>. HIDE DEF t
  <2>5. /\ Escrow(new) = [Escrow(row) EXCEPT ![t] = @ + q]
        /\ \A u \in Tokens \ {t} : Escrow(row)[u] = 0
    BY <2>1, <2>2, <2>4
  <2>6. HeldNow' = [HeldNow EXCEPT ![id][t] = @ + q]  BY <1>1, <2>5
  <2>7. Phases' = Phases  BY <1>1, <2>3
  <2>8. E!TopUp(id, t, q)
    BY <1>1, <1>2, <1>4, <2>3, <2>5, <2>6, <2>7 DEF E!TopUp, E!Undivided, TopsUp
  <2>. QED  BY <2>1, <2>2, <2>8 DEF E!Next
<1>5. CASE Starts(row, new, rcpt)
  <2>1. HeldNow' = HeldNow  BY <1>1, <1>5 DEF Starts
  <2>2. E!Begin(id)
    BY <1>1, <1>2, <1>5, <2>1 DEF E!Begin, E!Undivided, Starts
  <2>. QED  BY <2>2 DEF E!Next
<1>6. CASE Settles(row, new, rcpt)
  <2>. DEFINE t == rcpt.row.token
              o == rcpt.outcome
  <2>1. /\ rcpt.row \in Row /\ rcpt.row # NoRow /\ t \in Tokens /\ o \in Outcome
        /\ rcpt # NoReceipt /\ PaysAll(o, rcpt.row)
    BY <1>6, NoRowIsNoRow, NoReceiptIsNoReceipt DEF Settles, Receipt, Row, Proper
  <2>2. /\ o.transfer \in Int /\ o.casino_win \in Int /\ o.transfer >= 0
        /\ o.casino_win >= 0 /\ o.transfer + o.casino_win = RealDeposit(rcpt.row)
    BY <2>1 DEF PaysAll, Outcome
  <2>3. HeldNow[id] = [u \in Tokens |-> IF u = t THEN RealDeposit(rcpt.row) ELSE 0]
    BY <1>1, <1>6, <2>1 DEF Settles, Escrow
  <2>4. Escrow(NoRow) = [u \in Tokens |-> 0] /\ PhaseOf(NoRow) = "none"
    BY DEF Escrow, PhaseOf
  <2>5. SplitOf(rcpt) = [player |-> o.transfer, casino |-> o.casino_win,
                         divided |-> TRUE]
    BY <2>1 DEF SplitOf
  <2>. HIDE DEF t, o
  <2>6. /\ HeldNow[id][t] = o.transfer + o.casino_win
        /\ \A u \in Tokens \ {t} : HeldNow[id][u] = 0
    BY <2>1, <2>2, <2>3
  <2>7. /\ o.transfer \in 0..HeldNow[id][t]
        /\ o.casino_win = HeldNow[id][t] - o.transfer
    BY <2>2, <2>6
  <2>8. new = NoRow  BY <1>6 DEF Settles
  <2>9. E!Settle(id)
    <3>1. \E p \in 0..HeldNow[id][t] :
            /\ \A u \in Tokens \ {t} : HeldNow[id][u] = 0
            /\ SplitOf(receipt)' = [player |-> p, casino |-> HeldNow[id][t] - p,
                                    divided |-> TRUE]
      BY <1>1, <2>5, <2>6, <2>7
    <3>2. Phases' = [Phases EXCEPT ![id] = "none"]  BY <1>1, <2>4, <2>8
    <3>3. HeldNow' = [HeldNow EXCEPT ![id] = E!Nothing]
      BY <1>1, <2>4, <2>8 DEF E!Nothing
    <3>. QED  BY <2>1, <3>1, <3>2, <3>3 DEF E!Settle
  <2>. QED  BY <2>9 DEF E!Next
<1>7. CASE Nothing(row, new, rcpt)
  <2>1. Phases' = Phases /\ HeldNow' = HeldNow  BY <1>1, <1>7 DEF Nothing
  <2>2. E!Else  BY <1>1, <1>2, <1>7, <2>1 DEF E!Else, E!Undivided, Nothing
  <2>. QED  BY <2>2 DEF E!Next
<1>. QED  BY <1>3, <1>4, <1>5, <1>6, <1>7 DEF Lawful, row

-------------------------------------------------------------------------------
(* The three kinds of step.                                                     *)

LEMMA SelfSame ==
    ASSUME NEW row \in Row, NEW rcpt
    PROVE  OnlyCloses(row, row, rcpt) /\ Kept(row, row)
<1>1. row # NoRow /\ [row EXCEPT !.idle = row.idle] = row
  BY NoRowIsNoRow DEF Row
<1>2. RealDeposit(row) \in Int /\ row.bonus_deposit \in Int
  BY DEF Row, RealDeposit
<1>. QED  BY <1>1, <1>2, KeptSame DEF OnlyCloses

(* One that replaces a row.                                                     *)
LEMMA LawfulGood ==
    ASSUME LedgerInv, LedgerInv', NEW id \in SesIds, NEW new, NEW rcpt,
           sessions' = [sessions EXCEPT ![id] = new], receipt' = rcpt,
           Lawful(sessions[id], new, rcpt)
    PROVE  Good
<1>1. E!Next  BY LawfulImplements
<1>2. sessions \in [SesIds -> Row \cup {NoRow}]  BY DEF LedgerInv, TypeOK
<1>3. ASSUME NEW i \in SesIds, sessions[i] # NoRow
      PROVE  /\ OnlyCloses(sessions[i], sessions'[i], receipt')
             /\ sessions'[i] # NoRow => Kept(sessions[i], sessions'[i])
  <2>1. CASE i = id  BY <1>2, <1>3, <2>1 DEF Lawful
  <2>2. CASE i # id
    <3>1. sessions'[i] = sessions[i] /\ sessions[i] \in Row  BY <1>2, <1>3, <2>2
    <3>. QED  BY <3>1, SelfSame
  <2>. QED  BY <2>1, <2>2
<1>. QED  BY <1>1, <1>3 DEF Good

(* One that leaves the table and makes no settlement.                           *)
LEMMA QuietGood ==
    ASSUME LedgerInv, LedgerInv', UNCHANGED sessions,
           receipt' = NoReceipt \/ receipt' = receipt
    PROVE  Good
<1>1. sessions \in [SesIds -> Row \cup {NoRow}]  BY DEF LedgerInv, TypeOK
<1>2. ASSUME NEW i \in SesIds, sessions[i] # NoRow
      PROVE  OnlyCloses(sessions[i], sessions'[i], receipt')
             /\ Kept(sessions[i], sessions'[i])
  <2>1. sessions'[i] = sessions[i] /\ sessions[i] \in Row  BY <1>1, <1>2
  <2>. QED  BY <2>1, SelfSame
<1>3. Phases' = Phases /\ HeldNow' = HeldNow
  <2>1. /\ Phases' \in [SesIds -> {"none", "opened", "playing"}]
        /\ HeldNow' \in [SesIds -> [Tokens -> Int]]
        /\ \A i \in SesIds : /\ Phases'[i] = PhaseOf(sessions'[i])
                             /\ HeldNow'[i] = Escrow(sessions'[i])
    BY DEF LedgerInv, TypeOK, Book, Phases, PhaseOf, HeldNow, Sound, Escrow, Started
  <2>. QED  BY <2>1, EscrowState
<1>4. [E!Next]_(E!vars)
  <2>1. CASE receipt' = NoReceipt
    <3>1. E!Else  BY <1>3, <2>1 DEF E!Else, E!Undivided, SplitOf
    <3>. QED  BY <3>1 DEF E!Next
  <2>2. CASE receipt' = receipt  BY <1>3, <2>2 DEF E!vars, SplitOf
  <2>. QED  BY <2>1, <2>2
<1>. QED  BY <1>2, <1>4 DEF Good

(* One that begins a transaction, on the stored row or a new one.               *)
LEMMA BeginGood ==
    ASSUME LedgerInv, LedgerInv', NEW id \in SesIds, NEW row \in Row, NEW book,
           NEW seq, NEW callback, NEW random,
           Begin(callback, id, row, book, seq, random),
           Escrow(row) = Escrow(sessions[id]),
           sessions[id] # NoRow => ~Expired(sessions[id]) /\ Kept(sessions[id], row)
    PROVE  SessionInv' /\ Good
<1>1. /\ tx'.ses_id = id /\ tx'.row = row /\ tx'.receipt = NoReceipt
      /\ receipt' = NoReceipt /\ UNCHANGED <<sessions, session_ttl>>
  BY DEF Begin
<1>2. row # NoRow  BY NoRowIsNoRow
<1>3. SessionInv'  BY <1>1, <1>2 DEF SessionInv, Expired
<1>. QED  BY <1>1, <1>3, QuietGood

(* A call that keeps the transaction's row.                                     *)
LEMMA CallGood ==
    ASSUME LedgerInv, LedgerInv', SessionInv, InCallback,
           UNCHANGED <<sessions, session_ttl, receipt>>,
           tx'.ses_id = tx.ses_id, tx'.receipt = tx.receipt,
           tx'.row \in Row, tx'.row.player = tx.row.player,
           tx'.row.token = tx.row.token, tx'.row.ses_seq = tx.row.ses_seq,
           tx'.row.deposit = tx.row.deposit,
           tx'.row.bonus_deposit = tx.row.bonus_deposit,
           tx'.row.casino_id = tx.row.casino_id, tx'.row.digest = tx.row.digest
    PROVE  SessionInv' /\ Good
<1>. DEFINE row == sessions[tx.ses_id]
<1>1. tx.row \in Row /\ tx.row # NoRow /\ tx # NoTx /\ tx'.row # NoRow
  BY InCallbackType, NoRowIsNoRow DEF LedgerInv, InCallback
<1>2. /\ row # NoRow => ~Expired(row) /\ Kept(row, tx.row)
      /\ tx.receipt = NoReceipt /\ Escrow(tx.row) = Escrow(row)
  BY <1>1 DEF SessionInv
<1>3. Escrow(tx'.row) = Escrow(tx.row)
  BY <1>1, EscrowSame DEF RealDeposit
<1>4. row # NoRow => Kept(row, tx'.row)  BY <1>2, KeptOn
<1>5. SessionInv'  BY <1>1, <1>2, <1>3, <1>4 DEF SessionInv, Expired
<1>. QED  BY <1>5, QuietGood

-------------------------------------------------------------------------------
(* The actions.                                                                 *)

LEMMA OnTransferGood ==
    ASSUME LedgerInv, LedgerInv', NEW id \in SesIds, NEW from \in Players,
           NEW quantity \in Quantities, NEW token \in Tokens,
           OnTransfer(id, from, quantity, token)
    PROVE  Good
<1>. DEFINE row == sessions[id]
<1>1. /\ row \in Row \cup {NoRow} /\ session_seq \in Nat
      /\ quantity \in Nat /\ quantity # 0
      /\ row # NoRow => Sound(row, books[id])
  BY SetsAssumption DEF LedgerInv, TypeOK
<1>2. CASE OnTransferNew(id, from, quantity, token)
  <2>1. PICK new \in CreateSession(session_seq, from, token, quantity) :
          Store(id, new, NotifyNewRealDeposit(Received(books[id], token, quantity),
                                              new.casino_id, quantity), NoReceipt)
    BY <1>2 DEF OnTransferNew
  <2>2. /\ new \in Row /\ new.deposit = quantity /\ new.bonus_deposit = 0
        /\ new.digest = NoDigest
    BY <1>1, CreateType
  <2>3. RealDeposit(new) = quantity  BY <1>1, <2>2 DEF RealDeposit
  <2>4. row = NoRow  BY <1>2 DEF OnTransferNew
  <2>5. Creates(row, new, NoReceipt)  BY <2>2, <2>3, <2>4 DEF Creates, Started
  <2>6. Lawful(row, new, NoReceipt)  BY <2>4, <2>5 DEF Lawful
  <2>7. sessions' = [sessions EXCEPT ![id] = new] /\ receipt' = NoReceipt
    BY <2>1 DEF Store
  <2>. QED  BY <2>6, <2>7, LawfulGood
<1>3. CASE OnTransferExtra(id, from, quantity, token)
  <2>. DEFINE new == HandleExtraDeposit(row, quantity)
  <2>1. /\ row # NoRow /\ row.state = "req_allow_deposit" /\ ~Expired(row)
        /\ sessions' = [sessions EXCEPT ![id] = new] /\ receipt' = NoReceipt
    BY <1>3 DEF OnTransferExtra, ExtraDepositAllowed, Store
  <2>2. /\ new.deposit = row.deposit + quantity
        /\ new.bonus_deposit = row.bonus_deposit /\ new.token = row.token
        /\ new.player = row.player /\ new.ses_seq = row.ses_seq
        /\ new.casino_id = row.casino_id /\ new.digest = row.digest
        /\ row.deposit \in Nat /\ row.bonus_deposit \in Nat
    BY <1>1, <2>1 DEF HandleExtraDeposit, Row
  <2>8. new \in Row  BY <1>1, <2>1, ExtraRow
  <2>. HIDE DEF new
  <2>3. RealDeposit(new) = RealDeposit(row) + quantity /\ RealDeposit(row) \in Int
    BY <1>1, <2>2 DEF RealDeposit
  <2>4. Started(row) /\ Started(new)  BY <1>1, <2>1, <2>2 DEF Sound, Started
  <2>5. TopsUp(row, new, NoReceipt)
    BY <1>1, <2>1, <2>2, <2>3, <2>4, <2>8 DEF TopsUp
  <2>6. Kept(row, new) /\ new # NoRow
    <3>1. RealDeposit(new) >= RealDeposit(row)  BY <1>1, <2>3
    <3>2. new.bonus_deposit >= row.bonus_deposit  BY <2>2
    <3>. QED  BY <1>1, <2>1, <2>2, <2>8, <3>1, <3>2, KeptSame, NoRowIsNoRow
  <2>7. Lawful(row, new, NoReceipt)  BY <2>1, <2>5, <2>6 DEF Lawful, OnlyCloses
  <2>. QED  BY <2>1, <2>7, LawfulGood
<1>. QED  BY <1>2, <1>3 DEF OnTransfer

LEMMA DepositBonusGood ==
    ASSUME LedgerInv, LedgerInv', NEW id \in SesIds, NEW from \in Players,
           NEW quantity \in Quantities, DepositBonus(id, from, quantity)
    PROVE  Good
<1>. DEFINE row == sessions[id]
            new == [HandleExtraDeposit(row, quantity) EXCEPT !.bonus_deposit = @ + quantity]
<1>1. /\ row \in Row /\ row # NoRow /\ quantity \in Nat
      /\ row.state = "req_allow_deposit" /\ ~Expired(row)
      /\ Sound(row, books[id])
      /\ sessions' = [sessions EXCEPT ![id] = new] /\ receipt' = NoReceipt
  BY SetsAssumption DEF LedgerInv, TypeOK, DepositBonus, ExtraDepositAllowed, Store
<1>2. /\ new.deposit = row.deposit + quantity /\ new.ses_seq = row.ses_seq
      /\ new.bonus_deposit = row.bonus_deposit + quantity /\ new.token = row.token
      /\ new.player = row.player /\ new.casino_id = row.casino_id
      /\ new.digest = row.digest
      /\ row.deposit \in Nat /\ row.bonus_deposit \in Nat
  BY <1>1 DEF HandleExtraDeposit, Row
<1>3. new \in Row  BY <1>1, ExtraRow
<1>. HIDE DEF new
<1>4. RealDeposit(new) = RealDeposit(row) /\ RealDeposit(row) \in Int
  BY <1>1, <1>2 DEF RealDeposit
<1>5. Started(row) /\ Started(new)  BY <1>1, <1>2 DEF Sound, Started
<1>6. Kept(row, new) /\ new # NoRow
  <2>1. /\ RealDeposit(new) >= RealDeposit(row)
        /\ new.bonus_deposit >= row.bonus_deposit
    BY <1>1, <1>2, <1>4
  <2>. QED  BY <1>1, <1>2, <1>3, <2>1, KeptSame, NoRowIsNoRow
<1>7. Nothing(row, new, NoReceipt)
  BY <1>1, <1>2, <1>3, <1>4, <1>5, <1>6, EscrowSame DEF Nothing, PhaseOf
<1>8. Lawful(row, new, NoReceipt)  BY <1>1, <1>6, <1>7 DEF Lawful, OnlyCloses
<1>. QED  BY <1>1, <1>8, LawfulGood

LEMMA NewGameInternalGood ==
    ASSUME LedgerInv, LedgerInv', NEW id \in SesIds, NEW casino_id \in Casinos,
           NEW row \in Row, NEW book, NEW seq,
           NewGameInternal(id, casino_id, row, book, seq),
           Escrow(row) = Escrow(sessions[id]), ~Started(row),
           sessions[id] # NoRow => ~Expired(sessions[id]) /\ ~Started(sessions[id])
                                   /\ Kept(sessions[id], row)
    PROVE  SessionInv' /\ Good
<1>. DEFINE d == calc_seed(casino_id, row.ses_seq, row.player)
            new == [row EXCEPT !.idle = 0, !.casino_id = casino_id, !.digest = d]
<1>1. d \in Digest
  <2>1. row.ses_seq \in Nat /\ row.player \in Players  BY DEF Row
  <2>. QED  BY <2>1, SeedType
<1>2. /\ new \in Row /\ new.token = row.token /\ new.deposit = row.deposit
      /\ new.bonus_deposit = row.bonus_deposit /\ new.ses_seq = row.ses_seq
      /\ new.player = row.player
  BY <1>1 DEF Row
<1>3. Begin("on_new_game", id, new, NotifyNewSession(book, casino_id), seq, NoDigest)
  BY DEF NewGameInternal
<1>. HIDE DEF new
<1>4. Escrow(new) = Escrow(row)  BY <1>2, EscrowSame DEF RealDeposit
<1>5. sessions[id] # NoRow => Kept(sessions[id], new)
  BY <1>2 DEF Kept, RealDeposit
<1>. QED  BY <1>2, <1>3, <1>4, <1>5, BeginGood

LEMMA NewGameGood ==
    ASSUME LedgerInv, LedgerInv', NEW id \in SesIds, NEW casino_id \in Casinos,
           NewGame(id, casino_id)
    PROVE  SessionInv' /\ Good
<1>. DEFINE row == sessions[id]
<1>1. /\ row \in Row /\ row # NoRow
      /\ NewGameInternal(id, casino_id, row, books[id], session_seq)
  BY DEF LedgerInv, TypeOK, NewGame
<1>2. ~Expired(row) /\ row.state = "req_start"  BY <1>1 DEF NewGameInternal
<1>3. ~Started(row)  BY <1>1, <1>2 DEF LedgerInv
<1>4. Kept(row, row)  BY <1>1, SelfSame
<1>. QED  BY <1>1, <1>2, <1>3, <1>4, NewGameInternalGood

LEMMA NewGameBonusGood ==
    ASSUME LedgerInv, LedgerInv', NEW id \in SesIds, NEW casino_id \in Casinos,
           NEW from \in Players, NEW quantity \in Quantities,
           NewGameBonus(id, casino_id, from, quantity)
    PROVE  SessionInv' /\ Good
<1>1. /\ quantity \in Nat \ {0} /\ CoreToken \in Tokens /\ session_seq \in Nat
      /\ sessions[id] \in Row \cup {NoRow} /\ quantity \in Nat
  BY SetsAssumption DEF LedgerInv, TypeOK
<1>2. CASE sessions[id] # NoRow
  <2>. DEFINE row == sessions[id]
              new == AddBonus(row, quantity)
  <2>1. row \in Row /\ new \in Row /\ row # NoRow  BY <1>1, <1>2, AddBonusType
  <2>2. NewGameInternal(id, casino_id, new,
          NotifyNewBonusDeposit(books[id], row.casino_id, quantity), session_seq)
    BY <1>2 DEF NewGameBonus
  <2>3. /\ new.deposit = row.deposit + quantity /\ new.bonus_deposit = quantity
        /\ new.token = row.token /\ new.player = row.player
        /\ new.ses_seq = row.ses_seq /\ new.digest = row.digest
        /\ new.casino_id = row.casino_id /\ new.state = row.state
        /\ new.idle = row.idle /\ row.deposit \in Nat
    BY <2>1 DEF AddBonus, Row
  <2>. HIDE DEF row, new
  <2>4. row.state = "req_start" /\ ~Expired(row)
    BY <2>2, <2>3 DEF NewGameInternal, Expired
  <2>5. ~Started(row) /\ Sound(row, books[id])  BY <2>1, <2>4 DEF LedgerInv, row
  <2>6. row.bonus_deposit = 0  BY <2>1, <2>5 DEF Sound
  <2>7. RealDeposit(new) = RealDeposit(row) /\ RealDeposit(row) \in Int
    BY <1>1, <2>3, <2>6 DEF RealDeposit
  <2>8. Escrow(new) = Escrow(row)  BY <2>1, <2>3, <2>7, EscrowSame
  <2>9. Kept(row, new)
    <3>1. /\ RealDeposit(new) >= RealDeposit(row)
          /\ new.bonus_deposit >= row.bonus_deposit
      BY <1>1, <2>3, <2>6, <2>7
    <3>. QED  BY <2>1, <2>3, <3>1, KeptSame
  <2>10. ~Started(new)  BY <2>3, <2>5 DEF Started
  <2>. QED  BY <2>1, <2>2, <2>4, <2>5, <2>8, <2>9, <2>10, NewGameInternalGood DEF row
<1>3. CASE sessions[id] = NoRow
  <2>1. PICK row \in CreateSession(session_seq, from, CoreToken, 0) :
          NewGameInternal(id, casino_id, AddBonus(row, quantity),
            NotifyNewBonusDeposit(books[id], row.casino_id, quantity),
            session_seq + 1)
    BY <1>3 DEF NewGameBonus
  <2>. DEFINE new == AddBonus(row, quantity)
  <2>2. new \in Row  BY <1>1, CreateType
  <2>3. new.deposit = quantity /\ new.bonus_deposit = quantity /\ ~Started(new)
    BY <1>1 DEF CreateSession, AddBonus, Started
  <2>. HIDE DEF new
  <2>4. RealDeposit(new) = 0  BY <1>1, <2>3 DEF RealDeposit
  <2>5. Escrow(new) = Escrow(NoRow)  BY <2>4 DEF Escrow
  <2>. QED  BY <1>3, <2>1, <2>2, <2>3, <2>5, NewGameInternalGood DEF new
<1>. QED  BY <1>2, <1>3

LEMMA GameActionGood ==
    ASSUME LedgerInv, LedgerInv', NEW id \in SesIds, GameAction(id)
    PROVE  SessionInv' /\ Good
<1>. DEFINE row == sessions[id]
            new == [row EXCEPT !.idle = 0, !.state = "req_action", !.acted = TRUE]
            book == [books[id] EXCEPT !.moved = TRUE]
<1>1. row \in Row /\ row # NoRow /\ ~Expired(row)
  BY DEF LedgerInv, TypeOK, GameAction
<1>2. /\ new \in Row /\ new.token = row.token /\ new.deposit = row.deposit
      /\ new.bonus_deposit = row.bonus_deposit /\ new.ses_seq = row.ses_seq
      /\ new.player = row.player /\ new.casino_id = row.casino_id
      /\ new.digest = row.digest
  BY <1>1 DEF Row, States
<1>3. Begin("on_action", id, new, book, session_seq, NoDigest)  BY DEF GameAction
<1>. HIDE DEF new, book
<1>4. Kept(row, row)  BY <1>1, SelfSame
<1>5. Kept(row, new)  BY <1>2, <1>4, KeptOn
<1>6. Escrow(new) = Escrow(row)  BY <1>1, <1>2, EscrowSame DEF RealDeposit
<1>. QED  BY <1>1, <1>2, <1>3, <1>5, <1>6, BeginGood

(* A row whose digest a signature has made longer.                              *)
LEMMA SignedKept ==
    ASSUME NEW row \in Row, NEW sign \in Signatures, NEW key,
           RsaVerify(row.digest, sign, key), NEW new \in Row,
           new.token = row.token, new.deposit = row.deposit,
           new.bonus_deposit = row.bonus_deposit, new.ses_seq = row.ses_seq,
           new.player = row.player, new.casino_id = row.casino_id,
           new.digest = Sha256(sign)
    PROVE  Kept(row, new)
<1>1. sign.digest = row.digest /\ row.digest \in Digest  BY DEF RsaVerify, Row
<1>2. /\ Sha256(sign).seed = row.digest.seed
      /\ Sha256(sign).signs = Append(row.digest.signs, sign.key)
  BY <1>1 DEF Sha256, Digest
<1>3. row.digest.signs \in Seq(Keys)  BY <1>1 DEF Digest
<1>4. Len(Sha256(sign).signs) >= Len(row.digest.signs)  BY <1>2, <1>3
<1>5. /\ RealDeposit(new) >= RealDeposit(row)
      /\ new.bonus_deposit >= row.bonus_deposit
  BY DEF RealDeposit, Row
<1>. QED  BY <1>2, <1>4, <1>5 DEF Kept

LEMMA SignidicePart1Good ==
    ASSUME LedgerInv, LedgerInv', NEW id \in SesIds, NEW sign \in Signatures,
           SignidicePart1(id, sign)
    PROVE  Good
<1>. DEFINE row == sessions[id]
            new == [row EXCEPT !.digest = Sha256(sign), !.idle = 0,
                               !.state = "req_signidice_part_2"]
<1>1. /\ row \in Row /\ row # NoRow /\ ~Expired(row)
      /\ row.state = "req_signidice_part_1" /\ Sound(row, books[id])
      /\ RsaVerify(row.digest, sign, PlatformKey)
  BY DEF LedgerInv, TypeOK, SignidicePart1
<1>2. Sha256(sign) \in Digest /\ Sha256(sign) # NoDigest
  BY <1>1, SignedType, SignedStarted
<1>3. /\ new \in Row /\ new.token = row.token /\ new.deposit = row.deposit
      /\ new.bonus_deposit = row.bonus_deposit /\ new.ses_seq = row.ses_seq
      /\ new.player = row.player /\ new.casino_id = row.casino_id
      /\ new.digest = Sha256(sign)
  BY <1>1, <1>2 DEF Row, States
<1>4. sessions' = [sessions EXCEPT ![id] = new] /\ receipt' = NoReceipt
  BY DEF SignidicePart1, Store
<1>. HIDE DEF new
<1>5. Kept(row, new) /\ new # NoRow  BY <1>1, <1>3, SignedKept, NoRowIsNoRow
<1>6. Started(row) /\ Started(new)  BY <1>1, <1>2, <1>3 DEF Sound, Started
<1>7. Escrow(new) = Escrow(row)  BY <1>1, <1>3, EscrowSame DEF RealDeposit
<1>8. Nothing(row, new, NoReceipt)
  BY <1>1, <1>5, <1>6, <1>7 DEF Nothing, PhaseOf
<1>9. Lawful(row, new, NoReceipt)  BY <1>1, <1>5, <1>8 DEF Lawful, OnlyCloses
<1>. QED  BY <1>4, <1>9, LawfulGood

LEMMA SignidicePart2Good ==
    ASSUME LedgerInv, LedgerInv', NEW id \in SesIds, NEW sign \in Signatures,
           SignidicePart2(id, sign)
    PROVE  SessionInv' /\ Good
<1>. DEFINE row == sessions[id]
            new == [row EXCEPT !.digest = Sha256(sign), !.idle = 0]
<1>1. /\ row \in Row /\ row # NoRow /\ ~Expired(row)
      /\ RsaVerify(row.digest, sign, row.casino_id)
  BY DEF LedgerInv, TypeOK, SignidicePart2
<1>2. Sha256(sign) \in Digest  BY <1>1, SignedType
<1>3. /\ new \in Row /\ new.token = row.token /\ new.deposit = row.deposit
      /\ new.bonus_deposit = row.bonus_deposit /\ new.ses_seq = row.ses_seq
      /\ new.player = row.player /\ new.casino_id = row.casino_id
      /\ new.digest = Sha256(sign)
  BY <1>1, <1>2 DEF Row
<1>4. Begin("on_random", id, new, books[id], session_seq, Sha256(sign))
  BY DEF SignidicePart2
<1>. HIDE DEF new
<1>5. Kept(row, new)  BY <1>1, <1>3, SignedKept
<1>6. Escrow(new) = Escrow(row)  BY <1>1, <1>3, EscrowSame DEF RealDeposit
<1>. QED  BY <1>1, <1>3, <1>4, <1>5, <1>6, BeginGood

LEMMA RequireGood ==
    ASSUME LedgerInv, LedgerInv', SessionInv, InCallback, NEW st \in States,
           tx' = [tx EXCEPT !.row.state = st],
           UNCHANGED <<sessions, session_ttl, receipt>>
    PROVE  SessionInv' /\ Good
<1>1. tx \in Tx /\ tx.row \in Row  BY InCallbackType DEF LedgerInv
<1>2. /\ tx'.ses_id = tx.ses_id /\ tx'.receipt = tx.receipt
      /\ tx'.row = [tx.row EXCEPT !.state = st]
  BY <1>1 DEF Tx
<1>3. /\ tx'.row \in Row /\ tx'.row.player = tx.row.player
      /\ tx'.row.token = tx.row.token /\ tx'.row.ses_seq = tx.row.ses_seq
      /\ tx'.row.deposit = tx.row.deposit
      /\ tx'.row.bonus_deposit = tx.row.bonus_deposit
      /\ tx'.row.casino_id = tx.row.casino_id /\ tx'.row.digest = tx.row.digest
  BY <1>1, <1>2 DEF Row
<1>. QED  BY <1>2, <1>3, CallGood

LEMMA UpdateMaxWinGood ==
    ASSUME LedgerInv, LedgerInv', SessionInv, NEW new_max_win \in MaxWins,
           UpdateMaxWin(new_max_win)
    PROVE  SessionInv' /\ Good
<1>1. /\ InCallback /\ UNCHANGED <<sessions, session_ttl, receipt>>
  BY DEF UpdateMaxWin
<1>2. TypeOK /\ tx \in Tx /\ tx.row \in Row
  BY <1>1, InCallbackType DEF LedgerInv
<1>3. PICK lost \in Int, book \in Book :
        /\ [tx.row EXCEPT !.last_max_win = lost] \in Row
        /\ tx' = [tx EXCEPT !.row = [tx.row EXCEPT !.last_max_win = lost],
                            !.book = book]
  BY <1>2, UpdateMaxWinStep
<1>4. /\ tx'.ses_id = tx.ses_id /\ tx'.receipt = tx.receipt
      /\ tx'.row = [tx.row EXCEPT !.last_max_win = lost]
  BY <1>2, <1>3 DEF Tx
<1>5. /\ tx'.row \in Row /\ tx'.row.player = tx.row.player
      /\ tx'.row.token = tx.row.token /\ tx'.row.ses_seq = tx.row.ses_seq
      /\ tx'.row.deposit = tx.row.deposit
      /\ tx'.row.bonus_deposit = tx.row.bonus_deposit
      /\ tx'.row.casino_id = tx.row.casino_id /\ tx'.row.digest = tx.row.digest
  BY <1>2, <1>3, <1>4 DEF Row
<1>. QED  BY <1>1, <1>4, <1>5, CallGood

LEMMA FinishGameGood ==
    ASSUME LedgerInv, LedgerInv', SessionInv, NEW player_payout \in Payouts,
           FinishGame(player_payout)
    PROVE  SessionInv' /\ Good
<1>1. /\ InCallback /\ UNCHANGED <<sessions, session_ttl, receipt>>
  BY DEF FinishGame
<1>2. /\ TypeOK /\ tx \in Tx /\ tx.row \in Row /\ tx.book \in Book
      /\ tx.row # NoRow /\ tx # NoTx
  BY <1>1, InCallbackType DEF LedgerInv, InCallback
<1>3. PICK o \in Outcome :
        tx' = [tx EXCEPT !.row = NoRow,
                         !.book = Forgotten(NotifyCloseSession(
                                    PaidOut(tx.book, tx.row, o), tx.row)),
                         !.receipt = ReceiptOf("finish", tx.row, tx.book, o)]
  BY <1>2, FinishGameStep
<1>4. /\ tx'.row = NoRow /\ tx'.ses_id = tx.ses_id
      /\ tx'.receipt = ReceiptOf("finish", tx.row, tx.book, o)
  BY <1>2, <1>3 DEF Tx
<1>5. /\ tx'.receipt \in Receipt /\ tx'.receipt.by = "finish"
      /\ tx'.receipt.row = tx.row
  <2>1. ReceiptOf("finish", tx.row, tx.book, o) \in Receipt  BY <1>2, ReceiptType
  <2>2. /\ ReceiptOf("finish", tx.row, tx.book, o).by = "finish"
        /\ ReceiptOf("finish", tx.row, tx.book, o).row = tx.row
    BY DEF ReceiptOf
  <2>. QED  BY <1>4, <2>1, <2>2
<1>6. SessionInv'
  <2>1. /\ sessions[tx.ses_id] # NoRow => ~Expired(sessions[tx.ses_id])
        /\ Escrow(tx.row) = Escrow(sessions[tx.ses_id])
    BY <1>2 DEF SessionInv
  <2>. QED  BY <1>1, <1>4, <1>5, <2>1 DEF SessionInv, Expired
<1>. QED  BY <1>1, <1>6, QuietGood

LEMMA ReturnGood ==
    ASSUME LedgerInv, LedgerInv', SessionInv, Return
    PROVE  Good
<1>. DEFINE id == tx.ses_id
            row == sessions[id]
<1>1. /\ tx # NoTx /\ tx \in Tx /\ id \in SesIds /\ row \in Row \cup {NoRow}
      /\ tx.row \in Row \cup {NoRow} /\ Proper(tx.receipt)
      /\ tx.row # NoRow => Started(tx.row)
      /\ sessions' = [sessions EXCEPT ![id] = tx.row] /\ receipt' = tx.receipt
  BY DEF LedgerInv, TypeOK, Tx, Return, Commit
<1>2. row # NoRow => ~Expired(row)  BY <1>1 DEF SessionInv
<1>3. CASE tx.row # NoRow
  <2>1. /\ tx.receipt = NoReceipt /\ Escrow(tx.row) = Escrow(row)
        /\ row # NoRow => Kept(row, tx.row)
    BY <1>1, <1>3 DEF SessionInv
  <2>2. PhaseOf(tx.row) = "playing"  BY <1>1, <1>3 DEF PhaseOf
  <2>3. Starts(row, tx.row, tx.receipt) \/ Nothing(row, tx.row, tx.receipt)
    BY <2>1, <2>2 DEF Starts, Nothing, PhaseOf
  <2>4. Lawful(row, tx.row, tx.receipt)
    BY <1>2, <1>3, <2>1, <2>3 DEF Lawful, OnlyCloses
  <2>. QED  BY <1>1, <2>4, LawfulGood
<1>4. CASE tx.row = NoRow
  <2>1. /\ tx.receipt \in Receipt /\ tx.receipt.by = "finish"
        /\ Escrow(tx.receipt.row) = Escrow(row)
    BY <1>1, <1>4 DEF SessionInv
  <2>2. Settles(row, tx.row, tx.receipt)  BY <1>1, <1>4, <2>1 DEF Settles
  <2>3. Lawful(row, tx.row, tx.receipt)
    BY <1>2, <1>4, <2>1, <2>2 DEF Lawful, OnlyCloses
  <2>. QED  BY <1>1, <2>3, LawfulGood
<1>. QED  BY <1>3, <1>4

LEMMA CloseGood ==
    ASSUME LedgerInv, LedgerInv', NEW id \in SesIds, Close(id)
    PROVE  Good
<1>. DEFINE row == sessions[id]
            rcpt == ReceiptOf("close", row, books[id], CloseOutcome(row))
<1>1. /\ row \in Row /\ row # NoRow /\ Expired(row) /\ books[id] \in Book
      /\ sessions' = [sessions EXCEPT ![id] = NoRow] /\ receipt' = rcpt
  BY DEF LedgerInv, TypeOK, Close, ClosingTime, Store
<1>2. CloseOutcome(row) \in Outcome  BY <1>1, CloseStep
<1>3. rcpt \in Receipt  BY <1>1, <1>2, ReceiptType
<1>4. rcpt.by = "close" /\ rcpt.row = row  BY DEF ReceiptOf
<1>. HIDE DEF rcpt
<1>5. Proper(rcpt)  BY <1>1 DEF LedgerInv, Proper, Covered, PaysAll, RoundsUp
<1>6. Settles(row, NoRow, rcpt)  BY <1>3, <1>4, <1>5 DEF Settles
<1>7. Lawful(row, NoRow, rcpt)  BY <1>1, <1>4, <1>6 DEF Lawful, OnlyCloses
<1>. QED  BY <1>1, <1>7, LawfulGood

LEMMA TickGood ==
    ASSUME LedgerInv, LedgerInv', Tick
    PROVE  Good
<1>1. /\ sessions \in [SesIds -> Row \cup {NoRow}]
      /\ sessions' = [id \in SesIds |-> Older(sessions[id])]
      /\ sessions' \in [SesIds -> Row \cup {NoRow}]
      /\ receipt' = NoReceipt /\ books' = books
  BY DEF LedgerInv, TypeOK, Tick
<1>2. ASSUME NEW i \in SesIds, sessions[i] # NoRow
      PROVE  /\ OnlyCloses(sessions[i], sessions'[i], receipt')
             /\ Kept(sessions[i], sessions'[i])
             /\ PhaseOf(sessions'[i]) = PhaseOf(sessions[i])
  <2>. DEFINE row == sessions[i]
              new == Older(row)
  <2>1. row \in Row /\ sessions'[i] = new  BY <1>1, <1>2
  <2>2. PICK n : new = [row EXCEPT !.idle = n]  BY <1>2 DEF Older
  <2>. HIDE DEF new, row
  <2>3. /\ [new EXCEPT !.idle = row.idle] = row
        /\ new.token = row.token /\ new.deposit = row.deposit
        /\ new.bonus_deposit = row.bonus_deposit /\ new.ses_seq = row.ses_seq
        /\ new.player = row.player /\ new.casino_id = row.casino_id
        /\ new.digest = row.digest /\ new.state = row.state
    BY <2>1, <2>2 DEF Row
  <2>4. new # NoRow
    <3>1. new.state # "none"  BY <2>1, <2>3 DEF Row, States
    <3>. QED  BY <3>1 DEF NoRow
  <2>5. Kept(row, new)
    <3>1. Kept(row, row)  BY <2>1, SelfSame
    <3>. QED  BY <2>3, <3>1, KeptOn
  <2>6. PhaseOf(new) = PhaseOf(row)
    BY <1>2, <2>3, <2>4 DEF PhaseOf, Started, row
  <2>. QED  BY <2>1, <2>3, <2>4, <2>5, <2>6 DEF OnlyCloses, row
<1>3. Phases' = Phases
  <2>1. \A i \in SesIds : PhaseOf(sessions'[i]) = PhaseOf(sessions[i])
    BY <1>1, <1>2 DEF Older
  <2>. QED  BY <2>1 DEF Phases, PhaseOf, Started
<1>4. HeldNow' = HeldNow  BY <1>1 DEF HeldNow
<1>5. E!Else  BY <1>1, <1>3, <1>4 DEF E!Else, E!Undivided, SplitOf
<1>. QED  BY <1>1, <1>2, <1>5 DEF Good, E!Next

-------------------------------------------------------------------------------
LEMMA SessionStep ==
    LedgerInv /\ LedgerInv' /\ SessionInv /\ [Next]_vars => SessionInv' /\ Good
<1>. SUFFICES ASSUME LedgerInv, LedgerInv', SessionInv, [Next]_vars
              PROVE  SessionInv' /\ Good
  OBVIOUS
<1>0. tx' = NoTx => SessionInv'  BY DEF SessionInv
<1>1. ASSUME NEW id \in SesIds, Deposit(id) PROVE SessionInv' /\ Good
  <2>1. tx' = NoTx
    BY <1>1 DEF Deposit, OnTransfer, OnTransferNew, OnTransferExtra, DepositBonus,
                Ready, Store
  <2>. QED  BY <1>0, <1>1, <2>1, OnTransferGood, DepositBonusGood DEF Deposit
<1>2. ASSUME NEW id \in SesIds, Start(id) PROVE SessionInv' /\ Good
  BY <1>2, NewGameGood, NewGameBonusGood DEF Start
<1>3. ASSUME NEW id \in SesIds, Play(id) PROVE SessionInv' /\ Good
  <2>1. ASSUME NEW sign \in Signatures, SignidicePart1(id, sign) PROVE tx' = NoTx
    BY <2>1 DEF SignidicePart1, Ready, Store
  <2>. QED  BY <1>0, <1>3, <2>1, GameActionGood, SignidicePart1Good,
               SignidicePart2Good DEF Play
<1>4. ASSUME NEW id \in SesIds, Close(id) PROVE SessionInv' /\ Good
  <2>1. tx' = NoTx  BY <1>4 DEF Close, Ready, Store
  <2>. QED  BY <1>0, <1>4, <2>1, CloseGood
<1>5. CASE Callback
  <2>1. ASSUME NEW allow_deposit \in BOOLEAN, RequireAction(allow_deposit)
        PROVE  SessionInv' /\ Good
    <3>. DEFINE st == IF allow_deposit THEN "req_allow_deposit" ELSE "req_action"
    <3>1. /\ st \in States /\ InCallback /\ tx' = [tx EXCEPT !.row.state = st]
          /\ UNCHANGED <<sessions, session_ttl, receipt>>
      BY <2>1 DEF RequireAction, States
    <3>. HIDE DEF st
    <3>. QED  BY <3>1, RequireGood
  <2>2. ASSUME RequireRandom PROVE SessionInv' /\ Good
    <3>1. /\ "req_signidice_part_1" \in States /\ InCallback
          /\ tx' = [tx EXCEPT !.row.state = "req_signidice_part_1"]
          /\ UNCHANGED <<sessions, session_ttl, receipt>>
      BY <2>2 DEF RequireRandom, States
    <3>. QED  BY <3>1, RequireGood
  <2>3. ASSUME Return PROVE SessionInv' /\ Good
    BY <1>0, <2>3, ReturnGood DEF Return, Commit
  <2>4. ASSUME Abort PROVE SessionInv' /\ Good
    BY <1>0, <2>4, QuietGood DEF Abort
  <2>. QED  BY <1>5, <2>1, <2>2, <2>3, <2>4, UpdateMaxWinGood, FinishGameGood
            DEF Callback
<1>6. CASE Environment
  <2>1. ASSUME NEW ttl \in TtlValues, InitContract(ttl) PROVE SessionInv' /\ Good
    BY <1>0, <2>1, QuietGood DEF InitContract
  <2>2. ASSUME NEW switch \in Switches, Toggle(switch) PROVE SessionInv' /\ Good
    BY <1>0, <2>2, QuietGood DEF Toggle
  <2>3. ASSUME Tick PROVE SessionInv' /\ Good
    BY <1>0, <2>3, TickGood DEF Tick
  <2>. QED  BY <1>6, <2>1, <2>2, <2>3 DEF Environment
<1>7. CASE UNCHANGED vars
  BY <1>7, QuietGood DEF vars, SessionInv, Expired
<1>. QED  BY <1>1, <1>2, <1>3, <1>4, <1>5, <1>6, <1>7 DEF Next

LEMMA SessionInit == Init => SessionInv
BY DEF Init, SessionInv

(* Until it commits, a transaction works on the session that is stored.         *)
THEOREM TransactionsFollow == Spec => []SessionInv
<1>1. LedgerInv /\ LedgerInv' /\ SessionInv /\ [Next]_vars => SessionInv'
  BY SessionStep
<1>. QED  BY <1>1, SessionInit, LedgerSound, PTL DEF Spec

(* No step exchanges a live session for another, or takes from it short of      *)
(* ending it.                                                                   *)
THEOREM IdentityIsFixed == Spec => IdentityFixed
<1>1. LedgerInv /\ LedgerInv' /\ SessionInv /\ [Next]_vars
        => [\A id \in SesIds : sessions[id] # NoRow /\ sessions'[id] # NoRow
                                => Kept(sessions[id], sessions'[id])]_vars
  BY SessionStep DEF Good
<1>. QED  BY <1>1, TransactionsFollow, LedgerSound, PTL DEF Spec, IdentityFixed

(* An expired session is closed or left alone, and only an expired one is       *)
(* closed.                                                                      *)
THEOREM ExpiredIsOnlyClosed == Spec => ExpiredOnlyCloses
<1>1. LedgerInv /\ LedgerInv' /\ SessionInv /\ [Next]_vars
        => [\A id \in SesIds : sessions[id] # NoRow
              => OnlyCloses(sessions[id], sessions'[id], receipt')]_vars
  BY SessionStep DEF Good
<1>. QED  BY <1>1, TransactionsFollow, LedgerSound, PTL DEF Spec, ExpiredOnlyCloses

(* The contract implements Escrow: whatever is pushed, in whatever order, the   *)
(* real tokens of a session stay apart and leave once and whole.                *)
THEOREM ImplementsEscrow == Spec => EscrowSpec
<1>1. Init => E!Init
  BY DEF Init, E!Init, E!Nothing, E!Undivided, Phases, PhaseOf, HeldNow, SplitOf,
         EmptyBook, AtZero
<1>2. LedgerInv /\ LedgerInv' /\ SessionInv /\ [Next]_vars => [E!Next]_(E!vars)
  BY SessionStep DEF Good
<1>. QED  BY <1>1, <1>2, TransactionsFollow, LedgerSound, PTL
          DEF Spec, EscrowSpec, E!Spec

-------------------------------------------------------------------------------
(* Who has moved.  create_session leaves `acted' unset, so what it says of a    *)
(* session rests on the memory a row is made in: zeroed, RawActed is {FALSE}.   *)

MovedInv ==
    /\ \A id \in SesIds : sessions[id] # NoRow /\ sessions[id].acted
         => books[id].moved
    /\ tx # NoTx /\ tx.row # NoRow /\ tx.row.acted => tx.book.moved
    /\ LossNeedsOwnMove

LEMMA MovedStore ==
    ASSUME LedgerInv, MovedInv, NEW id \in SesIds, NEW row, NEW book, NEW rcpt,
           Store(id, row, book, rcpt), tx = NoTx,
           row # NoRow /\ row.acted => book.moved,
           rcpt = NoReceipt \/ LossNeedsOwnMove'
    PROVE  MovedInv'
<1>1. /\ sessions' = [sessions EXCEPT ![id] = row] /\ receipt' = rcpt /\ tx' = NoTx
      /\ books' = [books EXCEPT ![id] = book]
      /\ sessions \in [SesIds -> Row \cup {NoRow}] /\ books \in [SesIds -> Book]
  BY DEF Store, LedgerInv, TypeOK
<1>2. LossNeedsOwnMove'  BY <1>1 DEF LossNeedsOwnMove
<1>. QED  BY <1>1, <1>2 DEF MovedInv

LEMMA MovedBegin ==
    ASSUME MovedInv, NEW id, NEW row, NEW book, NEW seq, NEW callback, NEW random,
           Begin(callback, id, row, book, seq, random), row.acted => book.moved
    PROVE  MovedInv'
<1>1. /\ tx'.row = row /\ tx'.book = book /\ receipt' = NoReceipt
      /\ UNCHANGED <<sessions, books>>
  BY DEF Begin
<1>. QED  BY <1>1 DEF MovedInv, LossNeedsOwnMove

LEMMA MovedCall ==
    ASSUME MovedInv, tx # NoTx, UNCHANGED <<sessions, books, receipt>>,
           tx'.row # NoRow => /\ tx.row # NoRow /\ tx'.row.acted = tx.row.acted
                              /\ tx'.book.moved = tx.book.moved
    PROVE  MovedInv'
BY DEF MovedInv, LossNeedsOwnMove

LEMMA MovedDeposit ==
    ASSUME RawActed = {FALSE}, LedgerInv, MovedInv, NEW id \in SesIds, Deposit(id)
    PROVE  MovedInv'
<1>1. PICK from \in Players, quantity \in Quantities :
        \/ \E token \in Tokens : OnTransfer(id, from, quantity, token)
        \/ DepositBonus(id, from, quantity)
  BY DEF Deposit
<1>2. /\ tx = NoTx /\ sessions[id] \in Row \cup {NoRow} /\ books[id] \in Book
      /\ sessions[id] # NoRow /\ sessions[id].acted => books[id].moved
  BY <1>1 DEF LedgerInv, TypeOK, MovedInv, OnTransfer, DepositBonus, Ready
<1>3. ASSUME NEW token \in Tokens, OnTransferNew(id, from, quantity, token)
      PROVE  MovedInv'
  <2>1. PICK row \in CreateSession(session_seq, from, token, quantity) :
          Store(id, row, NotifyNewRealDeposit(Received(books[id], token, quantity),
                                              row.casino_id, quantity), NoReceipt)
    BY <1>3 DEF OnTransferNew
  <2>2. row.acted = FALSE  BY DEF CreateSession
  <2>. QED  BY <1>2, <2>1, <2>2, MovedStore
<1>. DEFINE extra == HandleExtraDeposit(sessions[id], quantity)
            bonus == [extra EXCEPT !.bonus_deposit = @ + quantity]
<1>4. sessions[id] # NoRow => extra.acted = sessions[id].acted
                               /\ bonus.acted = sessions[id].acted
  BY <1>2 DEF HandleExtraDeposit, Row
<1>5. ASSUME NEW token \in Tokens, OnTransferExtra(id, from, quantity, token)
      PROVE  MovedInv'
  <2>. DEFINE book == NotifyNewRealDeposit(Received(books[id], token, quantity),
                                           sessions[id].casino_id, quantity)
  <2>1. sessions[id] # NoRow /\ Store(id, extra, book, NoReceipt)
    BY <1>5 DEF OnTransferExtra
  <2>2. book.moved = books[id].moved
    BY <1>2 DEF NotifyNewRealDeposit, Received, Book
  <2>. HIDE DEF extra, book
  <2>. QED  BY <1>2, <1>4, <2>1, <2>2, MovedStore
<1>6. ASSUME DepositBonus(id, from, quantity)
      PROVE  MovedInv'
  <2>. DEFINE book == NotifyNewBonusDeposit(books[id], sessions[id].casino_id, quantity)
  <2>1. sessions[id] # NoRow /\ Store(id, bonus, book, NoReceipt)
    BY <1>6 DEF DepositBonus
  <2>2. book.moved = books[id].moved  BY <1>2 DEF NotifyNewBonusDeposit, Book
  <2>3. bonus.acted = sessions[id].acted  BY <1>4, <2>1
  <2>. HIDE DEF bonus, book
  <2>. QED  BY <1>2, <2>1, <2>2, <2>3, MovedStore
<1>. QED  BY <1>1, <1>3, <1>5, <1>6 DEF OnTransfer

LEMMA MovedNewGame ==
    ASSUME MovedInv, NEW id \in SesIds, NEW casino_id \in Casinos,
           NEW row \in Row, NEW book \in Book, NEW seq,
           NewGameInternal(id, casino_id, row, book, seq), row.acted => book.moved
    PROVE  MovedInv'
<1>. DEFINE new == [row EXCEPT !.idle = 0, !.casino_id = casino_id,
                       !.digest = calc_seed(casino_id, row.ses_seq, row.player)]
            nbook == NotifyNewSession(book, casino_id)
<1>1. Begin("on_new_game", id, new, nbook, seq, NoDigest)  BY DEF NewGameInternal
<1>2. new.acted = row.acted /\ nbook.moved = book.moved
  BY DEF Row, NotifyNewSession, Book
<1>. HIDE DEF new, nbook
<1>. QED  BY <1>1, <1>2, MovedBegin

LEMMA MovedStart ==
    ASSUME RawActed = {FALSE}, LedgerInv, MovedInv, NEW id \in SesIds, Start(id)
    PROVE  MovedInv'
<1>1. /\ sessions[id] \in Row \cup {NoRow} /\ books[id] \in Book
      /\ sessions[id] # NoRow /\ sessions[id].acted => books[id].moved
      /\ session_seq \in Nat /\ CoreToken \in Tokens
  BY SetsAssumption DEF LedgerInv, TypeOK, MovedInv
<1>2. ASSUME NEW casino_id \in Casinos, NewGame(id, casino_id) PROVE MovedInv'
  BY <1>1, <1>2, MovedNewGame DEF NewGame
<1>3. ASSUME NEW casino_id \in Casinos, NEW from \in Players,
             NEW quantity \in Quantities,
             NewGameBonus(id, casino_id, from, quantity)
      PROVE  MovedInv'
  <2>1. quantity \in Nat \ {0}  BY SetsAssumption
  <2>2. PICK row, seq :
          /\ row.casino_id \in Casinos /\ AddBonus(row, quantity) \in Row
          /\ AddBonus(row, quantity).acted => books[id].moved
          /\ NewGameInternal(id, casino_id, AddBonus(row, quantity),
               NotifyNewBonusDeposit(books[id], row.casino_id, quantity), seq)
    <3>1. CASE sessions[id] # NoRow
      <4>1. sessions[id] \in Row /\ AddBonus(sessions[id], quantity) \in Row
        BY <1>1, <2>1, <3>1, AddBonusType
      <4>2. /\ AddBonus(sessions[id], quantity).acted = sessions[id].acted
            /\ sessions[id].casino_id \in Casinos
        BY <4>1 DEF AddBonus, Row
      <4>3. NewGameInternal(id, casino_id, AddBonus(sessions[id], quantity),
              NotifyNewBonusDeposit(books[id], sessions[id].casino_id, quantity),
              session_seq)
        BY <1>3, <3>1 DEF NewGameBonus
      <4>. QED  BY <1>1, <3>1, <4>1, <4>2, <4>3
    <3>2. CASE sessions[id] = NoRow
      <4>1. PICK row \in CreateSession(session_seq, from, CoreToken, 0) :
              NewGameInternal(id, casino_id, AddBonus(row, quantity),
                NotifyNewBonusDeposit(books[id], row.casino_id, quantity),
                session_seq + 1)
        BY <1>3, <3>2 DEF NewGameBonus
      <4>2. AddBonus(row, quantity) \in Row /\ row.casino_id \in Casinos
        BY <1>1, <2>1, CreateType
      <4>3. AddBonus(row, quantity).acted = FALSE  BY DEF CreateSession, AddBonus
      <4>. QED  BY <4>1, <4>2, <4>3
    <3>. QED  BY <3>1, <3>2
  <2>. DEFINE book == NotifyNewBonusDeposit(books[id], row.casino_id, quantity)
  <2>3. book \in Book /\ book.moved = books[id].moved
    <3>1. quantity \in Int  BY <2>1
    <3>. QED  BY <1>1, <2>2, <3>1 DEF NotifyNewBonusDeposit, Book
  <2>. HIDE DEF book
  <2>. QED  BY <2>2, <2>3, MovedNewGame DEF book
<1>. QED  BY <1>2, <1>3 DEF Start

LEMMA MovedPlay ==
    ASSUME LedgerInv, MovedInv, NEW id \in SesIds, Play(id)
    PROVE  MovedInv'
<1>. DEFINE row == sessions[id]
<1>1. /\ row \in Row \cup {NoRow} /\ books[id] \in Book
      /\ row # NoRow /\ row.acted => books[id].moved
  BY DEF LedgerInv, TypeOK, MovedInv
<1>2. ASSUME GameAction(id) PROVE MovedInv'
  <2>. DEFINE new == [row EXCEPT !.idle = 0, !.state = "req_action", !.acted = TRUE]
              book == [books[id] EXCEPT !.moved = TRUE]
  <2>1. Begin("on_action", id, new, book, session_seq, NoDigest)
    BY <1>2 DEF GameAction
  <2>2. book.moved = TRUE  BY <1>1 DEF Book
  <2>. HIDE DEF new, book
  <2>. QED  BY <2>1, <2>2, MovedBegin
<1>3. ASSUME NEW sign \in Signatures, SignidicePart1(id, sign) PROVE MovedInv'
  <2>. DEFINE new == [row EXCEPT !.digest = Sha256(sign), !.idle = 0,
                                 !.state = "req_signidice_part_2"]
  <2>1. Store(id, new, books[id], NoReceipt) /\ row # NoRow /\ tx = NoTx
    BY <1>3 DEF SignidicePart1, Ready
  <2>2. new.acted = row.acted  BY <1>1, <2>1 DEF Row
  <2>. HIDE DEF new
  <2>. QED  BY <1>1, <2>1, <2>2, MovedStore
<1>4. ASSUME NEW sign \in Signatures, SignidicePart2(id, sign) PROVE MovedInv'
  <2>. DEFINE new == [row EXCEPT !.digest = Sha256(sign), !.idle = 0]
  <2>1. Begin("on_random", id, new, books[id], session_seq, Sha256(sign))
         /\ row # NoRow
    BY <1>4 DEF SignidicePart2
  <2>2. new.acted = row.acted  BY <1>1, <2>1 DEF Row
  <2>. HIDE DEF new
  <2>. QED  BY <1>1, <2>1, <2>2, MovedBegin
<1>. QED  BY <1>2, <1>3, <1>4 DEF Play

(* close pays less than the deposit only at the turn of a player who has moved. *)
LEMMA CloseKeepsStake ==
    ASSUME NEW row \in Row, CloseAllowed(row),
           CloseOutcome(row).payout < row.deposit
    PROVE  row.acted /\ row.state \in {"req_action", "req_allow_deposit"}
<1>1. row.deposit \in Nat /\ row.last_max_win \in Int /\ row.state \in States
  BY DEF Row
<1>2. ASSUME row.state = "req_signidice_part_2" PROVE FALSE
  <2>1. PlayerWinAllowed(row, row.last_max_win)  BY <1>2, Zenon DEF CloseAllowed
  <2>2. CloseOutcome(row) = PlayerWin(row, row.last_max_win)
    BY <1>2, Zenon DEF CloseOutcome
  <2>3. PlayerWin(row, row.last_max_win).payout = row.deposit + row.last_max_win
    BY DEF PlayerWin
  <2>4. row.last_max_win > 0  BY <2>1 DEF PlayerWinAllowed
  <2>. QED  BY <1>1, <2>2, <2>3, <2>4
<1>3. ~CloseRefunds(row)
  BY <1>1, <1>2 DEF CloseOutcome, PlayerLossOrTie
<1>4. row.state \in {"req_action", "req_allow_deposit"}
  BY <1>1, <1>2, <1>3 DEF CloseRefunds, States
<1>5. row.acted  BY <1>3, <1>4, Zenon DEF CloseRefunds
<1>. QED  BY <1>4, <1>5

(* Only a loss pays less than the deposit, and only to one who had moved.       *)
LEMMA MovedClose ==
    ASSUME LedgerInv, MovedInv, NEW id \in SesIds, Close(id)
    PROVE  MovedInv'
<1>. DEFINE row == sessions[id]
            rcpt == ReceiptOf("close", row, books[id], CloseOutcome(row))
<1>1. PICK book : Store(id, NoRow, book, rcpt)  BY DEF Close
<1>2. /\ tx = NoTx /\ row \in Row /\ row # NoRow /\ receipt' = rcpt
      /\ CloseAllowed(row)
      /\ row.acted => books[id].moved
  BY DEF LedgerInv, TypeOK, MovedInv, Close, Ready, Store
<1>3. ASSUME CloseOutcome(row).payout < row.deposit
      PROVE  books[id].moved /\ row.state \in {"req_action", "req_allow_deposit"}
  <2>1. row.acted /\ row.state \in {"req_action", "req_allow_deposit"}
    BY <1>2, <1>3, CloseKeepsStake, Zenon
  <2>2. row.acted => books[id].moved  BY <1>2, Zenon
  <2>. QED  BY <2>1, <2>2, Zenon
<1>4. /\ rcpt.row = row /\ rcpt.outcome = CloseOutcome(row)
      /\ rcpt.moved = books[id].moved
  BY DEF ReceiptOf
<1>. HIDE DEF rcpt
<1>5. LossNeedsOwnMove'  BY <1>2, <1>3, <1>4 DEF LossNeedsOwnMove
<1>. QED  BY <1>1, <1>2, <1>5, MovedStore

LEMMA MovedCallback ==
    ASSUME LedgerInv, SessionInv, MovedInv, Callback
    PROVE  MovedInv'
<1>1. ASSUME NEW st, InCallback, tx' = [tx EXCEPT !.row.state = st],
             UNCHANGED <<sessions, books, receipt>>
      PROVE  MovedInv'
  <2>1. tx \in Tx /\ tx.row \in Row /\ tx # NoTx /\ tx.row # NoRow
    BY <1>1, InCallbackType DEF LedgerInv, InCallback
  <2>2. tx'.row.acted = tx.row.acted /\ tx'.book = tx.book
    BY <1>1, <2>1 DEF Tx, Row
  <2>. QED  BY <1>1, <2>1, <2>2, MovedCall
<1>2. ASSUME NEW allow_deposit \in BOOLEAN, RequireAction(allow_deposit)
      PROVE  MovedInv'
  BY <1>1, <1>2 DEF RequireAction
<1>3. ASSUME RequireRandom PROVE MovedInv'  BY <1>1, <1>3 DEF RequireRandom
<1>4. ASSUME NEW new_max_win \in MaxWins, UpdateMaxWin(new_max_win) PROVE MovedInv'
  <2>1. /\ tx # NoTx /\ tx.row # NoRow /\ UNCHANGED <<sessions, books, receipt>>
        /\ TypeOK /\ tx \in Tx /\ tx.row \in Row /\ tx.book \in Book
    BY <1>4, InCallbackType DEF UpdateMaxWin, InCallback, LedgerInv
  <2>2. PICK lost, delta :
          tx' = [tx EXCEPT !.row = [tx.row EXCEPT !.last_max_win = lost],
                           !.book = NotifyUpdateSession(tx.book, tx.row.casino_id, delta)]
    BY <1>4, <2>1, UpdateMaxWinStep
  <2>3. /\ tx'.row = [tx.row EXCEPT !.last_max_win = lost]
        /\ tx'.book = NotifyUpdateSession(tx.book, tx.row.casino_id, delta)
    BY <2>1, <2>2 DEF Tx
  <2>4. tx'.row.acted = tx.row.acted /\ tx'.book.moved = tx.book.moved
    BY <2>1, <2>3 DEF Row, NotifyUpdateSession, Book
  <2>. QED  BY <2>1, <2>4, MovedCall
<1>5. ASSUME NEW player_payout \in Payouts, FinishGame(player_payout) PROVE MovedInv'
  <2>1. /\ tx # NoTx /\ tx \in Tx /\ UNCHANGED <<sessions, books, receipt>>
    BY <1>5, InCallbackType DEF FinishGame, InCallback, LedgerInv
  <2>2. tx'.row = NoRow  BY <1>5, <2>1 DEF FinishGame, Tx
  <2>. QED  BY <2>1, <2>2, MovedCall
<1>6. ASSUME Return PROVE MovedInv'
  <2>1. /\ tx # NoTx /\ tx' = NoTx /\ receipt' = tx.receipt
        /\ sessions' = [sessions EXCEPT ![tx.ses_id] = tx.row]
        /\ books' = [books EXCEPT ![tx.ses_id] = tx.book]
        /\ sessions \in [SesIds -> Row \cup {NoRow}] /\ books \in [SesIds -> Book]
    BY <1>6 DEF Return, Commit, LedgerInv, TypeOK
  <2>2. receipt' # NoReceipt => receipt'.by = "finish"  BY <2>1 DEF SessionInv
  <2>3. LossNeedsOwnMove'  BY <2>2 DEF LossNeedsOwnMove
  <2>. QED  BY <2>1, <2>3 DEF MovedInv
<1>7. ASSUME Abort PROVE MovedInv'
  BY <1>7 DEF Abort, MovedInv, LossNeedsOwnMove
<1>. QED  BY <1>2, <1>3, <1>4, <1>5, <1>6, <1>7 DEF Callback

LEMMA MovedEnvironment ==
    ASSUME LedgerInv, MovedInv, Environment
    PROVE  MovedInv'
<1>1. ASSUME Tick PROVE MovedInv'
  <2>1. ASSUME NEW i \in SesIds, sessions'[i] # NoRow, sessions'[i].acted
        PROVE  books'[i].moved
    <3>1. sessions'[i] = Older(sessions[i]) /\ books' = books /\ sessions[i] # NoRow
      BY <1>1, <2>1 DEF Tick, Older
    <3>2. sessions[i] \in Row  BY <3>1 DEF LedgerInv, TypeOK
    <3>3. sessions'[i].acted = sessions[i].acted  BY <3>1, <3>2 DEF Older, Row
    <3>. QED  BY <2>1, <3>1, <3>3 DEF MovedInv
  <2>. QED  BY <1>1, <2>1 DEF Tick, MovedInv, LossNeedsOwnMove
<1>2. ASSUME NEW ttl \in TtlValues, InitContract(ttl) PROVE MovedInv'
  BY <1>2 DEF InitContract, MovedInv, LossNeedsOwnMove
<1>3. ASSUME NEW switch \in Switches, Toggle(switch) PROVE MovedInv'
  BY <1>3 DEF Toggle, MovedInv, LossNeedsOwnMove
<1>. QED  BY <1>1, <1>2, <1>3 DEF Environment

LEMMA MovedStep ==
    ASSUME RawActed = {FALSE}
    PROVE  LedgerInv /\ SessionInv /\ MovedInv /\ [Next]_vars => MovedInv'
<1>1. CASE UNCHANGED vars  BY <1>1 DEF vars, MovedInv, LossNeedsOwnMove
<1>. QED  BY <1>1, MovedDeposit, MovedStart, MovedPlay, MovedClose, MovedCallback,
             MovedEnvironment DEF Next

(* Where the memory a row is made in is zero, a time-out costs the player       *)
(* something only after a move of his own, while it is his turn again.          *)
THEOREM LossNeedsMove ==
    ASSUME RawActed = {FALSE}
    PROVE  Spec => []LossNeedsOwnMove
<1>1. Init => MovedInv
  BY DEF Init, MovedInv, LossNeedsOwnMove
<1>2. LedgerInv /\ SessionInv /\ MovedInv /\ [Next]_vars => MovedInv'
  BY MovedStep
<1>3. MovedInv => LossNeedsOwnMove  BY DEF MovedInv
<1>. QED  BY <1>1, <1>2, <1>3, TransactionsFollow, LedgerSound, PTL DEF Spec

===============================================================================

----------------------------- MODULE SignidiceProofs ----------------------------
(* The signatures of signidice, for every number of sessions, players, casinos  *)
(* and signatures: no random value is ever used twice.                          *)
(*                                                                              *)
(* That is not inductive by itself.  What keeps a digest from coming back is    *)
(* the session's number in its seed: session_seq only grows, so a later session *)
(* under the same id has another, and within one session every signature makes  *)
(* the digest longer.  SignInv says so of the stored rows, of the row a         *)
(* transaction works on, and of the digests already used.                       *)
EXTENDS Events, GameContractProofs

Number(d) == d.seed[2]

(* A started row is waiting for a signature over a digest of its own.           *)
Numbered(row) ==
    Started(row) => row.digest.seed = <<row.casino_id, row.ses_seq, row.player>>

(* What was used of the session is no longer than its digest has become.        *)
Spent(used, row) ==
    \A d \in used : Number(d) = row.ses_seq
        => Started(row) /\ Len(d.signs) <= Len(row.digest.signs)

(* A digest that is longer than all that were used of its session.              *)
Longer(used, d) ==
    \A e \in used : Number(e) = Number(d) => Len(e.signs) < Len(d.signs)

Stored(table, seq, used) ==
    /\ \A id \in SesIds : table[id] # NoRow =>
         table[id].ses_seq < seq /\ Numbered(table[id]) /\ Spent(used, table[id])
    /\ \A i, j \in SesIds : i # j /\ table[i] # NoRow /\ table[j] # NoRow
         => table[i].ses_seq # table[j].ses_seq
    /\ \A d \in used : Number(d) \in Nat /\ Number(d) < seq

(* A transaction on the row `stored': on a new session it takes a new number.   *)
Signing(t, stored, seq, used) ==
    /\ t.seq = IF stored = NoRow THEN seq + 1 ELSE seq
    /\ t.row # NoRow =>
         /\ Started(t.row) /\ Numbered(t.row)
         /\ t.row.ses_seq = IF stored = NoRow THEN seq ELSE stored.ses_seq
         /\ IF t.callback = "on_random" THEN t.row.digest = t.random
            ELSE Spent(used, t.row)
    /\ t.callback = "on_random" =>
         /\ stored # NoRow
         /\ Number(t.random) = stored.ses_seq
         /\ Longer(used, t.random)

SignInv ==
    /\ Stored(sessions, session_seq, rolls)
    /\ tx # NoTx => Signing(tx, sessions[tx.ses_id], session_seq, rolls)

-------------------------------------------------------------------------------
(* Rows and digests.                                                            *)

LEMMA LengthType ==
    /\ \A d \in Digest : Len(d.signs) \in Nat
    /\ \A row \in Row : Len(row.digest.signs) \in Nat /\ row.ses_seq \in Nat
BY DEF Digest, Row

(* A signature makes a digest of the same session, longer by one.               *)
LEMMA SignedLonger ==
    ASSUME NEW row \in Row, NEW sign \in Signatures, NEW key,
           RsaVerify(row.digest, sign, key)
    PROVE  /\ Sha256(sign).seed = row.digest.seed
           /\ Len(Sha256(sign).signs) = Len(row.digest.signs) + 1
<1>1. sign.digest = row.digest /\ row.digest \in Digest  BY DEF RsaVerify, Row
<1>2. /\ Sha256(sign).seed = row.digest.seed
      /\ Sha256(sign).signs = Append(row.digest.signs, sign.key)
  BY <1>1 DEF Sha256, Digest
<1>3. row.digest.signs \in Seq(Keys)  BY <1>1 DEF Digest
<1>. QED  BY <1>2, <1>3

(* A row whose digest stays, or grows by signatures.                            *)
LEMMA SameRow ==
    ASSUME NEW used, NEW row, NEW new, Numbered(row), Spent(used, row),
           new.ses_seq = row.ses_seq, new.casino_id = row.casino_id,
           new.player = row.player, new.digest = row.digest
    PROVE  Numbered(new) /\ Spent(used, new)
BY DEF Numbered, Spent, Started

LEMMA GrownRow ==
    ASSUME NEW used \in SUBSET Digest, NEW row \in Row, NEW new \in Row,
           Numbered(row), Spent(used, row), Started(row), Started(new),
           new.ses_seq = row.ses_seq, new.casino_id = row.casino_id,
           new.player = row.player, new.digest.seed = row.digest.seed,
           Len(new.digest.signs) = Len(row.digest.signs) + 1
    PROVE  Numbered(new) /\ Spent(used, new) /\ Longer(used, new.digest)
<1>1. Numbered(new)  BY DEF Numbered
<1>2. ASSUME NEW d \in used, Number(d) = row.ses_seq
      PROVE  Len(d.signs) < Len(new.digest.signs)
  BY <1>2, LengthType DEF Spent
<1>3. Spent(used, new)
  <2>. SUFFICES ASSUME NEW d \in used, Number(d) = new.ses_seq
                PROVE  Len(d.signs) <= Len(new.digest.signs)
    BY DEF Spent
  <2>. QED  BY <1>2, LengthType
<1>4. Number(new.digest) = row.ses_seq  BY DEF Numbered, Number
<1>. QED  BY <1>1, <1>2, <1>3, <1>4 DEF Longer

-------------------------------------------------------------------------------
(* The two ways an action begins and ends.                                      *)

LEMMA StoreSign ==
    ASSUME TypeOK, SignInv, NEW id \in SesIds, NEW row \in Row \cup {NoRow},
           NEW book, NEW rcpt, tx = NoTx, Store(id, row, book, rcpt),
           row # NoRow => Numbered(row) /\ Spent(rolls, row),
           \/ row = NoRow /\ session_seq' = session_seq
           \/ /\ sessions[id] = NoRow
              /\ row.ses_seq = session_seq /\ session_seq' = session_seq + 1
           \/ /\ sessions[id] # NoRow
              /\ row.ses_seq = sessions[id].ses_seq /\ session_seq' = session_seq
    PROVE  SignInv'
<1>1. /\ sessions' = [sessions EXCEPT ![id] = row] /\ rolls' = rolls /\ tx' = NoTx
      /\ sessions \in [SesIds -> Row \cup {NoRow}] /\ session_seq \in Nat
  BY DEF Store, TypeOK
<1>2. Stored(sessions, session_seq, rolls)  BY DEF SignInv
<1>3. \A i \in SesIds : sessions[i] # NoRow =>
        sessions[i].ses_seq \in Nat /\ sessions[i].ses_seq < session_seq
  BY <1>1, <1>2, LengthType DEF Stored
<1>4. session_seq' \in Nat /\ session_seq' >= session_seq  BY <1>1
<1>5. ASSUME NEW i \in SesIds, sessions'[i] # NoRow
      PROVE  /\ sessions'[i].ses_seq < session_seq' /\ Numbered(sessions'[i])
             /\ Spent(rolls, sessions'[i])
  <2>1. CASE i = id
    <3>1. sessions'[i] = row /\ row # NoRow  BY <1>1, <1>5, <2>1
    <3>2. row.ses_seq < session_seq'  BY <1>1, <1>3, <3>1
    <3>. QED  BY <3>1, <3>2
  <2>2. CASE i # id
    <3>1. sessions'[i] = sessions[i] /\ sessions[i] # NoRow  BY <1>1, <1>5, <2>2
    <3>2. Numbered(sessions[i]) /\ Spent(rolls, sessions[i])  BY <1>2, <3>1 DEF Stored
    <3>3. sessions[i].ses_seq < session_seq'  BY <1>1, <1>3, <1>4, <3>1
    <3>. QED  BY <3>1, <3>2, <3>3
  <2>. QED  BY <2>1, <2>2
<1>6. ASSUME NEW i \in SesIds, NEW j \in SesIds, i # j,
             sessions'[i] # NoRow, sessions'[j] # NoRow
      PROVE  sessions'[i].ses_seq # sessions'[j].ses_seq
  <2>1. ASSUME NEW k \in SesIds, k # id, sessions[k] # NoRow, row # NoRow
        PROVE  sessions[k].ses_seq # row.ses_seq
    BY <1>1, <1>2, <1>3, <2>1 DEF Stored
  <2>. QED  BY <1>1, <1>2, <1>6, <2>1 DEF Stored
<1>7. \A d \in rolls : Number(d) \in Nat /\ Number(d) < session_seq'
  BY <1>1, <1>2, <1>4 DEF Stored
<1>. QED  BY <1>1, <1>5, <1>6, <1>7 DEF SignInv, Stored

LEMMA BeginSign ==
    ASSUME TypeOK, SignInv, NEW id \in SesIds, NEW row \in Row, NEW book, NEW seq,
           NEW callback, NEW random, Begin(callback, id, row, book, seq, random),
           Started(row), Numbered(row),
           seq = IF sessions[id] = NoRow THEN session_seq + 1 ELSE session_seq,
           row.ses_seq = IF sessions[id] = NoRow THEN session_seq
                         ELSE sessions[id].ses_seq,
           callback # "on_random" => Spent(rolls, row),
           callback = "on_random" => /\ sessions[id] # NoRow
                                     /\ row.digest = random
                                     /\ Longer(rolls, random)
    PROVE  SignInv'
<1>1. /\ tx'.callback = callback /\ tx'.ses_id = id /\ tx'.row = row
      /\ tx'.seq = seq /\ tx'.random = random
      /\ UNCHANGED <<sessions, session_seq, rolls>>
  BY DEF Begin
<1>2. Number(row.digest) = row.ses_seq  BY DEF Numbered, Number
<1>3. Signing(tx', sessions[id], session_seq, rolls)  BY <1>1, <1>2 DEF Signing
<1>. QED  BY <1>1, <1>3 DEF SignInv

(* A call of the game leaves the row's session and digest alone, or ends it.    *)
LEMMA CallSign ==
    ASSUME SignInv, tx # NoTx, UNCHANGED <<sessions, session_seq, rolls>>,
           tx'.callback = tx.callback, tx'.ses_id = tx.ses_id, tx'.seq = tx.seq,
           tx'.random = tx.random,
           tx'.row # NoRow => /\ tx.row # NoRow
                              /\ tx'.row.ses_seq = tx.row.ses_seq
                              /\ tx'.row.casino_id = tx.row.casino_id
                              /\ tx'.row.player = tx.row.player
                              /\ tx'.row.digest = tx.row.digest
    PROVE  SignInv'
<1>1. Signing(tx, sessions[tx.ses_id], session_seq, rolls)  BY DEF SignInv
<1>2. Signing(tx', sessions[tx.ses_id], session_seq, rolls)
  BY <1>1, SameRow DEF Signing, Started, Numbered
<1>. QED  BY <1>2 DEF SignInv

-------------------------------------------------------------------------------
(* The actions.                                                                 *)

(* No digest of a session that has not started was used, nor of one to come.    *)
Unused(row) == \A d \in rolls : Number(d) # row.ses_seq

LEMMA UnusedRows ==
    ASSUME TypeOK, SignInv
    PROVE  /\ \A id \in SesIds : sessions[id] # NoRow /\ ~Started(sessions[id])
                => Unused(sessions[id])
           /\ \A row : row.ses_seq = session_seq => Unused(row)
<1>1. Stored(sessions, session_seq, rolls) /\ session_seq \in Nat
  BY DEF SignInv, TypeOK
<1>. QED  BY <1>1 DEF Stored, Spent, Unused

LEMMA CreatedRow ==
    ASSUME NEW seq, NEW player, NEW token, NEW deposit,
           NEW row \in CreateSession(seq, player, token, deposit)
    PROVE  row.ses_seq = seq /\ ~Started(row)
BY DEF CreateSession, Started

LEMMA DepositSign ==
    ASSUME TypeOK, SignInv, NEW id \in SesIds, Deposit(id)
    PROVE  SignInv'
<1>1. PICK from \in Players, quantity \in Quantities :
        \/ \E token \in Tokens : OnTransfer(id, from, quantity, token)
        \/ DepositBonus(id, from, quantity)
  BY DEF Deposit
<1>2. /\ tx = NoTx /\ sessions[id] \in Row \cup {NoRow} /\ session_seq \in Nat
      /\ quantity \in Nat \ {0}
  BY <1>1, SetsAssumption DEF OnTransfer, DepositBonus, Ready, TypeOK
<1>3. ASSUME NEW token \in Tokens, OnTransferNew(id, from, quantity, token)
      PROVE  SignInv'
  <2>1. PICK row \in CreateSession(session_seq, from, token, quantity) :
          Store(id, row, NotifyNewRealDeposit(Received(books[id], token, quantity),
                                              row.casino_id, quantity), NoReceipt)
    BY <1>3 DEF OnTransferNew
  <2>2. row \in Row
    <3>1. quantity \in Nat /\ quantity # 0  BY <1>2
    <3>. QED  BY <1>2, <3>1, CreateType
  <2>3. row.ses_seq = session_seq /\ ~Started(row)  BY CreatedRow
  <2>4. Numbered(row) /\ Spent(rolls, row)
    BY <2>3, UnusedRows DEF Numbered, Spent, Unused
  <2>5. sessions[id] = NoRow /\ session_seq' = session_seq + 1
    BY <1>3 DEF OnTransferNew
  <2>. QED  BY <1>2, <2>1, <2>2, <2>3, <2>4, <2>5, StoreSign
<1>4. ASSUME NEW new \in Row, NEW book, sessions[id] # NoRow,
             new.ses_seq = sessions[id].ses_seq, new.player = sessions[id].player,
             new.casino_id = sessions[id].casino_id,
             new.digest = sessions[id].digest, session_seq' = session_seq,
             Store(id, new, book, NoReceipt)
      PROVE  SignInv'
  <2>1. Numbered(sessions[id]) /\ Spent(rolls, sessions[id])
    BY <1>4 DEF SignInv, Stored
  <2>2. Numbered(new) /\ Spent(rolls, new)  BY <1>4, <2>1, SameRow
  <2>. QED  BY <1>2, <1>4, <2>2, StoreSign
<1>. DEFINE extra == HandleExtraDeposit(sessions[id], quantity)
            bonus == [extra EXCEPT !.bonus_deposit = @ + quantity]
<1>5. ASSUME sessions[id] # NoRow
      PROVE  /\ extra \in Row /\ bonus \in Row
             /\ extra.ses_seq = sessions[id].ses_seq /\ bonus.ses_seq = extra.ses_seq
             /\ extra.player = sessions[id].player /\ bonus.player = extra.player
             /\ extra.casino_id = sessions[id].casino_id
             /\ bonus.casino_id = extra.casino_id
             /\ extra.digest = sessions[id].digest /\ bonus.digest = extra.digest
  <2>1. sessions[id] \in Row  BY <1>2, <1>5
  <2>2. /\ sessions[id].deposit + quantity \in Nat \ {0}
        /\ sessions[id].bonus_deposit + quantity \in Nat
    BY <1>2, <2>1 DEF Row
  <2>. QED  BY <2>1, <2>2 DEF HandleExtraDeposit, Row
<1>6. ASSUME NEW token \in Tokens, OnTransferExtra(id, from, quantity, token)
      PROVE  SignInv'
  <2>1. /\ sessions[id] # NoRow /\ session_seq' = session_seq
        /\ Store(id, extra, NotifyNewRealDeposit(Received(books[id], token, quantity),
                                sessions[id].casino_id, quantity), NoReceipt)
    BY <1>6 DEF OnTransferExtra
  <2>. HIDE DEF extra
  <2>. QED  BY <1>4, <1>5, <2>1
<1>7. ASSUME DepositBonus(id, from, quantity)
      PROVE  SignInv'
  <2>1. /\ sessions[id] # NoRow /\ session_seq' = session_seq
        /\ Store(id, bonus, NotifyNewBonusDeposit(books[id],
                                sessions[id].casino_id, quantity), NoReceipt)
    BY <1>7 DEF DepositBonus
  <2>. HIDE DEF extra, bonus
  <2>2. /\ bonus.ses_seq = sessions[id].ses_seq /\ bonus.player = sessions[id].player
        /\ bonus.casino_id = sessions[id].casino_id
        /\ bonus.digest = sessions[id].digest /\ bonus \in Row
    BY <1>5, <2>1
  <2>. QED  BY <1>4, <2>1, <2>2
<1>. QED  BY <1>1, <1>3, <1>6, <1>7 DEF OnTransfer

LEMMA NewGameInternalSign ==
    ASSUME TypeOK, SignInv, NEW id \in SesIds, NEW casino_id \in Casinos,
           NEW row \in Row, NEW book, NEW seq,
           NewGameInternal(id, casino_id, row, book, seq), Unused(row),
           seq = IF sessions[id] = NoRow THEN session_seq + 1 ELSE session_seq,
           row.ses_seq = IF sessions[id] = NoRow THEN session_seq
                         ELSE sessions[id].ses_seq
    PROVE  SignInv'
<1>. DEFINE d == calc_seed(casino_id, row.ses_seq, row.player)
            new == [row EXCEPT !.idle = 0, !.casino_id = casino_id, !.digest = d]
<1>1. d \in Digest
  <2>1. row.ses_seq \in Nat /\ row.player \in Players  BY DEF Row
  <2>. QED  BY <2>1, SeedType
<1>2. /\ new \in Row /\ new.ses_seq = row.ses_seq /\ new.player = row.player
      /\ new.casino_id = casino_id /\ new.digest = d
  BY <1>1 DEF Row
<1>3. Begin("on_new_game", id, new, NotifyNewSession(book, casino_id), seq, NoDigest)
  BY DEF NewGameInternal
<1>4. Started(new)  BY <1>2, NoDigestUnseeded DEF Started
<1>5. Numbered(new)  BY <1>2 DEF Numbered, calc_seed
<1>6. Spent(rolls, new)  BY <1>2 DEF Spent, Unused
<1>. HIDE DEF new
<1>. QED  BY <1>2, <1>3, <1>4, <1>5, <1>6, BeginSign

(* A row in req_start has not started.                                          *)
LEMMA WaitingRow ==
    ASSUME LedgerInv, NEW id \in SesIds, sessions[id] # NoRow,
           sessions[id].state = "req_start"
    PROVE  ~Started(sessions[id])
BY DEF LedgerInv

LEMMA StartSign ==
    ASSUME LedgerInv, SignInv, NEW id \in SesIds, Start(id)
    PROVE  SignInv'
<1>1. /\ TypeOK /\ session_seq \in Nat /\ sessions[id] \in Row \cup {NoRow}
      /\ CoreToken \in Tokens
  BY SetsAssumption DEF LedgerInv, TypeOK
<1>2. ASSUME NEW casino_id \in Casinos, NewGame(id, casino_id)
      PROVE  SignInv'
  <2>1. /\ sessions[id] # NoRow /\ sessions[id].state = "req_start"
        /\ NewGameInternal(id, casino_id, sessions[id], books[id], session_seq)
    BY <1>2 DEF NewGame, NewGameInternal
  <2>2. Unused(sessions[id]) /\ sessions[id] \in Row
    BY <1>1, <2>1, WaitingRow, UnusedRows
  <2>. QED  BY <1>1, <2>1, <2>2, NewGameInternalSign
<1>3. ASSUME NEW casino_id \in Casinos, NEW from \in Players,
             NEW quantity \in Quantities,
             NewGameBonus(id, casino_id, from, quantity)
      PROVE  SignInv'
  <2>1. quantity \in Nat \ {0}  BY SetsAssumption
  <2>2. PICK row, seq :
          /\ AddBonus(row, quantity) \in Row
          /\ NewGameInternal(id, casino_id, AddBonus(row, quantity),
               NotifyNewBonusDeposit(books[id], row.casino_id, quantity), seq)
          /\ Unused(AddBonus(row, quantity))
          /\ seq = IF sessions[id] = NoRow THEN session_seq + 1 ELSE session_seq
          /\ AddBonus(row, quantity).ses_seq =
               IF sessions[id] = NoRow THEN session_seq ELSE sessions[id].ses_seq
    <3>1. CASE sessions[id] # NoRow
      <4>. DEFINE row == sessions[id]
      <4>1. row \in Row /\ AddBonus(row, quantity) \in Row
        BY <1>1, <2>1, <3>1, AddBonusType
      <4>2. NewGameInternal(id, casino_id, AddBonus(row, quantity),
              NotifyNewBonusDeposit(books[id], row.casino_id, quantity),
              session_seq)
        BY <1>3, <3>1 DEF NewGameBonus
      <4>3. /\ AddBonus(row, quantity).ses_seq = row.ses_seq
            /\ AddBonus(row, quantity).state = row.state
        BY <4>1 DEF AddBonus, Row
      <4>4. row.state = "req_start"  BY <4>2, <4>3 DEF NewGameInternal
      <4>5. Unused(row)  BY <1>1, <3>1, <4>4, WaitingRow, UnusedRows
      <4>6. Unused(AddBonus(row, quantity))  BY <4>3, <4>5 DEF Unused
      <4>. QED  BY <3>1, <4>1, <4>2, <4>3, <4>6
    <3>2. CASE sessions[id] = NoRow
      <4>1. PICK row \in CreateSession(session_seq, from, CoreToken, 0) :
              NewGameInternal(id, casino_id, AddBonus(row, quantity),
                NotifyNewBonusDeposit(books[id], row.casino_id, quantity),
                session_seq + 1)
        BY <1>3, <3>2 DEF NewGameBonus
      <4>2. AddBonus(row, quantity) \in Row  BY <1>1, <2>1, CreateType
      <4>3. AddBonus(row, quantity).ses_seq = session_seq
        BY DEF CreateSession, AddBonus
      <4>4. Unused(AddBonus(row, quantity))  BY <1>1, <4>3, UnusedRows
      <4>. QED  BY <3>2, <4>1, <4>2, <4>3, <4>4
    <3>. QED  BY <3>1, <3>2
  <2>. QED  BY <1>1, <2>2, NewGameInternalSign
<1>. QED  BY <1>2, <1>3 DEF Start

LEMMA GameActionSign ==
    ASSUME LedgerInv, SignInv, NEW id \in SesIds, GameAction(id)
    PROVE  SignInv'
<1>. DEFINE row == sessions[id]
            new == [row EXCEPT !.idle = 0, !.state = "req_action", !.acted = TRUE]
            book == [books[id] EXCEPT !.moved = TRUE]
<1>1. /\ TypeOK /\ row \in Row /\ row # NoRow /\ row.state # "req_start"
      /\ Sound(row, books[id])
  BY DEF LedgerInv, TypeOK, GameAction
<1>2. /\ new \in Row /\ new.ses_seq = row.ses_seq /\ new.player = row.player
      /\ new.casino_id = row.casino_id /\ new.digest = row.digest
  BY <1>1 DEF Row, States
<1>3. Started(new)  BY <1>1, <1>2 DEF Sound, Started
<1>4. Numbered(row) /\ Spent(rolls, row)  BY <1>1 DEF SignInv, Stored
<1>5. Begin("on_action", id, new, book, session_seq, NoDigest)  BY DEF GameAction
<1>. HIDE DEF new, book
<1>6. Numbered(new) /\ Spent(rolls, new)  BY <1>2, <1>4, SameRow
<1>. QED  BY <1>1, <1>2, <1>3, <1>5, <1>6, BeginSign

(* What a signature makes of the row that waits for it.                         *)
LEMMA SignedRow ==
    ASSUME LedgerInv, SignInv, NEW id \in SesIds, NEW sign \in Signatures, NEW key,
           sessions[id] # NoRow, sessions[id].state # "req_start",
           RsaVerify(sessions[id].digest, sign, key),
           NEW new \in Row, new.ses_seq = sessions[id].ses_seq,
           new.player = sessions[id].player,
           new.casino_id = sessions[id].casino_id, new.digest = Sha256(sign)
    PROVE  /\ Started(new) /\ Numbered(new) /\ Spent(rolls, new)
           /\ Longer(rolls, new.digest)
<1>1. /\ sessions[id] \in Row /\ rolls \in SUBSET Digest
      /\ Sound(sessions[id], books[id])
  BY DEF LedgerInv, TypeOK
<1>2. Started(sessions[id])  BY <1>1 DEF Sound
<1>3. Started(new)  BY <1>1, SignedStarted DEF Started
<1>4. Numbered(sessions[id]) /\ Spent(rolls, sessions[id])  BY DEF SignInv, Stored
<1>5. /\ new.digest.seed = sessions[id].digest.seed
      /\ Len(new.digest.signs) = Len(sessions[id].digest.signs) + 1
  BY <1>1, SignedLonger
<1>. QED  BY <1>1, <1>2, <1>3, <1>4, <1>5, GrownRow

LEMMA SignidicePart1Sign ==
    ASSUME LedgerInv, SignInv, NEW id \in SesIds, NEW sign \in Signatures,
           SignidicePart1(id, sign)
    PROVE  SignInv'
<1>. DEFINE row == sessions[id]
            new == [row EXCEPT !.digest = Sha256(sign), !.idle = 0,
                               !.state = "req_signidice_part_2"]
<1>1. /\ TypeOK /\ tx = NoTx /\ row \in Row /\ row # NoRow
      /\ row.state # "req_start" /\ RsaVerify(row.digest, sign, PlatformKey)
  BY DEF LedgerInv, TypeOK, SignidicePart1, Ready
<1>2. Sha256(sign) \in Digest  BY <1>1, SignedType
<1>3. /\ new \in Row /\ new.ses_seq = row.ses_seq /\ new.player = row.player
      /\ new.casino_id = row.casino_id /\ new.digest = Sha256(sign)
  BY <1>1, <1>2 DEF Row, States
<1>4. Store(id, new, books[id], NoReceipt) /\ session_seq' = session_seq
  BY DEF SignidicePart1
<1>. HIDE DEF new
<1>5. Numbered(new) /\ Spent(rolls, new)  BY <1>1, <1>3, SignedRow
<1>. QED  BY <1>1, <1>3, <1>4, <1>5, StoreSign

LEMMA SignidicePart2Sign ==
    ASSUME LedgerInv, SignInv, NEW id \in SesIds, NEW sign \in Signatures,
           SignidicePart2(id, sign)
    PROVE  SignInv'
<1>. DEFINE row == sessions[id]
            new == [row EXCEPT !.digest = Sha256(sign), !.idle = 0]
<1>1. /\ TypeOK /\ row \in Row /\ row # NoRow /\ row.state # "req_start"
      /\ RsaVerify(row.digest, sign, row.casino_id)
  BY DEF LedgerInv, TypeOK, SignidicePart2
<1>2. Sha256(sign) \in Digest  BY <1>1, SignedType
<1>3. /\ new \in Row /\ new.ses_seq = row.ses_seq /\ new.player = row.player
      /\ new.casino_id = row.casino_id /\ new.digest = Sha256(sign)
  BY <1>1, <1>2 DEF Row
<1>4. Begin("on_random", id, new, books[id], session_seq, Sha256(sign))
  BY DEF SignidicePart2
<1>. HIDE DEF new
<1>5. /\ Started(new) /\ Numbered(new) /\ Longer(rolls, new.digest)
  BY <1>1, <1>3, SignedRow
<1>. QED  BY <1>1, <1>3, <1>4, <1>5, BeginSign

LEMMA RequireSign ==
    ASSUME TypeOK, SignInv, InCallback, NEW st,
           tx' = [tx EXCEPT !.row.state = st],
           UNCHANGED <<sessions, session_seq, rolls>>
    PROVE  SignInv'
<1>1. tx \in Tx /\ tx.row \in Row /\ tx # NoTx /\ tx.row # NoRow
  BY InCallbackType DEF InCallback
<1>2. /\ tx'.callback = tx.callback /\ tx'.ses_id = tx.ses_id /\ tx'.seq = tx.seq
      /\ tx'.random = tx.random /\ tx'.row = [tx.row EXCEPT !.state = st]
  BY <1>1 DEF Tx
<1>3. /\ tx'.row.ses_seq = tx.row.ses_seq /\ tx'.row.casino_id = tx.row.casino_id
      /\ tx'.row.player = tx.row.player /\ tx'.row.digest = tx.row.digest
  BY <1>1, <1>2 DEF Row
<1>. QED  BY <1>1, <1>2, <1>3, CallSign

LEMMA UpdateMaxWinSign ==
    ASSUME TypeOK, SignInv, NEW new_max_win \in MaxWins, UpdateMaxWin(new_max_win)
    PROVE  SignInv'
<1>1. /\ tx \in Tx /\ tx.row \in Row /\ tx # NoTx /\ tx.row # NoRow
      /\ UNCHANGED <<sessions, session_seq, rolls>>
  BY InCallbackType DEF UpdateMaxWin, InCallback
<1>2. PICK lost \in Int, book \in Book :
        tx' = [tx EXCEPT !.row = [tx.row EXCEPT !.last_max_win = lost],
                         !.book = book]
  BY UpdateMaxWinStep
<1>3. /\ tx'.callback = tx.callback /\ tx'.ses_id = tx.ses_id /\ tx'.seq = tx.seq
      /\ tx'.random = tx.random
      /\ tx'.row = [tx.row EXCEPT !.last_max_win = lost]
  BY <1>1, <1>2 DEF Tx
<1>4. /\ tx'.row.ses_seq = tx.row.ses_seq /\ tx'.row.casino_id = tx.row.casino_id
      /\ tx'.row.player = tx.row.player /\ tx'.row.digest = tx.row.digest
  BY <1>1, <1>3 DEF Row
<1>. QED  BY <1>1, <1>3, <1>4, CallSign

LEMMA FinishGameSign ==
    ASSUME TypeOK, SignInv, NEW player_payout \in Payouts, FinishGame(player_payout)
    PROVE  SignInv'
<1>1. /\ tx \in Tx /\ tx # NoTx
      /\ UNCHANGED <<sessions, session_seq, rolls>>
  BY InCallbackType DEF FinishGame, InCallback
<1>2. /\ tx'.callback = tx.callback /\ tx'.ses_id = tx.ses_id /\ tx'.seq = tx.seq
      /\ tx'.random = tx.random /\ tx'.row = NoRow
  BY <1>1 DEF FinishGame, Tx
<1>. QED  BY <1>1, <1>2, CallSign

LEMMA ReturnSign ==
    ASSUME TypeOK, SignInv, Return
    PROVE  SignInv'
<1>. DEFINE id == tx.ses_id
            stored == sessions[id]
<1>1. /\ tx \in Tx /\ id \in SesIds /\ tx.row \in Row \cup {NoRow}
      /\ tx.random \in Digest /\ stored \in Row \cup {NoRow}
      /\ session_seq \in Nat /\ tx # NoTx /\ rolls \subseteq Digest
      /\ sessions \in [SesIds -> Row \cup {NoRow}]
  BY DEF TypeOK, Return, Commit, Tx
<1>2. /\ sessions' = [sessions EXCEPT ![id] = tx.row] /\ session_seq' = tx.seq
      /\ rolls' = IF tx.callback = "on_random" THEN rolls \cup {tx.random} ELSE rolls
      /\ tx' = NoTx
  BY DEF Return, Commit
<1>3. Stored(sessions, session_seq, rolls) /\ Signing(tx, stored, session_seq, rolls)
  BY <1>1 DEF SignInv
<1>. HIDE DEF id, stored
<1>4. \A i \in SesIds : sessions[i] # NoRow =>
        sessions[i].ses_seq \in Nat /\ sessions[i].ses_seq < session_seq
  BY <1>1, <1>3, LengthType DEF Stored
<1>5. tx.seq \in Nat /\ tx.seq >= session_seq  BY <1>1, <1>3 DEF Signing
<1>6. ASSUME tx.row # NoRow
      PROVE  /\ tx.row.ses_seq \in Nat /\ tx.row.ses_seq < tx.seq
             /\ Numbered(tx.row) /\ Spent(rolls', tx.row)
  <2>1. tx.row \in Row /\ tx.row.ses_seq \in Nat  BY <1>1, <1>6, LengthType
  <2>2. tx.row.ses_seq < tx.seq  BY <1>1, <1>3, <1>4, <1>6 DEF Signing, stored
  <2>3. Spent(rolls', tx.row)
    <3>1. CASE tx.callback # "on_random"  BY <1>2, <1>3, <1>6, <3>1 DEF Signing
    <3>2. CASE tx.callback = "on_random"
      <4>1. /\ tx.row.digest = tx.random /\ Longer(rolls, tx.random)
            /\ Number(tx.random) = tx.row.ses_seq /\ Started(tx.row)
        BY <1>3, <1>6, <3>2 DEF Signing
      <4>2. ASSUME NEW d \in rolls', Number(d) = tx.row.ses_seq
            PROVE  Len(d.signs) <= Len(tx.row.digest.signs)
        <5>1. d \in rolls \/ d = tx.random  BY <1>2, <3>2, <4>2
        <5>2. d \in Digest  BY <1>1, <5>1
        <5>. QED  BY <1>1, <4>1, <4>2, <5>1, <5>2, LengthType DEF Longer
      <4>. QED  BY <4>1, <4>2 DEF Spent
    <3>. QED  BY <3>1, <3>2
  <2>. QED  BY <1>3, <1>6, <2>1, <2>2, <2>3 DEF Signing
<1>7. ASSUME NEW i \in SesIds, i # id, sessions[i] # NoRow
      PROVE  /\ sessions[i].ses_seq < tx.seq /\ Numbered(sessions[i])
             /\ Spent(rolls', sessions[i])
             /\ tx.row # NoRow => sessions[i].ses_seq # tx.row.ses_seq
  <2>1. sessions[i].ses_seq < tx.seq  BY <1>1, <1>4, <1>5, <1>7
  <2>2. /\ Numbered(sessions[i]) /\ Spent(rolls, sessions[i])
        /\ stored # NoRow => sessions[i].ses_seq # stored.ses_seq
    BY <1>1, <1>3, <1>7 DEF Stored, stored
  <2>3. tx.callback = "on_random" => Number(tx.random) # sessions[i].ses_seq
    BY <1>3, <2>2 DEF Signing
  <2>4. Spent(rolls', sessions[i])
    BY <1>2, <2>2, <2>3 DEF Spent
  <2>5. tx.row # NoRow => sessions[i].ses_seq # tx.row.ses_seq
    BY <1>1, <1>3, <1>4, <1>7, <2>2 DEF Signing
  <2>. QED  BY <2>1, <2>2, <2>4, <2>5
<1>8. \A d \in rolls' : Number(d) \in Nat /\ Number(d) < tx.seq
  <2>. SUFFICES ASSUME NEW d \in rolls' PROVE Number(d) \in Nat /\ Number(d) < tx.seq
    OBVIOUS
  <2>1. CASE d \in rolls  BY <1>1, <1>3, <1>5, <2>1 DEF Stored
  <2>2. CASE d \notin rolls
    <3>1. d = tx.random /\ tx.callback = "on_random"  BY <1>2, <2>2
    <3>2. stored # NoRow /\ Number(d) = stored.ses_seq  BY <1>3, <3>1 DEF Signing
    <3>3. stored.ses_seq \in Nat /\ stored.ses_seq < session_seq
      BY <1>1, <1>4, <3>2 DEF stored
    <3>. QED  BY <1>1, <1>5, <3>2, <3>3
  <2>. QED  BY <2>1, <2>2
<1>9. Stored(sessions', session_seq', rolls')
  <2>1. ASSUME NEW i \in SesIds, sessions'[i] # NoRow
        PROVE  /\ sessions'[i].ses_seq < session_seq' /\ Numbered(sessions'[i])
               /\ Spent(rolls', sessions'[i])
    BY <1>1, <1>2, <1>6, <1>7, <2>1
  <2>2. ASSUME NEW i \in SesIds, NEW j \in SesIds, i # j,
               sessions'[i] # NoRow, sessions'[j] # NoRow
        PROVE  sessions'[i].ses_seq # sessions'[j].ses_seq
    <3>1. CASE i # id /\ j # id  BY <1>1, <1>2, <1>3, <2>2, <3>1 DEF Stored
    <3>2. CASE i = id \/ j = id  BY <1>1, <1>2, <1>7, <2>2, <3>2
    <3>. QED  BY <3>1, <3>2
  <2>. QED  BY <1>2, <1>8, <2>1, <2>2 DEF Stored
<1>. QED  BY <1>2, <1>9 DEF SignInv

LEMMA CloseSign ==
    ASSUME TypeOK, SignInv, NEW id \in SesIds, Close(id)
    PROVE  SignInv'
<1>1. PICK book, rcpt : Store(id, NoRow, book, rcpt)  BY DEF Close
<1>2. tx = NoTx /\ session_seq' = session_seq  BY DEF Close, Ready
<1>. QED  BY <1>1, <1>2, StoreSign

LEMMA TickSign ==
    ASSUME TypeOK, SignInv, Tick
    PROVE  SignInv'
<1>1. /\ UNCHANGED <<session_seq, rolls>> /\ tx' = NoTx
      /\ Stored(sessions, session_seq, rolls)
  BY DEF Tick, SignInv
<1>2. ASSUME NEW id \in SesIds, sessions'[id] # NoRow
      PROVE  /\ sessions[id] # NoRow /\ sessions'[id].ses_seq = sessions[id].ses_seq
             /\ Numbered(sessions'[id]) /\ Spent(rolls, sessions'[id])
  <2>1. sessions'[id] = Older(sessions[id])  BY DEF Tick
  <2>2. sessions[id] # NoRow /\ sessions[id] \in Row  BY <1>2, <2>1 DEF Older, TypeOK
  <2>3. /\ sessions'[id].ses_seq = sessions[id].ses_seq
        /\ sessions'[id].player = sessions[id].player
        /\ sessions'[id].casino_id = sessions[id].casino_id
        /\ sessions'[id].digest = sessions[id].digest
    BY <2>1, <2>2 DEF Older, Row
  <2>4. Numbered(sessions[id]) /\ Spent(rolls, sessions[id])
    BY <1>1, <2>2 DEF Stored
  <2>. QED  BY <2>2, <2>3, <2>4, SameRow
<1>3. Stored(sessions', session_seq, rolls)  BY <1>1, <1>2 DEF Stored
<1>. QED  BY <1>1, <1>3 DEF SignInv

LEMMA SignInit == Init => SignInv
BY DEF Init, SignInv, Stored

LEMMA SignStep == LedgerInv /\ SignInv /\ [Next]_vars => SignInv'
<1>. SUFFICES ASSUME LedgerInv, SignInv, [Next]_vars PROVE SignInv'  OBVIOUS
<1>0. TypeOK  BY DEF LedgerInv
<1>1. ASSUME NEW id \in SesIds, Deposit(id) PROVE SignInv'
  BY <1>0, <1>1, DepositSign
<1>2. ASSUME NEW id \in SesIds, Start(id) PROVE SignInv'
  BY <1>2, StartSign
<1>3. ASSUME NEW id \in SesIds, Play(id) PROVE SignInv'
  BY <1>3, GameActionSign, SignidicePart1Sign, SignidicePart2Sign DEF Play
<1>4. ASSUME NEW id \in SesIds, Close(id) PROVE SignInv'
  BY <1>0, <1>4, CloseSign
<1>5. CASE Callback
  <2>1. ASSUME NEW allow_deposit \in BOOLEAN, RequireAction(allow_deposit)
        PROVE  SignInv'
    BY <1>0, <2>1, RequireSign DEF RequireAction
  <2>2. ASSUME RequireRandom PROVE SignInv'
    BY <1>0, <2>2, RequireSign DEF RequireRandom
  <2>3. ASSUME Abort PROVE SignInv'  BY <2>3 DEF Abort, SignInv
  <2>. QED  BY <1>0, <1>5, <2>1, <2>2, <2>3, UpdateMaxWinSign, FinishGameSign,
               ReturnSign DEF Callback
<1>6. CASE Environment
  <2>1. ASSUME NEW ttl \in TtlValues, InitContract(ttl) PROVE SignInv'
    BY <2>1 DEF InitContract, SignInv
  <2>2. ASSUME NEW switch \in Switches, Toggle(switch) PROVE SignInv'
    BY <2>2 DEF Toggle, SignInv
  <2>. QED  BY <1>0, <1>6, <2>1, <2>2, TickSign DEF Environment
<1>7. CASE UNCHANGED vars  BY <1>7 DEF vars, SignInv
<1>. QED  BY <1>1, <1>2, <1>3, <1>4, <1>5, <1>6, <1>7 DEF Next

(* Every digest in the contract carries the number of its own session, and only *)
(* grows.                                                                       *)
THEOREM SignidiceSound == Spec => []SignInv
<1>. QED  BY SignInit, SignStep, LedgerSound, PTL DEF Spec

(* No random value is handed to a game twice, whatever signatures anybody       *)
(* pushes again and however often a session id is reused.                       *)
THEOREM RandomIsFresh == Spec => []FreshRandom
<1>1. LedgerInv /\ SignInv => FreshRandom
  <2>. SUFFICES ASSUME LedgerInv, SignInv, tx # NoTx, tx.callback = "on_random",
                       tx.random \in rolls
                PROVE  FALSE
    BY DEF FreshRandom
  <2>1. Longer(rolls, tx.random) /\ tx.random \in Digest
    BY DEF SignInv, Signing, LedgerInv, TypeOK
  <2>2. Len(tx.random.signs) < Len(tx.random.signs)  BY <2>1 DEF Longer
  <2>. QED  BY <2>1, <2>2, LengthType
<1>. QED  BY <1>1, SignidiceSound, LedgerSound, PTL

(* No two live sessions wait for a signature over the same digest.              *)
THEOREM DigestsAreDistinct == Spec => []DigestsDistinct
<1>1. SignInv => DigestsDistinct
  <2>. SUFFICES ASSUME SignInv, NEW i \in SesIds, NEW j \in SesIds, i # j,
                       sessions[i] # NoRow, sessions[j] # NoRow,
                       Started(sessions[i]), Started(sessions[j]),
                       sessions[i].digest = sessions[j].digest
                PROVE  FALSE
    BY DEF DigestsDistinct
  <2>1. Numbered(sessions[i]) /\ Numbered(sessions[j])
         /\ sessions[i].ses_seq # sessions[j].ses_seq
    BY DEF SignInv, Stored
  <2>. QED  BY <2>1 DEF Numbered
<1>. QED  BY <1>1, SignidiceSound, PTL

-------------------------------------------------------------------------------
(* Emitting events neither adds to nor takes from what the contract does, so   *)
(* what is proved of GameContract holds with its events.                       *)

LEMMA EmitsOnlySteps ==
    ASSUME [EventsNext]_eventVars
    PROVE  [Next]_vars
<1>1. CASE UNCHANGED eventVars  BY <1>1 DEF eventVars
<1>2. ASSUME NEW id \in SesIds,
             EmitDeposit(id) \/ EmitStart(id) \/ EmitAction(id) \/ EmitClose(id)
      PROVE  Next
  BY <1>2 DEF EmitDeposit, EmitStart, EmitAction, EmitClose, Next, Play
<1>3. ASSUME NEW id \in SesIds, NEW sign \in Signatures,
             EmitPart1(id, sign) \/ EmitPart2(id, sign)
      PROVE  Next
  BY <1>3 DEF EmitPart1, EmitPart2, Next, Play
<1>4. ASSUME EmitCallback PROVE [Next]_vars
  <2>1. CASE SendGameMessage  BY <2>1 DEF SendGameMessage
  <2>2. CASE ~SendGameMessage
    <3>1. Callback
      BY <1>4, <2>2 DEF EmitCallback, EmitRequireAction, EmitRequireRandom,
         EmitUpdateMaxWin, EmitFinish, EmitReturn, EmitAbort, Callback
    <3>. QED  BY <3>1 DEF Next
  <2>. QED  BY <2>1, <2>2
<1>5. ASSUME EmitEnvironment PROVE Next
  BY <1>5 DEF EmitEnvironment, Next
<1>. QED  BY <1>1, <1>2, <1>3, <1>4, <1>5 DEF EventsNext

(* Every behaviour of the contract with its events is one of the contract.     *)
THEOREM EventsAddNothing == EventsSpec => Spec
<1>1. EventsInit => Init  BY DEF EventsInit
<1>. QED  BY <1>1, EmitsOnlySteps, PTL DEF EventsSpec, Spec

(* So no random value is handed to a game twice, under the specification the   *)
(* signidice run checks it of.                                                 *)
THEOREM RandomIsFreshWithEvents == EventsSpec => []FreshRandom
<1>. QED  BY EventsAddNothing, RandomIsFresh, PTL

(* And the contract with its events holds exactly the real deposits.           *)
THEOREM EscrowIsExactWithEvents == EventsSpec => []EscrowExact
<1>. QED  BY EventsAddNothing, EscrowIsExact, PTL

-------------------------------------------------------------------------------
(* The invariant by induction that ListenersInformed follows from.  Within a   *)
(* transaction the events emitted so far count as heard; on_new_game owes a    *)
(* request until it has left req_start, and on_random may leave the last one   *)
(* stand over a digest that will count as rolled when it returns.              *)
Underway(tr, event, rolled) ==
    CASE tr.row # NoRow /\ tr.row.state = "req_start" -> TRUE
      [] tr.row # NoRow /\ tr.row.state = "req_signidice_part_2" ->
           /\ event.type = "signidice_part_2_request"
           /\ tr.callback = "on_random" /\ tr.random = tr.row.digest
      [] OTHER -> Informed(tr.row, event, rolled)

EventsInv ==
    /\ EventsTypeOK
    /\ \A id \in SesIds : Informed(sessions[id], heard[id], rolls)
    /\ tx # NoTx => Underway(tx, Hear(heard[tx.ses_id], outbox), rolls)

-------------------------------------------------------------------------------
(* What is heard of a longer outbox.                                           *)

LEMMA HearNothing == \A known : Hear(known, <<>>) = known
BY DEF Hear

LEMMA HearLast ==
    ASSUME NEW S, NEW events \in Seq(S), NEW known,
           NEW k \in 1..Len(events), LastAsked(events, k)
    PROVE  Hear(known, events) = events[k]
<1>1. DOMAIN events = 1..Len(events) /\ Len(events) \in Nat  OBVIOUS
<1>2. ASSUME NEW l \in 1..Len(events), LastAsked(events, l) PROVE l = k
  <2>1. ~ l < k  BY <1>1, <1>2 DEF LastAsked
  <2>2. ~ k < l  BY <1>1, <1>2 DEF LastAsked
  <2>. QED  BY <1>1, <2>1, <2>2
<1>3. (CHOOSE l \in DOMAIN events : LastAsked(events, l)) = k
  BY <1>1, <1>2
<1>. QED  BY <1>1, <1>3 DEF Hear

LEMMA HearMore ==
    ASSUME NEW S, NEW events \in Seq(S), NEW event \in S, NEW known
    PROVE  Hear(known, Append(events, event)) =
             IF event.type = "game_message" THEN Hear(known, events) ELSE event
<1>. DEFINE more == Append(events, event)
            n == Len(events)
<1>1. /\ more \in Seq(S) /\ Len(more) = n + 1 /\ n \in Nat
      /\ DOMAIN events = 1..n /\ DOMAIN more = 1..(n + 1)
      /\ more[n + 1] = event
      /\ \A k \in 1..n : more[k] = events[k]
  OBVIOUS
<1>2. n = Len(events)  OBVIOUS
<1>. HIDE DEF more, n
<1>3. CASE event.type = "game_message"
  <2>1. ~LastAsked(more, n + 1)  BY <1>1, <1>3 DEF LastAsked
  <2>2. ASSUME NEW k \in 1..n, LastAsked(more, k) PROVE LastAsked(events, k)
    BY <1>1, <1>2, <2>2 DEF LastAsked
  <2>3. ASSUME NEW k \in 1..n, LastAsked(events, k) PROVE LastAsked(more, k)
    <3>1. ASSUME NEW l \in k + 1 .. n + 1 PROVE more[l].type = "game_message"
      <4>1. CASE l = n + 1  BY <1>1, <1>3, <4>1
      <4>2. CASE l # n + 1
        <5>1. l \in k + 1 .. n  BY <1>1, <4>2
        <5>2. events[l].type = "game_message"
          BY <1>2, <2>3, <5>1 DEF LastAsked
        <5>3. l \in 1..n  BY <5>1, <1>1
        <5>. QED  BY <1>1, <5>2, <5>3
      <4>. QED  BY <4>1, <4>2
    <3>2. more[k].type # "game_message"  BY <1>1, <2>3 DEF LastAsked
    <3>. QED  BY <1>1, <3>1, <3>2 DEF LastAsked
  <2>4. CASE \E k \in 1..n : LastAsked(events, k)
    <3>1. PICK k \in 1..n : LastAsked(events, k)  BY <2>4
    <3>2. Hear(known, events) = events[k]  BY <1>2, <3>1, HearLast
    <3>3. LastAsked(more, k) /\ k \in 1..Len(more)  BY <1>1, <2>3, <3>1
    <3>4. Hear(known, more) = more[k]  BY <1>1, <3>3, HearLast
    <3>. QED  BY <1>1, <1>3, <3>2, <3>4 DEF more
  <2>5. CASE ~\E k \in 1..n : LastAsked(events, k)
    <3>1. Hear(known, events) = known  BY <1>1, <2>5 DEF Hear
    <3>2. ~\E k \in 1..(n + 1) : LastAsked(more, k)
      BY <1>1, <2>1, <2>2, <2>5
    <3>3. Hear(known, more) = known  BY <1>1, <3>2 DEF Hear
    <3>. QED  BY <1>3, <3>1, <3>3 DEF more
  <2>. QED  BY <2>4, <2>5
<1>4. CASE event.type # "game_message"
  <2>1. LastAsked(more, n + 1)  BY <1>1, <1>4 DEF LastAsked
  <2>2. Hear(known, more) = more[n + 1]  BY <1>1, <2>1, HearLast
  <2>. QED  BY <1>1, <1>4, <2>2 DEF more
<1>. QED  BY <1>3, <1>4

LEMMA HearOne ==
    ASSUME NEW event, NEW known, event.type # "game_message"
    PROVE  Hear(known, <<event>>) = event
<1>1. <<>> \in Seq({event}) /\ Append(<<>>, event) = <<event>>  OBVIOUS
<1>. QED  BY <1>1, HearMore

LEMMA HearType ==
    ASSUME NEW known \in EventRecord, NEW events \in Seq(EventRecord)
    PROVE  Hear(known, events) \in EventRecord
BY DEF Hear

-------------------------------------------------------------------------------
(* The events, and what they tell.                                             *)

LEMMA EventType ==
    ASSUME NEW type \in Types, NEW digest \in Digest, NEW need \in BOOLEAN
    PROVE  /\ Event(type, digest, need) \in EventRecord
           /\ Event(type, digest, need).type = type
           /\ Event(type, digest, need).need_deposit = need
BY DEF Event, EventRecord

LEMMA PlainEvent ==
    ASSUME NEW type \in Types, NEW digest \in Digest
    PROVE  /\ Event(type, digest, FALSE) \in EventRecord
           /\ Event(type, digest, FALSE).type = type
<1>1. FALSE \in BOOLEAN  OBVIOUS
<1>. QED  BY <1>1, EventType

LEMMA NamedEvents ==
    /\ game_started \in EventRecord /\ game_started.type = "game_started"
    /\ game_finished \in EventRecord /\ game_finished.type = "game_finished"
    /\ game_failed \in EventRecord /\ game_failed.type = "game_failed"
    /\ game_message \in EventRecord /\ game_message.type = "game_message"
    /\ Silence \in EventRecord /\ Silence.type = "none"
    /\ \A d \in Digest :
         /\ signidice_part_1_request(d) \in EventRecord
         /\ signidice_part_1_request(d).type = "signidice_part_1_request"
         /\ signidice_part_2_request(d) \in EventRecord
         /\ signidice_part_2_request(d).type = "signidice_part_2_request"
<1>1. \A type \in Types : /\ Event(type, NoDigest, FALSE) \in EventRecord
                          /\ Event(type, NoDigest, FALSE).type = type
  BY PlainEvent, NoDigestType
<1>2. \A d \in Digest, type \in Types : /\ Event(type, d, FALSE) \in EventRecord
                                       /\ Event(type, d, FALSE).type = type
  BY PlainEvent
<1>. QED  BY <1>1, <1>2 DEF game_started, game_finished, game_failed, game_message,
             Silence, signidice_part_1_request, signidice_part_2_request, Types

(* What a session was told stays told while its state, its digest and the      *)
(* player's having moved stay.                                                 *)
LEMMA StaysInformed ==
    ASSUME NEW row \in Row, NEW new \in Row, NEW event, NEW rolled, NEW more,
           rolled \subseteq more, new.state = row.state,
           new.digest = row.digest, new.acted = row.acted,
           Informed(row, event, rolled)
    PROVE  Informed(new, event, more)
<1>1. row # NoRow /\ new # NoRow  BY NoRowIsNoRow
<1>2. Started(row) <=> Started(new)  BY DEF Started
<1>3. CASE ~Started(row)  BY <1>1, <1>2, <1>3 DEF Informed
<1>4. CASE Started(row) /\ row.state = "req_signidice_part_1"
  BY <1>1, <1>2, <1>4 DEF Informed
<1>5. CASE Started(row) /\ row.state = "req_signidice_part_2"
  BY <1>1, <1>2, <1>5 DEF Informed
<1>6. CASE Started(row) /\ row.state = "req_allow_deposit"
  BY <1>1, <1>2, <1>6 DEF Informed
<1>7. CASE Started(row) /\ row.state \in {"req_start", "req_action"}
  BY <1>1, <1>2, <1>7 DEF Informed
<1>. QED  BY <1>3, <1>4, <1>5, <1>6, <1>7 DEF Row, States

(* A step that stores one row and tells of it keeps everyone informed.         *)
LEMMA StoreInforms ==
    ASSUME LedgerInv, EventsInv, tx = NoTx, NEW id \in SesIds, NEW row, NEW book,
           NEW rcpt, NEW events \in Seq(EventRecord),
           Store(id, row, book, rcpt), Sent(id, events),
           Informed(row, Hear(heard[id], events), rolls)
    PROVE  EventsInv'
<1>1. /\ sessions' = [sessions EXCEPT ![id] = row] /\ UNCHANGED <<rolls, tx, outbox>>
      /\ heard' = [heard EXCEPT ![id] = Hear(heard[id], events)]
      /\ DOMAIN sessions = SesIds /\ heard \in [SesIds -> EventRecord]
  BY DEF Store, Sent, LedgerInv, TypeOK, EventsInv, EventsTypeOK
<1>2. Hear(heard[id], events) \in EventRecord  BY <1>1, HearType
<1>3. EventsTypeOK'  BY <1>1, <1>2 DEF EventsInv, EventsTypeOK
<1>4. \A i \in SesIds : Informed(sessions'[i], heard'[i], rolls')
  BY <1>1 DEF EventsInv
<1>. QED  BY <1>1, <1>3, <1>4 DEF EventsInv

(* A step that opens a transaction or works on one leaves the stored sessions  *)
(* informed.                                                                   *)
LEMMA TxInforms ==
    ASSUME EventsInv, UNCHANGED <<sessions, rolls, heard>>,
           outbox' \in Seq(EventRecord),
           tx' # NoTx => Underway(tx', Hear(heard[tx'.ses_id], outbox'), rolls)
    PROVE  EventsInv'
<1>1. EventsTypeOK'  BY DEF EventsInv, EventsTypeOK
<1>. QED  BY <1>1 DEF EventsInv

-------------------------------------------------------------------------------
(* The steps.                                                                  *)

LEMMA DepositInforms ==
    ASSUME LedgerInv, LedgerInv', EventsInv, NEW id \in SesIds, EmitDeposit(id)
    PROVE  EventsInv'
<1>1. Sent(id, <<>>) /\ Hear(heard[id], <<>>) = heard[id]
      /\ Informed(sessions[id], heard[id], rolls)
      /\ <<>> \in Seq(EventRecord)
  BY HearNothing DEF EmitDeposit, EventsInv
<1>2. ASSUME NEW from, NEW quantity, NEW token,
             OnTransferNew(id, from, quantity, token), tx = NoTx
      PROVE  EventsInv'
  <2>1. PICK row \in CreateSession(session_seq, from, token, quantity) :
          Store(id, row, NotifyNewRealDeposit(Received(books[id], token, quantity),
                                              row.casino_id, quantity), NoReceipt)
    BY <1>2 DEF OnTransferNew
  <2>2. row.digest = NoDigest /\ sessions[id] = NoRow
    BY <1>2, <2>1 DEF CreateSession, OnTransferNew
  <2>3. Informed(row, heard[id], rolls)
    BY <1>1, <2>2 DEF Informed, Started
  <2>. QED  BY <1>1, <1>2, <2>1, <2>3, StoreInforms
<1>3. ASSUME NEW new \in Row, NEW book, sessions[id] \in Row, tx = NoTx,
             Store(id, new, book, NoReceipt), new.state = sessions[id].state,
             new.digest = sessions[id].digest, new.acted = sessions[id].acted
      PROVE  EventsInv'
  <2>1. Informed(new, heard[id], rolls)  BY <1>1, <1>3, StaysInformed
  <2>. QED  BY <1>1, <1>3, <2>1, StoreInforms
<1>4. ASSUME NEW from \in Players, NEW quantity \in Quantities,
             (\E token \in Tokens : OnTransferExtra(id, from, quantity, token))
               \/ DepositBonus(id, from, quantity), tx = NoTx
      PROVE  EventsInv'
  <2>. DEFINE row == sessions[id]
              new == HandleExtraDeposit(row, quantity)
              bon == [new EXCEPT !.bonus_deposit = @ + quantity]
  <2>1. row \in Row /\ quantity \in Nat /\ quantity > 0
    BY <1>4, SetsAssumption DEF OnTransferExtra, DepositBonus, LedgerInv, TypeOK
  <2>. HIDE DEF row
  <2>5. row.deposit + quantity \in Nat \ {0} /\ row.bonus_deposit + quantity \in Nat
    BY <2>1 DEF Row
  <2>2. /\ new \in Row /\ new.state = row.state
        /\ new.digest = row.digest /\ new.acted = row.acted
        /\ new.bonus_deposit = row.bonus_deposit
    BY <2>1, <2>5 DEF HandleExtraDeposit, Row
  <2>. HIDE DEF new
  <2>3. /\ bon \in Row /\ bon.state = row.state
        /\ bon.digest = row.digest /\ bon.acted = row.acted
    BY <2>1, <2>2, <2>5 DEF Row
  <2>. HIDE DEF bon
  <2>4. \E book : Store(id, new, book, NoReceipt) \/ Store(id, bon, book, NoReceipt)
    BY <1>4 DEF OnTransferExtra, DepositBonus, new, bon, row
  <2>. QED  BY <1>3, <1>4, <2>1, <2>2, <2>3, <2>4 DEF row
<1>5. tx = NoTx /\ Deposit(id)
  BY DEF EmitDeposit, Deposit, OnTransfer, DepositBonus, Ready
<1>. QED  BY <1>2, <1>4, <1>5 DEF Deposit, OnTransfer

LEMMA StartInforms ==
    ASSUME LedgerInv, LedgerInv', EventsInv, NEW id \in SesIds, EmitStart(id)
    PROVE  EventsInv'
<1>1. Start(id) /\ outbox' = <<game_started>> /\ UNCHANGED heard
  BY DEF EmitStart, Opening
<1>2. \A casino_id, row, book, seq : NewGameInternal(id, casino_id, row, book, seq)
        => /\ tx'.row.state = "req_start"
           /\ UNCHANGED <<sessions, rolls>>
  <2>. TAKE casino_id, row, book, seq
  <2>. HAVE NewGameInternal(id, casino_id, row, book, seq)
  <2>1. row.state = "req_start" /\ UNCHANGED <<sessions, rolls>>
        /\ tx'.row = [row EXCEPT !.idle = 0, !.casino_id = casino_id,
                         !.digest = calc_seed(casino_id, row.ses_seq, row.player)]
    BY DEF NewGameInternal, Begin
  <2>2. tx'.row.state = row.state  BY <2>1
  <2>. QED  BY <2>1, <2>2
<1>3. tx'.row.state = "req_start" /\ UNCHANGED <<sessions, rolls>>
  BY <1>1, <1>2, Zenon DEF Start, NewGame, NewGameBonus
<1>4. game_started \in EventRecord
  BY NamedEvents
<1>5. outbox' \in Seq(EventRecord)  BY <1>1, <1>4
<1>6. tx'.row # NoRow  BY <1>3 DEF NoRow
<1>7. Underway(tx', Hear(heard[tx'.ses_id], outbox'), rolls)
  BY <1>3, <1>6 DEF Underway
<1>. QED  BY <1>1, <1>3, <1>5, <1>7, TxInforms

LEMMA ActionInforms ==
    ASSUME LedgerInv, LedgerInv', EventsInv, NEW id \in SesIds, EmitAction(id)
    PROVE  EventsInv'
<1>. DEFINE row == sessions[id]
            new == [row EXCEPT !.idle = 0, !.state = "req_action", !.acted = TRUE]
<1>1. /\ row \in Row /\ row # NoRow /\ GameAction(id)
      /\ row.state \in {"req_action", "req_allow_deposit"}
      /\ UNCHANGED <<sessions, rolls, heard>> /\ outbox' = <<>>
      /\ tx'.ses_id = id /\ tx'.row = new
  BY DEF EmitAction, Opening, GameAction, Begin, LedgerInv, TypeOK
<1>2. Started(row) /\ Informed(row, heard[id], rolls)
  BY <1>1 DEF LedgerInv, Sound, EventsInv
<1>3. new \in Row /\ new.state = "req_action" /\ new.acted
      /\ new.digest = row.digest
  BY <1>1 DEF Row, States
<1>4. Started(new) /\ new # NoRow  BY <1>2, <1>3, NoRowIsNoRow DEF Started
<1>5. heard[id].type = "action_request"
  <2>1. action_request(TRUE).type = "action_request"  BY DEF action_request, Event
  <2>. QED  BY <1>1, <1>2, <2>1 DEF Informed
<1>. HIDE DEF new
<1>6. Informed(new, heard[id], rolls)  BY <1>3, <1>4, <1>5 DEF Informed
<1>7. Hear(heard[id], <<>>) = heard[id]  BY HearNothing
<1>8. Underway(tx', Hear(heard[tx'.ses_id], outbox'), rolls)
  BY <1>1, <1>3, <1>6, <1>7 DEF Underway
<1>. QED  BY <1>1, <1>8, TxInforms

LEMMA Part1Informs ==
    ASSUME LedgerInv, LedgerInv', EventsInv, NEW id \in SesIds,
           NEW sign \in Signatures, EmitPart1(id, sign)
    PROVE  EventsInv'
<1>. DEFINE row == sessions[id]
            new == [row EXCEPT !.digest = Sha256(sign), !.idle = 0,
                               !.state = "req_signidice_part_2"]
            event == signidice_part_2_request(Sha256(sign))
<1>1. /\ tx = NoTx /\ row \in Row /\ RsaVerify(row.digest, sign, PlatformKey)
      /\ Store(id, new, books[id], NoReceipt) /\ Sent(id, <<event>>)
      /\ sessions \in [SesIds -> Row \cup {NoRow}]
  BY DEF EmitPart1, SignidicePart1, Ready, LedgerInv, TypeOK
<1>2. Sha256(sign) \in Digest /\ Sha256(sign) # NoDigest
  BY <1>1, SignedType, SignedStarted DEF LedgerInv
<1>3. new.state = "req_signidice_part_2" /\ new.digest = Sha256(sign)
  BY <1>1 DEF Row
<1>4. event \in EventRecord /\ event.type = "signidice_part_2_request"
  BY <1>2, NamedEvents
<1>5. Started(new) /\ new # NoRow  BY <1>2, <1>3 DEF Started, NoRow
<1>6. event = signidice_part_2_request(new.digest)  BY <1>3
<1>. HIDE DEF new, event
<1>7. Informed(new, event, rolls)  BY <1>3, <1>5, <1>6 DEF Informed
<1>8. Hear(heard[id], <<event>>) = event  BY <1>4, HearOne
<1>9. <<event>> \in Seq(EventRecord)  BY <1>4
<1>. QED  BY <1>1, <1>7, <1>8, <1>9, StoreInforms

LEMMA Part2Informs ==
    ASSUME LedgerInv, LedgerInv', EventsInv, NEW id \in SesIds,
           NEW sign \in Signatures, EmitPart2(id, sign)
    PROVE  EventsInv'
<1>. DEFINE row == sessions[id]
            new == [row EXCEPT !.digest = Sha256(sign), !.idle = 0]
<1>1. /\ row \in Row /\ row # NoRow /\ row.state = "req_signidice_part_2"
      /\ UNCHANGED <<sessions, rolls, heard>> /\ outbox' = <<>>
      /\ tx'.ses_id = id /\ tx'.row = new /\ tx'.callback = "on_random"
      /\ tx'.random = Sha256(sign)
  BY DEF EmitPart2, Opening, SignidicePart2, Begin, LedgerInv, TypeOK
<1>2. Started(row) /\ Informed(row, heard[id], rolls)
  BY <1>1 DEF LedgerInv, Sound, EventsInv
<1>3. new.state = "req_signidice_part_2" /\ new.digest = Sha256(sign)
  BY <1>1 DEF Row
<1>4. heard[id].type = "signidice_part_2_request"
  <2>1. signidice_part_2_request(row.digest).type = "signidice_part_2_request"
    BY DEF signidice_part_2_request, Event
  <2>. QED  BY <1>1, <1>2, <2>1 DEF Informed
<1>5. new # NoRow  BY <1>3 DEF NoRow
<1>. HIDE DEF new
<1>6. Hear(heard[id], <<>>) = heard[id]  BY HearNothing
<1>7. Underway(tx', Hear(heard[tx'.ses_id], outbox'), rolls)
  BY <1>1, <1>3, <1>4, <1>5, <1>6 DEF Underway
<1>. QED  BY <1>1, <1>7, TxInforms

-------------------------------------------------------------------------------
(* The calls of a game.                                                        *)

LEMMA EmitOutbox ==
    ASSUME EventsInv, NEW event \in EventRecord, Emit(event)
    PROVE  /\ outbox \in Seq(EventRecord) /\ outbox' \in Seq(EventRecord)
           /\ UNCHANGED heard
           /\ \A known : Hear(known, outbox') =
                IF event.type = "game_message" THEN Hear(known, outbox) ELSE event
<1>1. outbox \in Seq(EventRecord) /\ outbox' = Append(outbox, event)
  BY DEF EventsInv, EventsTypeOK, Emit
<1>. QED  BY <1>1, HearMore DEF Emit

(* A call that says what it leaves the session waiting for.                    *)
LEMMA CallInforms ==
    ASSUME EventsInv, UNCHANGED <<sessions, rolls>>, NEW event \in EventRecord,
           Emit(event), event.type # "game_message",
           tx'.row # NoRow => tx'.row.state # "req_signidice_part_2",
           Informed(tx'.row, event, rolls)
    PROVE  EventsInv'
<1>1. /\ outbox' \in Seq(EventRecord) /\ UNCHANGED heard
      /\ Hear(heard[tx'.ses_id], outbox') = event
  BY EmitOutbox
<1>2. Underway(tx', event, rolls)  BY DEF Underway
<1>. QED  BY <1>1, <1>2, TxInforms

LEMMA RequireActionInforms ==
    ASSUME LedgerInv, LedgerInv', EventsInv, NEW allow_deposit \in BOOLEAN,
           EmitRequireAction(allow_deposit)
    PROVE  EventsInv'
<1>. DEFINE event == action_request(allow_deposit)
            state == IF allow_deposit THEN "req_allow_deposit" ELSE "req_action"
<1>1. /\ InCallback /\ Emit(event) /\ UNCHANGED <<sessions, rolls>>
      /\ tx' = [tx EXCEPT !.row.state = state]
  BY DEF EmitRequireAction, RequireAction
<1>2. tx \in Tx /\ tx.row \in Row /\ Started(tx.row)  BY <1>1, InCallbackSound
<1>3. /\ event \in EventRecord /\ event.type = "action_request"
      /\ event.need_deposit = allow_deposit
  BY EventType, NoDigestType DEF action_request, Types
<1>4. tx'.row.state = state /\ tx'.row.digest = tx.row.digest
  BY <1>1, <1>2 DEF Tx, Row
<1>5. tx'.row # NoRow /\ Started(tx'.row)  BY <1>2, <1>4 DEF Started, NoRow
<1>6. CASE allow_deposit
  <2>1. event = action_request(TRUE)  BY <1>6
  <2>2. tx'.row.state = "req_allow_deposit"  BY <1>4, <1>6
  <2>3. Informed(tx'.row, event, rolls)
    BY <1>5, <2>1, <2>2 DEF Informed
  <2>. QED  BY <1>1, <1>3, <2>2, <2>3, CallInforms
<1>7. CASE ~allow_deposit
  <2>1. tx'.row.state = "req_action"  BY <1>4, <1>7
  <2>2. Informed(tx'.row, event, rolls)  BY <1>3, <1>5, <1>7, <2>1 DEF Informed
  <2>. QED  BY <1>1, <1>3, <2>1, <2>2, CallInforms
<1>. QED  BY <1>6, <1>7

LEMMA RequireRandomInforms ==
    ASSUME LedgerInv, LedgerInv', EventsInv, EmitRequireRandom
    PROVE  EventsInv'
<1>. DEFINE event == signidice_part_1_request(tx.row.digest)
<1>1. /\ InCallback /\ Emit(event) /\ UNCHANGED <<sessions, rolls>>
      /\ tx' = [tx EXCEPT !.row.state = "req_signidice_part_1"]
  BY DEF EmitRequireRandom, RequireRandom
<1>2. tx \in Tx /\ tx.row \in Row /\ Started(tx.row)  BY <1>1, InCallbackSound
<1>3. event \in EventRecord /\ event.type = "signidice_part_1_request"
  BY <1>2, NamedEvents DEF Row
<1>4. tx'.row.state = "req_signidice_part_1" /\ tx'.row.digest = tx.row.digest
  BY <1>1, <1>2 DEF Tx, Row
<1>5. tx'.row # NoRow /\ Started(tx'.row)  BY <1>2, <1>4 DEF Started, NoRow
<1>6. Informed(tx'.row, event, rolls)  BY <1>4, <1>5 DEF Informed
<1>. QED  BY <1>1, <1>3, <1>4, <1>6, CallInforms

LEMMA FinishInforms ==
    ASSUME LedgerInv, LedgerInv', EventsInv, NEW player_payout,
           EmitFinish(player_payout)
    PROVE  EventsInv'
<1>1. InCallback /\ Emit(game_finished) /\ UNCHANGED <<sessions, rolls>>
  BY DEF EmitFinish, FinishGame
<1>2. tx \in Tx  BY <1>1, InCallbackSound
<1>3. tx'.row = NoRow  BY <1>2 DEF EmitFinish, FinishGame, Tx
<1>4. game_finished \in EventRecord /\ game_finished.type = "game_finished"
  BY NamedEvents
<1>5. Informed(tx'.row, game_finished, rolls)  BY <1>3, <1>4 DEF Informed
<1>. QED  BY <1>1, <1>3, <1>4, <1>5, CallInforms

LEMMA MessageInforms ==
    ASSUME LedgerInv, EventsInv, SendGameMessage
    PROVE  EventsInv'
<1>1. game_message \in EventRecord /\ game_message.type = "game_message"
  BY NamedEvents
<1>2. /\ Emit(game_message) /\ UNCHANGED <<sessions, rolls, tx>> /\ tx # NoTx
  BY DEF SendGameMessage, vars, InCallback
<1>3. /\ outbox' \in Seq(EventRecord) /\ UNCHANGED heard
      /\ Hear(heard[tx.ses_id], outbox') = Hear(heard[tx.ses_id], outbox)
  BY <1>1, <1>2, EmitOutbox
<1>. QED  BY <1>2, <1>3, TxInforms DEF EventsInv

(* The callback returns: what was emitted is heard, and the random value it    *)
(* was given counts as rolled.                                                 *)
LEMMA ReturnInforms ==
    ASSUME LedgerInv, EventsInv, EmitReturn
    PROVE  EventsInv'
<1>. DEFINE i == tx.ses_id
            event == Hear(heard[i], outbox)
<1>1. /\ tx # NoTx /\ tx \in Tx /\ i \in SesIds /\ tx' = NoTx /\ outbox' = <<>>
      /\ sessions' = [sessions EXCEPT ![i] = tx.row]
      /\ heard' = [heard EXCEPT ![i] = event]
      /\ rolls' = IF tx.callback = "on_random" THEN rolls \cup {tx.random} ELSE rolls
      /\ sessions \in [SesIds -> Row \cup {NoRow}]
      /\ heard \in [SesIds -> EventRecord] /\ outbox \in Seq(EventRecord)
      /\ tx.callback = "on_new_game" /\ tx.row # NoRow => tx.row.state # "req_start"
      /\ tx.row # NoRow => /\ Started(tx.row)
                           /\ tx.row.state = "req_start" => tx.callback = "on_new_game"
  BY DEF EmitReturn, Return, Commit, LedgerInv, TypeOK, EventsInv, EventsTypeOK, Tx
<1>2. event \in EventRecord  BY <1>1, HearType
<1>3. <<>> \in Seq(EventRecord)  OBVIOUS
<1>4. EventsTypeOK'  BY <1>1, <1>2, <1>3 DEF EventsTypeOK
<1>5. Underway(tx, event, rolls)  BY <1>1 DEF EventsInv
<1>. HIDE DEF event
<1>6. rolls \subseteq rolls'  BY <1>1
<1>7. Informed(tx.row, event, rolls')
  <2>1. CASE tx.row = NoRow  BY <1>5, <2>1 DEF Underway, Informed
  <2>2. CASE tx.row # NoRow /\ tx.row.state = "req_signidice_part_2"
    <3>1. /\ event.type = "signidice_part_2_request"
          /\ tx.callback = "on_random" /\ tx.random = tx.row.digest
      BY <1>5, <2>2 DEF Underway
    <3>2. tx.row.digest \in rolls'  BY <1>1, <3>1
    <3>. QED  BY <1>1, <2>2, <3>1, <3>2 DEF Informed
  <2>3. CASE tx.row # NoRow /\ tx.row.state # "req_signidice_part_2"
    <3>1. tx.row \in Row /\ tx.row.state # "req_start"  BY <1>1, <2>3 DEF Tx
    <3>2. Informed(tx.row, event, rolls)  BY <1>5, <2>3, <3>1 DEF Underway
    <3>. QED  BY <1>6, <3>1, <3>2, StaysInformed
  <2>. QED  BY <2>1, <2>2, <2>3
<1>8. ASSUME NEW k \in SesIds PROVE Informed(sessions'[k], heard'[k], rolls')
  <2>1. CASE k = i  BY <1>1, <1>7, <2>1
  <2>2. CASE k # i
    <3>1. sessions'[k] = sessions[k] /\ heard'[k] = heard[k]  BY <1>1, <2>2
    <3>2. Informed(sessions[k], heard[k], rolls)  BY DEF EventsInv
    <3>3. CASE sessions[k] = NoRow  BY <3>1, <3>2, <3>3 DEF Informed
    <3>4. CASE sessions[k] # NoRow
      <4>1. sessions[k] \in Row  BY <1>1, <3>4
      <4>. QED  BY <1>6, <3>1, <3>2, <4>1, StaysInformed
    <3>. QED  BY <3>3, <3>4
  <2>. QED  BY <2>1, <2>2
<1>. QED  BY <1>1, <1>4, <1>8 DEF EventsInv

LEMMA CloseInforms ==
    ASSUME LedgerInv, EventsInv, NEW id \in SesIds, EmitClose(id)
    PROVE  EventsInv'
<1>. DEFINE row == sessions[id]
            events == Failed(row)
<1>1. /\ tx = NoTx /\ row \in Row /\ row # NoRow /\ Sent(id, events)
      /\ \E book, rcpt : Store(id, NoRow, book, rcpt)
      /\ Informed(row, heard[id], rolls)
  BY DEF EmitClose, Close, Ready, LedgerInv, TypeOK, EventsInv
<1>2. Informed(NoRow, Hear(heard[id], events), rolls) /\ events \in Seq(EventRecord)
  <2>1. CASE row.state = "req_start"
    <3>1. ~Started(row)  BY <1>1, <2>1 DEF LedgerInv
    <3>2. events = <<>> /\ Hear(heard[id], <<>>) = heard[id]
      BY <2>1, HearNothing DEF Failed
    <3>. QED  BY <1>1, <3>1, <3>2 DEF Informed
  <2>2. CASE row.state # "req_start"
    <3>1. events = <<game_failed>>  BY <2>2 DEF Failed
    <3>2. game_failed \in EventRecord /\ game_failed.type = "game_failed"
      BY NamedEvents
    <3>3. Hear(heard[id], events) = game_failed  BY <3>1, <3>2, HearOne
    <3>. QED  BY <3>1, <3>2, <3>3 DEF Informed
  <2>. QED  BY <2>1, <2>2
<1>. HIDE DEF events
<1>. QED  BY <1>1, <1>2, StoreInforms

LEMMA EnvironmentInforms ==
    ASSUME LedgerInv, EventsInv, EmitEnvironment
    PROVE  EventsInv'
<1>1. UNCHANGED <<outbox, heard, rolls>> /\ tx = NoTx /\ tx' = NoTx
  BY DEF EmitEnvironment, Environment, InitContract, Toggle, Tick
<1>2. EventsTypeOK'  BY <1>1 DEF EventsInv, EventsTypeOK
<1>3. CASE UNCHANGED sessions  BY <1>1, <1>2, <1>3 DEF EventsInv
<1>4. CASE Tick
  <2>1. ASSUME NEW id \in SesIds PROVE Informed(sessions'[id], heard[id], rolls)
    <3>1. sessions'[id] = Older(sessions[id])  BY <1>4 DEF Tick
    <3>2. Informed(sessions[id], heard[id], rolls)  BY DEF EventsInv
    <3>3. CASE sessions[id] = NoRow  BY <3>1, <3>2, <3>3 DEF Older
    <3>4. CASE sessions[id] # NoRow
      <4>1. sessions[id] \in Row  BY <3>4 DEF LedgerInv, TypeOK
      <4>2. PICK n \in Nat : Older(sessions[id]) = [sessions[id] EXCEPT !.idle = n]
        <5>1. /\ sessions[id].idle \in Nat
              /\ sessions[id].idle + 1 \in Nat
          BY <4>1 DEF Row
        <5>. QED  BY <3>4, <5>1 DEF Older
      <4>. DEFINE new == [sessions[id] EXCEPT !.idle = n]
      <4>3. /\ new \in Row /\ new.state = sessions[id].state
            /\ new.digest = sessions[id].digest /\ new.acted = sessions[id].acted
        BY <4>1 DEF Row
      <4>. HIDE DEF new
      <4>4. Informed(new, heard[id], rolls)  BY <3>2, <4>1, <4>3, StaysInformed
      <4>. QED  BY <3>1, <4>2, <4>4 DEF new
    <3>. QED  BY <3>3, <3>4
  <2>. QED  BY <1>1, <1>2, <2>1 DEF EventsInv
<1>. QED  BY <1>3, <1>4 DEF EmitEnvironment, Environment, InitContract, Toggle

-------------------------------------------------------------------------------
LEMMA EventsStart == EventsInit => EventsInv
<1>. SUFFICES ASSUME EventsInit PROVE EventsInv  OBVIOUS
<1>1. /\ outbox = <<>> /\ heard = [id \in SesIds |-> Silence]
      /\ sessions = [id \in SesIds |-> NoRow] /\ tx = NoTx
  BY DEF EventsInit, Init
<1>2. EventsTypeOK  BY <1>1, NamedEvents DEF EventsTypeOK
<1>3. \A id \in SesIds : Informed(sessions[id], heard[id], rolls)
  BY <1>1, NamedEvents DEF Informed
<1>. QED  BY <1>1, <1>2, <1>3 DEF EventsInv

LEMMA EventsStep ==
    ASSUME LedgerInv, LedgerInv', EventsInv, [EventsNext]_eventVars
    PROVE  EventsInv'
<1>1. CASE UNCHANGED eventVars
  BY <1>1 DEF eventVars, vars, EventsInv, EventsTypeOK
<1>2. ASSUME NEW id \in SesIds,
             EmitDeposit(id) \/ EmitStart(id) \/ EmitAction(id) \/ EmitClose(id)
      PROVE  EventsInv'
  BY <1>2, DepositInforms, StartInforms, ActionInforms, CloseInforms
<1>3. ASSUME NEW id \in SesIds, NEW sign \in Signatures,
             EmitPart1(id, sign) \/ EmitPart2(id, sign)
      PROVE  EventsInv'
  BY <1>3, Part1Informs, Part2Informs
<1>4. ASSUME EmitCallback PROVE EventsInv'
  <2>1. ASSUME NEW new_max_win \in MaxWins, EmitUpdateMaxWin(new_max_win)
        PROVE  EventsInv'
    <3>1. InCallback /\ UNCHANGED <<outbox, heard, sessions, rolls>>
          /\ tx \in Tx /\ tx.row \in Row /\ Started(tx.row)
      BY <2>1, InCallbackSound DEF EmitUpdateMaxWin, UpdateMaxWin
    <3>2. PICK lost, book :
            tx' = [tx EXCEPT !.row.last_max_win = lost, !.book = book]
      BY <2>1 DEF EmitUpdateMaxWin, UpdateMaxWin
    <3>3. tx.row.state \in {"req_action", "req_allow_deposit"}
      BY <2>1 DEF EmitUpdateMaxWin, UpdateMaxWin, CanUpdateMaxWin
    <3>4. /\ tx'.row.state = tx.row.state /\ tx'.row.digest = tx.row.digest
          /\ tx'.row.acted = tx.row.acted /\ tx'.ses_id = tx.ses_id
      BY <3>1, <3>2 DEF Tx, Row
    <3>5. tx # NoTx /\ tx.row # NoRow  BY <3>1, NoRowIsNoRow DEF InCallback
    <3>6. Informed(tx.row, Hear(heard[tx.ses_id], outbox), rolls)
      BY <3>3, <3>5 DEF EventsInv, Underway
    <3>7. tx'.row \in Row
      <4>1. tx' # NoTx  BY <3>2, <3>1 DEF NoTx, Tx
      <4>2. tx' \in Tx  BY <4>1 DEF LedgerInv, TypeOK
      <4>3. tx'.row # NoRow  BY <3>3, <3>4 DEF NoRow
      <4>. QED  BY <4>2, <4>3 DEF Tx
    <3>8. Informed(tx'.row, Hear(heard[tx'.ses_id], outbox'), rolls)
      BY <3>1, <3>4, <3>6, <3>7, StaysInformed
    <3>9. Underway(tx', Hear(heard[tx'.ses_id], outbox'), rolls)
      BY <3>3, <3>4, <3>8 DEF Underway
    <3>10. outbox' \in Seq(EventRecord)
      BY <3>1 DEF EventsInv, EventsTypeOK
    <3>. QED  BY <3>1, <3>9, <3>10, TxInforms
  <2>2. ASSUME EmitAbort PROVE EventsInv'
    <3>1. /\ tx' = NoTx /\ outbox' = <<>> /\ UNCHANGED <<sessions, rolls, heard>>
      BY <2>2 DEF EmitAbort, Abort, Opening
    <3>. QED  BY <3>1, TxInforms
  <2>. QED  BY <1>4, <2>1, <2>2, RequireActionInforms, RequireRandomInforms,
               FinishInforms, MessageInforms, ReturnInforms DEF EmitCallback
<1>5. CASE EmitEnvironment  BY <1>5, EnvironmentInforms
<1>. QED  BY <1>1, <1>2, <1>3, <1>4, <1>5 DEF EventsNext

(* A service that follows the events alone knows of every session whether it   *)
(* is over, else whom the contract waits for and over which digest: of any     *)
(* number of sessions, events and signatures, and whatever the game emits.     *)
THEOREM ListenersAreInformed == EventsSpec => []ListenersInformed
<1>. DEFINE Inv == LedgerInv /\ EventsInv
<1>1. EventsInit => Inv  BY LedgerInit, EventsStart DEF EventsInit
<1>2. Inv /\ [EventsNext]_eventVars => Inv'
  <2>. SUFFICES ASSUME Inv, [EventsNext]_eventVars PROVE Inv'  OBVIOUS
  <2>1. LedgerInv'  BY EmitsOnlySteps, LedgerStep
  <2>. QED  BY <2>1, EventsStep
<1>3. Inv => ListenersInformed  BY DEF EventsInv, ListenersInformed
<1>. QED  BY <1>1, <1>2, <1>3, PTL DEF EventsSpec
===============================================================================

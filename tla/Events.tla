-------------------------------- MODULE Events --------------------------------
(* The events of the game contract (emit_event, game_base.hpp).  They are      *)
(* inline actions to the events contract, so they are sent with their          *)
(* transaction or not at all, in the order they were emitted.  They are all    *)
(* that the platform's and the casino's signidice services and the player's    *)
(* client have to tell whose turn it is.                                       *)
EXTENDS GameContract

CONSTANT MaxEvents      \* bound: events of one transaction

VARIABLES
    outbox,     \* the events of the running transaction
    heard       \* ses_id -> what a service that follows the events last heard

eventVars == <<vars, outbox, heard>>

-------------------------------------------------------------------------------
(* A digest is NoDigest where an event carries none, allow_deposit FALSE.      *)
Event(type, digest, allow_deposit) ==
    [type |-> type, digest |-> digest, need_deposit |-> allow_deposit]

game_started                     == Event("game_started", NoDigest, FALSE)
action_request(allow_deposit)    == Event("action_request", NoDigest, allow_deposit)
signidice_part_1_request(digest) == Event("signidice_part_1_request", digest, FALSE)
signidice_part_2_request(digest) == Event("signidice_part_2_request", digest, FALSE)
game_finished                    == Event("game_finished", NoDigest, FALSE)
game_failed                      == Event("game_failed", NoDigest, FALSE)
game_message                     == Event("game_message", NoDigest, FALSE)

Silence == Event("none", NoDigest, FALSE)

Types == {"game_started", "action_request", "signidice_part_1_request",
          "signidice_part_2_request", "game_finished", "game_failed",
          "game_message", "none"}
EventRecord == [type : Types, digest : Digest, need_deposit : BOOLEAN]

(* The last of these events that is not a message.                             *)
LastAsked(events, k) ==
    /\ events[k].type # "game_message"
    /\ \A l \in k + 1 .. Len(events) : events[l].type = "game_message"

(* What is known of a session once these events were heard too: messages ask   *)
(* nothing of anybody.                                                         *)
Hear(known, events) ==
    IF \E k \in DOMAIN events : LastAsked(events, k)
    THEN events[CHOOSE k \in DOMAIN events : LastAsked(events, k)]
    ELSE known

-------------------------------------------------------------------------------
(* A step of GameContract with what it emits.  The event of a transaction that *)
(* runs no game code is heard at once.                                         *)

Emit(event) ==
    /\ Len(outbox) < MaxEvents
    /\ outbox' = Append(outbox, event)
    /\ UNCHANGED heard

Sent(id, events) ==
    /\ UNCHANGED outbox
    /\ heard' = [heard EXCEPT ![id] = Hear(@, events)]

EmitDeposit(id) == Deposit(id) /\ Sent(id, <<>>)

Opening(events) == outbox' = events /\ UNCHANGED heard

EmitStart(id) == Start(id) /\ Opening(<<game_started>>)

EmitAction(id) == GameAction(id) /\ Opening(<<>>)

(* Fault: the digest asked to be signed is the one just signed.                *)
EmitPart1_OldDigest(id, sign) ==
    /\ SignidicePart1(id, sign)
    /\ Sent(id, <<signidice_part_2_request(sessions[id].digest)>>)

EmitPart1(id, sign) ==
    /\ SignidicePart1(id, sign)
    /\ Sent(id, <<signidice_part_2_request(Sha256(sign))>>)

EmitPart2(id, sign) ==
    SignidicePart2(id, sign) /\ Opening(<<>>)

EmitRequireAction(allow_deposit) ==
    RequireAction(allow_deposit) /\ Emit(action_request(allow_deposit))

EmitRequireRandom ==
    RequireRandom /\ Emit(signidice_part_1_request(tx.row.digest))

EmitUpdateMaxWin(new_max_win) ==
    UpdateMaxWin(new_max_win) /\ UNCHANGED <<outbox, heard>>

EmitFinish(player_payout) == FinishGame(player_payout) /\ Emit(game_finished)

SendGameMessage == InCallback /\ Emit(game_message) /\ UNCHANGED vars

EmitReturn ==
    /\ Return
    /\ heard' = [heard EXCEPT ![tx.ses_id] = Hear(@, outbox)]
    /\ outbox' = <<>>

EmitAbort == Abort /\ Opening(<<>>)

Failed(row) == IF row.state = "req_start" THEN <<>> ELSE <<game_failed>>

EmitClose(id) == Close(id) /\ Sent(id, Failed(sessions[id]))

EmitEnvironment == Environment /\ UNCHANGED <<outbox, heard>>

-------------------------------------------------------------------------------
EventsInit == Init /\ outbox = <<>> /\ heard = [id \in SesIds |-> Silence]

EmitCallback ==
    \/ \E allow_deposit \in BOOLEAN : EmitRequireAction(allow_deposit)
    \/ EmitRequireRandom
    \/ \E new_max_win \in MaxWins : EmitUpdateMaxWin(new_max_win)
    \/ \E player_payout \in Payouts : EmitFinish(player_payout)
    \/ SendGameMessage
    \/ EmitReturn
    \/ EmitAbort

EventsNext ==
    \/ \E id \in SesIds :
         \/ EmitDeposit(id) \/ EmitStart(id) \/ EmitAction(id) \/ EmitClose(id)
         \/ \E sign \in Signatures : EmitPart1(id, sign) \/ EmitPart2(id, sign)
    \/ EmitCallback
    \/ EmitEnvironment

EventsSpec == EventsInit /\ [][EventsNext]_eventVars

-------------------------------------------------------------------------------
(* Properties.                                                                 *)

EventsTypeOK ==
    /\ outbox \in Seq(EventRecord)
    /\ heard \in [SesIds -> EventRecord]

(* What the events say of a session.  A game may let the player move on        *)
(* without asking for it (it answers an action with nothing), and may answer a *)
(* random value with nothing: then the last request stands, over a digest that *)
(* was rolled already.                                                         *)
Informed(row, event, rolled) ==
    IF row = NoRow \/ ~Started(row)
    THEN event.type \in {"none", "game_finished", "game_failed"}
    ELSE CASE row.state = "req_signidice_part_1" ->
                event = signidice_part_1_request(row.digest)
           [] row.state = "req_signidice_part_2" ->
                \/ event = signidice_part_2_request(row.digest)
                \/ event.type = "signidice_part_2_request" /\ row.digest \in rolled
           [] row.state = "req_allow_deposit" ->
                event = action_request(TRUE)
           [] OTHER ->
                event.type = "action_request" /\ (event.need_deposit => row.acted)

(* A service that follows nothing but the events knows of every session        *)
(* whether it is over and else whom the contract waits for, and holds the very *)
(* digest that is to be signed: no request is lost, stale, or sent by a        *)
(* transaction that failed.                                                    *)
ListenersInformed ==
    tx = NoTx => \A id \in SesIds : Informed(sessions[id], heard[id], rolls)

===============================================================================

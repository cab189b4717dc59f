--------------------------------- MODULE Tester --------------------------------
(* The test library (class game_tester, game_tester.hpp) on the debug build of *)
(* the contract.  A test calls one helper at a time.  A helper pushes a list   *)
(* of actions, requires of each a result, and stops the test case where it     *)
(* gets another one.  Only this test pushes actions, so nothing comes between  *)
(* them; but each may be refused, by the contract, the game or the token.      *)
EXTENDS Debug

CONSTANTS
    Casino,         \* casino_id 0, the one casino of a test
    MaxId,          \* bound: session ids given out by each overload
    MaxCalls        \* bound: helpers a test case calls, a strategy's not counted

ASSUME TesterAssumption ==
    /\ Casino \in Casinos
    /\ MaxId \in Nat /\ SesIds = 0..MaxId
    /\ MaxCalls \in Nat

VARIABLES
    ses_id,     \* the static counter of each overload of new_game_session
    call,       \* the helper that runs or was the last to return
    calls,      \* helpers the test case has called
    plan,       \* the actions the running helper has yet to push
    _events,    \* the events get_events looks into
    verdict     \* of the test case: "running" or "failed"

testVars == <<debugVars, ses_id, call, calls, plan, _events, verdict>>

Overloads == {"deposit", "real_and_bonus"}
Results   == {"success", "error"}

-------------------------------------------------------------------------------
(* The actions the helpers push.  A result of "any" is not looked at.          *)

Action(name, id, from, quantity, result) ==
    [name |-> name, ses_id |-> id, from |-> from, quantity |-> quantity,
     result |-> result]

Signed(key, id) == [key |-> key, digest |-> sessions[id].digest]

(* What the contract makes of an action that runs no game code ...             *)
AtOnce(act) ==
    LET id == act.ses_id IN
    \/ act.name = "transfer" /\ OnTransfer(id, act.from, act.quantity, CoreToken)
    \/ act.name = "depositbon" /\ DepositBonus(id, act.from, act.quantity)
    \/ act.name = "sgdicefirst" /\ SignidicePart1(id, Signed(PlatformKey, id))
    \/ act.name = "close" /\ Close(id)

(* ... and what that emits.                                                    *)
Emitted(act) ==
    CASE act.name = "sgdicefirst" ->
           <<signidice_part_2_request(Sha256(Signed(PlatformKey, act.ses_id)))>>
      [] act.name = "close" -> Failed(sessions[act.ses_id])
      [] OTHER -> <<>>

(* An action that runs game code.                                              *)
Opens(act) ==
    LET id == act.ses_id IN
    \/ act.name = "newgame" /\ NewGame(id, Casino) /\ Opening(<<game_started>>) /\ Loads
    \/ /\ act.name = "newgamebon"
       /\ NewGameBonus(id, Casino, act.from, act.quantity)
       /\ Opening(<<game_started>>) /\ Loads
    \/ act.name = "gameaction" /\ GameAction(id) /\ Opening(<<>>) /\ Loads
    \/ /\ act.name = "sgdicesecond"
       /\ SignidicePart2(id, Signed(Casino, id)) /\ Opening(<<>>) /\ LoadsPart2

-------------------------------------------------------------------------------
(* push_action.                                                                *)

(* Fault: the events of transaction after transaction pile up.                 *)
handle_transaction_ptr_NoClear(events) == _events' = Range(events) \cup _events

handle_transaction_ptr(events) == _events' = Range(events)

(* The helper compares what push_action returned with what it requires.        *)
Returned(result) ==
    LET required == Head(plan).result IN
    IF required \in {result, "any"}
    THEN plan' = Tail(plan) /\ UNCHANGED verdict
    ELSE plan' = <<>> /\ verdict' = "failed"

(* The counter moves when the helper returns, and not when it throws.          *)
(* Fault: nor when the session was expected not to start.                      *)
CountSession_Started ==
    ses_id' = IF call.helper = "new_game_session" /\ plan' = <<>>
                   /\ verdict' = "running" /\ call.result = "success"
              THEN [ses_id EXCEPT ![call.asked.overload] = @ + 1] ELSE ses_id

CountSession ==
    ses_id' = IF call.helper = "new_game_session" /\ plan' = <<>>
                   /\ verdict' = "running"
              THEN [ses_id EXCEPT ![call.asked.overload] = @ + 1] ELSE ses_id

PushAtOnce ==
    /\ tx = NoTx /\ plan # <<>>
    /\ LET act == Head(plan) IN
       /\ \/ AtOnce(act) /\ Sent(act.ses_id, Emitted(act)) /\ Untouched
          \/ act.name = "pushnrandom" /\ push_next_random
          \/ act.name = "pushprng" /\ push_to_prng
       /\ handle_transaction_ptr(Emitted(act))
    /\ Returned("success")
    /\ CountSession
    /\ UNCHANGED <<call, calls>>

PushOpens ==
    /\ tx = NoTx /\ plan # <<>>
    /\ Opens(Head(plan))
    /\ UNCHANGED <<ses_id, call, calls, plan, _events, verdict>>

(* The transaction fails, and push_action leaves the events as they were.      *)
PushFails ==
    /\ \/ tx = NoTx /\ plan # <<>> /\ UNCHANGED debugVars
       \/ EmitAbort /\ Drops
    /\ Returned("error")
    /\ CountSession
    /\ UNCHANGED <<call, calls, _events>>

PushReturns ==
    /\ handle_transaction_ptr(outbox)
    /\ EmitReturn /\ Stores
    /\ Returned("success")
    /\ CountSession
    /\ UNCHANGED <<call, calls>>

InGame == DebugCall /\ UNCHANGED <<ses_id, call, calls, plan, _events, verdict>>

-------------------------------------------------------------------------------
(* The helpers.                                                                *)

Idle ==
    tx = NoTx /\ session_ttl # Uninit /\ plan = <<>> /\ verdict = "running"

Calls(helper, result, asked, id, acts) ==
    /\ Idle
    /\ call' = [helper |-> helper, result |-> result, asked |-> asked,
                ses_id |-> id, found |-> sessions[id] # NoRow]
    /\ plan' = acts
    /\ UNCHANGED <<debugVars, ses_id, _events, verdict>>

(* What a new session was asked to be; the other helpers ask for none.         *)
Session(overload, player, real, bonus) ==
    [overload |-> overload, player |-> player, real |-> real, bonus |-> bonus]
NoSession == [overload |-> "none"]

(* new_game_session(game, player, casino, deposit, result).                    *)
new_game_session_deposit(player, deposit, result) ==
    LET id == ses_id["deposit"] IN
    /\ id <= MaxId
    /\ Calls("new_game_session", result, Session("deposit", player, deposit, 0), id,
             << Action("transfer", id, player, deposit, "success"),
                Action("newgame", id, player, 0, result) >>)

(* new_game_session(game, player, casino, real, bonus, result).                *)
new_game_session_bonus(player, real, bonus, result) ==
    LET id == ses_id["real_and_bonus"] IN
    /\ id <= MaxId
    /\ real + bonus > 0
    /\ Calls("new_game_session", result,
             Session("real_and_bonus", player, real, bonus), id,
             (IF real > 0
              THEN << Action("transfer", id, player, real, "success") >> ELSE <<>>)
             \o << IF bonus > 0 THEN Action("newgamebon", id, player, bonus, result)
                   ELSE Action("newgame", id, player, 0, result) >>)

(* game_action, both overloads.  What becomes of the transfer is not looked at.*)
game_action(id, real, bonus, result) ==
    LET player == sessions[id].player IN
    /\ sessions[id] # NoRow
    /\ Calls("game_action", result, NoSession, id,
             (IF real > 0
              THEN << Action("transfer", id, player, real, "any") >> ELSE <<>>)
             \o (IF bonus > 0
                 THEN << Action("depositbon", id, player, bonus, "success") >> ELSE <<>>)
             \o << Action("gameaction", id, player, 0, result) >>)

(* signidice signs the digest the row has before each push.                    *)
signidice(id) ==
    /\ sessions[id] # NoRow
    /\ Calls("signidice", "success", NoSession, id,
             << Action("sgdicefirst", id, "service", 0, "success"),
                Action("sgdicesecond", id, "service", 0, "success") >>)

close_session(id) ==
    Calls("close_session", "success", NoSession, id,
          << Action("close", id, "platform", 0, "success") >>)

push_random(name) ==
    Calls(name, "success", NoSession, 0,
          << Action(name, 0, "platform", 0, "success") >>)

(* A helper that reads the session's row when there is none throws.            *)
Throws(id) ==
    /\ Idle
    /\ sessions[id] = NoRow
    /\ verdict' = "failed"
    /\ UNCHANGED <<debugVars, ses_id, call, plan, _events>>

(* The fixture sets up the chain, where everything is listed, and the game.    *)
deploy_game ==
    /\ session_ttl = Uninit
    /\ \E ttl \in TtlValues : InitContract(ttl)
    /\ UNCHANGED <<outbox, heard, ses_id, call, calls, plan, _events, verdict>>
    /\ Untouched

produce_blocks ==
    /\ Idle
    /\ Tick
    /\ UNCHANGED <<outbox, heard, ses_id, call, plan, _events, verdict>>
    /\ Untouched

-------------------------------------------------------------------------------
TesterInit ==
    /\ EventsInit
    /\ DebugInit
    /\ ses_id = [o \in Overloads |-> 0]
    /\ call = [helper |-> "none"]
    /\ calls = 0
    /\ plan = <<>>
    /\ _events = {}
    /\ verdict = "running"

Running == PushAtOnce \/ PushOpens \/ PushFails \/ PushReturns \/ InGame

HelperCall ==
    /\ calls < MaxCalls
    /\ calls' = calls + 1
    /\ \/ \E player \in Players, real \in Quantities \cup {0},
            bonus \in Quantities \cup {0}, result \in Results :
           \/ real > 0 /\ new_game_session_deposit(player, real, result)
           \/ new_game_session_bonus(player, real, bonus, result)
       \/ \E id \in SesIds :
           \/ \E real \in Quantities \cup {0}, bonus \in Quantities \cup {0},
                 result \in Results : game_action(id, real, bonus, result)
           \/ signidice(id) \/ close_session(id) \/ Throws(id)
       \/ push_random("pushnrandom") \/ push_random("pushprng")
       \/ produce_blocks

-------------------------------------------------------------------------------
(* Properties.                                                                 *)

Done(helper, result) ==
    Idle /\ call.helper = helper /\ call.result = result

(* A test that uses one overload of new_game_session only always gets a        *)
(* session of its own: there was none of that id, also after a call that was   *)
(* expected to fail, and the new one has the player and the deposit asked for. *)
(* (A test that mixes the overloads can get a session that is there already.)  *)
FreshSession ==
    Done("new_game_session", "success")
      /\ (\A o \in Overloads \ {call.asked.overload} : ses_id[o] = 0)
      /\ ses_id[call.asked.overload] = call.ses_id + 1
    => LET row == sessions[call.ses_id] IN
       /\ ~call.found
       /\ row # NoRow => /\ row.player = call.asked.player
                         /\ row.deposit = call.asked.real + call.asked.bonus
                         /\ row.bonus_deposit = call.asked.bonus

Heard(type) == {event \in _events : event.type = type}

(* What get_events shows a test after a helper that succeeded is what became   *)
(* of the session it was called for: a game_finished exactly if it is over,    *)
(* and a request of the platform's signature, for its digest and no other,     *)
(* exactly if it waits for one.                                                *)
TestSeesOutcome ==
    \A helper \in {"new_game_session", "game_action", "signidice"} :
        Done(helper, "success") =>
            LET row == sessions[call.ses_id] IN
            /\ row = NoRow <=> Heard("game_finished") # {}
            /\ Heard("signidice_part_1_request") =
                   IF row # NoRow /\ row.state = "req_signidice_part_1"
                   THEN {signidice_part_1_request(row.digest)} ELSE {}

===============================================================================

------------------------------ MODULE TesterProofs ------------------------------
(* The tests' side, for every value of its constants: what the library of the   *)
(* tests and its executor do to the contract is what anybody may do to it, and  *)
(* what they tell a test is what happened.                                      *)
EXTENDS Strategy, SignidiceProofs, FiniteSetTheorems, SequenceTheorems

(* The actions by the kind of step they are.                                    *)
PlainNames == {"transfer", "depositbon", "sgdicefirst", "close"}
OpenNames  == {"newgame", "newgamebon", "gameaction", "sgdicesecond"}
PushNames  == {"pushnrandom", "pushprng"}

(* What a helper may push.                                                      *)
May(helper, name) ==
    \/ helper = "new_game_session" /\ name \in {"transfer", "newgame", "newgamebon"}
    \/ helper = "game_action" /\ name \in {"transfer", "depositbon", "gameaction"}
    \/ helper = "signidice" /\ name \in {"sgdicefirst", "sgdicesecond"}
    \/ helper = "close_session" /\ name = "close"
    \/ helper \in PushNames /\ name = helper

(* The helpers that end in game code, with the result they were asked for.      *)
Acting == {"new_game_session", "game_action", "signidice"}

Acts(helper, id) ==
    {act \in [name : PlainNames \cup OpenNames \cup PushNames, ses_id : SesIds,
              from : Players \cup {"service", "platform"},
              quantity : Quantities \cup {0}, result : Results \cup {"any"}] :
        /\ act.ses_id = id
        /\ May(helper, act.name)
        /\ act.name \in {"transfer", "depositbon", "newgamebon"}
             => act.from \in Players /\ act.quantity \in Quantities}

(* Of a helper's plan only the last action opens a transaction.                 *)
Ends(acts, result) ==
    \A k \in 1..Len(acts) :
        IF k = Len(acts) THEN acts[k].name \in OpenNames /\ acts[k].result = result
        ELSE acts[k].name \notin OpenNames

Called == [helper : Acting \cup {"close_session"} \cup PushNames, result : Results,
           asked : [overload : Overloads, player : Players,
                    real : Quantities \cup {0}, bonus : Quantities \cup {0}]
                   \cup {NoSession},
           ses_id : SesIds, found : BOOLEAN]

PlanInv ==
    /\ call \in Called \cup {[helper |-> "none"]}
    /\ plan # <<>> => /\ call \in Called
                      /\ verdict = "running"
    /\ call \in Called => plan \in Seq(Acts(call.helper, call.ses_id))
    /\ call.helper \in Acting => Ends(plan, call.result)
    /\ tx # NoTx => /\ plan # <<>> /\ plan[1].name \in OpenNames
                    /\ tx.ses_id = call.ses_id
    /\ ses_id \in [Overloads -> Nat]
    /\ verdict \in {"running", "failed"}

HasSession(e) ==
    \/ e.phase \in {"step", "result", "close"}
    \/ e.phase = "returned" /\ e.run < e.run_count

(* A run has its session open until it is handed to session_close.              *)
ExecutorInv ==
    executor # NotRunning =>
        /\ executor \in Executor
        /\ executor.session_id \in SesIds
        /\ executor.closed = executor.run
        /\ executor.run <= executor.run_count
        /\ executor.phase \in {"step", "result", "close"}
             => executor.run < executor.run_count
        /\ executor.open = IF HasSession(executor) THEN TRUE ELSE FALSE

-------------------------------------------------------------------------------
(* The queues of the debug table.                                               *)

Queues == {"pseudo_queue", "pseudo_prng"}

Increasing(queue) ==
    \A i, j \in 1..Len(queue) : i < j => queue[i] < queue[j]

(* The queue is what is left of a queue of which `taken' was taken.             *)
Splits(whole, queue, taken) ==
    /\ Range(queue) \cup taken = whole
    /\ Range(queue) \cap taken = {}

DebugInv ==
    /\ debug \in debug_table /\ global_debug \in debug_table
    /\ pushes \in [Queues -> Nat]
    /\ DOMAIN played = Queues /\ DOMAIN given = Queues
    /\ \A q \in Queues :
         /\ Increasing(debug[q])
         /\ Splits(1..pushes[q], debug[q], played[q])
    /\ tx = NoTx => given = None
    /\ tx # NoTx =>
         /\ \A q \in Queues :
              /\ Increasing(global_debug[q])
              /\ Splits(Range(debug[q]), global_debug[q], given[q])
         /\ given["pseudo_prng"] = {} \/ global_debug["pseudo_prng"] = <<>>
         /\ \A v \in given["pseudo_queue"] : \A w \in Range(debug["pseudo_queue"]) :
              w <= v

-------------------------------------------------------------------------------
(* What the events of a transaction say of the row it leaves.                   *)

OfType(events, type) == {event \in events : event.type = type}

Sees(row, events) ==
    /\ row = NoRow <=> OfType(events, "game_finished") # {}
    /\ OfType(events, "signidice_part_1_request") =
           IF row # NoRow /\ row.state = "req_signidice_part_1"
           THEN {signidice_part_1_request(row.digest)} ELSE {}

SeenInv ==
    /\ tx # NoTx => Sees(tx.row, Range(outbox))
    /\ plan = <<>> /\ verdict = "running" /\ call.helper \in Acting
         /\ call.result = "success"
       => Sees(sessions[call.ses_id], _events)

-------------------------------------------------------------------------------
(* The sessions a test opens.                                                   *)

ToTransfer(c) == Action("transfer", c.ses_id, c.asked.player, c.asked.real, "success")
ToStart(c) ==
    IF c.asked.bonus > 0
    THEN Action("newgamebon", c.ses_id, c.asked.player, c.asked.bonus, c.result)
    ELSE Action("newgame", c.ses_id, c.asked.player, 0, c.result)

Of(row, player, real, bonus) ==
    /\ row # NoRow
    /\ row.player = player
    /\ row.deposit = real + bonus
    /\ row.bonus_deposit = bonus

AsAsked(row, asked) == Of(row, asked.player, asked.real, asked.bonus)

(* Only this overload was used so far.                                          *)
Alone(o) == \A p \in Overloads \ {o} : ses_id[p] = 0

(* How far the new session is.                                                  *)
Stage ==
    LET row == sessions[call.ses_id] IN
    /\ ~call.found
    /\ Len(plan) = 2 => row = NoRow
    /\ Len(plan) = 1 =>
         /\ IF call.asked.real > 0 THEN Of(row, call.asked.player, call.asked.real, 0)
            ELSE row = NoRow
         /\ tx # NoTx /\ tx.row # NoRow => AsAsked(tx.row, call.asked)
    /\ Len(plan) = 0 /\ call.result = "success" /\ row # NoRow
         => AsAsked(row, call.asked)

FreshInv ==
    /\ verdict = "running" =>
         \A i \in SesIds : sessions[i] # NoRow =>
             \/ \E o \in Overloads : i < ses_id[o]
             \/ plan # <<>> /\ call.helper = "new_game_session" /\ i = call.ses_id
    /\ call.helper = "new_game_session" =>
         /\ call.asked # NoSession
         /\ call.asked.real + call.asked.bonus > 0
         /\ plan # <<>> => call.ses_id = ses_id[call.asked.overload]
         /\ plan \in {<<>>, <<ToStart(call)>>, <<ToTransfer(call), ToStart(call)>>}
         /\ Len(plan) = 2 => call.asked.real > 0
         /\ verdict = "running" /\ Alone(call.asked.overload) => Stage
    /\ plan # <<>> /\ call.helper \in {"game_action", "signidice"}
         => sessions[call.ses_id] # NoRow

-------------------------------------------------------------------------------
(* Sequences.                                                                   *)

LEMMA FirstAndRest ==
    ASSUME NEW S, NEW s \in Seq(S), s # <<>>
    PROVE  /\ Head(s) = s[1] /\ Head(s) \in S /\ Len(s) \in Nat \ {0}
           /\ Tail(s) \in Seq(S) /\ Len(Tail(s)) = Len(s) - 1
           /\ \A k \in 1..Len(Tail(s)) : Tail(s)[k] = s[k + 1]
           /\ Tail(s) = <<>> <=> Len(s) = 1
<1>1. Head(s) = s[1] /\ Len(s) \in Nat \ {0}  OBVIOUS
<1>2. Tail(s) \in Seq(S) /\ Len(Tail(s)) = Len(s) - 1  OBVIOUS
<1>3. Head(s) \in S  OBVIOUS
<1>4. \A k \in 1..Len(Tail(s)) : Tail(s)[k] = s[k + 1]  OBVIOUS
<1>5. Tail(s) = <<>> <=> Len(Tail(s)) = 0
  <2>. DEFINE t == Tail(s)
  <2>1. t \in Seq(S)  BY <1>2
  <2>. HIDE DEF t
  <2>2. t = <<>> <=> Len(t) = 0  BY <2>1
  <2>. QED  BY <2>2 DEF t
<1>. QED  BY <1>1, <1>2, <1>3, <1>4, <1>5

LEMMA JoinTwo ==
    ASSUME NEW a, NEW b
    PROVE  <<a>> \o <<b>> = <<a, b>>
<1>. DEFINE S == {a, b}
            s == <<a>> \o <<b>>
            t == <<a, b>>
<1>1. <<a>> \in Seq(S) /\ <<b>> \in Seq(S)  OBVIOUS
<1>2. s \in Seq(S) /\ Len(s) = 2  BY <1>1
<1>3. s[1] = a /\ s[2] = b  BY <1>1
<1>4. t \in Seq(S) /\ Len(t) = 2 /\ t[1] = a /\ t[2] = b  OBVIOUS
<1>. HIDE DEF s, t, S
<1>5. s = t  BY <1>2, <1>3, <1>4, SeqEqual
<1>. QED  BY <1>5 DEF s, t

LEMMA JoinThree ==
    ASSUME NEW a, NEW b, NEW c
    PROVE  <<a>> \o <<b>> \o <<c>> = <<a, b, c>>
<1>. DEFINE S == {a, b, c}
            s == <<a, b>> \o <<c>>
            t == <<a, b, c>>
<1>1. <<a, b>> \in Seq(S) /\ <<c>> \in Seq(S)  OBVIOUS
<1>2. s \in Seq(S) /\ Len(s) = 3  BY <1>1
<1>3. s[1] = a /\ s[2] = b  BY <1>1
<1>4. s[3] = c  BY <1>1
<1>5. t \in Seq(S) /\ Len(t) = 3 /\ t[1] = a /\ t[2] = b /\ t[3] = c  OBVIOUS
<1>. HIDE DEF s, t, S
<1>6. s = t  BY <1>2, <1>3, <1>4, <1>5, SeqEqual
<1>. QED  BY <1>6, JoinTwo DEF s, t

LEMMA JoinNone ==
    ASSUME NEW a
    PROVE  <<>> \o <<a>> = <<a>> /\ <<a>> \o <<>> = <<a>> /\ <<>> \o <<>> = <<>>
OBVIOUS

-------------------------------------------------------------------------------
(* The steps of a test case.                                                    *)

HelperCalled ==
    \/ \E player \in Players, real \in Quantities, result \in Results :
         new_game_session_deposit(player, real, result)
    \/ \E player \in Players, real \in Quantities \cup {0},
          bonus \in Quantities \cup {0}, result \in Results :
         new_game_session_bonus(player, real, bonus, result)
    \/ \E id \in SesIds, real \in Quantities \cup {0},
          bonus \in Quantities \cup {0}, result \in Results :
         game_action(id, real, bonus, result)
    \/ \E id \in SesIds : signidice(id) \/ close_session(id)
    \/ \E name \in PushNames : push_random(name)

Stands == UNCHANGED <<debugVars, ses_id, call, plan, _events, verdict>>

TestThrows ==
    /\ Idle
    /\ verdict' = "failed"
    /\ UNCHANGED <<debugVars, ses_id, call, plan, _events>>

TestStep ==
    \/ HelperCalled \/ TestThrows \/ produce_blocks \/ deploy_game
    \/ PushAtOnce \/ PushOpens \/ PushFails \/ PushReturns \/ InGame
    \/ Stands

LEMMA IdsFromZero == 0 \in SesIds /\ SesIds \subseteq Nat
BY TesterAssumption

LEMMA TestSteps ==
    ASSUME ExecutorInv, [StrategyNext]_strategyVars
    PROVE  TestStep
<1>1. CASE UNCHANGED strategyVars  BY <1>1 DEF strategyVars, testVars, TestStep, Stands
<1>2. ASSUME HelperCall PROVE TestStep
  <2>1. ASSUME NEW player \in Players, NEW real \in Quantities \cup {0},
               NEW bonus \in Quantities \cup {0}, NEW result \in Results,
               \/ real > 0 /\ new_game_session_deposit(player, real, result)
               \/ new_game_session_bonus(player, real, bonus, result)
        PROVE  HelperCalled
    BY <2>1, SetsAssumption DEF HelperCalled
  <2>2. ASSUME NEW id \in SesIds, Throws(id) PROVE TestStep
    BY <2>2 DEF Throws, TestStep, TestThrows
  <2>. QED  BY <1>2, <2>1, <2>2 DEF HelperCall, HelperCalled, PushNames, TestStep
<1>3. ASSUME deploy_game \/ Running PROVE TestStep  BY <1>3 DEF Running, TestStep
<1>4. ASSUME Execute PROVE TestStep
  <2>1. ASSUME NEW run_count \in 1..MaxRuns, NEW limit \in 0..MaxLimit,
               process_strategy(run_count, limit)
        PROVE  Stands
    BY <2>1 DEF process_strategy, Stands, testVars
  <2>2. ASSUME SessionCreate PROVE HelperCalled
    BY <2>2 DEF SessionCreate, HelperCalled, Results
  <2>3. ASSUME NEW id \in SesIds, NodeAction(id) PROVE Stands \/ HelperCalled
    <3>1. CASE UNCHANGED testVars  BY <3>1 DEF Stands, testVars
    <3>2. CASE game_action(id, 0, 0, "success")
      BY <3>2 DEF HelperCalled, Results
    <3>3. CASE signidice(id) \/ push_random("pushnrandom")
      BY <3>3 DEF HelperCalled, PushNames
    <3>. QED  BY <2>3, <3>1, <3>2, <3>3 DEF NodeAction
  <2>4. ASSUME ProcessNextStep PROVE Stands \/ HelperCalled
    <3>1. executor # NotRunning
      BY <2>4 DEF ProcessNextStep, At, NotRunning
    <3>2. executor.session_id \in SesIds  BY <3>1 DEF ExecutorInv
    <3>. QED  BY <2>4, <2>3, <3>2 DEF ProcessNextStep
  <2>5. ASSUME SessionClose PROVE HelperCalled \/ TestThrows
    <3>1. executor # NotRunning
      BY <2>5 DEF SessionClose, At, NotRunning
    <3>2. executor.session_id \in SesIds  BY <3>1 DEF ExecutorInv
    <3>. QED  BY <2>5, <3>2 DEF SessionClose, HelperCalled, Throws, TestThrows
  <2>6. ASSUME Continue \/ End \/ Fails \/ RunsDone PROVE Stands
    BY <2>6 DEF Continue, End, Fails, RunsDone, Stands, testVars
  <2>. QED  BY <1>4, <2>1, <2>2, <2>4, <2>5, <2>6 DEF Execute, TestStep
<1>. QED  BY <1>1, <1>2, <1>3, <1>4 DEF StrategyNext

-------------------------------------------------------------------------------
(* The executor.                                                                *)

(* A set of naturals has a least one, so Min is what its name says.             *)
LEMMA LeastIn ==
    ASSUME NEW S \in SUBSET Nat, S # {}
    PROVE  Min(S) \in S
<1>1. PICK x \in S : \A y \in S : ~ (<<y, x>> \in OpToRel(<, Nat))
  BY NatLessThanWellFounded, WFMin
<1>2. \A y \in S : ~ (y < x)  BY <1>1 DEF OpToRel
<1>3. \A y \in S : x <= y  BY <1>2
<1>. QED  BY <1>3 DEF Min

LEMMA TraversalType ==
    ASSUME NEW node \in Nodes, NEW holding \in (SUBSET DOMAIN Children[node]) \ {{}}
    PROVE  Traversal(node, holding) \in Nodes
<1>1. Children[node] \in Seq(Nodes)  BY StrategyAssumption
<1>2. DOMAIN Children[node] = 1..Len(Children[node]) /\ Len(Children[node]) \in Nat
  BY <1>1
<1>3. holding \in SUBSET Nat /\ holding # {}  BY <1>2
<1>4. Min(holding) \in 1..Len(Children[node])  BY <1>2, <1>3, LeastIn
<1>. QED  BY <1>1, <1>4 DEF Traversal

LEMMA ExecutorStep ==
    ASSUME ses_id \in [Overloads -> Nat], ExecutorInv,
           [StrategyNext]_strategyVars
    PROVE  ExecutorInv'
<1>1. CASE UNCHANGED executor  BY <1>1 DEF ExecutorInv, HasSession
<1>2. ASSUME NEW run_count \in 1..MaxRuns, NEW limit \in 0..MaxLimit,
             process_strategy(run_count, limit)
      PROVE  ExecutorInv'
  <2>. DEFINE new == [phase |-> "run", run_count |-> run_count,
                      limit_per_run |-> limit, run |-> 0, current |-> Root,
                      limit |-> 0, session_id |-> 0, open |-> FALSE, closed |-> 0]
  <2>1. executor' = new  BY <1>2 DEF process_strategy
  <2>2. new \in Executor  BY StrategyAssumption DEF Executor
  <2>3. /\ new.session_id \in SesIds /\ new.closed = new.run
        /\ new.run <= new.run_count /\ new.phase = "run" /\ new.open = FALSE
    BY IdsFromZero
  <2>. HIDE DEF new
  <2>. QED  BY <2>1, <2>2, <2>3 DEF ExecutorInv, HasSession
<1>12. ASSUME SessionCreate \/ ProcessNextStep \/ Continue \/ End \/ Fails
                \/ SessionClose \/ RunsDone
       PROVE  executor # NotRunning
  <2>1. executor.phase \in {"run", "step", "result", "close"}
    BY <1>12 DEF SessionCreate, ProcessNextStep, Continue, End, Fails, SessionClose,
       RunsDone, At
  <2>. QED  BY <2>1 DEF NotRunning
<1>. SUFFICES ASSUME executor # NotRunning,
                     SessionCreate \/ ProcessNextStep \/ Continue \/ End \/ Fails
                       \/ SessionClose \/ RunsDone
              PROVE  ExecutorInv'
  BY <1>1, <1>2, <1>12 DEF StrategyNext, Execute, strategyVars
<1>3. /\ executor \in Executor /\ executor.session_id \in SesIds
      /\ executor.closed = executor.run /\ executor.run <= executor.run_count
      /\ executor.run \in Nat /\ executor.run_count \in Nat
      /\ executor.limit \in 0..MaxLimit /\ MaxRuns \in Nat /\ MaxLimit \in Nat
      /\ executor.run_count <= MaxRuns
  BY StrategyAssumption DEF ExecutorInv, Executor
<1>4. CASE SessionCreate
  <2>1. PICK player \in Players, deposit \in Quantities :
          new_game_session_deposit(player, deposit, "success")
    BY <1>4 DEF SessionCreate
  <2>2. ses_id["deposit"] \in SesIds
    BY <2>1, TesterAssumption DEF new_game_session_deposit, Overloads
  <2>3. executor.limit_per_run \in 0..MaxLimit  BY <1>3 DEF Executor
  <2>4. /\ executor' = [executor EXCEPT !.phase = "step", !.current = Root,
                           !.limit = executor.limit_per_run, !.open = TRUE,
                           !.session_id = ses_id["deposit"]]
        /\ executor.run # executor.run_count
    BY <1>4 DEF SessionCreate
  <2>5. /\ executor' \in Executor /\ executor'.phase = "step" /\ executor'.open = TRUE
        /\ executor'.session_id = ses_id["deposit"]
        /\ executor'.closed = executor.closed /\ executor'.run = executor.run
        /\ executor'.run_count = executor.run_count
    BY <1>3, <2>2, <2>3, <2>4, IdsFromZero, StrategyAssumption DEF Executor
  <2>. QED  BY <1>3, <2>2, <2>4, <2>5 DEF ExecutorInv, HasSession
<1>5. CASE ProcessNextStep
  <2>1. /\ executor.limit # 0 /\ executor.phase = "step"
        /\ executor' = [executor EXCEPT !.phase = "result", !.limit = @ - 1]
    BY <1>5 DEF ProcessNextStep, At
  <2>2. executor.limit - 1 \in 0..MaxLimit  BY <1>3, <2>1
  <2>3. /\ executor' \in Executor /\ executor'.phase = "result"
        /\ executor'.open = executor.open /\ executor'.session_id = executor.session_id
        /\ executor'.closed = executor.closed /\ executor'.run = executor.run
        /\ executor'.run_count = executor.run_count
    BY <1>3, <2>1, <2>2 DEF Executor
  <2>. QED  BY <1>3, <2>1, <2>3 DEF ExecutorInv, HasSession
<1>6. CASE Continue
  <2>1. PICK holding \in (SUBSET DOMAIN Children[executor.current]) \ {{}} :
          executor' = [executor EXCEPT !.phase = "step",
                         !.current = Traversal(executor.current, holding)]
    BY <1>6 DEF Continue
  <2>2. Traversal(executor.current, holding) \in Nodes
    BY <1>3, TraversalType DEF Executor
  <2>3. /\ executor' \in Executor /\ executor'.phase = "step"
        /\ executor'.open = executor.open /\ executor'.session_id = executor.session_id
        /\ executor'.closed = executor.closed /\ executor'.run = executor.run
        /\ executor'.run_count = executor.run_count
    BY <1>3, <2>1, <2>2 DEF Executor
  <2>4. executor.phase = "result"  BY <1>6 DEF Continue, At
  <2>. QED  BY <1>3, <2>3, <2>4 DEF ExecutorInv, HasSession
<1>7. ASSUME NEW phase \in {"close", "returned"},
             executor' = [executor EXCEPT !.phase = phase]
      PROVE  /\ executor' \in Executor /\ executor'.phase = phase
             /\ executor'.open = executor.open
             /\ executor'.session_id = executor.session_id
             /\ executor'.closed = executor.closed /\ executor'.run = executor.run
             /\ executor'.run_count = executor.run_count
  BY <1>3, <1>7 DEF Executor
<1>8. CASE End
  <2>1. executor.phase = "result" /\ executor' = [executor EXCEPT !.phase = "close"]
    BY <1>8 DEF End, At
  <2>. QED  BY <1>3, <1>7, <2>1 DEF ExecutorInv, HasSession
<1>9. CASE Fails
  <2>1. /\ executor.phase \in {"result", "step"}
        /\ executor' = [executor EXCEPT !.phase = "returned"]
    BY <1>9 DEF Fails, At
  <2>. QED  BY <1>3, <1>7, <2>1 DEF ExecutorInv, HasSession
<1>10. CASE RunsDone
  <2>1. /\ executor.phase = "run" /\ executor.run = executor.run_count
        /\ executor' = [executor EXCEPT !.phase = "returned"]
    BY <1>10 DEF RunsDone, At
  <2>2. ~HasSession(executor)  BY <1>3, <2>1 DEF HasSession
  <2>3. /\ executor' \in Executor /\ executor'.phase = "returned"
        /\ executor'.open = executor.open /\ executor'.session_id = executor.session_id
        /\ executor'.closed = executor.closed /\ executor'.run = executor.run
        /\ executor'.run_count = executor.run_count
    BY <1>7, <2>1
  <2>4. ~HasSession(executor')  BY <1>3, <2>1, <2>3 DEF HasSession
  <2>5. executor.open = FALSE  BY <2>2 DEF ExecutorInv
  <2>. QED  BY <1>3, <2>3, <2>4, <2>5 DEF ExecutorInv
<1>11. CASE SessionClose
  <2>1. /\ executor.phase = "close"
        /\ executor' = [executor EXCEPT !.phase = "run", !.run = @ + 1,
                                        !.open = FALSE, !.closed = @ + 1]
    BY <1>11 DEF SessionClose, At
  <2>2. executor.run < executor.run_count  BY <2>1 DEF ExecutorInv, HasSession
  <2>3. executor.run + 1 \in 0..MaxRuns  BY <1>3, <2>2
  <2>4. executor.closed + 1 \in Nat  BY <1>3
  <2>5. /\ executor' \in Executor /\ executor'.phase = "run"
        /\ executor'.open = FALSE /\ executor'.session_id = executor.session_id
        /\ executor'.closed = executor.closed + 1 /\ executor'.run = executor.run + 1
        /\ executor'.run_count = executor.run_count
    BY <1>3, <2>1, <2>3, <2>4 DEF Executor
  <2>6. ~HasSession(executor')  BY <2>5 DEF HasSession
  <2>7. executor'.run <= executor'.run_count  BY <1>3, <2>2, <2>5
  <2>. QED  BY <1>3, <2>5, <2>6, <2>7 DEF ExecutorInv
<1>. QED  BY <1>4, <1>5, <1>6, <1>8, <1>9, <1>10, <1>11

-------------------------------------------------------------------------------
(* What a test does to the contract.                                            *)

LEMMA HelperLeaves ==
    ASSUME HelperCalled
    PROVE  Idle /\ UNCHANGED <<debugVars, ses_id, _events, verdict>>
BY DEF HelperCalled, new_game_session_deposit, new_game_session_bonus, game_action,
   signidice, close_session, push_random, Calls

(* The next action of the plan.                                                 *)
LEMMA NextAct ==
    ASSUME PlanInv, plan # <<>>
    PROVE  /\ call \in Called
           /\ plan \in Seq(Acts(call.helper, call.ses_id))
           /\ Head(plan) \in Acts(call.helper, call.ses_id)
           /\ Head(plan) = plan[1]
           /\ Head(plan).ses_id = call.ses_id /\ call.ses_id \in SesIds
           /\ Head(plan).name \in {"transfer", "depositbon", "newgamebon"}
                => Head(plan).from \in Players /\ Head(plan).quantity \in Quantities
<1>1. call \in Called /\ plan \in Seq(Acts(call.helper, call.ses_id))
  BY DEF PlanInv
<1>2. Head(plan) \in Acts(call.helper, call.ses_id) /\ Head(plan) = plan[1]
  BY <1>1, FirstAndRest
<1>. QED  BY <1>1, <1>2 DEF Acts, Called

LEMMA SignedIs ==
    ASSUME NEW key \in Keys, NEW id \in SesIds, sessions[id] # NoRow
    PROVE  Signed(key, id) \in Signatures
BY DEF Signed, Signatures

LEMMA AtOnceEmits ==
    ASSUME NEW act, act.ses_id \in SesIds, AtOnce(act),
           act.name \in {"transfer", "depositbon", "newgamebon"}
             => act.from \in Players /\ act.quantity \in Quantities,
           Sent(act.ses_id, Emitted(act))
    PROVE  EventsNext
<1>. DEFINE id == act.ses_id
<1>1. CASE /\ act.name = "transfer"
           /\ OnTransfer(id, act.from, act.quantity, CoreToken)
  <2>1. Deposit(id)  BY <1>1, SetsAssumption DEF Deposit
  <2>2. Emitted(act) = <<>>  BY <1>1 DEF Emitted
  <2>. QED  BY <2>1, <2>2 DEF EmitDeposit, EventsNext
<1>2. CASE act.name = "depositbon" /\ DepositBonus(id, act.from, act.quantity)
  <2>1. Deposit(id)  BY <1>2 DEF Deposit
  <2>2. Emitted(act) = <<>>  BY <1>2 DEF Emitted
  <2>. QED  BY <2>1, <2>2 DEF EmitDeposit, EventsNext
<1>3. CASE /\ act.name = "sgdicefirst"
           /\ SignidicePart1(id, Signed(PlatformKey, id))
  <2>1. sessions[id] # NoRow  BY <1>3 DEF SignidicePart1
  <2>2. Signed(PlatformKey, id) \in Signatures  BY <2>1, SignedIs DEF Keys
  <2>3. Emitted(act) = <<signidice_part_2_request(Sha256(Signed(PlatformKey, id)))>>
    BY <1>3 DEF Emitted
  <2>4. EmitPart1(id, Signed(PlatformKey, id))  BY <1>3, <2>3 DEF EmitPart1
  <2>. QED  BY <2>2, <2>4 DEF EventsNext
<1>4. CASE act.name = "close" /\ Close(id)
  <2>1. Emitted(act) = Failed(sessions[id])  BY <1>4 DEF Emitted
  <2>2. EmitClose(id)  BY <1>4, <2>1 DEF EmitClose
  <2>. QED  BY <2>2 DEF EventsNext
<1>. QED  BY <1>1, <1>2, <1>3, <1>4 DEF AtOnce

LEMMA OpensEmits ==
    ASSUME NEW act, act.ses_id \in SesIds, Opens(act),
           act.name \in {"transfer", "depositbon", "newgamebon"}
             => act.from \in Players /\ act.quantity \in Quantities
    PROVE  EventsNext
<1>. DEFINE id == act.ses_id
<1>1. CASE NewGame(id, Casino) /\ Opening(<<game_started>>)
  <2>1. Start(id)  BY <1>1, TesterAssumption DEF Start
  <2>. QED  BY <1>1, <2>1 DEF EmitStart, EventsNext
<1>2. CASE /\ act.name = "newgamebon"
           /\ NewGameBonus(id, Casino, act.from, act.quantity)
           /\ Opening(<<game_started>>)
  <2>1. Start(id)  BY <1>2, TesterAssumption DEF Start
  <2>. QED  BY <1>2, <2>1 DEF EmitStart, EventsNext
<1>3. CASE GameAction(id) /\ Opening(<<>>)
  BY <1>3 DEF EmitAction, EventsNext
<1>4. CASE SignidicePart2(id, Signed(Casino, id)) /\ Opening(<<>>)
  <2>1. sessions[id] # NoRow  BY <1>4 DEF SignidicePart2
  <2>2. Signed(Casino, id) \in Signatures
    BY <2>1, SignedIs, TesterAssumption DEF Keys
  <2>. QED  BY <1>4, <2>2 DEF EmitPart2, EventsNext
<1>. QED  BY <1>1, <1>2, <1>3, <1>4 DEF Opens

LEMMA TestEmits ==
    ASSUME PlanInv, TestStep
    PROVE  [EventsNext]_eventVars
<1>1. ASSUME HelperCalled \/ TestThrows \/ Stands PROVE UNCHANGED eventVars
  BY <1>1, HelperLeaves DEF TestThrows, Stands, debugVars
<1>2. ASSUME produce_blocks PROVE EventsNext
  BY <1>2 DEF produce_blocks, EventsNext, EmitEnvironment, Environment
<1>3. ASSUME deploy_game PROVE EventsNext
  BY <1>3 DEF deploy_game, EventsNext, EmitEnvironment, Environment
<1>4. ASSUME PushAtOnce PROVE [EventsNext]_eventVars
  <2>1. /\ Head(plan).ses_id \in SesIds
        /\ Head(plan).name \in {"transfer", "depositbon", "newgamebon"}
             => Head(plan).from \in Players /\ Head(plan).quantity \in Quantities
    BY <1>4, NextAct DEF PushAtOnce
  <2>2. CASE AtOnce(Head(plan)) /\ Sent(Head(plan).ses_id, Emitted(Head(plan)))
    BY <2>1, <2>2, AtOnceEmits
  <2>3. CASE push_next_random \/ push_to_prng
    BY <2>3 DEF push_next_random, push_to_prng, Pushed
  <2>. QED  BY <1>4, <2>2, <2>3 DEF PushAtOnce
<1>5. ASSUME PushOpens PROVE EventsNext
  <2>1. /\ Head(plan).ses_id \in SesIds
        /\ Head(plan).name \in {"transfer", "depositbon", "newgamebon"}
             => Head(plan).from \in Players /\ Head(plan).quantity \in Quantities
    BY <1>5, NextAct DEF PushOpens
  <2>. QED  BY <1>5, <2>1, OpensEmits DEF PushOpens
<1>6. ASSUME PushFails PROVE [EventsNext]_eventVars
  <2>1. CASE UNCHANGED debugVars  BY <2>1 DEF debugVars
  <2>2. CASE EmitAbort  BY <2>2 DEF EventsNext, EmitCallback
  <2>. QED  BY <1>6, <2>1, <2>2 DEF PushFails
<1>7. ASSUME PushReturns PROVE EventsNext
  BY <1>7 DEF PushReturns, EventsNext, EmitCallback
<1>8. ASSUME InGame PROVE [EventsNext]_eventVars
  <2>1. CASE get_prng  BY <2>1 DEF get_prng
  <2>2. CASE ~get_prng
    <3>1. EmitCallback  BY <1>8, <2>2 DEF InGame, DebugCall, EmitCallback
    <3>. QED  BY <3>1 DEF EventsNext
  <2>. QED  BY <1>8, <2>1, <2>2
<1>. QED  BY <1>1, <1>2, <1>3, <1>4, <1>5, <1>6, <1>7, <1>8 DEF TestStep

-------------------------------------------------------------------------------
(* The plan.                                                                    *)

LEMMA ReturnedPlan ==
    ASSUME PlanInv, plan # <<>>, NEW result \in Results, Returned(result),
           UNCHANGED call
    PROVE  /\ plan' \in Seq(Acts(call.helper, call.ses_id))
           /\ verdict' \in {"running", "failed"}
           /\ plan' # <<>> => verdict' = "running"
           /\ verdict' = "running" => plan' = Tail(plan)
           /\ verdict' = "running" /\ plan' = <<>> /\ call.helper \in Acting
                => call.result = result
           /\ call.helper \in Acting => Ends(plan', call.result)
<1>. DEFINE S == Acts(call.helper, call.ses_id)
<1>1. plan \in Seq(S) /\ verdict = "running"  BY NextAct DEF PlanInv
<1>. HIDE DEF S
<1>2. /\ Head(plan) = plan[1] /\ Len(plan) \in Nat \ {0} /\ Tail(plan) \in Seq(S)
      /\ Len(Tail(plan)) = Len(plan) - 1
      /\ \A k \in 1..Len(Tail(plan)) : Tail(plan)[k] = plan[k + 1]
      /\ Tail(plan) = <<>> <=> Len(plan) = 1
  BY <1>1, FirstAndRest
<1>3. CASE Head(plan).result \in {result, "any"}
  <2>1. plan' = Tail(plan) /\ verdict' = "running"
    BY <1>1, <1>3 DEF Returned
  <2>2. ASSUME call.helper \in Acting PROVE Ends(Tail(plan), call.result)
    <3>1. Ends(plan, call.result)  BY <2>2 DEF PlanInv
    <3>. SUFFICES ASSUME NEW k \in 1..Len(Tail(plan))
                  PROVE  IF k = Len(Tail(plan))
                         THEN /\ Tail(plan)[k].name \in OpenNames
                              /\ Tail(plan)[k].result = call.result
                         ELSE Tail(plan)[k].name \notin OpenNames
      BY DEF Ends
    <3>2. k + 1 \in 1..Len(plan) /\ Tail(plan)[k] = plan[k + 1]
          /\ (k = Len(Tail(plan)) <=> k + 1 = Len(plan))
      BY <1>2
    <3>. QED  BY <3>1, <3>2 DEF Ends
  <2>3. ASSUME Tail(plan) = <<>>, call.helper \in Acting PROVE call.result = result
    <3>1. Ends(plan, call.result) /\ Len(plan) = 1  BY <1>2, <2>3 DEF PlanInv
    <3>3. plan[1].result = call.result  BY <3>1 DEF Ends
    <3>2. call.result \in Results  BY NextAct DEF Called
    <3>. QED  BY <1>2, <1>3, <3>2, <3>3 DEF Results
  <2>. QED  BY <1>2, <2>1, <2>2, <2>3 DEF S
<1>4. CASE Head(plan).result \notin {result, "any"}
  <2>1. plan' = <<>> /\ verdict' = "failed"  BY <1>4 DEF Returned
  <2>2. <<>> \in Seq(S) /\ Len(<<>>) = 0  OBVIOUS
  <2>3. Ends(<<>>, call.result)  BY <2>2 DEF Ends
  <2>. QED  BY <2>1, <2>2, <2>3 DEF S
<1>. QED  BY <1>3, <1>4

LEMMA CountType ==
    ASSUME PlanInv, plan # <<>>, CountSession
    PROVE  ses_id' \in [Overloads -> Nat]
<1>1. ses_id \in [Overloads -> Nat]  BY DEF PlanInv
<1>2. \/ ses_id' = ses_id
      \/ ses_id' = [ses_id EXCEPT ![call.asked.overload] = @ + 1]
  BY DEF CountSession
<1>. QED  BY <1>1, <1>2

LEMMA ReturnsPlan ==
    ASSUME PlanInv, plan # <<>>, NEW result \in Results, Returned(result),
           CountSession, UNCHANGED call, tx' = NoTx
    PROVE  PlanInv'
<1>1. call \in Called  BY NextAct
<1>2. ses_id' \in [Overloads -> Nat]  BY CountType
<1>. QED  BY <1>1, <1>2, ReturnedPlan DEF PlanInv

-------------------------------------------------------------------------------
(* The helpers' plans.                                                          *)

(* An action that moves money, and one that does not.                           *)
LEMMA MoneyAct ==
    ASSUME NEW helper, NEW name \in {"transfer", "depositbon", "newgamebon"},
           NEW id \in SesIds, NEW from \in Players, NEW quantity \in Quantities,
           NEW result \in Results \cup {"any"}, May(helper, name)
    PROVE  /\ Action(name, id, from, quantity, result) \in Acts(helper, id)
           /\ Action(name, id, from, quantity, result).name = name
           /\ Action(name, id, from, quantity, result).result = result
BY DEF Action, Acts, PlainNames, OpenNames

LEMMA PlainAct ==
    ASSUME NEW helper, NEW name \in PlainNames \cup OpenNames \cup PushNames,
           NEW id \in SesIds, NEW from \in Players \cup {"service", "platform"},
           NEW result \in Results \cup {"any"}, May(helper, name),
           name \notin {"transfer", "depositbon", "newgamebon"}
    PROVE  /\ Action(name, id, from, 0, result) \in Acts(helper, id)
           /\ Action(name, id, from, 0, result).name = name
           /\ Action(name, id, from, 0, result).result = result
BY DEF Action, Acts

LEMMA Kinds ==
    /\ {"transfer", "depositbon", "sgdicefirst", "close"} \cap OpenNames = {}
    /\ {"newgame", "newgamebon", "gameaction", "sgdicesecond"} \subseteq OpenNames
    /\ PushNames \cap OpenNames = {}
    /\ May("new_game_session", "transfer") /\ May("new_game_session", "newgame")
    /\ May("new_game_session", "newgamebon")
    /\ May("game_action", "transfer") /\ May("game_action", "depositbon")
    /\ May("game_action", "gameaction")
    /\ May("signidice", "sgdicefirst") /\ May("signidice", "sgdicesecond")
    /\ May("close_session", "close")
    /\ \A name \in PushNames : May(name, name) /\ name \notin OpenNames
BY DEF May, OpenNames, PushNames

LEMMA EndsOne ==
    ASSUME NEW a, NEW result, a.name \in OpenNames, a.result = result
    PROVE  Ends(<<a>>, result)
BY DEF Ends

LEMMA EndsTwo ==
    ASSUME NEW a, NEW b, NEW result, b.name \in OpenNames, b.result = result,
           a.name \notin OpenNames
    PROVE  Ends(<<a, b>>, result)
BY DEF Ends

LEMMA EndsThree ==
    ASSUME NEW a, NEW b, NEW c, NEW result, c.name \in OpenNames, c.result = result,
           a.name \notin OpenNames, b.name \notin OpenNames
    PROVE  Ends(<<a, b, c>>, result)
BY DEF Ends

LEMMA CallsPlan ==
    ASSUME PlanInv, NEW helper \in Acting \cup {"close_session"} \cup PushNames,
           NEW result \in Results,
           NEW asked \in [overload : Overloads, player : Players,
                    real : Quantities \cup {0}, bonus : Quantities \cup {0}]
                   \cup {NoSession},
           NEW id \in SesIds, NEW acts \in Seq(Acts(helper, id)),
           helper \in Acting => Ends(acts, result),
           Calls(helper, result, asked, id, acts)
    PROVE  PlanInv'
<1>1. /\ call' = [helper |-> helper, result |-> result, asked |-> asked,
                  ses_id |-> id, found |-> sessions[id] # NoRow]
      /\ plan' = acts /\ tx' = NoTx /\ verdict' = "running"
      /\ ses_id' = ses_id /\ ses_id \in [Overloads -> Nat]
  BY DEF Calls, Idle, debugVars, eventVars, vars, PlanInv
<1>2. /\ call' \in Called /\ call'.helper = helper /\ call'.ses_id = id
      /\ call'.result = result
  BY <1>1 DEF Called
<1>. QED  BY <1>1, <1>2 DEF PlanInv

(* A list of one, two or three actions of the helper is a plan.                 *)
LEMMA PlanIs ==
    ASSUME NEW S, NEW a \in S, NEW b \in S, NEW c \in S
    PROVE  <<a>> \in Seq(S) /\ <<a, b>> \in Seq(S) /\ <<a, b, c>> \in Seq(S)
OBVIOUS

LEMMA NewSessionPlan ==
    ASSUME PlanInv, NEW player \in Players, NEW real \in Quantities \cup {0},
           NEW bonus \in Quantities \cup {0}, NEW result \in Results,
           NEW overload \in Overloads, NEW id \in SesIds, NEW acts,
           LET first == Action("transfer", id, player, real, "success")
               last  == IF bonus > 0
                        THEN Action("newgamebon", id, player, bonus, result)
                        ELSE Action("newgame", id, player, 0, result)
           IN acts = IF real > 0 THEN <<first, last>> ELSE <<last>>,
           Calls("new_game_session", result, Session(overload, player, real, bonus),
                 id, acts)
    PROVE  PlanInv'
<1>. DEFINE S == Acts("new_game_session", id)
            first == Action("transfer", id, player, real, "success")
            last  == IF bonus > 0 THEN Action("newgamebon", id, player, bonus, result)
                     ELSE Action("newgame", id, player, 0, result)
            asked == Session(overload, player, real, bonus)
<1>1. real > 0 => real \in Quantities  OBVIOUS
<1>2. bonus > 0 => bonus \in Quantities  OBVIOUS
<1>3. real > 0 => first \in S /\ first.name \notin OpenNames
  BY <1>1, MoneyAct, Kinds DEF Results
<1>4. last \in S /\ last.name \in OpenNames /\ last.result = result
  <2>1. CASE bonus > 0
    BY <1>2, <2>1, MoneyAct, Kinds
  <2>2. CASE ~(bonus > 0)
    <3>. DEFINE act == Action("newgame", id, player, 0, result)
    <3>1. act \in S /\ act.name = "newgame" /\ act.result = result
      BY PlainAct, Kinds DEF OpenNames
    <3>2. last = act  BY <2>2
    <3>. HIDE DEF act, last
    <3>. QED  BY <3>1, <3>2, Kinds
  <2>. QED  BY <2>1, <2>2
<1>5. asked \in [overload : Overloads, player : Players,
                 real : Quantities \cup {0}, bonus : Quantities \cup {0}]
  BY DEF Session
<1>6. acts = IF real > 0 THEN <<first, last>> ELSE <<last>>  OBVIOUS
<1>. HIDE DEF S, first, last, asked
<1>7. acts \in Seq(S) /\ Ends(acts, result)
  <2>1. CASE real > 0  BY <1>3, <1>4, <1>6, <2>1, PlanIs, EndsTwo
  <2>2. CASE ~(real > 0)  BY <1>4, <1>6, <2>2, PlanIs, EndsOne
  <2>. QED  BY <2>1, <2>2
<1>. QED  BY <1>5, <1>7, CallsPlan DEF S, asked, Acting

LEMMA DepositPlan ==
    ASSUME NEW player \in Players, NEW real \in Quantities, NEW result \in Results,
           NEW id, NEW acts,
           acts = << Action("transfer", id, player, real, "success"),
                     Action("newgame", id, player, 0, result) >>
    PROVE  LET first == Action("transfer", id, player, real, "success")
               last  == IF 0 > 0 THEN Action("newgamebon", id, player, 0, result)
                        ELSE Action("newgame", id, player, 0, result)
           IN acts = IF real > 0 THEN <<first, last>> ELSE <<last>>
BY SetsAssumption

LEMMA BonusPlan ==
    ASSUME NEW player, NEW real, NEW bonus, NEW result, NEW id, NEW acts,
           acts = (IF real > 0
                   THEN << Action("transfer", id, player, real, "success") >> ELSE <<>>)
                  \o << IF bonus > 0 THEN Action("newgamebon", id, player, bonus, result)
                        ELSE Action("newgame", id, player, 0, result) >>
    PROVE  LET first == Action("transfer", id, player, real, "success")
               last  == IF bonus > 0 THEN Action("newgamebon", id, player, bonus, result)
                        ELSE Action("newgame", id, player, 0, result)
           IN acts = IF real > 0 THEN <<first, last>> ELSE <<last>>
<1>. DEFINE first == Action("transfer", id, player, real, "success")
            last  == IF bonus > 0 THEN Action("newgamebon", id, player, bonus, result)
                     ELSE Action("newgame", id, player, 0, result)
<1>1. acts = (IF real > 0 THEN <<first>> ELSE <<>>) \o <<last>>  OBVIOUS
<1>. HIDE DEF first, last
<1>2. acts = IF real > 0 THEN <<first, last>> ELSE <<last>>
  BY <1>1, JoinTwo, JoinNone
<1>. QED  BY <1>2 DEF first, last

LEMMA HelperPlan ==
    ASSUME TypeOK, PlanInv, HelperCalled
    PROVE  PlanInv'
<1>1. ASSUME NEW player \in Players, NEW real \in Quantities, NEW result \in Results,
             new_game_session_deposit(player, real, result)
      PROVE  PlanInv'
  <2>1. ses_id["deposit"] \in SesIds
    BY <1>1, TesterAssumption DEF new_game_session_deposit, Overloads, PlanInv
  <2>. DEFINE acts == << Action("transfer", ses_id["deposit"], player, real, "success"),
                         Action("newgame", ses_id["deposit"], player, 0, result) >>
  <2>2. Calls("new_game_session", result, Session("deposit", player, real, 0),
              ses_id["deposit"], acts)
    BY <1>1 DEF new_game_session_deposit
  <2>. HIDE DEF acts
  <2>3. LET first == Action("transfer", ses_id["deposit"], player, real, "success")
            last  == IF 0 > 0
                     THEN Action("newgamebon", ses_id["deposit"], player, 0, result)
                     ELSE Action("newgame", ses_id["deposit"], player, 0, result)
        IN acts = IF real > 0 THEN <<first, last>> ELSE <<last>>
    BY DepositPlan DEF acts
  <2>. QED  BY <2>1, <2>2, <2>3, NewSessionPlan DEF Overloads
<1>2. ASSUME NEW player \in Players, NEW real \in Quantities \cup {0},
             NEW bonus \in Quantities \cup {0}, NEW result \in Results,
             new_game_session_bonus(player, real, bonus, result)
      PROVE  PlanInv'
  <2>. DEFINE id == ses_id["real_and_bonus"]
  <2>1. id \in SesIds
    BY <1>2, TesterAssumption DEF new_game_session_bonus, Overloads, PlanInv
  <2>. DEFINE acts == (IF real > 0
                   THEN << Action("transfer", id, player, real, "success") >> ELSE <<>>)
                  \o << IF bonus > 0 THEN Action("newgamebon", id, player, bonus, result)
                        ELSE Action("newgame", id, player, 0, result) >>
  <2>2. Calls("new_game_session", result,
              Session("real_and_bonus", player, real, bonus), id, acts)
    BY <1>2 DEF new_game_session_bonus
  <2>. HIDE DEF acts, id
  <2>4. acts = (IF real > 0
                THEN << Action("transfer", id, player, real, "success") >> ELSE <<>>)
               \o << IF bonus > 0 THEN Action("newgamebon", id, player, bonus, result)
                     ELSE Action("newgame", id, player, 0, result) >>
    BY DEF acts
  <2>3. LET first == Action("transfer", id, player, real, "success")
            last  == IF bonus > 0 THEN Action("newgamebon", id, player, bonus, result)
                     ELSE Action("newgame", id, player, 0, result)
        IN acts = IF real > 0 THEN <<first, last>> ELSE <<last>>
    BY <2>4, BonusPlan
  <2>. QED  BY <2>1, <2>2, <2>3, NewSessionPlan DEF Overloads
<1>3. ASSUME NEW id \in SesIds, NEW real \in Quantities \cup {0},
             NEW bonus \in Quantities \cup {0}, NEW result \in Results,
             game_action(id, real, bonus, result)
      PROVE  PlanInv'
  <2>. DEFINE player == sessions[id].player
              S == Acts("game_action", id)
              first  == Action("transfer", id, player, real, "any")
              second == Action("depositbon", id, player, bonus, "success")
              last   == Action("gameaction", id, player, 0, result)
              acts   == (IF real > 0 THEN <<first>> ELSE <<>>)
                        \o (IF bonus > 0 THEN <<second>> ELSE <<>>) \o <<last>>
  <2>1. Calls("game_action", result, NoSession, id, acts)
    BY <1>3 DEF game_action
  <2>2. player \in Players  BY <1>3 DEF game_action, TypeOK, Row
  <2>3. real > 0 => real \in Quantities  OBVIOUS
  <2>4. bonus > 0 => bonus \in Quantities  OBVIOUS
  <2>5. real > 0 => first \in S /\ first.name \notin OpenNames
    BY <2>2, <2>3, MoneyAct, Kinds DEF Results
  <2>6. bonus > 0 => second \in S /\ second.name \notin OpenNames
    BY <2>2, <2>4, MoneyAct, Kinds DEF Results
  <2>7. last \in S /\ last.name \in OpenNames /\ last.result = result
    BY <2>2, PlainAct, Kinds DEF OpenNames
  <2>. HIDE DEF player, S, first, second, last
  <2>8. acts \in Seq(S) /\ Ends(acts, result)
    <3>1. CASE real > 0 /\ bonus > 0
      <4>1. acts = <<first, second, last>>  BY <3>1, JoinThree
      <4>. QED  BY <2>5, <2>6, <2>7, <3>1, <4>1, PlanIs, EndsThree
    <3>2. CASE real > 0 /\ ~(bonus > 0)
      <4>1. acts = <<first, last>>  BY <3>2, JoinTwo, JoinNone
      <4>. QED  BY <2>5, <2>7, <3>2, <4>1, PlanIs, EndsTwo
    <3>3. CASE ~(real > 0) /\ bonus > 0
      <4>1. acts = <<second, last>>  BY <3>3, JoinTwo, JoinNone
      <4>. QED  BY <2>6, <2>7, <3>3, <4>1, PlanIs, EndsTwo
    <3>4. CASE ~(real > 0) /\ ~(bonus > 0)
      <4>1. acts = <<last>>  BY <3>4
      <4>. QED  BY <2>7, <4>1, PlanIs, EndsOne
    <3>. QED  BY <3>1, <3>2, <3>3, <3>4
  <2>. HIDE DEF acts
  <2>. QED  BY <2>1, <2>8, CallsPlan DEF S, Acting
<1>4. ASSUME NEW id \in SesIds, signidice(id) PROVE PlanInv'
  <2>. DEFINE S == Acts("signidice", id)
              first == Action("sgdicefirst", id, "service", 0, "success")
              last  == Action("sgdicesecond", id, "service", 0, "success")
  <2>1. Calls("signidice", "success", NoSession, id, <<first, last>>)
    BY <1>4 DEF signidice
  <2>2. first \in S /\ first.name \notin OpenNames
    BY PlainAct, Kinds DEF PlainNames, Results
  <2>3. last \in S /\ last.name \in OpenNames /\ last.result = "success"
    BY PlainAct, Kinds DEF OpenNames, Results
  <2>. HIDE DEF S, first, last
  <2>4. <<first, last>> \in Seq(S) /\ Ends(<<first, last>>, "success")
    BY <2>2, <2>3, PlanIs, EndsTwo
  <2>. QED  BY <2>1, <2>4, CallsPlan DEF S, Acting, Results
<1>5. ASSUME NEW id \in SesIds, close_session(id) PROVE PlanInv'
  <2>. DEFINE S == Acts("close_session", id)
              act == Action("close", id, "platform", 0, "success")
  <2>1. Calls("close_session", "success", NoSession, id, <<act>>)
    BY <1>5 DEF close_session
  <2>2. act \in S  BY PlainAct, Kinds DEF PlainNames, Results
  <2>. HIDE DEF S, act
  <2>3. <<act>> \in Seq(S)  BY <2>2
  <2>. QED  BY <2>1, <2>3, CallsPlan DEF S, Acting, Results
<1>6. ASSUME NEW name \in PushNames, push_random(name) PROVE PlanInv'
  <2>. DEFINE S == Acts(name, 0)
              act == Action(name, 0, "platform", 0, "success")
  <2>1. Calls(name, "success", NoSession, 0, <<act>>)
    BY <1>6 DEF push_random
  <2>2. act \in S  BY PlainAct, Kinds, IdsFromZero DEF PushNames, Results
  <2>. HIDE DEF S, act
  <2>3. <<act>> \in Seq(S)  BY <2>2
  <2>4. name \notin Acting  BY DEF PushNames, Acting
  <2>. QED  BY <2>1, <2>3, <2>4, IdsFromZero, CallsPlan DEF S, Results
<1>. QED  BY <1>1, <1>2, <1>3, <1>4, <1>5, <1>6 DEF HelperCalled

-------------------------------------------------------------------------------
(* The steps once more, by what they do to the plan and the transaction.        *)

LEMMA InGameLeaves ==
    ASSUME TypeOK, InGame
    PROVE  /\ tx # NoTx /\ tx' # NoTx /\ tx'.ses_id = tx.ses_id
           /\ UNCHANGED <<sessions, ses_id, call, plan, _events, verdict,
                          debug, pushes, played>>
<1>1. CASE get_prng
  BY <1>1 DEF get_prng, InGame, eventVars, vars
<1>2. CASE SendGameMessage /\ Untouched
  BY <1>2 DEF SendGameMessage, Untouched, InGame, vars, InCallback
<1>3. CASE /\ Untouched
           /\ \/ \E allow_deposit \in BOOLEAN : EmitRequireAction(allow_deposit)
              \/ EmitRequireRandom
              \/ \E new_max_win \in MaxWins : EmitUpdateMaxWin(new_max_win)
              \/ \E player_payout \in Payouts : EmitFinish(player_payout)
  <2>1. tx # NoTx /\ UNCHANGED sessions
    BY <1>3 DEF EmitRequireAction, EmitRequireRandom, EmitUpdateMaxWin, EmitFinish,
       RequireAction, RequireRandom, UpdateMaxWin, FinishGame, InCallback
  <2>2. tx \in Tx  BY <2>1 DEF TypeOK
  <2>3. tx'.ses_id = tx.ses_id /\ tx'.callback = tx.callback
    BY <1>3, <2>2 DEF EmitRequireAction, EmitRequireRandom, EmitUpdateMaxWin,
       EmitFinish, RequireAction, RequireRandom, UpdateMaxWin, FinishGame, Tx
  <2>4. tx' # NoTx  BY <2>2, <2>3 DEF Tx, Callbacks, NoTx
  <2>. QED  BY <1>3, <2>1, <2>3, <2>4 DEF Untouched, InGame
<1>. QED  BY <1>1, <1>2, <1>3 DEF InGame, DebugCall

LEMMA OpensLeaves ==
    ASSUME NEW act, Opens(act)
    PROVE  /\ act.name \in OpenNames /\ tx = NoTx /\ tx' # NoTx
           /\ tx'.ses_id = act.ses_id /\ UNCHANGED sessions
           /\ Loads \/ LoadsPart2
<1>1. ASSUME NEW callback \in Callbacks, NEW id, NEW row, NEW book, NEW seq, NEW random,
             Begin(callback, id, row, book, seq, random)
      PROVE  tx' # NoTx /\ tx'.ses_id = id /\ UNCHANGED sessions
  <2>1. tx'.callback = callback /\ tx'.ses_id = id /\ UNCHANGED sessions
    BY <1>1 DEF Begin
  <2>. QED  BY <2>1 DEF Callbacks, NoTx
<1>2. ASSUME NEW id, NEW casino, NEW row, NEW book, NEW seq,
             NewGameInternal(id, casino, row, book, seq)
      PROVE  tx' # NoTx /\ tx'.ses_id = id /\ UNCHANGED sessions
  BY <1>1, <1>2 DEF NewGameInternal, Callbacks
<1>. DEFINE id == act.ses_id
<1>3. CASE act.name = "newgame" /\ NewGame(id, Casino) /\ Loads
  BY <1>2, <1>3 DEF NewGame, Ready, OpenNames
<1>4. CASE /\ act.name = "newgamebon" /\ Loads
           /\ NewGameBonus(id, Casino, act.from, act.quantity)
  BY <1>2, <1>4 DEF NewGameBonus, Ready, OpenNames
<1>5. CASE act.name = "gameaction" /\ GameAction(id) /\ Loads
  BY <1>1, <1>5 DEF GameAction, Ready, OpenNames, Callbacks
<1>6. CASE /\ act.name = "sgdicesecond" /\ LoadsPart2
           /\ SignidicePart2(id, Signed(Casino, id))
  BY <1>1, <1>6 DEF SignidicePart2, Ready, OpenNames, Callbacks
<1>. QED  BY <1>3, <1>4, <1>5, <1>6 DEF Opens

(* An action without game code stores its session's row; close erases it.       *)
LEMMA AtOnceLeaves ==
    ASSUME NEW act, AtOnce(act)
    PROVE  /\ act.name \in PlainNames /\ tx = NoTx /\ tx' = NoTx
           /\ \E row, book, rcpt : Store(act.ses_id, row, book, rcpt)
<1>. DEFINE id == act.ses_id
<1>1. CASE /\ act.name = "transfer"
           /\ OnTransfer(id, act.from, act.quantity, CoreToken)
  <2>1. tx = NoTx /\ \E row, book, rcpt : Store(id, row, book, rcpt)
    BY <1>1 DEF OnTransfer, OnTransferNew, OnTransferExtra, Ready
  <2>. QED  BY <1>1, <2>1 DEF Store, PlainNames
<1>2. CASE act.name = "depositbon" /\ DepositBonus(id, act.from, act.quantity)
  <2>1. tx = NoTx /\ \E row, book, rcpt : Store(id, row, book, rcpt)
    BY <1>2 DEF DepositBonus, Ready
  <2>. QED  BY <1>2, <2>1 DEF Store, PlainNames
<1>3. CASE /\ act.name = "sgdicefirst"
           /\ SignidicePart1(id, Signed(PlatformKey, id))
  <2>1. tx = NoTx /\ \E row, book, rcpt : Store(id, row, book, rcpt)
    BY <1>3 DEF SignidicePart1, Ready
  <2>. QED  BY <1>3, <2>1 DEF Store, PlainNames
<1>4. CASE act.name = "close" /\ Close(id)
  <2>1. tx = NoTx /\ \E row, book, rcpt : Store(id, row, book, rcpt)
    BY <1>4 DEF Close, Ready
  <2>. QED  BY <1>4, <2>1 DEF Store, PlainNames
<1>. QED  BY <1>1, <1>2, <1>3, <1>4 DEF AtOnce

LEMMA PlanStep ==
    ASSUME TypeOK, PlanInv, TestStep
    PROVE  PlanInv'
<1>1. CASE HelperCalled  BY <1>1, HelperPlan
<1>2. ASSUME UNCHANGED <<ses_id, call, plan, tx>>,
             verdict' \in {"running", "failed"},
             verdict' = verdict \/ plan = <<>>
      PROVE  PlanInv'
  BY <1>2 DEF PlanInv
<1>3. CASE TestThrows \/ Stands \/ produce_blocks \/ deploy_game
  <2>1. UNCHANGED <<ses_id, call, plan, tx>>
    BY <1>3 DEF TestThrows, Stands, produce_blocks, deploy_game, debugVars, eventVars,
       vars, Tick, InitContract
  <2>2. CASE TestThrows  BY <1>2, <2>1, <2>2 DEF TestThrows, Idle
  <2>3. CASE Stands \/ produce_blocks \/ deploy_game
    <3>1. verdict' = verdict
      BY <2>3 DEF Stands, produce_blocks, deploy_game
    <3>. QED  BY <1>2, <2>1, <3>1 DEF PlanInv
  <2>. QED  BY <1>3, <2>2, <2>3
<1>4. CASE PushAtOnce
  <2>1. tx' = NoTx
    <3>1. CASE push_next_random \/ push_to_prng
      BY <1>4, <3>1 DEF push_next_random, push_to_prng, Pushed, eventVars, vars
    <3>2. CASE AtOnce(Head(plan))  BY <3>2, AtOnceLeaves
    <3>. QED  BY <1>4, <3>1, <3>2 DEF PushAtOnce
  <2>. QED  BY <1>4, <2>1, ReturnsPlan DEF PushAtOnce, Results
<1>5. CASE PushOpens
  <2>1. /\ plan # <<>> /\ Opens(Head(plan))
        /\ UNCHANGED <<ses_id, call, calls, plan, _events, verdict>>
    BY <1>5 DEF PushOpens
  <2>2. Head(plan) = plan[1] /\ Head(plan).ses_id = call.ses_id
    BY <2>1, NextAct
  <2>3. plan[1].name \in OpenNames /\ tx'.ses_id = call.ses_id
    BY <2>1, <2>2, OpensLeaves
  <2>. QED  BY <2>1, <2>3 DEF PlanInv
<1>6. CASE PushFails
  <2>1. tx' = NoTx /\ plan # <<>>
    <3>1. CASE EmitAbort
      BY <3>1 DEF EmitAbort, Abort, PlanInv
    <3>2. CASE tx = NoTx /\ plan # <<>> /\ UNCHANGED debugVars
      BY <3>2 DEF debugVars, eventVars, vars
    <3>. QED  BY <1>6, <3>1, <3>2 DEF PushFails
  <2>. QED  BY <1>6, <2>1, ReturnsPlan DEF PushFails, Results
<1>7. CASE PushReturns
  <2>1. tx # NoTx /\ tx' = NoTx
    BY <1>7 DEF PushReturns, EmitReturn, Return, Commit
  <2>2. plan # <<>>  BY <2>1 DEF PlanInv
  <2>. QED  BY <1>7, <2>1, <2>2, ReturnsPlan DEF PushReturns, Results
<1>8. CASE InGame
  <2>1. /\ tx # NoTx /\ tx'.ses_id = tx.ses_id
        /\ UNCHANGED <<ses_id, call, plan, verdict>>
    BY <1>8, InGameLeaves
  <2>. QED  BY <2>1 DEF PlanInv
<1>. QED  BY <1>1, <1>3, <1>4, <1>5, <1>6, <1>7, <1>8 DEF TestStep

-------------------------------------------------------------------------------
(* What a step does to the queues.                                              *)

LEMMA DebugKinds ==
    ASSUME TypeOK, PlanInv, TestStep
    PROVE  \/ Untouched /\ (tx = NoTx <=> tx' = NoTx)
           \/ tx = NoTx /\ tx' = NoTx /\ \E q \in Queues : Pushed(q)
           \/ tx = NoTx /\ tx' # NoTx /\ (Loads \/ LoadsPart2)
           \/ tx # NoTx /\ tx' = NoTx /\ (Drops \/ Stores)
           \/ tx # NoTx /\ tx' # NoTx /\ get_prng
<1>1. CASE HelperCalled \/ TestThrows \/ Stands \/ produce_blocks \/ deploy_game
  <2>1. CASE HelperCalled \/ TestThrows \/ Stands
    <3>1. UNCHANGED debugVars  BY <2>1, HelperLeaves DEF TestThrows, Stands
    <3>. QED  BY <3>1 DEF debugVars, eventVars, vars, Untouched
  <2>2. CASE produce_blocks \/ deploy_game
    BY <2>2 DEF produce_blocks, deploy_game, Tick, InitContract
  <2>. QED  BY <1>1, <2>1, <2>2
<1>2. CASE PushAtOnce
  <2>1. CASE push_next_random \/ push_to_prng
    BY <2>1 DEF push_next_random, push_to_prng, Pushed, eventVars, vars, Queues
  <2>2. CASE AtOnce(Head(plan)) /\ Untouched  BY <2>2, AtOnceLeaves
  <2>. QED  BY <1>2, <2>1, <2>2 DEF PushAtOnce
<1>3. CASE PushOpens  BY <1>3, OpensLeaves DEF PushOpens
<1>4. CASE PushFails
  <2>1. CASE tx = NoTx /\ UNCHANGED debugVars
    BY <2>1 DEF debugVars, eventVars, vars, Untouched
  <2>2. CASE EmitAbort /\ Drops  BY <2>2 DEF EmitAbort, Abort
  <2>. QED  BY <1>4, <2>1, <2>2 DEF PushFails
<1>5. CASE PushReturns
  BY <1>5 DEF PushReturns, EmitReturn, Return, Commit
<1>6. CASE InGame
  <2>1. tx # NoTx /\ tx' # NoTx  BY <1>6, InGameLeaves
  <2>. QED  BY <1>6, <2>1 DEF InGame, DebugCall
<1>. QED  BY <1>1, <1>2, <1>3, <1>4, <1>5, <1>6 DEF TestStep

LEMMA QueueType ==
    ASSUME NEW table \in debug_table, NEW q \in Queues
    PROVE  table[q] \in Seq(Nat)
BY DEF debug_table, Queues

LEMMA NoneIsEmpty ==
    DOMAIN None = Queues /\ \A q \in Queues : None[q] = {}
BY DEF None, Queues

LEMMA RangeOf ==
    ASSUME NEW S, NEW s \in Seq(S)
    PROVE  /\ \A x : x \in Range(s) <=> \E i \in 1..Len(s) : x = s[i]
           /\ Range(s) \subseteq S
BY DEF Range

LEMMA RangeMore ==
    ASSUME NEW S, NEW s \in Seq(S), NEW e \in S
    PROVE  Range(Append(s, e)) = Range(s) \cup {e}
<1>. DEFINE more == Append(s, e)
            n == Len(s)
<1>1. /\ more \in Seq(S) /\ DOMAIN more = 1..(n + 1) /\ DOMAIN s = 1..n /\ n \in Nat
      /\ more[n + 1] = e /\ \A i \in 1..n : more[i] = s[i]
  OBVIOUS
<1>. HIDE DEF more, n
<1>2. 1..(n + 1) = 1..n \cup {n + 1}  BY <1>1
<1>3. \A x : x \in Range(more) <=> \E i \in 1..(n + 1) : x = more[i]
  BY <1>1 DEF Range
<1>4. \A x : x \in Range(s) <=> \E i \in 1..n : x = s[i]  BY <1>1 DEF Range
<1>. QED  BY <1>1, <1>2, <1>3, <1>4 DEF more

LEMMA LastPlace ==
    ASSUME NEW n \in Nat \ {0}
    PROVE  1..n = 1..(n - 1) \cup {n}
<1>1. ASSUME NEW i \in 1..(n - 1) PROVE i \in 1..n  OBVIOUS
<1>2. ASSUME NEW i \in 1..n PROVE i \in 1..(n - 1) \cup {n}  OBVIOUS
<1>. QED  BY <1>1, <1>2

(* A value larger than all in the queue is pushed.                              *)
LEMMA PushMore ==
    ASSUME NEW queue \in Seq(Nat), NEW taken, NEW n \in Nat,
           Increasing(queue), Splits(1..n, queue, taken)
    PROVE  /\ Append(queue, n + 1) \in Seq(Nat)
           /\ Increasing(Append(queue, n + 1))
           /\ Splits(1..(n + 1), Append(queue, n + 1), taken)
<1>. DEFINE more == Append(queue, n + 1)
<1>1. /\ more \in Seq(Nat) /\ Len(more) = Len(queue) + 1 /\ Len(queue) \in Nat
      /\ more[Len(queue) + 1] = n + 1
      /\ \A i \in 1..Len(queue) : more[i] = queue[i]
  OBVIOUS
<1>. HIDE DEF more
<1>2. \A i \in 1..Len(queue) : queue[i] \in 1..n  BY RangeOf DEF Splits
<1>3. Increasing(more)
  <2>. SUFFICES ASSUME NEW i \in 1..Len(more), NEW j \in 1..Len(more), i < j
                PROVE  more[i] < more[j]
    BY DEF Increasing
  <2>1. i \in 1..Len(queue)  BY <1>1
  <2>2. CASE j = Len(queue) + 1
    <3>1. more[j] = n + 1 /\ more[i] = queue[i]  BY <1>1, <2>1, <2>2
    <3>2. queue[i] \in 1..n  BY <1>2, <2>1
    <3>. QED  BY <3>1, <3>2
  <2>3. CASE j # Len(queue) + 1
    <3>1. j \in 1..Len(queue)
      <4>1. Len(queue) \in Nat /\ j \in 1..(Len(queue) + 1)  BY <1>1
      <4>. QED  BY <2>3, <4>1
    <3>. QED  BY <1>1, <2>1, <3>1 DEF Increasing
  <2>. QED  BY <2>2, <2>3
<1>4. Range(more) = Range(queue) \cup {n + 1}
  <2>1. n + 1 \in Nat  OBVIOUS
  <2>. QED  BY <2>1, RangeMore DEF more
<1>5. 1..(n + 1) = 1..n \cup {n + 1} /\ n + 1 \notin 1..n
  <2>1. n + 1 \in Nat \ {0} /\ (n + 1) - 1 = n  OBVIOUS
  <2>. QED  BY <2>1, LastPlace
<1>. QED  BY <1>1, <1>3, <1>4, <1>5 DEF more, Splits

(* The value pushed last is taken: the largest.                                 *)
LEMMA TakeLast ==
    ASSUME NEW queue \in Seq(Nat), queue # <<>>, Increasing(queue)
    PROVE  /\ Front(queue) \in Seq(Nat) /\ Last(queue) \in Nat
           /\ Increasing(Front(queue))
           /\ Splits(Range(queue), Front(queue), {Last(queue)})
           /\ \A w \in Range(queue) : w <= Last(queue)
<1>. DEFINE front == Front(queue)
            n == Len(queue)
<1>1. n \in Nat \ {0} /\ \A i \in 1..n : queue[i] \in Nat  OBVIOUS
<1>2. /\ front \in Seq(Nat) /\ Len(front) = n - 1
      /\ \A i \in 1..(n - 1) : front[i] = queue[i]
  <2>1. \A i \in 1..(n - 1) : queue[i] \in Nat  BY <1>1
  <2>2. front = SubSeq(queue, 1, n - 1)  BY DEF Front
  <2>3. n - 1 \in Int /\ 1 \in Int  BY <1>1
  <2>. HIDE DEF front, n
  <2>4. /\ front \in Seq(Nat) /\ Len(front) = IF 1 <= n - 1 THEN n - 1 - 1 + 1 ELSE 0
        /\ \A i \in 1..(n - 1 - 1 + 1) : front[i] = queue[1 + i - 1]
    BY <2>1, <2>2, <2>3, SubSeqProperties
  <2>. QED  BY <1>1, <2>4
<1>3. Last(queue) = queue[n]  BY DEF Last
<1>. HIDE DEF front, n
<1>4. \A i \in 1..(n - 1) : queue[i] < queue[n]
  BY <1>1 DEF Increasing, n
<1>5. Increasing(front)
  <2>. SUFFICES ASSUME NEW i \in 1..Len(front), NEW j \in 1..Len(front), i < j
                PROVE  front[i] < front[j]
    BY DEF Increasing
  <2>1. i \in 1..(n - 1) /\ j \in 1..(n - 1) /\ i \in 1..n /\ j \in 1..n
    BY <1>1, <1>2
  <2>2. queue[i] < queue[j]  BY <2>1 DEF Increasing, n
  <2>. QED  BY <1>2, <2>1, <2>2
<1>6. \A x : x \in Range(front) <=> \E i \in 1..(n - 1) : x = queue[i]
  <2>1. \A x : x \in Range(front) <=> \E i \in 1..Len(front) : x = front[i]
    BY <1>2, RangeOf
  <2>. QED  BY <1>2, <2>1
<1>7. \A x : x \in Range(queue) <=> \E i \in 1..n : x = queue[i]
  BY RangeOf DEF n
<1>8. 1..n = 1..(n - 1) \cup {n}  BY <1>1, LastPlace
<1>9. Range(queue) = Range(front) \cup {queue[n]}  BY <1>6, <1>7, <1>8
<1>10. queue[n] \notin Range(front)
  <2>. SUFFICES ASSUME NEW i \in 1..(n - 1), queue[n] = queue[i] PROVE FALSE
    BY <1>6
  <2>1. queue[i] < queue[n] /\ queue[n] \in Nat  BY <1>1, <1>4
  <2>. QED  BY <2>1
<1>11. \A w \in Range(queue) : w <= queue[n]  BY <1>1, <1>4, <1>7, <1>8
<1>. QED  BY <1>1, <1>2, <1>3, <1>5, <1>9, <1>10, <1>11 DEF front, Splits

LEMMA DebugPushed ==
    ASSUME DebugInv, NEW q \in Queues, Pushed(q), tx' = NoTx
    PROVE  DebugInv'
<1>. DEFINE more == Append(debug[q], pushes[q] + 1)
<1>1. /\ tx = NoTx /\ debug \in debug_table /\ global_debug \in debug_table
      /\ pushes \in [Queues -> Nat] /\ given = None
      /\ DOMAIN played = Queues /\ DOMAIN given = Queues
      /\ \A p \in Queues : /\ Increasing(debug[p])
                           /\ Splits(1..pushes[p], debug[p], played[p])
  BY DEF DebugInv, Pushed
<1>2. /\ pushes' = [pushes EXCEPT ![q] = @ + 1]
      /\ debug' = [debug EXCEPT ![q] = more]
      /\ UNCHANGED <<global_debug, played, given>>
  BY DEF Pushed
<1>3. debug[q] \in Seq(Nat) /\ pushes[q] \in Nat  BY <1>1, QueueType
<1>4. /\ more \in Seq(Nat) /\ Increasing(more)
      /\ Splits(1..(pushes[q] + 1), more, played[q])
  BY <1>1, <1>3, PushMore
<1>. HIDE DEF more
<1>5. /\ debug' \in debug_table
      /\ \A p \in Queues : debug'[p] = IF p = q THEN more ELSE debug[p]
  <2>1. debug' = [debug EXCEPT ![q] = more]  BY <1>2
  <2>. QED  BY <1>1, <1>4, <2>1 DEF debug_table, Queues
<1>6. /\ pushes' \in [Queues -> Nat]
      /\ \A p \in Queues : pushes'[p] = IF p = q THEN pushes[q] + 1 ELSE pushes[p]
  BY <1>1, <1>2, <1>3
<1>7. ASSUME NEW p \in Queues
      PROVE  /\ Increasing(debug'[p])
             /\ Splits(1..pushes'[p], debug'[p], played[p])
  <2>1. CASE p = q  BY <1>4, <1>5, <1>6, <2>1
  <2>2. CASE p # q  BY <1>1, <1>5, <1>6, <2>2
  <2>. QED  BY <2>1, <2>2
<1>. QED  BY <1>1, <1>2, <1>5, <1>6, <1>7 DEF DebugInv

(* Nothing was taken yet of a queue that is as it was.                          *)
LEMMA SplitsNone ==
    ASSUME NEW queue
    PROVE  Splits(Range(queue), queue, {})
BY DEF Splits

LEMMA DebugLoads ==
    ASSUME DebugInv, tx = NoTx, tx' # NoTx, Loads
    PROVE  DebugInv'
<1>1. /\ global_debug' = debug /\ given' = None
      /\ UNCHANGED <<debug, pushes, played>>
  BY DEF Loads
<1>2. DOMAIN given' = Queues /\ \A q \in Queues : given'[q] = {}
  BY <1>1, NoneIsEmpty
<1>3. \A q \in Queues : Splits(Range(debug'[q]), global_debug'[q], given'[q])
  BY <1>1, <1>2, SplitsNone
<1>4. "pseudo_prng" \in Queues /\ "pseudo_queue" \in Queues  BY DEF Queues
<1>. QED  BY <1>1, <1>2, <1>3, <1>4 DEF DebugInv

LEMMA DebugLoadsPart2 ==
    ASSUME DebugInv, tx = NoTx, tx' # NoTx, LoadsPart2
    PROVE  DebugInv'
<1>. DEFINE queue == debug["pseudo_queue"]
            v     == Last(queue)
            rest  == Front(queue)
<1>0. "pseudo_prng" \in Queues /\ "pseudo_queue" \in Queues  BY DEF Queues
<1>1. CASE queue = <<>>  BY <1>1, DebugLoads DEF LoadsPart2
<1>2. CASE queue # <<>>
  <2>1. /\ global_debug' = [debug EXCEPT !["pseudo_queue"] = rest]
        /\ given' = [None EXCEPT !["pseudo_queue"] = {v}]
        /\ UNCHANGED <<debug, pushes, played>>
    BY <1>2 DEF LoadsPart2, NextRandom
  <2>2. debug \in debug_table /\ queue \in Seq(Nat) /\ Increasing(queue)
    BY <1>0, QueueType DEF DebugInv
  <2>3. /\ rest \in Seq(Nat) /\ Increasing(rest)
        /\ Splits(Range(queue), rest, {v}) /\ \A w \in Range(queue) : w <= v
    BY <1>2, <2>2, TakeLast
  <2>. HIDE DEF rest, v
  <2>4. /\ global_debug' \in debug_table
        /\ \A p \in Queues : global_debug'[p] =
             IF p = "pseudo_queue" THEN rest ELSE debug[p]
    <3>1. global_debug' = [debug EXCEPT !["pseudo_queue"] = rest]  BY <2>1
    <3>. QED  BY <2>2, <2>3, <3>1 DEF debug_table, Queues
  <2>5. /\ DOMAIN given' = Queues /\ given'["pseudo_queue"] = {v}
        /\ \A p \in Queues : p # "pseudo_queue" => given'[p] = {}
    BY <1>0, <2>1, NoneIsEmpty
  <2>6. ASSUME NEW p \in Queues
        PROVE  /\ Increasing(global_debug'[p])
               /\ Splits(Range(debug'[p]), global_debug'[p], given'[p])
    <3>1. CASE p = "pseudo_queue"  BY <2>1, <2>3, <2>4, <2>5, <3>1
    <3>2. CASE p # "pseudo_queue"
      <4>1. /\ debug' = debug /\ global_debug'[p] = debug[p] /\ given'[p] = {}
            /\ Increasing(debug[p])
        BY <2>1, <2>4, <2>5, <3>2 DEF DebugInv
      <4>. QED  BY <4>1, SplitsNone
    <3>. QED  BY <3>1, <3>2
  <2>7. given'["pseudo_prng"] = {}  BY <1>0, <2>5
  <2>8. \A u \in given'["pseudo_queue"] : \A w \in Range(debug'["pseudo_queue"]) : w <= u
    BY <2>1, <2>3, <2>5
  <2>9. /\ debug' \in debug_table /\ pushes' \in [Queues -> Nat]
        /\ DOMAIN played' = Queues
        /\ \A q \in Queues : /\ Increasing(debug'[q])
                             /\ Splits(1..pushes'[q], debug'[q], played'[q])
    BY <2>1 DEF DebugInv
  <2>. QED  BY <2>4, <2>5, <2>6, <2>7, <2>8, <2>9 DEF DebugInv
<1>. QED  BY <1>1, <1>2

LEMMA EmptyTable ==
    /\ Empty \in debug_table
    /\ \A q \in Queues : Empty[q] = <<>>
BY DEF Empty, debug_table, Queues

LEMMA RangeOfNone == <<>> \in Seq(Nat) /\ Range(<<>>) = {} /\ Increasing(<<>>)
BY DEF Range, Increasing

LEMMA DebugDrops ==
    ASSUME DebugInv, tx' = NoTx, Drops
    PROVE  DebugInv'
BY EmptyTable, NoneIsEmpty DEF Drops, DebugInv

LEMMA DebugStores ==
    ASSUME DebugInv, tx # NoTx, tx' = NoTx, Stores
    PROVE  DebugInv'
<1>1. /\ debug' = global_debug /\ global_debug' = Empty /\ given' = None
      /\ played' = [q \in DOMAIN played |-> played[q] \cup given[q]]
      /\ pushes' = pushes
  BY DEF Stores
<1>2. ASSUME NEW q \in Queues
      PROVE  /\ Increasing(debug'[q])
             /\ Splits(1..pushes'[q], debug'[q], played'[q])
  <2>1. played'[q] = played[q] \cup given[q]  BY <1>1 DEF DebugInv
  <2>2. /\ Splits(1..pushes[q], debug[q], played[q])
        /\ Splits(Range(debug[q]), global_debug[q], given[q])
        /\ Increasing(global_debug[q])
    BY DEF DebugInv
  <2>. QED  BY <1>1, <2>1, <2>2 DEF Splits
<1>3. DOMAIN played' = Queues  BY <1>1 DEF DebugInv
<1>4. /\ debug' \in debug_table /\ global_debug' \in debug_table
      /\ pushes' \in [Queues -> Nat] /\ DOMAIN given' = Queues
  BY <1>1, EmptyTable, NoneIsEmpty DEF DebugInv
<1>. QED  BY <1>1, <1>2, <1>3, <1>4 DEF DebugInv

(* The generator takes all there is.                                            *)
LEMMA DebugPrng ==
    ASSUME DebugInv, tx # NoTx, tx' # NoTx, get_prng
    PROVE  DebugInv'
<1>. DEFINE queue == global_debug["pseudo_prng"]
<1>0. "pseudo_prng" \in Queues /\ "pseudo_queue" \in Queues  BY DEF Queues
<1>1. /\ global_debug' = [global_debug EXCEPT !["pseudo_prng"] = <<>>]
      /\ given' = [given EXCEPT !["pseudo_prng"] = Range(queue)]
      /\ UNCHANGED <<debug, pushes, played>> /\ queue # <<>>
  BY DEF get_prng
<1>2. /\ given["pseudo_prng"] = {}
      /\ Splits(Range(debug["pseudo_prng"]), queue, given["pseudo_prng"])
      /\ global_debug \in debug_table /\ DOMAIN given = Queues
  BY <1>0, <1>1 DEF DebugInv
<1>3. /\ global_debug' \in debug_table
      /\ \A p \in Queues : global_debug'[p] =
           IF p = "pseudo_prng" THEN <<>> ELSE global_debug[p]
  <2>1. global_debug' = [global_debug EXCEPT !["pseudo_prng"] = <<>>]  BY <1>1
  <2>. QED  BY <1>2, <2>1, RangeOfNone DEF debug_table, Queues
<1>4. /\ DOMAIN given' = Queues /\ given'["pseudo_prng"] = Range(queue)
      /\ \A p \in Queues : p # "pseudo_prng" => given'[p] = given[p]
  BY <1>0, <1>1, <1>2
<1>5. Splits(Range(debug["pseudo_prng"]), <<>>, Range(queue))
  BY <1>2, RangeOfNone DEF Splits
<1>6. ASSUME NEW p \in Queues
      PROVE  /\ Increasing(global_debug'[p])
             /\ Splits(Range(debug'[p]), global_debug'[p], given'[p])
  <2>1. CASE p = "pseudo_prng"  BY <1>1, <1>3, <1>4, <1>5, <2>1, RangeOfNone
  <2>2. CASE p # "pseudo_prng"  BY <1>1, <1>3, <1>4, <2>2 DEF DebugInv
  <2>. QED  BY <2>1, <2>2
<1>7. \A u \in given'["pseudo_queue"] : \A w \in Range(debug'["pseudo_queue"]) : w <= u
  <2>1. given'["pseudo_queue"] = given["pseudo_queue"]  BY <1>0, <1>4
  <2>. QED  BY <1>1, <2>1 DEF DebugInv
<1>8. global_debug'["pseudo_prng"] = <<>>  BY <1>0, <1>3
<1>9. /\ debug' \in debug_table /\ pushes' \in [Queues -> Nat]
      /\ DOMAIN played' = Queues
      /\ \A q \in Queues : /\ Increasing(debug'[q])
                           /\ Splits(1..pushes'[q], debug'[q], played'[q])
  BY <1>1 DEF DebugInv
<1>. QED  BY <1>3, <1>4, <1>6, <1>7, <1>8, <1>9 DEF DebugInv

LEMMA DebugStep ==
    ASSUME TypeOK, PlanInv, DebugInv, TestStep
    PROVE  DebugInv'
<1>1. CASE Untouched /\ (tx = NoTx <=> tx' = NoTx)
  BY <1>1 DEF Untouched, DebugInv
<1>. QED  BY <1>1, DebugKinds, DebugPushed, DebugLoads, DebugLoadsPart2, DebugDrops,
         DebugStores, DebugPrng

LEMMA DebugStart ==
    ASSUME DebugInit, tx = NoTx
    PROVE  DebugInv
<1>1. /\ debug = Empty /\ global_debug = Empty /\ played = None /\ given = None
      /\ pushes = [q \in Queues |-> 0]
  BY DEF DebugInit, Queues
<1>2. ASSUME NEW q \in Queues
      PROVE  Increasing(debug[q]) /\ Splits(1..pushes[q], debug[q], played[q])
  <2>1. debug[q] = <<>> /\ played[q] = {} /\ pushes[q] = 0
    BY <1>1, EmptyTable, NoneIsEmpty
  <2>2. 1..0 = {}  OBVIOUS
  <2>. QED  BY <2>1, <2>2, RangeOfNone DEF Splits
<1>. QED  BY <1>1, <1>2, EmptyTable, NoneIsEmpty DEF DebugInv

-------------------------------------------------------------------------------
(* The row of a transaction.                                                    *)

SameDeal(row, new) ==
    /\ new.player = row.player
    /\ new.deposit = row.deposit
    /\ new.bonus_deposit = row.bonus_deposit

(* What a transaction opens with, by its action.                                *)
OpensWith(act, row) ==
    \/ /\ act.name = "newgame" /\ sessions[act.ses_id] # NoRow
       /\ sessions[act.ses_id].state = "req_start"
       /\ row.state = "req_start" /\ outbox' = <<game_started>>
       /\ SameDeal(sessions[act.ses_id], row)
    \/ /\ act.name = "newgamebon"
       /\ row.state = "req_start" /\ outbox' = <<game_started>>
       /\ row.bonus_deposit = act.quantity
       /\ IF sessions[act.ses_id] = NoRow
          THEN row.player = act.from /\ row.deposit = act.quantity
          ELSE /\ row.player = sessions[act.ses_id].player
               /\ row.deposit = sessions[act.ses_id].deposit + act.quantity
    \/ /\ act.name \in {"gameaction", "sgdicesecond"}
       /\ sessions[act.ses_id] # NoRow /\ outbox' = <<>>
       /\ row.state \in {"req_action", "req_signidice_part_2"}
       /\ SameDeal(sessions[act.ses_id], row)

LEMMA StartsWith ==
    ASSUME NEW row \in Row, NEW id, NEW casino_id \in Casinos, NEW book, NEW seq,
           NewGameInternal(id, casino_id, row, book, seq)
    PROVE  /\ tx'.row \in Row /\ row.state = "req_start"
           /\ tx'.row.state = "req_start" /\ SameDeal(row, tx'.row)
<1>. DEFINE d == calc_seed(casino_id, row.ses_seq, row.player)
            new == [row EXCEPT !.idle = 0, !.casino_id = casino_id, !.digest = d]
<1>1. d \in Digest
  <2>1. row.ses_seq \in Nat /\ row.player \in Players  BY DEF Row
  <2>. QED  BY <2>1, SeedType
<1>2. Begin("on_new_game", id, new, NotifyNewSession(book, casino_id), seq, NoDigest)
      /\ row.state = "req_start"
  BY DEF NewGameInternal
<1>. HIDE DEF d
<1>3. new \in Row /\ new.state = row.state /\ SameDeal(row, new)
  BY <1>1 DEF Row, SameDeal
<1>. HIDE DEF new
<1>4. tx'.row = new  BY <1>2 DEF Begin
<1>. QED  BY <1>2, <1>3, <1>4

LEMMA OpensRow ==
    ASSUME LedgerInv, NEW act, act.ses_id \in SesIds, Opens(act),
           act.name \in {"transfer", "depositbon", "newgamebon"}
             => act.from \in Players /\ act.quantity \in Quantities
    PROVE  /\ tx'.row \in Row /\ OpensWith(act, tx'.row)
<1>. DEFINE id == act.ses_id
<1>0. TypeOK /\ session_seq \in Nat /\ sessions[id] \in Row \cup {NoRow}
  BY DEF LedgerInv, TypeOK
<1>1. CASE act.name = "newgame" /\ NewGame(id, Casino) /\ Opening(<<game_started>>)
  <2>1. /\ sessions[id] # NoRow /\ outbox' = <<game_started>>
        /\ NewGameInternal(id, Casino, sessions[id], books[id], session_seq)
    BY <1>1 DEF NewGame, Opening
  <2>. QED  BY <1>0, <1>1, <2>1, StartsWith, TesterAssumption DEF OpensWith
<1>2. CASE /\ act.name = "newgamebon"
           /\ NewGameBonus(id, Casino, act.from, act.quantity)
           /\ Opening(<<game_started>>)
  <2>. DEFINE q == act.quantity
              book(row) == NotifyNewBonusDeposit(books[id], row.casino_id, q)
  <2>1. /\ act.from \in Players /\ q \in Nat \ {0} /\ outbox' = <<game_started>>
    BY <1>2, SetsAssumption DEF Opening
  <2>2. CASE /\ sessions[id] # NoRow
             /\ NewGameInternal(id, Casino, AddBonus(sessions[id], q),
                                book(sessions[id]), session_seq)
    <3>. DEFINE row == AddBonus(sessions[id], q)
    <3>1. sessions[id] \in Row  BY <1>0, <2>2
    <3>2. row \in Row  BY <2>1, <3>1, AddBonusType
    <3>3. /\ row.player = sessions[id].player /\ row.bonus_deposit = q
          /\ row.deposit = sessions[id].deposit + q
      BY <3>1 DEF AddBonus, Row
    <3>4. NewGameInternal(id, Casino, row, book(sessions[id]), session_seq)  BY <2>2
    <3>. HIDE DEF row, book, q
    <3>5. /\ tx'.row \in Row /\ tx'.row.state = "req_start" /\ SameDeal(row, tx'.row)
      BY <3>2, <3>4, StartsWith, TesterAssumption
    <3>. QED  BY <1>2, <2>1, <2>2, <3>3, <3>5 DEF OpensWith, SameDeal, q
  <2>3. CASE /\ sessions[id] = NoRow
             /\ \E row \in CreateSession(session_seq, act.from, CoreToken, 0) :
                  NewGameInternal(id, Casino, AddBonus(row, q), book(row),
                                  session_seq + 1)
    <3>1. PICK row \in CreateSession(session_seq, act.from, CoreToken, 0) :
            NewGameInternal(id, Casino, AddBonus(row, q), book(row), session_seq + 1)
      BY <2>3
    <3>. DEFINE new == AddBonus(row, q)
    <3>2. new \in Row
      <4>1. 0 \in Nat /\ CoreToken \in Tokens  BY SetsAssumption
      <4>. QED  BY <1>0, <2>1, <4>1, CreateType
    <3>3. new.player = act.from /\ new.bonus_deposit = q /\ new.deposit = 0 + q
      BY DEF AddBonus, CreateSession
    <3>4. NewGameInternal(id, Casino, new, book(row), session_seq + 1)  BY <3>1
    <3>. HIDE DEF new, book, q
    <3>5. /\ tx'.row \in Row /\ tx'.row.state = "req_start" /\ SameDeal(new, tx'.row)
      BY <3>2, <3>4, StartsWith, TesterAssumption
    <3>6. 0 + q = q  BY <2>1
    <3>. QED  BY <1>2, <2>1, <2>3, <3>3, <3>5, <3>6 DEF OpensWith, SameDeal, q
  <2>. QED  BY <1>2, <2>2, <2>3 DEF NewGameBonus
<1>3. CASE act.name = "gameaction" /\ GameAction(id) /\ Opening(<<>>)
  <2>. DEFINE new == [sessions[id] EXCEPT !.idle = 0, !.state = "req_action",
                                          !.acted = TRUE]
  <2>1. sessions[id] # NoRow /\ sessions[id] \in Row  BY <1>0, <1>3 DEF GameAction
  <2>2. tx'.row = new  BY <1>3 DEF GameAction, Begin
  <2>3. new \in Row /\ new.state = "req_action" /\ SameDeal(sessions[id], new)
    BY <2>1 DEF Row, States, SameDeal
  <2>. QED  BY <1>3, <2>1, <2>2, <2>3 DEF OpensWith, Opening
<1>4. CASE /\ act.name = "sgdicesecond" /\ SignidicePart2(id, Signed(Casino, id))
           /\ Opening(<<>>)
  <2>. DEFINE sign == Signed(Casino, id)
              new == [sessions[id] EXCEPT !.digest = Sha256(sign), !.idle = 0]
  <2>1. /\ sessions[id] # NoRow /\ sessions[id] \in Row
        /\ sessions[id].state = "req_signidice_part_2"
        /\ RsaVerify(sessions[id].digest, sign, sessions[id].casino_id)
    BY <1>0, <1>4 DEF SignidicePart2
  <2>2. tx'.row = new  BY <1>4 DEF SignidicePart2, Begin
  <2>3. sign \in Signatures  BY <2>1, SignedIs, TesterAssumption DEF Keys
  <2>. HIDE DEF sign
  <2>4. Sha256(sign) \in Digest  BY <2>1, <2>3, SignedType
  <2>5. new \in Row /\ new.state = "req_signidice_part_2" /\ SameDeal(sessions[id], new)
    BY <2>1, <2>4 DEF Row, SameDeal
  <2>. QED  BY <1>4, <2>1, <2>2, <2>5 DEF OpensWith, Opening
<1>. QED  BY <1>1, <1>2, <1>3, <1>4 DEF Opens

-------------------------------------------------------------------------------
(* The calls of a game.                                                         *)

(* One more event: it counts under its type.                                    *)
LEMMA OneMore ==
    ASSUME EventsInv, NEW event \in EventRecord, Emit(event), NEW type
    PROVE  OfType(Range(outbox'), type) =
             IF event.type = type THEN OfType(Range(outbox), type) \cup {event}
             ELSE OfType(Range(outbox), type)
<1>1. outbox \in Seq(EventRecord) /\ outbox' = Append(outbox, event)
  BY DEF EventsInv, EventsTypeOK, Emit
<1>2. Range(outbox') = Range(outbox) \cup {event}  BY <1>1, RangeMore
<1>. QED  BY <1>2 DEF OfType

LEMMA CallRow ==
    ASSUME LedgerInv, EventsInv, InGame
    PROVE  /\ \/ tx'.row \in {NoRow, tx.row}
              \/ tx.row \in Row /\ tx'.row \in Row /\ SameDeal(tx.row, tx'.row)
           /\ Sees(tx.row, Range(outbox)) => Sees(tx'.row, Range(outbox'))
<1>1. CASE get_prng  BY <1>1 DEF get_prng, eventVars, vars
<1>2. CASE SendGameMessage
  <2>1. game_message \in EventRecord /\ game_message.type = "game_message"
    BY NamedEvents
  <2>2. tx' = tx /\ Emit(game_message)  BY <1>2 DEF SendGameMessage, vars
  <2>3. \A type : type # "game_message"
          => OfType(Range(outbox'), type) = OfType(Range(outbox), type)
    BY <2>1, <2>2, OneMore
  <2>. QED  BY <2>2, <2>3 DEF Sees
<1>3. ASSUME NEW allow_deposit \in BOOLEAN, EmitRequireAction(allow_deposit)
      PROVE  /\ tx.row \in Row /\ tx'.row \in Row /\ SameDeal(tx.row, tx'.row)
             /\ Sees(tx.row, Range(outbox)) => Sees(tx'.row, Range(outbox'))
  <2>. DEFINE event == action_request(allow_deposit)
              state == IF allow_deposit THEN "req_allow_deposit" ELSE "req_action"
  <2>1. /\ InCallback /\ Emit(event) /\ CanRequireAction(tx.row)
        /\ tx' = [tx EXCEPT !.row.state = state]
    BY <1>3 DEF EmitRequireAction, RequireAction
  <2>2. tx \in Tx /\ tx.row \in Row  BY <2>1, InCallbackSound
  <2>3. event \in EventRecord /\ event.type = "action_request"
    BY EventType, NoDigestType DEF action_request, Types
  <2>4. state \in {"req_allow_deposit", "req_action"}  OBVIOUS
  <2>. HIDE DEF event, state
  <2>5. tx'.row = [tx.row EXCEPT !.state = state]  BY <2>1, <2>2 DEF Tx
  <2>6. tx'.row \in Row /\ SameDeal(tx.row, tx'.row) /\ tx'.row.state = state
    BY <2>2, <2>4, <2>5 DEF Row, States, SameDeal
  <2>7. \A type : type # "action_request"
          => OfType(Range(outbox'), type) = OfType(Range(outbox), type)
    BY <2>1, <2>3, OneMore
  <2>8. tx.row # NoRow /\ tx'.row # NoRow  BY <2>2, <2>6, NoRowIsNoRow
  <2>. QED  BY <2>1, <2>2, <2>4, <2>6, <2>7, <2>8 DEF Sees, CanRequireAction
<1>4. ASSUME EmitRequireRandom
      PROVE  /\ tx.row \in Row /\ tx'.row \in Row /\ SameDeal(tx.row, tx'.row)
             /\ Sees(tx.row, Range(outbox)) => Sees(tx'.row, Range(outbox'))
  <2>. DEFINE event == signidice_part_1_request(tx.row.digest)
  <2>1. /\ InCallback /\ Emit(event) /\ CanRequireRandom(tx.row)
        /\ tx' = [tx EXCEPT !.row.state = "req_signidice_part_1"]
    BY <1>4 DEF EmitRequireRandom, RequireRandom
  <2>2. tx \in Tx /\ tx.row \in Row  BY <2>1, InCallbackSound
  <2>3. event \in EventRecord /\ event.type = "signidice_part_1_request"
    BY <2>2, NamedEvents DEF Row
  <2>5. tx'.row = [tx.row EXCEPT !.state = "req_signidice_part_1"]
    BY <2>1, <2>2 DEF Tx
  <2>6. /\ tx'.row \in Row /\ SameDeal(tx.row, tx'.row)
        /\ tx'.row.state = "req_signidice_part_1" /\ tx'.row.digest = tx.row.digest
    BY <2>2, <2>5 DEF Row, States, SameDeal
  <2>9. event = signidice_part_1_request(tx'.row.digest)  BY <2>6
  <2>. HIDE DEF event
  <2>7. /\ OfType(Range(outbox'), "signidice_part_1_request") =
             OfType(Range(outbox), "signidice_part_1_request") \cup {event}
        /\ OfType(Range(outbox'), "game_finished") =
             OfType(Range(outbox), "game_finished")
    BY <2>1, <2>3, OneMore
  <2>8. tx.row # NoRow /\ tx'.row # NoRow  BY <2>2, <2>6, NoRowIsNoRow
  <2>10. tx.row.state # "req_signidice_part_1"  BY <2>1 DEF CanRequireRandom
  <2>. QED  BY <2>2, <2>6, <2>7, <2>8, <2>9, <2>10 DEF Sees
<1>5. ASSUME NEW new_max_win \in MaxWins, EmitUpdateMaxWin(new_max_win)
      PROVE  /\ tx.row \in Row /\ tx'.row \in Row /\ SameDeal(tx.row, tx'.row)
             /\ Sees(tx.row, Range(outbox)) => Sees(tx'.row, Range(outbox'))
  <2>1. InCallback /\ TypeOK /\ tx \in Tx /\ tx.row \in Row /\ UNCHANGED outbox
    BY <1>5, InCallbackSound DEF EmitUpdateMaxWin, UpdateMaxWin
  <2>2. PICK lost \in Int :
          LET delta == lost - tx.row.last_max_win
              row   == [tx.row EXCEPT !.last_max_win = lost]
              book  == NotifyUpdateSession(tx.book, tx.row.casino_id, delta)
          IN row \in Row /\ tx' = [tx EXCEPT !.row = row, !.book = book]
    BY <1>5, <2>1, UpdateMaxWinStep DEF EmitUpdateMaxWin
  <2>3. tx'.row = [tx.row EXCEPT !.last_max_win = lost] /\ tx'.row \in Row
    BY <2>1, <2>2 DEF Tx
  <2>4. /\ SameDeal(tx.row, tx'.row) /\ tx'.row.state = tx.row.state
        /\ tx'.row.digest = tx.row.digest
    BY <2>1, <2>3 DEF Row, SameDeal
  <2>5. tx.row # NoRow /\ tx'.row # NoRow  BY <2>1, <2>3, NoRowIsNoRow
  <2>. QED  BY <2>1, <2>3, <2>4, <2>5 DEF Sees
<1>6. ASSUME NEW player_payout \in Payouts, EmitFinish(player_payout)
      PROVE  /\ tx'.row = NoRow
             /\ Sees(tx.row, Range(outbox)) => Sees(tx'.row, Range(outbox'))
  <2>1. /\ InCallback /\ Emit(game_finished) /\ CanFinish(tx.row, player_payout)
    BY <1>6 DEF EmitFinish, FinishGame
  <2>2. tx \in Tx /\ tx.row \in Row  BY <2>1, InCallbackSound
  <2>3. tx'.row = NoRow  BY <1>6, <2>2 DEF EmitFinish, FinishGame, Tx
  <2>4. game_finished \in EventRecord /\ game_finished.type = "game_finished"
    BY NamedEvents
  <2>5. /\ OfType(Range(outbox'), "signidice_part_1_request") =
             OfType(Range(outbox), "signidice_part_1_request")
        /\ OfType(Range(outbox'), "game_finished") =
             OfType(Range(outbox), "game_finished") \cup {game_finished}
    BY <2>1, <2>4, OneMore
  <2>6. tx.row.state # "req_signidice_part_1"  BY <2>1 DEF CanFinish
  <2>. QED  BY <2>3, <2>5, <2>6 DEF Sees
<1>. QED  BY <1>1, <1>2, <1>3, <1>4, <1>5, <1>6 DEF InGame, DebugCall

-------------------------------------------------------------------------------
(* What a helper starts with.                                                   *)

NewSession(c, acts) ==
    /\ c.asked # NoSession
    /\ c.asked.real + c.asked.bonus > 0
    /\ c.ses_id = ses_id[c.asked.overload]
    /\ acts \in {<<ToStart(c)>>, <<ToTransfer(c), ToStart(c)>>}
    /\ Len(acts) = IF c.asked.real > 0 THEN 2 ELSE 1
    /\ c.found = (sessions[c.ses_id] # NoRow)

LEMMA NewSessionGets ==
    ASSUME NEW player \in Players, NEW real \in Quantities \cup {0},
           NEW bonus \in Quantities \cup {0}, NEW result \in Results,
           NEW overload \in Overloads, NEW acts, real + bonus > 0,
           LET first == Action("transfer", ses_id[overload], player, real, "success")
               last  == IF bonus > 0
                        THEN Action("newgamebon", ses_id[overload], player, bonus, result)
                        ELSE Action("newgame", ses_id[overload], player, 0, result)
           IN acts = IF real > 0 THEN <<first, last>> ELSE <<last>>,
           Calls("new_game_session", result, Session(overload, player, real, bonus),
                 ses_id[overload], acts)
    PROVE  plan' = acts /\ NewSession(call', acts)
<1>. DEFINE asked == Session(overload, player, real, bonus)
            found == sessions[ses_id[overload]] # NoRow
<1>1. /\ asked.overload = overload /\ asked.player = player
      /\ asked.real = real /\ asked.bonus = bonus
  BY DEF Session
<1>2. asked # NoSession  BY DEF Session, NoSession
<1>3. /\ call' = [helper |-> "new_game_session", result |-> result, asked |-> asked,
                  ses_id |-> ses_id[overload], found |-> found]
      /\ plan' = acts
  BY DEF Calls
<1>. HIDE DEF asked
<1>4. /\ call'.asked = asked /\ call'.ses_id = ses_id[overload]
      /\ call'.result = result
  BY <1>3
<1>9. call'.found = found  BY <1>3
<1>5. ToTransfer(call') = Action("transfer", ses_id[overload], player, real, "success")
  BY <1>1, <1>4 DEF ToTransfer
<1>6. ToStart(call') =
        IF bonus > 0 THEN Action("newgamebon", ses_id[overload], player, bonus, result)
        ELSE Action("newgame", ses_id[overload], player, 0, result)
  BY <1>1, <1>4 DEF ToStart
<1>7. acts = IF real > 0 THEN <<ToTransfer(call'), ToStart(call')>>
             ELSE <<ToStart(call')>>
  BY <1>5, <1>6
<1>8. Len(acts) = IF real > 0 THEN 2 ELSE 1  BY <1>7
<1>. QED  BY <1>1, <1>2, <1>3, <1>4, <1>7, <1>8, <1>9 DEF NewSession

LEMMA SomeLast ==
    ASSUME NEW S, NEW s \in Seq(S), NEW t \in Seq(S), NEW e \in S
    PROVE  s \o t \o <<e>> # <<>>
<1>. DEFINE u == s \o t
<1>1. u \in Seq(S)  OBVIOUS
<1>. HIDE DEF u
<1>2. Len(u \o <<e>>) = Len(u) + 1 /\ Len(u) \in Nat  BY <1>1
<1>3. u \o <<e>> # <<>>  BY <1>2
<1>. QED  BY <1>3 DEF u

LEMMA HelperGets ==
    ASSUME HelperCalled
    PROVE  /\ plan' # <<>>
           /\ call'.helper = "new_game_session" => NewSession(call', plan')
           /\ call'.helper \in {"game_action", "signidice"}
                => sessions[call'.ses_id] # NoRow
<1>1. ASSUME NEW helper, NEW result, NEW asked, NEW id, NEW acts,
             Calls(helper, result, asked, id, acts)
      PROVE  plan' = acts /\ call'.helper = helper /\ call'.ses_id = id
  <2>1. /\ plan' = acts
        /\ call' = [helper |-> helper, result |-> result, asked |-> asked,
                    ses_id |-> id, found |-> sessions[id] # NoRow]
    BY <1>1 DEF Calls
  <2>. QED  BY <2>1
<1>2. ASSUME NewSession(call', plan'), call'.helper = "new_game_session"
      PROVE  /\ plan' # <<>>
             /\ call'.helper \notin {"game_action", "signidice"}
  <2>1. Len(plan') # 0  BY <1>2 DEF NewSession
  <2>2. plan' # <<>>  BY <2>1
  <2>. QED  BY <1>2, <2>2
<1>3. ASSUME NEW player \in Players, NEW real \in Quantities, NEW result \in Results,
             new_game_session_deposit(player, real, result)
      PROVE  NewSession(call', plan') /\ call'.helper = "new_game_session"
  <2>. DEFINE id == ses_id["deposit"]
              acts == << Action("transfer", id, player, real, "success"),
                         Action("newgame", id, player, 0, result) >>
  <2>1. Calls("new_game_session", result, Session("deposit", player, real, 0), id, acts)
    BY <1>3 DEF new_game_session_deposit
  <2>. HIDE DEF acts
  <2>2. LET first == Action("transfer", id, player, real, "success")
            last  == IF 0 > 0 THEN Action("newgamebon", id, player, 0, result)
                     ELSE Action("newgame", id, player, 0, result)
        IN acts = IF real > 0 THEN <<first, last>> ELSE <<last>>
    BY DepositPlan DEF acts
  <2>3. real + 0 > 0  BY SetsAssumption
  <2>. QED  BY <1>1, <2>1, <2>2, <2>3, NewSessionGets DEF Overloads
<1>4. ASSUME NEW player \in Players, NEW real \in Quantities \cup {0},
             NEW bonus \in Quantities \cup {0}, NEW result \in Results,
             new_game_session_bonus(player, real, bonus, result)
      PROVE  NewSession(call', plan') /\ call'.helper = "new_game_session"
  <2>. DEFINE id == ses_id["real_and_bonus"]
              acts == (IF real > 0
                   THEN << Action("transfer", id, player, real, "success") >> ELSE <<>>)
                  \o << IF bonus > 0 THEN Action("newgamebon", id, player, bonus, result)
                        ELSE Action("newgame", id, player, 0, result) >>
  <2>1. /\ real + bonus > 0
        /\ Calls("new_game_session", result,
                 Session("real_and_bonus", player, real, bonus), id, acts)
    BY <1>4 DEF new_game_session_bonus
  <2>. HIDE DEF acts, id
  <2>3. acts = (IF real > 0
                THEN << Action("transfer", id, player, real, "success") >> ELSE <<>>)
               \o << IF bonus > 0 THEN Action("newgamebon", id, player, bonus, result)
                     ELSE Action("newgame", id, player, 0, result) >>
    BY DEF acts
  <2>2. LET first == Action("transfer", id, player, real, "success")
            last  == IF bonus > 0 THEN Action("newgamebon", id, player, bonus, result)
                     ELSE Action("newgame", id, player, 0, result)
        IN acts = IF real > 0 THEN <<first, last>> ELSE <<last>>
    BY <2>3, BonusPlan
  <2>. QED  BY <1>1, <2>1, <2>2, NewSessionGets DEF Overloads, id
<1>5. ASSUME NEW id \in SesIds, NEW real \in Quantities \cup {0},
             NEW bonus \in Quantities \cup {0}, NEW result \in Results,
             game_action(id, real, bonus, result)
      PROVE  /\ plan' # <<>> /\ call'.helper = "game_action" /\ call'.ses_id = id
             /\ sessions[id] # NoRow
  <2>. DEFINE player == sessions[id].player
              a == Action("transfer", id, player, real, "any")
              b == Action("depositbon", id, player, bonus, "success")
              c == Action("gameaction", id, player, 0, result)
              acts == (IF real > 0 THEN <<a>> ELSE <<>>)
                      \o (IF bonus > 0 THEN <<b>> ELSE <<>>) \o <<c>>
  <2>1. Calls("game_action", result, NoSession, id, acts) /\ sessions[id] # NoRow
    BY <1>5 DEF game_action
  <2>. HIDE DEF a, b, c
  <2>2. acts # <<>>
    <3>. DEFINE S == {a, b, c}
    <3>1. a \in S /\ b \in S /\ c \in S  OBVIOUS
    <3>. HIDE DEF S
    <3>2. <<a>> \in Seq(S) /\ <<b>> \in Seq(S) /\ <<>> \in Seq(S)  BY <3>1
    <3>3. /\ (IF real > 0 THEN <<a>> ELSE <<>>) \in Seq(S)
          /\ (IF bonus > 0 THEN <<b>> ELSE <<>>) \in Seq(S)
      BY <3>2
    <3>. QED  BY <3>1, <3>3, SomeLast
  <2>. HIDE DEF acts
  <2>. QED  BY <1>1, <2>1, <2>2
<1>6. ASSUME NEW id \in SesIds, signidice(id)
      PROVE  /\ plan' # <<>> /\ call'.helper = "signidice" /\ call'.ses_id = id
             /\ sessions[id] # NoRow
  BY <1>1, <1>6 DEF signidice
<1>7. ASSUME NEW id \in SesIds, close_session(id)
      PROVE  plan' # <<>> /\ call'.helper = "close_session"
  BY <1>1, <1>7 DEF close_session
<1>8. ASSUME NEW name \in PushNames, push_random(name)
      PROVE  plan' # <<>> /\ call'.helper = name
  <2>. DEFINE acts == << Action(name, 0, "platform", 0, "success") >>
  <2>1. Calls(name, "success", NoSession, 0, acts)  BY <1>8 DEF push_random
  <2>2. acts # <<>>  OBVIOUS
  <2>. HIDE DEF acts
  <2>. QED  BY <1>1, <2>1, <2>2
<1>. QED  BY <1>2, <1>3, <1>4, <1>5, <1>6, <1>7, <1>8 DEF HelperCalled, PushNames

-------------------------------------------------------------------------------
(* What a test sees.                                                            *)

(* A step that is no test's doing leaves what the test sees.                    *)
LEMMA SeenIdle ==
    ASSUME SeenInv, tx' = NoTx, UNCHANGED <<plan, call, verdict, _events>>,
           call.ses_id \in SesIds /\ Sees(sessions[call.ses_id], _events)
             => Sees(sessions'[call.ses_id], _events),
           call.helper \in Acting => call.ses_id \in SesIds
    PROVE  SeenInv'
BY DEF SeenInv

LEMMA ActingCalled ==
    ASSUME PlanInv, call.helper \in Acting
    PROVE  call \in Called /\ call.ses_id \in SesIds /\ call.result \in Results
<1>1. call \in Called  BY DEF PlanInv, Acting
<1>. QED  BY <1>1 DEF Called

LEMMA OlderSees ==
    ASSUME TypeOK, NEW id \in SesIds, Tick, NEW events, Sees(sessions[id], events)
    PROVE  Sees(sessions'[id], events)
<1>1. sessions[id] \in Row \cup {NoRow} /\ sessions'[id] = Older(sessions[id])
  BY DEF TypeOK, Tick
<1>2. CASE sessions[id] = NoRow  BY <1>1, <1>2 DEF Older
<1>3. CASE sessions[id] # NoRow
  <2>1. PICK n : sessions'[id] = [sessions[id] EXCEPT !.idle = n]
    BY <1>1, <1>3 DEF Older
  <2>2. /\ sessions'[id].state = sessions[id].state
        /\ sessions'[id].digest = sessions[id].digest
        /\ sessions[id].state # "none"
    BY <1>1, <1>3, <2>1 DEF Row, States
  <2>3. sessions'[id] # NoRow  BY <2>2 DEF NoRow
  <2>. QED  BY <1>3, <2>2, <2>3 DEF Sees
<1>. QED  BY <1>2, <1>3

LEMMA SeenStep ==
    ASSUME LedgerInv, EventsInv, PlanInv, SeenInv, TestStep
    PROVE  SeenInv'
<1>0. TypeOK  BY DEF LedgerInv
<1>1. CASE HelperCalled
  <2>1. plan' # <<>>  BY <1>1, HelperGets
  <2>2. tx' = NoTx  BY <1>1, HelperLeaves DEF Idle, debugVars, eventVars, vars
  <2>. QED  BY <2>1, <2>2 DEF SeenInv
<1>2. CASE TestThrows
  BY <1>2 DEF TestThrows, Idle, SeenInv, debugVars, eventVars, vars
<1>3. CASE Stands
  BY <1>3 DEF Stands, SeenInv, debugVars, eventVars, vars
<1>4. CASE produce_blocks
  <2>1. Tick /\ tx' = NoTx /\ UNCHANGED <<plan, call, verdict, _events>>
    BY <1>4 DEF produce_blocks, Tick
  <2>. QED  BY <1>0, <2>1, OlderSees, SeenIdle, ActingCalled
<1>5. CASE deploy_game
  BY <1>5 DEF deploy_game, InitContract, SeenInv
<1>6. CASE PushAtOnce
  <2>1. plan # <<>> /\ Returned("success") /\ UNCHANGED call
    BY <1>6 DEF PushAtOnce
  <2>2. tx' = NoTx /\ Head(plan).name \in PlainNames \cup PushNames
    <3>1. CASE AtOnce(Head(plan))  BY <3>1, AtOnceLeaves
    <3>2. CASE /\ Head(plan).name \in PushNames
               /\ push_next_random \/ push_to_prng
      BY <3>2 DEF push_next_random, push_to_prng, Pushed, eventVars, vars
    <3>. QED  BY <1>6, <3>1, <3>2 DEF PushAtOnce, PushNames
  <2>3. ASSUME plan' = <<>>, verdict' = "running", call.helper \in Acting
        PROVE  FALSE
    <3>1. plan' = Tail(plan)  BY <2>1, <2>3, ReturnedPlan DEF Results
    <3>2. plan \in Seq(Acts(call.helper, call.ses_id)) /\ Head(plan) = plan[1]
      BY <2>1, NextAct
    <3>3. Len(plan) = 1  BY <2>1, <2>3, <3>1, <3>2, FirstAndRest
    <3>4. plan[1].name \in OpenNames  BY <2>3, <3>3 DEF PlanInv, Ends
    <3>. QED  BY <2>2, <3>2, <3>4 DEF PlainNames, PushNames, OpenNames
  <2>. QED  BY <2>1, <2>2, <2>3 DEF SeenInv
<1>7. CASE PushOpens
  <2>1. plan # <<>> /\ UNCHANGED plan /\ Opens(Head(plan))  BY <1>7 DEF PushOpens
  <2>2. tx'.row \in Row /\ OpensWith(Head(plan), tx'.row)
    BY <2>1, NextAct, OpensRow
  <2>3. tx'.row # NoRow  BY <2>2, NoRowIsNoRow
  <2>4. /\ outbox' \in {<<>>, <<game_started>>}
        /\ tx'.row.state # "req_signidice_part_1"
    BY <2>2 DEF OpensWith
  <2>5. /\ OfType(Range(outbox'), "game_finished") = {}
        /\ OfType(Range(outbox'), "signidice_part_1_request") = {}
    <3>1. game_started.type = "game_started"  BY NamedEvents
    <3>2. Range(<<>>) = {} /\ Range(<<game_started>>) = {game_started}
      BY DEF Range
    <3>. QED  BY <2>4, <3>1, <3>2 DEF OfType
  <2>6. Sees(tx'.row, Range(outbox'))  BY <2>3, <2>4, <2>5 DEF Sees
  <2>. QED  BY <2>1, <2>6 DEF SeenInv
<1>8. CASE PushFails
  <2>1. /\ plan # <<>> /\ Returned("error") /\ UNCHANGED call /\ tx' = NoTx
    BY <1>8 DEF PushFails, EmitAbort, Abort, debugVars, eventVars, vars, PlanInv
  <2>2. plan' = <<>> /\ verdict' = "running" /\ call.helper \in Acting
          => call.result = "error"
    BY <2>1, ReturnedPlan DEF Results
  <2>. QED  BY <2>1, <2>2 DEF SeenInv
<1>9. CASE PushReturns
  <2>1. /\ tx # NoTx /\ tx' = NoTx /\ UNCHANGED call
        /\ _events' = Range(outbox)
        /\ sessions' = [sessions EXCEPT ![tx.ses_id] = tx.row]
    BY <1>9 DEF PushReturns, EmitReturn, Return, Commit, handle_transaction_ptr
  <2>2. tx.ses_id = call.ses_id /\ call.ses_id \in SesIds
    BY <2>1, NextAct DEF PlanInv
  <2>3. sessions'[call.ses_id] = tx.row
    BY <1>0, <2>1, <2>2 DEF TypeOK
  <2>4. Sees(sessions'[call'.ses_id], _events')  BY <2>1, <2>3 DEF SeenInv
  <2>. QED  BY <2>1, <2>4 DEF SeenInv
<1>10. CASE InGame
  <2>1. /\ tx # NoTx /\ tx' # NoTx
        /\ UNCHANGED <<sessions, call, plan, _events, verdict>>
    BY <1>0, <1>10, InGameLeaves
  <2>2. Sees(tx'.row, Range(outbox'))  BY <1>10, <2>1, CallRow DEF SeenInv
  <2>. QED  BY <2>1, <2>2 DEF SeenInv
<1>. QED  BY <1>1, <1>2, <1>3, <1>4, <1>5, <1>6, <1>7, <1>8, <1>9, <1>10 DEF TestStep

-------------------------------------------------------------------------------
(* A session of the test's own.                                                 *)

LEMMA AmountType ==
    ASSUME NEW quantity \in Quantities \cup {0}
    PROVE  quantity \in Nat /\ (quantity > 0 => quantity \in Quantities)
<1>1. CASE quantity \in Quantities  BY <1>1, SetsAssumption
<1>2. CASE quantity = 0  BY <1>2
<1>. QED  BY <1>1, <1>2

LEMMA AskedIs ==
    ASSUME PlanInv, FreshInv, call.helper = "new_game_session"
    PROVE  /\ call \in Called /\ call.ses_id \in SesIds
           /\ call.asked.overload \in Overloads
           /\ call.asked.real \in Nat /\ call.asked.bonus \in Nat
           /\ call.asked.bonus > 0 => call.asked.bonus \in Quantities
<1>1. call \in Called /\ call.asked # NoSession  BY DEF PlanInv, FreshInv
<1>2. call.asked \in [overload : Overloads, player : Players,
                      real : Quantities \cup {0}, bonus : Quantities \cup {0}]
  BY <1>1 DEF Called
<1>3. /\ call.asked.real \in Quantities \cup {0}
      /\ call.asked.bonus \in Quantities \cup {0}
      /\ call.asked.overload \in Overloads
  BY <1>2
<1>4. call.ses_id \in SesIds  BY <1>1 DEF Called
<1>. QED  BY <1>1, <1>3, <1>4, AmountType

(* The plan of a new session, and what is left of it.                           *)
LEMMA NewPlan ==
    ASSUME FreshInv, call.helper = "new_game_session", plan # <<>>
    PROVE  \/ plan = <<ToStart(call)>> /\ Len(plan) = 1 /\ Tail(plan) = <<>>
                /\ Head(plan) = ToStart(call)
           \/ /\ plan = <<ToTransfer(call), ToStart(call)>> /\ Len(plan) = 2
              /\ Tail(plan) = <<ToStart(call)>> /\ Head(plan) = ToTransfer(call)
              /\ Len(Tail(plan)) = 1
<1>1. plan \in {<<ToStart(call)>>, <<ToTransfer(call), ToStart(call)>>}
  BY DEF FreshInv
<1>. DEFINE a == ToTransfer(call)
            b == ToStart(call)
<1>2. plan = <<a, b>> \/ plan = <<b>>  BY <1>1
<1>. HIDE DEF a, b
<1>3. /\ Len(<<b>>) = 1 /\ Tail(<<b>>) = <<>> /\ Head(<<b>>) = b
      /\ Len(<<a, b>>) = 2 /\ Tail(<<a, b>>) = <<b>> /\ Head(<<a, b>>) = a
  OBVIOUS
<1>. QED  BY <1>2, <1>3 DEF a, b

LEMMA StartNames ==
    /\ ToTransfer(call).name = "transfer" /\ ToTransfer(call).result = "success"
    /\ ToStart(call).result = call.result
    /\ ToStart(call).name = IF call.asked.bonus > 0 THEN "newgamebon" ELSE "newgame"
    /\ ToTransfer(call).from = call.asked.player
    /\ ToTransfer(call).quantity = call.asked.real
    /\ ToTransfer(call).ses_id = call.ses_id
    /\ ToStart(call).from = call.asked.player
    /\ call.asked.bonus > 0 => ToStart(call).quantity = call.asked.bonus
    /\ ToStart(call).ses_id = call.ses_id
BY DEF ToTransfer, ToStart, Action

(* An action that opens a transaction is the last of a plan.                    *)
LEMMA OpensLast ==
    ASSUME PlanInv, plan # <<>>, plan[1].name \in OpenNames
    PROVE  call.helper \in Acting /\ Len(plan) = 1 /\ Tail(plan) = <<>>
<1>1. /\ plan \in Seq(Acts(call.helper, call.ses_id))
      /\ plan[1] \in Acts(call.helper, call.ses_id)
  BY NextAct
<1>2. May(call.helper, plan[1].name)  BY <1>1 DEF Acts
<1>3. call.helper \in Acting  BY <1>2 DEF May, OpenNames, Acting, PushNames
<1>4. Ends(plan, call.result) /\ Len(plan) \in Nat \ {0}
  BY <1>1, <1>3, FirstAndRest DEF PlanInv
<1>5. Len(plan) = 1
  <2>1. 1 \in 1..Len(plan)  BY <1>4
  <2>2. IF 1 = Len(plan) THEN plan[1].name \in OpenNames ELSE plan[1].name \notin OpenNames
    BY <1>4, <2>1 DEF Ends
  <2>. QED  BY <2>2
<1>. QED  BY <1>1, <1>3, <1>5, FirstAndRest

(* The counter moves past the id of the session when its helper returns.        *)
LEMMA Counted ==
    ASSUME PlanInv, FreshInv, plan # <<>>, CountSession, UNCHANGED call
    PROVE  /\ \A i \in SesIds, o \in Overloads : i < ses_id[o] => i < ses_id'[o]
           /\ plan' # <<>> => ses_id' = ses_id
           /\ call.helper = "new_game_session" =>
                /\ \A p \in Overloads \ {call.asked.overload} : ses_id'[p] = ses_id[p]
                /\ plan' = <<>> /\ verdict' = "running"
                     => call.ses_id < ses_id'[call.asked.overload]
<1>1. ses_id \in [Overloads -> Nat] /\ SesIds \subseteq Nat
  BY IdsFromZero DEF PlanInv
<1>2. CASE call.helper # "new_game_session"
  BY <1>2 DEF CountSession
<1>3. CASE call.helper = "new_game_session"
  <2>1. call.asked.overload \in Overloads  BY <1>3, AskedIs
  <2>2. call.ses_id = ses_id[call.asked.overload]  BY <1>3 DEF FreshInv
  <2>3. CASE plan' = <<>> /\ verdict' = "running"
    <3>1. ses_id' = [ses_id EXCEPT ![call.asked.overload] = @ + 1]
      BY <1>3, <2>3 DEF CountSession
    <3>. QED  BY <1>1, <2>1, <2>2, <2>3, <3>1
  <2>4. CASE ~(plan' = <<>> /\ verdict' = "running")
    <3>1. ses_id' = ses_id  BY <2>4 DEF CountSession
    <3>. QED  BY <2>4, <3>1
  <2>. QED  BY <2>3, <2>4
<1>. QED  BY <1>2, <1>3

(* An action of the plan returned, or failed.                                   *)
LEMMA FreshReturned ==
    ASSUME PlanInv, FreshInv, plan # <<>>, NEW result \in Results, Returned(result),
           CountSession, UNCHANGED call,
           \A i \in SesIds : i # call.ses_id => sessions'[i] = sessions[i],
           call.helper # "new_game_session" /\ sessions'[call.ses_id] # NoRow
             => sessions[call.ses_id] # NoRow,
           plan' # <<>> /\ call.helper \in {"game_action", "signidice"}
             => sessions'[call.ses_id] # NoRow,
           verdict' = "running" /\ call.helper = "new_game_session"
             /\ Alone(call.asked.overload) => Stage'
    PROVE  FreshInv'
<1>1. /\ verdict = "running"
      /\ verdict' = "running" => plan' = Tail(plan)
      /\ plan' # <<>> => verdict' = "running"
  BY ReturnedPlan DEF PlanInv
<1>2. ASSUME verdict' = "running", NEW i \in SesIds, sessions'[i] # NoRow
      PROVE  \/ \E o \in Overloads : i < ses_id'[o]
             \/ plan' # <<>> /\ call.helper = "new_game_session" /\ i = call.ses_id
  <2>1. CASE call.helper = "new_game_session" /\ i = call.ses_id
    <3>1. call.asked.overload \in Overloads  BY <2>1, AskedIs
    <3>. QED  BY <1>2, <2>1, <3>1, Counted
  <2>2. CASE ~(call.helper = "new_game_session" /\ i = call.ses_id)
    <3>1. sessions[i] # NoRow  BY <1>2, <2>2
    <3>2. PICK o \in Overloads : i < ses_id[o]  BY <1>1, <2>2, <3>1 DEF FreshInv
    <3>. QED  BY <3>2, Counted
  <2>. QED  BY <2>1, <2>2
<1>3. ASSUME call.helper = "new_game_session"
      PROVE  /\ plan' # <<>> => call.ses_id = ses_id'[call.asked.overload]
             /\ plan' \in {<<>>, <<ToStart(call)>>} /\ Len(plan') # 2
             /\ Alone(call.asked.overload)' => Alone(call.asked.overload)
  <2>1. plan' # <<>> => call.ses_id = ses_id'[call.asked.overload]
    BY <1>3, Counted DEF FreshInv
  <2>2. plan' \in {<<>>, <<ToStart(call)>>}
    BY <1>1, <1>3, NewPlan
  <2>3. Len(plan') # 2
    <3>1. Len(<<>>) = 0 /\ Len(<<ToStart(call)>>) = 1  OBVIOUS
    <3>. QED  BY <2>2, <3>1
  <2>. QED  BY <1>3, <2>1, <2>2, <2>3, Counted DEF Alone
<1>4. call.helper = "new_game_session"
        => call.asked # NoSession /\ call.asked.real + call.asked.bonus > 0
  BY DEF FreshInv
<1>5. ToStart(call)' = ToStart(call)  BY DEF ToStart
<1>. QED  BY <1>2, <1>3, <1>4, <1>5 DEF FreshInv

-------------------------------------------------------------------------------
(* Each kind of step.                                                           *)

LEMMA FreshHelper ==
    ASSUME TypeOK, PlanInv, FreshInv, PlanInv', HelperCalled
    PROVE  FreshInv'
<1>1. /\ tx = NoTx /\ plan = <<>> /\ verdict = "running" /\ verdict' = "running"
      /\ tx' = NoTx /\ sessions' = sessions /\ ses_id' = ses_id
  BY HelperLeaves DEF Idle, debugVars, eventVars, vars
<1>2. /\ plan' # <<>>
      /\ call'.helper = "new_game_session" => NewSession(call', plan')
      /\ call'.helper \in {"game_action", "signidice"} => sessions[call'.ses_id] # NoRow
  BY HelperGets
<1>3. \A i \in SesIds : sessions[i] # NoRow => \E o \in Overloads : i < ses_id[o]
  BY <1>1 DEF FreshInv
<1>4. ASSUME call'.helper = "new_game_session", Alone(call.asked.overload)'
      PROVE  Stage'
  <2>1. NewSession(call', plan')  BY <1>2, <1>4
  <2>2. call'.ses_id \in SesIds /\ call'.ses_id = ses_id[call'.asked.overload]
    <3>1. call' \in Called  BY <1>4 DEF PlanInv
    <3>. QED  BY <2>1, <3>1 DEF Called, NewSession
  <2>3. sessions[call'.ses_id] = NoRow
    <3>1. SUFFICES ASSUME sessions[call'.ses_id] # NoRow PROVE FALSE  OBVIOUS
    <3>2. PICK o \in Overloads : call'.ses_id < ses_id[o]  BY <1>3, <2>2, <3>1
    <3>3. call'.ses_id \in Nat  BY <2>2, IdsFromZero
    <3>4. o # call'.asked.overload
      <4>1. SUFFICES ASSUME o = call'.asked.overload PROVE FALSE  OBVIOUS
      <4>2. ses_id[o] = call'.ses_id  BY <2>2, <4>1
      <4>. QED  BY <3>2, <3>3, <4>2
    <3>5. ses_id[o] = 0  BY <1>1, <1>4, <3>4 DEF Alone
    <3>. QED  BY <3>2, <3>3, <3>5
  <2>4. ~call'.found  BY <2>1, <2>3 DEF NewSession
  <2>5. Len(plan') = IF call'.asked.real > 0 THEN 2 ELSE 1
    BY <2>1 DEF NewSession
  <2>. QED  BY <1>1, <2>3, <2>4, <2>5 DEF Stage
<1>5. ASSUME call'.helper = "new_game_session"
      PROVE  /\ call'.asked # NoSession
             /\ call'.asked.real + call'.asked.bonus > 0
             /\ call'.ses_id = ses_id'[call'.asked.overload]
             /\ plan' \in {<<>>, <<ToStart(call')>>, <<ToTransfer(call'), ToStart(call')>>}
             /\ Len(plan') = 2 => call'.asked.real > 0
  <2>1. NewSession(call', plan')  BY <1>2, <1>5
  <2>2. plan' \in {<<ToStart(call')>>, <<ToTransfer(call'), ToStart(call')>>}
    BY <2>1 DEF NewSession
  <2>3. Len(plan') = 2 => call'.asked.real > 0  BY <2>1 DEF NewSession
  <2>4. /\ call'.asked # NoSession
        /\ call'.asked.real + call'.asked.bonus > 0
        /\ call'.ses_id = ses_id[call'.asked.overload]
    BY <2>1 DEF NewSession
  <2>. QED  BY <1>1, <2>2, <2>3, <2>4
<1>. QED  BY <1>1, <1>2, <1>3, <1>4, <1>5 DEF FreshInv

(* Nothing changes but the age of rows and the verdict of an idle test.         *)
LEMMA FreshStays ==
    ASSUME FreshInv, UNCHANGED <<plan, call, ses_id, tx>>,
           verdict' = "running" => verdict = "running",
           \A i \in SesIds : sessions'[i] # NoRow <=> sessions[i] # NoRow,
           \A i \in SesIds : sessions[i] # NoRow => SameDeal(sessions[i], sessions'[i]),
           call.helper \in Acting => call.ses_id \in SesIds
    PROVE  FreshInv'
<1>1. call.helper \in Acting =>
        \A player, real, bonus : Of(sessions[call.ses_id], player, real, bonus)
                                   => Of(sessions'[call.ses_id], player, real, bonus)
  BY DEF Of, SameDeal
<1>2. Stage /\ call.helper = "new_game_session" => Stage'
  BY <1>1 DEF Stage, AsAsked, Acting
<1>3. Alone(call.asked.overload)' = Alone(call.asked.overload)  BY DEF Alone
<1>. QED  BY <1>2, <1>3 DEF FreshInv, Acting, ToStart, ToTransfer

LEMMA OlderDeal ==
    ASSUME TypeOK, NEW id \in SesIds, Tick
    PROVE  /\ sessions'[id] # NoRow <=> sessions[id] # NoRow
           /\ sessions[id] # NoRow => SameDeal(sessions[id], sessions'[id])
<1>1. sessions[id] \in Row \cup {NoRow} /\ sessions'[id] = Older(sessions[id])
  BY DEF TypeOK, Tick
<1>2. CASE sessions[id] = NoRow  BY <1>1, <1>2 DEF Older
<1>3. CASE sessions[id] # NoRow
  <2>1. PICK n : sessions'[id] = [sessions[id] EXCEPT !.idle = n]
    BY <1>1, <1>3 DEF Older
  <2>2. /\ sessions'[id].state = sessions[id].state /\ sessions[id].state # "none"
        /\ SameDeal(sessions[id], sessions'[id])
    BY <1>1, <1>3, <2>1 DEF Row, States, SameDeal
  <2>3. sessions'[id] # NoRow  BY <2>2 DEF NoRow
  <2>. QED  BY <1>3, <2>2, <2>3
<1>. QED  BY <1>2, <1>3

(* What an action without game code makes of its session.                       *)
LEMMA AtOnceRow ==
    ASSUME TypeOK, NEW act, act.ses_id \in SesIds, AtOnce(act),
           act.name = "transfer" => act.quantity \in Nat
    PROVE  /\ \A i \in SesIds : i # act.ses_id => sessions'[i] = sessions[i]
           /\ act.name # "transfer" => sessions[act.ses_id] # NoRow
           /\ act.name = "transfer" /\ sessions[act.ses_id] = NoRow
                => Of(sessions'[act.ses_id], act.from, act.quantity, 0)
           /\ act.name # "close" => sessions'[act.ses_id] # NoRow
           /\ act.name = "close" => sessions'[act.ses_id] = NoRow
<1>. DEFINE id == act.ses_id
<1>0. /\ sessions \in [SesIds -> Row \cup {NoRow}]
      /\ \A row \in Row : row # NoRow
  BY NoRowIsNoRow DEF TypeOK
<1>1. ASSUME NEW row, NEW book, NEW rcpt, Store(id, row, book, rcpt)
      PROVE  /\ sessions'[id] = row
             /\ \A i \in SesIds : i # id => sessions'[i] = sessions[i]
  BY <1>0, <1>1 DEF Store
<1>2. CASE act.name = "transfer" /\ OnTransferNew(id, act.from, act.quantity, CoreToken)
  <2>1. PICK row \in CreateSession(session_seq, act.from, CoreToken, act.quantity) :
          \E book : Store(id, row, book, NoReceipt)
    BY <1>2 DEF OnTransferNew
  <2>2. /\ row.player = act.from /\ row.deposit = act.quantity
        /\ row.bonus_deposit = 0 /\ row.state = "req_start"
    BY <2>1 DEF CreateSession
  <2>3. row # NoRow  BY <2>2 DEF NoRow
  <2>4. act.quantity + 0 = act.quantity  BY <1>2
  <2>5. Of(row, act.from, act.quantity, 0)  BY <2>2, <2>3, <2>4 DEF Of
  <2>6. /\ sessions'[id] = row
        /\ \A i \in SesIds : i # id => sessions'[i] = sessions[i]
    BY <1>1, <2>1
  <2>. QED  BY <1>2, <2>3, <2>5, <2>6
<1>3. ASSUME NEW row, row.state = sessions[id].state, sessions[id] # NoRow
      PROVE  row # NoRow
  <2>1. sessions[id].state \in States  BY <1>0, <1>3 DEF Row
  <2>. QED  BY <1>3, <2>1 DEF NoRow, States
<1>4. CASE act.name = "transfer" /\ OnTransferExtra(id, act.from, act.quantity, CoreToken)
  <2>. DEFINE row == HandleExtraDeposit(sessions[id], act.quantity)
  <2>1. sessions[id] # NoRow /\ \E book : Store(id, row, book, NoReceipt)
    BY <1>4 DEF OnTransferExtra
  <2>2. row.state = sessions[id].state  BY <1>0, <2>1 DEF HandleExtraDeposit, Row
  <2>. HIDE DEF row
  <2>. QED  BY <1>1, <1>3, <1>4, <2>1, <2>2
<1>5. CASE act.name = "depositbon" /\ DepositBonus(id, act.from, act.quantity)
  <2>. DEFINE row == [HandleExtraDeposit(sessions[id], act.quantity)
                        EXCEPT !.bonus_deposit = @ + act.quantity]
  <2>1. sessions[id] # NoRow /\ \E book : Store(id, row, book, NoReceipt)
    BY <1>5 DEF DepositBonus
  <2>2. row.state = sessions[id].state  BY <1>0, <2>1 DEF HandleExtraDeposit, Row
  <2>. HIDE DEF row
  <2>. QED  BY <1>1, <1>3, <1>5, <2>1, <2>2
<1>6. CASE act.name = "sgdicefirst" /\ SignidicePart1(id, Signed(PlatformKey, id))
  <2>. DEFINE row == [sessions[id] EXCEPT !.digest = Sha256(Signed(PlatformKey, id)),
                        !.idle = 0, !.state = "req_signidice_part_2"]
  <2>1. sessions[id] # NoRow /\ \E book : Store(id, row, book, NoReceipt)
    BY <1>6 DEF SignidicePart1
  <2>2. row.state = "req_signidice_part_2"  BY <1>0, <2>1 DEF Row
  <2>. HIDE DEF row
  <2>3. row # NoRow  BY <2>2 DEF NoRow
  <2>. QED  BY <1>1, <1>6, <2>1, <2>3
<1>7. CASE act.name = "close" /\ Close(id)
  <2>1. sessions[id] # NoRow /\ \E book, rcpt : Store(id, NoRow, book, rcpt)
    BY <1>7 DEF Close
  <2>. QED  BY <1>1, <1>7, <2>1
<1>. QED  BY <1>2, <1>4, <1>5, <1>6, <1>7 DEF AtOnce, OnTransfer

LEMMA FreshAtOnce ==
    ASSUME TypeOK, PlanInv, FreshInv, PushAtOnce
    PROVE  FreshInv'
<1>1. /\ tx = NoTx /\ plan # <<>> /\ Returned("success") /\ CountSession
      /\ UNCHANGED call /\ "success" \in Results
  BY DEF PushAtOnce, Results
<1>. DEFINE act == Head(plan)
            id  == call.ses_id
<1>2. /\ act \in Acts(call.helper, id) /\ act.ses_id = id /\ id \in SesIds
      /\ act.name \in {"transfer", "depositbon", "newgamebon"}
           => act.from \in Players /\ act.quantity \in Quantities
  BY <1>1, NextAct
<1>3. May(call.helper, act.name) /\ (act.name = "transfer" => act.quantity \in Nat)
  BY <1>2, SetsAssumption DEF Acts
<1>4. CASE AtOnce(act)
  <2>1. act.name \in PlainNames /\ tx' = NoTx  BY <1>4, AtOnceLeaves
  <2>2. /\ \A i \in SesIds : i # id => sessions'[i] = sessions[i]
        /\ act.name # "transfer" => sessions[id] # NoRow
        /\ act.name = "transfer" /\ sessions[id] = NoRow
             => Of(sessions'[id], act.from, act.quantity, 0)
        /\ act.name # "close" => sessions'[id] # NoRow
        /\ act.name = "close" => sessions'[id] = NoRow
    BY <1>2, <1>3, <1>4, AtOnceRow
  <2>3. ASSUME call.helper # "new_game_session", sessions'[id] # NoRow
        PROVE  sessions[id] # NoRow
    <3>1. CASE act.name # "transfer"  BY <2>2, <3>1
    <3>2. CASE act.name = "transfer"
      <4>1. call.helper = "game_action"
        BY <1>3, <2>3, <3>2 DEF May, PushNames
      <4>. QED  BY <1>1, <4>1 DEF FreshInv
    <3>. QED  BY <3>1, <3>2
  <2>4. ASSUME call.helper \in {"game_action", "signidice"}
        PROVE  sessions'[id] # NoRow
    <3>1. act.name # "close"  BY <1>3, <2>4 DEF May, PushNames
    <3>. QED  BY <2>2, <3>1
  <2>5. ASSUME call.helper = "new_game_session", Alone(call.asked.overload),
               verdict' = "running"
        PROVE  Stage'
    <3>1. act.name = "transfer"  BY <1>3, <2>1, <2>5 DEF May, PlainNames, PushNames
    <3>2. /\ plan = <<ToTransfer(call), ToStart(call)>> /\ Len(plan) = 2
          /\ Len(Tail(plan)) = 1 /\ act = ToTransfer(call)
      <4>1. act # ToStart(call)  BY <3>1, StartNames
      <4>. QED  BY <1>1, <2>5, <4>1, NewPlan
    <3>3. verdict = "running"  BY <1>1 DEF PlanInv
    <3>4. Stage /\ call.asked.real > 0  BY <2>5, <3>2, <3>3 DEF FreshInv
    <3>5. sessions[id] = NoRow /\ ~call.found  BY <3>2, <3>4 DEF Stage
    <3>6. Of(sessions'[id], call.asked.player, call.asked.real, 0)
      BY <2>2, <3>1, <3>2, <3>5, StartNames
    <3>7. Len(plan') = 1  BY <1>1, <2>5, <3>2, ReturnedPlan
    <3>. QED  BY <1>1, <2>1, <3>4, <3>5, <3>6, <3>7 DEF Stage
  <2>. HIDE DEF act
  <2>. QED  BY <1>1, <2>2, <2>3, <2>4, <2>5, FreshReturned
<1>5. CASE act.name \in PushNames /\ (push_next_random \/ push_to_prng)
  <2>1. UNCHANGED sessions
    BY <1>5 DEF push_next_random, push_to_prng, Pushed, eventVars, vars
  <2>2. call.helper \notin {"game_action", "signidice", "new_game_session"}
    BY <1>3, <1>5 DEF May, PushNames
  <2>. QED  BY <1>1, <2>1, <2>2, FreshReturned
<1>. QED  BY <1>4, <1>5 DEF PushAtOnce, PushNames

(* The session starts as it was asked for.                                      *)
LEMMA FreshOpens ==
    ASSUME LedgerInv, PlanInv, FreshInv, PushOpens
    PROVE  FreshInv'
<1>1. /\ plan # <<>> /\ Opens(Head(plan))
      /\ UNCHANGED <<ses_id, call, plan, verdict>>
  BY DEF PushOpens
<1>. DEFINE act == Head(plan)
            id  == call.ses_id
<1>2. /\ act.ses_id = id /\ id \in SesIds /\ act = plan[1]
      /\ act.name \in {"transfer", "depositbon", "newgamebon"}
           => act.from \in Players /\ act.quantity \in Quantities
  BY <1>1, NextAct
<1>3. act.name \in OpenNames /\ UNCHANGED sessions  BY <1>1, OpensLeaves
<1>4. tx'.row \in Row /\ OpensWith(act, tx'.row)  BY <1>1, <1>2, OpensRow
<1>5. Len(plan) = 1  BY <1>1, <1>2, <1>3, OpensLast
<1>6. ASSUME call.helper = "new_game_session", Stage
      PROVE  Stage'
  <2>. DEFINE asked == call.asked
  <2>1. act = ToStart(call)
    BY <1>1, <1>5, <1>6, NewPlan
  <2>2. asked.real \in Nat /\ asked.bonus \in Nat /\ asked.real + asked.bonus > 0
    BY <1>6, AskedIs DEF FreshInv
  <2>3. IF asked.real > 0 THEN Of(sessions[id], asked.player, asked.real, 0)
        ELSE sessions[id] = NoRow
    BY <1>5, <1>6 DEF Stage
  <2>4. tx'.row # NoRow  BY <1>4, NoRowIsNoRow
  <2>5. CASE asked.bonus > 0
    <3>1. /\ act.name = "newgamebon" /\ act.from = asked.player
          /\ act.quantity = asked.bonus
      BY <2>1, <2>5, StartNames
    <3>2. /\ tx'.row.bonus_deposit = asked.bonus
          /\ IF sessions[id] = NoRow
             THEN tx'.row.player = asked.player /\ tx'.row.deposit = asked.bonus
             ELSE /\ tx'.row.player = sessions[id].player
                  /\ tx'.row.deposit = sessions[id].deposit + asked.bonus
      BY <1>2, <1>4, <3>1 DEF OpensWith
    <3>3. ASSUME asked.real > 0 PROVE AsAsked(tx'.row, asked)
      <4>1. /\ sessions[id] # NoRow /\ sessions[id].player = asked.player
            /\ sessions[id].deposit = asked.real
        BY <2>2, <2>3, <3>3 DEF Of
      <4>. QED  BY <2>2, <2>4, <3>2, <4>1 DEF AsAsked, Of
    <3>4. ASSUME ~(asked.real > 0) PROVE AsAsked(tx'.row, asked)
      <4>1. asked.real = 0 /\ asked.bonus = asked.real + asked.bonus  BY <2>2, <3>4
      <4>. QED  BY <2>3, <2>4, <3>2, <3>4, <4>1 DEF AsAsked, Of
    <3>5. AsAsked(tx'.row, asked)  BY <3>3, <3>4
    <3>. QED  BY <1>1, <1>3, <1>5, <1>6, <3>5 DEF Stage
  <2>6. CASE ~(asked.bonus > 0)
    <3>1. act.name = "newgame" /\ asked.bonus = 0 /\ asked.real > 0
      BY <2>1, <2>2, <2>6, StartNames
    <3>2. sessions[id] # NoRow /\ SameDeal(sessions[id], tx'.row)
      BY <1>2, <1>4, <3>1 DEF OpensWith
    <3>3. AsAsked(tx'.row, asked)
      BY <2>3, <2>4, <3>1, <3>2 DEF AsAsked, Of, SameDeal
    <3>. QED  BY <1>1, <1>3, <1>5, <1>6, <3>3 DEF Stage
  <2>. QED  BY <2>5, <2>6
<1>. QED  BY <1>1, <1>3, <1>6 DEF FreshInv, Alone, ToStart, ToTransfer

LEMMA FreshFails ==
    ASSUME TypeOK, PlanInv, FreshInv, PushFails
    PROVE  FreshInv'
<1>1. /\ plan # <<>> /\ Returned("error") /\ CountSession
      /\ UNCHANGED <<call, sessions>> /\ tx' = NoTx /\ "error" \in Results
  BY DEF PushFails, EmitAbort, Abort, debugVars, eventVars, vars, PlanInv, Results
<1>2. ASSUME call.helper = "new_game_session", Alone(call.asked.overload),
             verdict' = "running"
      PROVE  Stage'
  <2>1. verdict = "running"  BY <1>1 DEF PlanInv
  <2>2. Stage  BY <1>2, <2>1 DEF FreshInv
  <2>3. Head(plan).result \in {"error", "any"}
    BY <1>2, <1>1 DEF Returned
  <2>4. Tail(plan) = <<>>
    <3>1. Head(plan) # ToTransfer(call)  BY <2>3, StartNames
    <3>. QED  BY <1>1, <1>2, <3>1, NewPlan
  <2>5. plan' = <<>> /\ call.result = "error"
    BY <1>1, <1>2, <2>4, ReturnedPlan DEF Acting
  <2>6. Len(plan') = 0  BY <2>5
  <2>. QED  BY <1>1, <2>2, <2>5, <2>6 DEF Stage
<1>3. plan' # <<>> /\ call.helper \in {"game_action", "signidice"}
        => sessions'[call.ses_id] # NoRow
  BY <1>1 DEF FreshInv
<1>. QED  BY <1>1, <1>2, <1>3, FreshReturned

LEMMA FreshReturns ==
    ASSUME TypeOK, PlanInv, FreshInv, PushReturns
    PROVE  FreshInv'
<1>1. /\ tx # NoTx /\ tx' = NoTx /\ Returned("success") /\ CountSession
      /\ UNCHANGED call /\ "success" \in Results
      /\ sessions' = [sessions EXCEPT ![tx.ses_id] = tx.row]
  BY DEF PushReturns, EmitReturn, Return, Commit, Results
<1>2. plan # <<>> /\ plan[1].name \in OpenNames /\ tx.ses_id = call.ses_id
  BY <1>1 DEF PlanInv
<1>3. call.ses_id \in SesIds  BY <1>2, NextAct
<1>4. /\ sessions'[call.ses_id] = tx.row
      /\ \A i \in SesIds : i # call.ses_id => sessions'[i] = sessions[i]
  BY <1>1, <1>2, <1>3 DEF TypeOK
<1>5. call.helper \in Acting /\ Len(plan) = 1 /\ Tail(plan) = <<>>
  BY <1>2, OpensLast
<1>6. plan' = <<>>
  BY <1>1, <1>2, <1>5, ReturnedPlan
<1>7. ASSUME call.helper = "new_game_session", Alone(call.asked.overload),
             verdict' = "running"
      PROVE  Stage'
  <2>1. verdict = "running"  BY <1>2 DEF PlanInv
  <2>2. Stage  BY <1>7, <2>1 DEF FreshInv
  <2>3. Len(plan') = 0  BY <1>6
  <2>. QED  BY <1>1, <1>4, <1>5, <2>2, <2>3 DEF Stage
<1>8. call.helper # "new_game_session" => sessions[call.ses_id] # NoRow
  BY <1>2, <1>5 DEF FreshInv, Acting
<1>. QED  BY <1>1, <1>2, <1>4, <1>6, <1>7, <1>8, FreshReturned

LEMMA FreshStep ==
    ASSUME LedgerInv, EventsInv, PlanInv, PlanInv', FreshInv, TestStep
    PROVE  FreshInv'
<1>0. TypeOK /\ (call.helper \in Acting => call.ses_id \in SesIds)
  BY ActingCalled DEF LedgerInv
<1>1. CASE HelperCalled  BY <1>0, <1>1, FreshHelper
<1>2. CASE TestThrows \/ Stands \/ deploy_game
  <2>1. /\ UNCHANGED <<plan, call, ses_id, tx, sessions>>
        /\ verdict' = "running" => verdict = "running"
    BY <1>2 DEF TestThrows, Stands, deploy_game, InitContract, debugVars, eventVars,
       vars
  <2>2. \A i \in SesIds : SameDeal(sessions[i], sessions'[i])
    BY <2>1 DEF SameDeal
  <2>. QED  BY <1>0, <2>1, <2>2, FreshStays
<1>3. CASE produce_blocks
  <2>1. Tick /\ UNCHANGED <<plan, call, ses_id, tx, verdict>>
    BY <1>3 DEF produce_blocks, Tick
  <2>. QED  BY <1>0, <2>1, OlderDeal, FreshStays
<1>4. CASE PushAtOnce  BY <1>0, <1>4, FreshAtOnce
<1>5. CASE PushOpens  BY <1>5, FreshOpens
<1>6. CASE PushFails  BY <1>0, <1>6, FreshFails
<1>7. CASE PushReturns  BY <1>0, <1>7, FreshReturns
<1>8. CASE InGame
  <2>1. /\ tx # NoTx /\ tx' # NoTx
        /\ UNCHANGED <<sessions, ses_id, call, plan, verdict>>
    BY <1>0, <1>8, InGameLeaves
  <2>2. \/ tx'.row \in {NoRow, tx.row}
        \/ tx.row \in Row /\ tx'.row \in Row /\ SameDeal(tx.row, tx'.row)
    BY <1>8, CallRow
  <2>3. \A asked : /\ tx.row # NoRow => AsAsked(tx.row, asked)
                   /\ tx'.row # NoRow
                   => AsAsked(tx'.row, asked)
    BY <2>2, NoRowIsNoRow DEF AsAsked, Of, SameDeal
  <2>4. Stage => Stage'  BY <2>1, <2>3 DEF Stage
  <2>. QED  BY <2>1, <2>4 DEF FreshInv, Alone, ToStart, ToTransfer
<1>. QED  BY <1>1, <1>2, <1>3, <1>4, <1>5, <1>6, <1>7, <1>8 DEF TestStep

-------------------------------------------------------------------------------
(* What follows.                                                                *)

(* An increasing queue has no value twice.                                      *)
LEMMA AllDifferent ==
    ASSUME NEW queue \in Seq(Nat), Increasing(queue)
    PROVE  /\ IsFiniteSet(Range(queue))
           /\ Cardinality(Range(queue)) = Len(queue)
<1>. DEFINE n == Len(queue)
<1>1. /\ n \in Nat /\ DOMAIN queue = 1..n /\ queue \in [1..n -> Nat]
  OBVIOUS
<1>2. \A i, j \in 1..n : queue[i] = queue[j] => i = j
  <2>. SUFFICES ASSUME NEW i \in 1..n, NEW j \in 1..n, queue[i] = queue[j], i # j
                PROVE  FALSE
    OBVIOUS
  <2>1. i < j \/ j < i  BY <1>1
  <2>2. queue[i] < queue[j] \/ queue[j] < queue[i]  BY <2>1 DEF Increasing
  <2>. QED  BY <1>1, <2>2
<1>. HIDE DEF n
<1>3. /\ Range(queue) = {queue[i] : i \in 1..n}
      /\ queue \in [1..n -> Range(queue)]
  BY <1>1 DEF Range
<1>4. queue \in Bijection(1..n, Range(queue))
  <2>1. DOMAIN queue = 1..n  BY <1>3
  <2>2. IsInjective(queue)  BY <1>2, <2>1 DEF IsInjective
  <2>3. \A v \in Range(queue) : \E i \in 1..n : queue[i] = v  BY <1>3
  <2>. QED  BY <1>3, <2>2, <2>3 DEF Bijection, Injection, Surjection
<1>5. ExistsBijection(1..n, Range(queue))
  BY <1>4 DEF ExistsBijection
<1>6. IsFiniteSet(1..n) /\ Cardinality(1..n) = n
  BY <1>1, FS_Interval
<1>. QED  BY <1>5, <1>6, FS_Bijection DEF n

LEMMA DebugShows ==
    ASSUME DebugInv
    PROVE  PlayedOnce /\ LastPushFirst
<1>1. ASSUME NEW q \in Queues
      PROVE  /\ Range(debug[q]) \cup played[q] = 1..pushes[q]
             /\ Len(debug[q]) + Cardinality(played[q]) = pushes[q]
  <2>. DEFINE left == Range(debug[q])
              all  == 1..pushes[q]
  <2>1. debug[q] \in Seq(Nat) /\ Increasing(debug[q]) /\ pushes[q] \in Nat
    BY QueueType DEF DebugInv
  <2>2. left \cup played[q] = all /\ left \cap played[q] = {}
    BY DEF DebugInv, Splits
  <2>3. IsFiniteSet(left) /\ Cardinality(left) = Len(debug[q])
    BY <2>1, AllDifferent
  <2>4. IsFiniteSet(all) /\ Cardinality(all) = pushes[q]
    <3>1. ASSUME NEW m \in Nat
          PROVE  IsFiniteSet(1..m) /\ Cardinality(1..m) = m
      BY FS_Interval
    <3>. QED  BY <2>1, <3>1
  <2>. HIDE DEF left, all
  <2>5. IsFiniteSet(played[q]) /\ Cardinality(played[q]) \in Nat
    BY <2>2, <2>4, FS_Subset, FS_CardinalityType
  <2>6. Cardinality(left \cup played[q])
          = Cardinality(left) + Cardinality(played[q]) - Cardinality(left \cap played[q])
    BY <2>3, <2>5, FS_Union
  <2>7. Cardinality(left \cap played[q]) = 0  BY <2>2, FS_EmptySet
  <2>8. Len(debug[q]) \in Nat  BY <2>1
  <2>9. Len(debug[q]) + Cardinality(played[q]) = pushes[q]
    <3>1. pushes[q] = Len(debug[q]) + Cardinality(played[q]) - 0
      BY <2>2, <2>3, <2>4, <2>6, <2>7
    <3>2. Cardinality(played[q]) \in Nat  BY <2>5
    <3>. QED  BY <2>8, <3>1, <3>2
  <2>. QED  BY <2>2, <2>9 DEF left, all
<1>2. DOMAIN pushes = Queues  BY DEF DebugInv
<1>3. ASSUME NEW v \in given["pseudo_queue"], NEW w \in v + 1..pushes["pseudo_queue"]
      PROVE  w \in played["pseudo_queue"]
  <2>0. "pseudo_queue" \in Queues  BY DEF Queues
  <2>1. tx # NoTx  BY <1>3, <2>0, NoneIsEmpty DEF DebugInv
  <2>2. /\ v \in Range(debug["pseudo_queue"])
        /\ \A u \in Range(debug["pseudo_queue"]) : u <= v
    BY <1>3, <2>0, <2>1 DEF DebugInv, Splits
  <2>3. v \in 1..pushes["pseudo_queue"] /\ pushes["pseudo_queue"] \in Nat
    BY <1>1, <2>0, <2>2 DEF DebugInv
  <2>4. w \in 1..pushes["pseudo_queue"] /\ ~(w <= v)  BY <1>3, <2>3
  <2>. QED  BY <1>1, <2>0, <2>2, <2>4
<1>. QED  BY <1>1, <1>2, <1>3 DEF PlayedOnce, LastPushFirst

(* The invariant by induction of a test case.                                   *)
TestsInv ==
    /\ LedgerInv /\ EventsInv
    /\ PlanInv /\ ExecutorInv
    /\ DebugInv /\ SeenInv /\ FreshInv

LEMMA TestsInit == StrategyInit => TestsInv
<1>. SUFFICES ASSUME StrategyInit PROVE TestsInv  OBVIOUS
<1>1. /\ EventsInit /\ DebugInit /\ ses_id = [o \in Overloads |-> 0]
      /\ call = [helper |-> "none"] /\ plan = <<>> /\ verdict = "running"
      /\ executor = NotRunning
  BY DEF StrategyInit, TesterInit
<1>2. Init /\ tx = NoTx /\ sessions = [id \in SesIds |-> NoRow]
  BY <1>1 DEF EventsInit, Init
<1>3. LedgerInv /\ EventsInv  BY <1>1, <1>2, LedgerInit, EventsStart
<1>4. call.helper = "none" /\ call \notin Called
  <2>1. call.helper = "none"  BY <1>1
  <2>. QED  BY <2>1 DEF Called, Acting, PushNames
<1>5. PlanInv  BY <1>1, <1>2, <1>4 DEF PlanInv, Acting
<1>6. ExecutorInv  BY <1>1 DEF ExecutorInv
<1>7. DebugInv  BY <1>1, <1>2, DebugStart
<1>8. SeenInv  BY <1>2, <1>4 DEF SeenInv, Acting
<1>9. FreshInv  BY <1>1, <1>2, <1>4 DEF FreshInv
<1>. QED  BY <1>3, <1>5, <1>6, <1>7, <1>8, <1>9 DEF TestsInv

LEMMA TestsStep ==
    ASSUME TestsInv, [StrategyNext]_strategyVars
    PROVE  TestsInv' /\ [EventsNext]_eventVars
<1>1. /\ LedgerInv /\ EventsInv /\ PlanInv /\ ExecutorInv /\ DebugInv /\ SeenInv
      /\ FreshInv /\ TypeOK /\ ses_id \in [Overloads -> Nat]
  BY DEF TestsInv, LedgerInv, PlanInv
<1>2. TestStep  BY <1>1, TestSteps
<1>3. [EventsNext]_eventVars  BY <1>1, <1>2, TestEmits
<1>4. LedgerInv'  BY <1>1, <1>3, EmitsOnlySteps, LedgerStep
<1>5. EventsInv'  BY <1>1, <1>3, <1>4, EventsStep
<1>6. ExecutorInv'  BY <1>1, ExecutorStep
<1>7. PlanInv'  BY <1>1, <1>2, PlanStep
<1>8. DebugInv'  BY <1>1, <1>2, DebugStep
<1>9. SeenInv'  BY <1>1, <1>2, SeenStep
<1>10. FreshInv'  BY <1>1, <1>2, <1>7, FreshStep
<1>. QED  BY <1>3, <1>4, <1>5, <1>6, <1>7, <1>8, <1>9, <1>10 DEF TestsInv

THEOREM TestsSound == StrategySpec => []TestsInv
<1>1. TestsInv /\ [StrategyNext]_strategyVars => TestsInv'  BY TestsStep
<1>. QED  BY TestsInit, <1>1, PTL DEF StrategySpec

(* Whatever a test case, its strategies and its debug values do, they do to the *)
(* contract only what anybody may do to it: a test case is a behaviour of the   *)
(* contract, so all that was proved of the contract holds in every test.        *)
THEOREM TestsPlayByTheRules == StrategySpec => EventsSpec
<1>1. StrategyInit => EventsInit  BY DEF StrategyInit, TesterInit
<1>2. TestsInv /\ [StrategyNext]_strategyVars => [EventsNext]_eventVars  BY TestsStep
<1>. QED  BY <1>1, <1>2, TestsSound, PTL DEF StrategySpec, EventsSpec

(* The executor, the table and the counters keep to their types.                *)
THEOREM TestsKeepTypes == StrategySpec => []StrategyTypeOK
<1>1. TestsInv => StrategyTypeOK
  BY DEF TestsInv, StrategyTypeOK, ExecutorInv, DebugInv, PlanInv
<1>. QED  BY <1>1, TestsSound, PTL

(* What process_strategy returns is the number of sessions it created and gave  *)
(* to session_close, one more being open where a run failed.                    *)
THEOREM RunsAreCounted == StrategySpec => []RunsAddUp
<1>1. TestsInv => RunsAddUp
  <2>. SUFFICES ASSUME TestsInv, executor.phase = "returned"
                PROVE  /\ executor.closed = executor.run
                       /\ executor.open <=> executor.run < executor.run_count
    BY DEF RunsAddUp
  <2>1. executor # NotRunning  BY DEF NotRunning
  <2>2. /\ executor \in Executor /\ executor.closed = executor.run
        /\ executor.open = IF HasSession(executor) THEN TRUE ELSE FALSE
    BY <2>1 DEF TestsInv, ExecutorInv
  <2>3. executor.run \in Nat /\ executor.run_count \in Nat
    BY <2>2, StrategyAssumption DEF Executor
  <2>4. HasSession(executor) <=> executor.run < executor.run_count
    BY DEF HasSession
  <2>. QED  BY <2>2, <2>4
<1>. QED  BY <1>1, TestsSound, PTL

(* Every value a test pushed is in the table or was played, and never both, of  *)
(* any number of pushes and whatever transactions fail after they took some.    *)
THEOREM ValuesArePlayedOnce == StrategySpec => []PlayedOnce
<1>1. TestsInv => PlayedOnce  BY DebugShows DEF TestsInv
<1>. QED  BY <1>1, TestsSound, PTL

(* on_random is given the value pushed last of those not played.                *)
THEOREM LastPushIsFirst == StrategySpec => []LastPushFirst
<1>1. TestsInv => LastPushFirst  BY DebugShows DEF TestsInv
<1>. QED  BY <1>1, TestsSound, PTL

(* The events get_events shows after a helper that succeeded are what became of *)
(* the session it was called for.                                               *)
THEOREM TestsSeeTheOutcome == StrategySpec => []TestSeesOutcome
<1>1. TestsInv => TestSeesOutcome
  BY DEF TestsInv, SeenInv, TestSeesOutcome, Sees, OfType, Heard, Done, Idle, Acting
<1>. QED  BY <1>1, TestsSound, PTL

(* A test that keeps to one overload of new_game_session gets a session of its  *)
(* own, with the player and the deposit it asked for.                           *)
THEOREM SessionsAreFresh == StrategySpec => []FreshSession
<1>1. TestsInv => FreshSession
  <2>. SUFFICES ASSUME TestsInv, Done("new_game_session", "success"),
                       \A o \in Overloads \ {call.asked.overload} : ses_id[o] = 0,
                       sessions[call.ses_id] # NoRow \/ call.found
                PROVE  /\ ~call.found
                       /\ AsAsked(sessions[call.ses_id], call.asked)
    BY DEF FreshSession, AsAsked, Of
  <2>1. /\ plan = <<>> /\ verdict = "running" /\ Len(plan) = 0
        /\ call.helper = "new_game_session" /\ call.result = "success"
    BY DEF Done, Idle
  <2>2. Stage  BY <2>1 DEF TestsInv, FreshInv, Alone
  <2>. QED  BY <2>1, <2>2 DEF Stage
<1>. QED  BY <1>1, TestsSound, PTL
===============================================================================

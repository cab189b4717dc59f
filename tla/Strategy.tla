-------------------------------- MODULE Strategy -------------------------------
(* The strategy executor of the test library (strategy.hpp): it plays many     *)
(* sessions one after the other, each along a graph whose nodes act through    *)
(* the helpers of the Tester.                                                  *)
EXTENDS Tester

CONSTANTS
    Nodes, Root,
    Children,       \* the children of a node, in the order of push_child
    MaxRuns,        \* bound: run_count
    MaxLimit        \* bound: limit_per_run

ASSUME StrategyAssumption ==
    /\ Root \in Nodes
    /\ Children \in [Nodes -> Seq(Nodes)]
    /\ MaxRuns \in Nat /\ MaxLimit \in Nat

VARIABLE executor

strategyVars == <<testVars, executor>>

NotRunning == [phase |-> "idle"]

Executor == [phase : {"run", "step", "result", "close", "returned"},
             run_count : 0..MaxRuns, limit_per_run : 0..MaxLimit,
             run : 0..MaxRuns, current : Nodes, limit : 0..MaxLimit,
             session_id : Nat,          \* of the run
             open : BOOLEAN,            \* created and not handed to session_close
             closed : Nat]              \* runs that were

-------------------------------------------------------------------------------
(* Bounds: at most one helper was called in the test case before, and there    *)
(* are ids for all runs.                                                       *)
process_strategy(run_count, limit_per_run) ==
    /\ Idle /\ calls <= 1 /\ ses_id["deposit"] + run_count <= MaxId + 1
    /\ executor = NotRunning
    /\ executor' = [phase |-> "run", run_count |-> run_count,
                    limit_per_run |-> limit_per_run, run |-> 0, current |-> Root,
                    limit |-> 0, session_id |-> 0, open |-> FALSE, closed |-> 0]
    /\ UNCHANGED testVars

At(phase) == Idle /\ executor.phase = phase

(* session_create, which the tests write as one call of new_game_session.      *)
SessionCreate ==
    /\ At("run")
    /\ executor.run # executor.run_count
    /\ \E player \in Players, deposit \in Quantities :
         new_game_session_deposit(player, deposit, "success")
    /\ UNCHANGED calls
    /\ executor' = [executor EXCEPT !.phase = "step", !.current = Root,
                       !.limit = executor.limit_per_run, !.open = TRUE,
                       !.session_id = ses_id["deposit"]]

(* A node's action: at most one helper here.                                   *)
NodeAction(id) ==
    \/ UNCHANGED testVars
    \/ game_action(id, 0, 0, "success") /\ UNCHANGED calls
    \/ signidice(id) /\ UNCHANGED calls
    \/ push_random("pushnrandom") /\ UNCHANGED calls

(* while (limit-- != 0): one action of the current node.                       *)
(* Fault: the action is not counted.                                           *)
ProcessNextStep_NotCounted ==
    /\ At("step")
    /\ executor.limit # 0
    /\ NodeAction(executor.session_id)
    /\ executor' = [executor EXCEPT !.phase = "result"]

(* Fault: the limit is counted down before it is looked at, past zero.         *)
ProcessNextStep_Unsigned ==
    /\ At("step")
    /\ executor.limit >= 0
    /\ NodeAction(executor.session_id)
    /\ executor' = [executor EXCEPT !.phase = "result", !.limit = @ - 1]

ProcessNextStep ==
    /\ At("step")
    /\ executor.limit # 0
    /\ NodeAction(executor.session_id)
    /\ executor' = [executor EXCEPT !.phase = "result", !.limit = @ - 1]

(* traversal: the first child whose condition holds.                           *)
Traversal(node, holding) == Children[node][Min(holding)]

(* The action returned Continue, and some condition holds.                     *)
Continue ==
    /\ At("result")
    /\ \E holding \in (SUBSET DOMAIN Children[executor.current]) \ {{}} :
         executor' = [executor EXCEPT !.phase = "step",
                        !.current = Traversal(executor.current, holding)]
    /\ UNCHANGED testVars

(* It returned End, or Continue where no condition holds.                      *)
End ==
    /\ At("result")
    /\ executor' = [executor EXCEPT !.phase = "close"]
    /\ UNCHANGED testVars

(* It returned Abort, or the limit was reached: the session stays as it is.    *)
(* Fault: the failed run is counted.                                           *)
Fails_Counted ==
    /\ \/ At("result")
       \/ At("step") /\ executor.limit = 0
    /\ executor' = [executor EXCEPT !.phase = "returned", !.run = @ + 1]
    /\ UNCHANGED testVars

Fails ==
    /\ \/ At("result")
       \/ At("step") /\ executor.limit = 0
    /\ executor' = [executor EXCEPT !.phase = "returned"]
    /\ UNCHANGED testVars

(* session_close, for which the tests play the session out.                    *)
SessionClose ==
    /\ At("close")
    /\ \/ signidice(executor.session_id)
       \/ close_session(executor.session_id)
       \/ Throws(executor.session_id)
    /\ UNCHANGED calls
    /\ executor' = [executor EXCEPT !.phase = "run", !.run = @ + 1,
                                    !.open = FALSE, !.closed = @ + 1]

RunsDone ==
    /\ At("run")
    /\ executor.run = executor.run_count
    /\ executor' = [executor EXCEPT !.phase = "returned"]
    /\ UNCHANGED testVars

Execute ==
    \/ \E run_count \in 1..MaxRuns, limit \in 0..MaxLimit :
         process_strategy(run_count, limit)
    \/ SessionCreate \/ ProcessNextStep \/ Continue \/ End \/ Fails
    \/ SessionClose \/ RunsDone

-------------------------------------------------------------------------------
StrategyInit == TesterInit /\ executor = NotRunning

StrategyNext ==
    \/ executor = NotRunning /\ HelperCall /\ UNCHANGED executor
    \/ (deploy_game \/ Running) /\ UNCHANGED executor
    \/ Execute

(* A test is one thread and the chain cuts a transaction that does not end.    *)
StrategySpec ==
    /\ StrategyInit
    /\ [][StrategyNext]_strategyVars
    /\ WF_strategyVars((deploy_game \/ Running) /\ UNCHANGED executor)
    /\ WF_strategyVars(Execute /\ executor # NotRunning)

-------------------------------------------------------------------------------
(* Properties.                                                                 *)

StrategyTypeOK ==
    /\ executor \in Executor \cup {NotRunning}
    /\ debug \in debug_table /\ global_debug \in debug_table
    /\ ses_id \in [Overloads -> Nat]
    /\ verdict \in {"running", "failed"}

(* What process_strategy returns is the number of sessions that were created,  *)
(* played and handed to session_close; where it is less than was asked for,    *)
(* exactly one more session was created and is left as the failed run left it. *)
RunsAddUp ==
    executor.phase = "returned" =>
        /\ executor.closed = executor.run
        /\ executor.open <=> executor.run < executor.run_count

(* process_strategy comes to an end, by its count, by a run that fails or by a *)
(* helper that throws, also where the graph has a cycle: every turn of it is   *)
(* counted against the limit.                                                  *)
Terminates ==
    executor # NotRunning ~> executor.phase = "returned" \/ verdict = "failed"

===============================================================================

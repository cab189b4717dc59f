--------------------------------- MODULE Debug ---------------------------------
(* The contract as the tests build it (IS_DEBUG): a table of random values the *)
(* test has pushed, to be played in place of signidice's and the generator's.  *)
(* Like every singleton of the contract the table is read when an action       *)
(* starts and written when it ends, so a failing action takes nothing from it. *)
EXTENDS Events, SequencesExt

CONSTANT MaxPushes      \* bound: values pushed into each of the two

VARIABLES
    debug,          \* the table: pseudo_queue and pseudo_prng
    global_debug,   \* the copy the running action works on
    pushes,         \* how many values were pushed; the n-th one is the value n
    played,         \* the pushed values that games have used
    given           \* what the running on_random, and its generators, were given

debugVars == <<eventVars, debug, global_debug, pushes, played, given>>

debug_table == [pseudo_queue : Seq(Nat), pseudo_prng : Seq(Nat)]
Empty == [pseudo_queue |-> <<>>, pseudo_prng |-> <<>>]
None  == [pseudo_queue |-> {}, pseudo_prng |-> {}]

Untouched == UNCHANGED <<debug, global_debug, pushes, played, given>>

-------------------------------------------------------------------------------
(* pushnrandom and pushprng, which check no authority.                         *)
Pushed(queue) ==
    /\ tx = NoTx
    /\ pushes[queue] < MaxPushes
    /\ pushes' = [pushes EXCEPT ![queue] = @ + 1]
    /\ debug' = [debug EXCEPT ![queue] = Append(@, pushes[queue] + 1)]
    /\ UNCHANGED <<eventVars, global_debug, played, given>>

push_next_random == Pushed("pseudo_queue")
push_to_prng     == Pushed("pseudo_prng")

(* An action that runs game code starts.                                       *)
Loads == global_debug' = debug /\ given' = None /\ UNCHANGED <<debug, pushes, played>>

(* The value on_random gets: the last one pushed, and only without one the     *)
(* digest.                                                                     *)
(* Fault: the first one pushed.                                                *)
NextRandom_First(queue) == [value |-> Head(queue), rest |-> Tail(queue)]

NextRandom(queue) == [value |-> Last(queue), rest |-> Front(queue)]

(* Fault: the value is popped from the table itself.                           *)
LoadsPart2_Pops ==
    LET queue == debug.pseudo_queue
        next  == NextRandom(queue) IN
    IF queue = <<>> THEN Loads
    ELSE /\ global_debug' = [debug EXCEPT !.pseudo_queue = next.rest]
         /\ debug' = global_debug'
         /\ given' = [None EXCEPT !.pseudo_queue = {next.value}]
         /\ UNCHANGED <<pushes, played>>

LoadsPart2 ==
    LET queue == debug.pseudo_queue
        next  == NextRandom(queue) IN
    IF queue = <<>> THEN Loads
    ELSE /\ global_debug' = [debug EXCEPT !.pseudo_queue = next.rest]
         /\ given' = [None EXCEPT !.pseudo_queue = {next.value}]
         /\ UNCHANGED <<debug, pushes, played>>

(* The game asks for a generator: one that cycles through all pushed values,   *)
(* which are then gone, or ShaMixWithRejection (Service), which takes nothing. *)
get_prng ==
    /\ tx # NoTx
    /\ global_debug.pseudo_prng # <<>>
    /\ global_debug' = [global_debug EXCEPT !.pseudo_prng = <<>>]
    /\ given' = [given EXCEPT !.pseudo_prng = Range(global_debug.pseudo_prng)]
    /\ UNCHANGED <<eventVars, debug, pushes, played>>

(* The destructor of the contract object writes the table back.                *)
Stores ==
    /\ debug' = global_debug
    /\ global_debug' = Empty
    /\ played' = [q \in DOMAIN played |-> played[q] \cup given[q]]
    /\ given' = None
    /\ UNCHANGED pushes

Drops == global_debug' = Empty /\ given' = None /\ UNCHANGED <<debug, pushes, played>>

-------------------------------------------------------------------------------
DebugInit ==
    /\ debug = Empty
    /\ global_debug = Empty
    /\ pushes = [q \in {"pseudo_queue", "pseudo_prng"} |-> 0]
    /\ played = None
    /\ given = None

(* What a game does in its callback, other than to return or fail.             *)
DebugCall ==
    \/ /\ \/ \E allow_deposit \in BOOLEAN : EmitRequireAction(allow_deposit)
          \/ EmitRequireRandom
          \/ \E new_max_win \in MaxWins : EmitUpdateMaxWin(new_max_win)
          \/ \E player_payout \in Payouts : EmitFinish(player_payout)
          \/ SendGameMessage
       /\ Untouched
    \/ get_prng

-------------------------------------------------------------------------------
(* Properties.                                                                 *)

(* A pushed value is in the table or has been played, and never both: an       *)
(* action that fails after it took values gives them all back, one that        *)
(* succeeds takes each for good.                                               *)
PlayedOnce ==
    tx = NoTx =>
        \A q \in DOMAIN pushes :
            /\ Range(debug[q]) \cup played[q] = 1..pushes[q]
            /\ Len(debug[q]) + Cardinality(played[q]) = pushes[q]

(* The random value a game is given is the one the test pushed last, whatever  *)
(* is left of earlier pushes.                                                  *)
LastPushFirst ==
    \A v \in given.pseudo_queue : \A w \in v + 1..pushes.pseudo_queue : w \in played.pseudo_queue

===============================================================================

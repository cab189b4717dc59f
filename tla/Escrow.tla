-------------------------------- MODULE Escrow --------------------------------
(* What the game contract promises about money, and nothing about games: the   *)
(* real tokens sent to a session stay in the contract, apart from every other  *)
(* session's, and leave it once and whole, split between the session's player  *)
(* and its casino.  GameContract implements this (EscrowSpec there).           *)
EXTENDS Integers

CONSTANTS SesIds, Tokens, Quantities

VARIABLES
    phase,      \* per session: none, opened (deposit received), playing
    held,       \* per session and token: what the contract keeps for it
    split       \* how the last step divided an escrow, or Undivided

vars == <<phase, held, split>>

Undivided == [player |-> 0, casino |-> 0, divided |-> FALSE]
Nothing   == [t \in Tokens |-> 0]

(* The first transfer for a session.                                           *)
Open(id, t, q) ==
    /\ phase[id] = "none"
    /\ phase' = [phase EXCEPT ![id] = "opened"]
    /\ held' = [held EXCEPT ![id][t] = q]
    /\ split' = Undivided

(* The game starts, on a transferred deposit or on a bonus alone.              *)
Begin(id) ==
    /\ phase[id] \in {"none", "opened"}
    /\ phase' = [phase EXCEPT ![id] = "playing"]
    /\ split' = Undivided
    /\ UNCHANGED held

(* A further transfer, in the token the session already has.                   *)
TopUp(id, t, q) ==
    /\ phase[id] = "playing"
    /\ \A u \in Tokens \ {t} : held[id][u] = 0
    /\ held' = [held EXCEPT ![id][t] = @ + q]
    /\ split' = Undivided
    /\ UNCHANGED phase

(* The session ends: its whole escrow is divided, and no other is touched.  A  *)
(* game that starts on a bonus and ends in the same transaction divides none.  *)
Settle(id) ==
    /\ \E t \in Tokens : \E p \in 0..held[id][t] :
         /\ \A u \in Tokens \ {t} : held[id][u] = 0
         /\ split' = [player |-> p, casino |-> held[id][t] - p, divided |-> TRUE]
    /\ phase' = [phase EXCEPT ![id] = "none"]
    /\ held' = [held EXCEPT ![id] = Nothing]

Else == split' = Undivided /\ UNCHANGED <<phase, held>>

Init ==
    /\ phase = [id \in SesIds |-> "none"]
    /\ held = [id \in SesIds |-> Nothing]
    /\ split = Undivided

Next ==
    \/ \E id \in SesIds :
         \/ \E t \in Tokens, q \in Quantities : Open(id, t, q) \/ TopUp(id, t, q)
         \/ Begin(id)
         \/ Settle(id)
    \/ Else

Spec == Init /\ [][Next]_vars
===============================================================================

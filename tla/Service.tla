-------------------------------- MODULE Service -------------------------------
(* service.hpp: what a game makes of the digest it is handed in on_random. It  *)
(* cuts it to a number (cut_to), or seeds a generator with it that mixes it    *)
(* with a counter and rejects hashes that would favour some values             *)
(* (ShaMixWithRejection), and shuffles with that.                              *)
(*                                                                             *)
(* sha256 is any function: each hash is any digest.                            *)
EXTENDS Integers, FiniteSets

CONSTANTS
    W,              \* bits of uint64_t; a digest has four such words
    UINT32_MAX,     \* where the counter of a generator stops
    Cards           \* length of the shuffled sequence

ASSUME ServiceAssumption ==
    /\ W \in Nat \ {0, 1}
    /\ UINT32_MAX \in Nat \ {0}
    /\ Cards \in Nat \ {0}
    /\ Cards < 2^W

VARIABLES
    hash,       \* the digest at hand: the random value, then each sha256
    _cur_iter,  \* the generator's counter
    mixed,      \* the counters already hashed with the seed
    call,       \* the range of the next() in progress, or Idle
    cards,      \* the sequence being shuffled, indexed from 0
    i           \* shuffle's loop variable, 0 when it is done

vars == <<hash, _cur_iter, mixed, call, cards, i>>

UINT64_MAX  == 2^W - 1
UINT256_MAX == 2^(4 * W) - 1
Digests     == [1..4 -> 0..UINT64_MAX]
Idle        == [from |-> 0, to |-> 0]

-------------------------------------------------------------------------------
to_intx(d) == ((d[1] * 2^W + d[2]) * 2^W + d[3]) * 2^W + d[4]

(* cut_to<uint128_t>: each half modulo UINT64_MAX, side by side.               *)
(* Fault: the right half only.                                                 *)
CutToHalves_Right(d) == (d[3] * 2^W + d[4]) % UINT64_MAX

CutToHalves(d) ==
    LET left  == (d[1] * 2^W + d[2]) % UINT64_MAX
        right == (d[3] * 2^W + d[4]) % UINT64_MAX
    IN left * 2^W + right

(* cut_to<T> for an unsigned type T of that many bits.                         *)
cut_to(d, bits) == CutToHalves(d) % (2^bits - 1)

(* Fault: every hash is taken.                                                 *)
CutThreshold_None(range) == UINT256_MAX + 1

CutThreshold(range) ==
    LET delta == range.to - range.from
    IN (UINT256_MAX \div delta) * delta

Lucky(range, number) == number < CutThreshold(range)

Drawn(range, number) ==
    ((number % (range.to - range.from)) + range.from) % 2^W

(* Fault: the card never stays where it is.                                    *)
Swapped_Away(seq, k, number) ==
    LET other == number % k
    IN [seq EXCEPT ![k] = seq[other], ![other] = seq[k]]

(* One round of shuffle's loop.                                                *)
Swapped(seq, k, number) ==
    LET other == number % (k + 1)
    IN [seq EXCEPT ![k] = seq[other], ![other] = seq[k]]

-------------------------------------------------------------------------------
(* on_random: a new digest and a generator seeded with it.                     *)
Seed ==
    /\ hash' \in Digests
    /\ _cur_iter' = 0
    /\ mixed' = {}
    /\ call' = Idle
    /\ cards' = [k \in 0..Cards - 1 |-> k]
    /\ i' = 0

(* Fault: the counter is not checked and wraps.                                *)
CanDraw_Always(from, to) == call = Idle /\ to > from

CanDraw(from, to) ==
    /\ call = Idle
    /\ to > from
    /\ _cur_iter < UINT32_MAX

(* next up to its first hash.                                                  *)
Next64(from, to) ==
    /\ CanDraw(from, to)
    /\ call' = [from |-> from, to |-> to]
    /\ hash' \in Digests
    /\ mixed' = mixed \cup {_cur_iter}
    /\ _cur_iter' = (_cur_iter + 1) % (UINT32_MAX + 1)
    /\ UNCHANGED <<cards, i>>

(* The while loop of next hashes the hash again.                               *)
Reject ==
    /\ call # Idle
    /\ ~Lucky(call, to_intx(hash))
    /\ hash' \in Digests
    /\ UNCHANGED <<_cur_iter, mixed, call, cards, i>>

Return ==
    /\ call # Idle
    /\ Lucky(call, to_intx(hash))
    /\ call' = Idle
    /\ IF i = 0 THEN UNCHANGED <<cards, i>>
       ELSE /\ cards' = Swapped(cards, i, Drawn(call, to_intx(hash)))
            /\ i' = i - 1
    /\ UNCHANGED <<hash, _cur_iter, mixed>>

Draw == i = 0 /\ \E from, to \in 0..UINT64_MAX : Next64(from, to)

Shuffle ==
    /\ call = Idle
    /\ i = 0
    /\ i' = Cards - 1
    /\ UNCHANGED <<hash, _cur_iter, mixed, call, cards>>

(* next() without a range.                                                     *)
ShuffleDraw == i > 0 /\ Next64(0, UINT64_MAX)

Init ==
    /\ hash \in Digests
    /\ _cur_iter = 0
    /\ mixed = {}
    /\ call = Idle
    /\ cards = [k \in 0..Cards - 1 |-> k]
    /\ i = 0

Next == Seed \/ Draw \/ Shuffle \/ ShuffleDraw \/ Reject \/ Return

Spec == Init /\ [][Next]_vars

-------------------------------------------------------------------------------
(* Properties.                                                                 *)

(* cut_to cuts nothing off: though it folds the two halves of the digest       *)
(* separately, the result is the whole 256-bit digest modulo the largest T, so *)
(* every bit counts, and the largest T itself is never returned.               *)
CutIsModulo ==
    \A bits \in {b \in 1..W : W % b = 0} :
        cut_to(hash, bits) = to_intx(hash) % (2^bits - 1)

(* Every value from `from' up to but not `to' is drawn from equally many       *)
(* hashes, whatever the range, and more than half of all hashes are taken.     *)
UniformDraws ==
    call # Idle =>
      LET taken == {h \in 0..UINT256_MAX : Lucky(call, h)}
      IN /\ \A v \in call.from..call.to - 1 :
              Cardinality({h \in taken : Drawn(call, h) = v}) * (call.to - call.from)
                = Cardinality(taken)
         /\ 2 * Cardinality(taken) > UINT256_MAX

Places == 0..Cards - 1
Orders == {seq \in [Places -> Places] : \A v \in Places : \E k \in Places : seq[k] = v}

(* The orders shuffle can still end in, with next() below UINT64_MAX.          *)
Outcomes[k \in Places] ==
    [seq \in Orders |->
       IF k = 0 THEN {seq}
       ELSE UNION {Outcomes[k - 1][Swapped(seq, k, number)] :
                     number \in 0..UINT64_MAX - 1}]

(* At every round of shuffle, every order of the cards not yet placed can      *)
(* still come about, no other, and the cards placed stay.                      *)
EveryOrder ==
    Outcomes[i][cards] = {seq \in Orders :
                            \A k \in i + 1..Cards - 1 : seq[k] = cards[k]}

(* A generator never hashes the same seed and counter twice: it cannot fall    *)
(* back into a sequence it has already given.                                  *)
NoRepeat ==
    [][mixed' # {} /\ _cur_iter' # _cur_iter => _cur_iter \notin mixed]_vars
===============================================================================

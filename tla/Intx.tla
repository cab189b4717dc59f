--------------------------------- MODULE Intx ---------------------------------
(* intx: the 256-bit integers of the SDK's generator (service.hpp), and the    *)
(* long division behind / and %.  A uint256 is two uint128, or an array of     *)
(* four words, least significant first.                                        *)
(*                                                                             *)
(* The operators are the library's functions.  The state machine runs one      *)
(* division loop iteration by loop iteration, for every pair of operands.      *)
EXTENDS Int128, Sequences

N    == 4                       \* words of a uint256
Wide == 2^(N * W)

VARIABLES
    x, y,       \* numerator and denominator, as words
    na,         \* normalized_div_args, or Raw before normalize
    un,         \* the numerator's words, modified in place
    q,          \* the quotient's words (udivrem_by1 and by2 keep it in un)
    r,          \* the running remainder of udivrem_by1 and udivrem_by2
    j,          \* the loop variable, -1 when the loop is done
    qhat        \* the quotient digit being found, or NoDigit

vars == <<x, y, na, un, q, r, j, qhat>>

-------------------------------------------------------------------------------
(* uint<256> from its halves.                                                  *)

Words     == [0..N - 1 -> Word]
Lower(w)  == [hi |-> w[1], lo |-> w[0]]
Upper(w)  == [hi |-> w[3], lo |-> w[2]]
Join(h, l) == [i \in 0..N - 1 |-> CASE i = 0 -> l.lo [] i = 1 -> l.hi
                                    [] i = 2 -> h.lo [] i = 3 -> h.hi]
Zero == Join(zero, zero)
One  == Join(zero, wide(1))

(* The number an array of words stands for.                                    *)
Number(w) ==
    LET sum[i \in Nat] == IF i \notin DOMAIN w THEN 0 ELSE w[i] + B * sum[i + 1]
    IN sum[0]

add_with_carry(a, b) ==
    LET lo    == plus(Lower(a), Lower(b))
        carry == less(lo, Lower(a))
        tt    == plus(Upper(a), Upper(b))
        hi    == plus(tt, wide(Bit(carry)))
    IN [value |-> Join(hi, lo), carry |-> less(tt, Upper(a)) \/ less(hi, tt)]

Plus(a, b)  == add_with_carry(a, b).value
Negate(a)   == Plus(Join(invert(Upper(a)), invert(Lower(a))), One)
Minus(a, b) == Plus(a, Negate(b))

Less(a, b) ==
    \/ less(Upper(a), Upper(b))
    \/ Upper(a) = Upper(b) /\ less(Lower(a), Lower(b))

Shl(a, s) ==
    IF s < 2 * W
    THEN Join(plus(shl(Upper(a), s), shr(shr(Lower(a), 2 * W - s - 1), 1)),
              shl(Lower(a), s))
    ELSE IF s < N * W THEN Join(shl(Lower(a), s - 2 * W), zero) ELSE Zero

Shr(a, s) ==
    IF s < 2 * W
    THEN Join(shr(Upper(a), s),
              plus(shr(Lower(a), s), shl(shl(Upper(a), 2 * W - s - 1), 1)))
    ELSE IF s < N * W THEN Join(zero, shr(Upper(a), s - 2 * W)) ELSE Zero

(* 128 by 128 bits to 256.                                                     *)
(* Fault: what the middle products carry into the upper half is lost.          *)
Umul_LostCarry(a, b) ==
    LET t0 == umul(a.lo, b.lo)
        t1 == umul(a.hi, b.lo)
        t2 == umul(a.lo, b.hi)
        u1 == plus(t1, wide(t0.hi))
        u2 == plus(t2, wide(u1.lo))
    IN Join(plus(umul(a.hi, b.hi), wide(u1.hi)),
            plus(shl(u2, W), wide(t0.lo)))

Umul(a, b) ==
    LET t0 == umul(a.lo, b.lo)
        t1 == umul(a.hi, b.lo)
        t2 == umul(a.lo, b.hi)
        u1 == plus(t1, wide(t0.hi))
        u2 == plus(t2, wide(u1.lo))
    IN Join(plus(plus(umul(a.hi, b.hi), wide(u2.hi)), wide(u1.hi)),
            plus(shl(u2, W), wide(t0.lo)))

Times(a, b) ==
    LET t  == Umul(Lower(a), Lower(b))
        hi == plus(plus(times(Lower(a), Upper(b)), times(Upper(a), Lower(b))),
                   Upper(t))
    IN Join(hi, Lower(t))

-------------------------------------------------------------------------------
(* Division: div.hpp and div.cpp.                                              *)

Significant(w) == CHOOSE k \in 0..N : /\ k > 0 => w[k - 1] # 0
                                      /\ \A i \in k..N - 1 : w[i] = 0

Shifted(w, s, i) ==
    IF i = 0 THEN wshl(w[0], s)
    ELSE IF i = N THEN wshr(w[N - 1], W - s)
    ELSE wshl(w[i], s) + wshr(w[i - 1], W - s)

(* Both operands shifted until the denominator's top bit is set; the numerator *)
(* has a word more than its type for what is shifted out (numerator_ex).       *)
normalize(u, v) ==
    LET n == Significant(v)
        s == wclz(v[n - 1])
    IN [m |-> Significant(u), n |-> n, shift |-> s,
        numerator   |-> [i \in 0..N |-> IF s > 0 THEN Shifted(u, s, i)
                                        ELSE IF i < N THEN u[i] ELSE 0],
        denominator |-> [i \in 0..N - 1 |-> IF s > 0 THEN Shifted(v, s, i) ELSE v[i]]]

(* One round of each loop, from the words it reads.                            *)
by1_round(top, word, d) == udivrem_2by1([hi |-> top, lo |-> word], d, reciprocal_2by1(d))

by2_round(top, word, d) == udivrem_3by2(top.hi, top.lo, word, d, reciprocal_3by2(d))

(* udivrem_knuth's guess at a digit, from the three leading words of what is   *)
(* left and the two of the divisor: a word too large would overflow.           *)
TooLarge(digit, d, rhat, u0) ==
    rhat.hi = 0 /\ less([hi |-> rhat.lo, lo |-> u0], umul(digit, d.lo))

(* Fault: the remainder of the largest digit is not raised by the divisor.     *)
EstimateDigit_OldRemainder(u2, u1, u0, d) ==
    IF u2 >= d.hi
    THEN LET rhat == minus([hi |-> u2, lo |-> u1], [hi |-> d.hi, lo |-> 0])
         IN B - 1 - Bit(TooLarge(B - 1, d, rhat, u0))
    ELSE LET res  == udivrem_2by1([hi |-> u2, lo |-> u1], d.hi, reciprocal_2by1(d.hi))
             rhat == plus(wide(res.rem), wide(d.hi))
         IN IF ~TooLarge(res.quot, d, wide(res.rem), u0) THEN res.quot
            ELSE wsub(res.quot, 1 + Bit(TooLarge(wsub(res.quot, 1), d, rhat, u0)))

EstimateDigit(u2, u1, u0, d) ==
    IF u2 >= d.hi
    THEN LET rhat == plus(minus([hi |-> u2, lo |-> u1], [hi |-> d.hi, lo |-> 0]),
                          wide(d.hi))
         IN B - 1 - Bit(TooLarge(B - 1, d, rhat, u0))
    ELSE LET res  == udivrem_2by1([hi |-> u2, lo |-> u1], d.hi, reciprocal_2by1(d.hi))
             rhat == plus(wide(res.rem), wide(d.hi))
         IN IF ~TooLarge(res.quot, d, wide(res.rem), u0) THEN res.quot
            ELSE wsub(res.quot, 1 + Bit(TooLarge(wsub(res.quot, 1), d, rhat, u0)))

(* un[k..k+n] less digit times the divisor, word by word.                      *)
MultiplySubtract(words, k, vn, n, digit) ==
    LET row[i \in 0..n] ==      \* the words and the borrow before round i
            IF i = 0 THEN [un |-> words, borrow |-> 0]
            ELSE LET p == umul(digit, vn[i - 1])
                     s == minus(minus(wide(row[i - 1].un[k + i - 1]),
                                      wide(row[i - 1].borrow)), wide(p.lo))
                 IN [un     |-> [row[i - 1].un EXCEPT ![k + i - 1] = s.lo],
                     borrow |-> wsub(p.hi, s.hi)]
    IN [un        |-> [row[n].un EXCEPT ![k + n] = wsub(@, row[n].borrow)],
        underflow |-> words[k + n] < row[n].borrow]

AddBack(words, k, vn, n) ==
    LET row[i \in 0..n] ==
            IF i = 0 THEN [un |-> words, carry |-> 0]
            ELSE LET s == plus(plus(wide(row[i - 1].un[k + i - 1]), wide(vn[i - 1])),
                               wide(row[i - 1].carry))
                 IN [un |-> [row[i - 1].un EXCEPT ![k + i - 1] = s.lo], carry |-> s.hi]
    IN [row[n].un EXCEPT ![k + n] = wadd(@, row[n].carry)]

(* x / y and x % y of the signed numbers u and v, from what udivrem makes of   *)
(* their absolute values.                                                      *)
Negative(a) == a[N - 1] >= B \div 2
Absolute(a) == IF Negative(a) THEN Negate(a) ELSE a

(* Fault: the remainder takes the denominator's sign.                          *)
sdivrem_RemSign(u, v, res) ==
    [quot |-> IF Negative(u) # Negative(v) THEN Negate(res.quot) ELSE res.quot,
     rem  |-> IF Negative(v) THEN Negate(res.rem) ELSE res.rem]

sdivrem(u, v, res) ==
    [quot |-> IF Negative(u) # Negative(v) THEN Negate(res.quot) ELSE res.quot,
     rem  |-> IF Negative(u) THEN Negate(res.rem) ELSE res.rem]

-------------------------------------------------------------------------------
(* udivrem, step by step.                                                      *)

Raw     == [shift |-> -1]
NoDigit == -1
Running == na # Raw /\ j >= 0

Normalize ==
    LET args == normalize(x, y)
        top  == args.numerator
    IN /\ na = Raw
       /\ na' = args
       /\ CASE args.n > args.m ->
                  /\ j' = -1
                  /\ UNCHANGED <<un, r>>
            [] args.n <= args.m /\ args.n = 1 ->
                  /\ r' = wide(top[args.m])
                  /\ un' = [top EXCEPT ![args.m] = 0]
                  /\ j' = args.m - 1
            [] args.n <= args.m /\ args.n = 2 ->
                  /\ r' = [hi |-> top[args.m], lo |-> top[args.m - 1]]
                  /\ un' = [top EXCEPT ![args.m] = 0, ![args.m - 1] = 0]
                  /\ j' = args.m - 2
            [] OTHER ->
                  /\ un' = top
                  /\ j' = args.m - args.n
                  /\ UNCHANGED r
       /\ UNCHANGED <<x, y, q, qhat>>

(* One iteration of udivrem_by1 and of udivrem_by2.                            *)
By1 ==
    LET res == by1_round(r.lo, un[j], na.denominator[0])
    IN /\ Running
       /\ na.n = 1
       /\ un' = [un EXCEPT ![j] = res.quot]
       /\ r' = wide(res.rem)
       /\ j' = j - 1
       /\ UNCHANGED <<x, y, na, q, qhat>>

By2 ==
    LET res == by2_round(r, un[j], Lower(na.denominator))
    IN /\ Running
       /\ na.n = 2
       /\ un' = [un EXCEPT ![j] = res.quot]
       /\ r' = res.rem
       /\ j' = j - 1
       /\ UNCHANGED <<x, y, na, q, qhat>>

(* udivrem_knuth: guess a digit, then take its multiple of the divisor off.    *)
Estimate ==
    /\ Running
    /\ na.n > 2
    /\ qhat = NoDigit
    /\ qhat' = EstimateDigit(un[j + na.n], un[j + na.n - 1], un[j + na.n - 2],
                             [hi |-> na.denominator[na.n - 1],
                              lo |-> na.denominator[na.n - 2]])
    /\ UNCHANGED <<x, y, na, un, q, r, j>>

(* Fault: too much was subtracted, but only the digit is corrected.            *)
DigitStored_NoAddBack ==
    LET left == MultiplySubtract(un, j, na.denominator, na.n, qhat)
    IN /\ un' = left.un
       /\ q' = [q EXCEPT ![j] = IF left.underflow THEN wsub(qhat, 1) ELSE qhat]

DigitStored ==
    LET left == MultiplySubtract(un, j, na.denominator, na.n, qhat)
    IN IF left.underflow
       THEN /\ un' = AddBack(left.un, j, na.denominator, na.n)
            /\ q' = [q EXCEPT ![j] = wsub(qhat, 1)]
       ELSE /\ un' = left.un
            /\ q' = [q EXCEPT ![j] = qhat]

Subtract ==
    /\ Running
    /\ qhat # NoDigit
    /\ DigitStored
    /\ qhat' = NoDigit
    /\ j' = j - 1
    /\ UNCHANGED <<x, y, na, r>>

Done == na # Raw /\ j = -1

(* What udivrem returns.                                                       *)
(* Fault: the remainder's words do not get the low bits of the next.           *)
Result_WordByWord ==
    CASE na.n > na.m -> [quot |-> Zero, rem |-> x]
      [] na.n <= na.m /\ na.n = 1 ->
           [quot |-> [i \in 0..N - 1 |-> un[i]],
            rem  |-> Join(zero, wide(wshr(r.lo, na.shift)))]
      [] na.n <= na.m /\ na.n = 2 ->
           [quot |-> [i \in 0..N - 1 |-> un[i]],
            rem  |-> Join(zero, shr(r, na.shift))]
      [] OTHER ->
           [quot |-> q,
            rem  |-> [i \in 0..N - 1 |-> IF i >= na.n THEN 0 ELSE wshr(un[i], na.shift)]]

Result ==
    CASE na.n > na.m -> [quot |-> Zero, rem |-> x]
      [] na.n <= na.m /\ na.n = 1 ->
           [quot |-> [i \in 0..N - 1 |-> un[i]],
            rem  |-> Join(zero, wide(wshr(r.lo, na.shift)))]
      [] na.n <= na.m /\ na.n = 2 ->
           [quot |-> [i \in 0..N - 1 |-> un[i]],
            rem  |-> Join(zero, shr(r, na.shift))]
      [] OTHER ->
           [quot |-> q,
            rem  |-> [i \in 0..N - 1 |->
                        IF i >= na.n THEN 0
                        ELSE IF na.shift = 0 THEN un[i]
                        ELSE wshr(un[i], na.shift) + wshl(un[i + 1], W - na.shift)]]

Init ==
    /\ x \in Words
    /\ y \in Words \ {Zero}
    /\ na = Raw
    /\ un = [i \in 0..N |-> 0]
    /\ q = Zero
    /\ r = zero
    /\ j = -1
    /\ qhat = NoDigit

Next == Normalize \/ By1 \/ By2 \/ Estimate \/ Subtract

Spec == Init /\ [][Next]_vars

-------------------------------------------------------------------------------
(* Properties.                                                                 *)

(* Sum, difference, product, order and shifts, carried from word to word, are  *)
(* those of the whole numbers modulo 2^256, for any operands and any shift,    *)
(* 0, a whole word and beyond the width included.                              *)
WordArithmetic ==
    na = Raw =>
      /\ Number(Plus(x, y)) = (Number(x) + Number(y)) % Wide
      /\ add_with_carry(x, y).carry = (Number(x) + Number(y) >= Wide)
      /\ Number(Minus(x, y)) = (Number(x) - Number(y)) % Wide
      /\ Number(Times(x, y)) = (Number(x) * Number(y)) % Wide
      /\ Number(Umul(Lower(x), Lower(y))) = Val(Lower(x)) * Val(Lower(y))
      /\ Less(x, y) = (Number(x) < Number(y))
      /\ \A s \in 0..N * W + 1 :
           /\ Number(Shl(x, s)) = (Number(x) * 2^s) % Wide
           /\ Number(Shr(x, s)) = Number(x) \div 2^s

(* What a one in word i is worth.                                              *)
Place(i) == 2^(W * i)

(* The same eight bits as a uint128 of two words of four bits.                 *)
Nibbles == INSTANCE Int128 WITH W <- 2 * W
Regrouped(a) == [hi |-> Number(a) \div Place(2), lo |-> Number(a) % Place(2)]

(* uint128's own division, by one word or by two, with or without a shift, the *)
(* division of three words by two it rests on, its negation and product, the   *)
(* portable product of words and the count of leading zeros agree with the     *)
(* whole numbers.                                                              *)
HalfWidth ==
    na = Raw =>
      LET a   == Regrouped(x)
          b   == Regrouped(y)
          res == Nibbles!udivrem128(a, b)
          Value(n) == Nibbles!Val(n)
      IN /\ Value(res.quot) = Value(a) \div Value(b)
         /\ Value(res.rem) = Value(a) % Value(b)
         /\ b.hi >= Nibbles!B \div 2 /\ Value(a) < Value(b) =>
              \A u0 \in Nibbles!Word :
                LET v    == Nibbles!reciprocal_3by2(b)
                    step == Nibbles!udivrem_3by2(a.hi, a.lo, u0, b, v)
                IN step.quot * Value(b) + Value(step.rem) = Value(a) * Nibbles!B + u0
                     /\ Value(step.rem) < Value(b)
         /\ Value(Nibbles!negate(a)) = (-Value(a)) % Wide
         /\ Value(Nibbles!times(a, b)) = (Value(a) * Value(b)) % Wide
         /\ Nibbles!constexpr_umul(a.lo, b.lo) = Nibbles!umul(a.lo, b.lo)
         /\ IF Value(a) = 0 THEN Nibbles!clz(a) = N * W
            ELSE 2^(N * W - 1 - Nibbles!clz(a)) <= Value(a) /\ Value(a) < 2^(N * W - Nibbles!clz(a))

(* The quotient digits found so far, those of udivrem_by1 and by2 in un.       *)
Found ==
    IF na.n > 2 THEN Number(q)
    ELSE Number([i \in 0..N |-> IF i > j THEN un[i] ELSE 0])

(* What is still to be divided, normalized.                                    *)
Left ==
    IF na.n > 2 THEN Number(un)
    ELSE Val(r) * Place(j + 1) + Number([i \in 0..N |-> IF i > j THEN 0 ELSE un[i]])

(* Before every round the digits found times the divisor, plus what is left,   *)
(* are still the numerator, and what is left is less than the divisor at the   *)
(* place of the next digit: no borrow, carry or digit has overflowed.          *)
LoopExact ==
    na # Raw /\ na.n <= na.m /\ qhat = NoDigit =>
      /\ Found * Number(na.denominator) + Left = Number(na.numerator)
      /\ Left < Number(na.denominator) * Place(j + 1)

(* Knuth's estimate, taken from the leading words alone, is the digit or one   *)
(* more: adding the divisor back once is enough.                               *)
EstimateOneOff ==
    qhat # NoDigit =>
      qhat - (Left \div (Number(na.denominator) * Place(j))) \in {0, 1}

(* udivrem returns the quotient and the remainder, and the library's own * and *)
(* + put them together again: UINT256_MAX / delta * delta, next's threshold,   *)
(* is the largest multiple of delta.                                           *)
DividesExactly ==
    Done =>
      /\ Number(Result.quot) = Number(x) \div Number(y)
      /\ Number(Result.rem) = Number(x) % Number(y)
      /\ Plus(Times(Result.quot, y), Result.rem) = x

Signed(a) == Number(a) - (IF Negative(a) THEN Wide ELSE 0)

(* Signed division truncates toward zero, the remainder has the numerator's    *)
(* sign, and the one quotient that does not fit, of the least number by -1,    *)
(* wraps to the least number.                                                  *)
SignedTruncates ==
    Done =>
      \A u \in {x, Negate(x)}, v \in {y, Negate(y)} :
        x = Absolute(u) /\ y = Absolute(v) =>
          LET res == sdivrem(u, v, Result)
          IN /\ (Signed(res.quot) * Signed(v) + Signed(res.rem) - Signed(u)) % Wide = 0
             /\ Signed(res.rem) * Signed(u) >= 0
             /\ Number(Absolute(res.rem)) < Number(y)
             /\ Number(Absolute(res.quot)) = Number(x) \div Number(y)

===============================================================================

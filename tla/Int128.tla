-------------------------------- MODULE Int128 --------------------------------
(* intx/int128.hpp: the 128-bit integers the SDK's generator computes with, as *)
(* two machine words.  A word has W bits (64 in the code) and all arithmetic   *)
(* on words is modulo B = 2^W, so every carry, borrow and overflow shows.      *)
(*                                                                             *)
(* Two parts that never share a bit are joined with + where the code has |.    *)
EXTENDS Integers

CONSTANT W

ASSUME WidthAssumption == W \in Nat \ {0} /\ W % 2 = 0

B    == 2^W
Half == 2^(W \div 2)
Word == 0..B - 1

uint128 == [hi : Word, lo : Word]
Val(x)  == x.hi * B + x.lo
zero    == [hi |-> 0, lo |-> 0]
wide(w) == [hi |-> 0, lo |-> w]

(* The arithmetic of uint64_t.                                                 *)
wadd(a, b) == (a + b) % B
wsub(a, b) == (a - b) % B
wmul(a, b) == (a * b) % B
wshl(a, s) == (a * 2^s) % B
wshr(a, s) == a \div 2^s
Bit(cond)  == IF cond THEN 1 ELSE 0

-------------------------------------------------------------------------------
(* Linear arithmetic and comparison.                                           *)

plus(x, y) ==
    LET lo == wadd(x.lo, y.lo)
    IN [hi |-> wadd(wadd(x.hi, y.hi), Bit(x.lo > lo)), lo |-> lo]

minus(x, y) ==
    LET lo == wsub(x.lo, y.lo)
    IN [hi |-> wsub(wsub(x.hi, y.hi), Bit(x.lo < lo)), lo |-> lo]

negate(x) == minus(zero, x)
invert(x) == [hi |-> B - 1 - x.hi, lo |-> B - 1 - x.lo]

less(x, y)   == x.hi < y.hi \/ (x.hi = y.hi /\ x.lo < y.lo)
atmost(x, y) == x.hi < y.hi \/ (x.hi = y.hi /\ x.lo <= y.lo)

(* The part that moves to the other word is shifted in two goes, for a word    *)
(* cannot be shifted by its whole width.                                       *)
shl(x, s) ==
    IF s < W THEN [hi |-> wshl(x.hi, s) + wshr(wshr(x.lo, 1), W - 1 - s),
                   lo |-> wshl(x.lo, s)]
    ELSE IF s < 2 * W THEN [hi |-> wshl(x.lo, s - W), lo |-> 0] ELSE zero

shr(x, s) ==
    IF s < W THEN [hi |-> wshr(x.hi, s),
                   lo |-> wshr(x.lo, s) + wshl(wshl(x.hi, 1), W - 1 - s)]
    ELSE IF s < 2 * W THEN [hi |-> 0, lo |-> wshr(x.hi, s - W)] ELSE zero

(* __builtin_clzll, the width for 0.                                           *)
wclz(w) == CHOOSE n \in 0..W : IF n = W THEN w = 0 ELSE w \div 2^(W - n - 1) = 1

clz(x) == IF x.hi = 0 THEN wclz(x.lo) + W ELSE wclz(x.hi)

-------------------------------------------------------------------------------
(* Multiplication: umul is the compiler's, constexpr_umul the portable one.    *)

umul(a, b) == [hi |-> (a * b) \div B, lo |-> (a * b) % B]

constexpr_umul(a, b) ==
    LET t0 == wmul(a % Half, b % Half)
        t1 == wmul(a \div Half, b % Half)
        t2 == wmul(a % Half, b \div Half)
        t3 == wmul(a \div Half, b \div Half)
        u1 == wadd(t1, t0 \div Half)
        u2 == wadd(t2, u1 % Half)
    IN [hi |-> wadd(wadd(t3, u2 \div Half), u1 \div Half),
        lo |-> wmul(u2, Half) + (t0 % Half)]

times(x, y) ==
    LET p == umul(x.lo, y.lo)
    IN [p EXCEPT !.hi = wadd(@, wadd(wmul(x.lo, y.hi), wmul(x.hi, y.lo)))]

-------------------------------------------------------------------------------
(* Division by a reciprocal, for divisors whose top bit is set.                *)

(* What its comment says it computes; how (a table of the leading nine bits    *)
(* and three rounds of Newton's method) is a matter of 64-bit constants.       *)
reciprocal_2by1(d) == (B * B - 1) \div d - B

reciprocal_3by2(d) ==
    LET v0 == reciprocal_2by1(d.hi)
        p0 == wadd(wmul(d.hi, v0), d.lo)
        first == IF p0 >= d.lo THEN [v |-> v0, p |-> p0]
                 ELSE IF p0 >= d.hi
                 THEN [v |-> wsub(v0, 2), p |-> wsub(wsub(p0, d.hi), d.hi)]
                 ELSE [v |-> wsub(v0, 1), p |-> wsub(p0, d.hi)]
        t == umul(first.v, d.lo)
        p == wadd(first.p, t.hi)
    IN IF p >= t.hi THEN first.v
       ELSE wsub(first.v, 1 + Bit(atmost(d, [hi |-> p, lo |-> t.lo])))

udivrem_2by1(u, d, v) ==
    LET q  == plus(umul(v, u.hi), u)
        q1 == wadd(q.hi, 1)
        r1 == wsub(u.lo, wmul(q1, d))
        q2 == IF r1 > q.lo THEN wsub(q1, 1) ELSE q1
        r2 == IF r1 > q.lo THEN wadd(r1, d) ELSE r1
    IN IF r2 >= d THEN [quot |-> wadd(q2, 1), rem |-> wsub(r2, d)]
       ELSE [quot |-> q2, rem |-> r2]

(* Fault: the remainder is not corrected a second time.                        *)
udivrem_3by2_Once(u2, u1, u0, d, v) ==
    LET q  == plus(umul(v, u2), [hi |-> u2, lo |-> u1])
        t  == umul(d.lo, q.hi)
        r  == minus(minus([hi |-> wsub(u1, wmul(q.hi, d.hi)), lo |-> u0], t), d)
        q1 == wadd(q.hi, 1)
    IN [quot |-> IF r.hi >= q.lo THEN wsub(q1, 1) ELSE q1,
        rem  |-> IF r.hi >= q.lo THEN plus(r, d) ELSE r]

udivrem_3by2(u2, u1, u0, d, v) ==
    LET q  == plus(umul(v, u2), [hi |-> u2, lo |-> u1])
        t  == umul(d.lo, q.hi)
        r  == minus(minus([hi |-> wsub(u1, wmul(q.hi, d.hi)), lo |-> u0], t), d)
        q1 == wadd(q.hi, 1)
        q2 == IF r.hi >= q.lo THEN wsub(q1, 1) ELSE q1
        r2 == IF r.hi >= q.lo THEN plus(r, d) ELSE r
    IN IF less(r2, d) THEN [quot |-> q2, rem |-> r2]
       ELSE [quot |-> wadd(q2, 1), rem |-> minus(r2, d)]

(* uint128 by uint128: by a word, by two words that need no shift, or by two.  *)
udivrem128(x, y) ==
    LET lsh == IF y.hi = 0 THEN wclz(y.lo) ELSE wclz(y.hi)
        ex  == IF lsh = 0 THEN 0 ELSE wshr(x.hi, W - lsh)
        xn  == shl(x, lsh)
        yn  == shl(y, lsh)
    IN CASE y.hi = 0 ->
              LET v  == reciprocal_2by1(yn.lo)
                  q1 == udivrem_2by1([hi |-> ex, lo |-> xn.hi], yn.lo, v)
                  q0 == udivrem_2by1([hi |-> q1.rem, lo |-> xn.lo], yn.lo, v)
              IN [quot |-> [hi |-> q1.quot, lo |-> q0.quot],
                  rem  |-> wide(wshr(q0.rem, lsh))]
         [] y.hi > x.hi -> [quot |-> zero, rem |-> x]
         [] y.hi # 0 /\ y.hi <= x.hi /\ lsh = 0 ->
              LET q == Bit(y.hi < x.hi \/ y.lo <= x.lo)
              IN [quot |-> wide(q), rem |-> IF q = 1 THEN minus(x, y) ELSE x]
         [] OTHER ->
              LET res == udivrem_3by2(ex, xn.hi, xn.lo, yn, reciprocal_3by2(yn))
              IN [quot |-> wide(res.quot), rem |-> shr(res.rem, lsh)]

===============================================================================

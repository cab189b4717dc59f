------------------------------ MODULE Int128Proofs -----------------------------
(* The arithmetic of the 128-bit integers is that of whole numbers modulo      *)
(* 2^128, for words of any width.                                              *)
EXTENDS Int128, Arithmetic

-------------------------------------------------------------------------------
(* Words.                                                                      *)

LEMMA Base == B \in Nat \ {0} /\ 2 <= B /\ W \in Nat \ {0} /\ B \in Int
<1>1. W \in Nat \ {0}  BY WidthAssumption
<1>. QED  BY <1>1, PowerAboveOne DEF B

LEMMA WordSum ==
    ASSUME NEW l \in Word, NEW m \in Word, NEW s, s = wadd(l, m)
    PROVE  s \in Word /\ l + m = s + Bit(l > s) * B
<1>1. s \in 0..B - 1 /\ l + m = s + (IF l > s THEN 1 ELSE 0) * B
  <2>1. B \in Nat \ {0} /\ l \in 0..B - 1 /\ m \in 0..B - 1 /\ s = (l + m) % B
    BY Base DEF Word, wadd
  <2>. QED  BY <2>1, SumWraps DEF SumOf
<1>. QED  BY <1>1 DEF Word, Bit

LEMMA WordDifference ==
    ASSUME NEW l \in Word, NEW m \in Word, NEW s, s = wsub(l, m)
    PROVE  s \in Word /\ l - m = s - Bit(l < s) * B
<1>1. s \in 0..B - 1 /\ l - m = s - (IF l < s THEN 1 ELSE 0) * B
  <2>1. B \in Nat \ {0} /\ l \in 0..B - 1 /\ m \in 0..B - 1 /\ s = (l - m) % B
    BY Base DEF Word, wsub
  <2>. QED  BY <2>1, DifferenceWraps DEF DifferenceOf
<1>. QED  BY <1>1 DEF Word, Bit

LEMMA WordMod ==
    ASSUME NEW a \in Int
    PROVE  a % B \in Word
BY Base, DivMod DEF Word

(* A shift down moves the word to the right.                                   *)
LEMMA WordDown ==
    ASSUME NEW l \in Word, NEW c \in Nat \ {0}
    PROVE  l \div c \in Word /\ l \div c <= l
<1>0. B \in Nat \ {0} /\ l \in Nat  BY Base DEF Word
<1>. DEFINE e == l \div c
            t == l % c
<1>1. l = e * c + t /\ e \in Int /\ t \in 0..c - 1  BY <1>0, DivMod
<1>. HIDE DEF e, t
<1>2. e >= 0
  <2>1. ASSUME e < 0 PROVE FALSE
    <3>1. (e + 1) * c <= 0 /\ (e + 1) * c = e * c + c /\ e * c \in Int  BY <1>1, <2>1
    <3>. QED  BY <1>0, <1>1, <3>1
  <2>. QED  BY <1>1, <2>1
<1>3. e <= e * c /\ e * c \in Nat  BY <1>1, <1>2, TimesOne
<1>4. e <= l /\ e \in Word  BY <1>0, <1>1, <1>2, <1>3 DEF Word
<1>. QED  BY <1>4 DEF e

-------------------------------------------------------------------------------
(* Two words.                                                                  *)

Full == B * B

LEMMA ValIs ==
    ASSUME NEW u \in uint128
    PROVE  /\ u.hi \in Word /\ u.lo \in Word /\ u.hi \in Int /\ u.lo \in Int
           /\ u.hi \in 0..B - 1 /\ u.lo \in 0..B - 1
           /\ Val(u) = u.hi * B + u.lo /\ Val(u) \in 0..Full - 1 /\ Val(u) \in Nat
           /\ u = [hi |-> u.hi, lo |-> u.lo]
<1>1. u.hi \in Word /\ u.lo \in Word /\ u = [hi |-> u.hi, lo |-> u.lo]
  BY DEF uint128
<1>2. u.hi \in 0..B - 1 /\ u.lo \in 0..B - 1 /\ Word \subseteq Int
  BY <1>1, Base DEF Word
<1>3. u.hi * B + u.lo \in 0..B * B - 1  BY <1>2, Base, LimbsIn
<1>4. B * B \in Nat  BY Base
<1>. QED  BY <1>1, <1>2, <1>3, <1>4 DEF Val, Full

LEMMA PairIs ==
    ASSUME NEW h \in Word, NEW l \in Word
    PROVE  /\ [hi |-> h, lo |-> l] \in uint128
           /\ Val([hi |-> h, lo |-> l]) = h * B + l
BY DEF uint128, Val

LEMMA WideIs ==
    ASSUME NEW w \in Word
    PROVE  wide(w) \in uint128 /\ Val(wide(w)) = w /\ wide(w).lo = w /\ wide(w).hi = 0
<1>1. 0 \in Word /\ 0 * B + w = w  BY Base DEF Word
<1>. QED  BY <1>1, PairIs DEF wide

LEMMA ZeroIs == zero \in uint128 /\ Val(zero) = 0
<1>1. 0 \in Word /\ 0 * B + 0 = 0  BY Base DEF Word
<1>. QED  BY <1>1, PairIs DEF zero

LEMMA FullIs == Full \in Nat \ {0} /\ B < Full /\ Full = 2^(2 * W)
<1>1. W \in Nat /\ 2 * W = W + W  BY Base
<1>2. 2^(2 * W) = B * B  BY <1>1, PowerSum DEF B
<1>3. 2 * B <= B * B /\ B < 2 * B
  BY Base
<1>4. B * B \in Nat \ {0}  BY Base
<1>. QED  BY <1>2, <1>3, <1>4, Base DEF Full

(* A sum wraps as a whole, whatever its words carry.                           *)
LEMMA PlusIs ==
    ASSUME NEW u \in uint128, NEW v \in uint128
    PROVE  plus(u, v) \in uint128 /\ Val(plus(u, v)) = (Val(u) + Val(v)) % Full
<1>. DEFINE h == u.hi
            l == u.lo
            k == v.hi
            m == v.lo
            lo == wadd(l, m)
            c == Bit(l > lo)
            hk == h + k
            s == hk + c
<1>1. /\ h \in Int /\ l \in Word /\ k \in Int /\ m \in Word
      /\ l \in Int /\ m \in Int
      /\ Val(u) = h * B + l /\ Val(v) = k * B + m
  BY ValIs
<1>2. lo \in Word /\ l + m = lo + c * B  BY <1>1, WordSum
<1>3. c \in Int /\ hk \in Int /\ s \in Int  BY <1>1 DEF Bit
<1>4. plus(u, v) = [hi |-> s % B, lo |-> lo]
  <2>. HIDE DEF c, hk
  <2>1. ((hk % B) + c) % B = (hk + c) % B  BY <1>3, Base, ModPlus
  <2>. QED  BY <2>1 DEF plus, wadd, hk, c
<1>5. s * B + lo = Val(u) + Val(v) /\ lo \in 0..B - 1
  <2>. HIDE DEF c, lo
  <2>1. (h + k + c) * B = h * B + k * B + c * B  BY <1>1, <1>3, Base
  <2>2. h * B \in Int /\ k * B \in Int /\ c * B \in Int  BY <1>1, <1>3, Base
  <2>3. lo \in Int  BY <1>2, Base DEF Word
  <2>. QED  BY <1>1, <1>2, <2>1, <2>2, <2>3 DEF Word
<1>. HIDE DEF s, lo
<1>6. (s % B) * B + lo = (s * B + lo) % (B * B)  BY <1>3, <1>5, Base, ModLimbs
<1>. QED  BY <1>2, <1>3, <1>4, <1>5, <1>6, WordMod, PairIs DEF Full

LEMMA MinusIs ==
    ASSUME NEW u \in uint128, NEW v \in uint128
    PROVE  minus(u, v) \in uint128 /\ Val(minus(u, v)) = (Val(u) - Val(v)) % Full
<1>. DEFINE h == u.hi
            l == u.lo
            k == v.hi
            m == v.lo
            lo == wsub(l, m)
            c == Bit(l < lo)
            hk == h - k
            s == hk + (-c)
<1>1. /\ h \in Int /\ l \in Word /\ k \in Int /\ m \in Word
      /\ l \in Int /\ m \in Int
      /\ Val(u) = h * B + l /\ Val(v) = k * B + m
  BY ValIs
<1>2. lo \in Word /\ l - m = lo - c * B  BY <1>1, WordDifference
<1>3. c \in Int /\ -c \in Int /\ hk \in Int /\ s \in Int  BY <1>1 DEF Bit
<1>4. minus(u, v) = [hi |-> s % B, lo |-> lo]
  <2>1. hk % B \in Int  BY <1>3, Base, DivMod
  <2>. HIDE DEF c, hk
  <2>2. ((hk % B) + (-c)) % B = (hk + (-c)) % B  BY <1>3, Base, ModPlus
  <2>3. (hk % B) + (-c) = (hk % B) - c  BY <1>3, <2>1
  <2>. QED  BY <2>2, <2>3 DEF minus, wsub, hk, c
<1>5. s * B + lo = Val(u) - Val(v) /\ lo \in 0..B - 1
  <2>. HIDE DEF c, lo
  <2>1. (h - k + (-c)) * B = h * B - k * B - c * B  BY <1>1, <1>3, Base
  <2>2. h * B \in Int /\ k * B \in Int /\ c * B \in Int  BY <1>1, <1>3, Base
  <2>3. lo \in Int  BY <1>2, Base DEF Word
  <2>. QED  BY <1>1, <1>2, <2>1, <2>2, <2>3 DEF Word
<1>. HIDE DEF s, lo
<1>6. (s % B) * B + lo = (s * B + lo) % (B * B)  BY <1>3, <1>5, Base, ModLimbs
<1>. QED  BY <1>2, <1>3, <1>4, <1>5, <1>6, WordMod, PairIs DEF Full

LEMMA LessIs ==
    ASSUME NEW u \in uint128, NEW v \in uint128
    PROVE  /\ less(u, v) <=> Val(u) < Val(v)
           /\ atmost(u, v) <=> Val(u) <= Val(v)
           /\ u = v <=> Val(u) = Val(v)
<1>1. /\ Val(u) < Val(v) <=> u.hi < v.hi \/ (u.hi = v.hi /\ u.lo < v.lo)
      /\ Val(u) = Val(v) <=> u.hi = v.hi /\ u.lo = v.lo
  BY ValIs, Base, LimbsLess
<1>2. u = v <=> u.hi = v.hi /\ u.lo = v.lo  BY ValIs
<1>3. u.lo \in Int /\ v.lo \in Int /\ Val(u) \in Int /\ Val(v) \in Int  BY ValIs
<1>. QED  BY <1>1, <1>2, <1>3 DEF less, atmost

LEMMA UmulIs ==
    ASSUME NEW a \in Word, NEW e \in Word
    PROVE  umul(a, e) \in uint128 /\ Val(umul(a, e)) = a * e
<1>. DEFINE p == a * e
<1>0. B \in Nat \ {0} /\ a \in 0..B - 1 /\ e \in 0..B - 1  BY Base DEF Word
<1>1. p \in 0..B * B - 1
  <2>1. a * e <= (B - 1) * e /\ (B - 1) * e <= (B - 1) * (B - 1)  BY <1>0
  <2>2. (B - 1) * (B - 1) < B * B /\ a * e \in Nat  BY <1>0
  <2>3. (B - 1) * (B - 1) \in Int /\ B * B \in Int /\ (B - 1) * e \in Int  BY <1>0
  <2>. QED  BY <2>1, <2>2, <2>3
<1>. HIDE DEF p
<1>2. p \in Int  BY <1>0, <1>1
<1>3. p = (p \div B) * B + (p % B) /\ p % B \in Word  BY <1>0, <1>2, DivMod, WordMod
<1>4. p \div B \in Word  BY <1>0, <1>1, ShiftLimb DEF Word
<1>. QED  BY <1>3, <1>4, PairIs DEF umul, p

(* The products of the high words only count in the high word.                 *)
LEMMA TimesIs ==
    ASSUME NEW u \in uint128, NEW v \in uint128
    PROVE  times(u, v) \in uint128 /\ Val(times(u, v)) = (Val(u) * Val(v)) % Full
<1>. DEFINE p == umul(u.lo, v.lo)
            f == u.lo * v.hi
            g == u.hi * v.lo
            s == p.hi + (f + g)
<1>0. B \in Nat \ {0} /\ Full \in Nat \ {0}  BY Base, FullIs
<1>1. /\ p \in uint128 /\ p.hi * B + p.lo = u.lo * v.lo
      /\ p.hi \in Int /\ p.lo \in 0..B - 1 /\ p.lo \in Word
  BY ValIs, UmulIs
<1>2. f \in Int /\ g \in Int /\ s \in Int /\ f + g \in Int
  BY <1>1, ValIs
<1>3. times(u, v) = [hi |-> s % B, lo |-> p.lo]
  <2>1. wadd(wmul(u.lo, v.hi), wmul(u.hi, v.lo)) = (f + g) % B
    <3>. HIDE DEF f, g
    <3>0. f % B \in Int /\ g % B \in Int  BY <1>0, <1>2, DivMod
    <3>1. f + (g % B) = (g % B) + f /\ g + f = f + g  BY <1>2, <3>0
    <3>2. ((f % B) + (g % B)) % B = (f + (g % B)) % B  BY <1>0, <1>2, <3>0, ModPlus
    <3>3. ((g % B) + f) % B = (g + f) % B  BY <1>0, <1>2, ModPlus
    <3>4. ((f % B) + (g % B)) % B = (f + g) % B  BY <3>1, <3>2, <3>3
    <3>. QED  BY <3>4 DEF wadd, wmul, f, g
  <2>2. (p.hi + ((f + g) % B)) % B = s % B
    <3>. DEFINE t == f + g
                e == p.hi
    <3>. HIDE DEF t, e
    <3>1. t \in Int /\ e \in Int  BY <1>1, <1>2 DEF t, e
    <3>2. t % B \in Int  BY <1>0, <3>1, DivMod
    <3>3. ((t % B) + e) % B = (t + e) % B  BY <1>0, <3>1, ModPlus
    <3>4. (t % B) + e = e + (t % B) /\ t + e = e + t  BY <3>1, <3>2
    <3>. QED  BY <3>3, <3>4 DEF t, e
  <2>3. p = [hi |-> p.hi, lo |-> p.lo]  BY <1>1, ValIs
  <2>4. times(u, v)
          = [p EXCEPT !.hi = wadd(@, wadd(wmul(u.lo, v.hi), wmul(u.hi, v.lo)))]
    BY DEF times
  <2>. HIDE DEF p, s, f, g
  <2>5. times(u, v) = [hi |-> wadd(p.hi, (f + g) % B), lo |-> p.lo]
    BY <2>1, <2>3, <2>4
  <2>. QED  BY <2>2, <2>5 DEF wadd
<1>4. (s % B) * B + p.lo = (Val(u) * Val(v)) % Full
  <2>. DEFINE h == u.hi
              l == u.lo
              m == v.hi
              n == v.lo
              e == p.hi
              t == p.lo
  <2>1. /\ h \in Int /\ l \in Int /\ m \in Int /\ n \in Int /\ e \in Int
        /\ t \in 0..B - 1 /\ e * B + t = l * n /\ B \in Nat \ {0}
        /\ Val(u) = h * B + l /\ Val(v) = m * B + n
    BY <1>0, <1>1, ValIs
  <2>. HIDE DEF h, l, m, n, e, t
  <2>2. ProductByLimb(h, l, m, n, e, t, B)  BY <2>1, LimbsTimes
  <2>3. s = e + (l * m + h * n)  BY DEF e, l, m, h, n
  <2>. HIDE DEF s
  <2>. QED  BY <2>1, <2>2, <2>3 DEF ProductByLimb, Full, t
<1>5. s % B \in Word  BY <1>2, WordMod
<1>. QED  BY <1>1, <1>3, <1>4, <1>5, PairIs

(* Shifts.                                                                     *)

LEMMA Shifts ==
    ASSUME NEW s \in Nat
    PROVE  /\ 2^s \in Nat \ {0}
           /\ s < W => /\ B = 2^s * 2^(W - s) /\ 2^(W - s) \in Nat \ {0}
                       /\ 2^(W - s) = 2^1 * 2^(W - 1 - s)
                       /\ 2^1 \in Nat \ {0} /\ 2^(W - 1 - s) \in Nat \ {0}
           /\ s >= W => 2^s = B * 2^(s - W) /\ 2^(s - W) \in Nat \ {0}
           /\ s >= 2 * W => 2^s = Full * 2^(s - 2 * W) /\ 2^(s - 2 * W) \in Nat \ {0}
<1>0. W \in Nat \ {0} /\ 2 * W \in Nat \ {0}  BY Base
<1>. QED  BY <1>0, PowerSplits, FullIs DEF B

(* A part that leaves the word moves to the other, and in two goes is moved by *)
(* as much as in one.                                                          *)
LEMMA ShlIs ==
    ASSUME NEW u \in uint128, NEW s \in Nat
    PROVE  shl(u, s) \in uint128 /\ Val(shl(u, s)) = (Val(u) * 2^s) % Full
<1>. DEFINE h == u.hi
            l == u.lo
            c == 2^s
<1>0. /\ W \in Nat \ {0} /\ B \in Nat \ {0} /\ Full \in Nat \ {0}
      /\ h \in 0..B - 1 /\ l \in 0..B - 1 /\ l \in Nat /\ Val(u) = h * B + l
      /\ c \in Nat \ {0} /\ h \in Int /\ l \in Int
  <2>1. c \in Nat \ {0}  BY Shifts
  <2>2. h \in Nat /\ l \in Nat  BY ValIs, Base DEF Word
  <2>. HIDE DEF c
  <2>. QED  BY <2>1, <2>2, Base, FullIs, ValIs
<1>1. CASE s < W
  <2>. DEFINE d == 2^(W - s)
  <2>1. B = c * d /\ d \in Nat \ {0} /\ B \in Nat  BY <1>0, <1>1, Shifts
  <2>2. wshr(wshr(l, 1), W - 1 - s) = l \div d
    <3>. DEFINE e == 2^1
                f == 2^(W - 1 - s)
    <3>1. d = e * f /\ e \in Nat \ {0} /\ f \in Nat \ {0}  BY <1>0, <1>1, Shifts
    <3>. HIDE DEF d, e, f
    <3>2. (l \div e) \div f = l \div d  BY <1>0, <3>1, DivDiv
    <3>. QED  BY <3>2 DEF wshr, e, f
  <2>3. shl(u, s) = [hi |-> ((h * c) % B) + (l \div d), lo |-> (l * c) % B]
    BY <1>1, <2>2 DEF shl, wshl
  <2>. HIDE DEF h, l, c, d
  <2>4. UpByPart(h, l, B, c, d)  BY <1>0, <2>1, LimbsUp
  <2>. DEFINE top == ((h * c) % B) + (l \div d)
              low == (l * c) % B
  <2>5. top \in Word /\ low \in Word  BY <2>4 DEF Word, UpByPart
  <2>6. shl(u, s) = [hi |-> top, lo |-> low] /\ top * B + low = (Val(u) * c) % Full
    BY <1>0, <2>3, <2>4 DEF Full, UpByPart
  <2>. HIDE DEF top, low
  <2>. QED  BY <2>5, <2>6, PairIs DEF c
<1>2. CASE s >= W /\ s < 2 * W
  <2>. DEFINE d == 2^(s - W)
  <2>1. c = B * d /\ d \in Nat \ {0}  BY <1>2, Shifts
  <2>2. ~ s < W  BY <1>0, <1>2
  <2>. DEFINE top == (l * d) % B
  <2>3. shl(u, s) = [hi |-> top, lo |-> 0]  BY <1>2, <2>2 DEF shl, wshl
  <2>. HIDE DEF h, l, c, d
  <2>4. UpByLimb(h, l, B, d)  BY <1>0, <2>1, LimbUp
  <2>5. top \in Word /\ 0 \in Word
    <3>1. l * d \in Int  BY <1>0, <2>1
    <3>. QED  BY <1>0, <3>1, WordMod DEF Word
  <2>. HIDE DEF top
  <2>6. top * B + 0 = top * B  BY <1>0, <2>5 DEF Word
  <2>7. top * B + 0 = (Val(u) * c) % Full  BY <1>0, <2>1, <2>4, <2>6 DEF UpByLimb, Full, top
  <2>. QED  BY <2>3, <2>5, <2>7, PairIs DEF c
<1>3. CASE s >= 2 * W
  <2>1. ~ s < W /\ ~ s < 2 * W  BY <1>0, <1>3
  <2>2. c = Full * 2^(s - 2 * W) /\ 2^(s - 2 * W) \in Nat \ {0}  BY <1>3, Shifts
  <2>3. shl(u, s) = zero  BY <2>1 DEF shl
  <2>. HIDE DEF c
  <2>4. (Val(u) * c) % Full = 0  BY <1>0, <2>2, ValIs, ShiftedOut
  <2>. QED  BY <2>3, <2>4, ZeroIs DEF c
<1>4. s < W \/ (s >= W /\ s < 2 * W) \/ s >= 2 * W  BY <1>0
<1>. QED  BY <1>1, <1>2, <1>3, <1>4

LEMMA ShrIs ==
    ASSUME NEW u \in uint128, NEW s \in Nat
    PROVE  shr(u, s) \in uint128 /\ Val(shr(u, s)) = Val(u) \div 2^s
<1>. DEFINE h == u.hi
            l == u.lo
            c == 2^s
<1>0. /\ W \in Nat \ {0} /\ B \in Nat \ {0} /\ Full \in Nat \ {0}
      /\ h \in 0..B - 1 /\ l \in 0..B - 1 /\ h \in Nat /\ Val(u) = h * B + l
      /\ c \in Nat \ {0} /\ h \in Int /\ l \in Int /\ h \in Word
  <2>1. c \in Nat \ {0}  BY Shifts
  <2>2. h \in Nat /\ l \in Nat  BY ValIs, Base DEF Word
  <2>. HIDE DEF c
  <2>. QED  BY <2>1, <2>2, Base, FullIs, ValIs
<1>1. CASE s < W
  <2>. DEFINE d == 2^(W - s)
  <2>1. B = c * d /\ d \in Nat \ {0} /\ B \in Nat  BY <1>0, <1>1, Shifts
  <2>2. wshl(wshl(h, 1), W - 1 - s) = (h * d) % B
    <3>. DEFINE e == 2^1
                f == 2^(W - 1 - s)
    <3>1. d = e * f /\ e \in Nat \ {0} /\ f \in Nat \ {0}  BY <1>0, <1>1, Shifts
    <3>. HIDE DEF d, e, f, h
    <3>2. h * e \in Int /\ (h * e) * f = h * d /\ f \in Int  BY <1>0, <3>1
    <3>3. (((h * e) % B) * f) % B = ((h * e) * f) % B  BY <1>0, <3>2, ModTimes
    <3>4. (((h * e) % B) * f) % B = (h * d) % B  BY <3>2, <3>3
    <3>. QED  BY <3>4 DEF wshl, e, f
  <2>3. shr(u, s) = [hi |-> h \div c, lo |-> (l \div c) + ((h * d) % B)]
    BY <1>1, <2>2 DEF shr, wshr
  <2>. HIDE DEF h, l, c, d
  <2>4. DownByPart(h, l, B, c, d)  BY <1>0, <2>1, LimbsDown
  <2>. DEFINE top == h \div c
              low == (l \div c) + ((h * d) % B)
  <2>5. top \in Word /\ low \in Word  BY <2>4 DEF Word, DownByPart
  <2>6. shr(u, s) = [hi |-> top, lo |-> low] /\ top * B + low = Val(u) \div c
    BY <1>0, <2>3, <2>4 DEF DownByPart
  <2>. HIDE DEF top, low
  <2>. QED  BY <2>5, <2>6, PairIs DEF c
<1>2. CASE s >= W /\ s < 2 * W
  <2>. DEFINE d == 2^(s - W)
  <2>1. c = B * d /\ d \in Nat \ {0}  BY <1>2, Shifts
  <2>2. ~ s < W  BY <1>0, <1>2
  <2>. DEFINE low == h \div d
  <2>3. shr(u, s) = [hi |-> 0, lo |-> low]  BY <1>2, <2>2 DEF shr, wshr
  <2>. HIDE DEF h, l, c, d
  <2>4. DownByLimb(h, l, B, d)  BY <1>0, <2>1, LimbDown
  <2>5. low \in Word /\ 0 \in Word
    <3>1. h \div d \in Word  BY <1>0, <2>1, WordDown, Zenon
    <3>. QED  BY <1>0, <3>1 DEF Word
  <2>. HIDE DEF low
  <2>6. 0 * B + low = low  BY <1>0, <2>5 DEF Word
  <2>. QED  BY <1>0, <2>1, <2>3, <2>4, <2>5, <2>6, PairIs DEF DownByLimb, c, low
<1>3. CASE s >= 2 * W
  <2>1. ~ s < W /\ ~ s < 2 * W  BY <1>0, <1>3
  <2>2. c = Full * 2^(s - 2 * W) /\ 2^(s - 2 * W) \in Nat \ {0}  BY <1>3, Shifts
  <2>3. shr(u, s) = zero  BY <2>1 DEF shr
  <2>. HIDE DEF c
  <2>4. Val(u) \div c = 0  BY <1>0, <2>2, ValIs, ShiftedOut
  <2>. QED  BY <2>3, <2>4, ZeroIs DEF c
<1>4. s < W \/ (s >= W /\ s < 2 * W) \/ s >= 2 * W  BY <1>0
<1>. QED  BY <1>1, <1>2, <1>3, <1>4

-------------------------------------------------------------------------------
(* Division of two words by one.                                               *)

LEMMA WordAdd ==
    ASSUME NEW a \in Int, NEW c \in Int
    PROVE  /\ wadd(a % B, c) = wadd(a, c) /\ wsub(a % B, c) = wsub(a, c)
           /\ wadd(c, a % B) = wadd(c, a) /\ wsub(c, a % B) = wsub(c, a)
           /\ wadd(a, c) \in Word /\ wsub(a, c) \in Word
<1>. DEFINE t == a % B
            e == a \div B
            m == -c
<1>1. t \in Int /\ e \in Int /\ a = e * B + t /\ B \in Nat \ {0} /\ m \in Int
  BY Base, DivMod
<1>2. (t + c) % B = (a + c) % B /\ (t + m) % B = (a + m) % B
  BY <1>1, ModPlus
<1>. HIDE DEF t, e
<1>3. t + m = t - c /\ a + m = a - c /\ t + c = c + t /\ a + c = c + a  BY <1>1
<1>4. (c - t) % B = (c - a) % B
  <2>. DEFINE p == c - a
              o == c - t
  <2>1. o = p + e * B /\ p \in Int  BY <1>1
  <2>. HIDE DEF p, o
  <2>2. (p + e * B) % B = p % B  BY <1>1, <2>1, ModShift
  <2>. QED  BY <2>1, <2>2 DEF p, o
<1>5. (a + c) % B \in Word /\ (a - c) % B \in Word  BY WordMod
<1>. QED  BY <1>2, <1>3, <1>4, <1>5 DEF wadd, wsub, t

LEMMA WordBack ==
    ASSUME NEW a \in Word, NEW c \in Int
    PROVE  wsub(wadd(a, c), c) = a /\ wadd(wsub(a, c), c) = a /\ a % B = a
<1>1. a \in Int /\ a + c \in Int /\ a - c \in Int /\ (a + c) - c = a /\ (a - c) + c = a
      /\ a \in 0..B - 1 /\ B \in Nat \ {0}
  BY Base DEF Word
<1>2. a % B = a  BY <1>1, ModSelf
<1>. DEFINE p == a + c
            m == a - c
<1>3. wsub(p % B, c) = wsub(p, c) /\ wadd(m % B, c) = wadd(m, c)  BY <1>1, WordAdd
<1>. QED  BY <1>1, <1>2, <1>3 DEF wadd, wsub

(* A divisor whose top bit is set.                                             *)
Divisor(d) == d \in Word /\ B <= 2 * d

LEMMA DivisorIs ==
    ASSUME NEW d, Divisor(d)
    PROVE  d \in Nat \ {0} /\ d < B /\ d \in Word /\ d \in Int /\ B <= 2 * d
BY Base DEF Divisor, Word

LEMMA ReciprocalIs ==
    ASSUME NEW d, Divisor(d)
    PROVE  /\ reciprocal_2by1(d) \in Word
           /\ \E k \in 0..d : k > 0 /\ (B + reciprocal_2by1(d)) * d = B * B - k
<1>. DEFINE a == B * B - 1
            e == a \div d
            t == a % d
            v == e - B
<1>1. d \in Nat \ {0} /\ d < B /\ B <= 2 * d /\ B \in Nat \ {0}  BY DivisorIs, Base
<1>2. a \in Int  BY <1>1
<1>3. a = e * d + t /\ e \in Int /\ t \in 0..d - 1  BY <1>1, <1>2, DivMod
<1>4. (B + v) * d = B * B - (t + 1) /\ v \in Int
  <2>. HIDE DEF e, t
  <2>1. B + v = e /\ v \in Int  BY <1>1, <1>3
  <2>2. B * B \in Int /\ e * d \in Int  BY <1>1, <1>3
  <2>. QED  BY <1>3, <2>1, <2>2
<1>. HIDE DEF e, t
<1>5. e >= B
  <2>1. ASSUME e <= B - 1 PROVE FALSE
    <3>1. e * d <= (B - 1) * d /\ (B - 1) * d <= (B - 1) * (B - 1)
      BY <1>1, <1>3, <2>1
    <3>2. (B - 1) * (B - 1) + (B - 1) = B * B - B  BY <1>1
    <3>3. e * d \in Int /\ (B - 1) * d \in Int /\ (B - 1) * (B - 1) \in Int /\ B * B \in Int
      BY <1>1, <1>3
    <3>. QED  BY <1>1, <1>3, <3>1, <3>2, <3>3
  <2>. QED  BY <1>1, <1>3, <2>1
<1>6. e < 2 * B
  <2>1. ASSUME e >= 2 * B PROVE FALSE
    <3>1. e * d >= (2 * B) * d /\ (2 * B) * d = B * (2 * d) /\ B * (2 * d) >= B * B
      BY <1>1, <1>3, <2>1
    <3>2. e * d \in Int /\ (2 * B) * d \in Int /\ B * B \in Int  BY <1>1, <1>3
    <3>. QED  BY <1>1, <1>3, <3>1, <3>2
  <2>. QED  BY <1>1, <1>3, <2>1
<1>7. v \in Word  BY <1>1, <1>3, <1>5, <1>6 DEF Word
<1>8. t + 1 \in 0..d /\ t + 1 > 0  BY <1>1, <1>3
<1>9. reciprocal_2by1(d) = v  BY DEF reciprocal_2by1, e
<1>. QED  BY <1>4, <1>7, <1>8, <1>9

Divides(res, a, d) ==
    /\ res.quot \in Word /\ res.rem \in 0..d - 1
    /\ a = res.quot * d + res.rem

(* Moeller and Granlund: at most two corrections, and each is seen.            *)
LEMMA Divide2by1 ==
    ASSUME NEW u \in uint128, NEW d, Divisor(d), u.hi < d
    PROVE  Divides(udivrem_2by1(u, d, reciprocal_2by1(d)), Val(u), d)
<1>. DEFINE v == reciprocal_2by1(d)
            e == B + v
            u1 == u.hi
            u0 == u.lo
            p == plus(umul(v, u1), u)
            h == p.hi
            l == p.lo
            r == Val(u) - (h + 1) * d
<1>0. /\ B \in Nat \ {0} /\ d \in Nat \ {0} /\ d < B /\ B <= 2 * d /\ v \in Word
      /\ u1 \in 0..d - 1 /\ u0 \in 0..B - 1 /\ u1 \in Word /\ u0 \in Word
      /\ Val(u) = u1 * B + u0 /\ Val(u) \in Int
  <2>1. u1 \in 0..d - 1  BY DivisorIs, ValIs
  <2>. QED  BY <2>1, Base, DivisorIs, ReciprocalIs, ValIs
<1>1. PICK k \in 0..d : k > 0 /\ e * d = B * B - k  BY ReciprocalIs
<1>2. e \in Nat /\ v \in Nat  BY <1>0 DEF Word
<1>. HIDE DEF v
<1>3. p \in uint128 /\ h * B + l = e * u1 + u0
  <2>1. umul(v, u1) \in uint128 /\ Val(umul(v, u1)) = v * u1  BY <1>0, UmulIs
  <2>. DEFINE t == v * u1 + Val(u)
  <2>2. p \in uint128 /\ Val(p) = t % Full  BY <2>1, PlusIs
  <2>3. t = e * u1 + u0
    <3>1. (B + v) * u1 = u1 * B + v * u1 /\ u1 * B \in Int /\ v * u1 \in Int
      BY <1>0, <1>2
    <3>. QED  BY <1>0, <1>2, <3>1
  <2>4. t \in 0..Full - 1
    <3>1. e * u1 \in Nat  BY <1>0, <1>2
    <3>2. e * u1 <= e * (d - 1) /\ e * (d - 1) = e * d - e  BY <1>0, <1>2
    <3>3. e * d \in Int /\ B * B \in Int /\ e * (d - 1) \in Int  BY <1>0, <1>2
    <3>4. e >= B  BY <1>0, <1>2
    <3>. HIDE DEF t, e
    <3>5. t < B * B
      <4>. DEFINE f == e * u1
                  g == e * d
                  bb == B * B
                  o == e * (d - 1)
      <4>1. t = f + u0 /\ f <= o /\ o = g - e /\ g = bb - k /\ f \in Nat /\ g \in Int
            /\ bb \in Int /\ o \in Int
        BY <1>1, <2>3, <3>1, <3>2, <3>3
      <4>. HIDE DEF f, g, bb, o
      <4>2. t < bb  BY <1>0, <1>1, <1>2, <3>4, <4>1
      <4>. QED  BY <4>2 DEF bb
    <3>. QED  BY <1>0, <2>3, <3>1, <3>3, <3>5 DEF Full
  <2>. HIDE DEF t, p
  <2>5. t % Full = t  BY <2>4, FullIs, ModSelf
  <2>6. Val(p) = h * B + l  BY <2>2, ValIs
  <2>. QED  BY <2>2, <2>3, <2>5, <2>6
<1>4. h \in Word /\ l \in Word /\ h \in Int /\ l \in 0..B - 1  BY <1>3, ValIs
<1>. HIDE DEF p, e, u1, u0
<1>. DEFINE h1 == h + 1
<1>5. Leaves(r, B, d, l)
  <2>. HIDE DEF h, l
  <2>1. Leaves((u1 * B + u0) - (h + 1) * d, B, d, l)
    BY <1>0, <1>1, <1>2, <1>3, <1>4, TwoByOne
  <2>. QED  BY <1>0, <2>1
<1>. HIDE DEF h, l
<1>6. r \in Int /\ h1 \in Int  BY <1>0, <1>4
<1>7. wsub(u0, wmul(wadd(h, 1), d)) = r % B
  <2>. DEFINE m == h1 * d
  <2>1. m \in Int /\ u0 \in Int  BY <1>0, <1>6
  <2>2. wmul(wadd(h, 1), d) = m % B
    <3>. HIDE DEF h1
    <3>1. ((h1 % B) * d) % B = (h1 * d) % B
      <4>1. d \in Int /\ h1 \in Int /\ B \in Nat \ {0}  BY <1>0, <1>6
      <4>. QED  BY <4>1, ModTimes
    <3>. QED  BY <3>1 DEF wmul, wadd, h1
  <2>3. wsub(u0, m % B) = (u0 - m) % B
    <3>. HIDE DEF m
    <3>. QED  BY <2>1, WordAdd DEF wsub
  <2>4. (u0 - m) % B = r % B
    <3>. DEFINE a == u0 - m
    <3>1. a \in Int /\ r = a + u1 * B /\ u1 \in Int
      <4>. HIDE DEF m
      <4>1. u1 * B \in Int /\ u1 \in Int  BY <1>0
      <4>. QED  BY <1>0, <2>1, <4>1 DEF m
    <3>. HIDE DEF a, r
    <3>2. (a + u1 * B) % B = a % B  BY <1>0, <3>1, ModShift
    <3>. QED  BY <3>1, <3>2 DEF a
  <2>. QED  BY <2>2, <2>3, <2>4
<1>8. r >= 0 => r % B = r
  <2>1. ASSUME r >= 0 PROVE r \in 0..B - 1  BY <1>0, <1>4, <1>5, <1>6, <2>1 DEF Leaves
  <2>. HIDE DEF r
  <2>. QED  BY <1>0, <2>1, ModSelf
<1>9. r < 0 => r % B = r + B
  <2>. DEFINE a == r + B
  <2>1. ASSUME r < 0 PROVE a \in 0..B - 1
    BY <1>0, <1>4, <1>5, <1>6, <2>1 DEF Leaves
  <2>2. r = (-1) * B + a /\ -1 \in Int  BY <1>0, <1>6
  <2>. HIDE DEF a, r
  <2>3. ASSUME r < 0 PROVE r % B = a
    <3>1. a \in 0..B - 1  BY <2>1, <2>3
    <3>2. ((-1) * B + a) % B = a  BY <1>0, <2>2, <3>1, ModIs
    <3>. QED  BY <2>2, <3>2
  <2>. QED  BY <2>3 DEF a
<1>. DEFINE r1 == r % B
            q1 == wadd(h, 1)
            q2 == IF r1 > l THEN wsub(q1, 1) ELSE q1
            r2 == IF r1 > l THEN wadd(r1, d) ELSE r1
            res == IF r2 >= d THEN [quot |-> wadd(q2, 1), rem |-> wsub(r2, d)]
                   ELSE [quot |-> q2, rem |-> r2]
<1>10. udivrem_2by1(u, d, reciprocal_2by1(d)) = res
  BY <1>7 DEF udivrem_2by1, h, l, p, v, u1, u0
(* What quotient there is, fits.                                               *)
<1>11. ASSUME NEW q \in Nat, NEW t \in 0..d - 1, Val(u) = q * d + t
       PROVE  Divides([quot |-> q, rem |-> t], Val(u), d)
  <2>1. q < B
    <3>1. ASSUME q >= B PROVE FALSE
      <4>1. q * d >= B * d /\ B * d \in Int /\ q * d \in Int  BY <1>0, <3>1
      <4>2. u1 * B <= (d - 1) * B /\ (d - 1) * B = B * d - B /\ u1 * B \in Int  BY <1>0
      <4>. QED  BY <1>0, <1>11, <4>1, <4>2
    <3>. QED  BY <1>0, <3>1
  <2>. QED  BY <1>0, <1>11, <2>1 DEF Divides, Word
<1>12. wsub(wadd(h, 1), 1) = h  BY <1>4, WordBack
<1>13. Val(u) = h * d + (r + d) /\ Val(u) = (h + 1) * d + r /\ Val(u) = (h + 2) * d + (r - d)
  <2>1. (h + 1) * d = h * d + d /\ (h + 2) * d = h * d + 2 * d /\ h * d \in Int
    BY <1>0, <1>4
  <2>. QED  BY <1>0, <2>1
<1>14. h \in Nat  BY <1>4 DEF Word
<1>. HIDE DEF r
<1>15. CASE r < 0
  <2>1. r1 > l /\ r1 = r + B /\ r + d \in 0..d - 1
    BY <1>0, <1>4, <1>5, <1>6, <1>9, <1>15 DEF Leaves
  <2>2. r2 = r + d
    <3>. DEFINE a == r + d
    <3>0. d \in Int  BY <1>0
    <3>1. wadd(r % B, d) = wadd(r, d)  BY <1>6, <3>0, WordAdd
    <3>2. a \in 0..B - 1  BY <1>0, <2>1
    <3>. HIDE DEF a
    <3>3. a % B = a  BY <1>0, <3>2, ModSelf
    <3>. QED  BY <2>1, <3>1, <3>3 DEF a, wadd
  <2>3. res = [quot |-> h, rem |-> r + d]
    <3>1. ~ r2 >= d  BY <1>0, <1>6, <2>1, <2>2
    <3>. QED  BY <1>12, <2>1, <2>2, <3>1
  <2>. QED  BY <1>10, <1>11, <1>13, <1>14, <2>1, <2>3
<1>16. CASE r >= 0 /\ r > l
  <2>1. r1 = r /\ r < B - d /\ r \in 0..d - 1
    BY <1>0, <1>4, <1>5, <1>6, <1>8, <1>16 DEF Leaves
  <2>2. r2 = r + d
    <3>. DEFINE a == r + d
    <3>1. a \in 0..B - 1  BY <1>0, <2>1
    <3>. HIDE DEF a
    <3>2. a % B = a  BY <1>0, <3>1, ModSelf
    <3>. QED  BY <1>16, <2>1, <3>2 DEF a, wadd
  <2>3. h + 1 \in Nat  BY <1>14
  <2>4. Divides([quot |-> h + 1, rem |-> r], Val(u), d)  BY <1>11, <1>13, <2>1, <2>3
  <2>5. res = [quot |-> h + 1, rem |-> r]
    <3>1. r2 >= d  BY <1>0, <1>6, <2>1, <2>2
    <3>2. q2 = h  BY <1>12, <1>16, <2>1
    <3>3. (h + 1) % B = h + 1
      <4>1. h + 1 \in Word  BY <2>4 DEF Divides
      <4>. QED  BY <4>1, WordBack
    <3>4. wsub(r + d, d) = r
      <4>1. (r + d) - d = r  BY <1>0, <1>6
      <4>. QED  BY <2>1, <4>1 DEF wsub
    <3>. HIDE DEF r2, q2
    <3>. QED  BY <2>2, <3>1, <3>2, <3>3, <3>4 DEF wadd
  <2>. QED  BY <1>10, <2>4, <2>5
<1>17. CASE r >= 0 /\ r <= l /\ r < d
  <2>1. r1 = r /\ r \in 0..d - 1 /\ ~ r1 > l  BY <1>0, <1>4, <1>6, <1>8, <1>17
  <2>2. Divides([quot |-> h + 1, rem |-> r], Val(u), d)
    <3>1. h + 1 \in Nat  BY <1>14
    <3>. QED  BY <1>11, <1>13, <2>1, <3>1
  <2>3. q1 = h + 1
    <3>1. h + 1 \in Word  BY <2>2 DEF Divides
    <3>. QED  BY <3>1, WordBack DEF wadd
  <2>4. res = [quot |-> h + 1, rem |-> r]
    <3>1. ~ r >= d  BY <1>0, <1>6, <1>17
    <3>. HIDE DEF q1, r1
    <3>. QED  BY <2>1, <2>3, <3>1
  <2>. QED  BY <1>10, <2>2, <2>4
<1>18. CASE r >= 0 /\ r <= l /\ r >= d
  <2>1. r1 = r /\ r - d \in 0..d - 1 /\ ~ r1 > l
    BY <1>0, <1>4, <1>6, <1>8, <1>18
  <2>2. Divides([quot |-> h + 2, rem |-> r - d], Val(u), d)
    <3>1. h + 2 \in Nat  BY <1>14
    <3>. DEFINE t == r - d
                q == h + 2
    <3>2. Val(u) = q * d + t /\ t \in 0..d - 1 /\ q \in Nat  BY <1>13, <2>1, <3>1
    <3>. HIDE DEF t, q
    <3>3. Divides([quot |-> q, rem |-> t], Val(u), d)  BY <1>11, <3>2
    <3>. QED  BY <3>3 DEF t, q
  <2>3. wadd(wadd(h, 1), 1) = h + 2
    <3>1. wadd(h1 % B, 1) = wadd(h1, 1)  BY <1>6, WordAdd
    <3>2. h1 + 1 = h + 2  BY <1>4
    <3>3. h + 2 \in Word  BY <2>2 DEF Divides
    <3>4. (h + 2) % B = h + 2  BY <3>3, WordBack
    <3>. QED  BY <3>1, <3>2, <3>4 DEF wadd
  <2>4. wsub(r, d) = r - d
    <3>. DEFINE t == r - d
    <3>1. t \in 0..B - 1  BY <1>0, <2>1
    <3>. HIDE DEF t
    <3>2. t % B = t  BY <1>0, <3>1, ModSelf
    <3>. QED  BY <3>2 DEF t, wsub
  <2>5. res = [quot |-> h + 2, rem |-> r - d]
    <3>. HIDE DEF r1
    <3>. QED  BY <1>18, <2>1, <2>3, <2>4
  <2>. QED  BY <1>10, <2>2, <2>5
<1>19. l \in Int  BY <1>0, <1>4
<1>. QED  BY <1>0, <1>6, <1>15, <1>16, <1>17, <1>18, <1>19

-------------------------------------------------------------------------------
(* Division of three words by two.                                             *)

LEMMA WordModIs ==
    ASSUME NEW a \in Int, NEW c \in Int, NEW w \in Word, a = w + c * B
    PROVE  a % B = w
<1>1. B \in Nat \ {0} /\ w \in 0..B - 1 /\ a = c * B + w
  <2>1. w \in Int /\ c * B \in Int  BY Base DEF Word
  <2>. QED  BY <2>1, Base DEF Word
<1>. QED  BY <1>1, DivModIs

Divisor2(d) == d \in uint128 /\ Divisor(d.hi)

LEMMA Divisor2Is ==
    ASSUME NEW d, Divisor2(d)
    PROVE  /\ d \in uint128 /\ Val(d) \in Nat \ {0} /\ Val(d) < Full
           /\ d.hi \in Nat \ {0} /\ d.hi < B /\ B <= 2 * d.hi /\ d.lo \in 0..B - 1
           /\ d.hi \in Word /\ d.lo \in Word
           /\ Val(d) = d.hi * B + d.lo /\ Full <= 2 * Val(d)
<1>. DEFINE h == d.hi
            l == d.lo
<1>1. /\ d \in uint128 /\ h \in Nat \ {0} /\ h < B /\ B <= 2 * h /\ l \in 0..B - 1
      /\ h \in Word /\ l \in Word /\ Val(d) = h * B + l /\ Val(d) \in 0..Full - 1
      /\ B \in Nat \ {0} /\ Full \in Nat \ {0}
  BY ValIs, DivisorIs, Base, FullIs DEF Divisor2
<1>. HIDE DEF h, l
<1>2. h * B >= B /\ h * B \in Int  BY <1>1
<1>3. B * B <= (2 * h) * B /\ (2 * h) * B = 2 * (h * B) /\ B * B \in Int  BY <1>1
<1>4. Val(d) \in Nat \ {0} /\ Full <= 2 * Val(d) /\ Val(d) < Full
  BY <1>1, <1>2, <1>3 DEF Full
<1>. QED  BY <1>1, <1>4 DEF h, l

(* What is known of the first reciprocal, once it counts d.lo in.              *)
First(v, p, d) ==
    /\ v \in Word /\ p \in Word /\ p >= B - d.hi
    /\ (B + v) * d.hi + d.lo = B * B - B + p

LEMMA FirstIs ==
    ASSUME NEW d, Divisor2(d), NEW v0, v0 = reciprocal_2by1(d.hi),
           NEW p0, p0 = wadd(wmul(d.hi, v0), d.lo)
    PROVE  LET first == IF p0 >= d.lo THEN [v |-> v0, p |-> p0]
                        ELSE IF p0 >= d.hi
                        THEN [v |-> wsub(v0, 2), p |-> wsub(wsub(p0, d.hi), d.hi)]
                        ELSE [v |-> wsub(v0, 1), p |-> wsub(p0, d.hi)]
           IN First(first.v, first.p, d)
<1>. DEFINE d1 == d.hi
            d0 == d.lo
<1>0. /\ B \in Nat \ {0} /\ d1 \in Nat \ {0} /\ d1 < B /\ B <= 2 * d1 /\ d0 \in 0..B - 1
      /\ d1 \in Word /\ d0 \in Word /\ Divisor(d1)
  BY Base, Divisor2Is DEF Divisor2
<1>1. v0 \in Word /\ \E k \in 0..d1 : k > 0 /\ (B + v0) * d1 = B * B - k
  BY <1>0, ReciprocalIs
<1>2. PICK k \in 0..d1 : k > 0 /\ (B + v0) * d1 = B * B - k  BY <1>1
<1>3. v0 \in Int /\ k \in Int /\ d1 \in Int /\ d0 \in Int  BY <1>0, <1>1, Base DEF Word
<1>. HIDE DEF d1, d0
<1>4. p0 = (d0 - k) % B
  <2>. DEFINE a == d1 * v0
              c == d0 - k
              m == B - d1
  <2>1. a \in Int /\ c \in Int /\ m \in Int  BY <1>0, <1>3
  <2>2. a + d0 = c + m * B
    <3>1. (B + v0) * d1 = B * d1 + d1 * v0 /\ (B - d1) * B = B * B - B * d1
          /\ B * d1 \in Int /\ B * B \in Int
      BY <1>0, <1>3
    <3>. QED  BY <1>2, <1>3, <2>1, <3>1
  <2>. HIDE DEF a, c, m
  <2>3. wadd(a % B, d0) = (a + d0) % B  BY <1>3, <2>1, WordAdd DEF wadd
  <2>4. (c + m * B) % B = c % B  BY <1>0, <2>1, ModShift
  <2>. QED  BY <2>2, <2>3, <2>4 DEF wmul, a, c, d1, d0
(* The reciprocal less n.                                                      *)
<1>5. ASSUME NEW n \in 0..2, NEW p \in Word, p = B - k + d0 - n * d1, p >= B - d1
      PROVE  /\ wsub(v0, n) = v0 - n
             /\ First(v0 - n, p, d)
  <2>. DEFINE w == v0 - n
  <2>1. w \in Int /\ p \in Int  BY <1>0, <1>3, <1>5 DEF Word
  <2>2. (B + w) * d1 + d0 = B * B - B + p
    <3>1. (B + w) * d1 = (B + v0) * d1 - n * d1  BY <1>0, <1>3
    <3>2. (B + v0) * d1 \in Int /\ n * d1 \in Int /\ B * B \in Int  BY <1>0, <1>3
    <3>. HIDE DEF w
    <3>. QED  BY <1>0, <1>2, <1>3, <1>5, <2>1, <3>1, <3>2
  <2>3. w >= 0
    <3>. HIDE DEF w
    <3>1. ASSUME w <= -1 PROVE FALSE
      <4>1. (B + w) * d1 <= (B - 1) * d1 /\ (B - 1) * d1 = B * d1 - d1
        BY <1>0, <2>1, <3>1
      <4>2. B * d1 <= B * (B - 1) /\ B * (B - 1) = B * B - B  BY <1>0
      <4>3. (B + w) * d1 \in Int /\ (B - 1) * d1 \in Int /\ B * d1 \in Int /\ B * B \in Int
            /\ B * (B - 1) \in Int
        BY <1>0, <2>1
      <4>. QED  BY <1>0, <1>3, <1>5, <2>1, <2>2, <4>1, <4>2, <4>3
    <3>. QED  BY <2>1, <3>1
  <2>4. w \in Word  BY <1>0, <1>1, <1>3, <2>1, <2>3 DEF Word
  <2>5. w % B = w  BY <2>4, WordBack
  <2>. QED  BY <1>5, <2>2, <2>4, <2>5 DEF First, wsub, d1, d0
<1>6. CASE d0 < k
  <2>. DEFINE p == d0 - k + B
  <2>1. p \in Word /\ p >= B - d1 /\ p = B - k + d0 - 0 * d1 /\ p >= d0
    BY <1>0, <1>2, <1>3, <1>6 DEF Word
  <2>2. p0 = p
    <3>1. d0 - k = p + (-1) * B /\ d0 - k \in Int /\ -1 \in Int  BY <1>0, <1>3
    <3>. HIDE DEF p
    <3>. QED  BY <1>4, <2>1, <3>1, WordModIs
  <2>. HIDE DEF p
  <2>3. First(v0 - 0, p, d)  BY <1>5, <2>1
  <2>4. v0 - 0 = v0  BY <1>3
  <2>. QED  BY <2>1, <2>2, <2>3, <2>4 DEF d0
<1>7. CASE d0 >= k
  <2>1. p0 = d0 - k /\ p0 \in Word /\ p0 \in Int
    <3>. DEFINE p == d0 - k
    <3>1. p \in Word /\ p \in Int  BY <1>0, <1>2, <1>3, <1>7 DEF Word
    <3>. HIDE DEF p
    <3>2. p % B = p  BY <3>1, WordBack
    <3>. QED  BY <1>4, <3>1, <3>2 DEF p
  <2>2. ~ p0 >= d0  BY <1>2, <1>3, <2>1
  <2>3. CASE p0 >= d1
    <3>. DEFINE p == B + p0 - 2 * d1
                a == p0 - d1
                c == a - d1
    <3>1. p \in Word /\ p >= B - d1 /\ p = B - k + d0 - 2 * d1 /\ p \in Int
      BY <1>0, <1>2, <1>3, <2>1, <2>3 DEF Word
    <3>2. wsub(wsub(p0, d1), d1) = p
      <4>1. a \in Int /\ c \in Int /\ d1 \in Int /\ c = p + (-1) * B /\ -1 \in Int
        BY <1>0, <1>3, <2>1
      <4>. HIDE DEF a, c, p
      <4>2. wsub(a % B, d1) = (a - d1) % B  BY <4>1, WordAdd DEF wsub
      <4>3. c % B = p  BY <3>1, <4>1, WordModIs
      <4>. QED  BY <4>2, <4>3 DEF wsub, a, c
    <3>. HIDE DEF p
    <3>3. wsub(v0, 2) = v0 - 2 /\ First(v0 - 2, p, d)  BY <1>5, <3>1
    <3>. QED  BY <2>2, <2>3, <3>2, <3>3 DEF d0, d1
  <2>4. CASE p0 < d1
    <3>. DEFINE p == B + p0 - d1
                c == p0 - d1
    <3>1. p \in Word /\ p >= B - d1 /\ p = B - k + d0 - 1 * d1 /\ p \in Int
      BY <1>0, <1>2, <1>3, <2>1, <2>4 DEF Word
    <3>2. wsub(p0, d1) = p
      <4>1. c \in Int /\ c = p + (-1) * B /\ -1 \in Int  BY <1>0, <1>3, <2>1
      <4>. HIDE DEF c, p
      <4>2. c % B = p  BY <3>1, <4>1, WordModIs
      <4>. QED  BY <4>2 DEF wsub, c
    <3>. HIDE DEF p
    <3>3. wsub(v0, 1) = v0 - 1 /\ First(v0 - 1, p, d)  BY <1>5, <3>1
    <3>4. ~ p0 >= d1  BY <1>3, <2>1, <2>4
    <3>. QED  BY <2>2, <3>2, <3>3, <3>4 DEF d0, d1
  <2>. QED  BY <1>3, <2>1, <2>3, <2>4
<1>. QED  BY <1>3, <1>6, <1>7

LEMMA Reciprocal2Is ==
    ASSUME NEW d, Divisor2(d)
    PROVE  /\ reciprocal_3by2(d) \in Word
           /\ \E k \in 0..Val(d) :
                k > 0 /\ (B + reciprocal_3by2(d)) * Val(d) = B * Full - k
<1>. DEFINE v0 == reciprocal_2by1(d.hi)
            p0 == wadd(wmul(d.hi, v0), d.lo)
            first == IF p0 >= d.lo THEN [v |-> v0, p |-> p0]
                     ELSE IF p0 >= d.hi
                     THEN [v |-> wsub(v0, 2), p |-> wsub(wsub(p0, d.hi), d.hi)]
                     ELSE [v |-> wsub(v0, 1), p |-> wsub(p0, d.hi)]
            d1 == d.hi
            d0 == d.lo
            D == Val(d)
            w == first.v
            P == first.p
            t == umul(w, d0)
            p == wadd(P, t.hi)
            T == w * d0
            S == P * B + T
            v == IF p >= t.hi THEN w
                 ELSE wsub(w, 1 + Bit(atmost(d, [hi |-> p, lo |-> t.lo])))
<1>1. reciprocal_3by2(d) = v  BY DEF reciprocal_3by2
<1>2. First(w, P, d)  BY FirstIs
<1>. HIDE DEF first
<1>3. /\ B \in Nat \ {0} /\ d1 \in Nat \ {0} /\ d1 < B /\ B <= 2 * d1 /\ d0 \in 0..B - 1
      /\ d1 \in Word /\ d0 \in Word /\ d \in uint128
      /\ D \in Nat \ {0} /\ D < Full /\ D = d1 * B + d0 /\ Full <= 2 * D
      /\ Full = B * B /\ Full \in Nat \ {0}
  BY Base, FullIs, Divisor2Is DEF Full
<1>4. /\ w \in Word /\ P \in Word /\ P >= B - d1 /\ (B + w) * d1 + d0 = B * B - B + P
      /\ w \in 0..B - 1 /\ P \in 0..B - 1
  BY <1>2 DEF First, Word
<1>5. t \in uint128 /\ t.hi * B + t.lo = T /\ t.hi \in 0..B - 1 /\ t.lo \in 0..B - 1
      /\ t.hi \in Word /\ t.lo \in Word
  BY <1>3, <1>4, UmulIs, ValIs
<1>. HIDE DEF w, P, t, d1, d0
<1>6. T \in Int /\ T >= 0 /\ T <= B * B - 2 * B + 1 /\ S \in Int
  <2>1. w * d0 \in Nat /\ w * d0 <= (B - 1) * d0 /\ (B - 1) * d0 <= (B - 1) * (B - 1)
    BY <1>3, <1>4
  <2>2. (B - 1) * (B - 1) = B * B - 2 * B + 1  BY <1>3
  <2>3. (B - 1) * d0 \in Int /\ B * B \in Int  BY <1>3
  <2>4. P * B \in Int  BY <1>3, <1>4
  <2>. QED  BY <1>3, <2>1, <2>2, <2>3, <2>4
(* What is left to the cube of the base.                                       *)
<1>7. ASSUME NEW n \in Int PROVE (B + (w - n)) * D = B * Full - (Full - S + n * D)
  <2>1. (B + (w - n)) * (d1 * B + d0)
          = ((B + w) * d1 + d0) * B - B * d0 + (B + w) * d0 - n * (d1 * B + d0)
    BY <1>3, <1>4
  <2>2. (B * B - B + P) * B = B * (B * B) - B * B + P * B  BY <1>3, <1>4
  <2>3. (B + w) * d0 = B * d0 + w * d0  BY <1>3, <1>4
  <2>. DEFINE e1 == (B + (w - n)) * (d1 * B + d0)
              e2 == ((B + w) * d1 + d0) * B
              e3 == B * d0
              e4 == (B + w) * d0
              e5 == n * (d1 * B + d0)
              e6 == B * (B * B)
              e7 == B * B
              e8 == P * B
  <2>4. /\ e1 \in Int /\ e2 \in Int /\ e3 \in Int /\ e4 \in Int /\ e5 \in Int /\ e6 \in Int
        /\ e7 \in Int /\ e8 \in Int
    BY <1>3, <1>4
  <2>5. e1 = e2 - e3 + e4 - e5 /\ e2 = e6 - e7 + e8 /\ e4 = e3 + T /\ S = e8 + T
    BY <1>4, <2>1, <2>2, <2>3
  <2>. HIDE DEF e1, e2, e3, e4, e5, e6, e7, e8, T, S
  <2>6. e1 = e6 - (e7 - S + e5)  BY <1>6, <2>4, <2>5
  <2>. QED  BY <1>3, <2>6 DEF e1, e5, e6, e7
<1>8. ASSUME NEW n \in Nat, n <= 2, NEW k, k = Full - S + n * D, k \in 0..D, k > 0
      PROVE  wsub(w, n) = w - n /\ w - n \in Word /\ (B + (w - n)) * D = B * Full - k
  <2>. DEFINE o == w - n
  <2>1. o \in Int  BY <1>3, <1>4
  <2>2. (B + o) * D = B * Full - k  BY <1>7, <1>8
  <2>3. o >= 0
    <3>. HIDE DEF o, D
    <3>1. ASSUME o <= -1 PROVE FALSE
      <4>1. (B + o) * D <= (B - 1) * D /\ (B - 1) * D = B * D - D  BY <1>3, <2>1, <3>1
      <4>2. B * D <= B * (Full - 1) /\ B * (Full - 1) = B * Full - B  BY <1>3
      <4>3. (B + o) * D \in Int /\ (B - 1) * D \in Int /\ B * D \in Int /\ B * Full \in Int
            /\ B * (Full - 1) \in Int
        BY <1>3, <2>1
      <4>4. k <= D /\ k \in Int  BY <1>3, <1>8
      <4>. QED  BY <1>3, <2>2, <4>1, <4>2, <4>3, <4>4
    <3>. QED  BY <2>1, <3>1
  <2>4. o \in Word  BY <1>3, <1>4, <2>1, <2>3 DEF Word
  <2>5. o % B = o  BY <2>4, WordBack
  <2>. QED  BY <2>2, <2>4, <2>5 DEF wsub
<1>9. S >= Full - D /\ S < Full + Full
  <2>1. (B - d1) * B <= P * B /\ (B - d1) * B = B * B - d1 * B  BY <1>3, <1>4
  <2>2. P * B <= (B - 1) * B /\ (B - 1) * B = B * B - B  BY <1>3, <1>4
  <2>3. P * B \in Int /\ B * B \in Int /\ d1 * B \in Int /\ (B - d1) * B \in Int
        /\ (B - 1) * B \in Int
    BY <1>3, <1>4
  <2>. HIDE DEF T
  <2>. QED  BY <1>3, <1>6, <2>1, <2>2, <2>3
<1>10. S = (P + t.hi) * B + t.lo
  <2>1. (P + t.hi) * B = P * B + t.hi * B /\ P * B \in Int /\ t.hi * B \in Int
    BY <1>3, <1>4, <1>5
  <2>. QED  BY <1>3, <1>5, <1>6, <2>1
<1>11. CASE P + t.hi < B
  <2>1. p = P + t.hi
    <3>1. P + t.hi \in Word  BY <1>3, <1>4, <1>5, <1>11 DEF Word
    <3>. QED  BY <3>1, WordBack DEF wadd
  <2>2. p >= t.hi  BY <1>3, <1>4, <1>5, <2>1
  <2>3. S < Full
    <3>. DEFINE a == P + t.hi
    <3>1. a \in 0..B - 1  BY <1>3, <1>4, <1>5, <1>11
    <3>. HIDE DEF a
    <3>2. a * B + t.lo \in 0..B * B - 1  BY <1>3, <1>5, <3>1, LimbsIn
    <3>. QED  BY <1>3, <1>10, <3>2 DEF a
  <2>. DEFINE k == Full - S
  <2>. HIDE DEF S, D
  <2>3a. 0 * D = 0  BY <1>3
  <2>4. k = Full - S + 0 * D /\ k \in 0..D /\ k > 0  BY <1>3, <1>6, <1>9, <2>3, <2>3a
  <2>. HIDE DEF k
  <2>5. w - 0 \in Word /\ (B + (w - 0)) * D = B * Full - k
    <3>1. 0 \in Nat /\ 0 <= 2  OBVIOUS
    <3>. QED  BY <1>8, <2>4, <3>1
  <2>6. w - 0 = w /\ v = w  BY <1>3, <1>4, <2>2
  <2>. QED  BY <1>1, <2>4, <2>5, <2>6 DEF D
<1>12. CASE P + t.hi >= B
  <2>. DEFINE o == P + t.hi - B
              u == [hi |-> o, lo |-> t.lo]
              a == P + t.hi
  <2>1. o \in Word /\ o \in Int /\ a \in Int /\ a = o + 1 * B /\ 1 \in Int
    BY <1>3, <1>4, <1>5, <1>12 DEF Word
  <2>2. p = o
    <3>. HIDE DEF o, a
    <3>1. a % B = o  BY <2>1, WordModIs
    <3>. QED  BY <3>1 DEF wadd, a
  <2>3. ~ p >= t.hi  BY <1>3, <1>4, <1>5, <2>2
  <2>4. u \in uint128 /\ Val(u) = S - Full
    <3>1. u \in uint128 /\ Val(u) = o * B + t.lo  BY <1>5, <2>1, PairIs
    <3>2. (P + t.hi) * B = o * B + B * B /\ o * B \in Int
      <4>. HIDE DEF o
      <4>1. (o + 1 * B) * B = o * B + B * B /\ o * B \in Int  BY <1>3, <2>1
      <4>. QED  BY <2>1, <4>1 DEF a
    <3>. QED  BY <1>3, <1>5, <1>10, <3>1, <3>2
  <2>5. atmost(d, u) \in BOOLEAN /\ (atmost(d, u) <=> D <= S - Full)
    <3>1. atmost(d, u) <=> Val(d) <= Val(u)
      <4>. HIDE DEF u
      <4>. QED  BY <1>3, <2>4, LessIs
    <3>2. atmost(d, u) \in BOOLEAN  BY DEF atmost
    <3>. QED  BY <2>4, <3>1, <3>2
  <2>6. v = wsub(w, 1 + Bit(atmost(d, u)))  BY <2>2, <2>3
  <2>7. S >= Full  BY <2>4, ValIs, <1>3, <1>6
  <2>8. CASE D <= S - Full
    <3>. DEFINE k == Full - S + 2 * D
    <3>1. k \in 0..D /\ k > 0
      <4>. HIDE DEF S, D
      <4>. QED  BY <1>3, <1>6, <1>9, <2>8
    <3>. HIDE DEF S, D
    <3>2. wsub(w, 2) = w - 2 /\ w - 2 \in Word /\ (B + (w - 2)) * D = B * Full - k
      <4>1. 2 \in Nat /\ 2 <= 2  OBVIOUS
      <4>. QED  BY <1>8, <3>1, <4>1
    <3>3. 1 + Bit(atmost(d, u)) = 2  BY <2>5, <2>8 DEF Bit
    <3>. HIDE DEF k, u
    <3>. QED  BY <1>1, <2>6, <3>1, <3>2, <3>3 DEF D
  <2>9. CASE D > S - Full
    <3>. DEFINE k == Full - S + 1 * D
    <3>1. k \in 0..D /\ k > 0
      <4>. HIDE DEF S, D
      <4>. QED  BY <1>3, <1>6, <2>7, <2>9
    <3>. HIDE DEF S, D
    <3>2. wsub(w, 1) = w - 1 /\ w - 1 \in Word /\ (B + (w - 1)) * D = B * Full - k
      <4>1. 1 \in Nat /\ 1 <= 2  OBVIOUS
      <4>. QED  BY <1>8, <3>1, <4>1
    <3>3. 1 + Bit(atmost(d, u)) = 1
      <4>1. ~ D <= S - Full  BY <1>3, <1>6, <2>9
      <4>. QED  BY <2>5, <4>1 DEF Bit
    <3>. HIDE DEF k, u
    <3>. QED  BY <1>1, <2>6, <3>1, <3>2, <3>3 DEF D
  <2>. HIDE DEF D, S
  <2>. QED  BY <1>3, <1>6, <2>8, <2>9
<1>. QED  BY <1>3, <1>4, <1>5, <1>11, <1>12

(* Sums and differences of what already wrapped.                               *)
LEMMA PlusWrapped ==
    ASSUME NEW u \in uint128, NEW v \in uint128, NEW a \in Int, Val(u) = a % Full
    PROVE  /\ plus(u, v) \in uint128 /\ Val(plus(u, v)) = (a + Val(v)) % Full
           /\ minus(u, v) \in uint128 /\ Val(minus(u, v)) = (a - Val(v)) % Full
<1>. DEFINE c == Val(v)
            m == -c
            t == a % Full
<1>1. c \in Int /\ m \in Int /\ Full \in Nat \ {0} /\ t \in Int  BY ValIs, FullIs, DivMod
<1>2. (t + c) % Full = (a + c) % Full /\ (t + m) % Full = (a + m) % Full
  BY <1>1, ModPlus
<1>3. /\ plus(u, v) \in uint128 /\ Val(plus(u, v)) = (t + c) % Full
      /\ minus(u, v) \in uint128 /\ Val(minus(u, v)) = (t - c) % Full
  BY PlusIs, MinusIs
<1>. HIDE DEF c, t
<1>4. t + m = t - c /\ a + m = a - c  BY <1>1
<1>. QED  BY <1>2, <1>3, <1>4 DEF c

(* A quotient digit and the remainder of two words.                            *)
Divides2(res, a, d) ==
    /\ res.quot \in Word /\ res.rem \in uint128 /\ Val(res.rem) < Val(d)
    /\ a = res.quot * Val(d) + Val(res.rem)

ThreeWords(u2, u1, u0) == u2 * Full + u1 * B + u0

(* The candidate is exact as a whole number, its remainder only modulo Full.   *)
LEMMA CandidateIs ==
    ASSUME NEW u2 \in Word, NEW u1 \in Word, NEW d, Divisor2(d), u2 * B + u1 < Val(d),
           NEW v, v = reciprocal_3by2(d),
           NEW p, p = plus(umul(v, u2), [hi |-> u2, lo |-> u1])
    PROVE  p \in uint128 /\ p.hi * B + p.lo = (B + v) * u2 + u1
<1>. DEFINE e == B + v
            D == Val(d)
            w == [hi |-> u2, lo |-> u1]
            t == v * u2 + Val(w)
<1>0. /\ B \in Nat \ {0} /\ Full \in Nat \ {0} /\ D \in Nat \ {0} /\ v \in Word
      /\ u2 \in Nat /\ u1 \in Nat /\ v \in Nat /\ e \in Nat /\ e >= B
  BY Base, FullIs, Divisor2Is, Reciprocal2Is DEF Word
<1>1. PICK k \in 0..D : k > 0 /\ e * D = B * Full - k  BY Reciprocal2Is
<1>2. /\ w \in uint128 /\ Val(w) = u2 * B + u1
      /\ umul(v, u2) \in uint128 /\ Val(umul(v, u2)) = v * u2
  BY <1>0, UmulIs, PairIs
<1>3. p \in uint128 /\ Val(p) = t % Full  BY <1>2, PlusIs
<1>. HIDE DEF w, D
<1>4. t = e * u2 + u1
  <2>1. (B + v) * u2 = u2 * B + v * u2 /\ u2 * B \in Int /\ v * u2 \in Int  BY <1>0
  <2>. QED  BY <1>0, <1>2, <2>1
<1>5. e * u2 + u1 < Full
  <2>. DEFINE o == u2 * B + u1
              s == e * u2 + u1
              g == e * o
              f == e * D
              bs == B * s
              bf == B * Full
              c == e * (D - 1)
  <2>1. o \in Nat /\ o <= D - 1 /\ s \in Nat  BY <1>0 DEF D
  <2>2. g <= c /\ c = f - e
    <3>. HIDE DEF o, e
    <3>. QED  BY <1>0, <2>1
  <2>3. bs <= g
    <3>1. B * (e * u2 + u1) = e * (u2 * B) + B * u1 /\ e * (u2 * B + u1) = e * (u2 * B) + e * u1
      <4>. HIDE DEF e
      <4>. QED  BY <1>0
    <3>2. B * u1 <= e * u1
      <4>. HIDE DEF e
      <4>. QED  BY <1>0
    <3>3. e * (u2 * B) \in Int /\ B * u1 \in Int /\ e * u1 \in Int
      <4>. HIDE DEF e
      <4>. QED  BY <1>0
    <3>. QED  BY <3>1, <3>2, <3>3
  <2>4. bs \in Int /\ g \in Int /\ f \in Int /\ bf \in Int /\ c \in Int
    <3>. HIDE DEF o, s, e
    <3>. QED  BY <1>0, <2>1
  <2>5. f = bf - k  BY <1>1
  <2>. HIDE DEF o, s, g, f, bs, bf, c, e
  <2>6. bs < bf  BY <1>0, <1>1, <2>2, <2>3, <2>4, <2>5
  <2>7. s \in Int /\ Full \in Int  BY <1>0, <2>1
  <2>8. s < Full  BY <1>0, <2>6, <2>7, ScaleLess DEF bs, bf
  <2>. QED  BY <2>8 DEF s
<1>6. t \in 0..Full - 1
  <2>. HIDE DEF e
  <2>1. e * u2 \in Nat  BY <1>0
  <2>. HIDE DEF t
  <2>. QED  BY <1>0, <1>4, <1>5, <2>1
<1>. HIDE DEF t
<1>7. t % Full = t  BY <1>0, <1>6, ModSelf
<1>. QED  BY <1>3, <1>4, <1>7, ValIs

LEMMA WrappedIs ==
    ASSUME NEW u2 \in Word, NEW u1 \in Word, NEW u0 \in Word, NEW d, Divisor2(d),
           NEW h \in Word,
           NEW r, r = minus(minus([hi |-> wsub(u1, wmul(h, d.hi)), lo |-> u0],
                                  umul(d.lo, h)), d)
    PROVE  r \in uint128 /\ Val(r) = (ThreeWords(u2, u1, u0) - (h + 1) * Val(d)) % Full
<1>. DEFINE d1 == d.hi
            d0 == d.lo
            D == Val(d)
            a == h * d1
            o == u1 - a
            w == [hi |-> wsub(u1, wmul(h, d1)), lo |-> u0]
            s == o * B + u0
            t == umul(d0, h)
            n == s - d0 * h
            m == n - D
            z == ThreeWords(u2, u1, u0) - (h + 1) * D
<1>0. /\ B \in Nat \ {0} /\ Full \in Nat \ {0} /\ Full = B * B
      /\ d \in uint128 /\ d1 \in Int /\ d0 \in Word /\ d0 \in Int
      /\ D \in Int /\ D = d1 * B + d0
      /\ h \in Int /\ u2 \in Int /\ u1 \in Int /\ u0 \in Int /\ u0 \in 0..B - 1
  BY Base, FullIs, Divisor2Is DEF Word, Full
<1>. HIDE DEF d1, d0, D
<1>1. a \in Int /\ o \in Int /\ s \in Int /\ n \in Int /\ m \in Int  BY <1>0
<1>2. wsub(u1, wmul(h, d1)) = o % B /\ o % B \in Word
  <2>. HIDE DEF a
  <2>1. wsub(u1, a % B) = wsub(u1, a)  BY <1>0, <1>1, WordAdd
  <2>2. o % B \in Word  BY <1>1, WordMod
  <2>. QED  BY <2>1, <2>2 DEF wsub, wmul, a
<1>3. w \in uint128 /\ Val(w) = s % Full
  <2>1. w \in uint128 /\ Val(w) = (o % B) * B + u0  BY <1>2, PairIs
  <2>. HIDE DEF o
  <2>2. (o % B) * B + u0 = (o * B + u0) % (B * B)  BY <1>0, <1>1, ModLimbs
  <2>. QED  BY <1>0, <2>1, <2>2
<1>4. t \in uint128 /\ Val(t) = d0 * h  BY <1>0, UmulIs
<1>5. minus(w, t) \in uint128 /\ Val(minus(w, t)) = n % Full
  <2>. HIDE DEF w, t, s
  <2>. QED  BY <1>1, <1>3, <1>4, PlusWrapped
<1>6. minus(minus(w, t), d) \in uint128 /\ Val(minus(minus(w, t), d)) = m % Full
  <2>. HIDE DEF w, t, n
  <2>. QED  BY <1>0, <1>1, <1>5, PlusWrapped DEF D
<1>7. z = m + u2 * Full
  <2>1. (u1 - h * d1) * B = u1 * B - (h * d1) * B  BY <1>0
  <2>2. (h + 1) * (d1 * B + d0) = (h * d1) * B + d0 * h + D  BY <1>0
  <2>3. u1 * B \in Int /\ (h * d1) * B \in Int /\ d0 * h \in Int /\ u2 * Full \in Int
    BY <1>0
  <2>. QED  BY <1>0, <2>1, <2>2, <2>3 DEF ThreeWords
<1>8. z % Full = m % Full
  <2>. HIDE DEF m, z
  <2>1. m \in Int /\ u2 \in Int /\ Full \in Nat \ {0}  BY <1>0, <1>1
  <2>2. (m + u2 * Full) % Full = m % Full  BY <2>1, ModShift
  <2>. QED  BY <1>7, <2>2
<1>. QED  BY <1>6, <1>8 DEF d1, d0, D

LEMMA Divide3by2 ==
    ASSUME NEW u2 \in Word, NEW u1 \in Word, NEW u0 \in Word,
           NEW d, Divisor2(d), u2 * B + u1 < Val(d)
    PROVE  Divides2(udivrem_3by2(u2, u1, u0, d, reciprocal_3by2(d)),
                    ThreeWords(u2, u1, u0), d)
<1>. DEFINE v == reciprocal_3by2(d)
            e == B + v
            D == Val(d)
            U == ThreeWords(u2, u1, u0)
            p == plus(umul(v, u2), [hi |-> u2, lo |-> u1])
            h == p.hi
            l == p.lo
            r == U - (h + 1) * D
            rc == minus(minus([hi |-> wsub(u1, wmul(h, d.hi)), lo |-> u0],
                              umul(d.lo, h)), d)
            z == l * B
            q1 == wadd(h, 1)
            over == rc.hi >= l
            q2 == IF over THEN wsub(q1, 1) ELSE q1
            r2 == IF over THEN plus(rc, d) ELSE rc
            res == IF less(r2, d) THEN [quot |-> q2, rem |-> r2]
                   ELSE [quot |-> wadd(q2, 1), rem |-> minus(r2, d)]
            rv == Val(rc)
<1>0. /\ B \in Nat \ {0} /\ Full \in Nat \ {0} /\ Full = B * B /\ d \in uint128
      /\ D \in Nat \ {0} /\ D < Full /\ Full <= 2 * D /\ v \in Word /\ v \in Nat
      /\ e \in Nat /\ e >= B /\ u2 \in 0..B - 1 /\ u1 \in 0..B - 1 /\ u0 \in 0..B - 1
  BY Base, FullIs, Divisor2Is, Reciprocal2Is DEF Word, Full
<1>1. PICK k \in 0..D : k > 0 /\ e * D = B * Full - k  BY Reciprocal2Is
<1>2. p \in uint128 /\ h * B + l = e * u2 + u1  BY CandidateIs
<1>3. h \in Word /\ l \in Word /\ h \in Int /\ h \in Nat /\ l \in 0..B - 1 /\ l \in Int
  BY <1>2, ValIs DEF Word
<1>4. rc \in uint128 /\ rv = r % Full  BY <1>3, WrappedIs
<1>5. udivrem_3by2(u2, u1, u0, d, reciprocal_3by2(d)) = res
  BY DEF udivrem_3by2
<1>. HIDE DEF p, v, rc, e
<1>. HIDE DEF h, l
<1>6. Leaves(r, Full, D, z)
  <2>. HIDE DEF D
  <2>1. Leaves((u2 * Full + u1 * B + u0) - (h + 1) * D, Full, D, l * B)
    <3>1. u2 * B + u1 < D  BY DEF D
    <3>. QED  BY <1>0, <1>1, <1>2, <1>3, <3>1, ThreeByTwo
  <2>. QED  BY <2>1 DEF ThreeWords
<1>7. U \in Nat /\ U = (u2 * B + u1) * B + u0 /\ r \in Int /\ z \in Int
  <2>1. U \in Nat /\ U = (u2 * B + u1) * B + u0  BY <1>0 DEF ThreeWords
  <2>2. (h + 1) * D \in Int /\ z \in Int  BY <1>0, <1>3
  <2>. QED  BY <2>1, <2>2
<1>8. rv \in 0..Full - 1 /\ rv \in Int /\ (over <=> rv >= z) /\ over \in BOOLEAN
  <2>. DEFINE a == rc.hi
              c == rc.lo
  <2>1. a \in Int /\ c \in 0..B - 1 /\ rv = a * B + c /\ rv \in 0..Full - 1
    BY <1>4, ValIs
  <2>. HIDE DEF a, c, rv
  <2>2. a * B + c < l * B + 0 <=> a < l \/ (a = l /\ c < 0)
    <3>1. 0 \in 0..B - 1  BY <1>0
    <3>. QED  BY <1>0, <1>3, <2>1, <3>1, LimbsLess
  <2>3. l * B + 0 = z  BY <1>0, <1>3
  <2>4. a >= l <=> rv >= z
    <3>. HIDE DEF z
    <3>. QED  BY <1>0, <1>3, <1>7, <2>1, <2>2, <2>3
  <2>5. over <=> a >= l  BY DEF a
  <2>6. over \in BOOLEAN  BY DEF over
  <2>. QED  BY <1>0, <2>1, <2>4, <2>5, <2>6
<1>9. r >= 0 => rv = r
  <2>1. ASSUME r >= 0 PROVE r \in 0..Full - 1
    <3>1. z <= (B - 1) * B /\ (B - 1) * B = Full - B  BY <1>0, <1>3
    <3>. HIDE DEF r, z
    <3>. QED  BY <1>0, <1>6, <1>7, <2>1, <3>1 DEF Leaves
  <2>. HIDE DEF r, rv
  <2>. QED  BY <1>0, <1>4, <2>1, ModSelf
<1>10. r < 0 => rv = r + Full
  <2>. DEFINE a == r + Full
  <2>. HIDE DEF r, rv, D
  <2>1. ASSUME r < 0 PROVE a \in 0..Full - 1  BY <1>0, <1>6, <1>7, <2>1 DEF Leaves
  <2>2. r = (-1) * Full + a /\ -1 \in Int  BY <1>0, <1>7
  <2>. HIDE DEF a
  <2>3. ASSUME r < 0 PROVE rv = a
    <3>1. a \in 0..Full - 1  BY <2>1, <2>3
    <3>2. ((-1) * Full + a) % Full = a  BY <1>0, <2>2, <3>1, ModIs
    <3>. QED  BY <1>4, <2>2, <3>2
  <2>. QED  BY <2>3 DEF a
(* What quotient there is, fits.                                               *)
<1>11. ASSUME NEW q \in Nat, NEW t \in uint128, Val(t) < D, U = q * D + Val(t)
       PROVE  Divides2([quot |-> q, rem |-> t], U, d)
  <2>1. q < B
    <3>1. ASSUME q >= B PROVE FALSE
      <4>. DEFINE o == u2 * B + u1
      <4>1. q * D >= B * D /\ B * D \in Int /\ q * D \in Int
        <5>. HIDE DEF D
        <5>. QED  BY <1>0, <3>1
      <4>2. o \in Nat /\ o <= D - 1  BY <1>0
      <4>. HIDE DEF o
      <4>3. o * B <= (D - 1) * B /\ (D - 1) * B = B * D - B /\ o * B \in Int
        <5>. HIDE DEF D
        <5>. QED  BY <1>0, <4>2
      <4>4. Val(t) >= 0 /\ Val(t) \in Int  BY ValIs
      <4>5. U = o * B + u0  BY <1>7 DEF o
      <4>. HIDE DEF U, D
      <4>. QED  BY <1>0, <1>11, <4>1, <4>3, <4>4, <4>5
    <3>. QED  BY <1>0, <3>1
  <2>. QED  BY <1>0, <1>11, <2>1 DEF Divides2, Word
<1>12. wsub(wadd(h, 1), 1) = h  BY <1>3, WordBack
<1>13. U = h * D + (r + D) /\ U = (h + 1) * D + r /\ U = (h + 2) * D + (r - D)
  <2>. HIDE DEF U, D
  <2>1. (h + 1) * D = h * D + D /\ (h + 2) * D = h * D + 2 * D /\ h * D \in Int
    BY <1>0, <1>3
  <2>2. U \in Int /\ D \in Int  BY <1>0, <1>7
  <2>. QED  BY <2>1, <2>2
<1>14. D \in Int /\ r + D \in Int /\ r - D \in Int  BY <1>0, <1>7
<1>15. /\ plus(rc, d) \in uint128 /\ Val(plus(rc, d)) = (r + D) % Full
       /\ minus(rc, d) \in uint128 /\ Val(minus(rc, d)) = (r - D) % Full
  <2>. HIDE DEF r
  <2>. QED  BY <1>0, <1>4, <1>7, PlusWrapped
<1>. HIDE DEF r, U
<1>16. ASSUME NEW a \in Int, a >= 0, a < Full PROVE a % Full = a
  <2>1. a \in 0..Full - 1  BY <1>0, <1>16
  <2>. QED  BY <1>0, <2>1, ModSelf
<1>17. CASE r < 0
  <2>. HIDE DEF D, z
  <2>1. over /\ r + D >= 0 /\ r + D < D
    BY <1>0, <1>6, <1>7, <1>8, <1>10, <1>14, <1>17 DEF Leaves
  <2>2. Val(plus(rc, d)) = r + D  BY <1>0, <1>14, <1>15, <1>16, <2>1
  <2>3. less(plus(rc, d), d)  BY <1>0, <1>15, <2>1, <2>2, LessIs DEF D
  <2>4. res = [quot |-> h, rem |-> plus(rc, d)]
    <3>. HIDE DEF over
    <3>. QED  BY <1>12, <2>1, <2>3
  <2>. QED  BY <1>3, <1>5, <1>11, <1>13, <1>15, <2>1, <2>2, <2>4 DEF U
<1>18. CASE r >= 0 /\ r >= z
  <2>. HIDE DEF D, z
  <2>1. over /\ rv = r /\ r < Full - D /\ r < D /\ r + D < Full /\ r + D >= 0
    BY <1>0, <1>6, <1>7, <1>8, <1>9, <1>14, <1>18 DEF Leaves
  <2>2. Val(plus(rc, d)) = r + D  BY <1>14, <1>15, <1>16, <2>1
  <2>3. ~ less(plus(rc, d), d)
    <3>1. less(plus(rc, d), d) <=> r + D < D  BY <1>0, <1>15, <2>2, LessIs DEF D
    <3>. QED  BY <1>7, <1>14, <1>18, <3>1
  <2>4. minus(plus(rc, d), d) \in uint128 /\ Val(minus(plus(rc, d), d)) = r
    <3>. DEFINE a == r + D
                s == plus(rc, d)
    <3>1. a \in Int /\ a - D = r /\ s \in uint128 /\ Val(s) = a % Full  BY <1>7, <1>14, <1>15
    <3>. HIDE DEF a, s
    <3>2. minus(s, d) \in uint128 /\ Val(minus(s, d)) = (a - D) % Full
      BY <1>0, <3>1, PlusWrapped DEF D
    <3>3. r % Full = r  BY <1>0, <1>7, <1>14, <1>16, <1>18, <2>1
    <3>. QED  BY <3>1, <3>2, <3>3 DEF s
  <2>. DEFINE t == minus(plus(rc, d), d)
  <2>5. h + 1 \in Nat  BY <1>3
  <2>6. Divides2([quot |-> h + 1, rem |-> t], U, d)
    <3>. HIDE DEF t
    <3>1. t \in uint128 /\ Val(t) < D /\ U = (h + 1) * D + Val(t)
      BY <1>13, <2>1, <2>4 DEF t
    <3>. QED  BY <1>11, <2>5, <3>1
  <2>7. wadd(h, 1) = h + 1
    <3>1. h + 1 \in Word  BY <2>6 DEF Divides2
    <3>. QED  BY <3>1, WordBack DEF wadd
  <2>8. res = [quot |-> h + 1, rem |-> t]
    <3>. HIDE DEF over
    <3>. QED  BY <1>12, <2>1, <2>3, <2>7
  <2>. QED  BY <1>5, <2>6, <2>8 DEF U
<1>19. CASE r >= 0 /\ r < z /\ r < D
  <2>. HIDE DEF D, z
  <2>1. ~ over /\ rv = r  BY <1>7, <1>8, <1>9, <1>19
  <2>2. less(rc, d)  BY <1>0, <1>4, <1>19, <2>1, LessIs DEF D
  <2>3. h + 1 \in Nat  BY <1>3
  <2>4. Divides2([quot |-> h + 1, rem |-> rc], U, d)
    <3>1. rc \in uint128 /\ Val(rc) < D /\ U = (h + 1) * D + Val(rc)
      BY <1>4, <1>13, <1>19, <2>1
    <3>. QED  BY <1>11, <2>3, <3>1
  <2>5. wadd(h, 1) = h + 1
    <3>1. h + 1 \in Word  BY <2>4 DEF Divides2
    <3>. QED  BY <3>1, WordBack DEF wadd
  <2>6. res = [quot |-> h + 1, rem |-> rc]
    <3>. HIDE DEF over
    <3>. QED  BY <2>1, <2>2, <2>5
  <2>. QED  BY <1>5, <2>4, <2>6 DEF U
<1>20. CASE r >= 0 /\ r < z /\ r >= D
  <2>. HIDE DEF D, z
  <2>1. ~ over /\ rv = r /\ r < Full  BY <1>0, <1>7, <1>8, <1>9, <1>20
  <2>2. ~ less(rc, d)
    <3>1. less(rc, d) <=> rv < D  BY <1>0, <1>4, LessIs DEF D
    <3>. QED  BY <1>7, <1>14, <1>20, <2>1, <3>1
  <2>3. r - D >= 0 /\ r - D < D /\ r - D < Full
    BY <1>0, <1>7, <1>14, <1>20, <2>1
  <2>. DEFINE t == minus(rc, d)
              a == r - D
  <2>4. t \in uint128 /\ Val(t) = r - D
    <3>1. a \in Int /\ a >= 0 /\ a < Full  BY <1>14, <2>3
    <3>. HIDE DEF a
    <3>2. a % Full = a  BY <1>16, <3>1
    <3>. QED  BY <1>15, <3>2 DEF a
  <2>5. h + 2 \in Nat  BY <1>3
  <2>6. Divides2([quot |-> h + 2, rem |-> t], U, d)
    <3>. HIDE DEF t
    <3>1. t \in uint128 /\ Val(t) < D /\ U = (h + 2) * D + Val(t)
      BY <1>13, <2>3, <2>4
    <3>. QED  BY <1>11, <2>5, <3>1
  <2>7. wadd(wadd(h, 1), 1) = h + 2
    <3>. DEFINE n == h + 1
    <3>0. n \in Int /\ 1 \in Int  BY <1>3
    <3>1. wadd(n % B, 1) = wadd(n, 1)
      <4>. HIDE DEF n
      <4>. QED  BY <3>0, WordAdd
    <3>2. n + 1 = h + 2  BY <1>3
    <3>3. h + 2 \in Word  BY <2>6 DEF Divides2
    <3>4. (h + 2) % B = h + 2  BY <3>3, WordBack
    <3>. QED  BY <3>1, <3>2, <3>4 DEF wadd
  <2>8. res = [quot |-> h + 2, rem |-> t]
    <3>. HIDE DEF over
    <3>. QED  BY <2>1, <2>2, <2>7
  <2>. QED  BY <1>5, <2>6, <2>8 DEF U
<1>. QED  BY <1>7, <1>14, <1>17, <1>18, <1>19, <1>20

-------------------------------------------------------------------------------
(* Shifting the leading bit to the top.                                        *)

(* The leading bit of a number.                                                *)
LEMMA LeadingBit ==
    ASSUME NEW n \in Nat, NEW w \in Nat \ {0}, w < 2^n
    PROVE  \E k \in 0..n - 1 : 2^k <= w /\ w < 2^(k + 1)
<1>. DEFINE S == {i \in Nat : w < 2^i => \E k \in 0..i - 1 : 2^k <= w /\ w < 2^(k + 1)}
<1>1. 0 \in S
  <2>1. 2^0 = 1  OBVIOUS
  <2>. QED  BY <2>1
<1>2. ASSUME NEW i \in S PROVE i + 1 \in S
  <2>1. i \in Nat /\ 2^i \in Nat  BY PowerPositive
  <2>2. CASE w < 2^i
    <3>1. PICK k \in 0..i - 1 : 2^k <= w /\ w < 2^(k + 1)  BY <2>2
    <3>2. k \in 0..(i + 1) - 1  BY <2>1
    <3>. QED  BY <2>1, <3>1, <3>2
  <2>3. CASE w >= 2^i
    <3>1. i \in 0..(i + 1) - 1  BY <2>1
    <3>. QED  BY <2>1, <2>3, <3>1
  <2>. QED  BY <2>1, <2>2, <2>3
<1>3. S \in SUBSET Nat  OBVIOUS
<1>. HIDE DEF S
<1>4. n \in S  BY <1>1, <1>2, <1>3, NatInduct
<1>. QED  BY <1>4 DEF S

LEMMA WclzIs ==
    ASSUME NEW w \in Word, w # 0
    PROVE  /\ wclz(w) \in 0..W - 1
           /\ w * 2^wclz(w) < B /\ B <= 2 * (w * 2^wclz(w))
<1>. DEFINE Counts0(n) == IF n = W THEN w = 0 ELSE w \div 2^(W - n - 1) = 1
            s == wclz(w)
<1>0. W \in Nat \ {0} /\ w \in Nat \ {0} /\ w < 2^W  BY Base DEF Word, B
<1>1. PICK k \in 0..W - 1 : 2^k <= w /\ w < 2^(k + 1)  BY <1>0, LeadingBit
<1>2. \E n \in 0..W : Counts0(n)
  <2>. DEFINE n == W - 1 - k
              c == 2^k
  <2>1. n \in 0..W /\ n # W /\ W - n - 1 = k /\ k \in Nat  BY <1>0, <1>1
  <2>2. c \in Nat \ {0} /\ 2^(k + 1) = 2 * c  BY <2>1, PowerPositive, PowerDoubles
  <2>3. w = 1 * c + (w - c) /\ w - c \in 0..c - 1 /\ w \in Int /\ 1 \in Int
    <3>. HIDE DEF c
    <3>1. c <= w /\ w < 2 * c  BY <1>1, <2>2 DEF c
    <3>. QED  BY <1>0, <2>2, <3>1
  <2>4. w \div c = 1
    <3>. DEFINE e == w - c
    <3>1. w = 1 * c + e /\ e \in 0..c - 1  BY <2>3
    <3>. HIDE DEF c, e
    <3>. QED  BY <2>2, <2>3, <3>1, DivModIs
  <2>. HIDE DEF n
  <2>5. w \div 2^(W - n - 1) = 1  BY <2>1, <2>4
  <2>. QED  BY <2>1, <2>5
<1>3. s \in 0..W /\ Counts0(s)
  <2>. HIDE DEF Counts0
  <2>1. s = CHOOSE n \in 0..W : Counts0(n)  BY DEF wclz, Counts0
  <2>. HIDE DEF s
  <2>. QED  BY <1>2, <2>1
<1>. HIDE DEF s
<1>. DEFINE a == W - s - 1
            c == 2^a
            d == 2^s
<1>4. s \in 0..W - 1 /\ w \div c = 1 /\ a \in Nat /\ s \in Nat /\ s < W
  BY <1>0, <1>3
<1>5. c \in Nat \ {0} /\ d \in Nat \ {0}  BY <1>4, PowerPositive
<1>6. B = d * (2 * c)
  <2>1. B = 2^s * 2^(W - s) /\ 2^(W - s) = 2^1 * 2^(W - 1 - s)  BY <1>4, Shifts
  <2>2. W - 1 - s = a /\ 2^1 = 2  BY <1>0, <1>4
  <2>. HIDE DEF a
  <2>. QED  BY <2>1, <2>2
<1>. HIDE DEF c, d, a
<1>7. w = 1 * c + (w % c) /\ w % c \in 0..c - 1
  <2>1. w \in Int  BY <1>0
  <2>. QED  BY <1>4, <1>5, <2>1, DivMod
<1>8. c <= w /\ w <= 2 * c - 1
  <2>. DEFINE e == w % c
  <2>. HIDE DEF e
  <2>1. w = 1 * c + e /\ e \in 0..c - 1  BY <1>7 DEF e
  <2>. QED  BY <1>0, <1>5, <2>1
<1>9. w * d <= (2 * c - 1) * d /\ c * d <= w * d  BY <1>0, <1>5, <1>8
<1>10. (2 * c - 1) * d = d * (2 * c) - d /\ d * (2 * c) = 2 * (c * d) /\ c * d \in Int
       /\ w * d \in Int
  BY <1>0, <1>5
<1>. QED  BY <1>4, <1>5, <1>6, <1>9, <1>10 DEF d, s

(* One word's part of a shift of all.                                          *)
LEMMA ShiftsWord ==
    ASSUME NEW l \in Word, NEW s \in 1..W - 1
    PROVE  /\ wshl(l, s) \in 0..B - 2^s /\ wshr(l, W - s) \in 0..2^s - 1
           /\ l * 2^s = wshr(l, W - s) * B + wshl(l, s)
           /\ wshl(l, s) \in Int /\ wshr(l, W - s) \in Int
           /\ l * 2^s < B => wshr(l, W - s) = 0 /\ wshl(l, s) = l * 2^s
<1>. DEFINE c == 2^s
            d == 2^(W - s)
            e == l \div d
            t == (l * c) % B
<1>0. s \in Nat /\ s < W /\ l \in 0..B - 1  BY Base DEF Word
<1>1. c \in Nat \ {0} /\ d \in Nat \ {0} /\ B = c * d /\ B \in Nat \ {0}
  BY <1>0, Shifts, Base
<1>. HIDE DEF c, d
<1>2. /\ (l * c) \div (c * d) = l \div d /\ (l * c) % (c * d) = (l % d) * c
      /\ l \div d \in 0..c - 1 /\ (l % d) * c \in 0..c * d - c
  BY <1>0, <1>1, ShiftLimb
<1>3. l * c = ((l * c) \div B) * B + ((l * c) % B)
  <2>1. l * c \in Int  BY <1>0, <1>1
  <2>. QED  BY <1>1, <2>1, DivMod
<1>4. e \in 0..c - 1 /\ t \in 0..B - c /\ l * c = e * B + t  BY <1>1, <1>2, <1>3
<1>. HIDE DEF e, t
<1>5. ASSUME l * c < B PROVE e = 0 /\ t = l * c
  <2>1. ASSUME e >= 1 PROVE FALSE
    <3>1. e * B >= B /\ e * B \in Int  BY <1>1, <1>4, <2>1
    <3>2. l * c \in Int  BY <1>0, <1>1
    <3>. QED  BY <1>1, <1>4, <1>5, <3>1, <3>2
  <2>2. e = 0  BY <1>1, <1>4, <2>1
  <2>3. 0 * B = 0  BY <1>1
  <2>. QED  BY <1>1, <1>4, <2>2, <2>3
<1>6. t \in Int /\ e \in Int  BY <1>1, <1>4
<1>. QED  BY <1>4, <1>5, <1>6 DEF wshl, wshr, c, d, e, t

-------------------------------------------------------------------------------
(* Negation, the portable product and the leading zeros.                       *)

LEMMA NegationIs ==
    ASSUME NEW u \in uint128
    PROVE  negate(u) \in uint128 /\ Val(negate(u)) = (-Val(u)) % Full
<1>. DEFINE v == Val(u)
<1>1. negate(u) \in uint128 /\ Val(negate(u)) = (Val(zero) - v) % Full
  BY ZeroIs, MinusIs DEF negate
<1>2. Val(zero) = 0 /\ v \in Int  BY ZeroIs, ValIs
<1>. HIDE DEF v
<1>3. Val(zero) - v = -v  BY <1>2
<1>. QED  BY <1>1, <1>3 DEF v

(* Half a word squared is a word.                                              *)
LEMMA HalfWord == Half \in Nat \ {0} /\ Half * Half = B
<1>. DEFINE h == W \div 2
<1>1. h \in Nat /\ h + h = W  BY WidthAssumption
<1>. HIDE DEF h
<1>2. 2^h \in Nat \ {0} /\ 2^(h + h) = 2^h * 2^h  BY <1>1, PowerPositive, PowerSum
<1>. QED  BY <1>1, <1>2 DEF Half, B, h

(* The portable product is the compiler's.                                     *)
LEMMA PortableIs ==
    ASSUME NEW a \in Word, NEW c \in Word
    PROVE  constexpr_umul(a, c) = umul(a, c)
<1>. DEFINE h == Half
            a1 == a \div h
            a0 == a % h
            c1 == c \div h
            c0 == c % h
            t0 == a0 * c0
            t1 == a1 * c0
            t2 == a0 * c1
            t3 == a1 * c1
            u1 == t1 + t0 \div h
            u2 == t2 + (u1 % h)
            top == t3 + u2 \div h
            p == t3 + u2 \div h + u1 \div h
            l == (u2 % h) * h + (t0 % h)
<1>1. h \in Nat \ {0} /\ h * h = B /\ B \in Nat \ {0}  BY HalfWord, Base
<1>. HIDE DEF h
<1>2. ASSUME NEW g \in Word
      PROVE  g \div h \in 0..h - 1 /\ g % h \in 0..h - 1 /\ g = (g \div h) * h + (g % h)
  <2>1. g \in 0..h * h - 1  BY <1>1 DEF Word
  <2>. QED  BY <1>1, <2>1, TwoLimbs
<1>3. /\ a1 \in 0..h - 1 /\ a0 \in 0..h - 1 /\ a = a1 * h + a0
      /\ c1 \in 0..h - 1 /\ c0 \in 0..h - 1 /\ c = c1 * h + c0
  BY <1>2
<1>. HIDE DEF a1, a0, c1, c0
<1>4. /\ t0 \in Word /\ t1 \in Word /\ t2 \in Word /\ t3 \in Word /\ u1 \in Word
      /\ u2 \in Word /\ top \in Word /\ p \in Word /\ l \in Word
      /\ p * B + l = a * c
  <2>. HIDE DEF t0, t1, t2, t3, u1, u2, p, l
  <2>1. /\ t0 = a0 * c0 /\ t1 = a1 * c0 /\ t2 = a0 * c1 /\ t3 = a1 * c1
        /\ u1 = t1 + t0 \div h /\ u2 = t2 + (u1 % h)
        /\ p = t3 + u2 \div h + u1 \div h /\ l = (u2 % h) * h + (t0 % h)
    BY DEF t0, t1, t2, t3, u1, u2, p, l
  <2>2. /\ t0 \in 0..h * h - 1 /\ t1 \in 0..h * h - 1 /\ t2 \in 0..h * h - 1
        /\ t3 \in 0..h * h - 1 /\ u1 \in 0..h * h - 1 /\ u2 \in 0..h * h - 1
        /\ p \in 0..h * h - 1 /\ l \in 0..h * h - 1
        /\ t3 + u2 \div h \in 0..h * h - 1
        /\ p * (h * h) + l = (a1 * h + a0) * (c1 * h + c0)
    <3>1. HalvesProduct(h, a1, a0, c1, c0, t0, t1, t2, t3, u1, u2, p, l)
      BY <1>1, <1>3, <2>1, HalvesTimes
    <3>. HIDE DEF a1, a0, c1, c0
    <3>. QED  BY <3>1 DEF HalvesProduct
  <2>. QED  BY <1>1, <1>3, <2>2 DEF Word
<1>5. ASSUME NEW g \in Word PROVE g % B = g
  BY <1>1, <1>5, ModSelf DEF Word
<1>. HIDE DEF t0, t1, t2, t3, u1, u2, top, p, l
<1>6. wmul(a0, c0) = t0 /\ wmul(a1, c0) = t1 /\ wmul(a0, c1) = t2 /\ wmul(a1, c1) = t3
  BY <1>4, <1>5 DEF wmul, t0, t1, t2, t3
<1>7. wadd(t1, t0 \div h) = u1 /\ wadd(t2, u1 % h) = u2 /\ wadd(t3, u2 \div h) = top
      /\ wadd(top, u1 \div h) = p
  BY <1>4, <1>5 DEF wadd, u1, u2, top, p
<1>8. wmul(u2, h) + (t0 % h) = l
  <2>. DEFINE e == u2 \div h
              f == u2 % h
  <2>1. e \in 0..h - 1 /\ f \in 0..h - 1 /\ u2 = e * h + f  BY <1>2, <1>4
  <2>. HIDE DEF e, f
  <2>2. u2 * h = e * (h * h) + f * h  BY <1>1, <2>1
  <2>3. f * h \in 0..h * h - 1
    <3>1. (f + 1) * h <= h * h /\ (f + 1) * h = f * h + h /\ f * h \in Nat /\ h * h \in Nat
      BY <1>1, <2>1
    <3>. QED  BY <1>1, <3>1
  <2>4. (u2 * h) % B = f * h
    <3>. DEFINE g == f * h
    <3>1. g \in 0..B - 1 /\ e \in Int /\ u2 * h = e * B + g  BY <1>1, <2>1, <2>2, <2>3
    <3>. HIDE DEF g
    <3>2. (e * B + g) % B = g  BY <1>1, <3>1, ModIs
    <3>. QED  BY <3>1, <3>2 DEF g
  <2>. QED  BY <2>4 DEF wmul, l, f
<1>9. constexpr_umul(a, c) = [hi |-> p, lo |-> l]
  BY <1>6, <1>7, <1>8 DEF constexpr_umul, h, a0, a1, c0, c1
<1>10. constexpr_umul(a, c) \in uint128 /\ Val(constexpr_umul(a, c)) = a * c
  BY <1>4, <1>9, PairIs
<1>11. umul(a, c) \in uint128 /\ Val(umul(a, c)) = a * c  BY UmulIs
<1>. QED  BY <1>10, <1>11, LessIs

(* Where a word's leading bit is.                                              *)
LEMMA WordTop ==
    ASSUME NEW w \in Word, w # 0
    PROVE  /\ wclz(w) \in 0..W - 1
           /\ 2^(W - 1 - wclz(w)) <= w /\ w < 2^(W - wclz(w))
<1>. DEFINE s == wclz(w)
            c == 2^s
            d == 2^(W - 1 - s)
            e == 2^(W - s)
<1>1. s \in 0..W - 1 /\ w * c < B /\ B <= 2 * (w * c)  BY WclzIs
<1>2. W \in Nat /\ s \in Nat /\ s < W  BY <1>1, Base
<1>3. c \in Nat \ {0} /\ d \in Nat \ {0} /\ e \in Nat \ {0} /\ B = c * e /\ e = 2 * d
  <2>1. 2^1 = 2  OBVIOUS
  <2>. HIDE DEF s
  <2>. QED  BY <1>2, <2>1, Shifts
<1>. HIDE DEF s, c, d, e
<1>4. w \in Nat  BY Base DEF Word
<1>5. w < e
  <2>1. ASSUME w >= e PROVE FALSE
    <3>1. w * c >= e * c /\ e * c = c * e /\ w * c \in Int /\ c * e \in Int
      BY <1>3, <1>4, <2>1
    <3>. QED  BY <1>1, <1>3, <3>1
  <2>. QED  BY <1>3, <1>4, <2>1
<1>6. d <= w
  <2>1. ASSUME w + 1 <= d PROVE FALSE
    <3>1. (w + 1) * c <= d * c /\ (w + 1) * c = w * c + c /\ w * c \in Int
      BY <1>3, <1>4, <2>1
    <3>2. c * (2 * d) = 2 * (d * c) /\ d * c \in Int  BY <1>3
    <3>. QED  BY <1>1, <1>3, <3>1, <3>2
  <2>. QED  BY <1>3, <1>4, <2>1
<1>. QED  BY <1>1, <1>5, <1>6 DEF s, d, e

LEMMA NoBits == wclz(0) = W
<1>. DEFINE Counts0(n) == IF n = W THEN 0 = 0 ELSE 0 \div 2^(W - n - 1) = 1
<1>1. W \in Nat  BY Base
<1>2. ASSUME NEW n \in 0..W, n # W PROVE 0 \div 2^(W - n - 1) = 0
  <2>. DEFINE c == 2^(W - n - 1)
  <2>1. W - n - 1 \in Nat  BY <1>1, <1>2
  <2>2. c \in Nat \ {0}  BY <2>1, PowerPositive
  <2>. HIDE DEF c
  <2>3. 0 = 0 * c + 0 /\ 0 \in 0..c - 1 /\ 0 \in Int  BY <2>2
  <2>4. 0 \div c = 0  BY <2>2, <2>3, DivModIs
  <2>. QED  BY <2>4 DEF c
<1>3. Counts0(W) /\ W \in 0..W  BY <1>1
<1>4. \A n \in 0..W : Counts0(n) => n = W  BY <1>2
<1>5. wclz(0) = CHOOSE n \in 0..W : Counts0(n)  BY DEF wclz
<1>. HIDE DEF Counts0
<1>. QED  BY <1>3, <1>4, <1>5

LEMMA ClzIs ==
    ASSUME NEW u \in uint128
    PROVE  /\ Val(u) = 0 => clz(u) = 2 * W
           /\ Val(u) # 0 => /\ clz(u) \in 0..2 * W - 1
                            /\ 2^(2 * W - 1 - clz(u)) <= Val(u)
                            /\ Val(u) < 2^(2 * W - clz(u))
<1>. DEFINE h == u.hi
            l == u.lo
<1>1. h \in Word /\ l \in Word /\ h \in 0..B - 1 /\ l \in 0..B - 1 /\ Val(u) = h * B + l
      /\ B \in Nat \ {0} /\ W \in Nat \ {0}
  BY ValIs, Base
<1>2. h * B \in Nat /\ (h # 0 => h * B >= B)
  <2>1. h \in Nat /\ B \in Nat \ {0}  BY <1>1
  <2>. HIDE DEF h
  <2>. QED  BY <2>1
<1>3. ASSUME Val(u) = 0 PROVE clz(u) = 2 * W
  <2>1. h = 0
    <3>. DEFINE e == h * B
    <3>. HIDE DEF e, h, l
    <3>. QED  BY <1>1, <1>2, <1>3 DEF e
  <2>2. 0 * B = 0 /\ l = 0  BY <1>1, <1>3, <2>1
  <2>3. clz(u) = W + W  BY <2>1, <2>2, NoBits DEF clz
  <2>. QED  BY <1>1, <2>3
<1>4. ASSUME Val(u) # 0, h = 0
      PROVE  /\ clz(u) \in 0..2 * W - 1 /\ 2^(2 * W - 1 - clz(u)) <= Val(u)
             /\ Val(u) < 2^(2 * W - clz(u))
  <2>. DEFINE s == wclz(l)
  <2>1. Val(u) = l /\ l # 0
    <3>1. 0 * B = 0  BY <1>1
    <3>. QED  BY <1>1, <1>4, <3>1
  <2>2. s \in 0..W - 1 /\ 2^(W - 1 - s) <= l /\ l < 2^(W - s)  BY <1>1, <2>1, WordTop
  <2>3. clz(u) = s + W  BY <1>4 DEF clz
  <2>. HIDE DEF s
  <2>4. 2 * W - 1 - clz(u) = W - 1 - s /\ 2 * W - clz(u) = W - s /\ clz(u) \in 0..2 * W - 1
    BY <1>1, <2>2, <2>3
  <2>. QED  BY <2>1, <2>2, <2>4
<1>5. ASSUME Val(u) # 0, h # 0
      PROVE  /\ clz(u) \in 0..2 * W - 1 /\ 2^(2 * W - 1 - clz(u)) <= Val(u)
             /\ Val(u) < 2^(2 * W - clz(u))
  <2>. DEFINE s == wclz(h)
              c == 2^(W - 1 - s)
              d == 2^(W - s)
  <2>1. s \in 0..W - 1 /\ c <= h /\ h < d  BY <1>1, <1>5, WordTop
  <2>2. clz(u) = s  BY <1>5 DEF clz
  <2>. HIDE DEF s
  <2>3. 2 * W - 1 - s = (W - 1 - s) + W /\ 2 * W - s = (W - s) + W /\ s \in 0..2 * W - 1
        /\ W - 1 - s \in Nat /\ W - s \in Nat /\ W \in Nat
    BY <1>1, <2>1
  <2>4. 2^((W - 1 - s) + W) = c * B /\ 2^((W - s) + W) = d * B /\ c \in Nat /\ d \in Nat
    BY <2>3, PowerSum, PowerPositive DEF B
  <2>. HIDE DEF c, d, h, l
  <2>5. c * B <= h * B /\ (h + 1) * B <= d * B /\ (h + 1) * B = h * B + B
        /\ c * B \in Int /\ d * B \in Int /\ h * B \in Int
    BY <1>1, <2>1, <2>4
  <2>6. c * B <= Val(u) /\ Val(u) < d * B  BY <1>1, <2>5
  <2>. QED  BY <2>2, <2>3, <2>4, <2>6
<1>. QED  BY <1>3, <1>4, <1>5

-------------------------------------------------------------------------------
(* Division of two words by two words.                                         *)

(* The bits a shift by s moves out of the upper word.                          *)
TopBits(u, s) == IF s = 0 THEN 0 ELSE wshr(u.hi, W - s)

LEMMA NothingLost ==
    ASSUME NEW u \in uint128, NEW s \in 0..W - 1
    PROVE  /\ TopBits(u, s) \in 0..2^s - 1 /\ shl(u, s) \in uint128
           /\ Val(u) * 2^s = TopBits(u, s) * Full + Val(shl(u, s))
<1>. DEFINE X == Val(u)
            c == 2^s
            h == u.hi
            l == u.lo
            e == TopBits(u, s)
<1>1. /\ h \in Word /\ l \in Word /\ X = h * B + l /\ X \in 0..Full - 1
      /\ h \in Int /\ l \in Int /\ B \in Nat \ {0} /\ Full \in Nat \ {0} /\ Full = B * B
      /\ s \in Nat /\ c \in Nat \ {0}
  <2>1. s \in Nat  BY Base
  <2>2. c \in Nat \ {0}  BY <2>1, PowerPositive
  <2>. HIDE DEF c
  <2>. QED  BY <2>1, <2>2, ValIs, Base, FullIs DEF Full
<1>2. shl(u, s) \in uint128 /\ Val(shl(u, s)) = (X * c) % Full  BY <1>1, ShlIs
<1>3. e \in 0..c - 1 /\ \E t \in 0..Full - 1 : X * c = e * Full + t
  <2>1. CASE s = 0
    <3>1. c = 1 /\ e = 0  BY <2>1 DEF TopBits
    <3>. HIDE DEF c, e, X
    <3>2. X * c = e * Full + X  BY <1>1, <3>1
    <3>. QED  BY <1>1, <3>1, <3>2
  <2>2. CASE s # 0
    <3>. DEFINE f == wshl(h, s)
                g == wshr(l, W - s)
                t == wshl(l, s)
    <3>0. s \in 1..W - 1  BY <2>2
    <3>1. e \in 0..c - 1 /\ f \in 0..B - c /\ h * c = e * B + f
      BY <1>1, <2>2, <3>0, ShiftsWord DEF TopBits
    <3>2. g \in 0..c - 1 /\ t \in 0..B - c /\ l * c = g * B + t
      BY <1>1, <3>0, ShiftsWord
    <3>. HIDE DEF c, e, f, g, t, h, l, X
    <3>3. f + g \in 0..B - 1 /\ t \in 0..B - 1  BY <1>1, <3>1, <3>2
    <3>4. (f + g) * B + t \in 0..B * B - 1
      <4>. DEFINE k == f + g
      <4>1. k \in 0..B - 1  BY <3>3
      <4>. HIDE DEF k
      <4>2. k * B + t \in 0..B * B - 1  BY <1>1, <3>3, <4>1, LimbsIn
      <4>. QED  BY <4>2 DEF k
    <3>5. X * c = e * (B * B) + ((f + g) * B + t)
      <4>1. (h * B + l) * c = (h * c) * B + l * c  BY <1>1
      <4>2. (e * B + f) * B = e * (B * B) + f * B  BY <1>1, <3>1
      <4>3. (f + g) * B = f * B + g * B  BY <1>1, <3>1, <3>2
      <4>. DEFINE ebb == e * (B * B)
                  fb == f * B
                  gb == g * B
      <4>4. ebb \in Int /\ fb \in Int /\ gb \in Int /\ t \in Int  BY <1>1, <3>1, <3>2
      <4>5. X * c = (ebb + fb) + (gb + t) /\ (f + g) * B = fb + gb
        BY <1>1, <3>1, <3>2, <4>1, <4>2, <4>3
      <4>. HIDE DEF ebb, fb, gb
      <4>6. X * c = ebb + ((fb + gb) + t)  BY <4>4, <4>5
      <4>. QED  BY <4>5, <4>6 DEF ebb
    <3>. QED  BY <1>1, <3>1, <3>4, <3>5
  <2>. QED  BY <2>1, <2>2
<1>. HIDE DEF c, e, h, l, X
<1>4. PICK t \in 0..Full - 1 : X * c = e * Full + t  BY <1>3
<1>5. (X * c) % Full = t
  <2>1. e \in Int  BY <1>1, <1>3
  <2>2. (e * Full + t) % Full = t  BY <1>1, <2>1, ModIs
  <2>. QED  BY <1>4, <2>2
<1>. QED  BY <1>2, <1>3, <1>4, <1>5 DEF X, c, e

(* A divisor of one word, its top bit shifted into place.                      *)
LEMMA ScaledWord ==
    ASSUME NEW v \in uint128, v.lo # 0
    PROVE  /\ wclz(v.lo) \in 0..W - 1 /\ Divisor(shl(v, wclz(v.lo)).lo)
           /\ shl(v, wclz(v.lo)).lo = v.lo * 2^wclz(v.lo)
<1>. DEFINE l == v.lo
            s == wclz(l)
            d == l * 2^s
<1>1. l \in Word /\ B \in Nat \ {0} /\ W \in Nat  BY ValIs, Base
<1>2. s \in 0..W - 1 /\ d < B /\ B <= 2 * d  BY <1>1, WclzIs
<1>3. s \in Nat /\ s < W  BY <1>1, <1>2
<1>4. d \in Nat
  <2>1. l \in Nat  BY <1>1 DEF Word
  <2>2. 2^s \in Nat  BY <1>3, PowerPositive
  <2>. HIDE DEF l
  <2>. QED  BY <2>1, <2>2
<1>5. shl(v, s).lo = d % B  BY <1>3 DEF shl, wshl
<1>. HIDE DEF d
<1>6. d \in 0..B - 1  BY <1>1, <1>2, <1>4
<1>7. d % B = d  BY <1>1, <1>6, ModSelf
<1>8. Divisor(d)  BY <1>2, <1>6 DEF Divisor, Word
<1>. QED  BY <1>2, <1>5, <1>7, <1>8 DEF d

(* A divisor of two words, likewise.                                           *)
LEMMA ScaledWords ==
    ASSUME NEW v \in uint128, v.hi # 0, NEW s, s = wclz(v.hi)
    PROVE  /\ s \in 0..W - 1 /\ Divisor2(shl(v, s))
           /\ Val(shl(v, s)) = Val(v) * 2^s /\ Val(v) >= B
<1>. DEFINE h == v.hi
            l == v.lo
            c == 2^s
            z == shl(v, s)
            Y == Val(v)
<1>1. /\ h \in Word /\ l \in 0..B - 1 /\ Y = h * B + l /\ B \in Nat \ {0} /\ W \in Nat
      /\ h \in Nat \ {0} /\ Full \in Nat \ {0}
  <2>1. h \in Nat  BY ValIs, Base DEF Word
  <2>. QED  BY <2>1, ValIs, Base, FullIs
<1>2. s \in 0..W - 1 /\ h * c < B /\ B <= 2 * (h * c)  BY <1>1, WclzIs
<1>3. c \in Nat \ {0} /\ s \in Nat
  <2>1. s \in Nat  BY <1>1, <1>2
  <2>. QED  BY <2>1, PowerPositive
<1>4. TopBits(v, s) = 0
  <2>1. CASE s = 0  BY <2>1 DEF TopBits
  <2>2. CASE s # 0
    <3>1. s \in 1..W - 1  BY <1>2, <2>2
    <3>2. wshr(h, W - s) = 0  BY <1>1, <1>2, <3>1, ShiftsWord
    <3>. QED  BY <2>2, <3>2 DEF TopBits
  <2>. QED  BY <2>1, <2>2
<1>5. z \in uint128 /\ Y * c = TopBits(v, s) * Full + Val(z)  BY <1>2, NothingLost
<1>6. z.hi \in Word /\ z.hi \in Nat /\ z.lo \in 0..B - 1 /\ Val(z) = z.hi * B + z.lo
      /\ Val(z) \in Nat
  <2>1. z.hi \in Word /\ z.lo \in 0..B - 1 /\ Val(z) = z.hi * B + z.lo /\ Val(z) \in Nat
    BY <1>5, ValIs
  <2>. QED  BY <1>1, <2>1 DEF Word
<1>7. Val(z) = Y * c
  <2>1. 0 * Full = 0  BY <1>1
  <2>. HIDE DEF z
  <2>. QED  BY <1>4, <1>5, <1>6, <2>1
<1>. DEFINE zh == z.hi
            zl == z.lo
<1>. HIDE DEF h, l, c, Y
<1>8. h * c <= zh
  <2>1. Y * c = (h * c) * B + l * c /\ l * c \in Nat /\ h * c \in Int
    BY <1>1, <1>3
  <2>2. ASSUME zh + 1 <= h * c PROVE FALSE
    <3>. DEFINE g == h * c
    <3>0. g \in Int /\ zh + 1 <= g /\ zh \in Nat /\ zl \in 0..B - 1  BY <1>6, <2>1, <2>2
    <3>. HIDE DEF g, zh, zl
    <3>1. (zh + 1) * B <= g * B /\ (zh + 1) * B = zh * B + B /\ g * B \in Int
          /\ zh * B \in Int
      BY <1>1, <3>0
    <3>2. zh * B + zl = g * B + l * c  BY <1>6, <1>7, <2>1 DEF g, zh, zl
    <3>. DEFINE gb == g * B
                zb == zh * B
                lc == l * c
    <3>3. zb + B <= gb /\ zb + zl = gb + lc /\ gb \in Int /\ zb \in Int /\ lc \in Nat
      BY <2>1, <3>1, <3>2
    <3>. HIDE DEF gb, zb, lc
    <3>. QED  BY <1>1, <3>0, <3>3
  <2>3. zh \in Nat  BY <1>6
  <2>. HIDE DEF zh
  <2>. QED  BY <2>1, <2>2, <2>3
<1>9. B <= 2 * z.hi
  <2>1. h * c \in Int  BY <1>1, <1>3
  <2>2. zh \in Nat  BY <1>6
  <2>3. B <= 2 * zh
    <3>. DEFINE g == h * c
    <3>1. g \in Int /\ B <= 2 * g /\ g <= zh  BY <1>2, <1>8, <2>1 DEF h, c
    <3>. HIDE DEF g, zh
    <3>. QED  BY <1>1, <2>2, <3>1
  <2>. QED  BY <2>3
<1>10. Divisor2(z)  BY <1>5, <1>6, <1>9 DEF Divisor2, Divisor
<1>11. Y >= B
  <2>1. h * B >= B /\ h * B \in Int  BY <1>1
  <2>. QED  BY <1>1, <2>1
<1>. QED  BY <1>2, <1>7, <1>10, <1>11 DEF Y, c

Quotient128(res, a, d) ==
    /\ res.quot \in uint128 /\ res.rem \in uint128
    /\ Val(res.quot) = a \div d /\ Val(res.rem) = a % d

(* The four ways of udivrem: by one word, ...                                  *)
LEMMA ByOneWord ==
    ASSUME NEW u \in uint128, NEW v \in uint128, v.hi = 0, v.lo # 0
    PROVE  Quotient128(udivrem128(u, v), Val(u), Val(v))
<1>. DEFINE s == wclz(v.lo)
            ex == IF s = 0 THEN 0 ELSE wshr(u.hi, W - s)
            xn == shl(u, s)
            d == shl(v, s).lo
            rd == reciprocal_2by1(d)
            q1 == udivrem_2by1([hi |-> ex, lo |-> xn.hi], d, rd)
            q0 == udivrem_2by1([hi |-> q1.rem, lo |-> xn.lo], d, rd)
            c == 2^s
            X == Val(u)
            Y == Val(v)
<1>1. /\ B \in Nat \ {0} /\ Full \in Nat \ {0} /\ Full = B * B /\ W \in Nat
      /\ v.lo \in Word /\ v.lo \in Nat \ {0} /\ Y = v.lo /\ X \in Nat
  <2>1. v.lo \in Nat  BY ValIs, Base DEF Word
  <2>2. 0 * B = 0 /\ v.lo + 0 = v.lo  BY Base, <2>1
  <2>3. Y = 0 * B + v.lo  BY ValIs
  <2>. QED  BY <2>1, <2>2, <2>3, ValIs, Base, FullIs DEF Full
<1>2. s \in 0..W - 1 /\ Divisor(d) /\ d = Y * c  BY <1>1, ScaledWord
<1>3. c \in Nat \ {0} /\ s \in Nat
  <2>1. s \in Nat  BY <1>1, <1>2
  <2>. QED  BY <2>1, PowerPositive
<1>4. ex \in 0..c - 1 /\ xn \in uint128 /\ X * c = ex * Full + Val(xn)
  BY <1>2, NothingLost DEF TopBits
<1>5. xn.hi \in Word /\ xn.lo \in Word /\ Val(xn) = xn.hi * B + xn.lo  BY <1>4, ValIs
<1>6. udivrem128(u, v) = [quot |-> [hi |-> q1.quot, lo |-> q0.quot],
                          rem  |-> wide(wshr(q0.rem, s))]
  <2>1. ~(v.hi > u.hi)
    <3>1. u.hi \in Nat  BY ValIs, Base DEF Word
    <3>. QED  BY <3>1
  <2>. QED  BY <2>1 DEF udivrem128
<1>. DEFINE xh == xn.hi
            xl == xn.lo
<1>. HIDE DEF s, ex, xn, d, c, X, Y
<1>7. d \in Nat \ {0} /\ d < B /\ d \in Word  BY <1>2, DivisorIs
<1>8. ex < d /\ ex \in Word
  <2>1. c <= c * Y /\ c * Y = Y * c /\ Y * c \in Int
    <3>1. Y \in Nat \ {0} /\ 1 <= Y  BY <1>1
    <3>. QED  BY <1>3, <3>1, TimesOne
  <2>2. ex < d /\ ex \in Nat  BY <1>2, <1>3, <1>4, <1>7, <2>1
  <2>. QED  BY <1>1, <1>7, <2>2 DEF Word
<1>9. Divides(q1, ex * B + xh, d)
  <2>. DEFINE z == [hi |-> ex, lo |-> xn.hi]
  <2>1. z \in uint128 /\ Val(z) = ex * B + xn.hi /\ z.hi = ex  BY <1>5, <1>8, PairIs
  <2>. HIDE DEF z
  <2>2. Divides(udivrem_2by1(z, d, reciprocal_2by1(d)), Val(z), d)
    BY <1>2, <1>8, <2>1, Divide2by1
  <2>. QED  BY <2>1, <2>2 DEF z
<1>10. q1.quot \in Word /\ q1.rem \in 0..d - 1 /\ ex * B + xh = q1.quot * d + q1.rem
       /\ q1.rem \in Word
  <2>1. q1.quot \in Word /\ q1.rem \in 0..d - 1 /\ ex * B + xh = q1.quot * d + q1.rem
    BY <1>9 DEF Divides
  <2>. DEFINE t == q1.rem
  <2>. HIDE DEF t
  <2>2. t \in 0..d - 1  BY <2>1 DEF t
  <2>3. t \in Word  BY <1>1, <1>7, <2>2 DEF Word
  <2>. QED  BY <2>1, <2>3 DEF t
<1>11. Divides(q0, q1.rem * B + xl, d)
  <2>. DEFINE t == q1.rem
              z == [hi |-> t, lo |-> xn.lo]
  <2>0. t \in Word /\ t \in 0..d - 1  BY <1>10
  <2>1. z \in uint128 /\ Val(z) = t * B + xn.lo /\ z.hi = t
    <3>. HIDE DEF t
    <3>. QED  BY <1>5, <2>0, PairIs
  <2>2. z.hi < d
    <3>. HIDE DEF t, z
    <3>. QED  BY <1>7, <2>0, <2>1
  <2>3. Divides(udivrem_2by1(z, d, reciprocal_2by1(d)), Val(z), d)
    <3>. HIDE DEF t, z
    <3>. QED  BY <1>2, <2>1, <2>2, Divide2by1
  <2>4. q0 = udivrem_2by1(z, d, reciprocal_2by1(d))  OBVIOUS
  <2>. HIDE DEF z, q0, t
  <2>5. Divides(q0, t * B + xn.lo, d)  BY <2>1, <2>3, <2>4
  <2>. QED  BY <2>5 DEF t
<1>. DEFINE F1 == q1.quot
            F0 == q0.quot
            R1 == q1.rem
            R0 == q0.rem
<1>12. /\ F1 \in Word /\ F0 \in Word /\ R1 \in 0..d - 1 /\ R0 \in 0..d - 1
       /\ ex * B + xh = F1 * d + R1 /\ R1 * B + xl = F0 * d + R0
  BY <1>10, <1>11 DEF Divides
<1>13. xh \in Int /\ xl \in Int /\ Val(xn) = xh * B + xl  BY <1>5, Base DEF Word
<1>. HIDE DEF F1, F0, R1, R0, xh, xl, q1, q0
<1>14. F1 \in Nat /\ F0 \in Nat /\ R1 \in Nat /\ R0 \in Nat /\ R0 < d /\ ex \in Int
  BY <1>1, <1>3, <1>4, <1>7, <1>12 DEF Word
<1>15. (F1 * B + F0) * d + R0 = X * c
  <2>1. (ex * B + xh) * B = ex * (B * B) + xh * B /\ (F1 * d + R1) * B = (F1 * B) * d + R1 * B
    BY <1>1, <1>7, <1>13, <1>14
  <2>2. (F1 * B + F0) * d = (F1 * B) * d + F0 * d  BY <1>1, <1>7, <1>14
  <2>. DEFINE a == ex * (B * B)
              b == xh * B
              e == (F1 * B) * d
              f == R1 * B
              g == F0 * d
  <2>3. a \in Int /\ b \in Int /\ e \in Int /\ f \in Int /\ g \in Int
    BY <1>1, <1>7, <1>13, <1>14
  <2>4. a + b = e + f /\ f + xl = g + R0 /\ (F1 * B + F0) * d = e + g /\ X * c = a + (b + xl)
    BY <1>1, <1>4, <1>12, <1>13, <2>1, <2>2
  <2>. HIDE DEF a, b, e, f, g
  <2>5. (e + g) + R0 = a + (b + xl)  BY <1>13, <1>14, <2>3, <2>4
  <2>. QED  BY <2>4, <2>5
<1>. DEFINE F == F1 * B + F0
            R == X - F * Y
<1>16. F \in Nat  BY <1>1, <1>14
<1>17. Divided(X, Y, c, F, R0, R)
  <2>1. F * (Y * c) + R0 = X * c  BY <1>2, <1>15
  <2>2. R0 < (Y * c) * 1
    <3>1. d * 1 = d  BY <1>7
    <3>. QED  BY <1>2, <1>14, <3>1
  <2>3. Y \in Nat \ {0}  BY <1>1
  <2>. DEFINE r == R
  <2>4. r = X - F * Y  OBVIOUS
  <2>. HIDE DEF F, r
  <2>5. Divided(X, Y, c, F, R0, r)  BY <1>1, <1>3, <1>14, <1>16, <2>1, <2>2, <2>3, <2>4, Unshifted
  <2>. QED  BY <2>5 DEF r
<1>. HIDE DEF F, R
<1>18. R0 = R * c /\ R \in Nat /\ R < Y /\ F = X \div Y /\ R = X % Y
  BY <1>17 DEF Divided
<1>19. wshr(R0, s) = R
  <2>1. R0 = R * c + 0 /\ 0 \in 0..c - 1 /\ R \in Int /\ R0 \in Int
    BY <1>3, <1>14, <1>18
  <2>2. R0 \div c = R  BY <1>3, <2>1, DivModIs
  <2>. QED  BY <2>2 DEF wshr, c
<1>20. R \in Word  BY <1>1, <1>18 DEF Word
<1>21. wide(R) \in uint128 /\ Val(wide(R)) = R  BY <1>20, WideIs
<1>22. [hi |-> F1, lo |-> F0] \in uint128 /\ Val([hi |-> F1, lo |-> F0]) = F
  BY <1>12, PairIs DEF F
<1>23. udivrem128(u, v) = [quot |-> [hi |-> F1, lo |-> F0], rem |-> wide(R)]
  BY <1>6, <1>19 DEF F1, F0, R0
<1>. QED  BY <1>18, <1>21, <1>22, <1>23 DEF Quotient128, X, Y

(* ... by a larger number, ...                                                 *)
LEMMA ByMore ==
    ASSUME NEW u \in uint128, NEW v \in uint128, v.hi > u.hi
    PROVE  Quotient128(udivrem128(u, v), Val(u), Val(v))
<1>. DEFINE X == Val(u)
            Y == Val(v)
<1>1. u.hi \in Nat /\ v.hi \in Nat /\ X \in Nat /\ Y \in Nat  BY ValIs, Base DEF Word
<1>2. X < Y  BY <1>1, LessIs DEF less
<1>3. udivrem128(u, v) = [quot |-> zero, rem |-> u]  BY <1>1 DEF udivrem128
<1>4. X \div Y = 0 /\ X % Y = X
  <2>. HIDE DEF X, Y
  <2>1. Y \in Nat \ {0} /\ X \in 0..Y - 1  BY <1>1, <1>2
  <2>. QED  BY <2>1, ModSelf
<1>. QED  BY <1>3, <1>4, ZeroIs DEF Quotient128

(* ... by one whose top bit is set, ...                                        *)
LEMMA ByHalf ==
    ASSUME NEW u \in uint128, NEW v \in uint128, v.hi # 0, v.hi <= u.hi, wclz(v.hi) = 0
    PROVE  Quotient128(udivrem128(u, v), Val(u), Val(v))
<1>. DEFINE X == Val(u)
            Y == Val(v)
            q == Bit(v.hi < u.hi \/ v.lo <= u.lo)
<1>1. /\ u.hi \in Nat /\ v.hi \in Nat /\ X \in Nat /\ Y \in Nat /\ X < Full
      /\ Full \in Nat \ {0} /\ B \in Nat \ {0}
  BY ValIs, Base, FullIs DEF Word
<1>2. udivrem128(u, v) = [quot |-> wide(q), rem |-> IF q = 1 THEN minus(u, v) ELSE u]
  BY <1>1 DEF udivrem128
<1>3. Divisor2(shl(v, 0)) /\ Val(shl(v, 0)) = Y * 2^0 /\ Y >= B  BY ScaledWords
<1>4. Full <= 2 * Y
  <2>1. Full <= 2 * (Y * 2^0)  BY <1>3, Divisor2Is
  <2>2. 2^0 = 1 /\ Y * 1 = Y  BY <1>1
  <2>. QED  BY <2>1, <2>2
<1>5. q = Bit(Y <= X)
  <2>1. Y <= X <=> v.hi < u.hi \/ (v.hi = u.hi /\ v.lo <= u.lo)  BY LessIs DEF atmost
  <2>2. v.hi < u.hi \/ v.hi = u.hi  BY <1>1
  <2>3. (v.hi < u.hi \/ v.lo <= u.lo) <=> Y <= X  BY <2>1, <2>2
  <2>. QED  BY <2>3 DEF Bit
<1>6. CASE Y <= X
  <2>1. q = 1  BY <1>5, <1>6 DEF Bit
  <2>2. minus(u, v) \in uint128 /\ Val(minus(u, v)) = (X - Y) % Full  BY MinusIs
  <2>3. 1 \in Word  BY Base DEF Word
  <2>4. wide(q) \in uint128 /\ Val(wide(q)) = 1  BY <2>1, <2>3, WideIs
  <2>5. udivrem128(u, v) = [quot |-> wide(q), rem |-> minus(u, v)]  BY <1>2, <2>1
  <2>. HIDE DEF X, Y, q
  <2>. DEFINE e == X - Y
  <2>6. e \in 0..Full - 1 /\ e \in 0..Y - 1 /\ X = 1 * Y + e /\ Y \in Nat \ {0}
    BY <1>1, <1>3, <1>4, <1>6
  <2>. HIDE DEF e
  <2>7. e % Full = e  BY <1>1, <2>6, ModSelf
  <2>8. X \div Y = 1 /\ X % Y = e
    <3>1. X \in Int /\ 1 \in Int  BY <1>1
    <3>. QED  BY <2>6, <3>1, DivModIs
  <2>. QED  BY <2>2, <2>4, <2>5, <2>7, <2>8 DEF Quotient128, X, Y, e
<1>7. CASE ~(Y <= X)
  <2>1. q = 0  BY <1>5, <1>7 DEF Bit
  <2>2. wide(q) = zero  BY <2>1 DEF wide, zero
  <2>3. udivrem128(u, v) = [quot |-> zero, rem |-> u]  BY <1>2, <2>1, <2>2
  <2>4. X \div Y = 0 /\ X % Y = X
    <3>. HIDE DEF X, Y
    <3>1. Y \in Nat \ {0} /\ X \in 0..Y - 1  BY <1>1, <1>7
    <3>. QED  BY <3>1, ModSelf
  <2>. QED  BY <2>3, <2>4, ZeroIs DEF Quotient128
<1>. QED  BY <1>6, <1>7

(* ... or by two words.                                                        *)
LEMMA ByTwoWords ==
    ASSUME NEW u \in uint128, NEW v \in uint128, v.hi # 0, v.hi <= u.hi, wclz(v.hi) # 0
    PROVE  Quotient128(udivrem128(u, v), Val(u), Val(v))
<1>. DEFINE s == wclz(v.hi)
            ex == wshr(u.hi, W - s)
            xn == shl(u, s)
            yn == shl(v, s)
            res == udivrem_3by2(ex, xn.hi, xn.lo, yn, reciprocal_3by2(yn))
            c == 2^s
            X == Val(u)
            Y == Val(v)
<1>1. /\ u.hi \in Nat /\ v.hi \in Nat /\ X \in Nat /\ Y \in Nat
      /\ Full \in Nat \ {0} /\ Full = B * B /\ B \in Nat \ {0} /\ W \in Nat
  BY ValIs, Base, FullIs DEF Word, Full
<1>2. udivrem128(u, v) = [quot |-> wide(res.quot), rem |-> shr(res.rem, s)]
  BY <1>1 DEF udivrem128
<1>3. s \in 0..W - 1 /\ Divisor2(yn) /\ Val(yn) = Y * c /\ Y >= B  BY ScaledWords
<1>4. c \in Nat \ {0} /\ s \in Nat
  <2>1. s \in Nat  BY <1>1, <1>3
  <2>. QED  BY <2>1, PowerPositive
<1>5. ex \in 0..c - 1 /\ xn \in uint128 /\ X * c = ex * Full + Val(xn)
  BY <1>3, NothingLost DEF TopBits
<1>6. xn.hi \in Word /\ xn.lo \in Word /\ Val(xn) = xn.hi * B + xn.lo  BY <1>5, ValIs
<1>. DEFINE xh == xn.hi
            xl == xn.lo
<1>7. xh \in 0..B - 1 /\ xl \in 0..B - 1 /\ Val(xn) = xh * B + xl  BY <1>6 DEF Word
<1>8. c <= B /\ Y * c < Full
  <2>1. B = c * 2^(W - s) /\ 2^(W - s) \in Nat \ {0}
    <3>1. s < W  BY <1>1, <1>3
    <3>. QED  BY <1>4, <3>1, Shifts
  <2>. DEFINE d == 2^(W - s)
  <2>. HIDE DEF d, c, s
  <2>2. c <= B
    <3>1. d \in Nat \ {0} /\ 1 <= d /\ B = c * d  BY <2>1 DEF d
    <3>. QED  BY <1>4, <3>1, TimesOne
  <2>. HIDE DEF yn, Y
  <2>3. Y * c < Full  BY <1>3, Divisor2Is
  <2>. QED  BY <2>2, <2>3
<1>. HIDE DEF s, ex, xn, yn, c, X, Y, xh, xl
<1>9. ex \in Word /\ ex \in Nat  BY <1>1, <1>4, <1>5, <1>8 DEF Word
<1>10. ex * B + xh < Val(yn)
  <2>1. (ex + 1) * B <= c * B /\ (ex + 1) * B = ex * B + B  BY <1>1, <1>4, <1>5
  <2>2. c * B <= c * Y /\ c * Y = Y * c /\ c * B \in Int /\ Y * c \in Int
    BY <1>1, <1>3, <1>4
  <2>3. ex * B \in Int  BY <1>1, <1>9
  <2>. QED  BY <1>1, <1>3, <1>7, <2>1, <2>2, <2>3
<1>11. Divides2(res, ThreeWords(ex, xh, xl), yn)
  <2>1. xh \in Word /\ xl \in Word  BY <1>6 DEF xh, xl
  <2>2. Divides2(udivrem_3by2(ex, xh, xl, yn, reciprocal_3by2(yn)), ThreeWords(ex, xh, xl), yn)
    BY <1>3, <1>9, <1>10, <2>1, Divide3by2
  <2>. QED  BY <2>2 DEF xh, xl
<1>. HIDE DEF res
<1>. DEFINE F == res.quot
            L == Val(res.rem)
<1>12. F \in Word /\ res.rem \in uint128 /\ L < Y * c /\ ThreeWords(ex, xh, xl) = F * (Y * c) + L
  BY <1>3, <1>11 DEF Divides2
<1>13. F \in Nat /\ L \in Nat
  <2>1. L \in Nat  BY <1>12, ValIs
  <2>2. F \in Nat  BY <1>1, <1>12 DEF Word
  <2>. QED  BY <2>1, <2>2
<1>14. X * c = ThreeWords(ex, xh, xl)
  <2>1. X * c = ex * Full + (xh * B + xl)  BY <1>5, <1>7
  <2>2. ex * Full \in Int /\ xh * B \in Int /\ xl \in Int  BY <1>1, <1>7, <1>9
  <2>. DEFINE a == ex * Full
              b == xh * B
  <2>3. a + (b + xl) = (a + b) + xl
    <3>. HIDE DEF a, b
    <3>1. a \in Int /\ b \in Int  BY <2>2 DEF a, b
    <3>. QED  BY <2>2, <3>1
  <2>. QED  BY <2>1, <2>3 DEF ThreeWords
<1>. DEFINE R == X - F * Y
<1>. HIDE DEF F, L
<1>15. Divided(X, Y, c, F, L, R)
  <2>1. F * (Y * c) + L = X * c  BY <1>12, <1>14
  <2>2. L < (Y * c) * 1
    <3>1. (Y * c) * 1 = Y * c  BY <1>1, <1>4
    <3>. QED  BY <1>12, <3>1
  <2>3. Y \in Nat \ {0}  BY <1>1, <1>3
  <2>. DEFINE r == R
  <2>4. r = X - F * Y  OBVIOUS
  <2>. HIDE DEF r
  <2>5. Divided(X, Y, c, F, L, r)  BY <1>1, <1>4, <1>13, <2>1, <2>2, <2>3, <2>4, Unshifted
  <2>. QED  BY <2>5 DEF r
<1>. HIDE DEF R
<1>16. L = R * c /\ R \in Nat /\ F = X \div Y /\ R = X % Y  BY <1>15 DEF Divided
<1>17. shr(res.rem, s) \in uint128 /\ Val(shr(res.rem, s)) = L \div c
  BY <1>4, <1>12, ShrIs DEF L, c
<1>18. L \div c = R
  <2>1. L = R * c + 0 /\ 0 \in 0..c - 1 /\ R \in Int /\ L \in Int  BY <1>4, <1>13, <1>16
  <2>. QED  BY <1>4, <2>1, DivModIs
<1>19. wide(F) \in uint128 /\ Val(wide(F)) = F  BY <1>12, WideIs DEF F
<1>20. udivrem128(u, v) = [quot |-> wide(F), rem |-> shr(res.rem, s)]  BY <1>2 DEF F
<1>. QED  BY <1>16, <1>17, <1>18, <1>19, <1>20 DEF Quotient128, X, Y

LEMMA Divide128 ==
    ASSUME NEW u \in uint128, NEW v \in uint128, Val(v) # 0
    PROVE  Quotient128(udivrem128(u, v), Val(u), Val(v))
<1>1. u.hi \in Nat /\ v.hi \in Nat  BY ValIs, Base DEF Word
<1>2. CASE v.hi = 0
  <2>1. v.lo # 0
    <3>1. 0 * B + 0 = 0  BY Base
    <3>. QED  BY <1>2, <3>1 DEF Val
  <2>. QED  BY <1>2, <2>1, ByOneWord
<1>3. CASE v.hi # 0 /\ v.hi > u.hi  BY <1>3, ByMore
<1>4. CASE v.hi # 0 /\ v.hi <= u.hi /\ wclz(v.hi) = 0  BY <1>4, ByHalf
<1>5. CASE v.hi # 0 /\ v.hi <= u.hi /\ wclz(v.hi) # 0  BY <1>5, ByTwoWords
<1>. QED  BY <1>1, <1>2, <1>3, <1>4, <1>5

===============================================================================

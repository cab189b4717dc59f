------------------------------- MODULE IntxProofs ------------------------------
(* The arithmetic of the 256-bit integers is that of whole numbers modulo      *)
(* 2^256, and their division is exact, for words of any width.                 *)
(*                                                                             *)
(* Lemmas are about operators and any operands; the state machine comes in     *)
(* with IInv, which every step keeps and every property of the loops follows   *)
(* from.                                                                       *)
EXTENDS Intx, Int128Proofs

-------------------------------------------------------------------------------
(* Four words.                                                                 *)

LEMMA WideIs256 == Wide = Full * Full /\ Wide \in Nat \ {0} /\ Full < Wide
<1>1. W \in Nat /\ 2 * W \in Nat /\ N * W = 2 * W + 2 * W  BY Base DEF N
<1>2. Wide = Full * Full  BY <1>1, PowerSum, FullIs DEF Wide
<1>3. Full \in Nat /\ 2 <= Full  BY Base, FullIs
<1>. DEFINE f == Full
<1>. HIDE DEF f
<1>4. f \in Nat /\ 2 <= f => f * f \in Nat \ {0} /\ f < f * f
  <2>1. ASSUME f \in Nat, 2 <= f PROVE 2 * f <= f * f  BY <2>1
  <2>. QED  BY <2>1
<1>. QED  BY <1>2, <1>3, <1>4 DEF f

(* The sum an array's words make, written out.                                 *)
LEMMA NumberIs ==
    ASSUME NEW w \in Words
    PROVE  Number(w) = w[0] + B * (w[1] + B * (w[2] + B * w[3]))
<1>. DEFINE Sums(f) == f = [i \in Nat |-> IF i \notin DOMAIN w THEN 0 ELSE w[i] + B * f[i + 1]]
            g == [i \in Nat |-> CASE i = 0 -> w[0] + B * (w[1] + B * (w[2] + B * w[3]))
                                  [] i = 1 -> w[1] + B * (w[2] + B * w[3])
                                  [] i = 2 -> w[2] + B * w[3]
                                  [] i = 3 -> w[3]
                                  [] OTHER -> 0]
            sum == CHOOSE f : Sums(f)
<1>0. DOMAIN w = {0, 1, 2, 3} /\ B \in Nat /\ w[3] \in Int
  BY Base DEF Words, Word, N
<1>1. Sums(g)
  <2>1. g[4] = 0 /\ w[3] + B * 0 = w[3]  BY <1>0
  <2>2. ASSUME NEW i \in Nat
        PROVE  g[i] = IF i \notin DOMAIN w THEN 0 ELSE w[i] + B * g[i + 1]
    <3>1. CASE i \in {0, 1, 2}  BY <1>0, <3>1
    <3>2. CASE i = 3  BY <1>0, <2>1, <3>2
    <3>3. CASE i \notin {0, 1, 2, 3}  BY <1>0, <3>3
    <3>. QED  BY <3>1, <3>2, <3>3
  <2>3. g = [i \in Nat |-> g[i]]  OBVIOUS
  <2>. HIDE DEF g
  <2>. QED  BY <2>2, <2>3
<1>. HIDE DEF g
<1>2. Sums(sum)
  <2>. HIDE DEF Sums
  <2>. QED  BY <1>1
<1>3. Number(w) = sum[0]  BY DEF Number
<1>. HIDE DEF sum
<1>4. \A i \in Nat : sum[i] = IF i \notin DOMAIN w THEN 0 ELSE w[i] + B * sum[i + 1]
  BY <1>2
<1>. HIDE DEF Sums
<1>5. sum[4] = 0  BY <1>0, <1>4
<1>6. sum[3] = w[3]
  <2>1. sum[3] = w[3] + B * sum[4]  BY <1>0, <1>4
  <2>. QED  BY <1>0, <1>5, <2>1
<1>7. sum[2] = w[2] + B * sum[3]  BY <1>0, <1>4
<1>8. sum[1] = w[1] + B * sum[2]  BY <1>0, <1>4
<1>9. sum[0] = w[0] + B * sum[1]  BY <1>0, <1>4
<1>. QED  BY <1>3, <1>6, <1>7, <1>8, <1>9

LEMMA WordsAre ==
    ASSUME NEW w \in Words
    PROVE  /\ Lower(w) \in uint128 /\ Upper(w) \in uint128
           /\ Val(Lower(w)) \in 0..Full - 1 /\ Val(Upper(w)) \in 0..Full - 1
           /\ Number(w) = Val(Upper(w)) * Full + Val(Lower(w))
           /\ Number(w) \in 0..Wide - 1 /\ Number(w) \in Int
<1>1. /\ w[0] \in Word /\ w[1] \in Word /\ w[2] \in Word /\ w[3] \in Word
  BY DEF Words, N
<1>2. /\ Lower(w) \in uint128 /\ Val(Lower(w)) = w[1] * B + w[0]
      /\ Upper(w) \in uint128 /\ Val(Upper(w)) = w[3] * B + w[2]
  BY <1>1, PairIs DEF Lower, Upper
<1>3. w[0] + B * (w[1] + B * (w[2] + B * w[3]))
        = (w[3] * B + w[2]) * (B * B) + (w[1] * B + w[0])
  BY <1>1, Base DEF Word
<1>4. Number(w) = Val(Upper(w)) * Full + Val(Lower(w))
  BY <1>2, <1>3, NumberIs DEF Full
<1>5. Val(Lower(w)) \in 0..Full - 1 /\ Val(Upper(w)) \in 0..Full - 1
  BY <1>2, ValIs
<1>6. Number(w) \in 0..Wide - 1  BY <1>4, <1>5, FullIs, LimbsIn, WideIs256
<1>7. Number(w) \in Int  BY <1>6, WideIs256
<1>. QED  BY <1>2, <1>4, <1>5, <1>6, <1>7

LEMMA JoinIs ==
    ASSUME NEW u \in uint128, NEW v \in uint128
    PROVE  /\ Join(u, v) \in Words
           /\ Lower(Join(u, v)) = v /\ Upper(Join(u, v)) = u
           /\ Number(Join(u, v)) = Val(u) * Full + Val(v)
           /\ Number(Join(u, v)) \in 0..Wide - 1
<1>. DEFINE w == Join(u, v)
<1>1. w[0] = v.lo /\ w[1] = v.hi /\ w[2] = u.lo /\ w[3] = u.hi  BY DEF Join, N
<1>2. w \in Words  BY ValIs DEF Join, Words, N
<1>3. Lower(w) = v /\ Upper(w) = u  BY <1>1, ValIs DEF Lower, Upper
<1>. QED  BY <1>2, <1>3, WordsAre

(* The halves are all there is to an array.                                    *)
LEMMA WordsEqual ==
    ASSUME NEW w \in Words, NEW z \in Words
    PROVE  w = z <=> Number(w) = Number(z)
<1>1. ASSUME Number(w) = Number(z) PROVE w = z
  <2>1. Val(Upper(w)) = Val(Upper(z)) /\ Val(Lower(w)) = Val(Lower(z))
    <3>1. Val(Upper(w)) \in Int /\ Val(Upper(z)) \in Int  BY WordsAre, FullIs
    <3>. DEFINE h == Val(Upper(w))
                k == Val(Upper(z))
                l == Val(Lower(w))
                m == Val(Lower(z))
    <3>2. h * Full + l = k * Full + m /\ l \in 0..Full - 1 /\ m \in 0..Full - 1
      BY <1>1, WordsAre
    <3>. HIDE DEF h, k, l, m
    <3>. DEFINE f == Full
    <3>3. f \in Nat \ {0} /\ l \in 0..f - 1 /\ m \in 0..f - 1 /\ h \in Int /\ k \in Int
          /\ h * f + l = k * f + m
      BY <3>1, <3>2, FullIs DEF h, k
    <3>. HIDE DEF f
    <3>4. h * f + l = k * f + m <=> h = k /\ l = m  BY <3>3, LimbsLess
    <3>. QED  BY <3>3, <3>4 DEF h, k, l, m
  <2>2. Upper(w) = Upper(z) /\ Lower(w) = Lower(z)  BY <2>1, WordsAre, LessIs
  <2>3. w[0] = z[0] /\ w[1] = z[1] /\ w[2] = z[2] /\ w[3] = z[3]
    BY <2>2 DEF Upper, Lower
  <2>. QED  BY <2>3 DEF Words, N
<1>. QED  BY <1>1

-------------------------------------------------------------------------------
(* The operations.                                                             *)

LEMMA BitIs ==
    ASSUME NEW c \in BOOLEAN
    PROVE  Bit(c) \in {0, 1} /\ Bit(c) \in Word /\ Bit(c) \in 0..Full - 1
           /\ wide(Bit(c)) \in uint128 /\ Val(wide(Bit(c))) = Bit(c)
<1>1. Bit(c) \in {0, 1}  BY DEF Bit
<1>2. Bit(c) \in Word /\ Bit(c) \in 0..Full - 1  BY <1>1, Base, FullIs DEF Word
<1>. QED  BY <1>1, <1>2, WideIs

(* The halves are added, and the carry of the low ones to the high ones.       *)
LEMMA AddIs ==
    ASSUME NEW w \in Words, NEW z \in Words
    PROVE  /\ Plus(w, z) \in Words /\ Number(Plus(w, z)) = (Number(w) + Number(z)) % Wide
           /\ add_with_carry(w, z).carry \in BOOLEAN
           /\ add_with_carry(w, z).carry <=> Number(w) + Number(z) >= Wide
<1>. DEFINE lo == plus(Lower(w), Lower(z))
            carry == less(lo, Lower(w))
            tt == plus(Upper(w), Upper(z))
            hi == plus(tt, wide(Bit(carry)))
            h == Val(Upper(w))
            l == Val(Lower(w))
            k == Val(Upper(z))
            m == Val(Lower(z))
            c == Bit(carry)
            d == Bit(less(tt, Upper(w)))
            e == Bit(less(hi, tt))
            vl == Val(lo)
            vt == Val(tt)
            vh == Val(hi)
            sum == Number(w) + Number(z)
            res == vh * Full + vl
<1>0. Full \in Nat \ {0} /\ Full \in Int  BY FullIs
<1>1. /\ h \in 0..Full - 1 /\ l \in 0..Full - 1 /\ k \in 0..Full - 1 /\ m \in 0..Full - 1
      /\ Number(w) = h * Full + l /\ Number(z) = k * Full + m
  BY WordsAre
<1>2. lo \in uint128 /\ vl \in 0..Full - 1 /\ l + m = vl + c * Full /\ c \in {0, 1}
  <2>1. lo \in uint128 /\ vl = (l + m) % Full  BY WordsAre, PlusIs
  <2>2. carry <=> l > vl
    <3>1. carry <=> vl < l  BY <2>1, WordsAre, LessIs
    <3>2. vl \in Int /\ l \in Int  BY <2>1, <1>0, <1>1, ValIs
    <3>. QED  BY <3>1, <3>2
  <2>. HIDE DEF vl, l, m, carry, lo
  <2>. DEFINE f == Full
  <2>. HIDE DEF f
  <2>3. f \in Nat \ {0} /\ l \in 0..f - 1 /\ m \in 0..f - 1 /\ vl = (l + m) % f
    BY <1>0, <1>1, <2>1 DEF f
  <2>4. SumOf(vl, l, m, f)  BY <2>3, SumWraps
  <2>. QED  BY <2>1, <2>2, <2>4 DEF Bit, SumOf, f
<1>3. tt \in uint128 /\ vt \in 0..Full - 1 /\ h + k = vt + d * Full /\ d \in {0, 1}
  <2>1. tt \in uint128 /\ vt = (h + k) % Full  BY WordsAre, PlusIs
  <2>2. less(tt, Upper(w)) <=> h > vt
    <3>1. less(tt, Upper(w)) <=> vt < h  BY <2>1, WordsAre, LessIs
    <3>2. vt \in Int /\ h \in Int  BY <2>1, <1>0, <1>1, ValIs
    <3>. QED  BY <3>1, <3>2
  <2>. HIDE DEF vt, h, k, tt
  <2>. DEFINE f == Full
  <2>. HIDE DEF f
  <2>3. f \in Nat \ {0} /\ h \in 0..f - 1 /\ k \in 0..f - 1 /\ vt = (h + k) % f
    BY <1>0, <1>1, <2>1 DEF f
  <2>4. SumOf(vt, h, k, f)  BY <2>3, SumWraps
  <2>. QED  BY <2>1, <2>2, <2>4 DEF Bit, SumOf, f
<1>4. hi \in uint128 /\ vh \in 0..Full - 1 /\ vt + c = vh + e * Full /\ e \in {0, 1}
  <2>0. carry \in BOOLEAN  BY DEF less
  <2>1. c \in 0..Full - 1 /\ wide(c) \in uint128 /\ Val(wide(c)) = c
    BY <2>0, BitIs
  <2>2. hi \in uint128 /\ vh = (vt + c) % Full
    <3>. HIDE DEF c, tt
    <3>1. hi \in uint128 /\ vh = (Val(tt) + Val(wide(c))) % Full
      BY <2>1, <1>3, PlusIs DEF c
    <3>. QED  BY <2>1, <3>1
  <2>3. less(hi, tt) <=> vt > vh
    <3>1. less(hi, tt) <=> vh < vt  BY <2>2, <1>3, LessIs
    <3>2. vh \in Int /\ vt \in Int  BY <2>2, <1>0, <1>3, ValIs
    <3>. QED  BY <3>1, <3>2
  <2>. HIDE DEF vt, vh, c, tt, hi
  <2>4. vh \in 0..Full - 1 /\ vt + c = vh + (IF vt > vh THEN 1 ELSE 0) * Full
    <3>1. vt \in 0..Full - 1 /\ c \in 0..Full - 1 /\ vh = (vt + c) % Full
      BY <1>3, <2>1, <2>2
    <3>2. SumOf(vh, vt, c, Full)  BY <1>0, <3>1, SumWraps
    <3>. QED  BY <3>2 DEF SumOf
  <2>. QED  BY <2>2, <2>3, <2>4 DEF Bit
<1>5. /\ add_with_carry(w, z).value = Join(hi, lo)
      /\ add_with_carry(w, z).carry = (less(tt, Upper(w)) \/ less(hi, tt))
  BY DEF add_with_carry
<1>6. add_with_carry(w, z).carry \in BOOLEAN
      /\ (add_with_carry(w, z).carry <=> d = 1 \/ e = 1)
  <2>1. d = 1 <=> less(tt, Upper(w))  BY DEF Bit
  <2>2. e = 1 <=> less(hi, tt)  BY DEF Bit
  <2>3. less(tt, Upper(w)) \in BOOLEAN /\ less(hi, tt) \in BOOLEAN  BY DEF less
  <2>. HIDE DEF d, e, tt, hi
  <2>. QED  BY <1>5, <2>1, <2>2, <2>3
<1>7. Plus(w, z) \in Words /\ Number(Plus(w, z)) = res /\ res \in 0..Wide - 1
  BY <1>2, <1>4, <1>5, JoinIs DEF Plus
<1>. HIDE DEF lo, carry, tt, hi, h, l, k, m, c, d, e, vl, vt, vh
<1>8. sum = (d + e) * Wide + res
  <2>. DEFINE f == Full
  <2>0. f \in Int /\ Wide = f * f  BY <1>0, WideIs256
  <2>. HIDE DEF f
  <2>1. /\ h \in Int /\ k \in Int /\ l \in Int /\ m \in Int /\ c \in Int /\ d \in Int
        /\ e \in Int /\ vl \in Int /\ vt \in Int /\ vh \in Int
    BY <1>1, <1>2, <1>3, <1>4
  <2>2. h + k + c = vh + (d + e) * f
    <3>1. (d + e) * f = d * f + e * f /\ d * f \in Int /\ e * f \in Int  BY <2>0, <2>1
    <3>. QED  BY <1>3, <1>4, <2>1, <3>1 DEF f
  <2>3. (h * f + l) + (k * f + m) = (h + k + c) * f + vl
    <3>1. (h + k + c) * f = h * f + k * f + c * f  BY <2>0, <2>1
    <3>2. l + m = vl + c * f  BY <1>2 DEF f
    <3>3. h * f \in Int /\ k * f \in Int /\ c * f \in Int  BY <2>0, <2>1
    <3>. QED  BY <2>1, <3>1, <3>2, <3>3
  <2>4. (vh + (d + e) * f) * f + vl = (d + e) * (f * f) + (vh * f + vl)
    BY <2>0, <2>1
  <2>. QED  BY <1>1, <2>0, <2>2, <2>3, <2>4 DEF f
<1>9. sum \in Int /\ d + e \in Int /\ Wide \in Nat \ {0}
  BY <1>3, <1>4, WordsAre, WideIs256
<1>. HIDE DEF sum, res
<1>10. sum % Wide = res  BY <1>7, <1>8, <1>9, DivModIs
<1>11. d = 1 \/ e = 1 <=> sum >= Wide
  <2>1. CASE d = 0 /\ e = 0
    <3>1. (d + e) * Wide = 0  BY <1>9, <2>1
    <3>. QED  BY <1>7, <1>8, <1>9, <2>1, <3>1
  <2>2. CASE d = 1 \/ e = 1
    <3>1. (d + e) * Wide >= Wide /\ (d + e) * Wide \in Int
      <4>1. d + e >= 1  BY <1>3, <1>4, <2>2
      <4>. QED  BY <1>9, <4>1
    <3>. QED  BY <1>7, <1>8, <1>9, <2>2, <3>1
  <2>. QED  BY <1>3, <1>4, <2>1, <2>2
<1>. QED  BY <1>6, <1>7, <1>10, <1>11 DEF sum

LEMMA OneIs == One \in Words /\ Number(One) = 1 /\ Zero \in Words /\ Number(Zero) = 0
<1>1. 1 \in Word /\ 0 * Full + 1 = 1 /\ 0 * Full + 0 = 0  BY Base, FullIs DEF Word
<1>2. wide(1) \in uint128 /\ Val(wide(1)) = 1  BY <1>1, WideIs
<1>. QED  BY <1>1, <1>2, ZeroIs, JoinIs DEF One, Zero

(* Two's complement.                                                           *)
LEMMA NegateIs ==
    ASSUME NEW w \in Words
    PROVE  Negate(w) \in Words /\ Number(Negate(w)) = (-Number(w)) % Wide
<1>. DEFINE Inverts(u) == invert(u) \in uint128 /\ Val(invert(u)) = Full - 1 - Val(u)
            z == Join(invert(Upper(w)), invert(Lower(w)))
            n == Number(w)
<1>1. ASSUME NEW u \in uint128 PROVE Inverts(u)
  <2>1. B - 1 - u.hi \in Word /\ B - 1 - u.lo \in Word  BY ValIs, Base DEF Word
  <2>2. (B - 1 - u.hi) * B + (B - 1 - u.lo) = B * B - 1 - (u.hi * B + u.lo)
    BY ValIs, Base
  <2>. QED  BY <2>1, <2>2, PairIs, ValIs DEF invert, Full
<1>2. Inverts(Upper(w)) /\ Inverts(Lower(w))  BY <1>1, WordsAre
<1>3. z \in Words /\ Number(z) = Wide - 1 - n
  <2>. DEFINE h == Val(Upper(w))
              l == Val(Lower(w))
              f == Full
  <2>1. z \in Words /\ Number(z) = (f - 1 - h) * f + (f - 1 - l)  BY <1>2, JoinIs
  <2>2. h \in Int /\ l \in Int /\ f \in Int /\ n = h * f + l /\ Wide = f * f
    <3>1. h \in 0..f - 1 /\ l \in 0..f - 1 /\ f \in Int /\ n = h * f + l
      BY WordsAre, FullIs
    <3>. QED  BY <3>1, WideIs256
  <2>. HIDE DEF h, l, f, z, n
  <2>3. (f - 1 - h) * f + (f - 1 - l) = f * f - 1 - (h * f + l)  BY <2>2
  <2>. QED  BY <2>1, <2>2, <2>3
<1>4. Plus(z, One) \in Words /\ Number(Plus(z, One)) = (Number(z) + 1) % Wide
  BY <1>3, OneIs, AddIs
<1>5. n \in Int /\ Wide \in Nat \ {0}  BY WordsAre, WideIs256
<1>6. (-n) % Wide = (Number(z) + 1) % Wide
  <2>. DEFINE m == -n
              t == Number(z) + 1
  <2>1. m \in Int /\ 1 \in Int /\ t = m + 1 * Wide  BY <1>3, <1>5
  <2>. HIDE DEF m, t
  <2>2. (m + 1 * Wide) % Wide = m % Wide  BY <1>5, <2>1, ModShift
  <2>. QED  BY <2>1, <2>2 DEF m, t
<1>. QED  BY <1>4, <1>6 DEF Negate

LEMMA SubtractIs ==
    ASSUME NEW w \in Words, NEW z \in Words
    PROVE  Minus(w, z) \in Words /\ Number(Minus(w, z)) = (Number(w) - Number(z)) % Wide
<1>. DEFINE n == Number(w)
            k == Number(z)
            e == -k
<1>1. n \in Int /\ k \in Int /\ e \in Int /\ Wide \in Nat \ {0}  BY WordsAre, WideIs256
<1>2. Minus(w, z) \in Words /\ Number(Minus(w, z)) = (n + (e % Wide)) % Wide
  BY NegateIs, AddIs DEF Minus
<1>. HIDE DEF n, k, e
<1>3. e % Wide \in Int  BY <1>1, DivMod
<1>4. n + (e % Wide) = (e % Wide) + n  BY <1>1, <1>3
<1>5. ((e % Wide) + n) % Wide = (e + n) % Wide  BY <1>1, ModPlus
<1>6. e + n = n - k  BY <1>1 DEF e
<1>. QED  BY <1>2, <1>4, <1>5, <1>6 DEF n, k

LEMMA LessThan ==
    ASSUME NEW w \in Words, NEW z \in Words
    PROVE  Less(w, z) \in BOOLEAN /\ (Less(w, z) <=> Number(w) < Number(z))
<1>. DEFINE h == Val(Upper(w))
            k == Val(Upper(z))
            l == Val(Lower(w))
            m == Val(Lower(z))
<1>1. /\ less(Upper(w), Upper(z)) <=> h < k
      /\ Upper(w) = Upper(z) <=> h = k
      /\ less(Lower(w), Lower(z)) <=> l < m
  BY WordsAre, LessIs
<1>2. /\ h \in 0..Full - 1 /\ k \in 0..Full - 1 /\ l \in 0..Full - 1 /\ m \in 0..Full - 1
      /\ Number(w) = h * Full + l /\ Number(z) = k * Full + m
  BY WordsAre
<1>3. h \in Int /\ k \in Int  BY <1>2, FullIs
<1>. HIDE DEF h, k, l, m
<1>4. Number(w) < Number(z) <=> h < k \/ (h = k /\ l < m)
  <2>. DEFINE f == Full
  <2>1. f \in Nat \ {0} /\ l \in 0..f - 1 /\ m \in 0..f - 1  BY <1>2, FullIs
  <2>. HIDE DEF f
  <2>2. h * f + l < k * f + m <=> h < k \/ (h = k /\ l < m)
    BY <1>3, <2>1, LimbsLess
  <2>. QED  BY <1>2, <2>2 DEF f
<1>5. Less(w, z) \in BOOLEAN  BY DEF Less, less
<1>. QED  BY <1>1, <1>4, <1>5 DEF Less

(* Shifts: Shl and Shr of halves as shl and shr of words.                      *)

LEMMA Wider == 2 * W \in Nat \ {0} /\ 2^(2 * W) = Full /\ N * W = 2 * (2 * W)
BY Base, FullIs DEF N

LEMMA ShiftLeft ==
    ASSUME NEW w \in Words, NEW s \in Nat
    PROVE  Shl(w, s) \in Words /\ Number(Shl(w, s)) = (Number(w) * 2^s) % Wide
<1>. DEFINE V == 2 * W
            U == Upper(w)
            L == Lower(w)
            h == Val(U)
            l == Val(L)
            c == 2^s
            f == Full
<1>0. /\ V \in Nat \ {0} /\ N * W = 2 * V
      /\ f \in Nat \ {0} /\ f \in Nat /\ f = 2^V /\ Wide = f * f /\ Wide \in Nat \ {0}
      /\ U \in uint128 /\ L \in uint128
      /\ h \in 0..f - 1 /\ l \in 0..f - 1 /\ Number(w) = h * f + l
      /\ Number(w) \in 0..Wide - 1
  BY Wider, FullIs, WideIs256, WordsAre
<1>1. h \in Int /\ l \in Int /\ l \in Nat /\ c \in Nat \ {0}
  <2>1. c \in Nat \ {0}  BY <1>0, PowerSplits
  <2>. HIDE DEF h, l, c, f
  <2>. QED  BY <1>0, <2>1
<1>2. shl(L, s) \in uint128 /\ Val(shl(L, s)) = (l * c) % f  BY <1>0, ShlIs
<1>3. CASE s < V
  <2>. DEFINE d == 2^(V - s)
              a == V - s - 1
              part == shr(shr(L, a), 1)
              top == plus(shl(U, s), part)
  <2>1. f = c * d /\ d \in Nat \ {0} /\ d = 2^1 * 2^(V - 1 - s)
        /\ 2^1 \in Nat \ {0} /\ 2^(V - 1 - s) \in Nat \ {0}
    <3>1. V \in Nat \ {0} /\ s < V /\ f = 2^V  BY <1>0, <1>3
    <3>. HIDE DEF V, f
    <3>. QED  BY <3>1, PowerSplits DEF c, d
  <2>2. a \in Nat /\ a = V - 1 - s  BY <1>0, <1>3
  <2>3. part \in uint128 /\ Val(part) = l \div d
    <3>. DEFINE e == 2^a
                g == 2^1
    <3>1. e \in Nat \ {0} /\ g \in Nat \ {0} /\ d = e * g
      <4>. DEFINE t == 2^(V - 1 - s)
      <4>1. e = t  BY <2>2
      <4>2. g * t = t * g
        <5>1. t \in Int /\ g \in Int  BY <2>1
        <5>. HIDE DEF t, g
        <5>. QED  BY <5>1
      <4>. QED  BY <2>1, <4>1, <4>2
    <3>2. shr(L, a) \in uint128 /\ Val(shr(L, a)) = l \div e  BY <1>0, <2>2, ShrIs
    <3>3. part \in uint128 /\ Val(part) = Val(shr(L, a)) \div g  BY <3>2, ShrIs
    <3>. HIDE DEF d, e, g, l, part, a, L
    <3>4. (l \div e) \div g = l \div d  BY <1>1, <3>1, DivDiv
    <3>. QED  BY <3>2, <3>3, <3>4
  <2>4. shl(U, s) \in uint128 /\ Val(shl(U, s)) = (h * c) % f  BY <1>0, ShlIs
  <2>5. top \in uint128 /\ Val(top) = (((h * c) % f) + (l \div d)) % f
    <3>1. top \in uint128 /\ Val(top) = (Val(shl(U, s)) + Val(part)) % f
      <4>. HIDE DEF part
      <4>. QED  BY <2>3, <2>4, PlusIs
    <3>. HIDE DEF part, top, d, c, h, l, f, U
    <3>. QED  BY <2>3, <2>4, <3>1
  <2>6. Shl(w, s) = Join(top, shl(L, s))  BY <1>3 DEF Shl
  <2>. HIDE DEF h, l, c, d, f
  <2>7. UpByPart(h, l, f, c, d)  BY <1>0, <1>1, <2>1, LimbsUp
  <2>. DEFINE hi == ((h * c) % f) + (l \div d)
              lo == (l * c) % f
  <2>8. hi \in 0..f - 1 /\ hi * f + lo = (Number(w) * c) % Wide
    BY <1>0, <2>7 DEF UpByPart
  <2>9. Val(top) = hi
    <3>. HIDE DEF hi, top
    <3>1. hi % f = hi  BY <1>0, <2>8, ModSelf
    <3>. QED  BY <2>5, <3>1 DEF hi
  <2>10. Val(shl(L, s)) = lo  BY <1>2
  <2>. HIDE DEF hi, lo, top
  <2>11. Shl(w, s) \in Words /\ Number(Shl(w, s)) = hi * f + lo
    BY <1>2, <2>5, <2>6, <2>9, <2>10, JoinIs DEF f
  <2>. QED  BY <2>8, <2>11 DEF c
<1>4. CASE s >= V /\ s < N * W
  <2>. DEFINE a == s - V
              d == 2^a
              part == shl(L, a)
  <2>1. c = f * d /\ d \in Nat \ {0} /\ a \in Nat
    <3>1. V \in Nat \ {0} /\ s >= V /\ f = 2^V  BY <1>0, <1>4
    <3>2. a \in Nat
      <4>. HIDE DEF V
      <4>. QED  BY <3>1
    <3>. HIDE DEF V, f
    <3>3. 2^s = 2^V * 2^(s - V) /\ 2^(s - V) \in Nat \ {0}  BY <3>1, PowerSplits
    <3>. QED  BY <3>1, <3>2, <3>3
  <2>2. ~ s < V  BY <1>0, <1>4
  <2>3. Shl(w, s) = Join(part, zero)  BY <1>4, <2>2 DEF Shl
  <2>4. part \in uint128 /\ Val(part) = (l * d) % f
    <3>. HIDE DEF a
    <3>. QED  BY <1>0, <2>1, ShlIs
  <2>. HIDE DEF h, l, c, d, f, part
  <2>5. UpByLimb(h, l, f, d)
    <3>1. d \in Nat  BY <2>1
    <3>. QED  BY <1>0, <1>1, <3>1, LimbUp
  <2>6. Val(part) * f = (Number(w) * c) % Wide
    BY <1>0, <2>1, <2>4, <2>5 DEF UpByLimb
  <2>7. Shl(w, s) \in Words /\ Number(Shl(w, s)) = Val(part) * f + 0
    BY <2>3, <2>4, ZeroIs, JoinIs DEF f
  <2>8. Val(part) * f + 0 = Val(part) * f
    <3>1. Val(part) \in Int  BY <2>4, ValIs
    <3>. QED  BY <1>0, <3>1
  <2>. QED  BY <2>6, <2>7, <2>8 DEF c
<1>5. CASE s >= N * W
  <2>1. N * W \in Nat \ {0} /\ ~ s < V /\ ~ s < N * W  BY <1>0, <1>5
  <2>2. c = Wide * 2^(s - N * W) /\ 2^(s - N * W) \in Nat \ {0}
    BY <1>5, <2>1, PowerSplits DEF Wide
  <2>3. Shl(w, s) = Zero  BY <2>1 DEF Shl
  <2>. HIDE DEF c
  <2>4. (Number(w) * c) % Wide = 0
    <3>. DEFINE n == Number(w)
                v == Wide
                e == 2^(s - N * W)
    <3>1. n \in 0..v - 1 /\ v \in Nat \ {0} /\ e \in Nat \ {0} /\ c = v * e
      BY <1>0, <2>2
    <3>. HIDE DEF n, v, e
    <3>2. (n * (v * e)) % v = 0  BY <3>1, ShiftedOut
    <3>. QED  BY <3>1, <3>2 DEF n, v
  <2>. QED  BY <2>3, <2>4, OneIs DEF c
<1>6. s < V \/ (s >= V /\ s < N * W) \/ s >= N * W  BY <1>0
<1>. QED  BY <1>3, <1>4, <1>5, <1>6

LEMMA ShiftRight ==
    ASSUME NEW w \in Words, NEW s \in Nat
    PROVE  Shr(w, s) \in Words /\ Number(Shr(w, s)) = Number(w) \div 2^s
<1>. DEFINE V == 2 * W
            U == Upper(w)
            L == Lower(w)
            h == Val(U)
            l == Val(L)
            c == 2^s
            f == Full
<1>0. /\ V \in Nat \ {0} /\ N * W = 2 * V
      /\ f \in Nat \ {0} /\ f \in Nat /\ f = 2^V /\ Wide = f * f /\ Wide \in Nat \ {0}
      /\ U \in uint128 /\ L \in uint128
      /\ h \in 0..f - 1 /\ l \in 0..f - 1 /\ Number(w) = h * f + l
      /\ Number(w) \in 0..Wide - 1
  BY Wider, FullIs, WideIs256, WordsAre
<1>1. h \in Int /\ l \in Int /\ h \in Nat /\ c \in Nat \ {0}
  <2>1. c \in Nat \ {0}  BY <1>0, PowerSplits
  <2>. HIDE DEF h, l, c, f
  <2>. QED  BY <1>0, <2>1
<1>2. shr(U, s) \in uint128 /\ Val(shr(U, s)) = h \div c  BY <1>0, ShrIs
<1>3. CASE s < V
  <2>. DEFINE d == 2^(V - s)
              a == V - s - 1
              part == shl(shl(U, a), 1)
              low == plus(shr(L, s), part)
  <2>1. f = c * d /\ d \in Nat \ {0} /\ d = 2^1 * 2^(V - 1 - s)
        /\ 2^1 \in Nat \ {0} /\ 2^(V - 1 - s) \in Nat \ {0}
    <3>1. V \in Nat \ {0} /\ s < V /\ f = 2^V  BY <1>0, <1>3
    <3>. HIDE DEF V, f
    <3>. QED  BY <3>1, PowerSplits DEF c, d
  <2>2. a \in Nat /\ a = V - 1 - s  BY <1>0, <1>3
  <2>3. part \in uint128 /\ Val(part) = (h * d) % f
    <3>. DEFINE e == 2^a
                g == 2^1
                he == h * e
    <3>1. e \in Int /\ g \in Int /\ d = e * g
      <4>. DEFINE t == 2^(V - 1 - s)
      <4>1. e = t  BY <2>2
      <4>2. g * t = t * g /\ t \in Int /\ g \in Int
        <5>1. t \in Int /\ g \in Int  BY <2>1
        <5>. HIDE DEF t, g
        <5>. QED  BY <5>1
      <4>. QED  BY <2>1, <4>1, <4>2
    <3>2. shl(U, a) \in uint128 /\ Val(shl(U, a)) = he % f  BY <1>0, <2>2, ShlIs
    <3>3. part \in uint128 /\ Val(part) = (Val(shl(U, a)) * g) % f  BY <3>2, ShlIs
    <3>. HIDE DEF d, e, g, h, part, a, U, f
    <3>4. he \in Int /\ he * g = h * d  BY <1>1, <3>1
    <3>. HIDE DEF he
    <3>5. ((he % f) * g) % f = (he * g) % f  BY <1>0, <3>1, <3>4, ModTimes
    <3>. QED  BY <3>2, <3>3, <3>4, <3>5
  <2>4. shr(L, s) \in uint128 /\ Val(shr(L, s)) = l \div c  BY <1>0, ShrIs
  <2>5. low \in uint128 /\ Val(low) = ((l \div c) + ((h * d) % f)) % f
    <3>1. low \in uint128 /\ Val(low) = (Val(shr(L, s)) + Val(part)) % f
      <4>. HIDE DEF part
      <4>. QED  BY <2>3, <2>4, PlusIs
    <3>. HIDE DEF part, low, d, c, h, l, f, L
    <3>. QED  BY <2>3, <2>4, <3>1
  <2>6. Shr(w, s) = Join(shr(U, s), low)  BY <1>3 DEF Shr
  <2>. HIDE DEF h, l, c, d, f
  <2>7. DownByPart(h, l, f, c, d)  BY <1>0, <1>1, <2>1, LimbsDown
  <2>. DEFINE lo == (l \div c) + ((h * d) % f)
              hi == h \div c
  <2>8. lo \in 0..f - 1 /\ hi * f + lo = Number(w) \div c
    BY <1>0, <2>7 DEF DownByPart
  <2>9. Val(low) = lo
    <3>. HIDE DEF lo, low
    <3>1. lo % f = lo  BY <1>0, <2>8, ModSelf
    <3>. QED  BY <2>5, <3>1 DEF lo
  <2>10. Val(shr(U, s)) = hi  BY <1>2
  <2>. HIDE DEF hi, lo, low
  <2>11. Shr(w, s) \in Words /\ Number(Shr(w, s)) = hi * f + lo
    BY <1>2, <2>5, <2>6, <2>9, <2>10, JoinIs DEF f
  <2>. QED  BY <2>8, <2>11 DEF c
<1>4. CASE s >= V /\ s < N * W
  <2>. DEFINE a == s - V
              d == 2^a
              part == shr(U, a)
  <2>1. c = f * d /\ d \in Nat \ {0} /\ a \in Nat
    <3>1. V \in Nat \ {0} /\ s >= V /\ f = 2^V  BY <1>0, <1>4
    <3>2. a \in Nat
      <4>. HIDE DEF V
      <4>. QED  BY <3>1
    <3>. HIDE DEF V, f
    <3>3. 2^s = 2^V * 2^(s - V) /\ 2^(s - V) \in Nat \ {0}  BY <3>1, PowerSplits
    <3>. QED  BY <3>1, <3>2, <3>3
  <2>2. ~ s < V  BY <1>0, <1>4
  <2>3. Shr(w, s) = Join(zero, part)  BY <1>4, <2>2 DEF Shr
  <2>4. part \in uint128 /\ Val(part) = h \div d
    <3>. HIDE DEF a
    <3>. QED  BY <1>0, <2>1, ShrIs
  <2>. HIDE DEF h, l, c, d, f, part
  <2>5. DownByLimb(h, l, f, d)  BY <1>0, <1>1, <2>1, LimbDown
  <2>6. Val(part) = Number(w) \div c  BY <1>0, <2>1, <2>4, <2>5 DEF DownByLimb
  <2>7. Shr(w, s) \in Words /\ Number(Shr(w, s)) = 0 * f + Val(part)
    BY <2>3, <2>4, ZeroIs, JoinIs DEF f
  <2>8. 0 * f + Val(part) = Val(part)
    <3>1. Val(part) \in Int  BY <2>4, ValIs
    <3>. QED  BY <1>0, <3>1
  <2>. QED  BY <2>6, <2>7, <2>8 DEF c
<1>5. CASE s >= N * W
  <2>1. N * W \in Nat \ {0} /\ ~ s < V /\ ~ s < N * W  BY <1>0, <1>5
  <2>2. c = Wide * 2^(s - N * W) /\ 2^(s - N * W) \in Nat \ {0}
    BY <1>5, <2>1, PowerSplits DEF Wide
  <2>3. Shr(w, s) = Zero  BY <2>1 DEF Shr
  <2>. HIDE DEF c
  <2>4. Number(w) \div c = 0  BY <1>0, <2>2, ShiftedOut
  <2>. QED  BY <2>3, <2>4, OneIs DEF c
<1>6. s < V \/ (s >= V /\ s < N * W) \/ s >= N * W  BY <1>0
<1>. QED  BY <1>3, <1>4, <1>5, <1>6

(* The product of two halves is whole: nothing its middle words carry is lost. *)
LEMMA ProductIs ==
    ASSUME NEW u \in uint128, NEW v \in uint128
    PROVE  /\ Umul(u, v) \in Words /\ Number(Umul(u, v)) = Val(u) * Val(v)
<1>. DEFINE t0 == umul(u.lo, v.lo)
            t1 == umul(u.hi, v.lo)
            t2 == umul(u.lo, v.hi)
            t3 == umul(u.hi, v.hi)
            u1 == plus(t1, wide(t0.hi))
            u2 == plus(t2, wide(u1.lo))
            top == plus(plus(t3, wide(u2.hi)), wide(u1.hi))
            low == plus(shl(u2, W), wide(t0.lo))
            a == u.hi
            b == u.lo
            c == v.hi
            d == v.lo
<1>0. /\ B \in Nat \ {0} /\ Full \in Nat \ {0} /\ Full = B * B
      /\ a \in Word /\ b \in Word /\ c \in Word /\ d \in Word
      /\ Val(u) = a * B + b /\ Val(v) = c * B + d
  BY Base, FullIs, ValIs DEF Full
<1>1. /\ t0 \in uint128 /\ Val(t0) = b * d /\ t1 \in uint128 /\ Val(t1) = a * d
      /\ t2 \in uint128 /\ Val(t2) = b * c /\ t3 \in uint128 /\ Val(t3) = a * c
  BY <1>0, UmulIs
(* A product of words leaves room for two more words.                          *)
<1>2. ASSUME NEW e \in Word, NEW g \in Word
      PROVE  e * g \in Nat /\ e * g <= Full - 2 * B + 1
  <2>1. e \in 0..B - 1 /\ g \in 0..B - 1 /\ B - 1 \in Nat  BY <1>0 DEF Word
  <2>2. e * g <= (B - 1) * g /\ (B - 1) * g <= (B - 1) * (B - 1) /\ e * g \in Nat
    BY <2>1
  <2>3. (B - 1) * (B - 1) = B * B - 2 * B + 1  BY <1>0
  <2>4. (B - 1) * g \in Int /\ B * B \in Int  BY <1>0, <2>1
  <2>. QED  BY <1>0, <2>2, <2>3, <2>4
<1>3. ASSUME NEW p \in uint128, NEW e \in Word, Val(p) + e < Full
      PROVE  plus(p, wide(e)) \in uint128 /\ Val(plus(p, wide(e))) = Val(p) + e
  <2>1. wide(e) \in uint128 /\ Val(wide(e)) = e  BY WideIs
  <2>2. plus(p, wide(e)) \in uint128 /\ Val(plus(p, wide(e))) = (Val(p) + e) % Full
    BY <2>1, PlusIs
  <2>. DEFINE k == Val(p) + e
  <2>3. k \in 0..Full - 1  BY <1>0, <1>3, ValIs DEF Word
  <2>. HIDE DEF k
  <2>4. k % Full = k  BY <1>0, <2>3, ModSelf
  <2>. QED  BY <2>2, <2>4 DEF k
<1>. HIDE DEF a, b, c, d
<1>4. u1 \in uint128 /\ Val(u1) = a * d + t0.hi
  <2>1. t0.hi \in Word /\ a * d \in Nat /\ a * d <= Full - 2 * B + 1
    BY <1>0, <1>1, <1>2, ValIs
  <2>2. Val(t1) + t0.hi < Full  BY <1>0, <1>1, <2>1 DEF Word
  <2>. HIDE DEF t0, t1
  <2>. QED  BY <1>1, <1>3, <2>1, <2>2
<1>5. u2 \in uint128 /\ Val(u2) = b * c + u1.lo
  <2>. HIDE DEF t2, u1
  <2>1. u1.lo \in Word /\ b * c \in Nat /\ b * c <= Full - 2 * B + 1
    BY <1>0, <1>2, <1>4, ValIs
  <2>2. Val(t2) + u1.lo < Full  BY <1>0, <1>1, <2>1 DEF Word
  <2>. QED  BY <1>1, <1>3, <2>1, <2>2
<1>6. top \in uint128 /\ Val(top) = a * c + u2.hi + u1.hi
  <2>. HIDE DEF t3, u1, u2
  <2>1. u1.hi \in Word /\ u2.hi \in Word /\ a * c \in Nat /\ a * c <= Full - 2 * B + 1
    BY <1>0, <1>2, <1>4, <1>5, ValIs
  <2>2. Val(t3) + u2.hi < Full /\ a * c + u2.hi + u1.hi < Full
    BY <1>0, <1>1, <2>1 DEF Word
  <2>3. plus(t3, wide(u2.hi)) \in uint128 /\ Val(plus(t3, wide(u2.hi))) = a * c + u2.hi
    BY <1>1, <1>3, <2>1, <2>2
  <2>. DEFINE p == plus(t3, wide(u2.hi))
  <2>4. p \in uint128 /\ Val(p) + u1.hi < Full  BY <2>2, <2>3
  <2>. HIDE DEF p
  <2>5. plus(p, wide(u1.hi)) \in uint128 /\ Val(plus(p, wide(u1.hi))) = Val(p) + u1.hi
    BY <1>3, <2>1, <2>4
  <2>. QED  BY <2>3, <2>5 DEF p
<1>7. low \in uint128 /\ Val(low) = u2.lo * B + t0.lo
  <2>. HIDE DEF u2, t0
  <2>1. shl(u2, W) = [hi |-> u2.lo, lo |-> 0]
    <3>1. W \in Nat \ {0}  BY Base
    <3>2. ~ W < W /\ W < 2 * W /\ W - W = 0  BY <3>1
    <3>3. 2^0 = 1 /\ u2.lo * 1 = u2.lo /\ u2.lo % B = u2.lo
      BY <1>0, <1>5, ValIs, ModSelf
    <3>. QED  BY <3>2, <3>3 DEF shl, wshl
  <2>2. u2.lo \in Word /\ t0.lo \in Word /\ 0 \in Word  BY <1>0, <1>1, <1>5, ValIs DEF Word
  <2>3. shl(u2, W) \in uint128 /\ Val(shl(u2, W)) = u2.lo * B
    <3>1. u2.lo * B + 0 = u2.lo * B  BY <1>0, <2>2 DEF Word
    <3>. QED  BY <2>1, <2>2, <3>1, PairIs
  <2>4. u2.lo * B + t0.lo < Full
    <3>1. u2.lo \in 0..B - 1 /\ t0.lo \in 0..B - 1  BY <2>2 DEF Word
    <3>2. u2.lo * B + t0.lo \in 0..B * B - 1  BY <1>0, <3>1, LimbsIn
    <3>. QED  BY <1>0, <3>2
  <2>. DEFINE p == shl(u2, W)
              e == t0.lo
  <2>. HIDE DEF p, e
  <2>5. Val(p) + e < Full /\ p \in uint128 /\ e \in Word  BY <2>2, <2>3, <2>4 DEF p, e
  <2>6. plus(p, wide(e)) \in uint128 /\ Val(plus(p, wide(e))) = Val(p) + e
    BY <1>3, <2>5
  <2>. QED  BY <2>3, <2>6 DEF p, e
<1>8. Umul(u, v) = Join(top, low)  BY DEF Umul
<1>9. Umul(u, v) \in Words /\ Number(Umul(u, v)) = Val(top) * Full + Val(low)
  <2>. HIDE DEF top, low
  <2>. QED  BY <1>6, <1>7, <1>8, JoinIs
<1>10. (a * c + u2.hi + u1.hi) * (B * B) + (u2.lo * B + t0.lo) = (a * B + b) * (c * B + d)
  <2>. DEFINE f == t0.hi
              g == t0.lo
              h == u1.hi
              k == u1.lo
              m == u2.hi
              n == u2.lo
  <2>1. /\ f * B + g = b * d /\ h * B + k = a * d + f /\ m * B + n = b * c + k
        /\ f \in Int /\ g \in Int /\ h \in Int /\ k \in Int /\ m \in Int /\ n \in Int
    <3>. HIDE DEF t0, u1, u2
    <3>. QED  BY <1>1, <1>4, <1>5, ValIs
  <2>2. a \in Int /\ b \in Int /\ c \in Int /\ d \in Int /\ B \in Int  BY <1>0 DEF Word
  <2>. HIDE DEF f, g, h, k, m, n
  <2>3. (a * c + m + h) * (B * B) + (n * B + g)
          = (a * c) * (B * B) + (m * B + n) * B + (h * B) * B + g
    BY <2>1, <2>2
  <2>4. (m * B + n) * B = (b * c) * B + k * B
    <3>1. (b * c + k) * B = (b * c) * B + k * B  BY <2>1, <2>2
    <3>. QED  BY <2>1, <3>1
  <2>5. (h * B) * B + k * B = (a * d) * B + f * B
    <3>1. (h * B + k) * B = (h * B) * B + k * B  BY <2>1, <2>2
    <3>2. (a * d + f) * B = (a * d) * B + f * B  BY <2>1, <2>2
    <3>. QED  BY <2>1, <3>1, <3>2
  <2>6. (a * B + b) * (c * B + d) = (a * c) * (B * B) + (b * c) * B + (a * d) * B + b * d
    BY <2>2
  <2>7. /\ (a * c) * (B * B) \in Int /\ (b * c) * B \in Int /\ (a * d) * B \in Int
        /\ (h * B) * B \in Int /\ k * B \in Int /\ f * B \in Int /\ b * d \in Int
        /\ (m * B + n) * B \in Int
    BY <2>1, <2>2
  <2>8. (a * c + m + h) * (B * B) + (n * B + g) = (a * B + b) * (c * B + d)
    <3>. DEFINE e1 == (a * c) * (B * B)
                e2 == (b * c) * B
                e3 == (a * d) * B
                e4 == (h * B) * B
                e5 == k * B
                e6 == f * B
                e7 == b * d
                e8 == (m * B + n) * B
                left == (a * c + m + h) * (B * B) + (n * B + g)
                right == (a * B + b) * (c * B + d)
    <3>1. /\ left = e1 + e8 + e4 + g /\ e8 = e2 + e5 /\ e4 + e5 = e3 + e6
          /\ right = e1 + e2 + e3 + e7 /\ e6 + g = e7
          /\ e1 \in Int /\ e2 \in Int /\ e3 \in Int /\ e4 \in Int /\ e5 \in Int
          /\ e6 \in Int /\ e7 \in Int /\ e8 \in Int
      BY <2>1, <2>3, <2>4, <2>5, <2>6, <2>7
    <3>. HIDE DEF e1, e2, e3, e4, e5, e6, e7, e8, left, right
    <3>2. left = right  BY <2>1, <3>1
    <3>. QED  BY <3>2 DEF left, right
  <2>. QED  BY <2>8 DEF f, g, h, k, m, n
<1>. QED  BY <1>0, <1>6, <1>7, <1>9, <1>10

LEMMA MultiplyIs ==
    ASSUME NEW w \in Words, NEW z \in Words
    PROVE  Times(w, z) \in Words /\ Number(Times(w, z)) = (Number(w) * Number(z)) % Wide
<1>. DEFINE U == Upper(w)
            L == Lower(w)
            K == Upper(z)
            M == Lower(z)
            h == Val(U)
            l == Val(L)
            k == Val(K)
            m == Val(M)
            t == Umul(L, M)
            e == Val(Upper(t))
            g == Val(Lower(t))
            f == Full
            top == plus(plus(times(L, K), times(U, M)), Upper(t))
            s == e + (l * k + h * m)
<1>1. /\ U \in uint128 /\ L \in uint128 /\ K \in uint128 /\ M \in uint128
      /\ h \in Int /\ l \in Int /\ k \in Int /\ m \in Int /\ f \in Nat \ {0}
      /\ Number(w) = h * f + l /\ Number(z) = k * f + m /\ Wide = f * f
  <2>1. /\ h \in 0..f - 1 /\ l \in 0..f - 1 /\ k \in 0..f - 1 /\ m \in 0..f - 1
        /\ f \in Nat \ {0}
    BY WordsAre, FullIs
  <2>. HIDE DEF h, l, k, m, f
  <2>2. h \in Int /\ l \in Int /\ k \in Int /\ m \in Int  BY <2>1
  <2>. QED  BY <2>1, <2>2, WordsAre, WideIs256 DEF h, l, k, m, f
<1>2. /\ t \in Words /\ Upper(t) \in uint128 /\ Lower(t) \in uint128
      /\ e * f + g = l * m /\ e \in Int /\ g \in 0..f - 1
  <2>1. t \in Words /\ Number(t) = l * m  BY <1>1, ProductIs
  <2>. HIDE DEF t
  <2>2. /\ Upper(t) \in uint128 /\ Lower(t) \in uint128 /\ Number(t) = e * f + g
        /\ e \in 0..f - 1 /\ g \in 0..f - 1
    BY <2>1, WordsAre
  <2>. HIDE DEF e, g, f
  <2>3. e \in Int  BY <1>1, <2>2
  <2>. QED  BY <2>1, <2>2, <2>3
<1>. HIDE DEF t
<1>3. top \in uint128 /\ Val(top) = s % f
  <2>. DEFINE a == l * k
              b == h * m
              p == times(L, K)
              o == times(U, M)
  <2>1. p \in uint128 /\ Val(p) = a % f /\ o \in uint128 /\ Val(o) = b % f
    BY <1>1, TimesIs
  <2>2. a \in Int /\ b \in Int  BY <1>1
  <2>. HIDE DEF p, o
  <2>3. plus(p, o) \in uint128 /\ Val(plus(p, o)) = ((a % f) + (b % f)) % f
    BY <2>1, PlusIs
  <2>4. top \in uint128 /\ Val(top) = ((((a % f) + (b % f)) % f) + e) % f
    <3>. DEFINE c == plus(p, o)
    <3>. HIDE DEF c, e
    <3>1. plus(c, Upper(t)) \in uint128 /\ Val(plus(c, Upper(t))) = (Val(c) + e) % f
      BY <1>2, <2>3, PlusIs DEF c, e
    <3>. QED  BY <2>3, <3>1 DEF c, p, o
  <2>. HIDE DEF a, b, e, f, top
  <2>5. a % f \in Int /\ b % f \in Int  BY <1>1, <2>2, DivMod
  <2>6. ((a % f) + (b % f)) % f = (a + (b % f)) % f  BY <1>1, <2>2, <2>5, ModPlus
  <2>7. a + (b % f) = (b % f) + a /\ b + a = a + b  BY <2>2, <2>5
  <2>8. ((b % f) + a) % f = (b + a) % f  BY <1>1, <2>2, ModPlus
  <2>9. ((a % f) + (b % f)) % f = (a + b) % f  BY <2>6, <2>7, <2>8
  <2>. DEFINE c == a + b
  <2>10. c \in Int  BY <2>2
  <2>. HIDE DEF c
  <2>11. ((c % f) + e) % f = (c + e) % f  BY <1>1, <1>2, <2>10, ModPlus
  <2>12. c + e = e + c  BY <1>2, <2>10
  <2>13. Val(top) = (e + c) % f  BY <2>4, <2>9, <2>11, <2>12 DEF c
  <2>. QED  BY <2>4, <2>13 DEF c, a, b
<1>4. Times(w, z) = Join(top, Lower(t))  BY DEF Times, t
<1>5. Times(w, z) \in Words /\ Number(Times(w, z)) = (s % f) * f + g
  <2>. HIDE DEF top, s
  <2>. QED  BY <1>2, <1>3, <1>4, JoinIs
<1>. HIDE DEF h, l, k, m, e, g, f
<1>6. ProductByLimb(h, l, k, m, e, g, f)  BY <1>1, <1>2, LimbsTimes
<1>. QED  BY <1>1, <1>5, <1>6 DEF ProductByLimb

-------------------------------------------------------------------------------
(* The operands of a division are words, and stay.                             *)
Operands == x \in Words /\ y \in Words

LEMMA OperandsStay == Spec => []Operands
<1>1. Init => Operands  BY DEF Init, Operands
<1>2. Operands /\ [Next]_vars => Operands'
  <2>. SUFFICES ASSUME Operands, [Next]_vars PROVE Operands'
    OBVIOUS
  <2>1. UNCHANGED <<x, y>>
    BY DEF Next, vars, Normalize, By1, By2, Estimate, Subtract
  <2>. QED  BY <2>1 DEF Operands
<1>. QED  BY <1>1, <1>2, PTL DEF Spec

(* The sum, difference, product, order and shifts of two uint256, carried from *)
(* word to word as plus, minus, umul, shl and shr of int128.hpp and            *)
(* add_with_carry of intx.hpp do, are those of the whole numbers modulo 2^256, *)
(* for words of any even width, any operands and any shift.                    *)
THEOREM WordsAreNumbers == Spec => []WordArithmetic
<1>1. Operands => WordArithmetic
  <2>. SUFFICES ASSUME x \in Words, y \in Words PROVE WordArithmetic
    BY DEF Operands
  <2>1. /\ Number(Plus(x, y)) = (Number(x) + Number(y)) % Wide
        /\ add_with_carry(x, y).carry = (Number(x) + Number(y) >= Wide)
    BY AddIs
  <2>2. Number(Minus(x, y)) = (Number(x) - Number(y)) % Wide  BY SubtractIs
  <2>3. Number(Times(x, y)) = (Number(x) * Number(y)) % Wide  BY MultiplyIs
  <2>4. Number(Umul(Lower(x), Lower(y))) = Val(Lower(x)) * Val(Lower(y))
    BY WordsAre, ProductIs
  <2>5. Less(x, y) = (Number(x) < Number(y))  BY LessThan
  <2>6. ASSUME NEW s \in 0..N * W + 1
        PROVE  /\ Number(Shl(x, s)) = (Number(x) * 2^s) % Wide
               /\ Number(Shr(x, s)) = Number(x) \div 2^s
    <3>1. s \in Nat  OBVIOUS
    <3>. QED  BY <3>1, ShiftLeft, ShiftRight
  <2>. QED  BY <2>1, <2>2, <2>3, <2>4, <2>5, <2>6 DEF WordArithmetic
<1>. QED  BY <1>1, OperandsStay, PTL

-------------------------------------------------------------------------------
(* The places of words.                                                        *)

LEMMA PlaceIs ==
    ASSUME NEW k \in Nat
    PROVE  Place(k) \in Nat \ {0} /\ Place(k + 1) = Place(k) * B
<1>1. W * k \in Nat /\ W \in Nat /\ W * (k + 1) = W * k + W  BY Base
<1>. DEFINE e == W * k
<1>. HIDE DEF e
<1>2. 2^(e + W) = 2^e * 2^W /\ 2^e \in Nat \ {0}  BY <1>1, PowerSum, PowerPositive DEF e
<1>. QED  BY <1>1, <1>2 DEF Place, B, e

LEMMA Places ==
    /\ Place(0) = 1 /\ Place(1) = B /\ Place(2) = Full /\ Place(3) = Full * B
    /\ Place(4) = Wide /\ Place(5) = Wide * B
    /\ \A k \in Nat : Place(k) \in Nat \ {0} /\ Place(k + 1) = Place(k) * B
<1>1. \A k \in Nat : Place(k) \in Nat \ {0} /\ Place(k + 1) = Place(k) * B
  BY PlaceIs
<1>2. Place(0) = 1
  <2>1. W * 0 = 0  BY Base
  <2>2. 2^0 = 1  OBVIOUS
  <2>. QED  BY <2>1, <2>2, Zenon DEF Place
<1>3. /\ Place(0 + 1) = Place(0) * B /\ Place(1 + 1) = Place(1) * B
      /\ Place(2 + 1) = Place(2) * B /\ Place(3 + 1) = Place(3) * B
      /\ Place(4 + 1) = Place(4) * B
  BY <1>1
<1>4. 0 + 1 = 1 /\ 1 + 1 = 2 /\ 2 + 1 = 3 /\ 3 + 1 = 4 /\ 4 + 1 = 5  OBVIOUS
<1>5. Place(1) = B /\ Place(2) = B * B
  <2>1. 1 * B = B  BY Base
  <2>. QED  BY <1>2, <1>3, <1>4, <2>1
<1>6. Place(3) = Full * B /\ Place(4) = (Full * B) * B  BY <1>3, <1>4, <1>5 DEF Full
<1>7. (Full * B) * B = Full * Full
  <2>. DEFINE b == B
  <2>1. b \in Int  BY Base
  <2>. HIDE DEF b
  <2>2. ((b * b) * b) * b = (b * b) * (b * b)  BY <2>1
  <2>. QED  BY <2>2 DEF Full, b
<1>. QED  BY <1>1, <1>2, <1>3, <1>4, <1>5, <1>6, <1>7, WideIs256 DEF Full

(* The numerator's words: one more than its type has.                          *)
Words5 == [0..N -> Word]

Weighted(a0, a1, a2, a3, a4) == a0 + B * (a1 + B * (a2 + B * (a3 + B * a4)))

LEMMA Number5Is ==
    ASSUME NEW w \in Words5
    PROVE  Number(w) = Weighted(w[0], w[1], w[2], w[3], w[4])
<1>. DEFINE Sums(f) == f = [i \in Nat |-> IF i \notin DOMAIN w THEN 0 ELSE w[i] + B * f[i + 1]]
            g == [i \in Nat |->
                    CASE i = 0 -> w[0] + B * (w[1] + B * (w[2] + B * (w[3] + B * w[4])))
                      [] i = 1 -> w[1] + B * (w[2] + B * (w[3] + B * w[4]))
                      [] i = 2 -> w[2] + B * (w[3] + B * w[4])
                      [] i = 3 -> w[3] + B * w[4]
                      [] i = 4 -> w[4]
                      [] OTHER -> 0]
            sum == CHOOSE f : Sums(f)
<1>0. DOMAIN w = {0, 1, 2, 3, 4} /\ B \in Nat /\ w[4] \in Int
  BY Base DEF Words5, Word, N
<1>1. Sums(g)
  <2>1. g[5] = 0 /\ w[4] + B * 0 = w[4]  BY <1>0
  <2>2. ASSUME NEW i \in Nat
        PROVE  g[i] = IF i \notin DOMAIN w THEN 0 ELSE w[i] + B * g[i + 1]
    <3>1. CASE i \in {0, 1, 2, 3}  BY <1>0, <3>1
    <3>2. CASE i = 4  BY <1>0, <2>1, <3>2
    <3>3. CASE i \notin {0, 1, 2, 3, 4}  BY <1>0, <3>3
    <3>. QED  BY <3>1, <3>2, <3>3
  <2>3. g = [i \in Nat |-> g[i]]  OBVIOUS
  <2>. HIDE DEF g
  <2>. QED  BY <2>2, <2>3
<1>. HIDE DEF g
<1>2. Sums(sum)
  <2>. HIDE DEF Sums
  <2>. QED  BY <1>1
<1>3. Number(w) = sum[0]  BY DEF Number
<1>. HIDE DEF sum
<1>4. \A i \in Nat : sum[i] = IF i \notin DOMAIN w THEN 0 ELSE w[i] + B * sum[i + 1]
  BY <1>2
<1>. HIDE DEF Sums
<1>5. sum[5] = 0  BY <1>0, <1>4
<1>6. sum[4] = w[4]
  <2>1. sum[4] = w[4] + B * sum[5]  BY <1>0, <1>4
  <2>. QED  BY <1>0, <1>5, <2>1
<1>7. sum[3] = w[3] + B * sum[4]  BY <1>0, <1>4
<1>8. sum[2] = w[2] + B * sum[3]  BY <1>0, <1>4
<1>9. sum[1] = w[1] + B * sum[2]  BY <1>0, <1>4
<1>10. sum[0] = w[0] + B * sum[1]  BY <1>0, <1>4
<1>. QED  BY <1>3, <1>6, <1>7, <1>8, <1>9, <1>10 DEF Weighted

-------------------------------------------------------------------------------
(* normalize.                                                                  *)

(* How many words have something in them.                                      *)
LEMMA SignificantIs ==
    ASSUME NEW w \in Words
    PROVE  /\ Significant(w) \in 0..N
           /\ Significant(w) > 0 => w[Significant(w) - 1] # 0
           /\ \A i \in Significant(w)..N - 1 : w[i] = 0
<1>. DEFINE Last(k) == /\ k > 0 => w[k - 1] # 0
                       /\ \A i \in k..N - 1 : w[i] = 0
<1>1. \E k \in 0..N : Last(k)
  <2>0. 0..N = {0, 1, 2, 3, 4}  BY DEF N
  <2>1. CASE w[3] # 0
    <3>1. Last(4)  BY <2>1 DEF N
    <3>. QED  BY <2>0, <3>1
  <2>2. CASE w[3] = 0 /\ w[2] # 0
    <3>1. Last(3)  BY <2>2 DEF N
    <3>. QED  BY <2>0, <3>1
  <2>3. CASE w[3] = 0 /\ w[2] = 0 /\ w[1] # 0
    <3>1. Last(2)
      <4>1. 2..N - 1 = {2, 3}  BY DEF N
      <4>. QED  BY <2>3, <4>1
    <3>. QED  BY <2>0, <3>1
  <2>4. CASE w[3] = 0 /\ w[2] = 0 /\ w[1] = 0 /\ w[0] # 0
    <3>1. Last(1)
      <4>1. 1..N - 1 = {1, 2, 3}  BY DEF N
      <4>. QED  BY <2>4, <4>1
    <3>. QED  BY <2>0, <3>1
  <2>5. CASE w[3] = 0 /\ w[2] = 0 /\ w[1] = 0 /\ w[0] = 0
    <3>1. Last(0)
      <4>1. 0..N - 1 = {0, 1, 2, 3}  BY DEF N
      <4>. QED  BY <2>5, <4>1
    <3>. QED  BY <2>0, <3>1
  <2>. QED  BY <2>1, <2>2, <2>3, <2>4, <2>5
<1>2. Significant(w) = CHOOSE k \in 0..N : Last(k)  BY DEF Significant
<1>. HIDE DEF Last
<1>3. Significant(w) \in 0..N /\ Last(Significant(w))  BY <1>1, <1>2
<1>. QED  BY <1>3 DEF Last

(* A number by its lowest limb and the rest.                                   *)
LEMMA LowLimb ==
    ASSUME NEW b \in Nat \ {0}, NEW a \in 0..b - 1, NEW t \in Int, NEW p \in Int
    PROVE  /\ t < p => a + b * t < b * p
           /\ t >= p => a + b * t >= b * p
<1>1. ASSUME t < p PROVE a + b * t < b * p
  <2>1. b * (t + 1) <= b * p /\ b * (t + 1) = b * t + b  BY <1>1
  <2>2. b * t \in Int /\ b * p \in Int  OBVIOUS
  <2>. QED  BY <2>1, <2>2
<1>2. ASSUME t >= p PROVE a + b * t >= b * p
  <2>1. b * t >= b * p  BY <1>2
  <2>2. b * t \in Int /\ b * p \in Int  OBVIOUS
  <2>. QED  BY <2>1, <2>2
<1>. QED  BY <1>1, <1>2

LEMMA WordsIn ==
    ASSUME NEW w \in Words
    PROVE  /\ w[0] \in 0..B - 1 /\ w[1] \in 0..B - 1 /\ w[2] \in 0..B - 1 /\ w[3] \in 0..B - 1
           /\ w[0] \in Word /\ w[1] \in Word /\ w[2] \in Word /\ w[3] \in Word
           /\ Number(w) = w[0] + B * (w[1] + B * (w[2] + B * w[3]))
BY NumberIs DEF Words, Word, N

LEMMA SignificantBounds ==
    ASSUME NEW w \in Words
    PROVE  /\ Number(w) < Place(Significant(w))
           /\ Significant(w) > 0 => Place(Significant(w) - 1) <= Number(w)
<1>. DEFINE k == Significant(w)
            b == B
            a0 == w[0]
            a1 == w[1]
            a2 == w[2]
            a3 == w[3]
            t2 == a2 + b * a3
            t1 == a1 + b * t2
            t0 == a0 + b * t1
<1>0. /\ b \in Nat \ {0} /\ a0 \in 0..b - 1 /\ a1 \in 0..b - 1 /\ a2 \in 0..b - 1
      /\ a3 \in 0..b - 1 /\ Number(w) = t0
      /\ Place(0) = 1 /\ Place(1) = b /\ Place(2) = b * b /\ Place(3) = b * (b * b)
      /\ Place(4) = b * (b * (b * b))
  <2>1. (b * b) * b = b * (b * b) /\ (b * b) * (b * b) = b * (b * (b * b))
    <3>1. b \in Int  BY Base
    <3>. HIDE DEF b
    <3>. QED  BY <3>1
  <2>. QED  BY <2>1, Base, WordsIn, Places, WideIs256 DEF Full
<1>1. /\ k \in 0..N
      /\ k > 0 => w[k - 1] # 0
      /\ \A i \in k..N - 1 : w[i] = 0
  BY SignificantIs
<1>2. a0 \in Int /\ a1 \in Int /\ a2 \in Int /\ a3 \in Int /\ t2 \in Int /\ t1 \in Int
      /\ t0 \in Int
  <2>. HIDE DEF b, a0, a1, a2, a3
  <2>. QED  BY <1>0
<1>. HIDE DEF k, b
<1>3. b * b \in Int /\ b * (b * b) \in Int /\ b * (b * (b * b)) \in Int /\ b * 1 = b /\ b * 0 = 0
  BY <1>0
<1>4. CASE k = 0
  <2>1. a0 = 0 /\ a1 = 0 /\ a2 = 0 /\ a3 = 0
    <3>1. 0 \in k..N - 1 /\ 1 \in k..N - 1 /\ 2 \in k..N - 1 /\ 3 \in k..N - 1
      BY <1>4 DEF N
    <3>. QED  BY <1>1, <3>1
  <2>. HIDE DEF a0, a1, a2, a3
  <2>2. t0 = 0  BY <1>0, <2>1
  <2>. QED  BY <1>0, <1>4, <2>2 DEF k
<1>5. CASE k = 1
  <2>1. a0 # 0 /\ a1 = 0 /\ a2 = 0 /\ a3 = 0
    <3>1. 1 \in k..N - 1 /\ 2 \in k..N - 1 /\ 3 \in k..N - 1  BY <1>5 DEF N
    <3>. QED  BY <1>1, <1>5, <3>1
  <2>. HIDE DEF a0, a1, a2, a3
  <2>2. t0 = a0  BY <1>0, <2>1
  <2>. QED  BY <1>0, <1>5, <2>1, <2>2 DEF k
<1>6. CASE k = 2
  <2>1. a1 # 0 /\ a2 = 0 /\ a3 = 0
    <3>1. 2 \in k..N - 1 /\ 3 \in k..N - 1  BY <1>6 DEF N
    <3>. QED  BY <1>1, <1>6, <3>1
  <2>. HIDE DEF a0, a1, a2, a3
  <2>2. t1 = a1  BY <1>0, <2>1
  <2>3. t1 < b /\ t1 >= 1  BY <1>0, <2>1, <2>2
  <2>. HIDE DEF t1
  <2>4. t0 < b * b /\ t0 >= b * 1  BY <1>0, <1>2, <2>3, LowLimb
  <2>. QED  BY <1>0, <1>3, <1>6, <2>4 DEF k
<1>7. CASE k = 3
  <2>1. a2 # 0 /\ a3 = 0
    <3>1. 3 \in k..N - 1  BY <1>7 DEF N
    <3>. QED  BY <1>1, <1>7, <3>1
  <2>. HIDE DEF a0, a1, a2, a3
  <2>2. t2 = a2  BY <1>0, <2>1
  <2>3. t2 < b /\ t2 >= 1  BY <1>0, <2>1, <2>2
  <2>. HIDE DEF t2
  <2>4. t1 < b * b /\ t1 >= b * 1  BY <1>0, <1>2, <2>3, LowLimb
  <2>. HIDE DEF t1
  <2>5. t0 < b * (b * b) /\ t0 >= b * b  BY <1>0, <1>2, <1>3, <2>4, LowLimb
  <2>. QED  BY <1>0, <1>3, <1>7, <2>5 DEF k
<1>8. CASE k = 4
  <2>1. a3 # 0
    <3>. QED  BY <1>1, <1>8
  <2>. HIDE DEF a0, a1, a2, a3
  <2>2. a3 < b /\ a3 >= 1  BY <1>0, <2>1
  <2>3. t2 < b * b /\ t2 >= b * 1  BY <1>0, <1>2, <2>2, LowLimb
  <2>. HIDE DEF t2
  <2>4. t1 < b * (b * b) /\ t1 >= b * b  BY <1>0, <1>2, <1>3, <2>3, LowLimb
  <2>. HIDE DEF t1
  <2>5. t0 < b * (b * (b * b)) /\ t0 >= b * (b * b)  BY <1>0, <1>2, <1>3, <2>4, LowLimb
  <2>. QED  BY <1>0, <1>3, <1>8, <2>5 DEF k
<1>9. k \in {0, 1, 2, 3, 4}  BY <1>1 DEF N
<1>. QED  BY <1>4, <1>5, <1>6, <1>7, <1>8, <1>9

LEMMA ShiftedIs ==
    ASSUME NEW w \in Words, NEW s \in 1..W - 1,
           NEW u, u = [i \in 0..N |-> Shifted(w, s, i)]
    PROVE  u \in Words5 /\ Number(u) = Number(w) * 2^s
<1>. DEFINE c == 2^s
            b == B
            l0 == wshl(w[0], s)
            l1 == wshl(w[1], s)
            l2 == wshl(w[2], s)
            l3 == wshl(w[3], s)
            h0 == wshr(w[0], W - s)
            h1 == wshr(w[1], W - s)
            h2 == wshr(w[2], W - s)
            h3 == wshr(w[3], W - s)
            a0 == w[0]
            a1 == w[1]
            a2 == w[2]
            a3 == w[3]
<1>0. b \in Nat \ {0} /\ c \in Nat \ {0} /\ c <= b
  <2>1. s \in Nat /\ s < W /\ W - s \in Nat  BY Base
  <2>2. c \in Nat \ {0} /\ B = c * 2^(W - s) /\ 2^(W - s) \in Nat \ {0}  BY <2>1, Shifts
  <2>. HIDE DEF c
  <2>3. c <= c * 2^(W - s)
    <3>. DEFINE d == 2^(W - s)
    <3>. HIDE DEF d
    <3>1. 1 <= d /\ d \in Nat  BY <2>2 DEF d
    <3>2. c <= c * d  BY <2>2, <3>1, TimesOne
    <3>. QED  BY <3>2 DEF d
  <2>. QED  BY <2>2, <2>3, Base
<1>1. /\ a0 \in Int /\ a1 \in Int /\ a2 \in Int /\ a3 \in Int
      /\ Number(w) = a0 + b * (a1 + b * (a2 + b * a3))
  BY WordsIn
<1>2. /\ l0 \in 0..b - c /\ h0 \in 0..c - 1 /\ a0 * c = h0 * b + l0
      /\ l1 \in 0..b - c /\ h1 \in 0..c - 1 /\ a1 * c = h1 * b + l1
      /\ l2 \in 0..b - c /\ h2 \in 0..c - 1 /\ a2 * c = h2 * b + l2
      /\ l3 \in 0..b - c /\ h3 \in 0..c - 1 /\ a3 * c = h3 * b + l3
      /\ l0 \in Int /\ l1 \in Int /\ l2 \in Int /\ l3 \in Int
      /\ h0 \in Int /\ h1 \in Int /\ h2 \in Int /\ h3 \in Int
  BY WordsIn, ShiftsWord
<1>3. u[0] = l0 /\ u[1] = l1 + h0 /\ u[2] = l2 + h1 /\ u[3] = l3 + h2 /\ u[4] = h3
  <2>1. 0 \in 0..N /\ 1 \in 0..N /\ 2 \in 0..N /\ 3 \in 0..N /\ 4 \in 0..N /\ N = 4  BY DEF N
  <2>2. u[0] = Shifted(w, s, 0) /\ u[1] = Shifted(w, s, 1) /\ u[2] = Shifted(w, s, 2)
        /\ u[3] = Shifted(w, s, 3) /\ u[4] = Shifted(w, s, 4)
    BY <2>1
  <2>3. Shifted(w, s, 0) = l0 /\ Shifted(w, s, 4) = h3  BY DEF Shifted, N
  <2>4. Shifted(w, s, 1) = l1 + h0 /\ Shifted(w, s, 2) = l2 + h1 /\ Shifted(w, s, 3) = l3 + h2
    BY DEF Shifted, N
  <2>. QED  BY <2>2, <2>3, <2>4
<1>. HIDE DEF l0, l1, l2, l3, h0, h1, h2, h3, a0, a1, a2, a3, c, b
<1>4. u \in Words5
  <2>1. l0 \in 0..b - 1 /\ l1 + h0 \in 0..b - 1 /\ l2 + h1 \in 0..b - 1
        /\ l3 + h2 \in 0..b - 1 /\ h3 \in 0..b - 1
    BY <1>0, <1>2
  <2>2. \A i \in 0..N : u[i] \in Word
    <3>1. 0..N = {0, 1, 2, 3, 4}  BY DEF N
    <3>. QED  BY <1>3, <2>1, <3>1 DEF Word, b
  <2>3. u = [i \in 0..N |-> u[i]]  OBVIOUS
  <2>. QED  BY <2>2, <2>3 DEF Words5
<1>5. Number(u) = l0 + b * ((l1 + h0) + b * ((l2 + h1) + b * ((l3 + h2) + b * h3)))
  BY <1>3, <1>4, Number5Is DEF Weighted, b
<1>6. l0 + b * ((l1 + h0) + b * ((l2 + h1) + b * ((l3 + h2) + b * h3)))
        = (h0 * b + l0) + b * ((h1 * b + l1) + b * ((h2 * b + l2) + b * (h3 * b + l3)))
  BY <1>0, <1>2
<1>7. (a0 + b * (a1 + b * (a2 + b * a3))) * c
        = a0 * c + b * (a1 * c + b * (a2 * c + b * (a3 * c)))
  BY <1>0, <1>1
<1>. QED  BY <1>1, <1>2, <1>4, <1>5, <1>6, <1>7 DEF c

(* A word alone at its place is not more than the whole.                       *)
LEMMA WordAtPlace ==
    ASSUME NEW w \in Words, NEW k \in 0..N - 1
    PROVE  w[k] * Place(k) <= Number(w) /\ w[k] * Place(k) \in Int
<1>. DEFINE b == B
            a0 == w[0]
            a1 == w[1]
            a2 == w[2]
            a3 == w[3]
<1>0. /\ b \in Nat \ {0} /\ a0 \in 0..b - 1 /\ a1 \in 0..b - 1 /\ a2 \in 0..b - 1
      /\ a3 \in 0..b - 1 /\ Number(w) = a0 + b * (a1 + b * (a2 + b * a3))
      /\ Place(0) = 1 /\ Place(1) = b /\ Place(2) = b * b /\ Place(3) = (b * b) * b
  BY Base, WordsIn, Places DEF Full
<1>. HIDE DEF b, a0, a1, a2, a3
<1>1. a0 + b * (a1 + b * (a2 + b * a3))
        = a0 + a1 * b + a2 * (b * b) + a3 * ((b * b) * b)
  BY <1>0
<1>2. a0 \in Nat /\ a1 * b \in Nat /\ a2 * (b * b) \in Nat /\ a3 * ((b * b) * b) \in Nat
  <2>1. a0 \in Nat /\ a1 \in Nat /\ a2 \in Nat /\ a3 \in Nat /\ b \in Nat /\ b * b \in Nat
    BY <1>0
  <2>2. (b * b) * b \in Nat  BY <2>1
  <2>. QED  BY <2>1, <2>2
<1>. DEFINE c1 == a1 * b
            c2 == a2 * (b * b)
            c3 == a3 * ((b * b) * b)
<1>3. Number(w) = a0 + c1 + c2 + c3 /\ c1 \in Nat /\ c2 \in Nat /\ c3 \in Nat
  BY <1>0, <1>1, <1>2
<1>. HIDE DEF c1, c2, c3
<1>4. a0 <= Number(w) /\ c1 <= Number(w) /\ c2 <= Number(w) /\ c3 <= Number(w)
  BY <1>2, <1>3
<1>5. k \in {0, 1, 2, 3}  BY DEF N
<1>6. a0 * 1 = a0  BY <1>0
<1>7. CASE k = 0  BY <1>0, <1>2, <1>4, <1>6, <1>7 DEF a0
<1>8. CASE k = 1  BY <1>0, <1>3, <1>4, <1>8 DEF a1, c1
<1>9. CASE k = 2  BY <1>0, <1>3, <1>4, <1>9 DEF a2, c2
<1>10. CASE k = 3  BY <1>0, <1>3, <1>4, <1>10 DEF a3, c3
<1>. QED  BY <1>5, <1>7, <1>8, <1>9, <1>10

LEMMA PlaceSum ==
    ASSUME NEW k \in Nat, NEW l \in Nat
    PROVE  Place(k + l) = Place(k) * Place(l)
<1>. DEFINE a == W * k
            c == W * l
<1>1. a \in Nat /\ c \in Nat /\ W * (k + l) = a + c  BY Base
<1>. HIDE DEF a, c
<1>2. 2^(a + c) = 2^a * 2^c  BY <1>1, PowerSum
<1>. QED  BY <1>1, <1>2 DEF Place, a, c

(* What the arguments of a division are, u and v, once they are normalized.    *)
Normalized(a, u, v) ==
    /\ a.m \in 0..N /\ a.n \in 1..N /\ a.shift \in 0..W - 1
    /\ a.numerator \in Words5 /\ a.denominator \in Words
    /\ Number(a.numerator) = Number(u) * 2^a.shift
    /\ Number(a.denominator) = Number(v) * 2^a.shift
    /\ \A i \in a.m + 1..N : a.numerator[i] = 0
    /\ \A i \in a.n..N - 1 : a.denominator[i] = 0
    /\ Divisor(a.denominator[a.n - 1])
    /\ a.n <= a.m => Number(a.numerator) < Number(a.denominator) * Place(a.m - a.n + 1)
    /\ a.n > a.m => Number(u) < Number(v)

(* The numerator, shifted.                                                     *)
ShiftedNumerator(u, s) == [i \in 0..N |-> IF s > 0 THEN Shifted(u, s, i)
                                         ELSE IF i < N THEN u[i] ELSE 0]

IsNumerator(p, u, s, m) ==
    /\ p \in Words5 /\ Number(p) = Number(u) * 2^s
    /\ \A i \in m + 1..N : p[i] = 0
    /\ 2 * Number(p) < Place(m + 1)

LEMMA NumeratorIs ==
    ASSUME NEW u \in Words, NEW s \in 0..W - 1, NEW m, m = Significant(u),
           NEW p, p = ShiftedNumerator(u, s)
    PROVE  IsNumerator(p, u, s, m)
<1>p. p = [i \in 0..N |-> IF s > 0 THEN Shifted(u, s, i) ELSE IF i < N THEN u[i] ELSE 0]
  BY DEF ShiftedNumerator
<1>0. s \in Nat /\ s < W /\ B \in Nat \ {0} /\ m \in 0..N /\ m \in Nat /\ 2^s \in Nat \ {0}
      /\ \A i \in m..N - 1 : u[i] = 0
  <2>1. s \in Nat /\ s < W  BY Base
  <2>2. m \in 0..N /\ \A i \in m..N - 1 : u[i] = 0  BY SignificantIs
  <2>. QED  BY <2>1, <2>2, Base, Shifts DEF N
<1>1. p \in Words5 /\ Number(p) = Number(u) * 2^s
  <2>1. CASE s > 0
    <3>1. s \in 1..W - 1 /\ p = [i \in 0..N |-> Shifted(u, s, i)]  BY <1>p, <1>0, <2>1
    <3>. QED  BY <3>1, ShiftedIs
  <2>2. CASE s = 0
    <3>1. p = [i \in 0..N |-> IF i < N THEN u[i] ELSE 0]  BY <1>p, <2>2
    <3>2. 0 \in Word  BY Base DEF Word
    <3>3. p \in Words5  BY <3>1, <3>2 DEF Words5, Words, N
    <3>4. p[0] = u[0] /\ p[1] = u[1] /\ p[2] = u[2] /\ p[3] = u[3] /\ p[4] = 0
      BY <3>1 DEF N
    <3>5. u[3] + B * 0 = u[3] /\ u[3] \in Int
      <4>1. u[3] \in Int  BY WordsIn, Base
      <4>. QED  BY <4>1, Base
    <3>6. Number(p) = u[0] + B * (u[1] + B * (u[2] + B * (u[3] + B * 0)))
      BY <3>3, <3>4, Number5Is DEF Weighted
    <3>7. Number(p) = Number(u)  BY <3>5, <3>6, WordsIn
    <3>8. Number(u) * 2^s = Number(u)
      <4>1. 2^0 = 1 /\ Number(u) * 1 = Number(u)  BY WordsAre
      <4>. QED  BY <2>2, <4>1
    <3>. QED  BY <3>3, <3>7, <3>8
  <2>. QED  BY <1>0, <2>1, <2>2
<1>2. ASSUME NEW i \in m + 1..N PROVE p[i] = 0
  <2>0. i \in 0..N /\ i - 1 \in m..N - 1 /\ i # 0 /\ (i # N => i \in m..N - 1) /\ i \in Int
    BY <1>0 DEF N
  <2>1. u[i - 1] = 0 /\ (i # N => u[i] = 0)  BY <1>0, <2>0
  <2>2. CASE s = 0
    <3>1. p[i] = IF i < N THEN u[i] ELSE 0  BY <1>p, <2>0, <2>2
    <3>2. i < N => i # N  BY <2>0 DEF N
    <3>. QED  BY <2>1, <3>1, <3>2
  <2>3. CASE s > 0
    <3>0. s \in 1..W - 1 /\ 0 \in Word /\ 0 * 2^s < B /\ 0 * 2^s = 0
      BY <1>0, <2>3, Base DEF Word
    <3>1. wshl(0, s) = 0 /\ wshr(0, W - s) = 0  BY <3>0, ShiftsWord
    <3>2. p[i] = Shifted(u, s, i)  BY <1>p, <2>0, <2>3
    <3>3. CASE i = N
      <4>1. Shifted(u, s, N) = wshr(u[N - 1], W - s)  BY DEF Shifted, N
      <4>. QED  BY <2>1, <3>1, <3>2, <3>3, <4>1
    <3>4. CASE i # N
      <4>1. Shifted(u, s, i) = wshl(u[i], s) + wshr(u[i - 1], W - s)
        BY <2>0, <3>4 DEF Shifted
      <4>. QED  BY <2>1, <3>1, <3>2, <3>4, <4>1
    <3>. QED  BY <3>3, <3>4
  <2>. QED  BY <1>0, <2>2, <2>3
<1>3. 2 * Number(p) < Place(m + 1)
  <2>. DEFINE c == 2^s
              d == 2^(W - 1 - s)
              x0 == Number(u)
              P == Place(m)
  <2>1. B = c * (2 * d) /\ c \in Nat \ {0} /\ d \in Nat \ {0}
    <3>1. B = 2^s * 2^(W - s) /\ 2^(W - s) = 2^1 * 2^(W - 1 - s) /\ 2^(W - 1 - s) \in Nat \ {0}
      BY <1>0, Shifts
    <3>2. 2^1 = 2  OBVIOUS
    <3>. QED  BY <1>0, <3>1, <3>2
  <2>2. x0 \in Nat /\ x0 < P /\ P \in Nat \ {0} /\ Place(m + 1) = P * B
    <3>1. x0 \in Nat  BY WordsAre, WideIs256
    <3>. QED  BY <1>0, <3>1, SignificantBounds, Places
  <2>3. Number(p) = x0 * c  BY <1>1
  <2>. HIDE DEF c, d, x0, P
  <2>4. 2 * c <= B
    <3>1. c * 2 <= (c * 2) * d  BY <2>1, TimesOne
    <3>2. (c * 2) * d = c * (2 * d) /\ c * 2 = 2 * c  BY <2>1
    <3>. QED  BY <2>1, <3>1, <3>2
  <2>5. x0 * (2 * c) <= x0 * B  BY <1>0, <2>1, <2>2, <2>4
  <2>6. (x0 + 1) * B <= P * B /\ (x0 + 1) * B = x0 * B + B  BY <1>0, <2>2
  <2>7. x0 * (2 * c) = 2 * (x0 * c) /\ x0 * B \in Int /\ P * B \in Int /\ x0 * c \in Int
    BY <1>0, <2>1, <2>2
  <2>. DEFINE e1 == x0 * (2 * c)
              e2 == x0 * B
              e3 == P * B
              e4 == x0 * c
              e5 == (x0 + 1) * B
  <2>8. e1 <= e2 /\ e5 <= e3 /\ e5 = e2 + B /\ e1 = 2 * e4 /\ e2 \in Int /\ e3 \in Int /\ e4 \in Int
    BY <2>5, <2>6, <2>7
  <2>. HIDE DEF e1, e2, e3, e4, e5
  <2>9. 2 * e4 < e3  BY <1>0, <2>8
  <2>. QED  BY <2>2, <2>3, <2>9 DEF e3, e4
<1>. QED  BY <1>1, <1>2, <1>3 DEF IsNumerator

ShiftedDenominator(v, s) == [i \in 0..N - 1 |-> IF s > 0 THEN Shifted(v, s, i) ELSE v[i]]

IsDenominator(d, v, n, s) ==
    /\ d \in Words /\ Number(d) = Number(v) * 2^s
    /\ \A i \in n..N - 1 : d[i] = 0
    /\ Divisor(d[n - 1])

LEMMA DenominatorIs ==
    ASSUME NEW v \in Words, NEW n \in 1..N, v[n - 1] # 0, \A i \in n..N - 1 : v[i] = 0,
           NEW s, s = wclz(v[n - 1]),
           NEW d, d = ShiftedDenominator(v, s)
    PROVE  IsDenominator(d, v, n, s)
<1>. DEFINE top == v[n - 1]
<1>d. d = [i \in 0..N - 1 |-> IF s > 0 THEN Shifted(v, s, i) ELSE v[i]]
  BY DEF ShiftedDenominator
<1>0. /\ n \in Nat /\ n - 1 \in 0..N - 1 /\ top \in Word /\ B \in Nat \ {0}
      /\ s \in 0..W - 1 /\ s \in Nat /\ s < W /\ top * 2^s < B /\ B <= 2 * (top * 2^s)
      /\ 2^s \in Nat \ {0}
  <2>1. n \in Nat /\ n - 1 \in 0..N - 1  BY DEF N
  <2>2. top \in Word  BY <2>1 DEF Words
  <2>3. s \in 0..W - 1 /\ top * 2^s < B /\ B <= 2 * (top * 2^s)  BY <2>2, WclzIs
  <2>4. s \in Nat /\ s < W  BY <2>3, Base
  <2>. QED  BY <2>1, <2>2, <2>3, <2>4, Base, Shifts
<1>1. CASE s = 0
  <2>1. d = v
    <3>1. d = [i \in 0..N - 1 |-> v[i]]  BY <1>d, <1>1
    <3>. QED  BY <3>1 DEF Words
  <2>2. 2^0 = 1 /\ top * 1 = top /\ Number(v) * 1 = Number(v)
    <3>1. Number(v) \in Int /\ top \in Int  BY <1>0, WordsAre DEF Word
    <3>. QED  BY <3>1
  <2>3. top * 2^s = top /\ Number(v) * 2^s = Number(v)  BY <1>1, <2>2
  <2>. QED  BY <1>0, <1>1, <2>1, <2>3 DEF Divisor, IsDenominator
<1>2. CASE s > 0
  <2>. DEFINE u == [i \in 0..N |-> Shifted(v, s, i)]
  <2>0. s \in 1..W - 1  BY <1>0, <1>2
  <2>1. u \in Words5 /\ Number(u) = Number(v) * 2^s  BY <2>0, ShiftedIs
  <2>2. d = [i \in 0..N - 1 |-> Shifted(v, s, i)]  BY <1>d, <1>2
  <2>3. \A i \in 0..N - 1 : d[i] = u[i] /\ d[i] \in Word
    <3>1. \A i \in 0..N - 1 : i \in 0..N  BY DEF N
    <3>2. \A i \in 0..N - 1 : d[i] = u[i]  BY <2>2, <3>1
    <3>3. \A i \in 0..N : u[i] \in Word
      <4>. HIDE DEF u
      <4>. QED  BY <2>1 DEF Words5
    <3>. HIDE DEF u
    <3>. QED  BY <3>1, <3>2, <3>3
  <2>4. d \in Words
    <3>1. d = [i \in 0..N - 1 |-> d[i]]  BY <2>2
    <3>. QED  BY <2>3, <3>1 DEF Words
  <2>5. wshl(0, s) = 0 /\ wshr(0, W - s) = 0
    <3>1. 0 \in Word /\ 0 * 2^s < B /\ 0 * 2^s = 0  BY <1>0, Base DEF Word
    <3>. QED  BY <2>0, <3>1, ShiftsWord
  <2>6. wshr(top, W - s) = 0 /\ wshl(top, s) = top * 2^s  BY <1>0, <2>0, ShiftsWord
  <2>7. ASSUME NEW i \in n..N PROVE u[i] = 0
    <3>0. i \in 0..N /\ i # 0 /\ i \in Int /\ (i # N => i \in n..N - 1)
          /\ (i # n => i - 1 \in n..N - 1) /\ (i = n => i - 1 = n - 1)
      BY <1>0 DEF N
    <3>1. u[i] = Shifted(v, s, i)  BY <3>0
    <3>2. wshr(v[i - 1], W - s) = 0
      <4>1. CASE i = n  BY <2>6, <4>1
      <4>2. CASE i # n
        <5>1. v[i - 1] = 0  BY <3>0, <4>2
        <5>. QED  BY <2>5, <5>1
      <4>. QED  BY <4>1, <4>2
    <3>3. CASE i = N
      <4>1. Shifted(v, s, N) = wshr(v[N - 1], W - s)  BY DEF Shifted, N
      <4>. QED  BY <3>1, <3>2, <3>3, <4>1
    <3>4. CASE i # N
      <4>1. Shifted(v, s, i) = wshl(v[i], s) + wshr(v[i - 1], W - s)
        BY <3>0, <3>4 DEF Shifted
      <4>2. v[i] = 0  BY <3>0, <3>4
      <4>. QED  BY <2>5, <3>1, <3>2, <4>1, <4>2
    <3>. QED  BY <3>3, <3>4
  <2>8. \A i \in n..N - 1 : d[i] = 0
    <3>1. \A i \in n..N - 1 : i \in n..N /\ i \in 0..N - 1  BY <1>0 DEF N
    <3>. HIDE DEF u
    <3>. QED  BY <2>3, <2>7, <3>1
  <2>9. Number(d) = Number(u)
    <3>1. u[0] = d[0] /\ u[1] = d[1] /\ u[2] = d[2] /\ u[3] = d[3] /\ u[4] = 0
      <4>1. 0 \in 0..N - 1 /\ 1 \in 0..N - 1 /\ 2 \in 0..N - 1 /\ 3 \in 0..N - 1  BY DEF N
      <4>2. 4 \in n..N  BY <1>0 DEF N
      <4>. HIDE DEF u
      <4>. QED  BY <2>3, <2>7, <4>1, <4>2
    <3>. HIDE DEF u
    <3>2. Number(u) = d[0] + B * (d[1] + B * (d[2] + B * (d[3] + B * 0)))
      BY <2>1, <3>1, Number5Is DEF Weighted
    <3>3. d[3] + B * 0 = d[3]
      <4>1. d[3] \in 0..B - 1  BY <2>4, WordsIn
      <4>. QED  BY <4>1, Base
    <3>. QED  BY <2>4, <3>2, <3>3, WordsIn
  <2>10. Divisor(d[n - 1])
    <3>1. d[n - 1] \in Word /\ d[n - 1] = Shifted(v, s, n - 1)  BY <1>0, <2>2, <2>3
    <3>2. Shifted(v, s, n - 1) >= top * 2^s
      <4>0. top * 2^s \in Int /\ n - 1 # N  BY <1>0 DEF Word, N
      <4>1. CASE n - 1 = 0  BY <2>6, <4>0, <4>1 DEF Shifted
      <4>2. CASE n - 1 # 0
        <5>. DEFINE l == v[(n - 1) - 1]
                    e == wshr(l, W - s)
                    f == top * 2^s
        <5>1. (n - 1) - 1 \in 0..N - 1  BY <1>0, <4>2 DEF N
        <5>2. l \in Word  BY <5>1 DEF Words
        <5>3. e \in 0..2^s - 1 /\ e \in Int
          <6>. HIDE DEF l
          <6>. QED  BY <2>0, <5>2, ShiftsWord
        <5>4. Shifted(v, s, n - 1) = wshl(top, s) + e  BY <4>0, <4>2 DEF Shifted
        <5>. HIDE DEF e, f
        <5>5. f + e >= f  BY <4>0, <5>3 DEF f
        <5>. QED  BY <2>6, <5>4, <5>5 DEF f
      <4>. QED  BY <4>1, <4>2
    <3>3. d[n - 1] \in Int /\ top * 2^s \in Int  BY <1>0, <3>1 DEF Word
    <3>. QED  BY <1>0, <3>1, <3>2, <3>3 DEF Divisor
  <2>. QED  BY <2>1, <2>4, <2>8, <2>9, <2>10 DEF IsDenominator
<1>3. s = 0 \/ s > 0  BY <1>0
<1>. QED  BY <1>1, <1>2, <1>3, Zenon

LEMMA NormalizeIs ==
    ASSUME NEW u \in Words, NEW v \in Words \ {Zero}
    PROVE  Normalized(normalize(u, v), u, v)
<1>. DEFINE n == Significant(v)
            m == Significant(u)
            s == wclz(v[n - 1])
            a == normalize(u, v)
            p == a.numerator
            d == a.denominator
<1>1. n \in 1..N /\ v[n - 1] # 0 /\ \A i \in n..N - 1 : v[i] = 0
  <2>1. /\ n \in 0..N
        /\ n > 0 => v[n - 1] # 0
        /\ \A i \in n..N - 1 : v[i] = 0
    BY SignificantIs
  <2>2. ASSUME n = 0 PROVE FALSE
    <3>1. Number(v) < 1  BY <2>2, SignificantBounds, Places
    <3>2. Number(v) = 0
      <4>1. Number(v) \in Nat  BY WordsAre, WideIs256
      <4>. QED  BY <3>1, <4>1
    <3>. QED  BY <3>2, OneIs, WordsEqual
  <2>3. n \in 1..N
    <3>. HIDE DEF n
    <3>. QED  BY <2>1, <2>2 DEF N
  <2>4. n > 0
    <3>. HIDE DEF n
    <3>. QED  BY <2>3 DEF N
  <2>. QED  BY <2>1, <2>3, <2>4
<1>2. s \in 0..W - 1
  <2>1. v[n - 1] \in Word
    <3>1. n - 1 \in 0..N - 1
      <4>. HIDE DEF n
      <4>. QED  BY <1>1 DEF N
    <3>. QED  BY <3>1 DEF Words
  <2>. QED  BY <1>1, <2>1, WclzIs
<1>3. /\ a.m = m /\ a.n = n /\ a.shift = s
      /\ p = ShiftedNumerator(u, s)
      /\ d = ShiftedDenominator(v, s)
  BY DEF normalize, ShiftedNumerator, ShiftedDenominator
<1>. HIDE DEF n, m, s, a
<1>4. /\ p \in Words5 /\ Number(p) = Number(u) * 2^s
      /\ \A i \in m + 1..N : p[i] = 0
      /\ 2 * Number(p) < Place(m + 1)
  <2>1. m = Significant(u)  BY DEF m
  <2>2. p = ShiftedNumerator(u, s)  BY <1>3
  <2>. HIDE DEF p
  <2>3. IsNumerator(p, u, s, m)  BY <1>2, <2>1, <2>2, NumeratorIs, Zenon
  <2>. QED  BY <2>3 DEF IsNumerator
<1>5. /\ d \in Words /\ Number(d) = Number(v) * 2^s
      /\ \A i \in n..N - 1 : d[i] = 0
      /\ Divisor(d[n - 1])
  <2>1. s = wclz(v[n - 1])  BY DEF s
  <2>2. d = ShiftedDenominator(v, s) /\ v \in Words  BY <1>3
  <2>. HIDE DEF d
  <2>3. IsDenominator(d, v, n, s)  BY <1>1, <2>1, <2>2, DenominatorIs, Zenon
  <2>. QED  BY <2>3 DEF IsDenominator
<1>6. m \in 0..N /\ m \in Nat /\ n \in Nat /\ n >= 1 /\ n - 1 \in 0..N - 1
  <2>1. m \in 0..N  BY SignificantIs DEF m
  <2>. QED  BY <1>1, <2>1 DEF N
(* The divisor's leading bit is the top one of its words.                      *)
<1>7. Place(n) <= 2 * Number(d)
  <2>. DEFINE P == Place(n - 1)
              t == d[n - 1]
  <2>1. n - 1 \in Nat /\ (n - 1) + 1 = n  BY <1>6
  <2>2. Place(n) = P * B /\ P \in Nat \ {0}
    <3>1. Place((n - 1) + 1) = P * B /\ P \in Nat \ {0}  BY <2>1, Places
    <3>. QED  BY <2>1, <3>1
  <2>3. t * P <= Number(d) /\ t * P \in Int  BY <1>5, <1>6, WordAtPlace
  <2>4. B <= 2 * t /\ t \in Int  BY <1>5, DivisorIs
  <2>5. Number(d) \in Int  BY <1>5, WordsAre
  <2>. HIDE DEF P, t
  <2>6. P * B <= P * (2 * t) /\ P * (2 * t) = 2 * (t * P) /\ P * B \in Int  BY <2>2, <2>4, Base
  <2>. QED  BY <2>2, <2>3, <2>5, <2>6
<1>8. ASSUME n <= m PROVE Number(p) < Number(d) * Place(m - n + 1)
  <2>. DEFINE k == m - n + 1
              P == Place(k)
              Q == Place(n)
              D == Number(d)
              e == Number(p)
  <2>1. k \in Nat /\ n + k = m + 1  BY <1>6, <1>8
  <2>2. Place(m + 1) = Q * P /\ Q \in Nat \ {0} /\ P \in Nat \ {0}
    <3>. HIDE DEF k
    <3>1. Place(n + k) = Q * P /\ Q \in Nat \ {0} /\ P \in Nat \ {0}
      BY <1>6, <2>1, PlaceSum, Places
    <3>. QED  BY <2>1, <3>1
  <2>3. D \in Int /\ e \in Int
    <3>1. Number(u) \in Int /\ 2^s \in Int
      <4>1. s \in Nat  BY <1>2, Base
      <4>. QED  BY <4>1, WordsAre, Shifts
    <3>. DEFINE f == 2^s
    <3>2. e = Number(u) * f  BY <1>4
    <3>. HIDE DEF f, e
    <3>. QED  BY <1>5, <3>1, <3>2, WordsAre DEF f
  <2>4. Q <= 2 * D /\ 2 * e < Q * P  BY <1>4, <1>7, <2>2
  <2>. HIDE DEF Q, P, D, e, k
  <2>5. Q * P <= (2 * D) * P /\ (2 * D) * P = 2 * (D * P) /\ D * P \in Int /\ Q * P \in Int
    BY <2>2, <2>3, <2>4
  <2>6. e < D * P  BY <2>3, <2>4, <2>5
  <2>. QED  BY <2>6 DEF D, P, e, k
<1>9. ASSUME n > m PROVE Number(u) < Number(v)
  <2>1. Number(u) < Place(m) /\ Place(n - 1) <= Number(v)
    <3>1. n > 0  BY <1>6
    <3>. QED  BY <3>1, SignificantBounds DEF n, m
  <2>2. Place(m) <= Place(n - 1) /\ Place(m) \in Int /\ Place(n - 1) \in Int
    <3>. DEFINE k == n - 1 - m
    <3>1. k \in Nat /\ m + k = n - 1 /\ n - 1 \in Nat  BY <1>6, <1>9
    <3>. HIDE DEF k
    <3>2. Place(m + k) = Place(m) * Place(k) /\ Place(k) \in Nat \ {0} /\ Place(m) \in Nat \ {0}
      BY <1>6, <3>1, PlaceSum, Places
    <3>. DEFINE a0 == Place(m)
                c0 == Place(k)
    <3>3. a0 \in Nat /\ c0 \in Nat /\ 1 <= c0
      <4>. HIDE DEF a0, c0
      <4>. QED  BY <3>2 DEF a0, c0
    <3>. HIDE DEF a0, c0
    <3>4. a0 <= a0 * c0 /\ a0 * c0 \in Nat  BY <3>3, TimesOne
    <3>. QED  BY <3>1, <3>2, <3>4 DEF a0, c0
  <2>3. Number(u) \in Int /\ Number(v) \in Int  BY WordsAre
  <2>. QED  BY <2>1, <2>2, <2>3
<1>. QED  BY <1>1, <1>2, <1>3, <1>4, <1>5, <1>6, <1>8, <1>9 DEF Normalized, a

-------------------------------------------------------------------------------
(* Parts of an array of words.                                                 *)

(* The words up to k, and those above it.                                      *)
UpTo(w, k)  == [i \in 0..N |-> IF i > k THEN 0 ELSE w[i]]
Above(w, k) == [i \in 0..N |-> IF i > k THEN w[i] ELSE 0]

LEMMA Words5In ==
    ASSUME NEW w \in Words5
    PROVE  /\ \A i \in 0..N : w[i] \in Word /\ w[i] \in Int /\ w[i] \in Nat
           /\ w[0] \in Nat /\ w[1] \in Nat /\ w[2] \in Nat /\ w[3] \in Nat /\ w[4] \in Nat
           /\ w = [i \in 0..N |-> w[i]]
<1>1. \A i \in 0..N : w[i] \in Word /\ w[i] \in Int /\ w[i] \in Nat  BY Base DEF Words5, Word
<1>2. 0 \in 0..N /\ 1 \in 0..N /\ 2 \in 0..N /\ 3 \in 0..N /\ 4 \in 0..N  BY DEF N
<1>. QED  BY <1>1, <1>2 DEF Words5

(* The number as a sum over the places.                                        *)
LEMMA PlacesSum ==
    ASSUME NEW w \in Words5
    PROVE  /\ Number(w) = w[0] * Place(0) + w[1] * Place(1) + w[2] * Place(2)
                            + w[3] * Place(3) + w[4] * Place(4)
           /\ \A i \in 0..N : w[i] * Place(i) \in Nat
<1>. DEFINE b == B
            a0 == w[0]
            a1 == w[1]
            a2 == w[2]
            a3 == w[3]
            a4 == w[4]
<1>0. /\ b \in Nat /\ a0 \in Nat /\ a1 \in Nat /\ a2 \in Nat /\ a3 \in Nat /\ a4 \in Nat
      /\ Number(w) = a0 + b * (a1 + b * (a2 + b * (a3 + b * a4)))
      /\ Place(0) = 1 /\ Place(1) = b /\ Place(2) = b * b /\ Place(3) = (b * b) * b
      /\ Place(4) = ((b * b) * b) * b
  <2>1. Place(3 + 1) = Place(3) * b /\ 3 + 1 = 4  BY Places
  <2>. QED  BY <2>1, Base, Words5In, Number5Is, Places DEF Full, Weighted
<1>1. \A i \in 0..N : w[i] * Place(i) \in Nat
  <2>1. ASSUME NEW i \in 0..N PROVE w[i] * Place(i) \in Nat
    <3>. DEFINE e == w[i]
                p == Place(i)
    <3>1. e \in Nat /\ p \in Nat  BY Words5In, Places DEF N
    <3>. HIDE DEF e, p
    <3>2. e * p \in Nat  BY <3>1
    <3>. QED  BY <3>2 DEF e, p
  <2>. QED  BY <2>1
<1>. HIDE DEF b, a0, a1, a2, a3, a4
<1>2. a0 + b * (a1 + b * (a2 + b * (a3 + b * a4)))
        = a0 * 1 + a1 * b + a2 * (b * b) + a3 * ((b * b) * b) + a4 * (((b * b) * b) * b)
  BY <1>0
<1>. QED  BY <1>0, <1>1, <1>2 DEF a0, a1, a2, a3, a4

(* A word changed.                                                             *)
LEMMA WordChanged ==
    ASSUME NEW w \in Words5, NEW k \in 0..N, NEW e \in Word
    PROVE  /\ [w EXCEPT ![k] = e] \in Words5
           /\ Number([w EXCEPT ![k] = e]) = Number(w) + (e - w[k]) * Place(k)
<1>. DEFINE z == [w EXCEPT ![k] = e]
            p0 == w[0] * Place(0)
            p1 == w[1] * Place(1)
            p2 == w[2] * Place(2)
            p3 == w[3] * Place(3)
            p4 == w[4] * Place(4)
            new == e * Place(k)
            old == w[k] * Place(k)
<1>1. z \in Words5  BY DEF Words5
<1>2. z[k] = e /\ \A i \in 0..N : i # k => z[i] = w[i]  BY DEF Words5
<1>3. 0 \in 0..N /\ 1 \in 0..N /\ 2 \in 0..N /\ 3 \in 0..N /\ 4 \in 0..N
      /\ k \in {0, 1, 2, 3, 4}
  BY DEF N
<1>4. p0 \in Nat /\ p1 \in Nat /\ p2 \in Nat /\ p3 \in Nat /\ p4 \in Nat /\ new \in Nat
      /\ old \in Nat /\ Number(w) = p0 + p1 + p2 + p3 + p4
  <2>1. p0 \in Nat /\ p1 \in Nat /\ p2 \in Nat /\ p3 \in Nat /\ p4 \in Nat /\ old \in Nat
        /\ Number(w) = p0 + p1 + p2 + p3 + p4
    BY <1>3, PlacesSum
  <2>2. z[k] * Place(k) \in Nat
    <3>. HIDE DEF z
    <3>. QED  BY <1>1, PlacesSum
  <2>. QED  BY <1>2, <2>1, <2>2
<1>5. Number(z) = z[0] * Place(0) + z[1] * Place(1) + z[2] * Place(2)
                    + z[3] * Place(3) + z[4] * Place(4)
  <2>. HIDE DEF z
  <2>. QED  BY <1>1, PlacesSum
<1>. HIDE DEF z
<1>6. (e - w[k]) * Place(k) = new - old
  <2>. DEFINE p == Place(k)
              f == w[k]
  <2>1. p \in Int /\ f \in Int /\ e \in Int  BY Base, Words5In, Places DEF N, Word
  <2>. HIDE DEF p, f
  <2>2. (e - f) * p = e * p - f * p  BY <2>1
  <2>. QED  BY <2>2 DEF p, f
<1>7. CASE k = 0
  <2>1. Number(z) = new + p1 + p2 + p3 + p4 /\ old = p0  BY <1>2, <1>3, <1>5, <1>7
  <2>. HIDE DEF new, old, p0, p1, p2, p3, p4
  <2>. QED  BY <1>1, <1>4, <1>6, <2>1 DEF z
<1>8. CASE k = 1
  <2>1. Number(z) = p0 + new + p2 + p3 + p4 /\ old = p1  BY <1>2, <1>3, <1>5, <1>8
  <2>. HIDE DEF new, old, p0, p1, p2, p3, p4
  <2>. QED  BY <1>1, <1>4, <1>6, <2>1 DEF z
<1>9. CASE k = 2
  <2>1. Number(z) = p0 + p1 + new + p3 + p4 /\ old = p2  BY <1>2, <1>3, <1>5, <1>9
  <2>. HIDE DEF new, old, p0, p1, p2, p3, p4
  <2>. QED  BY <1>1, <1>4, <1>6, <2>1 DEF z
<1>10. CASE k = 3
  <2>1. Number(z) = p0 + p1 + p2 + new + p4 /\ old = p3  BY <1>2, <1>3, <1>5, <1>10
  <2>. HIDE DEF new, old, p0, p1, p2, p3, p4
  <2>. QED  BY <1>1, <1>4, <1>6, <2>1 DEF z
<1>11. CASE k = 4
  <2>1. Number(z) = p0 + p1 + p2 + p3 + new /\ old = p4  BY <1>2, <1>3, <1>5, <1>11
  <2>. HIDE DEF new, old, p0, p1, p2, p3, p4
  <2>. QED  BY <1>1, <1>4, <1>6, <2>1 DEF z
<1>. QED  BY <1>3, <1>7, <1>8, <1>9, <1>10, <1>11

LEMMA PartsAre ==
    ASSUME NEW w \in Words5, NEW k \in Int
    PROVE  /\ UpTo(w, k) \in Words5 /\ Above(w, k) \in Words5
           /\ Number(w) = Number(Above(w, k)) + Number(UpTo(w, k))
           /\ Number(Above(w, k)) \in Nat /\ Number(UpTo(w, k)) \in Nat
           /\ Number(w) \in Nat
<1>. DEFINE u == UpTo(w, k)
            v == Above(w, k)
<1>0. 0 \in Word  BY Base DEF Word
<1>1. u \in Words5 /\ v \in Words5  BY <1>0 DEF UpTo, Above, Words5
<1>2. \A i \in 0..N : w[i] * Place(i) = v[i] * Place(i) + u[i] * Place(i)
  <2>1. ASSUME NEW i \in 0..N PROVE w[i] * Place(i) = v[i] * Place(i) + u[i] * Place(i)
    <3>. DEFINE p == Place(i)
                e == w[i]
    <3>1. p \in Int /\ e \in Int  BY Words5In, Places DEF N
    <3>2. (u[i] = 0 /\ v[i] = e) \/ (u[i] = e /\ v[i] = 0)  BY DEF UpTo, Above
    <3>. HIDE DEF p, e
    <3>3. 0 * p = 0 /\ e * p \in Int  BY <3>1
    <3>4. e * p = 0 * p + e * p /\ e * p = e * p + 0 * p  BY <3>3
    <3>. HIDE DEF u, v
    <3>. QED  BY <3>2, <3>4 DEF p, e
  <2>. QED  BY <2>1
<1>3. /\ 0 \in 0..N /\ 1 \in 0..N /\ 2 \in 0..N /\ 3 \in 0..N /\ 4 \in 0..N  BY DEF N
<1>. HIDE DEF u, v
<1>. DEFINE P(z, i) == z[i] * Place(i)
<1>4. ASSUME NEW z \in Words5
      PROVE  /\ Number(z) = P(z, 0) + P(z, 1) + P(z, 2) + P(z, 3) + P(z, 4)
             /\ P(z, 0) \in Nat /\ P(z, 1) \in Nat /\ P(z, 2) \in Nat /\ P(z, 3) \in Nat
             /\ P(z, 4) \in Nat
  BY <1>3, PlacesSum
<1>5. /\ P(w, 0) = P(v, 0) + P(u, 0) /\ P(w, 1) = P(v, 1) + P(u, 1)
      /\ P(w, 2) = P(v, 2) + P(u, 2) /\ P(w, 3) = P(v, 3) + P(u, 3)
      /\ P(w, 4) = P(v, 4) + P(u, 4)
  BY <1>2, <1>3
<1>. HIDE DEF P
<1>6. Number(w) \in Nat /\ Number(v) \in Nat /\ Number(u) \in Nat
  BY <1>1, <1>4
<1>7. Number(w) = Number(v) + Number(u)
  BY <1>1, <1>4, <1>5
<1>. QED  BY <1>1, <1>6, <1>7 DEF u, v

LEMMA PlacesGrow ==
    ASSUME NEW k \in Nat, NEW l \in Nat, k <= l
    PROVE  Place(k) <= Place(l) /\ Place(k) \in Nat \ {0} /\ Place(l) \in Nat \ {0}
<1>. DEFINE e == l - k
            a == Place(k)
            c == Place(e)
<1>1. e \in Nat /\ k + e = l  OBVIOUS
<1>. HIDE DEF e
<1>2. Place(k + e) = a * c /\ a \in Nat \ {0} /\ c \in Nat \ {0} /\ Place(l) \in Nat \ {0}
  BY <1>1, PlaceSum, Places
<1>. HIDE DEF a, c
<1>3. a <= a * c  BY <1>2, TimesOne
<1>. QED  BY <1>1, <1>2, <1>3 DEF a

LEMMA PartsStep ==
    ASSUME NEW w \in Words5, NEW k \in 0..N
    PROVE  /\ Number(UpTo(w, k)) = w[k] * Place(k) + Number(UpTo(w, k - 1))
           /\ Number(Above(w, k - 1)) = Number(Above(w, k)) + w[k] * Place(k)
<1>. DEFINE u == UpTo(w, k - 1)
            v == Above(w, k)
            e == w[k]
            p == Place(k)
<1>0. k \in Int /\ k - 1 \in Int /\ k \in Nat  BY DEF N
<1>1. u \in Words5 /\ v \in Words5 /\ e \in Word /\ e \in Int /\ p \in Int
      /\ Number(u) \in Int /\ Number(v) \in Int
  <2>1. e \in Word /\ e \in Int  BY Words5In
  <2>2. p \in Int  BY <1>0, Places
  <2>3. u \in Words5 /\ Number(u) \in Int
    <3>. DEFINE f == k - 1
    <3>1. f \in Int  BY <1>0
    <3>. HIDE DEF f
    <3>2. UpTo(w, f) \in Words5 /\ Number(UpTo(w, f)) \in Nat  BY <3>1, PartsAre
    <3>. QED  BY <3>2 DEF f
  <2>4. v \in Words5 /\ Number(v) \in Int  BY <1>0, PartsAre
  <2>. QED  BY <2>1, <2>2, <2>3, <2>4
<1>2. u[k] = 0 /\ v[k] = 0  BY DEF UpTo, Above, N
<1>3. UpTo(w, k) = [u EXCEPT ![k] = e]
  <2>1. \A i \in 0..N : UpTo(w, k)[i] = [u EXCEPT ![k] = e][i]
    BY DEF UpTo, N
  <2>. QED  BY <2>1 DEF UpTo
<1>4. Above(w, k - 1) = [v EXCEPT ![k] = e]
  <2>1. \A i \in 0..N : Above(w, k - 1)[i] = [v EXCEPT ![k] = e][i]
    BY DEF Above, N
  <2>. QED  BY <2>1 DEF Above
<1>. HIDE DEF u, v, e
<1>5. Number([u EXCEPT ![k] = e]) = Number(u) + (e - u[k]) * p
  BY <1>1, WordChanged
<1>6. Number([v EXCEPT ![k] = e]) = Number(v) + (e - v[k]) * p
  BY <1>1, WordChanged
<1>. HIDE DEF p
<1>7. (e - 0) * p = e * p /\ e * p \in Int  BY <1>1
<1>. QED  BY <1>1, <1>2, <1>3, <1>4, <1>5, <1>6, <1>7 DEF u, v, e, p

LEMMA PartsEnd ==
    ASSUME NEW w \in Words5
    PROVE  /\ Number(UpTo(w, -1)) = 0 /\ Above(w, -1) = w
           /\ UpTo(w, N) = w /\ Number(Above(w, N)) = 0
<1>1. Above(w, -1) = w /\ UpTo(w, N) = w
  <2>1. \A i \in 0..N : Above(w, -1)[i] = w[i]  BY DEF Above, N
  <2>2. \A i \in 0..N : UpTo(w, N)[i] = w[i]  BY DEF UpTo, N
  <2>. QED  BY <2>1, <2>2, Words5In DEF Above, UpTo
<1>2. -1 \in Int /\ N \in Int  BY DEF N
<1>3. Number(w) = Number(Above(w, -1)) + Number(UpTo(w, -1))
      /\ Number(UpTo(w, -1)) \in Nat /\ Number(w) \in Nat
  BY <1>2, PartsAre
<1>4. Number(w) = Number(Above(w, N)) + Number(UpTo(w, N))
      /\ Number(Above(w, N)) \in Nat /\ Number(w) \in Nat
  BY <1>2, PartsAre
<1>. QED  BY <1>1, <1>3, <1>4

LEMMA UpToBounded ==
    ASSUME NEW w \in Words5, NEW k \in -1..N
    PROVE  Number(UpTo(w, k)) < Place(k + 1)
<1>. DEFINE S == {i \in Nat : i <= N + 1 => Number(UpTo(w, i - 1)) < Place(i)}
<1>1. 0 \in S
  <2>1. 0 - 1 = -1 /\ 0 \in Nat  OBVIOUS
  <2>2. Number(UpTo(w, -1)) < Place(0)  BY PartsEnd, Places
  <2>. QED  BY <2>1, <2>2
<1>2. ASSUME NEW i \in S PROVE i + 1 \in S
  <2>1. i \in Nat /\ (i + 1) - 1 = i  OBVIOUS
  <2>2. CASE i + 1 <= N + 1
    <3>. DEFINE p == Place(i)
                e == w[i]
                t == Number(UpTo(w, i - 1))
                z == Number(UpTo(w, i))
    <3>1. i \in 0..N /\ i <= N + 1  BY <2>1, <2>2 DEF N
    <3>2. t < p  BY <3>1
    <3>3. z = e * p + t  BY <3>1, PartsStep
    <3>4. Place(i + 1) = p * B /\ p \in Nat /\ e \in 0..B - 1 /\ t \in Nat
      <4>1. i - 1 \in Int /\ e \in Word  BY <2>1, <3>1, Words5In
      <4>. QED  BY <2>1, <4>1, Places, PartsAre DEF Word
    <3>. HIDE DEF p, e, t, z
    <3>5. e * p + p <= p * B /\ e * p \in Int /\ p * B \in Int
      <4>1. (e + 1) * p <= B * p  BY <3>4, Base
      <4>2. (e + 1) * p = e * p + p /\ B * p = p * B /\ e * p \in Int /\ p * B \in Int
        BY <3>4, Base
      <4>. QED  BY <4>1, <4>2
    <3>6. z < Place(i + 1)  BY <3>2, <3>3, <3>4, <3>5
    <3>. QED  BY <2>1, <3>6 DEF z
  <2>. QED  BY <2>1, <2>2
<1>3. S \in SUBSET Nat  OBVIOUS
<1>. HIDE DEF S
<1>4. \A i \in Nat : i \in S  BY <1>1, <1>2, <1>3, NatInduct
<1>5. k + 1 \in Nat /\ (k + 1) - 1 = k /\ k + 1 <= N + 1  BY DEF N
<1>6. k + 1 \in S  BY <1>4, <1>5
<1>7. k + 1 <= N + 1 => Number(UpTo(w, (k + 1) - 1)) < Place(k + 1)  BY <1>6 DEF S
<1>. QED  BY <1>5, <1>7

(* A word at its place is not more than the whole; a small number has no high  *)
(* words.                                                                      *)
LEMMA HighWords ==
    ASSUME NEW w \in Words5
    PROVE  /\ \A i \in 0..N : w[i] * Place(i) <= Number(w)
           /\ \A k \in 0..N + 1 : Number(w) < Place(k) => \A i \in k..N : w[i] = 0
<1>1. ASSUME NEW i \in 0..N PROVE w[i] * Place(i) <= Number(w)
  <2>. DEFINE e == w[i] * Place(i)
              t == Number(UpTo(w, i - 1))
              v == Number(Above(w, i))
              z == Number(UpTo(w, i))
  <2>1. i \in Int /\ i - 1 \in Int  BY DEF N
  <2>2. z = e + t /\ t \in Nat /\ v \in Nat /\ z \in Nat /\ Number(w) = v + z /\ e \in Nat
    BY <2>1, PartsStep, PartsAre, PlacesSum
  <2>. HIDE DEF e, t, v, z
  <2>3. e <= Number(w)  BY <2>2
  <2>. QED  BY <2>3 DEF e
<1>2. ASSUME NEW k \in 0..N + 1, Number(w) < Place(k), NEW i \in k..N PROVE w[i] = 0
  <2>. DEFINE e == w[i]
              p == Place(i)
  <2>1. i \in 0..N /\ i \in Nat /\ k \in Nat /\ k <= i  BY DEF N
  <2>2. e * p <= Number(w) /\ e \in Nat /\ e * p \in Nat  BY <1>1, <2>1, Words5In, PlacesSum
  <2>3. Place(k) <= p /\ p \in Nat \ {0} /\ Place(k) \in Nat  BY <2>1, PlacesGrow
  <2>4. Number(w) \in Nat  BY <2>1, PartsAre
  <2>. HIDE DEF e, p
  <2>5. e * p < p  BY <1>2, <2>2, <2>3, <2>4
  <2>6. ASSUME e >= 1 PROVE FALSE
    <3>1. 1 * p <= e * p /\ 1 * p = p  BY <2>2, <2>3, <2>6
    <3>. QED  BY <2>2, <2>3, <2>5, <3>1
  <2>7. e = 0  BY <2>2, <2>6
  <2>. QED  BY <2>7 DEF e
<1>. QED  BY <1>1, <1>2

(* A uint256 as an array of five words, and back.                              *)
Widened(w)  == [i \in 0..N |-> IF i < N THEN w[i] ELSE 0]
Narrowed(w) == [i \in 0..N - 1 |-> w[i]]

LEMMA WidenedIs ==
    ASSUME NEW w \in Words
    PROVE  /\ Widened(w) \in Words5 /\ Number(Widened(w)) = Number(w)
           /\ \A i \in 0..N - 1 : Widened(w)[i] = w[i] /\ i \in 0..N
           /\ Widened(w)[N] = 0
<1>. DEFINE u == Widened(w)
<1>1. 0 \in Word  BY Base DEF Word
<1>2. u \in Words5  BY <1>1 DEF Widened, Words5, Words, N
<1>3. \A i \in 0..N - 1 : u[i] = w[i] /\ i \in 0..N  BY DEF Widened, N
<1>4. u[0] = w[0] /\ u[1] = w[1] /\ u[2] = w[2] /\ u[3] = w[3] /\ u[4] = 0 /\ u[N] = 0
  BY DEF Widened, N
<1>. HIDE DEF u
<1>5. w[3] + B * 0 = w[3]
  <2>1. w[3] \in Int  BY WordsIn, Base
  <2>. QED  BY <2>1, Base
<1>6. Number(u) = w[0] + B * (w[1] + B * (w[2] + B * (w[3] + B * 0)))
  BY <1>2, <1>4, Number5Is DEF Weighted
<1>7. Number(u) = Number(w)  BY <1>5, <1>6, WordsIn
<1>. QED  BY <1>2, <1>3, <1>4, <1>7 DEF u

LEMMA NarrowedIs ==
    ASSUME NEW w \in Words5, w[N] = 0
    PROVE  Narrowed(w) \in Words /\ Number(Narrowed(w)) = Number(w)
<1>. DEFINE u == Narrowed(w)
<1>1. u \in Words
  <2>1. \A i \in 0..N - 1 : w[i] \in Word
    <3>1. \A i \in 0..N - 1 : i \in 0..N  BY DEF N
    <3>. QED  BY <3>1, Words5In
  <2>. QED  BY <2>1 DEF Narrowed, Words
<1>2. Widened(u) = w
  <2>1. \A i \in 0..N : Widened(u)[i] = w[i]
    <3>1. ASSUME NEW i \in 0..N PROVE Widened(u)[i] = w[i]
      <4>1. CASE i = N  BY <4>1 DEF Widened, N
      <4>2. CASE i # N
        <5>1. i \in 0..N - 1 /\ i < N  BY <4>2 DEF N
        <5>. QED  BY <5>1 DEF Widened, Narrowed
      <4>. QED  BY <4>1, <4>2
    <3>. QED  BY <3>1
  <2>. HIDE DEF u
  <2>. QED  BY <2>1, Words5In DEF Widened
<1>. HIDE DEF u
<1>3. Number(Widened(u)) = Number(u)  BY <1>1, WidenedIs
<1>. QED  BY <1>1, <1>2, <1>3 DEF u

LEMMA DigitWritten ==
    ASSUME NEW w \in Words, NEW k \in 0..N - 1, NEW e \in Word
    PROVE  /\ [w EXCEPT ![k] = e] \in Words
           /\ Number([w EXCEPT ![k] = e]) = Number(w) + (e - w[k]) * Place(k)
<1>. DEFINE u == Widened(w)
            z == [w EXCEPT ![k] = e]
<1>1. u \in Words5 /\ Number(u) = Number(w) /\ u[k] = w[k] /\ k \in 0..N
  BY WidenedIs
<1>2. z \in Words  BY DEF Words
<1>3. Widened(z) = [u EXCEPT ![k] = e]
  <2>1. \A i \in 0..N : Widened(z)[i] = [u EXCEPT ![k] = e][i]
    <3>1. ASSUME NEW i \in 0..N PROVE Widened(z)[i] = [u EXCEPT ![k] = e][i]
      <4>1. CASE i = k
        <5>1. Widened(z)[i] = z[k] /\ z[k] = e  BY <4>1 DEF Widened, Words, N
        <5>2. [u EXCEPT ![k] = e][i] = e  BY <4>1 DEF Widened
        <5>. QED  BY <5>1, <5>2
      <4>2. CASE i # k
        <5>1. Widened(z)[i] = Widened(w)[i]  BY <4>2 DEF Widened, Words, N
        <5>2. [u EXCEPT ![k] = e][i] = u[i]  BY <4>2 DEF Widened
        <5>. QED  BY <5>1, <5>2
      <4>. QED  BY <4>1, <4>2
    <3>. QED  BY <3>1
  <2>. HIDE DEF z
  <2>. QED  BY <2>1 DEF Widened
<1>. HIDE DEF u, z
<1>4. Number(Widened(z)) = Number(z)  BY <1>2, WidenedIs
<1>5. Number([u EXCEPT ![k] = e]) = Number(u) + (e - u[k]) * Place(k)
  BY <1>1, WordChanged
<1>. QED  BY <1>1, <1>2, <1>3, <1>4, <1>5 DEF z

-------------------------------------------------------------------------------
(* The inductive invariant of the loops.                                       *)

(* With w, z, t and k for un, q, r and j: the quotient's digits found so far,  *)
(* and what is still to be divided.                                            *)
Digits(a, w, z, k) == IF a.n > 2 THEN Number(z) ELSE Number(Above(w, k))
Rest(a, w, t, k)   == IF a.n > 2 THEN Number(w)
                      ELSE Val(t) * Place(k + 1) + Number(UpTo(w, k))

Exact(a, w, z, t, k) ==
    /\ Digits(a, w, z, k) * Number(a.denominator) + Rest(a, w, t, k) = Number(a.numerator)
    /\ Rest(a, w, t, k) < Number(a.denominator) * Place(k + 1)

(* The guess e is the next digit or one more.                                  *)
OneOff(a, w, k, e) == e - (Number(w) \div (Number(a.denominator) * Place(k))) \in {0, 1}

Dividing(a, w, z, t, k, e) ==
    /\ w \in Words5 /\ z \in Words /\ t \in uint128 /\ k \in -1..N - 1
    /\ e \in Word \cup {NoDigit}
    /\ a.n > a.m => k = -1
    /\ a.n <= a.m => k <= a.m - a.n /\ Exact(a, w, z, t, k)
    /\ a.n > 2 => \A i \in 0..k : z[i] = 0
    /\ e # NoDigit => k >= 0 /\ a.n > 2 /\ OneOff(a, w, k, e)

IInv ==
    /\ x \in Words /\ y \in Words \ {Zero}
    /\ IF na = Raw
       THEN un = [i \in 0..N |-> 0] /\ q = Zero /\ r = zero /\ j = -1 /\ qhat = NoDigit
       ELSE Normalized(na, x, y) /\ Dividing(na, un, q, r, j, qhat)

(* Nothing but zeros above word k.                                             *)
LEMMA ZerosAbove ==
    ASSUME NEW w \in Words5, NEW k \in Int, \A i \in k + 1..N : w[i] = 0
    PROVE  UpTo(w, k) = w /\ Number(Above(w, k)) = 0 /\ Number(UpTo(w, k)) = Number(w)
<1>1. \A i \in 0..N : UpTo(w, k)[i] = w[i]
  <2>1. ASSUME NEW i \in 0..N PROVE UpTo(w, k)[i] = w[i]
    <3>1. i > k => w[i] = 0
      <4>1. i > k => i \in k + 1..N  BY DEF N
      <4>. QED  BY <4>1
    <3>. QED  BY <3>1 DEF UpTo
  <2>. QED  BY <2>1
<1>2. UpTo(w, k) = w  BY <1>1, Words5In DEF UpTo
<1>3. Number(w) = Number(Above(w, k)) + Number(UpTo(w, k))
      /\ Number(Above(w, k)) \in Nat /\ Number(w) \in Nat
  BY PartsAre
<1>. QED  BY <1>2, <1>3

LEMMA SameParts ==
    ASSUME NEW w, NEW z, NEW k \in Int
    PROVE  /\ (\A i \in 0..N : i <= k => w[i] = z[i]) => UpTo(w, k) = UpTo(z, k)
           /\ (\A i \in 0..N : i > k => w[i] = z[i]) => Above(w, k) = Above(z, k)
<1>1. \A i \in 0..N : i \in Int  BY DEF N
<1>2. \A i \in 0..N : i > k \/ i <= k  BY <1>1
<1>. QED  BY <1>1, <1>2 DEF UpTo, Above

AgreeTo(w, z, k) == \A i \in 0..N : i <= k => w[i] = z[i]

LEMMA SameLow ==
    ASSUME NEW w, NEW z, NEW k \in Int, AgreeTo(w, z, k)
    PROVE  UpTo(w, k) = UpTo(z, k)
BY SameParts DEF AgreeTo

(* What the loops start from.                                                  *)
LEMMA FieldsAre ==
    ASSUME NEW a, NEW u \in Words, NEW v \in Words, Normalized(a, u, v), a.n <= a.m
    PROVE  /\ a.m \in 1..N /\ a.n \in 1..N /\ a.m \in Nat /\ a.n \in Nat /\ a.m \in 0..N
           /\ a.numerator \in Words5 /\ a.denominator \in Words
           /\ Number(a.numerator) \in Nat /\ Number(a.denominator) \in Nat \ {0}
           /\ Number(a.numerator) < Number(a.denominator) * Place(a.m - a.n + 1)
           /\ \A i \in a.m + 1..N : a.numerator[i] = 0
<1>1. /\ a.m \in 0..N /\ a.n \in 1..N /\ a.numerator \in Words5 /\ a.denominator \in Words
      /\ Number(a.numerator) < Number(a.denominator) * Place(a.m - a.n + 1)
      /\ \A i \in a.m + 1..N : a.numerator[i] = 0
  BY DEF Normalized
<1>2. a.m \in 1..N /\ a.m \in Nat /\ a.n \in Nat /\ a.m - a.n + 1 \in Nat  BY <1>1 DEF N
<1>3. Number(a.numerator) \in Nat
  <2>1. 0 \in Int  OBVIOUS
  <2>. QED  BY <1>1, <2>1, PartsAre
<1>4. Number(a.denominator) \in Nat
  BY <1>1, WordsAre, WideIs256
<1>5. Number(a.denominator) # 0
  <2>. DEFINE p == Place(a.m - a.n + 1)
  <2>1. p \in Nat  BY <1>2, Places
  <2>2. 0 * p = 0  BY <2>1
  <2>. QED  BY <1>1, <1>3, <2>2
<1>. QED  BY <1>1, <1>2, <1>3, <1>4, <1>5

LEMMA Start1 ==
    ASSUME NEW a, NEW u \in Words, NEW v \in Words, Normalized(a, u, v), a.n <= a.m, a.n = 1,
           NEW w, w = [a.numerator EXCEPT ![a.m] = 0],
           NEW t, t = wide(a.numerator[a.m])
    PROVE  Dividing(a, w, Zero, t, a.m - 1, NoDigit)
<1>. DEFINE m == a.m
            k == a.m - 1
            top == a.numerator
<1>0. /\ m \in 1..N /\ m \in 0..N /\ m \in Nat /\ k \in 0..N - 1 /\ k \in Nat /\ k \in Int
      /\ k + 1 = m /\ m - 1 + 1 = m
  BY FieldsAre DEF N
<1>1. /\ top \in Words5 /\ Number(top) \in Nat
      /\ Number(top) < Number(a.denominator) * Place(m) /\ Number(a.denominator) \in Nat \ {0}
      /\ \A i \in m + 1..N : top[i] = 0
  BY <1>0, FieldsAre
<1>2. 0 \in Word /\ top[m] \in Word /\ Place(m) \in Nat
  <2>1. 0 \in Word  BY Base DEF Word
  <2>. HIDE DEF m, top
  <2>. QED  BY <1>0, <1>1, <2>1, Words5In, Places
<1>3. w \in Words5  BY <1>0, <1>1, <1>2, WordChanged
<1>4. t \in uint128 /\ Val(t) = top[m]  BY <1>2, WideIs
<1>. HIDE DEF m, k, top
<1>5. w[m] = 0 /\ \A i \in 0..N : i # m => w[i] = top[i]  BY <1>0, <1>1 DEF Words5, m, top
<1>6. Number(Above(w, k)) = 0
  <2>1. ASSUME NEW i \in k + 1..N PROVE w[i] = 0
    <3>1. i \in 0..N /\ (i # m => i \in m + 1..N)  BY <1>0
    <3>. QED  BY <1>1, <1>5, <3>1
  <2>. QED  BY <1>0, <1>3, <2>1, ZerosAbove
<1>7. Number(UpTo(w, k)) = Number(UpTo(top, k))
  <2>1. \A i \in 0..N : i <= k => w[i] = top[i]
    <3>1. \A i \in 0..N : i <= k => i # m  BY <1>0
    <3>. QED  BY <1>5, <3>1
  <2>. QED  BY <1>0, <2>1, SameParts
<1>8. Number(top) = top[m] * Place(m) + Number(UpTo(top, k))
  <2>1. Number(UpTo(top, m)) = Number(top)  BY <1>0, <1>1, ZerosAbove
  <2>2. m - 1 = k  BY <1>0
  <2>3. Number(UpTo(top, m)) = top[m] * Place(m) + Number(UpTo(top, m - 1))
    BY <1>0, <1>1, PartsStep
  <2>. QED  BY <2>1, <2>2, <2>3
<1>9. Digits(a, w, Zero, k) = 0 /\ Rest(a, w, t, k) = Number(top)
  <2>1. ~(a.n > 2)  OBVIOUS
  <2>2. Digits(a, w, Zero, k) = 0  BY <2>1, <1>6 DEF Digits
  <2>3. Rest(a, w, t, k) = Val(t) * Place(k + 1) + Number(UpTo(w, k))  BY <2>1 DEF Rest
  <2>. QED  BY <1>0, <1>4, <1>7, <1>8, <2>2, <2>3
<1>10. Exact(a, w, Zero, t, k)
  <2>1. 0 * Number(a.denominator) + Number(top) = Number(top)  BY <1>1
  <2>. QED  BY <1>0, <1>1, <1>9, <2>1 DEF Exact, top
<1>11. k \in -1..N - 1 /\ k <= a.m - a.n  BY <1>0 DEF k, m
<1>12. Dividing(a, w, Zero, t, k, NoDigit)
  <2>1. a.n <= a.m /\ ~(a.n > a.m) /\ ~(a.n > 2)  BY <1>0 DEF m
  <2>. QED  BY <1>3, <1>4, <1>10, <1>11, <2>1, OneIs DEF Dividing
<1>. QED  BY <1>12 DEF k

LEMMA Start2 ==
    ASSUME NEW a, NEW u \in Words, NEW v \in Words, Normalized(a, u, v), a.n <= a.m, a.n = 2,
           NEW w, w = [a.numerator EXCEPT ![a.m] = 0, ![a.m - 1] = 0],
           NEW t, t = [hi |-> a.numerator[a.m], lo |-> a.numerator[a.m - 1]]
    PROVE  Dividing(a, w, Zero, t, a.m - 2, NoDigit)
<1>. DEFINE m == a.m
            k == m - 2
            top == a.numerator
<1>0. /\ m \in 2..N /\ m \in 0..N /\ m \in Nat /\ k \in 0..N - 1 /\ k \in Nat /\ k \in Int
      /\ k + 1 = m - 1 /\ (m - 1) - 1 = k /\ m - 1 \in 0..N /\ m - 1 \in Nat
      /\ (m - 1) + 1 = m /\ m - 2 + 1 = m - 1
  <2>1. m \in 1..N /\ 2 <= m  BY FieldsAre
  <2>. HIDE DEF m
  <2>2. m \in {2, 3, 4}  BY <2>1 DEF N
  <2>. QED  BY <2>2 DEF N
<1>1. /\ top \in Words5 /\ Number(top) \in Nat
      /\ Number(top) < Number(a.denominator) * Place(m - 1) /\ Number(a.denominator) \in Nat \ {0}
      /\ \A i \in m + 1..N : top[i] = 0
  BY <1>0, FieldsAre
<1>2. 0 \in Word /\ top[m] \in Word /\ top[m - 1] \in Word /\ Place(m - 1) \in Nat
      /\ Place(m) = Place(m - 1) * B
  <2>1. Place((m - 1) + 1) = Place(m - 1) * B  BY <1>0, Places
  <2>2. 0 \in Word  BY Base DEF Word
  <2>. HIDE DEF m, top
  <2>. QED  BY <1>0, <1>1, <2>1, <2>2, Words5In, Places
<1>. DEFINE w1 == [top EXCEPT ![m] = 0]
<1>3. w1 \in Words5 /\ w = [w1 EXCEPT ![m - 1] = 0]  BY <1>0, <1>1, <1>2, WordChanged
<1>4. w \in Words5
  <2>. HIDE DEF w1
  <2>. QED  BY <1>0, <1>2, <1>3, WordChanged
<1>5. t \in uint128 /\ Val(t) = top[m] * B + top[m - 1]  BY <1>2, PairIs
<1>. HIDE DEF m, k, top
<1>6. w[m] = 0 /\ w[m - 1] = 0 /\ \A i \in 0..N : i # m /\ i # m - 1 => w[i] = top[i]
  BY <1>0, <1>1 DEF Words5, m, top
<1>7. Number(Above(w, k)) = 0
  <2>1. ASSUME NEW i \in k + 1..N PROVE w[i] = 0
    <3>1. i \in 0..N /\ (i # m /\ i # m - 1 => i \in m + 1..N)  BY <1>0
    <3>. QED  BY <1>1, <1>6, <3>1
  <2>. QED  BY <1>0, <1>4, <2>1, ZerosAbove
<1>8. Number(UpTo(w, k)) = Number(UpTo(top, k))
  <2>1. \A i \in 0..N : i <= k => w[i] = top[i]
    <3>1. \A i \in 0..N : i <= k => i # m /\ i # m - 1  BY <1>0 DEF N
    <3>. QED  BY <1>6, <3>1
  <2>2. k \in Int  BY <1>0
  <2>. DEFINE ww == w
  <2>3. ww = w /\ AgreeTo(ww, top, k)  BY <2>1 DEF AgreeTo
  <2>. HIDE DEF ww
  <2>4. UpTo(ww, k) = UpTo(top, k)  BY <2>2, <2>3, SameLow
  <2>. QED  BY <2>3, <2>4
<1>9. Number(top) = (top[m] * B + top[m - 1]) * Place(m - 1) + Number(UpTo(top, k))
  <2>1. Number(UpTo(top, m)) = Number(top)  BY <1>0, <1>1, ZerosAbove
  <2>2. Number(UpTo(top, m)) = top[m] * Place(m) + Number(UpTo(top, m - 1))
    BY <1>0, <1>1, PartsStep
  <2>3. Number(UpTo(top, m - 1)) = top[m - 1] * Place(m - 1) + Number(UpTo(top, k))
    BY <1>0, <1>1, PartsStep
  <2>. DEFINE e == top[m]
              f == top[m - 1]
              p == Place(m - 1)
              z == Number(UpTo(top, k))
  <2>4. e \in Int /\ f \in Int /\ p \in Int /\ z \in Int
    <3>1. e \in Int /\ f \in Int  BY <1>0, <1>1, Words5In
    <3>2. p \in Int  BY <1>0, Places
    <3>3. z \in Int  BY <1>0, <1>1, PartsAre
    <3>. QED  BY <3>1, <3>2, <3>3
  <2>5. Number(top) = e * (p * B) + (f * p + z)  BY <1>2, <2>1, <2>2, <2>3
  <2>. HIDE DEF e, f, p, z
  <2>6. e * (p * B) + (f * p + z) = (e * B + f) * p + z  BY <2>4, Base
  <2>. QED  BY <2>5, <2>6 DEF e, f, p, z
<1>10. Digits(a, w, Zero, k) = 0 /\ Rest(a, w, t, k) = Number(top)
  <2>1. ~(a.n > 2)  OBVIOUS
  <2>2. Digits(a, w, Zero, k) = 0  BY <2>1, <1>7 DEF Digits
  <2>3. Rest(a, w, t, k) = Val(t) * Place(k + 1) + Number(UpTo(w, k))  BY <2>1 DEF Rest
  <2>. QED  BY <1>0, <1>5, <1>8, <1>9, <2>2, <2>3
<1>11. Exact(a, w, Zero, t, k)
  <2>1. 0 * Number(a.denominator) + Number(top) = Number(top)  BY <1>1
  <2>. QED  BY <1>0, <1>1, <1>10, <2>1 DEF Exact, top
<1>12. k \in -1..N - 1 /\ k <= a.m - a.n  BY <1>0 DEF k, m
<1>13. Dividing(a, w, Zero, t, k, NoDigit)
  <2>1. a.n <= a.m /\ ~(a.n > a.m) /\ ~(a.n > 2)  BY <1>0 DEF m
  <2>. QED  BY <1>4, <1>5, <1>11, <1>12, <2>1, OneIs DEF Dividing
<1>. QED  BY <1>13 DEF k, m

LEMMA Start3 ==
    ASSUME NEW a, NEW u \in Words, NEW v \in Words, Normalized(a, u, v), a.n <= a.m, a.n > 2,
           NEW t \in uint128
    PROVE  Dividing(a, a.numerator, Zero, t, a.m - a.n, NoDigit)
<1>. DEFINE w == a.numerator
            k == a.m - a.n
<1>0. /\ a.m \in 0..N /\ a.n \in Nat /\ k \in 0..N - 1 /\ k \in -1..N - 1
      /\ a.m - a.n + 1 = k + 1
  <2>1. a.m \in 1..N /\ a.n \in 1..N  BY FieldsAre
  <2>. QED  BY <2>1 DEF N
<1>1. /\ w \in Words5 /\ Number(w) \in Nat /\ Number(a.denominator) \in Nat
      /\ Number(w) < Number(a.denominator) * Place(k + 1)
  BY <1>0, FieldsAre
<1>2. Digits(a, w, Zero, k) = 0 /\ Rest(a, w, t, k) = Number(w)  BY OneIs DEF Digits, Rest
<1>3. Exact(a, w, Zero, t, k)
  <2>1. 0 * Number(a.denominator) + Number(w) = Number(w)  BY <1>1
  <2>. HIDE DEF k
  <2>. QED  BY <1>1, <1>2, <2>1 DEF Exact
<1>4. \A i \in 0..k : Zero[i] = 0
  <2>1. \A i \in 0..k : i \in {0, 1, 2, 3}  BY <1>0 DEF N
  <2>2. Zero[0] = 0 /\ Zero[1] = 0 /\ Zero[2] = 0 /\ Zero[3] = 0  BY DEF Zero, Join, zero, N
  <2>. QED  BY <2>1, <2>2
<1>. HIDE DEF k, w
<1>5. Dividing(a, w, Zero, t, k, NoDigit)
  <2>1. a.n <= a.m /\ ~(a.n > a.m) /\ k <= a.m - a.n  BY <1>0 DEF k
  <2>. QED  BY <1>0, <1>1, <1>3, <1>4, <2>1, OneIs DEF Dividing
<1>. QED  BY <1>5 DEF w, k

-------------------------------------------------------------------------------
(* A round of udivrem_by1 or udivrem_by2.                                      *)

LEMMA RoundExact ==
    ASSUME NEW a, NEW w \in Words5, NEW k \in 0..N - 1, NEW z, NEW t \in uint128,
           NEW e \in Word, NEW s \in uint128, ~(a.n > 2), a.denominator \in Words,
           Exact(a, w, z, t, k),
           Val(t) * B + w[k] = e * Number(a.denominator) + Val(s),
           Val(s) < Number(a.denominator)
    PROVE  [w EXCEPT ![k] = e] \in Words5 /\ Exact(a, [w EXCEPT ![k] = e], z, s, k - 1)
<1>. DEFINE u == [w EXCEPT ![k] = e]
            D == Number(a.denominator)
            p == Place(k)
            c == Val(s)
            h == Val(t)
            l == Number(UpTo(w, k - 1))
            f == w[k]
            A == Number(Above(w, k))
<1>0. k \in 0..N /\ k \in Nat /\ k \in Int /\ k - 1 \in Int /\ (k - 1) + 1 = k /\ k - 1 \in -1..N
  BY DEF N
<1>1. u \in Words5 /\ u[k] = e /\ \A i \in 0..N : i # k => u[i] = w[i]
  <2>1. u \in Words5  BY <1>0, WordChanged
  <2>2. u[k] = e /\ \A i \in 0..N : i # k => u[i] = w[i]  BY <1>0 DEF Words5
  <2>. QED  BY <2>1, <2>2
<1>2. UpTo(u, k - 1) = UpTo(w, k - 1) /\ Above(u, k) = Above(w, k)
  <2>. HIDE DEF u
  <2>1. \A i \in 0..N : i <= k - 1 => u[i] = w[i]
    <3>1. \A i \in 0..N : i <= k - 1 => i # k  BY <1>0 DEF N
    <3>. QED  BY <1>1, <3>1
  <2>2. \A i \in 0..N : i > k => u[i] = w[i]
    <3>1. \A i \in 0..N : i > k => i # k  BY <1>0 DEF N
    <3>. QED  BY <1>1, <3>1
  <2>. QED  BY <1>0, <2>1, <2>2, SameParts
<1>3. Number(Above(u, k - 1)) = A + e * p
  <2>. HIDE DEF u
  <2>1. Number(Above(u, k - 1)) = Number(Above(u, k)) + u[k] * Place(k)
    BY <1>0, <1>1, PartsStep
  <2>. QED  BY <1>1, <1>2, <2>1
<1>4. Number(UpTo(w, k)) = f * p + l  BY <1>0, PartsStep
<1>5. l < p
  <2>1. Number(UpTo(w, k - 1)) < Place((k - 1) + 1)  BY <1>0, UpToBounded
  <2>. QED  BY <1>0, <2>1
<1>6. Place(k + 1) = p * B /\ p \in Nat \ {0}  BY <1>0, Places
<1>7. /\ D \in Int /\ c \in Int /\ h \in Int /\ l \in Int /\ f \in Int /\ A \in Int /\ e \in Int
      /\ p \in Int
  <2>1. D \in Int  BY WordsAre
  <2>2. c \in Int /\ h \in Int  BY ValIs
  <2>3. l \in Int /\ A \in Int  BY <1>0, PartsAre
  <2>4. f \in Int /\ e \in Int  BY <1>0, Words5In, Base DEF Word
  <2>. QED  BY <1>6, <2>1, <2>2, <2>3, <2>4
<1>8. A * D + (h * (p * B) + (f * p + l)) = Number(a.numerator)
  <2>1. Digits(a, w, z, k) = A /\ Rest(a, w, t, k) = h * Place(k + 1) + Number(UpTo(w, k))
    BY DEF Digits, Rest
  <2>2. Digits(a, w, z, k) * D + Rest(a, w, t, k) = Number(a.numerator)  BY DEF Exact
  <2>. QED  BY <1>4, <1>6, <2>1, <2>2
<1>9. Digits(a, u, z, k - 1) = A + e * p /\ Rest(a, u, s, k - 1) = c * p + l
  <2>. HIDE DEF u
  <2>1. Digits(a, u, z, k - 1) = Number(Above(u, k - 1))
        /\ Rest(a, u, s, k - 1) = c * Place((k - 1) + 1) + Number(UpTo(u, k - 1))
    BY DEF Digits, Rest
  <2>. QED  BY <1>0, <1>2, <1>3, <2>1
<1>10. h * B + f = e * D + c /\ c < D  OBVIOUS
<1>. HIDE DEF D, p, c, h, l, f, A
<1>11. (A + e * p) * D + (c * p + l) = Number(a.numerator)
  <2>1. A * D + (h * (p * B) + (f * p + l)) = A * D + ((h * B + f) * p + l)  BY <1>7, Base
  <2>2. A * D + ((e * D + c) * p + l) = (A + e * p) * D + (c * p + l)  BY <1>7
  <2>. QED  BY <1>8, <1>10, <2>1, <2>2
<1>12. c * p + l < D * p
  <2>1. (c + 1) * p <= D * p  BY <1>6, <1>7, <1>10
  <2>2. (c + 1) * p = c * p + p /\ c * p \in Int /\ D * p \in Int  BY <1>7
  <2>. QED  BY <1>5, <1>7, <2>1, <2>2
<1>13. Exact(a, u, z, s, k - 1)
  <2>. HIDE DEF u
  <2>. QED  BY <1>0, <1>9, <1>11, <1>12 DEF Exact, D, p
<1>. QED  BY <1>1, <1>13

LEMMA RemainderSmall ==
    ASSUME NEW a, NEW w \in Words5, NEW k \in -1..N - 1, NEW z, NEW t \in uint128,
           ~(a.n > 2), a.denominator \in Words, Exact(a, w, z, t, k)
    PROVE  Val(t) < Number(a.denominator)
<1>. DEFINE h == Val(t)
            D == Number(a.denominator)
            p == Place(k + 1)
            l == Number(UpTo(w, k))
<1>0. k + 1 \in Nat /\ k \in Int  BY DEF N
<1>1. h \in Int /\ D \in Int /\ p \in Nat \ {0} /\ l \in Nat
  <2>1. h \in Int  BY ValIs
  <2>2. D \in Int  BY WordsAre
  <2>3. p \in Nat \ {0} /\ l \in Nat  BY <1>0, Places, PartsAre
  <2>. QED  BY <2>1, <2>2, <2>3
<1>2. h * p + l < D * p  BY DEF Exact, Rest
<1>. HIDE DEF h, D, p, l
<1>3. ASSUME h >= D PROVE FALSE
  <2>1. h * p >= D * p /\ h * p \in Int /\ D * p \in Int  BY <1>1, <1>3
  <2>. QED  BY <1>1, <1>2, <2>1
<1>4. h < D  BY <1>1, <1>3
<1>. QED  BY <1>4 DEF h, D

LEMMA LoopBounds ==
    ASSUME NEW a, NEW u \in Words, NEW v \in Words, Normalized(a, u, v),
           NEW w, NEW z, NEW t, NEW k, NEW e, Dividing(a, w, z, t, k, e), k >= 0
    PROVE  /\ a.n <= a.m /\ k \in 0..N - 1 /\ k \in Nat /\ k <= a.m - a.n /\ k - 1 <= a.m - a.n
           /\ k - 1 \in -1..N - 1 /\ Exact(a, w, z, t, k) /\ a.m \in 0..N /\ a.n \in 1..N
           /\ k + a.n \in 0..N /\ a.denominator \in Words
<1>1. /\ a.m \in 0..N /\ a.n \in 1..N /\ a.denominator \in Words  BY DEF Normalized
<1>2. k \in -1..N - 1 /\ (a.n > a.m => k = -1)
      /\ (a.n <= a.m => k <= a.m - a.n /\ Exact(a, w, z, t, k))
  BY DEF Dividing
<1>. DEFINE m == a.m
            n == a.n
<1>3. m \in 0..N /\ n \in 1..N /\ (n > m => k = -1) /\ (n <= m => k <= m - n)
  BY <1>1, <1>2
<1>. HIDE DEF m, n
<1>4. n <= m /\ k \in 0..N - 1 /\ k \in Nat /\ k <= m - n /\ k - 1 <= m - n
      /\ k - 1 \in -1..N - 1 /\ k + n \in 0..N
  BY <1>2, <1>3 DEF N
<1>. QED  BY <1>1, <1>2, <1>4 DEF m, n

LEMMA Round1 ==
    ASSUME NEW a, NEW u \in Words, NEW v \in Words, Normalized(a, u, v), a.n = 1,
           NEW w, NEW z, NEW t, NEW k, Dividing(a, w, z, t, k, NoDigit), k >= 0,
           NEW res, res = by1_round(t.lo, w[k], a.denominator[0])
    PROVE  Dividing(a, [w EXCEPT ![k] = res.quot], z, wide(res.rem), k - 1, NoDigit)
<1>. DEFINE d == a.denominator[0]
            f == w[k]
            s == wide(res.rem)
<1>1. /\ a.n <= a.m /\ k \in 0..N - 1 /\ k - 1 <= a.m - a.n /\ k - 1 \in -1..N - 1
      /\ Exact(a, w, z, t, k) /\ a.denominator \in Words /\ ~(a.n > 2) /\ k \in 0..N
      /\ ~(a.n > a.m)
  <2>1. a.n <= a.m /\ k \in 0..N - 1 /\ k - 1 <= a.m - a.n /\ k - 1 \in -1..N - 1
      /\ Exact(a, w, z, t, k) /\ a.denominator \in Words /\ a.m \in 0..N
    BY LoopBounds
  <2>2. ~(a.n > 2)  OBVIOUS
  <2>3. k \in 0..N  BY <2>1 DEF N
  <2>4. a.m \in Int  BY <2>1 DEF N
  <2>5. ~(a.n > a.m)  BY <2>1, <2>4
  <2>. QED  BY <2>1, <2>2, <2>3, <2>5
<1>2. w \in Words5 /\ z \in Words /\ t \in uint128  BY DEF Dividing
<1>3. Number(a.denominator) = d /\ Divisor(d)
  <2>1. Divisor(a.denominator[a.n - 1]) /\ \A i \in a.n..N - 1 : a.denominator[i] = 0
    BY DEF Normalized
  <2>2. a.n - 1 = 0 /\ 1 \in a.n..N - 1 /\ 2 \in a.n..N - 1 /\ 3 \in a.n..N - 1  BY DEF N
  <2>3. a.denominator[1] = 0 /\ a.denominator[2] = 0 /\ a.denominator[3] = 0
    BY <2>1, <2>2
  <2>4. Number(a.denominator) = d + B * (0 + B * (0 + B * 0))  BY <1>1, <2>3, WordsIn
  <2>5. B * 0 = 0 /\ d + 0 = d
    <3>1. d \in Int  BY <1>1, WordsIn
    <3>. QED  BY <3>1, Base
  <2>. QED  BY <2>1, <2>2, <2>4, <2>5
<1>4. Val(t) < d /\ t.hi = 0 /\ t.lo = Val(t) /\ t.lo \in Word /\ f \in Word
  <2>1. Val(t) < d
    <3>1. Val(t) < Number(a.denominator)
      BY <1>1, <1>2, RemainderSmall
    <3>. QED  BY <1>3, <3>1
  <2>. DEFINE h == t.hi
              l == t.lo
  <2>2. h \in 0..B - 1 /\ l \in 0..B - 1 /\ Val(t) = h * B + l /\ l \in Word  BY <1>2, ValIs
  <2>3. d < B /\ d \in Int  BY <1>3, DivisorIs
  <2>4. f \in Word  BY <1>1, <1>2, Words5In
  <2>. HIDE DEF h, l, d
  <2>5. h = 0
    <3>1. ASSUME h >= 1 PROVE FALSE
      <4>1. h * B >= 1 * B /\ h * B \in Int /\ 1 * B = B  BY <2>2, <3>1, Base
      <4>2. h * B + l < B  BY <2>1, <2>2, <2>3, Base, <4>1
      <4>. QED  BY <2>2, <4>1, <4>2, Base
    <3>. QED  BY <2>2, <3>1, Base
  <2>6. l = Val(t)
    <3>1. 0 * B + l = l  BY <2>2, Base
    <3>. QED  BY <2>2, <2>5, <3>1
  <2>. QED  BY <2>1, <2>2, <2>4, <2>5, <2>6 DEF h, l
<1>5. Divides(res, t.lo * B + f, d)
  <2>. DEFINE g == [hi |-> t.lo, lo |-> f]
  <2>1. g \in uint128 /\ Val(g) = t.lo * B + f /\ g.hi = t.lo  BY <1>4, PairIs
  <2>2. g.hi < d  BY <1>4
  <2>3. res = udivrem_2by1(g, d, reciprocal_2by1(d))  BY DEF by1_round
  <2>. HIDE DEF g, d
  <2>. QED  BY <1>3, <2>1, <2>2, <2>3, Divide2by1
<1>6. res.quot \in Word /\ res.rem \in 0..d - 1 /\ t.lo * B + f = res.quot * d + res.rem
      /\ res.rem \in Word /\ d \in Int
  <2>1. res.quot \in Word /\ res.rem \in 0..d - 1 /\ t.lo * B + f = res.quot * d + res.rem
    BY <1>5 DEF Divides
  <2>2. d \in Nat /\ d < B  BY <1>3, DivisorIs
  <2>. HIDE DEF d
  <2>3. res.rem \in Word  BY <2>1, <2>2, Base DEF Word
  <2>. QED  BY <2>1, <2>2, <2>3
<1>7. s \in uint128 /\ Val(s) = res.rem  BY <1>6, WideIs
<1>8. /\ Val(t) * B + w[k] = res.quot * Number(a.denominator) + Val(s)
      /\ Val(s) < Number(a.denominator)
  <2>. HIDE DEF s, d
  <2>1. res.rem < d  BY <1>6
  <2>. QED  BY <1>3, <1>4, <1>6, <1>7, <2>1 DEF f
<1>. HIDE DEF s, d, f
<1>9. [w EXCEPT ![k] = res.quot] \in Words5 /\ Exact(a, [w EXCEPT ![k] = res.quot], z, s, k - 1)
  BY <1>1, <1>2, <1>6, <1>7, <1>8, RoundExact
<1>. DEFINE o == [w EXCEPT ![k] = res.quot]
<1>. HIDE DEF o
<1>10. Dividing(a, o, z, s, k - 1, NoDigit)
  BY <1>1, <1>2, <1>7, <1>9 DEF Dividing, o
<1>. QED  BY <1>10 DEF s, o

LEMMA Round2 ==
    ASSUME NEW a, NEW u \in Words, NEW v \in Words, Normalized(a, u, v), a.n = 2,
           NEW w, NEW z, NEW t, NEW k, Dividing(a, w, z, t, k, NoDigit), k >= 0,
           NEW res, res = by2_round(t, w[k], Lower(a.denominator))
    PROVE  Dividing(a, [w EXCEPT ![k] = res.quot], z, res.rem, k - 1, NoDigit)
<1>. DEFINE d == Lower(a.denominator)
            f == w[k]
<1>1. /\ a.n <= a.m /\ k \in 0..N - 1 /\ k - 1 <= a.m - a.n /\ k - 1 \in -1..N - 1
      /\ Exact(a, w, z, t, k) /\ a.denominator \in Words /\ ~(a.n > 2) /\ k \in 0..N
      /\ ~(a.n > a.m)
  <2>1. a.n <= a.m /\ k \in 0..N - 1 /\ k - 1 <= a.m - a.n /\ k - 1 \in -1..N - 1
      /\ Exact(a, w, z, t, k) /\ a.denominator \in Words /\ a.m \in 0..N
    BY LoopBounds
  <2>2. ~(a.n > 2)  OBVIOUS
  <2>3. k \in 0..N  BY <2>1 DEF N
  <2>4. a.m \in Int  BY <2>1 DEF N
  <2>5. ~(a.n > a.m)  BY <2>1, <2>4
  <2>. QED  BY <2>1, <2>2, <2>3, <2>5
<1>2. w \in Words5 /\ z \in Words /\ t \in uint128  BY DEF Dividing
<1>3. Number(a.denominator) = Val(d) /\ Divisor2(d)
  <2>1. Divisor(a.denominator[a.n - 1]) /\ \A i \in a.n..N - 1 : a.denominator[i] = 0
    BY DEF Normalized
  <2>2. a.n - 1 = 1 /\ 2 \in a.n..N - 1 /\ 3 \in a.n..N - 1  BY DEF N
  <2>3. a.denominator[2] = 0 /\ a.denominator[3] = 0  BY <2>1, <2>2
  <2>. DEFINE l == a.denominator[0]
              h == a.denominator[1]
  <2>4. Number(a.denominator) = l + B * (h + B * (0 + B * 0)) /\ l \in 0..B - 1 /\ h \in 0..B - 1
    BY <1>1, <2>3, WordsIn
  <2>5. d = [hi |-> h, lo |-> l] /\ d.hi = h /\ l \in Word /\ h \in Word
    BY <1>1, WordsIn DEF Lower
  <2>6. d \in uint128 /\ Val(d) = h * B + l  BY <2>5, PairIs
  <2>7. Divisor2(d)  BY <2>1, <2>2, <2>5, <2>6 DEF Divisor2
  <2>. HIDE DEF l, h, d
  <2>8. B * 0 = 0 /\ l + B * h = h * B + l /\ h + 0 = h  BY <2>4, Base
  <2>. QED  BY <2>4, <2>6, <2>7, <2>8
<1>4. Val(t) < Val(d) /\ t.hi \in Word /\ t.lo \in Word /\ Val(t) = t.hi * B + t.lo /\ f \in Word
  <2>1. Val(t) < Number(a.denominator)
    BY <1>1, <1>2, RemainderSmall
  <2>2. t.hi \in Word /\ t.lo \in Word /\ Val(t) = t.hi * B + t.lo  BY <1>2, ValIs
  <2>3. f \in Word  BY <1>1, <1>2, Words5In
  <2>. QED  BY <1>3, <2>1, <2>2, <2>3
<1>5. Divides2(res, ThreeWords(t.hi, t.lo, f), d)
  <2>1. res = udivrem_3by2(t.hi, t.lo, f, d, reciprocal_3by2(d))  BY DEF by2_round
  <2>2. t.hi * B + t.lo < Val(d)  BY <1>4
  <2>. HIDE DEF d, f
  <2>. QED  BY <1>3, <1>4, <2>1, <2>2, Divide3by2
<1>6. /\ res.quot \in Word /\ res.rem \in uint128 /\ Val(res.rem) < Val(d)
      /\ ThreeWords(t.hi, t.lo, f) = res.quot * Val(d) + Val(res.rem)
  BY <1>5 DEF Divides2
<1>7. ThreeWords(t.hi, t.lo, f) = Val(t) * B + f
  <2>. DEFINE h == t.hi
              l == t.lo
              b == B
  <2>1. h \in Int /\ l \in Int /\ f \in Int /\ b \in Int  BY <1>4, Base DEF Word
  <2>. HIDE DEF h, l, f, b
  <2>2. h * (b * b) + l * b + f = (h * b + l) * b + f  BY <2>1
  <2>. QED  BY <1>4, <2>2 DEF ThreeWords, Full, h, l, b
<1>8. Val(t) * B + w[k] = res.quot * Number(a.denominator) + Val(res.rem)
      /\ Val(res.rem) < Number(a.denominator)
  BY <1>3, <1>6, <1>7
<1>. HIDE DEF d, f
<1>9. [w EXCEPT ![k] = res.quot] \in Words5
      /\ Exact(a, [w EXCEPT ![k] = res.quot], z, res.rem, k - 1)
  BY <1>1, <1>2, <1>6, <1>8, RoundExact
<1>. DEFINE o == [w EXCEPT ![k] = res.quot]
<1>. HIDE DEF o
<1>10. Dividing(a, o, z, res.rem, k - 1, NoDigit)
  BY <1>1, <1>2, <1>6, <1>9 DEF Dividing, o
<1>. QED  BY <1>10 DEF o

-------------------------------------------------------------------------------
(* udivrem_knuth's guess.                                                      *)

(* Whether the guess g is too large shows in its remainder by the divisor's    *)
(* leading word alone.                                                         *)
LEMMA GuessLarge ==
    ASSUME NEW b \in Int, NEW U \in Int, NEW h \in Int, NEW l \in Int, NEW g \in Int,
           NEW u0 \in Int
    PROVE  (U - g * h) * b + u0 < g * l <=> U * b + u0 < g * (h * b + l)
<1>1. (U - g * h) * b = U * b - (g * h) * b /\ g * (h * b + l) = (g * h) * b + g * l
  OBVIOUS
<1>. DEFINE e1 == (g * h) * b
            e2 == g * l
            e3 == U * b
<1>2. e1 \in Int /\ e2 \in Int /\ e3 \in Int  OBVIOUS
<1>3. (U - g * h) * b = e3 - e1 /\ g * (h * b + l) = e1 + e2  BY <1>1
<1>. HIDE DEF e1, e2, e3
<1>4. e3 - e1 + u0 < e2 <=> e3 + u0 < e1 + e2  BY <1>2
<1>. QED  BY <1>3, <1>4 DEF e2, e3

LEMMA GuessFits ==
    ASSUME NEW b \in Nat \ {0}, NEW g \in 0..b - 1, NEW l \in 0..b - 1, NEW p \in Int,
           NEW u0 \in Nat, p >= b
    PROVE  ~(p * b + u0 < g * l)
<1>1. p * b >= b * b /\ p * b \in Int  OBVIOUS
<1>2. g * l <= b * l /\ b * l <= b * b
  <2>1. g <= b /\ l <= b /\ g \in Nat /\ l \in Nat  OBVIOUS
  <2>. QED  BY <2>1
<1>3. g * l \in Int /\ b * b \in Int /\ b * l \in Int  OBVIOUS
<1>. QED  BY <1>1, <1>2, <1>3

LEMMA TooLargeIs ==
    ASSUME NEW g \in Word, NEW d, Divisor2(d), NEW p \in uint128, NEW u0 \in Word
    PROVE  TooLarge(g, d, p, u0) <=> Val(p) * B + u0 < g * d.lo
<1>. DEFINE l == d.lo
            h == p.hi
            o == p.lo
            a == [hi |-> o, lo |-> u0]
            c == umul(g, l)
<1>1. l \in Word /\ h \in Word /\ o \in Word /\ Val(p) = h * B + o /\ h \in Nat /\ o \in Nat
      /\ Val(p) \in Nat /\ l \in 0..B - 1 /\ g \in 0..B - 1 /\ u0 \in Nat
  BY Divisor2Is, ValIs, Base DEF Word
<1>2. a \in uint128 /\ Val(a) = o * B + u0  BY <1>1, PairIs
<1>3. c \in uint128 /\ Val(c) = g * l  BY <1>1, UmulIs
<1>4. less(a, c) <=> o * B + u0 < g * l
  <2>. HIDE DEF a, c
  <2>. QED  BY <1>2, <1>3, LessIs
<1>5. TooLarge(g, d, p, u0) <=> h = 0 /\ less(a, c)  BY DEF TooLarge
<1>. HIDE DEF l, h, o, a, c
<1>6. CASE h = 0
  <2>1. 0 * B + o = o  BY <1>1, Base
  <2>. QED  BY <1>1, <1>4, <1>5, <1>6, <2>1 DEF l
<1>7. CASE h >= 1
  <2>1. h * B >= 1 * B /\ 1 * B = B /\ h * B \in Int  BY <1>1, <1>7, Base
  <2>2. Val(p) >= B  BY <1>1, <2>1, Base
  <2>3. ~(Val(p) * B + u0 < g * l)  BY <1>1, <2>2, Base, GuessFits
  <2>. QED  BY <1>5, <1>7, <2>3 DEF l
<1>. QED  BY <1>1, <1>6, <1>7

(* The best of the digits for the three leading words.                         *)
Best(g, a, d) ==
    /\ g \in Word /\ g * Val(d) <= a
    /\ g = B - 1 \/ a < (g + 1) * Val(d)

(* From a guess with a remainder, or one more, or two more than the best.      *)
LEMMA BestIs ==
    ASSUME NEW u2 \in Word, NEW u1 \in Word, NEW u0 \in Word, NEW d, Divisor2(d),
           NEW g \in Word, NEW U, U = u2 * B + u1,
           U - g * d.hi >= 0, g = B - 1 \/ U < (g + 1) * d.hi,
           NEW e, e = IF ~((U - g * d.hi) * B + u0 < g * d.lo) THEN g
                      ELSE IF ~((U - g * d.hi + d.hi) * B + u0 < (g - 1) * d.lo) THEN g - 1
                      ELSE g - 2
    PROVE  Best(e, ThreeWords(u2, u1, u0), d)
<1>. DEFINE b == B
            h == d.hi
            l == d.lo
            A == U * b + u0
            E == h * b + l
<1>0. /\ b \in Nat \ {0} /\ 2 <= b /\ u2 \in 0..b - 1 /\ u1 \in 0..b - 1 /\ u0 \in 0..b - 1
      /\ h \in Nat \ {0} /\ h < b /\ b <= 2 * h /\ l \in 0..b - 1 /\ g \in 0..b - 1
      /\ Val(d) = E /\ U = u2 * b + u1
  BY Divisor2Is, Base DEF Word
<1>1. ThreeWords(u2, u1, u0) = A
  <2>. HIDE DEF b
  <2>1. u2 * (b * b) + u1 * b + u0 = (u2 * b + u1) * b + u0  BY <1>0
  <2>. QED  BY <1>0, <2>1 DEF ThreeWords, Full, b
<1>2. /\ U - g * h >= 0 /\ (g = b - 1 \/ U < (g + 1) * h)
      /\ e = IF ~((U - g * h) * b + u0 < g * l) THEN g
             ELSE IF ~((U - g * h + h) * b + u0 < (g - 1) * l) THEN g - 1
             ELSE g - 2
  OBVIOUS
<1>. HIDE DEF b, h, l
<1>3. /\ U \in Nat /\ A \in Nat /\ E \in Nat \ {0} /\ g * h \in Int /\ E \in Int
      /\ g \in Int /\ l \in Int
      /\ h \in Int /\ b \in Int /\ u0 \in Int /\ u0 \in Nat
  <2>1. u2 * b \in Nat  BY <1>0
  <2>2. U \in Nat  BY <1>0, <2>1
  <2>3. U * b \in Nat /\ h * b \in Nat /\ h * b >= 1 * b /\ 1 * b = b /\ g * h \in Int
    BY <1>0, <2>2
  <2>. QED  BY <1>0, <2>2, <2>3
<1>4. ((U - g * h) * b + u0 < g * l) <=> A < g * E
  BY <1>3, GuessLarge
<1>5. U - g * h + h = U - (g - 1) * h /\ U - g * h + 2 * h = U - (g - 2) * h
  BY <1>3
<1>6. ((U - g * h + h) * b + u0 < (g - 1) * l) <=> A < (g - 1) * E
  <2>1. ((U - (g - 1) * h) * b + u0 < (g - 1) * l) <=> A < (g - 1) * E
    <3>. DEFINE f == g - 1
    <3>1. f \in Int  BY <1>3
    <3>. HIDE DEF f, A, E
    <3>2. ((U - f * h) * b + u0 < f * l) <=> A < f * E
      <4>. USE DEF A, E
      <4>. QED  BY <1>3, <3>1, GuessLarge
    <3>. QED  BY <3>2 DEF f
  <2>. QED  BY <1>5, <2>1
<1>7. A < (g + 1) * E \/ g = b - 1
  <2>. SUFFICES ASSUME U < (g + 1) * h PROVE A < (g + 1) * E
    BY <1>2
  <2>. DEFINE f == (g + 1) * h
  <2>1. f \in Int /\ (g + 1) * E = f * b + (g + 1) * l  BY <1>3
  <2>2. (g + 1) * l \in Nat  BY <1>0
  <2>. HIDE DEF f
  <2>3. (U + 1) * b <= f * b /\ (U + 1) * b = U * b + b  BY <1>0, <1>3, <2>1 DEF f
  <2>4. f * b \in Int /\ U * b \in Int  BY <1>3, <2>1
  <2>. HIDE DEF E
  <2>. QED  BY <1>0, <1>3, <2>1, <2>2, <2>3, <2>4
<1>8. CASE ~((U - g * h) * b + u0 < g * l)
  <2>1. e = g /\ g * E <= A
    <3>1. g * E \in Int  BY <1>3
    <3>2. ~(A < g * E)  BY <1>4, <1>8
    <3>. QED  BY <1>2, <1>3, <1>8, <3>1, <3>2
  <2>. HIDE DEF A, E
  <2>. QED  BY <1>0, <1>1, <1>7, <2>1 DEF Best, b
<1>9. CASE (U - g * h) * b + u0 < g * l
  <2>1. g >= 1
    <3>1. ASSUME g = 0 PROVE FALSE
      <4>1. 0 * h = 0 /\ 0 * l = 0  BY <1>3
      <4>2. U * b + u0 < 0  BY <1>3, <1>9, <3>1, <4>1
      <4>. QED  BY <1>3, <4>2
    <3>. QED  BY <1>0, <3>1
  <2>2. A < ((g - 1) + 1) * E
    <3>1. (g - 1) + 1 = g  BY <1>3
    <3>. QED  BY <1>4, <1>9, <3>1
  <2>3. CASE ~((U - g * h + h) * b + u0 < (g - 1) * l)
    <3>1. e = g - 1  BY <1>2, <1>9, <2>3
    <3>2. (g - 1) * E <= A
      <4>1. (g - 1) * E \in Int  BY <1>3
      <4>2. ~(A < (g - 1) * E)  BY <1>6, <2>3
      <4>. QED  BY <1>3, <4>1, <4>2
    <3>3. g - 1 \in 0..b - 1  BY <1>0, <2>1
    <3>. HIDE DEF A, E
    <3>. QED  BY <1>0, <1>1, <2>2, <3>1, <3>2, <3>3 DEF Best, b, Word
  <2>4. CASE (U - g * h + h) * b + u0 < (g - 1) * l
    <3>1. e = g - 2  BY <1>2, <1>9, <2>4
    <3>2. g >= 2
      <4>1. ASSUME g = 1 PROVE FALSE
        <5>1. (g - 1) * l = 0  BY <1>3, <4>1
        <5>2. U - g * h + h >= 0 /\ U - g * h + h \in Int
          <6>. DEFINE c == g * h
          <6>1. c \in Int /\ U - c >= 0  BY <1>2, <1>3
          <6>. HIDE DEF c
          <6>2. U - c + h >= 0 /\ U - c + h \in Int  BY <1>0, <1>3, <6>1
          <6>. QED  BY <6>2 DEF c
        <5>. DEFINE f == U - g * h + h
        <5>. HIDE DEF f
        <5>3. f * b >= 0 /\ f * b \in Int  BY <1>0, <5>2 DEF f
        <5>. QED  BY <1>3, <2>4, <5>1, <5>3 DEF f
      <4>. QED  BY <1>0, <2>1, <4>1
    <3>3. A < ((g - 2) + 1) * E
      <4>1. (g - 2) + 1 = g - 1  BY <1>3
      <4>. QED  BY <1>6, <2>4, <4>1
    <3>4. (g - 2) * E <= A
      <4>. DEFINE f == g - 2
                  p == U - f * h
      <4>1. f \in 0..b - 1 /\ f \in Int  BY <1>0, <3>2
      <4>2. p >= b /\ p \in Int
        <5>1. p = U - g * h + 2 * h  BY <1>5
        <5>. QED  BY <1>0, <1>2, <1>3, <5>1
      <4>. HIDE DEF f
      <4>3. ~(p * b + u0 < f * l)
        <5>. HIDE DEF p
        <5>. QED  BY <1>0, <1>3, <4>1, <4>2, GuessFits
      <4>4. (p * b + u0 < f * l) <=> A < f * E
        BY <1>3, <4>1, GuessLarge
      <4>5. f * E \in Int  BY <1>3, <4>1
      <4>6. f * E <= A
        <5>. HIDE DEF A, E, p
        <5>. QED  BY <1>3, <4>3, <4>4, <4>5
      <4>. QED  BY <4>6 DEF f
    <3>5. g - 2 \in 0..b - 1  BY <1>0, <3>2
    <3>. HIDE DEF A, E
    <3>. QED  BY <1>0, <1>1, <3>1, <3>3, <3>4, <3>5 DEF Best, b, Word
  <2>. QED  BY <2>3, <2>4
<1>. QED  BY <1>8, <1>9

LEMMA EstimateDigitIs ==
    ASSUME NEW u2 \in Word, NEW u1 \in Word, NEW u0 \in Word, NEW d, Divisor2(d),
           u2 * B + u1 <= Val(d)
    PROVE  Best(EstimateDigit(u2, u1, u0, d), ThreeWords(u2, u1, u0), d)
<1>. DEFINE b == B
            h == d.hi
            l == d.lo
            U == u2 * B + u1
            e == EstimateDigit(u2, u1, u0, d)
<1>0. /\ b \in Nat \ {0} /\ 2 <= b /\ u2 \in 0..b - 1 /\ u1 \in 0..b - 1 /\ u0 \in 0..b - 1
      /\ h \in Nat \ {0} /\ h < b /\ b <= 2 * h /\ l \in 0..b - 1 /\ h \in Word
      /\ Val(d) = h * b + l /\ u2 * b + u1 <= h * b + l /\ Divisor(h) /\ 0 \in Word
  BY Divisor2Is, Base DEF Word, Divisor2
<1>1. CASE u2 >= h
  <2>. DEFINE a == [hi |-> u2, lo |-> u1]
              c == [hi |-> h, lo |-> 0]
              f == minus(a, c)
              p == plus(f, wide(h))
              g == B - 1
  <2>1. u2 = h /\ u1 <= l
    <3>. HIDE DEF b, h, l
    <3>1. ASSUME u2 >= h + 1 PROVE FALSE
      <4>1. u2 * b >= (h + 1) * b /\ (h + 1) * b = h * b + b /\ u2 * b \in Int /\ h * b \in Int
        BY <1>0, <3>1
      <4>. QED  BY <1>0, <4>1
    <3>2. u2 = h  BY <1>0, <1>1, <3>1
    <3>3. h * b \in Int  BY <1>0
    <3>. QED  BY <1>0, <3>2, <3>3
  <2>2. f \in uint128 /\ Val(f) = u1
    <3>1. a \in uint128 /\ Val(a) = u2 * B + u1 /\ c \in uint128 /\ Val(c) = h * B + 0
      BY <1>0, PairIs
    <3>2. f \in uint128 /\ Val(f) = (Val(a) - Val(c)) % Full
      <4>. HIDE DEF a, c
      <4>. QED  BY <3>1, MinusIs
    <3>. HIDE DEF f, a, c, h, b
    <3>3. Val(a) - Val(c) = u1
      <4>1. h * B \in Int /\ u2 * B = h * B /\ u1 \in Int  BY <1>0, <2>1, Base
      <4>. QED  BY <3>1, <4>1
    <3>4. u1 \in 0..Full - 1  BY <1>0, FullIs DEF b
    <3>5. u1 % Full = u1  BY <3>4, FullIs, ModSelf
    <3>. QED  BY <3>2, <3>3, <3>5
  <2>3. p \in uint128 /\ Val(p) = u1 + h
    <3>1. wide(h) \in uint128 /\ Val(wide(h)) = h  BY <1>0, WideIs
    <3>2. p \in uint128 /\ Val(p) = (Val(f) + Val(wide(h))) % Full
      <4>. DEFINE c1 == wide(h)
      <4>. HIDE DEF f, c1
      <4>1. plus(f, c1) \in uint128 /\ Val(plus(f, c1)) = (Val(f) + Val(c1)) % Full
        BY <2>2, <3>1, PlusIs DEF c1
      <4>. QED  BY <4>1 DEF c1
    <3>. HIDE DEF f, h
    <3>3. 2 * B <= Full
      <4>1. 2 * B <= B * B  BY Base
      <4>. QED  BY <4>1 DEF Full
    <3>4. u1 + h \in 0..Full - 1  BY <1>0, <3>3, FullIs DEF b
    <3>5. (u1 + h) % Full = u1 + h  BY <3>4, FullIs, ModSelf
    <3>. QED  BY <2>2, <3>1, <3>2, <3>5
  <2>4. U - g * h = u1 + h /\ g \in Word
    <3>1. (b - 1) * h = h * b - h /\ h * b \in Int  BY <1>0
    <3>2. b - 1 \in Word  BY <1>0 DEF Word
    <3>. HIDE DEF h, b
    <3>3. (h * b + u1) - (h * b - h) = u1 + h  BY <1>0, <3>1
    <3>. QED  BY <2>1, <3>1, <3>2, <3>3 DEF b
  <2>5. TooLarge(g, d, p, u0) <=> (U - g * h) * B + u0 < g * l
    <3>1. TooLarge(g, d, p, u0) <=> Val(p) * B + u0 < g * d.lo
      <4>. HIDE DEF g, p
      <4>. QED  BY <2>3, <2>4, TooLargeIs
    <3>. QED  BY <2>3, <2>4, <3>1
  <2>6. e = B - 1 - Bit(TooLarge(g, d, p, u0))
    BY <1>1 DEF EstimateDigit
  <2>7. ~((U - g * h + h) * B + u0 < (g - 1) * l)
    <3>1. u1 + h + h >= b /\ u1 + h + h \in Int /\ g - 1 \in 0..b - 1 /\ u0 \in Nat
      <4>. HIDE DEF h, b
      <4>1. u1 + h + h >= b /\ u1 + h + h \in Int /\ (b - 1) - 1 \in 0..b - 1 /\ u0 \in Nat
        BY <1>0
      <4>. QED  BY <4>1 DEF b
    <3>. DEFINE p1 == u1 + h + h
                g1 == g - 1
    <3>2. ~(p1 * b + u0 < g1 * l)
      <4>1. p1 \in Int /\ p1 >= b /\ g1 \in 0..b - 1  BY <3>1
      <4>. HIDE DEF p1, g1, l, b
      <4>. QED  BY <1>0, <3>1, <4>1, GuessFits
    <3>. QED  BY <2>4, <3>2
  <2>8. U - g * h >= 0
    <3>1. u1 + h >= 0  BY <1>0
    <3>. QED  BY <2>4, <3>1
  <2>9. e = IF ~((U - g * h) * B + u0 < g * l) THEN g
            ELSE IF ~((U - g * h + h) * B + u0 < (g - 1) * l) THEN g - 1 ELSE g - 2
    <3>1. CASE TooLarge(g, d, p, u0)
      <4>1. e = B - 1 - 1  BY <2>6, <3>1 DEF Bit
      <4>. QED  BY <2>5, <2>7, <3>1, <4>1
    <3>2. CASE ~TooLarge(g, d, p, u0)
      <4>1. e = B - 1 - 0 /\ B - 1 - 0 = B - 1
        BY <2>6, <3>2, Base DEF Bit
      <4>. QED  BY <2>5, <3>2, <4>1
    <3>. QED  BY <3>1, <3>2
  <2>10. g = B - 1 \/ U < (g + 1) * h  OBVIOUS
  <2>. HIDE DEF g, U, e
  <2>11. U = u2 * B + u1  BY DEF U
  <2>12. Best(e, ThreeWords(u2, u1, u0), d)  BY <2>4, <2>8, <2>9, <2>10, <2>11, BestIs
  <2>. QED  BY <2>12 DEF e
<1>2. CASE u2 < h
  <2>. DEFINE a == [hi |-> u2, lo |-> u1]
              res == udivrem_2by1(a, h, reciprocal_2by1(h))
              g == res.quot
              o == res.rem
              p == plus(wide(o), wide(h))
  <2>1. Divides(res, U, h)
    <3>1. a \in uint128 /\ Val(a) = U /\ a.hi < h  BY <1>2, PairIs
    <3>. HIDE DEF a, h, U
    <3>. QED  BY <1>0, <3>1, Divide2by1
  <2>. HIDE DEF res
  <2>2. g \in Word /\ o \in 0..h - 1 /\ U = g * h + o  BY <2>1 DEF Divides
  <2>3. g \in 0..b - 1 /\ o \in Word /\ g \in Int /\ o \in Int /\ g * h \in Int
    <3>. HIDE DEF h, g, o
    <3>. QED  BY <1>0, <2>2 DEF Word, b
  <2>4. wide(o) \in uint128 /\ Val(wide(o)) = o  BY <2>3, WideIs
  <2>5. p \in uint128 /\ Val(p) = o + h
    <3>1. wide(h) \in uint128 /\ Val(wide(h)) = h  BY <1>0, WideIs
    <3>2. p \in uint128 /\ Val(p) = (Val(wide(o)) + Val(wide(h))) % Full
      <4>. DEFINE c1 == wide(h)
                  c2 == wide(o)
      <4>. HIDE DEF c1, c2
      <4>1. plus(c2, c1) \in uint128 /\ Val(plus(c2, c1)) = (Val(c2) + Val(c1)) % Full
        BY <2>4, <3>1, PlusIs DEF c1, c2
      <4>. QED  BY <4>1 DEF c1, c2
    <3>. HIDE DEF o, h
    <3>3. 2 * B <= Full
      <4>1. 2 * B <= B * B  BY Base
      <4>. QED  BY <4>1 DEF Full
    <3>4. o + h \in 0..Full - 1  BY <1>0, <2>2, <3>3, FullIs DEF b
    <3>5. (o + h) % Full = o + h  BY <3>4, FullIs, ModSelf
    <3>. QED  BY <2>4, <3>1, <3>2, <3>5
  <2>6. U - g * h = o
    <3>. DEFINE c == g * h
    <3>. HIDE DEF c
    <3>1. U = c + o /\ c \in Int /\ o \in Int  BY <2>2, <2>3 DEF c
    <3>2. U - c = o  BY <3>1
    <3>. QED  BY <3>2 DEF c
  <2>7. TooLarge(g, d, wide(o), u0) <=> o * B + u0 < g * l
    <3>. DEFINE c == wide(o)
    <3>. HIDE DEF c, g, o
    <3>1. TooLarge(g, d, c, u0) <=> Val(c) * B + u0 < g * d.lo
      BY <2>2, <2>4, TooLargeIs DEF c
    <3>. QED  BY <2>4, <3>1 DEF c
  <2>8. e = IF ~TooLarge(g, d, wide(o), u0) THEN g
            ELSE wsub(g, 1 + Bit(TooLarge(wsub(g, 1), d, p, u0)))
    <3>1. ~(u2 >= d.hi)
      <4>1. d.hi \in Int /\ u2 \in Int  BY <1>0
      <4>. QED  BY <1>2, <4>1
    <3>. QED  BY <3>1 DEF EstimateDigit, res
  <2>. DEFINE f1 == o * B + u0 < g * l
              f2 == (o + h) * B + u0 < (g - 1) * l
  <2>9. e = IF ~f1 THEN g ELSE IF ~f2 THEN g - 1 ELSE g - 2
    <3>1. CASE ~f1  BY <2>7, <2>8, <3>1
    <3>2. CASE f1
      <4>1. g >= 1
        <5>1. ASSUME g = 0 PROVE FALSE
          <6>1. 0 * l = 0 /\ o * B \in Nat
            <7>1. o \in Nat  BY <2>2
            <7>. HIDE DEF o
            <7>. QED  BY <1>0, <7>1, Base
          <6>. DEFINE c == o * B
          <6>. HIDE DEF c
          <6>2. c + u0 < 0 /\ c \in Nat  BY <3>2, <5>1, <6>1 DEF c
          <6>. QED  BY <1>0, <6>2
        <5>. HIDE DEF g
        <5>. QED  BY <2>3, <5>1
      <4>2. g - 1 \in Word /\ wsub(g, 1) = g - 1
        <5>. HIDE DEF g
        <5>1. g - 1 \in 0..B - 1  BY <2>3, <4>1, Base
        <5>2. (g - 1) % B = g - 1  BY <5>1, Base, ModSelf
        <5>. QED  BY <5>1, <5>2 DEF wsub, Word
      <4>3. TooLarge(g - 1, d, p, u0) <=> f2
        <5>. DEFINE g1 == g - 1
        <5>. HIDE DEF p, g1
        <5>1. TooLarge(g1, d, p, u0) <=> Val(p) * B + u0 < g1 * d.lo
          BY <2>5, <4>2, TooLargeIs DEF g1
        <5>. QED  BY <2>5, <5>1 DEF g1
      <4>4. CASE ~f2
        <5>1. e = wsub(g, 1 + 0) /\ 1 + 0 = 1  BY <2>7, <2>8, <3>2, <4>2, <4>3, <4>4 DEF Bit
        <5>. QED  BY <3>2, <4>2, <4>4, <5>1
      <4>5. CASE f2
        <5>1. e = wsub(g, 1 + 1) /\ 1 + 1 = 2  BY <2>7, <2>8, <3>2, <4>2, <4>3, <4>5 DEF Bit
        <5>2. g >= 2
          <6>1. ASSUME g = 1 PROVE FALSE
            <7>1. (g - 1) * l = 0
              <8>1. 0 * l = 0 /\ g - 1 = 0  BY <1>0, <6>1
              <8>. QED  BY <8>1
            <7>. DEFINE c == (o + h) * B
            <7>2. c \in Nat
              <8>. DEFINE k == o + h
              <8>1. k \in Nat  BY <1>0, <2>2
              <8>. HIDE DEF k
              <8>2. k * B \in Nat  BY <8>1, Base
              <8>. QED  BY <8>2 DEF k
            <7>. HIDE DEF c
            <7>3. c + u0 < 0  BY <4>5, <7>1 DEF c
            <7>. QED  BY <1>0, <7>2, <7>3
          <6>. HIDE DEF g
          <6>. QED  BY <2>3, <4>1, <6>1
        <5>3. wsub(g, 2) = g - 2
          <6>. HIDE DEF g
          <6>1. g - 2 \in 0..B - 1  BY <2>3, <5>2, Base
          <6>2. (g - 2) % B = g - 2  BY <6>1, Base, ModSelf
          <6>. QED  BY <6>2 DEF wsub
        <5>. QED  BY <3>2, <4>5, <5>1, <5>3
      <4>. QED  BY <4>4, <4>5
    <3>. QED  BY <3>1, <3>2
  <2>10. U - g * h >= 0 /\ U < (g + 1) * h
    <3>. DEFINE c == g * h
    <3>1. (g + 1) * h = c + h /\ c \in Int
      <4>. HIDE DEF g, h
      <4>. QED  BY <1>0, <2>3
    <3>. HIDE DEF c, g, o, h, U
    <3>2. c + o < c + h  BY <1>0, <2>2, <3>1
    <3>. QED  BY <2>2, <2>6, <3>1, <3>2 DEF c
  <2>11. U = u2 * B + u1 /\ e = IF ~((U - g * h) * B + u0 < g * l) THEN g
            ELSE IF ~((U - g * h + h) * B + u0 < (g - 1) * l) THEN g - 1 ELSE g - 2
    BY <2>6, <2>9
  <2>. HIDE DEF g, U, e, h, l
  <2>12. Best(e, ThreeWords(u2, u1, u0), d)  BY <2>2, <2>10, <2>11, BestIs DEF h, l
  <2>. QED  BY <2>12 DEF e
<1>3. u2 >= h \/ u2 < h
  <2>. HIDE DEF h
  <2>. QED  BY <1>0
<1>. QED  BY <1>1, <1>2, <1>3

(* The guess made from the leading words is the digit or one more.             *)
LEMMA OneOffIs ==
    ASSUME NEW b \in Nat \ {0}, NEW A \in Nat, NEW E \in Nat, NEW P \in Nat \ {0},
           NEW a \in 0..P - 1, NEW c \in 0..P - 1, NEW X, X = A * P + a, NEW Y, Y = E * P + c,
           X < Y * b, NEW g \in 0..b - 1, g * E <= A, g = b - 1 \/ A < (g + 1) * E, b <= E
    PROVE  g - (X \div Y) \in {0, 1} /\ Y \in Nat \ {0} /\ X \in Nat
<1>. DEFINE o == X \div Y
            s == X % Y
<1>1. X \in Nat /\ Y \in Nat \ {0}
  <2>1. A * P \in Nat /\ E * P \in Nat /\ E * P >= E
    <3>1. A * P \in Nat /\ E * P \in Nat  OBVIOUS
    <3>. QED  BY <3>1, TimesOne
  <2>. QED  BY <2>1
<1>2. X = o * Y + s /\ s \in 0..Y - 1 /\ o \in Int
  <2>. HIDE DEF o, s
  <2>1. X \in Int  BY <1>1
  <2>. QED  BY <1>1, <2>1, DivMod DEF o, s
<1>. HIDE DEF o, s
<1>3. o <= b - 1
  <2>1. ASSUME o >= b PROVE FALSE
    <3>1. o * Y >= b * Y /\ b * Y = Y * b /\ o * Y \in Int /\ Y * b \in Int  BY <1>1, <1>2, <2>1
    <3>. QED  BY <1>1, <1>2, <3>1
  <2>. QED  BY <1>2, <2>1
<1>4. o <= g
  <2>1. CASE g = b - 1  BY <1>3, <2>1
  <2>2. CASE A < (g + 1) * E
    <3>. DEFINE f == (g + 1) * E
    <3>1. A + 1 <= f /\ f \in Int  BY <2>2
    <3>2. (g + 1) * Y = f * P + (g + 1) * c  BY <1>1
    <3>3. (g + 1) * c >= 0 /\ (g + 1) * c \in Int  OBVIOUS
    <3>. HIDE DEF f
    <3>4. (A + 1) * P <= f * P /\ (A + 1) * P = A * P + P /\ f * P \in Int /\ A * P \in Int
      BY <3>1
    <3>5. X < (g + 1) * Y
      <4>. DEFINE e1 == A * P
                  e2 == f * P
                  e3 == (g + 1) * c
                  e4 == (g + 1) * Y
      <4>1. e1 + P <= e2 /\ e1 \in Int /\ e2 \in Int /\ e3 \in Int /\ e3 >= 0 /\ e4 = e2 + e3
            /\ X = e1 + a
        BY <3>2, <3>3, <3>4
      <4>. HIDE DEF e1, e2, e3, e4
      <4>2. X < e4  BY <4>1
      <4>. QED  BY <4>2 DEF e4
    <3>6. ASSUME o >= g + 1 PROVE FALSE
      <4>1. o * Y >= (g + 1) * Y /\ o * Y \in Int /\ (g + 1) * Y \in Int  BY <1>1, <1>2, <3>6
      <4>. QED  BY <1>1, <1>2, <3>5, <4>1
    <3>. QED  BY <1>2, <3>6
  <2>. QED  BY <2>1, <2>2
<1>5. g <= o + 1
  <2>1. ASSUME g >= o + 2 PROVE FALSE
    <3>. DEFINE f == g - 1
    <3>1. f \in Nat /\ o + 1 <= f /\ f < b /\ f \in Int  BY <1>2, <1>3, <1>4, <2>1
    <3>2. f * Y <= X
      <4>1. f * Y = (f * E) * P + f * c  BY <1>1, <3>1
      <4>2. f * c <= f * P /\ f * c \in Int /\ f * P \in Int  BY <3>1
      <4>3. f * P <= E * P  BY <3>1
      <4>4. (f * E) * P + E * P = (g * E) * P
        <5>1. f + 1 = g  OBVIOUS
        <5>. HIDE DEF f
        <5>2. (f * E) * P + E * P = ((f + 1) * E) * P  BY <3>1
        <5>. QED  BY <5>1, <5>2
      <4>5. (g * E) * P <= A * P  OBVIOUS
      <4>. DEFINE e1 == (f * E) * P
                  e2 == f * c
                  e3 == f * P
                  e4 == E * P
                  e5 == (g * E) * P
                  e6 == A * P
      <4>6. e1 \in Int /\ e4 \in Int /\ e5 \in Int /\ e6 \in Int  BY <3>1
      <4>7. e2 <= e3 /\ e3 <= e4 /\ e1 + e4 = e5 /\ e5 <= e6 /\ X = e6 + a /\ f * Y = e1 + e2
            /\ e2 \in Int /\ e3 \in Int
        BY <4>1, <4>2, <4>3, <4>4, <4>5
      <4>. HIDE DEF e1, e2, e3, e4, e5, e6, f
      <4>. QED  BY <4>6, <4>7
    <3>. HIDE DEF f
    <3>3. (o + 1) * Y <= f * Y /\ (o + 1) * Y = o * Y + Y /\ f * Y \in Int /\ o * Y \in Int
      BY <1>1, <1>2, <3>1
    <3>. QED  BY <1>1, <1>2, <3>2, <3>3
  <2>. QED  BY <1>2, <2>1
<1>6. g - o = 0 \/ g - o = 1  BY <1>2, <1>4, <1>5
<1>. QED  BY <1>1, <1>6 DEF o

(* The leading words of a number with nothing above them.                      *)
LEMMA LeadingTwo ==
    ASSUME NEW w \in Words5, NEW i \in 1..N, \A l \in i + 1..N : w[l] = 0
    PROVE  /\ Number(w) = (w[i] * B + w[i - 1]) * Place(i - 1) + Number(UpTo(w, i - 2))
           /\ Number(UpTo(w, i - 2)) \in 0..Place(i - 1) - 1
<1>. DEFINE e == w[i]
            f == w[i - 1]
            p == Place(i - 1)
            z == Number(UpTo(w, i - 2))
<1>0. i \in 0..N /\ i \in Int /\ i - 1 \in 0..N /\ i - 1 \in Nat /\ (i - 1) + 1 = i
      /\ (i - 1) - 1 = i - 2 /\ i - 2 \in -1..N /\ i - 2 \in Int /\ (i - 2) + 1 = i - 1
  BY DEF N
<1>1. Number(UpTo(w, i)) = Number(w)  BY <1>0, ZerosAbove
<1>2. Number(UpTo(w, i)) = e * Place(i) + Number(UpTo(w, i - 1))  BY <1>0, PartsStep
<1>3. Number(UpTo(w, i - 1)) = f * p + z
  <2>1. Number(UpTo(w, i - 1)) = w[i - 1] * Place(i - 1) + Number(UpTo(w, (i - 1) - 1))
    BY <1>0, PartsStep
  <2>. QED  BY <1>0, <2>1
<1>4. Place(i) = p * B /\ p \in Nat \ {0}
  <2>1. Place((i - 1) + 1) = p * B /\ p \in Nat \ {0}  BY <1>0, Places
  <2>. QED  BY <1>0, <2>1
<1>5. z < p /\ z \in Nat
  <2>1. Number(UpTo(w, i - 2)) < Place((i - 2) + 1)  BY <1>0, UpToBounded
  <2>2. z \in Nat  BY <1>0, PartsAre
  <2>. QED  BY <1>0, <2>1, <2>2
<1>6. e \in Int /\ f \in Int  BY <1>0, Words5In
<1>. HIDE DEF e, f, p, z
<1>7. e * (p * B) + (f * p + z) = (e * B + f) * p + z  BY <1>4, <1>5, <1>6, Base
<1>. QED  BY <1>1, <1>2, <1>3, <1>4, <1>5, <1>7 DEF e, f, p, z

LEMMA LeadingThree ==
    ASSUME NEW w \in Words5, NEW i \in 2..N, \A l \in i + 1..N : w[l] = 0
    PROVE  /\ Number(w) = ThreeWords(w[i], w[i - 1], w[i - 2]) * Place(i - 2)
                            + Number(UpTo(w, i - 3))
           /\ Number(UpTo(w, i - 3)) \in 0..Place(i - 2) - 1
<1>. DEFINE e == w[i]
            f == w[i - 1]
            g == w[i - 2]
            p == Place(i - 2)
            z == Number(UpTo(w, i - 3))
            b == B
<1>0. i \in 1..N /\ i - 1 \in 0..N /\ i - 2 \in 0..N /\ i - 2 \in Nat /\ (i - 2) + 1 = i - 1
      /\ (i - 2) - 1 = i - 3 /\ i - 3 \in -1..N /\ i - 3 \in Int /\ (i - 3) + 1 = i - 2
      /\ i \in 0..N
  BY DEF N
<1>1. Number(w) = (e * b + f) * Place(i - 1) + Number(UpTo(w, i - 2))  BY <1>0, LeadingTwo
<1>2. Number(UpTo(w, i - 2)) = g * p + z
  <2>1. Number(UpTo(w, i - 2)) = w[i - 2] * Place(i - 2) + Number(UpTo(w, (i - 2) - 1))
    BY <1>0, PartsStep
  <2>. QED  BY <1>0, <2>1
<1>3. Place(i - 1) = p * b /\ p \in Nat \ {0}
  <2>1. Place((i - 2) + 1) = p * b /\ p \in Nat \ {0}  BY <1>0, Places
  <2>. QED  BY <1>0, <2>1
<1>4. z < p /\ z \in Nat
  <2>1. Number(UpTo(w, i - 3)) < Place((i - 3) + 1)  BY <1>0, UpToBounded
  <2>2. z \in Nat  BY <1>0, PartsAre
  <2>. QED  BY <1>0, <2>1, <2>2
<1>5. e \in Int /\ f \in Int /\ g \in Int /\ b \in Int  BY <1>0, Words5In, Base
<1>. HIDE DEF e, f, g, p, z, b
<1>6. (e * b + f) * (p * b) + (g * p + z) = (e * (b * b) + f * b + g) * p + z
  BY <1>3, <1>4, <1>5
<1>7. ThreeWords(e, f, g) = e * (b * b) + f * b + g  BY DEF ThreeWords, Full, b
<1>. QED  BY <1>1, <1>2, <1>3, <1>4, <1>6, <1>7 DEF e, f, g, p, z

(* The divisor's two leading words.                                            *)
Leading(a) == [hi |-> a.denominator[a.n - 1], lo |-> a.denominator[a.n - 2]]

(* What udivrem_knuth works with.                                              *)
LEMMA KnuthIs ==
    ASSUME NEW a, NEW u \in Words, NEW v \in Words, Normalized(a, u, v), a.n > 2,
           NEW w, NEW z, NEW t, NEW k, NEW e, Dividing(a, w, z, t, k, e), k >= 0
    PROVE  /\ w \in Words5 /\ z \in Words /\ k \in Nat /\ a.n \in {3, 4} /\ k + a.n \in 0..N
           /\ a.denominator \in Words /\ Number(a.denominator) \in Nat \ {0}
           /\ Number(a.denominator) < Place(a.n)
           /\ Number(w) < Number(a.denominator) * Place(k + 1)
           /\ Number(w) < Place(k + a.n + 1)
           /\ \A i \in k + a.n + 1..N : w[i] = 0
           /\ Divisor2(Leading(a)) /\ Number(w) \in Nat
           /\ Number(a.denominator)
                = Val(Leading(a)) * Place(a.n - 2) + Number(UpTo(Widened(a.denominator), a.n - 3))
           /\ Number(UpTo(Widened(a.denominator), a.n - 3)) \in 0..Place(a.n - 2) - 1
<1>. DEFINE n == a.n
            den == a.denominator
            D == Number(den)
            dd == Widened(den)
            h == den[n - 1]
            l == den[n - 2]
<1>0. /\ k \in Nat /\ n \in {3, 4} /\ k + n \in 0..N /\ den \in Words /\ w \in Words5 /\ z \in Words
      /\ Exact(a, w, z, t, k) /\ n - 1 \in 0..N - 1 /\ n - 2 \in 0..N - 1
  <2>1. a.n \in 1..N /\ k \in Nat /\ k + a.n \in 0..N /\ Exact(a, w, z, t, k)
        /\ a.denominator \in Words
    BY LoopBounds
  <2>2. n \in {3, 4}
    <3>1. n \in 1..N /\ n > 2  BY <2>1
    <3>. HIDE DEF n
    <3>. QED  BY <3>1 DEF N
  <2>3. w \in Words5 /\ z \in Words  BY DEF Dividing
  <2>4. n - 1 \in 0..N - 1 /\ n - 2 \in 0..N - 1
    <3>. HIDE DEF n
    <3>. QED  BY <2>2 DEF N
  <2>. QED  BY <2>1, <2>2, <2>3, <2>4
<1>1. Number(w) < D * Place(k + 1)  BY <1>0 DEF Exact, Rest
<1>2. /\ \A i \in n..N - 1 : den[i] = 0
      /\ Divisor(h)
  BY DEF Normalized
<1>3. dd \in Words5 /\ Number(dd) = D /\ dd[n - 1] = h /\ dd[n - 2] = l
      /\ \A i \in n..N : dd[i] = 0
  <2>1. /\ dd \in Words5 /\ Number(dd) = D
        /\ \A i \in 0..N - 1 : dd[i] = den[i]
        /\ dd[N] = 0
    BY <1>0, WidenedIs
  <2>. HIDE DEF dd
  <2>2. \A i \in n..N : dd[i] = 0
    <3>1. \A i \in n..N : i = N \/ (i \in n..N - 1 /\ i \in 0..N - 1)
      <4>. HIDE DEF n
      <4>. QED  BY <1>0 DEF N
    <3>. QED  BY <1>2, <2>1, <3>1
  <2>. QED  BY <1>0, <2>1, <2>2
<1>. HIDE DEF dd, n
<1>4. n \in Nat /\ n - 1 \in 1..N /\ (n - 1) + 1 = n /\ (n - 1) - 1 = n - 2
      /\ (n - 1) - 2 = n - 3 /\ n - 1 \in Int /\ n - 1 \in -1..N /\ n \in 0..N
  BY <1>0 DEF N
<1>5. D \in Nat /\ D < Place(n)
  <2>1. D \in Nat  BY <1>0, WordsAre, WideIs256
  <2>2. \A i \in (n - 1) + 1..N : dd[i] = 0  BY <1>3, <1>4
  <2>3. Number(UpTo(dd, n - 1)) = Number(dd)  BY <1>3, <1>4, <2>2, ZerosAbove
  <2>4. Number(UpTo(dd, n - 1)) < Place((n - 1) + 1)  BY <1>3, <1>4, UpToBounded
  <2>. QED  BY <1>3, <1>4, <2>1, <2>3, <2>4
<1>6. h \in Word /\ l \in Word
  <2>1. \A i \in 0..N - 1 : den[i] \in Word
    <3>. HIDE DEF den
    <3>. QED  BY <1>0 DEF Words
  <2>. QED  BY <1>0, <2>1
<1>7. Divisor2(Leading(a)) /\ Val(Leading(a)) = h * B + l
  <2>1. Leading(a) = [hi |-> h, lo |-> l]  BY DEF Leading, n
  <2>. HIDE DEF h, l
  <2>2. [hi |-> h, lo |-> l] \in uint128 /\ Val([hi |-> h, lo |-> l]) = h * B + l
    BY <1>6, PairIs
  <2>. QED  BY <1>2, <2>1, <2>2 DEF Divisor2
<1>8. /\ D = (h * B + l) * Place(n - 2) + Number(UpTo(dd, n - 3))
      /\ Number(UpTo(dd, n - 3)) \in 0..Place(n - 2) - 1
  <2>1. \A i \in (n - 1) + 1..N : dd[i] = 0  BY <1>3, <1>4
  <2>. DEFINE i == n - 1
  <2>2. i \in 1..N /\ \A o \in i + 1..N : dd[o] = 0  BY <1>4, <2>1
  <2>. HIDE DEF i
  <2>3. /\ Number(dd) = (dd[i] * B + dd[i - 1]) * Place(i - 1) + Number(UpTo(dd, i - 2))
        /\ Number(UpTo(dd, i - 2)) \in 0..Place(i - 1) - 1
    BY <1>3, <2>2, LeadingTwo
  <2>4. i - 1 = n - 2 /\ i - 2 = n - 3 /\ i = n - 1  BY <1>4 DEF i
  <2>. QED  BY <1>3, <2>3, <2>4
<1>9. D \in Nat \ {0} /\ Number(w) \in Nat
  <2>1. Number(w) \in Nat
    <3>1. 0 \in Int  OBVIOUS
    <3>. QED  BY <1>0, <3>1, PartsAre
  <2>. DEFINE p == Place(k + 1)
  <2>2. p \in Nat
    <3>1. k + 1 \in Nat  BY <1>0
    <3>. QED  BY <3>1, Places
  <2>. HIDE DEF D, p
  <2>3. Number(w) < D * p  BY <1>1 DEF D, p
  <2>4. 0 * p = 0  BY <2>2
  <2>5. D # 0  BY <2>1, <2>3, <2>4
  <2>. QED  BY <1>5, <2>1, <2>5
<1>10. Number(w) < Place(k + n + 1)
  <2>. DEFINE p == Place(k + 1)
              o == Place(n)
  <2>1. k + 1 \in Nat /\ n + (k + 1) = k + n + 1  BY <1>0, <1>4
  <2>2. Place(n + (k + 1)) = o * p /\ p \in Nat \ {0} /\ o \in Nat
    BY <1>4, <2>1, PlaceSum, Places
  <2>. HIDE DEF D, p, o
  <2>3. D * p <= o * p /\ D * p \in Int /\ o * p \in Int  BY <1>5, <2>2 DEF o
  <2>4. Number(w) < D * p  BY <1>1 DEF D, p
  <2>. QED  BY <1>9, <2>1, <2>2, <2>3, <2>4
<1>11. \A i \in k + n + 1..N : w[i] = 0
  <2>. DEFINE i0 == k + n + 1
  <2>1. i0 \in 0..N + 1  BY <1>0, <1>4 DEF N
  <2>2. Number(w) < Place(i0)  BY <1>10
  <2>. HIDE DEF i0
  <2>3. \A i \in i0..N : w[i] = 0  BY <1>0, <2>1, <2>2, HighWords
  <2>. QED  BY <2>3 DEF i0
<1>. QED  BY <1>0, <1>1, <1>5, <1>7, <1>8, <1>9, <1>10, <1>11 DEF n, dd

(* Estimate.                                                                   *)
LEMMA EstimateIs ==
    ASSUME NEW a, NEW u \in Words, NEW v \in Words, Normalized(a, u, v), a.n > 2,
           NEW w, NEW z, NEW t, NEW k, Dividing(a, w, z, t, k, NoDigit), k >= 0,
           NEW g, g = EstimateDigit(w[k + a.n], w[k + a.n - 1], w[k + a.n - 2], Leading(a))
    PROVE  Dividing(a, w, z, t, k, g)
<1>. DEFINE n == a.n
            den == a.denominator
            D == Number(den)
            d == Leading(a)
            i == k + n
            u2 == w[i]
            u1 == w[i - 1]
            u0 == w[i - 2]
            A == ThreeWords(u2, u1, u0)
            E == Val(d)
            P == Place(i - 2)
            Y == D * Place(k)
            X == Number(w)
            c0 == Number(UpTo(Widened(den), n - 3))
            a0 == Number(UpTo(w, i - 3))
<1>0. /\ w \in Words5 /\ k \in Nat /\ n \in {3, 4} /\ i \in 0..N /\ D \in Nat \ {0}
      /\ X < D * Place(k + 1) /\ X \in Nat /\ Divisor2(d)
      /\ \A o \in i + 1..N : w[o] = 0
      /\ D = E * Place(n - 2) + c0 /\ c0 \in 0..Place(n - 2) - 1
  BY KnuthIs
<1>. HIDE DEF n, den, d
<1>1. i \in 2..N /\ i - 1 \in 0..N /\ i - 2 \in 0..N /\ i - 2 = (n - 2) + k /\ n - 2 \in Nat
      /\ i - 2 \in Nat /\ i \in 1..N /\ i - 1 \in Nat
  BY <1>0 DEF N
<1>. HIDE DEF i
<1>2. u2 \in Word /\ u1 \in Word /\ u0 \in Word  BY <1>0, <1>1, Words5In
<1>3. X = A * P + a0 /\ a0 \in 0..P - 1  BY <1>0, <1>1, LeadingThree
<1>4. P = Place(n - 2) * Place(k) /\ P \in Nat \ {0} /\ Place(k) \in Nat \ {0}
      /\ Place(n - 2) \in Nat \ {0} /\ Place(k + 1) = Place(k) * B
  BY <1>0, <1>1, PlaceSum, Places
<1>5. E \in Nat /\ B <= E /\ E \in Nat \ {0}
  <2>. DEFINE h == d.hi
              l == d.lo
  <2>1. E = h * B + l /\ h \in Nat \ {0} /\ l \in 0..B - 1 /\ E \in Nat \ {0}
    BY <1>0, Divisor2Is
  <2>. HIDE DEF h, l
  <2>2. h * B >= B /\ h * B \in Int
    <3>1. h * B >= 1 * B /\ 1 * B = B /\ h * B \in Int  BY <2>1, Base
    <3>. QED  BY <3>1
  <2>. QED  BY <2>1, <2>2, Base
<1>6. A \in Nat
  <2>1. u2 \in Nat /\ u1 \in Nat /\ u0 \in Nat  BY <1>2, Base DEF Word
  <2>. DEFINE b == B
  <2>2. b \in Nat  BY Base
  <2>. HIDE DEF u2, u1, u0, b
  <2>3. u2 * (b * b) + u1 * b + u0 \in Nat
    <3>1. b * b \in Nat  BY <2>2
    <3>2. u2 * (b * b) \in Nat /\ u1 * b \in Nat  BY <2>1, <2>2, <3>1
    <3>. QED  BY <2>1, <3>2
  <2>. QED  BY <2>3 DEF ThreeWords, Full, b
<1>. DEFINE c1 == c0 * Place(k)
            f == Place(k)
            o == Place(n - 2)
<1>. HIDE DEF D, X, E, A, P, a0, c0, f, o
<1>7. Y = E * P + c1 /\ c1 \in 0..P - 1 /\ X < Y * B /\ Y * B \in Int
  <2>1. D = E * o + c0 /\ c0 \in 0..o - 1 /\ P = o * f /\ f \in Nat \ {0} /\ o \in Nat \ {0}
        /\ Place(k + 1) = f * B
    BY <1>0, <1>4 DEF o, f
  <2>2. (E * o + c0) * f = E * (o * f) + c0 * f  BY <1>5, <2>1
  <2>3. Y = E * P + c1  BY <2>1, <2>2 DEF f
  <2>4. c0 * f \in Nat /\ (c0 + 1) * f <= o * f /\ (c0 + 1) * f = c0 * f + f /\ o * f \in Int
    BY <2>1
  <2>5. c1 \in 0..P - 1  BY <2>1, <2>4 DEF f
  <2>6. D * (f * B) = (D * f) * B /\ D * f \in Int  BY <1>0, <2>1, Base
  <2>. QED  BY <1>0, <2>1, <2>3, <2>5, <2>6, Base DEF f
<1>8. u2 * B + u1 <= E
  <2>. DEFINE p2 == u2 * B + u1
              r0 == Number(UpTo(w, i - 2))
              p1 == Place(i - 1)
  <2>1. X = p2 * p1 + r0 /\ r0 \in 0..p1 - 1
    <3>1. i \in 1..N  BY <1>1
    <3>. QED  BY <1>0, <3>1, LeadingTwo DEF X
  <2>2. p1 = P * B
    <3>1. Place((i - 2) + 1) = P * B /\ (i - 2) + 1 = i - 1
      <4>1. i \in Int  BY <1>1 DEF N
      <4>. QED  BY <1>1, <4>1, Places DEF P
    <3>. QED  BY <3>1
  <2>3. p2 \in Int
    <3>1. u2 \in Int /\ u1 \in Int  BY <1>2, Base DEF Word
    <3>. HIDE DEF u2, u1
    <3>. QED  BY <3>1, Base
  <2>. HIDE DEF p2, r0, p1
  <2>4. ASSUME p2 >= E + 1 PROVE FALSE
    <3>1. p2 * p1 >= (E + 1) * p1 /\ p1 \in Nat /\ p2 * p1 \in Int
      <4>1. p1 \in Nat  BY <1>4, <2>2, Base
      <4>. QED  BY <1>5, <2>3, <2>4, <4>1
    <3>2. Y + 1 <= (E + 1) * P
      <4>1. (E + 1) * P = E * P + P /\ E * P \in Int  BY <1>4, <1>5
      <4>. HIDE DEF c1, Y
      <4>. QED  BY <1>7, <4>1, <1>4
    <3>3. Y * B <= ((E + 1) * P) * B
      <4>1. Y \in Int
        <5>1. E * P \in Int  BY <1>4, <1>5
        <5>. HIDE DEF Y, c1
        <5>. QED  BY <1>7, <5>1
      <4>2. (E + 1) * P \in Int  BY <1>4, <1>5
      <4>. DEFINE m == (E + 1) * P
      <4>. HIDE DEF Y, m
      <4>3. Y <= m  BY <3>2, <4>1, <4>2 DEF m
      <4>4. Y * B <= m * B  BY <4>1, <4>2, <4>3, Base DEF m
      <4>. QED  BY <4>4 DEF m
    <3>4. ((E + 1) * P) * B = (E + 1) * p1 /\ (E + 1) * p1 \in Int
      <4>1. ((E + 1) * P) * B = (E + 1) * (P * B) /\ (E + 1) * (P * B) \in Int
        BY <1>4, <1>5, Base
      <4>. QED  BY <2>2, <4>1
    <3>. DEFINE m1 == (E + 1) * p1
                m2 == p2 * p1
                m3 == Y * B
    <3>5. m3 <= m1 /\ m1 \in Int /\ m2 >= m1 /\ m2 \in Int /\ X < m3 /\ m3 \in Int /\ X = m2 + r0
          /\ r0 \in Nat
      BY <1>7, <2>1, <3>1, <3>3, <3>4
    <3>. HIDE DEF m1, m2, m3
    <3>. QED  BY <3>5
  <2>5. p2 <= E  BY <1>5, <2>3, <2>4
  <2>. QED  BY <2>5 DEF p2
<1>9. Best(g, A, d)
  <2>0. u2 = w[k + a.n] /\ u1 = w[k + a.n - 1] /\ u0 = w[k + a.n - 2] /\ d = Leading(a)
    <3>1. i = k + a.n  BY DEF i, n
    <3>2. d = Leading(a)  BY DEF d
    <3>3. i - 1 = k + a.n - 1 /\ i - 2 = k + a.n - 2
      <4>1. n \in Int /\ k \in Int  BY <1>0
      <4>2. (k + n) - 1 = k + (n - 1) /\ (k + n) - 2 = k + (n - 2)  BY <4>1
      <4>. QED  BY <4>2 DEF i, n
    <3>. QED  BY <3>1, <3>2, <3>3
  <2>. HIDE DEF u2, u1, u0
  <2>1. g = EstimateDigit(u2, u1, u0, d)  BY <2>0
  <2>2. u2 * B + u1 <= Val(d)  BY <1>8 DEF E
  <2>. HIDE DEF u2, u1, u0
  <2>. QED  BY <1>0, <1>2, <2>1, <2>2, EstimateDigitIs DEF A
<1>10. g \in Word /\ g * E <= A /\ (g = B - 1 \/ A < (g + 1) * E)  BY <1>9 DEF Best, E
<1>11. g - (X \div Y) \in {0, 1}
  <2>. DEFINE b == B
  <2>1. b \in Nat \ {0} /\ g \in 0..b - 1  BY <1>10, Base DEF Word
  <2>2. X < Y * b /\ b <= E /\ (g = b - 1 \/ A < (g + 1) * E)  BY <1>5, <1>7, <1>10
  <2>3. /\ X = A * P + a0 /\ a0 \in 0..P - 1 /\ P \in Nat \ {0} /\ E \in Nat /\ A \in Nat
        /\ Y = E * P + c1 /\ c1 \in 0..P - 1 /\ g * E <= A
    BY <1>3, <1>4, <1>5, <1>6, <1>7, <1>10
  <2>. HIDE DEF c1, Y, b
  <2>. QED  BY <2>1, <2>2, <2>3, OneOffIs
<1>12. OneOff(a, w, k, g)  BY <1>11 DEF OneOff, X, D, den
<1>13. g # NoDigit
  <2>1. g \in Nat  BY <1>10, Base DEF Word
  <2>. QED  BY <2>1 DEF NoDigit
<1>. QED  BY <1>10, <1>12, <1>13 DEF Dividing

-------------------------------------------------------------------------------
(* Taking a multiple of the divisor off, word by word.                         *)

(* One word: what is written, and what is borrowed from the next.              *)
WordSubtracted(lo, borrow, c, o, g, d) ==
    lo \in Word /\ borrow \in Word /\ lo - borrow * B = c - o - g * d

LEMMA SubtractWord ==
    ASSUME NEW c \in Word, NEW o \in Word, NEW g \in Word, NEW d \in Word,
           NEW p, p = umul(g, d),
           NEW s, s = minus(minus(wide(c), wide(o)), wide(p.lo))
    PROVE  WordSubtracted(s.lo, wsub(p.hi, s.hi), c, o, g, d)
<1>. DEFINE b == B
            ph == p.hi
            pl == p.lo
            sh == s.hi
            sl == s.lo
            s1 == minus(wide(c), wide(o))
            m1 == (c - o) \div Full
            m2 == (Val(s1) - pl) \div Full
            f == Full
<1>0. c \in 0..b - 1 /\ o \in 0..b - 1 /\ g \in 0..b - 1 /\ d \in 0..b - 1 /\ b \in Nat \ {0}
      /\ b \in Int /\ f = b * b /\ f \in Nat \ {0}
  BY Base, FullIs DEF Word, Full
<1>1. p \in uint128 /\ ph * b + pl = g * d /\ ph \in 0..b - 1 /\ pl \in 0..b - 1 /\ pl \in Word
  <2>1. p \in uint128 /\ Val(p) = g * d  BY UmulIs
  <2>. QED  BY <2>1, ValIs
<1>2. /\ wide(c) \in uint128 /\ Val(wide(c)) = c /\ wide(o) \in uint128 /\ Val(wide(o)) = o
      /\ wide(pl) \in uint128 /\ Val(wide(pl)) = pl
  <2>. HIDE DEF pl
  <2>. QED  BY <1>1, WideIs
<1>3. s1 \in uint128 /\ Val(s1) = (c - o) % f
  <2>. DEFINE w1 == wide(c)
              w2 == wide(o)
  <2>. HIDE DEF w1, w2, f
  <2>1. minus(w1, w2) \in uint128 /\ Val(minus(w1, w2)) = (Val(w1) - Val(w2)) % f
    BY <1>2, MinusIs DEF w1, w2, f
  <2>2. Val(w1) = c /\ Val(w2) = o  BY <1>2 DEF w1, w2
  <2>. QED  BY <2>1, <2>2 DEF w1, w2
<1>4. s \in uint128 /\ Val(s) = (Val(s1) - pl) % f
  <2>. DEFINE w2 == wide(pl)
  <2>. HIDE DEF s1, w2, f
  <2>1. minus(s1, w2) \in uint128 /\ Val(minus(s1, w2)) = (Val(s1) - Val(w2)) % f
    BY <1>2, <1>3, MinusIs DEF w2, f
  <2>2. s = minus(s1, w2) /\ Val(w2) = pl  BY <1>2 DEF w2, s1
  <2>. QED  BY <2>1, <2>2
<1>5. Val(s) = sh * b + sl /\ sh \in 0..b - 1 /\ sl \in 0..b - 1 /\ sl \in Word
  BY <1>4, ValIs
<1>. HIDE DEF b, ph, pl, sh, sl, s1, f
<1>6. c - o = m1 * f + ((c - o) % f) /\ m1 \in Int
  <2>1. c - o \in Int  BY <1>0
  <2>. QED  BY <1>0, <2>1, DivMod DEF f
<1>7. Val(s1) - pl = m2 * f + ((Val(s1) - pl) % f) /\ m2 \in Int
  <2>1. Val(s1) - pl \in Int
    <3>1. Val(s1) \in Int  BY <1>3, ValIs
    <3>. QED  BY <1>1, <3>1
  <2>. QED  BY <1>0, <2>1, DivMod DEF f
<1>. DEFINE m == m1 + m2
            e == ph - sh - m * b
<1>. HIDE DEF m1, m2
<1>8. c - o - pl = (m1 + m2) * (b * b) + sh * b + sl
  <2>1. c - o = m1 * f + Val(s1) /\ Val(s1) - pl = m2 * f + (sh * b + sl) /\ Val(s1) \in Int
    <3>1. Val(s1) \in Int  BY <1>3, ValIs
    <3>. QED  BY <1>3, <1>4, <1>5, <1>6, <1>7, <3>1
  <2>. DEFINE e1 == m1 * f
              e2 == m2 * f
              e3 == sh * b
              e4 == Val(s1)
  <2>2. e1 \in Int /\ e2 \in Int /\ e3 \in Int /\ (m1 + m2) * f = e1 + e2
    BY <1>0, <1>5, <1>6, <1>7
  <2>3. c - o = e1 + e4 /\ e4 - pl = e2 + (e3 + sl) /\ e4 \in Int /\ pl \in Int /\ sl \in Int
        /\ c \in Int /\ o \in Int
    BY <1>0, <1>1, <1>5, <2>1
  <2>. HIDE DEF e1, e2, e3, e4
  <2>4. c - o - pl = (e1 + e2) + e3 + sl  BY <2>2, <2>3
  <2>. QED  BY <1>0, <2>2, <2>4 DEF e3
<1>9. sl - e * b = c - o - g * d /\ e \in Int /\ m \in Int
  <2>1. m \in Int /\ ph \in Int /\ sh \in Int /\ sl \in Int /\ pl \in Int /\ c \in Int /\ o \in Int
    BY <1>0, <1>1, <1>5, <1>6, <1>7
  <2>. HIDE DEF m
  <2>2. sl - (ph - sh - m * b) * b = (m * (b * b) + sh * b + sl) - ph * b  BY <1>0, <2>1
  <2>3. c - o - pl = m * (b * b) + sh * b + sl  BY <1>8 DEF m
  <2>. DEFINE e1 == ph * b
  <2>4. e1 \in Int /\ g * d = e1 + pl /\ sl - e * b = (c - o - pl) - e1
    BY <1>0, <1>1, <2>1, <2>2, <2>3
  <2>5. e \in Int  BY <1>0, <2>1
  <2>. HIDE DEF e1, e
  <2>. QED  BY <2>1, <2>4, <2>5
<1>. HIDE DEF m, e
<1>10. e \in 0..b - 1
  <2>1. e * b = sl - c + o + g * d /\ e * b \in Int /\ g * d \in Nat
    <3>. DEFINE e1 == e * b
                e2 == g * d
    <3>1. e1 \in Int /\ e2 \in Nat /\ sl - e1 = c - o - e2  BY <1>0, <1>9
    <3>. HIDE DEF e1, e2
    <3>. QED  BY <1>0, <1>5, <3>1 DEF e1, e2
  <2>2. g * d <= (b - 1) * (b - 1) /\ (b - 1) * (b - 1) = b * b - 2 * b + 1 /\ b * b \in Int
    <3>1. g * d <= (b - 1) * d /\ (b - 1) * d <= (b - 1) * (b - 1)  BY <1>0
    <3>2. g * d \in Int /\ (b - 1) * d \in Int /\ (b - 1) * (b - 1) \in Int  BY <1>0
    <3>3. (b - 1) * (b - 1) = b * b - 2 * b + 1 /\ b * b \in Int  BY <1>0
    <3>. QED  BY <3>1, <3>2, <3>3
  <2>3. e * b < b * b /\ e * b > -b
    <3>. DEFINE e1 == e * b
                e2 == g * d
                e3 == b * b
    <3>1. e1 = sl - c + o + e2 /\ e2 \in Nat /\ e2 <= e3 - 2 * b + 1 /\ e3 \in Int
      BY <2>1, <2>2
    <3>. HIDE DEF e1, e2, e3
    <3>2. e1 < e3 /\ e1 > -b  BY <1>0, <1>5, <3>1
    <3>. QED  BY <3>2 DEF e1, e3
  <2>4. ASSUME e >= b PROVE FALSE
    <3>1. e * b >= b * b /\ b * b \in Int  BY <1>0, <1>9, <2>4
    <3>. QED  BY <2>1, <2>3, <3>1
  <2>5. ASSUME e <= -1 PROVE FALSE
    <3>1. e * b <= (-1) * b /\ (-1) * b = -b  BY <1>0, <1>9, <2>5
    <3>. QED  BY <1>0, <2>1, <2>3, <3>1
  <2>. QED  BY <1>0, <1>9, <2>4, <2>5
<1>11. wsub(ph, sh) = e
  <2>1. ph - sh = m * b + e
    <3>. DEFINE e1 == m * b
    <3>1. e1 \in Int /\ e = ph - sh - e1  BY <1>0, <1>9 DEF e
    <3>. HIDE DEF e1
    <3>2. ph - sh = e1 + e  BY <1>1, <1>5, <3>1
    <3>. QED  BY <3>2 DEF e1
  <2>2. e \in Word  BY <1>10 DEF Word, b
  <2>3. ph - sh \in Int  BY <1>1, <1>5
  <2>. DEFINE a == ph - sh
  <2>4. a = e + m * B /\ a \in Int
    <3>. DEFINE e1 == m * b
    <3>1. e1 \in Int /\ ph - sh = e1 + e  BY <1>0, <1>9, <2>1
    <3>. HIDE DEF e1
    <3>2. ph - sh = e + e1  BY <1>9, <3>1
    <3>. QED  BY <2>3, <3>2 DEF e1, b
  <2>. HIDE DEF a
  <2>5. a % B = e  BY <1>9, <2>2, <2>4, WordModIs
  <2>. QED  BY <2>5 DEF wsub, a
<1>. QED  BY <1>5, <1>9, <1>10, <1>11 DEF ph, sh, sl, b, Word, WordSubtracted

(* A round of MultiplySubtract, and of AddBack, on what the one before left.   *)
SubtractRound(o, k, vn, g, i) ==
    LET p == umul(g, vn[i - 1])
        s == minus(minus(wide(o.un[k + i - 1]), wide(o.borrow)), wide(p.lo))
    IN [un     |-> [o.un EXCEPT ![k + i - 1] = s.lo],
        borrow |-> wsub(p.hi, s.hi)]

AddRound(o, k, vn, i) ==
    LET s == plus(plus(wide(o.un[k + i - 1]), wide(vn[i - 1])), wide(o.carry))
    IN [un |-> [o.un EXCEPT ![k + i - 1] = s.lo], carry |-> s.hi]

LEMMA SubtractRounds ==
    ASSUME NEW w, NEW k, NEW vn, NEW n \in 1..N, NEW g
    PROVE  \E f : /\ f[0] = [un |-> w, borrow |-> 0]
                  /\ \A i \in 1..n : f[i] = SubtractRound(f[i - 1], k, vn, g, i)
                  /\ MultiplySubtract(w, k, vn, n, g)
                       = [un        |-> [f[n].un EXCEPT ![k + n] = wsub(@, f[n].borrow)],
                          underflow |-> w[k + n] < f[n].borrow]
<1>. DEFINE R0 == [un |-> w, borrow |-> 0]
            Rows(f) == f = [i \in 0..n |->
                              IF i = 0 THEN R0 ELSE SubtractRound(f[i - 1], k, vn, g, i)]
            R1 == SubtractRound(R0, k, vn, g, 1)
            R2 == SubtractRound(R1, k, vn, g, 2)
            R3 == SubtractRound(R2, k, vn, g, 3)
            R4 == SubtractRound(R3, k, vn, g, 4)
            rows == [i \in 0..n |-> CASE i = 0 -> R0 [] i = 1 -> R1 [] i = 2 -> R2
                                      [] i = 3 -> R3 [] OTHER -> R4]
            row == CHOOSE f : Rows(f)
<1>1. Rows(rows)
  <2>. HIDE DEF R0, R1, R2, R3, R4
  <2>1. ASSUME NEW i \in 0..n
        PROVE  rows[i] = IF i = 0 THEN R0 ELSE SubtractRound(rows[i - 1], k, vn, g, i)
    <3>1. CASE i = 0  BY <3>1
    <3>2. CASE i = 1
      <4>1. rows[0] = R0 /\ rows[1] = R1 /\ i - 1 = 0  BY <3>2
      <4>. HIDE DEF rows
      <4>. QED  BY <3>2, <4>1 DEF R1
    <3>3. CASE i = 2
      <4>1. rows[1] = R1 /\ rows[2] = R2 /\ i - 1 = 1  BY <3>3
      <4>. HIDE DEF rows
      <4>. QED  BY <3>3, <4>1 DEF R2
    <3>4. CASE i = 3
      <4>1. rows[2] = R2 /\ rows[3] = R3 /\ i - 1 = 2  BY <3>4
      <4>. HIDE DEF rows
      <4>. QED  BY <3>4, <4>1 DEF R3
    <3>5. CASE i = 4
      <4>1. rows[3] = R3 /\ rows[4] = R4 /\ i - 1 = 3  BY <3>5
      <4>. HIDE DEF rows
      <4>. QED  BY <3>5, <4>1 DEF R4
    <3>6. i \in {0, 1, 2, 3, 4}  BY DEF N
    <3>. QED  BY <3>1, <3>2, <3>3, <3>4, <3>5, <3>6
  <2>2. rows = [i \in 0..n |-> rows[i]]  OBVIOUS
  <2>. HIDE DEF rows
  <2>. QED  BY <2>1, <2>2
<1>. HIDE DEF rows, R1, R2, R3, R4
<1>2. Rows(row)
  <2>. HIDE DEF Rows
  <2>. QED  BY <1>1
<1>3. MultiplySubtract(w, k, vn, n, g)
        = [un        |-> [row[n].un EXCEPT ![k + n] = wsub(@, row[n].borrow)],
           underflow |-> w[k + n] < row[n].borrow]
  BY DEF MultiplySubtract, SubtractRound
<1>. HIDE DEF row
<1>4. row[0] = R0 /\ \A i \in 1..n : row[i] = SubtractRound(row[i - 1], k, vn, g, i)
  <2>1. 0 \in 0..n /\ \A i \in 1..n : i \in 0..n /\ i # 0  BY DEF N
  <2>2. \A i \in 0..n : row[i] = IF i = 0 THEN R0 ELSE SubtractRound(row[i - 1], k, vn, g, i)
    <3>. HIDE DEF R0
    <3>. QED  BY <1>2
  <2>. HIDE DEF R0, Rows
  <2>. QED  BY <2>1, <2>2
<1>. QED  BY <1>3, <1>4

LEMMA AddRounds ==
    ASSUME NEW w, NEW k, NEW vn, NEW n \in 1..N
    PROVE  \E f : /\ f[0] = [un |-> w, carry |-> 0]
                  /\ \A i \in 1..n : f[i] = AddRound(f[i - 1], k, vn, i)
                  /\ AddBack(w, k, vn, n) = [f[n].un EXCEPT ![k + n] = wadd(@, f[n].carry)]
<1>. DEFINE R0 == [un |-> w, carry |-> 0]
            Rows(f) == f = [i \in 0..n |->
                              IF i = 0 THEN R0 ELSE AddRound(f[i - 1], k, vn, i)]
            R1 == AddRound(R0, k, vn, 1)
            R2 == AddRound(R1, k, vn, 2)
            R3 == AddRound(R2, k, vn, 3)
            R4 == AddRound(R3, k, vn, 4)
            rows == [i \in 0..n |-> CASE i = 0 -> R0 [] i = 1 -> R1 [] i = 2 -> R2
                                      [] i = 3 -> R3 [] OTHER -> R4]
            row == CHOOSE f : Rows(f)
<1>1. Rows(rows)
  <2>. HIDE DEF R0, R1, R2, R3, R4
  <2>1. ASSUME NEW i \in 0..n
        PROVE  rows[i] = IF i = 0 THEN R0 ELSE AddRound(rows[i - 1], k, vn, i)
    <3>1. CASE i = 0  BY <3>1
    <3>2. CASE i = 1
      <4>1. rows[0] = R0 /\ rows[1] = R1 /\ i - 1 = 0  BY <3>2
      <4>. HIDE DEF rows
      <4>. QED  BY <3>2, <4>1 DEF R1
    <3>3. CASE i = 2
      <4>1. rows[1] = R1 /\ rows[2] = R2 /\ i - 1 = 1  BY <3>3
      <4>. HIDE DEF rows
      <4>. QED  BY <3>3, <4>1 DEF R2
    <3>4. CASE i = 3
      <4>1. rows[2] = R2 /\ rows[3] = R3 /\ i - 1 = 2  BY <3>4
      <4>. HIDE DEF rows
      <4>. QED  BY <3>4, <4>1 DEF R3
    <3>5. CASE i = 4
      <4>1. rows[3] = R3 /\ rows[4] = R4 /\ i - 1 = 3  BY <3>5
      <4>. HIDE DEF rows
      <4>. QED  BY <3>5, <4>1 DEF R4
    <3>6. i \in {0, 1, 2, 3, 4}  BY DEF N
    <3>. QED  BY <3>1, <3>2, <3>3, <3>4, <3>5, <3>6
  <2>2. rows = [i \in 0..n |-> rows[i]]  OBVIOUS
  <2>. HIDE DEF rows
  <2>. QED  BY <2>1, <2>2
<1>. HIDE DEF rows, R1, R2, R3, R4
<1>2. Rows(row)
  <2>. HIDE DEF Rows
  <2>. QED  BY <1>1
<1>3. AddBack(w, k, vn, n) = [row[n].un EXCEPT ![k + n] = wadd(@, row[n].carry)]
  BY DEF AddBack, AddRound
<1>. HIDE DEF row
<1>4. row[0] = R0 /\ \A i \in 1..n : row[i] = AddRound(row[i - 1], k, vn, i)
  <2>1. 0 \in 0..n /\ \A i \in 1..n : i \in 0..n /\ i # 0  BY DEF N
  <2>2. \A i \in 0..n : row[i] = IF i = 0 THEN R0 ELSE AddRound(row[i - 1], k, vn, i)
    <3>. HIDE DEF R0
    <3>. QED  BY <1>2
  <2>. HIDE DEF R0, Rows
  <2>. QED  BY <2>1, <2>2
<1>. QED  BY <1>3, <1>4

(* After i rounds.                                                             *)
IsSubtracted(o, w, k, vn, g, i) ==
    /\ o.un \in Words5 /\ o.borrow \in Word
    /\ Number(o.un) - o.borrow * Place(k + i)
         = Number(w) - g * (Number(UpTo(Widened(vn), i - 1)) * Place(k))
    /\ \A l \in 0..N : l >= k + i => o.un[l] = w[l]

LEMMA SubtractRoundIs ==
    ASSUME NEW w \in Words5, NEW k \in Nat, NEW vn \in Words, NEW g \in Word, NEW i \in 1..N,
           k + i <= N, NEW o, IsSubtracted(o, w, k, vn, g, i - 1)
    PROVE  IsSubtracted(SubtractRound(o, k, vn, g, i), w, k, vn, g, i)
<1>. DEFINE c == k + (i - 1)
            un0 == o.un
            old == un0[c]
            e == o.borrow
            d == vn[i - 1]
            p == umul(g, d)
            s == minus(minus(wide(old), wide(e)), wide(p.lo))
            lo == s.lo
            f == wsub(p.hi, s.hi)
            un1 == [un0 EXCEPT ![c] = lo]
            P == Place(c)
            T == Number(UpTo(Widened(vn), i - 2))
            K == Place(k)
<1>0. c \in 0..N /\ c \in Nat /\ k + i = c + 1 /\ i - 1 \in 0..N - 1 /\ i - 1 \in Nat
      /\ i - 1 \in 0..N /\ i - 2 \in Int /\ (i - 1) - 1 = i - 2 /\ c \in Int
  BY DEF N
<1>1. un0 \in Words5 /\ e \in Word
      /\ Number(un0) - e * P = Number(w) - g * (T * K)
      /\ \A l \in 0..N : l >= c => un0[l] = w[l]
  BY <1>0 DEF IsSubtracted
<1>2. old \in Word /\ d \in Word
  <2>1. old \in Word
    <3>. HIDE DEF un0, c
    <3>. QED  BY <1>0, <1>1, Words5In
  <2>2. d \in Word  BY <1>0 DEF Words
  <2>. QED  BY <2>1, <2>2
<1>3. SubtractRound(o, k, vn, g, i) = [un |-> un1, borrow |-> f]
  BY DEF SubtractRound
<1>. HIDE DEF un0, c, old, e, d
<1>4. lo \in Word /\ f \in Word /\ lo - f * B = old - e - g * d
  <2>. HIDE DEF p, s
  <2>1. p = umul(g, d)  BY DEF p
  <2>2. s = minus(minus(wide(old), wide(e)), wide(p.lo))  BY DEF s
  <2>3. old \in Word /\ e \in Word /\ g \in Word /\ d \in Word  BY <1>1, <1>2
  <2>4. WordSubtracted(s.lo, wsub(p.hi, s.hi), old, e, g, d)
    BY <2>1, <2>2, <2>3, SubtractWord
  <2>. QED  BY <2>4 DEF WordSubtracted
<1>. HIDE DEF p, s, lo, f
<1>5. un1 \in Words5 /\ Number(un1) = Number(un0) + (lo - old) * P
  BY <1>0, <1>1, <1>4, WordChanged DEF old
<1>6. \A l \in 0..N : l >= k + i => un1[l] = w[l]
  <2>1. \A l \in 0..N : l >= k + i => l >= c /\ l # c
    <3>1. \A l \in 0..N : l \in Int  BY DEF N
    <3>. QED  BY <1>0, <3>1
  <2>2. \A l \in 0..N : l # c => un1[l] = un0[l]  BY <1>0, <1>1 DEF Words5
  <2>. HIDE DEF un1
  <2>. QED  BY <1>1, <2>1, <2>2
<1>7. Number(UpTo(Widened(vn), i - 1)) = d * Place(i - 1) + T
  <2>. DEFINE vv == Widened(vn)
  <2>1. vv \in Words5 /\ vv[i - 1] = d  BY <1>0, WidenedIs DEF d
  <2>. HIDE DEF vv
  <2>2. Number(UpTo(vv, i - 1)) = vv[i - 1] * Place(i - 1) + Number(UpTo(vv, (i - 1) - 1))
    BY <1>0, <2>1, PartsStep
  <2>. QED  BY <1>0, <2>1, <2>2 DEF vv
<1>8. P = K * Place(i - 1) /\ Place(k + i) = P * B /\ K \in Nat /\ Place(i - 1) \in Nat /\ P \in Nat
  <2>1. P = K * Place(i - 1)  BY <1>0, PlaceSum DEF c
  <2>. QED  BY <1>0, <2>1, Places
<1>9. /\ Number(un0) \in Int /\ Number(w) \in Int /\ T \in Int /\ lo \in Int /\ f \in Int
      /\ old \in Int /\ e \in Int /\ g \in Int /\ d \in Int
  <2>1. Number(un0) \in Int /\ Number(w) \in Int  BY <1>0, <1>1, PartsAre
  <2>2. T \in Int
    <3>. DEFINE vv == Widened(vn)
    <3>1. vv \in Words5  BY WidenedIs
    <3>. HIDE DEF vv
    <3>2. Number(UpTo(vv, i - 2)) \in Int  BY <1>0, <3>1, PartsAre
    <3>. QED  BY <3>2 DEF vv
  <2>. QED  BY <1>1, <1>2, <1>4, <2>1, <2>2, Base DEF Word
<1>10. Number(un1) - f * Place(k + i)
         = Number(w) - g * (Number(UpTo(Widened(vn), i - 1)) * K)
  <2>. DEFINE Q == Place(i - 1)
              a0 == Number(un0)
              x0 == Number(w)
  <2>1. a0 - e * P = x0 - g * (T * K) /\ Number(un1) = a0 + (lo - old) * P
    BY <1>1, <1>5
  <2>2. P = K * Q /\ K \in Int /\ Q \in Int /\ P \in Int /\ a0 \in Int /\ x0 \in Int
    BY <1>8, <1>9
  <2>. HIDE DEF Q, a0, x0, P, K, T
  <2>3. (lo - old) * P - f * (P * B) = (lo - f * B - old) * P  BY <1>9, <2>2, Base
  <2>4. lo - f * B - old = -e - g * d
    <3>. DEFINE e1 == f * B
                e2 == g * d
    <3>1. e1 \in Int /\ e2 \in Int /\ lo - e1 = old - e - e2  BY <1>4, <1>9, Base
    <3>. HIDE DEF e1, e2
    <3>2. lo - e1 - old = -e - e2  BY <1>9, <3>1
    <3>. QED  BY <3>2 DEF e1, e2
  <2>5. (-e - g * d) * P = -(e * P) - g * ((d * Q) * K)
    <3>1. (-e - g * d) * P = -(e * P) - (g * d) * P  BY <1>9, <2>2
    <3>2. (g * d) * (K * Q) = g * ((d * Q) * K)  BY <1>9, <2>2
    <3>. QED  BY <2>2, <3>1, <3>2
  <2>6. g * ((d * Q + T) * K) = g * ((d * Q) * K) + g * (T * K)  BY <1>9, <2>2
  <2>. DEFINE h1 == (lo - old) * P
              h2 == f * (P * B)
              h3 == e * P
              h4 == g * ((d * Q) * K)
              h5 == g * (T * K)
  <2>7. h1 - h2 = -h3 - h4 /\ a0 - h3 = x0 - h5 /\ Number(un1) = a0 + h1
    BY <2>1, <2>3, <2>4, <2>5
  <2>8. h1 \in Int /\ h2 \in Int /\ h3 \in Int /\ h4 \in Int /\ h5 \in Int
    <3>1. P * B \in Int /\ (d * Q) * K \in Int /\ T * K \in Int /\ lo - old \in Int
      <4>1. d * Q \in Int  BY <1>9, <2>2
      <4>. QED  BY <1>9, <2>2, <4>1, Base
    <3>. QED  BY <1>9, <2>2, <3>1
  <2>. HIDE DEF h1, h2, h3, h4, h5
  <2>9. Number(un1) - h2 = x0 - (h4 + h5)  BY <2>2, <2>7, <2>8
  <2>10. f * Place(k + i) = h2  BY <1>8 DEF h2
  <2>11. g * (Number(UpTo(Widened(vn), i - 1)) * K) = h4 + h5
    BY <1>7, <2>6 DEF h4, h5, Q
  <2>. QED  BY <2>9, <2>10, <2>11 DEF x0
<1>. HIDE DEF un1, K
<1>. DEFINE z == [un |-> un1, borrow |-> f]
<1>11. z.un = un1 /\ z.borrow = f  OBVIOUS
<1>. HIDE DEF z
<1>12. IsSubtracted(z, w, k, vn, g, i)
  BY <1>4, <1>5, <1>6, <1>10, <1>11 DEF IsSubtracted, K
<1>. QED  BY <1>3, <1>12 DEF z

(* The whole: the divisor's multiple is gone, but for what an underflow adds.  *)
IsLeft(a, w, k, vn, n, g) ==
    /\ a.un \in Words5 /\ a.underflow \in BOOLEAN
    /\ Number(a.un) = Number(w) - g * (Number(vn) * Place(k))
                        + (IF a.underflow THEN Place(k + n + 1) ELSE 0)
    /\ \A l \in 0..N : l > k + n => a.un[l] = w[l]

LEMMA AllOfIt ==
    ASSUME NEW vn \in Words, NEW n \in 1..N, \A i \in n..N - 1 : vn[i] = 0
    PROVE  Number(UpTo(Widened(vn), n - 1)) = Number(vn)
<1>. DEFINE vv == Widened(vn)
<1>1. vv \in Words5 /\ Number(vv) = Number(vn) /\ (\A i \in 0..N - 1 : vv[i] = vn[i])
      /\ vv[N] = 0
  BY WidenedIs
<1>2. n - 1 \in Int /\ \A i \in (n - 1) + 1..N : i = N \/ (i \in n..N - 1 /\ i \in 0..N - 1)
  BY DEF N
<1>. HIDE DEF vv
<1>3. \A i \in (n - 1) + 1..N : vv[i] = 0  BY <1>1, <1>2
<1>4. Number(UpTo(vv, n - 1)) = Number(vv)  BY <1>1, <1>2, <1>3, ZerosAbove
<1>. QED  BY <1>1, <1>4 DEF vv

LEMMA MultiplySubtractIs ==
    ASSUME NEW w \in Words5, NEW k \in Nat, NEW vn \in Words, NEW n \in 1..N, NEW g \in Word,
           k + n <= N, \A i \in n..N - 1 : vn[i] = 0
    PROVE  IsLeft(MultiplySubtract(w, k, vn, n, g), w, k, vn, n, g)
<1>. DEFINE a == MultiplySubtract(w, k, vn, n, g)
            c == w[k + n]
            P == Place(k + n)
<1>1. PICK f : /\ f[0] = [un |-> w, borrow |-> 0]
               /\ \A i \in 1..n : f[i] = SubtractRound(f[i - 1], k, vn, g, i)
               /\ a = [un        |-> [f[n].un EXCEPT ![k + n] = wsub(@, f[n].borrow)],
                       underflow |-> c < f[n].borrow]
  BY SubtractRounds
<1>. HIDE DEF a
<1>2. IsSubtracted(f[n], w, k, vn, g, n)
  <2>. DEFINE S == {i \in Nat : i <= n => IsSubtracted(f[i], w, k, vn, g, i)}
  <2>1. 0 \in S
    <3>1. f[0].un = w /\ f[0].borrow = 0 /\ 0 \in Word  BY <1>1, Base DEF Word
    <3>2. Number(UpTo(Widened(vn), 0 - 1)) = 0
      <4>1. Number(UpTo(Widened(vn), -1)) = 0
        <5>. DEFINE vv == Widened(vn)
        <5>1. vv \in Words5  BY WidenedIs
        <5>. HIDE DEF vv
        <5>2. Number(UpTo(vv, -1)) = 0  BY <5>1, PartsEnd
        <5>. QED  BY <5>2 DEF vv
      <4>2. 0 - 1 = -1  OBVIOUS
      <4>. QED  BY <4>1, <4>2
    <3>3. 0 * Place(k + 0) = 0 /\ 0 * Place(k) = 0 /\ g * 0 = 0 /\ Number(w) \in Int
      <4>1. Place(k + 0) \in Nat /\ Place(k) \in Nat  BY Places
      <4>2. g \in Nat  BY Base DEF Word
      <4>3. 0 \in Int  OBVIOUS
      <4>4. Number(w) \in Int  BY <4>3, PartsAre
      <4>. QED  BY <4>1, <4>2, <4>4
    <3>4. Number(w) - 0 = Number(w)  BY <3>3
    <3>5. Number(f[0].un) - f[0].borrow * Place(k + 0)
            = Number(w) - g * (Number(UpTo(Widened(vn), 0 - 1)) * Place(k))
      BY <3>1, <3>2, <3>3
    <3>6. IsSubtracted(f[0], w, k, vn, g, 0)  BY <3>1, <3>5 DEF IsSubtracted
    <3>. QED  BY <3>6
  <2>2. ASSUME NEW i \in S PROVE i + 1 \in S
    <3>1. i \in Nat /\ i + 1 \in Nat /\ (i + 1) - 1 = i  OBVIOUS
    <3>2. CASE i + 1 <= n
      <4>1. i + 1 \in 1..n /\ i <= n /\ i + 1 \in 1..N /\ k + (i + 1) <= N
        BY <3>1, <3>2 DEF N
      <4>2. IsSubtracted(f[i], w, k, vn, g, (i + 1) - 1)  BY <3>1, <4>1
      <4>3. f[i + 1] = SubtractRound(f[i], k, vn, g, i + 1)
        <5>1. f[i + 1] = SubtractRound(f[(i + 1) - 1], k, vn, g, i + 1)  BY <1>1, <4>1
        <5>. QED  BY <3>1, <5>1
      <4>. DEFINE h == i + 1
      <4>4. h \in 1..N /\ k + h <= N /\ IsSubtracted(f[i], w, k, vn, g, h - 1)
        BY <4>1, <4>2
      <4>. HIDE DEF h
      <4>5. IsSubtracted(SubtractRound(f[i], k, vn, g, h), w, k, vn, g, h)
        BY <4>4, SubtractRoundIs
      <4>6. IsSubtracted(f[i + 1], w, k, vn, g, i + 1)  BY <4>3, <4>5 DEF h
      <4>. QED  BY <3>1, <4>6
    <3>. QED  BY <3>1, <3>2
  <2>3. S \in SUBSET Nat /\ n \in Nat /\ n <= n  BY DEF N
  <2>. HIDE DEF S
  <2>4. n \in S  BY <2>1, <2>2, <2>3, NatInduct
  <2>. QED  BY <2>3, <2>4 DEF S
<1>. DEFINE z == f[n].un
            e == f[n].borrow
            o == wsub(c, e)
<1>3. /\ z \in Words5 /\ e \in Word /\ z[k + n] = c
      /\ Number(z) - e * P = Number(w) - g * (Number(vn) * Place(k))
      /\ \A l \in 0..N : l >= k + n => z[l] = w[l]
  <2>1. k + n \in 0..N /\ k + n >= k + n  BY DEF N
  <2>. QED  BY <1>2, <2>1, AllOfIt DEF IsSubtracted
<1>4. k + n \in 0..N /\ k + n \in Nat /\ Place(k + n + 1) = P * B /\ P \in Nat
  <2>. DEFINE h == k + n
  <2>1. h \in 0..N /\ h \in Nat  BY DEF N
  <2>. HIDE DEF h
  <2>2. Place(h + 1) = Place(h) * B /\ Place(h) \in Nat  BY <2>1, Places
  <2>. QED  BY <2>1, <2>2 DEF h
<1>5. c \in Word
  <2>. DEFINE h == k + n
  <2>. HIDE DEF h
  <2>1. w[h] \in Word  BY <1>4, Words5In DEF h
  <2>. QED  BY <2>1 DEF h
<1>. DEFINE zz == [z EXCEPT ![k + n] = o]
<1>6. a.un = zz /\ (a.underflow <=> c < e) /\ a.underflow \in BOOLEAN
  <2>1. [f[n].un EXCEPT ![k + n] = wsub(@, f[n].borrow)] = zz
    <3>1. z[k + n] = c  BY <1>3
    <3>. QED  BY <3>1
  <2>2. (c < e) \in BOOLEAN  OBVIOUS
  <2>. QED  BY <1>1, <2>1, <2>2
<1>. HIDE DEF z, e, c, P
<1>7. o \in Word /\ o - c = -e + (IF c < e THEN B ELSE 0)
  <2>1. c \in 0..B - 1 /\ e \in 0..B - 1 /\ c \in Int /\ e \in Int  BY <1>3, <1>5, Base DEF Word
  <2>2. CASE c < e
    <3>1. c - e = (-1) * B + (c - e + B) /\ c - e + B \in 0..B - 1 /\ c - e \in Int
      BY <2>1, <2>2, Base
    <3>2. (c - e) % B = c - e + B
      <4>. DEFINE s == c - e
                  t == c - e + B
      <4>1. s \in Int /\ t \in Word /\ s = t + (-1) * B  BY <2>1, <3>1, Base DEF Word
      <4>. HIDE DEF s, t
      <4>2. s % B = t  BY <4>1, WordModIs
      <4>. QED  BY <4>2 DEF s, t
    <3>3. o = c - e + B  BY <3>2 DEF wsub
    <3>. HIDE DEF o
    <3>. QED  BY <2>1, <2>2, <3>1, <3>3, Base DEF Word
  <2>3. CASE ~(c < e)
    <3>1. c - e \in 0..B - 1  BY <2>1, <2>3, Base
    <3>2. (c - e) % B = c - e  BY <3>1, Base, ModSelf
    <3>3. o = c - e  BY <3>2 DEF wsub
    <3>. HIDE DEF o
    <3>. QED  BY <2>1, <2>3, <3>1, <3>3, Base DEF Word
  <2>. QED  BY <2>2, <2>3
<1>. HIDE DEF o
<1>8. zz \in Words5 /\ Number(zz) = Number(z) + (o - c) * P
  <2>. DEFINE h == k + n
  <2>1. h \in 0..N /\ z[h] = c  BY <1>3, <1>4
  <2>. HIDE DEF h
  <2>2. [z EXCEPT ![h] = o] \in Words5
        /\ Number([z EXCEPT ![h] = o]) = Number(z) + (o - z[h]) * Place(h)
    BY <1>3, <1>7, <2>1, WordChanged
  <2>. QED  BY <2>1, <2>2 DEF h, P
<1>9. \A l \in 0..N : l > k + n => zz[l] = w[l]
  <2>1. \A l \in 0..N : l > k + n => l >= k + n /\ l # k + n
    <3>1. \A l \in 0..N : l \in Int  BY DEF N
    <3>. QED  BY <1>4, <3>1
  <2>2. \A l \in 0..N : l # k + n => zz[l] = z[l]  BY <1>3 DEF Words5
  <2>. HIDE DEF zz
  <2>. QED  BY <1>3, <2>1, <2>2
<1>10. Number(zz) = Number(w) - g * (Number(vn) * Place(k)) + (IF c < e THEN P * B ELSE 0)
  <2>. DEFINE h == g * (Number(vn) * Place(k))
              h1 == e * P
              h2 == (o - c) * P
              h3 == P * B
  <2>1. Number(z) - h1 = Number(w) - h /\ Number(zz) = Number(z) + h2  BY <1>3, <1>8
  <2>2. Number(z) \in Int /\ Number(w) \in Int
    <3>1. 0 \in Int  OBVIOUS
    <3>. QED  BY <1>3, <3>1, PartsAre
  <2>3. h \in Int
    <3>. DEFINE i1 == Number(vn)
                i2 == Place(k)
    <3>1. i1 \in Int /\ i2 \in Int /\ g \in Int  BY WordsAre, Places, Base DEF Word
    <3>. HIDE DEF i1, i2
    <3>. QED  BY <3>1 DEF i1, i2
  <2>4. e \in Int /\ c \in Int /\ o \in Int  BY <1>3, <1>5, <1>7, Base DEF Word
  <2>5. h1 \in Int /\ h3 \in Int  BY <1>4, <2>4, Base
  <2>6. h2 = -h1 + (IF c < e THEN h3 ELSE 0)
    <3>1. CASE c < e
      <4>1. o - c = -e + B  BY <1>7, <3>1
      <4>2. (-e + B) * P = -(e * P) + P * B  BY <1>4, <2>4, Base
      <4>. QED  BY <3>1, <4>1, <4>2
    <3>2. CASE ~(c < e)
      <4>1. o - c = -e  BY <1>7, <2>4, <3>2
      <4>2. (-e) * P = -(e * P)  BY <1>4, <2>4
      <4>. QED  BY <2>5, <3>2, <4>1, <4>2
    <3>. QED  BY <3>1, <3>2
  <2>. HIDE DEF h, h1, h2, h3, zz
  <2>7. CASE c < e
    <3>1. h2 = -h1 + h3  BY <2>6, <2>7
    <3>2. Number(zz) = Number(w) - h + h3  BY <2>1, <2>2, <2>3, <2>5, <3>1
    <3>. QED  BY <2>7, <3>2 DEF h, h3
  <2>8. CASE ~(c < e)
    <3>1. h2 = -h1  BY <2>5, <2>6, <2>8
    <3>2. Number(zz) = Number(w) - h + 0  BY <2>1, <2>2, <2>3, <2>5, <3>1
    <3>. QED  BY <2>8, <3>2 DEF h
  <2>. QED  BY <2>7, <2>8
<1>. HIDE DEF zz
<1>11. IsLeft(a, w, k, vn, n, g)
  <2>1. Number(a.un) = Number(w) - g * (Number(vn) * Place(k))
                        + (IF a.underflow THEN Place(k + n + 1) ELSE 0)
    BY <1>4, <1>6, <1>10
  <2>. QED  BY <1>6, <1>8, <1>9, <2>1 DEF IsLeft
<1>. QED  BY <1>11 DEF a

-------------------------------------------------------------------------------
(* Adding the divisor back.                                                    *)

LEMMA AddWord ==
    ASSUME NEW c \in Word, NEW d \in Word, NEW e \in Word,
           NEW s, s = plus(plus(wide(c), wide(d)), wide(e))
    PROVE  s.lo \in Word /\ s.hi \in Word /\ s.lo + s.hi * B = c + d + e
<1>. DEFINE w1 == wide(c)
            w2 == wide(d)
            w3 == wide(e)
            s1 == plus(w1, w2)
            f == Full
            b == B
<1>0. c \in 0..b - 1 /\ d \in 0..b - 1 /\ e \in 0..b - 1 /\ b \in Nat /\ 2 <= b /\ f = b * b
  BY Base DEF Word, Full
<1>1. /\ w1 \in uint128 /\ Val(w1) = c /\ w2 \in uint128 /\ Val(w2) = d
      /\ w3 \in uint128 /\ Val(w3) = e
  BY WideIs
<1>. HIDE DEF w1, w2, w3, f, b
<1>2. s1 \in uint128 /\ Val(s1) = (c + d) % Full
  <2>1. s1 \in uint128 /\ Val(s1) = (Val(w1) + Val(w2)) % Full  BY <1>1, PlusIs
  <2>. QED  BY <1>1, <2>1
<1>. HIDE DEF s1
<1>3. s \in uint128 /\ Val(s) = (c + d + e) % Full
  <2>1. c + d \in Int  BY <1>0
  <2>2. plus(s1, w3) \in uint128 /\ Val(plus(s1, w3)) = (c + d + Val(w3)) % Full
    BY <1>1, <1>2, <2>1, PlusWrapped
  <2>3. s = plus(s1, w3)  BY DEF s1, w1, w2, w3
  <2>. QED  BY <1>1, <2>2, <2>3
<1>4. c + d + e \in 0..f - 1
  <2>1. (b - 1) * (b - 2) >= 0 /\ (b - 1) * (b - 2) = b * b - 3 * b + 2  BY <1>0
  <2>. DEFINE g == b * b
  <2>2. g \in Int /\ g >= 3 * b - 2 /\ f = g  BY <1>0, <2>1
  <2>. HIDE DEF g
  <2>. QED  BY <1>0, <2>2
<1>5. (c + d + e) % Full = c + d + e
  <2>1. Full \in Nat \ {0} /\ Full = f  BY FullIs DEF f
  <2>. DEFINE g == c + d + e
  <2>2. g \in 0..Full - 1  BY <1>4, <2>1
  <2>. HIDE DEF g
  <2>3. g % Full = g  BY <2>1, <2>2, ModSelf
  <2>. QED  BY <2>3 DEF g
<1>6. s.lo \in Word /\ s.hi \in Word /\ Val(s) = s.hi * B + s.lo /\ s.lo \in Int /\ s.hi * B \in Int
  BY <1>3, ValIs, Base
<1>. QED  BY <1>3, <1>5, <1>6

(* After i rounds.                                                             *)
IsAdded(o, w, k, vn, i) ==
    /\ o.un \in Words5 /\ o.carry \in Word
    /\ Number(o.un) + o.carry * Place(k + i)
         = Number(w) + Number(UpTo(Widened(vn), i - 1)) * Place(k)
    /\ \A l \in 0..N : l >= k + i => o.un[l] = w[l]

LEMMA AddRoundIs ==
    ASSUME NEW w \in Words5, NEW k \in Nat, NEW vn \in Words, NEW i \in 1..N,
           k + i <= N, NEW o, IsAdded(o, w, k, vn, i - 1)
    PROVE  IsAdded(AddRound(o, k, vn, i), w, k, vn, i)
<1>. DEFINE c == k + (i - 1)
            un0 == o.un
            old == un0[c]
            e == o.carry
            d == vn[i - 1]
            s == plus(plus(wide(old), wide(d)), wide(e))
            lo == s.lo
            f == s.hi
            un1 == [un0 EXCEPT ![c] = lo]
            P == Place(c)
            T == Number(UpTo(Widened(vn), i - 2))
            K == Place(k)
<1>0. c \in 0..N /\ c \in Nat /\ k + i = c + 1 /\ i - 1 \in 0..N - 1 /\ i - 1 \in Nat
      /\ i - 1 \in 0..N /\ i - 2 \in Int /\ (i - 1) - 1 = i - 2 /\ c \in Int
  BY DEF N
<1>1. un0 \in Words5 /\ e \in Word
      /\ Number(un0) + e * P = Number(w) + T * K
      /\ \A l \in 0..N : l >= c => un0[l] = w[l]
  BY <1>0 DEF IsAdded
<1>2. old \in Word /\ d \in Word
  <2>1. old \in Word
    <3>. HIDE DEF un0, c
    <3>. QED  BY <1>0, <1>1, Words5In
  <2>2. d \in Word  BY <1>0 DEF Words
  <2>. QED  BY <2>1, <2>2
<1>3. AddRound(o, k, vn, i) = [un |-> un1, carry |-> f]
  BY DEF AddRound
<1>. HIDE DEF un0, c, old, e, d
<1>4. lo \in Word /\ f \in Word /\ lo + f * B = old + d + e
  <2>. HIDE DEF s
  <2>1. s = plus(plus(wide(old), wide(d)), wide(e))  BY DEF s
  <2>2. s.lo \in Word /\ s.hi \in Word /\ s.lo + s.hi * B = old + d + e
    BY <1>1, <1>2, <2>1, AddWord
  <2>. QED  BY <2>2
<1>. HIDE DEF s, lo, f
<1>5. un1 \in Words5 /\ Number(un1) = Number(un0) + (lo - old) * P
  BY <1>0, <1>1, <1>4, WordChanged DEF old
<1>6. \A l \in 0..N : l >= k + i => un1[l] = w[l]
  <2>1. \A l \in 0..N : l >= k + i => l >= c /\ l # c
    <3>1. \A l \in 0..N : l \in Int  BY DEF N
    <3>. QED  BY <1>0, <3>1
  <2>2. \A l \in 0..N : l # c => un1[l] = un0[l]  BY <1>0, <1>1 DEF Words5
  <2>. HIDE DEF un1
  <2>. QED  BY <1>1, <2>1, <2>2
<1>7. Number(UpTo(Widened(vn), i - 1)) = d * Place(i - 1) + T
  <2>. DEFINE vv == Widened(vn)
  <2>1. vv \in Words5 /\ vv[i - 1] = d  BY <1>0, WidenedIs DEF d
  <2>. HIDE DEF vv
  <2>2. Number(UpTo(vv, i - 1)) = vv[i - 1] * Place(i - 1) + Number(UpTo(vv, (i - 1) - 1))
    BY <1>0, <2>1, PartsStep
  <2>. QED  BY <1>0, <2>1, <2>2 DEF vv
<1>8. P = K * Place(i - 1) /\ Place(k + i) = P * B /\ K \in Nat /\ Place(i - 1) \in Nat /\ P \in Nat
  <2>1. P = K * Place(i - 1)  BY <1>0, PlaceSum DEF c
  <2>. QED  BY <1>0, <2>1, Places
<1>9. /\ Number(un0) \in Int /\ Number(w) \in Int /\ T \in Int /\ lo \in Int /\ f \in Int
      /\ old \in Int /\ e \in Int /\ d \in Int
  <2>1. Number(un0) \in Int /\ Number(w) \in Int  BY <1>0, <1>1, PartsAre
  <2>2. T \in Int
    <3>. DEFINE vv == Widened(vn)
    <3>1. vv \in Words5  BY WidenedIs
    <3>. HIDE DEF vv
    <3>2. Number(UpTo(vv, i - 2)) \in Int  BY <1>0, <3>1, PartsAre
    <3>. QED  BY <3>2 DEF vv
  <2>. QED  BY <1>1, <1>2, <1>4, <2>1, <2>2, Base DEF Word
<1>10. Number(un1) + f * Place(k + i) = Number(w) + Number(UpTo(Widened(vn), i - 1)) * K
  <2>. DEFINE Q == Place(i - 1)
              a0 == Number(un0)
              x0 == Number(w)
  <2>1. a0 + e * P = x0 + T * K /\ Number(un1) = a0 + (lo - old) * P
    BY <1>1, <1>5
  <2>2. P = K * Q /\ K \in Int /\ Q \in Int /\ P \in Int /\ a0 \in Int /\ x0 \in Int
    BY <1>8, <1>9
  <2>. HIDE DEF Q, a0, x0, P, K, T
  <2>3. (lo - old) * P + f * (P * B) = (lo + f * B - old) * P  BY <1>9, <2>2, Base
  <2>4. lo + f * B - old = d + e
    <3>. DEFINE e1 == f * B
    <3>1. e1 \in Int /\ lo + e1 = old + d + e  BY <1>4, <1>9, Base
    <3>. HIDE DEF e1
    <3>2. lo + e1 - old = d + e  BY <1>9, <3>1
    <3>. QED  BY <3>2 DEF e1
  <2>5. (d + e) * P = e * P + (d * Q) * K
    <3>1. (d + e) * P = e * P + d * P  BY <1>9, <2>2
    <3>2. d * (K * Q) = (d * Q) * K  BY <1>9, <2>2
    <3>. QED  BY <2>2, <3>1, <3>2
  <2>6. (d * Q + T) * K = (d * Q) * K + T * K  BY <1>9, <2>2
  <2>. DEFINE h1 == (lo - old) * P
              h2 == f * (P * B)
              h3 == e * P
              h4 == (d * Q) * K
              h5 == T * K
  <2>7. h1 + h2 = h3 + h4 /\ a0 + h3 = x0 + h5 /\ Number(un1) = a0 + h1
    BY <2>1, <2>3, <2>4, <2>5
  <2>8. h1 \in Int /\ h2 \in Int /\ h3 \in Int /\ h4 \in Int /\ h5 \in Int
    <3>1. P * B \in Int /\ d * Q \in Int /\ lo - old \in Int  BY <1>9, <2>2, Base
    <3>. QED  BY <1>9, <2>2, <3>1
  <2>. HIDE DEF h1, h2, h3, h4, h5
  <2>9. Number(un1) + h2 = x0 + (h4 + h5)  BY <2>2, <2>7, <2>8
  <2>10. f * Place(k + i) = h2  BY <1>8 DEF h2
  <2>11. Number(UpTo(Widened(vn), i - 1)) * K = h4 + h5
    BY <1>7, <2>6 DEF h4, h5, Q
  <2>. QED  BY <2>9, <2>10, <2>11 DEF x0
<1>. HIDE DEF un1, K
<1>. DEFINE z == [un |-> un1, carry |-> f]
<1>11. z.un = un1 /\ z.carry = f  OBVIOUS
<1>. HIDE DEF z
<1>12. IsAdded(z, w, k, vn, i)
  BY <1>4, <1>5, <1>6, <1>10, <1>11 DEF IsAdded, K
<1>. QED  BY <1>3, <1>12 DEF z

(* The whole: the divisor is back, but for what the top word lost.             *)
IsBack(a, w, k, vn, n) ==
    /\ a \in Words5
    /\ Number(a) \in {Number(w) + Number(vn) * Place(k),
                      Number(w) + Number(vn) * Place(k) - Place(k + n + 1)}
    /\ \A l \in 0..N : l > k + n => a[l] = w[l]

LEMMA AddBackIs ==
    ASSUME NEW w \in Words5, NEW k \in Nat, NEW vn \in Words, NEW n \in 1..N,
           k + n <= N, \A i \in n..N - 1 : vn[i] = 0
    PROVE  IsBack(AddBack(w, k, vn, n), w, k, vn, n)
<1>. DEFINE a == AddBack(w, k, vn, n)
            c == w[k + n]
            P == Place(k + n)
<1>1. PICK f : /\ f[0] = [un |-> w, carry |-> 0]
               /\ \A i \in 1..n : f[i] = AddRound(f[i - 1], k, vn, i)
               /\ a = [f[n].un EXCEPT ![k + n] = wadd(@, f[n].carry)]
  BY AddRounds
<1>. HIDE DEF a
<1>2. IsAdded(f[n], w, k, vn, n)
  <2>. DEFINE S == {i \in Nat : i <= n => IsAdded(f[i], w, k, vn, i)}
  <2>1. 0 \in S
    <3>1. f[0].un = w /\ f[0].carry = 0 /\ 0 \in Word  BY <1>1, Base DEF Word
    <3>2. Number(UpTo(Widened(vn), 0 - 1)) = 0
      <4>1. Number(UpTo(Widened(vn), -1)) = 0
        <5>. DEFINE vv == Widened(vn)
        <5>1. vv \in Words5  BY WidenedIs
        <5>. HIDE DEF vv
        <5>2. Number(UpTo(vv, -1)) = 0  BY <5>1, PartsEnd
        <5>. QED  BY <5>2 DEF vv
      <4>2. 0 - 1 = -1  OBVIOUS
      <4>. QED  BY <4>1, <4>2
    <3>3. 0 * Place(k + 0) = 0 /\ 0 * Place(k) = 0 /\ Number(w) \in Int
      <4>1. Place(k + 0) \in Nat /\ Place(k) \in Nat  BY Places
      <4>3. 0 \in Int  OBVIOUS
      <4>4. Number(w) \in Int  BY <4>3, PartsAre
      <4>. QED  BY <4>1, <4>4
    <3>4. Number(w) + 0 = Number(w)  BY <3>3
    <3>5. Number(f[0].un) + f[0].carry * Place(k + 0)
            = Number(w) + Number(UpTo(Widened(vn), 0 - 1)) * Place(k)
      BY <3>1, <3>2, <3>3
    <3>6. IsAdded(f[0], w, k, vn, 0)  BY <3>1, <3>5 DEF IsAdded
    <3>. QED  BY <3>6
  <2>2. ASSUME NEW i \in S PROVE i + 1 \in S
    <3>1. i \in Nat /\ i + 1 \in Nat /\ (i + 1) - 1 = i  OBVIOUS
    <3>2. CASE i + 1 <= n
      <4>1. i + 1 \in 1..n /\ i <= n /\ i + 1 \in 1..N /\ k + (i + 1) <= N
        BY <3>1, <3>2 DEF N
      <4>2. IsAdded(f[i], w, k, vn, (i + 1) - 1)  BY <3>1, <4>1
      <4>3. f[i + 1] = AddRound(f[i], k, vn, i + 1)
        <5>1. f[i + 1] = AddRound(f[(i + 1) - 1], k, vn, i + 1)  BY <1>1, <4>1
        <5>. QED  BY <3>1, <5>1
      <4>. DEFINE h == i + 1
      <4>4. h \in 1..N /\ k + h <= N /\ IsAdded(f[i], w, k, vn, h - 1)
        BY <4>1, <4>2
      <4>. HIDE DEF h
      <4>5. IsAdded(AddRound(f[i], k, vn, h), w, k, vn, h)
        BY <4>4, AddRoundIs
      <4>6. IsAdded(f[i + 1], w, k, vn, i + 1)  BY <4>3, <4>5 DEF h
      <4>. QED  BY <3>1, <4>6
    <3>. QED  BY <3>1, <3>2
  <2>3. S \in SUBSET Nat /\ n \in Nat /\ n <= n  BY DEF N
  <2>. HIDE DEF S
  <2>4. n \in S  BY <2>1, <2>2, <2>3, NatInduct
  <2>. QED  BY <2>3, <2>4 DEF S
<1>. DEFINE z == f[n].un
            e == f[n].carry
            o == wadd(c, e)
<1>3. /\ z \in Words5 /\ e \in Word /\ z[k + n] = c
      /\ Number(z) + e * P = Number(w) + Number(vn) * Place(k)
      /\ \A l \in 0..N : l >= k + n => z[l] = w[l]
  <2>1. k + n \in 0..N /\ k + n >= k + n  BY DEF N
  <2>. QED  BY <1>2, <2>1, AllOfIt DEF IsAdded
<1>4. k + n \in 0..N /\ k + n \in Nat /\ Place(k + n + 1) = P * B /\ P \in Nat
  <2>. DEFINE h == k + n
  <2>1. h \in 0..N /\ h \in Nat  BY DEF N
  <2>. HIDE DEF h
  <2>2. Place(h + 1) = Place(h) * B /\ Place(h) \in Nat  BY <2>1, Places
  <2>. QED  BY <2>1, <2>2 DEF h
<1>5. c \in Word
  <2>. DEFINE h == k + n
  <2>. HIDE DEF h
  <2>1. w[h] \in Word  BY <1>4, Words5In DEF h
  <2>. QED  BY <2>1 DEF h
<1>. DEFINE zz == [z EXCEPT ![k + n] = o]
<1>6. a = zz
  <2>1. z[k + n] = c  BY <1>3
  <2>. QED  BY <1>1, <2>1
<1>. HIDE DEF z, e, c, P
<1>7. o \in Word /\ \E t \in {0, 1} : c + e = o + t * B
  <2>1. o \in Word /\ c + e = o + Bit(c > o) * B  BY <1>3, <1>5, WordSum
  <2>2. Bit(c > o) \in {0, 1}  BY DEF Bit
  <2>. QED  BY <2>1, <2>2
<1>. HIDE DEF o
<1>8. zz \in Words5 /\ Number(zz) = Number(z) + (o - c) * P
  <2>. DEFINE h == k + n
  <2>1. h \in 0..N /\ z[h] = c  BY <1>3, <1>4
  <2>. HIDE DEF h
  <2>2. [z EXCEPT ![h] = o] \in Words5
        /\ Number([z EXCEPT ![h] = o]) = Number(z) + (o - z[h]) * Place(h)
    BY <1>3, <1>7, <2>1, WordChanged
  <2>. QED  BY <2>1, <2>2 DEF h, P
<1>9. \A l \in 0..N : l > k + n => zz[l] = w[l]
  <2>1. \A l \in 0..N : l > k + n => l >= k + n /\ l # k + n
    <3>1. \A l \in 0..N : l \in Int  BY DEF N
    <3>. QED  BY <1>4, <3>1
  <2>2. \A l \in 0..N : l # k + n => zz[l] = z[l]  BY <1>3 DEF Words5
  <2>. HIDE DEF zz
  <2>. QED  BY <1>3, <2>1, <2>2
<1>10. Number(zz) \in {Number(w) + Number(vn) * Place(k),
                       Number(w) + Number(vn) * Place(k) - P * B}
  <2>. DEFINE h == Number(vn) * Place(k)
              h1 == e * P
              h2 == (o - c) * P
              h3 == P * B
  <2>1. Number(z) + h1 = Number(w) + h /\ Number(zz) = Number(z) + h2  BY <1>3, <1>8
  <2>2. Number(z) \in Int /\ Number(w) \in Int
    <3>1. 0 \in Int  OBVIOUS
    <3>. QED  BY <1>3, <3>1, PartsAre
  <2>3. h \in Int
    <3>. DEFINE i1 == Number(vn)
                i2 == Place(k)
    <3>1. i1 \in Int /\ i2 \in Int  BY WordsAre, Places
    <3>. HIDE DEF i1, i2
    <3>. QED  BY <3>1 DEF i1, i2
  <2>4. e \in Int /\ c \in Int /\ o \in Int  BY <1>3, <1>5, <1>7, Base DEF Word
  <2>5. h1 \in Int /\ h3 \in Int  BY <1>4, <2>4, Base
  <2>6. h2 = h1 \/ h2 = h1 - h3
    <3>1. PICK t \in {0, 1} : c + e = o + t * B  BY <1>7
    <3>2. CASE t = 0
      <4>1. o - c = e
        <5>1. 0 * B = 0  BY Base
        <5>. QED  BY <2>4, <3>1, <3>2, <5>1
      <4>. QED  BY <4>1
    <3>3. CASE t = 1
      <4>1. o - c = e - B
        <5>1. 1 * B = B /\ B \in Int  BY Base
        <5>. QED  BY <2>4, <3>1, <3>3, <5>1
      <4>2. (e - B) * P = e * P - P * B  BY <1>4, <2>4, Base
      <4>. QED  BY <4>1, <4>2
    <3>. QED  BY <3>1, <3>2, <3>3
  <2>. HIDE DEF h, h1, h2, h3, zz
  <2>7. Number(zz) = Number(w) + h \/ Number(zz) = Number(w) + h - h3
    BY <2>1, <2>2, <2>3, <2>5, <2>6
  <2>. QED  BY <2>7 DEF h, h3
<1>. HIDE DEF zz
<1>11. IsBack(a, w, k, vn, n)
  <2>1. Number(a) \in {Number(w) + Number(vn) * Place(k),
                       Number(w) + Number(vn) * Place(k) - Place(k + n + 1)}
    BY <1>4, <1>6, <1>10
  <2>. QED  BY <1>6, <1>8, <1>9, <2>1 DEF IsBack
<1>. QED  BY <1>11 DEF a

-------------------------------------------------------------------------------
(* A digit of the long division, guessed and corrected.                        *)

LEMMA Below ==
    ASSUME NEW w \in Words5, NEW k \in -1..N, \A l \in k + 1..N : w[l] = 0
    PROVE  Number(w) \in 0..Place(k + 1) - 1
<1>1. k \in Int  BY DEF N
<1>2. Number(UpTo(w, k)) = Number(w)  BY <1>1, ZerosAbove
<1>3. Number(UpTo(w, k)) < Place(k + 1) /\ Number(w) \in Nat  BY <1>1, UpToBounded, PartsAre
<1>4. Place(k + 1) \in Int
  <2>1. k + 1 \in Nat  BY DEF N
  <2>. QED  BY <2>1, Places
<1>. QED  BY <1>2, <1>3, <1>4

(* What the words are after the subtraction and its correction, and the digit. *)
Corrected(left, k, vn, n)   == IF left.underflow THEN AddBack(left.un, k, vn, n) ELSE left.un
CorrectedDigit(left, e)     == IF left.underflow THEN wsub(e, 1) ELSE e

LEMMA CorrectedIs ==
    ASSUME NEW w \in Words5, NEW k \in Nat, NEW vn \in Words, NEW n \in 1..N, k + n <= N,
           \A i \in n..N - 1 : vn[i] = 0, \A l \in k + n + 1..N : w[l] = 0,
           NEW e \in Word, NEW o \in Word, e - o \in {0, 1},
           NEW Y, Y = Number(vn) * Place(k), Number(w) - o * Y \in 0..Y - 1,
           Number(w) < Place(k + n + 1),
           NEW left, left = MultiplySubtract(w, k, vn, n, e)
    PROVE  /\ Corrected(left, k, vn, n) \in Words5
           /\ Number(Corrected(left, k, vn, n)) = Number(w) - o * Y
           /\ CorrectedDigit(left, e) = o
<1>. DEFINE X == Number(w)
            H == Place(k + n + 1)
            R == X - o * Y
            c == Number(left.un)
            h == k + n
<1>0. /\ X \in Int /\ Y \in Int /\ H \in Int /\ e \in Int /\ o \in Int
      /\ o * Y \in Int /\ e * Y \in Int
      /\ h \in 0..N /\ h + 1 = k + n + 1 /\ h \in -1..N
  <2>1. 0 \in Int  OBVIOUS
  <2>2. X \in Int  BY <2>1, PartsAre
  <2>3. Y \in Int
    <3>. DEFINE i1 == Number(vn)
                i2 == Place(k)
    <3>1. i1 \in Int /\ i2 \in Int  BY WordsAre, Places
    <3>. HIDE DEF i1, i2
    <3>. QED  BY <3>1 DEF i1, i2
  <2>4. e \in Int /\ o \in Int  BY Base DEF Word
  <2>5. h \in 0..N /\ h + 1 \in Nat /\ h + 1 = k + n + 1 /\ h \in -1..N  BY DEF N
  <2>6. H \in Int
    <3>. HIDE DEF h
    <3>1. Place(h + 1) \in Nat  BY <2>5, Places
    <3>. QED  BY <2>5, <3>1
  <2>7. o * Y \in Int /\ e * Y \in Int  BY <2>3, <2>4
  <2>. QED  BY <2>2, <2>3, <2>4, <2>5, <2>6, <2>7
<1>1. IsLeft(left, w, k, vn, n, e)  BY MultiplySubtractIs
<1>2. /\ left.un \in Words5 /\ left.underflow \in BOOLEAN
      /\ c = X - e * Y + (IF left.underflow THEN H ELSE 0)
      /\ \A l \in 0..N : l > k + n => left.un[l] = w[l]
  BY <1>1 DEF IsLeft
<1>3. \A l \in k + n + 1..N : l \in 0..N /\ l > k + n  BY DEF N
<1>4. c \in 0..H - 1
  <2>1. \A l \in h + 1..N : left.un[l] = 0  BY <1>2, <1>3
  <2>. HIDE DEF h
  <2>2. c \in 0..Place(h + 1) - 1  BY <1>0, <1>2, <2>1, Below
  <2>. QED  BY <1>0, <2>2
<1>5. R \in 0..Y - 1  OBVIOUS
<1>6. CASE e = o
  <2>1. ~left.underflow
    <3>1. ASSUME left.underflow PROVE FALSE
      <4>1. c = R + H  BY <1>2, <1>6, <3>1
      <4>. HIDE DEF R, H, c
      <4>. QED  BY <1>0, <1>4, <1>5, <4>1
    <3>. QED  BY <1>2, <3>1
  <2>2. c = R
    <3>1. c = X - e * Y + 0  BY <1>2, <2>1
    <3>. QED  BY <1>0, <1>6, <3>1
  <2>. QED  BY <1>2, <1>6, <2>1, <2>2 DEF Corrected, CorrectedDigit
<1>7. CASE e = o + 1
  <2>1. X - e * Y = R - Y
    <3>1. (o + 1) * Y = o * Y + Y  BY <1>0
    <3>. HIDE DEF X
    <3>. QED  BY <1>0, <1>7, <3>1
  <2>2. left.underflow
    <3>1. ASSUME ~left.underflow PROVE FALSE
      <4>1. c = R - Y + 0  BY <1>2, <2>1, <3>1
      <4>. HIDE DEF R, c
      <4>. QED  BY <1>0, <1>4, <1>5, <4>1
    <3>. QED  BY <1>2, <3>1
  <2>. DEFINE b == AddBack(left.un, k, vn, n)
              d == Number(b)
  <2>3. IsBack(b, left.un, k, vn, n)  BY <1>2, AddBackIs
  <2>. HIDE DEF b
  <2>4. /\ b \in Words5 /\ d \in {c + Y, c + Y - H}
        /\ \A l \in 0..N : l > k + n => b[l] = left.un[l]
    BY <2>3 DEF IsBack
  <2>5. d \in 0..H - 1
    <3>1. \A l \in h + 1..N : b[l] = 0  BY <1>2, <1>3, <2>4
    <3>. HIDE DEF h
    <3>2. d \in 0..Place(h + 1) - 1  BY <1>0, <2>4, <3>1, Below
    <3>. QED  BY <1>0, <3>2
  <2>6. c = R - Y + H  BY <1>2, <2>1, <2>2
  <2>7. d = R
    <3>. HIDE DEF R, c, d, H
    <3>. QED  BY <1>0, <1>4, <1>5, <2>4, <2>5, <2>6
  <2>8. wsub(e, 1) = o
    <3>1. o \in 0..B - 1 /\ e - 1 = o  BY <1>0, <1>7 DEF Word
    <3>2. o % B = o  BY <3>1, Base, ModSelf
    <3>. QED  BY <3>1, <3>2 DEF wsub
  <2>. QED  BY <2>2, <2>4, <2>7, <2>8 DEF Corrected, CorrectedDigit, b
<1>8. e = o \/ e = o + 1  BY <1>0
<1>. QED  BY <1>6, <1>7, <1>8

LEMMA DigitIs ==
    ASSUME NEW a, NEW u \in Words, NEW v \in Words, Normalized(a, u, v),
           NEW w, NEW z, NEW t, NEW k, NEW e, Dividing(a, w, z, t, k, e), k >= 0, e # NoDigit,
           NEW left, left = MultiplySubtract(w, k, a.denominator, a.n, e)
    PROVE  Dividing(a, Corrected(left, k, a.denominator, a.n),
                    [z EXCEPT ![k] = CorrectedDigit(left, e)], t, k - 1, NoDigit)
<1>. DEFINE vn == a.denominator
            n == a.n
            D == Number(vn)
            p == Place(k)
            Y == D * p
            X == Number(w)
            o == X \div Y
            w1 == Corrected(left, k, vn, n)
            z1 == [z EXCEPT ![k] = CorrectedDigit(left, e)]
            Z == Number(z)
<1>1. /\ a.n > 2 /\ OneOff(a, w, k, e) /\ e \in Word /\ t \in uint128
      /\ \A i \in 0..k : z[i] = 0
  BY DEF Dividing
<1>2. /\ w \in Words5 /\ z \in Words /\ k \in Nat /\ n \in {3, 4} /\ k + n \in 0..N
      /\ vn \in Words /\ D \in Nat \ {0} /\ X < D * Place(k + 1) /\ X < Place(k + n + 1)
      /\ (\A i \in k + n + 1..N : w[i] = 0) /\ X \in Nat
  BY <1>1, KnuthIs
<1>3. /\ a.n <= a.m /\ k \in 0..N - 1 /\ k - 1 <= a.m - a.n /\ k - 1 \in -1..N - 1
      /\ Exact(a, w, z, t, k) /\ a.m \in 0..N
  BY LoopBounds
<1>4. p \in Nat \ {0} /\ Place(k + 1) = p * B /\ (k - 1) + 1 = k
  BY <1>2, Places
<1>5. Y \in Nat \ {0} /\ X = o * Y + (X % Y) /\ X % Y \in 0..Y - 1 /\ o \in Int /\ X \in Int
  <2>1. Y \in Nat \ {0}
    <3>. HIDE DEF D, p
    <3>. QED  BY <1>2, <1>4
  <2>. HIDE DEF Y, X
  <2>2. X \in Int /\ Y \in Nat \ {0}  BY <1>2, <2>1
  <2>3. X = o * Y + (X % Y) /\ X % Y \in 0..Y - 1 /\ o \in Int
    BY <2>2, DivMod
  <2>. QED  BY <2>2, <2>3
<1>6. e - o \in {0, 1}  BY <1>1 DEF OneOff
<1>. HIDE DEF o
<1>7. o \in Word
  <2>1. X < Y * B
    <3>. HIDE DEF D, p, X
    <3>1. D * (p * B) = (D * p) * B  BY <1>2, <1>4, Base
    <3>. QED  BY <1>2, <1>4, <3>1
  <2>. HIDE DEF X, Y
  <2>2. ASSUME o < 0 PROVE FALSE
    <3>1. o * Y <= (-1) * Y /\ (-1) * Y = -Y /\ o * Y \in Int  BY <1>5, <2>2
    <3>. QED  BY <1>2, <1>5, <3>1
  <2>3. ASSUME o >= B PROVE FALSE
    <3>1. o * Y >= B * Y /\ o * Y \in Int /\ B * Y = Y * B /\ B * Y \in Int  BY <1>5, <2>3, Base
    <3>. QED  BY <1>5, <2>1, <3>1
  <2>. QED  BY <1>5, <2>2, <2>3, Base DEF Word
<1>8. X - o * Y \in 0..Y - 1 /\ o * Y \in Int
  <2>. HIDE DEF X, Y
  <2>. QED  BY <1>5
<1>9. /\ w1 \in Words5 /\ Number(w1) = X - o * Y /\ CorrectedDigit(left, e) = o
  <2>1. \A i \in n..N - 1 : vn[i] = 0  BY DEF Normalized
  <2>2. n \in 1..N /\ k + n <= N  BY <1>2 DEF N
  <2>3. Y = Number(vn) * Place(k) /\ left = MultiplySubtract(w, k, vn, n, e)  OBVIOUS
  <2>4. Number(w) - o * Y \in 0..Y - 1  BY <1>8
  <2>. HIDE DEF Y, vn, n
  <2>. QED  BY <1>1, <1>2, <1>6, <1>7, <2>1, <2>2, <2>3, <2>4, CorrectedIs
<1>10. /\ z1 \in Words /\ Number(z1) = Z + o * p /\ \A i \in 0..k - 1 : z1[i] = 0
  <2>1. z[k] = 0 /\ k \in 0..k  BY <1>1, <1>2
  <2>2. z1 = [z EXCEPT ![k] = o]  BY <1>9
  <2>3. [z EXCEPT ![k] = o] \in Words
        /\ Number([z EXCEPT ![k] = o]) = Number(z) + (o - z[k]) * Place(k)
    BY <1>2, <1>3, <1>7, DigitWritten
  <2>4. o - z[k] = o  BY <1>5, <2>1
  <2>5. \A i \in 0..k - 1 : i # k /\ i \in 0..k /\ i \in 0..N - 1  BY <1>3 DEF N
  <2>6. \A i \in 0..k - 1 : [z EXCEPT ![k] = o][i] = z[i]  BY <1>2, <2>5 DEF Words
  <2>. HIDE DEF z1
  <2>. QED  BY <1>1, <2>2, <2>3, <2>4, <2>5, <2>6
<1>. HIDE DEF w1, z1
<1>11. Exact(a, w1, z1, t, k - 1)
  <2>1. Digits(a, w, z, k) = Z /\ Rest(a, w, t, k) = X /\ Digits(a, w1, z1, k - 1) = Number(z1)
        /\ Rest(a, w1, t, k - 1) = Number(w1)
    BY <1>1 DEF Digits, Rest
  <2>2. Z * D + X = Number(a.numerator)  BY <1>3, <2>1 DEF Exact
  <2>3. Number(z1) * D + Number(w1) = Number(a.numerator)
    <3>1. Z \in Int /\ D \in Int /\ p \in Int /\ X \in Int /\ o \in Int
      BY <1>2, <1>4, <1>5, WordsAre
    <3>2. Number(z1) * D + Number(w1) = (Z + o * p) * D + (X - o * (D * p))
      BY <1>9, <1>10
    <3>. HIDE DEF Z, D, p, X
    <3>3. (Z + o * p) * D + (X - o * (D * p)) = Z * D + X  BY <3>1
    <3>. QED  BY <2>2, <3>2, <3>3
  <2>4. Number(w1) < D * Place((k - 1) + 1)
    <3>1. Number(w1) < Y
      <4>. HIDE DEF X, Y
      <4>. QED  BY <1>5, <1>8, <1>9
    <3>. QED  BY <1>4, <3>1
  <2>. QED  BY <2>1, <2>3, <2>4 DEF Exact
<1>12. ~(a.n > a.m)
  <2>1. a.m \in Int /\ a.n \in Int  BY <1>2, <1>3 DEF N
  <2>. QED  BY <1>3, <2>1
<1>13. Dividing(a, w1, z1, t, k - 1, NoDigit)
  <2>1. a.n <= a.m => k - 1 <= a.m - a.n /\ Exact(a, w1, z1, t, k - 1)  BY <1>3, <1>11
  <2>2. a.n > 2 => \A i \in 0..k - 1 : z1[i] = 0  BY <1>10
  <2>. QED  BY <1>1, <1>3, <1>9, <1>10, <1>12, <2>1, <2>2 DEF Dividing
<1>. QED  BY <1>13 DEF w1, z1

-------------------------------------------------------------------------------
(* Every step keeps the invariant.                                             *)

LEMMA NotRaw ==
    ASSUME NEW a, NEW u, NEW v, Normalized(a, u, v)
    PROVE  a # Raw
<1>1. a.shift \in 0..W - 1  BY DEF Normalized
<1>2. Raw.shift = -1  BY DEF Raw
<1>. QED  BY <1>1, <1>2

LEMMA NormalizeStep ==
    ASSUME IInv, Normalize
    PROVE  IInv'
<1>. DEFINE a == normalize(x, y)
            top == a.numerator
<1>1. /\ x \in Words /\ y \in Words \ {Zero} /\ y \in Words
      /\ un = [i \in 0..N |-> 0] /\ q = Zero /\ r = zero /\ j = -1 /\ qhat = NoDigit
  BY DEF IInv, Normalize
<1>2. na' = a /\ x' = x /\ y' = y /\ q' = q /\ qhat' = qhat  BY DEF Normalize
<1>3. Normalized(a, x, y)  BY <1>1, NormalizeIs
<1>4. a # Raw /\ a.m \in Int /\ a.n \in Int
  <2>1. a.m \in 0..N /\ a.n \in 1..N  BY <1>3 DEF Normalized
  <2>. HIDE DEF a
  <2>. QED  BY <1>3, <2>1, NotRaw DEF N
<1>5. r \in uint128 /\ un \in Words5 /\ q \in Words
  <2>1. 0 \in Word  BY Base DEF Word
  <2>. QED  BY <1>1, <2>1, ZeroIs, OneIs DEF Words5
<1>. HIDE DEF a
<1>6. Dividing(a, un', q', r', j', qhat')
  <2>1. CASE a.n > a.m
    <3>2. ~(a.n <= a.m)  BY <1>4, <2>1
    <3>1. j' = -1 /\ un' = un /\ r' = r  BY <2>1, <3>2 DEF Normalize, a
    <3>3. \A i \in 0..-1 : q[i] = 0  OBVIOUS
    <3>4. -1 \in -1..N - 1  BY DEF N
    <3>. QED  BY <1>1, <1>2, <1>5, <2>1, <3>1, <3>2, <3>3, <3>4 DEF Dividing
  <2>2. CASE a.n <= a.m /\ a.n = 1
    <3>1. ~(a.n > a.m)  BY <1>4, <2>2
    <3>2. r' = wide(top[a.m]) /\ un' = [top EXCEPT ![a.m] = 0] /\ j' = a.m - 1
      BY <2>2, <3>1 DEF Normalize, a
    <3>3. Dividing(a, un', Zero, r', a.m - 1, NoDigit)
      BY <1>1, <1>3, <2>2, <3>2, Start1
    <3>. QED  BY <1>1, <1>2, <3>2, <3>3
  <2>3. CASE a.n <= a.m /\ a.n = 2
    <3>1. ~(a.n > a.m) /\ ~(a.n = 1)  BY <1>4, <2>3
    <3>2. /\ r' = [hi |-> top[a.m], lo |-> top[a.m - 1]]
          /\ un' = [top EXCEPT ![a.m] = 0, ![a.m - 1] = 0] /\ j' = a.m - 2
      BY <2>3, <3>1 DEF Normalize, a
    <3>3. Dividing(a, un', Zero, r', a.m - 2, NoDigit)
      BY <1>1, <1>3, <2>3, <3>2, Start2
    <3>. QED  BY <1>1, <1>2, <3>2, <3>3
  <2>4. CASE a.n <= a.m /\ a.n # 1 /\ a.n # 2
    <3>1. ~(a.n > a.m)  BY <1>4, <2>4
    <3>2. un' = top /\ j' = a.m - a.n /\ r' = r
      BY <2>4, <3>1 DEF Normalize, a
    <3>3. a.n > 2
      <4>1. a.n \in 1..N  BY <1>3 DEF Normalized
      <4>. QED  BY <2>4, <4>1 DEF N
    <3>4. Dividing(a, top, Zero, r, a.m - a.n, NoDigit)
      BY <1>1, <1>3, <1>5, <2>4, <3>3, Start3
    <3>. QED  BY <1>1, <1>2, <3>2, <3>4
  <2>. QED  BY <1>4, <2>1, <2>2, <2>3, <2>4
<1>7. Normalized(na', x', y')  BY <1>2, <1>3
<1>8. Dividing(na', un', q', r', j', qhat')  BY <1>2, <1>6
<1>9. na' # Raw'  BY <1>2, <1>4 DEF Raw
<1>. QED  BY <1>1, <1>2, <1>7, <1>8, <1>9 DEF IInv

(* A round of a loop: only what divides moves.                                 *)
LEMMA RoundStep ==
    ASSUME IInv, na # Raw, UNCHANGED <<x, y, na>>,
           Normalized(na, x, y) => Dividing(na, un', q', r', j', qhat')
    PROVE  IInv'
<1>1. x \in Words /\ y \in Words \ {Zero} /\ Normalized(na, x, y)  BY DEF IInv
<1>2. Dividing(na', un', q', r', j', qhat') /\ Normalized(na', x', y')  BY <1>1
<1>3. na' # Raw'  BY DEF Raw
<1>. QED  BY <1>1, <1>2, <1>3 DEF IInv

LEMMA By1Step ==
    ASSUME IInv, By1
    PROVE  IInv'
<1>. DEFINE res == by1_round(r.lo, un[j], na.denominator[0])
<1>1. /\ na # Raw /\ j >= 0 /\ na.n = 1 /\ UNCHANGED <<x, y, na, q, qhat>>
      /\ un' = [un EXCEPT ![j] = res.quot] /\ r' = wide(res.rem) /\ j' = j - 1
  BY DEF By1, Running
<1>2. /\ x \in Words /\ y \in Words /\ Normalized(na, x, y) /\ Dividing(na, un, q, r, j, qhat)
  BY <1>1 DEF IInv
<1>3. qhat = NoDigit  BY <1>1, <1>2 DEF Dividing
<1>. DEFINE z == res
<1>4. z = by1_round(r.lo, un[j], na.denominator[0])  OBVIOUS
<1>. HIDE DEF z
<1>5. Dividing(na, [un EXCEPT ![j] = z.quot], q, wide(z.rem), j - 1, NoDigit)
  BY <1>1, <1>2, <1>3, <1>4, Round1
<1>6. Dividing(na, un', q', r', j', qhat')  BY <1>1, <1>3, <1>5 DEF z
<1>. QED  BY <1>1, <1>6, RoundStep

LEMMA By2Step ==
    ASSUME IInv, By2
    PROVE  IInv'
<1>. DEFINE res == by2_round(r, un[j], Lower(na.denominator))
<1>1. /\ na # Raw /\ j >= 0 /\ na.n = 2 /\ UNCHANGED <<x, y, na, q, qhat>>
      /\ un' = [un EXCEPT ![j] = res.quot] /\ r' = res.rem /\ j' = j - 1
  BY DEF By2, Running
<1>2. /\ x \in Words /\ y \in Words /\ Normalized(na, x, y) /\ Dividing(na, un, q, r, j, qhat)
  BY <1>1 DEF IInv
<1>3. qhat = NoDigit  BY <1>1, <1>2 DEF Dividing
<1>. DEFINE z == res
<1>4. z = by2_round(r, un[j], Lower(na.denominator))  OBVIOUS
<1>. HIDE DEF z
<1>5. Dividing(na, [un EXCEPT ![j] = z.quot], q, z.rem, j - 1, NoDigit)
  BY <1>1, <1>2, <1>3, <1>4, Round2
<1>6. Dividing(na, un', q', r', j', qhat')  BY <1>1, <1>3, <1>5 DEF z
<1>. QED  BY <1>1, <1>6, RoundStep

LEMMA EstimateStep ==
    ASSUME IInv, Estimate
    PROVE  IInv'
<1>1. /\ na # Raw /\ j >= 0 /\ na.n > 2 /\ qhat = NoDigit /\ UNCHANGED <<x, y, na, un, q, r, j>>
      /\ qhat' = EstimateDigit(un[j + na.n], un[j + na.n - 1], un[j + na.n - 2], Leading(na))
  BY DEF Estimate, Running, Leading
<1>2. /\ x \in Words /\ y \in Words /\ Normalized(na, x, y) /\ Dividing(na, un, q, r, j, NoDigit)
  BY <1>1 DEF IInv
<1>3. Dividing(na, un, q, r, j, qhat')
  BY <1>1, <1>2, EstimateIs
<1>4. Dividing(na, un', q', r', j', qhat')  BY <1>1, <1>3
<1>. QED  BY <1>1, <1>4, RoundStep

LEMMA SubtractStep ==
    ASSUME IInv, Subtract
    PROVE  IInv'
<1>. DEFINE left == MultiplySubtract(un, j, na.denominator, na.n, qhat)
<1>1. /\ na # Raw /\ j >= 0 /\ qhat # NoDigit /\ UNCHANGED <<x, y, na, r>>
      /\ qhat' = NoDigit /\ j' = j - 1 /\ DigitStored
  BY DEF Subtract, Running
<1>2. /\ x \in Words /\ y \in Words /\ Normalized(na, x, y) /\ Dividing(na, un, q, r, j, qhat)
  BY <1>1 DEF IInv
<1>3. /\ un' = Corrected(left, j, na.denominator, na.n)
      /\ q' = [q EXCEPT ![j] = CorrectedDigit(left, qhat)]
  BY <1>1 DEF DigitStored, Corrected, CorrectedDigit
<1>. DEFINE z == left
<1>4. z = MultiplySubtract(un, j, na.denominator, na.n, qhat)  OBVIOUS
<1>. HIDE DEF z
<1>5. Dividing(na, Corrected(z, j, na.denominator, na.n),
               [q EXCEPT ![j] = CorrectedDigit(z, qhat)], r, j - 1, NoDigit)
  BY <1>1, <1>2, <1>4, DigitIs
<1>6. Dividing(na, un', q', r', j', qhat')  BY <1>1, <1>3, <1>5 DEF z
<1>. QED  BY <1>1, <1>6, RoundStep

(* The loops never lose a digit, a borrow or a carry.                          *)
LEMMA IInvHolds == Spec => []IInv
<1>1. Init => IInv  BY DEF Init, IInv
<1>2. IInv /\ [Next]_vars => IInv'
  <2>. SUFFICES ASSUME IInv, [Next]_vars PROVE IInv'  OBVIOUS
  <2>1. CASE UNCHANGED vars  BY <2>1 DEF vars, IInv, Raw
  <2>. QED  BY <2>1, NormalizeStep, By1Step, By2Step, EstimateStep, SubtractStep DEF Next
<1>. QED  BY <1>1, <1>2, PTL DEF Spec

(* Before every round of every loop, the digits found times the divisor plus   *)
(* what is left are the numerator, and what is left is less than the divisor   *)
(* at the next digit's place: for words of any width.                          *)
THEOREM LoopsAreExact == Spec => []LoopExact
<1>1. IInv => LoopExact
  <2>. SUFFICES ASSUME IInv, na # Raw, na.n <= na.m, qhat = NoDigit
                PROVE  /\ Found * Number(na.denominator) + Left = Number(na.numerator)
                       /\ Left < Number(na.denominator) * Place(j + 1)
    BY DEF LoopExact
  <2>1. Dividing(na, un, q, r, j, qhat)  BY DEF IInv
  <2>2. Exact(na, un, q, r, j)  BY <2>1 DEF Dividing
  <2>3. Found = Digits(na, un, q, j) /\ Left = Rest(na, un, r, j)
    BY DEF Found, Left, Digits, Rest, UpTo, Above
  <2>. QED  BY <2>2, <2>3 DEF Exact
<1>. QED  BY <1>1, IInvHolds, PTL

(* Knuth's guess from the leading words is the digit or one more, whatever the *)
(* operands: adding the divisor back once is enough.                           *)
THEOREM GuessesAreClose == Spec => []EstimateOneOff
<1>1. IInv => EstimateOneOff
  <2>. SUFFICES ASSUME IInv, qhat # NoDigit
                PROVE  qhat - (Left \div (Number(na.denominator) * Place(j))) \in {0, 1}
    BY DEF EstimateOneOff
  <2>1. na # Raw /\ Dividing(na, un, q, r, j, qhat)  BY DEF IInv
  <2>2. na.n > 2 /\ OneOff(na, un, j, qhat)  BY <2>1 DEF Dividing
  <2>3. Left = Number(un)  BY <2>2 DEF Left
  <2>. QED  BY <2>2, <2>3 DEF OneOff
<1>. QED  BY <1>1, IInvHolds, PTL

-------------------------------------------------------------------------------
(* What udivrem returns.                                                       *)

(* The remainder's words, shifted back.                                        *)
ShiftedDown(w, n, s) ==
    [i \in 0..N - 1 |-> IF i >= n THEN 0
                        ELSE IF s = 0 THEN w[i] ELSE wshr(w[i], s) + wshl(w[i + 1], W - s)]

LEMMA ShiftedDownIs ==
    ASSUME NEW w \in Words5, NEW n \in {3, 4}, \A i \in n..N : w[i] = 0,
           NEW s \in 0..W - 1, NEW R \in Nat, Number(w) = R * 2^s
    PROVE  ShiftedDown(w, n, s) \in Words /\ Number(ShiftedDown(w, n, s)) = R
<1>. DEFINE z == ShiftedDown(w, n, s)
<1>0. w[4] = 0 /\ (n = 3 => w[3] = 0)  BY DEF N
<1>1. CASE s = 0
  <2>1. z = Narrowed(w)
    <3>1. \A i \in 0..N - 1 : i >= n => w[i] = 0  BY DEF N
    <3>. QED  BY <1>1, <3>1 DEF ShiftedDown, Narrowed
  <2>2. w[N] = 0  BY <1>0 DEF N
  <2>3. R * 2^s = R  BY <1>1
  <2>. QED  BY <2>1, <2>2, <2>3, NarrowedIs
<1>2. CASE s # 0
  <2>. DEFINE t == W - s
              b == B
              c == 2^t
              h(i) == wshr(w[i], s)
              l(i) == wshl(w[i], t)
  <2>1. s \in 1..W - 1 /\ t \in 1..W - 1 /\ W - t = s /\ s \in Nat /\ t \in Nat /\ s < W
    BY <1>2, Base
  <2>2. c \in Nat \ {0} /\ b = 2^s * c /\ b \in Nat \ {0} /\ 2^s \in Nat \ {0} /\ 2 <= b
    BY <2>1, Shifts, Base
  <2>3. ASSUME NEW i \in 0..N
        PROVE  /\ l(i) \in 0..b - c /\ h(i) \in 0..c - 1 /\ w[i] * c = h(i) * b + l(i)
               /\ w[i] = 0 => h(i) = 0 /\ l(i) = 0
    <3>. DEFINE v == w[i]
    <3>1. v \in Word /\ v \in Nat  BY Words5In
    <3>. HIDE DEF v, t
    <3>2. /\ wshl(v, t) \in 0..B - 2^t /\ wshr(v, W - t) \in 0..2^t - 1
          /\ v * 2^t = wshr(v, W - t) * B + wshl(v, t)
          /\ v * 2^t < B => wshr(v, W - t) = 0 /\ wshl(v, t) = v * 2^t
      BY <2>1, <3>1, ShiftsWord
    <3>3. v = 0 => v * 2^t = 0 /\ 0 < B
      <4>1. 0 * 2^t = 0  BY <2>2
      <4>. QED  BY <4>1, Base
    <3>. QED  BY <2>1, <3>2, <3>3 DEF v
  <2>. DEFINE h0 == h(0)
              h1 == h(1)
              h2 == h(2)
              h3 == h(3)
              h4 == h(4)
              l0 == l(0)
              l1 == l(1)
              l2 == l(2)
              l3 == l(3)
              l4 == l(4)
              w0 == w[0]
              w1 == w[1]
              w2 == w[2]
              w3 == w[3]
              w4 == w[4]
  <2>4. /\ l0 \in 0..b - c /\ l1 \in 0..b - c /\ l2 \in 0..b - c /\ l3 \in 0..b - c
        /\ h0 \in 0..c - 1 /\ h1 \in 0..c - 1 /\ h2 \in 0..c - 1 /\ h3 \in 0..c - 1
        /\ w0 * c = h0 * b + l0 /\ w1 * c = h1 * b + l1 /\ w2 * c = h2 * b + l2
        /\ w3 * c = h3 * b + l3 /\ h4 = 0 /\ l4 = 0 /\ w4 = 0
        /\ (n = 3 => h3 = 0 /\ l3 = 0)
    <3>1. 0 \in 0..N /\ 1 \in 0..N /\ 2 \in 0..N /\ 3 \in 0..N /\ 4 \in 0..N  BY DEF N
    <3>. HIDE DEF h, l, c, b
    <3>. QED  BY <1>0, <2>3, <3>1
  <2>5. w0 \in Int /\ w1 \in Int /\ w2 \in Int /\ w3 \in Int  BY Words5In
  <2>6. /\ z[0] = h0 + l1 /\ z[1] = h1 + l2 /\ z[2] = h2 + l3 /\ z[3] = h3 + l4
        /\ z = [i \in 0..N - 1 |-> z[i]]
    <3>1. 0 \in 0..N - 1 /\ 1 \in 0..N - 1 /\ 2 \in 0..N - 1 /\ 3 \in 0..N - 1
          /\ 0 + 1 = 1 /\ 1 + 1 = 2 /\ 2 + 1 = 3 /\ 3 + 1 = 4
          /\ ~(0 >= n) /\ ~(1 >= n) /\ ~(2 >= n) /\ (3 >= n <=> n = 3)
      BY DEF N
    <3>2. \A i \in 0..N - 1 : z[i] = IF i >= n THEN 0 ELSE h(i) + l(i + 1)
      BY <1>2 DEF ShiftedDown
    <3>3. z = [i \in 0..N - 1 |-> z[i]]  BY DEF ShiftedDown
    <3>. HIDE DEF z, h, l
    <3>4. z[0] = h0 + l1 /\ z[1] = h1 + l2 /\ z[2] = h2 + l3
      BY <3>1, <3>2
    <3>5. z[3] = h3 + l4
      <4>1. CASE n = 3  BY <2>4, <3>1, <3>2, <4>1
      <4>2. CASE n # 3  BY <3>1, <3>2, <4>2
      <4>. QED  BY <4>1, <4>2
    <3>. QED  BY <3>3, <3>4, <3>5
  <2>. HIDE DEF z, h0, h1, h2, h3, h4, l0, l1, l2, l3, l4, c, b
  <2>7. /\ z[0] \in 0..b - 1 /\ z[1] \in 0..b - 1 /\ z[2] \in 0..b - 1 /\ z[3] \in 0..b - 1
    <3>1. b \in Int /\ c \in Int  BY <2>2
    <3>2. c <= b  BY <2>4, <3>1
    <3>3. l1 \in 0..b - c /\ l2 \in 0..b - c /\ l3 \in 0..b - c /\ l4 = 0
          /\ h0 \in 0..c - 1 /\ h1 \in 0..c - 1 /\ h2 \in 0..c - 1 /\ h3 \in 0..c - 1
      BY <2>4
    <3>4. /\ h0 + l1 \in 0..b - 1 /\ h1 + l2 \in 0..b - 1 /\ h2 + l3 \in 0..b - 1
          /\ h3 + l4 \in 0..b - 1
      BY <3>1, <3>2, <3>3
    <3>. QED  BY <2>6, <3>4
  <2>8. z \in Words
    <3>1. \A i \in 0..N - 1 : i \in {0, 1, 2, 3}  BY DEF N
    <3>2. \A i \in 0..N - 1 : z[i] \in 0..b - 1  BY <2>7, <3>1
    <3>. QED  BY <2>6, <3>2 DEF Words, Word, b
  <2>9. Number(z) = (h0 + l1) + b * ((h1 + l2) + b * ((h2 + l3) + b * h3))
    <3>1. Number(z) = z[0] + B * (z[1] + B * (z[2] + B * z[3]))  BY <2>8, NumberIs
    <3>2. h3 + l4 = h3  BY <2>4
    <3>. QED  BY <2>6, <3>1, <3>2 DEF b
  <2>10. Number(w) = w0 + b * (w1 + b * (w2 + b * w3))
    <3>1. Number(w) = Weighted(w0, w1, w2, w3, 0)  BY <2>4, Number5Is
    <3>2. B * 0 = 0 /\ w3 + 0 = w3  BY <2>5, Base
    <3>. QED  BY <3>1, <3>2 DEF Weighted, b
  <2>11. c * Number(w) = l0 + b * Number(z) /\ Number(z) \in Int /\ Number(w) \in Int
    <3>. HIDE DEF w0, w1, w2, w3
    <3>0. l1 \in Int /\ l2 \in Int /\ l3 \in Int /\ l0 \in Int /\ h0 \in Int /\ h1 \in Int
          /\ h2 \in Int /\ h3 \in Int /\ b \in Int /\ c \in Int
      BY <2>2, <2>4
    <3>1. c * (w0 + b * (w1 + b * (w2 + b * w3)))
            = w0 * c + b * (w1 * c + b * (w2 * c + b * (w3 * c)))
      BY <2>5, <3>0
    <3>2. (h0 * b + l0) + b * ((h1 * b + l1) + b * ((h2 * b + l2) + b * (h3 * b + l3)))
            = l0 + b * ((h0 + l1) + b * ((h1 + l2) + b * ((h2 + l3) + b * h3)))
      BY <3>0
    <3>3. (h0 + l1) + b * ((h1 + l2) + b * ((h2 + l3) + b * h3)) \in Int  BY <3>0
    <3>4. w0 + b * (w1 + b * (w2 + b * w3)) \in Int  BY <2>5, <3>0
    <3>. QED  BY <2>4, <2>9, <2>10, <3>1, <3>2, <3>3, <3>4
  <2>12. c * Number(w) = b * R
    <3>. DEFINE e == 2^s
    <3>1. e \in Int /\ c \in Int /\ b = e * c /\ Number(w) = R * e  BY <2>2
    <3>. HIDE DEF e
    <3>2. c * (R * e) = (e * c) * R  BY <3>1
    <3>. QED  BY <3>1, <3>2
  <2>13. Number(z) = R
    <3>. DEFINE e == R - Number(z)
    <3>1. b * R - b * Number(z) = l0 /\ l0 \in 0..b - 1 /\ b * R \in Int /\ b * Number(z) \in Int
      BY <2>2, <2>4, <2>11, <2>12
    <3>2. b * R - b * Number(z) = b * e /\ e \in Int  BY <2>2, <2>11
    <3>. HIDE DEF e
    <3>3. b * e \in 0..b - 1  BY <3>1, <3>2
    <3>4. ASSUME e >= 1 PROVE FALSE
      <4>1. b * e >= b * 1 /\ b * 1 = b  BY <2>2, <3>2, <3>4
      <4>. QED  BY <2>2, <3>3, <4>1
    <3>5. ASSUME e <= -1 PROVE FALSE
      <4>1. b * e <= b * (-1) /\ b * (-1) = -b  BY <2>2, <3>2, <3>5
      <4>. QED  BY <2>2, <3>3, <4>1
    <3>6. e = 0  BY <3>2, <3>4, <3>5
    <3>. QED  BY <2>11, <3>6 DEF e
  <2>. QED  BY <2>8, <2>13 DEF z
<1>. QED  BY <1>1, <1>2

IsResult(res, a, d) ==
    /\ res.quot \in Words /\ res.rem \in Words
    /\ Number(res.quot) = a \div d /\ Number(res.rem) = a % d

(* The quotient's words, the top one empty.                                    *)
LEMMA QuotientWords ==
    ASSUME NEW w \in Words5, Number(w) < Wide
    PROVE  Narrowed(w) \in Words /\ Number(Narrowed(w)) = Number(w)
<1>1. Place(4) = Wide /\ 4 \in 0..N + 1 /\ 4 \in 4..N /\ N = 4  BY Places DEF N
<1>2. \A i \in 4..N : w[i] = 0  BY <1>1, HighWords
<1>3. w[N] = 0  BY <1>1, <1>2
<1>. QED  BY <1>3, NarrowedIs

LEMMA ResultIs ==
    ASSUME IInv, Done
    PROVE  IsResult(Result, Number(x), Number(y))
<1>. DEFINE X == Number(x)
            Y == Number(y)
            n == na.n
            s == na.shift
            S == 2^s
            D == Number(na.denominator)
<1>1. /\ na # Raw /\ j = -1 /\ x \in Words /\ y \in Words /\ y # Zero
      /\ Normalized(na, x, y) /\ Dividing(na, un, q, r, -1, qhat)
  BY DEF IInv, Done
<1>2. X \in Nat /\ Y \in Nat \ {0} /\ X < Wide /\ Wide \in Nat
  <2>1. X \in 0..Wide - 1 /\ Y \in 0..Wide - 1  BY <1>1, WordsAre
  <2>2. Y # 0
    <3>1. y = Zero <=> Number(y) = Number(Zero)  BY <1>1, OneIs, WordsEqual
    <3>. QED  BY <1>1, <3>1, OneIs
  <2>. QED  BY <2>1, <2>2, WideIs256
<1>3. /\ na.m \in 0..N /\ n \in 1..N /\ n \in Int /\ na.m \in Int /\ s \in 0..W - 1 /\ s \in Nat
      /\ na.denominator \in Words /\ D = Y * S /\ Number(na.numerator) = X * S
      /\ (\A i \in n..N - 1 : na.denominator[i] = 0)
      /\ (n > na.m => X < Y)
  <2>1. /\ na.m \in 0..N /\ n \in 1..N /\ s \in 0..W - 1
        /\ na.denominator \in Words /\ D = Y * S /\ Number(na.numerator) = X * S
        /\ (\A i \in n..N - 1 : na.denominator[i] = 0)
        /\ (n > na.m => X < Y)
    BY <1>1 DEF Normalized
  <2>2. n \in Int /\ na.m \in Int /\ s \in Nat  BY <2>1, Base DEF N
  <2>. QED  BY <2>1, <2>2
<1>4. S \in Nat \ {0}  BY <1>3, Shifts
<1>5. CASE n > na.m
  <2>1. X < Y  BY <1>3, <1>5
  <2>2. X \div Y = 0 /\ X % Y = X
    <3>1. X \in 0..Y - 1  BY <1>2, <2>1
    <3>. HIDE DEF X, Y
    <3>. QED  BY <1>2, <3>1, ModSelf
  <2>3. ~(n <= na.m)  BY <1>3, <1>5
  <2>4. Result = [quot |-> Zero, rem |-> x]  BY <1>5, <2>3 DEF Result
  <2>. QED  BY <1>1, <2>2, <2>4, OneIs DEF IsResult
<1>6. CASE n <= na.m
  <2>. DEFINE F == Digits(na, un, q, -1)
              L == Rest(na, un, r, -1)
              R == X - F * Y
  <2>1. un \in Words5 /\ q \in Words /\ r \in uint128 /\ Exact(na, un, q, r, -1)
    BY <1>1, <1>6 DEF Dividing
  <2>2. F * D + L = X * S /\ L < D * Place(-1 + 1)  BY <1>3, <2>1 DEF Exact
  <2>3. -1 + 1 = 0 /\ Place(0) = 1 /\ Number(UpTo(un, -1)) = 0 /\ Above(un, -1) = un
        /\ Number(un) \in Nat
    <3>1. 0 \in Int  OBVIOUS
    <3>. QED  BY <2>1, <3>1, Places, PartsEnd, PartsAre
  <2>4. /\ (n > 2 => F = Number(q) /\ L = Number(un))
        /\ (~(n > 2) => F = Number(un) /\ L = Val(r))
    <3>1. Val(r) * 1 + 0 = Val(r)
      <4>1. Val(r) \in Int  BY <2>1, ValIs
      <4>. QED  BY <4>1
    <3>2. ~(n > 2) => L = Val(r) * Place(-1 + 1) + Number(UpTo(un, -1))  BY DEF Rest
    <3>. QED  BY <2>3, <3>1, <3>2 DEF Digits, Rest
  <2>5. F \in Nat /\ L \in Nat
    <3>1. Number(q) \in Nat /\ Val(r) \in Nat
      <4>1. Number(q) \in 0..Wide - 1  BY <2>1, WordsAre
      <4>. QED  BY <2>1, <4>1, ValIs, WideIs256
    <3>. QED  BY <2>3, <2>4, <3>1
  <2>6. F * (Y * S) + L = X * S /\ L < (Y * S) * 1  BY <1>3, <2>2, <2>3
  <2>. HIDE DEF F, L
  <2>7. /\ L = R * S /\ R \in Nat /\ R < Y /\ F <= X /\ F = X \div Y /\ R = X % Y
    <3>. DEFINE e == R
    <3>1. e = X - F * Y  OBVIOUS
    <3>. HIDE DEF X, Y, S, e
    <3>2. Divided(X, Y, S, F, L, e)
      BY <1>2, <1>4, <2>5, <2>6, <3>1, Unshifted
    <3>. QED  BY <3>2 DEF e, Divided
  <2>. HIDE DEF R
  <2>8. F < Wide /\ R < Wide /\ R \in Int /\ F \in Int
    <3>. HIDE DEF X, Y
    <3>1. R <= X
      <4>1. X % Y <= X
        <5>1. X = (X \div Y) * Y + (X % Y) /\ X % Y \in 0..Y - 1  BY <1>2, DivMod
        <5>2. (X \div Y) * Y \in Nat
          <6>1. X \div Y \in Nat  BY <2>5, <2>7
          <6>. QED  BY <1>2, <6>1
        <5>. DEFINE e == (X \div Y) * Y
                    g == X % Y
        <5>3. X = e + g /\ e \in Nat /\ g \in Int  BY <5>1, <5>2
        <5>. HIDE DEF e, g
        <5>4. g <= X  BY <5>3
        <5>. QED  BY <5>4 DEF g
      <4>. QED  BY <2>7, <4>1
    <3>. QED  BY <1>2, <2>5, <2>7, <3>1
  <2>. DEFINE qw == [i \in 0..N - 1 |-> un[i]]
  <2>9. ~(n > 2) => qw \in Words /\ Number(qw) = F
    <3>1. qw = Narrowed(un)  BY DEF Narrowed
    <3>. HIDE DEF qw
    <3>. QED  BY <2>1, <2>4, <2>8, <3>1, QuotientWords
  <2>. HIDE DEF qw
  <2>10. L \div S = R
    <3>. DEFINE e == S
    <3>1. e \in Nat \ {0} /\ 0 \in 0..e - 1 /\ L = R * e + 0 /\ L \in Int
      BY <1>4, <2>5, <2>7
    <3>. HIDE DEF e
    <3>2. L \div e = R  BY <2>8, <3>1, DivModIs
    <3>. QED  BY <3>2 DEF e
  <2>11. CASE n = 1
    <3>. DEFINE rw == Join(zero, wide(wshr(r.lo, s)))
    <3>1. Result = [quot |-> qw, rem |-> rw]
      <4>1. ~(n > na.m)  BY <1>3, <1>6
      <4>. QED  BY <1>6, <2>11, <4>1 DEF Result, qw
    <3>2. r.lo = L /\ r.hi = 0
      <4>1. ~(n > 2)  BY <2>11
      <4>2. L < D  BY <1>3, <2>6, <2>5, <1>2, <1>4
      <4>3. D < B
        <5>1. Number(Widened(na.denominator)) = D /\ Widened(na.denominator) \in Words5
              /\ Widened(na.denominator)[N] = 0
              /\ \A i \in 0..N - 1 : Widened(na.denominator)[i] = na.denominator[i]
          BY <1>3, WidenedIs
        <5>. DEFINE dw == Widened(na.denominator)
        <5>. HIDE DEF dw
        <5>2. \A i \in 0 + 1..N : dw[i] = 0
          <6>1. \A i \in 0 + 1..N : i = N \/ (i \in n..N - 1 /\ i \in 0..N - 1)
            BY <2>11 DEF N
          <6>. QED  BY <1>3, <5>1, <6>1 DEF dw
        <5>3. 0 \in -1..N /\ 0 + 1 = 1  BY DEF N
        <5>4. Number(dw) \in 0..Place(0 + 1) - 1  BY <5>1, <5>2, <5>3, Below DEF dw
        <5>5. Place(1) = B  BY Places
        <5>. QED  BY <5>1, <5>3, <5>4, <5>5, Base DEF dw
      <4>. DEFINE h == r.hi
                  l == r.lo
      <4>4. h \in 0..B - 1 /\ l \in 0..B - 1 /\ L = h * B + l  BY <2>1, <2>4, <4>1, ValIs
      <4>5. D \in Int  BY <1>3, WordsAre
      <4>. HIDE DEF h, l, D
      <4>6. h = 0
        <5>1. ASSUME h >= 1 PROVE FALSE
          <6>1. h * B >= 1 * B /\ h * B \in Int /\ 1 * B = B  BY <4>4, <5>1, Base
          <6>. QED  BY <2>5, <4>2, <4>3, <4>4, <4>5, <6>1, Base
        <5>. QED  BY <4>4, <5>1, Base
      <4>7. l = L
        <5>1. 0 * B + l = l  BY <4>4, Base
        <5>. QED  BY <4>4, <4>6, <5>1
      <4>. QED  BY <4>6, <4>7 DEF h, l
    <3>3. wshr(r.lo, s) = R /\ R \in Word
      <4>1. wshr(r.lo, s) = R  BY <2>10, <3>2 DEF wshr
      <4>2. r.lo \in Word  BY <2>1, ValIs
      <4>3. r.lo \div S \in Word  BY <1>4, <4>2, WordDown
      <4>. QED  BY <2>10, <3>2, <4>1, <4>3
    <3>4. rw \in Words /\ Number(rw) = R
      <4>. DEFINE e == wide(R)
      <4>1. e \in uint128 /\ Val(e) = R /\ zero \in uint128 /\ Val(zero) = 0
        BY <3>3, WideIs, ZeroIs
      <4>2. rw = Join(zero, e)  BY <3>3
      <4>. HIDE DEF e, rw
      <4>3. Join(zero, e) \in Words /\ Number(Join(zero, e)) = Val(zero) * Full + Val(e)
        BY <4>1, JoinIs
      <4>4. 0 * Full + R = R  BY <2>8, FullIs
      <4>. QED  BY <4>1, <4>2, <4>3, <4>4
    <3>. HIDE DEF rw
    <3>5. ~(n > 2)  BY <2>11
    <3>. QED  BY <2>7, <2>9, <3>1, <3>4, <3>5 DEF IsResult
  <2>12. CASE n = 2
    <3>. DEFINE rw == Join(zero, shr(r, s))
    <3>1. Result = [quot |-> qw, rem |-> rw]
      <4>1. ~(n > na.m) /\ ~(n = 1)  BY <1>3, <1>6, <2>12
      <4>. QED  BY <1>6, <2>12, <4>1 DEF Result, qw
    <3>2. ~(n > 2)  BY <2>12
    <3>3. rw \in Words /\ Number(rw) = R
      <4>. DEFINE e == shr(r, s)
      <4>1. e \in uint128 /\ Val(e) = R /\ zero \in uint128 /\ Val(zero) = 0
        <5>1. e \in uint128 /\ Val(e) = Val(r) \div 2^s  BY <1>3, <2>1, ShrIs
        <5>. QED  BY <2>4, <2>10, <3>2, <5>1, ZeroIs
      <4>2. rw = Join(zero, e)  OBVIOUS
      <4>. HIDE DEF e, rw
      <4>3. Join(zero, e) \in Words /\ Number(Join(zero, e)) = Val(zero) * Full + Val(e)
        BY <4>1, JoinIs
      <4>4. 0 * Full + R = R  BY <2>8, FullIs
      <4>. QED  BY <4>1, <4>2, <4>3, <4>4
    <3>. HIDE DEF rw
    <3>. QED  BY <2>7, <2>9, <3>1, <3>2, <3>3 DEF IsResult
  <2>13. CASE n > 2
    <3>. DEFINE rw == ShiftedDown(un, n, s)
    <3>1. Result = [quot |-> q, rem |-> rw]
      <4>1. ~(n > na.m) /\ ~(n = 1) /\ ~(n = 2)  BY <1>3, <1>6, <2>13
      <4>. QED  BY <1>6, <4>1 DEF Result, ShiftedDown
    <3>2. n \in {3, 4}  BY <1>3, <2>13 DEF N
    <3>3. L < Place(n)
      <4>1. L < D  BY <1>3, <2>6, <2>5, <1>2, <1>4
      <4>2. D < Place(n) /\ D \in Int /\ Place(n) \in Int
        <5>1. Number(Widened(na.denominator)) = D /\ Widened(na.denominator) \in Words5
              /\ Widened(na.denominator)[N] = 0
              /\ \A i \in 0..N - 1 : Widened(na.denominator)[i] = na.denominator[i]
          BY <1>3, WidenedIs
        <5>. DEFINE dw == Widened(na.denominator)
                    k == n - 1
        <5>0. k \in -1..N /\ k + 1 = n /\ n \in Nat  BY <1>3 DEF N
        <5>2. \A i \in k + 1..N : i = N \/ (i \in n..N - 1 /\ i \in 0..N - 1)
          BY <3>2 DEF N
        <5>. HIDE DEF dw, k
        <5>3. \A i \in k + 1..N : dw[i] = 0
          BY <1>3, <5>1, <5>2 DEF dw
        <5>4. Number(dw) \in 0..Place(k + 1) - 1  BY <5>0, <5>1, <5>3, Below DEF dw
        <5>5. Place(n) \in Nat  BY <5>0, Places
        <5>6. D \in Int  BY <1>3, WordsAre
        <5>. QED  BY <5>0, <5>1, <5>4, <5>5, <5>6 DEF dw
      <4>. QED  BY <2>5, <4>1, <4>2
    <3>4. \A i \in n..N : un[i] = 0
      <4>1. n \in 0..N + 1  BY <3>2 DEF N
      <4>2. Number(un) < Place(n)  BY <2>4, <2>13, <3>3
      <4>. HIDE DEF n
      <4>. QED  BY <2>1, <4>1, <4>2, HighWords
    <3>5. Number(un) = R * 2^s  BY <2>4, <2>7, <2>13
    <3>6. rw \in Words /\ Number(rw) = R
      <4>. HIDE DEF n, s
      <4>. QED  BY <1>3, <2>1, <2>7, <3>2, <3>4, <3>5, ShiftedDownIs
    <3>. HIDE DEF rw
    <3>. QED  BY <2>1, <2>4, <2>7, <2>13, <3>1, <3>6 DEF IsResult
  <2>. QED  BY <1>3, <2>11, <2>12, <2>13 DEF N
<1>. QED  BY <1>3, <1>5, <1>6

(* udivrem returns the quotient and the remainder of any two numbers, and *    *)
(* and + put them together again: next's threshold is exact at 256 bits.       *)
THEOREM DivisionIsExact == Spec => []DividesExactly
<1>1. IInv => DividesExactly
  <2>. SUFFICES ASSUME IInv, Done
                PROVE  /\ Number(Result.quot) = Number(x) \div Number(y)
                       /\ Number(Result.rem) = Number(x) % Number(y)
                       /\ Plus(Times(Result.quot, y), Result.rem) = x
    BY DEF DividesExactly
  <2>. DEFINE qw == Result.quot
              rw == Result.rem
              X == Number(x)
              Y == Number(y)
              F == Number(qw)
              R == Number(rw)
  <2>1. qw \in Words /\ rw \in Words /\ F = X \div Y /\ R = X % Y
    BY ResultIs DEF IsResult
  <2>2. x \in Words /\ y \in Words /\ X \in 0..Wide - 1 /\ Y \in Nat \ {0}
    <3>1. x \in Words /\ y \in Words \ {Zero}  BY DEF IInv
    <3>2. Number(y) # 0
      <4>1. y = Zero <=> Number(y) = Number(Zero)  BY <3>1, OneIs, WordsEqual
      <4>. QED  BY <3>1, <4>1, OneIs
    <3>. QED  BY <3>1, <3>2, WordsAre, WideIs256
  <2>. HIDE DEF qw, rw, X, Y
  <2>3. X = F * Y + R /\ R \in 0..Y - 1 /\ F * Y \in 0..X
    <3>1. X \in Int /\ X = (X \div Y) * Y + (X % Y) /\ X % Y \in 0..Y - 1
      BY <2>2, DivMod, WideIs256
    <3>2. F \in Nat
      <4>1. F \in 0..Wide - 1  BY <2>1, WordsAre
      <4>. QED  BY <4>1, WideIs256
    <3>. HIDE DEF F, R
    <3>3. X = F * Y + R /\ R \in 0..Y - 1 /\ F * Y \in Nat  BY <2>1, <2>2, <3>1, <3>2
    <3>. DEFINE e == F * Y
    <3>4. X = e + R /\ e \in Nat /\ R \in Nat  BY <2>2, <3>3
    <3>. HIDE DEF e
    <3>5. e \in 0..X  BY <3>4
    <3>. QED  BY <3>3, <3>5 DEF e
  <2>. DEFINE p == Times(qw, y)
  <2>4. p \in Words /\ Number(p) = F * Y
    <3>1. p \in Words /\ Number(p) = (F * Number(y)) % Wide  BY <2>1, <2>2, MultiplyIs
    <3>2. Number(y) = Y  BY DEF Y
    <3>. DEFINE e == F * Y
    <3>3. e \in 0..Wide - 1 /\ Wide \in Nat \ {0}  BY <2>2, <2>3, WideIs256
    <3>. HIDE DEF e
    <3>4. e % Wide = e  BY <3>3, ModSelf
    <3>. QED  BY <3>1, <3>2, <3>4 DEF e
  <2>. HIDE DEF p
  <2>5. Plus(p, rw) \in Words /\ Number(Plus(p, rw)) = (Number(p) + R) % Wide
    BY <2>1, <2>4, AddIs
  <2>6. Number(Plus(p, rw)) = X
    <3>1. Number(p) + R = X  BY <2>3, <2>4
    <3>2. X % Wide = X  BY <2>2, WideIs256, ModSelf
    <3>. QED  BY <2>5, <3>1, <3>2
  <2>7. Plus(p, rw) = x  BY <2>2, <2>5, <2>6, WordsEqual DEF X
  <2>. QED  BY <2>1, <2>7 DEF p, qw, rw, X, Y
<1>. QED  BY <1>1, IInvHolds, PTL

-------------------------------------------------------------------------------
(* Signed numbers.                                                             *)

(* HalfWide of the numbers are negative.                                           *)
HalfWide == (B \div 2) * (Full * B)

LEMMA HalfIs ==
    /\ HalfWide \in Nat \ {0} /\ HalfWide \in Int
    /\ HalfWide + HalfWide = Wide /\ Wide \in Nat
<1>. DEFINE h == B \div 2
            p == Full * B
<1>1. B = h + h /\ h \in Nat \ {0}
  <2>1. W - 1 \in Nat /\ (W - 1) + 1 = W  BY Base
  <2>2. B = 2 * 2^(W - 1)  BY <2>1, PowerDoubles DEF B
  <2>. DEFINE e == 2^(W - 1)
  <2>3. e \in Nat \ {0}  BY <2>1, PowerPositive
  <2>4. B = 2 * e  BY <2>2
  <2>. HIDE DEF e
  <2>5. (2 * e) \div 2 = e  BY <2>3
  <2>6. h = e  BY <2>4, <2>5
  <2>. QED  BY <2>3, <2>4, <2>6
<1>2. p \in Nat \ {0} /\ Wide = B * p
  <2>. DEFINE f == Full
              b == B
  <2>1. f \in Nat \ {0} /\ b \in Nat \ {0} /\ f = b * b /\ Wide = f * f
    BY FullIs, Base, WideIs256 DEF Full
  <2>. HIDE DEF f, b
  <2>2. f * b \in Nat \ {0} /\ f * f = b * (f * b)  BY <2>1
  <2>. QED  BY <2>1, <2>2 DEF f, b
<1>. HIDE DEF h, p
<1>3. h * p \in Nat \ {0} /\ (h + h) * p = h * p + h * p  BY <1>1, <1>2
<1>. QED  BY <1>1, <1>2, <1>3, WideIs256 DEF HalfWide, h, p

LEMMA NegativeIs ==
    ASSUME NEW a \in Words
    PROVE  Negative(a) <=> Number(a) >= HalfWide
<1>. DEFINE h == B \div 2
            p == Full * B
            b == B
            a0 == a[0]
            a1 == a[1]
            a2 == a[2]
            a3 == a[3]
            l == a0 + b * (a1 + b * a2)
<1>1. /\ a0 \in 0..b - 1 /\ a1 \in 0..b - 1 /\ a2 \in 0..b - 1 /\ a3 \in 0..b - 1
      /\ Number(a) = a0 + b * (a1 + b * (a2 + b * a3)) /\ b \in Nat \ {0} /\ b \in Int
      /\ p = (b * b) * b
  BY WordsIn, Base DEF Full
<1>2. h \in Int  BY Base
<1>. HIDE DEF h, a0, a1, a2, a3, b
<1>3. Number(a) = a3 * ((b * b) * b) + l /\ l \in Int  BY <1>1
<1>4. l \in 0..(b * b) * b - 1
  <2>. DEFINE t == a1 + b * a2
  <2>1. t \in 0..b * b - 1
    <3>1. a2 * b + a1 \in 0..b * b - 1  BY <1>1, LimbsIn
    <3>2. t = a2 * b + a1  BY <1>1
    <3>. QED  BY <3>1, <3>2
  <2>2. l = a0 + b * t  OBVIOUS
  <2>. DEFINE e == b * b
  <2>3. e \in Int /\ t \in Int /\ t + 1 <= e /\ t >= 0  BY <1>1, <2>1
  <2>. HIDE DEF t, e, l
  <2>4. b * (t + 1) <= b * e /\ b * (t + 1) = b * t + b /\ b * e = e * b /\ b * t >= 0
        /\ b * t \in Int /\ e * b \in Int
    BY <1>1, <2>3
  <2>5. l >= 0 /\ l <= e * b - 1  BY <1>1, <2>2, <2>4
  <2>. QED  BY <1>3, <2>4, <2>5 DEF e
<1>5. HalfWide = h * p  BY DEF HalfWide, h, b
<1>6. Negative(a) <=> a3 >= h  BY DEF Negative, N, a3, h
<1>7. p \in Nat \ {0} /\ Number(a) = a3 * p + l /\ l \in 0..p - 1
  <2>. DEFINE e == b * b
  <2>1. e \in Nat \ {0}  BY <1>1
  <2>2. p = e * b  BY <1>1
  <2>. HIDE DEF e
  <2>3. e * b \in Nat \ {0}  BY <1>1, <2>1
  <2>. HIDE DEF l, p
  <2>. QED  BY <1>1, <1>3, <1>4, <2>2, <2>3
<1>. HIDE DEF l, p
<1>8. a3 \in Int  BY <1>1
<1>9. a3 * p + l >= h * p <=> a3 >= h
  <2>1. CASE a3 >= h
    <3>1. a3 * p >= h * p /\ a3 * p \in Int /\ h * p \in Int  BY <1>2, <1>7, <1>8, <2>1
    <3>. QED  BY <1>7, <2>1, <3>1
  <2>2. CASE a3 + 1 <= h
    <3>1. (a3 + 1) * p <= h * p /\ (a3 + 1) * p = a3 * p + p /\ a3 * p \in Int /\ h * p \in Int
      BY <1>2, <1>7, <1>8, <2>2
    <3>2. ~(a3 * p + l >= h * p)
      <4>. DEFINE e == a3 * p
                  g == h * p
      <4>1. e + p <= g /\ e \in Int /\ g \in Int  BY <3>1
      <4>. HIDE DEF e, g
      <4>2. ~(e + l >= g)  BY <1>7, <4>1
      <4>. QED  BY <4>2 DEF e, g
    <3>3. ~(a3 >= h)  BY <1>2, <1>8, <2>2
    <3>. QED  BY <3>2, <3>3
  <2>. QED  BY <1>2, <1>8, <2>1, <2>2
<1>. QED  BY <1>5, <1>6, <1>7, <1>9

LEMMA AbsoluteIs ==
    ASSUME NEW a \in Words
    PROVE  /\ Absolute(a) \in Words /\ Number(Absolute(a)) \in 0..HalfWide
           /\ Negative(a) \in BOOLEAN /\ Number(a) \in Int
           /\ Negative(a) => Number(Absolute(a)) = Wide - Number(a)
           /\ ~Negative(a) => Number(Absolute(a)) = Number(a) /\ Number(a) < HalfWide
           /\ Signed(a) = IF Negative(a) THEN -Number(Absolute(a)) ELSE Number(Absolute(a))
<1>. DEFINE n == Number(a)
<1>1. /\ n \in 0..Wide - 1 /\ HalfWide \in Nat \ {0} /\ HalfWide + HalfWide = Wide
      /\ Wide \in Nat \ {0}
  BY WordsAre, HalfIs
<1>2. (Negative(a) <=> n >= HalfWide) /\ Negative(a) \in BOOLEAN  BY NegativeIs DEF Negative
<1>3. CASE Negative(a)
  <2>1. Absolute(a) = Negate(a)  BY <1>3 DEF Absolute
  <2>2. Negate(a) \in Words /\ Number(Negate(a)) = (-n) % Wide  BY NegateIs
  <2>3. Signed(a) = n - Wide  BY <1>3 DEF Signed
  <2>. HIDE DEF n
  <2>4. (-n) % Wide = Wide - n
    <3>. DEFINE e == Wide - n
    <3>1. e \in 0..Wide - 1 /\ -n = (-1) * Wide + e /\ -1 \in Int  BY <1>1, <1>2, <1>3
    <3>. HIDE DEF e
    <3>2. ((-1) * Wide + e) % Wide = e  BY <1>1, <3>1, ModIs
    <3>. QED  BY <3>1, <3>2 DEF e
  <2>5. Number(Absolute(a)) = Wide - n  BY <2>1, <2>2, <2>4
  <2>. DEFINE e == Number(Absolute(a))
  <2>. HIDE DEF e
  <2>6. e = Wide - n /\ e \in 0..HalfWide /\ Signed(a) = -e
    BY <1>1, <1>2, <1>3, <2>3, <2>5 DEF e
  <2>. QED  BY <1>1, <1>3, <2>1, <2>2, <2>6 DEF e, n
<1>4. CASE ~Negative(a)
  <2>1. Absolute(a) = a  BY <1>4 DEF Absolute
  <2>2. Signed(a) = n - 0  BY <1>4 DEF Signed
  <2>3. n < HalfWide /\ n \in 0..HalfWide /\ Signed(a) = n /\ n \in Int
    <3>. HIDE DEF n
    <3>. QED  BY <1>1, <1>2, <1>4, <2>2
  <2>. HIDE DEF n
  <2>4. Number(a) = n  BY DEF n
  <2>. QED  BY <1>2, <1>4, <2>1, <2>3, <2>4
<1>. QED  BY <1>2, <1>3, <1>4

LEMMA NegatedIs ==
    ASSUME NEW a \in Words, Number(a) <= HalfWide
    PROVE  /\ Negate(a) \in Words /\ Signed(Negate(a)) = -Number(a)
           /\ Number(Absolute(Negate(a))) = Number(a)
<1>. DEFINE n == Number(a)
            b == Negate(a)
            m == Number(b)
            k == Number(Absolute(b))
<1>1. /\ n \in 0..HalfWide /\ HalfWide \in Nat \ {0} /\ HalfWide + HalfWide = Wide
      /\ Wide \in Nat \ {0}
  <2>1. n \in 0..Wide - 1  BY WordsAre
  <2>. QED  BY <2>1, HalfIs
<1>2. b \in Words /\ m = (-n) % Wide  BY NegateIs
<1>. HIDE DEF b
<1>3. /\ Negative(b) \in BOOLEAN /\ m \in Int /\ (Negative(b) <=> m >= HalfWide)
      /\ Negative(b) => k = Wide - m
      /\ ~Negative(b) => k = m
      /\ Signed(b) = IF Negative(b) THEN -k ELSE k
  BY <1>2, AbsoluteIs, NegativeIs
<1>. HIDE DEF n, m, k
<1>4. CASE n = 0
  <2>1. m = 0
    <3>1. -n = 0 /\ 0 \in 0..Wide - 1
      <4>1. n \in Int /\ n <= 0 /\ n >= 0  BY <1>1, <1>4
      <4>. QED  BY <1>1, <4>1
    <3>2. 0 % Wide = 0  BY <1>1, <3>1, ModSelf
    <3>. QED  BY <1>2, <3>1, <3>2
  <2>2. k = 0 /\ Signed(b) = 0 /\ -n = 0
    <3>1. ~Negative(b)  BY <1>1, <1>3, <2>1
    <3>2. k = 0 /\ k \in Int /\ Signed(b) = k  BY <1>3, <2>1, <3>1
    <3>3. n \in Int /\ n <= 0 /\ n >= 0  BY <1>1, <1>4
    <3>4. -n = 0  BY <3>3
    <3>. QED  BY <3>2, <3>4
  <2>. QED  BY <1>2, <1>4, <2>2 DEF b, n, k
<1>5. CASE n # 0
  <2>1. m = Wide - n
    <3>. DEFINE e == Wide - n
    <3>1. e \in 0..Wide - 1 /\ -n = (-1) * Wide + e /\ -1 \in Int  BY <1>1, <1>5
    <3>. HIDE DEF e
    <3>2. ((-1) * Wide + e) % Wide = e  BY <1>1, <3>1, ModIs
    <3>. QED  BY <1>2, <3>1, <3>2 DEF e
  <2>2. Negative(b) /\ k = n /\ Signed(b) = -n  BY <1>1, <1>3, <1>5, <2>1
  <2>. QED  BY <1>2, <2>2 DEF b, n, k
<1>. QED  BY <1>4, <1>5

(* One pair of operands.                                                       *)
Truncates(u, v, res, a, d) ==
    /\ (Signed(res.quot) * Signed(v) + Signed(res.rem) - Signed(u)) % Wide = 0
    /\ Signed(res.rem) * Signed(u) >= 0
    /\ Number(Absolute(res.rem)) < d
    /\ Number(Absolute(res.quot)) = a \div d

LEMMA SignedIs ==
    ASSUME NEW u \in Words, NEW v \in Words, NEW res,
           IsResult(res, Number(Absolute(u)), Number(Absolute(v))),
           Number(Absolute(v)) # 0
    PROVE  Truncates(u, v, sdivrem(u, v, res), Number(Absolute(u)), Number(Absolute(v)))
<1>. DEFINE X == Number(Absolute(u))
            Y == Number(Absolute(v))
            F == Number(res.quot)
            R == Number(res.rem)
            qw == sdivrem(u, v, res).quot
            rw == sdivrem(u, v, res).rem
            su == IF Negative(u) THEN -1 ELSE 1
            sv == IF Negative(v) THEN -1 ELSE 1
<1>1. /\ X \in 0..HalfWide /\ Y \in 0..HalfWide /\ Y # 0
      /\ HalfWide \in Nat \ {0} /\ HalfWide + HalfWide = Wide
      /\ Wide \in Nat \ {0}
  BY AbsoluteIs, HalfIs
<1>2. Signed(u) = su * X /\ Signed(v) = sv * Y
  <2>1. Signed(u) = IF Negative(u) THEN -X ELSE X  BY AbsoluteIs
  <2>2. Signed(v) = IF Negative(v) THEN -Y ELSE Y  BY AbsoluteIs
  <2>. HIDE DEF X, Y
  <2>3. (-1) * X = -X /\ 1 * X = X /\ (-1) * Y = -Y /\ 1 * Y = Y  BY <1>1
  <2>. QED  BY <2>1, <2>2, <2>3
<1>3. su \in {-1, 1} /\ sv \in {-1, 1}  OBVIOUS
<1>4. /\ res.quot \in Words /\ res.rem \in Words /\ F = X \div Y /\ R = X % Y
      /\ F \in Nat /\ R \in Nat
  <2>1. res.quot \in Words /\ res.rem \in Words /\ F = X \div Y /\ R = X % Y
    BY DEF IsResult
  <2>. QED  BY <2>1, WordsAre, WideIs256
<1>. HIDE DEF X, Y, F, R
<1>5. /\ X = F * Y + R /\ R < Y /\ F <= X /\ F * Y \in Nat
  <2>1. X \in Int /\ Y \in Nat \ {0}  BY <1>1
  <2>2. X = (X \div Y) * Y + (X % Y) /\ X % Y \in 0..Y - 1  BY <2>1, DivMod
  <2>3. X = F * Y + R /\ R \in 0..Y - 1  BY <1>4, <2>2
  <2>4. F <= F * Y /\ F * Y \in Nat
    <3>1. 1 <= Y /\ Y \in Nat  BY <2>1
    <3>. QED  BY <1>4, <3>1, TimesOne
  <2>. DEFINE e == F * Y
  <2>5. e \in Nat /\ F <= e /\ X = e + R  BY <2>3, <2>4
  <2>. HIDE DEF e
  <2>6. F <= X  BY <1>4, <2>5
  <2>. QED  BY <1>1, <1>4, <2>3, <2>4, <2>6
<1>6. R < HalfWide /\ F <= HalfWide  BY <1>1, <1>4, <1>5
(* The remainder.                                                              *)
<1>7. Signed(rw) = su * R /\ Number(Absolute(rw)) = R
  <2>1. CASE Negative(u)
    <3>1. rw = Negate(res.rem)  BY <2>1 DEF sdivrem
    <3>2. Number(res.rem) <= HalfWide  BY <1>1, <1>4, <1>6 DEF R
    <3>3. Signed(Negate(res.rem)) = -Number(res.rem)
          /\ Number(Absolute(Negate(res.rem))) = Number(res.rem)
      BY <1>4, <3>2, NegatedIs
    <3>4. (-1) * R = -R  BY <1>4
    <3>. QED  BY <2>1, <3>1, <3>3, <3>4 DEF R
  <2>2. CASE ~Negative(u)
    <3>1. rw = res.rem  BY <2>2 DEF sdivrem
    <3>2. ~Negative(res.rem)
      <4>1. ~(Number(res.rem) >= HalfWide)  BY <1>1, <1>4, <1>6 DEF R
      <4>. QED  BY <1>4, <4>1, NegativeIs
    <3>3. Signed(res.rem) = Number(res.rem) /\ Number(Absolute(res.rem)) = Number(res.rem)
      BY <1>4, <3>2, AbsoluteIs
    <3>4. 1 * R = R  BY <1>4
    <3>. QED  BY <2>2, <3>1, <3>3, <3>4 DEF R
  <2>. QED  BY <2>1, <2>2
(* The quotient, but for a multiple of 2^256.                                  *)
<1>8. /\ \E m \in Int : Signed(qw) = (su * sv) * F + m * Wide
      /\ Number(Absolute(qw)) = F
  <2>1. CASE Negative(u) # Negative(v)
    <3>1. qw = Negate(res.quot)  BY <2>1 DEF sdivrem
    <3>2. Number(res.quot) <= HalfWide  BY <1>6 DEF F
    <3>3. Signed(Negate(res.quot)) = -Number(res.quot)
          /\ Number(Absolute(Negate(res.quot))) = Number(res.quot)
      BY <1>4, <3>2, NegatedIs
    <3>4. su * sv = -1
      <4>1. Negative(u) \in BOOLEAN /\ Negative(v) \in BOOLEAN  BY AbsoluteIs
      <4>2. (su = -1 /\ sv = 1) \/ (su = 1 /\ sv = -1)  BY <2>1, <4>1
      <4>. HIDE DEF su, sv
      <4>. QED  BY <4>2
    <3>5. -F = (-1) * F + 0 * Wide /\ 0 \in Int  BY <1>1, <1>4
    <3>. QED  BY <3>1, <3>3, <3>4, <3>5 DEF F
  <2>2. CASE Negative(u) = Negative(v)
    <3>1. qw = res.quot  BY <2>2 DEF sdivrem
    <3>2. su * sv = 1
      <4>1. (su = -1 /\ sv = -1) \/ (su = 1 /\ sv = 1)  BY <2>2
      <4>. HIDE DEF su, sv
      <4>. QED  BY <4>1
    <3>3. CASE Negative(res.quot)
      <4>1. Number(Absolute(res.quot)) = Wide - F /\ Signed(res.quot) = -Number(Absolute(res.quot))
        BY <1>4, <3>3, AbsoluteIs DEF F
      <4>2. F >= HalfWide  BY <1>4, <3>3, NegativeIs DEF F
      <4>3. F = HalfWide  BY <1>1, <1>4, <1>6, <4>2
      <4>4. Number(Absolute(qw)) = F  BY <1>1, <3>1, <4>1, <4>3
      <4>5. -F = 1 * F + (-1) * Wide /\ -1 \in Int  BY <1>1, <4>3
      <4>6. Signed(qw) = (su * sv) * F + (-1) * Wide  BY <3>1, <3>2, <4>1, <4>4, <4>5
      <4>. QED  BY <4>4, <4>5, <4>6
    <3>4. CASE ~Negative(res.quot)
      <4>1. Signed(res.quot) = F /\ Number(Absolute(res.quot)) = F
        BY <1>4, <3>4, AbsoluteIs DEF F
      <4>2. F = 1 * F + 0 * Wide /\ 0 \in Int  BY <1>1, <1>4
      <4>. QED  BY <3>1, <3>2, <4>1, <4>2
    <3>. QED  BY <3>3, <3>4
  <2>. QED  BY <2>1, <2>2
<1>. HIDE DEF su, sv, qw, rw
<1>9. PICK m \in Int : Signed(qw) = (su * sv) * F + m * Wide  BY <1>8
<1>10. (Signed(qw) * Signed(v) + Signed(rw) - Signed(u)) % Wide = 0
  <2>. DEFINE k == m * (sv * Y)
              V == Wide
  <2>1. X \in Int /\ Y \in Int /\ F \in Int /\ R \in Int /\ V \in Nat \ {0} /\ V \in Int
    BY <1>1, <1>4
  <2>. HIDE DEF V
  <2>2. ((su * sv) * F + m * V) * (sv * Y) + su * R - su * X = k * V
    <3>0. sv \in Int /\ su \in Int /\ sv * sv = 1  BY <1>3
    <3>1. ((su * sv) * F + m * V) * (sv * Y)
            = (su * (sv * sv)) * (F * Y) + (m * (sv * Y)) * V
      BY <2>1, <3>0
    <3>2. (su * 1) * (F * Y) + su * R - su * X = su * (F * Y + R - X)  BY <2>1, <3>0
    <3>3. F * Y + R - X = 0
      <4>. DEFINE e == F * Y
      <4>1. e \in Int /\ X = e + R  BY <1>5
      <4>. HIDE DEF e
      <4>2. e + R - X = 0  BY <2>1, <4>1
      <4>. QED  BY <4>2 DEF e
    <3>. DEFINE e1 == (su * 1) * (F * Y)
                e2 == k * V
                e3 == su * R
                e4 == su * X
    <3>4. e1 + e3 - e4 = 0
      <4>1. su * 0 = 0  BY <3>0
      <4>. QED  BY <3>2, <3>3, <4>1
    <3>5. ((su * sv) * F + m * V) * (sv * Y) = e1 + e2  BY <3>0, <3>1
    <3>6. e1 \in Int /\ e2 \in Int /\ e3 \in Int /\ e4 \in Int
      <4>1. F * Y \in Int /\ su * 1 \in Int /\ sv * Y \in Int  BY <2>1, <3>0
      <4>2. k \in Int  BY <4>1
      <4>. HIDE DEF k
      <4>. QED  BY <2>1, <3>0, <4>1, <4>2
    <3>. HIDE DEF e1, e2, e3, e4
    <3>7. (e1 + e2) + e3 - e4 = e2  BY <3>4, <3>6
    <3>. QED  BY <3>5, <3>7 DEF e2, e3, e4
  <2>3. k \in Int
    <3>1. sv * Y \in Int  BY <1>3, <2>1
    <3>. QED  BY <3>1
  <2>. HIDE DEF k
  <2>4. (k * V) % V = 0
    <3>1. 0 \in 0..V - 1 /\ k * V + 0 = k * V  BY <2>1, <2>3
    <3>2. (k * V + 0) % V = 0  BY <2>1, <2>3, <3>1, ModIs
    <3>. QED  BY <3>1, <3>2
  <2>. QED  BY <1>2, <1>7, <1>9, <2>2, <2>4 DEF V
<1>11. Signed(rw) * Signed(u) >= 0
  <2>1. X \in Nat /\ R \in Nat /\ su \in Int /\ su * su = 1  BY <1>1, <1>3, <1>4
  <2>2. (su * R) * (su * X) = (su * su) * (R * X) /\ R * X \in Nat  BY <2>1
  <2>3. 1 * (R * X) >= 0  BY <2>2
  <2>. QED  BY <1>2, <1>7, <2>1, <2>2, <2>3
<1>. DEFINE res2 == sdivrem(u, v, res)
<1>12. qw = res2.quot /\ rw = res2.rem  BY DEF qw, rw
<1>. HIDE DEF res2
<1>13. Truncates(u, v, res2, X, Y)
  BY <1>4, <1>5, <1>7, <1>8, <1>10, <1>11, <1>12 DEF Truncates
<1>. QED  BY <1>13 DEF res2, X, Y

(* int256 division, the sign taken off and put back: the quotient truncates    *)
(* toward zero, the remainder has the numerator's sign, and only the least     *)
(* number by -1 wraps.                                                         *)
THEOREM SignsComeBack == Spec => []SignedTruncates
<1>1. IInv => SignedTruncates
  <2>. SUFFICES ASSUME IInv, Done, NEW u \in {x, Negate(x)}, NEW v \in {y, Negate(y)},
                       x = Absolute(u), y = Absolute(v)
                PROVE  Truncates(u, v, sdivrem(u, v, Result), Number(x), Number(y))
    BY DEF SignedTruncates, Truncates
  <2>1. x \in Words /\ y \in Words \ {Zero}  BY DEF IInv
  <2>2. u \in Words /\ v \in Words  BY <2>1, NegateIs
  <2>3. IsResult(Result, Number(x), Number(y))  BY ResultIs
  <2>4. Number(y) # 0
    <3>1. y = Zero <=> Number(y) = Number(Zero)  BY <2>1, OneIs, WordsEqual
    <3>. QED  BY <2>1, <3>1, OneIs
  <2>5. Number(x) = Number(Absolute(u)) /\ Number(y) = Number(Absolute(v))  OBVIOUS
  <2>6. Truncates(u, v, sdivrem(u, v, Result), Number(Absolute(u)), Number(Absolute(v)))
    BY <2>2, <2>3, <2>4, <2>5, SignedIs
  <2>. QED  BY <2>5, <2>6
<1>. QED  BY <1>1, IInvHolds, PTL

-------------------------------------------------------------------------------
(* uint128 with words twice as wide: all of Int128Proofs, and each operator of *)
(* Nibbles is the one it speaks of.                                            *)

Doubled == INSTANCE Int128Proofs WITH W <- 2 * W

LEMMA DoubleWidth == 2 * W \in Nat \ {0} /\ (2 * W) % 2 = 0
BY Base

LEMMA SameWords ==
    /\ Doubled!B = Nibbles!B /\ Doubled!Half = Nibbles!Half /\ Doubled!Word = Nibbles!Word
    /\ Doubled!uint128 = Nibbles!uint128 /\ Doubled!zero = Nibbles!zero
BY DEF Doubled!B, Nibbles!B, Doubled!Half, Nibbles!Half, Doubled!Word, Nibbles!Word,
       Doubled!uint128, Nibbles!uint128, Doubled!zero, Nibbles!zero

LEMMA SameArithmetic ==
    ASSUME NEW a, NEW c
    PROVE  /\ Doubled!Val(a) = Nibbles!Val(a) /\ Doubled!wide(a) = Nibbles!wide(a)
           /\ Doubled!wadd(a, c) = Nibbles!wadd(a, c) /\ Doubled!wsub(a, c) = Nibbles!wsub(a, c)
           /\ Doubled!wmul(a, c) = Nibbles!wmul(a, c) /\ Doubled!wshl(a, c) = Nibbles!wshl(a, c)
           /\ Doubled!wshr(a, c) = Nibbles!wshr(a, c) /\ Doubled!Bit(a) = Nibbles!Bit(a)
           /\ Doubled!umul(a, c) = Nibbles!umul(a, c)
           /\ Doubled!less(a, c) = Nibbles!less(a, c) /\ Doubled!atmost(a, c) = Nibbles!atmost(a, c)
           /\ Doubled!wclz(a) = Nibbles!wclz(a)
           /\ Doubled!reciprocal_2by1(a) = Nibbles!reciprocal_2by1(a)
<1>1. /\ Doubled!Val(a) = Nibbles!Val(a) /\ Doubled!wide(a) = Nibbles!wide(a)
      /\ Doubled!wadd(a, c) = Nibbles!wadd(a, c) /\ Doubled!wsub(a, c) = Nibbles!wsub(a, c)
      /\ Doubled!wmul(a, c) = Nibbles!wmul(a, c) /\ Doubled!wshl(a, c) = Nibbles!wshl(a, c)
      /\ Doubled!wshr(a, c) = Nibbles!wshr(a, c) /\ Doubled!umul(a, c) = Nibbles!umul(a, c)
      /\ Doubled!reciprocal_2by1(a) = Nibbles!reciprocal_2by1(a)
  BY SameWords
     DEF Doubled!Val, Nibbles!Val, Doubled!wide, Nibbles!wide, Doubled!wadd, Nibbles!wadd,
         Doubled!wsub, Nibbles!wsub, Doubled!wmul, Nibbles!wmul, Doubled!wshl, Nibbles!wshl,
         Doubled!wshr, Nibbles!wshr, Doubled!umul, Nibbles!umul,
         Doubled!reciprocal_2by1, Nibbles!reciprocal_2by1
<1>2. Doubled!Bit(a) = Nibbles!Bit(a)  BY DEF Doubled!Bit, Nibbles!Bit
<1>3. Doubled!less(a, c) = Nibbles!less(a, c) /\ Doubled!atmost(a, c) = Nibbles!atmost(a, c)
  BY DEF Doubled!less, Nibbles!less, Doubled!atmost, Nibbles!atmost
<1>4. Doubled!wclz(a) = Nibbles!wclz(a)  BY DEF Doubled!wclz, Nibbles!wclz
<1>. QED  BY <1>1, <1>2, <1>3, <1>4

LEMMA SameSums ==
    ASSUME NEW a, NEW c
    PROVE  /\ Doubled!plus(a, c) = Nibbles!plus(a, c) /\ Doubled!minus(a, c) = Nibbles!minus(a, c)
           /\ Doubled!negate(a) = Nibbles!negate(a) /\ Doubled!times(a, c) = Nibbles!times(a, c)
           /\ Doubled!shl(a, c) = Nibbles!shl(a, c) /\ Doubled!shr(a, c) = Nibbles!shr(a, c)
           /\ Doubled!clz(a) = Nibbles!clz(a)
           /\ Doubled!constexpr_umul(a, c) = Nibbles!constexpr_umul(a, c)
<1>1. Doubled!plus(a, c) = Nibbles!plus(a, c)
  BY SameArithmetic DEF Doubled!plus, Nibbles!plus
<1>2. \A d, e : Doubled!minus(d, e) = Nibbles!minus(d, e)
  BY SameArithmetic DEF Doubled!minus, Nibbles!minus
<1>3. Doubled!negate(a) = Nibbles!negate(a)
  BY <1>2, SameWords DEF Doubled!negate, Nibbles!negate
<1>4. Doubled!times(a, c) = Nibbles!times(a, c)
  BY SameArithmetic DEF Doubled!times, Nibbles!times
<1>5. Doubled!shl(a, c) = Nibbles!shl(a, c)
  BY SameWords, SameArithmetic DEF Doubled!shl, Nibbles!shl
<1>6. Doubled!shr(a, c) = Nibbles!shr(a, c)
  BY SameWords, SameArithmetic DEF Doubled!shr, Nibbles!shr
<1>7. Doubled!clz(a) = Nibbles!clz(a)
  BY SameArithmetic DEF Doubled!clz, Nibbles!clz
<1>8. Doubled!constexpr_umul(a, c) = Nibbles!constexpr_umul(a, c)
  BY SameWords, SameArithmetic DEF Doubled!constexpr_umul, Nibbles!constexpr_umul
<1>. QED  BY <1>1, <1>2, <1>3, <1>4, <1>5, <1>6, <1>7, <1>8

LEMMA SameReciprocal ==
    ASSUME NEW d
    PROVE  Doubled!reciprocal_3by2(d) = Nibbles!reciprocal_3by2(d)
BY SameArithmetic DEF Doubled!reciprocal_3by2, Nibbles!reciprocal_3by2

LEMMA SameSteps ==
    /\ \A u, d, v : Doubled!udivrem_2by1(u, d, v) = Nibbles!udivrem_2by1(u, d, v)
    /\ \A u2, u1, u0, d, v :
         Doubled!udivrem_3by2(u2, u1, u0, d, v) = Nibbles!udivrem_3by2(u2, u1, u0, d, v)
<1>1. ASSUME NEW u, NEW d, NEW v
      PROVE  Doubled!udivrem_2by1(u, d, v) = Nibbles!udivrem_2by1(u, d, v)
  BY SMTT(30), SameArithmetic, SameSums DEF Doubled!udivrem_2by1, Nibbles!udivrem_2by1
<1>2. ASSUME NEW u2, NEW u1, NEW u0, NEW d, NEW v
      PROVE  Doubled!udivrem_3by2(u2, u1, u0, d, v) = Nibbles!udivrem_3by2(u2, u1, u0, d, v)
  BY SameArithmetic, SameSums DEF Doubled!udivrem_3by2, Nibbles!udivrem_3by2
<1>. QED  BY <1>1, <1>2

LEMMA SameDivision ==
    ASSUME NEW a, NEW c
    PROVE  Doubled!udivrem128(a, c) = Nibbles!udivrem128(a, c)
BY SMTT(30), SameWords, SameArithmetic, SameSums, SameReciprocal, SameSteps
   DEF Doubled!udivrem128, Nibbles!udivrem128

LEMMA DoubledFull == Doubled!Full = Wide /\ N * W = 2 * (2 * W)
<1>1. N * W = 2 * (2 * W)  BY Wider
<1>2. Doubled!Full = 2^(2 * (2 * W))  BY DoubleWidth, Doubled!FullIs
<1>. QED  BY <1>1, <1>2 DEF Wide

(* A number of four words as two of twice the width.                           *)
LEMMA RegroupedIs ==
    ASSUME NEW w \in Words
    PROVE  Regrouped(w) \in Nibbles!uint128 /\ Nibbles!Val(Regrouped(w)) = Number(w)
<1>. DEFINE h == Nibbles!B
            n == Number(w)
<1>1. h = Full /\ Place(2) = h
  <2>1. W * 2 = 2 * W  BY Base
  <2>. QED  BY <2>1, FullIs DEF Nibbles!B, Place
<1>2. h \in Nat \ {0} /\ n \in 0..h * h - 1  BY <1>1, FullIs, WideIs256, WordsAre
<1>3. n \div h \in 0..h - 1 /\ n % h \in 0..h - 1 /\ n = (n \div h) * h + (n % h)
  <2>. HIDE DEF h, n
  <2>. QED  BY <1>2, TwoLimbs
<1>4. Regrouped(w) = [hi |-> n \div h, lo |-> n % h]  BY <1>1 DEF Regrouped
<1>. DEFINE e == n \div h
            f == n % h
<1>5. e \in 0..h - 1 /\ f \in 0..h - 1 /\ n = e * h + f /\ Regrouped(w) = [hi |-> e, lo |-> f]
  BY <1>3, <1>4
<1>. HIDE DEF n, e, f
<1>6. [hi |-> e, lo |-> f] \in Nibbles!uint128 /\ Nibbles!Val([hi |-> e, lo |-> f]) = e * h + f
  BY <1>5 DEF Nibbles!uint128, Nibbles!Word, Nibbles!Val
<1>. QED  BY <1>5, <1>6 DEF n

(* What HalfWidth says, of any two operands.                                   *)
LEMMA HalvesAre ==
    ASSUME NEW a \in Nibbles!uint128, NEW b \in Nibbles!uint128, Nibbles!Val(b) # 0
    PROVE  /\ Nibbles!Val(Nibbles!udivrem128(a, b).quot) = Nibbles!Val(a) \div Nibbles!Val(b)
           /\ Nibbles!Val(Nibbles!udivrem128(a, b).rem) = Nibbles!Val(a) % Nibbles!Val(b)
           /\ Nibbles!Val(Nibbles!negate(a)) = (-Nibbles!Val(a)) % Wide
           /\ Nibbles!Val(Nibbles!times(a, b)) = (Nibbles!Val(a) * Nibbles!Val(b)) % Wide
           /\ Nibbles!constexpr_umul(a.lo, b.lo) = Nibbles!umul(a.lo, b.lo)
           /\ IF Nibbles!Val(a) = 0 THEN Nibbles!clz(a) = N * W
              ELSE /\ 2^(N * W - 1 - Nibbles!clz(a)) <= Nibbles!Val(a)
                   /\ Nibbles!Val(a) < 2^(N * W - Nibbles!clz(a))
<1>1. a \in Doubled!uint128 /\ b \in Doubled!uint128 /\ Doubled!Val(b) # 0
  BY SameWords, SameArithmetic
<1>2. Doubled!Quotient128(Doubled!udivrem128(a, b), Doubled!Val(a), Doubled!Val(b))
  BY <1>1, DoubleWidth, Doubled!Divide128
<1>3. /\ Nibbles!Val(Nibbles!udivrem128(a, b).quot) = Nibbles!Val(a) \div Nibbles!Val(b)
      /\ Nibbles!Val(Nibbles!udivrem128(a, b).rem) = Nibbles!Val(a) % Nibbles!Val(b)
  BY <1>2, SameArithmetic, SameDivision DEF Doubled!Quotient128
<1>4. Nibbles!Val(Nibbles!negate(a)) = (-Nibbles!Val(a)) % Wide
  <2>1. Doubled!Val(Doubled!negate(a)) = (-Doubled!Val(a)) % Doubled!Full
    BY <1>1, DoubleWidth, Doubled!NegationIs
  <2>. QED  BY <2>1, DoubledFull, SameArithmetic, SameSums
<1>5. Nibbles!Val(Nibbles!times(a, b)) = (Nibbles!Val(a) * Nibbles!Val(b)) % Wide
  <2>1. Doubled!Val(Doubled!times(a, b)) = (Doubled!Val(a) * Doubled!Val(b)) % Doubled!Full
    BY <1>1, DoubleWidth, Doubled!TimesIs
  <2>. QED  BY <2>1, DoubledFull, SameArithmetic, SameSums
<1>6. Nibbles!constexpr_umul(a.lo, b.lo) = Nibbles!umul(a.lo, b.lo)
  <2>1. a.lo \in Doubled!Word /\ b.lo \in Doubled!Word
    BY SameWords DEF Nibbles!uint128
  <2>2. Doubled!constexpr_umul(a.lo, b.lo) = Doubled!umul(a.lo, b.lo)
    BY <2>1, DoubleWidth, Doubled!PortableIs
  <2>. QED  BY <2>2, SameArithmetic, SameSums
<1>7. /\ Doubled!Val(a) = 0 => Doubled!clz(a) = 2 * (2 * W)
      /\ Doubled!Val(a) # 0 => /\ 2^(2 * (2 * W) - 1 - Doubled!clz(a)) <= Doubled!Val(a)
                               /\ Doubled!Val(a) < 2^(2 * (2 * W) - Doubled!clz(a))
  BY <1>1, DoubleWidth, Doubled!ClzIs
<1>8. IF Nibbles!Val(a) = 0 THEN Nibbles!clz(a) = N * W
      ELSE /\ 2^(N * W - 1 - Nibbles!clz(a)) <= Nibbles!Val(a)
           /\ Nibbles!Val(a) < 2^(N * W - Nibbles!clz(a))
  BY <1>7, DoubledFull, SameArithmetic, SameSums
<1>. QED  BY <1>3, <1>4, <1>5, <1>6, <1>8

(* A digit of three words by two.                                              *)
LEMMA DigitOfThree ==
    ASSUME NEW a \in Nibbles!uint128, NEW b \in Nibbles!uint128,
           b.hi >= Nibbles!B \div 2, Nibbles!Val(a) < Nibbles!Val(b), NEW u0 \in Nibbles!Word,
           NEW step, step = Nibbles!udivrem_3by2(a.hi, a.lo, u0, b, Nibbles!reciprocal_3by2(b))
    PROVE  /\ step.quot * Nibbles!Val(b) + Nibbles!Val(step.rem)
                = Nibbles!Val(a) * Nibbles!B + u0
           /\ Nibbles!Val(step.rem) < Nibbles!Val(b)
<1>. DEFINE h == Nibbles!B
            ah == a.hi
            al == a.lo
            bh == b.hi
<1>1. h = Full /\ h \in Nat \ {0} /\ h = 2 * (h \div 2)
  <2>1. 2 * W = (2 * W - 1) + 1 /\ 2 * W - 1 \in Nat  BY Base
  <2>. DEFINE e == 2 * W - 1
              f == 2^e
  <2>2. f \in Nat \ {0} /\ 2^(e + 1) = 2 * f  BY <2>1, PowerPositive, PowerDoubles
  <2>3. h = 2 * f  BY <2>1, <2>2 DEF Nibbles!B
  <2>. HIDE DEF f, h
  <2>4. h \in Nat \ {0} /\ h = 2 * (h \div 2)  BY <2>2, <2>3
  <2>. QED  BY <2>4, FullIs DEF h, Nibbles!B
<1>2. ah \in 0..h - 1 /\ al \in 0..h - 1 /\ bh \in 0..h - 1 /\ u0 \in 0..h - 1
      /\ Nibbles!Val(a) = ah * h + al
  BY DEF Nibbles!uint128, Nibbles!Word, Nibbles!Val
<1>3. ah \in Doubled!Word /\ al \in Doubled!Word /\ u0 \in Doubled!Word
      /\ b \in Doubled!uint128
  BY SameWords DEF Nibbles!uint128
<1>4. Doubled!Divisor2(b)
  <2>1. bh >= h \div 2  OBVIOUS
  <2>. HIDE DEF h, bh
  <2>2. h <= 2 * bh
    <3>1. h \div 2 \in Int /\ bh \in Int  BY <1>1, <1>2
    <3>. QED  BY <1>1, <2>1, <3>1
  <2>3. Doubled!B <= 2 * b.hi /\ b.hi \in Doubled!Word
    BY <2>2, SameWords DEF h, bh, Nibbles!uint128
  <2>. QED  BY <1>3, <2>3 DEF Doubled!Divisor2, Doubled!Divisor
<1>5. ah * Doubled!B + al < Doubled!Val(b)  BY <1>2, SameWords, SameArithmetic
<1>6. Doubled!Divides2(Doubled!udivrem_3by2(ah, al, u0, b, Doubled!reciprocal_3by2(b)),
                       Doubled!ThreeWords(ah, al, u0), b)
  BY <1>3, <1>4, <1>5, DoubleWidth, Doubled!Divide3by2
<1>7. Doubled!udivrem_3by2(ah, al, u0, b, Doubled!reciprocal_3by2(b)) = step
  BY SameReciprocal, SameSteps
<1>8. /\ Nibbles!Val(step.rem) < Nibbles!Val(b)
      /\ Doubled!ThreeWords(ah, al, u0) = step.quot * Nibbles!Val(b) + Nibbles!Val(step.rem)
  BY <1>6, <1>7, SameArithmetic DEF Doubled!Divides2
<1>9. Doubled!ThreeWords(ah, al, u0) = Nibbles!Val(a) * Nibbles!B + u0
  <2>1. Doubled!ThreeWords(ah, al, u0) = ah * (h * h) + al * h + u0
    BY SameWords DEF Doubled!ThreeWords, Doubled!Full
  <2>. HIDE DEF h, ah, al
  <2>2. ah * (h * h) + al * h = (ah * h + al) * h  BY <1>1, <1>2
  <2>. QED  BY <1>2, <2>1, <2>2 DEF h
<1>. QED  BY <1>8, <1>9

(* The division, product, negation and leading zeros of uint128 itself are     *)
(* those of whole numbers, and the portable product is the compiler's, for     *)
(* words of any width that four words can be regrouped to.                     *)
THEOREM HalvesAreNumbers == Spec => []HalfWidth
<1>1. IInv => HalfWidth
  <2>. DEFINE a == Regrouped(x)
              b == Regrouped(y)
  <2>. SUFFICES ASSUME IInv PROVE HalfWidth
    OBVIOUS
  <2>1. x \in Words /\ y \in Words /\ y # Zero  BY DEF IInv
  <2>2. a \in Nibbles!uint128 /\ b \in Nibbles!uint128 /\ Nibbles!Val(b) # 0
    <3>1. Number(y) # 0  BY <2>1, OneIs, WordsEqual
    <3>. QED  BY <2>1, <3>1, RegroupedIs
  <2>. HIDE DEF a, b
  <2>3. /\ Nibbles!Val(Nibbles!udivrem128(a, b).quot) = Nibbles!Val(a) \div Nibbles!Val(b)
        /\ Nibbles!Val(Nibbles!udivrem128(a, b).rem) = Nibbles!Val(a) % Nibbles!Val(b)
        /\ Nibbles!Val(Nibbles!negate(a)) = (-Nibbles!Val(a)) % Wide
        /\ Nibbles!Val(Nibbles!times(a, b)) = (Nibbles!Val(a) * Nibbles!Val(b)) % Wide
        /\ Nibbles!constexpr_umul(a.lo, b.lo) = Nibbles!umul(a.lo, b.lo)
        /\ IF Nibbles!Val(a) = 0 THEN Nibbles!clz(a) = N * W
           ELSE /\ 2^(N * W - 1 - Nibbles!clz(a)) <= Nibbles!Val(a)
                /\ Nibbles!Val(a) < 2^(N * W - Nibbles!clz(a))
    BY <2>2, HalvesAre
  <2>4. ASSUME b.hi >= Nibbles!B \div 2, Nibbles!Val(a) < Nibbles!Val(b),
               NEW u0 \in Nibbles!Word
        PROVE  LET step == Nibbles!udivrem_3by2(a.hi, a.lo, u0, b, Nibbles!reciprocal_3by2(b))
               IN /\ step.quot * Nibbles!Val(b) + Nibbles!Val(step.rem)
                       = Nibbles!Val(a) * Nibbles!B + u0
                  /\ Nibbles!Val(step.rem) < Nibbles!Val(b)
    BY <2>2, <2>4, DigitOfThree
  <2>. QED  BY <2>3, <2>4 DEF HalfWidth, a, b
<1>. QED  BY <1>1, IInvHolds, PTL

===============================================================================

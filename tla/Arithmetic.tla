------------------------------ MODULE Arithmetic ------------------------------
(* Lemmas on natural numbers the proofs about the SDK's numbers share.         *)
EXTENDS Integers, TLAPS, FiniteSetTheorems, WellFoundedInduction

-------------------------------------------------------------------------------
(* Natural numbers.                                                            *)

(* Induction, of a set: there is no least number out of it.                    *)
LEMMA NatInduct ==
    ASSUME NEW S \in SUBSET Nat, 0 \in S, \A n \in S : n + 1 \in S
    PROVE  S = Nat
<1>. SUFFICES ASSUME Nat \ S # {} PROVE FALSE
  OBVIOUS
<1>1. PICK x \in Nat \ S : \A y \in Nat \ S : ~ (<<y, x>> \in OpToRel(<, Nat))
  BY NatLessThanWellFounded, WFMin
<1>2. x \in Nat /\ x \notin S /\ \A y \in Nat \ S : ~ (y < x)
  BY <1>1 DEF OpToRel
<1>3. x - 1 \in Nat /\ x - 1 < x /\ (x - 1) + 1 = x
  <2>1. x \in Nat /\ x # 0  BY <1>2
  <2>. QED  BY <2>1
<1>4. x - 1 \in S  BY <1>2, <1>3
<1>. QED  BY <1>2, <1>3, <1>4

LEMMA DivMod ==
    ASSUME NEW a \in Int, NEW m \in Nat \ {0}
    PROVE  /\ a = (a \div m) * m + (a % m) /\ a \div m \in Int
           /\ a % m \in 0..m - 1
<1>1. a \div m \in Int /\ a % m \in 0..m - 1  OBVIOUS
<1>2. a = (a \div m) * m + (a % m)  OBVIOUS
<1>. QED  BY <1>1, <1>2

LEMMA ModIs ==
    ASSUME NEW k \in Int, NEW m \in Nat \ {0}, NEW r \in 0..m - 1
    PROVE  (k * m + r) % m = r
OBVIOUS

LEMMA ModShift ==
    ASSUME NEW a \in Int, NEW k \in Int, NEW m \in Nat \ {0}
    PROVE  (a + k * m) % m = a % m
<1>1. /\ a = (a \div m) * m + (a % m) /\ a \div m \in Int
      /\ a % m \in 0..m - 1
  BY DivMod
<1>2. (a \div m) + k \in Int
      /\ a + k * m = ((a \div m) + k) * m + (a % m)
  BY <1>1
<1>. QED  BY <1>1, <1>2, ModIs

(* A factor is not less than another than by it.                               *)
LEMMA TimesOne ==
    ASSUME NEW a \in Nat, NEW b \in Nat, 1 <= b
    PROVE  a <= a * b /\ a * b \in Nat
OBVIOUS

-------------------------------------------------------------------------------
(* Powers of two: the numbers of subsets.                                      *)

LEMMA Counts ==
    ASSUME NEW n \in Nat
    PROVE  IsFiniteSet(1..n) /\ Cardinality(1..n) = n
BY FS_Interval

LEMMA Power ==
    ASSUME NEW n \in Nat
    PROVE  /\ IsFiniteSet(SUBSET (1..n)) /\ Cardinality(SUBSET (1..n)) = 2^n
           /\ 2^n \in Nat
<1>1. IsFiniteSet(SUBSET (1..n)) /\ Cardinality(SUBSET (1..n)) = 2^n
  BY Counts, FS_SUBSET
<1>. QED  BY <1>1, FS_CardinalityType

(* The subsets that have the new element are as many as those that do not.     *)
LEMMA PowerDoubles ==
    ASSUME NEW n \in Nat
    PROVE  2^(n + 1) = 2 * 2^n
<1>. DEFINE S == SUBSET (1..n)
            T == SUBSET (1..(n + 1))
            with == T \ S
            f == [s \in S |-> s \cup {n + 1}]
<1>1. /\ IsFiniteSet(S) /\ Cardinality(S) = 2^n
      /\ IsFiniteSet(T) /\ Cardinality(T) = 2^(n + 1) /\ 2^n \in Nat
  <2>1. n + 1 \in Nat  OBVIOUS
  <2>. QED  BY <2>1, Power
<1>2. 1..(n + 1) = 1..n \cup {n + 1} /\ n + 1 \notin 1..n  OBVIOUS
<1>3. f \in Bijection(S, with)
  <2>1. f \in [S -> with]  BY <1>2
  <2>2. \A s, t \in S : f[s] = f[t] => s = t
    <3>. SUFFICES ASSUME NEW s \in S, NEW t \in S, s \cup {n + 1} = t \cup {n + 1}
                  PROVE  s = t
      OBVIOUS
    <3>. QED  BY <1>2
  <2>3. \A t \in with : \E s \in S : f[s] = t
    <3>. SUFFICES ASSUME NEW t \in with PROVE \E s \in S : f[s] = t
      OBVIOUS
    <3>1. n + 1 \in t /\ t \subseteq 1..n \cup {n + 1}  BY <1>2
    <3>2. t \ {n + 1} \in S /\ (t \ {n + 1}) \cup {n + 1} = t  BY <3>1
    <3>. QED  BY <3>2
  <2>. HIDE DEF f, S, with
  <2>. QED  BY <2>1, <2>2, <2>3 DEF Bijection, Injection, Surjection, IsInjective
<1>4. with \subseteq T /\ S \subseteq T  BY <1>2
<1>. HIDE DEF f, S, T
<1>5. ExistsBijection(S, with)  BY <1>3 DEF ExistsBijection
<1>6. IsFiniteSet(with) /\ Cardinality(with) = Cardinality(S)
  BY <1>1, <1>5, FS_Bijection
<1>7. Cardinality(T \ S) = Cardinality(T) - Cardinality(T \cap S)
  BY <1>1, FS_Difference
<1>8. T \cap S = S  BY <1>4
<1>. QED  BY <1>1, <1>6, <1>7, <1>8

LEMMA PowerPositive ==
    ASSUME NEW n \in Nat
    PROVE  2^n \in Nat \ {0}
<1>. DEFINE S == {m \in Nat : 2^m \in Nat \ {0}}
<1>1. 0 \in S  OBVIOUS
<1>2. ASSUME NEW m \in S PROVE m + 1 \in S
  <2>1. 2^(m + 1) = 2 * 2^m  BY PowerDoubles
  <2>. QED  BY <2>1
<1>3. S \in SUBSET Nat  OBVIOUS
<1>. HIDE DEF S
<1>4. S = Nat  BY <1>1, <1>2, <1>3, NatInduct
<1>. QED  BY <1>4 DEF S

LEMMA PowerAboveOne ==
    ASSUME NEW n \in Nat \ {0}
    PROVE  2^n \in Nat /\ 2 <= 2^n
<1>1. n - 1 \in Nat /\ (n - 1) + 1 = n  OBVIOUS
<1>2. 2^n = 2 * 2^(n - 1)  BY <1>1, PowerDoubles
<1>. QED  BY <1>1, <1>2, PowerPositive

LEMMA PowerSum ==
    ASSUME NEW m \in Nat, NEW n \in Nat
    PROVE  2^(m + n) = 2^m * 2^n
<1>. DEFINE S == {k \in Nat : 2^(m + k) = 2^m * 2^k}
<1>0. 2^m \in Nat  BY PowerPositive
<1>1. 0 \in S
  <2>1. m + 0 = m /\ 2^0 = 1 /\ 2^m * 1 = 2^m  BY <1>0
  <2>. QED  BY <2>1
<1>2. ASSUME NEW k \in S PROVE k + 1 \in S
  <2>1. 2^(k + 1) = 2 * 2^k /\ 2^((m + k) + 1) = 2 * 2^(m + k) /\ 2^k \in Nat
    BY PowerDoubles, PowerPositive
  <2>2. m + (k + 1) = (m + k) + 1  OBVIOUS
  <2>3. 2 * (2^m * 2^k) = 2^m * (2 * 2^k)  BY <1>0, <2>1
  <2>. QED  BY <2>1, <2>2, <2>3
<1>3. S \in SUBSET Nat  OBVIOUS
<1>. HIDE DEF S
<1>4. S = Nat  BY <1>1, <1>2, <1>3, NatInduct
<1>. QED  BY <1>4 DEF S

(* The largest number of b bits divides that of any multiple of b bits.        *)
LEMMA LargestDivides ==
    ASSUME NEW b \in Nat \ {0}, NEW n \in Nat
    PROVE  \E c \in Nat : 2^(b * n) - 1 = c * (2^b - 1)
<1>. DEFINE M == 2^b - 1
            S == {k \in Nat : \E c \in Nat : 2^(b * k) - 1 = c * M}
<1>0. 2^b \in Nat /\ M \in Nat /\ 2^b = M + 1  BY PowerPositive
<1>1. 0 \in S
  <2>1. b * 0 = 0 /\ 2^0 - 1 = 0 /\ 0 * M = 0  BY <1>0
  <2>. QED  BY <2>1
<1>2. ASSUME NEW k \in S PROVE k + 1 \in S
  <2>1. PICK c \in Nat : 2^(b * k) - 1 = c * M  OBVIOUS
  <2>2. b * k \in Nat /\ b * (k + 1) = b * k + b  OBVIOUS
  <2>3. 2^(b * (k + 1)) = 2^(b * k) * 2^b /\ 2^(b * k) \in Nat
    BY <2>2, PowerSum, PowerPositive
  <2>. HIDE DEF M
  <2>4. 2^(b * k) = c * M + 1  BY <1>0, <2>1, <2>3
  <2>5. (c * M + 1) * (M + 1) - 1 = (c * M + c + 1) * M  BY <1>0
  <2>6. c * M + c + 1 \in Nat  BY <1>0
  <2>7. 2^(b * (k + 1)) = (c * M + 1) * (M + 1)  BY <1>0, <2>3, <2>4
  <2>8. 2^(b * (k + 1)) - 1 = (c * M + c + 1) * M /\ k + 1 \in Nat
    BY <2>5, <2>7
  <2>. QED  BY <2>6, <2>8
<1>3. S \in SUBSET Nat  OBVIOUS
<1>. HIDE DEF S
<1>4. n \in S  BY <1>1, <1>2, <1>3, NatInduct
<1>. QED  BY <1>4 DEF S
-------------------------------------------------------------------------------
(* Remainders and quotients.                                                   *)

LEMMA DivModIs ==
    ASSUME NEW k \in Int, NEW m \in Nat \ {0}, NEW r \in 0..m - 1,
           NEW a \in Int, a = k * m + r
    PROVE  a \div m = k /\ a % m = r
<1>1. a % m = r  BY ModIs
<1>2. a = (a \div m) * m + (a % m) /\ a \div m \in Int  BY DivMod
<1>. DEFINE e == a \div m
<1>3. e \in Int /\ e * m = k * m  BY <1>1, <1>2
<1>. HIDE DEF e
<1>4. e = k  BY <1>3
<1>. QED  BY <1>1, <1>4 DEF e

LEMMA ModSelf ==
    ASSUME NEW m \in Nat \ {0}, NEW a \in 0..m - 1
    PROVE  a % m = a /\ a \div m = 0
<1>1. a = 0 * m + a /\ 0 \in Int /\ a \in Int  OBVIOUS
<1>. QED  BY <1>1, DivModIs

LEMMA ModPlus ==
    ASSUME NEW m \in Nat \ {0}, NEW a \in Int, NEW c \in Int
    PROVE  ((a % m) + c) % m = (a + c) % m
<1>. DEFINE e == a \div m
            r == a % m
<1>1. a = e * m + r /\ e \in Int /\ r \in Int  BY DivMod
<1>. HIDE DEF e, r
<1>2. a + c = (r + c) + e * m /\ r + c \in Int  BY <1>1
<1>3. ((r + c) + e * m) % m = (r + c) % m  BY <1>1, <1>2, ModShift, Zenon
<1>4. (r + c) % m = (a + c) % m  BY <1>2, <1>3, Zenon
<1>. QED  BY <1>4 DEF r

LEMMA ModTimes ==
    ASSUME NEW m \in Nat \ {0}, NEW a \in Int, NEW c \in Int
    PROVE  ((a % m) * c) % m = (a * c) % m
<1>. DEFINE e == a \div m
            r == a % m
<1>1. a = e * m + r /\ e \in Int /\ r \in Int  BY DivMod
<1>. HIDE DEF e, r
<1>2. a * c = r * c + (e * c) * m /\ r * c \in Int /\ e * c \in Int  BY <1>1
<1>3. (r * c + (e * c) * m) % m = (r * c) % m  BY <1>2, ModShift, Zenon
<1>4. (r * c) % m = (a * c) % m  BY <1>2, <1>3, Zenon
<1>. QED  BY <1>4 DEF r

LEMMA DivDiv ==
    ASSUME NEW a \in Nat, NEW m \in Nat \ {0}, NEW n \in Nat \ {0}
    PROVE  (a \div m) \div n = a \div (m * n)
<1>. DEFINE e == a \div m
            r == a % m
            f == e \div n
            t == e % n
<1>1. a = e * m + r /\ e \in Int /\ r \in 0..m - 1  BY DivMod
<1>2. e = f * n + t /\ f \in Int /\ t \in 0..n - 1  BY <1>1, DivMod
<1>. HIDE DEF e, r, f, t
<1>3. a = f * (m * n) + (t * m + r)
  <2>1. (f * n + t) * m = f * (m * n) + t * m  BY <1>2
  <2>. QED  BY <1>1, <1>2, <2>1
<1>4. m * n \in Nat \ {0}  OBVIOUS
<1>5. t * m + r \in 0..m * n - 1
  <2>1. (t + 1) * m <= n * m /\ (t + 1) * m = t * m + m /\ t * m \in Nat  BY <1>2
  <2>2. n * m = m * n /\ n * m \in Nat  OBVIOUS
  <2>. QED  BY <1>1, <2>1, <2>2
<1>6. a \div (m * n) = f  BY <1>2, <1>3, <1>4, <1>5, DivModIs
<1>. QED  BY <1>6 DEF e, f

(* A sum that wraps is less than what was added to.                            *)
SumOf(s, l, m, b) == s \in 0..b - 1 /\ l + m = s + (IF l > s THEN 1 ELSE 0) * b

LEMMA SumWraps ==
    ASSUME NEW b \in Nat \ {0}, NEW l \in 0..b - 1, NEW m \in 0..b - 1,
           NEW s, s = (l + m) % b
    PROVE  SumOf(s, l, m, b)
<1>1. CASE l + m < b
  <2>1. (l + m) % b = l + m
    <3>1. l + m \in 0..b - 1  BY <1>1
    <3>. QED  BY <3>1, ModSelf
  <2>. QED  BY <1>1, <2>1 DEF SumOf
<1>2. CASE l + m >= b
  <2>1. (l + m) % b = l + m - b
    <3>. DEFINE a == l + m
                v == l + m - b
    <3>1. v \in 0..b - 1 /\ a = 1 * b + v /\ a \in Int  BY <1>2
    <3>. HIDE DEF a, v
    <3>2. a % b = v  BY <3>1, DivModIs
    <3>. QED  BY <3>2 DEF a, v
  <2>. QED  BY <1>2, <2>1 DEF SumOf
<1>. QED  BY <1>1, <1>2 DEF SumOf

DifferenceOf(s, l, m, b) == s \in 0..b - 1 /\ l - m = s - (IF l < s THEN 1 ELSE 0) * b

LEMMA DifferenceWraps ==
    ASSUME NEW b \in Nat \ {0}, NEW l \in 0..b - 1, NEW m \in 0..b - 1,
           NEW s, s = (l - m) % b
    PROVE  DifferenceOf(s, l, m, b)
<1>1. CASE l >= m
  <2>1. (l - m) % b = l - m
    <3>1. l - m \in 0..b - 1  BY <1>1
    <3>. QED  BY <3>1, ModSelf
  <2>. QED  BY <1>1, <2>1 DEF DifferenceOf
<1>2. CASE l < m
  <2>1. (l - m) % b = l - m + b
    <3>. DEFINE a == l - m
                v == l - m + b
    <3>1. v \in 0..b - 1 /\ a = (-1) * b + v /\ a \in Int /\ -1 \in Int  BY <1>2
    <3>. HIDE DEF a, v
    <3>2. a % b = v  BY <3>1, DivModIs
    <3>. QED  BY <3>2 DEF a, v
  <2>. QED  BY <1>2, <2>1 DEF DifferenceOf
<1>. QED  BY <1>1, <1>2

(* A shift by s of V bits splits them, or is one by all of them and more.      *)
LEMMA PowerSplits ==
    ASSUME NEW V \in Nat \ {0}, NEW s \in Nat
    PROVE  /\ 2^s \in Nat \ {0} /\ 2^V \in Nat \ {0}
           /\ s < V => /\ 2^V = 2^s * 2^(V - s) /\ 2^(V - s) \in Nat \ {0}
                       /\ 2^(V - s) = 2^1 * 2^(V - 1 - s)
                       /\ 2^1 \in Nat \ {0} /\ 2^(V - 1 - s) \in Nat \ {0}
           /\ s >= V => 2^s = 2^V * 2^(s - V) /\ 2^(s - V) \in Nat \ {0}
<1>1. CASE s < V
  <2>1. /\ V - s \in Nat /\ V - 1 - s \in Nat /\ 1 \in Nat
        /\ s + (V - s) = V /\ 1 + (V - 1 - s) = V - s
    BY <1>1
  <2>2. 2^(s + (V - s)) = 2^s * 2^(V - s)  BY <2>1, PowerSum
  <2>3. 2^(1 + (V - 1 - s)) = 2^1 * 2^(V - 1 - s)  BY <2>1, PowerSum
  <2>4. /\ 2^s \in Nat \ {0} /\ 2^(V - s) \in Nat \ {0} /\ 2^1 \in Nat \ {0}
        /\ 2^(V - 1 - s) \in Nat \ {0} /\ 2^V \in Nat \ {0}
    BY <2>1, PowerPositive
  <2>5. ~ s >= V  BY <1>1
  <2>. QED  BY <2>1, <2>2, <2>3, <2>4, <2>5
<1>2. CASE s >= V
  <2>1. s - V \in Nat /\ V + (s - V) = s  BY <1>2
  <2>2. 2^(V + (s - V)) = 2^V * 2^(s - V)  BY <2>1, PowerSum
  <2>3. 2^s \in Nat \ {0} /\ 2^(s - V) \in Nat \ {0} /\ 2^V \in Nat \ {0}
    BY <2>1, PowerPositive
  <2>4. ~ s < V  BY <1>2
  <2>. QED  BY <2>1, <2>2, <2>3, <2>4
<1>. QED  BY <1>1, <1>2

-------------------------------------------------------------------------------
(* Numbers of two limbs, in any base: h * b + l.                               *)

LEMMA LimbsIn ==
    ASSUME NEW b \in Nat \ {0}, NEW h \in 0..b - 1, NEW l \in 0..b - 1
    PROVE  h * b + l \in 0..b * b - 1
<1>1. h * b \in Nat /\ b * b \in Nat  OBVIOUS
<1>2. (h + 1) * b <= b * b /\ (h + 1) * b = h * b + b  OBVIOUS
<1>. QED  BY <1>1, <1>2

LEMMA LimbsLess ==
    ASSUME NEW b \in Nat \ {0}, NEW h \in Int, NEW k \in Int,
           NEW l \in 0..b - 1, NEW m \in 0..b - 1
    PROVE  /\ h * b + l < k * b + m <=> h < k \/ (h = k /\ l < m)
           /\ h * b + l = k * b + m <=> h = k /\ l = m
<1>1. ASSUME NEW c \in Int, NEW d \in Int, c < d PROVE c * b + b <= d * b
  <2>1. (c + 1) * b <= d * b /\ (c + 1) * b = c * b + b  BY <1>1
  <2>. QED  BY <2>1
<1>2. CASE h < k
  <2>1. h * b + b <= k * b  BY <1>1, <1>2
  <2>2. h * b \in Int /\ k * b \in Int  OBVIOUS
  <2>. QED  BY <1>2, <2>1, <2>2
<1>3. CASE k < h
  <2>1. k * b + b <= h * b  BY <1>1, <1>3
  <2>2. h * b \in Int /\ k * b \in Int  OBVIOUS
  <2>. QED  BY <1>3, <2>1, <2>2
<1>4. CASE h = k
  <2>1. h * b \in Int  OBVIOUS
  <2>. QED  BY <1>4, <2>1
<1>. QED  BY <1>2, <1>3, <1>4

(* A high limb that wraps is the whole number that does.                       *)
LEMMA ModLimbs ==
    ASSUME NEW b \in Nat \ {0}, NEW s \in Int, NEW l \in 0..b - 1
    PROVE  (s % b) * b + l = (s * b + l) % (b * b)
<1>. DEFINE e == s \div b
            r == s % b
<1>1. s = e * b + r /\ e \in Int /\ r \in 0..b - 1  BY DivMod
<1>. HIDE DEF e, r
<1>2. s * b + l = e * (b * b) + (r * b + l)
  <2>1. (e * b + r) * b = e * (b * b) + r * b  BY <1>1
  <2>. QED  BY <1>1, <2>1
<1>3. r * b + l \in 0..b * b - 1 /\ b * b \in Nat \ {0}
  <2>1. b * b \in Nat \ {0}  OBVIOUS
  <2>. QED  BY <1>1, <2>1, LimbsIn
<1>. DEFINE bb == b * b
            v == r * b + l
<1>. HIDE DEF bb, v
<1>5. (e * bb + v) % bb = v  BY <1>1, <1>3, ModIs DEF bb, v
<1>6. (s * b + l) % (b * b) = r * b + l  BY <1>2, <1>5 DEF bb, v
<1>. QED  BY <1>6 DEF r

(* What a factor of the base moves out of a limb, and what stays in it.        *)
LEMMA ShiftLimb ==
    ASSUME NEW c \in Nat \ {0}, NEW d \in Nat \ {0}, NEW l \in 0..c * d - 1
    PROVE  /\ (l * c) \div (c * d) = l \div d /\ (l * c) % (c * d) = (l % d) * c
           /\ l \div d \in 0..c - 1 /\ (l % d) * c \in 0..c * d - c
<1>. DEFINE e == l \div d
            r == l % d
            b == c * d
<1>0. b \in Nat \ {0} /\ l \in Int  OBVIOUS
<1>1. l = e * d + r /\ e \in Int /\ r \in 0..d - 1  BY <1>0, DivMod
<1>2. e \in 0..c - 1
  <2>1. l >= 0 /\ l < c * d  OBVIOUS
  <2>. HIDE DEF e, r
  <2>2. ASSUME e >= c PROVE FALSE
    <3>1. e * d >= c * d /\ e * d \in Int /\ c * d \in Int  BY <1>1, <2>2
    <3>. QED  BY <1>1, <2>1, <3>1
  <2>3. ASSUME e < 0 PROVE FALSE
    <3>1. (e + 1) * d <= 0 /\ (e + 1) * d = e * d + d /\ e * d \in Int  BY <1>1, <2>3
    <3>. QED  BY <1>1, <2>1, <3>1
  <2>. QED  BY <1>1, <2>2, <2>3
<1>. HIDE DEF e, r
<1>3. r * c \in 0..b - c
  <2>1. (r + 1) * c <= d * c /\ (r + 1) * c = r * c + c /\ d * c = c * d /\ r * c \in Nat
    BY <1>1
  <2>. QED  BY <2>1
<1>4. l * c = e * b + r * c
  <2>1. (e * d + r) * c = e * (c * d) + r * c  BY <1>1
  <2>. QED  BY <1>1, <2>1
<1>5. r * c \in 0..b - 1  BY <1>0, <1>3
<1>. HIDE DEF b
<1>6. (l * c) \div b = e /\ (l * c) % b = r * c
  <2>. DEFINE a == l * c
              t == r * c
  <2>1. a \in Int  BY <1>0
  <2>2. t \in 0..b - 1 /\ a = e * b + t  BY <1>4, <1>5
  <2>. HIDE DEF a, t
  <2>3. a \div b = e /\ a % b = t  BY <1>0, <1>1, <2>1, <2>2, DivModIs
  <2>. QED  BY <2>3 DEF a, t
<1>. QED  BY <1>2, <1>3, <1>6 DEF e, r, b

(* A number of two limbs shifted, by less than a limb and by more.             *)
UpByPart(h, l, b, c, d) ==
    /\ ((h * c) % b) + (l \div d) \in 0..b - 1 /\ (l * c) % b \in 0..b - 1
    /\ (((h * c) % b) + (l \div d)) * b + ((l * c) % b) = ((h * b + l) * c) % (b * b)

UpByLimb(h, l, b, c) == ((l * c) % b) * b = ((h * b + l) * (b * c)) % (b * b)

DownByLimb(h, l, b, c) == h \div c = (h * b + l) \div (b * c)

DownByPart(h, l, b, c, d) ==
    /\ h \div c \in 0..b - 1 /\ (l \div c) + ((h * d) % b) \in 0..b - 1
    /\ (h \div c) * b + ((l \div c) + ((h * d) % b)) = (h * b + l) \div c

LEMMA LimbsUp ==
    ASSUME NEW c \in Nat \ {0}, NEW d \in Nat \ {0}, NEW b \in Nat, b = c * d,
           NEW h \in 0..b - 1, NEW l \in 0..b - 1
    PROVE  UpByPart(h, l, b, c, d)
<1>. DEFINE top == (h * c) % b
            e == l \div d
            low == (l * c) % b
            hc == h * c
<1>0. b \in Nat \ {0}  OBVIOUS
<1>1. top \in 0..b - c /\ e \in 0..c - 1 /\ low \in 0..b - c /\ l * c = e * b + low
  <2>1. top = (h % d) * c /\ (h % d) * c \in 0..b - c  BY <1>0, ShiftLimb
  <2>2. low = (l % d) * c /\ (l % d) * c \in 0..b - c /\ e \in 0..c - 1
        /\ e = (l * c) \div b
    BY <1>0, ShiftLimb
  <2>3. l * c = ((l * c) \div b) * b + ((l * c) % b)
    <3>1. l * c \in Int  OBVIOUS
    <3>. QED  BY <1>0, <3>1, DivMod
  <2>4. l * c = e * b + low  BY <2>2, <2>3
  <2>. QED  BY <2>1, <2>2, <2>4
<1>2. hc \in Int  OBVIOUS
<1>3. top = hc % b  OBVIOUS
<1>. HIDE DEF top, e, low
<1>4. top + e \in 0..b - 1 /\ low \in 0..b - 1  BY <1>0, <1>1
<1>5. top + e = (hc + e) % b
  <2>. HIDE DEF hc
  <2>1. ((hc % b) + e) % b = (hc + e) % b
    <3>1. e \in Int  BY <1>1
    <3>. QED  BY <1>0, <1>2, <3>1, ModPlus, Zenon
  <2>2. (top + e) % b = top + e  BY <1>0, <1>4, ModSelf
  <2>. QED  BY <1>3, <2>1, <2>2
<1>6. (hc + e) * b + low = (h * b + l) * c
  <2>1. (h * c + e) * b = (h * b) * c + e * b  BY <1>1
  <2>2. (h * b + l) * c = (h * b) * c + l * c  OBVIOUS
  <2>3. (h * b) * c \in Int /\ e * b \in Int  BY <1>1
  <2>. QED  BY <1>1, <2>1, <2>2, <2>3
<1>7. ((hc + e) % b) * b + low = ((hc + e) * b + low) % (b * b)
  <2>. DEFINE s == hc + e
  <2>1. s \in Int  BY <1>1, <1>2
  <2>. HIDE DEF s
  <2>2. (s % b) * b + low = (s * b + low) % (b * b)  BY <1>0, <1>4, <2>1, ModLimbs
  <2>. QED  BY <2>2 DEF s
<1>8. (top + e) * b + low = ((h * b + l) * c) % (b * b)  BY <1>5, <1>6, <1>7
<1>. QED  BY <1>4, <1>8 DEF UpByPart, top, e, low

LEMMA LimbUp ==
    ASSUME NEW h \in Int, NEW l \in Int, NEW b \in Nat \ {0}, NEW c \in Nat
    PROVE  UpByLimb(h, l, b, c)
<1>. DEFINE lc == l * c
            bb == b * b
            k == h * c
<1>1. lc \in Int /\ bb \in Nat \ {0} /\ k \in Int /\ 0 \in 0..b - 1  OBVIOUS
<1>2. (h * b + l) * (b * c) = lc * b + k * bb  OBVIOUS
<1>. HIDE DEF lc, bb, k
<1>3. (lc % b) * b + 0 = (lc * b + 0) % (b * b)  BY <1>1, ModLimbs
<1>4. (lc * b + k * bb) % bb = (lc * b) % bb
  <2>1. lc * b \in Int  BY <1>1
  <2>. QED  BY <1>1, <2>1, ModShift
<1>5. (lc % b) * b + 0 = (lc % b) * b /\ lc * b + 0 = lc * b
  <2>1. lc % b \in Int  BY <1>1, DivMod
  <2>. QED  BY <1>1, <2>1
<1>6. (lc % b) * b = ((h * b + l) * (b * c)) % bb  BY <1>2, <1>3, <1>4, <1>5 DEF bb
<1>. QED  BY <1>6 DEF UpByLimb, lc, bb

LEMMA LimbsDown ==
    ASSUME NEW c \in Nat \ {0}, NEW d \in Nat \ {0}, NEW b \in Nat, b = c * d,
           NEW h \in 0..b - 1, NEW l \in 0..b - 1
    PROVE  DownByPart(h, l, b, c, d)
<1>. DEFINE e == h \div c
            r == h % c
            f == l \div c
            t == l % c
            low == (h * d) % b
<1>0. b = d * c  OBVIOUS
<1>1. h = e * c + r /\ l = f * c + t /\ r \in 0..c - 1 /\ t \in 0..c - 1
  BY DivMod
<1>2. e \in 0..d - 1 /\ f \in 0..d - 1 /\ low = r * d /\ low \in 0..b - d
  <2>1. h \in 0..d * c - 1 /\ l \in 0..d * c - 1  BY <1>0
  <2>2. /\ (h * d) % (d * c) = (h % c) * d /\ h \div c \in 0..d - 1
        /\ (h % c) * d \in 0..d * c - d /\ l \div c \in 0..d - 1
    BY <2>1, ShiftLimb, Zenon
  <2>. QED  BY <1>0, <2>2
<1>. HIDE DEF e, r, f, t, low
<1>3. e \in 0..b - 1 /\ f + low \in 0..b - 1
  <2>1. d <= b  BY TimesOne, <1>0
  <2>. QED  BY <1>2, <2>1
<1>4. h * b + l = (e * b + (f + low)) * c + t
  <2>1. (e * c + r) * b = (e * b) * c + r * b  BY <1>1, <1>2
  <2>2. (e * b + (f + r * d)) * c = (e * b) * c + f * c + r * (d * c)  BY <1>1, <1>2
  <2>3. r * (d * c) = r * b  BY <1>0
  <2>4. (e * b) * c \in Int /\ r * b \in Int /\ f * c \in Int  BY <1>1, <1>2
  <2>. QED  BY <1>1, <1>2, <2>1, <2>2, <2>3, <2>4
<1>5. (h * b + l) \div c = e * b + (f + low)
  <2>. DEFINE a == h * b + l
              k == e * b + (f + low)
  <2>1. a \in Int /\ k \in Int /\ a = k * c + t  BY <1>2, <1>3, <1>4
  <2>. HIDE DEF a, k
  <2>2. a \div c = k  BY <1>1, <2>1, DivModIs
  <2>. QED  BY <2>2 DEF a, k
<1>. QED  BY <1>3, <1>5 DEF DownByPart, e, f, low

LEMMA LimbDown ==
    ASSUME NEW c \in Nat \ {0}, NEW b \in Nat \ {0}, NEW h \in Nat, NEW l \in 0..b - 1
    PROVE  DownByLimb(h, l, b, c)
<1>. DEFINE a == h * b + l
<1>1. a \in Nat /\ a \in Int /\ h \in Int /\ a = h * b + l  OBVIOUS
<1>. HIDE DEF a
<1>2. a \div b = h  BY <1>1, DivModIs
<1>3. (a \div b) \div c = a \div (b * c)  BY <1>1, DivDiv
<1>. QED  BY <1>2, <1>3 DEF DownByLimb, a

LEMMA ShiftedOut ==
    ASSUME NEW c \in Nat \ {0}, NEW b \in Nat \ {0}, NEW a \in 0..b - 1
    PROVE  (a * (b * c)) % b = 0 /\ a \div (b * c) = 0
<1>1. (a * (b * c)) % b = 0
  <2>. DEFINE k == a * c
              v == k * b
  <2>1. k \in Int /\ v \in Int /\ v = k * b + 0 /\ 0 \in 0..b - 1  OBVIOUS
  <2>2. a * (b * c) = v  OBVIOUS
  <2>. HIDE DEF k, v
  <2>3. v % b = 0  BY <2>1, DivModIs
  <2>. QED  BY <2>2, <2>3
<1>2. a \div (b * c) = 0
  <2>1. a \div b = 0 /\ a \in Nat  BY ModSelf
  <2>2. 0 \div c = 0  BY ModSelf
  <2>. QED  BY <2>1, <2>2, DivDiv
<1>. QED  BY <1>1, <1>2

(* The product of the high limbs is lost, and of the others what the high limb *)
(* has no room for.                                                            *)
ProductByLimb(h, l, k, m, p, t, b) ==
    ((p + (l * k + h * m)) % b) * b + t = ((h * b + l) * (k * b + m)) % (b * b)

LEMMA LimbsTimes ==
    ASSUME NEW h \in Int, NEW l \in Int, NEW k \in Int, NEW m \in Int,
           NEW b \in Nat \ {0}, NEW p \in Int, NEW t \in 0..b - 1, p * b + t = l * m
    PROVE  ProductByLimb(h, l, k, m, p, t, b)
<1>. DEFINE s == p + (l * k + h * m)
            a == s * b + t
            hk == h * k
            bb == b * b
            product == (h * b + l) * (k * b + m)
<1>1. s \in Int /\ a \in Int /\ hk \in Int /\ bb \in Nat \ {0}  OBVIOUS
<1>2. product = a + hk * bb
  <2>. DEFINE e1 == (h * k) * (b * b)
              e2 == (l * k + h * m) * b
              e3 == l * m
              e4 == p * b
  <2>1. product = e1 + e2 + e3  OBVIOUS
  <2>2. a = e4 + e2 + t  OBVIOUS
  <2>3. e1 \in Int /\ e2 \in Int /\ e3 \in Int /\ e4 \in Int /\ t \in Int /\ e4 + t = e3
    OBVIOUS
  <2>4. e1 = hk * bb  OBVIOUS
  <2>. HIDE DEF e1, e2, e3, e4, product, a, hk, bb
  <2>5. product = a + e1  BY <2>1, <2>2, <2>3
  <2>. QED  BY <2>4, <2>5
<1>. HIDE DEF s, hk
<1>3. (s % b) * b + t = a % bb  BY <1>1, ModLimbs
<1>. HIDE DEF a, bb, product
<1>4. (a + hk * bb) % bb = a % bb  BY <1>1, ModShift
<1>5. (s % b) * b + t = product % bb  BY <1>2, <1>3, <1>4
<1>. QED  BY <1>5 DEF ProductByLimb, s, product, bb

-------------------------------------------------------------------------------
(* Division by a reciprocal, as numbers.                                       *)

LEMMA ScaleLess ==
    ASSUME NEW b \in Nat \ {0}, NEW s \in Int, NEW t \in Int
    PROVE  b * s < b * t <=> s < t
<1>1. ASSUME s < t PROVE b * s < b * t
  <2>1. b * (s + 1) <= b * t /\ b * (s + 1) = b * s + b  BY <1>1
  <2>2. b * s \in Int /\ b * t \in Int  OBVIOUS
  <2>. QED  BY <2>1, <2>2
<1>2. ASSUME s >= t PROVE b * s >= b * t  BY <1>2
<1>3. b * s \in Int /\ b * t \in Int  OBVIOUS
<1>. QED  BY <1>1, <1>2, <1>3

(* The candidate is q1 + 1, with e the reciprocal and k what it misses: what   *)
(* it leaves, r, is a remainder or one divisor away from it, and the low word  *)
(* q0 of the product tells which.                                              *)
Leaves(r, b, d, q0) ==
    /\ r >= -d /\ r + b > q0
    /\ r < b - d \/ r < q0

LEMMA TwoByOne ==
    ASSUME NEW b \in Nat \ {0}, NEW d \in Nat \ {0}, d < b,
           NEW k \in 0..d, NEW e \in Nat, e * d = b * b - k,
           NEW u1 \in 0..d - 1, NEW u0 \in 0..b - 1,
           NEW q1 \in Int, NEW q0 \in 0..b - 1, q1 * b + q0 = e * u1 + u0
    PROVE  Leaves((u1 * b + u0) - (q1 + 1) * d, b, d, q0)
<1>. DEFINE r == (u1 * b + u0) - (q1 + 1) * d
            t1 == k * u1
            t2 == u0 * (b - d)
            t3 == q0 * d
            bd == b * d
            bb == b * b
            qb == q0 * b
            c == b - d
<1>1. b * r = t1 + t2 + t3 - bd
  <2>1. (q1 * b) * d = (e * d) * u1 + u0 * d - q0 * d
    <3>1. (q1 * b) * d = (e * u1 + u0 - q0) * d
      <4>1. q1 * b = e * u1 + u0 - q0
        <5>1. q1 * b \in Int /\ e * u1 \in Int  OBVIOUS
        <5>. QED  BY <5>1
      <4>. QED  BY <4>1
    <3>2. (e * u1 + u0 - q0) * d = (e * d) * u1 + u0 * d - q0 * d  OBVIOUS
    <3>. QED  BY <3>1, <3>2
  <2>2. (e * d) * u1 = (b * b) * u1 - k * u1
    <3>1. (b * b - k) * u1 = (b * b) * u1 - k * u1  OBVIOUS
    <3>. QED  BY <3>1
  <2>3. b * r = (b * b) * u1 + b * u0 - (q1 * b) * d - b * d  OBVIOUS
  <2>4. u0 * (b - d) = b * u0 - u0 * d  OBVIOUS
  <2>. DEFINE e1 == (q1 * b) * d
              e2 == (e * d) * u1
              e3 == u0 * d
              e4 == (b * b) * u1
              e5 == b * u0
              e6 == b * r
  <2>5. /\ e1 \in Int /\ e2 \in Int /\ e3 \in Int /\ e4 \in Int /\ e5 \in Int /\ e6 \in Int
        /\ t1 \in Int /\ t2 \in Int /\ t3 \in Int /\ bd \in Int
        /\ e1 = e2 + e3 - t3 /\ e2 = e4 - t1 /\ e6 = e4 + e5 - e1 - bd /\ t2 = e5 - e3
    BY <2>1, <2>2, <2>3, <2>4
  <2>. HIDE DEF e1, e2, e3, e4, e5, e6, t1, t2, t3, bd
  <2>6. e6 = t1 + t2 + t3 - bd  BY <2>5
  <2>. QED  BY <2>6 DEF e6
<1>2. t1 >= 0 /\ t2 >= 0 /\ t3 >= 0 /\ t1 \in Int /\ t2 \in Int /\ t3 \in Int
  <2>1. c \in Nat /\ k \in Nat /\ u1 \in Nat /\ u0 \in Nat /\ q0 \in Nat  OBVIOUS
  <2>2. k * u1 \in Nat /\ u0 * c \in Nat /\ q0 * d \in Nat  BY <2>1
  <2>. QED  BY <2>2
<1>3. r \in Int /\ bd \in Int /\ bb \in Int /\ qb \in Int /\ c \in Nat \ {0}  OBVIOUS
<1>. DEFINE br == b * r
<1>4. br \in Int /\ br = t1 + t2 + t3 - bd  BY <1>1, <1>3
<1>5. r >= -d
  <2>1. b * (-d - 1) = -bd - b /\ -d - 1 \in Int  OBVIOUS
  <2>. HIDE DEF r, t1, t2, t3, bd
  <2>2. br > -bd - b  BY <1>2, <1>3, <1>4
  <2>3. b * (-d - 1) < b * r  BY <1>3, <2>1, <2>2
  <2>4. -d - 1 < r  BY <1>3, <2>1, <2>3, ScaleLess
  <2>. QED  BY <1>3, <2>4
<1>6. r + b > q0
  <2>1. b * (r + b) = br + bb /\ b * q0 = qb  BY <1>3
  <2>2. (b - q0) * (b - d) >= 1 /\ (b - q0) * (b - d) = bb - bd - qb + t3
    <3>1. b - q0 \in Nat \ {0} /\ b - d \in Nat \ {0}  OBVIOUS
    <3>2. (b - q0) * (b - d) \in Nat \ {0}  BY <3>1
    <3>. QED  BY <3>2
  <2>. HIDE DEF r, t1, t2, t3, bd, bb, qb, br
  <2>3. br + bb > qb  BY <1>2, <1>3, <1>4, <2>2
  <2>4. b * q0 < b * (r + b)  BY <2>1, <2>3
  <2>5. q0 \in Int /\ r + b \in Int  BY <1>3
  <2>6. q0 < r + b  BY <2>4, <2>5, ScaleLess
  <2>. QED  BY <1>3, <2>6
<1>7. r < c \/ r < q0
  <2>. DEFINE cc == c * c
              qc == q0 * c
              cd == c * d
              bc == b * c
  <2>1. t1 <= d * (d - 1) /\ t2 <= (b - 1) * c
    <3>1. k * u1 <= d * u1 /\ d * u1 <= d * (d - 1) /\ d * u1 \in Int  OBVIOUS
    <3>2. u0 * c <= (b - 1) * c  OBVIOUS
    <3>3. d * (d - 1) \in Int  OBVIOUS
    <3>. QED  BY <1>2, <3>1, <3>2, <3>3
  <2>2. d * (d - 1) + (b - 1) * c - bd = cc - b
    OBVIOUS
  <2>3. br <= cc - b + t3
    <3>. DEFINE f1 == d * (d - 1)
                f2 == (b - 1) * c
    <3>1. f1 \in Int /\ f2 \in Int /\ cc \in Int  OBVIOUS
    <3>. HIDE DEF r, t1, t2, t3, bd, br, cc, f1, f2
    <3>2. t1 <= f1 /\ t2 <= f2 /\ f1 + f2 - bd = cc - b  BY <2>1, <2>2 DEF f1, f2
    <3>. QED  BY <1>2, <1>3, <1>4, <3>1, <3>2
  <2>4. cc + cd = bc /\ qc + t3 = qb /\ bc = b * c /\ qb = b * q0
        /\ cc \in Int /\ qc \in Int /\ cd \in Int /\ bc \in Int
    OBVIOUS
  <2>5. CASE q0 <= c
    <3>1. t3 <= cd  BY <2>5
    <3>2. br < bc
      <4>. HIDE DEF r, t1, t2, t3, bd, br, cc, qc, cd, bc, qb
      <4>. QED  BY <1>2, <1>4, <2>3, <2>4, <3>1
    <3>3. b * r < b * c  BY <2>4, <3>2
    <3>4. c \in Int  BY <1>3
    <3>. HIDE DEF r, c
    <3>. QED  BY <1>3, <3>3, <3>4, ScaleLess
  <2>6. CASE q0 > c
    <3>1. cc <= qc  BY <2>6
    <3>2. br < qb
      <4>. HIDE DEF r, t1, t2, t3, bd, br, cc, qc, cd, bc, qb
      <4>. QED  BY <1>2, <1>3, <1>4, <2>3, <2>4, <3>1
    <3>3. b * r < b * q0  BY <2>4, <3>2
    <3>4. q0 \in Int  OBVIOUS
    <3>. HIDE DEF r
    <3>. QED  BY <1>3, <3>3, <3>4, ScaleLess
  <2>. QED  BY <1>3, <2>5, <2>6
<1>. QED  BY <1>5, <1>6, <1>7 DEF Leaves

(* The same with a divisor of two words: q0 is compared with the high word of  *)
(* what is left.                                                               *)
LEMMA ThreeByTwoExact ==
    ASSUME NEW b \in Nat \ {0}, NEW d \in Nat \ {0}, NEW bb \in Nat, bb = b * b,
           NEW k \in Int, NEW e \in Int, e * d = b * bb - k,
           NEW u2 \in Int, NEW u1 \in Int, NEW u0 \in Int,
           NEW q1 \in Int, NEW q0 \in Int, q1 * b + q0 = e * u2 + u1,
           NEW r, r = (u2 * bb + u1 * b + u0) - (q1 + 1) * d
    PROVE  r \in Int /\ b * r = k * u2 + u1 * (bb - d) + b * u0 + q0 * d - b * d
<1>1. (q1 * b) * d = (e * d) * u2 + u1 * d - q0 * d
  <2>1. q1 * b = e * u2 + u1 - q0
    <3>1. q1 * b \in Int /\ e * u2 \in Int  OBVIOUS
    <3>. QED  BY <3>1
  <2>2. (e * u2 + u1 - q0) * d = (e * d) * u2 + u1 * d - q0 * d  OBVIOUS
  <2>. QED  BY <2>1, <2>2
<1>2. (e * d) * u2 = (b * bb) * u2 - k * u2
  <2>1. (b * bb - k) * u2 = (b * bb) * u2 - k * u2  OBVIOUS
  <2>. QED  BY <2>1
<1>3. b * ((u2 * bb + u1 * b + u0) - (q1 + 1) * d)
        = (b * bb) * u2 + u1 * (b * b) + b * u0 - (q1 * b) * d - b * d
  OBVIOUS
<1>4. u1 * (bb - d) = u1 * bb - u1 * d  OBVIOUS
<1>. DEFINE e1 == (q1 * b) * d
            e2 == (e * d) * u2
            e3 == u1 * d
            e4 == (b * bb) * u2
            e5 == b * u0
            e6 == b * r
            e7 == u1 * bb
            e8 == k * u2
            e9 == q0 * d
            f1 == b * d
            f2 == u1 * (bb - d)
<1>5. r \in Int  OBVIOUS
<1>6. /\ e1 \in Int /\ e2 \in Int /\ e3 \in Int /\ e4 \in Int /\ e5 \in Int /\ e6 \in Int
      /\ e7 \in Int /\ e8 \in Int /\ e9 \in Int /\ f1 \in Int /\ f2 \in Int
  BY <1>5
<1>7. e1 = e2 + e3 - e9 /\ e2 = e4 - e8 /\ e6 = e4 + e7 + e5 - e1 - f1 /\ f2 = e7 - e3
  BY <1>1, <1>2, <1>3, <1>4
<1>. HIDE DEF e1, e2, e3, e4, e5, e6, e7, e8, e9, f1, f2
<1>8. e6 = e8 + f2 + e5 + e9 - f1  BY <1>6, <1>7
<1>. QED  BY <1>5, <1>8 DEF e5, e6, e8, e9, f1, f2

LEMMA ThreeByTwo ==
    ASSUME NEW b \in Nat \ {0}, NEW d \in Nat \ {0}, NEW bb \in Nat, bb = b * b, d < bb,
           NEW k \in 0..d, k > 0, NEW e \in Nat, e >= b, e * d = b * bb - k,
           NEW u2 \in 0..b - 1, NEW u1 \in 0..b - 1, NEW u0 \in 0..b - 1, u2 * b + u1 < d,
           NEW q1 \in Int, NEW q0 \in 0..b - 1, q1 * b + q0 = e * u2 + u1
    PROVE  Leaves((u2 * bb + u1 * b + u0) - (q1 + 1) * d, bb, d, q0 * b)
<1>. DEFINE r == (u2 * bb + u1 * b + u0) - (q1 + 1) * d
            c == bb - d
            z == q0 * b
            t1 == k * u2
            t2 == u1 * c
            t3 == b * u0
            t4 == q0 * d
            bd == b * d
            br == b * r
<1>1. /\ bb \in Nat \ {0} /\ c \in Nat \ {0} /\ z \in Int /\ bd \in Int
      /\ k \in Int /\ u2 \in Int /\ u1 \in Int /\ u0 \in Int /\ q0 \in Int
  OBVIOUS
<1>2. r \in Int /\ br = t1 + t2 + t3 + t4 - bd /\ br \in Int
  <2>1. r \in Int /\ br = t1 + t2 + t3 + t4 - bd  BY <1>1, ThreeByTwoExact
  <2>. HIDE DEF r
  <2>. QED  BY <2>1
<1>3. t1 >= 0 /\ t2 >= 0 /\ t3 >= 0 /\ t4 >= 0
      /\ t1 \in Int /\ t2 \in Int /\ t3 \in Int /\ t4 \in Int
  <2>1. k \in Nat /\ u2 \in Nat /\ u1 \in Nat /\ u0 \in Nat /\ q0 \in Nat  OBVIOUS
  <2>. HIDE DEF c
  <2>2. k * u2 \in Nat /\ u1 * c \in Nat /\ b * u0 \in Nat /\ q0 * d \in Nat
    BY <1>1, <2>1
  <2>. QED  BY <2>2
<1>4. r >= -d
  <2>1. b * (-d - 1) = -bd - b /\ -d - 1 \in Int  OBVIOUS
  <2>. HIDE DEF r, t1, t2, t3, t4, bd
  <2>2. br > -bd - b
    <3>. HIDE DEF br
    <3>. QED  BY <1>1, <1>2, <1>3
  <2>3. b * (-d - 1) < b * r  BY <1>2, <2>1, <2>2
  <2>4. -d - 1 < r  BY <1>2, <2>1, <2>3, ScaleLess
  <2>. QED  BY <1>2, <2>4
<1>5. r + bb > z
  <2>. DEFINE bc == b * c
              qc == q0 * c
              bz == b * z
              bbb == b * bb
  <2>1. bz = t4 + qc /\ bbb = bd + bc /\ bz \in Int /\ qc \in Int /\ bc \in Int /\ bbb \in Int
    <3>1. b * (q0 * b) = q0 * (b * b) /\ q0 * d + q0 * (bb - d) = q0 * bb  OBVIOUS
    <3>2. b * bb = b * d + b * (bb - d)  OBVIOUS
    <3>3. b * z \in Int /\ b * bb \in Int /\ b * c \in Int /\ q0 * c \in Int
      BY <1>1
    <3>. QED  BY <3>1, <3>2, <3>3
  <2>2. qc < bc
    <3>1. (b - q0) * c >= 1 /\ (b - q0) * c = b * c - q0 * c
      <4>1. b - q0 \in Nat \ {0}  OBVIOUS
      <4>2. (b - q0) * c \in Nat \ {0}  BY <1>1, <4>1
      <4>. QED  BY <4>2
    <3>. HIDE DEF c
    <3>. QED  BY <2>1, <3>1
  <2>3. b * (r + bb) = br + bbb
    <3>. HIDE DEF r
    <3>. QED  BY <1>1, <1>2
  <2>4. bz < br + bbb
    <3>. HIDE DEF br, bz, bbb, bc, qc, t1, t2, t3, t4, bd
    <3>. QED  BY <1>1, <1>2, <1>3, <2>1, <2>2
  <2>5. r + bb \in Int  BY <1>1, <1>2
  <2>6. b * z < b * (r + bb)  BY <2>3, <2>4
  <2>. HIDE DEF z, r
  <2>7. z < r + bb  BY <1>1, <2>5, <2>6, ScaleLess
  <2>. QED  BY <1>1, <1>2, <2>7
<1>6. CASE b * c >= d
  <2>. DEFINE cc == c * c
              zd == z * d
              zc == z * c
              cd == c * d
              bbr == bb * r
              bbc == bb * c
              bbz == bb * z
  <2>1. bbr <= cc - bb + zd
    <3>. DEFINE s1 == k * (u2 * b)
                s2 == u1 * (b * c - d)
                s3 == bb * u0
                f1 == d * (d - 1)
                f2 == (b - 1) * (b * c - d)
                f3 == bb * (b - 1)
                f4 == bb * d
                g == u1 * d
    <3>1. bbr = s1 + (s2 + g) + s3 + zd - f4
      <4>1. bb * r = b * (b * r)  BY <1>2
      <4>2. b * (t1 + t2 + t3 + t4 - bd) = b * t1 + b * t2 + b * t3 + b * t4 - b * bd
        <5>. HIDE DEF t1, t2, t3, t4, bd
        <5>. QED  BY <1>1, <1>3
      <4>3. b * t1 = s1  OBVIOUS
      <4>4. b * t2 = s2 + g  OBVIOUS
      <4>5. b * t3 = s3  OBVIOUS
      <4>6. b * t4 = zd  OBVIOUS
      <4>7. b * bd = f4  OBVIOUS
      <4>. HIDE DEF r, t1, t2, t3, t4, bd, s1, s2, g, s3, zd, f4
      <4>. QED  BY <1>2, <4>1, <4>2, <4>3, <4>4, <4>5, <4>6, <4>7
    <3>2. s1 + g <= f1
      <4>1. u2 * b \in Nat /\ u2 * b <= d - 1 - u1  BY <1>1
      <4>. DEFINE o == u2 * b
      <4>. HIDE DEF o
      <4>2. o \in Nat /\ o <= d - 1 - u1  BY <4>1 DEF o
      <4>3. k * o <= d * o  BY <4>2
      <4>4. d * o <= d * (d - 1 - u1)  BY <1>1, <4>2
      <4>5. d * (d - 1 - u1) = d * (d - 1) - u1 * d  OBVIOUS
      <4>6. k * o \in Int /\ d * o \in Int /\ d * (d - 1) \in Int /\ u1 * d \in Int
        BY <4>2
      <4>7. k * o <= d * (d - 1) - u1 * d  BY <4>3, <4>4, <4>5, <4>6
      <4>. QED  BY <4>6, <4>7 DEF o
    <3>3. s2 <= f2
      <4>. DEFINE o == b * c - d
      <4>1. o \in Nat  BY <1>1, <1>6
      <4>. HIDE DEF o
      <4>2. u1 * o <= (b - 1) * o  BY <4>1
      <4>. QED  BY <4>2 DEF o
    <3>4. s3 <= f3
      <4>1. bb * u0 <= bb * (b - 1)  OBVIOUS
      <4>. QED  BY <4>1
    <3>5. f1 + f2 + f3 - f4 = cc - bb
      <4>. DEFINE dd == d * d
                  bbb == b * bb
                  bc == b * c
                  dbb == d * bb
      <4>1. f1 = dd - d /\ f2 = b * bc - bc - bd + d /\ f3 = bbb - bb /\ f4 = dbb
        OBVIOUS
      <4>2. b * bc = bb * c  OBVIOUS
      <4>3. bb * c = dbb + bb * c - dbb  BY <1>1
      <4>4. bb * bb - dbb = bb * c /\ dbb - dd = cd /\ bbb = bd + bc
        OBVIOUS
      <4>5. cc = bb * c - cd  OBVIOUS
      <4>6. /\ dd \in Int /\ bbb \in Int /\ bc \in Int /\ dbb \in Int /\ cd \in Int
            /\ bb * c \in Int /\ cc \in Int /\ b * bc \in Int
        OBVIOUS
      <4>. DEFINE x1 == bb * c
                  x2 == b * bc
      <4>. HIDE DEF dd, bbb, bc, dbb, cd, cc, x1, x2, bd, f1, f2, f3, f4
      <4>7. x2 = x1 /\ cc = x1 - cd /\ x1 \in Int /\ x2 \in Int
            /\ f2 = x2 - bc - bd + d
        BY <4>1, <4>2, <4>5, <4>6 DEF x1, x2
      <4>. QED  BY <1>1, <4>1, <4>4, <4>6, <4>7
    <3>6. /\ s1 \in Int /\ s2 \in Int /\ s3 \in Int /\ g \in Int /\ zd \in Int /\ cc \in Int
          /\ f1 \in Int /\ f2 \in Int /\ f3 \in Int /\ f4 \in Int
      OBVIOUS
    <3>. HIDE DEF s1, s2, s3, g, zd, cc, f1, f2, f3, f4, bbr
    <3>. QED  BY <3>1, <3>2, <3>3, <3>4, <3>5, <3>6
  <2>2. cc + cd = bbc /\ zc + zd = bbz /\ cc \in Int /\ cd \in Int /\ zc \in Int /\ zd \in Int
        /\ bbc \in Int /\ bbz \in Int
    <3>1. c * c + c * d = bb * c  OBVIOUS
    <3>2. d + c = bb  OBVIOUS
    <3>. HIDE DEF z, c
    <3>3. z * c + z * d = z * (d + c) /\ z * bb = bb * z  BY <1>1
    <3>4. zc + zd = bbz  BY <3>2, <3>3
    <3>5. c * c \in Int /\ c * d \in Int /\ z * c \in Int /\ z * d \in Int
          /\ bb * c \in Int /\ bb * z \in Int
      BY <1>1
    <3>. QED  BY <3>1, <3>4, <3>5
  <2>3. CASE z <= c
    <3>1. zd <= cd
      <4>. HIDE DEF z, c
      <4>. QED  BY <1>1, <2>3
    <3>2. bbr < bbc
      <4>0. bbr \in Int  BY <1>2
      <4>. HIDE DEF cc, zd, zc, cd, bbr, bbc, bbz
      <4>. QED  BY <1>1, <2>1, <2>2, <3>1, <4>0
    <3>. HIDE DEF c, r
    <3>3. c \in Int  BY <1>1
    <3>4. r < c  BY <1>1, <1>2, <3>2, <3>3, ScaleLess
    <3>. QED  BY <1>4, <1>5, <3>4 DEF Leaves, c, r
  <2>4. CASE z > c
    <3>1. cc <= zc
      <4>. HIDE DEF z, c
      <4>. QED  BY <1>1, <2>4
    <3>2. bbr < bbz
      <4>0. bbr \in Int  BY <1>2
      <4>. HIDE DEF cc, zd, zc, cd, bbr, bbc, bbz
      <4>. QED  BY <1>1, <2>1, <2>2, <3>1, <4>0
    <3>. HIDE DEF z, r
    <3>3. r < z  BY <1>1, <1>2, <3>2, ScaleLess
    <3>. QED  BY <1>4, <1>5, <3>3 DEF Leaves, z, r
  <2>. QED  BY <1>1, <2>3, <2>4
(* A divisor near the top, whose reciprocal is 0.                              *)
<1>7. CASE b * c < d
  <2>1. e = b
    <3>1. ASSUME e >= b + 1 PROVE FALSE
      <4>1. e * d >= (b + 1) * d /\ (b + 1) * d = b * d + d  BY <3>1
      <4>2. b * bb = b * d + b * c  OBVIOUS
      <4>3. b * bb \in Int /\ b * d \in Int /\ b * c \in Int /\ e * d \in Int  OBVIOUS
      <4>. QED  BY <1>1, <1>7, <4>1, <4>2, <4>3
    <3>. QED  BY <3>1
  <2>2. q1 = u2 /\ q0 = u1
    <3>1. q1 * b + q0 = u2 * b + u1
      <4>1. b * u2 = u2 * b  OBVIOUS
      <4>. QED  BY <2>1, <4>1
    <3>. QED  BY <1>1, <3>1, LimbsLess
  <2>3. r = c * u2 + u0 + z - d
    <3>1. (u2 + 1) * d = u2 * d + d /\ c * u2 = u2 * bb - u2 * d  OBVIOUS
    <3>2. u2 * d \in Int /\ u2 * bb \in Int /\ u1 * b \in Int  OBVIOUS
    <3>. QED  BY <1>1, <2>2, <3>1, <3>2
  <2>4. c * u2 + u0 < d
    <3>1. c <= b - 1
      <4>1. ASSUME c >= b PROVE FALSE
        <5>1. b * c >= b * b  BY <1>1, <4>1
        <5>2. b * c \in Int  BY <1>1
        <5>. QED  BY <1>7, <5>1, <5>2
      <4>. QED  BY <1>1, <4>1
    <3>2. c * u2 <= c * (b - 1) /\ c * (b - 1) = b * c - c
      <4>. HIDE DEF c
      <4>. QED  BY <1>1
    <3>3. b * c <= b * (b - 1) /\ b * (b - 1) = bb - b
      <4>. HIDE DEF c
      <4>. QED  BY <1>1, <3>1
    <3>4. c * u2 \in Int /\ c * (b - 1) \in Int /\ b * c \in Int  BY <1>1
    <3>5. c = bb - d  OBVIOUS
    <3>. DEFINE s1 == c * u2
                s2 == c * (b - 1)
                s3 == b * c
    <3>6. s1 <= s2 /\ s2 = s3 - c /\ s3 <= bb - b /\ s1 \in Int /\ s2 \in Int /\ s3 \in Int
      <4>1. b * (b - 1) \in Int  OBVIOUS
      <4>. QED  BY <3>2, <3>3, <3>4, <4>1
    <3>. HIDE DEF s1, s2, s3, c
    <3>7. s1 + u0 < d  BY <1>1, <3>5, <3>6
    <3>. QED  BY <3>7 DEF s1
  <2>5. r < z
    <3>1. c * u2 \in Int  BY <1>1
    <3>. QED  BY <1>1, <2>3, <2>4, <3>1
  <2>. HIDE DEF r, z
  <2>. QED  BY <1>4, <1>5, <2>5 DEF Leaves, r, z
<1>8. b * c \in Int  BY <1>1
<1>. QED  BY <1>6, <1>7, <1>8

(* What is below h * h has two limbs in base h.                                *)
LEMMA TwoLimbs ==
    ASSUME NEW h \in Nat \ {0}, NEW g \in 0..h * h - 1
    PROVE  g \div h \in 0..h - 1 /\ g % h \in 0..h - 1 /\ g = (g \div h) * h + (g % h)
<1>. DEFINE e == g \div h
            f == g % h
            hh == h * h
<1>1. g \in Int /\ g \in 0..hh - 1 /\ hh \in Nat  OBVIOUS
<1>2. g = e * h + f /\ e \in Int /\ f \in 0..h - 1  BY <1>1, DivMod
<1>. HIDE DEF e, f
<1>3. e >= 0
  <2>1. ASSUME e <= -1 PROVE FALSE
    <3>1. e * h <= (-1) * h /\ (-1) * h = -h /\ e * h \in Int  BY <1>2, <2>1
    <3>. HIDE DEF hh
    <3>. QED  BY <1>1, <1>2, <3>1
  <2>. QED  BY <1>2, <2>1
<1>4. e < h
  <2>1. ASSUME e >= h PROVE FALSE
    <3>1. e * h >= hh /\ e * h \in Int  BY <1>2, <2>1
    <3>. HIDE DEF hh
    <3>. QED  BY <1>1, <1>2, <3>1
  <2>. QED  BY <1>2, <2>1
<1>. QED  BY <1>2, <1>3, <1>4 DEF e, f

(* A product of half words leaves room for two more half words.                *)
LEMMA HalvesFit ==
    ASSUME NEW h \in Nat \ {0}, NEW a \in 0..h - 1, NEW c \in 0..h - 1
    PROVE  a * c \in 0..h * h - 2 * h + 1
<1>1. a * c <= (h - 1) * c /\ (h - 1) * c <= (h - 1) * (h - 1) /\ a * c \in Nat
  OBVIOUS
<1>2. (h - 1) * (h - 1) = h * h - 2 * h + 1 /\ (h - 1) * c \in Int /\ h * h \in Int
  OBVIOUS
<1>. QED  BY <1>1, <1>2

(* The four products of half words, carried from each to the next.             *)
HalvesProduct(h, a1, a0, c1, c0, t0, t1, t2, t3, u1, u2, p, l) ==
    /\ t0 \in 0..h * h - 1 /\ t1 \in 0..h * h - 1 /\ t2 \in 0..h * h - 1
    /\ t3 \in 0..h * h - 1 /\ u1 \in 0..h * h - 1 /\ u2 \in 0..h * h - 1
    /\ p \in 0..h * h - 1 /\ l \in 0..h * h - 1
    /\ t3 + u2 \div h \in 0..h * h - 1
    /\ p * (h * h) + l = (a1 * h + a0) * (c1 * h + c0)

LEMMA HalvesTimes ==
    ASSUME NEW h \in Nat \ {0}, NEW a1 \in 0..h - 1, NEW a0 \in 0..h - 1,
           NEW c1 \in 0..h - 1, NEW c0 \in 0..h - 1,
           NEW t0, t0 = a0 * c0, NEW t1, t1 = a1 * c0,
           NEW t2, t2 = a0 * c1, NEW t3, t3 = a1 * c1,
           NEW u1, u1 = t1 + t0 \div h, NEW u2, u2 = t2 + (u1 % h),
           NEW p, p = t3 + u2 \div h + u1 \div h, NEW l, l = (u2 % h) * h + (t0 % h)
    PROVE  HalvesProduct(h, a1, a0, c1, c0, t0, t1, t2, t3, u1, u2, p, l)
<1>. DEFINE hh == h * h
            top == hh - 2 * h + 1
<1>1. /\ t0 \in 0..top /\ t1 \in 0..top /\ t2 \in 0..top /\ t3 \in 0..top
  BY HalvesFit
<1>2. hh \in Nat /\ h <= hh  BY TimesOne
<1>3. ASSUME NEW g \in 0..hh - 1
      PROVE  g \div h \in 0..h - 1 /\ g % h \in 0..h - 1 /\ g = (g \div h) * h + (g % h)
  BY TwoLimbs
<1>. HIDE DEF hh
<1>4. t0 \in 0..hh - 1  BY <1>1, <1>2
<1>. DEFINE e0 == t0 \div h
            f0 == t0 % h
            e1 == u1 \div h
            f1 == u1 % h
            e2 == u2 \div h
            f2 == u2 % h
<1>5. e0 \in 0..h - 1 /\ f0 \in 0..h - 1 /\ t0 = e0 * h + f0  BY <1>3, <1>4
<1>. HIDE DEF e0, f0
<1>6. u1 = t1 + e0 /\ u1 \in 0..hh - 1  BY <1>1, <1>2, <1>5 DEF e0
<1>7. e1 \in 0..h - 1 /\ f1 \in 0..h - 1 /\ u1 = e1 * h + f1  BY <1>3, <1>6
<1>. HIDE DEF e1, f1
<1>8. u2 = t2 + f1 /\ u2 \in 0..hh - 1
  <2>1. u2 = t2 + f1  BY DEF f1
  <2>2. t2 + f1 \in 0..hh - 1  BY <1>1, <1>2, <1>7
  <2>. QED  BY <2>1, <2>2
<1>9. e2 \in 0..h - 1 /\ f2 \in 0..h - 1 /\ u2 = e2 * h + f2  BY <1>3, <1>8
<1>. HIDE DEF e2, f2
<1>10. p = t3 + e2 + e1 /\ l = f2 * h + f0  BY DEF e1, e2, f0, f2
<1>11. p \in 0..hh - 1 /\ t3 + e2 \in 0..hh - 1  BY <1>1, <1>2, <1>7, <1>9, <1>10
<1>12. l \in 0..hh - 1  BY <1>5, <1>9, <1>10, LimbsIn DEF hh
<1>13. p * hh + l = (a1 * h + a0) * (c1 * h + c0)
  <2>1. (e2 * h + f2) * h = e2 * hh + f2 * h /\ (e1 * h + f1) * h = e1 * hh + f1 * h
    BY <1>7, <1>9 DEF hh
  <2>2. (t2 + f1) * h = t2 * h + f1 * h /\ (t1 + e0) * h = t1 * h + e0 * h
    BY <1>1, <1>2, <1>5, <1>7
  <2>3. (t3 + e2 + e1) * hh = t3 * hh + e2 * hh + e1 * hh
    BY <1>1, <1>2, <1>7, <1>9
  <2>4. p * hh + l = t3 * hh + t2 * h + t1 * h + t0
    <3>. DEFINE A == e2 * hh
                C == f2 * h
                D == e1 * hh
                E == f1 * h
                F == t2 * h
                G == t1 * h
                I == e0 * h
                J == t3 * hh
                K == p * hh
    <3>1. /\ A \in Int /\ C \in Int /\ D \in Int /\ E \in Int /\ F \in Int /\ G \in Int
          /\ I \in Int /\ J \in Int /\ f0 \in Int
      BY <1>1, <1>2, <1>5, <1>7, <1>9
    <3>2. u2 * h = A + C /\ u1 * h = D + E /\ u2 * h = F + E /\ u1 * h = G + I
          /\ t0 = I + f0 /\ K = J + A + D /\ l = C + f0
      BY <2>1, <2>2, <2>3, <1>5, <1>6, <1>7, <1>8, <1>9, <1>10
    <3>. HIDE DEF A, C, D, E, F, G, I, J, K
    <3>3. A + C = F + E /\ D + E = G + I  BY <3>2
    <3>4. /\ t0 = I + f0 /\ K = J + A + D /\ l = C + f0 /\ A + C = F + E /\ D + E = G + I
      BY <3>2, <3>3
    <3>5. (J + A + D) + (C + f0) = J + F + G + (I + f0)  BY <3>1, <3>4
    <3>6. K + l = J + F + G + t0  BY <3>4, <3>5
    <3>. QED  BY <3>6 DEF J, F, G, K
  <2>5. (a1 * h + a0) * (c1 * h + c0)
          = (a1 * c1) * (h * h) + (a0 * c1) * h + (a1 * c0) * h + a0 * c0
    OBVIOUS
  <2>. QED  BY <2>4, <2>5 DEF hh
<1>14. t1 \in 0..hh - 1 /\ t2 \in 0..hh - 1 /\ t3 \in 0..hh - 1  BY <1>1, <1>2
<1>. QED  BY <1>4, <1>6, <1>8, <1>11, <1>12, <1>13, <1>14 DEF hh, e2, HalvesProduct

(* A normalized remainder shifted back.                                        *)
Divided(a, d, c, f, l, e) ==
    l = e * c /\ e \in Nat /\ e < d /\ f <= a /\ f = a \div d /\ e = a % d

LEMMA Unshifted ==
    ASSUME NEW X \in Nat, NEW Y \in Nat \ {0}, NEW S \in Nat \ {0}, NEW F \in Nat, NEW L \in Nat,
           F * (Y * S) + L = X * S, L < (Y * S) * 1,
           NEW R, R = X - F * Y
    PROVE  Divided(X, Y, S, F, L, R)
<1>1. F * Y \in Nat /\ R \in Int /\ X = F * Y + R
  <2>. DEFINE e == F * Y
  <2>1. e \in Nat  OBVIOUS
  <2>. HIDE DEF e
  <2>2. R = X - e  BY DEF e
  <2>. QED  BY <2>1, <2>2 DEF e
<1>2. L = R * S
  <2>1. (X - F * Y) * S = X * S - F * (Y * S)  OBVIOUS
  <2>. DEFINE e == F * (Y * S)
              g == X * S
  <2>2. e \in Int /\ g \in Int /\ R * S = g - e /\ e + L = g  BY <2>1
  <2>. HIDE DEF e, g
  <2>. QED  BY <2>2
<1>3. R >= 0
  <2>1. ASSUME R <= -1 PROVE FALSE
    <3>1. R * S <= (-1) * S /\ (-1) * S = -S  BY <1>1, <2>1
    <3>. QED  BY <1>2, <3>1
  <2>. QED  BY <1>1, <2>1
<1>4. R < Y
  <2>1. ASSUME R >= Y PROVE FALSE
    <3>1. R * S >= Y * S /\ (Y * S) * 1 = Y * S /\ Y * S \in Int  BY <1>1, <2>1
    <3>. QED  BY <1>2, <3>1
  <2>. QED  BY <1>1, <2>1
<1>5. F = X \div Y /\ R = X % Y
  <2>1. R \in 0..Y - 1 /\ X \in Int /\ F \in Int  BY <1>1, <1>3, <1>4
  <2>. QED  BY <1>1, <2>1, DivModIs
<1>6. F <= X
  <2>1. F <= F * Y
    <3>1. 1 <= Y /\ Y \in Nat  OBVIOUS
    <3>. QED  BY <3>1, TimesOne
  <2>. QED  BY <1>1, <1>3, <2>1
<1>. QED  BY <1>1, <1>2, <1>3, <1>4, <1>5, <1>6 DEF Divided

===============================================================================

----------------------------- MODULE ServiceProofs ----------------------------
(* What a game makes of its digest, for words of any width, any range, any     *)
(* number of cards and every number of draws.                                  *)
EXTENDS Service, Arithmetic

-------------------------------------------------------------------------------
(* cut_to.                                                                     *)

LEMMA Largest64 == UINT64_MAX \in Nat \ {0} /\ 2^W = UINT64_MAX + 1
BY PowerAboveOne, ServiceAssumption DEF UINT64_MAX

(* Folding a digest into two halves keeps it modulo any M that divides the     *)
(* largest word.                                                               *)
LEMMA FoldKeeps ==
    ASSUME NEW d \in Digests, NEW M \in Nat \ {0}, NEW c \in Nat,
           UINT64_MAX = c * M
    PROVE  CutToHalves(d) % M = to_intx(d) % M
<1>. DEFINE L == UINT64_MAX
            a == d[1] * (L + 1) + d[2]
            b == d[3] * (L + 1) + d[4]
            ad == a \div L
            am == a % L
            bd == b \div L
            bm == b % L
            folded == am * (L + 1) + bm
            k == a * (L + 1) + ad * (L + 1) + bd
<1>1. L \in Nat \ {0} /\ L = c * M  BY Largest64
<1>2. /\ CutToHalves(d) = folded
      /\ to_intx(d) = (a * (L + 1) + d[3]) * (L + 1) + d[4]
  BY Largest64 DEF CutToHalves, to_intx
<1>3. d[1] \in Nat /\ d[2] \in Nat /\ d[3] \in Nat /\ d[4] \in Nat
  BY Largest64 DEF Digests
<1>. HIDE DEF L
<1>4. a \in Int /\ b \in Int  BY <1>1, <1>3
<1>5. to_intx(d) = (a * (L + 1)) * (L + 1) + b
  <2>1. ASSUME NEW g \in Int, NEW u \in Nat, NEW v \in Nat
        PROVE  (g + u) * (L + 1) + v = g * (L + 1) + (u * (L + 1) + v)
    BY <1>1
  <2>2. a * (L + 1) \in Int  BY <1>1, <1>4
  <2>. HIDE DEF a
  <2>3. (a * (L + 1) + d[3]) * (L + 1) + d[4]
          = (a * (L + 1)) * (L + 1) + (d[3] * (L + 1) + d[4])
    BY <1>3, <2>1, <2>2
  <2>. QED  BY <1>2, <2>3
<1>. HIDE DEF a, b
<1>6. ASSUME NEW x \in Int
      PROVE  x = (x \div L) * L + (x % L) /\ x \div L \in Int /\ x % L \in Int
  <2>1. x % L \in 0..L - 1  BY <1>1, DivMod
  <2>2. x % L \in Int  BY <1>1, <2>1
  <2>3. x = (x \div L) * L + (x % L) /\ x \div L \in Int  BY <1>1, DivMod, Zenon
  <2>. QED  BY <2>2, <2>3
<1>7. /\ a = ad * L + am /\ ad \in Int /\ am \in Int
      /\ b = bd * L + bm /\ bd \in Int /\ bm \in Int
  BY <1>4, <1>6
<1>. HIDE DEF ad, am, bd, bm
<1>8. (a * (L + 1)) * (L + 1) + b = folded + k * L
  <2>. DEFINE g == a * (L + 1)
              h == ad * (L + 1)
  <2>1. g = am * (L + 1) + h * L  BY <1>1, <1>7
  <2>2. g \in Int /\ h \in Int  BY <1>1, <1>4, <1>7
  <2>. HIDE DEF g, h
  <2>3. g * (L + 1) + (bd * L + bm) = (am * (L + 1) + bm) + (g + h + bd) * L
    BY <1>1, <1>7, <2>1, <2>2
  <2>. QED  BY <1>7, <2>3 DEF g, h
<1>9. folded \in Int /\ k \in Int  BY <1>1, <1>4, <1>7
<1>. HIDE DEF folded, k
<1>10. k * L = (k * c) * M /\ k * c \in Int  BY <1>1, <1>9
<1>11. (folded + (k * c) * M) % M = folded % M  BY <1>9, <1>10, ModShift
<1>. QED  BY <1>2, <1>5, <1>8, <1>10, <1>11

LEMMA CutFolds ==
    ASSUME hash \in Digests
    PROVE  CutIsModulo
<1>. SUFFICES ASSUME NEW bits \in 1..W, W % bits = 0
              PROVE  cut_to(hash, bits) = to_intx(hash) % (2^bits - 1)
  BY DEF CutIsModulo
<1>1. bits \in Nat \ {0} /\ W \in Nat  BY ServiceAssumption
<1>2. W \div bits \in Nat /\ W = bits * (W \div bits)
  <2>1. W = (W \div bits) * bits + 0 /\ W \div bits \in Int  BY <1>1, DivMod
  <2>2. W \div bits >= 0  BY <1>1
  <2>. QED  BY <1>1, <2>1, <2>2
<1>3. PICK c \in Nat : UINT64_MAX = c * (2^bits - 1)
  <2>1. PICK c \in Nat : 2^(bits * (W \div bits)) - 1 = c * (2^bits - 1)
    BY <1>1, <1>2, LargestDivides
  <2>. QED  BY <1>2, <2>1 DEF UINT64_MAX
<1>4. 2^bits - 1 \in Nat \ {0}  BY <1>1, PowerAboveOne
<1>. QED  BY <1>3, <1>4, FoldKeeps DEF cut_to

-------------------------------------------------------------------------------
(* next.                                                                       *)

(* The numbers below n * m that are r modulo m are n.                          *)
LEMMA ClassSize ==
    ASSUME NEW m \in Nat \ {0}, NEW n \in Nat, NEW r \in 0..m - 1
    PROVE  Cardinality({h \in 0..n * m - 1 : h % m = r}) = n
<1>. DEFINE class == {h \in 0..n * m - 1 : h % m = r}
            f == [k \in 0..n - 1 |-> k * m + r]
<1>1. ASSUME NEW k \in 0..n - 1 PROVE k * m + r \in class
  <2>1. (k * m + r) % m = r  BY ModIs
  <2>2. k * m \in Nat /\ k * m + m <= n * m
    <3>1. (k + 1) * m <= n * m /\ (k + 1) * m = k * m + m  OBVIOUS
    <3>2. k * m \in Nat  OBVIOUS
    <3>. QED  BY <3>1, <3>2
  <2>3. n * m \in Nat  OBVIOUS
  <2>4. k * m + r \in 0..n * m - 1
    <3>. DEFINE a == k * m
                b == n * m
    <3>. HIDE DEF a, b
    <3>1. a \in Nat /\ b \in Nat /\ a + m <= b  BY <2>2, <2>3 DEF a, b
    <3>2. a + r \in 0..b - 1  BY <3>1
    <3>. QED  BY <3>2 DEF a, b
  <2>. QED  BY <2>1, <2>4
<1>2. ASSUME NEW k \in 0..n - 1, NEW l \in 0..n - 1, k * m + r = l * m + r
      PROVE  k = l
  <2>1. k < l => (k + 1) * m <= l * m  OBVIOUS
  <2>2. l < k => (l + 1) * m <= k * m  OBVIOUS
  <2>3. (k + 1) * m = k * m + m /\ (l + 1) * m = l * m + m  OBVIOUS
  <2>4. k * m = l * m  BY <1>2
  <2>. QED  BY <2>1, <2>2, <2>3, <2>4
<1>3. ASSUME NEW h \in class PROVE \E k \in 0..n - 1 : f[k] = h
  <2>1. h \in Nat /\ h < n * m /\ h % m = r  OBVIOUS
  <2>2. h = (h \div m) * m + r /\ h \div m \in Int  BY <2>1, DivMod
  <2>3. h \div m \in 0..n - 1
    <3>. DEFINE k == h \div m
    <3>. HIDE DEF k
    <3>1. k \in Int /\ h = k * m + r  BY <2>2 DEF k
    <3>2. k < 0 => (k + 1) * m <= 0 * m /\ (k + 1) * m = k * m + m  BY <3>1
    <3>3. k >= n => n * m <= k * m  BY <3>1
    <3>4. k \in 0..n - 1  BY <2>1, <3>1, <3>2, <3>3
    <3>. QED  BY <3>4 DEF k
  <2>. QED  BY <2>2, <2>3
<1>4. f \in Bijection(0..n - 1, class)
  <2>1. f \in [0..n - 1 -> class]  BY <1>1
  <2>2. \A k, l \in 0..n - 1 : f[k] = f[l] => k = l  BY <1>2
  <2>. HIDE DEF f, class
  <2>. QED  BY <1>3, <2>1, <2>2 DEF Bijection, Injection, Surjection, IsInjective
<1>. HIDE DEF f, class
<1>5. ExistsBijection(0..n - 1, class)  BY <1>4 DEF ExistsBijection
<1>6. IsFiniteSet(0..n - 1) /\ Cardinality(0..n - 1) = n
  <2>1. IsFiniteSet(0..n - 1)
        /\ Cardinality(0..n - 1) = IF 0 > n - 1 THEN 0 ELSE (n - 1) - 0 + 1
    <3>1. 0 \in Int /\ n - 1 \in Int  OBVIOUS
    <3>. QED  BY <3>1, FS_Interval
  <2>. QED  BY <2>1
<1>7. Cardinality(class) = n  BY <1>5, <1>6, FS_Bijection
<1>. QED  BY <1>7 DEF class

Ranges == {range \in [from : 0..UINT64_MAX, to : 0..UINT64_MAX] : range.from < range.to}

(* What CutThreshold keeps of all digests: whole classes, and more than half.  *)
LEMMA Threshold ==
    ASSUME NEW range \in Ranges
    PROVE  LET delta == range.to - range.from IN
           /\ delta \in 1..UINT64_MAX
           /\ UINT256_MAX \in Nat
           /\ \E n \in Nat : CutThreshold(range) = n * delta
           /\ CutThreshold(range) \in 0..UINT256_MAX
           /\ 2 * CutThreshold(range) > UINT256_MAX
<1>. DEFINE delta == range.to - range.from
            n == UINT256_MAX \div delta
            all == UINT256_MAX
<1>1. delta \in 1..UINT64_MAX  BY Largest64 DEF Ranges
<1>2. all \in Nat /\ 2 * delta <= all
  <2>1. /\ W \in Nat \ {0} /\ 3 * W \in Nat \ {0}
        /\ 4 * W = W + 3 * W /\ 4 * W \in Nat
    BY ServiceAssumption
  <2>2. 2^(4 * W) = 2^W * 2^(3 * W)  BY <2>1, PowerSum
  <2>3. 2^W \in Nat /\ 2^(3 * W) \in Nat /\ 2 <= 2^(3 * W) /\ 2 <= 2^W
    BY <2>1, PowerAboveOne
  <2>4. 2^W * 2 <= 2^W * 2^(3 * W) /\ 2^W * 2^(3 * W) \in Nat
    <3>1. ASSUME NEW a \in Nat, NEW b \in Nat, 2 <= b PROVE a * 2 <= a * b /\ a * b \in Nat
      BY <3>1
    <3>. QED  BY <2>3, <3>1
  <2>5. all = 2^W * 2^(3 * W) - 1  BY <2>2 DEF UINT256_MAX
  <2>6. delta <= 2^W - 1 /\ delta \in Nat  BY <1>1, Largest64
  <2>. QED  BY <2>3, <2>4, <2>5, <2>6
<1>3. CutThreshold(range) = n * delta  BY DEF CutThreshold
<1>. HIDE DEF delta, all
<1>4. /\ UINT256_MAX = n * delta + (UINT256_MAX % delta)
      /\ n \in Int /\ UINT256_MAX % delta \in 0..delta - 1
  <2>1. UINT256_MAX \in Int /\ delta \in Nat \ {0}  BY <1>1, <1>2, Largest64 DEF all
  <2>. QED  BY <2>1, DivMod
<1>5. n \in Nat  BY <1>1, <1>2, Largest64 DEF all
<1>. HIDE DEF n
<1>6. n * delta \in Nat  BY <1>1, <1>5, Largest64
<1>7. UINT256_MAX \in Nat /\ 2 * delta <= UINT256_MAX  BY <1>2 DEF all
<1>8. n * delta \in 0..UINT256_MAX /\ 2 * (n * delta) > UINT256_MAX
  <2>. DEFINE t == n * delta
  <2>1. t \in Nat /\ delta \in Nat  BY <1>1, <1>6, Largest64
  <2>2. UINT256_MAX = t + (UINT256_MAX % delta)  BY <1>4
  <2>. HIDE DEF t
  <2>3. t \in 0..UINT256_MAX /\ 2 * t > UINT256_MAX  BY <1>4, <1>7, <2>1, <2>2
  <2>. QED  BY <2>3 DEF t
<1>. QED  BY <1>1, <1>3, <1>5, <1>7, <1>8 DEF delta

LEMMA DrawsFair ==
    ASSUME call # Idle => call \in Ranges
    PROVE  UniformDraws
<1>. SUFFICES ASSUME call # Idle PROVE
       LET taken == {h \in 0..UINT256_MAX : Lucky(call, h)}
       IN /\ \A v \in call.from..call.to - 1 :
               Cardinality({h \in taken : Drawn(call, h) = v}) * (call.to - call.from)
                 = Cardinality(taken)
          /\ 2 * Cardinality(taken) > UINT256_MAX
  BY DEF UniformDraws
<1>. DEFINE taken == {h \in 0..UINT256_MAX : Lucky(call, h)}
            delta == call.to - call.from
            t == CutThreshold(call)
<1>1. call \in Ranges  OBVIOUS
<1>2. /\ delta \in 1..UINT64_MAX /\ UINT256_MAX \in Nat
      /\ \E n \in Nat : t = n * delta
      /\ t \in 0..UINT256_MAX /\ 2 * t > UINT256_MAX
  BY <1>1, Threshold
<1>3. PICK n \in Nat : t = n * delta  BY <1>2
<1>4. taken = 0..t - 1
  <2>. HIDE DEF t
  <2>1. taken = {h \in 0..UINT256_MAX : h < t}  BY DEF Lucky, t
  <2>. QED  BY <1>2, <2>1
<1>. HIDE DEF taken, t
<1>5. Cardinality(taken) = t
  <2>1. Cardinality(0..t - 1) = IF 0 > t - 1 THEN 0 ELSE (t - 1) - 0 + 1
    <3>1. 0 \in Int /\ t - 1 \in Int  BY <1>2
    <3>. QED  BY <3>1, FS_Interval
  <2>. QED  BY <1>2, <1>4, <2>1
<1>6. ASSUME NEW v \in call.from..call.to - 1
      PROVE  Cardinality({h \in taken : Drawn(call, h) = v}) * delta = t
  <2>1. /\ call.from \in Nat /\ call.to \in Nat /\ call.from < call.to
        /\ call.to <= UINT64_MAX /\ UINT64_MAX \in Nat /\ 2^W = UINT64_MAX + 1
    BY <1>1, Largest64 DEF Ranges
  <2>2. delta \in Nat \ {0} /\ v - call.from \in 0..delta - 1  BY <2>1
  <2>3. ASSUME NEW h \in Nat
        PROVE  Drawn(call, h) = v <=> h % delta = v - call.from
    <3>1. h % delta \in 0..delta - 1  BY <2>2, DivMod
    <3>2. (h % delta) + call.from \in 0..2^W - 1  BY <2>1, <3>1
    <3>3. 2^W \in Nat \ {0}  BY <2>1
    <3>4. ((h % delta) + call.from) % 2^W = (h % delta) + call.from
      BY <3>2, <3>3
    <3>5. Drawn(call, h) = (h % delta) + call.from  BY <3>4 DEF Drawn
    <3>6. v \in Nat  BY <2>1
    <3>. QED  BY <2>1, <3>1, <3>5, <3>6
  <2>4. {h \in taken : Drawn(call, h) = v}
          = {h \in 0..n * delta - 1 : h % delta = v - call.from}
    BY <1>3, <1>4, <2>3
  <2>5. Cardinality({h \in taken : Drawn(call, h) = v}) = n
    <3>. HIDE DEF delta
    <3>. QED  BY <2>2, <2>4, ClassSize
  <2>. QED  BY <1>3, <2>5
<1>. QED  BY <1>2, <1>5, <1>6 DEF taken

-------------------------------------------------------------------------------
(* shuffle.                                                                    *)

(* The orders in which the cards after place k are those of seq.               *)
Open(seq, k) == {o \in Orders : \A p \in k + 1..Cards - 1 : o[p] = seq[p]}

LEMMA OrderIs ==
    ASSUME NEW seq \in Orders
    PROVE  /\ seq \in [Places -> Places]
           /\ \A w \in Places : \E p \in Places : seq[p] = w
           /\ \A p, w \in Places : seq[p] = seq[w] => p = w
<1>1. /\ seq \in [Places -> Places]
      /\ \A w \in Places : \E p \in Places : seq[p] = w
  BY DEF Orders
<1>2. IsFiniteSet(Places)
  <2>1. 0 \in Int /\ Cards - 1 \in Int  BY ServiceAssumption
  <2>. QED  BY <2>1, FS_Interval DEF Places
<1>3. seq \in Surjection(Places, Places)  BY <1>1 DEF Surjection
<1>4. seq \in Injection(Places, Places)
  BY <1>2, <1>3, FS_SurjSameCardinalityImpliesInj
<1>. QED  BY <1>1, <1>4 DEF Injection, IsInjective

LEMMA IsOrder ==
    ASSUME NEW seq \in [Places -> Places],
           \A w \in Places : \E p \in Places : seq[p] = w
    PROVE  seq \in Orders
BY DEF Orders

LEMMA OtherIn ==
    ASSUME NEW k \in Places, NEW number \in Nat
    PROVE  number % (k + 1) \in Places /\ number % (k + 1) <= k /\ k \in Nat
<1>1. k \in Nat /\ k <= Cards - 1 /\ Cards \in Nat
  BY ServiceAssumption DEF Places
<1>2. number % (k + 1) \in 0..(k + 1) - 1  BY <1>1
<1>. QED  BY <1>1, <1>2 DEF Places

LEMMA SwapIsOrder ==
    ASSUME NEW seq \in Orders, NEW k \in Places, NEW number \in Nat
    PROVE  Swapped(seq, k, number) \in Orders
<1>. DEFINE other == number % (k + 1)
            new == Swapped(seq, k, number)
<1>1. other \in Places  BY OtherIn
<1>. HIDE DEF other
<1>2. seq \in [Places -> Places]  BY OrderIs
<1>3. new = [seq EXCEPT ![k] = seq[other], ![other] = seq[k]]
  BY DEF Swapped, other
<1>. HIDE DEF new
<1>4. /\ new \in [Places -> Places]
      /\ new[k] = seq[other] /\ new[other] = seq[k]
      /\ \A p \in Places \ {k, other} : new[p] = seq[p]
  BY <1>1, <1>2, <1>3
<1>5. ASSUME NEW w \in Places PROVE \E p \in Places : new[p] = w
  <2>1. PICK p \in Places : seq[p] = w  BY OrderIs
  <2>2. CASE p = k  BY <1>1, <1>4, <2>1, <2>2
  <2>3. CASE p = other  BY <1>4, <2>1, <2>3
  <2>4. CASE p \notin {k, other}  BY <1>4, <2>1, <2>4
  <2>. QED  BY <2>2, <2>3, <2>4
<1>. QED  BY <1>4, <1>5, IsOrder DEF new

(* One round moves a card to place k and leaves the places after it.           *)
LEMMA SwapMoves ==
    ASSUME NEW seq \in Orders, NEW k \in Places, NEW number \in Nat
    PROVE  /\ Swapped(seq, k, number)[k] = seq[number % (k + 1)]
           /\ \A p \in k + 1..Cards - 1 : Swapped(seq, k, number)[p] = seq[p]
<1>. DEFINE other == number % (k + 1)
<1>1. other \in Places /\ other <= k /\ k \in Nat /\ Cards \in Nat
  BY OtherIn, ServiceAssumption
<1>. HIDE DEF other
<1>2. seq \in [Places -> Places]  BY OrderIs
<1>3. Swapped(seq, k, number) = [seq EXCEPT ![k] = seq[other], ![other] = seq[k]]
  BY DEF Swapped, other
<1>4. ASSUME NEW p \in k + 1..Cards - 1 PROVE p \in Places \ {k, other}
  BY <1>1 DEF Places, other
<1>. QED  BY <1>1, <1>2, <1>3, <1>4 DEF other

LEMMA OpenNone ==
    ASSUME NEW seq \in Orders
    PROVE  Open(seq, 0) = {seq}
<1>1. seq \in Open(seq, 0)  BY DEF Open
<1>2. ASSUME NEW o \in Open(seq, 0) PROVE o = seq
  <2>1. o \in Orders /\ \A p \in 1..Cards - 1 : o[p] = seq[p]  BY DEF Open
  <2>2. /\ o \in [Places -> Places] /\ seq \in [Places -> Places]
        /\ 0 \in Places /\ Places = {0} \cup 1..Cards - 1
    <3>1. 0 \in Places /\ Places = {0} \cup 1..Cards - 1
      BY ServiceAssumption DEF Places
    <3>. QED  BY <2>1, <3>1, OrderIs
  <2>3. PICK p \in Places : o[p] = seq[0]  BY <2>1, <2>2, OrderIs
  <2>4. p = 0
    <3>. SUFFICES ASSUME p # 0 PROVE FALSE  OBVIOUS
    <3>1. p \in 1..Cards - 1  BY <2>2
    <3>2. seq[p] = seq[0]  BY <2>1, <2>3, <3>1
    <3>. QED  BY <2>2, <3>2, OrderIs
  <2>5. \A w \in Places : o[w] = seq[w]  BY <2>1, <2>2, <2>3, <2>4
  <2>. QED  BY <2>2, <2>5
<1>. QED  BY <1>1, <1>2

(* What is open before a round is what is open after it, for some number.      *)
LEMMA OpenMore ==
    ASSUME NEW seq \in Orders, NEW k \in Places \ {0}
    PROVE  Open(seq, k) = UNION {Open(Swapped(seq, k, number), k - 1) :
                                   number \in 0..UINT64_MAX - 1}
<1>1. /\ k \in Nat \ {0} /\ k - 1 \in Nat /\ (k - 1) + 1 = k /\ Cards \in Nat
      /\ k <= Cards - 1
  BY ServiceAssumption DEF Places
<1>2. ASSUME NEW number \in 0..UINT64_MAX - 1,
             NEW o \in Open(Swapped(seq, k, number), k - 1)
      PROVE  o \in Open(seq, k)
  <2>1. number \in Nat  BY Largest64
  <2>2. o \in Orders /\ \A p \in k..Cards - 1 : o[p] = Swapped(seq, k, number)[p]
    BY <1>1 DEF Open
  <2>3. ASSUME NEW p \in k + 1..Cards - 1 PROVE o[p] = seq[p]
    <3>1. p \in k..Cards - 1  BY <1>1
    <3>. QED  BY <2>1, <2>2, <3>1, SwapMoves
  <2>. QED  BY <2>2, <2>3 DEF Open
<1>3. ASSUME NEW o \in Open(seq, k)
      PROVE  \E number \in 0..UINT64_MAX - 1 : o \in Open(Swapped(seq, k, number), k - 1)
  <2>1. o \in Orders /\ \A p \in k + 1..Cards - 1 : o[p] = seq[p]  BY DEF Open
  <2>2. PICK number \in Places : seq[number] = o[k]  BY <2>1, OrderIs
  <2>3. number <= k
    <3>. SUFFICES ASSUME ~(number <= k) PROVE FALSE  OBVIOUS
    <3>1. number \in k + 1..Cards - 1 /\ number # k  BY <1>1 DEF Places
    <3>2. o[number] = o[k]  BY <2>1, <2>2, <3>1
    <3>. QED  BY <2>1, <3>1, <3>2, OrderIs
  <2>4. number \in Nat /\ number % (k + 1) = number
    <3>1. number \in Nat  BY DEF Places
    <3>. QED  BY <1>1, <2>3, <3>1
  <2>5. number \in 0..UINT64_MAX - 1
    <3>1. Cards < UINT64_MAX + 1  BY Largest64, ServiceAssumption
    <3>. QED  BY <1>1, <2>3, <2>4, <3>1, Largest64
  <2>6. ASSUME NEW p \in k..Cards - 1
        PROVE  o[p] = Swapped(seq, k, number)[p]
    <3>1. CASE p = k
      <4>1. Swapped(seq, k, number)[k] = seq[number % (k + 1)]  BY <2>4, SwapMoves
      <4>. QED  BY <2>2, <2>4, <3>1, <4>1
    <3>2. CASE p # k
      <4>1. p \in k + 1..Cards - 1  BY <1>1, <3>2
      <4>2. Swapped(seq, k, number)[p] = seq[p]  BY <2>4, <4>1, SwapMoves
      <4>. QED  BY <2>1, <4>1, <4>2
    <3>. QED  BY <3>1, <3>2
  <2>7. \A p \in (k - 1) + 1..Cards - 1 : o[p] = Swapped(seq, k, number)[p]
    BY <1>1, <2>6
  <2>. QED  BY <2>1, <2>5, <2>7 DEF Open
<1>. QED  BY <1>2, <1>3

(* Outcomes is defined by the places still open; they solve its equation, and  *)
(* no other function does.                                                     *)
Swaps(f, k) ==
    [seq \in Orders |->
       IF k = 0 THEN {seq}
       ELSE UNION {f[k - 1][Swapped(seq, k, number)] : number \in 0..UINT64_MAX - 1}]

LEMMA OutcomesRecur == Outcomes = [k \in Places |-> Swaps(Outcomes, k)]
<1>. DEFINE f == [k \in Places |-> [seq \in Orders |-> Open(seq, k)]]
<1>1. ASSUME NEW k \in Places PROVE f[k] = Swaps(f, k)
  <2>1. ASSUME NEW seq \in Orders
        PROVE  Open(seq, k) = IF k = 0 THEN {seq}
                 ELSE UNION {f[k - 1][Swapped(seq, k, number)] :
                               number \in 0..UINT64_MAX - 1}
    <3>1. CASE k = 0  BY <3>1, OpenNone
    <3>2. CASE k # 0
      <4>1. k - 1 \in Places  BY <3>2, ServiceAssumption DEF Places
      <4>2. ASSUME NEW number \in 0..UINT64_MAX - 1
            PROVE  f[k - 1][Swapped(seq, k, number)]
                     = Open(Swapped(seq, k, number), k - 1)
        <5>1. number \in Nat  BY Largest64
        <5>. QED  BY <4>1, <5>1, SwapIsOrder
      <4>. HIDE DEF f
      <4>3. Open(seq, k) = UNION {f[k - 1][Swapped(seq, k, number)] :
                                    number \in 0..UINT64_MAX - 1}
        BY <3>2, <4>2, OpenMore
      <4>. QED  BY <3>2, <4>3
    <3>. QED  BY <3>1, <3>2
  <2>2. f[k] = [seq \in Orders |-> Open(seq, k)]  OBVIOUS
  <2>. HIDE DEF f
  <2>. QED  BY <2>1, <2>2 DEF Swaps
<1>2. f = [k \in Places |-> f[k]]  OBVIOUS
<1>. HIDE DEF f
<1>3. f = [k \in Places |-> Swaps(f, k)]  BY <1>1, <1>2
<1>. DEFINE Solves(g) == g = [k \in Places |-> Swaps(g, k)]
<1>4. Outcomes = CHOOSE g : Solves(g)  BY DEF Outcomes, Swaps
<1>5. Solves(f)  BY <1>3
<1>. HIDE DEF Solves
<1>6. Solves(CHOOSE g : Solves(g))  BY <1>5
<1>7. Solves(Outcomes)  BY <1>4, <1>6
<1>. QED  BY <1>7 DEF Solves

LEMMA OutcomesOpen ==
    ASSUME NEW k \in Places, NEW seq \in Orders
    PROVE  Outcomes[k][seq] = Open(seq, k)
<1>. DEFINE S == {n \in Nat : n \in Places =>
                    \A o \in Orders : Outcomes[n][o] = Open(o, n)}
<1>1. 0 \in S
  <2>1. ASSUME NEW o \in Orders, 0 \in Places PROVE Outcomes[0][o] = Open(o, 0)
    <3>1. Outcomes[0] = Swaps(Outcomes, 0)  BY <2>1, OutcomesRecur
    <3>2. Swaps(Outcomes, 0)[o] = {o}  BY DEF Swaps
    <3>. QED  BY <3>1, <3>2, OpenNone
  <2>. QED  BY <2>1
<1>2. ASSUME NEW n \in S PROVE n + 1 \in S
  <2>1. ASSUME NEW o \in Orders, n + 1 \in Places
        PROVE  Outcomes[n + 1][o] = Open(o, n + 1)
    <3>1. /\ n \in Nat /\ n \in Places /\ n + 1 # 0 /\ (n + 1) - 1 = n
          /\ n + 1 \in Places \ {0}
      BY <2>1, ServiceAssumption DEF Places
    <3>2. Outcomes[n + 1] = Swaps(Outcomes, n + 1)  BY <2>1, OutcomesRecur
    <3>3. Swaps(Outcomes, n + 1)[o]
            = UNION {Outcomes[(n + 1) - 1][Swapped(o, n + 1, number)] :
                       number \in 0..UINT64_MAX - 1}
      BY <3>1 DEF Swaps
    <3>4. ASSUME NEW number \in 0..UINT64_MAX - 1
          PROVE  Outcomes[(n + 1) - 1][Swapped(o, n + 1, number)]
                   = Open(Swapped(o, n + 1, number), (n + 1) - 1)
      <4>1. number \in Nat  BY Largest64
      <4>2. Swapped(o, n + 1, number) \in Orders  BY <2>1, <4>1, SwapIsOrder
      <4>. QED  BY <3>1, <4>2
    <3>5. Open(o, n + 1) = UNION {Open(Swapped(o, n + 1, number), (n + 1) - 1) :
                                    number \in 0..UINT64_MAX - 1}
      BY <3>1, OpenMore
    <3>6. {Outcomes[(n + 1) - 1][Swapped(o, n + 1, number)] : number \in 0..UINT64_MAX - 1}
            = {Open(Swapped(o, n + 1, number), (n + 1) - 1) : number \in 0..UINT64_MAX - 1}
      BY <3>4
    <3>. QED  BY <3>2, <3>3, <3>5, <3>6
  <2>. QED  BY <2>1
<1>3. S \in SUBSET Nat  OBVIOUS
<1>. HIDE DEF S
<1>4. k \in Nat /\ k \in S
  <2>1. k \in Nat  BY DEF Places
  <2>. QED  BY <1>1, <1>2, <1>3, <2>1, NatInduct
<1>. QED  BY <1>4 DEF S

-------------------------------------------------------------------------------
(* The invariants.                                                             *)

(* Whatever is drawn, the digest is one, a range has two ends in order, and    *)
(* the cards are in some order.                                                *)
DrawInv ==
    /\ hash \in Digests
    /\ call # Idle => call \in Ranges
    /\ cards \in Orders
    /\ i \in Places

LEMMA DrawsEveryOrder ==
    ASSUME cards \in Orders, i \in Places
    PROVE  EveryOrder
BY OutcomesOpen DEF EveryOrder, Open

LEMMA InOrder == [k \in 0..Cards - 1 |-> k] \in Orders /\ 0 \in Places
<1>. DEFINE seq == [k \in 0..Cards - 1 |-> k]
<1>1. seq \in [Places -> Places]  BY DEF Places
<1>2. \A w \in Places : seq[w] = w  BY DEF Places
<1>3. 0 \in Places  BY ServiceAssumption DEF Places
<1>. HIDE DEF seq
<1>4. seq \in Orders  BY <1>1, <1>2, IsOrder
<1>. QED  BY <1>3, <1>4 DEF seq

LEMMA DrawnType ==
    ASSUME NEW range \in Ranges, NEW d \in Digests
    PROVE  Drawn(range, to_intx(d)) \in Nat
<1>. DEFINE n == to_intx(d)
            r == n % (range.to - range.from)
<1>1. 2^W \in Nat \ {0}  BY Largest64
<1>2. n \in Int
  <2>1. d[1] \in Int /\ d[2] \in Int /\ d[3] \in Int /\ d[4] \in Int
    BY Largest64 DEF Digests
  <2>. QED  BY <1>1, <2>1 DEF to_intx
<1>3. range.to - range.from \in Nat \ {0} /\ range.from \in Int
  BY Largest64 DEF Ranges
<1>. HIDE DEF n
<1>4. r \in Int  BY <1>2, <1>3
<1>5. Drawn(range, n) = (r + range.from) % 2^W  BY DEF Drawn
<1>. HIDE DEF r
<1>6. (r + range.from) % 2^W \in Nat  BY <1>1, <1>3, <1>4
<1>. QED  BY <1>5, <1>6 DEF n

LEMMA DrawInit == Init => DrawInv
BY InOrder DEF Init, DrawInv

LEMMA DrawStep ==
    ASSUME DrawInv, [Next]_vars
    PROVE  DrawInv'
<1>1. CASE Seed  BY <1>1, InOrder DEF Seed, DrawInv
<1>2. ASSUME NEW from \in 0..UINT64_MAX, NEW to \in 0..UINT64_MAX, Next64(from, to)
      PROVE  DrawInv'
  <2>1. [from |-> from, to |-> to] \in Ranges
    BY <1>2 DEF Next64, CanDraw, Ranges
  <2>. QED  BY <1>2, <2>1 DEF Next64, DrawInv
<1>3. CASE Draw  BY <1>2, <1>3 DEF Draw
<1>4. CASE ShuffleDraw
  <2>1. 0 \in 0..UINT64_MAX /\ UINT64_MAX \in 0..UINT64_MAX  BY Largest64
  <2>. QED  BY <1>2, <1>4, <2>1 DEF ShuffleDraw
<1>5. CASE Shuffle
  <2>1. Cards - 1 \in Places  BY ServiceAssumption DEF Places
  <2>. QED  BY <1>5, <2>1 DEF Shuffle, DrawInv
<1>6. CASE Reject  BY <1>6 DEF Reject, DrawInv
<1>7. CASE Return
  <2>1. UNCHANGED hash /\ call' = Idle  BY <1>7 DEF Return
  <2>2. CASE i = 0
    <3>1. UNCHANGED <<cards, i>>  BY <1>7, <2>2 DEF Return
    <3>. QED  BY <2>1, <3>1 DEF DrawInv
  <2>3. CASE i # 0
    <3>1. /\ cards' = Swapped(cards, i, Drawn(call, to_intx(hash)))
          /\ i' = i - 1
      BY <1>7, <2>3 DEF Return
    <3>2. i - 1 \in Places  BY <2>3, ServiceAssumption DEF Places, DrawInv
    <3>3. Drawn(call, to_intx(hash)) \in Nat
      BY <1>7, DrawnType DEF Return, DrawInv
    <3>4. cards' \in Orders  BY <3>1, <3>3, SwapIsOrder DEF DrawInv
    <3>. QED  BY <2>1, <3>1, <3>2, <3>4 DEF DrawInv
  <2>. QED  BY <2>2, <2>3
<1>8. CASE UNCHANGED vars  BY <1>8 DEF vars, DrawInv
<1>. QED  BY <1>1, <1>3, <1>4, <1>5, <1>6, <1>7, <1>8 DEF Next

THEOREM DrawsSound == Spec => []DrawInv
BY DrawInit, DrawStep, PTL DEF Spec

(* cut_to is the digest modulo the largest number of the type: no bit of the   *)
(* digest is lost, for words of any width and any type that divides one.       *)
THEOREM CutKeepsEveryBit == Spec => []CutIsModulo
<1>1. DrawInv => CutIsModulo  BY CutFolds DEF DrawInv
<1>. QED  BY <1>1, DrawsSound, PTL

(* Of every range each value is drawn from equally many digests, and more than *)
(* half of all digests are taken.                                              *)
THEOREM DrawsAreUniform == Spec => []UniformDraws
<1>1. DrawInv => UniformDraws  BY DrawsFair DEF DrawInv
<1>. QED  BY <1>1, DrawsSound, PTL

(* At every round of shuffle every order of the cards not yet placed can still *)
(* come about, and no other.                                                   *)
THEOREM EveryOrderComes == Spec => []EveryOrder
<1>1. DrawInv => EveryOrder  BY DrawsEveryOrder DEF DrawInv
<1>. QED  BY <1>1, DrawsSound, PTL

(* The counters hashed with the seed are those below the counter, which stops  *)
(* before it would wrap.                                                       *)
CounterInv ==
    /\ _cur_iter \in 0..UINT32_MAX
    /\ mixed = 0.._cur_iter - 1

(* Only next moves the counter, and only below its limit.                      *)
LEMMA CounterInit == Init => CounterInv
  BY ServiceAssumption DEF Init, CounterInv

LEMMA CounterStep ==
    ASSUME CounterInv, [Next]_vars
    PROVE  CounterInv'
<1> USE ServiceAssumption DEF CounterInv
<1>1. CASE Seed  BY <1>1 DEF Seed
<1>2. ASSUME NEW from, NEW to, Next64(from, to)
      PROVE  CounterInv'
  <2>1. _cur_iter < UINT32_MAX  BY <1>2 DEF Next64, CanDraw
  <2>2. (_cur_iter + 1) % (UINT32_MAX + 1) = _cur_iter + 1  BY <2>1
  <2>3. _cur_iter' = _cur_iter + 1 /\ mixed' = mixed \cup {_cur_iter}
    BY <1>2, <2>2 DEF Next64
  <2> QED  BY <2>1, <2>3
<1>3. CASE Draw  BY <1>2, <1>3 DEF Draw
<1>4. CASE ShuffleDraw  BY <1>2, <1>4 DEF ShuffleDraw
<1>5. CASE Shuffle  BY <1>5 DEF Shuffle
<1>6. CASE Reject  BY <1>6 DEF Reject
<1>7. CASE Return  BY <1>7 DEF Return
<1>8. CASE UNCHANGED vars  BY <1>8 DEF vars
<1> QED  BY <1>1, <1>3, <1>4, <1>5, <1>6, <1>7, <1>8 DEF Next

(* A generator never hashes the same seed and counter twice.                   *)
THEOREM GeneratorNeverRepeats == Spec => NoRepeat
<1>1. Spec => []CounterInv  BY CounterInit, CounterStep, PTL DEF Spec
<1>2. CounterInv => (mixed' # {} /\ _cur_iter' # _cur_iter => _cur_iter \notin mixed)
  BY ServiceAssumption DEF CounterInv
<1> QED  BY <1>1, <1>2, PTL DEF NoRepeat
===============================================================================

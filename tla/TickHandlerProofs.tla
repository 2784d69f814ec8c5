------------------------- MODULE TickHandlerProofs --------------------------
(***************************************************************************)
(* Proofs about prices, for every ring, every threshold, all prices, and   *)
(* any number of symbols, ticks and quotes.                                *)
(***************************************************************************)
EXTENDS TickHandler, SequenceTheorems, WellFoundedInduction, TLAPS

-----------------------------------------------------------------------------
(* Basis points. *)

\* Division by a positive number is monotone and keeps integers.
LEMMA DivMonotone ==
  ASSUME NEW a \in Int, NEW b \in Int, NEW d \in Nat \ {0}, a <= b
  PROVE  a \div d <= b \div d
<1>1. /\ a \div d \in Int /\ b \div d \in Int
      /\ a % d \in 0..(d - 1) /\ b % d \in 0..(d - 1)
      /\ a = d * (a \div d) + (a % d) /\ b = d * (b \div d) + (b % d)
  <2>1. a \div d \in Int /\ b \div d \in Int
    OBVIOUS
  <2>2. a % d \in 0..(d - 1) /\ b % d \in 0..(d - 1)
    OBVIOUS
  <2>3. a = d * (a \div d) + (a % d)
    OBVIOUS
  <2>4. b = d * (b \div d) + (b % d)
    OBVIOUS
  <2> QED
    BY <2>1, <2>2, <2>3, <2>4
<1>2. ASSUME NEW x \in Int, NEW y \in Int, x > y PROVE d * x >= d * y + d
  <2>1. x - y >= 1 /\ x - y \in Int
    BY <1>2
  <2>2. d * (x - y) >= d
    BY <2>1
  <2>3. d * (x - y) = d * x - d * y
    OBVIOUS
  <2>4. d * x \in Int /\ d * y \in Int
    OBVIOUS
  <2> QED
    BY <2>2, <2>3, <2>4
<1> QED
  BY <1>1, <1>2

\* A quotient is negative or zero below the divisor, positive or zero from 0 on.
LEMMA DivSign ==
  ASSUME NEW a \in Int, NEW d \in Nat \ {0}
  PROVE  /\ a \div d \in Int
         /\ a < d => a \div d <= 0
         /\ a >= 0 => a \div d >= 0
OBVIOUS

\* The move in basis points follows the price and has the sign of the move.
LEMMA BpsFacts ==
  ASSUME NEW p \in Nat, NEW q \in Nat, NEW base \in Nat \ {0}
  PROVE  /\ Bps(p, base) \in Int
         /\ p <= q => Bps(p, base) <= Bps(q, base)
         /\ p <= base => Bps(p, base) <= 0
         /\ p >= base => Bps(p, base) >= 0
<1> DEFINE up(x) == 20000 * (x - base) + base
<1>1. up(p) \in Int /\ up(q) \in Int /\ 2 * base \in Nat \ {0}
  OBVIOUS
<1>2. p <= q => up(p) <= up(q)
  OBVIOUS
<1>3. (p <= base => up(p) < 2 * base) /\ (p >= base => up(p) >= 0)
  OBVIOUS
<1>4. Bps(p, base) = up(p) \div (2 * base) /\ Bps(q, base) = up(q) \div (2 * base)
  BY DEF Bps
<1> HIDE DEF up
<1> QED
  BY <1>1, <1>2, <1>3, <1>4, DivMonotone, DivSign
-----------------------------------------------------------------------------
(* The look-back. *)

MetricsType ==
  [prices : [0..(RING - 1) -> Nat], times : [0..(RING - 1) -> Nat], head : 0..(RING - 1),
   len : 0..RING]

LEMMA BackType ==
  ASSUME NEW m \in MetricsType, NEW k \in Nat
  PROVE  Back(m, k) \in 0..(RING - 1)
BY RingIsPositive DEF Back, MetricsType

\* The walk through the ring ends: some sample is the first that is old enough,
\* or the oldest.
LEMMA WalkEnds ==
  ASSUME NEW m \in MetricsType, NEW age \in Nat, m.len # 0
  PROVE  LET target == m.times[Back(m, 0)] - age
             walk == CHOOSE k \in 0..(m.len - 1) : EndsAt(m, target, k)
         IN  walk \in 0..(m.len - 1) /\ EndsAt(m, target, walk)
<1> DEFINE target == m.times[Back(m, 0)] - age
           T == {k \in 0..(m.len - 1) : m.times[Back(m, k)] <= target \/ k = m.len - 1}
           R == OpToRel(<, Nat)
<1>1. m.len \in Nat \ {0}
  BY DEF MetricsType
<1>2. T \subseteq Nat /\ m.len - 1 \in T
  BY <1>1
<1>3. \A x, y \in Nat : y < x => <<y, x>> \in R
  BY DEF OpToRel
<1>4. PICK k \in T : \A j \in T : ~(<<j, k>> \in R)
  <2> HIDE DEF T, R
  <2>1. IsWellFoundedOn(R, Nat)
    BY NatLessThanWellFounded DEF R
  <2> QED
    BY <1>2, <2>1, WFMin
<1>5. k \in 0..(m.len - 1) /\ (m.times[Back(m, k)] <= target \/ k = m.len - 1)
  BY <1>4
<1>6. \A j \in 0..(k - 1) : j \in 0..(m.len - 1) /\ j \notin T
  <2> HIDE DEF T, R
  <2> SUFFICES ASSUME NEW j \in 0..(k - 1) PROVE j \in 0..(m.len - 1) /\ j \notin T
    OBVIOUS
  <2>1. j \in Nat /\ k \in Nat /\ j < k /\ j \in 0..(m.len - 1)
    BY <1>1, <1>5
  <2> QED
    BY <1>3, <1>4, <2>1
<1>7. target \in Int /\ \A j \in 0..(k - 1) : m.times[Back(m, j)] \in Nat
  <2>1. m.times \in [0..(RING - 1) -> Nat]
    BY DEF MetricsType
  <2>2. \A j \in 0..(k - 1) : j \in Nat
    BY <1>1, <1>5
  <2>3. 0 \in Nat /\ \A j \in Nat : Back(m, j) \in 0..(RING - 1)
    BY BackType
  <2>4. \A j \in Nat : m.times[Back(m, j)] \in Nat
    BY <2>1, <2>3
  <2>5. target \in Int
    BY <2>4
  <2> HIDE DEF target
  <2> QED
    BY <2>2, <2>4, <2>5
<1>8. \A j \in 0..(k - 1) : m.times[Back(m, j)] > target
  BY <1>6, <1>7
<1>9. EndsAt(m, target, k)
  BY <1>5, <1>8 DEF EndsAt
<1> HIDE DEF target
<1> QED
  BY <1>5, <1>9 DEF target

\* So the look-back is a price, or 0.
LEMMA PriceAtAgeType ==
  ASSUME NEW m \in MetricsType, NEW age \in Nat
  PROVE  PriceAtAge(m, age) \in Nat
<1>1. CASE m.len = 0
  BY <1>1 DEF PriceAtAge
<1>2. CASE m.len # 0
  <2> DEFINE target == m.times[Back(m, 0)] - age
             walk == CHOOSE k \in 0..(m.len - 1) : EndsAt(m, target, k)
  <2>1. walk \in 0..(m.len - 1)
    BY <1>2, WalkEnds
  <2>2. PriceAtAge(m, age) = m.prices[Back(m, walk)]
    BY <1>2 DEF PriceAtAge
  <2> HIDE DEF walk
  <2>3. walk \in Nat /\ m.prices \in [0..(RING - 1) -> Nat]
    BY <2>1 DEF MetricsType
  <2> QED
    BY <2>2, <2>3, BackType
<1> QED
  BY <1>1, <1>2
-----------------------------------------------------------------------------
(* The ring keeps the youngest samples. *)

Sample == [price : Nat, time : Nat]

\* The ring m holds the youngest samples of q, the youngest behind its head.
Holds(m, q) ==
  /\ m.len = IF Len(q) < RING THEN Len(q) ELSE RING
  /\ \A k \in 0..(m.len - 1) :
       /\ m.prices[Back(m, k)] = q[Len(q) - k].price
       /\ m.times[Back(m, k)] = q[Len(q) - k].time

\* Once around the ring.
LEMMA ModOnce ==
  ASSUME NEW d \in Nat \ {0}, NEW x \in 0..(d - 1)
  PROVE  x % d = x /\ (d + x) % d = x
<1> DEFINE y == d + x
           quot == y \div d
<1>1. quot \in Int /\ y % d \in 0..(d - 1) /\ y \in Int
  OBVIOUS
<1>2. y = d * quot + (y % d)
  OBVIOUS
<1>3. ASSUME NEW z \in Int, z >= 2 PROVE d * z >= d + d
  <2>1. z - 2 >= 0 /\ z - 2 \in Int
    BY <1>3
  <2>2. d * (z - 2) >= 0
    BY <2>1
  <2>3. d * (z - 2) = d * z - (d + d) /\ d * z \in Int
    OBVIOUS
  <2> QED
    BY <2>2, <2>3
<1>4. ASSUME NEW z \in Int, z <= 0 PROVE d * z <= 0
  BY <1>4
<1>5. d <= y /\ y < d + d
  OBVIOUS
<1> HIDE DEF y, quot
<1>6. ~(quot >= 2)
  BY <1>1, <1>2, <1>3, <1>5
<1>7. ~(quot <= 0)
  BY <1>1, <1>2, <1>4, <1>5
<1>8. quot = 1
  BY <1>1, <1>6, <1>7
<1>9. (d + x) % d = x
  BY <1>1, <1>2, <1>8 DEF y
<1> QED
  BY <1>9

\* The slots behind the head, without the modulus.
LEMMA BackIs ==
  ASSUME NEW m \in MetricsType, NEW k \in 0..(RING - 1)
  PROVE  Back(m, k) = IF k < m.head THEN m.head - 1 - k ELSE m.head + RING - 1 - k
<1>1. RING \in Nat \ {0} /\ m.head \in 0..(RING - 1)
  BY RingIsPositive DEF MetricsType
<1>2. CASE k < m.head
  <2> DEFINE x == m.head - 1 - k
  <2>1. m.head + RING - 1 - k = RING + x /\ x \in 0..(RING - 1)
    BY <1>1, <1>2
  <2> HIDE DEF x
  <2>2. (RING + x) % RING = x
    BY <1>1, <2>1, ModOnce
  <2>3. Back(m, k) = (m.head + RING - 1 - k) % RING
    BY DEF Back
  <2>4. Back(m, k) = x
    BY <2>1, <2>2, <2>3
  <2> QED
    BY <1>2, <2>4 DEF x
<1>3. CASE ~(k < m.head)
  <2> DEFINE x == m.head + RING - 1 - k
  <2>1. x \in 0..(RING - 1)
    BY <1>1, <1>3
  <2>2. Back(m, k) = x % RING
    BY DEF Back
  <2> HIDE DEF x
  <2>3. Back(m, k) = x
    BY <1>1, <2>1, <2>2, ModOnce
  <2> QED
    BY <1>3, <2>3 DEF x
<1> QED
  BY <1>2, <1>3

\* A push puts its sample behind the head and moves the others one back.
LEMMA PushMoves ==
  ASSUME NEW m \in MetricsType, NEW price \in Nat, NEW time \in Nat
  PROVE  LET n == PushPrice(m, price, time)
         IN  /\ n \in MetricsType
             /\ Back(n, 0) = m.head
             /\ \A k \in 1..(RING - 1) : Back(n, k) = Back(m, k - 1) /\ Back(n, k) # m.head
<1> DEFINE n == PushPrice(m, price, time)
<1>1. RING \in Nat \ {0} /\ m.head \in 0..(RING - 1)
  BY RingIsPositive DEF MetricsType
<1>2. n.head = IF m.head = RING - 1 THEN 0 ELSE m.head + 1
  BY <1>1 DEF PushPrice
<1>3. n \in MetricsType
  <2>1. (m.head + 1) % RING \in 0..(RING - 1)
    BY <1>1
  <2>2. /\ [m.prices EXCEPT ![m.head] = price] \in [0..(RING - 1) -> Nat]
        /\ [m.times EXCEPT ![m.head] = time] \in [0..(RING - 1) -> Nat]
    BY <1>1 DEF MetricsType
  <2>3. (IF m.len < RING THEN m.len + 1 ELSE m.len) \in 0..RING
    BY <1>1 DEF MetricsType
  <2> QED
    BY <2>1, <2>2, <2>3 DEF PushPrice, MetricsType
<1> HIDE DEF n
<1>4. Back(n, 0) = m.head
  BY <1>1, <1>2, <1>3, BackIs
<1>5. ASSUME NEW k \in 1..(RING - 1)
      PROVE  Back(n, k) = Back(m, k - 1) /\ Back(n, k) # m.head
  <2>1. k \in 0..(RING - 1) /\ k - 1 \in 0..(RING - 1)
    BY <1>1
  <2>2. /\ Back(n, k) = IF k < n.head THEN n.head - 1 - k ELSE n.head + RING - 1 - k
        /\ Back(m, k - 1) = IF k - 1 < m.head THEN m.head - 1 - (k - 1)
                            ELSE m.head + RING - 1 - (k - 1)
    <3>1. \A i \in 0..(RING - 1) :
            /\ Back(n, i) = IF i < n.head THEN n.head - 1 - i ELSE n.head + RING - 1 - i
            /\ Back(m, i) = IF i < m.head THEN m.head - 1 - i ELSE m.head + RING - 1 - i
      BY <1>3, BackIs
    <3> QED
      BY <2>1, <3>1
  <2> QED
    BY <1>1, <1>2, <2>1, <2>2
<1> QED
  BY <1>3, <1>4, <1>5 DEF n

\* A push keeps the ring's promise, whether the ring is full or not.
LEMMA PushHolds ==
  ASSUME NEW m \in MetricsType, NEW q \in Seq(Sample), Holds(m, q),
         NEW price \in Nat, NEW time \in Nat
  PROVE  /\ PushPrice(m, price, time) \in MetricsType
         /\ Holds(PushPrice(m, price, time), Append(q, [price |-> price, time |-> time]))
<1> DEFINE n == PushPrice(m, price, time)
           r == Append(q, [price |-> price, time |-> time])
<1>1. RING \in Nat \ {0} /\ m.head \in 0..(RING - 1) /\ m.len \in 0..RING /\ Len(q) \in Nat
  BY RingIsPositive DEF MetricsType
<1>2. /\ n \in MetricsType
      /\ Back(n, 0) = m.head
      /\ \A k \in 1..(RING - 1) : Back(n, k) = Back(m, k - 1) /\ Back(n, k) # m.head
  BY PushMoves
<1>3. /\ n.len = IF m.len < RING THEN m.len + 1 ELSE m.len
      /\ n.prices[m.head] = price /\ n.times[m.head] = time
      /\ \A i \in 0..(RING - 1) \ {m.head} :
           n.prices[i] = m.prices[i] /\ n.times[i] = m.times[i]
  BY <1>1 DEF PushPrice, MetricsType
<1>4. /\ Len(r) = Len(q) + 1
      /\ r[Len(q) + 1] = [price |-> price, time |-> time]
      /\ \A i \in 1..Len(q) : r[i] = q[i]
  OBVIOUS
<1> HIDE DEF n, r
<1>5. n.len = IF Len(r) < RING THEN Len(r) ELSE RING
  BY <1>1, <1>3, <1>4 DEF Holds
<1>6. ASSUME NEW k \in 0..(n.len - 1)
      PROVE  n.prices[Back(n, k)] = r[Len(r) - k].price /\ n.times[Back(n, k)] = r[Len(r) - k].time
  <2>1. CASE k = 0
    BY <1>1, <1>2, <1>3, <1>4, <2>1
  <2>2. CASE k # 0
    <3>1. k \in 1..(RING - 1) /\ k - 1 \in 0..(m.len - 1) /\ k - 1 \in Nat
      BY <1>1, <1>3, <2>2
    <3>2. Len(q) - (k - 1) \in 1..Len(q) /\ Len(r) - k = Len(q) - (k - 1)
      BY <1>1, <1>4, <3>1 DEF Holds
    <3>3. /\ m.prices[Back(m, k - 1)] = q[Len(q) - (k - 1)].price
          /\ m.times[Back(m, k - 1)] = q[Len(q) - (k - 1)].time
      BY <3>1 DEF Holds
    <3>4. Back(n, k) = Back(m, k - 1) /\ Back(n, k) \in 0..(RING - 1) \ {m.head}
      BY <1>2, <3>1, BackType
    <3> QED
      BY <1>3, <1>4, <3>2, <3>3, <3>4
  <2> QED
    BY <2>1, <2>2
<1> QED
  BY <1>2, <1>5, <1>6 DEF Holds, n, r

\* A walk down an interval that stops at the first place that is old enough, or
\* at the end, stops at the largest place of these, or at the least of all.
LEMMA WalkStops ==
  ASSUME NEW n \in Nat, NEW len \in 1..n, NEW t \in [(n - len + 1)..n -> Int], NEW target \in Int,
         NEW walk \in 0..(len - 1),
         \A i \in (n - walk + 1)..n : t[i] > target,
         t[n - walk] <= target \/ walk = len - 1
  PROVE  LET kept == (n - len + 1)..n
         IN  /\ n - walk \in kept
             /\ \A i \in kept : t[i] <= target => i <= n - walk /\ t[n - walk] <= target
             /\ t[n - walk] <= target \/ \A i \in kept : n - walk <= i
<1> DEFINE kept == (n - len + 1)..n
           w == n - walk
<1>1. w \in kept /\ kept \subseteq Int /\ \A i \in kept : t[i] \in Int
  OBVIOUS
<1>2. \A i \in kept : t[i] <= target => i <= w
  <2> SUFFICES ASSUME NEW i \in kept, t[i] <= target, ~(i <= w) PROVE FALSE
    OBVIOUS
  <2>1. i \in (n - walk + 1)..n
    OBVIOUS
  <2> QED
    BY <1>1, <2>1
<1>3. walk = len - 1 => \A i \in kept : w <= i
  OBVIOUS
<1>4. ASSUME NEW i \in kept, t[i] <= target PROVE t[w] <= target
  <2>1. CASE walk = len - 1
    <3>1. i <= w /\ w <= i /\ i \in Int /\ w \in Int
      BY <1>1, <1>2, <1>3, <1>4, <2>1
    <3>2. i = w
      BY <3>1
    <3> QED
      BY <1>4, <3>2
  <2> QED
    BY <2>1
<1> QED
  BY <1>1, <1>2, <1>3, <1>4

\* The walk stops where the reference definition looks: at the youngest kept
\* sample that is old enough, or at the oldest kept.
LEMMA WalkIsLookBack ==
  ASSUME NEW m \in MetricsType, NEW q \in Seq(Sample), Holds(m, q), NEW age \in Nat
  PROVE  PriceAtAge(m, age) = LookBack(q, age)
<1> DEFINE n == Len(q)
<1>1. /\ n \in Nat /\ DOMAIN q = 1..n /\ RING \in Nat \ {0} /\ m.len \in Nat
      /\ m.len = IF n < RING THEN n ELSE RING
  BY RingIsPositive DEF Holds, MetricsType
<1>2. CASE n = 0
  <2>1. q = <<>> /\ m.len = 0
    BY <1>1, <1>2
  <2> QED
    BY <2>1 DEF PriceAtAge, LookBack
<1>3. CASE n # 0
  <2> DEFINE target == m.times[Back(m, 0)] - age
             kept == (n - m.len + 1)..n
             t == [i \in kept |-> q[i].time]
             walk == CHOOSE k \in 0..(m.len - 1) : EndsAt(m, target, k)
  <2>1. m.len \in 1..n /\ Kept(q) = kept /\ kept \subseteq 1..n
    <3>1. Kept(q) = {i \in 1..n : i > n - RING}
      BY <1>1 DEF Kept
    <3>2. m.len \in 1..n
      BY <1>1, <1>3
    <3> HIDE DEF n
    <3> QED
      BY <1>1, <1>3, <3>1, <3>2
  <2>2. \A i \in kept : q[i] \in Sample
    <3>1. \A i \in 1..n : q[i] \in Sample
      BY ElementOfSeq
    <3> QED
      BY <2>1, <3>1
  <2>3. \A k \in 0..(m.len - 1) :
          m.prices[Back(m, k)] = q[n - k].price /\ m.times[Back(m, k)] = q[n - k].time
    BY DEF Holds
  <2>4. q[n].time \in Nat /\ target \in Int /\ q[n].time - age = target
    <3>1. n \in kept /\ 0 \in 0..(m.len - 1) /\ n - 0 = n
      BY <1>1, <2>1
    <3>2. q[n].time \in Nat
      BY <2>2, <3>1 DEF Sample
    <3>3. m.times[Back(m, 0)] = q[n].time
      BY <2>3, <3>1
    <3> QED
      BY <3>2, <3>3
  <2>5. walk \in 0..(m.len - 1) /\ EndsAt(m, target, walk)
    <3>1. m.len # 0
      BY <2>1
    <3> QED
      BY <3>1, WalkEnds
  <2> HIDE DEF walk, target, n
  <2>6. t \in [kept -> Int]
    BY <2>2 DEF Sample
  <2>7. \A i \in (n - walk + 1)..n : t[i] > target
    <3> SUFFICES ASSUME NEW i \in (n - walk + 1)..n PROVE t[i] > target
      OBVIOUS
    <3>1. n - i \in 0..(walk - 1) /\ n - i \in 0..(m.len - 1) /\ n - (n - i) = i /\ i \in kept
      BY <1>1, <2>1, <2>5
    <3> QED
      BY <2>3, <2>5, <3>1 DEF EndsAt
  <2>8. t[n - walk] <= target \/ walk = m.len - 1
    <3>1. n - walk \in kept
      BY <1>1, <2>1, <2>5
    <3> QED
      BY <2>3, <2>5, <3>1 DEF EndsAt
  <2> DEFINE old == {i \in kept : t[i] <= target}
             w == n - walk
  <2>9. /\ old # {} => (CHOOSE i \in old : \A j \in old : j <= i) = w
        /\ old = {} => (CHOOSE i \in kept : \A j \in kept : i <= j) = w
    <3>1. /\ w \in kept
          /\ \A i \in kept : t[i] <= target => i <= w /\ t[w] <= target
          /\ t[w] <= target \/ \A i \in kept : w <= i
      <4> HIDE DEF t
      <4> DEFINE len == m.len
      <4>1. n \in Nat /\ len \in 1..n /\ t \in [(n - len + 1)..n -> Int] /\ target \in Int
        BY <1>1, <2>1, <2>4, <2>6
      <4>2. walk \in 0..(len - 1) /\ (t[n - walk] <= target \/ walk = len - 1)
        BY <2>5, <2>8
      <4> HIDE DEF len
      <4>3. LET all == (n - len + 1)..n
            IN  /\ n - walk \in all
                /\ \A i \in all : t[i] <= target => i <= n - walk /\ t[n - walk] <= target
                /\ t[n - walk] <= target \/ \A i \in all : n - walk <= i
        BY <2>7, <4>1, <4>2, WalkStops, Zenon
      <4> QED
        BY <4>3 DEF len
    <3>2. /\ kept \subseteq Int /\ old \subseteq Int /\ w \in Int
          /\ \A i \in old : i <= w
          /\ old # {} => w \in old
          /\ old = {} => \A i \in kept : w <= i
      <4> HIDE DEF t
      <4> QED
        BY <1>1, <2>1, <3>1
    <3> HIDE DEF old, kept, w
    <3>3. ASSUME old # {} PROVE (CHOOSE i \in old : \A j \in old : j <= i) = w
      <4>1. \A i \in old : (\A j \in old : j <= i) => i = w
        BY <3>1, <3>2, <3>3
      <4> QED
        BY <3>2, <3>3, <4>1
    <3>4. ASSUME old = {} PROVE (CHOOSE i \in kept : \A j \in kept : i <= j) = w
      <4>1. \A i \in kept : (\A j \in kept : i <= j) => i = w
        BY <3>1, <3>2, <3>4
      <4> QED
        BY <3>1, <3>2, <3>4, <4>1
    <3> QED
      BY <3>3, <3>4
  <2>10. old = {i \in Kept(q) : q[i].time <= q[n].time - age}
    BY <2>1, <2>4
  <2>11. LookBack(q, age) = q[n - walk].price
    <3>1. q # <<>>
      BY <1>3 DEF n
    <3> HIDE DEF old, kept
    <3>2. LookBack(q, age)
            = q[IF old # {} THEN CHOOSE i \in old : \A j \in old : j <= i
                ELSE CHOOSE i \in kept : \A j \in kept : i <= j].price
      BY <2>1, <2>4, <2>10, <3>1 DEF LookBack, n
    <3> QED
      BY <2>9, <3>2
  <2>12. PriceAtAge(m, age) = m.prices[Back(m, walk)]
    <3>1. m.len # 0
      BY <2>1
    <3> QED
      BY <3>1 DEF PriceAtAge, walk, target
  <2> QED
    BY <2>3, <2>5, <2>11, <2>12
<1> QED
  BY <1>2, <1>3
-----------------------------------------------------------------------------
(* The prices in every reachable state. *)

LagType == [bybit_mid : {0} \cup Mids, bybit_ts : Nat, ago : Nat]

\* What a stop needs of the statistics: a range that is a number.
StatsType ==
  [n : Nat, first : Nat, sum : Int, squares : Int, prev_close : Nat, atr_count : Nat,
   atr : Nat]

\* A push keeps the statistics what they are, and the range at least 0.
LEMMA PushStatsTyped ==
  ASSUME NEW st \in StatsType, NEW price \in Nat
  PROVE  PushStats(st, price) \in StatsType
<1> DEFINE acc == Accumulate(st, price)
<1>1. acc \in StatsType
  <2> DEFINE first == IF st.n = 0 THEN price ELSE st.first
             x == price - first
             square == x * x
  <2>1. first \in Nat /\ x \in Int /\ square \in Int
    BY DEF StatsType
  <2>2. acc = [st EXCEPT !.n = @ + 1, !.first = first, !.sum = @ + x, !.squares = @ + square]
    BY DEF Accumulate
  <2> HIDE DEF acc, first, x, square
  <2>3. st.n + 1 \in Nat /\ st.sum + x \in Int /\ st.squares + square \in Int
    BY <2>1 DEF StatsType
  <2> QED
    BY <2>1, <2>2, <2>3 DEF StatsType
<1> HIDE DEF acc
<1>2. CASE acc.prev_close = 0
  BY <1>1, <1>2 DEF AddRange, StatsType, PushStats, acc
<1>3. CASE acc.prev_close # 0
  <2> DEFINE count == acc.atr_count + 1
             n == IF count < 14 THEN count ELSE 14
             range == Magnitude(price - acc.prev_close)
             total == acc.atr * (n - 1) + range
             atr == total \div n
  <2>1. count \in Nat \ {0} /\ n \in Nat \ {0} /\ range \in Nat /\ acc.atr \in Nat
    BY <1>1 DEF StatsType, Magnitude
  <2>2. PushStats(st, price)
          = [acc EXCEPT !.prev_close = price, !.atr_count = count, !.atr = atr]
    BY <1>3 DEF PushStats, AddRange, acc
  <2> HIDE DEF count, n, range
  <2>3. acc.atr * (n - 1) \in Nat
    BY <2>1
  <2>4. total \in Nat
    BY <2>1, <2>3
  <2> HIDE DEF total
  <2>5. total \div n \in Nat
    <3>1. total \in Int /\ total >= 0
      BY <2>4
    <3> QED
      BY <2>1, <3>1, DivSign
  <2> QED
    BY <1>1, <2>1, <2>2, <2>5 DEF StatsType
<1> QED
  BY <1>2, <1>3

PricesOK ==
  /\ now \in Nat
  /\ metrics \in [Symbols -> MetricsType]
  /\ stats \in [Symbols -> StatsType]
  /\ lags \in [Symbols -> LagType]
  /\ pushed \in [Symbols -> Seq(Sample)]
  /\ \A s \in Symbols : Holds(metrics[s], pushed[s])
  /\ \A s \in Symbols : lags[s].ago = PriceAtAge(metrics[s], Span)

\* One tick of symbol s keeps all of it.
LEMMA TickKeepsPrices ==
  ASSUME PricesOK, NEW s \in Symbols, NEW mid \in Mids, BinanceTick(s, mid)
  PROVE  PricesOK'
<1> DEFINE m == WithTick(s, mid)
           q == Append(pushed[s], [price |-> mid, time |-> now])
<1>1. mid \in Nat /\ now \in Nat /\ Span \in Nat
  BY HandlerConstants DEF PricesOK
<1>2. m \in MetricsType /\ Holds(m, q) /\ q \in Seq(Sample)
  <2>1. metrics[s] \in MetricsType /\ pushed[s] \in Seq(Sample) /\ Holds(metrics[s], pushed[s])
    BY DEF PricesOK
  <2>2. [price |-> mid, time |-> now] \in Sample
    BY <1>1 DEF Sample
  <2>3. q \in Seq(Sample)
    BY <2>1, <2>2, AppendProperties
  <2> QED
    BY <1>1, <2>1, <2>3, PushHolds DEF WithTick
<1>3. LagAt(s, mid) = [lags[s] EXCEPT !.ago = PriceAtAge(m, Span)]
  BY DEF LagAt
<1>4. /\ metrics' = [metrics EXCEPT ![s] = m]
      /\ pushed' = [pushed EXCEPT ![s] = q]
      /\ lags' = [lags EXCEPT ![s] = LagAt(s, mid)]
      /\ now' = now
  BY DEF BinanceTick
<1> HIDE DEF m, q
<1>5. LagAt(s, mid) \in LagType /\ LagAt(s, mid).ago = PriceAtAge(m, Span)
  <2>1. PriceAtAge(m, Span) \in Nat
    BY <1>1, <1>2, PriceAtAgeType
  <2>2. lags[s] \in LagType
    BY DEF PricesOK
  <2> QED
    BY <1>3, <2>1, <2>2 DEF LagType
<1> DEFINE l == LagAt(s, mid)
<1> HIDE DEF l
<1>6. \A t \in Symbols :
        IF t = s THEN metrics'[t] = m /\ pushed'[t] = q /\ lags'[t] = l
        ELSE metrics'[t] = metrics[t] /\ pushed'[t] = pushed[t] /\ lags'[t] = lags[t]
  BY <1>4 DEF PricesOK, l
<1>7. /\ metrics' \in [Symbols -> MetricsType]
      /\ pushed' \in [Symbols -> Seq(Sample)]
      /\ lags' \in [Symbols -> LagType]
  BY <1>2, <1>4, <1>5 DEF PricesOK
<1>8. l.ago = PriceAtAge(m, Span)
  BY <1>5 DEF l
<1>9. \A t \in Symbols : Holds(metrics'[t], pushed'[t])
  BY <1>2, <1>6 DEF PricesOK
<1>10. \A t \in Symbols : lags'[t].ago = PriceAtAge(metrics'[t], Span)
  BY <1>6, <1>8 DEF PricesOK
<1>11. stats' \in [Symbols -> StatsType]
  <2>1. stats \in [Symbols -> StatsType] /\ StatsAt(s, mid) \in StatsType
    BY <1>1, PushStatsTyped DEF PricesOK, StatsAt
  <2>2. stats' = [stats EXCEPT ![s] = StatsAt(s, mid)]
    BY DEF BinanceTick
  <2> QED
    BY <2>1, <2>2
<1> QED
  BY <1>1, <1>4, <1>7, <1>9, <1>10, <1>11 DEF PricesOK

LEMMA PricesStart == Init => PricesOK
<1> SUFFICES ASSUME Init PROVE PricesOK
  OBVIOUS
<1>1. NewMetrics \in MetricsType /\ NewMetrics.len = 0
  BY RingIsPositive DEF NewMetrics, MetricsType
<1>2. Holds(NewMetrics, <<>>)
  BY <1>1, RingIsPositive DEF Holds
<1>3. PriceAtAge(NewMetrics, Span) = 0
  BY <1>1 DEF PriceAtAge
<1>4. NewLagState \in LagType /\ NewLagState.ago = 0
  BY DEF NewLagState, LagType
<1>5. <<>> \in Seq(Sample)
  OBVIOUS
<1>6. NewStats \in StatsType
  BY DEF NewStats, StatsType
<1> QED
  BY <1>1, <1>2, <1>3, <1>4, <1>5, <1>6 DEF Init, PricesOK

LEMMA PricesStep == PricesOK /\ [Next]_vars => PricesOK'
<1> SUFFICES ASSUME PricesOK, [Next]_vars PROVE PricesOK'
  OBVIOUS
<1>1. ASSUME NEW s \in Symbols, NEW mid \in Mids, BinanceTick(s, mid) PROVE PricesOK'
  BY <1>1, TickKeepsPrices
<1>2. ASSUME NEW s \in Symbols, NEW mid \in Mids, BybitQuote(s, mid) PROVE PricesOK'
  <2> DEFINE l == [lags[s] EXCEPT !.bybit_mid = mid, !.bybit_ts = now]
  <2>1. l \in LagType /\ l.ago = lags[s].ago
    BY DEF PricesOK, LagType
  <2>2. lags' = [lags EXCEPT ![s] = l] /\ UNCHANGED <<now, metrics, stats, pushed>>
    BY <1>2 DEF BybitQuote, ApplyFeed
  <2> HIDE DEF l
  <2>3. \A t \in Symbols : lags'[t] = IF t = s THEN l ELSE lags[t]
    BY <2>2 DEF PricesOK
  <2>4. lags' \in [Symbols -> LagType]
    BY <2>1, <2>2 DEF PricesOK
  <2>5. \A t \in Symbols : lags'[t].ago = lags[t].ago
    BY <2>1, <2>3
  <2> QED
    BY <2>2, <2>4, <2>5 DEF PricesOK
<1>3. CASE Elapse
  <2>1. now' \in Nat /\ UNCHANGED <<metrics, stats, lags, pushed>>
    BY <1>3 DEF Elapse, PricesOK
  <2> QED
    BY <2>1 DEF PricesOK
<1>4. CASE UNCHANGED vars
  BY <1>4 DEF vars, PricesOK
<1> QED
  BY <1>1, <1>2, <1>3, <1>4 DEF Next

\* The look-back the handler reads from the ring is the one that all samples
\* define, for every size of the ring, at its wrap, with one sample, and with
\* samples of equal times (math.rs:135-158).
THEOREM LookBackHolds == Spec => []LookBackIsReference
<1>1. PricesOK => LookBackIsReference
  <2> SUFFICES ASSUME PricesOK, NEW s \in Symbols
               PROVE  /\ PriceAtAge(metrics[s], Span) = LookBack(pushed[s], Span)
                      /\ lags[s].ago = LookBack(pushed[s], Span)
    BY DEF LookBackIsReference
  <2> QED
    BY WalkIsLookBack, HandlerConstants DEF PricesOK
<1> QED
  BY <1>1, PricesStart, PricesStep, PTL DEF Spec
-----------------------------------------------------------------------------
(* Signals. *)

\* A look-back is 0 without samples, or the price of a sample that is kept.
LEMMA LookBackIsKept ==
  ASSUME NEW m \in MetricsType, NEW q \in Seq(Sample), Holds(m, q), NEW age \in Nat,
         PriceAtAge(m, age) # 0
  PROVE  \E i \in Kept(q) : q[i].price = PriceAtAge(m, age)
<1> DEFINE target == m.times[Back(m, 0)] - age
           walk == CHOOSE k \in 0..(m.len - 1) : EndsAt(m, target, k)
<1>1. m.len # 0
  BY DEF PriceAtAge
<1>2. walk \in 0..(m.len - 1)
  BY <1>1, WalkEnds
<1>3. PriceAtAge(m, age) = m.prices[Back(m, walk)]
  BY <1>1 DEF PriceAtAge
<1> HIDE DEF walk
<1>4. m.prices[Back(m, walk)] = q[Len(q) - walk].price
  BY <1>2 DEF Holds
<1>5. Len(q) - walk \in Kept(q)
  <2>1. Len(q) \in Nat /\ DOMAIN q = 1..Len(q) /\ m.len \in Nat /\ RING \in Nat
    BY RingIsPositive DEF MetricsType
  <2> QED
    BY <1>2, <2>1 DEF Kept, Holds
<1> QED
  BY <1>3, <1>4, <1>5

\* What a signal says of the packet: Binance has moved its way, Bybit by a
\* known quote has not yet.
LEMMA SignalFacts ==
  ASSUME PricesOK, NEW s \in Symbols, NEW mid \in Mids, NEW side \in {-1, 0, 1},
         PacketAt(s, mid, side).dir # 0
  PROVE  LET p == PacketAt(s, mid, side)
             ago == PriceAtAge(WithTick(s, mid), Span)
         IN  /\ p.dir \in {1, -1} /\ p.ref = mid /\ p.bybit = lags[s].bybit_mid /\ p.sym = s
             /\ ago # 0 /\ p.bybit # 0
             /\ p.dir * (mid - ago) > 0
             /\ p.dir * (mid - p.bybit) > 0
             /\ ~IsStale(lags[s], now)
<1> DEFINE p == PacketAt(s, mid, side)
           l == LagAt(s, mid)
           st == StatsAt(s, mid)
           ago == PriceAtAge(WithTick(s, mid), Span)
           residual == LagResidualBps(l, mid)
           impulse == ImpulseBps(l, mid)
<1>1. lags[s] \in LagType /\ mid \in Nat \ {0} /\ Mids \subseteq Nat \ {0}
  BY HandlerConstants DEF PricesOK
<1>2. WithTick(s, mid) \in MetricsType /\ ago \in Nat
  <2>1. metrics[s] \in MetricsType /\ pushed[s] \in Seq(Sample) /\ Holds(metrics[s], pushed[s])
        /\ now \in Nat /\ Span \in Nat
    BY HandlerConstants DEF PricesOK
  <2>2. WithTick(s, mid) \in MetricsType
    BY <1>1, <2>1, PushHolds DEF WithTick
  <2> QED
    BY <2>1, <2>2, PriceAtAgeType
<1>3. l.ago = ago /\ l.bybit_mid = lags[s].bybit_mid /\ l.bybit_ts = lags[s].bybit_ts
  BY <1>1 DEF LagAt, LagType
<1>4. /\ p.dir = Evaluate(st, mid, residual, impulse, IsStale(l, now), side)
      /\ p.ref = mid /\ p.bybit = l.bybit_mid /\ p.sym = s
  BY DEF PacketAt
<1> HIDE DEF p, l, st, residual, impulse, ago
<1>5. p.dir # 0
  BY DEF p
<1>6. p.dir = side /\ side * residual > 0 /\ side * impulse > 0 /\ ~IsStale(l, now)
  BY <1>4, <1>5 DEF Evaluate
<1>7. side \in {1, -1}
  BY <1>4, <1>5, <1>6
<1>8. ago # 0 /\ impulse = Bps(mid, ago)
  BY <1>3, <1>6, <1>7 DEF ImpulseBps, impulse
<1>9. l.bybit_mid # 0 /\ residual = Bps(mid, ago) - Bps(l.bybit_mid, ago)
  BY <1>3, <1>6, <1>7, <1>8 DEF LagResidualBps, residual
<1>10. l.bybit_mid \in Nat /\ ago \in Nat \ {0} /\ mid \in Nat
  <2>1. lags[s].bybit_mid \in {0} \cup Mids
    BY <1>1 DEF LagType
  <2>2. {0} \cup Mids \subseteq Nat /\ mid \in Nat
    BY <1>1
  <2>3. l.bybit_mid \in Nat
    BY <1>3, <2>1, <2>2
  <2>4. ago \in Nat \ {0}
    BY <1>2, <1>8
  <2> QED
    BY <2>2, <2>3, <2>4
<1>11. p.dir * (mid - ago) > 0
  <2>1. /\ Bps(mid, ago) \in Int
        /\ mid <= ago => Bps(mid, ago) <= 0
        /\ mid >= ago => Bps(mid, ago) >= 0
    BY <1>10, BpsFacts
  <2> QED
    BY <1>6, <1>7, <1>8, <1>10, <2>1
<1>12. p.dir * (mid - l.bybit_mid) > 0
  <2>1. /\ Bps(mid, ago) \in Int /\ Bps(l.bybit_mid, ago) \in Int
        /\ mid <= l.bybit_mid => Bps(mid, ago) <= Bps(l.bybit_mid, ago)
        /\ l.bybit_mid <= mid => Bps(l.bybit_mid, ago) <= Bps(mid, ago)
    BY <1>10, BpsFacts
  <2> QED
    BY <1>6, <1>7, <1>9, <1>10, <2>1
<1>13. ~IsStale(lags[s], now)
  BY <1>3, <1>6 DEF IsStale
<1> QED
  BY <1>3, <1>4, <1>6, <1>7, <1>8, <1>9, <1>11, <1>12, <1>13 DEF p, ago

\* The handler that makes a signal makes it with that property.
LEMMA TickSignals ==
  ASSUME PricesOK, NEW s \in Symbols, NEW mid \in Mids, BinanceTick(s, mid), packet'.dir # 0
  PROVE  SignalFollowsMove'
<1> DEFINE ago == PriceAtAge(WithTick(s, mid), Span)
<1>1. PICK side \in {-1, 0, 1} : packet' = PacketAt(s, mid, side)
  BY DEF BinanceTick
<1>2. /\ packet'.dir \in {1, -1} /\ packet'.ref = mid
      /\ packet'.bybit = lags[s].bybit_mid /\ packet'.sym = s
      /\ ago # 0 /\ packet'.bybit # 0
      /\ packet'.dir * (mid - ago) > 0
      /\ packet'.dir * (mid - packet'.bybit) > 0
      /\ ~IsStale(lags[s], now)
  BY <1>1, SignalFacts
<1> HIDE DEF ago
<1>3. PricesOK' /\ metrics'[s] = WithTick(s, mid) /\ now' = now
  BY TickKeepsPrices DEF BinanceTick, PricesOK
<1>4. lags'[s].bybit_ts = lags[s].bybit_ts /\ lags[s] \in LagType
  <2>1. lags'[s] = LagAt(s, mid) /\ lags[s] \in LagType
    BY DEF BinanceTick, PricesOK
  <2> QED
    BY <2>1 DEF LagAt, LagType
<1>5. \E i \in Kept(pushed'[s]) : pushed'[s][i].price = ago
  <2>1. metrics'[s] \in MetricsType /\ pushed'[s] \in Seq(Sample) /\ Holds(metrics'[s], pushed'[s])
    BY <1>3 DEF PricesOK
  <2>2. PriceAtAge(metrics'[s], Span) = ago
    BY <1>3 DEF ago
  <2> QED
    BY <1>2, <2>1, <2>2, LookBackIsKept, HandlerConstants
<1>6. packet'.bybit \in Mids
  BY <1>2, <1>4 DEF LagType
<1>7. now' - lags'[s].bybit_ts <= MaxStaleness
  <2>1. lags[s].bybit_ts \in Nat /\ now \in Nat /\ MaxStaleness \in Nat
    BY <1>4, SignalConstants DEF LagType, PricesOK
  <2> QED
    BY <1>2, <1>3, <1>4, <2>1 DEF IsStale
<1> QED
  BY <1>2, <1>5, <1>6, <1>7 DEF SignalFollowsMove

LEMMA SignalsStep ==
  ASSUME PricesOK, SignalFollowsMove, [Next]_vars
  PROVE  SignalFollowsMove'
<1>1. CASE packet'.dir = 0
  BY <1>1 DEF SignalFollowsMove
<1>2. ASSUME packet'.dir # 0, NEW s \in Symbols, NEW mid \in Mids, BinanceTick(s, mid)
      PROVE  SignalFollowsMove'
  BY <1>2, TickSignals
<1>3. NoPacket.dir = 0
  BY DEF NoPacket
<1>4. ASSUME NEW s \in Symbols, NEW mid \in Mids, BybitQuote(s, mid) PROVE packet'.dir = 0
  BY <1>3, <1>4 DEF BybitQuote, HandlerOver
<1>5. CASE Elapse
  BY <1>1, <1>3, <1>5 DEF Elapse, HandlerOver
<1>6. CASE UNCHANGED vars
  BY <1>6 DEF vars, SignalFollowsMove
<1> QED
  BY <1>1, <1>2, <1>4, <1>5, <1>6 DEF Next

\* A signal follows a move that Binance's own samples show, and by a quote that
\* is not stale Bybit has not made it yet, for all thresholds and prices
\* (entry.rs, main.rs:544-572).
THEOREM SignalsFollowMoves == Spec => []SignalFollowsMove
<1>1. Init => SignalFollowsMove
  BY DEF Init, SignalFollowsMove
<1> QED
  BY <1>1, PricesStart, PricesStep, SignalsStep, PTL DEF Spec

-----------------------------------------------------------------------------
(* Positions. *)

PositionType ==
  [dir : Dir, stop : Int, target : Int, impulse : Int, capture : 0..1000, opened : Nat,
   entry : Nat]

\* What AdoptedRunsItsTime needs from one tick to the next: without an impulse
\* the capture stays 0, and no position was opened in the future.
PositionsOK ==
  /\ positions \in [Symbols -> {NoPosition} \cup PositionType]
  /\ \A s \in Held : positions[s].impulse = 0 => positions[s].capture = 0

LEMMA NoPositionIsNone == NoPosition \notin PositionType
BY DEF NoPosition, PositionType, Dir

\* A position of a direction at a price is a position.
LEMMA PositionTyped ==
  ASSUME PricesOK, NEW dir \in Dir, NEW price \in Nat, NEW atr \in Nat, NEW impulse \in Int
  PROVE  /\ Position(dir, price, atr, price, impulse) \in PositionType
         /\ Position(dir, price, atr, price, impulse).impulse = impulse
         /\ Position(dir, price, atr, price, impulse).capture = 0
         /\ Position(dir, price, atr, price, impulse).opened = now
<1>1. now \in Nat /\ TargetBps \in Nat
  BY PositionConstants DEF PricesOK
<1>2. InitialStop(dir, price, atr) \in Int
  <2>1. Larger(atr, price \div 1000) \in Int
    BY DEF Larger
  <2>2. StopDistance(price, atr) \in Int
    BY <2>1 DEF StopDistance
  <2> QED
    BY <2>2 DEF InitialStop, Dir
<1>3. InitialTarget(dir, price) \in Int
  <2>1. price * TargetBps \in Int
    BY <1>1
  <2>2. (price * TargetBps) \div 10000 \in Int
    BY <2>1
  <2> QED
    BY <2>2 DEF InitialTarget, Dir
<1> QED
  BY <1>1, <1>2, <1>3 DEF Position, PositionType

\* The moves in a packet are whole numbers.
LEMMA PacketMoves ==
  ASSUME PricesOK, NEW s \in Symbols, NEW mid \in Mids, NEW side \in {-1, 0, 1}
  PROVE  /\ PacketAt(s, mid, side).residual \in Int
         /\ PacketAt(s, mid, side).impulse \in Int
         /\ PacketAt(s, mid, side).dir \in {-1, 0, 1}
         /\ PacketAt(s, mid, side).ref = mid
         /\ PacketAt(s, mid, side).atr \in Nat
<1> DEFINE l == LagAt(s, mid)
<1>1. Mids \subseteq Nat \ {0}
  BY HandlerConstants
<1>2. l.ago \in Nat /\ l.bybit_mid \in Nat
  <2>1. metrics[s] \in MetricsType /\ pushed[s] \in Seq(Sample) /\ Holds(metrics[s], pushed[s])
        /\ now \in Nat /\ Span \in Nat /\ lags[s] \in LagType /\ mid \in Nat
    BY HandlerConstants DEF PricesOK
  <2>2. PriceAtAge(WithTick(s, mid), Span) \in Nat
    BY <2>1, PushHolds, PriceAtAgeType DEF WithTick
  <2> QED
    BY <1>1, <2>1, <2>2 DEF LagAt, LagType
<1> HIDE DEF l
<1>3. ASSUME NEW x \in Nat, l.ago # 0 PROVE Bps(x, l.ago) \in Int
  BY <1>2, <1>3, BpsFacts
<1>4. ImpulseBps(l, mid) \in Int
  BY <1>1, <1>3 DEF ImpulseBps
<1>5. LagResidualBps(l, mid) \in Int
  <2>1. CASE l.bybit_mid = 0 \/ l.ago = 0
    BY <2>1 DEF LagResidualBps
  <2>2. CASE ~(l.bybit_mid = 0 \/ l.ago = 0)
    <3>1. Bps(mid, l.ago) \in Int /\ Bps(l.bybit_mid, l.ago) \in Int
      BY <1>1, <1>2, <1>3, <2>2
    <3> QED
      BY <2>2, <3>1 DEF LagResidualBps
  <2> QED
    BY <2>1, <2>2
<1>6. StatsAt(s, mid).atr \in Nat
  <2>1. StatsAt(s, mid) \in StatsType
    BY <1>1, PushStatsTyped DEF PricesOK, StatsAt
  <2> QED
    BY <2>1 DEF StatsType
<1> QED
  BY <1>4, <1>5, <1>6 DEF PacketAt, Evaluate, l

\* The capture ratio stays between 0 and 1000, and at 0 without an impulse.
LEMMA UpdatedTyped ==
  ASSUME NEW pos \in PositionType, pos.impulse = 0 => pos.capture = 0,
         NEW p, p.residual \in Int
  PROVE  LET up == UpdateLagCapture(pos, p)
         IN  /\ up \in PositionType
             /\ up.impulse = pos.impulse /\ up.opened = pos.opened
             /\ up.impulse = 0 => up.capture = 0
<1>1. CASE pos.impulse = 0
  BY <1>1 DEF UpdateLagCapture
<1>2. CASE pos.impulse # 0
  <2> DEFINE base == Magnitude(pos.impulse)
             part == 1000 * Magnitude(p.residual)
             share == part \div base
             capture == 1000 - Least(share, 1000)
  <2>1. base \in Nat \ {0} /\ part \in Nat
    BY <1>2 DEF Magnitude, PositionType
  <2> HIDE DEF base, part
  <2>2. share \in Int /\ share >= 0
    BY <2>1, DivSign
  <2> HIDE DEF share
  <2>3. capture \in 0..1000
    BY <2>2 DEF Least
  <2>4. UpdateLagCapture(pos, p) = [pos EXCEPT !.capture = capture]
    BY <1>2 DEF UpdateLagCapture, capture, share, part, base
  <2> HIDE DEF capture
  <2> QED
    BY <1>2, <2>3, <2>4 DEF PositionType
<1> QED
  BY <1>1, <1>2

LEMMA PositionsStart == Init => PositionsOK
<1> SUFFICES ASSUME Init PROVE PositionsOK
  OBVIOUS
<1>1. ASSUME NEW d \in Dir, NEW p \in AdoptedAt
      PROVE  Adopted(d, p) \in PositionType /\ Adopted(d, p).capture = 0
  <2>1. p \in Nat
    BY HandlerConstants
  <2> QED
    BY <2>1, PricesStart, PositionTyped DEF Adopted
<1>2. positions \in [Symbols -> {NoPosition} \cup {Adopted(d, p) : d \in Dir, p \in AdoptedAt}]
  BY DEF Init
<1> QED
  BY <1>1, <1>2 DEF PositionsOK, Held

\* Whatever a tick closes and keeps, it closes no position without an impulse
\* as converged and keeps none whose time has run out.
LEMMA TickRunsTime ==
  ASSUME PricesOK, PositionsOK, NEW s \in Symbols, NEW mid \in Mids, BinanceTick(s, mid)
  PROVE  PositionsOK' /\ AdoptedRunsItsTime'
<1>1. PICK side \in {-1, 0, 1} :
        LET p == PacketAt(s, mid, side)
        IN  /\ packet' = p
            /\ closed' = {[sym |-> t, pos |-> Updated(t, p), reason |-> Reason(t, p)] :
                            t \in Closing(p)}
            /\ \/ positions' = AfterExits(p)
               \/ /\ MayOpen(p)
                  /\ positions' = [AfterExits(p) EXCEPT ![s] = Opened(p)]
  BY DEF BinanceTick
<1> DEFINE p == PacketAt(s, mid, side)
<1>2. /\ p.residual \in Int /\ p.impulse \in Int /\ p.dir \in {-1, 0, 1} /\ p.ref \in Nat
      /\ p.atr \in Nat
  BY PacketMoves, HandlerConstants
<1>3. /\ closed' = {[sym |-> t, pos |-> Updated(t, p), reason |-> Reason(t, p)] : t \in Closing(p)}
      /\ \/ positions' = AfterExits(p)
         \/ p.dir # 0 /\ positions' = [AfterExits(p) EXCEPT ![s] = Opened(p)]
  BY <1>1 DEF MayOpen
<1> HIDE DEF p
<1>4. now \in Nat /\ now' = now /\ TimeStop \in Nat
  BY PositionConstants DEF BinanceTick, PricesOK
<1>5. ASSUME NEW t \in Held
      PROVE  /\ Updated(t, p) \in PositionType
             /\ Updated(t, p).impulse = 0 => Updated(t, p).capture = 0
             /\ Updated(t, p).impulse = 0 => Reason(t, p) # "LagConvergence"
             /\ Reason(t, p) = "none" /\ Updated(t, p).impulse = 0
                  => now - Updated(t, p).opened <= TimeStop
  <2>1. positions[t] \in PositionType /\ (positions[t].impulse = 0 => positions[t].capture = 0)
    BY DEF PositionsOK, Held
  <2>2. /\ Updated(t, p) \in PositionType
        /\ Updated(t, p).impulse = 0 => Updated(t, p).capture = 0
    BY <1>2, <2>1, UpdatedTyped DEF Updated
  <2> DEFINE up == Updated(t, p)
  <2> HIDE DEF up
  <2>3. Reason(t, p) = CheckExit(up, MidFor(t, p), p, now)
    BY DEF Reason, up
  <2>4. up.impulse = 0 => CheckExit(up, MidFor(t, p), p, now) # "LagConvergence"
    BY <2>2 DEF CheckExit, up
  <2>5. CheckExit(up, MidFor(t, p), p, now) = "none" /\ up.impulse = 0
          => ~(now - up.opened > TimeStop)
    BY <2>2 DEF CheckExit, up
  <2>6. up.opened \in Nat
    BY <2>2 DEF PositionType, up
  <2> QED
    BY <1>4, <2>2, <2>3, <2>4, <2>5, <2>6 DEF up
<1> DEFINE after == AfterExits(p)
<1>6. /\ after \in [Symbols -> {NoPosition} \cup PositionType]
      /\ \A t \in Symbols : after[t] # NoPosition =>
           t \in Held /\ Reason(t, p) = "none" /\ after[t] = Updated(t, p)
  BY <1>5 DEF AfterExits, Closing
<1> HIDE DEF after
<1>7. ASSUME p.dir # 0
      PROVE  /\ Opened(p) \in PositionType
             /\ Opened(p).capture = 0 /\ Opened(p).opened = now
  <2>1. p.dir \in Dir
    BY <1>2, <1>7 DEF Dir
  <2> QED
    BY <1>2, <2>1, PositionTyped DEF Opened
<1>8. /\ positions' \in [Symbols -> {NoPosition} \cup PositionType]
      /\ \A t \in Symbols : positions'[t] # NoPosition =>
           \/ t \in Held /\ Reason(t, p) = "none" /\ positions'[t] = Updated(t, p)
           \/ positions'[t] \in PositionType /\ positions'[t].capture = 0
                /\ positions'[t].opened = now
  <2>1. CASE positions' = after
    BY <1>6, <2>1
  <2>2. CASE p.dir # 0 /\ positions' = [after EXCEPT ![s] = Opened(p)]
    <3>1. positions' \in [Symbols -> {NoPosition} \cup PositionType]
      BY <1>6, <1>7, <2>2
    <3>2. \A t \in Symbols : positions'[t] = IF t = s THEN Opened(p) ELSE after[t]
      BY <1>6, <2>2
    <3> QED
      BY <1>6, <1>7, <2>2, <3>1, <3>2
  <2> QED
    BY <1>3, <2>1, <2>2 DEF after
<1>9. \A t \in Held' : positions'[t].impulse = 0 =>
        positions'[t].capture = 0 /\ now - positions'[t].opened <= TimeStop
  BY <1>4, <1>5, <1>8 DEF Held
<1>10. \A c \in closed' : c.pos.impulse = 0 => c.reason # "LagConvergence"
  <2>1. Closing(p) \subseteq Held
    BY DEF Closing
  <2> QED
    BY <1>3, <1>5, <2>1
<1> QED
  BY <1>4, <1>8, <1>9, <1>10 DEF PositionsOK, AdoptedRunsItsTime

LEMMA PositionsStep ==
  PricesOK /\ PositionsOK /\ AdoptedRunsItsTime /\ [Next]_vars
    => PositionsOK' /\ AdoptedRunsItsTime'
<1> SUFFICES ASSUME PricesOK, PositionsOK, AdoptedRunsItsTime, [Next]_vars
             PROVE  PositionsOK' /\ AdoptedRunsItsTime'
  OBVIOUS
<1>1. ASSUME NEW s \in Symbols, NEW mid \in Mids, BinanceTick(s, mid)
      PROVE  PositionsOK' /\ AdoptedRunsItsTime'
  BY <1>1, TickRunsTime
<1>2. ASSUME positions' = positions, HandlerOver PROVE PositionsOK' /\ AdoptedRunsItsTime'
  BY <1>2 DEF PositionsOK, AdoptedRunsItsTime, HandlerOver, Held
<1>3. ASSUME NEW s \in Symbols, NEW mid \in Mids, BybitQuote(s, mid)
      PROVE  PositionsOK' /\ AdoptedRunsItsTime'
  BY <1>2, <1>3 DEF BybitQuote
<1>4. CASE Elapse
  BY <1>2, <1>4 DEF Elapse
<1>5. CASE UNCHANGED vars
  BY <1>5 DEF vars, PositionsOK, AdoptedRunsItsTime, Held
<1> QED
  BY <1>1, <1>3, <1>4, <1>5 DEF Next

\* A position adopted at start-up is never taken for converged, and no tick, of
\* whatever symbol and at whatever prices, leaves it open once its time has run
\* out (position.rs:35-56, main.rs:113-131).
THEOREM AdoptedExpires == Spec => []AdoptedRunsItsTime
<1>1. Init => AdoptedRunsItsTime
  BY DEF Init, AdoptedRunsItsTime
<1> QED
  BY <1>1, PricesStart, PricesStep, PositionsStart, PositionsStep, PTL DEF Spec
=============================================================================

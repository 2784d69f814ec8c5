----------------------------- MODULE PriceRing ------------------------------
(***************************************************************************)
(* The price ring of SymbolMetrics (crates/observer-core/src/math.rs): the *)
(* last RING prices of a symbol with the times they were pushed, and the   *)
(* look-back that the impulse and the velocity are computed from.  Times   *)
(* are positive: utc_now_ns is 0 only before 1970, so the fallback for a   *)
(* newest sample without a time is left out.                               *)
(***************************************************************************)
EXTENDS Integers, Sequences

CONSTANT RING   \* samples kept: 2048

ASSUME RingIsPositive == RING \in Nat \ {0}

NewMetrics ==
  [prices |-> [i \in 0..RING - 1 |-> 0], times |-> [i \in 0..RING - 1 |-> 0],
   head |-> 0, len |-> 0]

PushPrice(m, price, now) ==
  [prices |-> [m.prices EXCEPT ![m.head] = price],
   times  |-> [m.times EXCEPT ![m.head] = now],
   head   |-> (m.head + 1) % RING,
   len    |-> IF m.len < RING THEN m.len + 1 ELSE m.len]

\* The slot of the sample pushed k samples before the newest.
Back(m, k) == (m.head + RING - 1 - k) % RING

\* The walk from the newest sample backwards ends at the k-th.
EndsAt(m, target, k) ==
  /\ \A j \in 0..k - 1 : m.times[Back(m, j)] > target
  /\ m.times[Back(m, k)] <= target \/ k = m.len - 1

\* Mutant of PriceAtAge.
PriceAtAgeOffByOne(m, age) ==
  IF m.len = 0 THEN 0
  ELSE LET target == m.times[Back(m, 0)] - age
       IN  m.prices[Back(m, 1 + CHOOSE k \in 0..m.len - 1 : EndsAt(m, target, k))]

\* price_at_age_ms; 0 stands for no price.
PriceAtAge(m, age) ==
  IF m.len = 0 THEN 0
  ELSE LET target == m.times[Back(m, 0)] - age
       IN  m.prices[Back(m, CHOOSE k \in 0..m.len - 1 : EndsAt(m, target, k))]
-----------------------------------------------------------------------------
(* What the look-back promises, in terms of all samples ever pushed: a     *)
(* sequence of [price, time] in the order of arrival.                      *)

Kept(samples) ==
  {i \in DOMAIN samples : i > Len(samples) - RING}

\* The youngest kept sample that is old enough, or else the oldest kept.
LookBack(samples, age) ==
  IF samples = <<>> THEN 0
  ELSE LET n == Len(samples)
           old == {i \in Kept(samples) : samples[i].time <= samples[n].time - age}
           chosen == IF old # {} THEN CHOOSE i \in old : \A j \in old : j <= i
                     ELSE CHOOSE i \in Kept(samples) : \A j \in Kept(samples) : i <= j
       IN  samples[chosen].price
=============================================================================

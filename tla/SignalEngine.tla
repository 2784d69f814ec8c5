---------------------------- MODULE SignalEngine ----------------------------
(***************************************************************************)
(* LagState (crates/observer-core/src/lag.rs) and EntryEngine::evaluate    *)
(* (entry.rs): from Binance's mid price, the price of a look-back ago and  *)
(* Bybit's mid price to the impulse, the residual and the entry signal.    *)
(* Prices are positive integers; 0 is "no price".  Relative moves are in   *)
(* basis points rounded to the nearest.  The fee floor, the trade hours,   *)
(* the follow-through gate and the two averages are one input: the side    *)
(* they admit, 1, -1, or 0 for none.  The regime never forbids a side      *)
(* (entry.rs:128-134 admits all three values).                             *)
(***************************************************************************)
EXTENDS PriceStats

CONSTANTS
  LagMin,       \* lag_min_bps
  ImpulseMin,   \* impulse_min_bps
  MaxStaleness  \* bybit_mid_max_staleness_ms, in steps of the clock

ASSUME SignalConstants ==
  /\ LagMin \in Nat \ {0}
  /\ ImpulseMin \in Nat
  /\ MaxStaleness \in Nat

\* The move from "base" to "price", in basis points.
Bps(price, base) == (20000 * (price - base) + base) \div (2 * base)

NewLagState == [bybit_mid |-> 0, bybit_ts |-> 0, ago |-> 0]

ApplyFeed(l, mid, now) == [l EXCEPT !.bybit_mid = mid, !.bybit_ts = now]

IsStale(l, now) == l.bybit_ts = 0 \/ now - l.bybit_ts > MaxStaleness

ImpulseBps(l, mid) == IF l.ago = 0 THEN 0 ELSE Bps(mid, l.ago)

\* The part of Binance's move that Bybit has not made yet.
LagResidualBps(l, mid) ==
  IF l.bybit_mid = 0 \/ l.ago = 0 THEN 0
  ELSE Bps(mid, l.ago) - Bps(l.bybit_mid, l.ago)

\* Mutant of Evaluate.
EvaluateUnled(stats, mid, residual, impulse, stale, side) ==
  IF ~stale /\ Magnitude(residual) >= LagMin /\ side * residual > 0 THEN side ELSE 0

\* direction_bias; entry_valid is set exactly when it is not 0.  The velocity
\* starts at the same look-back as the impulse and has its sign.
Evaluate(stats, mid, residual, impulse, stale, side) ==
  IF /\ ~stale
     /\ Magnitude(residual) >= LagMin
     /\ Magnitude(impulse) >= ImpulseMin
     /\ RangeReached(stats, mid)
     /\ ZScoreReached(stats, mid)
     /\ side * residual > 0
     /\ side * impulse > 0
  THEN side
  ELSE 0
=============================================================================

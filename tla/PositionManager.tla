-------------------------- MODULE PositionManager ---------------------------
(***************************************************************************)
(* PositionManager (crates/executor-core/src/position.rs): the lag capture *)
(* of a position, the reasons to close it and its first stop and target.   *)
(* A packet has the fields residual, impulse (in basis points) and vel     *)
(* (the sign of the velocity).  The capture ratio is in thousandths.       *)
(***************************************************************************)
EXTENDS SignalEngine

CONSTANTS
  TimeStop,    \* time_stop_ms, in steps of the clock
  TargetBps    \* initial_target_pct

ASSUME PositionConstants ==
  /\ TimeStop \in Nat
  /\ TargetBps \in Nat \ {0}

ExitReason == {"LagConvergence", "TimeStop", "Invalidation", "StopLoss", "TakeProfit"}

Least(x, y) == IF x < y THEN x ELSE y
Larger(x, y) == IF x > y THEN x ELSE y

\* Mutant of UpdateLagCapture.
CaptureWithoutImpulse(pos, packet) ==
  LET share == IF pos.impulse = 0 THEN 0
               ELSE (1000 * Magnitude(packet.residual)) \div Magnitude(pos.impulse)
  IN  [pos EXCEPT !.capture = 1000 - Least(share, 1000)]

\* An adopted position has no impulse and keeps its ratio of 0.
UpdateLagCapture(pos, packet) ==
  IF pos.impulse = 0 THEN pos
  ELSE LET share == (1000 * Magnitude(packet.residual)) \div Magnitude(pos.impulse)
       IN  [pos EXCEPT !.capture = 1000 - Least(share, 1000)]

\* The thesis of the position has turned: 2 basis points the other way.
Flipped(pos, packet) ==
  /\ pos.dir * packet.residual <= -2
  /\ pos.dir * packet.impulse < 0
  /\ pos.dir * packet.vel < 0

\* The reason to close the position, "none" to keep it, in the code's order.
CheckExit(pos, bybit_mid, packet, now) ==
  IF pos.capture >= 750 THEN "LagConvergence"
  ELSE IF now - pos.opened > TimeStop /\ pos.capture < 300 THEN "TimeStop"
  ELSE IF Flipped(pos, packet) THEN "Invalidation"
  ELSE IF pos.stop > 0 /\ pos.dir * (bybit_mid - pos.stop) <= 0 THEN "StopLoss"
  ELSE IF pos.target > 0 /\ pos.dir * (bybit_mid - pos.target) >= 0 THEN "TakeProfit"
  ELSE "none"

\* Nine fifths of the average range, of a thousandth of the price at least.
StopDistance(entry, atr) == (9 * Larger(atr, entry \div 1000)) \div 5

InitialStop(dir, entry, atr) == entry - dir * StopDistance(entry, atr)

InitialTarget(dir, entry) == entry + dir * ((entry * TargetBps) \div 10000)
=============================================================================

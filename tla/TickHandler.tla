---------------------------- MODULE TickHandler -----------------------------
(***************************************************************************)
(* What a Binance tick does with prices: the branch of                     *)
(* crates/executor-bin/src/main.rs:486-790 that pushes the price, takes    *)
(* the look-back, computes the packet, closes positions on it and opens    *)
(* one.  The module Executor has the same handler with its requests to the *)
(* exchange one by one and a free choice instead of prices; here prices    *)
(* are real and every request is answered at once.                         *)
(*                                                                         *)
(* The task that reads Bybit's quotes runs beside the handler.  What it    *)
(* changes while a handler is under way (the mid price of another symbol,  *)
(* as the handler copies the one of its own) it could as well have changed *)
(* before, so handlers are single steps.                                   *)
(***************************************************************************)
EXTENDS PositionManager, PriceRing, FiniteSets

CONSTANTS
  Symbols,     \* the enabled symbols
  Mids,        \* mid prices of Binance and Bybit
  Span,        \* the look-back of 100 ms, in steps of the clock
  MaxAdverse,  \* max_adverse_move_bps
  AdoptedAt,   \* bound: entry prices of the positions adopted at start-up
  MaxNow,      \* bound: steps of the clock
  MaxTicks     \* bound: ticks handled

ASSUME HandlerConstants ==
  /\ Mids \subseteq Nat \ {0}
  /\ AdoptedAt \subseteq Mids
  /\ Span \in Nat
  /\ MaxAdverse \in Nat
  /\ MaxNow \in Nat
  /\ MaxTicks \in Nat

VARIABLES
  now,        \* utc_now_ns, starting at 1
  metrics,    \* the price ring of each symbol
  stats,      \* the prices' deviation and average range of each symbol
  lags,       \* LagState of each symbol
  positions,  \* the position tracked on each symbol, or NoPosition
  packet,     \* the packet of the handler just run, or NoPacket
  closed,     \* the positions that handler closed, with the reason
  pushed      \* history: all samples of each symbol, in order

vars == <<now, metrics, stats, lags, positions, packet, closed, pushed>>

Dir == {1, -1}

NoPosition == [dir |-> 0]
NoPacket == [dir |-> 0]

Held == {s \in Symbols : positions[s] # NoPosition}

Position(dir, entry, atr, base, impulse) ==
  [dir |-> dir, stop |-> InitialStop(dir, base, atr), target |-> InitialTarget(dir, base),
   impulse |-> impulse, capture |-> 0, opened |-> now, entry |-> entry]

\* A position found at the exchange has neither range nor impulse.
Adopted(dir, entry) == Position(dir, entry, 0, entry, 0)

Ticks == Cardinality(UNION {{s} \X DOMAIN pushed[s] : s \in Symbols})

Init ==
  /\ now = 1
  /\ metrics = [s \in Symbols |-> NewMetrics]
  /\ stats = [s \in Symbols |-> NewStats]
  /\ lags = [s \in Symbols |-> NewLagState]
  /\ positions \in [Symbols -> {NoPosition} \cup {Adopted(d, p) : d \in Dir, p \in AdoptedAt}]
  /\ packet = NoPacket
  /\ closed = {}
  /\ pushed = [s \in Symbols |-> <<>>]
-----------------------------------------------------------------------------
(* The packet. *)

\* Look-back, deviation and range are taken with the new price in them.
WithTick(s, mid) == PushPrice(metrics[s], mid, now)

StatsAt(s, mid) == PushStats(stats[s], mid)

LagAt(s, mid) == [lags[s] EXCEPT !.ago = PriceAtAge(WithTick(s, mid), Span)]

PacketAt(s, mid, side) ==
  LET l == LagAt(s, mid)
      st == StatsAt(s, mid)
      residual == LagResidualBps(l, mid)
      impulse == ImpulseBps(l, mid)
  IN  [sym |-> s, ref |-> mid, bybit |-> l.bybit_mid, atr |-> st.atr,
       residual |-> residual, impulse |-> impulse, vel |-> impulse,
       dir |-> Evaluate(st, mid, residual, impulse, IsStale(l, now), side)]

\* adverse_move_bps: how far Bybit has moved through the signal's price.
AdverseMove(p) ==
  IF p.bybit = 0 THEN 0
  ELSE IF p.dir = 0 THEN Magnitude(Bps(p.bybit, p.ref))
  ELSE Larger(p.dir * Bps(p.bybit, p.ref), 0)
-----------------------------------------------------------------------------
(* Exits. *)

\* Bybit's mid price for a position on t; its own quote, never the packet's.
MidFor(t, p) ==
  IF t = p.sym /\ p.bybit > 0 THEN p.bybit
  ELSE IF lags[t].bybit_mid > 0 THEN lags[t].bybit_mid
  ELSE positions[t].entry

\* Every packet updates the capture of every position, whatever its symbol.
Updated(t, p) == UpdateLagCapture(positions[t], p)

Reason(t, p) == CheckExit(Updated(t, p), MidFor(t, p), p, now)

Closing(p) == {t \in Held : Reason(t, p) # "none"}

AfterExits(p) ==
  [t \in Symbols |-> IF t \in Closing(p) THEN NoPosition
                     ELSE IF t \in Held THEN Updated(t, p)
                     ELSE NoPosition]
-----------------------------------------------------------------------------
(* The handler, the quotes and the clock. *)

\* What is left of check_entry's tests and the one-position rule.  The packet's
\* age, its sequence number, the flag word and the halts are the choice between
\* the two outcomes in BinanceTick.
MayOpen(p) ==
  /\ p.dir # 0
  /\ AdverseMove(p) <= MaxAdverse
  /\ Closing(p) = Held

\* Entry price, stop and target are taken from the tick's own price.
Opened(p) == Position(p.dir, p.ref, p.atr, p.ref, p.impulse)

BinanceTick(s, mid) ==
  /\ Ticks < MaxTicks
  /\ metrics' = [metrics EXCEPT ![s] = WithTick(s, mid)]
  /\ stats' = [stats EXCEPT ![s] = StatsAt(s, mid)]
  /\ lags' = [lags EXCEPT ![s] = LagAt(s, mid)]
  /\ pushed' = [pushed EXCEPT ![s] = Append(@, [price |-> mid, time |-> now])]
  /\ \E side \in {-1, 0, 1} :
       LET p == PacketAt(s, mid, side)
       IN  /\ packet' = p
           /\ closed' = {[sym |-> t, pos |-> Updated(t, p), reason |-> Reason(t, p)] :
                           t \in Closing(p)}
           /\ \/ positions' = AfterExits(p)
              \/ /\ MayOpen(p)
                 /\ positions' = [AfterExits(p) EXCEPT ![s] = Opened(p)]
  /\ UNCHANGED now

HandlerOver == packet' = NoPacket /\ closed' = {}

BybitQuote(s, mid) ==
  /\ lags' = [lags EXCEPT ![s] = ApplyFeed(@, mid, now)]
  /\ HandlerOver
  /\ UNCHANGED <<now, metrics, stats, positions, pushed>>

Elapse ==
  /\ now < MaxNow
  /\ now' = now + 1
  /\ HandlerOver
  /\ UNCHANGED <<metrics, stats, lags, positions, pushed>>

Next ==
  \/ \E s \in Symbols, mid \in Mids : BinanceTick(s, mid) \/ BybitQuote(s, mid)
  \/ Elapse

Spec == Init /\ [][Next]_vars
-----------------------------------------------------------------------------
(* Properties. *)

\* The look-back of every symbol, read from the ring by the handler of main.rs
\* and kept in LagState, is the one that all its samples define, also when the
\* ring has wrapped, with one sample, and with samples of the same time.
LookBackIsReference ==
  \A s \in Symbols :
    /\ PriceAtAge(metrics[s], Span) = LookBack(pushed[s], Span)
    /\ lags[s].ago = LookBack(pushed[s], Span)

\* A signal follows a move of Binance that its own samples show, and Bybit, by
\* a quote that is not stale, is still behind (entry.rs, main.rs:544-572).
SignalFollowsMove ==
  packet # NoPacket /\ packet.dir # 0 =>
    LET s == packet.sym
    IN  /\ \E i \in Kept(pushed[s]) : packet.dir * (packet.ref - pushed[s][i].price) > 0
        /\ packet.dir * (packet.ref - packet.bybit) > 0
        /\ packet.bybit \in Mids
        /\ now - lags[s].bybit_ts <= MaxStaleness

\* A position adopted at start-up has no impulse to compare with: it is never
\* taken for converged, and no tick leaves it open once its time has run out
\* (position.rs:35-56, main.rs:113-131).
AdoptedRunsItsTime ==
  /\ \A c \in closed : c.pos.impulse = 0 => c.reason # "LagConvergence"
  /\ packet # NoPacket =>
       \A s \in Held : positions[s].impulse = 0 => now - positions[s].opened <= TimeStop

\* Bybit's side of the residual of symbol s at its own last tick.
OwnResidual(s) == LagResidualBps(lags[s], pushed[s][Len(pushed[s])].price)

\* A position is closed as converged only when Bybit has caught up with its own
\* symbol's move (position.rs:50, main.rs:578-585).
ConvergedOnOwnSymbol ==
  \A c \in closed : c.reason = "LagConvergence" =>
    4 * Magnitude(OwnResidual(c.sym)) <= Magnitude(c.pos.impulse)

\* When a position is opened, Bybit's price lies between its stop and its
\* target, so that neither has been crossed yet (main.rs:673-679).
OpenedInsideStops ==
  [][\A s \in Symbols :
       positions[s] = NoPosition /\ positions'[s] # NoPosition =>
         LET pos == positions'[s]
         IN  /\ pos.dir * (lags'[s].bybit_mid - pos.stop) > 0
             /\ pos.dir * (pos.target - lags'[s].bybit_mid) > 0]_vars
=============================================================================

----------------------------- MODULE PriceStats -----------------------------
(***************************************************************************)
(* The statistics of SymbolMetrics (crates/observer-core/src/math.rs) that *)
(* a signal and its stop depend on: Welford's mean and deviation of all    *)
(* prices of a symbol, and the average true range.  Welford's recurrence   *)
(* is kept as the sums it stands for, of the prices less the first one.    *)
(* The range is a whole number of price units, rounded down at each push.  *)
(* Prices are positive, 0 is "none".  The exponential averages are part of *)
(* the side that SignalEngine takes as an input.                           *)
(***************************************************************************)
EXTENDS Integers

CONSTANTS
  ZMin,   \* z_score_entry, in tenths
  AtrMin  \* atr_min_filter, in ten-thousandths of the price

ASSUME StatsConstants == ZMin \in Nat /\ AtrMin \in Nat

Magnitude(x) == IF x < 0 THEN -x ELSE x

NewStats ==
  [n |-> 0, first |-> 0, sum |-> 0, squares |-> 0,
   prev_close |-> 0, atr_count |-> 0, atr |-> 0]

\* Welford::update.
Accumulate(st, price) ==
  LET first == IF st.n = 0 THEN price ELSE st.first
      x == price - first
  IN  [st EXCEPT !.n = @ + 1, !.first = first, !.sum = @ + x, !.squares = @ + x * x]

\* The true range of a tick is its move, averaged over 14 of them; the first
\* push has none.
AddRange(st, price) ==
  IF st.prev_close = 0 THEN [st EXCEPT !.prev_close = price]
  ELSE LET count == st.atr_count + 1
           n == IF count < 14 THEN count ELSE 14
       IN  [st EXCEPT !.prev_close = price, !.atr_count = count,
                      !.atr = (@ * (n - 1) + Magnitude(price - st.prev_close)) \div n]

\* What push_price does besides filling the ring.
PushStats(st, price) == AddRange(Accumulate(st, price), price)

\* The z-score of the price reaches z_score_entry, squared and without
\* fractions; prices without a spread have score 0.
ZScoreReached(st, price) ==
  LET apart == st.n * (price - st.first) - st.sum
      spread == st.n * st.squares - st.sum * st.sum
  IN  IF spread = 0 THEN ZMin = 0
      ELSE 100 * (st.n - 1) * apart * apart >= ZMin * ZMin * st.n * spread

\* The range is a large enough part of the price; a limit of 0 is no limit.
RangeReached(st, price) == 10000 * st.atr >= AtrMin * price
=============================================================================

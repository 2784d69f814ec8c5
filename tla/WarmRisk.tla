------------------------------ MODULE WarmRisk ------------------------------
(***************************************************************************)
(* The warm risk state of crates/executor-core/src/warm_risk.rs and the    *)
(* flag word it publishes (crates/executor-core/src/risk.rs).  A flag word *)
(* is the set of the flags that are set.  Money is counted in units of the *)
(* deposit's smallest interesting fraction, so day_pnl_pct, which the      *)
(* executor computes as net_pnl / deposit, is the net result itself.       *)
(***************************************************************************)
EXTENDS Integers

CONSTANTS
  MaxDailyDd,       \* max_daily_dd_futures
  MaxFundingRate,   \* max_funding_rate
  MinBookDepth      \* min_book_depth_usd

ASSUME WarmLimits ==
  /\ MaxDailyDd \in Int
  /\ MaxFundingRate \in Int
  /\ MinBookDepth \in Int

RiskFlags ==
  {"CAPITAL_OK", "DD_OK", "CORR_OK", "BOOK_OK", "FUNDING_OK", "BASIS_OK",
   "MICRO_OK", "PAUSE_OK", "PAIR_ENABLED", "ENTRIES_FUTURES_OK",
   "FEE_EDGE_OK"}

AllRequiredFutures(flags) == RiskFlags \subseteq flags

WarmRiskState ==
  [dayPnl : Int, fundingRate : Int, bookDepth : Int, entriesHalted : BOOLEAN]

\* The state built in main: no loss, no funding rate and a book deep enough.
NewWarmRisk ==
  [dayPnl |-> 0, fundingRate |-> 0, bookDepth |-> MinBookDepth,
   entriesHalted |-> FALSE]

DrawdownReached(w) == w.dayPnl <= -MaxDailyDd

FundingTooHigh(w) == w.fundingRate > MaxFundingRate \/ -w.fundingRate > MaxFundingRate

BookTooThin(w) == w.bookDepth > 0 /\ w.bookDepth < MinBookDepth

\* The flags compute_flags clears, one set per test, and the word it returns.
ComputeFlags(w) ==
  RiskFlags \ UNION
    { IF DrawdownReached(w) THEN {"DD_OK", "ENTRIES_FUTURES_OK"} ELSE {},
      IF FundingTooHigh(w)  THEN {"FUNDING_OK"} ELSE {},
      IF BookTooThin(w)     THEN {"BOOK_OK", "MICRO_OK"} ELSE {},
      IF w.entriesHalted    THEN {"ENTRIES_FUTURES_OK", "PAUSE_OK"} ELSE {} }
=============================================================================

----------------------------- MODULE RiskEngine -----------------------------
(***************************************************************************)
(* RiskEngine::check_entry (crates/executor-core/src/risk.rs): the tests a *)
(* market packet passes, in the order of the code's early returns.         *)
(* A packet p has the fields                                               *)
(*   sym      the symbol, one slot of last_seq                             *)
(*   seq      its sequence number, u32 in the code                         *)
(*   valid    entry_valid, the signal engine's verdict                     *)
(*   adverse  Bybit has already moved past max_adverse_move_bps            *)
(*   dir      direction_bias, 1 or -1                                      *)
(* "late" says whether the packet's age exceeds max_latency_ns when the    *)
(* check reads the clock.  The test d_exp < d_min of the code is left out: *)
(* the signal engine sets entry_valid only when d_exp >= d_min.            *)
(***************************************************************************)
EXTENDS WarmRisk

RiskDecision == {"Open", "Skip", "Stale", "Duplicate", "AdverseMoveExceeded"}

\* The packet reaches the assignment of last_seq.
Sequenced(p, late, last) == p.valid /\ ~late /\ p.seq > last

CheckEntry(p, late, last, flags) ==
  IF ~p.valid THEN "Skip"
  ELSE IF late THEN "Stale"
  ELSE IF p.seq <= last THEN "Duplicate"
  ELSE IF ~AllRequiredFutures(flags) THEN "Skip"
  ELSE IF p.adverse THEN "AdverseMoveExceeded"
  ELSE "Open"
=============================================================================

----------------------------- MODULE TradeGate ------------------------------
(***************************************************************************)
(* What the executor promises of its entries, without saying how: while it *)
(* is up there is a gate, at most one decision, and a set of held          *)
(* positions.  A decision to enter needs the gate open and nothing held;   *)
(* it ends in a position or in nothing.  The gate may shut while a         *)
(* decision is carried out, but never opens then.  Positions are let go    *)
(* whatever the gate says, and never while a decision is carried out.      *)
(***************************************************************************)
CONSTANT Symbols

VARIABLES
  up,       \* the process is running
  open,     \* new entries are allowed
  pending,  \* the symbol of the decision being carried out, as a set
  held      \* the symbols with a position

gate == <<up, open, pending, held>>

GateInit ==
  /\ up = FALSE
  /\ open \in BOOLEAN
  /\ pending = {}
  /\ held = {}

Decide(s) ==
  /\ up
  /\ open
  /\ pending = {}
  /\ held = {}
  /\ pending' = {s}
  /\ UNCHANGED <<up, open, held>>

\* The decision ends, in a position or in nothing.
Settle ==
  /\ up
  /\ pending # {}
  /\ pending' = {}
  /\ held' \in {held, held \cup pending}
  /\ UNCHANGED <<up, open>>

Release(S) ==
  /\ up
  /\ pending = {}
  /\ held' = held \ S
  /\ UNCHANGED <<up, open, pending>>

Switch ==
  /\ up
  /\ open' \in BOOLEAN
  /\ pending = {} \/ ~open'
  /\ UNCHANGED <<up, pending, held>>

\* A crash forgets everything; a start may find positions left behind.
Stop ==
  /\ up
  /\ up' = FALSE
  /\ open' \in BOOLEAN
  /\ pending' = {}
  /\ held' = {}

Start(S) ==
  /\ ~up
  /\ up' = TRUE
  /\ held' = S
  /\ UNCHANGED <<open, pending>>

GateNext ==
  \/ \E s \in Symbols : Decide(s)
  \/ Settle
  \/ \E S \in SUBSET Symbols : Release(S)
  \/ Switch
  \/ Stop
  \/ \E S \in SUBSET Symbols : Start(S)

GateSpec == GateInit /\ [][GateNext]_gate
=============================================================================

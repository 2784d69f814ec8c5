---------------------------- MODULE StartupGates ----------------------------
(***************************************************************************)
(* What has to hold before a node starts: validate_startup and             *)
(* validate_production_edge (crates/shared/src/validation.rs), the mode    *)
(* gates of crates/executor-core/src/trading_mode.rs, the checks at the    *)
(* head of crates/executor-bin/src/main.rs and those the observer repeats  *)
(* by hand.  A configuration gathers the three files a node reads and the  *)
(* environment of its process.                                             *)
(***************************************************************************)
EXTENDS Integers

Mode == {"dev", "paper", "live", "unknown"}

\* positive: a symbol has net_edge_bps > 0; hours: each of those has 3 trade
\* hours or more.
EdgeProfile ==
  [status : {"pass", "fail"}, method : {"l2_vwap", "other"},
   source : {"live", "binance_vision", "synthetic", "", "other"}, days : Nat,
   positive : BOOLEAN, hours : BOOLEAN]

\* version: packet_version is the binary's; target: initial_target_pct covers
\* the fees; spot: a spot symbol is enabled although spot_enabled is not set;
\* keys, testnet and allowMainnet are the executor's environment.
Config ==
  [mode : Mode, allowUnverifiedPaper : BOOLEAN, edge : EdgeProfile,
   version : BOOLEAN, target : BOOLEAN, spot : BOOLEAN,
   keys : BOOLEAN, testnet : BOOLEAN, allowMainnet : BOOLEAN]

\* "Paper/live may only start when edge research passed on real L2 history."
ProductionEdge(e) ==
  /\ e.status = "pass"
  /\ e.method = "l2_vwap"
  /\ e.source \in {"live", "binance_vision"}
  /\ e.days >= 14
  /\ e.positive
  /\ e.hours

ValidStartup(c, needEdge) ==
  /\ c.mode \in {"dev", "paper", "live"}
  /\ c.version
  /\ c.target
  /\ ~c.spot
  /\ needEdge => ProductionEdge(c.edge)

\* Mutant of RequiresEdgeGate.
EdgeGateUnlessAllowed(c) == c.mode \in {"paper", "live"} /\ ~c.allowUnverifiedPaper

RequiresEdgeGate(c) ==
  \/ c.mode = "live"
  \/ c.mode = "paper" /\ ~c.allowUnverifiedPaper

AllowLiveOrders(c) == c.mode = "live"

\* The observer's own match on the mode, in front of the same validation.
ObserverStarts(c) ==
  ValidStartup(c, IF c.mode = "live" THEN TRUE
                  ELSE c.mode = "paper" /\ ~c.allowUnverifiedPaper)

ExecutorStarts(c) ==
  /\ ValidStartup(c, RequiresEdgeGate(c))
  /\ AllowLiveOrders(c) => c.keys
  /\ AllowLiveOrders(c) /\ ~c.testnet => c.allowMainnet

\* What the documents demand of a process that sends orders.
LiveCleared(c) ==
  /\ c.mode = "live"
  /\ ProductionEdge(c.edge)
  /\ c.keys
  /\ c.testnet \/ c.allowMainnet
=============================================================================

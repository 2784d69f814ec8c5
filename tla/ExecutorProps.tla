---------------------------- MODULE ExecutorProps ----------------------------
(***************************************************************************)
(* What is asked of the executor.  Which run checks a property, and under  *)
(* which faults it holds, is said in README.md.                            *)
(***************************************************************************)
EXTENDS Executor

\* Every variable keeps the type main.rs gives it, whatever the exchange, the
\* operator, the feed and the crashes do.
TypeOK ==
  /\ pc \in Awaiting \cup {"down", "select", "exits", "flatten", "record",
                           "entry", "stopFailed", "open", "hung"}
  /\ pkt \in Packet
  /\ todo \in SUBSET Symbols
  /\ closed \in SUBSET Symbols
  /\ cur \in Symbols \cup {NoSymbol}
  /\ qty \in Nat
  /\ stopId \in Nat
  /\ sleep \in 0..SleepTicks
  /\ hbAge \in 0..HbTimeout + 1
  /\ operatorHalt \in BOOLEAN
  /\ flattenRequest \in BOOLEAN
  /\ safeMode \in SafeModeState
  /\ warm \in WarmRiskState
  /\ warmFlags \in SUBSET RiskFlags
  /\ lastSeq \in [Symbols -> Nat]
  /\ positions \in [Symbols -> Position]
  /\ ledger \in Ledger
  /\ exPos \in [Symbols -> Int]
  /\ exStops \in SUBSET StopOrder
  /\ seeded \in Nat
  /\ stopOrders \in Nat
  /\ crashes \in 0..MaxCrashes
-----------------------------------------------------------------------------
(* The halt switch. *)

\* entries_halted is written in six places of main.rs, from different inputs;
\* it always is what the operator's halt and the safe mode say together.
HaltAgrees == warm.entriesHalted <=> (operatorHalt \/ HaltEntries(safeMode))

\* The flag word the risk engine reads is the one the shared warm state gives,
\* whichever task published last; only between the two locks of a failed stop
\* order may it lag behind.
FlagsAgree == pc # "stopFailed" => warmFlags = ComputeFlags(warm)

\* Where the loop task is carrying out a decision to enter.
Entering == {"instrument", "place", "poll", "stop"}

\* While an entry is on its way to the exchange entries are not halted, by
\* anyone, and no other position is tracked: neither an operator command, a
\* heartbeat miss nor a background task slips in between check and order.
NoEntryWhileHalted == pc \in Entering => ~EntriesHalted /\ Held = {}

\* An operator's halt outlives heartbeats, misses and failed orders: nothing
\* but ResumeEntries (or the loss of the process) lifts it.
OnlyResumeLiftsHalt ==
  [][operatorHalt /\ ~operatorHalt' => RecvResumeEntries \/ Crash]_vars

\* Once a heartbeat or a counted miss has seen the loss of the day at its limit,
\* no entry is decided: the flags the tick handler reads are published by
\* another branch, and two background tasks publish them in between
\* (main.rs:478; a loss realised since is not seen before the next heartbeat).
NoEntryAfterSeenLoss ==
  [][pc = "entry" /\ pc' \in {"instrument", "open"} =>
       warm.dayPnl > -MaxDailyDd]_vars

\* The entries of the executor are those the abstract gate allows.
Gate == INSTANCE TradeGate WITH
  up      <- pc # "down",
  open    <- ~EntriesHalted,
  pending <- IF pc \in Entering \cup {"stopFailed", "open"} THEN {pkt.sym} ELSE {},
  held    <- Held

RefinesGate == Gate!GateSpec
-----------------------------------------------------------------------------
(* The books. *)

\* "At most one open futures position" (main.rs:638), of those this process
\* opened itself: adopted ones may be more.
OneAtATime == seeded = 0 => Cardinality(Held) <= 1

\* Every recorded entry and every adopted position is either still tracked or
\* has exactly one recorded exit.
LedgerBalanced ==
  ledger.entries + seeded = ledger.exits + Cardinality(Held \ closed)

\* Between handlers the jsonl journal holds one line per fill of the ledger.
JournalComplete ==
  pc = "select" /\ seeded = 0 => ledger.lines = ledger.entries + ledger.exits
-----------------------------------------------------------------------------
(* The exchange. *)

Signed(p) == IF p.dir = 1 THEN p.qty ELSE -p.qty

\* Between handlers the tracked positions are the exchange's, side and size.
\* Where stops may fire (main.rs:133) one may have closed the position, whole;
\* the executor learns of it only when its own order to close is rejected.
PositionsAgree ==
  pc = "select" => \A s \in Symbols :
    \/ exPos[s] = Signed(positions[s])
    \/ exPos[s] = 0 /\ "trigger" \in Faults

\* The protective order of a tracked position, as OpenPosition remembers it.
StopOf(s) == [id |-> positions[s].stop, sym |-> s, dir |-> positions[s].dir,
              qty |-> positions[s].qty]

\* Between handlers every tracked position that the exchange still holds has its
\* stop order resting there, of its side and size, unless a restart adopted it
\* without the id; and each crash leaves at most one stop order behind that
\* nobody tracks.
StopsAgree ==
  pc = "select" =>
    /\ \A s \in Held : \/ exPos[s] = 0
                       \/ StopOf(s) \in exStops
                       \/ positions[s].stop = 0 /\ crashes > 0
    /\ Cardinality(exStops \ {StopOf(s) : s \in Held}) <= crashes

\* The account is exposed to one symbol at a time.
OneExposure == Cardinality({s \in Symbols : exPos[s] # 0}) <= 1

\* A flatten leaves nothing open at the exchange that was tracked before it.
FlattenLeavesNothing ==
  [][pc = "flatten" /\ pc' = "select" => \A s \in Symbols : exPos[s] = 0]_vars
-----------------------------------------------------------------------------
(* Progress. *)

FlattenDue == flattenRequest /\ Held # {}

\* An operator's flatten is carried out.
FlattenServed == FlattenDue ~> Held = {}

\* It is carried out whatever else arrives, as long as the timer branch gets its
\* turn again and again: no command, heartbeat or failed order withdraws it.
FlattenServedByTimer == []<><<TimerFires>>_vars => FlattenServed

\* A message arrives.  A timer iteration that finds nothing to change looks like
\* an ignored command, so a step the timer explains is not counted as one.
Arrival == RecvMessage /\ ~TimerFires

\* Where nothing more is promised: the process is not up, or a request of its
\* handler is never answered (bybit.rs:87 sets no timeout).
Stuck == pc \in {"down", "hung"}

\* A feed that falls silent for good ends in the emergency phase with nothing
\* held, and stays there, unless a request to the exchange is left unanswered:
\* then misses are no longer counted and nothing is closed.
SilenceEndsFlat ==
  <>[][~Arrival]_vars => <>[](Stuck \/ (CloseAll(safeMode) /\ Held = {}))

\* The steps a handler still has to take: for each position its loop has not
\* visited at most four, and those between its place and select!.
Weight(place) ==
  CASE place = "cancel" -> 11
    [] place = "close" -> 10
    [] place = "record" -> 9
    [] place \in {"exits", "flatten"} -> 8
    [] place = "entry" -> 7
    [] place = "instrument" -> 6
    [] place = "place" -> 5
    [] place = "poll" -> 4
    [] place = "stop" -> 3
    [] place = "stopFailed" -> 2
    [] place \in {"open", "hung"} -> 1
    [] OTHER -> 0

StepsLeft == Weight(pc) + 4 * Cardinality(todo)

\* Whatever the exchange answers, a step that moves a handler leaves it less to
\* do: no close that fails is tried again before the loop is through.
HandlerShrinks ==
  [][pc \notin {"down", "select"} /\ (pc' # pc \/ todo' # todo)
       => StepsLeft' < StepsLeft]_vars

\* A handler that has begun comes back to select!, unless a request of its own
\* is never answered.
HandlerEnds == pc \notin {"down", "select"} ~> pc = "select" \/ Stuck
=============================================================================

------------------------------ MODULE Executor ------------------------------
(***************************************************************************)
(* The executor process (crates/executor-bin/src/main.rs): one task runs a *)
(* select! loop over operator commands, heartbeats, Binance ticks and a    *)
(* 100 ms sleep; two background tasks update the warm risk state; with     *)
(* live orders on, the handlers talk to the Bybit exchange, which keeps    *)
(* positions and stop orders of its own.                                   *)
(*                                                                         *)
(* pc names the place the loop task has reached.  It leaves "select" with  *)
(* one message or with the sleep, runs the whole handler, and comes back;  *)
(* each await inside a handler is a value of pc, so that the background    *)
(* tasks, the exchange and a crash can act in between.                     *)
(***************************************************************************)
EXTENDS SafeMode, RiskEngine, FiniteSets

CONSTANTS
  Symbols,       \* the enabled symbols
  NoSymbol,      \* no symbol is being worked on
  LiveOrders,    \* live_orders: orders go to the exchange (else paper only)
  Lot,           \* the quantity of one entry order
  SleepTicks,    \* length of the 100 ms sleep, in steps of the clock
  HbTimeout,     \* heartbeat_timeout, in steps of the clock
  Commands,      \* the operator commands that may be sent
  Faults,        \* what may go wrong on the way to the exchange
  FundingRates,  \* results of the funding poll
  BookDepths,    \* positive depths the Bybit stream may report
  PnlOutcomes,   \* realised result of one closed position
  MaxSeq,        \* bound: largest sequence number of a tick
  MaxCrashes     \* bound: crashes of the process

OperatorAction == {"HaltEntries", "ResumeEntries", "FlattenAll", "StatusPing"}

\* refuse:  a request fails and nothing happens at the exchange
\* lose:    an order is executed but its response, or its id, never arrives
\* nofill:  polling an entry order ends without seeing its fill
\* partial: an order fills in part, or only part of its fill is seen
\* trigger: the exchange fires a stop order by itself
\* hang:    a request is never answered, neither with a response nor an error
FaultKinds == {"refuse", "lose", "nofill", "partial", "trigger", "hang"}

ASSUME ExecutorConstants ==
  /\ IsFiniteSet(Symbols)
  /\ NoSymbol \notin Symbols
  /\ LiveOrders \in BOOLEAN
  /\ Lot \in Nat \ {0}
  /\ SleepTicks \in Nat \ {0}
  /\ HbTimeout \in Nat
  /\ Commands \subseteq OperatorAction
  /\ Faults \subseteq FaultKinds
  /\ FundingRates \subseteq Int
  /\ BookDepths \subseteq Nat \ {0}
  /\ PnlOutcomes \subseteq Int
  /\ PnlOutcomes # {}
  /\ MaxSeq \in Nat
  /\ MaxCrashes \in Nat

VARIABLES
  pc,              \* where the loop task is
  pkt,             \* the packet of the tick being handled, or NoPacket
  todo,            \* positions the current loop over positions has yet to visit
  closed,          \* the Vec closed of the tick handler
  cur,             \* the position being closed
  qty,             \* quantity of the entry in flight, then its confirmed fill
  stopId,          \* stop_oid of the entry in flight, 0 for None
  sleep,           \* what is left of the sleep of this select! iteration
  hbAge,           \* last_hb.elapsed(), up to HbTimeout + 1
  operatorHalt,    \* operator_halt
  flattenRequest,  \* flatten_request
  safeMode,        \* safe_mode
  warm,            \* the shared WarmRiskState
  warmFlags,       \* the global WARM_FLAGS word
  lastSeq,         \* RiskEngine.last_seq
  positions,       \* the positions map, by symbol
  ledger,          \* PaperLedger and the lines appended to its jsonl file
  exPos,           \* exchange: signed net position of each symbol
  exStops,         \* exchange: resting stop orders
  seeded,          \* number of positions the last reconcile adopted
  stopOrders,      \* number of stop orders ever placed (their identifiers)
  crashes          \* crashes so far

frameVars  == <<pkt, todo, closed, cur, qty, stopId>>
gateVars   == <<operatorHalt, flattenRequest, safeMode, warm, warmFlags>>
bookVars   == <<positions, ledger, seeded>>
exVars     == <<exPos, exStops, stopOrders>>
vars == <<pc, frameVars, sleep, hbAge, gateVars, lastSeq, bookVars, exVars,
          crashes>>

Dir == {1, -1}

Packet == [sym : Symbols \cup {NoSymbol}, seq : Nat, valid : BOOLEAN,
           adverse : BOOLEAN, dir : Dir]

NoPacket == [sym |-> NoSymbol, seq |-> 0, valid |-> FALSE,
             adverse |-> FALSE, dir |-> 1]

\* A tick of any enabled symbol and any sequence number may arrive at any time:
\* the transport may drop, repeat or reorder it, and the observer may restart
\* its counter.  A packet that is not valid carries no direction.
Ticks ==
  {p \in [sym : Symbols, seq : 1..MaxSeq, valid : BOOLEAN, adverse : BOOLEAN,
          dir : Dir] : p.valid \/ (~p.adverse /\ p.dir = 1)}

\* The fields of PositionState the loop reads; quantity 0 stands for absence.
\* The map's keys name the symbol, and no two of its entries share one.
Position == [dir : Dir, qty : Nat, stop : Nat]
NoPosition == [dir |-> 1, qty |-> 0, stop |-> 0]

Held == {s \in Symbols : positions[s].qty > 0}

StopOrder == [id : Nat, sym : Symbols, dir : Dir, qty : Nat]

Ledger == [realized : Int, entries : Nat, exits : Nat, lines : Nat]
EmptyLedger == [realized |-> 0, entries |-> 0, exits |-> 0, lines |-> 0]
-----------------------------------------------------------------------------
(* The start and the end of a handler. *)

\* The handler's local variables are gone; the next iteration of select!
\* creates its sleep anew.
DropFrame ==
  /\ pkt' = NoPacket
  /\ todo' = {}
  /\ closed' = {}
  /\ cur' = NoSymbol
  /\ qty' = 0
  /\ stopId' = 0
  /\ sleep' = SleepTicks

BackToSelect ==
  /\ pc' = "select"
  /\ DropFrame

\* Mutant of Publish.
PublishToWarmOnly(w) ==
  /\ warm' = w
  /\ UNCHANGED warmFlags

Publish(w) ==
  /\ warm' = w
  /\ warmFlags' = ComputeFlags(w)

\* The tests that guard the entry part of the tick handler.
EntriesHalted == operatorHalt \/ HaltEntries(safeMode) \/ warm.entriesHalted

\* The exit loop and the flatten loop share the steps that close a position.
InTick == pkt # NoPacket
-----------------------------------------------------------------------------
(* Operator commands. *)

\* A command from an untrusted source, and StatusPing, change nothing; they
\* still end the iteration and so restart the sleep.
RecvIgnored ==
  /\ pc = "select"
  /\ BackToSelect
  /\ UNCHANGED <<hbAge, gateVars, lastSeq, bookVars, exVars, crashes>>

\* Mutant of RecvHaltEntries.
HaltDuringHandler ==
  /\ "HaltEntries" \in Commands
  /\ operatorHalt' = TRUE
  /\ Publish([warm EXCEPT !.entriesHalted = TRUE])
  /\ UNCHANGED <<pc, frameVars, sleep, hbAge, flattenRequest, safeMode,
                 lastSeq, bookVars, exVars, crashes>>

RecvHaltEntries ==
  /\ pc = "select"
  /\ "HaltEntries" \in Commands
  /\ operatorHalt' = TRUE
  /\ Publish([warm EXCEPT !.entriesHalted = TRUE])
  /\ BackToSelect
  /\ UNCHANGED <<hbAge, flattenRequest, safeMode, lastSeq, bookVars, exVars,
                 crashes>>

\* Mutant of RecvResumeEntries.
ResumeOverSafeMode ==
  /\ pc = "select"
  /\ "ResumeEntries" \in Commands
  /\ operatorHalt' = FALSE
  /\ Publish([warm EXCEPT !.entriesHalted = FALSE])
  /\ BackToSelect
  /\ UNCHANGED <<hbAge, flattenRequest, safeMode, lastSeq, bookVars, exVars,
                 crashes>>

\* Mutant of RecvResumeEntries.
ResumeDropsFlatten ==
  /\ pc = "select"
  /\ "ResumeEntries" \in Commands
  /\ operatorHalt' = FALSE
  /\ flattenRequest' = FALSE
  /\ Publish([warm EXCEPT !.entriesHalted = HaltEntries(safeMode)])
  /\ BackToSelect
  /\ UNCHANGED <<hbAge, safeMode, lastSeq, bookVars, exVars, crashes>>

RecvResumeEntries ==
  /\ pc = "select"
  /\ "ResumeEntries" \in Commands
  /\ operatorHalt' = FALSE
  /\ Publish([warm EXCEPT !.entriesHalted = HaltEntries(safeMode)])
  /\ BackToSelect
  /\ UNCHANGED <<hbAge, flattenRequest, safeMode, lastSeq, bookVars, exVars,
                 crashes>>

RecvFlattenAll ==
  /\ pc = "select"
  /\ "FlattenAll" \in Commands
  /\ flattenRequest' = TRUE
  /\ operatorHalt' = TRUE
  /\ Publish([warm EXCEPT !.entriesHalted = TRUE])
  /\ BackToSelect
  /\ UNCHANGED <<hbAge, safeMode, lastSeq, bookVars, exVars, crashes>>

\* Mutant of RecvHeartbeat.
HeartbeatLiftsHalt ==
  /\ pc = "select"
  /\ hbAge' = 0
  /\ safeMode' = OnHeartbeat(safeMode)
  /\ operatorHalt' = FALSE
  /\ Publish([warm EXCEPT !.entriesHalted = FALSE, !.dayPnl = ledger.realized])
  /\ BackToSelect
  /\ UNCHANGED <<flattenRequest, lastSeq, bookVars, exVars, crashes>>

\* Heartbeats count as fresh when they are handled, whatever their age.
RecvHeartbeat ==
  /\ pc = "select"
  /\ hbAge' = 0
  /\ safeMode' = OnHeartbeat(safeMode)
  /\ Publish([warm EXCEPT !.entriesHalted = operatorHalt \/ HaltEntries(safeMode'),
                          !.dayPnl = ledger.realized])
  /\ BackToSelect
  /\ UNCHANGED <<operatorHalt, flattenRequest, lastSeq, bookVars, exVars,
                 crashes>>
-----------------------------------------------------------------------------
(* A Binance tick: exits first, then at most one entry. *)

RecvTick(p) ==
  /\ pc = "select"
  /\ pkt' = p
  /\ todo' = Held
  /\ pc' = "exits"
  /\ sleep' = SleepTicks
  /\ UNCHANGED <<closed, cur, qty, stopId, hbAge, gateVars, lastSeq, bookVars,
                 exVars, crashes>>

\* check_exit keeps the position.  Its verdict depends on prices and time,
\* which the model does not have: both answers are always possible.
KeepPosition(s) ==
  /\ pc = "exits"
  /\ s \in todo
  /\ todo' = todo \ {s}
  /\ UNCHANGED <<pc, pkt, closed, cur, qty, stopId, sleep, hbAge, gateVars,
                 lastSeq, bookVars, exVars, crashes>>

\* Mutant of BeginClose.
BeginCloseAgain(s) ==
  /\ pc \in {"exits", "flatten"}
  /\ s \in todo
  /\ cur' = s
  /\ pc' = IF LiveOrders THEN "cancel" ELSE "record"
  /\ UNCHANGED <<pkt, todo, closed, qty, stopId, sleep, hbAge, gateVars,
                 lastSeq, bookVars, exVars, crashes>>

\* check_exit names a reason, or the flatten loop takes the next position.
BeginClose(s) ==
  /\ pc \in {"exits", "flatten"}
  /\ s \in todo
  /\ todo' = todo \ {s}
  /\ cur' = s
  /\ pc' = IF LiveOrders THEN "cancel" ELSE "record"
  /\ UNCHANGED <<pkt, closed, qty, stopId, sleep, hbAge, gateVars, lastSeq,
                 bookVars, exVars, crashes>>

\* Mutant of CancelStop.
LeaveStop ==
  /\ pc = "cancel"
  /\ pc' = "close"
  /\ UNCHANGED <<frameVars, sleep, hbAge, gateVars, lastSeq, bookVars, exVars,
                 crashes>>

\* cancel_exchange_stop: without a stop id nothing is sent; errors are ignored.
CancelStop ==
  /\ pc = "cancel"
  /\ \/ exStops' = {st \in exStops : st.id # positions[cur].stop}
     \/ "refuse" \in Faults /\ positions[cur].stop # 0 /\ UNCHANGED exStops
  /\ pc' = "close"
  /\ UNCHANGED <<frameVars, sleep, hbAge, gateVars, lastSeq, bookVars, exPos,
                 stopOrders, crashes>>

\* Mutant of Reducible.
ReducibleOnWrongSide(s, d, q) ==
  LET open == IF d = 1 THEN -exPos[s] ELSE exPos[s]
  IN  IF open <= 0 THEN 0 ELSE IF q <= open THEN q ELSE open

\* What a reduce-only order of quantity q against side d can take away.
Reducible(s, d, q) ==
  LET open == IF d = 1 THEN exPos[s] ELSE -exPos[s]
  IN  IF open <= 0 THEN 0 ELSE IF q <= open THEN q ELSE open

\* What may be filled of a market order of quantity q.
Fills(q) == IF "partial" \in Faults THEN 1..q ELSE {q}

Executed(s, d, f) ==
  exPos' = [exPos EXCEPT ![s] = IF d = 1 THEN @ + f ELSE @ - f]

\* An Err from place_reduce_only_close: the exit loop keeps the position and
\* goes on, the flatten loop only logs it.
CloseFailed ==
  /\ pc' = IF InTick THEN "exits" ELSE "record"
  /\ cur' = IF InTick THEN NoSymbol ELSE cur

\* place_reduce_only_close.  An accepted order is a success whatever the poll
\* of its fill says.
ReduceOnlyClose ==
  LET p == positions[cur]
      r == Reducible(cur, p.dir, p.qty)
  IN  /\ pc = "close"
      /\ \/ /\ r > 0
            /\ \E f \in Fills(r) : Executed(cur, -p.dir, f)
            /\ \/ pc' = "record" /\ UNCHANGED cur
               \/ "lose" \in Faults /\ CloseFailed
         \/ /\ r = 0 \/ "refuse" \in Faults
            /\ UNCHANGED exPos
            /\ CloseFailed
      /\ UNCHANGED <<pkt, todo, closed, qty, stopId, sleep, hbAge, gateVars,
                     lastSeq, bookVars, exStops, stopOrders, crashes>>

\* record_exit.  The tick handler appends the fill to the jsonl file at once
\* and removes the position after its loop; the flatten loop drains the map.
RecordExit(pnl) ==
  /\ pc = "record"
  /\ cur' = NoSymbol
  /\ IF InTick
     THEN /\ pc' = "exits"
          /\ closed' = closed \cup {cur}
          /\ UNCHANGED positions
          /\ ledger' = [ledger EXCEPT !.realized = @ + pnl, !.exits = @ + 1,
                                      !.lines = @ + 1]
     ELSE /\ pc' = "flatten"
          /\ positions' = [positions EXCEPT ![cur] = NoPosition]
          /\ UNCHANGED closed
          /\ ledger' = [ledger EXCEPT !.realized = @ + pnl, !.exits = @ + 1]
  /\ UNCHANGED <<pkt, todo, qty, stopId, sleep, hbAge, gateVars, lastSeq,
                 seeded, exVars, crashes>>

\* Mutant of ExitsDone.
ExitsKeepClosed ==
  /\ pc = "exits"
  /\ todo = {}
  /\ closed' = {}
  /\ pc' = "entry"
  /\ UNCHANGED <<pkt, todo, cur, qty, stopId, sleep, hbAge, gateVars, lastSeq,
                 bookVars, exVars, crashes>>

ExitsDone ==
  /\ pc = "exits"
  /\ todo = {}
  /\ positions' = [s \in Symbols |->
                     IF s \in closed THEN NoPosition ELSE positions[s]]
  /\ closed' = {}
  /\ pc' = "entry"
  /\ UNCHANGED <<pkt, todo, cur, qty, stopId, sleep, hbAge, gateVars, lastSeq,
                 ledger, seeded, exVars, crashes>>

SkipEntry ==
  /\ pc = "entry"
  /\ EntriesHalted
  /\ BackToSelect
  /\ UNCHANGED <<hbAge, gateVars, lastSeq, bookVars, exVars, crashes>>

\* Mutant of MayOpen.
MayOpenAnother(late) ==
  CheckEntry(pkt, late, lastSeq[pkt.sym], warmFlags) = "Open"

\* check_entry says Open and no position is held.
MayOpen(late) ==
  /\ CheckEntry(pkt, late, lastSeq[pkt.sym], warmFlags) = "Open"
  /\ Held = {}

DecideEntry(late) ==
  /\ pc = "entry"
  /\ ~EntriesHalted
  /\ lastSeq' = IF Sequenced(pkt, late, lastSeq[pkt.sym])
                THEN [lastSeq EXCEPT ![pkt.sym] = pkt.seq] ELSE lastSeq
  /\ IF MayOpen(late)
     THEN /\ pc' = IF LiveOrders THEN "instrument" ELSE "open"
          /\ qty' = Lot
          /\ UNCHANGED <<pkt, todo, closed, cur, stopId, sleep>>
     ELSE BackToSelect
  /\ UNCHANGED <<hbAge, gateVars, bookVars, exVars, crashes>>

\* fetch_instrument, round_qty and set_leverage (whose failure is ignored).  The
\* entry is given up without an instrument, or with a quantity below its minimum.
FetchInstrument ==
  /\ pc = "instrument"
  /\ \/ /\ pc' = "place"
        /\ UNCHANGED <<frameVars, sleep>>
     \/ BackToSelect
  /\ UNCHANGED <<hbAge, gateVars, lastSeq, bookVars, exVars, crashes>>

\* The entry order.  An order whose response or identifier is missing is
\* given up, executed or not.
PlaceEntry ==
  /\ pc = "place"
  /\ \/ \E f \in Fills(qty) :
          /\ Executed(pkt.sym, pkt.dir, f)
          /\ \/ /\ pc' = "poll"
                /\ qty' = f
                /\ UNCHANGED <<pkt, todo, closed, cur, stopId, sleep>>
             \/ "lose" \in Faults /\ BackToSelect
     \/ "refuse" \in Faults /\ UNCHANGED exPos /\ BackToSelect
  /\ UNCHANGED <<hbAge, gateVars, lastSeq, bookVars, exStops, stopOrders,
                 crashes>>

\* await_order_fill returns the first positive cumulative fill it sees.
PollFill ==
  /\ pc = "poll"
  /\ \/ /\ qty' \in Fills(qty)
        /\ pc' = "stop"
        /\ UNCHANGED <<pkt, todo, closed, cur, stopId, sleep>>
     \/ "nofill" \in Faults /\ BackToSelect
  /\ UNCHANGED <<hbAge, gateVars, lastSeq, bookVars, exVars, crashes>>

RestingStop ==
  [id |-> stopOrders + 1, sym |-> pkt.sym, dir |-> pkt.dir, qty |-> qty]

\* The protective stop.  When it fails, the handler halts entries: it sets
\* both halt variables here and publishes the flags under a second lock.
PlaceStop ==
  /\ pc = "stop"
  /\ \/ /\ exStops' = exStops \cup {RestingStop}
        /\ stopOrders' = stopOrders + 1
        /\ \/ /\ \/ stopId' = stopOrders + 1
                 \/ "lose" \in Faults /\ UNCHANGED stopId
              /\ pc' = "open"
              /\ UNCHANGED <<operatorHalt, warm>>
           \/ /\ "lose" \in Faults
              /\ operatorHalt' = TRUE
              /\ warm' = [warm EXCEPT !.entriesHalted = TRUE]
              /\ pc' = "stopFailed"
              /\ UNCHANGED stopId
     \/ /\ "refuse" \in Faults
        /\ operatorHalt' = TRUE
        /\ warm' = [warm EXCEPT !.entriesHalted = TRUE]
        /\ pc' = "stopFailed"
        /\ UNCHANGED <<stopId, exStops, stopOrders>>
  /\ UNCHANGED <<pkt, todo, closed, cur, qty, sleep, hbAge, flattenRequest,
                 safeMode, warmFlags, lastSeq, bookVars, exPos, crashes>>

PublishStopFailure ==
  /\ pc = "stopFailed"
  /\ Publish(warm)
  /\ pc' = "open"
  /\ UNCHANGED <<frameVars, sleep, hbAge, operatorHalt, flattenRequest,
                 safeMode, lastSeq, bookVars, exVars, crashes>>

OpenPosition ==
  /\ pc = "open"
  /\ positions' = [positions EXCEPT
       ![pkt.sym] = [dir |-> pkt.dir, qty |-> qty, stop |-> stopId]]
  /\ ledger' = [ledger EXCEPT !.entries = @ + 1, !.lines = @ + 1]
  /\ BackToSelect
  /\ UNCHANGED <<hbAge, gateVars, lastSeq, seeded, exVars, crashes>>
-----------------------------------------------------------------------------
(* The timer branch. *)

\* With the heartbeat overdue a miss is counted; then positions are closed if
\* the phase or the operator demands it.
TimerFires ==
  LET missed == hbAge > HbTimeout
      sm == IF missed THEN OnMiss(safeMode) ELSE safeMode
  IN  /\ pc = "select"
      /\ sleep = 0
      /\ safeMode' = sm
      /\ IF missed
         THEN Publish([warm EXCEPT
                         !.entriesHalted = operatorHalt \/ HaltEntries(sm),
                         !.dayPnl = ledger.realized])
         ELSE UNCHANGED <<warm, warmFlags>>
      /\ IF (CloseAll(sm) \/ flattenRequest) /\ Held # {}
         THEN /\ flattenRequest' = FALSE
              /\ todo' = Held
              /\ pc' = "flatten"
              /\ sleep' = SleepTicks
              /\ UNCHANGED <<pkt, closed, cur, qty, stopId>>
         ELSE /\ BackToSelect
              /\ UNCHANGED flattenRequest
      /\ UNCHANGED <<hbAge, operatorHalt, lastSeq, bookVars, exVars, crashes>>

\* Mutant of FlattenDone.
FlattenUnwritten ==
  /\ pc = "flatten"
  /\ todo = {}
  /\ BackToSelect
  /\ UNCHANGED <<hbAge, gateVars, lastSeq, bookVars, exVars, crashes>>

\* append_jsonl writes the ledger's last fill, once for the whole flatten.
FlattenDone ==
  /\ pc = "flatten"
  /\ todo = {}
  /\ ledger' = [ledger EXCEPT !.lines = @ + 1]
  /\ BackToSelect
  /\ UNCHANGED <<hbAge, gateVars, lastSeq, positions, seeded, exVars, crashes>>
-----------------------------------------------------------------------------
(* Time, the background tasks and the exchange. *)

\* Where the loop task waits for an answer of the exchange.
Awaiting == {"cancel", "close", "instrument", "place", "poll", "stop"}

\* The client has no timeout, and no caller sets one: a request that is never
\* answered, carried out or not, holds the select! loop where it waits.
Unanswered ==
  /\ "hang" \in Faults
  /\ pc \in Awaiting
  /\ pc = "cancel" => positions[cur].stop # 0
  /\ pc' = "hung"
  /\ \/ UNCHANGED exVars
     \/ /\ pc = "cancel"
        /\ exStops' = {st \in exStops : st.id # positions[cur].stop}
        /\ UNCHANGED <<exPos, stopOrders>>
     \/ /\ pc = "close"
        /\ \E f \in Fills(Reducible(cur, positions[cur].dir, positions[cur].qty)) :
             Executed(cur, -positions[cur].dir, f)
        /\ UNCHANGED <<exStops, stopOrders>>
     \/ /\ pc = "place"
        /\ \E f \in Fills(qty) : Executed(pkt.sym, pkt.dir, f)
        /\ UNCHANGED <<exStops, stopOrders>>
     \/ /\ pc = "stop"
        /\ exStops' = exStops \cup {RestingStop}
        /\ stopOrders' = stopOrders + 1
        /\ UNCHANGED exPos
  /\ UNCHANGED <<frameVars, sleep, hbAge, gateVars, lastSeq, bookVars, crashes>>

\* The clock.  Once the sleep is over the loop task is woken before the next
\* step of the clock; a message may still win the race.
Elapse ==
  /\ \/ pc = "select" /\ sleep > 0 /\ sleep' = sleep - 1
     \/ LiveOrders /\ pc \in Awaiting \cup {"hung"} /\ UNCHANGED sleep
  /\ hbAge' = IF hbAge > HbTimeout THEN hbAge ELSE hbAge + 1
  /\ UNCHANGED <<pc, frameVars, gateVars, lastSeq, bookVars, exVars, crashes>>

DepthUpdate(d) ==
  /\ pc # "down"
  /\ Publish([warm EXCEPT !.bookDepth = d])
  /\ UNCHANGED <<pc, frameVars, sleep, hbAge, operatorHalt, flattenRequest,
                 safeMode, lastSeq, bookVars, exVars, crashes>>

FundingUpdate(r) ==
  /\ pc # "down"
  /\ Publish([warm EXCEPT !.fundingRate = r])
  /\ UNCHANGED <<pc, frameVars, sleep, hbAge, operatorHalt, flattenRequest,
                 safeMode, lastSeq, bookVars, exVars, crashes>>

\* The exchange fires a resting stop, a reduce-only market order.
StopTriggers(st) ==
  /\ "trigger" \in Faults
  /\ exStops' = exStops \ {st}
  /\ Executed(st.sym, -st.dir, Reducible(st.sym, st.dir, st.qty))
  /\ UNCHANGED <<pc, frameVars, sleep, hbAge, gateVars, lastSeq, bookVars,
                 stopOrders, crashes>>
-----------------------------------------------------------------------------
(* Starting, crashing and starting again: only the exchange remembers. *)

Init ==
  /\ pc = "down"
  /\ pkt = NoPacket
  /\ todo = {}
  /\ closed = {}
  /\ cur = NoSymbol
  /\ qty = 0
  /\ stopId = 0
  /\ sleep = SleepTicks
  /\ hbAge = 0
  /\ operatorHalt = FALSE
  /\ flattenRequest = FALSE
  /\ safeMode = NewSafeMode
  /\ warm = NewWarmRisk
  /\ warmFlags = ComputeFlags(NewWarmRisk)
  /\ lastSeq = [s \in Symbols |-> 0]
  /\ positions = [s \in Symbols |-> NoPosition]
  /\ ledger = EmptyLedger
  /\ seeded = 0
  /\ exPos = [s \in Symbols |-> 0]
  /\ exStops = {}
  /\ stopOrders = 0
  /\ crashes = 0

Crash ==
  /\ pc # "down"
  /\ crashes < MaxCrashes
  /\ pc' = "down"
  /\ DropFrame
  /\ hbAge' = 0
  /\ operatorHalt' = FALSE
  /\ flattenRequest' = FALSE
  /\ safeMode' = NewSafeMode
  /\ Publish(NewWarmRisk)
  /\ lastSeq' = [s \in Symbols |-> 0]
  /\ positions' = [s \in Symbols |-> NoPosition]
  /\ ledger' = EmptyLedger
  /\ seeded' = 0
  /\ crashes' = crashes + 1
  /\ UNCHANGED exVars

\* Mutant of Adopted.
AdoptedSigned(n) ==
  [dir |-> IF n > 0 THEN 1 ELSE -1, qty |-> n, stop |-> 0]

\* Mutant of Adopted.
AdoptedLong(n) == [dir |-> 1, qty |-> IF n > 0 THEN n ELSE -n, stop |-> 0]

\* The position seed_positions_from_exchange makes of a net position n.
Adopted(n) ==
  [dir |-> IF n > 0 THEN 1 ELSE -1, qty |-> IF n > 0 THEN n ELSE -n, stop |-> 0]

\* The startup reconcile; its failure is logged and the loop starts anyway.
Startup ==
  /\ pc = "down"
  /\ pc' = "select"
  /\ \/ /\ LiveOrders
        /\ positions' = [s \in Symbols |->
             IF exPos[s] = 0 THEN NoPosition ELSE Adopted(exPos[s])]
        /\ seeded' = Cardinality({s \in Symbols : exPos[s] # 0})
     \/ /\ ~LiveOrders \/ "refuse" \in Faults
        /\ UNCHANGED <<positions, seeded>>
  /\ UNCHANGED <<frameVars, sleep, hbAge, gateVars, lastSeq, ledger, exVars,
                 crashes>>
-----------------------------------------------------------------------------
RecvMessage ==
  \/ RecvIgnored
  \/ RecvHaltEntries
  \/ RecvResumeEntries
  \/ RecvFlattenAll
  \/ RecvHeartbeat
  \/ \E p \in Ticks : RecvTick(p)

CloseStep ==
  \/ \E s \in Symbols : KeepPosition(s)
  \/ \E s \in Symbols : BeginClose(s)
  \/ CancelStop
  \/ ReduceOnlyClose
  \/ \E pnl \in PnlOutcomes : RecordExit(pnl)
  \/ ExitsDone
  \/ FlattenDone

EntryStep ==
  \/ SkipEntry
  \/ \E late \in BOOLEAN : DecideEntry(late)
  \/ FetchInstrument
  \/ PlaceEntry
  \/ PollFill
  \/ PlaceStop
  \/ PublishStopFailure
  \/ OpenPosition

Background ==
  \/ \E d \in BookDepths : DepthUpdate(d)
  \/ \E r \in FundingRates : FundingUpdate(r)
  \/ \E st \in exStops : StopTriggers(st)

Next ==
  \/ RecvMessage
  \/ CloseStep
  \/ EntryStep
  \/ Unanswered
  \/ TimerFires
  \/ Elapse
  \/ Background
  \/ Crash
  \/ Startup

Spec == Init /\ [][Next]_vars

\* The clock runs and a woken task is scheduled: a handler goes on unless the
\* answer it waits for never comes (Unanswered).  Nothing makes a message arrive,
\* a background task report, a process crash, or the reconcile at startup return.
FairSpec ==
  /\ Spec
  /\ WF_vars(Elapse)
  /\ WF_vars(TimerFires)
  /\ WF_vars(CloseStep)
  /\ WF_vars(EntryStep)
=============================================================================

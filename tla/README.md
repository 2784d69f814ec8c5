# Verification of the lead-lag trading bot

TLA+ models, TLC configurations and TLAPS proofs kept beside the Rust sources
(`src/crates`).  The bot forwards Binance ticks from Tokyo, decides and trades
on Bybit from Singapore, and must never hold more than it believes it holds.
What can go wrong is less in its arithmetic than in its order of events: one
`select!` loop whose handlers wait for an exchange that may refuse, half-do or
hide what it did, while two background tasks, an operator and a lossy
transport act in between.

## 1. Inventory

| Part | State it keeps | Operations | Interacts with | What makes it correct |
|---|---|---|---|---|
| Executor loop (`executor-bin/src/main.rs`) | `positions`, `operator_halt`, `flatten_request`, `last_hb`, ledger | operator command, heartbeat, tick (exits, then one entry), timer | everything below | halts hold, one position, books balance, a flatten is carried out |
| Safe mode (`safe_mode.rs`) | miss count, phase | `on_heartbeat`, `on_miss` | timer and heartbeat branches | phase follows the misses; silence ends in Emergency |
| Warm risk (`warm_risk.rs`) | day result, funding, depth, `entries_halted` | `publish` | loop, book stream, funding poll (shared behind a mutex) | the flag word never lags behind the state |
| Risk engine (`risk.rs`) | `WARM_FLAGS`, `last_seq` | `check_entry` | tick handler | no fresh tick refused, no entry with a flag cleared |
| Position manager (`position.rs`) | lag capture, stop, target | `update_lag_capture`, `check_exit`, `initial_stops` | tick handler | exits only for a reason of its own symbol |
| Paper ledger (`paper_ledger.rs`) | fills, result, jsonl file | `record_entry`, `record_exit`, `append_jsonl` | loop | each entry one exit, each fill one line |
| Bybit REST (`bybit.rs`) | none; the exchange has positions and stops | place, cancel, poll, instrument, leverage, open positions | handlers await it | tracked positions are the exchange's |
| Signal engine (`entry.rs`, `lag.rs`, `math.rs`) | mids, price ring, deviation, range, moving averages | `push_price`, `price_at_age_ms`, `evaluate` | tick handler | a signal follows a move Bybit has not made |
| Follow-through (`follow_through.rs`) | window of outcomes, pending list | `record`, `allows_entry` | tick handler | every sample is settled; a shut gate does not flap |
| Packet log, replay (`packet_log.rs`, `replay`) | append-only file | `append`, `read_packets` | tick handler, replay | what was appended can be read |
| Observer (`observer-bin`, `binance.rs`) | sequence counter, connection, channel | forward ticks, heartbeat every 100 ms | zenoh | keeps forwarding, in order |
| Zenoh transport (`zenoh_infra`) | ticks and samples under way | put, deliver, lose | all processes | order within a session |
| Control panel (`panel`) | displayed halt, requests being served | `halt_trading`, `dashboard` | zenoh, executor | what it shows is what the executor does |
| Telegram bridge (`telegram-alerts`) | update offset, fetched batch | poll, publish | Telegram, zenoh, executor | commands in order, none lost by its own restart |
| Start-up gates (`trading_mode.rs`, `validation.rs`, `main.rs`) | none | check the configuration | start of both nodes | no live order without every gate |
| Configuration (`config.rs`) | none | parse three files and the environment | start-up gates | its fields are constants of the models |

Hard behaviours: the timer branch competes with messages; requests fail after
they took effect, or are never answered; a process may die between an order and its record; three
tasks write one flag word; the transport loses, repeats and reorders ticks; the two nodes restart each by
itself, and each keeps counters the other one relies on.
`PROJECT.json` lists these hazards at their lines and the properties on them.

## 2. Modules

| Module | Models |
|---|---|
| `SafeMode` | the miss ladder as operators on `[misses, phase]` |
| `WarmRisk` | `WarmRiskState`, `compute_flags`; a flag word is the set of its flags |
| `RiskEngine` | `check_entry` with its early returns in order, and when `last_seq` is assigned |
| `Executor` | the process, the background tasks and the exchange: state, `Init`, one action per branch and per await |
| `ExecutorProps` | the properties |
| `PriceRing` | the ring of prices of `math.rs` and its look-back |
| `PriceStats` | the deviation of all prices (Welford), the z-score and the average range |
| `SignalEngine` | `LagState` and the conditions of `evaluate`, over integer prices |
| `PositionManager` | lag capture, `check_exit`, first stop and target |
| `TickHandler` | a tick's way through these four, with the quotes of the other exchange and the clock |
| `StartupGates` | what a configuration must satisfy before each node starts |
| `PacketLog` | the file as the chunks its writes leave, and what `read_packets` makes of it |
| `Feed` | both nodes' starts and crashes, the streams, the counter, the wire, the log and the number test |
| `TradeGate` | abstract: when may an entry be decided, when does it end, who may open or shut the gate |
| `FollowThrough` | the gate's windows and what feeds them: ticks, entries, quotes, time, restarts |
| `OperatorBus` | panel, Telegram bridge, the command topic and the halt switch of the executor |
| `MCExecutor`, `MCFollowThrough`, `MCOperatorBus`, `MCTickHandler`, `MCFeed` | values of constants for TLC |
| `ExecutorProofs`, `ExecutorGateProofs`, `ExecutorBooksProofs` | theorems: the miss ladder and types; halts, flags, decisions and the abstract gate; books and the exchange |
| `FollowThroughProofs`, `OperatorBusProofs`, `TickHandlerProofs` | theorems about the module of that name |
| `FeedProofs`, `PacketLogProofs` | theorems about the start-up gates, the feed and its log |

### State and actions against the code

`pc` is the place of the loop task.  `select` is the top of the loop
(main.rs:424); a handler leaves it with one message and every `await` in it is
a value of `pc`, so background tasks, the exchange, the clock and a crash can
come between two awaits, and nothing else can: the loop is one task.

| Action | Code |
|---|---|
| `RecvIgnored`, `RecvHaltEntries`, `RecvResumeEntries`, `RecvFlattenAll`, `RecvHeartbeat` | main.rs:426-485 |
| `RecvTick`, `KeepPosition`, `BeginClose`, `ExitsDone` | exit part of the tick handler, 486-625 |
| `CancelStop`, `ReduceOnlyClose`, `RecordExit` | 594-621 and 835-867, shared by the exit and the flatten loop (`InTick` tells them apart) |
| `SkipEntry`, `DecideEntry`, `FetchInstrument`, `PlaceEntry`, `PollFill`, `PlaceStop`, `PublishStopFailure`, `OpenPosition` | entry part, 627-803 |
| `TimerFires`, `FlattenDone` | 806-883 |
| `Unanswered` | an await of a request that never returns: `BybitConnector` sets no timeout (bybit.rs:87), nor does any caller |
| `DepthUpdate`, `FundingUpdate` | background tasks, 327-377 |
| `StopTriggers`, `Reducible`, `Executed` | the exchange (external): a resting stop fires, reduce-only orders only reduce |
| `Crash`, `Startup` | loss of the process, `Restart=always`, reconcile 289-305 |
| `Elapse` | time: what is left of the sleep, the age of the last heartbeat |

A successful step and each way it fails are disjuncts of its action; the
constant `Faults` says which failures a run allows (`refuse`, `lose`,
`nofill`, `partial`, `trigger`, `hang`).  `lose` is an answer that is lost to an error,
`hang` one that never comes: the request, carried out or not, leaves the handler at
`hung`, where background tasks, the clock and a crash go on and nothing else does.  The sleep of `select!` is created anew at
every iteration, so `DropFrame`, which ends each handler, also sets `sleep`
back: that is what main.rs:806 does.

The other modules with state stand beside `Executor`, not inside it.  `Executor`
accepts any packet, number and command at any time and lets `check_exit` answer
either way, so whatever they decide or deliver is among the things it already
allows.  `TickHandler` is the same handler seen from its prices: a single step,
because what the quote task changes while it runs it could have changed before.

| Action | Code |
|---|---|
| `Tick` (`Settle`, `MayEnter`) | main.rs:519-563: due samples of every symbol, then the gate of the tick's own symbol |
| `Entered`, `GivenUp` | main.rs:763, or an early `continue` of the entry part |
| `Elapse`, `Quote`, `Restart` | the age of the samples, the Bybit stream (328-335), a new process |
| `Post`, `PublishRequest`, `ShowRequest` | panel: `halt_trading` up to, at and after its await |
| `Send`, `Poll`, `TakeUpdate`, `PublishUpdate` | a chat message; the polling loop of telegram-alerts |
| `Handle`, `Drop` | executor main.rs:426-458, and a sample the transport loses |
| `PanelCrash`, `BridgeCrash`, `ExecutorCrash` | each process starts from its initial variables |

| `TickHandler` | Code |
|---|---|
| `BinanceTick` | main.rs:486-792: `WithTick` and `StatsAt` (push), `LagAt` (look-back, impulse), `PacketAt` (`evaluate`), `AfterExits` (capture and `check_exit` of every position), `MayOpen` and `Opened` |
| `BybitQuote` | main.rs:328-335, `LagState::apply_feed` |
| `Elapse` | the clock both stamps are taken from |

| `Feed` | Code |
|---|---|
| `StartObserver`, `StartExecutor` | the checks at the head of both binaries, then fresh variables |
| `CrashObserver`, `CrashExecutor` | loss of a process with what waits in it, at a write perhaps in its midst |
| `Connect`, `Close`, `Reconnect`, `Break`, `NetChanges` | `stream_book_tickers`, `stream_bybit_mids`, and whether an exchange can be reached |
| `Quote`, `Publish` | observer-bin main.rs:93-106 (the counter) and 81-89 (the publisher's task) |
| `Take` | the subscriber's channel and the loop that reads it |
| `WriteLength`, `WriteBody` | the two writes of `PacketLogWriter::append` |
| `PassOver`, `TestNumber` | `check_entry` up to and at the number |

Abstractions.  In `Executor` prices, times of entry and the signal computation
are gone: a tick carries the packet `evaluate` would make of it, any packet with any
sequence number may come at any time, and `check_exit` may answer either way
at every visit.  Money counts in the smallest fraction of the deposit that
matters, so the day's percentage and the realised result are one number.  The
result of a position is one of `PnlOutcomes`.  The miss counter stops at the
largest threshold (proved invisible).  A position is its side, its quantity and
its stop; the map is a function of the symbol, which is exact because an
entry needs an empty map and a reconcile makes one entry per symbol.

In `FollowThrough` the rate and its minimum are compared in percent of the
window's length, exactly, where the code divides two `f32`; and the quote a
sample keeps and the quote the same tick settles with are one, although the
Bybit task may write between the two reads.  The latter changes single outcomes,
which are arbitrary anyway.  In `OperatorBus` an update of the chat is its
action or `NoCommand`, which stands for another chat and for text that is no
command.  A pending `flatten_request` is left to `Executor`.

In `TickHandler` prices are integers and relative moves are in basis points, rounded
to the nearest, where the code divides `f64`: a move of less than half a basis
point counts as none, far below every threshold.  The deviation and the range are
computed from the same prices that are pushed: the z-score exactly, by sums in the place of
Welford's recurrence, the range rounded down to a unit of price at each push.  The
two averages, the fee floor, the trade hours and the follow-through gate are one
free input, the side they admit; age, number, flags and halts are the choice
between opening and not.  In `Feed` a tick is its symbol, its number and, as history,
the run of the counter that gave it; the file is the sequence of what the
writes left, whole or cut short, and bytes behind a cut are "garbled", which
promises nothing about what reading makes of them.  Its history variables
(`logged`, `torn`, `issued`, `count`, `lastCount`) are read by no guard but the
bound on ticks.

Definitions headed "Mutant of X" are plausible bugs of X.  `PROJECT.json`
names the property each of them breaks; no specification uses them.

## 3. Runs

Each run asks one question.  Deadlock is checked everywhere and there is none.

| Run | Instance | Shows |
|---|---|---|
| `gate_paper` | paper, 2 symbols, 2 sequence numbers, all commands, funding and book updates, 1 crash | `HaltAgrees`, `FlagsAgree`, `OneAtATime`, `JournalComplete`, `OnlyResumeLiftsHalt`, `NoEntryAfterSeenLoss` |
| `live_answered` | live, 2 symbols, exchange that answers, stops that may fire, flatten and resume, up to two crashes at any step, reconcile after each | `StopsAgree`, `OneExposure`, `PositionsAgree`, `FlattenLeavesNothing` |
| `live_faults` | live, all faults, lot of 2 so fills may be partial, 1 crash | `TypeOK`, `NoEntryWhileHalted`, `LedgerBalanced`, `RefinesGate`, `HandlerShrinks` |
| `live_progress` | fair, live, all faults, sleep of 2 clock steps, 3 misses to Emergency | `HandlerEnds`, `FlattenServedByTimer`, `SilenceEndsFlat` |
| `ft_gate` | fair, 2 symbols, windows of 2, gate enforced when they are full, 2 samples waiting, 2 prices | `TypeOK`, `ShutForGood`, `GateDecided` |
| `operator_bus` | fair, panel and chat, 2 updates, failed and lost publications, a crash of any process | `TypeOK`, `TelegramInOrder`, `EveryCommandHandled`, `ShownIsHalt` |
| `tick_prices` | 2 symbols, 3 prices 20 bps apart, a ring of 2, 3 ticks, 3 steps of the clock, an adopted position | `LookBackIsReference`, `SignalFollowsMove`, `AdoptedRunsItsTime` |
| `tick_path` | 2 symbols, 7 configurations, numbers 0 to 2, 3 ticks, 2 on the wire, 2 crashes or failed writes | `TypeOK`, `LiveOnlyBehindGates`, `FreshTickAccepted`, `LogReadsBack` |

Runs expected to end in a violation state what a document or a comment of the
repository says and show where the code does otherwise:

| Run | Statement | What happens |
|---|---|---|
| `flatten_starved` | "operator flatten without waiting for Binance tick" (main.rs:827) | messages restart the sleep for ever (and with it the counting of missed heartbeats) |
| `foreign_convergence` | convergence is Bybit catching up with 75% of the impulse (specification, line 706) | a tick of another symbol, whose own residual is small, closes the position as converged |
| `stopped_at_entry` | the stop is where the price has to get to (specification, lines 668 and 709) | the stop is taken from Binance's price and compared with Bybit's, 32 bps away or more: in a quiet market that jumps, its range still small, it is crossed when the position is opened |
| `stream_dead` | reconnect with a growing pause (specification, line 434) | the first error ends the task that reads the stream; nothing starts it again |

`SilenceEndsFlat` speaks of behaviours in which, from some point on, nothing
arrives at all (`Arrival` tells a message from a timer step that happens to look
like one): they end in Emergency with nothing tracked, and stay there.  It and `HandlerEnds`
have one exception, named in them: `Stuck`, a request that is never answered (or a process
that is down and does not come up).  Such a request stops the loop where it waits, so
misses are not counted, Emergency is not reached and nothing is closed, although the
specification (`бот на Rust4.md`, line 724) closes everything after 500 ms without a
heartbeat.  `FlattenServedByTimer` needs no exception: its premise is that the timer branch runs.  `ShutForGood` says exactly when a follow-through gate is lost: no sample
waits and no order is under way; only a restart ends it.

The properties of `operator_bus` name the faults they exclude: `happened` records
the kinds that occurred.  `TelegramInOrder` excludes a crash of the bridge, which
may publish commands again; `EveryCommandHandled` excludes what loses a command
behind the bridge and keeps its crash; `ShownIsHalt` keeps failed publications
only, and so says nothing once the executor has restarted without its halt,
which no one tells the panel.

`StopsAgree` states what the code can keep of the stops' life cycle: stop ids live in
memory only, so a reconcile adopts a position without its stop (`stop = 0`), and that
stop stays at the exchange when the position is closed.  Each crash leaves one such
order at most, for there is one position at most.  "No stop nobody tracks, unless a
position is adopted" would be too much: after a crash the adopted position may be closed, and a
second crash finds nothing to adopt while the first one's stop still rests; hence
two crashes in `live_answered`.

`stopped_at_entry` runs on the thresholds of `config/config.toml`.  Five ticks at 10000 and one at 10045 with
Bybit still at 10000: the ranges are 0, 0, 0, 0, 45, their average 9 is above 0.0008 of
the price; the mean is 10007.5, the deviation 18.4, the z-score 2.04; lag and impulse are 45
bps.  What the model leaves to the free side admits it too: after a flat stretch and a jump the short average
lies above the long one, the velocity is 0.045 against 0.00015, and 45 bps at a capture
of 0.6 are 27 bps, above the fee floor, as is `d_exp` (its velocity term alone is 81).  The stop
is 10027: Bybit's price is 27 bps beyond it, and its next check closes the position.

The adverse-move test of `check_entry` (risk.rs:135-143, its refusals counted and logged at
main.rs:796) cannot refuse a signal: the packet carries the quote the signal was decided on, and
a signal needs Bybit to be behind by `lag_min_bps`.  It would only bite on a quote read again later.
`TickHandler` computes it all the same; in `Executor` it is a free bit of the packet, which allows more than the
code does.  `FreshTickAccepted`
names the only two ways a new tick is refused, and `LogReadsBack` what a damaged
log still gives.

`flatten_starved` and `live_progress` go together: the passing run names the
condition under which the promise holds (the timer branch gets its turn).

Known limits.  The properties about the exchange in `live_answered` hold for an
exchange that answers, whenever its stops fire: a stop closes all of a position or
nothing, so the exchange holds what is tracked or nothing of it, and that position is
tracked until a flatten or a restart (the close of a tick is rejected each time,
main.rs:603), with no entry meanwhile.  With the other faults the code gives them up, at the lines the
hazards in `PROJECT.json` name: a refused close in a flatten is recorded as closed
(RUNBOOK.md:54 says it is closed at the exchange), an order that executed without
its fill being seen is forgotten and another may follow it, and a position whose
stop was refused stays without one.  A close that fails after its stop was
cancelled leaves the position without it.  A loss is seen with the next heartbeat, not at
the fill, and `NoEntryAfterSeenLoss` begins there.  A close filled in part is recorded as
whole: `LedgerBalanced` counts entries and exits, not quantities.  `JournalComplete` excludes a process
that adopted positions, whose flatten may owe several lines and writes one.
`PositionsAgree` and `StopsAgree` let a position's exposure be 0 at any time in that run, since a stop may fire at any
time; they do not follow which stop fired.  In `operator_bus`, `EveryCommandHandled` takes a command for handled when it or a later
one is, so an older one that was skipped would count.  `live_faults` shows what survives: the books, the halt and the gate.

Bounds.  `MaxSeq` 1 or 2 sequence numbers per symbol: repeats need one, order
needs two (`gate_paper`).  Symbols are
interchangeable in the runs without temporal properties (`mcSymbolSymmetry`).
`MaxCrashes` 1: a second crash starts from the same states plus whatever the
exchange holds, which one crash already varies; 2 in `live_answered`, where what
the exchange holds is the question and two crashes leave two stops behind; its commands
are the two that matter to positions, its lot and its outcome 1.  Two symbols for what relates positions, one where a single position says it all.  `Lot` 2 is
the smallest that can fill in part.  Thresholds are close together (1, 2, 2 or
1, 2, 3 for the configured 1, 3, 5) because only their order matters.
Result outcomes -1 and 1 with a limit of 1 reach the drawdown in one exit.

Windows of 2 that are enforced when full give a gate every verdict at half the
rate and drop their oldest outcome; two samples can wait and `Wait` is 2, so that
the first can shut the gate before the second is due; 2 prices move up, down or not at all.  2 chat
updates allow one confirmed or in hand and one waiting.  The panel serves one
request at a time: the code orders nothing between two, and `PROJECT.json` lists
that as a hazard without a property.

`tick_prices`: a ring of 2 wraps with the third sample, and one symbol alone can
take all 3 ticks; prices 20 bps apart give moves of 20 and 40 against a lag of 15, an
impulse of 12 and a target of 40, so each threshold lies between two moves; `TimeStop`,
`Span` and `MaxStaleness` are 1 of 3 steps of the clock, so that each may be kept or
passed.  `ZMin` 7 and `AtrMin` 8 are low enough for
two prices to give a signal (after two the z-score is 0.7, after three 1.15 at most), so that all that
the properties speak of happens within 3 ticks.
`stopped_at_entry` takes its thresholds from `config/config.toml`; a z-score of 2 needs six prices at
least, hence a ring and a bound of 6 ticks; one symbol and two prices are enough.
`tick_path`: numbers 0 to 2 wrap at the third tick, which exercises number 0 (never
fresh to a new engine) and the return of a number; 2 faults allow a cut write and the restart behind it, or one
crash of each node.  The seven configurations are one that passes, two live ones
with the paper exception behind a failed research, one each with an inadmissible
source, without keys and without the permission, and an unverified paper one.

Fairness (`FairSpec`).  In `Executor`: weak fairness of the clock, of the woken
timer and of the handler's own steps.  The last does not say that every request is answered: at
every await `Unanswered` may come instead, and then those steps are disabled for ever.  Only an answer
that does come is taken.  Nothing makes the start-up return: its reconcile is a request, too.
None for messages, background
tasks or crashes.  Weak fairness of `TimerFires` is all tokio gives: the sleep
is dropped when another branch wins, so nothing makes it complete while
messages keep coming.  In `FollowThrough`: ticks of some symbol keep coming, an
entry under way is answered, time passes; nothing for a particular symbol, for
quotes or for entries.  In `OperatorBus`: the bridge and the executor's loop keep
running, which assumes that the bridge's HTTP calls return (its client has no timeout either,
telegram-alerts/src/main.rs:34; Telegram ends its long poll after 25 s); nothing makes anyone send a command, and crashes are not fair.  In
`Feed`: starts (`Restart=always`), an answer or an error to a request to connect, and
the end of the pause; nothing for quotes, crashes or the network.

## 4. Proofs

Checked by TLAPS for every value of the constants that satisfies
`ExecutorConstants`, `MissThresholds`, `WarmLimits`, `FollowThroughConstants`,
`FeedConstants`, `HandlerConstants`, `RingIsPositive`, `SignalConstants` and
`PositionConstants` and `StatsConstants`, with no bound on symbols, sequence numbers, quantities, prices,
the size of the ring, faults, crashes or thresholds.  Two groups of theorems have a
hypothesis of their own, stated at the theorem: `Answering` and `OneRequest`, below.

Every invariant and every action property of the passing runs is the statement
of a theorem.

**The executor's own state** (`ExecutorProofs`, `ExecutorGateProofs`).

* `TypeCorrect`: `Spec => []TypeOK`.  `TypeOK` alone is not inductive: a step
  that uses `pkt.sym` or `cur` needs them to be symbols.  `FrameOK` says where
  the handler's variables are set; `IndInv == TypeOK /\ FrameOK`.
* `HaltAlwaysAgrees`, `FlagsAlwaysAgree`, `EntriesRespectHalt` from
  `GateInv`.  `NoEntryWhileHalted` is not inductive: after a failed stop
  entries are halted while the entry is still being carried out, so the
  inductive form keeps `Held = {}` through `stopFailed` and `open` and asks
  for the open gate only before.
* `SeenLossKeepsOut`: only `MayOpen` leads from the decision to an order
  (`DecisionStep`); by `FlagsAgree` the drawdown flag does the rest.  `HaltNeedsResume` goes through the actions.
* `ImplementsGate`: `Spec => RefinesGate`.  Mapping: the gate is open when no
  halt variable is set, the decision pending is the symbol of the packet from
  the decision to the bookkeeping, held is the set of tracked symbols.  Most
  steps are a `Switch` or a stutter; the entry steps need `GateInv`.
* `SaturationIsInvisible`, `SaturatedCountFollows`: the bounded miss counter
  is a faithful abstraction of the code's.

**Books and the exchange** (`ExecutorBooksProofs`).

* `OnePosition`: `Spec => []OneAtATime` from `Alone`, any two tracked positions are
  one; an entry is booked with `Held = {}` (`GateInv`).
* `BooksBalance`: `Spec => []LedgerBalanced`.  `Books` adds that the exit and flatten
  loops visit open positions only, none twice, that an entry in flight has a
  quantity, and that a new process starts with nothing tracked or booked.
* `JournalHasEveryFill`: `Spec => []JournalComplete`.  A flatten writes one line at its
  end; that is enough because of `Alone`, and `Journal` counts the line it owes.
* `HandlerTakesBoundedSteps`: `Spec => HandlerShrinks`.  Each step that moves a handler lowers
  `StepsLeft`, a weight of its place plus four for each position its loop has not visited.
  It is the part of `HandlerEnds` that needs no fairness: a handler can wait for an answer, for
  ever if none comes, but not go on for ever.

The next four assume `Answering == LiveOrders /\ Faults \subseteq {"trigger"}`: every request
is answered by what the exchange did.  Stops may fire at any time, while the process is
down too.  Crashes at any step
and any number of them are included, so a request whose answer dies with the
process is among the cases.  The hypothesis is not for the prover's sake.  Each of
four faults it excludes alone makes the agreement false: a refused close is recorded as
closed, a lost answer and a fill that is not seen leave a position untracked, and with
fills in parts an entry is tracked at the size first seen, and a close that filled in part is
recorded as whole.  The fifth, `hang`, leaves the loop no step after which the two could be compared.

* `PositionsMatchExchange`: `Spec => []PositionsAgree`.  Inside a handler the two
  differ by what is being done, so `Agree` compares the exchange with `Expected`: the
  tracked positions, without the one whose close has been executed, with the one whose
  entry has (`InFlight`).  A crash forgets the tracked side; while the process is down
  `Agree` only keeps that one symbol is exposed at most, and the reconcile restores the rest.
  Where stops fire the exchange holds `Expected` or nothing (`Holds`): all orders are of one
  lot (`Lots`), so no stop, also none that outlived its position, takes a part of one.
* `ExposureIsSingle`: `Spec => []OneExposure`.  By `Agree`, not by a test of the exchange: the
  code asks for an empty map (main.rs:638), and the exchange holds nothing else.
* `FlattenSweeps`: `Spec => FlattenLeavesNothing`.  `Sweep`: every tracked position is the
  one being closed or still in the loop's list, at every place of the loop.
* `StopsMatchExchange`: `Spec => []StopsAgree`.  `Stops` splits the resting orders into
  those of tracked positions (`Guarded`), the one placed and not yet remembered
  (`InFlightStop`) and the rest (`Orphans`), and counts: there is one position at most, so
  a crash makes one orphan at most, and nothing else makes any.  A position whose stop has
  fired has no exposure left to guard.

**The follow-through gate** (`FollowThroughProofs`).

* `WindowsFit`: `Spec => []TypeOK` for `FollowThrough`, with windows within
  `Capacity` for any number of outcomes settled at once.
* `LatchedStaysShut`: `Spec => ShutForGood`.  A latched symbol has nothing
  pending and no order, so a tick of any symbol appends nothing to its window
  (`Record` of no outcomes is the window, by the bound of `TypeOK`), `MayEnter`
  is false for it, and no other action touches it but `Restart`.

**Operator commands** (`OperatorBusProofs`).

* `TypeCorrect`: `Spec => []TypeOK`.  An update in hand has a place in the bridge's code and
  a command on the bus has a number the chat has reached (`CommandsOK`).
* `ChatInOrder`: `Spec => []TelegramInOrder`.  What is under way is spread over the bus, the
  update in hand and the batch, and the next batch is cut from the chat.  `InOrder` adds that
  all of it lies behind the offset `Due`; a poll then appends larger numbers only.
* `DashboardShowsHalt`: `Spec => []ShownIsHalt`, for one handler of the panel's requests
  (`OneRequest`).  `Follows`: what is shown is what the executor will have
  (`FinalHalt`) when it has taken what is on the bus, but between publishing and
  showing.  With two requests it is false: they may publish in one order and show in the
  other.

**The tick handler** (`TickHandlerProofs`).

* `LookBackHolds`: `Spec => []LookBackIsReference`.  `PricesOK` says that the ring holds
  the youngest samples, each in the slot its number gives; the walk back then ends
  where the definition over all samples does.  With it `SignalsFollowMoves`, for any
  prices and thresholds.
* `AdoptedExpires`: `Spec => []AdoptedRunsItsTime`.  `PositionsOK` types the positions (the
  capture ratio stays between 0 and 1000 for any residual) and keeps the capture of a
  position without an impulse at 0, so that neither convergence nor the capture's
  exemption from the time stop applies to it.

**The feed and its log** (`FeedProofs`, `PacketLogProofs`).

* `LiveIsCleared`, `ObserverFollowsExecutor`: about every configuration; the second
  compares the gate that the two binaries write down each for itself.
* `FeedProofs!TypeCorrect`; `OrdersOnlyBehindGates`: an executor that is up has a
  configuration `ExecutorStarts` accepts, and nothing changes it.
* `OnlyStaleNumbersRefuse`: `Spec => []FreshTickAccepted`.  `Flight` says that the ticks
  in the channel, on the wire and in the handler have rising numbers in each run of
  the counter, all below the next one, and that what is remembered is older than
  what is still under way.
* `ReplayReadsTheLog`: `Spec => []LogReadsBack`.  `LogOK` splits the file at the first
  damage.  Before it lie the first records appended, in order (`Begins`); behind it anything.
  `Damaged` is what no append can mend: a bad length, a body that does not follow its
  length, or a length whose body's write will not come any more.  The reader's `CHOOSE`
  then has one answer (`ReadableIs`).

Only model-checked: the liveness properties (`HandlerEnds`, `FlattenServedByTimer`,
`SilenceEndsFlat`, `GateDecided`, `EveryCommandHandled`), which are outside the prover's
reach, as is ENABLED; and the violations.

## 5. Not modelled

* The exponential averages of `math.rs` and the fee floor: floating point; `TickHandler`
  leaves their answer free.
* The requests of the funding poll and their parsing: only what they publish
  matters, and `Executor` lets it come at any time.
* Signing, JSON, logging, status files; fees and notional values of the ledger.
* The panel's login, suggestions and other pages; they change no shared state.
* The statistics of `replay`: sums over one list.
* The symbol registry (built once, read for a log line), the smoke test (run by
  hand), the book collector, research and analyst (offline), installation scripts.
* Errors of the local disk outside the packet log, which the code ignores.
* Two clocks: the age of a tick is a free choice (`late`).

Hazards without a property keep their reason in `PROJECT.json`.

## 6. What is left

Everything that trades, and everything on the way of a tick or a command, has a
model, and every safety property of the passing runs a proof.  Worth doing next: what
survives of the agreement with the exchange under each single fault.

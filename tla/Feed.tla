-------------------------------- MODULE Feed --------------------------------
(***************************************************************************)
(* The way of a tick: from Binance's stream through the observer           *)
(* (crates/observer-bin/src/main.rs) and Zenoh to the executor, which logs *)
(* its packet and tests its number (crates/shared/src/packet_log.rs,       *)
(* crates/executor-core/src/risk.rs), with the start and the crash of both *)
(* nodes and the connections to both exchanges.  Whether a node starts is  *)
(* the module StartupGates, the log file the module PacketLog.  Prices are *)
(* the module TickHandler; here a tick is its symbol and its number.       *)
(***************************************************************************)
EXTENDS StartupGates, PacketLog, SequencesExt

CONSTANTS
  Symbols,    \* the enabled symbols
  Configs,    \* configurations the nodes are started with
  SeqLimit,     \* the numbers of ticks are 0..SeqLimit-1; 2^32 in the code
  MaxTicks,   \* bound: ticks numbered
  MaxWire,    \* bound: ticks on the wire
  MaxCrashes  \* bound: crashes and failed writes

ASSUME FeedConstants ==
  /\ Symbols # {}
  /\ Configs \subseteq Config
  /\ SeqLimit \in Nat \ {0, 1}
  /\ MaxTicks \in Nat
  /\ MaxWire \in Nat
  /\ MaxCrashes \in Nat

VARIABLES
  config,    \* the configuration both nodes read
  up,        \* the nodes that run
  reachable, \* the exchanges that accept connections
  stream,    \* the task that reads each exchange's stream
  seq,       \* observer: the number of the next tick
  outbox,    \* observer: numbered ticks on the channel to the publisher
  wire,      \* ticks put and not yet taken by the executor's loop
  handler,   \* executor: the tick being handled, its place and its verdict
  lastSeq,   \* executor: last_seq of its RiskEngine
  file,      \* the packet log
  logged,    \* history: the records whose append returned Ok
  torn,      \* history: some append stopped between its first byte and its last
  issued,    \* history: ticks numbered
  count,     \* history: the run of the counter: starts of the observer, wraps
  lastCount, \* history: the run of the counter lastSeq was taken from
  faults     \* crashes and failed writes so far

nodeVars == <<config, up, reachable, stream>>
observerVars == <<seq, outbox, issued, count>>
entryVars == <<handler, lastSeq, lastCount>>
logVars == <<file, logged, torn>>
vars == <<nodeVars, observerVars, wire, entryVars, logVars, faults>>

Exchange == {"binance", "bybit"}

NoCount == <<0, 0>>

Place == {"idle", "length", "body", "check"}
Verdict == {"none", "unread", "fresh", "duplicate"}

Tick == [symbol : Symbols, seq : 0..(SeqLimit - 1), count : Nat \X Nat]
NoTick == [symbol |-> CHOOSE s \in Symbols : TRUE, seq |-> 0, count |-> NoCount]
Idle == [at |-> "idle", tick |-> NoTick, verdict |-> "none"]

Zeros == [s \in Symbols |-> 0]

Init ==
  /\ config \in Configs
  /\ up = {}
  /\ reachable = Exchange
  /\ stream = [x \in Exchange |-> "down"]
  /\ seq = 1
  /\ outbox = <<>>
  /\ wire = <<>>
  /\ handler = Idle
  /\ lastSeq = Zeros
  /\ file = <<>>
  /\ logged = <<>>
  /\ torn = FALSE
  /\ issued = 0
  /\ count = NoCount
  /\ lastCount = [s \in Symbols |-> NoCount]
  /\ faults = 0

Failing == faults < MaxCrashes /\ faults' = faults + 1
-----------------------------------------------------------------------------
(* The connections: stream_book_tickers and stream_bybit_mids are loops    *)
(* that an error leaves by ?, and nobody looks at what they return.        *)

NetChanges(x) ==
  /\ reachable' = IF x \in reachable THEN reachable \ {x} ELSE reachable \cup {x}
  /\ UNCHANGED <<config, up, stream, observerVars, wire, entryVars, logVars, faults>>

StreamGoes(x, from, to) ==
  /\ stream[x] = from
  /\ stream' = [stream EXCEPT ![x] = to]
  /\ UNCHANGED <<config, up, reachable, observerVars, wire, entryVars, logVars, faults>>

Connect(x) == StreamGoes(x, "connecting", IF x \in reachable THEN "open" ELSE "dead")

\* The server closes the connection; Binance's loop sleeps before the next.
Close(x) == StreamGoes(x, "open", IF x = "binance" THEN "pausing" ELSE "connecting")

Reconnect == StreamGoes("binance", "pausing", "connecting")

Break(x) == StreamGoes(x, "open", "dead")
-----------------------------------------------------------------------------
(* The observer. *)

StartObserver ==
  /\ "observer" \notin up
  /\ ObserverStarts(config)
  /\ up' = up \cup {"observer"}
  /\ stream' = [stream EXCEPT !["binance"] = "connecting"]
  /\ seq' = 1
  /\ count' = <<count[1] + 1, 0>>
  /\ UNCHANGED <<config, reachable, outbox, issued, wire, entryVars, logVars, faults>>

CrashObserver ==
  /\ "observer" \in up
  /\ Failing
  /\ up' = up \ {"observer"}
  /\ stream' = [stream EXCEPT !["binance"] = "down"]
  /\ outbox' = <<>>
  /\ UNCHANGED <<config, reachable, seq, issued, count, wire, entryVars, logVars>>

\* Mutant of Following: a wider counter.
Unwrapped(n) == n + 1

\* fetch_add(1) of an AtomicU32 wraps.
Following(n) == (n + 1) % SeqLimit

Quote(s) ==
  /\ stream["binance"] = "open"
  /\ issued < MaxTicks
  /\ issued' = issued + 1
  /\ outbox' = Append(outbox, [symbol |-> s, seq |-> seq, count |-> count])
  /\ seq' = Following(seq)
  /\ count' = IF seq = SeqLimit - 1 THEN <<count[1], count[2] + 1>> ELSE count
  /\ UNCHANGED <<nodeVars, wire, entryVars, logVars, faults>>

\* Mutant of FirstNext: every tick published by a task of its own.
AnyNext(q) == DOMAIN q

\* The channel's receiver awaits one put before it takes the next tick.
FirstNext(q) == {i \in DOMAIN q : i = 1}

\* A tick is lost when its put fails, on the wire, or with no subscriber.
Publish ==
  \E i \in FirstNext(outbox) :
    /\ outbox' = RemoveAt(outbox, i)
    /\ \/ /\ "executor" \in up
          /\ Len(wire) < MaxWire
          /\ wire' = Append(wire, outbox[i])
       \/ UNCHANGED wire
    /\ UNCHANGED <<nodeVars, seq, issued, count, entryVars, logVars, faults>>
-----------------------------------------------------------------------------
(* The executor. *)

StartExecutor ==
  /\ "executor" \notin up
  /\ ExecutorStarts(config)
  /\ up' = up \cup {"executor"}
  /\ stream' = [stream EXCEPT !["bybit"] = "connecting"]
  /\ lastSeq' = Zeros
  /\ lastCount' = [s \in Symbols |-> NoCount]
  /\ file' = Opened(file)
  /\ UNCHANGED <<config, reachable, observerVars, wire, handler, logged, torn, faults>>

\* The process dies with what waits for it, at a write perhaps in its midst.
CrashExecutor ==
  /\ "executor" \in up
  /\ Failing
  /\ up' = up \ {"executor"}
  /\ stream' = [stream EXCEPT !["bybit"] = "down"]
  /\ wire' = <<>>
  /\ handler' = Idle
  /\ \/ UNCHANGED file
     \/ /\ handler.at \in {"length", "body"}
        /\ file' = Append(file, CutShort(handler.at, RecordOf(file, handler.at)))
  /\ torn' = (torn \/ handler.at = "body" \/ file' # file)
  /\ UNCHANGED <<config, reachable, observerVars, lastSeq, lastCount, logged>>

\* Zenoh keeps the order of one session's ticks; those of an observer that has
\* crashed may come between the ticks of the next.
Take ==
  /\ "executor" \in up
  /\ handler.at = "idle"
  /\ \E i \in DOMAIN wire :
       /\ \A j \in 1..(i - 1) : wire[j].count[1] # wire[i].count[1]
       /\ handler' = [at |-> "length", tick |-> wire[i], verdict |-> "none"]
       /\ wire' = RemoveAt(wire, i)
  /\ UNCHANGED <<nodeVars, observerVars, lastSeq, lastCount, logVars, faults>>

\* append: the two writes.  A full disk fails either of them, at its first byte
\* or after some; the handler warns and goes on.
WriteLength ==
  /\ handler.at = "length"
  /\ \/ /\ file' = Append(file, Written("length", RecordOf(file, "length")))
        /\ handler' = [handler EXCEPT !.at = "body"]
        /\ UNCHANGED <<torn, faults>>
     \/ /\ Failing
        /\ \/ UNCHANGED <<file, torn>>
           \/ /\ file' = Append(file, CutShort("length", RecordOf(file, "length")))
              /\ torn' = TRUE
        /\ handler' = [handler EXCEPT !.at = "check"]
  /\ UNCHANGED <<nodeVars, observerVars, wire, lastSeq, lastCount, logged>>

WriteBody ==
  /\ handler.at = "body"
  /\ \/ /\ file' = Append(file, Written("body", RecordOf(file, "body")))
        /\ logged' = Append(logged, RecordOf(file, "body"))
        /\ UNCHANGED <<torn, faults>>
     \/ /\ Failing
        /\ \/ UNCHANGED file
           \/ file' = Append(file, CutShort("body", RecordOf(file, "body")))
        /\ torn' = TRUE
        /\ UNCHANGED logged
  /\ handler' = [handler EXCEPT !.at = "check"]
  /\ UNCHANGED <<nodeVars, observerVars, wire, lastSeq, lastCount>>

\* Entries are halted, or check_entry leaves before it looks at the number:
\* no valid signal, or a late one.
PassOver ==
  /\ handler.at = "check"
  /\ handler' = [handler EXCEPT !.at = "idle", !.verdict = "unread"]
  /\ UNCHANGED <<nodeVars, observerVars, wire, lastSeq, lastCount, logVars, faults>>

TestNumber ==
  LET s == handler.tick.symbol
  IN  /\ handler.at = "check"
      /\ IF handler.tick.seq <= lastSeq[s]
         THEN /\ handler' = [handler EXCEPT !.at = "idle", !.verdict = "duplicate"]
              /\ UNCHANGED <<lastSeq, lastCount>>
         ELSE /\ handler' = [handler EXCEPT !.at = "idle", !.verdict = "fresh"]
              /\ lastSeq' = [lastSeq EXCEPT ![s] = handler.tick.seq]
              /\ lastCount' = [lastCount EXCEPT ![s] = handler.tick.count]
      /\ UNCHANGED <<nodeVars, observerVars, wire, logVars, faults>>
-----------------------------------------------------------------------------
Next ==
  \/ \E x \in Exchange : NetChanges(x) \/ Connect(x) \/ Close(x) \/ Break(x)
  \/ Reconnect
  \/ StartObserver
  \/ CrashObserver
  \/ \E s \in Symbols : Quote(s)
  \/ Publish
  \/ StartExecutor
  \/ CrashExecutor
  \/ Take
  \/ WriteLength
  \/ WriteBody
  \/ PassOver
  \/ TestNumber

Spec == Init /\ [][Next]_vars

\* systemd starts what has died (Restart=always), the runtime runs each task on
\* and a request to connect gets an answer or an error.  Quotes, crashes and the
\* network are not fair.
FairSpec ==
  /\ Spec
  /\ WF_vars(StartObserver) /\ WF_vars(StartExecutor)
  /\ \A x \in Exchange : WF_vars(Connect(x))
  /\ WF_vars(Reconnect)
-----------------------------------------------------------------------------
(* Properties. *)
TypeOK ==
  /\ config \in Configs
  /\ up \subseteq {"observer", "executor"}
  /\ reachable \subseteq Exchange
  /\ stream \in [Exchange -> {"down", "connecting", "open", "pausing", "dead"}]
  /\ seq \in 0..(SeqLimit - 1)
  /\ outbox \in Seq(Tick)
  /\ wire \in Seq(Tick)
  /\ handler \in [at : Place, tick : Tick, verdict : Verdict]
  /\ lastSeq \in [Symbols -> 0..(SeqLimit - 1)]
  /\ file \in Seq(Chunk)
  /\ logged \in Seq(Nat)
  /\ torn \in BOOLEAN
  /\ issued \in Nat
  /\ count \in Nat \X Nat
  /\ lastCount \in [Symbols -> Nat \X Nat]
  /\ faults \in Nat

(* A node that sends orders runs in mode live behind everything the         *)
(* documents demand of it, whatever allow_unverified_paper says             *)
(* (crates/shared/src/config.rs:81: "Never unlocks live orders").           *)
LiveOnlyBehindGates ==
  "executor" \in up /\ AllowLiveOrders(config) => LiveCleared(config)

(* A tick on its first delivery is refused as a duplicate only when the     *)
(* number it is compared with comes from another run of the counter, before *)
(* a restart of the observer or a wrap (risk.rs:124).                       *)
FreshTickAccepted ==
  handler.verdict = "duplicate" => handler.tick.count # lastCount[handler.tick.symbol]

(* What replay reads of the log is what the executor has appended, all of   *)
(* it unless a write has been cut short, and then up to there at most: a    *)
(* restart appends behind the damage, and nothing of that is read           *)
(* (packet_log.rs:37).                                                      *)
LogReadsBack ==
  /\ IsPrefix(Packets(file), logged)
  /\ ~torn /\ handler.at # "body" => Outcome(file) = "ok" /\ Packets(file) = logged

(* While its node runs and the exchange accepts connections, a stream that  *)
(* has been lost is open again at some time (the reconnects with a growing  *)
(* pause that the architecture document requires of the connections).       *)
StreamsReconnect ==
  /\ <>[]("observer" \in up /\ "binance" \in reachable) => []<>(stream["binance"] = "open")
  /\ <>[]("executor" \in up /\ "bybit" \in reachable) => []<>(stream["bybit"] = "open")
=============================================================================

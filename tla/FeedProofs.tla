----------------------------- MODULE FeedProofs -----------------------------
(***************************************************************************)
(* Proofs about the feed, for every value of its constants: any number of  *)
(* symbols, any width of the counter, any configurations and faults.       *)
(***************************************************************************)
EXTENDS Feed, FiniteSetTheorems, SequenceTheorems, TLAPS

(* The gates of the two processes, for every configuration. *)

\* An executor that starts and sends orders has everything the documents
\* demand, whatever allow_unverified_paper says (trading_mode.rs:9-15,
\* executor-bin/src/main.rs:152-163).
THEOREM LiveIsCleared ==
  \A c \in Config : ExecutorStarts(c) /\ AllowLiveOrders(c) => LiveCleared(c)
PROOF
  <1> SUFFICES ASSUME NEW c \in Config, ExecutorStarts(c), AllowLiveOrders(c)
               PROVE  LiveCleared(c)
    OBVIOUS
  <1>1. c.mode = "live"
    BY DEF AllowLiveOrders
  <1>2. ProductionEdge(c.edge)
    BY <1>1 DEF ExecutorStarts, ValidStartup, RequiresEdgeGate
  <1>3. c.keys /\ (c.testnet \/ c.allowMainnet)
    BY DEF ExecutorStarts
  <1> QED
    BY <1>1, <1>2, <1>3 DEF LiveCleared

\* Both processes ask the same of the edge research, although the observer
\* computes the gate by a match of its own (observer-bin/src/main.rs:26-45).
LEMMA SameEdgeGate ==
  \A c \in Config :
    RequiresEdgeGate(c) <=> IF c.mode = "live" THEN TRUE
                            ELSE c.mode = "paper" /\ ~c.allowUnverifiedPaper
PROOF
  BY DEF RequiresEdgeGate

\* The observer starts on every configuration the executor starts on; where no
\* orders are sent it starts on no other.
THEOREM ObserverFollowsExecutor ==
  \A c \in Config :
    /\ ExecutorStarts(c) => ObserverStarts(c)
    /\ c.mode # "live" /\ ObserverStarts(c) => ExecutorStarts(c)
PROOF
  <1> TAKE c \in Config
  <1>1. ObserverStarts(c) <=> ValidStartup(c, RequiresEdgeGate(c))
    BY SameEdgeGate DEF ObserverStarts, ValidStartup
  <1>2. ExecutorStarts(c) => ValidStartup(c, RequiresEdgeGate(c))
    BY DEF ExecutorStarts
  <1>3. c.mode # "live" /\ ValidStartup(c, RequiresEdgeGate(c)) => ExecutorStarts(c)
    BY DEF ExecutorStarts, AllowLiveOrders
  <1> QED
    BY <1>1, <1>2, <1>3
-----------------------------------------------------------------------------
(* The streams and the sequence numbers. *)

\* A process that does not run handles nothing; a stream that the observer has
\* begun belongs to a run of its counter.
NodesOK ==
  /\ "executor" \notin up => handler = Idle
  /\ stream["binance"] # "down" => count[1] >= 1

\* With the counter at "next" in run "now", number n of run c has been given.
NumberedBy(now, next, c, n) ==
  /\ c[1] >= 1
  /\ \/ c[1] < now[1]
     \/ c[1] = now[1] /\ c[2] < now[2]
     \/ c[1] = now[1] /\ c[2] = now[2] /\ n < next

Numbered(c, n) == NumberedBy(count, seq, c, n)

\* A tick is ahead of another when, within a run, it has the lower number.
Ahead(a, b) == a.count = b.count => a.seq < b.seq

\* What the executor remembers of symbol s is of no tick still under way.
Remembers(s, t) == lastCount[s] = t.count => lastSeq[s] < t.seq

Busy == handler.at # "idle"

AllNumbered ==
  /\ \A i \in DOMAIN outbox : Numbered(outbox[i].count, outbox[i].seq)
  /\ \A i \in DOMAIN wire : Numbered(wire[i].count, wire[i].seq)
  /\ Busy => Numbered(handler.tick.count, handler.tick.seq)
  /\ \A s \in Symbols : lastCount[s] # NoCount => Numbered(lastCount[s], lastSeq[s])

InOrder ==
  /\ \A i, j \in DOMAIN outbox : i < j => Ahead(outbox[i], outbox[j])
  /\ \A i, j \in DOMAIN wire : i < j => Ahead(wire[i], wire[j])
  /\ \A i \in DOMAIN wire, j \in DOMAIN outbox : Ahead(wire[i], outbox[j])
  /\ Busy => \A i \in DOMAIN wire : Ahead(handler.tick, wire[i])
  /\ Busy => \A i \in DOMAIN outbox : Ahead(handler.tick, outbox[i])

NothingRemembered ==
  \A s \in Symbols :
    /\ \A i \in DOMAIN outbox : Remembers(s, outbox[i])
    /\ \A i \in DOMAIN wire : Remembers(s, wire[i])
    /\ Busy => Remembers(s, handler.tick)

\* What is said of single ticks and of pairs, apart from the nodes.
Flight == AllNumbered /\ InOrder /\ NothingRemembered /\ FreshTickAccepted

\* A running executor has passed the gates of the configuration it was started
\* with, which nothing changes.
StartedBehindGates ==
  /\ config \in Configs
  /\ "executor" \in up => ExecutorStarts(config)
-----------------------------------------------------------------------------
(* Sequences. *)

\* RemoveAt leaves out one element and keeps the order of the others.
LEMMA RemoveAtElements ==
  ASSUME NEW S, NEW q \in Seq(S), NEW i \in DOMAIN q
  PROVE  /\ RemoveAt(q, i) \in Seq(S)
         /\ DOMAIN RemoveAt(q, i) = 1..(Len(q) - 1)
         /\ \A j \in 1..(Len(q) - 1) : RemoveAt(q, i)[j] = IF j < i THEN q[j] ELSE q[j + 1]
<1>1. i \in 1..Len(q) /\ Len(q) \in Nat /\ DOMAIN q = 1..Len(q)
  OBVIOUS
<1> DEFINE front == SubSeq(q, 1, i - 1)
           back == SubSeq(q, i + 1, Len(q))
<1>2. /\ front \in Seq(S) /\ Len(front) = i - 1
      /\ \A j \in 1..(i - 1) : front[j] = q[j]
  <2>1. \A j \in 1..(i - 1) : q[j] \in S
    BY <1>1
  <2> QED
    BY <1>1, <2>1, SubSeqProperties
<1>3. /\ back \in Seq(S) /\ Len(back) = Len(q) - i
      /\ \A j \in 1..(Len(q) - i) : back[j] = q[j + i]
  <2>1. \A j \in (i + 1)..Len(q) : q[j] \in S
    BY <1>1
  <2> QED
    BY <1>1, <2>1, SubSeqProperties
<1>4. RemoveAt(q, i) = front \o back
  BY DEF RemoveAt
<1> HIDE DEF front, back
<1>5. /\ front \o back \in Seq(S)
      /\ Len(front \o back) = Len(q) - 1
  <2>1. Len(front) + Len(back) = Len(q) - 1
    BY <1>1, <1>2, <1>3
  <2> QED
    BY <1>2, <1>3, <2>1, ConcatProperties
<1>6. DOMAIN (front \o back) = 1..(Len(q) - 1)
  BY <1>5, LenProperties
<1>7. ASSUME NEW j \in 1..(Len(q) - 1)
      PROVE  (front \o back)[j] = IF j < i THEN q[j] ELSE q[j + 1]
  <2>1. j \in 1..(Len(front) + Len(back))
    BY <1>1, <1>2, <1>3
  <2>2. (front \o back)[j] = IF j <= Len(front) THEN front[j] ELSE back[j - Len(front)]
    BY <1>2, <1>3, <2>1, ConcatProperties
  <2>3. CASE j < i
    <3>1. j <= Len(front) /\ front[j] = q[j]
      BY <1>1, <1>2, <2>3
    <3> QED
      BY <2>2, <2>3, <3>1
  <2>4. CASE ~(j < i)
    <3> DEFINE k == j - (i - 1)
    <3>1. k \in 1..(Len(q) - i) /\ k + i = j + 1 /\ ~(j <= Len(front))
      BY <1>1, <1>2, <2>4
    <3>2. back[k] = q[k + i]
      BY <1>3, <3>1
    <3> QED
      BY <1>2, <2>2, <2>4, <3>1, <3>2
  <2> QED
    BY <2>3, <2>4
<1> QED
  BY <1>4, <1>5, <1>6, <1>7

\* Each element of what is left was an element before, and no two have changed
\* their order.
LEMMA RemoveAtKeepsOrder ==
  ASSUME NEW S, NEW q \in Seq(S), NEW i \in DOMAIN q
  PROVE  /\ \A j \in DOMAIN RemoveAt(q, i) : \E k \in DOMAIN q \ {i} : RemoveAt(q, i)[j] = q[k]
         /\ \A j, l \in DOMAIN RemoveAt(q, i) : j < l =>
              \E k, m \in DOMAIN q :
                k < m /\ RemoveAt(q, i)[j] = q[k] /\ RemoveAt(q, i)[l] = q[m]
<1> DEFINE r == RemoveAt(q, i)
           Before(j) == IF j < i THEN j ELSE j + 1
<1>1. i \in 1..Len(q) /\ Len(q) \in Nat /\ DOMAIN q = 1..Len(q)
  OBVIOUS
<1>2. DOMAIN r = 1..(Len(q) - 1) /\ \A j \in DOMAIN r : r[j] = q[Before(j)]
  BY RemoveAtElements
<1>3. \A j \in DOMAIN r : Before(j) \in DOMAIN q \ {i}
  BY <1>1, <1>2
<1>4. \A j, l \in DOMAIN r : j < l => Before(j) < Before(l)
  BY <1>1, <1>2
<1> HIDE DEF r, Before
<1>5. \A j \in DOMAIN r : \E k \in DOMAIN q \ {i} : r[j] = q[k]
  BY <1>2, <1>3
<1>6. \A j, l \in DOMAIN r : j < l => \E k, m \in DOMAIN q : k < m /\ r[j] = q[k] /\ r[l] = q[m]
  BY <1>2, <1>3, <1>4
<1> QED
  BY <1>5, <1>6 DEF r

\* Append adds its element behind the others.
LEMMA AppendElements ==
  ASSUME NEW S, NEW q \in Seq(S), NEW e \in S
  PROVE  /\ Append(q, e) \in Seq(S)
         /\ DOMAIN Append(q, e) = 1..(Len(q) + 1)
         /\ DOMAIN q = 1..Len(q) /\ Len(q) \in Nat
         /\ \A i \in DOMAIN q : Append(q, e)[i] = q[i]
         /\ Append(q, e)[Len(q) + 1] = e
OBVIOUS
-----------------------------------------------------------------------------
(* Types. *)

\* The tick of an idle handler is a tick.
LEMMA IdleType == Idle \in [at : Place, tick : Tick, verdict : Verdict]
<1>1. (CHOOSE s \in Symbols : TRUE) \in Symbols
  BY FeedConstants
<1>2. NoTick \in Tick
  BY <1>1, FeedConstants DEF NoTick, NoCount, Tick
<1> QED
  BY <1>2 DEF Idle, Place, Verdict

\* A record has a number, and every write leaves a chunk of it.
LEMMA ChunkTypes ==
  ASSUME file \in Seq(Chunk), NEW part \in {"length", "body"}
  PROVE  /\ RecordOf(file, part) \in Nat
         /\ Written(part, RecordOf(file, part)) \in Chunk
         /\ CutShort(part, RecordOf(file, part)) \in Chunk
<1> DEFINE lengths == {i \in DOMAIN file : file[i].part = "length"}
<1>1. IsFiniteSet(DOMAIN file)
  BY FS_Interval
<1>2. Cardinality(lengths) \in Nat
  BY <1>1, FS_Subset, FS_CardinalityType
<1>3. RecordOf(file, part) \in Nat
  BY <1>2 DEF RecordOf
<1> QED
  BY <1>3 DEF Written, CutShort, Chunk

\* The counter stays within its width.
LEMMA FollowingType ==
  ASSUME NEW n \in 0..(SeqLimit - 1)
  PROVE  /\ Following(n) \in 0..(SeqLimit - 1)
         /\ n # SeqLimit - 1 => Following(n) = n + 1
BY FeedConstants DEF Following

LEMMA NetType ==
  ASSUME TypeOK, NEW x \in Exchange,
         NetChanges(x) \/ Connect(x) \/ Close(x) \/ Break(x) \/ Reconnect
  PROVE  TypeOK'
BY DEF TypeOK, NetChanges, Connect, Close, Break, Reconnect, StreamGoes, Exchange,
       observerVars, entryVars, logVars

LEMMA ObserverType ==
  ASSUME TypeOK, StartObserver \/ CrashObserver \/ (\E s \in Symbols : Quote(s)) \/ Publish
  PROVE  TypeOK'
<1>1. CASE StartObserver
  BY <1>1, FeedConstants
     DEF StartObserver, TypeOK, Exchange, entryVars, logVars
<1>2. CASE CrashObserver
  BY <1>2 DEF CrashObserver, Failing, TypeOK, Exchange, entryVars, logVars
<1>3. CASE \E s \in Symbols : Quote(s)
  <2>1. PICK s \in Symbols : Quote(s)
    BY <1>3
  <2>2. [symbol |-> s, seq |-> seq, count |-> count] \in Tick
    BY DEF TypeOK, Tick
  <2>3. outbox' \in Seq(Tick)
    BY <2>1, <2>2, AppendElements DEF Quote, TypeOK
  <2>4. count' \in Nat \X Nat
    BY <2>1 DEF Quote, TypeOK
  <2>5. seq' \in 0..(SeqLimit - 1)
    BY <2>1, FollowingType DEF Quote, TypeOK
  <2> QED
    BY <2>1, <2>3, <2>4, <2>5 DEF Quote, TypeOK, nodeVars, entryVars, logVars
<1>4. CASE Publish
  <2>1. PICK i \in DOMAIN outbox :
          /\ outbox' = RemoveAt(outbox, i)
          /\ wire' = Append(wire, outbox[i]) \/ wire' = wire
          /\ UNCHANGED <<nodeVars, seq, issued, count, entryVars, logVars, faults>>
    BY <1>4 DEF Publish, FirstNext
  <2>2. outbox' \in Seq(Tick)
    BY <2>1, RemoveAtElements DEF TypeOK
  <2>3. wire' \in Seq(Tick)
    <3>1. outbox[i] \in Tick /\ wire \in Seq(Tick)
      BY <2>1 DEF TypeOK
    <3> QED
      BY <2>1, <3>1, AppendElements
  <2> QED
    BY <2>1, <2>2, <2>3 DEF TypeOK, nodeVars, entryVars, logVars
<1> QED
  BY <1>1, <1>2, <1>3, <1>4

LEMMA ExecutorType ==
  ASSUME TypeOK,
         StartExecutor \/ CrashExecutor \/ Take \/ WriteLength \/ WriteBody
           \/ PassOver \/ TestNumber
  PROVE  TypeOK'
<1> DEFINE Appended(part) ==
             {file} \cup {Append(file, c) : c \in {Written(part, RecordOf(file, part)),
                                                  CutShort(part, RecordOf(file, part))}}
<1>0. \A part \in {"length", "body"} : Appended(part) \subseteq Seq(Chunk)
  <2> SUFFICES ASSUME NEW part \in {"length", "body"} PROVE Appended(part) \subseteq Seq(Chunk)
    OBVIOUS
  <2>1. file \in Seq(Chunk)
    BY DEF TypeOK
  <2>2. /\ Written(part, RecordOf(file, part)) \in Chunk
        /\ CutShort(part, RecordOf(file, part)) \in Chunk
    BY <2>1, ChunkTypes
  <2> QED
    BY <2>1, <2>2, AppendElements
<1>1. CASE StartExecutor
  BY <1>1, FeedConstants
     DEF StartExecutor, TypeOK, Exchange, Zeros, NoCount, Opened, observerVars
<1>2. CASE CrashExecutor
  <2>1. file' \in Seq(Chunk)
    <3>1. file' \in Appended("length") \cup Appended("body")
      BY <1>2 DEF CrashExecutor
    <3> QED
      BY <1>0, <3>1
  <2>2. torn' \in BOOLEAN
    BY <1>2 DEF CrashExecutor
  <2> QED
    BY <1>2, <2>1, <2>2, IdleType
       DEF CrashExecutor, Failing, TypeOK, Exchange, observerVars
<1>3. CASE Take
  <2>1. PICK i \in DOMAIN wire :
          /\ handler' = [at |-> "length", tick |-> wire[i], verdict |-> "none"]
          /\ wire' = RemoveAt(wire, i)
    BY <1>3 DEF Take
  <2>2. wire' \in Seq(Tick) /\ wire[i] \in Tick
    BY <2>1, RemoveAtElements DEF TypeOK
  <2>3. handler' \in [at : Place, tick : Tick, verdict : Verdict]
    BY <2>1, <2>2 DEF Place, Verdict
  <2> QED
    BY <1>3, <2>2, <2>3 DEF Take, TypeOK, nodeVars, observerVars, logVars
<1>4. CASE WriteLength
  <2>1. file' \in Seq(Chunk)
    <3>1. file' \in Appended("length")
      BY <1>4 DEF WriteLength
    <3> QED
      BY <1>0, <3>1
  <2>2. handler' \in [at : Place, tick : Tick, verdict : Verdict]
    BY <1>4 DEF WriteLength, TypeOK, Place
  <2>3. torn' \in BOOLEAN /\ faults' \in Nat
    <3>1. torn' = torn \/ torn' = TRUE
      BY <1>4, Zenon DEF WriteLength
    <3>2. faults' = faults \/ faults' = faults + 1
      BY <1>4 DEF WriteLength, Failing
    <3>3. torn \in BOOLEAN /\ faults \in Nat
      BY DEF TypeOK
    <3>4. torn' \in BOOLEAN
      BY <3>1, <3>3, Zenon
    <3> QED
      BY <3>2, <3>3, <3>4
  <2> QED
    BY <1>4, <2>1, <2>2, <2>3 DEF WriteLength, TypeOK, nodeVars, observerVars
<1>5. CASE WriteBody
  <2>1. file' \in Seq(Chunk)
    <3>1. file' \in Appended("body")
      BY <1>5 DEF WriteBody
    <3> QED
      BY <1>0, <3>1
  <2>4. logged' \in Seq(Nat)
    <3>1. logged \in Seq(Nat) /\ RecordOf(file, "body") \in Nat
      BY ChunkTypes DEF TypeOK
    <3>2. logged' = logged \/ logged' = Append(logged, RecordOf(file, "body"))
      BY <1>5, Zenon DEF WriteBody
    <3> QED
      BY <3>1, <3>2, AppendElements
  <2>2. handler' \in [at : Place, tick : Tick, verdict : Verdict]
    BY <1>5 DEF WriteBody, TypeOK, Place
  <2>3. torn' \in BOOLEAN /\ faults' \in Nat
    <3>1. torn' = torn \/ torn' = TRUE
      BY <1>5, Zenon DEF WriteBody
    <3>2. faults' = faults \/ faults' = faults + 1
      BY <1>5 DEF WriteBody, Failing
    <3>3. torn \in BOOLEAN /\ faults \in Nat
      BY DEF TypeOK
    <3>4. torn' \in BOOLEAN
      BY <3>1, <3>3, Zenon
    <3> QED
      BY <3>2, <3>3, <3>4
  <2> QED
    BY <1>5, <2>1, <2>2, <2>3, <2>4 DEF WriteBody, TypeOK, nodeVars, observerVars
<1>6. CASE PassOver
  BY <1>6 DEF PassOver, TypeOK, Place, Verdict, nodeVars, observerVars, logVars
<1>7. CASE TestNumber
  <2>1. handler.tick \in Tick
    BY DEF TypeOK
  <2>2. handler' \in [at : Place, tick : Tick, verdict : Verdict]
    BY <1>7 DEF TestNumber, TypeOK, Place, Verdict
  <2>3. /\ lastSeq' \in [Symbols -> 0..(SeqLimit - 1)]
        /\ lastCount' \in [Symbols -> Nat \X Nat]
    BY <1>7, <2>1 DEF TestNumber, TypeOK, Tick
  <2> QED
    BY <1>7, <2>2, <2>3 DEF TestNumber, TypeOK, nodeVars, observerVars, logVars
<1> QED
  BY <1>1, <1>2, <1>3, <1>4, <1>5, <1>6, <1>7

LEMMA InitType == Init => TypeOK
<1> SUFFICES ASSUME Init PROVE TypeOK
  OBVIOUS
<1>1. seq \in 0..(SeqLimit - 1) /\ lastSeq \in [Symbols -> 0..(SeqLimit - 1)]
  BY FeedConstants DEF Init, Zeros
<1>2. stream \in [Exchange -> {"down", "connecting", "open", "pausing", "dead"}]
  BY DEF Init
<1>3. count \in Nat \X Nat /\ lastCount \in [Symbols -> Nat \X Nat]
  BY DEF Init, NoCount
<1>4. torn \in BOOLEAN
  BY DEF Init
<1>5. outbox \in Seq(Tick) /\ wire \in Seq(Tick) /\ file \in Seq(Chunk) /\ logged \in Seq(Nat)
  BY DEF Init
<1> QED
  BY <1>1, <1>2, <1>3, <1>4, <1>5, IdleType DEF Init, TypeOK

LEMMA NextType == TypeOK /\ [Next]_vars => TypeOK'
<1> SUFFICES ASSUME TypeOK, [Next]_vars PROVE TypeOK'
  OBVIOUS
<1>1. CASE UNCHANGED vars
  BY <1>1 DEF vars, nodeVars, observerVars, entryVars, logVars, TypeOK
<1>2. CASE Next
  BY <1>2, NetType, ObserverType, ExecutorType DEF Next, Exchange
<1> QED
  BY <1>1, <1>2

\* Every variable of the feed keeps its type, the sequence number its width.
THEOREM TypeCorrect == Spec => []TypeOK
<1> QED
  BY InitType, NextType, PTL DEF Spec
-----------------------------------------------------------------------------
(* The gates. *)

\* Only StartExecutor adds an executor, and behind its gates.
LEMMA StartsBehindGates == StartedBehindGates /\ [Next]_vars => StartedBehindGates'
<1> SUFFICES ASSUME StartedBehindGates, [Next]_vars PROVE StartedBehindGates'
  OBVIOUS
<1>1. config' = config
  <2>1. CASE UNCHANGED vars
    BY <2>1 DEF vars, nodeVars
  <2>2. CASE Next
    BY <2>2
       DEF Next, NetChanges, Connect, Close, Break, Reconnect, StreamGoes, StartObserver,
           CrashObserver, Quote, Publish, StartExecutor, CrashExecutor, Take, WriteLength,
           WriteBody, PassOver, TestNumber, nodeVars
  <2> QED
    BY <2>1, <2>2
<1>2. "executor" \in up' => "executor" \in up \/ StartExecutor
  <2>1. CASE UNCHANGED vars
    BY <2>1 DEF vars, nodeVars
  <2>2. CASE Next
    BY <2>2
       DEF Next, NetChanges, Connect, Close, Break, Reconnect, StreamGoes, StartObserver,
           CrashObserver, Quote, Publish, CrashExecutor, Take, WriteLength,
           WriteBody, PassOver, TestNumber, nodeVars
  <2> QED
    BY <2>1, <2>2
<1>3. StartExecutor => ExecutorStarts(config)
  BY DEF StartExecutor
<1> QED
  BY <1>1, <1>2, <1>3 DEF StartedBehindGates

\* An executor that sends orders runs in mode live, with the production edge,
\* keys and the permission for the main network, in every reachable state and
\* for every set of configurations (main.rs:152-163, trading_mode.rs:9-15).
THEOREM OrdersOnlyBehindGates == Spec => []LiveOnlyBehindGates
<1>1. Init => StartedBehindGates
  BY DEF Init, StartedBehindGates
<1>2. StartedBehindGates => LiveOnlyBehindGates
  BY FeedConstants, LiveIsCleared DEF StartedBehindGates, LiveOnlyBehindGates
<1> QED
  BY <1>1, <1>2, StartsBehindGates, PTL DEF Spec
-----------------------------------------------------------------------------
(* The order of ticks under way. *)

IsTick(t) == t.count \in Nat \X Nat /\ t.seq \in 0..(SeqLimit - 1)

\* Everything under way or remembered has a run and a number.
LEMMA UnderWayTypes ==
  ASSUME TypeOK
  PROVE  /\ \A i \in DOMAIN outbox : IsTick(outbox[i])
         /\ \A i \in DOMAIN wire : IsTick(wire[i])
         /\ IsTick(handler.tick)
         /\ \A s \in Symbols : lastCount[s] \in Nat \X Nat /\ lastSeq[s] \in 0..(SeqLimit - 1)
<1>1. \A q \in Seq(Tick) : \A i \in DOMAIN q : IsTick(q[i])
  <2>1. ASSUME NEW q \in Seq(Tick), NEW i \in DOMAIN q PROVE q[i] \in Tick
    BY ElementOfSeq, LenProperties
  <2> QED
    BY <2>1 DEF Tick, IsTick
<1> QED
  BY <1>1 DEF TypeOK, Tick, IsTick

\* A step of the counter leaves every number given a number given.
LEMMA NumberedStays ==
  ASSUME TypeOK, NEW c \in Nat \X Nat, NEW n \in 0..(SeqLimit - 1), Numbered(c, n),
         StartObserver \/ (\E s \in Symbols : Quote(s))
  PROVE  NumberedBy(count', seq', c, n)
<1>1. CASE StartObserver
  BY <1>1 DEF StartObserver, Numbered, NumberedBy, TypeOK
<1>2. CASE \E s \in Symbols : Quote(s)
  <2>1. CASE seq = SeqLimit - 1
    BY <1>2, <2>1 DEF Quote, Numbered, NumberedBy, TypeOK
  <2>2. CASE seq # SeqLimit - 1
    BY <1>2, <2>2, FollowingType DEF Quote, Numbered, NumberedBy, TypeOK
  <2> QED
    BY <2>1, <2>2
<1> QED
  BY <1>1, <1>2

\* A number not given yet lies ahead of every number given.
LEMMA NumberedIsAhead ==
  ASSUME TypeOK, NEW n \in 0..(SeqLimit - 1), Numbered(count, n)
  PROVE  n < seq
BY DEF Numbered, NumberedBy, TypeOK

\* Steps that touch neither the ticks under way nor the counter: handlers that
\* go on, and the connections.
LEMMA QuietFlight ==
  ASSUME Flight,
         UNCHANGED <<outbox, wire, lastSeq, lastCount, seq, count>>,
         handler'.tick = handler.tick,
         Busy' => Busy,
         handler'.verdict = "duplicate" => handler.verdict = "duplicate"
  PROVE  Flight'
<1>1. AllNumbered'
  BY DEF Flight, AllNumbered, Numbered
<1>2. InOrder'
  BY DEF Flight, InOrder, Ahead
<1>3. NothingRemembered'
  BY DEF Flight, NothingRemembered, Remembers
<1>4. FreshTickAccepted'
  BY DEF Flight, FreshTickAccepted
<1> QED
  BY <1>1, <1>2, <1>3, <1>4 DEF Flight

\* A restart of the observer begins a run of its own.
LEMMA StartObserverFlight ==
  ASSUME TypeOK, Flight, StartObserver
  PROVE  Flight'
<1>1. UNCHANGED <<outbox, wire, handler, lastSeq, lastCount>>
  BY DEF StartObserver, entryVars
<1>2. AllNumbered'
  <2>1. \A c \in Nat \X Nat, n \in 0..(SeqLimit - 1) :
          Numbered(c, n) => NumberedBy(count', seq', c, n)
    BY NumberedStays
  <2> QED
    BY <1>1, <2>1, UnderWayTypes DEF Flight, AllNumbered, Numbered, Busy, IsTick
<1>3. InOrder' /\ NothingRemembered' /\ FreshTickAccepted'
  BY <1>1 DEF Flight, InOrder, Ahead, NothingRemembered, Remembers, FreshTickAccepted, Busy
<1> QED
  BY <1>2, <1>3 DEF Flight

\* A crash of the observer loses what waits for its publisher.
LEMMA CrashObserverFlight ==
  ASSUME Flight, CrashObserver
  PROVE  Flight'
<1>1. outbox' = <<>> /\ UNCHANGED <<wire, handler, lastSeq, lastCount, seq, count>>
  BY DEF CrashObserver, entryVars
<1> QED
  BY <1>1 DEF Flight, AllNumbered, Numbered, InOrder, Ahead, NothingRemembered, Remembers,
              FreshTickAccepted, Busy

\* A new tick comes behind all others of its run.
LEMMA QuoteFlight ==
  ASSUME TypeOK, NodesOK, Flight, NEW s \in Symbols, Quote(s)
  PROVE  Flight'
<1> DEFINE t == [symbol |-> s, seq |-> seq, count |-> count]
           n == Len(outbox) + 1
<1>1. UNCHANGED <<wire, handler, lastSeq, lastCount>>
  BY DEF Quote, entryVars
<1>2. /\ DOMAIN outbox' = 1..n
      /\ DOMAIN outbox = 1..(n - 1) /\ n \in Nat \ {0}
      /\ \A i \in DOMAIN outbox : outbox'[i] = outbox[i]
      /\ outbox'[n] = t
  <2>1. t \in Tick /\ outbox \in Seq(Tick)
    BY DEF TypeOK, Tick
  <2>2. outbox' = Append(outbox, t)
    BY DEF Quote
  <2> HIDE DEF t
  <2> QED
    BY <2>1, <2>2, AppendElements
<1>3. \A i \in DOMAIN outbox' : i = n \/ i \in DOMAIN outbox
  BY <1>2
<1>4. AllNumbered'
  <2>1. \A c \in Nat \X Nat, k \in 0..(SeqLimit - 1) :
          Numbered(c, k) => NumberedBy(count', seq', c, k)
    BY NumberedStays
  <2>2. NumberedBy(count', seq', t.count, t.seq)
    <3>1. count[1] >= 1
      BY DEF Quote, NodesOK
    <3>2. CASE seq = SeqLimit - 1
      BY <3>1, <3>2 DEF Quote, NumberedBy, TypeOK
    <3>3. CASE seq # SeqLimit - 1
      BY <3>1, <3>3, FollowingType DEF Quote, NumberedBy, TypeOK
    <3> QED
      BY <3>2, <3>3
  <2>3. \A i \in DOMAIN outbox' : NumberedBy(count', seq', outbox'[i].count, outbox'[i].seq)
    <3>1. \A i \in DOMAIN outbox : NumberedBy(count', seq', outbox[i].count, outbox[i].seq)
      BY <2>1, UnderWayTypes DEF Flight, AllNumbered, IsTick
    <3> HIDE DEF t, n
    <3> QED
      BY <1>2, <1>3, <2>2, <3>1
  <2> QED
    BY <1>1, <2>1, <2>3, UnderWayTypes DEF Flight, AllNumbered, Numbered, Busy, IsTick
<1>5. \A c \in Nat \X Nat, k \in 0..(SeqLimit - 1) : Numbered(c, k) /\ c = count => k < seq
  BY NumberedIsAhead
<1>6. /\ \A i \in DOMAIN outbox : Ahead(outbox[i], t)
      /\ \A i \in DOMAIN wire : Ahead(wire[i], t)
      /\ Busy => Ahead(handler.tick, t)
  BY <1>5, UnderWayTypes DEF Flight, AllNumbered, Ahead, IsTick
<1>7. \A r \in Symbols : Remembers(r, t)
  <2>1. count # NoCount
    BY DEF Quote, NodesOK, NoCount, TypeOK
  <2> QED
    BY <1>5, <2>1, UnderWayTypes DEF Flight, AllNumbered, Remembers
<1> HIDE DEF t, n
<1>8. InOrder'
  <2>1. \A i, j \in DOMAIN outbox' : i < j => Ahead(outbox'[i], outbox'[j])
    <3> SUFFICES ASSUME NEW i \in DOMAIN outbox', NEW j \in DOMAIN outbox', i < j
                 PROVE  Ahead(outbox'[i], outbox'[j])
      OBVIOUS
    <3>1. i \in DOMAIN outbox
      BY <1>2
    <3>2. CASE j = n
      BY <1>2, <1>6, <3>1, <3>2
    <3>3. CASE j \in DOMAIN outbox
      BY <1>2, <3>1, <3>3 DEF Flight, InOrder
    <3> QED
      BY <1>3, <3>2, <3>3
  <2> QED
    BY <1>1, <1>2, <1>3, <1>6, <2>1 DEF Flight, InOrder, Ahead, Busy
<1>9. NothingRemembered'
  BY <1>1, <1>2, <1>3, <1>7 DEF Flight, NothingRemembered, Remembers, Busy
<1>10. FreshTickAccepted'
  BY <1>1 DEF Flight, FreshTickAccepted
<1> QED
  BY <1>4, <1>8, <1>9, <1>10 DEF Flight

\* The publisher takes the oldest tick, so what reaches the wire is behind all
\* that is there and ahead of all that is not.
LEMMA PublishFlight ==
  ASSUME TypeOK, Flight, Publish
  PROVE  Flight'
<1>1. PICK i \in DOMAIN outbox :
        /\ i = 1
        /\ outbox' = RemoveAt(outbox, i)
        /\ wire' = Append(wire, outbox[i]) \/ wire' = wire
  BY DEF Publish, FirstNext
<1>2. UNCHANGED <<handler, lastSeq, lastCount, seq, count>>
  BY DEF Publish, entryVars
<1>3. /\ DOMAIN outbox' = 1..(Len(outbox) - 1)
      /\ DOMAIN outbox = 1..Len(outbox) /\ Len(outbox) \in Nat
      /\ \A j \in DOMAIN outbox' : outbox'[j] = outbox[j + 1]
  <2> DEFINE r == RemoveAt(outbox, i)
  <2>1. outbox \in Seq(Tick)
    BY DEF TypeOK
  <2>2. /\ DOMAIN r = 1..(Len(outbox) - 1)
        /\ \A j \in 1..(Len(outbox) - 1) : r[j] = IF j < i THEN outbox[j] ELSE outbox[j + 1]
    BY <2>1, RemoveAtElements
  <2> HIDE DEF r
  <2>3. outbox' = r
    BY <1>1 DEF r
  <2> QED
    BY <1>1, <2>1, <2>2, <2>3
<1>4. \A j \in DOMAIN outbox' : j + 1 \in DOMAIN outbox /\ 1 < j + 1
  BY <1>3
<1>5. /\ \A j \in DOMAIN outbox' : Numbered(outbox'[j].count, outbox'[j].seq)
      /\ \A j, l \in DOMAIN outbox' : j < l => Ahead(outbox'[j], outbox'[l])
      /\ \A j \in DOMAIN outbox' : Ahead(outbox[1], outbox'[j])
      /\ \A s \in Symbols, j \in DOMAIN outbox' : Remembers(s, outbox'[j])
      /\ \A j \in DOMAIN wire, l \in DOMAIN outbox' : Ahead(wire[j], outbox'[l])
      /\ Busy => \A l \in DOMAIN outbox' : Ahead(handler.tick, outbox'[l])
  <2>1. \A j, l \in DOMAIN outbox' : j < l => j + 1 < l + 1
    BY <1>3
  <2> QED
    BY <1>1, <1>3, <1>4, <2>1 DEF Flight, AllNumbered, InOrder, NothingRemembered
<1>6. /\ \A j \in DOMAIN wire' : Numbered(wire'[j].count, wire'[j].seq)
      /\ \A j, l \in DOMAIN wire' : j < l => Ahead(wire'[j], wire'[l])
      /\ \A s \in Symbols, j \in DOMAIN wire' : Remembers(s, wire'[j])
      /\ \A j \in DOMAIN wire', l \in DOMAIN outbox' : Ahead(wire'[j], outbox'[l])
      /\ Busy => \A l \in DOMAIN wire' : Ahead(handler.tick, wire'[l])
  <2>1. CASE wire' = wire
    BY <1>5, <2>1 DEF Flight, AllNumbered, InOrder, NothingRemembered
  <2>2. CASE wire' = Append(wire, outbox[i])
    <3> DEFINE n == Len(wire) + 1
    <3>1. outbox[i] \in Tick /\ wire \in Seq(Tick)
      BY ElementOfSeq, LenProperties DEF TypeOK
    <3>2. /\ DOMAIN wire' = 1..n
          /\ DOMAIN wire = 1..(n - 1) /\ n \in Nat \ {0}
          /\ \A j \in DOMAIN wire : wire'[j] = wire[j]
          /\ wire'[n] = outbox[1]
      BY <1>1, <2>2, <3>1, AppendElements
    <3> HIDE DEF n
    <3>3. \A j \in DOMAIN wire' : j = n \/ j \in DOMAIN wire
      BY <3>2
    <3>4. \A j, l \in DOMAIN wire' : j < l => Ahead(wire'[j], wire'[l])
      <4> SUFFICES ASSUME NEW j \in DOMAIN wire', NEW l \in DOMAIN wire', j < l
                   PROVE  Ahead(wire'[j], wire'[l])
        OBVIOUS
      <4>1. j \in DOMAIN wire
        BY <3>2
      <4>2. CASE l = n
        BY <1>1, <3>2, <4>1, <4>2 DEF Flight, InOrder
      <4>3. CASE l \in DOMAIN wire
        BY <3>2, <4>1, <4>3 DEF Flight, InOrder
      <4> QED
        BY <3>3, <4>2, <4>3
    <3> QED
      BY <1>1, <1>5, <3>2, <3>3, <3>4 DEF Flight, AllNumbered, InOrder, NothingRemembered
  <2> QED
    BY <1>1, <2>1, <2>2
<1> QED
  BY <1>2, <1>5, <1>6 DEF Flight, AllNumbered, Numbered, InOrder, Ahead, NothingRemembered,
                          Remembers, FreshTickAccepted, Busy

\* The executor takes the first tick of its session, which all others of the
\* same run are behind.
LEMMA TakeFlight ==
  ASSUME TypeOK, Flight, Take
  PROVE  Flight'
<1>1. PICK i \in DOMAIN wire :
        /\ \A j \in 1..(i - 1) : wire[j].count[1] # wire[i].count[1]
        /\ handler' = [at |-> "length", tick |-> wire[i], verdict |-> "none"]
        /\ wire' = RemoveAt(wire, i)
  BY DEF Take
<1>2. UNCHANGED <<outbox, lastSeq, lastCount, seq, count>>
  BY DEF Take, observerVars
<1>3. wire \in Seq(Tick) /\ DOMAIN wire = 1..Len(wire) /\ Len(wire) \in Nat
  BY DEF TypeOK
<1>4. /\ \A j \in DOMAIN wire' : \E k \in DOMAIN wire \ {i} : wire'[j] = wire[k]
      /\ \A j, l \in DOMAIN wire' : j < l =>
           \E k, m \in DOMAIN wire : k < m /\ wire'[j] = wire[k] /\ wire'[l] = wire[m]
  <2> DEFINE r == RemoveAt(wire, i)
  <2>1. /\ \A j \in DOMAIN r : \E k \in DOMAIN wire \ {i} : r[j] = wire[k]
        /\ \A j, l \in DOMAIN r : j < l => \E k, m \in DOMAIN wire :
             k < m /\ r[j] = wire[k] /\ r[l] = wire[m]
    BY <1>3, RemoveAtKeepsOrder
  <2>2. wire' = r
    BY <1>1
  <2> HIDE DEF r
  <2> QED
    BY <2>1, <2>2
<1>5. \A k \in DOMAIN wire \ {i} : Ahead(wire[i], wire[k])
  <2> SUFFICES ASSUME NEW k \in DOMAIN wire \ {i} PROVE Ahead(wire[i], wire[k])
    OBVIOUS
  <2>1. CASE k < i
    <3>1. k \in 1..(i - 1)
      BY <1>3, <2>1
    <3> QED
      BY <1>1, <3>1 DEF Ahead
  <2>2. CASE i < k
    BY <2>2 DEF Flight, InOrder
  <2> QED
    BY <1>3, <2>1, <2>2
<1>6. AllNumbered'
  BY <1>1, <1>2, <1>4 DEF Flight, AllNumbered, Numbered
<1>7. InOrder'
  <2>1. \A j, l \in DOMAIN wire' : j < l => Ahead(wire'[j], wire'[l])
    BY <1>4 DEF Flight, InOrder
  <2>2. \A j \in DOMAIN wire', l \in DOMAIN outbox : Ahead(wire'[j], outbox[l])
    BY <1>4 DEF Flight, InOrder
  <2>3. \A j \in DOMAIN wire' : Ahead(handler'.tick, wire'[j])
    BY <1>1, <1>4, <1>5
  <2>4. \A l \in DOMAIN outbox : Ahead(handler'.tick, outbox[l])
    BY <1>1 DEF Flight, InOrder
  <2> QED
    BY <1>2, <2>1, <2>2, <2>3, <2>4 DEF Flight, InOrder
<1>8. NothingRemembered'
  BY <1>1, <1>2, <1>4 DEF Flight, NothingRemembered, Remembers
<1>9. FreshTickAccepted'
  BY <1>1 DEF FreshTickAccepted
<1> QED
  BY <1>6, <1>7, <1>8, <1>9 DEF Flight

\* What is remembered after the test is the tick itself, which all others of
\* its run are behind; and a tick of a remembered run is not refused.
LEMMA TestNumberFlight ==
  ASSUME TypeOK, Flight, TestNumber
  PROVE  Flight'
<1> DEFINE s == handler.tick.symbol
<1>1. s \in Symbols /\ Busy
  BY DEF TypeOK, Tick, TestNumber, Busy
<1>2. UNCHANGED <<outbox, wire, seq, count>> /\ handler'.at = "idle" /\ handler'.tick = handler.tick
  BY DEF TestNumber, observerVars, TypeOK
<1>3. CASE handler.tick.seq <= lastSeq[s]
  <2>1. UNCHANGED <<lastSeq, lastCount>>
    BY <1>3 DEF TestNumber
  <2>2. handler.tick.count # lastCount[s]
    BY <1>1, <1>3, UnderWayTypes DEF Flight, NothingRemembered, Remembers, IsTick
  <2> QED
    BY <1>2, <2>1, <2>2 DEF Flight, AllNumbered, Numbered, InOrder, NothingRemembered, Remembers,
                             FreshTickAccepted, Busy
<1>4. CASE ~(handler.tick.seq <= lastSeq[s])
  <2>1. /\ handler'.verdict = "fresh"
        /\ lastSeq' = [lastSeq EXCEPT ![s] = handler.tick.seq]
        /\ lastCount' = [lastCount EXCEPT ![s] = handler.tick.count]
    BY <1>4 DEF TestNumber, TypeOK
  <2>2. \A r \in Symbols :
          IF r = s THEN lastSeq'[r] = handler.tick.seq /\ lastCount'[r] = handler.tick.count
                   ELSE lastSeq'[r] = lastSeq[r] /\ lastCount'[r] = lastCount[r]
    BY <2>1 DEF TypeOK
  <2> HIDE DEF s
  <2>3. AllNumbered'
    BY <1>1, <1>2, <2>2 DEF Flight, AllNumbered, Numbered, Busy
  <2>4. InOrder'
    BY <1>2 DEF Flight, InOrder, Busy
  <2>5. NothingRemembered'
    BY <1>1, <1>2, <2>2 DEF Flight, NothingRemembered, Remembers, InOrder, Ahead, Busy
  <2> QED
    BY <2>1, <2>3, <2>4, <2>5 DEF Flight, FreshTickAccepted
<1> QED
  BY <1>3, <1>4

\* A new process remembers nothing, and no run of the counter is the zeroth.
LEMMA StartExecutorFlight ==
  ASSUME TypeOK, NodesOK, Flight, StartExecutor
  PROVE  Flight'
<1>1. UNCHANGED <<outbox, wire, handler, seq, count>>
  BY DEF StartExecutor, observerVars
<1>2. \A s \in Symbols : lastCount'[s] = NoCount
  BY DEF StartExecutor
<1>3. handler = Idle
  BY DEF StartExecutor, NodesOK
<1>4. \A c, n : Numbered(c, n) => c # NoCount
  BY DEF Numbered, NumberedBy, NoCount
<1>5. NothingRemembered'
  BY <1>1, <1>2, <1>4 DEF Flight, AllNumbered, NothingRemembered, Remembers, Busy
<1> QED
  BY <1>1, <1>2, <1>3, <1>5
     DEF Flight, AllNumbered, Numbered, InOrder, FreshTickAccepted, Busy, Idle

\* With the process everything on its way to it is lost.
LEMMA CrashExecutorFlight ==
  ASSUME Flight, CrashExecutor
  PROVE  Flight'
<1>1. wire' = <<>> /\ handler' = Idle /\ UNCHANGED <<outbox, lastSeq, lastCount, seq, count>>
  BY DEF CrashExecutor, observerVars
<1> QED
  BY <1>1 DEF Flight, AllNumbered, Numbered, InOrder, Ahead, NothingRemembered, Remembers,
              FreshTickAccepted, Busy, Idle
-----------------------------------------------------------------------------
(* The nodes. *)

LEMMA NodesStep ==
  ASSUME TypeOK, NodesOK, [Next]_vars
  PROVE  NodesOK'
<1>1. "executor" \notin up' => handler' = Idle
  <2>1. CASE UNCHANGED vars
    BY <2>1 DEF vars, nodeVars, entryVars, NodesOK
  <2>2. CASE StartExecutor \/ CrashExecutor \/ Take
    BY <2>2 DEF StartExecutor, CrashExecutor, Take, nodeVars
  <2>3. CASE WriteLength \/ WriteBody \/ PassOver \/ TestNumber
    BY <2>3 DEF WriteLength, WriteBody, PassOver, TestNumber, nodeVars, NodesOK, Idle
  <2>4. CASE \/ \E x \in Exchange : NetChanges(x) \/ Connect(x) \/ Close(x) \/ Break(x)
             \/ Reconnect \/ StartObserver \/ CrashObserver
             \/ \E s \in Symbols : Quote(s)
             \/ Publish
    BY <2>4
       DEF NetChanges, Connect, Close, Break, Reconnect, StreamGoes, StartObserver, CrashObserver,
           Quote, Publish, nodeVars, entryVars, NodesOK
  <2> QED
    BY <2>1, <2>2, <2>3, <2>4 DEF Next
<1>2. stream'["binance"] # "down" => count'[1] >= 1
  <2>1. CASE UNCHANGED vars
    BY <2>1 DEF vars, nodeVars, observerVars, NodesOK
  <2>2. CASE StartObserver \/ CrashObserver \/ StartExecutor \/ CrashExecutor
    BY <2>2
       DEF StartObserver, CrashObserver, StartExecutor, CrashExecutor, observerVars, NodesOK,
           TypeOK, Exchange
  <2>3. CASE \E x \in Exchange : NetChanges(x) \/ Connect(x) \/ Close(x) \/ Break(x) \/ Reconnect
    BY <2>3
       DEF NetChanges, Connect, Close, Break, Reconnect, StreamGoes, observerVars, NodesOK, TypeOK,
           Exchange
  <2>4. CASE \E s \in Symbols : Quote(s)
    BY <2>4 DEF Quote, nodeVars, NodesOK, TypeOK
  <2>5. CASE Publish \/ Take \/ WriteLength \/ WriteBody
           \/ PassOver \/ TestNumber
    BY <2>5
       DEF Publish, Take, WriteLength, WriteBody, PassOver, TestNumber, nodeVars, observerVars,
           NodesOK
  <2> QED
    BY <2>1, <2>2, <2>3, <2>4, <2>5 DEF Next, Exchange
<1> QED
  BY <1>1, <1>2 DEF NodesOK
-----------------------------------------------------------------------------
(* The theorem. *)

LEMMA FlightStep ==
  ASSUME TypeOK, NodesOK, Flight, [Next]_vars
  PROVE  Flight'
<1>1. CASE UNCHANGED vars
  BY <1>1, QuietFlight DEF vars, nodeVars, observerVars, entryVars, Busy
<1>2. CASE \/ \E x \in Exchange : NetChanges(x) \/ Connect(x) \/ Close(x) \/ Break(x)
           \/ Reconnect
  BY <1>2, QuietFlight
     DEF NetChanges, Connect, Close, Break, Reconnect, StreamGoes, observerVars, entryVars, Busy
<1>3. CASE WriteLength \/ WriteBody \/ PassOver
  <2>1. UNCHANGED <<outbox, wire, lastSeq, lastCount, seq, count>>
    BY <1>3 DEF WriteLength, WriteBody, PassOver, observerVars
  <2>2. /\ handler'.tick = handler.tick
        /\ handler'.verdict = "duplicate" => handler.verdict = "duplicate"
    BY <1>3 DEF WriteLength, WriteBody, PassOver, TypeOK
  <2>3. Busy
    BY <1>3 DEF WriteLength, WriteBody, PassOver, Busy
  <2> QED
    BY <2>1, <2>2, <2>3, QuietFlight
<1>4. CASE StartObserver
  BY <1>4, StartObserverFlight
<1>5. CASE CrashObserver
  BY <1>5, CrashObserverFlight
<1>6. CASE \E s \in Symbols : Quote(s)
  BY <1>6, QuoteFlight
<1>7. CASE Publish
  BY <1>7, PublishFlight
<1>8. CASE StartExecutor
  BY <1>8, StartExecutorFlight
<1>9. CASE CrashExecutor
  BY <1>9, CrashExecutorFlight
<1>10. CASE Take
  BY <1>10, TakeFlight
<1>11. CASE TestNumber
  BY <1>11, TestNumberFlight
<1> QED
  BY <1>1, <1>2, <1>3, <1>4, <1>5, <1>6, <1>7, <1>8, <1>9, <1>10, <1>11 DEF Next

\* A tick on its first delivery is refused only by a number of another run of
\* the counter, for every width of the counter, any number of symbols, any loss
\* on the way and any crash (risk.rs:124, observer-bin/src/main.rs:101).
THEOREM OnlyStaleNumbersRefuse == Spec => []FreshTickAccepted
<1>1. Init => TypeOK /\ NodesOK /\ Flight
  <2>1. Init => NodesOK
    BY DEF Init, NodesOK, Exchange
  <2>2. Init => Flight
    BY DEF Init, Flight, AllNumbered, InOrder, NothingRemembered, FreshTickAccepted, Busy, Idle
  <2> QED
    BY <2>1, <2>2, InitType
<1>2. TypeOK /\ NodesOK /\ Flight /\ [Next]_vars => (TypeOK /\ NodesOK /\ Flight)'
  BY NextType, NodesStep, FlightStep
<1>3. Flight => FreshTickAccepted
  BY DEF Flight
<1> QED
  BY <1>1, <1>2, <1>3, PTL DEF Spec
=============================================================================

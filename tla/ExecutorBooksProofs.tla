------------------------- MODULE ExecutorBooksProofs -------------------------
(***************************************************************************)
(* The books of the executor, for every value of the constants: tracked    *)
(* positions, the ledger, its journal, and with an exchange that answers   *)
(* the agreement with what the exchange holds.                             *)
(***************************************************************************)
EXTENDS ExecutorGateProofs

(* One position at a time. *)

\* The inductive form of OneAtATime, without counting.
Alone == seeded = 0 => \A s, t \in Held : s = t

\* Tracked positions can only leave the map in a step that touches none but
\* by removing it.
LEMMA AloneFewer ==
  ASSUME Alone, seeded' = seeded, Held' \subseteq Held PROVE Alone'
BY DEF Alone

LEMMA AloneUntouched ==
  ASSUME Alone, UNCHANGED <<positions, seeded>> PROVE Alone'
<1>1. Held' = Held
  BY DEF Held
<1> QED
  BY <1>1, AloneFewer

LEMMA AloneInit == Init => Alone
BY DEF Init, Alone, Held, NoPosition

LEMMA AloneStep == IndInv /\ GateInv /\ Alone /\ [Next]_vars => Alone'
<1> SUFFICES ASSUME IndInv, GateInv, Alone, [Next]_vars PROVE Alone'
  OBVIOUS
<1>0. positions \in [Symbols -> Position]
  BY DEF IndInv, TypeOK
<1>1. CASE UNCHANGED <<positions, seeded>>
  BY <1>1, AloneUntouched
<1>2. CASE \E pnl \in PnlOutcomes : RecordExit(pnl)
  <2>1. /\ seeded' = seeded
        /\ \/ UNCHANGED positions
           \/ positions' = [positions EXCEPT ![cur] = NoPosition]
    BY <1>2, Zenon DEF RecordExit
  <2>2. Held' \subseteq Held
    BY <1>0, <2>1 DEF Held, NoPosition, Position
  <2> QED
    BY <2>1, <2>2, AloneFewer
<1>3. CASE ExitsDone
  <2>1. Held' \subseteq Held
    BY <1>3 DEF ExitsDone, Held, NoPosition
  <2> QED
    BY <1>3, <2>1, AloneFewer DEF ExitsDone
<1>4. CASE OpenPosition
  <2>1. Held = {}
    BY <1>4 DEF OpenPosition, GateInv, Carrying
  <2>2. Held' \subseteq {pkt.sym}
    BY <1>0, <1>4, <2>1 DEF OpenPosition, Held
  <2> QED
    BY <2>2 DEF Alone
<1>5. CASE Crash
  BY <1>5 DEF Crash, Alone, Held, NoPosition
<1>6. CASE Startup
  <2>1. CASE UNCHANGED <<positions, seeded>>
    BY <2>1, AloneUntouched
  <2>2. CASE /\ positions' = [s \in Symbols |->
                  IF exPos[s] = 0 THEN NoPosition ELSE Adopted(exPos[s])]
             /\ seeded' = Cardinality({s \in Symbols : exPos[s] # 0})
    <3>1. IsFiniteSet({s \in Symbols : exPos[s] # 0})
      BY ExecutorConstants, FS_Subset
    <3>2. seeded' = 0 => {s \in Symbols : exPos[s] # 0} = {}
      BY <2>2, <3>1, FS_EmptySet
    <3>3. Held' \subseteq {s \in Symbols : exPos[s] # 0}
      BY <2>2 DEF Held, NoPosition
    <3> QED
      BY <3>2, <3>3 DEF Alone
  <2> QED
    BY <1>6, <2>1, <2>2, Zenon DEF Startup
<1>7. RecvMessage => UNCHANGED <<positions, seeded>>
  BY Zenon DEF RecvMessage, RecvIgnored, RecvHaltEntries, RecvResumeEntries,
     RecvFlattenAll, RecvHeartbeat, RecvTick, bookVars
<1>8. CloseStep => \/ UNCHANGED <<positions, seeded>>
                   \/ ExitsDone
                   \/ \E pnl \in PnlOutcomes : RecordExit(pnl)
  BY Zenon DEF CloseStep, KeepPosition, BeginClose, CancelStop,
     ReduceOnlyClose, FlattenDone, bookVars
<1>9. EntryStep => UNCHANGED <<positions, seeded>> \/ OpenPosition
  BY Zenon DEF EntryStep, SkipEntry, DecideEntry, FetchInstrument, PlaceEntry,
     PollFill, PlaceStop, PublishStopFailure, bookVars
<1>10. Unanswered \/ TimerFires \/ Elapse \/ Background
         => UNCHANGED <<positions, seeded>>
  BY Zenon DEF Unanswered, TimerFires, Elapse, Background, DepthUpdate,
     FundingUpdate, StopTriggers, bookVars
<1>11. UNCHANGED vars => UNCHANGED <<positions, seeded>>
  BY Zenon DEF vars, bookVars
<1> QED
  BY <1>1, <1>2, <1>3, <1>4, <1>5, <1>6, <1>7, <1>8, <1>9, <1>10, <1>11,
     Zenon DEF Next

\* At most one position of the process's own is tracked (main.rs:638), with any
\* number of symbols and whatever goes wrong on the way to the exchange.
THEOREM OnePosition == Spec => []OneAtATime
<1>1. Alone => OneAtATime
  <2> SUFFICES ASSUME Alone, seeded = 0 PROVE Cardinality(Held) <= 1
    BY DEF OneAtATime
  <2>1. CASE Held = {}
    BY <2>1, FS_EmptySet
  <2>2. CASE Held # {}
    <3>1. PICK s \in Held : Held = {s}
      BY <2>2 DEF Alone
    <3> QED
      BY <3>1, FS_Singleton
  <2> QED
    BY <2>1, <2>2
<1> QED
  BY <1>1, GateAlways, AloneInit, AloneStep, PTL DEF Spec
-----------------------------------------------------------------------------
(* The ledger. *)

\* The positions that count as open: closed ones leave the map after the loop.
Open == Held \ closed

\* The inductive form of LedgerBalanced: the loops visit open positions only,
\* none twice, an entry in flight has a quantity, and a new process starts empty.
Books ==
  /\ LedgerBalanced
  /\ closed \subseteq Held
  /\ todo \subseteq Open
  /\ pc \in ClosePlaces => cur \in Open \ todo
  /\ pc \notin ClosePlaces \cup {"exits", "hung"} => closed = {}
  /\ pkt = NoPacket => closed = {}
  /\ pc \in Carrying => qty > 0
  /\ pc = "down" => Held = {} /\ seeded = 0 /\ ledger = EmptyLedger

LEMMA BooksInit == Init => Books
<1> SUFFICES ASSUME Init PROVE Books
  OBVIOUS
<1>1. Held = {} /\ Open = {}
  BY DEF Init, Held, Open, NoPosition
<1> QED
  BY <1>1, FS_EmptySet
  DEF Init, Books, LedgerBalanced, Open, EmptyLedger, ClosePlaces, Carrying,
      Entering

\* A set of symbols is finite, so its cardinality is a number.
LEMMA SymbolsCount ==
  ASSUME NEW S \in SUBSET Symbols
  PROVE  /\ IsFiniteSet(S) /\ Cardinality(S) \in Nat
         /\ \A s \in S : Cardinality(S \ {s}) = Cardinality(S) - 1
BY ExecutorConstants, FS_Subset, FS_CardinalityType, FS_RemoveElement

\* A step that leaves the books and the loops over them alone.
LEMMA BooksFrame ==
  ASSUME Books, UNCHANGED <<bookVars, closed, todo, cur>>,
         pkt' = NoPacket => pkt = NoPacket,
         pc' \in ClosePlaces => pc \in ClosePlaces,
         pc' \notin ClosePlaces \cup {"exits", "hung"} => closed = {},
         pc' \in Carrying => qty' > 0,
         pc' = "down" => pc = "down"
  PROVE  Books'
BY DEF Books, LedgerBalanced, Open, Held, bookVars

\* Back at select! nothing is left of a handler that closed nothing any more.
LEMMA BooksIdle ==
  ASSUME Books, BackToSelect, UNCHANGED bookVars, closed = {} PROVE Books'
BY DEF Books, LedgerBalanced, Open, Held, bookVars, BackToSelect, DropFrame,
       ClosePlaces, Carrying, Entering

LEMMA BooksMessage ==
  ASSUME Books, RecvMessage PROVE Books'
<1>1. pc = "select" /\ UNCHANGED bookVars
  BY Zenon DEF RecvMessage, RecvIgnored, RecvHaltEntries, RecvResumeEntries,
     RecvFlattenAll, RecvHeartbeat, RecvTick
<1>2. closed = {}
  BY <1>1 DEF Books, ClosePlaces
<1>3. \/ BackToSelect
      \/ /\ todo' = Held /\ pc' = "exits"
         /\ UNCHANGED <<closed, cur, qty>>
  BY Zenon DEF RecvMessage, RecvIgnored, RecvHaltEntries, RecvResumeEntries,
     RecvFlattenAll, RecvHeartbeat, RecvTick
<1>4. CASE BackToSelect
  BY <1>1, <1>2, <1>4, BooksIdle
<1>5. CASE /\ todo' = Held /\ pc' = "exits"
           /\ UNCHANGED <<closed, cur, qty>>
  BY <1>1, <1>2, <1>5
  DEF Books, LedgerBalanced, Open, Held, bookVars, ClosePlaces, Carrying, Entering
<1> QED
  BY <1>3, <1>4, <1>5

LEMMA BooksRecordExit ==
  ASSUME IndInv, Books, NEW pnl \in PnlOutcomes, RecordExit(pnl) PROVE Books'
<1>1. /\ cur \in Open \ todo /\ pc = "record"
      /\ positions \in [Symbols -> Position] /\ closed \subseteq Held
      /\ ledger \in Ledger /\ seeded \in Nat
  BY DEF Books, RecordExit, ClosePlaces, IndInv, TypeOK
<1>2. Open \in SUBSET Symbols /\ cur \in Open
  BY <1>1 DEF Open, Held
<1>3. /\ Cardinality(Open) \in Nat
      /\ Cardinality(Open \ {cur}) = Cardinality(Open) - 1
  BY <1>2, SymbolsCount
<1>4. Open' = Open \ {cur} /\ closed' \subseteq Held'
  <2>1. CASE InTick
    BY <1>1, <2>1 DEF RecordExit, Open, Held
  <2>2. CASE ~InTick
    <3>1. closed = {} /\ closed' = {}
      BY <2>2 DEF InTick, Books, RecordExit
    <3>2. positions' = [positions EXCEPT ![cur] = NoPosition]
      BY <2>2 DEF RecordExit
    <3> QED
      BY <1>1, <3>1, <3>2 DEF Open, Held, NoPosition
  <2> QED
    BY <2>1, <2>2
<1>5. ledger'.exits = ledger.exits + 1 /\ ledger'.entries = ledger.entries
  BY <1>1 DEF RecordExit, Ledger
<1>6. seeded' = seeded /\ todo' = todo /\ pkt' = pkt
  BY Zenon DEF RecordExit
<1>7. LedgerBalanced'
  <2>1. ledger.entries + seeded = ledger.exits + Cardinality(Open)
    BY DEF Books, LedgerBalanced, Open
  <2>2. /\ ledger.entries \in Nat /\ ledger.exits \in Nat
        /\ Cardinality(Open') = Cardinality(Open) - 1
    BY <1>1, <1>3, <1>4 DEF Ledger
  <2>3. ledger'.entries + seeded' = ledger'.exits + Cardinality(Open')
    BY <1>1, <1>3, <1>5, <1>6, <2>1, <2>2
  <2> QED
    BY <2>3 DEF LedgerBalanced, Open
<1>8. todo' \subseteq Open'
  BY <1>1, <1>4, <1>6 DEF Books
<1>9. \/ pc' = "exits" /\ pkt # NoPacket
      \/ pc' = "flatten" /\ closed' = closed /\ pkt = NoPacket
  BY Zenon DEF RecordExit, InTick
<1> QED
  BY <1>4, <1>6, <1>7, <1>8, <1>9 DEF Books, ClosePlaces, Carrying, Entering

LEMMA BooksCloseStep ==
  ASSUME IndInv, Books, CloseStep PROVE Books'
<1> USE DEF ClosePlaces, Carrying, Entering
<1>1. CASE \E s \in Symbols : KeepPosition(s)
  BY <1>1 DEF KeepPosition, Books, LedgerBalanced, Open, Held, bookVars
<1>2. CASE \E s \in Symbols : BeginClose(s)
  BY <1>2 DEF BeginClose, Books, LedgerBalanced, Open, Held, bookVars
<1>3. CASE CancelStop
  BY <1>3, BooksFrame DEF CancelStop, frameVars
<1>4. CASE ReduceOnlyClose
  <2>1. /\ pc = "close"
        /\ UNCHANGED <<bookVars, closed, todo, pkt, qty>>
        /\ \/ pc' = "record" /\ cur' = cur
           \/ pc' = "exits"
    BY <1>4, Zenon DEF ReduceOnlyClose, CloseFailed
  <2> QED
    BY <2>1 DEF Books, LedgerBalanced, Open, Held, bookVars
<1>5. CASE \E pnl \in PnlOutcomes : RecordExit(pnl)
  BY <1>5, BooksRecordExit
<1>6. CASE ExitsDone
  <2>1. /\ Held' = Open /\ closed' = {} /\ todo' = {}
        /\ UNCHANGED <<ledger, seeded, pkt>> /\ pc' = "entry"
    BY <1>6 DEF ExitsDone, Open, Held, NoPosition
  <2>2. Open' = Open
    BY <2>1 DEF Open
  <2> QED
    BY <2>1, <2>2 DEF Books, LedgerBalanced, Open
<1>7. CASE FlattenDone
  <2>1. closed = {} /\ closed' = {} /\ todo' = {} /\ pc' = "select"
        /\ UNCHANGED <<positions, seeded>>
    BY <1>7 DEF FlattenDone, BackToSelect, DropFrame, Books
  <2>2. ledger'.exits = ledger.exits /\ ledger'.entries = ledger.entries
    BY <1>7 DEF FlattenDone, IndInv, TypeOK, Ledger
  <2> QED
    BY <2>1, <2>2 DEF Books, LedgerBalanced, Open, Held
<1> QED
  BY <1>1, <1>2, <1>3, <1>4, <1>5, <1>6, <1>7 DEF CloseStep

LEMMA BooksEntryStep ==
  ASSUME IndInv, GateInv, Books, EntryStep PROVE Books'
<1> USE DEF ClosePlaces, Carrying, Entering
<1>0. closed = {}
  <2>1. pc \in {"entry"} \cup Carrying
    BY Zenon DEF EntryStep, SkipEntry, DecideEntry, FetchInstrument, PlaceEntry,
       PollFill, PlaceStop, PublishStopFailure, OpenPosition
  <2> QED
    BY <2>1 DEF Books
<1>1. \A q \in Nat : q > 0 => \A f \in Fills(q) : f > 0
  BY DEF Fills
<1>2. qty \in Nat
  BY DEF IndInv, TypeOK
<1>3. CASE OpenPosition
  <2>1. /\ Held = {} /\ qty > 0 /\ pkt.sym \in Symbols
        /\ positions \in [Symbols -> Position]
    BY <1>3 DEF OpenPosition, GateInv, Books, IndInv, TypeOK, FrameOK, TickPlaces
  <2>2. Held' = {pkt.sym}
    BY <1>3, <2>1 DEF OpenPosition, Held
  <2>3. closed' = {} /\ todo' = {} /\ pc' = "select" /\ seeded' = seeded
    BY <1>3 DEF OpenPosition, BackToSelect, DropFrame
  <2>4. ledger'.exits = ledger.exits /\ ledger'.entries = ledger.entries + 1
    BY <1>3 DEF OpenPosition, IndInv, TypeOK, Ledger
  <2>5. Held' \ closed' = {pkt.sym} /\ Held \ closed = {}
    BY <2>1, <2>2, <2>3
  <2>6. Cardinality(Held' \ closed') = 1 /\ Cardinality(Held \ closed) = 0
    BY <2>5, FS_EmptySet, FS_Singleton
  <2>7. ledger \in Ledger /\ seeded \in Nat
    BY DEF IndInv, TypeOK
  <2>8. LedgerBalanced'
    BY <2>3, <2>4, <2>6, <2>7 DEF Books, LedgerBalanced, Ledger
  <2> QED
    BY <2>2, <2>3, <2>8 DEF Books, Open
<1>4. CASE BackToSelect /\ UNCHANGED bookVars
  BY <1>0, <1>4, BooksIdle
<1>5. CASE /\ UNCHANGED <<bookVars, closed, todo, cur, pkt>>
           /\ pc' \in Carrying /\ qty' > 0
  BY <1>0, <1>5, BooksFrame
<1>6. CASE \E late \in BOOLEAN : DecideEntry(late)
  BY <1>4, <1>5, <1>6, ExecutorConstants DEF DecideEntry
<1>7. CASE FetchInstrument
  <2>1. pc \in Carrying /\ UNCHANGED bookVars
    BY <1>7 DEF FetchInstrument
  <2>2. \/ BackToSelect
        \/ pc' = "place" /\ UNCHANGED frameVars
    BY <1>7, Zenon DEF FetchInstrument
  <2> QED
    BY <1>4, <1>5, <2>1, <2>2 DEF frameVars, Books
<1>8. CASE PlaceEntry
  <2>1. pc \in Carrying /\ UNCHANGED bookVars
    BY <1>8 DEF PlaceEntry
  <2>2. \/ BackToSelect
        \/ /\ pc' = "poll" /\ qty' \in Fills(qty)
           /\ UNCHANGED <<pkt, todo, closed, cur>>
    BY <1>8, Zenon DEF PlaceEntry
  <2> QED
    BY <1>1, <1>2, <1>4, <1>5, <2>1, <2>2 DEF Books
<1>9. CASE PollFill
  <2>1. pc \in Carrying
    BY <1>9 DEF PollFill
  <2> QED
    BY <1>1, <1>2, <1>4, <1>5, <1>9, <2>1 DEF PollFill, Books
<1>10. CASE PlaceStop
  <2>1. /\ pc = "stop" /\ pc' \in {"open", "stopFailed"}
        /\ UNCHANGED <<bookVars, closed, todo, cur, pkt, qty>>
    BY <1>10, Zenon DEF PlaceStop
  <2> QED
    BY <1>5, <2>1 DEF Books
<1>11. CASE PublishStopFailure
  BY <1>5, <1>11 DEF PublishStopFailure, frameVars, Books
<1> QED
  BY <1>3, <1>4, <1>6, <1>7, <1>8, <1>9, <1>10, <1>11
  DEF EntryStep, SkipEntry

LEMMA BooksTimer ==
  ASSUME Books, TimerFires PROVE Books'
<1>1. pc = "select" /\ UNCHANGED bookVars
  BY Zenon DEF TimerFires
<1>2. closed = {}
  BY <1>1 DEF Books, ClosePlaces
<1>3. \/ BackToSelect
      \/ /\ todo' = Held /\ pc' = "flatten"
         /\ UNCHANGED <<closed, cur, qty>>
  BY Zenon DEF TimerFires
<1> QED
  BY <1>1, <1>2, <1>3, BooksIdle
  DEF Books, LedgerBalanced, Open, Held, bookVars, ClosePlaces, Carrying, Entering

LEMMA BooksStartup ==
  ASSUME IndInv, Books, Startup PROVE Books'
<1>1. /\ pc = "down" /\ pc' = "select"
      /\ Held = {} /\ closed = {} /\ todo = {} /\ seeded = 0
      /\ ledger = EmptyLedger
      /\ UNCHANGED <<ledger, closed, todo>>
  BY DEF Startup, Books, frameVars, ClosePlaces, Open
<1>2. Cardinality(Held') = seeded'
  <2>1. CASE UNCHANGED <<positions, seeded>>
    <3>1. Held' = {}
      BY <1>1, <2>1 DEF Held
    <3> QED
      BY <1>1, <2>1, <3>1, FS_EmptySet
  <2>2. CASE /\ positions' = [s \in Symbols |->
                  IF exPos[s] = 0 THEN NoPosition ELSE Adopted(exPos[s])]
             /\ seeded' = Cardinality({s \in Symbols : exPos[s] # 0})
    <3>1. \A n \in Int : n # 0 => Adopted(n).qty > 0
      BY DEF Adopted
    <3>2. exPos \in [Symbols -> Int]
      BY DEF IndInv, TypeOK
    <3>3. Held' = {s \in Symbols : exPos[s] # 0}
      BY <2>2, <3>1, <3>2 DEF Held, NoPosition
    <3> QED
      BY <2>2, <3>3
  <2> QED
    BY Zenon, <1>1, <2>1, <2>2 DEF Startup
<1>3. Open' = Held'
  BY <1>1 DEF Open
<1>4. seeded' \in Int
  BY StartupKeeps DEF IndInv, TypeOK
<1>5. LedgerBalanced'
  BY <1>1, <1>2, <1>3, <1>4 DEF LedgerBalanced, Open, EmptyLedger
<1> QED
  BY <1>1, <1>5 DEF Books, ClosePlaces, Carrying, Entering

LEMMA BooksStep == IndInv /\ GateInv /\ Books /\ [Next]_vars => Books'
<1> SUFFICES ASSUME IndInv, GateInv, Books, [Next]_vars PROVE Books'
  OBVIOUS
<1>1. CASE /\ UNCHANGED <<pc, pkt, todo, closed, cur, qty, bookVars>>
  BY <1>1 DEF bookVars, Books, LedgerBalanced, Open, Held
<1>2. UNCHANGED vars => UNCHANGED <<pc, pkt, todo, closed, cur, qty, bookVars>>
  BY DEF vars, frameVars
<1>3. Elapse \/ Background =>
        UNCHANGED <<pc, pkt, todo, closed, cur, qty, bookVars>>
  BY Zenon DEF Elapse, Background, DepthUpdate, FundingUpdate, StopTriggers,
     frameVars
<1>4. CASE Crash
  <2>1. Held' = {} /\ closed' = {} /\ todo' = {} /\ seeded' = 0
        /\ ledger' = EmptyLedger /\ pc' = "down"
    BY <1>4 DEF Crash, DropFrame, Held, NoPosition
  <2> QED
    BY <2>1, FS_EmptySet
    DEF Books, LedgerBalanced, Open, EmptyLedger, ClosePlaces, Carrying, Entering
<1>5. CASE Unanswered
  <2>1. pc' = "hung" /\ UNCHANGED <<pkt, todo, closed, cur, bookVars>>
    BY <1>5, Zenon DEF Unanswered, frameVars
  <2> QED
    BY <2>1, BooksFrame DEF ClosePlaces, Carrying, Entering
<1> QED
  BY <1>1, <1>2, <1>3, <1>4, <1>5, BooksMessage, BooksCloseStep, BooksEntryStep,
     BooksTimer, BooksStartup DEF Next

\* Every recorded entry and every adopted position is still tracked or has
\* exactly one recorded exit (main.rs:608-617, 760, 857-866), whatever requests
\* fail and wherever the process dies.
THEOREM BooksBalance == Spec => []LedgerBalanced
<1>1. Books => LedgerBalanced
  BY DEF Books
<1> QED
  BY <1>1, GateAlways, BooksInit, BooksStep, PTL DEF Spec
-----------------------------------------------------------------------------
(* The journal. *)

\* The inductive form of JournalComplete: the one line a flatten writes at its
\* end is missing once its loop, of at most one position, is through.
Journal ==
  seeded = 0 =>
    ledger.lines + (IF pc = "flatten" /\ todo = {} THEN 1 ELSE 0)
      = ledger.entries + ledger.exits

LEMMA JournalInit == Init => Journal
BY DEF Init, Journal, EmptyLedger

\* A step that leaves the ledger alone and is not the end of a flatten loop.
LEMMA JournalFrame ==
  ASSUME Journal, UNCHANGED <<ledger, seeded>>,
         pc # "flatten" \/ todo # {} \/ (pc' = pc /\ todo' = todo),
         pc' # "flatten" \/ todo' # {} \/ (pc' = pc /\ todo' = todo)
  PROVE  Journal'
BY DEF Journal

LEMMA JournalRecordExit ==
  ASSUME IndInv, Books, Alone, Journal,
         NEW pnl \in PnlOutcomes, RecordExit(pnl)
  PROVE  Journal'
<1>1. /\ seeded' = seeded /\ pc = "record" /\ todo' = todo
      /\ cur \in Open \ todo /\ todo \subseteq Open /\ ledger \in Ledger
  BY DEF RecordExit, Books, ClosePlaces, IndInv, TypeOK
<1>2. CASE seeded # 0
  BY <1>1, <1>2 DEF Journal
<1>3. CASE seeded = 0
  <2>1. todo = {}
    BY <1>1, <1>3 DEF Alone, Open
  <2>2. ledger.lines = ledger.entries + ledger.exits
    BY <1>1, <1>3 DEF Journal, Ledger
  <2>3. CASE InTick
    <3>1. /\ pc' = "exits"
          /\ ledger' = [ledger EXCEPT !.realized = @ + pnl, !.exits = @ + 1,
                                      !.lines = @ + 1]
      BY <2>3 DEF RecordExit
    <3>2. /\ ledger'.lines = ledger.lines + 1
          /\ ledger'.entries = ledger.entries /\ ledger'.exits = ledger.exits + 1
      BY <1>1, <3>1 DEF Ledger
    <3> QED
      BY <1>1, <2>2, <3>1, <3>2 DEF Journal, Ledger
  <2>4. CASE ~InTick
    <3>1. /\ pc' = "flatten"
          /\ ledger' = [ledger EXCEPT !.realized = @ + pnl, !.exits = @ + 1]
      BY <2>4 DEF RecordExit
    <3>2. /\ ledger'.lines = ledger.lines
          /\ ledger'.entries = ledger.entries /\ ledger'.exits = ledger.exits + 1
      BY <1>1, <3>1 DEF Ledger
    <3> QED
      BY <1>1, <2>1, <2>2, <3>1, <3>2 DEF Journal, Ledger
  <2> QED
    BY <2>3, <2>4
<1> QED
  BY <1>2, <1>3

LEMMA JournalStep ==
  IndInv /\ Books /\ Alone /\ Journal /\ [Next]_vars => Journal'
<1> SUFFICES ASSUME IndInv, Books, Alone, Journal, [Next]_vars PROVE Journal'
  OBVIOUS
<1>1. CASE UNCHANGED vars \/ Elapse \/ Background
  <2>1. UNCHANGED <<pc, todo, ledger, seeded>>
    BY <1>1, Zenon DEF vars, Elapse, Background, DepthUpdate, FundingUpdate,
       StopTriggers, frameVars, bookVars
  <2> QED
    BY <2>1, JournalFrame
<1>2. CASE RecvMessage
  <2>1. pc = "select" /\ pc' # "flatten" /\ UNCHANGED <<ledger, seeded>>
    BY <1>2, Zenon DEF RecvMessage, RecvIgnored, RecvHaltEntries,
       RecvResumeEntries, RecvFlattenAll, RecvHeartbeat, RecvTick, BackToSelect,
       bookVars
  <2> QED
    BY <2>1, JournalFrame
<1>3. CASE TimerFires
  <2>1. /\ pc = "select" /\ UNCHANGED <<ledger, seeded>>
        /\ \/ pc' = "select"
           \/ pc' = "flatten" /\ todo' = Held /\ Held # {}
    BY <1>3, Zenon DEF TimerFires, BackToSelect, bookVars
  <2> QED
    BY <2>1, JournalFrame
<1>4. CASE CloseStep
  <2>1. CASE \E s \in Symbols : KeepPosition(s)
    BY <2>1, JournalFrame DEF KeepPosition, bookVars
  <2>2. CASE \E s \in Symbols : BeginClose(s)
    BY <2>2, JournalFrame DEF BeginClose, bookVars
  <2>3. CASE CancelStop
    BY <2>3, JournalFrame DEF CancelStop, bookVars
  <2>4. CASE ReduceOnlyClose
    <3>1. pc = "close" /\ pc' # "flatten" /\ UNCHANGED <<ledger, seeded>>
      BY <2>4, Zenon DEF ReduceOnlyClose, CloseFailed, bookVars
    <3> QED
      BY <3>1, JournalFrame
  <2>5. CASE \E pnl \in PnlOutcomes : RecordExit(pnl)
    BY <2>5, JournalRecordExit
  <2>6. CASE ExitsDone
    BY <2>6, JournalFrame DEF ExitsDone
  <2>7. CASE FlattenDone
    BY <2>7 DEF FlattenDone, BackToSelect, Journal, IndInv, TypeOK, Ledger
  <2> QED
    BY <1>4, <2>1, <2>2, <2>3, <2>4, <2>5, <2>6, <2>7 DEF CloseStep
<1>5. CASE EntryStep
  <2>1. CASE OpenPosition
    BY <2>1 DEF OpenPosition, BackToSelect, Journal, IndInv, TypeOK, Ledger
  <2>2. CASE ~OpenPosition
    <3>1. pc # "flatten" /\ pc' # "flatten" /\ UNCHANGED <<ledger, seeded>>
      BY <1>5, <2>2, Zenon DEF EntryStep, SkipEntry, DecideEntry,
         FetchInstrument, PlaceEntry, PollFill, PlaceStop, PublishStopFailure,
         BackToSelect, bookVars
    <3> QED
      BY <3>1, JournalFrame
  <2> QED
    BY <2>1, <2>2
<1>6. CASE Crash
  BY <1>6 DEF Crash, Journal, EmptyLedger
<1>7. CASE Startup
  BY <1>7 DEF Startup, Books, Journal, EmptyLedger
<1>8. CASE Unanswered
  <2>1. pc # "flatten" /\ pc' = "hung" /\ UNCHANGED <<ledger, seeded>>
    BY <1>8 DEF Unanswered, Awaiting, bookVars
  <2> QED
    BY <2>1, JournalFrame
<1> QED
  BY <1>1, <1>2, <1>3, <1>4, <1>5, <1>6, <1>7, <1>8 DEF Next

\* Between handlers the jsonl file has one line per fill of a process that
\* adopted nothing (main.rs:618, 761, 869), although a flatten writes only one:
\* it has one position to close.
THEOREM JournalHasEveryFill == Spec => []JournalComplete
<1>1. IndInv /\ Journal => JournalComplete
  BY DEF IndInv, TypeOK, Ledger, Journal, JournalComplete
<1> QED
  BY <1>1, GateAlways, BooksInit, BooksStep, AloneInit, AloneStep, JournalInit,
     JournalStep, PTL DEF Spec
-----------------------------------------------------------------------------
(* The end of a handler. *)

\* The loop's list only shrinks within a handler.
LEMMA StepsCount ==
  ASSUME IndInv
  PROVE  /\ StepsLeft \in Nat /\ Cardinality(todo) \in Nat
         /\ \A s \in todo : Cardinality(todo \ {s}) = Cardinality(todo) - 1
<1>1. todo \in SUBSET Symbols
  BY DEF IndInv, TypeOK
<1>2. Cardinality(todo) \in Nat
  BY <1>1, SymbolsCount
<1>3. Weight(pc) \in Nat
  BY DEF Weight
<1> QED
  BY <1>1, <1>2, <1>3, SymbolsCount DEF StepsLeft

\* A step that leaves the loop's list alone.
LEMMA LighterPlace ==
  ASSUME IndInv, todo' = todo, Weight(pc') < Weight(pc)
  PROVE  StepsLeft' < StepsLeft
<1>1. Weight(pc) \in Nat /\ Weight(pc') \in Nat
  BY DEF Weight
<1> QED
  BY <1>1, StepsCount DEF StepsLeft

\* A step that ends a handler.
LEMMA BackIsLess ==
  ASSUME IndInv, todo' = {}, pc' \in {"select", "down"}, pc \notin {"select", "down"}
  PROVE  StepsLeft' < StepsLeft
<1>1. Weight(pc) \in Nat /\ Weight(pc) > 0
  BY DEF IndInv, TypeOK, Awaiting, Weight
<1>2. Weight(pc') = 0 /\ Cardinality(todo') = 0
  BY FS_EmptySet DEF Weight
<1> QED
  BY <1>1, <1>2, StepsCount DEF StepsLeft

\* A handler, of whichever tick or flatten and with whatever answers, takes at
\* most 8 + 4 * n steps of its own for n tracked positions: each leaves it less
\* to do (main.rs:579-870).
THEOREM HandlerTakesBoundedSteps == Spec => HandlerShrinks
<1>1. ASSUME IndInv, [Next]_vars, pc \notin {"down", "select"},
             pc' # pc \/ todo' # todo
      PROVE  StepsLeft' < StepsLeft
  <2> USE <1>1
  <2>1. ~UNCHANGED vars /\ ~Elapse /\ ~Background
    BY Zenon DEF vars, Elapse, Background, DepthUpdate, FundingUpdate,
       StopTriggers, frameVars
  <2>2. ~RecvMessage /\ ~TimerFires /\ ~Startup
    BY Zenon DEF RecvMessage, RecvIgnored, RecvHaltEntries, RecvResumeEntries,
       RecvFlattenAll, RecvHeartbeat, RecvTick, TimerFires, Startup
  <2>3. CASE Crash
    BY <2>3, BackIsLess DEF Crash, DropFrame
  <2>4. CASE \E s \in Symbols : KeepPosition(s)
    BY <2>4, StepsCount DEF KeepPosition, StepsLeft, Weight
  <2>5. CASE \E s \in Symbols : BeginClose(s)
    BY <2>5, StepsCount DEF BeginClose, StepsLeft, Weight
  <2>6. CASE \/ CancelStop \/ ReduceOnlyClose \/ ExitsDone
             \/ \E pnl \in PnlOutcomes : RecordExit(pnl)
    <3>1. /\ todo' = todo
          /\ \/ pc = "cancel" /\ pc' = "close"
             \/ pc = "close" /\ pc' \in {"record", "exits"}
             \/ pc = "record" /\ pc' \in {"exits", "flatten"}
             \/ pc = "exits" /\ pc' = "entry"
      BY <2>6, Zenon DEF CancelStop, ReduceOnlyClose, CloseFailed, ExitsDone,
         RecordExit, frameVars
    <3>2. Weight(pc') < Weight(pc)
      BY <3>1 DEF Weight
    <3> QED
      BY <3>1, <3>2, LighterPlace
  <2>7. CASE FlattenDone
    BY <2>7, BackIsLess DEF FlattenDone, BackToSelect, DropFrame
  <2>8. CASE EntryStep
    <3>1. \/ pc' = "select" /\ todo' = {}
          \/ /\ todo' = todo
             /\ \/ pc = "entry" /\ pc' \in {"instrument", "open"}
                \/ pc = "instrument" /\ pc' = "place"
                \/ pc = "place" /\ pc' = "poll"
                \/ pc = "poll" /\ pc' = "stop"
                \/ pc = "stop" /\ pc' \in {"stopFailed", "open"}
                \/ pc = "stopFailed" /\ pc' = "open"
      BY <2>8, Zenon DEF EntryStep, SkipEntry, DecideEntry, FetchInstrument,
         PlaceEntry, PollFill, PlaceStop, PublishStopFailure, OpenPosition,
         BackToSelect, DropFrame, frameVars
    <3>2. CASE pc' = "select" /\ todo' = {}
      BY <3>2, BackIsLess
    <3>3. CASE todo' = todo /\ pc' # "select"
      <4>1. Weight(pc') < Weight(pc)
        BY <3>1, <3>3 DEF Weight
      <4> QED
        BY <3>3, <4>1, LighterPlace
    <3> QED
      BY <3>1, <3>2, <3>3
  <2>9. CASE Unanswered
    <3>1. todo' = todo /\ pc \in Awaiting /\ pc' = "hung"
      BY <2>9, Zenon DEF Unanswered, frameVars
    <3>2. Weight(pc') < Weight(pc)
      BY <3>1 DEF Weight, Awaiting
    <3> QED
      BY <3>1, <3>2, LighterPlace
  <2> QED
    BY <2>1, <2>2, <2>3, <2>4, <2>5, <2>6, <2>7, <2>8, <2>9 DEF Next, CloseStep
<1>2. IndInv /\ [Next]_vars =>
        [pc \notin {"down", "select"} /\ (pc' # pc \/ todo' # todo)
           => StepsLeft' < StepsLeft]_vars
  BY <1>1
<1> QED
  BY <1>2, GateAlways, PTL DEF Spec, HandlerShrinks
-----------------------------------------------------------------------------
(* The exchange.  Orders go out, and the exchange answers each of them: none  *)
(* is refused or lost, and fills are complete.  A resting stop may fire at    *)
(* any time, also while the process is down, and crashes and restarts stay    *)
(* possible at every step.                                                    *)

Answering == LiveOrders /\ Faults \subseteq {"trigger"}

\* Then no request stays without an answer.
LEMMA AllAnswered ==
  ASSUME Answering PROVE ~Unanswered
BY DEF Answering, Unanswered

\* A filled entry order that the positions map does not yet hold.
InFlight == [dir |-> pkt.dir, qty |-> qty, stop |-> stopId]

\* What the exchange should hold of symbol s.
Expected(s) ==
  IF pc \in {"poll", "stop", "open"} /\ s = pkt.sym THEN Signed(InFlight)
  ELSE IF s \in closed \/ (pc = "record" /\ s = cur) THEN 0
  ELSE Signed(positions[s])

\* The exchange holds m, or a stop has closed it.
Holds(n, m) == n = m \/ (n = 0 /\ "trigger" \in Faults)

\* The inductive form of PositionsAgree and OneExposure, which lean on each
\* other: a restart adopts what the exchange holds, so that the map has one
\* position only if the exchange has.
Agree ==
  /\ pc # "stopFailed"
  /\ pc # "down" => \A s \in Symbols : Holds(exPos[s], Expected(s))
  /\ pc = "down" /\ crashes = 0 => \A s \in Symbols : exPos[s] = 0
  /\ \A s, t \in Symbols : exPos[s] # 0 /\ exPos[t] # 0 => s = t
  /\ \A s, t \in Held : s = t

\* Everything that is bought, sold or guarded is one lot, so that a stop, also
\* one that outlived its position, closes all of a position or nothing.
Lots ==
  /\ pc \in Carrying => qty = Lot
  /\ \A st \in exStops : st.qty = Lot
  /\ \A s \in Symbols : exPos[s] \in {-Lot, 0, Lot}

LEMMA AgreeInit == Init => Agree /\ Lots
BY DEF Init, Agree, Lots, Carrying, Entering, Held, NoPosition

\* A step that leaves the positions of both sides alone, and moves between
\* places where neither an entry nor an exit waits to be booked.
LEMMA AgreeFrame ==
  ASSUME Agree, UNCHANGED <<positions, exPos, closed>>, pc # "down",
         pc \notin {"poll", "stop", "open", "record"},
         pc' \notin {"poll", "stop", "open", "record", "down", "stopFailed"}
  PROVE  Agree'
<1>1. Held' = Held /\ \A s \in Symbols : Expected(s)' = Expected(s)
  BY DEF Held, Expected
<1> QED
  BY <1>1 DEF Agree, Holds

\* With answers only, an order is filled whole.
LEMMA WholeFill ==
  ASSUME Answering, NEW q PROVE Fills(q) = {q}
BY DEF Answering, Fills

\* The reduce-only order takes away all of the position, or its stop has done so
\* before: then the order is rejected, and the tick handler keeps the position.
LEMMA AgreeClose ==
  ASSUME Answering, IndInv, Books, Agree, ReduceOnlyClose
  PROVE  /\ Agree'
         /\ exPos' = [exPos EXCEPT ![cur] = 0]
         /\ (pc' = "record" /\ cur' = cur) \/ pc' = "exits"
<1> DEFINE p == positions[cur]
<1>1. /\ pc = "close" /\ cur \in Symbols \ closed
      /\ p.dir \in Dir /\ p.qty \in Nat /\ p.qty > 0
      /\ exPos \in [Symbols -> Int]
      /\ UNCHANGED <<closed, positions, pkt, qty>>
  BY DEF ReduceOnlyClose, Books, ClosePlaces, Open, Held, IndInv, TypeOK, Position,
     bookVars
<1>2. Holds(exPos[cur], Signed(p))
  BY <1>1 DEF Agree, Expected
<1>3. CASE exPos[cur] = Signed(p)
  <2>1. Reducible(cur, p.dir, p.qty) = p.qty
    BY <1>1, <1>3 DEF Reducible, Signed, Dir
  <2>2. Executed(cur, -p.dir, p.qty) /\ pc' = "record" /\ UNCHANGED cur
    <3>1. /\ \E f \in Fills(p.qty) : Executed(cur, -p.dir, f)
          /\ pc' = "record" /\ UNCHANGED cur
      BY <1>1, <2>1 DEF ReduceOnlyClose, Answering
    <3> QED
      BY <3>1, WholeFill
  <2>3. exPos' = [exPos EXCEPT ![cur] = 0]
    <3>1. (IF -p.dir = 1 THEN exPos[cur] + p.qty ELSE exPos[cur] - p.qty) = 0
      BY <1>1, <1>3 DEF Signed, Dir
    <3> QED
      BY <2>2, <3>1, Zenon DEF Executed
  <2>4. \A s \in Symbols : s # cur => Expected(s) = Expected(s)'
    BY <1>1, <2>2 DEF Expected
  <2>5. Expected(cur)' = 0
    BY <2>2 DEF Expected
  <2>6. Held' = Held
    BY <1>1 DEF Held
  <2> QED
    BY <1>1, <2>2, <2>3, <2>4, <2>5, <2>6 DEF Agree, Holds
<1>4. CASE exPos[cur] = 0 /\ "trigger" \in Faults
  <2>1. Reducible(cur, p.dir, p.qty) = 0
    BY <1>4 DEF Reducible
  <2>2. exPos' = exPos /\ CloseFailed
    BY <1>1, <2>1 DEF ReduceOnlyClose
  <2>3. exPos' = [exPos EXCEPT ![cur] = 0]
    BY <1>1, <1>4, <2>2
  <2>4. (pc' = "record" /\ cur' = cur) \/ pc' = "exits"
    BY <2>2 DEF CloseFailed
  <2>5. \A s \in Symbols : s # cur => Expected(s) = Expected(s)'
    BY <1>1, <2>4 DEF Expected
  <2>6. Held' = Held
    BY <1>1 DEF Held
  <2>7. \A s \in Symbols : Holds(exPos[s], Expected(s))'
    BY <1>1, <1>4, <2>2, <2>5 DEF Agree, Holds
  <2> QED
    BY <2>2, <2>3, <2>4, <2>6, <2>7 DEF Agree
<1> QED
  BY <1>2, <1>3, <1>4 DEF Holds

\* Booking the exit: the position no longer counts.
LEMMA AgreeRecord ==
  ASSUME IndInv, Books, Agree, NEW pnl \in PnlOutcomes, RecordExit(pnl)
  PROVE  Agree'
<1>1. /\ pc = "record" /\ cur \in Symbols /\ exPos' = exPos
      /\ pc' \in {"exits", "flatten"}
      /\ positions \in [Symbols -> Position]
  BY DEF RecordExit, exVars, IndInv, TypeOK, FrameOK, ClosePlaces
<1>2. \A s \in Symbols : Expected(s)' = Expected(s)
  <2>1. CASE InTick
    BY <1>1, <2>1 DEF RecordExit, Expected
  <2>2. CASE ~InTick
    <3>1. closed = {} /\ closed' = {}
      BY <2>2 DEF InTick, Books, RecordExit
    <3>2. positions' = [positions EXCEPT ![cur] = NoPosition]
      BY <2>2 DEF RecordExit
    <3> QED
      BY <1>1, <3>1, <3>2 DEF Expected, Signed, NoPosition
  <2> QED
    BY <2>1, <2>2
<1>3. Held' \subseteq Held
  <2>1. positions' = positions \/ positions' = [positions EXCEPT ![cur] = NoPosition]
    BY DEF RecordExit
  <2> QED
    BY <1>1, <2>1 DEF Held, NoPosition
<1> QED
  BY <1>1, <1>2, <1>3 DEF Agree, Holds

LEMMA AgreeCloseStep ==
  ASSUME Answering, IndInv, Books, Agree, CloseStep PROVE Agree'
<1>1. CASE \E s \in Symbols : KeepPosition(s)
  BY <1>1, AgreeFrame DEF KeepPosition, bookVars, exVars
<1>2. CASE \E s \in Symbols : BeginClose(s)
  BY <1>2, AgreeFrame DEF BeginClose, Answering, bookVars, exVars
<1>3. CASE CancelStop
  BY <1>3, AgreeFrame DEF CancelStop, frameVars, bookVars
<1>4. CASE ReduceOnlyClose
  BY <1>4, AgreeClose
<1>5. CASE \E pnl \in PnlOutcomes : RecordExit(pnl)
  BY <1>5, AgreeRecord
<1>6. CASE ExitsDone
  <2>1. /\ pc = "exits" /\ pc' = "entry" /\ exPos' = exPos /\ closed' = {}
        /\ positions' = [s \in Symbols |->
                           IF s \in closed THEN NoPosition ELSE positions[s]]
    BY <1>6 DEF ExitsDone, exVars
  <2>2. \A s \in Symbols : Expected(s)' = Expected(s)
    BY <2>1 DEF Expected, Signed, NoPosition
  <2>3. Held' \subseteq Held
    BY <2>1 DEF Held, NoPosition
  <2> QED
    BY <2>1, <2>2, <2>3 DEF Agree, Holds
<1>7. CASE FlattenDone
  <2>1. closed = {} /\ closed' = {}
    BY <1>7 DEF FlattenDone, BackToSelect, DropFrame, Books, ClosePlaces
  <2> QED
    BY <1>7, <2>1, AgreeFrame DEF FlattenDone, BackToSelect, exVars
<1> QED
  BY <1>1, <1>2, <1>3, <1>4, <1>5, <1>6, <1>7 DEF CloseStep

\* Where an entry is carried out nothing is held, so that the exchange holds
\* nothing but the fill of that entry.
LEMMA BareExchange ==
  ASSUME IndInv, GateInv, Books, Agree, pc \in Carrying
  PROVE  /\ closed = {} /\ Held = {}
         /\ \A s \in Symbols : Signed(positions[s]) = 0
         /\ pc \in {"instrument", "place"} => \A s \in Symbols : exPos[s] = 0
<1>1. Held = {} /\ closed = {}
  BY DEF GateInv, Carrying, Entering, Books, ClosePlaces
<1>2. positions \in [Symbols -> Position]
  BY DEF IndInv, TypeOK
<1>3. \A s \in Symbols : Signed(positions[s]) = 0
  BY <1>1, <1>2 DEF Held, Signed, Position
<1> QED
  BY <1>1, <1>3 DEF Agree, Expected, Holds

LEMMA AgreePlace ==
  ASSUME Answering, IndInv, GateInv, Books, Agree, PlaceEntry PROVE Agree'
<1>1. /\ pc = "place" /\ pkt.sym \in Symbols /\ pkt.dir \in Dir /\ qty \in Nat
      /\ exPos \in [Symbols -> Int]
  BY DEF PlaceEntry, IndInv, TypeOK, FrameOK, TickPlaces, Entering, Packet
<1>2. /\ closed = {} /\ Held = {}
      /\ \A s \in Symbols : Signed(positions[s]) = 0 /\ exPos[s] = 0
  BY <1>1, BareExchange DEF Carrying, Entering
<1>3. /\ Executed(pkt.sym, pkt.dir, qty)
      /\ pc' = "poll" /\ qty' = qty
      /\ UNCHANGED <<pkt, closed, cur, positions>>
  BY WholeFill DEF PlaceEntry, Answering, bookVars
<1>4. /\ exPos'[pkt.sym] = Signed(InFlight)'
      /\ \A s \in Symbols : s # pkt.sym => exPos'[s] = 0
  BY <1>1, <1>2, <1>3 DEF Executed, InFlight, Signed, Dir
<1>5. \A s \in Symbols : s # pkt.sym => Expected(s)' = 0
  BY <1>2, <1>3 DEF Expected, Signed
<1>6. Expected(pkt.sym)' = Signed(InFlight)'
  BY <1>3 DEF Expected
<1>7. Held' = {}
  BY <1>2, <1>3 DEF Held
<1>8. ASSUME NEW s \in Symbols PROVE exPos'[s] = Expected(s)'
  <2>1. CASE s = pkt.sym
    BY <1>3, <1>4, <2>1 DEF Expected
  <2>2. CASE s # pkt.sym
    BY <1>4, <1>5, <2>2
  <2> QED
    BY <2>1, <2>2
<1> QED
  BY <1>3, <1>4, <1>7, <1>8 DEF Agree, Holds

\* The entry moves on, or into the positions map, with what was filled.
LEMMA AgreeEntryStep ==
  ASSUME Answering, IndInv, GateInv, Books, Agree, EntryStep PROVE Agree'
<1> USE DEF Carrying, Entering
<1>1. CASE SkipEntry
  <2>1. closed = {} /\ closed' = {}
    BY <1>1 DEF SkipEntry, BackToSelect, DropFrame, Books, ClosePlaces
  <2> QED
    BY <1>1, <2>1, AgreeFrame DEF SkipEntry, BackToSelect, bookVars, exVars
<1>2. CASE \E late \in BOOLEAN : DecideEntry(late)
  <2>1. /\ pc = "entry" /\ UNCHANGED <<positions, exPos>>
        /\ \/ BackToSelect
           \/ pc' = "instrument" /\ closed' = closed
    BY <1>2 DEF DecideEntry, Answering, bookVars, exVars
  <2>2. closed = {} /\ (BackToSelect => closed' = {} /\ pc' = "select")
    BY <2>1 DEF Books, ClosePlaces, BackToSelect, DropFrame
  <2> QED
    BY <2>1, <2>2, AgreeFrame
<1>3. CASE FetchInstrument
  <2>1. /\ pc = "instrument" /\ UNCHANGED <<positions, exPos>>
        /\ \/ BackToSelect
           \/ pc' = "place" /\ closed' = closed
    BY <1>3, Zenon DEF FetchInstrument, frameVars, bookVars, exVars
  <2>2. closed = {} /\ (BackToSelect => closed' = {} /\ pc' = "select")
    BY <2>1 DEF Books, ClosePlaces, BackToSelect, DropFrame
  <2> QED
    BY <2>1, <2>2, AgreeFrame
<1>4. CASE PlaceEntry
  BY <1>4, AgreePlace
<1>5. CASE PollFill
  <2>1. /\ pc = "poll" /\ pc' = "stop" /\ qty' = qty
        /\ UNCHANGED <<pkt, closed, cur, positions, exPos>>
    BY <1>5, WholeFill DEF PollFill, Answering, bookVars, exVars
  <2> QED
    BY <2>1 DEF Agree, Expected, InFlight, Signed, Holds, Held
<1>6. CASE PlaceStop
  <2>1. /\ pc = "stop" /\ pc' = "open"
        /\ stopId' = stopOrders + 1
        /\ UNCHANGED <<pkt, closed, cur, qty, positions, exPos>>
    BY <1>6 DEF PlaceStop, Answering, bookVars
  <2> QED
    BY <2>1 DEF Agree, Expected, InFlight, Signed, Holds, Held
<1>7. CASE PublishStopFailure
  BY <1>7 DEF PublishStopFailure, Agree
<1>8. CASE OpenPosition
  <2>1. /\ pc = "open" /\ pc' = "select" /\ closed' = {} /\ exPos' = exPos
        /\ positions' = [positions EXCEPT ![pkt.sym] = InFlight]
    BY <1>8 DEF OpenPosition, BackToSelect, DropFrame, InFlight, exVars
  <2>2. closed = {} /\ pkt.sym \in Symbols /\ positions \in [Symbols -> Position]
    BY <2>1 DEF Books, ClosePlaces, IndInv, TypeOK, FrameOK, TickPlaces
  <2>3. \A s \in Symbols : Expected(s)' = Expected(s)
    BY <2>1, <2>2 DEF Expected, Signed
  <2>4. Held' \subseteq {pkt.sym}
    BY <2>1, <2>2, BareExchange DEF Held
  <2> QED
    BY <2>1, <2>3, <2>4 DEF Agree, Holds
<1> QED
  BY <1>1, <1>2, <1>3, <1>4, <1>5, <1>6, <1>7, <1>8 DEF EntryStep

\* A new process takes over what it finds, side and size.
LEMMA AgreeStartup ==
  ASSUME Answering, IndInv, Books, Agree, Startup PROVE Agree'
<1>1. /\ pc' = "select" /\ UNCHANGED <<exPos, closed>>
      /\ closed = {} /\ exPos \in [Symbols -> Int]
      /\ positions' = [s \in Symbols |->
             IF exPos[s] = 0 THEN NoPosition ELSE Adopted(exPos[s])]
  BY DEF Startup, Answering, frameVars, exVars, Books, ClosePlaces, IndInv, TypeOK
<1>2. \A n \in Int : n # 0 => Signed(Adopted(n)) = n
  BY DEF Signed, Adopted
<1>3. \A s \in Symbols : Expected(s)' = Signed(positions'[s])
  BY <1>1 DEF Expected, Signed
<1>4. \A s \in Symbols : Signed(positions'[s]) = exPos'[s]
  BY <1>1, <1>2 DEF Signed, NoPosition
<1>5. \A s \in Held' : exPos[s] # 0
  BY <1>1 DEF Held, NoPosition
<1>6. Held' \subseteq Symbols
  BY DEF Held
<1>7. \A s \in Symbols : exPos'[s] = Expected(s)'
  BY <1>3, <1>4
<1> QED
  BY <1>1, <1>5, <1>6, <1>7 DEF Agree, Holds

\* A stop that fires closes the position on its side, whole.
LEMMA StopTakesAll ==
  ASSUME IndInv, Lots, NEW st \in exStops, StopTriggers(st)
  PROVE  /\ "trigger" \in Faults
         /\ exPos' = exPos \/ exPos' = [exPos EXCEPT ![st.sym] = 0]
         /\ exPos[st.sym] = Signed(st) => exPos'[st.sym] = 0
         /\ UNCHANGED <<pc, frameVars, bookVars, crashes>>
         /\ exStops' = exStops \ {st}
<1>1. /\ st.sym \in Symbols /\ st.dir \in Dir /\ st.qty = Lot
      /\ exPos \in [Symbols -> Int] /\ exPos[st.sym] \in {-Lot, 0, Lot}
      /\ Lot \in Nat /\ Lot > 0
  BY ExecutorConstants DEF IndInv, TypeOK, StopOrder, Lots
<1>2. Executed(st.sym, -st.dir, Reducible(st.sym, st.dir, st.qty))
  BY DEF StopTriggers
<1>3. CASE exPos[st.sym] = Signed(st)
  <2>1. Reducible(st.sym, st.dir, st.qty) = Lot
    BY <1>1, <1>3 DEF Reducible, Signed, Dir
  <2>2. exPos' = [exPos EXCEPT ![st.sym] = 0]
    <3>1. (IF -st.dir = 1 THEN exPos[st.sym] + Lot ELSE exPos[st.sym] - Lot) = 0
      BY <1>1, <1>3 DEF Signed, Dir
    <3> QED
      BY <1>2, <2>1, <3>1, Zenon DEF Executed
  <2> QED
    BY <1>1, <2>2, Zenon DEF StopTriggers
<1>4. CASE exPos[st.sym] # Signed(st)
  <2>1. Reducible(st.sym, st.dir, st.qty) = 0
    BY <1>1, <1>4 DEF Reducible, Signed, Dir
  <2>2. exPos' = exPos
    BY <1>1, <1>2, <2>1 DEF Executed
  <2> QED
    BY <1>4, <2>2, Zenon DEF StopTriggers
<1> QED
  BY <1>3, <1>4

LEMMA AgreeTriggers ==
  ASSUME IndInv, Agree, Lots, NEW st \in exStops, StopTriggers(st) PROVE Agree'
<1>1. /\ "trigger" \in Faults /\ exPos \in [Symbols -> Int]
      /\ \A s \in Symbols : exPos'[s] = exPos[s] \/ exPos'[s] = 0
      /\ UNCHANGED <<pc, pkt, qty, stopId, cur, closed, positions, crashes>>
  BY StopTakesAll DEF IndInv, TypeOK, frameVars, bookVars
<1>2. Held' = Held /\ \A s \in Symbols : Expected(s)' = Expected(s)
  BY <1>1 DEF Held, Expected, InFlight, Signed
<1> QED
  BY <1>1, <1>2 DEF Agree, Holds

LEMMA AgreeStep ==
  ASSUME Answering
  PROVE  IndInv /\ GateInv /\ Books /\ Agree /\ Lots /\ [Next]_vars => Agree'
<1> SUFFICES ASSUME IndInv, GateInv, Books, Agree, Lots, [Next]_vars PROVE Agree'
  OBVIOUS
<1>1. CASE \/ UNCHANGED vars \/ Elapse
           \/ \E d \in BookDepths : DepthUpdate(d)
           \/ \E r \in FundingRates : FundingUpdate(r)
  <2>1. UNCHANGED <<pc, pkt, qty, stopId, cur, closed, positions, exPos, crashes>>
    BY <1>1, Zenon DEF vars, Elapse, DepthUpdate, FundingUpdate, frameVars, bookVars,
       exVars
  <2> QED
    BY <2>1 DEF Agree, Expected, InFlight, Signed, Held, Holds
<1>2. CASE RecvMessage \/ TimerFires
  <2>1. /\ pc = "select" /\ UNCHANGED <<positions, exPos>>
        /\ \/ BackToSelect
           \/ pc' \in {"exits", "flatten"} /\ closed' = closed
    BY <1>2, Zenon DEF RecvMessage, RecvIgnored, RecvHaltEntries,
       RecvResumeEntries, RecvFlattenAll, RecvHeartbeat, RecvTick, TimerFires,
       bookVars, exVars
  <2>2. closed = {} /\ (BackToSelect => closed' = {} /\ pc' = "select")
    BY <2>1 DEF Books, ClosePlaces, BackToSelect, DropFrame
  <2> QED
    BY <2>1, <2>2, AgreeFrame
<1>3. CASE Crash
  <2>1. /\ pc' = "down" /\ crashes' # 0 /\ exPos' = exPos
    BY <1>3 DEF Crash, exVars, IndInv, TypeOK
  <2>2. Held' = {}
    BY <1>3 DEF Crash, Held, NoPosition
  <2> QED
    BY <2>1, <2>2 DEF Agree
<1> QED
  BY <1>1, <1>2, <1>3, AllAnswered, AgreeCloseStep, AgreeEntryStep, AgreeStartup,
     AgreeTriggers DEF Next, Background

LEMMA LotsStep ==
  ASSUME Answering
  PROVE  IndInv /\ GateInv /\ Books /\ Agree /\ Lots /\ [Next]_vars => Lots'
<1> SUFFICES ASSUME IndInv, GateInv, Books, Agree, Lots, [Next]_vars PROVE Lots'
  OBVIOUS
<1> USE DEF Carrying, Entering
<1>0. exPos \in [Symbols -> Int]
  BY DEF IndInv, TypeOK
<1>1. CASE UNCHANGED <<exPos, exStops>> /\ (pc' \in Carrying => qty' = Lot)
  BY <1>1 DEF Lots
<1>2. CASE \/ UNCHANGED vars \/ Elapse
           \/ \E d \in BookDepths : DepthUpdate(d)
           \/ \E r \in FundingRates : FundingUpdate(r)
  <2>1. UNCHANGED <<pc, qty, exPos, exStops>>
    BY <1>2, Zenon DEF vars, Elapse, DepthUpdate, FundingUpdate, frameVars, exVars
  <2> QED
    BY <2>1 DEF Lots
<1>3. CASE \E st \in exStops : StopTriggers(st)
  BY <1>0, <1>3, StopTakesAll DEF Lots, frameVars
<1>4. CASE RecvMessage \/ TimerFires \/ Crash \/ Startup
  <2>1. UNCHANGED <<exPos, exStops>> /\ pc' \in {"select", "exits", "flatten", "down"}
    BY <1>4, Zenon DEF RecvMessage, RecvIgnored, RecvHaltEntries,
       RecvResumeEntries, RecvFlattenAll, RecvHeartbeat, RecvTick, TimerFires,
       BackToSelect, Crash, Startup, exVars
  <2> QED
    BY <1>1, <2>1
<1>5. CASE CancelStop
  BY <1>5 DEF CancelStop, Lots
<1>6. CASE ReduceOnlyClose
  BY <1>0, <1>6, AgreeClose DEF ReduceOnlyClose, Lots
<1>7. CASE CloseStep /\ ~CancelStop /\ ~ReduceOnlyClose
  <2>1. /\ UNCHANGED <<exPos, exStops>>
        /\ pc' \in {"exits", "cancel", "record", "flatten", "entry", "select"}
    BY <1>7, Zenon DEF CloseStep, KeepPosition, BeginClose, RecordExit, ExitsDone,
       FlattenDone, BackToSelect, exVars
  <2> QED
    BY <1>1, <2>1
<1>8. CASE PlaceEntry
  <2>1. /\ pc = "place" /\ pkt.sym \in Symbols /\ qty = Lot
        /\ Executed(pkt.sym, pkt.dir, Lot) /\ qty' = Lot /\ exStops' = exStops
    BY <1>8, WholeFill DEF PlaceEntry, Answering, IndInv, TypeOK, FrameOK, TickPlaces,
       Lots
  <2>2. \A s \in Symbols : exPos[s] = 0
    BY <2>1, BareExchange
  <2>3. Lot \in Nat
    BY ExecutorConstants
  <2> QED
    BY <1>0, <2>1, <2>2, <2>3 DEF Executed, Lots
<1>9. CASE PlaceStop
  <2>1. /\ pc = "stop" /\ exStops' = exStops \cup {RestingStop}
        /\ UNCHANGED <<qty, exPos>>
    BY <1>9 DEF PlaceStop, Answering
  <2> QED
    BY <2>1 DEF Lots, RestingStop
<1>10. CASE EntryStep /\ ~PlaceEntry /\ ~PlaceStop
  <2>1. UNCHANGED <<exPos, exStops>>
    BY <1>10, Zenon DEF EntryStep, SkipEntry, DecideEntry, FetchInstrument, PollFill,
       PublishStopFailure, OpenPosition, exVars
  <2>2. pc' \in Carrying => qty' = Lot
    BY <1>10, WholeFill DEF EntryStep, SkipEntry, DecideEntry, FetchInstrument,
       PollFill, PublishStopFailure, OpenPosition, BackToSelect, frameVars, Lots
  <2> QED
    BY <1>1, <2>1, <2>2
<1> QED
  BY <1>2, <1>3, <1>4, <1>5, <1>6, <1>7, <1>8, <1>9, <1>10, AllAnswered
  DEF Next, Background

\* With an exchange that answers, the positions between handlers are those of
\* the exchange, side and size, through every crash and reconcile, but for one
\* that its stop has closed (main.rs:133, 594-617, 640-760).
THEOREM PositionsMatchExchange ==
  ASSUME Answering PROVE Spec => []PositionsAgree
<1>1. IndInv /\ Books /\ Agree => PositionsAgree
  BY DEF IndInv, Books, ClosePlaces, Agree, Expected, PositionsAgree, Holds
<1> QED
  BY <1>1, GateAlways, BooksInit, BooksStep, AgreeInit, AgreeStep, LotsStep,
     PTL DEF Spec

\* And the account is exposed to one symbol at a time: an entry order goes out
\* only when nothing is tracked, which then means that nothing is open
\* (main.rs:638).
THEOREM ExposureIsSingle ==
  ASSUME Answering PROVE Spec => []OneExposure
<1>1. Agree => OneExposure
  <2> SUFFICES ASSUME Agree PROVE OneExposure
    OBVIOUS
  <2> DEFINE Exposed == {s \in Symbols : exPos[s] # 0}
  <2>1. CASE Exposed = {}
    BY <2>1, FS_EmptySet DEF OneExposure
  <2>2. CASE Exposed # {}
    <3>1. PICK s \in Exposed : TRUE
      BY <2>2
    <3>2. Exposed = {s}
      BY <3>1 DEF Agree
    <3>3. Cardinality(Exposed) = 1
      <4> HIDE DEF Exposed
      <4> QED BY <3>2, FS_Singleton
    <3> QED
      BY <3>3 DEF OneExposure
  <2> QED
    BY <2>1, <2>2
<1> QED
  BY <1>1, GateAlways, BooksInit, BooksStep, AgreeInit, AgreeStep, LotsStep,
     PTL DEF Spec
-----------------------------------------------------------------------------
(* A flatten. *)

\* Every tracked position is still to be visited by the flatten loop or is the
\* one being closed: the loop drops none on the way.
Sweep ==
  /\ pc = "flatten" => Held \subseteq todo
  /\ pc \in ClosePlaces /\ pkt = NoPacket => Held \subseteq todo \cup {cur}

LEMMA SweepStep == IndInv /\ Books /\ Sweep /\ [Next]_vars => Sweep'
<1> SUFFICES ASSUME IndInv, Books, Sweep, [Next]_vars PROVE Sweep'
  OBVIOUS
<1> USE DEF ClosePlaces
<1>1. CASE pc' \notin ClosePlaces \cup {"flatten"}
  BY <1>1 DEF Sweep
<1>2. CASE UNCHANGED vars \/ Elapse \/ Background
  <2>1. UNCHANGED <<pc, pkt, todo, cur, positions>>
    BY <1>2, Zenon DEF vars, Elapse, Background, DepthUpdate, FundingUpdate,
       StopTriggers, frameVars, bookVars
  <2> QED
    BY <2>1 DEF Sweep, Held
<1>3. CASE TimerFires
  <2>1. /\ pc' \in {"select", "flatten"}
        /\ pc' = "flatten" => todo' = Held /\ positions' = positions
    BY <1>3, Zenon DEF TimerFires, BackToSelect, bookVars
  <2> QED
    BY <2>1 DEF Sweep, Held
<1>4. CASE \E s \in Symbols : BeginClose(s)
  <2> PICK s \in Symbols : BeginClose(s)
    BY <1>4
  <2>1. /\ pc \in {"exits", "flatten"} /\ pc' \in ClosePlaces
        /\ cur' = s /\ todo' = todo \ {s}
        /\ UNCHANGED <<pkt, positions>>
    BY DEF BeginClose, bookVars
  <2>2. pc = "exits" => pkt # NoPacket
    BY DEF IndInv, FrameOK, TickPlaces
  <2> QED
    BY <2>1, <2>2 DEF Sweep, Held
<1>5. CASE CancelStop
  BY <1>5 DEF CancelStop, frameVars, bookVars, Sweep, Held
<1>6. CASE ReduceOnlyClose
  <2>1. /\ pc = "close" /\ UNCHANGED <<pkt, todo, positions>>
        /\ \/ pc' = "record" /\ cur' = cur
           \/ pc' = "exits"
    BY <1>6, Zenon DEF ReduceOnlyClose, CloseFailed, bookVars
  <2> QED
    BY <2>1 DEF Sweep, Held
<1>7. CASE \E pnl \in PnlOutcomes : RecordExit(pnl)
  <2>1. /\ pc = "record" /\ cur \in Symbols /\ todo' = todo
        /\ positions \in [Symbols -> Position]
        /\ \/ pc' = "exits"
           \/ /\ pc' = "flatten" /\ pkt = NoPacket
              /\ positions' = [positions EXCEPT ![cur] = NoPosition]
    BY <1>7 DEF RecordExit, InTick, IndInv, TypeOK, FrameOK
  <2> QED
    BY <2>1 DEF Sweep, Held, NoPosition
<1>8. RecvMessage => pc' \in {"select", "exits"}
  BY Zenon DEF RecvMessage, RecvIgnored, RecvHaltEntries, RecvResumeEntries,
     RecvFlattenAll, RecvHeartbeat, RecvTick, BackToSelect
<1>9. (\E s \in Symbols : KeepPosition(s)) \/ ExitsDone \/ FlattenDone
        => pc' \in {"exits", "entry", "select"}
  BY Zenon DEF KeepPosition, ExitsDone, FlattenDone, BackToSelect
<1>10. EntryStep => pc' \in {"select", "stopFailed", "open"} \cup Entering
  BY DEF EntryStep, SkipEntry, DecideEntry, FetchInstrument, PlaceEntry,
     PollFill, PlaceStop, PublishStopFailure, OpenPosition, BackToSelect, Entering
<1>11. Crash \/ Startup \/ Unanswered => pc' \in {"down", "select", "hung"}
  BY Zenon DEF Crash, Startup, Unanswered
<1>12. pc' \in {"select", "exits", "entry", "down", "stopFailed", "open", "hung"}
               \cup Entering
         => pc' \notin ClosePlaces \cup {"flatten"}
  BY DEF Entering
<1> QED
  BY <1>1, <1>2, <1>3, <1>4, <1>5, <1>6, <1>7, <1>8, <1>9, <1>10, <1>11, <1>12
  DEF Next, CloseStep

\* With an exchange that answers, a flatten leaves nothing open at the exchange,
\* whatever was adopted or opened before it and whichever stops have fired
\* (main.rs:594-617).
THEOREM FlattenSweeps ==
  ASSUME Answering PROVE Spec => FlattenLeavesNothing
<1>1. Init => Sweep
  BY DEF Init, Sweep, ClosePlaces
<1>2. ASSUME IndInv, Books, Agree, Sweep, [Next]_vars,
             pc = "flatten", pc' = "select"
      PROVE  \A s \in Symbols : exPos[s] = 0
  <2>1. todo = {}
    <3>1. ~UNCHANGED vars /\ ~Elapse /\ ~Background
      BY <1>2 DEF vars, Elapse, Background, DepthUpdate, FundingUpdate,
         StopTriggers, Awaiting
    <3>2. ~RecvMessage /\ ~TimerFires /\ ~Crash /\ ~Startup /\ ~Unanswered
      BY <1>2, Zenon DEF RecvMessage, RecvIgnored, RecvHaltEntries,
         RecvResumeEntries, RecvFlattenAll, RecvHeartbeat, RecvTick, TimerFires,
         Crash, Startup, Unanswered
    <3>3. ~EntryStep
      BY <1>2, Zenon DEF EntryStep, SkipEntry, DecideEntry, FetchInstrument,
         PlaceEntry, PollFill, PlaceStop, PublishStopFailure, OpenPosition
    <3>4. CloseStep => FlattenDone
      BY <1>2 DEF CloseStep, KeepPosition, BeginClose, CancelStop,
         ReduceOnlyClose, RecordExit, ExitsDone
    <3> QED
      BY <1>2, <3>1, <3>2, <3>3, <3>4 DEF Next, FlattenDone
  <2>2. Held = {}
    BY <1>2, <2>1 DEF Sweep
  <2>3. \A s \in Symbols : Holds(exPos[s], Signed(positions[s]))
    BY <1>2 DEF Agree, Expected, Books, ClosePlaces
  <2>4. positions \in [Symbols -> Position]
    BY <1>2 DEF IndInv, TypeOK
  <2> QED
    BY <2>2, <2>3, <2>4 DEF Held, Signed, Position, Holds
<1>3. IndInv /\ Books /\ Agree /\ Sweep /\ [Next]_vars =>
        [pc = "flatten" /\ pc' = "select" =>
           \A s \in Symbols : exPos[s] = 0]_vars
  BY <1>2, Zenon
<1> QED
  BY <1>1, <1>3, SweepStep, GateAlways, BooksInit, BooksStep, AgreeInit,
     AgreeStep, LotsStep, PTL DEF Spec, FlattenLeavesNothing
-----------------------------------------------------------------------------
(* The stop orders. *)

\* The open positions whose stop nobody has asked the exchange to cancel.
Guarded == {s \in Open : ~(s = cur /\ pc \in {"close", "record"})}

InFlightStop ==
  [id |-> stopId, sym |-> pkt.sym, dir |-> pkt.dir, qty |-> qty]

Known ==
  {StopOf(s) : s \in Guarded} \cup (IF pc = "open" THEN {InFlightStop} ELSE {})

\* Stop orders at the exchange that this process does not know.
Orphans == exStops \ Known

\* The inductive form of StopsAgree: it follows a stop from its order, through
\* the entry in flight and the tracked position, to its cancellation.
Stops ==
  /\ \A s \in Guarded : \/ exPos[s] = 0
                        \/ StopOf(s) \in exStops
                        \/ positions[s].stop = 0 /\ crashes > 0
  /\ pc = "open" => InFlightStop \in exStops \/ exPos[pkt.sym] = 0
  /\ IsFiniteSet(exStops)
  /\ Cardinality(Orphans) <= crashes

LEMMA StopsInit == Init => Stops
<1> SUFFICES ASSUME Init PROVE Stops
  OBVIOUS
<1>1. exStops = {} /\ Orphans = {} /\ Guarded = {} /\ crashes = 0 /\ pc = "down"
  BY DEF Init, Orphans, Guarded, Open, Held, NoPosition
<1> QED
  BY <1>1, FS_EmptySet DEF Stops

\* With fewer orphans their number stays within bounds.
LEMMA FewerOrphans ==
  ASSUME IndInv, Stops, crashes' = crashes, Orphans' \subseteq Orphans
  PROVE  Cardinality(Orphans') <= crashes'
<1>1. IsFiniteSet(Orphans)
  BY FS_Subset DEF Stops, Orphans
<1>2. /\ Cardinality(Orphans') <= Cardinality(Orphans)
      /\ Cardinality(Orphans) \in Nat /\ Cardinality(Orphans') \in Nat
  BY <1>1, FS_Subset, FS_CardinalityType
<1> QED
  BY <1>2 DEF Stops, IndInv, TypeOK

\* A step that keeps the guarded positions and the exchange's stops.
LEMMA StopsFrame ==
  ASSUME IndInv, Stops, UNCHANGED <<exStops, crashes>>, Guarded' = Guarded,
         \A s \in Guarded : positions'[s] = positions[s] /\ exPos'[s] = exPos[s],
         pc # "open", pc' # "open"
  PROVE  Stops'
<1>1. \A s \in Guarded : StopOf(s)' = StopOf(s)
  BY DEF StopOf
<1>2. Known' = Known
  BY <1>1 DEF Known
<1>3. Orphans' = Orphans
  BY <1>2 DEF Orphans
<1> QED
  BY <1>1, <1>3 DEF Stops

LEMMA StopsUntouched ==
  ASSUME IndInv, Stops, UNCHANGED <<exPos, exStops, crashes, positions, closed>>,
         pc \notin {"close", "record", "open"}, pc' \notin {"close", "record", "open"}
  PROVE  Stops'
<1>1. Guarded' = Guarded
  BY DEF Guarded, Open, Held
<1> QED
  BY <1>1, StopsFrame

\* At most one position is guarded, and none while an entry is carried out.
LEMMA OneGuarded ==
  ASSUME GateInv, Books, Agree
  PROVE  /\ \A s, t \in Guarded : s = t
         /\ pc \in Carrying \cup {"down"} => Guarded = {}
BY DEF Guarded, Open, Books, GateInv, Agree

\* The cancel takes the one stop of the one position; what stays was an orphan.
LEMMA StopsCancel ==
  ASSUME Answering, IndInv, GateInv, Books, Agree, Stops, CancelStop PROVE Stops'
<1>1. /\ pc = "cancel" /\ pc' = "close" /\ cur \in Open
      /\ exStops' = {st \in exStops : st.id # positions[cur].stop}
      /\ UNCHANGED <<cur, closed, positions, exPos, crashes>>
  BY DEF CancelStop, Answering, Books, ClosePlaces, frameVars, bookVars
<1>2. Guarded = {cur}
  BY <1>1, OneGuarded DEF Guarded
<1>3. Guarded' = {} /\ Known' = {}
  BY <1>1, <1>2 DEF Guarded, Known, Open, Held
<1>4. Known = {StopOf(cur)}
  BY <1>1, <1>2 DEF Known
<1>5. Orphans' \subseteq Orphans
  BY <1>1, <1>3, <1>4 DEF Orphans, StopOf
<1>6. IsFiniteSet(exStops')
  BY <1>1, FS_Subset DEF Stops
<1> QED
  BY <1>1, <1>3, <1>5, <1>6, FewerOrphans DEF Stops

LEMMA StopsCloseStep ==
  ASSUME Answering, IndInv, GateInv, Books, Agree, Stops, CloseStep PROVE Stops'
<1>1. CASE \E s \in Symbols : KeepPosition(s)
  BY <1>1, StopsUntouched DEF KeepPosition, bookVars, exVars
<1>2. CASE \E s \in Symbols : BeginClose(s)
  BY <1>2, StopsUntouched DEF BeginClose, Answering, bookVars, exVars
<1>3. CASE CancelStop
  BY <1>3, StopsCancel
<1>4. CASE ReduceOnlyClose
  <2>1. /\ pc = "close" /\ pc' \in {"record", "exits"}
        /\ exPos' = [exPos EXCEPT ![cur] = 0] /\ exPos \in [Symbols -> Int]
        /\ UNCHANGED <<closed, positions, exStops, crashes>>
    BY <1>4, AgreeClose DEF ReduceOnlyClose, bookVars, IndInv, TypeOK
  <2>2. CASE pc' = "record"
    <3>1. cur' = cur
      BY <1>4, <2>2, AgreeClose
    <3>2. Guarded' = Guarded /\ cur \notin Guarded
      BY <2>1, <2>2, <3>1 DEF Guarded, Open, Held
    <3>3. \A s \in Guarded : positions'[s] = positions[s] /\ exPos'[s] = exPos[s]
      BY <2>1, <3>2 DEF Guarded, Open, Held
    <3> QED
      BY <2>1, <2>2, <3>2, <3>3, StopsFrame
  <2>3. CASE pc' = "exits"
    <3>1. Guarded \subseteq Guarded' /\ Guarded' \subseteq Guarded \cup {cur}
      BY <2>1, <2>3 DEF Guarded, Open, Held
    <3>2. \A s \in Guarded' : s \in Symbols /\ StopOf(s)' = StopOf(s)
      BY <2>1 DEF Guarded, Open, Held, StopOf
    <3>3. Known \subseteq Known'
      BY <2>1, <3>1, <3>2 DEF Known
    <3>4. Orphans' \subseteq Orphans
      BY <2>1, <3>3 DEF Orphans
    <3>5. \A s \in Guarded' : exPos'[s] = 0 \/ (s \in Guarded /\ exPos'[s] = exPos[s])
      BY <2>1, <3>1, <3>2
    <3>6. \A s \in Guarded' : \/ exPos'[s] = 0
                              \/ StopOf(s)' \in exStops'
                              \/ positions'[s].stop = 0 /\ crashes' > 0
      BY <2>1, <3>2, <3>5 DEF Stops
    <3> QED
      BY <2>1, <2>3, <3>4, <3>6, FewerOrphans DEF Stops
  <2> QED
    BY <2>1, <2>2, <2>3
<1>5. CASE \E pnl \in PnlOutcomes : RecordExit(pnl)
  <2> PICK pnl \in PnlOutcomes : RecordExit(pnl)
    BY <1>5
  <2>1. /\ pc = "record" /\ pc' \in {"exits", "flatten"}
        /\ cur \in Open /\ positions \in [Symbols -> Position]
        /\ UNCHANGED <<exPos, exStops, crashes>>
    BY DEF RecordExit, exVars, Books, ClosePlaces, IndInv, TypeOK
  <2>2. /\ Open' = Open \ {cur}
        /\ \A s \in Open \ {cur} : positions'[s] = positions[s]
    <3>1. CASE InTick
      BY <2>1, <3>1 DEF RecordExit, Open, Held
    <3>2. CASE ~InTick
      <4>1. /\ closed' = closed
            /\ positions' = [positions EXCEPT ![cur] = NoPosition]
        BY <3>2 DEF RecordExit
      <4> QED
        BY <2>1, <4>1 DEF Open, Held, NoPosition
    <3> QED
      BY <3>1, <3>2
  <2>3. Guarded = Open \ {cur} /\ Guarded' = Open'
    BY <2>1 DEF Guarded
  <2> QED
    BY <2>1, <2>2, <2>3, StopsFrame
<1>6. CASE ExitsDone
  <2>1. /\ pc = "exits" /\ pc' = "entry" /\ UNCHANGED <<exPos, exStops, crashes>>
        /\ closed' = {}
        /\ positions' = [s \in Symbols |->
                           IF s \in closed THEN NoPosition ELSE positions[s]]
    BY <1>6 DEF ExitsDone, exVars
  <2>2. Open' = Open /\ \A s \in Open : positions'[s] = positions[s]
    BY <2>1 DEF Open, Held, NoPosition
  <2>3. Guarded = Open /\ Guarded' = Open'
    BY <2>1 DEF Guarded
  <2> QED
    BY <2>1, <2>2, <2>3, StopsFrame
<1>7. CASE FlattenDone
  <2>1. closed = {} /\ closed' = {}
    BY <1>7 DEF FlattenDone, BackToSelect, DropFrame, Books, ClosePlaces
  <2> QED
    BY <1>7, <2>1, StopsUntouched DEF FlattenDone, BackToSelect, exVars
<1> QED
  BY <1>1, <1>2, <1>3, <1>4, <1>5, <1>6, <1>7 DEF CloseStep

LEMMA StopsEntryStep ==
  ASSUME Answering, IndInv, GateInv, Books, Agree, Stops, EntryStep PROVE Stops'
<1> USE DEF Carrying, Entering
<1>1. CASE SkipEntry
  <2>1. closed = {} /\ closed' = {}
    BY <1>1 DEF SkipEntry, BackToSelect, DropFrame, Books, ClosePlaces
  <2> QED
    BY <1>1, <2>1, StopsUntouched DEF SkipEntry, BackToSelect, bookVars, exVars
<1>2. CASE \E late \in BOOLEAN : DecideEntry(late)
  <2>1. /\ pc = "entry" /\ UNCHANGED <<positions, exPos, exStops, crashes>>
        /\ \/ BackToSelect
           \/ pc' = "instrument" /\ closed' = closed
    BY <1>2 DEF DecideEntry, Answering, bookVars, exVars
  <2>2. closed = {} /\ (BackToSelect => closed' = {} /\ pc' = "select")
    BY <2>1 DEF Books, ClosePlaces, BackToSelect, DropFrame
  <2> QED
    BY <2>1, <2>2, StopsUntouched
<1>3. CASE FetchInstrument
  <2>1. /\ pc = "instrument" /\ UNCHANGED <<positions, exPos, exStops, crashes>>
        /\ \/ BackToSelect
           \/ pc' = "place" /\ closed' = closed
    BY <1>3, Zenon DEF FetchInstrument, frameVars, bookVars, exVars
  <2>2. closed = {} /\ (BackToSelect => closed' = {} /\ pc' = "select")
    BY <2>1 DEF Books, ClosePlaces, BackToSelect, DropFrame
  <2> QED
    BY <2>1, <2>2, StopsUntouched
<1>4. CASE PlaceEntry
  <2>1. /\ pc = "place" /\ pc' = "poll"
        /\ UNCHANGED <<closed, positions, exStops, crashes>>
    BY <1>4 DEF PlaceEntry, Answering, bookVars
  <2>2. Guarded = {} /\ Guarded' = {}
    BY <2>1, OneGuarded DEF Guarded, Open, Held
  <2> QED
    BY <2>1, <2>2, StopsFrame
<1>5. CASE PollFill
  <2>1. /\ pc = "poll" /\ pc' = "stop"
        /\ UNCHANGED <<closed, positions, exPos, exStops, crashes>>
    BY <1>5 DEF PollFill, Answering, bookVars, exVars
  <2> QED
    BY <2>1, StopsUntouched
<1>6. CASE PlaceStop
  <2>1. /\ pc = "stop" /\ pc' = "open" /\ stopId' = stopOrders + 1
        /\ exStops' = exStops \cup {RestingStop}
        /\ UNCHANGED <<pkt, closed, cur, qty, positions, crashes>>
    BY <1>6 DEF PlaceStop, Answering, bookVars
  <2>2. Guarded = {} /\ Guarded' = {}
    BY <2>1, OneGuarded DEF Guarded, Open, Held
  <2>3. InFlightStop' = RestingStop
    BY <2>1 DEF InFlightStop, RestingStop
  <2>4. Known = {} /\ Known' = {RestingStop}
    BY <2>1, <2>2, <2>3 DEF Known
  <2>5. Orphans' \subseteq Orphans
    BY <2>1, <2>4 DEF Orphans
  <2>6. IsFiniteSet(exStops')
    BY <2>1, FS_AddElement DEF Stops
  <2> QED
    BY <2>1, <2>2, <2>3, <2>5, <2>6, FewerOrphans DEF Stops
<1>7. CASE PublishStopFailure
  BY <1>7 DEF PublishStopFailure, Agree
<1>8. CASE OpenPosition
  <2>1. /\ pc = "open" /\ pc' = "select" /\ closed' = {}
        /\ UNCHANGED <<exPos, exStops, crashes>>
        /\ positions' = [positions EXCEPT ![pkt.sym] = InFlight]
    BY <1>8 DEF OpenPosition, BackToSelect, DropFrame, InFlight, exVars
  <2>2. /\ Held = {} /\ qty > 0 /\ pkt.sym \in Symbols
        /\ positions \in [Symbols -> Position]
    BY <2>1 DEF GateInv, Books, IndInv, TypeOK, FrameOK, TickPlaces
  <2>3. Held' = {pkt.sym}
    BY <2>1, <2>2 DEF Held, InFlight
  <2>4. Guarded = {} /\ Guarded' = {pkt.sym}
    BY <2>1, <2>2, <2>3 DEF Guarded, Open
  <2>5. ASSUME NEW s \in Guarded' PROVE StopOf(s)' = InFlightStop
    <3>1. s = pkt.sym
      BY <2>4
    <3> QED
      BY <2>1, <2>2, <3>1 DEF StopOf, InFlightStop, InFlight
  <2>6. Known = {InFlightStop} /\ Known' = {InFlightStop}
    BY <2>1, <2>4, <2>5 DEF Known
  <2>7. Orphans' = Orphans
    BY <2>1, <2>6 DEF Orphans
  <2>8. \A s \in Guarded' : StopOf(s)' \in exStops' \/ exPos'[s] = 0
    BY <2>1, <2>4, <2>5 DEF Stops
  <2> QED
    BY <2>1, <2>7, <2>8 DEF Stops
<1> QED
  BY <1>1, <1>2, <1>3, <1>4, <1>5, <1>6, <1>7, <1>8 DEF EntryStep

\* A crash forgets the stop of the one position, or of the one entry in flight.
LEMMA StopsCrash ==
  ASSUME IndInv, GateInv, Books, Agree, Stops, Crash PROVE Stops'
<1>1. /\ pc' = "down" /\ crashes' = crashes + 1 /\ exStops' = exStops
      /\ Guarded' = {}
  BY DEF Crash, exVars, Guarded, Open, Held, NoPosition
<1>2. \E st : Known \subseteq {st}
  <2>1. CASE pc = "open"
    BY <2>1, OneGuarded DEF Known, Carrying
  <2>2. CASE pc # "open" /\ Guarded = {}
    BY <2>2 DEF Known
  <2>3. CASE pc # "open" /\ Guarded # {}
    <3>1. PICK s \in Guarded : Guarded = {s}
      BY <2>3, OneGuarded
    <3> QED
      BY <2>3, <3>1 DEF Known
  <2> QED
    BY <2>1, <2>2, <2>3
<1>3. PICK st : Known \subseteq {st}
  BY <1>2
<1>4. exStops \subseteq Orphans \cup {st} /\ Orphans' \subseteq exStops
  BY <1>1, <1>3 DEF Orphans
<1>5. IsFiniteSet(Orphans) /\ Cardinality(Orphans) \in Nat
  BY FS_Subset, FS_CardinalityType DEF Stops, Orphans
<1>6. /\ IsFiniteSet(Orphans \cup {st})
      /\ Cardinality(Orphans \cup {st}) \in Nat
      /\ Cardinality(Orphans \cup {st}) <= Cardinality(Orphans) + 1
  BY <1>5, FS_AddElement, FS_CardinalityType
<1>7. /\ Orphans' \subseteq Orphans \cup {st}
      /\ Cardinality(Orphans') \in Nat
      /\ Cardinality(Orphans') <= Cardinality(Orphans \cup {st})
  BY <1>4, <1>6, FS_Subset, FS_CardinalityType
<1>8. crashes \in Nat
  BY DEF IndInv, TypeOK
<1>9. Cardinality(Orphans') <= crashes'
  BY <1>1, <1>5, <1>6, <1>7, <1>8 DEF Stops
<1> QED
  BY <1>1, <1>9 DEF Stops

\* A stop that fires has closed its position, or was known to nobody.
LEMMA StopsTriggers ==
  ASSUME IndInv, GateInv, Books, Agree, Lots, Stops,
         NEW st \in exStops, StopTriggers(st)
  PROVE  Stops'
<1>1. /\ exPos \in [Symbols -> Int] /\ exStops' = exStops \ {st}
      /\ UNCHANGED <<pc, pkt, qty, stopId, cur, closed, positions, crashes>>
      /\ \A s \in Symbols : exPos'[s] = exPos[s] \/ exPos'[s] = 0
      /\ exPos[st.sym] = Signed(st) => exPos'[st.sym] = 0
  BY StopTakesAll DEF IndInv, TypeOK, frameVars, bookVars
<1>2. /\ Guarded' = Guarded /\ Guarded \subseteq Symbols
      /\ \A s \in Guarded : StopOf(s)' = StopOf(s)
  BY <1>1 DEF Guarded, Open, Held, StopOf
<1>3. Known' = Known
  BY <1>1, <1>2 DEF Known, InFlightStop
<1>4. Orphans' \subseteq Orphans /\ IsFiniteSet(exStops')
  BY <1>1, <1>3, FS_RemoveElement DEF Orphans, Stops
<1>5. ASSUME NEW s \in Guarded
      PROVE  \/ exPos'[s] = 0
             \/ StopOf(s) \in exStops'
             \/ positions[s].stop = 0 /\ crashes > 0
  <2>1. CASE st = StopOf(s)
    <3>1. Holds(exPos[s], Signed(positions[s]))
      BY <1>5, OneGuarded DEF Agree, Expected, Guarded, Open, Held, Carrying, Entering
    <3>2. st.sym = s /\ Signed(st) = Signed(positions[s])
      BY <2>1 DEF StopOf, Signed
    <3> QED
      BY <1>1, <1>2, <1>5, <3>1, <3>2 DEF Holds
  <2>2. CASE st # StopOf(s)
    BY <1>1, <1>2, <1>5, <2>2 DEF Stops
  <2> QED
    BY <2>1, <2>2
<1>6. ASSUME pc = "open"
      PROVE  InFlightStop \in exStops' \/ exPos'[pkt.sym] = 0
  <2>1. pkt.sym \in Symbols
    BY <1>6 DEF IndInv, TypeOK, FrameOK, TickPlaces, Packet
  <2>2. CASE st = InFlightStop
    <3>1. Holds(exPos[pkt.sym], Signed(InFlight))
      BY <1>6, <2>1 DEF Agree, Expected
    <3>2. st.sym = pkt.sym /\ Signed(st) = Signed(InFlight)
      BY <2>2 DEF InFlightStop, InFlight, Signed
    <3> QED
      BY <1>1, <2>1, <3>1, <3>2 DEF Holds
  <2>3. CASE st # InFlightStop
    BY <1>1, <1>6, <2>1, <2>3 DEF Stops
  <2> QED
    BY <2>2, <2>3
<1>7. Cardinality(Orphans') <= crashes'
  BY <1>1, <1>4, FewerOrphans
<1>8. \A s \in Guarded' : \/ exPos'[s] = 0
                          \/ StopOf(s)' \in exStops'
                          \/ positions'[s].stop = 0 /\ crashes' > 0
  BY <1>1, <1>2, <1>5
<1>9. pc' = "open" => InFlightStop' \in exStops' \/ exPos'[pkt'.sym] = 0
  BY <1>1, <1>6 DEF InFlightStop
<1> QED
  BY <1>4, <1>7, <1>8, <1>9 DEF Stops

\* A position that is adopted has been left by a crash.
LEMMA StopsStartup ==
  ASSUME Answering, IndInv, Books, Agree, Stops, Startup PROVE Stops'
<1>1. /\ pc = "down" /\ pc' = "select" /\ UNCHANGED <<exStops, crashes, closed>>
      /\ closed = {} /\ Guarded = {} /\ crashes \in Nat
      /\ positions' = [s \in Symbols |->
             IF exPos[s] = 0 THEN NoPosition ELSE Adopted(exPos[s])]
  BY DEF Startup, Answering, frameVars, exVars, Books, ClosePlaces, Guarded, Open,
     IndInv, TypeOK
<1>2. ASSUME NEW s \in Guarded'
      PROVE  positions'[s].stop = 0 /\ crashes' > 0
  <2>1. s \in Symbols /\ positions'[s].qty > 0
    BY <1>2 DEF Guarded, Open, Held
  <2>2. exPos[s] # 0 /\ positions'[s] = Adopted(exPos[s])
    BY <1>1, <2>1 DEF NoPosition
  <2> QED
    BY <1>1, <2>1, <2>2 DEF Agree, Adopted
<1>3. Known = {}
  BY <1>1 DEF Known
<1>4. Orphans' \subseteq Orphans
  BY <1>1, <1>3 DEF Orphans
<1> QED
  BY <1>1, <1>2, <1>4, FewerOrphans DEF Stops

LEMMA StopsStep ==
  ASSUME Answering
  PROVE  IndInv /\ GateInv /\ Books /\ Agree /\ Lots /\ Stops /\ [Next]_vars => Stops'
<1> SUFFICES ASSUME IndInv, GateInv, Books, Agree, Lots, Stops, [Next]_vars
             PROVE  Stops'
  OBVIOUS
<1>1. CASE \/ UNCHANGED vars \/ Elapse
           \/ \E d \in BookDepths : DepthUpdate(d)
           \/ \E r \in FundingRates : FundingUpdate(r)
  <2>1. UNCHANGED <<pc, pkt, qty, stopId, cur, closed, positions, exPos, exStops,
                    crashes>>
    BY <1>1, Zenon DEF vars, Elapse, DepthUpdate, FundingUpdate, frameVars, bookVars,
       exVars
  <2> QED
    BY <2>1 DEF Stops, Orphans, Known, Guarded, Open, Held, StopOf, InFlightStop
<1>2. CASE RecvMessage \/ TimerFires
  <2>1. /\ pc = "select" /\ UNCHANGED <<positions, exPos, exStops, crashes>>
        /\ \/ BackToSelect
           \/ pc' \in {"exits", "flatten"} /\ closed' = closed
    BY <1>2, Zenon DEF RecvMessage, RecvIgnored, RecvHaltEntries,
       RecvResumeEntries, RecvFlattenAll, RecvHeartbeat, RecvTick, TimerFires,
       bookVars, exVars
  <2>2. closed = {} /\ (BackToSelect => closed' = {} /\ pc' = "select")
    BY <2>1 DEF Books, ClosePlaces, BackToSelect, DropFrame
  <2> QED
    BY <2>1, <2>2, StopsUntouched
<1> QED
  BY <1>1, <1>2, AllAnswered, StopsCloseStep, StopsEntryStep, StopsCrash,
     StopsStartup, StopsTriggers DEF Next, Background

\* With an exchange that answers, every tracked position that is still open has
\* its stop order resting, of its side and size, and a crash leaves at most one
\* stop behind
\* (main.rs:133, 594, 720-760).
THEOREM StopsMatchExchange ==
  ASSUME Answering PROVE Spec => []StopsAgree
<1>1. IndInv /\ Books /\ Stops => StopsAgree
  <2> SUFFICES ASSUME Books, Stops, pc = "select"
               PROVE  /\ Guarded = Held
                      /\ Orphans = exStops \ {StopOf(s) : s \in Held}
    BY DEF Stops, StopsAgree
  <2>1. Guarded = Held
    BY DEF Books, ClosePlaces, Guarded, Open
  <2> QED
    BY <2>1 DEF Orphans, Known
<1> QED
  BY <1>1, GateAlways, BooksInit, BooksStep, AgreeInit, AgreeStep, LotsStep,
     StopsInit, StopsStep, PTL DEF Spec
=============================================================================

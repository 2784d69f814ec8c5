--------------------------- MODULE ExecutorProofs ----------------------------
(***************************************************************************)
(* Proofs about the executor, for every value of its constants: any number *)
(* of symbols, any thresholds, any faults.                                 *)
(***************************************************************************)
EXTENDS ExecutorProps, FiniteSetTheorems, TLAPS

(* The saturated miss counter of the safe mode. *)

\* LargestThreshold is one of the thresholds and at least each of them.
LEMMA LargestIsLargest ==
  /\ LargestThreshold \in Nat
  /\ MissCaution <= LargestThreshold
  /\ MissDefensive <= LargestThreshold
  /\ MissEmergency <= LargestThreshold
<1> DEFINE T == {MissCaution, MissDefensive, MissEmergency}
<1>1. T \subseteq Nat
  BY MissThresholds
<1>2. \E n \in T : \A m \in T : m <= n
  BY <1>1, SMT
<1>3. LargestThreshold \in T /\ \A m \in T : m <= LargestThreshold
  BY <1>2 DEF LargestThreshold
<1> QED
  BY <1>1, <1>3

\* The phase on_miss assigns (safe_mode.rs:33-44) is the same whether the
\* counter runs on for ever or stops at the largest threshold.
THEOREM SaturationIsInvisible ==
  \A n \in Nat : PhaseAfter(Saturate(n)) = PhaseAfter(n)
<1> SUFFICES ASSUME NEW n \in Nat PROVE PhaseAfter(Saturate(n)) = PhaseAfter(n)
  OBVIOUS
<1>1. CASE n <= LargestThreshold
  BY <1>1 DEF Saturate
<1>2. CASE ~(n <= LargestThreshold)
  <2>1. Saturate(n) = LargestThreshold
    BY <1>2 DEF Saturate
  <2>2. /\ n >= MissEmergency
        /\ LargestThreshold >= MissEmergency
    BY <1>2, LargestIsLargest, MissThresholds
  <2> QED
    BY <2>1, <2>2 DEF PhaseAfter
<1> QED
  BY <1>1, <1>2

\* One miss more from a saturated count lands where one miss more from the
\* true count does, so the abstraction is kept from miss to miss.
THEOREM SaturatedCountFollows ==
  \A n \in Nat : Saturate(Saturate(n) + 1) = Saturate(n + 1)
  BY LargestIsLargest DEF Saturate
-----------------------------------------------------------------------------
(* The types. *)

\* Where a handler works on a tick, on a position it closes.
TickPlaces == {"exits", "entry", "stopFailed", "open"} \cup Entering
ClosePlaces == {"cancel", "close", "record"}

\* The strengthening of TypeOK: a handler that works on a tick has one of an
\* enabled symbol, and one that closes a position knows which.
FrameOK ==
  /\ pkt # NoPacket => pkt.sym \in Symbols
  /\ pc \in TickPlaces => pkt # NoPacket
  /\ pc \in ClosePlaces => cur \in Symbols

IndInv == TypeOK /\ FrameOK

\* The leaves below need the fields of the constant records.
LEMMA ConstantTypes ==
  /\ NoPacket \in Packet
  /\ NoPosition \in Position
  /\ EmptyLedger \in Ledger
  /\ NewSafeMode \in SafeModeState
  /\ NewWarmRisk \in WarmRiskState
BY ExecutorConstants, WarmLimits
   DEF NoPacket, Packet, Dir, NoPosition, Position, EmptyLedger, Ledger,
       NewSafeMode, SafeModeState, SafePhase, NewWarmRisk, WarmRiskState

\* compute_flags returns a flag word.
LEMMA FlagsType ==
  ASSUME NEW w PROVE ComputeFlags(w) \in SUBSET RiskFlags
BY DEF ComputeFlags

\* on_miss keeps the safe mode's type: thresholds are natural numbers.
LEMMA OnMissType ==
  ASSUME NEW sm \in SafeModeState PROVE OnMiss(sm) \in SafeModeState
<1>1. PICK n \in {MissCaution, MissDefensive, MissEmergency} :
        \A m \in {MissCaution, MissDefensive, MissEmergency} : m <= n
  BY MissThresholds
<1>2. LargestThreshold \in {MissCaution, MissDefensive, MissEmergency}
  BY <1>1 DEF LargestThreshold
<1>3. Saturate(sm.misses + 1) \in Nat
  BY <1>2, MissThresholds DEF Saturate, SafeModeState
<1>4. PhaseAfter(Saturate(sm.misses + 1)) \in SafePhase
  BY DEF PhaseAfter, SafePhase
<1> QED
  BY <1>3, <1>4 DEF OnMiss, SafeModeState

\* Publishing a warm state keeps the types of both shared variables.
LEMMA PublishType ==
  ASSUME NEW w \in WarmRiskState, Publish(w)
  PROVE  /\ warm' \in WarmRiskState
         /\ warmFlags' \in SUBSET RiskFlags
BY FlagsType DEF Publish

\* Back at select! the handler's variables have their idle values.
LEMMA IdleFrame ==
  ASSUME DropFrame
  PROVE  /\ pkt' = NoPacket /\ pkt' \in Packet
         /\ todo' = {} /\ closed' = {}
         /\ cur' = NoSymbol /\ qty' = 0 /\ stopId' = 0
         /\ sleep' \in 0..SleepTicks
BY ConstantTypes, ExecutorConstants DEF DropFrame

\* What record_entry, record_exit and append_jsonl make of a ledger is a ledger.
LEMMA LedgerField ==
  ASSUME NEW l \in Ledger, NEW n \in Int
  PROVE  /\ [l EXCEPT !.realized = @ + n] \in Ledger
         /\ [l EXCEPT !.entries = @ + 1] \in Ledger
         /\ [l EXCEPT !.exits = @ + 1] \in Ledger
         /\ [l EXCEPT !.lines = @ + 1] \in Ledger
BY DEF Ledger

LEMMA LedgerTypes ==
  ASSUME NEW l \in Ledger, NEW n \in Int
  PROVE  /\ [l EXCEPT !.entries = @ + 1, !.lines = @ + 1] \in Ledger
         /\ [l EXCEPT !.realized = @ + n, !.exits = @ + 1] \in Ledger
         /\ [l EXCEPT !.realized = @ + n, !.exits = @ + 1, !.lines = @ + 1]
              \in Ledger
<1>1. [l EXCEPT !.entries = @ + 1, !.lines = @ + 1]
        = [[l EXCEPT !.entries = @ + 1] EXCEPT !.lines = @ + 1]
  BY DEF Ledger
<1>2. [l EXCEPT !.realized = @ + n, !.exits = @ + 1]
        = [[l EXCEPT !.realized = @ + n] EXCEPT !.exits = @ + 1]
  BY DEF Ledger
<1>3. [l EXCEPT !.realized = @ + n, !.exits = @ + 1, !.lines = @ + 1]
        = [[l EXCEPT !.realized = @ + n, !.exits = @ + 1] EXCEPT !.lines = @ + 1]
  BY DEF Ledger
<1>4. [l EXCEPT !.realized = @ + n, !.exits = @ + 1] \in Ledger
  BY <1>2, LedgerField
<1>5. [l EXCEPT !.realized = @ + n, !.exits = @ + 1, !.lines = @ + 1] \in Ledger
  BY <1>3, <1>4, LedgerField
<1>6. [l EXCEPT !.entries = @ + 1, !.lines = @ + 1] \in Ledger
  BY <1>1, LedgerField
<1> QED
  BY <1>4, <1>5, <1>6

LEMMA InitIndInv == Init => IndInv
<1> SUFFICES ASSUME Init PROVE IndInv
  OBVIOUS
<1>1. /\ pc \in Awaiting \cup {"down", "select", "exits", "flatten", "record",
                              "entry", "stopFailed", "open", "hung"}
      /\ pkt \in Packet /\ todo \in SUBSET Symbols /\ closed \in SUBSET Symbols
      /\ cur \in Symbols \cup {NoSymbol} /\ qty \in Nat /\ stopId \in Nat
      /\ sleep \in 0..SleepTicks /\ hbAge \in 0..HbTimeout + 1
  BY ConstantTypes, ExecutorConstants DEF Init
<1>2. /\ operatorHalt \in BOOLEAN /\ flattenRequest \in BOOLEAN
      /\ safeMode \in SafeModeState /\ warm \in WarmRiskState
      /\ warmFlags \in SUBSET RiskFlags /\ lastSeq \in [Symbols -> Nat]
  BY ConstantTypes, FlagsType DEF Init
<1>3. /\ positions \in [Symbols -> Position] /\ ledger \in Ledger
      /\ exPos \in [Symbols -> Int] /\ exStops \in SUBSET StopOrder
      /\ seeded \in Nat /\ stopOrders \in Nat /\ crashes \in 0..MaxCrashes
  BY ConstantTypes, ExecutorConstants DEF Init
<1>4. FrameOK
  BY DEF Init, FrameOK, TickPlaces, ClosePlaces, Entering
<1> QED
  BY <1>1, <1>2, <1>3, <1>4 DEF IndInv, TypeOK

-----------------------------------------------------------------------------
(* One lemma per group of actions: the step keeps the invariant. *)

LEMMA RecvMessageKeeps ==
  ASSUME IndInv, RecvMessage PROVE IndInv'
<1> USE DEF IndInv, TypeOK, FrameOK, TickPlaces, ClosePlaces, Entering, Awaiting
<1>1. CASE RecvIgnored
  BY <1>1, IdleFrame DEF RecvIgnored, BackToSelect, gateVars, bookVars, exVars
<1>2. CASE RecvHaltEntries
  <2>1. [warm EXCEPT !.entriesHalted = TRUE] \in WarmRiskState
    BY DEF WarmRiskState
  <2> QED
    BY <1>2, <2>1, IdleFrame, PublishType
    DEF RecvHaltEntries, BackToSelect, bookVars, exVars
<1>3. CASE RecvResumeEntries
  <2> DEFINE w == [warm EXCEPT !.entriesHalted = HaltEntries(safeMode)]
  <2>1. HaltEntries(safeMode) \in BOOLEAN
    BY DEF HaltEntries
  <2>2. w \in WarmRiskState
    BY <2>1 DEF WarmRiskState
  <2>3. Publish(w)
    BY <1>3, Zenon DEF RecvResumeEntries
  <2>4. warm' \in WarmRiskState /\ warmFlags' \in SUBSET RiskFlags
    BY <2>2, <2>3, PublishType
  <2>5. /\ operatorHalt' = FALSE
        /\ BackToSelect
        /\ UNCHANGED <<hbAge, flattenRequest, safeMode, lastSeq, bookVars,
                       exVars, crashes>>
    BY <1>3, Zenon DEF RecvResumeEntries
  <2>6. FrameOK'
    BY <2>5, IdleFrame DEF BackToSelect
  <2>7. /\ hbAge' \in 0..HbTimeout + 1 /\ flattenRequest' \in BOOLEAN
        /\ operatorHalt' \in BOOLEAN /\ safeMode' \in SafeModeState
    BY <2>5
  <2>8. /\ positions' \in [Symbols -> Position] /\ ledger' \in Ledger
        /\ exPos' \in [Symbols -> Int] /\ exStops' \in SUBSET StopOrder
        /\ seeded' \in Nat /\ stopOrders' \in Nat /\ crashes' \in 0..MaxCrashes
        /\ lastSeq' \in [Symbols -> Nat]
    BY <2>5 DEF bookVars, exVars
  <2> QED
    BY <2>4, <2>5, <2>6, <2>7, <2>8, IdleFrame DEF BackToSelect
<1>4. CASE RecvFlattenAll
  <2>1. [warm EXCEPT !.entriesHalted = TRUE] \in WarmRiskState
    BY DEF WarmRiskState
  <2> QED
    BY <1>4, <2>1, IdleFrame, PublishType
    DEF RecvFlattenAll, BackToSelect, bookVars, exVars
<1>5. CASE RecvHeartbeat
  <2>1. safeMode' \in SafeModeState
    BY <1>5, ConstantTypes DEF RecvHeartbeat, OnHeartbeat
  <2>2. [warm EXCEPT !.entriesHalted = operatorHalt \/ HaltEntries(safeMode'),
                     !.dayPnl = ledger.realized] \in WarmRiskState
    BY DEF WarmRiskState, Ledger, HaltEntries
  <2>3. hbAge' \in 0..HbTimeout + 1
    BY <1>5, ExecutorConstants DEF RecvHeartbeat
  <2> QED
    BY <1>5, <2>1, <2>2, <2>3, IdleFrame, PublishType
    DEF RecvHeartbeat, BackToSelect, bookVars, exVars
<1>6. CASE \E p \in Ticks : RecvTick(p)
  <2> PICK p \in Ticks : RecvTick(p)
    BY <1>6
  <2>1. p \in Packet /\ p.sym \in Symbols
    BY ExecutorConstants DEF Ticks, Packet
  <2>2. p # NoPacket
    BY <2>1, ExecutorConstants DEF NoPacket
  <2>3. sleep' \in 0..SleepTicks
    BY ExecutorConstants DEF RecvTick
  <2> QED
    BY <2>1, <2>2, <2>3 DEF RecvTick, Held, gateVars, bookVars, exVars
<1> QED
  BY <1>1, <1>2, <1>3, <1>4, <1>5, <1>6 DEF RecvMessage

LEMMA CloseStepKeeps ==
  ASSUME IndInv, CloseStep PROVE IndInv'
<1> USE DEF IndInv, TypeOK, FrameOK, TickPlaces, ClosePlaces, Entering, Awaiting
<1>1. CASE \E s \in Symbols : KeepPosition(s)
  BY <1>1 DEF KeepPosition, gateVars, bookVars, exVars
<1>2. CASE \E s \in Symbols : BeginClose(s)
  BY <1>2, ExecutorConstants DEF BeginClose, gateVars, bookVars, exVars
<1>3. CASE CancelStop
  BY <1>3 DEF CancelStop, frameVars, gateVars, bookVars
<1>4. CASE ReduceOnlyClose
  <2> DEFINE p == positions[cur]
             r == Reducible(cur, p.dir, p.qty)
  <2>1. cur \in Symbols /\ p \in Position
    BY <1>4 DEF ReduceOnlyClose
  <2>2. r \in Nat
    BY <2>1 DEF Reducible, Position, Dir
  <2>3. \A f \in Fills(r) : f \in Int
    BY <2>2 DEF Fills
  <2>4. ASSUME NEW d, NEW f \in Int, Executed(cur, d, f)
        PROVE  exPos' \in [Symbols -> Int]
    BY <2>1, <2>4, SMTT(30) DEF Executed
  <2>5. exPos' \in [Symbols -> Int]
    BY <1>4, <2>3, <2>4, Zenon DEF ReduceOnlyClose
  <2>6. /\ pc = "close"
        /\ \/ pc' = "record" /\ cur' = cur
           \/ CloseFailed
        /\ UNCHANGED <<pkt, todo, closed, qty, stopId, sleep, hbAge, gateVars,
                       lastSeq, bookVars, exStops, stopOrders, crashes>>
    BY <1>4, Zenon DEF ReduceOnlyClose
  <2> QED
    BY <2>5, <2>6 DEF CloseFailed, InTick, gateVars, bookVars
<1>5. CASE \E pnl \in PnlOutcomes : RecordExit(pnl)
  <2> PICK pnl \in PnlOutcomes : RecordExit(pnl)
    BY <1>5
  <2>3. pnl \in Int
    BY ExecutorConstants
  <2>4. \/ ledger' = [ledger EXCEPT !.realized = @ + pnl, !.exits = @ + 1]
        \/ ledger' = [ledger EXCEPT !.realized = @ + pnl, !.exits = @ + 1,
                                    !.lines = @ + 1]
    BY Zenon DEF RecordExit
  <2>1. ledger' \in Ledger
    BY <2>3, <2>4, LedgerTypes
  <2>2. positions' \in [Symbols -> Position]
    BY ConstantTypes DEF RecordExit
  <2> QED
    BY <2>1, <2>2 DEF RecordExit, InTick, gateVars, exVars
<1>6. CASE ExitsDone
  <2>1. positions' \in [Symbols -> Position]
    BY <1>6, ConstantTypes DEF ExitsDone
  <2> QED
    BY <1>6, <2>1 DEF ExitsDone, gateVars, exVars
<1>7. CASE FlattenDone
  <2>1. ledger' \in Ledger
    BY <1>7, LedgerField, 0 \in Int DEF FlattenDone
  <2> QED
    BY <1>7, <2>1, IdleFrame DEF FlattenDone, BackToSelect, gateVars, exVars
<1> QED
  BY <1>1, <1>2, <1>3, <1>4, <1>5, <1>6, <1>7 DEF CloseStep

LEMMA EntryStepKeeps ==
  ASSUME IndInv, EntryStep PROVE IndInv'
<1> USE DEF IndInv, TypeOK, FrameOK, TickPlaces, ClosePlaces, Entering, Awaiting
<1>1. CASE SkipEntry
  BY <1>1, IdleFrame DEF SkipEntry, BackToSelect, gateVars, bookVars, exVars
<1>2. CASE \E late \in BOOLEAN : DecideEntry(late)
  <2> PICK late \in BOOLEAN : DecideEntry(late)
    BY <1>2
  <2>1. pkt.sym \in Symbols /\ pkt.seq \in Nat
    BY DEF DecideEntry, Packet
  <2>2. lastSeq' \in [Symbols -> Nat]
    BY <2>1 DEF DecideEntry
  <2>3. \/ /\ pc' \in {"instrument", "open"}
           /\ qty' = Lot
           /\ UNCHANGED <<pkt, todo, closed, cur, stopId, sleep>>
        \/ BackToSelect
    BY Zenon DEF DecideEntry
  <2>4. /\ pc = "entry"
        /\ UNCHANGED <<hbAge, gateVars, bookVars, exVars, crashes>>
    BY Zenon DEF DecideEntry
  <2>5. CASE BackToSelect
    BY <2>2, <2>4, <2>5, IdleFrame DEF BackToSelect, gateVars, bookVars, exVars
  <2>6. CASE /\ pc' \in {"instrument", "open"}
             /\ qty' = Lot
             /\ UNCHANGED <<pkt, todo, closed, cur, stopId, sleep>>
    BY <2>2, <2>4, <2>6, ExecutorConstants DEF gateVars, bookVars, exVars
  <2> QED
    BY <2>3, <2>5, <2>6
<1>3. CASE FetchInstrument
  BY <1>3, IdleFrame
  DEF FetchInstrument, BackToSelect, frameVars, gateVars, bookVars, exVars
<1>4. CASE PlaceEntry
  <2>1. \A f \in Fills(qty) : f \in Nat
    BY DEF Fills
  <2>2. ASSUME NEW d, NEW f \in Int, Executed(pkt.sym, d, f)
        PROVE  exPos' \in [Symbols -> Int]
    BY <1>4, <2>2 DEF Executed, PlaceEntry
  <2>3. exPos' \in [Symbols -> Int]
    BY <1>4, <2>1, <2>2 DEF PlaceEntry
  <2>4. /\ pc = "place"
        /\ UNCHANGED <<hbAge, gateVars, lastSeq, bookVars, exStops, stopOrders,
                       crashes>>
        /\ \/ BackToSelect
           \/ /\ pc' = "poll"
              /\ qty' \in Fills(qty)
              /\ UNCHANGED <<pkt, todo, closed, cur, stopId, sleep>>
    BY <1>4, Zenon DEF PlaceEntry
  <2> QED
    BY <2>1, <2>3, <2>4, IdleFrame DEF BackToSelect, gateVars, bookVars
<1>5. CASE PollFill
  <2>1. \A f \in Fills(qty) : f \in Nat
    BY DEF Fills
  <2> QED
    BY <1>5, <2>1, IdleFrame DEF PollFill, BackToSelect, gateVars, bookVars, exVars
<1>6. CASE PlaceStop
  <2>1. RestingStop \in StopOrder
    BY <1>6 DEF PlaceStop, RestingStop, StopOrder, Packet
  <2>2. exStops' \in SUBSET StopOrder
    BY <1>6, <2>1 DEF PlaceStop
  <2>3. warm' \in WarmRiskState
    BY <1>6 DEF PlaceStop, WarmRiskState
  <2>4. /\ pc = "stop" /\ pc' \in {"open", "stopFailed"}
        /\ stopId' \in Nat /\ stopOrders' \in Nat
    BY <1>6 DEF PlaceStop
  <2>6. operatorHalt' \in BOOLEAN
    BY <1>6, Zenon DEF PlaceStop
  <2>5. UNCHANGED <<pkt, todo, closed, cur, qty, sleep, hbAge, flattenRequest,
                    safeMode, warmFlags, lastSeq, bookVars, exPos, crashes>>
    BY <1>6 DEF PlaceStop
  <2> QED
    BY <2>2, <2>3, <2>4, <2>5, <2>6 DEF bookVars
<1>7. CASE PublishStopFailure
  <2>1. warm' \in WarmRiskState /\ warmFlags' \in SUBSET RiskFlags
    BY <1>7, PublishType DEF PublishStopFailure
  <2> QED
    BY <1>7, <2>1 DEF PublishStopFailure, frameVars, bookVars, exVars
<1>8. CASE OpenPosition
  <2>1. [dir |-> pkt.dir, qty |-> qty, stop |-> stopId] \in Position
    BY DEF Position, Packet
  <2>2. positions' \in [Symbols -> Position]
    BY <1>8, <2>1 DEF OpenPosition
  <2>3. ledger' \in Ledger
    BY <1>8, LedgerTypes DEF OpenPosition
  <2> QED
    BY <1>8, <2>2, <2>3, IdleFrame DEF OpenPosition, BackToSelect, gateVars, exVars
<1> QED
  BY <1>1, <1>2, <1>3, <1>4, <1>5, <1>6, <1>7, <1>8 DEF EntryStep

LEMMA UnansweredKeeps ==
  ASSUME IndInv, Unanswered PROVE IndInv'
<1> USE DEF IndInv, TypeOK, FrameOK, TickPlaces, ClosePlaces, Entering, Awaiting
<1>1. UNCHANGED <<frameVars, sleep, hbAge, gateVars, lastSeq, bookVars, crashes>>
  BY Zenon DEF Unanswered
<1>2. exPos' \in [Symbols -> Int]
  <2> DEFINE r == Reducible(cur, positions[cur].dir, positions[cur].qty)
  <2>1. ASSUME NEW s \in Symbols, NEW d, NEW f \in Int, Executed(s, d, f)
        PROVE  exPos' \in [Symbols -> Int]
    BY <2>1, SMTT(30) DEF Executed
  <2>2. \A n \in Nat : \A f \in Fills(n) : f \in Int
    BY DEF Fills
  <2>3. \/ exPos' = exPos
        \/ pc = "close" /\ \E f \in Fills(r) : Executed(cur, -positions[cur].dir, f)
        \/ pc = "place" /\ \E f \in Fills(qty) : Executed(pkt.sym, pkt.dir, f)
    BY Zenon DEF Unanswered, exVars
  <2>4. CASE pc = "close" /\ \E f \in Fills(r) : Executed(cur, -positions[cur].dir, f)
    <3>1. r \in Nat /\ cur \in Symbols
      BY <2>4 DEF Reducible, Position, Dir
    <3> QED
      BY <2>1, <2>2, <2>4, <3>1, Zenon
  <2>5. CASE pc = "place" /\ \E f \in Fills(qty) : Executed(pkt.sym, pkt.dir, f)
    <3>1. qty \in Nat /\ pkt.sym \in Symbols
      BY <2>5
    <3> QED
      BY <2>1, <2>2, <2>5, <3>1, Zenon
  <2> QED
    BY <2>3, <2>4, <2>5
<1>3. exStops' \in SUBSET StopOrder /\ stopOrders' \in Nat
  <2>1. pc = "stop" => RestingStop \in StopOrder
    BY DEF RestingStop, StopOrder, Packet
  <2> QED
    BY <2>1 DEF Unanswered, exVars
<1>4. pc' = "hung"
  BY DEF Unanswered
<1>5. /\ pkt' \in Packet /\ todo' \in SUBSET Symbols /\ closed' \in SUBSET Symbols
      /\ cur' \in Symbols \cup {NoSymbol} /\ qty' \in Nat /\ stopId' \in Nat
      /\ sleep' \in 0..SleepTicks /\ hbAge' \in 0..HbTimeout + 1
  BY <1>1 DEF frameVars
<1>6. /\ operatorHalt' \in BOOLEAN /\ flattenRequest' \in BOOLEAN
      /\ safeMode' \in SafeModeState /\ warm' \in WarmRiskState
      /\ warmFlags' \in SUBSET RiskFlags /\ lastSeq' \in [Symbols -> Nat]
  BY <1>1 DEF gateVars
<1>7. /\ positions' \in [Symbols -> Position] /\ ledger' \in Ledger
      /\ seeded' \in Nat /\ crashes' \in 0..MaxCrashes
  BY <1>1 DEF bookVars
<1>8. FrameOK'
  BY <1>1, <1>4 DEF frameVars
<1>9. pc' \in Awaiting \cup {"down", "select", "exits", "flatten", "record",
                              "entry", "stopFailed", "open", "hung"}
  BY <1>4
<1>10. TypeOK'
  <2> HIDE DEF IndInv, FrameOK, Awaiting
  <2> QED
    BY <1>2, <1>3, <1>5, <1>6, <1>7, <1>9, Zenon DEF TypeOK
<1> QED
  BY <1>8, <1>10, Zenon

LEMMA TimerFiresKeeps ==
  ASSUME IndInv, TimerFires PROVE IndInv'
<1> USE DEF IndInv, TypeOK, FrameOK, TickPlaces, ClosePlaces, Entering, Awaiting
<1> DEFINE sm == IF hbAge > HbTimeout THEN OnMiss(safeMode) ELSE safeMode
           w == [warm EXCEPT !.entriesHalted = operatorHalt \/ HaltEntries(sm),
                             !.dayPnl = ledger.realized]
<1>1. safeMode' = sm /\ sm \in SafeModeState
  BY OnMissType DEF TimerFires
<1>2. (operatorHalt \/ HaltEntries(sm)) \in BOOLEAN /\ ledger.realized \in Int
  BY DEF Ledger
<1>3. w \in WarmRiskState
  BY <1>2 DEF WarmRiskState
<1>4. Publish(w) \/ UNCHANGED <<warm, warmFlags>>
  BY Zenon DEF TimerFires
<1>5. warm' \in WarmRiskState /\ warmFlags' \in SUBSET RiskFlags
  BY <1>3, <1>4, PublishType
<1> HIDE DEF sm, w
<1>6. UNCHANGED <<hbAge, operatorHalt, lastSeq, bookVars, exVars, crashes>>
  BY Zenon DEF TimerFires
<1>7. \/ /\ flattenRequest' = FALSE
         /\ todo' = Held
         /\ pc' = "flatten"
         /\ sleep' = SleepTicks
         /\ UNCHANGED <<pkt, closed, cur, qty, stopId>>
      \/ BackToSelect /\ UNCHANGED flattenRequest
  BY Zenon DEF TimerFires
<1>8. CASE BackToSelect /\ UNCHANGED flattenRequest
  BY <1>1, <1>5, <1>6, <1>8, IdleFrame DEF BackToSelect, bookVars, exVars
<1>9. CASE /\ flattenRequest' = FALSE
           /\ todo' = Held
           /\ pc' = "flatten"
           /\ sleep' = SleepTicks
           /\ UNCHANGED <<pkt, closed, cur, qty, stopId>>
  <2>1. todo' \in SUBSET Symbols
    BY <1>9 DEF Held
  <2>2. sleep' \in 0..SleepTicks
    BY <1>9, ExecutorConstants
  <2>3. flattenRequest' \in BOOLEAN
    BY <1>9, Zenon
  <2> QED
    BY <1>1, <1>5, <1>6, <1>9, <2>1, <2>2, <2>3 DEF bookVars, exVars
<1> QED
  BY <1>7, <1>8, <1>9

LEMMA ElapseKeeps ==
  ASSUME IndInv, Elapse PROVE IndInv'
BY ExecutorConstants
   DEF Elapse, IndInv, TypeOK, FrameOK, TickPlaces, ClosePlaces, Entering,
       Awaiting, frameVars, gateVars, bookVars, exVars

LEMMA BackgroundKeeps ==
  ASSUME IndInv, Background PROVE IndInv'
<1> USE DEF IndInv, TypeOK, FrameOK, TickPlaces, ClosePlaces, Entering, Awaiting
<1>1. CASE \E d \in BookDepths : DepthUpdate(d)
  <2> PICK d \in BookDepths : DepthUpdate(d)
    BY <1>1
  <2>1. [warm EXCEPT !.bookDepth = d] \in WarmRiskState
    BY ExecutorConstants DEF WarmRiskState
  <2> QED
    BY <2>1, PublishType DEF DepthUpdate, frameVars, bookVars, exVars
<1>2. CASE \E r \in FundingRates : FundingUpdate(r)
  <2> PICK r \in FundingRates : FundingUpdate(r)
    BY <1>2
  <2>1. [warm EXCEPT !.fundingRate = r] \in WarmRiskState
    BY ExecutorConstants DEF WarmRiskState
  <2> QED
    BY <2>1, PublishType DEF FundingUpdate, frameVars, bookVars, exVars
<1>3. CASE \E st \in exStops : StopTriggers(st)
  <2> PICK st \in exStops : StopTriggers(st)
    BY <1>3
  <2>1. Reducible(st.sym, st.dir, st.qty) \in Int
    BY DEF Reducible, StopOrder, Dir
  <2>3. ASSUME NEW s \in Symbols, NEW d, NEW f \in Int, Executed(s, d, f)
        PROVE  exPos' \in [Symbols -> Int]
    BY <2>3, SMTT(30) DEF Executed
  <2>4. st.sym \in Symbols
    BY DEF StopOrder
  <2>2. exPos' \in [Symbols -> Int]
    BY <2>1, <2>3, <2>4 DEF StopTriggers
  <2> QED
    BY <2>2 DEF StopTriggers, frameVars, gateVars, bookVars
<1> QED
  BY <1>1, <1>2, <1>3 DEF Background

LEMMA CrashKeeps ==
  ASSUME IndInv, Crash PROVE IndInv'
<1> USE DEF IndInv, TypeOK, FrameOK, TickPlaces, ClosePlaces, Entering, Awaiting
<1>1. warm' \in WarmRiskState /\ warmFlags' \in SUBSET RiskFlags
  BY ConstantTypes, PublishType DEF Crash
<1>2. crashes' \in 0..MaxCrashes
  BY ExecutorConstants DEF Crash
<1>3. lastSeq' \in [Symbols -> Nat] /\ positions' \in [Symbols -> Position]
  BY ConstantTypes DEF Crash
<1>4. hbAge' \in 0..HbTimeout + 1
  BY ExecutorConstants DEF Crash
<1>5. /\ operatorHalt' \in BOOLEAN /\ flattenRequest' \in BOOLEAN
      /\ safeMode' \in SafeModeState /\ ledger' \in Ledger /\ seeded' \in Nat
  BY ConstantTypes DEF Crash
<1> QED
  BY <1>1, <1>2, <1>3, <1>4, <1>5, IdleFrame DEF Crash, exVars

LEMMA StartupKeeps ==
  ASSUME IndInv, Startup PROVE IndInv'
<1> USE DEF IndInv, TypeOK, FrameOK, TickPlaces, ClosePlaces, Entering, Awaiting
<1>1. \A n \in Int : n # 0 => Adopted(n) \in Position
  BY DEF Adopted, Position, Dir
<1>2. positions' \in [Symbols -> Position]
  BY <1>1, ConstantTypes DEF Startup
<1>3. seeded' \in Nat
  <2>1. IsFiniteSet({s \in Symbols : exPos[s] # 0})
    BY ExecutorConstants, FS_Subset
  <2> QED
    BY <2>1, FS_CardinalityType DEF Startup
<1> QED
  BY <1>2, <1>3 DEF Startup, frameVars, gateVars, exVars

LEMMA IndInvStep == IndInv /\ [Next]_vars => IndInv'
<1> SUFFICES ASSUME IndInv, [Next]_vars PROVE IndInv'
  OBVIOUS
<1>1. CASE UNCHANGED vars
  BY <1>1 DEF vars, frameVars, gateVars, bookVars, exVars, IndInv, TypeOK,
              FrameOK, TickPlaces, ClosePlaces, Entering, Awaiting
<1> QED
  BY <1>1, RecvMessageKeeps, CloseStepKeeps, EntryStepKeeps, TimerFiresKeeps,
     UnansweredKeeps, ElapseKeeps, BackgroundKeeps, CrashKeeps, StartupKeeps DEF Next

\* Every reachable state of the executor is well typed (main.rs), for any
\* number of symbols, any thresholds, any operator and any exchange faults.
THEOREM TypeCorrect == Spec => []TypeOK
<1>1. IndInv => TypeOK
  BY DEF IndInv
<1> QED
  BY InitIndInv, IndInvStep, <1>1, PTL DEF Spec
=============================================================================

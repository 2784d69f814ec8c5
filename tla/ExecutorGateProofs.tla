------------------------- MODULE ExecutorGateProofs --------------------------
(***************************************************************************)
(* The entry gate of the executor holds, and implements the abstract       *)
(* TradeGate, for every value of the constants.                            *)
(***************************************************************************)
EXTENDS ExecutorProofs

\* Where a decision to enter is being carried out.
Carrying == Entering \cup {"stopFailed", "open"}

\* The inductive form: once decided, an entry meets no other position even
\* after its failed stop has halted entries.
GateInv ==
  /\ HaltAgrees
  /\ FlagsAgree
  /\ NoEntryWhileHalted
  /\ pc \in Carrying => Held = {}

LEMMA GateInit == Init => GateInv
BY DEF Init, GateInv, HaltAgrees, FlagsAgree, NoEntryWhileHalted, Carrying,
       Entering, NewWarmRisk, NewSafeMode, HaltEntries

\* A step that leaves the gate and the positions alone and does not begin to
\* carry out a decision keeps the invariant.
LEMMA GateFrame ==
  ASSUME GateInv, UNCHANGED <<gateVars, positions>>, pc # "stopFailed",
         pc' \in Entering => pc \in Entering,
         pc' \in Carrying => pc \in Carrying
  PROVE  GateInv'
<1>1. UNCHANGED <<operatorHalt, safeMode, warm, warmFlags, positions>>
  BY DEF gateVars
<1>2. Held' = Held
  BY <1>1 DEF Held
<1>3. HaltAgrees'
  BY <1>1, Zenon DEF GateInv, HaltAgrees
<1>4. FlagsAgree'
  BY <1>1, Zenon DEF GateInv, FlagsAgree
<1>5. EntriesHalted' <=> EntriesHalted
  BY <1>1, Zenon DEF EntriesHalted
<1>6. NoEntryWhileHalted'
  BY <1>2, <1>5, Zenon DEF GateInv, NoEntryWhileHalted
<1> QED
  BY <1>2, <1>3, <1>4, <1>6, Zenon DEF GateInv

\* So does one that leaves the gate alone and ends outside of Carrying.
LEMMA GateIdle ==
  ASSUME GateInv, UNCHANGED gateVars, pc # "stopFailed", pc' \notin Carrying
  PROVE  GateInv'
<1>1. UNCHANGED <<operatorHalt, safeMode, warm, warmFlags>>
  BY DEF gateVars
<1>2. HaltAgrees'
  BY <1>1, Zenon DEF GateInv, HaltAgrees
<1>3. FlagsAgree'
  BY <1>1, Zenon DEF GateInv, FlagsAgree
<1> QED
  BY <1>2, <1>3 DEF GateInv, NoEntryWhileHalted, Carrying

\* Outside of Carrying, publishing a warm state whose halt flag is right is
\* all the invariant asks of a step.
LEMMA GatePublished ==
  ASSUME pc' \notin Carrying, NEW w, Publish(w),
         w.entriesHalted <=> (operatorHalt' \/ HaltEntries(safeMode'))
  PROVE  GateInv'
<1>1. HaltAgrees'
  BY Zenon DEF Publish, HaltAgrees
<1>2. FlagsAgree'
  BY Zenon DEF Publish, FlagsAgree
<1> QED
  BY <1>1, <1>2 DEF GateInv, NoEntryWhileHalted, Carrying

\* The halt flag an EXCEPT writes into a warm state is the one read back.
LEMMA HaltField ==
  ASSUME NEW w \in WarmRiskState, NEW b, NEW n
  PROVE  /\ [w EXCEPT !.entriesHalted = b].entriesHalted = b
         /\ [w EXCEPT !.entriesHalted = b, !.dayPnl = n].entriesHalted = b
         /\ [w EXCEPT !.bookDepth = n].entriesHalted = w.entriesHalted
         /\ [w EXCEPT !.fundingRate = n].entriesHalted = w.entriesHalted
BY DEF WarmRiskState

LEMMA RecvMessageGate ==
  ASSUME IndInv, GateInv, RecvMessage PROVE GateInv'
<1>0. warm \in WarmRiskState
  BY DEF IndInv, TypeOK
<1>1. CASE RecvIgnored
  BY <1>1, GateFrame DEF RecvIgnored, BackToSelect, bookVars, Carrying, Entering
<1>2. CASE RecvHaltEntries
  <2>1. Publish([warm EXCEPT !.entriesHalted = TRUE]) /\ operatorHalt' = TRUE
        /\ pc' = "select"
    BY <1>2, Zenon DEF RecvHaltEntries, BackToSelect
  <2>2. [warm EXCEPT !.entriesHalted = TRUE].entriesHalted = TRUE
    BY <1>0, HaltField, Zenon
  <2>3. pc' \notin Carrying
    BY <2>1 DEF Carrying, Entering
  <2> QED
    BY <2>1, <2>2, <2>3, GatePublished, Zenon
<1>3. CASE RecvResumeEntries
  <2>1. /\ Publish([warm EXCEPT !.entriesHalted = HaltEntries(safeMode)])
        /\ operatorHalt' = FALSE /\ safeMode' = safeMode /\ pc' = "select"
    BY <1>3, Zenon DEF RecvResumeEntries, BackToSelect
  <2>2. [warm EXCEPT !.entriesHalted = HaltEntries(safeMode)].entriesHalted
          = HaltEntries(safeMode)
    BY <1>0, HaltField, Zenon
  <2>3. pc' \notin Carrying
    BY <2>1 DEF Carrying, Entering
  <2>4. HaltEntries(safeMode) <=> (operatorHalt' \/ HaltEntries(safeMode'))
    BY <2>1, Zenon
  <2> QED
    BY <2>1, <2>2, <2>3, <2>4, GatePublished, Zenon
<1>4. CASE RecvFlattenAll
  <2>1. Publish([warm EXCEPT !.entriesHalted = TRUE]) /\ operatorHalt' = TRUE
        /\ pc' = "select"
    BY <1>4, Zenon DEF RecvFlattenAll, BackToSelect
  <2>2. [warm EXCEPT !.entriesHalted = TRUE].entriesHalted = TRUE
    BY <1>0, HaltField, Zenon
  <2>3. pc' \notin Carrying
    BY <2>1 DEF Carrying, Entering
  <2> QED
    BY <2>1, <2>2, <2>3, GatePublished, Zenon
<1>5. CASE RecvHeartbeat
  <2> DEFINE h == operatorHalt \/ HaltEntries(safeMode')
             w == [warm EXCEPT !.entriesHalted = h, !.dayPnl = ledger.realized]
  <2>1. Publish(w) /\ operatorHalt' = operatorHalt /\ pc' = "select"
    BY <1>5, Zenon DEF RecvHeartbeat, BackToSelect
  <2>2. w.entriesHalted = h
    <3> HIDE DEF h
    <3> QED BY <1>0, HaltField
  <2>3. pc' \notin Carrying
    BY <2>1 DEF Carrying, Entering
  <2>4. w.entriesHalted <=> (operatorHalt' \/ HaltEntries(safeMode'))
    BY <2>1, <2>2, Zenon
  <2> QED
    BY <2>1, <2>3, <2>4, GatePublished, Zenon
<1>6. CASE \E p \in Ticks : RecvTick(p)
  BY <1>6, GateFrame DEF RecvTick, bookVars, Carrying, Entering
<1> QED
  BY <1>1, <1>2, <1>3, <1>4, <1>5, <1>6 DEF RecvMessage

LEMMA CloseStepGate ==
  ASSUME IndInv, GateInv, CloseStep PROVE GateInv'
<1> USE DEF Carrying, Entering
<1>1. CASE \E s \in Symbols : KeepPosition(s)
  BY <1>1, GateIdle DEF KeepPosition
<1>2. CASE \E s \in Symbols : BeginClose(s)
  BY <1>2, GateIdle DEF BeginClose
<1>3. CASE CancelStop
  BY <1>3, GateIdle DEF CancelStop
<1>4. CASE ReduceOnlyClose
  <2>1. /\ pc = "close" /\ UNCHANGED gateVars
        /\ pc' \in {"record", "exits"}
    BY <1>4, Zenon DEF ReduceOnlyClose, CloseFailed
  <2> QED
    BY <2>1, GateIdle
<1>5. CASE \E pnl \in PnlOutcomes : RecordExit(pnl)
  BY <1>5, GateIdle DEF RecordExit
<1>6. CASE ExitsDone
  BY <1>6, GateIdle DEF ExitsDone
<1>7. CASE FlattenDone
  BY <1>7, GateIdle DEF FlattenDone, BackToSelect
<1> QED
  BY <1>1, <1>2, <1>3, <1>4, <1>5, <1>6, <1>7 DEF CloseStep

LEMMA EntryStepGate ==
  ASSUME IndInv, GateInv, EntryStep PROVE GateInv'
<1> USE DEF Carrying, Entering
<1>0. warm \in WarmRiskState
  BY DEF IndInv, TypeOK
<1>1. CASE SkipEntry
  BY <1>1, GateIdle DEF SkipEntry, BackToSelect
<1>2. CASE \E late \in BOOLEAN : DecideEntry(late)
  <2> PICK late \in BOOLEAN : DecideEntry(late)
    BY <1>2
  <2>1. /\ pc = "entry" /\ ~EntriesHalted
        /\ UNCHANGED <<gateVars, bookVars>>
        /\ \/ BackToSelect
           \/ Held = {} /\ pc' \in {"instrument", "open"}
    BY Zenon DEF DecideEntry, MayOpen
  <2>2. CASE BackToSelect
    BY <2>1, <2>2, GateIdle DEF BackToSelect
  <2>3. CASE Held = {} /\ pc' \in {"instrument", "open"}
    <3>1. UNCHANGED <<operatorHalt, safeMode, warm, warmFlags, positions>>
      BY <2>1 DEF gateVars, bookVars
    <3>2. HaltAgrees'
      BY <3>1, Zenon DEF GateInv, HaltAgrees
    <3>3. FlagsAgree'
      BY <2>1, <3>1, Zenon DEF GateInv, FlagsAgree
    <3>4. ~EntriesHalted' /\ Held' = {}
      BY <2>1, <2>3, <3>1, Zenon DEF EntriesHalted, Held
    <3> QED
      BY <3>2, <3>3, <3>4, Zenon DEF GateInv, NoEntryWhileHalted
  <2> QED
    BY <2>1, <2>2, <2>3
<1>3. CASE FetchInstrument
  BY <1>3, GateFrame DEF FetchInstrument, BackToSelect, bookVars
<1>4. CASE PlaceEntry
  <2>1. /\ pc = "place" /\ UNCHANGED <<gateVars, bookVars>>
        /\ pc' \in {"poll", "select"}
    BY <1>4, Zenon DEF PlaceEntry, BackToSelect
  <2> QED
    BY <2>1, GateFrame DEF bookVars
<1>5. CASE PollFill
  BY <1>5, GateFrame DEF PollFill, BackToSelect, bookVars
<1>6. CASE PlaceStop
  <2>1. /\ pc = "stop"
        /\ UNCHANGED <<safeMode, warmFlags, bookVars>>
        /\ \/ pc' = "open" /\ UNCHANGED <<operatorHalt, warm>>
           \/ /\ pc' = "stopFailed"
              /\ operatorHalt' = TRUE
              /\ warm' = [warm EXCEPT !.entriesHalted = TRUE]
    BY <1>6, Zenon DEF PlaceStop
  <2>2. CASE pc' = "open" /\ UNCHANGED <<operatorHalt, warm>>
    BY <2>1, <2>2, GateFrame DEF gateVars, bookVars, GateInv, HaltAgrees,
       FlagsAgree, NoEntryWhileHalted, Held
  <2>3. CASE /\ pc' = "stopFailed"
             /\ operatorHalt' = TRUE
             /\ warm' = [warm EXCEPT !.entriesHalted = TRUE]
    <3>1. warm'.entriesHalted = TRUE
      BY <1>0, <2>3, HaltField, Zenon
    <3>2. HaltAgrees'
      BY <2>3, <3>1, Zenon DEF HaltAgrees
    <3>3. Held' = {}
      BY <2>1 DEF GateInv, Held, bookVars
    <3> QED
      BY <2>3, <3>2, <3>3 DEF GateInv, FlagsAgree, NoEntryWhileHalted
  <2> QED
    BY <2>1, <2>2, <2>3
<1>7. CASE PublishStopFailure
  <2>1. /\ pc = "stopFailed" /\ pc' = "open"
        /\ Publish(warm)
        /\ UNCHANGED <<operatorHalt, safeMode, bookVars>>
    BY <1>7, Zenon DEF PublishStopFailure
  <2>2. HaltAgrees'
    BY <2>1, Zenon DEF Publish, GateInv, HaltAgrees
  <2>3. FlagsAgree'
    BY <2>1, Zenon DEF Publish, FlagsAgree
  <2>4. Held' = {}
    BY <2>1 DEF GateInv, Held, bookVars
  <2> QED
    BY <2>1, <2>2, <2>3, <2>4 DEF GateInv, NoEntryWhileHalted
<1>8. CASE OpenPosition
  BY <1>8, GateIdle DEF OpenPosition, BackToSelect
<1> QED
  BY <1>1, <1>2, <1>3, <1>4, <1>5, <1>6, <1>7, <1>8 DEF EntryStep

LEMMA TimerFiresGate ==
  ASSUME IndInv, GateInv, TimerFires PROVE GateInv'
<1> DEFINE sm == IF hbAge > HbTimeout THEN OnMiss(safeMode) ELSE safeMode
           h == operatorHalt \/ HaltEntries(sm)
           w == [warm EXCEPT !.entriesHalted = h, !.dayPnl = ledger.realized]
<1>0. warm \in WarmRiskState
  BY DEF IndInv, TypeOK
<1>1. /\ pc = "select" /\ pc' \in {"select", "flatten"}
      /\ operatorHalt' = operatorHalt /\ safeMode' = sm
  BY Zenon DEF TimerFires, BackToSelect
<1>2. \/ Publish(w)
      \/ UNCHANGED <<warm, warmFlags>> /\ safeMode' = safeMode
  BY Zenon DEF TimerFires
<1>3. pc' \notin Carrying
  BY <1>1 DEF Carrying, Entering
<1>4. w.entriesHalted = h
  <2> HIDE DEF h
  <2> QED BY <1>0, HaltField
<1>5. w.entriesHalted <=> (operatorHalt' \/ HaltEntries(safeMode'))
  BY <1>1, <1>4, Zenon
<1>6. CASE Publish(w)
  BY <1>3, <1>5, <1>6, GatePublished, Zenon
<1>7. CASE UNCHANGED <<warm, warmFlags>> /\ safeMode' = safeMode
  <2>1. HaltAgrees'
    BY <1>1, <1>7, Zenon DEF GateInv, HaltAgrees
  <2>2. FlagsAgree'
    BY <1>1, <1>7, Zenon DEF GateInv, FlagsAgree
  <2> QED
    BY <1>3, <2>1, <2>2 DEF GateInv, NoEntryWhileHalted, Carrying
<1> QED
  BY <1>2, <1>6, <1>7

\* A background task republishes the flags wherever the loop task is.
LEMMA RepublishGate ==
  ASSUME GateInv, NEW w, Publish(w), w.entriesHalted = warm.entriesHalted,
         UNCHANGED <<pc, operatorHalt, safeMode, positions>>
  PROVE  GateInv'
<1>1. HaltAgrees'
  BY Zenon DEF Publish, GateInv, HaltAgrees
<1>2. FlagsAgree'
  BY Zenon DEF Publish, FlagsAgree
<1>3. EntriesHalted' <=> EntriesHalted
  BY Zenon DEF Publish, EntriesHalted
<1>4. Held' = Held
  BY DEF Held
<1> QED
  BY <1>1, <1>2, <1>3, <1>4, Zenon DEF GateInv, NoEntryWhileHalted

LEMMA BackgroundGate ==
  ASSUME IndInv, GateInv, Background PROVE GateInv'
<1>0. warm \in WarmRiskState
  BY DEF IndInv, TypeOK
<1>1. CASE \E d \in BookDepths : DepthUpdate(d)
  <2> PICK d \in BookDepths : DepthUpdate(d)
    BY <1>1
  <2>1. [warm EXCEPT !.bookDepth = d].entriesHalted = warm.entriesHalted
    BY <1>0, HaltField, Zenon
  <2>2. /\ Publish([warm EXCEPT !.bookDepth = d])
        /\ UNCHANGED <<pc, operatorHalt, safeMode, positions>>
    BY DEF DepthUpdate, bookVars
  <2> QED
    BY <2>1, <2>2, RepublishGate, Zenon
<1>2. CASE \E r \in FundingRates : FundingUpdate(r)
  <2> PICK r \in FundingRates : FundingUpdate(r)
    BY <1>2
  <2>1. [warm EXCEPT !.fundingRate = r].entriesHalted = warm.entriesHalted
    BY <1>0, HaltField, Zenon
  <2>2. /\ Publish([warm EXCEPT !.fundingRate = r])
        /\ UNCHANGED <<pc, operatorHalt, safeMode, positions>>
    BY DEF FundingUpdate, bookVars
  <2> QED
    BY <2>1, <2>2, RepublishGate, Zenon
<1>3. CASE \E st \in exStops : StopTriggers(st)
  <2>1. UNCHANGED <<pc, gateVars, bookVars>>
    BY <1>3, Zenon DEF StopTriggers
  <2> QED
    BY <2>1 DEF gateVars, bookVars, GateInv, HaltAgrees, FlagsAgree,
       NoEntryWhileHalted, EntriesHalted, HaltEntries, Held
<1> QED
  BY <1>1, <1>2, <1>3 DEF Background

LEMMA CrashGate ==
  ASSUME Crash PROVE GateInv'
<1>1. /\ Publish(NewWarmRisk) /\ pc' = "down"
      /\ operatorHalt' = FALSE /\ safeMode' = NewSafeMode
  BY Zenon DEF Crash
<1>2. ~HaltEntries(NewSafeMode) /\ NewWarmRisk.entriesHalted = FALSE
  BY DEF HaltEntries, NewSafeMode, NewWarmRisk
<1>3. NewWarmRisk.entriesHalted <=> (operatorHalt' \/ HaltEntries(safeMode'))
  BY <1>1, <1>2, Zenon
<1>4. pc' \notin Carrying
  BY <1>1 DEF Carrying, Entering
<1> QED
  BY <1>1, <1>3, <1>4, GatePublished, Zenon

LEMMA GateStep == IndInv /\ GateInv /\ [Next]_vars => GateInv'
<1> SUFFICES ASSUME IndInv, GateInv, [Next]_vars PROVE GateInv'
  OBVIOUS
<1>1. CASE UNCHANGED <<pc, gateVars, positions>>
  BY <1>1 DEF gateVars, GateInv, HaltAgrees, FlagsAgree, NoEntryWhileHalted,
              EntriesHalted, HaltEntries, Held
<1>2. Elapse => UNCHANGED <<pc, gateVars, positions>>
  BY Zenon DEF Elapse, bookVars
<1>3. UNCHANGED vars => UNCHANGED <<pc, gateVars, positions>>
  BY DEF vars, bookVars
<1>4. CASE Startup
  BY <1>4, GateIdle DEF Startup, Carrying, Entering
<1>5. CASE Unanswered
  BY <1>5, GateIdle DEF Unanswered, Awaiting, Carrying, Entering
<1> QED
  BY <1>1, <1>2, <1>3, <1>4, <1>5, RecvMessageGate, CloseStepGate, EntryStepGate,
     TimerFiresGate, BackgroundGate, CrashGate DEF Next

LEMMA GateAlways == Spec => [](IndInv /\ GateInv)
BY InitIndInv, IndInvStep, GateInit, GateStep, PTL DEF Spec

\* The shared halt flag is what operator and safe mode say together, in every
\* reachable state (the six writers of entries_halted in main.rs).
THEOREM HaltAlwaysAgrees == Spec => []HaltAgrees
<1>1. GateInv => HaltAgrees
  BY DEF GateInv
<1> QED
  BY <1>1, GateAlways, PTL

\* The flag word of the risk engine never lags behind the warm state but
\* between the two locks of a failed stop order (main.rs:748-749).
THEOREM FlagsAlwaysAgree == Spec => []FlagsAgree
<1>1. GateInv => FlagsAgree
  BY DEF GateInv
<1> QED
  BY <1>1, GateAlways, PTL

\* No entry is on its way to the exchange while entries are halted or another
\* position is tracked (main.rs:635-641), whatever the exchange answers.
THEOREM EntriesRespectHalt == Spec => []NoEntryWhileHalted
<1>1. GateInv => NoEntryWhileHalted
  BY DEF GateInv
<1> QED
  BY <1>1, GateAlways, PTL

-----------------------------------------------------------------------------
(* The decision to enter. *)

\* Only check_entry's Open, with no position held, begins to carry out an entry.
LEMMA DecisionStep ==
  ASSUME [Next]_vars, pc = "entry", pc' \in {"instrument", "open"}
  PROVE  \E late \in BOOLEAN : DecideEntry(late) /\ MayOpen(late)
<1>1. pc' # pc
  OBVIOUS
<1>2. ~UNCHANGED vars
  BY <1>1 DEF vars
<1>3. ~RecvMessage
  BY DEF RecvMessage, RecvIgnored, RecvHaltEntries, RecvResumeEntries,
     RecvFlattenAll, RecvHeartbeat, RecvTick
<1>4. ~CloseStep
  BY DEF CloseStep, KeepPosition, BeginClose, CancelStop, ReduceOnlyClose,
     RecordExit, ExitsDone, FlattenDone
<1>5. ~TimerFires /\ ~Startup /\ ~Crash
  BY Zenon DEF TimerFires, Startup, Crash
<1>6. ~Elapse /\ ~Unanswered
  BY <1>1 DEF Elapse, Unanswered
<1>7. ~Background
  BY <1>1, Zenon DEF Background, DepthUpdate, FundingUpdate, StopTriggers
<1>8. EntryStep
  BY <1>2, <1>3, <1>4, <1>5, <1>6, <1>7, Zenon DEF Next
<1>9. \E late \in BOOLEAN : DecideEntry(late)
  BY <1>8, Zenon DEF EntryStep, SkipEntry, BackToSelect, FetchInstrument,
     PlaceEntry, PollFill, PlaceStop, PublishStopFailure, OpenPosition
<1>10. PICK late \in BOOLEAN : DecideEntry(late)
  BY <1>9
<1>11. MayOpen(late)
  BY <1>10, Zenon DEF DecideEntry, BackToSelect
<1> QED
  BY <1>10, <1>11

\* A loss a heartbeat or a miss has seen keeps entries out (main.rs:478 and
\* risk.rs:129): the flag word agrees with the warm state when the loop decides.
THEOREM SeenLossKeepsOut == Spec => NoEntryAfterSeenLoss
<1>1. ASSUME IndInv, GateInv, [Next]_vars, pc = "entry",
             pc' \in {"instrument", "open"}
      PROVE  warm.dayPnl > -MaxDailyDd
  <2>1. PICK late \in BOOLEAN : MayOpen(late)
    BY <1>1, DecisionStep
  <2>2. RiskFlags \subseteq warmFlags
    BY <2>1, Zenon DEF MayOpen, CheckEntry, AllRequiredFutures
  <2>3. warmFlags = ComputeFlags(warm)
    BY <1>1 DEF GateInv, FlagsAgree
  <2>4. "DD_OK" \in ComputeFlags(warm)
    BY <2>2, <2>3 DEF RiskFlags
  <2>5. ~DrawdownReached(warm)
    BY <2>4, Zenon DEF ComputeFlags
  <2>6. warm.dayPnl \in Int
    BY <1>1 DEF IndInv, TypeOK, WarmRiskState
  <2> QED
    BY <2>5, <2>6, WarmLimits DEF DrawdownReached
<1>2. IndInv /\ GateInv /\ [Next]_vars =>
        [pc = "entry" /\ pc' \in {"instrument", "open"} =>
           warm.dayPnl > -MaxDailyDd]_vars
  BY <1>1, Zenon
<1> QED
  BY <1>2, GateAlways, PTL DEF Spec, NoEntryAfterSeenLoss

\* An operator's halt is lifted by ResumeEntries or by the loss of the process
\* and by nothing else (main.rs:441-447).
THEOREM HaltNeedsResume == Spec => OnlyResumeLiftsHalt
<1>1. ASSUME [Next]_vars, operatorHalt, ~operatorHalt'
      PROVE  RecvResumeEntries \/ Crash
  <2>1. operatorHalt' # operatorHalt /\ operatorHalt' # TRUE
    BY <1>1, Zenon
  <2>2. ~UNCHANGED vars /\ ~UNCHANGED gateVars
    BY <2>1, Zenon DEF vars, gateVars
  <2>3. RecvMessage => RecvResumeEntries
    BY <2>1, <2>2, Zenon DEF RecvMessage, RecvIgnored, RecvHaltEntries,
       RecvFlattenAll, RecvHeartbeat, RecvTick
  <2>4. ~CloseStep
    BY <2>2, Zenon DEF CloseStep, KeepPosition, BeginClose, CancelStop,
       ReduceOnlyClose, RecordExit, ExitsDone, FlattenDone
  <2>5. ~EntryStep
    BY <2>1, <2>2, Zenon DEF EntryStep, SkipEntry, DecideEntry, FetchInstrument,
       PlaceEntry, PollFill, PlaceStop, PublishStopFailure, OpenPosition
  <2>6. ~TimerFires /\ ~Unanswered /\ ~Elapse /\ ~Startup
    BY <2>1, <2>2, Zenon DEF TimerFires, Unanswered, Elapse, Startup
  <2>7. ~Background
    BY <2>1, <2>2, Zenon DEF Background, DepthUpdate, FundingUpdate, StopTriggers
  <2> QED
    BY <1>1, <2>2, <2>3, <2>4, <2>5, <2>6, <2>7, Zenon DEF Next
<1>2. [Next]_vars => [operatorHalt /\ ~operatorHalt' =>
                        RecvResumeEntries \/ Crash]_vars
  BY <1>1, Zenon
<1> QED
  BY <1>2, PTL DEF Spec, OnlyResumeLiftsHalt
-----------------------------------------------------------------------------
(* The executor implements the abstract TradeGate: each of its steps is a step
   of the gate or leaves the gate alone.  IndInv says that a decision is about
   an enabled symbol, GateInv that nothing is held while it is carried out. *)

LEMMA InitRefines == Init => Gate!GateInit
BY DEF Init, Gate!GateInit, Entering, Held, NoPosition, EntriesHalted

\* With no decision under way the gate may open, shut or stay as it is.
LEMMA SwitchStep ==
  ASSUME pc # "down", pc' # "down", pc \notin Carrying, pc' \notin Carrying,
         UNCHANGED positions
  PROVE  Gate!GateNext
<1>1. Held' = Held
  BY DEF Held
<1>2. Gate!Switch
  BY <1>1 DEF Gate!Switch, Carrying, Entering
<1> QED
  BY <1>2 DEF Gate!GateNext

\* Positions are let go while no decision is under way.
LEMMA ReleaseStep ==
  ASSUME NEW S \in SUBSET Symbols, Held' = Held \ S, UNCHANGED gateVars,
         pc # "down", pc' # "down", pc \notin Carrying, pc' \notin Carrying
  PROVE  Gate!GateNext
<1>1. EntriesHalted' = EntriesHalted
  BY Zenon DEF gateVars, EntriesHalted
<1>2. Gate!Release(S)
  BY <1>1 DEF Gate!Release, Carrying, Entering
<1> QED
  BY <1>2 DEF Gate!GateNext

\* While a decision is carried out the gate stays as it is, or shuts.
LEMMA CarryStep ==
  ASSUME pc \in Carrying, pc' \in Carrying, UNCHANGED <<pkt, positions>>,
         \/ UNCHANGED <<operatorHalt, safeMode, warm>>
         \/ EntriesHalted'
  PROVE  Gate!GateNext \/ UNCHANGED Gate!gate
<1>1. Held' = Held
  BY DEF Held
<1>2. CASE UNCHANGED <<operatorHalt, safeMode, warm>>
  <2>1. EntriesHalted' = EntriesHalted
    BY <1>2, Zenon DEF EntriesHalted
  <2> QED
    BY <1>1, <2>1 DEF Gate!gate, Carrying, Entering
<1>3. CASE EntriesHalted'
  <2>1. Gate!Switch
    BY <1>1, <1>3 DEF Gate!Switch, Carrying, Entering
  <2> QED
    BY <2>1 DEF Gate!GateNext
<1> QED
  BY <1>2, <1>3

\* A decision ends in nothing, or in the position it was about.
LEMMA SettleStep ==
  ASSUME pc \in Carrying, pc' \in {"select", "hung"}, UNCHANGED gateVars,
         Held' \in {Held, Held \cup {pkt.sym}}
  PROVE  Gate!GateNext
<1>1. EntriesHalted' = EntriesHalted
  BY Zenon DEF gateVars, EntriesHalted
<1>2. Gate!Settle
  BY <1>1 DEF Gate!Settle, Carrying, Entering
<1> QED
  BY <1>2 DEF Gate!GateNext

LEMMA RecvMessageRefines ==
  ASSUME RecvMessage PROVE Gate!GateNext
<1>1. /\ pc = "select" /\ pc' \in {"select", "exits"}
      /\ UNCHANGED positions
  BY Zenon DEF RecvMessage, RecvIgnored, RecvHaltEntries, RecvResumeEntries,
     RecvFlattenAll, RecvHeartbeat, RecvTick, BackToSelect, bookVars
<1> QED
  BY <1>1, SwitchStep DEF Carrying, Entering

LEMMA CloseStepRefines ==
  ASSUME IndInv, CloseStep PROVE Gate!GateNext
<1> USE DEF Carrying, Entering
<1>1. CASE \E s \in Symbols : KeepPosition(s)
  BY <1>1, SwitchStep DEF KeepPosition, bookVars
<1>2. CASE \E s \in Symbols : BeginClose(s)
  BY <1>2, SwitchStep DEF BeginClose, bookVars
<1>3. CASE CancelStop
  BY <1>3, SwitchStep DEF CancelStop, bookVars
<1>4. CASE ReduceOnlyClose
  <2>1. /\ pc = "close" /\ UNCHANGED bookVars
        /\ pc' \in {"record", "exits"}
    BY <1>4, Zenon DEF ReduceOnlyClose, CloseFailed
  <2> QED
    BY <2>1, SwitchStep DEF bookVars
<1>5. CASE \E pnl \in PnlOutcomes : RecordExit(pnl)
  <2> PICK pnl \in PnlOutcomes : RecordExit(pnl)
    BY <1>5
  <2>1. /\ pc = "record" /\ pc' \in {"exits", "flatten"}
        /\ UNCHANGED gateVars
        /\ \/ UNCHANGED positions
           \/ positions' = [positions EXCEPT ![cur] = NoPosition]
    BY Zenon DEF RecordExit
  <2>2. CASE UNCHANGED positions
    BY <2>1, <2>2, SwitchStep
  <2>3. CASE positions' = [positions EXCEPT ![cur] = NoPosition]
    <3>1. positions \in [Symbols -> Position] /\ cur \in Symbols
      BY <2>1 DEF IndInv, TypeOK, FrameOK, ClosePlaces
    <3>2. Held' = Held \ {cur}
      BY <2>3, <3>1 DEF Held, NoPosition
    <3>3. {cur} \in SUBSET Symbols
      BY <3>1
    <3>4. pc # "down" /\ pc' # "down" /\ pc \notin Carrying /\ pc' \notin Carrying
      BY <2>1
    <3> QED
      BY <2>1, <3>2, <3>3, <3>4, ReleaseStep, Zenon
  <2> QED
    BY <2>1, <2>2, <2>3
<1>6. CASE ExitsDone
  <2>1. /\ pc = "exits" /\ pc' = "entry" /\ UNCHANGED gateVars
        /\ positions' = [s \in Symbols |->
                           IF s \in closed THEN NoPosition ELSE positions[s]]
    BY <1>6, Zenon DEF ExitsDone
  <2>2. closed \in SUBSET Symbols
    BY DEF IndInv, TypeOK
  <2>3. Held' = Held \ closed
    BY <2>1 DEF Held, NoPosition
  <2> QED
    BY <2>1, <2>2, <2>3, ReleaseStep
<1>7. CASE FlattenDone
  BY <1>7, SwitchStep DEF FlattenDone, BackToSelect
<1> QED
  BY <1>1, <1>2, <1>3, <1>4, <1>5, <1>6, <1>7 DEF CloseStep

LEMMA EntryStepRefines ==
  ASSUME IndInv, GateInv, EntryStep PROVE Gate!GateNext \/ UNCHANGED Gate!gate
<1> USE DEF Carrying, Entering
<1>1. CASE SkipEntry
  BY <1>1, SwitchStep DEF SkipEntry, BackToSelect, bookVars
<1>2. CASE \E late \in BOOLEAN : DecideEntry(late)
  <2> PICK late \in BOOLEAN : DecideEntry(late)
    BY <1>2
  <2>1. /\ pc = "entry" /\ ~EntriesHalted
        /\ UNCHANGED <<gateVars, bookVars>>
        /\ \/ BackToSelect
           \/ Held = {} /\ pc' \in {"instrument", "open"} /\ pkt' = pkt
    BY Zenon DEF DecideEntry, MayOpen
  <2>2. CASE BackToSelect
    BY <2>1, <2>2, SwitchStep DEF BackToSelect, bookVars
  <2>3. CASE Held = {} /\ pc' \in {"instrument", "open"} /\ pkt' = pkt
    <3>1. pkt.sym \in Symbols
      BY <2>1 DEF IndInv, FrameOK, TickPlaces
    <3>2. EntriesHalted' = EntriesHalted
      BY <2>1, Zenon DEF gateVars, EntriesHalted
    <3>3. Held' = Held
      BY <2>1 DEF Held, bookVars
    <3>4. Gate!Decide(pkt.sym)
      BY <2>1, <2>3, <3>2, <3>3 DEF Gate!Decide
    <3> QED
      BY <3>1, <3>4 DEF Gate!GateNext
  <2> QED
    BY <2>1, <2>2, <2>3
<1>3. CASE FetchInstrument
  <2>1. /\ pc = "instrument" /\ UNCHANGED <<gateVars, bookVars>>
        /\ \/ pc' = "select"
           \/ pc' = "place" /\ UNCHANGED pkt
    BY <1>3, Zenon DEF FetchInstrument, BackToSelect, frameVars
  <2> QED
    BY <2>1, CarryStep, SettleStep DEF gateVars, bookVars, Held
<1>4. CASE PlaceEntry
  <2>1. /\ pc = "place" /\ UNCHANGED <<gateVars, bookVars>>
        /\ \/ pc' = "select"
           \/ pc' = "poll" /\ UNCHANGED pkt
    BY <1>4, Zenon DEF PlaceEntry, BackToSelect
  <2> QED
    BY <2>1, CarryStep, SettleStep DEF gateVars, bookVars, Held
<1>5. CASE PollFill
  <2>1. /\ pc = "poll" /\ UNCHANGED <<gateVars, bookVars>>
        /\ \/ pc' = "select"
           \/ pc' = "stop" /\ UNCHANGED pkt
    BY <1>5, Zenon DEF PollFill, BackToSelect
  <2> QED
    BY <2>1, CarryStep, SettleStep DEF gateVars, bookVars, Held
<1>6. CASE PlaceStop
  <2>1. /\ pc = "stop" /\ UNCHANGED <<pkt, safeMode, bookVars>>
        /\ \/ pc' = "open" /\ UNCHANGED <<operatorHalt, warm>>
           \/ pc' = "stopFailed" /\ operatorHalt' = TRUE
    BY <1>6, Zenon DEF PlaceStop
  <2>2. operatorHalt' = TRUE => EntriesHalted'
    BY Zenon DEF EntriesHalted
  <2> QED
    BY <2>1, <2>2, CarryStep DEF bookVars
<1>7. CASE PublishStopFailure
  <2>1. /\ pc = "stopFailed" /\ pc' = "open" /\ warm' = warm
        /\ UNCHANGED <<pkt, operatorHalt, safeMode, positions>>
    BY <1>7, Zenon DEF PublishStopFailure, Publish, frameVars, bookVars
  <2> QED
    BY <2>1, CarryStep
<1>8. CASE OpenPosition
  <2>1. /\ pc = "open" /\ pc' = "select" /\ UNCHANGED gateVars
        /\ positions' = [positions EXCEPT
             ![pkt.sym] = [dir |-> pkt.dir, qty |-> qty, stop |-> stopId]]
    BY <1>8, Zenon DEF OpenPosition, BackToSelect
  <2>2. positions \in [Symbols -> Position] /\ Held = {}
    BY <2>1 DEF IndInv, TypeOK, GateInv
  <2>3. \A s \in Symbols : s # pkt.sym => positions'[s] = positions[s]
    BY <2>1, <2>2
  <2>4. Held' \in {{}, {pkt.sym}}
    BY <2>2, <2>3 DEF Held
  <2> QED
    BY <2>1, <2>2, <2>4, SettleStep
<1> QED
  BY <1>1, <1>2, <1>3, <1>4, <1>5, <1>6, <1>7, <1>8 DEF EntryStep

LEMMA TimerFiresRefines ==
  ASSUME TimerFires PROVE Gate!GateNext
<1>1. /\ pc = "select" /\ pc' \in {"select", "flatten"}
      /\ UNCHANGED bookVars
  BY Zenon DEF TimerFires, BackToSelect
<1> QED
  BY <1>1, SwitchStep DEF Carrying, Entering, bookVars

\* A request that is never answered ends the decision it was sent for.
LEMMA UnansweredRefines ==
  ASSUME Unanswered PROVE Gate!GateNext
<1>1. /\ pc \in Awaiting /\ pc' = "hung"
      /\ UNCHANGED <<gateVars, positions>>
  BY Zenon DEF Unanswered, bookVars
<1>2. CASE pc \in Carrying
  BY <1>1, <1>2, SettleStep DEF Held
<1>3. CASE pc \notin Carrying
  BY <1>1, <1>3, SwitchStep DEF Awaiting, Carrying, Entering
<1> QED
  BY <1>2, <1>3

\* The clock, the background tasks and the exchange do not move the gate.
LEMMA ElsewhereRefines ==
  ASSUME IndInv, Elapse \/ Background PROVE UNCHANGED Gate!gate
<1>1. UNCHANGED <<pc, pkt, operatorHalt, safeMode, positions>>
  BY Zenon DEF Elapse, Background, DepthUpdate, FundingUpdate, StopTriggers,
     frameVars, gateVars, bookVars
<1>2. warm'.entriesHalted = warm.entriesHalted
  <2>1. warm \in WarmRiskState
    BY DEF IndInv, TypeOK
  <2>2. \/ warm' = warm
        \/ \E d \in BookDepths : warm' = [warm EXCEPT !.bookDepth = d]
        \/ \E r \in FundingRates : warm' = [warm EXCEPT !.fundingRate = r]
    BY Zenon DEF Elapse, Background, DepthUpdate, FundingUpdate, StopTriggers,
       Publish, gateVars
  <2>3. ASSUME NEW d, warm' = [warm EXCEPT !.bookDepth = d]
        PROVE  warm'.entriesHalted = warm.entriesHalted
    BY <2>1, <2>3, HaltField, Zenon
  <2>4. ASSUME NEW r, warm' = [warm EXCEPT !.fundingRate = r]
        PROVE  warm'.entriesHalted = warm.entriesHalted
    BY <2>1, <2>4, HaltField, Zenon
  <2> QED
    BY <2>2, <2>3, <2>4, Zenon
<1>3. EntriesHalted' = EntriesHalted
  BY <1>1, <1>2, Zenon DEF EntriesHalted
<1>4. Held' = Held
  BY <1>1 DEF Held
<1> QED
  BY <1>1, <1>3, <1>4 DEF Gate!gate, Entering

LEMMA CrashRefines ==
  ASSUME Crash PROVE Gate!GateNext
<1>1. /\ pc # "down" /\ pc' = "down"
      /\ positions' = [s \in Symbols |-> NoPosition]
  BY Zenon DEF Crash
<1>2. Held' = {}
  BY <1>1 DEF Held, NoPosition
<1>3. Gate!Stop
  BY <1>1, <1>2 DEF Gate!Stop, Entering
<1> QED
  BY <1>3 DEF Gate!GateNext

LEMMA StartupRefines ==
  ASSUME Startup PROVE Gate!GateNext
<1>1. /\ pc = "down" /\ pc' = "select" /\ UNCHANGED gateVars
  BY Zenon DEF Startup
<1>2. EntriesHalted' = EntriesHalted
  BY <1>1, Zenon DEF gateVars, EntriesHalted
<1>3. Held' \in SUBSET Symbols
  BY DEF Held
<1>4. Gate!Start(Held')
  BY <1>1, <1>2 DEF Gate!Start, Entering
<1> QED
  BY <1>3, <1>4 DEF Gate!GateNext

LEMMA NextRefines ==
  IndInv /\ GateInv /\ [Next]_vars => [Gate!GateNext]_(Gate!gate)
<1> SUFFICES ASSUME IndInv, GateInv, [Next]_vars
             PROVE  Gate!GateNext \/ UNCHANGED Gate!gate
  OBVIOUS
<1>1. CASE UNCHANGED vars
  BY <1>1 DEF vars, frameVars, gateVars, bookVars, Gate!gate, EntriesHalted,
              Entering, Held, HaltEntries
<1> QED
  BY <1>1, RecvMessageRefines, CloseStepRefines, EntryStepRefines,
     UnansweredRefines, TimerFiresRefines, ElsewhereRefines, CrashRefines, StartupRefines
     DEF Next

\* The entries of the executor (main.rs:627-641) are entries of the abstract
\* gate: taken one at a time, while the gate is open and nothing is held, and
\* no command, heartbeat or timer opens the gate in the middle of one.
THEOREM ImplementsGate == Spec => RefinesGate
<1>1. Spec => [](IndInv /\ GateInv)
  BY GateAlways
<1> QED
  BY <1>1, InitRefines, NextRefines, PTL DEF Spec, RefinesGate, Gate!GateSpec
=============================================================================

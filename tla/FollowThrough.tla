--------------------------- MODULE FollowThrough ----------------------------
(***************************************************************************)
(* The follow-through gate: crates/observer-core/src/follow_through.rs and *)
(* the parts of the tick handler of crates/executor-bin/src/main.rs that   *)
(* feed it.  Each entry leaves a sample; once it is old enough, a tick of  *)
(* any symbol compares Bybit's mid price with the one of the entry.  The   *)
(* window of outcomes of a symbol decides whether its next entry is valid. *)
(***************************************************************************)
EXTENDS Integers, Sequences, FiniteSets

CONSTANTS
  Symbols,     \* the enabled symbols
  NoSymbol,    \* no entry is under way
  Capacity,    \* outcomes a window holds: 200, and never fewer than 10
  MinSamples,  \* outcomes before the gate is enforced: 20
  MinRate,     \* follow_through_min of each symbol, in percent
  Wait,        \* the 300 ms a sample waits, in steps of the clock
  Mids,        \* mid prices of Bybit
  MaxPending   \* bound: samples that wait at the same time

ASSUME FollowThroughConstants ==
  /\ NoSymbol \notin Symbols
  /\ Capacity \in Nat \ {0}
  /\ MinSamples \in Nat
  /\ MinRate \in [Symbols -> 0..100]
  /\ Wait \in Nat
  /\ Mids \subseteq Nat \ {0}
  /\ MaxPending \in Nat

VARIABLES
  window,   \* FollowThroughTracker.window of each symbol, oldest first
  pending,  \* pending_ft, the samples of each symbol in the order of entry
  mid,      \* LagState.bybit_mid of each symbol, 0 before the first quote
  order     \* the sample of the entry under way: its order awaits the exchange

vars == <<window, pending, mid, order>>

Dir == {1, -1}

Sample == [age : Nat, dir : Dir, mid : Nat]
NoOrder == [sym |-> NoSymbol, age |-> 0, dir |-> 1, mid |-> 0]
-----------------------------------------------------------------------------
(* The tracker. *)

Last(w, n) == IF Len(w) <= n THEN w ELSE SubSeq(w, Len(w) - n + 1, Len(w))

\* Mutant of Record.
RecordKeepsAll(w, outcomes) == w \o outcomes

Record(w, outcomes) == Last(w \o outcomes, Capacity)

Wins(w) == Cardinality({i \in DOMAIN w : w[i]})

AllowsEntry(s, w) ==
  Len(w) >= MinSamples => Wins(w) * 100 >= MinRate[s] * Len(w)
-----------------------------------------------------------------------------
(* The tick handler. *)

\* A sample one step of the clock later; what is due does not grow older.
Older(e) == [e EXCEPT !.age = IF e.age < Wait THEN e.age + 1 ELSE e.age]

\* Samples are pushed in the order of their times, so the due ones come first.
DueCount(s) == Cardinality({i \in DOMAIN pending[s] : pending[s][i].age >= Wait})

\* ret * dir > 0
Aligned(s, e) == (mid[s] - e.mid) * e.dir > 0

Outcomes(s) == [i \in 1..DueCount(s) |-> Aligned(s, pending[s][i])]

\* Mutant of Settle.
SettleOwn(s) ==
  /\ window' = [window EXCEPT ![s] = Record(@, Outcomes(s))]
  /\ pending' = [pending EXCEPT ![s] = SubSeq(@, DueCount(s) + 1, Len(@))]

\* A tick settles the due samples of every symbol, not only of its own s.
Settle(s) ==
  /\ window' = [t \in Symbols |-> Record(window[t], Outcomes(t))]
  /\ pending' = [t \in Symbols |->
                   SubSeq(pending[t], DueCount(t) + 1, Len(pending[t]))]

\* Mutant of MayEnter.
MayEnterUngated(s) == mid[s] # 0

\* A signal without a Bybit quote is stale and never valid.
MayEnter(s) == AllowsEntry(s, window'[s]) /\ mid[s] # 0

\* How many samples a pending list p holds.
Waiting(p) == Cardinality(UNION {{s} \X DOMAIN p[s] : s \in Symbols})

\* The sample holds the time and the mid price the handler read at its start.
Tick(s) ==
  /\ order = NoOrder
  /\ Settle(s)
  /\ \/ UNCHANGED order
     \/ /\ MayEnter(s)
        /\ Waiting(pending') < MaxPending
        /\ \E d \in Dir :
             order' = [sym |-> s, age |-> 0, dir |-> d, mid |-> mid[s]]
  /\ UNCHANGED mid

\* The entry is filled and its sample queued.
Entered ==
  /\ order # NoOrder
  /\ pending' = [pending EXCEPT ![order.sym] =
       Append(@, [age |-> order.age, dir |-> order.dir, mid |-> order.mid])]
  /\ order' = NoOrder
  /\ UNCHANGED <<window, mid>>

\* The entry is given up: refused, its fill not seen, or another position held.
GivenUp ==
  /\ order # NoOrder
  /\ order' = NoOrder
  /\ UNCHANGED <<window, pending, mid>>
-----------------------------------------------------------------------------
(* Time, the Bybit stream and a restart of the process. *)

Elapse ==
  /\ pending' = [s \in Symbols |->
       [i \in DOMAIN pending[s] |-> Older(pending[s][i])]]
  /\ order' = IF order = NoOrder THEN order ELSE Older(order)
  /\ UNCHANGED <<window, mid>>

Quote(s, m) ==
  /\ mid' = [mid EXCEPT ![s] = m]
  /\ UNCHANGED <<window, pending, order>>

Init ==
  /\ window = [s \in Symbols |-> <<>>]
  /\ pending = [s \in Symbols |-> <<>>]
  /\ mid = [s \in Symbols |-> 0]
  /\ order = NoOrder

Restart ==
  /\ window' = [s \in Symbols |-> <<>>]
  /\ pending' = [s \in Symbols |-> <<>>]
  /\ mid' = [s \in Symbols |-> 0]
  /\ order' = NoOrder

AnyTick == \E s \in Symbols : Tick(s)

Next ==
  \/ AnyTick
  \/ Entered
  \/ GivenUp
  \/ Elapse
  \/ \E s \in Symbols, m \in Mids : Quote(s, m)
  \/ Restart

Spec == Init /\ [][Next]_vars

\* Ticks keep coming, orders are answered and time passes.
FairSpec ==
  /\ Spec
  /\ WF_vars(AnyTick)
  /\ WF_vars(Entered \/ GivenUp)
  /\ WF_vars(Elapse)
-----------------------------------------------------------------------------
(* Properties. *)

\* The window never outgrows its capacity, and what waits was entered with a
\* known price.
TypeOK ==
  /\ window \in [Symbols -> Seq(BOOLEAN)]
  /\ \A s \in Symbols : Len(window[s]) <= Capacity
  /\ pending \in [Symbols -> Seq(Sample)]
  /\ mid \in [Symbols -> Nat]
  /\ order \in [sym : Symbols \cup {NoSymbol}, age : Nat, dir : Dir, mid : Nat]
  /\ order.sym = NoSymbol => order = NoOrder

Shut(s) == ~AllowsEntry(s, window[s])

\* Nothing is left that could change the window of s.
Latched(s) == Shut(s) /\ pending[s] = <<>> /\ order.sym # s

\* The gate only samples entries and a shut gate allows none: once the last
\* samples are in, a shut gate stays shut until the process is restarted,
\* whatever prices do (main.rs:544 and 763).
ShutForGood == [][\A s \in Symbols : Latched(s) => Latched(s)' \/ Restart]_vars

\* A gate that shuts with samples still waiting does not stay in between: they
\* reopen it or it latches, whichever symbol the ticks belong to (main.rs:521).
GateDecided == \A s \in Symbols : Shut(s) ~> (Latched(s) \/ ~Shut(s))
=============================================================================

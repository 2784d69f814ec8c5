------------------------- MODULE FollowThroughProofs -------------------------
(***************************************************************************)
(* The follow-through gate keeps its types and, once latched, never opens  *)
(* again: for every set of symbols, capacity, rate and price.              *)
(***************************************************************************)
EXTENDS FollowThrough, FiniteSetTheorems, TLAPS

\* Cutting to the newest n elements gives a sequence of at most n elements,
\* and leaves a sequence that fits alone.
LEMMA LastFits ==
  ASSUME NEW S, NEW w \in Seq(S), NEW n \in Nat
  PROVE  /\ Last(w, n) \in Seq(S)
         /\ Len(Last(w, n)) <= n
         /\ Len(w) <= n => Last(w, n) = w
<1>1. CASE Len(w) <= n
  BY <1>1 DEF Last
<1>2. CASE ~(Len(w) <= n)
  <2>1. Len(w) - n + 1 \in 1..Len(w) + 1 /\ Len(w) \in Nat
    BY <1>2
  <2>2. SubSeq(w, Len(w) - n + 1, Len(w)) \in Seq(S)
    BY <2>1
  <2>3. Len(SubSeq(w, Len(w) - n + 1, Len(w))) = n
    BY <2>1, <1>2
  <2> QED
    BY <1>2, <2>2, <2>3 DEF Last
<1> QED
  BY <1>1, <1>2

\* The due samples of a symbol are counted by a natural number, and there is
\* none when none waits.
LEMMA DueCounted ==
  ASSUME TypeOK, NEW s \in Symbols
  PROVE  /\ DueCount(s) \in Nat
         /\ pending[s] = <<>> => DueCount(s) = 0
<1> DEFINE D == {i \in DOMAIN pending[s] : pending[s][i].age >= Wait}
<1>1. pending[s] \in Seq(Sample)
  BY DEF TypeOK
<1>2. DOMAIN pending[s] = 1..Len(pending[s]) /\ Len(pending[s]) \in Nat
  BY <1>1
<1>3. IsFiniteSet(D)
  <2>1. IsFiniteSet(1..Len(pending[s]))
    BY <1>2, FS_Interval
  <2> QED
    BY <1>2, <2>1, FS_Subset
<1>4. Cardinality(D) \in Nat
  BY <1>3, FS_CardinalityType
<1>5. ASSUME pending[s] = <<>> PROVE D = {}
  BY <1>5, <1>2
<1>6. pending[s] = <<>> => Cardinality(D) = 0
  BY <1>5, FS_EmptySet
<1> QED
  BY <1>4, <1>6 DEF DueCount

\* What a tick settles is a sequence of outcomes.
LEMMA OutcomesType ==
  ASSUME TypeOK, NEW s \in Symbols
  PROVE  /\ Outcomes(s) \in Seq(BOOLEAN)
         /\ pending[s] = <<>> => Outcomes(s) = <<>>
<1>1. DueCount(s) \in Nat /\ (pending[s] = <<>> => DueCount(s) = 0)
  BY DueCounted
<1>2. \A e : Aligned(s, e) \in BOOLEAN
  BY DEF Aligned
<1>3. Outcomes(s) \in Seq(BOOLEAN)
  BY <1>1, <1>2 DEF Outcomes
<1>4. ASSUME pending[s] = <<>> PROVE Outcomes(s) = <<>>
  BY <1>1, <1>4 DEF Outcomes
<1> QED
  BY <1>3, <1>4

\* What a tick does to the window and the samples of one symbol.
LEMMA Settled ==
  ASSUME TypeOK, NEW t \in Symbols, Settle(t), FollowThroughConstants,
         NEW s \in Symbols
  PROVE  /\ window'[s] \in Seq(BOOLEAN)
         /\ Len(window'[s]) <= Capacity
         /\ pending'[s] \in Seq(Sample)
         /\ pending[s] = <<>> => window'[s] = window[s] /\ pending'[s] = <<>>
<1>1. window[s] \in Seq(BOOLEAN) /\ Len(window[s]) <= Capacity
  BY DEF TypeOK
<1>2. pending[s] \in Seq(Sample)
  BY DEF TypeOK
<1>3. window'[s] = Last(window[s] \o Outcomes(s), Capacity)
  BY DEF Settle, Record
<1>4. pending'[s] = SubSeq(pending[s], DueCount(s) + 1, Len(pending[s]))
  BY DEF Settle
<1>5. /\ Outcomes(s) \in Seq(BOOLEAN)
      /\ pending[s] = <<>> => Outcomes(s) = <<>>
  BY OutcomesType
<1>6. window[s] \o Outcomes(s) \in Seq(BOOLEAN) /\ Capacity \in Nat
  BY <1>1, <1>5 DEF FollowThroughConstants
<1>7. window'[s] \in Seq(BOOLEAN) /\ Len(window'[s]) <= Capacity
  <2> DEFINE all == window[s] \o Outcomes(s)
  <2>1. all \in Seq(BOOLEAN) /\ Capacity \in Nat
    BY <1>6
  <2> HIDE DEF all
  <2>2. Last(all, Capacity) \in Seq(BOOLEAN) /\ Len(Last(all, Capacity)) <= Capacity
    BY <2>1, LastFits
  <2> QED
    BY <2>2, <1>3 DEF all
<1>8. DueCount(s) \in Nat /\ (pending[s] = <<>> => DueCount(s) = 0)
  BY DueCounted
<1>9. pending'[s] \in Seq(Sample)
  BY <1>2, <1>4, <1>8
<1>10. ASSUME pending[s] = <<>>
       PROVE  window'[s] = window[s] /\ pending'[s] = <<>>
  <2>1. window[s] \o Outcomes(s) = window[s]
    BY <1>1, <1>5, <1>10
  <2>2. window'[s] = window[s]
    BY <2>1, <1>1, <1>3, <1>6, LastFits
  <2>3. pending'[s] = <<>>
    BY <1>4, <1>8, <1>10
  <2> QED
    BY <2>2, <2>3
<1> QED
  BY <1>7, <1>9, <1>10

\* Time changes no type and creates no sample.
LEMMA AgedSamples ==
  ASSUME TypeOK, Elapse, FollowThroughConstants, NEW s \in Symbols
  PROVE  /\ pending'[s] \in Seq(Sample)
         /\ pending[s] = <<>> => pending'[s] = <<>>
<1>1. pending[s] \in Seq(Sample)
  BY DEF TypeOK
<1>2. pending'[s] = [i \in 1..Len(pending[s]) |-> Older(pending[s][i])]
  BY <1>1 DEF Elapse
<1>3. \A e \in Sample : Older(e) \in Sample
  BY DEF Older, Sample, FollowThroughConstants
<1>4. \A i \in 1..Len(pending[s]) : Older(pending[s][i]) \in Sample
  BY <1>1, <1>3
<1>5. pending'[s] \in Seq(Sample)
  BY <1>1, <1>2, <1>4
<1>6. ASSUME pending[s] = <<>> PROVE pending'[s] = <<>>
  BY <1>2, <1>6
<1> QED
  BY <1>5, <1>6

\* The variables keep their types and the window its capacity (TypeOK).
LEMMA TypeStep ==
  ASSUME TypeOK, [Next]_vars, FollowThroughConstants
  PROVE  TypeOK'
<1>1. CASE AnyTick
  <2>1. PICK t \in Symbols : Tick(t)
    BY <1>1 DEF AnyTick
  <2>2. Settle(t)
    BY <2>1 DEF Tick
  <2>3. \A s \in Symbols : /\ window'[s] \in Seq(BOOLEAN)
                            /\ Len(window'[s]) <= Capacity
                            /\ pending'[s] \in Seq(Sample)
    BY <2>2, Settled
  <2>4. /\ window' \in [Symbols -> Seq(BOOLEAN)]
        /\ pending' \in [Symbols -> Seq(Sample)]
    <3>1. /\ window' = [s \in Symbols |-> window'[s]]
          /\ pending' = [s \in Symbols |-> pending'[s]]
      BY <2>2 DEF Settle
    <3> QED
      BY <2>3, <3>1
  <2>5. mid' = mid
    BY <2>1 DEF Tick
  <2>6. \/ order' = order
        \/ \E d \in Dir :
             order' = [sym |-> t, age |-> 0, dir |-> d, mid |-> mid[t]]
    BY <2>1 DEF Tick
  <2>7. mid[t] \in Nat /\ t # NoSymbol
    BY DEF TypeOK, FollowThroughConstants
  <2>8. /\ order' \in [sym : Symbols \cup {NoSymbol}, age : Nat, dir : Dir,
                       mid : Nat]
        /\ order'.sym = NoSymbol => order' = NoOrder
    BY <2>6, <2>7 DEF TypeOK
  <2> QED
    BY <2>3, <2>4, <2>5, <2>8 DEF TypeOK
<1>2. CASE Entered
  <2> DEFINE e == [age |-> order.age, dir |-> order.dir, mid |-> order.mid]
  <2>1. order.sym \in Symbols /\ e \in Sample
    BY <1>2 DEF TypeOK, Entered, Sample
  <2>2. Append(pending[order.sym], e) \in Seq(Sample)
    BY <2>1 DEF TypeOK
  <2>3. pending' \in [Symbols -> Seq(Sample)]
    BY <2>1, <2>2, <1>2 DEF TypeOK, Entered
  <2> QED
    BY <2>3, <1>2 DEF TypeOK, Entered, NoOrder, Dir
<1>3. CASE GivenUp
  BY <1>3 DEF TypeOK, GivenUp, NoOrder, Dir
<1>4. CASE Elapse
  <2>1. \A s \in Symbols : pending'[s] \in Seq(Sample)
    BY <1>4, AgedSamples
  <2>2. pending' = [s \in Symbols |-> pending'[s]]
    BY <1>4 DEF Elapse
  <2>3. pending' \in [Symbols -> Seq(Sample)]
    BY <2>1, <2>2
  <2>4. CASE order = NoOrder
    BY <2>3, <2>4, <1>4 DEF TypeOK, Elapse
  <2>5. CASE order # NoOrder
    <3>1. order' = Older(order) /\ order.sym # NoSymbol
      BY <2>5, <1>4 DEF TypeOK, Elapse
    <3>2. /\ order' \in [sym : Symbols \cup {NoSymbol}, age : Nat, dir : Dir,
                         mid : Nat]
          /\ order'.sym = order.sym
      <4> DEFINE Orders == [sym : Symbols \cup {NoSymbol}, age : Nat,
                            dir : Dir, mid : Nat]
      <4>1. \A o \in Orders : Older(o) \in Orders /\ Older(o).sym = o.sym
        BY DEF Older, FollowThroughConstants
      <4>2. order \in Orders
        BY DEF TypeOK
      <4> QED
        BY <3>1, <4>1, <4>2
    <3> QED
      BY <2>3, <3>1, <3>2, <1>4 DEF TypeOK, Elapse
  <2> QED
    BY <2>4, <2>5
<1>5. CASE \E s \in Symbols, m \in Mids : Quote(s, m)
  BY <1>5 DEF TypeOK, Quote, FollowThroughConstants
<1>6. CASE Restart
  BY <1>6 DEF TypeOK, Restart, NoOrder, Dir, FollowThroughConstants
<1>7. CASE UNCHANGED vars
  BY <1>7 DEF TypeOK, vars
<1> QED
  BY <1>1, <1>2, <1>3, <1>4, <1>5, <1>6, <1>7 DEF Next

\* Every reachable state is typed (TypeOK).
THEOREM WindowsFit == Spec => []TypeOK
<1>1. Init => TypeOK
  BY FollowThroughConstants DEF Init, TypeOK, NoOrder, Dir, FollowThroughConstants
<1>2. TypeOK /\ [Next]_vars => TypeOK'
  BY TypeStep, FollowThroughConstants
<1> QED
  BY <1>1, <1>2, PTL DEF Spec

\* One step from a latched gate leaves it latched unless the process restarts.
LEMMA LatchHolds ==
  ASSUME TypeOK, [Next]_vars, FollowThroughConstants,
         NEW s \in Symbols, Latched(s)
  PROVE  Latched(s)' \/ Restart
<1>1. /\ ~AllowsEntry(s, window[s])
      /\ pending[s] = <<>>
      /\ order.sym # s
  BY DEF Latched, Shut
<1>2. ASSUME window'[s] = window[s], pending'[s] = <<>>, order'.sym # s
      PROVE  Latched(s)'
  BY <1>1, <1>2 DEF Latched, Shut, AllowsEntry, Wins
<1>3. CASE AnyTick
  <2>1. PICK t \in Symbols : Tick(t)
    BY <1>3 DEF AnyTick
  <2>2. Settle(t)
    BY <2>1 DEF Tick
  <2>3. window'[s] = window[s] /\ pending'[s] = <<>>
    BY <1>1, <2>2, Settled
  <2>4. \/ order' = order
        \/ /\ AllowsEntry(t, window'[t])
           /\ order'.sym = t
    BY <2>1 DEF Tick, MayEnter
  <2>5. order'.sym # s
    BY <1>1, <2>3, <2>4
  <2> QED
    BY <1>2, <2>3, <2>5
<1>4. CASE Entered
  <2>1. window'[s] = window[s] /\ pending'[s] = pending[s]
    BY <1>1, <1>4 DEF Entered, TypeOK
  <2>2. order'.sym # s
    BY <1>4 DEF Entered, NoOrder, FollowThroughConstants
  <2> QED
    BY <1>1, <1>2, <2>1, <2>2
<1>5. CASE GivenUp
  BY <1>1, <1>2, <1>5 DEF GivenUp, NoOrder, FollowThroughConstants
<1>6. CASE Elapse
  <2>1. pending'[s] = <<>>
    BY <1>1, <1>6, AgedSamples
  <2>2. window'[s] = window[s] /\ order'.sym # s
    BY <1>1, <1>6 DEF Elapse, TypeOK, Older
  <2> QED
    BY <1>2, <2>1, <2>2
<1>7. CASE \E u \in Symbols, m \in Mids : Quote(u, m)
  BY <1>1, <1>2, <1>7 DEF Quote
<1>8. CASE UNCHANGED vars
  BY <1>1, <1>2, <1>8 DEF vars
<1> QED
  BY <1>3, <1>4, <1>5, <1>6, <1>7, <1>8 DEF Next

\* A latched gate stays shut until a restart (ShutForGood).
THEOREM LatchedStaysShut == Spec => ShutForGood
<1>1. TypeOK /\ [Next]_vars =>
        [\A s \in Symbols : Latched(s) => Latched(s)' \/ Restart]_vars
  BY LatchHolds, FollowThroughConstants
<1> QED
  BY <1>1, WindowsFit, PTL DEF Spec, ShutForGood
=============================================================================

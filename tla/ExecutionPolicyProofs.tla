----------------------- MODULE ExecutionPolicyProofs -----------------------
(***************************************************************************)
(* Proofs about ExecutionPolicy, for callers that make any calls in any    *)
(* order, however outdated the clocks they have read.                      *)
(***************************************************************************)
EXTENDS ExecutionPolicy, FiniteSetTheorems, TLAPS

(* Names for the steps of PolicyNext.                                      *)

CallerStep(c) ==
  \/ Statement(c)
  \/ Free(c) /\ Forget(c) /\ UNCHANGED <<rowVars, control>>
  \/ \E i \in Ids :
       \/ AdmitRead(c, i) \/ StepRead(c, i)
       \/ \E terminal \in BOOLEAN : Release(c, i, terminal)

-----------------------------------------------------------------------------
(* Calls keep their shape: what Goto, Answer, Begin and Forget write.      *)

LEMMA NoCallType == NoCall \in Call
  BY PolicyAssumption DEF NoCall, Call, Answers

LEMMA CallKept ==
  ASSUME call \in [Callers -> Call], NEW c \in Callers,
         \/ \E where \in Pending \cup Answers : Goto(c, where) \/ Answer(c, where)
         \/ \E where \in Pending \cup Answers, i \in Ids : Begin(c, i, where)
         \/ Forget(c)
  PROVE  call' \in [Callers -> Call]
<1>1. call[c] \in Call
  OBVIOUS
<1>2. ASSUME NEW where \in Pending \cup Answers, Goto(c, where)
      PROVE  call' \in [Callers -> Call]
  <2>1. [call[c] EXCEPT !.at = where] \in Call
    BY <1>1, <1>2 DEF Call
  <2> QED
    BY <1>2, <2>1 DEF Goto
<1>3. ASSUME NEW where \in Pending \cup Answers, Answer(c, where)
      PROVE  call' \in [Callers -> Call]
  <2>1. [call[c] EXCEPT !.at = where, !.was = FALSE, !.aged = {}] \in Call
    BY <1>1, <1>3 DEF Call
  <2> QED
    BY <1>3, <2>1 DEF Answer
<1>4. ASSUME NEW where \in Pending \cup Answers, NEW i \in Ids, Begin(c, i, where)
      PROVE  call' \in [Callers -> Call]
  <2>1. [at |-> where, id |-> i, aged |-> {},
         was |-> where = "enter" /\ i \in active] \in Call
    BY <1>4 DEF Call
  <2> QED
    BY <1>4, <2>1 DEF Begin
<1>5. CASE Forget(c)
  BY <1>5, NoCallType DEF Forget
<1> QED
  BY <1>2, <1>3, <1>4, <1>5

LEMMA StatementType ==
  ASSUME PolicyTypeOK, NEW c \in Callers, Statement(c)
  PROVE  PolicyTypeOK'
<1> USE DEF PolicyTypeOK, control
<1>0. call[c] \in Call /\ call[c].id \in Ids
  BY DEF Call
<1>1. CASE AdmitEnter(c)
  <2>1. call' \in [Callers -> Call]
    BY <1>1, CallKept DEF AdmitEnter, Pending, Answers
  <2> QED
    BY <1>0, <1>1, <2>1 DEF AdmitEnter, Hold
<1>2. CASE AdmitReclaim(c)
  <2>1. call' \in [Callers -> Call]
    BY <1>2, CallKept DEF AdmitReclaim, Pending, Answers
  <2> QED
    BY <1>0, <1>2, <2>1 DEF AdmitReclaim, Hold
<1>3. CASE AdmitInsert(c)
  <2>1. call' \in [Callers -> Call]
    BY <1>3, CallKept DEF AdmitInsert, Pending, Answers
  <2> QED
    BY <1>0, <1>3, <2>1 DEF AdmitInsert, Hold
<1>4. CASE AdmitRaced(c)
  <2>1. call' \in [Callers -> Call]
    BY <1>4, CallKept DEF AdmitRaced, Pending, Answers
  <2> QED
    BY <1>4, <2>1 DEF AdmitRaced, rowVars
<1>5. CASE AdmitTally(c)
  <2>1. call' \in [Callers -> Call]
    BY <1>5, CallKept DEF AdmitTally, Pending, Answers
  <2> QED
    BY <1>5, <2>1 DEF AdmitTally, rowVars
<1>6. CASE StepUpdate(c)
  <2>1. call' \in [Callers -> Call]
    BY <1>6, CallKept DEF StepUpdate, Pending, Answers
  <2>2. steps' \in [Ids -> 0..MaxSteps]
    BY <1>0, <1>6, PolicyAssumption DEF StepUpdate, StepsLeft
  <2> QED
    BY <1>0, <1>6, <2>1, <2>2 DEF StepUpdate, Hold
<1>7. CASE StepExplain(c)
  <2>1. call' \in [Callers -> Call]
    BY <1>7, CallKept DEF StepExplain, Pending, Answers
  <2> QED
    BY <1>7, <2>1 DEF StepExplain, rowVars
<1> QED
  BY <1>1, <1>2, <1>3, <1>4, <1>5, <1>6, <1>7 DEF Statement

LEMMA TypeStep ==
  ASSUME PolicyTypeOK, [PolicyNext]_policyVars
  PROVE  PolicyTypeOK'
<1>1. ASSUME NEW c \in Callers, CallerStep(c)
      PROVE  PolicyTypeOK'
  <2>1. CASE Statement(c)
    BY <2>1, StatementType
  <2>2. CASE Free(c) /\ Forget(c) /\ UNCHANGED <<rowVars, control>>
    BY <2>2, CallKept DEF PolicyTypeOK, rowVars, control
  <2>3. ASSUME NEW i \in Ids, AdmitRead(c, i) \/ StepRead(c, i)
        PROVE  PolicyTypeOK'
    <3>1. \E where \in Pending \cup Answers : Begin(c, i, where)
      BY <2>3 DEF AdmitRead, StepRead, Pending, Answers
    <3>2. call' \in [Callers -> Call]
      BY <3>1, CallKept DEF PolicyTypeOK
    <3> QED
      BY <2>3, <3>2 DEF AdmitRead, StepRead, PolicyTypeOK, rowVars, control
  <2>4. ASSUME NEW i \in Ids, NEW terminal \in BOOLEAN, Release(c, i, terminal)
        PROVE  PolicyTypeOK'
    <3>1. call' \in [Callers -> Call]
      BY <2>4, CallKept DEF Release, PolicyTypeOK
    <3> QED
      BY <2>4, <3>1 DEF Release, PolicyTypeOK, rowVars, control
  <2> QED
    BY <1>1, <2>1, <2>2, <2>3, <2>4 DEF CallerStep
<1>2. ASSUME NEW g \in Generations, NEW pause \in BOOLEAN, Sync(g, pause)
      PROVE  PolicyTypeOK'
  BY <1>2 DEF Sync, PolicyTypeOK, rowVars, control
<1>3. ASSUME NEW i \in Ids, Lapse(i)
      PROVE  PolicyTypeOK'
  <2>1. \A c \in Callers : [call[c] EXCEPT !.aged = @ \cup {i}] \in Call
    BY <1>3 DEF PolicyTypeOK, Call
  <2>2. call' \in [Callers -> Call]
    BY <1>3, <2>1 DEF Lapse, PolicyTypeOK
  <2> QED
    BY <1>3, <2>2 DEF Lapse, PolicyTypeOK, control
<1>4. CASE NewDay
  BY <1>4 DEF NewDay, PolicyTypeOK, control
<1>5. CASE UNCHANGED policyVars
  BY <1>5 DEF policyVars, PolicyTypeOK
<1> QED
  BY <1>1, <1>2, <1>3, <1>4, <1>5 DEF PolicyNext, CallerStep

\* The rows and the calls keep their types for every number of callers and
\* runs and all limits; no run's step count exceeds the limit.
THEOREM PolicyTypes == PolicySpec => []PolicyTypeOK
<1>1. PolicyInit => PolicyTypeOK
  <2>1. 0 \in 0..MaxSteps
    BY PolicyAssumption
  <2> QED
    BY <2>1, NoCallType DEF PolicyInit, PolicyTypeOK
<1>2. PolicyTypeOK /\ [PolicyNext]_policyVars => PolicyTypeOK'
  BY TypeStep
<1> QED
  BY <1>1, <1>2, PTL DEF PolicySpec

-----------------------------------------------------------------------------
(* What a statement may do to the live reservations.                       *)

LEMMA OneMore ==
  ASSUME NEW S, NEW T, IsFiniteSet(T), S \subseteq T, NEW n \in Nat,
         Cardinality(T) < n, NEW x
  PROVE  Cardinality(S \cup {x}) <= n
<1>1. /\ IsFiniteSet(S)
      /\ Cardinality(S) <= Cardinality(T)
      /\ Cardinality(S) \in Nat /\ Cardinality(T) \in Nat
  BY FS_Subset, FS_CardinalityType
<1>2. \/ Cardinality(S \cup {x}) = Cardinality(S)
      \/ Cardinality(S \cup {x}) = Cardinality(S) + 1
  BY <1>1, FS_AddElement
<1> QED
  BY <1>1, <1>2

LEMMA Fewer ==
  ASSUME NEW S, NEW T, IsFiniteSet(T), S \subseteq T, NEW n \in Nat,
         Cardinality(T) <= n
  PROVE  Cardinality(S) <= n
<1>1. /\ Cardinality(S) <= Cardinality(T)
      /\ Cardinality(S) \in Nat /\ Cardinality(T) \in Nat
  BY FS_Subset, FS_CardinalityType
<1> QED
  BY <1>1

\* A call counts every live reservation, whatever its clock.
LEMMA CountsLive ==
  ASSUME PolicyTypeOK, NEW c \in Callers
  PROVE  /\ Live \subseteq Counted(c)
         /\ IsFiniteSet(Counted(c)) /\ IsFiniteSet(Live)
<1>1. Live \subseteq Counted(c) /\ Counted(c) \subseteq Ids /\ Live \subseteq Ids
  BY DEF Live, Counted, LiveFor, PolicyTypeOK
<1> QED
  BY <1>1, FS_Subset, PolicyAssumption

\* Every step leaves the live reservations as they are, drops some, or adds
\* one: that of a call which had room by its own count, or one that its own
\* step renews by an outdated clock.
LEMMA LiveStep ==
  ASSUME PolicyTypeOK, [PolicyNext]_policyVars
  PROVE  \/ Live' \subseteq Live
         \/ \E c \in Callers : /\ Room(c) \/ Renews(c, call[c].id)
                               /\ Live' \subseteq Live \cup {call[c].id}
<1> DEFINE Goal == \/ Live' \subseteq Live
                   \/ \E c \in Callers : /\ Room(c) \/ Renews(c, call[c].id)
                                         /\ Live' \subseteq Live \cup {call[c].id}
<1>1. ASSUME NEW c \in Callers, Statement(c)
      PROVE  Goal
  <2>0. call[c].id \in Ids
    BY DEF PolicyTypeOK, Call
  <2>1. CASE AdmitEnter(c)
    BY <2>1 DEF AdmitEnter, Hold, Live
  <2>2. CASE AdmitReclaim(c)
    BY <2>2 DEF AdmitReclaim, Hold, Live
  <2>3. CASE AdmitInsert(c)
    <3>1. CASE UNCHANGED <<reserved, active, leased>>
      BY <3>1 DEF Live
    <3>2. CASE /\ Room(c) /\ Hold(call[c].id)
               /\ reserved' = [reserved EXCEPT ![call[c].id] = "active"]
      BY <2>0, <3>2 DEF Hold, Live, PolicyTypeOK
    <3> QED
      BY <2>3, <3>1, <3>2 DEF AdmitInsert
  <2>4. CASE AdmitRaced(c) \/ AdmitTally(c) \/ StepExplain(c)
    BY <2>4 DEF AdmitRaced, AdmitTally, StepExplain, rowVars, Live
  <2>5. CASE StepUpdate(c)
    <3>0. UNCHANGED reserved /\ call[c].at = "step"
      BY <2>5 DEF StepUpdate
    <3>1. CASE UNCHANGED <<active, leased>>
      BY <3>0, <3>1 DEF Live
    <3>2. CASE /\ Hold(call[c].id) /\ (Own(c) \/ Room(c))
               /\ reserved[call[c].id] = "active"
               /\ Answer(c, "stepped")
      <4>1. Live' \subseteq Live \cup {call[c].id}
        BY <3>0, <3>2 DEF Hold, Live
      <4>2. CASE Own(c) /\ call[c].id \in leased
        <5>1. call[c].id \in Live
          BY <3>2, <4>2 DEF Live, Own
        <5> QED
          BY <4>1, <5>1
      <4>3. CASE Own(c) /\ call[c].id \notin leased
        <5>1. call'[c].at = "stepped"
          BY <3>2 DEF Answer, PolicyTypeOK, Call
        <5>2. Renews(c, call[c].id)
          BY <3>0, <4>3, <5>1 DEF Own, LiveFor, Renews
        <5> QED
          BY <4>1, <5>2
      <4> QED
        BY <3>2, <4>1, <4>2, <4>3
    <3> QED
      BY <2>5, <3>1, <3>2 DEF StepUpdate
  <2> QED
    BY <1>1, <2>1, <2>2, <2>3, <2>4, <2>5 DEF Statement
<1>2. ASSUME NEW c \in Callers, NEW i \in Ids, AdmitRead(c, i) \/ StepRead(c, i)
      PROVE  Goal
  BY <1>2 DEF AdmitRead, StepRead, rowVars, Live
<1>3. ASSUME NEW c \in Callers, NEW i \in Ids, NEW terminal \in BOOLEAN,
             Release(c, i, terminal)
      PROVE  Goal
  <2>1. CASE UNCHANGED rowVars
    BY <2>1 DEF rowVars, Live
  <2>2. CASE /\ reserved' = [reserved EXCEPT ![i] = IF terminal THEN "completed" ELSE "active"]
             /\ active' = active \ {i} /\ leased' = leased \ {i}
    BY <2>2 DEF Live, PolicyTypeOK
  <2> QED
    BY <1>3, <2>1, <2>2 DEF Release
<1>4. ASSUME NEW i \in Ids, Lapse(i)
      PROVE  Goal
  BY <1>4 DEF Lapse, control, Live
<1>5. CASE UNCHANGED rowVars
  BY <1>5 DEF rowVars, Live
<1>6. CASE NewDay
  BY <1>6 DEF NewDay, Live
<1>7. UNCHANGED policyVars => UNCHANGED rowVars
  BY DEF policyVars, rowVars
<1>8. \A g, pause : Sync(g, pause) => UNCHANGED rowVars
  BY DEF Sync
<1> QED
  BY <1>1, <1>2, <1>3, <1>4, <1>5, <1>6, <1>7, <1>8 DEF PolicyNext

\* A call that has room by its own count adds nothing beyond the limit.
LEMMA RoomIsEnough ==
  ASSUME PolicyTypeOK, NEW c \in Callers, Room(c),
         Live' \subseteq Live \cup {call[c].id}
  PROVE  Cardinality(Live') <= MaxConcurrent
<1>1. MaxConcurrent \in Nat
  BY PolicyAssumption
<1>2. Live \subseteq Counted(c) /\ IsFiniteSet(Counted(c)) /\ IsFiniteSet(Live)
  BY CountsLive
<1>3. Cardinality(Live \cup {call[c].id}) <= MaxConcurrent
  BY <1>1, <1>2, OneMore DEF Room
<1>4. IsFiniteSet(Live \cup {call[c].id})
  BY <1>2, FS_AddElement
<1> QED
  BY <1>1, <1>3, <1>4, Fewer

\* Whatever calls run at once, a step leaves more live reservations than the
\* limit only if it takes some away or renews its own run's lapsed lease by an
\* outdated clock.
THEOREM ConcurrencyIsBounded == PolicySpec => ConcurrencyBounded
<1> DEFINE Bounded == Cardinality(Live') > MaxConcurrent =>
                        \A i \in Live' \ Live : \E c \in Callers : Renews(c, i)
<1>1. ASSUME PolicyTypeOK, [PolicyNext]_policyVars
      PROVE  Bounded
  <2>1. ASSUME NEW c \in Callers, Room(c), Live' \subseteq Live \cup {call[c].id}
        PROVE  Bounded
    <3>1. Cardinality(Live') <= MaxConcurrent
      BY <1>1, <2>1, RoomIsEnough
    <3>2. Live' \subseteq Ids /\ MaxConcurrent \in Nat
      BY <1>1, TypeStep, PolicyAssumption DEF Live, PolicyTypeOK
    <3>3. Cardinality(Live') \in Nat
      BY <3>2, FS_Subset, FS_CardinalityType, PolicyAssumption
    <3> QED
      BY <3>1, <3>2, <3>3
  <2> QED
    BY <1>1, <2>1, LiveStep
<1>2. PolicyTypeOK /\ [PolicyNext]_policyVars => [Bounded]_policyVars
  BY <1>1
<1> QED
  BY <1>2, PolicyTypes, PTL DEF PolicySpec, ConcurrencyBounded

\* While steps come to their UPDATE before the lease they found has lapsed,
\* live reservations keep to the limit exactly, though admissions go on with
\* clocks that are as outdated as they like.
THEOREM LimitIsExact ==
  PolicySpec /\ []Prompt => [](Cardinality(Live) <= MaxConcurrent)
<1> DEFINE Within == Cardinality(Live) <= MaxConcurrent
<1>0. MaxConcurrent \in Nat
  BY PolicyAssumption
<1>1. PolicyInit => Within
  <2>1. PolicyInit => Live = {}
    BY DEF PolicyInit, Live
  <2> QED
    BY <1>0, <2>1, FS_EmptySet
<1>2. ASSUME PolicyTypeOK, Prompt, Within, [PolicyNext]_policyVars
      PROVE  Within'
  <2>1. CASE Live' \subseteq Live
    <3>1. IsFiniteSet(Live)
      <4>1. Live \subseteq Ids
        BY <1>2 DEF Live, PolicyTypeOK
      <4> QED
        BY <4>1, FS_Subset, PolicyAssumption
    <3> QED
      BY <1>0, <1>2, <2>1, <3>1, Fewer
  <2>2. ASSUME NEW c \in Callers, Room(c), Live' \subseteq Live \cup {call[c].id}
        PROVE  Within'
    BY <1>2, <2>2, RoomIsEnough
  <2>3. ASSUME NEW c \in Callers
        PROVE  ~Renews(c, call[c].id)
    BY <1>2 DEF Prompt, Renews
  <2> QED
    BY <1>2, <2>1, <2>2, <2>3, LiveStep
<1> QED
  BY <1>1, <1>2, PolicyTypes, PTL DEF PolicySpec

\* The budget of a window is never overspent by admissions that run at once.
THEOREM BudgetIsKept == PolicySpec => []BudgetKept
<1>0. MaxDaily \in Nat /\ 0 <= MaxDaily
  BY PolicyAssumption
<1>1. PolicyInit => BudgetKept
  BY <1>0, FS_EmptySet DEF PolicyInit, BudgetKept
<1>2. ASSUME PolicyTypeOK, BudgetKept, [PolicyNext]_policyVars
      PROVE  BudgetKept'
  <2>1. CASE UNCHANGED today
    BY <1>2, <2>1 DEF BudgetKept
  <2>2. ASSUME NEW c \in Callers, AdmitInsert(c)
        PROVE  BudgetKept'
    <3>1. IsFiniteSet(today)
      BY <1>2, FS_Subset, PolicyAssumption DEF PolicyTypeOK
    <3>2. CASE Budget /\ today' = today \cup {call[c].id}
      BY <1>0, <3>1, <3>2, OneMore DEF Budget, BudgetKept
    <3> QED
      BY <2>1, <2>2, <3>2 DEF AdmitInsert
  <2>3. CASE NewDay
    BY <1>0, <2>3, FS_EmptySet DEF NewDay, BudgetKept
  <2>4. \/ UNCHANGED today
        \/ \E c \in Callers : AdmitInsert(c)
        \/ NewDay
    BY <1>2 DEF PolicyNext, policyVars, rowVars, Statement, AdmitEnter, AdmitReclaim,
       AdmitRaced, AdmitTally, StepUpdate, StepExplain, AdmitRead, StepRead, Release,
       Sync, Lapse
  <2> QED
    BY <2>1, <2>2, <2>3, <2>4
<1> QED
  BY <1>1, <1>2, PolicyTypes, PTL DEF PolicySpec

\* An older worker never lifts a pause, and no worker brings back an older
\* generation.
THEOREM PauseIsSticky == PolicySpec => PauseSticks
<1> DEFINE Sticks == /\ generation' >= generation
                     /\ paused /\ ~paused' => generation' > generation
<1>1. ASSUME PolicyTypeOK, [PolicyNext]_policyVars
      PROVE  Sticks
  <2>0. generation \in Nat
    BY <1>1, PolicyAssumption DEF PolicyTypeOK
  <2>1. CASE UNCHANGED control
    BY <2>0, <2>1 DEF control
  <2>2. ASSUME NEW g \in Generations, NEW pause \in BOOLEAN, Sync(g, pause)
        PROVE  Sticks
    <3>1. g \in Nat
      BY PolicyAssumption
    <3> QED
      BY <2>0, <2>1, <2>2, <3>1 DEF Sync, Wins
  <2>3. \/ UNCHANGED control
        \/ \E g \in Generations, pause \in BOOLEAN : Sync(g, pause)
    BY <1>1 DEF PolicyNext, policyVars, control, Statement, AdmitEnter, AdmitReclaim,
       AdmitInsert, AdmitRaced, AdmitTally, StepUpdate, StepExplain, AdmitRead,
       StepRead, Release, Lapse, NewDay
  <2> QED
    BY <2>1, <2>2, <2>3
<1>2. PolicyTypeOK /\ [PolicyNext]_policyVars => [Sticks]_policyVars
  BY <1>1
<1> QED
  BY <1>2, PolicyTypes, PTL DEF PolicySpec, PauseSticks
=============================================================================

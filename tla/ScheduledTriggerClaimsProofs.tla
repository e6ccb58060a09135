-------------------- MODULE ScheduledTriggerClaimsProofs --------------------
(***************************************************************************)
(* Proofs about ScheduledTriggerClaims for every number of handlers,       *)
(* occurrences and data versions, and every lease time and stall.          *)
(*                                                                         *)
(* The argument: a token is marked dispatched at most once, because the    *)
(* mark asks for status claimed and a new claim comes with a new token; a  *)
(* Worker occurrence that was marked is never claimed again; and a row     *)
(* keeps the fingerprint it was inserted with.                             *)
(***************************************************************************)
EXTENDS ScheduledTriggerClaims, FiniteSetTheorems, TLAPS

Running == {"run", "complete"}

\* What a handler knows of its occurrence in each step.
HandlersOK ==
  \A h \in Handlers :
    /\ pc[h] \notin {"idle", "load"} => loaded[h] \in Data
    /\ pc[h] \notin {"idle", "load", "insert", "look"} =>
         /\ tok[h] \in 1..attempts[occ[h]]
         /\ status[occ[h]] # "none"

\* The columns of a row agree with each other.
RowsOK ==
  \A o \in Occurrences :
    /\ status[o] = "none" => /\ ~ marked[o]
                             /\ ran[o] = {}
                             /\ attempts[o] = 0
    /\ status[o] # "none" => print[o] \in Data /\ attempts[o] > 0
    /\ status[o] = "dispatched" => /\ marked[o]
                                   /\ runtime[o] = RuntimeOf(print[o])
    /\ status[o] = "uncertain" => marked[o] /\ print[o] \in WorkerData
    /\ marked[o] /\ print[o] \in WorkerData =>
         status[o] \in {"dispatched", "completed", "uncertain"}

\* A running handler marked its token, alone; it has not started its run
\* before the executor is called, and has after.
RunnersOK ==
  \A h \in Handlers : pc[h] \in Running =>
    /\ loaded[h] = print[occ[h]]
    /\ marked[occ[h]]
    /\ tok[h] = attempts[occ[h]] => status[occ[h]] # "claimed"
    /\ loaded[h] \in WorkerData => tok[h] = attempts[occ[h]]
    /\ pc[h] = "run" => <<tok[h], loaded[h]>> \notin ran[occ[h]]
    /\ pc[h] = "complete" => <<tok[h], loaded[h]>> \in ran[occ[h]]
    /\ \A g \in Handlers \ {h} :
         pc[g] \in Running /\ occ[g] = occ[h] => tok[g] # tok[h]

\* The runs that were started: under tokens of the past or the marked one.
RanOK ==
  \A o \in Occurrences :
    /\ ran[o] # {} => marked[o]
    /\ \A r \in ran[o] :
         /\ r \in (1..attempts[o]) \X {print[o]}
         /\ r[1] = attempts[o] => status[o] # "claimed"
         /\ print[o] \in WorkerData => r[1] = attempts[o]
    /\ status[o] = "completed" => <<attempts[o], print[o]>> \in ran[o]

Core == TypeOK /\ HandlersOK /\ RowsOK /\ RunnersOK /\ RanOK

\* runs counts the distinct runs recorded in ran.
RunsCounted ==
  \A o \in Occurrences : IsFiniteSet(ran[o]) /\ runs[o] = Cardinality(ran[o])

IInv == Core /\ RunsCounted

-----------------------------------------------------------------------------

\* Types, action by action.
LEMMA LeaveType ==
  ASSUME TypeOK, NEW h \in Handlers, Leave(h)
  PROVE  /\ pc' \in [Handlers -> Phase] /\ occ' \in [Handlers -> Occurrences]
         /\ age' \in [Handlers -> 0..MaxStall]
         /\ loaded' \in [Handlers -> Data \cup {NoData}]
         /\ tok' \in [Handlers -> 0..MaxAttempts]
<1>1. 0 \in 0..MaxStall /\ 0 \in 0..MaxAttempts
  BY ClaimsAssumption DEF ClaimsAssumption
<1>2. pc' \in [Handlers -> Phase] /\ occ' \in [Handlers -> Occurrences]
  BY DEF TypeOK, Leave, Goto, Phase
<1>3. age' \in [Handlers -> 0..MaxStall]
  BY <1>1 DEF TypeOK, Leave
<1>4. loaded' \in [Handlers -> Data \cup {NoData}]
  BY DEF TypeOK, Leave
<1>5. tok' \in [Handlers -> 0..MaxAttempts]
  BY <1>1 DEF TypeOK, Leave
<1> QED
  BY <1>2, <1>3, <1>4, <1>5

\* The two columns a closing statement writes.
LEMMA ClosedRowType ==
  ASSUME TypeOK, NEW o \in Occurrences, NEW s \in Status,
         status' \in {status, [status EXCEPT ![o] = s]},
         left' \in {left, [left EXCEPT ![o] = LongPast]}
  PROVE  /\ status' \in [Occurrences -> Status]
         /\ left' \in [Occurrences -> LongPast..LeaseTime]
<1>1. LongPast \in LongPast..LeaseTime
  BY ClaimsAssumption DEF ClaimsAssumption, LongPast
<1>2. status' \in [Occurrences -> Status]
  BY DEF TypeOK
<1>3. left' \in [Occurrences -> LongPast..LeaseTime]
  BY <1>1 DEF TypeOK
<1> QED
  BY <1>2, <1>3

LEMMA CheckType ==
  ASSUME TypeOK, NEW h \in Handlers, Check(h)
  PROVE  TypeOK'
<1>1. occ[h] \in Occurrences /\ GivenUp(occ[h]) \in Status
  BY DEF TypeOK, GivenUp, Status, Closed
<1>2. /\ status' \in {status, [status EXCEPT ![occ[h]] = GivenUp(occ[h])]}
      /\ left' \in {left, [left EXCEPT ![occ[h]] = LongPast]}
  BY DEF Check
<1>3. pc' \in [Handlers -> Phase]
  BY DEF TypeOK, Check, Goto, Phase
<1>4. /\ status' \in [Occurrences -> Status]
      /\ left' \in [Occurrences -> LongPast..LeaseTime]
  BY <1>1, <1>2, ClosedRowType
<1> QED
  BY <1>3, <1>4 DEF TypeOK, Check, configVars, historyVars

LEMMA SettleType ==
  ASSUME TypeOK, NEW h \in Handlers, Settle(h)
  PROVE  TypeOK'
<1>1. occ[h] \in Occurrences /\ "uncertain" \in Status
  BY DEF TypeOK, Status, Closed
<1>2. /\ status' \in {status, [status EXCEPT ![occ[h]] = "uncertain"]}
      /\ left' \in {left, [left EXCEPT ![occ[h]] = LongPast]}
  BY DEF Settle
<1>3. /\ status' \in [Occurrences -> Status]
      /\ left' \in [Occurrences -> LongPast..LeaseTime]
  BY <1>1, <1>2, ClosedRowType
<1> QED
  BY <1>3, LeaveType DEF TypeOK, Settle, configVars, historyVars

LEMMA CompleteType ==
  ASSUME TypeOK, NEW h \in Handlers, Complete(h)
  PROVE  TypeOK'
<1>1. occ[h] \in Occurrences /\ "completed" \in Status
  BY DEF TypeOK, Status, Closed
<1>2. /\ status' \in {status, [status EXCEPT ![occ[h]] = "completed"]}
      /\ left' \in {left, [left EXCEPT ![occ[h]] = LongPast]}
  BY DEF Complete
<1>3. /\ status' \in [Occurrences -> Status]
      /\ left' \in [Occurrences -> LongPast..LeaseTime]
  BY <1>1, <1>2, ClosedRowType
<1> QED
  BY <1>3, LeaveType DEF TypeOK, Complete, configVars, historyVars

LEMMA ReclaimType ==
  ASSUME TypeOK, NEW h \in Handlers, Reclaim(h)
  PROVE  TypeOK'
<1>1. CASE Reclaimable(h, occ[h])
  <2>1. /\ status' = [status EXCEPT ![occ[h]] = "claimed"]
        /\ runtime' = [runtime EXCEPT ![occ[h]] = "none"]
        /\ attempts' = [attempts EXCEPT ![occ[h]] = @ + 1]
        /\ left' = [left EXCEPT ![occ[h]] = LeaseTime - age[h]]
        /\ pc' = [pc EXCEPT ![h] = "adopt"]
    BY <1>1 DEF Reclaim, Goto
  <2>2. LeaseTime - age[h] \in LongPast..LeaseTime
    BY ClaimsAssumption DEF ClaimsAssumption, TypeOK, LongPast
  <2>3. /\ status' \in [Occurrences -> Status]
        /\ runtime' \in [Occurrences -> {"none", "worker", "workflow"}]
        /\ pc' \in [Handlers -> Phase]
    BY <2>1 DEF TypeOK, Status, Phase
  <2>4. attempts' \in [Occurrences -> 0..MaxAttempts]
    <3>1. occ[h] \in Occurrences /\ attempts[occ[h]] \in 0..MaxAttempts
      BY DEF TypeOK
    <3>2. attempts[occ[h]] + 1 \in 0..MaxAttempts
      BY <1>1, <3>1, ClaimsAssumption DEF Reclaimable, ClaimsAssumption
    <3> QED
      BY <2>1, <3>2 DEF TypeOK
  <2>5. left' \in [Occurrences -> LongPast..LeaseTime]
    BY <2>1, <2>2 DEF TypeOK
  <2> QED
    BY <1>1, <2>3, <2>4, <2>5 DEF TypeOK, Reclaim, configVars, historyVars
<1>2. CASE ~ Reclaimable(h, occ[h])
  BY <1>2, LeaveType DEF TypeOK, Reclaim, configVars, historyVars
<1> QED
  BY <1>1, <1>2

\* The columns that marking writes, committed or not.
LEMMA MarkedRowType ==
  ASSUME TypeOK, NEW h \in Handlers, NEW a \in 0..age[h],
         status' \in {status, [status EXCEPT ![occ[h]] = "dispatched"]},
         runtime' \in {runtime, [runtime EXCEPT ![occ[h]] = RuntimeOf(loaded[h])]},
         left' \in {left, [left EXCEPT ![occ[h]] = LeaseTime - a]},
         marked' \in {marked, [marked EXCEPT ![occ[h]] = TRUE]}
  PROVE  /\ status' \in [Occurrences -> Status]
         /\ runtime' \in [Occurrences -> {"none", "worker", "workflow"}]
         /\ left' \in [Occurrences -> LongPast..LeaseTime]
         /\ marked' \in [Occurrences -> BOOLEAN]
<1>1. LeaseTime - a \in LongPast..LeaseTime
  <2>1. age[h] \in 0..MaxStall
    BY DEF TypeOK
  <2> QED
    BY <2>1, ClaimsAssumption DEF ClaimsAssumption, LongPast
<1>2. RuntimeOf(loaded[h]) \in {"none", "worker", "workflow"}
  BY DEF RuntimeOf
<1>3. status' \in [Occurrences -> Status]
  BY DEF TypeOK, Status
<1>4. runtime' \in [Occurrences -> {"none", "worker", "workflow"}]
  BY <1>2 DEF TypeOK
<1>5. left' \in [Occurrences -> LongPast..LeaseTime]
  BY <1>1 DEF TypeOK
<1>6. marked' \in [Occurrences -> BOOLEAN]
  BY DEF TypeOK
<1> QED
  BY <1>3, <1>4, <1>5, <1>6

LEMMA MarkType ==
  ASSUME TypeOK, NEW h \in Handlers, Mark(h) \/ MarkError(h)
  PROVE  TypeOK'
<1> USE DEF configVars
<1>1. ASSUME NEW a \in 0..age[h], MarkAt(h, a), Mark(h)
      PROVE  TypeOK'
  <2>1. /\ status' \in {status, [status EXCEPT ![occ[h]] = "dispatched"]}
        /\ runtime' \in {runtime, [runtime EXCEPT ![occ[h]] = RuntimeOf(loaded[h])]}
        /\ left' \in {left, [left EXCEPT ![occ[h]] = LeaseTime - a]}
        /\ marked' \in {marked, [marked EXCEPT ![occ[h]] = TRUE]}
    BY <1>1 DEF MarkAt
  <2>2. \/ Leave(h)
        \/ /\ pc' = [pc EXCEPT ![h] = "run"] /\ age' = [age EXCEPT ![h] = 0]
           /\ UNCHANGED <<occ, loaded, tok>>
    BY <1>1 DEF MarkAt, Goto
  <2>3. /\ status' \in [Occurrences -> Status]
        /\ runtime' \in [Occurrences -> {"none", "worker", "workflow"}]
        /\ left' \in [Occurrences -> LongPast..LeaseTime]
        /\ marked' \in [Occurrences -> BOOLEAN]
    BY <2>1, MarkedRowType
  <2>4. /\ pc' \in [Handlers -> Phase] /\ occ' \in [Handlers -> Occurrences]
        /\ age' \in [Handlers -> 0..MaxStall]
        /\ loaded' \in [Handlers -> Data \cup {NoData}]
        /\ tok' \in [Handlers -> 0..MaxAttempts]
    <3>1. CASE Leave(h)
      BY <3>1, LeaveType
    <3>2. CASE /\ pc' = [pc EXCEPT ![h] = "run"] /\ age' = [age EXCEPT ![h] = 0]
               /\ UNCHANGED <<occ, loaded, tok>>
      <4>1. pc' \in [Handlers -> Phase]
        BY <3>2 DEF TypeOK, Phase
      <4>2. age' \in [Handlers -> 0..MaxStall]
        BY <3>2, ClaimsAssumption DEF TypeOK, ClaimsAssumption
      <4> QED
        BY <3>2, <4>1, <4>2 DEF TypeOK
    <3> QED
      BY <2>2, <3>1, <3>2
  <2> QED
    BY <1>1, <2>3, <2>4 DEF TypeOK, Mark
<1>2. CASE MarkError(h)
  <2>1. /\ status' \in {status, [status EXCEPT ![occ[h]] = "dispatched"]}
        /\ runtime' \in {runtime, [runtime EXCEPT ![occ[h]] = RuntimeOf(loaded[h])]}
        /\ left' \in {left, [left EXCEPT ![occ[h]] = LeaseTime - age[h]]}
        /\ marked' \in {marked, [marked EXCEPT ![occ[h]] = TRUE]}
    BY <1>2 DEF MarkError
  <2>2. age[h] \in 0..age[h]
    BY DEF TypeOK
  <2>3. /\ status' \in [Occurrences -> Status]
        /\ runtime' \in [Occurrences -> {"none", "worker", "workflow"}]
        /\ left' \in [Occurrences -> LongPast..LeaseTime]
        /\ marked' \in [Occurrences -> BOOLEAN]
    BY <2>1, <2>2, MarkedRowType
  <2>4. pc' \in [Handlers -> Phase] /\ faults' \in 0..MaxFaults
    BY <1>2, ClaimsAssumption DEF TypeOK, MarkError, Goto, Phase, ClaimsAssumption
  <2> QED
    BY <1>2, <2>3, <2>4 DEF TypeOK, MarkError
<1> QED
  BY <1>1, <1>2 DEF Mark

LEMMA RunType ==
  ASSUME TypeOK, NEW h \in Handlers, tok[h] \in 1..MaxAttempts, loaded[h] \in Data,
         Run(h) \/ RunError(h)
  PROVE  TypeOK'
<1> DEFINE run == <<tok[h], loaded[h]>>
<1>1. \/ ran' = ran /\ runs' = runs
      \/ /\ ran' = [ran EXCEPT ![occ[h]] = @ \cup {run}]
         /\ runs' = [runs EXCEPT ![occ[h]] = @ + 1]
  BY DEF Run, RunError, Started, historyVars
<1>2. run \in (1..MaxAttempts) \X Data
  OBVIOUS
<1> HIDE DEF run
<1>3. ran' \in [Occurrences -> SUBSET ((1..MaxAttempts) \X Data)]
  BY <1>1, <1>2 DEF TypeOK
<1>4. runs' \in [Occurrences -> Nat]
  BY <1>1 DEF TypeOK
<1>5. marked' = marked
  BY DEF Run, RunError, Started, historyVars
<1>6. CASE Run(h)
  <2>1. pc' \in [Handlers -> Phase]
    BY <1>6 DEF TypeOK, Run, Goto, Phase
  <2> QED
    BY <1>3, <1>4, <1>5, <1>6, <2>1 DEF TypeOK, Run, rowVars, configVars
<1>7. CASE RunError(h)
  <2>1. faults' \in 0..MaxFaults
    BY <1>7, ClaimsAssumption DEF TypeOK, RunError, ClaimsAssumption
  <2> QED
    BY <1>3, <1>4, <1>5, <1>7, <2>1, LeaveType DEF TypeOK, RunError, rowVars, configVars
<1> QED
  BY <1>6, <1>7

LEMMA OtherType ==
  ASSUME TypeOK, \/ \E h \in Handlers : Release(h) \/ Renew(h)
                 \/ WriteRow \/ WriteData \/ Tick \/ UNCHANGED vars
  PROVE  TypeOK'
<1> USE DEF rowVars, configVars, handlerVars, historyVars
<1>1. 0 \in LongPast..LeaseTime /\ LeaseTime \in LongPast..LeaseTime
  BY ClaimsAssumption DEF ClaimsAssumption, LongPast
<1>2. ASSUME NEW h \in Handlers, Release(h)
      PROVE  TypeOK'
  <2>1. left' \in [Occurrences -> LongPast..LeaseTime]
    BY <1>1, <1>2 DEF TypeOK, Release
  <2> QED
    BY <1>2, <2>1, LeaveType DEF TypeOK, Release
<1>3. ASSUME NEW h \in Handlers, Renew(h)
      PROVE  TypeOK'
  <2>1. left' \in [Occurrences -> LongPast..LeaseTime]
    BY <1>1, <1>3 DEF TypeOK, Renew
  <2> QED
    BY <1>3, <2>1 DEF TypeOK, Renew
<1>4. CASE WriteRow
  BY <1>4, ClaimsAssumption DEF TypeOK, WriteRow, ClaimsAssumption
<1>5. CASE WriteData
  BY <1>5 DEF TypeOK, WriteData
<1>6. CASE Tick
  <2>1. left' \in [Occurrences -> LongPast..LeaseTime]
    BY <1>6, ClaimsAssumption DEF TypeOK, Tick, LongPast, ClaimsAssumption
  <2>2. age' \in [Handlers -> 0..MaxStall]
    BY <1>6, ClaimsAssumption DEF TypeOK, Tick, ClaimsAssumption
  <2> QED
    BY <1>6, <2>1, <2>2 DEF TypeOK, Tick
<1>7. CASE UNCHANGED vars
  BY <1>7 DEF TypeOK, vars
<1> QED
  BY <1>2, <1>3, <1>4, <1>5, <1>6, <1>7

\* The steps that only move a handler or read the row.
LEMMA ReadSteps ==
  ASSUME Core, NEW h \in Handlers,
         \/ \E o \in Occurrences : Begin(h, o)
         \/ Load(h) \/ Look(h) \/ Recheck(h) \/ Adopt(h) \/ Crash(h)
  PROVE  Core'
  <1> USE ClaimsAssumption DEF ClaimsAssumption, Core, rowVars, configVars,
          historyVars, Leave, Goto
  <1>1. TypeOK'
    BY DEF TypeOK, Begin, Load, Look, Recheck, Adopt, Crash, Phase
  <1>2. HandlersOK'
    BY DEF TypeOK, HandlersOK, RowsOK, Begin, Load, Look, Recheck, Adopt, Crash, Phase, Closed, Status
  <1>3. RowsOK' /\ RanOK'
    BY DEF RowsOK, RanOK, Begin, Load, Look, Recheck, Adopt, Crash
  <1>4. RunnersOK'
    <2>1. \A g \in Handlers : pc'[g] \in Running =>
            /\ pc[g] = pc'[g]
            /\ UNCHANGED <<occ[g], tok[g], loaded[g]>>
      BY DEF TypeOK, Running, Begin, Load, Look, Recheck, Adopt, Crash
    <2>2. UNCHANGED <<status, attempts, print, marked, ran>>
      BY DEF Begin, Load, Look, Recheck, Adopt, Crash
    <2>3. QED
      BY <2>1, <2>2 DEF RunnersOK
  <1>5. QED
    BY <1>1, <1>2, <1>3, <1>4

\* The row of a first claim.
LEMMA InsertStep ==
  ASSUME Core, NEW h \in Handlers, Insert(h) PROVE Core'
  <1> DEFINE o == occ[h]
  <1> USE ClaimsAssumption DEF ClaimsAssumption, Core, configVars,
          historyVars, Goto
  <1>1. TypeOK'
    <2>1. /\ TypeOK
          /\ o \in Occurrences
          /\ 1 \in 0..MaxAttempts
          /\ LeaseTime - age[h] \in LongPast..LeaseTime
      BY DEF TypeOK, LongPast
    <2>2. CASE status[o] = "none" /\ enabled
      <3>1. /\ status' = [status EXCEPT ![o] = "claimed"]
            /\ attempts' = [attempts EXCEPT ![o] = 1]
            /\ left' = [left EXCEPT ![o] = LeaseTime - age[h]]
            /\ stamp' = [stamp EXCEPT ![o] = rev]
            /\ print' = [print EXCEPT ![o] = loaded[h]]
            /\ tok' = [tok EXCEPT ![h] = 1]
            /\ pc' = [pc EXCEPT ![h] = "mark"]
            /\ UNCHANGED <<runtime, occ, age, loaded, configVars, faults,
                           historyVars>>
        BY <2>2 DEF Insert
      <3>2. /\ status' \in [Occurrences -> Status]
            /\ attempts' \in [Occurrences -> 0..MaxAttempts]
            /\ left' \in [Occurrences -> LongPast..LeaseTime]
            /\ stamp' \in [Occurrences -> 0..MaxEdits]
            /\ print' \in [Occurrences -> Data \cup {NoData}]
            /\ tok' \in [Handlers -> 0..MaxAttempts]
            /\ pc' \in [Handlers -> Phase]
        BY ONLY <2>1, <3>1 DEF TypeOK, Status, Phase
      <3>3. QED
        BY ONLY <2>1, <3>1, <3>2 DEF TypeOK, configVars, historyVars
    <2>3. CASE ~ (status[o] = "none" /\ enabled)
      BY <2>1, <2>3 DEF TypeOK, Insert, Phase
    <2>4. QED
      BY <2>2, <2>3
  <1>2. o \in Occurrences /\ loaded[h] \in Data
    BY DEF TypeOK, HandlersOK, Insert
  <1>3. HandlersOK'
    BY <1>2 DEF TypeOK, HandlersOK, RowsOK, Insert
  <1>4. RowsOK'
    BY <1>2 DEF TypeOK, RowsOK, Insert
  <1>5. RanOK'
    BY <1>2 DEF TypeOK, RowsOK, RanOK, Insert
  <1>6. RunnersOK'
    <2>1. \A g \in Handlers : pc'[g] \in Running =>
            /\ g # h
            /\ pc[g] = pc'[g]
            /\ UNCHANGED <<occ[g], tok[g], loaded[g]>>
      BY DEF TypeOK, Running, Insert
    <2>2. \A p \in Occurrences : status[p] # "none" =>
            UNCHANGED <<status[p], attempts[p], print[p], marked[p], ran[p]>>
      BY <1>2 DEF TypeOK, Insert
    <2>3. \A g \in Handlers : pc[g] \in Running => /\ status[occ[g]] # "none"
                                                   /\ occ[g] \in Occurrences
      BY DEF TypeOK, HandlersOK, Running
    <2>4. QED
      BY <2>1, <2>2, <2>3 DEF RunnersOK
  <1>7. QED
    BY <1>1, <1>3, <1>4, <1>5, <1>6

\* A statement that closes the rows of S or leaves the table alone, by a
\* handler that then is not running or by the sweep.
LEMMA ClosingStep ==
  ASSUME Core, TypeOK', NEW S \in SUBSET Occurrences,
         \A o \in S : /\ status[o] \in {"claimed", "dispatched"}
                      /\ status'[o] \in Closed
                      /\ status'[o] = "uncertain" =>
                           status[o] = "dispatched" /\ runtime[o] = "worker"
                      /\ status'[o] = "obsolete" =>
                           ~ (status[o] = "dispatched" /\ runtime[o] = "worker")
                      /\ status'[o] = "completed" =>
                           marked[o] /\ <<attempts[o], print[o]>> \in ran[o],
         \A o \in Occurrences \ S : status'[o] = status[o],
         UNCHANGED <<attempts, print, runtime, occ, ran, runs, marked>>,
         \A g \in Handlers : /\ pc'[g] \in Running => pc[g] = pc'[g]
                             /\ pc'[g] \notin {"idle", "load"} =>
                                  /\ UNCHANGED <<loaded[g], tok[g]>>
                                  /\ pc[g] \notin {"idle", "load"}
                             /\ pc'[g] \notin {"idle", "load", "insert", "look"}
                                 => pc[g] \notin {"idle", "load", "insert", "look"}
  PROVE  Core'
  <1> USE DEF Core
  <1>1. \A o \in Occurrences : status'[o] = "none" <=> status[o] = "none"
    BY DEF Closed
  <1>2. HandlersOK'
    BY <1>1 DEF TypeOK, HandlersOK
  <1>3. RowsOK'
    <2>1. ASSUME NEW o \in S
          PROVE  /\ status'[o] \in {"completed", "uncertain", "obsolete"}
                 /\ status'[o] = "uncertain" => marked[o] /\ print[o] \in WorkerData
                 /\ status'[o] = "obsolete" => ~ (marked[o] /\ print[o] \in WorkerData)
                 /\ print[o] \in Data /\ attempts[o] > 0
      BY DEF RowsOK, RuntimeOf, Closed
    <2>2. QED
      BY <1>1, <2>1 DEF RowsOK
  <1>4. RanOK'
    BY DEF TypeOK, RanOK, Closed
  <1>5. RunnersOK'
    <2>1. \A o \in Occurrences : status'[o] = "claimed" => status[o] = "claimed"
      BY DEF Closed
    <2>2. \A g \in Handlers : pc'[g] \in Running =>
            /\ pc[g] = pc'[g]
            /\ UNCHANGED <<loaded[g], tok[g]>>
      BY DEF Running
    <2>3. QED
      BY <2>1, <2>2 DEF TypeOK, RunnersOK
  <1>6. QED
    BY <1>2, <1>3, <1>4, <1>5

\* The statements that close a row, and the sweep that closes several.
LEMMA CloseSteps ==
  ASSUME Core, \/ \E h \in Handlers : Check(h) \/ Settle(h) \/ Complete(h)
               \/ Repair
  PROVE  Core'
  <1> USE ClaimsAssumption DEF ClaimsAssumption, Core, rowVars, configVars,
          handlerVars, historyVars, Goto, Leave
  <1>1. ASSUME NEW h \in Handlers, Check(h) PROVE Core'
    <2>1. TypeOK'
      BY <1>1, CheckType
    <2> DEFINE S == {o \in {occ[h]} : status'[o] # status[o]}
    <2>2. occ[h] \in Occurrences
      BY DEF TypeOK
    <2>3. QED
      <3>1. S \in SUBSET Occurrences
        BY <2>2
      <3>2. \A o \in S : /\ status[o] \in {"claimed", "dispatched"}
                         /\ status'[o] = GivenUp(o)
        BY <1>1, <2>2 DEF TypeOK, Check
      <3>3. \A o \in Occurrences \ S : status'[o] = status[o]
        BY <1>1 DEF TypeOK, Check
      <3>4. UNCHANGED <<attempts, print, runtime, occ, ran, runs, marked>>
        BY <1>1 DEF Check
      <3>5. \A g \in Handlers :
              /\ pc'[g] \in Running => pc[g] = pc'[g]
              /\ pc'[g] \notin {"idle", "load"} =>
                   /\ UNCHANGED <<loaded[g], tok[g]>>
                   /\ pc[g] \notin {"idle", "load"}
              /\ pc'[g] \notin {"idle", "load", "insert", "look"}
                   => pc[g] \notin {"idle", "load", "insert", "look"}
        BY <1>1 DEF TypeOK, Check, Running
      <3>6. QED
        BY <2>1, <3>1, <3>2, <3>3, <3>4, <3>5, ClosingStep DEF GivenUp, Closed
  <1>2. ASSUME NEW h \in Handlers, Settle(h) PROVE Core'
    <2>1. TypeOK'
      BY <1>2, SettleType
    <2> DEFINE S == {o \in {occ[h]} : status'[o] # status[o]}
    <2>2. occ[h] \in Occurrences
      BY DEF TypeOK
    <2>3. \A o \in S : /\ status[o] = "dispatched" /\ runtime[o] = "worker"
                       /\ status'[o] = "uncertain"
      BY <1>2, <2>2 DEF TypeOK, Settle
    <2>4. \A o \in Occurrences \ S : status'[o] = status[o]
      BY <1>2 DEF TypeOK, Settle
    <2>5. UNCHANGED <<attempts, print, runtime, occ, ran, runs, marked>>
      BY <1>2 DEF Settle
    <2>6. \A g \in Handlers :
            /\ pc'[g] \in Running => pc[g] = pc'[g]
            /\ pc'[g] \notin {"idle", "load"} =>
                 /\ UNCHANGED <<loaded[g], tok[g]>>
                 /\ pc[g] \notin {"idle", "load"}
            /\ pc'[g] \notin {"idle", "load", "insert", "look"}
                 => pc[g] \notin {"idle", "load", "insert", "look"}
      BY <1>2 DEF TypeOK, Settle, Running
    <2>7. QED
      BY <2>1, <2>2, <2>3, <2>4, <2>5, <2>6, ClosingStep DEF Closed
  <1>3. ASSUME NEW h \in Handlers, Complete(h) PROVE Core'
    <2>1. TypeOK'
      BY <1>3, CompleteType
    <2> DEFINE S == {o \in {occ[h]} : status'[o] # status[o]}
    <2>2. occ[h] \in Occurrences
      BY DEF TypeOK
    <2>3. \A o \in S : /\ status[o] \in {"claimed", "dispatched"}
                       /\ status'[o] = "completed"
                       /\ attempts[o] = tok[h]
      BY <1>3, <2>2 DEF TypeOK, Complete
    <2>4. marked[occ[h]] /\ <<tok[h], print[occ[h]]>> \in ran[occ[h]]
      BY <1>3 DEF Complete, RunnersOK, Running
    <2>5. \A o \in Occurrences \ S : status'[o] = status[o]
      BY <1>3 DEF TypeOK, Complete
    <2>6. UNCHANGED <<attempts, print, runtime, occ, ran, runs, marked>>
      BY <1>3 DEF Complete
    <2>7. \A g \in Handlers :
            /\ pc'[g] \in Running => pc[g] = pc'[g]
            /\ pc'[g] \notin {"idle", "load"} =>
                 /\ UNCHANGED <<loaded[g], tok[g]>>
                 /\ pc[g] \notin {"idle", "load"}
            /\ pc'[g] \notin {"idle", "load", "insert", "look"}
                 => pc[g] \notin {"idle", "load", "insert", "look"}
      BY <1>3 DEF TypeOK, Complete, Running
    <2>8. \A o \in S : marked[o] /\ <<attempts[o], print[o]>> \in ran[o]
      BY <2>3, <2>4
    <2>9. S \in SUBSET Occurrences
      BY <2>2
    <2> HIDE DEF S
    <2>10. QED
      BY <2>1, <2>3, <2>5, <2>6, <2>7, <2>8, <2>9, ClosingStep DEF Closed
  <1>4. ASSUME Repair PROVE Core'
    <2>1. TypeOK'
      BY <1>4 DEF TypeOK, Repair, GivenUp, Status, Closed, LongPast
    <2>2. Stale \in SUBSET Occurrences
      BY DEF Stale
    <2>3. \A o \in Stale : /\ status[o] \in {"claimed", "dispatched"}
                           /\ status'[o] = GivenUp(o)
      BY <1>4 DEF Repair, Stale
    <2>4. \A o \in Occurrences \ Stale : status'[o] = status[o]
      BY <1>4 DEF Repair
    <2>5. UNCHANGED <<attempts, print, runtime, ran, runs, marked, pc, occ,
                      loaded, tok>>
      BY <1>4 DEF Repair
    <2>6. QED
      BY <2>1, <2>2, <2>3, <2>4, <2>5, ClosingStep DEF GivenUp, Closed
  <1>5. QED
    BY <1>1, <1>2, <1>3, <1>4

\* A reclaim takes a new token for a row no Worker run was marked for.
LEMMA ReclaimStep ==
  ASSUME Core, NEW h \in Handlers, Reclaim(h) PROVE Core'
  <1> DEFINE o == occ[h]
  <1> USE ClaimsAssumption DEF ClaimsAssumption, Core, configVars,
          historyVars, Goto, Leave
  <1>1. TypeOK'
    BY ReclaimType
  <1>2. o \in Occurrences
    BY DEF TypeOK
  <1>3. \A g \in Handlers : pc'[g] \in Running =>
          /\ pc[g] = pc'[g]
          /\ UNCHANGED <<occ[g], tok[g], loaded[g]>>
    BY DEF TypeOK, Running, Reclaim
  <1>4. CASE ~ Reclaimable(h, o)
    <2>1. UNCHANGED <<status, runtime, attempts, print, marked, ran>>
      BY <1>4 DEF Reclaim
    <2>2. HandlersOK'
      BY <1>4 DEF TypeOK, HandlersOK, Reclaim
    <2>3. RunnersOK'
      BY <1>3, <2>1 DEF RunnersOK
    <2>4. RowsOK' /\ RanOK'
      BY <2>1 DEF RowsOK, RanOK
    <2>5. QED
      BY <1>1, <2>2, <2>3, <2>4
  <1>5. CASE Reclaimable(h, o)
    <2>1. /\ status' = [status EXCEPT ![o] = "claimed"]
          /\ attempts' = [attempts EXCEPT ![o] = @ + 1]
          /\ UNCHANGED <<occ, loaded, tok, print, marked, ran, runs>>
          /\ pc' = [pc EXCEPT ![h] = "adopt"]
      BY <1>5 DEF Reclaim
    <2>2. /\ status[o] \in {"claimed", "dispatched"}
          /\ status[o] = "dispatched" => runtime[o] = "workflow"
      BY <1>5 DEF Reclaimable
    <2>3. ~ (marked[o] /\ print[o] \in WorkerData)
      BY <1>2, <2>2 DEF RowsOK, RuntimeOf
    <2>4. HandlersOK'
      BY <1>2, <2>1, <1>5 DEF TypeOK, HandlersOK, Reclaim
    <2>5. RowsOK'
      BY <1>2, <1>5, <2>1, <2>2, <2>3 DEF TypeOK, RowsOK, Reclaim
    <2>6. RanOK'
      BY <1>2, <2>1, <2>3 DEF TypeOK, RanOK
    <2>7. RunnersOK'
      <3>1. \A g \in Handlers : pc[g] \in Running => tok[g] <= attempts[occ[g]]
        BY DEF TypeOK, HandlersOK, Running
      <3>2. attempts'[o] = attempts[o] + 1 /\ attempts[o] \in Nat
        BY <1>2, <2>1 DEF TypeOK
      <3>3. \A g \in Handlers : pc'[g] \in Running /\ occ[g] = o =>
              tok'[g] # attempts'[o]
        <4>1. \A g \in Handlers : tok[g] \in Nat
          BY DEF TypeOK
        <4>2. QED
          BY <1>3, <3>1, <3>2, <4>1
      <3>4. \A g \in Handlers : pc'[g] \in Running /\ occ[g] = o =>
              loaded[g] \notin WorkerData
        <4>1. \A g \in Handlers : pc[g] \in Running =>
                loaded[g] = print[occ[g]] /\ marked[occ[g]]
          BY DEF RunnersOK
        <4>2. QED
          BY <1>3, <2>3, <4>1
      <3>5. QED
        BY <1>2, <1>3, <2>1, <3>3, <3>4 DEF TypeOK, RunnersOK
    <2>8. QED
      BY <1>1, <2>4, <2>5, <2>6, <2>7
  <1>6. QED
    BY <1>4, <1>5

\* A row that h may mark: its own claim, of the data it loaded.
LEMMA MarkedRow ==
  ASSUME Core, TypeOK', NEW h \in Handlers, pc[h] = "mark",
         status[occ[h]] = "claimed", attempts[occ[h]] = tok[h],
         print[occ[h]] = loaded[h],
         status' = [status EXCEPT ![occ[h]] = "dispatched"],
         runtime' = [runtime EXCEPT ![occ[h]] = RuntimeOf(loaded[h])],
         marked' = [marked EXCEPT ![occ[h]] = TRUE],
         UNCHANGED <<attempts, print, occ, loaded, tok, ran, runs>>,
         \E p \in {"run", "release"} : pc' = [pc EXCEPT ![h] = p]
  PROVE  Core'
  <1> DEFINE o == occ[h]
  <1> USE DEF Core
  <1>1. o \in Occurrences
    BY DEF TypeOK
  <1>2. HandlersOK'
    BY <1>1 DEF TypeOK, HandlersOK
  <1>3. RowsOK'
    BY <1>1 DEF TypeOK, RowsOK
  <1>4. RanOK'
    BY <1>1 DEF TypeOK, RanOK
  <1>5. RunnersOK'
    <2>1. \A g \in Handlers : pc[g] \in Running /\ occ[g] = o =>
            tok[g] # tok[h]
      BY DEF RunnersOK
    <2>2. <<tok[h], loaded[h]>> \notin ran[o]
      BY <1>1 DEF RanOK
    <2>3. \A g \in Handlers : pc'[g] \in Running => g = h \/ pc[g] = pc'[g]
      BY DEF TypeOK
    <2>4. pc'[h] # "complete" /\ marked'[o] /\ status'[o] = "dispatched"
      BY <1>1 DEF TypeOK
    <2>5. \A p \in Occurrences : /\ marked[p] => marked'[p]
                                 /\ status'[p] = "claimed" => status[p] = "claimed"
      BY <1>1 DEF TypeOK
    <2>6. QED
      BY <1>1, <2>1, <2>2, <2>3, <2>4, <2>5 DEF TypeOK, RunnersOK
  <1>6. QED
    BY <1>2, <1>3, <1>4, <1>5

\* Marking a claim, whether or not its answer is lost.
LEMMA MarkSteps ==
  ASSUME Core, NEW h \in Handlers, Mark(h) \/ MarkError(h) PROVE Core'
  <1> DEFINE o == occ[h]
  <1> USE ClaimsAssumption DEF ClaimsAssumption, Core, configVars,
          historyVars, Goto, Leave
  <1>1. o \in Occurrences /\ age[h] \in Nat /\ age[h] <= MaxStall
    BY DEF TypeOK
  <1>2. TypeOK'
    BY MarkType
  <1>3. CASE /\ UNCHANGED <<status, runtime, attempts, print, marked, ran>>
             /\ Mark(h) \/ MarkError(h)
    <2>1. \A g \in Handlers :
            /\ pc'[g] \in Running => pc[g] = pc'[g]
            /\ pc'[g] \notin {"idle", "load"} =>
                 /\ pc[g] \notin {"idle", "load"}
                 /\ UNCHANGED <<occ[g], tok[g], loaded[g]>>
            /\ pc'[g] \notin {"idle", "load", "insert", "look"} =>
                 pc[g] \notin {"idle", "load", "insert", "look"}
      <3>1. CASE MarkError(h)
        BY <3>1 DEF TypeOK, MarkError, Running
      <3>2. CASE Mark(h)
        <4>1. PICK a \in 0..age[h] : MarkAt(h, a)
          BY <3>2 DEF Mark
        <4>2. ~ (status[o] = "claimed") \/ pc' = [pc EXCEPT ![h] = "idle"]
          BY <1>1, <1>3, <4>1 DEF MarkAt, TypeOK
        <4>3. pc' = [pc EXCEPT ![h] = "idle"]
          BY <4>1, <4>2 DEF MarkAt
        <4>4. \A g \in Handlers \ {h} : UNCHANGED <<pc[g], occ[g], tok[g], loaded[g]>>
          BY <4>1 DEF MarkAt, TypeOK
        <4>5. QED
          BY <4>3, <4>4 DEF TypeOK, Running
      <3>3. QED
        BY <1>3, <3>1, <3>2
    <2>2. HandlersOK'
      BY <1>3, <2>1 DEF TypeOK, HandlersOK
    <2>3. RowsOK' /\ RanOK'
      BY <1>3 DEF RowsOK, RanOK
    <2>4. RunnersOK'
      BY <1>3, <2>1 DEF RunnersOK, Running
    <2>5. QED
      BY <1>2, <2>2, <2>3, <2>4
  <1>4. CASE /\ pc[h] = "mark"
             /\ status[o] = "claimed" /\ attempts[o] = tok[h]
             /\ print[o] = loaded[h]
             /\ status' = [status EXCEPT ![o] = "dispatched"]
             /\ runtime' = [runtime EXCEPT ![o] = RuntimeOf(loaded[h])]
             /\ marked' = [marked EXCEPT ![o] = TRUE]
             /\ UNCHANGED <<attempts, print, occ, loaded, tok, ran, runs>>
             /\ \E p \in {"run", "release"} : pc' = [pc EXCEPT ![h] = p]
    BY <1>2, <1>4, MarkedRow
  <1>5. QED
    BY <1>3, <1>4 DEF Mark, MarkAt, MarkError

\* The steps that change only a lease, the clock or the workflow.
LEMMA OtherSteps ==
  ASSUME Core, \/ \E h \in Handlers : Release(h) \/ Renew(h)
               \/ WriteRow \/ WriteData \/ Tick \/ UNCHANGED vars
  PROVE  Core'
  <1> USE ClaimsAssumption DEF ClaimsAssumption, Core, rowVars, configVars,
          handlerVars, historyVars, Goto, Leave, vars
  <1>1. TypeOK'
    BY OtherType
  <1>2. UNCHANGED <<status, runtime, attempts, print, marked, ran>>
    BY DEF Release, Renew, WriteRow, WriteData, Tick
  <1>3. \A g \in Handlers :
          /\ pc'[g] \in {"idle", pc[g]}
          /\ pc'[g] # "idle" => UNCHANGED <<pc[g], occ[g], tok[g], loaded[g]>>
    BY DEF TypeOK, Release, Renew, WriteRow, WriteData, Tick
  <1>4. HandlersOK'
    BY <1>2, <1>3 DEF HandlersOK
  <1>5. RowsOK' /\ RanOK'
    BY <1>2 DEF RowsOK, RanOK
  <1>6. RunnersOK'
    BY <1>2, <1>3 DEF RunnersOK, Running
  <1>7. QED
    BY <1>1, <1>4, <1>5, <1>6

\* Starting a run under the token that was marked for it.
LEMMA RunSteps ==
  ASSUME Core, NEW h \in Handlers, Run(h) \/ RunError(h) PROVE Core'
  <1> DEFINE o == occ[h]
             run == <<tok[h], loaded[h]>>
  <1> USE ClaimsAssumption DEF ClaimsAssumption, Core, rowVars, configVars,
          historyVars, Goto, Leave
  <1>1. /\ o \in Occurrences /\ pc[h] = "run"
        /\ tok[h] \in 1..attempts[o] /\ loaded[h] = print[o] /\ marked[o]
        /\ loaded[h] \in Data
        /\ tok[h] = attempts[o] => status[o] # "claimed"
        /\ loaded[h] \in WorkerData => tok[h] = attempts[o]
        /\ status[o] # "none"
    BY DEF Run, RunError, TypeOK, HandlersOK, RunnersOK, Running
  <1>2. /\ ran' \in {ran, [ran EXCEPT ![o] = @ \cup {run}]}
        /\ UNCHANGED <<status, runtime, attempts, print, marked, occ>>
        /\ \A g \in Handlers \ {h} : UNCHANGED <<pc[g], tok[g], loaded[g]>>
        /\ pc'[h] \in {"idle", "complete"}
        /\ pc'[h] = "complete" => /\ UNCHANGED <<tok[h], loaded[h]>>
                                  /\ ran' = [ran EXCEPT ![o] = @ \cup {run}]
    BY DEF Run, RunError, Started, TypeOK
  <1>3. TypeOK'
    <2>1. tok[h] \in 1..MaxAttempts
      BY <1>1 DEF TypeOK
    <2>2. QED
      BY <1>1, <2>1, RunType
  <1>4. HandlersOK'
    BY <1>1, <1>2 DEF TypeOK, HandlersOK
  <1>5. RowsOK'
    BY <1>1, <1>2 DEF TypeOK, RowsOK
  <1>6. RanOK'
    <2>1. \A p \in Occurrences : ran'[p] = ran[p] \/ (p = o /\ ran'[p] = ran[p] \cup {run})
      <3>1. ran \in [Occurrences -> SUBSET ((1..MaxAttempts) \X Data)]
        BY DEF TypeOK
      <3> HIDE DEF run, Core
      <3>2. QED
        BY <1>1, <1>2, <3>1
    <2>2. /\ run \in (1..attempts[o]) \X {print[o]}
          /\ run[1] = attempts[o] => status[o] # "claimed"
          /\ print[o] \in WorkerData => run[1] = attempts[o]
      BY <1>1
    <2> HIDE DEF run
    <2>3. ASSUME NEW p \in Occurrences
          PROVE  /\ ran'[p] # {} => marked[p]
                 /\ \A r \in ran'[p] : /\ r \in (1..attempts[p]) \X {print[p]}
                                       /\ r[1] = attempts[p] => status[p] # "claimed"
                                       /\ print[p] \in WorkerData => r[1] = attempts[p]
                 /\ status[p] = "completed" => <<attempts[p], print[p]>> \in ran'[p]
      BY <1>1, <2>1, <2>2 DEF RanOK
    <2>4. QED
      BY <1>2, <2>3 DEF RanOK
  <1>7. RunnersOK'
    <2>1. \A g \in Handlers \ {h} : pc[g] \in Running /\ occ[g] = o =>
            <<tok[g], loaded[g]>> # run
      BY <1>1 DEF RunnersOK, Running
    <2>2. QED
      BY <1>1, <1>2, <2>1 DEF TypeOK, RunnersOK, Running
  <1>8. QED
    BY <1>3, <1>4, <1>5, <1>6, <1>7

\* Every start of a run is recorded once.
LEMMA CountStep == Core /\ RunsCounted /\ [Next]_vars => RunsCounted'
  <1> SUFFICES ASSUME Core, RunsCounted, [Next]_vars PROVE RunsCounted'
    OBVIOUS
  <1>1. ASSUME NEW h \in Handlers, pc[h] = "run", Started(h)
        PROVE  RunsCounted'
    <2>1. <<tok[h], loaded[h]>> \notin ran[occ[h]] /\ occ[h] \in Occurrences
      BY <1>1 DEF Core, TypeOK, RunnersOK, Running
    <2>2. /\ IsFiniteSet(ran[occ[h]] \cup {<<tok[h], loaded[h]>>})
          /\ Cardinality(ran[occ[h]] \cup {<<tok[h], loaded[h]>>})
               = Cardinality(ran[occ[h]]) + 1
      BY <2>1, FS_AddElement DEF RunsCounted
    <2>3. QED
      BY <1>1, <2>1, <2>2 DEF RunsCounted, Started, Core, TypeOK
  <1>2. CASE UNCHANGED <<ran, runs>>
    BY <1>2 DEF RunsCounted
  <1> USE DEF historyVars
  <1>3. ASSUME NEW h \in Handlers, HandlerStep(h)
        PROVE  RunsCounted'
    BY <1>1, <1>2, <1>3
       DEF HandlerStep, Begin, Load, Insert, Look, Check, Recheck, Settle,
           Reclaim, Adopt, Mark, Release, Run, Complete
  <1>4. ASSUME NEW h \in Handlers, HandlerFault(h)
        PROVE  RunsCounted'
    BY <1>1, <1>2, <1>4 DEF HandlerFault, MarkError, RunError, Crash
  <1>5. CASE \/ \E h \in Handlers : Renew(h)
             \/ Repair \/ WriteRow \/ WriteData \/ Tick \/ UNCHANGED vars
    <2>1. UNCHANGED <<ran, runs>>
      BY <1>5 DEF Renew, Repair, WriteRow, WriteData, Tick, vars
    <2>2. QED
      BY <1>2, <2>1
  <1>6. QED
    BY <1>2, <1>3, <1>4, <1>5 DEF Next

\* No claim yet, every handler idle.
LEMMA InitInv == Init => IInv
  <1> SUFFICES ASSUME Init PROVE IInv
    OBVIOUS
  <1>1. TypeOK
    BY ClaimsAssumption
       DEF ClaimsAssumption, Init, TypeOK, Status, Phase, LongPast
  <1>2. HandlersOK /\ RowsOK /\ RunnersOK /\ RanOK
    BY DEF Init, HandlersOK, RowsOK, RunnersOK, RanOK, Running
  <1>3. RunsCounted
    BY FS_EmptySet DEF Init, RunsCounted
  <1>4. QED
    BY <1>1, <1>2, <1>3 DEF IInv, Core

\* The inductive invariant.
LEMMA NextInv == IInv /\ [Next]_vars => IInv'
  <1> SUFFICES ASSUME IInv, [Next]_vars PROVE IInv'
    OBVIOUS
  <1>1. Core'
    BY ReadSteps, InsertStep, CloseSteps, ReclaimStep, MarkSteps, OtherSteps,
       RunSteps
       DEF IInv, Next, HandlerStep, HandlerFault
  <1>2. QED
    BY <1>1, CountStep DEF IInv

\* IInv holds in every state of every behaviour.
THEOREM Invariance == Spec => []IInv
  BY InitInv, NextInv, PTL DEF Spec

\* Rows, handlers and the record of runs keep their types.
THEOREM TypeCorrect == Spec => []TypeOK
  <1>1. IInv => TypeOK
    BY DEF IInv, Core
  <1>2. QED
    BY Invariance, <1>1, PTL

\* At most one Worker run of an occurrence is ever started.
THEOREM WorkerAtMostOnce == Spec => []WorkerRunsOnce
  <1>1. IInv => WorkerRunsOnce
    <2> SUFFICES ASSUME IInv, NEW o \in Occurrences, NEW r \in ran[o],
                        r[2] \in WorkerData
                 PROVE  runs[o] = 1
      BY DEF WorkerRunsOnce
    <2>1. \A q \in ran[o] : q \in (1..attempts[o]) \X {print[o]}
      BY DEF IInv, Core, RanOK
    <2>2. print[o] \in WorkerData
      BY <2>1
    <2>3. \A q \in ran[o] : q = <<attempts[o], print[o]>>
      <3>1. \A q \in ran[o] : q[1] = attempts[o]
        BY <2>2 DEF IInv, Core, RanOK
      <3>2. \A q \in ran[o] : q = <<q[1], q[2]>> /\ q[2] = print[o]
        BY <2>1
      <3>3. QED
        BY <3>1, <3>2
    <2>4. ran[o] = {<<attempts[o], print[o]>>}
      BY <2>3
    <2>5. QED
      BY <2>4, FS_Singleton DEF IInv, RunsCounted
  <1>2. QED
    BY Invariance, <1>1, PTL

\* All runs of an occurrence run the data it was claimed for.
THEOREM RunsShareDefinition == Spec => []SameDefinition
  <1>1. IInv => SameDefinition
    <2>1. IInv => \A o \in Occurrences : \A r \in ran[o] :
                    r \in (1..attempts[o]) \X {print[o]}
      BY DEF IInv, Core, RanOK
    <2>2. QED
      BY <2>1 DEF SameDefinition
  <1>2. QED
    BY Invariance, <1>1, PTL

\* No token starts two runs.
THEOREM LeaseStartsOneRun == Spec => []LeaseRunsOnce
  <1>1. IInv => LeaseRunsOnce
    BY DEF IInv, RunsCounted, LeaseRunsOnce
  <1>2. QED
    BY Invariance, <1>1, PTL

\* An occurrence is completed only by the lease that started its run.
THEOREM CompletionIsEarned == Spec => []CompletedDidRun
  <1>1. IInv => CompletedDidRun
    BY DEF IInv, Core, RanOK, CompletedDidRun
  <1>2. QED
    BY Invariance, <1>1, PTL

\* A Worker run that started is never recorded as obsolete.
THEOREM WorkerIsAccountedFor == Spec => []WorkerNeverDropped
  <1>1. IInv => WorkerNeverDropped
    <2> SUFFICES ASSUME IInv, NEW o \in Occurrences, NEW r \in ran[o],
                        r[2] \in WorkerData
                 PROVE  status[o] \in {"dispatched", "completed", "uncertain"}
      BY DEF WorkerNeverDropped
    <2>1. marked[o] /\ r[2] = print[o]
      BY DEF IInv, Core, RanOK
    <2>2. QED
      BY <2>1 DEF IInv, Core, RowsOK
  <1>2. QED
    BY Invariance, <1>1, PTL

\* A takeover never happens while the lease runs, however old the clock value
\* it is decided by.
THEOREM TakeoverAfterExpiry == Spec => LiveLeaseKept
  <1>1. IInv /\ [Next]_vars =>
          \A o \in Occurrences :
            attempts[o] > 0 /\ attempts'[o] # attempts[o] => left[o] <= 0
    <2> SUFFICES ASSUME IInv, [Next]_vars, NEW o \in Occurrences,
                        attempts[o] > 0, attempts'[o] # attempts[o]
                 PROVE  left[o] <= 0
      OBVIOUS
    <2> USE DEF IInv, Core, TypeOK
    <2>1. ASSUME NEW h \in Handlers, Insert(h) PROVE FALSE
      BY <2>1 DEF Insert, RowsOK
    <2>2. ASSUME NEW h \in Handlers, Reclaim(h) PROVE left[o] <= 0
      <3>1. occ[h] = o /\ ExpiredFor(h, o)
        BY <2>2 DEF Reclaim, Reclaimable
      <3>2. left[o] \in Int /\ age[h] \in Nat
        BY ClaimsAssumption DEF ClaimsAssumption, LongPast
      <3>3. QED
        BY <3>1, <3>2 DEF ExpiredFor
    <2>3. QED
      BY <2>1, <2>2
         DEF Next, HandlerStep, HandlerFault, Begin, Load, Look, Check, Recheck,
             Settle, Adopt, Mark, Release, Run, Complete, MarkError, RunError,
             Crash, Renew, Repair, WriteRow, WriteData, Tick, vars, rowVars
  <1>2. QED
    BY Invariance, <1>1, PTL DEF Spec, LiveLeaseKept

-----------------------------------------------------------------------------
(* The claims implement the ledger.                                        *)

LedgerOutcome  == [o \in Occurrences |-> Outcome(status[o])]
LedgerSanction ==
  [o \in Occurrences |->
     IF ~ marked[o] THEN "none"
     ELSE IF print[o] \in WorkerData THEN "worker" ELSE "durable"]

\* Every step of a handler, of the sweep or of an editor sanctions, closes or
\* leaves the ledger alone.
THEOREM Refinement == Spec => ImplementsLedger
  <1> USE DEF Ledger!LSpec
  <1>1. Init => Ledger!LInit
    BY DEF Init, Ledger!LInit, Outcome
  <1>2. IInv /\ [Next]_vars => [Ledger!LNext]_<<LedgerOutcome, LedgerSanction>>
    <2> SUFFICES ASSUME IInv, [Next]_vars,
                        ~ UNCHANGED <<LedgerOutcome, LedgerSanction>>
                 PROVE  Ledger!LNext
      OBVIOUS
    <2> USE DEF IInv, Core
    <2>1. ASSUME NEW h \in Handlers, Mark(h) \/ MarkError(h)
          PROVE  Ledger!LNext
      <3> DEFINE o == occ[h]
                 k == IF print[o] \in WorkerData THEN "worker" ELSE "durable"
      <3>1. /\ o \in Occurrences
            /\ status[o] = "claimed"
            /\ status' = [status EXCEPT ![o] = "dispatched"]
            /\ marked' = [marked EXCEPT ![o] = TRUE]
            /\ print' = print
        <4>1. \/ UNCHANGED <<status, marked, print>>
              \/ /\ status[o] = "claimed"
                 /\ status' = [status EXCEPT ![o] = "dispatched"]
                 /\ marked' = [marked EXCEPT ![o] = TRUE]
                 /\ print' = print
          BY <2>1 DEF Mark, MarkAt, MarkError
        <4>2. ~ UNCHANGED <<status, marked, print>>
          BY DEF LedgerOutcome, LedgerSanction
        <4>3. QED
          BY <4>1, <4>2 DEF TypeOK
      <3>2. LedgerOutcome' = LedgerOutcome /\ LedgerOutcome[o] = "open"
        BY <3>1 DEF LedgerOutcome, Outcome, TypeOK
      <3>3. LedgerSanction' = [LedgerSanction EXCEPT ![o] = k]
        BY <3>1 DEF LedgerSanction, TypeOK
      <3>4. LedgerSanction[o] \in {"none", "durable"}
            /\ (LedgerSanction[o] # "none" => k = LedgerSanction[o])
        BY <3>1 DEF LedgerSanction, RowsOK
      <3>5. Ledger!Sanction(o, k)
        BY <3>2, <3>3, <3>4 DEF Ledger!Sanction, LedgerOutcome, LedgerSanction
      <3>6. k \in Ledger!Sanctions \ {"none"}
        BY DEF Ledger!Sanctions
      <3> HIDE DEF k
      <3>7. \E j \in Ledger!Sanctions \ {"none"} : Ledger!Sanction(o, j)
        BY <3>5, <3>6 DEF Ledger!Sanction
      <3>8. QED
        BY <3>1, <3>7 DEF Ledger!LNext, Ledger!Sanction
    <2>2. ASSUME NEW h \in Handlers, Check(h) \/ Settle(h) \/ Complete(h)
          PROVE  Ledger!LNext
      <3> DEFINE o == occ[h]
                 r == Outcome(status'[o])
      <3>1. /\ o \in Occurrences
            /\ status[o] \in {"claimed", "dispatched"}
            /\ status' = [status EXCEPT ![o] = status'[o]]
            /\ UNCHANGED <<marked, print>>
            /\ status'[o] \in Closed
        BY <2>2 DEF TypeOK, Check, Settle, Complete, GivenUp, Closed,
                    historyVars, LedgerOutcome, LedgerSanction
      <3>2. /\ status'[o] = "uncertain" =>
                 status[o] = "dispatched" /\ runtime[o] = "worker"
            /\ status'[o] = "obsolete" =>
                 ~ (status[o] = "dispatched" /\ runtime[o] = "worker")
        BY <2>2, <3>1 DEF TypeOK, Check, Settle, Complete, GivenUp
      <3>3. status'[o] = "completed" => marked[o]
        <4>1. status'[o] = "completed" => pc[h] = "complete"
          BY <2>2, <3>1 DEF Check, Settle, Complete, GivenUp, TypeOK
        <4>2. pc[h] = "complete" => marked[o]
          BY DEF RunnersOK, Running
        <4>3. QED
          BY <4>1, <4>2
      <3>4. LedgerSanction' = LedgerSanction /\ LedgerOutcome[o] = "open"
        BY <3>1 DEF LedgerSanction, LedgerOutcome, Outcome
      <3>5. LedgerOutcome' = [LedgerOutcome EXCEPT ![o] = r]
        BY <3>1 DEF LedgerOutcome, Outcome, TypeOK
      <3>6. /\ r = "done" => LedgerSanction[o] # "none"
            /\ r = "dropped" => LedgerSanction[o] # "worker"
            /\ r = "unknown" => LedgerSanction[o] = "worker"
        <4>1. LedgerSanction[o] = "worker" <=> marked[o] /\ print[o] \in WorkerData
          BY <3>1 DEF LedgerSanction
        <4>2. status[o] = "dispatched" /\ runtime[o] = "worker"
                <=> marked[o] /\ print[o] \in WorkerData
          BY <3>1 DEF RowsOK, RuntimeOf
        <4>3. LedgerSanction[o] = "none" => ~ marked[o]
          BY <3>1 DEF LedgerSanction
        <4>4. QED
          BY <3>1, <3>2, <3>3, <4>1, <4>2, <4>3 DEF Outcome, Closed
      <3>7. r \in Ledger!Outcomes \ {"open"}
        BY <3>1 DEF Outcome, Closed, Ledger!Outcomes
      <3>8. Ledger!Close(o, r)
        BY <3>4, <3>5, <3>6 DEF Ledger!Close, LedgerOutcome, LedgerSanction
      <3>9. QED
        BY <3>1, <3>7, <3>8 DEF Ledger!LNext
    <2>3. CASE Repair
      <3>1. /\ Stale \subseteq Occurrences
            /\ \A o \in Stale : status[o] \in {"claimed", "dispatched"}
            /\ status' = [o \in Occurrences |-> IF o \in Stale THEN GivenUp(o)
                                                              ELSE status[o]]
            /\ UNCHANGED <<marked, print>>
        BY <2>3 DEF Repair, Stale, historyVars
      <3>2. \A o \in Stale :
              Outcome(GivenUp(o)) = IF LedgerSanction[o] = "worker"
                                    THEN "unknown" ELSE "dropped"
        <4> SUFFICES ASSUME NEW o \in Stale
                     PROVE  Outcome(GivenUp(o)) = IF LedgerSanction[o] = "worker"
                                                  THEN "unknown" ELSE "dropped"
          OBVIOUS
        <4>1. LedgerSanction[o] = "worker" <=> marked[o] /\ print[o] \in WorkerData
          BY <3>1 DEF LedgerSanction
        <4>2. status[o] = "dispatched" /\ runtime[o] = "worker"
                <=> marked[o] /\ print[o] \in WorkerData
          BY <3>1 DEF RowsOK, RuntimeOf
        <4>3. QED
          BY <4>1, <4>2 DEF GivenUp, Outcome
      <3>3. LedgerSanction' = LedgerSanction
        BY <3>1 DEF LedgerSanction
      <3>4. \A o \in Stale : LedgerOutcome[o] = "open"
        BY <3>1 DEF LedgerOutcome, Outcome
      <3>5. LedgerOutcome' =
              [o \in Occurrences |->
                 IF o \in Stale
                 THEN IF LedgerSanction[o] = "worker" THEN "unknown" ELSE "dropped"
                 ELSE LedgerOutcome[o]]
        BY <3>1, <3>2 DEF LedgerOutcome
      <3>6. Ledger!CloseAll(Stale)
        BY <3>3, <3>4, <3>5
           DEF Ledger!CloseAll, LedgerOutcome, LedgerSanction
      <3>7. QED
        BY <3>1, <3>6 DEF Ledger!LNext
    <2>4. ASSUME NEW h \in Handlers, Insert(h)
          PROVE  UNCHANGED <<LedgerOutcome, LedgerSanction>>
      <3>1. \A o \in Occurrences :
              /\ Outcome(status'[o]) = Outcome(status[o])
              /\ ~ marked[o] \/ print'[o] = print[o]
        BY <2>4 DEF Insert, TypeOK, RowsOK, Outcome
      <3>2. QED
        BY <2>4, <3>1 DEF Insert, historyVars, LedgerOutcome, LedgerSanction
    <2>5. ASSUME NEW h \in Handlers, Reclaim(h)
          PROVE  UNCHANGED <<LedgerOutcome, LedgerSanction>>
      <3>1. \A o \in Occurrences : Outcome(status'[o]) = Outcome(status[o])
        BY <2>5 DEF Reclaim, Reclaimable, TypeOK, Outcome
      <3>2. QED
        BY <2>5, <3>1 DEF Reclaim, historyVars, LedgerOutcome, LedgerSanction
    <2>6. ASSUME UNCHANGED <<status, print, marked>>
          PROVE  UNCHANGED <<LedgerOutcome, LedgerSanction>>
      BY <2>6 DEF LedgerOutcome, LedgerSanction
    <2>7. QED
      BY <2>1, <2>2, <2>3, <2>4, <2>5, <2>6
         DEF Next, HandlerStep, HandlerFault, Begin, Load, Look, Recheck, Adopt,
             Release, Run, RunError, Started, Crash, Renew, WriteRow, WriteData,
             Tick, vars, rowVars, historyVars
  <1>3. QED
    BY Invariance, <1>1, <1>2, PTL
       DEF Spec, ImplementsLedger, LedgerOutcome, LedgerSanction
=============================================================================

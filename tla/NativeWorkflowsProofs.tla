----------------------- MODULE NativeWorkflowsProofs -----------------------
(***************************************************************************)
(* Proofs about NativeWorkflows, for any number of passes and runs, any    *)
(* flows and limits, and any number of faults.                             *)
(***************************************************************************)
EXTENDS NativeWorkflows, ExecutionPolicyProofs

LEMMA Bounds ==
  /\ MaxAttempts \in Nat /\ 0 \in 0..MaxAttempts
  /\ MaxSends \in Nat /\ 0 \in 0..MaxSends
  /\ SomeRun \in Runs
  /\ \A r \in Runs : Len(Flow[r]) \in Nat
BY PolicyAssumption, NativeAssumption DEF SomeRun, Runs

-----------------------------------------------------------------------------
(* Types, by groups of variables.                                          *)

RunTypes ==
  /\ status \in [Runs -> Ended \cup {"queued", "waiting", "running"}]
  /\ node \in [Runs -> Nat]
  /\ \A r \in Runs : node[r] \in 1..Len(Flow[r]) + 1
  /\ attempts \in [Runs -> 0..MaxAttempts]
  /\ token \in [Runs -> Passes \cup {NoPass}]
  /\ overdue \subseteq Runs
  /\ reason \in [Runs -> {"none", "revoked", "finished", "budget"}]

PassTypes ==
  /\ pc \in [Passes -> Steps]
  /\ run \in [Passes -> Runs]
  /\ at \in [Passes -> Nat]
  /\ \A p \in Passes : at[p] \in 1..Len(Flow[run[p]]) + 1
  /\ tries \in [Passes -> 0..MaxAttempts]
  /\ seen \in [Passes -> 0..MaxSends]
  /\ answer \in [Passes -> {"none", "accepted", "retryable", "refused"}]
  /\ final \in [Passes -> BOOLEAN]

OtherTypes ==
  /\ recorded \in [Runs -> 0..MaxSends]
  /\ events \in 0..MaxEvents
  /\ done \in [Runs -> Seq(Nat)] /\ sent \in [Nodes -> Nat] /\ retries \in [Runs -> Nat]
  /\ leaked \subseteq Runs

LEMMA TypeParts == TypeOK <=> PolicyTypeOK /\ RunTypes /\ PassTypes /\ OtherTypes
BY DEF TypeOK, RunTypes, PassTypes, OtherTypes

Statuses == Ended \cup {"queued", "waiting"}
Reasons  == {"none", "revoked", "finished", "budget"}

LEMMA PutType ==
  ASSUME RunTypes, PassTypes, NEW p \in Passes, NEW s \in Statuses,
         NEW n \in 0..MaxAttempts, NEW why \in Reasons,
         Put(p, s, n, why), UNCHANGED node
  PROVE  RunTypes'
BY DEF Put, RunTypes, PassTypes, Statuses, Reasons

LEMMA SettleType ==
  ASSUME RunTypes, PassTypes, NEW p \in Passes, NEW s \in Statuses,
         NEW n \in 0..MaxAttempts, NEW why \in Reasons, Settle(p, s, n, why)
  PROVE  RunTypes'
<1>1. CASE Holds(p)
  BY <1>1, PutType DEF Settle
<1>2. CASE ~Holds(p)
  BY <1>2 DEF Settle, RunTypes
<1> QED
  BY <1>1, <1>2

LEMMA CatchType ==
  ASSUME RunTypes, PassTypes, NEW p \in Passes, NEW e, Catch(p, e)
  PROVE  RunTypes'
<1>1. tries[p] \in 0..MaxAttempts
  BY DEF PassTypes
<1>2. /\ (IF Again(p, e) THEN "queued" ELSE "failed") \in Statuses
      /\ (IF e = "unavailable" THEN 0 ELSE tries[p]) \in 0..MaxAttempts
      /\ "none" \in Reasons
  BY <1>1, Bounds DEF Statuses, Ended, Reasons
<1> QED
  BY <1>2, SettleType DEF Catch

LEMMA LeaveType ==
  ASSUME PassTypes, NEW p \in Passes, Leave(p)
  PROVE  PassTypes'
<1>1. 1 \in 1..Len(Flow[SomeRun]) + 1
  BY Bounds
<1> QED
  BY <1>1, Bounds DEF Leave, PassTypes, Steps

LEMMA MoveType ==
  ASSUME PassTypes, NEW p \in Passes, NEW step \in Steps, Move(p, step)
  PROVE  PassTypes'
BY DEF Move, PassTypes

LEMMA ReleaseType ==
  ASSUME PassTypes, NEW p \in Passes, NEW b \in BOOLEAN, ToRelease(p, b)
  PROVE  PassTypes'
BY Bounds DEF ToRelease, PassTypes, Steps

LEMMA FailType ==
  ASSUME RunTypes, PassTypes, NEW p \in Passes, NEW e, Fail(p, e)
  PROVE  RunTypes' /\ PassTypes'
<1>1. CASE Again(p, e)
  <2>1. ToRelease(p, FALSE)
    BY <1>1 DEF Fail
  <2> QED
    BY <2>1, CatchType, ReleaseType DEF Fail
<1>2. CASE ~Again(p, e)
  <2>1. ToRelease(p, TRUE)
    BY <1>2 DEF Fail
  <2> QED
    BY <2>1, CatchType, ReleaseType DEF Fail
<1> QED
  BY <1>1, <1>2

LEMMA AdvanceType ==
  ASSUME RunTypes, PassTypes, OtherTypes, NEW p \in Passes, Kind(p) # "none", Advance(p)
  PROVE  RunTypes' /\ done' \in [Runs -> Seq(Nat)] /\ recorded' \in [Runs -> 0..MaxSends]
<1> DEFINE r == run[p]
<1>1. /\ r \in Runs /\ at[p] \in Nat /\ at[p] \in 1..Len(Flow[r]) + 1
      /\ done[r] \in Seq(Nat)
  BY DEF PassTypes, OtherTypes
<1>2. at[p] + 1 \in Nat /\ at[p] + 1 \in 1..Len(Flow[r]) + 1
  BY <1>1, Bounds DEF Kind, KindOf
<1>3. Append(done[r], at[p]) \in Seq(Nat)
  BY <1>1
<1>4. done' \in [Runs -> Seq(Nat)]
  BY <1>1, <1>3 DEF Advance, OtherTypes
<1>7. recorded' \in [Runs -> 0..MaxSends]
  BY <1>1, Bounds DEF Advance, OtherTypes
<1>5. /\ node' = [node EXCEPT ![r] = at[p] + 1]
      /\ \E s \in Statuses : Put(p, s, 0, "none")
  BY DEF Advance, Statuses, Ended
<1>6. node' \in [Runs -> Nat] /\ \A x \in Runs : node'[x] \in 1..Len(Flow[x]) + 1
  BY <1>1, <1>2, <1>5 DEF RunTypes
<1>8. PICK s \in Statuses : Put(p, s, 0, "none")
  BY <1>5
<1>9. 0 \in 0..MaxAttempts /\ "none" \in Reasons
  BY Bounds DEF Reasons
<1> QED
  BY <1>1, <1>4, <1>6, <1>7, <1>8, <1>9 DEF Put, RunTypes, Statuses, Reasons

-----------------------------------------------------------------------------
(* Every step of a pass is a step of a caller of the policy, or none.      *)

LEMMA ForgetStep ==
  ASSUME NEW p \in Passes, Free(p), Forget(p), UNCHANGED <<rowVars, control>>
  PROVE  PolicyNext
BY DEF PolicyNext, Passes

LEMMA PolicyStep ==
  ASSUME PassTypes, [Next]_vars
  PROVE  [PolicyNext]_policyVars
<1> USE DEF Passes, Runs
<1>1. ASSUME NEW p \in Passes, PassStep(p)
      PROVE  [PolicyNext]_policyVars
  <2>0. run[p] \in Runs /\ final[p] \in BOOLEAN
    BY DEF PassTypes
  <2>1. CASE StartAdmit(p)
    BY <2>0, <2>1 DEF StartAdmit, PolicyNext
  <2>2. CASE PolicyStatement(p)
    BY <2>2 DEF PolicyStatement, PolicyNext
  <2>3. CASE Denied(p)
    BY <2>3, ForgetStep DEF Denied, Free, Answers
  <2>4. CASE StartStep(p)
    BY <2>0, <2>4 DEF StartStep, PolicyNext
  <2>5. CASE StepRefused(p)
    BY <2>5, ForgetStep DEF StepRefused, Free, Answers
  <2>6. CASE CompleteEmpty(p)
    BY <2>6, ForgetStep DEF CompleteEmpty, Ready, Free, Answers
  <2>7. CASE RunNode(p)
    BY <2>7, ForgetStep DEF RunNode, Ready, Free, Answers
  <2>8. CASE Fenced(p)
    BY <2>8, ForgetStep DEF Fenced, Ready, Free, Answers
  <2>9. CASE Record(p)
    BY <2>9, ForgetStep DEF Record, Ready, Free, Answers
  <2>10. CASE SendsExhausted(p)
    BY <2>10, ForgetStep DEF SendsExhausted, Ready, Free, Answers
  <2>11. CASE SendWebhook(p) \/ RecordAnswer(p) \/ AnswerFenced(p) \/ Look(p)
    BY <2>11 DEF SendWebhook, RecordAnswer, AnswerFenced, Look
  <2>12. CASE ReturnSlot(p)
    BY <2>0, <2>12 DEF ReturnSlot, PolicyNext
  <2>13. CASE Recover(p)
    BY <2>13, ForgetStep DEF Recover
  <2> QED
    BY <1>1, <2>1, <2>2, <2>3, <2>4, <2>5, <2>6, <2>7, <2>8, <2>9, <2>10, <2>11,
       <2>12, <2>13 DEF PassStep
<1>2. ASSUME NEW p \in Passes, NEW r \in Runs, Claim(p, r)
      PROVE  UNCHANGED policyVars
  BY <1>2 DEF Claim
<1>3. ASSUME NEW p \in Passes, Revoked(p) \/ ReleaseLost(p) \/ Crash(p)
      PROVE  UNCHANGED policyVars
  BY <1>3 DEF Revoked, ReleaseLost, Crash
<1>4. ASSUME NEW p \in Passes, ThrowEarly(p) \/ Throw(p)
      PROVE  PolicyNext
  BY <1>4, ForgetStep DEF ThrowEarly, Throw
<1>5. ASSUME NEW r \in Runs, LeaseEnds(r) \/ Cancel(r) \/ Retry(r)
      PROVE  UNCHANGED policyVars
  BY <1>5 DEF LeaseEnds, Cancel, Retry
<1>6. ASSUME NEW r \in Runs, SlotEnds(r)
      PROVE  PolicyNext
  BY <1>6 DEF SlotEnds, PolicyNext
<1>7. CASE Operate
  BY <1>7 DEF Operate, PolicyNext
<1>8. CASE UNCHANGED vars
  BY <1>8 DEF vars
<1> QED
  BY <1>1, <1>2, <1>3, <1>4, <1>5, <1>6, <1>7, <1>8 DEF Next

-----------------------------------------------------------------------------
(* Types of every step.                                                    *)

\* A pass that sends, or has its answer, has not left its webhook node.
Sending == \A p \in Passes : pc[p] \in {"send", "answered"} => Kind(p) = "webhook"

Typed == RunTypes /\ PassTypes /\ OtherTypes

LEMMA PassTypeStep ==
  ASSUME Typed, Sending, NEW p \in Passes, PassStep(p)
  PROVE  Typed'
<1> USE DEF Typed
<1>0. /\ run[p] \in Runs /\ tries[p] \in 0..MaxAttempts
      /\ attempts[run[p]] \in 0..MaxAttempts /\ recorded[run[p]] \in 0..MaxSends
  BY DEF RunTypes, PassTypes, OtherTypes
<1>1. CASE StartAdmit(p)
  BY <1>1, MoveType DEF StartAdmit, Steps, RunTypes, OtherTypes, runVars, pastVars
<1>2. CASE PolicyStatement(p)
  BY <1>2 DEF PolicyStatement, RunTypes, PassTypes, OtherTypes, runVars, passVars, pastVars
<1>3. CASE Denied(p)
  <2>1. PassTypes'
    BY <1>3, LeaveType DEF Denied
  <2>2. RunTypes'
    <3>1. CASE call[p].at \in {"paused", "concurrent"}
      <4>1. (IF call[p].at = "paused" THEN 0 ELSE tries[p]) \in 0..MaxAttempts
        BY <1>0, Bounds
      <4> QED
        BY <1>3, <3>1, <4>1, SettleType DEF Denied, Statuses, Reasons
    <3>2. CASE call[p].at \in {"finished", "budget"}
      BY <1>0, <1>3, <3>2, SettleType DEF Denied, Statuses, Reasons, Ended
    <3> QED
      BY <1>3, <3>1, <3>2 DEF Denied
  <2> QED
    BY <1>3, <2>1, <2>2 DEF Denied, OtherTypes, pastVars
<1>4. CASE StartStep(p)
  BY <1>4, MoveType DEF StartStep, Steps, RunTypes, OtherTypes, runVars, pastVars
<1>5. CASE StepRefused(p)
  BY <1>5, FailType DEF StepRefused, OtherTypes, pastVars
<1>6. CASE CompleteEmpty(p)
  <2>1. RunTypes'
    BY <1>0, <1>6, SettleType DEF CompleteEmpty, Statuses, Reasons, Ended
  <2> QED
    BY <1>6, <2>1, ReleaseType DEF CompleteEmpty, OtherTypes, pastVars
<1>7. CASE RunNode(p)
  <2>1. Kind(p) # "none"
    BY <1>7 DEF RunNode, Ready
  <2>2. RunTypes' /\ done' \in [Runs -> Seq(Nat)] /\ recorded' \in [Runs -> 0..MaxSends]
    BY <1>7, <2>1, AdvanceType DEF RunNode
  <2> QED
    BY <1>7, <2>2, MoveType DEF RunNode, Steps, OtherTypes
<1>8. CASE Fenced(p)
  BY <1>8, FailType DEF Fenced, OtherTypes, pastVars
<1>9. CASE Record(p)
  <2>1. recorded[run[p]] + 1 \in 0..MaxSends
    BY <1>0, <1>9, Bounds DEF Record, MayRecord
  <2> QED
    BY <1>0, <1>9, <2>1 DEF Record, RunTypes, PassTypes, OtherTypes, Steps, runVars, pastVars
<1>10. CASE SendsExhausted(p)
  BY <1>10, FailType DEF SendsExhausted, OtherTypes, pastVars
<1>11. CASE SendWebhook(p)
  <2>1. RunTypes' /\ OtherTypes'
    <3>1. \A x \in Nodes : sent[x] + 1 \in Nat
      BY DEF OtherTypes
    <3>2. sent' \in [Nodes -> Nat]
      BY <1>11, <3>1 DEF SendWebhook, OtherTypes
    <3> QED
      BY <1>11, <3>2 DEF SendWebhook, RunTypes, OtherTypes, runVars
  <2>2. PassTypes'
    BY <1>11 DEF SendWebhook, PassTypes, Steps
  <2> QED
    BY <2>1, <2>2
<1>12. CASE RecordAnswer(p)
  <2>1. PassTypes' /\ UNCHANGED <<events, sent, retries, leaked>>
    BY <1>12, MoveType DEF RecordAnswer, Steps
  <2>2. CASE answer[p] = "accepted" /\ Advance(p)
    <3>1. Kind(p) # "none"
      BY <1>12 DEF RecordAnswer, Sending
    <3> QED
      BY <2>1, <2>2, <3>1, AdvanceType DEF OtherTypes
  <2>3. CASE /\ \E s \in Statuses : Put(p, s, 0, "none")
             /\ UNCHANGED <<node, done, recorded>>
    BY <2>1, <2>3, PutType, Bounds DEF OtherTypes, Reasons
  <2> QED
    BY <1>12, <2>2, <2>3 DEF RecordAnswer, Statuses, Ended
<1>13. CASE AnswerFenced(p)
  BY <1>13, FailType DEF AnswerFenced, OtherTypes, pastVars
<1>14. CASE Look(p)
  <2>1. \E terminal \in BOOLEAN : ToRelease(p, terminal)
    <3>1. (status[run[p]] \in {"completed", "failed", "blocked"}) \in BOOLEAN
      OBVIOUS
    <3> QED
      BY <1>14, <3>1 DEF Look
  <2> QED
    BY <1>14, <2>1, ReleaseType DEF Look, RunTypes, OtherTypes, runVars, pastVars
<1>15. CASE ReturnSlot(p)
  BY <1>15, LeaveType DEF ReturnSlot, RunTypes, OtherTypes, runVars, pastVars
<1>16. CASE Recover(p)
  BY <1>0, <1>16, LeaveType DEF Recover, RunTypes, OtherTypes, runVars, pastVars
<1> QED
  BY <1>1, <1>2, <1>3, <1>4, <1>5, <1>6, <1>7, <1>8, <1>9, <1>10, <1>11, <1>12,
     <1>13, <1>14, <1>15, <1>16 DEF PassStep

\* Only the pass that takes a step moves.
Alone(p) == \A q \in Passes \ {p} :
              pc'[q] = pc[q] /\ run'[q] = run[q] /\ at'[q] = at[q]

LEMMA PassAlone ==
  ASSUME PassTypes, NEW p \in Passes, PassStep(p)
  PROVE  /\ Alone(p)
         /\ pc'[p] \in {"send", "answered"} =>
              /\ pc[p] \in {"send", "answered"} \/ Kind(p) = "webhook"
              /\ run'[p] = run[p] /\ at'[p] = at[p]
<1> USE DEF PassTypes, Alone
<1>1. CASE StartAdmit(p) \/ StartStep(p)
  BY <1>1 DEF StartAdmit, StartStep, Move
<1>2. CASE PolicyStatement(p)
  BY <1>2 DEF PolicyStatement, passVars
<1>3. CASE Denied(p) \/ ReturnSlot(p) \/ Recover(p)
  BY <1>3 DEF Denied, ReturnSlot, Recover, Leave
<1>4. CASE StepRefused(p) \/ CompleteEmpty(p) \/ Fenced(p) \/ SendsExhausted(p)
  BY <1>4 DEF StepRefused, CompleteEmpty, Fenced, SendsExhausted, Fail, ToRelease
<1>5. CASE AnswerFenced(p) \/ Look(p)
  BY <1>5 DEF AnswerFenced, Look, Fail, ToRelease
<1>6. CASE RunNode(p) \/ RecordAnswer(p)
  BY <1>6 DEF RunNode, RecordAnswer, Move
<1>7. CASE Record(p)
  BY <1>7 DEF Record, Ready
<1>8. CASE SendWebhook(p)
  BY <1>8 DEF SendWebhook
<1> QED
  BY <1>1, <1>2, <1>3, <1>4, <1>5, <1>6, <1>7, <1>8 DEF PassStep

LEMMA EventType == ASSUME events \in 0..MaxEvents, Event PROVE events' \in 0..MaxEvents
BY NativeAssumption DEF Event

LEMMA LeaveSending ==
  ASSUME PassTypes, Sending, NEW p \in Passes, Leave(p)
  PROVE  Sending'
BY DEF Leave, PassTypes, Sending, Kind, KindOf

LEMMA TypeStepNative ==
  ASSUME Typed, Sending, [Next]_vars
  PROVE  Typed' /\ Sending'
<1>1. ASSUME NEW p \in Passes, PassStep(p)
      PROVE  Typed' /\ Sending'
  <2>1. Typed'
    BY <1>1, PassTypeStep
  <2>2. Sending'
    BY <1>1, PassAlone DEF Typed, Sending, Alone, Kind, KindOf
  <2> QED
    BY <2>1, <2>2
<1>2. ASSUME NEW p \in Passes, NEW r \in Runs, Claim(p, r)
      PROVE  Typed' /\ Sending'
  <2> DEFINE n == IF attempts[r] < MaxAttempts THEN attempts[r] + 1 ELSE MaxAttempts
  <2>1. n \in 0..MaxAttempts
    BY Bounds DEF Typed, RunTypes
  <2>2. RunTypes'
    BY <1>2, <2>1 DEF Claim, Typed, RunTypes
  <2>3. PassTypes'
    BY <1>2, <2>1 DEF Claim, Typed, RunTypes, PassTypes, Steps
  <2>4. OtherTypes'
    BY <1>2 DEF Claim, Typed, OtherTypes, pastVars
  <2>5. Sending'
    BY <1>2 DEF Claim, Typed, PassTypes, Sending, Kind, KindOf
  <2> QED
    BY <2>2, <2>3, <2>4, <2>5 DEF Typed
<1>3. ASSUME NEW p \in Passes, Revoked(p) \/ ThrowEarly(p)
      PROVE  Typed' /\ Sending'
  <2>1. PassTypes'
    BY <1>3, LeaveType DEF Revoked, ThrowEarly, Typed
  <2>2. RunTypes'
    <3>1. attempts[run[p]] \in 0..MaxAttempts
      BY DEF Typed, RunTypes, PassTypes
    <3> QED
      BY <1>3, <3>1, SettleType, CatchType
      DEF Revoked, ThrowEarly, Typed, Statuses, Reasons, Ended
  <2>3. OtherTypes'
    BY <1>3, EventType DEF Revoked, ThrowEarly, Typed, OtherTypes, PassTypes, pastVars
  <2>4. Sending'
    BY <1>3, LeaveSending DEF Revoked, ThrowEarly, Typed
  <2> QED
    BY <2>1, <2>2, <2>3, <2>4 DEF Typed
<1>4. ASSUME NEW p \in Passes, Throw(p)
      PROVE  Typed' /\ Sending'
  <2>1. RunTypes' /\ PassTypes'
    BY <1>4, FailType DEF Throw, Typed
  <2>2. OtherTypes'
    BY <1>4, EventType DEF Throw, Typed, OtherTypes, pastVars
  <2>3. Sending'
    BY <1>4 DEF Throw, Fail, ToRelease, Typed, PassTypes, Sending, Kind, KindOf
  <2> QED
    BY <2>1, <2>2, <2>3 DEF Typed
<1>5. ASSUME NEW p \in Passes, ReleaseLost(p)
      PROVE  Typed' /\ Sending'
  <2>1. PassTypes'
    BY <1>5, LeaveType DEF ReleaseLost, Typed
  <2>2. RunTypes' /\ OtherTypes'
    BY <1>5, EventType DEF ReleaseLost, Typed, RunTypes, OtherTypes, PassTypes, runVars, pastVars
  <2>3. Sending'
    BY <1>5, LeaveSending DEF ReleaseLost, Typed
  <2> QED
    BY <2>1, <2>2, <2>3 DEF Typed
<1>6. ASSUME NEW p \in Passes, Crash(p)
      PROVE  Typed' /\ Sending'
  <2>1. PassTypes'
    BY <1>6, MoveType DEF Crash, Typed, Steps
  <2>2. RunTypes' /\ OtherTypes'
    BY <1>6, EventType DEF Crash, Typed, RunTypes, OtherTypes, runVars, pastVars
  <2>3. Sending'
    BY <1>6 DEF Crash, Move, Typed, PassTypes, Sending, Kind, KindOf
  <2> QED
    BY <2>1, <2>2, <2>3 DEF Typed
<1>7. ASSUME NEW r \in Runs, LeaseEnds(r) \/ SlotEnds(r) \/ Cancel(r) \/ Retry(r)
      PROVE  Typed' /\ Sending'
  <2>1. UNCHANGED passVars
    BY <1>7 DEF LeaseEnds, SlotEnds, Cancel, Retry
  <2>2. PassTypes' /\ Sending'
    BY <2>1 DEF Typed, PassTypes, Sending, passVars, Kind, KindOf
  <2>3. events' \in 0..MaxEvents
    <3>1. Event \/ UNCHANGED events
      BY <1>7 DEF LeaseEnds, SlotEnds, Cancel, Retry
    <3> QED
      BY <3>1, EventType DEF Typed, OtherTypes
  <2>4. RunTypes'
    <3>1. CASE LeaseEnds(r)
      BY <3>1 DEF LeaseEnds, Typed, RunTypes
    <3>2. CASE SlotEnds(r)
      BY <3>2 DEF SlotEnds, Typed, RunTypes, runVars
    <3>3. CASE Cancel(r)
      BY <3>3 DEF Cancel, Typed, RunTypes, Ended
    <3>4. CASE Retry(r)
      BY <3>4, Bounds DEF Retry, Typed, RunTypes
    <3> QED
      BY <1>7, <3>1, <3>2, <3>3, <3>4
  <2>5. OtherTypes'
    <3>1. CASE LeaseEnds(r) \/ SlotEnds(r) \/ Cancel(r)
      <4>1. UNCHANGED <<recorded, done, sent, retries>> /\ leaked' \subseteq leaked
        BY <3>1 DEF LeaseEnds, SlotEnds, Cancel, pastVars
      <4> QED
        BY <2>3, <4>1 DEF Typed, OtherTypes
    <3>2. CASE Retry(r)
      <4>1. retries[r] + 1 \in Nat
        BY DEF Typed, OtherTypes
      <4>2. retries' \in [Runs -> Nat]
        BY <3>2, <4>1 DEF Retry, Typed, OtherTypes
      <4>3. recorded' \in [Runs -> 0..MaxSends]
        BY <3>2, Bounds DEF Retry, Typed, OtherTypes
      <4>4. UNCHANGED <<done, sent, leaked>>
        BY <3>2 DEF Retry
      <4> QED
        BY <2>3, <4>2, <4>3, <4>4 DEF Typed, OtherTypes
    <3> QED
      BY <1>7, <3>1, <3>2
  <2> QED
    BY <2>2, <2>4, <2>5 DEF Typed
<1>8. CASE Operate
  <2>1. RunTypes' /\ PassTypes' /\ OtherTypes'
    BY <1>8, EventType
    DEF Operate, Typed, RunTypes, PassTypes, OtherTypes, runVars, passVars, pastVars
  <2>2. Sending'
    BY <1>8 DEF Operate, Sending, Kind, KindOf, passVars
  <2> QED
    BY <2>1, <2>2 DEF Typed
<1>9. CASE UNCHANGED vars
  BY <1>9 DEF Typed, RunTypes, PassTypes, OtherTypes, Sending, Kind, KindOf, vars,
     runVars, passVars, pastVars
<1> QED
  BY <1>1, <1>2, <1>3, <1>4, <1>5, <1>6, <1>7, <1>8, <1>9 DEF Next

LEMMA InitTyped == Init => PolicyTypeOK /\ Typed /\ Sending
<1>1. 1 \in Nat /\ \A r \in Runs : 1 \in 1..Len(Flow[r]) + 1
  BY Bounds
<1>2. Init => PolicyTypeOK
  <2>1. 0 \in 0..MaxSteps
    BY PolicyAssumption
  <2>2. PolicyInit => PolicyTypeOK
    BY <2>1, NoCallType DEF PolicyInit, PolicyTypeOK
  <2> QED
    BY <2>2 DEF Init
<1>3. Init => RunTypes
  BY <1>1, Bounds DEF Init, RunTypes
<1>4. Init => PassTypes
  BY <1>1, Bounds DEF Init, PassTypes, Steps
<1>5. Init => OtherTypes
  BY Bounds, NativeAssumption DEF Init, OtherTypes
<1>6. Init => Sending
  BY DEF Init, Sending
<1> QED
  BY <1>2, <1>3, <1>4, <1>5, <1>6 DEF Typed

\* The runtime uses the policy as its contract allows: every step of it is a
\* step of a caller of the policy, whatever passes die or are overtaken.
THEOREM NativeImplementsPolicy == Spec => PolicySpec
<1>1. Init => PolicyInit
  BY DEF Init
<1>2. Typed /\ [Next]_vars => [PolicyNext]_policyVars
  BY PolicyStep DEF Typed
<1>3. Typed /\ Sending /\ [Next]_vars => Typed' /\ Sending'
  BY TypeStepNative
<1> QED
  BY <1>1, <1>2, <1>3, InitTyped, PTL DEF Spec, PolicySpec

LEMMA TypedAlways == Spec => [](Typed /\ Sending)
<1>1. Typed /\ Sending /\ [Next]_vars => Typed' /\ Sending'
  BY TypeStepNative
<1> QED
  BY <1>1, InitTyped, PTL DEF Spec

\* Every variable of runs, passes and reservations keeps its type; a pass is
\* never past the end of its flow.
THEOREM NativeTypes == Spec => []TypeOK
<1>1. PolicyTypeOK /\ Typed => TypeOK
  BY TypeParts DEF Typed
<1> QED
  BY <1>1, TypedAlways, NativeImplementsPolicy, PolicyTypes, PTL

\* In the runtime, too, a pass takes a slot beyond the limit only by a step
\* that renews its own run's lapsed lease by an outdated clock, because the
\* policy keeps to that with callers of any kind.
THEOREM NativeConcurrency == Spec => ConcurrencyBounded
BY NativeImplementsPolicy, ConcurrencyIsBounded, PTL

-----------------------------------------------------------------------------
(* What a pass writes about its run: nothing, or, while it holds the claim, *)
(* an outcome with or without a checkpoint; either way it gives up the      *)
(* claim.                                                                   *)

Gives(p) ==
  /\ Holds(p)
  /\ \E s \in Statuses : status' = [status EXCEPT ![run[p]] = s]
  /\ token' = [token EXCEPT ![run[p]] = NoPass]

Checkpoint(p) ==
  /\ pc[p] \notin {"idle", "dead"}
  /\ node' = [node EXCEPT ![run[p]] = at[p] + 1]
  /\ done' = [done EXCEPT ![run[p]] = Append(@, at[p])]

Effect(p) ==
  /\ \/ UNCHANGED <<status, token, node, done>>
     \/ Gives(p) /\ UNCHANGED <<node, done>>
     \/ Gives(p) /\ Checkpoint(p)
  /\ UNCHANGED retries

Stays(p) == \/ pc'[p] \in {"idle", "dead"}
            \/ /\ pc[p] \notin {"idle", "dead"}
               /\ run'[p] = run[p] /\ at'[p] = at[p]

Act(p) == PassStep(p) \/ Revoked(p) \/ ThrowEarly(p) \/ Throw(p) \/ ReleaseLost(p) \/ Crash(p)

LEMMA SettleEffect ==
  ASSUME NEW p \in Passes, NEW s \in Statuses, NEW n, NEW why, Settle(p, s, n, why)
  PROVE  \/ UNCHANGED <<status, token, node>>
         \/ Gives(p) /\ UNCHANGED node
BY DEF Settle, Put, Gives

LEMMA CatchEffect ==
  ASSUME NEW p \in Passes, NEW e, Catch(p, e)
  PROVE  \/ UNCHANGED <<status, token, node>>
         \/ Gives(p) /\ UNCHANGED node
<1>1. (IF Again(p, e) THEN "queued" ELSE "failed") \in Statuses
  BY DEF Statuses, Ended
<1> QED
  BY <1>1, SettleEffect DEF Catch

LEMMA FailEffect ==
  ASSUME PassTypes, NEW p \in Passes, NEW e, Fail(p, e)
  PROVE  /\ \/ UNCHANGED <<status, token, node>>
            \/ Gives(p) /\ UNCHANGED node
         /\ run' = run /\ at' = at
BY CatchEffect DEF Fail, ToRelease

LEMMA AdvanceEffect ==
  ASSUME NEW p \in Passes, Holds(p), Advance(p)
  PROVE  /\ Gives(p)
         /\ node' = [node EXCEPT ![run[p]] = at[p] + 1]
         /\ done' = [done EXCEPT ![run[p]] = Append(@, at[p])]
<1>1. \E s \in Statuses : Put(p, s, 0, "none")
  BY DEF Advance, Statuses, Ended
<1> QED
  BY <1>1 DEF Advance, Put, Gives

LEMMA ActEffect ==
  ASSUME PassTypes, NEW p \in Passes, Act(p)
  PROVE  Effect(p) /\ Stays(p) /\ Alone(p)
<1> USE DEF PassTypes, Stays, Alone
<1>1. CASE StartAdmit(p) \/ StartStep(p) \/ Crash(p)
  BY <1>1 DEF StartAdmit, StartStep, Crash, Move, Effect, runVars, pastVars
<1>2. CASE PolicyStatement(p)
  <2>1. UNCHANGED <<runVars, passVars, pastVars>>
    BY <1>2 DEF PolicyStatement
  <2> QED
    BY <2>1 DEF Effect, runVars, passVars, pastVars
<1>3. CASE Denied(p)
  <2>1. \E s \in Statuses, n \in 0..MaxAttempts, why \in Reasons : Settle(p, s, n, why)
    <3>1. CASE call[p].at \in {"paused", "concurrent"}
      BY <1>3, <3>1, Bounds DEF Denied, Statuses, Reasons
    <3>2. CASE call[p].at \in {"finished", "budget"}
      BY <1>3, <3>2, Bounds DEF Denied, Statuses, Reasons, Ended
    <3> QED
      BY <1>3, <3>1, <3>2 DEF Denied
  <2> QED
    BY <1>3, <2>1, SettleEffect DEF Denied, Leave, Effect, pastVars
<1>4. CASE ReturnSlot(p) \/ Recover(p) \/ ReleaseLost(p)
  BY <1>4 DEF ReturnSlot, Recover, ReleaseLost, Leave, Effect, runVars, pastVars
<1>5. CASE StepRefused(p) \/ Fenced(p) \/ SendsExhausted(p) \/ AnswerFenced(p)
  <2>1. \E e : Fail(p, e)
    BY <1>5 DEF StepRefused, Fenced, SendsExhausted, AnswerFenced
  <2>2. pc[p] \in {"step", "answered"} /\ UNCHANGED <<done, retries>>
    BY <1>5 DEF StepRefused, Fenced, SendsExhausted, AnswerFenced, Ready, pastVars
  <2>3. Alone(p)
    BY <2>1 DEF Fail, ToRelease
  <2> QED
    BY <2>1, <2>2, <2>3, FailEffect DEF Effect
<1>6. CASE CompleteEmpty(p)
  <2>1. \/ UNCHANGED <<status, token, node>>
        \/ Gives(p) /\ UNCHANGED node
    BY <1>6, SettleEffect DEF CompleteEmpty, Statuses, Ended
  <2> QED
    BY <1>6, <2>1 DEF CompleteEmpty, Ready, ToRelease, Effect, pastVars
<1>7. CASE RunNode(p)
  BY <1>7, AdvanceEffect DEF RunNode, Ready, Move, Effect, Checkpoint
<1>8. CASE Record(p)
  BY <1>8 DEF Record, Ready, Effect, runVars, pastVars
<1>9. CASE SendWebhook(p)
  BY <1>9 DEF SendWebhook, Effect, runVars
<1>10. CASE RecordAnswer(p)
  <2>1. Stays(p) /\ Alone(p) /\ UNCHANGED retries /\ pc[p] \notin {"idle", "dead"}
    BY <1>10 DEF RecordAnswer, Move
  <2>2. CASE Advance(p)
    BY <1>10, <2>1, <2>2, AdvanceEffect DEF RecordAnswer, Effect, Checkpoint
  <2>3. CASE (\E s \in Statuses : Put(p, s, 0, "none")) /\ UNCHANGED <<node, done>>
    BY <1>10, <2>1, <2>3 DEF RecordAnswer, Effect, Gives, Put
  <2> QED
    BY <1>10, <2>2, <2>3 DEF RecordAnswer, Statuses, Ended
<1>11. CASE Look(p)
  BY <1>11 DEF Look, ToRelease, Effect, runVars, pastVars
<1>12. CASE Revoked(p)
  BY <1>12, SettleEffect DEF Revoked, Leave, Effect, Statuses, Ended, pastVars
<1>13. CASE ThrowEarly(p)
  BY <1>13, CatchEffect DEF ThrowEarly, Leave, Effect, pastVars
<1>14. CASE Throw(p)
  <2>1. PICK e \in MayThrow(p) : Fail(p, e)
    BY <1>14 DEF Throw
  <2>2. UNCHANGED <<done, retries>>
    BY <1>14 DEF Throw, pastVars
  <2>3. pc[p] \notin {"idle", "dead"}
    BY <2>1 DEF MayThrow
  <2>4. Alone(p)
    BY <2>1 DEF Fail, ToRelease
  <2> QED
    BY <2>1, <2>2, <2>3, <2>4, FailEffect DEF Effect
<1> QED
  BY <1>1, <1>2, <1>3, <1>4, <1>5, <1>6, <1>7, <1>8, <1>9, <1>10, <1>11, <1>12,
     <1>13, <1>14 DEF Act, PassStep

-----------------------------------------------------------------------------
(* Checkpoints.  A pass that holds the claim of a run is at its next node: *)
(* the fence then lets nobody checkpoint a node for a second time.         *)

Current == \A p \in Passes : pc[p] \notin {"idle", "dead"} /\ Holds(p) => at[p] = node[run[p]]

LEMMA AppendNext ==
  ASSUME NEW s \in Seq(Nat), s = [n \in 1..Len(s) |-> n]
  PROVE  LET t == Append(s, Len(s) + 1)
         IN  Len(t) = Len(s) + 1 /\ t = [n \in 1..Len(t) |-> n]
OBVIOUS

\* Nothing is written: the pass stays at its node or leaves it.
LEMMA AloneCurrent ==
  ASSUME Current, NEW p \in Passes, Stays(p), Alone(p),
         UNCHANGED <<status, token, node>>
  PROVE  Current'
<1> SUFFICES ASSUME NEW q \in Passes, pc'[q] \notin {"idle", "dead"}, Holds(q)'
             PROVE  at'[q] = node'[run'[q]]
  BY DEF Current
<1>1. pc[q] \notin {"idle", "dead"} /\ run'[q] = run[q] /\ at'[q] = at[q]
  BY DEF Stays, Alone
<1>2. Holds(q)
  BY <1>1 DEF Holds
<1> QED
  BY <1>1, <1>2 DEF Current

\* Nobody holds the claim of a run that was given up.
LEMMA AloneGives ==
  ASSUME Current, NEW p \in Passes, Stays(p), Alone(p), token'[run[p]] = NoPass,
         \A r \in Runs \ {run[p]} : /\ token'[r] = token[r] /\ status'[r] = status[r]
                                    /\ node'[r] = node[r],
         run \in [Passes -> Runs]
  PROVE  Current'
<1> SUFFICES ASSUME NEW q \in Passes, pc'[q] \notin {"idle", "dead"}, Holds(q)'
             PROVE  at'[q] = node'[run'[q]]
  BY DEF Current
<1>1. pc[q] \notin {"idle", "dead"} /\ run'[q] = run[q] /\ at'[q] = at[q] /\ run[q] \in Runs
  BY DEF Stays, Alone
<1>2. run[q] # run[p]
  BY <1>1, NativeAssumption DEF Holds
<1>3. Holds(q)
  BY <1>1, <1>2 DEF Holds
<1> QED
  BY <1>1, <1>2, <1>3 DEF Current

LEMMA ActOrdered ==
  ASSUME Typed, Typed', Current, NodesOnceInOrder, NEW p \in Passes, Act(p)
  PROVE  Current' /\ NodesOnceInOrder'
<1> USE DEF Typed, PassTypes, RunTypes, Holds
<1>1. /\ Effect(p) /\ Stays(p) /\ Alone(p)
      /\ run[p] \in Runs /\ p # NoPass
  BY ActEffect, NativeAssumption DEF Passes
<1>2. CASE UNCHANGED <<status, token, node, done>>
  <2>1. NodesOnceInOrder'
    BY <1>2 DEF NodesOnceInOrder
  <2>2. Current'
    BY <1>1, <1>2, AloneCurrent
  <2> QED
    BY <2>1, <2>2
<1>3. ASSUME Gives(p), \A r \in Runs \ {run[p]} : node'[r] = node[r]
      PROVE  Current'
  <2>1. token'[run[p]] = NoPass
    BY <1>1, <1>3 DEF Gives
  <2>2. \A r \in Runs \ {run[p]} : token'[r] = token[r] /\ status'[r] = status[r]
    BY <1>1, <1>3 DEF Gives
  <2>3. \A r \in Runs \ {run[p]} : node'[r] = node[r]
    BY <1>3
  <2> QED
    BY <1>1, <2>1, <2>2, <2>3, AloneGives
<1>4. CASE Gives(p) /\ UNCHANGED <<node, done>>
  BY <1>3, <1>4 DEF NodesOnceInOrder
<1>5. CASE Gives(p) /\ Checkpoint(p)
  <2>1. at[p] = node[run[p]] /\ at[p] = Len(done[run[p]]) + 1
    BY <1>1, <1>5 DEF Gives, Checkpoint, Current, NodesOnceInOrder
  <2>2. /\ done[run[p]] \in Seq(Nat) /\ done \in [Runs -> Seq(Nat)]
        /\ done[run[p]] = [n \in 1..Len(done[run[p]]) |-> n]
    BY <1>1 DEF OtherTypes, NodesOnceInOrder
  <2> DEFINE t == Append(done[run[p]], Len(done[run[p]]) + 1)
  <2>3. Len(t) = Len(done[run[p]]) + 1 /\ t = [n \in 1..Len(t) |-> n]
    BY <2>2, AppendNext
  <2>4. /\ done'[run[p]] = t /\ node'[run[p]] = Len(t) + 1
        /\ \A r \in Runs \ {run[p]} : done'[r] = done[r] /\ node'[r] = node[r]
    BY <1>1, <1>5, <2>1, <2>2, <2>3 DEF Checkpoint
  <2>5. NodesOnceInOrder'
    <3> SUFFICES ASSUME NEW r \in Runs
                 PROVE  (done[r] = [n \in 1..Len(done[r]) |-> n] /\ node[r] = Len(done[r]) + 1)'
      BY DEF NodesOnceInOrder
    <3> HIDE DEF t
    <3>1. CASE r = run[p]
      BY <2>3, <2>4, <3>1
    <3>2. CASE r # run[p]
      BY <2>4, <3>2 DEF NodesOnceInOrder
    <3> QED
      BY <3>1, <3>2
  <2> QED
    BY <1>3, <1>5, <2>4, <2>5
<1> QED
  BY <1>1, <1>2, <1>4, <1>5 DEF Effect

LEMMA OrderedStep ==
  ASSUME Typed, Typed', Current, NodesOnceInOrder, [Next]_vars
  PROVE  Current' /\ NodesOnceInOrder'
<1> USE DEF Typed, PassTypes, RunTypes, Holds
<1>1. ASSUME NEW p \in Passes, Act(p)
      PROVE  Current' /\ NodesOnceInOrder'
  BY <1>1, ActOrdered
<1>2. ASSUME NEW p \in Passes, NEW r \in Runs, Claim(p, r)
      PROVE  Current' /\ NodesOnceInOrder'
  <2>1. NodesOnceInOrder'
    BY <1>2 DEF Claim, NodesOnceInOrder, pastVars
  <2> SUFFICES ASSUME NEW q \in Passes, pc'[q] \notin {"idle", "dead"}, Holds(q)'
               PROVE  at'[q] = node'[run'[q]]
    BY <2>1 DEF Current
  <2>2. CASE q = p
    BY <1>2, <2>2 DEF Claim
  <2>3. CASE q # p
    <3>1. /\ pc'[q] = pc[q] /\ run'[q] = run[q] /\ at'[q] = at[q]
          /\ node' = node
      BY <1>2, <2>3 DEF Claim
    <3>2. run[q] # r
      BY <1>2, <2>3, <3>1 DEF Claim
    <3>3. Holds(q)
      BY <1>2, <3>1, <3>2 DEF Claim
    <3> QED
      BY <3>1, <3>3 DEF Current
  <2> QED
    BY <2>2, <2>3
<1>3. ASSUME NEW r \in Runs, LeaseEnds(r) \/ SlotEnds(r)
      PROVE  Current' /\ NodesOnceInOrder'
  BY <1>3 DEF LeaseEnds, SlotEnds, Current, NodesOnceInOrder, runVars, passVars, pastVars
<1>4. ASSUME NEW r \in Runs, Cancel(r) \/ Retry(r)
      PROVE  Current' /\ NodesOnceInOrder'
  <2>1. UNCHANGED <<pc, run, at, node, done>>
    BY <1>4 DEF Cancel, Retry, passVars, pastVars
  <2>2. NodesOnceInOrder'
    BY <2>1 DEF NodesOnceInOrder
  <2>3. \A x \in Runs : token'[x] = token[x] \/ token'[x] = NoPass
    <3>1. token' = [token EXCEPT ![r] = NoPass] \/ token' = token
      BY <1>4 DEF Cancel, Retry
    <3>2. token \in [Runs -> Passes \cup {NoPass}]
      BY DEF Typed, RunTypes
    <3> QED
      BY <3>1, <3>2
  <2>4. \A x \in Runs : status'[x] = "running" => status[x] = "running"
    BY <1>4 DEF Cancel, Retry
  <2>5. \A q \in Passes : Holds(q)' => Holds(q)
    BY <2>1, <2>3, <2>4, NativeAssumption
  <2> QED
    BY <2>1, <2>2, <2>5 DEF Current
<1>5. CASE Operate
  BY <1>5 DEF Operate, Current, NodesOnceInOrder, runVars, passVars, pastVars
<1>6. CASE UNCHANGED vars
  BY <1>6 DEF Current, NodesOnceInOrder, vars, runVars, passVars, pastVars
<1> QED
  BY <1>1, <1>2, <1>3, <1>4, <1>5, <1>6 DEF Next, Act

\* Every node of a run is checkpointed once and in the order of the flow,
\* whatever passes are overtaken, die or are retried, for every flow.
THEOREM NodesAreOnceInOrder == Spec => []NodesOnceInOrder
<1>1. Init => Current /\ NodesOnceInOrder
  BY DEF Init, Current, NodesOnceInOrder
<1>2. Typed /\ Typed' /\ Current /\ NodesOnceInOrder /\ [Next]_vars
        => Current' /\ NodesOnceInOrder'
  BY OrderedStep
<1> QED
  BY <1>1, <1>2, TypedAlways, PTL DEF Spec

\* No pass writes over the outcome of a run that has ended; only a manual retry
\* takes a failed or blocked one up again.
THEOREM EndedRunsStay == Spec => EndedStays
<1> DEFINE Kept(r) == status[r] \in Ended /\ status'[r] # status[r] =>
                        status[r] \in {"failed", "blocked"} /\ retries'[r] = retries[r] + 1
<1>1. ASSUME Typed, [Next]_vars, NEW r \in Runs
      PROVE  Kept(r)
  <2>0. /\ status \in [Runs -> Ended \cup {"queued", "waiting", "running"}]
        /\ retries \in [Runs -> Nat] /\ run \in [Passes -> Runs] /\ PassTypes
    BY <1>1 DEF Typed, RunTypes, PassTypes, OtherTypes
  <2>1. ASSUME NEW p \in Passes, Act(p)
        PROVE  Kept(r)
    <3>1. Effect(p) /\ run[p] \in Runs
      BY <2>0, <2>1, ActEffect
    <3>2. CASE UNCHANGED status
      BY <3>2
    <3>3. CASE Gives(p)
      BY <2>0, <3>1, <3>3 DEF Gives, Holds, Ended
    <3> QED
      BY <3>1, <3>2, <3>3 DEF Effect
  <2>2. ASSUME NEW p \in Passes, NEW x \in Runs, Claim(p, x)
        PROVE  Kept(r)
    BY <2>0, <2>2 DEF Claim, Due, Ended
  <2>3. ASSUME NEW x \in Runs, LeaseEnds(x) \/ SlotEnds(x) \/ Cancel(x) \/ Retry(x)
        PROVE  Kept(r)
    <3>1. CASE LeaseEnds(x) \/ SlotEnds(x)
      BY <3>1 DEF LeaseEnds, SlotEnds, runVars
    <3>2. CASE Cancel(x)
      BY <2>0, <3>2 DEF Cancel, Ended
    <3>3. CASE Retry(x)
      <4>1. retries'[x] = retries[x] + 1 /\ status[x] \in {"failed", "blocked"}
        BY <2>0, <3>3 DEF Retry
      <4>2. \A y \in Runs \ {x} : status'[y] = status[y]
        BY <2>0, <3>3 DEF Retry
      <4> QED
        BY <4>1, <4>2
    <3> QED
      BY <2>3, <3>1, <3>2, <3>3
  <2>4. CASE Operate \/ UNCHANGED vars
    BY <2>4 DEF Operate, vars, runVars
  <2> QED
    BY <1>1, <2>1, <2>2, <2>3, <2>4 DEF Next, Act
<1>2. Typed /\ [Next]_vars => [\A r \in Runs : Kept(r)]_vars
  BY <1>1
<1> QED
  BY <1>2, TypedAlways, PTL DEF Spec, EndedStays

-----------------------------------------------------------------------------
(* Slots.  A live reservation has an owner: the pass whose call took it,   *)
(* until that pass gives it back.                                          *)

Busy(p) == \/ pc[p] \in Reserving \cup {"dead"}
           \/ pc[p] = "admit" /\ call[p].at = "allowed"

Owned == \A r \in Live : r \in leaked \/ \E p \in Passes : run[p] = r /\ Busy(p)

\* A call under way is about the run of the pass that made it.
Calling ==
  \A p \in Passes : Free(p) \/
    /\ call[p].id = run[p]
    /\ \/ pc[p] \in {"step", "dead"}
       \/ pc[p] = "admit" /\ call[p].at \notin {"step", "explain"}

LEMMA LiveKept == ASSUME UNCHANGED rowVars PROVE Live' = Live
BY DEF rowVars, Live

LEMMA StatementLive ==
  ASSUME PolicyTypeOK, NEW c \in Callers, Statement(c)
  PROVE  /\ Live' \subseteq Live \cup {call[c].id}
         /\ Live' \subseteq Live \/ call'[c].at \in {"allowed", "stepped"}
         /\ call'[c].id = call[c].id /\ ~Free(c)
         /\ call'[c].at \in {"step", "explain", "stepped"} => call[c].at \in {"step", "explain"}
         /\ \A d \in Callers \ {c} : call'[d] = call[d]
<1>0. /\ call \in [Callers -> Call] /\ call[c].id \in Ids
      /\ reserved \in [Ids -> {"none", "active", "completed"}]
  BY DEF PolicyTypeOK, Call
<1> DEFINE To(where) == Answer(c, where) \/ Goto(c, where)
<1>1. ASSUME NEW where, To(where)
      PROVE  /\ call'[c].at = where /\ call'[c].id = call[c].id
             /\ \A d \in Callers \ {c} : call'[d] = call[d]
  <2>1. CASE Goto(c, where)
    BY <1>0, <2>1 DEF Goto, Call
  <2>2. CASE Answer(c, where)
    BY <1>0, <2>2 DEF Answer, Call
  <2> QED
    BY <1>1, <2>1, <2>2
<1>2. \/ /\ \E where \in {"allowed", "stepped"} : To(where) /\ (where = "stepped" => call[c].at = "step")
         /\ Live' \subseteq Live \cup {call[c].id}
      \/ /\ \E where \in (Pending \cup Answers) \ {"step", "stepped"} :
              To(where) /\ (where = "explain" => call[c].at = "step")
         /\ Live' = Live
  <2> HIDE DEF To
  <2>0. \A where : Answer(c, where) \/ Goto(c, where) => To(where)
    BY DEF To
  <2>1. Hold(call[c].id) /\ UNCHANGED reserved => Live' \subseteq Live \cup {call[c].id}
    BY DEF Hold, Live
  <2>2. UNCHANGED <<reserved, active, leased>> => Live' = Live
    BY DEF Live
  <2>3. CASE AdmitEnter(c)
    BY <2>0, <2>1, <2>2, <2>3 DEF AdmitEnter, Pending, Answers
  <2>4. CASE AdmitReclaim(c)
    BY <2>0, <2>1, <2>2, <2>4 DEF AdmitReclaim, Pending, Answers
  <2>5. CASE AdmitInsert(c)
    <3>1. Hold(call[c].id) /\ reserved' = [reserved EXCEPT ![call[c].id] = "active"]
            => Live' \subseteq Live \cup {call[c].id}
      BY <1>0 DEF Hold, Live
    <3> QED
      BY <2>0, <2>2, <2>5, <3>1 DEF AdmitInsert, Pending, Answers
  <2>6. CASE AdmitRaced(c)
    BY <2>0, <2>6, LiveKept DEF AdmitRaced, Pending, Answers
  <2>7. CASE AdmitTally(c)
    BY <2>0, <2>7, LiveKept DEF AdmitTally, Pending, Answers
  <2>8. CASE StepUpdate(c)
    BY <2>0, <2>1, <2>2, <2>8 DEF StepUpdate, Pending, Answers
  <2>9. CASE StepExplain(c)
    BY <2>0, <2>9, LiveKept DEF StepExplain, Pending, Answers
  <2> QED
    BY <2>3, <2>4, <2>5, <2>6, <2>7, <2>8, <2>9 DEF Statement
<1>3. ~Free(c)
  BY DEF Statement, AdmitEnter, AdmitReclaim, AdmitInsert, AdmitRaced, AdmitTally,
     StepUpdate, StepExplain, Free, Answers
<1>4. CASE /\ \E where \in {"allowed", "stepped"} : To(where) /\ (where = "stepped" => call[c].at = "step")
           /\ Live' \subseteq Live \cup {call[c].id}
  <2> HIDE DEF To
  <2> QED
    BY <1>1, <1>3, <1>4
<1>5. CASE /\ \E where \in (Pending \cup Answers) \ {"step", "stepped"} :
                To(where) /\ (where = "explain" => call[c].at = "step")
           /\ Live' = Live
  <2> HIDE DEF To
  <2> QED
    BY <1>1, <1>3, <1>5
<1> QED
  BY <1>2, <1>4, <1>5

LEMMA ReleaseLive ==
  ASSUME PolicyTypeOK, NEW c \in Callers, NEW i \in Ids, NEW b \in BOOLEAN, Release(c, i, b)
  PROVE  Live' \subseteq Live \ {i}
BY DEF Release, PolicyTypeOK, rowVars, Live

\* What keeps every live reservation owned, when no slot is taken.
LEMMA OwnedFrame ==
  ASSUME Owned, NEW p \in Passes, run \in [Passes -> Runs], Alone(p),
         Live' \subseteq Live, \A r \in Live' : r \in leaked => r \in leaked',
         \A q \in Passes \ {p} : call'[q] = call[q],
         Busy(p) => \/ Busy(p)' /\ run'[p] = run[p]
                    \/ run[p] \in leaked'
                    \/ run[p] \notin Live'
  PROVE  Owned'
<1> SUFFICES ASSUME NEW r \in Live'
             PROVE  r \in leaked' \/ \E q \in Passes : run'[q] = r /\ Busy(q)'
  BY DEF Owned
<1>1. \A q \in Passes \ {p} : Busy(q) => Busy(q)' /\ run'[q] = run[q]
  BY DEF Alone, Busy
<1>2. r \in leaked \/ \E q \in Passes : run[q] = r /\ Busy(q)
  BY DEF Owned
<1> QED
  BY <1>1, <1>2

LEMMA ForgetFree ==
  ASSUME NEW p \in Passes, call \in [Callers -> Call], Forget(p)
  PROVE  Free(p)' /\ \A q \in Passes \ {p} : call'[q] = call[q]
BY DEF Forget, NoCall, Free, Answers, Passes

LEMMA CallingFrame ==
  ASSUME Calling, NEW p \in Passes, Alone(p), \A q \in Passes \ {p} : call'[q] = call[q],
         Free(p)' \/ (call'[p] = call[p] /\ run'[p] = run[p] /\ pc'[p] = pc[p])
  PROVE  Calling'
<1>1. \A q \in Passes \ {p} : Free(q)' <=> Free(q)
  BY DEF Free
<1>2. (call'[p] = call[p]) => (Free(p)' <=> Free(p))
  BY DEF Free
<1> QED
  BY <1>1, <1>2 DEF Calling, Alone

\* A step of a pass that takes no slot: its call is over, or never began.
Yields(p) ==
  /\ Live' \subseteq Live
  /\ \A r \in Live' : r \in leaked => r \in leaked'
  /\ \A q \in Passes \ {p} : call'[q] = call[q]
  /\ Free(p)'
  /\ Busy(p) => \/ (Busy(p)' /\ run'[p] = run[p])
                \/ run[p] \in leaked'
                \/ run[p] \notin Live'

LEMMA ActYields ==
  ASSUME PolicyTypeOK, PassTypes, Calling, NEW p \in Passes, Act(p),
         ~StartAdmit(p), ~StartStep(p), ~PolicyStatement(p), ~Crash(p)
  PROVE  Yields(p)
<1>0. /\ call \in [Callers -> Call] /\ pc \in [Passes -> Steps] /\ run[p] \in Runs
      /\ run \in [Passes -> Runs] /\ final[p] \in BOOLEAN
  BY DEF PolicyTypeOK, PassTypes
<1>1. UNCHANGED rowVars => Live' = Live
  BY LiveKept
<1>2. Forget(p) => Free(p)' /\ \A q \in Passes \ {p} : call'[q] = call[q]
  BY <1>0, ForgetFree
<1>3. pc[p] \notin {"admit", "step", "dead"} /\ UNCHANGED policyVars =>
        Free(p)' /\ UNCHANGED rowVars /\ \A q \in Passes \ {p} : call'[q] = call[q]
  BY DEF Calling, policyVars, rowVars, Free
<1>4. CASE Denied(p)
  BY <1>1, <1>2, <1>4 DEF Denied, Yields, Busy, Reserving
<1>5. ASSUME pc'[p] \in Reserving, run'[p] = run[p], UNCHANGED <<leaked, rowVars>>,
             Free(p)' /\ \A q \in Passes \ {p} : call'[q] = call[q]
      PROVE  Yields(p)
  BY <1>1, <1>5 DEF Yields, Busy
<1>6. CASE StepRefused(p) \/ Fenced(p) \/ SendsExhausted(p) \/ Throw(p)
  <2>1. \E e : Fail(p, e)
    BY <1>6 DEF StepRefused, Fenced, SendsExhausted, Throw
  <2>2. Forget(p) /\ UNCHANGED <<leaked, rowVars>>
    BY <1>6 DEF StepRefused, Fenced, SendsExhausted, Throw, pastVars
  <2> QED
    BY <1>0, <1>2, <1>5, <2>1, <2>2 DEF Fail, ToRelease, Reserving
<1>7. CASE CompleteEmpty(p)
  BY <1>0, <1>2, <1>5, <1>7 DEF CompleteEmpty, ToRelease, Reserving
<1>8. CASE RunNode(p)
  BY <1>0, <1>2, <1>5, <1>8 DEF RunNode, Move, Reserving
<1>9. CASE Record(p)
  BY <1>0, <1>2, <1>5, <1>9 DEF Record, Reserving
<1>10. CASE SendWebhook(p)
  BY <1>0, <1>3, <1>5, <1>10 DEF SendWebhook, Reserving
<1>11. CASE RecordAnswer(p)
  BY <1>0, <1>3, <1>5, <1>11 DEF RecordAnswer, Move, Reserving
<1>12. CASE AnswerFenced(p) \/ Look(p)
  <2>1. \E b : ToRelease(p, b)
    BY <1>12 DEF AnswerFenced, Look, Fail
  <2>2. UNCHANGED <<policyVars, leaked>> /\ pc[p] \in {"answered", "look"}
    BY <1>12 DEF AnswerFenced, Look
  <2> QED
    BY <1>0, <1>3, <1>5, <2>1, <2>2 DEF ToRelease, Reserving
<1>13. CASE ReturnSlot(p)
  <2>1. Live' \subseteq Live \ {run[p]}
    BY <1>0, <1>13, ReleaseLive DEF ReturnSlot, Passes, Runs
  <2>2. Forget(p) /\ leaked' = leaked \ {run[p]}
    BY <1>13 DEF ReturnSlot, Release
  <2> QED
    BY <1>2, <2>1, <2>2 DEF Yields
<1>14. CASE Recover(p)
  BY <1>1, <1>2, <1>14 DEF Recover, Yields
<1>15. CASE ReleaseLost(p)
  BY <1>1, <1>3, <1>15 DEF ReleaseLost, Yields
<1>16. CASE Revoked(p)
  BY <1>1, <1>3, <1>16 DEF Revoked, Yields, Busy, Reserving
<1>17. CASE ThrowEarly(p)
  BY <1>1, <1>2, <1>17 DEF ThrowEarly, Yields, Busy, Reserving
<1> QED
  BY <1>4, <1>6, <1>7, <1>8, <1>9, <1>10, <1>11, <1>12, <1>13, <1>14, <1>15, <1>16,
     <1>17 DEF Act, PassStep

LEMMA ActOwned ==
  ASSUME PolicyTypeOK, PassTypes, Calling, Owned, NEW p \in Passes, Act(p)
  PROVE  Calling' /\ Owned'
<1>0. /\ call \in [Callers -> Call] /\ pc \in [Passes -> Steps] /\ run[p] \in Runs
      /\ run \in [Passes -> Runs] /\ Alone(p)
  BY ActEffect DEF PolicyTypeOK, PassTypes
<1>1. CASE StartAdmit(p) \/ StartStep(p)
  <2>1. /\ \A q \in Passes \ {p} : call'[q] = call[q]
        /\ call'[p].id = run[p] /\ run'[p] = run[p] /\ UNCHANGED leaked
    BY <1>0, <1>1 DEF StartAdmit, StartStep, AdmitRead, StepRead, Begin, Move, Passes
  <2>2. Live' = Live
    BY <1>1, LiveKept DEF StartAdmit, StartStep, AdmitRead, StepRead
  <2>3. \/ pc[p] = "claimed" /\ pc'[p] = "admit" /\ call'[p].at \notin {"step", "explain"}
        \/ pc'[p] = "step"
    <3>1. CASE StartAdmit(p)
      BY <1>0, <3>1 DEF StartAdmit, AdmitRead, Begin, Move, Passes
    <3>2. CASE StartStep(p)
      BY <1>0, <3>2 DEF StartStep, Move
    <3> QED
      BY <1>1, <3>1, <3>2
  <2>4. Owned'
    <3>1. Busy(p) => Busy(p)'
      BY <2>3 DEF Busy, Reserving
    <3> QED
      BY <1>0, <2>1, <2>2, <3>1, OwnedFrame
  <2>5. Calling'
    <3>1. \A q \in Passes \ {p} : Free(q)' <=> Free(q)
      BY <2>1 DEF Free
    <3> QED
      BY <1>0, <2>1, <2>3, <3>1 DEF Calling, Alone
  <2> QED
    BY <2>4, <2>5
<1>2. CASE PolicyStatement(p)
  <2>1. /\ Live' \subseteq Live \cup {call[p].id}
        /\ Live' \subseteq Live \/ call'[p].at \in {"allowed", "stepped"}
        /\ call'[p].id = call[p].id /\ ~Free(p)
        /\ call'[p].at \in {"step", "explain", "stepped"} => call[p].at \in {"step", "explain"}
        /\ \A d \in Passes \ {p} : call'[d] = call[d]
    BY <1>2, StatementLive DEF PolicyStatement, Passes
  <2>2. pc' = pc /\ run' = run /\ UNCHANGED leaked
    BY <1>2 DEF PolicyStatement, passVars
  <2>3. Calling'
    <3>1. \A q \in Passes \ {p} : Free(q)' <=> Free(q)
      BY <2>1 DEF Free
    <3> QED
      BY <2>1, <2>2, <3>1 DEF Calling
  <2>4. ~Busy(p) \/ Busy(p)'
    BY <2>1, <2>2 DEF Busy, Free, Answers
  <2>5. Live' \subseteq Live \/ Busy(p)'
    BY <2>1, <2>2 DEF Calling, Busy, Reserving
  <2>6. call[p].id = run[p]
    BY <2>1 DEF Calling
  <2>7. \A q \in Passes \ {p} : Busy(q) => Busy(q)'
    BY <2>1, <2>2 DEF Busy
  <2>8. Owned'
    BY <2>1, <2>2, <2>4, <2>5, <2>6, <2>7 DEF Owned
  <2> QED
    BY <2>3, <2>8
<1>3. CASE Crash(p)
  <2>1. pc'[p] = "dead" /\ run'[p] = run[p] /\ UNCHANGED <<leaked, call, rowVars>>
    BY <1>0, <1>3 DEF Crash, Move, policyVars, rowVars
  <2>2. Owned'
    BY <1>0, <2>1, LiveKept, OwnedFrame DEF Busy
  <2>3. \A q \in Passes : Free(q)' <=> Free(q)
    BY <2>1 DEF Free
  <2>4. Calling'
    BY <1>0, <2>1, <2>3 DEF Calling, Alone
  <2> QED
    BY <2>2, <2>4
<1>4. CASE ~StartAdmit(p) /\ ~StartStep(p) /\ ~PolicyStatement(p) /\ ~Crash(p)
  <2>1. Yields(p)
    BY <1>4, ActYields
  <2>2. Owned'
    BY <1>0, <2>1, OwnedFrame DEF Yields
  <2>3. Calling'
    BY <1>0, <2>1, CallingFrame DEF Yields
  <2> QED
    BY <2>2, <2>3
<1> QED
  BY <1>1, <1>2, <1>3, <1>4

LEMMA OwnedStep ==
  ASSUME PolicyTypeOK, PassTypes, Calling, Owned, [Next]_vars
  PROVE  Calling' /\ Owned'
<1>0. call \in [Callers -> Call] /\ run \in [Passes -> Runs] /\ pc \in [Passes -> Steps]
  BY DEF PolicyTypeOK, PassTypes
<1>1. ASSUME NEW p \in Passes, Act(p)
      PROVE  Calling' /\ Owned'
  BY <1>1, ActOwned
<1>2. ASSUME NEW p \in Passes, NEW r \in Runs, Claim(p, r)
      PROVE  Calling' /\ Owned'
  <2>1. Alone(p) /\ ~Busy(p) /\ UNCHANGED <<leaked, call, rowVars>> /\ pc[p] = "idle"
    BY <1>0, <1>2 DEF Claim, Alone, Busy, Reserving, policyVars, rowVars
  <2>2. Owned'
    BY <1>0, <2>1, LiveKept, OwnedFrame
  <2>3. Free(p)'
    BY <2>1 DEF Calling, Free
  <2> QED
    BY <2>1, <2>2, <2>3, CallingFrame
<1>3. ASSUME UNCHANGED <<pc, run>>, Live' \subseteq Live,
             \A r \in Live' : r \in leaked => r \in leaked',
             \A p \in Passes : call'[p].at = call[p].at /\ call'[p].id = call[p].id
      PROVE  Calling' /\ Owned'
  <2>1. \A p \in Passes : (Free(p)' <=> Free(p)) /\ (Busy(p)' <=> Busy(p))
    BY <1>3 DEF Free, Busy
  <2> QED
    BY <1>3, <2>1 DEF Calling, Owned
<1>4. ASSUME NEW r \in Runs, LeaseEnds(r) \/ Cancel(r) \/ Retry(r)
      PROVE  Calling' /\ Owned'
  <2>1. UNCHANGED <<pc, run, leaked, call, rowVars>>
    BY <1>4 DEF LeaseEnds, Cancel, Retry, passVars, policyVars, rowVars
  <2> QED
    BY <1>3, <2>1, LiveKept
<1>5. ASSUME NEW r \in Runs, SlotEnds(r)
      PROVE  Calling' /\ Owned'
  <2>1. UNCHANGED <<pc, run>> /\ leaked' = leaked \ {r}
    BY <1>5 DEF SlotEnds, passVars
  <2>2. Live' \subseteq Live \ {r}
    BY <1>5 DEF SlotEnds, Lapse, Live
  <2>3. \A p \in Passes : call'[p].at = call[p].at /\ call'[p].id = call[p].id
    <3> SUFFICES ASSUME NEW p \in Passes
                 PROVE  call'[p].at = call[p].at /\ call'[p].id = call[p].id
      OBVIOUS
    <3>1. call[p] \in Call
      BY <1>0 DEF Passes
    <3> QED
      BY <1>5, <3>1 DEF SlotEnds, Lapse, Passes, Call
  <2> QED
    BY <1>3, <2>1, <2>2, <2>3
<1>6. CASE Operate \/ UNCHANGED vars
  <2>1. UNCHANGED <<pc, run, leaked, call>>
    BY <1>6 DEF Operate, Sync, NewDay, vars, passVars, policyVars
  <2>2. UNCHANGED <<reserved, active, leased>>
    BY <1>6 DEF Operate, Sync, NewDay, vars, policyVars, rowVars
  <2> QED
    BY <1>3, <2>1, <2>2 DEF Live
<1> QED
  BY <1>1, <1>2, <1>4, <1>5, <1>6 DEF Next, Act

\* A run that nobody works on holds no slot: whichever way a pass ends, it has
\* returned the slot it took, or the slot is left to its lease.
THEOREM SlotsAreAccounted == Spec => []SlotsAccounted
<1>1. Init => Calling /\ Owned
  BY DEF Init, PolicyInit, Calling, Owned, Live, Free, Answers, NoCall, Passes
<1>2. PolicyTypeOK /\ Typed /\ Calling /\ Owned /\ [Next]_vars => Calling' /\ Owned'
  BY OwnedStep DEF Typed
<1>3. Owned => SlotsAccounted
  BY DEF Owned, SlotsAccounted, Busy
<1> QED
  BY <1>1, <1>2, <1>3, TypedAlways, NativeImplementsPolicy, PolicyTypes, PTL DEF Spec

-----------------------------------------------------------------------------
(* Requests.  What was recorded for a webhook pays for each request: those  *)
(* that left and those of passes that are about to send.                    *)

SendersOf(x) == {p \in Passes : pc[p] = "send" /\ run[p] = x[1] /\ at[p] = x[2]}

\* The attempts that the generations of a webhook have allowed so far: k is its
\* place, n the run's node, m what is recorded there, c the manual retries.
Allowance(k, n, m, c) ==
  CASE k < n -> MaxSends * (1 + c)
    [] k = n -> MaxSends * c + m
    [] OTHER -> 0

Allowed(x) == Allowance(x[2], node[x[1]], recorded[x[1]], retries[x[1]])

SendsCounted ==
  \A x \in Nodes : /\ IsFiniteSet(SendersOf(x))
                   /\ sent[x] + Cardinality(SendersOf(x)) <= Allowed(x)

LEMMA NodeShape == \A x \in Nodes : /\ x = <<x[1], x[2]>>
                                    /\ x[1] \in Runs /\ x[2] \in Nat
BY Bounds DEF Nodes

\* A set of passes of which only p may have left or entered.
LEMMA NoneEnters ==
  ASSUME NEW S, NEW T, IsFiniteSet(S), T \subseteq S
  PROVE  /\ IsFiniteSet(T) /\ Cardinality(S) \in Nat /\ Cardinality(T) \in Nat
         /\ Cardinality(T) <= Cardinality(S)
<1>1. T \in SUBSET S
  OBVIOUS
<1>2. IsFiniteSet(T) /\ Cardinality(T) <= Cardinality(S)
  BY <1>1, FS_Subset
<1>3. Cardinality(S) \in Nat
  BY FS_CardinalityType
<1>4. Cardinality(T) \in Nat
  BY <1>2, FS_CardinalityType
<1> QED
  BY <1>2, <1>3, <1>4

LEMMA OneEnters ==
  ASSUME NEW S, NEW T, NEW p, IsFiniteSet(S), T \subseteq S \cup {p}
  PROVE  /\ IsFiniteSet(T) /\ Cardinality(S) \in Nat /\ Cardinality(T) \in Nat
         /\ Cardinality(T) <= Cardinality(S) + 1
<1>1. /\ IsFiniteSet(S \cup {p}) /\ Cardinality(S) \in Nat
      /\ Cardinality(S \cup {p}) = Cardinality(S) \/ Cardinality(S \cup {p}) = Cardinality(S) + 1
  BY FS_AddElement, FS_CardinalityType
<1>2. /\ IsFiniteSet(T) /\ Cardinality(T) \in Nat
      /\ Cardinality(S \cup {p}) \in Nat
      /\ Cardinality(T) <= Cardinality(S \cup {p})
  BY <1>1, NoneEnters
<1> QED
  BY <1>1, <1>2

LEMMA OneLeaves ==
  ASSUME NEW S, NEW T, NEW p \in S, IsFiniteSet(S), T \subseteq S \ {p}
  PROVE  /\ IsFiniteSet(T) /\ Cardinality(S) \in Nat /\ Cardinality(T) \in Nat
         /\ Cardinality(T) + 1 <= Cardinality(S)
<1>1. /\ IsFiniteSet(S \ {p}) /\ Cardinality(S) \in Nat
      /\ Cardinality(S \ {p}) = Cardinality(S) - 1
  BY FS_RemoveElement, FS_CardinalityType
<1>2. /\ IsFiniteSet(T) /\ Cardinality(T) \in Nat
      /\ Cardinality(T) <= Cardinality(S \ {p})
  BY <1>1, NoneEnters
<1> QED
  BY <1>1, <1>2

LEMMA AllowanceRange ==
  ASSUME NEW k \in Nat, NEW n \in Nat, NEW m \in 0..MaxSends, NEW c \in Nat
  PROVE  /\ Allowance(k, n, m, c) \in 0..(MaxSends * (1 + c))
         /\ MaxSends * c \in Nat /\ MaxSends * (1 + c) \in Nat
         /\ MaxSends * (1 + c) = MaxSends * c + MaxSends
<1> DEFINE most == MaxSends * c
<1>1. MaxSends * (1 + c) = most + MaxSends /\ most \in Nat
  BY Bounds
<1>2. Allowance(k, n, m, c) \in {most + MaxSends, most + m, 0}
  BY <1>1 DEF Allowance
<1>3. m \in Nat /\ m <= MaxSends
  BY Bounds
<1> HIDE DEF most
<1>4. \A v \in {most + MaxSends, most + m, 0} : v \in 0..(most + MaxSends)
  BY <1>1, <1>3, Bounds
<1> QED
  BY <1>1, <1>2, <1>4, Bounds DEF most

LEMMA AllowedType ==
  ASSUME Typed
  PROVE  \A x \in Nodes :
           sent[x] \in Nat /\ Allowed(x) \in Nat /\ Allowed(x) <= MaxSends * (1 + retries[x[1]])
<1> SUFFICES ASSUME NEW x \in Nodes
             PROVE  sent[x] \in Nat /\ Allowed(x) \in 0..(MaxSends * (1 + retries[x[1]]))
                    /\ MaxSends * (1 + retries[x[1]]) \in Nat
  OBVIOUS
<1>1. x[1] \in Runs /\ x[2] \in Nat
  BY NodeShape
<1>2. /\ node[x[1]] \in Nat /\ retries[x[1]] \in Nat /\ sent[x] \in Nat
      /\ recorded[x[1]] \in 0..MaxSends
  BY <1>1 DEF Typed, RunTypes, OtherTypes
<1> QED
  BY <1>1, <1>2, AllowanceRange DEF Allowed

\* What the steps that neither record nor send do to the count.
LEMMA ActSends ==
  ASSUME PassTypes, NEW p \in Passes, Act(p), ~Record(p), ~SendWebhook(p)
  PROVE  /\ UNCHANGED <<sent, retries>>
         /\ pc'[p] = "send" => pc[p] = "send" /\ run'[p] = run[p] /\ at'[p] = at[p]
         /\ \/ UNCHANGED <<node, recorded>>
            \/ /\ Holds(p) /\ pc[p] \notin {"idle", "dead"}
               /\ node' = [node EXCEPT ![run[p]] = at[p] + 1]
               /\ recorded' = [recorded EXCEPT ![run[p]] = 0]
<1> USE DEF PassTypes
<1>1. CASE StartAdmit(p) \/ StartStep(p) \/ Crash(p)
  BY <1>1 DEF StartAdmit, StartStep, Crash, Move, runVars, pastVars
<1>2. CASE PolicyStatement(p)
  BY <1>2 DEF PolicyStatement, runVars, passVars, pastVars
<1>3. CASE Denied(p) \/ Revoked(p)
  BY <1>3 DEF Denied, Revoked, Settle, Leave, pastVars
<1>4. CASE ReturnSlot(p) \/ Recover(p) \/ ReleaseLost(p)
  BY <1>4 DEF ReturnSlot, Recover, ReleaseLost, Leave, runVars, pastVars
<1>5. CASE StepRefused(p) \/ Fenced(p) \/ SendsExhausted(p) \/ AnswerFenced(p) \/ Throw(p)
  <2>1. \E e : Fail(p, e)
    BY <1>5 DEF StepRefused, Fenced, SendsExhausted, AnswerFenced, Throw
  <2>2. UNCHANGED <<recorded, sent, retries>>
    BY <1>5 DEF StepRefused, Fenced, SendsExhausted, AnswerFenced, Throw, pastVars
  <2> QED
    BY <2>1, <2>2 DEF Fail, ToRelease, Catch, Settle
<1>6. CASE CompleteEmpty(p) \/ Look(p)
  BY <1>6 DEF CompleteEmpty, Look, Settle, ToRelease, runVars, pastVars
<1>7. CASE RunNode(p)
  BY <1>7 DEF RunNode, Ready, Advance, Move
<1>8. CASE RecordAnswer(p)
  <2>1. UNCHANGED <<sent, retries>> /\ Holds(p) /\ pc[p] = "answered" /\ pc'[p] = "look"
    BY <1>8 DEF RecordAnswer, Move
  <2>2. Advance(p) \/ UNCHANGED <<node, recorded>>
    BY <1>8 DEF RecordAnswer
  <2> QED
    BY <2>1, <2>2 DEF Advance
<1>9. CASE ThrowEarly(p)
  BY <1>9 DEF ThrowEarly, Catch, Settle, Leave, pastVars
<1> QED
  BY <1>1, <1>2, <1>3, <1>4, <1>5, <1>6, <1>7, <1>8, <1>9 DEF Act, PassStep

LEMMA ActCounted ==
  ASSUME Typed, Typed', Current, SendsCounted, NEW p \in Passes, Act(p)
  PROVE  SendsCounted'
<1> DEFINE x0 == <<run[p], at[p]>>
<1>a. \A x \in Nodes : sent[x] \in Nat /\ Allowed(x) \in Nat
  BY AllowedType
<1>b. (\A x \in Nodes : sent[x] \in Nat /\ Allowed(x) \in Nat)'
  <2> SUFFICES ASSUME NEW x \in Nodes'
               PROVE  sent'[x] \in Nat /\ Allowed(x)' \in Nat
    OBVIOUS
  <2>1. x[1] \in Runs /\ x[2] \in Nat /\ x \in Nodes
    BY NodeShape DEF Nodes, Runs
  <2>2. /\ node'[x[1]] \in Nat /\ retries'[x[1]] \in Nat /\ sent'[x] \in Nat
        /\ recorded'[x[1]] \in 0..MaxSends
    BY <2>1 DEF Typed, RunTypes, OtherTypes
  <2>3. Allowed(x)' \in 0..(MaxSends * (1 + retries'[x[1]]))
    BY <2>1, <2>2, AllowanceRange DEF Allowed
  <2> QED
    BY <2>2, <2>3
<1>c. Nodes' = Nodes
  BY DEF Nodes, Runs
<1>0. /\ PassTypes /\ Alone(p) /\ run[p] \in Runs /\ at[p] \in Nat
      /\ \A x \in Nodes : /\ sent[x] \in Nat /\ sent'[x] \in Nat
                          /\ Allowed(x) \in Nat /\ Allowed(x)' \in Nat
  BY <1>a, <1>b, <1>c, ActEffect DEF Typed, PassTypes
<1> SUFFICES ASSUME NEW x \in Nodes
             PROVE  (IsFiniteSet(SendersOf(x))
                       /\ sent[x] + Cardinality(SendersOf(x)) <= Allowed(x))'
  BY DEF SendsCounted
<1>1. /\ IsFiniteSet(SendersOf(x)) /\ sent[x] + Cardinality(SendersOf(x)) <= Allowed(x)
      /\ x = <<x[1], x[2]>> /\ x[1] \in Runs /\ x[2] \in Nat
  BY NodeShape DEF SendsCounted
<1>2. /\ node \in [Runs -> Nat] /\ recorded \in [Runs -> 0..MaxSends]
      /\ retries \in [Runs -> Nat] /\ recorded[x[1]] \in Nat
  <2>1. /\ node \in [Runs -> Nat] /\ recorded \in [Runs -> 0..MaxSends]
        /\ retries \in [Runs -> Nat]
    BY DEF Typed, RunTypes, OtherTypes
  <2> QED
    BY <1>1, <2>1, Bounds
<1>3. SendersOf(x)' \subseteq SendersOf(x) \cup {p}
  BY <1>0 DEF SendersOf, Alone
<1>4. CASE Record(p)
  <2>1. /\ Holds(p) /\ pc[p] = "step" /\ UNCHANGED <<node, sent, retries, run, at>>
        /\ recorded' = [recorded EXCEPT ![run[p]] = @ + 1]
    BY <1>4 DEF Record, Ready, runVars, pastVars
  <2>2. at[p] = node[run[p]]
    BY <2>1 DEF Current
  <2>3. CASE x = x0
    <3>1. Allowed(x) = MaxSends * retries[x[1]] + recorded[x[1]]
      BY <2>2, <2>3 DEF Allowed, Allowance
    <3>2. Allowed(x)' = MaxSends * retries[x[1]] + recorded[x[1]] + 1
      <4>1. recorded'[x[1]] = recorded[x[1]] + 1
        BY <1>0, <1>2, <2>1, <2>3
      <4>2. Allowed(x)' = MaxSends * retries[x[1]] + recorded'[x[1]]
        BY <2>1, <2>2, <2>3 DEF Allowed, Allowance
      <4>3. MaxSends * retries[x[1]] \in Nat
        BY <1>1, <1>2, Bounds
      <4> QED
        BY <1>2, <4>1, <4>2, <4>3
    <3>3. MaxSends * retries[x[1]] \in Nat
      BY <1>1, <1>2, Bounds
    <3>4. Allowed(x)' = Allowed(x) + 1
      BY <1>2, <3>1, <3>2, <3>3
    <3>5. /\ IsFiniteSet(SendersOf(x)') /\ Cardinality(SendersOf(x)) \in Nat
          /\ Cardinality(SendersOf(x)') \in Nat
          /\ Cardinality(SendersOf(x)') <= Cardinality(SendersOf(x)) + 1
      BY <1>1, <1>3, OneEnters
    <3> QED
      BY <1>0, <1>1, <2>1, <3>4, <3>5
  <2>4. CASE x # x0
    <3>1. SendersOf(x)' \subseteq SendersOf(x)
      BY <1>1, <1>3, <2>1, <2>4 DEF SendersOf
    <3>2. Allowed(x)' = Allowed(x)
      BY <1>0, <1>1, <1>2, <2>1, <2>2, <2>4 DEF Allowed, Allowance
    <3>3. /\ IsFiniteSet(SendersOf(x)') /\ Cardinality(SendersOf(x)) \in Nat
          /\ Cardinality(SendersOf(x)') \in Nat
          /\ Cardinality(SendersOf(x)') <= Cardinality(SendersOf(x))
      BY <1>1, <3>1, NoneEnters
    <3> QED
      BY <1>0, <1>1, <2>1, <3>2, <3>3
  <2> QED
    BY <2>3, <2>4
<1>5. CASE SendWebhook(p)
  <2>1. /\ UNCHANGED <<node, recorded, retries, run, at>>
        /\ pc[p] = "send" /\ pc'[p] = "answered"
        /\ sent' = [sent EXCEPT ![x0] = @ + 1]
    BY <1>0, <1>5 DEF SendWebhook, runVars, PassTypes
  <2>2. Allowed(x)' = Allowed(x)
    BY <2>1 DEF Allowed, Allowance
  <2>3. SendersOf(x)' \subseteq SendersOf(x) \ {p}
    BY <1>3, <2>1 DEF SendersOf
  <2>4. CASE x = x0
    <3>1. p \in SendersOf(x)
      BY <2>1, <2>4 DEF SendersOf
    <3>2. sent'[x] = sent[x] + 1
      BY <2>1, <2>4 DEF Typed, OtherTypes
    <3>3. /\ IsFiniteSet(SendersOf(x)') /\ Cardinality(SendersOf(x)) \in Nat
          /\ Cardinality(SendersOf(x)') \in Nat
          /\ Cardinality(SendersOf(x)') + 1 <= Cardinality(SendersOf(x))
      BY <1>1, <2>3, <3>1, OneLeaves
    <3> QED
      BY <1>0, <1>1, <2>2, <3>2, <3>3
  <2>5. CASE x # x0
    <3>1. sent'[x] = sent[x]
      BY <2>1, <2>5 DEF Typed, OtherTypes
    <3>2. SendersOf(x)' \subseteq SendersOf(x)
      BY <2>3
    <3>3. /\ IsFiniteSet(SendersOf(x)') /\ Cardinality(SendersOf(x)) \in Nat
          /\ Cardinality(SendersOf(x)') \in Nat
          /\ Cardinality(SendersOf(x)') <= Cardinality(SendersOf(x))
      BY <1>1, <3>2, NoneEnters
    <3> QED
      BY <1>0, <1>1, <2>2, <3>1, <3>3
  <2> QED
    BY <2>4, <2>5
<1>6. CASE ~Record(p) /\ ~SendWebhook(p)
  <2>1. /\ UNCHANGED <<sent, retries>>
        /\ pc'[p] = "send" => pc[p] = "send" /\ run'[p] = run[p] /\ at'[p] = at[p]
        /\ \/ UNCHANGED <<node, recorded>>
           \/ /\ Holds(p) /\ pc[p] \notin {"idle", "dead"}
              /\ node' = [node EXCEPT ![run[p]] = at[p] + 1]
              /\ recorded' = [recorded EXCEPT ![run[p]] = 0]
    BY <1>0, <1>6, ActSends
  <2>2. SendersOf(x)' \subseteq SendersOf(x)
    BY <1>0, <2>1 DEF SendersOf, Alone
  <2>3. Allowed(x) <= Allowed(x)'
    <3>1. CASE UNCHANGED <<node, recorded>>
      <4>1. Allowed(x)' = Allowed(x)
        BY <2>1, <3>1 DEF Allowed, Allowance
      <4> QED
        BY <1>0, <4>1
    <3>2. CASE /\ Holds(p) /\ pc[p] \notin {"idle", "dead"}
               /\ node' = [node EXCEPT ![run[p]] = at[p] + 1]
               /\ recorded' = [recorded EXCEPT ![run[p]] = 0]
      <4>1. at[p] = node[run[p]]
        BY <3>2 DEF Current
      <4>2. /\ Allowed(x) <= MaxSends * (1 + retries[x[1]])
            /\ MaxSends * (1 + retries[x[1]]) \in Nat
        BY <1>1, <1>2, AllowedType, Bounds
      <4>3. CASE x[1] # run[p]
        <5>1. node'[x[1]] = node[x[1]] /\ recorded'[x[1]] = recorded[x[1]]
          BY <1>1, <1>2, <3>2, <4>3
        <5>2. Allowed(x)' = Allowed(x)
          BY <2>1, <5>1 DEF Allowed, Allowance
        <5> QED
          BY <1>0, <5>2
      <4>4. CASE x[1] = run[p]
        <5>1. node'[x[1]] = node[x[1]] + 1 /\ node[x[1]] \in Nat
          BY <1>1, <1>2, <3>2, <4>1, <4>4
        <5>2. CASE x[2] <= node[x[1]]
          <6>1. Allowed(x)' = MaxSends * (1 + retries[x[1]])
            BY <1>1, <2>1, <5>1, <5>2 DEF Allowed, Allowance
          <6> QED
            BY <4>2, <6>1
        <5>3. CASE x[2] > node[x[1]]
          <6>1. Allowed(x) = 0
            BY <1>1, <5>1, <5>3 DEF Allowed, Allowance
          <6> QED
            BY <1>0, <6>1
        <5> QED
          BY <1>1, <5>1, <5>2, <5>3
      <4> QED
        BY <4>3, <4>4
    <3> QED
      BY <2>1, <3>1, <3>2
  <2>4. /\ IsFiniteSet(SendersOf(x)') /\ Cardinality(SendersOf(x)) \in Nat
        /\ Cardinality(SendersOf(x)') \in Nat
        /\ Cardinality(SendersOf(x)') <= Cardinality(SendersOf(x))
    BY <1>1, <2>2, NoneEnters
  <2> QED
    BY <1>0, <1>1, <2>1, <2>3, <2>4
<1> QED
  BY <1>4, <1>5, <1>6

LEMMA CountedStep ==
  ASSUME Typed, Typed', Current, SendsCounted, [Next]_vars
  PROVE  SendsCounted'
<1>0. /\ run \in [Passes -> Runs] /\ pc \in [Passes -> Steps] /\ at \in [Passes -> Nat]
      /\ node \in [Runs -> Nat] /\ recorded \in [Runs -> 0..MaxSends]
      /\ retries \in [Runs -> Nat]
  BY DEF Typed, RunTypes, PassTypes, OtherTypes
<1>1. ASSUME NEW p \in Passes, Act(p)
      PROVE  SendsCounted'
  BY <1>1, ActCounted
<1>2. ASSUME UNCHANGED <<sent, node, recorded, retries>>,
             \A x \in Nodes : SendersOf(x)' \subseteq SendersOf(x)
      PROVE  SendsCounted'
  <2> SUFFICES ASSUME NEW x \in Nodes
               PROVE  (IsFiniteSet(SendersOf(x))
                         /\ sent[x] + Cardinality(SendersOf(x)) <= Allowed(x))'
    BY DEF SendsCounted
  <2>1. /\ IsFiniteSet(SendersOf(x)) /\ sent[x] + Cardinality(SendersOf(x)) <= Allowed(x)
        /\ sent[x] \in Nat /\ Allowed(x) \in Nat /\ Allowed(x)' = Allowed(x)
    BY <1>2, AllowedType DEF SendsCounted, Allowed
  <2>2. /\ IsFiniteSet(SendersOf(x)') /\ Cardinality(SendersOf(x)) \in Nat
        /\ Cardinality(SendersOf(x)') \in Nat
        /\ Cardinality(SendersOf(x)') <= Cardinality(SendersOf(x))
    BY <1>2, <2>1, NoneEnters
  <2> QED
    BY <1>2, <2>1, <2>2
<1>3. ASSUME NEW p \in Passes, NEW r \in Runs, Claim(p, r)
      PROVE  SendsCounted'
  <2>1. UNCHANGED <<sent, node, recorded, retries>>
    BY <1>3 DEF Claim, pastVars
  <2>2. \A x \in Nodes : SendersOf(x)' \subseteq SendersOf(x)
    BY <1>0, <1>3 DEF Claim, SendersOf
  <2> QED
    BY <1>2, <2>1, <2>2
<1>4. ASSUME NEW r \in Runs, LeaseEnds(r) \/ SlotEnds(r) \/ Cancel(r)
      PROVE  SendsCounted'
  <2>1. UNCHANGED <<sent, node, recorded, retries>> /\ UNCHANGED <<pc, run, at>>
    BY <1>4 DEF LeaseEnds, SlotEnds, Cancel, pastVars, passVars, runVars
  <2> QED
    BY <1>2, <2>1 DEF SendersOf
<1>5. ASSUME NEW r \in Runs, Retry(r)
      PROVE  SendsCounted'
  <2> SUFFICES ASSUME NEW x \in Nodes
               PROVE  (IsFiniteSet(SendersOf(x))
                         /\ sent[x] + Cardinality(SendersOf(x)) <= Allowed(x))'
    BY DEF SendsCounted
  <2>1. /\ UNCHANGED <<sent, node, pc, run, at>>
        /\ retries' = [retries EXCEPT ![r] = @ + 1]
        /\ recorded' \in {recorded, [recorded EXCEPT ![r] = 0]}
    BY <1>5 DEF Retry, passVars
  <2>2. SendersOf(x)' = SendersOf(x)
    BY <2>1 DEF SendersOf
  <2>3. /\ x[1] \in Runs /\ x[2] \in Nat /\ node[x[1]] \in Nat /\ retries[x[1]] \in Nat
        /\ recorded[x[1]] \in 0..MaxSends /\ sent[x] \in Nat /\ Allowed(x) \in Nat
    BY <1>0, NodeShape, AllowedType
  <2>4. Allowed(x) <= Allowed(x)'
    <3>1. CASE x[1] # r
      <4>1. retries'[x[1]] = retries[x[1]] /\ recorded'[x[1]] = recorded[x[1]]
        BY <1>0, <2>1, <2>3, <3>1
      <4>2. Allowed(x)' = Allowed(x)
        BY <2>1, <4>1 DEF Allowed
      <4> QED
        BY <2>3, <4>2
    <3>2. CASE x[1] = r
      <4> DEFINE c == retries[x[1]]
      <4>1. /\ retries'[x[1]] = c + 1 /\ recorded'[x[1]] \in 0..MaxSends
            /\ recorded'[x[1]] \in {recorded[x[1]], 0}
        BY <1>0, <2>1, <2>3, <3>2, Bounds
      <4>2. /\ MaxSends * (1 + c) = MaxSends * c + MaxSends
            /\ MaxSends * c \in Nat /\ MaxSends * (1 + c) \in Nat
            /\ MaxSends * (1 + (c + 1)) = MaxSends * (1 + c) + MaxSends
            /\ MaxSends * (c + 1) = MaxSends * (1 + c)
        <5>1. c \in Nat /\ c + 1 \in Nat /\ c + 1 = 1 + c
          BY <2>3
        <5> QED
          BY <2>3, <5>1, AllowanceRange
      <4>3. Allowed(x)' = Allowance(x[2], node[x[1]], recorded'[x[1]], c + 1)
        BY <2>1, <4>1 DEF Allowed
      <4>4. Allowed(x) = Allowance(x[2], node[x[1]], recorded[x[1]], c)
        BY DEF Allowed
      <4> HIDE DEF c
      <4>5. CASE x[2] < node[x[1]]
        <5>1. Allowed(x) = MaxSends * (1 + c)
          BY <2>3, <4>4, <4>5 DEF Allowance
        <5>2. Allowed(x)' = MaxSends * (1 + (c + 1))
          BY <2>3, <4>3, <4>5 DEF Allowance
        <5> QED
          BY <4>2, <5>1, <5>2, Bounds
      <4>6. CASE x[2] = node[x[1]]
        <5>1. /\ Allowed(x) = MaxSends * c + recorded[x[1]]
              /\ Allowed(x)' = MaxSends * (c + 1) + recorded'[x[1]]
          BY <2>3, <4>3, <4>4, <4>6 DEF Allowance
        <5> QED
          BY <2>3, <4>1, <4>2, <5>1, Bounds
      <4>7. CASE x[2] > node[x[1]]
        <5>1. Allowed(x) = 0 /\ Allowed(x)' = 0
          BY <2>3, <4>3, <4>4, <4>7 DEF Allowance
        <5> QED
          BY <5>1
      <4> QED
        BY <2>3, <4>5, <4>6, <4>7
    <3> QED
      BY <3>1, <3>2
  <2>5. /\ IsFiniteSet(SendersOf(x)) /\ Cardinality(SendersOf(x)) \in Nat
        /\ sent[x] + Cardinality(SendersOf(x)) <= Allowed(x)
    BY FS_CardinalityType DEF SendsCounted
  <2>6. Allowed(x)' \in Nat
    <3>1. retries'[x[1]] \in Nat /\ recorded'[x[1]] \in 0..MaxSends /\ node'[x[1]] \in Nat
      BY <2>3 DEF Typed, RunTypes, OtherTypes
    <3> QED
      <4>1. Allowed(x)' \in 0..(MaxSends * (1 + retries'[x[1]]))
        BY <2>1, <2>3, <3>1, AllowanceRange DEF Allowed
      <4> QED
        BY <4>1
  <2> QED
    BY <2>1, <2>2, <2>3, <2>4, <2>5, <2>6
<1>6. CASE Operate \/ UNCHANGED vars
  <2>1. UNCHANGED <<sent, node, recorded, retries>> /\ UNCHANGED <<pc, run, at>>
    BY <1>6 DEF Operate, vars, pastVars, passVars, runVars
  <2> QED
    BY <1>2, <2>1 DEF SendersOf
<1> QED
  BY <1>1, <1>3, <1>4, <1>5, <1>6 DEF Next, Act

\* A webhook node is sent at most MaxSends requests for each generation, for
\* every flow: an attempt is recorded under the fence before its request leaves,
\* so those of overtaken and dead passes are counted with the others.
THEOREM RequestsAreBounded == Spec => []SendsBounded
<1>1. Init => Current /\ NodesOnceInOrder
  BY DEF Init, Current, NodesOnceInOrder
<1>2. Init => SendsCounted
  <2> SUFFICES ASSUME Init, NEW x \in Nodes
               PROVE  /\ IsFiniteSet(SendersOf(x))
                      /\ sent[x] + Cardinality(SendersOf(x)) <= Allowed(x)
    BY DEF SendsCounted
  <2>1. SendersOf(x) = {} /\ sent[x] = 0
    BY DEF Init, SendersOf
  <2>2. Allowed(x) \in Nat
    BY InitTyped, AllowedType
  <2> QED
    BY <2>1, <2>2, FS_EmptySet
<1>3. Typed /\ Typed' /\ Current /\ NodesOnceInOrder /\ [Next]_vars
        => Current' /\ NodesOnceInOrder'
  BY OrderedStep
<1>4. Typed /\ Typed' /\ Current /\ SendsCounted /\ [Next]_vars => SendsCounted'
  BY CountedStep
<1>5. Typed /\ SendsCounted => SendsBounded
  <2> SUFFICES ASSUME Typed, SendsCounted, NEW x \in Nodes
               PROVE  sent[x] <= MaxSends * (1 + retries[x[1]])
    BY DEF SendsBounded
  <2>1. /\ sent[x] \in Nat /\ Allowed(x) \in Nat
        /\ Allowed(x) <= MaxSends * (1 + retries[x[1]])
    BY AllowedType
  <2>2. sent[x] + Cardinality(SendersOf(x)) <= Allowed(x) /\ Cardinality(SendersOf(x)) \in Nat
    BY FS_CardinalityType DEF SendsCounted
  <2>3. MaxSends * (1 + retries[x[1]]) \in Nat
    <3>1. retries[x[1]] \in Nat
      BY NodeShape DEF Typed, OtherTypes
    <3> QED
      BY <3>1, Bounds
  <2> QED
    BY <2>1, <2>2, <2>3
<1> QED
  BY <1>1, <1>2, <1>3, <1>4, <1>5, TypedAlways, PTL DEF Spec

-----------------------------------------------------------------------------
(* Steps.  A step that the quota has counted is in a pass's hands until it  *)
(* has become a checkpoint, and until it has become a request.              *)

Stepped(p)  == pc[p] = "step" /\ call[p].at = "stepped"
Unsent(p)   == Stepped(p) \/ pc[p] = "send"
Unspent(p)  == Unsent(p) \/ pc[p] = "answered"

UnsentOn(r)  == {p \in Passes : run[p] = r /\ Unsent(p)}
UnspentOn(r) == {p \in Passes : run[p] = r /\ Unspent(p)}

NodesMetered ==
  \A r \in Runs : /\ IsFiniteSet(UnspentOn(r))
                  /\ Len(done[r]) + Cardinality(UnspentOn(r)) <= steps[r]

SendsMetered ==
  \A x \in Nodes : /\ IsFiniteSet(UnsentOn(x[1]))
                   /\ sent[x] + Cardinality(UnsentOn(x[1])) <= steps[x[1]]

\* A statement counts a step at most for the run of its pass, and answers so.
LEMMA StatementSteps ==
  ASSUME PolicyTypeOK, PassTypes, Calling, NEW p \in Passes, PolicyStatement(p)
  PROVE  /\ UNCHANGED <<pc, run, at, done, sent>>
         /\ \A q \in Passes \ {p} : call'[q] = call[q]
         /\ pc[p] = "step" => ~Stepped(p)
         /\ \/ steps' = steps /\ ~Stepped(p)'
            \/ steps' = [steps EXCEPT ![run[p]] = @ + 1]
<1>1. /\ call'[p].id = call[p].id /\ ~Free(p)
      /\ \A d \in Passes \ {p} : call'[d] = call[d]
  BY StatementLive DEF PolicyStatement, Passes
<1>2. call[p].id = run[p] /\ ~Stepped(p)
  BY <1>1 DEF Calling, Stepped, Free, Answers
<1>3. call \in [Callers -> Call] /\ call[p] \in Call /\ p \in Callers
  BY DEF PolicyTypeOK, Passes
<1>4. \A where : Goto(p, where) \/ Answer(p, where) => call'[p].at = where
  BY <1>3 DEF Goto, Answer, Call
<1>5. \/ steps' = steps /\ call'[p].at # "stepped"
      \/ steps' = [steps EXCEPT ![run[p]] = @ + 1]
  <2>1. CASE AdmitEnter(p)
    BY <1>4, <2>1 DEF AdmitEnter
  <2>2. CASE AdmitReclaim(p)
    BY <1>4, <2>2 DEF AdmitReclaim
  <2>3. CASE AdmitInsert(p)
    BY <1>4, <2>3 DEF AdmitInsert
  <2>4. CASE AdmitRaced(p)
    BY <1>4, <2>4 DEF AdmitRaced, rowVars
  <2>5. CASE AdmitTally(p)
    BY <1>4, <2>5 DEF AdmitTally, rowVars
  <2>6. CASE StepUpdate(p)
    BY <1>2, <1>4, <2>6 DEF StepUpdate
  <2>7. CASE StepExplain(p)
    BY <1>4, <2>7 DEF StepExplain, rowVars
  <2> QED
    BY <2>1, <2>2, <2>3, <2>4, <2>5, <2>6, <2>7 DEF PolicyStatement, Statement
<1> QED
  BY <1>1, <1>2, <1>5 DEF PolicyStatement, passVars, pastVars, Stepped

\* The steps of a pass that count nothing: what a pass has in hand, it had
\* before; a checkpoint and a request use it up.
Spends(p) ==
  /\ steps' = steps
  /\ \A q \in Passes \ {p} : call'[q] = call[q]
  /\ Unsent(p)' => Unsent(p) /\ run'[p] = run[p]
  /\ Unspent(p)' => Unspent(p) /\ run'[p] = run[p]
  /\ \/ done' = done
     \/ /\ Unspent(p) /\ ~Unspent(p)'
        /\ done' = [done EXCEPT ![run[p]] = Append(@, at[p])]
  /\ \/ sent' = sent
     \/ /\ Unsent(p) /\ ~Unsent(p)'
        /\ sent' = [sent EXCEPT ![<<run[p], at[p]>>] = @ + 1]

LEMMA ActSpends ==
  ASSUME PolicyTypeOK, PassTypes, Calling, NEW p \in Passes, Act(p), ~PolicyStatement(p)
  PROVE  Spends(p)
<1> USE DEF PassTypes, Unsent, Unspent, Stepped
<1>0. /\ call \in [Callers -> Call] /\ p \in Callers
      /\ \A q \in Passes \ {p} : q \in Callers
  BY DEF PolicyTypeOK, Passes
<1>1. Forget(p) => \A q \in Passes \ {p} : call'[q] = call[q]
  BY <1>0 DEF Forget
<1>2. UNCHANGED policyVars => steps' = steps /\ call' = call
  BY DEF policyVars
<1>3. UNCHANGED rowVars => steps' = steps
  BY DEF rowVars
<1>4. CASE StartAdmit(p)
  <2>1. pc'[p] = "admit" /\ UNCHANGED <<steps, done, sent>>
    BY <1>4 DEF StartAdmit, AdmitRead, Move, rowVars, pastVars
  <2>2. \A q \in Passes \ {p} : call'[q] = call[q]
    BY <1>0, <1>4 DEF StartAdmit, AdmitRead, Begin
  <2> QED
    BY <2>1, <2>2 DEF Spends
<1>5. CASE StartStep(p)
  <2>1. UNCHANGED <<steps, done, sent>> /\ pc'[p] = "step"
    BY <1>5 DEF StartStep, StepRead, Move, rowVars, pastVars
  <2>2. call'[p].at # "stepped" /\ \A q \in Passes \ {p} : call'[q] = call[q]
    BY <1>0, <1>5 DEF StartStep, StepRead, Begin
  <2> QED
    BY <2>1, <2>2 DEF Spends
<1>6. CASE Denied(p) \/ Recover(p) \/ ThrowEarly(p)
  <2>1. /\ UNCHANGED <<steps, done, sent>> /\ pc'[p] = "idle"
        /\ \A q \in Passes \ {p} : call'[q] = call[q]
    BY <1>1, <1>3, <1>6 DEF Denied, Recover, ThrowEarly, Leave, pastVars
  <2> QED
    BY <2>1 DEF Spends
<1>7. CASE ReturnSlot(p)
  <2>1. /\ UNCHANGED <<steps, done, sent>> /\ pc'[p] = "idle"
        /\ \A q \in Passes \ {p} : call'[q] = call[q]
    BY <1>1, <1>3, <1>7 DEF ReturnSlot, Release, Leave, pastVars
  <2> QED
    BY <2>1 DEF Spends
<1>8. CASE Revoked(p) \/ ReleaseLost(p) \/ Crash(p)
  <2>1. UNCHANGED <<steps, call, done, sent>> /\ pc'[p] \in {"idle", "dead"}
    BY <1>2, <1>8 DEF Revoked, ReleaseLost, Crash, Leave, Move, pastVars
  <2> QED
    BY <2>1 DEF Spends
<1>9. CASE StepRefused(p) \/ Fenced(p) \/ SendsExhausted(p) \/ Throw(p)
  <2>1. \E e : Fail(p, e)
    BY <1>9 DEF StepRefused, Fenced, SendsExhausted, Throw
  <2>2. /\ UNCHANGED <<steps, done, sent>>
        /\ \A q \in Passes \ {p} : call'[q] = call[q]
    BY <1>1, <1>3, <1>9 DEF StepRefused, Fenced, SendsExhausted, Throw, pastVars
  <2> QED
    BY <2>1, <2>2 DEF Spends, Fail, ToRelease
<1>10. CASE CompleteEmpty(p)
  <2>1. /\ UNCHANGED <<steps, done, sent>> /\ pc'[p] = "release"
        /\ \A q \in Passes \ {p} : call'[q] = call[q]
    BY <1>1, <1>3, <1>10 DEF CompleteEmpty, ToRelease, pastVars
  <2> QED
    BY <2>1 DEF Spends
<1>11. CASE AnswerFenced(p) \/ Look(p)
  <2>1. UNCHANGED <<steps, call, done, sent>> /\ pc'[p] = "release"
    BY <1>2, <1>11 DEF AnswerFenced, Look, Fail, ToRelease, pastVars
  <2> QED
    BY <2>1 DEF Spends
<1>12. CASE RunNode(p)
  <2>1. /\ UNCHANGED <<steps, sent>> /\ Stepped(p) /\ pc'[p] = "look"
        /\ done' = [done EXCEPT ![run[p]] = Append(@, at[p])]
        /\ \A q \in Passes \ {p} : call'[q] = call[q]
    BY <1>1, <1>3, <1>12 DEF RunNode, Ready, Advance, Move
  <2> QED
    BY <2>1 DEF Spends
<1>13. CASE Record(p)
  <2>1. /\ UNCHANGED <<steps, done, sent, run>> /\ Stepped(p)
        /\ \A q \in Passes \ {p} : call'[q] = call[q]
    BY <1>1, <1>3, <1>13 DEF Record, Ready, pastVars
  <2> QED
    BY <2>1 DEF Spends
<1>14. CASE SendWebhook(p)
  <2>1. /\ UNCHANGED <<steps, call, done, run>> /\ pc[p] = "send" /\ pc'[p] = "answered"
        /\ sent' = [sent EXCEPT ![<<run[p], at[p]>>] = @ + 1]
    BY <1>2, <1>14 DEF SendWebhook
  <2> QED
    BY <2>1 DEF Spends
<1>15. CASE RecordAnswer(p)
  <2>1. /\ UNCHANGED <<steps, call, sent>> /\ pc[p] = "answered" /\ pc'[p] = "look"
        /\ done' = done \/ done' = [done EXCEPT ![run[p]] = Append(@, at[p])]
    BY <1>2, <1>15 DEF RecordAnswer, Advance, Move
  <2> QED
    BY <2>1 DEF Spends
<1> QED
  BY <1>4, <1>5, <1>6, <1>7, <1>8, <1>9, <1>10, <1>11, <1>12, <1>13, <1>14, <1>15
  DEF Act, PassStep

Metered == NodesMetered /\ SendsMetered

LEMMA MeteredTypes ==
  ASSUME PolicyTypeOK, Typed
  PROVE  /\ \A r \in Runs : steps[r] \in Nat /\ done[r] \in Seq(Nat) /\ Len(done[r]) \in Nat
         /\ \A x \in Nodes : sent[x] \in Nat /\ x[1] \in Runs
         /\ steps \in [Runs -> 0..MaxSteps]
BY NodeShape, PolicyAssumption DEF PolicyTypeOK, Typed, OtherTypes, Runs

\* Nothing is counted, and no pass gets a step into its hands.
LEMMA MeteredFrame ==
  ASSUME Metered, PolicyTypeOK, Typed, UNCHANGED <<steps, done, sent>>,
         \A r \in Runs : /\ UnspentOn(r)' \subseteq UnspentOn(r)
                         /\ UnsentOn(r)' \subseteq UnsentOn(r)
  PROVE  Metered'
<1>1. ASSUME NEW r \in Runs
      PROVE  (IsFiniteSet(UnspentOn(r)) /\ Len(done[r]) + Cardinality(UnspentOn(r)) <= steps[r])'
  <2>1. /\ IsFiniteSet(UnspentOn(r)) /\ Len(done[r]) + Cardinality(UnspentOn(r)) <= steps[r]
        /\ Len(done[r]) \in Nat /\ steps[r] \in Nat
    BY MeteredTypes DEF Metered, NodesMetered
  <2>2. /\ IsFiniteSet(UnspentOn(r)') /\ Cardinality(UnspentOn(r)) \in Nat
        /\ Cardinality(UnspentOn(r)') \in Nat
        /\ Cardinality(UnspentOn(r)') <= Cardinality(UnspentOn(r))
    BY <2>1, NoneEnters
  <2> QED
    BY <2>1, <2>2
<1>2. ASSUME NEW x \in Nodes
      PROVE  (IsFiniteSet(UnsentOn(x[1])) /\ sent[x] + Cardinality(UnsentOn(x[1])) <= steps[x[1]])'
  <2>1. /\ IsFiniteSet(UnsentOn(x[1])) /\ sent[x] + Cardinality(UnsentOn(x[1])) <= steps[x[1]]
        /\ sent[x] \in Nat /\ steps[x[1]] \in Nat /\ x[1] \in Runs
    BY MeteredTypes DEF Metered, SendsMetered
  <2>2. /\ IsFiniteSet(UnsentOn(x[1])') /\ Cardinality(UnsentOn(x[1])) \in Nat
        /\ Cardinality(UnsentOn(x[1])') \in Nat
        /\ Cardinality(UnsentOn(x[1])') <= Cardinality(UnsentOn(x[1]))
    BY <2>1, NoneEnters
  <2> QED
    BY <2>1, <2>2
<1> QED
  BY <1>1, <1>2 DEF Metered, NodesMetered, SendsMetered, Nodes, Runs

LEMMA ActMetered ==
  ASSUME PolicyTypeOK, Typed, Calling, Metered, NEW p \in Passes, Act(p)
  PROVE  Metered'
<1>0. /\ PassTypes /\ Alone(p) /\ run \in [Passes -> Runs] /\ run[p] \in Runs
      /\ at[p] \in Nat
  BY ActEffect DEF Typed, PassTypes
<1>1. CASE PolicyStatement(p)
  <2>1. /\ UNCHANGED <<pc, run, at, done, sent>>
        /\ \A q \in Passes \ {p} : call'[q] = call[q]
        /\ \/ steps' = steps /\ ~Stepped(p)'
           \/ steps' = [steps EXCEPT ![run[p]] = @ + 1]
    BY <1>0, <1>1, StatementSteps
  <2>2. \A r \in Runs : /\ UnspentOn(r)' \subseteq UnspentOn(r) \cup {p}
                        /\ UnsentOn(r)' \subseteq UnsentOn(r) \cup {p}
                        /\ r # run[p] \/ ~Stepped(p)' =>
                             /\ UnspentOn(r)' \subseteq UnspentOn(r)
                             /\ UnsentOn(r)' \subseteq UnsentOn(r)
    BY <2>1 DEF UnspentOn, UnsentOn, Unspent, Unsent, Stepped
  <2>3. CASE steps' = steps /\ ~Stepped(p)'
    BY <2>1, <2>2, <2>3, MeteredFrame
  <2>4. CASE steps' = [steps EXCEPT ![run[p]] = @ + 1]
    <3>0. /\ steps'[run[p]] = steps[run[p]] + 1
          /\ \A r \in Runs : r # run[p] => steps'[r] = steps[r]
      BY <1>0, <2>4, MeteredTypes
    <3>1. ASSUME NEW r \in Runs
          PROVE  (IsFiniteSet(UnspentOn(r)) /\ Len(done[r]) + Cardinality(UnspentOn(r)) <= steps[r])'
      <4>1. /\ IsFiniteSet(UnspentOn(r)) /\ Len(done[r]) + Cardinality(UnspentOn(r)) <= steps[r]
            /\ Len(done[r]) \in Nat /\ steps[r] \in Nat /\ steps[run[p]] \in Nat
        BY <1>0, MeteredTypes DEF Metered, NodesMetered
      <4>2. CASE r = run[p]
        <5>1. /\ IsFiniteSet(UnspentOn(r)') /\ Cardinality(UnspentOn(r)) \in Nat
              /\ Cardinality(UnspentOn(r)') \in Nat
              /\ Cardinality(UnspentOn(r)') <= Cardinality(UnspentOn(r)) + 1
          BY <2>2, <4>1, OneEnters
        <5> QED
          BY <2>1, <3>0, <4>1, <4>2, <5>1
      <4>3. CASE r # run[p]
        <5>1. /\ IsFiniteSet(UnspentOn(r)') /\ Cardinality(UnspentOn(r)) \in Nat
              /\ Cardinality(UnspentOn(r)') \in Nat
              /\ Cardinality(UnspentOn(r)') <= Cardinality(UnspentOn(r))
          BY <2>2, <4>1, <4>3, NoneEnters
        <5> QED
          BY <2>1, <3>0, <4>1, <4>3, <5>1
      <4> QED
        BY <4>2, <4>3
    <3>2. ASSUME NEW x \in Nodes
          PROVE  (IsFiniteSet(UnsentOn(x[1])) /\ sent[x] + Cardinality(UnsentOn(x[1])) <= steps[x[1]])'
      <4>1. /\ IsFiniteSet(UnsentOn(x[1])) /\ sent[x] + Cardinality(UnsentOn(x[1])) <= steps[x[1]]
            /\ sent[x] \in Nat /\ steps[x[1]] \in Nat /\ x[1] \in Runs /\ steps[run[p]] \in Nat
        BY <1>0, MeteredTypes DEF Metered, SendsMetered
      <4>2. CASE x[1] = run[p]
        <5>1. /\ IsFiniteSet(UnsentOn(x[1])') /\ Cardinality(UnsentOn(x[1])) \in Nat
              /\ Cardinality(UnsentOn(x[1])') \in Nat
              /\ Cardinality(UnsentOn(x[1])') <= Cardinality(UnsentOn(x[1])) + 1
          BY <2>2, <4>1, OneEnters
        <5> QED
          BY <2>1, <3>0, <4>1, <4>2, <5>1
      <4>3. CASE x[1] # run[p]
        <5>1. /\ IsFiniteSet(UnsentOn(x[1])') /\ Cardinality(UnsentOn(x[1])) \in Nat
              /\ Cardinality(UnsentOn(x[1])') \in Nat
              /\ Cardinality(UnsentOn(x[1])') <= Cardinality(UnsentOn(x[1]))
          BY <2>2, <4>1, <4>3, NoneEnters
        <5> QED
          BY <2>1, <3>0, <4>1, <4>3, <5>1
      <4> QED
        BY <4>2, <4>3
    <3> QED
      BY <3>1, <3>2 DEF Metered, NodesMetered, SendsMetered, Nodes, Runs
  <2> QED
    BY <2>1, <2>3, <2>4
<1>2. CASE ~PolicyStatement(p)
  <2>1. Spends(p)
    BY <1>0, <1>2, ActSpends
  <2>2. \A r \in Runs : /\ UnspentOn(r)' \subseteq UnspentOn(r)
                        /\ UnsentOn(r)' \subseteq UnsentOn(r)
    BY <1>0, <2>1 DEF Spends, Alone, UnspentOn, UnsentOn, Unspent, Unsent, Stepped
  <2>3. ASSUME NEW r \in Runs
        PROVE  (IsFiniteSet(UnspentOn(r)) /\ Len(done[r]) + Cardinality(UnspentOn(r)) <= steps[r])'
    <3>1. /\ IsFiniteSet(UnspentOn(r)) /\ Len(done[r]) + Cardinality(UnspentOn(r)) <= steps[r]
          /\ done[r] \in Seq(Nat) /\ Len(done[r]) \in Nat /\ steps[r] \in Nat
          /\ steps'[r] = steps[r]
      BY <2>1, MeteredTypes DEF Metered, NodesMetered, Spends
    <3>2. CASE done'[r] = done[r]
      <4>1. /\ IsFiniteSet(UnspentOn(r)') /\ Cardinality(UnspentOn(r)) \in Nat
            /\ Cardinality(UnspentOn(r)') \in Nat
            /\ Cardinality(UnspentOn(r)') <= Cardinality(UnspentOn(r))
        BY <2>2, <3>1, NoneEnters
      <4> QED
        BY <3>1, <3>2, <4>1
    <3>3. CASE done'[r] # done[r]
      <4>1. /\ r = run[p] /\ Unspent(p) /\ ~Unspent(p)' /\ done'[r] = Append(done[r], at[p])
        BY <1>0, <2>1, <3>3 DEF Spends, Typed, OtherTypes
      <4>2. Len(done'[r]) = Len(done[r]) + 1
        BY <1>0, <3>1, <4>1
      <4>3. p \in UnspentOn(r) /\ UnspentOn(r)' \subseteq UnspentOn(r) \ {p}
        <5>1. p \in UnspentOn(r) /\ p \notin UnspentOn(r)'
          BY <4>1 DEF UnspentOn
        <5> QED
          BY <2>2, <5>1
      <4>4. /\ IsFiniteSet(UnspentOn(r)') /\ Cardinality(UnspentOn(r)) \in Nat
            /\ Cardinality(UnspentOn(r)') \in Nat
            /\ Cardinality(UnspentOn(r)') + 1 <= Cardinality(UnspentOn(r))
        BY <3>1, <4>3, OneLeaves
      <4> QED
        BY <3>1, <4>2, <4>4
    <3> QED
      BY <3>2, <3>3
  <2>4. ASSUME NEW x \in Nodes
        PROVE  (IsFiniteSet(UnsentOn(x[1])) /\ sent[x] + Cardinality(UnsentOn(x[1])) <= steps[x[1]])'
    <3>1. /\ IsFiniteSet(UnsentOn(x[1])) /\ sent[x] + Cardinality(UnsentOn(x[1])) <= steps[x[1]]
          /\ sent[x] \in Nat /\ steps[x[1]] \in Nat /\ steps'[x[1]] = steps[x[1]]
          /\ x[1] \in Runs
      BY <2>1, MeteredTypes DEF Metered, SendsMetered, Spends
    <3>2. CASE sent'[x] = sent[x]
      <4>1. /\ IsFiniteSet(UnsentOn(x[1])') /\ Cardinality(UnsentOn(x[1])) \in Nat
            /\ Cardinality(UnsentOn(x[1])') \in Nat
            /\ Cardinality(UnsentOn(x[1])') <= Cardinality(UnsentOn(x[1]))
        BY <2>2, <3>1, NoneEnters
      <4> QED
        BY <3>1, <3>2, <4>1
    <3>3. CASE sent'[x] # sent[x]
      <4>1. /\ x[1] = run[p] /\ Unsent(p) /\ ~Unsent(p)' /\ sent'[x] = sent[x] + 1
        <5>1. /\ Unsent(p) /\ ~Unsent(p)'
              /\ sent' = [sent EXCEPT ![<<run[p], at[p]>>] = @ + 1]
          BY <2>1, <3>3 DEF Spends
        <5>2. sent \in [Nodes -> Nat]
          BY DEF Typed, OtherTypes
        <5>3. x = <<run[p], at[p]>>
          BY <3>3, <5>1, <5>2
        <5> QED
          BY <5>1, <5>2, <5>3
      <4>2. p \in UnsentOn(x[1]) /\ UnsentOn(x[1])' \subseteq UnsentOn(x[1]) \ {p}
        <5>1. p \in UnsentOn(x[1]) /\ p \notin UnsentOn(x[1])'
          BY <4>1 DEF UnsentOn
        <5> QED
          BY <2>2, <3>1, <5>1
      <4>3. /\ IsFiniteSet(UnsentOn(x[1])') /\ Cardinality(UnsentOn(x[1])) \in Nat
            /\ Cardinality(UnsentOn(x[1])') \in Nat
            /\ Cardinality(UnsentOn(x[1])') + 1 <= Cardinality(UnsentOn(x[1]))
        BY <3>1, <4>2, OneLeaves
      <4> QED
        BY <3>1, <4>1, <4>3
    <3> QED
      BY <3>2, <3>3
  <2> QED
    BY <2>3, <2>4 DEF Metered, NodesMetered, SendsMetered, Nodes, Runs
<1> QED
  BY <1>1, <1>2

LEMMA MeteredStep ==
  ASSUME PolicyTypeOK, Typed, Calling, Metered, [Next]_vars
  PROVE  Metered'
<1>0. /\ call \in [Callers -> Call] /\ run \in [Passes -> Runs] /\ pc \in [Passes -> Steps]
  BY DEF PolicyTypeOK, Typed, PassTypes
<1>1. ASSUME NEW p \in Passes, Act(p)
      PROVE  Metered'
  BY <1>1, ActMetered
<1>2. ASSUME NEW p \in Passes, NEW r \in Runs, Claim(p, r)
      PROVE  Metered'
  <2>1. UNCHANGED <<steps, done, sent, call>>
    BY <1>2 DEF Claim, policyVars, pastVars
  <2>2. \A q \in Passes : ~Unspent(q)' \/ (pc'[q] = pc[q] /\ run'[q] = run[q])
    BY <1>0, <1>2 DEF Claim, Unspent, Unsent, Stepped
  <2>3. \A x \in Runs : /\ UnspentOn(x)' \subseteq UnspentOn(x)
                        /\ UnsentOn(x)' \subseteq UnsentOn(x)
    BY <2>1, <2>2 DEF UnspentOn, UnsentOn, Unspent, Unsent, Stepped
  <2> QED
    BY <2>1, <2>3, MeteredFrame
<1>3. ASSUME UNCHANGED <<steps, done, sent, pc, run>>,
             \A p \in Passes : call'[p].at = call[p].at
      PROVE  Metered'
  <2>1. \A x \in Runs : /\ UnspentOn(x)' \subseteq UnspentOn(x)
                        /\ UnsentOn(x)' \subseteq UnsentOn(x)
    BY <1>3 DEF UnspentOn, UnsentOn, Unspent, Unsent, Stepped
  <2> QED
    BY <1>3, <2>1, MeteredFrame
<1>4. ASSUME NEW r \in Runs, LeaseEnds(r) \/ Cancel(r) \/ Retry(r)
      PROVE  Metered'
  BY <1>3, <1>4 DEF LeaseEnds, Cancel, Retry, passVars, policyVars, pastVars
<1>5. ASSUME NEW r \in Runs, SlotEnds(r)
      PROVE  Metered'
  <2>1. UNCHANGED <<steps, done, sent, pc, run>>
    BY <1>5 DEF SlotEnds, Lapse, passVars, pastVars
  <2>2. ASSUME NEW p \in Passes
        PROVE  call'[p].at = call[p].at
    <3>1. call[p] \in Call
      BY <1>0 DEF Passes
    <3> QED
      BY <1>5, <3>1 DEF SlotEnds, Lapse, Passes, Call
  <2> QED
    BY <1>3, <2>1, <2>2
<1>6. CASE Operate \/ UNCHANGED vars
  <2>1. UNCHANGED <<steps, done, sent, pc, run, call>>
    BY <1>6 DEF Operate, Sync, NewDay, vars, passVars, policyVars, pastVars, rowVars
  <2> QED
    BY <1>3, <2>1
<1> QED
  BY <1>1, <1>2, <1>4, <1>5, <1>6 DEF Next, Act

\* No node is checkpointed and no request sent but for a step the quota has
\* counted: leaving a slot, crashes and reclaimed reservations start no new
\* count and spend no step twice.
THEOREM WorkIsAlwaysMetered == Spec => []WorkIsMetered
<1>1. Init => Calling /\ Owned
  BY DEF Init, PolicyInit, Calling, Owned, Live, Free, Answers, NoCall, Passes
<1>2. Init => Metered
  <2> SUFFICES ASSUME Init
               PROVE  Metered
    OBVIOUS
  <2>1. \A r \in Runs : /\ UnspentOn(r) = {} /\ UnsentOn(r) = {}
                        /\ steps[r] = 0 /\ Len(done[r]) = 0
    BY DEF Init, PolicyInit, UnspentOn, UnsentOn, Unspent, Unsent, Stepped, Runs
  <2>2. \A x \in Nodes : x[1] \in Runs /\ sent[x] = 0
    BY NodeShape DEF Init
  <2>3. IsFiniteSet({}) /\ Cardinality({}) = 0
    BY FS_EmptySet
  <2>4. NodesMetered
    <3> SUFFICES ASSUME NEW r \in Runs
                 PROVE  /\ IsFiniteSet(UnspentOn(r))
                        /\ Len(done[r]) + Cardinality(UnspentOn(r)) <= steps[r]
      BY DEF NodesMetered
    <3>1. UnspentOn(r) = {} /\ steps[r] = 0 /\ Len(done[r]) = 0
      BY <2>1
    <3>2. IsFiniteSet(UnspentOn(r)) /\ Cardinality(UnspentOn(r)) = 0
      BY <2>3, <3>1
    <3> QED
      BY <3>1, <3>2
  <2>5. SendsMetered
    <3> SUFFICES ASSUME NEW x \in Nodes
                 PROVE  /\ IsFiniteSet(UnsentOn(x[1]))
                        /\ sent[x] + Cardinality(UnsentOn(x[1])) <= steps[x[1]]
      BY DEF SendsMetered
    <3>1. UnsentOn(x[1]) = {} /\ steps[x[1]] = 0 /\ sent[x] = 0
      BY <2>1, <2>2
    <3>2. IsFiniteSet(UnsentOn(x[1])) /\ Cardinality(UnsentOn(x[1])) = 0
      BY <2>3, <3>1
    <3> QED
      BY <3>1, <3>2
  <2> QED
    BY <2>4, <2>5 DEF Metered
<1>3. PolicyTypeOK /\ Typed /\ Calling /\ Owned /\ [Next]_vars => Calling' /\ Owned'
  BY OwnedStep DEF Typed
<1>4. PolicyTypeOK /\ Typed /\ Calling /\ Metered /\ [Next]_vars => Metered'
  BY MeteredStep
<1>5. PolicyTypeOK /\ Typed /\ Metered => WorkIsMetered
  <2> SUFFICES ASSUME PolicyTypeOK, Typed, Metered
               PROVE  WorkIsMetered
    OBVIOUS
  <2>1. ASSUME NEW r \in Runs
        PROVE  Len(done[r]) <= steps[r]
    BY MeteredTypes, FS_CardinalityType DEF Metered, NodesMetered
  <2>2. ASSUME NEW x \in Nodes
        PROVE  sent[x] <= steps[x[1]]
    BY MeteredTypes, FS_CardinalityType DEF Metered, SendsMetered
  <2> QED
    BY <2>1, <2>2 DEF WorkIsMetered
<1> QED
  BY <1>1, <1>2, <1>3, <1>4, <1>5, TypedAlways, NativeImplementsPolicy, PolicyTypes, PTL DEF Spec
=============================================================================

-------------------------- MODULE NativeWorkflows --------------------------
(***************************************************************************)
(* Native workflow runs: passes of processWorkflows claim a run, reserve   *)
(* its slot with the execution policy, run one node and give the slot      *)
(* back.                                                                   *)
(*                                                                         *)
(*   apps/flows/packages/native/src/runtime.ts           the pass          *)
(*   apps/flows/packages/native/src/webhook-delivery.ts  webhook nodes     *)
(*   apps/flows/packages/native/src/repository.ts        cancel and retry  *)
(*   apps/api/src/workflows.ts                           policy bridge     *)
(*                                                                         *)
(* A pass works on one run at a time; the token of its claim is the pass.  *)
(* A run is due at any time after it is queued: wake-up times are waits    *)
(* whose length nothing depends on.  An inner node stands for every kind   *)
(* whose effect is in the transaction of its checkpoint.                   *)
(***************************************************************************)
EXTENDS ExecutionPolicy, Sequences

CONSTANTS
  NoPass,       \* lease_token: NULL
  Flow,         \* per run the kinds of its nodes: inner, delay or webhook
  MaxAttempts,  \* 3, attempts after which an unexpected error is final
  MaxSends,     \* 3, webhook attempts of one generation
  MaxEvents     \* bound: faults, lapses of leases in use and acts of users

Passes == Callers
Runs   == Ids
Nodes  == UNION {{r} \X (1..Len(Flow[r])) : r \in Runs}

ASSUME NativeAssumption ==
  /\ NoPass \notin Passes
  /\ Flow \in [Runs -> Seq({"inner", "delay", "webhook"})]
  /\ MaxAttempts \in Nat \ {0}
  /\ MaxSends \in Nat \ {0}
  /\ MaxEvents \in Nat

VARIABLES
  \* workflow_executions; the attempts count is kept up to the limit
  status, node, attempts, token, overdue, reason,
  \* generation_attempts of the delivery at the run's node, if it is a webhook
  recorded,
  \* passes: step, claimed run, the node and attempts it was claimed with,
  \* generation_attempts it has read, answer of the receiver, policyTerminal
  pc, run, at, tries, seen, answer, final,
  events,
  \* history: nodes checkpointed, in order; requests that left, per webhook;
  \* manual retries; slots whose pass could not give them back
  done, sent, retries, leaked

runVars   == <<status, node, attempts, token, overdue, reason>>
passVars  == <<pc, run, at, tries, seen, answer, final>>
pastVars  == <<done, sent, retries>>
vars      == <<policyVars, runVars, recorded, passVars, events, pastVars, leaked>>

Ended   == {"completed", "failed", "blocked", "cancelled"}
Steps   == {"idle", "claimed", "admit", "step", "send", "answered", "look",
            "release", "dead"}
Reserving == {"step", "send", "answered", "look", "release"}

TypeOK ==
  /\ PolicyTypeOK
  /\ status \in [Runs -> Ended \cup {"queued", "waiting", "running"}]
  /\ node \in [Runs -> Nat] /\ \A r \in Runs : node[r] \in 1..Len(Flow[r]) + 1
  /\ attempts \in [Runs -> 0..MaxAttempts]
  /\ token \in [Runs -> Passes \cup {NoPass}]
  /\ overdue \subseteq Runs
  /\ reason \in [Runs -> {"none", "revoked", "finished", "budget"}]
  /\ recorded \in [Runs -> 0..MaxSends]
  /\ pc \in [Passes -> Steps]
  /\ run \in [Passes -> Runs]
  /\ at \in [Passes -> Nat] /\ \A p \in Passes : at[p] \in 1..Len(Flow[run[p]]) + 1
  /\ tries \in [Passes -> 0..MaxAttempts]
  /\ seen \in [Passes -> 0..MaxSends]
  /\ answer \in [Passes -> {"none", "accepted", "retryable", "refused"}]
  /\ final \in [Passes -> BOOLEAN]
  /\ events \in 0..MaxEvents
  /\ done \in [Runs -> Seq(Nat)] /\ sent \in [Nodes -> Nat] /\ retries \in [Runs -> Nat]
  /\ leaked \subseteq Runs

SomeRun == CHOOSE r \in Runs : TRUE

Init ==
  /\ PolicyInit
  /\ status = [r \in Runs |-> "queued"]
  /\ node = [r \in Runs |-> 1]
  /\ attempts = [r \in Runs |-> 0]
  /\ token = [r \in Runs |-> NoPass]
  /\ overdue = {}
  /\ reason = [r \in Runs |-> "none"]
  /\ recorded = [r \in Runs |-> 0]
  /\ pc = [p \in Passes |-> "idle"]
  /\ run = [p \in Passes |-> SomeRun]
  /\ at = [p \in Passes |-> 1]
  /\ tries = [p \in Passes |-> 0]
  /\ seen = [p \in Passes |-> 0]
  /\ answer = [p \in Passes |-> "none"]
  /\ final = [p \in Passes |-> FALSE]
  /\ events = 0
  /\ done = [r \in Runs |-> <<>>]
  /\ sent = [x \in Nodes |-> 0]
  /\ retries = [r \in Runs |-> 0]
  /\ leaked = {}

Event == events < MaxEvents /\ events' = events + 1

-----------------------------------------------------------------------------
(* Pieces of a pass.                                                       *)

Move(p, step) ==
  /\ pc' = [pc EXCEPT ![p] = step]
  /\ UNCHANGED <<run, at, tries, seen, answer, final>>

\* The pass turns to its next run, which it claims with a new token.
Leave(p) ==
  /\ pc' = [pc EXCEPT ![p] = "idle"]
  /\ run' = [run EXCEPT ![p] = SomeRun]
  /\ at' = [at EXCEPT ![p] = 1]
  /\ tries' = [tries EXCEPT ![p] = 0]
  /\ seen' = [seen EXCEPT ![p] = 0]
  /\ answer' = [answer EXCEPT ![p] = "none"]
  /\ final' = [final EXCEPT ![p] = FALSE]

ToRelease(p, terminal) ==
  /\ pc' = [pc EXCEPT ![p] = "release"]
  /\ final' = [final EXCEPT ![p] = terminal]
  /\ answer' = [answer EXCEPT ![p] = "none"]
  /\ seen' = [seen EXCEPT ![p] = 0]
  /\ UNCHANGED <<run, at, tries>>

Holds_Running(p) == status[run[p]] = "running"

Holds(p) == token[run[p]] = p /\ status[run[p]] = "running"

\* The lease is compared with a time read before the transaction.
FenceShut(p) == ~Holds(p) \/ run[p] \in overdue

\* What a pass writes about its run when it stops working on it.
Put(p, s, n, why) ==
  LET r == run[p]
  IN /\ status' = [status EXCEPT ![r] = s]
     /\ attempts' = [attempts EXCEPT ![r] = n]
     /\ reason' = [reason EXCEPT ![r] = why]
     /\ token' = [token EXCEPT ![r] = NoPass]
     /\ overdue' = overdue \ {r}

Settle_Unfenced(p, s, n, why) == Put(p, s, n, why) /\ UNCHANGED node

Settle(p, s, n, why) ==
  /\ IF Holds(p) THEN Put(p, s, n, why)
     ELSE UNCHANGED <<status, attempts, reason, token, overdue>>
  /\ UNCHANGED node

\* The catch block: an error with a status is final, but for the policy's
\* refusals; unavailable stands for the pause and an unavailable bridge.
Error == {"fatal", "unexpected", "concurrent", "unavailable"}

Again(p, e) ==
  \/ e = "unavailable"
  \/ e \in {"unexpected", "concurrent"} /\ tries[p] < MaxAttempts

Catch(p, e) ==
  Settle(p, IF Again(p, e) THEN "queued" ELSE "failed",
         IF e = "unavailable" THEN 0 ELSE tries[p], "none")

Fail(p, e) == Catch(p, e) /\ ToRelease(p, ~Again(p, e))

-----------------------------------------------------------------------------
(* Claim and reservation.                                                  *)

Due_NeverOverdue(r) == status[r] \in {"queued", "waiting"}

Due(r) == \/ status[r] \in {"queued", "waiting"}
          \/ status[r] = "running" /\ r \in overdue

Claim(p, r) ==
  LET n == IF attempts[r] < MaxAttempts THEN attempts[r] + 1 ELSE MaxAttempts
  IN /\ pc[p] = "idle" /\ Due(r)
     /\ status' = [status EXCEPT ![r] = "running"]
     /\ token' = [token EXCEPT ![r] = p]
     /\ attempts' = [attempts EXCEPT ![r] = n]
     /\ overdue' = overdue \ {r}
     /\ pc' = [pc EXCEPT ![p] = "claimed"]
     /\ run' = [run EXCEPT ![p] = r]
     /\ at' = [at EXCEPT ![p] = node[r]]
     /\ tries' = [tries EXCEPT ![p] = n]
     /\ UNCHANGED <<policyVars, node, reason, recorded, seen, answer, final,
                    events, pastVars, leaked>>

\* authorize: the owner's permission is revoked.
Revoked(p) ==
  /\ pc[p] = "claimed" /\ Event
  /\ Settle(p, "blocked", attempts[run[p]], "revoked")
  /\ Leave(p)
  /\ UNCHANGED <<policyVars, recorded, pastVars, leaked>>

StartAdmit(p) ==
  /\ pc[p] = "claimed"
  /\ AdmitRead(p, run[p])
  /\ Move(p, "admit")
  /\ UNCHANGED <<runVars, recorded, events, pastVars, leaked>>

\* The statements of a call run in the policy's worker.
PolicyStatement(p) ==
  /\ Statement(p)
  /\ UNCHANGED <<runVars, recorded, passVars, events, pastVars, leaked>>

Denied(p) ==
  LET why == call[p].at
  IN /\ pc[p] = "admit" /\ why \in {"paused", "concurrent", "finished", "budget"}
     /\ IF why \in {"paused", "concurrent"}
        THEN Settle(p, "queued", IF why = "paused" THEN 0 ELSE tries[p], "none")
        ELSE Settle(p, "blocked", tries[p], why)
     /\ Leave(p) /\ Forget(p)
     /\ UNCHANGED <<rowVars, control, recorded, events, pastVars, leaked>>

StartStep(p) ==
  /\ pc[p] = "admit" /\ call[p].at = "allowed"
  /\ StepRead(p, run[p])
  /\ Move(p, "step")
  /\ UNCHANGED <<runVars, recorded, events, pastVars, leaked>>

StepRefused_NotReserved(p) ==
  /\ pc[p] = "step"
  /\ call[p].at \in {"paused", "concurrent", "exhausted", "inactive"}
  /\ Catch(p, "fatal") /\ Leave(p) /\ Forget(p)
  /\ UNCHANGED <<rowVars, control, recorded, events, pastVars, leaked>>

StepRefused(p) ==
  /\ pc[p] = "step"
  /\ call[p].at \in {"paused", "concurrent", "exhausted", "inactive"}
  /\ Fail(p, CASE call[p].at = "paused"     -> "unavailable"
               [] call[p].at = "concurrent" -> "concurrent"
               [] OTHER                     -> "fatal")
  /\ Forget(p)
  /\ UNCHANGED <<rowVars, control, recorded, events, pastVars, leaked>>

-----------------------------------------------------------------------------
(* The node.                                                               *)

KindOf(r, n) == IF n > Len(Flow[r]) THEN "none" ELSE Flow[r][n]

Kind(p) == KindOf(run[p], at[p])

Ready(p, kinds) == pc[p] = "step" /\ call[p].at = "stepped" /\ Kind(p) \in kinds

\* Nothing is left: the run was waiting on its last node.
CompleteEmpty(p) ==
  /\ Ready(p, {"none"})
  /\ Settle(p, "completed", attempts[run[p]], "none")
  /\ ToRelease(p, TRUE) /\ Forget(p)
  /\ UNCHANGED <<rowVars, control, recorded, events, pastVars, leaked>>

\* Effect, job receipt and next node in one transaction, under the fence; a
\* delivery of the next node has no attempts yet.
Advance(p) ==
  LET r == run[p]
      last == at[p] = Len(Flow[r])
  IN /\ Put(p, CASE Kind(p) = "delay" -> "waiting"
                 [] last              -> "completed"
                 [] OTHER             -> "queued", 0, "none")
     /\ node' = [node EXCEPT ![r] = at[p] + 1]
     /\ done' = [done EXCEPT ![r] = Append(@, at[p])]
     /\ recorded' = [recorded EXCEPT ![r] = 0]

RunNode(p) ==
  /\ Ready(p, {"inner", "delay"}) /\ Holds(p)
  /\ Advance(p)
  /\ Move(p, "look") /\ Forget(p)
  /\ UNCHANGED <<rowVars, control, events, sent, retries, leaked>>

Fenced(p) ==
  /\ Ready(p, {"inner", "delay", "webhook"}) /\ FenceShut(p)
  /\ Fail(p, "fatal") /\ Forget(p)
  /\ UNCHANGED <<rowVars, control, recorded, events, pastVars, leaked>>

\* A webhook's attempt is recorded, under the fence, before it is sent.
MayRecord_OffByOne(r) == recorded[r] <= MaxSends

MayRecord(r) == recorded[r] < MaxSends

Record(p) ==
  LET r == run[p]
  IN /\ Ready(p, {"webhook"}) /\ Holds(p) /\ MayRecord(r)
     /\ recorded' = [recorded EXCEPT ![r] = @ + 1]
     /\ seen' = [seen EXCEPT ![p] = recorded[r]]
     /\ pc' = [pc EXCEPT ![p] = "send"]
     /\ Forget(p)
     /\ UNCHANGED <<rowVars, control, runVars, run, at, tries, answer, final,
                    events, pastVars, leaked>>

SendsExhausted(p) ==
  /\ Ready(p, {"webhook"}) /\ ~MayRecord(run[p])
  /\ Fail(p, "fatal") /\ Forget(p)
  /\ UNCHANGED <<rowVars, control, recorded, events, pastVars, leaked>>

\* The receiver answers, or not in time (retryable).
SendWebhook(p) ==
  /\ pc[p] = "send"
  /\ \E a \in {"accepted", "retryable", "refused"} : answer' = [answer EXCEPT ![p] = a]
  /\ sent' = [sent EXCEPT ![<<run[p], at[p]>>] = @ + 1]
  /\ pc' = [pc EXCEPT ![p] = "answered"]
  /\ UNCHANGED <<policyVars, runVars, recorded, run, at, tries, seen, final,
                 events, done, retries, leaked>>

RecordAnswer(p) ==
  LET again == answer[p] = "retryable" /\ seen[p] + 1 < MaxSends
  IN /\ pc[p] = "answered" /\ Holds(p)
     /\ \/ answer[p] = "accepted" /\ Advance(p)
        \/ /\ answer[p] # "accepted"
           /\ Put(p, IF again THEN "waiting" ELSE "failed", 0, "none")
           /\ UNCHANGED <<node, done, recorded>>
     /\ Move(p, "look")
     /\ UNCHANGED <<policyVars, events, sent, retries, leaked>>

AnswerFenced(p) ==
  /\ pc[p] = "answered" /\ FenceShut(p)
  /\ Fail(p, "fatal")
  /\ UNCHANGED <<policyVars, recorded, events, pastVars, leaked>>

\* The status the run has by then decides whether its reservation is over.
Look(p) ==
  /\ pc[p] = "look"
  /\ ToRelease(p, status[run[p]] \in {"completed", "failed", "blocked"})
  /\ UNCHANGED <<policyVars, runVars, recorded, events, pastVars, leaked>>

ReturnSlot(p) ==
  /\ pc[p] = "release"
  /\ Release(p, run[p], final[p])
  /\ leaked' = leaked \ {run[p]}
  /\ Leave(p)
  /\ UNCHANGED <<runVars, recorded, events, pastVars>>

-----------------------------------------------------------------------------
(* Failures: an error or a lost answer, a release that is not delivered, a *)
(* pass that dies; its call may still be under way.                        *)

ThrowEarly(p) ==
  /\ pc[p] \in {"claimed", "admit"} /\ Free(p) /\ Event
  /\ \E e \in {"fatal", "unexpected", "unavailable"} : Catch(p, e)
  /\ leaked' = IF pc[p] = "admit" THEN leaked \cup {run[p]} ELSE leaked
  /\ Leave(p) /\ Forget(p)
  /\ UNCHANGED <<rowVars, control, recorded, pastVars>>

\* Between the recording of an attempt and its request: the answer of the
\* transaction is lost, or the transport refuses the request.
MayThrow(p) ==
  CASE pc[p] = "step"                 -> {"fatal", "unexpected", "unavailable"}
    [] pc[p] = "send"                 -> {"fatal", "unexpected"}
    [] pc[p] \in {"answered", "look"} -> {"unexpected"}
    [] OTHER                          -> {}

Throw(p) ==
  /\ Free(p) /\ Event
  /\ \E e \in MayThrow(p) : Fail(p, e)
  /\ Forget(p)
  /\ UNCHANGED <<rowVars, control, recorded, pastVars, leaked>>

ReleaseLost(p) ==
  /\ pc[p] = "release" /\ Event
  /\ leaked' = leaked \cup {run[p]}
  /\ Leave(p)
  /\ UNCHANGED <<policyVars, runVars, recorded, pastVars>>

Crash(p) ==
  /\ pc[p] \notin {"idle", "dead"} /\ Event
  /\ Move(p, "dead")
  /\ UNCHANGED <<policyVars, runVars, recorded, pastVars, leaked>>

\* The next tick; what the dead pass held is left to its leases.
Recover(p) ==
  /\ pc[p] = "dead" /\ Free(p)
  /\ leaked' = leaked \cup {run[p]}
  /\ Leave(p) /\ Forget(p)
  /\ UNCHANGED <<rowVars, control, runVars, recorded, events, pastVars>>

(* Leases end by themselves when nobody works under them; while somebody   *)
(* does, only for a pass slower than the lease.                            *)

WorksOn(p, r) == pc[p] \notin {"idle", "dead"} /\ run[p] = r

LeaseEnds(r) ==
  /\ status[r] = "running" /\ r \notin overdue
  /\ IF token[r] \in Passes /\ WorksOn(token[r], r) THEN Event ELSE UNCHANGED events
  /\ overdue' = overdue \cup {r}
  /\ UNCHANGED <<policyVars, status, node, attempts, token, reason, recorded,
                 passVars, pastVars, leaked>>

SlotEnds(r) ==
  /\ Lapse(r)
  /\ IF \E p \in Passes : WorksOn(p, r) THEN Event ELSE UNCHANGED events
  /\ leaked' = leaked \ {r}
  /\ UNCHANGED <<runVars, recorded, passVars, pastVars>>

(* Users and operators.                                                    *)

Cancel(r) ==
  /\ status[r] \in {"queued", "running", "waiting"} /\ Event
  /\ status' = [status EXCEPT ![r] = "cancelled"]
  /\ token' = [token EXCEPT ![r] = NoPass]
  /\ overdue' = overdue \ {r}
  /\ UNCHANGED <<policyVars, node, attempts, reason, recorded, passVars,
                 pastVars, leaked>>

\* A manual retry gives the failed webhook a new generation of attempts.
Retry(r) ==
  /\ status[r] \in {"failed", "blocked"} /\ Event
  /\ status' = [status EXCEPT ![r] = "queued"]
  /\ attempts' = [attempts EXCEPT ![r] = 0]
  /\ reason' = [reason EXCEPT ![r] = "none"]
  /\ retries' = [retries EXCEPT ![r] = @ + 1]
  /\ recorded' = IF KindOf(r, node[r]) = "webhook"
                 THEN [recorded EXCEPT ![r] = 0] ELSE recorded
  /\ UNCHANGED <<policyVars, node, token, overdue, passVars, done, sent, leaked>>

Operate ==
  /\ Event
  /\ \/ \E g \in Generations, pause \in BOOLEAN : Sync(g, pause)
     \/ NewDay
  /\ UNCHANGED <<runVars, recorded, passVars, pastVars, leaked>>

-----------------------------------------------------------------------------
PassStep(p) ==
  \/ StartAdmit(p) \/ PolicyStatement(p) \/ Denied(p) \/ StartStep(p)
  \/ StepRefused(p) \/ CompleteEmpty(p) \/ RunNode(p) \/ Fenced(p)
  \/ Record(p) \/ SendsExhausted(p) \/ SendWebhook(p) \/ RecordAnswer(p)
  \/ AnswerFenced(p) \/ Look(p) \/ ReturnSlot(p) \/ Recover(p)

Next ==
  \/ \E p \in Passes : \/ PassStep(p)
                       \/ \E r \in Runs : Claim(p, r)
                       \/ Revoked(p) \/ ThrowEarly(p) \/ Throw(p)
                       \/ ReleaseLost(p) \/ Crash(p)
  \/ \E r \in Runs : LeaseEnds(r) \/ SlotEnds(r) \/ Cancel(r) \/ Retry(r)
  \/ Operate

Spec == Init /\ [][Next]_vars

\* A pass works until it is done or dies; due runs are claimed oldest first,
\* so that none is passed over for ever; leases that nobody renews end.
Fairness ==
  /\ \A p \in Passes : WF_vars(PassStep(p))
  /\ \A r \in Runs : /\ SF_vars(\E p \in Passes : Claim(p, r))
                     /\ WF_vars(LeaseEnds(r) /\ UNCHANGED events)
                     /\ WF_vars(SlotEnds(r) /\ UNCHANGED events)

FairSpec == Spec /\ Fairness

-----------------------------------------------------------------------------
(* Properties.                                                             *)

\* Every node is checkpointed once and in the order of the flow, whatever pass
\* is overtaken, dies between effect and answer, or is retried by hand.
NodesOnceInOrder ==
  \A r \in Runs : /\ done[r] = [n \in 1..Len(done[r]) |-> n]
                  /\ node[r] = Len(done[r]) + 1

\* A receiver is sent at most three requests of a webhook node, and three more
\* for every manual retry, counting those whose pass died or was overtaken.
SendsBounded == \A x \in Nodes : sent[x] <= MaxSends * (1 + retries[x[1]])

\* No node runs and no request is sent but for a step the quota has counted.
WorkIsMetered ==
  /\ \A x \in Nodes : sent[x] <= steps[x[1]]
  /\ \A r \in Runs : Len(done[r]) <= steps[r]

\* A run that nobody works on holds no slot, waiting ones included: what a pass
\* took is returned, unless it died or its call was lost, until the lease ends.
SlotsAccounted ==
  \A r \in Live : \/ r \in leaked
                  \/ \E p \in Passes : /\ run[p] = r
                                       /\ pc[p] \in Reserving \cup {"admit", "dead"}

\* A completed or cancelled run stays so, and a failed or blocked one is taken
\* up again by a manual retry only: no overtaken pass writes over the outcome.
EndedStays ==
  [][\A r \in Runs : status[r] \in Ended /\ status'[r] # status[r] =>
       status[r] \in {"failed", "blocked"} /\ retries'[r] = retries[r] + 1]_vars

\* Every run ends, unless executions are paused.
RunsEnd ==
  \A r \in Runs : (status[r] \notin Ended) ~> (status[r] \in Ended \/ paused)
=============================================================================

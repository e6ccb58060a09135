----------------------- MODULE ScheduledTriggerClaims -----------------------
(***************************************************************************)
(* The durable claims that keep a cron occurrence of a workflow from being *)
(* run twice.                                                              *)
(*                                                                         *)
(*   apps/flows/api/src/services/scheduled-trigger-claims.ts  the claim,   *)
(*     one SQL statement after another                                     *)
(*   apps/flows/api/src/scheduled.ts  the cron handler that claims, marks, *)
(*     executes and completes                                              *)
(*   apps/flows/api/src/stores/workflow-store.ts  save: the D1 row and the *)
(*     R2 data of a workflow are written one after the other               *)
(*                                                                         *)
(* Cron invocations (handlers) overlap, die and stall between statements;  *)
(* the workflow is edited meanwhile.  One workflow is modelled, with its   *)
(* occurrences.                                                            *)
(*                                                                         *)
(* Time is kept relative to the present: left[o] is lease_until less the   *)
(* present time, age[h] the time since handler h read its clock, so        *)
(* "lease_until <= now" reads left[o] <= -age[h] for the handler's now.    *)
(* A lease token is modelled by the attempt number written with it: each   *)
(* new token comes with attempts + 1.                                      *)
(***************************************************************************)
EXTENDS Integers, FiniteSets

CONSTANTS
  Handlers,     \* cron invocations
  Occurrences,  \* (workflow_id, scheduled_time) of one workflow
  Data,         \* versions of the workflow's data in R2, by fingerprint
  WorkerData,   \* those whose runtime is "worker"
  NoData,       \* nothing loaded, no fingerprint
  LeaseTime,    \* DEFAULT_LEASE_MS
  MaxStall,     \* bound: time a handler spends on a claim before marking it
  MaxAttempts,  \* bound: leases of one occurrence
  MaxEdits,     \* bound: changes of the workflow
  MaxFaults     \* bound: crashes and failed calls

ASSUME ClaimsAssumption ==
  /\ WorkerData \subseteq Data
  /\ NoData \notin Data
  /\ LeaseTime \in Nat \ {0}
  /\ MaxStall \in Nat
  /\ MaxAttempts \in Nat \ {0}
  /\ MaxEdits \in Nat
  /\ MaxFaults \in Nat

VARIABLES
  \* savia_scheduled_trigger_occurrences, a column each: stamp stands for the
  \* schedule expression and the two updated_at copied into the row
  status, runtime, attempts, left, stamp, print,
  \* the handlers: step, occurrence, clock age, fingerprint loaded, token
  pc, occ, age, loaded, tok,
  \* the workflow: revision of its rows, enabled flag, data in R2
  rev, enabled, data, faults,
  \* history: the runs started, the attempt and the data of each; their
  \* number; the occurrences ever marked dispatched
  ran, runs, marked

rowVars     == <<status, runtime, attempts, left, stamp, print>>
handlerVars == <<pc, occ, age, loaded, tok>>
configVars  == <<rev, enabled, data>>
historyVars == <<ran, runs, marked>>
vars        == <<rowVars, handlerVars, configVars, faults, historyVars>>

Closed == {"completed", "uncertain", "obsolete"}
Status == {"none", "claimed", "dispatched"} \cup Closed
Phase  == {"idle", "load", "insert", "look", "check", "recheck", "settle",
           "reclaim", "adopt", "mark", "release", "run", "complete"}

\* The phases in which a handler works with a clock value it has read.
Timed == {"insert", "look", "check", "recheck", "settle", "reclaim", "adopt",
          "mark"}

RuntimeOf(d) == IF d \in WorkerData THEN "worker" ELSE "workflow"

\* lease_until = 0, or any time too long ago to be told apart from it.
LongPast == -MaxStall

\* lease_until <= now, for the clock value of h.
ExpiredFor(h, o) == left[o] <= -age[h]

\* The trigger is active, the workflow enabled, and neither was edited since
\* the row copied its schedule and its updated_at values.
Current(o) == enabled /\ stamp[o] = rev

TypeOK ==
  /\ status \in [Occurrences -> Status]
  /\ runtime \in [Occurrences -> {"none", "worker", "workflow"}]
  /\ attempts \in [Occurrences -> 0..MaxAttempts]
  /\ left \in [Occurrences -> LongPast..LeaseTime]
  /\ stamp \in [Occurrences -> 0..MaxEdits]
  /\ print \in [Occurrences -> Data \cup {NoData}]
  /\ pc \in [Handlers -> Phase]
  /\ occ \in [Handlers -> Occurrences]
  /\ age \in [Handlers -> 0..MaxStall]
  /\ loaded \in [Handlers -> Data \cup {NoData}]
  /\ tok \in [Handlers -> 0..MaxAttempts]
  /\ rev \in 0..MaxEdits
  /\ enabled \in BOOLEAN
  /\ data \in Data
  /\ faults \in 0..MaxFaults
  /\ ran \in [Occurrences -> SUBSET ((1..MaxAttempts) \X Data)]
  /\ runs \in [Occurrences -> Nat]
  /\ marked \in [Occurrences -> BOOLEAN]

Init ==
  /\ status = [o \in Occurrences |-> "none"]
  /\ runtime = [o \in Occurrences |-> "none"]
  /\ attempts = [o \in Occurrences |-> 0]
  /\ left = [o \in Occurrences |-> LongPast]
  /\ stamp = [o \in Occurrences |-> 0]
  /\ print = [o \in Occurrences |-> NoData]
  /\ pc = [h \in Handlers |-> "idle"]
  /\ occ \in [Handlers -> Occurrences]
  /\ age = [h \in Handlers |-> 0]
  /\ loaded = [h \in Handlers |-> NoData]
  /\ tok = [h \in Handlers |-> 0]
  /\ rev = 0
  /\ enabled = TRUE
  /\ data \in Data
  /\ faults = 0
  /\ ran = [o \in Occurrences |-> {}]
  /\ runs = [o \in Occurrences |-> 0]
  /\ marked = [o \in Occurrences |-> FALSE]

-----------------------------------------------------------------------------
(* The steps of a handler.                                                 *)

Goto(h, p) == pc' = [pc EXCEPT ![h] = p]

\* The handler is done with its occurrence: its locals are dead.
Leave(h) ==
  /\ Goto(h, "idle")
  /\ age' = [age EXCEPT ![h] = 0]
  /\ loaded' = [loaded EXCEPT ![h] = NoData]
  /\ tok' = [tok EXCEPT ![h] = 0]
  /\ UNCHANGED occ

\* Definitions whose names end in a word after an underscore are mutated forms
\* of the ones that follow them; no specification uses them.
Begin_NotListed(h, o) ==
  /\ pc[h] = "idle"
  /\ status[o] = "none"
  /\ occ' = [occ EXCEPT ![h] = o]
  /\ Goto(h, "load")
  /\ UNCHANGED <<rowVars, age, loaded, tok, configVars, faults, historyVars>>

\* handleScheduledEvent reaches o: it is due now, or it was listed as expired.
\* Of a closed one the handler only reads that it is closed.
Begin(h, o) ==
  /\ pc[h] = "idle"
  /\ status[o] \notin Closed
  /\ occ' = [occ EXCEPT ![h] = o]
  /\ Goto(h, "load")
  /\ UNCHANGED <<rowVars, age, loaded, tok, configVars, faults, historyVars>>

\* getWithData, the fingerprint of what it returned, then Date.now().
Load(h) ==
  /\ pc[h] = "load"
  /\ loaded' = [loaded EXCEPT ![h] = data]
  /\ Goto(h, "insert")
  /\ UNCHANGED <<rowVars, occ, age, tok, configVars, faults, historyVars>>

\* INSERT OR IGNORE ... SELECT from the active trigger and enabled workflow.
Insert(h) ==
  LET o == occ[h] IN
  /\ pc[h] = "insert"
  /\ IF status[o] = "none" /\ enabled
     THEN /\ status' = [status EXCEPT ![o] = "claimed"]
          /\ attempts' = [attempts EXCEPT ![o] = 1]
          /\ left' = [left EXCEPT ![o] = LeaseTime - age[h]]
          /\ stamp' = [stamp EXCEPT ![o] = rev]
          /\ print' = [print EXCEPT ![o] = loaded[h]]
          /\ tok' = [tok EXCEPT ![h] = 1]
          /\ Goto(h, "mark")
     ELSE /\ Goto(h, "look")
          /\ UNCHANGED <<status, attempts, left, stamp, print, tok>>
  /\ UNCHANGED <<runtime, occ, age, loaded, configVars, faults, historyVars>>

\* The SELECT of the existing row: none, or closed, ends the claim.
Look(h) ==
  LET o == occ[h] IN
  /\ pc[h] = "look"
  /\ IF status[o] \in Closed \cup {"none"}
     THEN Leave(h)
     ELSE /\ tok' = [tok EXCEPT ![h] = attempts[o]]
          /\ Goto(h, "check")
          /\ UNCHANGED <<occ, age, loaded>>
  /\ UNCHANGED <<rowVars, configVars, faults, historyVars>>

GivenUp_Obsolete(o) == "obsolete"

\* status = CASE WHEN dispatched on a Worker THEN uncertain ELSE obsolete
GivenUp(o) == IF status[o] = "dispatched" /\ runtime[o] = "worker"
              THEN "uncertain" ELSE "obsolete"

\* obsoleteClaimIfConfigurationChanged: even under a live lease.
Check(h) ==
  LET o == occ[h] IN
  /\ pc[h] = "check"
  /\ IF /\ attempts[o] = tok[h]
        /\ status[o] \in {"claimed", "dispatched"}
        /\ print[o] # loaded[h] \/ ~ Current(o)
     THEN /\ status' = [status EXCEPT ![o] = GivenUp(o)]
          /\ left' = [left EXCEPT ![o] = LongPast]
     ELSE UNCHANGED <<status, left>>
  /\ Goto(h, "recheck")
  /\ UNCHANGED <<runtime, attempts, stamp, print, occ, age, loaded, tok,
                 configVars, faults, historyVars>>

\* readClaim and the branches on what it returned.
Recheck(h) ==
  LET o == occ[h] IN
  /\ pc[h] = "recheck"
  /\ IF status[o] \in {"obsolete", "uncertain"} \/ ~ ExpiredFor(h, o)
     THEN Leave(h)
     ELSE /\ Goto(h, IF status[o] = "dispatched" /\ runtime[o] = "worker"
                     THEN "settle" ELSE "reclaim")
          /\ UNCHANGED <<occ, age, loaded, tok>>
  /\ UNCHANGED <<rowVars, configVars, faults, historyVars>>

\* An expired Worker dispatch becomes uncertain.
Settle(h) ==
  LET o == occ[h] IN
  /\ pc[h] = "settle"
  /\ IF /\ status[o] = "dispatched" /\ runtime[o] = "worker"
        /\ ExpiredFor(h, o)
     THEN /\ status' = [status EXCEPT ![o] = "uncertain"]
          /\ left' = [left EXCEPT ![o] = LongPast]
     ELSE UNCHANGED <<status, left>>
  /\ Leave(h)
  /\ UNCHANGED <<runtime, attempts, stamp, print, configVars, faults,
                 historyVars>>

Reclaimable_AnyRuntime(h, o) ==
  /\ ExpiredFor(h, o)
  /\ status[o] \in {"claimed", "dispatched"}
  /\ print[o] = loaded[h]
  /\ Current(o)
  /\ attempts[o] < MaxAttempts

\* What the reclaiming UPDATE asks of the row.
Reclaimable(h, o) ==
  /\ ExpiredFor(h, o)
  /\ \/ status[o] = "claimed"
     \/ status[o] = "dispatched" /\ runtime[o] = "workflow"
  /\ print[o] = loaded[h]
  /\ Current(o)
  /\ attempts[o] < MaxAttempts

Reclaim(h) ==
  LET o == occ[h] IN
  /\ pc[h] = "reclaim"
  /\ IF Reclaimable(h, o)
     THEN /\ status' = [status EXCEPT ![o] = "claimed"]
          /\ runtime' = [runtime EXCEPT ![o] = "none"]
          /\ attempts' = [attempts EXCEPT ![o] = @ + 1]
          /\ left' = [left EXCEPT ![o] = LeaseTime - age[h]]
          /\ Goto(h, "adopt")
          /\ UNCHANGED <<occ, age, loaded, tok>>
     ELSE Leave(h) /\ UNCHANGED <<status, runtime, attempts, left>>
  /\ UNCHANGED <<stamp, print, configVars, faults, historyVars>>

\* The lease token is read back from the row: it is whoever's it is by now.
Adopt(h) ==
  /\ pc[h] = "adopt"
  /\ tok' = [tok EXCEPT ![h] = attempts[occ[h]]]
  /\ Goto(h, "mark")
  /\ UNCHANGED <<rowVars, occ, age, loaded, configVars, faults, historyVars>>

MarkAt_AnyStatus(h, a) ==
  LET o == occ[h] IN
  IF attempts[o] = tok[h] /\ left[o] > -a /\ print[o] = loaded[h] /\ Current(o)
  THEN /\ status' = [status EXCEPT ![o] = "dispatched"]
       /\ runtime' = [runtime EXCEPT ![o] = RuntimeOf(loaded[h])]
       /\ left' = [left EXCEPT ![o] = LeaseTime - a]
       /\ marked' = [marked EXCEPT ![o] = TRUE]
       /\ Goto(h, "run")
       /\ age' = [age EXCEPT ![h] = 0]
       /\ UNCHANGED <<occ, loaded, tok>>
  ELSE /\ Leave(h)
       /\ UNCHANGED <<status, runtime, left, marked>>

\* markScheduledTriggerOccurrenceDispatched, with a clock value read at some
\* time since the claim's.
MarkAt(h, a) ==
  LET o == occ[h] IN
  IF /\ status[o] = "claimed"
     /\ attempts[o] = tok[h]
     /\ left[o] > -a
     /\ print[o] = loaded[h]
     /\ Current(o)
  THEN /\ status' = [status EXCEPT ![o] = "dispatched"]
       /\ runtime' = [runtime EXCEPT ![o] = RuntimeOf(loaded[h])]
       /\ left' = [left EXCEPT ![o] = LeaseTime - a]
       /\ marked' = [marked EXCEPT ![o] = TRUE]
       /\ Goto(h, "run")
       /\ age' = [age EXCEPT ![h] = 0]
       /\ UNCHANGED <<occ, loaded, tok>>
  ELSE /\ Leave(h)
       /\ UNCHANGED <<status, runtime, left, marked>>

Mark(h) ==
  /\ pc[h] = "mark"
  /\ \E a \in 0..age[h] : MarkAt(h, a)
  /\ UNCHANGED <<attempts, stamp, print, configVars, faults, ran, runs>>

\* The marking UPDATE throws, committed or not: the handler releases.
MarkError(h) ==
  LET o == occ[h] IN
  /\ pc[h] = "mark"
  /\ faults < MaxFaults
  /\ faults' = faults + 1
  /\ \/ UNCHANGED <<status, runtime, left, marked>>
     \/ /\ status[o] = "claimed" /\ attempts[o] = tok[h] /\ left[o] > -age[h]
        /\ print[o] = loaded[h] /\ Current(o)
        /\ status' = [status EXCEPT ![o] = "dispatched"]
        /\ runtime' = [runtime EXCEPT ![o] = RuntimeOf(loaded[h])]
        /\ left' = [left EXCEPT ![o] = LeaseTime - age[h]]
        /\ marked' = [marked EXCEPT ![o] = TRUE]
  /\ Goto(h, "release")
  /\ UNCHANGED <<attempts, stamp, print, occ, age, loaded, tok, configVars,
                 ran, runs>>

\* releaseScheduledTriggerOccurrence: only a claim that is still its own and
\* was not dispatched becomes free at once.
Release(h) ==
  LET o == occ[h] IN
  /\ pc[h] = "release"
  /\ left' = IF status[o] = "claimed" /\ attempts[o] = tok[h]
             THEN [left EXCEPT ![o] = 0] ELSE left
  /\ Leave(h)
  /\ UNCHANGED <<status, runtime, attempts, stamp, print, configVars, faults,
                 historyVars>>

Started_Reread(h) ==
  LET o == occ[h] IN
  /\ ran' = [ran EXCEPT ![o] = @ \cup {<<tok[h], data>>}]
  /\ runs' = [runs EXCEPT ![o] = @ + 1]
  /\ UNCHANGED marked

\* WorkflowExecutor.execute starts a run of the data the handler loaded.
Started(h) ==
  LET o == occ[h] IN
  /\ ran' = [ran EXCEPT ![o] = @ \cup {<<tok[h], loaded[h]>>}]
  /\ runs' = [runs EXCEPT ![o] = @ + 1]
  /\ UNCHANGED marked

Run(h) ==
  /\ pc[h] = "run"
  /\ Started(h)
  /\ Goto(h, "complete")
  /\ UNCHANGED <<rowVars, occ, age, loaded, tok, configVars, faults>>

\* The executor throws, before or after the run started: the claim is kept.
RunError(h) ==
  /\ pc[h] = "run"
  /\ faults < MaxFaults
  /\ faults' = faults + 1
  /\ Started(h) \/ UNCHANGED historyVars
  /\ Leave(h)
  /\ UNCHANGED <<rowVars, configVars>>

\* keepClaimAlive while the run goes on: it does not ask whether the lease has
\* run out.
Renew(h) ==
  LET o == occ[h] IN
  /\ pc[h] \in {"run", "complete"}
  /\ status[o] = "dispatched" /\ attempts[o] = tok[h]
  /\ left[o] < LeaseTime
  /\ left' = [left EXCEPT ![o] = LeaseTime]
  /\ UNCHANGED <<status, runtime, attempts, stamp, print, handlerVars,
                 configVars, faults, historyVars>>

Complete_AnyToken(h) ==
  LET o == occ[h] IN
  /\ pc[h] = "complete"
  /\ IF status[o] \in {"claimed", "dispatched"}
     THEN /\ status' = [status EXCEPT ![o] = "completed"]
          /\ left' = [left EXCEPT ![o] = LongPast]
     ELSE UNCHANGED <<status, left>>
  /\ Leave(h)
  /\ UNCHANGED <<runtime, attempts, stamp, print, configVars, faults,
                 historyVars>>

\* completeScheduledTriggerOccurrence.
Complete(h) ==
  LET o == occ[h] IN
  /\ pc[h] = "complete"
  /\ IF status[o] \in {"claimed", "dispatched"} /\ attempts[o] = tok[h]
     THEN /\ status' = [status EXCEPT ![o] = "completed"]
          /\ left' = [left EXCEPT ![o] = LongPast]
     ELSE UNCHANGED <<status, left>>
  /\ Leave(h)
  /\ UNCHANGED <<runtime, attempts, stamp, print, configVars, faults,
                 historyVars>>

\* A handler dies, or a statement of the claim or of the completion throws.
Crash(h) ==
  /\ pc[h] # "idle"
  /\ faults < MaxFaults
  /\ faults' = faults + 1
  /\ Leave(h)
  /\ UNCHANGED <<rowVars, configVars, historyVars>>

HandlerStep(h) ==
  \/ \E o \in Occurrences : Begin(h, o)
  \/ Load(h) \/ Insert(h) \/ Look(h) \/ Check(h) \/ Recheck(h) \/ Settle(h)
  \/ Reclaim(h) \/ Adopt(h) \/ Mark(h) \/ Release(h) \/ Run(h) \/ Complete(h)

HandlerFault(h) == MarkError(h) \/ RunError(h) \/ Crash(h)

-----------------------------------------------------------------------------
(* The repair sweep of a cron tick, the editors of the workflow, time.     *)

\* The UPDATE of listExpiredScheduledTriggerOccurrences: expired claims whose
\* schedule or workflow changed.
Stale == {o \in Occurrences : /\ status[o] \in {"claimed", "dispatched"}
                              /\ left[o] <= 0
                              /\ ~ Current(o)}

Repair ==
  /\ Stale # {}
  /\ status' = [o \in Occurrences |-> IF o \in Stale THEN GivenUp(o)
                                                     ELSE status[o]]
  /\ left' = [o \in Occurrences |-> IF o \in Stale THEN LongPast ELSE left[o]]
  /\ UNCHANGED <<runtime, attempts, stamp, print, handlerVars, configVars,
                 faults, historyVars>>

\* save writes the row (and the trigger) to D1 first ...
WriteRow ==
  /\ rev < MaxEdits
  /\ rev' = rev + 1
  /\ enabled' \in BOOLEAN  \* or the enabled flag is switched
  /\ UNCHANGED <<rowVars, handlerVars, data, faults, historyVars>>

\* ... and the data to R2 last.
WriteData ==
  /\ rev > 0
  /\ \E d \in Data \ {data} : data' = d
  /\ UNCHANGED <<rowVars, handlerVars, rev, enabled, faults, historyVars>>

Tick ==
  /\ \A h \in Handlers : pc[h] \in Timed => age[h] < MaxStall
  /\ age' = [h \in Handlers |-> IF pc[h] \in Timed THEN age[h] + 1 ELSE age[h]]
  /\ left' = [o \in Occurrences |->
                IF left[o] > LongPast THEN left[o] - 1 ELSE LongPast]
  /\ UNCHANGED <<status, runtime, attempts, stamp, print, pc, occ, loaded, tok,
                 configVars, faults, historyVars>>

Next ==
  \/ \E h \in Handlers : HandlerStep(h) \/ HandlerFault(h) \/ Renew(h)
  \/ Repair \/ WriteRow \/ WriteData \/ Tick

Spec == Init /\ [][Next]_vars

\* The cron fires every minute and repairs first; a live handler moves on.
Fairness ==
  /\ \A h \in Handlers : WF_vars(HandlerStep(h))
  /\ WF_vars(Repair)
  /\ WF_vars(Tick)

FairSpec == Spec /\ Fairness

-----------------------------------------------------------------------------
(* Properties.                                                             *)

\* A synchronous Worker run of an occurrence is started at most once, and
\* nothing else runs for it, whatever handlers crash, stall or overlap:
\* automatic redispatch is suppressed once the outcome may be ambiguous.
WorkerRunsOnce ==
  \A o \in Occurrences :
    (\E r \in ran[o] : r[2] \in WorkerData) => runs[o] = 1

\* All runs of an occurrence, which share its execution id, run the data the
\* claim was made for, though the workflow is edited between them.
SameDefinition ==
  \A o \in Occurrences : \A r \in ran[o] : r[2] = print[o]

\* A lease starts at most one run, though two handlers may come to hold its
\* token: one that took over reads the token back from the row, which may have
\* been taken over once more.
LeaseRunsOnce == \A o \in Occurrences : runs[o] = Cardinality(ran[o])

\* An occurrence is closed as completed only when the lease that closed it
\* did start its run: a stale owner, or one that took over and did not run
\* yet, cannot close it.
CompletedDidRun ==
  \A o \in Occurrences :
    status[o] = "completed" => <<attempts[o], print[o]>> \in ran[o]

\* A Worker run that did start is never recorded as obsolete, as if it could
\* not have happened, nor is its occurrence ever free for another claim.
WorkerNeverDropped ==
  \A o \in Occurrences :
    (\E r \in ran[o] : r[2] \in WorkerData)
      => status[o] \in {"dispatched", "completed", "uncertain"}

\* A lease that still runs is never taken over, although the takeover compares
\* it with a clock value read some statements before.
LiveLeaseKept ==
  [][\A o \in Occurrences :
       attempts[o] > 0 /\ attempts'[o] # attempts[o] => left[o] <= 0]_vars

\* Every claimed occurrence is eventually closed, though handlers die, unless
\* its leases are lost again and again, up to the bound of the model.
EventuallyClosed ==
  \A o \in Occurrences :
    status[o] \in {"claimed", "dispatched"}
      ~> status[o] \in Closed \/ attempts[o] = MaxAttempts

-----------------------------------------------------------------------------
(* The claims implement the ledger: an occurrence is open until its row is *)
(* closed, and sanctioned by the mark that precedes every run.             *)

Outcome(s) == CASE s = "completed" -> "done"
                [] s = "uncertain" -> "unknown"
                [] s = "obsolete"  -> "dropped"
                [] OTHER           -> "open"

Ledger == INSTANCE OccurrenceLedger WITH
  outcome  <- [o \in Occurrences |-> Outcome(status[o])],
  sanction <- [o \in Occurrences |->
                 IF ~ marked[o] THEN "none"
                 ELSE IF print[o] \in WorkerData THEN "worker" ELSE "durable"]

\* What the claims promise, as the ledger states it.
ImplementsLedger == Ledger!LSpec
=============================================================================

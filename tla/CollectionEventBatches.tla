----------------------- MODULE CollectionEventBatches -----------------------
(***************************************************************************)
(* The minute batches of collection events of one batched subscription in  *)
(* Savia Flows: an event is stored with its group, the group is announced  *)
(* by a delayed queue message, and a flush runs the group's events in one  *)
(* or several executions.                                                  *)
(*                                                                         *)
(*   apps/flows/api/src/services/collection-event-batches.ts               *)
(*   apps/flows/api/src/queue.ts             the wake-ups' consumer        *)
(*   apps/flows/api/src/scheduled.ts         the cron's recovery flush     *)
(*   apps/flows/api/src/routes/savia-collection-subscriptions.ts  retries  *)
(*                                                                         *)
(* A D1 statement or batch is one step.  An execution id is a hash of the  *)
(* events first packed under it, and is modelled by that set; {} is NULL.  *)
(* A lease token is the flush that claimed with it.  Deadlines are flags   *)
(* that time changes: due (due_at has passed), wait (next_attempt_at has   *)
(* not) and live (lease_until has not).                                    *)
(***************************************************************************)
EXTENDS Integers, FiniteSets

CONSTANTS
  Events,        \* events of the subscription's collection
  Posts,         \* concurrent admission requests from the host
  Flushes,       \* concurrent flushes
  None,          \* SQL NULL, or no event in hand
  ChunkSize,     \* MAX_SAVIA_COLLECTION_BATCH_EVENTS
  Capacity,      \* MAX_PENDING_SAVIA_COLLECTION_EVENTS_PER_ORG
  MaxAttempts,   \* SAVIA_COLLECTION_BATCH_MAX_ATTEMPTS
  CronRecovers,  \* a cron flushes too; cloud deployments have none
  LastMinute,    \* bound: the last minute in which events arrive
  MaxWakeups,    \* bound: messages of a group, queued or in delivery
  MaxCrashes, MaxErrors, MaxDeferrals,  \* bounds on what goes wrong
  MaxStalls,     \* bound: leases that end under a running flush
  MaxResets,     \* bound: retries by a manager
  Reconfigures   \* the subscription is disabled or changed at some time

ASSUME BatchesAssumption ==
  /\ None \notin Events /\ None \notin Flushes
  /\ IsFiniteSet(Events)
  /\ ChunkSize \in Nat \ {0} /\ Capacity \in Nat /\ MaxAttempts \in Nat \ {0}
  /\ CronRecovers \in BOOLEAN
  /\ LastMinute \in Nat \ {0} /\ MaxWakeups \in Nat \ {0}
  /\ MaxCrashes \in Nat /\ MaxErrors \in Nat /\ MaxDeferrals \in Nat
  /\ MaxStalls \in Nat /\ MaxResets \in Nat /\ Reconfigures \in BOOLEAN

Minutes == 1..LastMinute

\* A group is a chunk of a minute's bucket (bucket_key and chunk_index).
Groups == Minutes \X (0..Cardinality(Events))

NoGroup == <<0, 0>>

VARIABLES
  admission,                    \* savia_collection_admissions.status
  item, group, exec,            \* ..._batch_items: status, group_key,
                                \* execution_id
  gstatus, attempts, lease,     \* ..._batch_groups: the columns
  due, wait, live,              \* and what the time makes of them
  sent, backed,                 \* queued wake-ups: delayed until due_at, or
                                \* beyond next_attempt_at after a failure
  minute, usable,               \* receipt minute; subscription still enabled
                                \* with the configuration of the groups
  ppc, ev, at,                  \* a post: step, event, receipt minute
  fpc, grp, byQueue, tries,     \* a flush: step, group, who started it,
                                \* attempt, and of the items read those not
  auth, bare, chunk,            \* rejected, those without an execution id,
                                \* those being submitted
  reset,                        \* groups a manager reset, wake-up to be sent
  acked, ran,                   \* history: events acknowledged to the host;
                                \* events of the first run of an id
  crashes, errors, deferrals, stalls, resets

admissionVars == <<admission, acked>>
itemVars  == <<item, group, exec>>
groupVars == <<gstatus, attempts, lease, due, wait, live>>
queueVars == <<sent, backed>>
envVars   == <<minute, usable>>
postVars  == <<ppc, ev, at>>
workVars  == <<auth, bare, chunk>>
flushVars == <<fpc, grp, byQueue, tries, workVars>>
boundVars == <<crashes, errors, deferrals, stalls, resets>>
vars == <<admissionVars, itemVars, groupVars, queueVars, envVars, postVars,
          flushVars, reset, ran, boundVars>>

PostPhase  == {"idle", "store", "look", "adopt", "send", "confirm"}
FlushPhase == {"idle", "claim", "read", "authorize", "reread", "again",
               "pack", "submit", "run", "mark", "count", "finish", "skip", "retry",
               "defer"}

TypeOK ==
  /\ admission \in [Events -> {"none", "wakeup_pending", "queued", "accepted",
                               "skipped"}]
  /\ item \in [Events -> {"none", "pending", "accepted", "skipped"}]
  /\ group \in [Events -> Groups \cup {NoGroup}]
  /\ exec \in [Events -> SUBSET Events]
  /\ gstatus \in [Groups -> {"absent", "pending", "processing", "completed",
                             "failed"}]
  /\ attempts \in [Groups -> 0..MaxAttempts]
  /\ lease \in [Groups -> Flushes \cup {None}]
  /\ due \in [Groups -> BOOLEAN]
  /\ live \in [Groups -> BOOLEAN]
  /\ wait \in [Groups -> BOOLEAN]
  /\ sent \in [Groups -> Nat]
  /\ backed \in [Groups -> Nat]
  /\ minute \in 1..LastMinute + 1
  /\ usable \in BOOLEAN
  /\ ppc \in [Posts -> PostPhase]
  /\ ev \in [Posts -> Events \cup {None}]
  /\ at \in [Posts -> 0..LastMinute]
  /\ fpc \in [Flushes -> FlushPhase]
  /\ grp \in [Flushes -> Groups \cup {NoGroup}]
  /\ byQueue \in [Flushes -> BOOLEAN]
  /\ tries \in [Flushes -> 0..MaxAttempts]
  /\ auth \in [Flushes -> SUBSET Events]
  /\ bare \in [Flushes -> SUBSET Events]
  /\ chunk \in [Flushes -> SUBSET Events]
  /\ reset \in SUBSET Groups
  /\ acked \in SUBSET Events
  /\ ran \in [SUBSET Events -> SUBSET Events]
  /\ crashes \in 0..MaxCrashes
  /\ errors \in 0..MaxErrors
  /\ deferrals \in 0..MaxDeferrals
  /\ stalls \in 0..MaxStalls
  /\ resets \in 0..MaxResets

Init ==
  /\ admission = [e \in Events |-> "none"]
  /\ item = [e \in Events |-> "none"]
  /\ group = [e \in Events |-> NoGroup]
  /\ exec = [e \in Events |-> {}]
  /\ gstatus = [g \in Groups |-> "absent"]
  /\ attempts = [g \in Groups |-> 0]
  /\ lease = [g \in Groups |-> None]
  /\ due = [g \in Groups |-> FALSE]
  /\ live = [g \in Groups |-> FALSE]
  /\ wait = [g \in Groups |-> FALSE]
  /\ sent = [g \in Groups |-> 0]
  /\ backed = [g \in Groups |-> 0]
  /\ minute = 1
  /\ usable = TRUE
  /\ ppc = [p \in Posts |-> "idle"]
  /\ ev = [p \in Posts |-> None]
  /\ at = [p \in Posts |-> 0]
  /\ fpc = [f \in Flushes |-> "idle"]
  /\ grp = [f \in Flushes |-> NoGroup]
  /\ byQueue = [f \in Flushes |-> FALSE]
  /\ tries = [f \in Flushes |-> 0]
  /\ auth = [f \in Flushes |-> {}]
  /\ bare = [f \in Flushes |-> {}]
  /\ chunk = [f \in Flushes |-> {}]
  /\ reset = {}
  /\ acked = {}
  /\ ran = [X \in SUBSET Events |-> {}]
  /\ crashes = 0 /\ errors = 0 /\ deferrals = 0 /\ stalls = 0
  /\ resets = 0

Members(g) == {e \in Events : group[e] = g}
Pending(g) == {e \in Members(g) : item[e] = "pending"}

\* Definitions whose names end in a word after an underscore are mutated forms
\* of the ones that follow them; no specification uses them.

-----------------------------------------------------------------------------
(* enqueueSaviaCollectionEventBatch, called by a request of the host.      *)

PostGoto(p, phase) == ppc' = [ppc EXCEPT ![p] = phase]

PostDone(p) ==
  /\ PostGoto(p, "idle")
  /\ ev' = [ev EXCEPT ![p] = None]
  /\ at' = [at EXCEPT ![p] = 0]

\* The request reads the subscription and its clock; both may be outdated when
\* it stores.
Receive(p) ==
  /\ ppc[p] = "idle"
  /\ minute \in Minutes /\ usable
  /\ \E e \in Events : ev' = [ev EXCEPT ![p] = e]
  /\ at' = [at EXCEPT ![p] = minute]
  /\ PostGoto(p, "store")
  /\ UNCHANGED <<admissionVars, itemVars, groupVars, queueVars, envVars,
                 flushVars, reset, ran, boundVars>>

\* The organization's retained backlog.
Backlog == {e \in Events : /\ item[e] = "pending"
                           /\ gstatus[group[e]] \in
                                {"pending", "processing", "failed"}}

HasCapacity_OffByOne == Cardinality(Backlog) <= Capacity

\* WHERE ... < MAX_PENDING_SAVIA_COLLECTION_EVENTS_PER_ORG
HasCapacity == Cardinality(Backlog) < Capacity

ChunkOf_Pending(m) ==
  <<m, Cardinality({e \in Events : item[e] = "pending" /\ group[e][1] = m})
         \div ChunkSize>>

\* The chunk the next item of a minute goes to: COUNT(bucket) / 50.
ChunkOf(m) ==
  <<m, Cardinality({e \in Events : item[e] # "none" /\ group[e][1] = m})
         \div ChunkSize>>

\* One D1 batch: admission, group and item, each INSERT OR IGNORE, the last
\* two only if the admission is queued or waits for its wake-up.
Store(p) ==
  LET e == ev[p]
      g == ChunkOf(at[p])
      admitted == IF admission[e] = "none" /\ HasCapacity
                  THEN "wakeup_pending" ELSE admission[e]
      open == admitted \in {"queued", "wakeup_pending"}
  IN
  /\ ppc[p] = "store"
  /\ admission' = [admission EXCEPT ![e] = admitted]
  /\ gstatus' = IF open /\ gstatus[g] = "absent"
                THEN [gstatus EXCEPT ![g] = "pending"] ELSE gstatus
  /\ IF open /\ item[e] = "none"
     THEN /\ item' = [item EXCEPT ![e] = "pending"]
          /\ group' = [group EXCEPT ![e] = g]
     ELSE UNCHANGED <<item, group>>
  /\ PostGoto(p, "look")
  /\ UNCHANGED <<acked, exec, attempts, lease, due, wait, live,
                 queueVars, envVars,
                 ev, at, flushVars, reset, ran, boundVars>>

Admitted_Always(e) == TRUE

\* There is an admission; without one there was no capacity, and the host is
\* told to retry.
Admitted(e) == admission[e] # "none"

\* The SELECTs of the admission, of the item and of a queued admission in its
\* group.  Any other admission is answered as it is.
Look(p) ==
  LET e == ev[p] IN
  /\ ppc[p] = "look"
  /\ IF admission[e] = "wakeup_pending"
     THEN /\ PostGoto(p, IF \E f \in Members(group[e]) : admission[f] = "queued"
                         THEN "adopt" ELSE "send")
          /\ UNCHANGED <<ev, at, acked>>
     ELSE /\ acked' = IF Admitted(e) THEN acked \cup {e} ELSE acked
          /\ PostDone(p)
  /\ UNCHANGED <<admission, itemVars, groupVars, queueVars, envVars, flushVars,
                 reset, ran, boundVars>>

\* Another event of the group is queued: so is this one.
Adopt(p) ==
  LET e == ev[p] IN
  /\ ppc[p] = "adopt"
  /\ admission' = [admission EXCEPT ![e] = IF @ = "wakeup_pending"
                                           THEN "queued" ELSE @]
  /\ acked' = acked \cup {e}
  /\ PostDone(p)
  /\ UNCHANGED <<itemVars, groupVars, queueVars, envVars, flushVars, reset,
                 ran, boundVars>>

\* sendSaviaCollectionBatchWakeup.
Outstanding(g) ==
  sent[g] + backed[g] + Cardinality({f \in Flushes : byQueue[f] /\ grp[f] = g})

Announce(g) ==
  /\ Outstanding(g) < MaxWakeups
  /\ sent' = [sent EXCEPT ![g] = @ + 1]
  /\ UNCHANGED backed

SendWakeup(p) ==
  /\ ppc[p] = "send"
  /\ Announce(group[ev[p]])
  /\ PostGoto(p, "confirm")
  /\ UNCHANGED <<admissionVars, itemVars, groupVars, envVars, ev, at,
                 flushVars, reset, ran, boundVars>>

\* All of the group's admissions that wait for a wake-up become queued.
Confirm(p) ==
  LET e == ev[p] IN
  /\ ppc[p] = "confirm"
  /\ admission' = [f \in Events |->
                     IF /\ f \in Members(group[e])
                        /\ admission[f] = "wakeup_pending"
                     THEN "queued" ELSE admission[f]]
  /\ acked' = acked \cup {e}
  /\ PostDone(p)
  /\ UNCHANGED <<itemVars, groupVars, queueVars, envVars, flushVars, reset,
                 ran, boundVars>>

\* The queue or a statement fails: the host gets an error and delivers again.
PostError(p) ==
  /\ ppc[p] # "idle"
  /\ errors < MaxErrors
  /\ errors' = errors + 1
  /\ PostDone(p)
  /\ UNCHANGED <<admissionVars, itemVars, groupVars, queueVars, envVars,
                 flushVars, reset, ran, crashes, deferrals, stalls, resets>>

PostStep(p) ==
  \/ Receive(p) \/ Store(p) \/ Look(p) \/ Adopt(p) \/ SendWakeup(p)
  \/ Confirm(p)

-----------------------------------------------------------------------------
(* flushSaviaCollectionEventBatch.                                         *)

Goto(f, phase) == fpc' = [fpc EXCEPT ![f] = phase]

Leave(f) ==
  /\ Goto(f, "idle")
  /\ grp' = [grp EXCEPT ![f] = NoGroup]
  /\ byQueue' = [byQueue EXCEPT ![f] = FALSE]
  /\ tries' = [tries EXCEPT ![f] = 0]
  /\ auth' = [auth EXCEPT ![f] = {}]
  /\ bare' = [bare EXCEPT ![f] = {}]
  /\ chunk' = [chunk EXCEPT ![f] = {}]

\* The first UPDATE: interrupted groups without attempts left have failed.
Exhausted == {g \in Groups : /\ gstatus[g] = "processing" /\ ~ live[g]
                             /\ attempts[g] >= MaxAttempts}

Cleanup_None == UNCHANGED <<gstatus, lease>>

Cleanup ==
  /\ gstatus' = [g \in Groups |-> IF g \in Exhausted THEN "failed"
                                                     ELSE gstatus[g]]
  /\ lease' = [g \in Groups |-> IF g \in Exhausted THEN None ELSE lease[g]]

\* A wake-up of g is delivered.  While executions are paused it is put back
\* unused, as if it had not been delivered yet.
Wake(f, g) ==
  /\ fpc[f] = "idle"
  /\ due[g]
  /\ \/ /\ sent[g] > 0
        /\ sent' = [sent EXCEPT ![g] = @ - 1]
        /\ UNCHANGED backed
     \/ /\ backed[g] > 0 /\ ~ wait[g]
        /\ backed' = [backed EXCEPT ![g] = @ - 1]
        /\ UNCHANGED sent
  /\ Cleanup
  /\ grp' = [grp EXCEPT ![f] = g]
  /\ byQueue' = [byQueue EXCEPT ![f] = TRUE]
  /\ Goto(f, "claim")
  /\ UNCHANGED <<admissionVars, itemVars, attempts, due, wait, live, envVars,
                 postVars, tries, workVars, reset, ran, boundVars>>

\* The cron flushes whatever is due.
Cron(f) ==
  /\ CronRecovers
  /\ fpc[f] = "idle"
  /\ Cleanup
  /\ Goto(f, "claim")
  /\ UNCHANGED <<admissionVars, itemVars, attempts, due, wait, live,
                 queueVars, envVars, postVars, grp, byQueue, tries, workVars, reset, ran,
                 boundVars>>

Claimable(g) ==
  /\ attempts[g] < MaxAttempts
  /\ \/ gstatus[g] = "pending" /\ due[g] /\ ~ wait[g]
     \/ gstatus[g] = "processing" /\ ~ live[g]

\* One group is leased: the oldest, or the wake-up's.  Without one the flush
\* is over, and its wake-up is acknowledged.
Claim(f) ==
  LET wanted == {g \in Groups : Claimable(g) /\ grp[f] \in {g, NoGroup}} IN
  /\ fpc[f] = "claim"
  /\ \/ \E g \in wanted :
          /\ gstatus' = [gstatus EXCEPT ![g] = "processing"]
          /\ attempts' = [attempts EXCEPT ![g] = @ + 1]
          /\ lease' = [lease EXCEPT ![g] = f]
          /\ live' = [live EXCEPT ![g] = TRUE]
          /\ grp' = [grp EXCEPT ![f] = g]
          /\ tries' = [tries EXCEPT ![f] = attempts[g] + 1]
          /\ Goto(f, "read")
          /\ UNCHANGED <<byQueue, workVars>>
     \/ /\ wanted = {}
        /\ Leave(f)
        /\ UNCHANGED <<gstatus, attempts, lease, live>>
  /\ UNCHANGED <<admissionVars, itemVars, due, wait, queueVars, envVars, postVars,
                 reset, ran, boundVars>>

Holds_AnyToken(f) == gstatus[grp[f]] = "processing"

\* The lease condition of a statement: its row is this flush's, and was not
\* expired when the statement's clock was read.  The condition may hold
\* whenever Holds does and may fail whenever Lost does.
Holds(f) == gstatus[grp[f]] = "processing" /\ lease[grp[f]] = f

Lost(f)  == ~ Holds(f) \/ ~ live[grp[f]]

Decide_Again(S, s) ==
  /\ item' = [e \in Events |-> IF e \in S THEN s ELSE item[e]]
  /\ admission' = [e \in Events |-> IF e \in S /\ admission[e] = "queued"
                                    THEN s ELSE admission[e]]

\* An item leaves the pending ones together with its queued admission.
Decide(S, s) ==
  /\ item' = [e \in Events |-> IF e \in S /\ item[e] = "pending"
                               THEN s ELSE item[e]]
  /\ admission' = [e \in Events |-> IF e \in S /\ admission[e] = "queued"
                                    THEN s ELSE admission[e]]

\* markBatchItem(e, s): it throws if it changes no item.
MarkItem(f, e, s) ==
  /\ Holds(f) /\ item[e] = "pending"
  /\ Decide({e}, s)

MarkFails(f, e) == Lost(f) \/ item[e] # "pending"

\* The subscription and the workflow are read, then the items of the group.
Read(f) ==
  /\ fpc[f] = "read"
  /\ IF usable
     THEN /\ auth' = [auth EXCEPT ![f] = Pending(grp[f])]
          /\ bare' = [bare EXCEPT ![f] = {e \in Pending(grp[f]) : exec[e] = {}}]
          /\ Goto(f, "authorize")
     ELSE Goto(f, "skip") /\ UNCHANGED <<auth, bare>>
  /\ UNCHANGED <<admissionVars, itemVars, groupVars, queueVars, envVars,
                 postVars, grp, byQueue, tries, chunk, reset, ran, boundVars>>

\* The host, or a filter, rejects an item for good.
Reject(f) ==
  \E e \in auth[f] :
    \/ /\ MarkItem(f, e, "skipped")
       /\ auth' = [auth EXCEPT ![f] = @ \ {e}]
       /\ UNCHANGED fpc
    \/ /\ MarkFails(f, e)
       /\ Goto(f, "retry")
       /\ UNCHANGED <<admission, item, auth>>

\* Items are rejected one by one; those that are authorized leave no trace.
\* It is done again if the filters or the principal were changed meanwhile.
Authorize(f) ==
  /\ \/ fpc[f] \in {"authorize", "again"} /\ Reject(f)
     \/ /\ fpc[f] = "authorize"
        /\ Goto(f, "reread")
        /\ UNCHANGED <<admission, item, auth>>
     \/ /\ fpc[f] = "again"
        /\ Goto(f, "pack")
        /\ UNCHANGED <<admission, item, auth>>
  /\ UNCHANGED <<acked, group, exec, groupVars, queueVars, envVars, postVars,
                 grp, byQueue, tries, bare, chunk, reset, ran, boundVars>>

\* The subscription is read again before any run.
Reread(f) ==
  /\ fpc[f] = "reread"
  /\ Goto(f, IF usable THEN "again" ELSE "skip")
  /\ UNCHANGED <<admissionVars, itemVars, groupVars, queueVars, envVars,
                 postVars, grp, byQueue, tries, workVars, reset, ran,
                 boundVars>>

\* persistExecutionAssignment: the id is stored where none was, read back, and
\* refused if an event of the chunk has another one.
Assign(f, S) ==
  \/ /\ Holds(f)
     /\ exec' = [e \in Events |->
                   IF e \in S /\ item[e] = "pending" /\ exec[e] = {}
                   THEN S ELSE exec[e]]
     /\ IF \A e \in S : exec'[e] = S
        THEN bare' = [bare EXCEPT ![f] = @ \ S] /\ UNCHANGED fpc
        ELSE Goto(f, "retry") /\ UNCHANGED bare
  \/ /\ Lost(f)
     /\ Goto(f, "retry")
     /\ UNCHANGED <<exec, bare>>

\* packAuthorizedEvents: chunks by size, each assigned before any is run.
Pack(f) ==
  LET unassigned == auth[f] \cap bare[f] IN
  /\ fpc[f] = "pack"
  /\ \/ /\ unassigned = {}
        /\ Goto(f, "submit")
        /\ UNCHANGED <<exec, bare>>
     \/ \E S \in (SUBSET unassigned) \ {{}} :
          Cardinality(S) <= ChunkSize /\ Assign(f, S)
  /\ UNCHANGED <<admissionVars, item, group, groupVars, queueVars, envVars,
                 postVars, grp, byQueue, tries, auth, chunk, reset, ran,
                 boundVars>>

\* The next chunk: renewBatchLease ...
Submit(f) ==
  /\ fpc[f] = "submit"
  /\ \/ /\ auth[f] = {}
        /\ Goto(f, "count")
        /\ UNCHANGED <<live, chunk>>
     \/ \E X \in {exec[e] : e \in auth[f]} :
          /\ Holds(f)
          /\ live' = [live EXCEPT ![grp[f]] = TRUE]
          /\ chunk' = [chunk EXCEPT ![f] = {e \in auth[f] : exec[e] = X}]
          /\ Goto(f, "run")
     \/ /\ auth[f] # {} /\ Lost(f)
        /\ Goto(f, "retry")
        /\ UNCHANGED <<live, chunk>>
  /\ UNCHANGED <<admissionVars, itemVars, gstatus, attempts, lease, due, wait,
                 queueVars, envVars, postVars, grp, byQueue, tries, auth,
                 bare, reset, ran, boundVars>>

Started_Repacked(f) ==
  ran' = IF ran[chunk[f]] = {} THEN [ran EXCEPT ![chunk[f]] = chunk[f]] ELSE ran

\* WorkflowExecutor.execute: the first run of an execution id is the run, a
\* repeated submission finds it.
Started(f) ==
  LET X == exec[CHOOSE e \in chunk[f] : TRUE] IN
  ran' = IF ran[X] = {} THEN [ran EXCEPT ![X] = chunk[f]] ELSE ran

\* ... then the run.
Run(f) ==
  /\ fpc[f] = "run"
  /\ Started(f)
  /\ Goto(f, "mark")
  /\ UNCHANGED <<admissionVars, itemVars, groupVars, queueVars, envVars,
                 postVars, grp, byQueue, tries, workVars, reset, boundVars>>

RunFails_Ignored(f) ==
  /\ fpc[f] = "run"
  /\ errors < MaxErrors
  /\ errors' = errors + 1
  /\ Goto(f, "mark")
  /\ UNCHANGED <<admissionVars, itemVars, groupVars, queueVars, envVars,
                 postVars, grp, byQueue, tries, workVars, reset, ran, crashes,
                 deferrals, stalls, resets>>

\* The submission fails, before or after the run exists, or the plan, the
\* quota or a pause refuses it.
RunFails(f) ==
  /\ fpc[f] = "run"
  /\ \/ /\ errors < MaxErrors
        /\ errors' = errors + 1
        /\ Started(f) \/ UNCHANGED ran
        /\ Goto(f, "retry")
        /\ UNCHANGED deferrals
     \/ /\ deferrals < MaxDeferrals
        /\ deferrals' = deferrals + 1
        /\ Goto(f, "defer")
        /\ UNCHANGED <<ran, errors>>
  /\ UNCHANGED <<admissionVars, itemVars, groupVars, queueVars, envVars,
                 postVars, grp, byQueue, tries, workVars, reset, crashes, stalls,
                 resets>>

\* Each event of the chunk is marked accepted.
Mark(f) ==
  /\ fpc[f] = "mark"
  /\ \/ /\ chunk[f] = {}
        /\ Goto(f, "submit")
        /\ UNCHANGED <<admission, item, auth, chunk>>
     \/ \E e \in chunk[f] :
          \/ /\ MarkItem(f, e, "accepted")
             /\ auth' = [auth EXCEPT ![f] = @ \ {e}]
             /\ chunk' = [chunk EXCEPT ![f] = @ \ {e}]
             /\ UNCHANGED fpc
          \/ /\ MarkFails(f, e)
             /\ Goto(f, "retry")
             /\ UNCHANGED <<admission, item, auth, chunk>>
  /\ UNCHANGED <<acked, group, exec, groupVars, queueVars, envVars, postVars,
                 grp, byQueue, tries, bare, reset, ran, boundVars>>

\* SELECT COUNT of the pending items: any sends the group to another attempt.
Count(f) ==
  /\ fpc[f] = "count"
  /\ Goto(f, IF Pending(grp[f]) = {} THEN "finish" ELSE "retry")
  /\ UNCHANGED <<admissionVars, itemVars, groupVars, queueVars, envVars,
                 postVars, grp, byQueue, tries, workVars, reset, ran,
                 boundVars>>

CloseGroup(g, s) ==
  /\ gstatus' = [gstatus EXCEPT ![g] = s]
  /\ lease' = [lease EXCEPT ![g] = None]
  /\ live' = [live EXCEPT ![g] = FALSE]

\* The completing UPDATE.
Finish(f) ==
  /\ fpc[f] = "finish"
  /\ \/ /\ Holds(f)
        /\ CloseGroup(grp[f], "completed")
        /\ Leave(f)
     \/ /\ Lost(f)
        /\ Goto(f, "retry")
        /\ UNCHANGED <<gstatus, lease, live, grp, byQueue, tries, workVars>>
  /\ UNCHANGED <<admissionVars, itemVars, attempts, due, wait, queueVars,
                 envVars, postVars, reset, ran, boundVars>>

\* finishGroupAsSkipped: items, admissions and group in one batch.
Skip(f) ==
  /\ fpc[f] = "skip"
  /\ \/ /\ Holds(f)
        /\ Decide(Members(grp[f]), "skipped")
        /\ CloseGroup(grp[f], "completed")
        /\ Leave(f)
     \/ /\ Lost(f)
        /\ Goto(f, "retry")
        /\ UNCHANGED <<admission, item, gstatus, lease, live, grp, byQueue,
                       tries, workVars>>
  /\ UNCHANGED <<acked, group, exec, attempts, due, wait, queueVars, envVars,
                 postVars, reset, ran, boundVars>>

\* The queue delivers the wake-up in hand again: after a delay at least as
\* long as the group's own if the attempt failed, and a shorter one else.
Redeliver(f, afterBackoff) ==
  LET g == grp[f] IN
  IF ~ byQueue[f] THEN UNCHANGED queueVars
  ELSE IF afterBackoff
       THEN backed' = [backed EXCEPT ![g] = @ + 1] /\ UNCHANGED sent
       ELSE sent' = [sent EXCEPT ![g] = @ + 1] /\ UNCHANGED backed

\* The catch block: the group is pending again after a delay, or failed.  A
\* deferred attempt does not count.
Retry(f) ==
  LET g == grp[f]
      deferred == fpc[f] = "defer"
      terminal == tries[f] >= MaxAttempts /\ ~ deferred
  IN
  /\ fpc[f] \in {"retry", "defer"}
  /\ \/ /\ Holds(f)
        /\ CloseGroup(g, IF terminal THEN "failed" ELSE "pending")
        /\ attempts' = [attempts EXCEPT ![g] = IF deferred THEN @ - 1 ELSE @]
        /\ wait' = [wait EXCEPT ![g] = ~ terminal]
     \/ /\ Lost(f)
        /\ UNCHANGED <<gstatus, lease, live, attempts, wait>>
  /\ IF terminal THEN UNCHANGED queueVars ELSE Redeliver(f, ~ deferred)
  /\ Leave(f)
  /\ UNCHANGED <<admissionVars, itemVars, due, envVars, postVars, reset, ran,
                 boundVars>>

\* Any other step of a flush throws: the host does not answer, a read fails.
FlushError(f) ==
  /\ fpc[f] \in {"read", "authorize", "reread", "again", "pack", "submit"}
  /\ errors < MaxErrors
  /\ errors' = errors + 1
  /\ Goto(f, "retry")
  /\ UNCHANGED <<admissionVars, itemVars, groupVars, queueVars, envVars,
                 postVars, grp, byQueue, tries, workVars, reset, ran, crashes,
                 deferrals, stalls, resets>>

\* The isolate dies, or a statement outside the try block throws: the group
\* stays leased and the wake-up is delivered again before the lease is over.
FlushCrash(f) ==
  /\ fpc[f] # "idle"
  /\ crashes < MaxCrashes
  /\ crashes' = crashes + 1
  /\ Redeliver(f, FALSE)
  /\ Leave(f)
  /\ UNCHANGED <<admissionVars, itemVars, groupVars, envVars, postVars, reset,
                 ran, errors, deferrals, stalls, resets>>

FlushStep(f) ==
  \/ Claim(f) \/ Read(f) \/ Authorize(f) \/ Reread(f) \/ Pack(f)
  \/ Submit(f) \/ Run(f) \/ Mark(f) \/ Count(f) \/ Finish(f) \/ Skip(f)
  \/ Retry(f)

-----------------------------------------------------------------------------
(* A manager who retries failed groups, the configuration, and time.       *)

\* The failed groups become pending ...
ResetFailed ==
  LET failed == {g \in Groups : gstatus[g] = "failed"} IN
  /\ usable
  /\ failed # {} /\ resets < MaxResets
  /\ resets' = resets + 1
  /\ gstatus' = [g \in Groups |-> IF g \in failed THEN "pending"
                                                  ELSE gstatus[g]]
  /\ attempts' = [g \in Groups |-> IF g \in failed THEN 0 ELSE attempts[g]]
  /\ due' = [g \in Groups |-> g \in failed \/ due[g]]
  /\ wait' = [g \in Groups |-> g \notin failed /\ wait[g]]
  /\ reset' = reset \cup failed
  /\ UNCHANGED <<admissionVars, itemVars, lease, live, queueVars, envVars,
                 postVars, flushVars, ran, crashes, errors, deferrals,
                 stalls>>

\* ... and get their wake-ups one by one, or fail again without.
SendReset(g) ==
  /\ g \in reset
  /\ reset' = reset \ {g}
  /\ \/ Announce(g) /\ UNCHANGED <<gstatus, errors>>
     \/ /\ errors < MaxErrors
        /\ errors' = errors + 1
        /\ gstatus' = [gstatus EXCEPT ![g] = IF @ = "pending" THEN "failed"
                                                              ELSE @]
        /\ UNCHANGED queueVars
  /\ UNCHANGED <<admissionVars, itemVars, attempts, lease, due, wait, live,
                 envVars, postVars, flushVars, ran, crashes, deferrals, stalls,
                 resets>>

\* The subscription is disabled or configured anew.
Reconfigure ==
  /\ Reconfigures
  /\ usable
  /\ usable' = FALSE
  /\ UNCHANGED <<admissionVars, itemVars, groupVars, queueVars, minute,
                 postVars, flushVars, reset, ran, boundVars>>

NextMinute ==
  /\ minute <= LastMinute
  /\ minute' = minute + 1
  /\ UNCHANGED <<admissionVars, itemVars, groupVars, queueVars, usable,
                 postVars, flushVars, reset, ran, boundVars>>

\* A group is due sixty seconds after its first receipt: its minute is over.
BecomeDue(g) ==
  /\ gstatus[g] # "absent" /\ ~ due[g] /\ minute > g[1]
  /\ due' = [due EXCEPT ![g] = TRUE]
  /\ UNCHANGED <<admissionVars, itemVars, gstatus, attempts, lease, wait, live,
                 queueVars, envVars, postVars, flushVars, reset, ran,
                 boundVars>>

\* next_attempt_at passes.
WaitOver(g) ==
  /\ wait[g]
  /\ wait' = [wait EXCEPT ![g] = FALSE]
  /\ UNCHANGED <<admissionVars, itemVars, gstatus, attempts, lease, due, live,
                 queueVars, envVars, postVars, flushVars, reset, ran,
                 boundVars>>

\* lease_until passes, though its flush may still run.
Expire(g) ==
  LET running == \E f \in Flushes : lease[g] = f /\ grp[f] = g IN
  /\ live[g]
  /\ running => stalls < MaxStalls
  /\ live' = [live EXCEPT ![g] = FALSE]
  /\ stalls' = IF running THEN stalls + 1 ELSE stalls
  /\ UNCHANGED <<admissionVars, itemVars, gstatus, attempts, lease, due, wait,
                 queueVars, envVars, postVars, flushVars, reset, ran, crashes,
                 errors, deferrals, resets>>

TimeStep == NextMinute \/ \E g \in Groups : BecomeDue(g) \/ WaitOver(g)

Next ==
  \/ \E p \in Posts : PostStep(p) \/ PostError(p)
  \/ \E f \in Flushes : \/ \E g \in Groups : Wake(f, g)
                        \/ Cron(f) \/ FlushStep(f)
                        \/ RunFails(f) \/ FlushError(f) \/ FlushCrash(f)
  \/ ResetFailed \/ \E g \in Groups : SendReset(g) \/ Expire(g)
  \/ Reconfigure \/ TimeStep

Spec == Init /\ [][Next]_vars

\* Requests and flushes that run go on, queued messages are delivered, the
\* cron fires every minute where there is one, and time passes; that a lease
\* ends while its flush goes on is possible but not bound to happen.
Fairness ==
  /\ \A p \in Posts : WF_vars(Store(p) \/ Look(p) \/ Adopt(p) \/ SendWakeup(p)
                              \/ Confirm(p))
  /\ \A f \in Flushes :
       /\ WF_vars(FlushStep(f))
       /\ WF_vars(Cron(f) \/ \E g \in Groups : Wake(f, g))
  /\ WF_vars(\E g \in Groups :
               Expire(g) /\ \A f \in Flushes : lease[g] = f => grp[f] # g)
  /\ WF_vars(\E g \in Groups : SendReset(g))
  /\ WF_vars(TimeStep)

FairSpec == Spec /\ Fairness

-----------------------------------------------------------------------------
(* Properties.                                                             *)

\* Execution ids are frozen before submission: whatever crashes, expires or
\* is submitted again, no event is run under two ids.
RunsOnce ==
  \A X, Y \in SUBSET Events : X # Y => ran[X] \cap ran[Y] = {}

\* What is marked accepted was part of the run of its id, also when an
\* earlier attempt started that run with other events of the chunk.
AcceptedRan ==
  \A e \in Events : item[e] = "accepted" => e \in ran[exec[e]]

\* No chunk outgrows the limit, though posts count the bucket concurrently.
ChunksBounded ==
  \A g \in Groups : Cardinality(Members(g)) <= ChunkSize

\* The retained backlog of the organization stays within its limit, failed
\* groups included, whatever managers retry.
BacklogBounded == Cardinality(Backlog) <= Capacity

\* The host is told that an event is admitted only when a receipt of it is
\* durable and its group is announced.
AckedIsKept ==
  \A e \in acked :
    /\ item[e] # "none" /\ gstatus[group[e]] # "absent"
    /\ admission[e] \in {"queued", "accepted", "skipped"}

\* An item is decided, or given its id, only by the flush that holds the lease
\* of its group, and for good.
DecidedUnderLease ==
  [][\A e \in Events :
       /\ item[e] = "pending" /\ item'[e] # "pending" =>
            \E f \in Flushes : lease[group[e]] = f /\ fpc[f] \in
                                 {"authorize", "again", "mark", "skip"}
       /\ item[e] \in {"accepted", "skipped"} => item'[e] = item[e]
       /\ exec[e] # {} => exec'[e] = exec[e]]_vars

\* An admitted event is eventually decided, unless its group is closed: as
\* failed, for a manager to retry, or as completed.
EventsHandled ==
  \A e \in Events :
    e \in acked /\ item[e] = "pending"
      ~> item[e] # "pending" \/ gstatus[group[e]] \in {"completed", "failed"}

\* The deliveries of the subscription: its events, each in a receipt.
DeliveryForm == [e \in Events |-> IF item[e] = "none" THEN "none" ELSE "receipt"]

DeliveryOutcome ==
  [e \in Events |-> IF item[e] \in {"accepted", "skipped"} THEN item[e] ELSE "open"]

DeliveryBegun == UNION {ran[X] : X \in SUBSET Events}

Delivery == INSTANCE EventDelivery WITH
  Deliveries <- Events, form <- DeliveryForm, outcome <- DeliveryOutcome,
  begun <- DeliveryBegun, told <- acked

\* An event has one durable receipt, is accepted only with a run, and its
\* outcome is final, whichever flush of its group is overtaken: as the abstract
\* delivery has it.
ImplementsDelivery == Delivery!DSpec

\* Grouping is not a suppression mode: an event that the host was told is
\* admitted does not stay behind in a group that is completed.
NoneLeftBehind ==
  \A e \in acked : item[e] = "pending" => gstatus[group[e]] # "completed"
=============================================================================

---------------------- MODULE CollectionEventAdmissions ----------------------
(***************************************************************************)
(* The admission of one collection event by Savia Flows: what a request of *)
(* the host's outbox does for each subscription of the tenant.             *)
(*                                                                         *)
(*   apps/flows/api/src/routes/savia-collection-events.ts  the handler     *)
(*   apps/flows/api/src/routes/savia-collection-trigger.ts  the filters    *)
(*   apps/api/src/savia-flows/event-dispatch.ts  the envelope that is sent *)
(*                                                                         *)
(* A subscription is either inline (the request authorizes the event and   *)
(* starts the run) or batched (the request stores a receipt that           *)
(* CollectionEventBatches takes from there).  Requests for the same event  *)
(* overlap when a pass of the outbox outlives its lease; managers change   *)
(* the subscriptions meanwhile.  Each D1 statement is one step; the        *)
(* statements of the batch receipt, which that module has in detail, are   *)
(* one step here.                                                          *)
(***************************************************************************)
EXTENDS Integers

CONSTANTS
  Subscriptions,   \* collection triggers of the tenant, by workflow
  Posts,           \* requests
  None,            \* no subscription in hand
  ChangedFields,   \* the fields that the event changed
  Watched,         \* config.watchedFields of each subscription
  FirstMode,       \* the delivery mode each starts with
  MaxChanges,      \* bound: changes of subscriptions
  MaxErrors        \* bound: failed calls and dying requests

Mode == {"inline", "batch"}

ASSUME AdmissionsAssumption ==
  /\ None \notin Subscriptions
  /\ FirstMode \in [Subscriptions -> Mode]
  /\ MaxChanges \in Nat /\ MaxErrors \in Nat

VARIABLES
  admission, stale,   \* savia_collection_admissions: status, and whether
                      \* updated_at is more than a minute old
  mode, newer,        \* subscription: mode; created_at is after the event
  active,
  pc, left, cur,      \* a request: step, subscriptions to visit, one in hand
  view,               \* and what the first SELECT returned of them
  delivered,          \* the host was answered that the event is admitted
  batched, started,   \* history: a batch receipt exists; a run was started
  changes, errors

admissionVars == <<admission, stale, batched>>
configVars    == <<mode, newer, active, changes>>
postVars      == <<pc, left, cur, view>>
vars == <<admissionVars, configVars, postVars, delivered, started, errors>>

Decided == {"queued", "accepted", "skipped"}
Phase   == {"idle", "visit", "enqueue", "insert", "look", "claim", "authorize",
            "reread", "run", "accept", "skip", "release"}

\* What a request saw of a subscription; unseen ones have a default.
Views  == [mode : Mode, newer : BOOLEAN]
Unseen == [mode |-> "inline", newer |-> FALSE]

TypeOK ==
  /\ admission \in [Subscriptions -> {"none", "pending", "processing",
                                      "wakeup_pending"} \cup Decided]
  /\ stale \in [Subscriptions -> BOOLEAN]
  /\ mode \in [Subscriptions -> Mode]
  /\ newer \in [Subscriptions -> BOOLEAN]
  /\ active \in [Subscriptions -> BOOLEAN]
  /\ pc \in [Posts -> Phase]
  /\ left \in [Posts -> SUBSET Subscriptions]
  /\ cur \in [Posts -> Subscriptions \cup {None}]
  /\ view \in [Posts -> [Subscriptions -> Views]]
  /\ delivered \in BOOLEAN
  /\ batched \in [Subscriptions -> BOOLEAN]
  /\ started \in [Subscriptions -> BOOLEAN]
  /\ changes \in 0..MaxChanges
  /\ errors \in 0..MaxErrors

Init ==
  /\ admission = [s \in Subscriptions |-> "none"]
  /\ stale = [s \in Subscriptions |-> FALSE]
  /\ mode = FirstMode
  /\ newer = [s \in Subscriptions |-> FALSE]
  /\ active = [s \in Subscriptions |-> TRUE]
  /\ pc = [p \in Posts |-> "idle"]
  /\ left = [p \in Posts |-> {}]
  /\ cur = [p \in Posts |-> None]
  /\ view = [p \in Posts |-> [s \in Subscriptions |-> Unseen]]
  /\ delivered = FALSE
  /\ batched = [s \in Subscriptions |-> FALSE]
  /\ started = [s \in Subscriptions |-> FALSE]
  /\ changes = 0 /\ errors = 0

-----------------------------------------------------------------------------
(* The filters.                                                            *)

\* The dispatcher sends a wake-up envelope without the changed fields.
EnvelopeFields == {}

\* watchedFields?.length && !watchedFields.some(...) rejects.
Watches(s, fields) == Watched[s] = {} \/ Watched[s] \cap fields # {}

-----------------------------------------------------------------------------
(* One request.                                                            *)

Goto(p, phase) == pc' = [pc EXCEPT ![p] = phase]

End(p) ==
  /\ Goto(p, "idle")
  /\ left' = [left EXCEPT ![p] = {}]
  /\ cur' = [cur EXCEPT ![p] = None]
  /\ view' = [view EXCEPT ![p] = [s \in Subscriptions |-> Unseen]]

\* accepted += 1; continue
NextSubscription(p) ==
  /\ Goto(p, "visit")
  /\ cur' = [cur EXCEPT ![p] = None]
  /\ UNCHANGED <<left, view>>

\* Definitions whose names end in a word after an underscore are mutated forms
\* of the ones that follow them; no specification uses them.
Refuse_Continues(p) == NextSubscription(p)

\* An answer other than 200: the host will deliver again.
Refuse(p) == End(p)

Failing == errors < MaxErrors /\ errors' = errors + 1

\* The SELECT of the active subscriptions.
Begin(p) ==
  /\ pc[p] = "idle" /\ ~ delivered
  /\ LET seen == {s \in Subscriptions : active[s]} IN
     /\ left' = [left EXCEPT ![p] = seen]
     /\ view' = [view EXCEPT ![p] =
                   [s \in Subscriptions |->
                      IF s \in seen
                      THEN [mode |-> mode[s], newer |-> newer[s]]
                      ELSE Unseen]]
  /\ Goto(p, "visit")
  /\ UNCHANGED <<admissionVars, configVars, cur, delivered, started, errors>>

\* What the batch branch rejects without a receipt.
RejectedUnseen(p, s) == view[p][s].newer \/ ~ Watches(s, EnvelopeFields)

\* The head of the loop.
Visit(p) ==
  /\ pc[p] = "visit"
  /\ \E s \in left[p] :
       /\ left' = [left EXCEPT ![p] = @ \ {s}]
       /\ IF view[p][s].mode = "batch" /\ RejectedUnseen(p, s)
          THEN UNCHANGED <<pc, cur>>
          ELSE /\ cur' = [cur EXCEPT ![p] = s]
               /\ Goto(p, IF view[p][s].mode = "batch" THEN "enqueue"
                                                       ELSE "insert")
  /\ UNCHANGED <<admissionVars, configVars, view, delivered, started, errors>>

\* All subscriptions were visited: the event is admitted.
Answer(p) ==
  /\ pc[p] = "visit" /\ left[p] = {}
  /\ delivered' = TRUE
  /\ End(p)
  /\ UNCHANGED <<admissionVars, configVars, started, errors>>

Receivable_Pending(s) == admission[s] \in {"none", "pending", "wakeup_pending"}

\* There is no admission yet, or a receipt whose wake-up failed.
Receivable(s) == admission[s] \in {"none", "wakeup_pending"}

\* enqueueSaviaCollectionEventBatch: a receipt exists once its group's wake-up
\* is queued; an inline admission is left alone and refused.
Enqueue(p) ==
  LET s == cur[p] IN
  /\ pc[p] = "enqueue"
  /\ IF Receivable(s)
     THEN \/ /\ admission' = [admission EXCEPT ![s] = "queued"]
             /\ batched' = [batched EXCEPT ![s] = TRUE]
             /\ NextSubscription(p)
             /\ UNCHANGED errors
          \/ /\ Failing  \* no wake-up
             /\ admission' = [admission EXCEPT ![s] = "wakeup_pending"]
             /\ batched' = [batched EXCEPT ![s] = TRUE]
             /\ Refuse(p)
          \/ /\ Failing  \* no capacity
             /\ Refuse(p)
             /\ UNCHANGED <<admission, batched>>
     ELSE /\ IF admission[s] \in Decided THEN NextSubscription(p) ELSE Refuse(p)
          /\ UNCHANGED <<admission, batched, errors>>
  /\ UNCHANGED <<stale, configVars, delivered, started>>

\* INSERT ... ON CONFLICT DO NOTHING
Insert(p) ==
  /\ pc[p] = "insert"
  /\ admission' = [admission EXCEPT ![cur[p]] = IF @ = "none" THEN "pending"
                                                              ELSE @]
  /\ Goto(p, "look")
  /\ UNCHANGED <<stale, batched, configVars, left, cur, view, delivered,
                 started, errors>>

\* The SELECT of the admission: a decided one is not taken again.
Look(p) ==
  /\ pc[p] = "look"
  /\ IF admission[cur[p]] \in Decided
     THEN NextSubscription(p)
     ELSE Goto(p, "claim") /\ UNCHANGED <<left, cur, view>>
  /\ UNCHANGED <<admissionVars, configVars, delivered, started, errors>>

Claimable_Receipts(s) ==
  \/ admission[s] \in {"pending", "wakeup_pending"}
  \/ admission[s] = "processing" /\ stale[s]

Claimable_NeverStale(s) == admission[s] = "pending"

\* Pending, or in process for more than a minute.
Claimable(s) ==
  \/ admission[s] = "pending"
  \/ admission[s] = "processing" /\ stale[s]

Claim(p) ==
  LET s == cur[p] IN
  /\ pc[p] = "claim"
  /\ IF Claimable(s)
     THEN /\ admission' = [admission EXCEPT ![s] = "processing"]
          /\ stale' = [stale EXCEPT ![s] = FALSE]
          /\ Goto(p, "authorize")
          /\ UNCHANGED <<left, cur, view>>
     ELSE Refuse(p) /\ UNCHANGED <<admission, stale>>
  /\ UNCHANGED <<batched, configVars, delivered, started, errors>>

\* The event is older than the subscription, is denied for good, or does not
\* match; or it is permitted; or the host does not answer.
Authorize(p) ==
  /\ pc[p] = "authorize"
  /\ \/ Goto(p, "skip") /\ UNCHANGED errors
     \/ /\ ~ view[p][cur[p]].newer /\ Watches(cur[p], ChangedFields)
        /\ Goto(p, "reread")
        /\ UNCHANGED errors
     \/ Failing /\ Goto(p, "release")
  /\ UNCHANGED <<admissionVars, configVars, left, cur, view, delivered, started>>

\* Workflow and subscription are read again; a new principal is authorized.
Reread(p) ==
  LET s == cur[p] IN
  /\ pc[p] = "reread"
  /\ \/ Goto(p, "skip") /\ UNCHANGED errors
     \/ /\ active[s] /\ ~ newer[s]
        /\ Goto(p, "run")
        /\ UNCHANGED errors
     \/ Failing /\ Goto(p, "release")
  /\ UNCHANGED <<admissionVars, configVars, left, cur, view, delivered, started>>

Run_Unchecked(p) ==
  /\ pc[p] = "run"
  /\ \E b \in {TRUE, started[cur[p]]} :
       started' = [started EXCEPT ![cur[p]] = b]
  /\ Goto(p, "accept")
  /\ UNCHANGED <<admissionVars, configVars, left, cur, view, delivered, errors>>

\* WorkflowExecutor.execute, which may throw before or after the start.
Run(p) ==
  /\ pc[p] = "run"
  /\ \/ /\ started' = [started EXCEPT ![cur[p]] = TRUE]
        /\ Goto(p, "accept")
        /\ UNCHANGED errors
     \/ /\ Failing
        /\ \E b \in {TRUE, started[cur[p]]} :
             started' = [started EXCEPT ![cur[p]] = b]
        /\ Goto(p, "release")
  /\ UNCHANGED <<admissionVars, configVars, left, cur, view, delivered>>

\* The last UPDATE, of an accepted or a skipped admission, asks for no status.
Accept(p) ==
  /\ pc[p] = "accept"
  /\ admission' = [admission EXCEPT ![cur[p]] = "accepted"]
  /\ NextSubscription(p)
  /\ UNCHANGED <<stale, batched, configVars, delivered, started, errors>>

Skip(p) ==
  /\ pc[p] = "skip"
  /\ admission' = [admission EXCEPT ![cur[p]] = "skipped"]
  /\ NextSubscription(p)
  /\ UNCHANGED <<stale, batched, configVars, delivered, started, errors>>

\* The accepting UPDATE throws: the admission is released.
AcceptFails(p) ==
  /\ pc[p] = "accept"
  /\ Failing
  /\ Goto(p, "release")
  /\ UNCHANGED <<admissionVars, configVars, left, cur, view, delivered, started>>

Release_Unfenced(p) ==
  /\ pc[p] = "release"
  /\ admission' = [admission EXCEPT ![cur[p]] = "pending"]
  /\ stale' = [stale EXCEPT ![cur[p]] = FALSE]
  /\ Refuse(p)
  /\ UNCHANGED <<batched, configVars, delivered, started, errors>>

\* retryAdmission, and a 503.
Release(p) ==
  LET s == cur[p] IN
  /\ pc[p] = "release"
  /\ admission' = [admission EXCEPT ![s] = IF @ = "processing" THEN "pending"
                                                               ELSE @]
  /\ stale' = [stale EXCEPT ![s] = @ /\ admission[s] # "processing"]
  /\ Refuse(p)
  /\ UNCHANGED <<batched, configVars, delivered, started, errors>>

\* The request dies, or a statement outside the try blocks throws.
Crash(p) ==
  /\ pc[p] # "idle"
  /\ Failing
  /\ End(p)
  /\ UNCHANGED <<admissionVars, configVars, delivered, started>>

PostStep(p) ==
  \/ Begin(p) \/ Visit(p) \/ Answer(p) \/ Enqueue(p) \/ Insert(p) \/ Look(p)
  \/ Claim(p) \/ Authorize(p) \/ Reread(p) \/ Run(p) \/ Accept(p) \/ Skip(p)
  \/ Release(p)

-----------------------------------------------------------------------------
(* The rest of the system.                                                 *)

\* A manager saves the trigger anew, or deletes it.  What is saved is newer
\* than the event, unless the event occurred after the clock was read for it;
\* that such a save also outlasts a deletion is left out.
Configure(s) ==
  /\ changes < MaxChanges
  /\ changes' = changes + 1
  /\ \/ /\ \E m \in Mode : mode' = [mode EXCEPT ![s] = m]
        /\ active' = [active EXCEPT ![s] = TRUE]
        /\ \E n \in {TRUE, newer[s] \/ ~ active[s]} :
             newer' = [newer EXCEPT ![s] = n]
     \/ /\ active' = [active EXCEPT ![s] = FALSE]
        /\ UNCHANGED <<mode, newer>>
  /\ UNCHANGED <<admissionVars, postVars, delivered, started, errors>>

\* A flush decides a queued receipt.
FlushDecides(s) ==
  /\ admission[s] = "queued"
  /\ \E d \in {"accepted", "skipped"} :
       admission' = [admission EXCEPT ![s] = d]
  /\ UNCHANGED <<stale, batched, configVars, postVars, delivered, started,
                 errors>>

\* A minute passes over an admission in process.
GrowStale(s) ==
  /\ admission[s] = "processing" /\ ~ stale[s]
  /\ stale' = [stale EXCEPT ![s] = TRUE]
  /\ UNCHANGED <<admission, batched, configVars, postVars, delivered, started,
                 errors>>

Next ==
  \/ \E p \in Posts : PostStep(p) \/ AcceptFails(p) \/ Crash(p)
  \/ \E s \in Subscriptions : Configure(s) \/ FlushDecides(s) \/ GrowStale(s)

Spec == Init /\ [][Next]_vars

\* The outbox delivers until it is answered, and time passes.
Fairness ==
  /\ \A p \in Posts : WF_vars(PostStep(p))
  /\ \A s \in Subscriptions : WF_vars(GrowStale(s))

FairSpec == Spec /\ Fairness

-----------------------------------------------------------------------------
(* Properties.                                                             *)

\* A batch receipt owns its event: whatever mode the subscription changes to,
\* it is never switched into inline execution.
ReceiptOwnsEvent == \A s \in Subscriptions : ~ (batched[s] /\ started[s])

\* An admission says accepted only after a run was started or a receipt was
\* taken over by a flush, whoever took the admission over meanwhile.
AcceptedWasStarted ==
  \A s \in Subscriptions :
    admission[s] = "accepted" => started[s] \/ batched[s]

\* The subscription wants the event and was there all the time.
Expects(s) == active[s] /\ ~ newer[s] /\ Watches(s, ChangedFields)

\* When the host hears that the event is admitted, every subscription that
\* wants it, and was there all the time, has decided about it.
DeliveredIsDecided ==
  \A s \in Subscriptions :
    delivered /\ Expects(s) => admission[s] \in Decided

\* A decision is never reopened, though a request that was overtaken may
\* still release or decide.
NotReopened ==
  [][\A s \in Subscriptions :
       admission[s] \in Decided => admission'[s] \in Decided]_vars

\* The admission was begun in the form of the other delivery mode: an inline
\* one that was left behind, or a receipt that still waits for its wake-up.
Crossed(s) ==
  \/ mode[s] = "batch" /\ admission[s] \in {"pending", "processing"}
  \/ mode[s] = "inline" /\ admission[s] = "wakeup_pending"

\* The event is eventually admitted if the host keeps delivering it, unless the
\* mode of a subscription was changed under an unfinished admission: that is
\* refused for good.
EventuallyDelivered ==
  <>delivered \/ <>[](\E s \in Subscriptions : Crossed(s))

\* The deliveries of the event: its subscriptions.  A flush that accepts a
\* receipt has run it.
DeliveryForm ==
  [s \in Subscriptions |-> IF admission[s] = "none" THEN "none"
                           ELSE IF batched[s] THEN "receipt" ELSE "inline"]

DeliveryOutcome ==
  [s \in Subscriptions |-> IF admission[s] \in {"accepted", "skipped"}
                           THEN admission[s] ELSE "open"]

DeliveryBegun ==
  {s \in Subscriptions : started[s] \/ (batched[s] /\ admission[s] = "accepted")}

DeliveryTold == {s \in Subscriptions : delivered /\ Expects(s)}

Delivery == INSTANCE EventDelivery WITH
  Deliveries <- Subscriptions, form <- DeliveryForm, outcome <- DeliveryOutcome,
  begun <- DeliveryBegun, told <- DeliveryTold

\* An event is delivered to each subscription in one form, accepted only with a
\* run, never reopened, and answered for only when durable or decided: as the
\* abstract delivery has it, whatever requests overlap or die.
ImplementsDelivery == Delivery!DSpec
=============================================================================

----------------------- MODULE CollectionEventOutbox -----------------------
(***************************************************************************)
(* The durable outbox of collection events kept by the Savia API, and the  *)
(* dispatch passes that deliver it to Savia Flows.                         *)
(*                                                                         *)
(*   packages/studio-server/src/collection-event-outbox.ts  claim,         *)
(*     complete, retry                                                     *)
(*   apps/api/src/savia-flows/event-dispatch.ts  the pass over a claim     *)
(*   packages/db/migrations/0057_savia_flows_collection_events.sql  the    *)
(*     trigger that captures an event in the transaction of its write      *)
(*                                                                         *)
(* Several passes run at once (one per writing request, one per cron tick, *)
(* one per drain request); each takes the clock once and keeps using that  *)
(* value.  Every SQL statement is one step, so passes interleave between   *)
(* any two of them.                                                        *)
(***************************************************************************)
EXTENDS Integers, FiniteSets

CONSTANTS
  Events,       \* identities of the outbox rows
  Dispatchers,  \* concurrent dispatch passes
  Tokens,       \* lease tokens (crypto.randomUUID)
  None,         \* SQL NULL: no lease token, no current event
  ClaimLimit,   \* events per pass (25 in the code)
  MaxAttempts,  \* MAX_ATTEMPTS
  LeaseTime,    \* LEASE_MS
  MaxBackoff,   \* MAX_BACKOFF_MS
  Retention,    \* DELIVERED_RETENTION_MS
  Horizon,      \* bound: the clock stops here, later deadlines are clamped
  MaxCrashes    \* bound: passes that die half-way

ASSUME OutboxAssumption ==
  /\ None \notin Tokens /\ None \notin Events
  /\ ClaimLimit \in Nat \ {0}
  /\ MaxAttempts \in Nat \ {0}
  /\ LeaseTime \in Nat \ {0}
  /\ MaxBackoff \in Nat \ {0}
  /\ Retention \in Nat
  /\ Horizon \in Nat
  /\ MaxCrashes \in Nat

VARIABLES
  \* the table savia_flows_collection_event_outbox, a column each
  status, attempts, createdAt, availableAt, lease, leaseUntil, deliveredAt,
  \* the passes: where each is, the clock value it took, its lease token, the
  \* claimed events not yet sent, the event in hand, the attempt count read
  pc, at, token, todo, cur, seen,
  received,  \* events Flows has admitted at least once
  now, crashes

rowVars  == <<status, attempts, createdAt, availableAt, lease, leaseUntil,
              deliveredAt>>
passVars == <<pc, at, token, todo, cur, seen>>
vars     == <<rowVars, passVars, received, now, crashes>>

Status == {"absent", "pending", "delivered", "failed", "purged"}
Phase  == {"idle", "claim", "next", "complete", "read", "retry"}

\* A deadline t, clamped to the horizon of the model's clock.
Clamp(t) == IF t \in 0..Horizon THEN t ELSE Horizon

\* The delay before attempt n + 1: it doubles up to MaxBackoff.
Backoff(n) == IF 2 ^ (n - 1) < MaxBackoff THEN 2 ^ (n - 1) ELSE MaxBackoff

\* randomUUID returns a token that no row and no running pass holds; which
\* one does not matter.
FreshTokens ==
  Tokens \ ({lease[e] : e \in Events} \cup {token[d] : d \in Dispatchers})

NewToken == CHOOSE t \in FreshTokens : TRUE

TypeOK ==
  /\ status \in [Events -> Status]
  /\ attempts \in [Events -> 0..MaxAttempts]
  /\ createdAt \in [Events -> 0..Horizon]
  /\ availableAt \in [Events -> 0..Horizon]
  /\ lease \in [Events -> Tokens \cup {None}]
  /\ leaseUntil \in [Events -> 0..Horizon]
  /\ deliveredAt \in [Events -> 0..Horizon]
  /\ pc \in [Dispatchers -> Phase]
  /\ at \in [Dispatchers -> 0..Horizon]
  /\ token \in [Dispatchers -> Tokens \cup {None}]
  /\ todo \in [Dispatchers -> SUBSET Events]
  /\ cur \in [Dispatchers -> Events \cup {None}]
  /\ seen \in [Dispatchers -> 0..MaxAttempts]
  /\ received \in SUBSET Events
  /\ now \in 0..Horizon
  /\ crashes \in 0..MaxCrashes

Init ==
  /\ status = [e \in Events |-> "absent"]
  /\ attempts = [e \in Events |-> 0]
  /\ createdAt = [e \in Events |-> 0]
  /\ availableAt = [e \in Events |-> 0]
  /\ lease = [e \in Events |-> None]
  /\ leaseUntil = [e \in Events |-> 0]
  /\ deliveredAt = [e \in Events |-> 0]
  /\ pc = [d \in Dispatchers |-> "idle"]
  /\ at = [d \in Dispatchers |-> 0]
  /\ token = [d \in Dispatchers |-> None]
  /\ todo = [d \in Dispatchers |-> {}]
  /\ cur = [d \in Dispatchers |-> None]
  /\ seen = [d \in Dispatchers |-> 0]
  /\ received = {}
  /\ now = 0
  /\ crashes = 0

\* Definitions whose names end in a word after an underscore are mutated forms
\* of the ones that follow them; no specification uses them.

-----------------------------------------------------------------------------
(* The writer of a record: the trigger inserts the event's row.            *)

Capture(e) ==
  /\ status[e] = "absent"
  /\ status' = [status EXCEPT ![e] = "pending"]
  /\ createdAt' = [createdAt EXCEPT ![e] = now]
  /\ UNCHANGED <<attempts, availableAt, lease, leaseUntil, deliveredAt,
                 passVars, received, now, crashes>>

-----------------------------------------------------------------------------
(* One dispatch pass.                                                      *)

\* Delivered rows older than the retention.
Expired == {e \in Events : /\ status[e] = "delivered"
                           /\ deliveredAt[e] + Retention <= now}

\* dispatchSaviaCollectionEvents(db, options, now = Date.now()) and the DELETE
\* that opens claim.
StartPass(d) ==
  /\ pc[d] = "idle"
  /\ pc' = [pc EXCEPT ![d] = "claim"]
  /\ at' = [at EXCEPT ![d] = now]
  /\ status' = [e \in Events |-> IF e \in Expired THEN "purged" ELSE status[e]]
  /\ UNCHANGED <<attempts, createdAt, availableAt, lease, leaseUntil,
                 deliveredAt, token, todo, cur, seen, received, now, crashes>>

Claimable_Leased(d) == {e \in Events : /\ status[e] = "pending"
                                       /\ availableAt[e] <= at[d]}

Claimable_NeverExpires(d) == {e \in Events : /\ status[e] = "pending"
                                             /\ availableAt[e] <= at[d]
                                             /\ lease[e] = None}

\* The rows the claiming UPDATE may lease at the pass's clock value.
Claimable(d) == {e \in Events : /\ status[e] = "pending"
                                /\ availableAt[e] <= at[d]
                                /\ lease[e] = None \/ leaseUntil[e] <= at[d]}

\* ORDER BY created_at LIMIT: S holds the oldest rows, as many as fit.
OldestFirst(S, eligible) ==
  /\ Cardinality(S) <= ClaimLimit
  /\ S # eligible => Cardinality(S) = ClaimLimit
  /\ \A e \in S, f \in eligible \ S : createdAt[e] <= createdAt[f]

Claim(d) ==
  /\ pc[d] = "claim"
  /\ FreshTokens # {}
  /\ \E S \in SUBSET Claimable(d) :
       /\ OldestFirst(S, Claimable(d))
       /\ lease' = [e \in Events |-> IF e \in S THEN NewToken ELSE lease[e]]
       /\ leaseUntil' = [e \in Events |-> IF e \in S
                                          THEN Clamp(at[d] + LeaseTime)
                                          ELSE leaseUntil[e]]
       /\ attempts' = [e \in Events |-> IF e \in S /\ attempts[e] < MaxAttempts
                                        THEN attempts[e] + 1
                                        ELSE attempts[e]]
       /\ todo' = [todo EXCEPT ![d] = S]
  /\ token' = [token EXCEPT ![d] = NewToken]
  /\ pc' = [pc EXCEPT ![d] = "next"]
  /\ UNCHANGED <<status, createdAt, availableAt, deliveredAt, at, cur, seen,
                 received, now, crashes>>

Send_Unchecked(d) ==
  /\ pc[d] = "next"
  /\ \E e \in todo[d] :
       /\ cur' = [cur EXCEPT ![d] = e]
       /\ todo' = [todo EXCEPT ![d] = @ \ {e}]
       /\ \E r \in {received, received \cup {e}} : received' = r
       /\ pc' = [pc EXCEPT ![d] = "complete"]
  /\ UNCHANGED <<rowVars, at, token, seen, now, crashes>>

\* The next event of the loop and the POST to Flows: Flows may admit the event
\* or not, and the answer may be lost or an error even when it was admitted.
Send(d) ==
  /\ pc[d] = "next"
  /\ \E e \in todo[d] :
       /\ cur' = [cur EXCEPT ![d] = e]
       /\ todo' = [todo EXCEPT ![d] = @ \ {e}]
       /\ \/ /\ received' = received \cup {e}
             /\ \E p \in {"complete", "read"} : pc' = [pc EXCEPT ![d] = p]
          \/ /\ pc' = [pc EXCEPT ![d] = "read"]
             /\ UNCHANGED received
  /\ UNCHANGED <<rowVars, at, token, seen, now, crashes>>

Holds_AnyLease(d) == status[cur[d]] = "pending" /\ lease[cur[d]] # None

\* WHERE id=? AND status='pending' AND lease_token=?
Holds(d) == status[cur[d]] = "pending" /\ lease[cur[d]] = token[d]

\* The loop moves on from the event in hand.
Advance(d) ==
  /\ pc' = [pc EXCEPT ![d] = "next"]
  /\ cur' = [cur EXCEPT ![d] = None]

\* complete(id, lease, now) stamps the pass's own clock value.  Its error is
\* caught by the same handler as a failed delivery, whether or not the UPDATE
\* was committed.
Complete(d) ==
  /\ pc[d] = "complete"
  /\ IF Holds(d)
     THEN /\ status' = [status EXCEPT ![cur[d]] = "delivered"]
          /\ deliveredAt' = [deliveredAt EXCEPT ![cur[d]] = at[d]]
          /\ lease' = [lease EXCEPT ![cur[d]] = None]
          /\ leaseUntil' = [leaseUntil EXCEPT ![cur[d]] = 0]
     ELSE UNCHANGED <<status, deliveredAt, lease, leaseUntil>>
  /\ \/ Advance(d)
     \/ pc' = [pc EXCEPT ![d] = "read"] /\ UNCHANGED cur
  /\ UNCHANGED <<attempts, createdAt, availableAt, at, token, todo, seen,
                 received, now, crashes>>

CompleteLost(d) ==
  /\ pc[d] = "complete"
  /\ pc' = [pc EXCEPT ![d] = "read"]
  /\ UNCHANGED <<rowVars, at, token, todo, cur, seen, received, now, crashes>>

\* retry's SELECT attempt_count: without a row under this lease it returns.
ReadAttempts(d) ==
  /\ pc[d] = "read"
  /\ IF Holds(d)
     THEN /\ pc' = [pc EXCEPT ![d] = "retry"]
          /\ seen' = [seen EXCEPT ![d] = attempts[cur[d]]]
          /\ UNCHANGED cur
     ELSE Advance(d) /\ UNCHANGED seen
  /\ UNCHANGED <<rowVars, at, token, todo, received, now, crashes>>

\* retry's UPDATE: back to pending after a delay, or failed for good.
Retry(d) ==
  /\ pc[d] = "retry"
  /\ IF Holds(d)
     THEN /\ status' = [status EXCEPT ![cur[d]] =
                          IF seen[d] >= MaxAttempts THEN "failed" ELSE @]
          /\ availableAt' = [availableAt EXCEPT ![cur[d]] =
                               Clamp(at[d] + Backoff(seen[d]))]
          /\ lease' = [lease EXCEPT ![cur[d]] = None]
          /\ leaseUntil' = [leaseUntil EXCEPT ![cur[d]] = 0]
     ELSE UNCHANGED <<status, availableAt, lease, leaseUntil>>
  /\ Advance(d)
  /\ seen' = [seen EXCEPT ![d] = 0]
  /\ UNCHANGED <<attempts, createdAt, deliveredAt, at, token, todo, received,
                 now, crashes>>

\* The pass is over: its locals are dead.
Leave(d) ==
  /\ pc' = [pc EXCEPT ![d] = "idle"]
  /\ at' = [at EXCEPT ![d] = 0]
  /\ token' = [token EXCEPT ![d] = None]
  /\ todo' = [todo EXCEPT ![d] = {}]
  /\ cur' = [cur EXCEPT ![d] = None]
  /\ seen' = [seen EXCEPT ![d] = 0]
  /\ UNCHANGED <<rowVars, received, now>>

EndPass(d) ==
  /\ pc[d] = "next"
  /\ todo[d] = {}
  /\ Leave(d)
  /\ UNCHANGED crashes

\* The isolate that runs the pass dies, or a statement of claim or retry (or
\* the parsing of a claimed row) throws out of the pass: what it had claimed
\* stays leased.
Crash(d) ==
  /\ pc[d] # "idle"
  /\ crashes < MaxCrashes
  /\ crashes' = crashes + 1
  /\ Leave(d)

Tick ==
  /\ now < Horizon
  /\ now' = now + 1
  /\ UNCHANGED <<rowVars, passVars, received, crashes>>

PassStep(d) ==
  \/ StartPass(d) \/ Claim(d) \/ Send(d) \/ Complete(d) \/ CompleteLost(d)
  \/ ReadAttempts(d) \/ Retry(d) \/ EndPass(d)

Next ==
  \/ \E e \in Events : Capture(e)
  \/ \E d \in Dispatchers : PassStep(d) \/ Crash(d)
  \/ Tick

Spec == Init /\ [][Next]_vars

\* The cron of the API starts a pass every minute and time passes.
Fairness ==
  /\ WF_vars(Tick)
  /\ \A d \in Dispatchers : WF_vars(PassStep(d))

FairSpec == Spec /\ Fairness

-----------------------------------------------------------------------------
(* Properties.                                                             *)

\* A pass that works on an event under a lease that has not run out.
Working(d, e) ==
  /\ e \in todo[d] \/ cur[d] = e
  /\ Clamp(at[d] + LeaseTime) > now

\* Two passes never hold one event at the same time while both leases run:
\* claim, retry and complete use a clock value taken earlier, and retry and
\* crashes free or abandon leases in between.
ExclusiveLease ==
  \A c, d \in Dispatchers, e \in Events :
    Working(c, e) /\ Working(d, e) => c = d

\* A row leaves the queue as delivered, and later the table, only after
\* Flows has admitted the event, whatever was lost or repeated on the way.
NoEventLost ==
  \A e \in Events : status[e] \in {"delivered", "purged"} => e \in received

\* A pass whose lease was taken over writes nothing: a live lease is only
\* given up by the pass that holds its token.
FencedWrites ==
  [][\A e \in Events :
       lease[e] # None /\ lease'[e] # lease[e] =>
         \/ leaseUntil[e] <= now
         \/ \E d \in Dispatchers : /\ token[d] = lease[e]
                                   /\ cur[d] = e
                                   /\ pc'[d] # pc[d]]_vars

\* An event that was delivered is never queued again, a failed one never
\* revived, and only a delivered one is removed.
SettledStays ==
  [][\A e \in Events :
       /\ status[e] = "delivered" => status'[e] \in {"delivered", "purged"}
       /\ status[e] = "failed" => status'[e] = "failed"
       /\ status'[e] = "purged" => status[e] \in {"delivered", "purged"}]_vars

\* An event is given up only after its last attempt.
GivenUpAfterLimit ==
  \A e \in Events : status[e] = "failed" => attempts[e] = MaxAttempts

\* Every captured event is eventually delivered or given up after the last
\* attempt, though another event may fail for ever ahead of it.
EventuallySettled ==
  \A e \in Events :
    status[e] = "pending" ~> status[e] \in {"delivered", "failed", "purged"}
=============================================================================

---------------------------- MODULE EventDelivery ----------------------------
(***************************************************************************)
(* What Savia Flows promises about the delivery of collection events,      *)
(* without requests, flushes, leases or queues.  A delivery is one event   *)
(* for one subscription.                                                   *)
(*                                                                         *)
(* A delivery is taken in once, in one of two forms, which it keeps: in    *)
(* the request of the host (inline) or as a durable receipt.  It ends      *)
(* accepted, which only one whose run has begun can be, or skipped.  The   *)
(* outcome of a receipt is final; inline requests that overtake each other *)
(* may replace theirs, but none becomes open again.  The host is told of   *)
(* nothing that is neither durable nor decided.                            *)
(*                                                                         *)
(* CollectionEventAdmissions implements this specification for the         *)
(* subscriptions of one event, CollectionEventBatches for the events of    *)
(* one subscription.                                                       *)
(***************************************************************************)
CONSTANT Deliveries

VARIABLES form, outcome, begun, told

deliveryVars == <<form, outcome, begun, told>>

Forms    == {"inline", "receipt"}
Outcomes == {"accepted", "skipped"}

DInit ==
  /\ form = [d \in Deliveries |-> "none"]
  /\ outcome = [d \in Deliveries |-> "open"]
  /\ begun = {} /\ told = {}

TakeIn(d, f) ==
  /\ form[d] = "none"
  /\ form' = [form EXCEPT ![d] = f]
  /\ UNCHANGED <<outcome, begun, told>>

\* Runs of R begin, and those of S are accepted.
Run(R, S) ==
  /\ \A d \in R \cup S : form[d] # "none"
  /\ \A d \in S : form[d] = "receipt" => outcome[d] = "open"
  /\ begun' = begun \cup R
  /\ S \subseteq begun'
  /\ outcome' = [d \in Deliveries |-> IF d \in S THEN "accepted" ELSE outcome[d]]
  /\ UNCHANGED <<form, told>>

Skip(S) ==
  /\ \A d \in S : /\ form[d] # "none"
                  /\ form[d] = "receipt" => outcome[d] = "open"
  /\ outcome' = [d \in Deliveries |-> IF d \in S THEN "skipped" ELSE outcome[d]]
  /\ UNCHANGED <<form, begun, told>>

Tell(S) ==
  /\ \A d \in S : form[d] = "receipt" \/ outcome[d] # "open"
  /\ told' = told \cup S
  /\ UNCHANGED <<form, outcome, begun>>

\* A subscription that is changed or deleted has no claim to earlier events.
Withdraw(S) ==
  /\ told' = told \ S
  /\ UNCHANGED <<form, outcome, begun>>

DNext ==
  \/ \E d \in Deliveries, f \in Forms : TakeIn(d, f)
  \/ \E R, S \in SUBSET Deliveries : Run(R, S)
  \/ \E S \in SUBSET Deliveries : Skip(S) \/ Tell(S) \/ Withdraw(S)

DSpec == DInit /\ [][DNext]_deliveryVars
=============================================================================

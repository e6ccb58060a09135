-------------------------- MODULE OccurrenceLedger --------------------------
(***************************************************************************)
(* What the scheduled-trigger claims promise about one cron occurrence,    *)
(* without leases, handlers or SQL.                                        *)
(*                                                                         *)
(* An occurrence is sanctioned to run on one runtime.  A synchronous       *)
(* Worker run is sanctioned once; a durable Workflow run may be sanctioned *)
(* again, because it keeps its execution id.  The record is closed once:   *)
(* done only after a sanction, dropped only when no Worker run can have    *)
(* happened, unknown only when one may have.                               *)
(*                                                                         *)
(* ScheduledTriggerClaims implements this specification.                   *)
(***************************************************************************)
CONSTANT Occurrences

VARIABLES outcome, sanction

Outcomes  == {"open", "done", "unknown", "dropped"}
Sanctions == {"none", "durable", "worker"}

LInit == /\ outcome = [o \in Occurrences |-> "open"]
         /\ sanction = [o \in Occurrences |-> "none"]

\* A run of o on runtime k is about to start.
Sanction(o, k) ==
  /\ outcome[o] = "open"
  /\ sanction[o] = "none" \/ (sanction[o] = "durable" /\ k = "durable")
  /\ sanction' = [sanction EXCEPT ![o] = k]
  /\ UNCHANGED outcome

\* The record of o is closed with outcome r.
Close(o, r) ==
  /\ outcome[o] = "open"
  /\ r = "done" => sanction[o] # "none"
  /\ r = "dropped" => sanction[o] # "worker"
  /\ r = "unknown" => sanction[o] = "worker"
  /\ outcome' = [outcome EXCEPT ![o] = r]
  /\ UNCHANGED sanction

\* A repair sweep closes several occurrences in one statement.
CloseAll(S) ==
  /\ \A o \in S : outcome[o] = "open"
  /\ outcome' = [o \in Occurrences |->
                   IF o \in S
                   THEN IF sanction[o] = "worker" THEN "unknown" ELSE "dropped"
                   ELSE outcome[o]]
  /\ UNCHANGED sanction

LNext ==
  \/ \E o \in Occurrences, k \in Sanctions \ {"none"} : Sanction(o, k)
  \/ \E o \in Occurrences, r \in Outcomes \ {"open"} : Close(o, r)
  \/ \E S \in SUBSET Occurrences : CloseAll(S)

LSpec == LInit /\ [][LNext]_<<outcome, sanction>>
=============================================================================

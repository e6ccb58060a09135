-------------------------- MODULE ExecutionPolicy --------------------------
(***************************************************************************)
(* The quotas and the pause that workflow runs of both execution modes     *)
(* share, apps/flows/api/src/services/execution-policy.ts.                 *)
(*                                                                         *)
(* The policy keeps a row per run in a database and no state of its own:   *)
(* each action is one statement of a call, and other calls run in between. *)
(* A call reads the clock once and compares every lease with that value;   *)
(* aged holds the reservations that lapsed after the call has read it and  *)
(* that it still takes for live.  The day stands for both budget windows   *)
(* (day and month); the node limit depends on the definition alone and is  *)
(* left out.                                                               *)
(***************************************************************************)
EXTENDS Integers, FiniteSets

CONSTANTS
  Callers,        \* processes that call the policy, each one call at a time
  Ids,            \* runs, by executionId
  MaxConcurrent,  \* SAVIA_FLOWS_MAX_CONCURRENT_RUNS
  MaxDaily,       \* SAVIA_FLOWS_MAX_DAILY_RUNS
  MaxSteps,       \* SAVIA_FLOWS_MAX_STEPS_PER_RUN
  Generations     \* SAVIA_FLOWS_POLICY_GENERATION of the deployed workers

ASSUME PolicyAssumption ==
  /\ IsFiniteSet(Ids) /\ Ids # {}
  /\ MaxConcurrent \in Nat \ {0}
  /\ MaxDaily \in Nat \ {0}
  /\ MaxSteps \in Nat \ {0}
  /\ Generations \subseteq Nat

VARIABLES
  reserved,    \* state of a run's row: none (no row), active or completed
  active,      \* runs with active = 1
  leased,      \* runs with lease_until in the future
  steps,       \* steps counted
  today,       \* runs whose row was created in the budget window
  paused, generation,  \* the control row
  call         \* per caller: where the call stands, its run, what it has read

policyVars == <<reserved, active, leased, steps, today, paused, generation,
                call>>
rowVars    == <<reserved, active, leased, steps, today>>
control    == <<paused, generation>>

Pending == {"enter", "reclaim", "insert", "raced", "tally", "step", "explain"}

Answers == {"idle", "allowed", "stepped", "paused", "finished", "concurrent",
            "budget", "exhausted", "inactive"}

Call == [at : Pending \cup Answers, id : Ids, was : BOOLEAN, aged : SUBSET Ids]

PolicyTypeOK ==
  /\ reserved \in [Ids -> {"none", "active", "completed"}]
  /\ active \subseteq Ids
  /\ leased \subseteq Ids
  /\ steps \in [Ids -> 0..MaxSteps]
  /\ today \subseteq Ids
  /\ paused \in BOOLEAN
  /\ generation \in Generations \cup {0}
  /\ call \in [Callers -> Call]

NoCall == [at |-> "idle", id |-> CHOOSE i \in Ids : TRUE, was |-> FALSE,
           aged |-> {}]

PolicyInit ==
  /\ reserved = [i \in Ids |-> "none"]
  /\ active = {} /\ leased = {} /\ today = {}
  /\ steps = [i \in Ids |-> 0]
  /\ paused = FALSE /\ generation = 0
  /\ call = [c \in Callers |-> NoCall]

Free(c) == call[c].at \in Answers

Goto(c, where) == call' = [call EXCEPT ![c].at = where]

\* An answered call has nothing left to read.
Answer(c, what) == call' = [call EXCEPT ![c] = [@ EXCEPT !.at = what,
                                                !.was = FALSE, !.aged = {}]]

Begin(c, i, where) ==
  call' = [call EXCEPT ![c] = [at |-> where, id |-> i, aged |-> {},
                               was |-> where = "enter" /\ i \in active]]

Forget(c) == call' = [call EXCEPT ![c] = NoCall]

-----------------------------------------------------------------------------
(* Definitions whose names end in a word after an underscore are mutated   *)
(* forms of the ones that follow them; no specification uses them.         *)

(* What a statement counts with the clock of its call: the leases that are *)
(* live now and those that have lapsed since.                              *)

Live == {i \in active \cap leased : reserved[i] = "active"}

LiveFor(c, i) == i \in leased \/ i \in call[c].aged

Counted(c) == {i \in active : reserved[i] = "active" /\ LiveFor(c, i)}

Room(c) == Cardinality(Counted(c)) < MaxConcurrent

Hold(i) == active' = active \cup {i} /\ leased' = leased \cup {i}

(* admit: the pause, then the clock and the run's row.                     *)

AdmitRead(c, i) ==
  /\ Free(c)
  /\ Begin(c, i, CASE paused                     -> "paused"
                   [] reserved[i] = "completed"  -> "finished"
                   [] reserved[i] = "none"       -> "insert"
                   [] i \in active \cap leased   -> "allowed"
                   [] OTHER                      -> "enter")
  /\ UNCHANGED <<rowVars, control>>

\* The UPDATE of a run that left its slot.
AdmitEnter_NewRow(c) ==
  LET i == call[c].id
      enters == reserved[i] = "active" /\ i \notin active /\ ~paused /\ Room(c)
  IN /\ call[c].at = "enter"
     /\ \/ enters /\ Hold(i) /\ steps' = [steps EXCEPT ![i] = 0] /\ Answer(c, "allowed")
        \/ /\ ~enters /\ call[c].was /\ Goto(c, "reclaim")
           /\ UNCHANGED <<active, leased, steps>>
        \/ /\ ~enters /\ ~call[c].was /\ Answer(c, "concurrent")
           /\ UNCHANGED <<active, leased, steps>>
     /\ UNCHANGED <<reserved, today, control>>

AdmitEnter(c) ==
  LET i == call[c].id
      enters == reserved[i] = "active" /\ i \notin active /\ ~paused /\ Room(c)
  IN /\ call[c].at = "enter"
     /\ \/ enters /\ Hold(i) /\ Answer(c, "allowed")
        \/ /\ ~enters /\ call[c].was /\ Goto(c, "reclaim")
           /\ UNCHANGED <<active, leased>>
        \/ /\ ~enters /\ ~call[c].was /\ Answer(c, "concurrent")
           /\ UNCHANGED <<active, leased>>
     /\ UNCHANGED <<reserved, steps, today, control>>

\* The UPDATE of a run whose lease had lapsed when the clock was read.
AdmitReclaim(c) ==
  LET i == call[c].id
      reclaims == /\ reserved[i] = "active" /\ i \in active
                  /\ ~LiveFor(c, i) /\ ~paused /\ Room(c)
  IN /\ call[c].at = "reclaim"
     /\ \/ reclaims /\ Hold(i) /\ Answer(c, "allowed")
        \/ ~reclaims /\ Answer(c, "concurrent") /\ UNCHANGED <<active, leased>>
     /\ UNCHANGED <<reserved, steps, today, control>>

\* INSERT OR IGNORE with every quota as a condition.
Budget == Cardinality(today) < MaxDaily

AdmitInsert(c) ==
  LET i == call[c].id
      inserts == reserved[i] = "none" /\ ~paused /\ Budget /\ Room(c)
  IN /\ call[c].at = "insert"
     /\ \/ /\ inserts
           /\ reserved' = [reserved EXCEPT ![i] = "active"]
           /\ today' = today \cup {i}
           /\ Hold(i) /\ Answer(c, "allowed")
        \/ ~inserts /\ Goto(c, "raced") /\ UNCHANGED <<reserved, today, active, leased>>
     /\ UNCHANGED <<steps, control>>

\* Refused: by a duplicate that won the INSERT, else by a quota.
AdmitRaced(c) ==
  LET i == call[c].id
      won == reserved[i] = "active" /\ i \in active
  IN /\ call[c].at = "raced"
     /\ \/ won /\ Answer(c, "allowed")
        \/ ~won /\ Goto(c, "tally")
     /\ UNCHANGED <<rowVars, control>>

\* The reason is counted anew: without a full count it is a budget's.
AdmitTally(c) ==
  /\ call[c].at = "tally"
  /\ Answer(c, IF Room(c) THEN "budget" ELSE "concurrent")
  /\ UNCHANGED <<rowVars, control>>

-----------------------------------------------------------------------------
(* consumeStep: the pause and the clock, then one UPDATE that also takes a *)
(* slot that was left or has lapsed.  An own lease that is live by the     *)
(* clock of the call is renewed without a count.                           *)

StepRead(c, i) ==
  /\ Free(c)
  /\ Begin(c, i, IF paused THEN "paused" ELSE "step")
  /\ UNCHANGED <<rowVars, control>>

StepsLeft(i) == steps[i] < MaxSteps

Own_Lapsed(c) == call[c].id \in active

Own(c) == call[c].id \in active /\ LiveFor(c, call[c].id)

StepUpdate(c) ==
  LET i == call[c].id
      counts == /\ reserved[i] = "active" /\ StepsLeft(i) /\ ~paused
                /\ Own(c) \/ Room(c)
  IN /\ call[c].at = "step"
     /\ \/ /\ counts
           /\ steps' = [steps EXCEPT ![i] = @ + 1]
           /\ Hold(i) /\ Answer(c, "stepped")
        \/ /\ ~counts /\ Goto(c, "explain")
           /\ UNCHANGED <<steps, active, leased>>
     /\ UNCHANGED <<reserved, today, control>>

StepExplain(c) ==
  LET i == call[c].id
  IN /\ call[c].at = "explain"
     /\ Answer(c, CASE paused                  -> "paused"
                    [] reserved[i] # "active"  -> "inactive"
                    [] ~StepsLeft(i)           -> "exhausted"
                    [] OTHER                   -> "concurrent")
     /\ UNCHANGED <<rowVars, control>>

-----------------------------------------------------------------------------
(* release: one UPDATE that asks for nothing but the id.                   *)

Release(c, i, terminal) ==
  /\ Free(c)
  /\ IF reserved[i] = "none" THEN UNCHANGED rowVars ELSE
       /\ reserved' = [reserved EXCEPT ![i] = IF terminal THEN "completed" ELSE "active"]
       /\ active' = active \ {i}
       /\ leased' = leased \ {i}
       /\ UNCHANGED <<steps, today>>
  /\ Forget(c)
  /\ UNCHANGED control

(* syncExecutionPolicyPause of a worker of generation g: a newer generation *)
(* decides, and within one a pause wins.  A worker without a valid          *)
(* generation writes with one that it has just read.                        *)

Wins(g, pause) == g > generation \/ (g = generation /\ (pause \/ ~paused))

Sync(g, pause) ==
  /\ IF Wins(g, pause)
     THEN paused' = pause /\ generation' = g
     ELSE UNCHANGED control
  /\ UNCHANGED <<rowVars, call>>

(* Time: a lease of 20 minutes lapses; the budget window ends.  An INSERT  *)
(* under way over midnight counts into the day it has read.                *)

Lapse(i) ==
  /\ i \in leased
  /\ leased' = leased \ {i}
  /\ call' = [c \in Callers |->
               IF Free(c) THEN call[c] ELSE [call[c] EXCEPT !.aged = @ \cup {i}]]
  /\ UNCHANGED <<reserved, active, steps, today, control>>

NewDay ==
  /\ \A c \in Callers : call[c].at \notin {"insert", "raced", "tally"}
  /\ today' = {}
  /\ UNCHANGED <<reserved, active, leased, steps, call, control>>

-----------------------------------------------------------------------------
Statement(c) ==
  \/ AdmitEnter(c) \/ AdmitReclaim(c) \/ AdmitInsert(c) \/ AdmitRaced(c)
  \/ AdmitTally(c) \/ StepUpdate(c) \/ StepExplain(c)

\* Nothing is asked of a caller but one call at a time: any run, in any order.
PolicyNext ==
  \/ \E c \in Callers :
       \/ Statement(c)
       \/ Free(c) /\ Forget(c) /\ UNCHANGED <<rowVars, control>>
       \/ \E i \in Ids :
            \/ AdmitRead(c, i) \/ StepRead(c, i)
            \/ \E terminal \in BOOLEAN : Release(c, i, terminal)
  \/ \E g \in Generations, pause \in BOOLEAN : Sync(g, pause)
  \/ \E i \in Ids : Lapse(i)
  \/ NewDay

PolicySpec == PolicyInit /\ [][PolicyNext]_policyVars

-----------------------------------------------------------------------------
(* What the policy promises to callers of any kind.                        *)

\* A step that renews its run's lease by a clock value it read before that
\* lease lapsed.
Renews(c, i) ==
  /\ call[c].at = "step" /\ call[c].id = i /\ i \in call[c].aged
  /\ call'[c].at = "stepped"

\* No reservation becomes live beyond the limit, whatever the calls that run
\* at once have read, but by a step whose clock is outdated: it renews its own
\* lapsed lease, whose slot may have been given away.  Such a lease takes part
\* in every later count: nobody else comes in until the excess is gone.
ConcurrencyBounded ==
  [][Cardinality(Live') > MaxConcurrent =>
       \A i \in Live' \ Live : \E c \in Callers : Renews(c, i)]_policyVars

\* Every step of a run comes to its UPDATE before the lease that it found has
\* lapsed.
Prompt == \A c \in Callers : call[c].at = "step" => call[c].id \notin call[c].aged

\* Runs admitted in one budget window never exceed the budget, and a run that
\* is admitted again after a retry spends no second admission.
BudgetKept == Cardinality(today) <= MaxDaily

\* A pause is lifted by a worker of a newer generation only, and the control
\* row never goes back to an older one.
PauseSticks ==
  [][/\ generation' >= generation
     /\ paused /\ ~paused' => generation' > generation]_policyVars
=============================================================================

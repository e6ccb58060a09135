----------------------------- MODULE BackupGate -----------------------------
(***************************************************************************)
(* The barrier that holds writes back while a production backup copies     *)
(* databases and buckets one after the other.                              *)
(*                                                                         *)
(*   packages/backup-gate/index.mjs  the durable object with the lease and *)
(*     the write permits, and the client around every D1 and R2 mutation   *)
(*   packages/backup-gate/control.mjs  the controller the script talks to  *)
(*   scripts/production-backup-gate.mjs  the script: acquire, drain,       *)
(*     capture, check, release                                             *)
(*                                                                         *)
(* The coordinator handles one request at a time, each is one action here. *)
(* A request whose caller has stopped waiting may have been handled, may   *)
(* be lost, or may be handled at any later time (late).  One write is one  *)
(* guarded mutation and names its permit; one owner is one run of the      *)
(* script.  The script's clock is never compared with the coordinator's:   *)
(* where the script trusts its own clock it may go on or give up.          *)
(***************************************************************************)
EXTENDS Integers

CONSTANTS
  Writes,     \* guarded mutations, by permit
  Owners,     \* runs of the backup script, by owner id
  NoOwner,    \* lease: null
  Attempts,   \* MAX_GATE_ATTEMPTS
  LeaseTime,  \* ttlMs, in ticks
  MaxFaults   \* bound: failed calls and dying processes

ASSUME GateAssumption ==
  /\ NoOwner \notin Owners
  /\ Attempts \in Nat \ {0}
  /\ LeaseTime \in Nat \ {0}
  /\ MaxFaults \in Nat

VARIABLES
  \* the coordinator's stored state; left is expiresAt less the present time
  lease, left, permits,
  \* the guarded writes: step, failed attempts of the current request
  pc, tries,
  \* the backup runs: step, what the database and the bucket copy contain,
  \* whether a renewal failed, whether the final check passed
  phase, first, second, lost, sound,
  \* requests that nobody waits for any more
  late,
  \* what is stored; which writers' workers have the barrier; faults so far
  stored, gated, faults,
  \* history: writes whose permit was granted after its writer was done with it
  straggled

gateVars   == <<lease, left, permits>>
writerVars == <<pc, tries>>
backupVars == <<phase, first, second, lost, sound>>
vars       == <<gateVars, writerVars, backupVars, late, stored, gated, faults,
                straggled>>

WriterStep == {"idle", "enter", "write", "leave", "adrift", "done", "gaveup",
               "dead"}
Phase      == {"idle", "drain", "first", "second", "check", "release", "over"}

Message == ({"enter", "leave"} \X Writes \X (0..Attempts-1))
             \cup ({"acquire", "renew", "release"} \X Owners)

TypeOK ==
  /\ lease \in Owners \cup {NoOwner}
  /\ left \in 0..LeaseTime
  /\ permits \subseteq Writes
  /\ pc \in [Writes -> WriterStep]
  /\ tries \in [Writes -> 0..Attempts-1]
  /\ phase \in [Owners -> Phase]
  /\ first \in [Owners -> SUBSET Writes]
  /\ second \in [Owners -> SUBSET Writes]
  /\ lost \in [Owners -> BOOLEAN]
  /\ sound \in [Owners -> BOOLEAN]
  /\ late \subseteq Message
  /\ stored \subseteq Writes
  /\ gated \subseteq Writes
  /\ faults \in 0..MaxFaults
  /\ straggled \subseteq Writes

Init ==
  /\ lease = NoOwner /\ left = 0 /\ permits = {}
  /\ pc = [w \in Writes |-> "idle"]
  /\ tries = [w \in Writes |-> 0]
  /\ phase = [o \in Owners |-> "idle"]
  /\ first = [o \in Owners |-> {}]
  /\ second = [o \in Owners |-> {}]
  /\ lost = [o \in Owners |-> FALSE]
  /\ sound = [o \in Owners |-> FALSE]
  /\ late = {} /\ stored = {} /\ faults = 0 /\ straggled = {}
  /\ gated \in SUBSET Writes

Fail == faults < MaxFaults /\ faults' = faults + 1

-----------------------------------------------------------------------------
(* The coordinator.  A lapsed lease reads as none.                         *)

\* Definitions whose names end in a word after an underscore are mutated forms
\* of the ones that follow them; no specification uses them.
Open_NeverLapses == lease = NoOwner

Open == lease = NoOwner \/ left = 0

Held_ByAny(o) == lease # NoOwner /\ left > 0

Held(o) == lease = o /\ left > 0

\* enter: a permit that is known is confirmed even while the gate is closed.
Admits(w) == w \in permits \/ Open

HandleEnter(w) ==
  /\ permits' = IF Admits(w) THEN permits \cup {w} ELSE permits
  /\ UNCHANGED <<lease, left>>

HandleLeave(w) ==
  /\ permits' = permits \ {w}
  /\ UNCHANGED <<lease, left>>

Grant(o) == Open \/ lease = o

HandleAcquire_DropsPermits(o) ==
  /\ IF Grant(o)
     THEN lease' = o /\ left' = LeaseTime /\ permits' = {}
     ELSE UNCHANGED gateVars

HandleAcquire(o) ==
  /\ IF Grant(o)
     THEN lease' = o /\ left' = LeaseTime
     ELSE UNCHANGED <<lease, left>>
  /\ UNCHANGED permits

HandleRenew(o) ==
  /\ left' = IF Held(o) THEN LeaseTime ELSE left
  /\ UNCHANGED <<lease, permits>>

HandleRelease(o) ==
  /\ IF Held(o)
     THEN lease' = NoOwner /\ left' = 0
     ELSE UNCHANGED <<lease, left>>
  /\ UNCHANGED permits

Exhausted(w) == tries[w] + 1 = Attempts

\* A call fails for its caller: the request was handled and its answer lost,
\* or never arrived, or is still on its way.
Unanswered(m, Handled) ==
  /\ Fail
  /\ \/ Handled /\ UNCHANGED late
     \/ UNCHANGED <<gateVars, late>>
     \/ late' = late \cup {m} /\ UNCHANGED gateVars

-----------------------------------------------------------------------------
(* A guarded write: enter, the mutation itself, leave.                     *)

WriterGoes(w, step) ==
  /\ pc' = [pc EXCEPT ![w] = step]
  /\ tries' = [tries EXCEPT ![w] = 0]

Entering(w) == w \in gated /\ pc[w] \in {"idle", "enter"}

EnterGranted(w) ==
  /\ Entering(w)
  /\ Admits(w)
  /\ HandleEnter(w)
  /\ WriterGoes(w, "write")
  /\ UNCHANGED <<backupVars, late, stored, gated, faults, straggled>>

\* 503 is not retried: the permit is cleaned up and the caller told.
EnterRefused(w) ==
  /\ Entering(w)
  /\ ~ Admits(w)
  /\ WriterGoes(w, "leave")
  /\ UNCHANGED <<gateVars, backupVars, late, stored, gated, faults, straggled>>

\* After the last failed attempt the permit is left before the error is thrown.
AfterEnter_Thrown == "done"

AfterEnter == "leave"

EnterFails(w) ==
  /\ Entering(w)
  /\ Unanswered(<<"enter", w, tries[w]>>, HandleEnter(w))
  /\ IF Exhausted(w)
     THEN WriterGoes(w, AfterEnter)
     ELSE /\ pc' = [pc EXCEPT ![w] = "enter"]
          /\ tries' = [tries EXCEPT ![w] = @ + 1]
  /\ UNCHANGED <<backupVars, stored, gated, straggled>>

Write(w) ==
  /\ pc[w] = "write"
  /\ stored' = stored \cup {w}
  /\ WriterGoes(w, "leave")
  /\ UNCHANGED <<gateVars, backupVars, late, gated, faults, straggled>>

\* The callback rejects: nothing was stored, or only the answer is lost.  What
\* it has not stored by then it does not store later.
WriteRejected(w) ==
  /\ pc[w] = "write"
  /\ \E S \in {stored, stored \cup {w}} : stored' = S
  /\ WriterGoes(w, "leave")
  /\ UNCHANGED <<gateVars, backupVars, late, gated, faults, straggled>>

LeaveAnswered(w) ==
  /\ pc[w] = "leave"
  /\ HandleLeave(w)
  /\ WriterGoes(w, "done")
  /\ UNCHANGED <<backupVars, late, stored, gated, faults, straggled>>

LeaveFails(w) ==
  /\ pc[w] = "leave"
  /\ Unanswered(<<"leave", w, tries[w]>>, HandleLeave(w))
  /\ IF Exhausted(w)
     THEN WriterGoes(w, "gaveup")
     ELSE /\ tries' = [tries EXCEPT ![w] = @ + 1]
          /\ UNCHANGED pc
  /\ UNCHANGED <<backupVars, stored, gated, straggled>>

\* The isolate dies.  A mutation it had sent may still reach the storage.
WriterDies(w) ==
  /\ Fail
  /\ \/ /\ pc[w] = "write"
        /\ WriterGoes(w, "adrift")
     \/ /\ pc[w] \in {"enter", "leave"}
        /\ WriterGoes(w, "dead")
  /\ UNCHANGED <<gateVars, backupVars, late, stored, gated, straggled>>

LandsLate(w) ==
  /\ pc[w] = "adrift"
  /\ stored' = stored \cup {w}
  /\ WriterGoes(w, "dead")
  /\ UNCHANGED <<gateVars, backupVars, late, gated, faults, straggled>>

\* A worker deployed without the barrier writes past it.
WriteUngated(w) ==
  /\ w \notin gated
  /\ pc[w] = "idle"
  /\ stored' = stored \cup {w}
  /\ WriterGoes(w, "done")
  /\ UNCHANGED <<gateVars, backupVars, late, gated, faults, straggled>>

-----------------------------------------------------------------------------
(* A backup run.                                                           *)

RunGoes(o, step) == phase' = [phase EXCEPT ![o] = step]

\* The run is over; what an unsuccessful one captured has no manifest.
RunEnds(o, ok) ==
  /\ RunGoes(o, "over")
  /\ sound' = [sound EXCEPT ![o] = ok]
  /\ first' = [first EXCEPT ![o] = IF ok THEN @ ELSE {}]
  /\ second' = [second EXCEPT ![o] = IF ok THEN @ ELSE {}]
  /\ lost' = [lost EXCEPT ![o] = FALSE]

\* verifyWriters: every peer reports the same barrier.
Verified == gated = Writes

\* acquire, through the controller: the run starts, or ends where it asks.
Acquire(o) ==
  /\ phase[o] = "idle"
  /\ IF Verified THEN HandleAcquire(o) ELSE UNCHANGED gateVars
  /\ IF Verified /\ Grant(o)
     THEN RunGoes(o, IF permits = {} THEN "first" ELSE "drain")
     ELSE RunGoes(o, "release")
  /\ UNCHANGED <<writerVars, first, second, lost, sound, late, stored, gated,
                 faults, straggled>>

AcquireFails(o) ==
  /\ phase[o] = "idle"
  /\ Verified
  /\ Unanswered(<<"acquire", o>>, HandleAcquire(o))
  /\ RunGoes(o, "release")
  /\ UNCHANGED <<writerVars, first, second, lost, sound, stored, gated,
                 straggled>>

\* status in the drain loop: another owner's lease, or none, ends the run.
Poll(o) ==
  /\ phase[o] = "drain"
  /\ ~ lost[o]
  /\ IF ~ Held(o) THEN RunGoes(o, "release")
                  ELSE permits = {} /\ RunGoes(o, "first")
  /\ UNCHANGED <<gateVars, writerVars, first, second, lost, sound, late,
                 stored, gated, faults, straggled>>

\* The databases are dumped first, the buckets copied after them.
CopyFirst(o) ==
  /\ phase[o] = "first"
  /\ first' = [first EXCEPT ![o] = stored]
  /\ RunGoes(o, "second")
  /\ UNCHANGED <<gateVars, writerVars, second, lost, sound, late, stored,
                 gated, faults, straggled>>

CopySecond(o) ==
  /\ phase[o] = "second"
  /\ second' = [second EXCEPT ![o] = stored]
  /\ RunGoes(o, "check")
  /\ UNCHANGED <<gateVars, writerVars, first, lost, sound, late, stored,
                 gated, faults, straggled>>

\* checkKnownLease and the last status, when the capture is complete.
Check(o) ==
  /\ phase[o] = "check"
  /\ sound' = [sound EXCEPT ![o] = ~ lost[o] /\ Held(o) /\ permits = {}]
  /\ RunGoes(o, "release")
  /\ UNCHANGED <<gateVars, writerVars, first, second, lost, late, stored,
                 gated, faults, straggled>>

\* The drain times out, the hard deadline or the known expiry has passed, a
\* renewal or a status call failed, or the capture throws.
Abort(o) ==
  /\ phase[o] \in {"drain", "first", "second", "check"}
  /\ RunGoes(o, "release")
  /\ UNCHANGED <<gateVars, writerVars, first, second, lost, sound, late,
                 stored, gated, faults, straggled>>

\* The timer renews until the run has stopped it.
Renewing(o) == phase[o] \in {"drain", "first", "second", "check"} /\ ~ lost[o]

Renew(o) ==
  /\ Renewing(o)
  /\ HandleRenew(o)
  /\ lost' = [lost EXCEPT ![o] = ~ Held(o)]
  /\ UNCHANGED <<writerVars, phase, first, second, sound, late, stored, gated,
                 faults, straggled>>

RenewFails(o) ==
  /\ Renewing(o)
  /\ Unanswered(<<"renew", o>>, HandleRenew(o))
  /\ lost' = [lost EXCEPT ![o] = TRUE]
  /\ UNCHANGED <<writerVars, phase, first, second, sound, stored, gated,
                 straggled>>

\* release in the finally block: the run succeeds only if it is acknowledged.
Release(o) ==
  /\ phase[o] = "release"
  /\ HandleRelease(o)
  /\ RunEnds(o, sound[o] /\ Held(o))
  /\ UNCHANGED <<writerVars, late, stored, gated, faults, straggled>>

ReleaseFails(o) ==
  /\ phase[o] = "release"
  /\ Unanswered(<<"release", o>>, HandleRelease(o))
  /\ RunEnds(o, FALSE)
  /\ UNCHANGED <<writerVars, stored, gated, straggled>>

\* The job is killed: its lease must run out.
BackupDies(o) ==
  /\ phase[o] \notin {"idle", "over"}
  /\ Fail
  /\ RunEnds(o, FALSE)
  /\ UNCHANGED <<gateVars, writerVars, late, stored, gated, straggled>>

-----------------------------------------------------------------------------
(* Requests that arrive late, and time.                                    *)

Arrives(m) ==
  /\ m \in late
  /\ late' = late \ {m}
  /\ UNCHANGED <<writerVars, backupVars, stored, gated, faults>>

LateEnter(w, n) ==
  /\ Arrives(<<"enter", w, n>>)
  /\ HandleEnter(w)
  /\ straggled' = IF Open /\ pc[w] \in {"done", "gaveup", "dead"}
                  THEN straggled \cup {w} ELSE straggled

LateLeave(w, n) ==
  /\ Arrives(<<"leave", w, n>>)
  /\ HandleLeave(w)
  /\ UNCHANGED straggled

LateControl(o) ==
  /\ \/ Arrives(<<"acquire", o>>) /\ HandleAcquire(o)
     \/ Arrives(<<"renew", o>>) /\ HandleRenew(o)
     \/ Arrives(<<"release", o>>) /\ HandleRelease(o)
  /\ UNCHANGED straggled

Tick ==
  /\ left > 0
  /\ left' = left - 1
  /\ UNCHANGED <<lease, permits, writerVars, backupVars, late, stored, gated,
                 faults, straggled>>

WriterMoves(w) ==
  \/ EnterGranted(w) \/ EnterRefused(w) \/ Write(w) \/ WriteRejected(w)
  \/ LeaveAnswered(w) \/ LandsLate(w)

WriterFault(w) == EnterFails(w) \/ LeaveFails(w) \/ WriterDies(w)

RunMoves(o) ==
  \/ Acquire(o) \/ Poll(o) \/ CopyFirst(o) \/ CopySecond(o) \/ Check(o)
  \/ Abort(o) \/ Release(o)

RunFault(o) == AcquireFails(o) \/ RenewFails(o) \/ ReleaseFails(o)
                 \/ BackupDies(o)

Next ==
  \/ \E w \in Writes : WriterMoves(w) \/ WriterFault(w) \/ WriteUngated(w)
  \/ \E o \in Owners : RunMoves(o) \/ RunFault(o) \/ Renew(o) \/ LateControl(o)
  \/ \E w \in Writes, n \in 0..Attempts-1 : LateEnter(w, n) \/ LateLeave(w, n)
  \/ Tick

Spec == Init /\ [][Next]_vars

\* A process that lives goes on, a run at least by its deadlines; time passes.
Fairness ==
  /\ \A w \in Writes : WF_vars(WriterMoves(w))
  /\ \A o \in Owners : WF_vars(RunMoves(o))
  /\ WF_vars(Tick)

FairSpec == Spec /\ Fairness

-----------------------------------------------------------------------------
(* Properties.                                                             *)

\* A backup that reports success copied databases and buckets as of one
\* moment, though they are copied one after the other, its lease may lapse and
\* be taken by another run meanwhile, and requests arrive late.
OneMoment ==
  \A o \in Owners : phase[o] = "over" /\ sound[o] => first[o] = second[o]

\* Whatever is sent to the storage by a guarded write is covered by a permit
\* until it has landed, also when its isolate has died.
PermitCoversWrite ==
  \A w \in Writes : pc[w] \in {"write", "adrift"} => w \in permits

\* A lease that has not run out is given up only by its own run's end, never
\* to another run or to a writer.
LeaseHonoured ==
  [][\A o \in Owners : Held(o) /\ lease' # o => phase'[o] = "over"]_vars

\* Writes are not held back for ever: whatever happens to a backup run, its
\* lease ends.
GateReopens == \A o \in Owners : lease = o ~> Open

\* A permit is returned unless its isolate died, every attempt to return it
\* failed, or a late enter request took it again: with retries and cleanup
\* alone, no lost answer orphans a permit, which would block every later backup.
PermitsReturn ==
  \A w \in Writes :
    w \in permits ~> \/ w \notin permits
                     \/ pc[w] \in {"gaveup", "adrift", "dead"}
                     \/ w \in straggled
=============================================================================

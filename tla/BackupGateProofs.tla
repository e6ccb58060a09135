-------------------------- MODULE BackupGateProofs --------------------------
(* Proofs about BackupGate, for any number of writes, runs and faults.     *)
EXTENDS BackupGate, TLAPS

-----------------------------------------------------------------------------
(* The inductive invariant.                                                *)

\* A worker without the barrier never works with a permit.
UngatedPass == \A w \in Writes : w \notin gated => pc[w] \in {"idle", "done"}

\* Only a run that has ended may still have requests under way that could give
\* it a lease or take it.
LateOwners ==
  \A o \in Owners :
    /\ <<"acquire", o>> \in late => phase[o] \in {"release", "over"}
    /\ <<"release", o>> \in late => phase[o] = "over"

\* A request to return a permit is sent only after the mutation has landed.
LateLeaves ==
  \A w \in Writes, n \in 0..Attempts-1 :
    <<"leave", w, n>> \in late => pc[w] \in {"leave", "done", "gaveup", "dead"}

\* A run that captures had every writer's barrier verified.
Covered ==
  \A o \in Owners :
    phase[o] \in {"drain", "first", "second", "check"} => gated = Writes

\* As long as a run that saw the gate drained still has its first lease, no
\* permit exists and the storage is what it copied.
Sealed ==
  \A o \in Owners :
    phase[o] \in {"first", "second", "check"} /\ Held(o)
      => /\ permits = {}
         /\ phase[o] # "first" => first[o] = stored
         /\ phase[o] = "check" => second[o] = stored

\* A run that passed its last check copied one state.
Checked ==
  \A o \in Owners :
    sound[o] => phase[o] \in {"release", "over"} /\ first[o] = second[o]

IInv ==
  /\ TypeOK
  /\ UngatedPass
  /\ PermitCoversWrite
  /\ LateOwners
  /\ LateLeaves
  /\ Covered
  /\ Sealed
  /\ Checked

-----------------------------------------------------------------------------

LEMMA InitOK == Init => IInv
  BY GateAssumption DEF GateAssumption, Init, IInv, TypeOK, UngatedPass,
     PermitCoversWrite, LateOwners, LateLeaves, Covered, Sealed, Checked,
     Held, WriterStep, Phase, Message

\* What happens to a request that failed for its writer or its run.
LEMMA UnansweredWrite ==
  ASSUME IInv, NEW w \in Writes, NEW k \in {"enter", "leave"},
         faults' \in 0..MaxFaults,
         \/ HandleEnter(w) /\ UNCHANGED late
         \/ HandleLeave(w) /\ UNCHANGED late
         \/ UNCHANGED <<gateVars, late>>
         \/ late' = late \cup {<<k, w, tries[w]>>} /\ UNCHANGED gateVars
  PROVE  /\ UNCHANGED <<lease, left>>
         /\ permits' \in {permits, permits \cup {w}, permits \ {w}}
         /\ w \in permits' /\ w \notin permits => ~ \E o \in Owners : Held(o)
         /\ late' \subseteq Message
         /\ \A o \in Owners :
              /\ <<"acquire", o>> \in late' => <<"acquire", o>> \in late
              /\ <<"release", o>> \in late' => <<"release", o>> \in late
         /\ \A v \in Writes, n \in 0..Attempts-1 :
              <<"leave", v, n>> \in late'
                => <<"leave", v, n>> \in late \/ (v = w /\ k = "leave")
  <1>1. <<k, w, tries[w]>> \in Message
    BY DEF IInv, TypeOK, Message
  <1>2. \A o \in Owners : Held(o) => ~ Open
    BY GateAssumption DEF GateAssumption, Held, Open, IInv, TypeOK
  <1>3. late \subseteq Message
    BY DEF IInv, TypeOK
  <1>4. \A o \in Owners : \A l \in {"acquire", "release"} :
          <<l, o>> # <<k, w, tries[w]>>
    OBVIOUS
  <1>5. \A v \in Writes, n \in 0..Attempts-1 :
          <<"leave", v, n>> = <<k, w, tries[w]>> => v = w /\ k = "leave"
    OBVIOUS
  <1>6. /\ UNCHANGED <<lease, left>>
        /\ permits' \in {permits, permits \cup {w}, permits \ {w}}
        /\ w \in permits' /\ w \notin permits => Open
    BY DEF HandleEnter, HandleLeave, Admits, gateVars
  <1>7. late' = late \/ late' = late \cup {<<k, w, tries[w]>>}
    BY DEF gateVars
  <1>8. late' \subseteq Message
    BY <1>1, <1>3, <1>7
  <1>9. \A o \in Owners :
          /\ <<"acquire", o>> \in late' => <<"acquire", o>> \in late
          /\ <<"release", o>> \in late' => <<"release", o>> \in late
    BY <1>4, <1>7
  <1>10. \A v \in Writes, n \in 0..Attempts-1 :
           <<"leave", v, n>> \in late'
             => <<"leave", v, n>> \in late \/ (v = w /\ k = "leave")
    BY <1>5, <1>7
  <1>11. QED
    BY <1>2, <1>6, <1>8, <1>9, <1>10

\* Steps that move one writer and change neither the storage nor the lease,
\* and no permit but its own.
LEMMA WriterMove ==
  ASSUME IInv, NEW w \in Writes,
         UNCHANGED <<lease, left, backupVars, stored, gated, straggled>>,
         pc' \in [Writes -> WriterStep],
         tries' \in [Writes -> 0..Attempts-1],
         faults' \in 0..MaxFaults,
         permits' \in {permits, permits \cup {w}, permits \ {w}},
         w \in permits' /\ w \notin permits => ~ \E o \in Owners : Held(o),
         late' \subseteq Message,
         \A o \in Owners :
           /\ <<"acquire", o>> \in late' => <<"acquire", o>> \in late
           /\ <<"release", o>> \in late' => <<"release", o>> \in late,
         \A v \in Writes, n \in 0..Attempts-1 :
           <<"leave", v, n>> \in late'
             => <<"leave", v, n>> \in late \/ (v = w /\ pc[w] = "leave"),
         \A v \in Writes \ {w} : pc'[v] = pc[v],
         pc[w] \in {"leave", "done", "gaveup", "dead"}
           => pc'[w] \in {"leave", "done", "gaveup", "dead"},
         pc'[w] \in {"write", "adrift"} => w \in permits',
         w \notin gated => pc'[w] \in {"idle", "done"}
  PROVE  IInv'
  <1>1. TypeOK'
    BY DEF IInv, TypeOK, backupVars
  <1>2. UngatedPass' /\ PermitCoversWrite' /\ LateLeaves'
    BY DEF IInv, UngatedPass, PermitCoversWrite, LateLeaves
  <1>3. LateOwners' /\ Covered' /\ Checked'
    BY DEF IInv, LateOwners, Covered, Checked, backupVars
  <1>4. Sealed'
    <2> SUFFICES ASSUME NEW o \in Owners,
                        phase'[o] \in {"first", "second", "check"}, Held(o)'
                 PROVE  /\ permits' = {}
                        /\ phase'[o] # "first" => first'[o] = stored'
                        /\ phase'[o] = "check" => second'[o] = stored'
      BY DEF Sealed
    <2>1. Held(o)
      BY DEF Held
    <2>2. QED
      BY <2>1 DEF IInv, Sealed, backupVars
  <1>5. QED
    BY <1>1, <1>2, <1>3, <1>4 DEF IInv

\* A mutation reaches the storage: then no run that captures can be sure of its
\* lease.
LEMMA Stores ==
  ASSUME IInv, NEW w \in Writes, Write(w) \/ LandsLate(w) \/ WriteUngated(w)
  PROVE  IInv'
  <1>1. /\ UNCHANGED <<gateVars, backupVars, late, gated, faults, straggled>>
        /\ stored' = stored \cup {w}
        /\ pc' \in [Writes -> WriterStep] /\ tries' \in [Writes -> 0..Attempts-1]
        /\ \A v \in Writes \ {w} : pc'[v] = pc[v]
        /\ pc'[w] \in {"leave", "dead", "done"}
        /\ pc[w] = "idle" => w \notin gated
        /\ w \notin gated => pc'[w] = "done"
    BY GateAssumption DEF GateAssumption, IInv, TypeOK, UngatedPass, Write, LandsLate, WriteUngated,
       WriterGoes, WriterStep
  <1>2. TypeOK'
    BY <1>1 DEF IInv, TypeOK, gateVars, backupVars
  <1>3. UngatedPass' /\ PermitCoversWrite' /\ LateLeaves'
    BY <1>1 DEF IInv, UngatedPass, PermitCoversWrite, LateLeaves, gateVars
  <1>4. LateOwners' /\ Covered' /\ Checked'
    BY <1>1 DEF IInv, LateOwners, Covered, Checked, backupVars
  <1>5. w \in permits \/ w \notin gated
    BY DEF IInv, PermitCoversWrite, Write, LandsLate, WriteUngated
  <1>6. Sealed'
    <2> SUFFICES ASSUME NEW o \in Owners,
                        phase'[o] \in {"first", "second", "check"}, Held(o)'
                 PROVE  FALSE
      BY DEF Sealed
    <2>1. phase[o] \in {"first", "second", "check"} /\ Held(o)
      BY <1>1 DEF Held, gateVars, backupVars
    <2>2. permits = {} /\ gated = Writes
      BY <2>1 DEF IInv, Sealed, Covered
    <2>3. QED
      BY <1>5, <2>2
  <1>7. QED
    BY <1>2, <1>3, <1>4, <1>6 DEF IInv

\* Of these, the ones that change nothing at the coordinator and send nothing.
LEMMA QuietMove ==
  ASSUME IInv, NEW w \in Writes,
         UNCHANGED <<lease, left, permits, backupVars, stored, gated, straggled, late>>,
         pc' \in [Writes -> WriterStep],
         tries' \in [Writes -> 0..Attempts-1],
         faults' \in 0..MaxFaults,
         \A v \in Writes \ {w} : pc'[v] = pc[v],
         w \in gated,
         \/ pc[w] = "write" /\ pc'[w] = "adrift" /\ w \in permits
         \/ pc'[w] \in {"leave", "dead"}
  PROVE  IInv'
  <1>1. /\ permits' \in {permits, permits \cup {w}, permits \ {w}}
        /\ w \in permits' <=> w \in permits
        /\ late' = late /\ late \subseteq Message
    BY DEF IInv, TypeOK
  <1>2. UNCHANGED <<lease, left, backupVars, stored, gated, straggled>>
    OBVIOUS
  <1>3. QED
    BY <1>1, <1>2, WriterMove

LEMMA WriterSteps ==
  ASSUME IInv, NEW w \in Writes, WriterMoves(w) \/ WriterFault(w) \/ WriteUngated(w)
  PROVE  IInv'
  <1> USE GateAssumption DEF GateAssumption
  <1>0. TypeOK /\ Attempts-1 \in Nat
    BY DEF IInv
  <1>1. CASE EnterGranted(w)
    <2>1. w \notin permits => ~ \E o \in Owners : Held(o)
      BY <1>0, <1>1 DEF EnterGranted, Admits, Open, Held, TypeOK
    <2>2. /\ w \in gated /\ pc[w] \in {"idle", "enter"} /\ pc'[w] = "write"
          /\ pc' \in [Writes -> WriterStep] /\ tries' \in [Writes -> 0..Attempts-1]
          /\ \A v \in Writes \ {w} : pc'[v] = pc[v]
          /\ w \in permits' /\ permits' = permits \cup {w}
      BY <1>0, <1>1 DEF TypeOK, EnterGranted, HandleEnter, Entering, WriterGoes,
         WriterStep
    <2>3. /\ UNCHANGED <<lease, left, backupVars, stored, gated, straggled, late>>
          /\ faults' \in 0..MaxFaults /\ late' \subseteq Message
      BY <1>0, <1>1 DEF TypeOK, EnterGranted, HandleEnter
    <2>4. /\ permits' \in {permits, permits \cup {w}, permits \ {w}}
          /\ late' = late /\ UNCHANGED <<lease, left, backupVars, stored, gated, straggled>>
      BY <2>2, <2>3
    <2>5. QED
      BY <2>1, <2>2, <2>3, <2>4, WriterMove
  <1>2. CASE EnterRefused(w)
    <2>1. /\ w \in gated /\ pc[w] \in {"idle", "enter"} /\ pc'[w] = "leave"
          /\ pc' \in [Writes -> WriterStep] /\ tries' \in [Writes -> 0..Attempts-1]
          /\ \A v \in Writes \ {w} : pc'[v] = pc[v]
      BY <1>0, <1>2 DEF TypeOK, EnterRefused, Entering, WriterGoes, WriterStep
    <2>2. /\ UNCHANGED <<lease, left, permits, backupVars, stored, gated, straggled, late>>
          /\ faults' \in 0..MaxFaults /\ late' \subseteq Message
      BY <1>0, <1>2 DEF TypeOK, EnterRefused, gateVars
    <2>3. QED
      BY <2>1, <2>2, QuietMove
  <1>3. CASE EnterFails(w)
    <2>1. /\ UNCHANGED <<backupVars, stored, gated, straggled>>
          /\ faults' \in 0..MaxFaults
          /\ pc' \in [Writes -> WriterStep]
          /\ tries' \in [Writes -> 0..Attempts-1]
          /\ \A v \in Writes \ {w} : pc'[v] = pc[v]
          /\ pc[w] \in {"idle", "enter"} /\ pc'[w] \in {"enter", "leave"}
          /\ w \in gated
      BY <1>0, <1>3 DEF TypeOK, EnterFails, Entering, Unanswered, Fail, WriterGoes,
         Exhausted, AfterEnter, WriterStep
    <2>2. \/ HandleEnter(w) /\ UNCHANGED late
          \/ UNCHANGED <<gateVars, late>>
          \/ late' = late \cup {<<"enter", w, tries[w]>>} /\ UNCHANGED gateVars
      BY <1>3 DEF EnterFails, Unanswered
    <2>3. QED
      BY <2>1, <2>2, UnansweredWrite, WriterMove
  <1>4. CASE Write(w) \/ LandsLate(w) \/ WriteUngated(w)
    BY <1>4, Stores
  <1>5. CASE WriteRejected(w)
    <2>1. CASE stored' = stored \cup {w}
      BY <1>5, <2>1, Stores DEF WriteRejected, Write
    <2>2. CASE UNCHANGED stored
      <3>1. /\ w \in gated /\ pc[w] = "write" /\ pc'[w] = "leave"
            /\ pc' \in [Writes -> WriterStep] /\ tries' \in [Writes -> 0..Attempts-1]
            /\ \A v \in Writes \ {w} : pc'[v] = pc[v]
        BY <1>0, <1>5 DEF TypeOK, WriteRejected, WriterGoes, WriterStep, IInv, UngatedPass
      <3>2. /\ UNCHANGED <<lease, left, permits, backupVars, stored, gated, straggled, late>>
            /\ faults' \in 0..MaxFaults
        BY <1>0, <1>5, <2>2 DEF TypeOK, WriteRejected, gateVars
      <3>3. QED
        BY <3>1, <3>2, QuietMove
    <2>3. QED
      BY <1>5, <2>1, <2>2 DEF WriteRejected
  <1>6. CASE LeaveAnswered(w)
    BY <1>0, <1>6, WriterMove DEF TypeOK, LeaveAnswered, HandleLeave, WriterGoes,
       WriterStep, IInv, UngatedPass, backupVars
  <1>7. CASE LeaveFails(w)
    <2>1. /\ UNCHANGED <<backupVars, stored, gated, straggled>>
          /\ faults' \in 0..MaxFaults
          /\ pc' \in [Writes -> WriterStep]
          /\ tries' \in [Writes -> 0..Attempts-1]
          /\ \A v \in Writes \ {w} : pc'[v] = pc[v]
          /\ pc[w] = "leave" /\ pc'[w] \in {"gaveup", "leave"}
          /\ w \in gated
      BY <1>0, <1>7 DEF TypeOK, LeaveFails, Unanswered, Fail, WriterGoes,
         Exhausted, WriterStep, IInv, UngatedPass
    <2>2. \/ HandleLeave(w) /\ UNCHANGED late
          \/ UNCHANGED <<gateVars, late>>
          \/ late' = late \cup {<<"leave", w, tries[w]>>} /\ UNCHANGED gateVars
      BY <1>7 DEF LeaveFails, Unanswered
    <2>3. QED
      BY <2>1, <2>2, UnansweredWrite, WriterMove
  <1>8. CASE WriterDies(w)
    <2>1. /\ w \in gated
          /\ \/ pc[w] = "write" /\ pc'[w] = "adrift" /\ w \in permits
             \/ pc[w] \in {"enter", "leave"} /\ pc'[w] = "dead"
          /\ pc' \in [Writes -> WriterStep] /\ tries' \in [Writes -> 0..Attempts-1]
          /\ \A v \in Writes \ {w} : pc'[v] = pc[v]
      BY <1>0, <1>8 DEF TypeOK, WriterDies, WriterGoes, WriterStep, IInv, UngatedPass,
         PermitCoversWrite
    <2>2. /\ UNCHANGED <<lease, left, permits, backupVars, stored, gated, straggled, late>>
          /\ faults' \in 0..MaxFaults
      BY <1>0, <1>8 DEF TypeOK, WriterDies, Fail, gateVars
    <2>3. QED
      BY <2>1, <2>2, QuietMove
  <1>9. QED
    BY <1>1, <1>2, <1>3, <1>4, <1>5, <1>6, <1>7, <1>8
       DEF WriterMoves, WriterFault

\* What a request of a run, or its loss, does to the lease: never to a live one
\* of another run.
LEMMA ControlCalls ==
  ASSUME TypeOK, NEW o \in Owners,
         HandleAcquire(o) \/ HandleRenew(o) \/ HandleRelease(o) \/ UNCHANGED gateVars
  PROVE  /\ permits' = permits
         /\ lease' \in Owners \cup {NoOwner} /\ left' \in 0..LeaseTime
         /\ \A p \in Owners \ {o} : Held(p)' <=> Held(p)
         /\ Held(o)' => Held(o) \/ HandleAcquire(o)
  BY GateAssumption DEF GateAssumption, TypeOK, HandleAcquire, HandleRenew,
     HandleRelease, Held, Grant, Open, gateVars

\* Steps of one run that leave the storage alone.
LEMMA RunMove ==
  ASSUME IInv, NEW o \in Owners,
         UNCHANGED <<writerVars, stored, gated, straggled>>,
         HandleAcquire(o) \/ HandleRenew(o) \/ HandleRelease(o) \/ UNCHANGED gateVars,
         TypeOK',
         \A w \in Writes, n \in 0..Attempts-1 :
           <<"leave", w, n>> \in late' => <<"leave", w, n>> \in late,
         \A p \in Owners \ {o} :
           /\ phase'[p] = phase[p] /\ first'[p] = first[p]
           /\ second'[p] = second[p] /\ sound'[p] = sound[p]
           /\ <<"acquire", p>> \in late' => <<"acquire", p>> \in late
           /\ <<"release", p>> \in late' => <<"release", p>> \in late,
         <<"acquire", o>> \in late' => phase'[o] \in {"release", "over"},
         <<"release", o>> \in late' => phase'[o] = "over",
         phase'[o] \in {"drain", "first", "second", "check"} => gated = Writes,
         phase'[o] \in {"first", "second", "check"} /\ Held(o)' =>
           /\ permits = {}
           /\ phase'[o] # "first" => first'[o] = stored
           /\ phase'[o] = "check" => second'[o] = stored,
         sound'[o] => phase'[o] \in {"release", "over"} /\ first'[o] = second'[o]
  PROVE  IInv'
  <1>0. TypeOK
    BY DEF IInv
  <1>1. permits' = permits /\ \A p \in Owners \ {o} : Held(p)' <=> Held(p)
    BY <1>0, ControlCalls
  <1>2. UngatedPass' /\ PermitCoversWrite' /\ LateLeaves'
    BY <1>1 DEF IInv, UngatedPass, PermitCoversWrite, LateLeaves, writerVars
  <1>3. LateOwners'
    <2> SUFFICES ASSUME NEW p \in Owners
                 PROVE  /\ <<"acquire", p>> \in late' => phase'[p] \in {"release", "over"}
                        /\ <<"release", p>> \in late' => phase'[p] = "over"
      BY DEF LateOwners
    <2>1. CASE p = o
      BY <2>1
    <2>2. CASE p # o
      BY <2>2 DEF IInv, LateOwners
    <2>3. QED
      BY <2>1, <2>2
  <1>4. Covered' /\ Checked'
    <2> SUFFICES ASSUME NEW p \in Owners
                 PROVE  /\ phase'[p] \in {"drain", "first", "second", "check"} => gated' = Writes
                        /\ sound'[p] => phase'[p] \in {"release", "over"} /\ first'[p] = second'[p]
      BY DEF Covered, Checked
    <2>1. CASE p = o
      BY <2>1
    <2>2. CASE p # o
      BY <2>2 DEF IInv, Covered, Checked
    <2>3. QED
      BY <2>1, <2>2
  <1>5. Sealed'
    <2> SUFFICES ASSUME NEW p \in Owners,
                        phase'[p] \in {"first", "second", "check"}, Held(p)'
                 PROVE  /\ permits' = {}
                        /\ phase'[p] # "first" => first'[p] = stored'
                        /\ phase'[p] = "check" => second'[p] = stored'
      BY DEF Sealed
    <2>1. CASE p = o
      BY <1>1, <2>1
    <2>2. CASE p # o
      BY <1>1, <2>2 DEF IInv, Sealed
    <2>3. QED
      BY <2>1, <2>2
  <1>6. QED
    BY <1>2, <1>3, <1>4, <1>5 DEF IInv

LEMMA RunTypes ==
  ASSUME IInv, NEW o \in Owners, RunMoves(o) \/ RunFault(o) \/ Renew(o)
  PROVE  TypeOK'
  <1>0. TypeOK
    BY DEF IInv
  <1> USE GateAssumption DEF GateAssumption, TypeOK, Message
  <1>1. CASE Acquire(o)
    BY <1>0, <1>1 DEF Acquire, HandleAcquire, RunGoes, Phase, gateVars, writerVars
  <1>2. CASE Poll(o) \/ CopyFirst(o) \/ CopySecond(o) \/ Check(o) \/ Abort(o)
    BY <1>0, <1>2 DEF Poll, CopyFirst, CopySecond, Check, Abort, RunGoes, Phase,
       gateVars, writerVars
  <1>3. CASE Release(o) \/ ReleaseFails(o) \/ BackupDies(o)
    <2>1. HandleRelease(o) \/ UNCHANGED gateVars
      BY <1>3 DEF Release, ReleaseFails, BackupDies, Unanswered
    <2>2. /\ late' \subseteq late \cup {<<"release", o>>}
          /\ faults' \in 0..MaxFaults
          /\ UNCHANGED <<writerVars, stored, gated, straggled>>
      <3>1. CASE Release(o)
        BY <1>0, <3>1 DEF Release
      <3>2. CASE ReleaseFails(o)
        BY <1>0, <3>2 DEF ReleaseFails, Unanswered, Fail
      <3>3. CASE BackupDies(o)
        BY <1>0, <3>3 DEF BackupDies, Fail
      <3>4. QED
        BY <1>3, <3>1, <3>2, <3>3
    <2>3. \E ok \in BOOLEAN : RunEnds(o, ok)
      BY <1>0, <1>3 DEF Release, ReleaseFails, BackupDies, Held
    <2>4. /\ phase' \in [Owners -> Phase] /\ sound' \in [Owners -> BOOLEAN]
          /\ lost' \in [Owners -> BOOLEAN]
          /\ first' \in [Owners -> SUBSET Writes] /\ second' \in [Owners -> SUBSET Writes]
      BY <1>0, <2>3 DEF RunEnds, RunGoes, Phase
    <2>5. QED
      BY <1>0, <2>1, <2>2, <2>4, ControlCalls DEF writerVars
  <1>4. CASE AcquireFails(o) \/ RenewFails(o) \/ Renew(o)
    <2>1. HandleAcquire(o) \/ HandleRenew(o) \/ UNCHANGED gateVars
      BY <1>4 DEF AcquireFails, RenewFails, Renew, Unanswered
    <2>2. /\ late' \subseteq late \cup {<<"acquire", o>>, <<"renew", o>>}
          /\ faults' \in 0..MaxFaults
          /\ UNCHANGED <<writerVars, first, second, sound, stored, gated, straggled>>
      BY <1>0, <1>4 DEF AcquireFails, RenewFails, Renew, Unanswered, Fail
    <2>3. phase' \in [Owners -> Phase] /\ lost' \in [Owners -> BOOLEAN]
      BY <1>0, <1>4 DEF AcquireFails, RenewFails, Renew, RunGoes, Phase, Held
    <2>4. QED
      BY <1>0, <2>1, <2>2, <2>3, ControlCalls DEF writerVars
  <1>5. QED
    BY <1>1, <1>2, <1>3, <1>4 DEF RunMoves, RunFault

LEMMA RunSteps ==
  ASSUME IInv, NEW o \in Owners, RunMoves(o) \/ RunFault(o) \/ Renew(o)
  PROVE  IInv'
  <1>0. TypeOK /\ TypeOK' /\ LateOwners /\ Covered /\ Sealed /\ Checked
    BY RunTypes DEF IInv
  <1> USE DEF RunGoes, TypeOK
  <1>1. CASE Acquire(o)
    <2>1. HandleAcquire(o) \/ UNCHANGED gateVars
      BY <1>1 DEF Acquire
    <2>2. <<"acquire", o>> \notin late /\ <<"release", o>> \notin late /\ ~ sound[o]
      BY <1>0, <1>1 DEF Acquire, LateOwners, Checked
    <2>3. QED
      BY <1>0, <1>1, <2>1, <2>2, RunMove DEF Acquire, Verified, writerVars
  <1>2. CASE Poll(o)
    BY <1>0, <1>2, RunMove DEF Poll, Covered, Checked, LateOwners, Held, gateVars, writerVars
  <1>3. CASE CopyFirst(o)
    BY <1>0, <1>3, RunMove DEF CopyFirst, Covered, Sealed, Checked, LateOwners, Held, gateVars, writerVars
  <1>4. CASE CopySecond(o)
    BY <1>0, <1>4, RunMove DEF CopySecond, Covered, Sealed, Checked, LateOwners, Held, gateVars, writerVars
  <1>5. CASE Check(o)
    <2>1. /\ phase' = [phase EXCEPT ![o] = "release"]
          /\ sound' = [sound EXCEPT ![o] = ~ lost[o] /\ Held(o) /\ permits = {}]
          /\ UNCHANGED <<gateVars, writerVars, first, second, late, stored, gated, straggled>>
      BY <1>5 DEF Check
    <2>2. Held(o) => first[o] = second[o]
      BY <1>0, <1>5 DEF Check, Sealed
    <2>3. <<"acquire", o>> \notin late /\ <<"release", o>> \notin late
      BY <1>0, <1>5 DEF Check, LateOwners
    <2>4. QED
      BY <1>0, <2>1, <2>2, <2>3, RunMove
  <1>6. CASE Abort(o)
    BY <1>0, <1>6, RunMove DEF Abort, Checked, LateOwners, Held, gateVars, writerVars
  <1>7. CASE Release(o)
    <2> DEFINE ok == sound[o] /\ Held(o)
    <2>1. /\ HandleRelease(o) /\ phase' = [phase EXCEPT ![o] = "over"]
          /\ sound' = [sound EXCEPT ![o] = ok]
          /\ first' = [first EXCEPT ![o] = IF ok THEN @ ELSE {}]
          /\ second' = [second EXCEPT ![o] = IF ok THEN @ ELSE {}]
          /\ UNCHANGED <<writerVars, late, stored, gated, straggled>>
      BY <1>7 DEF Release, RunEnds
    <2>2. sound[o] => first[o] = second[o]
      BY <1>0 DEF Checked
    <2> HIDE DEF ok
    <2>3. ok => sound[o]
      BY DEF ok
    <2>4. QED
      BY <1>0, <2>1, <2>2, <2>3, RunMove DEF LateOwners
  <1>8. CASE AcquireFails(o)
    <2>1. HandleAcquire(o) \/ UNCHANGED gateVars
      BY <1>8 DEF AcquireFails, Unanswered
    <2>2. late' \subseteq late \cup {<<"acquire", o>>}
      BY <1>8 DEF AcquireFails, Unanswered, gateVars
    <2>3. phase[o] = "idle" /\ phase' = [phase EXCEPT ![o] = "release"]
          /\ UNCHANGED <<writerVars, first, second, lost, sound, stored, gated, straggled>>
      BY <1>8 DEF AcquireFails
    <2>4. <<"acquire", o>> \notin late /\ <<"release", o>> \notin late /\ ~ sound[o]
      BY <1>0, <2>3 DEF LateOwners, Checked
    <2>5. QED
      BY <1>0, <2>1, <2>2, <2>3, <2>4, RunMove
  <1>9. CASE RenewFails(o) \/ Renew(o)
    <2>1. /\ HandleRenew(o) \/ UNCHANGED gateVars
          /\ late' \subseteq late \cup {<<"renew", o>>}
          /\ UNCHANGED <<writerVars, phase, first, second, sound, stored, gated, straggled>>
          /\ phase[o] \in {"drain", "first", "second", "check"}
      BY <1>9 DEF RenewFails, Renew, Renewing, Unanswered
    <2>2. Held(o)' => Held(o)
      BY <2>1 DEF HandleRenew, Held, gateVars
    <2>3. /\ \A w \in Writes, n \in 0..Attempts-1 : <<"leave", w, n>> # <<"renew", o>>
          /\ \A p \in Owners : <<"acquire", p>> # <<"renew", o>> /\ <<"release", p>> # <<"renew", o>>
      OBVIOUS
    <2>4. /\ <<"acquire", o>> \notin late /\ <<"release", o>> \notin late
          /\ gated = Writes /\ ~ sound[o]
      BY <1>0, <2>1 DEF LateOwners, Covered, Checked
    <2>5. phase[o] \in {"first", "second", "check"} /\ Held(o)' =>
           /\ permits = {}
           /\ phase[o] # "first" => first[o] = stored
           /\ phase[o] = "check" => second[o] = stored
      BY <1>0, <2>2 DEF Sealed
    <2>6. QED
      BY <1>0, <2>1, <2>3, <2>4, <2>5, RunMove
  <1>10. CASE ReleaseFails(o)
    <2>1. /\ HandleRelease(o) \/ UNCHANGED gateVars
          /\ late' \subseteq late \cup {<<"release", o>>}
          /\ RunEnds(o, FALSE) /\ UNCHANGED <<writerVars, stored, gated, straggled>>
      BY <1>10 DEF ReleaseFails, Unanswered
    <2>2. phase[o] = "release"
      BY <1>10 DEF ReleaseFails
    <2>3. /\ phase' = [phase EXCEPT ![o] = "over"]
          /\ sound' = [sound EXCEPT ![o] = FALSE]
          /\ first' = [first EXCEPT ![o] = {}]
          /\ second' = [second EXCEPT ![o] = {}]
      BY <2>1 DEF RunEnds
    <2>4. /\ \A w \in Writes, n \in 0..Attempts-1 : <<"leave", w, n>> # <<"release", o>>
          /\ \A p \in Owners : <<"acquire", p>> # <<"release", o>>
          /\ \A p \in Owners \ {o} : <<"release", p>> # <<"release", o>>
      OBVIOUS
    <2>5. <<"acquire", o>> \in late' => phase'[o] \in {"release", "over"}
      BY <1>0, <2>1, <2>3, <2>4
    <2>6. /\ \A w \in Writes, n \in 0..Attempts-1 :
                <<"leave", w, n>> \in late' => <<"leave", w, n>> \in late
          /\ \A p \in Owners \ {o} :
                /\ <<"acquire", p>> \in late' => <<"acquire", p>> \in late
                /\ <<"release", p>> \in late' => <<"release", p>> \in late
      BY <2>1, <2>4
    <2>7. /\ phase'[o] = "over" /\ ~ sound'[o]
          /\ \A p \in Owners \ {o} : /\ phase'[p] = phase[p] /\ first'[p] = first[p]
                                     /\ second'[p] = second[p] /\ sound'[p] = sound[p]
      BY <1>0, <2>3
    <2>8. QED
      BY <1>0, <2>1, <2>5, <2>6, <2>7, RunMove
  <1>11. CASE BackupDies(o)
    BY <1>0, <1>11, RunMove DEF BackupDies, RunEnds, gateVars, writerVars
  <1>12. QED
    BY <1>1, <1>2, <1>3, <1>4, <1>5, <1>6, <1>7, <1>8, <1>9, <1>10, <1>11
       DEF RunMoves, RunFault

\* A late request takes no live lease from its owner and returns none to a run
\* that still captures.
LEMMA LateSteps ==
  ASSUME IInv
  PROVE  /\ \A o \in Owners : LateControl(o) => IInv'
         /\ \A w \in Writes, n \in 0..Attempts-1 :
              LateEnter(w, n) \/ LateLeave(w, n) => IInv'
  <1>0. TypeOK /\ LateOwners /\ Covered /\ Sealed /\ Checked
    BY DEF IInv
  <1>1. ASSUME NEW o \in Owners, LateControl(o) PROVE IInv'
    <2>1. /\ UNCHANGED <<writerVars, backupVars, stored, gated, faults, straggled>>
          /\ late' \subseteq late
          /\ HandleAcquire(o) \/ HandleRenew(o) \/ HandleRelease(o)
      BY <1>1 DEF LateControl, Arrives
    <2>2. TypeOK'
      <3>1. permits' = permits /\ lease' \in Owners \cup {NoOwner} /\ left' \in 0..LeaseTime
        BY <1>0, <2>1, ControlCalls
      <3>2. QED
        BY <1>0, <2>1, <3>1 DEF TypeOK, writerVars, backupVars
    <2>3. phase[o] \in {"first", "second", "check"} /\ Held(o)' => Held(o)
      <3>1. SUFFICES ASSUME phase[o] \in {"first", "second", "check"}
                     PROVE  Held(o)' => Held(o)
        OBVIOUS
      <3>2. <<"acquire", o>> \notin late
        BY <1>0, <3>1 DEF LateOwners
      <3>3. HandleRenew(o) \/ HandleRelease(o)
        BY <1>1, <3>2 DEF LateControl, Arrives
      <3>4. QED
        BY <3>3 DEF HandleRenew, HandleRelease, Held
    <2>4. QED
      BY <1>0, <2>1, <2>2, <2>3, RunMove DEF backupVars, LateOwners, Covered, Sealed, Checked
  <1>2. ASSUME NEW w \in Writes, NEW n \in 0..Attempts-1,
               LateEnter(w, n) \/ LateLeave(w, n)
        PROVE  IInv'
    <2>1. /\ UNCHANGED <<lease, left, writerVars, backupVars, stored, gated, faults>>
          /\ late' \subseteq late
          /\ straggled' \subseteq Writes
          /\ permits' \in {permits, permits \cup {w}, permits \ {w}}
          /\ permits' = permits \ {w} => LateLeave(w, n) \/ permits' = permits
          /\ w \in permits' /\ w \notin permits => Open
      BY <1>0, <1>2 DEF LateEnter, LateLeave, Arrives, HandleEnter, HandleLeave, Admits, TypeOK
    <2>2. TypeOK' /\ UngatedPass' /\ LateOwners' /\ LateLeaves' /\ Covered' /\ Checked'
      BY <1>0, <2>1 DEF TypeOK, UngatedPass, LateOwners, LateLeaves, Covered, Checked, IInv,
         writerVars, backupVars
    <2>3. Sealed'
      <3>1. \A o \in Owners : Held(o) => ~ Open
        BY <1>0, GateAssumption DEF GateAssumption, Held, Open, TypeOK
      <3>2. \A o \in Owners : Held(o)' <=> Held(o)
        BY <2>1 DEF Held
      <3>3. QED
        BY <1>0, <2>1, <3>1, <3>2 DEF Sealed, backupVars
    <2>4. PermitCoversWrite'
      <3>1. LateLeave(w, n) => pc[w] \notin {"write", "adrift"}
        BY DEF IInv, LateLeaves, LateLeave, Arrives
      <3>2. QED
        BY <2>1, <3>1 DEF IInv, PermitCoversWrite, writerVars
    <2>5. QED
      BY <2>2, <2>3, <2>4 DEF IInv
  <1>3. QED
    BY <1>1, <1>2

LEMMA TickStep == IInv /\ Tick => IInv'
  <1> SUFFICES ASSUME IInv, Tick PROVE IInv'
    OBVIOUS
  <1>1. \A o \in Owners : Held(o)' => Held(o)
    BY DEF Tick, Held
  <1>2. TypeOK'
    BY GateAssumption DEF GateAssumption, Tick, IInv, TypeOK, writerVars, backupVars
  <1>3. QED
    BY <1>1, <1>2 DEF Tick, IInv, UngatedPass, PermitCoversWrite, LateOwners,
       LateLeaves, Covered, Sealed, Checked, writerVars, backupVars

LEMMA Stutter == IInv /\ UNCHANGED vars => IInv'
  BY DEF IInv, TypeOK, UngatedPass, PermitCoversWrite, LateOwners, LateLeaves,
     Covered, Sealed, Checked, Held, vars, gateVars, writerVars, backupVars

THEOREM Invariance == Spec => []IInv
  <1>1. IInv /\ [Next]_vars => IInv'
    BY WriterSteps, RunSteps, LateSteps, TickStep, Stutter DEF Next
  <1>2. QED
    BY <1>1, InitOK, PTL DEF Spec

-----------------------------------------------------------------------------
(* The results.                                                            *)

\* The coordinator, the writers and the runs keep their types.
THEOREM TypeCorrect == Spec => []TypeOK
  BY Invariance, PTL DEF IInv

\* A guarded mutation in flight is covered by its permit, for any number of
\* writers and faults: permits do not expire, and a permit is only returned
\* when the mutation has landed.
THEOREM WritesAreCovered == Spec => []PermitCoversWrite
  BY Invariance, PTL DEF IInv

\* The copies of a successful backup show one state of the storage: its lease
\* was never lost, because no request can restore a lost one, and no permit was
\* granted under it.
THEOREM BackupIsOneMoment == Spec => []OneMoment
  <1>1. IInv => OneMoment
    BY DEF IInv, Checked, OneMoment
  <1>2. QED
    BY <1>1, Invariance, PTL

\* A live lease ends only with its own run.
THEOREM LeasesAreHonoured == Spec => LeaseHonoured
  <1>1. IInv /\ [Next]_vars =>
          \A o \in Owners : Held(o) /\ lease' # o => phase'[o] = "over"
    <2> SUFFICES ASSUME IInv, [Next]_vars, NEW o \in Owners, Held(o), lease' # o
                 PROVE  phase'[o] = "over"
      OBVIOUS
    <2>0. TypeOK /\ LateOwners /\ ~ Open
      BY GateAssumption DEF GateAssumption, IInv, TypeOK, Held, Open
    <2>1. lease' # lease
      BY DEF Held
    <2>2. PICK p \in Owners :
            \/ HandleAcquire(p)
            \/ /\ HandleRelease(p)
               /\ Release(p) \/ ReleaseFails(p) \/ Arrives(<<"release", p>>)
      BY <2>1 DEF Next, WriterMoves, WriterFault, RunMoves, RunFault, vars, gateVars,
         EnterGranted, EnterRefused, EnterFails, Write, WriteRejected, LeaveAnswered,
         LeaveFails, WriterDies, LandsLate, WriteUngated, Acquire, AcquireFails, Poll,
         CopyFirst, CopySecond, Check, Abort, Renew, RenewFails, Release, ReleaseFails,
         BackupDies, LateEnter, LateLeave, LateControl, Arrives, Tick, Unanswered,
         HandleEnter, HandleLeave, HandleRenew
    <2>3. ~ HandleAcquire(p)
      BY <2>0, <2>1 DEF HandleAcquire, Grant, Held
    <2>4. p = o
      BY <2>1, <2>2, <2>3 DEF HandleRelease, Held
    <2>5. QED
      BY <2>0, <2>2, <2>3, <2>4 DEF Release, ReleaseFails, RunEnds, RunGoes, Arrives,
         LateOwners, TypeOK, backupVars
  <1>2. QED
    BY <1>1, Invariance, PTL DEF Spec, LeaseHonoured
=============================================================================

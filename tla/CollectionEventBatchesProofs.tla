-------------------- MODULE CollectionEventBatchesProofs --------------------
(***************************************************************************)
(* Proofs about CollectionEventBatches, for every number of events,        *)
(* requests and flushes, every limit, and any number of crashes, failures, *)
(* deferrals, lost leases and retries.                                     *)
(***************************************************************************)
EXTENDS CollectionEventBatches, FiniteSetTheorems, TLAPS

-----------------------------------------------------------------------------
(* Types.  A post at work has an event and a minute, a flush past its claim *)
(* a group, and a group in process has used an attempt.                    *)

Shape ==
  /\ \A p \in Posts : ppc[p] # "idle" => ev[p] \in Events /\ at[p] \in Minutes
  /\ \A f \in Flushes : fpc[f] \notin {"idle", "claim"} => grp[f] \in Groups
  /\ \A g \in Groups : gstatus[g] = "processing" => attempts[g] > 0

Typed == TypeOK /\ Shape

LEMMA QuotientBounded ==
  ASSUME NEW n \in Nat, NEW c \in Nat \ {0}
  PROVE  n \div c \in 0..n
  OBVIOUS

LEMMA Increment ==
  ASSUME NEW F \in [Groups -> Nat], NEW g
  PROVE  [F EXCEPT ![g] = @ + 1] \in [Groups -> Nat]
<1>1. \A h \in Groups : [F EXCEPT ![g] = @ + 1][h] \in Nat
  OBVIOUS
<1> QED
  BY <1>1

LEMMA Decrement ==
  ASSUME NEW F \in [Groups -> Nat], NEW g \in Groups, F[g] > 0
  PROVE  [F EXCEPT ![g] = @ - 1] \in [Groups -> Nat]
<1>1. F[g] - 1 \in Nat
  OBVIOUS
<1> QED
  BY <1>1

\* A function to sets keeps its type when a value loses elements.
LEMMA Reduced ==
  ASSUME NEW D, NEW E, NEW F \in [D -> SUBSET E], NEW d, NEW S
  PROVE  [F EXCEPT ![d] = @ \ S] \in [D -> SUBSET E]
<1>1. \A c \in D : [F EXCEPT ![d] = @ \ S][c] \in SUBSET E
  OBVIOUS
<1> QED
  BY <1>1

LEMMA ChunkIsGroup ==
  ASSUME NEW m \in Minutes
  PROVE  ChunkOf(m) \in Groups
<1> DEFINE S == {e \in Events : item[e] # "none" /\ group[e][1] = m}
<1>1. IsFiniteSet(Events) /\ S \subseteq Events
  BY BatchesAssumption
<1>2. /\ Cardinality(S) \in Nat /\ Cardinality(Events) \in Nat
      /\ Cardinality(S) <= Cardinality(Events)
  BY <1>1, FS_Subset, FS_CardinalityType
<1> HIDE DEF S
<1>3. Cardinality(S) \div ChunkSize \in 0..Cardinality(S)
  BY <1>2, QuotientBounded, BatchesAssumption
<1>4. Cardinality(S) \div ChunkSize \in 0..Cardinality(Events)
  BY <1>2, <1>3
<1> QED
  BY <1>4 DEF ChunkOf, Groups, S

LEMMA PostDoneType ==
  ASSUME Typed, NEW p \in Posts, PostDone(p)
  PROVE  /\ ppc' \in [Posts -> PostPhase] /\ ev' \in [Posts -> Events \cup {None}]
         /\ at' \in [Posts -> 0..LastMinute]
         /\ \A q \in Posts : ppc'[q] # "idle" => ev'[q] \in Events /\ at'[q] \in Minutes
  BY BatchesAssumption DEF Typed, TypeOK, Shape, PostDone, PostGoto, PostPhase

LEMMA PostGotoType ==
  ASSUME Typed, NEW p \in Posts, NEW phase \in PostPhase, PostGoto(p, phase),
         ppc[p] # "idle", UNCHANGED <<ev, at>>
  PROVE  /\ ppc' \in [Posts -> PostPhase]
         /\ \A q \in Posts : ppc'[q] # "idle" => ev'[q] \in Events /\ at'[q] \in Minutes
  BY DEF Typed, TypeOK, Shape, PostGoto

LEMMA StoreItemType ==
  ASSUME Typed, NEW p \in Posts, Store(p)
  PROVE  /\ item' \in [Events -> {"none", "pending", "accepted", "skipped"}]
         /\ group' \in [Events -> Groups \cup {NoGroup}]
<1>1. /\ item \in [Events -> {"none", "pending", "accepted", "skipped"}]
      /\ group \in [Events -> Groups \cup {NoGroup}]
  BY DEF Typed, TypeOK
<1>2. at[p] \in Minutes
  BY DEF Typed, Shape, Store
<1>3. ChunkOf(at[p]) \in Groups
  BY <1>2, ChunkIsGroup
<1>4. \/ UNCHANGED <<item, group>>
      \/ /\ item' = [item EXCEPT ![ev[p]] = "pending"]
         /\ group' = [group EXCEPT ![ev[p]] = ChunkOf(at[p])]
  BY DEF Store
<1>5. CASE UNCHANGED <<item, group>>
  BY <1>1, <1>5
<1>6. CASE /\ item' = [item EXCEPT ![ev[p]] = "pending"]
           /\ group' = [group EXCEPT ![ev[p]] = ChunkOf(at[p])]
  <2>1. item' \in [Events -> {"none", "pending", "accepted", "skipped"}]
    BY <1>1, <1>6
  <2>2. group' \in [Events -> Groups \cup {NoGroup}]
    BY <1>1, <1>3, <1>6
  <2> QED
    BY <2>1, <2>2
<1> QED
  BY <1>4, <1>5, <1>6

LEMMA PostType ==
  ASSUME Typed, NEW p \in Posts, PostStep(p) \/ PostError(p)
  PROVE  Typed'
<1> USE DEF Typed, TypeOK, admissionVars, itemVars, groupVars, queueVars, envVars,
            flushVars, workVars, boundVars
<1>1. CASE Receive(p)
  BY <1>1, BatchesAssumption DEF Receive, Shape, PostGoto, PostPhase, Minutes
<1>2. CASE Store(p)
  <2>1. ChunkOf(at[p]) \in Groups /\ ev[p] \in Events
    BY <1>2, ChunkIsGroup DEF Store, Shape
  <2>2. /\ ppc' \in [Posts -> PostPhase]
        /\ \A q \in Posts : ppc'[q] # "idle" => ev'[q] \in Events /\ at'[q] \in Minutes
    BY <1>2, PostGotoType DEF Store, PostPhase
  <2>3. admission' \in [Events -> {"none", "wakeup_pending", "queued", "accepted", "skipped"}]
    BY <1>2, <2>1 DEF Store
  <2>4. /\ item' \in [Events -> {"none", "pending", "accepted", "skipped"}]
        /\ group' \in [Events -> Groups \cup {NoGroup}]
    BY <1>2, StoreItemType
  <2>5. /\ gstatus' \in [Groups -> {"absent", "pending", "processing", "completed", "failed"}]
        /\ \A g \in Groups : gstatus'[g] = "processing" => gstatus[g] = "processing"
    BY <1>2, <2>1 DEF Store
  <2> QED
    BY <1>2, <2>2, <2>3, <2>4, <2>5 DEF Store, Shape
<1>3. CASE Look(p)
  <2>1. ASSUME NEW phase \in {"adopt", "send"}, PostGoto(p, phase), UNCHANGED <<ev, at, acked>>
        PROVE  Typed'
    BY <1>3, <2>1, PostGotoType DEF Look, Shape, PostPhase
  <2>2. CASE PostDone(p)
    <3>1. acked' \in SUBSET Events
      BY <1>3 DEF Look, Shape
    <3> QED
      BY <1>3, <2>2, <3>1, PostDoneType DEF Look, Shape
  <2> QED
    BY <1>3, <2>1, <2>2 DEF Look
<1>4. CASE Adopt(p)
  <2>1. admission' \in [Events -> {"none", "wakeup_pending", "queued", "accepted", "skipped"}]
    BY <1>4 DEF Adopt
  <2>2. acked' \in SUBSET Events
    BY <1>4 DEF Adopt, Shape
  <2> QED
    BY <1>4, <2>1, <2>2, PostDoneType DEF Adopt, Shape
<1>5. CASE SendWakeup(p)
  <2>1. sent' \in [Groups -> Nat] /\ backed' = backed
    BY <1>5, Increment DEF SendWakeup, Announce
  <2>2. "confirm" \in PostPhase /\ PostGoto(p, "confirm") /\ UNCHANGED <<ev, at>>
        /\ ppc[p] # "idle"
    BY <1>5 DEF SendWakeup, PostPhase
  <2>3. /\ ppc' \in [Posts -> PostPhase]
        /\ \A q \in Posts : ppc'[q] # "idle" => ev'[q] \in Events /\ at'[q] \in Minutes
    BY <2>2, PostGotoType
  <2> QED
    BY <1>5, <2>1, <2>3 DEF SendWakeup, Shape
<1>6. CASE Confirm(p)
  <2>1. admission' \in [Events -> {"none", "wakeup_pending", "queued", "accepted", "skipped"}]
    BY <1>6 DEF Confirm
  <2>2. acked' \in SUBSET Events
    BY <1>6 DEF Confirm, Shape
  <2> QED
    BY <1>6, <2>1, <2>2, PostDoneType DEF Confirm, Shape
<1>7. CASE PostError(p)
  <2>1. errors' \in 0..MaxErrors
    BY <1>7, BatchesAssumption DEF PostError
  <2> QED
    BY <1>7, <2>1, PostDoneType DEF PostError, Shape
<1> QED
  BY <1>1, <1>2, <1>3, <1>4, <1>5, <1>6, <1>7 DEF PostStep

LEMMA LeaveType ==
  ASSUME Typed, NEW f \in Flushes, Leave(f)
  PROVE  /\ fpc' \in [Flushes -> FlushPhase] /\ grp' \in [Flushes -> Groups \cup {NoGroup}]
         /\ byQueue' \in [Flushes -> BOOLEAN] /\ tries' \in [Flushes -> 0..MaxAttempts]
         /\ auth' \in [Flushes -> SUBSET Events] /\ bare' \in [Flushes -> SUBSET Events]
         /\ chunk' \in [Flushes -> SUBSET Events]
         /\ \A h \in Flushes : fpc'[h] \notin {"idle", "claim"} => grp'[h] \in Groups
  BY BatchesAssumption DEF Typed, TypeOK, Shape, Leave, Goto, FlushPhase

LEMMA GotoType ==
  ASSUME Typed, NEW f \in Flushes, NEW phase \in FlushPhase, Goto(f, phase),
         fpc[f] \notin {"idle", "claim"}, UNCHANGED grp
  PROVE  /\ fpc' \in [Flushes -> FlushPhase]
         /\ \A h \in Flushes : fpc'[h] \notin {"idle", "claim"} => grp'[h] \in Groups
  BY DEF Typed, TypeOK, Shape, Goto

GroupStatus == {"absent", "pending", "processing", "completed", "failed"}

LEMMA CloseType ==
  ASSUME Typed, NEW g \in Groups, NEW s \in GroupStatus \ {"processing"}, CloseGroup(g, s)
  PROVE  /\ gstatus' \in [Groups -> GroupStatus]
         /\ lease' \in [Groups -> Flushes \cup {None}] /\ live' \in [Groups -> BOOLEAN]
         /\ gstatus'[g] = s
         /\ \A h \in Groups \ {g} : gstatus'[h] = gstatus[h]
  BY DEF Typed, TypeOK, CloseGroup, GroupStatus

LEMMA CleanupType ==
  ASSUME Typed, Cleanup
  PROVE  /\ gstatus' \in [Groups -> GroupStatus]
         /\ lease' \in [Groups -> Flushes \cup {None}]
         /\ \A g \in Groups : gstatus'[g] = "processing" => gstatus[g] = "processing"
  BY DEF Typed, TypeOK, Cleanup, GroupStatus

LEMMA DecideType ==
  ASSUME Typed, NEW S, NEW s \in {"accepted", "skipped"}, Decide(S, s)
  PROVE  /\ item' \in [Events -> {"none", "pending", "accepted", "skipped"}]
         /\ admission' \in [Events -> {"none", "wakeup_pending", "queued", "accepted", "skipped"}]
  BY DEF Typed, TypeOK, Decide

LEMMA RedeliverType ==
  ASSUME Typed, NEW f \in Flushes, NEW b \in BOOLEAN, Redeliver(f, b)
  PROVE  sent' \in [Groups -> Nat] /\ backed' \in [Groups -> Nat]
<1> USE DEF Typed, TypeOK, Redeliver, queueVars
<1>1. CASE UNCHANGED <<sent, backed>>
  BY <1>1
<1>2. CASE backed' = [backed EXCEPT ![grp[f]] = @ + 1] /\ sent' = sent
  BY <1>2, Increment
<1>3. CASE sent' = [sent EXCEPT ![grp[f]] = @ + 1] /\ backed' = backed
  BY <1>3, Increment
<1> QED
  BY <1>1, <1>2, <1>3

LEMMA WakeType ==
  ASSUME Typed, NEW f \in Flushes, NEW g \in Groups, Wake(f, g)
  PROVE  sent' \in [Groups -> Nat] /\ backed' \in [Groups -> Nat]
<1>1. sent \in [Groups -> Nat] /\ backed \in [Groups -> Nat]
  BY DEF Typed, TypeOK
<1>2. \/ sent[g] > 0 /\ sent' = [sent EXCEPT ![g] = @ - 1] /\ backed' = backed
      \/ backed[g] > 0 /\ backed' = [backed EXCEPT ![g] = @ - 1] /\ sent' = sent
  BY DEF Wake
<1> QED
  BY <1>1, <1>2, Decrement

\* A claim takes one of the group's attempts.
LEMMA ClaimType ==
  ASSUME Typed, NEW f \in Flushes, NEW g \in Groups, Claimable(g),
         gstatus' = [gstatus EXCEPT ![g] = "processing"],
         attempts' = [attempts EXCEPT ![g] = @ + 1],
         lease' = [lease EXCEPT ![g] = f], live' = [live EXCEPT ![g] = TRUE],
         grp' = [grp EXCEPT ![f] = g], tries' = [tries EXCEPT ![f] = attempts[g] + 1],
         Goto(f, "read")
  PROVE  /\ gstatus' \in [Groups -> {"absent", "pending", "processing", "completed", "failed"}]
         /\ attempts' \in [Groups -> 0..MaxAttempts]
         /\ lease' \in [Groups -> Flushes \cup {None}] /\ live' \in [Groups -> BOOLEAN]
         /\ grp' \in [Flushes -> Groups \cup {NoGroup}]
         /\ tries' \in [Flushes -> 0..MaxAttempts] /\ fpc' \in [Flushes -> FlushPhase]
         /\ \A h \in Flushes : fpc'[h] \notin {"idle", "claim"} => grp'[h] \in Groups
         /\ \A h \in Groups : gstatus'[h] = "processing" => attempts'[h] > 0
<1>1. /\ gstatus \in [Groups -> {"absent", "pending", "processing", "completed", "failed"}]
      /\ attempts \in [Groups -> 0..MaxAttempts]
      /\ lease \in [Groups -> Flushes \cup {None}] /\ live \in [Groups -> BOOLEAN]
      /\ grp \in [Flushes -> Groups \cup {NoGroup}]
      /\ tries \in [Flushes -> 0..MaxAttempts] /\ fpc \in [Flushes -> FlushPhase]
  BY DEF Typed, TypeOK
<1>2. /\ \A h \in Flushes : fpc[h] \notin {"idle", "claim"} => grp[h] \in Groups
      /\ \A h \in Groups : gstatus[h] = "processing" => attempts[h] > 0
  BY DEF Typed, Shape
<1>3. attempts[g] + 1 \in 0..MaxAttempts /\ attempts[g] + 1 > 0
  BY <1>1, BatchesAssumption DEF Claimable
<1>4. gstatus' \in [Groups -> {"absent", "pending", "processing", "completed", "failed"}]
  BY <1>1
<1>5. attempts' \in [Groups -> 0..MaxAttempts]
  BY <1>1, <1>3
<1>6. lease' \in [Groups -> Flushes \cup {None}] /\ live' \in [Groups -> BOOLEAN]
  BY <1>1
<1>7. grp' \in [Flushes -> Groups \cup {NoGroup}] /\ tries' \in [Flushes -> 0..MaxAttempts]
  BY <1>1, <1>3
<1>8. fpc' \in [Flushes -> FlushPhase]
  BY <1>1 DEF Goto, FlushPhase
<1>9. ASSUME NEW h \in Flushes, fpc'[h] \notin {"idle", "claim"}
      PROVE  grp'[h] \in Groups
  BY <1>1, <1>2, <1>9 DEF Goto
<1>10. ASSUME NEW h \in Groups, gstatus'[h] = "processing"
       PROVE  attempts'[h] > 0
  BY <1>1, <1>2, <1>3, <1>10
<1> QED
  BY <1>4, <1>5, <1>6, <1>7, <1>8, <1>9, <1>10

\* An event that is marked leaves the flush's sets.
LEMMA MarkType ==
  ASSUME Typed, NEW f \in Flushes, Mark(f)
  PROVE  auth' \in [Flushes -> SUBSET Events] /\ chunk' \in [Flushes -> SUBSET Events]
<1>1. auth \in [Flushes -> SUBSET Events] /\ chunk \in [Flushes -> SUBSET Events]
  BY DEF Typed, TypeOK
<1>2. \/ UNCHANGED <<auth, chunk>>
      \/ \E e \in chunk[f] : /\ auth' = [auth EXCEPT ![f] = @ \ {e}]
                             /\ chunk' = [chunk EXCEPT ![f] = @ \ {e}]
  BY DEF Mark
<1>3. CASE UNCHANGED <<auth, chunk>>
  BY <1>1, <1>3
<1>4. ASSUME NEW e, auth' = [auth EXCEPT ![f] = @ \ {e}], chunk' = [chunk EXCEPT ![f] = @ \ {e}]
      PROVE  auth' \in [Flushes -> SUBSET Events] /\ chunk' \in [Flushes -> SUBSET Events]
  <2>1. /\ [auth EXCEPT ![f] = @ \ {e}] \in [Flushes -> SUBSET Events]
        /\ [chunk EXCEPT ![f] = @ \ {e}] \in [Flushes -> SUBSET Events]
    BY <1>1, Reduced
  <2> QED
    BY <1>4, <2>1
<1> QED
  BY <1>2, <1>3, <1>4

\* Assigning an execution id to some of the events read.
LEMMA AssignType ==
  ASSUME Typed, NEW f \in Flushes, NEW S \in SUBSET (auth[f] \cap bare[f]), Assign(f, S)
  PROVE  exec' \in [Events -> SUBSET Events] /\ bare' \in [Flushes -> SUBSET Events]
<1>1. /\ exec \in [Events -> SUBSET Events] /\ bare \in [Flushes -> SUBSET Events]
      /\ S \in SUBSET Events
  BY DEF Typed, TypeOK
<1>2. \/ exec' = exec
      \/ exec' = [e \in Events |-> IF e \in S /\ item[e] = "pending" /\ exec[e] = {}
                                  THEN S ELSE exec[e]]
  BY DEF Assign
<1>3. bare' = bare \/ bare' = [bare EXCEPT ![f] = @ \ S]
  BY DEF Assign
<1>4. exec' \in [Events -> SUBSET Events]
  BY <1>1, <1>2
<1>5. [bare EXCEPT ![f] = @ \ S] \in [Flushes -> SUBSET Events]
  BY <1>1, Reduced
<1>6. bare' \in [Flushes -> SUBSET Events]
  BY <1>1, <1>3, <1>5
<1> QED
  BY <1>4, <1>6

LEMMA FlushStarts ==
  ASSUME Typed, NEW f \in Flushes, Cron(f) \/ \E g \in Groups : Wake(f, g)
  PROVE  Typed'
<1> USE DEF Typed, TypeOK, admissionVars, itemVars, queueVars, envVars, postVars,
            workVars, boundVars
<1>1. CASE Cron(f)
  BY <1>1, CleanupType DEF Cron, Shape, Goto, FlushPhase, GroupStatus
<1>2. ASSUME NEW g \in Groups, Wake(f, g)
      PROVE  Typed'
  <2>1. sent' \in [Groups -> Nat] /\ backed' \in [Groups -> Nat]
    BY <1>2, WakeType
  <2> QED
    <3>1. /\ gstatus' \in [Groups -> GroupStatus]
          /\ lease' \in [Groups -> Flushes \cup {None}]
          /\ \A h \in Groups : gstatus'[h] = "processing" => gstatus[h] = "processing"
      BY <1>2, CleanupType DEF Wake
    <3>2. /\ fpc' \in [Flushes -> FlushPhase]
          /\ \A h \in Flushes : fpc'[h] \notin {"idle", "claim"} => grp'[h] \in Groups
      BY <1>2 DEF Wake, Shape, Goto, FlushPhase
    <3>3. grp' \in [Flushes -> Groups \cup {NoGroup}] /\ byQueue' \in [Flushes -> BOOLEAN]
      BY <1>2 DEF Wake
    <3> QED
      BY <1>2, <2>1, <3>1, <3>2, <3>3 DEF Wake, Shape, GroupStatus
<1> QED
  BY <1>1, <1>2

LEMMA FlushTypeA ==
  ASSUME Typed, NEW f \in Flushes,
         Claim(f) \/ Read(f) \/ Authorize(f) \/ Reread(f) \/ Pack(f) \/ Submit(f)
  PROVE  Typed'
<1> USE DEF Typed, TypeOK, admissionVars, itemVars, groupVars, queueVars, envVars, postVars,
            workVars, boundVars
<1>1. CASE Claim(f)
  <2>1. ASSUME NEW g \in Groups, Claimable(g), gstatus' = [gstatus EXCEPT ![g] = "processing"],
               attempts' = [attempts EXCEPT ![g] = @ + 1],
               lease' = [lease EXCEPT ![g] = f], live' = [live EXCEPT ![g] = TRUE],
               grp' = [grp EXCEPT ![f] = g], tries' = [tries EXCEPT ![f] = attempts[g] + 1],
               Goto(f, "read"), UNCHANGED <<byQueue, workVars>>
        PROVE  Typed'
    BY <1>1, <2>1, ClaimType DEF Claim, Shape
  <2>2. CASE Leave(f) /\ UNCHANGED <<gstatus, attempts, lease, live>>
    BY <1>1, <2>2, LeaveType DEF Claim, Shape
  <2> QED
    BY <1>1, <2>1, <2>2 DEF Claim
<1>2. CASE Read(f)
  <2>1. Pending(grp[f]) \in SUBSET Events
    BY DEF Pending, Members
  <2>2. {e \in Pending(grp[f]) : exec[e] = {}} \in SUBSET Events
    BY <2>1
  <2>3. \A h \in Flushes : fpc'[h] \notin {"idle", "claim"} => grp'[h] \in Groups
    BY <1>2 DEF Read, Shape, Goto
  <2>4. \E phase \in FlushPhase : Goto(f, phase)
    BY <1>2 DEF Read, FlushPhase
  <2>5. fpc' \in [Flushes -> FlushPhase]
    BY <2>4 DEF Goto
  <2>6. CASE UNCHANGED <<auth, bare>>
    BY <1>2, <2>3, <2>5, <2>6 DEF Read, Shape
  <2>7. CASE /\ auth' = [auth EXCEPT ![f] = Pending(grp[f])]
             /\ bare' = [bare EXCEPT ![f] = {e \in Pending(grp[f]) : exec[e] = {}}]
    <3>1. auth' \in [Flushes -> SUBSET Events]
      BY <2>1, <2>7
    <3>2. bare' \in [Flushes -> SUBSET Events]
      BY <2>2, <2>7
    <3> QED
      BY <1>2, <2>3, <2>5, <3>1, <3>2 DEF Read, Shape
  <2> QED
    BY <1>2, <2>6, <2>7 DEF Read
<1>3. CASE Authorize(f)
  <2>1. /\ item' \in [Events -> {"none", "pending", "accepted", "skipped"}]
        /\ admission' \in [Events -> {"none", "wakeup_pending", "queued", "accepted", "skipped"}]
    BY <1>3, DecideType DEF Authorize, Reject, MarkItem
  <2>2. auth' \in [Flushes -> SUBSET Events]
    BY <1>3 DEF Authorize, Reject
  <2>3. fpc' \in [Flushes -> FlushPhase]
        /\ \A h \in Flushes : fpc'[h] \notin {"idle", "claim"} => grp'[h] \in Groups
    BY <1>3, GotoType DEF Authorize, Reject, FlushPhase, Shape
  <2> QED
    BY <1>3, <2>1, <2>2, <2>3 DEF Authorize, Shape
<1>4. CASE Reread(f)
  BY <1>4 DEF Reread, Shape, Goto, FlushPhase
<1>5. CASE Pack(f)
  <2>1. exec' \in [Events -> SUBSET Events] /\ bare' \in [Flushes -> SUBSET Events]
    <3>1. CASE UNCHANGED <<exec, bare>>
      BY <3>1
    <3>2. CASE \E S \in SUBSET (auth[f] \cap bare[f]) : Assign(f, S)
      BY <3>2, AssignType
    <3> QED
      BY <1>5, <3>1, <3>2 DEF Pack
  <2>2. fpc' \in [Flushes -> FlushPhase]
        /\ \A h \in Flushes : fpc'[h] \notin {"idle", "claim"} => grp'[h] \in Groups
    BY <1>5, GotoType DEF Pack, Assign, FlushPhase, Shape
  <2> QED
    BY <1>5, <2>1, <2>2 DEF Pack, Shape
<1>6. CASE Submit(f)
  <2>1. live' \in [Groups -> BOOLEAN] /\ chunk' \in [Flushes -> SUBSET Events]
    <3>1. CASE UNCHANGED <<live, chunk>>
      BY <3>1
    <3>2. CASE \E X \in {exec[e] : e \in auth[f]} :
                 /\ live' = [live EXCEPT ![grp[f]] = TRUE]
                 /\ chunk' = [chunk EXCEPT ![f] = {e \in auth[f] : exec[e] = X}]
      <4> PICK X \in {exec[e] : e \in auth[f]} :
                 /\ live' = [live EXCEPT ![grp[f]] = TRUE]
                 /\ chunk' = [chunk EXCEPT ![f] = {e \in auth[f] : exec[e] = X}]
        BY <3>2
      <4>1. {e \in auth[f] : exec[e] = X} \in SUBSET Events
        OBVIOUS
      <4>2. chunk' \in [Flushes -> SUBSET Events]
        BY <4>1
      <4>3. live' \in [Groups -> BOOLEAN]
        OBVIOUS
      <4> QED
        BY <4>2, <4>3
    <3> QED
      BY <1>6, <3>1, <3>2 DEF Submit
  <2>2. fpc' \in [Flushes -> FlushPhase]
        /\ \A h \in Flushes : fpc'[h] \notin {"idle", "claim"} => grp'[h] \in Groups
    BY <1>6, GotoType DEF Submit, FlushPhase, Shape
  <2> QED
    BY <1>6, <2>1, <2>2 DEF Submit, Shape
<1> QED
  BY <1>1, <1>2, <1>3, <1>4, <1>5, <1>6

LEMMA FlushTypeB ==
  ASSUME Typed, NEW f \in Flushes,
         Run(f) \/ RunFails(f) \/ Mark(f) \/ Count(f) \/ Finish(f) \/ Skip(f)
  PROVE  Typed'
<1> USE DEF Typed, TypeOK, admissionVars, itemVars, groupVars, queueVars, envVars, postVars,
            workVars, boundVars
<1>1. ASSUME Started(f)
      PROVE  ran' \in [SUBSET Events -> SUBSET Events]
  BY <1>1 DEF Started
<1>2. CASE Run(f)
  BY <1>1, <1>2 DEF Run, Shape, Goto, FlushPhase
<1>3. CASE RunFails(f)
  <2>1. ran' \in [SUBSET Events -> SUBSET Events]
    BY <1>1, <1>3 DEF RunFails
  <2>2. errors' \in 0..MaxErrors /\ deferrals' \in 0..MaxDeferrals
    BY <1>3, BatchesAssumption DEF RunFails
  <2>3. fpc' \in [Flushes -> FlushPhase]
        /\ \A h \in Flushes : fpc'[h] \notin {"idle", "claim"} => grp'[h] \in Groups
    BY <1>3 DEF RunFails, Goto, FlushPhase, Shape
  <2> QED
    BY <1>3, <2>1, <2>2, <2>3 DEF RunFails, Shape
<1>4. CASE Mark(f)
  <2>1. /\ item' \in [Events -> {"none", "pending", "accepted", "skipped"}]
        /\ admission' \in [Events -> {"none", "wakeup_pending", "queued", "accepted", "skipped"}]
    BY <1>4, DecideType DEF Mark, MarkItem
  <2>2. auth' \in [Flushes -> SUBSET Events] /\ chunk' \in [Flushes -> SUBSET Events]
    BY <1>4, MarkType
  <2>3. fpc' \in [Flushes -> FlushPhase]
        /\ \A h \in Flushes : fpc'[h] \notin {"idle", "claim"} => grp'[h] \in Groups
    BY <1>4, GotoType DEF Mark, FlushPhase, Shape
  <2> QED
    BY <1>4, <2>1, <2>2, <2>3 DEF Mark, Shape
<1>5. CASE Count(f)
  BY <1>5 DEF Count, Shape, Goto, FlushPhase
<1>6. ASSUME Holds(f), CloseGroup(grp[f], "completed"), Leave(f), grp[f] \in Groups,
             UNCHANGED <<group, exec, attempts, due, wait, queueVars, envVars, postVars, acked,
                         reset, ran, boundVars>>,
             item' \in [Events -> {"none", "pending", "accepted", "skipped"}],
             admission' \in [Events -> {"none", "wakeup_pending", "queued", "accepted", "skipped"}]
      PROVE  Typed'
  <2>1. "completed" \in GroupStatus \ {"processing"}
    BY DEF GroupStatus
  <2>2. /\ gstatus' \in [Groups -> GroupStatus]
        /\ lease' \in [Groups -> Flushes \cup {None}] /\ live' \in [Groups -> BOOLEAN]
        /\ \A h \in Groups : gstatus'[h] = "processing" => gstatus[h] = "processing"
    BY <1>6, <2>1, CloseType
  <2> QED
    BY <1>6, <2>2, LeaveType DEF Shape, GroupStatus
<1>7. CASE Finish(f)
  <2>1. CASE Holds(f) /\ CloseGroup(grp[f], "completed") /\ Leave(f)
    BY <1>6, <1>7, <2>1 DEF Finish, Shape
  <2>2. CASE Goto(f, "retry") /\ UNCHANGED <<gstatus, lease, live, grp, byQueue, tries, workVars>>
    BY <1>7, <2>2 DEF Finish, Shape, Goto, FlushPhase
  <2> QED
    BY <1>7, <2>1, <2>2 DEF Finish
<1>8. CASE Skip(f)
  <2>1. CASE Holds(f) /\ CloseGroup(grp[f], "completed") /\ Leave(f)
             /\ Decide(Members(grp[f]), "skipped")
    BY <1>6, <1>8, <2>1, DecideType DEF Skip, Shape
  <2>2. CASE /\ Goto(f, "retry")
             /\ UNCHANGED <<admission, item, gstatus, lease, live, grp, byQueue, tries, workVars>>
    BY <1>8, <2>2 DEF Skip, Shape, Goto, FlushPhase
  <2> QED
    BY <1>8, <2>1, <2>2 DEF Skip
<1> QED
  BY <1>2, <1>3, <1>4, <1>5, <1>7, <1>8

\* The catch block that still holds its group: a group in process is another.
LEMMA RetryCloses ==
  ASSUME Typed, NEW g \in Groups, NEW s \in GroupStatus \ {"processing"}, CloseGroup(g, s)
  PROVE  \A h \in Groups : gstatus'[h] = "processing" => gstatus[h] = "processing" /\ h # g
<1>1. gstatus'[g] = s /\ s # "processing" /\ \A h \in Groups \ {g} : gstatus'[h] = gstatus[h]
  BY CloseType
<1> QED
  BY <1>1

LEMMA FlushTypeC ==
  ASSUME Typed, NEW f \in Flushes, Retry(f) \/ FlushError(f) \/ FlushCrash(f)
  PROVE  Typed'
<1> USE DEF Typed, TypeOK, admissionVars, itemVars, groupVars, queueVars, envVars, postVars,
            workVars, boundVars
<1>1. CASE Retry(f)
  <2> DEFINE terminal == tries[f] >= MaxAttempts /\ ~ fpc[f] = "defer"
             next == IF terminal THEN "failed" ELSE "pending"
  <2>1. grp[f] \in Groups /\ next \in GroupStatus \ {"processing"}
    BY <1>1 DEF Retry, Shape, GroupStatus
  <2>2. sent' \in [Groups -> Nat] /\ backed' \in [Groups -> Nat]
    BY <1>1, RedeliverType DEF Retry
  <2>3. CASE /\ Holds(f) /\ CloseGroup(grp[f], next)
             /\ attempts' = [attempts EXCEPT ![grp[f]] = IF fpc[f] = "defer" THEN @ - 1 ELSE @]
             /\ wait' = [wait EXCEPT ![grp[f]] = ~ terminal]
    <3>1. /\ gstatus' \in [Groups -> GroupStatus]
          /\ lease' \in [Groups -> Flushes \cup {None}] /\ live' \in [Groups -> BOOLEAN]
          /\ \A h \in Groups : gstatus'[h] = "processing" => gstatus[h] = "processing" /\ h # grp[f]
      BY <2>1, <2>3, CloseType, RetryCloses
    <3>2. /\ attempts' \in [Groups -> 0..MaxAttempts]
          /\ \A h \in Groups \ {grp[f]} : attempts'[h] = attempts[h]
      BY <2>1, <2>3, BatchesAssumption DEF Holds, Shape
    <3>3. wait' \in [Groups -> BOOLEAN]
      BY <2>3
    <3>4. \A h \in Groups : gstatus'[h] = "processing" => attempts'[h] > 0
      BY <3>1, <3>2 DEF Shape
    <3> QED
      BY <1>1, <2>2, <3>1, <3>2, <3>3, <3>4, LeaveType DEF Retry, Shape, GroupStatus
  <2>4. CASE UNCHANGED <<gstatus, lease, live, attempts, wait>>
    BY <1>1, <2>2, <2>4, LeaveType DEF Retry, Shape
  <2> QED
    BY <1>1, <2>3, <2>4 DEF Retry
<1>2. CASE FlushError(f)
  BY <1>2, BatchesAssumption DEF FlushError, Shape, Goto, FlushPhase
<1>3. CASE FlushCrash(f)
  <2>1. sent' \in [Groups -> Nat] /\ backed' \in [Groups -> Nat]
    BY <1>3, RedeliverType DEF FlushCrash
  <2>2. crashes' \in 0..MaxCrashes
    BY <1>3, BatchesAssumption DEF FlushCrash
  <2> QED
    BY <1>3, <2>1, <2>2, LeaveType DEF FlushCrash, Shape
<1> QED
  BY <1>1, <1>2, <1>3

LEMMA TypeStep ==
  ASSUME Typed, [Next]_vars
  PROVE  Typed'
<1> USE DEF Typed, TypeOK, admissionVars, itemVars, groupVars, queueVars, envVars, postVars,
            flushVars, workVars, boundVars
<1>1. CASE ResetFailed
  <2>1. /\ gstatus' \in [Groups -> GroupStatus] /\ attempts' \in [Groups -> 0..MaxAttempts]
        /\ due' \in [Groups -> BOOLEAN] /\ wait' \in [Groups -> BOOLEAN]
    BY <1>1, BatchesAssumption DEF ResetFailed, GroupStatus
  <2>2. reset' \in SUBSET Groups /\ resets' \in 0..MaxResets
    BY <1>1, BatchesAssumption DEF ResetFailed
  <2>3. Shape'
    BY <1>1 DEF ResetFailed, Shape
  <2> QED
    BY <1>1, <2>1, <2>2, <2>3 DEF ResetFailed, GroupStatus
<1>2. ASSUME NEW g \in Groups, SendReset(g)
      PROVE  Typed'
  <2>1. sent' \in [Groups -> Nat] /\ backed' \in [Groups -> Nat]
    <3>1. CASE Announce(g)
      BY <3>1, Increment DEF Announce
    <3>2. CASE UNCHANGED queueVars
      BY <3>2
    <3> QED
      BY <1>2, <3>1, <3>2 DEF SendReset
  <2>2. /\ gstatus' \in [Groups -> GroupStatus]
        /\ \A h \in Groups : gstatus'[h] = "processing" => gstatus[h] = "processing"
    BY <1>2 DEF SendReset, GroupStatus
  <2>3. errors' \in 0..MaxErrors
    BY <1>2, BatchesAssumption DEF SendReset
  <2> QED
    BY <1>2, <2>1, <2>2, <2>3 DEF SendReset, Shape, GroupStatus
<1>3. ASSUME NEW g \in Groups, Expire(g)
      PROVE  Typed'
  <2>1. stalls' \in 0..MaxStalls
    BY <1>3, BatchesAssumption DEF Expire
  <2> QED
    BY <1>3, <2>1 DEF Expire, Shape
<1>4. CASE Reconfigure
  BY <1>4 DEF Reconfigure, Shape
<1>5. CASE TimeStep
  <2>1. CASE NextMinute
    BY <2>1, BatchesAssumption DEF NextMinute, Shape
  <2>2. ASSUME NEW g \in Groups, BecomeDue(g)
        PROVE  Typed'
    BY <2>2 DEF BecomeDue, Shape
  <2>3. ASSUME NEW g \in Groups, WaitOver(g)
        PROVE  Typed'
    BY <2>3 DEF WaitOver, Shape
  <2> QED
    BY <1>5, <2>1, <2>2, <2>3 DEF TimeStep
<1>6. CASE UNCHANGED vars
  BY <1>6 DEF vars, Shape
<1> QED
  BY <1>1, <1>2, <1>3, <1>4, <1>5, <1>6, PostType, FlushStarts, FlushTypeA, FlushTypeB,
     FlushTypeC DEF Next, FlushStep

LEMMA TypeInvariant == Spec => []Typed
<1>1. Init => Typed
  <2>1. 0 \in 0..MaxCrashes /\ 0 \in 0..MaxErrors /\ 0 \in 0..MaxDeferrals
        /\ 0 \in 0..MaxStalls /\ 0 \in 0..MaxResets /\ 0 \in 0..MaxAttempts
        /\ 1 \in 1..LastMinute + 1 /\ 0 \in 0..LastMinute
    BY BatchesAssumption
  <2> QED
    BY <2>1 DEF Init, Typed, TypeOK, Shape, PostPhase, FlushPhase
<1>2. Typed /\ [Next]_vars => Typed'
  BY TypeStep
<1> QED
  BY <1>1, <1>2, PTL DEF Spec

\* Admissions, items, groups, wake-ups, posts and flushes keep their types for
\* every number of events, posts and flushes and all limits.
THEOREM TypeCorrect == Spec => []TypeOK
<1>1. Typed => TypeOK
  BY DEF Typed
<1> QED
  BY <1>1, TypeInvariant, PTL

-----------------------------------------------------------------------------
(* Receipts: an admission comes with its item, an item with its group.     *)

Receipts ==
  /\ \A e \in Events : item[e] = "none" <=> admission[e] = "none"
  /\ \A e \in Events : item[e] # "none" => /\ group[e] \in Groups
                                           /\ gstatus[group[e]] # "absent"
  /\ \A p \in Posts : ppc[p] \in {"adopt", "send", "confirm"} => admission[ev[p]] # "none"
  /\ AckedIsKept

\* The types that matter here.
ReceiptTypes ==
  /\ admission \in [Events -> {"none", "wakeup_pending", "queued", "accepted", "skipped"}]
  /\ item \in [Events -> {"none", "pending", "accepted", "skipped"}]
  /\ group \in [Events -> Groups \cup {NoGroup}]
  /\ gstatus \in [Groups -> GroupStatus]
  /\ acked \in SUBSET Events
  /\ ppc \in [Posts -> PostPhase] /\ ev \in [Posts -> Events \cup {None}]
  /\ \A p \in Posts : ppc[p] # "idle" => ev[p] \in Events /\ at[p] \in Minutes
  /\ \A f \in Flushes : fpc[f] \notin {"idle", "claim"} => grp[f] \in Groups
  /\ \A f \in Flushes : auth[f] \in SUBSET Events /\ chunk[f] \in SUBSET Events

LEMMA ReceiptTypesHold ==
  ASSUME Typed
  PROVE  ReceiptTypes
BY DEF Typed, TypeOK, Shape, ReceiptTypes, GroupStatus

\* The statuses that count against the backlog.
Retained == {"pending", "processing", "failed"}

\* What no step outside a post does: admissions that appear or wait again, items
\* that appear or move, groups that disappear.
Kept ==
  /\ \A e \in Events : /\ item'[e] = "none" <=> item[e] = "none"
                       /\ admission'[e] = "none" <=> admission[e] = "none"
                       /\ admission[e] \in {"queued", "accepted", "skipped"} =>
                            admission'[e] \in {"queued", "accepted", "skipped"}
                       /\ item'[e] = "pending" => item[e] = "pending"
  /\ UNCHANGED <<group, acked>>
  /\ \A g \in Groups : /\ gstatus[g] # "absent" => gstatus'[g] # "absent"
                       /\ gstatus'[g] \in Retained => gstatus[g] \in Retained

LEMMA ReceiptsKept ==
  ASSUME ReceiptTypes, Receipts, Kept, UNCHANGED <<ppc, ev>>
  PROVE  Receipts'
<1>1. AckedIsKept'
  BY DEF ReceiptTypes, Receipts, Kept, AckedIsKept
<1> QED
  BY <1>1 DEF ReceiptTypes, Receipts, Kept

LEMMA DecideKeeps ==
  ASSUME ReceiptTypes, NEW S, NEW s \in {"accepted", "skipped"}, Decide(S, s)
  PROVE  \A e \in Events :
           /\ item'[e] = "none" <=> item[e] = "none"
           /\ admission'[e] = "none" <=> admission[e] = "none"
           /\ admission[e] \in {"queued", "accepted", "skipped"} =>
                             admission'[e] \in {"queued", "accepted", "skipped"}
           /\ item'[e] = "pending" => item[e] = "pending"
  BY DEF ReceiptTypes, Decide

LEMMA CloseKeeps ==
  ASSUME ReceiptTypes, NEW g \in Groups, NEW s \in {"pending", "completed", "failed"}, CloseGroup(g, s),
         gstatus[g] = "processing"
  PROVE  \A h \in Groups : /\ gstatus[h] # "absent" => gstatus'[h] # "absent"
                           /\ gstatus'[h] \in Retained => gstatus[h] \in Retained
  BY DEF ReceiptTypes, CloseGroup, Retained

FlushActs(f) ==
  \/ \E g \in Groups : Wake(f, g)
  \/ Cron(f) \/ FlushStep(f) \/ RunFails(f) \/ FlushError(f) \/ FlushCrash(f)

LEMMA FlushKeeps ==
  ASSUME ReceiptTypes, NEW f \in Flushes, FlushActs(f)
  PROVE  Kept /\ UNCHANGED <<ppc, ev>>
<1> USE DEF ReceiptTypes, admissionVars, itemVars, groupVars, queueVars, envVars, postVars,
            Kept
<1>1. CASE Cron(f) \/ \E g \in Groups : Wake(f, g)
  BY <1>1 DEF Cron, Wake, Cleanup, Exhausted, Retained
<1>2. CASE Claim(f)
  BY <1>2 DEF Claim, Claimable, Retained
<1>3. CASE Authorize(f)
  <2>1. \/ UNCHANGED <<admission, item>>
        \/ \E e \in Events : Decide({e}, "skipped")
    BY <1>3 DEF Authorize, Reject, MarkItem
  <2> QED
    BY <1>3, <2>1, DecideKeeps DEF Authorize
<1>4. CASE Mark(f)
  <2>1. \/ UNCHANGED <<admission, item>>
        \/ \E e \in Events : Decide({e}, "accepted")
    BY <1>4 DEF Mark, MarkItem
  <2> QED
    BY <1>4, <2>1, DecideKeeps DEF Mark
<1>5. CASE Finish(f)
  <2>1. grp[f] \in Groups
    BY <1>5 DEF Finish
  <2> QED
    BY <1>5, <2>1, CloseKeeps DEF Finish, Holds
<1>6. CASE Skip(f)
  <2>1. grp[f] \in Groups
    BY <1>6 DEF Skip
  <2>2. CASE /\ Decide(Members(grp[f]), "skipped") /\ CloseGroup(grp[f], "completed")
             /\ gstatus[grp[f]] = "processing"
    BY <1>6, <2>1, <2>2, CloseKeeps, DecideKeeps DEF Skip
  <2>3. CASE UNCHANGED <<admission, item, gstatus>>
    BY <1>6, <2>3 DEF Skip
  <2> QED
    BY <1>6, <2>2, <2>3 DEF Skip, Holds
<1>7. CASE Retry(f)
  <2>1. grp[f] \in Groups
    BY <1>7 DEF Retry
  <2>2. \/ \E s \in {"pending", "completed", "failed"} : CloseGroup(grp[f], s) /\ gstatus[grp[f]] = "processing"
        \/ UNCHANGED gstatus
    BY <1>7 DEF Retry, Holds
  <2>3. \A h \in Groups : /\ gstatus[h] # "absent" => gstatus'[h] # "absent"
                          /\ gstatus'[h] \in Retained => gstatus[h] \in Retained
    BY <2>1, <2>2, CloseKeeps
  <2> QED
    BY <1>7, <2>3 DEF Retry
<1>8. CASE \/ Read(f) \/ Reread(f) \/ Pack(f) \/ Submit(f) \/ Run(f) \/ Count(f)
           \/ RunFails(f) \/ FlushError(f) \/ FlushCrash(f)
  BY <1>8 DEF Read, Reread, Pack, Submit, Run, Count, RunFails, FlushError, FlushCrash
<1> QED
  BY <1>1, <1>2, <1>3, <1>4, <1>5, <1>6, <1>7, <1>8 DEF FlushActs, FlushStep

OtherActs ==
  \/ ResetFailed \/ \E g \in Groups : SendReset(g) \/ Expire(g)
  \/ Reconfigure \/ TimeStep \/ UNCHANGED vars

LEMMA OtherKeeps ==
  ASSUME ReceiptTypes, OtherActs
  PROVE  Kept /\ UNCHANGED <<ppc, ev>>
<1> USE DEF ReceiptTypes, admissionVars, itemVars, groupVars, queueVars, envVars, postVars,
            Kept
<1>1. CASE ResetFailed
  BY <1>1 DEF ResetFailed, Retained
<1>2. ASSUME NEW g \in Groups, SendReset(g)
      PROVE  Kept /\ UNCHANGED <<ppc, ev>>
  BY <1>2 DEF SendReset, Retained
<1>3. CASE Reconfigure \/ TimeStep \/ UNCHANGED vars \/ \E g \in Groups : Expire(g)
  BY <1>3 DEF Reconfigure, TimeStep, NextMinute, BecomeDue, WaitOver, Expire, vars
<1> QED
  BY <1>1, <1>2, <1>3 DEF OtherActs

LEMMA PostKeepsReceipts ==
  ASSUME ReceiptTypes, Receipts, NEW p \in Posts, PostStep(p) \/ PostError(p)
  PROVE  Receipts'
<1> USE DEF ReceiptTypes, Receipts, AckedIsKept, admissionVars, itemVars, groupVars, PostGoto
<1>1. CASE Receive(p)
  BY <1>1 DEF Receive
<1>2. CASE Store(p)
  <2>1. ev[p] \in Events /\ ChunkOf(at[p]) \in Groups
    BY <1>2, ChunkIsGroup DEF Store
  <2>2. CASE UNCHANGED <<item, group>>
    <3>1. \A g \in Groups : gstatus[g] # "absent" => gstatus'[g] # "absent"
      BY <1>2, <2>1 DEF Store
    <3>2. \A e \in Events : admission'[e] = admission[e]
      BY <1>2, <2>1, <2>2 DEF Store
    <3>3. \A q \in Posts : ppc'[q] \in {"adopt", "send", "confirm"} =>
                             ppc[q] = ppc'[q] /\ ev'[q] = ev[q] /\ ev[q] \in Events
      BY <1>2 DEF Store
    <3>4. UNCHANGED acked
      BY <1>2 DEF Store
    <3> QED
      BY <2>2, <3>1, <3>2, <3>3, <3>4
  <2>3. CASE /\ item[ev[p]] = "none" /\ item' = [item EXCEPT ![ev[p]] = "pending"]
             /\ group' = [group EXCEPT ![ev[p]] = ChunkOf(at[p])]
             /\ admission' = [admission EXCEPT ![ev[p]] = "wakeup_pending"]
    <3>1. /\ \A g \in Groups : gstatus[g] # "absent" => gstatus'[g] # "absent"
          /\ gstatus'[ChunkOf(at[p])] # "absent"
      BY <1>2, <2>1, <2>3 DEF Store
    <3>2. ev[p] \notin acked /\ acked' = acked
      BY <1>2, <2>3 DEF Store
    <3>3. \A q \in Posts : ppc'[q] \in {"adopt", "send", "confirm"} =>
                             ppc[q] = ppc'[q] /\ ev'[q] = ev[q] /\ ev[q] \in Events
      BY <1>2 DEF Store
    <3> QED
      BY <2>1, <2>3, <3>1, <3>2, <3>3
  <2> QED
    BY <1>2, <2>1, <2>2, <2>3 DEF Store
<1>3. CASE Look(p)
  <2>1. ev[p] \in Events
    BY <1>3 DEF Look
  <2>2. CASE admission[ev[p]] = "wakeup_pending"
    BY <1>3, <2>1, <2>2 DEF Look
  <2>3. CASE admission[ev[p]] # "wakeup_pending"
    <3>1. acked' = acked \/ (acked' = acked \cup {ev[p]} /\ admission[ev[p]] # "none")
      BY <1>3, <2>3 DEF Look, Admitted
    <3>2. \A q \in Posts : ppc'[q] \in {"adopt", "send", "confirm"} =>
                             ppc[q] = ppc'[q] /\ ev'[q] = ev[q] /\ ev[q] \in Events
      BY <1>3, <2>3 DEF Look, PostDone
    <3>3. admission[ev[p]] # "none" => admission[ev[p]] \in {"queued", "accepted", "skipped"}
      BY <2>1, <2>3
    <3> QED
      BY <1>3, <2>1, <3>1, <3>2, <3>3 DEF Look
  <2> QED
    BY <2>2, <2>3
<1>4. CASE Adopt(p)
  <2>1. ev[p] \in Events /\ admission[ev[p]] # "none"
    BY <1>4 DEF Adopt
  <2>2. /\ \A e \in Events : /\ admission'[e] = "none" <=> admission[e] = "none"
                             /\ admission[e] \in {"queued", "accepted", "skipped"} =>
                                  admission'[e] \in {"queued", "accepted", "skipped"}
        /\ admission'[ev[p]] \in {"queued", "accepted", "skipped"}
    BY <1>4, <2>1 DEF Adopt
  <2>3. \A q \in Posts : ppc'[q] \in {"adopt", "send", "confirm"} =>
                           ppc[q] = ppc'[q] /\ ev'[q] = ev[q] /\ ev[q] \in Events
    BY <1>4 DEF Adopt, PostDone
  <2> QED
    BY <1>4, <2>1, <2>2, <2>3 DEF Adopt
<1>5. CASE SendWakeup(p)
  BY <1>5 DEF SendWakeup
<1>6. CASE Confirm(p)
  <2>1. ev[p] \in Events /\ admission[ev[p]] # "none"
    BY <1>6 DEF Confirm
  <2>2. /\ \A e \in Events : /\ admission'[e] = "none" <=> admission[e] = "none"
                             /\ admission[e] \in {"queued", "accepted", "skipped"} =>
                                  admission'[e] \in {"queued", "accepted", "skipped"}
        /\ admission'[ev[p]] \in {"queued", "accepted", "skipped"}
    BY <1>6, <2>1 DEF Confirm, Members
  <2>3. \A q \in Posts : ppc'[q] \in {"adopt", "send", "confirm"} =>
                           ppc[q] = ppc'[q] /\ ev'[q] = ev[q] /\ ev[q] \in Events
    BY <1>6 DEF Confirm, PostDone
  <2> QED
    BY <1>6, <2>1, <2>2, <2>3 DEF Confirm
<1>7. CASE PostError(p)
  BY <1>7 DEF PostError, PostDone
<1> QED
  BY <1>1, <1>2, <1>3, <1>4, <1>5, <1>6, <1>7 DEF PostStep

LEMMA ReceiptsInvariant == Spec => []Receipts
<1>1. Init => Receipts
  BY DEF Init, Receipts, AckedIsKept
<1>2. Typed /\ Receipts /\ [Next]_vars => Receipts'
  BY ReceiptTypesHold, PostKeepsReceipts, FlushKeeps, OtherKeeps, ReceiptsKept DEF Next, FlushActs, OtherActs
<1> QED
  BY <1>1, <1>2, TypeInvariant, PTL DEF Spec

\* The host hears that an event is admitted only when its receipt is durable
\* and its group announced, whatever posts of the event overlap or fail.
THEOREM AcknowledgedIsKept == Spec => []AckedIsKept
<1>1. Receipts => AckedIsKept
  BY DEF Receipts
<1> QED
  BY <1>1, ReceiptsInvariant, PTL

LEMMA StoreBacklog ==
  ASSUME ReceiptTypes, Receipts, NEW p \in Posts, Store(p)
  PROVE  \/ Backlog' \subseteq Backlog
         \/ HasCapacity /\ Backlog' \subseteq Backlog \cup {ev[p]}
<1> USE DEF ReceiptTypes
<1>1. ev[p] \in Events /\ ChunkOf(at[p]) \in Groups
  BY ChunkIsGroup DEF Store
<1>2. \A e \in Events : item[e] # "none" /\ gstatus'[group[e]] \in Retained =>
                           gstatus[group[e]] \in Retained
  BY <1>1 DEF Store, Receipts, Retained
<1>3. CASE UNCHANGED <<item, group>>
  BY <1>2, <1>3 DEF Backlog, Retained
<1>4. CASE /\ HasCapacity /\ item' = [item EXCEPT ![ev[p]] = "pending"]
           /\ group' = [group EXCEPT ![ev[p]] = ChunkOf(at[p])]
  <2>1. \A e \in Events \ {ev[p]} : item'[e] = item[e] /\ group'[e] = group[e]
    BY <1>4
  <2> QED
    BY <1>2, <1>4, <2>1 DEF Backlog, Retained
<1>5. item[ev[p]] = "none" <=> admission[ev[p]] = "none"
  BY <1>1 DEF Receipts
<1> QED
  BY <1>3, <1>4, <1>5 DEF Store

LEMMA BacklogKept ==
  ASSUME ReceiptTypes, Receipts, Kept
  PROVE  Backlog' \subseteq Backlog
  BY DEF ReceiptTypes, Receipts, Kept, Backlog, Retained

\* The retained backlog of the organization never exceeds its limit, however
\* many posts store at once and whatever managers retry.
THEOREM BacklogIsBounded == Spec => []BacklogBounded
<1> DEFINE Grows == \/ Backlog' \subseteq Backlog
                    \/ HasCapacity /\ \E e : Backlog' \subseteq Backlog \cup {e}
<1>1. Init => BacklogBounded
  <2> SUFFICES ASSUME Init PROVE Cardinality(Backlog) <= Capacity
    BY DEF BacklogBounded
  <2>1. Backlog = {}
    BY DEF Init, Backlog
  <2> QED
    BY <2>1, FS_EmptySet, BatchesAssumption
<1>2. Typed /\ Receipts /\ [Next]_vars => Grows
  <2> SUFFICES ASSUME Typed, Receipts, [Next]_vars PROVE Grows
    OBVIOUS
  <2>1. ASSUME NEW p \in Posts, Store(p)
        PROVE  Grows
    BY <2>1, StoreBacklog, ReceiptTypesHold
  <2>2. CASE Kept
    BY <2>2, BacklogKept, ReceiptTypesHold
  <2>3. ASSUME NEW p \in Posts, PostStep(p) \/ PostError(p), ~ Store(p)
        PROVE  Grows
    <3>1. UNCHANGED <<item, group, gstatus>>
      BY <2>3 DEF PostStep, Receive, Look, Adopt, SendWakeup, Confirm, PostError, itemVars,
         groupVars
    <3> QED
      BY <3>1 DEF Backlog
  <2> QED
    BY <2>1, <2>2, <2>3, FlushKeeps, OtherKeeps, ReceiptTypesHold DEF Next, FlushActs, OtherActs
<1>3. BacklogBounded /\ Grows => BacklogBounded'
  <2> SUFFICES ASSUME Cardinality(Backlog) <= Capacity, Grows
               PROVE  Cardinality(Backlog') <= Capacity
    BY DEF BacklogBounded
  <2>1. IsFiniteSet(Backlog)
    BY FS_Subset, BatchesAssumption DEF Backlog
  <2>2. Cardinality(Backlog) \in Nat
    BY <2>1, FS_CardinalityType
  <2>3. CASE Backlog' \subseteq Backlog
    <3>1. Cardinality(Backlog') <= Cardinality(Backlog) /\ IsFiniteSet(Backlog')
      BY <2>1, <2>3, FS_Subset
    <3> QED
      BY <2>2, <3>1, FS_CardinalityType, BatchesAssumption
  <2>4. ASSUME NEW e, HasCapacity, Backlog' \subseteq Backlog \cup {e}
        PROVE  Cardinality(Backlog') <= Capacity
    <3>1. /\ IsFiniteSet(Backlog \cup {e})
          /\ Cardinality(Backlog \cup {e}) <= Cardinality(Backlog) + 1
      BY <2>1, <2>2, FS_AddElement
    <3>2. /\ Cardinality(Backlog') <= Cardinality(Backlog \cup {e})
          /\ IsFiniteSet(Backlog')
      BY <2>4, <3>1, FS_Subset
    <3>3. Cardinality(Backlog') \in Nat /\ Cardinality(Backlog \cup {e}) \in Nat
      BY <3>1, <3>2, FS_CardinalityType
    <3> QED
      BY <2>2, <2>4, <3>1, <3>2, <3>3, BatchesAssumption DEF HasCapacity
  <2> QED
    BY <2>3, <2>4
<1> QED
  BY <1>1, <1>2, <1>3, TypeInvariant, ReceiptsInvariant, PTL DEF Spec

-----------------------------------------------------------------------------
(* Runs: what a flush has in hand, and what an execution id stands for.     *)

WorkTypes ==
  /\ item \in [Events -> {"none", "pending", "accepted", "skipped"}]
  /\ group \in [Events -> Groups \cup {NoGroup}]
  /\ exec \in [Events -> SUBSET Events]
  /\ ran \in [SUBSET Events -> SUBSET Events]
  /\ gstatus \in [Groups -> GroupStatus] /\ lease \in [Groups -> Flushes \cup {None}]
  /\ fpc \in [Flushes -> FlushPhase] /\ grp \in [Flushes -> Groups \cup {NoGroup}]
  /\ auth \in [Flushes -> SUBSET Events] /\ bare \in [Flushes -> SUBSET Events]
  /\ chunk \in [Flushes -> SUBSET Events]
  /\ \A f \in Flushes : fpc[f] \notin {"idle", "claim"} => grp[f] \in Groups

LEMMA WorkTypesHold ==
  ASSUME Typed
  PROVE  WorkTypes
BY DEF Typed, TypeOK, Shape, WorkTypes, GroupStatus

Early   == {"idle", "claim", "read"}
InBatch == {"authorize", "reread", "again", "pack", "submit", "run", "mark"}

\* A flush works on items of its group.  Those that it will submit have their
\* ids; the chunk that it submits is all of its id that is pending, and what it
\* marks has a run.
HandOK(f) ==
  /\ fpc[f] \in Early => auth[f] = {} /\ bare[f] = {} /\ chunk[f] = {}
  /\ \A e \in auth[f] \cup bare[f] \cup chunk[f] : item[e] # "none" /\ group[e] = grp[f]
  /\ \A e \in auth[f] \ bare[f] : exec[e] # {}
  /\ fpc[f] \in {"submit", "run", "mark"} => auth[f] \cap bare[f] = {}
  /\ fpc[f] \in {"run", "mark"} => \A d, e \in chunk[f] : exec[d] = exec[e] /\ exec[e] # {}
  /\ fpc[f] = "run" =>
       /\ chunk[f] # {}
       /\ \A e \in chunk[f], d \in Events :
            exec[d] = exec[e] /\ item[d] = "pending" => d \in chunk[f]
  /\ fpc[f] = "mark" => \A e \in chunk[f] : ran[exec[e]] # {}

\* While it holds the lease nobody else gives ids in its group: what it read
\* without one has none, and what has one is in its hands.
HeldOK(f) ==
  fpc[f] \in InBatch /\ Holds(f) =>
    /\ \A e \in bare[f] : exec[e] = {}
    /\ \A e \in Events :
         group[e] = grp[f] /\ item[e] = "pending" /\ exec[e] # {} => e \in auth[f]

\* An id stands for events of one group; the run of an id has only its events,
\* and all of those that are pending.
IdsOK ==
  /\ \A e \in Events : exec[e] # {} =>
       /\ e \in exec[e] /\ item[e] # "none"
       /\ \A d \in exec[e] : item[d] # "none" /\ group[d] = group[e]
  /\ \A X \in SUBSET Events :
       /\ \A e \in ran[X] : exec[e] = X /\ X # {}
       /\ ran[X] # {} =>
            \A e \in Events : exec[e] = X /\ item[e] = "pending" => e \in ran[X]
  /\ AcceptedRan

Work == IdsOK /\ \A f \in Flushes : HandOK(f) /\ HeldOK(f)

\* A flush that settles items, moves on or ends: it takes nothing new in hand.
Moves(f) ==
  \/ fpc'[f] \in Early /\ auth'[f] = {} /\ bare'[f] = {} /\ chunk'[f] = {}
  \/ /\ grp'[f] = grp[f] /\ bare'[f] = bare[f]
     /\ auth'[f] \subseteq auth[f] /\ \A e \in auth[f] \ auth'[f] : item'[e] # "pending"
     /\ chunk'[f] \subseteq chunk[f]
     /\ fpc'[f] \in Early => fpc[f] \in Early
     /\ fpc'[f] = "submit" => fpc[f] \in {"submit", "mark"} \/ auth[f] \cap bare[f] = {}
     /\ fpc'[f] = "mark" => fpc[f] = "mark"
     /\ fpc'[f] = "run" => fpc[f] = "run" /\ chunk'[f] = chunk[f]
     /\ fpc'[f] \in InBatch => fpc[f] \in InBatch
     /\ fpc'[f] \in InBatch /\ Holds(f)' => Holds(f)

\* Items are decided, accepted ones with their run.
Settles ==
  /\ UNCHANGED <<group, exec, ran>>
  /\ \A e \in Events :
       \/ item'[e] = item[e]
       \/ item[e] = "pending" /\ item'[e] = "skipped"
       \/ item[e] = "pending" /\ item'[e] = "accepted" /\ e \in ran[exec[e]]

LEMMA SettlesIds ==
  ASSUME WorkTypes, Work, Settles
  PROVE  IdsOK'
<1> USE DEF WorkTypes, Work, Settles, IdsOK, AcceptedRan
<1>1. \A e \in Events : /\ item'[e] = "none" <=> item[e] = "none"
                        /\ item'[e] = "pending" => item[e] = "pending"
  OBVIOUS
<1>2. \A e \in Events : item'[e] = "accepted" => e \in ran[exec[e]]
  OBVIOUS
<1> QED
  BY <1>1, <1>2

LEMMA MovesHand ==
  ASSUME WorkTypes, Work, Settles, NEW f \in Flushes, Moves(f)
  PROVE  HandOK(f)' /\ HeldOK(f)'
<1>1. /\ \A e \in Events : /\ item'[e] = "none" <=> item[e] = "none"
                           /\ item'[e] = "pending" => item[e] = "pending"
      /\ UNCHANGED <<group, exec, ran>>
  BY DEF WorkTypes, Settles
<1>2. HandOK(f) /\ HeldOK(f)
  BY DEF Work
<1>3. auth[f] \in SUBSET Events /\ bare[f] \in SUBSET Events /\ chunk[f] \in SUBSET Events
  BY DEF WorkTypes
<1>4. CASE fpc'[f] \in Early /\ auth'[f] = {} /\ bare'[f] = {} /\ chunk'[f] = {}
  BY <1>4 DEF HandOK, HeldOK, Early, InBatch
<1>5. CASE ~ (fpc'[f] \in Early /\ auth'[f] = {} /\ bare'[f] = {} /\ chunk'[f] = {})
  <2>1. HandOK(f)'
    BY <1>1, <1>2, <1>3, <1>5 DEF Moves, HandOK, Early
  <2>2. HeldOK(f)'
    BY <1>1, <1>2, <1>3, <1>5 DEF Moves, HeldOK
  <2> QED
    BY <2>1, <2>2
<1> QED
  BY <1>4, <1>5

LEMMA MovesWork ==
  ASSUME WorkTypes, Work, Settles, \A f \in Flushes : Moves(f)
  PROVE  Work'
<1>1. IdsOK'
  BY SettlesIds
<1>2. \A f \in Flushes : HandOK(f)' /\ HeldOK(f)'
  BY MovesHand
<1> QED
  BY <1>1, <1>2 DEF Work

\* What a step leaves alone of a flush.
Same(h) ==
  /\ fpc'[h] = fpc[h] /\ grp'[h] = grp[h]
  /\ auth'[h] = auth[h] /\ bare'[h] = bare[h] /\ chunk'[h] = chunk[h]
  /\ fpc[h] \in InBatch /\ Holds(h)' => Holds(h)

LEMMA SameMoves ==
  ASSUME WorkTypes, NEW h \in Flushes, Same(h)
  PROVE  Moves(h)
BY DEF Same, Moves, WorkTypes, InBatch, Early

\* A step of f that changes no group.
LEMMA OthersSame ==
  ASSUME WorkTypes, NEW f \in Flushes, NEW h \in Flushes \ {f},
         \/ UNCHANGED fpc
         \/ \E phase : Goto(f, phase),
         UNCHANGED <<gstatus, lease, grp>>,
         auth' = auth \/ \E S : auth' = [auth EXCEPT ![f] = S],
         bare' = bare \/ \E S : bare' = [bare EXCEPT ![f] = S],
         chunk' = chunk \/ \E S : chunk' = [chunk EXCEPT ![f] = S]
  PROVE  Same(h)
BY DEF Same, WorkTypes, Goto, Holds

LEMMA LeaveMoves ==
  ASSUME WorkTypes, NEW f \in Flushes, Leave(f),
         \A g \in Groups : gstatus'[g] = "processing" =>
                             gstatus[g] = "processing" /\ lease'[g] = lease[g]
  PROVE  \A h \in Flushes : Moves(h)
<1>1. Moves(f)
  BY DEF WorkTypes, Leave, Goto, Moves, Early
<1>2. ASSUME NEW h \in Flushes \ {f}
      PROVE  Same(h)
  BY DEF WorkTypes, Leave, Goto, Same, Holds, InBatch
<1> QED
  BY <1>1, <1>2, SameMoves

\* A flush gives up, and the catch block comes next.
LEMMA GivesUp ==
  ASSUME WorkTypes, NEW f \in Flushes,
         NEW phase \in {"retry", "defer", "count", "finish", "skip"}, Goto(f, phase),
         UNCHANGED <<gstatus, lease, grp, auth, bare, chunk>>
  PROVE  \A h \in Flushes : Moves(h)
<1>1. Moves(f)
  BY DEF WorkTypes, Goto, Moves, Early, InBatch
<1>2. \A h \in Flushes \ {f} : Same(h)
  BY OthersSame
<1> QED
  BY <1>1, <1>2, SameMoves

LEMMA StartsMove ==
  ASSUME WorkTypes, Work, NEW f \in Flushes, Cron(f) \/ \E g \in Groups : Wake(f, g)
  PROVE  Settles /\ \A h \in Flushes : Moves(h)
<1>1. Settles
  BY DEF Cron, Wake, Settles, itemVars
<1>2. fpc[f] = "idle" /\ fpc' = [fpc EXCEPT ![f] = "claim"] /\ Cleanup /\ UNCHANGED workVars
  BY DEF Cron, Wake, Goto
<1>3. \A h \in Flushes \ {f} : grp'[h] = grp[h]
  BY DEF Cron, Wake, WorkTypes
<1>4. Moves(f)
  <2>1. auth[f] = {} /\ bare[f] = {} /\ chunk[f] = {}
    BY <1>2 DEF Work, HandOK, Early
  <2> QED
    BY <1>2, <2>1 DEF WorkTypes, Moves, Early, workVars
<1>5. ASSUME NEW h \in Flushes \ {f}
      PROVE  Same(h)
  <2>1. fpc[h] \in InBatch => grp[h] \in Groups
    BY DEF WorkTypes, InBatch
  <2>2. \A g \in Groups : gstatus'[g] = "processing" =>
                             gstatus[g] = "processing" /\ lease'[g] = lease[g]
    BY <1>2 DEF Cleanup
  <2> QED
    BY <1>2, <1>3, <2>1, <2>2 DEF WorkTypes, Same, Holds, workVars
<1> QED
  BY <1>1, <1>4, <1>5, SameMoves

LEMMA ClaimMoves ==
  ASSUME WorkTypes, Work, NEW f \in Flushes, Claim(f)
  PROVE  Settles /\ \A h \in Flushes : Moves(h)
<1>1. Settles
  BY DEF Claim, Settles, itemVars
<1>2. ASSUME NEW g \in Groups, gstatus' = [gstatus EXCEPT ![g] = "processing"],
             lease' = [lease EXCEPT ![g] = f], grp' = [grp EXCEPT ![f] = g],
             Goto(f, "read"), UNCHANGED workVars
      PROVE  \A h \in Flushes : Moves(h)
  <2>1. Moves(f)
    <3>1. auth[f] = {} /\ bare[f] = {} /\ chunk[f] = {}
      BY DEF Claim, Work, HandOK, Early
    <3> QED
      BY <1>2, <3>1 DEF WorkTypes, Goto, Moves, Early, workVars
  <2>2. ASSUME NEW h \in Flushes \ {f}
        PROVE  Same(h)
    BY <1>2 DEF WorkTypes, Goto, Same, Holds, workVars, InBatch
  <2> QED
    BY <2>1, <2>2, SameMoves
<1>3. CASE Leave(f) /\ UNCHANGED <<gstatus, lease>>
  <2>1. \A g \in Groups : gstatus'[g] = "processing" =>
                             gstatus[g] = "processing" /\ lease'[g] = lease[g]
    BY <1>3
  <2> QED
    BY <1>1, <1>3, <2>1, LeaveMoves
<1> QED
  BY <1>1, <1>2, <1>3 DEF Claim

LEMMA AuthorizeMoves ==
  ASSUME WorkTypes, Work, NEW f \in Flushes, Authorize(f)
  PROVE  Settles /\ \A h \in Flushes : Moves(h)
<1> USE DEF WorkTypes
<1>1. UNCHANGED <<group, exec, ran, gstatus, lease, grp, bare, chunk>>
  BY DEF Authorize, groupVars
<1>2. ASSUME NEW e \in auth[f], MarkItem(f, e, "skipped"), auth' = [auth EXCEPT ![f] = @ \ {e}],
             UNCHANGED fpc, fpc[f] \in {"authorize", "again"}
      PROVE  Settles /\ \A h \in Flushes : Moves(h)
  <2>1. e \in Events
    OBVIOUS
  <2>2. item' = [d \in Events |-> IF d \in {e} /\ item[d] = "pending" THEN "skipped" ELSE item[d]]
    BY <1>2 DEF MarkItem, Decide
  <2>3. Settles
    BY <1>1, <2>2 DEF Settles
  <2>4. item'[e] = "skipped" /\ auth'[f] = auth[f] \ {e}
    BY <1>2, <2>1, <2>2 DEF MarkItem
  <2>5. Moves(f)
    BY <1>1, <1>2, <2>4 DEF Moves, Holds, InBatch, Early
  <2>6. \A h \in Flushes \ {f} : Same(h)
    BY <1>1, <1>2, OthersSame
  <2> QED
    BY <2>3, <2>5, <2>6, SameMoves
<1>3. ASSUME UNCHANGED <<item, auth>>, fpc[f] \in {"authorize", "again"},
             NEW phase \in {"retry", "reread", "pack"}, Goto(f, phase)
      PROVE  Settles /\ \A h \in Flushes : Moves(h)
  <2>1. Settles
    BY <1>1, <1>3 DEF Settles
  <2>2. Moves(f)
    BY <1>1, <1>3 DEF Moves, Holds, InBatch, Early, Goto
  <2>3. \A h \in Flushes \ {f} : Same(h)
    BY <1>1, <1>3, OthersSame
  <2> QED
    BY <2>1, <2>2, <2>3, SameMoves
<1> QED
  BY <1>2, <1>3 DEF Authorize, Reject

LEMMA MarkMoves ==
  ASSUME WorkTypes, Work, NEW f \in Flushes, Mark(f)
  PROVE  Settles /\ \A h \in Flushes : Moves(h)
<1> USE DEF WorkTypes
<1>1. UNCHANGED <<group, exec, ran, gstatus, lease, grp, bare>> /\ fpc[f] = "mark"
  BY DEF Mark, groupVars
<1>2. ASSUME NEW e \in chunk[f], MarkItem(f, e, "accepted"), auth' = [auth EXCEPT ![f] = @ \ {e}],
             chunk' = [chunk EXCEPT ![f] = @ \ {e}], UNCHANGED fpc
      PROVE  Settles /\ \A h \in Flushes : Moves(h)
  <2>1. e \in Events /\ item[e] = "pending"
    BY <1>2 DEF MarkItem
  <2>2. item' = [d \in Events |-> IF d \in {e} /\ item[d] = "pending" THEN "accepted" ELSE item[d]]
    BY <1>2 DEF MarkItem, Decide
  <2>3. e \in ran[exec[e]]
    <3>1. ran[exec[e]] # {} /\ exec[e] \in SUBSET Events
      BY <1>1, <2>1 DEF Work, HandOK
    <3> QED
      BY <2>1, <3>1 DEF Work, IdsOK
  <2>4. Settles
    BY <1>1, <2>1, <2>2, <2>3 DEF Settles
  <2>5. item'[e] = "accepted" /\ auth'[f] = auth[f] \ {e} /\ chunk'[f] = chunk[f] \ {e}
    BY <1>2, <2>1, <2>2
  <2>6. Moves(f)
    BY <1>1, <1>2, <2>5 DEF Moves, Holds, InBatch, Early
  <2>7. \A h \in Flushes \ {f} : Same(h)
    BY <1>1, <1>2, OthersSame
  <2> QED
    BY <2>4, <2>6, <2>7, SameMoves
<1>3. ASSUME UNCHANGED <<item, auth, chunk>>, NEW phase \in {"retry", "submit"}, Goto(f, phase)
      PROVE  Settles /\ \A h \in Flushes : Moves(h)
  <2>1. Settles
    BY <1>1, <1>3 DEF Settles
  <2>2. Moves(f)
    BY <1>1, <1>3 DEF Moves, Holds, InBatch, Early, Goto
  <2>3. \A h \in Flushes \ {f} : Same(h)
    BY <1>1, <1>3, OthersSame
  <2> QED
    BY <2>1, <2>2, <2>3, SameMoves
<1> QED
  BY <1>2, <1>3 DEF Mark

LEMMA CloseMoves ==
  ASSUME WorkTypes, NEW f \in Flushes, grp[f] \in Groups,
         NEW s \in {"pending", "completed", "failed"}, CloseGroup(grp[f], s), Leave(f)
  PROVE  \A h \in Flushes : Moves(h)
<1>1. \A g \in Groups : gstatus'[g] = "processing" =>
                          gstatus[g] = "processing" /\ lease'[g] = lease[g]
  BY DEF WorkTypes, CloseGroup
<1> QED
  BY <1>1, LeaveMoves

LEMMA EndsMove ==
  ASSUME WorkTypes, Work, NEW f \in Flushes,
         \/ Finish(f) \/ Skip(f) \/ Retry(f) \/ FlushCrash(f)
  PROVE  Settles /\ \A h \in Flushes : Moves(h)
<1>1. \/ UNCHANGED item
      \/ Decide(Members(grp[f]), "skipped")
  BY DEF Finish, Skip, Retry, FlushCrash, itemVars
<1>2. Settles
  <2>1. UNCHANGED <<group, exec, ran>>
    BY DEF Finish, Skip, Retry, FlushCrash, itemVars
  <2> QED
    BY <1>1, <2>1 DEF Settles, Decide
<1>3. CASE Leave(f) /\ UNCHANGED <<gstatus, lease>>
  <2>1. \A g \in Groups : gstatus'[g] = "processing" =>
                            gstatus[g] = "processing" /\ lease'[g] = lease[g]
    BY <1>3
  <2> QED
    BY <1>2, <1>3, <2>1, LeaveMoves
<1>4. ASSUME Leave(f), fpc[f] \notin Early,
             NEW s \in {"pending", "completed", "failed"}, CloseGroup(grp[f], s)
      PROVE  \A h \in Flushes : Moves(h)
  <2>1. grp[f] \in Groups
    BY <1>4 DEF WorkTypes, Early
  <2> QED
    BY <1>4, <2>1, CloseMoves
<1>5. CASE Finish(f)
  <2>1. CASE CloseGroup(grp[f], "completed") /\ Leave(f)
    BY <1>2, <1>4, <1>5, <2>1 DEF Finish, Early
  <2>2. CASE Goto(f, "retry") /\ UNCHANGED <<gstatus, lease, grp, workVars>>
    BY <1>2, <1>5, <2>2, GivesUp DEF Finish, workVars
  <2> QED
    BY <1>5, <2>1, <2>2 DEF Finish
<1>6. CASE Skip(f)
  <2>1. CASE CloseGroup(grp[f], "completed") /\ Leave(f)
    BY <1>2, <1>4, <1>6, <2>1 DEF Skip, Early
  <2>2. CASE Goto(f, "retry") /\ UNCHANGED <<gstatus, lease, grp, workVars>>
    BY <1>2, <1>6, <2>2, GivesUp DEF Skip, workVars
  <2> QED
    BY <1>6, <2>1, <2>2 DEF Skip
<1>7. CASE Retry(f)
  <2>1. Leave(f) /\ fpc[f] \notin Early
    BY <1>7 DEF Retry, Early
  <2>2. \/ UNCHANGED <<gstatus, lease>>
        \/ CloseGroup(grp[f], "failed") \/ CloseGroup(grp[f], "pending")
    BY <1>7 DEF Retry
  <2> QED
    BY <1>2, <1>3, <1>4, <2>1, <2>2
<1>8. CASE FlushCrash(f)
  BY <1>3, <1>8 DEF FlushCrash, groupVars
<1> QED
  BY <1>2, <1>5, <1>6, <1>7, <1>8

LEMMA PlainMoves ==
  ASSUME WorkTypes, NEW f \in Flushes,
         \/ Reread(f) \/ Count(f) \/ FlushError(f)
         \/ RunFails(f) /\ UNCHANGED ran
         \/ Pack(f) /\ UNCHANGED <<exec, bare>>
         \/ Submit(f) /\ UNCHANGED chunk /\ ~ Goto(f, "run")
  PROVE  Settles /\ \A h \in Flushes : Moves(h)
<1> USE DEF WorkTypes
<1>1. Settles /\ UNCHANGED <<gstatus, lease, grp, auth, bare, chunk>>
  BY DEF Reread, Count, FlushError, RunFails, Pack, Submit, Settles, itemVars, groupVars, workVars
<1>2. CASE Count(f) \/ FlushError(f) \/ RunFails(f)
  <2>1. Goto(f, "retry") \/ Goto(f, "defer") \/ Goto(f, "finish")
    BY <1>2 DEF Count, FlushError, RunFails
  <2> QED
    BY <1>1, <2>1, GivesUp
<1>3. ASSUME NEW phase \in {"again", "submit"}, Goto(f, phase),
             \/ fpc[f] = "reread" /\ phase = "again"
             \/ fpc[f] = "pack" /\ auth[f] \cap bare[f] = {}
      PROVE  \A h \in Flushes : Moves(h)
  <2>1. Moves(f)
    BY <1>1, <1>3 DEF Moves, Holds, InBatch, Early, Goto
  <2>2. \A h \in Flushes \ {f} : Same(h)
    BY <1>1, <1>3, OthersSame
  <2> QED
    BY <2>1, <2>2, SameMoves
<1>4. CASE Reread(f)
  BY <1>1, <1>3, <1>4, GivesUp DEF Reread
<1>5. CASE Pack(f) /\ UNCHANGED <<exec, bare>>
  <2>1. CASE Goto(f, "retry")
    BY <1>1, <1>5, <2>1, GivesUp DEF Pack
  <2>2. CASE Goto(f, "submit") /\ auth[f] \cap bare[f] = {}
    BY <1>1, <1>3, <1>5, <2>2 DEF Pack
  <2>3. CASE UNCHANGED fpc
    <3>1. \A h \in Flushes : Same(h)
      BY <1>1, <2>3 DEF Same, Holds
    <3> QED
      BY <1>1, <3>1, SameMoves
  <2> QED
    BY <1>5, <2>1, <2>2, <2>3 DEF Pack, Assign
<1>6. CASE Submit(f) /\ UNCHANGED chunk /\ ~ Goto(f, "run")
  BY <1>1, <1>6, GivesUp DEF Submit
<1> QED
  BY <1>1, <1>2, <1>4, <1>5, <1>6

LEMMA OthersMove ==
  ASSUME WorkTypes,
         \/ OtherActs
         \/ \E p \in Posts : (PostStep(p) \/ PostError(p)) /\ ~ Store(p)
  PROVE  Settles /\ \A h \in Flushes : Moves(h)
<1> USE DEF WorkTypes
<1>1. Settles /\ UNCHANGED <<fpc, grp, auth, bare, chunk>>
  BY DEF OtherActs, ResetFailed, SendReset, Expire, Reconfigure, TimeStep, NextMinute, BecomeDue,
     WaitOver, vars, PostStep, Receive, Look, Adopt, SendWakeup, Confirm, PostError, Settles,
     itemVars, flushVars, workVars
<1>2. UNCHANGED lease /\ \A g \in Groups : gstatus'[g] = "processing" => gstatus[g] = "processing"
  BY DEF OtherActs, ResetFailed, SendReset, Expire, Reconfigure, TimeStep, NextMinute, BecomeDue,
     WaitOver, vars, PostStep, Receive, Look, Adopt, SendWakeup, Confirm, PostError, groupVars
<1>3. ASSUME NEW h \in Flushes
      PROVE  Same(h)
  BY <1>1, <1>2 DEF Same, Holds, InBatch
<1> QED
  BY <1>1, <1>3, SameMoves

\* A new item: it has no id, and is in nobody's hands.
LEMMA StoreWork ==
  ASSUME WorkTypes, Typed, Work, NEW p \in Posts, Store(p)
  PROVE  Work'
<1> USE DEF WorkTypes
<1>1. UNCHANGED <<exec, ran, fpc, grp, auth, bare, chunk, lease>>
  BY DEF Store, flushVars, workVars
<1>2. /\ ev[p] \in Events /\ ChunkOf(at[p]) \in Groups
      /\ \A g \in Groups : gstatus'[g] = "processing" => gstatus[g] = "processing"
  BY ChunkIsGroup DEF Store, Typed, Shape, TypeOK
<1>3. \/ UNCHANGED <<item, group>>
      \/ /\ item[ev[p]] = "none" /\ item' = [item EXCEPT ![ev[p]] = "pending"]
         /\ group' = [group EXCEPT ![ev[p]] = ChunkOf(at[p])]
  BY DEF Store
<1>4. \A e \in Events : item[e] # "none" => item'[e] = item[e] /\ group'[e] = group[e]
  BY <1>3
<1>5. \A e \in Events : exec[e] # {} => item[e] # "none"
  BY DEF Work, IdsOK
<1>6. \A e \in Events : item'[e] = "accepted" => item[e] = "accepted"
  BY <1>2, <1>3
<1>7. IdsOK'
  <2>1. \A e \in Events : exec'[e] # {} =>
          /\ e \in exec'[e] /\ item'[e] # "none"
          /\ \A d \in exec'[e] : item'[d] # "none" /\ group'[d] = group'[e]
    BY <1>1, <1>4, <1>5 DEF Work, IdsOK
  <2>2. \A X \in SUBSET Events :
          /\ \A e \in ran'[X] : exec'[e] = X /\ X # {}
          /\ ran'[X] # {} =>
               \A e \in Events : exec'[e] = X /\ item'[e] = "pending" => e \in ran'[X]
    BY <1>1, <1>4, <1>5 DEF Work, IdsOK
  <2>3. AcceptedRan'
    BY <1>1, <1>6 DEF Work, IdsOK, AcceptedRan
  <2> QED
    BY <2>1, <2>2, <2>3 DEF IdsOK
<1>8. ASSUME NEW f \in Flushes
      PROVE  HandOK(f)' /\ HeldOK(f)'
  <2>1. HandOK(f) /\ HeldOK(f)
    BY DEF Work
  <2>2. HandOK(f)'
    BY <1>1, <1>4, <1>5, <2>1 DEF HandOK
  <2>3. fpc[f] \in InBatch /\ Holds(f)' => Holds(f)
    BY <1>1, <1>2 DEF Holds, InBatch
  <2>4. HeldOK(f)'
    BY <1>1, <1>4, <1>5, <2>1, <2>3 DEF HeldOK
  <2> QED
    BY <2>2, <2>4
<1> QED
  BY <1>7, <1>8 DEF Work

\* What is read is all that is pending in the group.
LEMMA ReadWork ==
  ASSUME WorkTypes, Work, NEW f \in Flushes, Read(f)
  PROVE  Work'
<1> USE DEF WorkTypes
<1>1. UNCHANGED <<item, group, exec, ran, gstatus, lease, grp, chunk>>
  BY DEF Read, itemVars, groupVars
<1>2. CASE Goto(f, "skip") /\ UNCHANGED <<auth, bare>>
  <2>1. \A h \in Flushes \ {f} : Same(h)
    BY <1>1, <1>2, OthersSame
  <2>2. Moves(f)
    BY <1>1, <1>2 DEF Read, Moves, Goto, Early, InBatch
  <2>3. Settles
    BY <1>1 DEF Settles
  <2> QED
    BY <2>1, <2>2, <2>3, SameMoves, MovesWork
<1>3. CASE /\ auth' = [auth EXCEPT ![f] = Pending(grp[f])]
           /\ bare' = [bare EXCEPT ![f] = {e \in Pending(grp[f]) : exec[e] = {}}]
           /\ Goto(f, "authorize")
  <2>1. auth'[f] = Pending(grp[f]) /\ bare'[f] = {e \in Pending(grp[f]) : exec[e] = {}}
    BY <1>3
  <2>2. chunk[f] = {} /\ fpc'[f] = "authorize"
    BY <1>3 DEF Read, Work, HandOK, Early, Goto
  <2>3. HandOK(f)'
    BY <1>1, <2>1, <2>2 DEF HandOK, Pending, Members, Early
  <2>4. HeldOK(f)'
    BY <1>1, <2>1, <2>2 DEF HeldOK, Pending, Members
  <2>5. \A h \in Flushes \ {f} : Same(h)
    BY <1>1, <1>3, OthersSame
  <2>6. Settles
    BY <1>1 DEF Settles
  <2>7. \A h \in Flushes \ {f} : HandOK(h)' /\ HeldOK(h)'
    BY <2>5, <2>6, SameMoves, MovesHand
  <2> QED
    BY <2>3, <2>4, <2>6, <2>7, SettlesIds DEF Work
<1> QED
  BY <1>2, <1>3 DEF Read

\* An id is given only to items that have none, of a group that is leased.
LEMMA AssignWork ==
  ASSUME WorkTypes, Work, NEW f \in Flushes, fpc[f] = "pack",
         NEW S \in (SUBSET (auth[f] \cap bare[f])) \ {{}}, Holds(f),
         exec' = [e \in Events |-> IF e \in S /\ item[e] = "pending" /\ exec[e] = {}
                                   THEN S ELSE exec[e]],
         \/ /\ \A e \in S : exec'[e] = S
            /\ bare' = [bare EXCEPT ![f] = @ \ S] /\ UNCHANGED fpc
         \/ Goto(f, "retry") /\ UNCHANGED bare,
         UNCHANGED <<item, group, ran, gstatus, lease, grp, auth, chunk>>
  PROVE  Work'
<1> USE DEF WorkTypes
<1>1. HandOK(f) /\ HeldOK(f) /\ IdsOK
  BY DEF Work
<1>2. /\ S \subseteq Events /\ S # {}
      /\ \A e \in S : exec[e] = {} /\ item[e] # "none" /\ group[e] = grp[f]
  <2>1. S # {} /\ \A e \in S : e \in auth[f] /\ e \in bare[f]
    OBVIOUS
  <2>2. \A e \in bare[f] : exec[e] = {}
    BY <1>1 DEF HeldOK, InBatch
  <2>3. \A e \in bare[f] : item[e] # "none" /\ group[e] = grp[f]
    BY <1>1 DEF HandOK
  <2> QED
    BY <2>1, <2>2, <2>3
<1>3. \A e \in Events : exec[e] # S
  BY <1>1, <1>2 DEF IdsOK
<1>4. \A e \in Events : \/ exec'[e] = exec[e]
                        \/ e \in S /\ exec'[e] = S /\ exec[e] = {}
  OBVIOUS
<1>5. ran[S] = {}
  BY <1>1, <1>2, <1>3 DEF IdsOK
<1>6. IdsOK'
  <2>1. \A e \in Events : exec'[e] # {} =>
          /\ e \in exec'[e] /\ item'[e] # "none"
          /\ \A d \in exec'[e] : item'[d] # "none" /\ group'[d] = group'[e]
    BY <1>1, <1>2, <1>4 DEF IdsOK
  <2>2. ASSUME NEW X \in SUBSET Events
        PROVE  /\ \A e \in ran'[X] : exec'[e] = X /\ X # {}
               /\ ran'[X] # {} =>
                    \A e \in Events : exec'[e] = X /\ item'[e] = "pending" => e \in ran'[X]
    BY <1>1, <1>4, <1>5 DEF IdsOK
  <2>3. AcceptedRan'
    <3>1. ASSUME NEW e \in Events, item[e] = "accepted"
          PROVE  e \in ran[exec[e]] /\ exec'[e] = exec[e]
      BY <3>1, <1>1, <1>4 DEF IdsOK, AcceptedRan
    <3> QED
      BY <3>1 DEF AcceptedRan
  <2> QED
    BY <2>1, <2>2, <2>3 DEF IdsOK
<1>7. HandOK(f)'
  <2>1. CASE (\A e \in S : exec'[e] = S) /\ bare' = [bare EXCEPT ![f] = @ \ S] /\ UNCHANGED fpc
    <3>1. bare'[f] = bare[f] \ S
      BY <2>1
    <3> QED
      <4>1. /\ \A e \in S : exec'[e] # {}
            /\ \A e \in Events : exec[e] # {} => exec'[e] # {}
        BY <1>2, <1>4, <2>1
      <4> QED
        BY <1>1, <2>1, <3>1, <4>1 DEF HandOK, Early
  <2>2. CASE Goto(f, "retry") /\ UNCHANGED bare
    BY <1>1, <1>4, <2>2 DEF HandOK, Early, Goto
  <2> QED
    BY <2>1, <2>2
<1>8. HeldOK(f)'
  <2>1. CASE (\A e \in S : exec'[e] = S) /\ bare' = [bare EXCEPT ![f] = @ \ S] /\ UNCHANGED fpc
    <3>1. bare'[f] = bare[f] \ S
      BY <2>1
    <3>2. \A e \in bare[f] : exec[e] = {}
      BY <1>1 DEF HeldOK, InBatch
    <3>3. \A e \in Events : group[e] = grp[f] /\ item[e] = "pending" /\ exec[e] # {} => e \in auth[f]
      BY <1>1 DEF HeldOK, InBatch
    <3> QED
      BY <1>4, <3>1, <3>2, <3>3 DEF HeldOK
  <2>2. CASE Goto(f, "retry") /\ UNCHANGED bare
    BY <2>2 DEF HeldOK, InBatch, Goto
  <2> QED
    BY <2>1, <2>2
<1>9. ASSUME NEW h \in Flushes \ {f}
      PROVE  HandOK(h)' /\ HeldOK(h)'
  <2>1. HandOK(h) /\ HeldOK(h)
    BY DEF Work
  <2>2. /\ fpc'[h] = fpc[h] /\ grp'[h] = grp[h] /\ auth'[h] = auth[h]
        /\ bare'[h] = bare[h] /\ chunk'[h] = chunk[h] /\ Holds(h)' = Holds(h)
    BY DEF Goto, Holds
  <2>3. HandOK(h)'
    <3>1. \A e \in auth[h] \ bare[h] : exec'[e] # {}
      BY <1>2, <1>4, <2>1 DEF HandOK
    <3>2. fpc[h] \in {"run", "mark"} => \A e \in chunk[h] : exec'[e] = exec[e] /\ exec[e] # {}
      BY <1>4, <2>1 DEF HandOK
    <3>3. fpc[h] = "run" => \A e \in chunk[h], d \in Events :
                              exec'[d] = exec[e] /\ item[d] = "pending" => d \in chunk[h]
      BY <1>3, <1>4, <2>1 DEF HandOK
    <3> QED
      BY <2>1, <2>2, <3>1, <3>2, <3>3 DEF HandOK
  <2>4. fpc[h] \in InBatch /\ Holds(h) => grp[h] # grp[f]
    BY DEF Holds
  <2>5. HeldOK(h)'
    <3>1. \A e \in Events : group[e] # grp[f] => exec'[e] = exec[e]
      BY <1>2, <1>4
    <3>2. \A e \in bare[h] : e \in Events /\ group[e] = grp[h]
      BY <2>1 DEF HandOK
    <3> QED
      BY <2>1, <2>2, <2>4, <3>1, <3>2 DEF HeldOK
  <2> QED
    BY <2>3, <2>5
<1> QED
  BY <1>6, <1>7, <1>8, <1>9 DEF Work

LEMMA PackWork ==
  ASSUME WorkTypes, Work, NEW f \in Flushes, Pack(f)
  PROVE  Work'
<1>1. CASE UNCHANGED <<exec, bare>>
  BY <1>1, PlainMoves, MovesWork
<1>2. ASSUME NEW S \in (SUBSET (auth[f] \cap bare[f])) \ {{}}, Assign(f, S)
      PROVE  Work'
  <2>1. UNCHANGED <<item, group, ran, gstatus, lease, grp, auth, chunk>> /\ fpc[f] = "pack"
    BY DEF Pack, groupVars
  <2>2. CASE UNCHANGED <<exec, bare>>
    BY <1>1, <2>2
  <2>3. CASE /\ Holds(f)
             /\ exec' = [e \in Events |-> IF e \in S /\ item[e] = "pending" /\ exec[e] = {}
                                          THEN S ELSE exec[e]]
             /\ \/ /\ \A e \in S : exec'[e] = S
                   /\ bare' = [bare EXCEPT ![f] = @ \ S] /\ UNCHANGED fpc
                \/ Goto(f, "retry") /\ UNCHANGED bare
    BY <2>1, <2>3, AssignWork
  <2> QED
    BY <1>2, <2>2, <2>3 DEF Assign
<1> QED
  BY <1>1, <1>2 DEF Pack

\* All of an id that is pending is submitted together.
LEMMA SubmitWork ==
  ASSUME WorkTypes, Work, NEW f \in Flushes, Submit(f)
  PROVE  Work'
<1> USE DEF WorkTypes
<1>1. CASE UNCHANGED chunk /\ ~ Goto(f, "run")
  BY <1>1, PlainMoves, MovesWork
<1>2. ASSUME NEW d \in auth[f], Holds(f), Goto(f, "run"),
             chunk' = [chunk EXCEPT ![f] = {e \in auth[f] : exec[e] = exec[d]}]
      PROVE  Work'
  <2>1. UNCHANGED <<item, group, exec, ran, gstatus, lease, grp, auth, bare>> /\ fpc[f] = "submit"
    BY DEF Submit, itemVars
  <2>2. HandOK(f) /\ HeldOK(f) /\ IdsOK /\ d \in Events
    BY DEF Work
  <2>3. exec[d] # {} /\ auth[f] \cap bare[f] = {} /\ group[d] = grp[f]
    BY <2>1, <2>2 DEF HandOK
  <2>4. chunk'[f] = {e \in auth[f] : exec[e] = exec[d]} /\ fpc'[f] = "run"
    BY <1>2 DEF Goto
  <2>5. \A e \in Events : exec[e] = exec[d] /\ item[e] = "pending" => e \in auth[f]
    <3>1. ASSUME NEW e \in Events, exec[e] = exec[d], item[e] = "pending"
          PROVE  e \in auth[f]
      <4>1. d \in exec[d] /\ group[d] = group[e]
        BY <2>2, <2>3, <3>1 DEF IdsOK
      <4>2. fpc[f] \in InBatch
        BY <2>1 DEF InBatch
      <4> QED
        BY <1>2, <2>2, <2>3, <3>1, <4>1, <4>2 DEF HeldOK
    <3> QED
      BY <3>1
  <2>6. HandOK(f)'
    BY <2>1, <2>2, <2>3, <2>4, <2>5 DEF HandOK, Early
  <2>7. HeldOK(f)'
    BY <2>1, <2>2, <2>4 DEF HeldOK, InBatch, Holds
  <2>8. \A h \in Flushes \ {f} : HandOK(h)' /\ HeldOK(h)'
    <3>1. \A h \in Flushes \ {f} : Same(h)
      BY <1>2, <2>1, OthersSame
    <3>2. Settles
      BY <2>1 DEF Settles
    <3> QED
      BY <3>1, <3>2, SameMoves, MovesHand
  <2>9. IdsOK'
    BY <2>1, SettlesIds DEF Settles
  <2> QED
    BY <2>6, <2>7, <2>8, <2>9 DEF Work
<1>3. CASE Goto(f, "count") \/ Goto(f, "retry")
  <2>1. ~ Goto(f, "run")
    BY <1>3 DEF Goto
  <2>2. UNCHANGED chunk
    BY <2>1 DEF Submit
  <2> QED
    BY <1>1, <2>1, <2>2
<1>4. CASE \E X \in {exec[e] : e \in auth[f]} :
             /\ Holds(f) /\ Goto(f, "run")
             /\ chunk' = [chunk EXCEPT ![f] = {e \in auth[f] : exec[e] = X}]
  BY <1>2, <1>4
<1> QED
  BY <1>3, <1>4 DEF Submit

\* The first run of an id has its pending events, and there is no other.
LEMMA StartedWork ==
  ASSUME WorkTypes, Work, NEW f \in Flushes, fpc[f] = "run", Started(f),
         Goto(f, "mark") \/ Goto(f, "retry"),
         UNCHANGED <<item, group, exec, gstatus, lease, grp, auth, bare, chunk>>
  PROVE  Work'
<1> USE DEF WorkTypes
<1>1. HandOK(f) /\ HeldOK(f) /\ IdsOK
  BY DEF Work
<1>2. PICK X \in SUBSET Events :
        /\ X # {} /\ \A e \in chunk[f] : exec[e] = X
        /\ \A e \in Events : exec[e] = X /\ item[e] = "pending" => e \in chunk[f]
        /\ ran' = IF ran[X] = {} THEN [ran EXCEPT ![X] = chunk[f]] ELSE ran
  <2> DEFINE c == CHOOSE e \in chunk[f] : TRUE
  <2>1. c \in chunk[f] /\ c \in Events
    BY <1>1 DEF HandOK
  <2>2. ran' = IF ran[exec[c]] = {} THEN [ran EXCEPT ![exec[c]] = chunk[f]] ELSE ran
    BY DEF Started
  <2> HIDE DEF c
  <2>3. exec[c] \in SUBSET Events /\ exec[c] # {} /\ \A e \in chunk[f] : exec[e] = exec[c]
    BY <1>1, <2>1 DEF HandOK
  <2>4. \A e \in Events : exec[e] = exec[c] /\ item[e] = "pending" => e \in chunk[f]
    BY <1>1, <2>1 DEF HandOK
  <2> QED
    BY <2>2, <2>3, <2>4
<1>3. chunk[f] # {} /\ chunk[f] \in SUBSET Events
  BY <1>1 DEF HandOK
<1>4. /\ ran'[X] # {} /\ ran[X] \subseteq ran'[X]
      /\ \A Y \in SUBSET Events : Y # X => ran'[Y] = ran[Y]
      /\ ran'[X] = ran[X] \/ (ran[X] = {} /\ ran'[X] = chunk[f])
  <2>1. CASE ran[X] = {}
    <3>1. ran' = [ran EXCEPT ![X] = chunk[f]]
      BY <1>2, <2>1
    <3>2. ran'[X] = chunk[f] /\ \A Y \in SUBSET Events : Y # X => ran'[Y] = ran[Y]
      BY <3>1
    <3> QED
      BY <1>3, <2>1, <3>2
  <2>2. CASE ran[X] # {}
    <3>1. ran' = ran
      BY <1>2, <2>2
    <3> QED
      BY <2>2, <3>1
  <2> QED
    BY <2>1, <2>2
<1>5. IdsOK'
  <2>1. ASSUME NEW Y \in SUBSET Events
        PROVE  /\ \A e \in ran'[Y] : exec'[e] = Y /\ Y # {}
               /\ ran'[Y] # {} =>
                    \A e \in Events : exec'[e] = Y /\ item'[e] = "pending" => e \in ran'[Y]
    <3>1. CASE ran'[Y] = ran[Y]
      BY <1>1, <3>1 DEF IdsOK
    <3>2. CASE Y = X /\ ran'[X] = chunk[f]
      BY <1>2, <3>2
    <3> QED
      BY <1>4, <3>1, <3>2
  <2>2. AcceptedRan'
    BY <1>1, <1>4 DEF IdsOK, AcceptedRan
  <2> QED
    BY <1>1, <2>1, <2>2 DEF IdsOK
<1>6. HandOK(f)' /\ HeldOK(f)'
  <2>1. CASE Goto(f, "mark")
    <3>1. fpc'[f] = "mark"
      BY <2>1 DEF Goto
    <3>2. HandOK(f)'
      BY <1>1, <1>2, <1>4, <3>1 DEF HandOK, Early
    <3>3. HeldOK(f)'
      BY <1>1, <3>1 DEF HeldOK, InBatch, Holds
    <3> QED
      BY <3>2, <3>3
  <2>2. CASE Goto(f, "retry")
    BY <1>1, <2>2 DEF HandOK, HeldOK, Early, InBatch, Goto
  <2> QED
    BY <2>1, <2>2
<1>7. ASSUME NEW h \in Flushes \ {f}
      PROVE  HandOK(h)' /\ HeldOK(h)'
  <2>1. HandOK(h) /\ HeldOK(h)
    BY DEF Work
  <2>2. fpc'[h] = fpc[h]
    BY DEF Goto
  <2>3. \A Y \in SUBSET Events : ran[Y] # {} => ran'[Y] # {}
    BY <1>4
  <2>4. \A e \in chunk[h] : exec[e] \in SUBSET Events
    OBVIOUS
  <2>5. HandOK(h)'
    BY <2>1, <2>2, <2>3, <2>4 DEF HandOK
  <2>6. HeldOK(h)'
    BY <2>1, <2>2 DEF HeldOK, Holds
  <2> QED
    BY <2>5, <2>6
<1> QED
  BY <1>5, <1>6, <1>7 DEF Work

LEMMA WorkStep ==
  ASSUME Typed, Work, [Next]_vars
  PROVE  Work'
<1>1. WorkTypes
  BY WorkTypesHold
<1>2. ASSUME NEW p \in Posts, Store(p)
      PROVE  Work'
  BY <1>1, <1>2, StoreWork
<1>3. CASE OtherActs \/ \E p \in Posts : (PostStep(p) \/ PostError(p)) /\ ~ Store(p)
  BY <1>1, <1>3, OthersMove, MovesWork
<1>4. ASSUME NEW f \in Flushes, Run(f) \/ RunFails(f)
      PROVE  Work'
  <2>1. UNCHANGED <<item, group, exec, gstatus, lease, grp, auth, bare, chunk>> /\ fpc[f] = "run"
    BY <1>4 DEF Run, RunFails, itemVars, groupVars, workVars
  <2>2. CASE RunFails(f) /\ UNCHANGED ran
    BY <1>1, <2>2, PlainMoves, MovesWork
  <2>3. CASE Started(f) /\ (Goto(f, "mark") \/ Goto(f, "retry"))
    BY <1>1, <2>1, <2>3, StartedWork
  <2> QED
    BY <1>4, <2>2, <2>3 DEF Run, RunFails
<1>5. ASSUME NEW f \in Flushes, FlushActs(f)
      PROVE  Work'
  <2>1. CASE Cron(f) \/ \E g \in Groups : Wake(f, g)
    BY <1>1, <2>1, StartsMove, MovesWork
  <2>2. CASE Claim(f) \/ Authorize(f) \/ Mark(f)
    BY <1>1, <2>2, ClaimMoves, AuthorizeMoves, MarkMoves, MovesWork
  <2>3. CASE Finish(f) \/ Skip(f) \/ Retry(f) \/ FlushCrash(f)
    BY <1>1, <2>3, EndsMove, MovesWork
  <2>4. CASE Reread(f) \/ Count(f) \/ FlushError(f)
    BY <1>1, <2>4, PlainMoves, MovesWork
  <2>5. CASE Read(f) \/ Pack(f) \/ Submit(f)
    BY <1>1, <2>5, ReadWork, PackWork, SubmitWork
  <2> QED
    BY <1>4, <1>5, <2>1, <2>2, <2>3, <2>4, <2>5 DEF FlushActs, FlushStep
<1> QED
  BY <1>2, <1>3, <1>5 DEF Next, FlushActs, OtherActs

LEMMA WorkInvariant == Spec => []Work
<1>1. Init => Work
  BY DEF Init, Work, IdsOK, AcceptedRan, HandOK, HeldOK, Early, InBatch
<1>2. Typed /\ Work /\ [Next]_vars => Work'
  BY WorkStep
<1> QED
  BY <1>1, <1>2, TypeInvariant, PTL DEF Spec

\* No event is ever run under two execution ids, whatever crashes, is overtaken
\* or is submitted again: a run has events of its own id only.
THEOREM EventsRunOnce == Spec => []RunsOnce
<1>1. Work => RunsOnce
  BY DEF Work, IdsOK, RunsOnce
<1> QED
  BY <1>1, WorkInvariant, PTL

\* An event that is marked accepted was in the run of its id, also when an earlier
\* attempt began that run.
THEOREM AcceptedEventsRan == Spec => []AcceptedRan
<1>1. Work => AcceptedRan
  BY DEF Work, IdsOK
<1> QED
  BY <1>1, WorkInvariant, PTL

-----------------------------------------------------------------------------
(* Decisions, and the abstract delivery.                                    *)

\* What a flush decides are items of the group that it holds; accepted ones have
\* their run.
Decides(f, S, s) ==
  /\ Holds(f) /\ fpc[f] \in {"authorize", "again", "mark", "skip"}
  /\ S \subseteq Members(grp[f])
  /\ item' = [e \in Events |-> IF e \in S /\ item[e] = "pending" THEN s ELSE item[e]]
  /\ s = "accepted" => \A e \in S : item[e] = "pending" /\ e \in ran[exec[e]]
  /\ UNCHANGED <<group, exec, ran, acked>>

\* What a flush does to the items.
LEMMA FlushDecides ==
  ASSUME WorkTypes, Work, NEW f \in Flushes, FlushActs(f)
  PROVE  \/ UNCHANGED item
         \/ \E S \in SUBSET Events, s \in {"accepted", "skipped"} : Decides(f, S, s)
<1> USE DEF WorkTypes
<1>1. HandOK(f) /\ IdsOK
  BY DEF Work
<1>2. CASE Authorize(f)
  <2>1. CASE UNCHANGED item
    BY <2>1
  <2>2. ASSUME NEW e \in auth[f], MarkItem(f, e, "skipped"), fpc[f] \in {"authorize", "again"}
        PROVE  Decides(f, {e}, "skipped")
    <3>1. e \in Events /\ group[e] = grp[f]
      BY <1>1 DEF HandOK
    <3> QED
      BY <1>2, <2>2, <3>1 DEF Decides, MarkItem, Decide, Members, Authorize
  <2>3. \A e \in auth[f] \cup chunk[f] : {e} \in SUBSET Events
    OBVIOUS
  <2>4. \/ UNCHANGED item
        \/ \E e \in auth[f] \cup chunk[f] : Decides(f, {e}, "skipped")
    BY <1>2, <2>1, <2>2 DEF Authorize, Reject
  <2> QED
    BY <2>3, <2>4
<1>3. CASE Mark(f)
  <2>1. CASE UNCHANGED item
    BY <2>1
  <2>2. ASSUME NEW e \in chunk[f], MarkItem(f, e, "accepted")
        PROVE  Decides(f, {e}, "accepted")
    <3>1. e \in Events /\ group[e] = grp[f] /\ item[e] = "pending"
      BY <1>1, <2>2 DEF HandOK, MarkItem
    <3>2. e \in ran[exec[e]]
      <4>1. ran[exec[e]] # {} /\ exec[e] \in SUBSET Events
        BY <1>1, <1>3, <3>1 DEF HandOK, Mark
      <4> QED
        BY <1>1, <3>1, <4>1 DEF IdsOK
    <3> QED
      BY <1>3, <2>2, <3>1, <3>2 DEF Decides, MarkItem, Decide, Members, Mark
  <2>3. \A e \in auth[f] \cup chunk[f] : {e} \in SUBSET Events
    OBVIOUS
  <2>4. \/ UNCHANGED item
        \/ \E e \in auth[f] \cup chunk[f] : Decides(f, {e}, "accepted")
    BY <1>3, <2>1, <2>2 DEF Mark
  <2> QED
    BY <2>3, <2>4
<1>4. CASE Skip(f)
  <2>1. CASE UNCHANGED item
    BY <2>1
  <2>2. CASE Holds(f) /\ Decide(Members(grp[f]), "skipped")
    BY <1>4, <2>2 DEF Decides, Decide, Skip, Members
  <2> QED
    BY <1>4, <2>1, <2>2 DEF Skip
<1>5. CASE ~ (Authorize(f) \/ Mark(f) \/ Skip(f))
  BY <1>5 DEF FlushActs, Cron, Wake, FlushStep, Claim, Read, Reread, Pack, Submit, Run, Count,
     Finish, Retry, RunFails, FlushError, FlushCrash, itemVars
<1> QED
  BY <1>2, <1>3, <1>4, <1>5

\* Ids are frozen.
LEMMA IdsFrozen ==
  ASSUME WorkTypes, [Next]_vars
  PROVE  \A e \in Events : exec[e] # {} => exec'[e] = exec[e]
<1> USE DEF WorkTypes
<1>1. ASSUME NEW f \in Flushes, Pack(f)
      PROVE  \A e \in Events : exec[e] # {} => exec'[e] = exec[e]
  BY <1>1 DEF Pack, Assign
<1>2. ASSUME NEW f \in Flushes, FlushActs(f), ~ Pack(f)
      PROVE  UNCHANGED exec
  BY <1>2 DEF FlushActs, Cron, Wake, FlushStep, Claim, Read, Authorize, Reread, Submit, Run, Mark,
     Count, Finish, Skip, Retry, RunFails, FlushError, FlushCrash, itemVars
<1>3. ASSUME NEW p \in Posts, PostStep(p) \/ PostError(p)
      PROVE  UNCHANGED exec
  BY <1>3 DEF PostStep, Receive, Store, Look, Adopt, SendWakeup, Confirm, PostError, itemVars
<1>4. CASE OtherActs
  BY <1>4 DEF OtherActs, ResetFailed, SendReset, Expire, Reconfigure, TimeStep, NextMinute,
     BecomeDue, WaitOver, vars, itemVars
<1> QED
  BY <1>1, <1>2, <1>3, <1>4 DEF Next, FlushActs, OtherActs

\* Items outside the flushes: one may appear.
LEMMA ItemsAppear ==
  ASSUME WorkTypes, OtherActs \/ \E p \in Posts : PostStep(p) \/ PostError(p)
  PROVE  \A e \in Events : item[e] # "none" => item'[e] = item[e]
<1> USE DEF WorkTypes
<1>1. ASSUME NEW p \in Posts, Store(p)
      PROVE  \A e \in Events : item[e] # "none" => item'[e] = item[e]
  BY <1>1 DEF Store
<1>2. ASSUME NEW p \in Posts, PostStep(p) \/ PostError(p), ~ Store(p)
      PROVE  UNCHANGED item
  BY <1>2 DEF PostStep, Receive, Look, Adopt, SendWakeup, Confirm, PostError, itemVars
<1>3. CASE OtherActs
  BY <1>3 DEF OtherActs, ResetFailed, SendReset, Expire, Reconfigure, TimeStep, NextMinute,
     BecomeDue, WaitOver, vars, itemVars
<1> QED
  BY <1>1, <1>2, <1>3

DecidedUnderLeaseStep ==
  \A e \in Events :
    /\ item[e] = "pending" /\ item'[e] # "pending" =>
         \E f \in Flushes : lease[group[e]] = f /\ fpc[f] \in
                              {"authorize", "again", "mark", "skip"}
    /\ item[e] \in {"accepted", "skipped"} => item'[e] = item[e]
    /\ exec[e] # {} => exec'[e] = exec[e]

\* An item is decided, or given its id, only by the flush that holds the lease of
\* its group, and for good, whichever flushes are overtaken or die.
THEOREM DecidedUnderTheLease == Spec => DecidedUnderLease
<1>1. Typed /\ Work /\ [Next]_vars => DecidedUnderLeaseStep
  <2> SUFFICES ASSUME Typed, Work, [Next]_vars
               PROVE  DecidedUnderLeaseStep
    OBVIOUS
  <2>1. WorkTypes
    BY WorkTypesHold
  <2>2. ASSUME NEW f \in Flushes, NEW S \in SUBSET Events, NEW s \in {"accepted", "skipped"},
               Decides(f, S, s)
        PROVE  DecidedUnderLeaseStep
    <3>1. ASSUME NEW e \in Events, item'[e] # item[e]
          PROVE  item[e] = "pending" /\ lease[group[e]] = f
      BY <2>2, <3>1 DEF Decides, Members, Holds
    <3> QED
      BY <2>2, <3>1 DEF DecidedUnderLeaseStep, Decides
  <2>3. CASE \A e \in Events : item[e] # "none" => item'[e] = item[e]
    BY <2>1, <2>3, IdsFrozen DEF DecidedUnderLeaseStep
  <2> QED
    BY <2>1, <2>2, <2>3, FlushDecides, ItemsAppear DEF Next, FlushActs, OtherActs
<1>2. Typed /\ Work /\ UNCHANGED vars => DecidedUnderLeaseStep
  BY DEF vars, itemVars, DecidedUnderLeaseStep
<1> QED
  BY <1>1, <1>2, TypeInvariant, WorkInvariant, PTL
     DEF Spec, DecidedUnderLease, DecidedUnderLeaseStep

DeliveryVars == <<DeliveryForm, DeliveryOutcome, DeliveryBegun, acked>>

\* Runs begin.
LEMMA StartDelivers ==
  ASSUME WorkTypes, Work, NEW f \in Flushes, fpc[f] = "run", Started(f), UNCHANGED <<item, acked>>
  PROVE  Delivery!DNext \/ UNCHANGED DeliveryVars
<1> USE DEF WorkTypes
<1>1. HandOK(f)
  BY DEF Work
<1>2. UNCHANGED <<DeliveryForm, DeliveryOutcome>>
  BY DEF DeliveryForm, DeliveryOutcome
<1>3. PICK X \in SUBSET Events : ran' = IF ran[X] = {} THEN [ran EXCEPT ![X] = chunk[f]] ELSE ran
  <2> DEFINE c == CHOOSE e \in chunk[f] : TRUE
  <2>1. c \in chunk[f]
    BY <1>1 DEF HandOK
  <2>2. ran' = IF ran[exec[c]] = {} THEN [ran EXCEPT ![exec[c]] = chunk[f]] ELSE ran
    BY DEF Started
  <2> HIDE DEF c
  <2>3. exec[c] \in SUBSET Events
    BY <2>1
  <2> QED
    BY <2>2, <2>3
<1>4. CASE ran' = ran
  BY <1>2, <1>4 DEF DeliveryVars, DeliveryBegun
<1>5. CASE ran[X] = {} /\ ran' = [ran EXCEPT ![X] = chunk[f]]
  <2>1. DeliveryBegun' = DeliveryBegun \cup chunk[f]
    <3>1. ran'[X] = chunk[f] /\ \A Y \in SUBSET Events : Y # X => ran'[Y] = ran[Y]
      BY <1>5
    <3>2. ASSUME NEW e
          PROVE  e \in DeliveryBegun' <=> e \in DeliveryBegun \/ e \in chunk[f]
      BY <1>5, <3>1 DEF DeliveryBegun
    <3> QED
      BY <3>2
  <2>2. \A e \in chunk[f] : e \in Events /\ item[e] # "none"
    BY <1>1 DEF HandOK
  <2>3. DeliveryOutcome = [e \in Events |-> IF e \in {} THEN "accepted" ELSE DeliveryOutcome[e]]
    BY DEF DeliveryOutcome
  <2>4. \A e \in chunk[f] : DeliveryForm[e] # "none"
    BY <2>2 DEF DeliveryForm
  <2>5. Delivery!Run(chunk[f], {})
    BY <1>2, <2>1, <2>3, <2>4 DEF Delivery!Run
  <2> QED
    BY <2>5 DEF Delivery!DNext
<1> QED
  BY <1>3, <1>4, <1>5

\* Items are decided.
LEMMA DecisionDelivers ==
  ASSUME WorkTypes, NEW f \in Flushes, NEW S \in SUBSET Events,
         NEW s \in {"accepted", "skipped"}, Decides(f, S, s)
  PROVE  Delivery!DNext
<1> USE DEF WorkTypes
<1> DEFINE D == {e \in S : item[e] = "pending"}
<1>1. \A e \in Events : item'[e] = IF e \in D THEN s ELSE item[e]
  BY DEF Decides
<1>2. DeliveryForm' = DeliveryForm /\ DeliveryBegun' = DeliveryBegun
  <2>1. \A e \in Events : item'[e] = "none" <=> item[e] = "none"
    BY <1>1
  <2> QED
    BY <2>1 DEF DeliveryForm, DeliveryBegun, Decides
<1>3. DeliveryOutcome' = [e \in Events |-> IF e \in D THEN s ELSE DeliveryOutcome[e]]
  BY <1>1 DEF DeliveryOutcome
<1>4. \A e \in D : DeliveryForm[e] # "none" /\ DeliveryOutcome[e] = "open"
  BY DEF DeliveryForm, DeliveryOutcome
<1>5. D \in SUBSET Events /\ acked' = acked
  BY DEF Decides
<1>6. s = "accepted" => \A e \in D : e \in DeliveryBegun
  BY DEF Decides, DeliveryBegun
<1> HIDE DEF D
<1>7. CASE s = "skipped"
  BY <1>2, <1>3, <1>4, <1>5, <1>7 DEF Delivery!Skip, Delivery!DNext
<1>8. CASE s = "accepted"
  <2>1. Delivery!Run({}, D)
    BY <1>2, <1>3, <1>4, <1>5, <1>6, <1>8 DEF Delivery!Run
  <2> QED
    BY <1>5, <2>1 DEF Delivery!DNext
<1> QED
  BY <1>7, <1>8

LEMMA FlushDelivers ==
  ASSUME WorkTypes, ReceiptTypes, Work, NEW f \in Flushes, FlushActs(f)
  PROVE  Delivery!DNext \/ UNCHANGED DeliveryVars
<1>1. UNCHANGED acked
  BY FlushKeeps DEF Kept
<1>2. CASE UNCHANGED item
  <2>1. CASE UNCHANGED ran
    BY <1>1, <1>2, <2>1 DEF DeliveryVars, DeliveryForm, DeliveryOutcome, DeliveryBegun
  <2>2. CASE fpc[f] = "run" /\ Started(f)
    BY <1>1, <1>2, <2>2, StartDelivers
  <2> QED
    BY <2>1, <2>2 DEF FlushActs, Cron, Wake, FlushStep, Claim, Read, Authorize, Reread, Pack,
       Submit, Run, Mark, Count, Finish, Skip, Retry, RunFails, FlushError, FlushCrash
<1> QED
  BY <1>2, FlushDecides, DecisionDelivers

\* A post takes an event in, or answers.
LEMMA PostDelivers ==
  ASSUME ReceiptTypes, Receipts, NEW p \in Posts, PostStep(p) \/ PostError(p)
  PROVE  Delivery!DNext \/ UNCHANGED DeliveryVars
<1> USE DEF ReceiptTypes
<1>1. UNCHANGED ran
  BY DEF PostStep, Receive, Store, Look, Adopt, SendWakeup, Confirm, PostError
<1>2. CASE UNCHANGED <<item, acked>>
  BY <1>1, <1>2 DEF DeliveryVars, DeliveryForm, DeliveryOutcome, DeliveryBegun
<1>3. ASSUME NEW e \in Events, item[e] # "none", acked' = acked \cup {e}, UNCHANGED item
      PROVE  Delivery!DNext
  <2>1. UNCHANGED <<DeliveryForm, DeliveryOutcome, DeliveryBegun>>
    BY <1>1, <1>3 DEF DeliveryForm, DeliveryOutcome, DeliveryBegun
  <2>2. Delivery!Tell({e})
    BY <1>3, <2>1 DEF Delivery!Tell, DeliveryForm
  <2> QED
    BY <2>2 DEF Delivery!DNext
<1>4. CASE Store(p)
  <2>1. ev[p] \in Events /\ acked' = acked
    BY <1>4 DEF Store
  <2>2. CASE item[ev[p]] = "none" /\ item' = [item EXCEPT ![ev[p]] = "pending"]
    <3>1. DeliveryForm' = [DeliveryForm EXCEPT ![ev[p]] = "receipt"]
      BY <2>1, <2>2 DEF DeliveryForm
    <3>2. DeliveryOutcome' = DeliveryOutcome
      BY <2>1, <2>2 DEF DeliveryOutcome
    <3>3. DeliveryForm[ev[p]] = "none"
      BY <2>1, <2>2 DEF DeliveryForm
    <3>4. Delivery!TakeIn(ev[p], "receipt")
      BY <1>1, <2>1, <3>1, <3>2, <3>3 DEF Delivery!TakeIn, DeliveryBegun
    <3> QED
      BY <2>1, <3>4 DEF Delivery!DNext, Delivery!Forms
  <2> QED
    BY <1>2, <1>4, <2>1, <2>2 DEF Store
<1>5. CASE Look(p) \/ Adopt(p) \/ Confirm(p)
  <2>1. ev[p] \in Events /\ UNCHANGED item
    BY <1>5 DEF Look, Adopt, Confirm, itemVars
  <2>2. \/ acked' = acked
        \/ acked' = acked \cup {ev[p]} /\ admission[ev[p]] # "none"
    BY <1>5 DEF Look, Adopt, Confirm, Admitted, Receipts
  <2> QED
    BY <1>2, <1>3, <2>1, <2>2 DEF Receipts
<1>6. CASE Receive(p) \/ SendWakeup(p) \/ PostError(p)
  BY <1>2, <1>6 DEF Receive, SendWakeup, PostError, admissionVars, itemVars
<1> QED
  BY <1>4, <1>5, <1>6 DEF PostStep

\* Posts that overlap and flushes that are overtaken or die keep what the abstract
\* delivery promises: an event is taken in once, runs of it begin before it is
\* accepted, its outcome is final, and the host hears of nothing that is not
\* durable.
THEOREM DeliveryIsImplemented == Spec => ImplementsDelivery
<1>1. Init => Delivery!DInit
  BY DEF Init, Delivery!DInit, DeliveryForm, DeliveryOutcome, DeliveryBegun
<1>2. Typed /\ Receipts /\ Work /\ [Next]_vars => [Delivery!DNext]_DeliveryVars
  <2> SUFFICES ASSUME Typed, Receipts, Work, [Next]_vars
               PROVE  Delivery!DNext \/ UNCHANGED DeliveryVars
    OBVIOUS
  <2>1. CASE OtherActs
    BY <2>1 DEF OtherActs, ResetFailed, SendReset, Expire, Reconfigure, TimeStep, NextMinute,
       BecomeDue, WaitOver, vars, admissionVars, itemVars, DeliveryVars, DeliveryForm,
       DeliveryOutcome, DeliveryBegun
  <2> QED
    BY <2>1, PostDelivers, FlushDelivers, WorkTypesHold, ReceiptTypesHold
       DEF Next, FlushActs, OtherActs
<1> QED
  BY <1>1, <1>2, TypeInvariant, ReceiptsInvariant, WorkInvariant, PTL
     DEF Spec, ImplementsDelivery, Delivery!DSpec, DeliveryVars, Delivery!deliveryVars

-----------------------------------------------------------------------------
(* Chunks: those of a minute are filled one after the other.                *)

Bucket(m) == {e \in Events : item[e] # "none" /\ group[e][1] = m}

Size(m, k) == Cardinality(Members(<<m, k>>))

\* The chunk that is being filled has room; those before it are within the limit,
\* those after it empty, and the bucket's count tells which it is.
FilledUpTo(m, q) ==
  /\ Size(m, q) < ChunkSize
  /\ Cardinality(Bucket(m)) = ChunkSize * q + Size(m, q)
  /\ \A k \in Nat : k < q => Size(m, k) <= ChunkSize
  /\ \A k \in Nat : k > q => Members(<<m, k>>) = {}

Chunks ==
  /\ \A e \in Events : item[e] = "none" => group[e] = NoGroup
  /\ \A m \in Minutes : \E q \in Nat : FilledUpTo(m, q)

LEMMA QuotientIs ==
  ASSUME NEW c \in Nat \ {0}, NEW q \in Nat, NEW r \in Nat, r < c, NEW n \in Nat, n = c * q + r
  PROVE  n \div c = q
  OBVIOUS

LEMMA FinitePart ==
  ASSUME NEW S \in SUBSET Events
  PROVE  IsFiniteSet(S) /\ Cardinality(S) \in Nat
  BY FS_Subset, FS_CardinalityType, BatchesAssumption

\* One more item in the chunk that is being filled.
LEMMA StoreFills ==
  ASSUME Typed, Chunks, NEW e \in Events, NEW m \in Minutes, item[e] = "none",
         item' = [item EXCEPT ![e] = "pending"], group' = [group EXCEPT ![e] = ChunkOf(m)]
  PROVE  Chunks'
<1> USE DEF Typed, TypeOK
<1>1. PICK q \in Nat : FilledUpTo(m, q)
  BY DEF Chunks
<1>2. ChunkOf(m) = <<m, q>>
  <2>1. Cardinality(Bucket(m)) \in Nat /\ Size(m, q) \in Nat
    BY FinitePart DEF Bucket, Size, Members
  <2>2. /\ Size(m, q) < ChunkSize /\ ChunkSize \in Nat \ {0}
        /\ Cardinality(Bucket(m)) = ChunkSize * q + Size(m, q)
    BY <1>1, BatchesAssumption DEF FilledUpTo
  <2>3. Cardinality(Bucket(m)) \div ChunkSize = q
    BY <2>1, <2>2, QuotientIs
  <2> QED
    BY <2>3 DEF ChunkOf, Bucket
<1>3. /\ \A d \in Events \ {e} : item'[d] = item[d] /\ group'[d] = group[d]
      /\ item'[e] = "pending" /\ group'[e] = <<m, q>> /\ group[e] = NoGroup
  BY <1>2 DEF Chunks
<1>4. \A h \in Minutes, k \in Nat : <<h, k>> # NoGroup
  BY DEF Minutes, NoGroup
<1>5. \A h \in Minutes, k \in Nat :
        h # m \/ k # q => Members(<<h, k>>)' = Members(<<h, k>>)
  <2> SUFFICES ASSUME NEW h \in Minutes, NEW k \in Nat, h # m \/ k # q
               PROVE  Members(<<h, k>>)' = Members(<<h, k>>)
    OBVIOUS
  <2>1. <<h, k>> # <<m, q>> /\ <<h, k>> # NoGroup
    BY <1>4
  <2>2. \A d \in Events : group'[d] = <<h, k>> <=> group[d] = <<h, k>>
    BY <1>3, <2>1
  <2> QED
    BY <2>2 DEF Members
<1>6. \A h \in Minutes, k \in Nat : h # m \/ k # q => Size(h, k)' = Size(h, k)
  BY <1>5 DEF Size
<1>7. /\ Members(<<m, q>>)' = Members(<<m, q>>) \cup {e} /\ e \notin Members(<<m, q>>)
      /\ Bucket(m)' = Bucket(m) \cup {e} /\ e \notin Bucket(m)
  <2>1. <<m, q>> # NoGroup /\ group'[e][1] = m
    BY <1>3, <1>4
  <2>2. Members(<<m, q>>)' = Members(<<m, q>>) \cup {e} /\ e \notin Members(<<m, q>>)
    <3>1. group[e] # <<m, q>> /\ \A d \in Events : group'[d] = <<m, q>> <=> group[d] = <<m, q>> \/ d = e
      BY <1>3, <2>1
    <3> QED
      BY <3>1 DEF Members
  <2>3. Bucket(m)' = Bucket(m) \cup {e} /\ e \notin Bucket(m)
    BY <1>3, <2>1 DEF Bucket
  <2> QED
    BY <2>2, <2>3
<1>8. /\ Size(m, q) \in Nat /\ Size(m, q)' = Size(m, q) + 1
      /\ Cardinality(Bucket(m)) \in Nat
      /\ Cardinality(Bucket(m)') = Cardinality(Bucket(m)) + 1
  <2>1. /\ IsFiniteSet(Members(<<m, q>>)) /\ IsFiniteSet(Bucket(m))
        /\ Cardinality(Members(<<m, q>>)) \in Nat /\ Cardinality(Bucket(m)) \in Nat
    BY FinitePart DEF Members, Bucket
  <2>2. /\ Cardinality(Members(<<m, q>>) \cup {e}) = Cardinality(Members(<<m, q>>)) + 1
        /\ Cardinality(Bucket(m) \cup {e}) = Cardinality(Bucket(m)) + 1
    BY <1>7, <2>1, FS_AddElement
  <2> QED
    BY <1>7, <2>1, <2>2 DEF Size
<1>9. \E r \in Nat : FilledUpTo(m, r)'
  <2>1. CASE Size(m, q) + 1 < ChunkSize
    <3>1. FilledUpTo(m, q)'
      <4>1. Size(m, q)' < ChunkSize
        BY <1>8, <2>1
      <4>2. Cardinality(Bucket(m)') = ChunkSize * q + Size(m, q)'
        BY <1>1, <1>8, BatchesAssumption DEF FilledUpTo
      <4>3. \A k \in Nat : k < q => Size(m, k)' <= ChunkSize
        BY <1>1, <1>6 DEF FilledUpTo
      <4>4. \A k \in Nat : k > q => Members(<<m, k>>)' = {}
        BY <1>1, <1>5 DEF FilledUpTo
      <4> QED
        BY <4>1, <4>2, <4>3, <4>4 DEF FilledUpTo
    <3> QED
      BY <3>1
  <2>2. CASE Size(m, q) + 1 = ChunkSize
    <3>1. FilledUpTo(m, q + 1)'
      <4>1. Members(<<m, q + 1>>)' = {} /\ Size(m, q + 1)' = 0
        <5>1. Members(<<m, q + 1>>) = {}
          BY <1>1 DEF FilledUpTo
        <5>2. Members(<<m, q + 1>>)' = Members(<<m, q + 1>>)
          <6>1. q + 1 \in Nat /\ q + 1 # q
            OBVIOUS
          <6> QED
            BY <1>5, <6>1
        <5> QED
          BY <5>1, <5>2, FS_EmptySet DEF Size
      <4>2. Cardinality(Bucket(m)') = ChunkSize * (q + 1) + Size(m, q + 1)'
        <5>1. ChunkSize * (q + 1) = ChunkSize * q + ChunkSize
          BY BatchesAssumption
        <5>2. ChunkSize * q \in Nat
          BY BatchesAssumption
        <5> QED
          BY <1>1, <1>8, <2>2, <4>1, <5>1, <5>2, BatchesAssumption DEF FilledUpTo
      <4>3. ASSUME NEW k \in Nat, k < q + 1
            PROVE  Size(m, k)' <= ChunkSize
        <5>1. CASE k = q
          BY <1>8, <2>2, <5>1, BatchesAssumption
        <5>2. CASE k # q
          BY <1>1, <1>6, <4>3, <5>2 DEF FilledUpTo
        <5> QED
          BY <5>1, <5>2
      <4>4. \A k \in Nat : k > q + 1 => Members(<<m, k>>)' = {}
        BY <1>1, <1>5 DEF FilledUpTo
      <4> QED
        BY <4>1, <4>2, <4>3, <4>4, BatchesAssumption DEF FilledUpTo
    <3> QED
      BY <3>1
  <2>3. Size(m, q) < ChunkSize /\ ChunkSize \in Nat /\ Size(m, q) \in Nat
    BY <1>1, <1>8, BatchesAssumption DEF FilledUpTo
  <2> QED
    BY <2>1, <2>2, <2>3
<1>10. ASSUME NEW h \in Minutes \ {m}
       PROVE  \E r \in Nat : FilledUpTo(h, r)'
  <2>1. PICK r \in Nat : FilledUpTo(h, r)
    BY DEF Chunks
  <2>2. Bucket(h)' = Bucket(h)
    BY <1>3 DEF Bucket
  <2>3. FilledUpTo(h, r)'
    BY <1>5, <1>6, <2>1, <2>2 DEF FilledUpTo
  <2> QED
    BY <2>3
<1>11. \A d \in Events : item'[d] = "none" => group'[d] = NoGroup
  BY <1>3 DEF Chunks
<1> QED
  BY <1>9, <1>10, <1>11 DEF Chunks

LEMMA ChunksStep ==
  ASSUME Typed, Receipts, Chunks, [Next]_vars
  PROVE  Chunks'
<1>1. ASSUME NEW p \in Posts, Store(p)
      PROVE  Chunks'
  <2>1. ev[p] \in Events /\ at[p] \in Minutes
    BY <1>1 DEF Store, Typed, Shape
  <2>2. CASE UNCHANGED <<item, group>>
    BY <2>2 DEF Chunks, FilledUpTo, Bucket, Size, Members
  <2> QED
    BY <1>1, <2>1, <2>2, StoreFills DEF Store
<1>2. ASSUME UNCHANGED group, \A e \in Events : item'[e] = "none" <=> item[e] = "none"
      PROVE  Chunks'
  <2>1. \A m : Bucket(m)' = Bucket(m)
    BY <1>2 DEF Bucket
  <2>2. \A g : Members(g)' = Members(g)
    BY <1>2 DEF Members
  <2> QED
    BY <1>2, <2>1, <2>2 DEF Chunks, FilledUpTo, Size
<1>3. ASSUME NEW p \in Posts, PostStep(p) \/ PostError(p), ~ Store(p)
      PROVE  Chunks'
  <2>1. UNCHANGED <<item, group>>
    BY <1>3 DEF PostStep, Receive, Look, Adopt, SendWakeup, Confirm, PostError, itemVars
  <2> QED
    BY <1>2, <2>1
<1>4. CASE Kept
  BY <1>2, <1>4 DEF Kept
<1> QED
  BY <1>1, <1>3, <1>4, FlushKeeps, OtherKeeps, ReceiptTypesHold DEF Next, FlushActs, OtherActs

\* No chunk outgrows the limit of an execution, however many posts of a minute count
\* its bucket.
THEOREM ChunksAreBounded == Spec => []ChunksBounded
<1>1. Init => Chunks
  <2> SUFFICES ASSUME Init PROVE Chunks
    OBVIOUS
  <2>1. \A m \in Minutes, k \in Nat : Members(<<m, k>>) = {}
    BY DEF Init, Members, NoGroup, Minutes
  <2>2. \A m \in Minutes : Bucket(m) = {}
    BY DEF Init, Bucket
  <2>3. \A m \in Minutes : FilledUpTo(m, 0)
    BY <2>1, <2>2, FS_EmptySet, BatchesAssumption DEF FilledUpTo, Size
  <2> QED
    BY <2>3 DEF Init, Chunks
<1>2. Typed /\ Receipts /\ Chunks /\ [Next]_vars => Chunks'
  BY ChunksStep
<1>3. Chunks => ChunksBounded
  <2> SUFFICES ASSUME Chunks, NEW g \in Groups
               PROVE  Cardinality(Members(g)) <= ChunkSize
    BY DEF ChunksBounded
  <2>1. PICK m \in Minutes, k \in 0..Cardinality(Events) : g = <<m, k>>
    BY DEF Groups
  <2>2. k \in Nat
    BY <2>1, FS_CardinalityType, BatchesAssumption
  <2>3. PICK q \in Nat : FilledUpTo(m, q)
    BY DEF Chunks
  <2>4. CASE k > q
    <3>1. Members(g) = {}
      BY <2>1, <2>2, <2>3, <2>4 DEF FilledUpTo
    <3> QED
      BY <3>1, FS_EmptySet, BatchesAssumption
  <2>5. CASE k <= q
    <3>1. Size(m, q) \in Nat
      BY FinitePart DEF Size, Members
    <3> QED
      BY <2>1, <2>2, <2>3, <2>5, <3>1, BatchesAssumption DEF FilledUpTo, Size
  <2> QED
    BY <2>2, <2>4, <2>5
<1> QED
  BY <1>1, <1>2, <1>3, TypeInvariant, ReceiptsInvariant, PTL DEF Spec
=============================================================================

------------------- MODULE CollectionEventAdmissionsProofs -------------------
(***************************************************************************)
(* Proofs about CollectionEventAdmissions, for every number of             *)
(* subscriptions and of overlapping requests, any changes of the           *)
(* configuration and any number of failures.                               *)
(***************************************************************************)
EXTENDS CollectionEventAdmissions, TLAPS

-----------------------------------------------------------------------------
(* Types.                                                                  *)

LEMMA UnseenType == Unseen \in Views
  BY DEF Unseen, Views, Mode

LEMMA EndType ==
  ASSUME TypeOK, NEW p \in Posts, End(p)
  PROVE  /\ pc' \in [Posts -> Phase] /\ left' \in [Posts -> SUBSET Subscriptions]
         /\ cur' \in [Posts -> Subscriptions \cup {None}]
         /\ view' \in [Posts -> [Subscriptions -> Views]]
<1>1. [s \in Subscriptions |-> Unseen] \in [Subscriptions -> Views]
  BY UnseenType
<1> QED
  BY <1>1 DEF TypeOK, End, Goto, Phase

LEMMA NextType ==
  ASSUME TypeOK, NEW p \in Posts, NextSubscription(p)
  PROVE  /\ pc' \in [Posts -> Phase] /\ left' \in [Posts -> SUBSET Subscriptions]
         /\ cur' \in [Posts -> Subscriptions \cup {None}]
         /\ view' \in [Posts -> [Subscriptions -> Views]]
  BY DEF TypeOK, NextSubscription, Goto, Phase

LEMMA FailingType ==
  ASSUME TypeOK, Failing
  PROVE  errors' \in 0..MaxErrors
  BY AdmissionsAssumption DEF TypeOK, Failing

LEMMA PostType ==
  ASSUME TypeOK, NEW p \in Posts, PostStep(p) \/ AcceptFails(p) \/ Crash(p)
  PROVE  TypeOK'
<1> USE DEF TypeOK, admissionVars, configVars, postVars
<1>1. CASE Begin(p)
  <2>1. [s \in Subscriptions |->
           IF s \in {r \in Subscriptions : active[r]}
           THEN [mode |-> mode[s], newer |-> newer[s]] ELSE Unseen]
          \in [Subscriptions -> Views]
    BY UnseenType DEF Views
  <2> QED
    BY <1>1, <2>1 DEF Begin, Goto, Phase
<1>2. CASE Visit(p)
  BY <1>2 DEF Visit, Goto, Phase
<1>3. CASE Answer(p)
  BY <1>3, EndType DEF Answer
<1>4. CASE Enqueue(p)
  BY <1>4, EndType, NextType, FailingType DEF Enqueue, Refuse, Decided
<1>5. CASE Insert(p)
  BY <1>5 DEF Insert, Goto, Phase
<1>6. CASE Look(p)
  BY <1>6, NextType DEF Look, Goto, Phase
<1>7. CASE Claim(p)
  BY <1>7, EndType DEF Claim, Goto, Phase, Refuse
<1>8. CASE Authorize(p)
  BY <1>8, FailingType DEF Authorize, Goto, Phase
<1>9. CASE Reread(p)
  BY <1>9, FailingType DEF Reread, Goto, Phase
<1>10. CASE Run(p)
  <2>1. started' \in [Subscriptions -> BOOLEAN]
    <3>1. CASE cur[p] \in Subscriptions
      BY <1>10, <3>1 DEF Run
    <3>2. CASE cur[p] = None
      BY <1>10, <3>2, AdmissionsAssumption DEF Run
    <3> QED
      BY <3>1, <3>2
  <2> QED
    BY <1>10, <2>1, FailingType DEF Run, Goto, Phase
<1>11. CASE Accept(p)
  BY <1>11, NextType DEF Accept, Decided
<1>12. CASE Skip(p)
  BY <1>12, NextType DEF Skip, Decided
<1>13. CASE Release(p)
  BY <1>13, EndType DEF Release, Refuse
<1>14. CASE AcceptFails(p)
  BY <1>14, FailingType DEF AcceptFails, Goto, Phase
<1>15. CASE Crash(p)
  BY <1>15, EndType, FailingType DEF Crash
<1> QED
  BY <1>1, <1>2, <1>3, <1>4, <1>5, <1>6, <1>7, <1>8, <1>9, <1>10, <1>11, <1>12,
     <1>13, <1>14, <1>15 DEF PostStep

LEMMA TypeStep ==
  ASSUME TypeOK, [Next]_vars
  PROVE  TypeOK'
<1>1. ASSUME NEW s \in Subscriptions, Configure(s)
      PROVE  TypeOK'
  <2>1. newer' \in [Subscriptions -> BOOLEAN]
    <3>1. newer \in [Subscriptions -> BOOLEAN]
      BY DEF TypeOK
    <3>2. \/ newer' = newer
          \/ \E n \in BOOLEAN : newer' = [newer EXCEPT ![s] = n]
      BY <1>1, <3>1 DEF Configure
    <3> QED
      BY <3>1, <3>2
  <2>4. mode' \in [Subscriptions -> Mode]
    BY <1>1 DEF Configure, TypeOK
  <2>2. active' \in [Subscriptions -> BOOLEAN]
    BY <1>1 DEF Configure, TypeOK
  <2>3. changes' \in 0..MaxChanges
    BY <1>1, AdmissionsAssumption DEF Configure, TypeOK
  <2> QED
    BY <1>1, <2>1, <2>2, <2>3, <2>4 DEF Configure, TypeOK, admissionVars, postVars
<1>2. ASSUME NEW s \in Subscriptions, FlushDecides(s) \/ GrowStale(s)
      PROVE  TypeOK'
  <2>1. CASE FlushDecides(s)
    <3>1. admission' \in [Subscriptions -> {"none", "pending", "processing",
                                            "wakeup_pending"} \cup Decided]
      BY <2>1 DEF FlushDecides, TypeOK, Decided
    <3> QED
      BY <2>1, <3>1 DEF FlushDecides, TypeOK, configVars, postVars
  <2>2. CASE GrowStale(s)
    <3>1. stale' \in [Subscriptions -> BOOLEAN]
      BY <2>2 DEF GrowStale, TypeOK
    <3> QED
      BY <2>2, <3>1 DEF GrowStale, TypeOK, configVars, postVars
  <2> QED
    BY <1>2, <2>1, <2>2
<1>3. CASE UNCHANGED vars
  BY <1>3 DEF vars, TypeOK, admissionVars, configVars, postVars
<1> QED
  BY <1>1, <1>2, <1>3, PostType DEF Next

\* Admissions, subscriptions and requests keep their types for every number of
\* subscriptions and of overlapping requests.
THEOREM TypeCorrect == Spec => []TypeOK
<1>1. Init => TypeOK
  <2>1. 0 \in 0..MaxChanges /\ 0 \in 0..MaxErrors
    BY AdmissionsAssumption
  <2>2. [p \in Posts |-> [s \in Subscriptions |-> Unseen]]
          \in [Posts -> [Subscriptions -> Views]]
    BY UnseenType
  <2>3. FirstMode \in [Subscriptions -> Mode]
    BY AdmissionsAssumption
  <2>4. ASSUME Init
        PROVE  /\ admission \in [Subscriptions -> {"none", "pending", "processing",
                                                  "wakeup_pending"} \cup Decided]
               /\ pc \in [Posts -> Phase] /\ left \in [Posts -> SUBSET Subscriptions]
               /\ cur \in [Posts -> Subscriptions \cup {None}]
    BY <2>4 DEF Init, Phase
  <2>5. ASSUME Init
        PROVE  /\ stale \in [Subscriptions -> BOOLEAN] /\ newer \in [Subscriptions -> BOOLEAN]
               /\ active \in [Subscriptions -> BOOLEAN] /\ batched \in [Subscriptions -> BOOLEAN]
               /\ started \in [Subscriptions -> BOOLEAN] /\ delivered \in BOOLEAN
    BY <2>5 DEF Init
  <2> QED
    BY <2>1, <2>2, <2>3, <2>4, <2>5 DEF Init, TypeOK
<1>2. TypeOK /\ [Next]_vars => TypeOK'
  BY TypeStep
<1> QED
  BY <1>1, <1>2, PTL DEF Spec

-----------------------------------------------------------------------------
(* The inductive invariant.                                                *)

Claimed == {"authorize", "reread", "run", "accept", "skip", "release"}
InHand  == {"enqueue", "insert", "look", "claim"} \cup Claimed

\* A request past its claim works on an inline admission, which nothing turns
\* into a receipt; one about to accept has started the run.
HandOK ==
  \A p \in Posts :
    /\ pc[p] \in InHand => cur[p] \in Subscriptions
    /\ pc[p] \in {"look", "claim"} \cup Claimed => admission[cur[p]] # "none"
    /\ pc[p] \in Claimed => ~ batched[cur[p]]
    /\ pc[p] = "accept" => started[cur[p]]

\* The status of an admission tells its form until it is decided.
FormOK ==
  \A s \in Subscriptions :
    /\ batched[s] => admission[s] \notin {"none", "pending", "processing"}
    /\ admission[s] \in {"queued", "wakeup_pending"} => batched[s]

StartedOK ==
  \A s \in Subscriptions : started[s] => ~ batched[s] /\ admission[s] # "none"

IInv == HandOK /\ FormOK /\ StartedOK /\ AcceptedWasStarted

LEMMA PostKeeps ==
  ASSUME TypeOK, IInv, NEW p \in Posts, PostStep(p) \/ AcceptFails(p) \/ Crash(p)
  PROVE  IInv'
<1> USE DEF TypeOK, IInv, HandOK, FormOK, StartedOK, AcceptedWasStarted, Claimed, InHand
<1> USE DEF admissionVars, configVars, postVars, Goto, End, NextSubscription, Refuse
<1>1. CASE Begin(p)
  BY <1>1 DEF Begin
<1>2. CASE Visit(p)
  BY <1>2 DEF Visit
<1>3. CASE Answer(p)
  BY <1>3 DEF Answer
<1>4. CASE Enqueue(p)
  <2>1. cur[p] \in Subscriptions
    BY <1>4 DEF Enqueue
  <2>2. CASE ~ Receivable(cur[p])
    BY <1>4, <2>2 DEF Enqueue
  <2>3. CASE Receivable(cur[p]) /\ UNCHANGED <<admission, batched>>
    BY <1>4, <2>3 DEF Enqueue
  <2>4. ASSUME NEW a \in {"queued", "wakeup_pending"}, Receivable(cur[p]),
               admission' = [admission EXCEPT ![cur[p]] = a],
               batched' = [batched EXCEPT ![cur[p]] = TRUE]
        PROVE  IInv'
    <3>1. ~ started[cur[p]]
      BY <2>1, <2>4 DEF Receivable
    <3>2. \A q \in Posts : pc[q] \in Claimed => cur[q] # cur[p]
      BY <2>1, <2>4 DEF Receivable
    <3>3. pc' = [pc EXCEPT ![p] = pc'[p]] /\ pc'[p] \in {"visit", "idle"}
      BY <1>4 DEF Enqueue
    <3>4. cur' = [cur EXCEPT ![p] = None] /\ UNCHANGED started
      BY <1>4 DEF Enqueue
    <3>5. \A s \in Subscriptions \ {cur[p]} :
            admission'[s] = admission[s] /\ batched'[s] = batched[s]
      BY <2>4
    <3>6. admission'[cur[p]] = a /\ batched'[cur[p]]
      BY <2>1, <2>4
    <3>7. HandOK'
      BY <2>1, <3>2, <3>3, <3>4, <3>5, <3>6
    <3>8. FormOK'
      BY <3>5, <3>6
    <3>9. \A s \in Subscriptions : started'[s] => s # cur[p] /\ started[s]
      BY <3>1, <3>4
    <3>10. StartedOK' /\ AcceptedWasStarted'
      BY <3>4, <3>5, <3>6, <3>9
    <3> QED
      BY <3>7, <3>8, <3>10
  <2> QED
    BY <1>4, <2>2, <2>3, <2>4 DEF Enqueue
<1>5. CASE Insert(p)
  BY <1>5 DEF Insert
<1>6. CASE Look(p)
  BY <1>6 DEF Look, Decided
<1>7. CASE Claim(p)
  BY <1>7 DEF Claim, Claimable
<1>8. CASE Authorize(p)
  BY <1>8 DEF Authorize
<1>9. CASE Reread(p)
  BY <1>9 DEF Reread
<1>10. CASE Run(p)
  <2>1. cur[p] \in Subscriptions /\ ~ batched[cur[p]] /\ admission[cur[p]] # "none"
    BY <1>10 DEF Run
  <2>2. PICK b \in BOOLEAN : /\ started' = [started EXCEPT ![cur[p]] = b]
                             /\ started[cur[p]] => b
    BY <1>10, <2>1 DEF Run
  <2>3. \A s \in Subscriptions : /\ started[s] => started'[s]
                                 /\ started'[s] => started[s] \/ s = cur[p]
    <3>1. \A s \in Subscriptions \ {cur[p]} : started'[s] = started[s]
      BY <2>2
    <3>2. started'[cur[p]] = b
      BY <2>1, <2>2
    <3> QED
      BY <2>2, <3>1, <3>2
  <2>4. UNCHANGED <<admission, batched, cur>>
    BY <1>10 DEF Run
  <2>5. /\ pc' = [pc EXCEPT ![p] = pc'[p]] /\ pc'[p] \in {"accept", "release"}
        /\ pc'[p] = "accept" => started'[cur[p]]
    BY <1>10, <2>1 DEF Run
  <2>6. HandOK'
    BY <2>1, <2>3, <2>4, <2>5
  <2>7. FormOK' /\ StartedOK' /\ AcceptedWasStarted'
    BY <2>1, <2>3, <2>4
  <2> QED
    BY <2>6, <2>7
<1>11. CASE Accept(p)
  BY <1>11 DEF Accept
<1>12. CASE Skip(p)
  BY <1>12 DEF Skip
<1>13. CASE Release(p)
  BY <1>13 DEF Release
<1>14. CASE AcceptFails(p)
  BY <1>14 DEF AcceptFails
<1>15. CASE Crash(p)
  BY <1>15 DEF Crash
<1> QED
  BY <1>1, <1>2, <1>3, <1>4, <1>5, <1>6, <1>7, <1>8, <1>9, <1>10, <1>11, <1>12,
     <1>13, <1>14, <1>15 DEF PostStep

LEMMA InvStep ==
  ASSUME TypeOK, IInv, [Next]_vars
  PROVE  IInv'
<1> USE DEF TypeOK, IInv, HandOK, FormOK, StartedOK, AcceptedWasStarted, Claimed, InHand
<1> USE DEF admissionVars, configVars, postVars
<1>1. ASSUME NEW s \in Subscriptions, Configure(s)
      PROVE  IInv'
  BY <1>1 DEF Configure
<1>2. ASSUME NEW s \in Subscriptions, FlushDecides(s)
      PROVE  IInv'
  BY <1>2 DEF FlushDecides
<1>3. ASSUME NEW s \in Subscriptions, GrowStale(s)
      PROVE  IInv'
  BY <1>3 DEF GrowStale
<1>4. CASE UNCHANGED vars
  BY <1>4 DEF vars
<1> QED
  BY <1>1, <1>2, <1>3, <1>4, PostKeeps DEF Next

LEMMA Invariant == Spec => [](TypeOK /\ IInv)
<1>1. Init => IInv
  BY DEF Init, IInv, HandOK, FormOK, StartedOK, AcceptedWasStarted, Claimed, InHand
<1>2. TypeOK /\ IInv /\ [Next]_vars => IInv'
  BY InvStep
<1> QED
  BY <1>1, <1>2, TypeCorrect, PTL DEF Spec

\* An event with a batch receipt is never run inline, however often the mode of
\* the subscription changes while requests overlap.
THEOREM ReceiptsOwnEvents == Spec => []ReceiptOwnsEvent
<1>1. IInv => ReceiptOwnsEvent
  BY DEF IInv, StartedOK, ReceiptOwnsEvent
<1> QED
  BY <1>1, Invariant, PTL

\* An admission is accepted only after a run or by a flush, although the
\* accepting UPDATE asks neither for a status nor for an owner.
THEOREM AcceptedMeansStarted == Spec => []AcceptedWasStarted
<1>1. IInv => AcceptedWasStarted
  BY DEF IInv
<1> QED
  BY <1>1, Invariant, PTL

\* No overtaken request, release or retry makes a decided admission open again.
THEOREM DecisionsStay == Spec => NotReopened
<1> DEFINE Stays == \A s \in Subscriptions :
                      admission[s] \in Decided => admission'[s] \in Decided
<1>1. TypeOK /\ [Next]_vars => Stays
  <2> SUFFICES ASSUME TypeOK, [Next]_vars PROVE Stays
    OBVIOUS
  <2> USE DEF TypeOK, Decided
  <2>1. CASE UNCHANGED admission
    BY <2>1
  <2>2. ASSUME NEW p \in Posts, Enqueue(p)
        PROVE  Stays
    BY <2>2 DEF Enqueue, Receivable
  <2>3. ASSUME NEW p \in Posts, Insert(p)
        PROVE  Stays
    BY <2>3 DEF Insert
  <2>4. ASSUME NEW p \in Posts, Claim(p)
        PROVE  Stays
    BY <2>4 DEF Claim, Claimable
  <2>5. ASSUME NEW p \in Posts, Accept(p) \/ Skip(p)
        PROVE  Stays
    BY <2>5 DEF Accept, Skip
  <2>6. ASSUME NEW p \in Posts, Release(p)
        PROVE  Stays
    BY <2>6 DEF Release
  <2>7. ASSUME NEW s \in Subscriptions, FlushDecides(s)
        PROVE  Stays
    BY <2>7 DEF FlushDecides
  <2> QED
    BY <2>1, <2>2, <2>3, <2>4, <2>5, <2>6, <2>7
       DEF Next, PostStep, Begin, Visit, Answer, Look, Authorize, Reread, Run, AcceptFails,
           Crash, Configure, GrowStale, vars, admissionVars
<1>2. TypeOK /\ [Next]_vars => [Stays]_vars
  BY <1>1
<1> QED
  BY <1>2, TypeCorrect, PTL DEF Spec, NotReopened

-----------------------------------------------------------------------------
(* What an answer tells the host, where no subscription watches fields.    *)

NoneWatches == \A s \in Subscriptions : Watched[s] = {}

\* A request that is under way has not lost a subscription that expects the
\* event: it will visit it, has it in hand, or found it decided.
Covered ==
  \A p \in Posts, s \in Subscriptions :
    pc[p] # "idle" /\ Expects(s) =>
      /\ ~ view[p][s].newer
      /\ \/ s \in left[p]
         \/ pc[p] \in InHand /\ s = cur[p]
         \/ admission[s] \in Decided

CInv == Covered /\ DeliveredIsDecided

\* A request refuses, or goes on with the subscription in hand decided.
LEMMA AnswerCovers ==
  ASSUME TypeOK, CInv, NEW p \in Posts, pc[p] \in InHand, cur[p] \in Subscriptions,
         UNCHANGED <<active, newer, delivered>>,
         \A s \in Subscriptions : admission[s] \in Decided => admission'[s] \in Decided,
         Refuse(p) \/ (NextSubscription(p) /\ admission'[cur[p]] \in Decided)
  PROVE  CInv'
<1>1. \A s \in Subscriptions : Expects(s)' <=> Expects(s)
  BY DEF Expects
<1>2. DeliveredIsDecided'
  BY <1>1 DEF CInv, DeliveredIsDecided
<1>3. CASE Refuse(p)
  BY <1>1, <1>2, <1>3 DEF TypeOK, CInv, Covered, Refuse, End, Goto
<1>4. CASE NextSubscription(p) /\ admission'[cur[p]] \in Decided
  BY <1>1, <1>2, <1>4 DEF TypeOK, CInv, Covered, NextSubscription, Goto, InHand, Claimed
<1> QED
  BY <1>3, <1>4

LEMMA PostCovers ==
  ASSUME NoneWatches, TypeOK, IInv, CInv, NEW p \in Posts,
         PostStep(p) \/ AcceptFails(p) \/ Crash(p)
  PROVE  CInv'
<1> USE DEF TypeOK, CInv, Covered, DeliveredIsDecided, Expects, Claimed, InHand, Decided
<1> USE DEF admissionVars, configVars, postVars, Goto, End, NextSubscription, Refuse
<1>0. /\ \A s \in Subscriptions : Watches(s, ChangedFields) /\ Watches(s, EnvelopeFields)
      /\ pc[p] \in InHand => cur[p] \in Subscriptions
  BY DEF NoneWatches, Watches, IInv, HandOK
<1>1. CASE Begin(p)
  BY <1>0, <1>1 DEF Begin
<1>2. CASE Visit(p)
  BY <1>0, <1>2 DEF Visit, RejectedUnseen
<1>3. CASE Answer(p)
  BY <1>3 DEF Answer
<1>4. CASE Enqueue(p)
  <2>1. UNCHANGED <<active, newer, delivered>>
    BY <1>4 DEF Enqueue
  <2>2. \A s \in Subscriptions : admission[s] \in Decided => admission'[s] \in Decided
    BY <1>4 DEF Enqueue, Receivable
  <2>3. Refuse(p) \/ (NextSubscription(p) /\ admission'[cur[p]] \in Decided)
    BY <1>0, <1>4 DEF Enqueue, Receivable
  <2> QED
    BY <1>0, <1>4, <2>1, <2>2, <2>3, AnswerCovers DEF Enqueue
<1>5. CASE Insert(p)
  BY <1>0, <1>5 DEF Insert
<1>6. CASE Look(p)
  BY <1>0, <1>6 DEF Look
<1>7. CASE Claim(p)
  <2>1. UNCHANGED <<active, newer, delivered>>
    BY <1>7 DEF Claim
  <2>2. \A s \in Subscriptions : admission[s] \in Decided => admission'[s] \in Decided
    BY <1>7 DEF Claim, Claimable
  <2>3. CASE Refuse(p)
    BY <1>0, <1>7, <2>1, <2>2, <2>3, AnswerCovers DEF Claim
  <2>4. CASE Goto(p, "authorize") /\ UNCHANGED <<left, cur, view>>
    BY <1>0, <1>7, <2>1, <2>2, <2>4 DEF Claim
  <2> QED
    BY <1>7, <2>3, <2>4 DEF Claim
<1>8. CASE Authorize(p)
  BY <1>8 DEF Authorize
<1>9. CASE Reread(p)
  BY <1>9 DEF Reread
<1>10. CASE Run(p)
  BY <1>10 DEF Run
<1>11. CASE Accept(p)
  BY <1>0, <1>11 DEF Accept
<1>12. CASE Skip(p)
  BY <1>0, <1>12 DEF Skip
<1>13. CASE Release(p)
  BY <1>0, <1>13 DEF Release
<1>14. CASE AcceptFails(p)
  BY <1>14 DEF AcceptFails
<1>15. CASE Crash(p)
  BY <1>15 DEF Crash
<1> QED
  BY <1>1, <1>2, <1>3, <1>4, <1>5, <1>6, <1>7, <1>8, <1>9, <1>10, <1>11, <1>12,
     <1>13, <1>14, <1>15 DEF PostStep

LEMMA CoverStep ==
  ASSUME NoneWatches, TypeOK, IInv, CInv, [Next]_vars
  PROVE  CInv'
<1> USE DEF TypeOK, CInv, Covered, DeliveredIsDecided, Decided, InHand, Claimed
<1> USE DEF admissionVars, configVars, postVars
<1>1. ASSUME NEW s \in Subscriptions, Configure(s)
      PROVE  CInv'
  <2>1. \A r \in Subscriptions : Expects(r)' => Expects(r)
    BY <1>1 DEF Configure, Expects
  <2> QED
    BY <1>1, <2>1 DEF Configure
<1>2. ASSUME NEW s \in Subscriptions, FlushDecides(s)
      PROVE  CInv'
  BY <1>2 DEF FlushDecides, Expects
<1>3. ASSUME NEW s \in Subscriptions, GrowStale(s)
      PROVE  CInv'
  BY <1>3 DEF GrowStale, Expects
<1>4. CASE UNCHANGED vars
  BY <1>4 DEF vars, Expects
<1> QED
  BY <1>1, <1>2, <1>3, <1>4, PostCovers DEF Next

\* Where no subscription watches fields, the host hears that the event is
\* admitted only when each that expects it has decided, or holds its receipt.
THEOREM DeliveredMeansDecided ==
  ASSUME NoneWatches
  PROVE  Spec => []DeliveredIsDecided
<1>1. Init => CInv
  BY DEF Init, CInv, Covered, DeliveredIsDecided
<1>2. TypeOK /\ IInv /\ CInv /\ [Next]_vars => CInv'
  BY CoverStep
<1>3. CInv => DeliveredIsDecided
  BY DEF CInv
<1> QED
  BY <1>1, <1>2, <1>3, Invariant, PTL DEF Spec

-----------------------------------------------------------------------------
(* The refinement of EventDelivery: which step of the delivery each step of  *)
(* a request or of the rest of the system is.                               *)

DeliveryVars == <<DeliveryForm, DeliveryOutcome, DeliveryBegun, DeliveryTold>>

\* Only an answer and a change of the configuration concern what was told.
LEMMA ToldKept ==
  ASSUME UNCHANGED <<delivered, active, newer>>
  PROVE  UNCHANGED DeliveryTold
  BY DEF DeliveryTold, Expects

\* An admission that is undecided before and after, keeps its form, or is not
\* written at all.
LEMMA FormKept ==
  ASSUME UNCHANGED <<batched, started>>,
         \A s \in Subscriptions :
           \/ admission'[s] = admission[s]
           \/ {admission[s], admission'[s]} \cap {"none", "accepted", "skipped"} = {}
  PROVE  UNCHANGED <<DeliveryForm, DeliveryOutcome, DeliveryBegun>>
<1>1. \A s \in Subscriptions :
        /\ admission'[s] = "none" <=> admission[s] = "none"
        /\ admission'[s] = "accepted" <=> admission[s] = "accepted"
        /\ admission'[s] = "skipped" <=> admission[s] = "skipped"
  OBVIOUS
<1>2. UNCHANGED DeliveryForm
  BY <1>1 DEF DeliveryForm
<1>3. UNCHANGED DeliveryOutcome
  BY <1>1 DEF DeliveryOutcome
<1>4. UNCHANGED DeliveryBegun
  BY <1>1 DEF DeliveryBegun
<1> QED
  BY <1>2, <1>3, <1>4

\* An admission that appears is taken in: as a receipt if there is one.
LEMMA TakesIn ==
  ASSUME TypeOK, IInv, NEW s \in Subscriptions, NEW a \in {"pending", "queued", "wakeup_pending"},
         admission[s] = "none", admission' = [admission EXCEPT ![s] = a],
         \/ a = "pending" /\ batched' = batched
         \/ a # "pending" /\ batched' = [batched EXCEPT ![s] = TRUE],
         UNCHANGED <<started, delivered, active, newer>>
  PROVE  \E f \in Delivery!Forms : Delivery!TakeIn(s, f)
<1> DEFINE f == IF a = "pending" THEN "inline" ELSE "receipt"
<1>1. \A r \in Subscriptions \ {s} : admission'[r] = admission[r] /\ batched'[r] = batched[r]
  BY DEF TypeOK
<1>2. /\ admission'[s] = a
      /\ a = "pending" => ~ batched'[s]
      /\ a # "pending" => batched'[s]
      /\ ~ started[s] /\ ~ batched[s]
  BY DEF TypeOK, IInv, FormOK, StartedOK
<1>3. DeliveryForm[s] = "none"
  BY DEF DeliveryForm
<1>4. DeliveryForm' = [DeliveryForm EXCEPT ![s] = f]
  BY <1>1, <1>2 DEF DeliveryForm
<1>5. UNCHANGED DeliveryOutcome
  BY <1>1, <1>2 DEF DeliveryOutcome
<1>6. UNCHANGED DeliveryBegun
  BY <1>1, <1>2 DEF DeliveryBegun
<1> QED
  BY <1>3, <1>4, <1>5, <1>6, ToldKept DEF Delivery!TakeIn, Delivery!Forms

\* One admission is decided, by its request or by the flush of its receipt.
LEMMA Decides ==
  ASSUME TypeOK, IInv, NEW s \in Subscriptions, NEW d \in {"accepted", "skipped"},
         admission' = [admission EXCEPT ![s] = d], admission[s] # "none",
         batched[s] => admission[s] = "queued",
         ~ batched[s] /\ d = "accepted" => started[s],
         UNCHANGED <<batched, started, delivered, active, newer>>
  PROVE  Delivery!DNext
<1> USE DEF TypeOK
<1>1. \A r \in Subscriptions \ {s} : admission'[r] = admission[r]
  OBVIOUS
<1>2. admission'[s] = d
  OBVIOUS
<1>3. UNCHANGED DeliveryForm /\ DeliveryForm[s] # "none"
  BY <1>1, <1>2 DEF DeliveryForm
<1>4. DeliveryForm[s] = "receipt" => DeliveryOutcome[s] = "open"
  BY DEF DeliveryForm, DeliveryOutcome
<1>5. DeliveryOutcome' = [r \in Subscriptions |-> IF r \in {s} THEN d
                                                 ELSE DeliveryOutcome[r]]
  BY <1>1, <1>2 DEF DeliveryOutcome
<1>6. UNCHANGED DeliveryTold
  BY ToldKept
<1>7. CASE d = "accepted"
  <2>1. DeliveryBegun' = DeliveryBegun \cup {s}
    BY <1>1, <1>2, <1>7 DEF DeliveryBegun
  <2>2. Delivery!Run({s}, {s})
    BY <1>3, <1>4, <1>5, <1>6, <1>7, <2>1 DEF Delivery!Run
  <2> QED
    BY <2>2 DEF Delivery!DNext
<1>8. CASE d = "skipped"
  <2>1. admission[s] = "accepted" => ~ batched[s]
    OBVIOUS
  <2>2. UNCHANGED DeliveryBegun
    BY <1>1, <1>2, <1>8, <2>1 DEF DeliveryBegun
  <2>3. Delivery!Skip({s})
    BY <1>3, <1>4, <1>5, <1>6, <1>8, <2>2 DEF Delivery!Skip
  <2> QED
    BY <2>3 DEF Delivery!DNext
<1> QED
  BY <1>7, <1>8

LEMMA PostDelivers ==
  ASSUME TypeOK, IInv, CInv, CInv', NEW p \in Posts,
         PostStep(p) \/ AcceptFails(p) \/ Crash(p)
  PROVE  Delivery!DNext \/ UNCHANGED DeliveryVars
<1> USE DEF TypeOK
<1>1. CASE UNCHANGED <<admissionVars, configVars, delivered, started>>
  BY <1>1, FormKept, ToldKept DEF DeliveryVars, admissionVars, configVars
<1>2. CASE Answer(p)
  <2>1. UNCHANGED <<DeliveryForm, DeliveryOutcome, DeliveryBegun>>
    BY <1>2, FormKept DEF Answer, admissionVars
  <2>2. DeliveryTold' = DeliveryTold \cup DeliveryTold'
    BY <1>2 DEF Answer, DeliveryTold, Expects, configVars
  <2>3. \A s \in DeliveryTold' : /\ s \in Subscriptions
                                 /\ admission'[s] \in Decided
    BY DEF CInv, DeliveredIsDecided, DeliveryTold
  <2>4. \A s \in DeliveryTold' : DeliveryForm[s] = "receipt" \/ DeliveryOutcome[s] # "open"
    BY <1>2, <2>3 DEF Answer, admissionVars, Decided, IInv, FormOK, DeliveryForm, DeliveryOutcome
  <2>5. Delivery!Tell(DeliveryTold')
    BY <2>1, <2>2, <2>4 DEF Delivery!Tell
  <2>6. DeliveryTold' \in SUBSET Subscriptions
    BY <2>3
  <2> QED
    BY <2>5, <2>6 DEF Delivery!DNext
<1>3. CASE Enqueue(p)
  <2>1. cur[p] \in Subscriptions
    BY <1>3 DEF Enqueue, IInv, HandOK, InHand
  <2>2. UNCHANGED <<started, delivered, active, newer>>
    BY <1>3 DEF Enqueue, configVars
  <2>3. CASE UNCHANGED <<admission, batched>>
    BY <2>2, <2>3, FormKept, ToldKept DEF DeliveryVars
  <2>4. ASSUME NEW a \in {"queued", "wakeup_pending"}, Receivable(cur[p]),
               admission' = [admission EXCEPT ![cur[p]] = a],
               batched' = [batched EXCEPT ![cur[p]] = TRUE]
        PROVE  Delivery!DNext \/ UNCHANGED DeliveryVars
    <3>1. CASE admission[cur[p]] = "none"
      BY <2>1, <2>2, <2>4, <3>1, TakesIn DEF Delivery!DNext
    <3>2. CASE admission[cur[p]] = "wakeup_pending"
      <4>1. batched' = batched
        BY <2>1, <2>4, <3>2 DEF IInv, FormOK
      <4> QED
        BY <2>1, <2>2, <2>4, <3>2, <4>1, FormKept, ToldKept DEF DeliveryVars
    <3> QED
      BY <2>4, <3>1, <3>2 DEF Receivable
  <2> QED
    BY <1>3, <2>3, <2>4 DEF Enqueue
<1>4. CASE Insert(p)
  <2>1. cur[p] \in Subscriptions
    BY <1>4 DEF Insert, IInv, HandOK, InHand
  <2>2. UNCHANGED <<started, delivered, active, newer, batched>>
    BY <1>4 DEF Insert, configVars
  <2>3. CASE admission[cur[p]] = "none"
    <3>1. admission' = [admission EXCEPT ![cur[p]] = "pending"]
      BY <1>4, <2>3 DEF Insert
    <3> QED
      BY <2>1, <2>2, <2>3, <3>1, TakesIn DEF Delivery!DNext
  <2>4. CASE admission[cur[p]] # "none"
    <3>1. \A s \in Subscriptions : admission'[s] = admission[s]
      BY <1>4, <2>4 DEF Insert
    <3> QED
      BY <2>2, <3>1, FormKept, ToldKept DEF DeliveryVars
  <2> QED
    BY <2>3, <2>4
<1>5. CASE Claim(p) \/ Release(p)
  <2>1. UNCHANGED <<started, delivered, active, newer, batched>>
    BY <1>5 DEF Claim, Release, configVars
  <2>2. \A s \in Subscriptions :
           \/ admission'[s] = admission[s]
           \/ {admission[s], admission'[s]} \cap {"none", "accepted", "skipped"} = {}
    BY <1>5 DEF Claim, Release, Claimable
  <2> QED
    BY <2>1, <2>2, FormKept, ToldKept DEF DeliveryVars
<1>6. CASE Run(p)
  <2>1. cur[p] \in Subscriptions /\ admission[cur[p]] # "none"
    BY <1>6 DEF Run, IInv, HandOK, InHand, Claimed
  <2>2. UNCHANGED <<admission, batched, delivered, active, newer>>
    BY <1>6 DEF Run, admissionVars, configVars
  <2>3. PICK b \in BOOLEAN : /\ started' = [started EXCEPT ![cur[p]] = b]
                             /\ started[cur[p]] => b
    BY <1>6, <2>1 DEF Run
  <2>4. CASE b = FALSE
    <3>1. started' = started
      BY <2>1, <2>3, <2>4
    <3> QED
      BY <2>2, <3>1, FormKept, ToldKept DEF DeliveryVars
  <2>5. CASE b = TRUE
    <3>1. UNCHANGED <<DeliveryForm, DeliveryOutcome>>
      BY <2>2 DEF DeliveryForm, DeliveryOutcome
    <3>2. started'[cur[p]] /\ \A s \in Subscriptions \ {cur[p]} : started'[s] = started[s]
      BY <2>1, <2>3, <2>5
    <3>3. DeliveryBegun' = DeliveryBegun \cup {cur[p]}
      BY <2>1, <2>2, <3>2 DEF DeliveryBegun
    <3>4. DeliveryForm[cur[p]] # "none"
      BY <2>1 DEF DeliveryForm
    <3>5. DeliveryOutcome = [s \in Subscriptions |-> IF s \in {} THEN "accepted"
                                                    ELSE DeliveryOutcome[s]]
      BY DEF DeliveryOutcome
    <3>6. Delivery!Run({cur[p]}, {})
      BY <2>2, <3>1, <3>3, <3>4, <3>5, ToldKept DEF Delivery!Run
    <3> QED
      BY <2>1, <3>6 DEF Delivery!DNext
  <2> QED
    BY <2>4, <2>5
<1>7. CASE Accept(p) \/ Skip(p)
  <2>1. /\ cur[p] \in Subscriptions /\ admission[cur[p]] # "none" /\ ~ batched[cur[p]]
        /\ pc[p] = "accept" => started[cur[p]]
    BY <1>7 DEF Accept, Skip, IInv, HandOK, InHand, Claimed
  <2>2. UNCHANGED <<started, delivered, active, newer, batched>>
    BY <1>7 DEF Accept, Skip, configVars
  <2>3. \E d \in {"accepted", "skipped"} : /\ admission' = [admission EXCEPT ![cur[p]] = d]
                                           /\ d = "accepted" => started[cur[p]]
    BY <1>7, <2>1 DEF Accept, Skip
  <2> QED
    BY <2>1, <2>2, <2>3, Decides
<1> QED
  BY <1>1, <1>2, <1>3, <1>4, <1>5, <1>6, <1>7
     DEF PostStep, Begin, Visit, Look, Authorize, Reread, AcceptFails, Crash

LEMMA StepDelivers ==
  ASSUME TypeOK, IInv, CInv, CInv', [Next]_vars
  PROVE  [Delivery!DNext]_DeliveryVars
<1>1. ASSUME NEW s \in Subscriptions, Configure(s)
      PROVE  Delivery!DNext
  <2>1. UNCHANGED <<DeliveryForm, DeliveryOutcome, DeliveryBegun>>
    BY <1>1, FormKept DEF Configure, admissionVars
  <2>2. DeliveryTold' = DeliveryTold \ (DeliveryTold \ DeliveryTold')
    <3>1. \A r \in Subscriptions : Expects(r)' => Expects(r)
      BY <1>1 DEF Configure, Expects, TypeOK
    <3> QED
      BY <1>1, <3>1 DEF Configure, DeliveryTold
  <2>3. Delivery!Withdraw(DeliveryTold \ DeliveryTold')
    BY <2>1, <2>2 DEF Delivery!Withdraw
  <2>4. DeliveryTold \ DeliveryTold' \in SUBSET Subscriptions
    BY DEF DeliveryTold
  <2> QED
    BY <2>3, <2>4 DEF Delivery!DNext
<1>2. ASSUME NEW s \in Subscriptions, FlushDecides(s)
      PROVE  Delivery!DNext
  <2>1. batched[s] /\ UNCHANGED <<batched, started, delivered, active, newer>>
    BY <1>2 DEF FlushDecides, IInv, FormOK, configVars
  <2> QED
    BY <1>2, <2>1, Decides DEF FlushDecides
<1>3. CASE UNCHANGED vars \/ \E s \in Subscriptions : GrowStale(s)
  BY <1>3, FormKept, ToldKept DEF vars, GrowStale, DeliveryVars, admissionVars, configVars
<1> QED
  BY <1>1, <1>2, <1>3, PostDelivers DEF Next

\* Requests that overlap, fail and die, changes of the configuration and flushes
\* keep what the abstract delivery promises, where no subscription watches
\* fields: each event is taken in once, in one form, and so on.
THEOREM DeliveryIsImplemented ==
  ASSUME NoneWatches
  PROVE  Spec => ImplementsDelivery
<1>1. Init => CInv /\ Delivery!DInit
  BY DEF Init, CInv, Covered, DeliveredIsDecided, Delivery!DInit, DeliveryForm,
     DeliveryOutcome, DeliveryBegun, DeliveryTold
<1>2. TypeOK /\ IInv /\ CInv /\ [Next]_vars => CInv'
  BY CoverStep
<1>3. TypeOK /\ IInv /\ CInv /\ CInv' /\ [Next]_vars => [Delivery!DNext]_DeliveryVars
  BY StepDelivers
<1> QED
  BY <1>1, <1>2, <1>3, Invariant, PTL
     DEF Spec, ImplementsDelivery, Delivery!DSpec, DeliveryVars, Delivery!deliveryVars
=============================================================================

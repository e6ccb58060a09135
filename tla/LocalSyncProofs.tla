-------------------------- MODULE LocalSyncProofs --------------------------
(***************************************************************************)
(* Proofs about LocalSync, for every set of records, every number of edits *)
(* and retries, and any number of changes by others, failing calls,        *)
(* refusals, policy changes and expired sessions.                          *)
(***************************************************************************)
EXTENDS LocalSync, FiniteSetTheorems, WellFoundedInduction, TLAPS

-----------------------------------------------------------------------------
(* The inductive invariant.                                                *)

\* Answers and pages; a positive answer has a document.
AnswerOK ==
  reply # None =>
    /\ reply.id \in Ids /\ reply.rec \in Records
    /\ reply.kind \in {"ok", "conflict", "refused", "forbidden"}
    /\ reply.doc \in Doc \cup {None}
    /\ reply.kind = "ok" => reply.doc \in Doc

PageOK ==
  pc = "page" =>
    /\ DOMAIN page.docs \subseteq Records
    /\ \A r \in DOMAIN page.docs : page.docs[r] \in Doc
    /\ page.removed \subseteq Records
    /\ page.next \in [rev : Nat, seq : Nat]

Typed == TypeOK /\ AnswerOK /\ PageOK

\* Mutation ids are never used again.
Numbered ==
  /\ DOMAIN box \subseteq 1..used /\ DOMAIN receipt \subseteq 1..used
  /\ list \subseteq 1..used
  /\ \A q \in requests : q.id \in 1..used
  /\ reply # None => reply.id \in 1..used

\* What was asked is what is queued: a mutation with other edits has another id.
Faithful ==
  /\ \A q \in requests : q.id \in DOMAIN box =>
       box[q.id].data = q.data /\ box[q.id].rec = q.rec
  /\ reply # None /\ reply.id \in DOMAIN box => box[reply.id].rec = reply.rec

Stored(e) == \E r \in Records : e \in doc[r].has

\* The server has what it gave a receipt for.
ReceiptsTrue ==
  /\ reply # None /\ reply.kind = "ok" => reply.id \in DOMAIN receipt
  /\ \A m \in DOMAIN receipt \cap DOMAIN box : \A e \in box[m].data : Stored(e)

Conserved == Numbered /\ Faithful /\ ReceiptsTrue /\ NoEditLost

\* A pass has one call under way, and an answer while it waits for it.
OneCall ==
  /\ reply # None => pc = "wait"
  /\ \A q \in requests : ~q.late => pc = "wait" /\ reply = None
  /\ \A q1, q2 \in requests : ~q1.late /\ ~q2.late => q1 = q2

\* The policy revisions of the server, of the replica and of the pass.
Revisions ==
  /\ policy >= 1 /\ known <= policy
  /\ pc # "idle" => revision \in 1..policy
  /\ pc = "accept" => known <= revision
  /\ pc \notin {"idle", "accept"} => revision = known
  /\ \A q \in requests : q.rev \in 1..known

\* What the outbox and the requests hold was made under the replica's policy
\* and under the requests'.
Made ==
  /\ \A e \in Ids : under[e] # 0 => e <= used
  /\ \A m \in DOMAIN box : ~box[m].quarantined =>
       \A e \in box[m].data : under[e] = known
  /\ \A q \in requests : \A e \in q.data : under[e] = q.rev
  /\ \A e \in Ids : \A v \in applied[e] : v >= 1

\* Documents whose edits were all made under the replica's policy.
Mine(d) == \A e \in d.has : under[e] = known

\* A record that the server does not have, or did not have when it answered.
Young(r) ==
  \/ doc[r].ver = 0
  \/ \E m \in Queued(r) : box[m].master = Absent
  \/ reply # None /\ reply.rec = r /\ reply.doc = Absent

\* Every document of a record that the browser can show.
Own(r) ==
  /\ Mine(doc[r]) /\ Mine(copy[r])
  /\ \A m \in Queued(r) :
       /\ Mine(box[m].before) /\ Mine(box[m].snapshot)
       /\ box[m].master # None => Mine(box[m].master)
  /\ reply # None /\ reply.rec = r /\ reply.doc # None => Mine(reply.doc)
  /\ pc = "page" /\ r \in DOMAIN page.docs => Mine(page.docs[r])

\* The edits of a record that the server does not have can be sent together:
\* retryWithLocal makes one creation of all that is shown.
YoungIsOwn ==
  /\ \A r \in Records : doc[r].ver = 0 => doc[r].has = {}
  /\ \A r \in Records : Young(r) => Own(r)

Calls == OneCall /\ Revisions

Policed == Made /\ YoungIsOwn /\ AppliedAsMade
-----------------------------------------------------------------------------
(* Least and greatest numbers.                                             *)

LEMMA Extremes ==
  ASSUME NEW S, IsFiniteSet(S), S # {}, NEW f \in [S -> Nat]
  PROVE  /\ \E lo \in S : \A x \in S : f[lo] <= f[x]
         /\ \E hi \in S : \A x \in S : f[x] <= f[hi]
<1> DEFINE Good(T) == /\ \E lo \in T : \A x \in T : f[lo] <= f[x]
                      /\ \E hi \in T : \A x \in T : f[x] <= f[hi]
           Bad == {T \in SUBSET S : T # {} /\ ~Good(T)}
<1>1. SUFFICES ASSUME Bad # {} PROVE FALSE
  <2>1. S \notin Bad
    BY <1>1
  <2> QED
    BY <2>1
<1>2. FiniteSubsetsOf(S) = SUBSET S
  BY FS_FiniteSubsetsOfFinite
<1>3. Bad \subseteq FiniteSubsetsOf(S)
  BY <1>2
<1>4. PICK T \in Bad : \A U \in Bad : <<U, T>> \notin StrictSubsetOrdering(S)
  <2> HIDE DEF Bad
  <2> QED
    BY <1>1, <1>3, FS_StrictSubsetOrderingWellFounded, WFMin
<1>5. PICK x \in T : TRUE
  BY DEF Bad
<1> DEFINE U == T \ {x}
<1>6. CASE U = {}
  <2>1. \A y \in T : y = x
    BY <1>6
  <2>2. f[x] \in Nat
    BY <1>4
  <2>3. Good(T)
    BY <1>5, <2>1, <2>2
  <2> QED
    BY <1>4, <2>3
<1>7. CASE U # {}
  <2>1. <<U, T>> \in StrictSubsetOrdering(S)
    BY <1>4, <1>5 DEF StrictSubsetOrdering
  <2>2. U \notin Bad
    BY <1>4, <2>1
  <2>3. Good(U)
    BY <1>4, <1>7, <2>2
  <2>4. PICK lo \in U : \A y \in U : f[lo] <= f[y]
    BY <2>3
  <2>5. PICK hi \in U : \A y \in U : f[y] <= f[hi]
    BY <2>3
  <2>6. /\ f[x] \in Nat /\ \A y \in T : f[y] \in Nat
        /\ \A y \in T : y = x \/ y \in U
    BY <1>4, <1>5
  <2>7. \E z \in T : \A y \in T : f[z] <= f[y]
    <3>1. CASE f[x] <= f[lo]
      <4>1. \A y \in T : f[x] <= f[y]
        BY <2>4, <2>6, <3>1
      <4> QED
        BY <1>5, <4>1
    <3>2. CASE ~(f[x] <= f[lo])
      <4>1. \A y \in T : f[lo] <= f[y]
        BY <2>4, <2>6, <3>2
      <4> QED
        BY <2>4, <4>1
    <3> QED
      BY <3>1, <3>2
  <2>8. \E z \in T : \A y \in T : f[y] <= f[z]
    <3>1. CASE f[hi] <= f[x]
      <4>1. \A y \in T : f[y] <= f[x]
        BY <2>5, <2>6, <3>1
      <4> QED
        BY <1>5, <4>1
    <3>2. CASE ~(f[hi] <= f[x])
      <4>1. \A y \in T : f[y] <= f[hi]
        BY <2>5, <2>6, <3>2
      <4> QED
        BY <2>5, <4>1
    <3> QED
      BY <3>1, <3>2
  <2>9. Good(T)
    BY <2>7, <2>8
  <2> QED
    BY <1>4, <2>9
<1> QED
  BY <1>6, <1>7

LEMMA MaxOfNaturals ==
  ASSUME NEW S \in SUBSET Nat, S # {}, NEW n \in Nat, \A x \in S : x <= n
  PROVE  Max(S) \in S /\ \A x \in S : x <= Max(S)
<1> DEFINE f == [x \in S |-> x]
<1>1. IsFiniteSet(S) /\ f \in [S -> Nat]
  BY FS_BoundedSetOfNaturals
<1>2. \E hi \in S : \A x \in S : f[x] <= f[hi]
  BY <1>1, Extremes
<1>3. \E hi \in S : \A x \in S : hi >= x
  BY <1>2
<1>4. Max(S) \in S /\ \A x \in S : Max(S) >= x
  BY <1>3 DEF Max
<1> QED
  BY <1>4

\* The greatest value of a function on a finite set.
LEMMA MaxOfValues ==
  ASSUME NEW S, IsFiniteSet(S), S # {}, NEW f \in [S -> Nat]
  PROVE  /\ Max({f[x] : x \in S}) \in Nat
         /\ \A x \in S : f[x] <= Max({f[y] : y \in S})
<1> DEFINE V == {f[x] : x \in S}
<1>1. PICK hi \in S : \A x \in S : f[x] <= f[hi]
  BY Extremes
<1>2. V \in SUBSET Nat /\ V # {} /\ f[hi] \in Nat /\ \A v \in V : v <= f[hi]
  BY <1>1
<1>3. Max(V) \in V /\ \A v \in V : v <= Max(V)
  BY <1>2, MaxOfNaturals
<1> QED
  BY <1>2, <1>3

\* Mutation ids are finitely many, and so is the outbox.
LEMMA OutboxFinite ==
  ASSUME DOMAIN box \subseteq Ids
  PROVE  \A S \in SUBSET DOMAIN box : IsFiniteSet(S)
<1>1. IsFiniteSet(Ids)
  BY FS_Interval, LocalSyncAssumption DEF Ids
<1> QED
  BY <1>1, FS_Subset

\* The first of some queued mutations is one of them.
LEMMA FirstIsOne ==
  ASSUME TypeOK, NEW S \in SUBSET DOMAIN box, S # {}
  PROVE  First(S) \in S
<1> DEFINE f == [m \in S |-> box[m].order]
<1>1. IsFiniteSet(S) /\ f \in [S -> Nat]
  BY OutboxFinite DEF TypeOK, Mutation
<1>2. PICK m \in S : \A n \in S : f[m] <= f[n]
  BY <1>1, Extremes
<1>3. \A n \in S : box[m].order <= box[n].order
  BY <1>2
<1> QED
  BY <1>3 DEF First
-----------------------------------------------------------------------------
(* Types.                                                                  *)

LEMMA AbsentType == Absent \in Doc
  BY DEF Absent, Doc

LEMMA OverType ==
  ASSUME NEW d \in Doc, NEW out, NEW S,
         \A m \in S : out[m].data \in SUBSET Ids
  PROVE  Over(d, S, out) \in Doc /\ Over(d, S, out).ver = d.ver
<1>1. d.ver \in Nat /\ d.gone \in BOOLEAN /\ d.has \in SUBSET Ids
  BY DEF Doc
<1>2. d.has \cup UNION {out[m].data : m \in S} \in SUBSET Ids
  BY <1>1
<1>3. (d.gone \/ \E m \in S : out[m].action = "delete") \in BOOLEAN
  BY <1>1
<1> QED
  BY <1>1, <1>2, <1>3 DEF Over, Doc

Outbox(out) == DOMAIN out \subseteq Ids /\ \A m \in DOMAIN out : out[m] \in Mutation

LEMMA RebasedType ==
  ASSUME NEW out, Outbox(out), NEW d \in Doc, NEW S \in SUBSET DOMAIN out
  PROVE  Outbox(Rebased(S, d, out)) /\ DOMAIN Rebased(S, d, out) = DOMAIN out
<1> DEFINE new == Rebased(S, d, out)
<1>1. DOMAIN new = DOMAIN out
  BY DEF Rebased
<1>2. ASSUME NEW m \in DOMAIN out PROVE new[m] \in Mutation
  <2>1. \A n \in Earlier(S, m) : out[n].data \in SUBSET Ids
    BY DEF Earlier, Outbox, Mutation
  <2>2. Over(d, Earlier(S, m), out) \in Doc
    BY <2>1, OverType
  <2>3. out[m] \in Mutation
    BY DEF Outbox
  <2>4. new[m] = IF m \in S THEN [out[m] EXCEPT !.before = Over(d, Earlier(S, m), out)]
                 ELSE out[m]
    BY DEF Rebased
  <2> HIDE DEF new
  <2>5. [out[m] EXCEPT !.before = Over(d, Earlier(S, m), out)] \in Mutation
    BY <2>2, <2>3 DEF Mutation
  <2> QED
    BY <2>3, <2>4, <2>5
<1> QED
  BY <1>1, <1>2 DEF Outbox

LEMMA WithoutType ==
  ASSUME TypeOK, NEW m
  PROVE  Outbox(box) /\ Outbox(Without(m)) /\ DOMAIN Without(m) = DOMAIN box \ {m}
  BY DEF TypeOK, Without, Outbox

LEMMA WithType ==
  ASSUME NEW out, Outbox(out), NEW m \in Ids, NEW mutation \in Mutation
  PROVE  Outbox(With(out, m, mutation)) /\ DOMAIN With(out, m, mutation) = DOMAIN out \cup {m}
  BY DEF With, Outbox

LEMMA QuarantineType ==
  ASSUME TypeOK, NEW S
  PROVE  Outbox(Quarantine(box, S)) /\ DOMAIN Quarantine(box, S) = DOMAIN box
<1>1. ASSUME NEW m \in DOMAIN box
      PROVE  [box[m] EXCEPT !.quarantined = TRUE, !.state = "error", !.master = None] \in Mutation
  <2>1. box[m] \in Mutation
    BY DEF TypeOK
  <2> QED
    BY <2>1 DEF Mutation
<1> QED
  BY <1>1 DEF Quarantine, Outbox, TypeOK

\* One mutation of the outbox is another.
LEMMA ExceptType ==
  ASSUME NEW out, Outbox(out), NEW m \in DOMAIN out, NEW mutation \in Mutation
  PROVE  Outbox([out EXCEPT ![m] = mutation])
         /\ DOMAIN [out EXCEPT ![m] = mutation] = DOMAIN out
  BY DEF Outbox

LEMMA CopyType ==
  ASSUME NEW f \in [Records -> Doc], NEW r, NEW d \in Doc
  PROVE  [f EXCEPT ![r] = d] \in [Records -> Doc]
  OBVIOUS

\* The mutations of a record that still count.
LEMMA QueuedType ==
  ASSUME TypeOK, NEW r
  PROVE  /\ Queued(r) \in SUBSET DOMAIN box
         /\ \A m \in Queued(r) : box[m] \in Mutation /\ box[m].data \in SUBSET Ids
  BY DEF TypeOK, Queued, Mutation

LEMMA AcknowledgeInType ==
  ASSUME TypeOK, NEW m \in DOMAIN box, NEW d \in Doc, AcknowledgeIn(m, d)
  PROVE  Outbox(box') /\ copy' \in [Records -> Doc]
<1> DEFINE r    == box[m].rec
           rest == Queued(r) \ {m}
           out  == Rebased(rest, d, Without(m))
<1>1. /\ rest \in SUBSET DOMAIN Without(m) /\ rest \in SUBSET DOMAIN box
      /\ \A n \in rest : box[n].data \in SUBSET Ids
  BY QueuedType, WithoutType
<1>2. Outbox(out) /\ DOMAIN out = DOMAIN Without(m)
  BY <1>1, WithoutType, RebasedType
<1>3. copy' = [copy EXCEPT ![r] = Over(d, rest, box)]
  BY DEF AcknowledgeIn
<1>4. Over(d, rest, box) \in Doc
  BY <1>1, OverType
<1>5. box' = IF rest = {} THEN out ELSE [out EXCEPT ![First(rest)].base = d.ver]
  BY DEF AcknowledgeIn
<1>6. d.ver \in Nat /\ copy \in [Records -> Doc]
  BY DEF Doc, TypeOK
<1>7. rest # {} => First(rest) \in rest
  BY <1>1, FirstIsOne
<1> HIDE DEF out, rest, r
<1>8. CASE rest # {}
  <2>1. First(rest) \in DOMAIN out
    BY <1>1, <1>2, <1>7, <1>8
  <2>2. [out[First(rest)] EXCEPT !.base = d.ver] \in Mutation
    BY <1>2, <1>6, <2>1 DEF Outbox, Mutation
  <2>3. box' = [out EXCEPT ![First(rest)] = [out[First(rest)] EXCEPT !.base = d.ver]]
    BY <1>5, <1>8
  <2>4. Outbox(box')
    BY <1>2, <2>1, <2>2, <2>3, ExceptType
  <2> QED
    BY <1>3, <1>4, <1>6, <2>4, CopyType
<1> QED
  BY <1>2, <1>3, <1>4, <1>5, <1>6, <1>8, CopyType

LEMMA BlockType ==
  ASSUME Typed, NEW b \in BOOLEAN, Block(b)
  PROVE  /\ Outbox(box') /\ copy' \in [Records -> Doc] /\ cursor' \in [rev : Nat, seq : Nat]
         /\ hydrated' \in BOOLEAN /\ listed' \in BOOLEAN /\ blocked' \in BOOLEAN
         /\ known' \in Nat
         /\ pc' = "idle" /\ revision' = 0 /\ list' = {} /\ stopped' = {}
         /\ had' = FALSE /\ reply' = None
<1>1. ASSUME NEW m \in DOMAIN box
      PROVE  [box[m] EXCEPT
                !.state = IF @ = "conflict" THEN @ ELSE "error",
                !.quarantined = @ \/ (b /\ known # 0),
                !.snapshot = IF copy[box[m].rec] = Absent THEN @ ELSE copy[box[m].rec]]
             \in Mutation
  <2>1. box[m] \in Mutation /\ copy[box[m].rec] \in Doc
    BY DEF Typed, TypeOK, Mutation
  <2>2. (IF box[m].state = "conflict" THEN box[m].state ELSE "error")
           \in {"pending", "conflict", "error"}
    OBVIOUS
  <2>3. (box[m].quarantined \/ (b /\ known # 0)) \in BOOLEAN
    OBVIOUS
  <2>4. (IF copy[box[m].rec] = Absent THEN box[m].snapshot ELSE copy[box[m].rec]) \in Doc
    BY <2>1 DEF Mutation
  <2> QED
    BY <2>1, <2>2, <2>3, <2>4 DEF Mutation
<1>2. Outbox(box')
  BY <1>1 DEF Block, Outbox, Typed, TypeOK
<1>3. copy' \in [Records -> Doc]
  BY AbsentType DEF Block
<1>4. cursor' \in [rev : Nat, seq : Nat]
  BY DEF Block, Start
<1> QED
  BY <1>2, <1>3, <1>4 DEF Block, Idle, Typed, TypeOK

\* A number of the journal.
LEMMA ChangeType ==
  ASSUME TypeOK, NEW r \in Records, NEW d \in Doc, Change(r, d)
  PROVE  doc' \in [Records -> Doc] /\ seq' \in [Records -> Nat]
<1>1. seq \in [Records -> Nat] /\ IsFiniteSet(Records) /\ Records # {}
  BY LocalSyncAssumption DEF TypeOK
<1>2. Max({seq[x] : x \in Records}) \in Nat
  BY <1>1, MaxOfValues
<1>3. seq' = [seq EXCEPT ![r] = 1 + Max({seq[x] : x \in Records})]
  BY DEF Change
<1>4. seq' \in [Records -> Nat]
  BY <1>1, <1>2, <1>3
<1> QED
  BY <1>4, CopyType DEF Change, TypeOK

LEMMA AnsweredType ==
  ASSUME Typed, NEW q \in requests, NEW d \in Doc \cup {None},
         NEW kind \in {"ok", "conflict", "refused", "forbidden"},
         kind = "ok" => d \in Doc, Answered(q, kind, d)
  PROVE  requests' \subseteq Request /\ AnswerOK'
<1>1. q.id \in Ids /\ q.rec \in Records
  BY DEF Typed, TypeOK, Request
<1>2. requests' \subseteq Request
  BY DEF Answered, Typed, TypeOK
<1>3. CASE q.late
  BY <1>2, <1>3 DEF Answered, Typed, AnswerOK
<1>4. CASE ~q.late
  BY <1>1, <1>2, <1>4 DEF Answered, AnswerOK
<1> QED
  BY <1>3, <1>4

LEMMA ReplayType ==
  ASSUME Typed, NEW q \in requests, Replay(q)
  PROVE  requests' \subseteq Request /\ AnswerOK'
<1>1. doc[q.rec] \in Doc
  BY DEF Typed, TypeOK, Request
<1>2. \/ Answered(q, "ok", doc[q.rec])
      \/ Answered(q, "conflict", None)
  BY DEF Replay
<1> QED
  BY <1>1, <1>2, AnsweredType

LEMMA MergedType ==
  ASSUME TypeOK, NEW q \in requests
  PROVE  Merged(q) \in Doc /\ q.rec \in Records
<1>1. q \in Request /\ q.rec \in Records /\ doc[q.rec] \in Doc
  BY DEF TypeOK, Request
<1>2. doc[q.rec].ver + 1 \in Nat /\ doc[q.rec].has \cup q.data \in SUBSET Ids
  BY <1>1 DEF Doc, Request
<1>3. (q.action = "delete") \in BOOLEAN
  OBVIOUS
<1> QED
  BY <1>1, <1>2, <1>3 DEF Merged, Doc

LEMMA CheckType ==
  ASSUME Typed, NEW q \in requests, Check(q)
  PROVE  Typed'
<1>1. q \in Request /\ doc[q.rec] \in Doc
  BY DEF Typed, TypeOK, Request
<1>2. requests' \subseteq Request /\ AnswerOK'
  <2>1. CASE Answered(q, "forbidden", None) \/ Answered(q, "refused", None)
    BY <2>1, AnsweredType
  <2>2. CASE Replay(q)
    BY <2>2, ReplayType
  <2>3. CASE /\ requests' = (requests \ {q}) \cup {[q EXCEPT !.checked = TRUE]}
             /\ UNCHANGED reply
    <3>1. [q EXCEPT !.checked = TRUE] \in Request
      BY <1>1 DEF Request
    <3> QED
      BY <2>3, <3>1 DEF Typed, TypeOK, AnswerOK
  <2>4. CASE \E kind \in {"refused", "conflict"} : Answered(q, kind, doc[q.rec])
    BY <1>1, <2>4, AnsweredType
  <2> QED
    BY <2>1, <2>2, <2>3, <2>4 DEF Check
<1>3. events' \in 0..MaxEvents
  BY LocalSyncAssumption DEF Check, Event, Typed, TypeOK
<1>4. UNCHANGED <<serverVars, storeVars, pc, revision, list, stopped, had, page,
                  used, writes, pastVars>>
  BY DEF Check
<1> QED
  BY <1>2, <1>3, <1>4 DEF Typed, TypeOK, PageOK, serverVars, storeVars, pastVars

LEMMA CommitType ==
  ASSUME Typed, NEW q \in requests, Commit(q)
  PROVE  Typed'
<1>1. q \in Request /\ q.rec \in Records /\ doc[q.rec] \in Doc /\ Merged(q) \in Doc
  BY MergedType DEF Typed, TypeOK, Request
<1>2. UNCHANGED <<policy, delivered, storeVars, pc, revision, list, stopped,
                  had, page, bounds, under, dropped, byHand>>
  BY DEF Commit
<1>3. CASE Guarded(q) /\ q.id \notin DOMAIN receipt
  <2>1. /\ Change(q.rec, Merged(q)) /\ receipt' = With(receipt, q.id, Fingerprint(q))
        /\ applied' = [e \in Ids |-> IF e \in q.data THEN applied[e] \cup {policy} ELSE applied[e]]
        /\ Answered(q, "ok", Merged(q))
    BY <1>3 DEF Commit
  <2>2. doc' \in [Records -> Doc] /\ seq' \in [Records -> Nat]
    BY <1>1, <2>1, ChangeType DEF Typed
  <2>3. requests' \subseteq Request /\ AnswerOK'
    BY <1>1, <2>1, AnsweredType
  <2>4. DOMAIN receipt' \subseteq Ids
    BY <1>1, <2>1 DEF With, Typed, TypeOK, Request
  <2>5. applied' \in [Ids -> SUBSET Nat]
    BY <2>1 DEF Typed, TypeOK
  <2> QED
    BY <1>2, <2>2, <2>3, <2>4, <2>5 DEF Typed, TypeOK, PageOK, storeVars, bounds
<1>4. CASE ~(Guarded(q) /\ q.id \notin DOMAIN receipt)
  <2>1. Replay(q) \/ Answered(q, "conflict", doc[q.rec])
    BY <1>4 DEF Commit
  <2>2. requests' \subseteq Request /\ AnswerOK'
    BY <1>1, <2>1, ReplayType, AnsweredType
  <2>3. UNCHANGED <<doc, seq, receipt, applied>>
    BY <1>4 DEF Commit
  <2> QED
    BY <1>2, <2>2, <2>3 DEF Typed, TypeOK, PageOK, storeVars, bounds
<1> QED
  BY <1>3, <1>4

LEMMA OthersType ==
  ASSUME Typed, ChangePolicy \/ \E r \in Records : Write(r)
  PROVE  Typed'
<1>1. CASE ChangePolicy
  BY <1>1, LocalSyncAssumption DEF ChangePolicy, Event, Typed, TypeOK, AnswerOK, PageOK,
     storeVars, passVars, pastVars
<1>2. ASSUME NEW r \in Records, Write(r) PROVE Typed'
  <2>1. PICK gone \in BOOLEAN : Change(r, [doc[r] EXCEPT !.ver = @ + 1, !.gone = gone])
    BY <1>2 DEF Write
  <2>2. [doc[r] EXCEPT !.ver = @ + 1, !.gone = gone] \in Doc
    <3>1. doc[r] \in Doc /\ doc[r].ver \in Nat
      BY DEF Typed, TypeOK, Doc
    <3>2. doc[r].ver + 1 \in Nat
      BY <3>1
    <3> QED
      BY <3>1, <3>2 DEF Doc
  <2>3. doc' \in [Records -> Doc] /\ seq' \in [Records -> Nat]
    BY <2>1, <2>2, ChangeType DEF Typed
  <2>4. writes' \in 0..MaxWrites
    <3>1. writes < MaxWrites /\ writes' = writes + 1
      BY <1>2 DEF Write
    <3>2. writes \in 0..MaxWrites
      BY DEF Typed, TypeOK
    <3> QED
      BY <3>1, <3>2, LocalSyncAssumption
  <2>5. UNCHANGED <<receipt, policy, delivered, requests, storeVars, passVars,
                    used, events, pastVars>>
    BY <1>2 DEF Write
  <2> QED
    BY <2>3, <2>4, <2>5
    DEF Typed, TypeOK, AnswerOK, PageOK, storeVars, passVars, pastVars
<1> QED
  BY <1>1, <1>2

LEMMA AcceptPolicyType ==
  ASSUME Typed, AcceptPolicy
  PROVE  Typed'
<1>1. CASE known = revision
  BY <1>1 DEF AcceptPolicy, Step, Typed, TypeOK, AnswerOK, PageOK, serverVars, storeVars,
     bounds, pastVars
<1>2. CASE known # revision
  <2>1. Outbox(box')
    BY <1>2, QuarantineType DEF AcceptPolicy, Typed
  <2>2. copy' \in [Records -> Doc]
    BY <1>2, AbsentType DEF AcceptPolicy
  <2>3. cursor' \in [rev : Nat, seq : Nat]
    BY <1>2 DEF AcceptPolicy, Start
  <2> QED
    BY <1>2, <2>1, <2>2, <2>3 DEF AcceptPolicy, Step, Outbox, Typed, TypeOK, AnswerOK, PageOK,
       serverVars, bounds, pastVars
<1> QED
  BY <1>1, <1>2

LEMMA RefreshManifestType ==
  ASSUME Typed, RefreshManifest
  PROVE  Typed'
<1> DEFINE Aside(r) == {m \in Queued(r) : box[m].snapshot # Absent}
<1>1. \A r \in Records : Aside(r) # {} => First(Aside(r)) \in DOMAIN box
  BY QueuedType, FirstIsOne DEF Typed
<1>2. copy' = [r \in Records |-> IF Aside(r) = {} THEN copy[r]
                                 ELSE box[First(Aside(r))].snapshot]
  BY DEF RefreshManifest
<1>3. copy' \in [Records -> Doc]
  <2>1. \A m \in DOMAIN box : box[m].snapshot \in Doc
    BY DEF Typed, TypeOK, Mutation
  <2> HIDE DEF Aside
  <2> QED
    BY <1>1, <1>2, <2>1 DEF Typed, TypeOK
<1>4. ASSUME NEW m \in DOMAIN box
      PROVE  [box[m] EXCEPT !.snapshot = Absent] \in Mutation
  BY AbsentType DEF Typed, TypeOK, Mutation
<1>5. box' = [m \in DOMAIN box |-> IF box[m].quarantined THEN box[m]
                                   ELSE [box[m] EXCEPT !.snapshot = Absent]]
  BY DEF RefreshManifest
<1>6. DOMAIN box' \subseteq Ids /\ \A m \in DOMAIN box' : box'[m] \in Mutation
  BY <1>4, <1>5 DEF Typed, TypeOK
<1>7. /\ listed' = TRUE /\ Step("list")
      /\ UNCHANGED <<cursor, hydrated, known, blocked, serverVars, requests, bounds, pastVars>>
  BY DEF RefreshManifest
<1> QED
  BY <1>3, <1>6, <1>7 DEF Step, Typed, TypeOK, AnswerOK, PageOK, serverVars, bounds, pastVars

LEMMA ListType ==
  ASSUME Typed, FetchManifest \/ ListOutbox \/ SkipMutation \/ SkipPull \/ BeginPull
  PROVE  Typed'
<1> USE DEF Typed, TypeOK, AnswerOK, PageOK, serverVars, storeVars, bounds, pastVars
<1>1. CASE FetchManifest
  BY <1>1 DEF FetchManifest
<1>2. CASE ListOutbox
  BY <1>2 DEF ListOutbox
<1>3. CASE SkipMutation
  <2>1. First(Listed) \in Listed /\ Listed \in SUBSET DOMAIN box
    BY <1>3, FirstIsOne DEF SkipMutation, Listed
  <2>2. stopped' \subseteq Records
    BY <1>3, <2>1 DEF SkipMutation, Mutation
  <2>3. list' \subseteq Ids
    BY <1>3 DEF SkipMutation
  <2>4. UNCHANGED <<pc, revision, had, reply, page, serverVars, requests, storeVars,
                    bounds, pastVars>>
    BY <1>3 DEF SkipMutation
  <2> QED
    BY <2>2, <2>3, <2>4
<1>4. CASE SkipPull
  BY <1>4 DEF SkipPull, Idle
<1>5. CASE BeginPull
  BY <1>5 DEF BeginPull, Step
<1> QED
  BY <1>1, <1>2, <1>3, <1>4, <1>5

\* What Push asks: the first of the listed mutations.
Asked(m) ==
  [id |-> m, rec |-> box[m].rec, action |-> box[m].action,
   base |-> box[m].base, data |-> box[m].data, rev |-> revision,
   checked |-> FALSE, late |-> FALSE]

LEMMA PushAsks ==
  ASSUME TypeOK, Push
  PROVE  \E m \in DOMAIN box :
           /\ m \in list /\ ~box[m].quarantined /\ box[m].state = "pending"
           /\ Asked(m) \in Request
           /\ requests' = requests \cup {Asked(m)}
           /\ list' = list \ {m}
<1> DEFINE m == First(Listed)
<1>1. m \in Listed /\ Listed \in SUBSET DOMAIN box
  BY FirstIsOne DEF Push, Listed
<1>2. m \in DOMAIN box /\ m \in list /\ ~box[m].quarantined
  BY <1>1 DEF Listed
<1>3. requests' = requests \cup {Asked(m)} /\ list' = list \ {m} /\ box[m].state = "pending"
  BY DEF Push, Asked, Pushable
<1> HIDE DEF m
<1>4. box[m] \in Mutation /\ m \in Ids /\ revision \in Nat
  BY <1>2 DEF TypeOK
<1>5. Asked(m) \in Request
  BY <1>4 DEF Asked, Request, Mutation
<1> QED
  BY <1>2, <1>3, <1>5

LEMMA PushType ==
  ASSUME Typed, Push
  PROVE  Typed'
<1>1. requests' \subseteq Request /\ list' \subseteq Ids
  BY PushAsks DEF Typed, TypeOK
<1>2. /\ pc' = "wait"
      /\ UNCHANGED <<revision, stopped, had, reply, page, serverVars, storeVars,
                     bounds, pastVars>>
  BY DEF Push
<1> QED
  BY <1>1, <1>2 DEF Typed, TypeOK, AnswerOK, PageOK, serverVars, storeVars, bounds, pastVars

LEMMA OnwardType ==
  ASSUME Typed, NEW S \in SUBSET Records, Onward(S)
  PROVE  /\ pc' = "next" /\ reply' = None /\ stopped' \subseteq Records
         /\ UNCHANGED <<revision, list, had, page>>
  BY DEF Onward, Typed, TypeOK

LEMMA AcknowledgeType ==
  ASSUME Typed, Acknowledge
  PROVE  Typed'
<1>1. reply.doc \in Doc
  BY DEF Acknowledge, Answer, Typed, AnswerOK
<1>2. Outbox(box') /\ copy' \in [Records -> Doc]
  <2>1. CASE Settleable(reply.id)
    BY <1>1, <2>1, AcknowledgeInType DEF Acknowledge, Settleable, Typed
  <2>2. CASE ~Settleable(reply.id)
    BY <2>2 DEF Acknowledge, Outbox, Typed, TypeOK
  <2> QED
    BY <2>1, <2>2
<1>3. /\ Onward({})
      /\ UNCHANGED <<cursor, hydrated, known, listed, blocked, serverVars, requests,
                     bounds, pastVars>>
  BY DEF Acknowledge
<1>4. /\ pc' = "next" /\ reply' = None /\ stopped' \subseteq Records
      /\ UNCHANGED <<revision, list, had, page>>
  BY <1>3, OnwardType
<1> QED
  BY <1>2, <1>3, <1>4 DEF Outbox, Typed, TypeOK, AnswerOK, PageOK, serverVars, bounds, pastVars

LEMMA RejectType ==
  ASSUME Typed, Reject
  PROVE  Typed'
<1>1. reply.doc \in Doc \cup {None} /\ reply.rec \in Records
  BY DEF Reject, Answer, Typed, AnswerOK
<1>2. Outbox(box')
  <2>1. CASE Settleable(reply.id)
    <3> DEFINE new == [box[reply.id] EXCEPT
                         !.state = Verdict(reply.kind),
                         !.master = IF reply.kind = "conflict" THEN reply.doc
                                    ELSE box[reply.id].master]
    <3>1. reply.id \in DOMAIN box /\ box[reply.id] \in Mutation
      BY <2>1 DEF Settleable, Typed, TypeOK
    <3>2. Verdict(reply.kind) \in {"pending", "conflict", "error"}
      BY DEF Verdict
    <3>3. (IF reply.kind = "conflict" THEN reply.doc ELSE box[reply.id].master) \in Doc \cup {None}
      BY <1>1, <3>1 DEF Mutation
    <3>4. new \in Mutation
      BY <3>1, <3>2, <3>3 DEF Mutation
    <3>5. box' = [box EXCEPT ![reply.id] = new]
      <4>1. box' = [box EXCEPT ![reply.id].state  = Verdict(reply.kind),
                               ![reply.id].master =
                                  IF reply.kind = "conflict" THEN reply.doc ELSE @]
        BY <2>1 DEF Reject
      <4> QED
        BY <3>1, <4>1
    <3>6. Outbox(box)
      BY DEF Outbox, Typed, TypeOK
    <3> HIDE DEF new
    <3> QED
      BY <3>1, <3>4, <3>5, <3>6, ExceptType
  <2>2. CASE ~Settleable(reply.id)
    BY <2>2 DEF Reject, Outbox, Typed, TypeOK
  <2> QED
    BY <2>1, <2>2
<1>3. /\ Onward({reply.rec})
      /\ UNCHANGED <<copy, cursor, hydrated, known, listed, blocked, serverVars,
                     requests, bounds, pastVars>>
  BY DEF Reject
<1>4. /\ pc' = "next" /\ reply' = None /\ stopped' \subseteq Records
      /\ UNCHANGED <<revision, list, had, page>>
  BY <1>1, <1>3, OnwardType
<1> QED
  BY <1>2, <1>3, <1>4 DEF Outbox, Typed, TypeOK, AnswerOK, PageOK, serverVars, bounds, pastVars

LEMMA EndType ==
  ASSUME Typed, Forbidden \/ PullForbidden \/ Fails \/ SessionExpires
  PROVE  Typed'
<1>1. Abandoned \subseteq Request
  <2>1. ASSUME NEW q \in requests PROVE [q EXCEPT !.late = TRUE] \in Request
    <3>1. q \in Request
      BY DEF Typed, TypeOK
    <3> QED
      BY <3>1 DEF Request
  <2> QED
    BY <2>1 DEF Abandoned
<1>2. ASSUME NEW b \in BOOLEAN, Block(b), requests' \subseteq Request, events' \in 0..MaxEvents,
             UNCHANGED <<serverVars, used, writes, pastVars>>
      PROVE  Typed'
  <2>1. /\ Outbox(box') /\ copy' \in [Records -> Doc] /\ cursor' \in [rev : Nat, seq : Nat]
        /\ hydrated' \in BOOLEAN /\ listed' \in BOOLEAN /\ blocked' \in BOOLEAN
        /\ known' \in Nat
        /\ pc' = "idle" /\ revision' = 0 /\ list' = {} /\ stopped' = {}
        /\ had' = FALSE /\ reply' = None
    BY <1>2, BlockType
  <2> QED
    BY <1>2, <2>1 DEF Outbox, Typed, TypeOK, AnswerOK, PageOK, serverVars, pastVars
<1>3. CASE Forbidden \/ PullForbidden
  <2>1. Block(TRUE) /\ UNCHANGED <<serverVars, requests, bounds, pastVars>>
    BY <1>3 DEF Forbidden, PullForbidden
  <2>2. requests' \subseteq Request /\ events' \in 0..MaxEvents
    BY <2>1 DEF bounds, Typed, TypeOK
  <2> QED
    BY <1>2, <2>1, <2>2 DEF bounds
<1>4. Event => events' \in 0..MaxEvents
  BY LocalSyncAssumption DEF Event, Typed, TypeOK
<1>5. CASE Fails
  <2>1. requests' \subseteq Request /\ events' \in 0..MaxEvents
    BY <1>1, <1>4, <1>5 DEF Fails
  <2>2. Idle /\ UNCHANGED <<serverVars, storeVars, used, writes, pastVars>>
    BY <1>5 DEF Fails
  <2> QED
    BY <2>1, <2>2 DEF Idle, Typed, TypeOK, AnswerOK, PageOK, serverVars, storeVars, pastVars
<1>6. CASE SessionExpires
  <2>1. requests' \subseteq Request /\ events' \in 0..MaxEvents
    BY <1>1, <1>4, <1>6 DEF SessionExpires
  <2> QED
    BY <1>2, <1>6, <2>1 DEF SessionExpires
<1> QED
  BY <1>3, <1>5, <1>6

\* The number that the cursor gets from a page.
PageEnd == Max({cursor.seq} \cup {seq[r] : r \in Rows(cursor.seq)})

LEMMA PageEnds ==
  ASSUME Typed
  PROVE  /\ PageEnd \in Nat /\ cursor.seq <= PageEnd
         /\ PageEnd = cursor.seq \/ \E r \in Rows(cursor.seq) : PageEnd = seq[r]
<1> DEFINE rows == Rows(cursor.seq)
           S    == {cursor.seq} \cup {seq[r] : r \in rows}
<1>1. rows \in SUBSET Records /\ IsFiniteSet(rows)
  BY LocalSyncAssumption, FS_Subset DEF Rows, After
<1>2. cursor.seq \in Nat
  BY DEF Typed, TypeOK
<1> HIDE DEF rows
<1>3. Max(S) \in S /\ \A x \in S : x <= Max(S)
  <2>1. CASE rows = {}
    <3>1. S = {cursor.seq}
      BY <2>1
    <3>2. {cursor.seq} \in SUBSET Nat /\ \A x \in {cursor.seq} : x <= cursor.seq
      BY <1>2
    <3> HIDE DEF S
    <3> QED
      BY <1>2, <3>1, <3>2, MaxOfNaturals
  <2>2. CASE rows # {}
    <3> DEFINE f == [r \in rows |-> seq[r]]
    <3>1. f \in [rows -> Nat]
      BY <1>1 DEF Typed, TypeOK
    <3>2. PICK hi \in rows : \A r \in rows : f[r] <= f[hi]
      BY <1>1, <2>2, <3>1, Extremes
    <3> DEFINE n == IF seq[hi] <= cursor.seq THEN cursor.seq ELSE seq[hi]
    <3>3. seq[hi] \in Nat /\ \A r \in rows : seq[r] \in Nat /\ seq[r] <= seq[hi]
      BY <3>1, <3>2
    <3>4. n \in Nat /\ seq[hi] <= n /\ cursor.seq <= n
      BY <1>2, <3>3
    <3> HIDE DEF n
    <3>5. S \in SUBSET Nat /\ S # {} /\ \A x \in S : x <= n
      BY <1>2, <3>3, <3>4
    <3> HIDE DEF S
    <3> QED
      BY <3>4, <3>5, MaxOfNaturals
  <2> QED
    BY <2>1, <2>2
<1>4. PageEnd = Max(S)
  BY DEF PageEnd, rows
<1>5. Max(S) \in Nat /\ cursor.seq <= Max(S)
  <2>1. S \in SUBSET Nat /\ cursor.seq \in S
    BY <1>1, <1>2 DEF Typed, TypeOK
  <2> HIDE DEF S
  <2> QED
    BY <1>3, <2>1
<1>6. Max(S) = cursor.seq \/ \E r \in rows : Max(S) = seq[r]
  BY <1>3
<1> QED
  BY <1>4, <1>5, <1>6 DEF rows

LEMMA PullType ==
  ASSUME Typed, Pull
  PROVE  Typed'
<1> DEFINE rows == Rows(cursor.seq)
           sent == {r \in rows : ~doc[r].gone}
           next == Max({cursor.seq} \cup {seq[r] : r \in rows})
<1>1. rows \in SUBSET Records /\ IsFiniteSet(rows)
  BY LocalSyncAssumption, FS_Subset DEF Rows, After
<1>2. cursor.seq \in Nat /\ policy \in Nat
  BY DEF Typed, TypeOK
<1>3. next \in Nat
  BY PageEnds DEF PageEnd
<1>4. page' = [docs    |-> [r \in sent |-> doc[r]],
               removed |-> {r \in rows : doc[r].gone} \cap delivered,
               next    |-> [rev |-> policy, seq |-> next],
               more    |-> rows # After(cursor.seq)]
  BY DEF Pull
<1> HIDE DEF next
<1>5. /\ DOMAIN page'.docs \subseteq Records
      /\ \A r \in DOMAIN page'.docs : page'.docs[r] \in Doc
      /\ page'.removed \subseteq Records
      /\ page'.next \in [rev : Nat, seq : Nat]
  <2>1. sent \in SUBSET Records
    BY <1>1
  <2>2. {r \in rows : doc[r].gone} \in SUBSET Records
    BY <1>1
  <2> HIDE DEF rows, sent
  <2> QED
    BY <1>2, <1>3, <1>4, <2>1, <2>2 DEF Typed, TypeOK
<1>6. delivered' \subseteq Records
  BY <1>1 DEF Pull, Typed, TypeOK
<1>7. /\ pc' = "page"
      /\ UNCHANGED <<revision, list, stopped, had, reply, doc, seq, receipt, policy,
                     requests, storeVars, bounds, pastVars>>
  BY DEF Pull
<1> QED
  BY <1>5, <1>6, <1>7 DEF Typed, TypeOK, AnswerOK, PageOK, storeVars, bounds, pastVars

LEMMA ApplyPullType ==
  ASSUME Typed, ApplyPull
  PROVE  Typed'
<1> DEFINE taken == DOMAIN page.docs \ Protected
<1>1. pc = "page" /\ PageOK
  BY DEF ApplyPull, Typed
<1>2. Outbox(box')
  BY QuarantineType DEF ApplyPull, Typed
<1>3. copy' \in [Records -> Doc]
  <2>1. copy' = [r \in Records |-> CASE r \in page.removed -> Absent
                                     [] r \in taken        -> page.docs[r]
                                     [] OTHER              -> copy[r]]
    BY DEF ApplyPull
  <2>2. ASSUME NEW r \in Records PROVE copy'[r] \in Doc
    BY <1>1, <2>1, AbsentType DEF PageOK, Typed, TypeOK
  <2> QED
    BY <2>1, <2>2
<1>4. cursor' \in [rev : Nat, seq : Nat] /\ hydrated' \in BOOLEAN /\ byHand' \subseteq Records
  BY <1>1 DEF ApplyPull, PageOK, Typed, TypeOK
<1>5. /\ pc' \in {"pull", "idle"} /\ AnswerOK'
      /\ revision' \in Nat /\ list' \subseteq Ids /\ stopped' \subseteq Records /\ had' \in BOOLEAN
  <2>1. CASE page.more
    BY <2>1 DEF ApplyPull, AnswerOK, Typed, TypeOK
  <2>2. CASE ~page.more
    <3>1. Idle
      BY <2>2 DEF ApplyPull
    <3> QED
      BY <3>1 DEF Idle, AnswerOK
  <2> QED
    BY <2>1, <2>2
<1>6. UNCHANGED <<known, listed, blocked, serverVars, requests, bounds, under,
                  applied, dropped>>
  BY DEF ApplyPull
<1> QED
  BY <1>2, <1>3, <1>4, <1>5, <1>6 DEF Outbox, Typed, TypeOK, PageOK, serverVars, bounds

\* The mutation that an edit puts in the outbox.
Edit(r, action, n) ==
  [rec |-> r, action |-> action, base |-> copy[r].ver, data |-> {NewId},
   order |-> n, state |-> "pending", quarantined |-> FALSE,
   before |-> copy[r], snapshot |-> Absent, master |-> None,
   needsCreate |-> FALSE]

LEMMA MutateEdits ==
  ASSUME TypeOK, NEW r \in Records, NEW action \in Actions, Mutate(r, action)
  PROVE  \E n \in Nat :
           /\ Edit(r, action, n) \in Mutation
           /\ \A m \in DOMAIN box : box[m].order < n
           /\ box' = With(box, NewId, Edit(r, action, n))
<1> DEFINE orders == {box[m].order : m \in DOMAIN box}
           last   == IF DOMAIN box = {} THEN 0 ELSE Max(orders)
<1>1. last \in Nat /\ \A m \in DOMAIN box : box[m].order <= last
  <2>1. CASE DOMAIN box # {}
    <3> DEFINE f == [m \in DOMAIN box |-> box[m].order]
    <3>1. f \in [DOMAIN box -> Nat] /\ IsFiniteSet(DOMAIN box)
      BY OutboxFinite DEF TypeOK, Mutation
    <3>2. /\ Max({f[m] : m \in DOMAIN box}) \in Nat
          /\ \A m \in DOMAIN box : f[m] <= Max({f[n] : n \in DOMAIN box})
      BY <2>1, <3>1, MaxOfValues
    <3>3. {f[m] : m \in DOMAIN box} = orders
      OBVIOUS
    <3> QED
      BY <2>1, <3>2, <3>3
  <2> QED
    BY <2>1
<1>2. box' = With(box, NewId, Edit(r, action, last + 1))
  BY DEF Mutate, Edit
<1> HIDE DEF last
<1>3. NewId \in Ids
  BY LocalSyncAssumption DEF Mutate, Fresh, NewId, Ids, TypeOK
<1>4. copy[r] \in Doc /\ copy[r].ver \in Nat /\ last + 1 \in Nat
      /\ \A m \in DOMAIN box : box[m].order < last + 1
  BY <1>1 DEF TypeOK, Doc, Mutation
<1>5. Edit(r, action, last + 1) \in Mutation
  BY <1>3, <1>4, AbsentType DEF Edit, Mutation
<1> QED
  BY <1>2, <1>4, <1>5

LEMMA FreshType ==
  ASSUME TypeOK, Fresh
  PROVE  NewId \in Ids /\ used' \in 0..MaxIds /\ used' = used + 1 /\ NewId = used + 1
  BY LocalSyncAssumption DEF Fresh, NewId, Ids, TypeOK

LEMMA MutateType ==
  ASSUME Typed, NEW r \in Records, NEW action \in Actions, Mutate(r, action)
  PROVE  Typed'
<1>1. PICK n \in Nat : /\ Edit(r, action, n) \in Mutation
                       /\ box' = With(box, NewId, Edit(r, action, n))
  BY MutateEdits DEF Typed
<1>2. NewId \in Ids /\ used' \in 0..MaxIds
  BY FreshType DEF Mutate, Typed
<1>3. Outbox(box')
  <2>1. Outbox(box)
    BY DEF Typed, TypeOK, Outbox
  <2> QED
    BY <1>1, <1>2, <2>1, WithType
<1>4. box'[NewId].data \in SUBSET Ids
  BY <1>1, <1>2 DEF With, Edit
<1>5. copy' \in [Records -> Doc]
  <2>1. copy' = [copy EXCEPT ![r] = Over(copy[r], {NewId}, box')]
    BY DEF Mutate
  <2>2. Over(copy[r], {NewId}, box') \in Doc
    BY <1>4, OverType DEF Typed, TypeOK
  <2> QED
    BY <2>1, <2>2, CopyType DEF Typed, TypeOK
<1>6. under' \in [Ids -> Nat]
  BY DEF Mutate, Typed, TypeOK
<1>7. UNCHANGED <<cursor, hydrated, known, listed, blocked, serverVars, requests,
                  passVars, writes, events, applied, dropped, byHand>>
  BY DEF Mutate
<1> QED
  BY <1>2, <1>3, <1>5, <1>6, <1>7
  DEF Outbox, Typed, TypeOK, AnswerOK, PageOK, serverVars, passVars

LEMMA ResolvedType ==
  ASSUME TypeOK, NEW m, NEW state, Resolves(m, state)
  PROVE  /\ m \in DOMAIN box /\ m \in Ids /\ ~box[m].quarantined /\ box[m].state = state
         /\ box[m] \in Mutation /\ box[m].rec \in Records /\ box[m].before \in Doc
         /\ box[m].master \in Doc \cup {None} /\ box[m].data \in SUBSET Ids
         /\ m \in Queued(box[m].rec)
<1>1. m \in DOMAIN box /\ m \in Ids /\ ~box[m].quarantined /\ box[m].state = state
      /\ box[m] \in Mutation
  BY DEF Resolves, TypeOK
<1> QED
  BY <1>1 DEF Mutation, Queued

LEMMA AcceptMasterType ==
  ASSUME Typed, NEW m, AcceptMaster(m)
  PROVE  Typed'
<1> DEFINE r    == box[m].rec
           rest == Queued(r) \ {m}
<1>1. /\ m \in DOMAIN box /\ r \in Records /\ box[m].data \in SUBSET Ids
      /\ box[m].master \in Doc
  BY ResolvedType DEF AcceptMaster, Typed
<1>2. Outbox(box') /\ copy' \in [Records -> Doc]
  <2>1. CASE box[m].master # Absent
    BY <1>1, <2>1, AcknowledgeInType DEF AcceptMaster, Typed
  <2>2. CASE box[m].master = Absent /\ rest = {}
    <3>1. box' = Without(m) /\ copy' = [copy EXCEPT ![r] = Absent]
      BY <2>2 DEF AcceptMaster
    <3> QED
      BY <3>1, WithoutType, CopyType, AbsentType DEF Typed, TypeOK
  <2>3. CASE box[m].master = Absent /\ rest # {}
    <3> DEFINE out == Without(m)
    <3>1. First(rest) \in rest
      BY <2>3, QueuedType, FirstIsOne DEF Typed
    <3>2. Outbox(out) /\ First(rest) \in DOMAIN out
      BY <3>1, WithoutType, QueuedType DEF Typed
    <3>3. box' = [out EXCEPT ![First(rest)] = [@ EXCEPT !.state = "conflict", !.master = Absent]]
          /\ UNCHANGED copy
      BY <2>3 DEF AcceptMaster
    <3> HIDE DEF out
    <3>4. [out[First(rest)] EXCEPT !.state = "conflict", !.master = Absent] \in Mutation
      BY <3>2, AbsentType DEF Outbox, Mutation
    <3>5. box' = [out EXCEPT ![First(rest)] =
                    [out[First(rest)] EXCEPT !.state = "conflict", !.master = Absent]]
      BY <3>2, <3>3
    <3>6. Outbox(box')
      BY <3>2, <3>4, <3>5, ExceptType
    <3> QED
      BY <3>3, <3>6 DEF Typed, TypeOK
  <2> QED
    BY <2>1, <2>2, <2>3
<1>3. dropped' \subseteq Ids /\ byHand' \subseteq Records
  BY <1>1 DEF AcceptMaster, Typed, TypeOK
<1>4. UNCHANGED <<cursor, hydrated, known, listed, blocked, serverVars, requests,
                  passVars, bounds, under, applied>>
  BY DEF AcceptMaster
<1> QED
  BY <1>2, <1>3, <1>4
  DEF Outbox, Typed, TypeOK, AnswerOK, PageOK, serverVars, passVars, bounds

\* The mutation that takes the place of a rejected one.
AgainLocal(m) ==
  LET d    == box[m].master
      data == IF d = Absent THEN copy[box[m].rec].has \cup box[m].data ELSE box[m].data
  IN [box[m] EXCEPT
        !.data = data, !.state = "pending", !.master = None,
        !.base = IF d = None THEN @ ELSE d.ver,
        !.action = IF d = Absent THEN "create"
                   ELSE IF @ = "create" /\ d # None THEN "update" ELSE @]

Again(m) ==
  [box[m] EXCEPT !.state = "pending", !.needsCreate = FALSE, !.master = None,
                 !.action = IF box[m].needsCreate THEN "create" ELSE @]

LEMMA AgainType ==
  ASSUME TypeOK, NEW m, Resolves(m, "conflict") \/ Resolves(m, "error")
  PROVE  AgainLocal(m) \in Mutation /\ Again(m) \in Mutation
<1> DEFINE d == box[m].master
<1>1. /\ box[m] \in Mutation /\ d \in Doc \cup {None} /\ box[m].data \in SUBSET Ids
      /\ box[m].rec \in Records
  BY ResolvedType
<1>2. copy[box[m].rec] \in Doc /\ copy[box[m].rec].has \in SUBSET Ids
  BY <1>1 DEF TypeOK, Doc
<1>3. (IF d = Absent THEN copy[box[m].rec].has \cup box[m].data ELSE box[m].data) \in SUBSET Ids
  BY <1>1, <1>2
<1>4. (IF d = None THEN box[m].base ELSE d.ver) \in Nat
  BY <1>1 DEF Mutation, Doc
<1>5. box[m].action \in Actions
  BY <1>1 DEF Mutation
<1>6. (IF d = Absent THEN "create"
       ELSE IF box[m].action = "create" /\ d # None THEN "update" ELSE box[m].action) \in Actions
  BY <1>5 DEF Actions
<1>7. (IF box[m].needsCreate THEN "create" ELSE box[m].action) \in Actions
  BY <1>5 DEF Actions
<1>8. AgainLocal(m) \in Mutation
  BY <1>1, <1>3, <1>4, <1>6 DEF AgainLocal, Mutation
<1>9. Again(m) \in Mutation
  BY <1>1, <1>7 DEF Again, Mutation
<1> QED
  BY <1>8, <1>9

LEMMA RetryWithLocalType ==
  ASSUME Typed, NEW m, RetryWithLocal(m)
  PROVE  Typed'
<1>1. AgainLocal(m) \in Mutation
  BY AgainType DEF RetryWithLocal, Typed
<1>2. NewId \in Ids /\ used' \in 0..MaxIds
  BY FreshType DEF RetryWithLocal, Typed
<1>3. box' = With(Without(m), NewId, AgainLocal(m))
  BY DEF RetryWithLocal, AgainLocal
<1>4. Outbox(box')
  BY <1>1, <1>2, <1>3, WithoutType, WithType DEF Typed
<1>5. UNCHANGED <<copy, cursor, hydrated, known, listed, blocked, serverVars,
                  requests, passVars, writes, events, pastVars>>
  BY DEF RetryWithLocal
<1> QED
  BY <1>2, <1>4, <1>5 DEF Outbox, Typed, TypeOK, AnswerOK, PageOK, serverVars, passVars, pastVars

\* What retryMutation writes: the outbox with m under its new id, over whose
\* document the later mutations of the record are laid again.
Reissued(m) == With(Without(m), NewId, Again(m))
LaterThan(m) == {n \in Queued(box[m].rec) : box[n].order > box[m].order}
Regained(m) == Over(box[m].before, {NewId}, Reissued(m))

LEMMA RetryWrites ==
  ASSUME TypeOK, NEW m, RetryMutation(m)
  PROVE  /\ Outbox(Reissued(m)) /\ LaterThan(m) \in SUBSET DOMAIN Reissued(m)
         /\ Regained(m) \in Doc
         /\ DOMAIN Reissued(m) = (DOMAIN box \ {m}) \cup {NewId}
         /\ box' = Rebased(LaterThan(m), Regained(m), Reissued(m))
         /\ copy' = [copy EXCEPT ![box[m].rec] = Over(Regained(m), LaterThan(m), Reissued(m))]
<1> DEFINE out   == With(Without(m), NewId, Again(m))
           later == {n \in Queued(box[m].rec) : box[n].order > box[m].order}
           from  == Over(box[m].before, {NewId}, out)
<1>1. NewId \in Ids /\ Again(m) \in Mutation /\ box[m].before \in Doc
      /\ box[m] \in Mutation
  BY AgainType, FreshType, ResolvedType DEF RetryMutation
<1>2. Outbox(out) /\ DOMAIN out = (DOMAIN box \ {m}) \cup {NewId}
  <2>1. Outbox(Without(m)) /\ DOMAIN Without(m) = DOMAIN box \ {m}
    BY WithoutType
  <2>2. /\ Outbox(With(Without(m), NewId, Again(m)))
        /\ DOMAIN With(Without(m), NewId, Again(m)) = DOMAIN Without(m) \cup {NewId}
    BY <1>1, <2>1, WithType
  <2> QED
    BY <2>1, <2>2
<1>3. later \in SUBSET DOMAIN out
  <2>1. ~(box[m].order > box[m].order)
    BY <1>1 DEF Mutation
  <2>2. later \in SUBSET (DOMAIN box \ {m})
    BY <2>1, QueuedType
  <2> QED
    BY <1>2, <2>2
<1>4. from \in Doc
  BY <1>1, <1>2, OverType DEF Outbox, Mutation
<1>5. Again(m).before = box[m].before
  BY <1>1 DEF Again, Mutation
<1>6. /\ box' = Rebased(later, from, out)
      /\ copy' = [copy EXCEPT ![box[m].rec] = Over(from, later, out)]
  <2> DEFINE new == [box[m] EXCEPT !.state = "pending", !.needsCreate = FALSE, !.master = None,
                              !.action = IF box[m].needsCreate THEN "create" ELSE @]
  <2>1. new = Again(m)
    BY DEF Again
  <2>2. /\ box' = Rebased(later, Over(new.before, {NewId}, With(Without(m), NewId, new)),
                          With(Without(m), NewId, new))
        /\ copy' = [copy EXCEPT ![box[m].rec] =
                      Over(Over(new.before, {NewId}, With(Without(m), NewId, new)), later,
                           With(Without(m), NewId, new))]
    BY DEF RetryMutation
  <2> HIDE DEF new, later
  <2> QED
    BY <1>5, <2>1, <2>2
<1> QED
  BY <1>2, <1>3, <1>4, <1>6 DEF Reissued, LaterThan, Regained

LEMMA RetryMutationType ==
  ASSUME Typed, NEW m, RetryMutation(m)
  PROVE  Typed'
<1> DEFINE out   == Reissued(m)
           later == LaterThan(m)
           from  == Regained(m)
<1>0. TypeOK
  BY DEF Typed
<1>1. /\ Outbox(out) /\ later \in SUBSET DOMAIN out /\ from \in Doc
      /\ DOMAIN out = (DOMAIN box \ {m}) \cup {NewId}
      /\ box' = Rebased(later, from, out)
      /\ copy' = [copy EXCEPT ![box[m].rec] = Over(from, later, out)]
  BY <1>0, RetryWrites
<1>2. NewId \in Ids /\ used' \in 0..MaxIds
  BY FreshType DEF RetryMutation, Typed
<1> HIDE DEF out, later, from
<1>3. Outbox(box')
  BY <1>1, RebasedType
<1>4. \A n \in later : out[n].data \in SUBSET Ids
  BY <1>1 DEF Outbox, Mutation
<1>5. Over(from, later, out) \in Doc
  BY <1>1, <1>4, OverType
<1>6. copy' \in [Records -> Doc]
  BY <1>1, <1>5, CopyType DEF Typed, TypeOK
<1>7. UNCHANGED <<cursor, hydrated, known, listed, blocked, serverVars, requests,
                  passVars, writes, events, pastVars>>
  BY DEF RetryMutation
<1> QED
  BY <1>2, <1>3, <1>6, <1>7
  DEF Outbox, Typed, TypeOK, AnswerOK, PageOK, serverVars, passVars, pastVars

LEMMA DiscardType ==
  ASSUME Typed, NEW m, Discard(m)
  PROVE  Typed'
<1> DEFINE r    == box[m].rec
           rest == Queued(r) \ {m}
           out  == Rebased(rest, box[m].before, Without(m))
<1>1. /\ m \in DOMAIN box /\ r \in Records /\ box[m].data \in SUBSET Ids /\ box[m].before \in Doc
  BY ResolvedType DEF Discard, Typed
<1>2. /\ rest \in SUBSET DOMAIN Without(m) /\ rest \in SUBSET DOMAIN box
      /\ \A n \in rest : box[n].data \in SUBSET Ids
  BY QueuedType, WithoutType DEF Typed
<1>3. Outbox(out) /\ DOMAIN out = DOMAIN Without(m)
  BY <1>1, <1>2, WithoutType, RebasedType DEF Typed
<1>4. Over(box[m].before, rest, box) \in Doc
  BY <1>1, <1>2, OverType
<1>5. copy' = [copy EXCEPT ![r] = IF listed THEN Over(box[m].before, rest, box) ELSE Absent]
  BY DEF Discard
<1>6. copy' \in [Records -> Doc]
  BY <1>4, <1>5, AbsentType, CopyType DEF Typed, TypeOK
<1>7. box' = IF box[m].action = "create" /\ rest # {}
             THEN [out EXCEPT ![First(rest)] =
                     [@ EXCEPT !.state = "error", !.needsCreate = TRUE, !.base = 0]]
             ELSE out
  BY DEF Discard
<1>8. rest # {} => First(rest) \in rest
  BY <1>2, FirstIsOne DEF Typed
<1>9. Outbox(box')
  <2> HIDE DEF out, rest
  <2>1. CASE box[m].action = "create" /\ rest # {}
    <3>1. First(rest) \in DOMAIN out
      BY <1>2, <1>3, <1>8, <2>1
    <3>2. [out[First(rest)] EXCEPT !.state = "error", !.needsCreate = TRUE, !.base = 0] \in Mutation
      BY <1>3, <3>1 DEF Outbox, Mutation
    <3>3. box' = [out EXCEPT ![First(rest)] =
                    [out[First(rest)] EXCEPT !.state = "error", !.needsCreate = TRUE, !.base = 0]]
      BY <1>7, <2>1, <3>1
    <3> QED
      BY <1>3, <3>1, <3>2, <3>3, ExceptType
  <2> QED
    BY <1>3, <1>7, <2>1
<1>10. dropped' \subseteq Ids /\ byHand' \subseteq Records
  BY <1>1 DEF Discard, Typed, TypeOK
<1>11. UNCHANGED <<cursor, hydrated, known, listed, blocked, serverVars, requests,
                   passVars, bounds, under, applied>>
  BY DEF Discard
<1> QED
  BY <1>6, <1>9, <1>10, <1>11
  DEF Outbox, Typed, TypeOK, AnswerOK, PageOK, serverVars, passVars, bounds

\* A mutation leaves the quarantine: no queue and no document notices.
LEMMA QuarantinedGone ==
  ASSUME TypeOK, NEW m, DiscardQuarantined(m)
  PROVE  /\ m \in DOMAIN box /\ DOMAIN box' = DOMAIN box \ {m}
         /\ \A n \in DOMAIN box' : n \in DOMAIN box /\ box'[n] = box[n]
         /\ \A x : Queued(x)' = Queued(x)
         /\ box[m].data \in SUBSET Ids
         /\ dropped' = dropped \cup box[m].data
         /\ UNCHANGED <<copy, cursor, hydrated, known, listed, blocked, serverVars,
                        requests, passVars, bounds, under, applied, byHand>>
<1>1. m \in DOMAIN box /\ box[m].quarantined /\ box' = Without(m)
  BY DEF DiscardQuarantined
<1>2. DOMAIN box' = DOMAIN box \ {m} /\ \A n \in DOMAIN box' : n \in DOMAIN box /\ box'[n] = box[n]
  BY <1>1 DEF Without
<1>3. \A x : Queued(x)' = Queued(x)
  BY <1>1, <1>2 DEF Queued
<1>4. box[m].data \in SUBSET Ids
  BY <1>1 DEF TypeOK, Mutation
<1> QED
  BY <1>1, <1>2, <1>3, <1>4 DEF DiscardQuarantined

LEMMA DiscardQuarantinedType ==
  ASSUME Typed, NEW m, DiscardQuarantined(m)
  PROVE  Typed'
<1>1. /\ DOMAIN box' \subseteq Ids /\ \A n \in DOMAIN box' : box'[n] \in Mutation
      /\ dropped' \subseteq Ids
      /\ UNCHANGED <<copy, cursor, hydrated, known, listed, blocked, serverVars,
                     requests, passVars, bounds, under, applied, byHand>>
  BY QuarantinedGone DEF Typed, TypeOK
<1>2. TypeOK'
  BY <1>1 DEF Typed, TypeOK, serverVars, passVars, bounds
<1>3. AnswerOK' /\ PageOK'
  BY <1>1 DEF Typed, AnswerOK, PageOK, serverVars, passVars
<1> QED
  BY <1>2, <1>3 DEF Typed

LEMMA ResumeType ==
  ASSUME Typed, ResumeAuthorization
  PROVE  Typed'
<1>1. /\ blocked' \in BOOLEAN
      /\ UNCHANGED <<copy, box, cursor, hydrated, known, listed, serverVars, requests,
                     passVars, bounds, pastVars>>
  BY DEF ResumeAuthorization
<1>2. TypeOK'
  BY <1>1 DEF Typed, TypeOK, serverVars, passVars, bounds, pastVars
<1>3. AnswerOK' /\ PageOK'
  BY <1>1 DEF Typed, AnswerOK, PageOK, serverVars, passVars, bounds, pastVars
<1> QED
  BY <1>2, <1>3 DEF Typed

LEMMA InitTyped == Init => Typed
<1> SUFFICES ASSUME Init PROVE Typed
  OBVIOUS
<1>1. doc \in [Records -> Doc]
  <2>1. [Absent EXCEPT !.ver = 1] \in Doc
    BY DEF Absent, Doc
  <2> QED
    BY <2>1, AbsentType DEF Init
<1>2. seq \in [Records -> Nat]
  <2>1. PICK order \in Bijection(Initially, 1..Cardinality(Initially)) :
          seq = [r \in Records |-> IF r \in Initially THEN order[r] ELSE 0]
    BY DEF Init
  <2>2. order \in [Initially -> 1..Cardinality(Initially)]
    BY <2>1 DEF Bijection, Injection
  <2>3. IsFiniteSet(Initially)
    BY LocalSyncAssumption, FS_Subset
  <2>4. Cardinality(Initially) \in Nat
    BY <2>3, FS_CardinalityType
  <2> QED
    BY <2>1, <2>2, <2>4
<1>3. copy \in [Records -> Doc] /\ cursor \in [rev : Nat, seq : Nat]
  BY AbsentType DEF Init, Start
<1>4. DOMAIN receipt \subseteq Ids /\ DOMAIN box \subseteq Ids
      /\ \A m \in DOMAIN box : box[m] \in Mutation
  BY DEF Init
<1>5. under \in [Ids -> Nat] /\ applied \in [Ids -> SUBSET Nat]
  BY DEF Init
<1>6. used \in 0..MaxIds /\ writes \in 0..MaxWrites /\ events \in 0..MaxEvents
  BY LocalSyncAssumption DEF Init
<1>7. /\ policy \in Nat /\ delivered \subseteq Records /\ requests \subseteq Request
      /\ hydrated \in BOOLEAN /\ known \in Nat /\ listed \in BOOLEAN /\ blocked \in BOOLEAN
      /\ pc = "idle" /\ revision \in Nat /\ list \subseteq Ids /\ stopped \subseteq Records
      /\ had \in BOOLEAN /\ reply = None /\ dropped \subseteq Ids /\ byHand \subseteq Records
  BY DEF Init
<1> QED
  BY <1>1, <1>2, <1>3, <1>4, <1>5, <1>6, <1>7 DEF Typed, TypeOK, AnswerOK, PageOK

LEMMA NextTyped == Typed /\ [Next]_vars => Typed'
<1> SUFFICES ASSUME Typed, [Next]_vars PROVE Typed'
  OBVIOUS
<1>1. CASE PassMoves
  BY <1>1, ListType, AcceptPolicyType, RefreshManifestType, PushType, AcknowledgeType,
     RejectType, EndType, PullType, ApplyPullType DEF PassMoves
<1>2. CASE Fails \/ SessionExpires
  BY <1>2, EndType
<1>3. CASE Serves
  BY <1>3, CheckType, CommitType DEF Serves
<1>4. CASE ChangePolicy \/ \E r \in Records : Write(r)
  BY <1>4, OthersType
<1>5. CASE \E r \in Records, action \in Actions : Mutate(r, action)
  BY <1>5, MutateType
<1>6. CASE \E m \in DOMAIN box : \/ AcceptMaster(m) \/ RetryWithLocal(m)
                                 \/ RetryMutation(m)
                                 \/ Discard(m) \/ DiscardQuarantined(m)
  BY <1>6, AcceptMasterType, RetryWithLocalType, RetryMutationType, DiscardType,
     DiscardQuarantinedType
<1>7. CASE ResumeAuthorization
  BY <1>7, ResumeType
<1>8. CASE UNCHANGED vars
  BY <1>8 DEF vars, Typed, TypeOK, AnswerOK, PageOK, serverVars, storeVars, passVars, bounds,
     pastVars
<1> QED
  BY <1>1, <1>2, <1>3, <1>4, <1>5, <1>6, <1>7, <1>8 DEF Next

\* What the server and the browser store, the requests and the pass keep
\* their types.
THEOREM TypeCorrect == Spec => []TypeOK
<1>1. Spec => []Typed
  BY InitTyped, NextTyped, PTL DEF Spec
<1>2. Typed => TypeOK
  BY DEF Typed
<1> QED
  BY <1>1, <1>2, PTL
-----------------------------------------------------------------------------
(* No edit is lost.                                                        *)

Accounted(e) ==
  \/ e \in dropped
  \/ \E n \in DOMAIN box : e \in box[n].data
  \/ Stored(e)

\* A request that was there before, or that asks for what is queued.
Carried(q) ==
  \/ \E p \in requests : p.id = q.id /\ p.data = q.data /\ p.rec = q.rec
  \/ q.id \in DOMAIN box /\ q.data = box[q.id].data /\ q.rec = box[q.id].rec

\* What a step does to the outbox, the requests, the receipts and the records.
Conserves ==
  /\ used' \in {used, used + 1}
  /\ \A m \in DOMAIN box' :
       \/ m \in DOMAIN box /\ box'[m].data = box[m].data /\ box'[m].rec = box[m].rec
       \/ m = used + 1 /\ used' = used + 1
  /\ \A m \in DOMAIN box \ DOMAIN box' : \A e \in box[m].data : Accounted(e)'
  /\ \A e \in Ids : under'[e] # 0 => under[e] # 0 \/ Accounted(e)'
  /\ \A q \in requests' : Carried(q)
  /\ reply' # None =>
       \/ reply' = reply
       \/ \E q \in requests : /\ reply'.id = q.id /\ reply'.rec = q.rec
                              /\ reply'.kind = "ok" => q.id \in DOMAIN receipt'
  /\ DOMAIN receipt \subseteq DOMAIN receipt'
  /\ \A m \in DOMAIN receipt' : \/ m \in DOMAIN receipt
                                \/ \E q \in requests : q.id = m /\ \A e \in q.data : Stored(e)'
  /\ \A e \in Ids : Stored(e) => Stored(e)'
  /\ dropped \subseteq dropped'
  /\ list' \subseteq list \cup DOMAIN box

LEMMA ConservedByStep ==
  ASSUME Typed, Conserved, Conserves
  PROVE  Conserved'
<1>1. used \in Nat /\ used + 1 \notin 1..used /\ used' \in Nat /\ 1..used \subseteq 1..used'
      /\ (used' = used + 1 => used + 1 \in 1..used')
  BY DEF Typed, TypeOK, Conserves
<1>2. \A m \in DOMAIN box' : m \in 1..used'
  BY <1>1 DEF Conserves, Conserved, Numbered
<1>3. \A q \in requests' : q.id \in 1..used
  BY DEF Conserves, Carried, Conserved, Numbered
<1>4. reply' # None => reply'.id \in 1..used
  BY DEF Conserves, Conserved, Numbered
<1>5. DOMAIN receipt' \subseteq 1..used
  BY DEF Conserves, Conserved, Numbered
<1>6. Numbered'
  <2>1. list' \subseteq 1..used
    BY DEF Conserves, Conserved, Numbered
  <2> QED
    BY <1>1, <1>2, <1>3, <1>4, <1>5, <2>1 DEF Numbered
<1>7. \A m \in DOMAIN box' : m \in 1..used =>
        m \in DOMAIN box /\ box'[m].data = box[m].data /\ box'[m].rec = box[m].rec
  BY <1>1 DEF Conserves
<1>8. Faithful'
  <2>1. ASSUME NEW q \in requests', q.id \in DOMAIN box'
        PROVE  box'[q.id].data = q.data /\ box'[q.id].rec = q.rec
    <3>1. /\ q.id \in DOMAIN box /\ box'[q.id].data = box[q.id].data
          /\ box'[q.id].rec = box[q.id].rec
      BY <1>3, <1>7, <2>1
    <3>2. box[q.id].data = q.data /\ box[q.id].rec = q.rec
      BY <2>1, <3>1 DEF Conserves, Carried, Conserved, Faithful
    <3> QED
      BY <3>1, <3>2
  <2>2. ASSUME reply' # None, reply'.id \in DOMAIN box'
        PROVE  box'[reply'.id].rec = reply'.rec
    <3>1. reply'.id \in DOMAIN box /\ box'[reply'.id].rec = box[reply'.id].rec
      BY <1>4, <1>7, <2>2
    <3>2. box[reply'.id].rec = reply'.rec
      BY <2>2, <3>1 DEF Conserves, Conserved, Faithful
    <3> QED
      BY <3>1, <3>2
  <2> QED
    BY <2>1, <2>2 DEF Faithful
<1>9. ReceiptsTrue'
  <2>1. reply' # None /\ reply'.kind = "ok" => reply'.id \in DOMAIN receipt'
    BY DEF Conserves, Conserved, ReceiptsTrue
  <2>2. ASSUME NEW m \in DOMAIN receipt', m \in DOMAIN box', NEW e \in box'[m].data
        PROVE  Stored(e)'
    <3>1. m \in DOMAIN box /\ box'[m].data = box[m].data
      BY <1>5, <1>7, <2>2
    <3>2. e \in Ids /\ e \in box[m].data
      BY <2>2, <3>1 DEF Typed, TypeOK, Mutation
    <3>3. CASE m \in DOMAIN receipt
      <4>1. Stored(e)
        BY <3>1, <3>2, <3>3 DEF Conserved, ReceiptsTrue
      <4> QED
        BY <3>2, <4>1 DEF Conserves
    <3>4. CASE m \notin DOMAIN receipt
      <4>1. PICK q \in requests : q.id = m /\ \A x \in q.data : Stored(x)'
        BY <2>2, <3>4 DEF Conserves
      <4>2. q.data = box[m].data
        BY <3>1, <4>1 DEF Conserved, Faithful
      <4> QED
        BY <3>2, <4>1, <4>2
    <3> QED
      BY <3>3, <3>4
  <2> QED
    BY <2>1, <2>2 DEF ReceiptsTrue
<1>10. NoEditLost'
  <2>1. SUFFICES ASSUME NEW e \in Ids, under'[e] # 0 PROVE Accounted(e)'
    BY DEF NoEditLost, Accounted, Stored
  <2>2. CASE under[e] # 0
    <3>1. Accounted(e)
      BY <2>2 DEF Conserved, NoEditLost, Accounted, Stored
    <3>2. CASE e \in dropped
      BY <3>2 DEF Conserves, Accounted
    <3>3. CASE Stored(e)
      BY <3>3 DEF Conserves, Accounted
    <3>4. ASSUME NEW n \in DOMAIN box, e \in box[n].data PROVE Accounted(e)'
      <4>1. CASE n \in DOMAIN box'
        <5>1. n \in 1..used
          BY DEF Conserved, Numbered
        <5>2. e \in box'[n].data
          BY <1>7, <3>4, <4>1, <5>1
        <5> QED
          BY <4>1, <5>2 DEF Accounted
      <4>2. CASE n \notin DOMAIN box'
        BY <3>4, <4>2 DEF Conserves
      <4> QED
        BY <4>1, <4>2
    <3> QED
      BY <3>1, <3>2, <3>3, <3>4 DEF Accounted
  <2>3. CASE under[e] = 0
    BY <2>1, <2>3 DEF Conserves
  <2> QED
    BY <2>2, <2>3
<1> QED
  BY <1>6, <1>8, <1>9, <1>10 DEF Conserved

LEMMA QuietStep ==
  ASSUME Typed, UNCHANGED <<used, under, doc, receipt, dropped>>,
         DOMAIN box' = DOMAIN box,
         \A m \in DOMAIN box : box'[m].data = box[m].data /\ box'[m].rec = box[m].rec,
         \A q \in requests' : Carried(q), reply' \in {reply, None},
         list' \subseteq list \cup DOMAIN box
  PROVE  Conserves
<1>1. \A e \in Ids : Stored(e) => Stored(e)'
  BY DEF Stored
<1> QED
  BY <1>1 DEF Conserves

\* Mutations that only change their state, or the documents they keep.
LEMMA QuarantineEdits ==
  ASSUME TypeOK, NEW S
  PROVE  \A m \in DOMAIN box : /\ Quarantine(box, S)[m].data = box[m].data
                               /\ Quarantine(box, S)[m].rec = box[m].rec
<1>1. ASSUME NEW m \in DOMAIN box
      PROVE  /\ Quarantine(box, S)[m].data = box[m].data
             /\ Quarantine(box, S)[m].rec = box[m].rec
  <2>1. box[m] \in Mutation
    BY DEF TypeOK
  <2>2. Quarantine(box, S)[m] =
          IF m \in S THEN [box[m] EXCEPT !.quarantined = TRUE, !.state = "error", !.master = None]
          ELSE box[m]
    BY DEF Quarantine
  <2> QED
    BY <2>1, <2>2 DEF Mutation
<1> QED
  BY <1>1

LEMMA BlockEdits ==
  ASSUME TypeOK, NEW b \in BOOLEAN, Block(b)
  PROVE  /\ DOMAIN box' = DOMAIN box
         /\ \A m \in DOMAIN box : box'[m].data = box[m].data /\ box'[m].rec = box[m].rec
         /\ reply' = None /\ list' = {}
<1>1. DOMAIN box' = DOMAIN box /\ reply' = None /\ list' = {}
  BY DEF Block, Idle
<1>2. ASSUME NEW m \in DOMAIN box
      PROVE  box'[m].data = box[m].data /\ box'[m].rec = box[m].rec
  <2>1. box[m] \in Mutation
    BY DEF TypeOK
  <2>2. box'[m] = [box[m] EXCEPT
                     !.state = IF @ = "conflict" THEN @ ELSE "error",
                     !.quarantined = @ \/ (b /\ known # 0),
                     !.snapshot = IF copy[box[m].rec] = Absent THEN @ ELSE copy[box[m].rec]]
    BY DEF Block
  <2> QED
    BY <2>1, <2>2 DEF Mutation
<1> QED
  BY <1>1, <1>2

LEMMA PassConserves ==
  ASSUME Typed,
         \/ FetchManifest \/ AcceptPolicy \/ RefreshManifest \/ ListOutbox
         \/ SkipMutation \/ Push \/ Reject \/ Forbidden
         \/ SkipPull \/ BeginPull \/ Pull \/ PullForbidden \/ ApplyPull
         \/ Fails \/ SessionExpires \/ ChangePolicy \/ ResumeAuthorization
  PROVE  Conserves
<1> DEFINE Quiet == /\ UNCHANGED <<used, under, doc, receipt, dropped>>
                    /\ DOMAIN box' = DOMAIN box
                    /\ \A m \in DOMAIN box : /\ box'[m].data = box[m].data
                                             /\ box'[m].rec = box[m].rec
                    /\ \A q \in requests' : Carried(q)
                    /\ reply' \in {reply, None}
                    /\ list' \subseteq list \cup DOMAIN box
<1>1. SUFFICES Quiet
  BY QuietStep
<1>2. \A q \in requests : Carried(q)
  BY DEF Carried
<1>3. \A q \in Abandoned : Carried(q)
  <2>1. ASSUME NEW p \in requests PROVE Carried([p EXCEPT !.late = TRUE])
    BY DEF Carried, Typed, TypeOK, Request
  <2> QED
    BY <2>1 DEF Abandoned
<1>4. CASE FetchManifest \/ ListOutbox \/ SkipMutation \/ SkipPull \/ BeginPull \/ Pull
  BY <1>2, <1>4 DEF FetchManifest, ListOutbox, SkipMutation, SkipPull, BeginPull, Pull, Idle, Step,
     serverVars, storeVars, bounds, pastVars
<1>5. CASE AcceptPolicy
  <2>1. /\ DOMAIN box' = DOMAIN box
        /\ \A m \in DOMAIN box : box'[m].data = box[m].data /\ box'[m].rec = box[m].rec
    <3>1. CASE known = revision
      BY <1>5, <3>1 DEF AcceptPolicy, storeVars
    <3>2. CASE known # revision
      BY <1>5, <3>2, QuarantineType, QuarantineEdits DEF AcceptPolicy, Typed
    <3> QED
      BY <3>1, <3>2
  <2> QED
    BY <1>2, <1>5, <2>1 DEF AcceptPolicy, Step, serverVars, bounds, pastVars
<1>6. CASE RefreshManifest
  <2>1. box' = [m \in DOMAIN box |-> IF box[m].quarantined THEN box[m]
                                     ELSE [box[m] EXCEPT !.snapshot = Absent]]
    BY <1>6 DEF RefreshManifest
  <2>2. \A m \in DOMAIN box : box[m] \in Mutation
    BY DEF Typed, TypeOK
  <2>3. /\ DOMAIN box' = DOMAIN box
        /\ \A m \in DOMAIN box : box'[m].data = box[m].data /\ box'[m].rec = box[m].rec
    BY <2>1, <2>2 DEF Mutation
  <2> QED
    BY <1>2, <1>6, <2>3 DEF RefreshManifest, Step, serverVars, bounds, pastVars
<1>7. CASE Push
  <2>1. PICK m \in DOMAIN box : /\ requests' = requests \cup {Asked(m)}
                                /\ list' = list \ {m}
    BY <1>7, PushAsks DEF Typed
  <2>2. Carried(Asked(m))
    BY DEF Carried, Asked
  <2> QED
    BY <1>2, <1>7, <2>1, <2>2 DEF Push, serverVars, storeVars, bounds, pastVars
<1>8. CASE Reject
  <2>1. /\ DOMAIN box' = DOMAIN box
        /\ \A m \in DOMAIN box : box'[m].data = box[m].data /\ box'[m].rec = box[m].rec
    <3>1. CASE Settleable(reply.id)
      <4>1. box' = [box EXCEPT ![reply.id].state  = Verdict(reply.kind),
                               ![reply.id].master =
                                  IF reply.kind = "conflict" THEN reply.doc ELSE @]
        BY <1>8, <3>1 DEF Reject
      <4>2. \A m \in DOMAIN box : box[m] \in Mutation
        BY DEF Typed, TypeOK
      <4> QED
        BY <4>1, <4>2 DEF Mutation
    <3>2. CASE ~Settleable(reply.id)
      BY <1>8, <3>2 DEF Reject
    <3> QED
      BY <3>1, <3>2
  <2> QED
    BY <1>2, <1>8, <2>1 DEF Reject, Onward, serverVars, bounds, pastVars
<1>9. CASE Forbidden \/ PullForbidden
  <2>1. Block(TRUE) /\ UNCHANGED <<serverVars, requests, bounds, pastVars>>
    BY <1>9 DEF Forbidden, PullForbidden
  <2>2. /\ DOMAIN box' = DOMAIN box
        /\ \A m \in DOMAIN box : box'[m].data = box[m].data /\ box'[m].rec = box[m].rec
        /\ reply' = None /\ list' = {}
    BY <2>1, BlockEdits DEF Typed
  <2> QED
    BY <1>2, <2>1, <2>2 DEF serverVars, bounds, pastVars
<1>10. CASE ApplyPull
  <2>1. /\ DOMAIN box' = DOMAIN box
        /\ \A m \in DOMAIN box : box'[m].data = box[m].data /\ box'[m].rec = box[m].rec
    BY <1>10, QuarantineType, QuarantineEdits DEF ApplyPull, Typed
  <2>2. reply' \in {reply, None} /\ list' \subseteq list \cup DOMAIN box
    <3>1. CASE page.more
      BY <1>10, <3>1 DEF ApplyPull
    <3>2. CASE ~page.more
      BY <1>10, <3>2 DEF ApplyPull, Idle
    <3> QED
      BY <3>1, <3>2
  <2> QED
    BY <1>2, <1>10, <2>1, <2>2 DEF ApplyPull, serverVars, bounds
<1>11. CASE Fails
  BY <1>3, <1>11 DEF Fails, Idle, serverVars, storeVars, pastVars
<1>12. CASE SessionExpires
  <2>1. Block(FALSE) /\ requests' = Abandoned /\ UNCHANGED <<serverVars, used, writes, pastVars>>
    BY <1>12 DEF SessionExpires
  <2>2. /\ DOMAIN box' = DOMAIN box
        /\ \A m \in DOMAIN box : box'[m].data = box[m].data /\ box'[m].rec = box[m].rec
        /\ reply' = None /\ list' = {}
    BY <2>1, BlockEdits DEF Typed
  <2> QED
    BY <1>3, <2>1, <2>2 DEF serverVars, pastVars
<1>13. CASE ChangePolicy
  BY <1>2, <1>13 DEF ChangePolicy, storeVars, passVars, pastVars
<1>14. CASE ResumeAuthorization
  BY <1>2, <1>14 DEF ResumeAuthorization, serverVars, passVars, bounds, pastVars
<1> QED
  BY <1>4, <1>5, <1>6, <1>7, <1>8, <1>9, <1>10, <1>11, <1>12, <1>13, <1>14

LEMMA AnsweredConserves ==
  ASSUME Typed, NEW q \in requests, NEW d, NEW kind, Answered(q, kind, d),
         kind = "ok" => q.id \in DOMAIN receipt'
  PROVE  /\ \A p \in requests' : Carried(p)
         /\ reply' # None =>
              \/ reply' = reply
              \/ \E p \in requests : /\ reply'.id = p.id /\ reply'.rec = p.rec
                                     /\ reply'.kind = "ok" => p.id \in DOMAIN receipt'
  BY DEF Answered, Carried

LEMMA ReplayConserves ==
  ASSUME Typed, NEW q \in requests, Replay(q), q.id \in DOMAIN receipt'
  PROVE  /\ \A p \in requests' : Carried(p)
         /\ reply' # None =>
              \/ reply' = reply
              \/ \E p \in requests : /\ reply'.id = p.id /\ reply'.rec = p.rec
                                     /\ reply'.kind = "ok" => p.id \in DOMAIN receipt'
<1>1. \/ Answered(q, "ok", doc[q.rec])
      \/ Answered(q, "conflict", None)
  BY DEF Replay
<1> QED
  BY <1>1, AnsweredConserves

LEMMA ServerConserves ==
  ASSUME Typed, \/ \E q \in requests : Check(q) \/ Commit(q)
                \/ \E r \in Records : Write(r)
  PROVE  Conserves
<1> DEFINE Replies == /\ \A p \in requests' : Carried(p)
                      /\ reply' # None =>
                           \/ reply' = reply
                           \/ \E p \in requests :
                                /\ reply'.id = p.id /\ reply'.rec = p.rec
                                /\ reply'.kind = "ok" => p.id \in DOMAIN receipt'
<1>1. ASSUME NEW q \in requests, Check(q) PROVE Conserves
  <2>1. UNCHANGED <<serverVars, storeVars, pc, revision, list, stopped, had, page,
                    used, writes, pastVars>>
    BY <1>1 DEF Check
  <2>2. Replies
    <3>1. CASE \/ Answered(q, "forbidden", None) \/ Answered(q, "refused", None)
               \/ \E kind \in {"refused", "conflict"} : Answered(q, kind, doc[q.rec])
      BY <3>1, AnsweredConserves
    <3>2. CASE q.id \in DOMAIN receipt /\ Replay(q)
      BY <2>1, <3>2, ReplayConserves DEF serverVars
    <3>3. CASE /\ requests' = (requests \ {q}) \cup {[q EXCEPT !.checked = TRUE]}
               /\ UNCHANGED reply
      <4>1. Carried([q EXCEPT !.checked = TRUE])
        BY DEF Carried, Typed, TypeOK, Request
      <4> QED
        BY <3>3, <4>1 DEF Carried
    <3> QED
      BY <1>1, <3>1, <3>2, <3>3 DEF Check
  <2>3. \A e \in Ids : Stored(e) => Stored(e)'
    BY <2>1 DEF Stored, serverVars
  <2> QED
    BY <2>1, <2>2, <2>3 DEF Conserves, serverVars, storeVars, pastVars
<1>2. ASSUME NEW q \in requests, Commit(q) PROVE Conserves
  <2>1. UNCHANGED <<policy, delivered, storeVars, pc, revision, list, stopped,
                    had, page, bounds, under, dropped, byHand>>
    BY <1>2 DEF Commit
  <2>2. CASE Guarded(q) /\ q.id \notin DOMAIN receipt
    <3>1. /\ doc' = [doc EXCEPT ![q.rec] = Merged(q)]
          /\ receipt' = With(receipt, q.id, Fingerprint(q))
          /\ Answered(q, "ok", Merged(q))
      BY <1>2, <2>2 DEF Commit, Change
    <3>2. DOMAIN receipt' = DOMAIN receipt \cup {q.id}
      BY <3>1 DEF With
    <3>3. Replies
      BY <3>1, <3>2, AnsweredConserves
    <3>4. q.rec \in Records /\ doc'[q.rec].has = doc[q.rec].has \cup q.data
          /\ \A r \in Records \ {q.rec} : doc'[r] = doc[r]
      BY <3>1, MergedType DEF Typed, TypeOK, Merged
    <3>5. \A e \in q.data : Stored(e)'
      BY <3>4 DEF Stored
    <3>6. \A e \in Ids : Stored(e) => Stored(e)'
      BY <3>4 DEF Stored
    <3> QED
      BY <2>1, <3>2, <3>3, <3>5, <3>6 DEF Conserves, storeVars, bounds
  <2>3. CASE ~(Guarded(q) /\ q.id \notin DOMAIN receipt)
    <3>1. UNCHANGED <<doc, seq, receipt, applied>>
      BY <1>2, <2>3 DEF Commit
    <3>2. Replies
      <4>1. CASE q.id \in DOMAIN receipt /\ Replay(q)
        BY <3>1, <4>1, ReplayConserves
      <4>2. CASE Answered(q, "conflict", doc[q.rec])
        BY <4>2, AnsweredConserves
      <4> QED
        BY <1>2, <2>3, <4>1, <4>2 DEF Commit
    <3>3. \A e \in Ids : Stored(e) => Stored(e)'
      BY <3>1 DEF Stored
    <3> QED
      BY <2>1, <3>1, <3>2, <3>3 DEF Conserves, storeVars, bounds
  <2> QED
    BY <2>2, <2>3
<1>3. ASSUME NEW r \in Records, Write(r) PROVE Conserves
  <2>1. PICK gone \in BOOLEAN : doc' = [doc EXCEPT ![r] = [doc[r] EXCEPT !.ver = @ + 1, !.gone = gone]]
    BY <1>3 DEF Write, Change
  <2>2. \A x \in Records : doc'[x].has = doc[x].has
    BY <2>1 DEF Typed, TypeOK, Doc
  <2>3. \A e \in Ids : Stored(e) => Stored(e)'
    BY <2>2 DEF Stored
  <2>4. \A q \in requests : Carried(q)
    BY DEF Carried
  <2> QED
    BY <1>3, <2>3, <2>4 DEF Write, Conserves, storeVars, passVars, pastVars
<1> QED
  BY <1>1, <1>2, <1>3

\* Mutations that differ in the document they were laid over, or in how they
\* are to be sent.
Alike(x, y) ==
  /\ x.data = y.data /\ x.rec = y.rec /\ x.quarantined = y.quarantined
  /\ x.snapshot = y.snapshot /\ x.master = y.master /\ x.order = y.order

LEMMA RebasedAlike ==
  ASSUME NEW out, Outbox(out), NEW d \in Doc, NEW S \in SUBSET DOMAIN out, NEW n \in DOMAIN out
  PROVE  /\ Alike(Rebased(S, d, out)[n], out[n])
         /\ \/ Rebased(S, d, out)[n].before = out[n].before
            \/ n \in S /\ \E T \in SUBSET S : Rebased(S, d, out)[n].before = Over(d, T, out)
         /\ n \in S => Rebased(S, d, out)[n].before = Over(d, Earlier(S, n), out)
         /\ n \notin S => Rebased(S, d, out)[n] = out[n]
<1>1. Rebased(S, d, out)[n] = IF n \in S THEN [out[n] EXCEPT !.before = Over(d, Earlier(S, n), out)]
                              ELSE out[n]
  BY DEF Rebased
<1>2. Earlier(S, n) \in SUBSET S
  BY DEF Earlier
<1>3. out[n] \in Mutation
  BY DEF Outbox
<1>4. CASE n \in S
  <2>1. Rebased(S, d, out)[n].before = Over(d, Earlier(S, n), out)
    BY <1>1, <1>3, <1>4 DEF Mutation
  <2>2. Alike(Rebased(S, d, out)[n], out[n])
    BY <1>1, <1>3, <1>4 DEF Alike, Mutation
  <2> QED
    BY <1>2, <1>4, <2>1, <2>2
<1>5. CASE n \notin S
  BY <1>1, <1>5 DEF Alike
<1> QED
  BY <1>4, <1>5

\* What acknowledge leaves of the outbox.
LEMMA AcknowledgeInAlike ==
  ASSUME TypeOK, NEW m \in DOMAIN box, NEW d \in Doc, AcknowledgeIn(m, d)
  PROVE  /\ DOMAIN box' = DOMAIN box \ {m}
         /\ \A n \in DOMAIN box' :
              /\ Alike(box'[n], box[n])
              /\ \/ box'[n].before = box[n].before
                 \/ /\ n \in Queued(box[m].rec)
                    /\ \E T \in SUBSET (Queued(box[m].rec) \ {m}) :
                         box'[n].before = Over(d, T, Without(m))
              /\ n \in Queued(box[m].rec) =>
                   box'[n].before = Over(d, Earlier(Queued(box[m].rec) \ {m}, n), Without(m))
              /\ n \notin Queued(box[m].rec) => box'[n].before = box[n].before
<1> DEFINE r    == box[m].rec
           rest == Queued(r) \ {m}
           out  == Rebased(rest, d, Without(m))
<1>1. rest \in SUBSET DOMAIN Without(m) /\ Outbox(Without(m)) /\ DOMAIN Without(m) = DOMAIN box \ {m}
  BY QueuedType, WithoutType
<1>2. DOMAIN out = DOMAIN box \ {m} /\ Outbox(out)
  BY <1>1, RebasedType
<1>3. \A n \in DOMAIN box \ {m} : Without(m)[n] = box[n]
  BY DEF Without
<1>4. ASSUME NEW n \in DOMAIN box \ {m}
      PROVE  /\ Alike(out[n], box[n])
             /\ \/ out[n].before = box[n].before
                \/ n \in rest /\ \E T \in SUBSET rest : out[n].before = Over(d, T, Without(m))
             /\ n \in rest => out[n].before = Over(d, Earlier(rest, n), Without(m))
             /\ n \notin rest => out[n].before = box[n].before
  <2> HIDE DEF rest
  <2>1. /\ Alike(out[n], Without(m)[n])
        /\ \/ out[n].before = Without(m)[n].before
           \/ n \in rest /\ \E T \in SUBSET rest : out[n].before = Over(d, T, Without(m))
        /\ n \in rest => out[n].before = Over(d, Earlier(rest, n), Without(m))
        /\ n \notin rest => out[n] = Without(m)[n]
    BY <1>1, RebasedAlike
  <2> QED
    BY <1>3, <2>1
<1>5. box' = IF rest = {} THEN out ELSE [out EXCEPT ![First(rest)].base = d.ver]
  BY DEF AcknowledgeIn
<1>6. DOMAIN box' = DOMAIN box \ {m}
  BY <1>2, <1>5
<1>7. ASSUME NEW n \in DOMAIN box \ {m}
      PROVE  Alike(box'[n], out[n]) /\ box'[n].before = out[n].before
  <2>1. out[n] \in Mutation
    BY <1>2 DEF Outbox
  <2>2. box'[n] = out[n] \/ box'[n] = [out[n] EXCEPT !.base = d.ver]
    <3> HIDE DEF out, rest
    <3> QED
      BY <1>2, <1>5
  <2> HIDE DEF out
  <2> QED
    BY <2>1, <2>2 DEF Alike, Mutation
<1>8. ASSUME NEW n \in DOMAIN box'
      PROVE  /\ Alike(box'[n], box[n])
             /\ \/ box'[n].before = box[n].before
                \/ /\ n \in Queued(r)
                   /\ \E T \in SUBSET rest : box'[n].before = Over(d, T, Without(m))
             /\ n \in rest => box'[n].before = Over(d, Earlier(rest, n), Without(m))
             /\ n \notin rest => box'[n].before = box[n].before
  <2>0. n \in rest => n \in Queued(r)
    OBVIOUS
  <2> HIDE DEF out, rest
  <2> QED
    BY <1>4, <1>6, <1>7, <2>0 DEF Alike
<1> QED
  BY <1>6, <1>8

LEMMA AcceptMasterAlike ==
  ASSUME TypeOK, NEW m, AcceptMaster(m)
  PROVE  LET r    == box[m].rec
             rest == Queued(r) \ {m}
         IN /\ DOMAIN box' = DOMAIN box \ {m}
            /\ \/ /\ box[m].master # Absent /\ box[m].master \in Doc
                  /\ AcknowledgeIn(m, box[m].master)
               \/ /\ box[m].master = Absent /\ rest = {}
                  /\ copy' = [copy EXCEPT ![r] = Absent]
                  /\ \A n \in DOMAIN box' : box'[n] = box[n]
               \/ /\ box[m].master = Absent /\ UNCHANGED copy
                  /\ \A n \in DOMAIN box' :
                       \/ box'[n] = box[n]
                       \/ /\ n \in rest
                          /\ box'[n] = [box[n] EXCEPT !.state = "conflict", !.master = Absent]
<1> DEFINE r    == box[m].rec
           rest == Queued(r) \ {m}
<1>1. m \in DOMAIN box /\ box[m].master \in Doc
  BY ResolvedType DEF AcceptMaster
<1>2. DOMAIN Without(m) = DOMAIN box \ {m} /\ \A n \in DOMAIN box \ {m} : Without(m)[n] = box[n]
  BY DEF Without
<1>3. CASE box[m].master # Absent
  <2>1. AcknowledgeIn(m, box[m].master)
    BY <1>3 DEF AcceptMaster
  <2>2. DOMAIN box' = DOMAIN box \ {m}
    BY <1>1, <2>1, AcknowledgeInAlike
  <2> QED
    BY <1>1, <1>3, <2>1, <2>2
<1>4. CASE box[m].master = Absent /\ rest = {}
  <2>1. box' = Without(m) /\ copy' = [copy EXCEPT ![r] = Absent]
    BY <1>4 DEF AcceptMaster
  <2> QED
    BY <1>2, <1>4, <2>1
<1>5. CASE box[m].master = Absent /\ rest # {}
  <2>1. box' = [Without(m) EXCEPT ![First(rest)] =
                  [@ EXCEPT !.state = "conflict", !.master = Absent]] /\ UNCHANGED copy
    BY <1>5 DEF AcceptMaster
  <2>2. First(rest) \in rest /\ rest \in SUBSET (DOMAIN box \ {m})
    BY <1>5, QueuedType, FirstIsOne
  <2>3. ASSUME NEW n \in DOMAIN box'
        PROVE  \/ box'[n] = box[n]
               \/ n \in rest /\ box'[n] = [box[n] EXCEPT !.state = "conflict", !.master = Absent]
    <3> HIDE DEF rest
    <3> QED
      BY <1>2, <2>1, <2>2
  <2>4. DOMAIN box' = DOMAIN box \ {m}
    BY <1>2, <2>1
  <2> QED
    BY <1>5, <2>1, <2>3, <2>4
<1> QED
  BY <1>3, <1>4, <1>5

LEMMA DiscardAlike ==
  ASSUME TypeOK, NEW m, Discard(m)
  PROVE  /\ DOMAIN box' = DOMAIN box \ {m}
         /\ \A n \in DOMAIN box' :
              /\ Alike(box'[n], box[n])
              /\ \/ box'[n].before = box[n].before
                 \/ /\ n \in Queued(box[m].rec)
                    /\ \E T \in SUBSET (Queued(box[m].rec) \ {m}) :
                         box'[n].before = Over(box[m].before, T, Without(m))
              /\ n \in Queued(box[m].rec) =>
                   box'[n].before =
                     Over(box[m].before, Earlier(Queued(box[m].rec) \ {m}, n), Without(m))
              /\ n \notin Queued(box[m].rec) => box'[n].before = box[n].before
<1> DEFINE r    == box[m].rec
           d    == box[m].before
           rest == Queued(r) \ {m}
           out  == Rebased(rest, d, Without(m))
<1>1. d \in Doc
  BY ResolvedType DEF Discard
<1>2. rest \in SUBSET DOMAIN Without(m) /\ Outbox(Without(m)) /\ DOMAIN Without(m) = DOMAIN box \ {m}
  BY QueuedType, WithoutType
<1>3. DOMAIN out = DOMAIN box \ {m} /\ Outbox(out)
  BY <1>1, <1>2, RebasedType
<1>4. \A n \in DOMAIN box \ {m} : Without(m)[n] = box[n]
  BY DEF Without
<1>5. ASSUME NEW n \in DOMAIN box \ {m}
      PROVE  /\ Alike(out[n], box[n])
             /\ \/ out[n].before = box[n].before
                \/ n \in rest /\ \E T \in SUBSET rest : out[n].before = Over(d, T, Without(m))
             /\ n \in rest => out[n].before = Over(d, Earlier(rest, n), Without(m))
             /\ n \notin rest => out[n].before = box[n].before
  <2> HIDE DEF rest, d
  <2>1. /\ Alike(out[n], Without(m)[n])
        /\ \/ out[n].before = Without(m)[n].before
           \/ n \in rest /\ \E T \in SUBSET rest : out[n].before = Over(d, T, Without(m))
        /\ n \in rest => out[n].before = Over(d, Earlier(rest, n), Without(m))
        /\ n \notin rest => out[n] = Without(m)[n]
    BY <1>1, <1>2, RebasedAlike
  <2> QED
    BY <1>4, <2>1
<1>6. box' = IF box[m].action = "create" /\ rest # {}
             THEN [out EXCEPT ![First(rest)] =
                     [@ EXCEPT !.state = "error", !.needsCreate = TRUE, !.base = 0]]
             ELSE out
  BY DEF Discard
<1>7. DOMAIN box' = DOMAIN box \ {m}
  BY <1>3, <1>6
<1>8. ASSUME NEW n \in DOMAIN box \ {m}
      PROVE  Alike(box'[n], out[n]) /\ box'[n].before = out[n].before
  <2>1. out[n] \in Mutation
    BY <1>3 DEF Outbox
  <2>2. box'[n] = out[n] \/ box'[n] = [out[n] EXCEPT !.state = "error", !.needsCreate = TRUE, !.base = 0]
    <3> HIDE DEF out, rest
    <3> QED
      BY <1>3, <1>6
  <2> HIDE DEF out
  <2> QED
    BY <2>1, <2>2 DEF Alike, Mutation
<1>9. ASSUME NEW n \in DOMAIN box'
      PROVE  /\ Alike(box'[n], box[n])
             /\ \/ box'[n].before = box[n].before
                \/ /\ n \in Queued(r)
                   /\ \E T \in SUBSET rest : box'[n].before = Over(d, T, Without(m))
             /\ n \in rest => box'[n].before = Over(d, Earlier(rest, n), Without(m))
             /\ n \notin rest => box'[n].before = box[n].before
  <2>0. n \in rest => n \in Queued(r)
    OBVIOUS
  <2> HIDE DEF out, d, rest
  <2> QED
    BY <1>5, <1>7, <1>8, <2>0 DEF Alike
<1> QED
  BY <1>7, <1>9

LEMMA RetryMutationAlike ==
  ASSUME TypeOK, NEW m, RetryMutation(m), NewId \notin DOMAIN box
  PROVE  LET out  == With(Without(m), NewId, Again(m))
             from == Over(box[m].before, {NewId}, out)
         IN /\ DOMAIN box' = (DOMAIN box \ {m}) \cup {NewId}
            /\ out[NewId] = Again(m) /\ from \in Doc
            /\ box'[NewId] = Again(m)
            /\ \A n \in DOMAIN box \ {m} : out[n] = box[n]
            /\ \A n \in DOMAIN box \ {m} :
                 /\ Alike(box'[n], box[n])
                 /\ \/ box'[n].before = box[n].before
                    \/ /\ n \in Queued(box[m].rec)
                       /\ \E T \in SUBSET (Queued(box[m].rec) \ {m}) :
                            box'[n].before = Over(from, T, out)
            /\ \E T \in SUBSET (Queued(box[m].rec) \ {m}) :
                 copy' = [copy EXCEPT ![box[m].rec] = Over(from, T, out)]
<1> DEFINE out   == Reissued(m)
           later == LaterThan(m)
           from  == Regained(m)
<1>1. /\ Outbox(out) /\ later \in SUBSET DOMAIN out /\ from \in Doc
      /\ DOMAIN out = (DOMAIN box \ {m}) \cup {NewId}
      /\ box' = Rebased(later, from, out)
      /\ copy' = [copy EXCEPT ![box[m].rec] = Over(from, later, out)]
  BY RetryWrites
<1>2. m \in DOMAIN box /\ m # NewId
  BY ResolvedType DEF RetryMutation
<1>3. out[NewId] = Again(m) /\ \A n \in DOMAIN box \ {m} : out[n] = box[n]
  BY <1>2 DEF Reissued, With, Without
<1>4. later \in SUBSET (Queued(box[m].rec) \ {m}) /\ NewId \notin later
  <2>1. box[m].order \in Nat
    BY <1>2 DEF TypeOK, Mutation
  <2>2. m \notin later
    BY <2>1 DEF LaterThan
  <2> QED
    BY <2>2, QueuedType DEF LaterThan
<1> HIDE DEF out, later, from
<1>5. DOMAIN box' = (DOMAIN box \ {m}) \cup {NewId}
  BY <1>1, RebasedType
<1>6. box'[NewId] = Again(m)
  BY <1>1, <1>3, <1>4 DEF Rebased
<1>7. ASSUME NEW n \in DOMAIN box \ {m}
      PROVE  /\ Alike(box'[n], box[n])
             /\ \/ box'[n].before = box[n].before
                \/ /\ n \in Queued(box[m].rec)
                   /\ \E T \in SUBSET (Queued(box[m].rec) \ {m}) : box'[n].before = Over(from, T, out)
  <2>1. /\ Alike(box'[n], out[n])
        /\ \/ box'[n].before = out[n].before
           \/ n \in later /\ \E T \in SUBSET later : box'[n].before = Over(from, T, out)
    BY <1>1, RebasedAlike
  <2> QED
    BY <1>3, <1>4, <2>1
<1>8. \E T \in SUBSET (Queued(box[m].rec) \ {m}) :
        copy' = [copy EXCEPT ![box[m].rec] = Over(from, T, out)]
  BY <1>1, <1>4
<1> QED
  BY <1>1, <1>3, <1>5, <1>6, <1>7, <1>8 DEF out, from, Reissued, Regained

LEMMA UserConserves ==
  ASSUME Typed, Conserved,
         \/ \E r \in Records, action \in Actions : Mutate(r, action)
         \/ \E m \in DOMAIN box : \/ AcceptMaster(m) \/ RetryWithLocal(m)
                                  \/ RetryMutation(m)
                                  \/ Discard(m) \/ DiscardQuarantined(m)
         \/ Acknowledge
  PROVE  Conserves
<1>1. \A q \in requests : Carried(q)
  BY DEF Carried
<1>2. Fresh => used' = used + 1 /\ NewId = used + 1 /\ NewId \notin DOMAIN box
  BY DEF Fresh, NewId, Conserved, Numbered, Typed, TypeOK
<1>3. ASSUME NEW m \in DOMAIN box, DOMAIN box' = DOMAIN box \ {m}, used' = used,
             UNCHANGED <<serverVars, requests, under>>, reply' \in {reply, None}, list' = list,
             \A n \in DOMAIN box' : Alike(box'[n], box[n]), dropped \subseteq dropped',
             \A e \in box[m].data : Accounted(e)'
      PROVE  Conserves
  <2>1. \A e \in Ids : Stored(e) => Stored(e)'
    BY <1>3 DEF Stored, serverVars
  <2> QED
    BY <1>1, <1>3, <2>1 DEF Conserves, Alike, serverVars
<1>4. ASSUME NEW m \in DOMAIN box, DOMAIN box' = (DOMAIN box \ {m}) \cup {NewId}, Fresh,
             UNCHANGED <<serverVars, requests, passVars, under, dropped>>,
             \A n \in DOMAIN box \ {m} : box'[n].data = box[n].data /\ box'[n].rec = box[n].rec,
             box[m].data \subseteq box'[NewId].data
      PROVE  Conserves
  <2>1. \A e \in Ids : Stored(e) => Stored(e)'
    BY <1>4 DEF Stored, serverVars
  <2>2. \A e \in box[m].data : Accounted(e)'
    BY <1>4 DEF Accounted
  <2> QED
    BY <1>1, <1>2, <1>4, <2>1, <2>2 DEF Conserves, serverVars, passVars
<1>5. ASSUME NEW r \in Records, NEW action \in Actions, Mutate(r, action)
      PROVE  Conserves
  <2>1. PICK n \in Nat : /\ Edit(r, action, n) \in Mutation
                         /\ box' = With(box, NewId, Edit(r, action, n))
    BY <1>5, MutateEdits DEF Typed
  <2>2. /\ DOMAIN box' = DOMAIN box \cup {NewId}
        /\ \A m \in DOMAIN box : box'[m] = box[m]
        /\ box'[NewId] = Edit(r, action, n)
    BY <1>2, <1>5, <2>1 DEF Mutate, With
  <2>3. Fresh /\ under' = [under EXCEPT ![NewId] = known]
        /\ UNCHANGED <<serverVars, requests, passVars, dropped>>
    BY <1>5 DEF Mutate
  <2>4. \A e \in Ids : e = NewId => Accounted(e)'
    <3>1. NewId \in box'[NewId].data
      BY <2>2 DEF Edit
    <3> QED
      BY <2>2, <3>1 DEF Accounted
  <2>5. \A e \in Ids : under'[e] # 0 => under[e] # 0 \/ Accounted(e)'
    <3>1. \A e \in Ids : e # NewId => under'[e] = under[e]
      BY <2>3 DEF Typed, TypeOK
    <3> QED
      BY <2>4, <3>1
  <2>6. \A e \in Ids : Stored(e) => Stored(e)'
    BY <2>3 DEF Stored, serverVars
  <2> QED
    BY <1>1, <1>2, <2>2, <2>3, <2>5, <2>6 DEF Conserves, serverVars, passVars
<1>6. ASSUME NEW m \in DOMAIN box, AcceptMaster(m) PROVE Conserves
  <2>1. /\ DOMAIN box' = DOMAIN box \ {m}
        /\ \A n \in DOMAIN box' : box'[n].data = box[n].data /\ box'[n].rec = box[n].rec
    <3>1. CASE box[m].master \in Doc /\ AcknowledgeIn(m, box[m].master)
      BY <1>6, <3>1, AcknowledgeInAlike DEF Alike, Typed
    <3>2. CASE \A n \in DOMAIN box' :
                  \/ box'[n] = box[n]
                  \/ box'[n] = [box[n] EXCEPT !.state = "conflict", !.master = Absent]
      <4>1. TypeOK /\ \A n \in DOMAIN box : box[n] \in Mutation
        BY DEF Typed, TypeOK
      <4>2. DOMAIN box' = DOMAIN box \ {m}
        BY <1>6, <4>1, AcceptMasterAlike
      <4>3. ASSUME NEW n \in DOMAIN box'
            PROVE  box'[n].data = box[n].data /\ box'[n].rec = box[n].rec
        <5>1. box[n] \in Mutation
          BY <4>1, <4>2
        <5>2. /\ [box[n] EXCEPT !.state = "conflict", !.master = Absent].data = box[n].data
              /\ [box[n] EXCEPT !.state = "conflict", !.master = Absent].rec = box[n].rec
          BY <5>1 DEF Mutation
        <5> QED
          BY <3>2, <5>2
      <4> QED
        BY <4>2, <4>3
    <3> QED
      BY <1>6, <3>1, <3>2, AcceptMasterAlike DEF Typed
  <2>2. /\ UNCHANGED <<serverVars, requests, under, used, list, reply>>
        /\ dropped' = dropped \cup box[m].data
    BY <1>6 DEF AcceptMaster, passVars, bounds
  <2>3. \A e \in box[m].data : Accounted(e)'
    BY <2>2 DEF Accounted
  <2>4. \A e \in Ids : Stored(e) => Stored(e)'
    BY <2>2 DEF Stored, serverVars
  <2> QED
    BY <1>1, <2>1, <2>2, <2>3, <2>4 DEF Conserves, serverVars
<1>7. ASSUME NEW m \in DOMAIN box, Discard(m) PROVE Conserves
  <2>1. DOMAIN box' = DOMAIN box \ {m} /\ \A n \in DOMAIN box' : Alike(box'[n], box[n])
    BY <1>7, DiscardAlike DEF Typed
  <2>2. /\ UNCHANGED <<serverVars, requests, under, used, list, reply>>
        /\ dropped' = dropped \cup box[m].data
    BY <1>7 DEF Discard, passVars, bounds
  <2>3. \A e \in box[m].data : Accounted(e)'
    BY <2>2 DEF Accounted
  <2> QED
    BY <1>3, <2>1, <2>2, <2>3
<1>8. ASSUME NEW m \in DOMAIN box, RetryWithLocal(m) PROVE Conserves
  <2>1. Fresh /\ box' = With(Without(m), NewId, AgainLocal(m))
    BY <1>8 DEF RetryWithLocal, AgainLocal
  <2>2. UNCHANGED <<serverVars, requests, passVars, under, dropped>>
    BY <1>8 DEF RetryWithLocal, pastVars
  <2>3. /\ DOMAIN box' = (DOMAIN box \ {m}) \cup {NewId}
        /\ \A n \in DOMAIN box \ {m} : box'[n] = box[n]
        /\ box'[NewId] = AgainLocal(m)
    BY <1>2, <2>1 DEF With, Without
  <2>4. box[m].data \subseteq AgainLocal(m).data
    BY DEF AgainLocal, Typed, TypeOK, Mutation
  <2> QED
    BY <1>4, <2>1, <2>2, <2>3, <2>4
<1>9. ASSUME NEW m \in DOMAIN box, RetryMutation(m) PROVE Conserves
  <2>1. Fresh /\ UNCHANGED <<serverVars, requests, passVars, under, dropped>>
    BY <1>9 DEF RetryMutation, pastVars
  <2>2. /\ DOMAIN box' = (DOMAIN box \ {m}) \cup {NewId}
        /\ box'[NewId] = Again(m)
        /\ \A n \in DOMAIN box \ {m} : Alike(box'[n], box[n])
    BY <1>2, <1>9, <2>1, RetryMutationAlike DEF Typed
  <2>3. Again(m).data = box[m].data
    BY DEF Again, Typed, TypeOK, Mutation
  <2> QED
    BY <1>4, <2>1, <2>2, <2>3 DEF Alike
<1>10. CASE Acknowledge
  <2>1. reply # None /\ reply.kind = "ok" /\ reply.doc \in Doc
    BY <1>10 DEF Acknowledge, Answer, Typed, AnswerOK
  <2>2. /\ UNCHANGED <<serverVars, requests, under, used, dropped, list>>
        /\ reply' = None
    BY <1>10 DEF Acknowledge, Onward, bounds, pastVars
  <2>3. CASE Settleable(reply.id)
    <3>1. reply.id \in DOMAIN box /\ AcknowledgeIn(reply.id, reply.doc)
      BY <1>10, <2>3 DEF Acknowledge, Settleable
    <3>2. /\ DOMAIN box' = DOMAIN box \ {reply.id}
          /\ \A n \in DOMAIN box' : Alike(box'[n], box[n])
      BY <2>1, <3>1, AcknowledgeInAlike DEF Typed
    <3>3. \A e \in box[reply.id].data : Stored(e)
      BY <2>1, <3>1 DEF Conserved, ReceiptsTrue
    <3>4. \A e \in box[reply.id].data : Accounted(e)'
      BY <2>2, <3>3 DEF Accounted, Stored, serverVars
    <3> QED
      BY <1>3, <2>2, <3>1, <3>2, <3>4
  <2>4. CASE ~Settleable(reply.id)
    <3>1. UNCHANGED box
      BY <1>10, <2>4 DEF Acknowledge
    <3> QED
      BY <1>1, <2>2, <3>1, QuietStep DEF serverVars
  <2> QED
    BY <2>3, <2>4
<1>11. ASSUME NEW m \in DOMAIN box, DiscardQuarantined(m) PROVE Conserves
  <2>1. /\ DOMAIN box' = DOMAIN box \ {m} /\ \A n \in DOMAIN box' : box'[n] = box[n]
        /\ dropped' = dropped \cup box[m].data
        /\ UNCHANGED <<serverVars, requests, under, used, list, reply>>
    BY <1>11, QuarantinedGone DEF Typed, passVars, bounds
  <2>2. \A n \in DOMAIN box' : Alike(box'[n], box[n])
    BY <2>1 DEF Alike
  <2>3. \A e \in box[m].data : Accounted(e)'
    BY <2>1 DEF Accounted
  <2> QED
    BY <1>3, <2>1, <2>2, <2>3
<1> QED
  BY <1>5, <1>6, <1>7, <1>8, <1>9, <1>10, <1>11

LEMMA NextConserved == Typed /\ Conserved /\ [Next]_vars => Conserved'
<1> SUFFICES ASSUME Typed, Conserved, [Next]_vars PROVE Conserved'
  OBVIOUS
<1>1. CASE PassMoves
  BY <1>1, PassConserves, UserConserves, ConservedByStep DEF PassMoves
<1>2. CASE Fails \/ SessionExpires \/ ChangePolicy \/ ResumeAuthorization
  BY <1>2, PassConserves, ConservedByStep
<1>3. CASE Serves \/ \E r \in Records : Write(r)
  BY <1>3, ServerConserves, ConservedByStep DEF Serves
<1>4. CASE \/ \E r \in Records, action \in Actions : Mutate(r, action)
           \/ \E m \in DOMAIN box : \/ AcceptMaster(m) \/ RetryWithLocal(m)
                                    \/ RetryMutation(m)
                                    \/ Discard(m) \/ DiscardQuarantined(m)
  BY <1>4, UserConserves, ConservedByStep
<1>5. CASE UNCHANGED vars
  BY <1>5 DEF vars, Conserved, Numbered, Faithful, ReceiptsTrue, NoEditLost, Stored, serverVars,
     storeVars, passVars, bounds, pastVars
<1> QED
  BY <1>1, <1>2, <1>3, <1>4, <1>5 DEF Next

LEMMA InitConserved == Init => Conserved
  BY DEF Init, Conserved, Numbered, Faithful, ReceiptsTrue, NoEditLost

\* Until the server has it or the user gives it up, an edit stays in the
\* outbox, whatever answers are lost, policies change or sessions expire.
THEOREM EditsKept == Spec => []NoEditLost
<1>1. Spec => [](Typed /\ Conserved)
  BY InitTyped, NextTyped, InitConserved, NextConserved, PTL DEF Spec
<1>2. Conserved => NoEditLost
  BY DEF Conserved
<1> QED
  BY <1>1, <1>2, PTL
-----------------------------------------------------------------------------
(* One call at a time, under the policy that the replica has accepted.     *)

LEMMA InitCalls == Init => Calls
  BY DEF Init, Calls, OneCall, Revisions

LEMMA BlockCalls ==
  ASSUME NEW b \in BOOLEAN, Block(b)
  PROVE  pc' = "idle" /\ reply' = None /\ known' = known
  BY DEF Block, Idle

\* Nothing is under way when the pass is not waiting, or has its answer.
LEMMA AllLate ==
  ASSUME Calls, pc # "wait" \/ reply # None
  PROVE  \A q \in requests : q.late
  BY DEF Calls, OneCall

LEMMA AbandonedLate ==
  ASSUME TypeOK, NEW q \in Abandoned
  PROVE  /\ q.late
         /\ \E p \in requests : q.id = p.id /\ q.data = p.data /\ q.rev = p.rev
<1>1. PICK p \in requests : q = [p EXCEPT !.late = TRUE]
  BY DEF Abandoned
<1>2. p \in Request
  BY DEF TypeOK
<1> QED
  BY <1>1, <1>2 DEF Request

LEMMA AnsweredCalls ==
  ASSUME Typed, Calls, NEW q \in requests, NEW d, NEW kind, Answered(q, kind, d),
         UNCHANGED <<pc, policy, known, revision>>
  PROVE  Calls'
<1>1. Revisions'
  BY DEF Answered, Calls, Revisions
<1>2. OneCall'
  <2>1. CASE q.late
    BY <2>1 DEF Answered, Calls, OneCall
  <2>2. CASE ~q.late
    <3>1. \A p \in requests' : p.late
      BY <2>2 DEF Answered, Calls, OneCall
    <3>2. pc' = "wait"
      BY <2>2 DEF Calls, OneCall
    <3> QED
      BY <3>1, <3>2 DEF OneCall
  <2> QED
    BY <2>1, <2>2
<1> QED
  BY <1>1, <1>2 DEF Calls

LEMMA ReplayCalls ==
  ASSUME Typed, Calls, NEW q \in requests, Replay(q), UNCHANGED <<pc, policy, known, revision>>
  PROVE  Calls'
<1>1. \/ Answered(q, "ok", doc[q.rec])
      \/ Answered(q, "conflict", None)
  BY DEF Replay
<1> QED
  BY <1>1, AnsweredCalls

LEMMA ServesCalls ==
  ASSUME Typed, Calls, Serves
  PROVE  Calls'
<1>1. ASSUME NEW q \in requests, Check(q) PROVE Calls'
  <2>1. UNCHANGED <<pc, policy, known, revision>>
    BY <1>1 DEF Check, serverVars, storeVars
  <2>2. CASE Replay(q)
    BY <2>1, <2>2, ReplayCalls
  <2>3. CASE \/ Answered(q, "forbidden", None) \/ Answered(q, "refused", None)
             \/ \E kind \in {"refused", "conflict"} : Answered(q, kind, doc[q.rec])
    BY <2>1, <2>3, AnsweredCalls
  <2>4. CASE /\ requests' = (requests \ {q}) \cup {[q EXCEPT !.checked = TRUE]}
             /\ UNCHANGED reply
    <3>1. /\ [q EXCEPT !.checked = TRUE].late = q.late
          /\ [q EXCEPT !.checked = TRUE].rev = q.rev
      BY DEF Typed, TypeOK, Request
    <3>2. Revisions'
      BY <2>1, <2>4, <3>1 DEF Calls, Revisions
    <3>3. OneCall'
      BY <2>1, <2>4, <3>1 DEF Calls, OneCall
    <3> QED
      BY <3>2, <3>3 DEF Calls
  <2> QED
    BY <1>1, <2>2, <2>3, <2>4 DEF Check
<1>2. ASSUME NEW q \in requests, Commit(q) PROVE Calls'
  <2>1. UNCHANGED <<pc, policy, known, revision>>
    BY <1>2 DEF Commit, storeVars
  <2>2. \/ Replay(q)
        \/ \E kind \in {"ok", "conflict"}, d \in {Merged(q), doc[q.rec]} : Answered(q, kind, d)
    BY <1>2 DEF Commit
  <2> QED
    BY <2>1, <2>2, ReplayCalls, AnsweredCalls
<1> QED
  BY <1>1, <1>2 DEF Serves

LEMMA NextCalls == Typed /\ Calls /\ [Next]_vars => Calls'
<1> SUFFICES ASSUME Typed, Calls, [Next]_vars PROVE Calls'
  OBVIOUS
<1> USE DEF serverVars, storeVars, bounds, pastVars
<1>1. policy \in Nat /\ known \in Nat /\ revision \in Nat
      /\ \A q \in requests : q.rev \in Nat
  BY DEF Typed, TypeOK, Request
<1>2. CASE FetchManifest
  BY <1>1, <1>2, AllLate DEF FetchManifest, Calls, OneCall, Revisions
<1>3. CASE AcceptPolicy
  <2>1. known' = revision /\ revision \in 1..policy /\ known <= revision
    BY <1>3 DEF AcceptPolicy, Calls, Revisions
  <2>2. /\ pc = "accept" /\ pc' = "refresh"
        /\ UNCHANGED <<policy, requests, revision, reply>>
    BY <1>3 DEF AcceptPolicy, Step
  <2>3. Revisions'
    BY <1>1, <2>1, <2>2 DEF Calls, Revisions
  <2>4. OneCall'
    BY <2>2, AllLate DEF Calls, OneCall
  <2> QED
    BY <2>3, <2>4 DEF Calls
<1>4. CASE RefreshManifest \/ ListOutbox \/ SkipMutation \/ BeginPull \/ Pull
  BY <1>4, AllLate DEF RefreshManifest, ListOutbox, SkipMutation, BeginPull, Pull, Step, Calls, OneCall,
     Revisions
<1>5. CASE Push
  <2>1. PICK m \in DOMAIN box : requests' = requests \cup {Asked(m)}
    BY <1>5, PushAsks DEF Typed
  <2>2. /\ pc = "next" /\ pc' = "wait" /\ reply = None
        /\ UNCHANGED <<revision, reply, policy, known>>
    BY <1>5 DEF Push, Calls, OneCall
  <2>3. \A q \in requests : q.late
    BY <2>2, AllLate
  <2>4. Asked(m).rev = known /\ revision = known
    BY <2>2 DEF Asked, Calls, Revisions
  <2>5. Revisions'
    BY <1>1, <2>1, <2>2, <2>4 DEF Calls, Revisions
  <2>6. OneCall'
    BY <2>1, <2>2, <2>3 DEF Calls, OneCall
  <2> QED
    BY <2>5, <2>6 DEF Calls
<1>6. CASE Acknowledge \/ Reject
  <2>1. /\ pc = "wait" /\ reply # None /\ pc' = "next" /\ reply' = None
        /\ UNCHANGED <<policy, known, revision, requests>>
    BY <1>6 DEF Acknowledge, Reject, Answer, Onward
  <2>2. \A q \in requests : q.late
    BY <2>1, AllLate
  <2> QED
    BY <2>1, <2>2 DEF Calls, OneCall, Revisions
<1>7. CASE Forbidden \/ SkipPull \/ PullForbidden
  <2>1. /\ pc' = "idle" /\ reply' = None
        /\ UNCHANGED <<policy, known, requests>>
    BY <1>7, BlockCalls DEF Forbidden, SkipPull, PullForbidden, Idle
  <2>2. \A q \in requests : q.late
    BY <1>7, AllLate DEF Forbidden, SkipPull, PullForbidden, Answer
  <2> QED
    BY <2>1, <2>2 DEF Calls, OneCall, Revisions
<1>8. CASE ApplyPull
  <2>1. /\ pc = "page" /\ pc' \in {"pull", "idle"} /\ reply' \in {reply, None}
        /\ pc' = "pull" => revision' = revision
        /\ UNCHANGED <<policy, known, requests>>
    <3>1. CASE page.more
      BY <1>8, <3>1 DEF ApplyPull
    <3>2. CASE ~page.more
      BY <1>8, <3>2 DEF ApplyPull, Idle
    <3> QED
      BY <3>1, <3>2
  <2>2. (\A q \in requests : q.late) /\ reply = None
    BY <2>1, AllLate DEF Calls, OneCall
  <2> QED
    BY <2>1, <2>2 DEF Calls, OneCall, Revisions
<1>9. CASE Fails \/ SessionExpires
  <2>1. /\ pc' = "idle" /\ reply' = None /\ requests' = Abandoned
        /\ UNCHANGED <<policy, known>>
    BY <1>9, BlockCalls DEF Fails, SessionExpires, Idle
  <2>2. \A q \in requests' : q.late /\ \E p \in requests : q.rev = p.rev
    BY <2>1, AbandonedLate DEF Typed
  <2> QED
    BY <2>1, <2>2 DEF Calls, OneCall, Revisions
<1>10. CASE Serves
  BY <1>10, ServesCalls
<1>11. CASE ChangePolicy
  <2>1. policy' = policy + 1 /\ UNCHANGED <<known, requests, revision, pc, reply>>
    BY <1>11 DEF ChangePolicy, passVars
  <2> QED
    BY <1>1, <2>1 DEF Calls, OneCall, Revisions
<1>12. CASE \/ \E r \in Records : Write(r)
            \/ \E r \in Records, action \in Actions : Mutate(r, action)
            \/ \E m \in DOMAIN box : \/ AcceptMaster(m) \/ RetryWithLocal(m)
                                     \/ RetryMutation(m)
                                     \/ Discard(m) \/ DiscardQuarantined(m)
            \/ ResumeAuthorization \/ UNCHANGED vars
  <2>1. UNCHANGED <<policy, known, requests, revision, pc, reply>>
    BY <1>12 DEF Write, Mutate, AcceptMaster, RetryWithLocal, RetryMutation, Discard,
       DiscardQuarantined, ResumeAuthorization, passVars, vars
  <2> QED
    BY <2>1 DEF Calls, OneCall, Revisions
<1> QED
  BY <1>2, <1>3, <1>4, <1>5, <1>6, <1>7, <1>8, <1>9, <1>10, <1>11, <1>12 DEF Next, PassMoves
-----------------------------------------------------------------------------
(* Edits are applied as they were made.                                    *)

LEMMA InitPoliced == Init => Policed
<1> SUFFICES ASSUME Init PROVE Policed
  OBVIOUS
<1>1. Made /\ AppliedAsMade
  BY DEF Init, Made, AppliedAsMade
<1>2. \A r \in Records : doc[r].has = {} /\ copy[r].has = {}
  BY DEF Init, Absent
<1>3. DOMAIN box = {} /\ reply = None /\ pc = "idle"
  BY DEF Init
<1>4. YoungIsOwn
  BY <1>2, <1>3 DEF YoungIsOwn, Own, Mine, Queued
<1> QED
  BY <1>1, <1>4 DEF Policed

LEMMA OverMade ==
  ASSUME NEW d, NEW out, NEW T, NEW k, \A e \in d.has : under[e] = k,
         \A n \in T : \A e \in out[n].data : under[e] = k
  PROVE  \A e \in Over(d, T, out).has : under[e] = k
  BY DEF Over

\* Steps that make and apply nothing.
LEMMA MadeStep ==
  ASSUME Policed, used \in Nat, used' \in {used, used + 1}, UNCHANGED <<under, known, applied>>,
         \A n \in DOMAIN box' : ~box'[n].quarantined =>
           \A e \in box'[n].data : under[e] = known,
         \A q \in requests' : \E p \in requests : q.data = p.data /\ q.rev = p.rev
  PROVE  Made' /\ AppliedAsMade'
<1>1. \A e \in Ids : under[e] # 0 => e <= used'
  <2>1. \A e \in Ids : e \in Int
    BY LocalSyncAssumption DEF Ids
  <2> QED
    BY <2>1 DEF Policed, Made
<1> QED
  BY <1>1 DEF Policed, Made, AppliedAsMade

LEMMA OwnStep ==
  ASSUME YoungIsOwn, \A r \in Records : doc'[r].ver = 0 => doc'[r].has = {},
         \A r \in Records : Young(r)' => Young(r),
         \A r \in Records : Own(r) /\ Young(r) => Own(r)'
  PROVE  YoungIsOwn'
  BY DEF YoungIsOwn

\* Steps that touch no document.
LEMMA PlainPoliced ==
  ASSUME Typed, Policed, UNCHANGED <<doc, copy, under, known, applied, used, box>>,
         \A q \in requests' : \E p \in requests : q.data = p.data /\ q.rev = p.rev,
         reply' \in {reply, None}, pc' = "page" => pc = "page" /\ page' = page
  PROVE  Policed'
<1>1. Made' /\ AppliedAsMade'
  BY MadeStep DEF Policed, Made, Typed, TypeOK
<1>2. ASSUME NEW r \in Records PROVE (Young(r)' => Young(r)) /\ (Own(r) => Own(r)')
  BY DEF Young, Own, Mine, Queued
<1>3. YoungIsOwn'
  BY <1>2, OwnStep DEF Policed, YoungIsOwn
<1> QED
  BY <1>1, <1>3 DEF Policed

LEMMA PassPoliced ==
  ASSUME Typed, Calls, Policed,
         \/ FetchManifest \/ ListOutbox \/ SkipMutation \/ SkipPull \/ BeginPull \/ Fails
         \/ ChangePolicy \/ ResumeAuthorization
  PROVE  Policed'
<1>1. UNCHANGED <<doc, copy, under, known, applied, used, box>>
  BY DEF FetchManifest, ListOutbox, SkipMutation, SkipPull, BeginPull, Fails, ChangePolicy,
     ResumeAuthorization, serverVars, storeVars, bounds, pastVars
<1>2. \A q \in requests' : \E p \in requests : q.data = p.data /\ q.rev = p.rev
  <2>1. requests' = requests \/ requests' = Abandoned
    BY DEF FetchManifest, ListOutbox, SkipMutation, SkipPull, BeginPull, Fails, ChangePolicy,
       ResumeAuthorization
  <2> QED
    BY <2>1, AbandonedLate DEF Typed
<1>3. reply' \in {reply, None} /\ (pc' = "page" => pc = "page" /\ page' = page)
  BY DEF FetchManifest, ListOutbox, SkipMutation, SkipPull, BeginPull, Fails, ChangePolicy,
     ResumeAuthorization, Idle, Step, passVars
<1> QED
  BY <1>1, <1>2, <1>3, PlainPoliced

\* Push asks for what was made under the policy of its pass.
LEMMA PushPoliced ==
  ASSUME Typed, Calls, Policed, Push
  PROVE  Policed'
<1>1. PICK m \in DOMAIN box : /\ ~box[m].quarantined
                              /\ requests' = requests \cup {Asked(m)}
  BY PushAsks DEF Typed
<1>2. \A e \in Asked(m).data : under[e] = Asked(m).rev
  <2>1. revision = known
    BY DEF Push, Calls, Revisions
  <2> QED
    BY <1>1, <2>1 DEF Asked, Policed, Made
<1>3. UNCHANGED <<doc, copy, under, known, applied, used, box, reply>> /\ pc' = "wait"
  BY DEF Push, serverVars, storeVars, bounds, pastVars
<1>4. Made' /\ AppliedAsMade'
  BY <1>1, <1>2, <1>3 DEF Policed, Made, AppliedAsMade
<1>5. ASSUME NEW r \in Records PROVE (Young(r)' => Young(r)) /\ (Own(r) => Own(r)')
  BY <1>3 DEF Young, Own, Mine, Queued
<1>6. YoungIsOwn'
  BY <1>3, <1>5, OwnStep DEF Policed, YoungIsOwn
<1> QED
  BY <1>4, <1>6 DEF Policed

\* An answer has the document of the server, or none.
LEMMA AnswerPoliced ==
  ASSUME Typed, Calls, Policed, NEW q \in requests, NEW d \in {None, doc[q.rec]}, NEW kind,
         Answered(q, kind, d),
         UNCHANGED <<doc, copy, under, known, applied, used, box, pc, page>>
  PROVE  Policed'
<1>1. Made' /\ AppliedAsMade'
  BY MadeStep DEF Answered, Policed, Made, Typed, TypeOK
<1>2. /\ reply' = reply \/ reply' = [id |-> q.id, rec |-> q.rec, kind |-> kind, doc |-> d]
      /\ ~q.late => pc = "wait"
      /\ ~q.late \/ reply' = reply
  BY DEF Answered, Calls, OneCall
<1>3. ASSUME NEW r \in Records PROVE Young(r)' => Young(r)
  <2>1. CASE reply' = reply
    BY <2>1 DEF Young, Queued
  <2>2. CASE reply' = [id |-> q.id, rec |-> q.rec, kind |-> kind, doc |-> d]
    <3>1. reply'.rec = r /\ reply'.doc = Absent => doc[r].ver = 0
      <4>1. None # Absent
        BY NoneIsNoDocument, AbsentType
      <4>2. doc[q.rec] = Absent => doc[q.rec].ver = 0
        BY DEF Absent
      <4> QED
        BY <2>2, <4>1, <4>2
    <3> QED
      BY <3>1 DEF Young, Queued
  <2> QED
    BY <1>2, <2>1, <2>2
<1>4. ASSUME NEW r \in Records, Own(r) PROVE Own(r)'
  <2>1. reply' # None /\ reply'.rec = r /\ reply'.doc # None => Mine(reply'.doc)
    BY <1>2, <1>4 DEF Own
  <2> QED
    BY <1>4, <2>1 DEF Own, Mine, Queued
<1>5. YoungIsOwn'
  BY <1>3, <1>4, OwnStep DEF Policed, YoungIsOwn
<1> QED
  BY <1>1, <1>5 DEF Policed

LEMMA CheckPoliced ==
  ASSUME Typed, Calls, Policed, NEW q \in requests, Check(q)
  PROVE  Policed'
<1>1. UNCHANGED <<doc, copy, under, known, applied, used, box, pc, page>>
  BY DEF Check, serverVars, storeVars, pastVars
<1>2. CASE \E kind \in {"ok", "conflict", "forbidden", "refused"}, d \in {None, doc[q.rec]} :
             Answered(q, kind, d)
  BY <1>1, <1>2, AnswerPoliced
<1>3. CASE /\ requests' = (requests \ {q}) \cup {[q EXCEPT !.checked = TRUE]}
           /\ UNCHANGED reply
  <2>1. /\ [q EXCEPT !.checked = TRUE].data = q.data
        /\ [q EXCEPT !.checked = TRUE].rev = q.rev
    BY DEF Typed, TypeOK, Request
  <2> QED
    BY <1>1, <1>3, <2>1, PlainPoliced
<1>4. Replay(q) => \E kind \in {"ok", "conflict"}, d \in {None, doc[q.rec]} : Answered(q, kind, d)
  BY DEF Replay
<1> QED
  BY <1>2, <1>3, <1>4 DEF Check

LEMMA CommitPoliced ==
  ASSUME Typed, Calls, Policed, NEW q \in requests, Commit(q)
  PROVE  Policed'
<1>1. UNCHANGED <<policy, copy, under, known, used, box, pc, page>>
  BY DEF Commit, storeVars, bounds
<1>2. CASE ~(Guarded(q) /\ q.id \notin DOMAIN receipt)
  <2>1. UNCHANGED <<doc, applied>>
    BY <1>2 DEF Commit
  <2>2. \E kind \in {"ok", "conflict"}, d \in {None, doc[q.rec]} : Answered(q, kind, d)
    BY <1>2 DEF Commit, Replay
  <2> QED
    BY <1>1, <2>1, <2>2, AnswerPoliced
<1>3. CASE Guarded(q) /\ q.id \notin DOMAIN receipt
  <2>1. /\ doc' = [doc EXCEPT ![q.rec] = Merged(q)]
        /\ applied' = [e \in Ids |-> IF e \in q.data THEN applied[e] \cup {policy} ELSE applied[e]]
        /\ Answered(q, "ok", Merged(q))
    BY <1>3 DEF Commit, Change
  <2>2. q.rev = policy /\ policy = known
    <3>1. q.rev = policy /\ q.rev \in 1..known /\ known <= policy
      BY <1>3 DEF Guarded, Calls, Revisions
    <3> QED
      BY <3>1 DEF Typed, TypeOK
  <2>3. \A e \in q.data : under[e] = known
    BY <2>2 DEF Policed, Made
  <2>4. q.rec \in Records /\ Merged(q) \in Doc /\ doc[q.rec].ver \in Nat
        /\ Merged(q).ver = doc[q.rec].ver + 1 /\ Merged(q).has = doc[q.rec].has \cup q.data
    BY MergedType DEF Typed, TypeOK, Merged, Request, Doc
  <2>5. \A x \in Records : doc'[x] = IF x = q.rec THEN Merged(q) ELSE doc[x]
    BY <2>1 DEF Typed, TypeOK
  <2>6. AppliedAsMade'
    <3>1. ASSUME NEW e \in Ids PROVE applied'[e] \subseteq {under[e]}
      BY <2>1, <2>2, <2>3 DEF Policed, AppliedAsMade
    <3> QED
      BY <1>1, <3>1 DEF AppliedAsMade
  <2>7. Made'
    <3>1. policy >= 1
      BY DEF Calls, Revisions
    <3>2. \A e \in Ids : \A v \in applied'[e] : v >= 1
      BY <2>1, <3>1 DEF Policed, Made
    <3>3. requests' \subseteq requests
      BY <2>1 DEF Answered
    <3> QED
      BY <1>1, <3>2, <3>3 DEF Policed, Made
  <2>8. \A r \in Records : doc'[r].ver = 0 => doc'[r].has = {}
    BY <2>4, <2>5 DEF Policed, YoungIsOwn
  <2>9. /\ reply' = reply \/ reply' = [id |-> q.id, rec |-> q.rec, kind |-> "ok", doc |-> Merged(q)]
    BY <2>1 DEF Answered
  <2>10. Merged(q) # Absent
    BY <2>4 DEF Absent
  <2>11. ASSUME NEW r \in Records, Young(r)' PROVE Young(r)
    <3>1. doc'[r].ver = 0 => doc[r].ver = 0
      BY <2>4, <2>5
    <3>2. reply' # None /\ reply'.rec = r /\ reply'.doc = Absent => reply' = reply
      BY <2>9, <2>10
    <3> QED
      BY <1>1, <2>11, <3>1, <3>2 DEF Young, Queued
  <2>12. ASSUME NEW r \in Records, Own(r) PROVE Own(r)'
    <3>1. \A e \in doc'[r].has : under[e] = known
      BY <2>3, <2>4, <2>5, <2>12 DEF Own, Mine
    <3>2. reply' # None /\ reply'.rec = r /\ reply'.doc # None =>
            \A e \in reply'.doc.has : under[e] = known
      <4>1. CASE reply' = reply
        BY <2>12, <4>1 DEF Own, Mine
      <4>2. CASE reply' = [id |-> q.id, rec |-> q.rec, kind |-> "ok", doc |-> Merged(q)]
        BY <2>3, <2>4, <2>12, <4>2 DEF Own, Mine
      <4> QED
        BY <2>9, <4>1, <4>2
    <3> QED
      BY <1>1, <2>12, <3>1, <3>2 DEF Own, Mine, Queued
  <2>13. YoungIsOwn'
    BY <2>8, <2>11, <2>12, OwnStep DEF Policed
  <2> QED
    BY <2>6, <2>7, <2>13 DEF Policed
<1> QED
  BY <1>2, <1>3

LEMMA WritePoliced ==
  ASSUME Typed, Policed, NEW r \in Records, Write(r)
  PROVE  Policed'
<1>1. UNCHANGED <<copy, under, known, applied, used, box, requests, reply, pc, page>>
  BY DEF Write, storeVars, passVars, pastVars
<1>2. PICK gone \in BOOLEAN : doc' = [doc EXCEPT ![r] = [doc[r] EXCEPT !.ver = @ + 1, !.gone = gone]]
  BY DEF Write, Change
<1>3. \A x \in Records : doc[x] \in Doc /\ doc[x].ver \in Nat
  BY DEF Typed, TypeOK, Doc
<1>4. \A x \in Records : /\ doc'[x].has = doc[x].has
                         /\ doc'[x].ver = IF x = r THEN doc[x].ver + 1 ELSE doc[x].ver
  BY <1>2, <1>3 DEF Typed, TypeOK, Doc
<1>5. Made' /\ AppliedAsMade'
  BY <1>1, MadeStep DEF Policed, Made, Typed, TypeOK
<1>6. \A x \in Records : doc'[x].ver = 0 => doc[x].ver = 0
  BY <1>3, <1>4
<1>7. ASSUME NEW x \in Records PROVE (Young(x)' => Young(x)) /\ (Own(x) => Own(x)')
  BY <1>1, <1>4, <1>6 DEF Young, Own, Mine, Queued
<1>8. YoungIsOwn'
  BY <1>4, <1>6, <1>7, OwnStep DEF Policed, YoungIsOwn
<1> QED
  BY <1>5, <1>8 DEF Policed

LEMMA PullPoliced ==
  ASSUME Typed, Policed, Pull
  PROVE  Policed'
<1>1. UNCHANGED <<doc, copy, under, known, applied, used, box, requests, reply>>
  BY DEF Pull, storeVars, bounds, pastVars
<1>2. \A r \in DOMAIN page'.docs : page'.docs[r] = doc[r]
  BY DEF Pull
<1>3. Made' /\ AppliedAsMade'
  BY <1>1, MadeStep DEF Policed, Made, Typed, TypeOK
<1>4. ASSUME NEW r \in Records PROVE (Young(r)' => Young(r)) /\ (Own(r) => Own(r)')
  BY <1>1, <1>2 DEF Young, Own, Mine, Queued
<1>5. YoungIsOwn'
  BY <1>1, <1>4, OwnStep DEF Policed, YoungIsOwn
<1> QED
  BY <1>3, <1>5 DEF Policed

\* What is not quarantined is as it was.
LEMMA QuarantineRest ==
  ASSUME TypeOK, NEW S, NEW m \in DOMAIN box, ~Quarantine(box, S)[m].quarantined
  PROVE  m \notin S /\ Quarantine(box, S)[m] = box[m]
<1>1. box[m] \in Mutation
  BY DEF TypeOK
<1>2. Quarantine(box, S)[m] =
        IF m \in S THEN [box[m] EXCEPT !.quarantined = TRUE, !.state = "error", !.master = None]
        ELSE box[m]
  BY DEF Quarantine
<1> QED
  BY <1>1, <1>2 DEF Mutation

LEMMA ApplyPullPoliced ==
  ASSUME Typed, Policed, ApplyPull
  PROVE  Policed'
<1> DEFINE taken == DOMAIN page.docs \ Protected
           S     == {m \in DOMAIN box : box[m].rec \in page.removed}
<1>1. /\ UNCHANGED <<doc, under, known, applied, used, requests>>
      /\ reply' \in {reply, None} /\ pc = "page" /\ pc' # "page"
  <2>1. CASE page.more
    BY <2>1 DEF ApplyPull, serverVars, bounds
  <2>2. CASE ~page.more
    BY <2>2 DEF ApplyPull, Idle, serverVars, bounds
  <2> QED
    BY <2>1, <2>2
<1>2. box' = Quarantine(box, S)
  BY DEF ApplyPull
<1>3. DOMAIN box' = DOMAIN box
      /\ \A m \in DOMAIN box' : ~box'[m].quarantined => box'[m] = box[m]
  <2> HIDE DEF S
  <2> QED
    BY <1>2, QuarantineType, QuarantineRest DEF Typed
<1>4. copy' = [r \in Records |-> CASE r \in page.removed -> Absent
                                   [] r \in taken        -> page.docs[r]
                                   [] OTHER              -> copy[r]]
  BY DEF ApplyPull
<1>5. ASSUME NEW r \in Records
      PROVE  \/ copy'[r] = Absent \/ copy'[r] = copy[r]
             \/ r \in DOMAIN page.docs /\ copy'[r] = page.docs[r]
  BY <1>4
<1>6. Made' /\ AppliedAsMade'
  <2>1. \A n \in DOMAIN box' : ~box'[n].quarantined => \A e \in box'[n].data : under[e] = known
    BY <1>3 DEF Policed, Made
  <2> QED
    BY <1>1, <2>1, MadeStep DEF Policed, Made, Typed, TypeOK
<1>7. ASSUME NEW r \in Records PROVE Queued(r)' \subseteq Queued(r)
  BY <1>3 DEF Queued
<1>8. ASSUME NEW r \in Records PROVE Young(r)' => Young(r)
  BY <1>1, <1>3, <1>7 DEF Young, Queued
<1>9. ASSUME NEW r \in Records, Own(r) PROVE Own(r)'
  <2>1. \A e \in copy'[r].has : under[e] = known
    BY <1>1, <1>5, <1>9 DEF Own, Mine, Absent
  <2> QED
    BY <1>1, <1>3, <1>9, <2>1 DEF Own, Mine, Queued
<1>10. YoungIsOwn'
  BY <1>1, <1>8, <1>9, OwnStep DEF Policed, YoungIsOwn
<1> QED
  BY <1>6, <1>10 DEF Policed

\* Under another policy nothing is queued or shown any more.
LEMMA AcceptPolicyPoliced ==
  ASSUME Typed, Calls, Policed, AcceptPolicy
  PROVE  Policed'
<1>1. /\ UNCHANGED <<doc, under, applied, used, requests, reply, page>>
      /\ reply = None /\ pc' = "refresh"
  BY DEF AcceptPolicy, Step, serverVars, bounds, pastVars, Calls, OneCall
<1>2. CASE known = revision
  <2>1. UNCHANGED <<copy, box, known>>
    BY <1>2 DEF AcceptPolicy, storeVars
  <2> QED
    BY <1>1, <2>1, PlainPoliced
<1>3. CASE known # revision
  <2>1. box' = Quarantine(box, DOMAIN box) /\ copy' = [r \in Records |-> Absent]
    BY <1>3 DEF AcceptPolicy
  <2>2. \A m \in DOMAIN box' : box'[m].quarantined
    <3>1. \A m \in DOMAIN box : box[m] \in Mutation
      BY DEF Typed, TypeOK
    <3> QED
      BY <2>1, <3>1 DEF Quarantine, Mutation
  <2>3. Made' /\ AppliedAsMade'
    BY <1>1, <2>2 DEF Policed, Made, AppliedAsMade
  <2>4. ASSUME NEW r \in Records, Young(r)' PROVE Own(r)'
    <3>1. doc'[r].ver = 0 /\ Queued(r)' = {}
      BY <1>1, <2>2, <2>4 DEF Young, Queued
    <3>2. doc'[r].has = {} /\ copy'[r].has = {}
      BY <1>1, <2>1, <3>1 DEF Policed, YoungIsOwn, Absent
    <3> QED
      BY <1>1, <3>1, <3>2 DEF Own, Mine
  <2>5. YoungIsOwn'
    BY <1>1, <2>4 DEF Policed, YoungIsOwn
  <2> QED
    BY <2>3, <2>5 DEF Policed
<1> QED
  BY <1>2, <1>3

LEMMA RefreshManifestPoliced ==
  ASSUME Typed, Calls, Policed, RefreshManifest
  PROVE  Policed'
<1> DEFINE Aside(r) == {m \in Queued(r) : box[m].snapshot # Absent}
<1>1. /\ UNCHANGED <<doc, under, known, applied, used, requests, reply, page>> /\ pc' = "list"
  BY DEF RefreshManifest, Step, serverVars, bounds, pastVars
<1>2. copy' = [r \in Records |-> IF Aside(r) = {} THEN copy[r]
                                 ELSE box[First(Aside(r))].snapshot]
  BY DEF RefreshManifest
<1>3. \A r \in Records : Aside(r) # {} => First(Aside(r)) \in Queued(r)
  BY QueuedType, FirstIsOne DEF Typed
<1>4. box' = [m \in DOMAIN box |-> IF box[m].quarantined THEN box[m]
                                   ELSE [box[m] EXCEPT !.snapshot = Absent]]
  BY DEF RefreshManifest
<1>5. DOMAIN box' = DOMAIN box
  BY <1>4
<1>6. ASSUME NEW m \in DOMAIN box
      PROVE  /\ box'[m].quarantined = box[m].quarantined /\ box'[m].data = box[m].data
             /\ box'[m].rec = box[m].rec /\ box'[m].before = box[m].before
             /\ box'[m].master = box[m].master
             /\ box'[m].snapshot \in {box[m].snapshot, Absent}
  <2>1. box[m] \in Mutation
    BY DEF Typed, TypeOK
  <2> QED
    BY <1>4, <2>1 DEF Mutation
<1>7. Made' /\ AppliedAsMade'
  <2>1. \A n \in DOMAIN box' : ~box'[n].quarantined => \A e \in box'[n].data : under[e] = known
    BY <1>5, <1>6 DEF Policed, Made
  <2> QED
    BY <1>1, <2>1, MadeStep DEF Typed, TypeOK
<1>8. ASSUME NEW r \in Records PROVE Queued(r)' = Queued(r)
  BY <1>5, <1>6 DEF Queued
<1>9. ASSUME NEW r \in Records PROVE Young(r)' => Young(r)
  BY <1>1, <1>6, <1>8 DEF Young, Queued
<1>10. ASSUME NEW r \in Records, Own(r) PROVE Own(r)'
  <2>1. \A e \in copy'[r].has : under[e] = known
    <3>1. copy'[r] = copy[r] \/ \E m \in Queued(r) : copy'[r] = box[m].snapshot
      <4> HIDE DEF Aside
      <4> QED
        BY <1>2, <1>3
    <3> QED
      BY <1>10, <3>1 DEF Own, Mine
  <2>2. \A m \in Queued(r) : m \in DOMAIN box
    BY DEF Queued
  <2>3. \A m \in Queued(r)' :
          /\ \A e \in box'[m].before.has : under[e] = known
          /\ \A e \in box'[m].snapshot.has : under[e] = known
          /\ box'[m].master # None => \A e \in box'[m].master.has : under[e] = known
    BY <1>6, <1>8, <1>10, <2>2 DEF Own, Mine, Absent
  <2> QED
    BY <1>1, <1>10, <2>1, <2>3 DEF Own, Mine
<1>11. YoungIsOwn'
  BY <1>1, <1>9, <1>10, OwnStep DEF Policed, YoungIsOwn
<1> QED
  BY <1>7, <1>11 DEF Policed

\* Documents that a mutation keeps.
Keeps(x) ==
  {x.before, x.snapshot} \cup (IF x.master = None THEN {} ELSE {x.master})

\* Steps that write to the outbox and to the copies.
LEMMA BoxStep ==
  ASSUME Typed, Policed, UNCHANGED <<doc, under, known, applied>>, used' \in {used, used + 1},
         \A q \in requests' : \E p \in requests : q.data = p.data /\ q.rev = p.rev,
         reply' \in {reply, None}, pc' = "page" => pc = "page" /\ page' = page,
         \A n \in DOMAIN box' : ~box'[n].quarantined =>
           \A e \in box'[n].data : under[e] = known,
         \A r \in Records : \A n \in Queued(r)' : box'[n].master = Absent => Young(r),
         \A r \in Records : Own(r) =>
           /\ \A e \in copy'[r].has : under[e] = known
           /\ \A n \in Queued(r)' : \A d \in Keeps(box'[n]) : \A e \in d.has : under[e] = known
  PROVE  Policed'
<1>1. Made' /\ AppliedAsMade'
  BY MadeStep DEF Typed, TypeOK
<1>2. ASSUME NEW r \in Records PROVE Young(r)' => Young(r)
  BY DEF Young
<1>3. ASSUME NEW r \in Records, Own(r) PROVE Own(r)'
  <2>1. \A n \in Queued(r)' :
          /\ \A e \in box'[n].before.has : under[e] = known
          /\ \A e \in box'[n].snapshot.has : under[e] = known
          /\ box'[n].master # None => \A e \in box'[n].master.has : under[e] = known
    BY <1>3 DEF Keeps
  <2> QED
    BY <1>3, <2>1 DEF Own, Mine
<1>4. YoungIsOwn'
  BY <1>2, <1>3, OwnStep DEF Policed, YoungIsOwn
<1> QED
  BY <1>1, <1>4 DEF Policed

LEMMA OwnKeeps ==
  ASSUME NEW r, Own(r), NEW n \in Queued(r)
  PROVE  \A d \in Keeps(box[n]) : \A e \in d.has : under[e] = known
  BY DEF Own, Mine, Keeps

LEMMA QueuedMade ==
  ASSUME Policed, NEW r, NEW n \in Queued(r)
  PROVE  n \in DOMAIN box /\ box[n].rec = r /\ ~box[n].quarantined
         /\ \A e \in box[n].data : under[e] = known
  BY DEF Policed, Made, Queued

LEMMA BlockPoliced ==
  ASSUME Typed, Policed, NEW b \in BOOLEAN, Block(b),
         UNCHANGED <<doc, under, applied, used>>,
         requests' = requests \/ requests' = Abandoned
  PROVE  Policed'
<1>1. ASSUME NEW m \in DOMAIN box
      PROVE  /\ box'[m].data = box[m].data /\ box'[m].rec = box[m].rec
             /\ ~box'[m].quarantined => ~box[m].quarantined
             /\ box'[m].before = box[m].before /\ box'[m].master = box[m].master
             /\ box'[m].snapshot \in {box[m].snapshot, copy[box[m].rec]}
  <2>1. box[m] \in Mutation
    BY DEF Typed, TypeOK
  <2>2. box'[m] = [box[m] EXCEPT
                     !.state = IF @ = "conflict" THEN @ ELSE "error",
                     !.quarantined = @ \/ (b /\ known # 0),
                     !.snapshot = IF copy[box[m].rec] = Absent THEN @ ELSE copy[box[m].rec]]
    BY DEF Block
  <2> QED
    BY <2>1, <2>2 DEF Mutation
<1>2. /\ DOMAIN box' = DOMAIN box /\ copy' = [r \in Records |-> Absent]
      /\ known' = known /\ reply' = None /\ pc' = "idle"
  BY DEF Block, Idle
<1>3. \A n \in DOMAIN box' : ~box'[n].quarantined => \A e \in box'[n].data : under[e] = known
  BY <1>1, <1>2 DEF Policed, Made
<1>4. ASSUME NEW r \in Records, NEW n \in Queued(r)'
      PROVE  n \in Queued(r) /\ n \in DOMAIN box /\ box[n].rec = r
  BY <1>1, <1>2 DEF Queued
<1>5. \A r \in Records : \A n \in Queued(r)' : box'[n].master = Absent => Young(r)
  BY <1>1, <1>4 DEF Young
<1>6. ASSUME NEW r \in Records, Own(r)
      PROVE  /\ \A e \in copy'[r].has : under[e] = known
             /\ \A n \in Queued(r)' : \A d \in Keeps(box'[n]) : \A e \in d.has : under[e] = known
  <2>1. \A e \in copy'[r].has : under[e] = known
    BY <1>2 DEF Absent
  <2>2. ASSUME NEW n \in Queued(r)'
        PROVE  \A d \in Keeps(box'[n]) : \A e \in d.has : under[e] = known
    <3>1. Keeps(box'[n]) \subseteq Keeps(box[n]) \cup {copy[r]}
      BY <1>1, <1>4 DEF Keeps
    <3>2. \A d \in Keeps(box[n]) : \A e \in d.has : under[e] = known
      BY <1>4, <1>6, OwnKeeps
    <3>3. \A e \in copy[r].has : under[e] = known
      BY <1>6 DEF Own, Mine
    <3> QED
      BY <3>1, <3>2, <3>3
  <2> QED
    BY <2>1, <2>2
<1>7. \A q \in requests' : \E p \in requests : q.data = p.data /\ q.rev = p.rev
  BY AbandonedLate DEF Typed
<1> QED
  BY <1>2, <1>3, <1>5, <1>6, <1>7, BoxStep

LEMMA EndPoliced ==
  ASSUME Typed, Policed, Forbidden \/ PullForbidden \/ SessionExpires
  PROVE  Policed'
<1>1. \E b \in BOOLEAN : Block(b)
  BY DEF Forbidden, PullForbidden, SessionExpires
<1>2. /\ UNCHANGED <<doc, under, applied, used>>
      /\ requests' = requests \/ requests' = Abandoned
  BY DEF Forbidden, PullForbidden, SessionExpires, serverVars, bounds, pastVars
<1> QED
  BY <1>1, <1>2, BlockPoliced

LEMMA AcknowledgeInPoliced ==
  ASSUME Typed, Policed, NEW m \in DOMAIN box, NEW d \in Doc, AcknowledgeIn(m, d),
         UNCHANGED <<doc, under, known, applied, used, requests>>,
         reply' \in {reply, None}, pc' = "page" => pc = "page" /\ page' = page,
         Own(box[m].rec) => \A e \in d.has : under[e] = known
  PROVE  Policed'
<1> DEFINE r    == box[m].rec
           rest == Queued(r) \ {m}
<1>0. TypeOK
  BY DEF Typed
<1>1. /\ DOMAIN box' = DOMAIN box \ {m}
      /\ \A n \in DOMAIN box' :
           /\ Alike(box'[n], box[n])
           /\ \/ box'[n].before = box[n].before
              \/ /\ n \in Queued(r)
                 /\ \E T \in SUBSET rest : box'[n].before = Over(d, T, Without(m))
           /\ n \in Queued(r) => box'[n].before = Over(d, Earlier(rest, n), Without(m))
           /\ n \notin Queued(r) => box'[n].before = box[n].before
  BY <1>0, AcknowledgeInAlike
<1>2. copy' = [copy EXCEPT ![r] = Over(d, rest, box)] /\ copy \in [Records -> Doc]
  BY DEF AcknowledgeIn, Typed, TypeOK
<1>3. \A n \in rest : Without(m)[n] = box[n]
  BY DEF Without, Queued
<1>4. \A n \in DOMAIN box' : ~box'[n].quarantined => \A e \in box'[n].data : under[e] = known
  BY <1>1 DEF Policed, Made, Alike
<1>5. ASSUME NEW x \in Records, NEW n \in Queued(x)'
      PROVE  n \in DOMAIN box' /\ n \in Queued(x) /\ Alike(box'[n], box[n])
  BY <1>1 DEF Queued, Alike
<1>6. \A x \in Records : \A n \in Queued(x)' : box'[n].master = Absent => Young(x)
  BY <1>5 DEF Young, Alike
<1>7. \A n \in rest : \A e \in box[n].data : under[e] = known
  BY QueuedMade
<1>8. ASSUME NEW x \in Records, Own(x)
      PROVE  /\ \A e \in copy'[x].has : under[e] = known
             /\ \A n \in Queued(x)' : \A c \in Keeps(box'[n]) : \A e \in c.has : under[e] = known
  <2>1. \A e \in copy'[x].has : under[e] = known
    <3>1. CASE x = r
      <4>1. copy'[x] = Over(d, rest, box)
        BY <1>2, <3>1
      <4>2. \A e \in Over(d, rest, box).has : under[e] = known
        <5> HIDE DEF rest
        <5> QED
          BY <1>7, <1>8, <3>1, OverMade
      <4> QED
        BY <4>1, <4>2
    <3>2. CASE x # r
      BY <1>2, <1>8, <3>2 DEF Own, Mine
    <3> QED
      BY <3>1, <3>2
  <2>2. ASSUME NEW n \in Queued(x)'
        PROVE  \A c \in Keeps(box'[n]) : \A e \in c.has : under[e] = known
    <3>1. n \in DOMAIN box' /\ n \in Queued(x) /\ Alike(box'[n], box[n])
      BY <1>5, <2>2
    <3>2. \A c \in Keeps(box[n]) : \A e \in c.has : under[e] = known
      BY <1>8, <3>1, OwnKeeps
    <3>3. CASE box'[n].before = box[n].before
      <4>1. Keeps(box'[n]) = Keeps(box[n])
        BY <3>1, <3>3 DEF Keeps, Alike
      <4> QED
        BY <3>2, <4>1
    <3>4. CASE n \in Queued(r) /\ \E T \in SUBSET rest : box'[n].before = Over(d, T, Without(m))
      <4>1. x = r
        BY <3>1, <3>4 DEF Queued
      <4>2. PICK T \in SUBSET rest : box'[n].before = Over(d, T, Without(m))
        BY <3>4
      <4>3. \A k \in T : \A e \in Without(m)[k].data : under[e] = known
        BY <1>3, <1>7
      <4>4. \A e \in box'[n].before.has : under[e] = known
        BY <1>8, <4>1, <4>2, <4>3, OverMade
      <4>5. Keeps(box'[n]) \subseteq Keeps(box[n]) \cup {box'[n].before}
        BY <3>1 DEF Keeps, Alike
      <4> QED
        BY <3>2, <4>4, <4>5
    <3> QED
      BY <1>1, <3>1, <3>3, <3>4
  <2> QED
    BY <2>1, <2>2
<1>9. \A q \in requests' : \E p \in requests : q.data = p.data /\ q.rev = p.rev
  OBVIOUS
<1> QED
  BY <1>4, <1>6, <1>8, <1>9, BoxStep

LEMMA AcknowledgePoliced ==
  ASSUME Typed, Conserved, Policed, Acknowledge
  PROVE  Policed'
<1>1. /\ UNCHANGED <<doc, under, known, applied, used, requests>> /\ reply' = None /\ pc' = "next"
  BY DEF Acknowledge, Onward, serverVars, bounds, pastVars
<1>2. reply # None /\ reply.doc \in Doc
  BY DEF Acknowledge, Answer, Typed, AnswerOK
<1>3. CASE Settleable(reply.id)
  <2>1. reply.id \in DOMAIN box /\ AcknowledgeIn(reply.id, reply.doc)
    BY <1>3 DEF Acknowledge, Settleable
  <2>2. box[reply.id].rec = reply.rec
    BY <1>2, <2>1 DEF Conserved, Faithful
  <2>3. Own(box[reply.id].rec) => \A e \in reply.doc.has : under[e] = known
    <3>1. reply.doc # None
      BY <1>2, NoneIsNoDocument
    <3> QED
      BY <1>2, <2>2, <3>1 DEF Own, Mine
  <2> QED
    BY <1>1, <1>2, <2>1, <2>3, AcknowledgeInPoliced
<1>4. CASE ~Settleable(reply.id)
  <2>1. UNCHANGED <<box, copy>>
    BY <1>4 DEF Acknowledge
  <2> QED
    BY <1>1, <2>1, PlainPoliced
<1> QED
  BY <1>3, <1>4

LEMMA RejectPoliced ==
  ASSUME Typed, Conserved, Policed, Reject
  PROVE  Policed'
<1>1. /\ UNCHANGED <<doc, copy, under, known, applied, used, requests>>
      /\ reply' = None /\ pc' = "next"
  BY DEF Reject, Onward, serverVars, bounds, pastVars
<1>2. reply # None /\ reply.doc \in Doc \cup {None} /\ reply.rec \in Records
  BY DEF Reject, Answer, Typed, AnswerOK
<1>3. CASE Settleable(reply.id)
  <2> DEFINE m == reply.id
  <2>1. m \in DOMAIN box /\ box[m].rec = reply.rec
    BY <1>2, <1>3 DEF Settleable, Conserved, Faithful
  <2>2. box' = [box EXCEPT ![m].state  = Verdict(reply.kind),
                           ![m].master = IF reply.kind = "conflict" THEN reply.doc ELSE @]
    BY <1>3 DEF Reject
  <2>3. DOMAIN box' = DOMAIN box
    BY <2>2
  <2>4. ASSUME NEW n \in DOMAIN box
        PROVE  /\ box'[n].data = box[n].data /\ box'[n].rec = box[n].rec
               /\ box'[n].quarantined = box[n].quarantined
               /\ box'[n].before = box[n].before /\ box'[n].snapshot = box[n].snapshot
               /\ \/ box'[n].master = box[n].master
                  \/ n = m /\ box'[n].master = reply.doc
    <3>1. box[n] \in Mutation
      BY DEF Typed, TypeOK
    <3> HIDE DEF m
    <3> QED
      BY <2>2, <3>1 DEF Mutation
  <2>5. \A n \in DOMAIN box' : ~box'[n].quarantined => \A e \in box'[n].data : under[e] = known
    BY <2>3, <2>4 DEF Policed, Made
  <2>6. ASSUME NEW r \in Records, NEW n \in Queued(r)'
        PROVE  n \in DOMAIN box /\ n \in Queued(r) /\ box[n].rec = r
    BY <2>3, <2>4 DEF Queued
  <2>7. ASSUME NEW r \in Records, NEW n \in Queued(r)', box'[n].master = Absent
        PROVE  Young(r)
    <3>1. CASE box'[n].master = box[n].master
      BY <2>6, <2>7, <3>1 DEF Young
    <3>2. CASE n = m /\ box'[n].master = reply.doc
      BY <1>2, <2>1, <2>6, <2>7, <3>2 DEF Young
    <3> QED
      BY <2>4, <2>6, <3>1, <3>2
  <2>8. ASSUME NEW r \in Records, Own(r)
        PROVE  /\ \A e \in copy'[r].has : under[e] = known
               /\ \A n \in Queued(r)' : \A d \in Keeps(box'[n]) : \A e \in d.has : under[e] = known
    <3>1. \A e \in copy'[r].has : under[e] = known
      BY <1>1, <2>8 DEF Own, Mine
    <3>2. ASSUME NEW n \in Queued(r)'
          PROVE  \A d \in Keeps(box'[n]) : \A e \in d.has : under[e] = known
      <4>1. n \in DOMAIN box /\ n \in Queued(r) /\ box[n].rec = r
        BY <2>6
      <4>2. \A d \in Keeps(box[n]) : \A e \in d.has : under[e] = known
        BY <2>8, <4>1, OwnKeeps
      <4>3. CASE box'[n].master = box[n].master
        BY <2>4, <4>1, <4>2, <4>3 DEF Keeps
      <4>4. CASE n = m /\ box'[n].master = reply.doc
        <5>1. reply.doc # None => \A e \in reply.doc.has : under[e] = known
          BY <1>2, <2>1, <2>8, <4>1, <4>4 DEF Own, Mine
        <5>2. Keeps(box'[n]) \subseteq Keeps(box[n]) \cup (IF reply.doc = None THEN {} ELSE {reply.doc})
          BY <2>4, <4>1, <4>4 DEF Keeps
        <5> QED
          BY <4>2, <5>1, <5>2
      <4> QED
        BY <2>4, <4>1, <4>3, <4>4
    <3> QED
      BY <3>1, <3>2
  <2>9. \A q \in requests' : \E p \in requests : q.data = p.data /\ q.rev = p.rev
    BY <1>1
  <2> QED
    BY <1>1, <2>5, <2>7, <2>8, <2>9, BoxStep
<1>4. CASE ~Settleable(reply.id)
  <2>1. UNCHANGED box
    BY <1>4 DEF Reject
  <2> QED
    BY <1>1, <2>1, PlainPoliced
<1> QED
  BY <1>3, <1>4

LEMMA AcceptMasterPoliced ==
  ASSUME Typed, Policed, NEW m, AcceptMaster(m)
  PROVE  Policed'
<1> DEFINE r == box[m].rec
<1>1. /\ m \in DOMAIN box /\ r \in Records /\ m \in Queued(r)
      /\ box[m].master \in Doc /\ box[m].master # None
  BY ResolvedType DEF AcceptMaster, Typed
<1>2. UNCHANGED <<doc, under, known, applied, used, requests, reply, pc, page>>
  BY DEF AcceptMaster, serverVars, passVars, bounds
<1>3. CASE AcknowledgeIn(m, box[m].master)
  <2>1. Own(r) => \A e \in box[m].master.has : under[e] = known
    BY <1>1 DEF Own, Mine
  <2> QED
    BY <1>1, <1>2, <1>3, <2>1, AcknowledgeInPoliced
<1>4. CASE /\ box[m].master = Absent
           /\ copy' = [copy EXCEPT ![r] = Absent] \/ UNCHANGED copy
           /\ \A n \in DOMAIN box' :
                \/ box'[n] = box[n]
                \/ /\ n \in Queued(r) \ {m}
                   /\ box'[n] = [box[n] EXCEPT !.state = "conflict", !.master = Absent]
  <2>1. DOMAIN box' = DOMAIN box \ {m}
    BY AcceptMasterAlike DEF Typed
  <2>2. ASSUME NEW n \in DOMAIN box'
        PROVE  /\ n \in DOMAIN box
               /\ box'[n].data = box[n].data /\ box'[n].rec = box[n].rec
               /\ box'[n].quarantined = box[n].quarantined
               /\ box'[n].before = box[n].before /\ box'[n].snapshot = box[n].snapshot
               /\ \/ box'[n].master = box[n].master
                  \/ box'[n].master = Absent /\ box[n].rec = r
    <3>1. n \in DOMAIN box /\ box[n] \in Mutation
      BY <2>1 DEF Typed, TypeOK
    <3>2. n \in Queued(r) => box[n].rec = r
      BY DEF Queued
    <3>3. CASE box'[n] = box[n]
      BY <3>1, <3>3
    <3>4. CASE /\ n \in Queued(r)
               /\ box'[n] = [box[n] EXCEPT !.state = "conflict", !.master = Absent]
      BY <3>1, <3>2, <3>4 DEF Mutation
    <3> QED
      BY <1>4, <3>3, <3>4
  <2>3. \A n \in DOMAIN box' : ~box'[n].quarantined => \A e \in box'[n].data : under[e] = known
    BY <2>2 DEF Policed, Made
  <2>4. ASSUME NEW x \in Records, NEW n \in Queued(x)'
        PROVE  n \in DOMAIN box' /\ n \in Queued(x) /\ box[n].rec = x
    BY <2>2 DEF Queued
  <2>5. ASSUME NEW x \in Records, NEW n \in Queued(x)', box'[n].master = Absent
        PROVE  Young(x)
    <3>1. n \in Queued(x) /\ box[n].rec = x
          /\ (box'[n].master = box[n].master \/ box[n].rec = r)
      BY <2>2, <2>4
    <3>2. CASE box'[n].master = box[n].master
      BY <2>5, <3>1, <3>2 DEF Young
    <3>3. CASE box[n].rec = r
      BY <1>1, <1>4, <3>1, <3>3 DEF Young
    <3> QED
      BY <3>1, <3>2, <3>3
  <2>6. ASSUME NEW x \in Records, Own(x)
        PROVE  /\ \A e \in copy'[x].has : under[e] = known
               /\ \A n \in Queued(x)' : \A d \in Keeps(box'[n]) : \A e \in d.has : under[e] = known
    <3>1. \A e \in copy'[x].has : under[e] = known
      <4>1. copy'[x] \in {copy[x], Absent}
        BY <1>4 DEF Typed, TypeOK
      <4> QED
        BY <2>6, <4>1 DEF Own, Mine, Absent
    <3>2. ASSUME NEW n \in Queued(x)'
          PROVE  \A d \in Keeps(box'[n]) : \A e \in d.has : under[e] = known
      <4>1. \A d \in Keeps(box[n]) : \A e \in d.has : under[e] = known
        BY <2>4, <2>6, OwnKeeps
      <4>2. Keeps(box'[n]) \subseteq Keeps(box[n]) \cup {Absent}
        BY <2>2, <2>4 DEF Keeps
      <4> QED
        BY <4>1, <4>2 DEF Absent
    <3> QED
      BY <3>1, <3>2
  <2>7. \A q \in requests' : \E p \in requests : q.data = p.data /\ q.rev = p.rev
    BY <1>2
  <2> QED
    BY <1>2, <2>3, <2>5, <2>6, <2>7, BoxStep
<1> QED
  BY <1>3, <1>4, AcceptMasterAlike DEF Typed

LEMMA DiscardPoliced ==
  ASSUME Typed, Policed, NEW m, Discard(m)
  PROVE  Policed'
<1> DEFINE r    == box[m].rec
           d    == box[m].before
           rest == Queued(r) \ {m}
<1>1. m \in DOMAIN box /\ r \in Records /\ m \in Queued(r)
  BY ResolvedType DEF Discard, Typed
<1>2. UNCHANGED <<doc, under, known, applied, used, requests, reply, pc, page>>
  BY DEF Discard, serverVars, passVars, bounds
<1>3. /\ DOMAIN box' = DOMAIN box \ {m}
      /\ \A n \in DOMAIN box' :
           /\ Alike(box'[n], box[n])
           /\ \/ box'[n].before = box[n].before
              \/ n \in Queued(r) /\ \E T \in SUBSET rest : box'[n].before = Over(d, T, Without(m))
  BY DiscardAlike DEF Typed
<1>4. copy' = [copy EXCEPT ![r] = IF listed THEN Over(d, rest, box) ELSE Absent]
      /\ copy \in [Records -> Doc]
  BY DEF Discard, Typed, TypeOK
<1>5. \A n \in rest : Without(m)[n] = box[n]
  BY DEF Without, Queued
<1>6. \A n \in DOMAIN box' : ~box'[n].quarantined => \A e \in box'[n].data : under[e] = known
  BY <1>3 DEF Policed, Made, Alike
<1>7. ASSUME NEW x \in Records, NEW n \in Queued(x)'
      PROVE  n \in DOMAIN box' /\ n \in Queued(x) /\ Alike(box'[n], box[n])
  BY <1>3 DEF Queued, Alike
<1>8. \A x \in Records : \A n \in Queued(x)' : box'[n].master = Absent => Young(x)
  BY <1>7 DEF Young, Alike
<1>9. \A n \in rest : \A e \in box[n].data : under[e] = known
  BY QueuedMade
<1>10. ASSUME NEW x \in Records, Own(x)
       PROVE  /\ \A e \in copy'[x].has : under[e] = known
              /\ \A n \in Queued(x)' : \A c \in Keeps(box'[n]) : \A e \in c.has : under[e] = known
  <2>1. x = r => \A e \in d.has : under[e] = known
    BY <1>1, <1>10 DEF Own, Mine
  <2>2. \A e \in copy'[x].has : under[e] = known
    <3>1. CASE x = r
      <4>1. \A e \in Over(d, rest, box).has : under[e] = known
        <5> HIDE DEF rest, d
        <5> QED
          BY <1>9, <2>1, <3>1, OverMade
      <4>2. copy'[x] \in {Over(d, rest, box), Absent}
        BY <1>4, <3>1
      <4> QED
        BY <4>1, <4>2 DEF Absent
    <3>2. CASE x # r
      BY <1>4, <1>10, <3>2 DEF Own, Mine
    <3> QED
      BY <3>1, <3>2
  <2>3. ASSUME NEW n \in Queued(x)'
        PROVE  \A c \in Keeps(box'[n]) : \A e \in c.has : under[e] = known
    <3>1. n \in DOMAIN box' /\ n \in Queued(x) /\ Alike(box'[n], box[n])
      BY <1>7, <2>3
    <3>2. \A c \in Keeps(box[n]) : \A e \in c.has : under[e] = known
      BY <1>10, <3>1, OwnKeeps
    <3>3. CASE box'[n].before = box[n].before
      <4>1. Keeps(box'[n]) = Keeps(box[n])
        BY <3>1, <3>3 DEF Keeps, Alike
      <4> QED
        BY <3>2, <4>1
    <3>4. CASE n \in Queued(r) /\ \E T \in SUBSET rest : box'[n].before = Over(d, T, Without(m))
      <4>1. x = r
        BY <3>1, <3>4 DEF Queued
      <4>2. PICK T \in SUBSET rest : box'[n].before = Over(d, T, Without(m))
        BY <3>4
      <4>3. \A k \in T : \A e \in Without(m)[k].data : under[e] = known
        BY <1>5, <1>9
      <4>4. \A e \in box'[n].before.has : under[e] = known
        <5> HIDE DEF d
        <5> QED
          BY <2>1, <4>1, <4>2, <4>3, OverMade
      <4>5. Keeps(box'[n]) \subseteq Keeps(box[n]) \cup {box'[n].before}
        BY <3>1 DEF Keeps, Alike
      <4> QED
        BY <3>2, <4>4, <4>5
    <3> QED
      BY <1>3, <3>1, <3>3, <3>4
  <2> QED
    BY <2>2, <2>3
<1>11. \A q \in requests' : \E p \in requests : q.data = p.data /\ q.rev = p.rev
  BY <1>2
<1> QED
  BY <1>2, <1>6, <1>8, <1>10, <1>11, BoxStep

LEMMA FreshNew ==
  ASSUME Typed, Conserved, Fresh
  PROVE  NewId = used + 1 /\ used' = used + 1 /\ NewId \notin DOMAIN box /\ NewId \in Ids
<1>1. NewId = used + 1 /\ used' = used + 1 /\ NewId \in Ids
  BY FreshType DEF Typed
<1>2. NewId \notin DOMAIN box
  BY <1>1 DEF Conserved, Numbered, Typed, TypeOK
<1> QED
  BY <1>1, <1>2

\* Everything that is shown may be sent as one creation.
LEMMA RetryWithLocalPoliced ==
  ASSUME Typed, Conserved, Policed, NEW m, RetryWithLocal(m)
  PROVE  Policed'
<1> DEFINE r == box[m].rec
<1>1. /\ m \in DOMAIN box /\ r \in Records /\ m \in Queued(r) /\ box[m] \in Mutation
      /\ ~box[m].quarantined
  BY ResolvedType DEF RetryWithLocal, Typed
<1>2. /\ UNCHANGED <<doc, copy, under, known, applied, requests, reply, pc, page>>
      /\ used' = used + 1 /\ NewId \notin DOMAIN box
  BY FreshNew DEF RetryWithLocal, serverVars, passVars, pastVars
<1>3. box' = With(Without(m), NewId, AgainLocal(m))
  BY DEF RetryWithLocal, AgainLocal
<1>4. /\ DOMAIN box' = (DOMAIN box \ {m}) \cup {NewId}
      /\ box'[NewId] = AgainLocal(m)
      /\ \A n \in DOMAIN box \ {m} : box'[n] = box[n]
  BY <1>2, <1>3 DEF With, Without
<1>5. /\ AgainLocal(m).rec = r /\ AgainLocal(m).quarantined = box[m].quarantined
      /\ AgainLocal(m).before = box[m].before /\ AgainLocal(m).snapshot = box[m].snapshot
      /\ AgainLocal(m).master = None
      /\ AgainLocal(m).data = IF box[m].master = Absent THEN copy[r].has \cup box[m].data
                              ELSE box[m].data
  BY <1>1 DEF AgainLocal, Mutation
<1>6. \A e \in AgainLocal(m).data : under[e] = known
  <2>1. \A e \in box[m].data : under[e] = known
    BY <1>1, QueuedMade
  <2>2. box[m].master = Absent => \A e \in copy[r].has : under[e] = known
    BY <1>1 DEF Policed, YoungIsOwn, Young, Own, Mine
  <2> QED
    BY <1>5, <2>1, <2>2
<1>7. \A n \in DOMAIN box' : ~box'[n].quarantined => \A e \in box'[n].data : under[e] = known
  <2>1. \A n \in DOMAIN box : ~box[n].quarantined => \A e \in box[n].data : under[e] = known
    BY DEF Policed, Made
  <2> QED
    BY <1>4, <1>6, <2>1
<1>8. ASSUME NEW x \in Records, NEW n \in Queued(x)'
      PROVE  \/ n \in Queued(x) /\ box'[n] = box[n]
             \/ n = NewId /\ x = r
  <2>1. n \in DOMAIN box' /\ box'[n].rec = x /\ ~box'[n].quarantined
    BY <1>8 DEF Queued
  <2>2. CASE n = NewId
    BY <1>4, <1>5, <2>1, <2>2
  <2>3. CASE n # NewId
    BY <1>4, <2>1, <2>3 DEF Queued
  <2> QED
    BY <2>2, <2>3
<1>9. ASSUME NEW x \in Records, NEW n \in Queued(x)', box'[n].master = Absent PROVE Young(x)
  <2>1. None # Absent
    BY NoneIsNoDocument, AbsentType
  <2>2. n \in Queued(x) /\ box'[n] = box[n]
    BY <1>4, <1>5, <1>8, <1>9, <2>1
  <2> QED
    BY <1>9, <2>2 DEF Young
<1>10. ASSUME NEW x \in Records, Own(x)
       PROVE  /\ \A e \in copy'[x].has : under[e] = known
              /\ \A n \in Queued(x)' : \A c \in Keeps(box'[n]) : \A e \in c.has : under[e] = known
  <2>1. \A e \in copy'[x].has : under[e] = known
    BY <1>2, <1>10 DEF Own, Mine
  <2>2. ASSUME NEW n \in Queued(x)'
        PROVE  \A c \in Keeps(box'[n]) : \A e \in c.has : under[e] = known
    <3>1. CASE n \in Queued(x) /\ box'[n] = box[n]
      BY <1>10, <3>1, OwnKeeps
    <3>2. CASE n = NewId /\ x = r
      <4>1. Keeps(box'[n]) \subseteq Keeps(box[m])
        BY <1>4, <1>5, <3>2 DEF Keeps
      <4>2. \A c \in Keeps(box[m]) : \A e \in c.has : under[e] = known
        BY <1>1, <1>10, <3>2, OwnKeeps
      <4> QED
        BY <4>1, <4>2
    <3> QED
      BY <1>8, <3>1, <3>2
  <2> QED
    BY <2>1, <2>2
<1>11. \A q \in requests' : \E p \in requests : q.data = p.data /\ q.rev = p.rev
  BY <1>2
<1> QED
  BY <1>2, <1>7, <1>9, <1>10, <1>11, BoxStep

LEMMA RetryMutationPoliced ==
  ASSUME Typed, Conserved, Policed, NEW m, RetryMutation(m)
  PROVE  Policed'
<1> DEFINE r    == box[m].rec
           out  == With(Without(m), NewId, Again(m))
           from == Over(box[m].before, {NewId}, out)
           rest == Queued(r) \ {m}
<1>1. /\ m \in DOMAIN box /\ r \in Records /\ m \in Queued(r) /\ box[m] \in Mutation
      /\ ~box[m].quarantined
  BY ResolvedType DEF RetryMutation, Typed
<1>2. /\ UNCHANGED <<doc, under, known, applied, requests, reply, pc, page>>
      /\ used' = used + 1 /\ NewId \notin DOMAIN box
  BY FreshNew DEF RetryMutation, serverVars, passVars, pastVars
<1>3. /\ DOMAIN box' = (DOMAIN box \ {m}) \cup {NewId}
      /\ out[NewId] = Again(m) /\ box'[NewId] = Again(m)
      /\ \A n \in DOMAIN box \ {m} : out[n] = box[n]
      /\ \A n \in DOMAIN box \ {m} :
           /\ Alike(box'[n], box[n])
           /\ \/ box'[n].before = box[n].before
              \/ n \in Queued(r) /\ \E T \in SUBSET rest : box'[n].before = Over(from, T, out)
      /\ \E T \in SUBSET rest : copy' = [copy EXCEPT ![r] = Over(from, T, out)]
  BY <1>2, RetryMutationAlike DEF Typed
<1>4. /\ Again(m).rec = r /\ Again(m).quarantined = box[m].quarantined
      /\ Again(m).before = box[m].before /\ Again(m).snapshot = box[m].snapshot
      /\ Again(m).master = None /\ Again(m).data = box[m].data
  BY <1>1 DEF Again, Mutation
<1>5. \A e \in box[m].data : under[e] = known
  BY <1>1, QueuedMade
<1>6. \A n \in DOMAIN box' : ~box'[n].quarantined => \A e \in box'[n].data : under[e] = known
  <2>1. \A n \in DOMAIN box : ~box[n].quarantined => \A e \in box[n].data : under[e] = known
    BY DEF Policed, Made
  <2> HIDE DEF out, from
  <2> QED
    BY <1>3, <1>4, <1>5, <2>1 DEF Alike
<1>7. \A n \in rest : \A e \in out[n].data : under[e] = known
  <2>1. \A n \in rest : n \in DOMAIN box \ {m} /\ \A e \in box[n].data : under[e] = known
    BY QueuedMade
  <2> HIDE DEF out
  <2> QED
    BY <1>3, <2>1
<1>8. ASSUME NEW x \in Records, NEW n \in Queued(x)'
      PROVE  \/ n \in Queued(x) /\ n \in DOMAIN box \ {m} /\ Alike(box'[n], box[n])
             \/ n = NewId /\ x = r /\ box'[n] = Again(m)
  <2>1. n \in DOMAIN box' /\ box'[n].rec = x /\ ~box'[n].quarantined
    BY <1>8 DEF Queued
  <2>2. CASE n = NewId
    BY <1>3, <1>4, <2>1, <2>2
  <2>3. CASE n # NewId
    BY <1>3, <2>1, <2>3 DEF Queued, Alike
  <2> QED
    BY <2>2, <2>3
<1>9. ASSUME NEW x \in Records, NEW n \in Queued(x)', box'[n].master = Absent PROVE Young(x)
  <2>1. None # Absent
    BY NoneIsNoDocument, AbsentType
  <2>2. n \in Queued(x) /\ box[n].master = Absent
    BY <1>4, <1>8, <1>9, <2>1 DEF Alike
  <2> QED
    BY <2>2 DEF Young
<1>10. ASSUME NEW x \in Records, Own(x)
       PROVE  /\ \A e \in copy'[x].has : under[e] = known
              /\ \A n \in Queued(x)' : \A c \in Keeps(box'[n]) : \A e \in c.has : under[e] = known
  <2>1. x = r => \A e \in from.has : under[e] = known
    <3>1. x = r => \A e \in box[m].before.has : under[e] = known
      BY <1>1, <1>10 DEF Own, Mine
    <3>2. \A n \in {NewId} : \A e \in out[n].data : under[e] = known
      BY <1>3, <1>4, <1>5
    <3> HIDE DEF out
    <3> QED
      BY <3>1, <3>2, OverMade
  <2> HIDE DEF out, from, rest
  <2>2. \A e \in copy'[x].has : under[e] = known
    <3>1. PICK T \in SUBSET rest : copy' = [copy EXCEPT ![r] = Over(from, T, out)]
      BY <1>3
    <3>2. CASE x = r
      <4>1. copy'[x] = Over(from, T, out)
        BY <3>1, <3>2 DEF Typed, TypeOK
      <4>2. \A e \in Over(from, T, out).has : under[e] = known
        BY <1>7, <2>1, <3>2, OverMade
      <4> QED
        BY <4>1, <4>2
    <3>3. CASE x # r
      BY <1>10, <3>1, <3>3 DEF Own, Mine, Typed, TypeOK
    <3> QED
      BY <3>2, <3>3
  <2>3. ASSUME NEW n \in Queued(x)'
        PROVE  \A c \in Keeps(box'[n]) : \A e \in c.has : under[e] = known
    <3>1. CASE n = NewId /\ x = r /\ box'[n] = Again(m)
      <4>1. Keeps(box'[n]) \subseteq Keeps(box[m])
        BY <1>4, <3>1 DEF Keeps
      <4>2. \A c \in Keeps(box[m]) : \A e \in c.has : under[e] = known
        BY <1>1, <1>10, <3>1, OwnKeeps
      <4> QED
        BY <4>1, <4>2
    <3>2. CASE n \in Queued(x) /\ n \in DOMAIN box \ {m} /\ Alike(box'[n], box[n])
      <4>1. \A c \in Keeps(box[n]) : \A e \in c.has : under[e] = known
        BY <1>10, <3>2, OwnKeeps
      <4>2. CASE box'[n].before = box[n].before
        <5>1. Keeps(box'[n]) = Keeps(box[n])
          BY <3>2, <4>2 DEF Keeps, Alike
        <5> QED
          BY <4>1, <5>1
      <4>3. CASE n \in Queued(r) /\ \E T \in SUBSET rest : box'[n].before = Over(from, T, out)
        <5>1. x = r
          BY <3>2, <4>3 DEF Queued
        <5>2. PICK T \in SUBSET rest : box'[n].before = Over(from, T, out)
          BY <4>3
        <5>3. \A e \in box'[n].before.has : under[e] = known
          BY <1>7, <2>1, <5>1, <5>2, OverMade
        <5>4. Keeps(box'[n]) \subseteq Keeps(box[n]) \cup {box'[n].before}
          BY <3>2 DEF Keeps, Alike
        <5> QED
          BY <4>1, <5>3, <5>4
      <4> QED
        BY <1>3, <3>2, <4>2, <4>3
    <3> QED
      BY <1>8, <3>1, <3>2
  <2> QED
    BY <2>2, <2>3
<1>11. \A q \in requests' : \E p \in requests : q.data = p.data /\ q.rev = p.rev
  BY <1>2
<1> HIDE DEF out, from, rest
<1> QED
  BY <1>2, <1>6, <1>9, <1>10, <1>11, BoxStep

\* A new edit is made under the policy of the replica.
LEMMA MutatePoliced ==
  ASSUME Typed, Conserved, Calls, Policed, NEW r \in Records, NEW action \in Actions,
         Mutate(r, action)
  PROVE  Policed'
<1>1. PICK n \in Nat : box' = With(box, NewId, Edit(r, action, n))
  BY MutateEdits DEF Typed
<1>2. /\ UNCHANGED <<doc, known, applied, requests, reply, pc, page>>
      /\ used' = used + 1 /\ NewId = used + 1 /\ NewId \notin DOMAIN box /\ NewId \in Ids
      /\ under' = [under EXCEPT ![NewId] = known]
      /\ copy' = [copy EXCEPT ![r] = Over(@, {NewId}, box')]
  BY FreshNew DEF Mutate, serverVars, passVars
<1>3. /\ DOMAIN box' = DOMAIN box \cup {NewId}
      /\ box'[NewId] = Edit(r, action, n)
      /\ \A k \in DOMAIN box : box'[k] = box[k]
  BY <1>1, <1>2 DEF With
<1>4. used \in Nat /\ under \in [Ids -> Nat]
  BY DEF Typed, TypeOK
<1>5. under'[NewId] = known /\ \A e \in Ids : e # NewId => under'[e] = under[e]
  BY <1>2, <1>4
<1>6. under[NewId] = 0
  BY <1>2, <1>4 DEF Policed, Made
<1>7. \A e \in Ids : under[e] = known => under'[e] = known
  BY <1>5
<1>8. Made'
  <2>1. \A e \in Ids : under'[e] # 0 => e <= used'
    <3>1. ASSUME NEW e \in Ids, e # NewId, under'[e] # 0 PROVE e <= used + 1
      <4>1. e <= used
        BY <1>5, <3>1 DEF Policed, Made
      <4>2. e \in Int
        BY LocalSyncAssumption DEF Ids
      <4> QED
        BY <1>4, <4>1, <4>2
    <3> QED
      BY <1>2, <1>4, <3>1
  <2>2. ASSUME NEW k \in DOMAIN box', ~box'[k].quarantined, NEW e \in box'[k].data
        PROVE  under'[e] = known
    <3>1. CASE k = NewId
      BY <1>3, <1>5, <2>2, <3>1 DEF Edit
    <3>2. CASE k # NewId
      <4>1. k \in DOMAIN box /\ box'[k] = box[k]
        BY <1>3, <3>2
      <4>2. e \in Ids /\ under[e] = known
        BY <2>2, <4>1 DEF Policed, Made, Typed, TypeOK, Mutation
      <4> QED
        BY <1>7, <4>2
    <3> QED
      BY <3>1, <3>2
  <2>3. ASSUME NEW q \in requests, NEW e \in q.data PROVE under'[e] = q.rev
    <3>1. under[e] = q.rev /\ q.rev \in 1..known /\ e \in Ids /\ known \in Nat
      BY DEF Policed, Made, Calls, Revisions, Typed, TypeOK, Request
    <3>2. e # NewId
      BY <1>6, <3>1
    <3> QED
      BY <1>5, <3>1, <3>2
  <2> QED
    BY <1>2, <2>1, <2>2, <2>3 DEF Policed, Made
<1>9. AppliedAsMade'
  <2>1. ASSUME NEW e \in Ids PROVE applied[e] \subseteq {under'[e]}
    <3>1. applied[e] \subseteq {under[e]} /\ \A v \in applied[e] : v >= 1
      BY DEF Policed, AppliedAsMade, Made
    <3>2. CASE e = NewId
      BY <1>6, <3>1, <3>2
    <3>3. CASE e # NewId
      BY <1>5, <3>1, <3>3
    <3> QED
      BY <3>2, <3>3
  <2> QED
    BY <1>2, <2>1 DEF AppliedAsMade
<1>10. ASSUME NEW x \in Records, NEW k \in Queued(x)'
       PROVE  \/ k \in Queued(x) /\ k \in DOMAIN box /\ box'[k] = box[k]
              \/ x = r /\ box'[k] = Edit(r, action, n)
  <2>1. k \in DOMAIN box' /\ box'[k].rec = x /\ ~box'[k].quarantined
    BY <1>10 DEF Queued
  <2>2. CASE k = NewId
    BY <1>3, <2>1, <2>2 DEF Edit
  <2>3. CASE k # NewId
    BY <1>3, <2>1, <2>3 DEF Queued
  <2> QED
    BY <2>2, <2>3
<1>11. ASSUME NEW x \in Records, Young(x)' PROVE Young(x)
  <2>1. ASSUME NEW k \in Queued(x)', box'[k].master = Absent PROVE Young(x)
    <3>1. Edit(r, action, n).master # Absent
      BY NoneIsNoDocument, AbsentType DEF Edit
    <3> QED
      BY <1>10, <2>1, <3>1 DEF Young
  <2> QED
    BY <1>2, <1>11, <2>1 DEF Young
<1>12. ASSUME NEW x \in Records, Own(x) PROVE Own(x)'
  <2>1. \A d \in Doc : (\A e \in d.has : under[e] = known) => \A e \in d.has : under'[e] = known
    BY <1>7 DEF Doc
  <2>2. doc[x] \in Doc /\ copy[x] \in Doc
    BY DEF Typed, TypeOK
  <2>3. \A e \in copy'[x].has : under'[e] = known
    <3>1. \A e \in copy[x].has : under'[e] = known
      BY <1>12, <2>1, <2>2 DEF Own, Mine
    <3>2. CASE x = r
      <4>1. copy'[x] = Over(copy[x], {NewId}, box')
        BY <1>2, <3>2 DEF Typed, TypeOK
      <4>2. copy'[x].has = copy[x].has \cup {NewId}
        BY <1>3, <4>1 DEF Over, Edit
      <4> QED
        BY <1>5, <3>1, <4>2
    <3>3. CASE x # r
      BY <1>2, <3>1, <3>3 DEF Typed, TypeOK
    <3> QED
      BY <3>2, <3>3
  <2>4. ASSUME NEW k \in Queued(x)', NEW d \in Keeps(box'[k])
        PROVE  \A e \in d.has : under'[e] = known
    <3>1. CASE k \in Queued(x) /\ k \in DOMAIN box /\ box'[k] = box[k]
      <4>1. \A e \in d.has : under[e] = known
        BY <1>12, <2>4, <3>1, OwnKeeps
      <4>2. d \in Doc
        BY <2>4, <3>1 DEF Keeps, Typed, TypeOK, Mutation
      <4> QED
        BY <2>1, <4>1, <4>2
    <3>2. CASE x = r /\ box'[k] = Edit(r, action, n)
      <4>1. d \in {copy[x], Absent}
        BY <2>4, <3>2 DEF Keeps, Edit
      <4>2. \A e \in copy[x].has : under'[e] = known
        BY <1>12, <2>1, <2>2 DEF Own, Mine
      <4> QED
        BY <4>1, <4>2 DEF Absent
    <3> QED
      BY <1>10, <3>1, <3>2
  <2>5. \A e \in doc[x].has : under'[e] = known
    BY <1>12, <2>1, <2>2 DEF Own, Mine
  <2>6. reply # None /\ reply.rec = x /\ reply.doc # None => \A e \in reply.doc.has : under'[e] = known
    BY <1>12, <2>1 DEF Own, Mine, Typed, AnswerOK
  <2>7. pc = "page" /\ x \in DOMAIN page.docs => \A e \in page.docs[x].has : under'[e] = known
    BY <1>12, <2>1 DEF Own, Mine, Typed, PageOK
  <2> QED
    BY <1>2, <2>3, <2>4, <2>5, <2>6, <2>7 DEF Own, Mine, Keeps
<1>13. YoungIsOwn'
  BY <1>2, <1>11, <1>12, OwnStep DEF Policed, YoungIsOwn
<1> QED
  BY <1>8, <1>9, <1>13 DEF Policed

LEMMA DiscardQuarantinedPoliced ==
  ASSUME Typed, Policed, NEW m, DiscardQuarantined(m)
  PROVE  Policed'
<1>1. /\ UNCHANGED <<doc, copy, under, known, applied, used, requests, reply, pc, page>>
      /\ \A n \in DOMAIN box' : n \in DOMAIN box /\ box'[n] = box[n]
      /\ \A x : Queued(x)' = Queued(x)
  BY QuarantinedGone DEF Typed, serverVars, passVars, bounds
<1>2. \A n \in DOMAIN box' : ~box'[n].quarantined => \A e \in box'[n].data : under[e] = known
  BY <1>1 DEF Policed, Made
<1>3. ASSUME NEW x \in Records, NEW n \in Queued(x)'
      PROVE  n \in Queued(x) /\ box'[n] = box[n]
  <2>1. n \in DOMAIN box'
    BY <1>3 DEF Queued
  <2> QED
    BY <1>1, <1>3, <2>1
<1>4. \A x \in Records : \A n \in Queued(x)' : box'[n].master = Absent => Young(x)
  BY <1>3 DEF Young
<1>5. ASSUME NEW x \in Records, Own(x)
      PROVE  /\ \A e \in copy'[x].has : under[e] = known
             /\ \A n \in Queued(x)' : \A d \in Keeps(box'[n]) : \A e \in d.has : under[e] = known
  <2>1. \A e \in copy'[x].has : under[e] = known
    BY <1>1, <1>5 DEF Own, Mine
  <2>2. ASSUME NEW n \in Queued(x)'
        PROVE  \A d \in Keeps(box'[n]) : \A e \in d.has : under[e] = known
    BY <1>3, <1>5, <2>2, OwnKeeps
  <2> QED
    BY <2>1, <2>2
<1> QED
  BY <1>1, <1>2, <1>4, <1>5, BoxStep

LEMMA NextPoliced == Typed /\ Conserved /\ Calls /\ Policed /\ [Next]_vars => Policed'
<1> SUFFICES ASSUME Typed, Conserved, Calls, Policed, [Next]_vars PROVE Policed'
  OBVIOUS
<1>1. CASE PassMoves
  BY <1>1, PassPoliced, AcceptPolicyPoliced, RefreshManifestPoliced, PushPoliced,
     AcknowledgePoliced, RejectPoliced, EndPoliced, PullPoliced, ApplyPullPoliced DEF PassMoves
<1>2. CASE Fails \/ SessionExpires \/ ChangePolicy \/ ResumeAuthorization
  BY <1>2, PassPoliced, EndPoliced
<1>3. CASE Serves \/ \E r \in Records : Write(r)
  BY <1>3, CheckPoliced, CommitPoliced, WritePoliced DEF Serves
<1>4. CASE \E r \in Records, action \in Actions : Mutate(r, action)
  BY <1>4, MutatePoliced
<1>5. CASE \E m \in DOMAIN box : \/ AcceptMaster(m) \/ RetryWithLocal(m)
                                 \/ RetryMutation(m)
                                 \/ Discard(m) \/ DiscardQuarantined(m)
  BY <1>5, AcceptMasterPoliced, RetryWithLocalPoliced, RetryMutationPoliced, DiscardPoliced,
     DiscardQuarantinedPoliced
<1>6. CASE UNCHANGED vars
  <2>1. /\ UNCHANGED <<doc, copy, under, known, applied, used, box, requests, reply, pc, page>>
    BY <1>6 DEF vars, serverVars, storeVars, passVars, bounds, pastVars
  <2> QED
    BY <2>1, PlainPoliced
<1> QED
  BY <1>1, <1>2, <1>3, <1>4, <1>5, <1>6 DEF Next

\* An edit is applied only under the policy it was made under, though
\* requests outlive their pass and rejected edits are sent again.
THEOREM EditsAppliedAsMade == Spec => []AppliedAsMade
<1>1. Spec => [](Typed /\ Conserved /\ Calls /\ Policed)
  BY InitTyped, NextTyped, InitConserved, NextConserved, InitCalls, NextCalls, InitPoliced,
     NextPoliced, PTL DEF Spec
<1>2. Policed => AppliedAsMade
  BY DEF Policed
<1> QED
  BY <1>1, <1>2, PTL

-----------------------------------------------------------------------------
(* What a record shows: its queued mutations, each laid over those before. *)

\* The edits in view with a mutation: its record's, or those put aside.
Seen(n) == IF listed THEN copy[box[n].rec].has ELSE box[n].snapshot.has

\* An edit is in what mutation n was laid over, in n or in a later one.
From(e, n, x) ==
  \/ e \in box[n].before.has
  \/ \E k \in Queued(x) : box[k].order >= box[n].order /\ e \in box[k].data

\* Edits that the user gave up aside, a queued edit is in view and in what
\* later mutations were laid over, and nothing else is there that the earlier
\* ones do not know.
LaidOut(x) ==
  \A m, n \in Queued(x) : \A e \in Ids \ dropped :
    /\ e \in box[m].data => e \in Seen(n)
    /\ e \in Seen(n) => From(e, m, x)
    /\ box[m].order < box[n].order =>
         /\ e \in box[m].data => From(e, n, x)
         /\ e \in box[n].before.has => From(e, m, x)

\* A pass works on a collection that is known; documents are put aside while
\* it is not; mutations have orders of their own.
Working == {"list", "next", "wait", "pull", "page"}

Tidy ==
  /\ pc \in Working => listed
  /\ ~listed => \A r \in Records : copy[r] = Absent
  /\ listed => \A m \in DOMAIN box : ~box[m].quarantined => box[m].snapshot = Absent
  /\ \A m, n \in DOMAIN box : box[m].order = box[n].order => m = n

Shown == Tidy /\ \A x \in Records : LaidOut(x)

\* Mutations may leave the queue when their edits are given up.
LEMMA KeptLaidOut ==
  ASSUME NEW x, LaidOut(x), dropped \subseteq dropped',
         \A n \in Queued(x)' :
           /\ n \in Queued(x)
           /\ box'[n].data = box[n].data /\ box'[n].order = box[n].order
           /\ box'[n].before = box[n].before
           /\ \E k \in Queued(x) : Seen(n)' = Seen(k),
         Queued(x)' = {} \/ \A k \in Queued(x) : k \in Queued(x)' \/ box[k].data \subseteq dropped'
  PROVE  LaidOut(x)'
<1> SUFFICES ASSUME NEW m \in Queued(x)', NEW n \in Queued(x)', NEW e \in Ids \ dropped'
             PROVE  /\ e \in box'[m].data => e \in Seen(n)'
                    /\ e \in Seen(n)' => From(e, m, x)'
                    /\ box'[m].order < box'[n].order =>
                         /\ e \in box'[m].data => From(e, n, x)'
                         /\ e \in box'[n].before.has => From(e, m, x)'
  BY DEF LaidOut
<1>1. e \in Ids \ dropped /\ m \in Queued(x) /\ n \in Queued(x)
  OBVIOUS
<1>2. ASSUME NEW k \in Queued(x)', From(e, k, x) PROVE From(e, k, x)'
  <2>1. CASE e \in box[k].before.has
    BY <2>1 DEF From
  <2>2. CASE \E j \in Queued(x) : box[j].order >= box[k].order /\ e \in box[j].data
    <3>1. PICK j \in Queued(x) : box[j].order >= box[k].order /\ e \in box[j].data
      BY <2>2
    <3>2. j \in Queued(x)'
      BY <3>1
    <3> QED
      BY <3>1, <3>2 DEF From
  <2> QED
    BY <1>2, <2>1, <2>2 DEF From
<1>3. PICK k \in Queued(x) : Seen(n)' = Seen(k)
  OBVIOUS
<1>4. /\ e \in box[m].data => e \in Seen(k)
      /\ e \in Seen(k) => From(e, m, x)
  BY <1>1 DEF LaidOut
<1>5. box[m].order < box[n].order =>
        /\ e \in box[m].data => From(e, n, x)
        /\ e \in box[n].before.has => From(e, m, x)
  BY <1>1 DEF LaidOut
<1> QED
  BY <1>2, <1>3, <1>4, <1>5

\* A queue that was laid anew over a document with the edits D.
LEMMA RelaidOut ==
  ASSUME NEW x, NEW D,
         \A n \in Queued(x)' : box'[n].order \in Nat,
         \A n \in Queued(x)' : \A e \in Ids : e \in box'[n].before.has <=>
           \/ e \in D
           \/ \E k \in Queued(x)' : box'[k].order < box'[n].order /\ e \in box'[k].data,
         \A n \in Queued(x)' : \A e \in Ids \ dropped' :
           /\ \A m \in Queued(x)' : e \in box'[m].data => e \in Seen(n)'
           /\ e \in Seen(n)' => e \in D \/ \E k \in Queued(x)' : e \in box'[k].data
  PROVE  LaidOut(x)'
<1> SUFFICES ASSUME NEW m \in Queued(x)', NEW n \in Queued(x)', NEW e \in Ids \ dropped'
             PROVE  /\ e \in box'[m].data => e \in Seen(n)'
                    /\ e \in Seen(n)' => From(e, m, x)'
                    /\ box'[m].order < box'[n].order =>
                         /\ e \in box'[m].data => From(e, n, x)'
                         /\ e \in box'[n].before.has => From(e, m, x)'
  BY DEF LaidOut
<1>1. ASSUME NEW k \in Queued(x)', e \in D \/ \E j \in Queued(x)' : e \in box'[j].data
      PROVE  From(e, k, x)'
  <2>1. CASE e \in D
    BY <2>1 DEF From
  <2>2. CASE \E j \in Queued(x)' : e \in box'[j].data
    <3>1. PICK j \in Queued(x)' : e \in box'[j].data
      BY <2>2
    <3>2. box'[j].order \in Nat /\ box'[k].order \in Nat
      OBVIOUS
    <3>3. box'[j].order < box'[k].order \/ box'[j].order >= box'[k].order
      BY <3>2
    <3> QED
      BY <3>1, <3>3 DEF From
  <2> QED
    BY <1>1, <2>1, <2>2
<1>2. e \in box'[m].data => e \in Seen(n)'
  OBVIOUS
<1>3. e \in Seen(n)' => From(e, m, x)'
  BY <1>1
<1>4. e \in box'[m].data => From(e, n, x)'
  BY <1>1
<1>5. e \in box'[n].before.has => From(e, m, x)'
  BY <1>1
<1> QED
  BY <1>2, <1>3, <1>4, <1>5

LEMMA TidyKept ==
  ASSUME Tidy, listed' = listed, pc' \in Working => pc \in Working,
         DOMAIN box' \subseteq DOMAIN box,
         \A n \in DOMAIN box' :
           /\ box'[n].order = box[n].order /\ box'[n].snapshot = box[n].snapshot
           /\ ~box'[n].quarantined => ~box[n].quarantined,
         ~listed => \A r \in Records : copy'[r] = Absent
  PROVE  Tidy'
<1>1. \A m, n \in DOMAIN box' : box'[m].order = box'[n].order => m = n
  BY DEF Tidy
<1>2. listed' => \A m \in DOMAIN box' : ~box'[m].quarantined => box'[m].snapshot = Absent
  BY DEF Tidy
<1> QED
  BY <1>1, <1>2 DEF Tidy

\* Steps of the pass, the server and others that neither queue nor show.
LEMMA QuietShown ==
  ASSUME Shown, UNCHANGED <<box, copy, listed, dropped>>, pc' \in Working => pc \in Working
  PROVE  Shown'
<1>1. \A x : Queued(x)' = Queued(x)
  BY DEF Queued
<1>2. ASSUME NEW x \in Records PROVE LaidOut(x)'
  <2>1. LaidOut(x)
    BY DEF Shown
  <2>2. \A n : Seen(n)' = Seen(n)
    BY DEF Seen
  <2> QED
    BY <1>1, <2>1, <2>2, KeptLaidOut
<1>3. Tidy'
  BY TidyKept DEF Shown, Tidy
<1> QED
  BY <1>2, <1>3 DEF Shown

LEMMA PassShown ==
  ASSUME Shown,
         \/ FetchManifest \/ ListOutbox \/ SkipMutation \/ Push \/ SkipPull \/ BeginPull
         \/ Pull \/ Fails \/ ChangePolicy \/ ResumeAuthorization \/ Serves
         \/ (\E r \in Records : Write(r)) \/ UNCHANGED vars
  PROVE  Shown'
<1>1. UNCHANGED <<box, copy, listed, dropped>> /\ (pc' \in Working => pc \in Working)
  <2>1. CASE \/ FetchManifest \/ ListOutbox \/ SkipMutation \/ Push \/ SkipPull \/ BeginPull
             \/ Pull \/ Fails
    BY <2>1 DEF FetchManifest, ListOutbox, SkipMutation, Push, SkipPull, BeginPull, Pull,
       Fails, Idle, Step, Working, storeVars, pastVars
  <2>2. CASE \/ ChangePolicy \/ ResumeAuthorization \/ (\E r \in Records : Write(r))
             \/ UNCHANGED vars
    BY <2>2 DEF ChangePolicy, ResumeAuthorization, Write, vars, storeVars, passVars, pastVars
  <2>3. CASE Serves
    BY <2>3 DEF Serves, Check, Commit, storeVars, pastVars
  <2> QED
    BY <2>1, <2>2, <2>3
<1> QED
  BY <1>1, QuietShown

LEMMA SameSeen ==
  ASSUME NEW n, listed' = listed, box'[n].rec = box[n].rec, box'[n].snapshot = box[n].snapshot,
         copy'[box[n].rec] = copy[box[n].rec]
  PROVE  Seen(n)' = Seen(n)
  BY DEF Seen

\* Quarantined mutations leave the queue.
LEMMA AcceptPolicyShown ==
  ASSUME Typed, Shown, AcceptPolicy
  PROVE  Shown'
<1>1. pc' = "refresh" /\ UNCHANGED dropped
  BY DEF AcceptPolicy, Step, pastVars
<1>2. CASE known = revision
  <2>1. UNCHANGED <<box, copy, listed>>
    BY <1>2 DEF AcceptPolicy, storeVars
  <2> QED
    BY <1>1, <2>1, QuietShown DEF Working
<1>3. CASE known # revision
  <2>1. /\ box' = Quarantine(box, DOMAIN box) /\ copy' = [r \in Records |-> Absent]
        /\ listed' = FALSE
    BY <1>3 DEF AcceptPolicy
  <2>2. /\ DOMAIN box' = DOMAIN box
        /\ \A m \in DOMAIN box' : box'[m].quarantined /\ box'[m].order = box[m].order
    <3>1. \A m \in DOMAIN box : box[m] \in Mutation
      BY DEF Typed, TypeOK
    <3> QED
      BY <2>1, <3>1 DEF Quarantine, Mutation
  <2>3. Tidy'
    BY <1>1, <2>1, <2>2 DEF Shown, Tidy, Working
  <2>4. \A x \in Records : LaidOut(x)'
    BY <2>2 DEF LaidOut, Queued
  <2> QED
    BY <2>3, <2>4 DEF Shown
<1> QED
  BY <1>2, <1>3

LEMMA RejectShown ==
  ASSUME Typed, Shown, Reject
  PROVE  Shown'
<1>1. UNCHANGED <<copy, listed, dropped>> /\ pc = "wait"
  BY DEF Reject, Answer, pastVars
<1>2. ASSUME NEW n \in DOMAIN box
      PROVE  /\ n \in DOMAIN box'
             /\ box'[n].rec = box[n].rec /\ box'[n].quarantined = box[n].quarantined
             /\ box'[n].order = box[n].order /\ box'[n].data = box[n].data
             /\ box'[n].before = box[n].before /\ box'[n].snapshot = box[n].snapshot
  <2>1. box[n] \in Mutation
    BY DEF Typed, TypeOK
  <2>2. CASE UNCHANGED box
    BY <2>2
  <2>3. CASE box' = [box EXCEPT ![reply.id].state  = Verdict(reply.kind),
                                ![reply.id].master = IF reply.kind = "conflict" THEN reply.doc
                                                     ELSE @]
    <3>1. CASE n = reply.id
      BY <2>1, <2>3, <3>1 DEF Mutation
    <3>2. CASE n # reply.id
      BY <2>3, <3>2
    <3> QED
      BY <3>1, <3>2
  <2> QED
    BY <2>2, <2>3 DEF Reject
<1>3. DOMAIN box' = DOMAIN box
  BY DEF Reject
<1>4. ASSUME NEW x \in Records PROVE LaidOut(x)'
  <2>1. Queued(x)' = Queued(x) /\ Queued(x) \subseteq DOMAIN box
    BY <1>2, <1>3 DEF Queued
  <2>2. \A n \in Queued(x) : Seen(n)' = Seen(n)
    BY <1>1, <1>2, <2>1, SameSeen
  <2> QED
    BY <1>1, <1>2, <2>1, <2>2, KeptLaidOut DEF Shown
<1>5. Tidy'
  BY <1>1, <1>2, <1>3, TidyKept DEF Shown, Tidy, Working
<1> QED
  BY <1>4, <1>5 DEF Shown

\* Documents are put aside with their pending edits.
LEMMA BlockShown ==
  ASSUME Typed, Shown, NEW b \in BOOLEAN, Block(b), listed, UNCHANGED dropped
  PROVE  Shown'
<1>1. ASSUME NEW m \in DOMAIN box
      PROVE  /\ box'[m].data = box[m].data /\ box'[m].rec = box[m].rec
             /\ ~box'[m].quarantined => ~box[m].quarantined
             /\ box'[m].before = box[m].before /\ box'[m].order = box[m].order
             /\ box'[m].snapshot = IF copy[box[m].rec] = Absent THEN box[m].snapshot
                                   ELSE copy[box[m].rec]
             /\ box'[m].quarantined = (box[m].quarantined \/ (b /\ known # 0))
  <2>1. box[m] \in Mutation
    BY DEF Typed, TypeOK
  <2>2. box'[m] = [box[m] EXCEPT
                     !.state = IF @ = "conflict" THEN @ ELSE "error",
                     !.quarantined = @ \/ (b /\ known # 0),
                     !.snapshot = IF copy[box[m].rec] = Absent THEN @ ELSE copy[box[m].rec]]
    BY DEF Block
  <2> QED
    BY <2>1, <2>2 DEF Mutation
<1>2. /\ DOMAIN box' = DOMAIN box /\ copy' = [r \in Records |-> Absent]
      /\ listed' = FALSE /\ pc' = "idle"
  BY DEF Block, Idle
<1>3. ASSUME NEW x \in Records PROVE LaidOut(x)'
  <2>1. ASSUME NEW n \in Queued(x)'
        PROVE  n \in Queued(x) /\ n \in DOMAIN box /\ Seen(n)' = Seen(n)
    <3>1. n \in DOMAIN box /\ n \in Queued(x) /\ box[n].rec = x /\ ~box[n].quarantined
      BY <1>1, <1>2 DEF Queued
    <3>2. Seen(n) = copy[x].has /\ Seen(n)' = box'[n].snapshot.has
      BY <1>2, <3>1 DEF Seen
    <3>3. box[n].snapshot = Absent
      BY <3>1 DEF Shown, Tidy
    <3>4. box'[n].snapshot.has = copy[x].has
      BY <1>1, <3>1, <3>3
    <3> QED
      BY <3>1, <3>2, <3>4
  <2>2. CASE b /\ known # 0
    <3>1. Queued(x)' = {}
      BY <1>1, <1>2, <2>2 DEF Queued
    <3> QED
      BY <3>1 DEF LaidOut
  <2>3. CASE ~(b /\ known # 0)
    <3>1. Queued(x)' = Queued(x)
      <4>1. \A n \in DOMAIN box : box'[n].quarantined <=> box[n].quarantined
        BY <1>1, <2>3
      <4> QED
        BY <1>1, <1>2, <4>1 DEF Queued
    <3> QED
      BY <1>1, <2>1, <3>1, KeptLaidOut DEF Shown
  <2> QED
    BY <2>2, <2>3
<1>4. Tidy'
  BY <1>1, <1>2 DEF Shown, Tidy, Working
<1> QED
  BY <1>3, <1>4 DEF Shown

LEMMA EndShown ==
  ASSUME Typed, Shown, Forbidden \/ PullForbidden \/ SessionExpires
  PROVE  Shown'
<1>1. \E b \in BOOLEAN : Block(b)
  BY DEF Forbidden, PullForbidden, SessionExpires
<1>2. listed /\ UNCHANGED dropped
  BY DEF Forbidden, PullForbidden, SessionExpires, Answer, Shown, Tidy, Working, pastVars
<1> QED
  BY <1>1, <1>2, BlockShown

LEMMA RefreshManifestShown ==
  ASSUME Typed, Shown, RefreshManifest
  PROVE  Shown'
<1> DEFINE Aside(r) == {m \in Queued(r) : box[m].snapshot # Absent}
<1>1. listed' = TRUE /\ pc' = "list" /\ UNCHANGED dropped
  BY DEF RefreshManifest, Step, pastVars
<1>2. copy' = [r \in Records |-> IF Aside(r) = {} THEN copy[r]
                                 ELSE box[First(Aside(r))].snapshot]
  BY DEF RefreshManifest
<1>3. \A r \in Records : Aside(r) # {} => First(Aside(r)) \in Aside(r)
  BY QueuedType, FirstIsOne DEF Typed
<1>4. box' = [m \in DOMAIN box |-> IF box[m].quarantined THEN box[m]
                                   ELSE [box[m] EXCEPT !.snapshot = Absent]]
  BY DEF RefreshManifest
<1>5. DOMAIN box' = DOMAIN box
  BY <1>4
<1>6. ASSUME NEW m \in DOMAIN box
      PROVE  /\ box'[m].quarantined = box[m].quarantined /\ box'[m].data = box[m].data
             /\ box'[m].rec = box[m].rec /\ box'[m].before = box[m].before
             /\ box'[m].order = box[m].order
             /\ ~box'[m].quarantined => box'[m].snapshot = Absent
  <2>1. box[m] \in Mutation
    BY DEF Typed, TypeOK
  <2> QED
    BY <1>4, <2>1 DEF Mutation
<1>7. ASSUME NEW x \in Records PROVE LaidOut(x)'
  <2>1. Queued(x)' = Queued(x)
    BY <1>5, <1>6 DEF Queued
  <2>2. ASSUME NEW n \in Queued(x)
        PROVE  n \in DOMAIN box /\ \E k \in Queued(x) : Seen(n)' = Seen(k)
    <3>1. n \in DOMAIN box /\ box[n].rec = x /\ box'[n].rec = x /\ ~box[n].quarantined
      BY <1>6 DEF Queued
    <3>2. Seen(n)' = copy'[x].has
      BY <1>1, <3>1 DEF Seen
    <3>3. CASE Aside(x) = {}
      <4>1. copy'[x] = copy[x]
        BY <1>2, <3>3
      <4>2. box[n].snapshot = Absent
        BY <3>3
      <4>3. Seen(n) = copy[x].has
        BY <3>1, <4>2 DEF Seen, Shown, Tidy
      <4> QED
        BY <3>1, <3>2, <4>1, <4>3
    <3>4. CASE Aside(x) # {}
      <4>1. PICK f \in Queued(x) : copy'[x] = box[f].snapshot /\ box[f].snapshot # Absent
        <5>1. First(Aside(x)) \in Aside(x)
          BY <1>3, <3>4
        <5> QED
          BY <1>2, <3>4, <5>1
      <4>2. f \in DOMAIN box /\ ~box[f].quarantined
        BY DEF Queued
      <4>3. ~listed
        BY <4>1, <4>2 DEF Shown, Tidy
      <4>4. Seen(f) = copy'[x].has
        BY <4>1, <4>3 DEF Seen
      <4> QED
        BY <3>1, <3>2, <4>4
    <3> QED
      BY <3>3, <3>4
  <2> HIDE DEF Aside
  <2> QED
    BY <1>1, <1>6, <2>1, <2>2, KeptLaidOut DEF Shown
<1>8. Tidy'
  BY <1>1, <1>5, <1>6 DEF Shown, Tidy
<1> QED
  BY <1>7, <1>8 DEF Shown

\* A page writes to records without queued edits, or quarantines them.
LEMMA ApplyPullShown ==
  ASSUME Typed, Shown, ApplyPull
  PROVE  Shown'
<1> DEFINE taken == DOMAIN page.docs \ Protected
           S     == {m \in DOMAIN box : box[m].rec \in page.removed}
<1>1. /\ UNCHANGED <<listed, dropped>> /\ pc = "page" /\ listed
  BY DEF ApplyPull, Shown, Tidy, Working
<1>2. box' = Quarantine(box, S)
  BY DEF ApplyPull
<1>3. DOMAIN box' = DOMAIN box
  <2> HIDE DEF S
  <2> QED
    BY <1>2, QuarantineType DEF Typed
<1>4. ASSUME NEW m \in DOMAIN box
      PROVE  /\ box'[m].rec = box[m].rec /\ box'[m].order = box[m].order
             /\ box'[m].snapshot = box[m].snapshot
             /\ ~box'[m].quarantined => box'[m] = box[m] /\ ~box[m].quarantined
             /\ box[m].rec \in page.removed => box'[m].quarantined
             /\ box[m].rec \notin page.removed => box'[m] = box[m]
  <2>1. box[m] \in Mutation
    BY DEF Typed, TypeOK
  <2> QED
    BY <1>2, <2>1 DEF Quarantine, Mutation
<1>5. copy' = [r \in Records |-> CASE r \in page.removed -> Absent
                                   [] r \in taken        -> page.docs[r]
                                   [] OTHER              -> copy[r]]
  BY DEF ApplyPull
<1>6. ASSUME NEW x \in Records PROVE LaidOut(x)'
  <2>1. CASE x \in page.removed
    <3>1. Queued(x)' = {}
      BY <1>3, <1>4, <2>1 DEF Queued
    <3> QED
      BY <3>1 DEF LaidOut
  <2>2. CASE x \notin page.removed
    <3>1. Queued(x)' = Queued(x)
      BY <1>3, <1>4, <2>2 DEF Queued
    <3>2. CASE x \in taken
      <4>1. Queued(x) = {}
        BY <3>2 DEF Protected
      <4> QED
        BY <3>1, <4>1 DEF LaidOut
    <3>3. CASE x \notin taken
      <4>1. copy'[x] = copy[x]
        BY <1>5, <2>2, <3>3
      <4>2. ASSUME NEW n \in Queued(x) PROVE n \in DOMAIN box /\ Seen(n)' = Seen(n) /\ box'[n] = box[n]
        <5>1. n \in DOMAIN box /\ box[n].rec = x /\ ~box[n].quarantined
          BY DEF Queued
        <5>2. box'[n] = box[n]
          BY <1>4, <2>2, <5>1
        <5> QED
          BY <1>1, <4>1, <5>1, <5>2, SameSeen
      <4> QED
        BY <1>1, <3>1, <4>2, KeptLaidOut DEF Shown
    <3> QED
      BY <3>2, <3>3
  <2> QED
    BY <2>1, <2>2
<1>7. Tidy'
  BY <1>1, <1>3, <1>4 DEF Shown, Tidy
<1> QED
  BY <1>6, <1>7 DEF Shown

\* Records other than the one that a step is about.
LEMMA OthersShown ==
  ASSUME Shown, NEW r \in Records, UNCHANGED listed, dropped \subseteq dropped',
         copy \in [Records -> Doc], \E d : copy' = [copy EXCEPT ![r] = d],
         \A n \in DOMAIN box' : box'[n].rec # r => n \in DOMAIN box,
         \A n \in DOMAIN box : box[n].rec # r =>
           n \in DOMAIN box' /\ Alike(box'[n], box[n]) /\ box'[n].before = box[n].before,
         \A n \in DOMAIN box \cap DOMAIN box' : box'[n].rec = box[n].rec
  PROVE  \A x \in Records \ {r} : LaidOut(x)'
<1> SUFFICES ASSUME NEW x \in Records \ {r} PROVE LaidOut(x)'
  OBVIOUS
<1>1. Queued(x)' = Queued(x)
  BY DEF Queued, Alike
<1>2. copy'[x] = copy[x]
  OBVIOUS
<1>3. ASSUME NEW n \in Queued(x)
      PROVE  /\ Seen(n)' = Seen(n) /\ Alike(box'[n], box[n])
             /\ box'[n].before = box[n].before
  <2>1. /\ n \in DOMAIN box /\ box[n].rec = x /\ Alike(box'[n], box[n])
        /\ box'[n].before = box[n].before
    BY DEF Queued
  <2> QED
    BY <1>2, <2>1, SameSeen DEF Alike
<1> QED
  BY <1>1, <1>3, KeptLaidOut DEF Shown, Alike

\* The queue of a record is laid over d; the record shows d with all of it.
LEMMA OverLaidOut ==
  ASSUME Typed, NEW r, NEW d \in Doc, NEW rest \in SUBSET DOMAIN box, Queued(r)' = rest,
         NEW out, \A n \in rest : out[n] = box[n],
         \A n \in rest : /\ Alike(box'[n], box[n])
                         /\ box'[n].before = Over(d, Earlier(rest, n), out),
         \A n \in rest : \A e \in Ids \ dropped' :
           /\ \A k \in rest : e \in box[k].data => e \in Seen(n)'
           /\ e \in Seen(n)' => e \in d.has \/ \E k \in rest : e \in box[k].data
  PROVE  LaidOut(r)'
<1>1. \A n \in rest : /\ box'[n].order \in Nat /\ box'[n].order = box[n].order
                      /\ box'[n].data = box[n].data
  BY DEF Typed, TypeOK, Mutation, Alike
<1> DEFINE D == d.has
<1>2. ASSUME NEW n \in Queued(r)', NEW e \in Ids
      PROVE  e \in box'[n].before.has <=>
               \/ e \in D
               \/ \E k \in Queued(r)' : box'[k].order < box'[n].order /\ e \in box'[k].data
  <2>0. n \in rest /\ box'[n].before = Over(d, Earlier(rest, n), out)
    OBVIOUS
  <2>1. box'[n].before.has = d.has \cup UNION {out[k].data : k \in Earlier(rest, n)}
    BY <2>0 DEF Over
  <2>2. \A k \in Earlier(rest, n) : k \in rest /\ box[k].order < box[n].order
    BY DEF Earlier
  <2>3. \A k \in rest : box[k].order < box[n].order => k \in Earlier(rest, n)
    BY DEF Earlier
  <2> QED
    BY <1>1, <2>0, <2>1, <2>2, <2>3
<1>3. ASSUME NEW n \in Queued(r)', NEW e \in Ids \ dropped'
      PROVE  /\ \A m \in Queued(r)' : e \in box'[m].data => e \in Seen(n)'
             /\ e \in Seen(n)' => e \in D \/ \E k \in Queued(r)' : e \in box'[k].data
  BY <1>1 DEF D
<1> HIDE DEF D
<1>4. \A n \in Queued(r)' : box'[n].order \in Nat
  BY <1>1
<1> QED
  BY <1>2, <1>3, <1>4, RelaidOut

LEMMA AcknowledgeInShown ==
  ASSUME Typed, Shown, listed, NEW m \in DOMAIN box, ~box[m].quarantined, NEW d \in Doc,
         AcknowledgeIn(m, d), UNCHANGED listed, dropped \subseteq dropped',
         pc' \in Working => pc \in Working
  PROVE  Shown'
<1>0. PICK r \in Records, rest \in SUBSET DOMAIN box :
        r = box[m].rec /\ rest = Queued(r) \ {m}
  BY DEF Typed, TypeOK, Mutation, Queued
<1>1. /\ DOMAIN box' = DOMAIN box \ {m}
      /\ \A n \in DOMAIN box' :
           /\ Alike(box'[n], box[n])
           /\ n \in Queued(r) => box'[n].before = Over(d, Earlier(rest, n), Without(m))
           /\ n \notin Queued(r) => box'[n].before = box[n].before
  BY <1>0, AcknowledgeInAlike DEF Typed
<1>2. copy' = [copy EXCEPT ![r] = Over(d, rest, box)] /\ copy \in [Records -> Doc]
  BY <1>0 DEF AcknowledgeIn, Typed, TypeOK
<1>3. Queued(r)' = rest /\ rest \in SUBSET DOMAIN box
  BY <1>0, <1>1 DEF Queued, Alike
<1>4. \A n \in rest : Without(m)[n] = box[n]
  BY <1>0 DEF Without, Queued
<1>5. \A n \in rest : Seen(n)' = Over(d, rest, box).has
  <2>1. \A n \in rest : n \in DOMAIN box' /\ box'[n].rec = r
    BY <1>0, <1>1 DEF Queued, Alike
  <2> QED
    BY <1>2, <2>1 DEF Seen
<1>6. LaidOut(r)'
  <2>1. \A n \in rest : /\ Alike(box'[n], box[n])
                        /\ box'[n].before = Over(d, Earlier(rest, n), Without(m))
    BY <1>0, <1>1 DEF Queued
  <2>2. Over(d, rest, box).has = d.has \cup UNION {box[k].data : k \in rest}
    BY DEF Over
  <2> QED
    BY <1>3, <1>4, <1>5, <2>1, <2>2, OverLaidOut
<1>7. \A x \in Records \ {r} : LaidOut(x)'
  <2>1. \A n \in DOMAIN box : box[n].rec # r =>
          n \in DOMAIN box' /\ Alike(box'[n], box[n]) /\ box'[n].before = box[n].before
    BY <1>0, <1>1 DEF Queued
  <2>2. \A n \in DOMAIN box \cap DOMAIN box' : box'[n].rec = box[n].rec
    BY <1>1 DEF Alike
  <2>3. \A n \in DOMAIN box' : n \in DOMAIN box
    BY <1>1
  <2> QED
    BY <1>2, <2>1, <2>2, <2>3, OthersShown
<1>8. Tidy'
  BY <1>1, TidyKept DEF Shown, Tidy, Alike
<1> QED
  BY <1>6, <1>7, <1>8 DEF Shown

LEMMA AcknowledgeShown ==
  ASSUME Typed, Shown, Acknowledge
  PROVE  Shown'
<1>1. /\ UNCHANGED <<listed, dropped>> /\ pc = "wait" /\ pc' = "next"
      /\ reply.doc \in Doc /\ listed
  BY DEF Acknowledge, Answer, Onward, pastVars, Typed, AnswerOK, Shown, Tidy, Working
<1>2. CASE Settleable(reply.id)
  <2>1. /\ reply.id \in DOMAIN box /\ ~box[reply.id].quarantined
        /\ AcknowledgeIn(reply.id, reply.doc)
    BY <1>2 DEF Acknowledge, Settleable
  <2> QED
    BY <1>1, <2>1, AcknowledgeInShown DEF Working
<1>3. CASE ~Settleable(reply.id)
  <2>1. UNCHANGED <<box, copy>>
    BY <1>3 DEF Acknowledge
  <2> QED
    BY <1>1, <2>1, QuietShown DEF Working
<1> QED
  BY <1>2, <1>3

LEMMA AcceptMasterShown ==
  ASSUME Typed, Shown, NEW m, AcceptMaster(m)
  PROVE  Shown'
<1>0. PICK r \in Records : r = box[m].rec
  BY ResolvedType DEF AcceptMaster, Typed
<1>1. /\ m \in DOMAIN box /\ ~box[m].quarantined /\ listed
      /\ dropped' = dropped \cup box[m].data /\ UNCHANGED <<listed, pc>>
  BY ResolvedType DEF AcceptMaster, Typed, passVars
<1>2. DOMAIN box' = DOMAIN box \ {m}
  BY AcceptMasterAlike DEF Typed
<1>3. CASE box[m].master \in Doc /\ AcknowledgeIn(m, box[m].master)
  <2>1. dropped \subseteq dropped'
    BY <1>1
  <2> QED
    BY <1>1, <1>3, <2>1, AcknowledgeInShown
<1>4. CASE /\ \/ Queued(r) \ {m} = {} /\ copy' = [copy EXCEPT ![r] = Absent]
              \/ UNCHANGED copy
           /\ \A n \in DOMAIN box' :
                \/ box'[n] = box[n]
                \/ box'[n] = [box[n] EXCEPT !.state = "conflict", !.master = Absent]
  <2>1. ASSUME NEW n \in DOMAIN box'
        PROVE  /\ n \in DOMAIN box \ {m}
               /\ box'[n].rec = box[n].rec /\ box'[n].quarantined = box[n].quarantined
               /\ box'[n].order = box[n].order /\ box'[n].data = box[n].data
               /\ box'[n].before = box[n].before /\ box'[n].snapshot = box[n].snapshot
    <3>1. n \in DOMAIN box \ {m} /\ box[n] \in Mutation
      BY <1>2 DEF Typed, TypeOK
    <3> QED
      BY <1>4, <3>1 DEF Mutation
  <2>2. ASSUME NEW x \in Records PROVE LaidOut(x)'
    <3>1. Queued(x)' = Queued(x) \ {m}
      BY <1>2, <2>1 DEF Queued
    <3>2. CASE Queued(x)' = {}
      BY <3>2 DEF LaidOut
    <3>3. CASE Queued(x)' # {}
      <4>0. copy \in [Records -> Doc]
        BY DEF Typed, TypeOK
      <4>1. copy'[x] = copy[x]
        BY <1>4, <3>1, <3>3, <4>0
      <4>2. ASSUME NEW n \in Queued(x)'
            PROVE  n \in Queued(x) /\ n \in DOMAIN box' /\ Seen(n)' = Seen(n)
        <5>1. n \in Queued(x) /\ n \in DOMAIN box' /\ box[n].rec = x
          BY <3>1, <4>2 DEF Queued
        <5> QED
          BY <1>1, <2>1, <4>1, <5>1, SameSeen
      <4>3. \A k \in Queued(x) : k \in Queued(x)' \/ box[k].data \subseteq dropped'
        BY <1>1, <3>1
      <4> QED
        BY <1>1, <2>1, <4>2, <4>3, KeptLaidOut DEF Shown
    <3> QED
      BY <3>2, <3>3
  <2>3. Tidy'
    BY <1>1, <1>2, <2>1, TidyKept DEF Shown, Tidy
  <2> QED
    BY <2>2, <2>3 DEF Shown
<1> QED
  BY <1>0, <1>3, <1>4, AcceptMasterAlike DEF Typed

LEMMA DiscardShown ==
  ASSUME Typed, Shown, NEW m, Discard(m)
  PROVE  Shown'
<1>0. PICK r \in Records, rest \in SUBSET DOMAIN box, d \in Doc :
        r = box[m].rec /\ rest = Queued(r) \ {m} /\ d = box[m].before
  <2>1. Queued(box[m].rec) \ {m} \in SUBSET DOMAIN box
    BY DEF Queued
  <2>2. box[m].rec \in Records /\ box[m].before \in Doc
    BY ResolvedType DEF Discard, Typed
  <2> QED
    BY <2>1, <2>2
<1>1. /\ m \in Queued(r) /\ UNCHANGED <<listed, pc>>
      /\ dropped' = dropped \cup box[m].data
      /\ copy \in [Records -> Doc]
      /\ copy' = [copy EXCEPT ![r] = IF listed THEN Over(d, rest, box) ELSE Absent]
  BY <1>0, ResolvedType DEF Discard, Typed, TypeOK, passVars
<1>2. /\ DOMAIN box' = DOMAIN box \ {m}
      /\ \A n \in DOMAIN box' :
           /\ Alike(box'[n], box[n])
           /\ n \in Queued(r) => box'[n].before = Over(d, Earlier(rest, n), Without(m))
           /\ n \notin Queued(r) => box'[n].before = box[n].before
  BY <1>0, DiscardAlike DEF Typed
<1>3. Queued(r)' = rest
  BY <1>0, <1>2 DEF Queued, Alike
<1>4. \A n \in rest : Without(m)[n] = box[n]
  BY <1>0 DEF Without, Queued
<1>5. \A n \in rest : n \in DOMAIN box' /\ box[n].rec = r /\ Alike(box'[n], box[n])
  BY <1>0, <1>2 DEF Queued
<1>6. ASSUME NEW n \in rest, NEW e \in Ids \ dropped'
      PROVE  /\ \A k \in rest : e \in box[k].data => e \in Seen(n)'
             /\ e \in Seen(n)' => e \in d.has \/ \E k \in rest : e \in box[k].data
  <2>1. CASE listed
    <3>1. Seen(n)' = Over(d, rest, box).has
      BY <1>1, <1>5, <2>1 DEF Seen, Alike
    <3>2. Over(d, rest, box).has = d.has \cup UNION {box[k].data : k \in rest}
      BY DEF Over
    <3> QED
      BY <3>1, <3>2
  <2>2. CASE ~listed
    <3>1. Seen(n)' = Seen(n)
      BY <1>1, <1>5, <2>2 DEF Seen, Alike
    <3>2. /\ \A k \in Queued(r) : e \in box[k].data => e \in Seen(n)
          /\ e \in Seen(n) => From(e, m, r)
      BY <1>0, <1>1 DEF LaidOut, Shown
    <3>3. From(e, m, r) => e \in d.has \/ \E k \in rest : e \in box[k].data
      BY <1>0, <1>1 DEF From
    <3> QED
      BY <1>0, <3>1, <3>2, <3>3
  <2> QED
    BY <2>1, <2>2
<1>7. LaidOut(r)'
  <2>1. \A n \in rest : /\ Alike(box'[n], box[n])
                        /\ box'[n].before = Over(d, Earlier(rest, n), Without(m))
    BY <1>0, <1>2, <1>5
  <2>2. \A n \in rest : \A e \in Ids \ dropped' :
          /\ \A k \in rest : e \in box[k].data => e \in Seen(n)'
          /\ e \in Seen(n)' => e \in d.has \/ \E k \in rest : e \in box[k].data
    BY <1>6
  <2> QED
    BY <1>3, <1>4, <2>1, <2>2, OverLaidOut
<1>8. \A x \in Records \ {r} : LaidOut(x)'
  <2>1. \A n \in DOMAIN box : box[n].rec # r =>
          n \in DOMAIN box' /\ Alike(box'[n], box[n]) /\ box'[n].before = box[n].before
    BY <1>0, <1>2 DEF Queued
  <2>2. \A n \in DOMAIN box \cap DOMAIN box' : box'[n].rec = box[n].rec
    BY <1>2 DEF Alike
  <2>3. /\ \A n \in DOMAIN box' : n \in DOMAIN box
        /\ dropped \subseteq dropped'
    BY <1>1, <1>2
  <2> QED
    BY <1>1, <2>1, <2>2, <2>3, OthersShown
<1>9. Tidy'
  <2>1. ~listed => \A x \in Records : copy'[x] = Absent
    BY <1>1 DEF Shown, Tidy
  <2>2. \A n \in DOMAIN box' : /\ box'[n].order = box[n].order
                               /\ box'[n].snapshot = box[n].snapshot
                               /\ ~box'[n].quarantined => ~box[n].quarantined
    BY <1>2 DEF Alike
  <2> QED
    BY <1>1, <1>2, <2>1, <2>2, TidyKept DEF Shown
<1> QED
  BY <1>7, <1>8, <1>9 DEF Shown

\* Mutations take the place of others and hold what is in view besides.
LEMMA GrownLaidOut ==
  ASSUME NEW x, LaidOut(x), UNCHANGED dropped,
         \A j, k \in Queued(x) : Seen(j) = Seen(k),
         \A n \in Queued(x)' : \E k \in Queued(x) :
           /\ box'[n].order = box[k].order /\ box'[n].before = box[k].before
           /\ box'[n].data \subseteq box[k].data \cup Seen(k)
           /\ Seen(n)' = Seen(k),
         \A k \in Queued(x) : \E n \in Queued(x)' :
           box'[n].order = box[k].order /\ box[k].data \subseteq box'[n].data
  PROVE  LaidOut(x)'
<1> SUFFICES ASSUME NEW m \in Queued(x)', NEW n \in Queued(x)', NEW e \in Ids \ dropped
             PROVE  /\ e \in box'[m].data => e \in Seen(n)'
                    /\ e \in Seen(n)' => From(e, m, x)'
                    /\ box'[m].order < box'[n].order =>
                         /\ e \in box'[m].data => From(e, n, x)'
                         /\ e \in box'[n].before.has => From(e, m, x)'
  BY DEF LaidOut
<1>1. PICK km \in Queued(x) : /\ box'[m].order = box[km].order
                              /\ box'[m].before = box[km].before
                              /\ box'[m].data \subseteq box[km].data \cup Seen(km)
                              /\ Seen(m)' = Seen(km)
  OBVIOUS
<1>2. PICK kn \in Queued(x) : /\ box'[n].order = box[kn].order
                              /\ box'[n].before = box[kn].before
                              /\ box'[n].data \subseteq box[kn].data \cup Seen(kn)
                              /\ Seen(n)' = Seen(kn)
  OBVIOUS
<1>3. ASSUME NEW k \in Queued(x), NEW j \in Queued(x)', box'[j].order = box[k].order,
             box'[j].before = box[k].before, From(e, k, x)
      PROVE  From(e, j, x)'
  <2>1. CASE e \in box[k].before.has
    BY <1>3, <2>1 DEF From
  <2>2. CASE \E i \in Queued(x) : box[i].order >= box[k].order /\ e \in box[i].data
    <3>1. PICK i \in Queued(x) : box[i].order >= box[k].order /\ e \in box[i].data
      BY <2>2
    <3>2. PICK l \in Queued(x)' : box'[l].order = box[i].order /\ box[i].data \subseteq box'[l].data
      OBVIOUS
    <3>3. l \in Queued(x)' /\ box'[l].order >= box'[j].order /\ e \in box'[l].data
      BY <1>3, <3>1, <3>2
    <3> QED
      BY <3>3 DEF From
  <2> QED
    BY <1>3, <2>1, <2>2 DEF From
<1>4. e \in box'[m].data => e \in Seen(n)'
  BY <1>1, <1>2 DEF LaidOut
<1>5. e \in Seen(n)' => From(e, m, x)' /\ From(e, n, x)'
  <2>1. e \in Seen(kn) => From(e, km, x) /\ From(e, kn, x)
    BY DEF LaidOut
  <2> QED
    BY <1>1, <1>2, <1>3, <2>1
<1>6. box'[m].order < box'[n].order /\ e \in box'[n].before.has => From(e, m, x)'
  <2>1. box[km].order < box[kn].order /\ e \in box[kn].before.has => From(e, km, x)
    BY DEF LaidOut
  <2> QED
    BY <1>1, <1>2, <1>3, <2>1
<1> QED
  BY <1>4, <1>5, <1>6

\* A mutation is replaced by another one of the same place.
LEMMA TidyReplaced ==
  ASSUME Tidy, NEW m \in DOMAIN box, NEW new, new \notin DOMAIN box, UNCHANGED <<listed, pc>>,
         DOMAIN box' = (DOMAIN box \ {m}) \cup {new}, listed,
         \A n \in DOMAIN box \ {m} :
           /\ box'[n].order = box[n].order /\ box'[n].snapshot = box[n].snapshot
           /\ box'[n].quarantined = box[n].quarantined,
         box'[new].order = box[m].order, box'[new].snapshot = Absent
  PROVE  Tidy'
<1>1. ASSUME NEW i \in DOMAIN box', NEW j \in DOMAIN box', box'[i].order = box'[j].order
      PROVE  i = j
  BY <1>1 DEF Tidy
<1>2. \A n \in DOMAIN box' : ~box'[n].quarantined => box'[n].snapshot = Absent
  BY DEF Tidy
<1> QED
  BY <1>1, <1>2 DEF Tidy

LEMMA RetryWithLocalShown ==
  ASSUME Typed, Conserved, Shown, NEW m, RetryWithLocal(m)
  PROVE  Shown'
<1>0. PICK r \in Records : r = box[m].rec
  BY ResolvedType DEF RetryWithLocal, Typed
<1>1. /\ m \in DOMAIN box /\ m \in Queued(r) /\ box[m] \in Mutation /\ ~box[m].quarantined
      /\ listed /\ UNCHANGED <<copy, listed, dropped, pc>> /\ NewId \notin DOMAIN box
      /\ copy \in [Records -> Doc]
  BY <1>0, ResolvedType, FreshNew DEF RetryWithLocal, Typed, TypeOK, passVars, pastVars
<1>2. box' = With(Without(m), NewId, AgainLocal(m))
  BY DEF RetryWithLocal, AgainLocal
<1>3. PICK new : new = NewId
  OBVIOUS
<1>4. /\ DOMAIN box' = (DOMAIN box \ {m}) \cup {new}
      /\ box'[new] = AgainLocal(m)
      /\ \A n \in DOMAIN box \ {m} : box'[n] = box[n]
  BY <1>1, <1>2, <1>3 DEF With, Without
<1>5. /\ box'[new].rec = r /\ box'[new].quarantined = box[m].quarantined
      /\ box'[new].before = box[m].before /\ box'[new].snapshot = box[m].snapshot
      /\ box'[new].order = box[m].order
      /\ box'[new].data = IF box[m].master = Absent THEN copy[r].has \cup box[m].data
                          ELSE box[m].data
  BY <1>0, <1>1, <1>4 DEF AgainLocal, Mutation
<1>6. Queued(r)' = (Queued(r) \ {m}) \cup {new}
  BY <1>0, <1>1, <1>3, <1>4, <1>5 DEF Queued
<1>7. \A n \in Queued(r) : Seen(n) = copy[r].has
  BY <1>1 DEF Seen, Queued
<1>8. \A n \in Queued(r)' : Seen(n)' = copy[r].has
  <2>1. \A n \in Queued(r)' : box'[n].rec = r
    BY DEF Queued
  <2> QED
    BY <1>1, <2>1 DEF Seen
<1>9. LaidOut(r)'
  <2>1. ASSUME NEW n \in Queued(r)'
        PROVE  \E k \in Queued(r) :
                 /\ box'[n].order = box[k].order /\ box'[n].before = box[k].before
                 /\ box'[n].data \subseteq box[k].data \cup Seen(k)
                 /\ Seen(n)' = Seen(k)
    <3>1. CASE n = new
      BY <1>1, <1>5, <1>7, <1>8, <3>1
    <3>2. CASE n # new
      <4>1. n \in Queued(r) /\ box'[n] = box[n]
        BY <1>4, <1>6, <3>2 DEF Queued
      <4> QED
        BY <1>7, <1>8, <4>1
    <3> QED
      BY <3>1, <3>2
  <2>2. ASSUME NEW k \in Queued(r)
        PROVE  \E n \in Queued(r)' :
                 box'[n].order = box[k].order /\ box[k].data \subseteq box'[n].data
    <3>1. CASE k = m
      BY <1>5, <1>6, <3>1
    <3>2. CASE k # m
      <4>1. k \in Queued(r)' /\ box'[k] = box[k]
        BY <1>4, <1>6, <3>2 DEF Queued
      <4> QED
        BY <4>1
    <3> QED
      BY <3>1, <3>2
  <2> QED
    BY <1>1, <1>7, <2>1, <2>2, GrownLaidOut DEF Shown
<1>10. \A x \in Records \ {r} : LaidOut(x)'
  <2>1. \A n \in DOMAIN box : box[n].rec # r =>
          n \in DOMAIN box' /\ Alike(box'[n], box[n]) /\ box'[n].before = box[n].before
    BY <1>0, <1>4 DEF Alike
  <2>2. \A n \in DOMAIN box \cap DOMAIN box' : box'[n].rec = box[n].rec
    BY <1>1, <1>3, <1>4
  <2>3. /\ \A n \in DOMAIN box' : box'[n].rec # r => n \in DOMAIN box
        /\ copy' = [copy EXCEPT ![r] = copy[r]]
    BY <1>1, <1>4, <1>5
  <2> QED
    BY <1>1, <2>1, <2>2, <2>3, OthersShown
<1>11. Tidy'
  <2>1. box[m].snapshot = Absent
    BY <1>1 DEF Shown, Tidy
  <2> QED
    BY <1>1, <1>3, <1>4, <1>5, <2>1, TidyReplaced DEF Shown
<1> QED
  BY <1>9, <1>10, <1>11 DEF Shown

\* The mutations after m are laid anew over m, another one is in its place.
LEMMA AnewLaidOut ==
  ASSUME NEW x, LaidOut(x), UNCHANGED dropped, NEW m \in Queued(x),
         \A k \in Queued(x) : box[k].order \in Nat,
         \A k \in Queued(x) : box[k].order = box[m].order => k = m,
         \A n \in Queued(x)' : \E k \in Queued(x) :
           /\ box'[n].order = box[k].order /\ box'[n].data = box[k].data
           /\ box[k].order <= box[m].order => box'[n].before = box[k].before
           /\ box[k].order > box[m].order => \A e \in Ids : e \in box'[n].before.has <=>
                \/ e \in box[m].before.has
                \/ \E j \in Queued(x) : /\ box[j].order >= box[m].order
                                        /\ box[j].order < box[k].order /\ e \in box[j].data,
         \A k \in Queued(x) : \E n \in Queued(x)' :
           box'[n].order = box[k].order /\ box'[n].data = box[k].data,
         \A n \in Queued(x)' : \A e \in Ids : e \in Seen(n)' <=> From(e, m, x)
  PROVE  LaidOut(x)'
<1> SUFFICES ASSUME NEW i \in Queued(x)', NEW n \in Queued(x)', NEW e \in Ids \ dropped
             PROVE  /\ e \in box'[i].data => e \in Seen(n)'
                    /\ e \in Seen(n)' => From(e, i, x)'
                    /\ box'[i].order < box'[n].order =>
                         /\ e \in box'[i].data => From(e, n, x)'
                         /\ e \in box'[n].before.has => From(e, i, x)'
  BY DEF LaidOut
<1>1. ASSUME NEW j \in Queued(x)', NEW k \in Queued(x), box'[j].order = box[k].order,
             box'[j].before = box[k].before, From(e, k, x)
      PROVE  From(e, j, x)'
  <2>1. CASE e \in box[k].before.has
    BY <1>1, <2>1 DEF From
  <2>2. CASE \E h \in Queued(x) : box[h].order >= box[k].order /\ e \in box[h].data
    <3>1. PICK h \in Queued(x) : box[h].order >= box[k].order /\ e \in box[h].data
      BY <2>2
    <3>2. PICK l \in Queued(x)' : box'[l].order = box[h].order /\ box'[l].data = box[h].data
      OBVIOUS
    <3>3. box'[l].order >= box'[j].order /\ e \in box'[l].data
      BY <1>1, <3>1, <3>2
    <3> QED
      BY <3>3 DEF From
  <2> QED
    BY <1>1, <2>1, <2>2 DEF From
<1>2. ASSUME NEW j \in Queued(x)', From(e, m, x) PROVE From(e, j, x)'
  <2>1. PICK k \in Queued(x) :
          /\ box'[j].order = box[k].order /\ box'[j].data = box[k].data
          /\ box[k].order <= box[m].order => box'[j].before = box[k].before
          /\ box[k].order > box[m].order => (e \in box'[j].before.has <=>
               \/ e \in box[m].before.has
               \/ \E h \in Queued(x) : /\ box[h].order >= box[m].order
                                       /\ box[h].order < box[k].order /\ e \in box[h].data)
    OBVIOUS
  <2>2. box[k].order \in Nat /\ box[m].order \in Nat
    OBVIOUS
  <2>3. CASE box[k].order <= box[m].order
    <3>1. From(e, k, x)
      <4>1. CASE box[k].order = box[m].order
        BY <1>2, <4>1
      <4>2. CASE box[k].order < box[m].order
        <5>1. e \in box[m].before.has => From(e, k, x)
          BY <4>2 DEF LaidOut
        <5>2. \A h \in Queued(x) : box[h].order >= box[m].order => box[h].order >= box[k].order
          BY <2>2, <4>2
        <5> QED
          BY <1>2, <5>1, <5>2 DEF From
      <4> QED
        BY <2>2, <2>3, <4>1, <4>2
    <3> QED
      BY <1>1, <2>1, <2>3, <3>1
  <2>4. CASE box[k].order > box[m].order
    <3>1. CASE e \in box'[j].before.has
      BY <3>1 DEF From
    <3>2. CASE e \notin box'[j].before.has
      <4>1. PICK h \in Queued(x) : box[h].order >= box[m].order /\ e \in box[h].data
        BY <1>2, <2>1, <2>4, <3>2 DEF From
      <4>2. box[h].order >= box[k].order
        BY <2>1, <2>2, <2>4, <3>2, <4>1
      <4>3. PICK l \in Queued(x)' : box'[l].order = box[h].order /\ box'[l].data = box[h].data
        OBVIOUS
      <4>4. box'[l].order >= box'[j].order /\ e \in box'[l].data
        BY <2>1, <4>1, <4>2, <4>3
      <4> QED
        BY <4>4 DEF From
    <3> QED
      BY <3>1, <3>2
  <2> QED
    BY <2>2, <2>3, <2>4
<1>3. ASSUME NEW j \in Queued(x)', e \in box'[j].data PROVE From(e, m, x)
  <2>1. PICK k \in Queued(x) : box'[j].data = box[k].data
    OBVIOUS
  <2>2. CASE box[k].order < box[m].order
    BY <1>3, <2>1, <2>2 DEF LaidOut
  <2>3. CASE box[k].order >= box[m].order
    BY <1>3, <2>1, <2>3 DEF From
  <2>4. box[k].order \in Nat /\ box[m].order \in Nat
    OBVIOUS
  <2> QED
    BY <2>2, <2>3, <2>4
<1>4. ASSUME box'[i].order < box'[n].order, e \in box'[n].before.has PROVE From(e, i, x)'
  <2>1. PICK k \in Queued(x) :
          /\ box'[n].order = box[k].order
          /\ box[k].order <= box[m].order => box'[n].before = box[k].before
          /\ box[k].order > box[m].order => (e \in box'[n].before.has <=>
               \/ e \in box[m].before.has
               \/ \E h \in Queued(x) : /\ box[h].order >= box[m].order
                                       /\ box[h].order < box[k].order /\ e \in box[h].data)
    OBVIOUS
  <2>2. PICK l \in Queued(x) :
          /\ box'[i].order = box[l].order
          /\ box[l].order <= box[m].order => box'[i].before = box[l].before
    OBVIOUS
  <2>3. box[k].order \in Nat /\ box[m].order \in Nat /\ box[l].order \in Nat
    OBVIOUS
  <2>4. CASE box[k].order > box[m].order
    <3>1. From(e, m, x)
      BY <1>4, <2>1, <2>4 DEF From
    <3> QED
      BY <1>2, <3>1
  <2>5. CASE box[k].order = box[m].order
    <3>1. box'[n].before = box[m].before
      BY <2>1, <2>3, <2>5
    <3>2. From(e, m, x)
      BY <1>4, <3>1 DEF From
    <3> QED
      BY <1>2, <3>2
  <2>6. CASE box[k].order < box[m].order
    <3>1. e \in box[k].before.has /\ box[l].order < box[k].order
      BY <1>4, <2>1, <2>2, <2>3, <2>6
    <3>2. From(e, l, x)
      BY <3>1 DEF LaidOut
    <3>3. box'[i].before = box[l].before
      BY <2>2, <2>3, <2>6, <3>1
    <3> QED
      BY <1>1, <2>2, <3>2, <3>3
  <2> QED
    BY <2>3, <2>4, <2>5, <2>6
<1>5. e \in box'[i].data => e \in Seen(n)' /\ From(e, n, x)'
  BY <1>2, <1>3
<1>6. e \in Seen(n)' => From(e, i, x)'
  BY <1>2
<1> QED
  BY <1>4, <1>5, <1>6

LEMMA RetryMutationShown ==
  ASSUME Typed, Conserved, Shown, NEW m, RetryMutation(m)
  PROVE  Shown'
<1>0. PICK r \in Records : r = box[m].rec
  BY ResolvedType DEF RetryMutation, Typed
<1>1. /\ m \in DOMAIN box /\ m \in Queued(r) /\ box[m] \in Mutation /\ ~box[m].quarantined
      /\ listed /\ UNCHANGED <<listed, dropped, pc>> /\ NewId \notin DOMAIN box
      /\ copy \in [Records -> Doc]
  BY <1>0, ResolvedType, FreshNew DEF RetryMutation, Typed, TypeOK, passVars, pastVars
<1>2. PICK new, out, later, from :
        /\ new = NewId /\ out = With(Without(m), NewId, Again(m))
        /\ later = {n \in Queued(r) : box[n].order > box[m].order}
        /\ from = Over(box[m].before, {new}, out)
  OBVIOUS
<1>3. /\ Outbox(out) /\ later \in SUBSET DOMAIN out /\ from \in Doc
      /\ DOMAIN out = (DOMAIN box \ {m}) \cup {new}
      /\ box' = Rebased(later, from, out)
      /\ copy' = [copy EXCEPT ![r] = Over(from, later, out)]
  <2>1. TypeOK
    BY DEF Typed
  <2>2. Reissued(m) = out /\ LaterThan(m) = later /\ Regained(m) = from
    BY <1>0, <1>2 DEF Reissued, LaterThan, Regained
  <2> QED
    BY <1>0, <1>2, <2>1, <2>2, RetryWrites
<1>4. out[new] = Again(m) /\ \A n \in DOMAIN box \ {m} : out[n] = box[n]
  BY <1>1, <1>2 DEF With, Without
<1>5. /\ Again(m).rec = r /\ Again(m).quarantined = box[m].quarantined
      /\ Again(m).before = box[m].before /\ Again(m).snapshot = box[m].snapshot
      /\ Again(m).order = box[m].order /\ Again(m).data = box[m].data
  BY <1>0, <1>1 DEF Again, Mutation
<1>6. /\ DOMAIN box' = (DOMAIN box \ {m}) \cup {new} /\ new \notin DOMAIN box
      /\ new \notin later /\ m \notin later /\ later \subseteq Queued(r)
  BY <1>1, <1>2, <1>3, RebasedType DEF Mutation, Queued
<1>7. /\ box'[new] = Again(m)
      /\ \A n \in DOMAIN box \ {m} :
           /\ Alike(box'[n], box[n])
           /\ n \notin later => box'[n] = box[n]
           /\ n \in later => box'[n].before = Over(from, Earlier(later, n), out)
  <2>1. \A n \in DOMAIN out : /\ Alike(box'[n], out[n])
                              /\ n \notin later => box'[n] = out[n]
                              /\ n \in later => box'[n].before = Over(from, Earlier(later, n), out)
    BY <1>3, RebasedAlike
  <2> QED
    BY <1>3, <1>4, <1>6, <2>1
<1>8. Queued(r)' = (Queued(r) \ {m}) \cup {new}
  BY <1>0, <1>1, <1>5, <1>6, <1>7 DEF Queued, Alike
<1>9. \A n \in Queued(r) : /\ n \in DOMAIN box /\ box[n].order \in Nat
                           /\ Seen(n) = copy[r].has
  BY <1>1 DEF Seen, Queued, Typed, TypeOK, Mutation
<1>10. ASSUME NEW n \in Queued(r)'
       PROVE  /\ box'[n].order \in Nat
              /\ n = new => /\ box'[n].order = box[m].order /\ box'[n].data = box[m].data
                            /\ box'[n].before = box[m].before
              /\ n # new => /\ n \in Queued(r) /\ n # m /\ box'[n].order = box[n].order
                            /\ box'[n].data = box[n].data
                            /\ n \notin later => box'[n].before = box[n].before
  <2>1. CASE n = new
    BY <1>1, <1>5, <1>7, <1>9, <2>1
  <2>2. CASE n # new
    BY <1>7, <1>8, <1>9, <2>2 DEF Alike
  <2> QED
    BY <2>1, <2>2
\* Nothing but the retried mutation has its order.
<1>11. \A k \in Queued(r) : \/ k = m \/ k \in later
                            \/ box[k].order < box[m].order /\ k \notin later
  BY <1>1, <1>2, <1>9 DEF Shown, Tidy
<1>12. \A e : e \in from.has <=> e \in box[m].before.has \/ e \in box[m].data
  BY <1>2, <1>4, <1>5 DEF Over
<1>13. ASSUME NEW n \in later, NEW e
       PROVE  e \in box'[n].before.has <=>
                \/ e \in from.has
                \/ \E k \in later : box[k].order < box[n].order /\ e \in box[k].data
  <2>1. n \in DOMAIN box \ {m} /\ \A k \in later : out[k] = box[k]
    BY <1>4, <1>6, <1>9
  <2>2. box'[n].before = Over(from, Earlier(later, n), out)
    BY <1>7, <2>1
  <2>3. box'[n].before.has = from.has \cup UNION {out[k].data : k \in Earlier(later, n)}
    BY <2>2 DEF Over
  <2>4. \A k : k \in Earlier(later, n) <=> k \in later /\ box[k].order < box[n].order
    BY DEF Earlier
  <2> QED
    BY <2>1, <2>3, <2>4
<1>14. ASSUME NEW n \in Queued(r)', NEW e
       PROVE  e \in Seen(n)' <=> From(e, m, r)
  <2>1. box'[n].rec = r
    BY DEF Queued
  <2>2. Seen(n)' = Over(from, later, out).has
    BY <1>1, <1>3, <2>1 DEF Seen
  <2>3. \A k \in later : out[k] = box[k]
    BY <1>4, <1>6, <1>9
  <2>4. e \in Over(from, later, out).has <=> e \in from.has \/ \E k \in later : e \in box[k].data
    BY <2>3 DEF Over
  <2>5. From(e, m, r) <=> e \in from.has \/ \E k \in later : e \in box[k].data
    <3>1. \A k \in later : k \in Queued(r) /\ box[k].order >= box[m].order
      BY <1>1, <1>2, <1>6, <1>9
    <3>2. \A k \in Queued(r) : box[k].order >= box[m].order => k = m \/ k \in later
      BY <1>1, <1>9, <1>11
    <3> QED
      BY <1>1, <1>9, <1>12, <3>1, <3>2 DEF From
  <2> QED
    BY <2>2, <2>4, <2>5
<1>15. LaidOut(r)'
  <2>1. ASSUME NEW n \in Queued(r)'
        PROVE  \E k \in Queued(r) :
          /\ box'[n].order = box[k].order /\ box'[n].data = box[k].data
          /\ box[k].order <= box[m].order => box'[n].before = box[k].before
          /\ box[k].order > box[m].order => \A e \in Ids : e \in box'[n].before.has <=>
               \/ e \in box[m].before.has
               \/ \E j \in Queued(r) : /\ box[j].order >= box[m].order
                                       /\ box[j].order < box[k].order /\ e \in box[j].data
    <3>1. CASE n = new
      <4>1. ~(box[m].order > box[m].order)
        BY <1>1, <1>9
      <4> QED
        BY <1>1, <1>10, <3>1, <4>1
    <3>2. CASE n # new /\ n \notin later
      <4>1. /\ n \in Queued(r) /\ box'[n].order = box[n].order /\ box'[n].data = box[n].data
            /\ box'[n].before = box[n].before /\ ~(box[n].order > box[m].order)
        BY <1>2, <1>10, <3>2
      <4> QED
        BY <4>1
    <3>3. CASE n \in later
      <4>1. /\ n \in Queued(r) /\ box'[n].order = box[n].order /\ box'[n].data = box[n].data
            /\ ~(box[n].order <= box[m].order)
        BY <1>1, <1>2, <1>6, <1>9, <1>10, <3>3
      <4>2. ASSUME NEW e \in Ids
            PROVE  e \in box'[n].before.has <=>
                     \/ e \in box[m].before.has
                     \/ \E j \in Queued(r) : /\ box[j].order >= box[m].order
                                             /\ box[j].order < box[n].order /\ e \in box[j].data
        <5>1. e \in box'[n].before.has <=>
                \/ e \in box[m].before.has \/ e \in box[m].data
                \/ \E k \in later : box[k].order < box[n].order /\ e \in box[k].data
          BY <1>12, <1>13, <3>3
        <5>2. \A k \in Queued(r) : box[k].order >= box[m].order <=> k = m \/ k \in later
          BY <1>1, <1>2, <1>9, <1>11
        <5>3. box[m].order < box[n].order
          BY <1>1, <1>9, <4>1
        <5> QED
          BY <1>1, <1>6, <5>1, <5>2, <5>3
      <4> QED
        BY <4>1, <4>2
    <3> QED
      BY <3>1, <3>2, <3>3
  <2>2. ASSUME NEW k \in Queued(r)
        PROVE  \E n \in Queued(r)' : box'[n].order = box[k].order /\ box'[n].data = box[k].data
    <3>1. CASE k = m
      BY <1>8, <1>10, <3>1
    <3>2. CASE k # m
      <4>1. k \in Queued(r)' /\ k # new
        BY <1>6, <1>8, <1>9, <3>2
      <4> QED
        BY <1>10, <4>1
    <3> QED
      BY <3>1, <3>2
  <2>3. \A k \in Queued(r) : box[k].order = box[m].order => k = m
    BY <1>1, <1>9 DEF Shown, Tidy
  <2>4. LaidOut(r) /\ UNCHANGED dropped /\ \A k \in Queued(r) : box[k].order \in Nat
    BY <1>1, <1>9 DEF Shown
  <2>5. \A n \in Queued(r)' : \A e \in Ids : e \in Seen(n)' <=> From(e, m, r)
    BY <1>14
  <2> QED
    BY <1>1, <2>1, <2>2, <2>3, <2>4, <2>5, AnewLaidOut
<1>16. \A x \in Records \ {r} : LaidOut(x)'
  <2>1. \A n \in DOMAIN box : box[n].rec # r =>
          n \in DOMAIN box' /\ Alike(box'[n], box[n]) /\ box'[n].before = box[n].before
    <3>1. \A n \in later : box[n].rec = r
      BY <1>6 DEF Queued
    <3> QED
      BY <1>0, <1>6, <1>7, <3>1
  <2>2. \A n \in DOMAIN box \cap DOMAIN box' : box'[n].rec = box[n].rec
    BY <1>6, <1>7 DEF Alike
  <2>3. /\ \A n \in DOMAIN box' : box'[n].rec # r => n \in DOMAIN box
        /\ \E d : copy' = [copy EXCEPT ![r] = d]
    BY <1>3, <1>5, <1>6, <1>7
  <2>4. UNCHANGED listed /\ dropped \subseteq dropped'
    BY <1>1
  <2> QED
    BY <1>1, <2>1, <2>2, <2>3, <2>4, OthersShown
<1>17. Tidy'
  <2>1. box[m].snapshot = Absent
    BY <1>1 DEF Shown, Tidy
  <2>2. \A n \in DOMAIN box \ {m} :
          /\ box'[n].order = box[n].order /\ box'[n].snapshot = box[n].snapshot
          /\ box'[n].quarantined = box[n].quarantined
    BY <1>7 DEF Alike
  <2>3. box'[new].order = box[m].order /\ box'[new].snapshot = Absent
    BY <1>5, <1>7, <2>1
  <2> QED
    BY <1>1, <1>6, <2>2, <2>3, TidyReplaced DEF Shown
<1> QED
  BY <1>15, <1>16, <1>17 DEF Shown

\* A new edit is laid over what is shown, and is shown.
LEMMA MutateShown ==
  ASSUME Typed, Conserved, Shown, NEW r \in Records, NEW action \in Actions, Mutate(r, action)
  PROVE  Shown'
<1>1. PICK n \in Nat : /\ box' = With(box, NewId, Edit(r, action, n))
                       /\ \A m \in DOMAIN box : box[m].order < n
  BY MutateEdits DEF Typed
<1>2. PICK new : new = NewId
  OBVIOUS
<1>3. /\ listed /\ UNCHANGED <<listed, dropped, pc>> /\ new \notin DOMAIN box
      /\ copy \in [Records -> Doc] /\ copy' = [copy EXCEPT ![r] = Over(@, {new}, box')]
  BY <1>2, FreshNew DEF Mutate, Typed, TypeOK, passVars
<1>4. /\ DOMAIN box' = DOMAIN box \cup {new}
      /\ box'[new].rec = r /\ box'[new].order = n /\ box'[new].data = {new}
      /\ box'[new].before = copy[r] /\ box'[new].snapshot = Absent
      /\ ~box'[new].quarantined
      /\ \A k \in DOMAIN box : box'[k] = box[k]
  BY <1>1, <1>2, <1>3 DEF With, Edit
<1>5. Queued(r)' = Queued(r) \cup {new} /\ Queued(r) \subseteq DOMAIN box
  BY <1>3, <1>4 DEF Queued
<1>6. \A k \in Queued(r) : /\ Seen(k) = copy[r].has /\ box[k].order \in Nat
                           /\ box[k].order < n /\ box'[k] = box[k]
  BY <1>1, <1>3, <1>4 DEF Seen, Queued, Typed, TypeOK, Mutation
<1>7. \A k \in Queued(r)' : Seen(k)' = copy[r].has \cup {new}
  <2>1. \A k \in Queued(r)' : box'[k].rec = r
    BY DEF Queued
  <2>2. copy'[r].has = copy[r].has \cup {new}
    BY <1>3, <1>4 DEF Over
  <2> QED
    BY <1>3, <2>1, <2>2 DEF Seen
<1>8. ASSUME NEW k \in Queued(r), NEW e, From(e, k, r) PROVE From(e, k, r)'
  <2>1. CASE e \in box[k].before.has
    BY <1>6, <2>1 DEF From
  <2>2. CASE \E j \in Queued(r) : box[j].order >= box[k].order /\ e \in box[j].data
    <3>1. PICK j \in Queued(r) : box[j].order >= box[k].order /\ e \in box[j].data
      BY <2>2
    <3>2. j \in Queued(r)' /\ box'[j] = box[j] /\ box'[k] = box[k]
      BY <1>5, <1>6
    <3> QED
      BY <3>1, <3>2 DEF From
  <2> QED
    BY <1>8, <2>1, <2>2 DEF From
<1>9. ASSUME NEW k \in Queued(r)', NEW e \in Ids \ dropped, e \in copy[r].has \/ e = new
      PROVE  From(e, k, r)'
  <2>1. CASE e = new
    <3>1. new \in Queued(r)' /\ box'[new].order >= box'[k].order /\ e \in box'[new].data
      BY <1>4, <1>5, <1>6, <2>1
    <3> QED
      BY <3>1 DEF From
  <2>2. CASE e \in copy[r].has /\ k = new
    BY <1>4, <2>2 DEF From
  <2>3. CASE e \in copy[r].has /\ k # new
    <3>1. k \in Queued(r)
      BY <1>5, <2>3
    <3>2. From(e, k, r)
      BY <1>6, <2>3, <3>1 DEF LaidOut, Shown
    <3> QED
      BY <1>8, <3>1, <3>2
  <2> QED
    BY <1>9, <2>1, <2>2, <2>3
<1>10. ASSUME NEW k \in Queued(r)', NEW e \in Ids \ dropped, e \in box'[k].data
       PROVE  e \in copy[r].has \/ e = new
  <2>1. CASE k = new
    BY <1>4, <1>10, <2>1
  <2>2. CASE k # new
    <3>1. k \in Queued(r) /\ e \in box[k].data
      BY <1>5, <1>6, <1>10, <2>2
    <3>2. e \in Seen(k)
      BY <3>1 DEF LaidOut, Shown
    <3> QED
      BY <1>6, <3>1, <3>2
  <2> QED
    BY <2>1, <2>2
<1>11. ASSUME NEW i \in Queued(r)', NEW k \in Queued(r)', NEW e \in Ids \ dropped,
              box'[i].order < box'[k].order, e \in box'[k].before.has
       PROVE  From(e, i, r)'
  <2>1. CASE k = new
    BY <1>4, <1>9, <1>11, <2>1
  <2>2. CASE k # new
    <3>1. k \in Queued(r) /\ i \in Queued(r)
      BY <1>4, <1>5, <1>6, <1>11, <2>2
    <3>2. box[i].order < box[k].order /\ e \in box[k].before.has
      BY <1>6, <1>11, <3>1
    <3>3. From(e, i, r)
      BY <3>1, <3>2 DEF LaidOut, Shown
    <3> QED
      BY <1>8, <3>1, <3>3
  <2> QED
    BY <2>1, <2>2
<1>12. LaidOut(r)'
  BY <1>3, <1>7, <1>9, <1>10, <1>11 DEF LaidOut
<1>13. \A x \in Records \ {r} : LaidOut(x)'
  <2>1. \A k \in DOMAIN box : box[k].rec # r =>
          k \in DOMAIN box' /\ Alike(box'[k], box[k]) /\ box'[k].before = box[k].before
    BY <1>4 DEF Alike
  <2>2. /\ \A k \in DOMAIN box \cap DOMAIN box' : box'[k].rec = box[k].rec
        /\ \A k \in DOMAIN box' : box'[k].rec # r => k \in DOMAIN box
        /\ \E d : copy' = [copy EXCEPT ![r] = d]
        /\ UNCHANGED listed /\ dropped \subseteq dropped'
    BY <1>3, <1>4
  <2> QED
    BY <1>3, <2>1, <2>2, OthersShown
<1>14. Tidy'
  <2>1. ASSUME NEW i \in DOMAIN box', NEW k \in DOMAIN box', box'[i].order = box'[k].order
        PROVE  i = k
    <3>1. \A j \in DOMAIN box : box[j].order \in Nat /\ box[j].order < n
      BY <1>1 DEF Typed, TypeOK, Mutation
    <3> QED
      BY <1>4, <2>1, <3>1 DEF Shown, Tidy
  <2>2. \A k \in DOMAIN box' : ~box'[k].quarantined => box'[k].snapshot = Absent
    BY <1>3, <1>4 DEF Shown, Tidy
  <2> QED
    BY <1>3, <2>1, <2>2 DEF Shown, Tidy
<1> QED
  BY <1>12, <1>13, <1>14 DEF Shown

LEMMA DiscardQuarantinedShown ==
  ASSUME Typed, Shown, NEW m, DiscardQuarantined(m)
  PROVE  Shown'
<1>1. /\ UNCHANGED <<copy, listed, pc>> /\ dropped \subseteq dropped'
      /\ DOMAIN box' \subseteq DOMAIN box /\ \A n \in DOMAIN box' : box'[n] = box[n]
      /\ \A x : Queued(x)' = Queued(x)
  BY QuarantinedGone DEF Typed, passVars
<1>2. ASSUME NEW x \in Records PROVE LaidOut(x)'
  <2>1. LaidOut(x)
    BY DEF Shown
  <2>2. ASSUME NEW n \in Queued(x)'
        PROVE  n \in Queued(x) /\ box'[n] = box[n] /\ Seen(n)' = Seen(n)
    <3>1. n \in DOMAIN box'
      BY <2>2 DEF Queued
    <3> QED
      BY <1>1, <2>2, <3>1, SameSeen
  <2> QED
    BY <1>1, <2>1, <2>2, KeptLaidOut
<1>3. Tidy'
  BY <1>1, TidyKept DEF Shown, Tidy
<1> QED
  BY <1>2, <1>3 DEF Shown

LEMMA InitShown == Init => Shown
  BY DEF Init, Shown, Tidy, LaidOut, Queued, Working

LEMMA NextShown == Typed /\ Conserved /\ Shown /\ [Next]_vars => Shown'
<1> SUFFICES ASSUME Typed, Conserved, Shown, [Next]_vars PROVE Shown'
  OBVIOUS
<1>1. CASE PassMoves
  BY <1>1, PassShown, AcceptPolicyShown, RefreshManifestShown, AcknowledgeShown, RejectShown,
     EndShown, ApplyPullShown DEF PassMoves
<1>2. CASE Fails \/ SessionExpires \/ ChangePolicy \/ ResumeAuthorization \/ Serves
           \/ (\E r \in Records : Write(r)) \/ UNCHANGED vars
  BY <1>2, PassShown, EndShown
<1>3. CASE \E r \in Records, action \in Actions : Mutate(r, action)
  BY <1>3, MutateShown
<1>4. CASE \E m \in DOMAIN box : \/ AcceptMaster(m) \/ RetryWithLocal(m)
                                 \/ RetryMutation(m)
                                 \/ Discard(m) \/ DiscardQuarantined(m)
  BY <1>4, AcceptMasterShown, RetryWithLocalShown, RetryMutationShown, DiscardShown,
     DiscardQuarantinedShown
<1> QED
  BY <1>1, <1>2, <1>3, <1>4 DEF Next

\* What the user has entered and not given up stays in the document that is
\* shown of its record, through pulls, answers, other resolutions of its
\* record and a new sign-in.
THEOREM EditsStayInView == Spec => []EditsShown
<1>1. Spec => [](Typed /\ Conserved /\ Shown)
  BY InitTyped, NextTyped, InitConserved, NextConserved, InitShown, NextShown, PTL DEF Spec
<1>2. Typed /\ Shown => EditsShown
  <2> SUFFICES ASSUME Typed, Shown, listed, NEW m \in DOMAIN box, ~box[m].quarantined
               PROVE  box[m].data \ dropped \subseteq copy[box[m].rec].has
    BY DEF EditsShown
  <2>1. box[m].rec \in Records /\ box[m].data \subseteq Ids
    BY DEF Typed, TypeOK, Mutation
  <2>2. m \in Queued(box[m].rec) /\ LaidOut(box[m].rec)
    BY <2>1 DEF Queued, Shown
  <2>3. Seen(m) = copy[box[m].rec].has
    BY DEF Seen
  <2> QED
    BY <2>1, <2>2, <2>3 DEF LaidOut
<1> QED
  BY <1>1, <1>2, PTL

-----------------------------------------------------------------------------
(* The replica and the journal.                                            *)

\* Numbers that the journal has reached: a later change has a greater one.
Reached(n) == n = 0 \/ \E x \in Records : n <= seq[x]

Journal ==
  /\ Reached(cursor.seq)
  /\ ~listed => cursor = Start
  /\ \A r \in Records : seq[r] = 0 => doc[r] = Absent

\* A page has what the journal holds between the cursor and its end.
PageCurrent ==
  pc = "page" =>
    /\ Reached(page.next.seq) /\ cursor.seq <= page.next.seq
    /\ \A r \in DOMAIN page.docs \cup page.removed : seq[r] > cursor.seq
    /\ \A r \in Records : seq[r] <= page.next.seq =>
         /\ r \in DOMAIN page.docs => page.docs[r] = doc[r] /\ ~doc[r].gone
         /\ r \in page.removed => doc[r].gone
         /\ seq[r] > cursor.seq => \/ r \in DOMAIN page.docs \cup page.removed
                                   \/ doc[r].gone /\ r \notin delivered

\* What an answer says is so until the journal passes the cursor.
AnswerCurrent ==
  reply # None /\ reply.kind = "ok" =>
    reply.doc = doc[reply.rec] \/ seq[reply.rec] > cursor.seq

Current == ReplicaCurrent /\ Journal /\ PageCurrent /\ AnswerCurrent

\* Changes of records go to the end of the journal.
Appended ==
  \A r \in Records : \/ doc'[r] = doc[r] /\ seq'[r] = seq[r]
                     \/ \A x \in Records : seq'[r] > seq[x]

LEMMA ChangeAppends ==
  ASSUME TypeOK, NEW r \in Records, NEW d \in Doc, Change(r, d)
  PROVE  Appended
<1>1. seq \in [Records -> Nat] /\ doc \in [Records -> Doc] /\ IsFiniteSet(Records)
      /\ Records # {}
  BY LocalSyncAssumption DEF TypeOK
<1>2. /\ Max({seq[x] : x \in Records}) \in Nat
      /\ \A y \in Records : seq[y] <= Max({seq[x] : x \in Records})
  BY <1>1, MaxOfValues
<1>3. seq'[r] = 1 + Max({seq[x] : x \in Records})
  BY <1>1 DEF Change
<1>4. \A x \in Records : seq'[r] > seq[x]
  BY <1>1, <1>2, <1>3
<1>5. \A x \in Records : x # r => doc'[x] = doc[x] /\ seq'[x] = seq[x]
  BY <1>1 DEF Change
<1> QED
  BY <1>4, <1>5 DEF Appended

\* What a number of the journal is worth after a step.
LEMMA JournalGrows ==
  ASSUME Typed, Typed', Appended, NEW n \in Nat, Reached(n)
  PROVE  /\ Reached(n)'
         /\ \A r \in Records : seq'[r] <= n => doc'[r] = doc[r] /\ seq'[r] = seq[r]
         /\ \A r \in Records : seq'[r] >= seq[r]
<1>1. \A r \in Records : seq[r] \in Nat /\ seq'[r] \in Nat
  BY DEF Typed, TypeOK
<1>2. \A r \in Records : seq'[r] >= seq[r]
  BY <1>1 DEF Appended
<1>3. Reached(n)'
  BY <1>1, <1>2 DEF Reached
<1>4. ASSUME NEW r \in Records, seq'[r] <= n PROVE doc'[r] = doc[r] /\ seq'[r] = seq[r]
  <2>1. CASE \A x \in Records : seq'[r] > seq[x]
    <3>1. ~(n = 0)
      BY <1>1, <1>4, <2>1
    <3>2. PICK x \in Records : n <= seq[x]
      BY <3>1 DEF Reached
    <3> QED
      BY <1>1, <1>4, <2>1, <3>2
  <2> QED
    BY <2>1 DEF Appended
<1> QED
  BY <1>2, <1>3, <1>4

\* Steps that leave the cursor alone.
LEMMA CurrentKept ==
  ASSUME Typed, Typed', Current, Appended, UNCHANGED <<listed, cursor>>,
         \A r \in Records : doc'[r].gone /\ r \in delivered' => r \in delivered \/ doc'[r] # doc[r],
         \A r \in Records \ (Protected \cup byHand)' :
           \/ r \notin Protected \cup byHand /\ copy'[r] = copy[r]
           \/ seq'[r] <= cursor.seq => copy'[r] = doc'[r],
         pc' = "page" => pc = "page" /\ page' = page,
         \/ reply' = None \/ reply' = reply
         \/ reply'.kind = "ok" => reply'.doc = doc'[reply'.rec]
  PROVE  Current'
<1>1. cursor.seq \in Nat /\ cursor'.seq = cursor.seq /\ \A r \in Records : seq[r] \in Nat /\ seq'[r] \in Nat
  BY DEF Typed, TypeOK
<1>2. /\ Reached(cursor.seq)'
      /\ \A r \in Records : seq'[r] <= cursor.seq => doc'[r] = doc[r] /\ seq'[r] = seq[r]
      /\ \A r \in Records : seq'[r] >= seq[r]
  <2>1. Reached(cursor.seq) /\ cursor'.seq = cursor.seq
    BY DEF Current, Journal
  <2>2. PICK n \in Nat : n = cursor.seq
    BY <1>1
  <2>3. /\ Reached(n)'
        /\ \A r \in Records : seq'[r] <= n => doc'[r] = doc[r] /\ seq'[r] = seq[r]
        /\ \A r \in Records : seq'[r] >= seq[r]
    BY <2>1, <2>2, JournalGrows
  <2> QED
    BY <2>1, <2>2, <2>3 DEF Reached
<1>3. ReplicaCurrent'
  <2> SUFFICES ASSUME listed, NEW r \in Records \ (Protected \cup byHand)', seq'[r] <= cursor.seq
               PROVE  IF doc'[r].gone THEN copy'[r] = Absent \/ copy'[r].gone \/ r \notin delivered'
                      ELSE copy'[r] = doc'[r]
    BY <1>1 DEF ReplicaCurrent
  <2>1. doc'[r] = doc[r] /\ seq[r] <= cursor.seq
    BY <1>2
  <2>2. CASE copy'[r] = doc'[r]
    BY <2>2
  <2>3. CASE r \notin Protected \cup byHand /\ copy'[r] = copy[r]
    <3>1. IF doc[r].gone THEN copy[r] = Absent \/ copy[r].gone \/ r \notin delivered
          ELSE copy[r] = doc[r]
      BY <2>1, <2>3 DEF Current, ReplicaCurrent
    <3> QED
      BY <2>1, <2>3, <3>1
  <2> QED
    BY <2>2, <2>3
<1>4. Journal'
  <2>1. ASSUME NEW r \in Records, seq'[r] = 0 PROVE doc'[r] = Absent
    <3>1. doc'[r] = doc[r] /\ seq[r] = 0
      BY <1>1, <1>2, <2>1
    <3> QED
      BY <3>1 DEF Current, Journal
  <2> QED
    BY <1>1, <1>2, <2>1 DEF Current, Journal, Reached
<1>5. PageCurrent'
  <2> SUFFICES ASSUME pc = "page", page' = page PROVE PageCurrent'
    BY DEF PageCurrent
  <2>1. PICK n \in Nat : n = page.next.seq
    BY DEF Typed, PageOK
  <2>2. /\ Reached(n)'
        /\ \A r \in Records : seq'[r] <= n => doc'[r] = doc[r] /\ seq'[r] = seq[r]
    BY <2>1, JournalGrows DEF Current, PageCurrent
  <2>3. \A r \in DOMAIN page.docs \cup page.removed : r \in Records
    BY DEF Typed, PageOK
  <2>4. \A r \in DOMAIN page.docs \cup page.removed : seq'[r] > cursor.seq
    BY <1>1, <1>2, <2>3 DEF Current, PageCurrent
  <2>5. ASSUME NEW r \in Records, seq'[r] <= n
        PROVE  /\ r \in DOMAIN page.docs => page.docs[r] = doc'[r] /\ ~doc'[r].gone
               /\ r \in page.removed => doc'[r].gone
               /\ seq'[r] > cursor.seq => \/ r \in DOMAIN page.docs \cup page.removed
                                          \/ doc'[r].gone /\ r \notin delivered'
    BY <2>1, <2>2, <2>5 DEF Current, PageCurrent
  <2> QED
    BY <1>1, <2>1, <2>2, <2>4, <2>5 DEF Current, PageCurrent, Reached
<1>6. AnswerCurrent'
  <2> SUFFICES ASSUME reply' # None, reply'.kind = "ok"
               PROVE  reply'.doc = doc'[reply'.rec] \/ seq'[reply'.rec] > cursor.seq
    BY <1>1 DEF AnswerCurrent
  <2>1. CASE reply' = reply
    <3>1. reply.rec \in Records
      BY <2>1 DEF Typed, AnswerOK
    <3>2. reply.doc = doc[reply.rec] \/ seq[reply.rec] > cursor.seq
      BY <2>1 DEF Current, AnswerCurrent
    <3> QED
      BY <1>1, <1>2, <2>1, <3>1, <3>2
  <2> QED
    BY <2>1
<1> QED
  BY <1>3, <1>4, <1>5, <1>6 DEF Current

LEMMA QuietCurrent ==
  ASSUME Typed, Typed', Current,
         UNCHANGED <<doc, seq, copy, box, listed, cursor, byHand>>, delivered' \subseteq delivered,
         pc' = "page" => pc = "page" /\ page' = page,
         reply' = None \/ reply' = reply
  PROVE  Current'
<1>1. Appended
  BY DEF Appended
<1>2. (Protected \cup byHand)' = Protected \cup byHand
  BY DEF Protected, Queued
<1>3. \A r \in Records \ (Protected \cup byHand)' : r \notin Protected \cup byHand /\ copy'[r] = copy[r]
  BY <1>2
<1>4. \A r \in Records : doc'[r].gone /\ r \in delivered' => r \in delivered \/ doc'[r] # doc[r]
  OBVIOUS
<1> QED
  BY <1>1, <1>3, <1>4, CurrentKept

LEMMA PassCurrent ==
  ASSUME Typed, Typed', Current,
         \/ FetchManifest \/ ListOutbox \/ SkipMutation \/ Push \/ SkipPull \/ BeginPull
         \/ Fails \/ ChangePolicy \/ ResumeAuthorization \/ UNCHANGED vars
  PROVE  Current'
<1>1. CASE FetchManifest \/ ListOutbox \/ SkipMutation \/ Push
  BY <1>1, QuietCurrent
  DEF FetchManifest, ListOutbox, SkipMutation, Push, serverVars, storeVars, pastVars
<1>2. CASE SkipPull \/ BeginPull \/ Fails
  BY <1>2, QuietCurrent DEF SkipPull, BeginPull, Fails, Idle, Step, serverVars, storeVars, pastVars
<1>3. CASE ChangePolicy \/ ResumeAuthorization \/ UNCHANGED vars
  BY <1>3, QuietCurrent
  DEF ChangePolicy, ResumeAuthorization, vars, serverVars, storeVars, passVars, pastVars
<1> QED
  BY <1>1, <1>2, <1>3

\* A rejected mutation stays in the queue.
LEMMA RejectCurrent ==
  ASSUME Typed, Typed', Current, Reject
  PROVE  Current'
<1>1. /\ UNCHANGED <<doc, seq, delivered, copy, listed, cursor, byHand, page>>
      /\ reply' = None /\ pc' # "page"
  BY DEF Reject, Onward, serverVars, pastVars
<1>2. DOMAIN box' = DOMAIN box
  BY DEF Reject
<1>3. ASSUME NEW n \in DOMAIN box
      PROVE  box'[n].rec = box[n].rec /\ box'[n].quarantined = box[n].quarantined
  <2>1. box[n] \in Mutation
    BY DEF Typed, TypeOK
  <2>2. CASE UNCHANGED box
    BY <2>2
  <2>3. CASE box' = [box EXCEPT ![reply.id].state  = Verdict(reply.kind),
                                ![reply.id].master = IF reply.kind = "conflict" THEN reply.doc
                                                     ELSE @]
    <3>1. CASE n = reply.id
      BY <2>1, <2>3, <3>1 DEF Mutation
    <3>2. CASE n # reply.id
      BY <2>3, <3>2
    <3> QED
      BY <3>1, <3>2
  <2> QED
    BY <2>2, <2>3 DEF Reject
<1>4. (Protected \cup byHand)' = Protected \cup byHand
  <2>1. \A x : Queued(x)' = Queued(x)
    BY <1>2, <1>3 DEF Queued
  <2> QED
    BY <1>1, <2>1 DEF Protected
<1>5. \A r \in Records \ (Protected \cup byHand)' : r \notin Protected \cup byHand /\ copy'[r] = copy[r]
  BY <1>1, <1>4
<1>6. Appended
  BY <1>1 DEF Appended
<1> QED
  BY <1>1, <1>5, <1>6, CurrentKept

\* The server appends what it changes, and answers with what it has.
LEMMA ServerCurrent ==
  ASSUME Typed, Typed', Current, Serves \/ \E r \in Records : Write(r)
  PROVE  Current'
<1>1. /\ UNCHANGED <<copy, box, listed, cursor, byHand, delivered, pc, page>>
      /\ Appended
      /\ reply' = reply \/ (reply'.kind = "ok" => reply'.doc = doc'[reply'.rec])
  <2>1. ASSUME NEW q \in requests, Check(q)
        PROVE  /\ UNCHANGED <<copy, box, listed, cursor, byHand, delivered, pc, page, doc, seq>>
               /\ reply' = reply \/ (reply'.kind = "ok" => reply'.doc = doc'[reply'.rec])
    <3>1. UNCHANGED <<copy, box, listed, cursor, byHand, delivered, pc, page, doc, seq>>
      BY <2>1 DEF Check, serverVars, storeVars, pastVars
    <3> QED
      BY <2>1, <3>1 DEF Check, Replay, Answered
  <2>2. ASSUME NEW q \in requests, Commit(q)
        PROVE  /\ UNCHANGED <<copy, box, listed, cursor, byHand, delivered, pc, page>>
               /\ Appended
               /\ reply' = reply \/ (reply'.kind = "ok" => reply'.doc = doc'[reply'.rec])
    <3>1. UNCHANGED <<copy, box, listed, cursor, byHand, delivered, pc, page>>
      BY <2>2 DEF Commit, storeVars
    <3>2. q.rec \in Records /\ Merged(q) \in Doc /\ doc \in [Records -> Doc]
      BY MergedType DEF Typed, TypeOK, Request
    <3>3. CASE Guarded(q) /\ q.id \notin DOMAIN receipt
      <4>1. Change(q.rec, Merged(q)) /\ Answered(q, "ok", Merged(q))
        BY <2>2, <3>3 DEF Commit
      <4>2. doc'[q.rec] = Merged(q)
        BY <3>2, <4>1 DEF Change
      <4>3. Appended
        BY <3>2, <4>1, ChangeAppends DEF Typed
      <4> QED
        BY <3>1, <4>1, <4>2, <4>3 DEF Answered
    <3>4. CASE ~(Guarded(q) /\ q.id \notin DOMAIN receipt)
      <4>1. UNCHANGED <<doc, seq>>
        BY <2>2, <3>4 DEF Commit
      <4>2. reply' = reply \/ (reply'.kind = "ok" => reply'.doc = doc'[reply'.rec])
        BY <2>2, <3>4, <4>1 DEF Commit, Replay, Answered
      <4> QED
        BY <3>1, <4>1, <4>2 DEF Appended
    <3> QED
      BY <3>3, <3>4
  <2>3. ASSUME NEW r \in Records, Write(r)
        PROVE  /\ UNCHANGED <<copy, box, listed, cursor, byHand, delivered, pc, page, reply>>
               /\ Appended
    <3>1. PICK g \in BOOLEAN : Change(r, [doc[r] EXCEPT !.ver = @ + 1, !.gone = g])
      BY <2>3 DEF Write
    <3>2. [doc[r] EXCEPT !.ver = @ + 1, !.gone = g] \in Doc
      <4>1. doc[r] \in Doc /\ doc[r].ver \in Nat
        BY DEF Typed, TypeOK, Doc
      <4>2. doc[r].ver + 1 \in Nat
        BY <4>1
      <4> QED
        BY <4>1, <4>2 DEF Doc
    <3> QED
      BY <2>3, <3>1, <3>2, ChangeAppends DEF Write, Typed, storeVars, passVars, pastVars
  <2> QED
    BY <2>1, <2>2, <2>3 DEF Serves, Appended
<1>2. (Protected \cup byHand)' = Protected \cup byHand
  BY <1>1 DEF Protected, Queued
<1>3. \A r \in Records \ (Protected \cup byHand)' : r \notin Protected \cup byHand /\ copy'[r] = copy[r]
  BY <1>1, <1>2
<1> QED
  BY <1>1, <1>3, CurrentKept

\* A user's step at one record: it has queued mutations or was resolved.
LEMMA UserCurrent ==
  ASSUME Typed, Typed', Current, NEW r \in Records,
         UNCHANGED <<serverVars, listed, cursor, passVars>>, byHand \subseteq byHand',
         r \in Protected' \/ r \in byHand', \E d : copy' = [copy EXCEPT ![r] = d],
         \A n \in DOMAIN box : box[n].rec # r =>
           /\ n \in DOMAIN box' /\ box'[n].rec = box[n].rec
           /\ box'[n].quarantined = box[n].quarantined
  PROVE  Current'
<1>1. /\ UNCHANGED <<doc, seq, delivered, pc, page, reply>> /\ Appended
      /\ copy \in [Records -> Doc]
  BY DEF serverVars, passVars, Appended, Typed, TypeOK
<1>2. ASSUME NEW x \in Records \ (Protected \cup byHand)'
      PROVE  x \notin Protected \cup byHand /\ copy'[x] = copy[x]
  <2>1. x # r /\ x \notin byHand
    OBVIOUS
  <2>2. Queued(x)' = {}
    BY DEF Protected
  <2>3. Queued(x) = {}
    BY <2>1, <2>2 DEF Queued
  <2> QED
    BY <1>1, <2>1, <2>3 DEF Protected
<1> QED
  BY <1>1, <1>2, CurrentKept

LEMMA MutateCurrent ==
  ASSUME Typed, Typed', Conserved, Current, NEW r \in Records, NEW action \in Actions,
         Mutate(r, action)
  PROVE  Current'
<1>1. PICK n \in Nat : box' = With(box, NewId, Edit(r, action, n))
  BY MutateEdits DEF Typed
<1>2. /\ UNCHANGED <<serverVars, listed, cursor, passVars>> /\ byHand' = byHand
      /\ \E d : copy' = [copy EXCEPT ![r] = d]
  BY DEF Mutate
<1>3. NewId \notin DOMAIN box
  BY FreshNew DEF Mutate
<1>4. /\ NewId \in DOMAIN box' /\ box'[NewId].rec = r /\ ~box'[NewId].quarantined
      /\ \A k \in DOMAIN box : k \in DOMAIN box' /\ box'[k] = box[k]
  BY <1>1, <1>3 DEF With, Edit
<1>5. r \in Protected'
  BY <1>4 DEF Protected, Queued
<1> QED
  BY <1>2, <1>4, <1>5, UserCurrent

LEMMA RetryWithLocalCurrent ==
  ASSUME Typed, Typed', Conserved, Current, NEW m, RetryWithLocal(m)
  PROVE  Current'
<1>0. PICK r \in Records : r = box[m].rec
  BY ResolvedType DEF RetryWithLocal, Typed
<1>1. /\ m \in DOMAIN box /\ box[m] \in Mutation /\ ~box[m].quarantined
      /\ NewId \notin DOMAIN box
  BY ResolvedType, FreshNew DEF RetryWithLocal, Typed
<1>2. box' = With(Without(m), NewId, AgainLocal(m))
  BY DEF RetryWithLocal, AgainLocal
<1>3. /\ NewId \in DOMAIN box' /\ box'[NewId] = AgainLocal(m)
      /\ \A n \in DOMAIN box \ {m} : n \in DOMAIN box' /\ box'[n] = box[n]
  BY <1>1, <1>2 DEF With, Without
<1>4. AgainLocal(m).rec = r /\ ~AgainLocal(m).quarantined
  BY <1>0, <1>1 DEF AgainLocal, Mutation
<1>5. r \in Protected'
  <2>1. NewId \in Queued(r)'
    BY <1>3, <1>4 DEF Queued
  <2> QED
    BY <2>1 DEF Protected
<1>6. /\ UNCHANGED <<serverVars, listed, cursor, passVars>> /\ byHand' = byHand
      /\ copy' = [copy EXCEPT ![r] = copy[r]]
  BY DEF RetryWithLocal, pastVars, Typed, TypeOK
<1> QED
  BY <1>0, <1>3, <1>5, <1>6, UserCurrent

LEMMA RetryMutationCurrent ==
  ASSUME Typed, Typed', Conserved, Current, NEW m, RetryMutation(m)
  PROVE  Current'
<1>0. PICK r \in Records : r = box[m].rec
  BY ResolvedType DEF RetryMutation, Typed
<1>1. /\ m \in DOMAIN box /\ box[m] \in Mutation /\ ~box[m].quarantined
      /\ NewId \notin DOMAIN box
  BY ResolvedType, FreshNew DEF RetryMutation, Typed
<1>2. /\ DOMAIN box' = (DOMAIN box \ {m}) \cup {NewId}
      /\ box'[NewId] = Again(m)
      /\ \A n \in DOMAIN box \ {m} : Alike(box'[n], box[n])
      /\ \E d : copy' = [copy EXCEPT ![r] = d]
  BY <1>0, <1>1, RetryMutationAlike DEF Typed
<1>3. Again(m).rec = r /\ ~Again(m).quarantined
  BY <1>0, <1>1 DEF Again, Mutation
<1>4. r \in Protected'
  <2>1. NewId \in Queued(r)'
    BY <1>2, <1>3 DEF Queued
  <2> QED
    BY <2>1 DEF Protected
<1>5. UNCHANGED <<serverVars, listed, cursor, passVars>> /\ byHand' = byHand
  BY DEF RetryMutation, pastVars
<1>6. ASSUME NEW n \in DOMAIN box, box[n].rec # r
      PROVE  /\ n \in DOMAIN box' /\ box'[n].rec = box[n].rec
             /\ box'[n].quarantined = box[n].quarantined
  <2>1. n \in DOMAIN box \ {m}
    BY <1>0, <1>6
  <2> QED
    BY <1>2, <2>1 DEF Alike
<1>7. \E d : copy' = [copy EXCEPT ![r] = d]
  BY <1>2
<1> QED
  BY <1>4, <1>5, <1>6, <1>7, UserCurrent

\* A resolution that only takes m out of the outbox.
LEMMA OneResolved ==
  ASSUME Typed, Typed', Current, NEW m \in DOMAIN box, NEW r \in Records, r = box[m].rec,
         UNCHANGED <<serverVars, listed, cursor, passVars>>, byHand \subseteq byHand',
         r \in byHand', \E d : copy' = [copy EXCEPT ![r] = d],
         DOMAIN box' = DOMAIN box \ {m}, \A n \in DOMAIN box' : Alike(box'[n], box[n])
  PROVE  Current'
<1>1. ASSUME NEW n \in DOMAIN box, box[n].rec # r
      PROVE  /\ n \in DOMAIN box' /\ box'[n].rec = box[n].rec
             /\ box'[n].quarantined = box[n].quarantined
  <2>1. n \in DOMAIN box'
    BY <1>1
  <2> QED
    BY <2>1 DEF Alike
<1> QED
  BY <1>1, UserCurrent

LEMMA ResolveCurrent ==
  ASSUME Typed, Typed', Current, NEW m, AcceptMaster(m) \/ Discard(m)
  PROVE  Current'
<1>0. PICK r \in Records : r = box[m].rec
  BY ResolvedType DEF AcceptMaster, Discard, Typed
<1>1. /\ UNCHANGED <<serverVars, listed, cursor, passVars>> /\ byHand \subseteq byHand'
      /\ r \in byHand' /\ m \in DOMAIN box
  BY <1>0, ResolvedType DEF AcceptMaster, Discard, Typed
<1>2. CASE AcceptMaster(m)
  <2>1. CASE box[m].master \in Doc /\ AcknowledgeIn(m, box[m].master)
    <3>1. /\ DOMAIN box' = DOMAIN box \ {m}
          /\ \A n \in DOMAIN box' : Alike(box'[n], box[n])
      BY <1>1, <2>1, AcknowledgeInAlike DEF Typed
    <3>2. \E d : copy' = [copy EXCEPT ![r] = d]
      BY <1>0, <2>1 DEF AcknowledgeIn
    <3> QED
      BY <1>0, <1>1, <3>1, <3>2, OneResolved
  <2>2. CASE /\ DOMAIN box' = DOMAIN box \ {m}
             /\ copy' = [copy EXCEPT ![r] = Absent] \/ UNCHANGED copy
             /\ \A n \in DOMAIN box' :
                  \/ box'[n] = box[n]
                  \/ box'[n] = [box[n] EXCEPT !.state = "conflict", !.master = Absent]
    <3>1. ASSUME NEW n \in DOMAIN box'
          PROVE  box'[n].rec = box[n].rec /\ box'[n].quarantined = box[n].quarantined
      <4>1. box[n] \in Mutation
        BY <2>2 DEF Typed, TypeOK
      <4> QED
        BY <2>2, <4>1 DEF Mutation
    <3>2. \E d : copy' = [copy EXCEPT ![r] = d]
      <4>1. copy = [copy EXCEPT ![r] = copy[r]]
        BY DEF Typed, TypeOK
      <4> QED
        BY <2>2, <4>1
    <3> QED
      BY <1>0, <1>1, <2>2, <3>1, <3>2, UserCurrent
  <2> QED
    BY <1>0, <1>2, <2>1, <2>2, AcceptMasterAlike DEF Typed
<1>3. CASE Discard(m)
  <2>1. /\ DOMAIN box' = DOMAIN box \ {m}
        /\ \A n \in DOMAIN box' : Alike(box'[n], box[n])
    BY <1>3, DiscardAlike DEF Typed
  <2>2. \E d : copy' = [copy EXCEPT ![r] = d]
    BY <1>0, <1>3 DEF Discard
  <2> QED
    BY <1>0, <1>1, <2>1, <2>2, OneResolved
<1> QED
  BY <1>2, <1>3

\* The collection is no longer known: its cursor starts again.
LEMMA UnlistedCurrent ==
  ASSUME Current, UNCHANGED <<doc, seq>>, listed' = FALSE, cursor' = Start, reply' = None,
         pc' # "page"
  PROVE  Current'
  BY DEF Current, ReplicaCurrent, Journal, PageCurrent, AnswerCurrent, Reached, Start

LEMMA EndCurrent ==
  ASSUME Typed, Typed', Calls, Current,
         Forbidden \/ PullForbidden \/ SessionExpires \/ AcceptPolicy
  PROVE  Current'
<1>1. CASE Forbidden \/ PullForbidden \/ SessionExpires
  BY <1>1, UnlistedCurrent DEF Forbidden, PullForbidden, SessionExpires, Block, Idle, serverVars
<1>2. CASE AcceptPolicy
  <2>1. pc = "accept" /\ pc' = "refresh" /\ UNCHANGED <<doc, seq, delivered, reply, page, byHand>>
    BY <1>2 DEF AcceptPolicy, Step, serverVars, pastVars
  <2>2. reply = None
    BY <2>1 DEF Calls, OneCall
  <2>3. CASE known = revision
    BY <1>2, <2>1, <2>3, QuietCurrent DEF AcceptPolicy, storeVars
  <2>4. CASE known # revision
    BY <1>2, <2>1, <2>2, <2>4, UnlistedCurrent DEF AcceptPolicy
  <2> QED
    BY <2>3, <2>4
<1> QED
  BY <1>1, <1>2

\* What is known again is what was put aside, or nothing.
LEMMA RefreshManifestCurrent ==
  ASSUME Typed, Typed', Calls, Shown, Current, RefreshManifest
  PROVE  Current'
<1> DEFINE Aside(r) == {m \in Queued(r) : box[m].snapshot # Absent}
<1>1. /\ listed' = TRUE /\ pc' = "list"
      /\ UNCHANGED <<doc, seq, delivered, cursor, byHand, reply, page>> /\ reply = None
  BY DEF RefreshManifest, Step, serverVars, pastVars, Calls, OneCall
<1>2. \A r \in Records : Aside(r) = {} => copy'[r] = copy[r]
  BY DEF RefreshManifest
<1>3. box' = [m \in DOMAIN box |-> IF box[m].quarantined THEN box[m]
                                   ELSE [box[m] EXCEPT !.snapshot = Absent]]
  BY DEF RefreshManifest
<1>4. ASSUME NEW m \in DOMAIN box
      PROVE  box'[m].quarantined = box[m].quarantined /\ box'[m].rec = box[m].rec
  <2>1. box[m] \in Mutation
    BY DEF Typed, TypeOK
  <2> QED
    BY <1>3, <2>1 DEF Mutation
<1>5. (Protected \cup byHand)' = Protected \cup byHand
  <2>1. \A x : Queued(x)' = Queued(x)
    BY <1>3, <1>4 DEF Queued
  <2> QED
    BY <1>1, <2>1 DEF Protected
<1>6. ASSUME NEW r \in Records \ (Protected \cup byHand)'
      PROVE  r \notin Protected \cup byHand /\ copy'[r] = copy[r]
  <2>1. Queued(r) = {}
    BY <1>5 DEF Protected
  <2> QED
    BY <1>2, <1>5, <2>1
<1>7. CASE listed
  <2>1. Appended
    BY <1>1 DEF Appended
  <2> QED
    BY <1>1, <1>6, <1>7, <2>1, CurrentKept
<1>8. CASE ~listed
  <2>1. cursor = Start /\ Journal'
    BY <1>1, <1>8 DEF Current, Journal, Reached
  <2>2. ASSUME NEW r \in Records \ (Protected \cup byHand)', seq[r] <= 0
        PROVE  copy'[r] = doc[r]
    <3>1. seq[r] = 0
      BY <2>2 DEF Typed, TypeOK
    <3>2. doc[r] = Absent /\ copy[r] = Absent
      BY <1>8, <3>1 DEF Current, Journal, Shown, Tidy
    <3> QED
      BY <1>6, <3>2
  <2>3. ReplicaCurrent'
    BY <1>1, <2>1, <2>2, AbsentType DEF ReplicaCurrent, Start, Absent
  <2> QED
    BY <1>1, <2>1, <2>3 DEF Current, PageCurrent, AnswerCurrent
<1> QED
  BY <1>7, <1>8

\* A page has everything between the cursor and its end.
LEMMA PullCurrent ==
  ASSUME Typed, Typed', Current, Pull
  PROVE  Current'
<1> DEFINE rows == Rows(cursor.seq)
           sent == {r \in rows : ~doc[r].gone}
<1>1. /\ UNCHANGED <<copy, box, listed, cursor, byHand, doc, seq, reply>>
      /\ delivered' = delivered \cup sent /\ pc' = "page"
      /\ page' = [docs    |-> [r \in sent |-> doc[r]],
                  removed |-> {r \in rows : doc[r].gone} \cap delivered,
                  next    |-> [rev |-> policy, seq |-> PageEnd],
                  more    |-> rows # After(cursor.seq)]
  BY DEF Pull, PageEnd, storeVars, pastVars
<1>2. /\ page'.docs = [r \in sent |-> doc[r]] /\ page'.next.seq = PageEnd
      /\ page'.removed = {r \in rows : doc[r].gone} \cap delivered
  BY <1>1
<1>3. (Protected \cup byHand)' = Protected \cup byHand
  BY <1>1 DEF Protected, Queued
<1>4. ReplicaCurrent'
  <2>1. \A r : r \in delivered' /\ doc[r].gone => r \in delivered
    BY <1>1
  <2> QED
    BY <1>1, <1>3, <2>1 DEF Current, ReplicaCurrent
<1>5. cursor.seq \in Nat /\ \A r \in Records : seq[r] \in Nat
  BY DEF Typed, TypeOK
<1>6. ASSUME NEW r \in Records, seq[r] > cursor.seq, seq[r] <= PageEnd PROVE r \in rows
  <2>1. PICK x \in rows : PageEnd = seq[x]
    BY <1>5, <1>6, PageEnds
  <2> DEFINE Before(y) == {z \in After(cursor.seq) : seq[z] < seq[y]}
  <2>2. x \in Records /\ Cardinality(Before(x)) < PageSize
    BY <2>1 DEF Rows, After
  <2>3. IsFiniteSet(Before(x)) /\ Before(r) \subseteq Before(x)
    <3>1. Before(x) \subseteq Records
      BY DEF After
    <3>2. Before(r) \subseteq Before(x)
      BY <1>5, <1>6, <2>1, <2>2 DEF After
    <3> QED
      BY <3>1, <3>2, LocalSyncAssumption, FS_Subset
  <2>4. /\ Cardinality(Before(r)) <= Cardinality(Before(x))
        /\ Cardinality(Before(r)) \in Nat /\ Cardinality(Before(x)) \in Nat
    <3> HIDE DEF Before
    <3> QED
      BY <2>3, FS_Subset, FS_CardinalityType
  <2>5. Cardinality(Before(r)) < PageSize
    <3> HIDE DEF Before
    <3> QED
      BY <2>2, <2>4, LocalSyncAssumption
  <2> QED
    BY <1>6, <2>5 DEF Rows, After
<1>7. \A r \in rows : r \in Records /\ seq[r] > cursor.seq
  BY DEF Rows, After
<1>8. Reached(PageEnd)
  <2>1. CASE PageEnd = cursor.seq
    BY <2>1 DEF Current, Journal
  <2>2. CASE \E r \in rows : PageEnd = seq[r]
    BY <1>5, <1>7, <2>2 DEF Reached
  <2> QED
    BY <2>1, <2>2, PageEnds
<1>9. PageCurrent'
  <2> HIDE DEF rows
  <2>1. PICK n : n = PageEnd /\ Reached(n)
    BY <1>8
  <2>2. page'.next.seq = n /\ cursor'.seq <= n
    BY <1>1, <1>2, <2>1, PageEnds
  <2>3. Reached(page.next.seq)'
    BY <1>1, <2>1, <2>2 DEF Reached
  <2>4. \A r \in DOMAIN page'.docs \cup page'.removed : seq'[r] > cursor'.seq
    BY <1>1, <1>2, <1>7
  <2>5. ASSUME NEW r \in Records, seq[r] <= PageEnd
        PROVE  /\ r \in DOMAIN page'.docs => page'.docs[r] = doc[r] /\ ~doc[r].gone
               /\ r \in page'.removed => doc[r].gone
               /\ seq[r] > cursor.seq => \/ r \in DOMAIN page'.docs \cup page'.removed
                                         \/ doc[r].gone /\ r \notin delivered'
    BY <1>1, <1>2, <1>6, <2>5
  <2> QED
    BY <1>1, <2>1, <2>2, <2>3, <2>4, <2>5 DEF PageCurrent
<1>10. Journal' /\ AnswerCurrent'
  BY <1>1 DEF Current, Journal, AnswerCurrent, Reached
<1> QED
  BY <1>4, <1>9, <1>10 DEF Current

\* The replica takes the page but for records with queued edits.
LEMMA ApplyPullCurrent ==
  ASSUME Typed, Typed', Calls, Shown, Current, ApplyPull
  PROVE  Current'
<1> DEFINE taken == DOMAIN page.docs \ Protected
           S     == {m \in DOMAIN box : box[m].rec \in page.removed}
<1>1. /\ UNCHANGED <<doc, seq, delivered, listed>> /\ pc = "page" /\ listed
      /\ cursor' = page.next /\ byHand' = byHand \ (taken \cup page.removed)
  BY DEF ApplyPull, Shown, Tidy, Working, serverVars
<1>2. reply = None /\ reply' = None /\ pc' # "page"
  BY <1>1 DEF ApplyPull, Idle, Calls, OneCall
<1>3. box' = Quarantine(box, S)
  BY DEF ApplyPull
<1>4. DOMAIN box' = DOMAIN box
  <2> HIDE DEF S
  <2> QED
    BY <1>3, QuarantineType DEF Typed
<1>5. \A m \in DOMAIN box : box[m].rec \notin page.removed => box'[m] = box[m]
  BY <1>3 DEF Quarantine
<1>6. copy' = [r \in Records |-> CASE r \in page.removed -> Absent
                                   [] r \in taken        -> page.docs[r]
                                   [] OTHER              -> copy[r]]
  BY DEF ApplyPull
<1>7. ASSUME NEW r \in Records \ (Protected \cup byHand)', seq[r] <= page.next.seq
      PROVE  IF doc[r].gone THEN copy'[r] = Absent \/ copy'[r].gone \/ r \notin delivered
             ELSE copy'[r] = doc[r]
  <2>0. cursor.seq \in Nat /\ seq[r] \in Nat
    BY DEF Typed, TypeOK
  <2>1. CASE r \in page.removed
    BY <1>1, <1>6, <1>7, <2>1 DEF Current, PageCurrent
  <2>2. CASE r \notin page.removed
    <3>1. Queued(r) = {}
      <4>1. Queued(r)' = {}
        BY DEF Protected
      <4> QED
        BY <1>4, <1>5, <2>2, <4>1 DEF Queued
    <3>2. r \notin Protected
      BY <3>1 DEF Protected
    <3>3. CASE r \in DOMAIN page.docs
      <4>1. copy'[r] = page.docs[r]
        BY <1>6, <2>2, <3>2, <3>3
      <4> QED
        BY <1>1, <1>7, <3>3, <4>1 DEF Current, PageCurrent
    <3>4. CASE r \notin DOMAIN page.docs
      <4>1. copy'[r] = copy[r] /\ r \notin byHand
        BY <1>1, <1>6, <2>2, <3>4
      <4>2. CASE seq[r] > cursor.seq
        BY <1>1, <1>7, <2>2, <3>4, <4>2 DEF Current, PageCurrent
      <4>3. CASE seq[r] <= cursor.seq
        BY <1>1, <3>2, <4>1, <4>3 DEF Current, ReplicaCurrent
      <4> QED
        BY <2>0, <4>2, <4>3
    <3> QED
      BY <3>3, <3>4
  <2> QED
    BY <2>1, <2>2
<1>8. ReplicaCurrent'
  BY <1>1, <1>7 DEF ReplicaCurrent
<1>9. Journal'
  BY <1>1 DEF Current, Journal, PageCurrent, Reached
<1> QED
  BY <1>2, <1>8, <1>9 DEF Current, PageCurrent, AnswerCurrent

\* An acknowledged record without other edits is as the server answered.
LEMMA AcknowledgeCurrent ==
  ASSUME Typed, Typed', Conserved, Current, Acknowledge
  PROVE  Current'
<1>1. /\ UNCHANGED <<doc, seq, delivered, listed, cursor, byHand, page>>
      /\ reply # None /\ reply.kind = "ok" /\ reply.doc \in Doc
      /\ reply' = None /\ pc' # "page"
  BY DEF Acknowledge, Answer, Onward, serverVars, pastVars, Typed, AnswerOK
<1>2. CASE ~Settleable(reply.id)
  BY <1>1, <1>2, QuietCurrent DEF Acknowledge
<1>3. CASE Settleable(reply.id)
  <2>1. PICK m \in DOMAIN box, r \in Records : m = reply.id /\ r = box[m].rec
    BY <1>3 DEF Settleable, Typed, TypeOK, Mutation
  <2>2. reply.rec = r
    BY <1>1, <2>1 DEF Conserved, Faithful
  <2>3. AcknowledgeIn(m, reply.doc)
    BY <1>3, <2>1 DEF Acknowledge
  <2>4. /\ DOMAIN box' = DOMAIN box \ {m}
        /\ \A n \in DOMAIN box' : Alike(box'[n], box[n])
    BY <1>1, <2>3, AcknowledgeInAlike DEF Typed
  <2>5. ASSUME NEW x \in Records \ (Protected \cup byHand)', x # r
        PROVE  x \notin Protected \cup byHand /\ copy'[x] = copy[x]
    <3>1. Queued(x)' = {}
      BY DEF Protected
    <3>2. Queued(x) = {}
      BY <2>1, <2>4, <2>5, <3>1 DEF Queued, Alike
    <3>3. copy'[x] = copy[x]
      BY <2>1, <2>3, <2>5 DEF AcknowledgeIn, Typed, TypeOK
    <3> QED
      BY <1>1, <3>2, <3>3 DEF Protected
  <2>6. ASSUME r \notin Protected', seq[r] <= cursor.seq
        PROVE  copy'[r] = doc[r]
    <3>1. Queued(r) \ {m} = {}
      <4>1. Queued(r)' = {}
        BY <2>6 DEF Protected
      <4> QED
        BY <2>1, <2>4, <4>1 DEF Queued, Alike
    <3>2. copy'[r] = Over(reply.doc, {}, box)
      BY <2>1, <2>3, <3>1 DEF AcknowledgeIn, Typed, TypeOK
    <3>3. Over(reply.doc, {}, box) = reply.doc
      <4>1. reply.doc.has \cup UNION {box[k].data : k \in {}} = reply.doc.has
        OBVIOUS
      <4>2. (reply.doc.gone \/ \E k \in {} : box[k].action = "delete") = reply.doc.gone
        BY <1>1 DEF Doc
      <4> QED
        BY <1>1, <4>1, <4>2 DEF Over, Doc
    <3>4. reply.doc = doc[r] \/ seq[r] > cursor.seq
      BY <1>1, <2>2 DEF Current, AnswerCurrent
    <3>5. cursor.seq \in Nat /\ seq[r] \in Nat
      BY DEF Typed, TypeOK
    <3> QED
      BY <2>6, <3>2, <3>3, <3>4, <3>5
  <2>7. Appended
    BY <1>1 DEF Appended
  <2> QED
    BY <1>1, <2>5, <2>6, <2>7, CurrentKept
<1> QED
  BY <1>2, <1>3

LEMMA DiscardQuarantinedCurrent ==
  ASSUME Typed, Current, NEW m, DiscardQuarantined(m)
  PROVE  Current'
<1>1. /\ UNCHANGED <<copy, listed, cursor, serverVars, passVars, byHand>>
      /\ \A x : Queued(x)' = Queued(x)
  BY QuarantinedGone DEF Typed
<1>2. Protected' = Protected
  BY <1>1 DEF Protected
<1> QED
  BY <1>1, <1>2
  DEF Current, ReplicaCurrent, Journal, PageCurrent, AnswerCurrent, Reached, serverVars, passVars

LEMMA InitCurrent == Init => Current
<1> SUFFICES ASSUME Init PROVE Current
  OBVIOUS
<1>1. reply = None /\ pc = "idle" /\ listed = FALSE /\ cursor = Start
  BY DEF Init
<1>2. ASSUME NEW r \in Records, seq[r] = 0 PROVE doc[r] = Absent
  <2>1. PICK order \in Bijection(Initially, 1..Cardinality(Initially)) :
          seq = [x \in Records |-> IF x \in Initially THEN order[x] ELSE 0]
    BY DEF Init
  <2>2. r \notin Initially
    <3>1. \A x \in Initially : order[x] \in 1..Cardinality(Initially)
      BY <2>1 DEF Bijection, Injection
    <3> QED
      BY <1>2, <2>1, <3>1
  <2> QED
    BY <2>2 DEF Init
<1> QED
  BY <1>1, <1>2 DEF Current, ReplicaCurrent, Journal, PageCurrent, AnswerCurrent, Reached, Start

LEMMA NextCurrent ==
  Typed /\ Conserved /\ Calls /\ Shown /\ Current /\ [Next]_vars => Current'
<1> SUFFICES ASSUME Typed, Conserved, Calls, Shown, Current, [Next]_vars PROVE Current'
  OBVIOUS
<1>0. Typed'
  BY NextTyped
<1>1. CASE PassMoves
  BY <1>0, <1>1, PassCurrent, RejectCurrent, EndCurrent, RefreshManifestCurrent, PullCurrent,
     ApplyPullCurrent, AcknowledgeCurrent DEF PassMoves
<1>2. CASE Fails \/ SessionExpires \/ ChangePolicy \/ ResumeAuthorization \/ UNCHANGED vars
  BY <1>0, <1>2, PassCurrent, EndCurrent
<1>3. CASE Serves \/ \E r \in Records : Write(r)
  BY <1>0, <1>3, ServerCurrent
<1>4. CASE \E r \in Records, action \in Actions : Mutate(r, action)
  BY <1>0, <1>4, MutateCurrent
<1>5. CASE \E m \in DOMAIN box : \/ AcceptMaster(m) \/ RetryWithLocal(m)
                                 \/ RetryMutation(m)
                                 \/ Discard(m) \/ DiscardQuarantined(m)
  BY <1>0, <1>5, ResolveCurrent, RetryWithLocalCurrent, RetryMutationCurrent,
     DiscardQuarantinedCurrent
<1> QED
  BY <1>1, <1>2, <1>3, <1>4, <1>5 DEF Next

\* What the journal holds up to the cursor is in the replica, though pages are
\* applied while the server changes, edits wait and answers are late.
THEOREM ReplicaIsCurrent == Spec => []ReplicaCurrent
<1>1. Spec => [](Typed /\ Conserved /\ Calls /\ Shown /\ Current)
  BY InitTyped, NextTyped, InitConserved, NextConserved, InitCalls, NextCalls, InitShown,
     NextShown, InitCurrent, NextCurrent, PTL DEF Spec
<1>2. Current => ReplicaCurrent
  BY DEF Current
<1> QED
  BY <1>1, <1>2, PTL

=============================================================================

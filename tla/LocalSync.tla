----------------------------- MODULE LocalSync -----------------------------
(***************************************************************************)
(* The replica that a browser keeps of one writable collection: local      *)
(* edits, the passes that push and pull, and the server's side of both.    *)
(*                                                                         *)
(*   apps/admin/src/local-data/store.ts       IndexedDB transactions       *)
(*   apps/admin/src/local-data/sync.ts        a synchronization pass       *)
(*   packages/studio-server/src/local-sync.ts manifest, push and pull      *)
(*   packages/studio-server/src/services.ts   guarded record writes        *)
(*                                                                         *)
(* One action is one IndexedDB transaction, one answer of the server, or   *)
(* one transaction of the server.  A Web Lock admits one pass at a time;   *)
(* users of all tabs and other writers act between its steps.  A document  *)
(* is its version, whether it is deleted and which edits it contains:      *)
(* edits set different fields, so that one that is missing can be seen.    *)
(***************************************************************************)
EXTENDS Integers, FiniteSets, Functions, FiniteSetsExt

CONSTANTS
  Records,     \* record ids of the collection
  Initially,   \* those that exist in the beginning
  MaxIds,      \* bound: mutation ids, of edits and of their retries
  MaxWrites,   \* bound: changes by others
  MaxEvents,   \* bound: faults, refusals, policy changes, expired sessions
  PageSize,    \* 250, journal rows of one pull
  None         \* no conflict, no answer

Ids == 1..MaxIds

ASSUME LocalSyncAssumption ==
  /\ IsFiniteSet(Records) /\ Initially \subseteq Records
  /\ MaxIds \in Nat /\ MaxWrites \in Nat /\ MaxEvents \in Nat
  /\ PageSize \in Nat \ {0}

VARIABLES
  \* server: records with the journal sequence of their latest change,
  \* receipts, policy revision, deliveries under that revision
  doc, seq, receipt, policy, delivered,
  \* requests under way to the server
  requests,
  \* browser: records, outbox with its conflicts, cursor, hydrated, $policy,
  \* whether the collection is known, $authorization
  copy, box, cursor, hydrated, known, listed, blocked,
  \* the pass: step, policy revision of its manifest, mutations it has listed,
  \* records it no longer pushes, whether it listed any, answer, page
  pc, revision, list, stopped, had, reply, page,
  used, writes, events,
  \* history: policy an edit was made under, policies it was applied under,
  \* edits users gave up, records users resolved since their last download
  under, applied, dropped, byHand

serverVars == <<doc, seq, receipt, policy, delivered>>
storeVars  == <<copy, box, cursor, hydrated, known, listed, blocked>>
passVars   == <<pc, revision, list, stopped, had, reply, page>>
bounds     == <<used, writes, events>>
pastVars   == <<under, applied, dropped, byHand>>
vars       == <<serverVars, requests, storeVars, passVars, bounds, pastVars>>

Doc == [ver : Nat, gone : BOOLEAN, has : SUBSET Ids]

\* No document: undefined in the browser, null in an answer.
Absent == [ver |-> 0, gone |-> FALSE, has |-> {}]

ASSUME NoneIsNoDocument == None \notin Doc

Start == [rev |-> 0, seq |-> 0]

Actions == {"create", "update", "delete"}

Mutation ==
  [rec : Records, action : Actions, base : Nat, data : SUBSET Ids, order : Nat,
   state : {"pending", "conflict", "error"}, quarantined : BOOLEAN,
   before : Doc, snapshot : Doc, master : Doc \cup {None}, needsCreate : BOOLEAN]

Request == [id : Ids, rec : Records, action : Actions, base : Nat,
            data : SUBSET Ids, rev : Nat, checked : BOOLEAN, late : BOOLEAN]

TypeOK ==
  /\ doc \in [Records -> Doc] /\ seq \in [Records -> Nat]
  /\ DOMAIN receipt \subseteq Ids
  /\ policy \in Nat /\ delivered \subseteq Records
  /\ requests \subseteq Request
  /\ copy \in [Records -> Doc]
  /\ DOMAIN box \subseteq Ids /\ \A m \in DOMAIN box : box[m] \in Mutation
  /\ cursor \in [rev : Nat, seq : Nat]
  /\ hydrated \in BOOLEAN /\ known \in Nat /\ listed \in BOOLEAN /\ blocked \in BOOLEAN
  /\ pc \in {"idle", "accept", "refresh", "list", "next", "wait", "pull", "page"}
  /\ revision \in Nat /\ list \subseteq Ids /\ stopped \subseteq Records
  /\ had \in BOOLEAN
  /\ used \in 0..MaxIds /\ writes \in 0..MaxWrites /\ events \in 0..MaxEvents
  /\ under \in [Ids -> Nat] /\ applied \in [Ids -> SUBSET Nat]
  /\ dropped \subseteq Ids /\ byHand \subseteq Records

Init ==
  /\ doc = [r \in Records |-> IF r \in Initially THEN [Absent EXCEPT !.ver = 1] ELSE Absent]
  /\ \E order \in Bijection(Initially, 1..Cardinality(Initially)) :
       seq = [r \in Records |-> IF r \in Initially THEN order[r] ELSE 0]
  /\ receipt = <<>> /\ policy = 1 /\ delivered = {} /\ requests = {}
  /\ copy = [r \in Records |-> Absent] /\ box = <<>>
  /\ cursor = Start /\ hydrated = FALSE /\ known = 0 /\ listed = FALSE /\ blocked = FALSE
  /\ pc = "idle" /\ revision = 0 /\ list = {} /\ stopped = {} /\ had = FALSE
  /\ reply = None /\ page = None
  /\ used = 0 /\ writes = 0 /\ events = 0
  /\ under = [m \in Ids |-> 0] /\ applied = [m \in Ids |-> {}]
  /\ dropped = {} /\ byHand = {}

Event == events < MaxEvents /\ events' = events + 1

-----------------------------------------------------------------------------
(* The outbox.                                                             *)

Queued(r) == {m \in DOMAIN box : box[m].rec = r /\ ~box[m].quarantined}

Protected_ByPending == {r \in Records : \E m \in Queued(r) : box[m].state = "pending"}

Protected == {r \in Records : Queued(r) # {}}

First(S) == CHOOSE m \in S : \A n \in S : box[m].order <= box[n].order

Earlier(S, m) == {n \in S : box[n].order < box[m].order}

\* overlay: mutations S of one record laid over its document.
Over(d, S, out) ==
  [ver  |-> d.ver,
   gone |-> d.gone \/ \E m \in S : out[m].action = "delete",
   has  |-> d.has \cup UNION {out[m].data : m \in S}]

\* The mutations S of a record are laid anew over document d.
Rebased(S, d, out) ==
  [m \in DOMAIN out |->
     IF m \in S THEN [out[m] EXCEPT !.before = Over(d, Earlier(S, m), out)]
     ELSE out[m]]

Without(m) == [n \in DOMAIN box \ {m} |-> box[n]]

With(out, m, mutation) == [n \in DOMAIN out \cup {m} |-> IF n = m THEN mutation ELSE out[n]]

Quarantine_Drops(out, S) == [m \in DOMAIN out \ S |-> out[m]]

Quarantine(out, S) ==
  [m \in DOMAIN out |->
     IF m \in S THEN [out[m] EXCEPT !.quarantined = TRUE, !.state = "error", !.master = None]
     ELSE out[m]]

-----------------------------------------------------------------------------
(* The server.  A request of a pass that is gone is late: it is handled     *)
(* and answered to nobody.                                                  *)

Change_KeepsNumber(r, d) ==
  /\ doc' = [doc EXCEPT ![r] = d]
  /\ seq' = [seq EXCEPT ![r] = IF @ > 0 THEN @ ELSE 1 + Max({seq[x] : x \in Records})]

\* The journal keeps the latest change of each record, under a new number.
Change(r, d) ==
  /\ doc' = [doc EXCEPT ![r] = d]
  /\ seq' = [seq EXCEPT ![r] = 1 + Max({seq[x] : x \in Records})]

Merged(q) == [ver  |-> doc[q.rec].ver + 1,
              gone |-> q.action = "delete",
              has  |-> doc[q.rec].has \cup q.data]

Live(r) == doc[r].ver > 0 /\ ~doc[r].gone

Matches(q) == IF q.action = "create" THEN doc[q.rec].ver = 0
              ELSE Live(q.rec) /\ doc[q.rec].ver = q.base

Fingerprint(q) == <<q.action, q.base>>

Answered(q, kind, d) ==
  /\ requests' = requests \ {q}
  /\ reply' = IF q.late THEN reply ELSE [id |-> q.id, rec |-> q.rec, kind |-> kind, doc |-> d]

\* A receipt answers with the record as it is now; under the same id another
\* request is an error without a record.
Replay(q) == IF receipt[q.id] = Fingerprint(q) THEN Answered(q, "ok", doc[q.rec])
             ELSE Answered(q, "conflict", None)

\* Policy, receipt, validation and version, before the transaction.
Check(q) ==
  /\ q \in requests /\ ~q.checked
  /\ \/ q.rev # policy /\ Answered(q, "forbidden", None) /\ UNCHANGED events
     \/ q.rev = policy /\ q.id \in DOMAIN receipt /\ Replay(q) /\ UNCHANGED events
     \/ /\ q.rev = policy /\ q.id \notin DOMAIN receipt
        /\ \/ Event /\ Answered(q, "refused", None)
           \/ /\ UNCHANGED events
              /\ IF Matches(q)
                 THEN /\ requests' = (requests \ {q}) \cup {[q EXCEPT !.checked = TRUE]}
                      /\ UNCHANGED reply
                 ELSE Answered(q, IF q.action # "create" /\ q.base = 0 /\ Live(q.rec)
                                  THEN "refused" ELSE "conflict", doc[q.rec])
  /\ UNCHANGED <<serverVars, storeVars, pc, revision, list, stopped, had, page,
                 used, writes, pastVars>>

Guarded_NoPolicy(q) == Matches(q)

\* The guards repeat both conditions inside the transaction.
Guarded(q) == q.rev = policy /\ Matches(q)

\* The last statement of the transaction is the receipt.
Commit(q) ==
  LET commits == Guarded(q) /\ q.id \notin DOMAIN receipt
  IN /\ q \in requests /\ q.checked
     /\ IF commits
        THEN /\ Change(q.rec, Merged(q))
             /\ receipt' = With(receipt, q.id, Fingerprint(q))
             /\ applied' = [e \in Ids |-> IF e \in q.data THEN applied[e] \cup {policy} ELSE applied[e]]
             /\ Answered(q, "ok", Merged(q))
        ELSE /\ UNCHANGED <<doc, seq, receipt, applied>>
             /\ IF q.id \in DOMAIN receipt THEN Replay(q)
                ELSE Answered(q, "conflict", doc[q.rec])
     /\ UNCHANGED <<policy, delivered, storeVars, pc, revision, list, stopped,
                    had, page, bounds, under, dropped, byHand>>

\* Another writer; a new record of another writer has an id of its own.
Write(r) ==
  /\ writes < MaxWrites /\ writes' = writes + 1
  /\ doc[r].ver > 0
  /\ \E gone \in BOOLEAN :
       Change(r, [doc[r] EXCEPT !.ver = @ + 1, !.gone = gone])
  /\ UNCHANGED <<receipt, policy, delivered, requests, storeVars, passVars,
                 used, events, pastVars>>

ChangePolicy ==
  /\ Event
  /\ policy' = policy + 1 /\ delivered' = {}
  /\ UNCHANGED <<doc, seq, receipt, requests, storeVars, passVars, used, writes, pastVars>>

-----------------------------------------------------------------------------
(* A pass.                                                                  *)

Idle ==
  /\ pc' = "idle" /\ revision' = 0 /\ list' = {} /\ stopped' = {}
  /\ had' = FALSE /\ reply' = None /\ page' = None

Step(where) == pc' = where /\ UNCHANGED <<revision, list, stopped, had, reply, page>>

\* What a pass had asked is still handled.
Abandoned == {[q EXCEPT !.late = TRUE] : q \in requests}

FetchManifest ==
  /\ pc = "idle" /\ ~blocked
  /\ pc' = "accept" /\ revision' = policy
  /\ UNCHANGED <<list, stopped, had, reply, page, serverVars, requests, storeVars,
                 bounds, pastVars>>

\* acceptPolicy: under another policy everything pending is quarantined and
\* the replica is dropped.
AcceptPolicy ==
  /\ pc = "accept"
  /\ IF known = revision THEN UNCHANGED storeVars ELSE
       /\ box' = Quarantine(box, DOMAIN box)
       /\ copy' = [r \in Records |-> Absent]
       /\ cursor' = Start /\ hydrated' = FALSE /\ listed' = FALSE
       /\ known' = revision /\ UNCHANGED blocked
  /\ Step("refresh")
  /\ UNCHANGED <<serverVars, requests, bounds, pastVars>>

\* refreshManifest: the collection is known again, and so are the documents
\* that were put aside with their pending edits.
RefreshManifest ==
  LET Aside(r) == {m \in Queued(r) : box[m].snapshot # Absent}
  IN /\ pc = "refresh"
     /\ listed' = TRUE
     /\ copy' = [r \in Records |-> IF Aside(r) = {} THEN copy[r]
                                   ELSE box[First(Aside(r))].snapshot]
     /\ box' = [m \in DOMAIN box |-> IF box[m].quarantined THEN box[m]
                                     ELSE [box[m] EXCEPT !.snapshot = Absent]]
     /\ Step("list")
     /\ UNCHANGED <<cursor, hydrated, known, blocked, serverVars, requests, bounds, pastVars>>

ListOutbox ==
  /\ pc = "list"
  /\ list' = DOMAIN box
  /\ had' = (DOMAIN box # {})
  /\ pc' = "next"
  /\ UNCHANGED <<revision, stopped, reply, page, serverVars, requests, storeVars,
                 bounds, pastVars>>

\* The listed mutations in their order, each read again; those that are gone
\* or quarantined are passed over.
Listed == {m \in list \cap DOMAIN box : ~box[m].quarantined}

Pushable(m) == box[m].state = "pending" /\ box[m].rec \notin stopped

\* The record of one that was rejected is not pushed any further.
SkipMutation ==
  LET m == First(Listed)
  IN /\ pc = "next" /\ Listed # {} /\ ~Pushable(m)
     /\ list' = list \ {m}
     /\ stopped' = stopped \cup {box[m].rec}
     /\ UNCHANGED <<pc, revision, had, reply, page, serverVars, requests, storeVars,
                    bounds, pastVars>>

Push ==
  LET m == First(Listed)
  IN /\ pc = "next" /\ Listed # {} /\ Pushable(m)
     /\ requests' = requests \cup
          {[id |-> m, rec |-> box[m].rec, action |-> box[m].action,
            base |-> box[m].base, data |-> box[m].data, rev |-> revision,
            checked |-> FALSE, late |-> FALSE]}
     /\ list' = list \ {m}
     /\ pc' = "wait"
     /\ UNCHANGED <<revision, stopped, had, reply, page, serverVars, storeVars,
                    bounds, pastVars>>

\* The pass goes on with the list.
Onward(rejected) ==
  /\ pc' = "next" /\ reply' = None
  /\ stopped' = stopped \cup rejected
  /\ UNCHANGED <<revision, list, had, page>>

Answer(kinds) == pc = "wait" /\ reply # None /\ reply.kind \in kinds

Settleable(m) == m \in DOMAIN box /\ ~box[m].quarantined

\* acknowledge: the server's document with the other edits of the record laid
\* over it; the first of them is now based on it.
AcknowledgeIn(m, d) ==
  LET r    == box[m].rec
      rest == Queued(r) \ {m}
      out  == Rebased(rest, d, Without(m))
  IN /\ box' = IF rest = {} THEN out ELSE [out EXCEPT ![First(rest)].base = d.ver]
     /\ copy' = [copy EXCEPT ![r] = Over(d, rest, box)]

Acknowledge ==
  LET m == reply.id
  IN /\ Answer({"ok"})
     /\ IF Settleable(m) THEN AcknowledgeIn(m, reply.doc) ELSE UNCHANGED <<box, copy>>
     /\ Onward({})
     /\ UNCHANGED <<cursor, hydrated, known, listed, blocked, serverVars, requests,
                    bounds, pastVars>>

Verdict_Pending(kind) == IF kind = "conflict" THEN "pending" ELSE "error"

Verdict(kind) == IF kind = "conflict" THEN "conflict" ELSE "error"

Reject ==
  LET m == reply.id
  IN /\ Answer({"conflict", "refused"})
     /\ IF Settleable(m)
        THEN box' = [box EXCEPT ![m].state  = Verdict(reply.kind),
                                ![m].master = IF reply.kind = "conflict" THEN reply.doc ELSE @]
        ELSE UNCHANGED box
     /\ Onward({reply.rec})
     /\ UNCHANGED <<copy, cursor, hydrated, known, listed, blocked, serverVars,
                    requests, bounds, pastVars>>

\* blockAuthorization: documents are put aside with their pending edits and
\* the replica is dropped until the user has signed in again.
Block(quarantine) ==
  /\ box' = [m \in DOMAIN box |->
              [box[m] EXCEPT
                 !.state = IF @ = "conflict" THEN @ ELSE "error",
                 !.quarantined = @ \/ (quarantine /\ known # 0),
                 !.snapshot = IF copy[box[m].rec] = Absent THEN @ ELSE copy[box[m].rec]]]
  /\ copy' = [r \in Records |-> Absent]
  /\ cursor' = Start /\ hydrated' = FALSE /\ listed' = FALSE /\ blocked' = TRUE
  /\ UNCHANGED known
  /\ Idle

Forbidden ==
  /\ Answer({"forbidden"})
  /\ Block(TRUE)
  /\ UNCHANGED <<serverVars, requests, bounds, pastVars>>

\* A pull is left out when nothing was pushed and the replica is complete and
\* recent enough.
SkipPull ==
  /\ pc = "next" /\ Listed = {} /\ ~had /\ hydrated
  /\ Idle
  /\ UNCHANGED <<serverVars, requests, storeVars, bounds, pastVars>>

BeginPull ==
  /\ pc = "next" /\ Listed = {}
  /\ Step("pull")
  /\ UNCHANGED <<serverVars, requests, storeVars, bounds, pastVars>>

\* The rows of a page: the first PageSize changes after the cursor.
After(n) == {r \in Records : seq[r] > n}

Rows(n) == {r \in After(n) : Cardinality({x \in After(n) : seq[x] < seq[r]}) < PageSize}

\* The server's side of a pull: deletions are sent of what was delivered.
Pull ==
  LET rows == Rows(cursor.seq)
      sent == {r \in rows : ~doc[r].gone}
  IN /\ pc = "pull"
     /\ cursor.rev \in {0, policy}
     /\ delivered' = delivered \cup sent
     /\ page' = [docs    |-> [r \in sent |-> doc[r]],
                 removed |-> {r \in rows : doc[r].gone} \cap delivered,
                 next    |-> [rev |-> policy,
                              seq |-> Max({cursor.seq} \cup {seq[r] : r \in rows})],
                 more    |-> rows # After(cursor.seq)]
     /\ pc' = "page"
     /\ UNCHANGED <<revision, list, stopped, had, reply, doc, seq, receipt, policy,
                    requests, storeVars, bounds, pastVars>>

PullForbidden ==
  /\ pc = "pull" /\ cursor.rev \notin {0, policy}
  /\ Block(TRUE)
  /\ UNCHANGED <<serverVars, requests, bounds, pastVars>>

\* applyPull: cursor and records in one transaction; pending edits of a record
\* that was removed are quarantined, those of others protect their record.
ApplyPull ==
  LET taken == DOMAIN page.docs \ Protected
  IN /\ pc = "page"
     /\ box' = Quarantine(box, {m \in DOMAIN box : box[m].rec \in page.removed})
     /\ copy' = [r \in Records |-> CASE r \in page.removed -> Absent
                                     [] r \in taken        -> page.docs[r]
                                     [] OTHER              -> copy[r]]
     /\ cursor' = page.next
     /\ hydrated' = (hydrated \/ ~page.more)
     /\ byHand' = byHand \ (taken \cup page.removed)
     /\ IF page.more THEN pc' = "pull" /\ page' = None
                          /\ UNCHANGED <<revision, list, stopped, had, reply>>
        ELSE Idle
     /\ UNCHANGED <<known, listed, blocked, serverVars, requests, bounds, under,
                    applied, dropped>>

\* A call fails or the pass is aborted; the session has expired.
Fails ==
  /\ pc # "idle" /\ Event
  /\ requests' = Abandoned
  /\ Idle
  /\ UNCHANGED <<serverVars, storeVars, used, writes, pastVars>>

SessionExpires ==
  /\ pc \in {"wait", "pull"} /\ Event
  /\ requests' = Abandoned
  /\ Block(FALSE)
  /\ UNCHANGED <<serverVars, used, writes, pastVars>>

-----------------------------------------------------------------------------
(* Users, in any tab.                                                       *)

NewId == used + 1

Fresh == used < MaxIds /\ used' = NewId

\* Edits are based on the version that is shown; an older form is refused by
\* the same check.
Mutate(r, action) ==
  LET last == IF DOMAIN box = {} THEN 0 ELSE Max({box[m].order : m \in DOMAIN box})
      new  == [rec |-> r, action |-> action, base |-> copy[r].ver, data |-> {NewId},
               order |-> last + 1, state |-> "pending", quarantined |-> FALSE,
               before |-> copy[r], snapshot |-> Absent, master |-> None,
               needsCreate |-> FALSE]
  IN /\ listed /\ Fresh
     /\ IF action = "create"
        THEN doc[r].ver = 0 /\ \A m \in Ids : under[m] = 0
        ELSE copy[r] # Absent /\ ~copy[r].gone
     /\ box' = With(box, NewId, new)
     /\ copy' = [copy EXCEPT ![r] = Over(@, {NewId}, box')]
     /\ under' = [under EXCEPT ![NewId] = known]
     /\ UNCHANGED <<cursor, hydrated, known, listed, blocked, serverVars, requests,
                    passVars, writes, events, applied, dropped, byHand>>

Resolves(m, state) ==
  m \in DOMAIN box /\ box[m].state = state /\ ~box[m].quarantined

\* acceptMaster: the server's version as it was when the edit was rejected.
AcceptMaster(m) ==
  LET r    == box[m].rec
      rest == Queued(r) \ {m}
  IN /\ Resolves(m, "conflict") /\ listed /\ box[m].master # None
     /\ IF box[m].master # Absent THEN AcknowledgeIn(m, box[m].master)
        ELSE IF rest = {} THEN box' = Without(m) /\ copy' = [copy EXCEPT ![r] = Absent]
        ELSE /\ box' = [Without(m) EXCEPT ![First(rest)] =
                          [@ EXCEPT !.state = "conflict", !.master = Absent]]
             /\ UNCHANGED copy
     /\ dropped' = dropped \cup box[m].data
     /\ byHand' = byHand \cup {r}
     /\ UNCHANGED <<cursor, hydrated, known, listed, blocked, serverVars, requests,
                    passVars, bounds, under, applied>>

\* retryWithLocal: the edit again, under a new id, on the server's version.
RetryWithLocal(m) ==
  LET d    == box[m].master
      data == IF d = Absent THEN copy[box[m].rec].has \cup box[m].data ELSE box[m].data
      new  == [box[m] EXCEPT
                 !.data = data, !.state = "pending", !.master = None,
                 !.base = IF d = None THEN @ ELSE d.ver,
                 !.action = IF d = Absent THEN "create"
                            ELSE IF @ = "create" /\ d # None THEN "update" ELSE @]
  IN /\ Resolves(m, "conflict") /\ listed /\ Fresh
     /\ d = None \/ (~d.gone /\ ~(d = Absent /\ box[m].action = "delete"))
     /\ box' = With(Without(m), NewId, new)
     /\ UNCHANGED <<copy, cursor, hydrated, known, listed, blocked, serverVars,
                    requests, passVars, writes, events, pastVars>>

RetryMutation(m) ==
  LET r     == box[m].rec
      new   == [box[m] EXCEPT !.state = "pending", !.needsCreate = FALSE, !.master = None,
                              !.action = IF box[m].needsCreate THEN "create" ELSE @]
      out   == With(Without(m), NewId, new)
      later == {n \in Queued(r) : box[n].order > box[m].order}
      from  == Over(new.before, {NewId}, out)
  IN /\ Resolves(m, "error") /\ listed /\ Fresh
     /\ box' = Rebased(later, from, out)
     /\ copy' = [copy EXCEPT ![r] = Over(from, later, out)]
     /\ UNCHANGED <<cursor, hydrated, known, listed, blocked, serverVars, requests,
                    passVars, writes, events, pastVars>>

\* discardMutation: back to the document from before the edit; what is in
\* quarantine is in no document.
Discard(m) ==
  LET r    == box[m].rec
      rest == Queued(r) \ {m}
      out  == Rebased(rest, box[m].before, Without(m))
  IN /\ Resolves(m, "error") \/ Resolves(m, "conflict")
     /\ box' = IF box[m].action = "create" /\ rest # {}
               THEN [out EXCEPT ![First(rest)] =
                       [@ EXCEPT !.state = "error", !.needsCreate = TRUE, !.base = 0]]
               ELSE out
     /\ copy' = [copy EXCEPT ![r] = IF listed THEN Over(box[m].before, rest, box)
                                    ELSE Absent]
     /\ dropped' = dropped \cup box[m].data
     /\ byHand' = byHand \cup {r}
     /\ UNCHANGED <<cursor, hydrated, known, listed, blocked, serverVars, requests,
                    passVars, bounds, under, applied>>

DiscardQuarantined(m) ==
  /\ m \in DOMAIN box /\ box[m].quarantined /\ box[m].state # "pending"
  /\ box' = Without(m)
  /\ dropped' = dropped \cup box[m].data
  /\ UNCHANGED <<copy, cursor, hydrated, known, listed, blocked, serverVars, requests,
                 passVars, bounds, under, applied, byHand>>

\* The user signs in again.
ResumeAuthorization ==
  /\ blocked /\ blocked' = FALSE
  /\ UNCHANGED <<copy, box, cursor, hydrated, known, listed, serverVars, requests,
                 passVars, bounds, pastVars>>

-----------------------------------------------------------------------------
PassMoves ==
  \/ FetchManifest \/ AcceptPolicy \/ RefreshManifest \/ ListOutbox
  \/ SkipMutation \/ Push \/ Acknowledge \/ Reject \/ Forbidden
  \/ SkipPull \/ BeginPull \/ Pull \/ PullForbidden \/ ApplyPull

Serves == \E q \in requests : Check(q) \/ Commit(q)

Next ==
  \/ PassMoves \/ Fails \/ SessionExpires
  \/ Serves \/ ChangePolicy \/ \E r \in Records : Write(r)
  \/ \E r \in Records, action \in Actions : Mutate(r, action)
  \/ \E m \in DOMAIN box : \/ AcceptMaster(m) \/ RetryWithLocal(m)
                           \/ RetryMutation(m)
                           \/ Discard(m) \/ DiscardQuarantined(m)
  \/ ResumeAuthorization

Spec == Init /\ [][Next]_vars

\* The coordinator starts passes for ever, at most a minute apart, and the
\* server handles what it has received.
FairSpec == Spec /\ WF_vars(PassMoves) /\ WF_vars(Serves)

-----------------------------------------------------------------------------
(* Properties.                                                             *)

\* An edit stays in the outbox until the server has it or the user gives it
\* up, whatever answers are lost, policies change or sessions expire.
NoEditLost ==
  \A m \in Ids : under[m] # 0 =>
    \/ m \in dropped
    \/ \E n \in DOMAIN box : m \in box[n].data
    \/ \E r \in Records : m \in doc[r].has

\* What the user has entered stays in view: pulls, answers, other resolutions
\* and a new sign-in leave an unsettled edit in its record's document.  Edits
\* the user gave up may come back with retryWithLocal, out of view.
EditsShown ==
  listed => \A m \in DOMAIN box :
    box[m].quarantined \/ box[m].data \ dropped \subseteq copy[box[m].rec].has

\* The cursor establishes completeness: what the journal holds up to it is in
\* the replica, but for records with pending edits, for those whose edit the
\* user gave up, which show what the server had at the time, and for deleted
\* ones that no pull under this policy had delivered.
ReplicaCurrent ==
  listed => \A r \in Records \ (Protected \cup byHand) :
    seq[r] <= cursor.seq =>
      IF doc[r].gone THEN copy[r] = Absent \/ copy[r].gone \/ r \notin delivered
      ELSE copy[r] = doc[r]

\* An edit is applied only under the policy it was made under, though requests
\* outlive their pass and rejected edits are sent again.
AppliedAsMade == \A m \in Ids : applied[m] \subseteq {under[m]}

Waits(m) == m \in DOMAIN box /\ box[m].state = "pending" /\ ~box[m].quarantined

\* Passes get through the outbox: again and again each edit in it has been
\* answered for or follows, for the same record, one that waits for the user.
EditsSettle ==
  []<>(\A m \in DOMAIN box :
         Waits(m) => \E n \in Earlier(Queued(box[m].rec), m) : box[n].state # "pending")
=============================================================================

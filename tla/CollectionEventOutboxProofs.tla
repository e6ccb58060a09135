-------------------- MODULE CollectionEventOutboxProofs --------------------
(***************************************************************************)
(* Proofs about CollectionEventOutbox for every number of events, passes   *)
(* and tokens and every value of the limits.                               *)
(*                                                                         *)
(* The invariant that carries them says what a claimed event's row looks   *)
(* like to the pass that claimed it: it is still leased to that pass, or   *)
(* the lease has run out, or this pass has just delivered it.              *)
(***************************************************************************)
EXTENDS EventPipeline, TLAPS

Deadline(d)   == Clamp(at[d] + LeaseTime)
Engaged(d, e) == e \in todo[d] \/ cur[d] = e

\* What the locals of a pass are in each of its phases.
PassShape ==
  \A d \in Dispatchers :
    /\ at[d] <= now
    /\ cur[d] \notin todo[d]
    /\ pc[d] \in {"idle", "claim"} => /\ token[d] = None
                                      /\ todo[d] = {}
                                      /\ cur[d] = None
    /\ pc[d] = "next" => cur[d] = None
    /\ pc[d] \in {"complete", "read", "retry"} => cur[d] \in Events
    /\ pc[d] \notin {"idle", "claim"} => token[d] \in Tokens

\* No two passes share a token.
DistinctTokens ==
  \A c, d \in Dispatchers : token[c] = token[d] /\ token[c] # None => c = d

\* A claimed event's row, seen by the pass that claimed it.
Leased(d, e) ==
  /\ status[e] = "pending"
  /\ lease[e] = token[d]
  /\ leaseUntil[e] = Deadline(d)

Settled(d, e) ==
  /\ pc[d] = "read"
  /\ cur[d] = e
  /\ status[e] \in {"delivered", "purged"}

LeaseKnown ==
  \A d \in Dispatchers, e \in Events :
    Engaged(d, e) => Leased(d, e) \/ Deadline(d) <= now \/ Settled(d, e)

\* Flows has the event a pass is about to complete.
CompletesReceived ==
  \A d \in Dispatchers : pc[d] = "complete" => cur[d] \in received

IInv == /\ TypeOK /\ PassShape /\ DistinctTokens /\ LeaseKnown
        /\ ExclusiveLease /\ CompletesReceived /\ NoEventLost

-----------------------------------------------------------------------------

\* A clamped deadline is a clock value.
LEMMA ClampType == ASSUME NEW t \in Int PROVE Clamp(t) \in 0..Horizon
  BY OutboxAssumption DEF Clamp, OutboxAssumption

\* The token a claim takes is held by no row and no pass.
LEMMA NewTokenFresh ==
  ASSUME FreshTokens # {}
  PROVE  /\ NewToken \in Tokens /\ NewToken # None
         /\ \A e \in Events : lease[e] # NewToken
         /\ \A d \in Dispatchers : token[d] # NewToken
  <1>1. NewToken \in FreshTokens
    BY DEF NewToken
  <1>2. QED
    BY <1>1, OutboxAssumption DEF FreshTokens, OutboxAssumption

\* Each statement of the outbox keeps its columns and the pass's locals in
\* their domains, whatever clock value the pass took.
LEMMA TypeStep == TypeOK /\ PassShape /\ [Next]_vars => TypeOK'
  <1> SUFFICES ASSUME TypeOK, PassShape, [Next]_vars PROVE TypeOK'
    OBVIOUS
  <1> USE OutboxAssumption DEF OutboxAssumption, TypeOK, rowVars, passVars
  <1>1. ASSUME NEW e \in Events, Capture(e) PROVE TypeOK'
    BY <1>1 DEF Capture, Status
  <1>2. ASSUME NEW d \in Dispatchers, StartPass(d) PROVE TypeOK'
    BY <1>2 DEF StartPass, Status, Phase
  <1>3. ASSUME NEW d \in Dispatchers, Claim(d) PROVE TypeOK'
    <2>1. PICK S \in SUBSET Claimable(d) :
            /\ lease' = [e \in Events |-> IF e \in S THEN NewToken ELSE lease[e]]
            /\ leaseUntil' = [e \in Events |-> IF e \in S
                                               THEN Clamp(at[d] + LeaseTime)
                                               ELSE leaseUntil[e]]
            /\ attempts' = [e \in Events |->
                              IF e \in S /\ attempts[e] < MaxAttempts
                              THEN attempts[e] + 1 ELSE attempts[e]]
            /\ todo' = [todo EXCEPT ![d] = S]
      BY <1>3 DEF Claim
    <2>2. NewToken \in Tokens
      BY <1>3, NewTokenFresh DEF Claim
    <2>3. Clamp(at[d] + LeaseTime) \in 0..Horizon
      BY ClampType
    <2>4. S \subseteq Events
      BY DEF Claimable
    <2>5. /\ lease' \in [Events -> Tokens \cup {None}]
          /\ leaseUntil' \in [Events -> 0..Horizon]
          /\ todo' \in [Dispatchers -> SUBSET Events]
      BY <2>1, <2>2, <2>3, <2>4
    <2>6. attempts' \in [Events -> 0..MaxAttempts]
      BY <2>1
    <2>7. token' \in [Dispatchers -> Tokens \cup {None}] /\ pc' \in [Dispatchers -> Phase]
      BY <1>3, <2>2 DEF Claim, Phase
    <2>8. QED
      BY <1>3, <2>5, <2>6, <2>7 DEF Claim
  <1>4. ASSUME NEW d \in Dispatchers, Send(d) PROVE TypeOK'
    BY <1>4 DEF Send, Phase
  <1>5. ASSUME NEW d \in Dispatchers, Complete(d) PROVE TypeOK'
    BY <1>5 DEF Complete, Advance, Status, Phase
  <1>6. ASSUME NEW d \in Dispatchers, CompleteLost(d) PROVE TypeOK'
    BY <1>6 DEF CompleteLost, Phase
  <1>7. ASSUME NEW d \in Dispatchers, ReadAttempts(d) PROVE TypeOK'
    <2>1. pc' \in [Dispatchers -> Phase] /\ cur' \in [Dispatchers -> Events \cup {None}]
      BY <1>7 DEF ReadAttempts, Advance, Phase
    <2>2. seen' \in [Dispatchers -> 0..MaxAttempts]
      BY <1>7 DEF ReadAttempts, PassShape
    <2>3. QED
      BY <1>7, <2>1, <2>2 DEF ReadAttempts
  <1>8. ASSUME NEW d \in Dispatchers, Retry(d) PROVE TypeOK'
    <2>1. status' \in [Events -> Status]
      BY <1>8 DEF Retry, Status
    <2>2. availableAt' \in [Events -> 0..Horizon]
      BY <1>8, ClampType DEF Retry, Clamp
    <2>3. QED
      BY <1>8, <2>1, <2>2 DEF Retry, Advance, Phase
  <1>9. ASSUME NEW d \in Dispatchers, EndPass(d) PROVE TypeOK'
    BY <1>9 DEF EndPass, Leave, Phase
  <1>10. ASSUME NEW d \in Dispatchers, Crash(d) PROVE TypeOK'
    BY <1>10 DEF Crash, Leave, Phase
  <1>11. CASE Tick
    BY <1>11 DEF Tick
  <1>12. CASE UNCHANGED vars
    BY <1>12 DEF vars
  <1>13. QED
    BY <1>1, <1>2, <1>3, <1>4, <1>5, <1>6, <1>7, <1>8, <1>9, <1>10, <1>11,
       <1>12 DEF Next, PassStep

\* Every step keeps the locals of a pass in the shape of its phase.
LEMMA ShapeStep == TypeOK /\ PassShape /\ [Next]_vars => PassShape'
  <1> SUFFICES ASSUME TypeOK, PassShape, [Next]_vars PROVE PassShape'
    OBVIOUS
  <1> USE OutboxAssumption DEF OutboxAssumption, TypeOK, PassShape, rowVars,
          passVars, Phase
  <1>1. ASSUME NEW e \in Events, Capture(e) PROVE PassShape'
    BY <1>1 DEF Capture
  <1>2. ASSUME NEW d \in Dispatchers, StartPass(d) PROVE PassShape'
    BY <1>2 DEF StartPass
  <1>3. ASSUME NEW d \in Dispatchers, Claim(d) PROVE PassShape'
    <2>1. NewToken \in Tokens
      BY <1>3, NewTokenFresh DEF Claim
    <2>2. QED
      BY <1>3, <2>1 DEF Claim, Claimable
  <1>4. ASSUME NEW d \in Dispatchers, Send(d) PROVE PassShape'
    BY <1>4 DEF Send
  <1>5. ASSUME NEW d \in Dispatchers, Complete(d) PROVE PassShape'
    BY <1>5 DEF Complete, Advance
  <1>6. ASSUME NEW d \in Dispatchers, CompleteLost(d) PROVE PassShape'
    BY <1>6 DEF CompleteLost
  <1>7. ASSUME NEW d \in Dispatchers, ReadAttempts(d) PROVE PassShape'
    BY <1>7 DEF ReadAttempts, Advance
  <1>8. ASSUME NEW d \in Dispatchers, Retry(d) PROVE PassShape'
    BY <1>8 DEF Retry, Advance
  <1>9. ASSUME NEW d \in Dispatchers, EndPass(d) PROVE PassShape'
    BY <1>9 DEF EndPass, Leave
  <1>10. ASSUME NEW d \in Dispatchers, Crash(d) PROVE PassShape'
    BY <1>10 DEF Crash, Leave
  <1>11. CASE Tick
    BY <1>11 DEF Tick
  <1>12. CASE UNCHANGED vars
    BY <1>12 DEF vars
  <1>13. QED
    BY <1>1, <1>2, <1>3, <1>4, <1>5, <1>6, <1>7, <1>8, <1>9, <1>10, <1>11,
       <1>12 DEF Next, PassStep

\* Only a claim takes a token, and it takes a fresh one.
LEMMA TokensStep ==
  TypeOK /\ DistinctTokens /\ [Next]_vars => DistinctTokens'
  <1> SUFFICES ASSUME TypeOK, DistinctTokens, [Next]_vars
               PROVE  DistinctTokens'
    OBVIOUS
  <1> USE DEF TypeOK, DistinctTokens
  <1>1. ASSUME NEW d \in Dispatchers, Claim(d) PROVE DistinctTokens'
    BY <1>1, NewTokenFresh DEF Claim
  <1>2. ASSUME NEW d \in Dispatchers, EndPass(d) \/ Crash(d)
        PROVE  DistinctTokens'
    BY <1>2 DEF EndPass, Crash, Leave
  <1>3. ASSUME UNCHANGED token PROVE DistinctTokens'
    BY <1>3
  <1>4. QED
    BY <1>1, <1>2, <1>3 DEF Next, PassStep, Capture, StartPass, Send,
       Complete, CompleteLost, ReadAttempts, Retry, Tick, vars, passVars

\* The rows a pass claims: pending ones without a live lease.
LEMMA ClaimTakes ==
  ASSUME TypeOK, PassShape, NEW d \in Dispatchers, Claim(d)
  PROVE  \E S \in SUBSET Events :
           /\ todo' = [todo EXCEPT ![d] = S]
           /\ \A e \in S : /\ status[e] = "pending"
                           /\ lease[e] = None \/ leaseUntil[e] <= now
                           /\ lease'[e] = NewToken
                           /\ leaseUntil'[e] = Deadline(d)
           /\ \A e \in Events \ S : /\ lease'[e] = lease[e]
                                    /\ leaseUntil'[e] = leaseUntil[e]
  <1>1. PICK S \in SUBSET Claimable(d) :
          /\ lease' = [e \in Events |-> IF e \in S THEN NewToken ELSE lease[e]]
          /\ leaseUntil' = [e \in Events |-> IF e \in S THEN Deadline(d)
                                                        ELSE leaseUntil[e]]
          /\ todo' = [todo EXCEPT ![d] = S]
    BY DEF Claim, Deadline
  <1>2. S \in SUBSET Events
    BY DEF Claimable
  <1>3. ASSUME NEW e \in S
        PROVE  status[e] = "pending" /\ (lease[e] = None \/ leaseUntil[e] <= now)
    <2>1. at[d] <= now /\ at[d] \in Int /\ now \in Int /\ leaseUntil[e] \in Int
      BY <1>2 DEF TypeOK, PassShape
    <2>2. QED
      BY <2>1 DEF Claimable
  <1>4. QED
    BY <1>1, <1>2, <1>3

\* The rows an engaged pass sees stay known to it: only the pass itself or an
\* expired lease lets a row change.
LEMMA LeaseStep ==
  TypeOK /\ PassShape /\ DistinctTokens /\ LeaseKnown /\ [Next]_vars
    => LeaseKnown'
  <1> SUFFICES ASSUME TypeOK, PassShape, DistinctTokens, LeaseKnown,
                      [Next]_vars
               PROVE  LeaseKnown'
    OBVIOUS
  <1> USE DEF TypeOK, PassShape, LeaseKnown, Engaged, Leased, Settled,
              Deadline, rowVars, passVars
  <1>1. ASSUME NEW e \in Events, Capture(e) PROVE LeaseKnown'
    BY <1>1 DEF Capture
  <1>2. ASSUME NEW d \in Dispatchers, StartPass(d) PROVE LeaseKnown'
    BY <1>2, OutboxAssumption DEF StartPass, Expired, OutboxAssumption
  <1>3. ASSUME NEW d \in Dispatchers, Claim(d) PROVE LeaseKnown'
    <2>1. PICK S \in SUBSET Events :
            /\ todo' = [todo EXCEPT ![d] = S]
            /\ \A e \in S : /\ status[e] = "pending"
                            /\ lease[e] = None \/ leaseUntil[e] <= now
                            /\ lease'[e] = NewToken
                            /\ leaseUntil'[e] = Deadline(d)
            /\ \A e \in Events \ S : /\ lease'[e] = lease[e]
                                     /\ leaseUntil'[e] = leaseUntil[e]
      BY <1>3, ClaimTakes
    <2>2. /\ UNCHANGED <<status, at, cur, now>>
          /\ token' = [token EXCEPT ![d] = NewToken]
          /\ pc' = [pc EXCEPT ![d] = "next"]
      BY <1>3 DEF Claim
    <2>3. cur[d] = None /\ None \notin Events /\ None \notin Tokens
      BY <1>3, OutboxAssumption DEF Claim, OutboxAssumption
    <2>4. ASSUME NEW c \in Dispatchers, NEW e \in Events, Engaged(c, e)'
          PROVE  (Leased(c, e) \/ Deadline(c) <= now \/ Settled(c, e))'
      <3>1. CASE c = d
        BY <2>1, <2>2, <2>3, <2>4, <3>1
      <3>2. CASE c # d /\ e \notin S
        BY <2>1, <2>2, <2>4, <3>2
      <3>3. CASE c # d /\ e \in S
        <4>1. Engaged(c, e) /\ token[c] # None
          BY <2>1, <2>2, <2>3, <2>4, <3>3 DEF Phase
        <4>2. ~ Settled(c, e)
          BY <2>1, <3>3
        <4>3. Deadline(c) <= now
          BY <2>1, <3>3, <4>1, <4>2
        <4>4. QED
          BY <2>2, <3>3, <4>3
      <3>4. QED
        BY <3>1, <3>2, <3>3
    <2>5. QED
      BY <2>4
  <1>4. ASSUME NEW d \in Dispatchers, Send(d) PROVE LeaseKnown'
    BY <1>4 DEF Send
  <1>5. ASSUME NEW d \in Dispatchers, Complete(d) PROVE LeaseKnown'
    <2> DEFINE f == cur[d]
    <2>1. f \in Events /\ token[d] \in Tokens /\ None \notin Events
          /\ None \notin Tokens
      BY <1>5, OutboxAssumption DEF Complete, Phase, OutboxAssumption
    <2>2. ASSUME NEW c \in Dispatchers, NEW e \in Events, Engaged(c, e)'
          PROVE  (Leased(c, e) \/ Deadline(c) <= now \/ Settled(c, e))'
      <3>1. Engaged(c, e) /\ UNCHANGED <<at, now, token, todo>>
        BY <1>5, <2>2, <2>1 DEF Complete, Advance
      <3>2. CASE c # d /\ Holds(d) /\ e = f
        <4>1. ~ Leased(c, e)
          BY <2>1, <3>2 DEF Holds, DistinctTokens
        <4>2. ~ Settled(c, e)
          BY <3>2 DEF Holds
        <4>3. QED
          BY <3>1, <4>1, <4>2
      <3>3. CASE c # d /\ ~(Holds(d) /\ e = f)
        BY <1>5, <2>1, <3>1, <3>3 DEF Complete, Advance
      <3>4. CASE c = d /\ e = f
        BY <1>5, <2>1, <2>2, <3>1, <3>4 DEF Complete, Advance, Holds
      <3>5. CASE c = d /\ e # f
        BY <1>5, <2>1, <3>1, <3>5 DEF Complete, Advance
      <3>6. QED
        BY <3>2, <3>3, <3>4, <3>5
    <2>3. QED
      BY <2>2
  <1>6. ASSUME NEW d \in Dispatchers, CompleteLost(d) PROVE LeaseKnown'
    BY <1>6 DEF CompleteLost
  <1>7. ASSUME NEW d \in Dispatchers, ReadAttempts(d) PROVE LeaseKnown'
    BY <1>7, OutboxAssumption
       DEF ReadAttempts, Advance, Holds, OutboxAssumption
  <1>8. ASSUME NEW d \in Dispatchers, Retry(d) PROVE LeaseKnown'
    <2> DEFINE f == cur[d]
    <2>1. f \in Events /\ token[d] \in Tokens /\ None \notin Events
          /\ None \notin Tokens
      BY <1>8, OutboxAssumption DEF Retry, Phase, OutboxAssumption
    <2>2. ASSUME NEW c \in Dispatchers, NEW e \in Events, Engaged(c, e)'
          PROVE  (Leased(c, e) \/ Deadline(c) <= now \/ Settled(c, e))'
      <3>1. Engaged(c, e) /\ UNCHANGED <<at, now, token, todo>>
        BY <1>8, <2>2, <2>1 DEF Retry, Advance
      <3>2. CASE c # d /\ Holds(d) /\ e = f
        <4>1. ~ Leased(c, e)
          BY <2>1, <3>2 DEF Holds, DistinctTokens
        <4>2. ~ Settled(c, e)
          BY <3>2 DEF Holds
        <4>3. QED
          BY <3>1, <4>1, <4>2
      <3>3. CASE c # d /\ ~(Holds(d) /\ e = f)
        BY <1>8, <2>1, <3>1, <3>3 DEF Retry, Advance
      <3>4. CASE c = d
        BY <1>8, <2>1, <2>2, <3>1, <3>4 DEF Retry, Advance
      <3>5. QED
        BY <3>2, <3>3, <3>4
    <2>3. QED
      BY <2>2
  <1>9. ASSUME NEW d \in Dispatchers, EndPass(d) \/ Crash(d)
        PROVE  LeaseKnown'
    BY <1>9, OutboxAssumption DEF EndPass, Crash, Leave, OutboxAssumption
  <1>10. CASE Tick
    <2>1. \A d \in Dispatchers : Deadline(d) \in Int /\ Deadline(d)' = Deadline(d)
      BY <1>10, ClampType, OutboxAssumption DEF Tick, OutboxAssumption, Clamp
    <2>2. now' = now + 1 /\ now \in Int
      BY <1>10 DEF Tick
    <2>3. ASSUME NEW d \in Dispatchers, Deadline(d) <= now
          PROVE  Deadline(d)' <= now'
      BY <2>1, <2>2, <2>3
    <2>4. QED
      BY <1>10, <2>3 DEF Tick
  <1>11. CASE UNCHANGED vars
    BY <1>11 DEF vars
  <1>12. QED
    BY <1>1, <1>2, <1>3, <1>4, <1>5, <1>6, <1>7, <1>8, <1>9, <1>10, <1>11
       DEF Next, PassStep

\* A claim takes an event from another pass only when that pass's lease has
\* run out; no other step engages a pass with an event.
LEMMA ExclusiveStep ==
  TypeOK /\ PassShape /\ LeaseKnown /\ ExclusiveLease /\ [Next]_vars
    => ExclusiveLease'
  <1> SUFFICES ASSUME TypeOK, PassShape, LeaseKnown, ExclusiveLease,
                      [Next]_vars,
                      NEW c \in Dispatchers, NEW d \in Dispatchers,
                      NEW e \in Events, Working(c, e)', Working(d, e)'
               PROVE  c = d
    BY DEF ExclusiveLease
  <1> DEFINE Moves(p) == /\ Claim(p)
                         /\ e \in todo'[p]
  <1>1. now <= now' /\ now \in Int /\ now' \in Int
    <2>1. now' = now \/ now' = now + 1
      BY DEF Next, PassStep, Capture, StartPass, Claim, Send, Complete,
         CompleteLost, ReadAttempts, Retry, EndPass, Crash, Leave, Tick, vars
    <2>2. QED
      BY <2>1 DEF TypeOK
  <1>2. ASSUME NEW p \in Dispatchers, Working(p, e)', ~ Moves(p)
        PROVE  Working(p, e)
    <2>1. at'[p] = at[p] /\ Engaged(p, e)
      <3> USE OutboxAssumption DEF TypeOK, PassShape, Working, Engaged,
              OutboxAssumption, rowVars, passVars
      <3>1. ASSUME NEW q \in Dispatchers, Claim(q)
            PROVE  at'[p] = at[p] /\ Engaged(p, e)
        <4>1. PICK S \in SUBSET Events : todo' = [todo EXCEPT ![q] = S]
          BY <3>1 DEF Claim, Claimable
        <4>2. UNCHANGED <<at, cur>>
          BY <3>1 DEF Claim
        <4>3. p = q => e \notin todo'[p]
          BY <1>2, <3>1
        <4>4. QED
          BY <1>2, <4>1, <4>2, <4>3
      <3>2. ASSUME NEW q \in Dispatchers, StartPass(q)
            PROVE  at'[p] = at[p] /\ Engaged(p, e)
        BY <1>2, <3>2 DEF StartPass
      <3>3. ASSUME NEW q \in Dispatchers, Send(q)
            PROVE  at'[p] = at[p] /\ Engaged(p, e)
        BY <1>2, <3>3 DEF Send
      <3>4. ASSUME NEW q \in Dispatchers,
                   Complete(q) \/ ReadAttempts(q) \/ Retry(q)
            PROVE  at'[p] = at[p] /\ Engaged(p, e)
        <4>1. /\ UNCHANGED <<at, todo>>
              /\ cur' \in {cur, [cur EXCEPT ![q] = None]}
          BY <3>4 DEF Complete, ReadAttempts, Retry, Advance
        <4>2. QED
          BY <1>2, <4>1
      <3>5. ASSUME NEW q \in Dispatchers, EndPass(q) \/ Crash(q)
            PROVE  at'[p] = at[p] /\ Engaged(p, e)
        BY <1>2, <3>5 DEF EndPass, Crash, Leave
      <3>6. ASSUME UNCHANGED <<at, todo, cur>>
            PROVE  at'[p] = at[p] /\ Engaged(p, e)
        BY <1>2, <3>6
      <3>7. QED
        BY <3>1, <3>2, <3>3, <3>4, <3>5, <3>6
           DEF Next, PassStep, Capture, CompleteLost, Tick, vars
    <2>2. Deadline(p) > now' /\ Deadline(p) \in Int
      BY <1>2, <2>1, ClampType, OutboxAssumption
         DEF Working, Deadline, TypeOK, OutboxAssumption
    <2>3. QED
      BY <1>1, <2>1, <2>2 DEF Working, Engaged, Deadline
  <1>3. ASSUME NEW p \in Dispatchers, NEW q \in Dispatchers, p # q,
               Moves(p), Working(q, e)'
        PROVE  FALSE
    <2>1. ~ Moves(q)
      BY <1>3 DEF Claim, TypeOK
    <2>2. Working(q, e)
      BY <1>2, <1>3, <2>1
    <2>3. PICK S \in SUBSET Events :
            /\ todo' = [todo EXCEPT ![p] = S]
            /\ \A f \in S : /\ status[f] = "pending"
                            /\ lease[f] = None \/ leaseUntil[f] <= now
      BY <1>3, ClaimTakes
    <2>4. e \in S
      BY <1>3, <2>3 DEF TypeOK
    <2>5. Leased(q, e) /\ ~ (Deadline(q) <= now)
      <3>1. Deadline(q) > now /\ Deadline(q) \in Int
        BY <2>2, ClampType, OutboxAssumption
           DEF Working, Deadline, TypeOK, OutboxAssumption
      <3>2. Engaged(q, e)
        BY <2>2 DEF Working, Engaged
      <3>3. QED
        BY <1>1, <2>3, <2>4, <3>1, <3>2 DEF LeaseKnown, Settled
    <2>6. token[q] \in Tokens
      BY <2>2, OutboxAssumption
         DEF Working, PassShape, TypeOK, Phase, OutboxAssumption
    <2>7. QED
      BY <2>3, <2>4, <2>5, <2>6, OutboxAssumption DEF Leased, OutboxAssumption
  <1>4. CASE c # d /\ ~ Moves(c) /\ ~ Moves(d)
    BY <1>2, <1>4 DEF ExclusiveLease
  <1>5. QED
    BY <1>3, <1>4

\* Only Complete delivers a row, and it runs after an admission.
LEMMA ReceivedStep ==
  TypeOK /\ PassShape /\ CompletesReceived /\ NoEventLost /\ [Next]_vars
    => CompletesReceived' /\ NoEventLost'
  <1> SUFFICES ASSUME TypeOK, PassShape, CompletesReceived, NoEventLost,
                      [Next]_vars
               PROVE  CompletesReceived' /\ NoEventLost'
    OBVIOUS
  <1> USE DEF TypeOK, PassShape, CompletesReceived, NoEventLost, rowVars,
              passVars, Status, Phase
  <1>1. ASSUME NEW e \in Events, Capture(e)
        PROVE  CompletesReceived' /\ NoEventLost'
    BY <1>1 DEF Capture
  <1>2. ASSUME NEW d \in Dispatchers, StartPass(d)
        PROVE  CompletesReceived' /\ NoEventLost'
    BY <1>2 DEF StartPass, Expired
  <1>3. ASSUME NEW d \in Dispatchers, Claim(d)
        PROVE  CompletesReceived' /\ NoEventLost'
    BY <1>3 DEF Claim
  <1>4. ASSUME NEW d \in Dispatchers, Send(d)
        PROVE  CompletesReceived' /\ NoEventLost'
    BY <1>4 DEF Send
  <1>5. ASSUME NEW d \in Dispatchers, Complete(d)
        PROVE  CompletesReceived' /\ NoEventLost'
    BY <1>5 DEF Complete, Advance
  <1>6. ASSUME NEW d \in Dispatchers,
               CompleteLost(d) \/ ReadAttempts(d) \/ EndPass(d) \/ Crash(d)
        PROVE  CompletesReceived' /\ NoEventLost'
    BY <1>6 DEF CompleteLost, ReadAttempts, Advance, EndPass, Crash, Leave
  <1>7. ASSUME NEW d \in Dispatchers, Retry(d)
        PROVE  CompletesReceived' /\ NoEventLost'
    BY <1>7 DEF Retry, Advance, Holds
  <1>8. CASE Tick \/ UNCHANGED vars
    BY <1>8 DEF Tick, vars
  <1>9. QED
    BY <1>1, <1>2, <1>3, <1>4, <1>5, <1>6, <1>7, <1>8 DEF Next, PassStep

-----------------------------------------------------------------------------

\* The empty outbox satisfies the invariant.
LEMMA InitInv == Init => IInv
  BY OutboxAssumption
     DEF Init, IInv, TypeOK, PassShape, DistinctTokens, LeaseKnown,
         ExclusiveLease, Working, Engaged, CompletesReceived, NoEventLost,
         Status, Phase, OutboxAssumption

\* The inductive invariant: IInv holds in every state of every behaviour.
THEOREM Invariance == Spec => []IInv
  <1>1. IInv /\ [Next]_vars => IInv'
    BY TypeStep, ShapeStep, TokensStep, LeaseStep, ExclusiveStep, ReceivedStep
       DEF IInv
  <1>2. QED
    BY InitInv, <1>1, PTL DEF Spec

\* The columns of the outbox and the locals of the passes keep their types.
THEOREM TypeCorrect == Spec => []TypeOK
  <1>1. IInv => TypeOK
    BY DEF IInv
  <1>2. QED
    BY Invariance, <1>1, PTL

\* No event is worked on by two dispatch passes under live leases, whatever
\* the order of their claims, retries and crashes.
THEOREM LeaseIsExclusive == Spec => []ExclusiveLease
  <1>1. IInv => ExclusiveLease
    BY DEF IInv
  <1>2. QED
    BY Invariance, <1>1, PTL

\* A row is marked delivered, or purged, only after Flows admitted its event.
THEOREM DeliveredWasReceived == Spec => []NoEventLost
  <1>1. IInv => NoEventLost
    BY DEF IInv
  <1>2. QED
    BY Invariance, <1>1, PTL

\* A live lease is cleared or replaced only by the pass that holds it.
THEOREM WritesAreFenced == Spec => FencedWrites
  <1> DEFINE Fenced ==
        \A e \in Events :
          lease[e] # None /\ lease'[e] # lease[e] =>
            \/ leaseUntil[e] <= now
            \/ \E d \in Dispatchers : /\ token[d] = lease[e]
                                      /\ cur[d] = e
                                      /\ pc'[d] # pc[d]
  <1>1. IInv /\ [Next]_vars => Fenced
    <2> SUFFICES ASSUME IInv, [Next]_vars, NEW e \in Events,
                        lease[e] # None, lease'[e] # lease[e]
                 PROVE  \/ leaseUntil[e] <= now
                        \/ \E d \in Dispatchers : /\ token[d] = lease[e]
                                                  /\ cur[d] = e
                                                  /\ pc'[d] # pc[d]
      OBVIOUS
    <2> USE DEF IInv, TypeOK, PassShape
    <2>1. ASSUME NEW d \in Dispatchers, Claim(d) PROVE leaseUntil[e] <= now
      <3> HIDE DEF TypeOK, PassShape
      <3>1. PICK S \in SUBSET Events :
              /\ \A f \in S : lease[f] = None \/ leaseUntil[f] <= now
              /\ \A f \in Events \ S : lease'[f] = lease[f]
        BY <2>1, ClaimTakes
      <3>2. QED
        BY <3>1
    <2>2. ASSUME NEW d \in Dispatchers, Complete(d) \/ Retry(d)
          PROVE  token[d] = lease[e] /\ cur[d] = e /\ pc'[d] # pc[d]
      BY <2>2 DEF Complete, Retry, Advance, Holds
    <2>3. QED
      BY <2>1, <2>2
         DEF Next, PassStep, Capture, StartPass, Send, CompleteLost,
             ReadAttempts, EndPass, Crash, Leave, Tick, vars, rowVars
  <1>2. QED
    BY Invariance, <1>1, PTL DEF Spec, FencedWrites

\* Only a pass that holds the pending row settles it, and only the retention
\* removes one.
THEOREM SettledRowsStay == Spec => SettledStays
  <1> DEFINE Stays ==
        \A e \in Events :
          /\ status[e] = "delivered" => status'[e] \in {"delivered", "purged"}
          /\ status[e] = "failed" => status'[e] = "failed"
          /\ status'[e] = "purged" => status[e] \in {"delivered", "purged"}
  <1>1. IInv /\ [Next]_vars => Stays
    <2> SUFFICES ASSUME IInv, [Next]_vars, NEW e \in Events
                 PROVE  /\ status[e] = "delivered" => status'[e] \in {"delivered", "purged"}
                        /\ status[e] = "failed" => status'[e] = "failed"
                        /\ status'[e] = "purged" => status[e] \in {"delivered", "purged"}
      OBVIOUS
    <2> USE DEF IInv, TypeOK
    <2>1. ASSUME NEW f \in Events, Capture(f)
          PROVE  status'[e] = status[e] \/ (status[e] = "absent" /\ status'[e] = "pending")
      BY <2>1 DEF Capture
    <2>2. ASSUME NEW d \in Dispatchers, StartPass(d)
          PROVE  status'[e] = status[e] \/ (status[e] = "delivered" /\ status'[e] = "purged")
      BY <2>2 DEF StartPass, Expired
    <2>3. ASSUME NEW d \in Dispatchers, Complete(d) \/ Retry(d)
          PROVE  \/ status'[e] = status[e]
                 \/ status[e] = "pending" /\ status'[e] \in {"delivered", "failed"}
      BY <2>3 DEF Complete, Retry, Holds
    <2>4. QED
      BY <2>1, <2>2, <2>3
         DEF Next, PassStep, Claim, Send, CompleteLost, ReadAttempts, EndPass,
             Crash, Leave, Tick, vars, rowVars
  <1>2. QED
    BY Invariance, <1>1, PTL DEF Spec, SettledStays

\* The attempts that a pass has read are no more than the row has by now.
SeenCounts ==
  \A d \in Dispatchers : pc[d] = "retry" => seen[d] <= attempts[cur[d]]

LEMMA SeenStep ==
  ASSUME TypeOK, PassShape, SeenCounts, GivenUpAfterLimit, [Next]_vars
  PROVE  SeenCounts' /\ GivenUpAfterLimit'
  <1> USE DEF TypeOK, PassShape, SeenCounts, GivenUpAfterLimit
  <1>1. \A e \in Events : attempts[e] \in 0..MaxAttempts
    OBVIOUS
  <1>2. ASSUME NEW d \in Dispatchers, Claim(d)
        PROVE  SeenCounts' /\ GivenUpAfterLimit'
    <2>1. \A e \in Events :
            \/ attempts'[e] = attempts[e]
            \/ (attempts[e] < MaxAttempts /\ attempts'[e] = attempts[e] + 1)
      BY <1>2 DEF Claim
    <2>2. /\ status' = status /\ seen' = seen /\ cur' = cur
          /\ \A c \in Dispatchers : pc'[c] = "retry" => pc[c] = "retry"
      BY <1>2 DEF Claim
    <2>3. SeenCounts'
      <3> SUFFICES ASSUME NEW c \in Dispatchers, pc'[c] = "retry"
                   PROVE  seen[c] <= attempts'[cur[c]]
        BY <2>2
      <3>1. pc[c] = "retry" /\ cur[c] \in Events /\ seen[c] \in 0..MaxAttempts
        BY <2>2
      <3> QED
        BY <2>1, <3>1, <1>1, OutboxAssumption DEF OutboxAssumption
    <2>4. GivenUpAfterLimit'
      BY <2>1, <2>2, <1>1, OutboxAssumption DEF OutboxAssumption
    <2> QED
      BY <2>3, <2>4
  <1>3. ASSUME NEW d \in Dispatchers, ReadAttempts(d)
        PROVE  SeenCounts' /\ GivenUpAfterLimit'
    <2>1. attempts' = attempts /\ status' = status
      BY <1>3 DEF ReadAttempts, rowVars
    <2>2. \A c \in Dispatchers : pc'[c] = "retry" =>
            \/ pc[c] = "retry" /\ seen'[c] = seen[c] /\ cur'[c] = cur[c]
            \/ seen'[c] = attempts[cur'[c]] /\ cur'[c] \in Events
      BY <1>3 DEF ReadAttempts, Advance
    <2> QED
      BY <2>1, <2>2, <1>1, OutboxAssumption DEF OutboxAssumption
  <1>4. ASSUME NEW d \in Dispatchers, Retry(d)
        PROVE  SeenCounts' /\ GivenUpAfterLimit'
    <2>1. /\ attempts' = attempts
          /\ \A c \in Dispatchers : pc'[c] = "retry" =>
               pc[c] = "retry" /\ seen'[c] = seen[c] /\ cur'[c] = cur[c]
      BY <1>4 DEF Retry, Advance
    <2>2. \A e \in Events : status'[e] = "failed" =>
            status[e] = "failed" \/ (e = cur[d] /\ seen[d] >= MaxAttempts)
      BY <1>4 DEF Retry, Holds
    <2>3. cur[d] \in Events /\ seen[d] <= attempts[cur[d]] /\ seen[d] \in 0..MaxAttempts
      BY <1>4 DEF Retry
    <2> QED
      BY <2>1, <2>2, <2>3, <1>1, OutboxAssumption DEF OutboxAssumption
  <1>5. ASSUME \/ \E e \in Events : Capture(e)
               \/ \E d \in Dispatchers : \/ StartPass(d) \/ Send(d) \/ Complete(d)
                                         \/ CompleteLost(d) \/ EndPass(d) \/ Crash(d)
               \/ Tick \/ UNCHANGED vars
        PROVE  SeenCounts' /\ GivenUpAfterLimit'
    <2>1. /\ attempts' = attempts
          /\ \A e \in Events : status'[e] = "failed" => status[e] = "failed"
      BY <1>5 DEF Capture, StartPass, Send, Complete, CompleteLost, EndPass, Crash,
                  Leave, Tick, vars, rowVars
    <2>2. \A c \in Dispatchers : pc'[c] = "retry" =>
            pc[c] = "retry" /\ seen'[c] = seen[c] /\ cur'[c] = cur[c]
      BY <1>5 DEF Capture, StartPass, Send, Complete, CompleteLost, EndPass, Crash,
                  Advance, Leave, Tick, vars, passVars
    <2> QED
      BY <2>1, <2>2
  <1> QED
    BY <1>2, <1>3, <1>4, <1>5 DEF Next, PassStep

\* No event is given up before its last attempt, though the count that decides
\* is read in an earlier statement than the one that gives the event up.
THEOREM GivenUpLast == Spec => []GivenUpAfterLimit
  <1>1. Init => SeenCounts /\ GivenUpAfterLimit
    BY DEF Init, SeenCounts, GivenUpAfterLimit
  <1>2. /\ IInv /\ SeenCounts /\ GivenUpAfterLimit /\ [Next]_vars
        => (SeenCounts /\ GivenUpAfterLimit)'
    BY SeenStep DEF IInv
  <1>3. QED
    BY <1>1, <1>2, Invariance, PTL DEF Spec

-----------------------------------------------------------------------------
(* The outbox together with the delivery of its events.                    *)

\* What the deliveries are, and what the host may rely on.
Promise ==
  /\ form \in [Deliveries -> Flows!Forms \cup {"none"}]
  /\ outcome \in [Deliveries -> Flows!Outcomes \cup {"open"}]
  /\ told \subseteq Deliveries
  /\ \A d \in Deliveries : form[d] = "none" => outcome[d] = "open"
  /\ \A d \in Deliveries : outcome[d] = "accepted" => d \in begun
  /\ \A d \in told : form[d] = "receipt" \/ outcome[d] # "open"

\* The host was told of every delivery of a received event that has a claim.
Answered ==
  \A e \in received, s \in Subscriptions : <<e, s>> \in told \cup withdrawn

\* Each step of the pipeline is a step of the outbox or leaves it alone.
LEMMA HostSteps ==
  ASSUME [PipelineNext]_pipelineVars PROVE [Next]_vars
<1>1. CASE Admit
  BY <1>1 DEF Admit, Next, PassStep
<1>2. CASE HostStep
  BY <1>2 DEF HostStep
<1>3. CASE FlowsStep \/ Reconfigure \/ UNCHANGED pipelineVars
  BY <1>3 DEF FlowsStep, Reconfigure, pipelineVars
<1> QED
  BY <1>1, <1>2, <1>3 DEF PipelineNext

\* Each is also a step of the delivery or leaves that alone.
LEMMA FlowsSteps ==
  ASSUME [PipelineNext]_pipelineVars PROVE [Flows!DNext]_flowsVars
<1>1. CASE Admit
  <2>1. PICK e \in Events : Flows!Tell(({e} \X Subscriptions) \ withdrawn)
    BY <1>1 DEF Admit
  <2>2. ({e} \X Subscriptions) \ withdrawn \in SUBSET Deliveries
    BY DEF Deliveries
  <2> QED
    BY <2>1, <2>2 DEF Flows!DNext
<1>2. CASE FlowsStep
  BY <1>2 DEF FlowsStep, Flows!DNext
<1>3. CASE Reconfigure
  BY <1>3 DEF Reconfigure, Flows!DNext
<1>4. CASE HostStep \/ UNCHANGED pipelineVars
  BY <1>4 DEF HostStep, pipelineVars
<1> QED
  BY <1>1, <1>2, <1>3, <1>4 DEF PipelineNext

LEMMA PromiseStep ==
  ASSUME Promise, [Flows!DNext]_flowsVars PROVE Promise'
<1> USE DEF Promise, Flows!Forms, Flows!Outcomes
<1>1. ASSUME NEW d \in Deliveries, NEW f \in Flows!Forms, Flows!TakeIn(d, f)
      PROVE  Promise'
  BY <1>1 DEF Flows!TakeIn
<1>2. ASSUME NEW R \in SUBSET Deliveries, NEW S \in SUBSET Deliveries, Flows!Run(R, S)
      PROVE  Promise'
  BY <1>2 DEF Flows!Run
<1>3. ASSUME NEW S \in SUBSET Deliveries, Flows!Skip(S)
      PROVE  Promise'
  BY <1>3 DEF Flows!Skip
<1>4. ASSUME NEW S \in SUBSET Deliveries, Flows!Tell(S) \/ Flows!Withdraw(S)
      PROVE  Promise'
  BY <1>4 DEF Flows!Tell, Flows!Withdraw
<1>5. CASE UNCHANGED flowsVars
  BY <1>5 DEF flowsVars
<1> QED
  BY <1>1, <1>2, <1>3, <1>4, <1>5 DEF Flows!DNext

LEMMA AnsweredStep ==
  ASSUME Answered, [PipelineNext]_pipelineVars PROVE Answered'
<1> USE DEF Answered
<1>1. CASE Admit
  <2>1. PICK e \in Events :
          /\ received' = received \cup {e}
          /\ Flows!Tell(({e} \X Subscriptions) \ withdrawn)
    BY <1>1 DEF Admit
  <2>2. told' = told \cup (({e} \X Subscriptions) \ withdrawn) /\ withdrawn' = withdrawn
    BY <1>1, <2>1 DEF Admit, Flows!Tell
  <2> QED
    BY <2>1, <2>2
<1>2. CASE HostStep \/ UNCHANGED pipelineVars
  BY <1>2 DEF HostStep, flowsVars, pipelineVars, vars
<1>3. CASE FlowsStep
  BY <1>3 DEF FlowsStep, vars, Flows!TakeIn, Flows!Run, Flows!Skip
<1>4. CASE Reconfigure
  BY <1>4 DEF Reconfigure, vars, Flows!Withdraw
<1> QED
  BY <1>1, <1>2, <1>3, <1>4 DEF PipelineNext

\* The composition keeps both parts to their specifications, by the way it is
\* built: what is proved of either may be used of the pipeline.
LEMMA PipelineComposes == PipelineSpec => Spec /\ Flows!DSpec
<1>1. PipelineInit => Init /\ Flows!DInit
  BY DEF PipelineInit
<1>2. [PipelineNext]_pipelineVars => [Next]_vars /\ [Flows!DNext]_flowsVars
  BY HostSteps, FlowsSteps
<1> QED
  BY <1>1, <1>2, PTL DEF PipelineSpec, Spec, Flows!DSpec, flowsVars, Flows!deliveryVars

\* An event that is settled as delivered is handled for each subscription that
\* has a claim to it: the row can be purged without losing a delivery.
THEOREM SettledAreHandled == PipelineSpec => []SettledIsHandled
<1>1. PipelineInit => Promise /\ Answered
  BY DEF PipelineInit, Init, Flows!DInit, Promise, Answered
<1>2. Promise /\ Answered /\ [PipelineNext]_pipelineVars => Promise' /\ Answered'
  BY PromiseStep, AnsweredStep, FlowsSteps
<1>3. PipelineSpec => []NoEventLost
  BY PipelineComposes, DeliveredWasReceived, PTL
<1>4. NoEventLost /\ Promise /\ Answered => SettledIsHandled
  <2> SUFFICES ASSUME NoEventLost, Promise, Answered,
                      NEW e \in Events, NEW s \in Subscriptions,
                      status[e] \in {"delivered", "purged"}, <<e, s>> \notin withdrawn
               PROVE  Handled(<<e, s>>)
    BY DEF SettledIsHandled
  <2>1. <<e, s>> \in told /\ <<e, s>> \in Deliveries
    BY DEF NoEventLost, Answered, Deliveries
  <2>2. form[<<e, s>>] = "receipt" \/ outcome[<<e, s>>] \in {"accepted", "skipped"}
    BY <2>1 DEF Promise, Flows!Outcomes
  <2>3. outcome[<<e, s>>] = "accepted" => <<e, s>> \in begun
    BY <2>1 DEF Promise
  <2> QED
    BY <2>2, <2>3 DEF Handled
<1> QED
  BY <1>1, <1>2, <1>3, <1>4, PTL DEF PipelineSpec
=============================================================================

---------------------------- MODULE ServicesProofs ----------------------------
(***************************************************************************)
(* Theorems about the services that share Serving.  Every process runs one *)
(* role for good, so each role has an inductive invariant of its own.      *)
(***************************************************************************)
EXTENDS MCServices, FiniteSetTheorems, WellFoundedInduction, TLAPS

--------------------------------------------------------------------------------
(* The serving layer.                                                      *)

\* A process keeps its role.
LEMMA RoleKept == [Next]_vars => role' = role
<1> SUFFICES ASSUME [Next]_vars PROVE role' = role
  OBVIOUS
<1> USE DEF servingVars, Arrive, Answered, Failed, Tick, Drop
<1>1. CASE AuthNext
  BY <1>1 DEF AuthNext, AuthArrive, AuthStep, AuthDrop, Revoke, AuthTick, AuthFails,
              CreateChallenge, ConsumeChallenge, UpsertKey, FindKey, CommitCount, RevokedSerials,
              CrlFetched, CrlFetchFails, Exchange, Decode, GoogleFails, MintSession,
              SelectToken, RotateToken
<1>2. CASE InviteNext
  BY <1>2 DEF InviteNext, AcquireTickLock, CountAndPlan, SubmitBatch, BatchFinalized,
              InsertAvailable, TickError, MaintainerFault, ChainFinalizes, ClaimArrives,
              PreCheck, SelectOldest, CommitClaim, AnswerClaim, ClaimDropped, InviteTick
<1>3. CASE TurnNext
  BY <1>3 DEF TurnNext, RotateRoot, RefresherConnects, CheckGenesis, BeginRefresh, EndRefresh,
              TurnArrive, PermitWait, Verified, CloudflareIssues, CloudflareRejects,
              CloudflareFails, TurnDropped, OrphanEnds, TurnTick
<1>4. CASE PushNext
  BY <1>4 DEF PushNext, NotifyArrives, ApnsAnswers, FcmExchanged, FcmAnswers, ProviderFails,
              NotifyDropped, PushTick
<1>5. CASE SearchNext
  BY <1>5 DEF SearchNext, SearchArrive, Consume, SearchPage, SearchDropped, PruneExpired,
              ProjectionChanges, SearchTick
<1>6. CASE Quiet \/ UNCHANGED vars
  BY <1>6 DEF Quiet, vars
<1>7. QED
  BY <1>1, <1>2, <1>3, <1>4, <1>5, <1>6 DEF Next

\* Taking one more, or one less, of finitely many.
LEMMA CountAdds ==
  ASSUME NEW S, NEW T, NEW x, IsFiniteSet(S), T \subseteq S \cup {x}
  PROVE  /\ IsFiniteSet(T) /\ Cardinality(T) \in Nat /\ Cardinality(S) \in Nat
         /\ Cardinality(T) <= Cardinality(S) + 1
         /\ T \subseteq S => Cardinality(T) <= Cardinality(S)
<1>0. Cardinality(S) \in Nat
  BY FS_CardinalityType
<1>1. IsFiniteSet(S \cup {x}) /\ Cardinality(S \cup {x}) <= Cardinality(S) + 1
  <2>1. /\ IsFiniteSet(S \cup {x})
        /\ Cardinality(S \cup {x}) = IF x \in S THEN Cardinality(S) ELSE Cardinality(S) + 1
    BY FS_AddElement
  <2>2. QED
    BY <1>0, <2>1
<1>2. IsFiniteSet(T) /\ Cardinality(T) <= Cardinality(S \cup {x})
  BY <1>1, FS_Subset
<1>3. T \subseteq S => Cardinality(T) <= Cardinality(S)
  BY FS_Subset
<1>4. QED
  BY <1>0, <1>1, <1>2, <1>3, FS_CardinalityType

\* Losing one of them.
LEMMA CountDrops ==
  ASSUME NEW S, NEW T, NEW x \in S, IsFiniteSet(S), T \subseteq S \ {x}
  PROVE  IsFiniteSet(T) /\ Cardinality(T) \in Nat /\ Cardinality(T) <= Cardinality(S) - 1
<1>1. IsFiniteSet(S \ {x}) /\ Cardinality(S \ {x}) = Cardinality(S) - 1
  BY FS_RemoveElement
<1>2. QED
  BY <1>1, FS_Subset, FS_CardinalityType

--------------------------------------------------------------------------------
(* The push relay.                                                         *)

PushPcs == {"idle", "apns", "token", "fcm"}

PushTyped ==
  /\ now \in Nat /\ faults \in Nat /\ sent \in 0..MaxSent
  /\ pc \in [Conns -> PushPcs] /\ DOMAIN req = Conns /\ DOMAIN loc = Conns
  /\ quota \in [Keys -> 0..MaxBurst] /\ credits = [k \in Keys |-> 0]
  /\ delivered \in [Pushes -> {0, 1}] /\ DOMAIN told = Pushes
  /\ apnsToken \in {None} \cup Int /\ fcmToken \in {None} \cup Int

\* A request that was not sent has no effect yet, nor has one that is being served,
\* and every handler serves a request of its own.
PushLedger ==
  /\ \A n \in Pushes : /\ n > sent => delivered[n] = 0 /\ told[n] # "success"
                       /\ told[n] = "success" => delivered[n] = 1
  /\ \A c \in Conns : pc[c] # "idle" =>
       req[c].n \in 1..sent /\ delivered[req[c].n] = 0 /\ told[req[c].n] # "success"
  /\ \A c, d \in Conns : pc[c] # "idle" /\ pc[d] # "idle" /\ req[c].n = req[d].n => c = d

\* The token a handler sends with outlives the call.
Sending(c) ==
  LET l == loc[c] IN
  /\ pc[c] # "idle" => l.began \in 0..now /\ now - l.began <= PushTimeout
  /\ pc[c] = "apns" =>
       /\ l.token \in Int /\ l.env \in Environments
       /\ l.env = "production" => l.began - l.token < ApnsRefresh
       /\ l.began - l.token < ApnsRefresh + PushTimeout
  /\ pc[c] = "fcm" => l.token \in Int /\ l.began + PushTimeout < l.token

\* Requests the limiter was paid for, and deliveries nobody was told of.
PushPaid == {n \in Pushes : \/ delivered[n] = 1
                            \/ \E c \in Conns : pc[c] # "idle" /\ req[c].n = n}
Hidden == {n \in Pushes : delivered[n] = 1 /\ told[n] # "success"}

PushBooks == /\ Cardinality(Hidden) <= faults
             /\ Cardinality(PushPaid) <= MaxBurst + now - quota[Subject]

PushInv == /\ PushTyped /\ PushLedger /\ PushBooks
           /\ \A c \in Conns : Sending(c)

\* No service accepts a header that is not the honest client's (verify of jwt-verify,
\* the AuthSubject extractor).
LEMMA BadBearersRejected ==
  ASSUME now \in Nat, NEW h \in BadBearers
  PROVE  AuthRejection(ServiceKeys, h) # None
<1> DEFINE good == GoodBearer.token
<1>1. /\ None \notin {"MissingHeader", "InvalidHeader", "InvalidToken"}
      /\ Leeway \in Nat /\ None # "k" /\ None # "other"
  BY ServingAssumption DEF ServingAssumption
<1>2. good = [alg |-> "EdDSA", kid |-> "k", key |-> "service", sub |-> Subject, exp |-> MaxClock]
  BY DEF GoodBearer, Bearer
<1>3. \/ h = [form |-> "absent"] \/ h = [form |-> "malformed"]
      \/ h = Bearer([good EXCEPT !.alg = "HS256"]) \/ h = Bearer([good EXCEPT !.kid = "other"])
      \/ h = Bearer([good EXCEPT !.key = "other"]) \/ h = Bearer([good EXCEPT !.exp = -Leeway - 1])
  BY DEF BadBearers
<1>4. CASE h.form = "bearer" /\ ~Verify(ServiceKeys, h.token)
  BY <1>1, <1>4 DEF AuthRejection
<1>5. CASE h = [form |-> "absent"] \/ h = [form |-> "malformed"]
  BY <1>1, <1>5 DEF AuthRejection
<1>6. CASE h = Bearer([good EXCEPT !.alg = "HS256"])
  BY <1>2, <1>4, <1>6 DEF Bearer, Verify
<1>7. CASE h = Bearer([good EXCEPT !.kid = "other"])
  BY <1>1, <1>2, <1>4, <1>7 DEF Bearer, Verify, Candidates, ServiceKeys
<1>8. CASE h = Bearer([good EXCEPT !.key = "other"])
  BY <1>1, <1>2, <1>4, <1>8 DEF Bearer, Verify, Candidates, ServiceKeys
<1>9. CASE h = Bearer([good EXCEPT !.exp = -Leeway - 1])
  <2>1. h.form = "bearer" /\ h.token.exp = -Leeway - 1
    BY <1>2, <1>9 DEF Bearer
  <2>2. ~Verify(ServiceKeys, h.token)
    BY <1>1, <2>1 DEF Verify
  <2>3. QED
    BY <1>4, <2>1, <2>2
<1>10. QED
  BY <1>3, <1>5, <1>6, <1>7, <1>8, <1>9

\* The honest client is the subject.
LEMMA GoodSubject == GoodBearer.token.sub = Subject /\ Subject \in Keys
BY ServingAssumption DEF GoodBearer, Bearer, ServingAssumption

\* There are finitely many pushes.
LEMMA PushesFinite == /\ IsFiniteSet(Hidden) /\ IsFiniteSet(PushPaid)
                      /\ IsFiniteSet(Hidden') /\ IsFiniteSet(PushPaid')
<1>0. MaxSent \in Int
  BY ServingAssumption DEF ServingAssumption
<1>1. IsFiniteSet(Pushes)
  BY <1>0, FS_Interval DEF Pushes
<1>2. /\ Hidden \subseteq Pushes /\ PushPaid \subseteq Pushes
      /\ Hidden' \subseteq Pushes /\ PushPaid' \subseteq Pushes
  BY DEF Hidden, PushPaid
<1>3. QED
  BY <1>1, <1>2, FS_Subset

\* A handler that ends, with or without a delivery, keeps the books.
LEMMA PushEnds ==
  ASSUME PushInv, NEW c \in Conns, NEW what, pc[c] # "idle", Finish(c, what),
         UNCHANGED <<now, sent, quota, credits, apnsToken, fcmToken>>,
         faults' \in {faults, faults + 1},
         \/ /\ delivered' = delivered
            /\ told' \in {told, [told EXCEPT ![req[c].n] = "failed"]}
         \/ Delivers(req[c].n) /\ told' = [told EXCEPT ![req[c].n] = "success"]
         \/ /\ Delivers(req[c].n) /\ faults' = faults + 1
            /\ told' \in {told, [told EXCEPT ![req[c].n] = "failed"]}
  PROVE  PushInv'
<1> DEFINE n == req[c].n
<1>0. /\ PushTyped /\ PushLedger /\ PushBooks /\ n \in Pushes /\ delivered[n] = 0
      /\ \A d \in Conns : Sending(d)
      /\ told[n] # "success"
      /\ MaxSent \in Nat /\ MaxBurst \in Nat
  BY ServingAssumption DEF PushInv, PushLedger, PushTyped, Pushes, ServingAssumption
<1>1. /\ pc' = [pc EXCEPT ![c] = "idle"] /\ req' = [req EXCEPT ![c] = None]
      /\ loc' = [loc EXCEPT ![c] = None]
  BY DEF Finish
<1>2. /\ \A m \in Pushes \ {n} : delivered'[m] = delivered[m] /\ told'[m] = told[m]
      /\ \/ delivered'[n] = 0 /\ told'[n] # "success"
         \/ delivered'[n] = 1 /\ told'[n] = "success"
         \/ delivered'[n] = 1 /\ told'[n] # "success" /\ faults' = faults + 1
      /\ delivered' \in [Pushes -> {0, 1}] /\ DOMAIN told' = Pushes
  BY <1>0 DEF PushTyped, Delivers
<1>3. PushTyped'
  BY <1>0, <1>1, <1>2 DEF PushTyped, PushPcs
<1>4. \A d \in Conns : /\ pc'[d] # "idle" => /\ d # c /\ pc[d] # "idle"
                       /\ d # c => pc'[d] = pc[d] /\ req'[d] = req[d] /\ loc'[d] = loc[d]
  BY <1>0, <1>1 DEF PushTyped
<1>5. PushLedger'
  <2>1. \A m \in Pushes : /\ m > sent' => delivered'[m] = 0 /\ told'[m] # "success"
                          /\ told'[m] = "success" => delivered'[m] = 1
    <3>1. n <= sent /\ sent \in Nat /\ n \in Nat
      BY <1>0 DEF PushLedger, PushTyped, Pushes
    <3>2. QED
      BY <1>0, <1>2, <3>1 DEF PushLedger
  <2>2. ASSUME NEW d \in Conns, pc'[d] # "idle"
        PROVE  /\ req'[d].n \in 1..sent' /\ req'[d].n \in Pushes \ {n}
               /\ pc[d] # "idle" /\ req'[d] = req[d]
    BY <1>0, <1>4, <2>2 DEF PushLedger, PushTyped, Pushes
  <2>3. ASSUME NEW d \in Conns, pc'[d] # "idle"
        PROVE  delivered'[req'[d].n] = 0 /\ told'[req'[d].n] # "success"
    BY <1>0, <1>2, <2>2, <2>3 DEF PushLedger
  <2>4. ASSUME NEW d \in Conns, NEW e \in Conns, pc'[d] # "idle", pc'[e] # "idle",
               req'[d].n = req'[e].n
        PROVE  d = e
    BY <1>0, <2>2, <2>4 DEF PushLedger
  <2>5. QED
    BY <2>1, <2>2, <2>3, <2>4 DEF PushLedger
<1>6. \A d \in Conns : Sending(d)'
  BY <1>0, <1>1, <1>4 DEF Sending, PushTyped
<1>7. IsFiniteSet(Hidden) /\ IsFiniteSet(PushPaid)
  BY PushesFinite
<1>8. /\ Hidden' \subseteq Hidden \cup {n} /\ (faults' = faults => Hidden' \subseteq Hidden)
      /\ PushPaid' \subseteq PushPaid
  <2>1. n \in PushPaid
    BY <1>0 DEF PushPaid
  <2>2. QED
    BY <1>0, <1>2, <1>4, <2>1 DEF Hidden, PushPaid, PushTyped
<1>9. PushBooks'
  <2>1. /\ Cardinality(Hidden') <= Cardinality(Hidden) + 1
        /\ faults' = faults => Cardinality(Hidden') <= Cardinality(Hidden)
    BY <1>7, <1>8, CountAdds
  <2>2. Cardinality(PushPaid') <= Cardinality(PushPaid)
    BY <1>7, <1>8, CountAdds
  <2>3. /\ Cardinality(Hidden) \in Nat /\ Cardinality(Hidden') \in Nat
        /\ Cardinality(PushPaid) \in Nat /\ Cardinality(PushPaid') \in Nat
    BY <1>7, <1>8, CountAdds
  <2>4. quota[Subject] \in Nat
    BY <1>0, GoodSubject DEF PushTyped
  <2>5. QED
    BY <1>0, <2>1, <2>2, <2>3, <2>4 DEF PushBooks, PushTyped
<1>10. QED
  BY <1>3, <1>5, <1>6, <1>9 DEF PushInv

\* A request that is refused at once leaves no trace but its answer.
LEMMA PushRefused ==
  ASSUME PushInv, NEW c \in Conns, NEW what, pc[c] = "idle", what # "success",
         sent < MaxSent, sent' = sent + 1, Finish(c, what), faults' \in {faults, faults + 1},
         told' = [told EXCEPT ![sent + 1] = what],
         quota' \in [Keys -> 0..MaxBurst], quota'[Subject] <= quota[Subject],
         UNCHANGED <<now, credits, apnsToken, fcmToken, delivered>>
  PROVE  PushInv'
<1>0. /\ PushTyped /\ PushLedger /\ PushBooks /\ sent \in Nat /\ MaxSent \in Nat
      /\ \A d \in Conns : Sending(d)
  BY ServingAssumption DEF PushInv, PushTyped, ServingAssumption
<1>1. /\ pc' = [pc EXCEPT ![c] = "idle"] /\ req' = [req EXCEPT ![c] = None]
      /\ loc' = [loc EXCEPT ![c] = None]
  BY DEF Finish
<1>2. \A d \in Conns : /\ pc'[d] = pc[d]
                       /\ pc[d] # "idle" => req'[d] = req[d] /\ loc'[d] = loc[d]
  BY <1>0, <1>1 DEF PushTyped
<1>3. PushTyped'
  BY <1>0, <1>1 DEF PushTyped, PushPcs
<1>4. /\ sent + 1 \in Pushes /\ told'[sent + 1] # "success"
      /\ \A m \in Pushes \ {sent + 1} : told'[m] = told[m]
  BY <1>0 DEF PushTyped, Pushes
<1>5. PushLedger'
  <2>1. \A m \in Pushes : /\ m > sent' => delivered'[m] = 0 /\ told'[m] # "success"
                          /\ told'[m] = "success" => delivered'[m] = 1
    BY <1>0, <1>4 DEF PushLedger, Pushes
  <2>2. ASSUME NEW d \in Conns, pc'[d] # "idle"
        PROVE  /\ req'[d].n \in 1..sent' /\ req'[d].n \in Pushes \ {sent + 1}
               /\ pc[d] # "idle" /\ req'[d] = req[d]
    BY <1>0, <1>2, <2>2 DEF PushLedger, PushTyped, Pushes
  <2>3. ASSUME NEW d \in Conns, pc'[d] # "idle"
        PROVE  delivered'[req'[d].n] = 0 /\ told'[req'[d].n] # "success"
    BY <1>0, <1>4, <2>2, <2>3 DEF PushLedger
  <2>4. ASSUME NEW d \in Conns, NEW e \in Conns, pc'[d] # "idle", pc'[e] # "idle",
               req'[d].n = req'[e].n
        PROVE  d = e
    BY <1>0, <2>2, <2>4 DEF PushLedger
  <2>5. QED
    BY <2>1, <2>2, <2>3, <2>4 DEF PushLedger
<1>6. \A d \in Conns : Sending(d)'
  BY <1>0, <1>2 DEF Sending
<1>7. PushBooks'
  <2>1. PushPaid' = PushPaid
    BY <1>2 DEF PushPaid
  <2>2. Hidden' = Hidden
    <3>1. delivered[sent + 1] = 0
      BY <1>0, <1>4 DEF PushLedger
    <3>2. QED
      BY <1>4, <3>1 DEF Hidden
  <2>3. Cardinality(Hidden) \in Nat /\ Cardinality(PushPaid) \in Nat
    BY PushesFinite, FS_CardinalityType
  <2>4. quota[Subject] \in Nat /\ quota'[Subject] \in Nat /\ MaxBurst \in Nat
    BY <1>0, ServingAssumption DEF PushTyped, ServingAssumption
  <2>5. QED
    BY <1>0, <2>1, <2>2, <2>3, <2>4 DEF PushBooks, PushTyped
<1>8. QED
  BY <1>3, <1>5, <1>6, <1>7 DEF PushInv

\* A request that is taken on has been paid for.
LEMMA PushStarts ==
  ASSUME PushInv, NEW c \in Conns, NEW in, NEW where \in PushPcs \ {"idle"}, NEW carried,
         pc[c] = "idle", sent < MaxSent, sent' = sent + 1, in.n = sent + 1,
         faults' \in {faults, faults + 1}, Suspend(c, in, where, carried), Sending(c)',
         quota[Subject] > 0, quota' = [quota EXCEPT ![Subject] = @ - 1],
         apnsToken' \in {None} \cup Int,
         UNCHANGED <<now, credits, fcmToken, delivered, told>>
  PROVE  PushInv'
<1>0. /\ PushTyped /\ PushLedger /\ PushBooks /\ sent \in Nat /\ MaxSent \in Nat
      /\ Subject \in Keys /\ quota[Subject] \in 0..MaxBurst /\ MaxBurst \in Nat
      /\ \A d \in Conns : Sending(d)
  BY ServingAssumption DEF PushInv, PushTyped, ServingAssumption
<1>1. /\ pc' = [pc EXCEPT ![c] = where] /\ req' = [req EXCEPT ![c] = in]
      /\ loc' = [loc EXCEPT ![c] = carried]
  BY DEF Suspend
<1>2. /\ req'[c] = in
      /\ \A d \in Conns \ {c} : /\ pc'[d] = pc[d] /\ req'[d] = req[d] /\ loc'[d] = loc[d]
  BY <1>0, <1>1 DEF PushTyped
<1>3. PushTyped'
  BY <1>0, <1>1 DEF PushTyped, PushPcs
<1>4. sent + 1 \in Pushes /\ delivered[sent + 1] = 0 /\ told[sent + 1] # "success"
  BY <1>0 DEF PushLedger, Pushes
<1>5. PushLedger'
  <2>1. \A m \in Pushes : /\ m > sent' => delivered'[m] = 0 /\ told'[m] # "success"
                          /\ told'[m] = "success" => delivered'[m] = 1
    BY <1>0 DEF PushLedger, Pushes
  <2>2. ASSUME NEW d \in Conns \ {c}, pc'[d] # "idle"
        PROVE  req'[d].n \in 1..sent /\ pc[d] # "idle" /\ req'[d] = req[d]
    BY <1>0, <1>2, <2>2 DEF PushLedger
  <2>3. ASSUME NEW d \in Conns, pc'[d] # "idle"
        PROVE  /\ req'[d].n \in 1..sent'
               /\ delivered'[req'[d].n] = 0 /\ told'[req'[d].n] # "success"
    <3>1. CASE d = c
      BY <1>0, <1>2, <1>4, <3>1
    <3>2. CASE d # c
      BY <1>0, <2>2, <2>3, <3>2 DEF PushLedger
    <3>3. QED
      BY <3>1, <3>2
  <2>4. ASSUME NEW d \in Conns, NEW e \in Conns, pc'[d] # "idle", pc'[e] # "idle",
               req'[d].n = req'[e].n
        PROVE  d = e
    BY <1>0, <1>2, <2>2, <2>4 DEF PushLedger
  <2>5. QED
    BY <2>1, <2>3, <2>4 DEF PushLedger
<1>6. \A d \in Conns : Sending(d)'
  BY <1>0, <1>2 DEF Sending
<1>7. PushBooks'
  <2>1. PushPaid' \subseteq PushPaid \cup {sent + 1}
    BY <1>2 DEF PushPaid
  <2>2. Hidden' = Hidden
    BY DEF Hidden
  <2>3. /\ Cardinality(Hidden) \in Nat /\ Cardinality(PushPaid) \in Nat
        /\ Cardinality(PushPaid') \in Nat /\ Cardinality(PushPaid') <= Cardinality(PushPaid) + 1
    BY <2>1, PushesFinite, CountAdds, FS_CardinalityType
  <2>4. quota'[Subject] = quota[Subject] - 1
    BY <1>0 DEF PushTyped
  <2>5. QED
    BY <1>0, <2>2, <2>3, <2>4 DEF PushBooks, PushTyped
<1>8. QED
  BY <1>3, <1>5, <1>6, <1>7 DEF PushInv

\* A handler that goes on to its next call changes nothing else.
LEMMA PushGoes ==
  ASSUME PushInv, NEW c \in Conns, NEW where \in PushPcs \ {"idle"}, NEW carried,
         pc[c] # "idle", Goto(c, where, carried), Sending(c)',
         fcmToken' \in {None} \cup Int,
         UNCHANGED <<now, sent, faults, quota, credits, apnsToken, delivered, told>>
  PROVE  PushInv'
<1>0. /\ PushTyped /\ PushLedger /\ PushBooks
      /\ \A d \in Conns : Sending(d)
  BY DEF PushInv
<1>1. /\ pc' = [pc EXCEPT ![c] = where] /\ req' = [req EXCEPT ![c] = req[c]]
      /\ loc' = [loc EXCEPT ![c] = carried]
  BY DEF Goto, Suspend
<1>2. /\ \A d \in Conns : req'[d] = req[d] /\ ((pc'[d] = "idle") <=> (pc[d] = "idle"))
      /\ \A d \in Conns \ {c} : pc'[d] = pc[d] /\ loc'[d] = loc[d]
  BY <1>0, <1>1 DEF PushTyped
<1>3. PushTyped'
  BY <1>0, <1>1 DEF PushTyped
<1>4. PushLedger'
  BY <1>0, <1>2 DEF PushLedger
<1>5. \A d \in Conns : Sending(d)'
  BY <1>0, <1>2 DEF Sending
<1>6. PushPaid' = PushPaid /\ Hidden' = Hidden
  BY <1>2 DEF PushPaid, Hidden
<1>7. PushBooks'
  BY <1>0, <1>6 DEF PushBooks
<1>8. QED
  BY <1>3, <1>4, <1>5, <1>7 DEF PushInv

\* The first step of a send: to APNs, to FCM with or without a token, or nowhere.
LEMMA StartSendArms ==
  ASSUME NEW c, NEW in, StartSend(c, in)
  PROVE  \/ /\ apnsToken' = IF FreshApns(now) THEN apnsToken ELSE now
            /\ Suspend(c, in, "apns", [env |-> "production", token |-> apnsToken', began |-> now])
            /\ UNCHANGED told
         \/ /\ FreshFcm(now) /\ UNCHANGED <<apnsToken, told>>
            /\ Suspend(c, in, "fcm", [token |-> fcmToken + FcmBuffer, began |-> now])
         \/ /\ Suspend(c, in, "token", [token |-> 0, began |-> now])
            /\ UNCHANGED <<apnsToken, told>>
         \/ Tell(c, in.n, "failed") /\ UNCHANGED apnsToken
<1> DEFINE ios == Detect(in.device, in.hint) = "ios" /\ pushConfig.apns
           android == Detect(in.device, in.hint) = "android" /\ pushConfig.fcm
<1>1. ~(ios /\ android)
  OBVIOUS
<1>2. CASE ios
  BY <1>1, <1>2, Zenon DEF StartSend
<1>3. CASE android
  BY <1>1, <1>3, Zenon DEF StartSend
<1>4. CASE ~ios /\ ~android
  BY <1>4, Zenon DEF StartSend
<1>5. QED
  BY <1>2, <1>3, <1>4

\* What a request is paid with.
LEMMA PaymentIs ==
  ASSUME NEW k \in Keys, credits[k] \in Nat, quota[k] \in Nat
  PROVE  Payment(k) = IF credits[k] > 0 THEN "Credit" ELSE IF quota[k] > 0 THEN "Quota" ELSE None
<1>1. CASE credits[k] > 0
  BY <1>1 DEF Payment
<1>2. CASE credits[k] = 0 /\ quota[k] > 0
  BY <1>2 DEF Payment
<1>3. CASE credits[k] = 0 /\ quota[k] = 0
  BY <1>3 DEF Payment
<1>4. QED
  BY <1>1, <1>2, <1>3

\* A new push is refused, or paid for and on its way.
LEMMA PushArrival ==
  ASSUME PushInv, NEW c \in Conns, NotifyArrives(c)
  PROVE  PushInv'
<1>1. PICK in \in PushRequests :
        /\ Arrive(c, in)
        /\ IF AuthRejection(ServiceKeys, in.header) # None
             THEN Tell(c, in.n, "Unauthorized") /\ NoCharge /\ UNCHANGED apnsToken
           ELSE IF in.body # "valid"
             THEN Tell(c, in.n, "BadRequest") /\ NoCharge /\ UNCHANGED apnsToken
           ELSE LET k == in.header.token.sub IN
                /\ Charge(k, Payment(k))
                /\ IF Payment(k) = None THEN Tell(c, in.n, "RateLimited") /\ UNCHANGED apnsToken
                   ELSE StartSend(c, in)
        /\ UNCHANGED <<pushConfig, fcmToken, delivered>>
  BY DEF NotifyArrives
<1>2. /\ in.n = sent + 1 /\ in.header \in {GoodBearer} \cup BadBearers
      /\ in.flawed \in BOOLEAN
  BY DEF PushRequests
<1>3. /\ PushTyped /\ faults \in Nat /\ now \in Nat /\ Subject \in Keys
      /\ credits[Subject] = 0 /\ credits = [k \in Keys |-> 0] /\ MaxBurst \in Nat
      /\ quota[Subject] \in Nat /\ quota \in [Keys -> 0..MaxBurst]
      /\ apnsToken \in {None} \cup Int /\ fcmToken \in {None} \cup Int
      /\ DOMAIN loc = Conns /\ DOMAIN pc = Conns
  BY ServingAssumption DEF PushInv, PushTyped, ServingAssumption
<1>4. /\ pc[c] = "idle" /\ sent < MaxSent /\ sent' = sent + 1 /\ now' = now
      /\ faults' \in {faults, faults + 1}
  BY <1>1, <1>2, <1>3 DEF Arrive
<1>5. ASSUME NEW what, what # "success", Tell(c, in.n, what), UNCHANGED <<quota, credits, apnsToken>>
      PROVE  PushInv'
  <2>1. quota' \in [Keys -> 0..MaxBurst] /\ quota'[Subject] <= quota[Subject]
    BY <1>3, <1>5 DEF PushTyped
  <2>2. QED
    BY <1>1, <1>2, <1>4, <1>5, <2>1, PushRefused DEF Tell
<1>6. CASE AuthRejection(ServiceKeys, in.header) # None
  BY <1>1, <1>5, <1>6 DEF NoCharge
<1>7. CASE AuthRejection(ServiceKeys, in.header) = None /\ in.body # "valid"
  BY <1>1, <1>5, <1>7 DEF NoCharge
<1>8. CASE AuthRejection(ServiceKeys, in.header) = None /\ in.body = "valid"
  <2>1. in.header.token.sub = Subject
    BY <1>2, <1>3, <1>8, BadBearersRejected, GoodSubject
  <2>2. /\ Charge(Subject, Payment(Subject))
        /\ IF Payment(Subject) = None THEN Tell(c, in.n, "RateLimited") /\ UNCHANGED apnsToken
           ELSE StartSend(c, in)
    BY <1>1, <1>8, <2>1
  <2>3. Payment(Subject) = IF quota[Subject] > 0 THEN "Quota" ELSE None
    BY <1>3, PaymentIs
  <2>4. None \notin {"Quota", "Credit"}
    BY ServingAssumption DEF ServingAssumption
  <2>5. CASE Payment(Subject) = None
    <3>1. UNCHANGED <<quota, credits>>
      BY <2>2, <2>4, <2>5 DEF Charge
    <3>2. QED
      BY <1>5, <2>2, <2>5, <3>1
  <2>6. CASE Payment(Subject) # None
    <3>1. /\ quota[Subject] > 0 /\ quota' = [quota EXCEPT ![Subject] = @ - 1] /\ credits' = credits
          /\ StartSend(c, in)
      BY <2>2, <2>3, <2>6 DEF Charge
    <3>0. /\ UNCHANGED <<fcmToken, delivered>>
          /\ {ApnsRefresh, PushTimeout, FcmBuffer} \subseteq Nat /\ ApnsRefresh > 0
          /\ FcmBuffer >= PushTimeout /\ {"apns", "token", "fcm"} \subseteq PushPcs \ {"idle"}
      BY <1>1, PushAssumption DEF PushAssumption, PushPcs
    <3>3. CASE /\ apnsToken' = IF FreshApns(now) THEN apnsToken ELSE now
               /\ Suspend(c, in, "apns", [env |-> "production", token |-> apnsToken', began |-> now])
               /\ UNCHANGED told
      <4>1. apnsToken' \in Int /\ now - apnsToken' < ApnsRefresh
        BY <1>3, <3>0, <3>3 DEF FreshApns
      <4>2. pc'[c] = "apns" /\ loc'[c] = [env |-> "production", token |-> apnsToken', began |-> now]
        BY <1>3, <3>3 DEF Suspend
      <4>3. Sending(c)'
        BY <1>3, <1>4, <3>0, <4>1, <4>2 DEF Sending, Environments
      <4>4. PICK carried : Suspend(c, in, "apns", carried)
        BY <3>3 DEF Suspend
      <4>5. QED
        BY <1>2, <1>3, <1>4, <3>0, <3>1, <3>3, <4>1, <4>3, <4>4, PushStarts
    <3>4. CASE /\ FreshFcm(now) /\ UNCHANGED <<apnsToken, told>>
               /\ Suspend(c, in, "fcm", [token |-> fcmToken + FcmBuffer, began |-> now])
      <4>1. fcmToken \in Int /\ now < fcmToken
        BY <1>3, <3>4 DEF FreshFcm
      <4>2. pc'[c] = "fcm" /\ loc'[c] = [token |-> fcmToken + FcmBuffer, began |-> now]
        BY <1>3, <3>4 DEF Suspend
      <4>3. Sending(c)'
        BY <1>3, <1>4, <3>0, <4>1, <4>2 DEF Sending
      <4>4. PICK carried : Suspend(c, in, "fcm", carried)
        BY <3>4 DEF Suspend
      <4>5. QED
        BY <1>2, <1>3, <1>4, <3>0, <3>1, <3>4, <4>3, <4>4, PushStarts
    <3>5. CASE /\ Suspend(c, in, "token", [token |-> 0, began |-> now])
               /\ UNCHANGED <<apnsToken, told>>
      <4>1. pc'[c] = "token" /\ loc'[c] = [token |-> 0, began |-> now]
        BY <1>3, <3>5 DEF Suspend
      <4>2. Sending(c)'
        BY <1>3, <1>4, <3>0, <4>1 DEF Sending
      <4>3. PICK carried : Suspend(c, in, "token", carried)
        BY <3>5 DEF Suspend
      <4>4. QED
        BY <1>2, <1>3, <1>4, <3>0, <3>1, <3>5, <4>2, <4>3, PushStarts
    <3>6. CASE Tell(c, in.n, "failed") /\ UNCHANGED apnsToken
      <4>1. quota' \in [Keys -> 0..MaxBurst] /\ quota'[Subject] <= quota[Subject]
        BY <1>3, <3>1
      <4>2. QED
        BY <1>2, <1>4, <3>0, <3>1, <3>6, <4>1, PushRefused DEF Tell
    <3>7. QED
      BY <3>1, <3>3, <3>4, <3>5, <3>6, StartSendArms
  <2>7. QED
    BY <2>5, <2>6
<1>9. QED
  BY <1>6, <1>7, <1>8

\* The provider answers: the push was delivered, or not, or is sent once more.
LEMMA PushAnswers ==
  ASSUME PushInv, NEW c \in Conns,
         \/ ApnsAnswers(c) \/ FcmExchanged(c) \/ FcmAnswers(c)
         \/ ProviderFails(c) \/ NotifyDropped(c)
  PROVE  PushInv'
<1>0. /\ PushTyped /\ Sending(c) /\ now \in Nat /\ faults \in Nat
      /\ DOMAIN loc = Conns /\ DOMAIN pc = Conns /\ pc[c] # "idle"
      /\ {ApnsRefresh, PushTimeout, FcmBuffer, FcmExpiresIn} \subseteq Nat
      /\ FcmExpiresIn > 2 * PushTimeout /\ {"apns", "token", "fcm"} \subseteq PushPcs \ {"idle"}
  BY PushAssumption
  DEF PushInv, PushTyped, PushAssumption, PushPcs, ApnsAnswers, FcmExchanged, FcmAnswers,
      ProviderFails, NotifyDropped, Drop
<1>1. CASE ApnsAnswers(c)
  <2>1. /\ pc[c] = "apns"
        /\ UNCHANGED <<now, sent, faults, quota, credits, apnsToken, fcmToken>>
        /\ \/ Delivers(req[c].n) /\ Tell(c, req[c].n, "success")
           \/ delivered' = delivered /\ Tell(c, req[c].n, "failed")
           \/ /\ delivered' = delivered /\ told' = told /\ loc[c].env = "production"
              /\ Goto(c, "apns", [loc[c] EXCEPT !.env = Other(@), !.began = now])
    BY <1>1 DEF ApnsAnswers, Answered, NoCharge, RetryOther
  <2>2. CASE /\ delivered' = delivered /\ told' = told /\ loc[c].env = "production"
             /\ Goto(c, "apns", [loc[c] EXCEPT !.env = Other(@), !.began = now])
    <3>1. pc'[c] = "apns" /\ loc'[c] = [loc[c] EXCEPT !.env = Other(@), !.began = now]
      BY <1>0, <2>2 DEF Goto, Suspend
    <3>2. /\ loc[c].token \in Int /\ loc[c].began \in Nat /\ now - loc[c].began <= PushTimeout
          /\ loc[c].began - loc[c].token < ApnsRefresh
      BY <1>0, <2>1, <2>2 DEF Sending
    <3>3. /\ loc'[c].token = loc[c].token
          /\ loc'[c].env \in Environments /\ loc'[c].env # "production" /\ loc'[c].began = now
      BY <3>1, <2>2 DEF Other, Environments
    <3>4. Sending(c)'
      BY <1>0, <2>1, <3>1, <3>2, <3>3 DEF Sending
    <3>5. PICK carried : Goto(c, "apns", carried)
      BY <2>2 DEF Goto, Suspend
    <3>6. QED
      BY <1>0, <2>1, <2>2, <3>4, <3>5, PushGoes DEF PushTyped
  <2>3. QED
    BY <1>0, <2>1, <2>2, PushEnds DEF Tell
<1>2. CASE FcmExchanged(c)
  <2>1. /\ pc[c] = "token" /\ UNCHANGED <<now, sent, faults, quota, credits>>
        /\ fcmToken' = loc[c].began + FcmExpiresIn - FcmBuffer
        /\ Goto(c, "fcm", [token |-> loc[c].began + FcmExpiresIn, began |-> now])
        /\ UNCHANGED <<apnsToken, delivered, told>>
    BY <1>2 DEF FcmExchanged, Answered, NoCharge
  <2>2. pc'[c] = "fcm" /\ loc'[c] = [token |-> loc[c].began + FcmExpiresIn, began |-> now]
    BY <1>0, <2>1 DEF Goto, Suspend
  <2>3. loc[c].began \in Nat /\ now - loc[c].began <= PushTimeout
    BY <1>0, <2>1 DEF Sending
  <2>4. Sending(c)'
    BY <1>0, <2>1, <2>2, <2>3 DEF Sending
  <2>5. fcmToken' \in Int
    BY <1>0, <2>1, <2>3
  <2>6. PICK carried : Goto(c, "fcm", carried)
    BY <2>1 DEF Goto, Suspend
  <2>7. QED
    BY <1>0, <2>1, <2>4, <2>5, <2>6, PushGoes
<1>3. CASE FcmAnswers(c)
  <2>1. /\ UNCHANGED <<now, sent, faults, quota, credits, apnsToken, fcmToken>>
        /\ \/ Delivers(req[c].n) /\ Tell(c, req[c].n, "success")
           \/ delivered' = delivered /\ Tell(c, req[c].n, "failed")
    BY <1>3 DEF FcmAnswers, Answered, NoCharge
  <2>2. QED
    BY <1>0, <2>1, PushEnds DEF Tell
<1>4. CASE ProviderFails(c)
  <2>1. /\ UNCHANGED <<now, sent, quota, credits, apnsToken, fcmToken>>
        /\ faults' = faults + 1 /\ Tell(c, req[c].n, "failed")
        /\ delivered' = delivered \/ Delivers(req[c].n)
    BY <1>4 DEF ProviderFails, Failed, NoCharge
  <2>2. QED
    BY <1>0, <2>1, PushEnds DEF Tell
<1>5. CASE NotifyDropped(c)
  <2>1. /\ UNCHANGED <<now, sent, quota, credits, apnsToken, fcmToken, told>>
        /\ faults' = faults + 1 /\ Finish(c, "dropped")
        /\ delivered' = delivered \/ Delivers(req[c].n)
    BY <1>5 DEF NotifyDropped, Drop, Failed, NoCharge
  <2>2. QED
    BY <1>0, <2>1, PushEnds
<1>6. QED
  BY <1>1, <1>2, <1>3, <1>4, <1>5

\* Time passes: the limiter grants at most what the clock adds.
LEMMA PushTime ==
  ASSUME PushInv, PushTick
  PROVE  PushInv'
<1>0. /\ PushTyped /\ PushLedger /\ PushBooks /\ \A c \in Conns : Sending(c)
      /\ MaxBurst \in Nat /\ Subject \in Keys /\ PushTimeout \in Nat /\ now \in Nat
      /\ quota \in [Keys -> 0..MaxBurst]
  BY ServingAssumption, PushAssumption DEF PushInv, PushTyped, ServingAssumption, PushAssumption
<1>1. /\ now' = now + 1 /\ UNCHANGED <<faults, sent, pc, req, loc, credits, pushVars>>
      /\ quota' = [k \in Keys |-> IF quota[k] < MaxBurst THEN quota[k] + 1 ELSE MaxBurst]
      /\ \A c \in Conns : pc[c] # "idle" => now - loc[c].began < PushTimeout
  BY DEF PushTick, Tick
<1>2. PushTyped'
  BY <1>0, <1>1 DEF PushTyped, pushVars
<1>3. PushLedger'
  BY <1>0, <1>1 DEF PushLedger, pushVars
<1>4. \A c \in Conns : Sending(c)'
  BY <1>0, <1>1 DEF Sending
<1>5. Hidden' = Hidden /\ PushPaid' = PushPaid
  BY <1>1 DEF Hidden, PushPaid, pushVars
<1>6. quota'[Subject] <= quota[Subject] + 1 /\ quota[Subject] \in Nat /\ quota'[Subject] \in Nat
  BY <1>0, <1>1
<1>7. Cardinality(PushPaid) \in Nat
  BY PushesFinite, FS_CardinalityType
<1>8. PushBooks'
  BY <1>0, <1>1, <1>5, <1>6, <1>7 DEF PushBooks
<1>9. QED
  BY <1>2, <1>3, <1>4, <1>8 DEF PushInv

\* Nothing was delivered or is under way at the start.
LEMMA PushBegins ==
  ASSUME Init, role = "push"
  PROVE  PushInv
<1>1. ServingInit /\ PushInit
  BY DEF Init
<1>2. PushTyped
  <2>1. MaxSent \in Nat /\ MaxBurst \in Nat
    BY ServingAssumption DEF ServingAssumption
  <2>2. apnsToken \in {None} \cup Int /\ fcmToken \in {None} \cup Int
    BY <1>1, PushAssumption DEF PushInit, PushAssumption
  <2>3. QED
    BY <1>1, <2>1, <2>2 DEF PushTyped, ServingInit, PushInit, PushPcs
<1>3. PushLedger
  BY <1>1, PushAssumption DEF PushLedger, ServingInit, PushInit, PushAssumption
<1>4. Hidden = {} /\ PushPaid = {}
  BY <1>1 DEF Hidden, PushPaid, ServingInit, PushInit
<1>5. PushBooks
  <2>1. Cardinality({}) = 0
    BY FS_EmptySet
  <2>2. quota[Subject] = MaxBurst /\ MaxBurst \in Nat /\ now = 0 /\ faults = 0
    BY <1>1, ServingAssumption DEF ServingInit, ServingAssumption
  <2>3. QED
    BY <1>4, <2>1, <2>2 DEF PushBooks
<1>6. \A c \in Conns : Sending(c)
  BY <1>1 DEF Sending, ServingInit
<1>7. QED
  BY <1>2, <1>3, <1>5, <1>6 DEF PushInv

\* The invariant of the push relay.
LEMMA PushHolds == Spec => [](role = "push" => PushInv)
<1> DEFINE Inv == role = "push" => PushInv
<1>1. Init => Inv
  BY PushBegins
<1>2. Inv /\ [Next]_vars => Inv'
  <2> SUFFICES ASSUME Inv, [Next]_vars, role = "push" PROVE PushInv'
    BY RoleKept
  <2>1. CASE PushNext
    BY <2>1, PushArrival, PushAnswers, PushTime DEF PushNext
  <2>2. CASE UNCHANGED <<servingVars, pushVars>>
    BY <2>2 DEF PushInv, PushTyped, PushLedger, PushBooks, Hidden, PushPaid, Sending,
                servingVars, pushVars
  <2>3. PushNext \/ UNCHANGED <<servingVars, pushVars>>
    BY DEF Next, vars, Quiet
  <2>4. QED
    BY <2>1, <2>2, <2>3
<1>3. QED
  BY <1>1, <1>2, PTL DEF Spec

\* Pushes are relayed once and reported truthfully (notify, the APNs and FCM clients):
\* for any number of connections and requests no request reaches a device twice,
\* success is told only of a push that did, only a fault hides a delivery, the limiter
\* bounds the deliveries, and a provider never sees a token past its life, though it
\* is cached, shared and retried with.
THEOREM PushesAreHonest == Spec => []PushesHonest
<1>1. (role = "push" => PushInv) => PushesHonest
  <2> SUFFICES ASSUME PushInv PROVE PushesHonest
    BY DEF PushesHonest
  <2>0. /\ PushTyped /\ PushLedger /\ PushBooks /\ \A c \in Conns : Sending(c)
        /\ now \in Nat /\ quota[Subject] \in Nat /\ MaxBurst \in Nat
    BY ServingAssumption DEF PushInv, PushTyped, ServingAssumption
  <2>1. \A n \in Pushes : delivered[n] <= 1 /\ (told[n] = "success" => delivered[n] = 1)
    BY <2>0 DEF PushTyped, PushLedger
  <2>2. Cardinality({n \in Pushes : delivered[n] = 1 /\ told[n] # "success"}) <= faults
    BY <2>0 DEF PushBooks, Hidden
  <2>3. Cardinality({n \in Pushes : delivered[n] = 1}) <= MaxBurst + now
    <3>1. {n \in Pushes : delivered[n] = 1} \subseteq PushPaid
      BY DEF PushPaid
    <3>2. /\ Cardinality({n \in Pushes : delivered[n] = 1}) <= Cardinality(PushPaid)
          /\ Cardinality({n \in Pushes : delivered[n] = 1}) \in Nat
          /\ Cardinality(PushPaid) \in Nat
      BY <3>1, PushesFinite, FS_Subset, FS_CardinalityType
    <3>3. QED
      BY <2>0, <3>2 DEF PushBooks
  <2>4. ASSUME NEW c \in Conns
        PROVE  /\ pc[c] = "apns" => now - loc[c].token < ApnsLife
               /\ pc[c] = "fcm" => now < loc[c].token
    <3>1. /\ {ApnsLife, ApnsRefresh, PushTimeout} \subseteq Nat
          /\ ApnsLife >= ApnsRefresh + 2 * PushTimeout
      BY PushAssumption DEF PushAssumption
    <3>2. QED
      BY <2>0, <3>1 DEF Sending
  <2>5. QED
    BY <2>1, <2>2, <2>3, <2>4 DEF PushesHonest
<1>2. QED
  BY <1>1, PushHolds, PTL

--------------------------------------------------------------------------------
(* TURN credentials.                                                       *)

TurnPcs == {"idle", "fetch", "verify", "permit"}
Revisions == 0..(1 + turnConfig.rotations)

TurnTyped ==
  /\ now \in Nat /\ pc \in [Conns -> TurnPcs] /\ DOMAIN req = Conns /\ DOMAIN loc = Conns
  /\ quota \in [Keys -> 0..MaxBurst] /\ credits \in [Keys -> 0..MaxBurst]
  /\ issued \in [Keys -> Nat] /\ DOMAIN given = Conns
  /\ lastGood \in {None} \cup Nat /\ turnConfig \in TurnDeployments

RootsTyped ==
  /\ revision \in [Collections -> Nat] /\ \A x \in Collections : revision[x] \in Revisions \ {0}
  /\ dropped \in [Collections -> [Revisions -> {None} \cup Nat]]
  /\ cache \in [Collections -> {None} \cup [at : Nat, roots : SUBSET Nat]]
  /\ refresher \in [Collections ->
       [pc : {"off", "connect", "genesis", "tick", "read", "panicked"},
        roots : SUBSET Nat, began : Nat]]

\* What the refresher of x reads, and what it has cached, was on chain not long ago.
Current(x) ==
  LET f == refresher[x] IN
  /\ \A r \in Revisions : /\ r >= revision[x] - 1 => dropped[x][r] = None
                          /\ dropped[x][r] # None => dropped[x][r] <= now
  /\ f.pc = "read" => /\ f.began <= now /\ now - f.began <= RefreshTime
                      /\ \A r \in f.roots : /\ r <= revision[x]
                                            /\ dropped[x][r] # None => f.began <= dropped[x][r]
  /\ cache[x] # None =>
       /\ cache[x].at <= now
       /\ \A r \in cache[x].roots :
            /\ r <= revision[x]
            /\ dropped[x][r] # None => cache[x].at <= dropped[x][r] + RefreshTime

\* A proof was asked to be redeemed while its root was in a snapshot.
InTime(in) ==
  /\ in.asked \in 0..now
  /\ in.route = "proof" =>
       LET x == in.proof.coll
           r == in.proof.rev IN
       /\ x \in Collections /\ r \in 0..revision[x]
       /\ dropped[x][r] # None => in.asked <= dropped[x][r] + MaxRootAge + RefreshTime

\* What handler c serves, and what it has given out.
Serves(c) ==
  /\ pc[c] # "idle" => /\ InTime(req[c])
                       /\ req[c].flawed => pc[c] # "fetch" /\ ~req[c].proof.valid
  /\ pc[c] = "fetch" => /\ loc[c].key \in Keys
                        /\ loc[c].at \in 0..now /\ now - loc[c].at <= RequestTimeout

Gave(c) ==
  LET g == given[c] IN
  g # None => /\ InTime(g.in) /\ ~g.in.flawed
              /\ g.source # "cloudflare" => g.ttl >= MinUseful
              /\ Remaining(g.expiry, g.at) + RequestTimeout >= g.ttl

TurnInv == /\ TurnTyped /\ RootsTyped
           /\ \A x \in Collections : Current(x)
           /\ \A c \in Conns : Serves(c) /\ Gave(c)
           /\ \A k \in Keys : Spent(k) <= MaxBurst + now - quota[k]

\* Time passes, rings rotate, and a revision that leaves the chain leaves it now.
Ages ==
  /\ now' \in Nat /\ now <= now'
  /\ \A x \in Collections :
       /\ revision'[x] \in Nat /\ revision[x] <= revision'[x]
       /\ \A r \in 0..revision[x] : dropped'[x][r] \in {dropped[x][r], now}

\* The constants of the deployment.
LEMMA TurnConstants ==
  /\ RequestTimeout \in Nat /\ RefreshTime \in Nat /\ MaxRootAge \in Nat /\ MaxSkew \in Nat
  /\ MaxBurst \in Nat \ {0} /\ Ttl \in Nat \ {0} /\ MinUsefulCap \in Nat \ {0}
  /\ None \notin Int /\ Alias \in Keys /\ Subject \in Keys /\ GrantedTtls \subseteq Nat
  /\ \A f \in TurnDeployments : f.rotations \in Nat
BY ServingAssumption, TurnAssumption DEF ServingAssumption, TurnAssumption

\* What was asked in time stays so.
LEMMA TimeKept ==
  ASSUME TurnTyped, RootsTyped, Ages, NEW in, InTime(in)
  PROVE  InTime(in)'
<1>1. in.asked \in 0..now'
  BY DEF Ages, InTime, TurnTyped
<1>2. ASSUME in.route = "proof"
      PROVE  LET x == in.proof.coll
                 r == in.proof.rev IN
             /\ x \in Collections /\ r \in 0..revision'[x]
             /\ dropped'[x][r] # None => in.asked <= dropped'[x][r] + MaxRootAge + RefreshTime
  <2> DEFINE x == in.proof.coll
             r == in.proof.rev
  <2>1. /\ x \in Collections /\ r \in 0..revision[x]
        /\ dropped[x][r] # None => in.asked <= dropped[x][r] + MaxRootAge + RefreshTime
    BY <1>2 DEF InTime
  <2>2. r \in 0..revision'[x] /\ dropped'[x][r] \in {dropped[x][r], now}
    BY <2>1 DEF Ages, RootsTyped
  <2>3. in.asked <= now + MaxRootAge + RefreshTime
    BY TurnConstants DEF InTime, TurnTyped
  <2>4. QED
    BY <2>1, <2>2, <2>3
<1>3. QED
  BY <1>1, <1>2 DEF InTime

\* Time does not touch a handler that waits.
LEMMA HandlerWaits ==
  ASSUME TurnInv, Ages, NEW d \in Conns, pc'[d] = pc[d], req'[d] = req[d], loc'[d] = loc[d],
         pc[d] = "fetch" => now' - loc[d].at <= RequestTimeout
  PROVE  Serves(d)'
<1>0. TurnTyped /\ RootsTyped /\ Serves(d)
  BY DEF TurnInv
<1>1. ASSUME pc'[d] # "idle" PROVE InTime(req[d])'
  <2>1. PICK in : in = req[d]
    OBVIOUS
  <2>2. InTime(in)
    BY <1>0, <1>1, <2>1 DEF Serves
  <2>3. InTime(in)'
    BY <1>0, <2>2, TimeKept
  <2>4. req'[d] = in
    BY <2>1
  <2>5. QED
    BY <2>3, <2>4 DEF InTime
<1>2. pc'[d] = "fetch" => /\ loc'[d].key \in Keys /\ loc'[d].at \in 0..now'
                          /\ now' - loc'[d].at <= RequestTimeout
  BY <1>0 DEF Serves, Ages, TurnTyped
<1>3. QED
  BY <1>0, <1>1, <1>2 DEF Serves

\* Nor a credential that was given.
LEMMA GiftKept ==
  ASSUME TurnInv, Ages, NEW d \in Conns, given'[d] = given[d]
  PROVE  Gave(d)'
<1>0. TurnTyped /\ RootsTyped /\ Gave(d)
  BY DEF TurnInv
<1>1. CASE given[d] = None
  BY <1>1 DEF Gave
<1>2. CASE given[d] # None
  <2>1. PICK in : in = given[d].in
    OBVIOUS
  <2>2. InTime(in)
    BY <1>0, <1>2, <2>1 DEF Gave
  <2>3. InTime(in)'
    BY <1>0, <2>2, TimeKept
  <2>4. given'[d].in = in
    BY <2>1
  <2>5. InTime(given[d].in)'
    BY <2>3, <2>4 DEF InTime
  <2>6. QED
    BY <1>0, <1>2, <2>5 DEF Gave
<1>3. QED
  BY <1>1, <1>2

Fetching(k) == {c \in Conns : pc[c] = "fetch" /\ loc[c].key = k}

\* One handler at most starts or stops waiting for Cloudflare.
LEMMA FetchMoves ==
  ASSUME NEW c \in Conns, NEW k \in Keys,
         \A d \in Conns \ {c} : pc'[d] = pc[d] /\ loc'[d] = loc[d]
  PROVE  /\ Cardinality(Fetching(k)) \in Nat /\ Cardinality(Fetching(k)') \in Nat
         /\ Cardinality(Fetching(k)') <= Cardinality(Fetching(k)) + 1
         /\ (pc'[c] = "fetch" => loc'[c].key # k) =>
              Cardinality(Fetching(k)') <= Cardinality(Fetching(k))
         /\ pc'[c] # "fetch" /\ pc[c] = "fetch" /\ loc[c].key = k =>
              Cardinality(Fetching(k)') <= Cardinality(Fetching(k)) - 1
<1>1. IsFiniteSet(Fetching(k))
  BY ServingAssumption, FS_Subset DEF ServingAssumption, Fetching
<1>2. Fetching(k)' \subseteq Fetching(k) \cup {c}
  BY DEF Fetching
<1>3. (pc'[c] = "fetch" => loc'[c].key # k) => Fetching(k)' \subseteq Fetching(k)
  BY DEF Fetching
<1>4. pc'[c] # "fetch" => Fetching(k)' \subseteq Fetching(k) \ {c}
  BY DEF Fetching
<1>5. pc[c] = "fetch" /\ loc[c].key = k => c \in Fetching(k)
  BY DEF Fetching
<1>6. /\ Cardinality(Fetching(k)) \in Nat /\ Cardinality(Fetching(k)') \in Nat
      /\ Cardinality(Fetching(k)') <= Cardinality(Fetching(k)) + 1
      /\ Fetching(k)' \subseteq Fetching(k) => Cardinality(Fetching(k)') <= Cardinality(Fetching(k))
  BY <1>1, <1>2, CountAdds
<1>7. ASSUME pc'[c] # "fetch", pc[c] = "fetch", loc[c].key = k
      PROVE  Cardinality(Fetching(k)') <= Cardinality(Fetching(k)) - 1
  BY <1>1, <1>4, <1>5, <1>7, CountDrops
<1>8. QED
  BY <1>3, <1>6, <1>7

\* Where one handler moves, the others wait.
LEMMA TurnHandler ==
  ASSUME TurnInv, NEW c \in Conns, NEW where \in TurnPcs, NEW in, NEW carried,
         pc' = [pc EXCEPT ![c] = where], req' = [req EXCEPT ![c] = in],
         loc' = [loc EXCEPT ![c] = carried],
         UNCHANGED <<now, turnConfig, refresher, cache, revision, dropped>>,
         Serves(c)', Gave(c)', DOMAIN given' = Conns,
         \A d \in Conns \ {c} : given'[d] = given[d],
         issued' \in [Keys -> Nat], lastGood' \in {None} \cup Nat,
         quota' \in [Keys -> 0..MaxBurst], credits' \in [Keys -> 0..MaxBurst],
         \A k \in Keys : Spent(k)' <= MaxBurst + now - quota'[k]
  PROVE  TurnInv'
<1>0. /\ TurnTyped /\ RootsTyped /\ \A x \in Collections : Current(x)
      /\ \A d \in Conns : Serves(d)
  BY DEF TurnInv
<1>1. TurnTyped'
  BY <1>0 DEF TurnTyped
<1>2. RootsTyped' /\ \A x \in Collections : Current(x)'
  BY <1>0 DEF RootsTyped, Current, Revisions
<1>3. Ages
  BY <1>0 DEF Ages, TurnTyped, RootsTyped
<1>4. ASSUME NEW d \in Conns PROVE Serves(d)' /\ Gave(d)'
  <2>1. CASE d = c
    BY <2>1
  <2>2. CASE d # c
    <3>1. pc'[d] = pc[d] /\ req'[d] = req[d] /\ loc'[d] = loc[d] /\ given'[d] = given[d]
      BY <1>0, <2>2 DEF TurnTyped
    <3>2. pc[d] = "fetch" => now' - loc[d].at <= RequestTimeout
      BY <1>0 DEF Serves
    <3>3. QED
      BY <1>3, <3>1, <3>2, HandlerWaits, GiftKept
  <2>3. QED
    BY <2>1, <2>2
<1>5. QED
  BY <1>1, <1>2, <1>4 DEF TurnInv

\* Where the chain, a refresher or the clock moves, all handlers wait.
LEMMA TurnRoots ==
  ASSUME TurnInv, Ages, UNCHANGED <<pc, req, loc, credits, turnConfig, lastGood, given, issued>>,
         \A d \in Conns : pc[d] = "fetch" => now' - loc[d].at <= RequestTimeout,
         RootsTyped', \A x \in Collections : Current(x)',
         quota' \in [Keys -> 0..MaxBurst],
         \A k \in Keys : now - quota[k] <= now' - quota'[k]
  PROVE  TurnInv'
<1>0. TurnTyped /\ RootsTyped
  BY DEF TurnInv
<1>1. TurnTyped'
  BY <1>0 DEF TurnTyped, Ages
<1>2. \A d \in Conns : Serves(d)' /\ Gave(d)'
  BY HandlerWaits, GiftKept
<1>3. ASSUME NEW k \in Keys PROVE Spent(k)' <= MaxBurst + now' - quota'[k]
  <2>1. Spent(k)' = issued[k] + credits[k] + Cardinality(Fetching(k))
    BY DEF Spent, Fetching
  <2>2. Spent(k) = issued[k] + credits[k] + Cardinality(Fetching(k))
    BY DEF Spent, Fetching
  <2>3. Cardinality(Fetching(k)) \in Nat
    BY ServingAssumption, FS_Subset, FS_CardinalityType DEF ServingAssumption, Fetching
  <2>4. /\ issued[k] \in Nat /\ credits[k] \in Nat /\ quota[k] \in Nat /\ quota'[k] \in Nat
        /\ now \in Nat /\ now' \in Nat /\ MaxBurst \in Nat
    BY <1>0, TurnConstants DEF TurnTyped, Ages
  <2>5. Spent(k) <= MaxBurst + now - quota[k]
    BY DEF TurnInv
  <2>6. now - quota[k] <= now' - quota'[k]
    OBVIOUS
  <2>7. QED
    BY <2>1, <2>2, <2>3, <2>4, <2>5, <2>6
<1>4. QED
  BY <1>1, <1>2, <1>3 DEF TurnInv

\* The steps of a refresher change neither the chain nor the time.
LEMMA RefresherMoves ==
  ASSUME TurnInv, NEW x \in Collections, NEW f, NEW e,
         refresher' = [refresher EXCEPT ![x] = f], cache' = [cache EXCEPT ![x] = e],
         f \in [pc : {"off", "connect", "genesis", "tick", "read", "panicked"},
                roots : SUBSET Nat, began : Nat],
         e \in {None} \cup [at : Nat, roots : SUBSET Nat],
         Current(x)',
         UNCHANGED <<now, pc, req, loc, quota, credits, turnConfig, lastGood, revision, dropped,
                     given, issued>>
  PROVE  TurnInv'
<1>0. /\ TurnTyped /\ RootsTyped /\ \A y \in Collections : Current(y)
      /\ \A d \in Conns : Serves(d)
  BY DEF TurnInv
<1>1. RootsTyped'
  BY <1>0 DEF RootsTyped, Revisions
<1>2. ASSUME NEW y \in Collections PROVE Current(y)'
  <2>1. CASE y = x
    BY <2>1
  <2>2. CASE y # x
    <3>1. refresher'[y] = refresher[y] /\ cache'[y] = cache[y]
      BY <1>0, <2>2 DEF RootsTyped
    <3>2. QED
      BY <1>0, <3>1 DEF Current, Revisions
  <2>3. QED
    BY <2>1, <2>2
<1>3. Ages
  BY <1>0 DEF Ages, TurnTyped, RootsTyped
<1>4. /\ \A d \in Conns : pc[d] = "fetch" => now' - loc[d].at <= RequestTimeout
      /\ quota' \in [Keys -> 0..MaxBurst] /\ \A k \in Keys : now - quota[k] <= now' - quota'[k]
  BY <1>0 DEF Serves, TurnTyped
<1>5. QED
  BY <1>1, <1>2, <1>3, <1>4, TurnRoots

\* The refreshers (connect, the genesis check, one refresh) cache what was on chain.
LEMMA RefreshersKeep ==
  ASSUME TurnInv, NEW x \in Collections,
         \/ RefresherConnects(x) \/ CheckGenesis(x) \/ BeginRefresh(x) \/ EndRefresh(x)
  PROVE  TurnInv'
<1>0. /\ TurnTyped /\ RootsTyped /\ Current(x) /\ now \in Nat
  BY DEF TurnInv, TurnTyped
<1> DEFINE f == refresher[x]
<1>1. /\ f \in [pc : {"off", "connect", "genesis", "tick", "read", "panicked"},
                roots : SUBSET Nat, began : Nat]
      /\ cache[x] \in {None} \cup [at : Nat, roots : SUBSET Nat]
      /\ cache = [cache EXCEPT ![x] = cache[x]] /\ refresher = [refresher EXCEPT ![x] = f]
  BY <1>0 DEF RootsTyped
<1>2. UNCHANGED <<now, pc, req, loc, quota, credits, turnConfig, lastGood, revision, dropped,
                  given, issued>>
  BY DEF RefresherConnects, CheckGenesis, BeginRefresh, EndRefresh, servingVars, Answered, Failed
<1>3. CASE RefresherConnects(x) \/ CheckGenesis(x)
  <2>1. /\ cache' \in {cache, [cache EXCEPT ![x] = None]}
        /\ \/ refresher' = refresher
           \/ \E p \in {"genesis", "panicked", "tick"} : refresher' = [refresher EXCEPT ![x].pc = p]
    BY <1>3 DEF RefresherConnects, CheckGenesis
  <2>2. PICK e \in {None, cache[x]} : cache' = [cache EXCEPT ![x] = e]
    BY <1>1, <2>1
  <2>3. PICK g \in {f} \cup {[f EXCEPT !.pc = p] : p \in {"genesis", "panicked", "tick"}} :
          refresher' = [refresher EXCEPT ![x] = g]
    <3>1. ASSUME NEW p, refresher' = [refresher EXCEPT ![x].pc = p]
          PROVE  refresher' = [refresher EXCEPT ![x] = [f EXCEPT !.pc = p]]
      BY <3>1
    <3>2. QED
      BY <1>1, <2>1, <3>1
  <2>4. /\ g \in [pc : {"off", "connect", "genesis", "tick", "read", "panicked"},
                  roots : SUBSET Nat, began : Nat]
        /\ g = f \/ g.pc # "read"
    BY <1>1, <2>3
  <2>5. refresher'[x] = g /\ cache'[x] = e
    BY <1>0, <2>2, <2>3 DEF RootsTyped
  <2>6. Current(x)'
    BY <1>0, <1>2, <2>2, <2>4, <2>5 DEF Current, Revisions
  <2>7. QED
    BY <1>1, <1>2, <2>2, <2>3, <2>4, <2>6, RefresherMoves
<1>4. CASE BeginRefresh(x)
  <2> DEFINE g == [pc |-> "read", roots |-> OnChain(x), began |-> now]
  <2>1. revision[x] \in Nat /\ revision[x] - 1 \in Nat /\ revision[x] \in Revisions
        /\ revision[x] - 1 \in Revisions
    <3>1. turnConfig.rotations \in Nat
      BY <1>0, TurnConstants DEF TurnTyped
    <3>2. QED
      BY <1>0, <3>1 DEF RootsTyped, Revisions
  <2>2. OnChain(x) \in SUBSET Nat
    BY <2>1 DEF OnChain
  <2>3. \A r \in OnChain(x) : r <= revision[x] /\ dropped[x][r] = None
    BY <1>0, <2>1 DEF OnChain, Current
  <2>4. refresher' = [refresher EXCEPT ![x] = g] /\ cache' = [cache EXCEPT ![x] = cache[x]]
    BY <1>1, <1>4 DEF BeginRefresh
  <2>5. refresher'[x] = g /\ cache'[x] = cache[x]
    BY <1>0, <2>4 DEF RootsTyped
  <2>6. Current(x)'
    BY <1>0, <1>2, <2>3, <2>5, TurnConstants DEF Current, Revisions
  <2>7. g \in [pc : {"off", "connect", "genesis", "tick", "read", "panicked"},
                  roots : SUBSET Nat, began : Nat]
    BY <1>0, <2>2
  <2>8. QED
    BY <1>1, <1>2, <2>4, <2>6, <2>7, RefresherMoves
<1>5. CASE EndRefresh(x)
  <2>1. f.pc = "read"
    BY <1>5 DEF EndRefresh
  <2>2. PICK g \in [pc : {"tick", "genesis"}, roots : {{}}, began : {0}],
             e \in {cache[x], [at |-> now, roots |-> f.roots]} :
          cache' = [cache EXCEPT ![x] = e] /\ refresher' = [refresher EXCEPT ![x] = g]
    <3>1. CASE /\ cache' = [cache EXCEPT ![x] = [at |-> now, roots |-> f.roots]]
               /\ refresher' = [refresher EXCEPT ![x] = [pc |-> "tick", roots |-> {}, began |-> 0]]
      BY <3>1
    <3>2. CASE /\ cache' = [cache EXCEPT ![x] = cache[x]]
               /\ refresher' = [refresher EXCEPT ![x] = [pc |-> "genesis", roots |-> {}, began |-> 0]]
      BY <3>2
    <3>3. QED
      BY <1>1, <1>5, <3>1, <3>2 DEF EndRefresh
  <2>3. refresher'[x] = g /\ cache'[x] = e /\ g.pc # "read"
    BY <1>0, <2>2 DEF RootsTyped
  <2>4. ASSUME NEW r \in f.roots, dropped[x][r] # None
        PROVE  r <= revision[x] /\ now <= dropped[x][r] + RefreshTime
    <3>1. /\ r <= revision[x] /\ f.began <= dropped[x][r] /\ now - f.began <= RefreshTime
      BY <1>0, <2>1, <2>4 DEF Current
    <3>2. r \in Nat /\ f.began \in Nat
      BY <1>1
    <3>3. r \in Revisions
      <4>1. turnConfig.rotations \in Nat /\ revision[x] \in 0..(1 + turnConfig.rotations)
        BY <1>0, TurnConstants DEF TurnTyped, RootsTyped, Revisions
      <4>2. QED
        BY <3>1, <3>2, <4>1 DEF Revisions
    <3>4. dropped[x][r] \in Nat
      BY <1>0, <2>4, <3>3 DEF RootsTyped
    <3>5. QED
      BY <1>0, <3>1, <3>2, <3>4, TurnConstants
  <2>5. \A r \in f.roots : r <= revision[x]
    BY <1>0, <2>1 DEF Current
  <2>6. Current(x)'
    BY <1>0, <1>2, <2>2, <2>3, <2>4, <2>5 DEF Current, Revisions
  <2>7. /\ g \in [pc : {"off", "connect", "genesis", "tick", "read", "panicked"},
                  roots : SUBSET Nat, began : Nat]
        /\ e \in {None} \cup [at : Nat, roots : SUBSET Nat]
    BY <1>0, <1>1, <2>2
  <2>8. QED
    BY <1>2, <2>2, <2>6, <2>7, RefresherMoves
<1>6. QED
  BY <1>3, <1>4, <1>5

\* A rotation drops the revision before the one that was current.
LEMMA RotationKeeps ==
  ASSUME TurnInv, NEW x \in Collections, RotateRoot(x)
  PROVE  TurnInv'
<1> DEFINE v == revision[x]
<1>0. /\ TurnTyped /\ RootsTyped /\ \A y \in Collections : Current(y)
      /\ \A d \in Conns : Serves(d)
      /\ now \in Nat
  BY DEF TurnInv, TurnTyped
<1>1. /\ v < 1 + turnConfig.rotations /\ revision' = [revision EXCEPT ![x] = v + 1]
      /\ dropped' = [dropped EXCEPT ![x][v - 1] = now]
      /\ UNCHANGED <<now, pc, req, loc, quota, credits, turnConfig, lastGood, refresher, cache,
                     given, issued>>
  BY DEF RotateRoot, servingVars
<1>2. turnConfig.rotations \in Nat
  BY <1>0, TurnConstants DEF TurnTyped
<1>3. v \in Nat \ {0} /\ v - 1 \in Revisions /\ v + 1 \in Revisions \ {0} /\ v \in Revisions
  BY <1>0, <1>1, <1>2 DEF RootsTyped, Revisions
<1>4. /\ revision'[x] = v + 1 /\ dropped'[x] = [dropped[x] EXCEPT ![v - 1] = now]
      /\ dropped'[x][v - 1] = now
      /\ \A r \in Revisions \ {v - 1} : dropped'[x][r] = dropped[x][r]
      /\ \A y \in Collections \ {x} : revision'[y] = revision[y] /\ dropped'[y] = dropped[y]
  BY <1>0, <1>1, <1>3 DEF RootsTyped
<1>5. RootsTyped'
  <2>1. dropped'[x] \in [Revisions -> {None} \cup Nat]
    BY <1>0, <1>3, <1>4 DEF RootsTyped
  <2>2. dropped' \in [Collections -> [Revisions -> {None} \cup Nat]]
    BY <1>0, <1>1, <1>4, <2>1 DEF RootsTyped
  <2>3. /\ revision' \in [Collections -> Nat]
        /\ \A y \in Collections : revision'[y] \in Revisions \ {0}
    BY <1>0, <1>1, <1>3, <1>4 DEF RootsTyped
  <2>4. QED
    BY <1>0, <1>1, <2>2, <2>3 DEF RootsTyped, Revisions
<1>6. Ages
  <2>1. ASSUME NEW y \in Collections
        PROVE  /\ revision'[y] \in Nat /\ revision[y] <= revision'[y]
               /\ \A r \in 0..revision[y] : dropped'[y][r] \in {dropped[y][r], now}
    <3>1. CASE y # x
      BY <1>0, <1>4, <3>1 DEF RootsTyped
    <3>2. CASE y = x
      <4>1. 0..v \subseteq Revisions
        BY <1>2, <1>3 DEF Revisions
      <4>2. \A r \in 0..v : dropped'[x][r] \in {dropped[x][r], now}
        BY <1>4, <4>1, Zenon
      <4>3. revision'[x] \in Nat /\ v <= revision'[x]
        BY <1>3, <1>4
      <4>4. QED
        BY <3>2, <4>2, <4>3
    <3>3. QED
      BY <3>1, <3>2
  <2>2. QED
    BY <1>0, <1>1, <2>1 DEF Ages
<1>7. ASSUME NEW y \in Collections PROVE Current(y)'
  <2>1. CASE y # x
    BY <1>0, <1>1, <1>4, <2>1 DEF Current, Revisions
  <2>2. CASE y = x
    <3> DEFINE f == refresher[x]
    <3>1. ASSUME NEW r \in Revisions
          PROVE  /\ r >= revision'[x] - 1 => dropped'[x][r] = None
                 /\ dropped'[x][r] # None => dropped'[x][r] <= now
      <4>1. CASE r = v - 1
        BY <1>0, <1>3, <1>4, <4>1
      <4>2. CASE r # v - 1
        <5>1. dropped'[x][r] = dropped[x][r] /\ r \in Int
          BY <1>2, <1>4, <4>2 DEF Revisions
        <5>2. QED
          BY <1>0, <1>3, <1>4, <5>1 DEF Current
      <4>3. QED
        BY <4>1, <4>2
    <3>2. ASSUME f.pc = "read"
          PROVE  /\ f.began <= now /\ now - f.began <= RefreshTime
                 /\ \A r \in f.roots : /\ r <= revision'[x]
                                       /\ dropped'[x][r] # None => f.began <= dropped'[x][r]
      <4>1. /\ f.began <= now /\ now - f.began <= RefreshTime
            /\ \A r \in f.roots : /\ r <= v
                                  /\ dropped[x][r] # None => f.began <= dropped[x][r]
        BY <1>0, <3>2 DEF Current
      <4>2. f.roots \subseteq Nat
        BY <1>0 DEF RootsTyped
      <4>3. ASSUME NEW r \in f.roots PROVE r <= v + 1 /\ r \in Revisions
        BY <1>2, <1>3, <4>1, <4>2 DEF Revisions
      <4>4. QED
        BY <1>4, <4>1, <4>3
    <3>3. ASSUME cache[x] # None
          PROVE  /\ cache[x].at <= now
                 /\ \A r \in cache[x].roots :
                      /\ r <= revision'[x]
                      /\ dropped'[x][r] # None => cache[x].at <= dropped'[x][r] + RefreshTime
      <4>1. /\ cache[x].at <= now
            /\ \A r \in cache[x].roots :
                 /\ r <= v
                 /\ dropped[x][r] # None => cache[x].at <= dropped[x][r] + RefreshTime
        BY <1>0, <3>3 DEF Current
      <4>2. cache[x].roots \subseteq Nat /\ cache[x].at \in Nat
        BY <1>0, <3>3 DEF RootsTyped
      <4>3. ASSUME NEW r \in cache[x].roots PROVE r <= v + 1 /\ r \in Revisions
        BY <1>2, <1>3, <4>1, <4>2 DEF Revisions
      <4>4. cache[x].at <= now + RefreshTime
        BY <1>0, <4>1, <4>2, TurnConstants
      <4>5. QED
        BY <1>4, <4>1, <4>3, <4>4
    <3>4. refresher'[x] = f /\ cache'[x] = cache[x] /\ Revisions' = Revisions /\ now' = now
      BY <1>1 DEF Revisions
    <3>5. QED
      BY <2>2, <3>1, <3>2, <3>3, <3>4 DEF Current
  <2>3. QED
    BY <2>1, <2>2
<1>8. /\ \A d \in Conns : pc[d] = "fetch" => now' - loc[d].at <= RequestTimeout
      /\ quota' \in [Keys -> 0..MaxBurst] /\ \A k \in Keys : now - quota[k] <= now' - quota'[k]
  BY <1>0, <1>1 DEF Serves, TurnTyped
<1>9. QED
  BY <1>1, <1>5, <1>6, <1>7, <1>8, TurnRoots

\* The clock: calls and refreshes stay within their bounds, the limiter grants a cell.
LEMMA TurnTickKeeps ==
  ASSUME TurnInv, TurnTick
  PROVE  TurnInv'
<1>0. /\ TurnTyped /\ RootsTyped /\ \A y \in Collections : Current(y)
      /\ \A d \in Conns : Serves(d)
      /\ now \in Nat
  BY DEF TurnInv, TurnTyped
<1>1. /\ now' = now + 1
      /\ quota' = [k \in Keys |-> IF quota[k] < MaxBurst THEN quota[k] + 1 ELSE MaxBurst]
      /\ UNCHANGED <<pc, req, loc, credits, turnConfig, lastGood, refresher, cache, revision,
                     dropped, given, issued>>
      /\ \A d \in Conns : pc[d] = "fetch" => now - loc[d].at < RequestTimeout
      /\ \A x \in Collections : refresher[x].pc = "read" => now - refresher[x].began < RefreshTime
  BY DEF TurnTick, Tick, turnVars
<1>2. RootsTyped'
  BY <1>0, <1>1 DEF RootsTyped, Revisions
<1>3. Ages
  BY <1>0, <1>1 DEF Ages, RootsTyped
<1>4. ASSUME NEW y \in Collections PROVE Current(y)'
  <2>1. cache[y] # None => cache[y].at \in Nat
    BY <1>0 DEF RootsTyped
  <2>2. refresher[y].began \in Nat
    BY <1>0 DEF RootsTyped
  <2>3. refresher[y].pc = "read" => now + 1 - refresher[y].began <= RefreshTime
    BY <1>0, <1>1, <2>2, TurnConstants
  <2>4. \A r \in Revisions : dropped[y][r] # None => dropped[y][r] \in Nat
    BY <1>0 DEF RootsTyped
  <2>5. QED
    BY <1>0, <1>1, <2>1, <2>2, <2>3, <2>4 DEF Current, Revisions
<1>5. \A d \in Conns : pc[d] = "fetch" => now' - loc[d].at <= RequestTimeout
  BY <1>0, <1>1, TurnConstants DEF Serves
<1>6. quota' \in [Keys -> 0..MaxBurst] /\ \A k \in Keys : now - quota[k] <= now' - quota'[k]
  <2>1. MaxBurst \in Nat /\ \A k \in Keys : quota[k] \in 0..MaxBurst
    BY <1>0, TurnConstants DEF TurnTyped
  <2>2. QED
    BY <1>0, <1>1, <2>1
<1>7. QED
  BY <1>1, <1>2, <1>3, <1>4, <1>5, <1>6, TurnRoots

\* A payment takes one cell, banked or granted; a key without either has none to give.
LEMMA ChargeTakes ==
  ASSUME quota \in [Keys -> 0..MaxBurst], credits \in [Keys -> 0..MaxBurst],
         NEW key \in Keys, NEW paid, paid = Payment(key), Charge(key, paid)
  PROVE  /\ quota' \in [Keys -> 0..MaxBurst] /\ credits' \in [Keys -> 0..MaxBurst]
         /\ \A k \in Keys \ {key} : quota'[k] = quota[k] /\ credits'[k] = credits[k]
         /\ paid # None => credits'[key] + quota'[key] = credits[key] + quota[key] - 1
         /\ paid = None => quota' = quota /\ credits' = credits
<1>1. /\ MaxBurst \in Nat /\ credits[key] \in 0..MaxBurst /\ quota[key] \in 0..MaxBurst
      /\ None # "Credit" /\ None # "Quota"
  BY ServingAssumption DEF ServingAssumption
<1>2. paid = IF credits[key] > 0 THEN "Credit" ELSE IF quota[key] > 0 THEN "Quota" ELSE None
  BY <1>1, PaymentIs
<1>3. CASE paid = "Credit"
  <2>1. credits' = [credits EXCEPT ![key] = credits[key] - 1] /\ quota' = quota
    BY <1>3 DEF Charge
  <2>2. credits[key] > 0
    BY <1>1, <1>2, <1>3
  <2>3. QED
    BY <1>1, <1>3, <2>1, <2>2
<1>4. CASE paid = "Quota"
  <2>1. quota' = [quota EXCEPT ![key] = quota[key] - 1] /\ credits' = credits
    BY <1>4 DEF Charge
  <2>2. quota[key] > 0
    BY <1>1, <1>2, <1>4
  <2>3. QED
    BY <1>1, <1>4, <2>1, <2>2
<1>5. CASE paid = None
  BY <1>1, <1>5 DEF Charge
<1>6. QED
  BY <1>2, <1>3, <1>4, <1>5

\* A refund banks one cell at most.
LEMMA RefundBanks ==
  ASSUME quota \in [Keys -> 0..MaxBurst], credits \in [Keys -> 0..MaxBurst],
         NEW key \in Keys, NEW paid, Refund(key, paid)
  PROVE  /\ quota' = quota /\ credits' \in [Keys -> 0..MaxBurst]
         /\ \A k \in Keys \ {key} : credits'[k] = credits[k]
         /\ credits'[key] <= credits[key] + 1
<1>1. MaxBurst \in Nat /\ credits[key] \in 0..MaxBurst
  BY ServingAssumption DEF ServingAssumption
<1>2. QED
  BY <1>1 DEF Refund

\* A handler that ends with nothing to give leaves the limiter alone, or hands back
\* the cell its request to Cloudflare was paid with.
LEMMA TurnEnds ==
  ASSUME TurnInv, NEW c \in Conns, NEW what, Finish(c, what),
         UNCHANGED <<now, turnConfig, lastGood, refresher, cache, revision, dropped, given, issued>>,
         \/ NoCharge
         \/ pc[c] = "fetch" /\ Refund(loc[c].key, loc[c].paid)
  PROVE  TurnInv'
<1>0. /\ TurnTyped /\ RootsTyped /\ Serves(c) /\ MaxBurst \in Nat
      /\ \A k \in Keys : Spent(k) <= MaxBurst + now - quota[k]
  BY TurnConstants DEF TurnInv
<1>1. /\ pc' = [pc EXCEPT ![c] = "idle"] /\ req' = [req EXCEPT ![c] = None]
      /\ loc' = [loc EXCEPT ![c] = None]
  BY DEF Finish
<1>2. Serves(c)'
  BY <1>0, <1>1 DEF Serves, TurnTyped
<1>3. Gave(c)'
  <2>1. Ages
    BY <1>0 DEF Ages, TurnTyped, RootsTyped
  <2>2. QED
    BY <2>1, GiftKept
<1>4. /\ quota' = quota /\ credits' \in [Keys -> 0..MaxBurst]
      /\ \A k \in Keys : /\ credits'[k] <= credits[k] + 1
                         /\ ~(pc[c] = "fetch" /\ loc[c].key = k) => credits'[k] = credits[k]
  <2>1. CASE NoCharge
    BY <1>0, <2>1 DEF NoCharge, TurnTyped
  <2>2. CASE pc[c] = "fetch" /\ Refund(loc[c].key, loc[c].paid)
    <3>1. PICK key, paid : key \in Keys /\ key = loc[c].key /\ paid = loc[c].paid
      BY <1>0, <2>2 DEF Serves
    <3>2. /\ quota' = quota /\ credits' \in [Keys -> 0..MaxBurst]
          /\ \A k \in Keys \ {key} : credits'[k] = credits[k]
          /\ credits'[key] <= credits[key] + 1
      BY <1>0, <2>2, <3>1, RefundBanks DEF TurnTyped
    <3>3. QED
      BY <1>0, <2>2, <3>1, <3>2 DEF TurnTyped
  <2>3. QED
    BY <2>1, <2>2
<1>5. ASSUME NEW k \in Keys PROVE Spent(k)' <= MaxBurst + now - quota'[k]
  <2>1. /\ Spent(k) = issued[k] + credits[k] + Cardinality(Fetching(k))
        /\ Spent(k)' = issued[k] + credits'[k] + Cardinality(Fetching(k)')
    BY DEF Spent, Fetching
  <2>2. /\ Cardinality(Fetching(k)) \in Nat /\ Cardinality(Fetching(k)') \in Nat
        /\ Cardinality(Fetching(k)') <= Cardinality(Fetching(k))
        /\ pc[c] = "fetch" /\ loc[c].key = k =>
             Cardinality(Fetching(k)') <= Cardinality(Fetching(k)) - 1
    <3>1. /\ pc'[c] # "fetch"
          /\ \A d \in Conns \ {c} : pc'[d] = pc[d] /\ loc'[d] = loc[d]
      BY <1>0, <1>1 DEF TurnTyped
    <3>2. QED
      BY <3>1, FetchMoves
  <2>3. issued[k] \in Nat /\ credits[k] \in Nat /\ quota[k] \in Nat /\ credits'[k] \in Nat
        /\ now \in Nat
    BY <1>0, <1>4 DEF TurnTyped
  <2>4. credits'[k] + Cardinality(Fetching(k)') <= credits[k] + Cardinality(Fetching(k))
    BY <1>4, <2>2, <2>3
  <2>5. Spent(k) <= MaxBurst + now - quota[k] /\ quota'[k] = quota[k]
    BY <1>0, <1>4
  <2>6. QED
    BY <1>0, <2>1, <2>2, <2>3, <2>4, <2>5
<1>6. /\ "idle" \in TurnPcs /\ DOMAIN given' = Conns /\ issued' \in [Keys -> Nat]
      /\ lastGood' \in {None} \cup Nat /\ quota' \in [Keys -> 0..MaxBurst]
  BY <1>0, <1>4 DEF TurnPcs, TurnTyped
<1>7. QED
  BY <1>1, <1>2, <1>3, <1>4, <1>5, <1>6, TurnHandler

\* A handler that gives a credential was paid, now or when it started to wait; the
\* credential has a useful life unless Cloudflare just granted it, and the handler
\* overstates its life by the wait at most.
LEMMA TurnGives ==
  ASSUME TurnInv, NEW c \in Conns, NEW in, NEW key \in Keys, NEW source, NEW expiry \in Nat,
         NEW at \in 0..now, Give(c, in, key, source, expiry, at), InTime(in), ~in.flawed,
         now - at <= RequestTimeout, source # "cloudflare" => Remaining(expiry, at) >= MinUseful,
         UNCHANGED <<now, turnConfig, refresher, cache, revision, dropped>>,
         lastGood' \in {None} \cup Nat,
         \/ pc[c] = "fetch" /\ loc[c].key = key /\ NoCharge
         \/ Payment(key) # None /\ Charge(key, Payment(key))
  PROVE  TurnInv'
<1>0. /\ TurnTyped /\ RootsTyped /\ Serves(c) /\ MaxBurst \in Nat /\ now \in Nat
      /\ \A k \in Keys : Spent(k) <= MaxBurst + now - quota[k]
  BY TurnConstants DEF TurnInv, TurnTyped
<1>1. /\ pc' = [pc EXCEPT ![c] = "idle"] /\ req' = [req EXCEPT ![c] = None]
      /\ loc' = [loc EXCEPT ![c] = None]
      /\ issued' = [issued EXCEPT ![key] = @ + 1]
      /\ given' = [given EXCEPT ![c] = [in |-> in, key |-> key, source |-> source, expiry |-> expiry,
                                        ttl |-> Remaining(expiry, at), at |-> now]]
  BY DEF Give, Finish
<1>2. Serves(c)'
  BY <1>0, <1>1 DEF Serves, TurnTyped
<1>3. Gave(c)'
  <2>1. Ages
    BY <1>0 DEF Ages, TurnTyped, RootsTyped
  <2>2. InTime(in)'
    BY <1>0, <2>1, TimeKept
  <2>3. /\ given'[c].in = in /\ given'[c].expiry = expiry /\ given'[c].at = now
        /\ given'[c].ttl = Remaining(expiry, at) /\ given'[c].source = source
    BY <1>0, <1>1 DEF TurnTyped
  <2>4. InTime(given[c].in)'
    BY <2>2, <2>3 DEF InTime
  <2>5. Remaining(expiry, now) + RequestTimeout >= Remaining(expiry, at)
    BY <1>0, TurnConstants DEF Remaining
  <2>6. Remaining(given[c].expiry, given[c].at)' = Remaining(expiry, now)
    BY <2>3 DEF Remaining
  <2>7. MinUseful' = MinUseful
    BY DEF MinUseful, SmallerOf
  <2>8. QED
    BY <2>3, <2>4, <2>5, <2>6, <2>7 DEF Gave
<1>4. /\ issued' \in [Keys -> Nat] /\ issued'[key] = issued[key] + 1
      /\ \A k \in Keys \ {key} : issued'[k] = issued[k]
  BY <1>0, <1>1 DEF TurnTyped
<1>5. /\ quota' \in [Keys -> 0..MaxBurst] /\ credits' \in [Keys -> 0..MaxBurst]
      /\ \A k \in Keys \ {key} : quota'[k] = quota[k] /\ credits'[k] = credits[k]
      /\ \/ /\ pc[c] = "fetch" /\ loc[c].key = key
            /\ credits'[key] + quota'[key] = credits[key] + quota[key]
         \/ credits'[key] + quota'[key] = credits[key] + quota[key] - 1
  <2>1. CASE pc[c] = "fetch" /\ loc[c].key = key /\ NoCharge
    BY <1>0, <2>1 DEF NoCharge, TurnTyped
  <2>2. CASE Payment(key) # None /\ Charge(key, Payment(key))
    <3>1. PICK paid : paid = Payment(key)
      OBVIOUS
    <3>2. Charge(key, paid) /\ paid # None
      BY <2>2, <3>1
    <3>3. QED
      BY <1>0, <3>1, <3>2, ChargeTakes DEF TurnTyped
  <2>3. QED
    BY <2>1, <2>2
<1>6. ASSUME NEW k \in Keys PROVE Spent(k)' <= MaxBurst + now - quota'[k]
  <2>1. /\ Spent(k) = issued[k] + credits[k] + Cardinality(Fetching(k))
        /\ Spent(k)' = issued'[k] + credits'[k] + Cardinality(Fetching(k)')
    BY DEF Spent, Fetching
  <2>2. /\ pc'[c] # "fetch"
        /\ \A d \in Conns \ {c} : pc'[d] = pc[d] /\ loc'[d] = loc[d]
    BY <1>0, <1>1 DEF TurnTyped
  <2>3. /\ Cardinality(Fetching(k)) \in Nat /\ Cardinality(Fetching(k)') \in Nat
        /\ Cardinality(Fetching(k)') <= Cardinality(Fetching(k))
        /\ pc[c] = "fetch" /\ loc[c].key = k =>
             Cardinality(Fetching(k)') <= Cardinality(Fetching(k)) - 1
    BY <2>2, FetchMoves
  <2>4. /\ issued[k] \in Nat /\ credits[k] \in Nat /\ quota[k] \in Nat
        /\ credits'[k] \in Nat /\ quota'[k] \in Nat
    BY <1>0, <1>5 DEF TurnTyped
  <2>5. Spent(k) <= MaxBurst + now - quota[k]
    BY <1>0
  <2>6. CASE k # key
    <3>1. issued'[k] = issued[k] /\ quota'[k] = quota[k] /\ credits'[k] = credits[k]
      BY <1>4, <1>5, <2>6
    <3>2. QED
      BY <1>0, <2>1, <2>3, <2>4, <2>5, <3>1
  <2>7. CASE k = key
    <3>1. /\ issued'[k] = issued[k] + 1
          /\ \/ /\ Cardinality(Fetching(k)') <= Cardinality(Fetching(k)) - 1
                /\ credits'[k] + quota'[k] = credits[k] + quota[k]
             \/ credits'[k] + quota'[k] = credits[k] + quota[k] - 1
      BY <1>4, <1>5, <2>3, <2>7
    <3>2. QED
      BY <1>0, <2>1, <2>3, <2>4, <2>5, <3>1
  <2>8. QED
    BY <2>6, <2>7
<1>7. /\ "idle" \in TurnPcs /\ DOMAIN given' = Conns /\ \A d \in Conns \ {c} : given'[d] = given[d]
  BY <1>0, <1>1 DEF TurnPcs, TurnTyped
<1>8. QED
  BY <1>1, <1>2, <1>3, <1>4, <1>5, <1>6, <1>7, TurnHandler

\* A handler starts to wait: for Cloudflare once it is paid, or unpaid for a slot and
\* for the verification of its proof.
LEMMA TurnWaits ==
  ASSUME TurnInv, NEW c \in Conns, NEW in, NEW where, NEW carried, NEW key \in Keys,
         Suspend(c, in, where, carried), pc[c] # "fetch", InTime(in),
         in.flawed => where # "fetch" /\ ~in.proof.valid,
         UNCHANGED <<now, turnConfig, lastGood, refresher, cache, revision, dropped, given, issued>>,
         \/ where \in {"verify", "permit"} /\ NoCharge
         \/ /\ where = "fetch" /\ carried.key = key /\ carried.at = now
            /\ Payment(key) # None /\ Charge(key, Payment(key))
  PROVE  TurnInv'
<1>0. /\ TurnTyped /\ RootsTyped /\ Serves(c) /\ MaxBurst \in Nat /\ now \in Nat
      /\ \A k \in Keys : Spent(k) <= MaxBurst + now - quota[k]
  BY TurnConstants DEF TurnInv, TurnTyped
<1>1. /\ pc' = [pc EXCEPT ![c] = where] /\ req' = [req EXCEPT ![c] = in]
      /\ loc' = [loc EXCEPT ![c] = carried]
  BY DEF Suspend
<1>2. pc'[c] = where /\ req'[c] = in /\ loc'[c] = carried
  BY <1>0, <1>1 DEF TurnTyped
<1>3. Ages
  BY <1>0 DEF Ages, TurnTyped, RootsTyped
<1>4. Serves(c)'
  <2>1. InTime(in)'
    BY <1>0, <1>3, TimeKept
  <2>2. InTime(req[c])'
    BY <1>2, <2>1 DEF InTime
  <2>3. where = "fetch" => /\ carried.key \in Keys /\ carried.at \in 0..now'
                           /\ now' - carried.at <= RequestTimeout
    BY <1>0, TurnConstants
  <2>4. QED
    BY <1>2, <2>2, <2>3 DEF Serves
<1>5. Gave(c)'
  BY <1>3, GiftKept
<1>6. /\ quota' \in [Keys -> 0..MaxBurst] /\ credits' \in [Keys -> 0..MaxBurst]
      /\ \A k \in Keys \ {key} : quota'[k] = quota[k] /\ credits'[k] = credits[k]
      /\ \/ /\ where # "fetch" /\ credits'[key] + quota'[key] = credits[key] + quota[key]
         \/ /\ where = "fetch" /\ carried.key = key
            /\ credits'[key] + quota'[key] = credits[key] + quota[key] - 1
  <2>1. CASE where \in {"verify", "permit"} /\ NoCharge
    BY <1>0, <2>1 DEF NoCharge, TurnTyped
  <2>2. CASE /\ where = "fetch" /\ carried.key = key
             /\ Payment(key) # None /\ Charge(key, Payment(key))
    <3>1. PICK paid : paid = Payment(key)
      OBVIOUS
    <3>2. Charge(key, paid) /\ paid # None
      BY <2>2, <3>1
    <3>3. QED
      BY <1>0, <2>2, <3>1, <3>2, ChargeTakes DEF TurnTyped
  <2>3. QED
    BY <2>1, <2>2
<1>7. ASSUME NEW k \in Keys PROVE Spent(k)' <= MaxBurst + now - quota'[k]
  <2>1. /\ Spent(k) = issued[k] + credits[k] + Cardinality(Fetching(k))
        /\ Spent(k)' = issued[k] + credits'[k] + Cardinality(Fetching(k)')
    BY DEF Spent, Fetching
  <2>2. \A d \in Conns \ {c} : pc'[d] = pc[d] /\ loc'[d] = loc[d]
    BY <1>0, <1>1 DEF TurnTyped
  <2>3. /\ Cardinality(Fetching(k)) \in Nat /\ Cardinality(Fetching(k)') \in Nat
        /\ Cardinality(Fetching(k)') <= Cardinality(Fetching(k)) + 1
        /\ (where = "fetch" => carried.key # k) =>
             Cardinality(Fetching(k)') <= Cardinality(Fetching(k))
    BY <1>2, <2>2, FetchMoves
  <2>4. /\ issued[k] \in Nat /\ credits[k] \in Nat /\ quota[k] \in Nat
        /\ credits'[k] \in Nat /\ quota'[k] \in Nat
    BY <1>0, <1>6 DEF TurnTyped
  <2>5. Spent(k) <= MaxBurst + now - quota[k]
    BY <1>0
  <2>6. CASE k # key
    <3>1. /\ quota'[k] = quota[k] /\ credits'[k] = credits[k]
          /\ Cardinality(Fetching(k)') <= Cardinality(Fetching(k))
      BY <1>6, <2>3, <2>6
    <3>2. QED
      BY <1>0, <2>1, <2>3, <2>4, <2>5, <3>1
  <2>7. CASE k = key
    <3>1. \/ /\ Cardinality(Fetching(k)') <= Cardinality(Fetching(k))
             /\ credits'[k] + quota'[k] = credits[k] + quota[k]
          \/ credits'[k] + quota'[k] = credits[k] + quota[k] - 1
      BY <1>6, <2>3, <2>7
    <3>2. QED
      BY <1>0, <2>1, <2>3, <2>4, <2>5, <3>1
  <2>8. QED
    BY <2>6, <2>7
<1>8. /\ where \in TurnPcs /\ DOMAIN given' = Conns /\ issued' \in [Keys -> Nat]
      /\ lastGood' \in {None} \cup Nat
  BY <1>0, <1>6 DEF TurnPcs, TurnTyped
<1>9. QED
  BY <1>1, <1>4, <1>5, <1>6, <1>7, <1>8, TurnHandler

\* A useful life is no longer than a whole one.
LEMMA UsefulLife == MinUseful \in Nat \ {0} /\ MinUseful <= Ttl
<1>1. Ttl \in Nat \ {0} /\ MinUsefulCap \in Nat \ {0}
  BY TurnConstants
<1>2. Ttl \div 4 \in Nat /\ Ttl \div 4 <= Ttl
  BY <1>1
<1>3. QED
  BY <1>1, <1>2 DEF MinUseful, SmallerOf

\* Source::issue up to its first await: coturn's credential, the cached one while the
\* breaker is open, or a call to Cloudflare.
LEMMA IssueStarts ==
  ASSUME TurnInv, NEW c \in Conns, NEW in, NEW key \in Keys,
         Payment(key) # None, Charge(key, Payment(key)),
         StartIssue(c, in, key, Payment(key)), pc[c] # "fetch", InTime(in), ~in.flawed,
         UNCHANGED <<now, turnConfig, lastGood, refresher, cache, revision, dropped>>
  PROVE  TurnInv'
<1>0. /\ TurnTyped /\ now \in Nat /\ now \in 0..now /\ lastGood \in {None} \cup Nat
      /\ now - now <= RequestTimeout
  BY TurnConstants DEF TurnInv, TurnTyped
<1>1. CASE Give(c, in, key, "coturn", CoturnExpiry(now), now)
  <2>1. PICK expiry, at : expiry = CoturnExpiry(now) /\ at = now
    OBVIOUS
  <2>2. expiry \in Nat /\ Remaining(expiry, at) >= MinUseful
    BY <1>0, <2>1, UsefulLife, TurnConstants DEF CoturnExpiry, Remaining
  <2>3. Give(c, in, key, "coturn", expiry, at)
    BY <1>1, <2>1
  <2>4. at \in 0..now /\ now - at <= RequestTimeout /\ lastGood' \in {None} \cup Nat
    BY <1>0, <2>1
  <2>5. QED
    BY <2>2, <2>3, <2>4, TurnGives
<1>2. CASE Cached(now) /\ Give(c, in, key, "cache", lastGood, now)
  <2>1. PICK expiry, at : expiry = lastGood /\ at = now
    OBVIOUS
  <2>2. expiry \in Nat /\ Remaining(expiry, at) >= MinUseful
    BY <1>0, <1>2, <2>1 DEF Cached
  <2>3. Give(c, in, key, "cache", expiry, at)
    BY <1>2, <2>1
  <2>4. at \in 0..now /\ now - at <= RequestTimeout /\ lastGood' \in {None} \cup Nat
    BY <1>0, <2>1
  <2>5. QED
    BY <2>2, <2>3, <2>4, TurnGives
<1>3. CASE Suspend(c, in, "fetch", [key |-> key, paid |-> Payment(key), at |-> now]) /\ NoGift
  <2>1. PICK where, carried : /\ where = "fetch"
                              /\ carried = [key |-> key, paid |-> Payment(key), at |-> now]
    OBVIOUS
  <2>2. /\ Suspend(c, in, where, carried) /\ carried.key = key /\ carried.at = now
        /\ UNCHANGED <<given, issued>>
    BY <1>3, <2>1 DEF NoGift
  <2>3. QED
    BY <2>1, <2>2, TurnWaits
<1>4. QED
  BY <1>1, <1>2, <1>3 DEF StartIssue

\* A request for the authenticated route that gets past the extractor and the body is
\* the honest client's.
LEMMA IssueRequests ==
  ASSUME now \in Nat, NEW in \in TurnRequests, in.route = "issue",
         AuthRejection(ServiceKeys, in.header) = None, in.body
  PROVE  ~in.flawed /\ in.asked = now /\ in.header.token.sub = Subject
<1>1. \/ in.flawed = FALSE /\ in.header = GoodBearer
      \/ in.header \in BadBearers
      \/ in.body = FALSE
  BY DEF TurnRequests
<1>2. in.asked = now
  BY DEF TurnRequests
<1>3. in.header \notin BadBearers
  BY BadBearersRejected
<1>4. QED
  BY <1>1, <1>2, <1>3, GoodSubject

\* What a request for the proof route carries: a flawed one lacks its shape, its
\* validity or its freshness.
LEMMA ProofRequests ==
  ASSUME NEW in \in TurnRequests, in.route = "proof"
  PROVE  /\ in.asked = now /\ in.proof.coll \in Collections
         /\ in.proof.rev \in 0..revision[in.proof.coll]
         /\ in.flawed => \/ in.proof.form = FALSE \/ in.proof.valid = FALSE
                         \/ in.proof.ts = now + MaxSkew + 1
<1>1. in.asked = now
  BY DEF TurnRequests
<1>2. CASE in.flawed = FALSE /\ in.proof \in UNION {ProofsOf(x) : x \in Collections}
  <2>1. PICK x \in Collections : in.proof \in ProofsOf(x)
    BY <1>2
  <2>2. QED
    BY <1>1, <1>2, <2>1 DEF ProofsOf
<1>3. CASE in.proof \in UNION {{[p EXCEPT !.form = FALSE], [p EXCEPT !.valid = FALSE],
                                [p EXCEPT !.ts = now + MaxSkew + 1]}
                               : p \in UNION {ProofsOf(x) : x \in Collections}}
  <2>1. PICK p \in UNION {ProofsOf(x) : x \in Collections} :
          in.proof \in {[p EXCEPT !.form = FALSE], [p EXCEPT !.valid = FALSE],
                        [p EXCEPT !.ts = now + MaxSkew + 1]}
    BY <1>3
  <2>2. PICK x \in Collections : p \in ProofsOf(x)
    OBVIOUS
  <2>3. p \in [coll : {x}, rev : 0..revision[x], ts : {now}, form : {TRUE}, valid : {TRUE}]
    BY <2>2 DEF ProofsOf
  <2>4. QED
    BY <1>1, <2>1, <2>3
<1>4. QED
  BY <1>2, <1>3 DEF TurnRequests

\* A request to either route is refused, served at once, or suspended with its proof in
\* time: the snapshot that holds its root is young enough.
LEMMA TurnArrival ==
  ASSUME TurnInv, NEW c \in Conns, TurnArrive(c)
  PROVE  TurnInv'
<1>1. PICK in \in TurnRequests :
        /\ Arrive(c, in)
        /\ IssueArrives(c, in) \/ ProofArrives(c, in)
        /\ UNCHANGED <<turnConfig, lastGood, breaker, orphans, refresher, cache, revision, dropped>>
  BY DEF TurnArrive
<1>2. /\ TurnTyped /\ RootsTyped /\ now \in Nat /\ pc[c] = "idle"
      /\ UNCHANGED <<now, turnConfig, lastGood, refresher, cache, revision, dropped>>
  BY <1>1 DEF TurnInv, TurnTyped, Arrive
<1>3. ASSUME NEW what, Finish(c, what), NoCharge, NoGift PROVE TurnInv'
  <2>1. UNCHANGED <<now, turnConfig, lastGood, refresher, cache, revision, dropped, given, issued>>
    BY <1>2, <1>3 DEF NoGift
  <2>2. QED
    BY <1>3, <2>1, TurnEnds
<1>4. CASE IssueArrives(c, in)
  <2>0. in.route = "issue"
    BY <1>4 DEF IssueArrives
  <2>1. CASE AuthRejection(ServiceKeys, in.header) # None
    BY <1>3, <1>4, <2>1 DEF IssueArrives
  <2>2. CASE AuthRejection(ServiceKeys, in.header) = None /\ ~in.body
    BY <1>3, <1>4, <2>2 DEF IssueArrives
  <2>3. CASE AuthRejection(ServiceKeys, in.header) = None /\ in.body
    <3>1. ~in.flawed /\ in.asked = now /\ in.header.token.sub = Subject /\ Subject \in Keys
      BY <1>2, <2>0, <2>3, IssueRequests, GoodSubject
    <3>2. /\ Charge(Subject, Payment(Subject))
          /\ IF Payment(Subject) = None THEN Finish(c, "RateLimited") /\ NoGift
             ELSE StartIssue(c, in, Subject, Payment(Subject))
      BY <1>4, <2>3, <3>1 DEF IssueArrives
    <3>3. CASE Payment(Subject) = None
      <4>1. PICK paid : paid = Payment(Subject)
        OBVIOUS
      <4>2. quota' = quota /\ credits' = credits
        BY <1>2, <3>1, <3>2, <3>3, <4>1, ChargeTakes DEF TurnTyped
      <4>3. QED
        BY <1>3, <3>2, <3>3, <4>2 DEF NoCharge
    <3>4. CASE Payment(Subject) # None
      <4>1. InTime(in)
        BY <1>2, <2>0, <3>1 DEF InTime
      <4>2. QED
        BY <1>2, <3>1, <3>2, <3>4, <4>1, IssueStarts
    <3>5. QED
      BY <3>3, <3>4
  <2>4. QED
    BY <2>1, <2>2, <2>3
<1>5. CASE ProofArrives(c, in)
  <2> DEFINE p == in.proof
             x == in.proof.coll
  <2>0. in.route = "proof" /\ NoCharge /\ NoGift
    BY <1>5 DEF ProofArrives
  <2>1. CASE \E what : Finish(c, what)
    BY <1>3, <2>0, <2>1
  <2>2. CASE /\ p.form /\ ~Skewed(p.ts) /\ Snapshot(x) # None /\ p.rev \in Snapshot(x)
             /\ \E where \in {"verify", "permit"} : Suspend(c, in, where, None)
    <3>1. /\ in.asked = now /\ x \in Collections /\ p.rev \in 0..revision[x]
          /\ in.flawed => p.form = FALSE \/ p.valid = FALSE \/ p.ts = now + MaxSkew + 1
      BY <2>0, ProofRequests
    <3>2. cache[x] # None /\ now - cache[x].at <= MaxRootAge /\ p.rev \in cache[x].roots
      BY <2>2 DEF Snapshot
    <3>3. /\ Current(x) /\ cache[x].at \in Nat /\ p.rev \in Revisions
      <4>1. turnConfig.rotations \in Nat /\ revision[x] \in 0..(1 + turnConfig.rotations)
        BY <1>2, <3>1, TurnConstants DEF TurnTyped, RootsTyped, Revisions
      <4>2. p.rev \in Revisions
        BY <3>1, <4>1 DEF Revisions
      <4>3. Current(x)
        BY <3>1 DEF TurnInv
      <4>4. cache[x].at \in Nat
        BY <1>2, <3>1, <3>2 DEF RootsTyped
      <4>5. QED
        BY <4>2, <4>3, <4>4
    <3>4. dropped[x][p.rev] \in {None} \cup Nat
      BY <1>2, <3>1, <3>3 DEF RootsTyped
    <3>5. dropped[x][p.rev] # None => cache[x].at <= dropped[x][p.rev] + RefreshTime
      BY <3>2, <3>3 DEF Current
    <3>6. dropped[x][p.rev] # None => now <= dropped[x][p.rev] + MaxRootAge + RefreshTime
      BY <1>2, <3>2, <3>3, <3>4, <3>5, TurnConstants
    <3>7. InTime(in)
      BY <1>2, <3>1, <3>6 DEF InTime
    <3>8. in.flawed => ~p.valid
      <4>1. p.ts # now + MaxSkew + 1
        BY <1>2, <2>2, TurnConstants DEF Skewed
      <4>2. QED
        BY <2>2, <3>1, <4>1
    <3>9. PICK where, carried : where \in {"verify", "permit"} /\ Suspend(c, in, where, carried)
      BY <2>2
    <3>10. /\ UNCHANGED <<now, turnConfig, lastGood, refresher, cache, revision, dropped, given,
                          issued>>
           /\ where # "fetch" /\ Subject \in Keys
      BY <1>2, <2>0, <3>9, GoodSubject DEF NoGift
    <3>11. QED
      BY <1>2, <2>0, <3>7, <3>8, <3>9, <3>10, TurnWaits
  <2>3. QED
    BY <1>5, <2>1, <2>2 DEF ProofArrives
<1>6. QED
  BY <1>1, <1>4, <1>5

\* The wait for a slot, and the verification: an alias pays for a proof that holds.
LEMMA ProofGoes ==
  ASSUME TurnInv, NEW c \in Conns, PermitWait(c) \/ Verified(c)
  PROVE  TurnInv'
<1>1. /\ TurnTyped /\ RootsTyped /\ now \in Nat /\ pc[c] \in {"verify", "permit"} /\ Serves(c)
      /\ UNCHANGED <<now, turnConfig, lastGood, refresher, cache, revision, dropped>>
  BY DEF TurnInv, TurnTyped, PermitWait, Verified, Answered, turnVars
<1>2. ASSUME NEW what, Finish(c, what), NoCharge, NoGift PROVE TurnInv'
  <2>1. UNCHANGED <<now, turnConfig, lastGood, refresher, cache, revision, dropped, given, issued>>
    BY <1>1, <1>2 DEF NoGift
  <2>2. QED
    BY <1>2, <2>1, TurnEnds
<1>3. PICK in : in = req[c]
  OBVIOUS
<1>4. InTime(in) /\ (in.flawed => ~in.proof.valid)
  BY <1>1, <1>3 DEF Serves
<1>5. CASE PermitWait(c)
  <2>1. NoCharge /\ NoGift
    BY <1>5 DEF PermitWait, NoGift, turnVars
  <2>2. CASE Finish(c, "ProofBusy")
    BY <1>2, <2>1, <2>2
  <2>3. CASE Goto(c, "verify", None)
    <3>1. PICK where, carried : where = "verify" /\ Suspend(c, in, where, carried)
      BY <1>3, <2>3 DEF Goto
    <3>2. /\ UNCHANGED <<now, turnConfig, lastGood, refresher, cache, revision, dropped, given,
                         issued>>
          /\ where # "fetch" /\ Subject \in Keys /\ pc[c] # "fetch"
      BY <1>1, <2>1, <3>1, GoodSubject DEF NoGift
    <3>3. QED
      BY <1>4, <2>1, <3>1, <3>2, TurnWaits
  <2>4. QED
    BY <1>5, <2>2, <2>3 DEF PermitWait
<1>6. CASE Verified(c)
  <2>1. CASE ~req[c].proof.valid
    BY <1>2, <1>6, <2>1 DEF Verified
  <2>2. CASE req[c].proof.valid
    <3>1. /\ Charge(Alias, Payment(Alias))
          /\ IF Payment(Alias) = None THEN Finish(c, "RateLimited") /\ NoGift
             ELSE StartIssue(c, in, Alias, Payment(Alias))
          /\ Alias \in Keys
      BY <1>3, <1>6, <2>2, TurnConstants DEF Verified
    <3>2. CASE Payment(Alias) = None
      <4>1. PICK paid : paid = Payment(Alias)
        OBVIOUS
      <4>2. quota' = quota /\ credits' = credits
        BY <1>1, <3>1, <3>2, <4>1, ChargeTakes DEF TurnTyped
      <4>3. QED
        BY <1>2, <3>1, <3>2, <4>2 DEF NoCharge
    <3>3. CASE Payment(Alias) # None
      <4>1. ~in.flawed /\ pc[c] # "fetch"
        BY <1>1, <1>3, <1>4, <2>2
      <4>2. QED
        BY <1>1, <1>4, <3>1, <3>3, <4>1, IssueStarts
    <3>4. QED
      BY <3>2, <3>3
  <2>3. QED
    BY <2>1, <2>2
<1>7. QED
  BY <1>5, <1>6

\* Cloudflare's answer, or its failure and the cached credential.
LEMMA CloudflareAnswers ==
  ASSUME TurnInv, NEW c \in Conns,
         CloudflareIssues(c) \/ CloudflareRejects(c) \/ CloudflareFails(c)
  PROVE  TurnInv'
<1>1. /\ TurnTyped /\ now \in Nat /\ pc[c] = "fetch" /\ Serves(c)
      /\ UNCHANGED <<now, turnConfig, refresher, cache, revision, dropped>>
  BY DEF TurnInv, TurnTyped, CloudflareIssues, CloudflareRejects, CloudflareFails, Answered,
         Failed, turnVars
<1>2. PICK in, key, at : in = req[c] /\ key = loc[c].key /\ at = loc[c].at
  OBVIOUS
<1>3. /\ InTime(in) /\ ~in.flawed /\ key \in Keys /\ at \in 0..now /\ now - at <= RequestTimeout
  BY <1>1, <1>2 DEF Serves
<1>4. CASE CloudflareIssues(c)
  <2>1. PICK expiry \in GrantedExpiries(at) : /\ lastGood' = expiry
                                              /\ Give(c, in, key, "cloudflare", expiry, at)
    BY <1>2, <1>4 DEF CloudflareIssues
  <2>2. PICK ttl \in GrantedTtls : expiry = at + ttl
    BY DEF GrantedExpiries
  <2>3. ttl \in Nat
    BY TurnConstants
  <2>4. expiry \in Nat
    BY <1>3, <2>2, <2>3
  <2>5. NoCharge /\ lastGood' \in {None} \cup Nat
    BY <1>4, <2>1, <2>4 DEF CloudflareIssues
  <2>6. QED
    BY <1>1, <1>2, <1>3, <2>1, <2>4, <2>5, TurnGives
<1>5. ASSUME Refund(loc[c].key, loc[c].paid), NEW what, Finish(c, what),
             UNCHANGED <<lastGood, given, issued>>
      PROVE  TurnInv'
  <2>1. UNCHANGED <<now, turnConfig, lastGood, refresher, cache, revision, dropped, given, issued>>
    BY <1>1, <1>5
  <2>2. QED
    BY <1>1, <1>5, <2>1, TurnEnds
<1>6. CASE CloudflareRejects(c)
  BY <1>5, <1>6 DEF CloudflareRejects, turnVars
<1>7. CASE CloudflareFails(c)
  <2>1. CASE Cached(loc[c].at)
    <3>1. PICK expiry : expiry = lastGood
      OBVIOUS
    <3>2. Cached(at) /\ Give(c, in, key, "cache", expiry, at) /\ NoCharge /\ lastGood' = lastGood
      BY <1>2, <1>7, <2>1, <3>1 DEF CloudflareFails
    <3>3. /\ expiry \in Nat /\ Remaining(expiry, at) >= MinUseful
          /\ lastGood' \in {None} \cup Nat
      BY <1>1, <3>1, <3>2 DEF Cached, TurnTyped
    <3>4. QED
      BY <1>1, <1>2, <1>3, <3>2, <3>3, TurnGives
  <2>2. CASE ~Cached(loc[c].at)
    BY <1>5, <1>7, <2>2 DEF CloudflareFails, NoGift
  <2>3. QED
    BY <2>1, <2>2
<1>8. QED
  BY <1>4, <1>6, <1>7

\* A dropped handler forfeits its cell.
LEMMA TurnDrops ==
  ASSUME TurnInv, NEW c \in Conns, TurnDropped(c)
  PROVE  TurnInv'
<1>1. /\ Finish(c, "dropped") /\ NoCharge
      /\ UNCHANGED <<now, turnConfig, lastGood, refresher, cache, revision, dropped, given, issued>>
  BY DEF TurnDropped, Drop, Failed
<1>2. PICK what : Finish(c, what)
  BY <1>1
<1>3. QED
  BY <1>1, <1>2, TurnEnds

\* No step of a TURN process breaks the invariant.
LEMMA TurnStep == ASSUME TurnInv, role = "turn", [Next]_vars PROVE TurnInv'
<1>1. ASSUME UNCHANGED <<now, pc, req, loc, quota, credits, turnConfig, lastGood, refresher, cache,
                         revision, dropped, given, issued>>
      PROVE  TurnInv'
  BY <1>1 DEF TurnInv, TurnTyped, RootsTyped, Revisions, Current, Serves, Gave, InTime, Spent
<1>2. CASE OrphanEnds
  BY <1>1, <1>2 DEF OrphanEnds, servingVars
<1>3. CASE Quiet /\ UNCHANGED turnVars
  BY <1>1, <1>3 DEF Quiet, servingVars, turnVars
<1>4. CASE UNCHANGED vars
  BY <1>1, <1>4 DEF vars, servingVars, turnVars
<1>5. CASE TurnNext
  <2>1. ASSUME NEW x \in Collections,
               \/ RotateRoot(x) \/ RefresherConnects(x) \/ CheckGenesis(x) \/ BeginRefresh(x)
               \/ EndRefresh(x)
        PROVE  TurnInv'
    BY <2>1, RotationKeeps, RefreshersKeep
  <2>2. ASSUME NEW c \in Conns,
               \/ TurnArrive(c) \/ PermitWait(c) \/ Verified(c) \/ CloudflareIssues(c)
               \/ CloudflareRejects(c) \/ CloudflareFails(c) \/ TurnDropped(c)
        PROVE  TurnInv'
    BY <2>2, TurnArrival, ProofGoes, CloudflareAnswers, TurnDrops
  <2>3. QED
    BY <1>2, <1>5, <2>1, <2>2, TurnTickKeeps DEF TurnNext
<1>6. QED
  BY <1>3, <1>4, <1>5 DEF Next

\* A TURN process starts without credentials given and with its whole burst.
LEMMA TurnStarts == ASSUME Init, role = "turn" PROVE TurnInv
<1>1. TurnInit /\ ServingInit
  BY DEF Init
<1>2. MaxBurst \in Nat /\ GrantedTtls \subseteq Nat /\ turnConfig.rotations \in Nat
  BY <1>1, TurnConstants DEF TurnInit
<1>3. TurnTyped
  BY <1>1, <1>2 DEF TurnInit, ServingInit, TurnTyped, TurnPcs
<1>4. RootsTyped
  <2>1. 1 \in Revisions \ {0}
    BY <1>2 DEF Revisions
  <2>2. QED
    BY <1>1, <2>1 DEF TurnInit, RootsTyped, Revisions
<1>5. ASSUME NEW x \in Collections PROVE Current(x)
  <2>1. /\ cache[x] = None /\ refresher[x].pc # "read"
        /\ \A r \in Revisions : dropped[x][r] = None
    BY <1>1 DEF TurnInit, Revisions
  <2>2. QED
    BY <2>1 DEF Current
<1>6. ASSUME NEW c \in Conns PROVE Serves(c) /\ Gave(c)
  BY <1>1 DEF TurnInit, ServingInit, Serves, Gave
<1>7. ASSUME NEW k \in Keys PROVE Spent(k) <= MaxBurst + now - quota[k]
  <2>1. {c \in Conns : pc[c] = "fetch" /\ loc[c].key = k} = {}
    BY <1>1 DEF ServingInit
  <2>2. issued[k] = 0 /\ credits[k] = 0 /\ now = 0 /\ quota[k] = MaxBurst
    BY <1>1 DEF TurnInit, ServingInit
  <2>3. QED
    BY <1>2, <2>1, <2>2, FS_EmptySet DEF Spent
<1>8. QED
  BY <1>3, <1>4, <1>5, <1>6, <1>7 DEF TurnInv

\* The invariant of the TURN service.
LEMMA TurnHolds == Spec => [](role = "turn" => TurnInv)
<1>1. Init => (role = "turn" => TurnInv)
  BY TurnStarts
<1>2. (role = "turn" => TurnInv) /\ [Next]_vars => (role = "turn" => TurnInv)'
  BY TurnStep, RoleKept
<1>3. QED
  BY <1>1, <1>2, PTL DEF Spec

\* TURN credentials are live, paid for and authorized, for every deployment: none is
\* given on a flawed request, with a life overstated by more than the provider's timeout or,
\* but for one Cloudflare has just granted, with less than its useful life; no key is given more than its limiter granted,
\* whatever is refunded, cached or concurrent; and no proof is redeemed under a root
\* that left the chain longer ago than a snapshot may be old plus one refresh
\* (issue and issue_with_proof, Source::issue, the root cache and its refreshers).
THEOREM CredentialsAreEarned == Spec => []CredentialsEarned
<1>1. (role = "turn" => TurnInv) => CredentialsEarned
  <2> SUFFICES ASSUME role = "turn", TurnInv PROVE CredentialsEarned
    BY DEF CredentialsEarned
  <2>1. ASSUME NEW c \in Conns, given[c] # None
        PROVE  LET g == given[c] IN
               /\ ~g.in.flawed
               /\ g.source # "cloudflare" => g.ttl >= MinUseful
               /\ Remaining(g.expiry, g.at) + RequestTimeout >= g.ttl
               /\ g.in.route = "proof" =>
                    LET left == dropped[g.in.proof.coll][g.in.proof.rev] IN
                    left # None => g.in.asked <= left + MaxRootAge + RefreshTime
    BY <2>1 DEF TurnInv, Gave, InTime
  <2>2. \A k \in Keys : Spent(k) <= MaxBurst + now - quota[k]
    BY DEF TurnInv
  <2>3. QED
    BY <2>1, <2>2 DEF CredentialsEarned
<1>2. QED
  BY <1>1, TurnHolds, PTL

--------------------------------------------------------------------------------
(* Username search.                                                        *)

SearchTyped ==
  /\ now \in Nat /\ pc \in [Conns -> {"idle", "consume", "query"}]
  /\ DOMAIN req = Conns /\ DOMAIN loc = Conns
  /\ puzzles \in [Puzzles -> {None} \cup Nat] /\ spent \in [Puzzles -> {None} \cup Nat]
  /\ passed \in [Puzzles -> {0, 1}]
  /\ rank \in [Accounts -> {None} \cup 1..MaxRank]
  /\ \A a, b \in Accounts : a # b /\ rank[a] # None => rank[a] # rank[b]
  /\ walk \in [cursor : Nat, seen : [Accounts -> Nat], stable : SUBSET Accounts, done : BOOLEAN]

\* A puzzle that let a request through stays spent while an insert may still come.
OneShot(p) ==
  /\ spent[p] # None => puzzles[p] # None /\ spent[p] = puzzles[p] + Window
  /\ passed[p] = 1 => /\ puzzles[p] # None
                      /\ spent[p] # None \/ now > puzzles[p] + Window + PruneGrace

\* The request of handler c passed the offline checks not long ago.
Consuming(c) ==
  LET p == req[c].proof.p IN
  pc[c] = "consume" => /\ p \in Puzzles /\ puzzles[p] # None /\ req[c].clock \in Nat
                       /\ req[c].clock - puzzles[p] <= Window /\ now - req[c].clock <= Slack
                       /\ req[c].limit \in Nat \ {0}

\* One handler walks, and only until the walk ends.
Walker ==
  /\ \A c \in Conns : pc[c] # "idle" => loc[c].walking \in BOOLEAN
  /\ \A c \in Conns : pc[c] = "query" => loc[c].limit \in Nat \ {0}
  /\ \A c, d \in Walking : c = d
  /\ walk.done => Walking = {}

\* The walk has shown the listed rows up to its cursor, and all of them when it ends.
Shown(a) ==
  /\ a \notin Listed => walk.seen[a] = 0
  /\ a \in walk.stable =>
       /\ rank[a] # None
       /\ walk.seen[a] = IF a \in Listed /\ (walk.done \/ rank[a] <= walk.cursor) THEN 1 ELSE 0

SearchInv == /\ SearchTyped /\ Walker
             /\ \A p \in Puzzles : OneShot(p)
             /\ \A c \in Conns : Consuming(c)
             /\ \A a \in Accounts : Shown(a)

\* A nonempty set of natural numbers has a least one.
LEMMA LeastOf ==
  ASSUME NEW T, T \subseteq Nat, T # {}
  PROVE  \E x \in T : \A y \in T : x <= y
<1> DEFINE R == OpToRel(<, Nat)
<1>1. IsWellFoundedOn(R, Nat)
  BY NatLessThanWellFounded, Zenon
<1>2. \A x, y \in Nat : <<y, x>> \in R <=> y < x
  BY DEF OpToRel
<1> HIDE DEF R
<1>3. PICK x \in T : \A y \in T : ~(<<y, x>> \in R)
  BY <1>1, WFMin
<1>4. ASSUME NEW y \in T PROVE x <= y
  <2>1. x \in Nat /\ y \in Nat
    OBVIOUS
  <2>2. ~(y < x)
    BY <1>2, <1>3, <2>1, Zenon
  <2>3. QED
    BY <2>1, <2>2
<1>5. QED
  BY <1>4

\* Some row of a page comes last.
LEMMA LastExists ==
  ASSUME SearchTyped, NEW S, S \subseteq Accounts, S # {}, \A a \in S : rank[a] # None
  PROVE  LastOf(S) \in S /\ \A b \in S : rank[b] <= rank[LastOf(S)]
<1> DEFINE T == {MaxRank - rank[a] : a \in S}
<1>1. MaxRank \in Nat /\ \A a \in S : rank[a] \in 1..MaxRank
  BY SearchAssumption DEF SearchAssumption, SearchTyped
<1>2. T \subseteq Nat /\ T # {}
  BY <1>1
<1>3. PICK x \in T : \A y \in T : x <= y
  BY <1>2, LeastOf
<1>4. PICK a \in S : x = MaxRank - rank[a]
  OBVIOUS
<1>5. \A b \in S : rank[b] <= rank[a]
  <2> SUFFICES ASSUME NEW b \in S PROVE rank[b] <= rank[a]
    OBVIOUS
  <2>1. MaxRank - rank[a] <= MaxRank - rank[b]
    BY <1>3, <1>4
  <2>2. QED
    BY <1>1, <2>1
<1>6. QED
  BY <1>5 DEF LastOf

\* The rows after the cursor, and what one read of the page order returns of them.
After == {a \in Listed : rank[a] # None /\ rank[a] > walk.cursor}
Before(a) == {b \in After : rank[b] < rank[a]}
Rows(n) == Fetched(walk.cursor, n + 1)
More(n) == Cardinality(Rows(n)) > n
Page(n) == IF More(n) THEN Rows(n) \ {LastOf(Rows(n))} ELSE Rows(n)

\* A read returns the rows with at most n others before them.
LEMMA RowsRead ==
  ASSUME SearchTyped, NEW n \in Nat
  PROVE  /\ Rows(n) = {a \in After : Cardinality(Before(a)) < n + 1}
         /\ After \subseteq Accounts /\ IsFiniteSet(After) /\ IsFiniteSet(Rows(n))
         /\ Cardinality(Rows(n)) \in Nat
         /\ \A a \in After : /\ rank[a] \in Nat /\ rank[a] > walk.cursor
                             /\ IsFiniteSet(Before(a)) /\ Cardinality(Before(a)) \in Nat
<1>1. Rows(n) = {a \in After : Cardinality(Before(a)) < n + 1}
  BY DEF Rows, Fetched, After, Before
<1>2. After \subseteq Accounts /\ IsFiniteSet(Accounts)
  BY SearchAssumption DEF SearchAssumption, After
<1>3. Rows(n) \subseteq After /\ \A a \in After : Before(a) \subseteq After
  BY <1>1 DEF Before
<1>4. IsFiniteSet(After)
  BY <1>2, FS_Subset
<1>5. IsFiniteSet(Rows(n)) /\ \A a \in After : IsFiniteSet(Before(a))
  BY <1>3, <1>4, FS_Subset
<1>6. \A a \in After : rank[a] \in Nat /\ rank[a] > walk.cursor
  BY <1>2 DEF After, SearchTyped
<1>7. QED
  BY <1>1, <1>2, <1>4, <1>5, <1>6, FS_CardinalityType

\* A page is cut nowhere but at its end: the last page is all there is, and any other
\* one is all there is up to its last row.
LEMMA PageIsWhole ==
  ASSUME SearchTyped, NEW n \in Nat \ {0}
  PROVE  /\ Page(n) \subseteq After
         /\ ~More(n) => Page(n) = After
         /\ More(n) =>
              /\ LastOf(Page(n)) \in Page(n)
              /\ \A a \in After : a \in Page(n) <=> rank[a] <= rank[LastOf(Page(n))]
<1> DEFINE R == Rows(n)
<1>0. /\ R = {a \in After : Cardinality(Before(a)) < n + 1}
      /\ After \subseteq Accounts /\ IsFiniteSet(After) /\ IsFiniteSet(R)
      /\ Cardinality(R) \in Nat
      /\ \A a \in After : /\ rank[a] \in Nat /\ rank[a] > walk.cursor
                          /\ IsFiniteSet(Before(a)) /\ Cardinality(Before(a)) \in Nat
  BY RowsRead
<1> HIDE DEF R
<1>1. R \subseteq After /\ Page(n) \subseteq R
  BY <1>0 DEF Page, R
<1>2. ASSUME NEW a \in After, NEW b \in R, rank[a] <= rank[b] PROVE a \in R
  <2>1. b \in After /\ Cardinality(Before(b)) < n + 1
    BY <1>0
  <2>2. Before(a) \subseteq Before(b)
    <3> SUFFICES ASSUME NEW d \in After, rank[d] < rank[a] PROVE rank[d] < rank[b]
      BY DEF Before
    <3>1. rank[d] \in Nat /\ rank[a] \in Nat /\ rank[b] \in Nat
      BY <1>0, <2>1
    <3>2. QED
      BY <1>2, <3>1
  <2>3. Cardinality(Before(a)) <= Cardinality(Before(b))
    BY <1>0, <2>1, <2>2, FS_Subset
  <2>4. Cardinality(Before(a)) \in Nat /\ Cardinality(Before(b)) \in Nat
    BY <1>0, <2>1
  <2>5. Cardinality(Before(a)) < n + 1
    BY <2>1, <2>3, <2>4
  <2>6. QED
    BY <1>0, <2>5
<1>3. ASSUME ~More(n) PROVE Page(n) = After
  <2>1. Page(n) = R /\ Cardinality(R) <= n
    BY <1>0, <1>3 DEF Page, More, R
  <2>2. SUFFICES ASSUME After \ R # {} PROVE FALSE
    BY <1>1, <2>1
  <2>3. {rank[a] : a \in After \ R} \subseteq Nat /\ {rank[a] : a \in After \ R} # {}
    BY <1>0, <2>2
  <2>4. PICK x \in {rank[a] : a \in After \ R} : \A y \in {rank[a] : a \in After \ R} : x <= y
    BY <2>3, LeastOf
  <2>5. PICK a \in After \ R : x = rank[a]
    OBVIOUS
  <2>6. Before(a) \subseteq R
    <3> SUFFICES ASSUME NEW b \in Before(a), b \notin R PROVE FALSE
      OBVIOUS
    <3>1. b \in After \ R /\ rank[b] < rank[a]
      BY DEF Before
    <3>2. rank[a] <= rank[b]
      BY <2>4, <2>5, <3>1
    <3>3. QED
      BY <1>0, <3>1, <3>2
  <2>7. Cardinality(Before(a)) <= Cardinality(R)
    BY <1>0, <2>6, FS_Subset
  <2>8. Cardinality(Before(a)) \in Nat /\ ~(Cardinality(Before(a)) < n + 1)
    BY <1>0, <2>5
  <2>9. QED
    BY <1>0, <2>1, <2>7, <2>8
<1>4. ASSUME More(n)
      PROVE  /\ LastOf(Page(n)) \in Page(n)
             /\ \A a \in After : a \in Page(n) <=> rank[a] <= rank[LastOf(Page(n))]
  <2> DEFINE m == LastOf(R)
             z == LastOf(Page(n))
  <2>1. Page(n) = R \ {m} /\ Cardinality(R) > n
    BY <1>4 DEF Page, More, R
  <2>2. \A a \in R : a \in Accounts /\ rank[a] # None
    BY <1>0, <1>1 DEF After
  <2>3. R # {}
    BY <2>1, FS_EmptySet
  <2>4. m \in R /\ \A b \in R : rank[b] <= rank[m]
    BY <2>2, <2>3, LastExists
  <2>5. Page(n) # {}
    <3>1. SUFFICES ASSUME R = {m} PROVE FALSE
      BY <2>1, <2>4
    <3>2. Cardinality(R) = 1
      BY <3>1, FS_Singleton
    <3>3. QED
      BY <2>1, <3>2
  <2>6. z \in Page(n) /\ \A b \in Page(n) : rank[b] <= rank[z]
    <3>1. Page(n) \subseteq Accounts /\ \A a \in Page(n) : rank[a] # None
      BY <1>1, <2>2
    <3>2. QED
      BY <2>5, <3>1, LastExists
  <2>7. ASSUME NEW a \in After, rank[a] <= rank[z] PROVE a \in Page(n)
    <3>1. z \in R /\ z # m
      BY <2>1, <2>6
    <3>2. a \in R
      BY <1>2, <2>7, <3>1
    <3>3. a # m
      <4> SUFFICES ASSUME a = m PROVE FALSE
        OBVIOUS
      <4>1. rank[z] <= rank[m] /\ rank[m] <= rank[z]
        BY <2>4, <2>7, <3>1
      <4>2. rank[z] \in Nat /\ rank[m] \in Nat
        BY <1>0, <1>1, <2>4, <3>1
      <4>3. rank[z] # rank[m]
        BY <2>2, <2>4, <3>1 DEF SearchTyped
      <4>4. QED
        BY <4>1, <4>2, <4>3
    <3>4. QED
      BY <2>1, <3>2, <3>3
  <2>8. QED
    BY <2>6, <2>7
<1>5. QED
  BY <1>1, <1>3, <1>4

\* One handler moves, by a step that leaves the walk alone.
LEMMA SearchMoves ==
  ASSUME SearchInv, NEW c \in Conns, NEW in, NEW where \in {"idle", "consume", "query"}, NEW carried,
         pc' = [pc EXCEPT ![c] = where], req' = [req EXCEPT ![c] = in],
         loc' = [loc EXCEPT ![c] = carried], UNCHANGED <<now, rank, walk>>,
         where # "idle" => /\ carried.walking \in BOOLEAN
                           /\ carried.walking => c \in Walking \/ (Walking = {} /\ ~walk.done),
         where = "query" => carried.limit \in Nat \ {0},
         Consuming(c)',
         puzzles' \in [Puzzles -> {None} \cup Nat],
         \A p \in Puzzles : puzzles[p] # None => puzzles'[p] = puzzles[p],
         spent' \in [Puzzles -> {None} \cup Nat], passed' \in [Puzzles -> {0, 1}],
         \A p \in Puzzles : OneShot(p)'
  PROVE  SearchInv'
<1>0. /\ SearchTyped /\ Walker /\ (\A d \in Conns : Consuming(d)) /\ \A a \in Accounts : Shown(a)
  BY DEF SearchInv
<1>1. SearchTyped'
  BY <1>0 DEF SearchTyped
<1>2. \A a \in Accounts : Shown(a)'
  BY <1>0 DEF Shown
<1>3. /\ pc'[c] = where /\ loc'[c] = carried
      /\ \A d \in Conns \ {c} : pc'[d] = pc[d] /\ req'[d] = req[d] /\ loc'[d] = loc[d]
  BY <1>0 DEF SearchTyped
<1>4. ASSUME NEW d \in Conns PROVE Consuming(d)'
  <2>1. CASE d = c
    BY <2>1
  <2>2. CASE d # c
    BY <1>0, <1>3, <2>2 DEF Consuming
  <2>3. QED
    BY <2>1, <2>2
<1>5. Walker'
  <2>1. /\ Walking' \subseteq Walking \cup {c}
        /\ c \in Walking' => c \in Walking \/ (Walking = {} /\ ~walk.done)
    <3>1. Walking' \subseteq Walking \cup {c}
      BY <1>3 DEF Walking
    <3>2. c \in Walking' => where # "idle" /\ carried.walking
      BY <1>3 DEF Walking
    <3>3. QED
      BY <3>1, <3>2
  <2>2. (\A d, e \in Walking : d = e) /\ (walk.done => Walking = {})
    BY <1>0 DEF Walker
  <2>3. (\A d, e \in Walking' : d = e) /\ (walk.done => Walking' = {})
    BY <2>1, <2>2, Zenon
  <2>4. /\ \A d \in Conns : pc'[d] # "idle" => loc'[d].walking \in BOOLEAN
        /\ \A d \in Conns : pc'[d] = "query" => loc'[d].limit \in Nat \ {0}
    BY <1>0, <1>3 DEF Walker
  <2>5. QED
    BY <2>3, <2>4 DEF Walker
<1>6. QED
  BY <1>1, <1>2, <1>4, <1>5 DEF SearchInv

\* A handler that ends spends at most the puzzle it was consuming.
LEMMA SearchEnds ==
  ASSUME SearchInv, NEW c \in Conns, NEW what, Finish(c, what),
         UNCHANGED <<now, puzzles, passed, rank, walk>>,
         \/ spent' = spent
         \/ /\ pc[c] = "consume"
            /\ spent' = [spent EXCEPT ![req[c].proof.p] = puzzles[req[c].proof.p] + Window]
  PROVE  SearchInv'
<1> DEFINE q == req[c].proof.p
<1>0. /\ SearchTyped /\ Consuming(c) /\ (\A p \in Puzzles : OneShot(p)) /\ Window \in Nat
      /\ None \notin Int
  BY SearchAssumption, ServingAssumption DEF SearchInv, SearchAssumption, ServingAssumption
<1>1. PICK in, carried, where :
        /\ where = "idle" /\ pc' = [pc EXCEPT ![c] = where] /\ req' = [req EXCEPT ![c] = in]
        /\ loc' = [loc EXCEPT ![c] = carried]
  BY DEF Finish
<1>2. Consuming(c)'
  BY <1>0, <1>1 DEF Consuming, SearchTyped
<1>3. spent' \in [Puzzles -> {None} \cup Nat] /\ \A p \in Puzzles : OneShot(p)'
  <2>1. CASE spent' = spent
    BY <1>0, <2>1 DEF SearchTyped, OneShot
  <2>2. CASE /\ pc[c] = "consume"
             /\ spent' = [spent EXCEPT ![req[c].proof.p] = puzzles[req[c].proof.p] + Window]
    <3>1. q \in Puzzles /\ puzzles[q] \in Nat /\ puzzles[q] + Window \in Nat
      BY <1>0, <2>2 DEF Consuming, SearchTyped
    <3>2. /\ spent'[q] = puzzles[q] + Window /\ spent'[q] # None
          /\ \A p \in Puzzles \ {q} : spent'[p] = spent[p]
      BY <1>0, <2>2, <3>1 DEF SearchTyped
    <3>3. QED
      BY <1>0, <2>2, <3>1, <3>2 DEF OneShot, SearchTyped
  <2>3. QED
    BY <2>1, <2>2
<1>4. /\ puzzles' \in [Puzzles -> {None} \cup Nat] /\ passed' \in [Puzzles -> {0, 1}]
      /\ \A p \in Puzzles : puzzles[p] # None => puzzles'[p] = puzzles[p]
  BY <1>0 DEF SearchTyped
<1>5. QED
  BY <1>1, <1>2, <1>3, <1>4, SearchMoves

\* A handler past the gate reads its page, or its query is refused.
LEMMA GatePassed ==
  ASSUME SearchInv, NEW c \in Conns, NEW in, NEW walking \in BOOLEAN, AfterGate(c, in, walking),
         in.limit \in Nat \ {0}, UNCHANGED <<now, puzzles, rank, walk>>,
         walking => c \in Walking \/ (Walking = {} /\ ~walk.done),
         spent' \in [Puzzles -> {None} \cup Nat], passed' \in [Puzzles -> {0, 1}],
         \A p \in Puzzles : OneShot(p)'
  PROVE  SearchInv'
<1>0. SearchTyped /\ MaxLimit \in Nat \ {0}
  BY SearchAssumption DEF SearchInv, SearchAssumption
<1>1. PICK r, carried, where :
        /\ where \in {"idle", "query"} /\ pc' = [pc EXCEPT ![c] = where]
        /\ req' = [req EXCEPT ![c] = r] /\ loc' = [loc EXCEPT ![c] = carried]
        /\ where = "query" =>
             carried = [walking |-> walking,
                        limit |-> IF in.limit > MaxLimit THEN MaxLimit ELSE in.limit]
  <2> DEFINE l == [walking |-> walking,
                   limit |-> IF in.limit > MaxLimit THEN MaxLimit ELSE in.limit]
  <2> HIDE DEF l
  <2>1. CASE Finish(c, "BadRequest")
    <3>1. /\ pc' = [pc EXCEPT ![c] = "idle"] /\ req' = [req EXCEPT ![c] = None]
          /\ loc' = [loc EXCEPT ![c] = None]
      BY <2>1 DEF Finish
    <3>2. WITNESS None, None, "idle"
    <3>3. QED
      BY <3>1
  <2>2. CASE Suspend(c, in, "query", l)
    <3>1. /\ pc' = [pc EXCEPT ![c] = "query"] /\ req' = [req EXCEPT ![c] = in]
          /\ loc' = [loc EXCEPT ![c] = l]
      BY <2>2 DEF Suspend
    <3>2. QED
      BY <3>1 DEF l
  <2>3. QED
    BY <2>1, <2>2 DEF AfterGate, l
<1>2. Consuming(c)'
  BY <1>0, <1>1 DEF Consuming, SearchTyped
<1>3. where # "idle" => carried.walking = walking /\ carried.limit \in Nat \ {0}
  BY <1>0, <1>1
<1>4. /\ puzzles' \in [Puzzles -> {None} \cup Nat]
      /\ \A p \in Puzzles : puzzles[p] # None => puzzles'[p] = puzzles[p]
  BY <1>0 DEF SearchTyped
<1>5. where # "idle" => /\ carried.walking \in BOOLEAN
                        /\ carried.walking => c \in Walking \/ (Walking = {} /\ ~walk.done)
  BY <1>3
<1>6. where \in {"idle", "consume", "query"} /\ (where = "query" => carried.limit \in Nat \ {0})
  BY <1>1, <1>3
<1>7. QED
  BY <1>1, <1>2, <1>4, <1>5, <1>6, SearchMoves

\* What a search request carries: a page size, a clock that lags by the slack at most,
\* and a solution of an issued puzzle unless it has none.
LEMMA SearchShape ==
  ASSUME SearchTyped, NEW in \in SearchRequests, in.op = "search"
  PROVE  /\ in.limit \in Nat \ {0} /\ in.clock \in Nat /\ now - in.clock <= Slack
         /\ in.proof.form \in {"absent", "malformed", "ok"}
         /\ in.proof.form = "ok" => in.proof.p \in Puzzles /\ puzzles[in.proof.p] # None
<1>1. now \in Nat /\ MaxLimit \in Nat /\ Slack \in Nat
  BY SearchAssumption DEF SearchTyped, SearchAssumption
<1>2. in.limit \in {1, MaxLimit + 1}
  BY DEF SearchRequests
<1>3. in.clock \in Nat /\ now - in.clock <= Slack
  <2>1. in.clock = now \/ in.clock \in Clocks
    BY DEF SearchRequests
  <2>2. QED
    BY <1>1, <2>1 DEF Clocks
<1>4. ASSUME NEW s \in Solved
      PROVE  /\ s.form = "ok" /\ s.p \in Puzzles /\ puzzles[s.p] # None
             /\ [s EXCEPT !.sealed = FALSE].form = "ok" /\ [s EXCEPT !.sealed = FALSE].p = s.p
             /\ [s EXCEPT !.work = FALSE].form = "ok" /\ [s EXCEPT !.work = FALSE].p = s.p
  <2>1. PICK q \in Puzzles : puzzles[q] # None /\ s = [NoSolution EXCEPT !.form = "ok", !.p = q]
    BY Zenon DEF Solved
  <2>2. s = [form |-> "ok", p |-> q, sealed |-> TRUE, work |-> TRUE]
    BY <2>1 DEF NoSolution
  <2>3. QED
    BY <2>1, <2>2
<1>5. \/ in.proof \in {NoSolution, [NoSolution EXCEPT !.form = "malformed"]}
      \/ in.proof \in Solved
      \/ \E s \in Solved : in.proof \in {[s EXCEPT !.sealed = FALSE], [s EXCEPT !.work = FALSE]}
  <2> DEFINE U == UNION {{[s EXCEPT !.sealed = FALSE], [s EXCEPT !.work = FALSE]} : s \in Solved}
  <2>1. \A e \in U : \E s \in Solved : e \in {[s EXCEPT !.sealed = FALSE], [s EXCEPT !.work = FALSE]}
    BY Zenon
  <2>2. \/ in.proof = NoSolution \/ in.proof \in Solved
        \/ in.proof \in {NoSolution, [NoSolution EXCEPT !.form = "malformed"]} \cup U
    <3> HIDE DEF U
    <3>1. SearchRequests \subseteq
                [flawed : {FALSE}, op : {"issue"}]
           \cup [flawed : {FALSE}, op : {"search"}, header : {GoodBearer}, proof : {NoSolution},
                 clock : {now}, query : {Fine}, limit : {1, MaxLimit + 1}]
           \cup [flawed : {FALSE}, op : {"search"}, header : {Absent}, proof : Solved,
                 clock : Clocks, query : {Fine}, limit : {1}]
           \cup [flawed : {TRUE}, op : {"search"}, header : BadBearers,
                 proof : {NoSolution, [NoSolution EXCEPT !.form = "malformed"]} \cup U,
                 clock : {now}, query : {Fine}, limit : {1}]
           \cup [flawed : {TRUE}, op : {"search"}, header : {Absent}, proof : Solved,
                 clock : {now},
                 query : {[Fine EXCEPT !.cursor = FALSE], [Fine EXCEPT !.fields = FALSE]},
                 limit : {1}]
      BY Zenon DEF SearchRequests, U
    <3>2. QED
      BY <3>1
  <2>3. QED
    BY <2>1, <2>2, Zenon
<1>6. CASE in.proof \in {NoSolution, [NoSolution EXCEPT !.form = "malformed"]}
  <2>1. in.proof.form \in {"absent", "malformed"}
    BY <1>6 DEF NoSolution
  <2>2. QED
    BY <1>1, <1>2, <1>3, <2>1
<1>7. CASE ~(in.proof \in {NoSolution, [NoSolution EXCEPT !.form = "malformed"]})
  <2>1. in.proof.form = "ok" /\ in.proof.p \in Puzzles /\ puzzles[in.proof.p] # None
    <3>1. PICK s \in Solved :
            in.proof \in {s, [s EXCEPT !.sealed = FALSE], [s EXCEPT !.work = FALSE]}
      BY <1>5, <1>7
    <3>2. /\ s.form = "ok" /\ s.p \in Puzzles /\ puzzles[s.p] # None
          /\ [s EXCEPT !.sealed = FALSE].form = "ok" /\ [s EXCEPT !.sealed = FALSE].p = s.p
          /\ [s EXCEPT !.work = FALSE].form = "ok" /\ [s EXCEPT !.work = FALSE].p = s.p
      BY <1>4, Zenon
    <3>3. in.proof.form = "ok" /\ in.proof.p = s.p
      BY <3>1, <3>2, Zenon
    <3>4. QED
      BY <3>2, <3>3
  <2>2. QED
    BY <1>1, <1>2, <1>3, <2>1
<1>8. QED
  BY <1>6, <1>7

\* verify_offline passes a solution within its window only.
LEMMA NotRefused ==
  ASSUME NEW proof, NEW clock \in Nat, Refusal(proof, clock) = None,
         proof.form \in {"absent", "malformed", "ok"},
         proof.form = "ok" => puzzles[proof.p] \in Nat
  PROVE  proof.form = "ok" /\ clock - puzzles[proof.p] <= Window
<1>1. /\ None \notin {"Missing", "Malformed", "Checksum", "Expired", "InsufficientWork"}
      /\ Window \in Nat
  BY SearchAssumption DEF SearchAssumption
<1>2. CASE proof.form = "absent"
  BY <1>1, <1>2 DEF Refusal
<1>3. CASE proof.form = "malformed"
  BY <1>1, <1>3 DEF Refusal
<1>4. CASE proof.form = "ok"
  <2>1. Refusal(proof, clock) =
          IF ~proof.sealed THEN "Checksum"
          ELSE IF clock - puzzles[proof.p] > Window THEN "Expired"
          ELSE IF ~proof.work THEN "InsufficientWork" ELSE None
    BY <1>4 DEF Refusal
  <2>2. ~(clock - puzzles[proof.p] > Window)
    BY <1>1, <2>1
  <2>3. QED
    BY <1>1, <1>4, <2>2
<1>5. QED
  BY <1>2, <1>3, <1>4

\* A puzzle is issued, or a search is refused, passes the gate or goes to spend its puzzle.
LEMMA SearchArrival ==
  ASSUME SearchInv, NEW c \in Conns, SearchArrive(c)
  PROVE  SearchInv'
<1>1. PICK in \in SearchRequests : /\ Arrive(c, in)
                                   /\ IssuePuzzle(c, in) \/ SearchArrives(c, in)
                                   /\ UNCHANGED <<gate, spent, passed, rank, changes, walk>>
  BY DEF SearchArrive
<1>2. /\ SearchTyped /\ (\A p \in Puzzles : OneShot(p)) /\ now \in Nat /\ pc[c] = "idle"
      /\ UNCHANGED <<now, spent, passed, rank, walk>> /\ None \notin Int
  BY <1>1, ServingAssumption DEF SearchInv, SearchTyped, Arrive, ServingAssumption
<1>3. /\ spent' \in [Puzzles -> {None} \cup Nat] /\ passed' \in [Puzzles -> {0, 1}]
  BY <1>2 DEF SearchTyped
<1>4. CASE IssuePuzzle(c, in)
  <2> DEFINE q == CHOOSE p \in Puzzles : puzzles[p] = None
  <2>1. q \in Puzzles /\ puzzles[q] = None
    BY <1>4 DEF IssuePuzzle
  <2>2. /\ puzzles' = puzzles \/ puzzles' = [puzzles EXCEPT ![q] = now]
        /\ \E what : Finish(c, what)
    BY <1>4 DEF IssuePuzzle
  <2> HIDE DEF q
  <2>3. /\ puzzles' \in [Puzzles -> {None} \cup Nat]
        /\ \A p \in Puzzles : puzzles[p] # None => puzzles'[p] = puzzles[p]
    BY <1>2, <2>1, <2>2 DEF SearchTyped
  <2>4. ASSUME NEW p \in Puzzles PROVE OneShot(p)'
    BY <1>2, <2>3 DEF OneShot
  <2>5. PICK r, carried, where :
          /\ where = "idle" /\ pc' = [pc EXCEPT ![c] = where] /\ req' = [req EXCEPT ![c] = r]
          /\ loc' = [loc EXCEPT ![c] = carried]
    BY <2>2 DEF Finish
  <2>6. Consuming(c)'
    BY <1>2, <2>5 DEF Consuming, SearchTyped
  <2>7. QED
    BY <1>2, <1>3, <2>3, <2>4, <2>5, <2>6, SearchMoves
<1>5. CASE SearchArrives(c, in)
  <2>0. /\ in.op = "search" /\ puzzles' = puzzles
        /\ \A p \in Puzzles : OneShot(p)'
    BY <1>2, <1>5 DEF SearchArrives, OneShot
  <2>1. /\ in.limit \in Nat \ {0} /\ in.clock \in Nat /\ now - in.clock <= Slack
        /\ in.proof.form \in {"absent", "malformed", "ok"}
        /\ in.proof.form = "ok" => in.proof.p \in Puzzles /\ puzzles[in.proof.p] # None
    BY <1>2, <2>0, SearchShape
  <2>2. PICK walking \in BOOLEAN : walking = (Walking = {} /\ ~walk.done)
    BY Zenon
  <2>3. walking => Walking = {} /\ ~walk.done
    BY <2>2
  <2>4. CASE \E what : Finish(c, what)
    BY <1>2, <2>0, <2>4, SearchEnds
  <2>5. CASE AfterGate(c, in, walking)
    BY <1>2, <1>3, <2>0, <2>1, <2>3, <2>5, GatePassed
  <2>6. CASE /\ Refusal(in.proof, in.clock) = None
             /\ Suspend(c, in, "consume", [walking |-> walking, limit |-> 0])
    <3>1. in.proof.form = "ok" => puzzles[in.proof.p] \in Nat
      BY <1>2, <2>1 DEF SearchTyped
    <3>2. PICK proof, clock : proof = in.proof /\ clock = in.clock
      OBVIOUS
    <3>3. Refusal(proof, clock) = None
      BY <2>6, <3>2
    <3>4. in.proof.form = "ok" /\ in.clock - puzzles[in.proof.p] <= Window
      BY <2>1, <3>1, <3>2, <3>3, NotRefused
    <3>5. PICK carried, where :
            /\ where = "consume" /\ carried = [walking |-> walking, limit |-> 0]
            /\ pc' = [pc EXCEPT ![c] = where] /\ req' = [req EXCEPT ![c] = in]
            /\ loc' = [loc EXCEPT ![c] = carried]
      BY <2>6 DEF Suspend
    <3>6. Consuming(c)'
      <4>1. req'[c] = in
        BY <1>2, <3>5 DEF SearchTyped
      <4>2. QED
        BY <1>2, <2>0, <2>1, <3>4, <4>1 DEF Consuming
    <3>7. carried.walking = walking
      BY <3>5
    <3>8. /\ where # "idle" => /\ carried.walking \in BOOLEAN
                               /\ carried.walking => c \in Walking \/ (Walking = {} /\ ~walk.done)
          /\ where \in {"idle", "consume", "query"} /\ where # "query"
      BY <2>3, <3>5, <3>7
    <3>9. /\ puzzles' \in [Puzzles -> {None} \cup Nat]
          /\ \A p \in Puzzles : puzzles[p] # None => puzzles'[p] = puzzles[p]
      BY <1>2, <2>0 DEF SearchTyped
    <3>10. QED
      BY <1>2, <1>3, <2>0, <3>5, <3>6, <3>8, <3>9, SearchMoves
  <2>7. QED
    BY <1>5, <2>2, <2>4, <2>5, <2>6 DEF SearchArrives
<1>6. QED
  BY <1>1, <1>4, <1>5

\* The insert lets one request through: a puzzle whose row was pruned is past its window
\* for every clock that may still be used.
LEMMA ConsumeOnce ==
  ASSUME SearchInv, NEW c \in Conns, Consume(c)
  PROVE  SearchInv'
<1> DEFINE q == req[c].proof.p
           taken == [spent EXCEPT ![q] = puzzles[q] + Window]
<1>0. /\ SearchTyped /\ Walker /\ Consuming(c) /\ (\A p \in Puzzles : OneShot(p))
      /\ Window \in Nat /\ Slack \in Nat /\ PruneGrace \in Nat /\ Slack <= PruneGrace
      /\ None \notin Int /\ now \in Nat
  BY SearchAssumption, ServingAssumption
     DEF SearchInv, SearchTyped, SearchAssumption, ServingAssumption
<1>1. /\ pc[c] = "consume" /\ UNCHANGED <<now, puzzles, rank, walk>>
  BY DEF Consume, Answered, Failed
<1>2. /\ q \in Puzzles /\ puzzles[q] \in Nat /\ req[c].clock \in Nat /\ req[c].limit \in Nat \ {0}
      /\ req[c].clock - puzzles[q] <= Window /\ now - req[c].clock <= Slack
  BY <1>0, <1>1 DEF Consuming, SearchTyped
<1>3. CASE /\ spent[q] = None /\ spent' = taken /\ passed' = [passed EXCEPT ![q] = @ + 1]
           /\ AfterGate(c, req[c], loc[c].walking)
  <2>1. passed[q] = 0
    <3>1. passed[q] \in {0, 1}
      BY <1>0, <1>2 DEF SearchTyped
    <3>2. ~(now > puzzles[q] + Window + PruneGrace)
      BY <1>0, <1>2
    <3>3. passed[q] # 1
      BY <1>0, <1>2, <1>3, <3>2 DEF OneShot
    <3>4. QED
      BY <3>1, <3>3
  <2>2. /\ spent' \in [Puzzles -> {None} \cup Nat] /\ passed' \in [Puzzles -> {0, 1}]
        /\ spent'[q] = puzzles[q] + Window /\ spent'[q] # None
        /\ \A p \in Puzzles \ {q} : spent'[p] = spent[p] /\ passed'[p] = passed[p]
    BY <1>0, <1>2, <1>3, <2>1 DEF SearchTyped
  <2>3. \A p \in Puzzles : OneShot(p)'
    BY <1>0, <1>1, <1>2, <2>2 DEF OneShot
  <2>4. PICK in, walking : in = req[c] /\ walking = loc[c].walking
    OBVIOUS
  <2>5. walking \in BOOLEAN
    BY <1>0, <1>1, <2>4 DEF Walker
  <2>6. walking => c \in Walking
    BY <1>1, <2>4 DEF Walking
  <2>7. AfterGate(c, in, walking) /\ in.limit \in Nat \ {0}
    BY <1>2, <1>3, <2>4
  <2>8. QED
    BY <1>1, <2>2, <2>3, <2>5, <2>6, <2>7, GatePassed
<1>4. CASE spent' \in {spent, taken} /\ passed' = passed /\ \E what : Finish(c, what)
  BY <1>1, <1>4, SearchEnds
<1>5. QED
  BY <1>3, <1>4 DEF Consume

\* A page shows what its walk has not shown yet, and moves the cursor past it.
LEMMA PageShown ==
  ASSUME SearchInv, NEW c \in Conns, SearchPage(c)
  PROVE  SearchInv'
<1> DEFINE n == loc[c].limit
<1>0. /\ SearchTyped /\ Walker /\ (\A p \in Puzzles : OneShot(p)) /\ (\A d \in Conns : Consuming(d))
      /\ \A a \in Accounts : Shown(a)
  BY DEF SearchInv
<1>1. /\ pc[c] = "query" /\ UNCHANGED <<now, puzzles, spent, passed, rank>>
      /\ \E what : Finish(c, what)
  BY DEF SearchPage, Answered, Failed
<1>2. CASE walk' = walk
  BY <1>1, <1>2, SearchEnds
<1>3. CASE /\ loc[c].walking
           /\ walk' = [walk EXCEPT !.seen = [a \in Accounts |-> @[a] + IF a \in Page(n) THEN 1 ELSE 0],
                                   !.cursor = IF More(n) THEN rank[LastOf(Page(n))] ELSE @,
                                   !.done = ~More(n)]
  <2>1. n \in Nat \ {0} /\ c \in Walking
    BY <1>0, <1>1, <1>3 DEF Walker, Walking
  <2>2. Walking = {c} /\ ~walk.done
    BY <1>0, <2>1 DEF Walker
  <2>3. /\ Page(n) \subseteq After
        /\ ~More(n) => Page(n) = After
        /\ More(n) => /\ LastOf(Page(n)) \in Page(n)
                      /\ \A a \in After : a \in Page(n) <=> rank[a] <= rank[LastOf(Page(n))]
    BY <1>0, <2>1, PageIsWhole
  <2>4. walk \in [cursor : Nat, seen : [Accounts -> Nat], stable : SUBSET Accounts, done : BOOLEAN]
    BY <1>0 DEF SearchTyped
  <2>5. /\ walk'.seen = [a \in Accounts |-> walk.seen[a] + IF a \in Page(n) THEN 1 ELSE 0]
        /\ walk'.cursor = IF More(n) THEN rank[LastOf(Page(n))] ELSE walk.cursor
        /\ walk'.stable = walk.stable /\ walk'.done = ~More(n)
    BY <1>3, <2>4
  <2>6. walk'.cursor \in Nat /\ walk'.cursor >= walk.cursor
    <3>1. \A a \in After : rank[a] \in Nat /\ rank[a] > walk.cursor
      BY <1>0, <2>1, RowsRead
    <3>2. walk.cursor \in Nat
      BY <2>4
    <3>3. QED
      BY <2>3, <2>5, <3>1, <3>2
  <2>7. walk' \in [cursor : Nat, seen : [Accounts -> Nat], stable : SUBSET Accounts, done : BOOLEAN]
    <3>1. walk' = [cursor |-> walk'.cursor, seen |-> walk'.seen, stable |-> walk'.stable,
                   done |-> walk'.done]
      BY <1>3, <2>4
    <3>2. walk'.seen \in [Accounts -> Nat] /\ walk'.done \in BOOLEAN
      BY <2>4, <2>5
    <3>3. QED
      BY <2>4, <2>5, <2>6, <3>1, <3>2
  <2>8. /\ pc' = [pc EXCEPT ![c] = "idle"] /\ req' = [req EXCEPT ![c] = None]
        /\ loc' = [loc EXCEPT ![c] = None]
    BY <1>1 DEF Finish
  <2>9. SearchTyped'
    BY <1>0, <1>1, <2>7, <2>8 DEF SearchTyped
  <2>10. \A d \in Conns : /\ pc'[d] # "idle" => /\ d # c /\ pc[d] # "idle"
                          /\ d # c => pc'[d] = pc[d] /\ req'[d] = req[d] /\ loc'[d] = loc[d]
    BY <1>0, <2>8 DEF SearchTyped
  <2>11. Walker'
    <3>1. Walking' = {}
      BY <2>2, <2>10 DEF Walking
    <3>2. QED
      BY <1>0, <2>10, <3>1 DEF Walker
  <2>12. (\A p \in Puzzles : OneShot(p)') /\ \A d \in Conns : Consuming(d)'
    BY <1>0, <1>1, <2>10 DEF OneShot, Consuming
  <2>13. ASSUME NEW a \in Accounts PROVE Shown(a)'
    <3>1. Shown(a) /\ walk.seen[a] \in Nat
      BY <1>0, <2>4
    <3>2. walk'.seen[a] = walk.seen[a] + IF a \in Page(n) THEN 1 ELSE 0
      BY <2>5
    <3>3. CASE a \notin Listed
      <4>1. a \notin Page(n)
        BY <2>3, <3>3 DEF After
      <4>2. walk'.seen[a] = walk.seen[a]
        BY <3>1, <3>2, <4>1
      <4>3. QED
        BY <1>1, <2>5, <3>1, <3>3, <4>2 DEF Shown
    <3>4. CASE a \in Listed /\ a \in walk.stable /\ rank[a] <= walk.cursor
      <4>1. rank[a] \in Nat /\ walk.cursor \in Nat /\ walk.seen[a] = 1
        BY <1>0, <2>4, <3>1, <3>4 DEF Shown, SearchTyped
      <4>2. a \notin Page(n)
        BY <2>3, <3>4, <4>1 DEF After
      <4>3. walk'.seen[a] = 1 /\ rank[a] <= walk'.cursor
        BY <2>6, <3>2, <3>4, <4>1, <4>2
      <4>4. QED
        BY <1>1, <3>1, <3>4, <4>3 DEF Shown
    <3>5. CASE a \in Listed /\ a \in walk.stable /\ ~(rank[a] <= walk.cursor)
      <4>1. rank[a] \in Nat /\ walk.cursor \in Nat /\ walk.seen[a] = 0 /\ rank[a] # None
        BY <1>0, <2>2, <2>4, <3>1, <3>5 DEF Shown, SearchTyped
      <4>2. a \in After
        BY <3>5, <4>1 DEF After
      <4>3. CASE More(n)
        <5>1. walk'.done = FALSE /\ walk'.cursor = rank[LastOf(Page(n))]
          BY <2>5, <4>3
        <5>2. walk'.seen[a] = IF rank[a] <= walk'.cursor THEN 1 ELSE 0
          BY <2>3, <3>2, <4>1, <4>2, <4>3, <5>1
        <5>3. QED
          BY <1>1, <2>5, <3>5, <4>1, <5>1, <5>2 DEF Shown
      <4>4. CASE ~More(n)
        <5>1. walk'.done
          BY <2>5, <4>4, Zenon
        <5>2. a \in Page(n)
          BY <2>3, <4>2, <4>4
        <5>3. walk'.seen[a] = 1
          BY <3>2, <4>1, <5>2
        <5>4. QED
          BY <1>1, <3>5, <4>1, <5>1, <5>3 DEF Shown
      <4>5. QED
        BY <4>3, <4>4
    <3>6. CASE a \in Listed /\ a \notin walk.stable
      BY <2>5, <3>6 DEF Shown
    <3>7. QED
      BY <3>3, <3>4, <3>5, <3>6
  <2>14. QED
    BY <2>9, <2>11, <2>12, <2>13 DEF SearchInv
<1>4. walk' = walk \/ (/\ loc[c].walking
                      /\ walk' = [walk EXCEPT
                           !.seen = [a \in Accounts |-> @[a] + IF a \in Page(n) THEN 1 ELSE 0],
                           !.cursor = IF More(n) THEN rank[LastOf(Page(n))] ELSE @,
                           !.done = ~More(n)])
  BY DEF SearchPage, Page, More, Rows
<1>5. QED
  BY <1>2, <1>3, <1>4

\* A dropped handler may have spent its puzzle.
LEMMA SearchDrops ==
  ASSUME SearchInv, NEW c \in Conns, SearchDropped(c)
  PROVE  SearchInv'
<1>1. /\ UNCHANGED <<now, puzzles, passed, rank, walk>> /\ \E what : Finish(c, what)
      /\ \/ spent' = spent
         \/ /\ pc[c] = "consume"
            /\ spent' = [spent EXCEPT ![req[c].proof.p] = puzzles[req[c].proof.p] + Window]
  BY DEF SearchDropped, Drop, Failed
<1>2. QED
  BY <1>1, SearchEnds

\* The pruner, the indexer and the clock move while the handlers wait.
LEMMA SearchWaits ==
  ASSUME SearchInv, PruneExpired \/ ProjectionChanges \/ SearchTick
  PROVE  SearchInv'
<1>0. /\ SearchTyped /\ Walker /\ (\A p \in Puzzles : OneShot(p)) /\ (\A d \in Conns : Consuming(d))
      /\ (\A a \in Accounts : Shown(a)) /\ now \in Nat /\ None \notin Int
      /\ PruneGrace \in Nat /\ Window \in Nat /\ Slack \in Nat
  BY SearchAssumption, ServingAssumption
     DEF SearchInv, SearchTyped, SearchAssumption, ServingAssumption
<1>1. CASE PruneExpired
  <2>1. /\ spent' = [p \in Puzzles |-> IF Prunable(p) THEN None ELSE spent[p]]
        /\ UNCHANGED <<now, pc, req, loc, puzzles, passed, rank, walk>>
    BY <1>1 DEF PruneExpired, servingVars
  <2>2. SearchTyped' /\ Walker' /\ (\A d \in Conns : Consuming(d)') /\ \A a \in Accounts : Shown(a)'
    BY <1>0, <2>1 DEF SearchTyped, Walker, Walking, Consuming, Shown
  <2>3. ASSUME NEW p \in Puzzles PROVE OneShot(p)'
    <3>1. OneShot(p)
      BY <1>0
    <3>2. CASE Prunable(p)
      <4>1. spent'[p] = None /\ spent[p] # None /\ spent[p] < now - PruneGrace
        BY <2>1, <3>2 DEF Prunable
      <4>2. puzzles[p] \in Nat /\ spent[p] = puzzles[p] + Window
        BY <1>0, <3>1, <4>1 DEF OneShot, SearchTyped
      <4>3. now > puzzles[p] + Window + PruneGrace
        BY <1>0, <4>1, <4>2
      <4>4. QED
        BY <2>1, <3>1, <4>1, <4>3 DEF OneShot
    <3>3. CASE ~Prunable(p)
      BY <2>1, <3>1, <3>3 DEF OneShot
    <3>4. QED
      BY <3>2, <3>3
  <2>4. QED
    BY <2>2, <2>3 DEF SearchInv
<1>2. CASE ProjectionChanges
  <2>1. PICK a \in Accounts, r \in {None} \cup (1..MaxRank \ {rank[b] : b \in Accounts}) :
          /\ rank' = [rank EXCEPT ![a] = r]
          /\ walk' = [walk EXCEPT !.stable = @ \ {a}]
    BY <1>2 DEF ProjectionChanges
  <2>2. UNCHANGED <<now, pc, req, loc, puzzles, spent, passed>>
    BY <1>2 DEF ProjectionChanges, servingVars
  <2>3. walk \in [cursor : Nat, seen : [Accounts -> Nat], stable : SUBSET Accounts, done : BOOLEAN]
    BY <1>0 DEF SearchTyped
  <2>4. /\ walk'.stable = walk.stable \ {a} /\ walk'.seen = walk.seen
        /\ walk'.cursor = walk.cursor /\ walk'.done = walk.done
    BY <2>1, <2>3
  <2>5. walk' \in [cursor : Nat, seen : [Accounts -> Nat], stable : SUBSET Accounts, done : BOOLEAN]
    BY <2>1, <2>3
  <2>6. rank'[a] = r /\ \A b \in Accounts \ {a} : rank'[b] = rank[b]
    BY <1>0, <2>1 DEF SearchTyped
  <2>7. rank' \in [Accounts -> {None} \cup 1..MaxRank]
    BY <1>0, <2>1 DEF SearchTyped
  <2>8. ASSUME NEW b \in Accounts, NEW d \in Accounts, b # d, rank'[b] # None
        PROVE  rank'[b] # rank'[d]
    <3>1. r \notin {rank[e] : e \in Accounts} \/ r = None
      BY <2>1
    <3>2. \A e \in Accounts : r # rank[e] \/ r = None
      BY <3>1
    <3>3. CASE b = a
      BY <2>6, <2>8, <3>2, <3>3
    <3>4. CASE d = a
      BY <2>6, <2>8, <3>2, <3>4
    <3>5. CASE b # a /\ d # a
      BY <1>0, <2>6, <2>8, <3>5 DEF SearchTyped
    <3>6. QED
      BY <3>3, <3>4, <3>5
  <2>9. SearchTyped'
    BY <1>0, <2>2, <2>5, <2>7, <2>8 DEF SearchTyped
  <2>10. Walker' /\ (\A d \in Conns : Consuming(d)') /\ \A p \in Puzzles : OneShot(p)'
    BY <1>0, <2>2, <2>4 DEF Walker, Walking, Consuming, OneShot
  <2>11. ASSUME NEW b \in Accounts PROVE Shown(b)'
    <3>1. CASE b = a
      BY <1>0, <2>4, <3>1 DEF Shown
    <3>2. CASE b # a
      BY <1>0, <2>4, <2>6, <3>2 DEF Shown
    <3>3. QED
      BY <3>1, <3>2
  <2>12. QED
    BY <2>9, <2>10, <2>11 DEF SearchInv
<1>3. CASE SearchTick
  <2>1. /\ now' = now + 1 /\ UNCHANGED <<pc, req, loc, puzzles, spent, passed, rank, walk>>
        /\ \A c \in Conns : pc[c] = "consume" => now - req[c].clock < Slack
    BY <1>3 DEF SearchTick, Tick, searchVars
  <2>2. SearchTyped' /\ Walker' /\ \A a \in Accounts : Shown(a)'
    BY <1>0, <2>1 DEF SearchTyped, Walker, Walking, Shown
  <2>3. \A d \in Conns : Consuming(d)'
    BY <1>0, <2>1 DEF Consuming
  <2>4. ASSUME NEW p \in Puzzles PROVE OneShot(p)'
    <3>1. puzzles[p] # None => puzzles[p] \in Nat
      BY <1>0 DEF SearchTyped
    <3>2. QED
      BY <1>0, <2>1, <3>1 DEF OneShot
  <2>5. QED
    BY <2>2, <2>3, <2>4 DEF SearchInv
<1>4. QED
  BY <1>1, <1>2, <1>3

\* A search process starts with nothing spent and nothing shown.
LEMMA SearchStarts == ASSUME Init, role = "search" PROVE SearchInv
<1>1. SearchInit /\ ServingInit
  BY DEF Init
<1>2. /\ Listed \subseteq Accounts /\ FirstRanks \in [Accounts -> 1..MaxRank] /\ MaxRank \in Nat
      /\ \A a, b \in Accounts : a # b => FirstRanks[a] # FirstRanks[b]
      /\ None \notin Int /\ MaxPuzzles \in Nat
  BY SearchAssumption, ServingAssumption DEF SearchAssumption, ServingAssumption
<1>3. SearchTyped
  BY <1>1, <1>2 DEF SearchInit, ServingInit, SearchTyped
<1>4. Walker
  BY <1>1 DEF SearchInit, ServingInit, Walker, Walking
<1>5. ASSUME NEW p \in Puzzles PROVE OneShot(p)
  BY <1>1 DEF SearchInit, OneShot
<1>6. ASSUME NEW c \in Conns PROVE Consuming(c)
  BY <1>1 DEF ServingInit, Consuming
<1>7. ASSUME NEW a \in Accounts PROVE Shown(a)
  <2>1. rank[a] \in 1..MaxRank /\ walk.seen[a] = 0 /\ walk.cursor = 0 /\ walk.done = FALSE
    BY <1>1, <1>2 DEF SearchInit
  <2>2. rank[a] # None /\ ~(rank[a] <= walk.cursor)
    BY <1>2, <2>1
  <2>3. QED
    BY <2>1, <2>2 DEF Shown
<1>8. QED
  BY <1>3, <1>4, <1>5, <1>6, <1>7 DEF SearchInv

\* The invariant of the search.
LEMMA SearchHolds == Spec => [](role = "search" => SearchInv)
<1> DEFINE Inv == role = "search" => SearchInv
<1>1. Init => Inv
  BY SearchStarts
<1>2. Inv /\ [Next]_vars => Inv'
  <2> SUFFICES ASSUME Inv, [Next]_vars, role = "search" PROVE SearchInv'
    BY RoleKept
  <2>1. CASE SearchNext
    BY <2>1, SearchArrival, ConsumeOnce, PageShown, SearchDrops, SearchWaits DEF SearchNext
  <2>2. CASE UNCHANGED <<servingVars, searchVars>>
    BY <2>2 DEF SearchInv, SearchTyped, Walker, Walking, OneShot, Consuming, Shown,
                servingVars, searchVars
  <2>3. SearchNext \/ UNCHANGED <<servingVars, searchVars>>
    BY DEF Next, vars, Quiet
  <2>4. QED
    BY <2>1, <2>2, <2>3
<1>3. QED
  BY <1>1, <1>2, PTL DEF Spec

\* Search serves once, for every order of the rows and every number of replicas' requests:
\* a puzzle lets one request through whatever late inserts, lost answers and the pruner
\* do, and a walk over the pages shows a row that did not change meanwhile at most once,
\* exactly once when it ends, and never a row that is not to be shown (consume and prune
\* of the spent puzzles, the keyset pages of the search route).
THEOREM SearchServesOnce == Spec => []ServedOnce
<1>1. (role = "search" => SearchInv) => ServedOnce
  <2> SUFFICES ASSUME SearchInv PROVE ServedOnce
    BY DEF ServedOnce
  <2>1. \A p \in Puzzles : passed[p] <= 1
    BY DEF SearchInv, SearchTyped
  <2>2. ASSUME NEW a \in Accounts
        PROVE  /\ a \in walk.stable => walk.seen[a] <= 1
               /\ a \in walk.stable \cap Listed /\ walk.done => walk.seen[a] = 1
               /\ a \notin Listed => walk.seen[a] = 0
    BY DEF SearchInv, Shown
  <2>3. QED
    BY <2>1, <2>2 DEF ServedOnce
<1>2. QED
  BY <1>1, SearchHolds, PTL

--------------------------------------------------------------------------------
(* The authentication handshake.                                           *)

\* Where a token handler waits once it has spent its challenge, and where any waits.
Verdicts == {"find", "commit", "crl", "fetch", "exchange", "decode", "mint"}
AuthPcs == Verdicts \cup {"idle", "create", "select", "rotate", "consume", "upsert"}

AuthTyped ==
  /\ now \in Nat /\ sent \in 0..MaxSent /\ config \in AuthConfigs
  /\ pc \in [Conns -> AuthPcs] /\ DOMAIN req = Conns /\ DOMAIN loc = Conns
  /\ chal \in [Chals -> [state : {"none", "live", "used"}, exp : Nat]]
  /\ toks \in [Toks -> {None} \cup TokenRow]
  /\ attKeys \in [AttestKeys -> {None} \cup KeyRow]
  /\ revokedAt \in [Serials -> {None} \cup Nat]
  /\ DOMAIN earned = Chals

\* Tokens are issued in order, at most one for every request beyond the first session.
Busy == {c \in Conns : pc[c] # "idle"}
TokensInOrder == /\ Issued = 1..Cardinality(Issued)
                 /\ Cardinality(Issued) + Cardinality(Busy) <= sent + 1

\* A challenge that carries a token is spent, and carries one unspent token.
TokensRooted ==
  /\ \A t \in Issued : chal[toks[t].root].state = "used"
  /\ \A t, u \in Issued :
       toks[t].root = toks[u].root /\ ~toks[t].used /\ ~toks[u].used => t = u

\* The snapshot of the revocation list was complete when it was stamped.
CrlTrue == crl # None =>
  /\ crl.at \in 0..now
  /\ \A s \in Serials \ crl.serials : revokedAt[s] = None \/ crl.at <= revokedAt[s]

\* What a session may be minted on: its chain was not known revoked for too long, and
\* its counter is not ahead of the row it was accepted by.
Unrevoked(e, at) ==
  e.type = "key" => revokedAt[e.serial] = None \/ at <= revokedAt[e.serial] + MaxStale
Counted(e, epoch) == epoch > 0 =>
  /\ e.key \in AttestKeys /\ attKeys[e.key] # None /\ e.count \in Nat
  /\ epoch <= attKeys[e.key].epoch
  /\ epoch = attKeys[e.key].epoch => e.count <= attKeys[e.key].count
Sound(e, at, epoch) ==
  /\ at \in 0..now /\ epoch \in Nat /\ Counted(e, epoch)
  /\ config.mode = "hard" => e \notin FlawedEvidence /\ e.type # "other" /\ Unrevoked(e, at)

\* Two assertions under one registration of a key have different counters.
Apart(e, m, f, n) == m = n /\ m > 0 /\ e.key = f.key => e.count # f.count

\* What a session was minted on, and which tokens claim the store.
Minted ==
  /\ \A h \in Chals : earned[h] # None =>
       earned[h].e \in AllEvidence /\ Sound(earned[h].e, earned[h].at, earned[h].epoch)
  /\ \A g, h \in Chals : g # h /\ earned[g] # None /\ earned[h] # None =>
       Apart(earned[g].e, earned[g].epoch, earned[h].e, earned[h].epoch)
  /\ config.mode # "off" =>
       \A t \in Issued : toks[t].store => ProvesStore(earned[toks[t].root].e)

\* The requests handlers hold.
Holds(c) ==
  /\ pc[c] = "consume" =>
       /\ req[c].ch \in Chals /\ req[c].op \in {"token", "attest"}
       /\ req[c].op = "token" => req[c].evidence \in AllEvidence
       /\ req[c].op = "attest" => req[c].key \in AttestKeys
  /\ pc[c] = "upsert" => req[c].key \in AttestKeys
  /\ pc[c] = "select" => req[c].tok \in Issued \cup {None}

\* A rotation holds its row alone.
Rotates(c) == pc[c] = "rotate" =>
  /\ req[c].tok \in Issued /\ ~toks[req[c].tok].used
  /\ \A d \in Conns \ {c} : pc[d] = "rotate" => req[d].tok # req[c].tok

\* A verdict is about a challenge that is this handler's alone.
Alone(c) ==
  /\ req[c].ch \in Chals /\ req[c].evidence \in AllEvidence
  /\ \A t \in Issued : toks[t].root # req[c].ch
  /\ \A d \in Conns \ {c} : pc[d] \in Verdicts => req[d].ch # req[c].ch
Owns(c) == pc[c] \in Verdicts => Alone(c) /\ chal[req[c].ch].state = "used"

\* What the verdict has established so far.
Judged(c) ==
  LET e == req[c].evidence IN
  /\ pc[c] \in {"find", "commit"} => e.type = "ios" /\ e.package \in Allowed /\ e.headers
  /\ pc[c] = "commit" => e.signature /\ e.app \in Allowed /\ attKeys[e.key] # None
  /\ pc[c] \in {"crl", "fetch"} => e.type = "key" /\ ChainDecodes(e)
  /\ pc[c] \in {"exchange", "decode"} => e.type = "play" /\ e.package \in Allowed /\ e.headers

\* What a handler is about to mint on.
Mints(c) == pc[c] = "mint" =>
  LET e == req[c].evidence
      n == loc[c].epoch IN
  /\ loc[c].store \in BOOLEAN /\ Sound(e, loc[c].at, n)
  /\ config.mode # "off" /\ loc[c].store => ProvesStore(e)
  /\ \A d \in Conns \ {c} : pc[d] = "mint" => Apart(e, n, req[d].evidence, loc[d].epoch)
  /\ \A h \in Chals \ {req[c].ch} :
       earned[h] # None => Apart(e, n, earned[h].e, earned[h].epoch)

HandlerOk(c) == Holds(c) /\ Rotates(c) /\ Owns(c) /\ Judged(c) /\ Mints(c)

AuthInv == /\ AuthTyped /\ TokensInOrder /\ TokensRooted /\ CrlTrue /\ Minted
           /\ \A c \in Conns : HandlerOk(c)

\* The settings, bounds and rows the proofs rest on.
LEMMA AuthConstants ==
  /\ MaxSent \in Nat /\ MaxChal \in Nat \ {0} /\ IsFiniteSet(Conns)
  /\ {ChallengeTtl, RefreshTtl, CrlTtl, MaxStale, GoogleTtl} \subseteq Nat
  /\ None \notin TokenRow /\ None \notin KeyRow /\ None \notin Int
  /\ \A f \in AuthConfigs : f.mode \in {"off", "soft", "hard"}
BY ServingAssumption, AuthAssumption, RowAssumption
   DEF ServingAssumption, AuthAssumption, RowAssumption

\* Tokens and busy handlers are finitely many.
LEMMA TokensFinite == /\ IsFiniteSet(Issued) /\ Cardinality(Issued) \in Nat
                      /\ IsFiniteSet(Busy) /\ Cardinality(Busy) \in Nat
<1>0. MaxSent + 1 \in Int /\ 1 \in Int
  BY AuthConstants
<1>1. IsFiniteSet(Toks) /\ IsFiniteSet(Conns)
  BY <1>0, AuthConstants, FS_Interval DEF Toks
<1>2. Issued \subseteq Toks /\ Busy \subseteq Conns
  BY DEF Issued, Busy
<1>3. QED
  BY <1>1, <1>2, FS_Subset, FS_CardinalityType

\* What rows of the key table may do: a registration begins a new epoch, and within one
\* the counter only grows.
KeysGrow ==
  /\ attKeys' \in [AttestKeys -> {None} \cup KeyRow]
  /\ \A k \in AttestKeys : attKeys[k] # None =>
       /\ attKeys'[k] # None /\ attKeys[k].epoch <= attKeys'[k].epoch
       /\ attKeys[k].epoch = attKeys'[k].epoch => attKeys[k].count <= attKeys'[k].count

\* A session's grounds stand while keys only grow and nothing is revoked.
LEMMA SoundKept ==
  ASSUME AuthTyped, KeysGrow, UNCHANGED <<now, config, revokedAt>>,
         NEW e, NEW at, NEW n, Sound(e, at, n)
  PROVE  /\ at \in 0..now' /\ n \in Nat
         /\ config'.mode = "hard" => e \notin FlawedEvidence /\ e.type # "other"
         /\ config'.mode = "hard" /\ e.type = "key" =>
              revokedAt'[e.serial] = None \/ at <= revokedAt'[e.serial] + MaxStale
         /\ n > 0 => /\ e.key \in AttestKeys /\ attKeys'[e.key] # None /\ e.count \in Nat
                     /\ n <= attKeys'[e.key].epoch
                     /\ n = attKeys'[e.key].epoch => e.count <= attKeys'[e.key].count
<1>1. /\ at \in 0..now' /\ n \in Nat
      /\ config'.mode = "hard" => e \notin FlawedEvidence /\ e.type # "other"
      /\ config'.mode = "hard" /\ e.type = "key" =>
           revokedAt'[e.serial] = None \/ at <= revokedAt'[e.serial] + MaxStale
  BY DEF Sound, Unrevoked
<1>2. ASSUME n > 0
      PROVE  /\ e.key \in AttestKeys /\ attKeys'[e.key] # None /\ e.count \in Nat
             /\ n <= attKeys'[e.key].epoch
             /\ n = attKeys'[e.key].epoch => e.count <= attKeys'[e.key].count
  <2>1. /\ e.key \in AttestKeys /\ attKeys[e.key] # None /\ e.count \in Nat /\ n \in Nat
        /\ n <= attKeys[e.key].epoch
        /\ n = attKeys[e.key].epoch => e.count <= attKeys[e.key].count
    BY <1>2 DEF Sound, Counted
  <2>2. attKeys[e.key] \in KeyRow /\ attKeys'[e.key] \in {None} \cup KeyRow
    BY <2>1 DEF AuthTyped, KeysGrow
  <2>3. /\ attKeys'[e.key] # None /\ attKeys[e.key].epoch <= attKeys'[e.key].epoch
        /\ attKeys[e.key].epoch = attKeys'[e.key].epoch =>
             attKeys[e.key].count <= attKeys'[e.key].count
    BY <2>1 DEF KeysGrow
  <2>4. /\ attKeys[e.key].epoch \in Nat /\ attKeys'[e.key].epoch \in Nat
        /\ attKeys[e.key].count \in Nat /\ attKeys'[e.key].count \in Nat
    BY <2>2, <2>3 DEF KeyRow
  <2>5. QED
    BY <2>1, <2>3, <2>4
<1>3. QED
  BY <1>1, <1>2

\* A step of one handler that leaves tokens and sessions alone.
LEMMA AuthMoves ==
  ASSUME AuthInv, NEW c \in Conns, NEW where \in AuthPcs, pc' = [pc EXCEPT ![c] = where],
         DOMAIN req' = Conns, DOMAIN loc' = Conns,
         \A d \in Conns \ {c} : req'[d] = req[d] /\ loc'[d] = loc[d],
         UNCHANGED <<now, config, toks, earned, revokedAt>>,
         \/ sent' = sent /\ pc[c] # "idle"
         \/ sent' = sent + 1 /\ sent < MaxSent,
         chal' \in [Chals -> [state : {"none", "live", "used"}, exp : Nat]],
         \A h \in Chals : chal[h].state = "used" => chal'[h].state = "used",
         KeysGrow, CrlTrue', HandlerOk(c)'
  PROVE  AuthInv'
<1>0. /\ AuthTyped /\ TokensInOrder /\ TokensRooted /\ Minted /\ MaxSent \in Nat
      /\ \A d \in Conns : Holds(d) /\ Rotates(d) /\ Owns(d) /\ Judged(d) /\ Mints(d)
  BY AuthConstants DEF AuthInv, HandlerOk
<1>t. AuthTyped
  BY <1>0
<1>1. /\ pc'[c] = where /\ \A d \in Conns \ {c} : pc'[d] = pc[d]
      /\ Issued' = Issued
  BY <1>0 DEF AuthTyped, Issued
<1>2. AuthTyped'
  BY <1>0 DEF AuthTyped, KeysGrow
<1>3. TokensInOrder'
  <2>1. Busy' \subseteq Busy \cup {c} /\ (pc[c] # "idle" => Busy' \subseteq Busy)
    BY <1>1 DEF Busy
  <2>2. /\ Cardinality(Busy') \in Nat /\ Cardinality(Busy') <= Cardinality(Busy) + 1
        /\ pc[c] # "idle" => Cardinality(Busy') <= Cardinality(Busy)
    BY <2>1, TokensFinite, CountAdds
  <2>3. QED
    BY <1>0, <1>1, <2>2, TokensFinite DEF TokensInOrder, AuthTyped
<1>4. TokensRooted'
  <2>1. \A t \in Issued : toks[t].root \in Chals
    BY <1>0 DEF AuthTyped, Issued, TokenRow
  <2>2. QED
    BY <1>0, <1>1, <2>1 DEF TokensRooted
<1>5. Minted'
  <2>1. ASSUME NEW h \in Chals, earned[h] # None
        PROVE  Sound(earned[h].e, earned[h].at, earned[h].epoch)'
    <3>1. Sound(earned[h].e, earned[h].at, earned[h].epoch)
      BY <1>0, <2>1 DEF Minted
    <3>2. PICK x : x = earned[h]
      OBVIOUS
    <3>3. Sound(x.e, x.at, x.epoch)
      BY <3>1, <3>2
    <3>4. QED
      BY <1>t, <3>2, <3>3, SoundKept, Zenon DEF Sound, Unrevoked, Counted
  <2>2. QED
    BY <1>0, <1>1, <2>1 DEF Minted, Apart, ProvesStore
<1>6. ASSUME NEW d \in Conns PROVE HandlerOk(d)'
  <2>1. CASE d = c
    BY <2>1
  <2> SUFFICES ASSUME d # c PROVE HandlerOk(d)'
    BY <2>1
  <2>2. pc'[d] = pc[d] /\ req'[d] = req[d] /\ loc'[d] = loc[d]
    BY <1>1
  <2>3. Holds(d)'
    BY <1>0, <1>1, <2>2 DEF Holds
  <2>4. Rotates(d)'
    BY <1>0, <1>1, <2>2 DEF Rotates, HandlerOk
  <2>5. Owns(d)'
    BY <1>0, <1>1, <2>2 DEF Owns, Alone, HandlerOk
  <2>6. Judged(d)'
    <3>1. pc[d] = "commit" => req[d].evidence.key \in AttestKeys
      BY <1>0, EvidenceAssumption DEF Judged, Owns, Alone, EvidenceAssumption, Verdicts
    <3>2. pc[d] = "commit" => attKeys'[req[d].evidence.key] # None
      BY <1>0, <3>1 DEF Judged, KeysGrow
    <3>3. QED
      BY <1>0, <2>2, <3>2 DEF Judged
  <2>7. ASSUME pc[d] = "mint" PROVE Mints(d)'
    <3>1. Sound(req[d].evidence, loc[d].at, loc[d].epoch)
      BY <1>0, <2>7 DEF Mints
    <3>2. PICK e, l : e = req[d].evidence /\ l = loc[d]
      OBVIOUS
    <3>3. Sound(e, l.at, l.epoch)
      BY <3>1, <3>2
    <3>4. Sound(req[d].evidence, loc[d].at, loc[d].epoch)'
      <4>1. e = req'[d].evidence /\ l = loc'[d]
        BY <2>2, <3>2
      <4>2. Sound(e, l.at, l.epoch)'
        BY <1>t, <3>3, SoundKept, Zenon DEF Sound, Unrevoked, Counted
      <4>3. QED
        BY <4>1, <4>2 DEF Sound, Unrevoked, Counted
    <3>5. loc'[d].store \in BOOLEAN
          /\ (config'.mode # "off" /\ loc'[d].store => ProvesStore(req'[d].evidence))
      BY <1>0, <2>2, <2>7 DEF Mints, ProvesStore
    <3>6. ASSUME NEW b \in Conns \ {d}, pc'[b] = "mint"
          PROVE  Apart(req'[d].evidence, loc'[d].epoch, req'[b].evidence, loc'[b].epoch)
      <4>1. CASE b = c
        BY <2>2, <2>7, <3>6, <4>1 DEF HandlerOk, Mints, Apart
      <4>2. CASE b # c
        BY <1>0, <1>1, <2>2, <2>7, <3>6, <4>2 DEF Mints, Apart
      <4>3. QED
        BY <4>1, <4>2
    <3>7. \A h \in Chals \ {req'[d].ch} : earned'[h] # None =>
            Apart(req'[d].evidence, loc'[d].epoch, earned'[h].e, earned'[h].epoch)
      BY <1>0, <2>2, <2>7 DEF Mints, Apart
    <3>8. QED
      BY <3>4, <3>5, <3>6, <3>7 DEF Mints
  <2>8. pc[d] # "mint" => Mints(d)'
    BY <2>2 DEF Mints
  <2>9. QED
    BY <2>3, <2>4, <2>5, <2>6, <2>7, <2>8 DEF HandlerOk
<1>7. QED
  BY <1>2, <1>3, <1>4, <1>5, <1>6 DEF AuthInv

\* What a step of a handler may do to the challenges: a spent one stays spent.
ChalsSpent ==
  /\ chal' \in [Chals -> [state : {"none", "live", "used"}, exp : Nat]]
  /\ \A h \in Chals : chal[h].state = "used" => chal'[h].state = "used"

\* Steps that leave the tables alone.
LEMMA TablesKept ==
  ASSUME AuthTyped
  PROVE  /\ UNCHANGED chal => ChalsSpent
         /\ UNCHANGED attKeys => KeysGrow
         /\ CrlTrue /\ UNCHANGED <<crl, revokedAt, now>> => CrlTrue'
<1>1. UNCHANGED chal => ChalsSpent
  BY DEF AuthTyped, ChalsSpent
<1>2. ASSUME UNCHANGED attKeys PROVE KeysGrow
  <2>1. \A k \in AttestKeys : attKeys[k] # None => attKeys[k].epoch \in Nat /\ attKeys[k].count \in Nat
    BY DEF AuthTyped, KeyRow
  <2>2. QED
    BY <1>2, <2>1 DEF AuthTyped, KeysGrow
<1>3. CrlTrue /\ UNCHANGED <<crl, revokedAt, now>> => CrlTrue'
  BY DEF CrlTrue
<1>4. QED
  BY <1>1, <1>2, <1>3

\* A handler that ends without a session.
LEMMA AuthEnds ==
  ASSUME AuthInv, NEW c \in Conns, NEW what, Finish(c, what),
         UNCHANGED <<now, config, toks, earned, revokedAt>>,
         \/ sent' = sent /\ pc[c] # "idle"
         \/ sent' = sent + 1 /\ sent < MaxSent,
         ChalsSpent, KeysGrow, CrlTrue'
  PROVE  AuthInv'
<1>1. /\ pc' = [pc EXCEPT ![c] = "idle"] /\ DOMAIN req' = Conns /\ DOMAIN loc' = Conns
      /\ \A d \in Conns \ {c} : req'[d] = req[d] /\ loc'[d] = loc[d]
  BY DEF Finish, AuthInv, AuthTyped
<1>2. pc'[c] = "idle"
  BY <1>1 DEF AuthInv, AuthTyped
<1>3. HandlerOk(c)'
  BY <1>2 DEF HandlerOk, Holds, Rotates, Owns, Judged, Mints, Verdicts
<1>4. "idle" \in AuthPcs
  BY DEF AuthPcs
<1>5. QED
  BY <1>1, <1>3, <1>4, AuthMoves DEF ChalsSpent

\* A handler that goes on with its verdict.
LEMMA AuthGoes ==
  ASSUME AuthInv, NEW c \in Conns, NEW where \in Verdicts, NEW carried, pc[c] # "idle",
         Goto(c, where, carried), Alone(c), chal'[req[c].ch].state = "used",
         UNCHANGED <<now, sent, config, toks, earned, revokedAt>>,
         ChalsSpent, KeysGrow, CrlTrue', Judged(c)', Mints(c)'
  PROVE  AuthInv'
<1>1. /\ pc' = [pc EXCEPT ![c] = where] /\ DOMAIN req' = Conns /\ DOMAIN loc' = Conns
      /\ \A d \in Conns \ {c} : req'[d] = req[d] /\ loc'[d] = loc[d]
      /\ req'[c] = req[c]
  BY DEF Goto, Suspend, AuthInv, AuthTyped
<1>2. pc'[c] = where /\ \A d \in Conns \ {c} : pc'[d] = pc[d]
  BY <1>1 DEF AuthInv, AuthTyped
<1>3. Owns(c)'
  BY <1>1, <1>2 DEF Owns, Alone, Issued
<1>4. Holds(c)' /\ Rotates(c)'
  BY <1>2 DEF Holds, Rotates, Verdicts
<1>5. where \in AuthPcs
  BY DEF AuthPcs
<1>6. HandlerOk(c)'
  BY <1>3, <1>4 DEF HandlerOk
<1>7. QED
  BY <1>1, <1>5, <1>6, AuthMoves DEF ChalsSpent

\* A verdict that does not rest on a counter: it ends in a session to mint or in a refusal.
LEMMA JudgeKeeps ==
  ASSUME AuthInv, NEW c \in Conns, NEW ok \in BOOLEAN, NEW store \in BOOLEAN, pc[c] # "idle",
         Judge(c, ok, store), Alone(c), chal'[req[c].ch].state = "used",
         UNCHANGED <<now, sent, config, toks, earned, revokedAt>>,
         ChalsSpent, KeysGrow, CrlTrue',
         ok /\ config.mode = "hard" =>
           /\ req[c].evidence \notin FlawedEvidence /\ req[c].evidence.type # "other"
           /\ Unrevoked(req[c].evidence, now),
         ok /\ store => ProvesStore(req[c].evidence)
  PROVE  AuthInv'
<1>1. CASE Finish(c, "IntegrityFailed")
  BY <1>1, AuthEnds
<1>2. ASSUME NEW claim \in BOOLEAN, Goto(c, "mint", [store |-> claim, at |-> now, epoch |-> 0]),
             config.mode # "hard" \/ ok, claim => ok /\ store
      PROVE  AuthInv'
  <2>1. /\ pc'[c] = "mint" /\ req'[c] = req[c]
        /\ loc'[c] = [store |-> claim, at |-> now, epoch |-> 0]
    BY <1>2 DEF Goto, Suspend, AuthInv, AuthTyped
  <2>2. Judged(c)'
    BY <2>1 DEF Judged
  <2>3. PICK e : e = req[c].evidence
    OBVIOUS
  <2>4. now \in 0..now' /\ 0 \in Nat
    BY DEF AuthInv, AuthTyped
  <2>5. Sound(e, now, 0)'
    BY <1>2, <2>3, <2>4 DEF Sound, Counted, Unrevoked
  <2>6. Sound(req[c].evidence, loc[c].at, loc[c].epoch)'
    BY <2>1, <2>3, <2>5 DEF Sound, Counted, Unrevoked
  <2>7. loc'[c].store \in BOOLEAN /\ (loc'[c].store => ProvesStore(req'[c].evidence))
    BY <1>2, <2>1 DEF ProvesStore
  <2>8. loc'[c].epoch = 0
    BY <2>1
  <2>9. Mints(c)'
    BY <2>6, <2>7, <2>8 DEF Mints, Apart
  <2>10. "mint" \in Verdicts
    BY DEF Verdicts
  <2>11. QED
    BY <1>2, <2>2, <2>9, <2>10, AuthGoes
<1>3. CASE ok
  BY <1>2, <1>3 DEF Judge
<1>4. CASE ~ok
  BY <1>1, <1>2, <1>4 DEF Judge
<1>5. QED
  BY <1>3, <1>4

\* What each route is asked.
LEMMA RequestKinds ==
  ASSUME NEW in \in AuthRequests
  PROVE  \/ in.op = "challenge"
         \/ in.op = "refresh" /\ in.tok \in Issued \cup {None}
         \/ in.op = "token" /\ in.ch \in Chals /\ in.evidence \in AllEvidence
         \/ in.op = "attest" /\ in.ch \in Chals /\ in.key \in AttestKeys
<1>1. Known \subseteq Chals
  BY AuthConstants DEF Known, Chals
<1>2. (CHOOSE e \in Evidence : TRUE) \in AllEvidence
  BY EvidenceAssumption DEF EvidenceAssumption, AllEvidence
<1>3. Presented \subseteq AllEvidence /\ FlawedPresented \subseteq AllEvidence
  BY <1>2 DEF Presented, FlawedPresented, AllEvidence
<1>4. CASE in \in [op : {"challenge"}, flawed : {FALSE}]
  BY <1>4
<1>5. CASE \/ in \in [op : {"refresh"}, flawed : {FALSE}, tok : Issued]
           \/ in \in [op : {"refresh"}, flawed : {TRUE}, tok : {None}]
  BY <1>5
<1>6. CASE \/ in \in [op : {"token"}, flawed : {FALSE}, headers : {TRUE}, ch : Known,
                      proof : {TRUE}, evidence : Presented]
           \/ in \in [op : {"token"}, flawed : {TRUE}, headers : {TRUE}, ch : Known,
                      proof : {TRUE}, evidence : FlawedPresented]
           \/ in \in [op : {"token"}, flawed : {TRUE}, headers : {TRUE, FALSE}, ch : Known,
                      proof : {FALSE}, evidence : {CHOOSE e \in Evidence : TRUE}]
  BY <1>1, <1>2, <1>3, <1>6
<1>7. CASE \/ in \in [op : {"attest"}, flawed : {FALSE}, ch : Known, key : AttestKeys,
                      decodes : {TRUE}, object : Attestations]
           \/ in \in [op : {"attest"}, flawed : {TRUE}, ch : Known, key : AttestKeys,
                      decodes : BOOLEAN, object : FlawedAttestations]
  BY <1>1, <1>7
<1>8. QED
  BY <1>4, <1>5, <1>6, <1>7, Zenon DEF AuthRequests

\* A request reaches its handler.
LEMMA AuthArrives ==
  ASSUME AuthInv, NEW c \in Conns, AuthArrive(c) PROVE AuthInv'
<1>0. AuthTyped /\ CrlTrue
  BY DEF AuthInv
<1>1. PICK in \in AuthRequests :
        /\ Arrive(c, in) /\ UNCHANGED authVars
        /\ CASE in.op = "challenge" -> Suspend(c, in, "create", None)
             [] in.op = "refresh" -> Suspend(c, in, "select", None)
             [] in.op = "token" -> IF in.headers THEN Suspend(c, in, "consume", None)
                                   ELSE Finish(c, "BadRequest")
             [] in.op = "attest" ->
                  IF config.mode = "off" THEN Finish(c, "accepted")
                  ELSE IF in.decodes THEN Suspend(c, in, "consume", None)
                  ELSE Finish(c, "BadRequest")
  BY DEF AuthArrive
<1>2. /\ sent' = sent + 1 /\ sent < MaxSent /\ UNCHANGED <<now, config, toks, earned, revokedAt>>
      /\ UNCHANGED <<chal, attKeys, crl>>
  BY <1>1 DEF Arrive, authVars
<1>3. ChalsSpent /\ KeysGrow /\ CrlTrue'
  BY <1>0, <1>2, TablesKept
<1>4. ASSUME NEW what, Finish(c, what) PROVE AuthInv'
  BY <1>2, <1>3, <1>4, AuthEnds
<1>5. ASSUME NEW where \in {"create", "select", "consume"}, Suspend(c, in, where, None),
             where = "select" => in.op = "refresh",
             where = "consume" => in.op \in {"token", "attest"}
      PROVE  AuthInv'
  <2>1. /\ pc' = [pc EXCEPT ![c] = where] /\ DOMAIN req' = Conns /\ DOMAIN loc' = Conns
        /\ \A d \in Conns \ {c} : req'[d] = req[d] /\ loc'[d] = loc[d]
        /\ req'[c] = in
    BY <1>0, <1>5 DEF Suspend, AuthTyped
  <2>2. pc'[c] = where /\ Issued' = Issued
    BY <1>0, <1>2, <2>1 DEF AuthTyped, Issued
  <2>3. Holds(c)'
    BY <1>5, <2>1, <2>2, RequestKinds DEF Holds
  <2>4. HandlerOk(c)'
    BY <2>2, <2>3 DEF HandlerOk, Rotates, Owns, Judged, Mints, Verdicts
  <2>5. where \in AuthPcs
    BY DEF AuthPcs
  <2>6. QED
    BY <1>2, <1>3, <2>1, <2>4, <2>5, AuthMoves DEF ChalsSpent
<1>6. CASE in.op \in {"challenge", "refresh"}
  BY <1>1, <1>5, <1>6
<1>7. CASE in.op = "token"
  BY <1>1, <1>4, <1>5, <1>7
<1>8. CASE in.op = "attest"
  BY <1>1, <1>4, <1>5, <1>8
<1>9. QED
  BY <1>6, <1>7, <1>8, RequestKinds

\* A database call that fails, a challenge that is created, a handler that is dropped.
LEMMA AuthSimpleEnds ==
  ASSUME AuthInv, NEW c \in Conns, AuthFails(c) \/ CreateChallenge(c) \/ AuthDrop(c)
  PROVE  AuthInv'
<1>0. AuthTyped /\ CrlTrue
  BY DEF AuthInv
<1>1. CASE AuthFails(c)
  <2>1. ChalsSpent /\ KeysGrow /\ CrlTrue'
    BY <1>0, <1>1, TablesKept DEF AuthFails, authVars, Failed
  <2>2. QED
    BY <1>1, <2>1, AuthEnds DEF AuthFails, authVars, Failed
<1>2. CASE AuthDrop(c)
  <2>1. ChalsSpent /\ KeysGrow /\ CrlTrue'
    BY <1>0, <1>2, TablesKept DEF AuthDrop, Drop, Failed
  <2>2. QED
    BY <1>2, <2>1, AuthEnds DEF AuthDrop, Drop, Failed
<1>3. CASE CreateChallenge(c)
  <2>1. KeysGrow /\ CrlTrue'
    BY <1>0, <1>3, TablesKept DEF CreateChallenge, Answered
  <2>2. PICK h \in Chals : /\ chal[h].state = "none"
                           /\ chal' = [chal EXCEPT ![h] = [state |-> "live", exp |-> now + ChallengeTtl]]
    BY <1>3 DEF CreateChallenge
  <2>3. now + ChallengeTtl \in Nat
    BY <1>0, AuthConstants DEF AuthTyped
  <2>4. ChalsSpent
    BY <1>0, <2>2, <2>3 DEF ChalsSpent, AuthTyped
  <2>5. QED
    BY <1>3, <2>1, <2>4, AuthEnds DEF CreateChallenge, Answered
<1>4. QED
  BY <1>1, <1>2, <1>3

\* A Play verdict, decrypted here or by Google.
LEMMA PlayJudged ==
  ASSUME AuthInv, NEW c \in Conns, pc[c] # "idle",
         NEW e, e = req[c].evidence, e.type = "play", e.package \in Allowed, e.headers,
         Judge(c, Sealed(e) /\ PayloadOk(e.payload, config.play), PlayDistributed(e.payload)),
         Alone(c), chal'[req[c].ch].state = "used",
         UNCHANGED <<now, sent, config, toks, earned, revokedAt>>,
         ChalsSpent, KeysGrow, CrlTrue'
  PROVE  AuthInv'
<1>1. PICK ok \in BOOLEAN : ok <=> Sealed(e) /\ PayloadOk(e.payload, config.play)
  OBVIOUS
<1>2. PICK store \in BOOLEAN : store <=> PlayDistributed(e.payload)
  OBVIOUS
<1>3. Judge(c, ok, store)
  <2>1. (Sealed(e) /\ PayloadOk(e.payload, config.play)) = ok
    BY <1>1
  <2>2. PlayDistributed(e.payload) = store
    BY <1>2 DEF PlayDistributed
  <2>3. QED
    BY <2>1, <2>2
<1>4. ok => Verifies(e, config.play)
  BY <1>1 DEF Verifies
<1>5. ok => e \notin FlawedEvidence
  BY <1>4, EvidenceAssumption DEF EvidenceAssumption, AuthInv, AuthTyped
<1>6. ok /\ store => ProvesStore(e)
  BY <1>1, <1>2 DEF PlayDistributed, ProvesStore, PayloadOk, Sealed
<1>7. Unrevoked(e, now) /\ e.type # "other"
  BY DEF Unrevoked
<1>8. ProvesStore(e) <=> ProvesStore(req[c].evidence)
  OBVIOUS
<1>9. QED
  BY <1>3, <1>5, <1>6, <1>7, <1>8, JudgeKeeps DEF Unrevoked

\* A verdict that is refused mints without a claim, if at all.
LEMMA RefusalKeeps ==
  ASSUME AuthInv, NEW c \in Conns, pc[c] # "idle", Judge(c, FALSE, FALSE),
         Alone(c), chal'[req[c].ch].state = "used",
         UNCHANGED <<now, sent, config, toks, earned, revokedAt>>,
         ChalsSpent, KeysGrow, CrlTrue'
  PROVE  AuthInv'
BY JudgeKeeps

\* The first step of a verdict.
LEMMA VerdictStarts ==
  ASSUME AuthInv, NEW c \in Conns, pc[c] # "idle", NEW e, e = req[c].evidence,
         StartVerdict(c, e), Alone(c), chal'[req[c].ch].state = "used",
         UNCHANGED <<now, sent, config, toks, earned, revokedAt>>,
         ChalsSpent, KeysGrow, CrlTrue'
  PROVE  AuthInv'
<1>1. CASE Judge(c, FALSE, FALSE)
  BY <1>1, RefusalKeeps
<1>2. ASSUME NEW where \in Verdicts \ {"mint", "commit"}, NEW carried, Goto(c, where, carried),
             where = "find" => e.type = "ios" /\ e.package \in Allowed /\ e.headers,
             where \in {"crl", "fetch"} => e.type = "key" /\ ChainDecodes(e),
             where \in {"exchange", "decode"} =>
               e.type = "play" /\ e.package \in Allowed /\ e.headers
      PROVE  AuthInv'
  <2>1. pc'[c] = where /\ req'[c] = req[c]
    BY <1>2 DEF Goto, Suspend, AuthInv, AuthTyped
  <2>2. Judged(c)'
    BY <1>2, <2>1 DEF Judged, ChainDecodes
  <2>3. Mints(c)'
    BY <2>1 DEF Mints
  <2>4. QED
    BY <1>2, <2>2, <2>3, AuthGoes
<1>3. e.type \in {"ios", "key", "play", "other"}
  BY EvidenceAssumption DEF EvidenceAssumption, Alone
<1>4. CASE e.type = "ios"
  <2>1. \/ Judge(c, FALSE, FALSE)
        \/ Goto(c, "find", None) /\ e.package \in Allowed /\ e.headers
    BY <1>4 DEF StartVerdict
  <2>2. QED
    BY <1>1, <1>2, <1>4, <2>1 DEF Verdicts
<1>5. CASE e.type = "key"
  <2>1. \/ Judge(c, FALSE, FALSE)
        \/ Goto(c, "crl", None) /\ ChainDecodes(e)
    BY <1>5 DEF StartVerdict
  <2>2. QED
    BY <1>1, <1>2, <1>5, <2>1 DEF Verdicts
<1>6. CASE e.type = "play"
  <2>1. \/ Judge(c, FALSE, FALSE)
        \/ /\ e.package \in Allowed /\ e.headers
           /\ \/ Judge(c, Sealed(e) /\ PayloadOk(e.payload, config.play), PlayDistributed(e.payload))
              \/ Goto(c, "decode", None) \/ Goto(c, "exchange", [at |-> now])
    BY <1>6, Zenon DEF StartVerdict
  <2>2. QED
    BY <1>1, <1>2, <1>6, <2>1, PlayJudged DEF Verdicts
<1>7. CASE e.type = "other"
  <2>1. Judge(c, FALSE, FALSE)
    BY <1>7 DEF StartVerdict
  <2>2. QED
    BY <1>1, <2>1
<1>8. QED
  BY <1>3, <1>4, <1>5, <1>6, <1>7

\* A challenge is spent by the one handler whose UPDATE finds it live.
LEMMA ConsumeKeeps ==
  ASSUME AuthInv, NEW c \in Conns, ConsumeChallenge(c) PROVE AuthInv'
<1>0. /\ AuthTyped /\ CrlTrue /\ TokensRooted /\ pc[c] = "consume" /\ pc[c] # "idle"
      /\ \A d \in Conns : Owns(d) /\ Holds(d)
      /\ UNCHANGED <<now, sent, config, toks, earned, revokedAt, attKeys, crl>>
  BY DEF ConsumeChallenge, Answered, AuthInv, HandlerOk
<1>1. KeysGrow /\ CrlTrue'
  BY <1>0, TablesKept
<1>2. CASE ~Spendable(req[c].ch)
  <2>1. Finish(c, "Unauthorized") /\ UNCHANGED chal
    BY <1>2 DEF ConsumeChallenge
  <2>2. ChalsSpent
    BY <1>0, <2>1, TablesKept
  <2>3. QED
    BY <1>0, <1>1, <2>1, <2>2, AuthEnds
<1>3. CASE Spendable(req[c].ch)
  <2> DEFINE h == req[c].ch
  <2>1. /\ h \in Chals /\ req[c].op \in {"token", "attest"}
        /\ req[c].op = "token" => req[c].evidence \in AllEvidence
        /\ req[c].op = "attest" => req[c].key \in AttestKeys
    BY <1>0 DEF Holds
  <2>2. chal' = [chal EXCEPT ![h].state = "used"] /\ chal[h].state = "live"
    BY <1>3 DEF ConsumeChallenge, Spendable
  <2>3. ChalsSpent /\ chal'[h].state = "used"
    BY <1>0, <2>1, <2>2 DEF ChalsSpent, AuthTyped
  <2>4. CASE req[c].op = "attest"
    <3>1. \/ \E what : Finish(c, what)
          \/ Goto(c, "upsert", None)
      BY <1>3, <2>4, Zenon DEF ConsumeChallenge
    <3>2. CASE Goto(c, "upsert", None)
      <4>1. /\ pc' = [pc EXCEPT ![c] = "upsert"] /\ DOMAIN req' = Conns /\ DOMAIN loc' = Conns
            /\ \A d \in Conns \ {c} : req'[d] = req[d] /\ loc'[d] = loc[d]
            /\ req'[c] = req[c]
        BY <1>0, <3>2 DEF Goto, Suspend, AuthTyped
      <4>2. pc'[c] = "upsert"
        BY <1>0, <4>1 DEF AuthTyped
      <4>3. HandlerOk(c)'
        BY <2>1, <2>4, <4>1, <4>2
           DEF HandlerOk, Holds, Rotates, Owns, Judged, Mints, Verdicts
      <4>4. "upsert" \in AuthPcs
        BY DEF AuthPcs
      <4>5. QED
        BY <1>0, <1>1, <2>3, <4>1, <4>3, <4>4, AuthMoves DEF ChalsSpent
    <3>3. QED
      BY <1>0, <1>1, <2>3, <3>1, <3>2, AuthEnds
  <2>5. CASE req[c].op = "token"
    <3>1. Alone(c)
      <4>1. \A t \in Issued : toks[t].root # h
        BY <1>0, <2>2 DEF TokensRooted
      <4>2. \A d \in Conns \ {c} : pc[d] \in Verdicts => req[d].ch # h
        BY <1>0, <2>2 DEF Owns
      <4>3. QED
        BY <2>1, <2>5, <4>1, <4>2 DEF Alone
    <3>2. \/ Finish(c, "Unauthorized")
          \/ /\ config.mode = "off"
             /\ Goto(c, "mint", [store |-> TRUE, at |-> now, epoch |-> 0])
          \/ StartVerdict(c, req[c].evidence)
      BY <1>3, <2>5 DEF ConsumeChallenge
    <3>3. CASE StartVerdict(c, req[c].evidence)
      BY <1>0, <1>1, <2>3, <3>1, <3>3, VerdictStarts
    <3>4. CASE /\ config.mode = "off"
               /\ Goto(c, "mint", [store |-> TRUE, at |-> now, epoch |-> 0])
      <4>1. /\ pc'[c] = "mint" /\ req'[c] = req[c]
            /\ loc'[c] = [store |-> TRUE, at |-> now, epoch |-> 0]
        BY <1>0, <3>4 DEF Goto, Suspend, AuthTyped
      <4>2. loc'[c].store = TRUE /\ loc'[c].at = now /\ loc'[c].epoch = 0
        BY <4>1
      <4>3. now \in 0..now' /\ config'.mode = "off"
        BY <1>0, <3>4 DEF AuthTyped
      <4>4. Mints(c)'
        <5>1. Sound(req[c].evidence, loc[c].at, loc[c].epoch)'
          BY <4>2, <4>3 DEF Sound, Counted
        <5>2. loc'[c].store \in BOOLEAN /\ ~(config'.mode # "off")
          BY <4>2, <4>3
        <5>3. QED
          BY <4>2, <5>1, <5>2 DEF Mints, Apart
      <4>5. Judged(c)' /\ "mint" \in Verdicts
        BY <4>1 DEF Judged, Verdicts
      <4>6. QED
        BY <1>0, <1>1, <2>3, <3>1, <3>4, <4>4, <4>5, AuthGoes
    <3>5. QED
      BY <1>0, <1>1, <2>3, <3>2, <3>3, <3>4, AuthEnds
  <2>6. QED
    BY <2>1, <2>4, <2>5
<1>4. QED
  BY <1>2, <1>3

\* A registration begins a new epoch of its key.
LEMMA UpsertKeeps ==
  ASSUME AuthInv, NEW c \in Conns, UpsertKey(c) PROVE AuthInv'
<1> DEFINE k == req[c].key
<1>0. /\ AuthTyped /\ CrlTrue /\ pc[c] = "upsert" /\ pc[c] # "idle" /\ k \in AttestKeys
      /\ UNCHANGED <<now, sent, config, toks, earned, revokedAt, chal, crl>>
  BY DEF UpsertKey, Answered, AuthInv, HandlerOk, Holds
<1>1. PICK n : n = (IF attKeys[k] = None THEN 1 ELSE attKeys[k].epoch + 1)
  OBVIOUS
<1>2. attKeys' = [attKeys EXCEPT ![k] = [count |-> 0, epoch |-> n]]
  BY <1>1 DEF UpsertKey
<1>3. n \in Nat /\ (attKeys[k] # None => attKeys[k].epoch \in Nat /\ attKeys[k].epoch < n)
  <2>1. attKeys[k] # None => attKeys[k].epoch \in Nat
    BY <1>0 DEF AuthTyped, KeyRow
  <2>2. QED
    BY <1>1, <2>1
<1>4. /\ attKeys'[k] = [count |-> 0, epoch |-> n] /\ \A j \in AttestKeys \ {k} : attKeys'[j] = attKeys[j]
      /\ [count |-> 0, epoch |-> n] \in KeyRow
  BY <1>0, <1>2, <1>3 DEF AuthTyped, KeyRow
<1>5. attKeys' \in [AttestKeys -> {None} \cup KeyRow]
  BY <1>0, <1>2, <1>4 DEF AuthTyped
<1>6. ASSUME NEW j \in AttestKeys, attKeys[j] # None
      PROVE  /\ attKeys'[j] # None /\ attKeys[j].epoch <= attKeys'[j].epoch
             /\ attKeys[j].epoch = attKeys'[j].epoch => attKeys[j].count <= attKeys'[j].count
  <2>1. CASE j = k
    <3>1. attKeys'[j] # None
      BY <1>4, <2>1, AuthConstants
    <3>2. attKeys'[j].epoch = n
      BY <1>4, <2>1
    <3>3. QED
      BY <1>3, <1>6, <2>1, <3>1, <3>2
  <2>2. CASE j # k
    <3>1. attKeys[j].epoch \in Nat /\ attKeys[j].count \in Nat
      BY <1>0, <1>6 DEF AuthTyped, KeyRow
    <3>2. QED
      BY <1>4, <1>6, <2>2, <3>1
  <2>3. QED
    BY <2>1, <2>2
<1>7. KeysGrow
  BY <1>5, <1>6 DEF KeysGrow
<1>8. ChalsSpent /\ CrlTrue'
  BY <1>0, TablesKept
<1>9. QED
  BY <1>0, <1>7, <1>8, AuthEnds DEF UpsertKey

\* What a handler in its verdict has.
LEMMA InVerdict ==
  ASSUME AuthInv, NEW c \in Conns, pc[c] \in Verdicts
  PROVE  /\ Alone(c) /\ chal[req[c].ch].state = "used" /\ Judged(c)
         /\ req[c].ch \in Chals /\ req[c].evidence \in AllEvidence /\ pc[c] # "idle"
BY DEF AuthInv, HandlerOk, Owns, Alone, Verdicts

\* The assertion is checked against the stored key and counter.
LEMMA FindKeeps ==
  ASSUME AuthInv, NEW c \in Conns, FindKey(c) PROVE AuthInv'
<1> DEFINE e == req[c].evidence
<1>0. /\ AuthTyped /\ CrlTrue /\ pc[c] = "find" /\ pc[c] \in Verdicts
      /\ UNCHANGED <<now, sent, config, toks, earned, revokedAt, attKeys, chal, crl>>
  BY DEF FindKey, Answered, AuthInv, authVars, Verdicts
<1>1. ChalsSpent /\ KeysGrow /\ CrlTrue'
  BY <1>0, TablesKept
<1>2. /\ Alone(c) /\ chal'[req[c].ch].state = "used" /\ pc[c] # "idle"
      /\ e.type = "ios" /\ e.package \in Allowed /\ e.headers
  BY <1>0, InVerdict DEF Judged
<1>3. CASE Judge(c, FALSE, FALSE)
  BY <1>0, <1>1, <1>2, <1>3, RefusalKeeps
<1>4. CASE attKeys[e.key] # None /\ AssertionOk(e, attKeys[e.key].count) /\ Goto(c, "commit", None)
  <2>1. pc'[c] = "commit" /\ req'[c] = req[c]
    BY <1>0, <1>4 DEF Goto, Suspend, AuthTyped
  <2>2. Judged(c)'
    BY <1>0, <1>2, <1>4, <2>1 DEF Judged, AssertionOk
  <2>3. Mints(c)' /\ "commit" \in Verdicts
    BY <2>1 DEF Mints, Verdicts
  <2>4. QED
    BY <1>0, <1>1, <1>2, <1>4, <2>2, <2>3, AuthGoes
<1>5. QED
  BY <1>3, <1>4 DEF FindKey

\* The counter moves, and the session rests on its new value.
LEMMA CommitKeeps ==
  ASSUME AuthInv, NEW c \in Conns, CommitCount(c) PROVE AuthInv'
<1>a. PICK e : e = req[c].evidence
  OBVIOUS
<1>0. /\ AuthTyped /\ CrlTrue /\ Minted /\ pc[c] = "commit" /\ pc[c] \in Verdicts
      /\ \A d \in Conns : Mints(d)
      /\ UNCHANGED <<now, sent, config, toks, earned, revokedAt, chal, crl>>
  BY DEF CommitCount, Answered, AuthInv, HandlerOk, Verdicts
<1>1. ChalsSpent /\ CrlTrue'
  BY <1>0, TablesKept
<1>2. /\ Alone(c) /\ chal'[req[c].ch].state = "used" /\ pc[c] # "idle" /\ e \in AllEvidence
      /\ e.type = "ios" /\ e.package \in Allowed /\ e.headers
      /\ e.signature /\ e.app \in Allowed /\ attKeys[e.key] # None
  BY <1>0, <1>a, InVerdict DEF Judged
<1>3. e.key \in AttestKeys /\ e.count \in Nat
  BY <1>2, EvidenceAssumption DEF EvidenceAssumption
<1>4. attKeys[e.key] \in KeyRow
  BY <1>0, <1>2, <1>3 DEF AuthTyped
<1>5. CASE ~Advances(e.key, e.count)
  <2>1. Judge(c, FALSE, FALSE) /\ UNCHANGED attKeys
    BY <1>5, <1>a DEF CommitCount
  <2>2. KeysGrow
    BY <1>0, <2>1, TablesKept
  <2>3. QED
    BY <1>0, <1>1, <1>2, <2>1, <2>2, RefusalKeeps
<1>6. CASE Advances(e.key, e.count)
  <2>1. PICK row : row = attKeys[e.key]
    OBVIOUS
  <2>2. row.count \in Nat /\ row.epoch \in Nat /\ row.count < e.count
    BY <1>4, <1>6, <2>1 DEF KeyRow, Advances
  <2>3. /\ attKeys' = [attKeys EXCEPT ![e.key].count = e.count]
        /\ Goto(c, "mint", [store |-> TRUE, at |-> now, epoch |-> row.epoch])
    BY <1>6, <1>a, <2>1 DEF CommitCount
  <2>4. /\ attKeys'[e.key] = [count |-> e.count, epoch |-> row.epoch]
        /\ attKeys' \in [AttestKeys -> {None} \cup KeyRow]
        /\ \A j \in AttestKeys \ {e.key} : attKeys'[j] = attKeys[j]
    BY <1>0, <1>3, <1>4, <2>1, <2>3 DEF AuthTyped, KeyRow
  <2>5. attKeys'[e.key] # None /\ attKeys'[e.key].count = e.count /\ attKeys'[e.key].epoch = row.epoch
    <3>1. [count |-> e.count, epoch |-> row.epoch] \in KeyRow
      BY <1>3, <2>2 DEF KeyRow
    <3>2. QED
      BY <2>4, <3>1, AuthConstants
  <2>6. KeysGrow
    <3>1. ASSUME NEW j \in AttestKeys, attKeys[j] # None
          PROVE  /\ attKeys'[j] # None /\ attKeys[j].epoch <= attKeys'[j].epoch
                 /\ attKeys[j].epoch = attKeys'[j].epoch => attKeys[j].count <= attKeys'[j].count
      <4>1. attKeys[j].epoch \in Nat /\ attKeys[j].count \in Nat
        BY <1>0, <3>1 DEF AuthTyped, KeyRow
      <4>2. CASE j = e.key
        BY <1>3, <2>1, <2>2, <2>5, <4>2
      <4>3. CASE j # e.key
        BY <2>4, <3>1, <4>1, <4>3
      <4>4. QED
        BY <4>2, <4>3
    <3>2. QED
      BY <2>4, <3>1 DEF KeysGrow
  <2>7. /\ pc'[c] = "mint" /\ req'[c] = req[c] /\ loc'[c].store = TRUE
        /\ loc'[c].at = now /\ loc'[c].epoch = row.epoch
        /\ \A d \in Conns \ {c} : pc'[d] = pc[d] /\ req'[d] = req[d] /\ loc'[d] = loc[d]
    BY <1>0, <2>3 DEF Goto, Suspend, AuthTyped
  <2>8. Judged(c)' /\ "mint" \in Verdicts
    BY <2>7 DEF Judged, Verdicts
  <2>9. Sound(e, now, row.epoch)'
    <3>1. Verifies(e, config.play)
      BY <1>2 DEF Verifies
    <3>2. e \notin FlawedEvidence
      BY <1>0, <3>1, EvidenceAssumption DEF EvidenceAssumption, AuthTyped
    <3>3. now \in 0..now'
      BY <1>0 DEF AuthTyped
    <3>4. row.epoch <= attKeys'[e.key].epoch /\ e.count <= attKeys'[e.key].count
      BY <1>3, <2>2, <2>5
    <3>5. QED
      BY <1>0, <1>2, <1>3, <2>2, <2>5, <3>2, <3>3, <3>4 DEF Sound, Counted, Unrevoked
  <2>10. ASSUME NEW f, NEW n, NEW at, Sound(f, at, n) PROVE Apart(e, row.epoch, f, n)
    <3>1. ASSUME row.epoch = n, n > 0, e.key = f.key PROVE e.count # f.count
      <4>1. f.count \in Nat /\ f.count <= row.count
        BY <2>1, <2>10, <3>1 DEF Sound, Counted
      <4>2. QED
        BY <1>3, <2>2, <4>1
    <3>2. QED
      BY <3>1 DEF Apart
  <2>11. ASSUME NEW d \in Conns \ {c}, pc'[d] = "mint"
         PROVE  Apart(e, row.epoch, req'[d].evidence, loc'[d].epoch)
    <3>1. PICK f, n, at : f = req[d].evidence /\ n = loc[d].epoch /\ at = loc[d].at
      OBVIOUS
    <3>2. Sound(f, at, n)
      BY <1>0, <2>7, <2>11, <3>1 DEF Mints
    <3>3. QED
      BY <2>7, <2>10, <3>1, <3>2
  <2>12. ASSUME NEW h \in Chals, earned[h] # None
         PROVE  Apart(e, row.epoch, earned'[h].e, earned'[h].epoch)
    <3>1. PICK x : x = earned[h]
      OBVIOUS
    <3>2. Sound(x.e, x.at, x.epoch)
      BY <1>0, <2>12, <3>1 DEF Minted
    <3>3. QED
      BY <1>0, <2>10, <3>1, <3>2
  <2>13. Mints(c)'
    <3>0. e = req'[c].evidence /\ now' = loc'[c].at /\ row.epoch = loc'[c].epoch
      BY <1>0, <1>a, <2>7
    <3>1. Sound(req[c].evidence, loc[c].at, loc[c].epoch)'
      BY <2>9, <3>0 DEF Sound, Counted, Unrevoked
    <3>2. ProvesStore(req'[c].evidence)
      BY <1>a, <1>2, <2>7 DEF ProvesStore
    <3>3. e = req'[c].evidence /\ row.epoch = loc'[c].epoch /\ loc'[c].store \in BOOLEAN
      BY <1>a, <2>7
    <3>4. \A d \in Conns \ {c} : pc'[d] = "mint" =>
            Apart(req'[c].evidence, loc'[c].epoch, req'[d].evidence, loc'[d].epoch)
      BY <2>11, <3>3
    <3>5. \A h \in Chals : earned'[h] # None =>
            Apart(req'[c].evidence, loc'[c].epoch, earned'[h].e, earned'[h].epoch)
      BY <1>0, <2>12, <3>3
    <3>6. QED
      BY <3>1, <3>2, <3>3, <3>4, <3>5 DEF Mints
  <2>14. QED
    BY <1>0, <1>1, <1>2, <2>3, <2>6, <2>8, <2>13, AuthGoes
<1>7. QED
  BY <1>5, <1>6

\* A chain is judged by a list that is complete up to MAX_STALE ago.
LEMMA ChainJudged ==
  ASSUME AuthInv, NEW c \in Conns, pc[c] \in {"crl", "fetch"}, NEW serials,
         JudgeChain(c, serials),
         \A s \in Serials \ serials : revokedAt[s] = None \/ now <= revokedAt[s] + MaxStale,
         UNCHANGED <<now, sent, config, toks, earned, revokedAt, attKeys, chal>>, CrlTrue'
  PROVE  AuthInv'
<1>1. PICK e : e = req[c].evidence
  OBVIOUS
<1>2. /\ AuthTyped /\ pc[c] \in Verdicts
      /\ ChalsSpent /\ KeysGrow
  BY TablesKept DEF AuthInv, Verdicts
<1>3. /\ Alone(c) /\ chal'[req[c].ch].state = "used" /\ pc[c] # "idle" /\ e \in AllEvidence
      /\ e.type = "key" /\ ChainDecodes(e)
  BY <1>1, <1>2, InVerdict DEF Judged
<1>4. PICK ok \in BOOLEAN : ok <=> VerifyChain(e, serials)
  OBVIOUS
<1>5. Judge(c, ok, FALSE)
  <2>1. VerifyChain(e, serials) = ok
    BY <1>4 DEF VerifyChain
  <2>2. QED
    BY <1>1, <2>1 DEF JudgeChain
<1>6. e.serial \in Serials
  BY <1>3, EvidenceAssumption DEF EvidenceAssumption
<1>7. ASSUME ok
      PROVE  e \notin FlawedEvidence /\ e.type # "other" /\ Unrevoked(e, now)
  <2>1. VerifyChain(e, {}) /\ e.serial \notin serials
    BY <1>4, <1>7 DEF VerifyChain, Revoked
  <2>2. Verifies(e, config.play)
    BY <1>3, <2>1 DEF Verifies
  <2>3. e \notin FlawedEvidence
    BY <1>2, <2>2, EvidenceAssumption DEF EvidenceAssumption, AuthTyped
  <2>4. QED
    BY <1>3, <1>6, <2>1, <2>3 DEF Unrevoked
<1>8. QED
  BY <1>1, <1>2, <1>3, <1>5, <1>7, JudgeKeeps

\* The list is read from the cache, fetched, or served stale.
LEMMA CrlKeeps ==
  ASSUME AuthInv, NEW c \in Conns, RevokedSerials(c) \/ CrlFetched(c) \/ CrlFetchFails(c)
  PROVE  AuthInv'
<1>0. /\ AuthTyped /\ CrlTrue /\ pc[c] \in {"crl", "fetch"} /\ pc[c] \in Verdicts
      /\ UNCHANGED <<now, sent, config, toks, earned, revokedAt, attKeys, chal>>
  BY DEF RevokedSerials, CrlFetched, CrlFetchFails, Answered, Failed, AuthInv, Verdicts
<1>1. ChalsSpent /\ KeysGrow /\ (UNCHANGED crl => CrlTrue') /\ MaxStale \in Nat /\ CrlTtl \in Nat
  BY <1>0, TablesKept, AuthConstants
<1>2. /\ Alone(c) /\ chal'[req[c].ch].state = "used" /\ pc[c] # "idle" /\ Judged(c)
  BY <1>0, InVerdict
<1>3. ASSUME crl # None, WithinMaxStale(now - crl.at), NEW s \in Serials \ crl.serials
      PROVE  revokedAt[s] = None \/ now <= revokedAt[s] + MaxStale
  <2>1. revokedAt[s] = None \/ (revokedAt[s] \in Nat /\ crl.at <= revokedAt[s])
    BY <1>0, <1>3 DEF CrlTrue, AuthTyped
  <2>2. crl.at \in Nat /\ now \in Nat /\ now - crl.at <= MaxStale
    BY <1>0, <1>3 DEF CrlTrue, AuthTyped, WithinMaxStale
  <2>3. QED
    BY <1>1, <2>1, <2>2
<1>4. CASE RevokedSerials(c)
  <2>1. CASE Fresh(crl)
    <3>1. crl # None /\ WithinMaxStale(now - crl.at) /\ JudgeChain(c, crl.serials) /\ UNCHANGED crl
      BY <1>4, <2>1 DEF RevokedSerials, Fresh
    <3>2. PICK serials : serials = crl.serials
      OBVIOUS
    <3>3. QED
      BY <1>0, <1>1, <1>3, <3>1, <3>2, ChainJudged
  <2>2. CASE ~Fresh(crl)
    <3>1. Goto(c, "fetch", None) /\ UNCHANGED crl
      BY <1>4, <2>2 DEF RevokedSerials
    <3>2. pc'[c] = "fetch" /\ req'[c] = req[c]
      BY <1>0, <3>1 DEF Goto, Suspend, AuthTyped
    <3>3. Judged(c)'
      BY <1>0, <1>2, <3>2 DEF Judged, ChainDecodes
    <3>4. Mints(c)' /\ "fetch" \in Verdicts
      BY <3>2 DEF Mints, Verdicts
    <3>5. QED
      BY <1>0, <1>1, <1>2, <3>1, <3>3, <3>4, AuthGoes
  <2>3. QED
    BY <2>1, <2>2
<1>5. CASE CrlFetched(c)
  <2>1. PICK listed : listed = {s \in Serials : revokedAt[s] # None}
    OBVIOUS
  <2>2. crl' = [at |-> now, serials |-> listed] /\ JudgeChain(c, listed)
    BY <1>5, <2>1 DEF CrlFetched
  <2>3. crl'.at = now /\ crl'.serials = listed
    BY <2>2
  <2>4. CrlTrue'
    BY <1>0, <2>1, <2>3 DEF CrlTrue, AuthTyped
  <2>5. \A s \in Serials \ listed : revokedAt[s] = None \/ now <= revokedAt[s] + MaxStale
    BY <2>1
  <2>6. QED
    BY <1>0, <2>2, <2>4, <2>5, ChainJudged
<1>6. CASE CrlFetchFails(c)
  <2>1. UNCHANGED crl
    BY <1>6 DEF CrlFetchFails
  <2>2. CASE crl # None /\ WithinMaxStale(now - crl.at)
    <3>1. JudgeChain(c, crl.serials)
      BY <1>6, <2>2 DEF CrlFetchFails
    <3>2. PICK serials : serials = crl.serials
      OBVIOUS
    <3>3. QED
      BY <1>0, <1>1, <1>3, <2>1, <2>2, <3>1, <3>2, ChainJudged
  <2>3. CASE ~(crl # None /\ WithinMaxStale(now - crl.at))
    <3>1. Finish(c, "CrlUnavailable") \/ Judge(c, FALSE, FALSE)
      BY <1>6, <2>3 DEF CrlFetchFails
    <3>2. QED
      BY <1>0, <1>1, <1>2, <2>1, <3>1, AuthEnds, RefusalKeeps
  <2>4. QED
    BY <2>2, <2>3
<1>7. QED
  BY <1>4, <1>5, <1>6

\* Google exchanges the credentials, decodes the verdict, or fails.
LEMMA GoogleKeeps ==
  ASSUME AuthInv, NEW c \in Conns, Exchange(c) \/ Decode(c) \/ GoogleFails(c) PROVE AuthInv'
<1>0. /\ AuthTyped /\ CrlTrue /\ pc[c] \in {"exchange", "decode"} /\ pc[c] \in Verdicts
      /\ UNCHANGED <<now, sent, config, toks, earned, revokedAt, attKeys, chal, crl>>
  BY DEF Exchange, Decode, GoogleFails, Answered, Failed, AuthInv, Verdicts, authVars
<1>1. ChalsSpent /\ KeysGrow /\ CrlTrue'
  BY <1>0, TablesKept
<1>2. /\ Alone(c) /\ chal'[req[c].ch].state = "used" /\ pc[c] # "idle" /\ Judged(c)
  BY <1>0, InVerdict
<1>3. CASE GoogleFails(c)
  BY <1>0, <1>1, <1>2, <1>3, RefusalKeeps DEF GoogleFails
<1>4. CASE Decode(c)
  <2>1. PICK e : e = req[c].evidence
    OBVIOUS
  <2>2. e.type = "play" /\ e.package \in Allowed /\ e.headers
    BY <1>0, <1>2, <2>1 DEF Judged
  <2>3. Judge(c, Sealed(e) /\ PayloadOk(e.payload, config.play), PlayDistributed(e.payload))
    BY <1>4, <2>1 DEF Decode
  <2>4. QED
    BY <1>0, <1>1, <1>2, <2>1, <2>2, <2>3, PlayJudged
<1>5. CASE Exchange(c)
  <2>1. Goto(c, "decode", None)
    BY <1>5 DEF Exchange
  <2>2. pc'[c] = "decode" /\ req'[c] = req[c]
    BY <1>0, <2>1 DEF Goto, Suspend, AuthTyped
  <2>3. Judged(c)'
    BY <1>0, <1>2, <2>2 DEF Judged
  <2>4. Mints(c)' /\ "decode" \in Verdicts
    BY <2>2 DEF Mints, Verdicts
  <2>5. QED
    BY <1>0, <1>1, <1>2, <2>1, <2>3, <2>4, AuthGoes
<1>6. QED
  BY <1>3, <1>4, <1>5

\* The presented row is locked.
LEMMA SelectKeeps ==
  ASSUME AuthInv, NEW c \in Conns, SelectToken(c) PROVE AuthInv'
<1> DEFINE t == req[c].tok
<1>0. /\ AuthTyped /\ CrlTrue /\ pc[c] = "select" /\ pc[c] # "idle" /\ t \in Issued \cup {None}
      /\ UNCHANGED <<now, sent, config, toks, earned, revokedAt, attKeys, chal, crl>>
  BY DEF SelectToken, Answered, AuthInv, authVars, HandlerOk, Holds
<1>1. ChalsSpent /\ KeysGrow /\ CrlTrue'
  BY <1>0, TablesKept
<1>2. CASE Finish(c, "Unauthorized")
  BY <1>0, <1>1, <1>2, AuthEnds
<1>3. CASE t # None /\ ~toks[t].used /\ Goto(c, "rotate", None)
  <2>1. /\ pc' = [pc EXCEPT ![c] = "rotate"] /\ DOMAIN req' = Conns /\ DOMAIN loc' = Conns
        /\ \A d \in Conns \ {c} : req'[d] = req[d] /\ loc'[d] = loc[d]
        /\ req'[c] = req[c]
    BY <1>0, <1>3 DEF Goto, Suspend, AuthTyped
  <2>2. /\ pc'[c] = "rotate" /\ \A d \in Conns \ {c} : pc'[d] = pc[d]
        /\ Issued' = Issued
    BY <1>0, <2>1 DEF AuthTyped, Issued
  <2>3. Rotates(c)'
    BY <1>0, <1>3, <2>1, <2>2 DEF Rotates, SelectToken, RowFree
  <2>4. HandlerOk(c)'
    BY <2>2, <2>3 DEF HandlerOk, Holds, Owns, Judged, Mints, Verdicts
  <2>5. "rotate" \in AuthPcs
    BY DEF AuthPcs
  <2>6. QED
    BY <1>0, <1>1, <2>1, <2>4, <2>5, AuthMoves DEF ChalsSpent
<1>4. QED
  BY <1>2, <1>3 DEF SelectToken

\* The next token is the first that was not issued, and there is one.
LEMMA NextTokIs ==
  ASSUME AuthInv, NEW c \in Conns, pc[c] # "idle"
  PROVE  NextTok = Cardinality(Issued) + 1 /\ NextTok \in Toks \ Issued
<1>1. PICK k : k = Cardinality(Issued)
  OBVIOUS
<1>2. k \in Nat /\ Issued = 1..k /\ k + Cardinality(Busy) <= sent + 1
  BY <1>1, TokensFinite DEF AuthInv, TokensInOrder
<1>3. Cardinality(Busy) >= 1
  <2>1. c \in Busy /\ {} \subseteq Busy \ {c} /\ IsFiniteSet(Busy) /\ Cardinality(Busy) \in Nat
    BY TokensFinite DEF Busy
  <2>2. Cardinality({}) \in Nat /\ Cardinality({}) <= Cardinality(Busy) - 1
    BY <2>1, CountDrops
  <2>3. QED
    BY <2>1, <2>2
<1>4. sent \in Nat /\ sent <= MaxSent /\ MaxSent \in Nat /\ Cardinality(Busy) \in Nat
  BY TokensFinite, AuthConstants DEF AuthInv, AuthTyped
<1>5. k + 1 \in Toks /\ k + 1 \notin Issued
  BY <1>2, <1>3, <1>4 DEF Toks
<1>6. toks[k + 1] = None /\ \A u \in 1..((k + 1) - 1) : toks[u] # None
  BY <1>2, <1>5 DEF Issued
<1>7. ASSUME NEW t \in Toks, toks[t] = None, \A u \in 1..(t - 1) : toks[u] # None
      PROVE  t = k + 1
  <2>1. t \in Nat /\ t >= 1
    BY <1>4, <1>7 DEF Toks
  <2>2. t \notin 1..k
    BY <1>2, <1>7 DEF Issued
  <2>3. ~(k + 1 \in 1..(t - 1))
    BY <1>6, <1>7
  <2>4. QED
    BY <1>2, <2>1, <2>2, <2>3
<1>8. NextTok = k + 1
  BY <1>5, <1>6, <1>7 DEF NextTok
<1>9. QED
  BY <1>1, <1>5, <1>8

\* One more token for a handler that is done.
LEMMA TokenAdded ==
  ASSUME AuthInv, NEW c \in Conns, NEW what, pc[c] # "idle", Finish(c, what), sent' = sent,
         NEW n, n = NextTok, toks'[n] # None,
         \A u \in Toks \ {n} : (toks'[u] = None) <=> (toks[u] = None)
  PROVE  Issued' = Issued \cup {n} /\ TokensInOrder'
<1>1. PICK k : k = Cardinality(Issued)
  OBVIOUS
<1>2. k \in Nat /\ Issued = 1..k /\ k + Cardinality(Busy) <= sent + 1
  BY <1>1, TokensFinite DEF AuthInv, TokensInOrder
<1>3. n = k + 1 /\ n \in Toks
  BY <1>1, NextTokIs
<1>4. Issued' = Issued \cup {n}
  BY <1>3 DEF Issued
<1>5. Issued' = 1..(k + 1)
  BY <1>2, <1>3, <1>4
<1>6. Cardinality(Issued') = k + 1
  <2>1. 1 \in Int /\ k + 1 \in Int
    BY <1>2
  <2>2. Cardinality(1..(k + 1)) = IF 1 > k + 1 THEN 0 ELSE (k + 1) - 1 + 1
    BY <2>1, FS_Interval
  <2>3. QED
    BY <1>2, <1>5, <2>2
<1>7. c \in Busy /\ Busy' \subseteq Busy \ {c} /\ IsFiniteSet(Busy) /\ Cardinality(Busy) \in Nat
  BY TokensFinite DEF Busy, Finish, AuthInv, AuthTyped
<1>8. Cardinality(Busy') \in Nat /\ Cardinality(Busy') <= Cardinality(Busy) - 1
  BY <1>7, CountDrops
<1>9. sent \in Nat
  BY AuthConstants DEF AuthInv, AuthTyped
<1>10. TokensInOrder'
  BY <1>2, <1>5, <1>6, <1>7, <1>8, <1>9 DEF TokensInOrder
<1>11. QED
  BY <1>4, <1>10

\* The other handlers, when one ends with a session.
LEMMA OthersStand ==
  ASSUME AuthInv, NEW c \in Conns, NEW what, Finish(c, what),
         UNCHANGED <<now, config, chal, attKeys, revokedAt>>, Issued \subseteq Issued',
         \A d \in Conns \ {c} : pc[d] = "rotate" => toks'[req[d].tok] = toks[req[d].tok],
         \A d \in Conns \ {c} : pc[d] \in Verdicts =>
           \A t \in Issued' : toks'[t].root # req[d].ch,
         \A d \in Conns \ {c} : pc[d] = "mint" =>
           \A h \in Chals \ {req[d].ch} : earned'[h] # None =>
             Apart(req[d].evidence, loc[d].epoch, earned'[h].e, earned'[h].epoch)
  PROVE  \A d \in Conns : HandlerOk(d)'
<1>0. /\ AuthTyped
      /\ \A d \in Conns : Holds(d) /\ Rotates(d) /\ Owns(d) /\ Judged(d) /\ Mints(d)
  BY DEF AuthInv, HandlerOk
<1>1. /\ pc'[c] = "idle"
      /\ \A d \in Conns \ {c} : pc'[d] = pc[d] /\ req'[d] = req[d] /\ loc'[d] = loc[d]
  BY <1>0 DEF Finish, AuthTyped
<1>2. HandlerOk(c)'
  BY <1>1 DEF HandlerOk, Holds, Rotates, Owns, Judged, Mints, Verdicts
<1>3. ASSUME NEW d \in Conns \ {c} PROVE HandlerOk(d)'
  <2>1. pc'[d] = pc[d] /\ req'[d] = req[d] /\ loc'[d] = loc[d]
    BY <1>1
  <2>2. Holds(d)' /\ Judged(d)'
    BY <1>0, <2>1 DEF Holds, Judged
  <2>3. Rotates(d)'
    BY <1>0, <1>1, <2>1 DEF Rotates
  <2>4. Owns(d)'
    <3>1. "idle" \notin Verdicts
      BY DEF Verdicts
    <3>2. QED
      BY <1>0, <1>1, <2>1, <3>1 DEF Owns, Alone
  <2>5. ASSUME pc[d] = "mint" PROVE Mints(d)'
    <3>1. Sound(req[d].evidence, loc[d].at, loc[d].epoch)'
      BY <1>0, <2>1, <2>5 DEF Mints, Sound, Counted, Unrevoked
    <3>2. /\ loc'[d].store \in BOOLEAN
          /\ config'.mode # "off" /\ loc'[d].store => ProvesStore(req'[d].evidence)
      BY <1>0, <2>1, <2>5 DEF Mints
    <3>3. ASSUME NEW b \in Conns \ {d}, pc'[b] = "mint"
          PROVE  Apart(req'[d].evidence, loc'[d].epoch, req'[b].evidence, loc'[b].epoch)
      <4>1. b # c
        BY <1>1, <3>3
      <4>2. QED
        BY <1>0, <1>1, <2>1, <2>5, <3>3, <4>1 DEF Mints
    <3>4. \A h \in Chals \ {req'[d].ch} : earned'[h] # None =>
            Apart(req'[d].evidence, loc'[d].epoch, earned'[h].e, earned'[h].epoch)
      BY <2>1, <2>5
    <3>5. QED
      BY <3>1, <3>2, <3>3, <3>4 DEF Mints
  <2>6. pc[d] # "mint" => Mints(d)'
    BY <2>1 DEF Mints
  <2>7. QED
    BY <2>2, <2>3, <2>4, <2>5, <2>6 DEF HandlerOk
<1>4. QED
  BY <1>2, <1>3

\* A session is minted on the evidence its handler judged.
LEMMA MintKeeps ==
  ASSUME AuthInv, NEW c \in Conns, MintSession(c) PROVE AuthInv'
<1>1. PICK in, l, n : in = req[c] /\ l = loc[c] /\ n = NextTok
  OBVIOUS
<1>2. PICK row : row = [root |-> in.ch, store |-> l.store, plt |-> Platform(in.evidence),
                        used |-> FALSE, exp |-> now + RefreshTtl]
  OBVIOUS
<1>3. PICK ground : ground = [e |-> in.evidence, at |-> l.at, epoch |-> l.epoch]
  OBVIOUS
<1>4. /\ pc[c] = "mint" /\ pc[c] # "idle" /\ pc[c] \in Verdicts /\ Finish(c, "session")
      /\ toks' = [toks EXCEPT ![n] = row]
      /\ earned' = [earned EXCEPT ![in.ch] = ground]
      /\ UNCHANGED <<now, sent, config, chal, attKeys, crl, revokedAt>>
  BY <1>1, <1>2, <1>3 DEF MintSession, Answered, Verdicts
<1>5. /\ AuthTyped /\ TokensRooted /\ CrlTrue /\ Minted
      /\ \A d \in Conns : Mints(d) /\ Owns(d) /\ Rotates(d)
  BY DEF AuthInv, HandlerOk
<1>6. /\ in.ch \in Chals /\ chal[in.ch].state = "used" /\ in.evidence \in AllEvidence
      /\ \A t \in Issued : toks[t].root # in.ch
      /\ \A d \in Conns \ {c} : pc[d] \in Verdicts => req[d].ch # in.ch
  BY <1>1, <1>4, <1>5 DEF Owns, Alone
<1>7. l.store \in BOOLEAN /\ Sound(in.evidence, l.at, l.epoch)
  BY <1>1, <1>4, <1>5 DEF Mints
<1>8. row \in TokenRow
  <2>1. now + RefreshTtl \in Nat
    BY <1>5, AuthConstants DEF AuthTyped
  <2>2. QED
    BY <1>2, <1>6, <1>7, <2>1 DEF TokenRow, Platform
<1>9. n \in Toks \ Issued
  BY <1>1, <1>4, NextTokIs
<1>10. /\ toks'[n] = row /\ \A u \in Toks \ {n} : toks'[u] = toks[u]
       /\ earned'[in.ch] = ground /\ \A h \in Chals \ {in.ch} : earned'[h] = earned[h]
       /\ row # None
  BY <1>4, <1>5, <1>6, <1>8, <1>9, AuthConstants DEF AuthTyped
<1>11. Issued' = Issued \cup {n} /\ TokensInOrder'
  BY <1>1, <1>4, <1>10, TokenAdded
<1>12. AuthTyped'
  <2>1. toks' \in [Toks -> {None} \cup TokenRow]
    BY <1>4, <1>5, <1>8 DEF AuthTyped
  <2>2. /\ pc' \in [Conns -> AuthPcs] /\ DOMAIN req' = Conns /\ DOMAIN loc' = Conns
        /\ DOMAIN earned' = Chals
    BY <1>4, <1>5 DEF Finish, AuthTyped, AuthPcs
  <2>3. QED
    BY <1>4, <1>5, <2>1, <2>2 DEF AuthTyped
<1>13. row.root = in.ch /\ row.store = l.store
  BY <1>2
<1>14. \A t \in Issued : t # n /\ t \in Toks /\ toks'[t] = toks[t]
  BY <1>9, <1>10 DEF Issued
<1>15. TokensRooted'
  BY <1>4, <1>5, <1>6, <1>10, <1>11, <1>13, <1>14 DEF TokensRooted
<1>16. CrlTrue'
  BY <1>4, <1>5 DEF CrlTrue
<1>17. Minted'
  <2>1. ASSUME NEW h \in Chals, earned'[h] # None
        PROVE  earned'[h].e \in AllEvidence /\ Sound(earned[h].e, earned[h].at, earned[h].epoch)'
    <3>1. PICK x : x = earned'[h]
      OBVIOUS
    <3>2. Sound(x.e, x.at, x.epoch) /\ x.e \in AllEvidence
      <4>1. CASE h = in.ch
        BY <1>3, <1>6, <1>7, <1>10, <3>1, <4>1
      <4>2. CASE h # in.ch
        BY <1>5, <1>10, <2>1, <3>1, <4>2 DEF Minted
      <4>3. QED
        BY <4>1, <4>2
    <3>3. Sound(x.e, x.at, x.epoch)'
      BY <1>4, <3>2 DEF Sound, Counted, Unrevoked
    <3>4. QED
      BY <3>1, <3>2, <3>3 DEF Sound, Counted, Unrevoked
  <2>2. ASSUME NEW h \in Chals \ {in.ch}, earned'[h] # None
        PROVE  Apart(ground.e, ground.epoch, earned'[h].e, earned'[h].epoch)
    <3>1. Apart(in.evidence, l.epoch, earned[h].e, earned[h].epoch)
      BY <1>1, <1>4, <1>5, <1>10, <2>2 DEF Mints
    <3>2. ground.e = in.evidence /\ ground.epoch = l.epoch
      BY <1>3
    <3>3. QED
      BY <1>10, <3>1, <3>2
  <2>3. ASSUME NEW g \in Chals, NEW h \in Chals, g # h, earned'[g] # None, earned'[h] # None
        PROVE  Apart(earned'[g].e, earned'[g].epoch, earned'[h].e, earned'[h].epoch)
    <3>1. CASE g = in.ch
      BY <1>10, <2>2, <2>3, <3>1
    <3>2. CASE h = in.ch
      BY <1>10, <2>2, <2>3, <3>2 DEF Apart
    <3>3. CASE g # in.ch /\ h # in.ch
      BY <1>5, <1>10, <2>3, <3>3 DEF Minted
    <3>4. QED
      BY <3>1, <3>2, <3>3
  <2>4. ASSUME config'.mode # "off", NEW t \in Issued', toks'[t].store
        PROVE  ProvesStore(earned'[toks'[t].root].e)
    <3>1. CASE t = n
      <4>1. ProvesStore(in.evidence)
        BY <1>1, <1>4, <1>5, <1>10, <1>13, <2>4, <3>1 DEF Mints
      <4>2. earned'[toks'[t].root].e = in.evidence
        BY <1>3, <1>10, <1>13, <3>1
      <4>3. QED
        BY <4>1, <4>2
    <3>2. CASE t \in Issued
      <4>1. toks[t].root \in Chals \ {in.ch} /\ toks'[t] = toks[t]
        BY <1>5, <1>6, <1>14, <3>2 DEF AuthTyped, Issued, TokenRow
      <4>2. earned'[toks'[t].root] = earned[toks[t].root]
        BY <1>10, <4>1
      <4>3. QED
        BY <1>4, <1>5, <2>4, <3>2, <4>1, <4>2 DEF Minted
    <3>3. QED
      BY <1>11, <3>1, <3>2
  <2>5. QED
    BY <2>1, <2>3, <2>4 DEF Minted
<1>18. \A d \in Conns : HandlerOk(d)'
  <2>1. \A d \in Conns \ {c} : pc[d] = "rotate" => toks'[req[d].tok] = toks[req[d].tok]
    BY <1>5, <1>14 DEF Rotates
  <2>2. ASSUME NEW d \in Conns \ {c}, pc[d] \in Verdicts, NEW t \in Issued'
        PROVE  toks'[t].root # req[d].ch
    BY <1>5, <1>6, <1>10, <1>11, <1>13, <1>14, <2>2 DEF Owns, Alone
  <2>3. ASSUME NEW d \in Conns \ {c}, pc[d] = "mint", NEW h \in Chals \ {req[d].ch},
               earned'[h] # None
        PROVE  Apart(req[d].evidence, loc[d].epoch, earned'[h].e, earned'[h].epoch)
    <3>1. CASE h = in.ch
      <4>1. Apart(req[d].evidence, loc[d].epoch, in.evidence, l.epoch)
        BY <1>1, <1>4, <1>5, <2>3 DEF Mints
      <4>2. earned'[h].e = in.evidence /\ earned'[h].epoch = l.epoch
        BY <1>3, <1>10, <3>1
      <4>3. QED
        BY <4>1, <4>2
    <3>2. CASE h # in.ch
      BY <1>5, <1>10, <2>3, <3>2 DEF Mints
    <3>3. QED
      BY <3>1, <3>2
  <2>4. QED
    BY <1>4, <1>11, <2>1, <2>2, <2>3, OthersStand
<1>19. QED
  BY <1>11, <1>12, <1>15, <1>16, <1>17, <1>18 DEF AuthInv

\* A rotation spends its row and puts one successor in its place.
LEMMA RotateKeeps ==
  ASSUME AuthInv, NEW c \in Conns, RotateToken(c) PROVE AuthInv'
<1>1. PICK t, n : t = req[c].tok /\ n = NextTok
  OBVIOUS
<1>2. /\ pc[c] = "rotate" /\ pc[c] # "idle" /\ \E what : Finish(c, what)
      /\ UNCHANGED <<now, sent, config, chal, attKeys, crl, revokedAt, earned>>
  BY DEF RotateToken, Answered, Failed
<1>3. /\ AuthTyped /\ TokensRooted /\ CrlTrue /\ Minted
      /\ \A d \in Conns : Mints(d) /\ Owns(d) /\ Rotates(d)
  BY DEF AuthInv, HandlerOk
<1>4. ChalsSpent /\ KeysGrow /\ CrlTrue'
  BY <1>2, <1>3, TablesKept
<1>5. CASE UNCHANGED toks
  BY <1>2, <1>4, <1>5, AuthEnds
<1>6. CASE Rotated(t)
  <2>1. /\ t \in Issued /\ t \in Toks /\ ~toks[t].used /\ toks[t] \in TokenRow
        /\ \A d \in Conns \ {c} : pc[d] = "rotate" => req[d].tok # t
    BY <1>1, <1>2, <1>3 DEF Rotates, Issued, AuthTyped
  <2>2. n \in Toks \ Issued
    BY <1>1, <1>2, NextTokIs
  <2>3. PICK row : row = toks[t]
    OBVIOUS
  <2>4. PICK new : new = [row EXCEPT !.used = FALSE, !.exp = now + RefreshTtl]
    OBVIOUS
  <2>5. toks' = [toks EXCEPT ![t].used = TRUE, ![n] = new]
    BY <1>1, <1>6, <2>3, <2>4 DEF Rotated
  <2>6. now + RefreshTtl \in Nat
    BY <1>3, AuthConstants DEF AuthTyped
  <2>7. new \in TokenRow /\ new.root = row.root /\ new.store = row.store
    BY <2>1, <2>3, <2>4, <2>6 DEF TokenRow
  <2>8. [row EXCEPT !.used = TRUE] \in TokenRow
    BY <2>1, <2>3 DEF TokenRow
  <2>9. /\ toks'[n] = new /\ toks'[t] = [row EXCEPT !.used = TRUE]
        /\ \A u \in Toks \ {t, n} : toks'[u] = toks[u]
        /\ toks' \in [Toks -> {None} \cup TokenRow]
    BY <1>3, <2>1, <2>2, <2>3, <2>5, <2>7, <2>8 DEF AuthTyped
  <2>10. /\ toks'[t].used = TRUE /\ toks'[t].root = row.root /\ toks'[t].store = row.store
         /\ toks'[t] # None /\ toks'[n] # None
    BY <2>1, <2>3, <2>7, <2>8, <2>9, AuthConstants DEF TokenRow
  <2>11. \A u \in Toks \ {n} : (toks'[u] = None) <=> (toks[u] = None)
    BY <2>1, <2>9, <2>10 DEF Issued
  <2>12. Issued' = Issued \cup {n} /\ TokensInOrder'
    BY <1>1, <1>2, <2>10, <2>11, TokenAdded
  <2>13. AuthTyped'
    <3>1. pc' \in [Conns -> AuthPcs] /\ DOMAIN req' = Conns /\ DOMAIN loc' = Conns
      BY <1>2, <1>3 DEF Finish, AuthTyped, AuthPcs
    <3>2. QED
      BY <1>2, <1>3, <2>9, <3>1 DEF AuthTyped
  <2>14. \A u \in Issued : u # n /\ u \in Toks /\ (u # t => toks'[u] = toks[u])
    BY <2>2, <2>9 DEF Issued
  <2>15. \A u \in Issued : toks'[u].root = toks[u].root /\ toks'[u].store = toks[u].store
    BY <2>3, <2>10, <2>14
  <2>16. TokensRooted'
    <3>1. \A u \in Issued' : chal'[toks'[u].root].state = "used"
      BY <1>2, <1>3, <2>1, <2>3, <2>7, <2>9, <2>12, <2>15 DEF TokensRooted
    <3>2. ASSUME NEW u \in Issued', NEW v \in Issued', u # v, toks'[u].root = toks'[v].root,
                 ~toks'[u].used, ~toks'[v].used
          PROVE  FALSE
      <4>1. u # t /\ v # t
        BY <2>10, <3>2
      <4>2. ASSUME NEW w \in Issued \ {t}, toks'[w].root = row.root, ~toks'[w].used PROVE FALSE
        BY <1>3, <2>1, <2>3, <2>14, <4>2 DEF TokensRooted
      <4>3. CASE u = n
        BY <2>7, <2>9, <2>12, <3>2, <4>1, <4>2, <4>3
      <4>4. CASE v = n
        BY <2>7, <2>9, <2>12, <3>2, <4>1, <4>2, <4>4
      <4>5. CASE u # n /\ v # n
        BY <1>3, <2>12, <2>14, <3>2, <4>1, <4>5 DEF TokensRooted
      <4>6. QED
        BY <4>3, <4>4, <4>5
    <3>3. QED
      BY <3>1, <3>2 DEF TokensRooted
  <2>17. Minted'
    <3>1. ASSUME config'.mode # "off", NEW u \in Issued', toks'[u].store
          PROVE  ProvesStore(earned'[toks'[u].root].e)
      <4>1. PICK w \in Issued : toks'[u].root = toks[w].root /\ toks'[u].store = toks[w].store
        BY <2>1, <2>3, <2>7, <2>9, <2>12, <2>15
      <4>2. QED
        BY <1>2, <1>3, <3>1, <4>1 DEF Minted
    <3>2. \A h \in Chals : earned'[h] # None =>
            earned'[h].e \in AllEvidence /\ Sound(earned[h].e, earned[h].at, earned[h].epoch)'
      BY <1>2, <1>3 DEF Minted, Sound, Counted, Unrevoked
    <3>3. QED
      BY <1>2, <1>3, <3>1, <3>2 DEF Minted
  <2>18. \A d \in Conns : HandlerOk(d)'
    <3>1. \A d \in Conns \ {c} : pc[d] = "rotate" => toks'[req[d].tok] = toks[req[d].tok]
      BY <1>3, <2>1, <2>14 DEF Rotates
    <3>2. ASSUME NEW d \in Conns \ {c}, pc[d] \in Verdicts, NEW u \in Issued'
          PROVE  toks'[u].root # req[d].ch
      BY <1>3, <2>1, <2>3, <2>7, <2>9, <2>12, <2>15, <3>2 DEF Owns, Alone
    <3>3. \A d \in Conns \ {c} : pc[d] = "mint" =>
            \A h \in Chals \ {req[d].ch} : earned'[h] # None =>
              Apart(req[d].evidence, loc[d].epoch, earned'[h].e, earned'[h].epoch)
      BY <1>2, <1>3 DEF Mints
    <3>4. QED
      BY <1>2, <2>12, <3>1, <3>2, <3>3, OthersStand
  <2>19. QED
    BY <1>4, <2>12, <2>13, <2>16, <2>17, <2>18 DEF AuthInv
<1>7. QED
  BY <1>1, <1>5, <1>6 DEF RotateToken

\* Time passes, or Google revokes a certificate, as of now.
LEMMA AuthWaits ==
  ASSUME AuthInv, Revoke \/ AuthTick PROVE AuthInv'
<1>0. /\ AuthTyped /\ TokensInOrder /\ TokensRooted /\ CrlTrue /\ Minted
      /\ \A c \in Conns : Holds(c) /\ Rotates(c) /\ Owns(c) /\ Judged(c) /\ Mints(c)
  BY DEF AuthInv, HandlerOk
<1>1. UNCHANGED <<sent, pc, req, loc, config, chal, toks, attKeys, crl, earned>>
  BY DEF Revoke, AuthTick, Tick, servingVars, authVars
<1>2. now \in Nat /\ now' \in Nat /\ now <= now' /\ MaxStale \in Nat /\ None \notin Int
  BY <1>0, AuthConstants DEF AuthTyped, Revoke, AuthTick, Tick, servingVars
<1>3. /\ revokedAt' \in [Serials -> {None} \cup Nat]
      /\ \A s \in Serials : \/ revokedAt'[s] = revokedAt[s]
                            \/ revokedAt[s] = None /\ revokedAt'[s] = now
  BY <1>0 DEF AuthTyped, Revoke, AuthTick, authVars
<1>4. AuthTyped'
  BY <1>0, <1>1, <1>2, <1>3 DEF AuthTyped
<1>5. Issued' = Issued /\ Busy' = Busy
  BY <1>1 DEF Issued, Busy
<1>6. TokensInOrder' /\ TokensRooted'
  BY <1>0, <1>1, <1>5 DEF TokensInOrder, TokensRooted
<1>7. CrlTrue'
  BY <1>0, <1>1, <1>2, <1>3 DEF CrlTrue
<1>8. ASSUME NEW e, NEW at, NEW n, Sound(e, at, n), e.type = "key" => e.serial \in Serials
      PROVE  Sound(e, at, n)'
  <2>1. at \in Nat /\ at <= now /\ at \in 0..now'
    BY <1>2, <1>8 DEF Sound
  <2>2. ASSUME e.type = "key", revokedAt[e.serial] = None \/ at <= revokedAt[e.serial] + MaxStale
        PROVE  revokedAt'[e.serial] = None \/ at <= revokedAt'[e.serial] + MaxStale
    BY <1>2, <1>3, <1>8, <2>1, <2>2
  <2>3. QED
    BY <1>1, <1>8, <2>1, <2>2 DEF Sound, Unrevoked, Counted
<1>9. ASSUME NEW h \in Chals, earned[h] # None
      PROVE  Sound(earned[h].e, earned[h].at, earned[h].epoch)'
  <2>1. PICK x : x = earned[h]
    OBVIOUS
  <2>2. Sound(x.e, x.at, x.epoch) /\ x.e \in AllEvidence
    BY <1>0, <1>9, <2>1 DEF Minted
  <2>3. Sound(x.e, x.at, x.epoch)'
    BY <1>8, <1>9, <2>1, <2>2, EvidenceAssumption DEF EvidenceAssumption
  <2>4. QED
    BY <1>1, <2>1, <2>3 DEF Sound, Unrevoked, Counted
<1>10. Minted'
  BY <1>0, <1>1, <1>5, <1>9 DEF Minted, Apart, ProvesStore
<1>11. ASSUME NEW c \in Conns PROVE HandlerOk(c)'
  <2>1. Holds(c)' /\ Rotates(c)' /\ Owns(c)' /\ Judged(c)'
    BY <1>0, <1>1, <1>5 DEF Holds, Rotates, Owns, Alone, Judged
  <2>2. ASSUME pc[c] = "mint" PROVE Sound(req[c].evidence, loc[c].at, loc[c].epoch)'
    <3>1. PICK e, l : e = req[c].evidence /\ l = loc[c]
      OBVIOUS
    <3>2. Sound(e, l.at, l.epoch) /\ e \in AllEvidence
      BY <1>0, <2>2, <3>1 DEF Mints, Owns, Alone, Verdicts
    <3>3. Sound(e, l.at, l.epoch)'
      BY <1>8, <3>2, EvidenceAssumption DEF EvidenceAssumption
    <3>4. QED
      BY <1>1, <3>1, <3>3 DEF Sound, Unrevoked, Counted
  <2>3. Mints(c)'
    BY <1>0, <1>1, <2>2 DEF Mints, Apart, ProvesStore
  <2>4. QED
    BY <2>1, <2>3 DEF HandlerOk
<1>12. QED
  BY <1>4, <1>6, <1>7, <1>10, <1>11 DEF AuthInv

\* One client has a session, on the first challenge.
LEMMA AuthStarts == Init => (role = "auth" => AuthInv)
<1> SUFFICES ASSUME Init, role = "auth" PROVE AuthInv
  OBVIOUS
<1>1. AuthInit /\ ServingInit
  BY DEF Init
<1>2. /\ MaxSent \in Nat /\ MaxChal \in Nat \ {0} /\ ChallengeTtl \in Nat /\ RefreshTtl \in Nat
      /\ None \notin TokenRow /\ None \notin KeyRow
  BY AuthConstants
<1>3. 1 \in Chals /\ 1 \in Toks
  BY <1>2 DEF Chals, Toks
<1>4. PICK first : first = [root |-> 1, store |-> TRUE, plt |-> "ios", used |-> FALSE,
                            exp |-> RefreshTtl]
  OBVIOUS
<1>5. first \in TokenRow /\ first # None
  <2>1. RefreshTtl \in Nat
    BY <1>2
  <2>2. first \in TokenRow
    BY <1>3, <1>4, <2>1 DEF TokenRow
  <2>3. QED
    BY <1>2, <2>2
<1>6. toks = [t \in Toks |-> IF t = 1 THEN first ELSE None]
  BY <1>1, <1>4 DEF AuthInit
<1>7. Issued = {1} /\ toks[1] = first /\ first.root = 1 /\ first.store = TRUE
  BY <1>3, <1>4, <1>5, <1>6 DEF Issued
<1>8. PICK key, count : key = FirstEvidence.key /\ count = FirstEvidence.count
  OBVIOUS
<1>9. key \in AttestKeys /\ count \in Nat /\ FirstEvidence.type = "ios"
  <2>1. FirstEvidence \in AllEvidence
    BY DEF AllEvidence
  <2>2. QED
    BY <1>8, <2>1, EvidenceAssumption DEF EvidenceAssumption
<1>10. [count |-> count, epoch |-> 1] \in KeyRow
  BY <1>9 DEF KeyRow
<1>11. attKeys = [k \in AttestKeys |-> IF k = key THEN [count |-> count, epoch |-> 1] ELSE None]
  BY <1>1, <1>8 DEF AuthInit
<1>12. attKeys[key] = [count |-> count, epoch |-> 1] /\ attKeys[key] # None
  BY <1>2, <1>9, <1>10, <1>11
<1>13. AuthTyped
  <2>1. toks \in [Toks -> {None} \cup TokenRow]
    BY <1>5, <1>6
  <2>2. attKeys \in [AttestKeys -> {None} \cup KeyRow]
    BY <1>10, <1>11
  <2>3. chal \in [Chals -> [state : {"none", "live", "used"}, exp : Nat]]
    BY <1>1, <1>2 DEF AuthInit
  <2>4. revokedAt \in [Serials -> {None} \cup Nat] /\ DOMAIN earned = Chals /\ config \in AuthConfigs
    BY <1>1 DEF AuthInit
  <2>5. /\ now \in Nat /\ sent \in 0..MaxSent /\ pc \in [Conns -> AuthPcs]
        /\ DOMAIN req = Conns /\ DOMAIN loc = Conns
    BY <1>1, <1>2 DEF ServingInit, AuthPcs
  <2>6. QED
    BY <2>1, <2>2, <2>3, <2>4, <2>5 DEF AuthTyped
<1>14. TokensInOrder
  <2>1. Cardinality(Issued) = 1
    BY <1>7, FS_Singleton
  <2>2. Busy = {} /\ Cardinality({}) = 0
    BY <1>1, FS_EmptySet DEF Busy, ServingInit
  <2>3. sent = 0 /\ Issued = 1..1
    BY <1>1, <1>7 DEF ServingInit
  <2>4. QED
    BY <2>1, <2>2, <2>3 DEF TokensInOrder
<1>15. TokensRooted
  <2>1. chal[1].state = "used"
    BY <1>1, <1>3 DEF AuthInit
  <2>2. QED
    BY <1>7, <2>1 DEF TokensRooted
<1>16. CrlTrue
  BY <1>1 DEF AuthInit, CrlTrue
<1>17. earned = [h \in Chals |-> IF h = 1 THEN [e |-> FirstEvidence, at |-> 0, epoch |-> 1] ELSE None]
  BY <1>1 DEF AuthInit
<1>18. /\ earned[1].e = FirstEvidence /\ earned[1].at = 0 /\ earned[1].epoch = 1
       /\ \A h \in Chals \ {1} : earned[h] = None
  BY <1>3, <1>17
<1>19. Verifies(FirstEvidence, config.play)
  BY <1>13, EvidenceAssumption DEF EvidenceAssumption, AuthTyped
<1>20. Sound(FirstEvidence, 0, 1)
  <2>1. FirstEvidence \notin FlawedEvidence
    BY <1>13, <1>19, EvidenceAssumption DEF EvidenceAssumption, AuthTyped
  <2>2. Counted(FirstEvidence, 1)
    BY <1>8, <1>9, <1>12 DEF Counted
  <2>3. 0 \in 0..now
    BY <1>1 DEF ServingInit
  <2>4. QED
    BY <1>9, <2>1, <2>2, <2>3 DEF Sound, Unrevoked
<1>21. Minted
  <2>1. ProvesStore(FirstEvidence)
    BY <1>9, <1>19 DEF Verifies, ProvesStore
  <2>2. FirstEvidence \in AllEvidence
    BY DEF AllEvidence
  <2>3. QED
    BY <1>3, <1>7, <1>18, <1>20, <2>1, <2>2 DEF Minted
<1>22. ASSUME NEW c \in Conns PROVE HandlerOk(c)
  <2>1. pc[c] = "idle"
    BY <1>1 DEF ServingInit
  <2>2. QED
    BY <2>1 DEF HandlerOk, Holds, Rotates, Owns, Judged, Mints, Verdicts
<1>23. QED
  BY <1>13, <1>14, <1>15, <1>16, <1>21, <1>22 DEF AuthInv

\* The invariant of the handshake.
LEMMA AuthHolds == Spec => [](role = "auth" => AuthInv)
<1> DEFINE Inv == role = "auth" => AuthInv
<1>1. Init => Inv
  BY AuthStarts
<1>2. Inv /\ [Next]_vars => Inv'
  <2> SUFFICES ASSUME Inv, [Next]_vars, role = "auth" PROVE AuthInv'
    BY RoleKept
  <2>1. CASE AuthNext
    BY <2>1, AuthArrives, AuthSimpleEnds, ConsumeKeeps, UpsertKeeps, FindKeeps, CommitKeeps,
       CrlKeeps, GoogleKeeps, MintKeeps, SelectKeeps, RotateKeeps, AuthWaits
       DEF AuthNext, AuthStep
  <2>2. CASE UNCHANGED <<servingVars, authVars>>
    BY <2>2 DEF AuthInv, AuthTyped, TokensInOrder, TokensRooted, CrlTrue, Minted, HandlerOk,
                Holds, Rotates, Owns, Alone, Judged, Mints, Sound, Unrevoked, Counted, Busy,
                Issued, servingVars, authVars
  <2>3. AuthNext \/ UNCHANGED <<servingVars, authVars>>
    BY DEF Next, vars, Quiet
  <2>4. QED
    BY <2>1, <2>2, <2>3
<1>3. QED
  BY <1>1, <1>2, PTL DEF Spec

\* Sessions are earned, for any number of connections, challenges and faults: a challenge
\* carries at most one unspent refresh token however handlers, rotations and lost answers
\* interleave; a store claim rests on store evidence through every rotation; hard mode
\* mints only on evidence that verifies and on no chain revoked for longer than the CRL
\* cache allows; and a registration accepts no App Attest counter twice (the token,
\* attest and refresh routes over challenge, key and token tables).
THEOREM SessionsAreEarned == Spec => []SessionsEarned
<1>1. (role = "auth" => AuthInv) => SessionsEarned
  <2> SUFFICES ASSUME AuthInv PROVE SessionsEarned
    BY DEF SessionsEarned
  <2>1. ASSUME NEW h \in Chals
        PROVE  Cardinality({t \in Issued : toks[t].root = h /\ ~toks[t].used}) <= 1
    <3> DEFINE S == {t \in Issued : toks[t].root = h /\ ~toks[t].used}
    <3>1. CASE S = {}
      BY <3>1, FS_EmptySet
    <3>2. CASE S # {}
      <4>1. PICK t \in S : TRUE
        BY <3>2
      <4>2. S = {t}
        BY <4>1 DEF AuthInv, TokensRooted
      <4>3. QED
        BY <4>2, FS_Singleton
    <3>3. QED
      BY <3>1, <3>2
  <2>2. config.mode # "off" =>
          \A t \in Issued : toks[t].store => ProvesStore(earned[toks[t].root].e)
    BY DEF AuthInv, Minted
  <2>3. ASSUME config.mode = "hard", NEW h \in Chals, earned[h] # None
        PROVE  /\ earned[h].e \notin FlawedEvidence
               /\ earned[h].e.type # "other"
               /\ earned[h].e.type = "key" => NotLongRevoked(h)
    BY <2>3 DEF AuthInv, Minted, Sound, Unrevoked, NotLongRevoked
  <2>4. \A g, h \in Chals :
          /\ g # h /\ earned[g] # None /\ earned[h] # None
          /\ earned[g].epoch = earned[h].epoch /\ earned[g].epoch > 0
          /\ earned[g].e.key = earned[h].e.key
          => earned[g].e.count # earned[h].e.count
    BY DEF AuthInv, Minted, Apart
  <2>5. QED
    BY <2>1, <2>2, <2>3, <2>4 DEF SessionsEarned
<1>2. QED
  BY <1>1, AuthHolds, PTL

--------------------------------------------------------------------------------
(* The invitation tickets.                                                 *)

\* A maintainer's batch: keys by position.
KeyMaps == UNION {[S -> Tickets] : S \in SUBSET (1..BatchMax)}
Holding == {"submit", "watch", "insert"}
Maintainer == [pc : Holding \cup {"sleep", "count"}, i : DOMAIN PoolDims, keys : KeyMaps,
               inserted : Nat]
ClaimPcs == {"idle", "precheck", "select", "update", "sign"}

PoolTyped ==
  /\ faults \in Nat /\ fresh \in 1..(MaxTickets + 1)
  /\ maint \in [Maintainers -> Maintainer] /\ DOMAIN finalized = Maintainers
  /\ batchSize \in [Maintainers -> [DOMAIN PoolDims -> 1..BatchMax]]
  /\ inflight \subseteq [by : Maintainers, keys : KeyMaps, dim : Dims]
  /\ onChain \subseteq Tickets \X Dims
  /\ rows \in [Tickets -> {None} \cup TicketRow]

\* Keys are generated once: what is known of a key was generated before.
Generated ==
  /\ \A b \in inflight : \A n \in DOMAIN b.keys : b.keys[n] < fresh
  /\ \A e \in onChain : e[1] < fresh
  /\ \A t \in Tickets : rows[t] # None => <<t, rows[t].dim>> \in onChain

\* A maintainer's keys are its own and have no row yet.
Stock(m) ==
  LET w == maint[m] IN
  /\ w.pc \in Holding =>
       /\ \A n \in DOMAIN w.keys : w.keys[n] < fresh /\ rows[w.keys[n]] = None
       /\ \A k, n \in DOMAIN w.keys : w.keys[k] = w.keys[n] => k = n
       /\ \A x \in Maintainers \ {m} : maint[x].pc \in Holding =>
            \A k \in DOMAIN maint[x].keys, n \in DOMAIN w.keys : maint[x].keys[k] # w.keys[n]
  /\ w.pc \in {"submit", "watch"} => \E s \in 1..BatchMax : DOMAIN w.keys = 1..s

\* What a maintainer knows of its batch is so on chain.
Progress(m) ==
  LET w == maint[m] IN
  /\ w.pc \in {"sleep", "count", "submit"} => finalized[m] = None
  /\ w.pc = "submit" => \A b \in inflight : b.keys # w.keys
  /\ w.pc = "watch" => \A b \in inflight :
       b.by = m /\ b.keys = w.keys => b.dim = PoolDims[w.i]
  /\ w.pc = "watch" /\ finalized[m] # None => \A n \in DOMAIN w.keys :
       ItemAccepted(finalized[m], n) => <<w.keys[n], PoolDims[w.i]>> \in onChain
  /\ w.pc = "insert" => \A n \in DOMAIN w.keys : <<w.keys[n], PoolDims[w.i]>> \in onChain

\* While nothing has failed, the lock keeps one maintainer at work, whose batch is in
\* flight until it knows its outcome, which fits the pool, and which loses no key.
Alive(m) ==
  LET w == maint[m] IN
  /\ w.pc # "sleep" => tickLock = m
  /\ w.pc = "watch" /\ finalized[m] = None => \E b \in inflight : b.by = m
  /\ \A n \in DOMAIN w.keys, e \in onChain : e[1] = w.keys[n] =>
       /\ w.pc # "submit"
       /\ w.pc = "watch" => finalized[m] # None /\ ItemAccepted(finalized[m], n)
  /\ w.pc \in Holding =>
       Cardinality(Available(PoolDims[w.i])) + Cardinality(DOMAIN w.keys) <= Target
Calm == faults = 0 =>
  /\ \A m \in Maintainers : Alive(m)
  /\ \A b \in inflight : /\ maint[b.by].pc = "watch" /\ maint[b.by].keys = b.keys
                         /\ finalized[b.by] = None
  /\ \A e \in onChain : rows[e[1]] # None \/ \E m \in Maintainers :
       maint[m].pc \in Holding /\ \E n \in DOMAIN maint[m].keys : maint[m].keys[n] = e[1]
  /\ \A d \in Dims : Cardinality(Available(d)) <= Target

PoolInv == /\ PoolTyped /\ Generated /\ Calm
           /\ \A m \in Maintainers : Stock(m) /\ Progress(m)

ClaimTyped ==
  /\ pc \in [Conns -> ClaimPcs] /\ DOMAIN req = Conns /\ DOMAIN loc = Conns
  /\ handed \in [Tickets -> {0, 1}]

\* A row is locked by one handler and available; a claimed key is in one handler's hands
\* and was not handed out.
Claiming(c) ==
  LET t == loc[c].key IN
  /\ pc[c] # "idle" => loc[c] \in [tries : Nat, key : Tickets \cup {None}]
  /\ pc[c] \in {"update", "sign"} =>
       /\ t \in Tickets /\ rows[t] # None
       /\ \A d \in Conns \ {c} : pc[d] = pc[c] => loc[d].key # t
  /\ pc[c] = "update" => rows[t].state = "available"
  /\ pc[c] = "sign" => rows[t].state = "claimed" /\ handed[t] = 0

\* Claimed keys nobody has: each cost a fault.
LostKeys == {t \in Tickets : /\ rows[t] # None /\ rows[t].state = "claimed"
                             /\ handed[t] = 0 /\ t \notin InHandler}
ClaimInv ==
  /\ ClaimTyped /\ Cardinality(LostKeys) <= faults
  /\ \A c \in Conns : Claiming(c)
  /\ \A t \in Tickets : handed[t] = 1 => rows[t] # None /\ rows[t].state = "claimed"

\* The settings of the pools.
LEMMA PoolConstants ==
  /\ Target \in Nat /\ MaxTickets \in Nat /\ BatchMax \in Nat \ {0} /\ DbRetries \in Nat
  /\ Len(PoolDims) \in Nat \ {0} /\ DOMAIN PoolDims = 1..Len(PoolDims)
  /\ None \notin TicketRow /\ None \notin Maintainers /\ None \notin Int
  /\ \A n \in 1..BatchMax : None \notin [1..n -> BOOLEAN]
BY InviteAssumption, TicketAssumption, ServingAssumption
   DEF InviteAssumption, TicketAssumption, ServingAssumption

\* Tickets and batches are finite.
LEMMA TicketsFinite ==
  /\ IsFiniteSet(Tickets)
  /\ \A d : IsFiniteSet(Available(d)) /\ Cardinality(Available(d)) \in Nat
  /\ \A S \in SUBSET (1..BatchMax) : IsFiniteSet(S) /\ Cardinality(S) \in Nat
<1>1. 1 \in Int /\ MaxTickets \in Int /\ BatchMax \in Int
  BY PoolConstants
<1>2. IsFiniteSet(Tickets) /\ IsFiniteSet(1..BatchMax)
  BY <1>1, FS_Interval DEF Tickets
<1>3. \A d : Available(d) \subseteq Tickets
  BY DEF Available
<1>4. QED
  BY <1>2, <1>3, FS_Subset, FS_CardinalityType

\* A batch is a function on positions.
LEMMA KeyMapIs ==
  ASSUME NEW f \in KeyMaps
  PROVE  f \in [DOMAIN f -> Tickets] /\ DOMAIN f \in SUBSET (1..BatchMax)
<1>1. PICK S \in SUBSET (1..BatchMax) : f \in [S -> Tickets]
  BY Zenon DEF KeyMaps
<1>2. QED
  BY <1>1

\* And the other way round.
LEMMA KeyMapMade ==
  ASSUME NEW S \in SUBSET (1..BatchMax), NEW f \in [S -> Tickets]
  PROVE  f \in KeyMaps
BY Zenon DEF KeyMaps

\* The parts of a maintainer's record.
LEMMA MaintainerIs ==
  ASSUME PoolTyped, NEW m \in Maintainers
  PROVE  /\ maint[m] \in Maintainer /\ maint[m].pc \in Holding \cup {"sleep", "count"}
         /\ maint[m].i \in DOMAIN PoolDims /\ maint[m].keys \in KeyMaps
         /\ maint[m].inserted \in Nat
         /\ DOMAIN maint[m].keys \in SUBSET (1..BatchMax)
         /\ \A n \in DOMAIN maint[m].keys : maint[m].keys[n] \in Tickets
<1>1. /\ maint[m] \in Maintainer /\ maint[m].pc \in Holding \cup {"sleep", "count"}
      /\ maint[m].i \in DOMAIN PoolDims /\ maint[m].keys \in KeyMaps
      /\ maint[m].inserted \in Nat
  BY DEF PoolTyped, Maintainer
<1>2. PICK f \in KeyMaps : f = maint[m].keys
  BY <1>1
<1>3. f \in [DOMAIN f -> Tickets] /\ DOMAIN f \in SUBSET (1..BatchMax)
  BY KeyMapIs
<1>4. QED
  BY <1>1, <1>2, <1>3

\* Claims only turn available rows into claimed ones, which the maintainers never notice
\* but in the count.
LEMMA PoolUnderClaims ==
  ASSUME PoolInv, UNCHANGED <<maint, batchSize, tickLock, inflight, finalized, onChain, fresh>>,
         faults' \in {faults, faults + 1}, rows' \in [Tickets -> {None} \cup TicketRow],
         \A t \in Tickets : /\ rows'[t] = None <=> rows[t] = None
                            /\ rows[t] # None => rows'[t].dim = rows[t].dim
                            /\ rows'[t] # None /\ rows'[t].state = "available" =>
                                 rows[t].state = "available"
  PROVE  PoolInv'
<1>0. /\ PoolTyped /\ Generated /\ Calm /\ faults \in Nat
      /\ \A m \in Maintainers : Stock(m) /\ Progress(m)
  BY DEF PoolInv, PoolTyped
<1>1. PoolTyped'
  BY <1>0 DEF PoolTyped
<1>2. Generated'
  BY <1>0 DEF Generated
<1>3. ASSUME NEW m \in Maintainers PROVE Stock(m)' /\ Progress(m)'
  <2>1. Stock(m)'
    BY <1>0, MaintainerIs DEF Stock
  <2>2. Progress(m)'
    BY <1>0 DEF Progress, ItemAccepted
  <2>3. QED
    BY <2>1, <2>2
<1>4. \A d : Available(d)' \subseteq Available(d)
  BY DEF Available
<1>5. \A d : /\ Cardinality(Available(d)') \in Nat /\ Cardinality(Available(d)) \in Nat
             /\ Cardinality(Available(d)') <= Cardinality(Available(d))
  BY <1>4, TicketsFinite, FS_Subset, FS_CardinalityType
<1>6. ASSUME faults' = 0 PROVE Calm'
  <2>1. faults = 0
    BY <1>0, <1>6
  <2>2. ASSUME NEW m \in Maintainers PROVE Alive(m)'
    <3>1. Alive(m)
      BY <1>0, <2>1 DEF Calm
    <3>2. Cardinality(DOMAIN maint[m].keys) \in Nat
      BY <1>0, MaintainerIs, TicketsFinite
    <3>3. PICK d : d = PoolDims[maint[m].i]
      OBVIOUS
    <3>4. maint[m].pc \in Holding =>
            Cardinality(Available(d)') + Cardinality(DOMAIN maint[m].keys) <= Target
      BY <1>5, <3>1, <3>2, <3>3, PoolConstants DEF Alive
    <3>5. QED
      BY <3>1, <3>3, <3>4 DEF Alive, ItemAccepted
  <2>3. \A d \in Dims : Cardinality(Available(d)') <= Target
    BY <1>0, <1>5, <2>1, PoolConstants DEF Calm
  <2>4. \A e \in onChain : e[1] \in Tickets
    BY <1>0 DEF PoolTyped
  <2>5. QED
    BY <1>0, <2>1, <2>2, <2>3, <2>4 DEF Calm
<1>7. Calm'
  BY <1>6 DEF Calm
<1>8. QED
  BY <1>1, <1>2, <1>3, <1>7 DEF PoolInv

\* New rows are available, which the claims in progress never notice.
LEMMA ClaimsUnderPool ==
  ASSUME ClaimInv, faults \in Nat, UNCHANGED <<pc, req, loc, handed>>,
         faults' \in {faults, faults + 1},
         \A t \in Tickets : /\ rows[t] # None => rows'[t] = rows[t]
                            /\ rows[t] = None /\ rows'[t] # None => rows'[t].state = "available"
  PROVE  ClaimInv'
<1>1. ClaimTyped'
  BY DEF ClaimInv, ClaimTyped
<1>2. ASSUME NEW c \in Conns PROVE Claiming(c)'
  BY DEF ClaimInv, Claiming
<1>3. \A t \in Tickets : handed'[t] = 1 => rows'[t] # None /\ rows'[t].state = "claimed"
  BY DEF ClaimInv
<1>4. LostKeys' \subseteq LostKeys
  BY DEF LostKeys, InHandler
<1>5. /\ Cardinality(LostKeys') \in Nat /\ Cardinality(LostKeys) \in Nat
      /\ Cardinality(LostKeys') <= Cardinality(LostKeys)
  <2>1. LostKeys \subseteq Tickets
    BY DEF LostKeys
  <2>2. QED
    BY <1>4, <2>1, TicketsFinite, FS_Subset, FS_CardinalityType
<1>6. Cardinality(LostKeys') <= faults'
  BY <1>5 DEF ClaimInv
<1>7. QED
  BY <1>1, <1>2, <1>3, <1>6 DEF ClaimInv

InviteInv == PoolInv /\ ClaimInv

\* A step of one claim handler touches no key but the one it holds.
LEMMA ClaimSteps ==
  ASSUME ClaimInv, faults \in Nat, NEW c \in Conns, NEW where \in ClaimPcs,
         pc' = [pc EXCEPT ![c] = where], DOMAIN req' = Conns, DOMAIN loc' = Conns,
         \A d \in Conns \ {c} : loc'[d] = loc[d], handed' \in [Tickets -> {0, 1}],
         \A t \in Tickets : t # loc[c].key \/ pc[c] \notin {"update", "sign"} =>
           rows'[t] = rows[t] /\ handed'[t] = handed[t],
         pc[c] \in {"update", "sign"} /\ handed'[loc[c].key] = 1 =>
           rows'[loc[c].key] # None /\ rows'[loc[c].key].state = "claimed",
         \/ faults' = faults + 1
         \/ faults' = faults /\ (pc[c] \in {"update", "sign"} => loc[c].key \notin LostKeys'),
         Claiming(c)'
  PROVE  ClaimInv'
<1> DEFINE k == loc[c].key
<1>0. /\ ClaimTyped /\ Cardinality(LostKeys) <= faults
      /\ \A d \in Conns : Claiming(d)
      /\ \A t \in Tickets : handed[t] = 1 => rows[t] # None /\ rows[t].state = "claimed"
  BY DEF ClaimInv
<1>1. pc'[c] = where /\ \A d \in Conns \ {c} : pc'[d] = pc[d]
  BY <1>0 DEF ClaimTyped
<1>2. ClaimTyped'
  BY <1>0 DEF ClaimTyped
<1>3. ASSUME NEW d \in Conns \ {c}, pc[d] \in {"update", "sign"}
      PROVE  /\ loc[d].key \in Tickets
             /\ loc[d].key # k \/ pc[c] \notin {"update", "sign"}
  BY <1>0, <1>3 DEF Claiming
<1>4. ASSUME NEW d \in Conns PROVE Claiming(d)'
  <2>1. CASE d = c
    BY <2>1
  <2>2. CASE d # c
    <3>1. pc'[d] = pc[d] /\ loc'[d] = loc[d]
      BY <1>1, <2>2
    <3>2. pc[d] \in {"update", "sign"} =>
            rows'[loc[d].key] = rows[loc[d].key] /\ handed'[loc[d].key] = handed[loc[d].key]
      BY <1>3, <2>2
    <3>3. ASSUME NEW b \in Conns \ {d}, pc[d] \in {"update", "sign"}, pc'[b] = pc[d]
          PROVE  loc'[b].key # loc[d].key
      <4>1. CASE b = c
        BY <1>1, <2>2, <3>1, <3>3, <4>1 DEF Claiming
      <4>2. CASE b # c
        BY <1>0, <1>1, <3>3, <4>2 DEF Claiming
      <4>3. QED
        BY <4>1, <4>2
    <3>4. QED
      BY <1>0, <3>1, <3>2, <3>3 DEF Claiming
  <2>3. QED
    BY <2>1, <2>2
<1>5. \A t \in Tickets : handed'[t] = 1 => rows'[t] # None /\ rows'[t].state = "claimed"
  BY <1>0
<1>6. ASSUME NEW t \in LostKeys', t # k \/ pc[c] \notin {"update", "sign"} PROVE t \in LostKeys
  <2>1. /\ t \in Tickets /\ rows[t] # None /\ rows[t].state = "claimed" /\ handed[t] = 0
        /\ t \notin InHandler'
    BY <1>6 DEF LostKeys
  <2>2. ASSUME NEW d \in Conns, pc[d] = "sign", loc[d].key = t PROVE FALSE
    <3>1. d # c
      BY <1>6, <2>2
    <3>2. pc'[d] = "sign" /\ loc'[d].key = t
      BY <1>1, <2>2, <3>1
    <3>3. QED
      BY <2>1, <3>2 DEF InHandler
  <2>3. t \notin InHandler
    BY <2>2 DEF InHandler
  <2>4. QED
    BY <2>1, <2>3 DEF LostKeys
<1>7. LostKeys' \subseteq LostKeys \cup {k} /\ (faults' = faults => LostKeys' \subseteq LostKeys)
  BY <1>6
<1>8. IsFiniteSet(LostKeys)
  <2>1. LostKeys \subseteq Tickets
    BY DEF LostKeys
  <2>2. QED
    BY <2>1, TicketsFinite, FS_Subset
<1>9. /\ Cardinality(LostKeys) \in Nat /\ Cardinality(LostKeys') \in Nat
      /\ Cardinality(LostKeys') <= Cardinality(LostKeys) + 1
      /\ faults' = faults => Cardinality(LostKeys') <= Cardinality(LostKeys)
  BY <1>7, <1>8, CountAdds
<1>10. Cardinality(LostKeys') <= faults'
  BY <1>0, <1>9
<1>11. QED
  BY <1>2, <1>4, <1>5, <1>10 DEF ClaimInv

\* A handler that ends: what it may have done to its key is the caller's to say.
LEMMA ClaimEnds ==
  ASSUME ClaimInv, faults \in Nat, NEW c \in Conns, NEW what, Finish(c, what),
         handed' \in [Tickets -> {0, 1}],
         \A t \in Tickets : t # loc[c].key \/ pc[c] \notin {"update", "sign"} =>
           rows'[t] = rows[t] /\ handed'[t] = handed[t],
         pc[c] \in {"update", "sign"} /\ handed'[loc[c].key] = 1 =>
           rows'[loc[c].key] # None /\ rows'[loc[c].key].state = "claimed",
         \/ faults' = faults + 1
         \/ faults' = faults /\ (pc[c] \in {"update", "sign"} => loc[c].key \notin LostKeys')
  PROVE  ClaimInv'
<1>1. /\ pc' = [pc EXCEPT ![c] = "idle"] /\ DOMAIN req' = Conns /\ DOMAIN loc' = Conns
      /\ \A d \in Conns \ {c} : loc'[d] = loc[d]
  BY DEF Finish, ClaimInv, ClaimTyped
<1>2. pc'[c] = "idle" /\ "idle" \in ClaimPcs
  BY <1>1 DEF ClaimInv, ClaimTyped, ClaimPcs
<1>3. Claiming(c)'
  BY <1>2 DEF Claiming
<1>4. QED
  BY <1>1, <1>2, <1>3, ClaimSteps

\* A handler that goes to read: it holds no row there.
LEMMA ClaimReads ==
  ASSUME ClaimInv, faults \in Nat, NEW c \in Conns, NEW in, NEW where \in {"precheck", "select"},
         NEW carried \in [tries : Nat, key : Tickets \cup {None}], Suspend(c, in, where, carried),
         handed' = handed,
         \A t \in Tickets : t # loc[c].key \/ pc[c] \notin {"update", "sign"} => rows'[t] = rows[t],
         pc[c] \in {"update", "sign"} /\ handed'[loc[c].key] = 1 =>
           rows'[loc[c].key] # None /\ rows'[loc[c].key].state = "claimed",
         \/ faults' = faults + 1
         \/ faults' = faults /\ (pc[c] \in {"update", "sign"} => loc[c].key \notin LostKeys')
  PROVE  ClaimInv'
<1>1. /\ pc' = [pc EXCEPT ![c] = where] /\ DOMAIN req' = Conns /\ DOMAIN loc' = Conns
      /\ \A d \in Conns \ {c} : loc'[d] = loc[d]
      /\ loc'[c] = carried /\ handed' \in [Tickets -> {0, 1}]
  BY DEF Suspend, ClaimInv, ClaimTyped
<1>2. pc'[c] = where /\ where \in ClaimPcs
  BY <1>1 DEF ClaimInv, ClaimTyped, ClaimPcs
<1>3. Claiming(c)'
  BY <1>1, <1>2 DEF Claiming
<1>4. QED
  BY <1>1, <1>2, <1>3, ClaimSteps

\* Nothing of the pools changes but a row that is claimed, if any.
LEMMA OneClaimed ==
  ASSUME PoolInv, UNCHANGED <<maint, batchSize, tickLock, inflight, finalized, onChain, fresh>>,
         faults' \in {faults, faults + 1},
         \/ rows' = rows
         \/ \E t \in Tickets : Claimed(t) /\ rows[t] # None
  PROVE  PoolInv'
<1>1. PoolTyped
  BY DEF PoolInv
<1>2. CASE rows' = rows
  <2>1. rows' \in [Tickets -> {None} \cup TicketRow]
    BY <1>1, <1>2 DEF PoolTyped
  <2>2. QED
    BY <1>2, <2>1, PoolUnderClaims
<1>3. ASSUME NEW t \in Tickets, Claimed(t), rows[t] # None PROVE PoolInv'
  <2>1. PICK row \in TicketRow : row = rows[t]
    BY <1>1, <1>3 DEF PoolTyped
  <2>2. PICK new : new = [row EXCEPT !.state = "claimed"]
    OBVIOUS
  <2>3. new \in TicketRow /\ new.dim = row.dim /\ new.state = "claimed"
    BY <2>2 DEF TicketRow
  <2>4. rows' = [rows EXCEPT ![t] = new]
    BY <1>3, <2>1, <2>2 DEF Claimed
  <2>5. rows'[t] = new /\ \A u \in Tickets \ {t} : rows'[u] = rows[u]
    BY <1>1, <2>4 DEF PoolTyped
  <2>6. rows' \in [Tickets -> {None} \cup TicketRow] /\ new # None
    BY <1>1, <2>3, <2>4, PoolConstants DEF PoolTyped
  <2>7. QED
    BY <1>3, <2>1, <2>3, <2>5, <2>6, PoolUnderClaims
<1>4. QED
  BY <1>2, <1>3

\* What a handler carries.
LEMMA CarriedIs ==
  ASSUME ClaimInv, NEW c \in Conns, pc[c] # "idle"
  PROVE  /\ loc[c] \in [tries : Nat, key : Tickets \cup {None}]
         /\ [loc[c] EXCEPT !.tries = @ + 1] \in [tries : Nat, key : Tickets \cup {None}]
         /\ [loc[c] EXCEPT !.tries = @ + 1].key = loc[c].key
         /\ [loc[c] EXCEPT !.tries = 0] \in [tries : Nat, key : Tickets \cup {None}]
         /\ [loc[c] EXCEPT !.tries = 0].key = loc[c].key
         /\ \A t \in Tickets : /\ [loc[c] EXCEPT !.key = t] \in [tries : Nat, key : Tickets \cup {None}]
                               /\ [loc[c] EXCEPT !.key = t].key = t
<1>1. loc[c] \in [tries : Nat, key : Tickets \cup {None}]
  BY DEF ClaimInv, Claiming
<1>2. PICK l \in [tries : Nat, key : Tickets \cup {None}] : l = loc[c]
  BY <1>1
<1>3. QED
  BY <1>2

\* A request reaches the claim route.
LEMMA ClaimArrival ==
  ASSUME InviteInv, NEW c \in Conns, ClaimArrives(c) PROVE InviteInv'
<1>0. PoolInv /\ ClaimInv /\ faults \in Nat
  BY DEF InviteInv, PoolInv, PoolTyped
<1>1. /\ pc[c] = "idle" /\ UNCHANGED inviteVars
      /\ \E in \in ClaimRequests :
           /\ faults' = faults + (IF in.flawed THEN 1 ELSE 0)
           /\ \/ \E what : Finish(c, what)
              \/ Suspend(c, in, "precheck", [tries |-> 0, key |-> None])
  BY Zenon DEF ClaimArrives, Arrive
<1>2. faults' \in {faults, faults + 1}
  BY <1>0, <1>1
<1>3. PoolInv'
  BY <1>0, <1>1, <1>2, OneClaimed DEF inviteVars
<1>4. UNCHANGED <<rows, handed>> /\ handed' \in [Tickets -> {0, 1}]
  BY <1>0, <1>1 DEF inviteVars, ClaimInv, ClaimTyped
<1>5. ASSUME NEW what, Finish(c, what) PROVE ClaimInv'
  BY <1>0, <1>1, <1>2, <1>4, <1>5, ClaimEnds
<1>6. ASSUME NEW in, Suspend(c, in, "precheck", [tries |-> 0, key |-> None]) PROVE ClaimInv'
  <2>1. [tries |-> 0, key |-> None] \in [tries : Nat, key : Tickets \cup {None}]
    OBVIOUS
  <2>2. QED
    BY <1>0, <1>1, <1>2, <1>4, <1>6, <2>1, ClaimReads
<1>7. QED
  BY <1>1, <1>3, <1>5, <1>6 DEF InviteInv

\* A call of a reading handler that fails is tried again, or surfaces.
LEMMA ReadRetried ==
  ASSUME ClaimInv, faults \in Nat, NEW c \in Conns, NEW where \in {"precheck", "select"},
         pc[c] # "idle", RetryDb(c, where), handed' = handed, faults' = faults + 1,
         \A t \in Tickets : t # loc[c].key \/ pc[c] \notin {"update", "sign"} => rows'[t] = rows[t],
         pc[c] \in {"update", "sign"} /\ handed'[loc[c].key] = 1 =>
           rows'[loc[c].key] # None /\ rows'[loc[c].key].state = "claimed"
  PROVE  ClaimInv'
<1>1. handed' \in [Tickets -> {0, 1}]
  BY DEF ClaimInv, ClaimTyped
<1>2. CASE Finish(c, "Internal")
  BY <1>1, <1>2, ClaimEnds
<1>3. CASE Suspend(c, req[c], where, [loc[c] EXCEPT !.tries = @ + 1])
  <2>1. PICK in, carried : in = req[c] /\ carried = [loc[c] EXCEPT !.tries = @ + 1]
    OBVIOUS
  <2>2. carried \in [tries : Nat, key : Tickets \cup {None}]
    BY <2>1, CarriedIs
  <2>3. Suspend(c, in, where, carried)
    BY <1>3, <2>1
  <2>4. QED
    BY <2>2, <2>3, ClaimReads
<1>4. QED
  BY <1>2, <1>3 DEF RetryDb, Goto

\* The count before the claim.
LEMMA PreCheckKeeps ==
  ASSUME InviteInv, NEW c \in Conns, PreCheck(c) PROVE InviteInv'
<1>0. /\ PoolInv /\ ClaimInv /\ faults \in Nat /\ pc[c] = "precheck" /\ pc[c] # "idle"
      /\ faults' \in {faults, faults + 1} /\ UNCHANGED inviteVars
  BY DEF InviteInv, PoolInv, PoolTyped, PreCheck, Answered, Failed
<1>1. PoolInv'
  BY <1>0, OneClaimed DEF inviteVars
<1> SUFFICES ClaimInv'
  BY <1>1 DEF InviteInv
<1>2. UNCHANGED <<rows, handed>> /\ handed' \in [Tickets -> {0, 1}]
  BY <1>0 DEF inviteVars, ClaimInv, ClaimTyped
<1>3. CASE faults' = faults + 1 /\ RetryDb(c, "precheck")
  BY <1>0, <1>2, <1>3, ReadRetried
<1>4. CASE Finish(c, "PoolExhausted")
  BY <1>0, <1>2, <1>4, ClaimEnds
<1>5. CASE Suspend(c, req[c], "select", [tries |-> 0, key |-> None])
  <2>1. [tries |-> 0, key |-> None] \in [tries : Nat, key : Tickets \cup {None}]
    OBVIOUS
  <2>2. PICK in : in = req[c]
    OBVIOUS
  <2>3. QED
    BY <1>0, <1>2, <1>5, <2>1, <2>2, ClaimReads
<1>6. QED
  BY <1>3, <1>4, <1>5 DEF PreCheck, Failed, Goto

\* The oldest of some rows is one of them.
LEMMA OldestIs ==
  ASSUME NEW ts \in SUBSET Tickets, ts # {}
  PROVE  Oldest(ts) \in ts
<1>1. \A t \in ts : t \in Nat
  BY PoolConstants DEF Tickets
<1>2. \E t \in ts : \A u \in ts : t <= u
  BY <1>1, LeastOf
<1>3. QED
  BY <1>2 DEF Oldest

\* The oldest available row that nobody has locked is locked.
LEMMA SelectOldestKeeps ==
  ASSUME InviteInv, NEW c \in Conns, SelectOldest(c) PROVE InviteInv'
<1> DEFINE ts == Candidate(req[c].dim)
<1>0. /\ PoolInv /\ ClaimInv /\ faults \in Nat /\ pc[c] = "select" /\ pc[c] # "idle"
      /\ faults' \in {faults, faults + 1} /\ UNCHANGED inviteVars
  BY DEF InviteInv, PoolInv, PoolTyped, SelectOldest, Answered, Failed
<1>1. PoolInv'
  BY <1>0, OneClaimed DEF inviteVars
<1> SUFFICES ClaimInv'
  BY <1>1 DEF InviteInv
<1>2. UNCHANGED <<rows, handed>> /\ handed' \in [Tickets -> {0, 1}]
  BY <1>0 DEF inviteVars, ClaimInv, ClaimTyped
<1>3. CASE faults' = faults + 1 /\ RetryDb(c, "select")
  BY <1>0, <1>2, <1>3, ReadRetried
<1>4. CASE Finish(c, "TicketRaceLost")
  BY <1>0, <1>2, <1>4, ClaimEnds
<1>5. CASE ts # {} /\ Suspend(c, req[c], "update", [loc[c] EXCEPT !.key = Oldest(ts)])
  <2>1. ts \in SUBSET Tickets
    BY DEF Candidate, Available
  <2>2. PICK t \in ts : t = Oldest(ts)
    BY <1>5, <2>1, OldestIs
  <2>3. t \in Tickets /\ rows[t] # None /\ rows[t].state = "available" /\ ~RowLocked(t)
    BY <2>2 DEF Candidate, Available
  <2>4. PICK carried : carried = [loc[c] EXCEPT !.key = t]
    OBVIOUS
  <2>5. carried \in [tries : Nat, key : Tickets \cup {None}] /\ carried.key = t
    BY <1>0, <2>3, <2>4, CarriedIs
  <2>6. /\ pc' = [pc EXCEPT ![c] = "update"] /\ DOMAIN req' = Conns /\ DOMAIN loc' = Conns
        /\ \A d \in Conns \ {c} : loc'[d] = loc[d]
        /\ loc'[c] = carried
    BY <1>0, <1>5, <2>2, <2>4 DEF Suspend, ClaimInv, ClaimTyped
  <2>7. pc'[c] = "update" /\ "update" \in ClaimPcs /\ \A d \in Conns \ {c} : pc'[d] = pc[d]
    BY <1>0, <2>6 DEF ClaimInv, ClaimTyped, ClaimPcs
  <2>8. \A d \in Conns \ {c} : pc'[d] = "update" => loc'[d].key # t
    BY <2>3, <2>6, <2>7 DEF RowLocked
  <2>9. Claiming(c)'
    BY <1>2, <2>3, <2>5, <2>6, <2>7, <2>8 DEF Claiming
  <2>10. QED
    BY <1>0, <1>2, <2>6, <2>7, <2>9, ClaimSteps
<1>6. QED
  BY <1>3, <1>4, <1>5 DEF SelectOldest, Failed, Goto

\* The flip of a row, with its answer or without.
LEMMA ClaimedIs ==
  ASSUME PoolTyped, NEW t \in Tickets, rows[t] # None, Claimed(t)
  PROVE  /\ rows'[t] # None /\ rows'[t].state = "claimed"
         /\ \A u \in Tickets \ {t} : rows'[u] = rows[u]
<1>1. PICK row \in TicketRow : row = rows[t]
  BY DEF PoolTyped
<1>2. PICK new : new = [row EXCEPT !.state = "claimed"]
  OBVIOUS
<1>3. new \in TicketRow /\ new.state = "claimed"
  BY <1>2 DEF TicketRow
<1>4. rows' = [rows EXCEPT ![t] = new]
  BY <1>1, <1>2 DEF Claimed
<1>5. rows'[t] = new /\ \A u \in Tickets \ {t} : rows'[u] = rows[u]
  BY <1>4 DEF PoolTyped
<1>6. QED
  BY <1>3, <1>5, PoolConstants

\* The claim commits, fails, or commits unseen.
LEMMA CommitClaimKeeps ==
  ASSUME InviteInv, NEW c \in Conns, CommitClaim(c) PROVE InviteInv'
<1>1. PICK t : t = loc[c].key
  OBVIOUS
<1>0. /\ PoolInv /\ PoolTyped /\ ClaimInv /\ faults \in Nat /\ pc[c] = "update" /\ pc[c] # "idle"
      /\ faults' \in {faults, faults + 1}
      /\ UNCHANGED <<maint, batchSize, tickLock, inflight, finalized, onChain, fresh, handed>>
  BY DEF InviteInv, PoolInv, PoolTyped, CommitClaim, Answered, Failed
<1>2. t \in Tickets /\ rows[t] # None /\ rows[t].state = "available"
  BY <1>0, <1>1 DEF ClaimInv, Claiming
<1>3. handed'[t] # 1 /\ handed' \in [Tickets -> {0, 1}]
  BY <1>0, <1>2 DEF ClaimInv, ClaimTyped
<1>4. PoolInv'
  BY <1>0, <1>1, <1>2, OneClaimed DEF CommitClaim
<1> SUFFICES ClaimInv'
  BY <1>4 DEF InviteInv
<1>5. CASE faults' = faults + 1 /\ UNCHANGED rows /\ RetryDb(c, "select")
  BY <1>0, <1>1, <1>3, <1>5, ReadRetried
<1>6. CASE faults' = faults + 1 /\ Claimed(t) /\ RetryDb(c, "select")
  <2>1. \A u \in Tickets \ {t} : rows'[u] = rows[u]
    BY <1>0, <1>2, <1>6, ClaimedIs
  <2>2. QED
    BY <1>0, <1>1, <1>3, <1>6, <2>1, ReadRetried
<1>7. CASE faults' = faults /\ Claimed(t) /\ Suspend(c, req[c], "sign", [loc[c] EXCEPT !.tries = 0])
  <2>1. /\ rows'[t] # None /\ rows'[t].state = "claimed"
        /\ \A u \in Tickets \ {t} : rows'[u] = rows[u]
    BY <1>0, <1>2, <1>7, ClaimedIs
  <2>2. PICK carried : carried = [loc[c] EXCEPT !.tries = 0]
    OBVIOUS
  <2>3. carried \in [tries : Nat, key : Tickets \cup {None}] /\ carried.key = t
    BY <1>0, <1>1, <2>2, CarriedIs
  <2>4. /\ pc' = [pc EXCEPT ![c] = "sign"] /\ DOMAIN req' = Conns /\ DOMAIN loc' = Conns
        /\ \A d \in Conns \ {c} : loc'[d] = loc[d]
        /\ loc'[c] = carried
    BY <1>0, <1>7, <2>2 DEF Suspend, ClaimInv, ClaimTyped
  <2>5. pc'[c] = "sign" /\ "sign" \in ClaimPcs /\ \A d \in Conns \ {c} : pc'[d] = pc[d]
    BY <1>0, <2>4 DEF ClaimInv, ClaimTyped, ClaimPcs
  <2>6. \A d \in Conns \ {c} : pc'[d] = "sign" => loc'[d].key # t
    BY <1>0, <1>2, <2>4, <2>5 DEF ClaimInv, Claiming
  <2>7. handed'[t] = 0
    BY <1>2, <1>3
  <2>8. Claiming(c)'
    BY <1>2, <2>1, <2>3, <2>4, <2>5, <2>6, <2>7 DEF Claiming
  <2>9. t \notin LostKeys'
    BY <2>3, <2>4, <2>5 DEF LostKeys, InHandler
  <2>10. QED
    BY <1>0, <1>1, <1>3, <1>7, <2>1, <2>4, <2>5, <2>8, <2>9, ClaimSteps
<1>8. QED
  BY <1>1, <1>5, <1>6, <1>7 DEF CommitClaim, Answered, Failed, Goto

\* The claimed key is answered with, or the handler tries again, or gives up on it.
LEMMA AnswerClaimKeeps ==
  ASSUME InviteInv, NEW c \in Conns, AnswerClaim(c) PROVE InviteInv'
<1>1. PICK t : t = loc[c].key
  OBVIOUS
<1>0. /\ PoolInv /\ ClaimInv /\ faults \in Nat /\ pc[c] = "sign" /\ pc[c] # "idle"
      /\ faults' \in {faults, faults + 1}
      /\ UNCHANGED <<maint, batchSize, tickLock, inflight, finalized, onChain, fresh, rows>>
  BY DEF InviteInv, PoolInv, PoolTyped, AnswerClaim, Answered, Failed
<1>2. /\ t \in Tickets /\ rows[t] # None /\ rows[t].state = "claimed" /\ handed[t] = 0
      /\ \A d \in Conns \ {c} : pc[d] = "sign" => loc[d].key # t
  BY <1>0, <1>1 DEF ClaimInv, Claiming
<1>3. handed \in [Tickets -> {0, 1}]
  BY <1>0 DEF ClaimInv, ClaimTyped
<1>4. PoolInv'
  BY <1>0, OneClaimed
<1> SUFFICES ClaimInv'
  BY <1>4 DEF InviteInv
<1>5. CASE faults' = faults /\ Finish(c, "claimed") /\ handed' = [handed EXCEPT ![t] = @ + 1]
  <2>1. /\ handed'[t] = 1 /\ handed' \in [Tickets -> {0, 1}]
        /\ \A u \in Tickets \ {t} : handed'[u] = handed[u]
    BY <1>2, <1>3, <1>5
  <2>2. t \notin LostKeys'
    BY <2>1 DEF LostKeys
  <2>3. QED
    BY <1>0, <1>1, <1>2, <1>5, <2>1, <2>2, ClaimEnds
<1>6. CASE faults' = faults + 1 /\ Finish(c, "Internal") /\ UNCHANGED handed
  BY <1>0, <1>1, <1>2, <1>3, <1>6, ClaimEnds
<1>7. CASE /\ faults' = faults + 1 /\ UNCHANGED handed
           /\ Suspend(c, req[c], "sign", [loc[c] EXCEPT !.tries = @ + 1])
  <2>1. PICK carried : carried = [loc[c] EXCEPT !.tries = @ + 1]
    OBVIOUS
  <2>2. carried \in [tries : Nat, key : Tickets \cup {None}] /\ carried.key = t
    BY <1>0, <1>1, <2>1, CarriedIs
  <2>3. /\ pc' = [pc EXCEPT ![c] = "sign"] /\ DOMAIN req' = Conns /\ DOMAIN loc' = Conns
        /\ \A d \in Conns \ {c} : loc'[d] = loc[d]
        /\ loc'[c] = carried
    BY <1>0, <1>7, <2>1 DEF Suspend, ClaimInv, ClaimTyped
  <2>4. pc'[c] = "sign" /\ "sign" \in ClaimPcs /\ \A d \in Conns \ {c} : pc'[d] = pc[d]
    BY <1>0, <2>3 DEF ClaimInv, ClaimTyped, ClaimPcs
  <2>5. Claiming(c)'
    BY <1>0, <1>2, <1>7, <2>2, <2>3, <2>4 DEF Claiming
  <2>6. QED
    BY <1>0, <1>1, <1>2, <1>3, <1>7, <2>3, <2>4, <2>5, ClaimSteps
<1>8. QED
  BY <1>1, <1>5, <1>6, <1>7 DEF AnswerClaim, Answered, Failed, RetryDb, Goto

\* A dropped handler rolls back, or had sent its commit.
LEMMA ClaimDroppedKeeps ==
  ASSUME InviteInv, NEW c \in Conns, ClaimDropped(c) PROVE InviteInv'
<1>1. PICK t : t = loc[c].key
  OBVIOUS
<1>0. /\ PoolInv /\ PoolTyped /\ ClaimInv /\ faults \in Nat /\ pc[c] # "idle" /\ Finish(c, "dropped")
      /\ faults' = faults + 1
      /\ UNCHANGED <<maint, batchSize, tickLock, inflight, finalized, onChain, fresh, handed>>
  BY DEF InviteInv, PoolInv, PoolTyped, ClaimDropped, Drop, Failed
<1>2. /\ pc[c] \in {"update", "sign"} => t \in Tickets /\ rows[t] # None
      /\ pc[c] = "update" => rows[t].state = "available"
      /\ pc[c] = "sign" => handed[t] = 0
      /\ \A u \in Tickets : handed[u] = 1 => rows[u].state = "claimed"
  BY <1>0, <1>1 DEF ClaimInv, Claiming
<1>3. handed' \in [Tickets -> {0, 1}]
  BY <1>0 DEF ClaimInv, ClaimTyped
<1>4. CASE UNCHANGED rows
  <2>1. PoolInv'
    BY <1>0, <1>4, OneClaimed
  <2>2. ClaimInv'
    BY <1>0, <1>1, <1>2, <1>3, <1>4, ClaimEnds
  <2>3. QED
    BY <2>1, <2>2 DEF InviteInv
<1>5. CASE pc[c] = "update" /\ Claimed(t)
  <2>1. PoolInv'
    BY <1>0, <1>2, <1>5, OneClaimed
  <2>2. \A u \in Tickets \ {t} : rows'[u] = rows[u]
    BY <1>0, <1>2, <1>5, ClaimedIs
  <2>3. handed'[t] # 1
    BY <1>0, <1>2, <1>5
  <2>4. ClaimInv'
    BY <1>0, <1>1, <1>3, <1>5, <2>2, <2>3, ClaimEnds
  <2>5. QED
    BY <2>1, <2>4 DEF InviteInv
<1>6. QED
  BY <1>1, <1>4, <1>5 DEF ClaimDropped

\* Time passes for the limiter only.
LEMMA InviteWaits ==
  ASSUME InviteInv, \/ InviteTick
                    \/ UNCHANGED <<servingVars, inviteVars>>
  PROVE  InviteInv'
<1>0. /\ PoolInv /\ ClaimInv /\ faults \in Nat /\ faults' = faults
      /\ UNCHANGED <<pc, req, loc, inviteVars>>
  BY DEF InviteInv, PoolInv, PoolTyped, InviteTick, Tick, servingVars
<1>1. PoolInv'
  BY <1>0, OneClaimed DEF inviteVars
<1>2. ClaimInv'
  BY <1>0, ClaimsUnderPool DEF inviteVars
<1>3. QED
  BY <1>1, <1>2 DEF InviteInv

\* Where a maintainer goes between pools.
LEMMA ResetIs ==
  ASSUME NEW k \in DOMAIN PoolDims
  PROVE  /\ [Asleep EXCEPT !.pc = "count", !.i = k] \in Maintainer
         /\ [Asleep EXCEPT !.pc = "count"] \in Maintainer /\ Asleep \in Maintainer
         /\ [Asleep EXCEPT !.pc = "count", !.i = k].pc = "count"
         /\ [Asleep EXCEPT !.pc = "count"].pc = "count" /\ Asleep.pc = "sleep"
         /\ [Asleep EXCEPT !.pc = "count", !.i = k].keys = <<>>
         /\ [Asleep EXCEPT !.pc = "count"].keys = <<>> /\ Asleep.keys = <<>>
<1>1. PICK e : e = <<>>
  OBVIOUS
<1>2. DOMAIN e = {} /\ e \in [{} -> Tickets]
  BY <1>1
<1>3. e \in KeyMaps
  BY <1>2, KeyMapMade
<1>4. 1 \in DOMAIN PoolDims
  BY PoolConstants
<1>5. Asleep = [pc |-> "sleep", i |-> 1, keys |-> e, inserted |-> 0]
  BY <1>1 DEF Asleep
<1>6. QED
  BY <1>1, <1>3, <1>4, <1>5 DEF Maintainer, Holding

\* The other maintainers keep their keys when one steps, whatever it generates is new.
LEMMA OthersStock ==
  ASSUME PoolTyped, PoolTyped', NEW m \in Maintainers, NEW x \in Maintainers \ {m}, Stock(x),
         \A y \in Maintainers \ {m} : maint'[y] = maint[y], fresh <= fresh',
         maint[x].pc \in Holding => \A n \in DOMAIN maint[x].keys :
           rows'[maint[x].keys[n]] = rows[maint[x].keys[n]],
         maint'[m].pc \in Holding /\ maint[x].pc \in Holding =>
           \A k \in DOMAIN maint'[m].keys, n \in DOMAIN maint[x].keys :
             maint'[m].keys[k] # maint[x].keys[n]
  PROVE  Stock(x)'
<1>1. PICK w : w = maint[x] /\ w = maint'[x]
  OBVIOUS
<1>2. \A n \in DOMAIN w.keys : w.keys[n] \in Nat
  BY <1>1, MaintainerIs, PoolConstants DEF Tickets
<1>3. fresh \in Int /\ fresh' \in Int
  BY PoolConstants DEF PoolTyped
<1>4. ASSUME w.pc \in Holding
      PROVE  /\ \A n \in DOMAIN w.keys : w.keys[n] < fresh' /\ rows'[w.keys[n]] = None
             /\ \A k, n \in DOMAIN w.keys : w.keys[k] = w.keys[n] => k = n
  <2>1. /\ \A n \in DOMAIN w.keys : w.keys[n] < fresh /\ rows[w.keys[n]] = None
        /\ \A k, n \in DOMAIN w.keys : w.keys[k] = w.keys[n] => k = n
    BY <1>1, <1>4 DEF Stock
  <2>2. QED
    BY <1>1, <1>2, <1>3, <1>4, <2>1
<1>5. ASSUME w.pc \in Holding, NEW y \in Maintainers \ {x}, maint'[y].pc \in Holding,
             NEW k \in DOMAIN maint'[y].keys, NEW n \in DOMAIN w.keys
      PROVE  maint'[y].keys[k] # w.keys[n]
  <2>1. CASE y = m
    BY <1>1, <1>5, <2>1
  <2>2. CASE y # m
    <3>1. maint'[y] = maint[y]
      BY <2>2
    <3>2. QED
      BY <1>1, <1>5, <3>1 DEF Stock
  <2>3. QED
    BY <2>1, <2>2
<1>6. w.pc \in {"submit", "watch"} => \E s \in 1..BatchMax : DOMAIN w.keys = 1..s
  BY <1>1 DEF Stock
<1>7. QED
  BY <1>1, <1>4, <1>5, <1>6 DEF Stock

\* A maintainer drops what it had and goes between pools: while nothing has failed it is the
\* only one awake, and had nothing left.
LEMMA PoolReset ==
  ASSUME PoolInv, NEW m \in Maintainers, maint' \in [Maintainers -> Maintainer],
         maint'[m].pc \in {"sleep", "count"}, maint'[m].keys = <<>>,
         DOMAIN finalized' = Maintainers, finalized'[m] = None,
         \A x \in Maintainers \ {m} : maint'[x] = maint[x] /\ finalized'[x] = finalized[x],
         batchSize' \in [Maintainers -> [DOMAIN PoolDims -> 1..BatchMax]],
         UNCHANGED <<inflight, onChain, rows, fresh>>, faults' \in {faults, faults + 1},
         faults' = 0 =>
           /\ \A x \in Maintainers \ {m} : maint[x].pc = "sleep"
           /\ maint[m].pc # "watch" /\ (maint[m].pc \in Holding => DOMAIN maint[m].keys = {})
           /\ maint'[m].pc # "sleep" => tickLock' = m
  PROVE  PoolInv'
<1>0. /\ PoolTyped /\ Generated /\ Calm /\ faults \in Nat
      /\ \A x \in Maintainers : Stock(x) /\ Progress(x)
  BY DEF PoolInv, PoolTyped
<1>1. PoolTyped'
  BY <1>0 DEF PoolTyped
<1>2. Generated'
  BY <1>0 DEF Generated
<1>3. maint'[m].pc \notin Holding /\ DOMAIN maint'[m].keys = {} /\ fresh <= fresh'
  BY <1>0, PoolConstants DEF Holding, PoolTyped
<1>4. ASSUME NEW x \in Maintainers PROVE Stock(x)' /\ Progress(x)'
  <2>1. CASE x = m
    BY <1>3, <2>1 DEF Stock, Progress, Holding
  <2>2. CASE x # m
    <3>1. maint'[x] = maint[x] /\ finalized'[x] = finalized[x]
      BY <2>2
    <3>2. Stock(x)'
      BY <1>0, <1>1, <1>3, <2>2, OthersStock
    <3>3. Progress(x)'
      BY <1>0, <3>1 DEF Progress, ItemAccepted
    <3>4. QED
      BY <3>2, <3>3
  <2>3. QED
    BY <2>1, <2>2
<1>5. ASSUME faults' = 0 PROVE Calm'
  <2>1. faults = 0
    BY <1>0, <1>5
  <2>2. ASSUME NEW x \in Maintainers PROVE Alive(x)'
    <3>1. CASE x = m
      BY <1>3, <1>5, <3>1 DEF Alive, Holding
    <3>2. CASE x # m
      <4>1. maint'[x].pc = "sleep"
        BY <1>5, <3>2
      <4>2. QED
        BY <4>1 DEF Alive, Holding
    <3>3. QED
      BY <3>1, <3>2
  <2>3. inflight' = {}
    <3>1. \A b \in inflight : b.by \in Maintainers /\ maint[b.by].pc = "watch"
      BY <1>0, <2>1 DEF Calm, PoolTyped
    <3>2. QED
      BY <1>5, <3>1
  <2>4. \A e \in onChain' : rows'[e[1]] # None
    BY <1>0, <1>5, <2>1 DEF Calm, Holding
  <2>5. \A d \in Dims : Cardinality(Available(d)') <= Target
    <3>1. \A d : Available(d)' = Available(d)
      BY DEF Available
    <3>2. QED
      BY <1>0, <2>1, <3>1 DEF Calm
  <2>6. QED
    BY <2>2, <2>3, <2>4, <2>5 DEF Calm
<1>6. Calm'
  BY <1>5 DEF Calm
<1>7. QED
  BY <1>1, <1>2, <1>4, <1>6 DEF PoolInv

\* While nothing has failed, the lock keeps the other maintainers asleep.
LEMMA OneAwake ==
  ASSUME PoolInv, faults = 0, NEW m \in Maintainers, maint[m].pc # "sleep"
  PROVE  /\ Alive(m) /\ tickLock = m
         /\ \A x \in Maintainers \ {m} : maint[x].pc = "sleep"
BY DEF PoolInv, Calm, Alive

\* A maintainer is done with a pool.
LEMMA NextPoolKeeps ==
  ASSUME PoolInv, NEW m \in Maintainers, NextPool(m), maint[m].pc # "sleep",
         batchSize' \in [Maintainers -> [DOMAIN PoolDims -> 1..BatchMax]],
         UNCHANGED <<inflight, onChain, rows, fresh>>, faults' \in {faults, faults + 1},
         faults' = 0 =>
           maint[m].pc # "watch" /\ (maint[m].pc \in Holding => DOMAIN maint[m].keys = {})
  PROVE  PoolInv'
<1>0. /\ PoolTyped /\ faults \in Nat /\ (faults' = 0 => faults = 0)
      /\ maint \in [Maintainers -> Maintainer] /\ DOMAIN finalized = Maintainers
  BY DEF PoolInv, PoolTyped
<1>1. PICK k : k = maint[m].i
  OBVIOUS
<1>2. k \in 1..Len(PoolDims) /\ Len(PoolDims) \in Nat /\ DOMAIN PoolDims = 1..Len(PoolDims)
  BY <1>0, <1>1, MaintainerIs, PoolConstants
<1>3. PICK w : /\ maint' = [maint EXCEPT ![m] = w]
               /\ \/ /\ w = [Asleep EXCEPT !.pc = "count", !.i = k + 1]
                     /\ k + 1 \in DOMAIN PoolDims /\ tickLock' = tickLock
                  \/ w = Asleep
  <2>1. CASE k < Len(PoolDims)
    <3>1. /\ maint' = [maint EXCEPT ![m] = [Asleep EXCEPT !.pc = "count", !.i = k + 1]]
          /\ tickLock' = tickLock
      BY <1>1, <2>1 DEF NextPool
    <3>2. k + 1 \in DOMAIN PoolDims
      BY <1>2, <2>1
    <3>3. QED
      BY <3>1, <3>2
  <2>2. CASE ~(k < Len(PoolDims))
    BY <1>1, <2>2 DEF NextPool
  <2>3. QED
    BY <2>1, <2>2
<1>4. k \in DOMAIN PoolDims
  BY <1>2
<1>5. /\ w \in Maintainer /\ w.pc \in {"sleep", "count"} /\ w.keys = <<>>
      /\ w.pc # "sleep" => tickLock' = tickLock
  <2>1. CASE w = Asleep
    BY <1>4, <2>1, ResetIs
  <2>2. CASE /\ w = [Asleep EXCEPT !.pc = "count", !.i = k + 1]
             /\ k + 1 \in DOMAIN PoolDims /\ tickLock' = tickLock
    <3>1. PICK j \in DOMAIN PoolDims : j = k + 1
      BY <2>2
    <3>2. QED
      BY <2>2, <3>1, ResetIs
  <2>3. QED
    BY <1>3, <2>1, <2>2
<1>6. /\ maint' \in [Maintainers -> Maintainer] /\ maint'[m] = w
      /\ \A x \in Maintainers \ {m} : maint'[x] = maint[x]
  BY <1>0, <1>3, <1>5
<1>7. /\ DOMAIN finalized' = Maintainers /\ finalized'[m] = None
      /\ \A x \in Maintainers \ {m} : finalized'[x] = finalized[x]
  BY <1>0 DEF NextPool
<1>8. faults' = 0 => tickLock = m /\ \A x \in Maintainers \ {m} : maint[x].pc = "sleep"
  BY <1>0, OneAwake
<1>9. QED
  BY <1>5, <1>6, <1>7, <1>8, PoolReset

\* The batch size settles within its bounds.
LEMMA SettleTyped ==
  ASSUME PoolTyped, NEW m \in Maintainers, NEW succeeded, Settle(m, succeeded)
  PROVE  batchSize' \in [Maintainers -> [DOMAIN PoolDims -> 1..BatchMax]]
<1>1. PICK k \in DOMAIN PoolDims : k = maint[m].i
  BY MaintainerIs
<1>2. PICK f \in [DOMAIN PoolDims -> 1..BatchMax] : f = batchSize[m]
  BY DEF PoolTyped
<1>3. \A s \in 1..BatchMax : SettleBatchSize(s, succeeded) \in 1..BatchMax
  <2>1. SUFFICES ASSUME NEW s \in 1..BatchMax PROVE SettleBatchSize(s, succeeded) \in 1..BatchMax
    OBVIOUS
  <2>2. BatchMax \in Nat \ {0}
    BY PoolConstants
  <2>3. LowerOf(s + 1, BatchMax) \in 1..BatchMax
    BY <2>2 DEF LowerOf
  <2>4. s >= 2 => s \div 2 \in 1..BatchMax
    BY <2>2
  <2>5. QED
    BY <2>2, <2>3, <2>4 DEF SettleBatchSize
<1>4. PICK v \in 1..BatchMax : v = SettleBatchSize(f[k], succeeded)
  BY <1>3
<1>5. batchSize' = [batchSize EXCEPT ![m] = [f EXCEPT ![k] = v]]
  BY <1>1, <1>2, <1>4 DEF Settle
<1>6. [f EXCEPT ![k] = v] \in [DOMAIN PoolDims -> 1..BatchMax]
  OBVIOUS
<1>7. QED
  BY <1>5, <1>6 DEF PoolTyped

\* A maintainer takes the lock and starts a tick.
LEMMA AcquireTickLockKeeps ==
  ASSUME InviteInv, NEW m \in Maintainers, AcquireTickLock(m) PROVE InviteInv'
<1>0. /\ PoolInv /\ PoolTyped /\ ClaimInv /\ faults \in Nat /\ faults' = faults /\ tickLock' = m
      /\ maint[m].pc = "sleep" /\ tickLock = None
      /\ UNCHANGED <<pc, req, loc, handed, batchSize, inflight, finalized, onChain, rows, fresh>>
  BY DEF InviteInv, PoolInv, PoolTyped, AcquireTickLock, servingVars
<1>1. finalized[m] = None
  BY <1>0 DEF PoolInv, Progress
<1>2. PICK w : w = [Asleep EXCEPT !.pc = "count"]
  OBVIOUS
<1>3. w \in Maintainer /\ w.pc = "count" /\ w.keys = <<>>
  <2>1. 1 \in DOMAIN PoolDims
    BY PoolConstants
  <2>2. QED
    BY <1>2, <2>1, ResetIs
<1>4. maint' = [maint EXCEPT ![m] = w]
  BY <1>2 DEF AcquireTickLock
<1>5. /\ maint' \in [Maintainers -> Maintainer] /\ maint'[m] = w
      /\ \A x \in Maintainers \ {m} : maint'[x] = maint[x]
  BY <1>0, <1>3, <1>4 DEF PoolTyped
<1>6. faults' = 0 => \A x \in Maintainers : maint[x].pc = "sleep"
  BY <1>0, OneAwake, PoolConstants
<1>7. /\ DOMAIN finalized' = Maintainers
      /\ batchSize' \in [Maintainers -> [DOMAIN PoolDims -> 1..BatchMax]]
  BY <1>0 DEF PoolTyped
<1>8. PoolInv'
  BY <1>0, <1>1, <1>3, <1>5, <1>6, <1>7, PoolReset DEF Holding
<1>9. ClaimInv'
  BY <1>0, ClaimsUnderPool
<1>10. QED
  BY <1>8, <1>9 DEF InviteInv

\* A pool's tick ends in an error; without a fault no batch is voided.
LEMMA TickErrorKeeps ==
  ASSUME InviteInv, NEW m \in Maintainers, TickError(m) PROVE InviteInv'
<1>0. /\ PoolInv /\ PoolTyped /\ Calm /\ ClaimInv /\ faults \in Nat /\ NextPool(m)
      /\ Settle(m, FALSE) /\ maint[m].pc # "sleep" /\ faults' \in {faults, faults + 1}
      /\ UNCHANGED <<pc, req, loc, handed, inflight, onChain, rows, fresh>>
  BY DEF InviteInv, PoolInv, PoolTyped, TickError, TickFailed, Answered, Failed
<1>1. batchSize' \in [Maintainers -> [DOMAIN PoolDims -> 1..BatchMax]]
  BY <1>0, SettleTyped
<1>2. faults' # 0
  <2>1. SUFFICES ASSUME faults' = 0 PROVE FALSE
    OBVIOUS
  <2>2. faults = 0 /\ faults' # faults + 1
    BY <1>0, <2>1
  <2>3. /\ maint[m].pc = "watch" /\ finalized[m] = None
        /\ \A b \in inflight : b.by # m \/ b.keys # maint[m].keys
    BY <2>2 DEF TickError, Failed
  <2>4. PICK b \in inflight : b.by = m
    BY <1>0, <2>2, <2>3 DEF Calm, Alive
  <2>5. maint[m].keys = b.keys
    BY <1>0, <2>2, <2>4 DEF Calm
  <2>6. QED
    BY <2>3, <2>4, <2>5
<1>3. PoolInv'
  BY <1>0, <1>1, <1>2, NextPoolKeeps
<1>4. ClaimInv'
  BY <1>0, ClaimsUnderPool
<1>5. QED
  BY <1>3, <1>4 DEF InviteInv

\* The instance dies, or the session that holds its lock.
LEMMA MaintainerFaultKeeps ==
  ASSUME InviteInv, NEW m \in Maintainers, MaintainerFault(m) PROVE InviteInv'
<1>0. /\ PoolInv /\ PoolTyped /\ ClaimInv /\ faults \in Nat
      /\ faults' = faults + 1 /\ faults' # 0
      /\ UNCHANGED <<pc, req, loc, handed, inflight, onChain, rows, fresh>>
  BY DEF InviteInv, PoolInv, PoolTyped, MaintainerFault, Failed
<1>1. ClaimInv'
  BY <1>0, ClaimsUnderPool
<1> SUFFICES PoolInv'
  BY <1>1 DEF InviteInv
<1>2. CASE UNCHANGED <<maint, batchSize, finalized>>
  <2>1. PoolTyped' /\ Generated'
    BY <1>0, <1>2 DEF PoolInv, PoolTyped, Generated
  <2>2. Calm'
    BY <1>0 DEF Calm
  <2>3. ASSUME NEW x \in Maintainers PROVE Stock(x)' /\ Progress(x)'
    <3>1. Stock(x) /\ Progress(x)
      BY <1>0 DEF PoolInv
    <3>2. Stock(x)'
      BY <1>0, <1>2, <3>1 DEF Stock
    <3>3. Progress(x)'
      BY <1>0, <1>2, <3>1 DEF Progress, ItemAccepted
    <3>4. QED
      BY <3>2, <3>3
  <2>4. QED
    BY <2>1, <2>2, <2>3 DEF PoolInv
<1>3. CASE /\ maint' = [maint EXCEPT ![m] = Asleep]
           /\ batchSize' = [batchSize EXCEPT ![m] = [i \in DOMAIN PoolDims |-> BatchMax]]
           /\ finalized' = [finalized EXCEPT ![m] = None]
  <2>1. Asleep \in Maintainer /\ Asleep.pc = "sleep" /\ Asleep.keys = <<>>
    <3>1. 1 \in DOMAIN PoolDims
      BY PoolConstants
    <3>2. QED
      BY <3>1, ResetIs
  <2>2. /\ maint' \in [Maintainers -> Maintainer] /\ maint'[m] = Asleep
        /\ \A x \in Maintainers \ {m} : maint'[x] = maint[x]
    BY <1>0, <1>3, <2>1 DEF PoolTyped
  <2>3. /\ DOMAIN finalized' = Maintainers /\ finalized'[m] = None
        /\ \A x \in Maintainers \ {m} : finalized'[x] = finalized[x]
    BY <1>0, <1>3 DEF PoolTyped
  <2>4. batchSize' \in [Maintainers -> [DOMAIN PoolDims -> 1..BatchMax]]
    BY <1>0, <1>3, PoolConstants DEF PoolTyped
  <2>5. QED
    BY <1>0, <2>1, <2>2, <2>3, <2>4, PoolReset
<1>4. QED
  BY <1>2, <1>3 DEF MaintainerFault

\* What the other maintainers know stays so when one steps.
LEMMA OthersProgress ==
  ASSUME NEW x \in Maintainers, Progress(x), maint'[x] = maint[x], finalized'[x] = finalized[x],
         onChain \subseteq onChain',
         \A b \in inflight' \ inflight :
           b.by # x /\ (maint[x].pc = "submit" => b.keys # maint[x].keys)
  PROVE  Progress(x)'
BY DEF Progress, ItemAccepted

\* A maintainer asleep wants nothing.
LEMMA AsleepAlive ==
  ASSUME NEW x \in Maintainers, maint'[x].pc = "sleep"
  PROVE  Alive(x)'
BY DEF Alive, Holding

\* A plan fits the pool and the batch.
LEMMA PlanFits ==
  ASSUME NEW a \in Nat, NEW s \in 1..BatchMax, PlanRefill(a, s) # 0
  PROVE  PlanRefill(a, s) \in 1..BatchMax /\ a + PlanRefill(a, s) <= Target
<1>1. Target \in Nat /\ BatchMax \in Nat
  BY PoolConstants
<1>2. ~(a >= Target) /\ PlanRefill(a, s) = LowerOf(Target - a, s)
  BY DEF PlanRefill
<1>3. QED
  BY <1>1, <1>2 DEF LowerOf

\* Fresh keys are nobody's, and fit the pool.
LEMMA KeysGenerated ==
  ASSUME PoolInv, NEW m \in Maintainers, maint[m].pc = "count", NEW size \in 1..BatchMax,
         Cardinality(Available(PoolDims[maint[m].i])) + size <= Target,
         fresh + size <= MaxTickets + 1, fresh' = fresh + size,
         maint' = [maint EXCEPT ![m].pc = "submit", ![m].keys = [n \in 1..size |-> fresh + n - 1]],
         UNCHANGED <<batchSize, tickLock, inflight, finalized, onChain, rows, faults>>
  PROVE  PoolInv'
<1>0. /\ PoolTyped /\ Generated /\ Calm /\ fresh \in 1..(MaxTickets + 1) /\ MaxTickets \in Nat
      /\ BatchMax \in Nat /\ \A x \in Maintainers : Stock(x) /\ Progress(x)
  BY PoolConstants DEF PoolInv, PoolTyped
<1>1. PICK f : f = [n \in 1..size |-> fresh + n - 1]
  OBVIOUS
<1>2. /\ DOMAIN f = 1..size /\ f \in [1..size -> Tickets]
      /\ \A n \in 1..size : f[n] = fresh + n - 1 /\ f[n] \in Tickets /\ f[n] \in Nat
                            /\ fresh <= f[n] /\ f[n] < fresh'
      /\ \A k, n \in 1..size : f[k] = f[n] => k = n
  BY <1>0, <1>1 DEF Tickets
<1>3. f \in KeyMaps
  <2>1. PICK S \in SUBSET (1..BatchMax) : S = 1..size
    BY <1>0
  <2>2. QED
    BY <1>2, <2>1, KeyMapMade
<1>4. PICK w \in Maintainer : w = maint[m]
  BY <1>0, MaintainerIs
<1>5. PICK v : v = [w EXCEPT !.pc = "submit", !.keys = f]
  OBVIOUS
<1>6. v \in Maintainer /\ v.pc = "submit" /\ v.keys = f /\ v.i = w.i
  BY <1>3, <1>5 DEF Maintainer, Holding
<1>7. maint' = [maint EXCEPT ![m] = v]
  BY <1>0, <1>1, <1>4, <1>5 DEF PoolTyped
<1>8. /\ maint' \in [Maintainers -> Maintainer] /\ maint'[m] = v
      /\ \A x \in Maintainers \ {m} : maint'[x] = maint[x]
  BY <1>0, <1>6, <1>7 DEF PoolTyped
<1>9. fresh' \in 1..(MaxTickets + 1) /\ fresh <= fresh'
  BY <1>0
<1>10. PoolTyped'
  BY <1>0, <1>8, <1>9 DEF PoolTyped
<1>11. Generated'
  <2>1. ASSUME NEW b \in inflight, NEW n \in DOMAIN b.keys PROVE b.keys[n] < fresh'
    <3>1. PICK g \in KeyMaps : g = b.keys
      BY <1>0 DEF PoolTyped
    <3>2. g[n] \in Tickets /\ g[n] < fresh
      BY <1>0, <2>1, <3>1, KeyMapIs DEF Generated
    <3>3. QED
      BY <1>0, <3>1, <3>2 DEF Tickets
  <2>2. ASSUME NEW e \in onChain PROVE e[1] < fresh'
    <3>1. e[1] \in Tickets /\ e[1] < fresh
      BY <1>0 DEF Generated, PoolTyped
    <3>2. QED
      BY <1>0, <3>1 DEF Tickets
  <2>3. QED
    BY <1>0, <2>1, <2>2 DEF Generated
<1>12. \A n \in 1..size : rows[f[n]] = None
  <2>1. SUFFICES ASSUME NEW n \in 1..size, rows[f[n]] # None PROVE FALSE
    OBVIOUS
  <2>2. f[n] \in Tickets /\ f[n] \in Nat /\ fresh <= f[n]
    BY <1>2
  <2>3. PICK t \in Tickets : t = f[n]
    BY <2>2
  <2>4. <<t, rows[t].dim>> \in onChain
    BY <1>0, <2>1, <2>3 DEF Generated
  <2>5. t < fresh
    BY <1>0, <2>4 DEF Generated
  <2>6. QED
    BY <1>0, <2>2, <2>3, <2>5
<1>13. ASSUME NEW x \in Maintainers \ {m}, maint[x].pc \in Holding,
              NEW k \in DOMAIN maint[x].keys, NEW n \in 1..size
       PROVE  maint[x].keys[k] # f[n]
  <2>1. maint[x].keys[k] < fresh /\ maint[x].keys[k] \in Tickets
    BY <1>0, <1>13, MaintainerIs DEF Stock
  <2>2. QED
    BY <1>0, <1>2, <2>1 DEF Tickets
<1>14. Stock(m)'
  <2>1. \A x \in Maintainers \ {m} : maint'[x].pc \in Holding =>
          \A k \in DOMAIN maint'[x].keys, n \in DOMAIN f : maint'[x].keys[k] # f[n]
    BY <1>2, <1>8, <1>13
  <2>2. \A n \in DOMAIN f : f[n] < fresh' /\ rows'[f[n]] = None
    BY <1>2, <1>12
  <2>3. QED
    BY <1>2, <1>6, <1>8, <2>1, <2>2 DEF Stock
<1>15. Progress(m)'
  <2>1. finalized'[m] = None
    BY <1>0 DEF Progress
  <2>2. ASSUME NEW b \in inflight, b.keys = f PROVE FALSE
    <3>1. 1 \in DOMAIN f /\ f[1] = fresh
      BY <1>0, <1>2
    <3>2. f[1] < fresh
      BY <1>0, <2>2, <3>1 DEF Generated
    <3>3. QED
      BY <1>0, <3>1, <3>2
  <2>3. QED
    BY <1>6, <1>8, <2>1, <2>2 DEF Progress
<1>16. ASSUME NEW x \in Maintainers \ {m} PROVE Stock(x)' /\ Progress(x)'
  <2>1. maint'[m].pc \in Holding /\ maint[x].pc \in Holding =>
          \A k \in DOMAIN maint'[m].keys, n \in DOMAIN maint[x].keys :
            maint'[m].keys[k] # maint[x].keys[n]
    BY <1>2, <1>6, <1>8, <1>13
  <2>2. Stock(x) /\ Progress(x)
    BY <1>0
  <2>3. Stock(x)'
    BY <1>0, <1>8, <1>9, <1>10, <2>1, <2>2, OthersStock
  <2>4. Progress(x)'
    BY <1>8, <2>2, OthersProgress
  <2>5. QED
    BY <2>3, <2>4
<1>17. ASSUME faults' = 0 PROVE Calm'
  <2>1. /\ tickLock = m /\ \A x \in Maintainers \ {m} : maint[x].pc = "sleep"
    BY <1>17, OneAwake
  <2>2. \A x \in Maintainers \ {m} : Alive(x)'
    BY <1>8, <2>1, AsleepAlive
  <2>3. ASSUME NEW n \in DOMAIN f, NEW e \in onChain PROVE e[1] # f[n]
    <3>1. e[1] \in Tickets /\ e[1] < fresh
      BY <1>0 DEF Generated, PoolTyped
    <3>2. QED
      BY <1>0, <1>2, <3>1 DEF Tickets
  <2>4. \A d : Available(d)' = Available(d)
    BY DEF Available
  <2>5. Cardinality(DOMAIN f) = size
    <3>1. 1 \in Int /\ size \in Int /\ ~(1 > size) /\ size - 1 + 1 = size
      BY <1>0
    <3>2. Cardinality(1..size) = size
      BY <3>1, FS_Interval
    <3>3. QED
      BY <1>2, <3>2
  <2>6. Alive(m)'
    <3>1. PICK d : d = PoolDims[w.i]
      OBVIOUS
    <3>2. Cardinality(Available(d)') + Cardinality(DOMAIN f) <= Target
      BY <1>4, <2>4, <2>5, <3>1
    <3>3. QED
      BY <1>6, <1>8, <2>1, <2>3, <3>1, <3>2 DEF Alive
  <2>7. inflight' = {}
    <3>1. \A b \in inflight : b.by \in Maintainers /\ maint[b.by].pc = "watch"
      BY <1>0, <1>17 DEF Calm, PoolTyped
    <3>2. QED
      BY <2>1, <3>1
  <2>8. \A e \in onChain' : rows'[e[1]] # None
    BY <1>0, <1>17, <2>1 DEF Calm, Holding
  <2>9. \A d \in Dims : Cardinality(Available(d)') <= Target
    BY <1>0, <1>17, <2>4 DEF Calm
  <2>10. QED
    BY <2>2, <2>6, <2>7, <2>8, <2>9 DEF Calm
<1>18. Calm'
  BY <1>17 DEF Calm
<1>19. QED
  BY <1>10, <1>11, <1>14, <1>15, <1>16, <1>18 DEF PoolInv

\* A tick counts the pool, and is done or generates the keys that are missing.
LEMMA CountAndPlanKeeps ==
  ASSUME InviteInv, NEW m \in Maintainers, CountAndPlan(m) PROVE InviteInv'
<1>0. /\ PoolInv /\ PoolTyped /\ ClaimInv /\ faults \in Nat /\ faults' = faults
      /\ maint[m].pc = "count"
      /\ UNCHANGED <<pc, req, loc, handed, batchSize, inflight, onChain, rows>>
  BY DEF InviteInv, PoolInv, PoolTyped, CountAndPlan, Answered
<1>1. PICK k \in DOMAIN PoolDims : k = maint[m].i
  BY <1>0, MaintainerIs
<1>2. PICK a \in Nat : a = Cardinality(Available(PoolDims[k]))
  BY TicketsFinite
<1>3. PICK s \in 1..BatchMax : s = batchSize[m][k]
  BY <1>0 DEF PoolTyped
<1>4. PICK size : size = PlanRefill(a, s)
  OBVIOUS
<1>5. ClaimInv'
  BY <1>0, ClaimsUnderPool
<1> SUFFICES PoolInv'
  BY <1>5 DEF InviteInv
<1>6. CASE size = 0
  <2>1. NextPool(m) /\ UNCHANGED fresh
    BY <1>1, <1>2, <1>3, <1>4, <1>6 DEF CountAndPlan
  <2>2. batchSize' \in [Maintainers -> [DOMAIN PoolDims -> 1..BatchMax]]
    BY <1>0 DEF PoolTyped
  <2>3. QED
    BY <1>0, <2>1, <2>2, NextPoolKeeps DEF Holding
<1>7. CASE size # 0
  <2>1. /\ fresh + size <= MaxTickets + 1 /\ fresh' = fresh + size
        /\ maint' = [maint EXCEPT ![m].pc = "submit",
                                  ![m].keys = [n \in 1..size |-> fresh + n - 1]]
        /\ UNCHANGED <<finalized, tickLock>>
    BY <1>1, <1>2, <1>3, <1>4, <1>7 DEF CountAndPlan
  <2>2. size \in 1..BatchMax /\ a + size <= Target
    BY <1>4, <1>7, PlanFits
  <2>3. Cardinality(Available(PoolDims[maint[m].i])) + size <= Target
    BY <1>1, <1>2, <2>2
  <2>4. QED
    BY <1>0, <2>1, <2>2, <2>3, KeysGenerated
<1>8. QED
  BY <1>6, <1>7

\* The batch is submitted: its keys are those of no other batch in flight.
LEMMA SubmitBatchKeeps ==
  ASSUME InviteInv, NEW m \in Maintainers, SubmitBatch(m) PROVE InviteInv'
<1>0. /\ PoolInv /\ PoolTyped /\ Generated /\ Calm /\ ClaimInv /\ faults \in Nat
      /\ faults' = faults /\ maint[m].pc = "submit"
      /\ UNCHANGED <<pc, req, loc, handed, batchSize, tickLock, finalized, onChain, rows, fresh>>
      /\ \A x \in Maintainers : Stock(x) /\ Progress(x)
  BY DEF InviteInv, PoolInv, PoolTyped, SubmitBatch, Answered
<1>1. ClaimInv'
  BY <1>0, ClaimsUnderPool
<1> SUFFICES PoolInv'
  BY <1>1 DEF InviteInv
<1>2. PICK w \in Maintainer : w = maint[m]
  BY <1>0, MaintainerIs
<1>3. PICK v : v = [w EXCEPT !.pc = "watch"]
  OBVIOUS
<1>4. v \in Maintainer /\ v.pc = "watch" /\ v.keys = w.keys /\ v.i = w.i
  BY <1>3 DEF Maintainer, Holding
<1>5. maint' = [maint EXCEPT ![m] = v]
  BY <1>0, <1>2, <1>3 DEF PoolTyped, SubmitBatch
<1>6. /\ maint' \in [Maintainers -> Maintainer] /\ maint'[m] = v
      /\ \A x \in Maintainers \ {m} : maint'[x] = maint[x]
  BY <1>0, <1>4, <1>5 DEF PoolTyped
<1>7. PICK nb : nb = [by |-> m, keys |-> w.keys, dim |-> PoolDims[w.i]]
  OBVIOUS
<1>8. /\ nb \in [by : Maintainers, keys : KeyMaps, dim : Dims]
      /\ nb.by = m /\ nb.keys = w.keys /\ nb.dim = PoolDims[w.i]
  BY <1>7 DEF Dims, Maintainer
<1>9. inflight' = inflight \cup {nb}
  BY <1>2, <1>7 DEF SubmitBatch
<1>10. PoolTyped'
  BY <1>0, <1>6, <1>8, <1>9 DEF PoolTyped
<1>11. fresh <= fresh' /\ w.pc \in Holding /\ w.pc = "submit"
  BY <1>0, <1>2, PoolConstants DEF PoolTyped, Holding
<1>12. /\ \A n \in DOMAIN w.keys : w.keys[n] < fresh /\ rows[w.keys[n]] = None
       /\ \A k, n \in DOMAIN w.keys : w.keys[k] = w.keys[n] => k = n
       /\ \A x \in Maintainers \ {m} : maint[x].pc \in Holding =>
            \A k \in DOMAIN maint[x].keys, n \in DOMAIN w.keys : maint[x].keys[k] # w.keys[n]
       /\ \E s \in 1..BatchMax : DOMAIN w.keys = 1..s
  BY <1>0, <1>2, <1>11 DEF Stock
<1>13. Generated'
  BY <1>0, <1>8, <1>9, <1>12 DEF Generated
<1>14. Stock(m)'
  BY <1>0, <1>4, <1>6, <1>12 DEF Stock
<1>15. finalized[m] = None /\ \A b \in inflight : b.keys # w.keys
  BY <1>0, <1>2 DEF Progress
<1>16. Progress(m)'
  BY <1>0, <1>4, <1>6, <1>8, <1>9, <1>15 DEF Progress
<1>17. ASSUME NEW x \in Maintainers \ {m} PROVE Stock(x)' /\ Progress(x)'
  <2>1. Stock(x) /\ Progress(x)
    BY <1>0
  <2>2. maint'[m].pc \in Holding /\ maint[x].pc \in Holding =>
          \A k \in DOMAIN maint'[m].keys, n \in DOMAIN maint[x].keys :
            maint'[m].keys[k] # maint[x].keys[n]
    BY <1>4, <1>6, <1>12
  <2>3. Stock(x)'
    BY <1>0, <1>6, <1>10, <1>11, <2>1, <2>2, OthersStock
  <2>4. maint[x].pc = "submit" => w.keys # maint[x].keys
    <3>1. PICK s \in 1..BatchMax : DOMAIN w.keys = 1..s
      BY <1>12
    <3>2. 1 \in DOMAIN w.keys
      BY <3>1
    <3>3. QED
      BY <1>12, <3>2 DEF Holding
  <2>5. Progress(x)'
    BY <1>0, <1>6, <1>8, <1>9, <2>1, <2>4, OthersProgress
  <2>6. QED
    BY <2>3, <2>5
<1>18. ASSUME faults' = 0 PROVE Calm'
  <2>1. /\ Alive(m) /\ tickLock = m /\ \A x \in Maintainers \ {m} : maint[x].pc = "sleep"
    BY <1>0, <1>18, OneAwake
  <2>2. \A x \in Maintainers \ {m} : Alive(x)'
    BY <1>6, <2>1, AsleepAlive
  <2>3. \A d : Available(d)' = Available(d)
    BY <1>0 DEF Available
  <2>4. /\ \A n \in DOMAIN w.keys, e \in onChain : e[1] # w.keys[n]
        /\ Cardinality(Available(PoolDims[w.i])) + Cardinality(DOMAIN w.keys) <= Target
    BY <1>2, <1>11, <2>1 DEF Alive
  <2>5. Alive(m)'
    <3>1. PICK d : d = PoolDims[w.i]
      OBVIOUS
    <3>2. Cardinality(Available(d)') + Cardinality(DOMAIN w.keys) <= Target
      BY <2>3, <2>4, <3>1
    <3>3. \E b \in inflight' : b.by = m
      BY <1>8, <1>9
    <3>4. QED
      BY <1>0, <1>4, <1>6, <2>1, <2>4, <3>1, <3>2, <3>3 DEF Alive
  <2>6. inflight' = {nb}
    <3>1. \A b \in inflight : b.by \in Maintainers /\ maint[b.by].pc = "watch"
      BY <1>0, <1>18 DEF Calm, PoolTyped
    <3>2. QED
      BY <1>0, <1>9, <2>1, <3>1
  <2>7. ASSUME NEW e \in onChain, rows[e[1]] = None
        PROVE  \E x \in Maintainers : maint'[x].pc \in Holding /\
                 \E n \in DOMAIN maint'[x].keys : maint'[x].keys[n] = e[1]
    <3>1. PICK x \in Maintainers : maint[x].pc \in Holding /\
                 \E n \in DOMAIN maint[x].keys : maint[x].keys[n] = e[1]
      BY <1>0, <1>18, <2>7 DEF Calm
    <3>2. x = m
      BY <2>1, <3>1 DEF Holding
    <3>3. QED
      BY <1>2, <2>4, <3>1, <3>2
  <2>8. \A d \in Dims : Cardinality(Available(d)') <= Target
    BY <1>0, <1>18, <2>3 DEF Calm
  <2>9. /\ maint'[nb.by].pc = "watch" /\ maint'[nb.by].keys = nb.keys
        /\ finalized'[nb.by] = None
    BY <1>0, <1>4, <1>6, <1>8, <1>15
  <2>10. QED
    BY <1>0, <2>2, <2>5, <2>6, <2>7, <2>8, <2>9 DEF Calm
<1>19. Calm'
  BY <1>18 DEF Calm
<1>20. QED
  BY <1>10, <1>13, <1>14, <1>16, <1>17, <1>19 DEF PoolInv

\* The maintainer learns which of its items were accepted, and keeps those keys.
LEMMA BatchFinalizedKeeps ==
  ASSUME InviteInv, NEW m \in Maintainers, BatchFinalized(m) PROVE InviteInv'
<1>0. /\ PoolInv /\ PoolTyped /\ Generated /\ Calm /\ ClaimInv /\ faults \in Nat
      /\ faults' = faults /\ maint[m].pc = "watch" /\ finalized[m] # None
      /\ UNCHANGED <<pc, req, loc, handed, batchSize, tickLock, inflight, finalized, onChain,
                     rows, fresh>>
      /\ \A x \in Maintainers : Stock(x) /\ Progress(x)
  BY DEF InviteInv, PoolInv, PoolTyped, BatchFinalized, Answered
<1>1. ClaimInv'
  BY <1>0, ClaimsUnderPool
<1> SUFFICES PoolInv'
  BY <1>1 DEF InviteInv
<1>2. PICK w \in Maintainer : w = maint[m]
  BY <1>0, MaintainerIs
<1>3. PICK A : A = {n \in DOMAIN w.keys : ItemAccepted(finalized[m], n)}
  OBVIOUS
<1>4. PICK f : f = [n \in A |-> w.keys[n]]
  OBVIOUS
<1>5. /\ DOMAIN f = A /\ A \subseteq DOMAIN w.keys /\ A \in SUBSET (1..BatchMax)
      /\ \A n \in A : f[n] = w.keys[n] /\ w.keys[n] \in Tickets
  BY <1>0, <1>2, <1>3, <1>4, MaintainerIs
<1>6. f \in KeyMaps
  <2>1. f \in [A -> Tickets]
    BY <1>4, <1>5
  <2>2. QED
    BY <1>5, <2>1, KeyMapMade
<1>7. PICK v : v = [w EXCEPT !.pc = "insert", !.keys = f]
  OBVIOUS
<1>8. v \in Maintainer /\ v.pc = "insert" /\ v.keys = f /\ v.i = w.i
  BY <1>6, <1>7 DEF Maintainer, Holding
<1>9. maint' = [maint EXCEPT ![m] = v]
  BY <1>0, <1>2, <1>3, <1>4, <1>7 DEF PoolTyped, BatchFinalized
<1>10. /\ maint' \in [Maintainers -> Maintainer] /\ maint'[m] = v
       /\ \A x \in Maintainers \ {m} : maint'[x] = maint[x]
  BY <1>0, <1>8, <1>9 DEF PoolTyped
<1>11. PoolTyped' /\ Generated'
  BY <1>0, <1>10 DEF PoolTyped, Generated
<1>12. fresh <= fresh' /\ w.pc \in Holding /\ w.pc = "watch"
  BY <1>0, <1>2, PoolConstants DEF PoolTyped, Holding
<1>13. /\ \A n \in DOMAIN w.keys : w.keys[n] < fresh /\ rows[w.keys[n]] = None
       /\ \A k, n \in DOMAIN w.keys : w.keys[k] = w.keys[n] => k = n
       /\ \A x \in Maintainers \ {m} : maint[x].pc \in Holding =>
            \A k \in DOMAIN maint[x].keys, n \in DOMAIN w.keys : maint[x].keys[k] # w.keys[n]
  BY <1>0, <1>2, <1>12 DEF Stock
<1>14. Stock(m)'
  BY <1>0, <1>5, <1>8, <1>10, <1>13 DEF Stock
<1>15. Progress(m)'
  <2>1. \A n \in A : <<f[n], PoolDims[w.i]>> \in onChain
    BY <1>0, <1>2, <1>3, <1>5 DEF Progress
  <2>2. QED
    BY <1>0, <1>5, <1>8, <1>10, <2>1 DEF Progress
<1>16. ASSUME NEW x \in Maintainers \ {m} PROVE Stock(x)' /\ Progress(x)'
  <2>1. Stock(x) /\ Progress(x)
    BY <1>0
  <2>2. maint'[m].pc \in Holding /\ maint[x].pc \in Holding =>
          \A k \in DOMAIN maint'[m].keys, n \in DOMAIN maint[x].keys :
            maint'[m].keys[k] # maint[x].keys[n]
    BY <1>5, <1>8, <1>10, <1>13
  <2>3. Stock(x)'
    BY <1>0, <1>10, <1>11, <1>12, <2>1, <2>2, OthersStock
  <2>4. Progress(x)'
    BY <1>0, <1>10, <2>1, OthersProgress
  <2>5. QED
    BY <2>3, <2>4
<1>17. ASSUME faults' = 0 PROVE Calm'
  <2>1. /\ Alive(m) /\ tickLock = m /\ \A x \in Maintainers \ {m} : maint[x].pc = "sleep"
    BY <1>0, <1>17, OneAwake
  <2>2. \A x \in Maintainers \ {m} : Alive(x)'
    BY <1>10, <2>1, AsleepAlive
  <2>3. \A d : Available(d)' = Available(d)
    BY <1>0 DEF Available
  <2>4. /\ \A n \in DOMAIN w.keys, e \in onChain : e[1] = w.keys[n] => n \in A
        /\ Cardinality(Available(PoolDims[w.i])) + Cardinality(DOMAIN w.keys) <= Target
    BY <1>2, <1>3, <1>12, <2>1 DEF Alive
  <2>5. /\ Cardinality(A) \in Nat /\ Cardinality(DOMAIN w.keys) \in Nat
        /\ Cardinality(A) <= Cardinality(DOMAIN w.keys)
    <3>1. IsFiniteSet(DOMAIN w.keys)
      BY <1>0, <1>2, MaintainerIs, TicketsFinite
    <3>2. QED
      BY <1>5, <3>1, FS_Subset, FS_CardinalityType
  <2>6. Alive(m)'
    <3>1. PICK d : d = PoolDims[w.i]
      OBVIOUS
    <3>2. Cardinality(Available(d)) \in Nat
      BY TicketsFinite
    <3>3. Cardinality(Available(d)') + Cardinality(DOMAIN f) <= Target
      BY <1>5, <2>3, <2>4, <2>5, <3>1, <3>2, PoolConstants
    <3>4. QED
      BY <1>0, <1>8, <1>10, <2>1, <3>1, <3>3 DEF Alive
  <2>7. inflight' = {}
    <3>1. \A b \in inflight : /\ b.by \in Maintainers /\ maint[b.by].pc = "watch"
                              /\ finalized[b.by] = None
      BY <1>0, <1>17 DEF Calm, PoolTyped
    <3>2. QED
      BY <1>0, <2>1, <3>1
  <2>8. ASSUME NEW e \in onChain, rows[e[1]] = None
        PROVE  \E x \in Maintainers : maint'[x].pc \in Holding /\
                 \E n \in DOMAIN maint'[x].keys : maint'[x].keys[n] = e[1]
    <3>1. PICK x \in Maintainers : maint[x].pc \in Holding /\
                 \E n \in DOMAIN maint[x].keys : maint[x].keys[n] = e[1]
      BY <1>0, <1>17, <2>8 DEF Calm
    <3>2. x = m
      BY <2>1, <3>1 DEF Holding
    <3>3. PICK n \in DOMAIN w.keys : w.keys[n] = e[1]
      BY <1>2, <3>1, <3>2
    <3>4. n \in DOMAIN f /\ f[n] = e[1]
      BY <1>5, <2>4, <3>3
    <3>5. QED
      BY <1>8, <1>10, <3>4 DEF Holding
  <2>9. \A d \in Dims : Cardinality(Available(d)') <= Target
    BY <1>0, <1>17, <2>3 DEF Calm
  <2>10. QED
    BY <1>0, <2>2, <2>6, <2>7, <2>8, <2>9 DEF Calm
<1>18. Calm'
  BY <1>17 DEF Calm
<1>19. QED
  BY <1>11, <1>14, <1>15, <1>16, <1>18 DEF PoolInv

\* One accepted key becomes a row of the pool.
LEMMA RowInserted ==
  ASSUME PoolInv, NEW m \in Maintainers, NEW w \in Maintainer, w = maint[m], w.pc = "insert",
         NEW n \in DOMAIN w.keys, NEW v \in Maintainer, v.pc = "insert", v.i = w.i,
         DOMAIN v.keys = DOMAIN w.keys \ {n}, \A k \in DOMAIN v.keys : v.keys[k] = w.keys[k],
         maint' \in [Maintainers -> Maintainer], maint'[m] = v,
         \A x \in Maintainers \ {m} : maint'[x] = maint[x],
         NEW t \in Tickets, t = w.keys[n], NEW d \in Dims, d = PoolDims[w.i],
         rows' \in [Tickets -> {None} \cup TicketRow],
         rows'[t] # None, rows'[t].dim = d, rows'[t].state = "available",
         \A u \in Tickets \ {t} : rows'[u] = rows[u],
         UNCHANGED <<batchSize, tickLock, finalized, inflight, onChain, fresh, faults>>
  PROVE  PoolInv'
<1>0. /\ PoolTyped /\ Generated /\ Calm /\ \A x \in Maintainers : Stock(x) /\ Progress(x)
  BY DEF PoolInv
<1>1. PICK f : f = v.keys
  OBVIOUS
<1>2. PICK A : A = DOMAIN w.keys \ {n}
  OBVIOUS
<1>3. /\ DOMAIN f = A /\ n \in DOMAIN w.keys
      /\ \A k \in A : f[k] = w.keys[k] /\ k \in DOMAIN w.keys /\ k # n
      /\ \A k \in DOMAIN w.keys : w.keys[k] \in Tickets
  BY <1>0, <1>1, <1>2, MaintainerIs
<1>4. PoolTyped'
  BY <1>0 DEF PoolTyped
<1>5. fresh <= fresh' /\ w.pc \in Holding /\ w.pc = "insert"
  BY <1>0, <1>1, PoolConstants DEF PoolTyped, Holding
<1>6. /\ \A k \in DOMAIN w.keys : w.keys[k] < fresh /\ rows[w.keys[k]] = None
      /\ \A k, j \in DOMAIN w.keys : w.keys[k] = w.keys[j] => k = j
      /\ \A x \in Maintainers \ {m} : maint[x].pc \in Holding =>
           \A k \in DOMAIN maint[x].keys, j \in DOMAIN w.keys : maint[x].keys[k] # w.keys[j]
      /\ \A k \in DOMAIN w.keys : <<w.keys[k], d>> \in onChain
  <2>1. Stock(m) /\ Progress(m)
    BY <1>0
  <2>2. \A k \in DOMAIN w.keys : <<w.keys[k], d>> \in onChain
    BY <2>1 DEF Progress
  <2>3. QED
    BY <1>5, <2>1, <2>2 DEF Stock
<1>7. Generated'
  <2>1. <<t, d>> \in onChain
    BY <1>6
  <2>2. \A u \in Tickets : rows'[u] # None => <<u, rows'[u].dim>> \in onChain
    BY <1>0, <2>1 DEF Generated
  <2>3. QED
    BY <1>0, <2>2 DEF Generated
<1>8. Stock(m)'
  <2>1. \A k \in A : f[k] # t /\ f[k] \in Tickets
    BY <1>3, <1>6
  <2>2. \A k \in A : f[k] < fresh' /\ rows'[f[k]] = None
    BY <1>3, <1>6, <2>1
  <2>3. \A k, j \in A : f[k] = f[j] => k = j
    BY <1>3, <1>6
  <2>4. \A x \in Maintainers \ {m} : maint'[x].pc \in Holding =>
          \A k \in DOMAIN maint'[x].keys, j \in A : maint'[x].keys[k] # f[j]
    BY <1>3, <1>6
  <2>5. QED
    BY <1>3, <1>1, <2>2, <2>3, <2>4 DEF Stock
<1>9. Progress(m)'
  <2>1. \A k \in DOMAIN w.keys : <<w.keys[k], d>> \in onChain
    BY <1>6
  <2>2. ASSUME NEW k \in DOMAIN v.keys PROVE <<v.keys[k], PoolDims[v.i]>> \in onChain
    <3>1. <<w.keys[k], d>> \in onChain /\ v.keys[k] = w.keys[k]
      BY <2>1
    <3>2. QED
      BY <3>1
  <2>3. QED
    BY <2>2 DEF Progress
<1>10. ASSUME NEW x \in Maintainers \ {m} PROVE Stock(x)' /\ Progress(x)'
  <2>1. Stock(x) /\ Progress(x)
    BY <1>0
  <2>2. maint'[m].pc \in Holding /\ maint[x].pc \in Holding =>
          \A k \in DOMAIN maint'[m].keys, j \in DOMAIN maint[x].keys :
            maint'[m].keys[k] # maint[x].keys[j]
    BY <1>3, <1>1, <1>6
  <2>3. maint[x].pc \in Holding => \A k \in DOMAIN maint[x].keys :
          rows'[maint[x].keys[k]] = rows[maint[x].keys[k]]
    <3>1. \A k \in DOMAIN maint[x].keys : maint[x].keys[k] \in Tickets
      BY <1>0, MaintainerIs
    <3>2. QED
      BY <1>3, <1>6, <3>1
  <2>4. Stock(x)'
    BY <1>0, <1>4, <1>5, <2>1, <2>2, <2>3, OthersStock
  <2>5. Progress(x)'
    BY <2>1, OthersProgress
  <2>6. QED
    BY <2>4, <2>5
<1>11. ASSUME faults' = 0 PROVE Calm'
  <2>1. /\ Alive(m) /\ tickLock = m /\ \A x \in Maintainers \ {m} : maint[x].pc = "sleep"
    BY <1>11, OneAwake
  <2>2. \A x \in Maintainers \ {m} : Alive(x)'
    BY <2>1, AsleepAlive
  <2>3. /\ Available(d)' \subseteq Available(d) \cup {t}
        /\ \A z \in Dims \ {d} : Available(z)' = Available(z)
    <3>1. rows[t] = None
      BY <1>3, <1>6
    <3>2. QED
      BY <3>1 DEF Available
  <2>4. /\ Cardinality(Available(d)) \in Nat /\ Cardinality(Available(d)') \in Nat
        /\ Cardinality(Available(d)') <= Cardinality(Available(d)) + 1
    <3>1. PICK S : S = Available(d)
      OBVIOUS
    <3>2. PICK T : T = Available(d)'
      OBVIOUS
    <3>3. IsFiniteSet(S) /\ T \subseteq S \cup {t}
      BY <2>3, <3>1, <3>2, TicketsFinite
    <3>4. QED
      BY <3>1, <3>2, <3>3, CountAdds
  <2>5. /\ Cardinality(DOMAIN w.keys) \in Nat /\ Cardinality(A) \in Nat
        /\ Cardinality(A) = Cardinality(DOMAIN w.keys) - 1
    <3>1. IsFiniteSet(DOMAIN w.keys)
      BY <1>0, <1>1, MaintainerIs, TicketsFinite
    <3>2. QED
      BY <1>2, <1>3, <3>1, FS_RemoveElement, FS_CardinalityType
  <2>6. Cardinality(Available(d)) + Cardinality(DOMAIN w.keys) <= Target
    BY <1>1, <1>5, <2>1 DEF Alive
  <2>7. /\ Cardinality(Available(d)') + Cardinality(A) <= Target
        /\ Cardinality(Available(d)') <= Target
    BY <2>4, <2>5, <2>6, PoolConstants
  <2>8. Alive(m)'
    BY <1>3, <1>1, <2>1, <2>7 DEF Alive
  <2>9. inflight' = {}
    <3>1. \A b \in inflight : b.by \in Maintainers /\ maint[b.by].pc = "watch"
      BY <1>0, <1>11 DEF Calm, PoolTyped
    <3>2. QED
      BY <2>1, <3>1
  <2>10. ASSUME NEW e \in onChain, rows'[e[1]] = None
         PROVE  \E x \in Maintainers : maint'[x].pc \in Holding /\
                  \E k \in DOMAIN maint'[x].keys : maint'[x].keys[k] = e[1]
    <3>1. e[1] \in Tickets /\ e[1] # t /\ rows[e[1]] = None
      BY <1>0, <2>10 DEF PoolTyped
    <3>2. PICK x \in Maintainers : maint[x].pc \in Holding /\
                 \E k \in DOMAIN maint[x].keys : maint[x].keys[k] = e[1]
      BY <1>0, <1>11, <3>1 DEF Calm
    <3>3. x = m
      BY <2>1, <3>2 DEF Holding
    <3>4. PICK k \in DOMAIN w.keys : w.keys[k] = e[1]
      BY <1>1, <3>2, <3>3
    <3>5. k \in DOMAIN f /\ f[k] = e[1]
      BY <1>2, <1>3, <3>1, <3>4
    <3>6. QED
      BY <1>1, <3>5 DEF Holding
  <2>11. \A z \in Dims : Cardinality(Available(z)') <= Target
    BY <1>0, <1>11, <2>3, <2>7 DEF Calm
  <2>12. QED
    BY <2>2, <2>8, <2>9, <2>10, <2>11 DEF Calm
<1>12. Calm'
  BY <1>11 DEF Calm
<1>13. QED
  BY <1>4, <1>7, <1>8, <1>9, <1>10, <1>12 DEF PoolInv

\* The accepted keys become rows one by one, then the batch size settles.
LEMMA InsertAvailableKeeps ==
  ASSUME InviteInv, NEW m \in Maintainers, InsertAvailable(m) PROVE InviteInv'
<1>0. /\ PoolInv /\ PoolTyped /\ ClaimInv /\ faults \in Nat /\ faults' = faults
      /\ maint[m].pc = "insert"
      /\ UNCHANGED <<pc, req, loc, handed, inflight, onChain, fresh>>
  BY DEF InviteInv, PoolInv, PoolTyped, InsertAvailable, Answered
<1>1. CASE DOMAIN maint[m].keys = {}
  <2>1. PICK won : Settle(m, won) /\ NextPool(m) /\ UNCHANGED rows
    BY <1>1 DEF InsertAvailable
  <2>2. batchSize' \in [Maintainers -> [DOMAIN PoolDims -> 1..BatchMax]]
    BY <1>0, <2>1, SettleTyped
  <2>3. PoolInv'
    BY <1>0, <1>1, <2>1, <2>2, NextPoolKeeps
  <2>4. ClaimInv'
    BY <1>0, <2>1, ClaimsUnderPool
  <2>5. QED
    BY <2>3, <2>4 DEF InviteInv
<1>2. CASE DOMAIN maint[m].keys # {}
  <2>1. PICK rest : rest = DOMAIN maint[m].keys
    OBVIOUS
  <2>2. rest \subseteq Nat /\ rest # {}
    BY <1>0, <1>2, <2>1, MaintainerIs, PoolConstants
  <2>3. \E k \in rest : \A j \in rest : k <= j
    BY <2>2, LeastOf
  <2>4. PICK n \in rest : n = CHOOSE k \in rest : \A j \in rest : k <= j
    BY <2>3
  <2>5. PICK w \in Maintainer : w = maint[m]
    BY <1>0, MaintainerIs
  <2>6. /\ w.pc = "insert" /\ rest = DOMAIN w.keys /\ w.inserted + 1 \in Nat /\ w.i \in DOMAIN PoolDims
        /\ rest \in SUBSET (1..BatchMax) /\ \A k \in rest : w.keys[k] \in Tickets
    BY <1>0, <2>1, <2>5, MaintainerIs
  <2>7. PICK t \in Tickets : t = w.keys[n]
    BY <2>6
  <2>8. PICK d \in Dims : d = PoolDims[w.i]
    BY <2>6 DEF Dims
  <2>9. PICK row : row = [dim |-> d, state |-> "available"]
    OBVIOUS
  <2>10. row \in TicketRow /\ row.dim = d /\ row.state = "available"
    BY <2>9 DEF TicketRow
  <2>11. PICK f : f = [k \in rest \ {n} |-> w.keys[k]]
    OBVIOUS
  <2>12. /\ f \in KeyMaps /\ DOMAIN f = rest \ {n} /\ \A k \in DOMAIN f : f[k] = w.keys[k]
    <3>1. f \in [rest \ {n} -> Tickets] /\ rest \ {n} \in SUBSET (1..BatchMax)
      BY <2>6, <2>11
    <3>2. QED
      BY <2>11, <3>1, KeyMapMade
  <2>13. PICK v : v = [w EXCEPT !.keys = f, !.inserted = @ + 1]
    OBVIOUS
  <2>14. v \in Maintainer /\ v.pc = "insert" /\ v.i = w.i /\ v.keys = f
    BY <2>6, <2>12, <2>13 DEF Maintainer
  <2>15. rows' = [rows EXCEPT ![t] = row] /\ UNCHANGED <<batchSize, tickLock, finalized>>
    BY <1>2, <2>1, <2>4, <2>5, <2>7, <2>8, <2>9 DEF InsertAvailable
  <2>16. maint' = [maint EXCEPT ![m] = v]
    <3>1. maint' = [maint EXCEPT ![m].keys = [k \in rest \ {n} |-> maint[m].keys[k]],
                                 ![m].inserted = @ + 1]
      BY <1>2, <2>1, <2>4 DEF InsertAvailable
    <3>2. f = [k \in rest \ {n} |-> maint[m].keys[k]]
      BY <2>5, <2>11
    <3>3. maint' = [maint EXCEPT ![m].keys = f, ![m].inserted = @ + 1]
      BY <3>1, <3>2
    <3>4. QED
      BY <1>0, <2>5, <2>13, <3>3 DEF PoolTyped
  <2>17. /\ maint' \in [Maintainers -> Maintainer] /\ maint'[m] = v
         /\ \A x \in Maintainers \ {m} : maint'[x] = maint[x]
    BY <1>0, <2>14, <2>16 DEF PoolTyped
  <2>18. /\ rows' \in [Tickets -> {None} \cup TicketRow] /\ rows'[t] # None
         /\ rows'[t].dim = d /\ rows'[t].state = "available"
         /\ \A u \in Tickets \ {t} : rows'[u] = rows[u]
    BY <1>0, <2>10, <2>15, PoolConstants DEF PoolTyped
  <2>19. PoolInv'
    BY <1>0, <2>5, <2>6, <2>7, <2>8, <2>12, <2>14, <2>15, <2>17, <2>18, RowInserted
  <2>20. rows[t] = None
    BY <1>0, <2>5, <2>6, <2>7 DEF PoolInv, Stock, Holding
  <2>21. ClaimInv'
    BY <1>0, <2>18, <2>20, ClaimsUnderPool
  <2>22. QED
    BY <2>19, <2>21 DEF InviteInv
<1>3. QED
  BY <1>1, <1>2

\* The chain executes one batch and voids the others: its maintainer, if it still watches,
\* learns item by item what the chain now knows.
LEMMA ChainFinalizesKeeps ==
  ASSUME InviteInv, ChainFinalizes PROVE InviteInv'
<1>0. /\ PoolInv /\ PoolTyped /\ Generated /\ Calm /\ ClaimInv /\ faults \in Nat
      /\ faults' = faults
      /\ UNCHANGED <<pc, req, loc, handed, maint, batchSize, tickLock, rows, fresh>>
      /\ inflight' = {} /\ \A x \in Maintainers : Stock(x) /\ Progress(x)
  BY DEF InviteInv, PoolInv, PoolTyped, ChainFinalizes, servingVars
<1>1. ClaimInv'
  BY <1>0, ClaimsUnderPool
<1> SUFFICES PoolInv'
  BY <1>1 DEF InviteInv
<1>2. PICK b, A :
        /\ b \in inflight /\ A = {n \in DOMAIN b.keys : n <= quotaLeft[b.dim]}
        /\ onChain' = onChain \cup {<<b.keys[n], b.dim>> : n \in A}
        /\ finalized' = IF maint[b.by].pc = "watch" /\ maint[b.by].keys = b.keys
                        THEN [finalized EXCEPT ![b.by] = [n \in DOMAIN b.keys |-> n \in A]]
                        ELSE finalized
  BY DEF ChainFinalizes
<1>3. PICK m \in Maintainers, f \in KeyMaps, d \in Dims : m = b.by /\ f = b.keys /\ d = b.dim
  BY <1>0, <1>2 DEF PoolTyped
<1>4. PICK items : items = [n \in DOMAIN f |-> n \in A]
  OBVIOUS
<1>5. \A n \in DOMAIN f : f[n] \in Tickets /\ f[n] < fresh
  BY <1>0, <1>2, <1>3, KeyMapIs DEF Generated
<1>6. /\ A \subseteq DOMAIN f /\ onChain' = onChain \cup {<<f[n], d>> : n \in A}
      /\ maint[m].pc = "watch" /\ maint[m].keys = f =>
           finalized' = [finalized EXCEPT ![m] = items]
      /\ ~(maint[m].pc = "watch" /\ maint[m].keys = f) => finalized' = finalized
  BY <1>2, <1>3, <1>4
<1>7. /\ DOMAIN finalized' = Maintainers
      /\ \A x \in Maintainers \ {m} : finalized'[x] = finalized[x]
      /\ maint[m].pc = "watch" /\ maint[m].keys = f => finalized'[m] = items
  BY <1>0, <1>6 DEF PoolTyped
<1>8. \A e \in onChain' : e \in onChain \/ \E n \in A : e = <<f[n], d>>
  BY <1>6
<1>9. onChain \subseteq onChain' /\ \A n \in A : <<f[n], d>> \in onChain'
  BY <1>6
<1>10. onChain' \subseteq Tickets \X Dims /\ \A e \in onChain' : e[1] < fresh
  <2>1. SUFFICES ASSUME NEW e \in onChain' PROVE e \in Tickets \X Dims /\ e[1] < fresh
    OBVIOUS
  <2>2. CASE e \in onChain
    BY <1>0, <2>2 DEF PoolTyped, Generated
  <2>3. ASSUME NEW n \in A, e = <<f[n], d>> PROVE e \in Tickets \X Dims /\ e[1] < fresh
    BY <1>5, <1>6, <2>3
  <2>4. QED
    BY <1>8, <2>2, <2>3
<1>11. PoolTyped'
  BY <1>0, <1>7, <1>10 DEF PoolTyped
<1>12. Generated'
  BY <1>0, <1>9, <1>10 DEF Generated
<1>13. ASSUME NEW x \in Maintainers PROVE Stock(x)' /\ Progress(x)'
  <2>1. Stock(x) /\ Progress(x)
    BY <1>0
  <2>2. Stock(x)'
    BY <1>0, <2>1 DEF Stock
  <2>3. CASE finalized'[x] = finalized[x]
    BY <1>0, <1>9, <2>1, <2>2, <2>3, OthersProgress
  <2>4. CASE finalized'[x] # finalized[x]
    <3>1. x = m /\ maint[m].pc = "watch" /\ maint[m].keys = f /\ finalized'[m] = items
      BY <1>6, <1>7, <2>4
    <3>2. PoolDims[maint[m].i] = d
      BY <1>2, <1>3, <2>1, <3>1 DEF Progress
    <3>3. \A n \in DOMAIN f : ItemAccepted(items, n) => n \in A
      BY <1>4, Zenon DEF ItemAccepted
    <3>4. \A n \in DOMAIN f : ItemAccepted(finalized'[m], n) => <<f[n], d>> \in onChain'
      BY <1>9, <3>1, <3>3
    <3>5. Progress(m)'
      BY <1>0, <3>1, <3>2, <3>4 DEF Progress, ItemAccepted
    <3>6. QED
      BY <2>2, <3>1, <3>5
  <2>5. QED
    BY <2>2, <2>3, <2>4
<1>14. ASSUME faults' = 0 PROVE Calm'
  <2>1. maint[m].pc = "watch" /\ maint[m].keys = f /\ finalized[m] = None
    BY <1>0, <1>2, <1>3, <1>14 DEF Calm
  <2>2. /\ Alive(m) /\ tickLock = m /\ \A x \in Maintainers \ {m} : maint[x].pc = "sleep"
    BY <1>0, <1>14, <2>1, OneAwake
  <2>3. \A x \in Maintainers \ {m} : Alive(x)'
    BY <1>0, <2>2, AsleepAlive
  <2>4. finalized'[m] = items /\ items # None
    <3>1. PICK s \in 1..BatchMax : DOMAIN f = 1..s
      BY <1>0, <2>1 DEF Stock
    <3>2. items = [n \in 1..s |-> n \in A]
      BY <1>4, <3>1
    <3>3. [n \in 1..s |-> n \in A] \in [1..s -> BOOLEAN]
      OBVIOUS
    <3>4. items \in [1..s -> BOOLEAN]
      BY <3>2, <3>3
    <3>5. QED
      BY <1>7, <2>1, <3>1, <3>4, PoolConstants
  <2>5. \A d1 : Available(d1)' = Available(d1)
    BY <1>0 DEF Available
  <2>6. /\ \A n \in DOMAIN f, e \in onChain : e[1] # f[n]
        /\ Cardinality(Available(PoolDims[maint[m].i])) + Cardinality(DOMAIN f) <= Target
        /\ \A k, n \in DOMAIN f : f[k] = f[n] => k = n
    <3>1. /\ \A n \in DOMAIN f, e \in onChain : e[1] # f[n]
          /\ Cardinality(Available(PoolDims[maint[m].i])) + Cardinality(DOMAIN f) <= Target
      BY <2>1, <2>2 DEF Alive, Holding
    <3>2. Stock(m)
      BY <1>0
    <3>3. \A k, n \in DOMAIN f : f[k] = f[n] => k = n
      BY <2>1, <3>2 DEF Stock, Holding
    <3>4. QED
      BY <3>1, <3>3
  <2>7. ASSUME NEW n \in DOMAIN f, NEW e \in onChain', e[1] = f[n]
        PROVE  ItemAccepted(items, n)
    <3>1. PICK k \in A : e = <<f[k], d>>
      BY <1>8, <2>6, <2>7
    <3>2. k = n
      BY <1>6, <2>6, <2>7, <3>1
    <3>3. n \in A
      BY <3>1, <3>2
    <3>4. QED
      BY <1>4, <3>3, Zenon DEF ItemAccepted
  <2>8. Alive(m)'
    <3>1. PICK z : z = PoolDims[maint[m].i]
      OBVIOUS
    <3>2. Cardinality(Available(z)') + Cardinality(DOMAIN f) <= Target
      BY <2>5, <2>6, <3>1
    <3>3. \A n \in DOMAIN f, e \in onChain' : e[1] = f[n] =>
            finalized'[m] # None /\ ItemAccepted(finalized'[m], n)
      BY <2>4, <2>7
    <3>4. QED
      BY <1>0, <2>1, <2>2, <2>4, <3>1, <3>2, <3>3 DEF Alive, ItemAccepted
  <2>9. ASSUME NEW e \in onChain', rows'[e[1]] = None
        PROVE  \E x \in Maintainers : maint'[x].pc \in Holding /\
                 \E n \in DOMAIN maint'[x].keys : maint'[x].keys[n] = e[1]
    <3>1. CASE e \in onChain
      BY <1>0, <1>14, <2>9, <3>1 DEF Calm
    <3>2. ASSUME NEW n \in A, e = <<f[n], d>>
          PROVE  n \in DOMAIN maint[m].keys /\ maint[m].keys[n] = e[1]
      BY <1>6, <2>1, <3>2
    <3>3. QED
      BY <1>0, <1>8, <2>1, <3>1, <3>2 DEF Holding
  <2>10. \A z \in Dims : Cardinality(Available(z)') <= Target
    BY <1>0, <1>14, <2>5 DEF Calm
  <2>11. QED
    BY <1>0, <2>3, <2>8, <2>9, <2>10 DEF Calm
<1>15. Calm'
  BY <1>14 DEF Calm
<1>16. QED
  BY <1>11, <1>12, <1>13, <1>15 DEF PoolInv

\* The pools start empty.
LEMMA InviteStarts == Init => (role = "invite" => InviteInv)
<1> SUFFICES ASSUME ServingInit, InviteInit PROVE InviteInv
  BY DEF Init
<1>1. Asleep \in Maintainer /\ Asleep.pc = "sleep" /\ 1 \in DOMAIN PoolDims
  <2>1. 1 \in DOMAIN PoolDims
    BY PoolConstants
  <2>2. QED
    BY <2>1, ResetIs
<1>2. /\ \A m \in Maintainers : maint[m].pc = "sleep" /\ finalized[m] = None
      /\ \A t \in Tickets : rows[t] = None /\ handed[t] = 0
      /\ inflight = {} /\ onChain = {} /\ fresh = 1 /\ faults = 0
  BY <1>1 DEF InviteInit, ServingInit
<1>3. PoolTyped
  BY <1>1, PoolConstants DEF PoolTyped, InviteInit, ServingInit
<1>4. Generated /\ \A m \in Maintainers : Stock(m) /\ Progress(m) /\ Alive(m)
  BY <1>2 DEF Generated, Stock, Progress, Alive, Holding
<1>5. Calm
  <2>1. \A d : Available(d) = {}
    BY <1>2 DEF Available
  <2>2. \A d \in Dims : Cardinality(Available(d)) <= Target
    <3>1. Cardinality({}) = 0 /\ 0 <= Target
      BY FS_EmptySet, PoolConstants
    <3>2. QED
      BY <2>1, <3>1
  <2>3. QED
    BY <1>2, <1>4, <2>2 DEF Calm
<1>6. ClaimTyped /\ \A c \in Conns : pc[c] = "idle"
  BY DEF ClaimTyped, ServingInit, InviteInit, ClaimPcs
<1>7. Cardinality(LostKeys) <= faults
  <2>1. LostKeys = {}
    BY <1>2 DEF LostKeys
  <2>2. QED
    BY <1>2, <2>1, FS_EmptySet
<1>8. ClaimInv
  BY <1>2, <1>6, <1>7 DEF ClaimInv, Claiming
<1>9. QED
  BY <1>3, <1>4, <1>5, <1>8 DEF InviteInv, PoolInv

\* The invariant of the tickets.
LEMMA InviteHolds == Spec => [](role = "invite" => InviteInv)
<1> DEFINE Inv == role = "invite" => InviteInv
<1>1. Init => Inv
  BY InviteStarts
<1>2. Inv /\ [Next]_vars => Inv'
  <2> SUFFICES ASSUME Inv, [Next]_vars, role = "invite" PROVE InviteInv'
    BY RoleKept
  <2>1. CASE InviteNext
    BY <2>1, AcquireTickLockKeeps, CountAndPlanKeeps, SubmitBatchKeeps, BatchFinalizedKeeps,
       InsertAvailableKeeps, TickErrorKeeps, MaintainerFaultKeeps, ChainFinalizesKeeps,
       ClaimArrival, PreCheckKeeps, SelectOldestKeeps, CommitClaimKeeps, AnswerClaimKeeps,
       ClaimDroppedKeeps, InviteWaits
       DEF InviteNext
  <2>2. CASE UNCHANGED <<servingVars, inviteVars>>
    BY <2>2, InviteWaits
  <2>3. InviteNext \/ UNCHANGED <<servingVars, inviteVars>>
    BY DEF Next, vars, Quiet
  <2>4. QED
    BY <2>1, <2>2, <2>3
<1>3. QED
  BY <1>1, <1>2, PTL DEF Spec

(* Registered keys nobody has.                                             *)

\* Maintainer m holds key t; t is registered, or may yet be by a batch in flight.
HasKey(m, t) == maint[m].pc \in Holding /\ \E n \in DOMAIN maint[m].keys : maint[m].keys[n] = t
Afloat(t) == \/ \E e \in onChain : e[1] = t
             \/ \E b \in inflight : \E n \in DOMAIN b.keys : b.keys[n] = t
Adrift == {t \in Tickets : rows[t] = None /\ Afloat(t) /\ \A m \in Maintainers : ~HasKey(m, t)}

\* Whatever failed before, a maintainer's keys are in no batch but its own, which it
\* watches, and on chain only as far as it knows.
Knows(m) ==
  LET w == maint[m] IN
  w.pc \in Holding => \A n \in DOMAIN w.keys :
    /\ \A b \in inflight : \A k \in DOMAIN b.keys : b.keys[k] = w.keys[n] =>
         b.by = m /\ b.keys = w.keys /\ w.pc = "watch" /\ finalized[m] = None
    /\ \A e \in onChain : e[1] = w.keys[n] =>
         \/ w.pc = "insert"
         \/ w.pc = "watch" /\ finalized[m] # None /\ ItemAccepted(finalized[m], n)

DriftInv == /\ \A m \in Maintainers : Knows(m)
            /\ Cardinality(Adrift) <= BatchMax * faults

\* The keys of a batch are no more than its maximum.
LEMMA BatchKeys ==
  ASSUME PoolTyped, NEW m \in Maintainers, NEW S, S = {t \in Tickets : HasKey(m, t)}
  PROVE  IsFiniteSet(S) /\ Cardinality(S) \in Nat /\ Cardinality(S) <= BatchMax
<1>1. PICK f : f = maint[m].keys
  OBVIOUS
<1>2. DOMAIN f \in SUBSET (1..BatchMax) /\ f \in [DOMAIN f -> Tickets]
  <2>1. f \in KeyMaps
    BY <1>1, MaintainerIs
  <2>2. QED
    BY <2>1, KeyMapIs
<1>3. /\ IsFiniteSet(1..BatchMax) /\ Cardinality(1..BatchMax) = BatchMax
  BY PoolConstants, FS_Interval
<1>4. IsFiniteSet(DOMAIN f) /\ Cardinality(DOMAIN f) <= BatchMax /\ Cardinality(DOMAIN f) \in Nat
  BY <1>2, <1>3, FS_Subset, FS_CardinalityType
<1> DEFINE T == {f[n] : n \in DOMAIN f}
<1>5. f \in Surjection(DOMAIN f, T)
  BY <1>2 DEF Surjection
<1>6. IsFiniteSet(T) /\ Cardinality(T) <= Cardinality(DOMAIN f) /\ Cardinality(T) \in Nat
  <2> HIDE DEF T
  <2>1. QED
    BY <1>4, <1>5, FS_Surjection, FS_CardinalityType
<1>7. S \subseteq T
  BY <1>1 DEF HasKey
<1>8. IsFiniteSet(S) /\ Cardinality(S) <= Cardinality(T) /\ Cardinality(S) \in Nat
  <2> HIDE DEF T
  <2>1. QED
    BY <1>6, <1>7, FS_Subset, FS_CardinalityType
<1>9. QED
  BY <1>4, <1>6, <1>8, PoolConstants

\* The keys adrift, now and after the step, are finitely many.
LEMMA DriftFinite ==
  /\ IsFiniteSet(Adrift) /\ Cardinality(Adrift) \in Nat
  /\ IsFiniteSet(Adrift') /\ Cardinality(Adrift') \in Nat
<1>1. Adrift \subseteq Tickets /\ Adrift' \subseteq Tickets
  BY DEF Adrift
<1>2. QED
  BY <1>1, TicketsFinite, FS_Subset, FS_CardinalityType

\* A step that sets no key adrift.
LEMMA DriftKept ==
  ASSUME PoolTyped, Cardinality(Adrift) <= BatchMax * faults,
         Adrift' \subseteq Adrift, faults' \in {faults, faults + 1}
  PROVE  Cardinality(Adrift') <= BatchMax * faults'
<1>1. /\ faults \in Nat /\ BatchMax \in Nat /\ BatchMax * faults \in Nat
      /\ BatchMax * (faults + 1) = BatchMax * faults + BatchMax
  BY PoolConstants DEF PoolTyped
<1>2. Cardinality(Adrift') <= Cardinality(Adrift)
  BY DriftFinite, FS_Subset
<1>3. BatchMax * faults' = BatchMax * faults \/ BatchMax * faults' = BatchMax * faults + BatchMax
  BY <1>1
<1>4. QED
  BY <1>1, <1>2, <1>3, DriftFinite

\* A fault that sets the keys of one maintainer adrift.
LEMMA DriftGrows ==
  ASSUME PoolTyped, Cardinality(Adrift) <= BatchMax * faults, NEW m \in Maintainers,
         \A t \in Adrift' : t \in Adrift \/ HasKey(m, t), faults' = faults + 1
  PROVE  Cardinality(Adrift') <= BatchMax * faults'
<1>1. /\ faults \in Nat /\ BatchMax \in Nat /\ BatchMax * faults \in Nat
      /\ BatchMax * faults' = BatchMax * faults + BatchMax
  BY PoolConstants DEF PoolTyped
<1>2. PICK S : S = {t \in Tickets : HasKey(m, t)}
  OBVIOUS
<1>3. IsFiniteSet(S) /\ Cardinality(S) \in Nat /\ Cardinality(S) <= BatchMax
  BY <1>2, BatchKeys
<1>4. Adrift' \subseteq Adrift \cup S
  BY <1>2 DEF Adrift
<1>5. /\ IsFiniteSet(Adrift \cup S) /\ Cardinality(Adrift \cup S) \in Nat
      /\ Cardinality(Adrift \cup S) <= Cardinality(Adrift) + Cardinality(S)
  <2>1. IsFiniteSet(Adrift \cap S)
    BY DriftFinite, FS_Subset
  <2>2. Cardinality(Adrift \cap S) \in Nat
    BY <2>1, FS_CardinalityType
  <2>3. /\ IsFiniteSet(Adrift \cup S)
        /\ Cardinality(Adrift \cup S) = Cardinality(Adrift) + Cardinality(S) - Cardinality(Adrift \cap S)
    BY <1>3, DriftFinite, FS_Union
  <2>4. Cardinality(Adrift \cup S) \in Nat
    BY <2>3, FS_CardinalityType
  <2>5. QED
    BY <1>3, <2>2, <2>3, <2>4, DriftFinite
<1>6. Cardinality(Adrift') <= Cardinality(Adrift \cup S)
  BY <1>4, <1>5, FS_Subset
<1>7. QED
  BY <1>1, <1>3, <1>5, <1>6, DriftFinite

\* A step of the claims, of the limiter's clock or of a lock's session moves no key.
LEMMA DriftRests ==
  ASSUME PoolTyped, DriftInv, UNCHANGED <<maint, inflight, finalized, onChain>>,
         \A t \in Tickets : rows[t] # None => rows'[t] # None,
         faults' \in {faults, faults + 1}
  PROVE  DriftInv'
<1>1. \A m \in Maintainers : Knows(m)'
  BY DEF DriftInv, Knows, ItemAccepted
<1>2. Adrift' \subseteq Adrift
  BY DEF Adrift, Afloat, HasKey
<1>3. QED
  BY <1>1, <1>2, DriftKept DEF DriftInv

\* A maintainer drops what it has: with a fault, or when none of it is afloat.
LEMMA DriftDrops ==
  ASSUME PoolTyped, DriftInv, NEW m \in Maintainers, maint'[m].pc \notin Holding,
         \A x \in Maintainers \ {m} : maint'[x] = maint[x] /\ finalized'[x] = finalized[x],
         UNCHANGED <<inflight, onChain, rows>>,
         \/ faults' = faults + 1
         \/ faults' = faults /\ \A t \in Tickets : HasKey(m, t) => ~Afloat(t)
  PROVE  DriftInv'
<1>1. ASSUME NEW x \in Maintainers PROVE Knows(x)'
  <2>1. CASE x = m
    BY <2>1 DEF Knows
  <2>2. CASE x # m
    <3>1. Knows(x) /\ maint'[x] = maint[x] /\ finalized'[x] = finalized[x]
      BY <2>2 DEF DriftInv
    <3>2. QED
      BY <3>1 DEF Knows, ItemAccepted
  <2>3. QED
    BY <2>1, <2>2
<1>2. ASSUME NEW t \in Adrift' PROVE t \in Adrift \/ (HasKey(m, t) /\ Afloat(t))
  <2>1. t \in Tickets /\ rows[t] = None /\ Afloat(t)
    BY DEF Adrift, Afloat
  <2>2. \A x \in Maintainers \ {m} : ~HasKey(x, t)
    BY DEF Adrift, HasKey
  <2>3. QED
    BY <2>1, <2>2 DEF Adrift
<1>3. CASE faults' = faults + 1
  BY <1>1, <1>2, <1>3, DriftGrows DEF DriftInv
<1>4. CASE faults' = faults /\ \A t \in Tickets : HasKey(m, t) => ~Afloat(t)
  <2>1. Adrift' \subseteq Adrift
    BY <1>2, <1>4 DEF Adrift
  <2>2. QED
    BY <1>1, <1>4, <2>1, DriftKept DEF DriftInv
<1>5. QED
  BY <1>3, <1>4

\* Going on to the next pool drops the keys of the last.
LEMMA NextPoolDrops ==
  ASSUME PoolTyped, NEW m \in Maintainers, NextPool(m)
  PROVE  /\ maint'[m].pc \notin Holding
         /\ \A x \in Maintainers \ {m} : maint'[x] = maint[x] /\ finalized'[x] = finalized[x]
<1>1. \A x \in Maintainers \ {m} : finalized'[x] = finalized[x]
  BY DEF NextPool, PoolTyped
<1>2. PICK w : maint' = [maint EXCEPT ![m] = w] /\ w.pc \in {"sleep", "count"}
  <2>1. CASE maint' = [maint EXCEPT ![m] = Asleep]
    <3>1. Asleep.pc = "sleep"
      BY DEF Asleep
    <3>2. QED
      BY <2>1, <3>1
  <2>2. CASE maint' = [maint EXCEPT ![m] = [Asleep EXCEPT !.pc = "count", !.i = maint[m].i + 1]]
    <3>1. [Asleep EXCEPT !.pc = "count", !.i = maint[m].i + 1].pc = "count"
      BY DEF Asleep
    <3>2. QED
      BY <2>2, <3>1
  <2>3. QED
    BY <2>1, <2>2 DEF NextPool
<1>3. QED
  BY <1>1, <1>2 DEF PoolTyped, Holding

\* A tick begins.
LEMMA AcquireTickLockDrift ==
  ASSUME PoolInv, DriftInv, NEW m \in Maintainers, AcquireTickLock(m) PROVE DriftInv'
<1>1. /\ PoolTyped /\ maint[m].pc = "sleep" /\ faults' = faults
      /\ UNCHANGED <<inflight, onChain, rows, finalized>>
      /\ maint' = [maint EXCEPT ![m] = [Asleep EXCEPT !.pc = "count"]]
  BY DEF PoolInv, AcquireTickLock, servingVars
<1>2. /\ maint'[m].pc \notin Holding
      /\ \A x \in Maintainers \ {m} : maint'[x] = maint[x] /\ finalized'[x] = finalized[x]
  BY <1>1 DEF PoolTyped, Asleep, Holding
<1>3. \A t \in Tickets : ~HasKey(m, t)
  BY <1>1 DEF HasKey, Holding
<1>4. QED
  BY <1>1, <1>2, <1>3, DriftDrops

\* New keys are afloat nowhere.
LEMMA CountAndPlanDrift ==
  ASSUME PoolInv, DriftInv, NEW m \in Maintainers, CountAndPlan(m) PROVE DriftInv'
<1>0. /\ PoolTyped /\ Generated /\ maint[m].pc = "count" /\ faults' = faults
      /\ UNCHANGED <<inflight, onChain, rows>>
  BY DEF PoolInv, CountAndPlan, Answered
<1>1. CASE NextPool(m)
  <2>1. \A t \in Tickets : ~HasKey(m, t)
    BY <1>0 DEF HasKey, Holding
  <2>2. QED
    BY <1>0, <1>1, <2>1, NextPoolDrops, DriftDrops
<1>2. ASSUME NEW size,
             maint' = [maint EXCEPT ![m].pc = "submit",
                                    ![m].keys = [n \in 1..size |-> fresh + n - 1]],
             UNCHANGED finalized
      PROVE  DriftInv'
  <2>1. /\ maint'[m].keys = [n \in 1..size |-> fresh + n - 1]
        /\ \A x \in Maintainers \ {m} : maint'[x] = maint[x]
    BY <1>0, <1>2 DEF PoolTyped, Maintainer
  <2>2. fresh \in Nat
    BY <1>0, PoolConstants DEF PoolTyped
  <2>3. \A n \in DOMAIN maint'[m].keys : maint'[m].keys[n] \in Nat /\ maint'[m].keys[n] >= fresh
    BY <2>1, <2>2
  <2>4. \A e \in onChain : e[1] \in Nat /\ e[1] < fresh
    BY <1>0 DEF PoolTyped, Generated, Tickets
  <2>5. \A b \in inflight : \A n \in DOMAIN b.keys : b.keys[n] \in Nat /\ b.keys[n] < fresh
    <3>1. SUFFICES ASSUME NEW b \in inflight, NEW n \in DOMAIN b.keys
                   PROVE  b.keys[n] \in Nat /\ b.keys[n] < fresh
      OBVIOUS
    <3>2. PICK f \in KeyMaps : f = b.keys
      BY <1>0 DEF PoolTyped
    <3>3. b.keys[n] \in Tickets
      BY <3>1, <3>2, KeyMapIs
    <3>4. QED
      BY <1>0, <3>1, <3>3 DEF Generated, Tickets
  <2>6. ASSUME NEW x \in Maintainers PROVE Knows(x)'
    <3>1. CASE x = m
      <4>1. \A n \in DOMAIN maint'[m].keys :
              /\ \A b \in inflight : \A k \in DOMAIN b.keys : b.keys[k] # maint'[m].keys[n]
              /\ \A e \in onChain : e[1] # maint'[m].keys[n]
        BY <2>2, <2>3, <2>4, <2>5
      <4>2. QED
        BY <1>0, <3>1, <4>1 DEF Knows
    <3>2. CASE x # m
      <4>1. Knows(x) /\ maint'[x] = maint[x] /\ finalized'[x] = finalized[x]
        BY <1>2, <2>1, <3>2 DEF DriftInv
      <4>2. QED
        BY <1>0, <4>1 DEF Knows, ItemAccepted
    <3>3. QED
      BY <3>1, <3>2
  <2>7. Adrift' \subseteq Adrift
    <3>1. SUFFICES ASSUME NEW t \in Adrift' PROVE t \in Adrift
      OBVIOUS
    <3>2. t \in Tickets /\ rows[t] = None /\ Afloat(t)
      BY <1>0 DEF Adrift, Afloat
    <3>3. \A x \in Maintainers \ {m} : ~HasKey(x, t)
      BY <2>1 DEF Adrift, HasKey
    <3>4. ~HasKey(m, t)
      BY <1>0 DEF HasKey, Holding
    <3>5. QED
      BY <3>2, <3>3, <3>4 DEF Adrift
  <2>8. QED
    BY <1>0, <2>6, <2>7, DriftKept DEF DriftInv
<1>3. QED
  <2>1. PICK size : \/ NextPool(m)
                    \/ /\ maint' = [maint EXCEPT ![m].pc = "submit",
                                                 ![m].keys = [n \in 1..size |-> fresh + n - 1]]
                       /\ UNCHANGED finalized
    BY DEF CountAndPlan
  <2>2. QED
    BY <1>1, <1>2, <2>1

\* A submitted batch is of keys no other maintainer has.
LEMMA SubmitBatchDrift ==
  ASSUME PoolInv, DriftInv, NEW m \in Maintainers, SubmitBatch(m) PROVE DriftInv'
<1>0. /\ PoolTyped /\ maint[m].pc = "submit" /\ faults' = faults /\ Stock(m) /\ Progress(m)
      /\ UNCHANGED <<finalized, onChain, rows>> /\ maint' = [maint EXCEPT ![m].pc = "watch"]
  BY DEF PoolInv, SubmitBatch, Answered
<1>1. PICK nb : nb = [by |-> m, keys |-> maint[m].keys, dim |-> PoolDims[maint[m].i]]
  OBVIOUS
<1>2. nb.by = m /\ nb.keys = maint[m].keys /\ inflight' = inflight \cup {nb}
  BY <1>1 DEF SubmitBatch
<1>3. /\ maint'[m].pc = "watch" /\ maint'[m].keys = maint[m].keys
      /\ \A x \in Maintainers \ {m} : maint'[x] = maint[x]
  BY <1>0 DEF PoolTyped, Maintainer
<1>4. finalized[m] = None
  BY <1>0 DEF Progress
<1>5. \A n \in DOMAIN maint[m].keys :
        /\ \A b \in inflight : \A k \in DOMAIN b.keys : b.keys[k] # maint[m].keys[n]
        /\ \A e \in onChain : e[1] # maint[m].keys[n]
  BY <1>0 DEF DriftInv, Knows, Holding
<1>6. ASSUME NEW x \in Maintainers PROVE Knows(x)'
  <2>1. CASE x = m
    BY <1>0, <1>2, <1>3, <1>4, <1>5, <2>1 DEF Knows
  <2>2. CASE x # m
    <3>1. Knows(x) /\ maint'[x] = maint[x] /\ finalized'[x] = finalized[x]
      BY <1>0, <1>3, <2>2 DEF DriftInv
    <3>2. maint[x].pc \in Holding => \A n \in DOMAIN maint[x].keys : \A k \in DOMAIN nb.keys :
            nb.keys[k] # maint[x].keys[n]
      BY <1>0, <1>2, <2>2 DEF Stock, Holding
    <3>3. SUFFICES ASSUME maint[x].pc \in Holding, NEW n \in DOMAIN maint[x].keys
                   PROVE  /\ \A b \in inflight' : \A k \in DOMAIN b.keys : b.keys[k] = maint[x].keys[n] =>
                               b.by = x /\ b.keys = maint[x].keys /\ maint[x].pc = "watch" /\ finalized[x] = None
                          /\ \A e \in onChain' : e[1] = maint[x].keys[n] =>
                               \/ maint[x].pc = "insert"
                               \/ /\ maint[x].pc = "watch" /\ finalized[x] # None
                                  /\ ItemAccepted(finalized[x], n)
      BY <3>1 DEF Knows, ItemAccepted
    <3>4. \A b \in inflight' : \A k \in DOMAIN b.keys : b.keys[k] = maint[x].keys[n] =>
            b.by = x /\ b.keys = maint[x].keys /\ maint[x].pc = "watch" /\ finalized[x] = None
      BY <1>2, <3>1, <3>2, <3>3 DEF Knows
    <3>5. \A e \in onChain' : e[1] = maint[x].keys[n] =>
            \/ maint[x].pc = "insert"
            \/ maint[x].pc = "watch" /\ finalized[x] # None /\ ItemAccepted(finalized[x], n)
      BY <1>0, <3>1, <3>3 DEF Knows
    <3>6. QED
      BY <3>4, <3>5
  <2>3. QED
    BY <2>1, <2>2
<1>7. Adrift' \subseteq Adrift
  <2>1. SUFFICES ASSUME NEW t \in Adrift' PROVE t \in Adrift
    OBVIOUS
  <2>2. \A x \in Maintainers : ~HasKey(x, t)
    <3>1. ASSUME NEW x \in Maintainers, HasKey(x, t) PROVE HasKey(x, t)'
      <4>1. CASE x = m
        BY <1>3, <3>1, <4>1 DEF HasKey, Holding
      <4>2. CASE x # m
        <5>1. maint'[x] = maint[x]
          BY <1>3, <4>2
        <5>2. QED
          BY <3>1, <5>1 DEF HasKey
      <4>3. QED
        BY <4>1, <4>2
    <3>2. QED
      BY <3>1 DEF Adrift
  <2>3. \A n \in DOMAIN nb.keys : nb.keys[n] # t
    BY <1>0, <1>2, <2>2 DEF HasKey, Holding
  <2>4. t \in Tickets /\ rows[t] = None /\ Afloat(t)
    BY <1>0, <1>2, <2>3 DEF Adrift, Afloat
  <2>5. QED
    BY <2>2, <2>4 DEF Adrift
<1>8. QED
  BY <1>0, <1>6, <1>7, DriftKept DEF DriftInv

\* The keys a finalized batch did not register are afloat nowhere.
LEMMA BatchFinalizedDrift ==
  ASSUME PoolInv, DriftInv, NEW m \in Maintainers, BatchFinalized(m) PROVE DriftInv'
<1>0. /\ PoolTyped /\ maint[m].pc = "watch" /\ finalized[m] # None /\ faults' = faults
      /\ UNCHANGED <<inflight, finalized, onChain, rows>>
  BY DEF PoolInv, BatchFinalized, Answered
<1>1. PICK A : A = {n \in DOMAIN maint[m].keys : ItemAccepted(finalized[m], n)}
  OBVIOUS
<1>2. PICK f : f = [n \in A |-> maint[m].keys[n]]
  OBVIOUS
<1>3. DOMAIN f = A /\ A \subseteq DOMAIN maint[m].keys /\ \A n \in A : f[n] = maint[m].keys[n]
  BY <1>1, <1>2
<1>4. maint' = [maint EXCEPT ![m].pc = "insert", ![m].keys = f]
  BY <1>1, <1>2 DEF BatchFinalized
<1>5. /\ maint'[m].pc = "insert" /\ maint'[m].keys = f
      /\ \A x \in Maintainers \ {m} : maint'[x] = maint[x]
  BY <1>0, <1>4 DEF PoolTyped, Maintainer
<1>6. \A n \in DOMAIN maint[m].keys :
        /\ \A b \in inflight : \A k \in DOMAIN b.keys : b.keys[k] # maint[m].keys[n]
        /\ \A e \in onChain : e[1] = maint[m].keys[n] => n \in A
  BY <1>0, <1>1 DEF DriftInv, Knows, Holding
<1>7. ASSUME NEW x \in Maintainers PROVE Knows(x)'
  <2>1. CASE x = m
    BY <1>0, <1>3, <1>5, <1>6, <2>1 DEF Knows
  <2>2. CASE x # m
    <3>1. Knows(x) /\ maint'[x] = maint[x] /\ finalized'[x] = finalized[x]
      BY <1>0, <1>5, <2>2 DEF DriftInv
    <3>2. QED
      BY <1>0, <3>1 DEF Knows, ItemAccepted
  <2>3. QED
    BY <2>1, <2>2
<1>8. Adrift' \subseteq Adrift
  <2>1. SUFFICES ASSUME NEW t \in Adrift' PROVE t \in Adrift
    OBVIOUS
  <2>2. t \in Tickets /\ rows[t] = None /\ Afloat(t)
    BY <1>0 DEF Adrift, Afloat
  <2>3. \A x \in Maintainers \ {m} : ~HasKey(x, t)
    BY <1>5 DEF Adrift, HasKey
  <2>4. ~HasKey(m, t)
    <3>1. SUFFICES ASSUME NEW n \in DOMAIN maint[m].keys, maint[m].keys[n] = t PROVE FALSE
      BY DEF HasKey
    <3>2. n \in A
      BY <1>6, <2>2, <3>1 DEF Afloat
    <3>3. HasKey(m, t)'
      BY <1>3, <1>5, <3>1, <3>2 DEF HasKey, Holding
    <3>4. QED
      BY <3>3 DEF Adrift
  <2>5. QED
    BY <2>2, <2>3, <2>4 DEF Adrift
<1>9. QED
  BY <1>0, <1>7, <1>8, DriftKept DEF DriftInv

\* A key leaves its maintainer for a row, or the last one has.
LEMMA InsertAvailableDrift ==
  ASSUME PoolInv, DriftInv, NEW m \in Maintainers, InsertAvailable(m) PROVE DriftInv'
<1>0. /\ PoolTyped /\ maint[m].pc = "insert" /\ faults' = faults
      /\ UNCHANGED <<inflight, onChain>>
  BY DEF PoolInv, InsertAvailable, Answered
<1>1. CASE DOMAIN maint[m].keys = {}
  <2>1. NextPool(m) /\ UNCHANGED rows
    BY <1>1 DEF InsertAvailable
  <2>2. \A t \in Tickets : ~HasKey(m, t)
    BY <1>1 DEF HasKey
  <2>3. QED
    BY <1>0, <2>1, <2>2, NextPoolDrops, DriftDrops
<1>2. CASE DOMAIN maint[m].keys # {}
  <2>1. PICK rest, n : /\ rest = DOMAIN maint[m].keys
                       /\ n = CHOOSE k \in rest : \A j \in rest : k <= j
    OBVIOUS
  <2>2. n \in rest
    <3>1. rest \subseteq Nat /\ rest # {}
      BY <1>0, <1>2, <2>1, MaintainerIs, PoolConstants
    <3>2. \E k \in rest : \A j \in rest : k <= j
      BY <3>1, LeastOf
    <3>3. QED
      BY <2>1, <3>2
  <2>3. PICK f, row : /\ f = [k \in rest \ {n} |-> maint[m].keys[k]]
                      /\ row = [dim |-> PoolDims[maint[m].i], state |-> "available"]
    OBVIOUS
  <2>4. /\ rows' = [rows EXCEPT ![maint[m].keys[n]] = row] /\ UNCHANGED finalized
        /\ maint' = [maint EXCEPT ![m].keys = f, ![m].inserted = @ + 1]
    BY <1>2, <2>1, <2>3 DEF InsertAvailable
  <2>5. /\ maint'[m].pc = "insert" /\ maint'[m].keys = f
        /\ \A x \in Maintainers \ {m} : maint'[x] = maint[x]
    BY <1>0, <2>4 DEF PoolTyped, Maintainer
  <2>6. DOMAIN f = rest \ {n} /\ \A k \in rest \ {n} : f[k] = maint[m].keys[k]
    BY <2>3
  <2>7. row # None /\ maint[m].keys[n] \in Tickets
    <3>1. row \in TicketRow
      BY <1>0, <2>3, MaintainerIs DEF TicketRow, Dims
    <3>2. QED
      BY <1>0, <2>1, <2>2, <3>1, MaintainerIs, PoolConstants
  <2>8. /\ rows'[maint[m].keys[n]] # None
        /\ \A t \in Tickets : rows'[t] = None => rows[t] = None
    BY <1>0, <2>4, <2>7 DEF PoolTyped
  <2>9. ASSUME NEW x \in Maintainers PROVE Knows(x)'
    <3>1. CASE x = m
      <4>1. \A k \in DOMAIN f : \A b \in inflight : \A j \in DOMAIN b.keys : b.keys[j] # f[k]
        BY <1>0, <2>1, <2>6 DEF DriftInv, Knows, Holding
      <4>2. QED
        BY <1>0, <2>5, <3>1, <4>1 DEF Knows
    <3>2. CASE x # m
      <4>1. Knows(x) /\ maint'[x] = maint[x] /\ finalized'[x] = finalized[x]
        BY <2>4, <2>5, <3>2 DEF DriftInv
      <4>2. QED
        BY <1>0, <4>1 DEF Knows, ItemAccepted
    <3>3. QED
      BY <3>1, <3>2
  <2>10. Adrift' \subseteq Adrift
    <3>1. SUFFICES ASSUME NEW t \in Adrift' PROVE t \in Adrift
      OBVIOUS
    <3>2. t \in Tickets /\ rows[t] = None /\ Afloat(t) /\ t # maint[m].keys[n]
      BY <1>0, <2>8 DEF Adrift, Afloat
    <3>3. \A x \in Maintainers \ {m} : ~HasKey(x, t)
      BY <2>5 DEF Adrift, HasKey
    <3>4. ~HasKey(m, t)
      BY <2>1, <2>5, <2>6, <3>2 DEF Adrift, HasKey, Holding
    <3>5. QED
      BY <3>2, <3>3, <3>4 DEF Adrift
  <2>11. QED
    BY <1>0, <2>9, <2>10, DriftKept DEF DriftInv
<1>3. QED
  BY <1>1, <1>2

\* A tick that ends in an error without a fault had its batch voided.
LEMMA TickErrorDrift ==
  ASSUME PoolInv, DriftInv, NEW m \in Maintainers, TickError(m) PROVE DriftInv'
<1>1. /\ PoolTyped /\ NextPool(m) /\ UNCHANGED <<inflight, onChain, rows>>
  BY DEF PoolInv, TickError, TickFailed
<1>2. CASE faults' = faults + 1
  BY <1>1, <1>2, NextPoolDrops, DriftDrops
<1>3. CASE faults' # faults + 1
  <2>1. /\ maint[m].pc = "watch" /\ finalized[m] = None /\ faults' = faults
        /\ \A b \in inflight : b.by # m \/ b.keys # maint[m].keys
    BY <1>3 DEF TickError, Failed, Answered
  <2>2. \A n \in DOMAIN maint[m].keys :
          /\ \A b \in inflight : \A k \in DOMAIN b.keys : b.keys[k] # maint[m].keys[n]
          /\ \A e \in onChain : e[1] # maint[m].keys[n]
    BY <2>1 DEF DriftInv, Knows, Holding
  <2>3. \A t \in Tickets : HasKey(m, t) => ~Afloat(t)
    BY <2>2 DEF HasKey, Afloat
  <2>4. QED
    BY <1>1, <2>1, <2>3, NextPoolDrops, DriftDrops
<1>4. QED
  BY <1>2, <1>3

\* An instance that dies takes its seeds along.
LEMMA MaintainerFaultDrift ==
  ASSUME PoolInv, DriftInv, NEW m \in Maintainers, MaintainerFault(m) PROVE DriftInv'
<1>1. PoolTyped /\ faults' = faults + 1 /\ UNCHANGED <<inflight, onChain, rows>>
  BY DEF PoolInv, MaintainerFault, Failed
<1>2. CASE UNCHANGED <<maint, finalized>>
  BY <1>1, <1>2, DriftRests
<1>3. CASE maint' = [maint EXCEPT ![m] = Asleep] /\ finalized' = [finalized EXCEPT ![m] = None]
  <2>1. /\ maint'[m].pc \notin Holding
        /\ \A x \in Maintainers \ {m} : maint'[x] = maint[x] /\ finalized'[x] = finalized[x]
    BY <1>1, <1>3 DEF PoolTyped, Asleep, Holding
  <2>2. QED
    BY <1>1, <2>1, DriftDrops
<1>4. QED
  BY <1>2, <1>3 DEF MaintainerFault

\* A batch that lands was in flight, and its maintainer, if it still watches, learns of it.
LEMMA ChainFinalizesDrift ==
  ASSUME PoolInv, DriftInv, ChainFinalizes PROVE DriftInv'
<1>0. /\ PoolTyped /\ faults' = faults /\ UNCHANGED <<maint, rows>> /\ inflight' = {}
      /\ \A x \in Maintainers : Stock(x) /\ Knows(x)
  BY DEF PoolInv, DriftInv, ChainFinalizes, servingVars
<1>1. PICK b, A :
        /\ b \in inflight /\ A = {n \in DOMAIN b.keys : n <= quotaLeft[b.dim]}
        /\ onChain' = onChain \cup {<<b.keys[n], b.dim>> : n \in A}
        /\ finalized' = IF maint[b.by].pc = "watch" /\ maint[b.by].keys = b.keys
                        THEN [finalized EXCEPT ![b.by] = [n \in DOMAIN b.keys |-> n \in A]]
                        ELSE finalized
  BY DEF ChainFinalizes
<1>2. /\ A \subseteq DOMAIN b.keys
      /\ \A e \in onChain' : e \in onChain \/ \E n \in A : e[1] = b.keys[n]
  BY <1>1
<1>3. PICK items : items = [n \in DOMAIN b.keys |-> n \in A]
  OBVIOUS
<1>4. \A x \in Maintainers :
        \/ finalized'[x] = finalized[x] /\ ~(x = b.by /\ maint[x].pc = "watch" /\ maint[x].keys = b.keys)
        \/ /\ x = b.by /\ maint[x].pc = "watch" /\ maint[x].keys = b.keys
           /\ finalized'[x] = items
  BY <1>0, <1>1, <1>3 DEF PoolTyped
<1>5. ASSUME NEW x \in Maintainers PROVE Knows(x)'
  <2>1. SUFFICES ASSUME maint[x].pc \in Holding, NEW n \in DOMAIN maint[x].keys,
                        NEW e \in onChain', e[1] = maint[x].keys[n]
                 PROVE  \/ maint[x].pc = "insert"
                        \/ /\ maint[x].pc = "watch" /\ finalized'[x] # None
                           /\ ItemAccepted(finalized'[x], n)
    BY <1>0 DEF Knows, ItemAccepted
  <2>2. CASE \E k \in A : e[1] = b.keys[k]
    <3>1. PICK k \in A : e[1] = b.keys[k]
      BY <2>2
    <3>2. b.by = x /\ b.keys = maint[x].keys /\ maint[x].pc = "watch"
      <4>1. Knows(x) /\ b \in inflight /\ k \in DOMAIN b.keys /\ b.keys[k] = maint[x].keys[n]
        BY <1>0, <1>1, <1>2, <2>1, <3>1
      <4>2. QED
        BY <2>1, <4>1 DEF Knows
    <3>3. k = n
      <4>1. Stock(x) /\ k \in DOMAIN maint[x].keys /\ maint[x].keys[k] = maint[x].keys[n]
        BY <1>0, <1>2, <2>1, <3>1, <3>2
      <4>2. QED
        BY <2>1, <4>1 DEF Stock
    <3>4. finalized'[x] = items
      BY <1>4, <3>2
    <3>5. items # None
      <4>1. PICK s \in 1..BatchMax : DOMAIN b.keys = 1..s
        BY <1>0, <3>2 DEF Stock
      <4>2. items \in [1..s -> BOOLEAN]
        BY <1>3, <4>1
      <4>3. QED
        BY <4>2, PoolConstants
    <3>6. ItemAccepted(items, n)
      BY <1>2, <1>3, <3>1, <3>3 DEF ItemAccepted
    <3>7. QED
      BY <3>2, <3>4, <3>5, <3>6
  <2>3. CASE e \in onChain
    <3>1. \/ maint[x].pc = "insert"
          \/ maint[x].pc = "watch" /\ finalized[x] # None /\ ItemAccepted(finalized[x], n)
      BY <1>0, <2>1, <2>3 DEF Knows
    <3>2. CASE finalized'[x] = finalized[x]
      BY <3>1, <3>2
    <3>3. CASE x = b.by /\ maint[x].pc = "watch" /\ maint[x].keys = b.keys
      <4>1. finalized[x] = None
        BY <1>0, <1>1, <2>1, <3>3 DEF Knows
      <4>2. QED
        BY <3>1, <3>3, <4>1
    <3>4. QED
      BY <1>4, <3>2, <3>3
  <2>4. QED
    BY <1>2, <2>2, <2>3
<1>6. Adrift' \subseteq Adrift
  <2>1. SUFFICES ASSUME NEW t \in Adrift' PROVE t \in Adrift
    OBVIOUS
  <2>2. t \in Tickets /\ rows[t] = None /\ \A x \in Maintainers : ~HasKey(x, t)
    BY <1>0 DEF Adrift, HasKey
  <2>3. \E e \in onChain' : e[1] = t
    BY <1>0 DEF Adrift, Afloat
  <2>4. Afloat(t)
    BY <1>1, <1>2, <2>3 DEF Afloat
  <2>5. QED
    BY <2>2, <2>4 DEF Adrift
<1>7. QED
  BY <1>0, <1>5, <1>6, DriftKept DEF DriftInv

\* The claims leave the maintainers alone and take no row away.
LEMMA ClaimsDrift ==
  ASSUME InviteInv, DriftInv, NEW c \in Conns,
         \/ ClaimArrives(c) \/ PreCheck(c) \/ SelectOldest(c) \/ CommitClaim(c)
         \/ AnswerClaim(c) \/ ClaimDropped(c)
  PROVE  DriftInv'
<1>1. PoolTyped /\ UNCHANGED <<maint, inflight, finalized, onChain>>
  BY Zenon DEF InviteInv, PoolInv, ClaimArrives, PreCheck, SelectOldest, CommitClaim, AnswerClaim,
         ClaimDropped, inviteVars
<1>2. faults' \in {faults, faults + 1}
  <2>1. Answered \/ Failed \/ \E in : Arrive(c, in)
    BY Zenon DEF ClaimArrives, PreCheck, SelectOldest, CommitClaim, AnswerClaim, ClaimDropped, Drop
  <2>2. faults \in Nat
    BY <1>1 DEF PoolTyped
  <2>3. QED
    BY <2>1, <2>2 DEF Answered, Failed, Arrive
<1>3. ASSUME NEW t \in Tickets, rows[t] # None PROVE rows'[t] # None
  <2>1. UNCHANGED rows \/ Claimed(loc[c].key)
    BY Zenon DEF ClaimArrives, PreCheck, SelectOldest, CommitClaim, AnswerClaim, ClaimDropped,
           inviteVars
  <2>2. CASE UNCHANGED rows
    BY <1>3, <2>2
  <2>3. CASE Claimed(loc[c].key)
    <3>1. rows'[t] = rows[t] \/ rows'[t] = [rows[t] EXCEPT !.state = "claimed"]
      BY <1>1, <2>3 DEF Claimed, PoolTyped
    <3>2. rows[t] \in TicketRow
      BY <1>1, <1>3 DEF PoolTyped
    <3>3. rows'[t] \in TicketRow
      BY <3>1, <3>2 DEF TicketRow
    <3>4. QED
      BY <3>3, PoolConstants
  <2>4. QED
    BY <2>1, <2>2, <2>3
<1>4. QED
  BY <1>1, <1>2, <1>3, DriftRests

\* A fault costs at most one batch of keys.
LEMMA DriftHolds == Spec => [](role = "invite" => DriftInv)
<1> DEFINE Inv == role = "invite" => InviteInv
<1> DEFINE Drift == role = "invite" => DriftInv
<1>1. Init => Drift
  <2> SUFFICES ASSUME ServingInit, InviteInit PROVE DriftInv
    BY DEF Init
  <2>1. /\ \A m \in Maintainers : maint[m].pc = "sleep"
        /\ inflight = {} /\ onChain = {} /\ faults = 0
    BY DEF InviteInit, ServingInit, Asleep
  <2>2. \A m \in Maintainers : Knows(m)
    BY <2>1 DEF Knows
  <2>3. Adrift = {}
    BY <2>1 DEF Adrift, Afloat
  <2>4. Cardinality(Adrift) = 0 /\ BatchMax * faults = 0
    BY <2>1, <2>3, FS_EmptySet, PoolConstants
  <2>5. QED
    BY <2>2, <2>4 DEF DriftInv
<1>2. Inv /\ Drift /\ [Next]_vars => Drift'
  <2> SUFFICES ASSUME InviteInv, DriftInv, [Next]_vars, role = "invite" PROVE DriftInv'
    BY RoleKept
  <2>0. PoolInv /\ PoolTyped
    BY DEF InviteInv, PoolInv
  <2>1. CASE InviteNext
    <3>1. CASE InviteTick
      <4>1. UNCHANGED <<maint, inflight, finalized, onChain, rows, faults>>
        BY <3>1 DEF InviteTick, Tick, inviteVars
      <4>2. QED
        BY <2>0, <4>1, DriftRests
    <3>2. QED
      BY <2>0, <2>1, <3>1, AcquireTickLockDrift, CountAndPlanDrift, SubmitBatchDrift,
         BatchFinalizedDrift, InsertAvailableDrift, TickErrorDrift, MaintainerFaultDrift,
         ChainFinalizesDrift, ClaimsDrift
         DEF InviteNext
  <2>2. CASE UNCHANGED <<servingVars, inviteVars>>
    <3>1. UNCHANGED <<maint, inflight, finalized, onChain, rows, faults>>
      BY <2>2 DEF servingVars, inviteVars
    <3>2. QED
      BY <2>0, <3>1, DriftRests
  <2>3. InviteNext \/ UNCHANGED <<servingVars, inviteVars>>
    BY DEF Next, vars, Quiet
  <2>4. QED
    BY <2>1, <2>2, <2>3
<1>3. QED
  BY <1>1, <1>2, InviteHolds, PTL DEF Spec

\* Every ticket of the pools is accounted for, whatever fails: a row's key is on chain, no key
\* is handed out twice, a claimed key that nobody has cost a fault, a fault costs at most one
\* batch of registered keys, also of a batch that lands after its maintainer is gone, and
\* without a fault no pool exceeds its target (pool.rs, claim.rs).
THEOREM TicketsAreAccounted == Spec => []TicketsAccounted
<1>1. (role = "invite" => InviteInv) /\ (role = "invite" => DriftInv) => TicketsAccounted
  <2> SUFFICES ASSUME InviteInv, DriftInv PROVE TicketsAccounted
    BY DEF TicketsAccounted
  <2>0. PoolTyped /\ Generated /\ Calm /\ ClaimInv /\ ClaimTyped
    BY DEF InviteInv, PoolInv, ClaimInv
  <2>1. \A t \in Tickets : rows[t] # None => <<t, rows[t].dim>> \in onChain
    BY <2>0 DEF Generated
  <2>2. \A t \in Tickets : handed[t] > 0 => handed[t] = 1 /\ rows[t].state = "claimed"
    BY <2>0 DEF ClaimInv, ClaimTyped
  <2>3. Cardinality({t \in Tickets : /\ rows[t] # None /\ rows[t].state = "claimed"
                                     /\ handed[t] = 0 /\ t \notin InHandler}) <= faults
    BY <2>0 DEF ClaimInv, LostKeys
  <2>4. Cardinality(SeedsLost) <= BatchMax * faults
    <3>1. SeedsLost \subseteq Adrift
      <4>1. SUFFICES ASSUME NEW t \in SeedsLost PROVE t \in Adrift
        OBVIOUS
      <4>2. t \in Tickets /\ rows[t] = None /\ t \notin HeldKeys /\ Afloat(t)
        BY DEF SeedsLost, Afloat
      <4>3. ASSUME NEW m \in Maintainers, HasKey(m, t) PROVE FALSE
        <5>1. t \in Held(m) /\ maint[m].pc \in {"submit", "watch", "insert"}
          BY <4>3 DEF HasKey, Held, Holding
        <5>2. t \in HeldKeys
          BY <5>1, Zenon DEF HeldKeys
        <5>3. QED
          BY <4>2, <5>2
      <4>4. QED
        BY <4>2, <4>3 DEF Adrift
    <3>2. /\ Cardinality(SeedsLost) \in Nat /\ Cardinality(Adrift) \in Nat
          /\ Cardinality(SeedsLost) <= Cardinality(Adrift) /\ Cardinality(Adrift) <= BatchMax * faults
      BY <3>1, DriftFinite, FS_Subset, FS_CardinalityType DEF DriftInv
    <3>3. BatchMax * faults \in Nat
      BY <2>0, PoolConstants DEF PoolTyped
    <3>4. QED
      BY <3>2, <3>3
  <2>5. faults = 0 => \A d \in Dims : Cardinality(Available(d)) <= Target
    BY <2>0 DEF Calm
  <2>6. QED
    BY <2>1, <2>2, <2>3, <2>4, <2>5 DEF TicketsAccounted
<1>2. QED
  BY <1>1, InviteHolds, DriftHolds, PTL

--------------------------------------------------------------------------------
(* Types of the process, whichever role it runs.                           *)

\* Every step answers a call, fails one, takes a request or lets time pass, or leaves
\* the counters of the serving layer alone.
LEMMA StepKinds ==
  ASSUME [Next]_vars
  PROVE  \/ Answered \/ Failed \/ Tick \/ UNCHANGED <<now, faults, sent>>
         \/ \E c, in : Arrive(c, in)
<1> USE DEF servingVars, Drop
<1>1. CASE AuthNext
  BY <1>1, ZenonT(60) DEF AuthNext, AuthArrive, AuthStep, AuthDrop, Revoke, AuthTick, AuthFails,
              CreateChallenge, ConsumeChallenge, UpsertKey, FindKey, CommitCount, RevokedSerials,
              CrlFetched, CrlFetchFails, Exchange, Decode, GoogleFails, MintSession,
              SelectToken, RotateToken
<1>2. CASE InviteNext
  BY <1>2, ZenonT(60) DEF InviteNext, AcquireTickLock, CountAndPlan, SubmitBatch, BatchFinalized,
              InsertAvailable, TickError, MaintainerFault, ChainFinalizes, ClaimArrives,
              PreCheck, SelectOldest, CommitClaim, AnswerClaim, ClaimDropped, InviteTick
<1>3. CASE TurnNext
  BY <1>3, ZenonT(60) DEF TurnNext, RotateRoot, RefresherConnects, CheckGenesis, BeginRefresh, EndRefresh,
              TurnArrive, PermitWait, Verified, CloudflareIssues, CloudflareRejects,
              CloudflareFails, TurnDropped, OrphanEnds, TurnTick
<1>4. CASE PushNext
  BY <1>4, ZenonT(60) DEF PushNext, NotifyArrives, ApnsAnswers, FcmExchanged, FcmAnswers, ProviderFails,
              NotifyDropped, PushTick
<1>5. CASE SearchNext
  BY <1>5, ZenonT(60) DEF SearchNext, SearchArrive, Consume, SearchPage, SearchDropped, PruneExpired,
              ProjectionChanges, SearchTick
<1>6. CASE Quiet \/ UNCHANGED vars
  BY <1>6 DEF Quiet, vars
<1>7. QED
  BY <1>1, <1>2, <1>3, <1>4, <1>5, <1>6, Zenon DEF Next

\* The clock, the faults and the requests stay in their bounds.
Bounded == now \in 0..MaxClock /\ faults \in 0..MaxFaults /\ sent \in 0..MaxSent

\* No step passes a bound.
LEMMA BoundsKept ==
  ASSUME Bounded, [Next]_vars
  PROVE  Bounded'
<1>1. {MaxSent, MaxFaults, MaxClock} \subseteq Nat
  BY ServingAssumption DEF ServingAssumption
<1>2. CASE \E c, in : Arrive(c, in)
  <2>1. PICK in : /\ sent < MaxSent /\ sent' = sent + 1 /\ now' = now
                  /\ faults + (IF in.flawed THEN 1 ELSE 0) <= MaxFaults
                  /\ faults' = faults + (IF in.flawed THEN 1 ELSE 0)
    BY <1>2 DEF Arrive
  <2>2. QED
    BY <1>1, <2>1 DEF Bounded
<1>3. CASE Answered \/ Failed \/ Tick \/ UNCHANGED <<now, faults, sent>>
  BY <1>1, <1>3 DEF Bounded, Answered, Failed, Tick
<1>4. QED
  BY <1>2, <1>3, StepKinds

\* What may happen to the rate limits in a step.
LimitMoves == \/ NoCharge \/ Tick
              \/ \E k : Charge(k, Payment(k))
              \/ \E k, paid : Refund(k, paid)

\* Every step is one of these.
LEMMA LimitsMove == ASSUME [Next]_vars PROVE LimitMoves
<1> USE DEF servingVars, Drop, NoCharge
<1>1. CASE AuthNext
  BY <1>1, ZenonT(60) DEF AuthNext, AuthArrive, AuthStep, AuthDrop, Revoke, AuthTick, AuthFails,
              CreateChallenge, ConsumeChallenge, UpsertKey, FindKey, CommitCount, RevokedSerials,
              CrlFetched, CrlFetchFails, Exchange, Decode, GoogleFails, MintSession,
              SelectToken, RotateToken, LimitMoves
<1>2. CASE InviteNext
  BY <1>2, ZenonT(60) DEF InviteNext, AcquireTickLock, CountAndPlan, SubmitBatch, BatchFinalized,
              InsertAvailable, TickError, MaintainerFault, ChainFinalizes, ClaimArrives,
              PreCheck, SelectOldest, CommitClaim, AnswerClaim, ClaimDropped, InviteTick, LimitMoves
<1>3. CASE TurnNext
  BY <1>3, ZenonT(60) DEF TurnNext, RotateRoot, RefresherConnects, CheckGenesis, BeginRefresh, EndRefresh,
              TurnArrive, IssueArrives, ProofArrives, PermitWait, Verified, CloudflareIssues,
              CloudflareRejects, CloudflareFails, TurnDropped, OrphanEnds, TurnTick, LimitMoves
<1>4. CASE PushNext
  BY <1>4, ZenonT(60) DEF PushNext, NotifyArrives, ApnsAnswers, FcmExchanged, FcmAnswers, ProviderFails,
              NotifyDropped, PushTick, LimitMoves
<1>5. CASE SearchNext
  BY <1>5, ZenonT(60) DEF SearchNext, SearchArrive, IssuePuzzle, SearchArrives, Consume, SearchPage,
              SearchDropped, PruneExpired, ProjectionChanges, SearchTick, LimitMoves
<1>6. CASE Quiet \/ UNCHANGED vars
  BY <1>6 DEF Quiet, vars, LimitMoves
<1>7. QED
  BY <1>1, <1>2, <1>3, <1>4, <1>5, <1>6, Zenon DEF Next

\* No rate limit goes below zero or above its burst.
Limited == quota \in [Keys -> 0..MaxBurst] /\ credits \in [Keys -> 0..MaxBurst]

\* A limit that is charged had a cell, and one that is refunded had room.
LEMMA LimitsKept ==
  ASSUME Limited, [Next]_vars
  PROVE  Limited'
<1>1. MaxBurst \in Nat \ {0}
  BY ServingAssumption DEF ServingAssumption
<1>2. CASE \E k : Charge(k, Payment(k))
  <2>1. PICK k : Charge(k, Payment(k))
    BY <1>2
  <2>2. CASE k \in Keys
    BY <2>1, <2>2, ChargeTakes DEF Limited
  <2>3. CASE k \notin Keys
    BY <2>1, <2>3 DEF Limited, Charge
  <2>4. QED
    BY <2>2, <2>3
<1>3. CASE \E k, paid : Refund(k, paid)
  <2>1. PICK k, paid : Refund(k, paid)
    BY <1>3
  <2>2. CASE k \in Keys
    BY <2>1, <2>2, RefundBanks DEF Limited
  <2>3. CASE k \notin Keys
    BY <2>1, <2>3 DEF Limited, Refund
  <2>4. QED
    BY <2>2, <2>3
<1>4. CASE Tick
  BY <1>1, <1>4 DEF Limited, Tick
<1>5. CASE NoCharge
  BY <1>5 DEF Limited, NoCharge
<1>6. QED
  BY <1>2, <1>3, <1>4, <1>5, LimitsMove DEF LimitMoves

--------------------------------------------------------------------------------
\* A handler that waits holds its request, an idle connection none.
Asked ==
  /\ DOMAIN pc = Conns /\ DOMAIN req = Conns
  /\ \A c \in Conns : IF pc[c] = "idle" THEN req[c] = None ELSE req[c].flawed \in BOOLEAN

\* Handler c ends, or waits with its request somewhere not in N.
Proceeds(c, N) ==
  \/ \E what : Finish(c, what)
  \/ pc[c] # "idle" /\ \E where, carried : where \notin N /\ Goto(c, where, carried)

\* A request is answered at once, or its handler waits somewhere not in N.
Accepts(c, N) ==
  \/ \E what : Finish(c, what)
  \/ \E in, where, carried : in.flawed \in BOOLEAN /\ where \notin N /\ Suspend(c, in, where, carried)

\* What may happen to the handlers in a step.
HandlerMoves(N) == \/ UNCHANGED <<pc, req>>
                   \/ \E c \in Conns : Proceeds(c, N) \/ Accepts(c, N)

\* A handler takes its request with it from wait to wait.
LEMMA AskedKept ==
  ASSUME Asked, HandlerMoves({"idle"})
  PROVE  Asked'
<1>1. CASE UNCHANGED <<pc, req>>
  BY <1>1 DEF Asked
<1>2. ASSUME NEW c \in Conns, NEW what, Finish(c, what) PROVE Asked'
  BY <1>2 DEF Asked, Finish
<1>3. ASSUME NEW c \in Conns, NEW in, NEW where, NEW carried, in.flawed \in BOOLEAN,
             where # "idle", Suspend(c, in, where, carried)
      PROVE  Asked'
  BY <1>3 DEF Asked, Suspend
<1>4. ASSUME NEW c \in Conns, NEW where, NEW carried, pc[c] # "idle",
             where # "idle", Goto(c, where, carried)
      PROVE  Asked'
  <2>1. req[c].flawed \in BOOLEAN /\ Suspend(c, req[c], where, carried)
    BY <1>4 DEF Asked, Goto
  <2>2. PICK in : in = req[c]
    OBVIOUS
  <2>3. QED
    BY <1>3, <1>4, <2>1, <2>2
<1>5. QED
  BY <1>1, <1>2, <1>3, <1>4 DEF HandlerMoves, Proceeds, Accepts

--------------------------------------------------------------------------------
\* The handshake: only the wait for the revocation list is a fetch.
LEMMA JudgeProceeds ==
  ASSUME NEW c \in Conns, NEW ok, NEW store, pc[c] # "idle", Judge(c, ok, store)
  PROVE  Proceeds(c, {"idle", "fetch"})
BY DEF Judge, Proceeds

\* The first step of a verdict fetches nothing.
LEMMA VerdictProceeds ==
  ASSUME NEW c \in Conns, NEW e \in AllEvidence, pc[c] # "idle", StartVerdict(c, e)
  PROVE  Proceeds(c, {"idle", "fetch"})
<1>1. e.type \in {"ios", "key", "play", "other"}
  BY EvidenceAssumption DEF EvidenceAssumption
<1>2. ASSUME NEW where \in {"find", "crl", "decode", "exchange"}, NEW carried,
             Goto(c, where, carried)
      PROVE  Proceeds(c, {"idle", "fetch"})
  BY <1>2 DEF Proceeds
<1>3. ASSUME NEW ok, NEW store, Judge(c, ok, store) PROVE Proceeds(c, {"idle", "fetch"})
  BY <1>3, JudgeProceeds
<1>4. CASE e.type = "ios"
  <2>1. Judge(c, FALSE, FALSE) \/ Goto(c, "find", None)
    BY <1>4 DEF StartVerdict
  <2>2. QED
    BY <1>2, <1>3, <2>1
<1>5. CASE e.type = "key"
  <2>1. Judge(c, FALSE, FALSE) \/ Goto(c, "crl", None)
    BY <1>5 DEF StartVerdict
  <2>2. QED
    BY <1>2, <1>3, <2>1
<1>6. CASE e.type = "play"
  <2>1. \/ Judge(c, FALSE, FALSE) \/ Goto(c, "decode", None) \/ Goto(c, "exchange", [at |-> now])
        \/ Judge(c, Sealed(e) /\ PayloadOk(e.payload, config.play), PlayDistributed(e.payload))
    BY <1>6, Zenon DEF StartVerdict
  <2>2. QED
    BY <1>2, <1>3, <2>1
<1>7. CASE e.type = "other"
  <2>1. Judge(c, FALSE, FALSE)
    BY <1>7 DEF StartVerdict
  <2>2. QED
    BY <1>3, <2>1
<1>8. QED
  BY <1>1, <1>4, <1>5, <1>6, <1>7

\* A handler that waits anywhere but for the list leaves the lock alone; one that fetched
\* it lets go.
LEMMA AuthProceeds ==
  ASSUME AuthInv, NEW c \in Conns, AuthStep(c), ~RevokedSerials(c)
  PROVE  /\ Proceeds(c, {"idle", "fetch"})
         /\ \/ pc[c] # "fetch" /\ crlLock' = crlLock
            \/ pc[c] = "fetch" /\ crlLock' = None
<1>1. CASE ConsumeChallenge(c)
  <2>1. pc[c] = "consume" /\ crlLock' = crlLock
    BY <1>1 DEF ConsumeChallenge
  <2>2. /\ req[c].op \in {"token", "attest"}
        /\ req[c].op = "token" => req[c].evidence \in AllEvidence
    BY <2>1 DEF AuthInv, HandlerOk, Holds
  <2>3. CASE \E what : Finish(c, what)
    BY <2>1, <2>3 DEF Proceeds
  <2>4. CASE \E where \in {"mint", "upsert"} : \E carried : Goto(c, where, carried)
    BY <2>1, <2>4 DEF Proceeds
  <2>5. CASE req[c].op = "token" /\ StartVerdict(c, req[c].evidence)
    BY <2>1, <2>2, <2>5, VerdictProceeds
  <2>6. CASE req[c].op = "token"
    <3>1. \/ \E what : Finish(c, what)
          \/ Goto(c, "mint", [store |-> TRUE, at |-> now, epoch |-> 0])
          \/ StartVerdict(c, req[c].evidence)
      BY <1>1, <2>6, Zenon DEF ConsumeChallenge
    <3>2. QED
      BY <2>3, <2>4, <2>5, <2>6, <3>1
  <2>7. CASE req[c].op = "attest"
    <3>1. (\E what : Finish(c, what)) \/ Goto(c, "upsert", None)
      BY <1>1, <2>7, Zenon DEF ConsumeChallenge
    <3>2. QED
      BY <2>3, <2>4, <3>1
  <2>8. QED
    BY <2>2, <2>6, <2>7
<1>2. CASE \/ AuthFails(c) \/ CreateChallenge(c) \/ UpsertKey(c) \/ MintSession(c)
           \/ RotateToken(c)
  BY <1>2 DEF AuthFails, CreateChallenge, UpsertKey, MintSession, RotateToken, Proceeds, authVars
<1>3. CASE SelectToken(c) \/ Exchange(c)
  BY <1>3 DEF SelectToken, Exchange, Proceeds, authVars
<1>4. CASE FindKey(c) \/ CommitCount(c)
  <2>1. pc[c] \in {"find", "commit"} /\ crlLock' = crlLock
    BY <1>4 DEF FindKey, CommitCount, authVars
  <2>2. \/ \E where \in {"commit", "mint"} : \E carried : Goto(c, where, carried)
        \/ Judge(c, FALSE, FALSE)
    BY <1>4 DEF FindKey, CommitCount
  <2>3. QED
    BY <2>1, <2>2, JudgeProceeds DEF Proceeds
<1>5. CASE Decode(c) \/ GoogleFails(c)
  <2>1. pc[c] \in {"exchange", "decode"} /\ crlLock' = crlLock
    BY <1>5 DEF Decode, GoogleFails, authVars
  <2>2. \E ok, store : Judge(c, ok, store)
    BY <1>5, Zenon DEF Decode, GoogleFails
  <2>3. QED
    BY <2>1, <2>2, JudgeProceeds
<1>6. CASE CrlFetched(c) \/ CrlFetchFails(c)
  <2>1. pc[c] = "fetch" /\ crlLock' = None
    BY <1>6 DEF CrlFetched, CrlFetchFails
  <2>2. (\E what : Finish(c, what)) \/ \E ok, store : Judge(c, ok, store)
    BY <1>6, Zenon DEF CrlFetched, CrlFetchFails, JudgeChain
  <2>3. QED
    BY <2>1, <2>2, JudgeProceeds DEF Proceeds
<1>7. QED
  BY <1>1, <1>2, <1>3, <1>4, <1>5, <1>6 DEF AuthStep

\* The lock of the revocation list belongs to the one handler that fetches it.
CrlHeld == /\ crlLock \in Conns \cup {None}
           /\ \A c \in Conns : pc[c] = "fetch" <=> crlLock = c

\* No request starts with a fetch.
LEMMA AuthAccepts ==
  ASSUME NEW c \in Conns, AuthArrive(c)
  PROVE  Accepts(c, {"idle", "fetch"}) /\ pc[c] = "idle" /\ crlLock' = crlLock
<1>1. PICK in \in AuthRequests :
        /\ Arrive(c, in) /\ UNCHANGED authVars
        /\ CASE in.op = "challenge" -> Suspend(c, in, "create", None)
             [] in.op = "refresh" -> Suspend(c, in, "select", None)
             [] in.op = "token" -> IF in.headers THEN Suspend(c, in, "consume", None)
                                   ELSE Finish(c, "BadRequest")
             [] in.op = "attest" ->
                  IF config.mode = "off" THEN Finish(c, "accepted")
                  ELSE IF in.decodes THEN Suspend(c, in, "consume", None)
                  ELSE Finish(c, "BadRequest")
  BY DEF AuthArrive
<1>2. in.flawed \in BOOLEAN
  BY DEF AuthRequests
<1>3. \/ \E what : Finish(c, what)
      \/ \E where \in {"create", "select", "consume"} : Suspend(c, in, where, None)
  BY <1>1, RequestKinds
<1>4. QED
  BY <1>1, <1>2, <1>3 DEF Accepts, Arrive, authVars

\* The handlers of the handshake, and the lock.
LEMMA AuthHandlers ==
  ASSUME AuthInv, Asked, CrlHeld, AuthNext
  PROVE  HandlerMoves({"idle"}) /\ CrlHeld'
<1>0. None \notin Conns /\ pc \in [Conns -> AuthPcs]
  BY ServingAssumption DEF ServingAssumption, AuthInv, AuthTyped
<1>1. ASSUME NEW c \in Conns, Proceeds(c, {"idle", "fetch"}) \/ Accepts(c, {"idle", "fetch"}),
             \/ pc[c] # "fetch" /\ crlLock' = crlLock
             \/ pc[c] = "fetch" /\ crlLock' = None
      PROVE  HandlerMoves({"idle"}) /\ CrlHeld'
  <2>1. HandlerMoves({"idle"})
    BY <1>1 DEF HandlerMoves, Proceeds, Accepts
  <2>2. pc'[c] # "fetch" /\ \A d \in Conns \ {c} : pc'[d] = pc[d]
    BY <1>0, <1>1 DEF Proceeds, Accepts, Finish, Goto, Suspend
  <2>3. QED
    BY <1>0, <1>1, <2>1, <2>2 DEF CrlHeld
<1>2. ASSUME NEW c \in Conns, AuthArrive(c) PROVE HandlerMoves({"idle"}) /\ CrlHeld'
  BY <1>1, <1>2, AuthAccepts
<1>3. ASSUME NEW c \in Conns, AuthStep(c), ~RevokedSerials(c)
      PROVE  HandlerMoves({"idle"}) /\ CrlHeld'
  BY <1>1, <1>3, AuthProceeds
<1>4. ASSUME NEW c \in Conns, RevokedSerials(c) PROVE HandlerMoves({"idle"}) /\ CrlHeld'
  <2>1. pc[c] = "crl" /\ crlLock = None
    BY <1>4 DEF RevokedSerials
  <2>2. CASE Goto(c, "fetch", None) /\ crlLock' = c
    <3>1. HandlerMoves({"idle"})
      BY <2>1, <2>2 DEF HandlerMoves, Proceeds
    <3>2. pc'[c] = "fetch" /\ \A d \in Conns \ {c} : pc'[d] = pc[d]
      BY <1>0, <2>2 DEF Goto, Suspend
    <3>3. QED
      BY <1>0, <2>1, <2>2, <3>1, <3>2 DEF CrlHeld
  <2>3. CASE crlLock' = crlLock /\ \E ok, store : Judge(c, ok, store)
    BY <1>1, <2>1, <2>3, JudgeProceeds
  <2>4. QED
    BY <1>4, <2>2, <2>3, Zenon DEF RevokedSerials, JudgeChain
<1>5. ASSUME NEW c \in Conns, AuthDrop(c) PROVE HandlerMoves({"idle"}) /\ CrlHeld'
  <2>1. Proceeds(c, {"idle", "fetch"})
    BY <1>5 DEF AuthDrop, Drop, Proceeds
  <2>2. crlLock' = IF crlLock = c THEN None ELSE crlLock
    BY <1>5 DEF AuthDrop
  <2>3. \/ pc[c] # "fetch" /\ crlLock' = crlLock
        \/ pc[c] = "fetch" /\ crlLock' = None
    BY <2>2 DEF CrlHeld
  <2>4. QED
    BY <1>1, <2>1, <2>3
<1>6. CASE Revoke \/ AuthTick
  BY <1>6 DEF Revoke, AuthTick, Tick, servingVars, authVars, HandlerMoves, CrlHeld
<1>7. QED
  BY <1>2, <1>3, <1>4, <1>5, <1>6 DEF AuthNext

--------------------------------------------------------------------------------
\* Push relay: its handlers.
LEMMA PushHandlers == ASSUME PushNext PROVE HandlerMoves({"idle"})
<1>1. ASSUME NEW c \in Conns, NotifyArrives(c) PROVE Accepts(c, {"idle"})
  <2>1. PICK in \in PushRequests :
          (\E what : Tell(c, in.n, what)) \/ StartSend(c, in)
    BY <1>1, Zenon DEF NotifyArrives
  <2>2. in.flawed \in BOOLEAN
    BY DEF PushRequests
  <2>3. CASE StartSend(c, in)
    <3>1. \/ \E what : Finish(c, what)
          \/ \E where \in {"apns", "fcm", "token"} : \E carried : Suspend(c, in, where, carried)
      BY <2>3, StartSendArms, Zenon DEF Tell
    <3>2. QED
      BY <2>2, <3>1 DEF Accepts
  <2>4. QED
    BY <2>1, <2>3 DEF Accepts, Tell
<1>2. ASSUME NEW c \in Conns,
             ApnsAnswers(c) \/ FcmExchanged(c) \/ FcmAnswers(c) \/ ProviderFails(c) \/ NotifyDropped(c)
      PROVE  Proceeds(c, {"idle"})
  <2>1. pc[c] # "idle"
    BY <1>2 DEF ApnsAnswers, FcmExchanged, FcmAnswers, ProviderFails, NotifyDropped, Drop
  <2>2. \/ \E what : Finish(c, what)
        \/ \E where \in {"apns", "fcm"} : \E carried : Goto(c, where, carried)
    <3>1. CASE ApnsAnswers(c)
      BY <3>1, Zenon DEF ApnsAnswers, Tell
    <3>2. CASE FcmExchanged(c)
      BY <3>2, Zenon DEF FcmExchanged
    <3>3. CASE FcmAnswers(c) \/ ProviderFails(c) \/ NotifyDropped(c)
      BY <3>3, Zenon DEF FcmAnswers, ProviderFails, NotifyDropped, Drop, Tell
    <3>4. QED
      BY <1>2, <3>1, <3>2, <3>3
  <2>3. QED
    BY <2>1, <2>2 DEF Proceeds
<1>3. CASE PushTick
  BY <1>3 DEF PushTick, Tick, HandlerMoves
<1>4. QED
  BY <1>1, <1>2, <1>3 DEF PushNext, HandlerMoves

\* Search: its handlers, and the changes of the projection.
LEMMA SearchHandlers ==
  ASSUME SearchNext, changes \in 0..MaxChanges
  PROVE  HandlerMoves({"idle"}) /\ changes' \in 0..MaxChanges
<1>1. ASSUME NEW c \in Conns, SearchArrive(c) PROVE Accepts(c, {"idle"})
  <2>1. PICK in \in SearchRequests : IssuePuzzle(c, in) \/ SearchArrives(c, in)
    BY <1>1 DEF SearchArrive
  <2>2. in.flawed \in BOOLEAN
    BY DEF SearchRequests
  <2>3. \/ \E what : Finish(c, what)
        \/ \E where \in {"query", "consume"} : \E carried : Suspend(c, in, where, carried)
    BY <2>1, Zenon DEF IssuePuzzle, SearchArrives, AfterGate
  <2>4. QED
    BY <2>2, <2>3 DEF Accepts
<1>2. ASSUME NEW c \in Conns, Consume(c) \/ SearchPage(c) \/ SearchDropped(c)
      PROVE  Proceeds(c, {"idle"})
  <2>1. pc[c] # "idle"
    BY <1>2 DEF Consume, SearchPage, SearchDropped, Drop
  <2>2. (\E what : Finish(c, what)) \/ \E carried : Goto(c, "query", carried)
    BY <1>2, Zenon DEF Consume, SearchPage, SearchDropped, Drop, AfterGate, Goto
  <2>3. QED
    BY <2>1, <2>2 DEF Proceeds
<1>3. ASSUME PruneExpired \/ ProjectionChanges \/ SearchTick PROVE UNCHANGED <<pc, req>>
  BY <1>3 DEF PruneExpired, ProjectionChanges, SearchTick, Tick, servingVars
<1>4. changes' = changes \/ (changes < MaxChanges /\ changes' = changes + 1)
  BY Zenon DEF SearchNext, SearchArrive, Consume, SearchPage, SearchDropped, PruneExpired,
         ProjectionChanges, SearchTick, searchVars
<1>5. HandlerMoves({"idle"})
  BY <1>1, <1>2, <1>3 DEF SearchNext, HandlerMoves
<1>6. QED
  BY <1>4, <1>5, SearchAssumption DEF SearchAssumption

\* Invitation tickets: the handlers of the claim route.
LEMMA InviteHandlers == ASSUME InviteNext PROVE HandlerMoves({"idle"})
<1>1. ASSUME NEW c \in Conns, ClaimArrives(c) PROVE Accepts(c, {"idle"})
  <2>1. PICK in \in ClaimRequests :
          (\E what : Finish(c, what)) \/ \E carried : Suspend(c, in, "precheck", carried)
    BY <1>1, Zenon DEF ClaimArrives
  <2>2. in.flawed \in BOOLEAN
    BY DEF ClaimRequests
  <2>3. QED
    BY <2>1, <2>2 DEF Accepts
<1>2. ASSUME NEW c \in Conns,
             PreCheck(c) \/ SelectOldest(c) \/ CommitClaim(c) \/ AnswerClaim(c) \/ ClaimDropped(c)
      PROVE  Proceeds(c, {"idle"})
  <2>1. pc[c] # "idle"
    BY <1>2 DEF PreCheck, SelectOldest, CommitClaim, AnswerClaim, ClaimDropped, Drop
  <2>2. \/ \E what : Finish(c, what)
        \/ \E where \in {"precheck", "select", "update", "sign"} :
             \E carried : Goto(c, where, carried)
    BY <1>2, ZenonT(30) DEF PreCheck, SelectOldest, CommitClaim, AnswerClaim, ClaimDropped, Drop, RetryDb
  <2>3. QED
    BY <2>1, <2>2 DEF Proceeds
<1>3. CASE \/ InviteTick \/ ChainFinalizes
           \/ \E m \in Maintainers :
                \/ AcquireTickLock(m) \/ CountAndPlan(m) \/ SubmitBatch(m) \/ BatchFinalized(m)
                \/ InsertAvailable(m) \/ TickError(m) \/ MaintainerFault(m)
  <2>1. UNCHANGED <<pc, req>>
    BY <1>3, ZenonT(30) DEF AcquireTickLock, CountAndPlan, SubmitBatch, BatchFinalized, InsertAvailable,
           TickError, MaintainerFault, ChainFinalizes, InviteTick, Tick, servingVars
  <2>2. QED
    BY <2>1 DEF HandlerMoves
<1>4. QED
  BY <1>1, <1>2, <1>3 DEF InviteNext, HandlerMoves

\* The pools' lock belongs to a maintainer, and the chain grants no more invites than the
\* inviter has.
PoolLimits ==
  /\ tickLock \in Maintainers \cup {None}
  /\ DOMAIN quotaLeft = Dims /\ \A d \in Dims : quotaLeft[d] \in 0..Invites[d]

\* The lock changes hands between maintainers, and a batch takes what is left of the quota.
LEMMA PoolLimitsKept ==
  ASSUME PoolTyped, PoolLimits, InviteNext
  PROVE  PoolLimits'
<1>1. tickLock' \in Maintainers \cup {None}
  <2>1. tickLock' = tickLock \/ tickLock' = None \/ \E m \in Maintainers : tickLock' = m
    BY ZenonT(30) DEF InviteNext, AcquireTickLock, CountAndPlan, NextPool, SubmitBatch, BatchFinalized,
           InsertAvailable, TickError, TickFailed, MaintainerFault, ChainFinalizes, ClaimArrives,
           PreCheck, SelectOldest, CommitClaim, AnswerClaim, ClaimDropped, InviteTick, inviteVars
  <2>2. QED
    BY <2>1 DEF PoolLimits
<1>2. CASE ChainFinalizes
  <2>1. PICK b \in inflight :
          quotaLeft' = [quotaLeft EXCEPT
            ![b.dim] = @ - Cardinality({n \in DOMAIN b.keys : n <= quotaLeft[b.dim]})]
    BY <1>2 DEF ChainFinalizes
  <2>2. b.dim \in Dims /\ b.keys \in KeyMaps
    BY DEF PoolTyped
  <2>3. PICK d \in Dims : d = b.dim
    BY <2>2
  <2>4. PICK f \in KeyMaps : f = b.keys
    BY <2>2
  <2>5. DOMAIN f \in SUBSET (1..BatchMax)
    BY KeyMapIs
  <2>6. PICK q \in Nat : q = quotaLeft[d]
    BY InviteAssumption DEF PoolLimits, InviteAssumption, Dims
  <2>7. PICK A : A = {n \in DOMAIN f : n <= q}
    OBVIOUS
  <2>8. A \subseteq 1..q
    BY <2>5, <2>7
  <2>9. IsFiniteSet(1..q) /\ Cardinality(1..q) = q
    BY FS_Interval
  <2>10. Cardinality(A) \in 0..q
    <3>1. Cardinality(A) <= Cardinality(1..q) /\ Cardinality(A) \in Nat
      BY <2>8, <2>9, FS_Subset, FS_CardinalityType
    <3>2. QED
      BY <2>9, <3>1
  <2>11. quotaLeft' = [quotaLeft EXCEPT ![d] = q - Cardinality(A)]
    BY <2>1, <2>3, <2>4, <2>6, <2>7
  <2>12. q - Cardinality(A) \in 0..Invites[d]
    <3>1. Invites[d] \in Nat /\ q <= Invites[d]
      BY <2>6, InviteAssumption DEF PoolLimits, InviteAssumption, Dims
    <3>2. QED
      BY <2>10, <3>1
  <2>13. QED
    BY <1>1, <2>11, <2>12 DEF PoolLimits
<1>3. CASE UNCHANGED quotaLeft
  BY <1>1, <1>3 DEF PoolLimits
<1>4. ChainFinalizes \/ UNCHANGED quotaLeft
  BY ZenonT(30) DEF InviteNext, AcquireTickLock, CountAndPlan, SubmitBatch, BatchFinalized,
         InsertAvailable, TickError, MaintainerFault, ClaimArrives,
         PreCheck, SelectOldest, CommitClaim, AnswerClaim, ClaimDropped, InviteTick, inviteVars
<1>5. QED
  BY <1>2, <1>3, <1>4

--------------------------------------------------------------------------------
\* TURN: handlers and the two limits on them.
At(p) == {c \in Conns : pc[c] = p}
Moved(c, where) == pc' = [pc EXCEPT ![c] = where]

\* One handler at most enters a place, and one that leaves it makes room.
LEMMA PlaceMoves ==
  ASSUME DOMAIN pc = Conns, NEW c \in Conns, NEW where, Moved(c, where), NEW p
  PROVE  /\ Cardinality(At(p)) \in Nat /\ Cardinality(At(p)') \in Nat
         /\ Cardinality(At(p)') <= Cardinality(At(p)) + 1
         /\ where # p => Cardinality(At(p)') <= Cardinality(At(p))
         /\ where # p /\ pc[c] = p => Cardinality(At(p)') <= Cardinality(At(p)) - 1
<1>1. IsFiniteSet(At(p))
  BY ServingAssumption, FS_Subset DEF ServingAssumption, At
<1>2. /\ At(p)' \subseteq At(p) \cup {c}
      /\ where # p => At(p)' \subseteq At(p) \ {c}
      /\ pc[c] = p => c \in At(p)
  BY DEF At, Moved
<1>3. /\ Cardinality(At(p)) \in Nat /\ Cardinality(At(p)') \in Nat
      /\ Cardinality(At(p)') <= Cardinality(At(p)) + 1
      /\ At(p)' \subseteq At(p) => Cardinality(At(p)') <= Cardinality(At(p))
  BY <1>1, <1>2, CountAdds
<1>4. where # p => At(p)' \subseteq At(p)
  BY <1>2
<1>5. ASSUME where # p, pc[c] = p PROVE Cardinality(At(p)') <= Cardinality(At(p)) - 1
  BY <1>1, <1>2, <1>5, CountDrops
<1>6. QED
  BY <1>3, <1>4, <1>5

\* No more proofs are verified, dropped handlers' included, or waiting, than allowed.
Slots == /\ orphans \in Nat
         /\ Cardinality(At("verify")) + orphans <= Concurrency
         /\ Cardinality(At("permit")) <= MaxWaiters

\* A handler that enters neither place, or enters one that has room.
LEMMA SlotsKept ==
  ASSUME DOMAIN pc = Conns, Slots, NEW c \in Conns, NEW where, Moved(c, where),
         \/ where \notin {"verify", "permit"} /\ orphans' = orphans
         \/ where \notin {"verify", "permit"} /\ pc[c] = "verify" /\ orphans' = orphans + 1
         \/ where = "verify" /\ Verifying < Concurrency /\ orphans' = orphans
         \/ where = "permit" /\ Waiting < MaxWaiters /\ orphans' = orphans
  PROVE  Slots'
<1>1. Concurrency \in Nat /\ MaxWaiters \in Nat
  BY TurnAssumption DEF TurnAssumption
<1>2. Verifying = Cardinality(At("verify")) + orphans /\ Waiting = Cardinality(At("permit"))
  BY DEF Verifying, Waiting, At
<1>3. PICK v, w, x, y : /\ v = Cardinality(At("verify")) /\ x = Cardinality(At("verify")')
                        /\ w = Cardinality(At("permit")) /\ y = Cardinality(At("permit")')
  OBVIOUS
<1>4. /\ v \in Nat /\ x \in Nat /\ x <= v + 1 /\ (where # "verify" => x <= v)
      /\ where # "verify" /\ pc[c] = "verify" => x <= v - 1
  BY <1>3, PlaceMoves
<1>5. w \in Nat /\ y \in Nat /\ y <= w + 1 /\ (where # "permit" => y <= w)
  BY <1>3, PlaceMoves
<1>6. orphans \in Nat /\ v + orphans <= Concurrency /\ w <= MaxWaiters
  BY <1>3 DEF Slots
<1>7. orphans' \in Nat /\ x + orphans' <= Concurrency /\ y <= MaxWaiters
  BY <1>1, <1>2, <1>3, <1>4, <1>5, <1>6
<1>8. QED
  BY <1>3, <1>7 DEF Slots

\* A handler that ends or asks Cloudflare.
LEMMA SlotsLeft ==
  ASSUME DOMAIN pc = Conns, Slots, NEW c \in Conns,
         Proceeds(c, {"idle", "verify", "permit"}) \/ Accepts(c, {"idle", "verify", "permit"}),
         \/ orphans' = orphans
         \/ pc[c] = "verify" /\ orphans' = orphans + 1
  PROVE  Slots' /\ HandlerMoves({"idle"})
<1>1. HandlerMoves({"idle"})
  BY DEF HandlerMoves, Proceeds, Accepts
<1>2. PICK where : where \notin {"verify", "permit"} /\ Moved(c, where)
  BY DEF Proceeds, Accepts, Finish, Goto, Suspend, Moved
<1>3. QED
  BY <1>1, <1>2, SlotsKept

\* Issuing answers at once or asks Cloudflare.
LEMMA IssueProceeds ==
  ASSUME NEW c \in Conns, NEW in, NEW key, NEW paid, StartIssue(c, in, key, paid)
  PROVE  (\E what : Finish(c, what)) \/ \E carried : Suspend(c, in, "fetch", carried)
BY Zenon DEF StartIssue, Give

\* A new proof is verified or waits only where there is room.
LEMMA TurnArrivals ==
  ASSUME DOMAIN pc = Conns, Slots, NEW c \in Conns, TurnArrive(c)
  PROVE  Slots' /\ HandlerMoves({"idle"})
<1>1. PICK in \in TurnRequests : IssueArrives(c, in) \/ ProofArrives(c, in)
  BY DEF TurnArrive
<1>2. in.flawed \in BOOLEAN
  BY DEF TurnRequests
<1>3. orphans' = orphans
  BY DEF TurnArrive
<1>4. CASE (\E what : Finish(c, what)) \/ \E carried : Suspend(c, in, "fetch", carried)
  <2>1. Accepts(c, {"idle", "verify", "permit"})
    BY <1>2, <1>4 DEF Accepts
  <2>2. QED
    BY <1>3, <2>1, SlotsLeft
<1>5. CASE IssueArrives(c, in)
  <2>1. (\E what : Finish(c, what)) \/ \E key, paid : StartIssue(c, in, key, paid)
    BY <1>5, Zenon DEF IssueArrives
  <2>2. QED
    BY <1>4, <2>1, IssueProceeds
<1>6. ASSUME NEW where \in {"verify", "permit"}, Suspend(c, in, where, None),
             where = "verify" => Verifying < Concurrency,
             where = "permit" => Waiting < MaxWaiters
      PROVE  Slots' /\ HandlerMoves({"idle"})
  <2>1. HandlerMoves({"idle"})
    BY <1>2, <1>6 DEF HandlerMoves, Accepts
  <2>2. Moved(c, where)
    BY <1>6 DEF Suspend, Moved
  <2>3. QED
    BY <1>3, <1>6, <2>1, <2>2, SlotsKept
<1>7. CASE ProofArrives(c, in)
  <2>1. \/ \E what : Finish(c, what)
        \/ Verifying < Concurrency /\ Suspend(c, in, "verify", None)
        \/ Waiting < MaxWaiters /\ Suspend(c, in, "permit", None)
    BY <1>7, Zenon DEF ProofArrives
  <2>2. QED
    BY <1>4, <1>6, <2>1
<1>8. QED
  BY <1>1, <1>5, <1>7

\* The handlers of the TURN routes, and their limits.
LEMMA TurnHandlers ==
  ASSUME DOMAIN pc = Conns, Slots, TurnNext
  PROVE  Slots' /\ HandlerMoves({"idle"})
<1>1. ASSUME NEW c \in Conns, PermitWait(c) PROVE Slots' /\ HandlerMoves({"idle"})
  <2>1. pc[c] = "permit" /\ orphans' = orphans
    BY <1>1 DEF PermitWait, turnVars
  <2>2. CASE \E what : Finish(c, what)
    BY <2>1, <2>2, SlotsLeft DEF Proceeds
  <2>3. CASE Verifying < Concurrency /\ Goto(c, "verify", None)
    <3>1. HandlerMoves({"idle"})
      BY <2>1, <2>3 DEF HandlerMoves, Proceeds
    <3>2. Moved(c, "verify")
      BY <2>3 DEF Goto, Suspend, Moved
    <3>3. QED
      BY <2>1, <2>3, <3>1, <3>2, SlotsKept
  <2>4. QED
    BY <1>1, <2>2, <2>3 DEF PermitWait
<1>2. ASSUME NEW c \in Conns, Verified(c) PROVE Slots' /\ HandlerMoves({"idle"})
  <2>1. pc[c] = "verify" /\ orphans' = orphans
    BY <1>2 DEF Verified
  <2>2. (\E what : Finish(c, what)) \/ \E key, paid : StartIssue(c, req[c], key, paid)
    BY <1>2, Zenon DEF Verified
  <2>3. (\E what : Finish(c, what)) \/ \E carried : Goto(c, "fetch", carried)
    BY <2>2, IssueProceeds DEF Goto
  <2>4. Proceeds(c, {"idle", "verify", "permit"})
    BY <2>1, <2>3 DEF Proceeds
  <2>5. QED
    BY <2>1, <2>4, SlotsLeft
<1>3. ASSUME NEW c \in Conns, CloudflareIssues(c) \/ CloudflareRejects(c) \/ CloudflareFails(c)
      PROVE  Slots' /\ HandlerMoves({"idle"})
  <2>1. orphans' = orphans
    BY <1>3 DEF CloudflareIssues, CloudflareRejects, CloudflareFails, turnVars
  <2>2. \E what : Finish(c, what)
    BY <1>3, Zenon DEF CloudflareIssues, CloudflareRejects, CloudflareFails, Give
  <2>3. QED
    BY <2>1, <2>2, SlotsLeft DEF Proceeds
<1>4. ASSUME NEW c \in Conns, TurnDropped(c) PROVE Slots' /\ HandlerMoves({"idle"})
  <2>1. \/ orphans' = orphans
        \/ pc[c] = "verify" /\ orphans' = orphans + 1
    BY <1>4 DEF TurnDropped
  <2>2. \E what : Finish(c, what)
    BY <1>4 DEF TurnDropped, Drop
  <2>3. QED
    BY <2>1, <2>2, SlotsLeft DEF Proceeds
<1>5. ASSUME UNCHANGED <<pc, req>>, orphans' \in Nat, orphans' <= orphans
      PROVE  Slots' /\ HandlerMoves({"idle"})
  <2>1. At("verify")' = At("verify") /\ At("permit")' = At("permit")
    BY <1>5 DEF At
  <2>2. Cardinality(At("verify")) \in Nat
    BY ServingAssumption, FS_Subset, FS_CardinalityType DEF ServingAssumption, At
  <2>3. Concurrency \in Nat
    BY TurnAssumption DEF TurnAssumption
  <2>4. QED
    BY <1>5, <2>1, <2>2, <2>3 DEF Slots, HandlerMoves
<1>6. CASE OrphanEnds
  <2>1. UNCHANGED <<pc, req>> /\ orphans > 0 /\ orphans' = orphans - 1
    BY <1>6 DEF OrphanEnds, servingVars
  <2>2. QED
    BY <1>5, <2>1 DEF Slots
<1>7. CASE \/ TurnTick
           \/ \E x \in Collections : \/ RotateRoot(x) \/ RefresherConnects(x) \/ CheckGenesis(x)
                                     \/ BeginRefresh(x) \/ EndRefresh(x)
  <2>1. UNCHANGED <<pc, req, orphans>>
    BY <1>7, Zenon DEF TurnTick, Tick, RotateRoot, RefresherConnects, CheckGenesis, BeginRefresh,
                EndRefresh, servingVars, turnVars
  <2>2. QED
    BY <1>5, <2>1 DEF Slots
<1>8. QED
  BY <1>1, <1>2, <1>3, <1>4, <1>6, <1>7, TurnArrivals DEF TurnNext

\* The breaker counts to its threshold, and no roots of another chain are read.
Guarded ==
  /\ breaker.fails \in 0..FailureThreshold
  /\ \A x \in Collections :
       cache[x] # None \/ refresher[x].pc \in {"tick", "read"} => turnConfig.genesis # "other"

\* A failure counts up to the threshold, and the genesis check comes before every read.
LEMMA GuardKept ==
  ASSUME TurnTyped, RootsTyped, Guarded, TurnNext
  PROVE  Guarded'
<1>1. /\ turnConfig.genesis \in {"ours", "other", "unknown"} /\ FailureThreshold \in Nat \ {0}
  BY TurnAssumption DEF TurnTyped, TurnAssumption
<1>2. ASSUME NEW c \in Conns, CloudflareIssues(c) \/ CloudflareFails(c) PROVE Guarded'
  <2>1. UNCHANGED <<turnConfig, cache, refresher>>
    BY <1>2 DEF CloudflareIssues, CloudflareFails
  <2>2. breaker'.fails = 0 \/ breaker'.fails = SmallerOf(breaker.fails + 1, FailureThreshold)
    BY <1>2 DEF CloudflareIssues, CloudflareFails
  <2>3. breaker'.fails \in 0..FailureThreshold
    BY <1>1, <2>2 DEF SmallerOf, Guarded
  <2>4. QED
    BY <2>1, <2>3 DEF Guarded
<1>3. CASE UNCHANGED <<turnConfig, breaker, cache, refresher>>
  BY <1>3 DEF Guarded
<1>4. ASSUME NEW x \in Collections,
             RefresherConnects(x) \/ CheckGenesis(x) \/ BeginRefresh(x) \/ EndRefresh(x)
      PROVE  Guarded'
  <2>1. UNCHANGED <<turnConfig, breaker>>
    BY <1>4 DEF RefresherConnects, CheckGenesis, BeginRefresh, EndRefresh
  <2>2. \A z \in Collections \ {x} : refresher'[z] = refresher[z] /\ cache'[z] = cache[z]
    BY <1>4 DEF RefresherConnects, CheckGenesis, BeginRefresh, EndRefresh, RootsTyped
  <2>3. refresher[x] \in [pc : {"off", "connect", "genesis", "tick", "read", "panicked"},
                          roots : SUBSET Nat, began : Nat] /\ DOMAIN cache = Collections
        /\ DOMAIN refresher = Collections
    BY DEF RootsTyped
  <2>4. cache'[x] # None \/ refresher'[x].pc \in {"tick", "read"} => turnConfig.genesis # "other"
    <3>1. CASE RefresherConnects(x)
      BY <2>3, <3>1 DEF RefresherConnects, Guarded
    <3>2. CASE CheckGenesis(x)
      BY <1>1, <2>3, <3>2 DEF CheckGenesis, Guarded
    <3>3. CASE BeginRefresh(x) \/ EndRefresh(x)
      BY <3>3 DEF BeginRefresh, EndRefresh, Guarded
    <3>4. QED
      BY <1>4, <3>1, <3>2, <3>3
  <2>5. QED
    BY <2>1, <2>2, <2>4 DEF Guarded
<1>5. ASSUME \/ TurnTick \/ OrphanEnds \/ \E x \in Collections : RotateRoot(x)
             \/ \E c \in Conns : TurnArrive(c) \/ PermitWait(c) \/ Verified(c)
                                 \/ CloudflareRejects(c) \/ TurnDropped(c)
      PROVE  UNCHANGED <<turnConfig, breaker, cache, refresher>>
  BY <1>5, Zenon DEF TurnTick, OrphanEnds, RotateRoot, TurnArrive, PermitWait, Verified, CloudflareRejects,
         TurnDropped, turnVars
<1>6. QED
  BY <1>2, <1>3, <1>4, <1>5 DEF TurnNext

--------------------------------------------------------------------------------
\* What the types rest on beside each role's own invariant.
RoleTyped ==
  /\ role = "auth" => CrlHeld
  /\ role = "invite" => PoolLimits
  /\ role = "turn" => Slots /\ Guarded
  /\ role = "search" => changes \in 0..MaxChanges
Typed == Bounded /\ Limited /\ Asked /\ RoleTyped
RolesHold ==
  /\ role = "auth" => AuthInv
  /\ role = "invite" => InviteInv
  /\ role = "turn" => TurnInv
  /\ role = "push" => PushInv
  /\ role = "search" => SearchInv

\* A process starts with its counters at zero, every connection idle and no lock held.
LEMMA TypesStart == Init => Typed
<1> SUFFICES ASSUME Init PROVE Typed
  OBVIOUS
<1>1. ServingInit /\ {MaxSent, MaxFaults, MaxClock, MaxBurst} \subseteq Nat /\ None \notin Conns
  BY ServingAssumption DEF Init, ServingAssumption
<1>2. Bounded /\ Limited /\ Asked
  BY <1>1 DEF ServingInit, Bounded, Limited, Asked
<1>3. ASSUME role = "auth" PROVE CrlHeld
  BY <1>1, <1>3 DEF Init, AuthInit, ServingInit, CrlHeld
<1>4. ASSUME role = "invite" PROVE PoolLimits
  <2>1. tickLock = None /\ quotaLeft = Invites
    BY <1>4 DEF Init, InviteInit
  <2>2. QED
    BY <2>1, InviteAssumption DEF PoolLimits, InviteAssumption, Dims
<1>5. ASSUME role = "turn" PROVE Slots /\ Guarded
  <2>1. TurnInit
    BY <1>5 DEF Init
  <2>2. At("verify") = {} /\ At("permit") = {} /\ Cardinality({}) = 0
    BY <1>1, FS_EmptySet DEF At, ServingInit
  <2>3. Concurrency \in Nat /\ MaxWaiters \in Nat /\ FailureThreshold \in Nat
    BY TurnAssumption DEF TurnAssumption
  <2>4. Slots
    <3>1. orphans = 0
      BY <2>1 DEF TurnInit
    <3>2. Cardinality(At("verify")) = 0 /\ Cardinality(At("permit")) = 0
      BY <2>2
    <3>3. QED
      BY <2>3, <3>1, <3>2 DEF Slots
  <2>5. Guarded
    <3>1. breaker.fails = 0 /\ \A x \in Collections : cache[x] = None
      BY <2>1 DEF TurnInit
    <3>2. ASSUME NEW x \in Collections PROVE refresher[x].pc \in {"connect", "off"}
      BY <2>1 DEF TurnInit
    <3>3. QED
      BY <2>3, <3>1, <3>2 DEF Guarded
  <2>6. QED
    BY <2>4, <2>5
<1>6. ASSUME role = "search" PROVE changes \in 0..MaxChanges
  BY <1>6, SearchAssumption DEF Init, SearchInit, SearchAssumption
<1>7. QED
  BY <1>2, <1>3, <1>4, <1>5, <1>6 DEF Typed, RoleTyped

\* No step of any role leaves its types.
LEMMA TypesKept ==
  ASSUME Typed, RolesHold, [Next]_vars
  PROVE  Typed'
<1>0. Bounded /\ Limited /\ Asked /\ RoleTyped /\ role' = role
  BY RoleKept DEF Typed
<1>1. Bounded' /\ Limited'
  BY <1>0, BoundsKept, LimitsKept
<1>2. ASSUME HandlerMoves({"idle"}), RoleTyped' PROVE Typed'
  BY <1>0, <1>1, <1>2, AskedKept DEF Typed
<1>3. CASE role = "auth" /\ AuthNext
  BY <1>0, <1>2, <1>3, AuthHandlers DEF RolesHold, RoleTyped
<1>4. CASE role = "invite" /\ InviteNext
  BY <1>0, <1>2, <1>4, InviteHandlers, PoolLimitsKept DEF RolesHold, RoleTyped, InviteInv, PoolInv
<1>5. CASE role = "turn" /\ TurnNext
  BY <1>0, <1>2, <1>5, TurnHandlers, GuardKept DEF RolesHold, RoleTyped, TurnInv, Asked
<1>6. CASE role = "push" /\ PushNext
  BY <1>0, <1>2, <1>6, PushHandlers DEF RoleTyped
<1>7. CASE role = "search" /\ SearchNext
  BY <1>0, <1>2, <1>7, SearchHandlers DEF RoleTyped
<1>8. CASE UNCHANGED <<servingVars, authVars, inviteVars, turnVars, pushVars, searchVars>>
  <2>1. HandlerMoves({"idle"})
    BY <1>8 DEF HandlerMoves, servingVars
  <2>2. RoleTyped'
    BY <1>0, <1>8 DEF RoleTyped, CrlHeld, PoolLimits, Slots, At, Guarded, servingVars, authVars,
                      inviteVars, turnVars, searchVars
  <2>3. QED
    BY <1>2, <2>1, <2>2
<1>9. QED
  BY <1>3, <1>4, <1>5, <1>6, <1>7, <1>8, Zenon DEF Next, Quiet, vars

\* The types and the roles' invariants give the type invariant.
LEMMA TypesSuffice ==
  ASSUME Typed, RolesHold
  PROVE  ServicesTypeOK
<1>0. Bounded /\ Limited /\ Asked /\ RoleTyped
  BY DEF Typed
<1>1. ServingTypeOK
  BY <1>0 DEF ServingTypeOK, Bounded, Limited, Asked
<1>2. AuthTypeOK
  <2> SUFFICES ASSUME role = "auth" PROVE AuthTypeOK
    BY DEF AuthTypeOK
  <2>1. AuthTyped /\ TokensInOrder /\ CrlHeld
    BY <1>0 DEF RolesHold, RoleTyped, AuthInv
  <2>2. pc \in [Conns -> AuthPcs] /\ DOMAIN toks = Toks
    BY <2>1 DEF AuthTyped
  <2>3. AuthPcs = {"idle", "create", "select", "rotate", "consume", "upsert", "find",
                   "commit", "crl", "fetch", "exchange", "decode", "mint"}
    BY DEF AuthPcs, Verdicts
  <2>4. QED
    BY <2>1, <2>2, <2>3 DEF AuthTypeOK, AuthTyped, TokensInOrder, CrlHeld
<1>3. InviteTypeOK
  BY <1>0 DEF InviteTypeOK, RolesHold, RoleTyped, InviteInv, PoolInv, PoolTyped, ClaimInv,
              ClaimTyped, ClaimPcs, PoolLimits
<1>4. TurnTypeOK
  <2> SUFFICES ASSUME role = "turn" PROVE TurnTypeOK
    BY DEF TurnTypeOK
  <2>1. TurnTyped /\ Slots /\ Guarded
    BY <1>0 DEF RolesHold, RoleTyped, TurnInv
  <2>2. Verifying = Cardinality(At("verify")) + orphans /\ Waiting = Cardinality(At("permit"))
    BY DEF Verifying, Waiting, At
  <2>3. Cardinality(At("verify")) \in Nat /\ Cardinality(At("permit")) \in Nat
    BY ServingAssumption, FS_Subset, FS_CardinalityType DEF ServingAssumption, At
  <2>4. Concurrency \in Nat /\ MaxWaiters \in Nat
    BY TurnAssumption DEF TurnAssumption
  <2>5. Verifying \in 0..Concurrency /\ Waiting \in 0..MaxWaiters
    BY <2>1, <2>2, <2>3, <2>4 DEF Slots
  <2>6. QED
    BY <2>1, <2>5 DEF TurnTypeOK, TurnTyped, TurnPcs, Guarded
<1>5. PushTypeOK
  BY DEF PushTypeOK, RolesHold, PushInv, PushTyped, PushPcs, Sending
<1>6. SearchTypeOK
  BY <1>0 DEF SearchTypeOK, RolesHold, RoleTyped, SearchInv, SearchTyped, OneShot
<1>7. QED
  BY <1>1, <1>2, <1>3, <1>4, <1>5, <1>6 DEF ServicesTypeOK

\* The services keep their types and limits, for any number of connections, maintainers,
\* keys, requests and faults: a waiting handler holds its request, no rate limit leaves
\* zero and its burst, one handler at most fetches the revocation list and holds its lock
\* while it does, no more proofs are verified or waiting than allowed though handlers are
\* dropped, roots come from the configured chain only, the chain's invites and the batch
\* sizes stay within their bounds, and tokens are numbered without a gap (the routes and
\* background tasks of the auth, invite, turn, push and search roles).
THEOREM ServicesTyped == Spec => []ServicesTypeOK
<1>1. Spec => []RolesHold
  <2>1. /\ (role = "auth" => AuthInv) /\ (role = "invite" => InviteInv)
        /\ (role = "turn" => TurnInv) /\ (role = "push" => PushInv)
        /\ (role = "search" => SearchInv)
        => RolesHold
    BY DEF RolesHold
  <2>2. QED
    BY <2>1, AuthHolds, InviteHolds, TurnHolds, PushHolds, SearchHolds, PTL
<1>2. Typed /\ RolesHold /\ [Next]_vars => Typed'
  BY TypesKept
<1>3. Typed /\ RolesHold => ServicesTypeOK
  BY TypesSuffice
<1>4. QED
  BY <1>1, <1>2, <1>3, TypesStart, PTL DEF Spec

================================================================================

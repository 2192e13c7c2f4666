----------------------------- MODULE AuthTokens -----------------------------
(***************************************************************************)
(* The authentication handshake: single-use challenges, App Attest key     *)
(* registration, the token route with its platform verdict, and refresh    *)
(* rotation, over a shared database, the CRL cache and the cached Google   *)
(* access token.                                                           *)
(***************************************************************************)
EXTENDS Serving, Attestation

CONSTANTS
  AuthConfigs,     \* deployments: [mode, play, playKeys, digests]
  FirstEvidence,   \* the assertion an earlier session was minted on
  Evidence,        \* genuine evidence a client may present
  FlawedEvidence,  \* evidence that fails one of its checks
  Attestations, FlawedAttestations,  \* App Attest objects
  AttestKeys,      \* App Attest key ids
  Serials,         \* certificate serials Google may revoke
  MaxChal,         \* bound: challenges
  ChallengeTtl, RefreshTtl, CrlTtl, MaxStale, GoogleTtl

ASSUME AuthAssumption ==
  /\ {ChallengeTtl, RefreshTtl, CrlTtl, MaxStale, GoogleTtl} \subseteq Nat
  /\ MaxChal \in Nat \ {0}
  /\ \A f \in AuthConfigs : f.mode \in {"off", "soft", "hard"}

VARIABLES
  config,     \* the deployment's attestation settings
  chal,       \* auth_challenges: [state, exp]
  toks,       \* refresh_tokens rows by issue order, None when not issued
  attKeys,    \* app_attest_keys: [count, epoch], epoch counts registrations
  crl,        \* the CRL snapshot: [at, serials] or None
  crlLock,    \* the connection that holds the cache's mutex, or None
  google,     \* when the cached Google access token stops being used, or None
  revokedAt,  \* history of Google's list: when a serial was revoked, or None
  earned      \* history: what the session of a challenge was minted on, or None

authVars == <<config, chal, toks, attKeys, crl, crlLock, google, revokedAt, earned>>

Chals == 1..MaxChal
Toks == 1..(MaxSent + 1)

\* a row of refresh_tokens and a row of app_attest_keys
TokenRow == [root : Chals, store : BOOLEAN, plt : {None, "ios", "android"}, used : BOOLEAN,
             exp : Nat]
KeyRow == [count : Nat, epoch : Nat]

ASSUME RowAssumption == None \notin TokenRow /\ None \notin KeyRow

AuthIdle ==
  /\ config = CHOOSE f \in AuthConfigs : TRUE
  /\ chal = <<>> /\ toks = <<>> /\ attKeys = <<>> /\ earned = <<>> /\ revokedAt = <<>>
  /\ crl = None /\ crlLock = None /\ google = None

\* one client already has a session, on challenge 1, and two more challenges
\* were handed out
AuthInit ==
  /\ config \in AuthConfigs
  /\ chal = [h \in Chals |->
              [state |-> IF h = 1 THEN "used" ELSE IF h <= 3 THEN "live" ELSE "none",
               exp |-> ChallengeTtl]]
  /\ toks = [t \in Toks |->
              IF t = 1 THEN [root |-> 1, store |-> TRUE, plt |-> "ios", used |-> FALSE,
                             exp |-> RefreshTtl]
              ELSE None]
  /\ attKeys = [k \in AttestKeys |->
                 IF k = FirstEvidence.key THEN [count |-> FirstEvidence.count, epoch |-> 1]
                 ELSE None]
  /\ crl = None /\ crlLock = None /\ google = None
  /\ revokedAt = [s \in Serials |-> None]
  /\ earned = [h \in Chals |->
                IF h = 1 THEN [e |-> FirstEvidence, at |-> 0, epoch |-> 1] ELSE None]

-----------------------------------------------------------------------------
(* Requests.  A challenge or refresh token may be presented again and again. *)

Known == {h \in 2..MaxChal : chal[h].state # "none"}
Issued == {t \in Toks : toks[t] # None}

MayCreate == Known # 2..MaxChal /\ \A c \in Conns : pc[c] # "create"

\* the verdict reads the evidence only while attestation is on
Presented == IF config.mode = "off" THEN {CHOOSE e \in Evidence : TRUE} ELSE Evidence
FlawedPresented == IF config.mode = "off" THEN {} ELSE FlawedEvidence

AuthRequests ==
       (IF MayCreate THEN [op : {"challenge"}, flawed : {FALSE}] ELSE {})
  \cup [op : {"refresh"}, flawed : {FALSE}, tok : Issued]
  \cup [op : {"refresh"}, flawed : {TRUE}, tok : {None}]
  \cup [op : {"token"}, flawed : {FALSE}, headers : {TRUE}, ch : Known,
        proof : {TRUE}, evidence : Presented]
  \cup [op : {"token"}, flawed : {TRUE}, headers : {TRUE}, ch : Known,
        proof : {TRUE}, evidence : FlawedPresented]
  \cup [op : {"token"}, flawed : {TRUE}, headers : {TRUE, FALSE}, ch : Known,
        proof : {FALSE}, evidence : {CHOOSE e \in Evidence : TRUE}]
  \cup [op : {"attest"}, flawed : {FALSE}, ch : Known, key : AttestKeys,
        decodes : {TRUE}, object : Attestations]
  \cup [op : {"attest"}, flawed : {TRUE}, ch : Known, key : AttestKeys,
        decodes : BOOLEAN, object : FlawedAttestations]

\* the headers and base64 fields are decoded before the first await; a request
\* the group's rate limit turns away leaves no trace and is one that never came
AuthArrive(c) ==
  \E in \in AuthRequests :
    /\ Arrive(c, in) /\ NoCharge
    /\ CASE in.op = "challenge" -> Suspend(c, in, "create", None)
         [] in.op = "refresh" -> Suspend(c, in, "select", None)
         [] in.op = "token" -> IF in.headers THEN Suspend(c, in, "consume", None)
                               ELSE Finish(c, "BadRequest")
         [] in.op = "attest" ->
              IF config.mode = "off" THEN Finish(c, "accepted")
              ELSE IF in.decodes THEN Suspend(c, in, "consume", None)
              ELSE Finish(c, "BadRequest")
    /\ UNCHANGED authVars

\* any database call of a handler may fail with a 500
AuthFails(c) ==
  /\ pc[c] \in {"create", "select", "consume", "find", "commit", "mint", "upsert"}
  /\ Failed /\ Finish(c, "Internal") /\ NoCharge
  /\ UNCHANGED authVars

CreateChallenge(c) ==
  /\ pc[c] = "create" /\ Answered /\ NoCharge
  /\ \E h \in Chals :
       /\ chal[h].state = "none"
       /\ chal' = [chal EXCEPT ![h] = [state |-> "live", exp |-> now + ChallengeTtl]]
  /\ Finish(c, "challenge")
  /\ UNCHANGED <<config, toks, attKeys, crl, crlLock, google, revokedAt, earned>>

-----------------------------------------------------------------------------
(* The platform verdict. *)

\* an accepted verdict mints with its store claim; a rejected one is a 403 in
\* hard mode and an ordinary session without the claim in soft mode
Judge(c, ok, store) ==
  IF ok THEN Goto(c, "mint", [store |-> store, at |-> now, epoch |-> 0])
  ELSE IF config.mode = "hard" THEN Finish(c, "IntegrityFailed")
  ELSE Goto(c, "mint", [store |-> FALSE, at |-> now, epoch |-> 0])

\* attestation_verdict up to its first await
StartVerdict(c, e) ==
  CASE e.type = "ios" ->
         IF e.package \in Allowed /\ e.headers THEN Goto(c, "find", None)
         ELSE Judge(c, FALSE, FALSE)
    [] e.type = "key" ->
         IF ChainDecodes(e) /\ config.digests THEN Goto(c, "crl", None)
         ELSE Judge(c, FALSE, FALSE)
    [] e.type = "play" ->
         IF e.package \notin Allowed \/ ~e.headers \/ ~config.digests
           THEN Judge(c, FALSE, FALSE)
         ELSE IF config.playKeys = "self"
           THEN Judge(c, Sealed(e) /\ PayloadOk(e.payload, config.play),
                      PlayDistributed(e.payload))
         ELSE IF config.playKeys = "google"
           THEN IF google # None /\ now < google THEN Goto(c, "decode", None)
                ELSE Goto(c, "exchange", [at |-> now])
         ELSE Judge(c, FALSE, FALSE)
    [] e.type = "other" -> Judge(c, FALSE, FALSE)

\* the conditional UPDATE that spends a challenge
Spendable(h) == chal[h].state = "live" /\ now < chal[h].exp

ConsumeChallenge(c) ==
  LET in == req[c] IN
  /\ pc[c] = "consume" /\ Answered /\ NoCharge
  /\ IF Spendable(in.ch)
     THEN /\ chal' = [chal EXCEPT ![in.ch].state = "used"]
          /\ CASE in.op = "token" ->
                    IF ~in.proof THEN Finish(c, "Unauthorized")
                    ELSE IF config.mode = "off"
                      THEN Goto(c, "mint", [store |-> TRUE, at |-> now, epoch |-> 0])
                    ELSE StartVerdict(c, in.evidence)
               [] in.op = "attest" ->
                    IF AttestationOk(in.object) THEN Goto(c, "upsert", None)
                    ELSE Finish(c, IF config.mode = "hard" THEN "Rejected" ELSE "accepted")
     ELSE Finish(c, "Unauthorized") /\ UNCHANGED chal
  /\ UNCHANGED <<config, toks, attKeys, crl, crlLock, google, revokedAt, earned>>

\* a (re-)registration puts the counter back to 0
UpsertKey(c) ==
  LET k == req[c].key IN
  /\ pc[c] = "upsert" /\ Answered /\ NoCharge
  /\ attKeys' = [attKeys EXCEPT ![k] =
                   [count |-> 0, epoch |-> IF @ = None THEN 1 ELSE @.epoch + 1]]
  /\ Finish(c, "accepted")
  /\ UNCHANGED <<config, chal, toks, crl, crlLock, google, revokedAt, earned>>

FindKey(c) ==
  LET e == req[c].evidence
      row == attKeys[e.key] IN
  /\ pc[c] = "find" /\ Answered /\ NoCharge
  /\ IF row # None /\ AssertionOk(e, row.count) THEN Goto(c, "commit", None)
     ELSE Judge(c, FALSE, FALSE)
  /\ UNCHANGED authVars

AdvancesAny(k, count) == TRUE  \* variant: the UPDATE without its sign_count condition

\* the counter moves only past the row's own value
Advances(k, count) == attKeys[k].count < count

CommitCount(c) ==
  LET e == req[c].evidence IN
  /\ pc[c] = "commit" /\ Answered /\ NoCharge
  /\ IF Advances(e.key, e.count)
     THEN /\ attKeys' = [attKeys EXCEPT ![e.key].count = e.count]
          /\ Goto(c, "mint", [store |-> TRUE, at |-> now, epoch |-> attKeys[e.key].epoch])
     ELSE UNCHANGED attKeys /\ Judge(c, FALSE, FALSE)
  /\ UNCHANGED <<config, chal, toks, crl, crlLock, google, revokedAt, earned>>

-----------------------------------------------------------------------------
(* The CRL cache: its mutex is held across the fetch. *)

WithinMaxStale(age) == age <= MaxStale
Fresh(snapshot) ==
  /\ snapshot # None
  /\ now - snapshot.at < CrlTtl
  /\ WithinMaxStale(now - snapshot.at)

JudgeChain(c, serials) == Judge(c, VerifyChain(req[c].evidence, serials), FALSE)

RevokedSerials(c) ==
  /\ pc[c] = "crl" /\ crlLock = None /\ Answered /\ NoCharge
  /\ IF Fresh(crl) THEN JudgeChain(c, crl.serials) /\ UNCHANGED crlLock
     ELSE Goto(c, "fetch", None) /\ crlLock' = c
  /\ UNCHANGED <<config, chal, toks, attKeys, crl, google, revokedAt, earned>>

\* the list Google answers with is stamped on arrival
CrlFetched(c) ==
  LET listed == {s \in Serials : revokedAt[s] # None} IN
  /\ pc[c] = "fetch" /\ Answered /\ NoCharge
  /\ crl' = [at |-> now, serials |-> listed]
  /\ crlLock' = None
  /\ JudgeChain(c, listed)
  /\ UNCHANGED <<config, chal, toks, attKeys, google, revokedAt, earned>>

\* a failed refresh serves the old list within max-stale, else fails closed
CrlFetchFails(c) ==
  /\ pc[c] = "fetch" /\ Failed /\ NoCharge
  /\ crlLock' = None
  /\ IF crl # None /\ WithinMaxStale(now - crl.at) THEN JudgeChain(c, crl.serials)
     ELSE IF config.mode = "hard" THEN Finish(c, "CrlUnavailable")
     ELSE Judge(c, FALSE, FALSE)
  /\ UNCHANGED <<config, chal, toks, attKeys, crl, google, revokedAt, earned>>

-----------------------------------------------------------------------------
(* Google's decodeIntegrityToken fallback. *)

Exchange(c) ==
  /\ pc[c] = "exchange" /\ Answered /\ NoCharge
  /\ google' = loc[c].at + GoogleTtl - 1     \* less the refresh buffer
  /\ Goto(c, "decode", None)
  /\ UNCHANGED <<config, chal, toks, attKeys, crl, crlLock, revokedAt, earned>>

Decode(c) ==
  LET e == req[c].evidence IN
  /\ pc[c] = "decode" /\ Answered /\ NoCharge
  /\ Judge(c, Sealed(e) /\ PayloadOk(e.payload, config.play), PlayDistributed(e.payload))
  /\ UNCHANGED authVars

GoogleFails(c) ==
  /\ pc[c] \in {"exchange", "decode"} /\ Failed /\ NoCharge
  /\ Judge(c, FALSE, FALSE)
  /\ UNCHANGED authVars

-----------------------------------------------------------------------------
(* Sessions. *)

Platform(e) == IF e.type = "ios" THEN "ios" ELSE IF e.type = "other" THEN None ELSE "android"
NextTok == CHOOSE t \in Toks : toks[t] = None /\ \A u \in 1..(t - 1) : toks[u] # None

MintSession(c) ==
  LET in == req[c] IN
  /\ pc[c] = "mint" /\ Answered /\ NoCharge
  /\ toks' = [toks EXCEPT ![NextTok] =
                [root |-> in.ch, store |-> loc[c].store, plt |-> Platform(in.evidence),
                 used |-> FALSE, exp |-> now + RefreshTtl]]
  /\ earned' = [earned EXCEPT ![in.ch] =
                  [e |-> in.evidence, at |-> loc[c].at, epoch |-> loc[c].epoch]]
  /\ Finish(c, "session")
  /\ UNCHANGED <<config, chal, attKeys, crl, crlLock, google, revokedAt>>

\* SELECT ... FOR UPDATE: waits for the transaction that holds the row
RowFree(c, t) == \A d \in Conns \ {c} : pc[d] = "rotate" => req[d].tok # t

SelectToken(c) ==
  LET t == req[c].tok IN
  /\ pc[c] = "select" /\ RowFree(c, t) /\ Answered /\ NoCharge
  /\ IF t # None /\ ~toks[t].used /\ now < toks[t].exp THEN Goto(c, "rotate", None)
     ELSE Finish(c, "Unauthorized")
  /\ UNCHANGED authVars

\* the presented row is spent and its successor inserted by one commit
Rotated(t) ==
  toks' = [toks EXCEPT ![t].used = TRUE,
                       ![NextTok] = [toks[t] EXCEPT !.used = FALSE, !.exp = now + RefreshTtl]]

RotateToken(c) ==
  /\ pc[c] = "rotate" /\ NoCharge
  /\ \/ Answered /\ Rotated(req[c].tok) /\ Finish(c, "session")
     \/ Failed /\ Rotated(req[c].tok) /\ Finish(c, "Internal")  \* the commit's answer is lost
     \/ Failed /\ UNCHANGED toks /\ Finish(c, "Internal")
  /\ UNCHANGED <<config, chal, attKeys, crl, crlLock, google, revokedAt, earned>>

-----------------------------------------------------------------------------
\* a dropped handler lets go of the CRL mutex
AuthDrop(c) ==
  /\ Drop(c)
  /\ crlLock' = IF crlLock = c THEN None ELSE crlLock
  /\ UNCHANGED <<config, chal, toks, attKeys, crl, google, revokedAt, earned>>

\* Google revokes a certificate; only hard mode promises anything about when
\* the service notices
Revoke ==
  /\ config.mode = "hard"
  /\ \E s \in Serials : revokedAt[s] = None /\ revokedAt' = [revokedAt EXCEPT ![s] = now]
  /\ UNCHANGED servingVars
  /\ UNCHANGED <<config, chal, toks, attKeys, crl, crlLock, google, earned>>

AuthTick == Tick /\ UNCHANGED authVars

AuthStep(c) ==
  \/ AuthFails(c) \/ CreateChallenge(c) \/ ConsumeChallenge(c) \/ UpsertKey(c)
  \/ FindKey(c) \/ CommitCount(c) \/ RevokedSerials(c) \/ CrlFetched(c)
  \/ CrlFetchFails(c) \/ Exchange(c) \/ Decode(c) \/ GoogleFails(c) \/ MintSession(c)
  \/ SelectToken(c) \/ RotateToken(c)

AuthNext ==
  \/ \E c \in Conns : AuthArrive(c) \/ AuthStep(c) \/ AuthDrop(c)
  \/ Revoke
  \/ AuthTick

-----------------------------------------------------------------------------
\* every check of the evidence itself; the counter and the CRL are the service's
Verifies(e, mode) ==
  \/ /\ e.type = "ios"
     /\ e.package \in Allowed /\ e.headers /\ e.signature /\ e.app \in Allowed
  \/ e.type = "key" /\ ChainDecodes(e) /\ VerifyChain(e, {})
  \/ /\ e.type = "play"
     /\ e.package \in Allowed /\ e.headers /\ Sealed(e) /\ PayloadOk(e.payload, mode)

AllEvidence == Evidence \cup FlawedEvidence \cup {FirstEvidence}

ASSUME EvidenceAssumption ==
  /\ Evidence # {} /\ FirstEvidence.type = "ios"
  /\ \A f \in AuthConfigs : /\ Verifies(FirstEvidence, f.play)
                             /\ \A e \in FlawedEvidence : ~Verifies(e, f.play)
  /\ \A e \in AllEvidence : /\ e.type \in {"ios", "key", "play", "other"}
                            /\ e.type = "ios" => e.key \in AttestKeys /\ e.count \in Nat
                            /\ e.type = "key" => e.serial \in Serials

\* what a store claim must rest on: Apple's assertion, or a verdict by which
\* Play itself distributed the install
ProvesStore(e) ==
  \/ e.type = "ios" /\ e.signature /\ e.package \in Allowed
  \/ /\ e.type = "play" /\ e.sealed /\ e.payload.nonce
     /\ e.payload.licensing = "LICENSED" /\ e.payload.app = "PLAY_RECOGNIZED"
     /\ StoreDigest \in e.payload.digests

\* the chain's certificate was not known revoked for longer than the cache allows
NotLongRevoked(h) ==
  LET s == earned[h].e.serial IN
    revokedAt[s] = None \/ earned[h].at <= revokedAt[s] + MaxStale

\* Sessions are earned once: a challenge carries at most one unspent refresh
\* token however handlers, retries and lost answers interleave; with attestation
\* on, a store claim rests on store evidence through every rotation, hard mode
\* mints only on evidence that verifies and no chain revoked for longer than the
\* CRL bound, and no App Attest counter is accepted twice within a registration.
SessionsEarned == role = "auth" =>
  /\ \A h \in Chals :
       Cardinality({t \in Issued : toks[t].root = h /\ ~toks[t].used}) <= 1
  /\ config.mode # "off" =>
       \A t \in Issued : toks[t].store => ProvesStore(earned[toks[t].root].e)
  /\ config.mode = "hard" =>
       \A h \in Chals : earned[h] # None =>
         /\ earned[h].e \notin FlawedEvidence
         /\ earned[h].e.type # "other"
         /\ earned[h].e.type = "key" => NotLongRevoked(h)
  /\ config.mode # "off" =>
       \A g, h \in Chals :
         /\ g # h /\ earned[g] # None /\ earned[h] # None
         /\ earned[g].epoch = earned[h].epoch /\ earned[g].epoch > 0
         /\ earned[g].e.key = earned[h].e.key
         => earned[g].e.count # earned[h].e.count

\* Challenges and refresh tokens have their type, token numbers are used without a
\* gap, and the lock of the revocation list belongs to the one handler that is fetching
\* it, and to none when nobody is.
AuthTypeOK == role = "auth" =>
  /\ pc \in [Conns -> {"idle", "create", "select", "rotate", "consume", "upsert", "find",
                       "commit", "crl", "fetch", "exchange", "decode", "mint"}]
  /\ chal \in [Chals -> [state : {"none", "live", "used"}, exp : Nat]]
  /\ DOMAIN toks = Toks /\ Issued = 1..Cardinality(Issued)
  /\ crlLock \in Conns \cup {None}
  /\ \A c \in Conns : pc[c] = "fetch" <=> crlLock = c
=============================================================================

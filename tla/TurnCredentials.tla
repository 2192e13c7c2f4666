-------------------------- MODULE TurnCredentials --------------------------
(***************************************************************************)
(* TURN credentials: the authenticated route and the personhood-proof      *)
(* route, over a coturn secret or Cloudflare with its last-good cache and  *)
(* circuit breaker, the per-collection ring-root caches and their          *)
(* background refreshers, and the bounded verification slots.              *)
(***************************************************************************)
EXTENDS Serving

CONSTANTS
  TurnDeployments, \* [provider, proof, genesis, cached, rotations]
  Alias,           \* the contextual alias the proving person has
  Collections,     \* the accepted personhood collections
  Ttl,             \* TURN_TTL_SECS
  GrantedTtls,     \* lifetimes Cloudflare may grant instead
  MinUsefulCap,    \* MIN_USEFUL_REMAINING
  RequestTimeout,  \* REQUEST_TIMEOUT of the Cloudflare client
  FailureThreshold, FailureCooldown,  \* of the breaker
  Concurrency,     \* verification slots
  MaxWaiters,      \* MAX_PERMIT_WAITERS
  MaxSkew,         \* PROOF_MAX_SKEW_SECS
  MaxRootAge,      \* PROOF_MAX_ROOT_AGE
  RefreshTime      \* how long one refresh's chain reads may take (the code sets no limit)

ASSUME TurnAssumption ==
  /\ {RequestTimeout, FailureCooldown, MaxWaiters, MaxSkew, MaxRootAge, RefreshTime}
       \subseteq Nat
  /\ {Ttl, MinUsefulCap, FailureThreshold, Concurrency} \subseteq Nat \ {0}
  /\ GrantedTtls \subseteq Nat
  /\ Alias \in Keys \ {Subject}
  /\ \A f \in TurnDeployments : f.rotations \in Nat /\ f.genesis \in {"ours", "other", "unknown"}

VARIABLES
  turnConfig, \* the provider, whether the proof route is mounted, which chain
              \* the RPC endpoint serves, whether a credential is cached, and the
              \* bound on root rotations
  lastGood,   \* expires_at of Cloudflare's last credential, or None
  breaker,    \* [fails, until]
  orphans,    \* verifications still running for dropped handlers
  refresher,  \* refresher[x]: [pc, roots, began]
  cache,      \* cache[x]: [at, roots] or None
  revision,   \* revision[x]: the ring's current revision on chain
  dropped,    \* dropped[x][r]: when revision r left the chain, or None
  given,      \* history: the credential last given on a connection, or None
  issued      \* history: how many credentials a key was given

turnVars == <<turnConfig, lastGood, breaker, orphans, refresher, cache, revision,
              dropped, given, issued>>

TurnIdle ==
  /\ turnConfig = CHOOSE f \in TurnDeployments : TRUE
  /\ lastGood = None /\ orphans = 0
  /\ breaker = <<>> /\ refresher = <<>> /\ cache = <<>> /\ revision = <<>>
  /\ dropped = <<>> /\ given = <<>> /\ issued = <<>>

\* a process that may already have served a credential
TurnInit ==
  /\ turnConfig \in TurnDeployments
  /\ lastGood \in IF turnConfig.cached THEN GrantedTtls ELSE {None}
  /\ breaker = [fails |-> 0, until |-> 0]
  /\ orphans = 0
  /\ refresher = [x \in Collections |->
                   [pc |-> IF turnConfig.proof THEN "connect" ELSE "off",
                    roots |-> {}, began |-> 0]]
  /\ cache = [x \in Collections |-> None]
  /\ revision = [x \in Collections |-> 1]
  /\ dropped = [x \in Collections |-> [r \in 0..(1 + turnConfig.rotations) |-> None]]
  /\ given = [c \in Conns |-> None]
  /\ issued = [k \in Keys |-> 0]

-----------------------------------------------------------------------------
(* The ring roots.  The chain keeps a ring's current and previous revision. *)

OnChain(x) == {r \in {revision[x] - 1, revision[x]} : r >= 0}

RotateRoot(x) ==
  /\ turnConfig.proof /\ revision[x] < 1 + turnConfig.rotations
  /\ revision' = [revision EXCEPT ![x] = @ + 1]
  /\ dropped' = [dropped EXCEPT ![x][revision[x] - 1] = now]
  /\ UNCHANGED <<servingVars, turnConfig, lastGood, breaker, orphans, refresher,
                 cache, given, issued>>

\* the first connect is unwrapped: an error ends the task for good
RefresherConnects(x) ==
  /\ refresher[x].pc = "connect"
  /\ \/ Answered /\ refresher' = [refresher EXCEPT ![x].pc = "genesis"]
     \/ Failed /\ refresher' = [refresher EXCEPT ![x].pc = "panicked"]
  /\ UNCHANGED <<pc, req, loc, reply, quota, credits>>
  /\ UNCHANGED <<turnConfig, lastGood, breaker, orphans, cache, revision, dropped,
                 given, issued>>

\* another chain's roots are refused, those of a chain whose genesis the client
\* does not know are not; the cache is emptied after the next tick
CheckGenesis(x) ==
  /\ refresher[x].pc = "genesis"
  /\ IF turnConfig.genesis = "other"
     THEN cache' = [cache EXCEPT ![x] = None] /\ UNCHANGED refresher
     ELSE refresher' = [refresher EXCEPT ![x].pc = "tick"] /\ UNCHANGED cache
  /\ UNCHANGED <<servingVars, turnConfig, lastGood, breaker, orphans, revision,
                 dropped, given, issued>>

\* the reads of one refresh are all of the block that was current when it began
BeginRefresh(x) ==
  /\ refresher[x].pc = "tick"
  /\ refresher' = [refresher EXCEPT ![x] = [pc |-> "read", roots |-> OnChain(x), began |-> now]]
  /\ UNCHANGED <<servingVars, turnConfig, lastGood, breaker, orphans, cache, revision,
                 dropped, given, issued>>

\* the snapshot is stamped when it is stored; an error goes back to the genesis
\* check and keeps the old snapshot
EndRefresh(x) ==
  /\ refresher[x].pc = "read"
  /\ \/ /\ Answered
        /\ cache' = [cache EXCEPT ![x] = [at |-> now, roots |-> refresher[x].roots]]
        /\ refresher' = [refresher EXCEPT ![x] = [pc |-> "tick", roots |-> {}, began |-> 0]]
     \/ /\ Failed /\ UNCHANGED cache
        /\ refresher' = [refresher EXCEPT ![x] = [pc |-> "genesis", roots |-> {}, began |-> 0]]
  /\ UNCHANGED <<pc, req, loc, reply, quota, credits>>
  /\ UNCHANGED <<turnConfig, lastGood, breaker, orphans, revision, dropped, given, issued>>

Snapshot(x) ==
  IF cache[x] # None /\ now - cache[x].at <= MaxRootAge THEN cache[x].roots ELSE None

-----------------------------------------------------------------------------
(* Issuance. *)

SmallerOf(a, b) == IF a <= b THEN a ELSE b
MinUseful == SmallerOf(MinUsefulCap, IF Ttl \div 4 >= 1 THEN Ttl \div 4 ELSE 1)

Remaining(expiry, at) == IF expiry > at THEN expiry - at ELSE 0

CachedAny(at) == lastGood # None  \* variant: whatever life is left

\* the last good credential has a useful life left
Cached(at) == lastGood # None /\ Remaining(lastGood, at) >= MinUseful

InCooldown(at) == at < breaker.until

\* the answer is a 201 with the life left as of the time the handler read
Give(c, in, key, source, expiry, at) ==
  /\ Finish(c, "issued")
  /\ issued' = [issued EXCEPT ![key] = @ + 1]
  /\ given' = [given EXCEPT ![c] =
       [in |-> in, key |-> key, source |-> source, expiry |-> expiry,
        ttl |-> Remaining(expiry, at), at |-> now]]

\* both kinds of credential run from the time the handler read
CoturnExpiry(at) == at + Ttl
GrantedExpiries(at) == {at + ttl : ttl \in GrantedTtls}

NoGift == UNCHANGED <<given, issued>>

\* Source::issue up to its first await
StartIssue(c, in, key, paid) ==
  IF turnConfig.provider = "coturn" THEN Give(c, in, key, "coturn", CoturnExpiry(now), now)
  ELSE IF InCooldown(now) /\ Cached(now) THEN Give(c, in, key, "cache", lastGood, now)
  ELSE Suspend(c, in, "fetch", [key |-> key, paid |-> paid, at |-> now]) /\ NoGift

\* Cloudflare answers with any lifetime; its credential lives at least as long as reckoned from
\* the time before the call
CloudflareIssues(c) ==
  /\ pc[c] = "fetch" /\ Answered /\ NoCharge
  /\ \E expiry \in GrantedExpiries(loc[c].at) :
       /\ lastGood' = expiry
       /\ Give(c, req[c], loc[c].key, "cloudflare", expiry, loc[c].at)
  /\ breaker' = [fails |-> 0, until |-> 0]
  /\ UNCHANGED <<turnConfig, orphans, refresher, cache, revision, dropped>>

\* a final 4xx: neither the breaker nor the cache is consulted
CloudflareRejects(c) ==
  /\ pc[c] = "fetch" /\ Failed
  /\ Refund(loc[c].key, loc[c].paid) /\ Finish(c, "UpstreamUnavailable")
  /\ UNCHANGED turnVars

\* unreachable, overloaded or malformed: the failure counts and the cache answers
CloudflareFails(c) ==
  LET l == loc[c] IN
  /\ pc[c] = "fetch" /\ Failed
  /\ breaker' = [fails |-> SmallerOf(breaker.fails + 1, FailureThreshold),
                 until |-> IF breaker.fails + 1 >= FailureThreshold
                           THEN l.at + FailureCooldown ELSE breaker.until]
  /\ IF Cached(l.at) THEN Give(c, req[c], l.key, "cache", lastGood, l.at) /\ NoCharge
     ELSE Refund(l.key, l.paid) /\ Finish(c, "UpstreamUnavailable") /\ NoGift
  /\ UNCHANGED <<turnConfig, lastGood, orphans, refresher, cache, revision, dropped>>

-----------------------------------------------------------------------------
(* The routes. *)

NoProof == [coll |-> None, rev |-> 0, ts |-> 0, form |-> TRUE, valid |-> FALSE]
ProofsOf(x) ==
  [coll : {x}, rev : 0..revision[x], ts : {now}, form : {TRUE}, valid : {TRUE}]

TurnRequests ==
       [flawed : {FALSE}, route : {"issue"}, header : {GoodBearer}, body : {TRUE},
        proof : {NoProof}, asked : {now}]
  \cup [flawed : {TRUE}, route : {"issue"}, header : BadBearers, body : {TRUE},
        proof : {NoProof}, asked : {now}]
  \cup [flawed : {TRUE}, route : {"issue"}, header : {GoodBearer}, body : {FALSE},
        proof : {NoProof}, asked : {now}]
  \cup [flawed : {FALSE}, route : {"proof"}, header : {GoodBearer}, body : {TRUE},
        proof : UNION {ProofsOf(x) : x \in Collections}, asked : {now}]
  \cup [flawed : {TRUE}, route : {"proof"}, header : {GoodBearer}, body : {TRUE},
        proof : UNION {{[p EXCEPT !.form = FALSE], [p EXCEPT !.valid = FALSE],
                        [p EXCEPT !.ts = now + MaxSkew + 1]}
                       : p \in UNION {ProofsOf(x) : x \in Collections}}, asked : {now}]

Skewed(ts) == IF now >= ts THEN now - ts > MaxSkew ELSE ts - now > MaxSkew

\* POST /turn/issue
IssueArrives(c, in) ==
  /\ in.route = "issue"
  /\ IF AuthRejection(ServiceKeys, in.header) # None
       THEN Finish(c, "Unauthorized") /\ NoCharge /\ NoGift
     ELSE IF ~in.body THEN Finish(c, "BadRequest") /\ NoCharge /\ NoGift
     ELSE LET k == in.header.token.sub IN
          /\ Charge(k, Payment(k))
          /\ IF Payment(k) = None THEN Finish(c, "RateLimited") /\ NoGift
             ELSE StartIssue(c, in, k, Payment(k))

Verifying == Cardinality({c \in Conns : pc[c] = "verify"}) + orphans
Waiting == Cardinality({c \in Conns : pc[c] = "permit"})

\* POST /turn/issue-with-proof up to the verification slot: shape, freshness,
\* a snapshot young enough, the named revision held, a slot or a place to wait
ProofArrives(c, in) ==
  LET p == in.proof IN
  /\ in.route = "proof" /\ NoCharge /\ NoGift
  /\ IF ~p.form \/ Skewed(p.ts) THEN Finish(c, "BadRequest")
     ELSE IF Snapshot(p.coll) = None THEN Finish(c, "ProofUnavailable")
     ELSE IF p.rev \notin Snapshot(p.coll) THEN Finish(c, "ProofRejected")
     ELSE IF Verifying < Concurrency THEN Suspend(c, in, "verify", None)
     ELSE IF Waiting < MaxWaiters THEN Suspend(c, in, "permit", None)
     ELSE Finish(c, "ProofBusy")

TurnArrive(c) ==
  \E in \in TurnRequests :
    /\ in.route = "proof" => turnConfig.proof
    /\ Arrive(c, in)
    /\ IssueArrives(c, in) \/ ProofArrives(c, in)
    /\ UNCHANGED <<turnConfig, lastGood, breaker, orphans, refresher, cache, revision,
                   dropped>>

\* the wait ends with a slot or with PERMIT_WAIT
PermitWait(c) ==
  /\ pc[c] = "permit" /\ Answered /\ NoCharge
  /\ \/ Verifying < Concurrency /\ Goto(c, "verify", None)
     \/ Finish(c, "ProofBusy")
  /\ UNCHANGED turnVars

\* the blocking verification ends; the alias pays only for a proof that holds
Verified(c) ==
  /\ pc[c] = "verify" /\ Answered
  /\ IF ~req[c].proof.valid THEN Finish(c, "ProofRejected") /\ NoCharge /\ NoGift
     ELSE /\ Charge(Alias, Payment(Alias))
          /\ IF Payment(Alias) = None THEN Finish(c, "RateLimited") /\ NoGift
             ELSE StartIssue(c, req[c], Alias, Payment(Alias))
  /\ UNCHANGED <<turnConfig, lastGood, breaker, orphans, refresher, cache, revision,
                 dropped>>

\* a verification outlives its dropped handler and keeps its slot
TurnDropped(c) ==
  /\ Drop(c)
  /\ orphans' = IF pc[c] = "verify" THEN orphans + 1 ELSE orphans
  /\ UNCHANGED <<turnConfig, lastGood, breaker, refresher, cache, revision, dropped,
                 given, issued>>

OrphanEnds ==
  /\ orphans > 0 /\ orphans' = orphans - 1
  /\ UNCHANGED <<servingVars, turnConfig, lastGood, breaker, refresher, cache, revision,
                 dropped, given, issued>>

\* neither a Cloudflare call nor a refresh outlasts its bound
TurnTick ==
  /\ \A c \in Conns : pc[c] = "fetch" => now - loc[c].at < RequestTimeout
  /\ \A x \in Collections : refresher[x].pc = "read" => now - refresher[x].began < RefreshTime
  /\ Tick /\ UNCHANGED turnVars

TurnNext ==
  \/ \E x \in Collections :
       \/ RotateRoot(x) \/ RefresherConnects(x) \/ CheckGenesis(x) \/ BeginRefresh(x)
       \/ EndRefresh(x)
  \/ \E c \in Conns :
       \/ TurnArrive(c) \/ PermitWait(c) \/ Verified(c) \/ CloudflareIssues(c)
       \/ CloudflareRejects(c) \/ CloudflareFails(c) \/ TurnDropped(c)
  \/ OrphanEnds
  \/ TurnTick

-----------------------------------------------------------------------------
\* cells of k's limiter that paid for something: a credential, a banked refund,
\* or a request still being served
Spent(k) ==
  issued[k] + credits[k]
    + Cardinality({c \in Conns : pc[c] = "fetch" /\ loc[c].key = k})

\* What is given out is live, paid for and authorized: a cached credential, and
\* one of coturn, has its useful life left but for the provider's timeout (a
\* fresh one of Cloudflare has what Cloudflare granted), and none is reported to
\* live longer than it does but for that timeout; refunds, cached answers and
\* concurrent requests never give a key more than its limiter granted; and a
\* redeemed proof held under a root that had left the chain for no longer than
\* the snapshot's greatest age plus one refresh.
CredentialsEarned == role = "turn" =>
  /\ \A c \in Conns : given[c] # None =>
       LET g == given[c] IN
       /\ ~g.in.flawed
       /\ g.source # "cloudflare" => g.ttl >= MinUseful
       /\ Remaining(g.expiry, g.at) + RequestTimeout >= g.ttl
       /\ g.in.route = "proof" =>
            LET left == dropped[g.in.proof.coll][g.in.proof.rev] IN
            left # None => g.in.asked <= left + MaxRootAge + RefreshTime
  /\ \A k \in Keys : Spent(k) <= MaxBurst + now - quota[k]

\* Handlers, the cached credential and the breaker have their type, no more proofs are
\* being verified or waiting than the two limits allow, handlers that were dropped
\* included, and no root is cached from what is known to be another chain.
TurnTypeOK == role = "turn" =>
  /\ pc \in [Conns -> {"idle", "fetch", "verify", "permit"}]
  /\ lastGood = None \/ lastGood \in Nat
  /\ breaker.fails \in 0..FailureThreshold
  /\ Verifying \in 0..Concurrency /\ Waiting \in 0..MaxWaiters
  /\ \A x \in Collections : cache[x] # None => turnConfig.genesis # "other"
=============================================================================

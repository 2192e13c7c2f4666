--------------------------- MODULE InviteTickets ---------------------------
(***************************************************************************)
(* Invitation tickets: pool maintainers that keep each (dim, network) pool *)
(* at its target by registering fresh keys on the People Chain, and the    *)
(* claim route that hands the oldest available key to a client.  A key is  *)
(* useful only if the chain knows it and the pool still holds its seed.    *)
(***************************************************************************)
EXTENDS Serving

CONSTANTS
  Maintainers,  \* pool-maintainer instances
  PoolDims,     \* POOL_DIMS: the sequence of pools one tick serves
  Target,       \* POOL_TARGET_SIZE
  BatchMax,     \* POOL_BATCH_MAX
  DbRetries,    \* DB_RETRIES
  Invites,      \* the inviter's quota on chain, per dim
  MaxTickets    \* bound: keypairs ever generated

ASSUME InviteAssumption ==
  /\ {Target, DbRetries, MaxTickets} \subseteq Nat
  /\ Invites \in [{PoolDims[i] : i \in DOMAIN PoolDims} -> Nat]
  /\ BatchMax \in Nat \ {0}
  /\ Len(PoolDims) \in Nat \ {0} /\ DOMAIN PoolDims = 1..Len(PoolDims)

VARIABLES
  maint,      \* maint[m]: the maintainer's position in its loop
  batchSize,  \* batchSize[m][i]: the AIMD size of pool i
  tickLock,   \* the maintainer whose session holds the advisory lock, or None
  inflight,   \* batches in the transaction pool: [by, keys, dim]
  finalized,  \* outcome of m's last batch: the accepted keys, or None
  quotaLeft,  \* AvailableInvites by dim
  onChain,    \* registered keys: pairs of a key and a dim
  rows,       \* invite_tickets: rows[t] = [dim, state], or None
  handed,     \* history: how often a key was in a 200 answer
  fresh       \* the next keypair nobody has generated

inviteVars == <<maint, batchSize, tickLock, inflight, finalized, quotaLeft, onChain,
                rows, handed, fresh>>

Tickets == 1..MaxTickets
Dims == {PoolDims[i] : i \in DOMAIN PoolDims}
TicketRow == [dim : Dims, state : {"available", "claimed"}]

\* a batch's keys by the position of their call, empty between batches
Asleep == [pc |-> "sleep", i |-> 1, keys |-> <<>>, inserted |-> 0]

ASSUME TicketAssumption ==
  /\ None \notin TicketRow /\ None \notin Maintainers
  /\ \A n \in 1..BatchMax : None \notin [1..n -> BOOLEAN]

InviteIdle ==
  /\ maint = <<>> /\ batchSize = <<>> /\ rows = <<>> /\ handed = <<>>
  /\ quotaLeft = <<>> /\ finalized = <<>>
  /\ tickLock = None /\ inflight = {} /\ onChain = {} /\ fresh = 1

InviteInit ==
  /\ maint = [m \in Maintainers |-> Asleep]
  /\ batchSize = [m \in Maintainers |-> [i \in DOMAIN PoolDims |-> BatchMax]]
  /\ tickLock = None
  /\ inflight = {} /\ onChain = {} /\ fresh = 1
  /\ finalized = [m \in Maintainers |-> None]
  /\ quotaLeft = Invites
  /\ rows = [t \in Tickets |-> None]
  /\ handed = [t \in Tickets |-> 0]

-----------------------------------------------------------------------------
(* The maintainer: one tick serves the pools in turn under the lock. *)

Available(d) == {t \in Tickets : rows[t] # None /\ rows[t].dim = d /\ rows[t].state = "available"}

LowerOf(a, b) == IF a <= b THEN a ELSE b
PlanRefill(available, size) == IF available >= Target THEN 0 ELSE LowerOf(Target - available, size)

\* A variant that grows past the configured maximum.
SettleUncapped(size, succeeded) ==
  IF succeeded THEN size + 1 ELSE IF size >= 2 THEN size \div 2 ELSE 1

SettleBatchSize(size, succeeded) ==
  IF succeeded THEN LowerOf(size + 1, BatchMax) ELSE IF size >= 2 THEN size \div 2 ELSE 1

\* pg_try_advisory_lock; an instance that finds it taken skips the tick
AcquireTickLock(m) ==
  /\ maint[m].pc = "sleep" /\ tickLock = None
  /\ tickLock' = m
  /\ maint' = [maint EXCEPT ![m] = [Asleep EXCEPT !.pc = "count"]]
  /\ UNCHANGED <<servingVars, batchSize, inflight, finalized, quotaLeft, onChain, rows,
                 handed, fresh>>

\* on to the next pool, or release the lock and sleep
NextPool(m) ==
  /\ finalized' = [finalized EXCEPT ![m] = None]
  /\ IF maint[m].i < Len(PoolDims)
     THEN /\ maint' = [maint EXCEPT ![m] = [Asleep EXCEPT !.pc = "count", !.i = maint[m].i + 1]]
          /\ UNCHANGED tickLock
     ELSE /\ maint' = [maint EXCEPT ![m] = Asleep]
          /\ tickLock' = IF tickLock = m THEN None ELSE tickLock

Settle(m, succeeded) ==
  batchSize' = [batchSize EXCEPT ![m][maint[m].i] = SettleBatchSize(@, succeeded)]

\* a pool's tick ends in an error: its keypairs are dropped, its batch halved
TickFailed(m) == Settle(m, FALSE) /\ NextPool(m)

\* count, plan and generate; the inviter's quota is only read for a gauge
CountAndPlan(m) ==
  LET i == maint[m].i
      size == PlanRefill(Cardinality(Available(PoolDims[i])), batchSize[m][i]) IN
  /\ maint[m].pc = "count" /\ Answered
  /\ IF size = 0
     THEN NextPool(m) /\ UNCHANGED fresh
     ELSE /\ fresh + size <= MaxTickets + 1
          /\ fresh' = fresh + size
          /\ maint' = [maint EXCEPT ![m].pc = "submit",
                                    ![m].keys = [n \in 1..size |-> fresh + n - 1]]
          /\ UNCHANGED <<finalized, tickLock>>
  /\ UNCHANGED <<pc, req, loc, reply, quota, credits>>
  /\ UNCHANGED <<batchSize, inflight, quotaLeft, onChain, rows, handed>>

\* the signed batch is accepted by the node and watched
SubmitBatch(m) ==
  /\ maint[m].pc = "submit" /\ Answered
  /\ inflight' = inflight \cup
       {[by |-> m, keys |-> maint[m].keys, dim |-> PoolDims[maint[m].i]]}
  /\ maint' = [maint EXCEPT ![m].pc = "watch"]
  /\ UNCHANGED <<pc, req, loc, reply, quota, credits>>
  /\ UNCHANGED <<batchSize, tickLock, finalized, quotaLeft, onChain, rows, handed, fresh>>

\* force_batch executes item by item while the quota lasts, and the inviter's
\* nonce, read from the chain at signing, voids the other pending batches
ChainFinalizes ==
  \E b \in inflight :
    LET accepted == {n \in DOMAIN b.keys : n <= quotaLeft[b.dim]} IN
    /\ onChain' = onChain \cup {<<b.keys[n], b.dim>> : n \in accepted}
    /\ quotaLeft' = [quotaLeft EXCEPT ![b.dim] = @ - Cardinality(accepted)]
    /\ finalized' = IF maint[b.by].pc = "watch" /\ maint[b.by].keys = b.keys
                    THEN [finalized EXCEPT ![b.by] = [n \in DOMAIN b.keys |-> n \in accepted]]
                    ELSE finalized
    /\ inflight' = {}
    /\ UNCHANGED <<servingVars, maint, batchSize, tickLock, rows, handed, fresh>>

ItemAcceptedAny(items, n) == TRUE  \* variant: a row for every generated key

\* positional: the n-th event is the n-th call's
ItemAccepted(items, n) == n \in DOMAIN items /\ items[n]

BatchFinalized(m) ==
  /\ maint[m].pc = "watch" /\ finalized[m] # None /\ Answered
  /\ LET keys == maint[m].keys
         accepted == {n \in DOMAIN keys : ItemAccepted(finalized[m], n)} IN
     maint' = [maint EXCEPT ![m].pc = "insert", ![m].keys = [n \in accepted |-> keys[n]]]
  /\ UNCHANGED <<pc, req, loc, reply, quota, credits>>
  /\ UNCHANGED <<batchSize, tickLock, inflight, finalized, quotaLeft, onChain, rows,
                 handed, fresh>>

\* accepted keys become rows one insert at a time, then the batch size settles
InsertAvailable(m) ==
  LET w == maint[m]
      rest == DOMAIN w.keys
      n == CHOOSE k \in rest : \A j \in rest : k <= j IN
  /\ w.pc = "insert" /\ Answered
  /\ IF rest # {}
     THEN /\ rows' = [rows EXCEPT ![w.keys[n]] =
                        [dim |-> PoolDims[w.i], state |-> "available"]]
          /\ maint' = [maint EXCEPT ![m].keys = [k \in rest \ {n} |-> w.keys[k]],
                                    ![m].inserted = @ + 1]
          /\ UNCHANGED <<batchSize, tickLock, finalized>>
     ELSE Settle(m, w.inserted > 0) /\ NextPool(m) /\ UNCHANGED rows
  /\ UNCHANGED <<pc, req, loc, reply, quota, credits>>
  /\ UNCHANGED <<inflight, quotaLeft, onChain, handed, fresh>>

\* a read, submission, watch or insert fails, or finalization times out; the
\* transaction may still be in the pool
TickError(m) ==
  /\ \/ maint[m].pc \in {"count", "submit"} /\ Failed
     \/ maint[m].pc = "insert" /\ DOMAIN maint[m].keys # {} /\ Failed
     \/ maint[m].pc = "watch" /\ finalized[m] = None /\ Failed
     \/ /\ maint[m].pc = "watch" /\ finalized[m] = None   \* voided by another batch
        /\ \A b \in inflight : b.by # m \/ b.keys # maint[m].keys
        /\ Answered
  /\ TickFailed(m)
  /\ UNCHANGED <<pc, req, loc, reply, quota, credits>>
  /\ UNCHANGED <<inflight, quotaLeft, onChain, rows, handed, fresh>>

\* the instance dies, or only the session that holds its lock does
MaintainerFault(m) ==
  /\ maint[m].pc # "sleep" /\ Failed
  /\ tickLock' = IF tickLock = m THEN None ELSE tickLock
  /\ \/ /\ maint' = [maint EXCEPT ![m] = Asleep]
        /\ batchSize' = [batchSize EXCEPT ![m] = [i \in DOMAIN PoolDims |-> BatchMax]]
        /\ finalized' = [finalized EXCEPT ![m] = None]
     \/ tickLock = m /\ UNCHANGED <<maint, batchSize, finalized>>
  /\ UNCHANGED <<pc, req, loc, reply, quota, credits>>
  /\ UNCHANGED <<inflight, quotaLeft, onChain, rows, handed, fresh>>

-----------------------------------------------------------------------------
(* POST /invitation-ticket/claim. *)

ClaimRequests ==
       [flawed : {FALSE}, header : {GoodBearer}, body : {TRUE}, dim : Dims]
  \cup [flawed : {TRUE}, header : BadBearers, body : {TRUE}, dim : {PoolDims[1]}]
  \cup [flawed : {TRUE}, header : {GoodBearer}, body : {FALSE}, dim : {PoolDims[1]}]

ClaimArrives(c) ==
  \E in \in ClaimRequests :
    /\ Arrive(c, in)
    /\ IF AuthRejection(ServiceKeys, in.header) # None
         THEN Finish(c, "Unauthorized") /\ NoCharge
       ELSE IF ~in.body THEN Finish(c, "BadRequest") /\ NoCharge
       ELSE LET k == in.header.token.sub
                paid == Payment(k) IN
            /\ Charge(k, paid)
            /\ IF paid = None THEN Finish(c, "RateLimited")
               ELSE Suspend(c, in, "precheck", [tries |-> 0, key |-> None])
    /\ UNCHANGED inviteVars

\* an infrastructure error is retried, then surfaced as a 500
RetryDb(c, again) ==
  IF loc[c].tries < DbRetries THEN Goto(c, again, [loc[c] EXCEPT !.tries = @ + 1])
  ELSE Finish(c, "Internal")

PreCheck(c) ==
  /\ pc[c] = "precheck" /\ NoCharge
  /\ \/ /\ Answered
        /\ IF Available(req[c].dim) = {} THEN Finish(c, "PoolExhausted")
           ELSE Goto(c, "select", [tries |-> 0, key |-> None])
     \/ Failed /\ RetryDb(c, "precheck")
  /\ UNCHANGED inviteVars

RowLocked(t) == \E d \in Conns : pc[d] = "update" /\ loc[d].key = t

\* FOR UPDATE SKIP LOCKED on the oldest available row
Candidate(d) == {t \in Available(d) : ~RowLocked(t)}
Oldest(ts) == CHOOSE t \in ts : \A u \in ts : t <= u

SelectOldest(c) ==
  LET ts == Candidate(req[c].dim) IN
  /\ pc[c] = "select" /\ NoCharge
  /\ \/ /\ Answered
        /\ IF ts = {} THEN Finish(c, "TicketRaceLost")
           ELSE Goto(c, "update", [loc[c] EXCEPT !.key = Oldest(ts)])
     \/ Failed /\ RetryDb(c, "select")
  /\ UNCHANGED inviteVars

Claimed(t) == rows' = [rows EXCEPT ![t].state = "claimed"]

\* the flip commits, fails, or commits without its answer arriving: the retry
\* then claims a second key
CommitClaim(c) ==
  /\ pc[c] = "update" /\ NoCharge
  /\ \/ Answered /\ Claimed(loc[c].key) /\ Goto(c, "sign", [loc[c] EXCEPT !.tries = 0])
     \/ Failed /\ UNCHANGED rows /\ RetryDb(c, "select")
     \/ Failed /\ Claimed(loc[c].key) /\ RetryDb(c, "select")
  /\ UNCHANGED <<maint, batchSize, tickLock, inflight, finalized, quotaLeft, onChain,
                 handed, fresh>>

\* sign, count what is left, answer
AnswerClaim(c) ==
  /\ pc[c] = "sign" /\ NoCharge
  /\ \/ /\ Answered /\ Finish(c, "claimed")
        /\ handed' = [handed EXCEPT ![loc[c].key] = @ + 1]
     \/ Failed /\ RetryDb(c, "sign") /\ UNCHANGED handed
  /\ UNCHANGED <<maint, batchSize, tickLock, inflight, finalized, quotaLeft, onChain,
                 rows, fresh>>

\* a handler dropped in its transaction rolls back, unless the commit was sent
ClaimDropped(c) ==
  /\ Drop(c)
  /\ IF pc[c] = "update" THEN UNCHANGED rows \/ Claimed(loc[c].key) ELSE UNCHANGED rows
  /\ UNCHANGED <<maint, batchSize, tickLock, inflight, finalized, quotaLeft, onChain,
                 handed, fresh>>

\* time matters to this role only through the limiter
InviteTick == (\E k \in Keys : quota[k] < MaxBurst) /\ Tick /\ UNCHANGED inviteVars

InviteNext ==
  \/ \E m \in Maintainers :
       \/ AcquireTickLock(m) \/ CountAndPlan(m) \/ SubmitBatch(m) \/ BatchFinalized(m)
       \/ InsertAvailable(m) \/ TickError(m) \/ MaintainerFault(m)
  \/ ChainFinalizes
  \/ \E c \in Conns :
       \/ ClaimArrives(c) \/ PreCheck(c) \/ SelectOldest(c) \/ CommitClaim(c)
       \/ AnswerClaim(c) \/ ClaimDropped(c)
  \/ InviteTick

-----------------------------------------------------------------------------
\* keys a claim handler holds between its commit and its answer
InHandler == {loc[c].key : c \in {d \in Conns : pc[d] = "sign"}}

\* keys a maintainer still has the seeds of
Held(m) == {maint[m].keys[n] : n \in DOMAIN maint[m].keys}
HeldKeys ==
  UNION {Held(m) : m \in {w \in Maintainers : maint[w].pc \in {"submit", "watch", "insert"}}}

\* registered keys nobody has: neither a row nor the seed is left
SeedsLost == {t \in Tickets : /\ \E e \in onChain : e[1] = t
                              /\ rows[t] = None /\ t \notin HeldKeys}

\* Tickets are accounted for: every row's key is registered on chain for the
\* row's own pool, no key is handed out twice or while still available, every
\* claimed key was handed out, is in its handler, or cost a fault, a fault costs
\* at most one batch of registered keys, whenever that batch lands, and while
\* nothing has failed no pool exceeds its target.
TicketsAccounted == role = "invite" =>
  /\ \A t \in Tickets : rows[t] # None => <<t, rows[t].dim>> \in onChain
  /\ \A t \in Tickets : handed[t] > 0 => handed[t] = 1 /\ rows[t].state = "claimed"
  /\ Cardinality({t \in Tickets : /\ rows[t] # None /\ rows[t].state = "claimed"
                                  /\ handed[t] = 0 /\ t \notin InHandler}) <= faults
  /\ Cardinality(SeedsLost) <= BatchMax * faults
  /\ faults = 0 => \A d \in Dims : Cardinality(Available(d)) <= Target

\* Handlers, ticket rows, the maintainers' lock and the invite quotas have their
\* type, and every maintainer's batch size stays between one and the configured
\* maximum.
InviteTypeOK == role = "invite" =>
  /\ pc \in [Conns -> {"idle", "precheck", "select", "update", "sign"}]
  /\ rows \in [Tickets -> {None} \cup TicketRow]
  /\ tickLock \in Maintainers \cup {None}
  /\ batchSize \in [Maintainers -> [DOMAIN PoolDims -> 1..BatchMax]]
  /\ \A d \in Dims : quotaLeft[d] \in 0..Invites[d]
  /\ fresh \in 1..(MaxTickets + 1)
=============================================================================

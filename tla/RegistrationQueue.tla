-------------------------- MODULE RegistrationQueue --------------------------
(***************************************************************************)
(* The registration queue in front of the outbox (queue.rs): claims that   *)
(* wait as QUEUED rows in one of four balance-priority groups, the         *)
(* advancers that refresh the groups and promote up to four rows per       *)
(* iteration, their lease, the drain estimate a waiting client is told,    *)
(* and the janitor that empties the queue once it is retired.              *)
(*                                                                         *)
(* A promotion is one SQL statement that locks the row it picks and then   *)
(* commits; the two are separate steps here, because a second advancer may *)
(* run its own statement in between.  Nothing an advancer writes is        *)
(* guarded by its lease.  Time is abstract, as in ChainWriter.             *)
(***************************************************************************)
EXTENDS Naturals, FiniteSets

CONSTANTS
    Claims,      \* claims, numbered in (created_at, id) order
    Account,     \* the account each claim belongs to
    Balances,    \* the free balances an account may have, in DOT
    Advancers,   \* registration-queue processes, each with a holder id of its own
    NoOne,       \* stands for "no advancer"
    Retires,     \* whether the operator retires the queue
    Faults,      \* the kinds of fault that may happen
    MaxFaults,   \* bound: how many faults happen in one behaviour
    MaxMoves,    \* bound: how many times a balance changes
    MaxEpoch     \* bound: how many times the lease is acquired

Accounts == {Account[c] : c \in Claims}
Groups   == 1..4
SlotsPerIteration == 4

FaultKinds == {"expire", "crash", "intake", "read", "refresh", "advance"}

ASSUME ClaimsAssumption == /\ Claims \subseteq Nat \ {0}
                           /\ IsFiniteSet(Claims)
                           /\ DOMAIN Account = Claims
ASSUME AdvancersAssumption == NoOne \notin Advancers
ASSUME QueueBounds == /\ Balances \subseteq Nat
                      /\ Retires \in BOOLEAN
                      /\ Faults \subseteq FaultKinds
                      /\ MaxFaults \in Nat
                      /\ MaxMoves \in Nat
                      /\ MaxEpoch \in Nat

VARIABLES
    \* The database.
    row,       \* NONE, CHECKED (intake has chosen a group), QUEUED, RESERVED, TAKEN by the writer
    group,     \* queue_group of every claim
    lease,     \* the registration-queue-advancer row of writer_lease
    \* The People chain, and the operator.
    balance,   \* free balance of every account
    enabled,   \* QUEUE_ENABLED
    \* The advancers.
    pc, epoch,
    slot,      \* the slot being served
    hand,      \* the row its open statement has picked and locked
    unread,    \* accounts of this refresh whose balance is still to be read
    fresh,     \* the group read for an account and not written yet (0: none)
    \* Bookkeeping.
    faults, moves,
    passed,    \* ghost: iterations that completed over a claim's head
    witness,   \* ghost: the claims the last slot of an iteration chose from
    quote      \* ghost: what the queue told every claim when the iteration began

db      == <<row, group>>
world   == <<balance, enabled, moves>>
process == <<pc, epoch, slot, hand, unread, fresh>>
ghosts  == <<passed, witness, quote>>
vars    == <<db, lease, world, process, faults, ghosts>>

--------------------------------------------------------------------------------
(* Values.                                                                 *)

PCs == {"acquire", "sleep", "read", "update", "pick", "commit", "stopped"}
Working == {"read", "update", "pick", "commit"}

\* group_for_balance, in whole DOT.
GroupForBalance(dot) == IF dot >= 1000 THEN 4
                        ELSE IF dot >= 100 THEN 3
                        ELSE IF dot >= 10 THEN 2
                        ELSE 1

Queued == {c \in Claims : row[c] = "QUEUED"}
Left   == {c \in Claims : row[c] \in {"RESERVED", "TAKEN"}}
First(S) == {c \in S : \A d \in S : c <= d}

NoReads == [a \in Accounts |-> 0]
NoQuote == [by |-> NoOne, told |-> <<>>]

Fault(kind) == /\ kind \in Faults
               /\ faults < MaxFaults
               /\ faults' = faults + 1
NoFault == UNCHANGED faults

--------------------------------------------------------------------------------
(* The drain estimate (drain_estimate): a simulation over a snapshot.      *)

\* Slot k serves the groups from 5 - k up.
MinGroup(k) == 5 - k

\* The earliest of the heads of the eligible groups.
SimPick(S, g, k) ==
    First({c \in S : /\ g[c] >= MinGroup(k)
                     /\ \A d \in S : g[d] = g[c] => c <= d})

\* The claims left after each slot of the simulation, and the slot that takes c.
SimLeft(S, g) ==
    LET left[t \in 0..(SlotsPerIteration * Cardinality(S))] ==
          IF t = 0 THEN S
          ELSE left[t - 1] \ SimPick(left[t - 1], g, ((t - 1) % SlotsPerIteration) + 1)
    IN  left

\* Variant: the last iteration of the simulation is not run.
DrainEstimateShort(S, g, c) ==
    LET left  == SimLeft(S, g)
        taken == CHOOSE t \in 1..(SlotsPerIteration * Cardinality(S)) :
                    c \in left[t - 1] /\ c \notin left[t]
    IN  [position |-> Cardinality(S) - Cardinality(left[taken]),
         iterations |-> (taken \div SlotsPerIteration) + 1]

DrainEstimate(S, g, c) ==
    LET left  == SimLeft(S, g)
        taken == CHOOSE t \in 1..(SlotsPerIteration * Cardinality(S)) :
                    c \in left[t - 1] /\ c \notin left[t]
    IN  [position |-> Cardinality(S) - Cardinality(left[taken]),
         iterations |-> ((taken - 1) \div SlotsPerIteration) + 1]

\* What the status route would tell every waiting claim now.
Standing(S, g) == [c \in S |-> DrainEstimate(S, g, c)]

--------------------------------------------------------------------------------
(* Intake (usernames/register.rs, intake_group).                           *)

\* The balance is read before the row is inserted; a read that fails, or takes
\* too long, leaves the claim in group 1.
IntakeGroup(c) ==
    /\ row[c] = "NONE"
    /\ enabled
    /\ \/ group' = [group EXCEPT ![c] = GroupForBalance(balance[Account[c]])] /\ NoFault
       \/ group' = [group EXCEPT ![c] = 1] /\ Fault("intake")
    /\ row' = [row EXCEPT ![c] = "CHECKED"]
    /\ UNCHANGED <<lease, world, process, ghosts>>

\* created_at is the start of the inserting transaction, so a row may appear
\* ahead of rows that are already visible.
Enqueue(c) ==
    /\ row[c] = "CHECKED"
    /\ row'   = [row EXCEPT ![c] = "QUEUED"]
    /\ quote' = NoQuote
    /\ NoFault
    /\ UNCHANGED <<group, lease, world, process, passed, witness>>

\* With the queue off the claim goes straight to the writer.
ReserveDirectly(c) ==
    /\ row[c] = "NONE"
    /\ ~enabled
    /\ row' = [row EXCEPT ![c] = "RESERVED"]
    /\ NoFault
    /\ UNCHANGED <<group, lease, world, process, ghosts>>

\* The chain writer marks a RESERVED row: from here the row is its own.
WriterTakes(c) ==
    /\ row[c] = "RESERVED"
    /\ row' = [row EXCEPT ![c] = "TAKEN"]
    /\ NoFault
    /\ UNCHANGED <<group, lease, world, process, ghosts>>

BalanceMoves(a) ==
    /\ moves < MaxMoves
    /\ \E b \in Balances \ {balance[a]} : balance' = [balance EXCEPT ![a] = b]
    /\ moves' = moves + 1
    /\ NoFault
    /\ UNCHANGED <<db, lease, enabled, process, ghosts>>

--------------------------------------------------------------------------------
(* The advancer's lease.                                                   *)

LeaseHeld(a) == /\ lease.age = "live"
                /\ lease.holder = a
                /\ lease.epoch = epoch[a]

\* Between two iterations nothing is in hand.
Idle(a, to) == /\ pc'      = [pc EXCEPT ![a] = to]
               /\ slot'    = [slot EXCEPT ![a] = 1]
               /\ hand'    = [hand EXCEPT ![a] = {}]
               /\ unread'  = [unread EXCEPT ![a] = {}]
               /\ fresh'   = [fresh EXCEPT ![a] = NoReads]
               /\ witness' = [witness EXCEPT ![a] = {}]
               /\ UNCHANGED epoch

\* The rows that some open statement has locked.
Held == UNION {hand[a] : a \in Advancers}

Promoted(S) == [c \in Claims |-> IF c \in S THEN "RESERVED" ELSE row[c]]

\* The groups once account x's UPDATE is in: only its rows that are still QUEUED.
Regrouped(a, x) == [c \in Claims |-> IF Account[c] = x /\ row[c] = "QUEUED"
                                     THEN fresh[a][x] ELSE group[c]]
Unwritten(a) == {x \in Accounts : fresh[a][x] # 0}

\* The groups when a refresh is dropped: the UPDATE that was running ends or not.
GroupsIfDropped(a) ==
    {group} \cup (IF pc[a] = "update" THEN {Regrouped(a, x) : x \in Unwritten(a)} ELSE {})

\* The iteration is dropped with a statement possibly still running: the server
\* finishes it or not.
DropWork(a, to) ==
    /\ \E S \in {{}, hand[a]} : row' = Promoted(S)
    /\ group' \in GroupsIfDropped(a)
    /\ Idle(a, to)
    /\ quote' = NoQuote
    /\ UNCHANGED passed

TryAcquire(a) ==
    /\ pc[a] = "acquire"
    /\ lease.age # "live" \/ lease.holder = a
    /\ lease.epoch < MaxEpoch
    /\ lease' = [holder |-> a, epoch |-> lease.epoch + 1, age |-> "live"]
    /\ epoch' = [epoch EXCEPT ![a] = lease.epoch + 1]
    /\ pc'    = [pc EXCEPT ![a] = "sleep"]
    /\ NoFault
    /\ UNCHANGED <<db, world, slot, hand, unread, fresh, ghosts>>

\* The renewal before each iteration; the refresh starts from the accounts that
\* have a QUEUED row now.
Renew(a) ==
    /\ pc[a] = "sleep"
    /\ \/ /\ LeaseHeld(a)
          /\ unread' = [unread EXCEPT ![a] = {Account[c] : c \in Queued}]
          /\ pc'     = [pc EXCEPT ![a] = "read"]
          /\ UNCHANGED <<epoch, slot, hand, fresh, ghosts>>
       \/ /\ ~LeaseHeld(a)
          /\ Idle(a, "acquire")
          /\ UNCHANGED <<passed, quote>>
    /\ NoFault
    /\ UNCHANGED <<db, lease, world>>

\* A renewal while the iteration works finds the lease gone.
RenewalFails(a) ==
    /\ pc[a] \in Working
    /\ ~LeaseHeld(a)
    /\ DropWork(a, "acquire")
    /\ NoFault
    /\ UNCHANGED <<lease, world>>

\* A crash and restart, or a renewal that errors.
Crash(a) ==
    /\ pc[a] \notin {"acquire", "stopped"}
    /\ Fault("crash")
    /\ DropWork(a, "acquire")
    /\ UNCHANGED <<lease, world>>

\* The lease of a stalled advancer, or of one that is not there any more.
LeaseExpires ==
    /\ lease.age = "live"
    /\ IF pc[lease.holder] = "stopped" THEN NoFault ELSE Fault("expire")
    /\ lease' = [lease EXCEPT !.age = "expired"]
    /\ UNCHANGED <<db, world, process, ghosts>>

\* QUEUE_FALLBACK_AFTER_SECS later.
GracePasses ==
    /\ lease.age = "expired"
    /\ lease' = [lease EXCEPT !.age = "lapsed"]
    /\ NoFault
    /\ UNCHANGED <<db, world, process, ghosts>>

--------------------------------------------------------------------------------
(* One iteration: refresh_groups, then advance_iteration.                  *)

\* Variant: a failed read falls back to group 1, as intake does.
ReadBalanceOpen(a) ==
    \E x \in unread[a] :
      /\ \/ fresh' = [fresh EXCEPT ![a][x] = GroupForBalance(balance[x])] /\ NoFault
         \/ fresh' = [fresh EXCEPT ![a][x] = 1] /\ Fault("read")
      /\ unread' = [unread EXCEPT ![a] = @ \ {x}]
      /\ UNCHANGED <<pc, epoch, slot, hand>>

\* The reads run concurrently and end in any order; one that fails keeps the group.
ReadBalance(a) ==
    \E x \in unread[a] :
      /\ \/ fresh' = [fresh EXCEPT ![a][x] = GroupForBalance(balance[x])] /\ NoFault
         \/ UNCHANGED fresh /\ Fault("read")
      /\ unread' = [unread EXCEPT ![a] = @ \ {x}]
      /\ UNCHANGED <<pc, epoch, slot, hand>>

Read(a) ==
    /\ pc[a] = "read"
    /\ \/ ReadBalance(a)
       \/ /\ unread[a] = {}
          /\ pc' = [pc EXCEPT ![a] = "update"]
          /\ NoFault
          /\ UNCHANGED <<epoch, slot, hand, unread, fresh>>
    /\ UNCHANGED <<db, lease, world, ghosts>>

\* What the queue tells its claims as the slots of a begin to be served, unless
\* another advancer is at work too.
Told(a) == IF Held = {} THEN [by |-> a, told |-> Standing(Queued, group)] ELSE NoQuote

\* One UPDATE per account, in any order.
UpdateGroup(a) ==
    \E x \in Unwritten(a) :
      /\ group' = Regrouped(a, x)
      /\ fresh' = [fresh EXCEPT ![a][x] = 0]
      /\ quote' = NoQuote
      /\ UNCHANGED <<row, pc, epoch, slot, hand, unread, passed, witness>>

Update(a) ==
    /\ pc[a] = "update"
    /\ \/ UpdateGroup(a)
       \/ /\ fresh[a] = NoReads
          /\ pc' = [pc EXCEPT ![a] = "pick"]
          /\ quote' = Told(a)
          /\ UNCHANGED <<db, epoch, slot, hand, unread, fresh, passed, witness>>
    /\ NoFault
    /\ UNCHANGED <<lease, world>>

\* The refresh fails or outlives its deadline: promote with the groups as they are.
RefreshStops(a) ==
    /\ pc[a] \in {"read", "update"}
    /\ Fault("refresh")
    /\ Idle(a, "pick")
    /\ group' \in GroupsIfDropped(a)
    /\ quote' = IF group' = group THEN Told(a) ELSE NoQuote
    /\ UNCHANGED <<row, lease, world, passed>>

\* Variant: one slot too many.
NextSlotLong(a) ==
    IF slot[a] > SlotsPerIteration THEN Idle(a, "sleep")
    ELSE /\ slot' = [slot EXCEPT ![a] = @ + 1]
         /\ pc'   = [pc EXCEPT ![a] = "pick"]
         /\ hand' = [hand EXCEPT ![a] = {}]
         /\ witness' = [witness EXCEPT ![a] = {}]
         /\ UNCHANGED <<epoch, unread, fresh>>

\* On to the next slot, or to the next iteration.
NextSlot(a) ==
    IF slot[a] = SlotsPerIteration THEN Idle(a, "sleep")
    ELSE /\ slot' = [slot EXCEPT ![a] = @ + 1]
         /\ pc'   = [pc EXCEPT ![a] = "pick"]
         /\ hand' = [hand EXCEPT ![a] = {}]
         /\ witness' = [witness EXCEPT ![a] = {}]
         /\ UNCHANGED <<epoch, unread, fresh>>

\* Variant: no row lock, so two statements may pick one row.
EligibleUnlocked(k) == {c \in Queued : group[c] >= MinGroup(k)}

\* The rows a slot may pick: not those another statement has locked.
Eligible(k) == {c \in Queued : group[c] >= MinGroup(k)} \ Held

\* Ghost: the claims that the last slot chooses from, while nobody else does.
Chooses(a) == IF slot[a] = SlotsPerIteration /\ Held = {} THEN Queued ELSE {}

\* Variant: best group first.
PickRichest(a) ==
    /\ pc[a] = "pick"
    /\ \E c \in First({d \in Eligible(slot[a]) : \A e \in Eligible(slot[a]) : group[e] <= group[d]}) :
         hand' = [hand EXCEPT ![a] = {c}]
    /\ witness' = [witness EXCEPT ![a] = Chooses(a)]
    /\ quote' = IF quote.by = a THEN quote ELSE NoQuote
    /\ pc' = [pc EXCEPT ![a] = "commit"]
    /\ NoFault
    /\ UNCHANGED <<db, lease, world, epoch, slot, unread, fresh, passed>>

\* SELECT ... ORDER BY created_at LIMIT 1 FOR UPDATE SKIP LOCKED.
Pick(a) ==
    /\ pc[a] = "pick"
    /\ \E c \in First(Eligible(slot[a])) : hand' = [hand EXCEPT ![a] = {c}]
    /\ witness' = [witness EXCEPT ![a] = Chooses(a)]
    /\ quote' = IF quote.by = a THEN quote ELSE NoQuote
    /\ pc' = [pc EXCEPT ![a] = "commit"]
    /\ NoFault
    /\ UNCHANGED <<db, lease, world, epoch, slot, unread, fresh, passed>>

\* Nobody to serve in this slot.
SkipSlot(a) ==
    /\ pc[a] = "pick"
    /\ Eligible(slot[a]) = {}
    /\ NextSlot(a)
    /\ NoFault
    /\ UNCHANGED <<db, lease, world, passed, quote>>

\* The statement commits.  A claim the last slot had to choose from, and did not
\* choose, has been passed over by this iteration.
Commit(a) ==
    /\ pc[a] = "commit"
    /\ row'    = Promoted(hand[a])
    /\ passed' = [c \in Claims |-> IF c \in witness[a] \ hand[a] THEN passed[c] + 1
                                                                ELSE passed[c]]
    /\ NextSlot(a)
    /\ NoFault
    /\ UNCHANGED <<group, lease, world, quote>>

\* A statement fails: the rest of the iteration is given up.
AdvanceErrs(a) ==
    /\ pc[a] \in {"pick", "commit"}
    /\ Fault("advance")
    /\ DropWork(a, "sleep")
    /\ UNCHANGED <<lease, world>>

--------------------------------------------------------------------------------
(* Retiring the queue.                                                     *)

\* QUEUE_ENABLED=false everywhere; later the advancers are stopped.
Retire == /\ Retires
          /\ enabled
          /\ enabled' = FALSE
          /\ NoFault
          /\ UNCHANGED <<db, lease, balance, moves, process, ghosts>>

Stop(a) == /\ ~enabled
           /\ pc[a] # "stopped"
           /\ DropWork(a, "stopped")
           /\ NoFault
           /\ UNCHANGED <<lease, world>>

\* Variant: the janitor asks whether the advancer was ever there.
JanitorIfAbsent ==
    /\ ~enabled
    /\ lease.age = "absent"
    /\ Queued # {}
    /\ Queued \cap Held = {}
    /\ row'   = Promoted(Queued)
    /\ quote' = NoQuote
    /\ NoFault
    /\ UNCHANGED <<group, lease, world, process, passed, witness>>

\* fallback_drain: one UPDATE, which waits for the rows other statements hold.
Janitor ==
    /\ ~enabled
    /\ lease.age \in {"absent", "lapsed"}
    /\ Queued # {}
    /\ Queued \cap Held = {}
    /\ row'   = Promoted(Queued)
    /\ quote' = NoQuote
    /\ NoFault
    /\ UNCHANGED <<group, lease, world, process, passed, witness>>

--------------------------------------------------------------------------------
Init ==
    /\ row     = [c \in Claims |-> "NONE"]
    /\ group   = [c \in Claims |-> 1]
    /\ lease   = [holder |-> NoOne, epoch |-> 0, age |-> "absent"]
    /\ balance \in [Accounts -> Balances]
    /\ enabled = TRUE
    /\ pc      = [a \in Advancers |-> "acquire"]
    /\ epoch   = [a \in Advancers |-> 0]
    /\ slot    = [a \in Advancers |-> 1]
    /\ hand    = [a \in Advancers |-> {}]
    /\ unread  = [a \in Advancers |-> {}]
    /\ fresh   = [a \in Advancers |-> NoReads]
    /\ faults  = 0
    /\ moves   = 0
    /\ passed  = [c \in Claims |-> 0]
    /\ witness = [a \in Advancers |-> {}]
    /\ quote   = NoQuote

AdvancerStep(a) ==
    \/ TryAcquire(a) \/ Renew(a) \/ Read(a) \/ Update(a)
    \/ Pick(a) \/ SkipSlot(a) \/ Commit(a)

Next ==
    \/ \E a \in Advancers : \/ AdvancerStep(a) \/ RenewalFails(a) \/ RefreshStops(a)
                            \/ AdvanceErrs(a) \/ Crash(a) \/ Stop(a)
    \/ \E c \in Claims : IntakeGroup(c) \/ Enqueue(c) \/ ReserveDirectly(c) \/ WriterTakes(c)
    \/ \E x \in Accounts : BalanceMoves(x)
    \/ LeaseExpires \/ GracePasses \/ Retire \/ Janitor

Spec == Init /\ [][Next]_vars

\* The advancers keep running until they are stopped, a lease nobody renews runs
\* out, and the chain writer keeps running the janitor.
Fairness == /\ \A a \in Advancers : WF_vars(AdvancerStep(a))
            /\ WF_vars(LeaseExpires /\ pc[lease.holder] = "stopped")
            /\ WF_vars(GracePasses)
            /\ WF_vars(Janitor)

FairSpec == Spec /\ Fairness
--------------------------------------------------------------------------------
(* Properties.                                                             *)

\* Every variable has its type.
TypeOK ==
    /\ row \in [Claims -> {"NONE", "CHECKED", "QUEUED", "RESERVED", "TAKEN"}]
    /\ group \in [Claims -> Groups]
    /\ lease \in [holder : Advancers \cup {NoOne}, epoch : Nat,
                  age : {"absent", "live", "expired", "lapsed"}]
    /\ lease.age # "absent" => lease.holder \in Advancers
    /\ balance \in [Accounts -> Balances]
    /\ enabled \in BOOLEAN
    /\ pc \in [Advancers -> PCs]
    /\ epoch \in [Advancers -> Nat]
    /\ slot \in [Advancers -> 1..SlotsPerIteration]
    /\ hand \in [Advancers -> SUBSET Claims]
    /\ unread \in [Advancers -> SUBSET Accounts]
    /\ fresh \in [Advancers -> [Accounts -> 0..4]]
    /\ faults \in Nat /\ moves \in Nat
    /\ passed \in [Claims -> Nat]
    /\ witness \in [Advancers -> SUBSET Claims]

\* Promotion is exactly-once: no statement of an overlapping or abandoned
\* advancer, nor of the janitor, sets a row back to RESERVED after the chain
\* writer has begun to submit it (advance_iteration's claim for SKIP LOCKED: the
\* UPDATE itself never looks at the status it replaces).
PromotedOnce ==
    [][\A c \in Claims : row[c] = "TAKEN" => row'[c] = "TAKEN"]_vars

\* No claim starves, whatever its group: each iteration that ran to its end over
\* a waiting claim has let an earlier claim out, so the claim has been passed
\* over at most as often as there are earlier claims that have left.  Richer
\* claims that keep arriving cannot hold it back: the last slot serves everyone.
BoundedWait ==
    \A c \in Claims : passed[c] <= Cardinality({d \in Left : d < c})

\* The estimate is exact for an undisturbed queue: the claims told "1 iteration"
\* are those the iteration promotes, and the others are then told one iteration
\* less and as many positions less as were promoted.
QuotesHold ==
    \A a \in Advancers : pc[a] = "sleep" /\ quote.by = a =>
      LET told  == quote.told
          gone  == DOMAIN told \cap Left
          after == Standing(Queued, group)
      IN  /\ gone = {c \in DOMAIN told : told[c].iterations = 1}
          /\ \A c \in DOMAIN told \ gone :
               after[c] = [position   |-> told[c].position - Cardinality(gone),
                           iterations |-> told[c].iterations - 1]

\* Only a balance that moved costs a waiting claim its group: a refresh that
\* fails, stops half-way or is late never demotes anybody.
NeverDemoted ==
    [][moves = 0 => \A c \in Queued : group'[c] >= group[c]]_vars

\* The queue never strands a claim: it is promoted although advancers stall,
\* crash and overlap, and although the queue is retired and its advancers are
\* stopped while it waits.
Drains == \A c \in Claims : row[c] = "QUEUED" ~> row[c] \in {"RESERVED", "TAKEN"}

\* The row a statement has picked is locked by it alone, and still QUEUED.
RowsInHand ==
    /\ \A a \in Advancers : hand[a] \subseteq Queued
    /\ \A a, b \in Advancers : a # b => hand[a] \cap hand[b] = {}

\* A statement has one row in hand, and the last slot picks the earliest of the
\* claims it chooses from.
LastSlotServesAll ==
    \A a \in Advancers :
      /\ pc[a] # "commit" => hand[a] = {} /\ witness[a] = {}
      /\ pc[a] = "commit" => \E h \in Claims : hand[a] = {h}
      /\ \A c \in witness[a], h \in hand[a] : h <= c

\* What the open statements promise each other: the inductive part of
\* PromotedOnce and BoundedWait.
PicksAreSound == RowsInHand /\ LastSlotServesAll
================================================================================

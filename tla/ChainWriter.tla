------------------------------ MODULE ChainWriter ------------------------------
(***************************************************************************)
(* The reservation outbox and the device-attestation-chain-writer that     *)
(* drains it: the writer lease, the two lanes of one outbox row (People    *)
(* and dotNS), the startup reconcile, the drain pass of the generic engine *)
(* and the guarded row updates it records, run by several writer processes *)
(* that may stall, crash and overlap.  The chains are external: a          *)
(* submitted call may be refused, land, fail, or land after everybody      *)
(* stopped watching it.                                                    *)
(*                                                                         *)
(* Time is abstract: a lease or a not_before runs out in a step of its     *)
(* own.  Every step that goes wrong spends one unit of the fault budget.   *)
(***************************************************************************)
EXTENDS Naturals, FiniteSets

CONSTANTS
    Writers,         \* writer processes (normally one; two during a deploy overlap)
    Holder,          \* the holder id each process is configured with
    Rows,            \* outbox rows, numbered in created_at order
    Candidate,       \* the candidate account of each row
    Device,          \* the Widevine device of each row, or NoDevice
    NoDevice,
    DotnsRows,       \* rows that carry a dotns block
    BatchMax,        \* upper bound of the adaptive claim size, per lane
    MaxAttempts,     \* CHAIN_WRITER_MAX_ATTEMPTS
    ReconcileChunk,  \* RECONCILE_READ_CHUNK
    Faults,          \* the kinds of fault that may happen
    MaxFaults,       \* bound: how many faults happen in one behaviour
    MaxEpoch         \* bound: how many times the lease is acquired

Lanes == {"people", "dotns"}
Devices == {Device[r] : r \in Rows} \ {NoDevice}

FaultKinds == {"expire", "crash", "reconcile", "link", "ctx", "gate", "owners", "nonce",
               "sign", "mark", "refuse", "timeout", "transport", "dispatch", "events",
               "whole", "mismatch", "unread", "taken"}

ASSUME RowsAssumption == Rows \subseteq Nat \ {0} /\ IsFiniteSet(Rows)
ASSUME RowAttributes == /\ DotnsRows \subseteq Rows
                        /\ DOMAIN Candidate = Rows
                        /\ DOMAIN Device = Rows
                        /\ DOMAIN Holder = Writers
ASSUME BoundsAssumption == /\ BatchMax \in [Lanes -> Nat \ {0}]
                           /\ MaxAttempts \in Nat
                           /\ ReconcileChunk \in Nat \ {0}
                           /\ MaxFaults \in Nat
                           /\ MaxEpoch \in Nat
                           /\ Faults \subseteq FaultKinds

VARIABLES
    \* The database.
    status,     \* status and dotns_status of every row ("NULL": no value)
    attempt,    \* attempt and dotns_attempt
    due,        \* whether not_before / dotns_not_before has passed
    device,     \* widevine_devices, by device
    lease,      \* the writer_lease row
    \* The chains.
    owner,      \* who owns each row's name: nobody, its candidate, another account
    inflight,   \* calls in a node's pool that no writer watches any more
    \* The writer processes.
    pc, epoch, lane,
    batch,      \* rows still to be submitted by this pass
    snap,       \* each row's attempt as the writer read it
    todo,       \* rows of the current loop not yet handled
    fate,       \* per row: the chain's answer, then the outcome to record
    after,      \* where to go once every outcome is recorded
    \* Bookkeeping.
    faults,     \* faults so far
    blame       \* ghost: what happened to each row on its own account, by cause

db     == <<status, attempt, due, device>>
chain  == <<owner, inflight>>
local  == <<batch, snap, todo, fate, after>>
writer == <<pc, epoch, lane, local>>
vars   == <<db, lease, chain, writer, faults, blame>>

--------------------------------------------------------------------------------
(* Values.                                                                 *)

PeopleStatus == {"NULL", "QUEUED", "RESERVED", "SUBMITTING", "ASSIGNED",
                 "RETRY_AFTER", "FAILED_TERMINAL"}
DotnsStatus  == {"NULL", "PENDING", "SUBMITTING", "RESERVED", "RETRY_AFTER",
                 "FAILED_TERMINAL", "EXPIRED", "ABANDONED"}
StatusOf(l)  == IF l = "people" THEN PeopleStatus ELSE DotnsStatus

\* The status a row enters its lane with, those it waits for an outcome in, the
\* one a confirmed call leaves, and the final ones.
Fresh(l)    == IF l = "people" THEN "RESERVED" ELSE "PENDING"
Waiting(l)  == {Fresh(l), "SUBMITTING", "RETRY_AFTER"}
Done(l)     == IF l = "people" THEN "ASSIGNED" ELSE "RESERVED"
Terminal(l) == IF l = "people" THEN {"ASSIGNED", "FAILED_TERMINAL"}
                               ELSE {"RESERVED", "FAILED_TERMINAL", "EXPIRED", "ABANDONED"}

\* Why a submission failed, as classify_submit_failure tells the texts apart.
Reasons  == {"alreadyRegistered", "unfunded", "contention", "deterministic", "other"}
Outcomes == {"Landed", "Observed", "Retry", "Park", "Defer", "Failed", "Expired"}
Fates    == {"none", "ok"} \cup Reasons \cup Outcomes

PCs == {"acquire", "reconcile", "reconOwners", "beat", "claim", "hold", "triage",
        "owners", "submit", "mark", "broadcast", "await", "settle", "rebatch",
        "record", "next"}

NoFate == [r \in Rows |-> "none"]
NoSnap == [r \in Rows |-> 0]
Decided(w) == {r \in Rows : fate[w][r] # "none"}
FateOn(S, f) == [r \in Rows |-> IF r \in S THEN f ELSE "none"]

\* The n rows of S that were created first, and the very first of them.
Earliest(S, n) == {r \in S : Cardinality({s \in S : s < r}) < n}
First(S) == {r \in S : \A s \in S : r <= s}

Fault(kind) == /\ kind \in Faults
               /\ faults < MaxFaults
               /\ faults' = faults + 1
NoFault == UNCHANGED faults

--------------------------------------------------------------------------------
(* The lease (chain/lease.rs) and the guard of every outbox write.         *)

\* A variant of the guard: any live lease under our holder id will do.
LeaseHeldByName(w) == lease.live /\ lease.holder = Holder[w]

\* LEASE_HELD and fence: the row still names this holder at this epoch, unexpired.
LeaseHeld(w) == /\ lease.live
                /\ lease.holder = Holder[w]
                /\ lease.epoch = epoch[w]

\* Drop whatever the process was doing and go back to acquire_lease.
Forget(w) == /\ pc'    = [pc EXCEPT ![w] = "acquire"]
             /\ batch' = [batch EXCEPT ![w] = {}]
             /\ snap'  = [snap EXCEPT ![w] = NoSnap]
             /\ todo'  = [todo EXCEPT ![w] = {}]
             /\ fate'  = [fate EXCEPT ![w] = NoFate]
             /\ after' = [after EXCEPT ![w] = "next"]
             /\ UNCHANGED <<epoch, lane>>

\* A guarded statement touched no row: LeaseLost ends the active loop.
LeaseLost(w) == /\ ~LeaseHeld(w)
                /\ Forget(w)
                /\ NoFault
                /\ UNCHANGED <<db, lease, chain, blame>>

\* Variants of try_acquire: one that keeps the epoch of the lease it takes over,
\* and one whose caller goes straight to work.
TryAcquireSameEpoch(w) ==
    /\ pc[w] = "acquire"
    /\ ~lease.live \/ lease.holder = Holder[w]
    /\ lease.epoch < MaxEpoch
    /\ \E e \in {IF lease.epoch = 0 THEN 1 ELSE lease.epoch} :
         /\ lease' = [holder |-> Holder[w], epoch |-> e, live |-> TRUE]
         /\ epoch' = [epoch EXCEPT ![w] = e]
    /\ lane'  = [lane EXCEPT ![w] = "people"]
    /\ pc'    = [pc EXCEPT ![w] = "reconcile"]
    /\ NoFault
    /\ UNCHANGED <<db, chain, local, blame>>

TryAcquireNoReconcile(w) ==
    /\ pc[w] = "acquire"
    /\ ~lease.live \/ lease.holder = Holder[w]
    /\ lease.epoch < MaxEpoch
    /\ lease' = [holder |-> Holder[w], epoch |-> lease.epoch + 1, live |-> TRUE]
    /\ epoch' = [epoch EXCEPT ![w] = lease.epoch + 1]
    /\ pc'    = [pc EXCEPT ![w] = "beat"]
    /\ NoFault
    /\ UNCHANGED <<db, chain, lane, local, blame>>

\* try_acquire: an absent or expired lease, or one already under our own holder
\* id, is taken at the next epoch.
TryAcquire(w) ==
    /\ pc[w] = "acquire"
    /\ ~lease.live \/ lease.holder = Holder[w]
    /\ lease.epoch < MaxEpoch
    /\ lease' = [holder |-> Holder[w], epoch |-> lease.epoch + 1, live |-> TRUE]
    /\ epoch' = [epoch EXCEPT ![w] = lease.epoch + 1]
    /\ lane'  = [lane EXCEPT ![w] = "people"]
    /\ pc'    = [pc EXCEPT ![w] = "reconcile"]
    /\ NoFault
    /\ UNCHANGED <<db, chain, local, blame>>

\* expires_at passes without a renewal.
LeaseExpires ==
    /\ lease.live
    /\ lease' = [lease EXCEPT !.live = FALSE]
    /\ Fault("expire")
    /\ UNCHANGED <<db, chain, writer, blame>>

\* active_loop renews first, and gives up when the renewal touches no row.
Heartbeat(w) ==
    /\ pc[w] = "beat"
    /\ \/ /\ LeaseHeld(w)
          /\ pc'   = [pc EXCEPT ![w] = "claim"]
          /\ lane' = [lane EXCEPT ![w] = "people"]
          /\ NoFault
          /\ UNCHANGED <<db, lease, chain, epoch, local, blame>>
       \/ LeaseLost(w)

\* The pools once the calls for rows S are in one of them with nobody watching.
Unwatched(l, S) ==
    [inflight EXCEPT ![l] = [r \in Rows |-> IF r \in S THEN @[r] + 1 ELSE @[r]]]

\* A crash and restart, or a database error that ends the active loop.  What
\* was being watched stays in the pool.
Abandon(w) ==
    /\ pc[w] # "acquire"
    /\ inflight' = IF pc[w] = "await" THEN Unwatched(lane[w], batch[w]) ELSE inflight
    /\ Forget(w)
    /\ Fault("crash")
    /\ UNCHANGED <<db, lease, owner, blame>>

--------------------------------------------------------------------------------
(* The outbox row (chain/outbox.rs, widevine/store.rs).                    *)

\* Variants of the claim: dotNS rows of any claim, and rows never submitted only.
DueBehindAny(l) == {r \in Rows : \/ status[l][r] = Fresh(l)
                                 \/ status[l][r] = "RETRY_AFTER" /\ due[l][r]}
DueFreshOnly(l) == {r \in Rows : /\ l = "dotns" => status["people"][r] = "ASSIGNED"
                                 /\ status[l][r] = Fresh(l)}

\* The rows claim_due and claim_dotns_due return.
Due(l) == {r \in Rows :
             /\ l = "dotns" => status["people"][r] = "ASSIGNED"
             /\ \/ status[l][r] = Fresh(l)
                \/ status[l][r] = "RETRY_AFTER" /\ due[l][r]}

\* A variant that leaves the dotNS half open.
ClosesNothing(r) == FALSE

\* FAILED_TERMINAL on People also closes an open dotNS half.
ClosesDotns(r) == status["dotns"][r] \in {"PENDING", "RETRY_AFTER"}

SetStatus(l, r, s) ==
    status' = IF l = "people" /\ s = "FAILED_TERMINAL" /\ ClosesDotns(r)
              THEN [status EXCEPT !["people"][r] = s, !["dotns"][r] = "ABANDONED"]
              ELSE [status EXCEPT ![l][r] = s]

\* A variant that forgets to release.
ConsumeOnly(l, r, state) ==
    device' = [d \in Devices |->
                 IF /\ l = "people" /\ state = "CONSUMED"
                    /\ device[d] = [state |-> "PENDING", row |-> r]
                 THEN [state |-> state, row |-> 0]
                 ELSE device[d]]

\* consume_for_reservation and release_for_reservation.
SetDevice(l, r, state) ==
    device' = [d \in Devices |->
                 IF l = "people" /\ device[d] = [state |-> "PENDING", row |-> r]
                 THEN [state |-> state, row |-> 0]
                 ELSE device[d]]

\* Variants of the charge: everything pays, and a deferral refunds the attempt
\* of the mark instead of writing back what was read.
EverythingPays(a, outcome) == a + 1
DeferRefunds(a, outcome) == IF outcome = "Retry" THEN a + 1 ELSE a - 1

\* The attempt a row goes back to the queue with.
AttemptAfter(a, outcome) == IF outcome = "Retry" THEN a + 1 ELSE a

\* Lane::record for one row, whose attempt the writer read as a.
RecordOutcome(l, r, a, outcome) ==
    \/ /\ outcome \in {"Landed", "Observed"}
       /\ SetStatus(l, r, Done(l))
       /\ SetDevice(l, r, "CONSUMED")
       /\ UNCHANGED <<attempt, due>>
    \/ /\ outcome \in {"Retry", "Park", "Defer"}
       /\ SetStatus(l, r, "RETRY_AFTER")
       /\ attempt' = [attempt EXCEPT ![l][r] = AttemptAfter(a, outcome)]
       /\ due'     = [due EXCEPT ![l][r] = FALSE]
       /\ UNCHANGED device
    \/ /\ outcome = "Failed" \/ (outcome = "Expired" /\ l = "people")
       /\ SetStatus(l, r, "FAILED_TERMINAL")
       /\ SetDevice(l, r, "FREE")
       /\ UNCHANGED <<attempt, due>>
    \/ /\ outcome = "Expired" /\ l = "dotns"
       /\ SetStatus(l, r, "EXPIRED")
       /\ UNCHANGED <<attempt, due, device>>

\* One guarded statement (or fenced transaction), for the first undone outcome.
RecordNext(w) ==
    /\ LeaseHeld(w)
    /\ \E r \in First(Decided(w)) :
         /\ RecordOutcome(lane[w], r, snap[w][r], fate[w][r])
         /\ fate' = [fate EXCEPT ![w][r] = "none"]
         /\ pc'   = [pc EXCEPT ![w] = IF Decided(w) = {r} THEN after[w] ELSE "record"]
    /\ NoFault
    /\ UNCHANGED <<lease, chain, epoch, lane, batch, snap, todo, after, blame>>

\* A statement that fails during the startup reconcile ends the reconcile of
\* that lane, and nothing else.
ReconcileErrs(w) ==
    /\ after[w] = "reconOwners"
    /\ Fault("reconcile")
    /\ fate' = [fate EXCEPT ![w] = NoFate]
    /\ todo' = [todo EXCEPT ![w] = {}]
    /\ pc'   = [pc EXCEPT ![w] = "reconOwners"]
    /\ UNCHANGED <<db, lease, chain, epoch, lane, batch, snap, after, blame>>

\* Record the decided outcomes one at a time, in claim order.
Record(w) == pc[w] = "record" /\ (RecordNext(w) \/ ReconcileErrs(w) \/ LeaseLost(w))

\* A claim is accepted: the row and its device record are inserted together, or
\* not at all when the device is already recorded.
Reserve(r) ==
    /\ status["people"][r] = "NULL"
    /\ Device[r] # NoDevice => device[Device[r]].state = "FREE"
    /\ \E s \in {"QUEUED", "RESERVED"} :
         status' = [status EXCEPT !["people"][r] = s,
                                  !["dotns"][r] = IF r \in DotnsRows THEN "PENDING" ELSE "NULL"]
    /\ device' = [d \in Devices |-> IF d = Device[r] THEN [state |-> "PENDING", row |-> r]
                                                     ELSE device[d]]
    /\ NoFault
    /\ UNCHANGED <<attempt, due, lease, chain, writer, blame>>

\* The queue's advancer, or the janitor, promotes a queued claim.
Promote(r) ==
    /\ status["people"][r] = "QUEUED"
    /\ status' = [status EXCEPT !["people"][r] = "RESERVED"]
    /\ NoFault
    /\ UNCHANGED <<attempt, due, device, lease, chain, writer, blame>>

BackoffElapses(l, r) ==
    /\ status[l][r] = "RETRY_AFTER"
    /\ ~due[l][r]
    /\ due' = [due EXCEPT ![l][r] = TRUE]
    /\ NoFault
    /\ UNCHANGED <<status, attempt, device, lease, chain, writer, blame>>

--------------------------------------------------------------------------------
(* What the runtimes answer to one call (external).                        *)

\* The candidate of row r already is a lite person, under whichever name.
Registered(r) == \E s \in Rows : /\ Candidate[s] = Candidate[r]
                                 /\ owner["people"][s] = "candidate"

\* The results the call for row r can have, given those of the calls before it
\* in the same extrinsic.
Results(l, calls, res, r) ==
    LET registered == /\ l = "people"
                      /\ \/ Registered(r)
                         \/ \E s \in calls : /\ s < r
                                             /\ Candidate[s] = Candidate[r]
                                             /\ res[s] = "ok"
        free == owner[l][r] = "none"
    IN  IF registered THEN {"alreadyRegistered"}
        ELSE IF free THEN {"ok", "other"} \cup (IF l = "people" THEN {"deterministic"} ELSE {})
        ELSE {"other"}

\* The call could have succeeded and did not.
Unforced(l, calls, res, r) == /\ res[r] # "ok"
                              /\ "ok" \in Results(l, calls, res, r)

\* Ghost: what may cost a row an attempt.  The chain's answer about its own call
\* reached the writer; it was the whole extrinsic, and the submission failed
\* before there was an answer; or a successor found it SUBMITTING and unlanded.
Causes == {"verdict", "lone", "interrupted"}
Blamed(cause, l, S) ==
    [blame EXCEPT ![cause][l] = [r \in Rows |-> IF r \in S THEN @[r] + 1 ELSE @[r]]]

--------------------------------------------------------------------------------
(* Moves of one writer's local state.                                      *)

\* Record the outcome of every row that has one, then go to `then' with the
\* rows `rest' still in hand.
Decide(w, outcome, rest, then) ==
    /\ fate'  = [fate EXCEPT ![w] = outcome]
    /\ batch' = [batch EXCEPT ![w] = rest]
    /\ pc'    = [pc EXCEPT ![w] = IF outcome = NoFate THEN then ELSE "record"]
    /\ after' = [after EXCEPT ![w] = then]

\* retry_batch and defer_reconciled: every row in hand waits, at its own attempt.
DeferAll(w) == /\ Decide(w, FateOn(batch[w], "Defer"), {}, "next")
               /\ todo' = [todo EXCEPT ![w] = {}]
               /\ UNCHANGED <<epoch, lane, snap>>

Go(w, to) == /\ pc' = [pc EXCEPT ![w] = to]
             /\ UNCHANGED <<epoch, lane, local>>

--------------------------------------------------------------------------------
(* Startup reconcile (engine.rs reconcile_submitting): People, then dotNS.  *)

ReconcileNext(w) ==
    /\ lane' = [lane EXCEPT ![w] = "dotns"]
    /\ pc'   = [pc EXCEPT ![w] = IF lane[w] = "people" THEN "reconcile" ELSE "beat"]
    /\ snap' = [snap EXCEPT ![w] = NoSnap]
    /\ todo' = [todo EXCEPT ![w] = {}]
    /\ UNCHANGED <<epoch, batch, fate, after>>

\* Read the SUBMITTING rows.  A parked dotNS link skips the lane.
Reconcile(w) ==
    /\ pc[w] = "reconcile"
    /\ LET stuck == {r \in Rows : status[lane[w]][r] = "SUBMITTING"} IN
         \/ /\ stuck = {}
            /\ ReconcileNext(w)
            /\ NoFault
         \/ /\ lane[w] = "dotns"
            /\ Fault("link")
            /\ ReconcileNext(w)
         \/ /\ stuck # {}
            /\ todo' = [todo EXCEPT ![w] = stuck]
            /\ snap' = [snap EXCEPT ![w] =
                           [r \in Rows |-> IF r \in stuck THEN attempt[lane[w]][r] ELSE 0]]
            /\ pc'   = [pc EXCEPT ![w] = "reconOwners"]
            /\ NoFault
            /\ UNCHANGED <<epoch, lane, batch, fate, after>>
    /\ UNCHANGED <<db, lease, chain, blame>>

\* One owner read per chunk.  Owned by the candidate: landed; otherwise back
\* to the queue.
ReadChunk(w) ==
    LET chunk == Earliest(todo[w], ReconcileChunk) IN
    /\ todo[w] # {}
    /\ Decide(w, [r \in Rows |-> IF r \notin chunk THEN "none"
                                 ELSE IF owner[lane[w]][r] = "candidate" THEN "Observed"
                                 ELSE "Retry"], {}, "reconOwners")
    /\ todo'  = [todo EXCEPT ![w] = @ \ chunk]
    /\ blame' = Blamed("interrupted", lane[w],
                       {r \in chunk : owner[lane[w]][r] # "candidate"})
    /\ NoFault
    /\ UNCHANGED <<epoch, lane, snap>>

\* A chunk that cannot be read stays SUBMITTING, and so does everything left
\* when the reconcile itself errors.
SkipChunk(w) ==
    /\ todo[w] # {}
    /\ Fault("reconcile")
    /\ \E left \in {todo[w] \ Earliest(todo[w], ReconcileChunk), {}} :
         todo' = [todo EXCEPT ![w] = left]
    /\ UNCHANGED <<pc, epoch, lane, batch, snap, fate, after, blame>>

ReconOwners(w) ==
    /\ pc[w] = "reconOwners"
    /\ \/ todo[w] = {} /\ ReconcileNext(w) /\ NoFault /\ UNCHANGED blame
       \/ ReadChunk(w)
       \/ SkipChunk(w)
    /\ UNCHANGED <<db, lease, chain>>

--------------------------------------------------------------------------------
(* One drain pass (engine.rs pass, triage, one, batch, apply).              *)

\* The People pass is followed by the dotNS pass, and that by the next beat.
NextPass(w) ==
    /\ lane' = [lane EXCEPT ![w] = "dotns"]
    /\ pc'   = [pc EXCEPT ![w] = IF lane[w] = "people" THEN "claim" ELSE "beat"]
    /\ snap' = [snap EXCEPT ![w] = NoSnap]
    /\ UNCHANGED <<epoch, batch, todo, fate, after>>

EndPass(w) == /\ pc[w] = "next"
              /\ NextPass(w)
              /\ NoFault
              /\ UNCHANGED <<db, lease, chain, blame>>

ClaimSome(w) ==
    /\ Due(lane[w]) # {}
    /\ \E size \in 1..BatchMax[lane[w]] :
         LET claimed == Earliest(Due(lane[w]), size) IN
         /\ batch' = [batch EXCEPT ![w] = claimed]
         /\ snap'  = [snap EXCEPT ![w] =
                        [r \in Rows |-> IF r \in claimed THEN attempt[lane[w]][r] ELSE 0]]
    /\ pc' = [pc EXCEPT ![w] = "hold"]
    /\ NoFault
    /\ UNCHANGED <<epoch, lane, todo, fate, after>>

\* Nothing is due, or the dotNS link is parked: on to the next pass.
Claim(w) ==
    /\ pc[w] = "claim"
    /\ \/ Due(lane[w]) = {} /\ NextPass(w) /\ NoFault
       \/ lane[w] = "dotns" /\ NextPass(w) /\ Fault("link")
       \/ ClaimSome(w)
    /\ UNCHANGED <<db, lease, chain, blame>>

Hold(w) ==
    /\ pc[w] = "hold"
    /\ \/ /\ LeaseHeld(w)
          /\ Go(w, "triage")
          /\ NoFault
          /\ UNCHANGED <<db, lease, chain, blame>>
       \/ LeaseLost(w)

\* What the offline gates of a lane can say of a row they refuse.
GateOutcomes(l) == IF l = "people" THEN {"Failed"} ELSE {"Failed", "Expired", "Defer"}

\* The lane context read, then the gate of every claimed row.
Triage(w) ==
    /\ pc[w] = "triage"
    /\ \/ /\ Fault("ctx")
          /\ DeferAll(w)
       \/ /\ \E refused \in SUBSET batch[w] :
             \E answer \in [refused -> GateOutcomes(lane[w])] :
               /\ IF refused = {} THEN NoFault ELSE Fault("gate")
               /\ Decide(w, [r \in Rows |-> IF r \in refused THEN answer[r] ELSE "none"],
                         batch[w] \ refused,
                         IF refused = batch[w] THEN "next" ELSE "owners")
          /\ UNCHANGED <<epoch, lane, snap, todo>>
    /\ UNCHANGED <<db, lease, chain, blame>>

\* One owner read for the claimed set: already ours, somebody else's, or free.
Owners(w) ==
    /\ pc[w] = "owners"
    /\ \/ /\ Fault("owners")
          /\ DeferAll(w)
       \/ /\ LET unowned == {r \in batch[w] : owner[lane[w]][r] = "none"} IN
               Decide(w, [r \in Rows |->
                            IF r \notin batch[w] THEN "none"
                            ELSE IF owner[lane[w]][r] = "candidate" THEN "Observed"
                            ELSE IF owner[lane[w]][r] = "other" THEN "Failed"
                            ELSE "none"],
                      unowned, IF unowned = {} THEN "next" ELSE "submit")
          /\ NoFault
          /\ UNCHANGED <<epoch, lane, snap, todo>>
    /\ UNCHANGED <<db, lease, chain, blame>>

Alone(w) == Cardinality(batch[w]) = 1

\* submit_one or submit_batch returned an error: a lone row is settled on the
\* reason, a whole batch is nobody's fault.
SubmitError(w, reason) ==
    \/ /\ Alone(w)
       /\ blame' = IF reason = "other" THEN Blamed("lone", lane[w], batch[w]) ELSE blame
       /\ fate' = [fate EXCEPT ![w] = FateOn(batch[w], reason)]
       /\ pc'   = [pc EXCEPT ![w] = "settle"]
       /\ todo' = [todo EXCEPT ![w] = {}]
       /\ UNCHANGED <<epoch, lane, batch, snap, after>>
    \/ /\ ~Alone(w)
       /\ DeferAll(w)
       /\ UNCHANGED blame

\* The nonce, then the signature.  A lone row pays an attempt for a nonce that
\* cannot be fetched; a batch does not.
Submit(w) ==
    /\ pc[w] = "submit"
    /\ \/ /\ Fault("nonce")
          /\ Alone(w)
          /\ Decide(w, FateOn(batch[w], "Retry"), {}, "next")
          /\ blame' = Blamed("lone", lane[w], batch[w])
          /\ UNCHANGED <<epoch, lane, snap, todo>>
       \/ /\ Fault("nonce")
          /\ ~Alone(w)
          /\ DeferAll(w)
          /\ UNCHANGED blame
       \/ /\ Fault("sign")
          /\ SubmitError(w, "other")
       \/ /\ todo' = [todo EXCEPT ![w] = batch[w]]
          /\ pc'   = [pc EXCEPT ![w] = "mark"]
          /\ NoFault
          /\ UNCHANGED <<epoch, lane, batch, snap, fate, after, blame>>
    /\ UNCHANGED <<db, lease, chain>>

\* A variant that marks the first row only.
MarkFirstOnly(w) ==
    /\ LeaseHeld(w)
    /\ \E r \in First(todo[w]) :
         /\ status'  = [status EXCEPT ![lane[w]][r] = "SUBMITTING"]
         /\ attempt' = [attempt EXCEPT ![lane[w]][r] = snap[w][r] + 1]
    /\ todo' = [todo EXCEPT ![w] = {}]
    /\ pc'   = [pc EXCEPT ![w] = "broadcast"]
    /\ NoFault
    /\ UNCHANGED <<due, device, lease, chain, epoch, lane, batch, snap, fate, after, blame>>

MarkNext(w) ==
    /\ LeaseHeld(w)
    /\ \E r \in First(todo[w]) :
         /\ status'  = [status EXCEPT ![lane[w]][r] = "SUBMITTING"]
         /\ attempt' = [attempt EXCEPT ![lane[w]][r] = snap[w][r] + 1]
         /\ todo'    = [todo EXCEPT ![w] = @ \ {r}]
         /\ pc'      = [pc EXCEPT ![w] = IF todo[w] = {r} THEN "broadcast" ELSE "mark"]
    /\ NoFault
    /\ UNCHANGED <<due, device, lease, chain, epoch, lane, batch, snap, fate, after, blame>>

MarkErrs(w) ==
    /\ LeaseHeld(w)
    /\ Fault("mark")
    /\ SubmitError(w, "other")
    /\ UNCHANGED <<db, lease, chain>>

\* Each row is SUBMITTING, at one more attempt, before anything is broadcast.
Mark(w) == pc[w] = "mark" /\ (MarkNext(w) \/ MarkErrs(w) \/ LeaseLost(w))

\* submit_and_watch: the node takes the extrinsic, or refuses it.  What a refusal
\* says of the row is not known: only its text is.
Broadcast(w) ==
    /\ pc[w] = "broadcast"
    /\ \/ /\ Go(w, "await")
          /\ NoFault
          /\ UNCHANGED blame
       \/ \E reason \in {"unfunded", "contention", "other"} :
            /\ Fault("refuse")
            /\ SubmitError(w, reason)
    /\ UNCHANGED <<db, lease, chain>>

\* The extrinsic is finalized with per-call results res.  The results reach the
\* writer; or its events do not decode; or they do not match the calls.
Finalized(w) ==
    \E res \in [batch[w] -> {"ok", "alreadyRegistered", "deterministic", "other"}] :
      /\ \A r \in batch[w] : res[r] \in Results(lane[w], batch[w], res, r)
      /\ owner' = [owner EXCEPT ![lane[w]] = [r \in Rows |->
                     IF r \in batch[w] /\ res[r] = "ok" THEN "candidate" ELSE @[r]]]
      /\ \/ /\ IF \E r \in batch[w] : Unforced(lane[w], batch[w], res, r)
               THEN Fault("dispatch") ELSE NoFault
            /\ fate' = [fate EXCEPT ![w] =
                          [r \in Rows |-> IF r \in batch[w] THEN res[r] ELSE "none"]]
            /\ pc'    = [pc EXCEPT ![w] = "settle"]
            /\ blame' = Blamed("verdict", lane[w], {r \in batch[w] : res[r] # "ok"})
            /\ UNCHANGED <<epoch, lane, batch, snap, todo, after>>
         \/ /\ Fault("events")
            /\ SubmitError(w, "other")
         \/ /\ ~Alone(w)
            /\ Fault("mismatch")
            /\ Go(w, "rebatch")
            /\ UNCHANGED blame
      /\ UNCHANGED inflight

\* The batch call itself fails: none of its items was dispatched.
BatchFails(w) ==
    /\ ~Alone(w)
    /\ Fault("whole")
    /\ DeferAll(w)
    /\ UNCHANGED <<owner, inflight, blame>>

\* finalize_timeout: the call is still in the pool.
TimesOut(w) ==
    /\ Fault("timeout")
    /\ inflight' = Unwatched(lane[w], batch[w])
    /\ SubmitError(w, "contention")
    /\ UNCHANGED owner

\* The watch breaks off; the call may or may not be in the pool.
WatchBreaks(w) ==
    /\ Fault("transport")
    /\ inflight' \in {inflight, Unwatched(lane[w], batch[w])}
    /\ \E reason \in {"contention", "other"} : SubmitError(w, reason)
    /\ UNCHANGED owner

\* The renewal while waiting finds the lease gone.
RenewalFails(w) ==
    /\ ~LeaseHeld(w)
    /\ inflight' = Unwatched(lane[w], batch[w])
    /\ Forget(w)
    /\ NoFault
    /\ UNCHANGED <<owner, blame>>

\* finalize: wait for the watched extrinsic, renewing the lease meanwhile.
Await(w) ==
    /\ pc[w] = "await"
    /\ Finalized(w) \/ BatchFails(w) \/ TimesOut(w) \/ WatchBreaks(w) \/ RenewalFails(w)
    /\ UNCHANGED <<db, lease>>

\* A variant that takes contention for an extrinsic of our own that landed.
ClassifyOptimist(reason, owned, completed) ==
    IF owned \/ reason \in {"alreadyRegistered", "contention"} THEN "Landed"
    ELSE IF reason = "unfunded" THEN "Park"
    ELSE IF reason = "deterministic" \/ completed >= MaxAttempts THEN "Failed"
    ELSE "Retry"

\* classify_submit_failure, for a row that has used up `completed' attempts.
Classify(reason, owned, completed) ==
    IF owned \/ reason = "alreadyRegistered" THEN "Landed"
    ELSE IF reason = "unfunded" THEN "Park"
    ELSE IF reason = "contention" THEN "Defer"
    ELSE IF reason = "deterministic" \/ completed >= MaxAttempts THEN "Failed"
    ELSE "Retry"

\* Read the owner of every rejected row, best effort, and settle each row.
Settle(w) ==
    /\ pc[w] = "settle"
    /\ \E read \in BOOLEAN :
         /\ IF read THEN NoFault
            ELSE Fault("unread") /\ \E r \in batch[w] : fate[w][r] # "ok"
         /\ Decide(w, [r \in Rows |->
                         IF r \notin batch[w] THEN "none"
                         ELSE IF fate[w][r] = "ok" THEN "Landed"
                         ELSE Classify(fate[w][r], read /\ owner[lane[w]][r] = "candidate",
                                       snap[w][r] + 1)],
                   {}, "next")
    /\ UNCHANGED <<db, lease, chain, epoch, lane, snap, todo, blame>>

\* reconcile_batch: the item events were not usable, so chain state decides.
Rebatch(w) ==
    /\ pc[w] = "rebatch"
    /\ \/ /\ Decide(w, [r \in Rows |->
                         IF r \notin batch[w] THEN "none"
                         ELSE IF owner[lane[w]][r] = "candidate" THEN "Landed" ELSE "Defer"],
                    {}, "next")
          /\ NoFault
          /\ UNCHANGED <<epoch, lane, snap, todo>>
       \/ /\ Fault("unread")
          /\ DeferAll(w)
    /\ UNCHANGED <<db, lease, chain, blame>>

--------------------------------------------------------------------------------
(* The chains, apart from what a writer watches.                           *)

\* A call left in a pool is included, or drops out of it.
LeavesPool(l, r) ==
    /\ inflight[l][r] > 0
    /\ inflight' = [inflight EXCEPT ![l][r] = @ - 1]
    /\ \/ UNCHANGED owner
       \/ /\ "ok" \in Results(l, {r}, [s \in {r} |-> "ok"], r)
          /\ owner' = [owner EXCEPT ![l][r] = "candidate"]
    /\ NoFault
    /\ UNCHANGED <<db, lease, writer, blame>>

\* Somebody else registers the name of an accepted claim.
TakenByOther(l, r) ==
    /\ owner[l][r] = "none"
    /\ status[l][r] # "NULL"
    /\ owner' = [owner EXCEPT ![l][r] = "other"]
    /\ Fault("taken")
    /\ UNCHANGED <<db, lease, inflight, writer, blame>>

--------------------------------------------------------------------------------
Init ==
    /\ status   = [l \in Lanes |-> [r \in Rows |-> "NULL"]]
    /\ attempt  = [l \in Lanes |-> [r \in Rows |-> 0]]
    /\ due      = [l \in Lanes |-> [r \in Rows |-> TRUE]]
    /\ device   = [d \in Devices |-> [state |-> "FREE", row |-> 0]]
    /\ \E w \in Writers : lease = [holder |-> Holder[w], epoch |-> 0, live |-> FALSE]
    /\ owner    = [l \in Lanes |-> [r \in Rows |-> "none"]]
    /\ inflight = [l \in Lanes |-> [r \in Rows |-> 0]]
    /\ pc       = [w \in Writers |-> "acquire"]
    /\ epoch    = [w \in Writers |-> 0]
    /\ lane     = [w \in Writers |-> "people"]
    /\ batch    = [w \in Writers |-> {}]
    /\ snap     = [w \in Writers |-> NoSnap]
    /\ todo     = [w \in Writers |-> {}]
    /\ fate     = [w \in Writers |-> NoFate]
    /\ after    = [w \in Writers |-> "next"]
    /\ faults   = 0
    /\ blame    = [c \in Causes |-> [l \in Lanes |-> [r \in Rows |-> 0]]]

WriterStep(w) ==
    \/ TryAcquire(w) \/ Heartbeat(w)
    \/ Reconcile(w) \/ ReconOwners(w)
    \/ Claim(w) \/ Hold(w) \/ Triage(w) \/ Owners(w) \/ Submit(w) \/ Mark(w)
    \/ Broadcast(w) \/ Await(w) \/ Settle(w) \/ Rebatch(w)
    \/ Record(w) \/ EndPass(w)

Next ==
    \/ \E w \in Writers : WriterStep(w) \/ Abandon(w)
    \/ \E r \in Rows : Reserve(r) \/ Promote(r)
    \/ \E l \in Lanes, r \in Rows :
         BackoffElapses(l, r) \/ LeavesPool(l, r) \/ TakenByOther(l, r)
    \/ LeaseExpires

Spec == Init /\ [][Next]_vars

\* Every process keeps taking steps (a crashed one is restarted), queued claims
\* are promoted and backoffs run out.
Fairness ==
    /\ \A w \in Writers : WF_vars(WriterStep(w))
    /\ \A r \in Rows : WF_vars(Promote(r))
    /\ \A l \in Lanes, r \in Rows : WF_vars(BackoffElapses(l, r))

FairSpec == Spec /\ Fairness
--------------------------------------------------------------------------------
(* Properties.                                                             *)

DbTypeOK ==
    /\ status \in [Lanes -> [Rows -> PeopleStatus \cup DotnsStatus]]
    /\ \A l \in Lanes, r \in Rows : status[l][r] \in StatusOf(l)
    /\ attempt \in [Lanes -> [Rows -> Nat]]
    /\ due \in [Lanes -> [Rows -> BOOLEAN]]
    /\ device \in [Devices -> [state : {"FREE", "PENDING", "CONSUMED"}, row : Rows \cup {0}]]
    /\ lease \in [holder : {Holder[w] : w \in Writers}, epoch : Nat, live : BOOLEAN]

ChainTypeOK ==
    /\ owner \in [Lanes -> [Rows -> {"none", "candidate", "other"}]]
    /\ inflight \in [Lanes -> [Rows -> Nat]]
    /\ faults \in Nat
    /\ blame \in [Causes -> [Lanes -> [Rows -> Nat]]]

WriterTypeOK ==
    /\ pc \in [Writers -> PCs]
    /\ epoch \in [Writers -> Nat]
    /\ lane \in [Writers -> Lanes]
    /\ batch \in [Writers -> SUBSET Rows]
    /\ snap \in [Writers -> [Rows -> Nat]]
    /\ todo \in [Writers -> SUBSET Rows]
    /\ fate \in [Writers -> [Rows -> Fates]]
    /\ after \in [Writers -> {"next", "reconOwners", "owners", "submit"}]

\* Every variable has its type.
TypeOK == DbTypeOK /\ ChainTypeOK /\ WriterTypeOK

\* A row is recorded as landed (ASSIGNED, or RESERVED on the dotNS lane) only
\* when its candidate really owns its name on that chain: whatever was lost,
\* timed out, retried by another writer or answered per item of a batch, the
\* engine never guesses (the invariant engine.rs says it exists to protect).
AssignedIsOwned ==
    \A l \in Lanes, r \in Rows : status[l][r] = Done(l) => owner[l][r] = "candidate"

\* A terminal status is never overwritten.  The guarded UPDATEs do not look at
\* the status they replace: only the lease epoch keeps a writer that claimed a
\* row and then stalled from undoing what its successor recorded.
TerminalIsFinal ==
    [][\A l \in Lanes, r \in Rows :
         status[l][r] \in Terminal(l) => status'[l][r] = status[l][r]]_vars

\* The dotNS half of a row moves only after its People half is ASSIGNED, nothing
\* of it reaches Asset Hub before that, and it is ABANDONED exactly when the
\* People half failed: no half is left open behind a claim that is over.
DotnsFollowsPeople ==
    \A r \in Rows :
      /\ \/ status["dotns"][r] \notin {"NULL", "PENDING", "ABANDONED"}
         \/ inflight["dotns"][r] > 0
         \/ owner["dotns"][r] = "candidate"
         => status["people"][r] = "ASSIGNED"
      /\ status["dotns"][r] = "ABANDONED"
         <=> (r \in DotnsRows /\ status["people"][r] = "FAILED_TERMINAL")

\* widevine_devices agrees with the rows it backs: an open claim holds its
\* device, an assigned one has consumed it for good, and a failed one has let go
\* of it, even when a second claim for the device was accepted since.
DeviceAccounting ==
    \A r \in Rows : Device[r] # NoDevice =>
      LET d == device[Device[r]] IN
      /\ status["people"][r] \in {"QUEUED", "RESERVED", "SUBMITTING", "RETRY_AFTER"}
         => d = [state |-> "PENDING", row |-> r]
      /\ status["people"][r] = "ASSIGNED" => d.state = "CONSUMED"
      /\ status["people"][r] = "FAILED_TERMINAL" => d.row # r

\* Past the startup reconcile.
Draining(w) == /\ pc[w] \notin {"acquire", "reconcile", "reconOwners"}
               /\ ~(pc[w] = "record" /\ after[w] = "reconOwners")

\* A SUBMITTING row always has somebody who will move it on: once the writer
\* that holds the lease has reconciled, it has every such row in hand.  (No pass
\* claims SUBMITTING rows, so one nobody holds waits for the next lease.)
NoOrphan ==
    \A w \in Writers : LeaseHeld(w) /\ Draining(w) =>
      \A l \in Lanes, r \in Rows : status[l][r] = "SUBMITTING" =>
        /\ lane[w] = l
        /\ r \in batch[w] \cup Decided(w)

\* Write-ahead: every row of an extrinsic that is being broadcast or watched
\* under a valid lease is SUBMITTING in the database, so that whoever takes the
\* lease next looks for it on the chain.
WriteAhead ==
    \A w \in Writers : LeaseHeld(w) /\ pc[w] \in {"broadcast", "await"} =>
      \A r \in batch[w] : status[lane[w]][r] = "SUBMITTING"

\* What happened to a row accounts for every attempt it was charged, whichever
\* writers held the lease since.  A verdict costs one, and so does a submission
\* of the row alone that failed unanswered; an interrupted one costs two, the
\* mark's and the reconcile's.  Nothing that strikes a batch costs anything, nor
\* does a timeout, a contested nonce, an unfunded signer or a failed read:
\* mark_submitting charges in advance, and deferring a row takes that back even
\* when only some rows of its batch were marked.
Charges(l, r) == blame["verdict"][l][r] + blame["lone"][l][r] + 2 * blame["interrupted"][l][r]
AttemptsAccounted ==
    \A l \in Lanes, r \in Rows :
      attempt[l][r] <= Charges(l, r) + (IF status[l][r] \in {"SUBMITTING", Done(l)} THEN 1 ELSE 0)

\* Nonce, signing and transport faults are nobody's row's fault, and only per-item
\* failures spend a row's attempt budget: a row that waits or failed has been
\* charged no more often than the chain answered that it refuses it.  (one() does
\* charge a row for them when it is the only one of its extrinsic.)
OnlyVerdictsSpendAttempts ==
    \A l \in Lanes, r \in Rows :
      status[l][r] \notin {"SUBMITTING", Done(l)} => attempt[l][r] <= blame["verdict"][l][r]

\* One free registration per physical device: no two claims of one Widevine
\* device both own their name on the People chain.
OneNamePerDevice ==
    \A r, s \in Rows : /\ r # s
                       /\ Device[r] = Device[s]
                       /\ Device[r] # NoDevice
      => ~(owner["people"][r] = "candidate" /\ owner["people"][s] = "candidate")

\* Every accepted claim is settled: the People half ends ASSIGNED or
\* FAILED_TERMINAL, and so does the dotNS half it carries.
Settles ==
    \A l \in Lanes, r \in Rows :
      status[l][r] # "NULL" ~> status[l][r] \in Terminal(l)

\* The rows a writer has in hand.
InHand(w) == batch[w] \cup todo[w] \cup Decided(w)

\* Where a writer keeps its rows: nothing between passes, one row in one place.
Shape(w) ==
    /\ pc[w] \notin {"record", "settle"} => fate[w] = NoFate
    /\ \/ pc[w] \in {"acquire", "reconcile", "reconOwners", "beat", "claim", "next"}
       \/ pc[w] = "record" /\ after[w] \in {"next", "reconOwners"}
       => batch[w] = {}
    /\ \/ pc[w] \notin {"mark", "reconOwners", "record"}
       \/ pc[w] = "record" /\ after[w] # "reconOwners"
       => todo[w] = {}
    /\ pc[w] = "record" => Decided(w) \cap (batch[w] \cup todo[w]) = {}

\* A writer calls a row landed only when the chain holds its name.
Honest(w) == \A r \in Rows :
    fate[w][r] \in {"ok", "alreadyRegistered", "Landed", "Observed"}
    => owner[lane[w]][r] = "candidate"

\* An epoch belongs to one writer, and what the writer of the newest epoch has in
\* hand is still waiting for an outcome in the database.
Fenced(w) ==
    /\ epoch[w] <= lease.epoch
    /\ pc[w] # "acquire" => epoch[w] > 0
    /\ \A v \in Writers : v # w /\ epoch[v] = epoch[w] => epoch[w] = 0
    /\ pc[w] # "acquire" /\ epoch[w] = lease.epoch =>
         \A r \in InHand(w) : status[lane[w]][r] \in Waiting(lane[w])

\* The inductive invariants behind TerminalIsFinal and AssignedIsOwned.
Custody == /\ \A w \in Writers : Shape(w) /\ Fenced(w)
           /\ \A r \in Rows : status["people"][r] = "NULL" => status["dotns"][r] = "NULL"
Honesty == \A w \in Writers : Shape(w) /\ Honest(w)

\* The writers implement the life of a claim that Reservation describes: every
\* step of every writer, and of the chains, is a step of it or leaves it alone.
Lifecycle == INSTANCE Reservation WITH Rows <- Rows, DotnsRows <- DotnsRows,
                                      status <- status, owner <- owner
ImplementsLifecycle == Lifecycle!Spec
================================================================================

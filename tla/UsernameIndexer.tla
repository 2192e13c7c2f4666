---------------------------- MODULE UsernameIndexer ----------------------------
(***************************************************************************)
(* The username indexer: replicas that project the consumers of the People *)
(* chain into assigned_usernames.  A replica drops what a previous run     *)
(* speculated, seeds the projection by a full scan when there is no        *)
(* checkpoint of this chain, and then runs passes under the projection     *)
(* lock: the finalized range block by block, then the unfinalized window.  *)
(*                                                                         *)
(* The chain is external: it grows, finalizes, and drops blocks that are   *)
(* not final.  A block stands for its own hash.  Every change of a         *)
(* consumer is taken to be announced by one of the events the indexer      *)
(* looks for.                                                              *)
(***************************************************************************)
EXTENDS Naturals, Sequences

CONSTANTS
    Replicas,
    Accounts,
    Names,            \* usernames that decode
    None,             \* no consumer, or one whose username does not decode; nobody
    MaxWindow,        \* MAX_SPECULATIVE_WINDOW
    MaxHeight,        \* bound: length of the best chain
    MaxBlocks,        \* bound: blocks produced in all
    Faults,           \* the kinds of fault that may happen
    MaxFaults         \* bound: how many faults happen

ASSUME IndexerBounds == /\ MaxWindow \in Nat /\ MaxHeight \in Nat \ {0}
                        /\ MaxBlocks \in Nat
                        /\ MaxFaults \in Nat
                        /\ Faults \subseteq {"rpc", "crash", "lock"}
ASSUME DistinctValues == None \notin Names /\ None \notin Replicas

VARIABLES
    \* The chain.
    chain,       \* the best chain; heights count from 1
    finalized,   \* height of the finalized head
    produced,    \* bookkeeping: blocks so far
    \* The database.
    row,         \* assigned_usernames, by account
    checkpoint,  \* sync_state: last_finalized_number (0: no row), genesis_hash
    lock,        \* who holds PROJECTION_LOCK_ID
    \* The replicas.
    pc,
    fin, best,   \* the heads this pass works with (best 0: not known yet)
    at,          \* the block the current loop has reached; the scan's snapshot
    todo,        \* accounts yet to be upserted by a scan, or affected ones
    pos,         \* the next height of the window
    pin,         \* the block the speculative reads are pinned to
    cache,       \* SpeculativeCache, by height
    \* Bookkeeping.
    faults,
    lost,        \* ghost: the work whose session lost the lock, "scan" or "pass"
    quiet        \* ghost: the chain has not moved since this pass began

chainVars   == <<chain, finalized, produced>>
dbVars      == <<row, checkpoint>>
passVars    == <<fin, best, at, todo, pos, pin, cache>>
vars        == <<chainVars, dbVars, lock, pc, passVars, faults, lost, quiet>>

Heights == 1..MaxHeight
Values  == Names \cup {None}
Blocks  == [state : [Accounts -> Values], touched : SUBSET Accounts]
NoRow   == [name |-> None, speculative |-> FALSE]
NoCache == [h \in Heights |-> None]
Genesis == [state |-> [a \in Accounts |-> None], touched |-> {}]

Fault(kind) == kind \in Faults /\ faults < MaxFaults /\ faults' = faults + 1
NoFault     == UNCHANGED faults
Free        == lock = None
Release(i)  == lock' = IF lock = i THEN None ELSE lock
Max2(m, n)  == IF m >= n THEN m ELSE n

\* What a pass or a scan worked with is gone.
Forget(i) == /\ fin'  = [fin EXCEPT ![i] = 0]
             /\ best' = [best EXCEPT ![i] = 0]
             /\ at'   = [at EXCEPT ![i] = 0]
             /\ todo' = [todo EXCEPT ![i] = {}]
             /\ pos'  = [pos EXCEPT ![i] = 0]
             /\ pin'  = [pin EXCEPT ![i] = Genesis]

--------------------------------------------------------------------------------
(* The chain.                                                              *)

ChainMoves == /\ quiet' = [i \in Replicas |-> FALSE]
              /\ NoFault
              /\ UNCHANGED <<dbVars, lock, pc, passVars, lost>>

\* A block that changes at most one account.
Produce ==
    /\ Len(chain) < MaxHeight
    /\ produced < MaxBlocks
    /\ produced' = produced + 1
    /\ \E a \in Accounts, v \in Values :
         LET tip == chain[Len(chain)].state IN
         chain' = Append(chain, [state   |-> [tip EXCEPT ![a] = v],
                                 touched |-> IF v = tip[a] THEN {} ELSE {a}])
    /\ UNCHANGED finalized
    /\ ChainMoves

Finalize ==
    /\ finalized < Len(chain)
    /\ finalized' = finalized + 1
    /\ UNCHANGED <<chain, produced>>
    /\ ChainMoves

\* The best block loses to another fork.
Reorg ==
    /\ finalized < Len(chain)
    /\ produced < MaxBlocks
    /\ chain' = SubSeq(chain, 1, Len(chain) - 1)
    /\ UNCHANGED <<finalized, produced>>
    /\ ChainMoves

--------------------------------------------------------------------------------
(* Startup (roles/username_indexer.rs build_state, bootstrap.rs).          *)

Working(i) == /\ NoFault
              /\ quiet' = [quiet EXCEPT ![i] = @ /\ pc'[i] # "idle"]
              /\ UNCHANGED <<chainVars, lost>>

\* clear_speculative, under the lock when it is free.
Start(i) ==
    /\ pc[i] = "down"
    /\ row' = IF Free THEN [a \in Accounts |-> IF row[a].speculative THEN NoRow ELSE row[a]]
                      ELSE row
    /\ pc'  = [pc EXCEPT ![i] = "seed"]
    /\ UNCHANGED <<checkpoint, lock, passVars>>
    /\ Working(i)

Stamp(n, g) == checkpoint' = [number |-> n, genesis |-> g]

\* ensure_seeded waits for the lock; reconcile_chain_identity finds no
\* checkpoint, one of another chain (dropped with the projection), one of this
\* chain, or one without a genesis, which is adopted.
EnsureSeeded(i) ==
    /\ pc[i] = "seed"
    /\ Free
    /\ \/ /\ checkpoint.number = 0
          /\ lock' = i
          /\ pc'   = [pc EXCEPT ![i] = "snapshot"]
          /\ UNCHANGED dbVars
       \/ /\ checkpoint.number > 0
          /\ checkpoint.genesis = "another"
          /\ lock' = i
          /\ row'  = [a \in Accounts |-> NoRow]
          /\ Stamp(0, "none")
          /\ pc'   = [pc EXCEPT ![i] = "snapshot"]
       \/ /\ checkpoint.number > 0
          /\ checkpoint.genesis # "another"
          /\ Stamp(checkpoint.number, "this")
          /\ pc'    = [pc EXCEPT ![i] = "idle"]
          /\ UNCHANGED <<row, lock>>
    /\ UNCHANGED passVars
    /\ Working(i)

\* bootstrap_locked pins the finalized head.
Snapshot(i) ==
    /\ pc[i] = "snapshot"
    /\ at'   = [at EXCEPT ![i] = finalized]
    /\ todo' = [todo EXCEPT ![i] =
                  {a \in Accounts : chain[finalized].state[a] # None}]
    /\ pc'   = [pc EXCEPT ![i] = "scan"]
    /\ UNCHANGED <<dbVars, lock, fin, best, pos, pin, cache>>
    /\ Working(i)

\* What upsert stores (decode_consumer), and what deleting it leaves.
Final(a, v) == IF v = None THEN NoRow ELSE [name |-> v, speculative |-> FALSE]

\* upsert_batch: one page in a transaction of its own.
ScanPage(i) ==
    /\ pc[i] = "scan"
    /\ \E a \in todo[i] :
         /\ row'  = [row EXCEPT ![a] = Final(a, chain[at[i]].state[a])]
         /\ todo' = [todo EXCEPT ![i] = @ \ {a}]
    /\ UNCHANGED <<checkpoint, lock, pc, fin, best, at, pos, pin, cache>>
    /\ Working(i)

\* The scan is complete: rows of any other snapshot go.  (A row of this snapshot
\* that this scan has not written cannot be there.)
Sweep(i) ==
    /\ pc[i] = "scan" /\ todo[i] = {}
    /\ row' = [a \in Accounts |->
                 IF chain[at[i]].state[a] = None THEN NoRow ELSE row[a]]
    /\ pc'  = [pc EXCEPT ![i] = "stamp"]
    /\ UNCHANGED <<checkpoint, lock, passVars>>
    /\ Working(i)

\* write_checkpoint comes last.
WriteCheckpoint(i) ==
    /\ pc[i] = "stamp"
    /\ Stamp(at[i], "this")
    /\ pc'    = [pc EXCEPT ![i] = "idle"]
    /\ Release(i)
    /\ Forget(i)
    /\ UNCHANGED <<row, cache>>
    /\ Working(i)

--------------------------------------------------------------------------------
(* A pass (sync.rs run, pass; incremental.rs).                             *)

\* A variant that takes the best head a header announced for a finalized one.
WakeOnBest(i) ==
    /\ pc[i] = "idle"
    /\ \E b \in {0, Len(chain)} :
         /\ best'  = [best EXCEPT ![i] = b]
         /\ fin'   = [fin EXCEPT ![i] = Max2(b, finalized)]
    /\ quiet' = [quiet EXCEPT ![i] = TRUE]
    /\ pc' = [pc EXCEPT ![i] = "lock"]
    /\ NoFault
    /\ UNCHANGED <<chainVars, dbVars, lock, at, todo, pos, pin, cache, lost>>

\* wait_for_wake and the head of pass: a header (by now perhaps an old one), or
\* the timer, which knows no best head; the finalized head is read.
Wake(i) ==
    /\ pc[i] = "idle"
    /\ \E b \in {0, Len(chain)} :
         best' = [best EXCEPT ![i] = b]
    /\ quiet' = [quiet EXCEPT ![i] = TRUE]
    /\ fin' = [fin EXCEPT ![i] = finalized]
    /\ pc'  = [pc EXCEPT ![i] = "lock"]
    /\ NoFault
    /\ UNCHANGED <<chainVars, dbVars, lock, at, todo, pos, pin, cache, lost>>

\* A variant whose lock connection goes back to the pool with the lock.
EndPassPooled(i) ==
    /\ pc' = [pc EXCEPT ![i] = "idle"]
    /\ UNCHANGED lock
    /\ Forget(i)

\* The pass is over, and the session that held the lock is closed (close_on_drop).
EndPass(i) ==
    /\ pc'    = [pc EXCEPT ![i] = "idle"]
    /\ Release(i)
    /\ Forget(i)

\* try_projection_lock: somebody else's pass makes ours unnecessary; otherwise
\* the checkpoint is read.
TryLock(i) ==
    /\ pc[i] = "lock"
    /\ \/ /\ ~Free
          /\ EndPass(i)
       \/ /\ Free
          /\ lock' = i
          /\ at'   = [at EXCEPT ![i] = IF checkpoint.number = 0 THEN 0
                                       ELSE checkpoint.number + 1]
          /\ pc'   = [pc EXCEPT ![i] = IF checkpoint.number = 0 \/ fin[i] <= checkpoint.number
                                       THEN "plan" ELSE "index"]
          /\ UNCHANGED <<fin, best, todo, pos, pin>>
    /\ UNCHANGED <<dbVars, cache>>
    /\ Working(i)

\* index_block: the touched accounts as of this block and the checkpoint, in one
\* transaction.
IndexBlock(i) ==
    /\ pc[i] = "index"
    /\ LET block == chain[at[i]] IN
         row' = [a \in Accounts |->
                   IF a \in block.touched THEN Final(a, block.state[a]) ELSE row[a]]
    /\ checkpoint' = IF checkpoint.number = 0 THEN checkpoint
                     ELSE [checkpoint EXCEPT !.number = at[i]]
    /\ at' = [at EXCEPT ![i] = @ + 1]
    /\ pc' = [pc EXCEPT ![i] = IF at[i] = fin[i] THEN "plan" ELSE "index"]
    /\ UNCHANGED <<lock, fin, best, todo, pos, pin, cache>>
    /\ Working(i)

\* plan_speculative_window: nothing to scan, too much, or these heights.
Window(f, b) == IF b <= f \/ b - f > MaxWindow THEN {} ELSE f + 1 .. b

\* The best head, read now if the wake did not bring it; heights that became
\* final leave the cache.
PlanWindow(i) ==
    /\ pc[i] = "plan"
    /\ \E b \in {IF best[i] = 0 THEN Len(chain) ELSE best[i]} :
         /\ best' = [best EXCEPT ![i] = b]
         /\ pc'   = [pc EXCEPT ![i] = IF Window(fin[i], b) = {} THEN "held" ELSE "window"]
    /\ pos'   = [pos EXCEPT ![i] = fin[i] + 1]
    /\ todo'  = [todo EXCEPT ![i] = {}]
    /\ cache' = [cache EXCEPT ![i] = [h \in Heights |-> IF h <= fin[i] THEN None ELSE @[h]]]
    /\ UNCHANGED <<dbVars, lock, fin, at, pin>>
    /\ Working(i)

\* A variant: a cache that does not compare the hash.
CachedByHeight(i, h) == IF cache[i][h] # None THEN cache[i][h].touched ELSE chain[h].touched

\* The accounts the events of a block name: from the cache when it holds this
\* very block, from the chain otherwise.
CachedAccounts(i, h) == IF cache[i][h] = chain[h] THEN cache[i][h].touched
                                                  ELSE chain[h].touched

\* One block of the window.  A height the best chain no longer has ends the pass.
ScanWindow(i) ==
    /\ pc[i] = "window"
    /\ LET h == pos[i] IN
       \/ /\ h <= Len(chain)
          /\ todo'  = [todo EXCEPT ![i] = @ \cup CachedAccounts(i, h)]
          /\ cache' = [cache EXCEPT ![i][h] = chain[h]]
          /\ pos'   = [pos EXCEPT ![i] = h + 1]
          /\ pc'    = [pc EXCEPT ![i] = IF h = best[i] THEN "held" ELSE "window"]
          /\ UNCHANGED <<lock, fin, best, at, pin>>
       \/ /\ h > Len(chain)
          /\ EndPass(i)
          /\ UNCHANGED cache
    /\ UNCHANGED dbVars
    /\ Working(i)

SpeculativeAccounts == {a \in Accounts : row[a].speculative}
FinalizedAccounts   == {a \in Accounts : row[a] # NoRow /\ ~row[a].speculative}

\* A variant that only looks at what the window names.
AffectedByWindow(i) == todo[i] \ FinalizedAccounts

\* What is re-read: named by the window or held already, unless it is final.
Affected(i) == (todo[i] \cup SpeculativeAccounts) \ FinalizedAccounts

\* The head the reads are pinned to.
PinHead(i) ==
    /\ pc[i] = "held"
    /\ LET head == Max2(best[i], fin[i]) IN
       \/ /\ Affected(i) # {} /\ head <= Len(chain)
          /\ todo' = [todo EXCEPT ![i] = Affected(i)]
          /\ pin'  = [pin EXCEPT ![i] = chain[head]]
          /\ pc'   = [pc EXCEPT ![i] = "admit"]
          /\ UNCHANGED <<lock, fin, best, at, pos>>
       \/ /\ Affected(i) = {} \/ head > Len(chain)
          /\ EndPass(i)
    /\ UNCHANGED <<dbVars, cache>>
    /\ Working(i)

\* upsert_speculative and delete_if_speculative spare a finalized row.
Speculate(a, v) ==
    IF row[a] # NoRow /\ ~row[a].speculative THEN row[a]
    ELSE IF v = None THEN NoRow
    ELSE [name |-> v, speculative |-> TRUE]

\* All affected accounts, in one transaction.
Admit(i) ==
    /\ pc[i] = "admit"
    /\ row' = [a \in Accounts |-> IF a \in todo[i] THEN Speculate(a, pin[i].state[a]) ELSE row[a]]
    /\ EndPass(i)
    /\ UNCHANGED <<checkpoint, cache>>
    /\ Working(i)

--------------------------------------------------------------------------------
(* What goes wrong.                                                        *)

\* A read or a statement fails: what is committed stays.
PassFails(i) ==
    /\ pc[i] \in {"lock", "index", "plan", "window", "held", "admit"}
    /\ EndPass(i)
    /\ quiet' = [quiet EXCEPT ![i] = FALSE]
    /\ Fault("rpc")
    /\ UNCHANGED <<chainVars, dbVars, cache, lost>>

\* The process ends (an incomplete scan ends it too), and its session with it.
Crash(i) ==
    /\ pc[i] # "down"
    /\ pc'    = [pc EXCEPT ![i] = "down"]
    /\ Forget(i)
    /\ cache' = [cache EXCEPT ![i] = NoCache]
    /\ Release(i)
    /\ quiet' = [quiet EXCEPT ![i] = FALSE]
    /\ Fault("crash")
    /\ UNCHANGED <<chainVars, dbVars, lost>>

\* The session that holds the lock dies; the work under it goes on.
LockLost ==
    /\ ~Free
    /\ lock'   = None
    /\ lost'   = lost \cup {IF pc[lock] \in {"snapshot", "scan", "stamp"} THEN "scan" ELSE "pass"}
    /\ Fault("lock")
    /\ UNCHANGED <<chainVars, dbVars, pc, passVars, quiet>>

--------------------------------------------------------------------------------
\* An empty database, or one built from a chain that is no longer there.
Init ==
    /\ chain = <<Genesis>>
    /\ finalized = 1
    /\ produced = 0
    /\ \/ /\ row = [a \in Accounts |-> NoRow]
          /\ checkpoint = [number |-> 0, genesis |-> "none"]
       \/ /\ row \in [Accounts -> {[name |-> n, speculative |-> FALSE] : n \in Names}]
          /\ checkpoint = [number |-> MaxHeight, genesis |-> "another"]
    /\ lock = None
    /\ pc = [i \in Replicas |-> "down"]
    /\ fin = [i \in Replicas |-> 0]
    /\ best = [i \in Replicas |-> 0]
    /\ at = [i \in Replicas |-> 0]
    /\ todo = [i \in Replicas |-> {}]
    /\ pos = [i \in Replicas |-> 0]
    /\ pin = [i \in Replicas |-> Genesis]
    /\ cache = [i \in Replicas |-> NoCache]
    /\ faults = 0
    /\ lost = {}
    /\ quiet = [i \in Replicas |-> FALSE]

ReplicaStep(i) ==
    \/ Start(i) \/ EnsureSeeded(i) \/ Snapshot(i) \/ ScanPage(i) \/ Sweep(i)
    \/ WriteCheckpoint(i)
    \/ Wake(i) \/ TryLock(i) \/ IndexBlock(i) \/ PlanWindow(i) \/ ScanWindow(i)
    \/ PinHead(i) \/ Admit(i)

Next == \/ \E i \in Replicas : ReplicaStep(i) \/ PassFails(i) \/ Crash(i)
        \/ Produce \/ Finalize \/ Reorg
        \/ LockLost

Spec == Init /\ [][Next]_vars

\* Every replica keeps running, and a lock that is free again and again is not
\* missed for ever.
Fairness == \A i \in Replicas : /\ WF_vars(ReplicaStep(i))
                                /\ SF_vars(EnsureSeeded(i))
                                /\ SF_vars(TryLock(i) /\ Free)

FairSpec == Spec /\ Fairness
--------------------------------------------------------------------------------
(* Properties.                                                             *)

PCs == {"down", "seed", "snapshot", "scan", "stamp", "idle", "lock", "index", "plan",
        "window", "held", "admit"}

\* Every variable has its type, and only a replica at work holds the lock.
TypeOK ==
    /\ chain \in Seq(Blocks) /\ finalized \in 1..Len(chain)
    /\ produced \in Nat
    /\ row \in [Accounts -> [name : Names \cup {None}, speculative : BOOLEAN]]
    /\ checkpoint \in [number : Nat, genesis : {"none", "this", "another"}]
    /\ lock \in Replicas \cup {None}
    /\ lock # None => pc[lock] \in PCs \ {"down", "seed", "idle", "lock"}
    /\ pc \in [Replicas -> PCs]
    /\ fin \in [Replicas -> Nat] /\ best \in [Replicas -> Nat] /\ at \in [Replicas -> Nat]
    /\ todo \in [Replicas -> SUBSET Accounts]
    /\ pos \in [Replicas -> Nat] /\ pin \in [Replicas -> Blocks]
    /\ cache \in [Replicas -> [Heights -> Blocks \cup {None}]]
    /\ faults \in Nat /\ lost \subseteq {"scan", "pass"} /\ quiet \in [Replicas -> BOOLEAN]

\* The rows that are not speculative.
Settled(a) == IF row[a].speculative THEN NoRow ELSE row[a]

\* The finalized rows are the chain at the checkpoint: whatever fork was indexed
\* ahead of finality, whoever crashed in the middle of a scan or a range and
\* whichever chain the database was built from, a checkpoint never vouches for a
\* row the chain did not have there, nor misses one it had (while nobody lost the
\* session that holds the lock).
CheckpointExact ==
    lost = {} /\ checkpoint.number > 0 /\ checkpoint.genesis # "another" =>
      /\ checkpoint.number <= finalized
      /\ \A a \in Accounts : Settled(a) = Final(a, chain[checkpoint.number].state[a])

\* What is shown besides the finalized rows is the best chain.
Mirrors == \A a \in Accounts :
    row[a].speculative \/ row[a] = NoRow =>
      row[a].name = chain[Len(chain)].state[a]

\* A pass during which the chain stood still leaves the unfinalized window as
\* the best chain has it: rows of a fork that lost are gone, new ones are there,
\* although the events of blocks read before come from the cache.
SpeculationExact ==
    [][\A i \in Replicas :
         /\ pc[i] \in {"held", "admit"} /\ pc'[i] = "idle"
         /\ quiet[i] /\ lost = {} /\ faults' = faults
         /\ best[i] - fin[i] <= MaxWindow
         => Mirrors']_vars

\* The projection catches up for good once the chain rests: the checkpoint
\* reaches the finalized head, the finalized rows are exact again even after two
\* replicas wrote at once because a lock session died under a pass (not under a
\* scan: two scans can sweep each other's rows), and no row is left that the best
\* chain does not know.
CatchesUp ==
    <>[](\/ "scan" \in lost
         \/ /\ checkpoint = [number |-> finalized, genesis |-> "this"]
            /\ \A a \in Accounts :
                 /\ Settled(a) = Final(a, chain[finalized].state[a])
                 /\ row[a].speculative => \E h \in finalized..Len(chain) :
                                            row[a].name = chain[h].state[a])
================================================================================

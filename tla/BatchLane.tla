------------------------------- MODULE BatchLane -------------------------------
(***************************************************************************)
(* The adaptive claim size of one lane (chain/writer/lane.rs BatchLane and *)
(* chain_client::settle_batch_size): halved by a whole-batch failure,      *)
(* grown by one per successful submission, kept below the smallest size    *)
(* known to have failed until a long clean run lets it probe that size     *)
(* again.  The failure count only sets a backoff duration and is left out. *)
(***************************************************************************)
EXTENDS Naturals

CONSTANTS
    BatchSize,     \* CHAIN_WRITER_BATCH_SIZE or CHAIN_WRITER_DOTNS_BATCH_SIZE
    ProbeRun,      \* CEILING_PROBE_RUN
    Limits,        \* the largest batch the chain may take, in ThresholdSpec
    MaxTransients  \* bound: failures of a batch that would have fitted, in ThresholdSpec

ASSUME SizesAssumption == /\ BatchSize \in Nat
                          /\ ProbeRun \in Nat \ {0}
ASSUME ChainAssumption == /\ Limits \subseteq Nat \ {0}
                          /\ MaxTransients \in Nat

VARIABLES
    size,       \* rows the next pass claims
    ceiling,    \* smallest size known to fail, None when there is none
    clean,      \* successes since the last failure or ceiling probe
    run,        \* ghost: successes since the last failure, counted up to ProbeRun
    failedAt,   \* ghost: the size above one that failed last, None if none did
    limit,      \* the largest batch this chain takes
    transients  \* bookkeeping: failures of a batch that would have fitted

lane == <<size, ceiling, clean, run, failedAt>>
vars == <<lane, limit, transients>>

None == 0
LargerOf(a, b) == IF a >= b THEN a ELSE b
SmallerOf(a, b) == IF a <= b THEN a ELSE b

\* BatchLane::new clamps a configured zero.
Top == LargerOf(BatchSize, 1)

Init == /\ size = Top
        /\ ceiling = None
        /\ clean = 0
        /\ run = 0
        /\ failedAt = None

\* settle_batch_size: one more row after a success, half of them after a failure.
SettleBatchSize(current, max, succeeded) ==
    IF succeeded THEN SmallerOf(current + 1, max) ELSE LargerOf(current \div 2, 1)

\* A variant that never tries a size that failed again.
ProbedNever(c) == c

\* The ceiling once a clean run has lasted long enough to try one row more.
Probed(c) == IF c # None /\ c < Top THEN c + 1 ELSE None

\* A variant that grows up to the ceiling itself.
GrowToCeiling(c) == IF c = None THEN Top ELSE LargerOf(SmallerOf(Top, c), 1)

\* How far the size may grow below ceiling c.
GrowLimit(c) == IF c = None THEN Top ELSE LargerOf(SmallerOf(Top, c - 1), 1)

\* A submission went through.
Succeeded ==
    LET probe == clean + 1 >= ProbeRun
        c     == IF probe THEN Probed(ceiling) ELSE ceiling
    IN  /\ ceiling' = c
        /\ clean'   = IF probe THEN 0 ELSE clean + 1
        /\ size'    = SettleBatchSize(size, GrowLimit(c), TRUE)
        /\ run'     = SmallerOf(run + 1, ProbeRun)
        /\ UNCHANGED failedAt

\* Variants: the first failure is remembered for good, or the largest one.
LoweredOnce(c, attempted) == IF c = None THEN attempted ELSE c
LoweredToLargest(c, attempted) == LargerOf(c, attempted)

\* The ceiling once a batch of `attempted' rows failed as a whole.
Lowered(c, attempted) == IF c = None THEN attempted ELSE SmallerOf(c, attempted)

\* retry_batch: the set failed as a whole.
Failed ==
    /\ size'    = SettleBatchSize(size, Top, FALSE)
    /\ ceiling' = IF size' < size THEN Lowered(ceiling, size) ELSE ceiling
    /\ clean'   = 0
    /\ run'     = 0
    /\ failedAt' = IF size > 1 THEN size ELSE failedAt

Next == Succeeded \/ Failed

Spec == Init /\ [][Next]_lane

\* A chain (external) that takes batches of up to `limit' rows, and now and then
\* fails one it could have taken.
ChainTakes   == size <= limit /\ Succeeded /\ UNCHANGED <<limit, transients>>
ChainRefuses == size > limit /\ Failed /\ UNCHANGED <<limit, transients>>
ChainSlips   == /\ size <= limit
                /\ transients < MaxTransients
                /\ transients' = transients + 1
                /\ Failed
                /\ UNCHANGED limit

ThresholdNext == ChainTakes \/ ChainRefuses \/ ChainSlips
ThresholdInit == Init /\ limit \in Limits /\ transients = 0
ThresholdSpec == /\ ThresholdInit /\ [][ThresholdNext]_vars
                 /\ WF_vars(ChainTakes) /\ WF_vars(ChainRefuses)

--------------------------------------------------------------------------------
\* The size is always one the lane may claim, and stays strictly below every
\* size it has learnt to avoid.
SizeOK ==
    /\ size \in 1..Top
    /\ ceiling \in {None} \cup 2..Top
    /\ clean \in 0..(ProbeRun - 1)
    /\ run \in 0..ProbeRun
    /\ failedAt \in {None} \cup 2..Top
    /\ ceiling # None => size < ceiling

\* A size that failed is tried again only after ProbeRun consecutive successes
\* (operations.md), whatever failures and probes came before, and whichever
\* sizes they were seen at.
ProbesOnlyAfterCleanRun ==
    failedAt # None /\ run < ProbeRun => size < failedAt

\* Why: until the clean run is complete the ceiling is still at or below the size
\* that failed, and once it is complete the lane has left size one (the only size
\* whose failure teaches nothing).  Inductive together with SizeOK.
CleanRun ==
    /\ run < ProbeRun => clean = run
    /\ failedAt # None /\ run < ProbeRun => ceiling # None /\ ceiling <= failedAt
    /\ failedAt # None /\ run = ProbeRun => size >= 2

\* The size shrinks only when something is learnt: every whole-batch failure of
\* more than one row sets the ceiling or strictly lowers it, so a chain that
\* keeps refusing is searched in fewer than Top failures per probe and the lane
\* never alternates between two sizes.
EveryFailureLearns ==
    [][size' < size => /\ ceiling' # None
                       /\ ceiling # None => ceiling' < ceiling]_lane

\* Against a chain with a fixed limit the lane keeps coming back to the largest
\* batch that fits: no slip lowers its size for good, no refusal freezes it.
KeepsBestSize == []<>(size = SmallerOf(Top, limit))
================================================================================

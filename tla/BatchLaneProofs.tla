---------------------------- MODULE BatchLaneProofs ----------------------------
(* Proofs about BatchLane, for every batch size and probe run.             *)
EXTENDS BatchLane, TLAPS

\* The configured maximum is at least one after the clamp of BatchLane::new.
LEMMA TopPositive == Top \in Nat /\ Top >= 1
  BY SizesAssumption DEF Top, LargerOf

\* The initial lane, at its maximum with nothing learnt, satisfies the invariant.
LEMMA InitInv == Init => SizeOK /\ CleanRun
  BY TopPositive, SizesAssumption DEF Init, SizeOK, CleanRun, None

\* BatchLane::succeeded preserves the invariant.
LEMMA SucceededInv ==
  ASSUME SizeOK, CleanRun, Succeeded
  PROVE  SizeOK' /\ CleanRun'
<1> DEFINE probe == clean + 1 >= ProbeRun
<1> DEFINE c == IF probe THEN Probed(ceiling) ELSE ceiling
<1>1. /\ Top \in Nat /\ Top >= 1
      /\ ProbeRun \in Nat /\ ProbeRun >= 1
  BY TopPositive, SizesAssumption
<1>2. /\ ceiling' = c
      /\ clean' = IF probe THEN 0 ELSE clean + 1
      /\ size' = SmallerOf(size + 1, GrowLimit(c))
      /\ run' = SmallerOf(run + 1, ProbeRun)
      /\ failedAt' = failedAt
  BY DEF Succeeded, SettleBatchSize
<1>3. c \in {None} \cup 2..Top /\ (c # None => ceiling # None /\ ceiling <= c)
  BY <1>1 DEF SizeOK, Probed, None
<1>4. GrowLimit(c) \in 1..Top /\ (c # None => GrowLimit(c) = c - 1)
  BY <1>1, <1>3 DEF GrowLimit, LargerOf, SmallerOf, None
<1>5. size' \in 1..Top /\ (c # None => size' < c)
  BY <1>1, <1>2, <1>3, <1>4 DEF SizeOK, SmallerOf, None
<1>6. SizeOK'
  BY <1>1, <1>2, <1>3, <1>5 DEF SizeOK, SmallerOf, None
<1>7. CleanRun'
  <2>1. run' < ProbeRun => clean' = run' /\ ~probe
    BY <1>1, <1>2 DEF SizeOK, CleanRun, SmallerOf
  <2>2. failedAt' # None /\ run' < ProbeRun => ceiling' # None /\ ceiling' <= failedAt'
    BY <2>1, <1>1, <1>2 DEF SizeOK, CleanRun, SmallerOf
  <2>3. ASSUME failedAt' # None, run' = ProbeRun
        PROVE  size' >= 2
    <3>1. Top >= 2
      BY <2>3, <1>2, <1>1 DEF SizeOK, None
    <3>2. CASE run = ProbeRun
      <4>1. size >= 2
        BY <3>2, <2>3, <1>2 DEF CleanRun
      <4>2. c # None => c > 2
        BY <4>1, <1>1, <1>3 DEF SizeOK, None
      <4> QED
        BY <3>1, <4>1, <4>2, <1>1, <1>2, <1>3, <1>4 DEF SizeOK, GrowLimit, SmallerOf, None
    <3>3. CASE run # ProbeRun
      <4>1. probe /\ (ceiling # None => c = None \/ c > 2)
        BY <3>3, <2>3, <1>1, <1>2 DEF SizeOK, CleanRun, SmallerOf, Probed, None
      <4>2. ceiling # None
        BY <3>3, <2>3, <1>2, <1>1 DEF SizeOK, CleanRun
      <4>3. c = None \/ c > 2
        BY <4>1, <4>2
      <4> QED
        BY <3>1, <4>3, <1>1, <1>2, <1>3, <1>4 DEF SizeOK, GrowLimit, SmallerOf, None
    <3> QED BY <3>2, <3>3
  <2> QED BY <2>1, <2>2, <2>3 DEF CleanRun
<1> QED BY <1>6, <1>7

\* BatchLane::failed preserves the invariant, and lowers the ceiling whenever it
\* lowers the size.
LEMMA FailedInv ==
  ASSUME SizeOK, CleanRun, Failed
  PROVE  /\ SizeOK' /\ CleanRun'
         /\ size' < size => ceiling' # None /\ (ceiling # None => ceiling' < ceiling)
<1>1. /\ Top \in Nat /\ Top >= 1
      /\ ProbeRun \in Nat /\ ProbeRun >= 1
  BY TopPositive, SizesAssumption
<1>2. CASE size = 1
  <2>1. size' = 1 /\ ceiling' = ceiling /\ failedAt' = failedAt /\ run' = 0 /\ clean' = 0
    BY <1>2 DEF Failed, SettleBatchSize, LargerOf
  <2> QED BY <1>1, <1>2, <2>1 DEF SizeOK, CleanRun, None
<1>3. CASE size # 1
  <2>1. size \in 2..Top /\ size' \in 1..(size - 1)
    BY <1>1, <1>3 DEF Failed, SizeOK, SettleBatchSize, LargerOf
  <2>2. ceiling' = size /\ failedAt' = size /\ run' = 0 /\ clean' = 0
    BY <1>1, <2>1 DEF Failed, Lowered, SettleBatchSize, SmallerOf, SizeOK, None
  <2> QED BY <1>1, <2>1, <2>2 DEF SizeOK, CleanRun, None
<1> QED BY <1>2, <1>3

\* One step of the lane, or none, preserves the invariant.
LEMMA StepInv == SizeOK /\ CleanRun /\ [Next]_lane => SizeOK' /\ CleanRun'
<1> SUFFICES ASSUME SizeOK, CleanRun, [Next]_lane
             PROVE  SizeOK' /\ CleanRun'
  OBVIOUS
<1>1. CASE UNCHANGED lane
  BY <1>1 DEF lane, SizeOK, CleanRun
<1>2. CASE Next
  <2>2. CASE Succeeded
    BY <2>2, SucceededInv
  <2>3. CASE Failed
    BY <2>3, FailedInv
  <2> QED BY <1>2, <2>2, <2>3 DEF Next
<1> QED BY <1>1, <1>2

\* The size is always one the lane may claim, strictly below the ceiling.
THEOREM SizeIsBounded == Spec => []SizeOK
<1>1. Spec => [](SizeOK /\ CleanRun)
  BY InitInv, StepInv, PTL DEF Spec
<1> QED BY <1>1, PTL

\* A size that failed is not used again before ProbeRun consecutive successes.
THEOREM FailedSizeIsAvoided == Spec => []ProbesOnlyAfterCleanRun
<1>1. SizeOK /\ CleanRun => ProbesOnlyAfterCleanRun
  <2> SUFFICES ASSUME SizeOK, CleanRun, failedAt # None, run < ProbeRun
               PROVE  size < failedAt
    BY DEF ProbesOnlyAfterCleanRun
  <2>1. ceiling # None /\ ceiling <= failedAt /\ size < ceiling
    BY DEF CleanRun, SizeOK
  <2> QED BY <2>1, TopPositive DEF SizeOK
<1>2. Spec => [](SizeOK /\ CleanRun)
  BY InitInv, StepInv, PTL DEF Spec
<1> QED BY <1>1, <1>2, PTL

\* Every failure that costs the lane size sets or strictly lowers its ceiling.
THEOREM FailuresLearn == Spec => EveryFailureLearns
<1> DEFINE Learns == size' < size => /\ ceiling' # None
                                     /\ ceiling # None => ceiling' < ceiling
<1>1. SizeOK /\ CleanRun /\ [Next]_lane => [Learns]_lane
  <2> SUFFICES ASSUME SizeOK, CleanRun, Next
               PROVE  Learns
    BY DEF lane
  <2>2. CASE Succeeded
    <3>1. SizeOK'
      BY <2>2, SucceededInv
    <3>2. size' >= size
      BY <2>2, TopPositive DEF Succeeded, SettleBatchSize, SizeOK, SmallerOf, LargerOf, GrowLimit, Probed, None
    <3> QED BY <3>1, <3>2 DEF SizeOK
  <2>3. CASE Failed
    BY <2>3, FailedInv
  <2> QED BY <2>2, <2>3 DEF Next
<1>2. Spec => [](SizeOK /\ CleanRun)
  BY InitInv, StepInv, PTL DEF Spec
<1> QED BY <1>1, <1>2, PTL DEF Spec, EveryFailureLearns

\* The lane in front of a chain with a fixed limit is one of the lanes the
\* theorems are about.
THEOREM ThresholdIsLane == ThresholdSpec => Spec
<1>1. ThresholdInit => Init
  BY DEF ThresholdInit
<1>2. [ThresholdNext]_vars => [Next]_lane
  BY DEF ThresholdNext, ChainTakes, ChainRefuses, ChainSlips, Next, vars
<1> QED BY <1>1, <1>2, PTL DEF ThresholdSpec, Spec
================================================================================

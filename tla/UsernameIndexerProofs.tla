------------------------ MODULE UsernameIndexerProofs ------------------------
(***************************************************************************)
(* Proofs about UsernameIndexer, for any number of replicas and accounts   *)
(* and for every fork and finality schedule of the chain.                  *)
(***************************************************************************)
EXTENDS UsernameIndexer, SequenceTheorems, TLAPS

PassPCs == {"lock", "index", "plan", "window", "held", "admit"}
HoldPCs == {"snapshot", "scan", "stamp", "index", "plan", "window", "held", "admit"}

RowType == [name : Names \cup {None}, speculative : BOOLEAN]

(***************************************************************************)
(* The chain.                                                              *)
(***************************************************************************)

\* Every block that changes an account names it.
Linked == \A h \in 2..Len(chain), a \in Accounts :
            a \notin chain[h].touched => chain[h].state[a] = chain[h - 1].state[a]

\* What is final stays.
FinalKept == /\ finalized <= finalized'
             /\ \A h \in 1..finalized : chain'[h] = chain[h]

\* Genesis is a block, and a missing row a row.
LEMMA GenesisTyped == Genesis \in Blocks /\ NoRow \in RowType
BY DEF Genesis, Blocks, Values, NoRow, RowType

\* What a chain holds is blocks.
LEMMA BlockTyped ==
    ASSUME TypeOK, NEW h \in 1..Len(chain)
    PROVE  /\ chain[h] \in Blocks
           /\ chain[h].touched \subseteq Accounts
           /\ \A a \in Accounts : chain[h].state[a] \in Values
<1>1. chain \in Seq(Blocks)
  BY DEF TypeOK
<1>2. chain[h] \in Blocks
  BY <1>1
<1>3. QED
  BY <1>2 DEF Blocks

\* A chain move keeps its type, its links and what is final.
LEMMA ChainStep ==
    ASSUME TypeOK, Linked, Produce \/ Finalize \/ Reorg
    PROVE  /\ chain' \in Seq(Blocks) /\ finalized' \in 1..Len(chain') /\ produced' \in Nat
           /\ Linked' /\ FinalKept
<1>0. chain \in Seq(Blocks) /\ finalized \in 1..Len(chain) /\ Len(chain) \in Nat
  BY DEF TypeOK
<1>1. CASE Produce
  <2>1. PICK a \in Accounts, v \in Values :
           chain' = Append(chain, [state   |-> [chain[Len(chain)].state EXCEPT ![a] = v],
                                   touched |-> IF v = chain[Len(chain)].state[a] THEN {} ELSE {a}])
    BY <1>1 DEF Produce
  <2> DEFINE tip == chain[Len(chain)].state
             b   == [state |-> [tip EXCEPT ![a] = v], touched |-> IF v = tip[a] THEN {} ELSE {a}]
  <2>2. tip \in [Accounts -> Values]
    <3>1. Len(chain) \in 1..Len(chain)
      BY <1>0
    <3>2. QED
      BY <3>1, BlockTyped DEF Blocks
  <2>3. b \in Blocks
    BY <2>2 DEF Blocks
  <2>4. \A c \in Accounts : c \notin b.touched => b.state[c] = tip[c]
    BY <2>2
  <2>5. chain' = Append(chain, b)
    BY <2>1
  <2> HIDE DEF b
  <2>6. /\ chain' \in Seq(Blocks) /\ Len(chain') = Len(chain) + 1
        /\ \A h \in 1..Len(chain) : chain'[h] = chain[h]
        /\ chain'[Len(chain) + 1] = b
    BY <1>0, <2>3, <2>5
  <2>7. Linked'
    BY <1>0, <2>4, <2>6 DEF Linked
  <2>8. produced' \in Nat /\ finalized' = finalized
    BY <1>1 DEF Produce, TypeOK
  <2>9. QED
    BY <1>0, <2>6, <2>7, <2>8 DEF FinalKept
<1>2. CASE Finalize
  <2>1. /\ chain' = chain /\ finalized < Len(chain) /\ finalized' = finalized + 1
        /\ produced' \in Nat
    BY <1>2 DEF Finalize, TypeOK
  <2>2. Linked'
    BY <2>1 DEF Linked
  <2>3. QED
    BY <1>0, <2>1, <2>2 DEF FinalKept
<1>3. CASE Reorg
  <2>1. chain' = SubSeq(chain, 1, Len(chain) - 1) /\ finalized' = finalized
        /\ finalized < Len(chain) /\ produced' = produced
    BY <1>3 DEF Reorg
  <2>2. /\ chain' \in Seq(Blocks) /\ Len(chain') = Len(chain) - 1
        /\ \A h \in 1..(Len(chain) - 1) : chain'[h] = chain[h]
    BY <1>0, <2>1
  <2>3. Linked'
    BY <1>0, <2>2 DEF Linked
  <2>4. QED
    BY <1>0, <2>1, <2>2, <2>3 DEF FinalKept, TypeOK
<1>4. QED
  BY <1>1, <1>2, <1>3

(***************************************************************************)
(* Types, and where the loops of a replica are.                            *)
(***************************************************************************)

\* A pass and a scan read blocks the chain has.
Steady(i) ==
    /\ pc[i] \in PassPCs => fin[i] \in 1..finalized
    /\ pc[i] = "index" => at[i] \in 1..fin[i]
    /\ pc[i] \in {"scan", "stamp"} => at[i] \in 1..finalized
    /\ pc[i] = "window" => pos[i] >= 1

Basis == /\ TypeOK
         /\ Linked
         /\ \A i \in Replicas : Steady(i)

\* The part of TypeOK that is about replicas.
PassTyped == /\ fin \in [Replicas -> Nat] /\ best \in [Replicas -> Nat]
             /\ at \in [Replicas -> Nat] /\ todo \in [Replicas -> SUBSET Accounts]
             /\ pos \in [Replicas -> Nat] /\ pin \in [Replicas -> Blocks]

LockTyped == /\ lock \in Replicas \cup {None}
             /\ lock # None => pc[lock] \in HoldPCs
             /\ pc \in [Replicas -> PCs]

\* What a step of i leaves alone: the chain, and what the other replicas work with.
Apart(i) ==
    /\ UNCHANGED <<chainVars, lost>>
    /\ \A j \in Replicas \ {i} : /\ pc'[j] = pc[j] /\ fin'[j] = fin[j] /\ at'[j] = at[j]
                                 /\ todo'[j] = todo[j] /\ pos'[j] = pos[j]

Parts == /\ chain \in Seq(Blocks) /\ finalized \in 1..Len(chain) /\ produced \in Nat
         /\ row \in [Accounts -> RowType]
         /\ checkpoint \in [number : Nat, genesis : {"none", "this", "another"}]
         /\ LockTyped /\ PassTyped
         /\ cache \in [Replicas -> [Heights -> Blocks \cup {None}]]
         /\ faults \in Nat /\ lost \subseteq {"scan", "pass"}
         /\ quiet \in [Replicas -> BOOLEAN]

\* TypeOK by its parts, now and after a step.
LEMMA TypeParts == (TypeOK <=> Parts) /\ (TypeOK' <=> Parts')
<1>1. PCs \ {"down", "seed", "idle", "lock"} = HoldPCs
  BY DEF PCs, HoldPCs
<1>2. TypeOK <=> Parts
  BY <1>1 DEF TypeOK, Parts, LockTyped, PassTyped, RowType
<1>3. TypeOK' <=> Parts'
  BY <1>1 DEF TypeOK, Parts, LockTyped, PassTyped, RowType
<1>4. QED
  BY <1>2, <1>3

\* A replica that works counts no fault and leaves the chain alone.
LEMMA WorkingTyped ==
    ASSUME TypeOK, NEW i \in Replicas, Working(i)
    PROVE  /\ UNCHANGED <<chainVars, lost>> /\ faults' \in Nat
           /\ quiet' \in [Replicas -> BOOLEAN]
<1>1. quiet \in [Replicas -> BOOLEAN] /\ faults \in Nat
  BY DEF TypeOK
<1>2. quiet' = [quiet EXCEPT ![i] = quiet[i] /\ pc'[i] # "idle"]
  BY DEF Working
<1>3. (quiet[i] /\ pc'[i] # "idle") \in BOOLEAN
  OBVIOUS
<1>4. quiet' \in [Replicas -> BOOLEAN]
  BY <1>1, <1>2, <1>3, Zenon
<1>5. QED
  BY <1>1, <1>4 DEF Working, NoFault

\* Forgetting a pass keeps the types, and concerns one replica.
LEMMA ForgetTyped ==
    ASSUME TypeOK, NEW i \in Replicas, Forget(i)
    PROVE  /\ PassTyped'
           /\ \A j \in Replicas \ {i} : /\ fin'[j] = fin[j] /\ at'[j] = at[j]
                                        /\ todo'[j] = todo[j] /\ pos'[j] = pos[j]
BY TypeParts, GenesisTyped DEF Parts, PassTyped, Forget

\* A replica that is not at work any more does not hold the lock.
LEMMA ReleaseTyped ==
    ASSUME TypeOK, NEW i \in Replicas, Release(i), NEW to \in PCs,
           pc' = [pc EXCEPT ![i] = to]
    PROVE  LockTyped' /\ lock' # i
BY TypeParts, DistinctValues DEF Parts, LockTyped, Release, DistinctValues

\* A pass that ends leaves everything typed.
LEMMA EndPassTyped ==
    ASSUME TypeOK, NEW i \in Replicas, EndPass(i)
    PROVE  /\ LockTyped' /\ PassTyped' /\ lock' # i /\ pc'[i] = "idle"
           /\ \A j \in Replicas \ {i} : /\ pc'[j] = pc[j] /\ fin'[j] = fin[j] /\ at'[j] = at[j]
                                        /\ todo'[j] = todo[j] /\ pos'[j] = pos[j]
<1>1. "idle" \in PCs /\ pc' = [pc EXCEPT ![i] = "idle"] /\ Release(i) /\ Forget(i)
  BY DEF EndPass, PCs
<1>2. QED
  BY <1>1, ReleaseTyped, ForgetTyped DEF TypeOK

\* Rows that upserts leave are rows.
LEMMA FinalTyped ==
    ASSUME NEW a, NEW v \in Values
    PROVE  /\ Final(a, v) \in RowType /\ Final(a, v).speculative = FALSE
           /\ v # None => Final(a, v) # NoRow
BY DistinctValues DEF Final, RowType, NoRow, Values, DistinctValues

\* A step of a replica that moves it between two places where it holds the lock.
LEMMA HoldTyped ==
    ASSUME TypeOK, NEW i \in Replicas, NEW to \in HoldPCs, pc' = [pc EXCEPT ![i] = to],
           lock' = lock \/ lock' = i
    PROVE  LockTyped' /\ pc'[i] = to /\ \A j \in Replicas \ {i} : pc'[j] = pc[j]
BY TypeParts, DistinctValues DEF Parts, LockTyped, HoldPCs, PCs, DistinctValues

\* The parts put together again.
LEMMA BasisParts ==
    ASSUME Basis, NEW i \in Replicas, Apart(i),
           row' \in [Accounts -> RowType],
           checkpoint' \in [number : Nat, genesis : {"none", "this", "another"}],
           LockTyped', PassTyped', cache' \in [Replicas -> [Heights -> Blocks \cup {None}]],
           faults' \in Nat, quiet' \in [Replicas -> BOOLEAN], Steady(i)'
    PROVE  Basis'
<1>1. TypeOK /\ UNCHANGED <<chain, finalized, produced, lost>>
  BY DEF Basis, Apart, chainVars
<1>2. TypeOK'
  BY <1>1, TypeParts DEF Parts
<1>3. Linked'
  BY <1>1 DEF Basis, Linked
<1>4. \A j \in Replicas \ {i} : Steady(j)'
  BY <1>1 DEF Basis, Steady, Apart
<1>5. QED
  BY <1>2, <1>3, <1>4 DEF Basis

\* Every step of a replica keeps the types and its loops within the chain.
LEMMA ReplicaBasis ==
    ASSUME Basis, NEW i \in Replicas, ReplicaStep(i) \/ PassFails(i) \/ Crash(i)
    PROVE  Basis' /\ Apart(i)
<1> USE DEF dbVars, passVars
<1>0. /\ TypeOK /\ Parts /\ Steady(i) /\ finalized \in Nat \ {0} /\ Len(chain) \in Nat
      /\ finalized <= Len(chain)
  BY TypeParts DEF Basis, Parts
<1>t. PassTyped /\ row \in [Accounts -> RowType] /\ pc \in [Replicas -> PCs] /\ faults \in Nat
  BY <1>0 DEF Parts, LockTyped
<1>1. CASE Start(i)
  <2>1. row' \in [Accounts -> RowType]
    BY <1>t, <1>1, GenesisTyped DEF Start
  <2>2. pc' = [pc EXCEPT ![i] = "seed"] /\ UNCHANGED <<checkpoint, lock, passVars>> /\ Working(i)
    BY <1>1 DEF Start
  <2>3. lock # i
    BY <1>0, <1>1, DistinctValues DEF Parts, LockTyped, HoldPCs, Start, DistinctValues
  <2>4. LockTyped'
    BY <1>0, <2>2, <2>3 DEF Parts, LockTyped, PCs
  <2>5. Steady(i)' /\ Apart(i) /\ PassTyped'
    BY <1>0, <1>t, <2>2, WorkingTyped DEF Steady, Apart, PassPCs, PassTyped
  <2>6. QED
    BY <1>0, <2>1, <2>2, <2>4, <2>5, WorkingTyped, BasisParts DEF Parts
<1>2. CASE EnsureSeeded(i)
  <2>1. row' \in [Accounts -> RowType]
    BY <1>t, <1>2, GenesisTyped DEF EnsureSeeded
  <2>2. checkpoint' \in [number : Nat, genesis : {"none", "this", "another"}]
    BY <1>0, <1>2 DEF EnsureSeeded, Stamp, Parts
  <2>3. UNCHANGED passVars /\ Working(i)
    BY <1>2 DEF EnsureSeeded
  <2>4. /\ LockTyped' /\ pc'[i] \in {"snapshot", "idle"}
        /\ \A j \in Replicas \ {i} : pc'[j] = pc[j]
    <3>1. CASE lock' = i /\ pc' = [pc EXCEPT ![i] = "snapshot"]
      BY <1>0, <3>1, HoldTyped DEF HoldPCs
    <3>2. CASE lock' = lock /\ pc' = [pc EXCEPT ![i] = "idle"]
      <4>1. lock = None
        BY <1>2 DEF EnsureSeeded, Free
      <4>2. QED
        BY <1>t, <3>2, <4>1 DEF LockTyped, PCs
    <3>3. QED
      BY <1>2, <3>1, <3>2 DEF EnsureSeeded
  <2>5. Steady(i)' /\ Apart(i) /\ PassTyped'
    BY <1>0, <1>t, <2>3, <2>4, WorkingTyped DEF Steady, Apart, PassPCs, PassTyped
  <2>6. QED
    BY <1>0, <2>1, <2>2, <2>3, <2>4, <2>5, WorkingTyped, BasisParts DEF Parts
<1>3. CASE Snapshot(i)
  <2>1. /\ at' = [at EXCEPT ![i] = finalized] /\ pc' = [pc EXCEPT ![i] = "scan"]
        /\ UNCHANGED <<dbVars, lock, fin, best, pos, pin, cache>> /\ Working(i)
    BY <1>3 DEF Snapshot
  <2>2. todo' \in [Replicas -> SUBSET Accounts] /\ \A j \in Replicas \ {i} : todo'[j] = todo[j]
    BY <1>t, <1>3 DEF Snapshot, PassTyped
  <2>3. PassTyped'
    BY <1>0, <1>t, <2>1, <2>2 DEF PassTyped
  <2>4. LockTyped' /\ pc'[i] = "scan" /\ \A j \in Replicas \ {i} : pc'[j] = pc[j]
    BY <1>0, <2>1, HoldTyped DEF HoldPCs
  <2>5. Steady(i)' /\ Apart(i)
    BY <1>0, <1>t, <2>1, <2>2, <2>4, WorkingTyped DEF Steady, Apart, PassPCs, PassTyped, chainVars
  <2>6. QED
    BY <1>0, <2>1, <2>3, <2>4, <2>5, WorkingTyped, BasisParts DEF Parts
<1>4. CASE ScanPage(i)
  <2>1. PICK a \in todo[i] :
           /\ row'  = [row EXCEPT ![a] = Final(a, chain[at[i]].state[a])]
           /\ todo' = [todo EXCEPT ![i] = todo[i] \ {a}]
    BY <1>4 DEF ScanPage
  <2>2. /\ UNCHANGED <<checkpoint, lock, pc, fin, best, at, pos, pin, cache>> /\ Working(i)
        /\ pc[i] = "scan"
    BY <1>4 DEF ScanPage
  <2>3. at[i] \in 1..Len(chain) /\ a \in Accounts
    BY <1>0, <1>t, <2>1, <2>2 DEF Steady, PassTyped
  <2>4. Final(a, chain[at[i]].state[a]) \in RowType
    BY <1>0, <2>3, BlockTyped, FinalTyped
  <2>5. row' \in [Accounts -> RowType]
    BY <1>t, <2>1, <2>4
  <2>6. PassTyped' /\ LockTyped'
    BY <1>0, <1>t, <2>1, <2>2 DEF PassTyped, Parts, LockTyped
  <2>7. Steady(i)' /\ Apart(i)
    BY <1>0, <1>t, <2>1, <2>2, WorkingTyped DEF Steady, Apart, PassTyped, chainVars
  <2>8. QED
    BY <1>0, <2>2, <2>5, <2>6, <2>7, WorkingTyped, BasisParts DEF Parts
<1>5. CASE Sweep(i)
  <2>1. row' \in [Accounts -> RowType]
    BY <1>t, <1>5, GenesisTyped DEF Sweep
  <2>2. /\ pc' = [pc EXCEPT ![i] = "stamp"] /\ UNCHANGED <<checkpoint, lock, passVars>>
        /\ Working(i) /\ pc[i] = "scan"
    BY <1>5 DEF Sweep
  <2>3. LockTyped' /\ pc'[i] = "stamp" /\ \A j \in Replicas \ {i} : pc'[j] = pc[j]
    BY <1>0, <2>2, HoldTyped DEF HoldPCs
  <2>4. Steady(i)' /\ Apart(i) /\ PassTyped'
    BY <1>0, <1>t, <2>2, <2>3, WorkingTyped DEF Steady, Apart, PassPCs, PassTyped, chainVars
  <2>5. QED
    BY <1>0, <2>1, <2>2, <2>3, <2>4, WorkingTyped, BasisParts DEF Parts
<1>6. CASE WriteCheckpoint(i)
  <2>1. /\ pc' = [pc EXCEPT ![i] = "idle"] /\ Release(i) /\ Forget(i)
        /\ UNCHANGED <<row, cache>> /\ Working(i) /\ Stamp(at[i], "this")
    BY <1>6 DEF WriteCheckpoint
  <2>2. EndPass(i)
    BY <2>1 DEF EndPass
  <2>3. checkpoint' \in [number : Nat, genesis : {"none", "this", "another"}]
    BY <1>t, <2>1 DEF Stamp, PassTyped
  <2>4. Steady(i)' /\ Apart(i)
    BY <1>0, <2>1, <2>2, EndPassTyped, WorkingTyped DEF Steady, Apart, PassPCs
  <2>5. QED
    BY <1>0, <1>t, <2>1, <2>2, <2>3, <2>4, EndPassTyped, WorkingTyped, BasisParts DEF Parts
<1>7. CASE Wake(i)
  <2>1. PICK b \in {0, Len(chain)} : best' = [best EXCEPT ![i] = b]
    BY <1>7 DEF Wake
  <2>2. /\ quiet' = [quiet EXCEPT ![i] = TRUE] /\ fin' = [fin EXCEPT ![i] = finalized]
        /\ pc' = [pc EXCEPT ![i] = "lock"] /\ faults' = faults /\ pc[i] = "idle"
        /\ UNCHANGED <<chainVars, dbVars, lock, at, todo, pos, pin, cache, lost>>
    BY <1>7 DEF Wake, NoFault
  <2>3. lock # i
    BY <1>0, <2>2, DistinctValues DEF Parts, LockTyped, HoldPCs, DistinctValues
  <2>4. LockTyped' /\ PassTyped'
    BY <1>0, <1>t, <2>1, <2>2, <2>3 DEF Parts, LockTyped, PassTyped, PCs
  <2>5. quiet' \in [Replicas -> BOOLEAN]
    BY <1>0, <2>2, Zenon DEF Parts
  <2>6. Steady(i)' /\ Apart(i)
    BY <1>0, <1>t, <2>2 DEF Steady, Apart, PassPCs, PassTyped, chainVars
  <2>7. QED
    BY <1>0, <2>2, <2>4, <2>5, <2>6, BasisParts DEF Parts
<1>8. CASE TryLock(i)
  <2>0. UNCHANGED <<dbVars, cache>> /\ Working(i) /\ pc[i] = "lock"
    BY <1>8 DEF TryLock
  <2>1. CASE EndPass(i)
    <3>1. Steady(i)' /\ Apart(i)
      BY <1>0, <2>0, <2>1, EndPassTyped, WorkingTyped DEF Steady, Apart, PassPCs
    <3>2. QED
      BY <1>0, <1>t, <2>0, <2>1, <3>1, EndPassTyped, WorkingTyped, BasisParts DEF Parts
  <2>2. CASE ~EndPass(i)
    <3>1. PICK n \in {0, checkpoint.number + 1}, to \in {"plan", "index"} :
             /\ lock' = i /\ at' = [at EXCEPT ![i] = n] /\ pc' = [pc EXCEPT ![i] = to]
             /\ UNCHANGED <<fin, best, todo, pos, pin>>
             /\ to = "index" => n = checkpoint.number + 1 /\ fin[i] > checkpoint.number
      BY <1>8, <1>0, <1>t, <2>2 DEF TryLock, Parts, PassTyped
    <3>2. n \in Nat /\ checkpoint.number \in Nat
      BY <1>0 DEF Parts
    <3>3. PassTyped'
      BY <1>t, <3>1, <3>2 DEF PassTyped
    <3>4. LockTyped' /\ pc'[i] = to /\ \A j \in Replicas \ {i} : pc'[j] = pc[j]
      BY <1>0, <3>1, HoldTyped DEF HoldPCs
    <3>5. Steady(i)' /\ Apart(i)
      BY <1>0, <1>t, <2>0, <3>1, <3>2, <3>4, WorkingTyped
      DEF Steady, Apart, PassPCs, PassTyped, chainVars
    <3>6. QED
      BY <1>0, <1>t, <2>0, <3>3, <3>4, <3>5, WorkingTyped, BasisParts DEF Parts
  <2>3. QED
    BY <2>1, <2>2
<1>9. CASE IndexBlock(i)
  <2>0. /\ pc[i] = "index" /\ Working(i) /\ at' = [at EXCEPT ![i] = at[i] + 1]
        /\ UNCHANGED <<lock, fin, best, todo, pos, pin, cache>>
    BY <1>9 DEF IndexBlock
  <2>1. at[i] \in 1..Len(chain) /\ at[i] <= fin[i] /\ at[i] \in Nat
    BY <1>0, <1>t, <2>0 DEF Steady, PassTyped, PassPCs
  <2>2. \A a \in Accounts : Final(a, chain[at[i]].state[a]) \in RowType
    BY <1>0, <2>1, BlockTyped, FinalTyped
  <2>3. row' \in [Accounts -> RowType]
    BY <1>t, <1>9, <2>2 DEF IndexBlock
  <2>4. checkpoint' \in [number : Nat, genesis : {"none", "this", "another"}]
    BY <1>0, <1>9, <2>1 DEF IndexBlock, Parts
  <2>5. PICK to \in {"plan", "index"} : /\ pc' = [pc EXCEPT ![i] = to]
                                        /\ to = "index" => at[i] # fin[i]
    BY <1>9 DEF IndexBlock
  <2>6. LockTyped' /\ pc'[i] = to /\ \A j \in Replicas \ {i} : pc'[j] = pc[j]
    BY <1>0, <2>0, <2>5, HoldTyped DEF HoldPCs
  <2>7. PassTyped'
    BY <1>t, <2>0, <2>1 DEF PassTyped
  <2>8. Steady(i)' /\ Apart(i)
    BY <1>0, <1>t, <2>0, <2>1, <2>5, <2>6, WorkingTyped
    DEF Steady, Apart, PassPCs, PassTyped, chainVars
  <2>9. QED
    BY <1>0, <2>0, <2>3, <2>4, <2>6, <2>7, <2>8, WorkingTyped, BasisParts DEF Parts
<1>10. CASE PlanWindow(i)
  <2>0. /\ pc[i] = "plan" /\ Working(i) /\ pos' = [pos EXCEPT ![i] = fin[i] + 1]
        /\ todo' = [todo EXCEPT ![i] = {}] /\ UNCHANGED <<dbVars, lock, fin, at, pin>>
    BY <1>10 DEF PlanWindow
  <2>1. PICK b \in {best[i], Len(chain)}, to \in {"held", "window"} :
           best' = [best EXCEPT ![i] = b] /\ pc' = [pc EXCEPT ![i] = to]
    BY <1>10 DEF PlanWindow
  <2>2. cache' \in [Replicas -> [Heights -> Blocks \cup {None}]]
    BY <1>0, <1>10 DEF PlanWindow, Parts
  <2>3. LockTyped' /\ pc'[i] = to /\ \A j \in Replicas \ {i} : pc'[j] = pc[j]
    BY <1>0, <2>0, <2>1, HoldTyped DEF HoldPCs
  <2>4. PassTyped'
    BY <1>0, <1>t, <2>0, <2>1 DEF PassTyped
  <2>5. Steady(i)' /\ Apart(i)
    BY <1>0, <1>t, <2>0, <2>3, WorkingTyped DEF Steady, Apart, PassPCs, PassTyped, chainVars
  <2>6. QED
    BY <1>0, <1>t, <2>0, <2>2, <2>3, <2>4, <2>5, WorkingTyped, BasisParts DEF Parts
<1>11. CASE ScanWindow(i)
  <2>0. UNCHANGED dbVars /\ Working(i) /\ pc[i] = "window"
    BY <1>11 DEF ScanWindow
  <2>1. CASE EndPass(i) /\ UNCHANGED cache
    <3>1. Steady(i)' /\ Apart(i)
      BY <1>0, <2>0, <2>1, EndPassTyped, WorkingTyped DEF Steady, Apart, PassPCs
    <3>2. QED
      BY <1>0, <1>t, <2>0, <2>1, <3>1, EndPassTyped, WorkingTyped, BasisParts DEF Parts
  <2>2. CASE ~(EndPass(i) /\ UNCHANGED cache)
    <3>0. /\ pos[i] <= Len(chain)
          /\ todo'  = [todo EXCEPT ![i] = todo[i] \cup CachedAccounts(i, pos[i])]
          /\ cache' = [cache EXCEPT ![i][pos[i]] = chain[pos[i]]]
          /\ pos'   = [pos EXCEPT ![i] = pos[i] + 1]
          /\ UNCHANGED <<lock, fin, best, at, pin>>
      BY <1>11, <2>2 DEF ScanWindow
    <3>1. PICK to \in {"held", "window"} : pc' = [pc EXCEPT ![i] = to]
      BY <1>11, <2>2 DEF ScanWindow
    <3>2. pos[i] \in 1..Len(chain)
      BY <1>0, <1>t, <2>0, <3>0 DEF Steady, PassTyped
    <3>3. CachedAccounts(i, pos[i]) \subseteq Accounts /\ chain[pos[i]] \in Blocks
      BY <1>0, <3>2, BlockTyped DEF CachedAccounts
    <3>4. cache' \in [Replicas -> [Heights -> Blocks \cup {None}]]
      BY <1>0, <3>0, <3>3 DEF Parts
    <3>5. LockTyped' /\ pc'[i] = to /\ \A j \in Replicas \ {i} : pc'[j] = pc[j]
      BY <1>0, <3>0, <3>1, HoldTyped DEF HoldPCs
    <3>6. PassTyped'
      BY <1>0, <1>t, <3>0, <3>3 DEF PassTyped
    <3>7. Steady(i)' /\ Apart(i)
      BY <1>0, <1>t, <2>0, <3>0, <3>2, <3>5, WorkingTyped
      DEF Steady, Apart, PassPCs, PassTyped, chainVars
    <3>8. QED
      BY <1>0, <1>t, <2>0, <3>4, <3>5, <3>6, <3>7, WorkingTyped, BasisParts DEF Parts
  <2>3. QED
    BY <2>1, <2>2
<1>12. CASE PinHead(i)
  <2>0. UNCHANGED <<dbVars, cache>> /\ Working(i) /\ pc[i] = "held"
    BY <1>12 DEF PinHead
  <2>1. CASE EndPass(i)
    <3>1. Steady(i)' /\ Apart(i)
      BY <1>0, <2>0, <2>1, EndPassTyped, WorkingTyped DEF Steady, Apart, PassPCs
    <3>2. QED
      BY <1>0, <1>t, <2>0, <2>1, <3>1, EndPassTyped, WorkingTyped, BasisParts DEF Parts
  <2>2. CASE ~EndPass(i)
    <3>0. /\ Max2(best[i], fin[i]) <= Len(chain)
          /\ todo' = [todo EXCEPT ![i] = Affected(i)]
          /\ pin'  = [pin EXCEPT ![i] = chain[Max2(best[i], fin[i])]]
          /\ pc'   = [pc EXCEPT ![i] = "admit"]
          /\ UNCHANGED <<lock, fin, best, at, pos>>
      BY <1>12, <2>2 DEF PinHead
    <3>1. Max2(best[i], fin[i]) \in 1..Len(chain)
      BY <1>0, <1>t, <2>0, <3>0 DEF Max2, Steady, PassPCs, PassTyped
    <3>2. chain[Max2(best[i], fin[i])] \in Blocks
      BY <1>0, <3>1, BlockTyped
    <3>3. Affected(i) \subseteq Accounts
      BY <1>t DEF Affected, SpeculativeAccounts, PassTyped
    <3>4. PassTyped'
      BY <1>t, <3>0, <3>2, <3>3 DEF PassTyped
    <3>5. LockTyped' /\ pc'[i] = "admit" /\ \A j \in Replicas \ {i} : pc'[j] = pc[j]
      BY <1>0, <3>0, HoldTyped DEF HoldPCs
    <3>6. Steady(i)' /\ Apart(i)
      BY <1>0, <1>t, <2>0, <3>0, <3>5, WorkingTyped
      DEF Steady, Apart, PassPCs, PassTyped, chainVars
    <3>7. QED
      BY <1>0, <1>t, <2>0, <3>4, <3>5, <3>6, WorkingTyped, BasisParts DEF Parts
  <2>3. QED
    BY <2>1, <2>2
<1>13. CASE Admit(i)
  <2>1. EndPass(i) /\ UNCHANGED <<checkpoint, cache>> /\ Working(i)
    BY <1>13 DEF Admit
  <2>2. pin[i] \in Blocks
    BY <1>t DEF PassTyped
  <2>3. \A a \in Accounts : pin[i].state[a] \in Names \cup {None}
    BY <2>2 DEF Blocks, Values
  <2>4. \A a \in Accounts : Speculate(a, pin[i].state[a]) \in RowType
    BY <1>t, <2>3, GenesisTyped DEF Speculate, RowType
  <2>5. row' \in [Accounts -> RowType]
    BY <1>t, <1>13, <2>4 DEF Admit
  <2>6. Steady(i)' /\ Apart(i)
    BY <1>0, <2>1, EndPassTyped, WorkingTyped DEF Steady, Apart, PassPCs
  <2>7. QED
    BY <1>0, <2>1, <2>5, <2>6, EndPassTyped, WorkingTyped, BasisParts DEF Parts
<1>14. CASE PassFails(i)
  <2>1. /\ EndPass(i) /\ quiet' = [quiet EXCEPT ![i] = FALSE] /\ faults' = faults + 1
        /\ UNCHANGED <<chainVars, dbVars, cache, lost>>
    BY <1>14 DEF PassFails, Fault
  <2>2. quiet' \in [Replicas -> BOOLEAN]
    BY <1>0, <2>1, Zenon DEF Parts
  <2>3. Steady(i)' /\ Apart(i)
    BY <1>0, <2>1, EndPassTyped DEF Steady, Apart, PassPCs
  <2>4. QED
    BY <1>0, <1>t, <2>1, <2>2, <2>3, EndPassTyped, BasisParts DEF Parts
<1>15. CASE Crash(i)
  <2>1. /\ pc' = [pc EXCEPT ![i] = "down"] /\ Forget(i) /\ Release(i)
        /\ quiet' = [quiet EXCEPT ![i] = FALSE] /\ faults' = faults + 1
        /\ cache' = [cache EXCEPT ![i] = NoCache]
        /\ UNCHANGED <<chainVars, dbVars, lost>>
    BY <1>15 DEF Crash, Fault
  <2>2. quiet' \in [Replicas -> BOOLEAN]
    BY <1>0, <2>1, Zenon DEF Parts
  <2>3. cache' \in [Replicas -> [Heights -> Blocks \cup {None}]]
    BY <1>0, <2>1 DEF Parts, NoCache
  <2>4. LockTyped'
    BY <1>0, <2>1, ReleaseTyped DEF PCs
  <2>5. PassTyped' /\ Steady(i)' /\ Apart(i)
    BY <1>0, <1>t, <2>1, ForgetTyped DEF Steady, Apart, PassPCs
  <2>6. QED
    BY <1>0, <1>t, <2>1, <2>2, <2>3, <2>4, <2>5, BasisParts DEF Parts
<1>16. QED
  BY <1>1, <1>2, <1>3, <1>4, <1>5, <1>6, <1>7, <1>8, <1>9, <1>10, <1>11, <1>12, <1>13,
     <1>14, <1>15 DEF ReplicaStep

\* A move of the chain keeps the types and the loops within the chain.
LEMMA ChainBasis ==
    ASSUME Basis, Produce \/ Finalize \/ Reorg
    PROVE  /\ Basis' /\ FinalKept
           /\ UNCHANGED <<dbVars, lock, pc, passVars, faults, lost>>
<1> USE DEF dbVars, passVars
<1>1. /\ UNCHANGED <<dbVars, lock, pc, passVars, faults, lost>>
      /\ quiet' = [i \in Replicas |-> FALSE]
  BY DEF Produce, Finalize, Reorg, ChainMoves, NoFault
<1>2. /\ chain' \in Seq(Blocks) /\ finalized' \in 1..Len(chain') /\ produced' \in Nat
      /\ Linked' /\ FinalKept
  BY ChainStep DEF Basis
<1>3. Parts /\ finalized \in Nat
  BY TypeParts DEF Basis, Parts
<1>4. Parts'
  BY <1>1, <1>2, <1>3 DEF Parts, LockTyped, PassTyped
<1>5. \A i \in Replicas : Steady(i)'
  <2> SUFFICES ASSUME NEW i \in Replicas PROVE Steady(i)'
    OBVIOUS
  <2>1. Steady(i) /\ fin[i] \in Nat /\ at[i] \in Nat /\ finalized' \in Nat
        /\ finalized <= finalized'
    BY <1>2, <1>3 DEF Basis, Parts, PassTyped, FinalKept
  <2>2. QED
    BY <1>1, <1>3, <2>1 DEF Steady
<1>6. QED
  BY <1>1, <1>2, <1>4, <1>5, TypeParts DEF Basis

\* A session that dies keeps them too.
LEMMA LostBasis ==
    ASSUME Basis, LockLost
    PROVE  /\ Basis' /\ lost' # {}
           /\ UNCHANGED <<chainVars, dbVars, pc, passVars>>
<1> USE DEF dbVars, passVars, chainVars
<1>1. /\ UNCHANGED <<chainVars, dbVars, pc, passVars, quiet>> /\ lock' = None
      /\ faults' = faults + 1
      /\ \E w \in {"scan", "pass"} : lost' = lost \cup {w}
  BY DEF LockLost, Fault
<1>2. Parts
  BY TypeParts DEF Basis
<1>3. Parts'
  BY <1>1, <1>2 DEF Parts, LockTyped, PassTyped
<1>4. QED
  BY <1>1, <1>3, TypeParts DEF Basis, Linked, Steady

\* Basis is inductive.
LEMMA BasisStep ==
    ASSUME Basis, [Next]_vars
    PROVE  Basis'
<1>1. CASE UNCHANGED vars
  BY <1>1 DEF vars, chainVars, dbVars, passVars, Basis, TypeOK, Linked, Steady
<1>2. QED
  BY <1>1, ReplicaBasis, ChainBasis, LostBasis DEF Next

\* A database that is empty or of another chain, and replicas that are down.
LEMMA BasisInit == Init => Basis
<1> SUFFICES ASSUME Init PROVE Basis
  OBVIOUS
<1>1. chain \in Seq(Blocks) /\ Len(chain) = 1 /\ Linked
  BY GenesisTyped DEF Init, Linked
<1>2. row \in [Accounts -> RowType]
  <2>1. \A n \in Names : [name |-> n, speculative |-> FALSE] \in RowType
    BY DEF RowType
  <2>2. \/ row = [a \in Accounts |-> NoRow]
        \/ row \in [Accounts -> {[name |-> n, speculative |-> FALSE] : n \in Names}]
    BY DEF Init
  <2>3. QED
    BY <2>1, <2>2, GenesisTyped
<1>3. checkpoint \in [number : Nat, genesis : {"none", "this", "another"}]
  BY IndexerBounds DEF Init, IndexerBounds
<1>4. LockTyped /\ PassTyped /\ finalized \in 1..Len(chain) /\ produced \in Nat
  BY <1>1, GenesisTyped DEF Init, LockTyped, PassTyped, PCs
<1>5. cache \in [Replicas -> [Heights -> Blocks \cup {None}]]
  BY DEF Init, NoCache
<1>6. faults \in Nat /\ lost \subseteq {"scan", "pass"} /\ quiet \in [Replicas -> BOOLEAN]
  BY DEF Init
<1>7. \A i \in Replicas : Steady(i)
  BY DEF Init, Steady, PassPCs
<1>8. QED
  BY <1>1, <1>2, <1>3, <1>4, <1>5, <1>6, <1>7, TypeParts DEF Basis, Parts

\* The types hold, and no replica reads a block the chain does not have: the finalized
\* range a pass walks and the snapshot of a scan stay below the finalized head, whatever
\* forks, crashes and lost sessions there are.
THEOREM BasisHolds == Spec => []Basis
BY BasisInit, BasisStep, PTL DEF Spec

\* Every variable keeps its type, and only a replica at work holds the projection lock.
THEOREM TypeCorrect == Spec => []TypeOK
<1>1. Basis => TypeOK
  BY DEF Basis
<1>2. QED
  BY <1>1, BasisHolds, PTL

(***************************************************************************)
(* The checkpoint.                                                         *)
(***************************************************************************)

\* A replica that runs passes has seen a checkpoint of this chain, and no step takes
\* that away.
ThisChain == checkpoint.number > 0 /\ checkpoint.genesis = "this"
Seeded    == \A i \in Replicas : pc[i] \in PassPCs \cup {"idle"} => ThisChain

\* What the holder of the lock has done so far.
Exact(i) ==
    /\ pc[i] \in HoldPCs => lock = i
    /\ pc[i] \in {"snapshot", "scan", "stamp"} => checkpoint.number = 0
    /\ pc[i] = "scan" => \A a \in Accounts \ todo[i] :
          chain[at[i]].state[a] # None => row[a] = Final(a, chain[at[i]].state[a])
    /\ pc[i] = "stamp" => \A a \in Accounts : row[a] = Final(a, chain[at[i]].state[a])
    /\ pc[i] = "index" => at[i] = checkpoint.number + 1

\* A step of a replica keeps it seeded.
LEMMA SeededStep ==
    ASSUME Basis, Seeded, NEW i \in Replicas, ReplicaStep(i) \/ PassFails(i) \/ Crash(i)
    PROVE  Seeded'
<1> USE DEF dbVars, passVars
<1>0. /\ Parts /\ Steady(i) /\ Apart(i) /\ pc \in [Replicas -> PCs] /\ finalized \in Nat
      /\ at \in [Replicas -> Nat] /\ fin \in [Replicas -> Nat]
      /\ checkpoint \in [number : Nat, genesis : {"none", "this", "another"}]
  <2>1. Parts /\ Steady(i) /\ Apart(i)
    BY TypeParts, ReplicaBasis DEF Basis
  <2>2. QED
    BY <2>1 DEF Parts, LockTyped, PassTyped
<1>1. ThisChain => ThisChain'
  <2>1. CASE EnsureSeeded(i)
    BY <1>0, <2>1 DEF EnsureSeeded, Stamp, ThisChain
  <2>2. CASE WriteCheckpoint(i)
    BY <1>0, <2>2 DEF WriteCheckpoint, Stamp, ThisChain, Steady
  <2>3. CASE IndexBlock(i)
    BY <1>0, <2>3 DEF IndexBlock, ThisChain, Steady, PassPCs
  <2>4. CASE ~EnsureSeeded(i) /\ ~WriteCheckpoint(i) /\ ~IndexBlock(i)
    BY <2>4 DEF ThisChain, ReplicaStep, Start, Snapshot, ScanPage, Sweep, Wake, TryLock,
                PlanWindow, ScanWindow, PinHead, Admit, PassFails, Crash
  <2>5. QED
    BY <2>1, <2>2, <2>3, <2>4
<1>2. pc'[i] \in PassPCs \cup {"idle"} => ThisChain'
  <2>1. CASE EnsureSeeded(i)
    BY <1>0, <2>1 DEF EnsureSeeded, Stamp, ThisChain, PassPCs
  <2>2. CASE WriteCheckpoint(i)
    BY <1>0, <2>2 DEF WriteCheckpoint, Stamp, ThisChain, Steady
  <2>3. CASE Start(i) \/ Snapshot(i) \/ ScanPage(i) \/ Sweep(i) \/ Crash(i)
    BY <1>0, <2>3 DEF Start, Snapshot, ScanPage, Sweep, Crash, PassPCs
  <2>4. CASE \/ Wake(i) \/ TryLock(i) \/ IndexBlock(i) \/ PlanWindow(i) \/ ScanWindow(i)
             \/ PinHead(i) \/ Admit(i) \/ PassFails(i)
    <3>1. pc[i] \in PassPCs \cup {"idle"}
      BY <2>4 DEF Wake, TryLock, IndexBlock, PlanWindow, ScanWindow, PinHead, Admit, PassFails,
                  PassPCs
    <3>2. QED
      BY <1>1, <3>1 DEF Seeded
  <2>5. QED
    BY <2>1, <2>2, <2>3, <2>4 DEF ReplicaStep
<1>3. QED
  BY <1>0, <1>1, <1>2 DEF Seeded, Apart

\* While one replica holds the lock, the steps of another leave the projection alone.
LEMMA Bystander ==
    ASSUME Basis, NEW i \in Replicas, ReplicaStep(i) \/ PassFails(i) \/ Crash(i), Exact(i),
           lock # None, lock # i
    PROVE  UNCHANGED <<row, checkpoint, lock>>
<1> USE DEF dbVars, passVars
<1>1. ~Free /\ pc[i] \notin HoldPCs
  BY DEF Free, Exact
<1>2. Release(i) => lock' = lock
  BY DEF Release
<1>3. ReplicaStep(i) => Start(i) \/ Wake(i) \/ TryLock(i)
  BY <1>1 DEF ReplicaStep, EnsureSeeded, Snapshot, ScanPage, Sweep, WriteCheckpoint, IndexBlock,
              PlanWindow, ScanWindow, PinHead, Admit, HoldPCs
<1>4. QED
  BY <1>1, <1>2, <1>3 DEF Start, Wake, TryLock, PassFails, Crash, EndPass

\* What the holder of the lock has done is not disturbed by another replica.
LEMMA ExactKept ==
    ASSUME Basis, NEW i \in Replicas, ReplicaStep(i) \/ PassFails(i) \/ Crash(i), Exact(i),
           NEW j \in Replicas \ {i}, Exact(j)
    PROVE  Exact(j)'
<1>1. Apart(i)
  BY ReplicaBasis
<1>2. CASE pc[j] \in HoldPCs
  <2>1. UNCHANGED <<row, checkpoint, lock>>
    BY <1>2, Bystander, DistinctValues DEF Exact, DistinctValues
  <2>2. QED
    BY <1>1, <2>1 DEF Apart, Exact, chainVars
<1>3. CASE pc[j] \notin HoldPCs
  BY <1>1, <1>3 DEF Apart, Exact, HoldPCs
<1>4. QED
  BY <1>2, <1>3

\* The holder of the lock itself keeps to what it has done.
LEMMA ExactMoves ==
    ASSUME Basis, Seeded, NEW i \in Replicas, ReplicaStep(i) \/ PassFails(i) \/ Crash(i),
           Exact(i)
    PROVE  Exact(i)'
<1> USE DEF dbVars, passVars
<1>0. /\ TypeOK /\ Parts /\ Steady(i) /\ Apart(i) /\ LockTyped'
  BY TypeParts, ReplicaBasis DEF Basis, Parts
<1>t. /\ pc \in [Replicas -> PCs] /\ at \in [Replicas -> Nat] /\ fin \in [Replicas -> Nat]
      /\ todo \in [Replicas -> SUBSET Accounts] /\ row \in [Accounts -> RowType]
      /\ checkpoint \in [number : Nat, genesis : {"none", "this", "another"}]
      /\ finalized \in Nat /\ finalized <= Len(chain) /\ chain' = chain
  BY <1>0 DEF Parts, LockTyped, PassTyped, Apart, chainVars
<1>1. CASE Start(i) \/ Wake(i) \/ WriteCheckpoint(i) \/ Admit(i) \/ PassFails(i) \/ Crash(i)
  <2>1. pc'[i] \notin HoldPCs
    BY <1>t, <1>1 DEF Start, Wake, WriteCheckpoint, Admit, PassFails, Crash, EndPass, HoldPCs
  <2>2. QED
    BY <2>1 DEF Exact, HoldPCs
<1>2. CASE EnsureSeeded(i)
  BY <1>t, <1>2 DEF EnsureSeeded, Exact, HoldPCs, Stamp
<1>3. CASE Snapshot(i)
  <2>1. /\ pc[i] = "snapshot" /\ pc'[i] = "scan" /\ at'[i] = finalized
        /\ UNCHANGED <<row, checkpoint, lock>>
        /\ todo'[i] = {a \in Accounts : chain[finalized].state[a] # None}
    BY <1>t, <1>3 DEF Snapshot
  <2>2. QED
    BY <1>t, <2>1 DEF Exact, HoldPCs
<1>4. CASE ScanPage(i)
  <2>1. PICK a \in todo[i] :
           /\ row'  = [row EXCEPT ![a] = Final(a, chain[at[i]].state[a])]
           /\ todo' = [todo EXCEPT ![i] = todo[i] \ {a}]
    BY <1>4 DEF ScanPage
  <2>2. UNCHANGED <<checkpoint, lock, pc, at>> /\ pc[i] = "scan" /\ a \in Accounts
    BY <1>t, <1>4 DEF ScanPage
  <2>3. QED
    BY <1>t, <2>1, <2>2 DEF Exact
<1>5. CASE Sweep(i)
  <2>1. /\ pc[i] = "scan" /\ todo[i] = {} /\ pc'[i] = "stamp"
        /\ UNCHANGED <<checkpoint, lock, at>>
        /\ row' = [a \in Accounts |-> IF chain[at[i]].state[a] = None THEN NoRow ELSE row[a]]
    BY <1>t, <1>5 DEF Sweep
  <2>2. \A a \in Accounts : row'[a] = Final(a, chain[at[i]].state[a])
    BY <2>1 DEF Exact, Final
  <2>3. QED
    BY <1>t, <2>1, <2>2 DEF Exact, HoldPCs
<1>6. CASE TryLock(i)
  <2>1. CASE EndPass(i)
    BY <1>t, <2>1 DEF EndPass, Exact, HoldPCs
  <2>2. CASE ~EndPass(i)
    <3>1. /\ lock' = i /\ pc'[i] \in {"plan", "index"} /\ UNCHANGED checkpoint
          /\ pc'[i] = "index" => at'[i] = checkpoint.number + 1
      BY <1>t, <1>6, <2>2 DEF TryLock
    <3>2. QED
      BY <3>1 DEF Exact
  <2>3. QED
    BY <2>1, <2>2
<1>7. CASE IndexBlock(i)
  <2>1. /\ pc[i] = "index" /\ pc'[i] \in {"plan", "index"} /\ lock' = lock
        /\ at'[i] = at[i] + 1
        /\ checkpoint.number > 0 => checkpoint'.number = at[i]
    BY <1>t, <1>7 DEF IndexBlock
  <2>2. checkpoint.number > 0
    BY <2>1 DEF Seeded, ThisChain, PassPCs
  <2>3. QED
    BY <2>1, <2>2 DEF Exact, HoldPCs
<1>8. CASE PlanWindow(i) \/ ScanWindow(i) \/ PinHead(i)
  <2>1. CASE EndPass(i)
    BY <1>t, <2>1 DEF EndPass, Exact, HoldPCs
  <2>2. CASE ~EndPass(i)
    <3>1. /\ pc[i] \in {"plan", "window", "held"} /\ pc'[i] \in {"window", "held", "admit"}
          /\ lock' = lock
      BY <1>t, <1>8, <2>2 DEF PlanWindow, ScanWindow, PinHead
    <3>2. QED
      BY <3>1 DEF Exact, HoldPCs
  <2>3. QED
    BY <2>1, <2>2
<1>9. QED
  BY <1>1, <1>2, <1>3, <1>4, <1>5, <1>6, <1>7, <1>8 DEF ReplicaStep

\* A step of a replica keeps the promise of the checkpoint.
LEMMA VouchedStep ==
    ASSUME Basis, Seeded, NEW i \in Replicas, ReplicaStep(i) \/ PassFails(i) \/ Crash(i),
           Exact(i), lost = {}, CheckpointExact
    PROVE  CheckpointExact'
<1> USE DEF dbVars, passVars
<1>0. /\ TypeOK /\ Parts /\ Steady(i) /\ Apart(i)
  BY TypeParts, ReplicaBasis DEF Basis
<1>t. /\ at \in [Replicas -> Nat] /\ fin \in [Replicas -> Nat] /\ row \in [Accounts -> RowType]
      /\ checkpoint \in [number : Nat, genesis : {"none", "this", "another"}]
      /\ finalized \in Nat /\ finalized <= Len(chain) /\ Len(chain) \in Nat
      /\ chain' = chain /\ finalized' = finalized /\ lost' = lost
  BY <1>0 DEF Parts, LockTyped, PassTyped, Apart, chainVars
<1>1. ASSUME checkpoint' = checkpoint, \A a \in Accounts : Settled(a)' = Settled(a)
      PROVE  CheckpointExact'
  BY <1>t, <1>1 DEF CheckpointExact
<1>2. CASE Start(i)
  <2>1. \A a \in Accounts : row'[a] = row[a] \/ (row[a].speculative /\ row'[a] = NoRow)
    BY <1>2 DEF Start
  <2>2. \A a \in Accounts : Settled(a)' = Settled(a)
    BY <2>1 DEF Settled, NoRow
  <2>3. QED
    BY <1>1, <1>2, <2>2 DEF Start
<1>3. CASE EnsureSeeded(i)
  <2>1. CASE UNCHANGED dbVars
    BY <1>1, <2>1 DEF Settled
  <2>2. CASE checkpoint' = [number |-> 0, genesis |-> "none"]
    BY <2>2 DEF CheckpointExact
  <2>3. CASE /\ checkpoint.number > 0 /\ checkpoint.genesis # "another" /\ row' = row
             /\ checkpoint' = [number |-> checkpoint.number, genesis |-> "this"]
    BY <1>t, <2>3 DEF CheckpointExact, Settled
  <2>4. QED
    BY <1>3, <2>1, <2>2, <2>3 DEF EnsureSeeded, Stamp
<1>4. CASE ScanPage(i) \/ Sweep(i)
  <2>1. checkpoint'.number = 0
    BY <1>4 DEF ScanPage, Sweep, Exact
  <2>2. QED
    BY <2>1 DEF CheckpointExact
<1>5. CASE WriteCheckpoint(i)
  <2>1. pc[i] = "stamp" /\ checkpoint' = [number |-> at[i], genesis |-> "this"] /\ row' = row
    BY <1>5 DEF WriteCheckpoint, Stamp
  <2>2. at[i] \in 1..Len(chain) /\ at[i] <= finalized
    BY <1>0, <1>t, <2>1 DEF Steady
  <2>3. \A a \in Accounts : chain[at[i]].state[a] \in Values
    BY <1>0, <2>2, BlockTyped
  <2>4. \A a \in Accounts : Settled(a)' = Final(a, chain[at[i]].state[a])
    BY <2>1, <2>3, FinalTyped DEF Exact, Settled
  <2>5. QED
    BY <1>t, <2>1, <2>2, <2>4 DEF CheckpointExact
<1>6. CASE IndexBlock(i)
  <2> DEFINE n == at[i]
  <2>1. /\ pc[i] = "index" /\ n = checkpoint.number + 1 /\ ThisChain
        /\ n \in 2..Len(chain) /\ n <= finalized
    BY <1>0, <1>t, <1>6 DEF IndexBlock, Exact, Steady, PassPCs, Seeded, ThisChain
  <2>2. /\ checkpoint' = [checkpoint EXCEPT !.number = n]
        /\ row' = [a \in Accounts |-> IF a \in chain[n].touched
                                      THEN Final(a, chain[n].state[a]) ELSE row[a]]
    BY <1>t, <1>6, <2>1 DEF IndexBlock, ThisChain
  <2>3. checkpoint'.number = n /\ checkpoint'.genesis = "this" /\ n > 0
    BY <1>t, <2>1, <2>2 DEF ThisChain
  <2>4. \A a \in Accounts : chain[n].state[a] \in Values
    BY <1>0, <2>1, BlockTyped
  <2>5. \A a \in Accounts : Settled(a) = Final(a, chain[n - 1].state[a])
    BY <1>t, <2>1 DEF CheckpointExact, ThisChain
  <2>6. \A a \in Accounts : a \notin chain[n].touched =>
           chain[n].state[a] = chain[n - 1].state[a]
    BY <2>1 DEF Basis, Linked
  <2>7. ASSUME NEW a \in Accounts PROVE Settled(a)' = Final(a, chain[n].state[a])
    <3>1. CASE a \in chain[n].touched
      BY <2>2, <2>4, <3>1, FinalTyped DEF Settled
    <3>2. CASE a \notin chain[n].touched
      <4>1. row'[a] = row[a]
        BY <2>2, <3>2
      <4>2. Settled(a)' = Settled(a)
        BY <4>1 DEF Settled
      <4>3. QED
        BY <2>5, <2>6, <3>2, <4>2
    <3>3. QED
      BY <3>1, <3>2
  <2>8. QED
    BY <1>t, <2>1, <2>3, <2>7 DEF CheckpointExact
<1>7. CASE Admit(i)
  <2>1. \A a \in Accounts : \/ row'[a] = row[a]
                            \/ /\ row[a] = NoRow \/ row[a].speculative
                               /\ row'[a] = NoRow \/ row'[a].speculative
    BY <1>7 DEF Admit, Speculate
  <2>2. \A a \in Accounts : Settled(a)' = Settled(a)
    BY <2>1 DEF Settled, NoRow
  <2>3. QED
    BY <1>1, <1>7, <2>2 DEF Admit
<1>8. CASE \/ Snapshot(i) \/ Wake(i) \/ TryLock(i) \/ PlanWindow(i) \/ ScanWindow(i)
           \/ PinHead(i) \/ PassFails(i) \/ Crash(i)
  <2>1. UNCHANGED dbVars
    BY <1>8 DEF Snapshot, Wake, TryLock, PlanWindow, ScanWindow, PinHead, PassFails, Crash
  <2>2. QED
    BY <1>1, <2>1 DEF Settled
<1>9. QED
  BY <1>2, <1>3, <1>4, <1>5, <1>6, <1>7, <1>8 DEF ReplicaStep

\* Exactness of the projection is inductive.
Projected == /\ Seeded
             /\ lost = {} => \A i \in Replicas : Exact(i)
             /\ CheckpointExact

\* Every step keeps the projection exact.
LEMMA ProjectedStep ==
    ASSUME Basis, Projected, [Next]_vars
    PROVE  Projected'
<1>1. ASSUME NEW i \in Replicas, ReplicaStep(i) \/ PassFails(i) \/ Crash(i) PROVE Projected'
  <2>1. lost' = lost
    BY <1>1, ReplicaBasis DEF Apart
  <2>2. CASE lost = {}
    BY <1>1, <2>1, <2>2, SeededStep, ExactMoves, ExactKept, VouchedStep DEF Projected
  <2>3. CASE lost # {}
    BY <1>1, <2>1, <2>3, SeededStep DEF Projected, CheckpointExact
  <2>4. QED
    BY <2>2, <2>3
<1>2. CASE Produce \/ Finalize \/ Reorg
  <2>1. FinalKept /\ UNCHANGED <<dbVars, lock, pc, passVars, faults, lost>>
    BY <1>2, ChainBasis
  <2>2. Seeded'
    BY <2>1 DEF Projected, Seeded, ThisChain, dbVars
  <2>3. \A i \in Replicas : pc[i] \in {"scan", "stamp"} => chain'[at[i]] = chain[at[i]]
    BY <2>1 DEF Basis, Steady, FinalKept
  <2>4. \A i \in Replicas : Exact(i) => Exact(i)'
    BY <2>1, <2>3 DEF Exact, dbVars, passVars
  <2>5. CheckpointExact'
    <3>1. finalized \in Nat /\ finalized' \in Nat /\ finalized <= finalized'
          /\ checkpoint.number \in Nat
      BY <1>2, <2>1, ChainBasis DEF Basis, TypeOK, FinalKept
    <3>2. checkpoint.number > 0 /\ checkpoint.number <= finalized =>
            chain'[checkpoint.number] = chain[checkpoint.number]
      BY <2>1, <3>1 DEF FinalKept
    <3>3. QED
      BY <2>1, <3>1, <3>2 DEF Projected, CheckpointExact, Settled, dbVars
  <2>6. QED
    BY <2>1, <2>2, <2>4, <2>5 DEF Projected
<1>3. CASE LockLost
  BY <1>3, LostBasis DEF Projected, Seeded, ThisChain, CheckpointExact, dbVars
<1>4. CASE UNCHANGED vars
  BY <1>4 DEF Projected, Seeded, ThisChain, Exact, CheckpointExact, Settled, vars, chainVars,
              dbVars, passVars
<1>5. QED
  BY <1>1, <1>2, <1>3, <1>4 DEF Next

\* What every replica has done agrees with the projection and its checkpoint.
THEOREM ProjectedHolds == Spec => []Projected
<1>1. Init => Projected
  BY DEF Init, Projected, Seeded, Exact, CheckpointExact, PassPCs, HoldPCs
<1>2. Basis /\ Projected /\ [Next]_vars => Projected'
  BY ProjectedStep
<1>3. QED
  BY <1>1, <1>2, BasisHolds, PTL DEF Spec

\* A checkpoint is exact (bootstrap.rs, incremental.rs index_block): whatever fork was
\* indexed ahead of finality, wherever a scan or a range was cut off and whichever chain
\* the database was built from, the finalized rows are those of the chain at the height
\* the checkpoint names, as long as no session that holds the projection lock dies.
THEOREM CheckpointsExact == Spec => []CheckpointExact
<1>1. Projected => CheckpointExact
  BY DEF Projected
<1>2. QED
  BY <1>1, ProjectedHolds, PTL

(***************************************************************************)
(* The unfinalized window.                                                 *)
(***************************************************************************)

\* The blocks up to h change nobody that the window does not name.
Same(i, h) == \A a \in Accounts \ todo[i] : chain[h].state[a] = chain[fin[i]].state[a]

\* What a pass knows of a chain that stood still.
Watching(i) ==
    /\ pc[i] \in PassPCs => fin[i] = finalized /\ best[i] \in {0, Len(chain)}
    /\ pc[i] \in {"plan", "window", "held", "admit"} => checkpoint.number = fin[i]
    /\ pc[i] \in {"window", "held", "admit"} => best[i] = Len(chain)
    /\ pc[i] = "window" => pos[i] \in fin[i] + 1 .. best[i] /\ Same(i, pos[i] - 1)
    /\ pc[i] = "held" /\ best[i] - fin[i] <= MaxWindow => Same(i, best[i])
    /\ pc[i] = "admit" => /\ pin[i] = chain[best[i]]
                          /\ \A a \in todo[i] : row[a] = NoRow \/ row[a].speculative
    /\ pc[i] = "admit" /\ best[i] - fin[i] <= MaxWindow =>
         \A a \in Accounts \ todo[i] : /\ ~row[a].speculative
                                       /\ row[a] = NoRow => chain[best[i]].state[a] = None

Watched == lost = {} => \A i \in Replicas : quiet[i] => Watching(i)

\* The heads and the pin of other replicas are their own, and so is their quiet.
LEMMA PassApart ==
    ASSUME TypeOK, NEW i \in Replicas, ReplicaStep(i) \/ PassFails(i) \/ Crash(i)
    PROVE  \A j \in Replicas \ {i} : /\ best'[j] = best[j] /\ pin'[j] = pin[j]
                                     /\ quiet'[j] = quiet[j]
<1> USE DEF dbVars, passVars
<1>0. /\ best \in [Replicas -> Nat] /\ pin \in [Replicas -> Blocks]
      /\ quiet \in [Replicas -> BOOLEAN]
  BY DEF TypeOK
<1>1. best' = best \/ \E b : best' = [best EXCEPT ![i] = b]
  BY DEF ReplicaStep, Start, EnsureSeeded, Snapshot, ScanPage, Sweep, WriteCheckpoint, Wake,
         TryLock, IndexBlock, PlanWindow, ScanWindow, PinHead, Admit, PassFails, Crash, EndPass,
         Forget
<1>2. pin' = pin \/ \E b : pin' = [pin EXCEPT ![i] = b]
  BY DEF ReplicaStep, Start, EnsureSeeded, Snapshot, ScanPage, Sweep, WriteCheckpoint, Wake,
         TryLock, IndexBlock, PlanWindow, ScanWindow, PinHead, Admit, PassFails, Crash, EndPass,
         Forget
<1>3. \E b : quiet' = [quiet EXCEPT ![i] = b]
  BY DEF ReplicaStep, Start, EnsureSeeded, Snapshot, ScanPage, Sweep, WriteCheckpoint, Wake,
         TryLock, IndexBlock, PlanWindow, ScanWindow, PinHead, Admit, PassFails, Crash, Working
<1>4. ASSUME NEW j \in Replicas \ {i} PROVE quiet'[j] = quiet[j]
  BY <1>0, <1>3, Zenon
<1>5. QED
  BY <1>0, <1>1, <1>2, <1>4

\* A replica that goes on with a pass is as quiet as it was.
LEMMA QuietKept ==
    ASSUME TypeOK, NEW i \in Replicas, ReplicaStep(i) \/ PassFails(i) \/ Crash(i), ~Wake(i),
           quiet'[i]
    PROVE  quiet[i] /\ pc'[i] # "idle" /\ Working(i)
<1>0. quiet \in [Replicas -> BOOLEAN]
  BY DEF TypeOK
<1>1. ~PassFails(i) /\ ~Crash(i)
  <2>1. quiet' # [quiet EXCEPT ![i] = FALSE]
    BY <1>0, Zenon
  <2>2. QED
    BY <2>1 DEF PassFails, Crash
<1>2. Working(i)
  BY <1>1 DEF ReplicaStep, Start, EnsureSeeded, Snapshot, ScanPage, Sweep, WriteCheckpoint,
              TryLock, IndexBlock, PlanWindow, ScanWindow, PinHead, Admit
<1>3. quiet' = [quiet EXCEPT ![i] = quiet[i] /\ pc'[i] # "idle"]
  BY <1>2 DEF Working
<1>4. quiet'[i] = (quiet[i] /\ pc'[i] # "idle")
  BY <1>0, <1>3, Zenon
<1>5. QED
  BY <1>2, <1>4

\* The steps of others leave a pass its view.
LEMMA WatchingKept ==
    ASSUME Basis, NEW i \in Replicas, ReplicaStep(i) \/ PassFails(i) \/ Crash(i), Exact(i),
           NEW j \in Replicas \ {i}, Exact(j), Watching(j)
    PROVE  Watching(j)'
<1>1. Apart(i) /\ best'[j] = best[j] /\ pin'[j] = pin[j]
  BY ReplicaBasis, PassApart DEF Basis
<1>2. CASE pc[j] \in HoldPCs
  <2>1. UNCHANGED <<row, checkpoint>>
    BY <1>2, Bystander, DistinctValues DEF Exact, DistinctValues
  <2>2. QED
    BY <1>1, <2>1 DEF Apart, Watching, Same, chainVars
<1>3. CASE pc[j] \notin HoldPCs
  BY <1>1, <1>3 DEF Apart, Watching, HoldPCs, chainVars
<1>4. QED
  BY <1>2, <1>3

\* A name that decodes leaves a row.
LEMMA FinalNoRow ==
    ASSUME NEW a, NEW v, Final(a, v) = NoRow
    PROVE  v = None
BY DEF Final, NoRow

\* A pass that goes on keeps its view of a chain that stands still.
LEMMA WatchingMoves ==
    ASSUME Basis, Seeded, NEW i \in Replicas, ReplicaStep(i) \/ PassFails(i) \/ Crash(i),
           Exact(i), lost = {}, CheckpointExact, quiet[i] => Watching(i), quiet'[i]
    PROVE  Watching(i)'
<1> USE DEF dbVars, passVars
<1>0. TypeOK /\ Parts /\ Steady(i) /\ Apart(i)
  BY TypeParts, ReplicaBasis DEF Basis
<1>t. /\ pc \in [Replicas -> PCs] /\ at \in [Replicas -> Nat] /\ fin \in [Replicas -> Nat]
      /\ best \in [Replicas -> Nat] /\ pos \in [Replicas -> Nat] /\ pin \in [Replicas -> Blocks]
      /\ todo \in [Replicas -> SUBSET Accounts] /\ row \in [Accounts -> RowType]
      /\ checkpoint \in [number : Nat, genesis : {"none", "this", "another"}]
      /\ finalized \in Nat /\ finalized <= Len(chain) /\ Len(chain) \in Nat
      /\ chain' = chain /\ finalized' = finalized
  BY <1>0 DEF Parts, LockTyped, PassTyped, Apart, chainVars
<1>1. CASE Wake(i)
  BY <1>t, <1>1 DEF Wake, Watching
<1>2. CASE ~Wake(i) /\ pc'[i] \notin PassPCs
  BY <1>2 DEF Watching, PassPCs
<1>3. CASE ~Wake(i) /\ pc'[i] \in PassPCs
  <2>0. quiet[i] /\ pc'[i] # "idle" /\ Working(i) /\ Watching(i)
    BY <1>0, <1>3, QuietKept
  <2>1. CASE TryLock(i)
    <3>1. pc[i] = "lock" /\ ThisChain /\ fin[i] = finalized /\ best[i] \in {0, Len(chain)}
      BY <2>0, <2>1 DEF TryLock, Watching, PassPCs, Seeded
    <3>2. checkpoint.number <= finalized
      BY <3>1 DEF CheckpointExact, ThisChain
    <3>3. ~EndPass(i)
      BY <1>t, <2>0 DEF EndPass
    <3>4. /\ UNCHANGED <<fin, best, checkpoint>> /\ pc'[i] \in {"plan", "index"}
          /\ pc'[i] = "plan" => fin[i] <= checkpoint.number
      BY <1>t, <2>1, <3>1, <3>3 DEF TryLock, ThisChain
    <3>5. QED
      BY <1>t, <3>1, <3>2, <3>4 DEF Watching
  <2>2. CASE IndexBlock(i)
    <3>1. /\ pc[i] = "index" /\ ThisChain /\ fin[i] = finalized /\ best[i] \in {0, Len(chain)}
          /\ pc'[i] \in {"plan", "index"} /\ UNCHANGED <<fin, best>>
          /\ pc'[i] = "plan" => at[i] = fin[i]
          /\ checkpoint.number > 0 => checkpoint'.number = at[i]
      BY <1>t, <2>0, <2>2 DEF IndexBlock, Watching, PassPCs, Seeded
    <3>2. QED
      BY <1>t, <3>1 DEF Watching, ThisChain
  <2>3. CASE PlanWindow(i)
    <3>0. /\ pc[i] = "plan" /\ fin[i] = finalized /\ best[i] \in {0, Len(chain)}
          /\ checkpoint.number = fin[i] /\ fin[i] \in 1..Len(chain)
      BY <1>0, <1>t, <2>0, <2>3 DEF PlanWindow, Watching, PassPCs, Steady
    <3>1. /\ best'[i] = Len(chain)
          /\ pc'[i] = IF Window(fin[i], Len(chain)) = {} THEN "held" ELSE "window"
          /\ pos'[i] = fin[i] + 1 /\ todo'[i] = {} /\ UNCHANGED <<fin, checkpoint>>
      BY <1>t, <2>3, <3>0 DEF PlanWindow
    <3>2. CASE pc'[i] = "held"
      <4>1. Len(chain) - fin[i] <= MaxWindow => fin[i] = Len(chain)
        <5>1. Window(fin[i], Len(chain)) = {}
          BY <3>1, <3>2
        <5>2. fin[i] + 1 \notin Window(fin[i], Len(chain))
          BY <5>1
        <5>3. QED
          BY <1>t, <3>0, <5>2, IndexerBounds DEF Window, IndexerBounds
      <4>2. QED
        BY <1>t, <3>0, <3>1, <3>2, <4>1 DEF Watching, Same
    <3>3. CASE pc'[i] = "window"
      <4>1. fin[i] < Len(chain)
        BY <1>t, <3>0, <3>1, <3>3 DEF Window
      <4>2. QED
        BY <1>t, <3>0, <3>1, <3>3, <4>1 DEF Watching, Same
    <3>4. QED
      BY <3>1, <3>2, <3>3
  <2>4. CASE ScanWindow(i)
    <3> DEFINE h == pos[i]
    <3>0. /\ pc[i] = "window" /\ fin[i] = finalized /\ best[i] = Len(chain)
          /\ checkpoint.number = fin[i] /\ h \in fin[i] + 1 .. Len(chain)
          /\ Same(i, h - 1) /\ fin[i] \in 1..Len(chain)
      BY <1>0, <1>t, <2>0, <2>4 DEF ScanWindow, Watching, PassPCs, Steady
    <3>1. ~EndPass(i)
      BY <1>t, <2>0 DEF EndPass
    <3>2. /\ todo'[i] = todo[i] \cup chain[h].touched /\ pos'[i] = h + 1
          /\ pc'[i] = IF h = best[i] THEN "held" ELSE "window"
          /\ UNCHANGED <<fin, best, checkpoint>>
      BY <1>t, <2>4, <3>1 DEF ScanWindow, CachedAccounts
    <3>3. \A a \in Accounts : a \notin chain[h].touched =>
             chain[h].state[a] = chain[h - 1].state[a]
      BY <1>t, <3>0 DEF Basis, Linked
    <3>4. \A a \in Accounts \ todo'[i] : chain[h].state[a] = chain[fin[i]].state[a]
      BY <3>0, <3>2, <3>3 DEF Same
    <3>5. CASE h = best[i]
      BY <1>t, <3>0, <3>2, <3>4, <3>5 DEF Watching, Same
    <3>6. CASE h # best[i]
      <4>1. h + 1 \in fin[i] + 1 .. Len(chain) /\ (h + 1) - 1 = h
        BY <1>t, <3>0, <3>6
      <4>2. QED
        BY <1>t, <3>0, <3>2, <3>4, <3>6, <4>1 DEF Watching, Same
    <3>7. QED
      BY <3>5, <3>6
  <2>5. CASE PinHead(i)
    <3>0. /\ pc[i] = "held" /\ fin[i] = finalized /\ best[i] = Len(chain)
          /\ checkpoint.number = fin[i] /\ fin[i] \in 1..Len(chain) /\ ThisChain
      BY <1>0, <1>t, <2>0, <2>5 DEF PinHead, Watching, PassPCs, Steady, Seeded
    <3>1. ~EndPass(i)
      BY <1>t, <2>0 DEF EndPass
    <3>2. /\ todo'[i] = Affected(i) /\ pin'[i] = chain[Max2(best[i], fin[i])]
          /\ pc'[i] = "admit" /\ UNCHANGED <<fin, best, checkpoint, row>>
      BY <1>t, <2>5, <3>1 DEF PinHead
    <3>3. Max2(best[i], fin[i]) = best[i]
      BY <1>t, <3>0 DEF Max2
    <3>4. \A a \in Affected(i) : row[a] = NoRow \/ row[a].speculative
      BY <1>t DEF Affected, FinalizedAccounts, SpeculativeAccounts
    <3>5. ASSUME best[i] - fin[i] <= MaxWindow, NEW a \in Accounts \ Affected(i)
          PROVE  /\ ~row[a].speculative
                 /\ row[a] = NoRow => chain[best[i]].state[a] = None
      <4>1. ~row[a].speculative
        BY <3>5 DEF Affected, SpeculativeAccounts, FinalizedAccounts
      <4>2. ASSUME row[a] = NoRow PROVE chain[best[i]].state[a] = None
        <5>1. a \notin todo[i]
          BY <3>5, <4>2 DEF Affected, FinalizedAccounts
        <5>2. chain[best[i]].state[a] = chain[fin[i]].state[a]
          BY <2>0, <3>0, <3>5, <5>1 DEF Watching, Same
        <5>3. Final(a, chain[fin[i]].state[a]) = NoRow
          BY <3>0, <4>2 DEF CheckpointExact, ThisChain, Settled
        <5>4. QED
          BY <5>2, <5>3, FinalNoRow
      <4>3. QED
        BY <4>1, <4>2
    <3>6. QED
      BY <1>t, <3>0, <3>2, <3>3, <3>4, <3>5 DEF Watching
  <2>6. QED
    <3>1. ~Admit(i) /\ ~WriteCheckpoint(i) /\ ~PassFails(i) /\ ~Crash(i)
      BY <1>t, <1>3, <2>0 DEF Admit, WriteCheckpoint, PassFails, EndPass, Crash, PassPCs
    <3>2. ~Start(i) /\ ~EnsureSeeded(i) /\ ~Snapshot(i) /\ ~ScanPage(i) /\ ~Sweep(i)
      BY <1>t, <1>3, <2>0 DEF Start, EnsureSeeded, Snapshot, ScanPage, Sweep, PassPCs
    <3>3. QED
      BY <1>3, <2>1, <2>2, <2>3, <2>4, <2>5, <3>1, <3>2 DEF ReplicaStep
<1>4. QED
  BY <1>1, <1>2, <1>3

\* Watched is inductive.
LEMMA WatchedStep ==
    ASSUME Basis, Projected, Watched, [Next]_vars
    PROVE  Watched'
<1>1. ASSUME NEW i \in Replicas, ReplicaStep(i) \/ PassFails(i) \/ Crash(i) PROVE Watched'
  <2> SUFFICES ASSUME lost' = {}, NEW j \in Replicas, quiet'[j] PROVE Watching(j)'
    BY DEF Watched
  <2>1. lost = {} /\ \A k \in Replicas : Exact(k) /\ (quiet[k] => Watching(k))
    BY <1>1, ReplicaBasis DEF Apart, Projected, Watched
  <2>2. CASE j = i
    BY <1>1, <2>1, <2>2, WatchingMoves DEF Projected
  <2>3. CASE j # i
    BY <1>1, <2>1, <2>3, WatchingKept, PassApart DEF Basis
  <2>4. QED
    BY <2>2, <2>3
<1>2. CASE Produce \/ Finalize \/ Reorg
  BY <1>2 DEF Produce, Finalize, Reorg, ChainMoves, Watched
<1>3. CASE LockLost
  BY <1>3, LostBasis DEF Watched
<1>4. CASE UNCHANGED vars
  BY <1>4 DEF Watched, Watching, Same, vars, chainVars, dbVars, passVars
<1>5. QED
  BY <1>1, <1>2, <1>3, <1>4 DEF Next

\* A pass of i that ends, without a fault and with its view intact.
Completes(i) == /\ pc[i] \in {"held", "admit"} /\ pc'[i] = "idle"
                /\ quiet[i] /\ lost = {} /\ faults' = faults
                /\ best[i] - fin[i] <= MaxWindow

\* Such a pass leaves the best chain in the rows that are not final.
LEMMA CompletesMirrors ==
    ASSUME Basis, Projected, Watched, [Next]_vars, NEW i \in Replicas, Completes(i)
    PROVE  Mirrors'
<1> USE DEF dbVars, passVars
<1>0. /\ TypeOK /\ Parts /\ Watching(i) /\ Steady(i) /\ CheckpointExact /\ Seeded
      /\ lost = {} /\ pc[i] \in {"held", "admit"} /\ pc'[i] = "idle"
      /\ best[i] - fin[i] <= MaxWindow
  BY TypeParts DEF Basis, Completes, Watched, Projected
<1>t. /\ pc \in [Replicas -> PCs] /\ fin \in [Replicas -> Nat] /\ best \in [Replicas -> Nat]
      /\ todo \in [Replicas -> SUBSET Accounts] /\ row \in [Accounts -> RowType]
      /\ finalized \in Nat /\ finalized <= Len(chain) /\ Len(chain) \in Nat /\ faults \in Nat
  BY <1>0 DEF Parts, LockTyped, PassTyped
<1>1. (PinHead(i) /\ EndPass(i)) \/ Admit(i)
  <2>1. ASSUME NEW j \in Replicas, ReplicaStep(j) \/ PassFails(j) \/ Crash(j) PROVE j = i
    BY <1>0, <2>1, ReplicaBasis DEF Apart
  <2>2. ~PassFails(i) /\ ~Crash(i)
    BY <1>t DEF PassFails, Crash, Fault, Completes
  <2>3. ReplicaStep(i)
    BY <1>0, <2>1, <2>2 DEF Next, Produce, Finalize, Reorg, ChainMoves, LockLost, vars
  <2>4. PinHead(i) \/ Admit(i)
    BY <1>0, <2>3 DEF ReplicaStep, Start, EnsureSeeded, Snapshot, ScanPage, Sweep,
                      WriteCheckpoint, Wake, TryLock, IndexBlock, PlanWindow, ScanWindow
  <2>5. PinHead(i) => EndPass(i)
    BY <1>0, <1>t DEF PinHead
  <2>6. QED
    BY <2>4, <2>5
<1>2. chain' = chain /\ fin[i] = finalized /\ best[i] = Len(chain) /\ ThisChain
      /\ checkpoint.number = fin[i] /\ fin[i] \in 1..Len(chain)
  BY <1>0, <1>t, <1>1
  DEF PinHead, Admit, Working, chainVars, Watching, PassPCs, Seeded, Steady
<1>3. CASE PinHead(i) /\ EndPass(i)
  <2>1. pc[i] = "held" /\ row' = row
    BY <1>3 DEF PinHead
  <2>2. Affected(i) = {}
    <3>1. Max2(best[i], fin[i]) <= Len(chain)
      BY <1>t, <1>2 DEF Max2
    <3>2. \/ pc' = [pc EXCEPT ![i] = "admit"]
          \/ Affected(i) = {} \/ Max2(best[i], fin[i]) > Len(chain)
      BY <1>3 DEF PinHead
    <3>3. pc' # [pc EXCEPT ![i] = "admit"]
      BY <1>0, <1>t
    <3>4. Max2(best[i], fin[i]) \in Nat
      BY <1>t DEF Max2
    <3>5. QED
      BY <1>t, <3>1, <3>2, <3>3, <3>4
  <2>3. ASSUME NEW a \in Accounts, row[a].speculative \/ row[a] = NoRow
        PROVE  row[a].name = chain[Len(chain)].state[a]
    <3>1. row[a] = NoRow /\ a \notin todo[i]
      BY <1>t, <2>2, <2>3 DEF Affected, SpeculativeAccounts, FinalizedAccounts, NoRow
    <3>2. chain[best[i]].state[a] = chain[fin[i]].state[a]
      BY <1>0, <2>1, <3>1 DEF Watching, Same
    <3>3. Final(a, chain[fin[i]].state[a]) = NoRow
      BY <1>0, <1>2, <3>1 DEF CheckpointExact, ThisChain, Settled
    <3>4. QED
      BY <1>2, <3>1, <3>2, <3>3, FinalNoRow DEF NoRow
  <2>4. QED
    BY <1>2, <2>1, <2>3 DEF Mirrors
<1>4. CASE Admit(i)
  <2>1. /\ pc[i] = "admit"
        /\ row' = [a \in Accounts |-> IF a \in todo[i] THEN Speculate(a, pin[i].state[a])
                                                       ELSE row[a]]
    BY <1>4 DEF Admit
  <2>2. pin[i] = chain[Len(chain)]
    BY <1>0, <1>2, <2>1 DEF Watching
  <2>3. ASSUME NEW a \in Accounts, row'[a].speculative \/ row'[a] = NoRow
        PROVE  row'[a].name = chain[Len(chain)].state[a]
    <3>1. CASE a \in todo[i]
      <4>1. row[a] = NoRow \/ row[a].speculative
        BY <1>0, <2>1, <3>1 DEF Watching
      <4>2. row'[a] = IF pin[i].state[a] = None THEN NoRow
                      ELSE [name |-> pin[i].state[a], speculative |-> TRUE]
        BY <2>1, <3>1, <4>1 DEF Speculate
      <4>3. QED
        BY <2>2, <4>2 DEF NoRow
    <3>2. CASE a \notin todo[i]
      <4>1. /\ row'[a] = row[a] /\ ~row[a].speculative
            /\ row[a] = NoRow => chain[best[i]].state[a] = None
        BY <1>0, <2>1, <3>2 DEF Watching
      <4>2. QED
        BY <1>2, <2>3, <4>1 DEF NoRow
    <3>3. QED
      BY <3>1, <3>2
  <2>4. QED
    BY <1>2, <2>3 DEF Mirrors
<1>5. QED
  BY <1>1, <1>3, <1>4

\* A pass during which the chain stood still leaves the unfinalized window as the best
\* chain has it (incremental.rs, the speculative window): rows of a fork that lost are
\* gone and new ones are there, although blocks read before come from the cache.
THEOREM SpeculationsExact == Spec => SpeculationExact
<1>1. Init => Watched
  <2>1. Init => \A i \in Replicas : ~quiet[i]
    BY DEF Init
  <2>2. QED
    BY <2>1 DEF Watched
<1>2. Basis /\ Projected /\ Watched /\ [Next]_vars => Watched'
  BY WatchedStep
<1>3. Basis /\ Projected /\ Watched /\ [Next]_vars =>
        [\A i \in Replicas :
           /\ pc[i] \in {"held", "admit"} /\ pc'[i] = "idle"
           /\ quiet[i] /\ lost = {} /\ faults' = faults
           /\ best[i] - fin[i] <= MaxWindow
           => Mirrors']_vars
  BY CompletesMirrors DEF Completes
<1>4. QED
  BY <1>1, <1>2, <1>3, BasisHolds, ProjectedHolds, PTL DEF Spec, SpeculationExact

================================================================================

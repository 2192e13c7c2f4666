--------------------------- MODULE ChainWriterProofs ---------------------------
(* Proofs about ChainWriter, for any writers, rows, batches and faults.    *)
EXTENDS ChainWriter, TLAPS

--------------------------------------------------------------------------------
(* Types.                                                                  *)

\* Where recorded outcomes may lead.
Resume == {"next", "reconOwners", "owners", "submit"}

\* What Decide leaves is well typed.
LEMMA DecideType ==
  ASSUME WriterTypeOK, NEW w \in Writers, NEW outcome \in [Rows -> Fates],
         NEW rest \in SUBSET Rows, NEW then \in Resume, Decide(w, outcome, rest, then)
  PROVE  /\ fate' \in [Writers -> [Rows -> Fates]]
         /\ batch' \in [Writers -> SUBSET Rows]
         /\ pc' \in [Writers -> PCs]
         /\ after' \in [Writers -> Resume]
BY DEF Decide, WriterTypeOK, PCs, Resume

\* A uniform outcome is well typed.
LEMMA FateOnType ==
  ASSUME NEW S, NEW f \in Fates
  PROVE  FateOn(S, f) \in [Rows -> Fates]
BY DEF FateOn, Fates

\* Going back to acquire_lease is well typed.
LEMMA ForgetType ==
  ASSUME WriterTypeOK, NEW w \in Writers, Forget(w)
  PROVE  WriterTypeOK'
BY DEF Forget, WriterTypeOK, PCs, NoSnap, NoFate, Fates

\* Deferring the whole hand is well typed.
LEMMA DeferAllType ==
  ASSUME WriterTypeOK, NEW w \in Writers, DeferAll(w)
  PROVE  WriterTypeOK'
<1>1. FateOn(batch[w], "Defer") \in [Rows -> Fates]
  BY FateOnType DEF Fates, Outcomes
<1>2. /\ fate' \in [Writers -> [Rows -> Fates]]
      /\ batch' \in [Writers -> SUBSET Rows]
      /\ pc' \in [Writers -> PCs]
      /\ after' \in [Writers -> Resume]
  BY <1>1, DecideType DEF DeferAll, Resume
<1>3. /\ epoch' = epoch /\ lane' = lane /\ snap' = snap
      /\ todo' \in [Writers -> SUBSET Rows]
  BY DEF DeferAll, WriterTypeOK
<1> QED BY <1>2, <1>3 DEF WriterTypeOK, Resume

\* A failed submission is well typed.
LEMMA SubmitErrorType ==
  ASSUME WriterTypeOK, NEW w \in Writers, NEW reason \in Reasons, SubmitError(w, reason)
  PROVE  WriterTypeOK'
<1>1. CASE ~Alone(w)
  BY <1>1, DeferAllType DEF SubmitError
<1>2. CASE Alone(w)
  <2>1. FateOn(batch[w], reason) \in [Rows -> Fates]
    BY FateOnType DEF Fates
  <2>2. /\ epoch' = epoch /\ lane' = lane /\ batch' = batch /\ snap' = snap
        /\ after' = after
    BY <1>2 DEF SubmitError
  <2>3. fate' \in [Writers -> [Rows -> Fates]]
    BY <1>2, <2>1 DEF SubmitError, WriterTypeOK
  <2>4. pc' \in [Writers -> PCs] /\ todo' \in [Writers -> SUBSET Rows]
    BY <1>2 DEF SubmitError, WriterTypeOK, PCs
  <2> QED BY <2>2, <2>3, <2>4 DEF WriterTypeOK
<1> QED BY <1>1, <1>2

\* Setting one due flag keeps them all Boolean.
LEMMA DueType ==
  ASSUME due \in [Lanes -> [Rows -> BOOLEAN]], NEW l \in Lanes, NEW r \in Rows,
         NEW b \in BOOLEAN
  PROVE  [due EXCEPT ![l][r] = b] \in [Lanes -> [Rows -> BOOLEAN]]
<1>1. due[l] \in [Rows -> BOOLEAN]
  BY Zenon
<1>2. [due[l] EXCEPT ![r] = b] \in [Rows -> BOOLEAN]
  BY <1>1, Zenon
<1>3. [due EXCEPT ![l] = [due[l] EXCEPT ![r] = b]] \in [Lanes -> [Rows -> BOOLEAN]]
  BY <1>2, Zenon
<1>4. [due EXCEPT ![l][r] = b] = [due EXCEPT ![l] = [due[l] EXCEPT ![r] = b]]
  BY Zenon
<1> QED BY <1>3, <1>4

\* Lane::record keeps the rows and devices well typed.
LEMMA RecordOutcomeType ==
  ASSUME DbTypeOK, NEW l \in Lanes, NEW r \in Rows, NEW a \in Nat, NEW o,
         RecordOutcome(l, r, a, o), lease' = lease
  PROVE  DbTypeOK'
<1>1. /\ status' \in [Lanes -> [Rows -> PeopleStatus \cup DotnsStatus]]
      /\ \A k \in Lanes, s \in Rows : status'[k][s] \in StatusOf(k)
  BY DEF DbTypeOK, RecordOutcome, SetStatus, Done, StatusOf, PeopleStatus, DotnsStatus, Lanes
<1>2. device' \in [Devices -> [state : {"FREE", "PENDING", "CONSUMED"}, row : Rows \cup {0}]]
  BY DEF DbTypeOK, RecordOutcome, SetDevice
<1>3. attempt' \in [Lanes -> [Rows -> Nat]]
  <2>1. AttemptAfter(a, o) \in Nat
    BY DEF AttemptAfter
  <2>2. PICK n \in Nat : attempt' = attempt \/ attempt' = [attempt EXCEPT ![l][r] = n]
    BY <2>1 DEF RecordOutcome
  <2>3. attempt \in [Lanes -> [Rows -> Nat]]
    BY DEF DbTypeOK
  <2> QED BY <2>2, <2>3
<1>4. due' \in [Lanes -> [Rows -> BOOLEAN]]
  <2>1. due' = due \/ due' = [due EXCEPT ![l][r] = FALSE]
    BY DEF RecordOutcome
  <2>2. due \in [Lanes -> [Rows -> BOOLEAN]] /\ FALSE \in BOOLEAN
    BY DEF DbTypeOK
  <2>3. [due EXCEPT ![l][r] = FALSE] \in [Lanes -> [Rows -> BOOLEAN]]
    BY <2>2, DueType
  <2> QED BY <2>1, <2>2, <2>3
<1> QED BY <1>1, <1>2, <1>3, <1>4 DEF DbTypeOK

\* A writer that finds its lease gone changes only its own state.
LEMMA LeaseLostType ==
  ASSUME TypeOK, NEW w \in Writers, LeaseLost(w)
  PROVE  TypeOK'
<1>1. WriterTypeOK'
  BY ForgetType DEF LeaseLost, TypeOK
<1>2. DbTypeOK' /\ ChainTypeOK'
  BY DEF LeaseLost, TypeOK, DbTypeOK, ChainTypeOK, db, chain, NoFault
<1> QED BY <1>1, <1>2 DEF TypeOK

\* Calls that leave a writer's sight are counted.
LEMMA UnwatchedType ==
  ASSUME ChainTypeOK, NEW l \in Lanes, NEW S
  PROVE  Unwatched(l, S) \in [Lanes -> [Rows -> Nat]]
BY DEF ChainTypeOK, Unwatched

\* So are the answers of the chain.
LEMMA BlamedType ==
  ASSUME ChainTypeOK, NEW c \in Causes, NEW l \in Lanes, NEW S
  PROVE  Blamed(c, l, S) \in [Causes -> [Lanes -> [Rows -> Nat]]]
BY DEF ChainTypeOK, Blamed

\* One step blames rows of one lane, for one cause, if any.
BlameStep(l) == \/ blame' = blame
                \/ \E c \in Causes, S \in SUBSET Rows : blame' = Blamed(c, l, S)

LEMMA BlameStepType ==
  ASSUME ChainTypeOK, NEW l \in Lanes, BlameStep(l)
  PROVE  blame' \in [Causes -> [Lanes -> [Rows -> Nat]]]
<1>1. CASE blame' = blame
  BY <1>1 DEF ChainTypeOK
<1>2. CASE \E c \in Causes, S \in SUBSET Rows : blame' = Blamed(c, l, S)
  BY <1>2, BlamedType
<1> QED BY <1>1, <1>2 DEF BlameStep

\* A failed submission blames a lone row, or nobody.
LEMMA SubmitErrorBlame ==
  ASSUME WriterTypeOK, NEW w \in Writers, NEW reason, SubmitError(w, reason)
  PROVE  BlameStep(lane[w])
<1>1. batch[w] \in SUBSET Rows /\ "lone" \in Causes
  BY DEF WriterTypeOK, Causes
<1> QED BY <1>1 DEF SubmitError, BlameStep

\* What a writer's step adds to the blame.
LEMMA WriterBlame ==
  ASSUME WriterTypeOK, NEW w \in Writers,
         \/ Reconcile(w) \/ ReconOwners(w) \/ Submit(w) \/ Broadcast(w)
         \/ Await(w) \/ Mark(w)
  PROVE  BlameStep(lane[w])
<1>0. batch[w] \in SUBSET Rows /\ todo[w] \in SUBSET Rows /\ Causes = {"verdict", "lone", "interrupted"}
  BY DEF WriterTypeOK, Causes
<1>1. CASE \E reason \in Reasons : SubmitError(w, reason)
  BY <1>1, SubmitErrorBlame
<1>2. CASE blame' = blame
  BY <1>2 DEF BlameStep
<1>3. CASE ReadChunk(w)
  <2>1. PICK S \in SUBSET todo[w] : blame' = Blamed("interrupted", lane[w], S)
    <3> DEFINE S == {r \in Earliest(todo[w], ReconcileChunk) : owner[lane[w]][r] # "candidate"}
    <3>1. S \in SUBSET todo[w]
      BY DEF Earliest
    <3>2. blame' = Blamed("interrupted", lane[w], S)
      BY <1>3 DEF ReadChunk
    <3> QED BY <3>1, <3>2
  <2> QED BY <1>0, <2>1 DEF BlameStep
<1>4. CASE blame' = Blamed("lone", lane[w], batch[w])
  BY <1>0, <1>4 DEF BlameStep
<1>5. ASSUME NEW res, blame' = Blamed("verdict", lane[w], {r \in batch[w] : res[r] # "ok"})
      PROVE  BlameStep(lane[w])
  <2>1. {r \in batch[w] : res[r] # "ok"} \in SUBSET Rows
    BY <1>0
  <2> QED BY <1>0, <1>5, <2>1 DEF BlameStep
<1>6. {"unfunded", "contention", "other"} \subseteq Reasons
  BY DEF Reasons
<1>7. CASE Reconcile(w) \/ ReconOwners(w)
  BY <1>2, <1>3, <1>7 DEF Reconcile, ReconOwners, SkipChunk
<1>8. CASE Submit(w) \/ Broadcast(w)
  BY <1>1, <1>2, <1>4, <1>6, <1>8 DEF Submit, Broadcast
<1>9. CASE Mark(w)
  BY <1>1, <1>2, <1>6, <1>9 DEF Mark, MarkNext, MarkErrs, LeaseLost
<1>10. CASE Await(w)
  <2>1. CASE Finalized(w)
    BY <1>1, <1>2, <1>5, <1>6, <2>1 DEF Finalized
  <2>2. CASE ~Finalized(w)
    BY <1>1, <1>2, <1>6, <1>10, <2>2 DEF Await, BatchFails, TimesOut, WatchBreaks, RenewalFails
  <2> QED BY <2>1, <2>2
<1> QED BY <1>7, <1>8, <1>9, <1>10

\* And so are faults.
LEMMA FaultType ==
  ASSUME ChainTypeOK, faults' = faults \/ faults' = faults + 1
  PROVE  faults' \in Nat
BY DEF ChainTypeOK

\* Lease steps are well typed.
LEMMA LeaseStepsType ==
  ASSUME TypeOK, NEW w \in Writers,
         TryAcquire(w) \/ Heartbeat(w) \/ Hold(w) \/ Abandon(w)
  PROVE  TypeOK'
<1> USE DEF TypeOK, db, chain, local, writer, NoFault
<1>1. CASE TryAcquire(w)
  <2>1. lease' \in [holder : {Holder[v] : v \in Writers}, epoch : Nat, live : BOOLEAN]
    BY <1>1 DEF TryAcquire, DbTypeOK
  <2>2. epoch' \in [Writers -> Nat] /\ lane' \in [Writers -> Lanes] /\ pc' \in [Writers -> PCs]
    BY <1>1 DEF TryAcquire, DbTypeOK, WriterTypeOK, Lanes, PCs
  <2> QED BY <1>1, <2>1, <2>2 DEF TryAcquire, DbTypeOK, ChainTypeOK, WriterTypeOK
<1>2. CASE Heartbeat(w)
  <2>1. CASE LeaseLost(w)
    BY <2>1, LeaseLostType
  <2>2. CASE ~LeaseLost(w)
    <3>1. pc' \in [Writers -> PCs] /\ lane' \in [Writers -> Lanes]
      BY <1>2, <2>2 DEF Heartbeat, WriterTypeOK, Lanes, PCs
    <3> QED BY <1>2, <2>2, <3>1 DEF Heartbeat, DbTypeOK, ChainTypeOK, WriterTypeOK
  <2> QED BY <2>1, <2>2
<1>3. CASE Hold(w)
  <2>1. CASE LeaseLost(w)
    BY <2>1, LeaseLostType
  <2>2. CASE ~LeaseLost(w)
    <3>1. pc' \in [Writers -> PCs]
      BY <1>3, <2>2 DEF Hold, Go, WriterTypeOK, PCs
    <3> QED BY <1>3, <2>2, <3>1 DEF Hold, Go, DbTypeOK, ChainTypeOK, WriterTypeOK
  <2> QED BY <2>1, <2>2
<1>4. CASE Abandon(w)
  <2>1. WriterTypeOK'
    BY <1>4, ForgetType DEF Abandon
  <2>2. inflight' \in [Lanes -> [Rows -> Nat]]
    <3>1. lane[w] \in Lanes
      BY DEF WriterTypeOK
    <3>2. Unwatched(lane[w], batch[w]) \in [Lanes -> [Rows -> Nat]]
      BY <3>1, UnwatchedType
    <3> QED BY <1>4, <3>2 DEF Abandon, ChainTypeOK
  <2>3. faults' \in Nat
    BY <1>4, FaultType DEF Abandon, Fault
  <2> QED BY <1>4, <2>1, <2>2, <2>3 DEF Abandon, DbTypeOK, ChainTypeOK
<1> QED BY <1>1, <1>2, <1>3, <1>4

\* Recording and marking rows is well typed.
LEMMA RowStepsType ==
  ASSUME TypeOK, NEW w \in Writers, Record(w) \/ Mark(w)
  PROVE  TypeOK'
<1> USE DEF TypeOK, db, chain, NoFault
<1>1. CASE LeaseLost(w)
  BY <1>1, LeaseLostType
<1>2. CASE RecordNext(w)
  <2>1. PICK r \in Rows :
          /\ RecordOutcome(lane[w], r, snap[w][r], fate[w][r])
          /\ fate' = [fate EXCEPT ![w][r] = "none"]
          /\ pc'   = [pc EXCEPT ![w] = IF Decided(w) = {r} THEN after[w] ELSE "record"]
    BY <1>2 DEF RecordNext, First, Decided
  <2>2. lane[w] \in Lanes /\ snap[w][r] \in Nat /\ lease' = lease
    BY <1>2 DEF RecordNext, WriterTypeOK
  <2>3. DbTypeOK'
    BY <2>1, <2>2, RecordOutcomeType
  <2>4. fate' \in [Writers -> [Rows -> Fates]] /\ pc' \in [Writers -> PCs]
    BY <2>1 DEF WriterTypeOK, Fates, PCs
  <2> QED BY <1>2, <2>3, <2>4 DEF RecordNext, ChainTypeOK, WriterTypeOK
<1>3. CASE ReconcileErrs(w)
  <2>1. /\ fate' \in [Writers -> [Rows -> Fates]] /\ todo' \in [Writers -> SUBSET Rows]
        /\ pc' \in [Writers -> PCs]
    BY <1>3 DEF ReconcileErrs, WriterTypeOK, NoFate, Fates, PCs
  <2>2. faults' \in Nat
    BY <1>3, FaultType DEF ReconcileErrs, Fault
  <2> QED BY <1>3, <2>1, <2>2 DEF ReconcileErrs, DbTypeOK, ChainTypeOK, WriterTypeOK
<1>4. CASE MarkNext(w)
  <2>1. PICK r \in Rows :
          /\ status'  = [status EXCEPT ![lane[w]][r] = "SUBMITTING"]
          /\ attempt' = [attempt EXCEPT ![lane[w]][r] = snap[w][r] + 1]
          /\ todo'    = [todo EXCEPT ![w] = @ \ {r}]
          /\ pc'      = [pc EXCEPT ![w] = IF todo[w] = {r} THEN "broadcast" ELSE "mark"]
    BY <1>4 DEF MarkNext, First, WriterTypeOK
  <2>2. lane[w] \in Lanes /\ snap[w][r] \in Nat
    BY DEF WriterTypeOK
  <2>3. /\ status' \in [Lanes -> [Rows -> PeopleStatus \cup DotnsStatus]]
        /\ \A k \in Lanes, s \in Rows : status'[k][s] \in StatusOf(k)
    BY <2>1, <2>2 DEF DbTypeOK, StatusOf, PeopleStatus, DotnsStatus, Lanes
  <2>4. attempt' \in [Lanes -> [Rows -> Nat]]
    BY <2>1, <2>2 DEF DbTypeOK
  <2>5. todo' \in [Writers -> SUBSET Rows] /\ pc' \in [Writers -> PCs]
    BY <2>1 DEF WriterTypeOK, PCs
  <2> QED BY <1>4, <2>3, <2>4, <2>5 DEF MarkNext, DbTypeOK, ChainTypeOK, WriterTypeOK
<1>5. CASE MarkErrs(w)
  <2>1. WriterTypeOK'
    BY <1>5, SubmitErrorType DEF MarkErrs, Reasons
  <2>2. faults' \in Nat
    BY <1>5, FaultType DEF MarkErrs, Fault
  <2>3. blame' \in [Causes -> [Lanes -> [Rows -> Nat]]]
    <3>1. BlameStep(lane[w])
      BY <1>5, SubmitErrorBlame DEF MarkErrs
    <3> QED BY <3>1, BlameStepType DEF WriterTypeOK
  <2> QED BY <1>5, <2>1, <2>2, <2>3 DEF MarkErrs, DbTypeOK, ChainTypeOK
<1> QED BY <1>1, <1>2, <1>3, <1>4, <1>5 DEF Record, Mark

\* Intake, promotion, time and the pools are well typed.
LEMMA OutsideStepsType ==
  ASSUME TypeOK, NEW l \in Lanes, NEW r \in Rows,
         \/ Reserve(r) \/ Promote(r) \/ BackoffElapses(l, r)
         \/ LeavesPool(l, r) \/ TakenByOther(l, r)
  PROVE  TypeOK'
<1> USE DEF TypeOK, db, chain, local, writer, NoFault
<1>1. CASE Reserve(r)
  <2>1. /\ status' \in [Lanes -> [Rows -> PeopleStatus \cup DotnsStatus]]
        /\ \A k \in Lanes, s \in Rows : status'[k][s] \in StatusOf(k)
    <3>1. PICK s \in {"QUEUED", "RESERVED"}, t \in {"PENDING", "NULL"} :
            status' = [status EXCEPT !["people"][r] = s, !["dotns"][r] = t]
      BY <1>1 DEF Reserve
    <3> QED BY <3>1 DEF DbTypeOK, StatusOf, PeopleStatus, DotnsStatus, Lanes
  <2>2. device' \in [Devices -> [state : {"FREE", "PENDING", "CONSUMED"}, row : Rows \cup {0}]]
    <3>1. device' = [d \in Devices |-> IF d = Device[r] THEN [state |-> "PENDING", row |-> r]
                                                       ELSE device[d]]
      BY <1>1 DEF Reserve
    <3> QED BY <3>1 DEF DbTypeOK
  <2> QED BY <1>1, <2>1, <2>2 DEF Reserve, DbTypeOK, ChainTypeOK, WriterTypeOK
<1>2. CASE Promote(r)
  <2>1. /\ status' \in [Lanes -> [Rows -> PeopleStatus \cup DotnsStatus]]
        /\ \A k \in Lanes, s \in Rows : status'[k][s] \in StatusOf(k)
    BY <1>2 DEF Promote, DbTypeOK, StatusOf, PeopleStatus, DotnsStatus, Lanes
  <2> QED BY <1>2, <2>1 DEF Promote, DbTypeOK, ChainTypeOK, WriterTypeOK
<1>3. CASE BackoffElapses(l, r)
  <2>1. due \in [Lanes -> [Rows -> BOOLEAN]] /\ TRUE \in BOOLEAN
    BY DEF DbTypeOK
  <2>2. due' \in [Lanes -> [Rows -> BOOLEAN]]
    BY <1>3, <2>1, DueType DEF BackoffElapses
  <2> QED BY <1>3, <2>2 DEF BackoffElapses, DbTypeOK, ChainTypeOK, WriterTypeOK
<1>4. CASE LeavesPool(l, r)
  <2>1. inflight' \in [Lanes -> [Rows -> Nat]]
    BY <1>4 DEF LeavesPool, ChainTypeOK
  <2>2. owner' \in [Lanes -> [Rows -> {"none", "candidate", "other"}]]
    <3>1. owner' = owner \/ owner' = [owner EXCEPT ![l][r] = "candidate"]
      BY <1>4 DEF LeavesPool
    <3>2. /\ owner \in [Lanes -> [Rows -> {"none", "candidate", "other"}]]
          /\ [owner EXCEPT ![l][r] = "candidate"] \in
               [Lanes -> [Rows -> {"none", "candidate", "other"}]]
      BY DEF ChainTypeOK
    <3> QED BY <3>1, <3>2
  <2> QED BY <1>4, <2>1, <2>2 DEF LeavesPool, DbTypeOK, ChainTypeOK, WriterTypeOK
<1>5. CASE TakenByOther(l, r)
  <2>1. faults' \in Nat
    BY <1>5, FaultType DEF TakenByOther, Fault
  <2>2. owner' \in [Lanes -> [Rows -> {"none", "candidate", "other"}]]
    BY <1>5 DEF TakenByOther, ChainTypeOK
  <2> QED BY <1>5, <2>1, <2>2 DEF TakenByOther, DbTypeOK, ChainTypeOK, WriterTypeOK
<1> QED BY <1>1, <1>2, <1>3, <1>4, <1>5

\* A step that only moves one writer's own state is well typed when that state is.
LEMMA LocalStepType ==
  ASSUME TypeOK, WriterTypeOK', UNCHANGED <<db, lease, chain>>,
         faults' = faults \/ faults' = faults + 1,
         NEW l \in Lanes, BlameStep(l)
  PROVE  TypeOK'
<1>1. faults' \in Nat /\ blame' \in [Causes -> [Lanes -> [Rows -> Nat]]]
  BY FaultType, BlameStepType DEF TypeOK
<1> QED BY <1>1 DEF TypeOK, db, chain, DbTypeOK, ChainTypeOK

\* The startup reconcile is well typed.
LEMMA ReconcileType ==
  ASSUME TypeOK, NEW w \in Writers, Reconcile(w) \/ ReconOwners(w)
  PROVE  TypeOK'
<1> USE DEF TypeOK
<1>0. UNCHANGED <<db, lease, chain>> /\ lane[w] \in Lanes /\ BlameStep(lane[w])
  BY WriterBlame DEF Reconcile, ReconOwners, WriterTypeOK
<1>1. CASE ReconcileNext(w)
  <2>1. /\ lane' \in [Writers -> Lanes] /\ pc' \in [Writers -> PCs]
        /\ snap' \in [Writers -> [Rows -> Nat]] /\ todo' \in [Writers -> SUBSET Rows]
    BY <1>1 DEF ReconcileNext, WriterTypeOK, Lanes, PCs, NoSnap
  <2>2. WriterTypeOK'
    BY <1>1, <2>1 DEF ReconcileNext, WriterTypeOK
  <2>3. faults' = faults \/ faults' = faults + 1
    BY <1>1 DEF Reconcile, ReconOwners, ReadChunk, SkipChunk, Fault, NoFault
  <2> QED BY <1>0, <2>2, <2>3, LocalStepType
<1>2. CASE Reconcile(w) /\ ~ReconcileNext(w)
  <2> DEFINE stuck == {r \in Rows : status[lane[w]][r] = "SUBMITTING"}
  <2>1. /\ todo' = [todo EXCEPT ![w] = stuck]
        /\ snap' = [snap EXCEPT ![w] = [r \in Rows |-> IF r \in stuck THEN attempt[lane[w]][r] ELSE 0]]
        /\ pc'   = [pc EXCEPT ![w] = "reconOwners"]
        /\ UNCHANGED <<faults, epoch, lane, batch, fate, after>>
    BY <1>2 DEF Reconcile, NoFault
  <2>2. todo' \in [Writers -> SUBSET Rows] /\ pc' \in [Writers -> PCs]
    BY <2>1 DEF WriterTypeOK, PCs
  <2>3. snap' \in [Writers -> [Rows -> Nat]]
    BY <2>1 DEF WriterTypeOK, DbTypeOK
  <2>4. WriterTypeOK'
    BY <2>1, <2>2, <2>3 DEF WriterTypeOK
  <2> QED BY <1>0, <2>1, <2>4, LocalStepType
<1>3. CASE ReadChunk(w)
  <2> DEFINE chunk == Earliest(todo[w], ReconcileChunk)
  <2> DEFINE outcome == [r \in Rows |-> IF r \notin chunk THEN "none"
                            ELSE IF owner[lane[w]][r] = "candidate" THEN "Observed" ELSE "Retry"]
  <2>1. outcome \in [Rows -> Fates]
    BY DEF Fates, Outcomes
  <2>2. Decide(w, outcome, {}, "reconOwners")
    BY <1>3 DEF ReadChunk
  <2>3. /\ fate' \in [Writers -> [Rows -> Fates]]
        /\ batch' \in [Writers -> SUBSET Rows]
        /\ pc' \in [Writers -> PCs]
        /\ after' \in [Writers -> Resume]
    <3> HIDE DEF outcome
    <3> QED BY <2>1, <2>2, DecideType DEF Resume
  <2>4. todo' \in [Writers -> SUBSET Rows]
    BY <1>3 DEF ReadChunk, WriterTypeOK
  <2>5. WriterTypeOK'
    BY <1>3, <2>3, <2>4 DEF ReadChunk, WriterTypeOK, Resume
  <2>6. faults' = faults
    BY <1>3 DEF ReadChunk, NoFault
  <2> QED BY <1>0, <2>5, <2>6, LocalStepType
<1>4. CASE SkipChunk(w)
  <2>1. todo' \in [Writers -> SUBSET Rows]
    BY <1>4 DEF SkipChunk, WriterTypeOK
  <2>2. WriterTypeOK'
    BY <1>4, <2>1 DEF SkipChunk, WriterTypeOK
  <2>3. faults' = faults + 1
    BY <1>4 DEF SkipChunk, Fault
  <2> QED BY <1>0, <2>2, <2>3, LocalStepType
<1> QED BY <1>1, <1>2, <1>3, <1>4 DEF ReconOwners

\* Claiming rows, and the end of a pass, are well typed.
LEMMA ClaimType ==
  ASSUME TypeOK, NEW w \in Writers, Claim(w) \/ EndPass(w)
  PROVE  TypeOK'
<1> USE DEF TypeOK
<1>0. UNCHANGED <<db, lease, chain>> /\ lane[w] \in Lanes /\ BlameStep(lane[w])
  BY DEF Claim, EndPass, WriterTypeOK, BlameStep
<1>1. CASE NextPass(w)
  <2>1. /\ lane' \in [Writers -> Lanes] /\ pc' \in [Writers -> PCs]
        /\ snap' \in [Writers -> [Rows -> Nat]]
    BY <1>1 DEF NextPass, WriterTypeOK, Lanes, PCs, NoSnap
  <2>2. WriterTypeOK'
    BY <1>1, <2>1 DEF NextPass, WriterTypeOK
  <2>3. faults' = faults \/ faults' = faults + 1
    BY <1>1 DEF Claim, ClaimSome, EndPass, Fault, NoFault
  <2> QED BY <1>0, <2>2, <2>3, LocalStepType
<1>2. CASE ClaimSome(w)
  <2>1. PICK claimed \in SUBSET Rows :
          /\ batch' = [batch EXCEPT ![w] = claimed]
          /\ snap'  = [snap EXCEPT ![w] =
                         [r \in Rows |-> IF r \in claimed THEN attempt[lane[w]][r] ELSE 0]]
    BY <1>2 DEF ClaimSome, Earliest, Due
  <2>2. batch' \in [Writers -> SUBSET Rows] /\ pc' \in [Writers -> PCs]
    BY <1>2, <2>1 DEF ClaimSome, WriterTypeOK, PCs
  <2>3. snap' \in [Writers -> [Rows -> Nat]]
    BY <2>1 DEF WriterTypeOK, DbTypeOK
  <2>4. WriterTypeOK'
    BY <1>2, <2>2, <2>3 DEF ClaimSome, WriterTypeOK
  <2>5. faults' = faults
    BY <1>2 DEF ClaimSome, NoFault
  <2> QED BY <1>0, <2>4, <2>5, LocalStepType
<1> QED BY <1>1, <1>2 DEF Claim, EndPass

\* The decisions of one drain pass are well typed.
LEMMA DecisionsType ==
  ASSUME TypeOK, NEW w \in Writers,
         Triage(w) \/ Owners(w) \/ Settle(w) \/ Rebatch(w)
  PROVE  TypeOK'
<1> USE DEF TypeOK
<1>0. /\ UNCHANGED <<db, lease, chain>> /\ lane[w] \in Lanes /\ BlameStep(lane[w])
      /\ faults' = faults \/ faults' = faults + 1
  BY DEF Triage, Owners, Settle, Rebatch, Fault, NoFault, WriterTypeOK, BlameStep
<1>1. CASE DeferAll(w)
  BY <1>0, <1>1, DeferAllType, LocalStepType
<1>2. CASE ~DeferAll(w)
  <2>1. PICK outcome \in [Rows -> Fates], rest \in SUBSET Rows, then \in Resume :
          Decide(w, outcome, rest, then)
    <3>1. CASE Triage(w)
      <4>1. PICK refused \in SUBSET batch[w] :
            \E answer \in [refused -> GateOutcomes(lane[w])] :
              Decide(w, [r \in Rows |-> IF r \in refused THEN answer[r] ELSE "none"],
                     batch[w] \ refused,
                     IF refused = batch[w] THEN "next" ELSE "owners")
        BY <1>2, <3>1 DEF Triage
      <4>2. PICK answer \in [refused -> GateOutcomes(lane[w])] :
              Decide(w, [r \in Rows |-> IF r \in refused THEN answer[r] ELSE "none"],
                     batch[w] \ refused,
                     IF refused = batch[w] THEN "next" ELSE "owners")
        BY <4>1
      <4>3. [r \in Rows |-> IF r \in refused THEN answer[r] ELSE "none"] \in [Rows -> Fates]
        BY DEF GateOutcomes, Fates, Outcomes
      <4>4. batch[w] \ refused \in SUBSET Rows
        BY DEF WriterTypeOK
      <4>5. (IF refused = batch[w] THEN "next" ELSE "owners") \in Resume
        BY DEF Resume
      <4> QED BY <4>2, <4>3, <4>4, <4>5
    <3>2. CASE Owners(w)
      <4> DEFINE unowned == {r \in batch[w] : owner[lane[w]][r] = "none"}
      <4> DEFINE outcome == [r \in Rows |-> IF r \notin batch[w] THEN "none"
                               ELSE IF owner[lane[w]][r] = "candidate" THEN "Observed"
                               ELSE IF owner[lane[w]][r] = "other" THEN "Failed"
                               ELSE "none"]
      <4>1. Decide(w, outcome, unowned, IF unowned = {} THEN "next" ELSE "submit")
        BY <1>2, <3>2 DEF Owners
      <4>2. outcome \in [Rows -> Fates]
        BY DEF Fates, Outcomes
      <4>3. unowned \in SUBSET Rows /\ (IF unowned = {} THEN "next" ELSE "submit") \in Resume
        BY DEF WriterTypeOK, Resume
      <4> HIDE DEF outcome, unowned
      <4> QED BY <4>1, <4>2, <4>3
    <3>3. CASE Settle(w)
      <4>1. PICK read \in BOOLEAN :
              Decide(w, [r \in Rows |-> IF r \notin batch[w] THEN "none"
                           ELSE IF fate[w][r] = "ok" THEN "Landed"
                           ELSE Classify(fate[w][r], read /\ owner[lane[w]][r] = "candidate",
                                         snap[w][r] + 1)], {}, "next")
        BY <3>3 DEF Settle
      <4> DEFINE outcome == [r \in Rows |-> IF r \notin batch[w] THEN "none"
                               ELSE IF fate[w][r] = "ok" THEN "Landed"
                               ELSE Classify(fate[w][r], read /\ owner[lane[w]][r] = "candidate",
                                             snap[w][r] + 1)]
      <4>2. \A f, o, n : Classify(f, o, n) \in Fates
        BY DEF Classify, Fates, Outcomes
      <4>3. outcome \in [Rows -> Fates]
        <5>1. "none" \in Fates /\ "Landed" \in Fates
          BY DEF Fates, Outcomes
        <5> QED BY <4>2, <5>1, Zenon
      <4>4. Decide(w, outcome, {}, "next")
        BY <4>1
      <4>5. {} \in SUBSET Rows /\ "next" \in Resume
        BY DEF Resume
      <4> HIDE DEF outcome
      <4> QED BY <4>3, <4>4, <4>5
    <3>4. CASE Rebatch(w)
      <4> DEFINE outcome == [r \in Rows |-> IF r \notin batch[w] THEN "none"
                               ELSE IF owner[lane[w]][r] = "candidate" THEN "Landed" ELSE "Defer"]
      <4>1. Decide(w, outcome, {}, "next")
        BY <1>2, <3>4 DEF Rebatch
      <4>2. outcome \in [Rows -> Fates] /\ {} \in SUBSET Rows /\ "next" \in Resume
        BY DEF Fates, Outcomes, Resume
      <4> HIDE DEF outcome
      <4> QED BY <4>1, <4>2
    <3> QED BY <3>1, <3>2, <3>3, <3>4
  <2>2. /\ fate' \in [Writers -> [Rows -> Fates]]
        /\ batch' \in [Writers -> SUBSET Rows]
        /\ pc' \in [Writers -> PCs]
        /\ after' \in [Writers -> Resume]
    BY <2>1, DecideType
  <2>3. UNCHANGED <<epoch, lane, snap, todo>>
    BY <1>2 DEF Triage, Owners, Settle, Rebatch
  <2>4. WriterTypeOK'
    BY <2>2, <2>3 DEF WriterTypeOK, Resume
  <2> QED BY <1>0, <2>4, LocalStepType
<1> QED BY <1>1, <1>2

\* Signing and broadcasting are well typed.
LEMMA SubmitType ==
  ASSUME TypeOK, NEW w \in Writers, Submit(w) \/ Broadcast(w)
  PROVE  TypeOK'
<1> USE DEF TypeOK
<1>0. /\ UNCHANGED <<db, lease, chain>>
      /\ faults' = faults \/ faults' = faults + 1
  BY DEF Submit, Broadcast, Fault, NoFault
<1>1. blame' \in [Causes -> [Lanes -> [Rows -> Nat]]]
  BY WriterBlame, BlameStepType DEF WriterTypeOK
<1>2. WriterTypeOK'
  <2>1. CASE DeferAll(w)
    BY <2>1, DeferAllType
  <2>2. CASE \E reason \in Reasons : SubmitError(w, reason)
    BY <2>2, SubmitErrorType
  <2>3. CASE Decide(w, FateOn(batch[w], "Retry"), {}, "next") /\ UNCHANGED <<epoch, lane, snap, todo>>
    <3>1. FateOn(batch[w], "Retry") \in [Rows -> Fates] /\ {} \in SUBSET Rows /\ "next" \in Resume
      BY FateOnType DEF Fates, Outcomes, Resume
    <3>2. /\ fate' \in [Writers -> [Rows -> Fates]]
          /\ batch' \in [Writers -> SUBSET Rows]
          /\ pc' \in [Writers -> PCs]
          /\ after' \in [Writers -> Resume]
      BY <2>3, <3>1, DecideType
    <3> QED BY <2>3, <3>2 DEF WriterTypeOK, Resume
  <2>4. CASE /\ todo' = [todo EXCEPT ![w] = batch[w]]
             /\ pc'   = [pc EXCEPT ![w] = "mark"]
             /\ UNCHANGED <<epoch, lane, batch, snap, fate, after>>
    <3>1. todo' \in [Writers -> SUBSET Rows] /\ pc' \in [Writers -> PCs]
      BY <2>4 DEF WriterTypeOK, PCs
    <3> QED BY <2>4, <3>1 DEF WriterTypeOK
  <2>5. CASE Go(w, "await")
    <3>1. pc' \in [Writers -> PCs]
      BY <2>5 DEF Go, WriterTypeOK, PCs
    <3> QED BY <2>5, <3>1 DEF Go, local, WriterTypeOK
  <2>6. {"unfunded", "contention", "other"} \subseteq Reasons
    BY DEF Reasons
  <2> QED BY <2>1, <2>2, <2>3, <2>4, <2>5, <2>6 DEF Submit, Broadcast
<1>3. faults' \in Nat
  BY <1>0, FaultType
<1> QED BY <1>0, <1>1, <1>2, <1>3 DEF db, chain, DbTypeOK, ChainTypeOK

\* Whatever becomes of a watched extrinsic is well typed.
LEMMA AwaitType ==
  ASSUME TypeOK, NEW w \in Writers, Await(w)
  PROVE  TypeOK'
<1> USE DEF TypeOK
<1>0. UNCHANGED <<db, lease>> /\ lane[w] \in Lanes
  BY DEF Await, WriterTypeOK
<1>1. faults' \in Nat
  <2>1. faults' = faults \/ faults' = faults + 1
    BY DEF Await, Finalized, BatchFails, TimesOut, WatchBreaks, RenewalFails, Fault, NoFault
  <2> QED BY <2>1, FaultType
<1>2. inflight' \in [Lanes -> [Rows -> Nat]]
  <2>1. Unwatched(lane[w], batch[w]) \in [Lanes -> [Rows -> Nat]]
    BY <1>0, UnwatchedType
  <2>2. inflight' = inflight \/ inflight' = Unwatched(lane[w], batch[w])
    BY DEF Await, Finalized, BatchFails, TimesOut, WatchBreaks, RenewalFails
  <2> QED BY <2>1, <2>2 DEF ChainTypeOK
<1>3. CASE Finalized(w)
  <2>1. PICK res \in [batch[w] -> {"ok", "alreadyRegistered", "deterministic", "other"}] :
          /\ owner' = [owner EXCEPT ![lane[w]] = [r \in Rows |->
                         IF r \in batch[w] /\ res[r] = "ok" THEN "candidate" ELSE @[r]]]
          /\ \/ /\ fate' = [fate EXCEPT ![w] =
                              [r \in Rows |-> IF r \in batch[w] THEN res[r] ELSE "none"]]
                /\ pc'   = [pc EXCEPT ![w] = "settle"]
                /\ UNCHANGED <<epoch, lane, batch, snap, todo, after>>
             \/ SubmitError(w, "other")
             \/ Go(w, "rebatch")
    BY <1>3 DEF Finalized
  <2>2. owner' \in [Lanes -> [Rows -> {"none", "candidate", "other"}]]
    BY <1>0, <2>1 DEF ChainTypeOK
  <2>3. blame' \in [Causes -> [Lanes -> [Rows -> Nat]]]
    BY <1>0, WriterBlame, BlameStepType
  <2>4. WriterTypeOK'
    <3>1. CASE SubmitError(w, "other")
      BY <3>1, SubmitErrorType DEF Reasons
    <3>2. CASE Go(w, "rebatch")
      <4>1. pc' \in [Writers -> PCs]
        BY <3>2 DEF Go, WriterTypeOK, PCs
      <4> QED BY <3>2, <4>1 DEF Go, local, WriterTypeOK
    <3>3. CASE /\ fate' = [fate EXCEPT ![w] =
                             [r \in Rows |-> IF r \in batch[w] THEN res[r] ELSE "none"]]
               /\ pc'   = [pc EXCEPT ![w] = "settle"]
               /\ UNCHANGED <<epoch, lane, batch, snap, todo, after>>
      <4>1. [r \in Rows |-> IF r \in batch[w] THEN res[r] ELSE "none"] \in [Rows -> Fates]
        BY DEF Fates, Reasons
      <4>2. fate' \in [Writers -> [Rows -> Fates]] /\ pc' \in [Writers -> PCs]
        BY <3>3, <4>1 DEF WriterTypeOK, PCs
      <4> QED BY <3>3, <4>2 DEF WriterTypeOK
    <3> QED BY <2>1, <3>1, <3>2, <3>3
  <2> QED BY <1>0, <1>1, <1>2, <2>2, <2>3, <2>4 DEF db, DbTypeOK, ChainTypeOK
<1>4. CASE ~Finalized(w)
  <2>1. WriterTypeOK'
    BY <1>4, DeferAllType, SubmitErrorType, ForgetType
       DEF Await, BatchFails, TimesOut, WatchBreaks, RenewalFails, Reasons
  <2>2. owner' = owner /\ blame' \in [Causes -> [Lanes -> [Rows -> Nat]]]
    BY <1>0, <1>4, WriterBlame, BlameStepType
       DEF Await, BatchFails, TimesOut, WatchBreaks, RenewalFails
  <2> QED BY <1>0, <1>1, <1>2, <2>1, <2>2 DEF db, DbTypeOK, ChainTypeOK
<1> QED BY <1>3, <1>4

\* The initial state is well typed.
LEMMA InitType == Init => TypeOK
<1> SUFFICES ASSUME Init PROVE TypeOK
  OBVIOUS
<1>1. DbTypeOK
  <2>1. /\ status \in [Lanes -> [Rows -> PeopleStatus \cup DotnsStatus]]
        /\ \A l \in Lanes, r \in Rows : status[l][r] \in StatusOf(l)
    BY DEF Init, StatusOf, PeopleStatus, DotnsStatus, Lanes
  <2>2. attempt \in [Lanes -> [Rows -> Nat]]
    BY DEF Init
  <2>3. due \in [Lanes -> [Rows -> BOOLEAN]]
    BY Zenon DEF Init
  <2>4. device \in [Devices -> [state : {"FREE", "PENDING", "CONSUMED"}, row : Rows \cup {0}]]
    BY DEF Init
  <2>5. lease \in [holder : {Holder[w] : w \in Writers}, epoch : Nat, live : BOOLEAN]
    <3>1. PICK w \in Writers : lease = [holder |-> Holder[w], epoch |-> 0, live |-> FALSE]
      BY DEF Init
    <3> QED BY <3>1
  <2> QED BY <2>1, <2>2, <2>3, <2>4, <2>5 DEF DbTypeOK
<1>2. ChainTypeOK
  BY DEF Init, ChainTypeOK
<1>3. WriterTypeOK
  BY DEF Init, WriterTypeOK, PCs, Lanes, NoSnap, NoFate, Fates
<1> QED BY <1>1, <1>2, <1>3 DEF TypeOK

\* Every step, or none, keeps the state well typed.
LEMMA StepType == TypeOK /\ [Next]_vars => TypeOK'
<1> SUFFICES ASSUME TypeOK, [Next]_vars PROVE TypeOK'
  OBVIOUS
<1>1. CASE UNCHANGED vars
  BY <1>1 DEF vars, db, chain, local, writer, TypeOK, DbTypeOK, ChainTypeOK, WriterTypeOK
<1>2. ASSUME NEW w \in Writers, WriterStep(w) \/ Abandon(w)
      PROVE  TypeOK'
  BY <1>2, LeaseStepsType, RowStepsType, ReconcileType, ClaimType, DecisionsType, SubmitType,
     AwaitType DEF WriterStep
<1>3. ASSUME NEW r \in Rows, Reserve(r) \/ Promote(r)
      PROVE  TypeOK'
  BY <1>3, OutsideStepsType DEF Lanes
<1>4. ASSUME NEW l \in Lanes, NEW r \in Rows,
             BackoffElapses(l, r) \/ LeavesPool(l, r) \/ TakenByOther(l, r)
      PROVE  TypeOK'
  BY <1>4, OutsideStepsType
<1>5. CASE LeaseExpires
  <2>1. lease' \in [holder : {Holder[v] : v \in Writers}, epoch : Nat, live : BOOLEAN]
    BY <1>5 DEF LeaseExpires, TypeOK, DbTypeOK
  <2>2. faults' \in Nat
    BY <1>5, FaultType DEF LeaseExpires, Fault, TypeOK
  <2> QED BY <1>5, <2>1, <2>2 DEF LeaseExpires, db, chain, local, writer,
                                  TypeOK, DbTypeOK, ChainTypeOK, WriterTypeOK
<1> QED BY <1>1, <1>2, <1>3, <1>4, <1>5 DEF Next

\* Type correctness of the whole writer.
THEOREM TypeCorrect == Spec => []TypeOK
BY InitType, StepType, PTL DEF Spec

--------------------------------------------------------------------------------
(* Where each writer keeps its rows.                                       *)

\* The step leaves writer v's own state alone.
Untouched(v) == /\ pc'[v] = pc[v] /\ epoch'[v] = epoch[v] /\ lane'[v] = lane[v]
                /\ batch'[v] = batch[v] /\ snap'[v] = snap[v] /\ todo'[v] = todo[v]
                /\ fate'[v] = fate[v] /\ after'[v] = after[v]

\* A writer's step leaves every other writer alone.
LEMMA OthersUntouched ==
  ASSUME TypeOK, NEW w \in Writers, WriterStep(w) \/ Abandon(w), NEW v \in Writers, v # w
  PROVE  Untouched(v)
<1> USE DEF TypeOK, WriterTypeOK, Untouched
<1>1. ASSUME Forget(w) PROVE Untouched(v)
  BY <1>1 DEF Forget
<1>2. ASSUME NEW o, NEW rest, NEW then, Decide(w, o, rest, then)
      PROVE  /\ pc'[v] = pc[v] /\ batch'[v] = batch[v]
             /\ fate'[v] = fate[v] /\ after'[v] = after[v]
  BY <1>2 DEF Decide
<1>3. ASSUME DeferAll(w) PROVE Untouched(v)
  BY <1>2, <1>3 DEF DeferAll
<1>4. ASSUME NEW reason, SubmitError(w, reason) PROVE Untouched(v)
  BY <1>3, <1>4 DEF SubmitError
<1>5. CASE TryAcquire(w) \/ Heartbeat(w) \/ Hold(w) \/ Abandon(w)
  BY <1>1, <1>5 DEF TryAcquire, Heartbeat, Hold, Abandon, LeaseLost, Go, local
<1>6. CASE Reconcile(w) \/ ReconOwners(w)
  BY <1>2, <1>6 DEF Reconcile, ReconOwners, ReadChunk, SkipChunk, ReconcileNext
<1>7. CASE Claim(w) \/ EndPass(w)
  BY <1>7 DEF Claim, ClaimSome, EndPass, NextPass
<1>8. CASE Triage(w) \/ Owners(w) \/ Settle(w) \/ Rebatch(w)
  BY <1>2, <1>3, <1>8 DEF Triage, Owners, Settle, Rebatch
<1>9. CASE Submit(w) \/ Broadcast(w)
  BY <1>2, <1>3, <1>4, <1>9 DEF Submit, Broadcast, Go, local
<1>10. CASE Mark(w) \/ Record(w)
  BY <1>1, <1>4, <1>10 DEF Mark, MarkNext, MarkErrs, Record, RecordNext, ReconcileErrs, LeaseLost
<1>11. CASE Await(w)
  BY <1>1, <1>3, <1>4, <1>11 DEF Await, Finalized, BatchFails, TimesOut, WatchBreaks,
                                 RenewalFails, Go, local
<1> QED BY <1>5, <1>6, <1>7, <1>8, <1>9, <1>10, <1>11 DEF WriterStep

\* Shape depends on a writer's own state only.
LEMMA ShapeFrame ==
  ASSUME NEW v \in Writers, Shape(v), Untouched(v)
  PROVE  Shape(v)'
BY DEF Shape, Untouched, Decided

\* Going back to acquire_lease leaves empty hands.
LEMMA ForgetShape ==
  ASSUME WriterTypeOK, NEW w \in Writers, Forget(w)
  PROVE  Shape(w)' /\ InHand(w)' = {}
BY DEF Forget, Shape, WriterTypeOK, NoFate, Decided, InHand

\* Decide splits the hand into rows with an outcome and rows without.
LEMMA DecideShape ==
  ASSUME WriterTypeOK, NEW w \in Writers, NEW outcome \in [Rows -> Fates],
         NEW rest \in SUBSET Rows, NEW then \in Resume, Decide(w, outcome, rest, then),
         todo' \in [Writers -> SUBSET Rows],
         then # "reconOwners" => todo'[w] = {},
         then \in {"next", "reconOwners"} => rest = {},
         \A r \in rest \cup todo'[w] : outcome[r] = "none"
  PROVE  Shape(w)'
<1>1. /\ fate'[w] = outcome /\ batch'[w] = rest /\ after'[w] = then
      /\ pc'[w] = IF outcome = NoFate THEN then ELSE "record"
  BY DEF Decide, WriterTypeOK
<1>2. CASE outcome = NoFate
  <2>1. pc'[w] = then /\ fate'[w] = NoFate
    BY <1>1, <1>2
  <2> QED BY <1>1, <2>1 DEF Shape, Resume
<1>3. CASE outcome # NoFate
  <2>1. pc'[w] = "record"
    BY <1>1, <1>3
  <2>2. Decided(w)' \cap (batch'[w] \cup todo'[w]) = {}
    BY <1>1 DEF Decided
  <2> QED BY <1>1, <2>1, <2>2 DEF Shape, Resume
<1> QED BY <1>2, <1>3

\* The hand of a writer that defers everything.
LEMMA DeferAllShape ==
  ASSUME WriterTypeOK, NEW w \in Writers, DeferAll(w)
  PROVE  Shape(w)' /\ InHand(w)' \subseteq InHand(w)
<1>1. FateOn(batch[w], "Defer") \in [Rows -> Fates] /\ {} \in SUBSET Rows /\ "next" \in Resume
  BY FateOnType DEF Fates, Outcomes, Resume
<1>2. todo' \in [Writers -> SUBSET Rows] /\ todo'[w] = {}
  BY DEF DeferAll, WriterTypeOK
<1>3. Decide(w, FateOn(batch[w], "Defer"), {}, "next")
  BY DEF DeferAll
<1>4. Shape(w)'
  <2> DEFINE o == FateOn(batch[w], "Defer")
  <2>1. o \in [Rows -> Fates] /\ Decide(w, o, {}, "next")
    BY <1>1, <1>3
  <2>2. \A r \in {} \cup todo'[w] : o[r] = "none"
    BY <1>2
  <2> HIDE DEF o
  <2> QED BY <1>1, <1>2, <2>1, <2>2, DecideShape
<1>5. fate'[w] = FateOn(batch[w], "Defer") /\ batch'[w] = {}
  BY <1>3 DEF Decide, WriterTypeOK
<1>6. Decided(w)' \subseteq batch[w]
  BY <1>5 DEF Decided, FateOn
<1> QED BY <1>2, <1>4, <1>5, <1>6 DEF InHand

\* The hand of a writer whose submission failed.
LEMMA SubmitErrorShape ==
  ASSUME WriterTypeOK, NEW w \in Writers, NEW reason \in Reasons, SubmitError(w, reason)
  PROVE  Shape(w)' /\ InHand(w)' \subseteq InHand(w)
<1>1. CASE ~Alone(w)
  BY <1>1, DeferAllShape DEF SubmitError
<1>2. CASE Alone(w)
  <2>1. /\ fate'[w] = FateOn(batch[w], reason) /\ pc'[w] = "settle"
        /\ todo'[w] = {} /\ batch'[w] = batch[w]
    BY <1>2 DEF SubmitError, WriterTypeOK
  <2>2. Decided(w)' \subseteq batch[w]
    BY <2>1 DEF Decided, FateOn
  <2> QED BY <2>1, <2>2 DEF Shape, InHand
<1> QED BY <1>1, <1>2

\* The rows a writer may take in hand: those left SUBMITTING, and the due ones.
Takeable(l) == {r \in Rows : status[l][r] = "SUBMITTING"} \cup Due(l)

\* Such rows wait for an outcome.
LEMMA TakeableWaits ==
  ASSUME NEW l \in Lanes, NEW r \in Takeable(l)
  PROVE  r \in Rows /\ status[l][r] \in Waiting(l)
BY DEF Takeable, Due, Waiting

\* What one of its own steps may do to a writer's hand: empty it, take rows out
\* of it, or fill it with rows that may be taken.
HandMoves(w) ==
    \/ InHand(w)' = {}
    \/ /\ pc[w] # "acquire"
       /\ lane'[w] = lane[w]
       /\ \/ InHand(w)' \subseteq InHand(w)
          \/ InHand(w)' \subseteq Takeable(lane[w])

\* A decision splits the hand of its writer.
LEMMA DecideHand ==
  ASSUME WriterTypeOK, NEW w \in Writers, NEW outcome \in [Rows -> Fates],
         NEW rest \in SUBSET Rows, NEW then \in Resume, Decide(w, outcome, rest, then),
         pc[w] # "acquire", lane' = lane, rest \subseteq batch[w],
         todo' \in [Writers -> SUBSET Rows], todo'[w] \subseteq todo[w],
         \A r \in Rows : outcome[r] # "none" => r \in batch[w] \cup todo[w]
  PROVE  HandMoves(w)
<1>1. fate'[w] = outcome /\ batch'[w] = rest
  BY DEF Decide, WriterTypeOK
<1>2. Decided(w)' \subseteq batch[w] \cup todo[w]
  BY <1>1 DEF Decided
<1>3. InHand(w)' \subseteq InHand(w)
  BY <1>1, <1>2 DEF InHand
<1> QED BY <1>3 DEF HandMoves

\* Lease steps never put a row in a hand.
LEMMA LeaseHand ==
  ASSUME TypeOK, NEW w \in Writers, Shape(w),
         TryAcquire(w) \/ Heartbeat(w) \/ Hold(w) \/ Abandon(w)
  PROVE  Shape(w)' /\ HandMoves(w)
<1> USE DEF TypeOK
<1>1. CASE Forget(w)
  BY <1>1, ForgetShape DEF HandMoves
<1>2. CASE TryAcquire(w)
  <2>1. /\ pc[w] = "acquire" /\ pc'[w] = "reconcile"
        /\ batch'[w] = batch[w] /\ todo'[w] = todo[w] /\ fate'[w] = fate[w]
    BY <1>2 DEF TryAcquire, WriterTypeOK, local
  <2>2. batch[w] = {} /\ todo[w] = {} /\ fate[w] = NoFate
    BY <2>1 DEF Shape
  <2>3. Shape(w)' /\ InHand(w)' = {}
    BY <2>1, <2>2 DEF Shape, InHand, Decided, NoFate
  <2> QED BY <2>3 DEF HandMoves
<1>3. CASE Heartbeat(w) /\ ~LeaseLost(w)
  <2>1. /\ pc[w] = "beat" /\ pc'[w] = "claim"
        /\ batch'[w] = batch[w] /\ todo'[w] = todo[w] /\ fate'[w] = fate[w]
    BY <1>3 DEF Heartbeat, WriterTypeOK, local
  <2>2. batch[w] = {} /\ todo[w] = {} /\ fate[w] = NoFate
    BY <2>1 DEF Shape
  <2>3. Shape(w)' /\ InHand(w)' = {}
    BY <2>1, <2>2 DEF Shape, InHand, Decided, NoFate
  <2> QED BY <2>3 DEF HandMoves
<1>4. CASE Hold(w) /\ ~LeaseLost(w)
  <2>1. /\ pc[w] = "hold" /\ pc'[w] = "triage" /\ lane'[w] = lane[w]
        /\ batch'[w] = batch[w] /\ todo'[w] = todo[w] /\ fate'[w] = fate[w]
    BY <1>4 DEF Hold, Go, WriterTypeOK, local
  <2>2. todo[w] = {} /\ fate[w] = NoFate
    BY <2>1 DEF Shape
  <2>3. Shape(w)' /\ InHand(w)' = InHand(w)
    BY <2>1, <2>2 DEF Shape, InHand, Decided
  <2> QED BY <2>1, <2>3 DEF HandMoves
<1> QED BY <1>1, <1>2, <1>3, <1>4 DEF LeaseLost, Heartbeat, Hold, Abandon

\* The startup reconcile takes SUBMITTING rows in hand, and lets them go.
LEMMA ReconcileHand ==
  ASSUME TypeOK, NEW w \in Writers, Shape(w), Reconcile(w) \/ ReconOwners(w)
  PROVE  Shape(w)' /\ HandMoves(w)
<1> USE DEF TypeOK
<1>0. /\ pc[w] \in {"reconcile", "reconOwners"}
      /\ batch[w] = {} /\ fate[w] = NoFate
  BY DEF Reconcile, ReconOwners, Shape
<1>1. CASE ReconcileNext(w)
  <2>1. /\ pc'[w] \in {"reconcile", "beat"} /\ todo'[w] = {}
        /\ batch'[w] = {} /\ fate'[w] = NoFate
    BY <1>0, <1>1 DEF ReconcileNext, WriterTypeOK
  <2>2. Shape(w)' /\ InHand(w)' = {}
    BY <2>1 DEF Shape, InHand, Decided, NoFate
  <2> QED BY <2>2 DEF HandMoves
<1>2. CASE Reconcile(w) /\ ~ReconcileNext(w)
  <2>1. /\ todo'[w] = {r \in Rows : status[lane[w]][r] = "SUBMITTING"}
        /\ pc'[w] = "reconOwners" /\ lane'[w] = lane[w]
        /\ batch'[w] = {} /\ fate'[w] = NoFate
    BY <1>0, <1>2 DEF Reconcile, WriterTypeOK
  <2>2. Shape(w)' /\ InHand(w)' = todo'[w]
    BY <2>1 DEF Shape, InHand, Decided, NoFate
  <2> QED BY <1>0, <2>1, <2>2 DEF HandMoves, Takeable
<1>3. CASE ReadChunk(w)
  <2> DEFINE chunk == Earliest(todo[w], ReconcileChunk)
  <2> DEFINE outcome == [r \in Rows |-> IF r \notin chunk THEN "none"
                            ELSE IF owner[lane[w]][r] = "candidate" THEN "Observed" ELSE "Retry"]
  <2>1. outcome \in [Rows -> Fates] /\ {} \in SUBSET Rows /\ "reconOwners" \in Resume
    BY DEF Fates, Outcomes, Resume
  <2>2. Decide(w, outcome, {}, "reconOwners") /\ lane' = lane
    BY <1>3 DEF ReadChunk
  <2>3. todo' \in [Writers -> SUBSET Rows] /\ todo'[w] = todo[w] \ chunk
    BY <1>3 DEF ReadChunk, WriterTypeOK
  <2>4. /\ \A r \in {} \cup todo'[w] : outcome[r] = "none"
        /\ \A r \in Rows : outcome[r] # "none" => r \in batch[w] \cup todo[w]
        /\ todo'[w] \subseteq todo[w]
    BY <2>3 DEF Earliest, WriterTypeOK
  <2> HIDE DEF outcome, chunk
  <2>5. Shape(w)'
    BY <2>1, <2>2, <2>3, <2>4, DecideShape
  <2>6. HandMoves(w)
    BY <1>0, <2>1, <2>2, <2>3, <2>4, DecideHand
  <2> QED BY <2>5, <2>6
<1>4. CASE ReconOwners(w) /\ SkipChunk(w)
  <2>1. /\ pc[w] = "reconOwners" /\ pc'[w] = pc[w] /\ lane'[w] = lane[w]
        /\ batch'[w] = {} /\ fate'[w] = NoFate /\ fate[w] = NoFate
        /\ todo'[w] \subseteq todo[w]
    BY <1>0, <1>4 DEF ReconOwners, SkipChunk, WriterTypeOK
  <2>2. Shape(w)' /\ InHand(w)' \subseteq InHand(w)
    BY <2>1 DEF Shape, InHand, Decided, NoFate
  <2> QED BY <2>1, <2>2 DEF HandMoves
<1> QED BY <1>1, <1>2, <1>3, <1>4 DEF ReconOwners

\* A claim takes due rows in hand; between passes the hand is empty.
LEMMA ClaimHand ==
  ASSUME TypeOK, NEW w \in Writers, Shape(w), Claim(w) \/ EndPass(w)
  PROVE  Shape(w)' /\ HandMoves(w)
<1> USE DEF TypeOK
<1>0. /\ pc[w] \in {"claim", "next"}
      /\ batch[w] = {} /\ todo[w] = {} /\ fate[w] = NoFate
  BY DEF Claim, EndPass, Shape
<1>1. CASE NextPass(w)
  <2>1. /\ pc'[w] \in {"claim", "beat"} /\ todo'[w] = {}
        /\ batch'[w] = {} /\ fate'[w] = NoFate
    BY <1>0, <1>1 DEF NextPass, WriterTypeOK
  <2>2. Shape(w)' /\ InHand(w)' = {}
    BY <2>1 DEF Shape, InHand, Decided, NoFate
  <2> QED BY <2>2 DEF HandMoves
<1>2. CASE ClaimSome(w)
  <2>1. /\ batch'[w] \subseteq Due(lane[w]) /\ pc'[w] = "hold" /\ lane'[w] = lane[w]
        /\ todo'[w] = {} /\ fate'[w] = NoFate
    BY <1>0, <1>2 DEF ClaimSome, Earliest, WriterTypeOK
  <2>2. Shape(w)' /\ InHand(w)' = batch'[w]
    BY <2>1 DEF Shape, InHand, Decided, NoFate
  <2> QED BY <1>0, <2>1, <2>2 DEF HandMoves, Takeable
<1> QED BY <1>1, <1>2 DEF Claim, EndPass

\* The decisions of a drain pass split the hand.
LEMMA DecisionsHand ==
  ASSUME TypeOK, NEW w \in Writers, Shape(w),
         Triage(w) \/ Owners(w) \/ Settle(w) \/ Rebatch(w)
  PROVE  Shape(w)' /\ HandMoves(w)
<1> USE DEF TypeOK
<1>0. pc[w] \in {"triage", "owners", "settle", "rebatch"} /\ todo[w] = {}
  BY DEF Triage, Owners, Settle, Rebatch, Shape
<1>1. CASE DeferAll(w)
  <2>1. lane'[w] = lane[w]
    BY <1>1 DEF DeferAll
  <2> QED BY <1>0, <1>1, <2>1, DeferAllShape DEF HandMoves
<1>2. CASE ~DeferAll(w)
  <2>1. lane' = lane /\ todo' \in [Writers -> SUBSET Rows] /\ todo'[w] = {}
    BY <1>0, <1>2 DEF Triage, Owners, Settle, Rebatch, WriterTypeOK
  <2>2. ASSUME NEW outcome \in [Rows -> Fates], NEW rest \in SUBSET Rows, NEW then \in Resume,
               Decide(w, outcome, rest, then), rest \subseteq batch[w],
               then # "reconOwners", then = "next" => rest = {},
               \A r \in rest : outcome[r] = "none",
               \A r \in Rows : outcome[r] # "none" => r \in batch[w]
        PROVE  Shape(w)' /\ HandMoves(w)
    <3>1. Shape(w)'
      BY <2>1, <2>2, DecideShape
    <3>2. HandMoves(w)
      BY <1>0, <2>1, <2>2, DecideHand
    <3> QED BY <3>1, <3>2
  <2>3. CASE Triage(w)
    <3>1. PICK refused \in SUBSET batch[w] :
          \E answer \in [refused -> GateOutcomes(lane[w])] :
            Decide(w, [r \in Rows |-> IF r \in refused THEN answer[r] ELSE "none"],
                   batch[w] \ refused,
                   IF refused = batch[w] THEN "next" ELSE "owners")
      BY <1>2, <2>3 DEF Triage
    <3>2. PICK answer \in [refused -> GateOutcomes(lane[w])] :
            Decide(w, [r \in Rows |-> IF r \in refused THEN answer[r] ELSE "none"],
                   batch[w] \ refused,
                   IF refused = batch[w] THEN "next" ELSE "owners")
      BY <3>1
    <3> DEFINE outcome == [r \in Rows |-> IF r \in refused THEN answer[r] ELSE "none"]
    <3> DEFINE rest == batch[w] \ refused
    <3> DEFINE then == IF refused = batch[w] THEN "next" ELSE "owners"
    <3>3. outcome \in [Rows -> Fates]
      BY DEF GateOutcomes, Fates, Outcomes
    <3>4. /\ rest \in SUBSET Rows /\ rest \subseteq batch[w]
          /\ \A r \in rest : outcome[r] = "none"
          /\ \A r \in Rows : outcome[r] # "none" => r \in batch[w]
      BY DEF WriterTypeOK
    <3>5. then \in Resume /\ then # "reconOwners" /\ (then = "next" => rest = {})
      BY DEF Resume
    <3>6. Decide(w, outcome, rest, then)
      BY <3>2
    <3> HIDE DEF outcome, rest, then
    <3> QED BY <2>2, <3>3, <3>4, <3>5, <3>6
  <2>4. CASE Owners(w)
    <3> DEFINE rest == {r \in batch[w] : owner[lane[w]][r] = "none"}
    <3> DEFINE outcome == [r \in Rows |-> IF r \notin batch[w] THEN "none"
                             ELSE IF owner[lane[w]][r] = "candidate" THEN "Observed"
                             ELSE IF owner[lane[w]][r] = "other" THEN "Failed"
                             ELSE "none"]
    <3> DEFINE then == IF rest = {} THEN "next" ELSE "submit"
    <3>1. Decide(w, outcome, rest, then)
      BY <1>2, <2>4 DEF Owners
    <3>2. outcome \in [Rows -> Fates]
      BY DEF Fates, Outcomes
    <3>3. /\ rest \in SUBSET Rows /\ rest \subseteq batch[w]
          /\ \A r \in rest : outcome[r] = "none"
          /\ \A r \in Rows : outcome[r] # "none" => r \in batch[w]
      BY DEF WriterTypeOK
    <3>4. then \in Resume /\ then # "reconOwners" /\ (then = "next" => rest = {})
      BY DEF Resume
    <3> HIDE DEF outcome, rest, then
    <3> QED BY <2>2, <3>1, <3>2, <3>3, <3>4
  <2>5. CASE Settle(w)
    <3>1. PICK read \in BOOLEAN :
            Decide(w, [r \in Rows |-> IF r \notin batch[w] THEN "none"
                         ELSE IF fate[w][r] = "ok" THEN "Landed"
                         ELSE Classify(fate[w][r], read /\ owner[lane[w]][r] = "candidate",
                                       snap[w][r] + 1)], {}, "next")
      BY <2>5 DEF Settle
    <3> DEFINE outcome == [r \in Rows |-> IF r \notin batch[w] THEN "none"
                             ELSE IF fate[w][r] = "ok" THEN "Landed"
                             ELSE Classify(fate[w][r], read /\ owner[lane[w]][r] = "candidate",
                                           snap[w][r] + 1)]
    <3>2. \A f, o, n : Classify(f, o, n) \in Fates
      BY DEF Classify, Fates, Outcomes
    <3>3. outcome \in [Rows -> Fates]
      <4>1. "none" \in Fates /\ "Landed" \in Fates
        BY DEF Fates, Outcomes
      <4> QED BY <3>2, <4>1, Zenon
    <3>4. \A r \in Rows : outcome[r] # "none" => r \in batch[w]
      BY Zenon
    <3>5. Decide(w, outcome, {}, "next")
      BY <3>1
    <3>6. {} \in SUBSET Rows /\ "next" \in Resume /\ "next" # "reconOwners"
      BY DEF Resume
    <3> HIDE DEF outcome
    <3> QED BY <2>2, <3>3, <3>4, <3>5, <3>6
  <2>6. CASE Rebatch(w)
    <3> DEFINE outcome == [r \in Rows |-> IF r \notin batch[w] THEN "none"
                             ELSE IF owner[lane[w]][r] = "candidate" THEN "Landed" ELSE "Defer"]
    <3>1. Decide(w, outcome, {}, "next")
      BY <1>2, <2>6 DEF Rebatch
    <3>2. outcome \in [Rows -> Fates] /\ {} \in SUBSET Rows /\ "next" \in Resume
      BY DEF Fates, Outcomes, Resume
    <3>3. "next" # "reconOwners" /\ \A r \in Rows : outcome[r] # "none" => r \in batch[w]
      OBVIOUS
    <3> HIDE DEF outcome
    <3> QED BY <2>2, <3>1, <3>2, <3>3
  <2> QED BY <2>3, <2>4, <2>5, <2>6
<1> QED BY <1>1, <1>2

\* Signing, broadcasting and watching never add to the hand.
LEMMA SubmitHand ==
  ASSUME TypeOK, NEW w \in Writers, Shape(w), Submit(w) \/ Broadcast(w) \/ Await(w)
  PROVE  Shape(w)' /\ HandMoves(w)
<1> USE DEF TypeOK
<1>0. /\ pc[w] \in {"submit", "broadcast", "await"}
      /\ todo[w] = {} /\ fate[w] = NoFate
  BY DEF Submit, Broadcast, Await, Shape
<1>1. CASE DeferAll(w)
  <2>1. lane'[w] = lane[w]
    BY <1>1 DEF DeferAll
  <2> QED BY <1>0, <1>1, <2>1, DeferAllShape DEF HandMoves
<1>2. CASE \E reason \in Reasons : SubmitError(w, reason)
  <2>1. lane'[w] = lane[w]
    BY <1>2 DEF SubmitError, DeferAll
  <2> QED BY <1>0, <1>2, <2>1, SubmitErrorShape DEF HandMoves
<1>3. CASE Forget(w)
  BY <1>3, ForgetShape DEF HandMoves
<1>4. CASE Decide(w, FateOn(batch[w], "Retry"), {}, "next") /\ UNCHANGED <<epoch, lane, snap, todo>>
  <2> DEFINE outcome == FateOn(batch[w], "Retry")
  <2>1. outcome \in [Rows -> Fates] /\ {} \in SUBSET Rows /\ "next" \in Resume
    BY FateOnType DEF Fates, Outcomes, Resume
  <2>2. /\ todo' \in [Writers -> SUBSET Rows] /\ todo'[w] = {}
        /\ \A r \in Rows : outcome[r] # "none" => r \in batch[w] \cup todo[w]
    BY <1>0, <1>4 DEF WriterTypeOK, FateOn
  <2>3. Decide(w, outcome, {}, "next") /\ lane' = lane
    BY <1>4
  <2> HIDE DEF outcome
  <2>4. Shape(w)'
    BY <2>1, <2>2, <2>3, DecideShape
  <2>5. HandMoves(w)
    BY <1>0, <2>1, <2>2, <2>3, DecideHand
  <2> QED BY <2>4, <2>5
<1>5. CASE /\ Submit(w)
           /\ todo' = [todo EXCEPT ![w] = batch[w]]
           /\ pc'   = [pc EXCEPT ![w] = "mark"]
           /\ UNCHANGED <<epoch, lane, batch, snap, fate, after>>
  <2>1. /\ todo'[w] = batch[w] /\ pc'[w] = "mark" /\ batch'[w] = batch[w]
        /\ fate'[w] = NoFate /\ lane'[w] = lane[w]
    BY <1>0, <1>5 DEF WriterTypeOK
  <2>2. Shape(w)' /\ InHand(w)' \subseteq InHand(w)
    BY <2>1 DEF Shape, InHand, Decided, NoFate
  <2> QED BY <1>0, <2>1, <2>2 DEF HandMoves
<1>6. CASE Go(w, "await") \/ Go(w, "rebatch")
  <2>1. /\ pc'[w] \in {"await", "rebatch"} /\ lane'[w] = lane[w] /\ batch'[w] = batch[w]
        /\ todo'[w] = {} /\ fate'[w] = NoFate
    BY <1>0, <1>6 DEF Go, local, WriterTypeOK
  <2>2. Shape(w)' /\ InHand(w)' \subseteq InHand(w)
    BY <2>1 DEF Shape, InHand, Decided, NoFate
  <2> QED BY <1>0, <2>1, <2>2 DEF HandMoves
<1>7. ASSUME NEW f,
             fate' = [fate EXCEPT ![w] = [r \in Rows |-> IF r \in batch[w] THEN f[r] ELSE "none"]],
             pc'   = [pc EXCEPT ![w] = "settle"],
             UNCHANGED <<epoch, lane, batch, snap, todo, after>>
      PROVE  Shape(w)' /\ HandMoves(w)
  <2>1. /\ pc'[w] = "settle" /\ lane'[w] = lane[w] /\ batch'[w] = batch[w] /\ todo'[w] = {}
        /\ fate'[w] = [r \in Rows |-> IF r \in batch[w] THEN f[r] ELSE "none"]
    BY <1>0, <1>7 DEF WriterTypeOK
  <2>2. Decided(w)' \subseteq batch[w]
    BY <2>1 DEF Decided
  <2>3. Shape(w)' /\ InHand(w)' \subseteq InHand(w)
    BY <2>1, <2>2 DEF Shape, InHand
  <2> QED BY <1>0, <2>1, <2>3 DEF HandMoves
<1>8. {"unfunded", "contention", "other"} \subseteq Reasons
  BY DEF Reasons
<1> QED BY <1>1, <1>2, <1>3, <1>4, <1>5, <1>6, <1>7, <1>8
        DEF Submit, Broadcast, Await, Finalized, BatchFails, TimesOut, WatchBreaks, RenewalFails

\* Recording an outcome takes its row out of the hand for good.
LEMMA RecordNextHand ==
  ASSUME TypeOK, NEW w \in Writers, Shape(w), pc[w] = "record", RecordNext(w)
  PROVE  /\ Shape(w)'
         /\ \E r \in Decided(w) :
              /\ RecordOutcome(lane[w], r, snap[w][r], fate[w][r])
              /\ InHand(w)' \subseteq InHand(w) \ {r}
<1> USE DEF TypeOK
<1>1. PICK r \in Decided(w) :
        /\ RecordOutcome(lane[w], r, snap[w][r], fate[w][r])
        /\ fate' = [fate EXCEPT ![w][r] = "none"]
        /\ pc'   = [pc EXCEPT ![w] = IF Decided(w) = {r} THEN after[w] ELSE "record"]
  BY DEF RecordNext, First
<1>2. /\ batch'[w] = batch[w] /\ todo'[w] = todo[w] /\ after'[w] = after[w]
      /\ r \in Rows /\ after[w] \in Resume /\ fate[w] \in [Rows -> Fates]
      /\ fate'[w] = [fate[w] EXCEPT ![r] = "none"]
      /\ pc'[w] = IF Decided(w) = {r} THEN after[w] ELSE "record"
  BY <1>1 DEF RecordNext, WriterTypeOK, Resume, Decided
<1>3. Decided(w)' = Decided(w) \ {r}
  BY <1>2 DEF Decided
<1>4. Decided(w) \cap (batch[w] \cup todo[w]) = {}
  BY DEF Shape
<1>5. InHand(w)' \subseteq InHand(w) \ {r}
  BY <1>1, <1>2, <1>3, <1>4 DEF InHand
<1>6. Shape(w)'
  <2>1. CASE Decided(w) = {r}
    <3>1. pc'[w] = after[w] /\ Decided(w)' = {}
      BY <1>2, <1>3, <2>1
    <3>2. fate'[w] = NoFate
      BY <1>2, <3>1 DEF Decided, NoFate
    <3> QED BY <1>2, <3>1, <3>2 DEF Shape, Resume
  <2>2. CASE Decided(w) # {r}
    <3>1. pc'[w] = "record"
      BY <1>2, <2>2
    <3> QED BY <1>2, <1>3, <1>4, <3>1 DEF Shape
  <2> QED BY <2>1, <2>2
<1> QED BY <1>1, <1>5, <1>6

\* Marking a row keeps it in the batch.
LEMMA MarkNextHand ==
  ASSUME TypeOK, NEW w \in Writers, Shape(w), pc[w] = "mark", MarkNext(w)
  PROVE  /\ Shape(w)' /\ InHand(w)' \subseteq InHand(w)
         /\ \E r \in todo[w] : status' = [status EXCEPT ![lane[w]][r] = "SUBMITTING"]
<1> USE DEF TypeOK
<1>1. PICK r \in todo[w] :
        /\ status'  = [status EXCEPT ![lane[w]][r] = "SUBMITTING"]
        /\ todo'    = [todo EXCEPT ![w] = @ \ {r}]
        /\ pc'      = [pc EXCEPT ![w] = IF todo[w] = {r} THEN "broadcast" ELSE "mark"]
  BY DEF MarkNext, First
<1>2. /\ batch'[w] = batch[w] /\ todo'[w] = todo[w] \ {r} /\ fate'[w] = fate[w]
      /\ pc'[w] = IF todo[w] = {r} THEN "broadcast" ELSE "mark"
      /\ fate[w] = NoFate
  BY <1>1 DEF MarkNext, WriterTypeOK, Shape
<1>3. Shape(w)' /\ InHand(w)' \subseteq InHand(w)
  BY <1>2 DEF Shape, InHand, Decided, NoFate
<1> QED BY <1>1, <1>3

\* Recording and marking never add to the hand.
LEMMA RowHand ==
  ASSUME TypeOK, NEW w \in Writers, Shape(w), Record(w) \/ Mark(w)
  PROVE  Shape(w)' /\ HandMoves(w)
<1> USE DEF TypeOK
<1>0. pc[w] \in {"record", "mark"}
  BY DEF Record, Mark
<1>1. CASE LeaseLost(w)
  BY <1>1, ForgetShape DEF LeaseLost, HandMoves
<1>2. CASE Record(w) /\ RecordNext(w)
  <2>1. lane'[w] = lane[w]
    BY <1>2 DEF RecordNext
  <2> QED BY <1>0, <1>2, <2>1, RecordNextHand DEF Record, HandMoves
<1>3. CASE Record(w) /\ ReconcileErrs(w)
  <2>1. /\ pc[w] = "record" /\ after[w] = "reconOwners" /\ batch'[w] = batch[w]
        /\ fate'[w] = NoFate /\ todo'[w] = {} /\ pc'[w] = "reconOwners"
    BY <1>3 DEF Record, ReconcileErrs, WriterTypeOK
  <2>2. batch[w] = {}
    BY <2>1 DEF Shape
  <2>3. Shape(w)' /\ InHand(w)' = {}
    BY <2>1, <2>2 DEF Shape, InHand, Decided, NoFate
  <2> QED BY <2>3 DEF HandMoves
<1>4. CASE Mark(w) /\ MarkNext(w)
  <2>1. lane'[w] = lane[w]
    BY <1>4 DEF MarkNext
  <2> QED BY <1>0, <1>4, <2>1, MarkNextHand DEF Mark, HandMoves
<1>5. CASE MarkErrs(w)
  <2>1. lane'[w] = lane[w]
    BY <1>5 DEF MarkErrs, SubmitError, DeferAll
  <2>2. "other" \in Reasons
    BY DEF Reasons
  <2> QED BY <1>0, <1>5, <2>1, <2>2, SubmitErrorShape DEF MarkErrs, HandMoves
<1> QED BY <1>1, <1>2, <1>3, <1>4, <1>5 DEF Record, Mark

\* Every step of a writer keeps its rows in one place, and never adds a row to
\* its hand that does not wait for an outcome.
LEMMA HandStep ==
  ASSUME TypeOK, NEW w \in Writers, Shape(w), WriterStep(w) \/ Abandon(w)
  PROVE  Shape(w)' /\ HandMoves(w)
BY LeaseHand, ReconcileHand, ClaimHand, DecisionsHand, SubmitHand, RowHand DEF WriterStep

--------------------------------------------------------------------------------
(* The lease fences the rows.                                              *)

\* A recorded outcome changes one half of one row, and closes the dotNS half
\* only while that half is open.
LEMMA RecordOutcomeStatus ==
  ASSUME DbTypeOK, NEW l \in Lanes, NEW r \in Rows, NEW a, NEW o, RecordOutcome(l, r, a, o),
         NEW k \in Lanes, NEW s \in Rows, status'[k][s] # status[k][s]
  PROVE  /\ s = r
         /\ k = l \/ (l = "people" /\ k = "dotns" /\ status[k][s] \in {"PENDING", "RETRY_AFTER"})
         /\ status'[k][s] # "NULL"
BY DEF DbTypeOK, RecordOutcome, SetStatus, ClosesDotns, Done, Lanes

\* A writer changes a row only while it holds the lease, by recording an outcome
\* or by marking.
LEMMA StatusByWriter ==
  ASSUME NEW w \in Writers, WriterStep(w) \/ Abandon(w), status' # status
  PROVE  /\ LeaseHeld(w)
         /\ \/ pc[w] = "record" /\ RecordNext(w)
            \/ pc[w] = "mark" /\ MarkNext(w)
<1>1. CASE TryAcquire(w) \/ Heartbeat(w) \/ Hold(w) \/ Abandon(w)
  BY <1>1 DEF TryAcquire, Heartbeat, Hold, Abandon, LeaseLost, db
<1>2. CASE Reconcile(w) \/ ReconOwners(w) \/ Claim(w) \/ EndPass(w)
  BY <1>2 DEF Reconcile, ReconOwners, Claim, EndPass, db
<1>3. CASE Triage(w) \/ Owners(w) \/ Settle(w) \/ Rebatch(w)
  BY <1>3 DEF Triage, Owners, Settle, Rebatch, db
<1>4. CASE Submit(w) \/ Broadcast(w) \/ Await(w)
  BY <1>4 DEF Submit, Broadcast, Await, db
<1>5. CASE Mark(w) \/ Record(w)
  BY <1>5 DEF Mark, MarkNext, MarkErrs, Record, RecordNext, ReconcileErrs, LeaseLost, db
<1> QED BY <1>1, <1>2, <1>3, <1>4, <1>5 DEF WriterStep

\* Only try_acquire changes the lease or an epoch, and it is the only way out of
\* acquire_lease.
LEMMA EpochStep ==
  ASSUME NEW w \in Writers, WriterStep(w) \/ Abandon(w), ~TryAcquire(w)
  PROVE  lease' = lease /\ epoch' = epoch /\ pc[w] # "acquire"
<1>1. CASE Heartbeat(w) \/ Hold(w) \/ Abandon(w)
  BY <1>1 DEF Heartbeat, Hold, Abandon, LeaseLost, Forget, Go
<1>2. CASE Reconcile(w) \/ ReconOwners(w) \/ Claim(w) \/ EndPass(w)
  BY <1>2 DEF Reconcile, ReconOwners, ReconcileNext, ReadChunk, SkipChunk, Claim, ClaimSome,
              EndPass, NextPass
<1>3. CASE Triage(w) \/ Owners(w) \/ Settle(w) \/ Rebatch(w)
  BY <1>3 DEF Triage, Owners, Settle, Rebatch, DeferAll
<1>4. CASE Submit(w) \/ Broadcast(w)
  BY <1>4 DEF Submit, Broadcast, SubmitError, DeferAll, Go
<1>5. CASE Await(w)
  BY <1>5 DEF Await, Finalized, BatchFails, TimesOut, WatchBreaks, RenewalFails,
              SubmitError, DeferAll, Go, Forget
<1>6. CASE Mark(w) \/ Record(w)
  BY <1>6 DEF Mark, MarkNext, MarkErrs, Record, RecordNext, ReconcileErrs, LeaseLost,
              SubmitError, DeferAll, Forget
<1> QED BY <1>1, <1>2, <1>3, <1>4, <1>5, <1>6 DEF WriterStep

\* The steps of the intake, of time and of the chains leave every writer alone,
\* and change only claims that have not reached one.
LEMMA OutsideStep ==
  ASSUME TypeOK, Next, \A w \in Writers : ~WriterStep(w) /\ ~Abandon(w)
  PROVE  /\ UNCHANGED writer /\ lease'.epoch = lease.epoch
         /\ \/ UNCHANGED status
            \/ \E r \in Rows :
                 /\ status["people"][r] \in {"NULL", "QUEUED"}
                 /\ \A k \in Lanes, s \in Rows :
                      status'[k][s] # status[k][s] =>
                        /\ s = r /\ status'["people"][s] # "NULL"
                        /\ k = "dotns" => status["people"][s] = "NULL"
<1> USE DEF TypeOK
<1>1. CASE LeaseExpires
  BY <1>1 DEF LeaseExpires, db, DbTypeOK
<1>2. ASSUME NEW l \in Lanes, NEW r \in Rows,
             BackoffElapses(l, r) \/ LeavesPool(l, r) \/ TakenByOther(l, r)
      PROVE  UNCHANGED <<writer, lease, status>>
  BY <1>2 DEF BackoffElapses, LeavesPool, TakenByOther, db
<1>3. ASSUME NEW r \in Rows, Reserve(r) \/ Promote(r)
      PROVE  /\ UNCHANGED <<writer, lease>>
             /\ status["people"][r] \in {"NULL", "QUEUED"}
             /\ \A k \in Lanes, s \in Rows :
                  status'[k][s] # status[k][s] =>
                    /\ s = r /\ status'["people"][s] # "NULL"
                    /\ k = "dotns" => status["people"][s] = "NULL"
  <2>1. CASE Reserve(r)
    <3>1. PICK q \in {"QUEUED", "RESERVED"} :
            status' = [status EXCEPT !["people"][r] = q,
                                     !["dotns"][r] = IF r \in DotnsRows THEN "PENDING" ELSE "NULL"]
      BY <2>1 DEF Reserve
    <3> QED BY <2>1, <3>1 DEF Reserve, DbTypeOK, Lanes
  <2>2. CASE Promote(r)
    BY <2>2 DEF Promote, DbTypeOK, Lanes
  <2> QED BY <1>3, <2>1, <2>2
<1> QED BY <1>1, <1>2, <1>3 DEF Next

\* Initially no writer has an epoch or a row.
LEMMA InitCustody == Init => Custody
<1> SUFFICES ASSUME Init PROVE Custody
  OBVIOUS
<1>1. lease.epoch = 0
  BY DEF Init
<1>2. ASSUME NEW w \in Writers PROVE Shape(w) /\ Fenced(w)
  BY <1>1, <1>2 DEF Init, Shape, Fenced, Decided, NoFate
<1>3. \A r \in Rows : status["people"][r] = "NULL" => status["dotns"][r] = "NULL"
  BY DEF Init, Lanes
<1> QED BY <1>2, <1>3 DEF Custody

\* Taking the lease opens an epoch nobody has, with an empty hand.
LEMMA AcquireCustody ==
  ASSUME TypeOK, Custody, NEW w \in Writers, TryAcquire(w), NEW v \in Writers
  PROVE  Fenced(v)'
<1> USE DEF TypeOK, WriterTypeOK, DbTypeOK
<1>1. /\ lease'.epoch = lease.epoch + 1 /\ epoch' = [epoch EXCEPT ![w] = lease.epoch + 1]
      /\ pc' = [pc EXCEPT ![w] = "reconcile"] /\ pc[w] = "acquire"
      /\ UNCHANGED <<batch, todo, fate>>
  BY DEF TryAcquire, local
<1>2. /\ \A u \in Writers : epoch[u] \in Nat /\ epoch[u] <= lease.epoch /\ Fenced(u)
      /\ lease.epoch \in Nat
  BY DEF Custody, Fenced
<1>3. CASE v = w
  <2>1. InHand(v)' = {}
    <3>1. Shape(w)
      BY DEF Custody
    <3>2. batch[w] = {} /\ todo[w] = {} /\ fate[w] = NoFate
      BY <1>1, <3>1 DEF Shape
    <3> QED BY <1>1, <1>3, <3>2 DEF InHand, Decided, NoFate
  <2>2. epoch'[v] = lease'.epoch /\ epoch'[v] > 0
    BY <1>1, <1>2, <1>3
  <2>3. \A u \in Writers : u # v => epoch'[u] = epoch[u]
    BY <1>1, <1>3
  <2>4. \A u \in Writers : u # v => epoch'[u] # epoch'[v]
    BY <1>1, <1>2, <2>2, <2>3
  <2> QED BY <1>1, <1>2, <2>1, <2>2, <2>4 DEF Fenced
<1>4. CASE v # w
  <2>1. epoch'[v] = epoch[v] /\ pc'[v] = pc[v] /\ epoch'[v] < lease'.epoch
    BY <1>1, <1>2, <1>4
  <2>2. Fenced(v)
    BY <1>2
  <2>3. \A u \in Writers : u # v /\ epoch'[u] = epoch'[v] => epoch'[v] = 0
    BY <1>1, <1>2, <2>1, <2>2 DEF Fenced
  <2> QED BY <1>1, <1>2, <2>1, <2>2, <2>3 DEF Fenced
<1> QED BY <1>3, <1>4

\* Every step of a writer other than try_acquire keeps every writer fenced.
LEMMA WriterCustody ==
  ASSUME TypeOK, TypeOK', Custody, NEW w \in Writers, WriterStep(w) \/ Abandon(w),
         ~TryAcquire(w), NEW v \in Writers
  PROVE  Fenced(v)'
<1> USE DEF TypeOK
<1>1. lease' = lease /\ epoch' = epoch /\ pc[w] # "acquire"
  BY EpochStep
<1>2. Shape(w) /\ Fenced(w) /\ Fenced(v)
  BY DEF Custody
<1>3. v # w => Untouched(v)
  BY OthersUntouched
<1>4. pc'[v] # "acquire" => epoch'[v] > 0
  BY <1>1, <1>2, <1>3 DEF Fenced, Untouched
<1>5. ASSUME pc'[v] # "acquire", epoch[v] = lease.epoch
      PROVE  \A r \in InHand(v)' : status'[lane'[v]][r] \in Waiting(lane'[v])
  <2>1. /\ lane[v] \in Lanes /\ lane[w] \in Lanes
        /\ InHand(v) \subseteq Rows /\ InHand(v)' \subseteq Rows
    BY DEF WriterTypeOK, InHand, Decided
  <2>2. CASE v # w
    <3>1. epoch[v] > 0 /\ epoch[w] # epoch[v]
      BY <1>1, <1>2, <1>3, <1>5, <2>2 DEF Fenced, Untouched, WriterTypeOK
    <3>2. ~LeaseHeld(w)
      BY <1>5, <3>1 DEF LeaseHeld
    <3>3. status' = status
      BY <3>2, StatusByWriter
    <3>4. InHand(v)' = InHand(v) /\ lane'[v] = lane[v] /\ pc[v] # "acquire"
      BY <1>3, <1>5, <2>2 DEF InHand, Decided, Untouched
    <3>5. \A r \in InHand(v) : status[lane[v]][r] \in Waiting(lane[v])
      BY <1>2, <1>5, <3>4 DEF Fenced
    <3> QED BY <3>3, <3>4, <3>5
  <2>3. CASE v = w
    <3>1. HandMoves(w)
      BY <1>2, HandStep
    <3>2. \A r \in InHand(w) : status[lane[w]][r] \in Waiting(lane[w])
      BY <1>1, <1>2, <1>5, <2>3 DEF Fenced
    <3>3. CASE status' = status
      BY <2>1, <2>3, <3>1, <3>2, <3>3, TakeableWaits DEF HandMoves
    <3>4. CASE pc[w] = "record" /\ RecordNext(w)
      <4>1. PICK r \in Decided(w) : /\ RecordOutcome(lane[w], r, snap[w][r], fate[w][r])
                                    /\ InHand(w)' \subseteq InHand(w) \ {r}
        BY <1>2, <3>4, RecordNextHand
      <4>2. r \in Rows /\ lane'[w] = lane[w]
        BY <3>4 DEF Decided, RecordNext
      <4>3. \A s \in Rows : s # r => status'[lane[w]][s] = status[lane[w]][s]
        BY <2>1, <4>1, <4>2, RecordOutcomeStatus
      <4> QED BY <2>1, <2>3, <3>2, <4>1, <4>2, <4>3
    <3>5. CASE pc[w] = "mark" /\ MarkNext(w)
      <4>1. PICK r \in todo[w] : /\ status' = [status EXCEPT ![lane[w]][r] = "SUBMITTING"]
                                 /\ InHand(w)' \subseteq InHand(w)
        BY <1>2, <3>5, MarkNextHand
      <4>2. lane'[w] = lane[w]
        BY <3>5 DEF MarkNext
      <4>3. \A s \in Rows : status'[lane[w]][s] \in {status[lane[w]][s], "SUBMITTING"}
        BY <2>1, <4>1 DEF DbTypeOK
      <4> QED BY <2>1, <2>3, <3>2, <4>1, <4>2, <4>3 DEF Waiting
    <3> QED BY <3>3, <3>4, <3>5, StatusByWriter
  <2> QED BY <2>2, <2>3
<1> QED BY <1>1, <1>2, <1>4, <1>5 DEF Fenced

\* No writer's step changes a claim that was never accepted.
LEMMA WriterNull ==
  ASSUME TypeOK, Custody, NEW w \in Writers, WriterStep(w) \/ Abandon(w), NEW r \in Rows,
         status'["people"][r] = "NULL"
  PROVE  status'["dotns"][r] = "NULL"
<1> USE DEF TypeOK
<1>1. Shape(w) /\ Fenced(w) /\ lane[w] \in Lanes /\ {"people", "dotns"} = Lanes
  BY DEF Custody, WriterTypeOK, Lanes
<1>2. status["people"][r] = "NULL" => status["dotns"][r] = "NULL"
  BY DEF Custody
<1>3. CASE status' = status
  BY <1>2, <1>3
<1>4. CASE LeaseHeld(w) /\ pc[w] = "record" /\ RecordNext(w)
  <2>1. PICK s \in Decided(w) : RecordOutcome(lane[w], s, snap[w][s], fate[w][s])
    BY <1>1, <1>4, RecordNextHand
  <2>2. s \in Rows /\ status[lane[w]][s] \in Waiting(lane[w])
    BY <1>1, <1>4, <2>1 DEF Fenced, LeaseHeld, InHand, Decided
  <2>3. status["people"][r] = "NULL"
    BY <1>1, <2>1, <2>2, RecordOutcomeStatus
  <2>4. r # s
    BY <1>1, <1>2, <2>2, <2>3 DEF Waiting, Fresh, Lanes
  <2>5. status'["dotns"][r] = status["dotns"][r]
    BY <1>1, <2>1, <2>2, <2>4, RecordOutcomeStatus
  <2> QED BY <1>2, <2>3, <2>5
<1>5. CASE LeaseHeld(w) /\ pc[w] = "mark" /\ MarkNext(w)
  <2>1. PICK s \in todo[w] : status' = [status EXCEPT ![lane[w]][s] = "SUBMITTING"]
    BY <1>1, <1>5, MarkNextHand
  <2>2. s \in Rows /\ status[lane[w]][s] \in Waiting(lane[w])
    BY <1>1, <1>5, <2>1 DEF Fenced, LeaseHeld, InHand, WriterTypeOK
  <2>3. status["people"][r] = "NULL"
    BY <1>1, <2>1, <2>2 DEF DbTypeOK, Lanes
  <2>4. r # s
    BY <1>1, <1>2, <2>2, <2>3 DEF Waiting, Fresh, Lanes
  <2>5. status'["dotns"][r] = status["dotns"][r]
    BY <1>1, <2>1, <2>2, <2>4 DEF DbTypeOK, Lanes
  <2> QED BY <1>2, <2>3, <2>5
<1> QED BY <1>3, <1>4, <1>5, StatusByWriter

\* Custody is kept by every step.
LEMMA StepCustody == TypeOK /\ TypeOK' /\ Custody /\ [Next]_vars => Custody'
<1> SUFFICES ASSUME TypeOK, TypeOK', Custody, [Next]_vars PROVE Custody'
  OBVIOUS
<1>1. CASE UNCHANGED vars
  BY <1>1 DEF vars, db, writer, local, Custody, Shape, Fenced, Decided, InHand
<1>2. ASSUME NEW w \in Writers, WriterStep(w) \/ Abandon(w)
      PROVE  Custody'
  <2>1. ASSUME NEW v \in Writers PROVE Shape(v)' /\ Fenced(v)'
    <3>1. Shape(v) /\ Shape(w)
      BY DEF Custody
    <3>2. Shape(v)'
      BY <1>2, <3>1, HandStep, OthersUntouched, ShapeFrame
    <3>3. Fenced(v)'
      BY <1>2, AcquireCustody, WriterCustody
    <3> QED BY <3>2, <3>3
  <2> QED BY <1>2, <2>1, WriterNull DEF Custody
<1>3. CASE Next /\ \A w \in Writers : ~WriterStep(w) /\ ~Abandon(w)
  <2> USE DEF TypeOK
  <2>1. UNCHANGED writer /\ lease'.epoch = lease.epoch
    BY <1>3, OutsideStep
  <2>2. \A v \in Writers : Shape(v)' /\ InHand(v)' = InHand(v)
    BY <2>1 DEF Custody, writer, local, Shape, Decided, InHand
  <2>3. CASE UNCHANGED status
    BY <2>1, <2>2, <2>3 DEF Custody, Fenced, writer
  <2>4. CASE \E r \in Rows :
               /\ status["people"][r] \in {"NULL", "QUEUED"}
               /\ \A k \in Lanes, s \in Rows :
                    status'[k][s] # status[k][s] =>
                      /\ s = r /\ status'["people"][s] # "NULL"
                      /\ k = "dotns" => status["people"][s] = "NULL"
    <3>1. PICK r \in Rows :
               /\ status["people"][r] \in {"NULL", "QUEUED"}
               /\ \A k \in Lanes, s \in Rows :
                    status'[k][s] # status[k][s] =>
                      /\ s = r /\ status'["people"][s] # "NULL"
                      /\ k = "dotns" => status["people"][s] = "NULL"
      BY <2>4
    <3>2. \A s \in Rows : status'["people"][s] = "NULL" => status'["dotns"][s] = "NULL"
      BY <3>1 DEF Custody, Lanes
    <3>3. ASSUME NEW v \in Writers, pc[v] # "acquire", epoch[v] = lease.epoch,
                 NEW s \in InHand(v)
          PROVE  status'[lane[v]][s] \in Waiting(lane[v])
      <4>1. s \in Rows /\ lane[v] \in Lanes /\ status[lane[v]][s] \in Waiting(lane[v])
        BY <3>3 DEF Custody, Fenced, InHand, Decided, WriterTypeOK
      <4>2. status'[lane[v]][s] = status[lane[v]][s]
        BY <3>1, <4>1 DEF Custody, Waiting, Fresh, Lanes
      <4> QED BY <4>1, <4>2
    <3>4. \A v \in Writers : Fenced(v)'
      BY <2>1, <2>2, <3>3 DEF Custody, Fenced, writer
    <3> QED BY <2>2, <3>2, <3>4 DEF Custody
  <2> QED BY <1>3, <2>3, <2>4, OutsideStep
<1> QED BY <1>1, <1>2, <1>3

\* Fencing: rows in the hand of the writer of the newest epoch still wait for
\* their outcome, and no other writer can write.
THEOREM CustodyHolds == Spec => []Custody
<1>1. TypeOK /\ Custody /\ [Next]_vars => Custody'
  BY StepType, StepCustody
<1> QED BY <1>1, TypeCorrect, InitCustody, PTL DEF Spec

\* A step changes no terminal status.
LEMMA TerminalStep ==
  ASSUME TypeOK, Custody, Next, NEW l \in Lanes, NEW r \in Rows, status[l][r] \in Terminal(l)
  PROVE  status'[l][r] = status[l][r]
<1> USE DEF TypeOK
<1>1. SUFFICES ASSUME status'[l][r] # status[l][r] PROVE FALSE
  OBVIOUS
<1>2. ASSUME NEW w \in Writers, WriterStep(w) \/ Abandon(w)
      PROVE  FALSE
  <2>1. Shape(w) /\ Fenced(w) /\ lane[w] \in Lanes
    BY DEF Custody, WriterTypeOK
  <2>2. /\ LeaseHeld(w)
        /\ \/ pc[w] = "record" /\ RecordNext(w)
           \/ pc[w] = "mark" /\ MarkNext(w)
    BY <1>1, <1>2, StatusByWriter
  <2>3. CASE pc[w] = "record" /\ RecordNext(w)
    <3>1. PICK s \in Decided(w) : RecordOutcome(lane[w], s, snap[w][s], fate[w][s])
      BY <2>1, <2>3, RecordNextHand
    <3>2. s \in Rows /\ status[lane[w]][s] \in Waiting(lane[w])
      BY <2>1, <2>2, <2>3, <3>1 DEF Fenced, LeaseHeld, InHand, Decided
    <3>3. /\ r = s
          /\ \/ l = lane[w]
             \/ l = "dotns" /\ status[l][r] \in {"PENDING", "RETRY_AFTER"}
      BY <1>1, <2>1, <3>1, <3>2, RecordOutcomeStatus
    <3> QED BY <3>2, <3>3 DEF Waiting, Fresh, Terminal, Lanes
  <2>4. CASE pc[w] = "mark" /\ MarkNext(w)
    <3>1. PICK s \in todo[w] : status' = [status EXCEPT ![lane[w]][s] = "SUBMITTING"]
      BY <2>1, <2>4, MarkNextHand
    <3>2. s \in Rows /\ status[lane[w]][s] \in Waiting(lane[w])
      BY <2>1, <2>2, <2>4, <3>1 DEF Fenced, LeaseHeld, InHand, WriterTypeOK
    <3>3. r = s /\ l = lane[w]
      BY <1>1, <2>1, <3>1, <3>2 DEF DbTypeOK
    <3> QED BY <3>2, <3>3 DEF Waiting, Fresh, Terminal, Lanes
  <2> QED BY <2>2, <2>3, <2>4
<1>3. CASE \A w \in Writers : ~WriterStep(w) /\ ~Abandon(w)
  <2>1. status["people"][r] \in {"NULL", "QUEUED"} /\ (l = "dotns" => status["people"][r] = "NULL")
    BY <1>1, <1>3, OutsideStep
  <2> QED BY <2>1 DEF Custody, Terminal, Lanes
<1> QED BY <1>2, <1>3

\* No step of any writer, of the intake or of the chains ever overwrites a
\* terminal status: the lease epoch alone makes the unconditional UPDATEs of the
\* outbox safe, for any number of writers, rows and faults.
THEOREM TerminalFinal == Spec => TerminalIsFinal
<1>1. TypeOK /\ Custody /\ [Next]_vars =>
        [\A l \in Lanes, r \in Rows :
           status[l][r] \in Terminal(l) => status'[l][r] = status[l][r]]_vars
  BY TerminalStep
<1> QED BY <1>1, TypeCorrect, CustodyHolds, PTL DEF Spec, TerminalIsFinal

--------------------------------------------------------------------------------
(* The engine never guesses.                                               *)

\* No two claims are for one candidate.  (The intake does not ensure this, and
\* without it the engine does guess: AlreadyRegistered is an answer about the
\* candidate, not about the name.)
OneRowPerCandidate == \A r, s \in Rows : Candidate[r] = Candidate[s] => r = s

\* What a fate asserts: that the row's candidate owns its name.
Claims == {"ok", "alreadyRegistered", "Landed", "Observed"}

\* A candidate that owns its name keeps it.
LEMMA OwnerGrows ==
  ASSUME ChainTypeOK, WriterTypeOK, [Next]_vars,
         NEW l \in Lanes, NEW r \in Rows, owner[l][r] = "candidate"
  PROVE  owner'[l][r] = "candidate"
<1>1. ASSUME NEW w \in Writers, WriterStep(w) \/ Abandon(w)
      PROVE  owner'[l][r] = "candidate"
  <2>1. CASE owner' = owner
    BY <2>1
  <2>2. CASE Await(w) /\ Finalized(w)
    <3>1. PICK res : owner' = [owner EXCEPT ![lane[w]] = [s \in Rows |->
                       IF s \in batch[w] /\ res[s] = "ok" THEN "candidate" ELSE @[s]]]
      BY <2>2 DEF Finalized
    <3> QED BY <3>1 DEF ChainTypeOK, WriterTypeOK
  <2>3. CASE TryAcquire(w) \/ Heartbeat(w) \/ Hold(w) \/ Abandon(w) \/ Reconcile(w)
             \/ ReconOwners(w) \/ Claim(w) \/ EndPass(w)
    BY <2>1, <2>3 DEF TryAcquire, Heartbeat, Hold, Abandon, LeaseLost, Reconcile, ReconOwners,
                      Claim, EndPass, chain
  <2>4. CASE Triage(w) \/ Owners(w) \/ Settle(w) \/ Rebatch(w) \/ Submit(w) \/ Broadcast(w)
    BY <2>1, <2>4 DEF Triage, Owners, Settle, Rebatch, Submit, Broadcast, chain
  <2>5. CASE Mark(w) \/ Record(w)
    BY <2>1, <2>5 DEF Mark, MarkNext, MarkErrs, Record, RecordNext, ReconcileErrs, LeaseLost, chain
  <2>6. CASE Await(w) /\ ~Finalized(w)
    BY <2>1, <2>6 DEF Await, BatchFails, TimesOut, WatchBreaks, RenewalFails
  <2> QED BY <1>1, <2>2, <2>3, <2>4, <2>5, <2>6 DEF WriterStep
<1>2. ASSUME NEW s \in Rows, Reserve(s) \/ Promote(s)
      PROVE  owner'[l][r] = "candidate"
  BY <1>2 DEF Reserve, Promote, chain
<1>3. ASSUME NEW k \in Lanes, NEW s \in Rows,
             BackoffElapses(k, s) \/ LeavesPool(k, s) \/ TakenByOther(k, s)
      PROVE  owner'[l][r] = "candidate"
  <2>1. CASE BackoffElapses(k, s)
    BY <2>1 DEF BackoffElapses, chain
  <2>2. CASE LeavesPool(k, s)
    <3>1. owner' = owner \/ owner' = [owner EXCEPT ![k][s] = "candidate"]
      BY <2>2 DEF LeavesPool
    <3>2. owner \in [Lanes -> [Rows -> {"none", "candidate", "other"}]]
      BY DEF ChainTypeOK
    <3>3. CASE owner' = [owner EXCEPT ![k][s] = "candidate"]
      BY <3>2, <3>3
    <3> QED BY <3>1, <3>3
  <2>3. CASE TakenByOther(k, s)
    <3>1. owner[k][s] = "none" /\ owner' = [owner EXCEPT ![k][s] = "other"]
      BY <2>3 DEF TakenByOther
    <3>2. k # l \/ s # r
      BY <3>1
    <3> QED BY <3>1, <3>2 DEF ChainTypeOK
  <2> QED BY <1>3, <2>1, <2>2, <2>3
<1>4. CASE LeaseExpires \/ UNCHANGED vars
  BY <1>4 DEF LeaseExpires, vars, chain
<1> QED BY <1>1, <1>2, <1>3, <1>4 DEF Next

\* A writer whose fates only disappear stays honest.
LEMMA HonestFrame ==
  ASSUME TypeOK, [Next]_vars, NEW v \in Writers, Honest(v), lane'[v] = lane[v],
         \A r \in Rows : fate'[v][r] \in {"none", fate[v][r]}
  PROVE  Honest(v)'
<1>1. lane[v] \in Lanes
  BY DEF TypeOK, WriterTypeOK
<1>2. \A r \in Rows : owner[lane[v]][r] = "candidate" => owner'[lane[v]][r] = "candidate"
  BY <1>1, OwnerGrows DEF TypeOK
<1> QED BY <1>2 DEF Honest

\* A decision is honest when each claim in it is.
LEMMA HonestDecision ==
  ASSUME TypeOK, [Next]_vars, NEW w \in Writers, NEW outcome \in [Rows -> Fates], NEW rest, NEW then,
         Decide(w, outcome, rest, then), lane' = lane,
         \A r \in Rows : outcome[r] \in Claims => owner[lane[w]][r] = "candidate"
  PROVE  Honest(w)'
<1>1. lane[w] \in Lanes /\ fate'[w] = outcome
  BY DEF TypeOK, WriterTypeOK, Decide
<1>2. \A r \in Rows : owner[lane[w]][r] = "candidate" => owner'[lane[w]][r] = "candidate"
  BY <1>1, OwnerGrows DEF TypeOK
<1> QED BY <1>1, <1>2 DEF Honest, Claims

\* Deferring, failing and forgetting claim nothing.
LEMMA HonestRetreat ==
  ASSUME WriterTypeOK, NEW w \in Writers,
         Forget(w) \/ DeferAll(w) \/ \E reason \in {"unfunded", "contention", "other"} : SubmitError(w, reason)
  PROVE  Honest(w)'
<1>1. \A r \in Rows : fate'[w][r] \in {"none", "Defer", "unfunded", "contention", "other"}
  BY DEF Forget, DeferAll, SubmitError, Decide, FateOn, NoFate, WriterTypeOK
<1> QED BY <1>1 DEF Honest

\* What the chain answers for a row of its own candidate is the truth.
LEMMA HonestResults ==
  ASSUME OneRowPerCandidate, Rows \subseteq Nat, NEW l \in Lanes, NEW calls \in SUBSET Rows, NEW res,
         NEW r \in calls, res[r] \in Results(l, calls, res, r), res[r] = "alreadyRegistered"
  PROVE  owner[l][r] = "candidate"
<1>1. /\ l = "people"
      /\ \/ Registered(r)
         \/ \E s \in calls : s < r /\ Candidate[s] = Candidate[r]
  BY DEF Results
<1>2. \A s \in calls : ~(s < r /\ Candidate[s] = Candidate[r])
  BY DEF OneRowPerCandidate
<1>3. PICK s \in Rows : Candidate[s] = Candidate[r] /\ owner["people"][s] = "candidate"
  BY <1>1, <1>2 DEF Registered
<1>4. s = r
  BY <1>3 DEF OneRowPerCandidate
<1> QED BY <1>1, <1>3, <1>4

\* A step of a writer keeps it honest.
LEMMA HonestStep ==
  ASSUME OneRowPerCandidate, TypeOK, Next, NEW w \in Writers, Shape(w), Honest(w),
         WriterStep(w) \/ Abandon(w)
  PROVE  Honest(w)'
<1> USE DEF TypeOK
<1>0. [Next]_vars /\ lane[w] \in Lanes /\ batch[w] \in SUBSET Rows
  BY DEF WriterTypeOK
<1>1. CASE fate'[w] = NoFate
  BY <1>1 DEF Honest, NoFate
<1>2. CASE Forget(w) \/ DeferAll(w) \/ \E reason \in {"unfunded", "contention", "other"} : SubmitError(w, reason)
  BY <1>2, HonestRetreat
<1>3. CASE TryAcquire(w) \/ Heartbeat(w) \/ Hold(w) \/ Abandon(w) \/ Reconcile(w) \/ Claim(w) \/ EndPass(w)
  <2>1. CASE ~Forget(w)
    <3>1. fate[w] = NoFate /\ fate'[w] = fate[w]
      BY <1>3, <2>1 DEF TryAcquire, Heartbeat, Hold, Abandon, LeaseLost, Reconcile, ReconcileNext,
                        Claim, ClaimSome, EndPass, NextPass, Shape, Go, local
    <3> QED BY <1>1, <3>1
  <2> QED BY <1>2, <2>1
<1>4. CASE ReconOwners(w)
  <2>1. CASE ~ReadChunk(w)
    <3>1. fate[w] = NoFate /\ fate'[w] = fate[w]
      BY <1>4, <2>1 DEF ReconOwners, ReconcileNext, SkipChunk, Shape
    <3> QED BY <1>1, <3>1
  <2>2. CASE ReadChunk(w)
    <3> DEFINE chunk == Earliest(todo[w], ReconcileChunk)
    <3> DEFINE outcome == [r \in Rows |-> IF r \notin chunk THEN "none"
                              ELSE IF owner[lane[w]][r] = "candidate" THEN "Observed" ELSE "Retry"]
    <3>1. Decide(w, outcome, {}, "reconOwners") /\ lane' = lane
      BY <2>2 DEF ReadChunk
    <3>2. /\ outcome \in [Rows -> Fates]
          /\ \A r \in Rows : outcome[r] \in Claims => owner[lane[w]][r] = "candidate"
      BY DEF Fates, Outcomes, Claims
    <3> HIDE DEF outcome
    <3> QED BY <1>0, <3>1, <3>2, HonestDecision
  <2> QED BY <2>1, <2>2
<1>5. CASE (Triage(w) \/ Owners(w) \/ Rebatch(w)) /\ ~DeferAll(w)
  <2>1. ASSUME NEW outcome \in [Rows -> Fates], NEW rest, NEW then, Decide(w, outcome, rest, then),
               \A r \in Rows : outcome[r] \in Claims => owner[lane[w]][r] = "candidate"
        PROVE  Honest(w)'
    <3>1. lane' = lane
      BY <1>5 DEF Triage, Owners, Rebatch
    <3> QED BY <1>0, <2>1, <3>1, HonestDecision
  <2>2. CASE Triage(w)
    <3>1. PICK refused \in SUBSET batch[w] :
          \E answer \in [refused -> GateOutcomes(lane[w])] :
            Decide(w, [r \in Rows |-> IF r \in refused THEN answer[r] ELSE "none"],
                   batch[w] \ refused,
                   IF refused = batch[w] THEN "next" ELSE "owners")
      BY <1>5, <2>2 DEF Triage
    <3>2. PICK answer \in [refused -> GateOutcomes(lane[w])] :
            Decide(w, [r \in Rows |-> IF r \in refused THEN answer[r] ELSE "none"],
                   batch[w] \ refused,
                   IF refused = batch[w] THEN "next" ELSE "owners")
      BY <3>1
    <3> DEFINE outcome == [r \in Rows |-> IF r \in refused THEN answer[r] ELSE "none"]
    <3>3. outcome \in [Rows -> Fates] /\ \A r \in Rows : outcome[r] \notin Claims
      BY DEF GateOutcomes, Fates, Outcomes, Claims
    <3>4. \E rest, then : Decide(w, outcome, rest, then)
      BY <3>2
    <3> HIDE DEF outcome
    <3> QED BY <2>1, <3>3, <3>4
  <2>3. CASE Owners(w)
    <3> DEFINE outcome == [r \in Rows |-> IF r \notin batch[w] THEN "none"
                             ELSE IF owner[lane[w]][r] = "candidate" THEN "Observed"
                             ELSE IF owner[lane[w]][r] = "other" THEN "Failed"
                             ELSE "none"]
    <3>1. \E rest, then : Decide(w, outcome, rest, then)
      BY <1>5, <2>3 DEF Owners
    <3>2. /\ outcome \in [Rows -> Fates]
          /\ \A r \in Rows : outcome[r] \in Claims => owner[lane[w]][r] = "candidate"
      BY DEF Fates, Outcomes, Claims
    <3> HIDE DEF outcome
    <3> QED BY <2>1, <3>1, <3>2
  <2>4. CASE Rebatch(w)
    <3> DEFINE outcome == [r \in Rows |-> IF r \notin batch[w] THEN "none"
                             ELSE IF owner[lane[w]][r] = "candidate" THEN "Landed" ELSE "Defer"]
    <3>1. \E rest, then : Decide(w, outcome, rest, then)
      BY <1>5, <2>4 DEF Rebatch
    <3>2. /\ outcome \in [Rows -> Fates]
          /\ \A r \in Rows : outcome[r] \in Claims => owner[lane[w]][r] = "candidate"
      BY DEF Fates, Outcomes, Claims
    <3> HIDE DEF outcome
    <3> QED BY <2>1, <3>1, <3>2
  <2> QED BY <1>5, <2>2, <2>3, <2>4
<1>6. CASE Settle(w)
  <2>1. PICK read \in BOOLEAN :
          Decide(w, [r \in Rows |-> IF r \notin batch[w] THEN "none"
                       ELSE IF fate[w][r] = "ok" THEN "Landed"
                       ELSE Classify(fate[w][r], read /\ owner[lane[w]][r] = "candidate",
                                     snap[w][r] + 1)], {}, "next")
    BY <1>6 DEF Settle
  <2> DEFINE outcome == [r \in Rows |-> IF r \notin batch[w] THEN "none"
                           ELSE IF fate[w][r] = "ok" THEN "Landed"
                           ELSE Classify(fate[w][r], read /\ owner[lane[w]][r] = "candidate",
                                         snap[w][r] + 1)]
  <2>2. \A f, o, n : /\ Classify(f, o, n) \in Fates
                     /\ Classify(f, o, n) \in Claims => o \/ f = "alreadyRegistered"
    BY DEF Classify, Fates, Outcomes, Claims
  <2>3. outcome \in [Rows -> Fates]
    <3>1. "none" \in Fates /\ "Landed" \in Fates
      BY DEF Fates, Outcomes
    <3> QED BY <2>2, <3>1, Zenon
  <2>4. ASSUME NEW r \in Rows, outcome[r] \in Claims
        PROVE  owner[lane[w]][r] = "candidate"
    <3>1. "none" \notin Claims
      BY DEF Claims
    <3>2. \/ fate[w][r] = "ok"
          \/ Classify(fate[w][r], read /\ owner[lane[w]][r] = "candidate", snap[w][r] + 1) \in Claims
      BY <2>4, <3>1, Zenon
    <3>3. \/ fate[w][r] = "ok" \/ fate[w][r] = "alreadyRegistered"
          \/ owner[lane[w]][r] = "candidate"
      BY <2>2, <3>2, Zenon
    <3> QED BY <3>3 DEF Honest
  <2>5. Decide(w, outcome, {}, "next") /\ lane' = lane
    BY <1>6, <2>1 DEF Settle
  <2> HIDE DEF outcome
  <2> QED BY <1>0, <2>3, <2>4, <2>5, HonestDecision
<1>7. CASE Submit(w) /\ Decide(w, FateOn(batch[w], "Retry"), {}, "next")
  <2>1. \A r \in Rows : fate'[w][r] \in {"none", "Retry"}
    BY <1>7 DEF Decide, FateOn, WriterTypeOK
  <2> QED BY <2>1 DEF Honest
<1>8. CASE fate' = fate /\ lane' = lane
  BY <1>0, <1>8, HonestFrame
<1>9. CASE RecordNext(w) \/ ReconcileErrs(w)
  <2>1. lane' = lane /\ \A r \in Rows : fate'[w][r] \in {"none", fate[w][r]}
    BY <1>9 DEF RecordNext, ReconcileErrs, WriterTypeOK, NoFate
  <2> QED BY <1>0, <2>1, HonestFrame
<1>10. CASE Await(w) /\ Finalized(w) /\ fate'[w] # fate[w] /\ ~SubmitError(w, "other")
  <2>1. PICK res \in [batch[w] -> {"ok", "alreadyRegistered", "deterministic", "other"}] :
          /\ \A r \in batch[w] : res[r] \in Results(lane[w], batch[w], res, r)
          /\ owner' = [owner EXCEPT ![lane[w]] = [r \in Rows |->
                         IF r \in batch[w] /\ res[r] = "ok" THEN "candidate" ELSE @[r]]]
          /\ fate' = [fate EXCEPT ![w] = [r \in Rows |-> IF r \in batch[w] THEN res[r] ELSE "none"]]
          /\ lane' = lane
    BY <1>10 DEF Finalized, Go, local
  <2>2. fate'[w] = [r \in Rows |-> IF r \in batch[w] THEN res[r] ELSE "none"]
    BY <2>1 DEF WriterTypeOK
  <2>3. ASSUME NEW r \in Rows, fate'[w][r] \in Claims
        PROVE  owner'[lane[w]][r] = "candidate"
    <3>1. r \in batch[w] /\ (res[r] = "ok" \/ res[r] = "alreadyRegistered")
      BY <2>2, <2>3 DEF Claims
    <3>2. CASE res[r] = "ok"
      BY <1>0, <2>1, <3>1, <3>2 DEF ChainTypeOK
    <3>3. CASE res[r] = "alreadyRegistered"
      <4>1. Rows \subseteq Nat
        BY RowsAssumption
      <4>2. owner[lane[w]][r] = "candidate"
        BY <1>0, <2>1, <3>1, <3>3, <4>1, HonestResults
      <4> QED BY <1>0, <4>2, OwnerGrows
    <3> QED BY <3>1, <3>2, <3>3
  <2> QED BY <2>1, <2>3 DEF Honest, Claims
<1>11. CASE Submit(w) \/ Broadcast(w)
  BY <1>2, <1>7, <1>8, <1>11 DEF Submit, Broadcast, Go, local
<1>12. CASE Mark(w) \/ Record(w)
  BY <1>2, <1>8, <1>9, <1>12 DEF Mark, MarkNext, MarkErrs, Record, LeaseLost
<1>13. CASE Await(w)
  <2>1. CASE ~Finalized(w)
    BY <1>2, <1>13, <2>1 DEF Await, BatchFails, TimesOut, WatchBreaks, RenewalFails
  <2>2. CASE Finalized(w) /\ fate'[w] = fate[w]
    <3>1. fate[w] = NoFate
      BY <1>13 DEF Await, Shape
    <3> QED BY <1>1, <2>2, <3>1
  <2> QED BY <1>2, <1>10, <1>13, <2>1, <2>2
<1> QED BY <1>2, <1>3, <1>4, <1>5, <1>6, <1>11, <1>12, <1>13 DEF WriterStep, Triage, Owners, Rebatch

\* Nobody has an outcome in hand initially, and no name is recorded as landed.
LEMMA InitHonesty == Init => Honesty /\ AssignedIsOwned
<1> SUFFICES ASSUME Init PROVE Honesty /\ AssignedIsOwned
  OBVIOUS
<1>1. ASSUME NEW w \in Writers PROVE Shape(w) /\ Honest(w)
  BY <1>1 DEF Init, Shape, Honest, Decided, NoFate
<1>2. AssignedIsOwned
  BY DEF Init, AssignedIsOwned, Done, Lanes
<1> QED BY <1>1, <1>2 DEF Honesty

\* Every step keeps every writer honest.
LEMMA StepHonesty == OneRowPerCandidate /\ TypeOK /\ Honesty /\ [Next]_vars => Honesty'
<1> SUFFICES ASSUME OneRowPerCandidate, TypeOK, Honesty, [Next]_vars,
                    NEW v \in Writers
             PROVE  Shape(v)' /\ Honest(v)'
  BY DEF Honesty
<1>0. Shape(v) /\ Honest(v)
  BY DEF Honesty
<1>1. CASE UNCHANGED writer
  <2>1. Untouched(v)
    BY <1>1 DEF writer, local, Untouched
  <2> QED BY <1>0, <2>1, ShapeFrame, HonestFrame DEF Untouched
<1>2. CASE UNCHANGED vars
  BY <1>1, <1>2 DEF vars
<1>3. ASSUME NEW w \in Writers, WriterStep(w) \/ Abandon(w), Next
      PROVE  Shape(v)' /\ Honest(v)'
  <2>1. CASE v = w
    BY <1>0, <1>3, <2>1, HandStep, HonestStep
  <2>2. CASE v # w
    <3>1. Untouched(v)
      BY <1>3, <2>2, OthersUntouched
    <3> QED BY <1>0, <3>1, ShapeFrame, HonestFrame DEF Untouched
  <2> QED BY <2>1, <2>2
<1>4. CASE Next /\ \A w \in Writers : ~WriterStep(w) /\ ~Abandon(w)
  BY <1>1, <1>4, OutsideStep
<1> QED BY <1>2, <1>3, <1>4

\* Only an outcome that says so makes a row landed.
LEMMA RecordedDone ==
  ASSUME DbTypeOK, NEW l \in Lanes, NEW r \in Rows, NEW a, NEW o, RecordOutcome(l, r, a, o),
         NEW k \in Lanes, NEW s \in Rows, status'[k][s] = Done(k), status[k][s] # Done(k)
  PROVE  k = l /\ s = r /\ o \in {"Landed", "Observed"}
BY DEF DbTypeOK, RecordOutcome, SetStatus, ClosesDotns, Done, Lanes

\* A step that makes a row landed is taken by a writer that says so.
LEMMA StepAssigned ==
  ASSUME TypeOK, Honesty, Next, NEW l \in Lanes, NEW r \in Rows,
         status'[l][r] = Done(l), status[l][r] # Done(l)
  PROVE  owner[l][r] = "candidate"
<1> USE DEF TypeOK
<1>1. ASSUME NEW w \in Writers, WriterStep(w) \/ Abandon(w)
      PROVE  owner[l][r] = "candidate"
  <2>1. Shape(w) /\ Honest(w) /\ lane[w] \in Lanes
    BY DEF Honesty, WriterTypeOK
  <2>2. CASE pc[w] = "record" /\ RecordNext(w)
    <3>1. PICK s \in Decided(w) : RecordOutcome(lane[w], s, snap[w][s], fate[w][s])
      BY <2>1, <2>2, RecordNextHand
    <3>2. l = lane[w] /\ r = s /\ fate[w][s] \in {"Landed", "Observed"}
      BY <2>1, <3>1, RecordedDone DEF Decided
    <3> QED BY <2>1, <3>2 DEF Honest
  <2>3. CASE pc[w] = "mark" /\ MarkNext(w)
    <3>1. PICK s \in todo[w] : status' = [status EXCEPT ![lane[w]][s] = "SUBMITTING"]
      BY <2>1, <2>3, MarkNextHand
    <3> QED BY <2>1, <3>1 DEF DbTypeOK, Done, Lanes
  <2> QED BY <1>1, <2>2, <2>3, StatusByWriter
<1>2. CASE LeaseExpires
  BY <1>2 DEF LeaseExpires, db
<1>3. ASSUME NEW k \in Lanes, NEW s \in Rows,
             BackoffElapses(k, s) \/ LeavesPool(k, s) \/ TakenByOther(k, s)
      PROVE  FALSE
  BY <1>3 DEF BackoffElapses, LeavesPool, TakenByOther, db
<1>4. ASSUME NEW s \in Rows, Reserve(s) \/ Promote(s)
      PROVE  FALSE
  <2>1. CASE Reserve(s)
    <3>1. PICK q \in {"QUEUED", "RESERVED"} :
            status' = [status EXCEPT !["people"][s] = q,
                                     !["dotns"][s] = IF s \in DotnsRows THEN "PENDING" ELSE "NULL"]
      BY <2>1 DEF Reserve
    <3> QED BY <3>1 DEF DbTypeOK, Lanes, Done
  <2>2. CASE Promote(s)
    BY <2>2 DEF Promote, DbTypeOK, Lanes, Done
  <2> QED BY <1>4, <2>1, <2>2
<1> QED BY <1>1, <1>2, <1>3, <1>4 DEF Next

\* Every row recorded as landed is owned by its candidate on that chain,
\* whatever the writers, the nodes and the pools did, provided no two claims are
\* for one candidate.
THEOREM AssignedOwned ==
  ASSUME OneRowPerCandidate
  PROVE  Spec => []AssignedIsOwned
<1>1. TypeOK /\ Honesty /\ [Next]_vars => Honesty'
  BY StepHonesty
<1>2. TypeOK /\ Honesty /\ AssignedIsOwned /\ [Next]_vars => AssignedIsOwned'
  <2> SUFFICES ASSUME TypeOK, Honesty, AssignedIsOwned, [Next]_vars,
                      NEW l \in Lanes, NEW r \in Rows, status'[l][r] = Done(l)
               PROVE  owner'[l][r] = "candidate"
    BY DEF AssignedIsOwned, Done
  <2>1. CASE UNCHANGED vars
    BY <2>1 DEF vars, db, chain, AssignedIsOwned
  <2>2. CASE Next
    <3>1. owner[l][r] = "candidate"
      BY <2>2, StepAssigned DEF AssignedIsOwned
    <3> QED BY <3>1, OwnerGrows DEF TypeOK
  <2> QED BY <2>1, <2>2
<1> QED BY <1>1, <1>2, TypeCorrect, InitHonesty, PTL DEF Spec
================================================================================

---------------------------- MODULE WriteAheadProofs ---------------------------
(* What a SUBMITTING row stands for, for any writers, rows and batches: its *)
(* extrinsic is written down before it is broadcast, somebody always has    *)
(* the row in hand, and every attempt it is charged is accounted for.       *)
EXTENDS ChainWriterProofs

--------------------------------------------------------------------------------
(* The write-ahead marks.                                                  *)

\* A step of another writer leaves the writer of the newest epoch, the rows and
\* the lease alone: it fails the fence, or takes the lease at a newer epoch.
LEMMA OthersFenced ==
  ASSUME TypeOK, Custody, NEW v \in Writers, WriterStep(v) \/ Abandon(v),
         NEW w \in Writers, w # v, pc'[w] # "acquire", epoch'[w] = lease'.epoch
  PROVE  /\ Untouched(w) /\ pc[w] # "acquire" /\ epoch[w] = lease.epoch
         /\ ~LeaseHeld(v) /\ UNCHANGED <<status, lease>>
<1> USE DEF TypeOK
<1>1. Untouched(w) /\ pc[w] # "acquire"
  BY OthersUntouched DEF Untouched
<1>2. Fenced(w) /\ epoch[w] \in Nat /\ lease.epoch \in Nat
  BY DEF Custody, WriterTypeOK, DbTypeOK
<1>3. ~TryAcquire(v)
  <2>1. TryAcquire(v) => lease'.epoch = lease.epoch + 1
    BY DEF TryAcquire
  <2> QED BY <1>1, <1>2, <2>1 DEF Fenced, Untouched
<1>4. lease' = lease /\ epoch' = epoch
  BY <1>3, EpochStep
<1>5. ~LeaseHeld(v)
  BY <1>1, <1>2, <1>4 DEF Fenced, LeaseHeld
<1> QED BY <1>1, <1>4, <1>5, StatusByWriter

\* No step outside the writers makes a row SUBMITTING, or moves one that is.
LEMMA OutsideMarks ==
  ASSUME TypeOK, Custody, Next, \A w \in Writers : ~WriterStep(w) /\ ~Abandon(w),
         NEW l \in Lanes, NEW r \in Rows
  PROVE  /\ UNCHANGED writer /\ lease'.epoch = lease.epoch
         /\ status'[l][r] = "SUBMITTING" <=> status[l][r] = "SUBMITTING"
<1> USE DEF TypeOK
<1>1. UNCHANGED writer /\ lease'.epoch = lease.epoch
  BY OutsideStep
<1>2. ASSUME NEW s \in Rows, Reserve(s) \/ Promote(s)
      PROVE  status'[l][r] = "SUBMITTING" <=> status[l][r] = "SUBMITTING"
  <2>1. status["people"][s] = "NULL" => status["dotns"][s] = "NULL"
    BY DEF Custody
  <2>2. CASE Promote(s)
    BY <2>2 DEF Promote, DbTypeOK, Lanes
  <2>3. CASE Reserve(s)
    <3>1. PICK q \in {"QUEUED", "RESERVED"}, t \in {"PENDING", "NULL"} :
            status' = [status EXCEPT !["people"][s] = q, !["dotns"][s] = t]
      BY <2>3 DEF Reserve
    <3>2. status["people"][s] = "NULL"
      BY <2>3 DEF Reserve
    <3> QED BY <2>1, <3>1, <3>2 DEF DbTypeOK, Lanes
  <2> QED BY <1>2, <2>2, <2>3
<1>3. ASSUME NEW k \in Lanes, NEW s \in Rows,
             BackoffElapses(k, s) \/ LeavesPool(k, s) \/ TakenByOther(k, s)
      PROVE  UNCHANGED status
  BY <1>3 DEF BackoffElapses, LeavesPool, TakenByOther, db
<1>4. LeaseExpires => UNCHANGED status
  BY DEF LeaseExpires, db
<1> QED BY <1>1, <1>2, <1>3, <1>4 DEF Next

\* The rows of writer w's extrinsic that its own epoch has marked so far.
Marked(w) ==
    pc[w] \in {"mark", "broadcast", "await"} /\ epoch[w] = lease.epoch
    => \A r \in batch[w] \ todo[w] : status[lane[w]][r] = "SUBMITTING"

\* Where a step of its own leaves a writer that is submitting.
LEMMA SubmittingStep ==
  ASSUME TypeOK, NEW w \in Writers, Shape(w), WriterStep(w) \/ Abandon(w),
         pc'[w] \in {"mark", "broadcast", "await"}
  PROVE  /\ lane'[w] = lane[w] /\ batch'[w] = batch[w]
         /\ \/ todo'[w] = batch[w]
            \/ /\ pc[w] = "mark" /\ MarkNext(w)
            \/ /\ pc[w] = "broadcast" /\ todo'[w] = todo[w] /\ UNCHANGED status
<1> USE DEF TypeOK, WriterTypeOK
<1>1. ASSUME NEW o, NEW rest, NEW then \in Resume, Decide(w, o, rest, then) PROVE FALSE
  BY <1>1 DEF Decide, Resume
<1>2. ~Forget(w) /\ ~DeferAll(w)
  BY <1>1 DEF Forget, DeferAll, Resume
<1>3. \A reason : ~SubmitError(w, reason)
  BY <1>2 DEF SubmitError
<1>4. ~(TryAcquire(w) \/ Heartbeat(w) \/ Hold(w) \/ Abandon(w))
  BY <1>2 DEF TryAcquire, Heartbeat, Hold, Abandon, LeaseLost, Go
<1>5. ~(Reconcile(w) \/ ReconOwners(w) \/ Claim(w) \/ EndPass(w))
  BY <1>1 DEF Reconcile, ReconOwners, ReconcileNext, ReadChunk, SkipChunk, Claim, ClaimSome,
              EndPass, NextPass, Resume
<1>6. ~(Triage(w) \/ Owners(w) \/ Settle(w) \/ Rebatch(w))
  BY <1>1, <1>2 DEF Triage, Owners, Settle, Rebatch, Resume
<1>7. ~Record(w)
  BY <1>2 DEF Record, RecordNext, ReconcileErrs, LeaseLost
<1>8. ~Await(w)
  BY <1>2, <1>3 DEF Await, Finalized, BatchFails, TimesOut, WatchBreaks, RenewalFails, Go
<1>9. CASE Submit(w)
  BY <1>1, <1>2, <1>3, <1>9 DEF Submit, Resume
<1>10. CASE Broadcast(w)
  BY <1>3, <1>10 DEF Broadcast, Go, local, db
<1>11. CASE Mark(w)
  <2>1. pc[w] = "mark" /\ MarkNext(w)
    BY <1>2, <1>3, <1>11 DEF Mark, MarkErrs, LeaseLost
  <2> QED BY <2>1 DEF MarkNext
<1> QED BY <1>4, <1>5, <1>6, <1>7, <1>8, <1>9, <1>10, <1>11 DEF WriterStep

\* Every step keeps the marks.
LEMMA StepMarked ==
  ASSUME TypeOK, TypeOK', Custody, \A w \in Writers : Marked(w), [Next]_vars, NEW w \in Writers
  PROVE  Marked(w)'
<1> USE DEF TypeOK
<1> SUFFICES ASSUME pc'[w] \in {"mark", "broadcast", "await"}, epoch'[w] = lease'.epoch,
                    NEW r \in batch'[w] \ todo'[w]
             PROVE  status'[lane'[w]][r] = "SUBMITTING"
  BY DEF Marked
<1>0. /\ Marked(w) /\ Shape(w) /\ lane[w] \in Lanes
      /\ r \in Rows /\ status \in [Lanes -> [Rows -> PeopleStatus \cup DotnsStatus]]
  BY DEF Custody, WriterTypeOK, DbTypeOK
<1>1. CASE UNCHANGED vars
  BY <1>0, <1>1 DEF vars, db, writer, local, Marked
<1>2. ASSUME NEW v \in Writers, WriterStep(v) \/ Abandon(v), v # w
      PROVE  status'[lane'[w]][r] = "SUBMITTING"
  <2>1. Untouched(w) /\ epoch[w] = lease.epoch /\ UNCHANGED status
    BY <1>2, OthersFenced
  <2> QED BY <1>0, <2>1 DEF Marked, Untouched
<1>3. CASE WriterStep(w) \/ Abandon(w)
  <2>1. /\ lane'[w] = lane[w] /\ batch'[w] = batch[w]
        /\ \/ todo'[w] = batch[w]
           \/ /\ pc[w] = "mark" /\ MarkNext(w)
           \/ /\ pc[w] = "broadcast" /\ todo'[w] = todo[w] /\ UNCHANGED status
    BY <1>0, <1>3, SubmittingStep
  <2>2. ~TryAcquire(w)
    BY DEF TryAcquire, WriterTypeOK
  <2>3. epoch[w] = lease.epoch
    BY <1>3, <2>2, EpochStep
  <2>4. CASE pc[w] = "mark" /\ MarkNext(w)
    <3>1. PICK s \in todo[w] : /\ status' = [status EXCEPT ![lane[w]][s] = "SUBMITTING"]
                               /\ todo' = [todo EXCEPT ![w] = @ \ {s}]
      BY <2>4 DEF MarkNext, First
    <3>2. s \in Rows /\ todo'[w] = todo[w] \ {s}
      BY <3>1 DEF WriterTypeOK
    <3>3. r # s => status[lane[w]][r] = "SUBMITTING"
      BY <1>0, <2>1, <2>3, <2>4, <3>2 DEF Marked
    <3> QED BY <1>0, <2>1, <3>1, <3>2, <3>3
  <2>5. CASE pc[w] = "broadcast" /\ todo'[w] = todo[w] /\ UNCHANGED status
    BY <1>0, <2>1, <2>3, <2>5 DEF Marked
  <2> QED BY <2>1, <2>4, <2>5
<1>4. CASE Next /\ \A v \in Writers : ~WriterStep(v) /\ ~Abandon(v)
  <2>1. UNCHANGED writer /\ lease'.epoch = lease.epoch
    BY <1>4, OutsideStep
  <2>2. status[lane[w]][r] = "SUBMITTING"
    BY <1>0, <2>1 DEF Marked, writer, local
  <2>3. status'[lane[w]][r] = "SUBMITTING"
    BY <1>0, <1>4, <2>2, OutsideMarks
  <2> QED BY <2>1, <2>3 DEF writer
<1> QED BY <1>1, <1>2, <1>3, <1>4

\* Every row of an extrinsic that is broadcast or watched under a valid lease is
\* SUBMITTING, whatever the other writers do and whatever fails meanwhile.
THEOREM WrittenAhead == Spec => []WriteAhead
<1> DEFINE Marks == \A w \in Writers : Marked(w)
<1>1. Init => Marks
  BY DEF Init, Marked
<1>2. TypeOK /\ TypeOK' /\ Custody /\ Marks /\ [Next]_vars => Marks'
  BY StepMarked
<1>3. Custody /\ Marks => WriteAhead
  BY DEF Custody, Shape, Marked, LeaseHeld, WriteAhead
<1> HIDE DEF Marks
<1> QED BY <1>1, <1>2, <1>3, TypeCorrect, CustodyHolds, PTL DEF Spec

--------------------------------------------------------------------------------
(* Nobody loses a SUBMITTING row.                                          *)

\* The reconcile never leaves a chunk, nor the dotNS lane, for the next lease.
ReconcileCompletes == Faults \cap {"reconcile", "link"} = {}

\* The rows of the inner loops are rows of the batch.
Nested(w) == /\ pc[w] = "mark" => todo[w] \subseteq batch[w]
             /\ pc[w] = "settle" => Decided(w) \subseteq batch[w]

\* Writer w has row r of lane l in hand, or its startup reconcile is yet to read it.
Covers(w, l, r) ==
    \/ lane[w] = l /\ r \in InHand(w)
    \/ lane[w] = l /\ pc[w] = "reconcile"
    \/ lane[w] = "people" /\ l = "dotns" /\ ~Draining(w)

\* The writer of the newest epoch covers every SUBMITTING row.
Tracked(w) == pc[w] # "acquire" /\ epoch[w] = lease.epoch =>
    \A l \in Lanes, r \in Rows : status[l][r] = "SUBMITTING" => Covers(w, l, r)

\* A decision that gives every row of the hand an outcome, or keeps it, loses none.
LEMMA DecideKeeps ==
  ASSUME WriterTypeOK, NEW w \in Writers, NEW outcome \in [Rows -> Fates], NEW rest, NEW then,
         Decide(w, outcome, rest, then), NEW r \in Rows,
         outcome[r] # "none" \/ r \in rest
  PROVE  r \in InHand(w)'
BY DEF Decide, WriterTypeOK, InHand, Decided

\* Deferring the whole hand keeps the rows of the batch until each is recorded.
LEMMA DeferAllKeeps ==
  ASSUME WriterTypeOK, NEW w \in Writers, DeferAll(w), NEW r \in batch[w]
  PROVE  r \in InHand(w)'
<1>1. FateOn(batch[w], "Defer") \in [Rows -> Fates] /\ r \in Rows
  BY FateOnType DEF Fates, Outcomes, WriterTypeOK
<1>2. FateOn(batch[w], "Defer")[r] # "none"
  BY <1>1 DEF FateOn
<1>3. Decide(w, FateOn(batch[w], "Defer"), {}, "next")
  BY DEF DeferAll
<1> QED BY <1>1, <1>2, <1>3, DecideKeeps

\* So does an error of a submission.
LEMMA SubmitErrorKeeps ==
  ASSUME WriterTypeOK, NEW w \in Writers, NEW reason, SubmitError(w, reason), NEW r \in batch[w]
  PROVE  r \in InHand(w)'
<1>1. CASE DeferAll(w)
  BY <1>1, DeferAllKeeps
<1>2. CASE batch' = batch
  BY <1>2 DEF InHand
<1> QED BY <1>1, <1>2 DEF SubmitError

\* Outside the startup reconcile, a row leaves the hand of a writer that keeps
\* going only when its outcome is recorded, and then it is not SUBMITTING.
LEMMA HandKept ==
  ASSUME TypeOK, Custody, NEW w \in Writers, Nested(w), WriterStep(w),
         pc[w] \notin {"acquire", "reconcile", "reconOwners", "record"}, pc'[w] # "acquire",
         NEW r \in InHand(w)
  PROVE  r \in InHand(w)' /\ lane'[w] = lane[w]
<1> USE DEF TypeOK
<1>0. /\ Shape(w) /\ r \in Rows /\ lane[w] \in Lanes
      /\ pc[w] \notin {"beat", "claim", "next"} /\ fate[w] \in [Rows -> Fates]
  <2>1. Shape(w) /\ r \in Rows /\ lane[w] \in Lanes /\ fate[w] \in [Rows -> Fates]
    BY DEF Custody, WriterTypeOK, InHand, Decided
  <2>2. pc[w] \in {"beat", "claim", "next"} => InHand(w) = {}
    BY <2>1 DEF Shape, InHand, Decided, NoFate
  <2> QED BY <2>1, <2>2
<1>1. r \in batch[w]
  BY <1>0 DEF Shape, Nested, InHand, Decided, NoFate
<1>2. ASSUME DeferAll(w) PROVE r \in InHand(w)' /\ lane'[w] = lane[w]
  BY <1>1, <1>2, DeferAllKeeps DEF DeferAll
<1>3. ASSUME NEW reason, SubmitError(w, reason) PROVE r \in InHand(w)' /\ lane'[w] = lane[w]
  <2>1. r \in InHand(w)'
    BY <1>1, <1>3, SubmitErrorKeeps
  <2> QED BY <2>1, <1>3 DEF SubmitError, DeferAll
<1>4. CASE batch'[w] = batch[w] /\ lane'[w] = lane[w]
  BY <1>1, <1>4 DEF InHand
<1>5. ~Forget(w)
  BY DEF Forget, WriterTypeOK
<1>6. CASE Hold(w)
  BY <1>4, <1>5, <1>6 DEF Hold, Go, local, LeaseLost
<1>7. CASE Triage(w)
  <2>1. CASE DeferAll(w)
    BY <1>2, <2>1
  <2>2. CASE ~DeferAll(w)
    <3>1. PICK refused \in SUBSET batch[w] :
          \E answer \in [refused -> GateOutcomes(lane[w])] :
            Decide(w, [s \in Rows |-> IF s \in refused THEN answer[s] ELSE "none"],
                   batch[w] \ refused,
                   IF refused = batch[w] THEN "next" ELSE "owners")
      BY <1>7, <2>2 DEF Triage
    <3>2. PICK answer \in [refused -> GateOutcomes(lane[w])] :
            Decide(w, [s \in Rows |-> IF s \in refused THEN answer[s] ELSE "none"],
                   batch[w] \ refused,
                   IF refused = batch[w] THEN "next" ELSE "owners")
      BY <3>1
    <3> DEFINE outcome == [s \in Rows |-> IF s \in refused THEN answer[s] ELSE "none"]
    <3>3. outcome \in [Rows -> Fates]
      BY DEF GateOutcomes, Fates, Outcomes
    <3>4. outcome[r] # "none" \/ r \in batch[w] \ refused
      BY <1>0, <1>1 DEF GateOutcomes
    <3>5. Decide(w, outcome, batch[w] \ refused, IF refused = batch[w] THEN "next" ELSE "owners")
      BY <3>2
    <3> HIDE DEF outcome
    <3>6. r \in InHand(w)'
      BY <1>0, <3>3, <3>4, <3>5, DecideKeeps
    <3> QED BY <1>7, <2>2, <3>6 DEF Triage
  <2> QED BY <2>1, <2>2
<1>8. CASE Owners(w)
  <2>1. CASE DeferAll(w)
    BY <1>2, <2>1
  <2>2. CASE ~DeferAll(w)
    <3> DEFINE rest == {s \in batch[w] : owner[lane[w]][s] = "none"}
    <3> DEFINE outcome == [s \in Rows |-> IF s \notin batch[w] THEN "none"
                             ELSE IF owner[lane[w]][s] = "candidate" THEN "Observed"
                             ELSE IF owner[lane[w]][s] = "other" THEN "Failed"
                             ELSE "none"]
    <3>1. Decide(w, outcome, rest, IF rest = {} THEN "next" ELSE "submit") /\ lane' = lane
      BY <1>8, <2>2 DEF Owners
    <3>2. outcome \in [Rows -> Fates]
      BY DEF Fates, Outcomes
    <3>3. owner[lane[w]][r] \in {"none", "candidate", "other"}
      BY <1>0 DEF ChainTypeOK
    <3>4. outcome[r] # "none" \/ r \in rest
      BY <1>0, <1>1, <3>3
    <3> HIDE DEF outcome, rest
    <3> QED BY <1>0, <3>1, <3>2, <3>4, DecideKeeps
  <2> QED BY <2>1, <2>2
<1>9. CASE Settle(w)
  <2>1. PICK read \in BOOLEAN :
          Decide(w, [s \in Rows |-> IF s \notin batch[w] THEN "none"
                       ELSE IF fate[w][s] = "ok" THEN "Landed"
                       ELSE Classify(fate[w][s], read /\ owner[lane[w]][s] = "candidate",
                                     snap[w][s] + 1)], {}, "next")
    BY <1>9 DEF Settle
  <2> DEFINE outcome == [s \in Rows |-> IF s \notin batch[w] THEN "none"
                           ELSE IF fate[w][s] = "ok" THEN "Landed"
                           ELSE Classify(fate[w][s], read /\ owner[lane[w]][s] = "candidate",
                                         snap[w][s] + 1)]
  <2>2. \A f, o, n : Classify(f, o, n) \in Fates \ {"none"}
    BY DEF Classify, Fates, Outcomes
  <2>3. outcome \in [Rows -> Fates]
    <3>1. "none" \in Fates /\ "Landed" \in Fates
      BY DEF Fates, Outcomes
    <3>2. \A f, o, n : Classify(f, o, n) \in Fates
      BY <2>2
    <3> QED BY <3>1, <3>2, Zenon
  <2>4. outcome[r] # "none"
    <3>1. outcome[r] = IF fate[w][r] = "ok" THEN "Landed"
                       ELSE Classify(fate[w][r], read /\ owner[lane[w]][r] = "candidate",
                                     snap[w][r] + 1)
      BY <1>0, <1>1, Zenon
    <3> HIDE DEF outcome
    <3> QED BY <2>2, <3>1
  <2>5. Decide(w, outcome, {}, "next")
    BY <2>1
  <2> HIDE DEF outcome
  <2>6. r \in InHand(w)'
    BY <1>0, <2>3, <2>4, <2>5, DecideKeeps
  <2> QED BY <1>9, <2>6 DEF Settle
<1>10. CASE Rebatch(w)
  <2>1. CASE DeferAll(w)
    BY <1>2, <2>1
  <2>2. CASE ~DeferAll(w)
    <3> DEFINE outcome == [s \in Rows |-> IF s \notin batch[w] THEN "none"
                             ELSE IF owner[lane[w]][s] = "candidate" THEN "Landed" ELSE "Defer"]
    <3>1. Decide(w, outcome, {}, "next") /\ lane' = lane
      BY <1>10, <2>2 DEF Rebatch
    <3>2. outcome \in [Rows -> Fates] /\ outcome[r] # "none"
      BY <1>0, <1>1 DEF Fates, Outcomes
    <3> HIDE DEF outcome
    <3> QED BY <1>0, <3>1, <3>2, DecideKeeps
  <2> QED BY <2>1, <2>2
<1>11. CASE Submit(w)
  <2>1. CASE Decide(w, FateOn(batch[w], "Retry"), {}, "next") /\ lane' = lane
    <3>1. FateOn(batch[w], "Retry") \in [Rows -> Fates] /\ FateOn(batch[w], "Retry")[r] # "none"
      BY <1>0, <1>1, FateOnType DEF Fates, Outcomes, FateOn
    <3> QED BY <1>0, <2>1, <3>1, DecideKeeps
  <2> QED BY <1>2, <1>3, <1>4, <1>11, <2>1 DEF Submit
<1>12. CASE Broadcast(w)
  BY <1>3, <1>4, <1>12 DEF Broadcast, Go, local
<1>13. CASE Await(w)
  BY <1>2, <1>3, <1>4, <1>5, <1>13 DEF Await, Finalized, BatchFails, TimesOut, WatchBreaks,
                                       RenewalFails, Go, local
<1>14. CASE Mark(w)
  BY <1>3, <1>4, <1>5, <1>14 DEF Mark, MarkNext, MarkErrs, LeaseLost
<1> QED BY <1>0, <1>6, <1>7, <1>8, <1>9, <1>10, <1>11, <1>12, <1>13, <1>14
        DEF WriterStep, TryAcquire, Heartbeat, Reconcile, ReconOwners, Claim, Record, EndPass

\* The inner loops stay inside the batch.
LEMMA StepNested ==
  ASSUME TypeOK, Custody, NEW w \in Writers, Nested(w), WriterStep(w) \/ Abandon(w)
  PROVE  Nested(w)'
<1> USE DEF TypeOK
<1>0. /\ Shape(w) /\ batch[w] \in SUBSET Rows /\ todo[w] \in SUBSET Rows
      /\ after[w] \in Resume
  BY DEF Custody, WriterTypeOK, Resume
<1>1. CASE pc'[w] \notin {"mark", "settle"}
  BY <1>1 DEF Nested
<1>2. CASE pc'[w] = "mark"
  <2>1. /\ batch'[w] = batch[w]
        /\ \/ todo'[w] = batch[w]
           \/ pc[w] = "mark" /\ MarkNext(w)
           \/ pc[w] = "broadcast" /\ todo'[w] = todo[w]
    BY <1>0, <1>2, SubmittingStep
  <2>2. pc[w] = "mark" /\ MarkNext(w) => todo'[w] \subseteq todo[w]
    BY DEF MarkNext, WriterTypeOK
  <2>3. pc[w] = "broadcast" => todo[w] = {}
    BY <1>0 DEF Shape
  <2> QED BY <1>2, <2>1, <2>2, <2>3 DEF Nested
<1>3. CASE pc'[w] = "settle"
  <2>0. SUFFICES Decided(w)' \subseteq batch'[w]
    BY <1>3 DEF Nested
  <2>1. ASSUME NEW f, batch' = batch,
               fate' = [fate EXCEPT ![w] = [r \in Rows |-> IF r \in batch[w] THEN f[r] ELSE "none"]]
        PROVE  Decided(w)' \subseteq batch'[w]
    BY <2>1 DEF Decided, WriterTypeOK
  <2>2. ASSUME NEW reason, SubmitError(w, reason)
        PROVE  Decided(w)' \subseteq batch'[w]
    <3>1. Alone(w)
      BY <1>3, <2>2 DEF SubmitError, DeferAll, Decide, WriterTypeOK
    <3>2. fate' = [fate EXCEPT ![w] = FateOn(batch[w], reason)] /\ batch' = batch
      BY <2>2, <3>1 DEF SubmitError
    <3>3. fate'[w] = FateOn(batch[w], reason)
      BY <3>2 DEF WriterTypeOK
    <3> QED BY <3>2, <3>3 DEF Decided, FateOn
  <2>3. ASSUME NEW o, NEW rest, NEW then \in Resume, Decide(w, o, rest, then) PROVE FALSE
    BY <1>3, <2>3 DEF Decide, Resume, WriterTypeOK
  <2>4. ~Forget(w) /\ ~DeferAll(w)
    BY <1>3, <2>3 DEF Forget, DeferAll, Resume, WriterTypeOK
  <2>5. ~(TryAcquire(w) \/ Heartbeat(w) \/ Hold(w) \/ Abandon(w))
    BY <1>3, <2>4 DEF TryAcquire, Heartbeat, Hold, Abandon, LeaseLost, Go, WriterTypeOK
  <2>6. ~(Reconcile(w) \/ Claim(w) \/ EndPass(w))
    BY <1>3 DEF Reconcile, ReconcileNext, Claim, ClaimSome, EndPass, NextPass, WriterTypeOK
  <2>7. ~ReconOwners(w)
    BY <1>3, <2>3 DEF ReconOwners, ReconcileNext, ReadChunk, SkipChunk, Resume, WriterTypeOK
  <2>8. ~(Triage(w) \/ Owners(w) \/ Settle(w) \/ Rebatch(w))
    BY <2>3, <2>4 DEF Triage, Owners, Settle, Rebatch, Resume
  <2>9. ~Record(w)
    BY <1>0, <1>3, <2>4 DEF Record, RecordNext, ReconcileErrs, LeaseLost, Resume, WriterTypeOK
  <2>10. CASE Submit(w)
    BY <1>3, <2>2, <2>3, <2>4, <2>10 DEF Submit, Resume, WriterTypeOK
  <2>11. CASE Mark(w) \/ Broadcast(w)
    BY <1>3, <2>2, <2>4, <2>11 DEF Mark, MarkNext, MarkErrs, LeaseLost, Broadcast, Go, WriterTypeOK
  <2>12. CASE Finalized(w)
    BY <1>3, <2>1, <2>2, <2>12 DEF Finalized, Go, WriterTypeOK
  <2>13. CASE Await(w) /\ ~Finalized(w)
    BY <2>2, <2>4, <2>13 DEF Await, BatchFails, TimesOut, WatchBreaks, RenewalFails
  <2> QED BY <2>5, <2>6, <2>7, <2>8, <2>9, <2>10, <2>11, <2>12, <2>13 DEF WriterStep
<1> QED BY <1>1, <1>2, <1>3

\* A recorded row is not SUBMITTING any more, and every other row stays in hand.
LEMMA RecordKeeps ==
  ASSUME TypeOK, Custody, NEW w \in Writers, pc[w] = "record", RecordNext(w),
         NEW r \in InHand(w), status'[lane[w]][r] = "SUBMITTING"
  PROVE  r \in InHand(w)' /\ lane'[w] = lane[w] /\ pc'[w] \in {"record", after[w]}
         /\ after'[w] = after[w]
<1> USE DEF TypeOK
<1>1. PICK s \in Decided(w) :
        /\ RecordOutcome(lane[w], s, snap[w][s], fate[w][s])
        /\ fate' = [fate EXCEPT ![w][s] = "none"]
        /\ pc'   = [pc EXCEPT ![w] = IF Decided(w) = {s} THEN after[w] ELSE "record"]
  BY DEF RecordNext, First
<1>2. s \in Rows /\ lane[w] \in Lanes /\ r \in Rows
  BY DEF Decided, WriterTypeOK, InHand
<1>3. status'[lane[w]][s] # "SUBMITTING"
  BY <1>1, <1>2 DEF RecordOutcome, SetStatus, Done, DbTypeOK, Lanes
<1>4. batch'[w] = batch[w] /\ todo'[w] = todo[w] /\ after'[w] = after[w] /\ lane'[w] = lane[w]
  BY DEF RecordNext
<1>5. fate'[w][r] = fate[w][r]
  BY <1>1, <1>2, <1>3 DEF WriterTypeOK
<1>6. r \in InHand(w)'
  BY <1>4, <1>5 DEF InHand, Decided
<1>7. pc'[w] \in {"record", after[w]}
  BY <1>1 DEF WriterTypeOK
<1> QED BY <1>4, <1>6, <1>7

\* The startup reconcile covers a SUBMITTING row until its outcome is recorded.
LEMMA ReconcileCovers ==
  ASSUME ReconcileCompletes, TypeOK, Custody, NEW w \in Writers, Reconcile(w) \/ ReconOwners(w),
         NEW l \in Lanes, NEW r \in Rows, status[l][r] = "SUBMITTING", Covers(w, l, r)
  PROVE  Covers(w, l, r)'
<1> USE DEF TypeOK
<1>0. /\ Shape(w) /\ lane[w] \in Lanes /\ pc[w] \in {"reconcile", "reconOwners"}
      /\ batch[w] = {} /\ fate[w] = NoFate /\ todo[w] \in SUBSET Rows
  BY DEF Custody, WriterTypeOK, Reconcile, ReconOwners, Shape
<1>1. InHand(w) = todo[w]
  BY <1>0 DEF InHand, Decided, NoFate
<1>2. CASE Reconcile(w)
  <2> DEFINE stuck == {s \in Rows : status[lane[w]][s] = "SUBMITTING"}
  <2>1. CASE stuck = {} /\ ReconcileNext(w)
    <3>1. lane[w] = "people" /\ l = "dotns"
      BY <1>0, <1>1, <2>1, <1>2 DEF Covers, Shape, Reconcile, Lanes
    <3>2. lane'[w] = "dotns" /\ pc'[w] = "reconcile"
      BY <2>1, <3>1 DEF ReconcileNext, WriterTypeOK
    <3> QED BY <3>1, <3>2 DEF Covers
  <2>2. CASE todo' = [todo EXCEPT ![w] = stuck] /\ UNCHANGED lane /\ pc' = [pc EXCEPT ![w] = "reconOwners"]
    <3>1. todo'[w] = stuck /\ lane'[w] = lane[w] /\ pc'[w] = "reconOwners"
      BY <2>2 DEF WriterTypeOK
    <3>2. CASE lane[w] = l
      BY <3>1, <3>2 DEF Covers, InHand
    <3>3. CASE lane[w] # l
      BY <3>1, <3>3 DEF Covers, Draining
    <3> QED BY <3>2, <3>3
  <2>3. ~Fault("link")
    BY DEF Fault, ReconcileCompletes
  <2> QED BY <1>2, <2>1, <2>2, <2>3 DEF Reconcile
<1>3. CASE ReconOwners(w)
  <2>0. pc[w] = "reconOwners"
    BY <1>3 DEF ReconOwners
  <2>1. CASE todo[w] = {} /\ ReconcileNext(w)
    <3>1. lane[w] = "people" /\ l = "dotns"
      BY <1>1, <2>0, <2>1 DEF Covers
    <3>2. lane'[w] = "dotns" /\ pc'[w] = "reconcile"
      BY <2>1, <3>1 DEF ReconcileNext, WriterTypeOK
    <3> QED BY <3>1, <3>2 DEF Covers
  <2>2. CASE ReadChunk(w)
    <3> DEFINE chunk == Earliest(todo[w], ReconcileChunk)
    <3> DEFINE outcome == [s \in Rows |-> IF s \notin chunk THEN "none"
                              ELSE IF owner[lane[w]][s] = "candidate" THEN "Observed" ELSE "Retry"]
    <3>1. outcome \in [Rows -> Fates]
      BY DEF Fates, Outcomes
    <3>2. Decide(w, outcome, {}, "reconOwners") /\ lane' = lane /\ todo'[w] = todo[w] \ chunk
      BY <2>2 DEF ReadChunk, WriterTypeOK
    <3>3. r \in todo[w] => outcome[r] # "none" \/ r \in todo'[w]
      BY <3>2
    <3> HIDE DEF outcome, chunk
    <3>4. r \in todo[w] => r \in InHand(w)'
      BY <3>1, <3>2, <3>3, DecideKeeps DEF InHand
    <3>5. pc'[w] \in {"record", "reconOwners"} /\ after'[w] = "reconOwners" /\ lane'[w] = lane[w]
      BY <3>2 DEF Decide, WriterTypeOK
    <3> QED BY <1>1, <2>0, <3>4, <3>5 DEF Covers, Draining
  <2>3. ~SkipChunk(w)
    BY DEF SkipChunk, Fault, ReconcileCompletes
  <2> QED BY <1>3, <2>1, <2>2, <2>3 DEF ReconOwners
<1> QED BY <1>2, <1>3

\* A step of a writer that keeps going loses no SUBMITTING row.
LEMMA CoverKept ==
  ASSUME ReconcileCompletes, TypeOK, Custody, NEW w \in Writers, Nested(w),
         WriterStep(w) \/ Abandon(w), pc[w] # "acquire", pc'[w] # "acquire",
         NEW l \in Lanes, NEW r \in Rows,
         status[l][r] = "SUBMITTING", status'[l][r] = "SUBMITTING", Covers(w, l, r)
  PROVE  Covers(w, l, r)'
<1> USE DEF TypeOK
<1>0. Shape(w)
  BY DEF Custody
<1>1. CASE Reconcile(w) \/ ReconOwners(w)
  BY <1>1, ReconcileCovers
<1>2. CASE Record(w)
  <2>0. pc[w] = "record"
    BY <1>2 DEF Record
  <2>1. RecordNext(w)
    BY <1>2 DEF Record, LeaseLost, Forget, ReconcileErrs, Fault, ReconcileCompletes, WriterTypeOK
  <2>2. CASE lane[w] = l /\ r \in InHand(w)
    BY <2>0, <2>1, <2>2, RecordKeeps DEF Covers
  <2>3. CASE lane[w] = "people" /\ l = "dotns" /\ ~Draining(w)
    <3>1. after[w] = "reconOwners"
      BY <2>0, <2>3 DEF Draining
    <3>2. after'[w] = after[w] /\ lane'[w] = lane[w] /\ pc'[w] \in {"record", "reconOwners"}
      BY <2>1, <3>1 DEF RecordNext, WriterTypeOK
    <3> QED BY <2>3, <3>1, <3>2 DEF Covers, Draining
  <2> QED BY <2>0, <2>2, <2>3 DEF Covers
<1>3. CASE WriterStep(w) /\ pc[w] \notin {"reconcile", "reconOwners", "record"}
  <2>1. lane[w] = l /\ r \in InHand(w)
    BY <1>3 DEF Covers, Draining
  <2> QED BY <1>3, <2>1, HandKept DEF Covers
<1>4. ~Abandon(w)
  <2>1. Forget(w) => pc'[w] = "acquire"
    BY DEF Forget, WriterTypeOK
  <2> QED BY <2>1 DEF Abandon
<1>5. WriterStep(w) => /\ pc[w] \in {"reconcile", "reconOwners"} => Reconcile(w) \/ ReconOwners(w)
                       /\ pc[w] = "record" => Record(w)
  BY DEF WriterStep, TryAcquire, Heartbeat, Claim, Hold, Triage, Owners, Submit, Mark, Broadcast,
         Await, Settle, Rebatch, EndPass, Record, Reconcile, ReconOwners
<1> QED BY <1>1, <1>2, <1>3, <1>4, <1>5

\* A row that becomes SUBMITTING is in the hand of the writer that marked it.
LEMMA MarkCovers ==
  ASSUME TypeOK, Custody, NEW w \in Writers, Nested(w), WriterStep(w) \/ Abandon(w),
         NEW l \in Lanes, NEW r \in Rows,
         status[l][r] # "SUBMITTING", status'[l][r] = "SUBMITTING"
  PROVE  Covers(w, l, r)'
<1> USE DEF TypeOK
<1>1. CASE pc[w] = "mark" /\ MarkNext(w)
  <2>1. PICK s \in todo[w] : status' = [status EXCEPT ![lane[w]][s] = "SUBMITTING"]
    BY <1>1 DEF MarkNext, First
  <2>2. l = lane[w] /\ r = s
    BY <2>1 DEF DbTypeOK, WriterTypeOK
  <2>3. batch'[w] = batch[w] /\ lane'[w] = lane[w]
    BY <1>1 DEF MarkNext
  <2> QED BY <1>1, <2>1, <2>2, <2>3 DEF Nested, Covers, InHand
<1>2. CASE pc[w] = "record" /\ RecordNext(w)
  <2>1. PICK s \in Rows : RecordOutcome(lane[w], s, snap[w][s], fate[w][s])
    BY <1>2 DEF RecordNext, First, Decided
  <2>2. lane[w] \in Lanes
    BY DEF WriterTypeOK
  <2>3. status'[l][r] = status[l][r] \/ status'[l][r] # "SUBMITTING"
    BY <2>1, <2>2 DEF RecordOutcome, SetStatus, Done, DbTypeOK, Lanes
  <2> QED BY <2>3
<1> QED BY <1>1, <1>2, StatusByWriter

\* Every step keeps the writer of the newest epoch in charge of every SUBMITTING row.
LEMMA StepTracked ==
  ASSUME ReconcileCompletes, TypeOK, TypeOK', Custody, \A w \in Writers : Nested(w) /\ Tracked(w),
         [Next]_vars, NEW w \in Writers
  PROVE  Nested(w)' /\ Tracked(w)'
<1> USE DEF TypeOK
<1>0. Nested(w) /\ Tracked(w)
  OBVIOUS
<1>1. CASE UNCHANGED vars
  BY <1>0, <1>1 DEF vars, db, writer, local, Nested, Tracked, Covers, InHand, Decided, Draining
<1>2. ASSUME NEW v \in Writers, WriterStep(v) \/ Abandon(v), v # w
      PROVE  Nested(w)' /\ Tracked(w)'
  <2>1. Untouched(w)
    BY <1>2, OthersUntouched
  <2>2. Nested(w)'
    BY <1>0, <2>1 DEF Untouched, Nested, Decided
  <2>3. ASSUME pc'[w] # "acquire", epoch'[w] = lease'.epoch,
               NEW l \in Lanes, NEW r \in Rows, status'[l][r] = "SUBMITTING"
        PROVE  Covers(w, l, r)'
    <3>1. pc[w] # "acquire" /\ epoch[w] = lease.epoch /\ UNCHANGED status
      BY <1>2, <2>3, OthersFenced
    <3>2. Covers(w, l, r)
      BY <1>0, <2>3, <3>1 DEF Tracked
    <3> QED BY <2>1, <3>2 DEF Untouched, Covers, InHand, Decided, Draining
  <2> QED BY <2>2, <2>3 DEF Tracked
<1>3. CASE WriterStep(w) \/ Abandon(w)
  <2>1. Nested(w)'
    BY <1>0, <1>3, StepNested
  <2>2. ASSUME pc'[w] # "acquire", epoch'[w] = lease'.epoch,
               NEW l \in Lanes, NEW r \in Rows, status'[l][r] = "SUBMITTING"
        PROVE  Covers(w, l, r)'
    <3>1. CASE TryAcquire(w)
      <4>1. lane'[w] = "people" /\ pc'[w] = "reconcile"
        BY <3>1 DEF TryAcquire, WriterTypeOK
      <4> QED BY <4>1 DEF Covers, Draining, Lanes
    <3>2. CASE ~TryAcquire(w)
      <4>1. pc[w] # "acquire" /\ epoch[w] = lease.epoch
        BY <1>3, <2>2, <3>2, EpochStep
      <4>2. CASE status[l][r] = "SUBMITTING"
        <5>1. Covers(w, l, r)
          BY <1>0, <4>1, <4>2 DEF Tracked
        <5> QED BY <1>0, <1>3, <2>2, <4>1, <4>2, <5>1, CoverKept
      <4>3. CASE status[l][r] # "SUBMITTING"
        BY <1>0, <1>3, <2>2, <4>3, MarkCovers
      <4> QED BY <4>2, <4>3
    <3> QED BY <3>1, <3>2
  <2> QED BY <2>1, <2>2 DEF Tracked
<1>4. CASE Next /\ \A v \in Writers : ~WriterStep(v) /\ ~Abandon(v)
  <2>1. UNCHANGED writer /\ lease'.epoch = lease.epoch
    BY <1>4, OutsideStep
  <2>2. \A l \in Lanes, r \in Rows : status'[l][r] = "SUBMITTING" => status[l][r] = "SUBMITTING"
    BY <1>4, OutsideMarks
  <2> QED BY <1>0, <2>1, <2>2 DEF writer, local, Nested, Tracked, Covers, InHand, Decided, Draining
<1> QED BY <1>1, <1>2, <1>3, <1>4

\* Once the writer that holds the lease has reconciled, it has every SUBMITTING
\* row in hand, provided its startup reconcile read every chunk of both lanes.
THEOREM NoRowOrphaned ==
  ASSUME ReconcileCompletes
  PROVE  Spec => []NoOrphan
<1> DEFINE Tracks == \A w \in Writers : Nested(w) /\ Tracked(w)
<1>1. Init => Tracks
  BY DEF Init, Nested, Tracked
<1>2. TypeOK /\ TypeOK' /\ Custody /\ Tracks /\ [Next]_vars => Tracks'
  BY StepTracked
<1>3. TypeOK /\ Custody /\ Tracks => NoOrphan
  <2> SUFFICES ASSUME TypeOK, Custody, Tracks, NEW w \in Writers, LeaseHeld(w), Draining(w),
                      NEW l \in Lanes, NEW r \in Rows, status[l][r] = "SUBMITTING"
               PROVE  lane[w] = l /\ r \in batch[w] \cup Decided(w)
    BY DEF NoOrphan
  <2>1. Covers(w, l, r) /\ Nested(w) /\ Shape(w)
    BY DEF Tracked, LeaseHeld, Draining, Custody
  <2>2. lane[w] = l /\ r \in InHand(w)
    BY <2>1 DEF Covers, Draining
  <2>3. todo[w] \subseteq batch[w]
    BY <2>1 DEF Shape, Nested, Draining
  <2> QED BY <2>2, <2>3 DEF InHand
<1> HIDE DEF Tracks
<1> QED BY <1>1, <1>2, <1>3, TypeCorrect, CustodyHolds, PTL DEF Spec

--------------------------------------------------------------------------------
(* Every attempt a row is charged is accounted for.                        *)

\* What each row may have been charged for so far.
Bill == [l \in Lanes |-> [r \in Rows |-> Charges(l, r)]]

\* The writer of the newest epoch: no other passes the fence.
Newest(w) == pc[w] # "acquire" /\ epoch[w] = lease.epoch

\* What writer w read as the attempt of a row it claimed is on the bill, and the
\* mark adds at most one to it.
Priced(w) == \A r \in batch[w] : /\ snap[w][r] <= Bill[lane[w]][r]
                                 /\ attempt[lane[w]][r] <= snap[w][r] + 1

\* What it read of a row it found SUBMITTING may hold a mark that is not.
Found(w) == \A r \in todo[w] : snap[w][r] <= Bill[lane[w]][r] + 1

\* No row of the batch is charged before it is marked.
Unspent(w) == pc[w] \in {"hold", "triage", "owners", "submit", "record"} =>
    \A r \in batch[w] : attempt[lane[w]][r] <= Bill[lane[w]][r]

\* A row that is about to be charged, put back or given up has been billed for it.
Earned(w) == \A r \in Rows :
    /\ fate[w][r] \in {"other", "deterministic", "Retry"}
       => snap[w][r] + 1 <= Bill[lane[w]][r]
    /\ fate[w][r] \in {"Park", "Defer"} => snap[w][r] <= Bill[lane[w]][r]
    /\ fate[w][r] \in {"Failed", "Expired"} => attempt[lane[w]][r] <= Bill[lane[w]][r]

\* Every row that is being settled has an answer.
Answered(w) == pc[w] = "settle" => \A r \in batch[w] : fate[w][r] \in {"ok"} \cup Reasons

Counted(w) == Priced(w) /\ Found(w) /\ Unspent(w) /\ Earned(w) /\ Answered(w)

\* Empty hands owe nothing.
LEMMA IdleCounted ==
  ASSUME NEW w \in Writers, batch'[w] = {}, todo'[w] = {}, fate'[w] = NoFate
  PROVE  Counted(w)'
BY DEF Counted, Priced, Found, Unspent, Earned, Answered, NoFate

\* A writer whose rows, reads and answers stay as they are keeps its books, if
\* its rows' attempts do and no bill is lowered.
LEMMA KeptCounted ==
  ASSUME TypeOK, TypeOK', NEW w \in Writers, Counted(w),
         lane'[w] = lane[w], batch'[w] = batch[w], snap'[w] = snap[w], todo'[w] = todo[w],
         fate'[w] = fate[w], attempt' = attempt,
         pc'[w] = pc[w] \/ (pc[w] = "hold" /\ pc'[w] = "triage"),
         \A r \in Rows : /\ Bill[lane[w]][r] \in Nat /\ Bill'[lane[w]][r] \in Nat
                         /\ Bill[lane[w]][r] <= Bill'[lane[w]][r]
  PROVE  Counted(w)'
<1>0. /\ lane[w] \in Lanes /\ batch[w] \subseteq Rows /\ todo[w] \subseteq Rows
      /\ \A r \in Rows : snap[w][r] \in Nat /\ attempt[lane[w]][r] \in Nat
  BY DEF TypeOK, WriterTypeOK, DbTypeOK
<1>1. Priced(w)' /\ Found(w)'
  BY <1>0 DEF Counted, Priced, Found
<1>2. Unspent(w)'
  BY <1>0 DEF Counted, Unspent
<1>3. Earned(w)'
  BY <1>0 DEF Counted, Earned
<1>4. Answered(w)'
  BY DEF Counted, Answered
<1> QED BY <1>1, <1>2, <1>3, <1>4 DEF Counted

\* The bill is a number per row, and follows the blame.
LEMMA BillType ==
  ASSUME ChainTypeOK
  PROVE  /\ Bill \in [Lanes -> [Rows -> Nat]]
         /\ blame' = blame => Bill' = Bill
<1>1. Bill \in [Lanes -> [Rows -> Nat]]
  <2>1. ASSUME NEW l \in Lanes, NEW r \in Rows PROVE Charges(l, r) \in Nat
    BY DEF Charges, ChainTypeOK, Causes
  <2> QED BY <2>1 DEF Bill
<1>2. blame' = blame => Bill' = Bill
  BY DEF Bill, Charges
<1> QED BY <1>1, <1>2

\* A blamed row is billed for it, twice for an interrupted submission; no other
\* row's bill changes.
LEMMA BillBlamed ==
  ASSUME ChainTypeOK, NEW c \in Causes, NEW l \in Lanes, NEW S \in SUBSET Rows,
         blame' = Blamed(c, l, S), NEW k \in Lanes, NEW r \in Rows
  PROVE  Bill'[k][r] = IF k = l /\ r \in S
                       THEN Bill[k][r] + (IF c = "interrupted" THEN 2 ELSE 1)
                       ELSE Bill[k][r]
<1>1. \A d \in Causes : /\ blame[d][k][r] \in Nat
                        /\ blame'[d][k][r] = IF d = c /\ k = l /\ r \in S
                                             THEN blame[d][k][r] + 1 ELSE blame[d][k][r]
  BY DEF ChainTypeOK, Blamed
<1>2. /\ Bill[k][r] = blame["verdict"][k][r] + blame["lone"][k][r] + 2 * blame["interrupted"][k][r]
      /\ Bill'[k][r] = blame'["verdict"][k][r] + blame'["lone"][k][r]
                       + 2 * blame'["interrupted"][k][r]
  BY DEF Bill, Charges
<1> QED BY <1>1, <1>2 DEF Causes

\* Nothing is taken off a bill.
LEMMA BillGrows ==
  ASSUME TypeOK, [Next]_vars, NEW l \in Lanes, NEW r \in Rows
  PROVE  /\ Bill[l][r] \in Nat /\ Bill'[l][r] \in Nat
         /\ Bill[l][r] <= Bill'[l][r]
<1> USE DEF TypeOK
<1>1. Bill[l][r] \in Nat
  BY BillType
<1>2. CASE blame' = blame
  BY <1>1, <1>2, BillType
<1>3. ASSUME NEW k \in Lanes, BlameStep(k)
      PROVE  Bill'[l][r] \in Nat /\ Bill[l][r] <= Bill'[l][r]
  <2>1. ASSUME NEW c \in Causes, NEW S \in SUBSET Rows, blame' = Blamed(c, k, S)
        PROVE  Bill'[l][r] \in Nat /\ Bill[l][r] <= Bill'[l][r]
    BY <1>1, <2>1, BillBlamed
  <2> QED BY <1>1, <1>2, <1>3, <2>1 DEF BlameStep
<1>4. ASSUME NEW w \in Writers, WriterStep(w) \/ Abandon(w)
      PROVE  blame' = blame \/ \E k \in Lanes : BlameStep(k)
  <2>0. lane[w] \in Lanes
    BY DEF WriterTypeOK
  <2>1. CASE TryAcquire(w) \/ Heartbeat(w) \/ Hold(w) \/ Abandon(w) \/ Claim(w) \/ EndPass(w)
    BY <2>1 DEF TryAcquire, Heartbeat, Hold, Abandon, LeaseLost, Claim, EndPass
  <2>2. CASE Triage(w) \/ Owners(w) \/ Settle(w) \/ Rebatch(w) \/ Record(w)
    BY <2>2 DEF Triage, Owners, Settle, Rebatch, Record, RecordNext, ReconcileErrs, LeaseLost
  <2>3. CASE Reconcile(w) \/ ReconOwners(w) \/ Submit(w) \/ Broadcast(w) \/ Await(w) \/ Mark(w)
    BY <2>0, <2>3, WriterBlame
  <2> QED BY <1>4, <2>1, <2>2, <2>3 DEF WriterStep
<1>5. CASE Next /\ \A w \in Writers : ~WriterStep(w) /\ ~Abandon(w)
  BY <1>1, <1>2, <1>5 DEF Next, Reserve, Promote, BackoffElapses, LeavesPool, TakenByOther,
                          LeaseExpires
<1>6. CASE UNCHANGED vars
  BY <1>1, <1>2, <1>6 DEF vars
<1> QED BY <1>1, <1>2, <1>3, <1>4, <1>5, <1>6

\* The property, with the bill of the row.
LEMMA Accounted ==
  ASSUME AttemptsAccounted, NEW l \in Lanes, NEW r \in Rows
  PROVE  attempt[l][r] <= Bill[l][r] + (IF status[l][r] \in {"SUBMITTING", Done(l)} THEN 1 ELSE 0)
BY DEF AttemptsAccounted, Bill

\* The numbers of writer w's rows, and how a step of its own may change them.
Ledger(w) ==
    /\ lane[w] \in Lanes /\ lane'[w] = lane[w] /\ snap'[w] = snap[w] /\ attempt' = attempt
    /\ \A r \in Rows : /\ snap[w][r] \in Nat /\ attempt[lane[w]][r] \in Nat
                       /\ Bill[lane[w]][r] \in Nat /\ Bill'[lane[w]][r] \in Nat
                       /\ Bill[lane[w]][r] <= Bill'[lane[w]][r]

\* A decision whose outcomes are earned keeps the books.
LEMMA DecideCounted ==
  ASSUME WriterTypeOK, NEW w \in Writers, Counted(w), Ledger(w),
         NEW outcome \in [Rows -> Fates], NEW rest \in SUBSET batch[w], NEW then \in Resume,
         Decide(w, outcome, rest, then), todo'[w] = {},
         \A r \in Rows : outcome[r] # "none" => r \in batch[w],
         \A r \in Rows : outcome[r] \in {"other", "deterministic", "Retry"}
                         => snap[w][r] + 1 <= Bill[lane[w]][r],
         \A r \in Rows : outcome[r] \in {"Failed", "Expired"}
                         => attempt[lane[w]][r] <= Bill[lane[w]][r],
         \A r \in rest : attempt[lane[w]][r] <= Bill[lane[w]][r]
  PROVE  Counted(w)'
<1>0. /\ batch[w] \subseteq Rows
      /\ \A r \in batch[w] : /\ snap[w][r] <= Bill[lane[w]][r]
                             /\ attempt[lane[w]][r] <= snap[w][r] + 1
  BY DEF Counted, Priced, WriterTypeOK
<1>1. /\ fate'[w] = outcome /\ batch'[w] = rest /\ pc'[w] # "settle" /\ rest \subseteq Rows
      /\ lane'[w] = lane[w] /\ snap'[w] = snap[w] /\ attempt' = attempt
  BY DEF Decide, WriterTypeOK, Ledger, Resume
<1>2. Priced(w)' /\ Found(w)'
  BY <1>0, <1>1 DEF Priced, Found, Ledger
<1>3. Unspent(w)'
  BY <1>1 DEF Unspent, Ledger
<1>4. Earned(w)'
  <2>1. \A r \in Rows : outcome[r] \in {"Park", "Defer"} => snap[w][r] <= Bill[lane[w]][r]
    BY <1>0
  <2> QED BY <1>1, <2>1 DEF Earned, Ledger
<1>5. Answered(w)'
  BY <1>1 DEF Answered
<1> QED BY <1>2, <1>3, <1>4, <1>5 DEF Counted

\* Deferring the whole hand costs nothing.
LEMMA DeferAllCounted ==
  ASSUME WriterTypeOK, NEW w \in Writers, Counted(w), Ledger(w), DeferAll(w)
  PROVE  Counted(w)'
<1> DEFINE outcome == FateOn(batch[w], "Defer")
<1>1. outcome \in [Rows -> Fates] /\ {} \in SUBSET batch[w] /\ "next" \in Resume
  BY FateOnType DEF Fates, Outcomes, Resume
<1>2. \A r \in Rows : outcome[r] \in {"none", "Defer"} /\ (outcome[r] # "none" => r \in batch[w])
  BY DEF FateOn
<1>3. Decide(w, outcome, {}, "next") /\ todo'[w] = {}
  BY DEF DeferAll, WriterTypeOK
<1> HIDE DEF outcome
<1> QED BY <1>1, <1>2, <1>3, DecideCounted

\* A row that goes to be settled for a reason that costs an attempt is billed for it.
LEMMA SettleCounted ==
  ASSUME WriterTypeOK, NEW w \in Writers, Counted(w), Ledger(w), NEW f,
         fate'[w] = f, pc'[w] = "settle", batch'[w] = batch[w], todo'[w] = {},
         \A r \in Rows \ batch[w] : f[r] = "none",
         \A r \in batch[w] : f[r] \in {"ok"} \cup Reasons,
         \A r \in batch[w] : f[r] \in {"other", "deterministic"}
                             => Bill'[lane[w]][r] >= Bill[lane[w]][r] + 1
  PROVE  Counted(w)'
<1>1. /\ lane'[w] = lane[w] /\ snap'[w] = snap[w] /\ attempt' = attempt /\ batch[w] \subseteq Rows
      /\ \A r \in Rows : f[r] # "none" => r \in batch[w]
  BY DEF Ledger, WriterTypeOK
<1>2. \A r \in batch[w] : snap[w][r] <= Bill[lane[w]][r] /\ attempt[lane[w]][r] <= snap[w][r] + 1
  BY DEF Counted, Priced
<1>3. Priced(w)' /\ Found(w)'
  BY <1>1, <1>2 DEF Priced, Found, Ledger
<1>4. Unspent(w)' /\ Answered(w)'
  BY DEF Unspent, Answered
<1>5. Earned(w)'
  <2> SUFFICES ASSUME NEW r \in Rows
               PROVE  /\ f[r] \in {"other", "deterministic", "Retry"}
                         => snap[w][r] + 1 <= Bill'[lane[w]][r]
                      /\ f[r] \notin {"Park", "Defer", "Failed", "Expired"}
    BY <1>1 DEF Earned
  <2>1. f[r] \in {"none", "ok"} \cup Reasons
    BY <1>1
  <2> QED BY <1>1, <1>2, <2>1 DEF Reasons, Ledger
<1> QED BY <1>3, <1>4, <1>5 DEF Counted

\* The offline gate and the owner read charge nobody.
LEMMA TriageCounted ==
  ASSUME TypeOK, Custody, NEW w \in Writers, Counted(w), Ledger(w), Triage(w) \/ Owners(w)
  PROVE  Counted(w)'
<1> USE DEF TypeOK
<1>0. /\ Shape(w) /\ lane[w] \in Lanes /\ batch[w] \subseteq Rows
      /\ pc[w] \in {"triage", "owners"}
  BY DEF Custody, WriterTypeOK, Triage, Owners
<1>1. todo[w] = {} /\ \A r \in batch[w] : attempt[lane[w]][r] <= Bill[lane[w]][r]
  BY <1>0 DEF Shape, Counted, Unspent
<1>2. CASE DeferAll(w)
  BY <1>2, DeferAllCounted
<1>3. CASE Triage(w) /\ ~DeferAll(w)
  <2>1. PICK refused \in SUBSET batch[w] :
        \E answer \in [refused -> GateOutcomes(lane[w])] :
          Decide(w, [s \in Rows |-> IF s \in refused THEN answer[s] ELSE "none"],
                 batch[w] \ refused,
                 IF refused = batch[w] THEN "next" ELSE "owners")
    BY <1>3 DEF Triage
  <2>2. PICK answer \in [refused -> GateOutcomes(lane[w])] :
          Decide(w, [s \in Rows |-> IF s \in refused THEN answer[s] ELSE "none"],
                 batch[w] \ refused,
                 IF refused = batch[w] THEN "next" ELSE "owners")
    BY <2>1
  <2> DEFINE outcome == [s \in Rows |-> IF s \in refused THEN answer[s] ELSE "none"]
  <2> DEFINE rest == batch[w] \ refused
  <2> DEFINE then == IF refused = batch[w] THEN "next" ELSE "owners"
  <2>3. outcome \in [Rows -> Fates] /\ rest \in SUBSET batch[w] /\ then \in Resume
    BY DEF GateOutcomes, Fates, Outcomes, Resume
  <2>4. /\ \A r \in Rows : outcome[r] # "none" => r \in batch[w]
        /\ \A r \in Rows : outcome[r] \notin {"other", "deterministic", "Retry"}
    BY DEF GateOutcomes
  <2>5. Decide(w, outcome, rest, then) /\ todo'[w] = {}
    BY <1>1, <1>3, <2>2 DEF Triage
  <2> HIDE DEF outcome, rest, then
  <2>6. /\ \A r \in Rows : outcome[r] \in {"Failed", "Expired"}
                           => attempt[lane[w]][r] <= Bill[lane[w]][r]
        /\ \A r \in rest : attempt[lane[w]][r] <= Bill[lane[w]][r]
    BY <1>1, <2>3, <2>4
  <2> QED BY <2>3, <2>4, <2>5, <2>6, DecideCounted
<1>4. CASE Owners(w) /\ ~DeferAll(w)
  <2> DEFINE rest == {s \in batch[w] : owner[lane[w]][s] = "none"}
  <2> DEFINE outcome == [s \in Rows |-> IF s \notin batch[w] THEN "none"
                           ELSE IF owner[lane[w]][s] = "candidate" THEN "Observed"
                           ELSE IF owner[lane[w]][s] = "other" THEN "Failed"
                           ELSE "none"]
  <2> DEFINE then == IF rest = {} THEN "next" ELSE "submit"
  <2>1. Decide(w, outcome, rest, then) /\ todo'[w] = {}
    BY <1>1, <1>4 DEF Owners
  <2>2. outcome \in [Rows -> Fates] /\ rest \in SUBSET batch[w] /\ then \in Resume
    BY DEF Fates, Outcomes, Resume
  <2>3. /\ \A r \in Rows : outcome[r] # "none" => r \in batch[w]
        /\ \A r \in Rows : outcome[r] \notin {"other", "deterministic", "Retry"}
    OBVIOUS
  <2> HIDE DEF outcome, rest, then
  <2>4. /\ \A r \in Rows : outcome[r] \in {"Failed", "Expired"}
                           => attempt[lane[w]][r] <= Bill[lane[w]][r]
        /\ \A r \in rest : attempt[lane[w]][r] <= Bill[lane[w]][r]
    BY <1>1, <2>2, <2>3
  <2> QED BY <2>1, <2>2, <2>3, <2>4, DecideCounted
<1> QED BY <1>2, <1>3, <1>4

\* Settling charges a row only for what it is billed for.
LEMMA SettledCounted ==
  ASSUME TypeOK, Custody, NEW w \in Writers, Counted(w), Ledger(w), Settle(w) \/ Rebatch(w)
  PROVE  Counted(w)'
<1> USE DEF TypeOK
<1>0. /\ Shape(w) /\ lane[w] \in Lanes /\ batch[w] \subseteq Rows
      /\ pc[w] \in {"settle", "rebatch"}
  BY DEF Custody, WriterTypeOK, Settle, Rebatch
<1>1. todo[w] = {}
  BY <1>0 DEF Shape
<1>2. CASE DeferAll(w)
  BY <1>2, DeferAllCounted
<1>3. CASE Settle(w)
  <2>1. PICK read \in BOOLEAN :
          Decide(w, [s \in Rows |-> IF s \notin batch[w] THEN "none"
                       ELSE IF fate[w][s] = "ok" THEN "Landed"
                       ELSE Classify(fate[w][s], read /\ owner[lane[w]][s] = "candidate",
                                     snap[w][s] + 1)], {}, "next")
    BY <1>3 DEF Settle
  <2> DEFINE outcome == [s \in Rows |-> IF s \notin batch[w] THEN "none"
                           ELSE IF fate[w][s] = "ok" THEN "Landed"
                           ELSE Classify(fate[w][s], read /\ owner[lane[w]][s] = "candidate",
                                         snap[w][s] + 1)]
  <2>2. outcome \in [Rows -> Fates]
    <3>1. "none" \in Fates /\ "Landed" \in Fates /\ \A f, o, n : Classify(f, o, n) \in Fates
      BY DEF Classify, Fates, Outcomes
    <3> QED BY <3>1, Zenon
  <2>3. ASSUME NEW r \in Rows
        PROVE  /\ outcome[r] # "none" => r \in batch[w]
               /\ outcome[r] \in {"other", "deterministic", "Retry", "Failed", "Expired"}
                  => /\ outcome[r] \in {"Retry", "Failed"}
                     /\ r \in batch[w] /\ fate[w][r] \in {"other", "deterministic"}
    <3>1. CASE r \notin batch[w]
      <4>1. outcome[r] = "none"
        BY <3>1, Zenon
      <4> HIDE DEF outcome
      <4> QED BY <4>1
    <3>2. CASE r \in batch[w] /\ fate[w][r] = "ok"
      <4>1. outcome[r] = "Landed"
        BY <3>2, Zenon
      <4> HIDE DEF outcome
      <4> QED BY <3>2, <4>1
    <3>3. CASE r \in batch[w] /\ fate[w][r] # "ok"
      <4>1. outcome[r] = Classify(fate[w][r], read /\ owner[lane[w]][r] = "candidate",
                                  snap[w][r] + 1)
        BY <3>3, Zenon
      <4>2. fate[w][r] \in Reasons
        BY <1>3, <3>3 DEF Settle, Counted, Answered
      <4> HIDE DEF outcome
      <4>3. \A f \in Reasons : \A o, n :
              /\ Classify(f, o, n) \in {"Landed", "Park", "Defer", "Failed", "Retry"}
              /\ Classify(f, o, n) \in {"Failed", "Retry"} => f \in {"other", "deterministic"}
        BY DEF Classify, Reasons
      <4> QED BY <3>3, <4>1, <4>2, <4>3
    <3> QED BY <3>1, <3>2, <3>3
  <2>4. Decide(w, outcome, {}, "next") /\ todo'[w] = {}
    BY <1>1, <1>3, <2>1 DEF Settle
  <2>5. {} \in SUBSET batch[w] /\ "next" \in Resume
    BY DEF Resume
  <2> HIDE DEF outcome
  <2>6. ASSUME NEW r \in Rows, outcome[r] \in {"other", "deterministic", "Retry", "Failed", "Expired"}
        PROVE  /\ snap[w][r] + 1 <= Bill[lane[w]][r]
               /\ attempt[lane[w]][r] <= Bill[lane[w]][r]
    <3>1. r \in batch[w] /\ fate[w][r] \in {"other", "deterministic"}
      BY <2>3, <2>6
    <3>2. snap[w][r] + 1 <= Bill[lane[w]][r]
      BY <3>1 DEF Counted, Earned
    <3>3. attempt[lane[w]][r] <= snap[w][r] + 1
      BY <3>1 DEF Counted, Priced
    <3> QED BY <3>2, <3>3 DEF Ledger
  <2> QED BY <2>2, <2>3, <2>4, <2>5, <2>6, DecideCounted
<1>4. CASE Rebatch(w) /\ ~DeferAll(w)
  <2> DEFINE outcome == [s \in Rows |-> IF s \notin batch[w] THEN "none"
                           ELSE IF owner[lane[w]][s] = "candidate" THEN "Landed" ELSE "Defer"]
  <2>1. Decide(w, outcome, {}, "next") /\ todo'[w] = {}
    BY <1>1, <1>4 DEF Rebatch
  <2>2. outcome \in [Rows -> Fates] /\ {} \in SUBSET batch[w] /\ "next" \in Resume
    BY DEF Fates, Outcomes, Resume
  <2>3. \A r \in Rows : outcome[r] \in {"none", "Landed", "Defer"}
                        /\ (outcome[r] # "none" => r \in batch[w])
    OBVIOUS
  <2> HIDE DEF outcome
  <2> QED BY <2>1, <2>2, <2>3, DecideCounted
<1> QED BY <1>2, <1>3, <1>4

\* A submission that fails is billed to a lone row, and to nobody of a batch.
LEMMA ErrorCounted ==
  ASSUME TypeOK, NEW w \in Writers, Counted(w), Ledger(w),
         NEW reason \in {"unfunded", "contention", "other"}, SubmitError(w, reason)
  PROVE  Counted(w)'
<1> USE DEF TypeOK
<1>0. lane[w] \in Lanes /\ batch[w] \subseteq Rows /\ "lone" \in Causes
  BY DEF WriterTypeOK, Causes
<1>1. CASE ~Alone(w)
  BY <1>1, DeferAllCounted DEF SubmitError
<1>2. CASE Alone(w)
  <2> DEFINE f == FateOn(batch[w], reason)
  <2>1. fate'[w] = f /\ pc'[w] = "settle" /\ batch'[w] = batch[w] /\ todo'[w] = {}
    BY <1>2 DEF SubmitError, WriterTypeOK
  <2>2. /\ \A r \in Rows \ batch[w] : f[r] = "none"
        /\ \A r \in batch[w] : f[r] = reason /\ f[r] \in {"ok"} \cup Reasons
    BY <1>0 DEF FateOn, Reasons
  <2>3. ASSUME NEW r \in batch[w], f[r] \in {"other", "deterministic"}
        PROVE  Bill'[lane[w]][r] >= Bill[lane[w]][r] + 1
    <3>1. blame' = Blamed("lone", lane[w], batch[w])
      BY <1>2, <2>2, <2>3 DEF SubmitError
    <3>2. Bill'[lane[w]][r] = Bill[lane[w]][r] + 1
      BY <1>0, <3>1, BillBlamed
    <3> QED BY <1>0, <3>2 DEF Ledger
  <2> HIDE DEF f
  <2> QED BY <2>1, <2>2, <2>3, SettleCounted
<1> QED BY <1>1, <1>2

\* Signing, broadcasting and waiting charge nobody for what is not billed.
LEMMA SubmitCounted ==
  ASSUME TypeOK, Custody, NEW w \in Writers, Counted(w), Ledger(w), ~Forget(w),
         Submit(w) \/ Broadcast(w) \/ Await(w)
  PROVE  Counted(w)'
<1> USE DEF TypeOK
<1>0. /\ Shape(w) /\ lane[w] \in Lanes /\ batch[w] \subseteq Rows
      /\ pc[w] \in {"submit", "broadcast", "await"} /\ Causes = {"verdict", "lone", "interrupted"}
  BY DEF Custody, WriterTypeOK, Submit, Broadcast, Await, Causes
<1>1. todo[w] = {} /\ fate[w] = NoFate
  BY <1>0 DEF Shape
<1>2. \A r \in batch[w] : snap[w][r] <= Bill[lane[w]][r] /\ attempt[lane[w]][r] <= snap[w][r] + 1
  BY DEF Counted, Priced
<1>3. ASSUME pc'[w] \in {"mark", "await", "rebatch"}, batch'[w] = batch[w],
             todo'[w] \subseteq batch[w], fate'[w] = fate[w]
      PROVE  Counted(w)'
  <2>1. lane'[w] = lane[w] /\ snap'[w] = snap[w] /\ attempt' = attempt
    BY DEF Ledger
  <2>2. Priced(w)' /\ Found(w)'
    BY <1>0, <1>2, <1>3, <2>1 DEF Priced, Found, Ledger
  <2>3. Unspent(w)' /\ Answered(w)'
    BY <1>3 DEF Unspent, Answered
  <2>4. Earned(w)'
    BY <1>1, <1>3 DEF Earned, NoFate
  <2> QED BY <2>2, <2>3, <2>4 DEF Counted
<1>4. CASE DeferAll(w)
  BY <1>4, DeferAllCounted
<1>5. CASE \E reason \in {"unfunded", "contention", "other"} : SubmitError(w, reason)
  BY <1>5, ErrorCounted
<1>6. CASE Submit(w)
  <2>1. CASE /\ todo' = [todo EXCEPT ![w] = batch[w]] /\ pc' = [pc EXCEPT ![w] = "mark"]
             /\ UNCHANGED <<batch, fate>>
    BY <1>3, <2>1 DEF WriterTypeOK
  <2>2. CASE /\ Decide(w, FateOn(batch[w], "Retry"), {}, "next")
             /\ blame' = Blamed("lone", lane[w], batch[w])
             /\ todo' = todo
    <3> DEFINE outcome == FateOn(batch[w], "Retry")
    <3>1. \A r \in Rows : outcome[r] = IF r \in batch[w] THEN "Retry" ELSE "none"
      BY DEF FateOn
    <3>2. \A r \in batch[w] : Bill'[lane[w]][r] = Bill[lane[w]][r] + 1
      BY <1>0, <2>2, BillBlamed
    <3>3. /\ fate'[w] = outcome /\ batch'[w] = {} /\ todo'[w] = {} /\ pc'[w] # "settle"
          /\ lane'[w] = lane[w] /\ snap'[w] = snap[w]
      BY <1>1, <2>2 DEF Decide, WriterTypeOK, Ledger
    <3> HIDE DEF outcome
    <3>4. Priced(w)' /\ Found(w)' /\ Unspent(w)' /\ Answered(w)'
      BY <3>3 DEF Priced, Found, Unspent, Answered
    <3>5. Earned(w)'
      BY <1>0, <1>2, <3>1, <3>2, <3>3 DEF Earned, Ledger
    <3> QED BY <3>4, <3>5 DEF Counted
  <2> QED BY <1>4, <1>5, <1>6, <2>1, <2>2 DEF Submit
<1>7. CASE Broadcast(w)
  <2>1. CASE Go(w, "await")
    BY <1>1, <1>3, <2>1 DEF Go, local, WriterTypeOK
  <2> QED BY <1>5, <1>7, <2>1 DEF Broadcast
<1>8. CASE Await(w) /\ Finalized(w) /\ ~SubmitError(w, "other")
  <2>1. PICK res \in [batch[w] -> {"ok", "alreadyRegistered", "deterministic", "other"}] :
          \/ /\ fate' = [fate EXCEPT ![w] =
                          [r \in Rows |-> IF r \in batch[w] THEN res[r] ELSE "none"]]
             /\ pc'   = [pc EXCEPT ![w] = "settle"]
             /\ blame' = Blamed("verdict", lane[w], {r \in batch[w] : res[r] # "ok"})
             /\ UNCHANGED <<batch, todo>>
          \/ Go(w, "rebatch")
    BY <1>8 DEF Finalized
  <2>2. CASE Go(w, "rebatch")
    BY <1>1, <1>3, <2>2 DEF Go, local, WriterTypeOK
  <2>3. CASE ~Go(w, "rebatch")
    <3> DEFINE f == [r \in Rows |-> IF r \in batch[w] THEN res[r] ELSE "none"]
    <3> DEFINE S == {r \in batch[w] : res[r] # "ok"}
    <3>1. fate'[w] = f /\ pc'[w] = "settle" /\ batch'[w] = batch[w] /\ todo'[w] = {}
      BY <1>1, <2>1, <2>3 DEF WriterTypeOK
    <3>2. /\ \A r \in Rows \ batch[w] : f[r] = "none"
          /\ \A r \in batch[w] : f[r] = res[r] /\ f[r] \in {"ok"} \cup Reasons
      BY <1>0 DEF Reasons
    <3>3. blame' = Blamed("verdict", lane[w], S) /\ S \in SUBSET Rows
      BY <1>0, <2>1, <2>3
    <3>4. \A r \in S : Bill'[lane[w]][r] = Bill[lane[w]][r] + 1
      <4> HIDE DEF S
      <4> QED BY <1>0, <3>3, BillBlamed
    <3> HIDE DEF f
    <3>5. \A r \in batch[w] : f[r] \in {"other", "deterministic"}
                              => Bill'[lane[w]][r] >= Bill[lane[w]][r] + 1
      BY <1>0, <3>2, <3>4 DEF Ledger
    <3> QED BY <3>1, <3>2, <3>5, SettleCounted
  <2> QED BY <2>2, <2>3
<1>9. CASE Await(w) /\ ~Finalized(w)
  BY <1>4, <1>5, <1>9 DEF Await, BatchFails, TimesOut, WatchBreaks, RenewalFails
<1> QED BY <1>5, <1>6, <1>7, <1>8, <1>9

\* The mark is the one charge in advance.
LEMMA MarkCounted ==
  ASSUME TypeOK, TypeOK', Custody, NEW w \in Writers, Counted(w), MarkNext(w),
         pc[w] = "mark"
  PROVE  Counted(w)'
<1> USE DEF TypeOK
<1>0. /\ Shape(w) /\ lane[w] \in Lanes /\ batch[w] \subseteq Rows /\ todo[w] \subseteq Rows
      /\ snap[w] \in [Rows -> Nat] /\ attempt \in [Lanes -> [Rows -> Nat]]
      /\ Bill \in [Lanes -> [Rows -> Nat]]
  BY BillType DEF Custody, WriterTypeOK, DbTypeOK
<1>1. PICK s \in todo[w] :
        /\ attempt' = [attempt EXCEPT ![lane[w]][s] = snap[w][s] + 1]
        /\ todo' = [todo EXCEPT ![w] = @ \ {s}]
        /\ pc' = [pc EXCEPT ![w] = IF todo[w] = {s} THEN "broadcast" ELSE "mark"]
  BY DEF MarkNext, First
<1>2. /\ todo'[w] \subseteq todo[w] /\ pc'[w] \in {"broadcast", "mark"}
      /\ batch'[w] = batch[w] /\ fate'[w] = NoFate
      /\ lane'[w] = lane[w] /\ snap'[w] = snap[w] /\ Bill' = Bill
  BY <1>0, <1>1, BillType DEF MarkNext, WriterTypeOK, Shape
<1>3. \A r \in Rows : attempt'[lane[w]][r] \in {attempt[lane[w]][r], snap[w][r] + 1}
  BY <1>0, <1>1
<1>4. Priced(w)'
  <2> SUFFICES ASSUME NEW r \in batch[w]
               PROVE  /\ snap[w][r] <= Bill[lane[w]][r]
                      /\ attempt'[lane[w]][r] <= snap[w][r] + 1
    BY <1>2 DEF Priced
  <2>1. snap[w][r] <= Bill[lane[w]][r] /\ attempt[lane[w]][r] <= snap[w][r] + 1
    BY DEF Counted, Priced
  <2> QED BY <1>0, <1>3, <2>1
<1>5. Found(w)' /\ Unspent(w)' /\ Answered(w)'
  BY <1>2 DEF Counted, Found, Unspent, Answered
<1>6. Earned(w)'
  BY <1>2 DEF Earned, NoFate
<1> QED BY <1>4, <1>5, <1>6 DEF Counted

\* Recording one row leaves the books of the others alone.
LEMMA RecordCounted ==
  ASSUME TypeOK, TypeOK', Custody, NEW w \in Writers, Counted(w), RecordNext(w),
         pc[w] = "record", pc'[w] # "settle"
  PROVE  Counted(w)'
<1> USE DEF TypeOK
<1>0. /\ Shape(w) /\ lane[w] \in Lanes /\ batch[w] \subseteq Rows /\ todo[w] \subseteq Rows
      /\ snap[w] \in [Rows -> Nat] /\ attempt \in [Lanes -> [Rows -> Nat]]
  BY DEF Custody, WriterTypeOK, DbTypeOK
<1>1. PICK s \in Decided(w) :
        /\ RecordOutcome(lane[w], s, snap[w][s], fate[w][s])
        /\ fate' = [fate EXCEPT ![w][s] = "none"]
  BY DEF RecordNext, First
<1>2. /\ s \in Rows /\ batch'[w] = batch[w] /\ todo'[w] = todo[w]
      /\ lane'[w] = lane[w] /\ snap'[w] = snap[w] /\ Bill' = Bill
      /\ s \notin batch[w] \cup todo[w]
  BY <1>0, <1>1, BillType DEF RecordNext, Decided, Shape
<1>3. \A r \in Rows : r # s => attempt'[lane[w]][r] = attempt[lane[w]][r]
  BY <1>0, <1>1, <1>2 DEF RecordOutcome
<1>4. \A r \in Rows : fate'[w][r] = IF r = s THEN "none" ELSE fate[w][r]
  BY <1>1, <1>2 DEF WriterTypeOK
<1>5. Priced(w)' /\ Found(w)'
  BY <1>0, <1>2, <1>3 DEF Counted, Priced, Found
<1>6. Unspent(w)'
  <2>1. \A r \in batch[w] : attempt'[lane[w]][r] <= Bill[lane[w]][r]
    BY <1>0, <1>2, <1>3 DEF Counted, Unspent
  <2> QED BY <1>2, <2>1 DEF Unspent
<1>7. Earned(w)'
  BY <1>2, <1>3, <1>4 DEF Counted, Earned
<1>8. Answered(w)'
  BY DEF Answered
<1> QED BY <1>5, <1>6, <1>7, <1>8 DEF Counted

\* A claim reads attempts that are on the bill.
LEMMA ClaimCounted ==
  ASSUME TypeOK, Custody, NEW w \in Writers, AttemptsAccounted, ClaimSome(w),
         pc[w] = "claim", blame' = blame, attempt' = attempt
  PROVE  Counted(w)'
<1> USE DEF TypeOK
<1>0. /\ Shape(w) /\ lane[w] \in Lanes /\ attempt \in [Lanes -> [Rows -> Nat]]
      /\ todo[w] = {} /\ fate[w] = NoFate /\ Bill' = Bill /\ Bill \in [Lanes -> [Rows -> Nat]]
  BY BillType DEF Custody, WriterTypeOK, DbTypeOK, Shape
<1>1. PICK claimed \in SUBSET Due(lane[w]) :
        /\ batch' = [batch EXCEPT ![w] = claimed]
        /\ snap'  = [snap EXCEPT ![w] =
                       [r \in Rows |-> IF r \in claimed THEN attempt[lane[w]][r] ELSE 0]]
  BY DEF ClaimSome, Earliest
<1>2. /\ batch'[w] = claimed /\ todo'[w] = {} /\ fate'[w] = NoFate /\ lane'[w] = lane[w]
      /\ pc'[w] = "hold"
      /\ \A r \in claimed : r \in Rows /\ snap'[w][r] = attempt[lane[w]][r]
  BY <1>0, <1>1 DEF ClaimSome, WriterTypeOK, Due
<1>3. \A r \in claimed : attempt[lane[w]][r] <= Bill[lane[w]][r]
  <2> SUFFICES ASSUME NEW r \in claimed PROVE attempt[lane[w]][r] <= Bill[lane[w]][r]
    OBVIOUS
  <2>1. r \in Rows /\ status[lane[w]][r] \notin {"SUBMITTING", Done(lane[w])}
    BY <1>0, <1>1 DEF Due, Fresh, Done
  <2> QED BY <1>0, <2>1, Accounted
<1>4. Priced(w)' /\ Found(w)'
  BY <1>0, <1>2, <1>3 DEF Priced, Found
<1>5. Unspent(w)' /\ Answered(w)' /\ Earned(w)'
  BY <1>0, <1>2, <1>3 DEF Unspent, Answered, Earned, NoFate
<1> QED BY <1>4, <1>5 DEF Counted

\* A successor bills what it found SUBMITTING and unlanded twice: for the mark it
\* may have read, and for the retry it records.
LEMMA ReconcileCounted ==
  ASSUME TypeOK, Custody, AttemptsAccounted, Next, NEW w \in Writers, Counted(w),
         Reconcile(w) \/ ReconOwners(w)
  PROVE  Counted(w)'
<1> USE DEF TypeOK
<1>0. /\ Shape(w) /\ lane[w] \in Lanes /\ attempt \in [Lanes -> [Rows -> Nat]]
      /\ batch[w] = {} /\ fate[w] = NoFate /\ Bill \in [Lanes -> [Rows -> Nat]]
      /\ snap[w] \in [Rows -> Nat] /\ todo[w] \subseteq Rows /\ attempt' = attempt
  BY BillType DEF Custody, WriterTypeOK, DbTypeOK, Shape, Reconcile, ReconOwners, db
<1>1. CASE ReconcileNext(w)
  <2>1. batch'[w] = {} /\ todo'[w] = {} /\ fate'[w] = NoFate
    BY <1>0, <1>1 DEF ReconcileNext, WriterTypeOK
  <2> QED BY <2>1, IdleCounted
<1>2. CASE Reconcile(w) /\ ~ReconcileNext(w)
  <2> DEFINE stuck == {r \in Rows : status[lane[w]][r] = "SUBMITTING"}
  <2>1. /\ todo' = [todo EXCEPT ![w] = stuck]
        /\ snap' = [snap EXCEPT ![w] = [r \in Rows |-> IF r \in stuck THEN attempt[lane[w]][r] ELSE 0]]
        /\ pc'   = [pc EXCEPT ![w] = "reconOwners"]
        /\ UNCHANGED <<lane, batch, fate, blame>>
    BY <1>2 DEF Reconcile
  <2>2. /\ todo'[w] = stuck /\ batch'[w] = {} /\ fate'[w] = NoFate /\ pc'[w] = "reconOwners"
        /\ lane'[w] = lane[w] /\ Bill' = Bill
        /\ \A r \in stuck : snap'[w][r] = attempt[lane[w]][r]
    BY <1>0, <2>1, BillType DEF WriterTypeOK
  <2>3. Found(w)'
    <3>1. \A r \in stuck : attempt[lane[w]][r] <= Bill[lane[w]][r] + 1
      BY <1>0, Accounted
    <3> HIDE DEF stuck
    <3> QED BY <2>2, <3>1 DEF Found
  <2> QED BY <2>2, <2>3 DEF Counted, Priced, Unspent, Earned, Answered, NoFate
<1>3. CASE ReadChunk(w)
  <2> DEFINE chunk == Earliest(todo[w], ReconcileChunk)
  <2> DEFINE S == {r \in chunk : owner[lane[w]][r] # "candidate"}
  <2> DEFINE outcome == [r \in Rows |-> IF r \notin chunk THEN "none"
                            ELSE IF owner[lane[w]][r] = "candidate" THEN "Observed" ELSE "Retry"]
  <2>1. /\ Decide(w, outcome, {}, "reconOwners")
        /\ todo' = [todo EXCEPT ![w] = @ \ chunk]
        /\ blame' = Blamed("interrupted", lane[w], S)
        /\ UNCHANGED <<lane, snap>>
    BY <1>3 DEF ReadChunk
  <2>2. chunk \subseteq todo[w] /\ S \in SUBSET Rows /\ "interrupted" \in Causes
    BY <1>0 DEF Earliest, Causes
  <2>3. \A r \in Rows : outcome[r] \in {"none", "Observed", "Retry"} /\ (outcome[r] = "Retry" => r \in S)
    OBVIOUS
  <2>4. S \subseteq chunk
    OBVIOUS
  <2> HIDE DEF outcome, S, chunk
  <2>5. /\ fate'[w] = outcome /\ batch'[w] = {} /\ todo'[w] = todo[w] \ chunk
        /\ pc'[w] # "settle" /\ lane'[w] = lane[w] /\ snap'[w] = snap[w]
    BY <2>1 DEF Decide, WriterTypeOK
  <2>6. \A r \in Rows : Bill'[lane[w]][r] = IF r \in S THEN Bill[lane[w]][r] + 2 ELSE Bill[lane[w]][r]
    BY <1>0, <2>1, <2>2, BillBlamed
  <2>7. \A r \in todo[w] : snap[w][r] <= Bill[lane[w]][r] + 1
    BY DEF Counted, Found
  <2>8. Found(w)'
    BY <1>0, <2>5, <2>6, <2>7 DEF Found
  <2>9. Earned(w)'
    BY <1>0, <2>2, <2>3, <2>4, <2>5, <2>6, <2>7 DEF Earned
  <2>10. Priced(w)' /\ Unspent(w)' /\ Answered(w)'
    BY <2>5 DEF Priced, Unspent, Answered
  <2> QED BY <2>8, <2>9, <2>10 DEF Counted
<1>4. CASE SkipChunk(w)
  <2>1. /\ todo'[w] \subseteq todo[w] /\ batch'[w] = {} /\ fate'[w] = NoFate
        /\ lane'[w] = lane[w] /\ snap'[w] = snap[w] /\ Bill' = Bill
    BY <1>0, <1>4, BillType DEF SkipChunk, WriterTypeOK
  <2> QED BY <2>1 DEF Counted, Priced, Found, Unspent, Earned, Answered, NoFate
<1> QED BY <1>1, <1>2, <1>3, <1>4 DEF ReconOwners

\* The newest writer keeps its books.
LEMMA WorkCounted ==
  ASSUME TypeOK, TypeOK', Custody, Next, AttemptsAccounted, NEW w \in Writers, Counted(w),
         pc[w] # "acquire", pc'[w] # "acquire", WriterStep(w) \/ Abandon(w)
  PROVE  Counted(w)'
<1> USE DEF TypeOK
<1>0. /\ Shape(w) /\ lane[w] \in Lanes /\ WriterStep(w) /\ ~TryAcquire(w) /\ ~Forget(w)
  BY DEF Custody, WriterTypeOK, TryAcquire, Abandon, Forget
<1>1. ASSUME lane' = lane, snap' = snap, attempt' = attempt
      PROVE  Ledger(w)
  <2>1. \A r \in Rows : /\ Bill[lane[w]][r] \in Nat /\ Bill'[lane[w]][r] \in Nat
                        /\ Bill[lane[w]][r] <= Bill'[lane[w]][r]
    BY <1>0, BillGrows
  <2> QED BY <1>0, <1>1, <2>1 DEF Ledger, WriterTypeOK, DbTypeOK
<1>2. CASE Heartbeat(w) \/ EndPass(w) \/ (Claim(w) /\ NextPass(w))
  <2>1. batch[w] = {} /\ todo[w] = {} /\ fate[w] = NoFate
    BY <1>0, <1>2 DEF Shape, Heartbeat, EndPass, Claim
  <2>2. batch'[w] = {} /\ todo'[w] = {} /\ fate'[w] = NoFate
    BY <1>0, <1>2, <2>1 DEF Heartbeat, LeaseLost, local, EndPass, NextPass, WriterTypeOK
  <2> QED BY <2>2, IdleCounted
<1>3. CASE Reconcile(w) \/ ReconOwners(w)
  BY <1>3, ReconcileCounted
<1>4. CASE Claim(w) /\ ~NextPass(w)
  BY <1>4, ClaimCounted DEF Claim, db
<1>5. CASE Hold(w)
  <2>1. /\ pc[w] = "hold" /\ pc'[w] = "triage" /\ attempt' = attempt /\ UNCHANGED <<lane, local>>
    BY <1>0, <1>5 DEF Hold, LeaseLost, Go, WriterTypeOK, db
  <2>2. \A r \in Rows : /\ Bill[lane[w]][r] \in Nat /\ Bill'[lane[w]][r] \in Nat
                        /\ Bill[lane[w]][r] <= Bill'[lane[w]][r]
    BY <1>0, BillGrows
  <2> QED BY <2>1, <2>2, KeptCounted DEF local
<1>6. CASE Triage(w) \/ Owners(w)
  <2>1. lane' = lane /\ snap' = snap /\ attempt' = attempt
    BY <1>6 DEF Triage, Owners, DeferAll, db
  <2> QED BY <1>1, <1>6, <2>1, TriageCounted
<1>7. CASE Settle(w) \/ Rebatch(w)
  <2>1. lane' = lane /\ snap' = snap /\ attempt' = attempt
    BY <1>7 DEF Settle, Rebatch, DeferAll, db
  <2> QED BY <1>1, <1>7, <2>1, SettledCounted
<1>8. \A reason : SubmitError(w, reason) => lane' = lane /\ snap' = snap
  BY DEF SubmitError, DeferAll
<1>9. CASE Submit(w) \/ Broadcast(w) \/ Await(w)
  <2>1. lane' = lane /\ snap' = snap
    BY <1>0, <1>8, <1>9 DEF Submit, Broadcast, Await, Finalized, BatchFails, TimesOut, WatchBreaks,
                            RenewalFails, DeferAll, Go, local
  <2>2. attempt' = attempt
    BY <1>9 DEF Submit, Broadcast, Await, db
  <2> QED BY <1>0, <1>1, <1>9, <2>1, <2>2, SubmitCounted
<1>10. CASE Mark(w)
  <2>1. CASE MarkNext(w)
    BY <1>10, <2>1, MarkCounted DEF Mark
  <2>2. CASE MarkErrs(w)
    <3>1. SubmitError(w, "other") /\ attempt' = attempt
      BY <2>2 DEF MarkErrs, db
    <3> QED BY <1>1, <1>8, <3>1, ErrorCounted
  <2> QED BY <1>0, <1>10, <2>1, <2>2 DEF Mark, LeaseLost
<1>11. CASE Record(w)
  <2>1. CASE RecordNext(w)
    <3>1. pc[w] = "record" /\ pc'[w] # "settle"
      BY <1>11, <2>1 DEF Record, RecordNext, WriterTypeOK
    <3> QED BY <2>1, <3>1, RecordCounted
  <2>2. CASE ReconcileErrs(w)
    <3>1. batch'[w] = {} /\ todo'[w] = {} /\ fate'[w] = NoFate
      BY <1>0, <1>11, <2>2 DEF Record, ReconcileErrs, Shape, WriterTypeOK
    <3> QED BY <3>1, IdleCounted
  <2> QED BY <1>0, <1>11, <2>1, <2>2 DEF Record, LeaseLost
<1> QED BY <1>0, <1>2, <1>3, <1>4, <1>5, <1>6, <1>7, <1>9, <1>10, <1>11 DEF WriterStep

\* Only a record or a mark changes an attempt.
LEMMA AttemptByWriter ==
  ASSUME NEW w \in Writers, WriterStep(w) \/ Abandon(w), attempt' # attempt
  PROVE  (pc[w] = "record" /\ RecordNext(w)) \/ (pc[w] = "mark" /\ MarkNext(w))
<1>1. ~(TryAcquire(w) \/ Heartbeat(w) \/ Hold(w) \/ Abandon(w) \/ Reconcile(w)
        \/ ReconOwners(w) \/ Claim(w) \/ EndPass(w))
  BY DEF TryAcquire, Heartbeat, Hold, Abandon, LeaseLost, Reconcile, ReconOwners, Claim,
         EndPass, db
<1>2. ~(Triage(w) \/ Owners(w) \/ Settle(w) \/ Rebatch(w) \/ Submit(w) \/ Broadcast(w)
        \/ Await(w))
  BY DEF Triage, Owners, Settle, Rebatch, Submit, Broadcast, Await, db
<1> QED BY <1>1, <1>2 DEF WriterStep, Mark, MarkErrs, Record, ReconcileErrs, LeaseLost, db

\* Every step keeps the books of the newest writer: the others are fenced off, and
\* one that becomes the newest starts with empty hands.
LEMMA StepCounted ==
  ASSUME TypeOK, TypeOK', Custody, AttemptsAccounted, [Next]_vars, NEW w \in Writers,
         Newest(w) => Counted(w), Newest(w)'
  PROVE  Counted(w)'
<1> USE DEF TypeOK
<1>0. lane[w] \in Lanes /\ pc'[w] # "acquire" /\ epoch'[w] = lease'.epoch
  BY DEF WriterTypeOK, Newest
<1>1. \A r \in Rows : /\ Bill[lane[w]][r] \in Nat /\ Bill'[lane[w]][r] \in Nat
                      /\ Bill[lane[w]][r] <= Bill'[lane[w]][r]
  BY <1>0, BillGrows
<1>2. ASSUME UNCHANGED writer, lease'.epoch = lease.epoch, attempt' = attempt
      PROVE  Counted(w)'
  <2>1. Counted(w)
    BY <1>0, <1>2 DEF Newest, writer
  <2> QED BY <1>1, <1>2, <2>1, KeptCounted DEF writer, local
<1>3. CASE UNCHANGED vars
  BY <1>2, <1>3 DEF vars, db
<1>4. ASSUME NEW v \in Writers, WriterStep(v) \/ Abandon(v), v # w
      PROVE  Counted(w)'
  <2>1. Untouched(w) /\ pc[w] # "acquire" /\ epoch[w] = lease.epoch /\ ~LeaseHeld(v)
    BY <1>0, <1>4, OthersFenced
  <2>2. attempt' = attempt
    BY <1>4, <2>1, AttemptByWriter DEF RecordNext, MarkNext
  <2>3. Counted(w)
    BY <2>1 DEF Newest
  <2>4. /\ lane'[w] = lane[w] /\ batch'[w] = batch[w] /\ snap'[w] = snap[w] /\ todo'[w] = todo[w]
        /\ fate'[w] = fate[w] /\ pc'[w] = pc[w]
    BY <2>1 DEF Untouched
  <2> QED BY <1>1, <2>2, <2>3, <2>4, KeptCounted
<1>5. CASE (WriterStep(w) \/ Abandon(w)) /\ Next
  <2>1. CASE TryAcquire(w)
    <3>1. batch[w] = {} /\ todo[w] = {} /\ fate[w] = NoFate
      BY <2>1 DEF TryAcquire, Custody, Shape
    <3>2. batch'[w] = {} /\ todo'[w] = {} /\ fate'[w] = NoFate
      BY <2>1, <3>1 DEF TryAcquire, local
    <3> QED BY <3>2, IdleCounted
  <2>2. CASE ~TryAcquire(w)
    <3>1. lease' = lease /\ epoch' = epoch /\ pc[w] # "acquire"
      BY <1>5, <2>2, EpochStep
    <3> QED BY <1>0, <1>5, <3>1, WorkCounted DEF Newest
  <2> QED BY <2>1, <2>2
<1>6. CASE Next /\ \A v \in Writers : ~WriterStep(v) /\ ~Abandon(v)
  <2>1. UNCHANGED writer /\ lease'.epoch = lease.epoch
    BY <1>6, OutsideStep
  <2>2. attempt' = attempt
    BY <1>6 DEF Next, Reserve, Promote, BackoffElapses, LeavesPool, TakenByOther, LeaseExpires, db
  <2> QED BY <1>2, <2>1, <2>2
<1> QED BY <1>3, <1>4, <1>5, <1>6

\* What is recorded for a row is on its bill.
LEMMA OutcomeCounted ==
  ASSUME TypeOK, Custody, AttemptsAccounted, NEW w \in Writers, Counted(w),
         pc[w] = "record", RecordNext(w), NEW l \in Lanes, NEW r \in Rows
  PROVE  attempt'[l][r] <= Bill[l][r] + (IF status'[l][r] \in {"SUBMITTING", Done(l)} THEN 1 ELSE 0)
<1> USE DEF TypeOK
<1>0. /\ lane[w] \in Lanes /\ snap[w] \in [Rows -> Nat] /\ attempt \in [Lanes -> [Rows -> Nat]]
      /\ Bill \in [Lanes -> [Rows -> Nat]]
  BY BillType DEF WriterTypeOK, DbTypeOK
<1>1. PICK s \in Decided(w) : RecordOutcome(lane[w], s, snap[w][s], fate[w][s])
  BY DEF RecordNext, First
<1>2. s \in Rows
  BY DEF Decided
<1>3. attempt[l][r] <= Bill[l][r] + (IF status[l][r] \in {"SUBMITTING", Done(l)} THEN 1 ELSE 0)
  BY Accounted
<1>4. CASE l = lane[w] /\ r = s
  <2>1. CASE fate[w][s] \in {"Landed", "Observed"}
    <3>1. status'[l][r] = Done(l) /\ attempt' = attempt
      BY <1>0, <1>1, <1>2, <1>4, <2>1 DEF RecordOutcome, SetStatus, Done, DbTypeOK, Lanes
    <3> QED BY <1>0, <1>3, <3>1
  <2>2. CASE fate[w][s] \in {"Retry", "Park", "Defer"}
    <3>1. attempt'[l][r] = AttemptAfter(snap[w][s], fate[w][s])
      BY <1>0, <1>1, <1>2, <1>4, <2>2 DEF RecordOutcome
    <3>2. AttemptAfter(snap[w][s], fate[w][s]) <= Bill[l][s]
      BY <1>0, <1>2, <1>4, <2>2 DEF Counted, Earned, AttemptAfter
    <3>3. AttemptAfter(snap[w][s], fate[w][s]) \in Nat
      BY <1>0, <1>2 DEF AttemptAfter
    <3> QED BY <1>0, <1>4, <3>1, <3>2, <3>3
  <2>3. CASE fate[w][s] \in {"Failed", "Expired"}
    <3>1. attempt' = attempt
      BY <1>1, <2>3 DEF RecordOutcome
    <3>2. attempt[l][r] <= Bill[l][r]
      BY <1>2, <1>4, <2>3 DEF Counted, Earned
    <3> QED BY <1>0, <3>1, <3>2
  <2> QED BY <1>1, <2>1, <2>2, <2>3 DEF RecordOutcome
<1>5. CASE ~(l = lane[w] /\ r = s)
  <2>1. attempt'[l][r] = attempt[l][r]
    BY <1>0, <1>1, <1>2, <1>5 DEF RecordOutcome
  <2>2. status'[l][r] = status[l][r] \/ status[l][r] \notin {"SUBMITTING", Done(l)}
    <3>1. CASE status'[l][r] # status[l][r]
      <4>1. l = "dotns" /\ status[l][r] \in {"PENDING", "RETRY_AFTER"}
        BY <1>0, <1>1, <1>2, <1>5, <3>1, RecordOutcomeStatus
      <4> QED BY <4>1 DEF Done
    <3> QED BY <3>1
  <2> QED BY <1>0, <1>3, <2>1, <2>2
<1> QED BY <1>4, <1>5

\* Every step keeps every row's attempts accounted for.
LEMMA StepAccounted ==
  ASSUME TypeOK, TypeOK', Custody, AttemptsAccounted, [Next]_vars,
         \A w \in Writers : Nested(w) /\ (Newest(w) => Counted(w))
  PROVE  AttemptsAccounted'
<1> USE DEF TypeOK
<1> SUFFICES ASSUME NEW l \in Lanes, NEW r \in Rows
             PROVE  attempt'[l][r] <= Bill'[l][r]
                       + (IF status'[l][r] \in {"SUBMITTING", Done(l)} THEN 1 ELSE 0)
  BY DEF AttemptsAccounted, Bill, Done
<1>0. /\ Bill[l][r] \in Nat /\ Bill'[l][r] \in Nat /\ Bill[l][r] <= Bill'[l][r]
      /\ attempt[l][r] \in Nat /\ attempt'[l][r] \in Nat
  BY BillGrows DEF DbTypeOK
<1>1. SUFFICES attempt'[l][r] <= Bill[l][r]
                  + (IF status'[l][r] \in {"SUBMITTING", Done(l)} THEN 1 ELSE 0)
  BY <1>0
<1>2. attempt[l][r] <= Bill[l][r] + (IF status[l][r] \in {"SUBMITTING", Done(l)} THEN 1 ELSE 0)
  BY Accounted
<1>3. CASE status' = status /\ attempt' = attempt
  BY <1>2, <1>3
<1>4. ASSUME NEW w \in Writers, WriterStep(w) \/ Abandon(w), ~(status' = status /\ attempt' = attempt)
      PROVE  attempt'[l][r] <= Bill[l][r]
                + (IF status'[l][r] \in {"SUBMITTING", Done(l)} THEN 1 ELSE 0)
  <2>1. (pc[w] = "record" /\ RecordNext(w)) \/ (pc[w] = "mark" /\ MarkNext(w))
    BY <1>4, StatusByWriter, AttemptByWriter
  <2>2. Counted(w)
    BY <2>1 DEF RecordNext, MarkNext, LeaseHeld, Newest
  <2>3. CASE pc[w] = "record" /\ RecordNext(w)
    BY <2>2, <2>3, OutcomeCounted
  <2>4. CASE pc[w] = "mark" /\ MarkNext(w)
    <3>1. PICK s \in todo[w] : /\ status' = [status EXCEPT ![lane[w]][s] = "SUBMITTING"]
                               /\ attempt' = [attempt EXCEPT ![lane[w]][s] = snap[w][s] + 1]
      BY <2>4 DEF MarkNext, First
    <3>2. s \in Rows /\ lane[w] \in Lanes
      BY DEF WriterTypeOK
    <3>3. CASE l = lane[w] /\ r = s
      <4>1. s \in batch[w]
        BY <2>4 DEF Nested
      <4>2. snap[w][s] <= Bill[l][r] /\ snap[w][s] \in Nat
        BY <2>2, <3>2, <3>3, <4>1 DEF Counted, Priced, WriterTypeOK
      <4>3. status'[l][r] = "SUBMITTING" /\ attempt'[l][r] = snap[w][s] + 1
        BY <3>1, <3>2, <3>3 DEF DbTypeOK
      <4> QED BY <1>0, <4>2, <4>3
    <3>4. CASE ~(l = lane[w] /\ r = s)
      <4>1. status'[l][r] = status[l][r] /\ attempt'[l][r] = attempt[l][r]
        BY <3>1, <3>2, <3>4 DEF DbTypeOK
      <4> QED BY <1>2, <4>1
    <3> QED BY <3>3, <3>4
  <2> QED BY <2>1, <2>3, <2>4
<1>5. CASE Next /\ \A v \in Writers : ~WriterStep(v) /\ ~Abandon(v)
  <2>1. attempt' = attempt
    BY <1>5 DEF Next, Reserve, Promote, BackoffElapses, LeavesPool, TakenByOther, LeaseExpires, db
  <2>2. status[l][r] \in {"SUBMITTING", Done(l)} => status'[l][r] = status[l][r]
    <3>1. status[l][r] = "SUBMITTING" => status'[l][r] = "SUBMITTING"
      BY <1>5, OutsideMarks
    <3>2. status[l][r] = Done(l) => status[l][r] \in Terminal(l)
      BY DEF Done, Terminal, Lanes
    <3> QED BY <1>5, <3>1, <3>2, TerminalStep
  <2> QED BY <1>0, <1>2, <2>1, <2>2
<1>6. CASE UNCHANGED vars
  BY <1>3, <1>6 DEF vars, db
<1> QED BY <1>3, <1>4, <1>5, <1>6

\* Every attempt a row is charged is accounted for: by an answer of the chain about
\* its own call, by a submission of the row alone that failed unanswered, or by an
\* interrupted submission that a successor found.  For any writers, sharing a
\* holder id or not, any batches, and any of the faults, in any number: being
\* deferred with a batch, half marked or fully, costs a row nothing.
THEOREM AttemptsPaidFor == Spec => []AttemptsAccounted
<1> DEFINE Books == /\ AttemptsAccounted
                    /\ \A w \in Writers : Nested(w) /\ (Newest(w) => Counted(w))
<1>1. Init => Books
  <2> SUFFICES ASSUME Init PROVE Books
    OBVIOUS
  <2>1. AttemptsAccounted
    BY DEF Init, AttemptsAccounted, Charges, Causes
  <2>2. ASSUME NEW w \in Writers PROVE Nested(w) /\ ~Newest(w)
    BY DEF Init, Nested, Newest, Decided, NoFate
  <2> QED BY <2>1, <2>2
<1>2. TypeOK /\ TypeOK' /\ Custody /\ Books /\ [Next]_vars => Books'
  <2> SUFFICES ASSUME TypeOK, TypeOK', Custody, Books, [Next]_vars PROVE Books'
    OBVIOUS
  <2>1. AttemptsAccounted'
    BY StepAccounted
  <2>2. ASSUME NEW w \in Writers PROVE (Newest(w) => Counted(w))'
    BY StepCounted
  <2>3. ASSUME NEW w \in Writers PROVE Nested(w)'
    <3>1. Nested(w)
      OBVIOUS
    <3>2. CASE UNCHANGED writer
      BY <3>1, <3>2 DEF writer, local, Nested, Decided
    <3>3. CASE WriterStep(w) \/ Abandon(w)
      BY <3>1, <3>3, StepNested
    <3>4. ASSUME NEW v \in Writers, WriterStep(v) \/ Abandon(v), v # w PROVE Nested(w)'
      BY <3>1, <3>4, OthersUntouched DEF Untouched, Nested, Decided
    <3> QED BY <3>2, <3>3, <3>4, OutsideStep DEF vars
  <2> QED BY <2>1, <2>2, <2>3
<1>3. Books => AttemptsAccounted
  OBVIOUS
<1> HIDE DEF Books
<1> QED BY <1>1, <1>2, <1>3, TypeCorrect, CustodyHolds, PTL DEF Spec
================================================================================

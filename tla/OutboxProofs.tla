----------------------------- MODULE OutboxProofs -----------------------------
(***************************************************************************)
(* More about the outbox of ChainWriter, from the facts ChainWriterProofs  *)
(* establishes: the devices behind the rows, the two halves of a row, and  *)
(* the step-by-step proof that the writers implement Reservation.          *)
(***************************************************************************)
EXTENDS ChainWriterProofs

--------------------------------------------------------------------------------
(* Which steps change a row.                                               *)

\* A writer changes the rows or the devices only by recording the outcome of a
\* row that still waits for one, or by marking such a row; the chain rests.
LEMMA RowStep ==
  ASSUME TypeOK, Custody, NEW w \in Writers, WriterStep(w) \/ Abandon(w),
         status' # status \/ device' # device
  PROVE  /\ UNCHANGED chain /\ lane[w] \in Lanes
         /\ \E r \in Rows :
              /\ r \in InHand(w)
              /\ status[lane[w]][r] \in Waiting(lane[w])
              /\ \/ /\ fate[w][r] # "none"
                    /\ RecordOutcome(lane[w], r, snap[w][r], fate[w][r])
                 \/ /\ status' = [status EXCEPT ![lane[w]][r] = "SUBMITTING"]
                    /\ UNCHANGED device
<1> USE DEF TypeOK
<1>1. /\ LeaseHeld(w)
      /\ \/ pc[w] = "record" /\ RecordNext(w)
         \/ pc[w] = "mark" /\ MarkNext(w)
  <2>1. CASE status' # status
    BY <2>1, StatusByWriter
  <2>2. CASE device' # device
    <3>1. CASE TryAcquire(w) \/ Heartbeat(w) \/ Hold(w) \/ Abandon(w)
      BY <2>2, <3>1 DEF TryAcquire, Heartbeat, Hold, Abandon, LeaseLost, db
    <3>2. CASE Reconcile(w) \/ ReconOwners(w) \/ Claim(w) \/ EndPass(w)
      BY <2>2, <3>2 DEF Reconcile, ReconOwners, Claim, EndPass, db
    <3>3. CASE Triage(w) \/ Owners(w) \/ Settle(w) \/ Rebatch(w)
      BY <2>2, <3>3 DEF Triage, Owners, Settle, Rebatch, db
    <3>4. CASE Submit(w) \/ Broadcast(w) \/ Await(w)
      BY <2>2, <3>4 DEF Submit, Broadcast, Await, db
    <3>5. CASE Mark(w) \/ Record(w)
      BY <2>2, <3>5 DEF Mark, MarkNext, MarkErrs, Record, RecordNext, ReconcileErrs, LeaseLost, db
    <3> QED BY <3>1, <3>2, <3>3, <3>4, <3>5 DEF WriterStep
  <2> QED BY <2>1, <2>2
<1>2. Shape(w) /\ Fenced(w) /\ lane[w] \in Lanes
  BY DEF Custody, WriterTypeOK
<1>3. ASSUME NEW r \in InHand(w)
      PROVE  r \in Rows /\ status[lane[w]][r] \in Waiting(lane[w])
  BY <1>1, <1>2 DEF Fenced, LeaseHeld, InHand, Decided, WriterTypeOK
<1>4. UNCHANGED chain
  BY <1>1 DEF RecordNext, MarkNext
<1>5. CASE pc[w] = "record" /\ RecordNext(w)
  <2>1. PICK r \in Decided(w) : RecordOutcome(lane[w], r, snap[w][r], fate[w][r])
    BY <1>2, <1>5, RecordNextHand
  <2>2. r \in InHand(w) /\ fate[w][r] # "none"
    BY <2>1 DEF InHand, Decided
  <2> QED BY <1>2, <1>3, <1>4, <2>1, <2>2
<1>6. CASE pc[w] = "mark" /\ MarkNext(w)
  <2>1. PICK r \in todo[w] : status' = [status EXCEPT ![lane[w]][r] = "SUBMITTING"]
    BY <1>2, <1>6, MarkNextHand
  <2>2. r \in InHand(w) /\ UNCHANGED device
    BY <1>6, <2>1 DEF InHand, MarkNext
  <2> QED BY <1>2, <1>3, <1>4, <2>1, <2>2
<1> QED BY <1>1, <1>5, <1>6

--------------------------------------------------------------------------------
(* The devices behind the rows.                                            *)

\* The device record of one row agrees with the row.
Backed(r) ==
    /\ status["people"][r] \in {"QUEUED", "RESERVED", "SUBMITTING", "RETRY_AFTER"}
       => device[Device[r]] = [state |-> "PENDING", row |-> r]
    /\ status["people"][r] = "ASSIGNED" => device[Device[r]].state = "CONSUMED"
    /\ status["people"][r] = "FAILED_TERMINAL" => device[Device[r]].row # r

\* That is what DeviceAccounting says of every row that has a device.
LEMMA DeviceRows == DeviceAccounting <=> \A r \in Rows : Device[r] # NoDevice => Backed(r)
BY DEF DeviceAccounting, Backed

\* A row's device is a device.
LEMMA DeviceIn == ASSUME NEW r \in Rows, Device[r] # NoDevice PROVE Device[r] \in Devices
BY DEF Devices

\* Recording an outcome settles the device together with its row, and no other:
\* a second claim of the device cannot be open, nor assigned, meanwhile.
LEMMA OutcomeDevices ==
  ASSUME DbTypeOK, NEW l \in Lanes, NEW r \in Rows, NEW a, NEW o,
         status[l][r] \in Waiting(l), RecordOutcome(l, r, a, o),
         NEW s \in Rows, Device[s] # NoDevice, Backed(s), Device[r] # NoDevice => Backed(r)
  PROVE  Backed(s)'
<1>0. Device[s] \in Devices /\ 0 \notin Rows
  BY DeviceIn, RowsAssumption
<1>1. CASE l = "dotns"
  <2>1. status'["people"] = status["people"]
    BY <1>1 DEF RecordOutcome, SetStatus, DbTypeOK, Lanes
  <2>2. device'[Device[s]] = device[Device[s]]
    BY <1>0, <1>1 DEF RecordOutcome, SetDevice
  <2> QED BY <2>1, <2>2 DEF Backed
<1>2. CASE l = "people"
  <2>1. status["people"][r] \in {"RESERVED", "SUBMITTING", "RETRY_AFTER"}
    BY <1>2 DEF Waiting, Fresh
  <2>2. ASSUME NEW st \in {"ASSIGNED", "RETRY_AFTER", "FAILED_TERMINAL"},
               SetStatus("people", r, st)
        PROVE  /\ status'["people"][r] = st
               /\ s # r => status'["people"][s] = status["people"][s]
    BY <2>2 DEF SetStatus, DbTypeOK, Lanes
  <2>3. ASSUME NEW ds, SetDevice("people", r, ds)
        PROVE  device'[Device[s]] = IF device[Device[s]] = [state |-> "PENDING", row |-> r]
                                    THEN [state |-> ds, row |-> 0] ELSE device[Device[s]]
    BY <1>0, <2>3 DEF SetDevice
  <2>4. s = r => device[Device[s]] = [state |-> "PENDING", row |-> r]
    BY <2>1 DEF Backed
  <2>5. s # r /\ device[Device[s]] = [state |-> "PENDING", row |-> r]
        => status["people"][s] \notin {"QUEUED", "RESERVED", "SUBMITTING", "RETRY_AFTER", "ASSIGNED"}
    BY DEF Backed
  <2>6. CASE o \in {"Landed", "Observed"}
    <3>1. SetStatus("people", r, "ASSIGNED") /\ SetDevice("people", r, "CONSUMED")
      BY <1>2, <2>6 DEF RecordOutcome, Done
    <3>2. /\ status'["people"][r] = "ASSIGNED"
          /\ s # r => status'["people"][s] = status["people"][s]
      BY <2>2, <3>1
    <3>3. CASE device[Device[s]] = [state |-> "PENDING", row |-> r]
      <4>1. device'[Device[s]] = [state |-> "CONSUMED", row |-> 0]
        BY <2>3, <3>1, <3>3
      <4> QED BY <1>0, <2>5, <3>2, <3>3, <4>1 DEF Backed
    <3>4. CASE device[Device[s]] # [state |-> "PENDING", row |-> r]
      <4>1. s # r /\ device'[Device[s]] = device[Device[s]]
        BY <2>3, <2>4, <3>1, <3>4
      <4> QED BY <3>2, <4>1 DEF Backed
    <3> QED BY <3>3, <3>4
  <2>7. CASE o \in {"Retry", "Park", "Defer"}
    <3>1. SetStatus("people", r, "RETRY_AFTER") /\ device' = device
      BY <1>2, <2>7 DEF RecordOutcome
    <3>2. /\ status'["people"][r] = "RETRY_AFTER"
          /\ s # r => status'["people"][s] = status["people"][s]
      BY <2>2, <3>1
    <3> QED BY <2>4, <3>1, <3>2 DEF Backed
  <2>8. CASE o \in {"Failed", "Expired"}
    <3>1. SetStatus("people", r, "FAILED_TERMINAL") /\ SetDevice("people", r, "FREE")
      BY <1>2, <2>8 DEF RecordOutcome
    <3>2. /\ status'["people"][r] = "FAILED_TERMINAL"
          /\ s # r => status'["people"][s] = status["people"][s]
      BY <2>2, <3>1
    <3>3. CASE device[Device[s]] = [state |-> "PENDING", row |-> r]
      <4>1. device'[Device[s]] = [state |-> "FREE", row |-> 0]
        BY <2>3, <3>1, <3>3
      <4> QED BY <1>0, <2>5, <3>2, <3>3, <4>1 DEF Backed
    <3>4. CASE device[Device[s]] # [state |-> "PENDING", row |-> r]
      <4>1. s # r /\ device'[Device[s]] = device[Device[s]]
        BY <2>3, <2>4, <3>1, <3>4
      <4> QED BY <3>2, <4>1 DEF Backed
    <3> QED BY <3>3, <3>4
  <2> QED BY <2>6, <2>7, <2>8 DEF RecordOutcome
<1> QED BY <1>1, <1>2 DEF Lanes

\* An accepted claim takes a free device.
LEMMA ReserveDevices ==
  ASSUME DbTypeOK, NEW r \in Rows, Reserve(r), NEW s \in Rows, Device[s] # NoDevice, Backed(s)
  PROVE  Backed(s)'
<1>1. Device[s] \in Devices
  BY DeviceIn
<1>2. PICK q \in {"QUEUED", "RESERVED"}, t \in {"PENDING", "NULL"} :
        status' = [status EXCEPT !["people"][r] = q, !["dotns"][r] = t]
  BY DEF Reserve
<1>3. /\ status'["people"][r] = q
      /\ s # r => status'["people"][s] = status["people"][s]
  BY <1>2 DEF DbTypeOK, Lanes
<1>4. device'[Device[s]] = IF Device[s] = Device[r] THEN [state |-> "PENDING", row |-> r]
                                                    ELSE device[Device[s]]
  BY <1>1 DEF Reserve
<1>5. Device[s] = Device[r] => device[Device[s]].state = "FREE"
  BY DEF Reserve
<1> QED BY <1>3, <1>4, <1>5 DEF Backed

\* Every step keeps the device records and the rows in agreement.
LEMMA StepDevices ==
  ASSUME TypeOK, Custody, DeviceAccounting, [Next]_vars
  PROVE  DeviceAccounting'
<1> USE DEF TypeOK
<1> SUFFICES ASSUME NEW s \in Rows, Device[s] # NoDevice
             PROVE  Backed(s)'
  BY DEF DeviceAccounting, Backed
<1>0. \A r \in Rows : Device[r] # NoDevice => Backed(r)
  BY DeviceRows
<1>1. CASE UNCHANGED <<status, device>>
  BY <1>0, <1>1 DEF Backed
<1>2. ASSUME NEW w \in Writers, WriterStep(w) \/ Abandon(w), ~UNCHANGED <<status, device>>
      PROVE  Backed(s)'
  <2>1. PICK r \in Rows :
          /\ lane[w] \in Lanes /\ status[lane[w]][r] \in Waiting(lane[w])
          /\ \/ RecordOutcome(lane[w], r, snap[w][r], fate[w][r])
             \/ /\ status' = [status EXCEPT ![lane[w]][r] = "SUBMITTING"]
                /\ UNCHANGED device
    BY <1>2, RowStep
  <2>2. CASE RecordOutcome(lane[w], r, snap[w][r], fate[w][r])
    BY <1>0, <2>1, <2>2, OutcomeDevices
  <2>3. CASE status' = [status EXCEPT ![lane[w]][r] = "SUBMITTING"] /\ UNCHANGED device
    <3>1. \/ status'["people"][s] = status["people"][s]
          \/ /\ status'["people"][s] = "SUBMITTING"
             /\ status["people"][s] \in Waiting("people")
      BY <2>1, <2>3 DEF DbTypeOK, Lanes
    <3> QED BY <1>0, <2>3, <3>1 DEF Backed, Waiting, Fresh
  <2> QED BY <2>1, <2>2, <2>3
<1>3. ASSUME NEW r \in Rows, Reserve(r)
      PROVE  Backed(s)'
  BY <1>0, <1>3, ReserveDevices
<1>4. ASSUME NEW r \in Rows, Promote(r)
      PROVE  Backed(s)'
  <2>1. /\ device' = device /\ status["people"][r] = "QUEUED"
        /\ status'["people"][s] = IF s = r THEN "RESERVED" ELSE status["people"][s]
    BY <1>4 DEF Promote, DbTypeOK, Lanes
  <2> QED BY <1>0, <2>1 DEF Backed
<1>5. ASSUME NEW l \in Lanes, NEW r \in Rows,
             BackoffElapses(l, r) \/ LeavesPool(l, r) \/ TakenByOther(l, r)
      PROVE  Backed(s)'
  BY <1>1, <1>5 DEF BackoffElapses, LeavesPool, TakenByOther, db
<1>6. CASE LeaseExpires \/ UNCHANGED vars
  BY <1>1, <1>6 DEF LeaseExpires, vars, db
<1> QED BY <1>1, <1>2, <1>3, <1>4, <1>5, <1>6 DEF Next

\* For any number of rows, devices and writers: an open claim holds its device,
\* an assigned one has consumed it, and a failed one has let go of it, although
\* the outcome may be recorded by a writer that did not submit the claim.
THEOREM DevicesAccounted == Spec => []DeviceAccounting
<1>1. Init => DeviceAccounting
  BY DEF Init, DeviceAccounting, Lanes
<1>2. TypeOK /\ Custody /\ DeviceAccounting /\ [Next]_vars => DeviceAccounting'
  BY StepDevices
<1> QED BY <1>1, <1>2, TypeCorrect, CustodyHolds, PTL DEF Spec

--------------------------------------------------------------------------------
(* The two halves of a row.                                                *)

\* A call for this half may be on its way: the claim has reached the outbox and,
\* for dotNS, the name is registered.
Ready(l, r) == /\ status["people"][r] \notin {"NULL", "QUEUED"}
               /\ l = "dotns" => status["people"][r] = "ASSIGNED"

\* The dotNS half exists with its claim, moves behind it, and ends with it.
HalfOK(r) ==
    /\ status["dotns"][r] = "NULL" <=> (status["people"][r] = "NULL" \/ r \notin DotnsRows)
    /\ status["dotns"][r] \notin {"NULL", "PENDING", "ABANDONED"}
       => status["people"][r] = "ASSIGNED"
    /\ status["dotns"][r] = "ABANDONED"
       <=> (r \in DotnsRows /\ status["people"][r] = "FAILED_TERMINAL")

\* The inductive invariant behind DotnsFollowsPeople: writers that lost the lease
\* long ago still hold rows, and calls, of halves that were ready.
Halves ==
    /\ \A r \in Rows : HalfOK(r)
    /\ \A w \in Writers : \A r \in InHand(w) : Ready(lane[w], r)
    /\ \A l \in Lanes, r \in Rows :
         inflight[l][r] > 0 \/ owner[l][r] = "candidate" => Ready(l, r)

\* An outcome never takes a claim back behind the outbox.
LEMMA OutcomeStatus ==
  ASSUME DbTypeOK, NEW l \in Lanes, NEW r \in Rows, NEW a, NEW o, RecordOutcome(l, r, a, o)
  PROVE  /\ \A s \in Rows : s # r => /\ status'["people"][s] = status["people"][s]
                                     /\ status'["dotns"][s] = status["dotns"][s]
         /\ l = "people" =>
              \/ /\ status'["people"][r] \in {"ASSIGNED", "RETRY_AFTER"}
                 /\ status'["dotns"][r] = status["dotns"][r]
              \/ /\ status'["people"][r] = "FAILED_TERMINAL"
                 /\ status'["dotns"][r] = IF ClosesDotns(r) THEN "ABANDONED"
                                                            ELSE status["dotns"][r]
         /\ l = "dotns" =>
              /\ status'["people"][r] = status["people"][r]
              /\ status'["dotns"][r] \in {"RESERVED", "RETRY_AFTER", "FAILED_TERMINAL", "EXPIRED"}
<1>1. CASE l = "people"
  <2>1. PICK st \in {"ASSIGNED", "RETRY_AFTER", "FAILED_TERMINAL"} : SetStatus("people", r, st)
    BY <1>1 DEF RecordOutcome, Done
  <2> QED BY <1>1, <2>1 DEF SetStatus, DbTypeOK, Lanes
<1>2. CASE l = "dotns"
  <2>1. PICK st \in {"RESERVED", "RETRY_AFTER", "FAILED_TERMINAL", "EXPIRED"} :
          SetStatus("dotns", r, st)
    BY <1>2 DEF RecordOutcome, Done
  <2>2. status' = [status EXCEPT !["dotns"][r] = st]
    BY <2>1 DEF SetStatus
  <2> QED BY <1>2, <2>2 DEF DbTypeOK, Lanes
<1> QED BY <1>1, <1>2 DEF Lanes

\* What an accepted or a promoted claim changes.
LEMMA IntakeStatus ==
  ASSUME DbTypeOK, NEW r \in Rows, Reserve(r) \/ Promote(r)
  PROVE  /\ \A s \in Rows : s # r => /\ status'["people"][s] = status["people"][s]
                                     /\ status'["dotns"][s] = status["dotns"][s]
         /\ \/ /\ status["people"][r] = "NULL"
               /\ status'["people"][r] \in {"QUEUED", "RESERVED"}
               /\ status'["dotns"][r] = IF r \in DotnsRows THEN "PENDING" ELSE "NULL"
            \/ /\ status["people"][r] = "QUEUED"
               /\ status'["people"][r] = "RESERVED"
               /\ status'["dotns"][r] = status["dotns"][r]
<1>1. CASE Reserve(r)
  <2>1. PICK q \in {"QUEUED", "RESERVED"} :
          status' = [status EXCEPT !["people"][r] = q,
                                   !["dotns"][r] = IF r \in DotnsRows THEN "PENDING" ELSE "NULL"]
    BY <1>1 DEF Reserve
  <2> QED BY <1>1, <2>1 DEF Reserve, DbTypeOK, Lanes
<1>2. CASE Promote(r)
  BY <1>2 DEF Promote, DbTypeOK, Lanes
<1> QED BY <1>1, <1>2

\* A ready half stays ready.
LEMMA ReadyKept ==
  ASSUME TypeOK, Custody, [Next]_vars, NEW l \in Lanes, NEW r \in Rows, Ready(l, r)
  PROVE  Ready(l, r)'
<1> USE DEF TypeOK
<1>1. CASE UNCHANGED status
  BY <1>1 DEF Ready
<1>2. CASE Next /\ status["people"][r] = "ASSIGNED"
  <2>1. status'["people"][r] = "ASSIGNED"
    BY <1>2, TerminalStep DEF Terminal, Lanes
  <2> QED BY <2>1 DEF Ready
<1>3. CASE Next /\ status["people"][r] # "ASSIGNED"
  <2>1. l = "people" /\ status["people"][r] \notin {"NULL", "QUEUED"}
    BY <1>3 DEF Ready, Lanes
  <2>2. ASSUME NEW w \in Writers, WriterStep(w) \/ Abandon(w), status' # status
        PROVE  status'["people"][r] \notin {"NULL", "QUEUED"}
    <3>1. PICK s \in Rows :
            /\ lane[w] \in Lanes
            /\ \/ RecordOutcome(lane[w], s, snap[w][s], fate[w][s])
               \/ status' = [status EXCEPT ![lane[w]][s] = "SUBMITTING"]
      BY <2>2, RowStep
    <3>2. CASE RecordOutcome(lane[w], s, snap[w][s], fate[w][s])
      BY <2>1, <3>1, <3>2, OutcomeStatus DEF Lanes
    <3>3. CASE status' = [status EXCEPT ![lane[w]][s] = "SUBMITTING"]
      BY <2>1, <3>1, <3>3 DEF DbTypeOK, Lanes
    <3> QED BY <3>1, <3>2, <3>3
  <2>3. CASE \A w \in Writers : ~WriterStep(w) /\ ~Abandon(w)
    <3>1. status'["people"][r] = status["people"][r]
      BY <1>3, <2>1, <2>3, OutsideStep DEF Lanes
    <3> QED BY <2>1, <3>1 DEF Ready
  <2> QED BY <1>1, <2>1, <2>2, <2>3 DEF Ready
<1>4. CASE UNCHANGED vars
  BY <1>1, <1>4 DEF vars, db
<1> QED BY <1>2, <1>3, <1>4

\* A writer takes only ready halves in hand.
LEMMA HandReady ==
  ASSUME TypeOK, Custody, Halves, NEW w \in Writers, WriterStep(w) \/ Abandon(w),
         NEW r \in InHand(w)'
  PROVE  Ready(lane'[w], r)
<1>1. Shape(w) /\ lane[w] \in Lanes
  BY DEF Custody, TypeOK, WriterTypeOK
<1>2. HandMoves(w)
  BY <1>1, HandStep
<1>3. CASE lane'[w] = lane[w] /\ r \in InHand(w)
  BY <1>3 DEF Halves
<1>4. CASE lane'[w] = lane[w] /\ r \in Takeable(lane[w])
  <2>1. r \in Rows /\ HalfOK(r)
    BY <1>4 DEF Takeable, Due, Halves
  <2> QED BY <1>1, <1>4, <2>1 DEF Takeable, Due, HalfOK, Ready, Fresh, Lanes
<1> QED BY <1>2, <1>3, <1>4 DEF HandMoves

\* A writer's call is on its way, or lands, only for a ready half.
LEMMA WriterChain ==
  ASSUME TypeOK, Halves, NEW w \in Writers, WriterStep(w) \/ Abandon(w),
         NEW l \in Lanes, NEW r \in Rows,
         inflight'[l][r] > 0 \/ owner'[l][r] = "candidate"
  PROVE  Ready(l, r)
<1> USE DEF TypeOK
<1>1. CASE UNCHANGED chain
  BY <1>1 DEF chain, Halves
<1>2. CASE owner' = owner /\ inflight' \in {inflight, Unwatched(lane[w], batch[w])}
  <2>1. CASE inflight[l][r] > 0 \/ owner[l][r] = "candidate"
    BY <2>1 DEF Halves
  <2>2. CASE inflight'[l][r] > 0 /\ ~(inflight[l][r] > 0)
    <3>1. l = lane[w] /\ r \in batch[w]
      BY <1>2, <2>2 DEF Unwatched, ChainTypeOK
    <3> QED BY <3>1 DEF Halves, InHand
  <2> QED BY <1>2, <2>1, <2>2
<1>3. CASE Await(w) /\ Finalized(w)
  <2>1. PICK res : owner' = [owner EXCEPT ![lane[w]] = [s \in Rows |->
                     IF s \in batch[w] /\ res[s] = "ok" THEN "candidate" ELSE @[s]]]
    BY <1>3 DEF Finalized
  <2>2. inflight' = inflight
    BY <1>3 DEF Finalized
  <2>3. CASE owner'[l][r] = "candidate" /\ owner[l][r] # "candidate"
    <3>1. l = lane[w] /\ r \in batch[w]
      BY <2>1, <2>3 DEF ChainTypeOK
    <3> QED BY <3>1 DEF Halves, InHand
  <2> QED BY <2>2, <2>3 DEF Halves
<1>4. CASE Await(w) /\ ~Finalized(w)
  BY <1>2, <1>4 DEF Await, BatchFails, TimesOut, WatchBreaks, RenewalFails
<1>5. CASE Abandon(w)
  BY <1>2, <1>5 DEF Abandon
<1>6. CASE TryAcquire(w) \/ Heartbeat(w) \/ Hold(w) \/ Reconcile(w)
           \/ ReconOwners(w) \/ Claim(w) \/ EndPass(w)
  BY <1>1, <1>6 DEF TryAcquire, Heartbeat, Hold, LeaseLost, Reconcile, ReconOwners, Claim, EndPass
<1>7. CASE Triage(w) \/ Owners(w) \/ Settle(w) \/ Rebatch(w) \/ Submit(w) \/ Broadcast(w)
  BY <1>1, <1>7 DEF Triage, Owners, Settle, Rebatch, Submit, Broadcast
<1>8. CASE Mark(w) \/ Record(w)
  BY <1>1, <1>8 DEF Mark, MarkNext, MarkErrs, Record, RecordNext, ReconcileErrs, LeaseLost
<1> QED BY <1>3, <1>4, <1>5, <1>6, <1>7, <1>8 DEF WriterStep

\* The halves agree after every step of a writer.
LEMMA WriterHalves ==
  ASSUME TypeOK, Custody, Halves, NEW w \in Writers, WriterStep(w) \/ Abandon(w),
         NEW s \in Rows
  PROVE  HalfOK(s)'
<1> USE DEF TypeOK
<1>0. HalfOK(s)
  BY DEF Halves
<1>1. CASE UNCHANGED status
  BY <1>0, <1>1 DEF HalfOK
<1>2. CASE status' # status
  <2>1. PICK r \in Rows :
          /\ lane[w] \in Lanes /\ r \in InHand(w) /\ status[lane[w]][r] \in Waiting(lane[w])
          /\ \/ RecordOutcome(lane[w], r, snap[w][r], fate[w][r])
             \/ status' = [status EXCEPT ![lane[w]][r] = "SUBMITTING"]
    BY <1>2, RowStep
  <2>2. Ready(lane[w], r)
    BY <2>1 DEF Halves
  <2>3. CASE RecordOutcome(lane[w], r, snap[w][r], fate[w][r])
    <3>1. CASE s # r
      BY <1>0, <2>1, <2>3, <3>1, OutcomeStatus DEF HalfOK
    <3>2. CASE s = r /\ lane[w] = "people"
      <4>1. status["people"][s] \in {"RESERVED", "SUBMITTING", "RETRY_AFTER"}
        BY <2>1, <3>2 DEF Waiting, Fresh
      <4>2. status["dotns"][s] \in {"NULL", "PENDING"}
        BY <1>0, <4>1 DEF HalfOK
      <4>3. \/ /\ status'["people"][s] \in {"ASSIGNED", "RETRY_AFTER"}
               /\ status'["dotns"][s] = status["dotns"][s]
            \/ /\ status'["people"][s] = "FAILED_TERMINAL"
               /\ status'["dotns"][s] = IF ClosesDotns(s) THEN "ABANDONED"
                                                          ELSE status["dotns"][s]
        BY <2>1, <2>3, <3>2, OutcomeStatus
      <4> QED BY <1>0, <4>1, <4>2, <4>3 DEF HalfOK, ClosesDotns
    <3>3. CASE s = r /\ lane[w] = "dotns"
      <4>1. status["dotns"][s] \in {"PENDING", "SUBMITTING", "RETRY_AFTER"}
        BY <2>1, <3>3 DEF Waiting, Fresh
      <4>2. status["people"][s] = "ASSIGNED"
        BY <2>2, <3>3 DEF Ready
      <4>3. /\ status'["people"][s] = status["people"][s]
            /\ status'["dotns"][s] \in {"RESERVED", "RETRY_AFTER", "FAILED_TERMINAL", "EXPIRED"}
        BY <2>1, <2>3, <3>3, OutcomeStatus
      <4> QED BY <1>0, <4>1, <4>2, <4>3 DEF HalfOK
    <3> QED BY <2>1, <3>1, <3>2, <3>3 DEF Lanes
  <2>4. CASE status' = [status EXCEPT ![lane[w]][r] = "SUBMITTING"]
    <3>1. CASE lane[w] = "people"
      <4>1. /\ status["people"][r] \in {"RESERVED", "SUBMITTING", "RETRY_AFTER"}
            /\ status'["dotns"][s] = status["dotns"][s]
            /\ status'["people"][s] = IF s = r THEN "SUBMITTING" ELSE status["people"][s]
        BY <2>1, <2>4, <3>1 DEF Waiting, Fresh, DbTypeOK, Lanes
      <4> QED BY <1>0, <4>1 DEF HalfOK
    <3>2. CASE lane[w] = "dotns"
      <4>1. /\ status["dotns"][r] \in {"PENDING", "SUBMITTING", "RETRY_AFTER"}
            /\ status["people"][r] = "ASSIGNED"
            /\ status'["people"][s] = status["people"][s]
            /\ status'["dotns"][s] = IF s = r THEN "SUBMITTING" ELSE status["dotns"][s]
        BY <2>1, <2>2, <2>4, <3>2 DEF Waiting, Fresh, DbTypeOK, Lanes, Ready
      <4> QED BY <1>0, <4>1 DEF HalfOK
    <3> QED BY <2>1, <3>1, <3>2 DEF Lanes
  <2> QED BY <2>1, <2>3, <2>4
<1> QED BY <1>1, <1>2

\* Every step keeps the halves in order.
LEMMA StepHalves ==
  ASSUME TypeOK, TypeOK', Custody, Halves, [Next]_vars
  PROVE  Halves'
<1> USE DEF TypeOK
<1>1. ASSUME NEW s \in Rows PROVE HalfOK(s)'
  <2>0. HalfOK(s)
    BY DEF Halves
  <2>1. CASE UNCHANGED status
    BY <2>0, <2>1 DEF HalfOK
  <2>2. ASSUME NEW r \in Rows, Reserve(r) \/ Promote(r)
        PROVE  HalfOK(s)'
    BY <2>0, <2>2, IntakeStatus DEF HalfOK
  <2>3. ASSUME NEW l \in Lanes, NEW r \in Rows,
               BackoffElapses(l, r) \/ LeavesPool(l, r) \/ TakenByOther(l, r)
        PROVE  UNCHANGED status
    BY <2>3 DEF BackoffElapses, LeavesPool, TakenByOther, db
  <2>4. CASE LeaseExpires \/ UNCHANGED vars
    BY <2>1, <2>4 DEF LeaseExpires, vars, db
  <2> QED BY <2>1, <2>2, <2>3, <2>4, WriterHalves DEF Next
<1>2. ASSUME NEW v \in Writers, NEW r \in InHand(v)' PROVE Ready(lane[v], r)'
  <2>0. r \in Rows /\ lane'[v] \in Lanes
    BY DEF InHand, Decided, WriterTypeOK
  <2>1. Ready(lane'[v], r)
    <3>1. CASE Untouched(v)
      <4>1. InHand(v)' = InHand(v) /\ lane'[v] = lane[v]
        BY <3>1 DEF Untouched, InHand, Decided
      <4> QED BY <4>1 DEF Halves
    <3>2. ASSUME NEW w \in Writers, WriterStep(w) \/ Abandon(w)
          PROVE  Ready(lane'[v], r)
      <4>1. CASE v = w
        BY <3>2, <4>1, HandReady
      <4>2. CASE v # w
        BY <3>1, <3>2, <4>2, OthersUntouched
      <4> QED BY <4>1, <4>2
    <3>3. CASE UNCHANGED writer
      BY <3>1, <3>3 DEF writer, local, Untouched
    <3>4. CASE UNCHANGED vars
      BY <3>3, <3>4 DEF vars
    <3>5. CASE Next /\ \A w \in Writers : ~WriterStep(w) /\ ~Abandon(w)
      BY <3>3, <3>5, OutsideStep
    <3> QED BY <3>2, <3>4, <3>5
  <2>2. ASSUME NEW l \in Lanes, l = lane'[v] PROVE Ready(l, r)'
    BY <2>0, <2>1, <2>2, ReadyKept
  <2> QED BY <2>0, <2>2 DEF Ready
<1>3. ASSUME NEW l \in Lanes, NEW r \in Rows, inflight'[l][r] > 0 \/ owner'[l][r] = "candidate"
      PROVE  Ready(l, r)'
  <2>1. Ready(l, r)
    <3>1. CASE UNCHANGED chain
      BY <1>3, <3>1 DEF chain, Halves
    <3>2. ASSUME NEW s \in Rows, Reserve(s) \/ Promote(s)
          PROVE  UNCHANGED chain
      BY <3>2 DEF Reserve, Promote
    <3>3. ASSUME NEW k \in Lanes, NEW s \in Rows, BackoffElapses(k, s)
          PROVE  UNCHANGED chain
      BY <3>3 DEF BackoffElapses
    <3>4. ASSUME NEW k \in Lanes, NEW s \in Rows, LeavesPool(k, s)
          PROVE  Ready(l, r)
      <4>1. /\ inflight[k][s] > 0
            /\ inflight' = [inflight EXCEPT ![k][s] = @ - 1]
            /\ owner' = owner \/ owner' = [owner EXCEPT ![k][s] = "candidate"]
        BY <3>4 DEF LeavesPool
      <4>2. inflight[l][r] > 0 \/ owner[l][r] = "candidate"
        BY <1>3, <4>1 DEF ChainTypeOK
      <4> QED BY <4>2 DEF Halves
    <3>5. ASSUME NEW k \in Lanes, NEW s \in Rows, TakenByOther(k, s)
          PROVE  Ready(l, r)
      <4>1. inflight' = inflight /\ owner' = [owner EXCEPT ![k][s] = "other"]
        BY <3>5 DEF TakenByOther
      <4>2. inflight[l][r] > 0 \/ owner[l][r] = "candidate"
        BY <1>3, <4>1 DEF ChainTypeOK
      <4> QED BY <4>2 DEF Halves
    <3>6. CASE LeaseExpires \/ UNCHANGED vars
      BY <3>1, <3>6 DEF LeaseExpires, vars
    <3> QED BY <1>3, <3>1, <3>2, <3>3, <3>4, <3>5, <3>6, WriterChain DEF Next
  <2> QED BY <2>1, ReadyKept
<1> QED BY <1>1, <1>2, <1>3 DEF Halves

\* Initially no half exists.
LEMMA InitHalves == Init => Halves
<1> SUFFICES ASSUME Init PROVE Halves
  OBVIOUS
<1>1. \A r \in Rows : HalfOK(r)
  BY DEF Init, HalfOK, Lanes
<1>2. \A w \in Writers : InHand(w) = {}
  BY DEF Init, InHand, Decided, NoFate
<1>3. \A l \in Lanes, r \in Rows : inflight[l][r] = 0 /\ owner[l][r] = "none"
  BY DEF Init
<1> QED BY <1>1, <1>2, <1>3 DEF Halves

\* Whatever a writer that lost its lease still does, and whenever its calls land:
\* the halves of every row stay in order.
THEOREM HalvesHold == Spec => []Halves
<1>1. TypeOK /\ TypeOK' /\ Custody /\ Halves /\ [Next]_vars => Halves'
  BY StepHalves
<1> QED BY <1>1, TypeCorrect, CustodyHolds, InitHalves, PTL DEF Spec

\* The dotNS half moves, and its call reaches Asset Hub, only behind an assigned
\* People half, and it is abandoned exactly when that half failed.
THEOREM DotnsBehindPeople == Spec => []DotnsFollowsPeople
<1>1. Halves => DotnsFollowsPeople
  BY DEF Halves, HalfOK, Ready, DotnsFollowsPeople, Lanes
<1> QED BY <1>1, HalvesHold, PTL

--------------------------------------------------------------------------------
(* The writers implement Reservation.                                      *)

\* A row that a writer changes is open, in the sense of Reservation.
LEMMA HeldIsOpen ==
  ASSUME Halves, NEW w \in Writers, NEW r \in InHand(w), lane[w] \in Lanes,
         status[lane[w]][r] \in Waiting(lane[w])
  PROVE  Lifecycle!Open(lane[w], r)
<1>1. Ready(lane[w], r)
  BY DEF Halves
<1> QED BY <1>1 DEF Ready, Waiting, Fresh, Lifecycle!Open, Lifecycle!Initial

\* Recording an outcome is a step of the claim's life.
LEMMA OutcomeRefines ==
  ASSUME DbTypeOK, NEW l \in Lanes, NEW r \in Rows, NEW a, NEW o, RecordOutcome(l, r, a, o),
         status[l][r] \in Waiting(l), HalfOK(r), Lifecycle!Open(l, r), UNCHANGED owner,
         o \in {"Landed", "Observed"} => owner[l][r] = "candidate"
  PROVE  Lifecycle!Next
<1> USE DEF Lifecycle!Lanes, Lanes
<1>1. CASE o \in {"Landed", "Observed"}
  <2>1. status' = [status EXCEPT ![l][r] = Done(l)]
    BY <1>1 DEF RecordOutcome, SetStatus, Done
  <2>2. Lifecycle!Confirm(l, r)
    BY <1>1, <2>1 DEF Lifecycle!Confirm, Lifecycle!Done, Done
  <2> QED BY <2>2 DEF Lifecycle!Next
<1>2. CASE o \in {"Retry", "Park", "Defer"}
  <2>1. status' = [status EXCEPT ![l][r] = "RETRY_AFTER"]
    BY <1>2 DEF RecordOutcome, SetStatus
  <2>2. Lifecycle!Work(l, r)
    BY <2>1 DEF Lifecycle!Work
  <2> QED BY <2>2 DEF Lifecycle!Next
<1>3. CASE l = "people" /\ o \in {"Failed", "Expired"}
  <2>1. SetStatus("people", r, "FAILED_TERMINAL")
    BY <1>3 DEF RecordOutcome
  <2>2. status["dotns"][r] # "RETRY_AFTER"
    BY <1>3 DEF HalfOK, Waiting, Fresh
  <2>3. Lifecycle!Fail("people", r)
    BY <1>3, <2>1, <2>2 DEF Lifecycle!Fail, SetStatus, ClosesDotns
  <2> QED BY <2>3 DEF Lifecycle!Next
<1>4. CASE l = "dotns" /\ o = "Failed"
  <2>1. status' = [status EXCEPT !["dotns"][r] = "FAILED_TERMINAL"]
    BY <1>4 DEF RecordOutcome, SetStatus
  <2>2. Lifecycle!Fail("dotns", r)
    BY <1>4, <2>1 DEF Lifecycle!Fail
  <2> QED BY <2>2 DEF Lifecycle!Next
<1>5. CASE l = "dotns" /\ o = "Expired"
  <2>1. status' = [status EXCEPT !["dotns"][r] = "EXPIRED"]
    BY <1>5 DEF RecordOutcome, SetStatus
  <2>2. Lifecycle!Expire(r)
    BY <1>5, <2>1 DEF Lifecycle!Expire
  <2> QED BY <2>2 DEF Lifecycle!Next
<1> QED BY <1>1, <1>2, <1>3, <1>4, <1>5 DEF RecordOutcome

\* A name that is registered for a ready row was free, and lands.
LEMMA LandRefines ==
  ASSUME ChainTypeOK, Halves, NEW l \in Lanes, NEW S \in SUBSET Rows,
         \A r \in S : owner[l][r] = "none" /\ Ready(l, r),
         owner' = [owner EXCEPT ![l] = [r \in Rows |-> IF r \in S THEN "candidate" ELSE @[r]]],
         UNCHANGED status
  PROVE  Lifecycle!Next
<1>1. Lifecycle!Land(l, S)
  BY DEF Lifecycle!Land, Ready
<1> QED BY <1>1 DEF Lifecycle!Next, Lifecycle!Lanes, Lanes

\* A call succeeds only for a name nobody has.
LEMMA OkIsFree ==
  ASSUME NEW l, NEW calls, NEW res, NEW r, "ok" \in Results(l, calls, res, r)
  PROVE  owner[l][r] = "none"
BY DEF Results

\* Only a finalized extrinsic lets a writer change the chain's names, and it
\* changes no row.
LEMMA OwnerByWriter ==
  ASSUME NEW w \in Writers, WriterStep(w) \/ Abandon(w), owner' # owner
  PROVE  Await(w) /\ Finalized(w) /\ UNCHANGED status
<1>1. ~(TryAcquire(w) \/ Heartbeat(w) \/ Hold(w) \/ Abandon(w) \/ Reconcile(w)
        \/ ReconOwners(w) \/ Claim(w) \/ EndPass(w))
  BY DEF TryAcquire, Heartbeat, Hold, Abandon, LeaseLost, Reconcile, ReconOwners, Claim,
         EndPass, chain
<1>2. ~(Triage(w) \/ Owners(w) \/ Settle(w) \/ Rebatch(w) \/ Submit(w) \/ Broadcast(w))
  BY DEF Triage, Owners, Settle, Rebatch, Submit, Broadcast, chain
<1>3. ~(Mark(w) \/ Record(w))
  BY DEF Mark, MarkNext, MarkErrs, Record, RecordNext, ReconcileErrs, LeaseLost, chain
<1>4. Await(w)
  BY <1>1, <1>2, <1>3 DEF WriterStep
<1> QED BY <1>4 DEF Await, BatchFails, TimesOut, WatchBreaks, RenewalFails, db

\* Every step of a writer is a step of the life of a claim, or leaves it alone.
LEMMA WriterRefines ==
  ASSUME TypeOK, Custody, Honesty, Halves, NEW w \in Writers, WriterStep(w) \/ Abandon(w),
         ~UNCHANGED <<status, owner>>
  PROVE  Lifecycle!Next
<1> USE DEF TypeOK
<1>0. lane[w] \in Lanes /\ batch[w] \in SUBSET Rows /\ Honest(w)
  BY DEF WriterTypeOK, Honesty
<1>1. CASE status' # status
  <2>1. PICK r \in Rows :
          /\ UNCHANGED chain /\ r \in InHand(w) /\ status[lane[w]][r] \in Waiting(lane[w])
          /\ \/ RecordOutcome(lane[w], r, snap[w][r], fate[w][r])
             \/ status' = [status EXCEPT ![lane[w]][r] = "SUBMITTING"]
    BY <1>1, RowStep
  <2>2. Lifecycle!Open(lane[w], r) /\ HalfOK(r) /\ UNCHANGED owner
    BY <1>0, <2>1, HeldIsOpen DEF Halves, chain
  <2>3. CASE RecordOutcome(lane[w], r, snap[w][r], fate[w][r])
    <3>1. fate[w][r] \in {"Landed", "Observed"} => owner[lane[w]][r] = "candidate"
      BY <1>0 DEF Honest
    <3> QED BY <1>0, <2>1, <2>2, <2>3, <3>1, OutcomeRefines
  <2>4. CASE status' = [status EXCEPT ![lane[w]][r] = "SUBMITTING"]
    <3>1. Lifecycle!Work(lane[w], r)
      BY <2>2, <2>4 DEF Lifecycle!Work
    <3> QED BY <1>0, <3>1 DEF Lifecycle!Next, Lifecycle!Lanes, Lanes
  <2> QED BY <2>1, <2>3, <2>4
<1>2. CASE owner' # owner
  <2>1. Await(w) /\ Finalized(w) /\ UNCHANGED status
    BY <1>2, OwnerByWriter
  <2>2. PICK res \in [batch[w] -> {"ok", "alreadyRegistered", "deterministic", "other"}] :
          /\ \A r \in batch[w] : res[r] \in Results(lane[w], batch[w], res, r)
          /\ owner' = [owner EXCEPT ![lane[w]] = [r \in Rows |->
                         IF r \in batch[w] /\ res[r] = "ok" THEN "candidate" ELSE @[r]]]
    BY <2>1 DEF Finalized
  <2> DEFINE S == {r \in batch[w] : res[r] = "ok"}
  <2>3. /\ S \in SUBSET Rows
        /\ \A r \in S : owner[lane[w]][r] = "none" /\ Ready(lane[w], r)
    BY <1>0, <2>2, OkIsFree DEF Halves, InHand
  <2>4. owner' = [owner EXCEPT ![lane[w]] = [r \in Rows |-> IF r \in S THEN "candidate" ELSE @[r]]]
    BY <2>2
  <2> HIDE DEF S
  <2> QED BY <1>0, <2>1, <2>3, <2>4, LandRefines
<1> QED BY <1>1, <1>2

\* So is every other step.
LEMMA OutsideRefines ==
  ASSUME TypeOK, Halves, NEW l \in Lanes, NEW r \in Rows,
         \/ Reserve(r) \/ Promote(r) \/ BackoffElapses(l, r)
         \/ LeavesPool(l, r) \/ TakenByOther(l, r)
  PROVE  Lifecycle!Next \/ UNCHANGED <<status, owner>>
<1> USE DEF TypeOK
<1>1. CASE Reserve(r)
  <2>1. Lifecycle!Accept(r)
    BY <1>1 DEF Reserve, Lifecycle!Accept, chain
  <2> QED BY <2>1 DEF Lifecycle!Next
<1>2. CASE Promote(r)
  <2>1. Lifecycle!Promote(r)
    BY <1>2 DEF Promote, Lifecycle!Promote, chain
  <2> QED BY <2>1 DEF Lifecycle!Next
<1>3. CASE BackoffElapses(l, r)
  BY <1>3 DEF BackoffElapses, chain
<1>4. CASE LeavesPool(l, r) /\ owner' # owner
  <2>1. /\ inflight[l][r] > 0 /\ owner[l][r] = "none" /\ UNCHANGED status
        /\ owner' = [owner EXCEPT ![l][r] = "candidate"]
    BY <1>4, OkIsFree DEF LeavesPool, db
  <2> DEFINE S == {r}
  <2>2. owner' = [owner EXCEPT ![l] = [s \in Rows |-> IF s \in S THEN "candidate" ELSE @[s]]]
    BY <2>1 DEF ChainTypeOK
  <2>3. S \in SUBSET Rows /\ \A s \in S : owner[l][s] = "none" /\ Ready(l, s)
    BY <2>1 DEF Halves
  <2> HIDE DEF S
  <2>4. Lifecycle!Next
    BY <2>1, <2>2, <2>3, LandRefines
  <2> QED BY <2>4
<1>5. CASE LeavesPool(l, r) /\ owner' = owner
  BY <1>5 DEF LeavesPool, db
<1>6. CASE TakenByOther(l, r)
  <2>1. Lifecycle!Taken(l, r)
    BY <1>6 DEF TakenByOther, Lifecycle!Taken, db
  <2> QED BY <2>1 DEF Lifecycle!Next, Lifecycle!Lanes, Lanes
<1> QED BY <1>1, <1>2, <1>3, <1>4, <1>5, <1>6

\* Each writer is honest, provided no two claims are for one candidate.
LEMMA HonestyHolds == ASSUME OneRowPerCandidate PROVE Spec => []Honesty
<1>1. TypeOK /\ Honesty /\ [Next]_vars => Honesty'
  BY StepHonesty
<1> QED BY <1>1, TypeCorrect, InitHonesty, PTL DEF Spec

\* Any number of writers that crash, stall, overlap, time out and repeat, with
\* batches, leases and two lanes, do nothing to a claim and to the names on the
\* chains that Reservation does not describe; in particular a client that polls
\* its claim never sees a confirmation that is taken back or is not true.
THEOREM WritersImplementLifecycle ==
  ASSUME OneRowPerCandidate
  PROVE  Spec => ImplementsLifecycle
<1>1. Init => Lifecycle!Init
  BY DEF Init, Lifecycle!Init, Lifecycle!Lanes, Lanes
<1>2. TypeOK /\ Custody /\ Honesty /\ Halves /\ [Next]_vars
      => [Lifecycle!Next]_(Lifecycle!vars)
  <2> SUFFICES ASSUME TypeOK, Custody, Honesty, Halves, [Next]_vars, ~UNCHANGED <<status, owner>>
               PROVE  Lifecycle!Next
    BY DEF Lifecycle!vars
  <2>1. ASSUME NEW w \in Writers, WriterStep(w) \/ Abandon(w)
        PROVE  Lifecycle!Next
    BY <2>1, WriterRefines
  <2>2. ASSUME NEW r \in Rows, Reserve(r) \/ Promote(r)
        PROVE  Lifecycle!Next
    <3>1. "people" \in Lanes
      BY DEF Lanes
    <3> QED BY <2>2, <3>1, OutsideRefines
  <2>3. ASSUME NEW l \in Lanes, NEW r \in Rows,
               BackoffElapses(l, r) \/ LeavesPool(l, r) \/ TakenByOther(l, r)
        PROVE  Lifecycle!Next
    BY <2>3, OutsideRefines
  <2>4. ~LeaseExpires /\ ~UNCHANGED vars
    BY DEF LeaseExpires, vars, db, chain
  <2> QED BY <2>1, <2>2, <2>3, <2>4 DEF Next
<1> QED BY <1>1, <1>2, TypeCorrect, CustodyHolds, HonestyHolds, HalvesHold, PTL
        DEF Spec, ImplementsLifecycle, Lifecycle!Spec
================================================================================

------------------------- MODULE RegisterIntakeProofs -------------------------
(***************************************************************************)
(* Proofs about RegisterIntake, for any number of concurrent claims, of    *)
(* devices, vouchers and digits, and for every configuration of the gates. *)
(***************************************************************************)
EXTENDS RegisterIntake, FiniteSetTheorems, TLAPS

(***************************************************************************)
(* What a request carries.                                                 *)
(***************************************************************************)

\* Two inputs that differ at most in the digits they ask for.
Alike(i, j) ==
    /\ i.platform = j.platform /\ i.device = j.device /\ i.token = j.token
    /\ i.voucher = j.voucher /\ i.challenge = j.challenge
    /\ i.evidence = j.evidence /\ i.subject = j.subject /\ i.boundTo = j.boundTo
    /\ i.chain = j.chain /\ i.reserved = j.reserved

\* Picking digits changes nothing else about an input.
LEMMA PickedAlike ==
    ASSUME NEW i \in InputType, NEW p
    PROVE  /\ Alike(Picked(i, p), i)
           /\ Picked(i, p).asks = FALSE
BY DEF InputType, Alike, Picked

\* Everything a request carries is an admissible input up to the digits it asks for.
LEMMA CarriedAlike ==
    ASSUME NEW i \in Carried
    PROVE  /\ \E j \in Inputs : Alike(i, j)
           /\ i.asks => i \in Inputs
<1>1. CASE i \in Inputs
  BY <1>1 DEF Alike
<1>2. CASE i \notin Inputs
  <2>1. PICK j \in Inputs, p \in Pool \cup {None} : i = Picked(j, p)
    BY <1>2 DEF Carried
  <2>2. j \in InputType
    BY InputsAssumption DEF InputsAssumption
  <2>3. Alike(i, j) /\ i.asks = FALSE
    BY <2>1, <2>2, PickedAlike
  <2>4. QED
    BY <2>3
<1>3. QED
  BY <1>1, <1>2

\* The fields the handlers read have their types, and complete evidence and tokens
\* come with what they are about.
LEMMA CarriedFields ==
    ASSUME NEW i \in Carried
    PROVE  /\ i.platform \in {"ios", "android", "web"}
           /\ i.device \in Devices \cup {None}
           /\ i.voucher \in Vouchers \cup {None}
           /\ i.challenge \in Challenges \cup {None}
           /\ i.evidence \in {"none", "partial", "full"}
           /\ i.token \in BOOLEAN
           /\ i.evidence = "full" => i.device # None /\ i.challenge # None
           /\ i.token => i.device # None
<1>1. PICK j \in Inputs : Alike(i, j)
  BY CarriedAlike
<1>2. /\ j \in InputType
      /\ j.evidence = "full" => j.device # None /\ j.challenge # None
      /\ j.token => j.device # None
  BY InputsAssumption DEF InputsAssumption
<1>3. /\ j.platform \in {"ios", "android", "web"}
      /\ j.device \in Devices \cup {None}
      /\ j.voucher \in Vouchers \cup {None}
      /\ j.challenge \in Challenges \cup {None}
      /\ j.evidence \in {"none", "partial", "full"}
      /\ j.token \in BOOLEAN
  BY <1>2 DEF InputType
<1>4. QED
  BY <1>1, <1>2, <1>3 DEF Alike

\* Alike inputs get the same verdict on their evidence.
LEMMA AlikeVerdict ==
    ASSUME NEW i, NEW j, Alike(i, j)
    PROVE  Verdict(i) = Verdict(j)
BY DEF Alike, Verdict

\* Evidence that verifies is complete.
LEMMA VerdictComplete ==
    ASSUME NEW i \in Carried, Verdict(i) = "ok"
    PROVE  i.evidence = "full" /\ i.device \in Devices /\ i.challenge \in Challenges
BY CarriedFields DEF Verdict

\* A client that asks for the digits on offer leaves every request what it was but
\* for the digits.
LEMMA AskingPicks ==
    ASSUME TypeOK, NEW r \in Requests, CheckAvailable(r)
    PROVE  /\ input' \in [Requests -> Carried]
           /\ \A q \in Requests : Alike(input'[q], input[q])
<1>1. input \in [Requests -> Carried] /\ input[r].asks
  BY DEF TypeOK, CheckAvailable
<1>2. PICK p \in Pool \cup {None} :
         input' = [input EXCEPT ![r].asks = FALSE, ![r].preferred = p]
  BY DEF CheckAvailable, Availability, AvailableDigits
<1>3. input[r] \in Inputs /\ input[r] \in InputType
  BY <1>1, CarriedAlike, InputsAssumption DEF InputsAssumption
<1>4. input' = [input EXCEPT ![r] = Picked(input[r], p)]
  BY <1>1, <1>2 DEF Picked
<1>5. Picked(input[r], p) \in Carried
  BY <1>3 DEF Carried
<1>6. Alike(Picked(input[r], p), input[r])
  BY <1>3, PickedAlike
<1>7. \A q \in Requests : Alike(input[q], input[q])
  BY DEF Alike
<1>8. QED
  BY <1>1, <1>4, <1>5, <1>6, <1>7

(***************************************************************************)
(* Types.                                                                  *)
(***************************************************************************)

\* A row of a claim has the type of a row.
LEMMA RowTyped ==
    ASSUME TypeOK, NEW r \in Requests, NEW lane \in {"instant", "queued", "direct"}
    PROVE  Row(r, lane) \in RowType
BY CarriedFields DEF TypeOK, Row, RowType

\* Ending a transaction keeps the lock with a live transaction.
LEMMA EndTxTyped ==
    ASSUME TypeOK, NEW r \in Requests, EndTx(r)
    PROVE  /\ lock' \in Requests \cup {None}
           /\ \A q \in Requests : tx'[q].alive <=> lock' = q
           /\ tx' \in [Requests -> [digit : Pool \cup {0}, alive : BOOLEAN]]
BY NoneAssumption DEF TypeOK, EndTx, NoTx, NoneAssumption

\* Moving on and answering keep the types of the program counter and the answers.
LEMMA GotoTyped ==
    ASSUME TypeOK, NEW r \in Requests,
           \/ \E where \in PCs : Goto(r, where)
           \/ \E what \in Outcomes : Answer(r, what)
    PROVE  /\ pc' \in [Requests -> PCs]
           /\ outcome' \in [Requests -> {None} \cup Outcomes]
BY DEF TypeOK, Goto, Answer, PCs

\* Every step keeps the types.
LEMMA TypeStep ==
    ASSUME TypeOK, [Next]_vars
    PROVE  TypeOK'
<1> USE DEF inputVars, reqVars
<1>1. ASSUME NEW r \in Requests, CheckAvailable(r) PROVE TypeOK'
  BY <1>1, AskingPicks DEF TypeOK, CheckAvailable, NoFault
<1>2. ASSUME NEW r \in Requests, Validate(r) PROVE TypeOK'
  BY <1>2, GotoTyped DEF TypeOK, Validate, PCs, Outcomes, Fault, NoFault
<1>3. ASSUME NEW r \in Requests, ReadNames(r) PROVE TypeOK'
  <2>1. digit' \in [Requests -> Pool \cup {0}]
    BY <1>3 DEF TypeOK, ReadNames, SelectDigit, AvailableDigits
  <2>2. QED
    BY <1>3, <2>1, GotoTyped DEF TypeOK, ReadNames, PCs, Outcomes, Fault, NoFault
<1>4. ASSUME NEW r \in Requests, CheckVoucher(r) PROVE TypeOK'
  BY <1>4, GotoTyped DEF TypeOK, CheckVoucher, PCs, Outcomes, NoFault
<1>5. ASSUME NEW r \in Requests, Redeem(r) PROVE TypeOK'
  <2>1. Row(r, "instant") \in RowType
    BY RowTyped
  <2>2. outbox' \in [Pool -> {None} \cup RowType]
    BY <1>5, <2>1 DEF TypeOK, Redeem
  <2>3. voucher' \in [Vouchers -> {"fresh", "used", "expired"}]
    BY <1>5 DEF TypeOK, Redeem
  <2>4. \E what \in Outcomes : Answer(r, what)
    BY <1>5 DEF Redeem, Outcomes
  <2>5. faults' \in Nat
    BY <1>5 DEF TypeOK, Redeem, Fault, NoFault
  <2>6. QED
    BY <1>5, <2>2, <2>3, <2>4, <2>5, GotoTyped DEF TypeOK, Redeem
<1>6. ASSUME NEW r \in Requests, WidevineGate(r) PROVE TypeOK'
  BY <1>6, GotoTyped DEF TypeOK, WidevineGate, Reject, PCs, Outcomes, Fault, NoFault
<1>7. ASSUME NEW r \in Requests, Consume(r) PROVE TypeOK'
  BY <1>7, GotoTyped DEF TypeOK, Consume, Reject, PCs, Outcomes, Fault, NoFault
<1>8. ASSUME NEW r \in Requests, Seen(r) PROVE TypeOK'
  <2>1. device' \in [Requests -> Devices \cup {None}]
    BY <1>8, CarriedFields DEF TypeOK, Seen
  <2>2. QED
    BY <1>8, <2>1, GotoTyped DEF TypeOK, Seen, Reject, PCs, Outcomes, Fault, NoFault
<1>9. ASSUME NEW r \in Requests, DeviceCheckGate(r) PROVE TypeOK'
  BY <1>9, GotoTyped DEF TypeOK, DeviceCheckGate, PCs, Outcomes, Fault, NoFault
<1>10. ASSUME NEW r \in Requests, Reserve(r) PROVE TypeOK'
  <2>1. Row(r, Lane) \in RowType
    BY RowTyped DEF Lane
  <2>2. outbox' \in [Pool -> {None} \cup RowType]
    BY <1>10, <2>1 DEF TypeOK, Reserve
  <2>3. widevine' \subseteq Devices
    BY <1>10 DEF TypeOK, Reserve
  <2>4. \E what \in Outcomes : Answer(r, what)
    BY <1>10 DEF Reserve, Outcomes
  <2>5. faults' \in Nat
    BY <1>10 DEF TypeOK, Reserve, Fault, NoFault
  <2>6. QED
    BY <1>10, <2>2, <2>3, <2>4, <2>5, GotoTyped DEF TypeOK, Reserve
<1>11. ASSUME NEW r \in Requests, ClaimLock(r) PROVE TypeOK'
  <2>1. /\ lock' \in Requests \cup {None}
        /\ \A q \in Requests : tx'[q].alive <=> lock' = q
        /\ tx' \in [Requests -> [digit : Pool \cup {0}, alive : BOOLEAN]]
    BY <1>11, NoneAssumption DEF TypeOK, ClaimLock, NoneAssumption
  <2>2. QED
    BY <1>11, <2>1, GotoTyped DEF TypeOK, ClaimLock, PCs, NoFault
<1>12. ASSUME NEW r \in Requests, Requery(r) PROVE TypeOK'
  BY <1>12, GotoTyped, EndTxTyped DEF TypeOK, Requery, PCs, Outcomes, Fault, NoFault
<1>13. ASSUME NEW r \in Requests, Insert(r) PROVE TypeOK'
  <2>1. /\ lock' \in Requests \cup {None}
        /\ \A q \in Requests : tx'[q].alive <=> lock' = q
        /\ tx' \in [Requests -> [digit : Pool \cup {0}, alive : BOOLEAN]]
    <3>1. CASE EndTx(r)
      BY <3>1, EndTxTyped
    <3>2. CASE tx' = [tx EXCEPT ![r].digit = digit[r]] /\ UNCHANGED lock
      BY <3>2 DEF TypeOK
    <3>3. QED
      BY <1>13, <3>1, <3>2 DEF Insert
  <2>2. QED
    BY <1>13, <2>1, GotoTyped DEF TypeOK, Insert, PCs, Outcomes, NoFault
<1>14. ASSUME NEW r \in Requests, Mark(r) PROVE TypeOK'
  <2>1. apple' \in [Devices -> [bit0 : BOOLEAN, bit1 : BOOLEAN, stored : BOOLEAN]]
    <3>1. Claimed \in [bit0 : BOOLEAN, bit1 : BOOLEAN, stored : BOOLEAN]
      BY DEF Claimed
    <3>2. apple' = [apple EXCEPT ![input[r].device] = Claimed] \/ apple' = apple
      BY <1>14 DEF Mark
    <3>3. QED
      BY <3>1, <3>2 DEF TypeOK
  <2>2. QED
    <3>1. CASE Goto(r, "commit") /\ UNCHANGED <<lock, tx>> /\ NoFault
      BY <1>14, <2>1, <3>1, GotoTyped DEF TypeOK, Mark, PCs, NoFault
    <3>2. CASE Answer(r, "mark") /\ EndTx(r) /\ Fault("apple")
      BY <1>14, <2>1, <3>2, GotoTyped, EndTxTyped DEF TypeOK, Mark, Outcomes, Fault
    <3>3. QED
      BY <1>14, <3>1, <3>2 DEF Mark
<1>15. ASSUME NEW r \in Requests, Commit(r) PROVE TypeOK'
  <2>1. Row(r, Lane) \in RowType
    BY RowTyped DEF Lane
  <2>2. outbox' \in [Pool -> {None} \cup RowType]
    BY <1>15, <2>1 DEF TypeOK, Commit
  <2>3. \E what \in Outcomes : Answer(r, what)
    BY <1>15 DEF Commit, Outcomes
  <2>4. faults' \in Nat
    BY <1>15 DEF TypeOK, Commit, Fault, NoFault
  <2>5. QED
    BY <1>15, <2>2, <2>3, <2>4, GotoTyped, EndTxTyped DEF TypeOK, Commit
<1>16. ASSUME NEW r \in Requests, Gone(r) PROVE TypeOK'
  BY <1>16, GotoTyped, EndTxTyped DEF TypeOK, Gone, Outcomes, Fault
<1>17. ASSUME NEW r \in Requests, SessionLost(r) PROVE TypeOK'
  BY <1>17, EndTxTyped DEF TypeOK, SessionLost, Fault
<1>18. CASE VoucherExpires
  BY <1>18 DEF TypeOK, VoucherExpires, Fault
<1>19. CASE UNCHANGED vars
  BY <1>19 DEF TypeOK, vars
<1>20. QED
  BY <1>1, <1>2, <1>3, <1>4, <1>5, <1>6, <1>7, <1>8, <1>9, <1>10, <1>11, <1>12, <1>13,
     <1>14, <1>15, <1>16, <1>17, <1>18, <1>19 DEF Next, Handle

\* The initial state is well typed.
LEMMA TypeInit == Init => TypeOK
BY IntakeBounds, NoneAssumption
DEF Init, TypeOK, Carried, NoTx, NoBits, PCs, IntakeBounds, NoneAssumption

\* Every variable keeps its type, and the advisory lock always belongs to the one
\* live transaction: a session that dies, an answer that ends the claim and a client
\* that goes away all release it (free_ios_claim).
THEOREM TypeCorrect == Spec => []TypeOK
BY TypeInit, TypeStep, PTL DEF Spec

(***************************************************************************)
(* Steps of others.                                                        *)
(***************************************************************************)

\* What a step of r leaves alone: the other claims, what requests carry and the
\* configuration; records of devices are only ever added.
Frame(r) ==
    /\ mode' = mode
    /\ \A q \in Requests : Alike(input'[q], input[q])
    /\ \A q \in Requests \ {r} : /\ pc'[q] = pc[q] /\ outcome'[q] = outcome[q]
                                 /\ digit'[q] = digit[q] /\ device'[q] = device[q]
                                 /\ tx'[q] = tx[q]
    /\ \A d \in Devices : AlreadyUsed(d) => AlreadyUsed(d)'
    /\ widevine \subseteq widevine'
    /\ faults' = 0 => faults = 0

\* Inputs that are kept are alike.
LEMMA KeptAlike ==
    ASSUME input' = input
    PROVE  \A q \in Requests : Alike(input'[q], input[q])
BY DEF Alike

\* Moving on and answering concern one claim.
LEMMA GotoFrame ==
    ASSUME TypeOK, NEW r \in Requests, NEW where, NEW what,
           Goto(r, where) \/ Answer(r, what)
    PROVE  \A q \in Requests \ {r} : pc'[q] = pc[q] /\ outcome'[q] = outcome[q]
BY DEF TypeOK, Goto, Answer

\* Every step of a claim has this frame.
LEMMA StepFrame ==
    ASSUME TypeOK, NEW r \in Requests, Handle(r) \/ Gone(r) \/ SessionLost(r)
    PROVE  Frame(r)
<1> USE DEF inputVars, reqVars
<1>1. CASE CheckAvailable(r)
  BY <1>1, AskingPicks DEF CheckAvailable, Frame, NoFault, AlreadyUsed
<1>2. CASE ~CheckAvailable(r)
  <2>1. mode' = mode /\ input' = input
    BY <1>2 DEF Handle, Validate, ReadNames, CheckVoucher, Redeem, WidevineGate, Consume, Seen,
                DeviceCheckGate, Reserve, ClaimLock, Requery, Insert, Mark, Commit, Gone,
                SessionLost
  <2>2. \A q \in Requests \ {r} : pc'[q] = pc[q] /\ outcome'[q] = outcome[q]
    BY <1>2, GotoFrame
    DEF Handle, Validate, ReadNames, CheckVoucher, Redeem, WidevineGate, Reject, Consume, Seen,
        DeviceCheckGate, Reserve, ClaimLock, Requery, Insert, Mark, Commit, Gone, SessionLost
  <2>3. \A q \in Requests \ {r} : digit'[q] = digit[q]
    <3>1. CASE ReadNames(r)
      BY <3>1 DEF TypeOK, ReadNames
    <3>2. CASE ~ReadNames(r)
      BY <1>2, <3>2
      DEF Handle, Validate, CheckVoucher, Redeem, WidevineGate, Consume, Seen,
          DeviceCheckGate, Reserve, ClaimLock, Requery, Insert, Mark, Commit, Gone, SessionLost
    <3>3. QED
      BY <3>1, <3>2
  <2>4. \A q \in Requests \ {r} : device'[q] = device[q]
    <3>1. CASE Seen(r)
      BY <3>1 DEF TypeOK, Seen
    <3>2. CASE ~Seen(r)
      BY <1>2, <3>2
      DEF Handle, Validate, ReadNames, CheckVoucher, Redeem, WidevineGate, Consume,
          DeviceCheckGate, Reserve, ClaimLock, Requery, Insert, Mark, Commit, Gone, SessionLost
    <3>3. QED
      BY <3>1, <3>2
  <2>5. \A d \in Devices : AlreadyUsed(d) => AlreadyUsed(d)'
    <3>1. CASE Mark(r)
      BY <3>1 DEF TypeOK, Mark, AlreadyUsed, Claimed
    <3>2. CASE ~Mark(r)
      <4>1. apple' = apple
        BY <1>2, <3>2
        DEF Handle, Validate, ReadNames, CheckVoucher, Redeem, WidevineGate, Consume, Seen,
            DeviceCheckGate, Reserve, ClaimLock, Requery, Insert, Commit, Gone, SessionLost
      <4>2. QED
        BY <4>1 DEF AlreadyUsed
    <3>3. QED
      BY <3>1, <3>2
  <2>6. widevine \subseteq widevine'
    <3>1. CASE Reserve(r)
      BY <3>1 DEF Reserve
    <3>2. CASE ~Reserve(r)
      BY <1>2, <3>2
      DEF Handle, Validate, ReadNames, CheckVoucher, Redeem, WidevineGate, Consume, Seen,
          DeviceCheckGate, ClaimLock, Requery, Insert, Mark, Commit, Gone, SessionLost
    <3>3. QED
      BY <3>1, <3>2
  <2>7. faults' = 0 => faults = 0
    <3>1. faults' = faults \/ faults' = faults + 1
      BY <1>2
      DEF Handle, Validate, ReadNames, CheckVoucher, Redeem, WidevineGate, Consume, Seen,
          DeviceCheckGate, Reserve, ClaimLock, Requery, Insert, Mark, Commit, Gone,
          SessionLost, Fault, NoFault
    <3>2. QED
      BY <3>1 DEF TypeOK
  <2>8. \A q \in Requests \ {r} : tx'[q] = tx[q]
    <3>1. \/ tx' = tx
          \/ \E t : tx' = [tx EXCEPT ![r] = t]
          \/ tx' = [tx EXCEPT ![r].digit = digit[r]]
      BY <1>2
      DEF Handle, Validate, ReadNames, CheckVoucher, Redeem, WidevineGate, Consume, Seen,
          DeviceCheckGate, Reserve, ClaimLock, Requery, Insert, Mark, Commit, Gone,
          SessionLost, EndTx
    <3>2. QED
      BY <3>1 DEF TypeOK
  <2>9. QED
    BY <2>1, <2>2, <2>3, <2>4, <2>5, <2>6, <2>7, <2>8, KeptAlike DEF Frame
<1>3. QED
  BY <1>1, <1>2

\* An expiring voucher has the frame of any claim, that claim's own place included.
LEMMA ExpiryFrame ==
    ASSUME TypeOK, VoucherExpires \/ UNCHANGED vars
    PROVE  /\ \A r \in Requests : Frame(r)
           /\ UNCHANGED <<inputVars, outbox, challenge, widevine, apple, lock, tx, reqVars>>
<1>1. UNCHANGED <<inputVars, outbox, challenge, widevine, apple, lock, tx, reqVars>>
  BY DEF VoucherExpires, vars, inputVars, reqVars
<1>2. faults' = faults \/ faults' = faults + 1
  BY DEF VoucherExpires, vars, Fault
<1>3. QED
  BY <1>1, <1>2, KeptAlike DEF Frame, inputVars, reqVars, AlreadyUsed, TypeOK

(***************************************************************************)
(* Where a claim stands says what it has passed.                           *)
(***************************************************************************)

UnderLock == {"lock", "requery", "insert", "mark", "commit"}

\* The claim has to show Apple an unused device.
IosGated(r) == input[r].platform = "ios" /\ mode.devicecheck = "hard"

Path(r) ==
    /\ pc[r] # "done" => outcome[r] = None
    /\ pc[r] \notin {"start", "names", "done"} => digit[r] \in Pool
    /\ pc[r] \in {"voucher", "redeem"} => input[r].voucher \in Vouchers
    /\ pc[r] \in {"consume", "seen"} => Verdict(input[r]) = "ok"
    /\ pc[r] \in UnderLock => IosGated(r) /\ input[r].device \in Devices
    /\ pc[r] = "commit" => AlreadyUsed(input[r].device)
    /\ device[r] # None => /\ device[r] = input[r].device /\ Verdict(input[r]) = "ok"
                           /\ Enforced
    /\ pc[r] = "reserve" => device[r] # None \/ ~IosGated(r)
    /\ pc[r] \in {"devicecheck", "reserve"} /\ input[r].platform = "android" /\ Enforced
         => device[r] # None

\* The other claims stay where they are.
LEMMA PathKept ==
    ASSUME TypeOK, NEW r \in Requests, Frame(r), NEW q \in Requests \ {r}, Path(q)
    PROVE  Path(q)'
<1>1. /\ input'[q].platform = input[q].platform /\ input'[q].device = input[q].device
      /\ input'[q].voucher = input[q].voucher
  BY DEF Frame, Alike
<1>2. Verdict(input'[q]) = Verdict(input[q])
  BY AlikeVerdict DEF Frame
<1>3. QED
  BY <1>1, <1>2 DEF Path, Frame, IosGated, Enforced, UnderLock

\* A step takes its claim from one place to the next one of the handler.
LEMMA PathMoves ==
    ASSUME TypeOK, NEW r \in Requests, Path(r), Handle(r) \/ Gone(r) \/ SessionLost(r)
    PROVE  Path(r)'
<1> DEFINE T == /\ pc \in [Requests -> PCs] /\ outcome \in [Requests -> {None} \cup Outcomes]
                /\ digit \in [Requests -> Pool \cup {0}]
                /\ device \in [Requests -> Devices \cup {None}]
<1>0. T /\ r \in Requests
  BY DEF TypeOK
<1>f. /\ input[r].device \in Devices \cup {None} /\ input[r].voucher \in Vouchers \cup {None}
      /\ input[r].token \in BOOLEAN /\ input[r].token => input[r].device # None
  BY CarriedFields DEF TypeOK
<1>m. Frame(r)
  BY StepFrame
<1> USE DEF inputVars, reqVars
<1>1. CASE CheckAvailable(r)
  <2>1. pc[r] = "start" /\ UNCHANGED <<mode, reqVars>>
    BY <1>1 DEF CheckAvailable
  <2>2. Verdict(input'[r]) = Verdict(input[r]) /\ input'[r].device = input[r].device
    BY <1>m, AlikeVerdict DEF Frame, Alike
  <2>3. QED
    BY <2>1, <2>2 DEF Path, Enforced, UnderLock
<1>2. CASE Validate(r)
  BY <1>0, <1>2 DEF Validate, Path, Goto, Answer, IosGated, Enforced, UnderLock
<1>3. CASE ReadNames(r)
  BY <1>0, <1>3, <1>f DEF ReadNames, SelectDigit, AvailableDigits, Path, Goto, Answer,
                          IosGated, Enforced, UnderLock
<1>4. CASE CheckVoucher(r)
  BY <1>0, <1>4 DEF CheckVoucher, Path, Goto, Answer, IosGated, Enforced, UnderLock
<1>5. CASE Redeem(r)
  BY <1>0, <1>5 DEF Redeem, Path, Answer, IosGated, Enforced, UnderLock
<1>6. CASE WidevineGate(r)
  BY <1>0, <1>6 DEF WidevineGate, Reject, Path, Goto, Answer, IosGated, Enforced, UnderLock
<1>7. CASE Consume(r)
  BY <1>0, <1>7 DEF Consume, Reject, Path, Goto, Answer, IosGated, Enforced, UnderLock
<1>8. CASE Seen(r)
  <2>1. pc[r] = "seen" /\ Verdict(input[r]) = "ok"
    BY <1>8 DEF Seen, Path
  <2>2. input[r].device # None
    BY <2>1, VerdictComplete, NoneAssumption DEF TypeOK, NoneAssumption
  <2>3. QED
    BY <1>0, <1>8, <2>1, <2>2 DEF Seen, Reject, Path, Goto, Answer, IosGated, Enforced, UnderLock
<1>9. CASE DeviceCheckGate(r)
  BY <1>0, <1>9, <1>f DEF DeviceCheckGate, Path, Goto, Answer, IosGated, Enforced, UnderLock
<1>10. CASE Reserve(r)
  BY <1>0, <1>10 DEF Reserve, Path, Answer, IosGated, Enforced, UnderLock
<1>11. CASE ClaimLock(r)
  BY <1>0, <1>11 DEF ClaimLock, Path, Goto, IosGated, Enforced, UnderLock
<1>12. CASE Requery(r)
  BY <1>0, <1>12 DEF Requery, Path, Goto, Answer, IosGated, Enforced, UnderLock
<1>13. CASE Insert(r)
  BY <1>0, <1>13 DEF Insert, Path, Goto, Answer, IosGated, Enforced, UnderLock
<1>14. CASE Mark(r)
  BY <1>0, <1>14 DEF TypeOK, Mark, Path, Goto, Answer, IosGated, Enforced, UnderLock,
                     AlreadyUsed, Claimed
<1>15. CASE Commit(r)
  BY <1>0, <1>15 DEF Commit, Path, Answer, IosGated, Enforced, UnderLock
<1>16. CASE Gone(r)
  BY <1>0, <1>16 DEF Gone, Path, Answer, IosGated, Enforced, UnderLock
<1>17. CASE SessionLost(r)
  BY <1>0, <1>17 DEF SessionLost, Path, IosGated, Enforced, UnderLock, AlreadyUsed
<1>18. QED
  BY <1>1, <1>2, <1>3, <1>4, <1>5, <1>6, <1>7, <1>8, <1>9, <1>10, <1>11, <1>12, <1>13,
     <1>14, <1>15, <1>16, <1>17 DEF Handle

(***************************************************************************)
(* Rows are added, one at a time, and never change.                        *)
(***************************************************************************)

\* An inserted row that is not committed keeps its name free for its claim; without
\* a fault the session of a claim under the lock lives.
Holding(r) ==
    /\ pc[r] \in {"mark", "commit"} /\ tx[r].alive =>
         tx[r].digit = digit[r] /\ outbox[digit[r]] = None
    /\ faults = 0 /\ pc[r] \in UnderLock \ {"lock"} => tx[r].alive

\* The row under n belongs to a claim that is over.
Stored(n) ==
    LET r == outbox[n].by IN
    /\ n = digit[r] /\ outbox[n].device = input[r].device
    /\ pc[r] = "done" /\ outcome[r] \in {"accepted", "error"}

Orderly == /\ \A r \in Requests : Path(r) /\ Holding(r)
           /\ \A n \in Rows : Stored(n)

\* The claim r stores its row on a lane and is over.
Stores(r, lane) ==
    /\ digit[r] \in Pool /\ outbox[digit[r]] = None
    /\ outbox' = [outbox EXCEPT ![digit[r]] = Row(r, lane)]
    /\ pc[r] # "done" /\ pc'[r] = "done" /\ outcome'[r] \in {"accepted", "error"}
    /\ input' = input /\ digit' = digit
    /\ \A q \in Requests \ {r} : tx[q].alive => tx[q].digit # digit[r]

\* A step that stores a row adds it and leaves the others as they are.
LEMMA RowsGrow ==
    ASSUME TypeOK, NEW r \in Requests, NEW lane \in {"instant", "queued", "direct"},
           Stores(r, lane)
    PROVE  /\ Rows' = Rows \cup {digit[r]} /\ digit[r] \notin Rows
           /\ outbox'[digit[r]] = Row(r, lane)
           /\ \A n \in Rows : outbox'[n] = outbox[n]
<1>1. Row(r, lane) # None
  BY RowTyped, NoneAssumption DEF NoneAssumption
<1>2. QED
  BY <1>1 DEF TypeOK, Stores, Rows

\* A claim that is over takes no step of its own; only its session may still end.
LEMMA DoneStays ==
    ASSUME NEW r \in Requests, pc[r] = "done", Handle(r) \/ Gone(r) \/ SessionLost(r)
    PROVE  UNCHANGED <<inputVars, outbox, voucher, challenge, widevine, apple, reqVars>>
BY DEF Handle, CheckAvailable, Validate, ReadNames, CheckVoucher, Redeem, WidevineGate,
       Consume, Seen, DeviceCheckGate, Reserve, ClaimLock, Requery, Insert, Mark, Commit,
       Gone, SessionLost

\* The outbox changes by the three steps that store a row, and only so.
LEMMA StoresOrKeeps ==
    ASSUME TypeOK, NEW r \in Requests, Path(r), Holding(r),
           Handle(r) \/ Gone(r) \/ SessionLost(r)
    PROVE  \/ UNCHANGED outbox
           \/ Redeem(r) /\ Stores(r, "instant")
           \/ Reserve(r) /\ Stores(r, Lane)
           \/ Commit(r) /\ Stores(r, Lane)
<1> USE DEF inputVars, reqVars
<1>0. pc \in [Requests -> PCs] /\ outcome \in [Requests -> {None} \cup Outcomes]
  BY DEF TypeOK
<1>1. CASE Redeem(r)
  BY <1>0, <1>1 DEF Redeem, Stores, Answer, Path, Settled, Taken
<1>2. CASE Reserve(r)
  BY <1>0, <1>2 DEF Reserve, Stores, Answer, Path, Settled, Taken
<1>3. CASE Commit(r)
  <2>1. ASSUME tx[r].alive PROVE \A q \in Requests \ {r} : ~tx[q].alive
    BY <2>1 DEF TypeOK
  <2>2. QED
    BY <1>0, <1>3, <2>1 DEF Commit, Stores, Answer, Path, Holding
<1>4. CASE ~Redeem(r) /\ ~Reserve(r) /\ ~Commit(r)
  BY <1>4 DEF Handle, CheckAvailable, Validate, ReadNames, CheckVoucher, WidevineGate,
              Consume, Seen, DeviceCheckGate, ClaimLock, Requery, Insert, Mark, Gone,
              SessionLost
<1>5. QED
  BY <1>1, <1>2, <1>3, <1>4

\* A step of r leaves the rows there are, and may add the row of r.
LEMMA RowsKept ==
    ASSUME TypeOK, NEW r \in Requests, Path(r), Holding(r),
           Handle(r) \/ Gone(r) \/ SessionLost(r)
    PROVE  /\ \A n \in Rows : n \in Rows' /\ outbox'[n] = outbox[n]
           /\ \/ UNCHANGED outbox
              \/ \E lane \in {"instant", "queued", "direct"} :
                   Stores(r, lane) /\ Rows' = Rows \cup {digit[r]}
                   /\ outbox'[digit[r]] = Row(r, lane)
<1>1. CASE UNCHANGED outbox
  BY <1>1 DEF Rows
<1>2. ASSUME NEW lane \in {"instant", "queued", "direct"}, Stores(r, lane)
      PROVE  /\ \A n \in Rows : n \in Rows' /\ outbox'[n] = outbox[n]
             /\ Rows' = Rows \cup {digit[r]} /\ outbox'[digit[r]] = Row(r, lane)
  BY <1>2, RowsGrow
<1>3. Lane \in {"instant", "queued", "direct"}
  BY DEF Lane
<1>4. QED
  BY <1>1, <1>2, <1>3, StoresOrKeeps

\* What the rows say of their claims stays true.
LEMMA StoredStep ==
    ASSUME TypeOK, Orderly, NEW r \in Requests, Handle(r) \/ Gone(r) \/ SessionLost(r)
    PROVE  \A n \in Rows' : Stored(n)'
<1>1. Frame(r) /\ Path(r) /\ Holding(r)
  BY StepFrame DEF Orderly
<1>2. ASSUME NEW n \in Rows PROVE Stored(n)'
  <2>1. Stored(n) /\ outbox'[n] = outbox[n] /\ outbox[n].by \in Requests
    BY <1>1, <1>2, RowsKept DEF Orderly, Rows, TypeOK, RowType
  <2>2. CASE outbox[n].by = r
    BY <2>1, <2>2, DoneStays DEF Stored, inputVars, reqVars
  <2>3. CASE outbox[n].by # r
    BY <1>1, <2>1, <2>3 DEF Stored, Frame, Alike
  <2>4. QED
    BY <2>2, <2>3
<1>3. ASSUME NEW n, n = digit[r], NEW lane, Stores(r, lane), outbox'[n] = Row(r, lane)
      PROVE  Stored(n)'
  BY <1>3 DEF Stores, Stored, Row
<1>4. CASE UNCHANGED outbox
  BY <1>2, <1>4 DEF Rows
<1>5. CASE ~UNCHANGED outbox
  <2>1. PICK lane \in {"instant", "queued", "direct"} :
           /\ Stores(r, lane) /\ Rows' = Rows \cup {digit[r]}
           /\ outbox'[digit[r]] = Row(r, lane)
    BY <1>1, <1>5, RowsKept
  <2>2. QED
    BY <1>2, <1>3, <2>1
<1>6. QED
  BY <1>4, <1>5

\* A name that is held stays free, and the session of its claim lives.
LEMMA HoldingStep ==
    ASSUME TypeOK, Orderly, NEW r \in Requests, Handle(r) \/ Gone(r) \/ SessionLost(r)
    PROVE  \A q \in Requests : Holding(q)'
<1>1. Frame(r) /\ Path(r) /\ Holding(r)
  BY StepFrame DEF Orderly
<1>2. ASSUME NEW q \in Requests \ {r} PROVE Holding(q)'
  <2>1. /\ pc'[q] = pc[q] /\ digit'[q] = digit[q] /\ tx'[q] = tx[q]
        /\ faults' = 0 => faults = 0
    BY <1>1 DEF Frame
  <2>2. ASSUME pc[q] \in {"mark", "commit"}, tx[q].alive PROVE outbox'[digit[q]] = None
    <3>1. tx[q].digit = digit[q] /\ outbox[digit[q]] = None /\ digit[q] \in Pool
      BY <2>2 DEF Orderly, Holding, Path
    <3>2. ASSUME NEW lane, Stores(r, lane) PROVE outbox'[digit[q]] = None
      BY <2>2, <3>1, <3>2 DEF Stores, TypeOK
    <3>3. QED
      BY <1>1, <3>1, <3>2, RowsKept
  <2>3. QED
    BY <2>1, <2>2 DEF Orderly, Holding
<1>3. Holding(r)'
  <2> USE DEF inputVars, reqVars
  <2>0. /\ pc \in [Requests -> PCs] /\ faults \in Nat
        /\ tx \in [Requests -> [digit : Pool \cup {0}, alive : BOOLEAN]]
    BY DEF TypeOK
  <2>1. CASE ClaimLock(r)
    BY <2>0, <2>1 DEF ClaimLock, Goto, Holding
  <2>2. CASE Requery(r)
    BY <1>1, <2>0, <2>2 DEF Requery, Goto, Answer, Holding, UnderLock, NoFault
  <2>3. CASE Insert(r)
    BY <1>1, <2>0, <2>3 DEF Insert, Goto, Answer, Holding, UnderLock, NoFault, Taken
  <2>4. CASE Mark(r)
    BY <1>1, <2>0, <2>4 DEF Mark, Goto, Answer, Holding, UnderLock, NoFault
  <2>5. CASE SessionLost(r)
    BY <1>1, <2>0, <2>5 DEF SessionLost, EndTx, NoTx, Fault, Holding
  <2>6. CASE ~ClaimLock(r) /\ ~Requery(r) /\ ~Insert(r) /\ ~Mark(r) /\ ~SessionLost(r)
    <3>1. pc'[r] \notin UnderLock \ {"lock"}
      BY <2>0, <2>6
      DEF Handle, CheckAvailable, Validate, ReadNames, CheckVoucher, Redeem, WidevineGate,
          Consume, Seen, DeviceCheckGate, Reserve, Commit, Gone, Goto, Answer, Reject, UnderLock
    <3>2. QED
      BY <3>1 DEF Holding, UnderLock
  <2>7. QED
    BY <2>1, <2>2, <2>3, <2>4, <2>5, <2>6
<1>4. QED
  BY <1>2, <1>3

\* Orderly is inductive.
LEMMA OrderlyStep ==
    ASSUME TypeOK, Orderly, [Next]_vars
    PROVE  Orderly'
<1>1. ASSUME NEW r \in Requests, Handle(r) \/ Gone(r) \/ SessionLost(r) PROVE Orderly'
  <2>1. \A q \in Requests : Path(q)'
    BY <1>1, PathKept, PathMoves, StepFrame DEF Orderly
  <2>2. QED
    BY <1>1, <2>1, HoldingStep, StoredStep DEF Orderly
<1>2. CASE VoucherExpires \/ UNCHANGED vars
  <2>1. /\ UNCHANGED <<inputVars, outbox, apple, tx, reqVars>>
        /\ faults' = 0 => faults = 0
    BY <1>2, ExpiryFrame DEF VoucherExpires, vars, Fault, TypeOK
  <2>2. QED
    BY <2>1 DEF Orderly, Path, Holding, Rows, Stored, inputVars, reqVars, IosGated, Enforced,
                AlreadyUsed
<1>3. QED
  BY <1>1, <1>2 DEF Next

\* Nobody has claimed anything at the start.
LEMMA OrderlyInit == Init => Orderly
BY DEF Init, Orderly, Path, Holding, Rows, UnderLock

\* What every claim has passed, holds and has stored agrees with where it stands.
THEOREM ClaimsOrderly == Spec => []Orderly
<1>1. TypeOK /\ Orderly /\ [Next]_vars => Orderly'
  BY OrderlyStep
<1>2. QED
  BY <1>1, OrderlyInit, TypeCorrect, PTL DEF Spec

(***************************************************************************)
(* Answers.                                                                *)
(***************************************************************************)

Told(r) == /\ outcome[r] = "accepted" => digit[r] \in Rows /\ outbox[digit[r]].by = r
           /\ outcome[r] = "taken" => digit[r] \in Rows

\* A claim is accepted by the step that stores its row, and refused as taken by one
\* that finds somebody else's.
LEMMA AnswerMeans ==
    ASSUME TypeOK, NEW r \in Requests, Path(r), Holding(r), pc[r] # "done",
           Handle(r) \/ Gone(r) \/ SessionLost(r)
    PROVE  /\ outcome'[r] = "accepted" => ~UNCHANGED outbox
           /\ outcome'[r] = "taken" => digit[r] \in Rows /\ digit' = digit
<1> USE DEF inputVars, reqVars
<1>0. /\ pc \in [Requests -> PCs] /\ outcome \in [Requests -> {None} \cup Outcomes]
      /\ outcome[r] = None /\ None \notin {"accepted", "taken"}
  BY NoneAssumption DEF TypeOK, Path, NoneAssumption, Outcomes
<1>1. CASE Redeem(r) \/ Reserve(r) \/ Commit(r)
  <2>1. ASSUME NEW lane \in {"instant", "queued", "direct"}, ~Taken(r), digit[r] \in Pool
        PROVE  [outbox EXCEPT ![digit[r]] = Row(r, lane)] # outbox
    BY <2>1, RowTyped, NoneAssumption DEF TypeOK, Taken, NoneAssumption
  <2>2. digit[r] \in Pool /\ Lane \in {"instant", "queued", "direct"}
    BY <1>1 DEF Redeem, Reserve, Commit, Path, Lane
  <2>3. CASE Redeem(r)
    BY <1>0, <2>1, <2>2, <2>3 DEF Redeem, Answer, Taken, Rows
  <2>4. CASE Reserve(r)
    BY <1>0, <2>1, <2>2, <2>4 DEF Reserve, Answer, Taken, Rows
  <2>5. CASE Commit(r)
    BY <1>0, <2>1, <2>2, <2>5 DEF Commit, Answer, Holding, Taken
  <2>6. QED
    BY <1>1, <2>3, <2>4, <2>5
<1>2. CASE Insert(r)
  BY <1>0, <1>2 DEF Insert, Answer, Goto, Path, Taken, Rows
<1>3. CASE ~Redeem(r) /\ ~Reserve(r) /\ ~Commit(r) /\ ~Insert(r)
  BY <1>0, <1>3
  DEF Handle, CheckAvailable, Validate, ReadNames, CheckVoucher, WidevineGate, Consume, Seen,
      DeviceCheckGate, ClaimLock, Requery, Mark, Gone, SessionLost, Goto, Answer, Reject
<1>4. QED
  BY <1>1, <1>2, <1>3

\* What claims were told stays true.
LEMMA ToldStep ==
    ASSUME TypeOK, Orderly, NEW r \in Requests, Handle(r) \/ Gone(r) \/ SessionLost(r),
           \A q \in Requests : Told(q)
    PROVE  \A q \in Requests : Told(q)'
<1>1. Frame(r) /\ Path(r) /\ Holding(r)
  BY StepFrame DEF Orderly
<1>2. \A n \in Rows : n \in Rows' /\ outbox'[n] = outbox[n]
  BY <1>1, RowsKept
<1>3. ASSUME NEW q \in Requests \ {r} PROVE Told(q)'
  BY <1>1, <1>2 DEF Told, Frame
<1>4. CASE pc[r] = "done"
  BY <1>2, <1>3, <1>4, DoneStays DEF Told, reqVars
<1>5. CASE pc[r] # "done"
  <2>1. ASSUME outcome'[r] = "accepted" PROVE digit'[r] \in Rows' /\ outbox'[digit'[r]].by = r
    <3>1. PICK lane \in {"instant", "queued", "direct"} :
             /\ Stores(r, lane) /\ Rows' = Rows \cup {digit[r]}
             /\ outbox'[digit[r]] = Row(r, lane)
      BY <1>1, <1>5, <2>1, AnswerMeans, RowsKept
    <3>2. QED
      BY <3>1 DEF Stores, Row
  <2>2. ASSUME outcome'[r] = "taken" PROVE digit'[r] \in Rows'
    BY <1>1, <1>2, <1>5, <2>2, AnswerMeans
  <2>3. QED
    BY <1>3, <2>1, <2>2 DEF Told
<1>6. QED
  BY <1>4, <1>5

\* An answer the client gets is true (register.rs reserve, free_ios_claim,
\* redeem_and_reserve): an accepted claim is stored once, under its own name; a claim
\* refused for a reason of its own is not stored, whatever its race with another claim;
\* and a name is only called taken if it is.
THEOREM AnswersTrue == Spec => []AnswersAreTrue
<1> DEFINE AllTold == \A r \in Requests : Told(r)
<1>1. Init => AllTold
  BY NoneAssumption DEF Init, Told, NoneAssumption, Outcomes
<1>2. TypeOK /\ Orderly /\ AllTold /\ [Next]_vars => AllTold'
  <2>1. ASSUME TypeOK, AllTold, VoucherExpires \/ UNCHANGED vars PROVE AllTold'
    BY <2>1, ExpiryFrame DEF Told, Rows, reqVars
  <2>2. QED
    BY <2>1, ToldStep DEF Next
<1>3. Orderly /\ AllTold => AnswersAreTrue
  BY DEF AnswersAreTrue, Orderly, Stored, Told, Rows
<1>4. QED
  BY <1>1, <1>2, <1>3, TypeCorrect, ClaimsOrderly, PTL DEF Spec

(***************************************************************************)
(* Soft gates.                                                             *)
(***************************************************************************)

\* With both gates soft a step of a claim does not end in an answer of a gate.
LEMMA SoftStep ==
    ASSUME TypeOK, NEW r \in Requests, Path(r), Handle(r) \/ Gone(r) \/ SessionLost(r),
           mode.devicecheck # "hard" /\ mode.widevine # "hard"
    PROVE  outcome'[r] \in {"ineligible", "malformed", "retry", "token", "unavailable", "mark"}
             => outcome'[r] = outcome[r]
<1> USE DEF inputVars, reqVars
<1>0. /\ pc \in [Requests -> PCs] /\ outcome \in [Requests -> {None} \cup Outcomes]
      /\ device[r] \notin widevine /\ pc[r] \notin UnderLock
  BY NoneAssumption DEF TypeOK, Path, NoneAssumption, Enforced, IosGated
<1>1. CASE Reserve(r)
  BY <1>0, <1>1 DEF Reserve, Answer
<1>2. CASE DeviceCheckGate(r)
  BY <1>0, <1>2 DEF DeviceCheckGate, Goto
<1>3. CASE WidevineGate(r) \/ Consume(r) \/ Seen(r)
  BY <1>0, <1>3 DEF WidevineGate, Consume, Seen, Reject, Enforced, Goto
<1>4. CASE Validate(r) \/ ReadNames(r) \/ CheckVoucher(r) \/ Redeem(r) \/ Gone(r)
  BY <1>0, <1>4 DEF Validate, ReadNames, CheckVoucher, Redeem, Gone, Goto, Answer
<1>5. CASE CheckAvailable(r) \/ SessionLost(r)
  BY <1>5 DEF CheckAvailable, SessionLost
<1>6. QED
  BY <1>0, <1>1, <1>2, <1>3, <1>4, <1>5
  DEF Handle, ClaimLock, Requery, Insert, Mark, Commit, UnderLock

\* Soft gates only watch (Mode::Soft of widevine_gate and decide_gate): no claim is
\* refused for its device, its evidence or an outage behind a gate.
THEOREM SoftWatches == Spec => []SoftGatesWatch
<1>1. Init => SoftGatesWatch
  BY NoneAssumption DEF Init, SoftGatesWatch, NoneAssumption, Outcomes
<1>2. TypeOK /\ Orderly /\ SoftGatesWatch /\ [Next]_vars => SoftGatesWatch'
  <2>1. ASSUME TypeOK, Orderly, SoftGatesWatch, NEW r \in Requests,
               Handle(r) \/ Gone(r) \/ SessionLost(r)
        PROVE  SoftGatesWatch'
    BY <2>1, SoftStep, StepFrame DEF SoftGatesWatch, Frame, Orderly
  <2>2. ASSUME TypeOK, SoftGatesWatch, VoucherExpires \/ UNCHANGED vars PROVE SoftGatesWatch'
    BY <2>2, ExpiryFrame DEF SoftGatesWatch, inputVars, reqVars
  <2>3. QED
    BY <2>1, <2>2 DEF Next
<1>3. QED
  BY <1>1, <1>2, TypeCorrect, ClaimsOrderly, PTL DEF Spec

(***************************************************************************)
(* Vouchers.                                                               *)
(***************************************************************************)

\* A set without two different elements has at most one.
LEMMA AtMostOne ==
    ASSUME NEW S, \A x, y \in S : x = y
    PROVE  Cardinality(S) = IF S = {} THEN 0 ELSE 1
<1>1. CASE S = {}
  BY <1>1, FS_EmptySet
<1>2. CASE S # {}
  <2>1. PICK x \in S : TRUE
    BY <1>2
  <2>2. S = {x}
    BY <2>1
  <2>3. QED
    BY <1>2, <2>2, FS_Singleton
<1>3. QED
  BY <1>1, <1>2

\* The reservations that a voucher paid for.
Instant(v) == {n \in Rows : outbox[n].lane = "instant" /\ input[outbox[n].by].voucher = v}

Burnt(v) == /\ voucher[v] = "used" <=> Instant(v) # {}
            /\ \A n, m \in Instant(v) : n = m

\* What a stored row says about its claim is not changed by a step.
LEMMA RowsCarry ==
    ASSUME TypeOK, Orderly, NEW r \in Requests, Handle(r) \/ Gone(r) \/ SessionLost(r),
           NEW n \in Rows
    PROVE  /\ n \in Rows' /\ outbox'[n] = outbox[n] /\ outbox[n].by \in Requests
           /\ Alike(input'[outbox[n].by], input[outbox[n].by])
           /\ mode' = mode
<1>1. Frame(r) /\ Path(r) /\ Holding(r)
  BY StepFrame DEF Orderly
<1>2. outbox[n].by \in Requests
  BY DEF Rows, TypeOK, RowType
<1>3. QED
  BY <1>1, <1>2, RowsKept DEF Frame

\* A voucher is burnt by the step that stores its row, and by no other.
LEMMA BurntStep ==
    ASSUME TypeOK, Orderly, NEW r \in Requests, Handle(r) \/ Gone(r) \/ SessionLost(r),
           \A v \in Vouchers : Burnt(v)
    PROVE  \A v \in Vouchers : Burnt(v)'
<1>1. Path(r) /\ Holding(r)
  BY DEF Orderly
<1>2. ASSUME NEW v \in Vouchers, NEW n \in Rows PROVE n \in Instant(v)' <=> n \in Instant(v)
  BY <1>2, RowsCarry DEF Instant, Alike
<1>3. ASSUME UNCHANGED outbox, UNCHANGED voucher, NEW v \in Vouchers PROVE Burnt(v)'
  <2>1. Rows' = Rows
    BY <1>3 DEF Rows
  <2>2. Instant(v)' = Instant(v)
    BY <1>2, <2>1 DEF Instant
  <2>3. QED
    BY <1>3, <2>2 DEF Burnt
<1>4. CASE Redeem(r)
  <2> DEFINE u == input[r].voucher
  <2>1. u \in Vouchers /\ input' = input
    BY <1>1, <1>4 DEF Redeem, Path, inputVars
  <2>2. CASE UNCHANGED <<voucher, outbox>>
    BY <1>3, <2>2
  <2>3. CASE /\ voucher[u] = "fresh" /\ voucher' = [voucher EXCEPT ![u] = "used"]
             /\ Stores(r, "instant")
    <3>1. /\ Rows' = Rows \cup {digit[r]} /\ digit[r] \notin Rows
          /\ outbox'[digit[r]] = Row(r, "instant")
      BY <2>3, RowsGrow
    <3>2. ASSUME NEW v \in Vouchers PROVE digit[r] \in Instant(v)' <=> v = u
      BY <2>1, <3>1 DEF Instant, Row
    <3>3. \A v \in Vouchers : Instant(v) \subseteq Rows
      BY DEF Instant
    <3>4. \A v \in Vouchers : Instant(v)' \subseteq Rows'
      BY DEF Instant
    <3>5. ASSUME NEW v \in Vouchers PROVE Burnt(v)'
      <4>1. CASE v = u
        <5>1. voucher'[v] = "used"
          BY <2>1, <2>3, <4>1 DEF TypeOK
        <5>2. Instant(v)' = {digit[r]}
          <6>1. Instant(v) = {}
            BY <2>3, <4>1 DEF Burnt
          <6>2. digit[r] \in Instant(v)'
            BY <3>2, <4>1
          <6>3. QED
            BY <1>2, <3>1, <3>4, <6>1, <6>2
        <5>3. QED
          BY <5>1, <5>2 DEF Burnt
      <4>2. CASE v # u
        <5>1. Instant(v)' = Instant(v)
          <6>1. digit[r] \notin Instant(v)'
            BY <3>2, <4>2
          <6>2. QED
            BY <1>2, <3>1, <3>3, <3>4, <6>1
        <5>2. voucher'[v] = voucher[v]
          BY <2>1, <2>3, <4>2 DEF TypeOK
        <5>3. QED
          BY <5>1, <5>2 DEF Burnt
      <4>3. QED
        BY <4>1, <4>2
    <3>6. QED
      BY <3>5
  <2>4. voucher[u] = "fresh" /\ ~Taken(r) /\ outbox' = [outbox EXCEPT ![digit[r]] = Row(r, "instant")]
          => ~UNCHANGED outbox
    <3>1. digit[r] \in Pool /\ Row(r, "instant") # None
      BY <1>1, <1>4, RowTyped, NoneAssumption DEF Redeem, Path, NoneAssumption
    <3>2. QED
      BY <3>1 DEF TypeOK, Taken
  <2>5. UNCHANGED outbox \/ Stores(r, "instant")
    BY <1>1, <1>4, StoresOrKeeps DEF Redeem, Reserve, Commit
  <2>6. QED
    BY <1>4, <2>2, <2>3, <2>4, <2>5 DEF Redeem
<1>5. CASE ~Redeem(r)
  <2>1. voucher' = voucher
    BY <1>5 DEF Handle, CheckAvailable, Validate, ReadNames, CheckVoucher, WidevineGate,
                Consume, Seen, DeviceCheckGate, Reserve, ClaimLock, Requery, Insert, Mark,
                Commit, Gone, SessionLost
  <2>2. CASE UNCHANGED outbox
    BY <1>3, <2>1, <2>2
  <2>3. CASE Stores(r, Lane)
    <3>1. /\ Rows' = Rows \cup {digit[r]}
          /\ outbox'[digit[r]] = Row(r, Lane)
      BY <2>3, RowsGrow DEF Lane
    <3>2. ASSUME NEW v \in Vouchers PROVE digit[r] \notin Instant(v)'
      BY <3>1 DEF Instant, Row, Lane
    <3>3. ASSUME NEW v \in Vouchers PROVE Instant(v)' = Instant(v)
      <4>1. Instant(v) \subseteq Rows
        BY DEF Instant
      <4>2. Instant(v)' \subseteq Rows'
        BY DEF Instant
      <4>3. QED
        BY <1>2, <3>1, <3>2, <4>1, <4>2
    <3>4. QED
      BY <2>1, <3>3 DEF Burnt
  <2>4. QED
    BY <1>1, <1>5, <2>2, <2>3, StoresOrKeeps
<1>6. QED
  BY <1>4, <1>5

\* A voucher is used up exactly when one instant reservation is stored for it
\* (redeem_and_reserve, its transaction): never by a claim that lost the race for the
\* name, never for two rows, however many claims redeem it at once.
THEOREM VouchersPayOnce == Spec => []VoucherForRow
<1> DEFINE All == \A v \in Vouchers : Burnt(v)
<1>1. Init => All
  BY DEF Init, Burnt, Instant, Rows
<1>2. TypeOK /\ Orderly /\ All /\ [Next]_vars => All'
  <2>1. ASSUME TypeOK, All, VoucherExpires \/ UNCHANGED vars PROVE All'
    <3>1. \A v \in Vouchers : Instant(v)' = Instant(v)
      BY <2>1, ExpiryFrame DEF Instant, Rows, inputVars
    <3>2. \A v \in Vouchers : voucher'[v] = "used" <=> voucher[v] = "used"
      BY <2>1 DEF VoucherExpires, vars, TypeOK
    <3>3. QED
      BY <2>1, <3>1, <3>2 DEF Burnt
  <2>2. QED
    BY <2>1, BurntStep DEF Next
<1>3. All => VoucherForRow
  <2>1. ASSUME NEW v \in Vouchers, Burnt(v)
        PROVE  Cardinality(Instant(v)) = IF voucher[v] = "used" THEN 1 ELSE 0
    BY <2>1, AtMostOne DEF Burnt
  <2>2. QED
    BY <2>1 DEF VoucherForRow, Instant
<1>4. QED
  BY <1>1, <1>2, <1>3, TypeCorrect, ClaimsOrderly, PTL DEF Spec

(***************************************************************************)
(* Challenges.                                                             *)
(***************************************************************************)

\* The claim has spent its challenge and was not turned away.
Passed(r) == pc[r] = "seen" \/ device[r] # None

Once == /\ \A r, q \in Requests : Passed(r) /\ Passed(q)
                                  /\ input[r].challenge = input[q].challenge => r = q
        /\ \A r \in Requests : Passed(r) => challenge[input[r].challenge] = "spent"
        /\ \A c \in Challenges : challenge[c] = "spent" =>
             \E r \in Requests : input[r].challenge = c /\ Verdict(input[r]) = "ok"

\* Only the step that spends the challenge takes a claim past it.
LEMMA OnceStep ==
    ASSUME TypeOK, Orderly, Once, NEW r \in Requests, Handle(r) \/ Gone(r) \/ SessionLost(r)
    PROVE  Once'
<1> USE DEF inputVars, reqVars
<1>0. /\ pc \in [Requests -> PCs] /\ device \in [Requests -> Devices \cup {None}]
      /\ challenge \in [Challenges -> {"live", "spent"}] /\ Path(r) /\ Frame(r)
  BY StepFrame DEF TypeOK, Orderly
<1>1. \A q \in Requests : /\ input'[q].challenge = input[q].challenge
                          /\ Verdict(input'[q]) = Verdict(input[q])
  BY <1>0, AlikeVerdict DEF Frame, Alike
<1>2. \A q \in Requests \ {r} : Passed(q)' <=> Passed(q)
  BY <1>0 DEF Frame, Passed
<1>3. CASE Consume(r) /\ ~UNCHANGED challenge
  <2>1. /\ pc[r] = "consume" /\ challenge[input[r].challenge] = "live"
        /\ challenge' = [challenge EXCEPT ![input[r].challenge] = "spent"]
    BY <1>3 DEF Consume
  <2>2. Verdict(input[r]) = "ok" /\ input[r].challenge \in Challenges
    BY <1>0, <2>1, VerdictComplete DEF Path, TypeOK
  <2>3. \A q \in Requests : Passed(q) => input[q].challenge # input[r].challenge
    BY <2>1 DEF Once
  <2>4. \A q \in Requests \ {r} : Passed(q) => input[q].challenge \in Challenges
    BY VerdictComplete DEF Passed, Orderly, Path, TypeOK
  <2>5. QED
    BY <1>0, <1>1, <1>2, <2>1, <2>2, <2>3, <2>4 DEF Once
<1>4. CASE ~Consume(r) \/ UNCHANGED challenge
  <2>1. challenge' = challenge
    BY <1>4 DEF Handle, CheckAvailable, Validate, ReadNames, CheckVoucher, Redeem,
                WidevineGate, Seen, DeviceCheckGate, Reserve, ClaimLock, Requery, Insert,
                Mark, Commit, Gone, SessionLost
  <2>2. Passed(r)' => Passed(r)
    <3>1. CASE Seen(r)
      BY <3>1 DEF Seen, Passed
    <3>2. CASE ~Seen(r)
      <4>1. device' = device
        BY <3>2 DEF Handle, CheckAvailable, Validate, ReadNames, CheckVoucher, Redeem,
                    WidevineGate, Consume, DeviceCheckGate, Reserve, ClaimLock, Requery,
                    Insert, Mark, Commit, Gone, SessionLost
      <4>2. pc'[r] = "seen" => pc[r] = "seen"
        <5>1. CASE Consume(r)
          <6>1. input[r].challenge \in Challenges
            BY <1>0, <5>1, VerdictComplete DEF Consume, Path, TypeOK
          <6>2. challenge[input[r].challenge] # "live" \/ challenge' # [challenge EXCEPT ![input[r].challenge] = "spent"]
            BY <1>0, <2>1, <6>1
          <6>3. QED
            BY <1>0, <5>1, <6>2 DEF Consume, Reject, Goto, Answer
        <5>2. CASE ~Consume(r)
          BY <1>0, <3>2, <5>2
          DEF Handle, CheckAvailable, Validate, ReadNames, CheckVoucher, Redeem,
              WidevineGate, Reject, DeviceCheckGate, Reserve, ClaimLock, Requery,
              Insert, Mark, Commit, Gone, SessionLost, Goto, Answer
        <5>3. QED
          BY <5>1, <5>2
      <4>3. QED
        BY <4>1, <4>2 DEF Passed
    <3>3. QED
      BY <3>1, <3>2
  <2>3. QED
    BY <1>1, <1>2, <2>1, <2>2 DEF Once
<1>5. QED
  BY <1>3, <1>4

\* However many claims present one challenge, it carries at most one of them past the
\* Widevine gate, and it is spent only by evidence that verified (consume_challenge).
THEOREM ChallengesOnce == Spec => []ChallengeOnce
<1>1. Init => Once
  BY DEF Init, Once, Passed
<1>2. TypeOK /\ Orderly /\ Once /\ [Next]_vars => Once'
  <2>1. ASSUME TypeOK, Once, VoucherExpires \/ UNCHANGED vars PROVE Once'
    BY <2>1, ExpiryFrame DEF Once, Passed, inputVars, reqVars
  <2>2. QED
    BY <2>1, OnceStep DEF Next
<1>3. Once => ChallengeOnce
  <2> SUFFICES ASSUME Once, NEW c \in Challenges
               PROVE  Cardinality({r \in Requests : device[r] # None /\ input[r].challenge = c})
                        <= 1
    BY DEF Once, ChallengeOnce
  <2> DEFINE S == {r \in Requests : device[r] # None /\ input[r].challenge = c}
  <2>1. \A x, y \in S : x = y
    BY DEF Once, Passed
  <2> HIDE DEF S
  <2>2. Cardinality(S) <= 1
    BY <2>1, AtMostOne
  <2>3. QED
    BY <2>2 DEF S
<1>4. QED
  BY <1>1, <1>2, <1>3, TypeCorrect, ClaimsOrderly, PTL DEF Spec

(***************************************************************************)
(* Free slots.                                                             *)
(***************************************************************************)

\* The devices whose slot is gone, or will be: the bits are set, or about to be set by
\* a claim whose session is dead, and no claim is stored or can still be committed.
Wasted ==
    {d \in Devices : /\ \/ AlreadyUsed(d)
                      \/ \E r \in Requests : pc[r] = "mark" /\ ~tx[r].alive /\ input[r].device = d
                   /\ FreeRows(d) = {} /\ ~Committing(d)}

\* A step of a claim wastes no slot but that of its own device, and that only with a
\* fault: with none, a claim sets Apple's bits on its way to the commit, and a claim at
\* its commit stores the row.
LEMMA WasteStep ==
    ASSUME TypeOK, Orderly, NEW r \in Requests, Handle(r) \/ Gone(r) \/ SessionLost(r),
           NEW d \in Wasted', d \notin Wasted
    PROVE  d = input[r].device /\ faults' = faults + 1
<1> USE DEF inputVars, reqVars
<1>0. /\ Frame(r) /\ Path(r) /\ Holding(r) /\ faults \in Nat /\ d \in Devices
      /\ pc \in [Requests -> PCs] /\ tx \in [Requests -> [digit : Pool \cup {0}, alive : BOOLEAN]]
  BY StepFrame DEF TypeOK, Orderly, Wasted
<1>1. \A q \in Requests \ {r} : /\ pc'[q] = pc[q] /\ tx'[q] = tx[q]
                               /\ input'[q].device = input[q].device
  BY <1>0 DEF Frame, Alike
<1>2. FreeRows(d) = {}
  <2>1. SUFFICES ASSUME NEW n \in FreeRows(d) PROVE FALSE
    OBVIOUS
  <2>2. n \in Rows /\ outbox[n].device = d /\ outbox[n].lane # "instant"
    BY <2>1 DEF FreeRows
  <2>3. n \in Rows' /\ outbox'[n] = outbox[n]
    BY <1>0, <2>2, RowsKept
  <2>4. n \in FreeRows(d)'
    BY <2>2, <2>3 DEF FreeRows
  <2>5. QED
    BY <2>4 DEF Wasted
<1>3. ~Committing(d)' /\ FreeRows(d)' = {}
  BY DEF Wasted
<1>4. CASE Committing(d)
  <2>1. pc[r] = "commit" /\ tx[r].alive /\ input[r].device = d
    BY <1>1, <1>3, <1>4 DEF Committing
  <2>2. SUFFICES ASSUME ~(faults' = faults + 1) PROVE FALSE
    BY <2>1
  <2>3. Commit(r) /\ outbox' = [outbox EXCEPT ![digit[r]] = Row(r, Lane)]
    BY <2>1, <2>2
    DEF Handle, CheckAvailable, Validate, ReadNames, CheckVoucher, Redeem, WidevineGate,
        Consume, Seen, DeviceCheckGate, Reserve, ClaimLock, Requery, Insert, Mark, Commit, Gone,
        SessionLost, Fault
  <2>4. digit[r] \in Pool
    BY <1>0, <2>1 DEF Path
  <2>5. outbox'[digit[r]] = Row(r, Lane) /\ digit[r] \in Rows'
    <3>1. Row(r, Lane) # None
      BY RowTyped, NoneAssumption DEF NoneAssumption, Lane
    <3>2. QED
      BY <2>3, <2>4, <3>1 DEF TypeOK, Rows
  <2>6. digit[r] \in FreeRows(d)'
    BY <2>1, <2>5 DEF FreeRows, Row, Lane
  <2>7. QED
    BY <1>3, <2>6
<1>5. CASE ~Committing(d)
  <2>1. /\ ~AlreadyUsed(d)
        /\ ~\E q \in Requests : pc[q] = "mark" /\ ~tx[q].alive /\ input[q].device = d
    BY <1>0, <1>2, <1>5 DEF Wasted
  <2>2. CASE AlreadyUsed(d)'
    <3>1. Mark(r)
      <4>1. apple' # apple
        BY <2>1, <2>2 DEF AlreadyUsed
      <4>2. QED
        BY <4>1 DEF Handle, CheckAvailable, Validate, ReadNames, CheckVoucher, Redeem,
               WidevineGate, Consume, Seen, DeviceCheckGate, Reserve, ClaimLock, Requery,
               Insert, Commit, Gone, SessionLost
    <3>2. input[r].device = d
      BY <1>0, <2>1, <2>2, <3>1 DEF Mark, AlreadyUsed, TypeOK
    <3>3. tx[r].alive
      BY <2>1, <3>1, <3>2 DEF Mark
    <3>4. SUFFICES ASSUME ~(faults' = faults + 1) PROVE FALSE
      BY <3>2
    <3>5. Goto(r, "commit") /\ tx' = tx /\ input' = input
      BY <3>1, <3>4 DEF Mark, Fault
    <3>6. Committing(d)'
      BY <1>0, <3>2, <3>3, <3>5 DEF Committing, Goto
    <3>7. QED
      BY <1>3, <3>6
  <2>3. CASE ~AlreadyUsed(d)'
    <3>1. PICK q \in Requests : pc'[q] = "mark" /\ ~tx'[q].alive /\ input'[q].device = d
      BY <2>3 DEF Wasted
    <3>2. q = r
      BY <1>1, <2>1, <3>1
    <3>3. input[r].device = d
      BY <1>0, <3>1, <3>2 DEF Frame, Alike
    <3>4. CASE SessionLost(r)
      BY <3>3, <3>4 DEF SessionLost, Fault
    <3>5. CASE Insert(r)
      BY <1>0, <3>1, <3>2, <3>5 DEF Insert, Goto, Answer
    <3>6. CASE ~SessionLost(r) /\ ~Insert(r)
      BY <1>0, <3>1, <3>2, <3>6
      DEF Handle, CheckAvailable, Validate, ReadNames, CheckVoucher, Redeem, WidevineGate,
          Consume, Seen, DeviceCheckGate, Reserve, ClaimLock, Requery, Mark, Commit, Gone, Goto,
          Answer, Reject
    <3>7. QED
      BY <3>4, <3>5, <3>6
  <2>4. QED
    BY <2>2, <2>3
<1>6. QED
  BY <1>4, <1>5

\* A step has at most one fault.
LEMMA FaultsStep ==
    ASSUME [Next]_vars
    PROVE  faults' = faults \/ faults' = faults + 1
<1>1. CASE VoucherExpires \/ UNCHANGED vars
  BY <1>1 DEF VoucherExpires, vars, Fault
<1>2. ASSUME NEW r \in Requests, Handle(r) \/ Gone(r) \/ SessionLost(r)
      PROVE  faults' = faults \/ faults' = faults + 1
  BY <1>2
  DEF Handle, CheckAvailable, Validate, ReadNames, CheckVoucher, Redeem, WidevineGate, Consume,
      Seen, DeviceCheckGate, Reserve, ClaimLock, Requery, Insert, Mark, Commit, Gone,
      SessionLost, Fault, NoFault
<1>3. QED
  BY <1>1, <1>2 DEF Next

\* So the wasted slots are no more than the faults.
LEMMA WasteBounded ==
    ASSUME TypeOK, Orderly, [Next]_vars, IsFiniteSet(Wasted), Cardinality(Wasted) <= faults
    PROVE  IsFiniteSet(Wasted') /\ Cardinality(Wasted') <= faults'
<1>0. faults \in Nat /\ Cardinality(Wasted) \in Nat /\ faults' \in Nat /\ faults' >= faults
  <2>1. faults \in Nat /\ faults' \in Nat
    BY TypeStep DEF TypeOK
  <2>2. faults' = faults \/ faults' = faults + 1
    BY FaultsStep
  <2>3. QED
    BY <2>1, <2>2, FS_CardinalityType
<1>1. CASE Wasted' \subseteq Wasted
  BY <1>0, <1>1, FS_Subset, FS_CardinalityType
<1>2. CASE ~(Wasted' \subseteq Wasted)
  <2>1. PICK d \in Wasted' : d \notin Wasted
    BY <1>2
  <2>2. PICK r \in Requests : Handle(r) \/ Gone(r) \/ SessionLost(r)
    <3>1. CASE VoucherExpires \/ UNCHANGED vars
      <4>1. UNCHANGED <<input, outbox, apple, tx, pc>>
        BY <3>1 DEF VoucherExpires, vars, inputVars, reqVars
      <4>2. Wasted' = Wasted
        BY <4>1 DEF Wasted, AlreadyUsed, FreeRows, Rows, Committing
      <4>3. QED
        BY <2>1, <4>2
    <3>2. QED
      BY <3>1 DEF Next
  <2>3. faults' = faults + 1
    BY <2>1, <2>2, WasteStep
  <2>4. Wasted' \subseteq Wasted \cup {input[r].device}
    BY <2>2, WasteStep
  <2>5. /\ IsFiniteSet(Wasted \cup {input[r].device})
        /\ Cardinality(Wasted \cup {input[r].device}) <= Cardinality(Wasted) + 1
    BY <1>0, FS_AddElement
  <2>6. QED
    BY <1>0, <2>3, <2>4, <2>5, FS_Subset, FS_CardinalityType
<1>3. QED
  BY <1>1, <1>2

\* No device loses its free slot for nothing (free_ios_claim: insert, mark, commit, in
\* this order): the devices whose bits are set although no claim is stored and none is
\* about to be committed are no more than the faults so far.
THEOREM SlotsPaid == Spec => []SlotForRow
<1> DEFINE W == IsFiniteSet(Wasted) /\ Cardinality(Wasted) <= faults
<1>1. Init => W
  <2> SUFFICES ASSUME Init PROVE W
    OBVIOUS
  <2>1. Wasted = {}
    BY DEF Init, Wasted, AlreadyUsed, NoBits
  <2>2. QED
    BY <2>1, FS_EmptySet DEF Init
<1>2. TypeOK /\ Orderly /\ W /\ [Next]_vars => W'
  BY WasteBounded
<1>3. TypeOK /\ W => SlotForRow
  <2> SUFFICES ASSUME TypeOK, W PROVE SlotForRow
    OBVIOUS
  <2> DEFINE S == {d \in Devices : AlreadyUsed(d) /\ FreeRows(d) = {} /\ ~Committing(d)}
  <2>1. S \subseteq Wasted
    BY DEF Wasted
  <2>2. Cardinality(S) <= Cardinality(Wasted) /\ Cardinality(S) \in Nat
        /\ Cardinality(Wasted) \in Nat /\ faults \in Nat
    BY <2>1, FS_Subset, FS_CardinalityType DEF TypeOK
  <2>3. QED
    BY <2>2 DEF SlotForRow
<1>4. QED
  BY <1>1, <1>2, <1>3, TypeCorrect, ClaimsOrderly, PTL DEF Spec

(***************************************************************************)
(* One free reservation per device.                                        *)
(***************************************************************************)

\* A device is an iPhone or an Android phone, and iPhones have no Widevine keys: a
\* request from iOS carries no Widevine evidence that verifies.
OnePlatformPerDevice ==
    \A i, j \in Inputs : /\ i.platform = "ios" => i.evidence # "full"
                         /\ i.device = j.device /\ i.device # None => i.platform = j.platform

\* The assumption holds of what requests carry.
LEMMA CarriedPlatform ==
    ASSUME OnePlatformPerDevice, NEW i \in Carried, NEW j \in Carried
    PROVE  /\ i.platform = "ios" => i.evidence # "full"
           /\ i.device = j.device /\ i.device # None => i.platform = j.platform
<1>1. PICK a \in Inputs : Alike(i, a)
  BY CarriedAlike
<1>2. PICK b \in Inputs : Alike(j, b)
  BY CarriedAlike
<1>3. QED
  BY <1>1, <1>2 DEF OnePlatformPerDevice, Alike

\* A row that a gate had to let through.
Free(n) == n \in Rows /\ outbox[n].lane # "instant" /\ Gated(outbox[n].by)

\* The record that refuses the next claim of a device.
Recorded(n) ==
    /\ outbox[n].device \in Devices
    /\ IF input[outbox[n].by].platform = "ios" THEN AlreadyUsed(outbox[n].device)
                                                ELSE outbox[n].device \in widevine

\* A claim past the second question to Apple competes with no stored claim.
Alone(r) == tx[r].alive /\ pc[r] \in {"insert", "mark", "commit"} =>
              \A n \in Pool : Free(n) => outbox[n].device # input[r].device

Exclusive == /\ \A n \in Pool : Free(n) => Recorded(n)
             /\ \A n, m \in Pool : Free(n) /\ Free(m) /\ outbox[n].device = outbox[m].device
                                     => n = m
             /\ \A r \in Requests : Alone(r)

\* A gated claim that reserves directly is an Android's: its device was not recorded,
\* and now is.
LEMMA ReserveRecords ==
    ASSUME TypeOK, OnePlatformPerDevice, NEW r \in Requests, Path(r), Reserve(r),
           Stores(r, Lane), Gated(r)
    PROVE  /\ input[r].platform # "ios" /\ input[r].device \in Devices
           /\ input[r].device \notin widevine /\ input[r].device \in widevine'
<1>1. pc[r] = "reserve" /\ input[r] \in Carried
  BY DEF Reserve, TypeOK
<1>2. ASSUME device[r] # None PROVE input[r].platform # "ios"
  BY <1>1, <1>2, VerdictComplete, CarriedPlatform DEF Path
<1>3. ~IosGated(r)
  BY <1>1, <1>2 DEF Path, IosGated
<1>4. input[r].platform = "android" /\ Enforced
  BY <1>3 DEF Gated, IosGated, Enforced
<1>5. device[r] # None /\ device[r] = input[r].device
  BY <1>1, <1>4 DEF Path
<1>6. ~UNCHANGED outbox
  BY RowsGrow DEF Lane, Stores, Rows
<1>7. device[r] \notin widevine /\ device[r] \in widevine'
  BY <1>5, <1>6 DEF Reserve
<1>8. QED
  BY <1>1, <1>4, <1>5, <1>7, CarriedFields

\* What a row says of the gates is not changed by a step.
LEMMA FreeKept ==
    ASSUME TypeOK, Orderly, NEW r \in Requests, Handle(r) \/ Gone(r) \/ SessionLost(r),
           NEW n \in Rows
    PROVE  /\ Free(n)' <=> Free(n)
           /\ outbox'[n] = outbox[n]
           /\ Recorded(n) => Recorded(n)'
<1>1. /\ n \in Rows' /\ outbox'[n] = outbox[n] /\ outbox[n].by \in Requests
      /\ Alike(input'[outbox[n].by], input[outbox[n].by])
      /\ mode' = mode
  BY RowsCarry
<1>2. input'[outbox[n].by].platform = input[outbox[n].by].platform
  BY <1>1 DEF Alike
<1>3. Frame(r)
  BY StepFrame
<1>4. QED
  BY <1>1, <1>2, <1>3 DEF Free, Gated, Recorded, Frame

\* A row that is stored now and counts as free is the claim's own, on its lane.
LEMMA FreeIsNew ==
    ASSUME TypeOK, NEW r \in Requests, Frame(r), Path(r), Holding(r),
           Handle(r) \/ Gone(r) \/ SessionLost(r), NEW n \in Pool, n \notin Rows, Free(n)'
    PROVE  /\ ~UNCHANGED outbox
           /\ Stores(r, Lane) /\ (Reserve(r) \/ Commit(r))
           /\ Rows' = Rows \cup {n} /\ outbox'[n] = Row(r, Lane)
           /\ input' = input /\ mode' = mode /\ Gated(r)
<1>1. n \in Rows' /\ outbox'[n].lane # "instant" /\ ~UNCHANGED outbox
  BY DEF Free, Rows
<1>2. ASSUME NEW lane \in {"instant", "queued", "direct"}, Stores(r, lane)
      PROVE  n = digit[r] /\ Rows' = Rows \cup {n} /\ outbox'[n] = Row(r, lane)
  BY <1>1, <1>2, RowsGrow
<1>3. ~Stores(r, "instant")
  BY <1>1, <1>2 DEF Row
<1>4. Stores(r, Lane) /\ (Reserve(r) \/ Commit(r))
  BY <1>1, <1>3, StoresOrKeeps
<1>5. Rows' = Rows \cup {n} /\ outbox'[n] = Row(r, Lane)
  BY <1>2, <1>4 DEF Lane
<1>6. input' = input /\ mode' = mode
  BY <1>4 DEF Stores, Frame
<1>7. outbox'[n].by = r
  BY <1>5 DEF Row
<1>8. Gated(r)
  BY <1>6, <1>7 DEF Free, Gated
<1>9. QED
  BY <1>1, <1>4, <1>5, <1>6, <1>8

\* Another claim's step does not disturb a claim that is alone, nor does its own.
LEMMA AloneStep ==
    ASSUME TypeOK, OnePlatformPerDevice, Orderly, Exclusive, NEW r \in Requests,
           Handle(r) \/ Gone(r) \/ SessionLost(r)
    PROVE  \A q \in Requests : Alone(q)'
<1> USE DEF inputVars, reqVars
<1>0. /\ Frame(r) /\ Path(r) /\ Holding(r)
      /\ pc \in [Requests -> PCs]
      /\ tx \in [Requests -> [digit : Pool \cup {0}, alive : BOOLEAN]]
  BY StepFrame DEF TypeOK, Orderly
<1>1. ASSUME NEW q \in Requests, NEW n \in Rows, Alone(q),
             tx[q].alive, pc[q] \in {"insert", "mark", "commit"}
      PROVE  Free(n)' => outbox'[n].device # input'[q].device
  <2>1. input'[q].device = input[q].device /\ n \in Pool
    BY <1>0 DEF Frame, Alike, Rows
  <2>2. QED
    BY <1>1, <2>1, FreeKept DEF Alone
<1>2. ASSUME NEW q \in Requests \ {r}, tx'[q].alive, pc'[q] \in {"insert", "mark", "commit"},
             NEW n \in Pool, Free(n)'
      PROVE  outbox'[n].device # input'[q].device
  <2>1. tx[q].alive /\ pc[q] = pc'[q] /\ Alone(q)
    BY <1>0, <1>2 DEF Frame, Exclusive
  <2>2. CASE n \in Rows
    BY <1>1, <1>2, <2>1, <2>2
  <2>3. CASE n \notin Rows
    <3>1. /\ ~UNCHANGED outbox /\ Stores(r, Lane) /\ (Reserve(r) \/ Commit(r)) /\ Gated(r)
          /\ outbox'[n] = Row(r, Lane) /\ input' = input
      BY <1>0, <1>2, <2>3, FreeIsNew
    <3>2. CASE Reserve(r)
      <4>1. input[r].platform # "ios" /\ input[r].device \in Devices
        BY <1>0, <3>1, <3>2, ReserveRecords
      <4>2. input[q].platform = "ios"
        BY <1>2, <2>1 DEF Orderly, Path, UnderLock, IosGated
      <4>3. input[q].device # input[r].device
        BY <4>1, <4>2, CarriedPlatform, NoneAssumption DEF TypeOK, NoneAssumption
      <4>4. QED
        BY <3>1, <4>3 DEF Row
    <3>3. CASE Commit(r)
      <4>1. tx[r].alive
        BY <3>1, <3>3 DEF Commit
      <4>2. QED
        BY <2>1, <4>1 DEF TypeOK
    <3>4. QED
      BY <3>1, <3>2, <3>3
  <2>4. QED
    BY <2>2, <2>3
<1>3. Alone(r)'
  <2> SUFFICES ASSUME tx'[r].alive, pc'[r] \in {"insert", "mark", "commit"},
                      NEW n \in Pool, Free(n)'
               PROVE  outbox'[n].device # input'[r].device
    BY DEF Alone
  <2>1. CASE Requery(r)
    <3>1. /\ ~AlreadyUsed(input[r].device) /\ UNCHANGED <<outbox, input>> /\ n \in Rows
          /\ pc[r] = "requery"
      BY <1>0, <2>1 DEF Requery, Answer, Free, Rows
    <3>2. Free(n) /\ outbox'[n] = outbox[n]
      BY <3>1, FreeKept
    <3>3. Recorded(n)
      BY <3>2 DEF Exclusive
    <3>4. input[r].platform = "ios" /\ input[r].device \in Devices /\ input[r] \in Carried
      BY <1>0, <3>1 DEF Path, UnderLock, IosGated, TypeOK
    <3>5. ASSUME outbox[n].device = input[r].device PROVE FALSE
      <4>1. outbox[n].by \in Requests /\ input[outbox[n].by].device = input[r].device
        BY <3>1, <3>5 DEF Orderly, Stored, Rows, TypeOK, RowType
      <4>2. input[outbox[n].by].platform = "ios"
        BY <3>4, <4>1, CarriedPlatform, NoneAssumption DEF TypeOK, NoneAssumption
      <4>3. QED
        BY <3>1, <3>3, <3>5, <4>2 DEF Recorded
    <3>6. QED
      BY <3>1, <3>2, <3>5
  <2>2. CASE Insert(r) \/ Mark(r)
    <3>1. pc[r] \in {"insert", "mark"} /\ tx[r].alive /\ UNCHANGED outbox /\ n \in Rows
      BY <1>0, <2>2 DEF Insert, Mark, Answer, Goto, Free, Rows
    <3>2. QED
      BY <1>1, <3>1 DEF Exclusive
  <2>3. CASE SessionLost(r)
    BY <1>0, <2>3 DEF SessionLost, EndTx, NoTx
  <2>4. CASE ~Requery(r) /\ ~Insert(r) /\ ~Mark(r) /\ ~SessionLost(r)
    BY <1>0, <2>4
    DEF Handle, CheckAvailable, Validate, ReadNames, CheckVoucher, Redeem, WidevineGate, Reject,
        Consume, Seen, DeviceCheckGate, Reserve, ClaimLock, Commit, Gone, Goto, Answer
  <2>5. QED
    BY <2>1, <2>2, <2>3, <2>4
<1>4. QED
  BY <1>2, <1>3 DEF Alone

\* A gated row that is stored now has its record, and no stored row has its device.
LEMMA FreeStored ==
    ASSUME TypeOK, OnePlatformPerDevice, Orderly, Exclusive, NEW r \in Requests,
           Handle(r) \/ Gone(r) \/ SessionLost(r), NEW n \in Pool, n \notin Rows, Free(n)'
    PROVE  /\ Recorded(n)'
           /\ \A m \in Pool : Free(m)' /\ outbox'[n].device = outbox'[m].device => n = m
<1> USE DEF inputVars, reqVars
<1>0. Frame(r) /\ Path(r) /\ Holding(r)
  BY StepFrame DEF Orderly
<1>1. /\ ~UNCHANGED outbox /\ Stores(r, Lane) /\ (Reserve(r) \/ Commit(r)) /\ Gated(r)
      /\ Rows' = Rows \cup {n} /\ outbox'[n] = Row(r, Lane) /\ input' = input
  BY <1>0, FreeIsNew
<1>2. outbox'[n].by = r /\ outbox'[n].device = input[r].device
  BY <1>1 DEF Row
<1>3. SUFFICES /\ Recorded(n)'
               /\ \A m \in Rows : Free(m) => outbox[m].device # input[r].device
  <2>1. ASSUME NEW m \in Pool, Free(m)', outbox'[n].device = outbox'[m].device, m # n
        PROVE  FALSE
    <3>1. m \in Rows
      BY <1>1, <2>1 DEF Free
    <3>2. QED
      BY <1>2, <1>3, <2>1, <3>1, FreeKept
  <2>2. QED
    BY <1>3, <2>1
<1>4. ASSUME NEW m \in Rows, Free(m), outbox[m].device = input[r].device,
             input[r].device \in Devices
      PROVE  input[outbox[m].by].platform = input[r].platform /\ Recorded(m)
  <2>1. outbox[m].by \in Requests /\ input[outbox[m].by].device = input[r].device
    BY <1>4 DEF Orderly, Stored, Rows, TypeOK, RowType
  <2>2. QED
    BY <1>4, <2>1, CarriedPlatform, NoneAssumption DEF TypeOK, NoneAssumption, Exclusive, Rows
<1>5. CASE Reserve(r)
  <2>1. /\ input[r].platform # "ios" /\ input[r].device \in Devices
        /\ input[r].device \notin widevine /\ input[r].device \in widevine'
    BY <1>0, <1>1, <1>5, ReserveRecords
  <2>2. Recorded(n)'
    BY <1>1, <1>2, <2>1 DEF Recorded
  <2>3. QED
    BY <1>4, <2>1, <2>2 DEF Recorded
<1>6. CASE Commit(r)
  <2>1. tx[r].alive /\ pc[r] = "commit" /\ apple' = apple
    BY <1>1, <1>6 DEF Commit
  <2>2. /\ input[r].platform = "ios" /\ input[r].device \in Devices
        /\ AlreadyUsed(input[r].device)
    BY <1>0, <2>1 DEF Path, UnderLock, IosGated
  <2>3. Recorded(n)'
    BY <1>1, <1>2, <2>1, <2>2 DEF Recorded, AlreadyUsed
  <2>4. QED
    BY <2>1, <2>3 DEF Exclusive, Alone, Rows
<1>7. QED
  BY <1>1, <1>5, <1>6

\* Exclusive is inductive.
LEMMA ExclusiveStep ==
    ASSUME TypeOK, OnePlatformPerDevice, Orderly, Exclusive, NEW r \in Requests,
           Handle(r) \/ Gone(r) \/ SessionLost(r)
    PROVE  Exclusive'
<1>1. \A q \in Requests : Alone(q)'
  BY AloneStep
<1>2. ASSUME NEW n \in Pool, Free(n)' PROVE Recorded(n)'
  <2>1. CASE n \in Rows
    BY <1>2, <2>1, FreeKept DEF Exclusive
  <2>2. CASE n \notin Rows
    BY <1>2, <2>2, FreeStored
  <2>3. QED
    BY <2>1, <2>2
<1>3. ASSUME NEW n \in Pool, NEW m \in Pool, Free(n)', Free(m)',
             outbox'[n].device = outbox'[m].device
      PROVE  n = m
  <2>1. CASE n \in Rows /\ m \in Rows
    BY <1>3, <2>1, FreeKept DEF Exclusive
  <2>2. CASE n \notin Rows
    BY <1>3, <2>2, FreeStored
  <2>3. CASE m \notin Rows
    BY <1>3, <2>3, FreeStored
  <2>4. QED
    BY <2>1, <2>2, <2>3
<1>4. QED
  BY <1>1, <1>2, <1>3 DEF Exclusive

\* With its gate enforced, a device gets one free reservation (reserve with its device
\* record, free_ios_claim under its lock): whatever claims of it run at once, whoever's
\* session dies and whichever answers are lost, at most one is stored, and the record
\* that refuses the next one is then set.
THEOREM OneFreeEach ==
    ASSUME OnePlatformPerDevice
    PROVE  Spec => []OneFreePerDevice
<1>1. Init => Exclusive
  BY DEF Init, Exclusive, Free, Rows, Alone, NoTx
<1>2. TypeOK /\ Orderly /\ Exclusive /\ [Next]_vars => Exclusive'
  <2>1. ASSUME TypeOK, Exclusive, VoucherExpires \/ UNCHANGED vars PROVE Exclusive'
    BY <2>1, ExpiryFrame
    DEF Exclusive, Free, Rows, Gated, Recorded, AlreadyUsed, Alone, inputVars, reqVars
  <2>2. QED
    BY <2>1, ExclusiveStep DEF Next
<1>3. Exclusive => OneFreePerDevice
  <2> SUFFICES ASSUME Exclusive, NEW d \in Devices
               PROVE  /\ Cardinality({n \in FreeRows(d) : Gated(outbox[n].by)}) <= 1
                      /\ \A n \in {n \in FreeRows(d) : Gated(outbox[n].by)} :
                           IF input[outbox[n].by].platform = "ios"
                           THEN AlreadyUsed(d) ELSE d \in widevine
    BY DEF OneFreePerDevice
  <2> DEFINE S == {n \in FreeRows(d) : Gated(outbox[n].by)}
  <2>1. \A n \in S : n \in Pool /\ Free(n) /\ outbox[n].device = d
    BY DEF FreeRows, Free, Rows
  <2>2. \A n \in S : IF input[outbox[n].by].platform = "ios" THEN AlreadyUsed(d)
                                                              ELSE d \in widevine
    BY <2>1 DEF Exclusive, Recorded
  <2>3. \A n, m \in S : n = m
    BY <2>1 DEF Exclusive
  <2> HIDE DEF S
  <2>4. Cardinality(S) <= 1
    BY <2>3, AtMostOne
  <2>5. QED
    BY <2>2, <2>4 DEF S
<1>4. QED
  BY <1>1, <1>2, <1>3, TypeCorrect, ClaimsOrderly, PTL DEF Spec

================================================================================

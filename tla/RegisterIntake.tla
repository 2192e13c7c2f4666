---------------------------- MODULE RegisterIntake ----------------------------
(***************************************************************************)
(* POST /api/v1/usernames: concurrent claims from the first check to the   *)
(* stored reservation.  A claim is validated, gets a digit that is free on *)
(* the chain and in the outbox, and then takes one of two lanes: a voucher *)
(* is burnt for an instant reservation; otherwise the device has to be     *)
(* unused, shown by Widevine evidence (Android) or by Apple's two bits     *)
(* (iOS).  The iOS claim is a critical section under an advisory lock.     *)
(*                                                                         *)
(* One base name is modelled, so a full username is its digits.  Apple,    *)
(* the chain's names and the lock are external.                            *)
(***************************************************************************)
EXTENDS Integers, FiniteSets

CONSTANTS
    Requests,
    Inputs,        \* what a request may carry
    Modes,         \* configurations: gates "off", "soft" or "hard"; the queue
    Devices, Vouchers, Challenges,
    None,
    Pool,          \* the digits on offer (1..99 in the code; 0 is never offered)
    ChainTaken,    \* which digits the chain may hold
    QueueCapacity, \* MaxReservationQueueLength
    Skew, MaxAge,  \* tolerance and age bound of a dotNS timestamp
    Faults, MaxFaults

ASSUME IntakeBounds == /\ MaxFaults \in Nat /\ QueueCapacity \in Nat
                       /\ Skew \in Nat /\ MaxAge \in Nat /\ 0 \notin Pool

\* What the body, the headers and the token of a request say to the handler.
InputType == [platform : {"ios", "android", "web"}, subject : STRING, boundTo : STRING,
              device : Devices \cup {None}, token : BOOLEAN,
              evidence : {"none", "partial", "full"}, chain : BOOLEAN,
              challenge : Challenges \cup {None}, voucher : Vouchers \cup {None},
              preferred : {None} \cup Int, reserved : {None} \cup [owned : BOOLEAN, queued : Nat],
              age : {None} \cup Int, bad : SUBSET STRING, signed : BOOLEAN, asks : BOOLEAN]

\* Complete evidence names a device and a challenge, a DeviceCheck token a device.
ASSUME InputsAssumption ==
    /\ Inputs \subseteq InputType
    /\ \A i \in Inputs : i.evidence = "full" => i.device # None /\ i.challenge # None
    /\ \A i \in Inputs : i.token => i.device # None
ASSUME ModesAssumption ==
    Modes \subseteq [widevine : {"off", "soft", "hard"}, devicecheck : {"off", "soft", "hard"},
                    queue : BOOLEAN]

Outcomes == {"invalid", "limited", "error", "full", "digits", "voucher", "taken", "accepted",
             "ineligible", "malformed", "retry", "token", "unavailable", "mark", "lost"}
RowType == [by : Requests, lane : {"instant", "queued", "direct"}, device : Devices \cup {None}]

ASSUME NoneAssumption ==
    /\ None \notin Requests /\ None \notin Devices /\ None \notin Vouchers
    /\ None \notin Challenges /\ None \notin Pool /\ None \notin Outcomes
    /\ None \notin RowType

VARIABLES
    input, mode, taken,     \* fixed at the start
    \* The database and Apple.
    outbox,      \* username_reservations, by digits
    voucher,     \* registration_vouchers: "fresh", "used" or "expired"
    challenge,   \* auth_challenges: "live" or "spent"
    widevine,    \* widevine_devices that are PENDING or CONSUMED
    apple,       \* the two bits of each device, or None
    lock,        \* who holds FREE_IOS_CLAIM_LOCK_KEY
    tx,          \* the row the lock's transaction has inserted, by request
    \* The requests.
    pc, digit, device, outcome,
    faults

inputVars == <<input, mode, taken>>
reqVars   == <<pc, digit, device, outcome>>
vars == <<inputVars, outbox, voucher, challenge, widevine, apple, lock, tx, reqVars, faults>>

NoBits  == [bit0 |-> FALSE, bit1 |-> FALSE, stored |-> FALSE]
Claimed == [bit0 |-> FALSE, bit1 |-> TRUE, stored |-> TRUE]
NoTx    == [digit |-> 0, alive |-> FALSE]

Fault(kind) == kind \in Faults /\ faults < MaxFaults /\ faults' = faults + 1
NoFault     == UNCHANGED faults

Goto(r, where)   == pc' = [pc EXCEPT ![r] = where] /\ UNCHANGED outcome
Answer(r, what)  == /\ pc' = [pc EXCEPT ![r] = "done"]
                    /\ outcome' = [outcome EXCEPT ![r] = what]

--------------------------------------------------------------------------------
(* Validation (request.rs).                                                *)

\* PreferredDigits: two digits, and never 00.
DigitFlags(in) == IF in.preferred = 0 THEN {"preferredDigits"} ELSE {}

\* Dotns::validate: a timestamp (its age) that is neither ahead nor too old.
DotnsFlags(in) ==
    IF in.age # None /\ (in.age < -Skew \/ in.age > MaxAge)
    THEN {"dotns.signedAt"} ELSE {}

\* The candidate's signature over its key, in the form the runtime's metadata
\* announces.
CandidateSigned(in) == in.signed

\* Every format failure is reported at once; the candidate signature is only
\* looked at when there is none.
Report(in) ==
    LET flags == in.bad \cup DigitFlags(in) \cup DotnsFlags(in) IN
    IF flags = {} /\ ~CandidateSigned(in) THEN {"candidateSignature"} ELSE flags

\* Rate limit, header, body, block handle, validate_register.
Validate(r) ==
    /\ pc[r] = "start"
    /\ \/ Report(input[r]) # {} /\ Answer(r, "invalid") /\ NoFault
       \/ Report(input[r]) = {} /\ Goto(r, "names") /\ NoFault
       \/ Answer(r, "limited") /\ Fault("limit")
       \/ Answer(r, "error") /\ Fault("chain")
    /\ UNCHANGED <<inputVars, outbox, voucher, challenge, widevine, apple, lock, tx,
                   digit, device>>

--------------------------------------------------------------------------------
(* The name (usernames.rs, people.rs, available.rs).                       *)

\* ReservationState::rejects: the personhood name is owned, or its queue is full.
Rejects(reserved) == /\ reserved # None
                     /\ reserved.owned \/ reserved.queued >= QueueCapacity

Allocated == {d \in Pool : outbox[d] # None}

\* base_state_at, merge_discriminators, available_digits.
AvailableDigits == Pool \ (taken \cup Allocated)

\* What /usernames/available answers for a valid base.
Availability(reserved) ==
    IF AvailableDigits = {} \/ Rejects(reserved) THEN {} ELSE AvailableDigits

\* The preferred digits, or any that are free.
SelectDigit(in) == IF in.preferred = None THEN AvailableDigits
                   ELSE AvailableDigits \cap {in.preferred}

\* reserved_name, then select_digit.
ReadNames(r) ==
    /\ pc[r] = "names"
    /\ LET in     == input[r]
           wanted == SelectDigit(in) IN
       \/ /\ Rejects(in.reserved)
          /\ Answer(r, "full") /\ UNCHANGED digit /\ NoFault
       \/ /\ ~Rejects(in.reserved)
          /\ \/ /\ wanted = {}
                /\ Answer(r, "digits") /\ UNCHANGED digit
             \/ /\ \E d \in wanted : digit' = [digit EXCEPT ![r] = d]
                /\ Goto(r, IF in.voucher = None THEN "evidence" ELSE "voucher")
          /\ NoFault
       \/ Answer(r, "error") /\ UNCHANGED digit /\ Fault("chain")
    /\ UNCHANGED <<inputVars, outbox, voucher, challenge, widevine, apple, lock, tx, device>>

\* A client that first asks which digits are free and then prefers one of them.
CheckAvailable(r) ==
    /\ pc[r] = "start" /\ input[r].asks
    /\ LET offered == Availability(input[r].reserved) IN
       \E p \in IF offered = {} THEN {None} ELSE offered :
         input' = [input EXCEPT ![r].asks = FALSE, ![r].preferred = p]
    /\ NoFault
    /\ UNCHANGED <<mode, taken, outbox, voucher, challenge, widevine, apple, lock, tx, reqVars>>

\* A row: who claimed it, on which lane, and the device it used up.
Row(r, lane) == [by |-> r, lane |-> lane, device |-> input[r].device]

\* The unique index: an insert waits for a transaction that holds the same name.
Settled(r) == \A q \in Requests \ {r} : tx[q].alive => tx[q].digit # digit[r]
Taken(r)   == outbox[digit[r]] # None

--------------------------------------------------------------------------------
(* The voucher lane (eligibility.rs).                                      *)

\* decide: a voucher redeems or rejects; it never falls through.
CheckVoucher(r) ==
    /\ pc[r] = "voucher"
    /\ \/ voucher[input[r].voucher] = "fresh" /\ Goto(r, "redeem")
       \/ voucher[input[r].voucher] # "fresh" /\ Answer(r, "voucher")
    /\ NoFault
    /\ UNCHANGED <<inputVars, outbox, voucher, challenge, widevine, apple, lock, tx,
                   digit, device>>

\* A variant with the burn outside of the transaction.
RedeemInTwo(r) ==
    /\ pc[r] = "redeem"
    /\ Settled(r)
    /\ LET v == input[r].voucher IN
       \/ voucher[v] # "fresh" /\ Answer(r, "voucher") /\ UNCHANGED <<voucher, outbox>>
       \/ /\ voucher[v] = "fresh"
          /\ voucher' = [voucher EXCEPT ![v] = "used"]
          /\ IF Taken(r)
             THEN Answer(r, "taken") /\ UNCHANGED outbox
             ELSE Answer(r, "accepted") /\ outbox' = [outbox EXCEPT ![digit[r]] = Row(r, "instant")]
    /\ NoFault
    /\ UNCHANGED <<inputVars, challenge, widevine, apple, lock, tx, digit, device>>

\* redeem_and_reserve: the burn and the row commit together or not at all.
Redeem(r) ==
    /\ pc[r] = "redeem"
    /\ Settled(r)
    /\ LET v == input[r].voucher IN
       \/ /\ voucher[v] # "fresh"
          /\ Answer(r, "voucher") /\ NoFault /\ UNCHANGED <<voucher, outbox>>
       \/ /\ voucher[v] = "fresh" /\ Taken(r)
          /\ Answer(r, "taken") /\ NoFault /\ UNCHANGED <<voucher, outbox>>
       \/ /\ voucher[v] = "fresh" /\ ~Taken(r)
          /\ \/ Answer(r, "accepted") /\ NoFault
             \/ Answer(r, "error") /\ Fault("commit")
          /\ voucher' = [voucher EXCEPT ![v] = "used"]
          /\ outbox'  = [outbox EXCEPT ![digit[r]] = Row(r, "instant")]
       \/ Answer(r, "error") /\ Fault("db") /\ UNCHANGED <<voucher, outbox>>
    /\ UNCHANGED <<inputVars, challenge, widevine, apple, lock, tx, digit, device>>

VoucherExpires ==
    /\ \E v \in Vouchers : /\ voucher[v] = "fresh"
                           /\ voucher' = [voucher EXCEPT ![v] = "expired"]
    /\ Fault("expiry")
    /\ UNCHANGED <<inputVars, outbox, challenge, widevine, apple, lock, tx, reqVars>>

--------------------------------------------------------------------------------
(* The Widevine gate (register.rs widevine_gate, widevine.rs).             *)

Enforced == mode.widevine = "hard"

\* A variant that rejects whatever the mode.
RejectAnyway(r, why) == Answer(r, why)

\* Only the hard mode rejects; the soft one goes on without a device.
Reject(r, why) == IF Enforced THEN Answer(r, why) ELSE Goto(r, "devicecheck")

\* extract and verify.  The hash in the certificate binds the challenge, the
\* account and the device, so evidence made for another account is invalid.
Verdict(in) ==
    CASE in.evidence = "none"                    -> "none"
      [] in.evidence = "partial"                 -> "malformed"
      [] in.evidence = "full" /\ (in.boundTo # in.subject \/ ~in.chain) -> "invalid"
      [] OTHER                                   -> "ok"

WidevineGate(r) ==
    /\ pc[r] = "evidence"
    /\ LET in == input[r] IN
       \/ mode.widevine = "off" /\ Goto(r, "devicecheck") /\ NoFault
       \/ /\ mode.widevine # "off" /\ Verdict(in) = "none"
          /\ IF Enforced /\ in.platform = "android" THEN Answer(r, "ineligible")
                                                     ELSE Goto(r, "devicecheck")
          /\ NoFault
       \/ /\ mode.widevine # "off" /\ Verdict(in) \in {"malformed", "invalid"}
          /\ Reject(r, Verdict(in)) /\ NoFault
       \/ /\ mode.widevine # "off" /\ Verdict(in) \in {"invalid", "ok"}
          /\ Reject(r, "retry") /\ Fault("crl")
       \/ /\ mode.widevine # "off" /\ Verdict(in) = "ok"
          /\ Goto(r, "consume") /\ NoFault
    /\ UNCHANGED <<inputVars, outbox, voucher, challenge, widevine, apple, lock, tx,
                   digit, device>>

\* A variant that asks whether the challenge is live and spends it later.
ConsumeUnchecked(r) ==
    /\ pc[r] = "consume"
    /\ challenge' = [challenge EXCEPT ![input[r].challenge] = "spent"]
    /\ Goto(r, "seen")
    /\ NoFault
    /\ UNCHANGED <<inputVars, outbox, voucher, widevine, apple, lock, tx, digit, device>>

\* The challenge is spent once the evidence has verified, in either mode.
Consume(r) ==
    /\ pc[r] = "consume"
    /\ LET c == input[r].challenge IN
       \/ /\ challenge[c] = "live"
          /\ challenge' = [challenge EXCEPT ![c] = "spent"]
          /\ Goto(r, "seen") /\ NoFault
       \/ /\ challenge[c] = "spent"
          /\ UNCHANGED challenge
          /\ Reject(r, "invalid") /\ NoFault
       \/ UNCHANGED challenge /\ Reject(r, "error") /\ Fault("db")
    /\ UNCHANGED <<inputVars, outbox, voucher, widevine, apple, lock, tx, digit, device>>

Seen(r) ==
    /\ pc[r] = "seen"
    /\ LET d == input[r].device IN
       \/ /\ Enforced /\ d \in widevine
          /\ Answer(r, "ineligible") /\ UNCHANGED device /\ NoFault
       \/ /\ Enforced /\ d \notin widevine
          /\ device' = [device EXCEPT ![r] = d]
          /\ Goto(r, "devicecheck") /\ NoFault
       \/ ~Enforced /\ Goto(r, "devicecheck") /\ UNCHANGED device /\ NoFault
       \/ Reject(r, "error") /\ UNCHANGED device /\ Fault("db")
    /\ UNCHANGED <<inputVars, outbox, voucher, challenge, widevine, apple, lock, tx, digit>>

--------------------------------------------------------------------------------
(* The DeviceCheck gate (device_check.rs, device_check/client.rs).         *)

\* query_bits and is_registered.
AlreadyUsed(d) == apple[d].stored /\ ~apple[d].bit0 /\ apple[d].bit1

\* evaluate and decide_gate, for an iOS request; the answer is only the fast path.
DeviceCheckGate(r) ==
    /\ pc[r] = "devicecheck"
    /\ LET in == input[r] IN
       \/ /\ in.platform # "ios" \/ mode.devicecheck # "hard"
          /\ Goto(r, "reserve") /\ NoFault
       \/ /\ in.platform = "ios" /\ mode.devicecheck = "hard"
          /\ \/ ~in.token /\ Answer(r, "token") /\ NoFault
             \/ in.token /\ AlreadyUsed(in.device) /\ Answer(r, "ineligible") /\ NoFault
             \/ /\ in.token /\ ~AlreadyUsed(in.device) /\ NoFault
                /\ Goto(r, IF device[r] = None THEN "lock" ELSE "reserve")
             \/ in.token /\ Answer(r, "unavailable") /\ Fault("apple")
    /\ UNCHANGED <<inputVars, outbox, voucher, challenge, widevine, apple, lock, tx,
                   digit, device>>

--------------------------------------------------------------------------------
(* The reservation (register.rs reserve).                                  *)

Lane == IF mode.queue THEN "queued" ELSE "direct"

\* A variant without the transaction: the row is stored before the device record.
ReserveInTwo(r) ==
    /\ pc[r] = "reserve"
    /\ Settled(r)
    /\ IF Taken(r) THEN Answer(r, "taken") /\ UNCHANGED <<outbox, widevine>>
       ELSE /\ outbox' = [outbox EXCEPT ![digit[r]] = Row(r, Lane)]
            /\ Answer(r, IF device[r] \in widevine THEN "ineligible" ELSE "accepted")
            /\ widevine' = (widevine \cup {device[r]}) \ {None}
    /\ NoFault
    /\ UNCHANGED <<inputVars, voucher, challenge, apple, lock, tx, digit, device>>

\* The plain insert, or with the PENDING device record in one transaction: a
\* device recorded meanwhile rolls the claim back.
Reserve(r) ==
    /\ pc[r] = "reserve"
    /\ Settled(r)
    /\ \/ Taken(r) /\ Answer(r, "taken") /\ NoFault /\ UNCHANGED <<outbox, widevine>>
       \/ /\ ~Taken(r) /\ device[r] \in widevine
          /\ Answer(r, "ineligible") /\ NoFault /\ UNCHANGED <<outbox, widevine>>
       \/ /\ ~Taken(r) /\ device[r] \notin widevine
          /\ \/ Answer(r, "accepted") /\ NoFault
             \/ Answer(r, "error") /\ Fault("commit")
          /\ outbox'   = [outbox EXCEPT ![digit[r]] = Row(r, Lane)]
          /\ widevine' = IF device[r] = None THEN widevine ELSE widevine \cup {device[r]}
       \/ Answer(r, "error") /\ Fault("db") /\ UNCHANGED <<outbox, widevine>>
    /\ UNCHANGED <<inputVars, voucher, challenge, apple, lock, tx, digit, device>>

\* pg_advisory_xact_lock.
ClaimLock(r) ==
    /\ pc[r] = "lock"
    /\ lock = None
    /\ lock' = r
    /\ tx'   = [tx EXCEPT ![r] = [digit |-> 0, alive |-> TRUE]]
    /\ Goto(r, "requery")
    /\ NoFault
    /\ UNCHANGED <<inputVars, outbox, voucher, challenge, widevine, apple, digit, device>>

\* A variant with a lock of the session instead of the transaction.
EndTxOnly(r) == tx' = [tx EXCEPT ![r] = NoTx] /\ UNCHANGED lock

\* The transaction ends, and with it the lock.
EndTx(r) == /\ tx'   = [tx EXCEPT ![r] = NoTx]
            /\ lock' = IF lock = r THEN None ELSE lock

\* A variant that trusts the answer the gate had.
RequeryNot(r) ==
    /\ pc[r] = "requery"
    /\ Goto(r, "insert")
    /\ NoFault
    /\ UNCHANGED <<inputVars, outbox, voucher, challenge, widevine, apple, lock, tx,
                   digit, device>>

\* A variant that marks the slot before the row exists.
RequeryAndMark(r) ==
    /\ pc[r] = "requery"
    /\ IF AlreadyUsed(input[r].device)
       THEN Answer(r, "ineligible") /\ EndTx(r) /\ UNCHANGED apple
       ELSE /\ Goto(r, "insert") /\ UNCHANGED <<lock, tx>>
            /\ apple' = [apple EXCEPT ![input[r].device] = Claimed]
    /\ NoFault
    /\ UNCHANGED <<inputVars, outbox, voucher, challenge, widevine, digit, device>>

\* Apple is asked again under the lock.
Requery(r) ==
    /\ pc[r] = "requery"
    /\ \/ AlreadyUsed(input[r].device) /\ Answer(r, "ineligible") /\ EndTx(r) /\ NoFault
       \/ /\ ~AlreadyUsed(input[r].device)
          /\ Goto(r, "insert") /\ NoFault /\ UNCHANGED <<lock, tx>>
       \/ Answer(r, "unavailable") /\ EndTx(r) /\ Fault("apple")
    /\ UNCHANGED <<inputVars, outbox, voucher, challenge, widevine, apple, digit, device>>

\* The row goes in first; a session that is gone fails here.
Insert(r) ==
    /\ pc[r] = "insert"
    /\ Settled(r)
    /\ \/ /\ tx[r].alive /\ Taken(r)
          /\ Answer(r, "taken") /\ EndTx(r) /\ NoFault
       \/ /\ tx[r].alive /\ ~Taken(r)
          /\ tx' = [tx EXCEPT ![r].digit = digit[r]]
          /\ Goto(r, "mark") /\ UNCHANGED lock /\ NoFault
       \/ ~tx[r].alive /\ Answer(r, "error") /\ EndTx(r) /\ NoFault
    /\ UNCHANGED <<inputVars, outbox, voucher, challenge, widevine, apple, digit, device>>

\* register_device: a call that failed may have reached Apple.
Mark(r) ==
    /\ pc[r] = "mark"
    /\ \/ /\ apple' = [apple EXCEPT ![input[r].device] = Claimed]
          /\ Goto(r, "commit") /\ UNCHANGED <<lock, tx>> /\ NoFault
       \/ /\ \/ apple' = [apple EXCEPT ![input[r].device] = Claimed]
             \/ UNCHANGED apple
          /\ Answer(r, "mark") /\ EndTx(r) /\ Fault("apple")
    /\ UNCHANGED <<inputVars, outbox, voucher, challenge, widevine, digit, device>>

\* A commit whose answer is lost may have happened.
Commit(r) ==
    /\ pc[r] = "commit"
    /\ \/ /\ tx[r].alive
          /\ outbox' = [outbox EXCEPT ![digit[r]] = Row(r, Lane)]
          /\ \/ Answer(r, "accepted") /\ NoFault
             \/ Answer(r, "error") /\ Fault("commit")
       \/ /\ tx[r].alive
          /\ Answer(r, "error") /\ UNCHANGED outbox /\ Fault("db")
       \/ /\ ~tx[r].alive
          /\ Answer(r, "error") /\ NoFault /\ UNCHANGED outbox
    /\ EndTx(r)
    /\ UNCHANGED <<inputVars, voucher, challenge, widevine, apple, digit, device>>

--------------------------------------------------------------------------------
\* The process or the connection of the client goes away: nobody gets an answer,
\* an open transaction is rolled back.
Gone(r) ==
    /\ pc[r] \notin {"start", "done"}
    /\ Answer(r, "lost")
    /\ EndTx(r)
    /\ Fault("crash")
    /\ UNCHANGED <<inputVars, outbox, voucher, challenge, widevine, apple, digit, device>>

\* The database ends the session; the handler has not noticed.
SessionLost(r) ==
    /\ tx[r].alive
    /\ EndTx(r)
    /\ Fault("session")
    /\ UNCHANGED <<inputVars, outbox, voucher, challenge, widevine, apple, reqVars>>

Init ==
    /\ input \in [Requests -> Inputs]
    /\ mode \in Modes
    /\ taken \in ChainTaken
    /\ outbox = [d \in Pool |-> None]
    /\ voucher = [v \in Vouchers |-> "fresh"]
    /\ challenge = [c \in Challenges |-> "live"]
    /\ widevine = {}
    /\ apple = [d \in Devices |-> NoBits]
    /\ lock = None
    /\ tx = [r \in Requests |-> NoTx]
    /\ pc = [r \in Requests |-> "start"]
    /\ digit = [r \in Requests |-> 0]
    /\ device = [r \in Requests |-> None]
    /\ outcome = [r \in Requests |-> None]
    /\ faults = 0

Handle(r) ==
    \/ CheckAvailable(r) \/ Validate(r) \/ ReadNames(r) \/ CheckVoucher(r) \/ Redeem(r)
    \/ WidevineGate(r) \/ Consume(r) \/ Seen(r) \/ DeviceCheckGate(r)
    \/ Reserve(r) \/ ClaimLock(r) \/ Requery(r) \/ Insert(r) \/ Mark(r) \/ Commit(r)

Next == \/ \E r \in Requests : Handle(r) \/ Gone(r) \/ SessionLost(r)
        \/ VoucherExpires

Spec     == Init /\ [][Next]_vars
FairSpec == Spec /\ \A r \in Requests : WF_vars(Handle(r))
--------------------------------------------------------------------------------
(* Properties.                                                             *)

PCs == {"start", "names", "voucher", "redeem", "evidence", "consume", "seen", "devicecheck",
        "reserve", "lock", "requery", "insert", "mark", "commit", "done"}

Rows == {d \in Pool : outbox[d] # None}

\* What a request carries: its input, perhaps with digits picked from those on offer.
Picked(i, p) == [i EXCEPT !.asks = FALSE, !.preferred = p]
Carried == Inputs \cup {Picked(i, p) : i \in Inputs, p \in Pool \cup {None}}

\* Every variable has its type, and the lock belongs to a live transaction.
TypeOK ==
    /\ input \in [Requests -> Carried]
    /\ mode \in Modes /\ taken \in ChainTaken
    /\ outbox \in [Pool -> {None} \cup RowType]
    /\ voucher \in [Vouchers -> {"fresh", "used", "expired"}]
    /\ challenge \in [Challenges -> {"live", "spent"}]
    /\ widevine \subseteq Devices
    /\ apple \in [Devices -> [bit0 : BOOLEAN, bit1 : BOOLEAN, stored : BOOLEAN]]
    /\ lock \in Requests \cup {None}
    /\ \A r \in Requests : tx[r].alive <=> lock = r
    /\ tx \in [Requests -> [digit : Pool \cup {0}, alive : BOOLEAN]]
    /\ pc \in [Requests -> PCs]
    /\ digit \in [Requests -> Pool \cup {0}]
    /\ device \in [Requests -> Devices \cup {None}]
    /\ outcome \in [Requests -> {None} \cup Outcomes]
    /\ faults \in Nat

FreeRows(d) == {n \in Rows : outbox[n].device = d /\ outbox[n].lane # "instant"}

\* Gated(r): the gate of the request's platform is enforced.
Gated(r) == \/ input[r].platform = "ios" /\ mode.devicecheck = "hard"
            \/ input[r].platform = "android" /\ mode.widevine = "hard"

\* One free reservation per device, with the gates enforced: however two claims
\* of one device interleave, whoever's session dies or answers get lost, at most
\* one is stored, and the record that refuses the next claim is then set.
OneFreePerDevice ==
    \A d \in Devices : LET gated == {n \in FreeRows(d) : Gated(outbox[n].by)} IN
      /\ Cardinality(gated) <= 1
      /\ \A n \in gated : IF input[outbox[n].by].platform = "ios"
                          THEN AlreadyUsed(d) ELSE d \in widevine

\* A voucher is burnt for exactly one instant reservation: a conflict on the name,
\* a second redeem or a failure in between leave it as it was.
VoucherForRow ==
    \A v \in Vouchers :
      Cardinality({n \in Rows : outbox[n].lane = "instant" /\ input[outbox[n].by].voucher = v})
        = IF voucher[v] = "used" THEN 1 ELSE 0

\* No device loses its free slot for nothing: the bits are set only together with a
\* stored claim, or while the claim that set them is about to commit.  Each device
\* that is used up without one cost a failed call, a lost commit, a dead session
\* or a lost process of its own.
Committing(d) == \E r \in Requests : pc[r] = "commit" /\ tx[r].alive /\ input[r].device = d
SlotForRow ==
    Cardinality({d \in Devices : AlreadyUsed(d) /\ FreeRows(d) = {} /\ ~Committing(d)}) <= faults

\* A challenge carries at most one claim through the Widevine gate, and only
\* evidence that verified spends it.
ChallengeOnce ==
    \A c \in Challenges :
      LET through == {r \in Requests : device[r] # None /\ input[r].challenge = c} IN
      /\ Cardinality(through) <= 1
      /\ challenge[c] = "spent" =>
           \E r \in Requests : input[r].challenge = c /\ Verdict(input[r]) = "ok"

\* Soft gates only watch: with both gates soft no claim is turned away because of
\* its device, its evidence or an outage of the services behind the gates.
SoftGatesWatch ==
    mode.devicecheck # "hard" /\ mode.widevine # "hard" =>
      \A r \in Requests : outcome[r] \notin {"ineligible", "malformed", "retry", "token",
                                             "unavailable", "mark"}

\* An answer is true: a claim that was accepted is stored under its name, and one
\* that was turned away for a reason of its own is not stored; a name is refused
\* as taken only if somebody has it.
AnswersAreTrue ==
    \A r \in Requests :
      LET mine == {n \in Rows : outbox[n].by = r} IN
      /\ outcome[r] = "accepted" => mine = {digit[r]}
      /\ outcome[r] \notin {None, "accepted", "error", "lost"} => mine = {}
      /\ outcome[r] = "taken" => digit[r] \in Rows

\* Every claim gets its answer: nobody waits for the lock for ever.
Answered == <>(\A r \in Requests : pc[r] = "done")
================================================================================

------------------------------ MODULE Serving ------------------------------
(***************************************************************************)
(* What the HTTP services of the binary share: connections whose handlers  *)
(* run up to their next await in one step, the bearer-token extractor of   *)
(* http-common over jwt-verify, the keyed rate limiter with its refunds,   *)
(* a clock, and the faults a handler can meet.  A handler is dropped at    *)
(* any await when its client goes away or the process dies.                *)
(***************************************************************************)
EXTENDS Integers, FiniteSets, Sequences

CONSTANTS
  Conns,       \* concurrently served connections
  Keys,        \* rate-limiter keys: subjects and aliases
  Subject,     \* the subject the clients authenticate as
  None,        \* absence of a value
  MaxSent,     \* bound: requests the clients send
  MaxFaults,   \* bound: failed calls, dropped handlers and flawed inputs
  MaxClock,    \* bound: clock ticks
  MaxBurst,    \* the limiter's max_burst
  Leeway       \* jsonwebtoken's default leeway on `exp`

ASSUME ServingAssumption ==
  /\ {MaxSent, MaxFaults, MaxClock, Leeway} \subseteq Nat
  /\ MaxBurst \in Nat \ {0}
  /\ IsFiniteSet(Conns)
  /\ None \notin Conns \cup Keys /\ None \notin Int
  /\ None \notin {"MissingHeader", "InvalidHeader", "InvalidToken", "k", "other",
                   "Credit", "Quota"}
  /\ Subject \in Keys

VARIABLES
  role,     \* the role this process was started with
  now,      \* the clock
  faults,   \* faults met so far
  sent,     \* requests sent so far
  pc,       \* pc[c]: where connection c's handler waits, "idle" between requests
  req,      \* req[c]: the request being served
  loc,      \* loc[c]: what the handler carries across its awaits
  reply,    \* reply[c]: the last answer on the connection
  quota,    \* quota[k]: cells governor still grants k
  credits   \* credits[k]: refunded cells banked for k

servingVars == <<role, now, faults, sent, pc, req, loc, reply, quota, credits>>

ServingInit ==
  /\ now = 0 /\ faults = 0 /\ sent = 0
  /\ pc = [c \in Conns |-> "idle"]
  /\ req = [c \in Conns |-> None]
  /\ loc = [c \in Conns |-> None]
  /\ reply = [c \in Conns |-> None]
  /\ quota = [k \in Keys |-> MaxBurst]
  /\ credits = [k \in Keys |-> 0]

-----------------------------------------------------------------------------
(* Steps of a handler. *)

\* a request reaches an idle connection; its handler runs to its first await
\* or answers at once
Arrive(c, in) ==
  /\ pc[c] = "idle"
  /\ sent < MaxSent
  /\ sent' = sent + 1
  /\ faults + (IF in.flawed THEN 1 ELSE 0) <= MaxFaults
  /\ faults' = faults + (IF in.flawed THEN 1 ELSE 0)
  /\ UNCHANGED <<role, now>>

Suspend(c, in, where, carried) ==
  /\ pc' = [pc EXCEPT ![c] = where]
  /\ req' = [req EXCEPT ![c] = in]
  /\ loc' = [loc EXCEPT ![c] = carried]
  /\ UNCHANGED reply

Finish(c, answer) ==
  /\ pc' = [pc EXCEPT ![c] = "idle"]
  /\ req' = [req EXCEPT ![c] = None]
  /\ loc' = [loc EXCEPT ![c] = None]
  /\ reply' = [reply EXCEPT ![c] = answer]

\* the awaited call answers, or fails and spends a fault
Answered == UNCHANGED <<role, now, sent, faults>>
Failed == faults < MaxFaults /\ faults' = faults + 1 /\ UNCHANGED <<role, now, sent>>

\* moves on with the request unchanged
Goto(c, where, carried) == Suspend(c, req[c], where, carried)

-----------------------------------------------------------------------------
(* jwt-verify: Verifier::verify.  A token is [alg, kid, key, exp, sub], the *)
(* verifier holds pairs of a kid (None when pinned without one) and a key.  *)

Candidates(keys, token) ==
  IF token.kid = None THEN keys ELSE {k \in keys : k[1] \in {token.kid, None}}

Verify(keys, token) ==
  /\ token.alg = "EdDSA"
  /\ \E k \in Candidates(keys, token) :
       /\ k[2] = token.key
       /\ token.exp >= now - Leeway

\* the AuthSubject extractor on a header [form, token]: None when the subject
\* is authenticated
AuthRejection(keys, header) ==
  CASE header.form = "absent" -> "MissingHeader"
    [] header.form = "malformed" -> "InvalidHeader"
    [] header.form = "bearer" ->
         IF Verify(keys, header.token) THEN None ELSE "InvalidToken"

\* what a service pins, the header of an honest client, and headers no service
\* may accept
ServiceKeys == {<<"k", "service">>}
Bearer(token) == [form |-> "bearer", token |-> token]
GoodBearer == Bearer([alg |-> "EdDSA", kid |-> "k", key |-> "service", sub |-> Subject,
                      exp |-> MaxClock])
BadBearers ==
  LET good == GoodBearer.token IN
    {[form |-> "absent"], [form |-> "malformed"]}
      \cup {Bearer([good EXCEPT !.alg = "HS256"]), Bearer([good EXCEPT !.kid = "other"]),
            Bearer([good EXCEPT !.key = "other"]), Bearer([good EXCEPT !.exp = -Leeway - 1])}

-----------------------------------------------------------------------------
(* http-common: the rate limiter. *)

\* banked credit first, then governor's quota; None is the 429
Payment(k) ==
  CASE credits[k] > 0 -> "Credit"
    [] credits[k] = 0 /\ quota[k] > 0 -> "Quota"
    [] credits[k] = 0 /\ quota[k] = 0 -> None

Charge(k, paid) ==
  /\ credits' = IF paid = "Credit" THEN [credits EXCEPT ![k] = @ - 1] ELSE credits
  /\ quota' = IF paid = "Quota" THEN [quota EXCEPT ![k] = @ - 1] ELSE quota

\* only a request paid from the quota is given back, and never past the burst
Refund(k, paid) ==
  /\ credits' = IF paid = "Quota" /\ credits[k] < MaxBurst
                THEN [credits EXCEPT ![k] = @ + 1] ELSE credits
  /\ UNCHANGED quota

NoCharge == UNCHANGED <<quota, credits>>

-----------------------------------------------------------------------------
\* time passes: governor replenishes one cell per interval
Tick ==
  /\ now < MaxClock
  /\ now' = now + 1
  /\ quota' = [k \in Keys |-> IF quota[k] < MaxBurst THEN quota[k] + 1 ELSE MaxBurst]
  /\ UNCHANGED <<role, faults, sent, pc, req, loc, reply, credits>>

\* the handler's future is dropped at its await: nothing after it happens
Drop(c) ==
  /\ pc[c] # "idle"
  /\ Failed
  /\ Finish(c, "dropped")
  /\ NoCharge

\* every client is done; the service only waits
Quiet ==
  /\ sent = MaxSent
  /\ \A c \in Conns : pc[c] = "idle"
  /\ UNCHANGED servingVars

\* The clock and the counters stay in their bounds, a handler that waits holds its
\* request and an idle connection none, and no rate limit goes below zero or above
\* its burst.
ServingTypeOK ==
  /\ now \in 0..MaxClock /\ faults \in 0..MaxFaults /\ sent \in 0..MaxSent
  /\ \A c \in Conns :
       IF pc[c] = "idle" THEN req[c] = None ELSE req[c].flawed \in BOOLEAN
  /\ quota \in [Keys -> 0..MaxBurst]
  /\ credits \in [Keys -> 0..MaxBurst]
=============================================================================

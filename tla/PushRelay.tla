----------------------------- MODULE PushRelay -----------------------------
(***************************************************************************)
(* The notification relay: one authenticated, rate-limited route that      *)
(* forwards a push to APNs, with one retry at the sibling environment, or  *)
(* to FCM, each with a cached provider token shared by the handlers.       *)
(***************************************************************************)
EXTENDS Serving

CONSTANTS
  PushDeployments,    \* [apns, fcm]: which providers are configured
  Devices,            \* device tokens: [home, form], form is "hex" or "other"
  ApnsRefresh,        \* TOKEN_REFRESH_SECS of apns.rs
  ApnsLife,           \* how long Apple accepts a provider token
  FcmExpiresIn,       \* expires_in of an FCM access token
  FcmBuffer,          \* TOKEN_REFRESH_BUFFER_SECS
  PushTimeout,        \* REQUEST_TIMEOUT of the provider clients
  EarlierApns, EarlierFcm   \* tokens a running process may already hold

ASSUME PushAssumption ==
  /\ {ApnsRefresh, ApnsLife, FcmExpiresIn, FcmBuffer, PushTimeout} \subseteq Nat
  /\ EarlierApns \subseteq Int /\ EarlierFcm \subseteq Int
  /\ None # "success"
  /\ ApnsRefresh > 0 /\ ApnsLife >= ApnsRefresh + 2 * PushTimeout
  /\ FcmBuffer >= PushTimeout /\ FcmExpiresIn > 2 * PushTimeout

VARIABLES
  pushConfig,   \* the deployment
  apnsToken,    \* issued_at of the cached APNs provider token, or None
  fcmToken,     \* expires_at of the cached FCM access token, or None
  delivered,    \* history: delivered[n] pushes of request n reached a device
  told          \* history: what request n's client was told, or None

pushVars == <<pushConfig, apnsToken, fcmToken, delivered, told>>

Pushes == 1..MaxSent

PushIdle ==
  /\ pushConfig = CHOOSE f \in PushDeployments : TRUE
  /\ apnsToken = None /\ fcmToken = None /\ delivered = <<>> /\ told = <<>>

PushInit ==
  /\ pushConfig \in PushDeployments
  /\ apnsToken \in {None} \cup EarlierApns
  /\ fcmToken \in {None} \cup EarlierFcm
  /\ delivered = [n \in Pushes |-> 0]
  /\ told = [n \in Pushes |-> None]

-----------------------------------------------------------------------------
\* the hint is authoritative; otherwise a hex token is an iPhone's
Detect(device, hint) ==
  IF hint # None THEN hint ELSE IF device.form = "hex" THEN "ios" ELSE "android"

Environments == {"production", "development"}
Other(env) == IF env = "production" THEN "development" ELSE "production"

FreshApnsAny(at) == apnsToken # None  \* variant: a cached token is never renewed

FreshApns(at) == apnsToken # None /\ at - apnsToken < ApnsRefresh
FreshFcm(at) == fcmToken # None /\ at < fcmToken

\* the answer to request n; a provider failure is a 200 too
Tell(c, n, what) ==
  /\ Finish(c, what)
  /\ told' = [told EXCEPT ![n] = what]

\* provider.send up to its first await
StartSend(c, in) ==
  CASE Detect(in.device, in.hint) = "ios" /\ pushConfig.apns ->
         /\ apnsToken' = IF FreshApns(now) THEN apnsToken ELSE now
         /\ Suspend(c, in, "apns", [env |-> "production", token |-> apnsToken', began |-> now])
         /\ UNCHANGED told
    [] Detect(in.device, in.hint) = "android" /\ pushConfig.fcm ->
         /\ IF FreshFcm(now)
            THEN Suspend(c, in, "fcm", [token |-> fcmToken + FcmBuffer, began |-> now])
            ELSE Suspend(c, in, "token", [token |-> 0, began |-> now])
         /\ UNCHANGED <<apnsToken, told>>
    [] OTHER -> Tell(c, in.n, "failed") /\ UNCHANGED apnsToken

PushRequests ==
       [flawed : {FALSE}, n : {sent + 1}, header : {GoodBearer}, body : {"valid"},
        device : Devices, hint : {None, "ios", "android"}]
  \cup [flawed : {TRUE}, n : {sent + 1}, header : BadBearers, body : {"valid"},
        device : {CHOOSE d \in Devices : TRUE}, hint : {None}]
  \cup [flawed : {TRUE}, n : {sent + 1}, header : {GoodBearer}, body : {"malformed", "invalid"},
        device : {CHOOSE d \in Devices : TRUE}, hint : {None}]

\* bearer, JSON, fields, rate limit, provider, in this order
NotifyArrives(c) ==
  \E in \in PushRequests :
    /\ Arrive(c, in)
    /\ IF AuthRejection(ServiceKeys, in.header) # None
         THEN Tell(c, in.n, "Unauthorized") /\ NoCharge /\ UNCHANGED apnsToken
       ELSE IF in.body # "valid"
         THEN Tell(c, in.n, "BadRequest") /\ NoCharge /\ UNCHANGED apnsToken
       ELSE LET k == in.header.token.sub IN
            /\ Charge(k, Payment(k))
            /\ IF Payment(k) = None THEN Tell(c, in.n, "RateLimited") /\ UNCHANGED apnsToken
               ELSE StartSend(c, in)
    /\ UNCHANGED <<pushConfig, fcmToken, delivered>>

-----------------------------------------------------------------------------
(* APNs. *)

Delivers(n) == delivered' = [delivered EXCEPT ![n] = @ + 1]

\* a retired token is a 410, another environment's a 400 BadDeviceToken
Reason(device, env) ==
  IF device.home = env THEN None
  ELSE IF device.home = "retired" THEN "Unregistered" ELSE "BadDeviceToken"

\* only BadDeviceToken is worth the sibling environment, and only once
RetryOther(c, reason) == reason = "BadDeviceToken" /\ loc[c].env = "production"

ApnsAnswers(c) ==
  LET in == req[c]
      reason == Reason(in.device, loc[c].env) IN
  /\ pc[c] = "apns" /\ Answered /\ NoCharge
  /\ \/ reason = None /\ Delivers(in.n) /\ Tell(c, in.n, "success")
     \/ /\ reason # None /\ UNCHANGED delivered
        /\ IF RetryOther(c, reason)
           THEN /\ Goto(c, "apns", [loc[c] EXCEPT !.env = Other(@), !.began = now])
                /\ UNCHANGED told
           ELSE Tell(c, in.n, "failed")
  /\ UNCHANGED <<pushConfig, apnsToken, fcmToken>>

-----------------------------------------------------------------------------
(* FCM. *)

\* the token's life is reckoned from before the exchange; the last of two
\* concurrent exchanges is the one cached
FcmExchanged(c) ==
  /\ pc[c] = "token" /\ Answered /\ NoCharge
  /\ fcmToken' = loc[c].began + FcmExpiresIn - FcmBuffer
  /\ Goto(c, "fcm", [token |-> loc[c].began + FcmExpiresIn, began |-> now])
  /\ UNCHANGED <<pushConfig, apnsToken, delivered, told>>

FcmAnswers(c) ==
  LET in == req[c] IN
  /\ pc[c] = "fcm" /\ Answered /\ NoCharge
  /\ \/ in.device.home = "android" /\ Delivers(in.n) /\ Tell(c, in.n, "success")
     \/ in.device.home # "android" /\ UNCHANGED delivered /\ Tell(c, in.n, "failed")
  /\ UNCHANGED <<pushConfig, apnsToken, fcmToken>>

\* a provider refuses for its own reasons, cannot be reached, or accepts a push
\* whose answer is lost
ProviderFails(c) ==
  LET in == req[c] IN
  /\ pc[c] \in {"apns", "token", "fcm"} /\ Failed /\ NoCharge
  /\ \/ UNCHANGED delivered
     \/ pc[c] = "apns" /\ in.device.home = loc[c].env /\ Delivers(in.n)
     \/ pc[c] = "fcm" /\ in.device.home = "android" /\ Delivers(in.n)
  /\ Tell(c, in.n, "failed")
  /\ UNCHANGED <<pushConfig, apnsToken, fcmToken>>

\* a dropped handler's push may still be on its way
NotifyDropped(c) ==
  /\ Drop(c)
  /\ \/ UNCHANGED delivered
     \/ pc[c] = "fcm" /\ req[c].device.home = "android" /\ Delivers(req[c].n)
     \/ pc[c] = "apns" /\ req[c].device.home = loc[c].env /\ Delivers(req[c].n)
  /\ UNCHANGED <<pushConfig, apnsToken, fcmToken, told>>

\* no provider call outlasts its timeout
PushTick ==
  /\ \A c \in Conns : pc[c] # "idle" => now - loc[c].began < PushTimeout
  /\ Tick /\ UNCHANGED pushVars

PushNext ==
  \/ \E c \in Conns :
       \/ NotifyArrives(c) \/ ApnsAnswers(c) \/ FcmExchanged(c) \/ FcmAnswers(c)
       \/ ProviderFails(c) \/ NotifyDropped(c)
  \/ PushTick

-----------------------------------------------------------------------------
\* Pushes are relayed once and reported truthfully: no request reaches a device
\* twice, success is told only of a push that reached one, only a fault hides a
\* delivery, the limiter bounds deliveries whatever the outcome, and a provider
\* never sees a token past its life, cached, shared or retried with.
PushesHonest == role = "push" =>
  /\ \A n \in Pushes : delivered[n] <= 1 /\ (told[n] = "success" => delivered[n] = 1)
  /\ Cardinality({n \in Pushes : delivered[n] = 1 /\ told[n] # "success"}) <= faults
  /\ Cardinality({n \in Pushes : delivered[n] = 1}) <= MaxBurst + now
  /\ \A c \in Conns :
       /\ pc[c] = "apns" => now - loc[c].token < ApnsLife
       /\ pc[c] = "fcm" => now < loc[c].token

\* Handlers and delivery counts have their type, and a push on its way to APNs names
\* one of the two environments.
PushTypeOK == role = "push" =>
  /\ pc \in [Conns -> {"idle", "apns", "token", "fcm"}]
  /\ delivered \in [Pushes -> Nat]
  /\ \A c \in Conns : pc[c] = "apns" => loc[c].env \in Environments
=============================================================================

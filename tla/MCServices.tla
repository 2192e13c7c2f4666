----------------------------- MODULE MCServices -----------------------------
(***************************************************************************)
(* One process of the binary: it runs one role, and the roles' state       *)
(* machines share the serving layer.                                       *)
(***************************************************************************)
EXTENDS AuthTokens, InviteTickets, TurnCredentials, PushRelay, UsernameSearch, TLC

Symmetry == Permutations(Conns) \cup Permutations(Maintainers)

Cert == [valid |-> TRUE, signed |-> TRUE]

Assertion(k, n) ==
  [type |-> "ios", package |-> "app", headers |-> TRUE, signature |-> TRUE,
   app |-> "app", key |-> k, count |-> n]
GoodKey == CHOOSE k \in AttestKeys : TRUE

Description ==
  [attestationLevel |-> 1, keyLevel |-> 2,
   rootOfTrust |-> [bootKey |-> GrapheneKey, state |-> "SelfSigned", locked |-> TRUE],
   challenge |-> TRUE, packages |-> {"app"}, digests |-> {WebsiteDigest}]
Chain ==
  [type |-> "key", body |-> TRUE, ordered |-> TRUE, cert |-> Cert, usage |-> TRUE,
   serial |-> CHOOSE s \in Serials : TRUE, rooted |-> TRUE, leafExtension |-> TRUE,
   description |-> Description]
Play ==
  [type |-> "play", package |-> "app", headers |-> TRUE, sealed |-> TRUE,
   payload |-> [nonce |-> TRUE, app |-> "PLAY_RECOGNIZED", licensing |-> "LICENSED",
                device |-> {"MEETS_DEVICE_INTEGRITY"}, digests |-> {StoreDigest},
                package |-> "app"]]

MCFirstEvidence == Assertion(GoodKey, 1)
MCEvidence ==
  {Assertion(GoodKey, 2), Chain, Play,
   [Play EXCEPT !.payload.licensing = "UNLICENSED"]}
MCFlawedEvidence ==
  {[Assertion(GoodKey, 2) EXCEPT !.signature = FALSE],
   [Assertion(GoodKey, 2) EXCEPT !.package = "unknown"],
   [Chain EXCEPT !.body = FALSE],
   [Chain EXCEPT !.description.rootOfTrust.bootKey = PublicTestKey],
   [Play EXCEPT !.headers = FALSE],
   [Play EXCEPT !.payload.nonce = FALSE],
   [type |-> "other"]}

Object ==
  [decodes |-> TRUE, cred |-> Cert, intermediate |-> Cert, nonce |-> TRUE,
   keyId |-> TRUE, app |-> "app", counter |-> 0, aaguid |-> "prod"]
MCAttestations == {Object}
MCFlawedAttestations == {[Object EXCEPT !.nonce = FALSE]}

MCAuthConfigs ==
  {[mode |-> "off", play |-> "Strict", playKeys |-> "none", digests |-> FALSE],
   [mode |-> "soft", play |-> "RelaxedAll", playKeys |-> "self", digests |-> TRUE],
   [mode |-> "hard", play |-> "Strict", playKeys |-> "google", digests |-> TRUE]}

MCPoolDims == <<"Game", "ProofOfInk">>
MCInvites == [Game |-> 2, ProofOfInk |-> 3]

TurnDeployment(provider, proof, genesis, cached, rotations) ==
  [provider |-> provider, proof |-> proof, genesis |-> genesis, cached |-> cached,
   rotations |-> rotations]
MCTurnDeployments ==
  {TurnDeployment("coturn", TRUE, "ours", FALSE, 1),
   TurnDeployment("coturn", TRUE, "other", FALSE, 1),
   TurnDeployment("coturn", TRUE, "unknown", FALSE, 0),
   TurnDeployment("cloudflare", FALSE, "ours", TRUE, 0),
   TurnDeployment("cloudflare", TRUE, "ours", TRUE, 0)}

MCPushDeployments == [apns : {TRUE}, fcm : BOOLEAN]
MCDevices ==
  {[home |-> "production", form |-> "hex"], [home |-> "development", form |-> "hex"],
   [home |-> "retired", form |-> "hex"], [home |-> "android", form |-> "other"]}
MCEarlierApns == {-1, -2}
MCEarlierFcm == {0, 1}

CONSTANTS u1, u2, u3
MCFirstRanks == (u1 :> 1) @@ (u2 :> 3) @@ (u3 :> 2)

Roles == {"auth", "invite", "turn", "push", "search"}
vars == <<servingVars, authVars, inviteVars, turnVars, pushVars, searchVars>>

Init ==
  /\ ServingInit
  /\ role \in Roles
  /\ IF role = "auth" THEN AuthInit ELSE AuthIdle
  /\ IF role = "invite" THEN InviteInit ELSE InviteIdle
  /\ IF role = "turn" THEN TurnInit ELSE TurnIdle
  /\ IF role = "push" THEN PushInit ELSE PushIdle
  /\ IF role = "search" THEN SearchInit ELSE SearchIdle

Next ==
  \/ role = "auth" /\ AuthNext /\ UNCHANGED <<inviteVars, turnVars, pushVars, searchVars>>
  \/ role = "invite" /\ InviteNext /\ UNCHANGED <<authVars, turnVars, pushVars, searchVars>>
  \/ role = "turn" /\ TurnNext /\ UNCHANGED <<authVars, inviteVars, pushVars, searchVars>>
  \/ role = "push" /\ PushNext /\ UNCHANGED <<authVars, inviteVars, turnVars, searchVars>>
  \/ role = "search" /\ SearchNext /\ UNCHANGED <<authVars, inviteVars, turnVars, pushVars>>
  \/ Quiet /\ UNCHANGED <<authVars, inviteVars, turnVars, pushVars, searchVars>>

Spec == Init /\ [][Next]_vars

\* The state of the serving layer and of whichever role the process runs has its
\* type, with each role's limits (batch size, breaker, verification slots) kept.
ServicesTypeOK ==
  ServingTypeOK /\ AuthTypeOK /\ InviteTypeOK /\ TurnTypeOK /\ PushTypeOK /\ SearchTypeOK
=============================================================================

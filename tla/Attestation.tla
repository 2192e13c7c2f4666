---------------------------- MODULE Attestation ----------------------------
(***************************************************************************)
(* The platform evidence a client may present and the pure verification of *)
(* each kind: App Attest registration and assertion, an Android key        *)
(* attestation chain, a Play Integrity verdict.  Bytes, certificates and   *)
(* signatures are reduced to the outcome of the check made on them.        *)
(***************************************************************************)
EXTENDS Naturals

Allowed == {"app"}               \* allow-listed package names and app ids
StoreDigest == "store"           \* the Play Store signing digest
WebsiteDigest == "website"       \* the website build's signing digest
GrapheneKey == "graphene"        \* a trusted self-signed verified-boot key
PublicTestKey == "avbtest"       \* a known-public AVB key

\* one link of a certificate chain: in its validity window and signed by its parent
CertOk(cert) == cert.valid /\ cert.signed

-----------------------------------------------------------------------------
(* App Attest. *)

\* the CBOR envelope and the authenticator data have their shape
Decodes(a) == a.decodes

AttestationOk(a) ==
  /\ Decodes(a)
  /\ CertOk(a.cred) /\ CertOk(a.intermediate)
  /\ a.nonce                     \* binds the authenticator data and the challenge
  /\ a.keyId                     \* the key hashes to the id and to the credential id
  /\ a.app \in Allowed
  /\ a.counter = 0
  /\ a.aaguid \in {"prod", "dev"}

\* verify_assertion against the stored counter; the caller commits e.count
AssertionOk(e, prevSignCount) ==
  /\ e.signature                 \* by the stored key, over the client data hash
  /\ e.app \in Allowed
  /\ e.count > prevSignCount

-----------------------------------------------------------------------------
(* Android key attestation. *)

\* chain_from_body: 2..10 base64 entries
ChainDecodes(e) == e.body

LevelOk(level) == level \in {1, 2}     \* TEE or StrongBox

RootOfTrustOk(rot) ==
  /\ rot.bootKey # PublicTestKey
  /\ \/ rot.state = "Verified"
     \/ rot.state = "SelfSigned" /\ rot.bootKey = GrapheneKey
  /\ rot.locked

\* check_policy on the parsed key description
PolicyOk(d) ==
  /\ LevelOk(d.attestationLevel) /\ LevelOk(d.keyLevel)
  /\ RootOfTrustOk(d.rootOfTrust)
  /\ d.challenge
  /\ d.packages # {} /\ d.packages \subseteq Allowed
  /\ \E digest \in {StoreDigest, WebsiteDigest} : d.digests = {digest}

\* every non-leaf certificate may sign certificates
KeyUsageOk(e) == e.usage
Revoked(e, revoked) == e.serial \in revoked

\* the key description is on the leaf alone and its DER parses
LeafExtension(e) == e.leafExtension

\* verify_chain: order, validity, key usage, revocation, signatures, root,
\* the extension on the leaf alone, then the policy
VerifyChain(e, revoked) ==
  /\ e.ordered
  /\ CertOk(e.cert)
  /\ KeyUsageOk(e)
  /\ ~Revoked(e, revoked)
  /\ e.rooted
  /\ LeafExtension(e)
  /\ PolicyOk(e.description)

-----------------------------------------------------------------------------
(* Play Integrity. *)

\* the token decrypts and its inner signature holds
Sealed(e) == e.sealed

Recognitions == {"PLAY_RECOGNIZED", "UNRECOGNIZED_VERSION", "UNEVALUATED"}
DeviceVerdicts == {"MEETS_DEVICE_INTEGRITY", "MEETS_BASIC_INTEGRITY",
                   "MEETS_STRONG_INTEGRITY", "MEETS_VIRTUAL_INTEGRITY"}
Licensings == {"LICENSED", "UNLICENSED", "UNEVALUATED"}

\* what each PLAY_INTEGRITY_MODE accepts
ModePolicy(mode) ==
  CASE mode = "Strict" ->
         [app |-> {"PLAY_RECOGNIZED"},
          device |-> {"MEETS_STRONG_INTEGRITY", "MEETS_DEVICE_INTEGRITY"},
          emptyDevice |-> FALSE, licensing |-> {"LICENSED"}, missingApp |-> FALSE]
    [] mode = "RelaxedDevice" ->
         [app |-> {"PLAY_RECOGNIZED"},
          device |-> DeviceVerdicts \ {"MEETS_VIRTUAL_INTEGRITY"},
          emptyDevice |-> FALSE, licensing |-> {"LICENSED"}, missingApp |-> FALSE]
    [] mode = "RelaxedAll" ->
         [app |-> Recognitions, device |-> DeviceVerdicts,
          emptyDevice |-> TRUE, licensing |-> Licensings, missingApp |-> TRUE]

\* validate, with the nonce check of check_payload before it
PayloadOk(p, mode) ==
  LET policy == ModePolicy(mode)
      device == p.device \cap DeviceVerdicts
  IN /\ p.nonce
     /\ p.app \in policy.app
     /\ IF device = {} THEN policy.emptyDevice ELSE device \cap policy.device # {}
     /\ p.licensing \in policy.licensing
     /\ IF p.digests = {} THEN policy.missingApp
        ELSE p.digests \cap {StoreDigest, WebsiteDigest} # {}
     /\ IF p.package = "" THEN policy.missingApp ELSE p.package \in Allowed

\* appFromOfficialStore of an accepted payload, whatever the mode
PlayDistributed(p) ==
  /\ p.app = "PLAY_RECOGNIZED"
  /\ p.licensing = "LICENSED"
  /\ StoreDigest \in p.digests
=============================================================================

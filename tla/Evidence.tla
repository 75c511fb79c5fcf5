------------------------------ MODULE Evidence ------------------------------
(***************************************************************************)
(* The evidence model of src/src/model.rs: the enumerations a request is   *)
(* written in, the record types, and the predicates on certificates and    *)
(* checks that the oracle and the analyses share.                          *)
(*                                                                         *)
(* Digests, identifiers and times are atomic values: the program only      *)
(* compares them, apart from the well-formedness test of a digest, which   *)
(* is membership in Sha256 here (Malformed holds the other strings).       *)
(***************************************************************************)
EXTENDS Sequences, Integers

CONSTANTS
  Sha256,       \* well-formed digests: 64 lower-case hexadecimal digits
  Malformed,    \* digest strings that are not well formed
  Names,        \* certificate, evidence and operation identifiers
  Times,        \* RFC 3339 time stamps
  EmptyString,  \* the empty identifier or name
  BadTime,      \* a time stamp that RFC 3339 parsing refuses
  None          \* Option::None

ASSUME NoneIsNoValue ==
  /\ None \notin Sha256 \cup Malformed \cup Names \cup {EmptyString}
  /\ Sha256 \cap Malformed = {}
  /\ EmptyString \notin Names
  /\ BadTime \notin Times

-----------------------------------------------------------------------------
(* Enumerations *)

Policy == {"P0Classical", "P1OptionalHybrid", "P2RequiredHybrid", "P3Continuity"}
PathScope == {"EndEntity", "CertificationPath"}
PathPosition == {"EndEntity", "Intermediate", "TrustAnchor"}
AlgorithmSecurity == {"Classical", "PostQuantum", "Hybrid", "Unknown"}
BindingDesign == {"None", "AtomicComposite", "Catalyst", "Chameleon",
                  "RelatedCertificate", "Unknown"}
EvidenceKind == {"Classical", "PostQuantum"}
CheckState == {"Pass", "Fail", "Indeterminate", "NotChecked", "NotApplicable"}
Confidence == {"Observed", "BehaviorallyEstablished", "Inferred", "Unknown"}
StackVerdict == {"Accept", "Reject", "Indeterminate", "Unsupported"}
ValidationProfile == {"X509Path", "WebPkiServer", "EvidenceSignature"}
PathObservationSource == {"PresentedInput", "AdapterSelected", "NotReported"}
RevocationMethod == {"Ocsp", "Crl", "None"}
RevocationPolicyMode == {"HardFail", "SoftFail", "NotRequired"}
PolicyVerdict == {"ClassicalClaimSetSatisfied", "HybridClaimSetSatisfied",
                  "Reject", "Indeterminate", "Unsupported"}

\* The eight checks of Evidence::checks.
CheckName == {"present", "recognized", "signature", "binding", "path",
              "validity", "revocation", "decision_sensitive"}

-----------------------------------------------------------------------------
(* Records *)

Strings == Sha256 \cup Malformed
Optional(S) == S \cup {None}

CheckResult == [state : CheckState, confidence : Confidence]

CertificateNode ==
  [id : Names, position : PathPosition,
   subject_public_key_scheme : AlgorithmSecurity,
   certificate_signature_scheme : AlgorithmSecurity,
   binding_design : BindingDesign,
   der_sha256 : Optional(Strings), issuer_edge_sha256 : Optional(Strings)]

\* The two optional bounds of the policy only matter to the OCSP client; the
\* oracle compares whole policies, so one value stands for both bounds.
RevocationPolicy == [mode : RevocationPolicyMode, bounds : {"unset", "set"}]

EvidenceItem ==
  [id : Names, certificate_id : Names, position : PathPosition,
   certificate_der_sha256 : Optional(Strings),
   evidence_artifact_der_sha256 : Optional(Strings),
   issuer_edge_sha256 : Optional(Strings),
   authentication_operation_id : Optional(Names \cup {EmptyString}),
   kind : EvidenceKind, checks : [CheckName -> CheckResult],
   revocation_method : RevocationMethod,
   applied_revocation_policy : RevocationPolicy]

TrustAnchor ==
  [kind : {"CertificateDerSha256"}, der_sha256 : Strings]
    \cup [kind : {"NameAndSpkiSha256"}, name : Names \cup {EmptyString},
          spki_sha256 : Strings]
    \cup [kind : {"LocalIdentifier"}, identifier : Names \cup {EmptyString}]

PairedAuthentication ==
  [operation_id : Names \cup {EmptyString}, classical_certificate_id : Names,
   post_quantum_certificate_der_sha256 : Strings,
   same_authentication_operation : CheckResult]

StackObservation ==
  [verdict : StackVerdict, validation_profile : ValidationProfile,
   certification_path_der_sha256 : Seq(Strings),
   selected_path_source : PathObservationSource, trust_anchor : TrustAnchor,
   applied_validation_time : Times \cup {BadTime, EmptyString},
   validation_time : CheckResult]

VerificationRequest ==
  [api_version : {"v9", "other"}, policy : Policy, path_scope : PathScope,
   validation_time : Times \cup {BadTime},
   revocation_policy : RevocationPolicy, stack : StackObservation,
   expected_trust_anchor : TrustAnchor,
   certificate_path : Seq(CertificateNode),
   paired_authentications : Seq(PairedAuthentication),
   evidence : Seq(EvidenceItem)]

-----------------------------------------------------------------------------
(* Predicates *)

\* PathScope::includes
includes(scope, position) ==
  \/ scope = "EndEntity" /\ position = "EndEntity"
  \/ scope = "CertificationPath" /\ position # "TrustAnchor"

is_classical(scheme) == scheme \in {"Classical", "Hybrid"}
is_post_quantum(scheme) == scheme \in {"PostQuantum", "Hybrid"}

is_hybrid_certificate_signature_design(design) ==
  design \in {"AtomicComposite", "Catalyst", "Chameleon"}

has_unknown_crypto_property(c) ==
  "Unknown" \in {c.subject_public_key_scheme, c.certificate_signature_scheme,
                 c.binding_design}

requires_classical_certificate_signature_evidence(c) ==
  \/ is_classical(c.certificate_signature_scheme)
  \/ is_hybrid_certificate_signature_design(c.binding_design)

requires_post_quantum_certificate_signature_evidence(c) ==
  \/ is_post_quantum(c.certificate_signature_scheme)
  \/ is_hybrid_certificate_signature_design(c.binding_design)
  \/ c.binding_design = "RelatedCertificate"

has_hybrid_certificate_signature_design(c) ==
  \/ is_hybrid_certificate_signature_design(c.binding_design)
  \/ c.certificate_signature_scheme = "Hybrid"

\* CheckResult::observed
observed(state) == [state |-> state, confidence |-> "Observed"]
=============================================================================

----------------------------- MODULE Evaluation -----------------------------
(***************************************************************************)
(* The decision of src/src/oracle.rs: validate_request is the first error  *)
(* in the code's order, evaluate is the rest.  The oracle's sessions and   *)
(* the analyses both call it.                                              *)
(*                                                                         *)
(* The code's loops return at the first Fail and otherwise remember that   *)
(* they saw Indeterminate; Worst is that result for a set of states.       *)
(***************************************************************************)
EXTENDS Evidence, Functions, FiniteSetsExt

-----------------------------------------------------------------------------
(* validate_request *)

ErrorIf(condition, error) == IF condition THEN error ELSE "ok"

\* The first error of a sequence of tests, "ok" when none fails.
FirstError(errors) ==
  LET failing == {i \in DOMAIN errors : errors[i] # "ok"}
  IN  IF failing = {} THEN "ok" ELSE errors[Min(failing)]

\* validate_sha256_hex: an absent digest is well formed.
valid_sha256_hex(digest) == digest = None \/ digest \in Sha256

mismatched_optional_hash(left, right) ==
  left # None /\ right # None /\ left # right

Certificates(r) == Range(r.certificate_path)
Pairs(r) == Range(r.paired_authentications)
EvidenceItems(r) == Range(r.evidence)

duplicate_evidence_tests(r, i) ==
  LET item == r.evidence[i] IN
  <<
    ErrorIf(\E j \in 1 .. i - 1 : r.evidence[j].id = item.id,
            "DuplicateEvidenceId"),
    ErrorIf(\E j \in 1 .. i - 1 :
              /\ r.evidence[j].certificate_id = item.certificate_id
              /\ r.evidence[j].kind = item.kind,
            "DuplicateEvidenceKind") >>

valid_certificate_properties(c) ==
  c.binding_design = "AtomicComposite" => c.certificate_signature_scheme = "Hybrid"

certificate_tests(r, i) ==
  LET c == r.certificate_path[i] IN
  <<
    ErrorIf(~valid_sha256_hex(c.der_sha256), "InvalidSha256Hex"),
    ErrorIf(~valid_sha256_hex(c.issuer_edge_sha256), "InvalidSha256Hex"),
    ErrorIf(~valid_certificate_properties(c), "InvalidCertificateProperties"),
    ErrorIf(c.position = "TrustAnchor", "TrustAnchorInCertificatePath"),
    ErrorIf(\E j \in 1 .. i - 1 : r.certificate_path[j].id = c.id,
            "DuplicateCertificateId") >>

end_entity_error(r) ==
  ErrorIf(Cardinality({i \in DOMAIN r.certificate_path :
                         r.certificate_path[i].position = "EndEntity"}) # 1,
          "InvalidEndEntityCount")

\* The empty path is refused by end_entity_error first.
validate_certificate_path_order(r) ==
  ErrorIf(\E i \in DOMAIN r.certificate_path :
            r.certificate_path[i].position #
              (IF i = 1 THEN "EndEntity" ELSE "Intermediate"),
          "InvalidCertificatePathOrder")

validate_trust_anchor(anchor) ==
  CASE anchor.kind = "CertificateDerSha256" ->
         ErrorIf(~valid_sha256_hex(anchor.der_sha256), "InvalidSha256Hex")
    [] anchor.kind = "NameAndSpkiSha256" ->
         FirstError(<<
           ErrorIf(~valid_sha256_hex(anchor.spki_sha256), "InvalidSha256Hex"),
           ErrorIf(anchor.name = EmptyString, "TrustAnchorMismatch") >>)
    [] OTHER ->
         ErrorIf(anchor.identifier = EmptyString, "TrustAnchorMismatch")

\* A node without a digest cannot match the path the stack reports.
stack_selected_path_tests(r) ==
  <<
    ErrorIf(\E h \in Range(r.stack.certification_path_der_sha256) :
              ~valid_sha256_hex(h), "InvalidSha256Hex"),
    ErrorIf(\/ \E c \in Certificates(r) : c.der_sha256 = None
            \/ [i \in DOMAIN r.certificate_path |-> r.certificate_path[i].der_sha256]
                 # r.stack.certification_path_der_sha256,
            "SelectedPathMismatch"),
    validate_trust_anchor(r.expected_trust_anchor),
    validate_trust_anchor(r.stack.trust_anchor),
    ErrorIf(r.expected_trust_anchor # r.stack.trust_anchor,
            "TrustAnchorMismatch") >>

paired_authentication_tests(r, i) ==
  LET pair == r.paired_authentications[i] IN
  <<
    ErrorIf(~valid_sha256_hex(pair.post_quantum_certificate_der_sha256),
            "InvalidSha256Hex"),
    ErrorIf(\/ pair.operation_id = EmptyString
            \/ \E j \in 1 .. i - 1 :
                 r.paired_authentications[j].operation_id = pair.operation_id,
            "DuplicatePairedAuthentication"),
    ErrorIf(~ \E c \in Certificates(r) :
                /\ c.id = pair.classical_certificate_id
                /\ c.binding_design = "RelatedCertificate",
            "InvalidPairedAuthentication") >>

\* Mutant: the items of one certificate may name different operations.
SeveralOperations(r, i, c) ==
  LET item == r.evidence[i] IN
  IF c.binding_design = "RelatedCertificate"
    THEN ~ \E pair \in Pairs(r) :
            /\ pair.operation_id = item.authentication_operation_id
            /\ pair.classical_certificate_id = item.certificate_id
    ELSE item.authentication_operation_id # None

\* Evidence of a related certificate names the one operation that used the
\* pair; evidence of any other certificate names none.
invalid_authentication_operation(r, i, c) ==
  LET item == r.evidence[i] IN
  IF c.binding_design = "RelatedCertificate"
    THEN \/ ~ \E pair \in Pairs(r) :
                /\ pair.operation_id = item.authentication_operation_id
                /\ pair.classical_certificate_id = item.certificate_id
         \/ \E j \in 1 .. i - 1 :
              /\ r.evidence[j].certificate_id = item.certificate_id
              /\ r.evidence[j].authentication_operation_id
                   # item.authentication_operation_id
    ELSE item.authentication_operation_id # None

\* The digest the evidence artifact must have.
expected_artifacts(r, c, item) ==
  IF c.binding_design = "RelatedCertificate" /\ item.kind = "PostQuantum"
    THEN {pair.post_quantum_certificate_der_sha256 :
            pair \in {p \in Pairs(r) :
                        p.operation_id = item.authentication_operation_id}}
    ELSE {c.der_sha256}

evidence_tests(r, i) ==
  LET item == r.evidence[i]
      Named == {c \in Certificates(r) : c.id = item.certificate_id}
  IN
  <<
    ErrorIf(~valid_sha256_hex(item.certificate_der_sha256), "InvalidSha256Hex"),
    ErrorIf(~valid_sha256_hex(item.issuer_edge_sha256), "InvalidSha256Hex"),
    ErrorIf(~valid_sha256_hex(item.evidence_artifact_der_sha256), "InvalidSha256Hex"),
    ErrorIf(Named = {}, "UnknownCertificate"),
    ErrorIf(\E c \in Named : c.position # item.position, "PositionMismatch"),
    ErrorIf(\E c \in Named : mismatched_optional_hash(c.der_sha256,
                                                      item.certificate_der_sha256),
            "CertificateDerHashMismatch"),
    ErrorIf(\E c \in Named : mismatched_optional_hash(c.issuer_edge_sha256,
                                                      item.issuer_edge_sha256),
            "IssuerEdgeHashMismatch"),
    ErrorIf(\E c \in Named : invalid_authentication_operation(r, i, c),
            "InvalidEvidenceAuthenticationOperation"),
    ErrorIf(\E c \in Named : \E expected \in expected_artifacts(r, c, item) :
              mismatched_optional_hash(expected, item.evidence_artifact_der_sha256),
            "EvidenceArtifactDerHashMismatch"),
    ErrorIf(item.applied_revocation_policy # r.revocation_policy,
            "RevocationPolicyMismatch"),
    ErrorIf(/\ item.checks["revocation"].state = "Pass"
            /\ item.revocation_method = "None", "InvalidRevocationEvidence"),
    ErrorIf(/\ r.revocation_policy.mode = "NotRequired"
            /\ item.checks["revocation"].state # "NotApplicable",
            "RevocationPolicyMismatch") >>

request_tests(r) ==
  <<
    ErrorIf(r.api_version # "v9", "UnsupportedApiVersion"),
    ErrorIf(r.validation_time = BadTime, "InvalidValidationTime"),
    FirstError([i \in DOMAIN r.evidence |-> FirstError(duplicate_evidence_tests(r, i))]),
    FirstError([i \in DOMAIN r.certificate_path |-> FirstError(certificate_tests(r, i))]),
    end_entity_error(r),
    validate_certificate_path_order(r),
    FirstError(stack_selected_path_tests(r)),
    FirstError([i \in DOMAIN r.paired_authentications |->
                  FirstError(paired_authentication_tests(r, i))]),
    FirstError([i \in DOMAIN r.evidence |-> FirstError(evidence_tests(r, i))]),
    ErrorIf(/\ r.stack.validation_time.state = "Pass"
            /\ r.stack.applied_validation_time # r.validation_time,
            "ValidationTimeMismatch") >>

validate_request(r) == FirstError(request_tests(r))

\* OracleError, "ok" when there is none.
Errors == {"ok", "UnsupportedApiVersion", "InvalidValidationTime",
  "DuplicateEvidenceId", "DuplicateEvidenceKind", "InvalidSha256Hex",
  "InvalidCertificateProperties", "TrustAnchorInCertificatePath",
  "DuplicateCertificateId", "InvalidEndEntityCount", "InvalidCertificatePathOrder",
  "SelectedPathMismatch", "TrustAnchorMismatch", "DuplicatePairedAuthentication",
  "InvalidPairedAuthentication", "UnknownCertificate", "PositionMismatch",
  "CertificateDerHashMismatch", "IssuerEdgeHashMismatch",
  "InvalidEvidenceAuthenticationOperation", "EvidenceArtifactDerHashMismatch",
  "RevocationPolicyMismatch", "InvalidRevocationEvidence", "ValidationTimeMismatch"}

-----------------------------------------------------------------------------
(* evaluate *)

\* Mutant: the loops return at the first Indeterminate instead.
IndeterminateFirst(states) ==
  IF "Indeterminate" \in states THEN "Indeterminate"
  ELSE IF "Fail" \in states THEN "Fail" ELSE "Pass"

\* What a loop that returns at the first Fail and remembers Indeterminate
\* answers for these states.
Worst(states) ==
  IF "Fail" \in states THEN "Fail"
  ELSE IF "Indeterminate" \in states THEN "Indeterminate" ELSE "Pass"

\* Mutant: the confidence of a check is not looked at.
ConfidenceIgnored(check, not_applicable_ok) ==
  IF check.state = "Pass" \/ (check.state = "NotApplicable" /\ not_applicable_ok)
    THEN "Pass"
  ELSE IF check.state \in {"Fail", "NotApplicable"} THEN "Fail" ELSE "Indeterminate"

\* Mutant: a check nobody made counts as passed.
NotCheckedPasses(check, not_applicable_ok) ==
  IF check.confidence \in {"Inferred", "Unknown"} THEN "Indeterminate"
  ELSE IF check.state \in {"Pass", "NotChecked"} THEN "Pass"
  ELSE IF check.state = "NotApplicable" /\ not_applicable_ok THEN "Pass"
  ELSE IF check.state \in {"Fail", "NotApplicable"} THEN "Fail"
  ELSE "Indeterminate"

required_check_state(check, not_applicable_ok) ==
  IF check.confidence \in {"Inferred", "Unknown"} THEN "Indeterminate"
  ELSE IF check.state = "Pass" THEN "Pass"
  ELSE IF check.state = "NotApplicable" /\ not_applicable_ok THEN "Pass"
  ELSE IF check.state \in {"Fail", "NotApplicable"} THEN "Fail"
  ELSE "Indeterminate"

allow_not_applicable(name, mode) ==
  name = "binding" \/ (name = "revocation" /\ mode = "NotRequired")

\* Mutant: evidence without digests is taken as bound.
UnboundPasses(c, item) == "Pass"

\* A certificate path holds no trust anchor (certificate_tests), so the early
\* Pass of the code for that position is the second disjunct.
evidence_binding_state(c, item) ==
  IF \/ None \in {c.der_sha256, item.certificate_der_sha256,
                  item.evidence_artifact_der_sha256}
     \/ /\ c.position # "TrustAnchor"
        /\ None \in {c.issuer_edge_sha256, item.issuer_edge_sha256}
    THEN "Indeterminate" ELSE "Pass"

item_states(c, item, mode) ==
  {evidence_binding_state(c, item)}
    \cup {required_check_state(item.checks[name], allow_not_applicable(name, mode)) :
            name \in CheckName}

\* A required certificate without an item fails.
certificate_states(c, items, mode) ==
  LET certificate_items == {item \in items : item.certificate_id = c.id} IN
  IF certificate_items = {} THEN {"Fail"}
  ELSE UNION {item_states(c, item, mode) : item \in certificate_items}

evidence_state(required, items, mode) ==
  Worst(UNION {certificate_states(c, items, mode) : c \in required})

\* The pair that the first evidence item of a certificate names.
pair_of(r, c) ==
  LET naming == {i \in DOMAIN r.evidence : r.evidence[i].certificate_id = c.id}
  IN  IF naming = {} THEN {}
      ELSE {pair \in Pairs(r) :
              pair.operation_id = r.evidence[Min(naming)].authentication_operation_id}

design_states(r, c) ==
  IF has_hybrid_certificate_signature_design(c) THEN {"Pass"}
  ELSE IF c.binding_design # "RelatedCertificate" \/ pair_of(r, c) = {} THEN {"Fail"}
  ELSE {required_check_state(pair.same_authentication_operation, FALSE) :
          pair \in pair_of(r, c)}

hybrid_authentication_design_state(r, certificates) ==
  Worst(UNION {design_states(r, c) : c \in certificates})

stack_state(r) ==
  CASE r.stack.verdict = "Accept" ->
         IF r.stack.applied_validation_time # r.validation_time
           THEN "Indeterminate"
           ELSE required_check_state(r.stack.validation_time, FALSE)
    [] r.stack.verdict = "Reject" -> "Fail"
    [] r.stack.verdict = "Indeterminate" -> "Indeterminate"
    [] OTHER -> "unreachable"

authentication_profile_state(profile) ==
  IF profile = "EvidenceSignature" THEN "Indeterminate" ELSE "Pass"

validated_path_state(r) ==
  IF \/ r.stack.selected_path_source # "AdapterSelected"
     \/ \E c \in Certificates(r) :
          \/ None \in {c.der_sha256, c.issuer_edge_sha256}
          \/ c.position = "TrustAnchor"
     \/ ~ \E c \in Certificates(r) : c.position = "EndEntity"
    THEN "Indeterminate" ELSE "Pass"

InScope(r, nodes) == {n \in nodes : includes(r.path_scope, n.position)}
ScopedCertificates(r) == InScope(r, Certificates(r))
OfKind(r, kind) == {item \in InScope(r, EvidenceItems(r)) : item.kind = kind}
classical_required(r) ==
  {c \in ScopedCertificates(r) : requires_classical_certificate_signature_evidence(c)}
pq_required(r) ==
  {c \in ScopedCertificates(r) : requires_post_quantum_certificate_signature_evidence(c)}

\* The aggregate states every policy is decided from.
Aggregates(r) ==
  [classical |-> evidence_state(classical_required(r), OfKind(r, "Classical"),
                                r.revocation_policy.mode),
   pq        |-> evidence_state(pq_required(r), OfKind(r, "PostQuantum"),
                                r.revocation_policy.mode),
   path      |-> validated_path_state(r),
   stack     |-> stack_state(r),
   profile   |-> authentication_profile_state(r.stack.validation_profile),
   design    |-> hybrid_authentication_design_state(r, ScopedCertificates(r)),
   has_classical |-> classical_required(r) # {}]

AllPass(a) ==
  \A field \in {"stack", "profile", "design", "classical", "pq", "path"} :
    a[field] = "Pass"

classical_authentication_succeeded(a) ==
  a.has_classical /\ a.stack = "Pass" /\ a.profile = "Pass" /\ a.classical = "Pass"

p0_verdict(a) ==
  IF ~a.has_classical \/ a.classical = "Fail" \/ a.stack = "Fail" THEN "Reject"
  ELSE IF classical_authentication_succeeded(a) THEN "ClassicalClaimSetSatisfied"
  ELSE "Indeterminate"

\* Mutant: P1 forgets that the path must be the one the adapter selected.
PathForgotten(a) ==
  IF ~a.has_classical \/ a.classical = "Fail" \/ a.stack = "Fail" THEN "Reject"
  ELSE IF /\ classical_authentication_succeeded(a)
          /\ a.pq = "Pass" /\ a.design = "Pass" THEN "HybridClaimSetSatisfied"
  ELSE IF classical_authentication_succeeded(a) THEN "ClassicalClaimSetSatisfied"
  ELSE "Indeterminate"

p1_verdict(a) ==
  IF ~a.has_classical \/ a.classical = "Fail" \/ a.stack = "Fail" THEN "Reject"
  ELSE IF AllPass(a) THEN "HybridClaimSetSatisfied"
  ELSE IF classical_authentication_succeeded(a) THEN "ClassicalClaimSetSatisfied"
  ELSE "Indeterminate"

\* Mutant: the indeterminate arm of P2 misses the selected path.
PathNotCovered(a) ==
  IF AllPass(a) THEN "HybridClaimSetSatisfied"
  ELSE IF "Fail" \in {a.design, a.classical, a.pq, a.stack} THEN "Reject"
  ELSE IF "Indeterminate" \in {a.classical, a.pq, a.stack, a.profile, a.design}
    THEN "Indeterminate"
  ELSE "unreachable"

\* Mutant: P2 opens with the guard of P0 and P1.
GuardedLikeP1(a) ==
  IF ~a.has_classical \/ "Fail" \in {a.design, a.classical, a.pq, a.stack} THEN "Reject"
  ELSE IF AllPass(a) THEN "HybridClaimSetSatisfied" ELSE "Indeterminate"

\* Two of the code's arms reject, with different reasons; the last arm panics.
p2_verdict(a) ==
  IF AllPass(a) THEN "HybridClaimSetSatisfied"
  ELSE IF \/ classical_authentication_succeeded(a) /\ a.pq = "Fail"
          \/ "Fail" \in {a.design, a.classical, a.pq, a.stack} THEN "Reject"
  ELSE IF "Indeterminate" \in {a.classical, a.pq, a.stack, a.profile, a.path, a.design}
    THEN "Indeterminate"
  ELSE "unreachable"

policy_verdict(policy, a) ==
  CASE policy = "P0Classical" -> p0_verdict(a)
    [] policy = "P1OptionalHybrid" -> p1_verdict(a)
    [] policy = "P2RequiredHybrid" -> p2_verdict(a)
    [] OTHER -> "Indeterminate"

hybrid_claim_evaluated(r) ==
  \/ pq_required(r) # {}
  \/ \E c \in ScopedCertificates(r) :
       \/ has_hybrid_certificate_signature_design(c)
       \/ c.binding_design = "RelatedCertificate"

\* Mutant: under P2 a design that is not hybrid is no fallback.
DesignForgotten(r, a, verdict) ==
  \/ /\ r.policy = "P1OptionalHybrid"
     /\ verdict = "ClassicalClaimSetSatisfied"
     /\ hybrid_claim_evaluated(r)
  \/ /\ r.policy = "P2RequiredHybrid"
     /\ classical_authentication_succeeded(a)
     /\ a.pq # "Pass"

classical_only_fallback(r, a, verdict) ==
  \/ /\ r.policy = "P1OptionalHybrid"
     /\ verdict = "ClassicalClaimSetSatisfied"
     /\ hybrid_claim_evaluated(r)
  \/ /\ r.policy = "P2RequiredHybrid"
     /\ classical_authentication_succeeded(a)
     /\ a.pq # "Pass" \/ a.design # "Pass"

\* Mutant: evidence outside the scope counts.
AnyPosition(r, fallback) ==
  /\ fallback
  /\ \E item \in EvidenceItems(r) :
       /\ item.kind = "PostQuantum"
       /\ "Fail" \in {item.checks["validity"].state, item.checks["revocation"].state}

lifecycle_desynchronization(r, fallback) ==
  /\ fallback
  /\ \E item \in OfKind(r, "PostQuantum") :
       "Fail" \in {item.checks["validity"].state, item.checks["revocation"].state}

\* A failed check names its evidence item, the certificate whose evidence is
\* missing, or the paired operation ("origin" says which).
FailedCheck(origin, id, name, check) ==
  [origin |-> origin, id |-> id, check |-> name,
   state |-> check.state, confidence |-> check.confidence]

\* Mutant: evidence that is not there is not reported.
NothingMissing(required, items, kind) == {}

missing_evidence_checks(required, items, kind) ==
  {FailedCheck(kind, c.id, "present", observed("Fail")) :
     c \in {c \in required : ~ \E item \in items : item.certificate_id = c.id}}

\* The checks of an item that are reported: those that neither pass on trusted
\* grounds nor are declared inapplicable.
unpassed_checks(item) ==
  {n \in CheckName : /\ item.checks[n].state # "NotApplicable"
                     /\ \/ item.checks[n].state # "Pass"
                        \/ item.checks[n].confidence \in {"Inferred", "Unknown"}}

item_failed_checks(item) ==
  {FailedCheck("evidence", item.id, n, item.checks[n]) : n \in unpassed_checks(item)}

\* The pairs of in-scope certificates not known to be used in one operation.
unestablished_pairs(r) ==
  {p \in Pairs(r) : /\ \E c \in ScopedCertificates(r) : c.id = p.classical_certificate_id
                    /\ required_check_state(p.same_authentication_operation, FALSE) # "Pass"}

pair_failed_check(pair) ==
  FailedCheck("operation", pair.operation_id, "same-authentication-operation",
              pair.same_authentication_operation)

failed_checks(r) ==
  (UNION {item_failed_checks(item) : item \in InScope(r, EvidenceItems(r))})
  \cup missing_evidence_checks(classical_required(r), OfKind(r, "Classical"), "Classical")
  \cup missing_evidence_checks(pq_required(r), OfKind(r, "PostQuantum"), "PostQuantum")
  \cup {pair_failed_check(pair) : pair \in unestablished_pairs(r)}

Response(status, error, verdict, fallback, desync, failed) ==
  [status |-> status, error |-> error, policy_verdict |-> verdict,
   classical_only_fallback |-> fallback, lifecycle_desynchronization |-> desync,
   failed_checks |-> failed]

Pending == Response("pending", "ok", "none", FALSE, FALSE, {})

unsupported(r) ==
  \/ \E c \in ScopedCertificates(r) : has_unknown_crypto_property(c)
  \/ r.stack.verdict = "Unsupported"

decide(r) ==
  LET a        == Aggregates(r)
      verdict  == policy_verdict(r.policy, a)
      fallback == classical_only_fallback(r, a, verdict)
  IN  Response("result", "ok", verdict, fallback,
               lifecycle_desynchronization(r, fallback), failed_checks(r))

evaluate(r) ==
  IF validate_request(r) # "ok"
    THEN Response("error", validate_request(r), "none", FALSE, FALSE, {})
  ELSE IF unsupported(r)
    THEN Response("result", "ok", "Unsupported", FALSE, FALSE, {})
  ELSE decide(r)
=============================================================================

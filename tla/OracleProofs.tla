---------------------------- MODULE OracleProofs ----------------------------
(***************************************************************************)
(* Proofs about the policy oracle for every request, path length, number   *)
(* of evidence items and every way of revising requests.                   *)
(***************************************************************************)
EXTENDS Oracle, EvaluationProofs

\* What evidence that passes its tests is bound to.
BoundEvidence(r, i) ==
  LET item == r.evidence[i]
      Named == {c \in Certificates(r) : c.id = item.certificate_id}
  IN
  /\ Named # {}
  /\ \A c \in Named :
       /\ c.position = item.position
       /\ ~mismatched_optional_hash(c.der_sha256, item.certificate_der_sha256)
       /\ ~mismatched_optional_hash(c.issuer_edge_sha256, item.issuer_edge_sha256)
       /\ ~invalid_authentication_operation(r, i, c)
       /\ \A expected \in expected_artifacts(r, c, item) :
            ~mismatched_optional_hash(expected, item.evidence_artifact_der_sha256)
  /\ ~ (/\ item.checks["revocation"].state = "Pass"
        /\ item.revocation_method = "None")

\* An evidence item without an error is bound to its certificate.
LEMMA EvidenceTestsOk ==
  ASSUME NEW r, NEW i, FirstError(evidence_tests(r, i)) = "ok"
  PROVE  BoundEvidence(r, i)
<1> DEFINE item == r.evidence[i]
           Named == {c \in Certificates(r) : c.id = item.certificate_id}
           t == evidence_tests(r, i)
<1>1. DOMAIN t = 1 .. 12
  BY DEF evidence_tests
<1>2. \A k \in 1 .. 12 : t[k] = "ok"
  BY <1>1, FirstErrorOk
<1> HIDE DEF t
<1>3. t[4] = "ok" /\ t[5] = "ok" /\ t[6] = "ok" /\ t[7] = "ok"
  BY <1>2
<1>4. t[8] = "ok" /\ t[9] = "ok" /\ t[11] = "ok"
  BY <1>2
<1>5. /\ Named # {}
      /\ \A c \in Named :
           /\ c.position = item.position
           /\ ~mismatched_optional_hash(c.der_sha256, item.certificate_der_sha256)
           /\ ~mismatched_optional_hash(c.issuer_edge_sha256, item.issuer_edge_sha256)
  BY <1>3 DEF t, evidence_tests, ErrorIf
<1>6. \A c \in Named :
        /\ ~invalid_authentication_operation(r, i, c)
        /\ \A expected \in expected_artifacts(r, c, item) :
             ~mismatched_optional_hash(expected, item.evidence_artifact_der_sha256)
  BY <1>4 DEF t, evidence_tests, ErrorIf
<1>7. ~ (/\ item.checks["revocation"].state = "Pass"
         /\ item.revocation_method = "None")
  BY <1>4 DEF t, evidence_tests, ErrorIf
<1> QED
  BY <1>5, <1>6, <1>7 DEF BoundEvidence

\* What validate_request establishes, as far as the verdicts depend on it.
LEMMA ValidatedFacts ==
  ASSUME NEW r \in VerificationRequest, validate_request(r) = "ok"
  PROVE  /\ \A i \in DOMAIN r.evidence : BoundEvidence(r, i)
         /\ \A c \in Certificates(r) :
              /\ c.der_sha256 # None
              /\ valid_sha256_hex(c.issuer_edge_sha256)
         /\ [i \in DOMAIN r.certificate_path |-> r.certificate_path[i].der_sha256]
              = r.stack.certification_path_der_sha256
         /\ r.expected_trust_anchor = r.stack.trust_anchor
<1> DEFINE t == request_tests(r)
           tc == [i \in DOMAIN r.certificate_path |-> FirstError(certificate_tests(r, i))]
           te == [i \in DOMAIN r.evidence |-> FirstError(evidence_tests(r, i))]
           ts == stack_selected_path_tests(r)
<1>1. DOMAIN t = 1 .. 10
  BY DEF request_tests
<1>2. \A k \in 1 .. 10 : t[k] = "ok"
  BY <1>1, FirstErrorOk DEF validate_request
<1>3. DOMAIN r.evidence \subseteq Nat /\ DOMAIN r.certificate_path \subseteq Nat
  BY DEF VerificationRequest
<1> HIDE DEF t
<1>4. t[4] = "ok" /\ t[7] = "ok" /\ t[9] = "ok"
  BY <1>2
<1>5. FirstError(tc) = "ok" /\ FirstError(ts) = "ok" /\ FirstError(te) = "ok"
  BY <1>4 DEF t, request_tests
<1>6. \A i \in DOMAIN r.evidence : BoundEvidence(r, i)
  <2>1. \A i \in DOMAIN te : te[i] = "ok"
    BY <1>3, <1>5, FirstErrorOk
  <2> QED
    BY <2>1, EvidenceTestsOk
<1>7. \A c \in Certificates(r) : valid_sha256_hex(c.issuer_edge_sha256)
  <2> SUFFICES ASSUME NEW i \in DOMAIN r.certificate_path
               PROVE  valid_sha256_hex(r.certificate_path[i].issuer_edge_sha256)
    BY DEF Certificates, Range
  <2>1. \A k \in DOMAIN tc : tc[k] = "ok"
    BY <1>3, <1>5, FirstErrorOk
  <2>2. FirstError(certificate_tests(r, i)) = "ok"
    BY <2>1
  <2>3. DOMAIN certificate_tests(r, i) = 1 .. 5
    BY DEF certificate_tests
  <2>4. certificate_tests(r, i)[2] = "ok"
    BY <2>2, <2>3, FirstErrorOk
  <2> QED
    BY <2>4 DEF certificate_tests, ErrorIf
<1>8. DOMAIN ts = 1 .. 5
  BY DEF stack_selected_path_tests
<1>9. \A k \in 1 .. 5 : ts[k] = "ok"
  BY <1>5, <1>8, FirstErrorOk
<1> HIDE DEF ts
<1>10. ts[2] = "ok" /\ ts[5] = "ok"
  BY <1>9
<1>11. /\ \A c \in Certificates(r) : c.der_sha256 # None
       /\ [i \in DOMAIN r.certificate_path |-> r.certificate_path[i].der_sha256]
            = r.stack.certification_path_der_sha256
  BY <1>10 DEF ts, stack_selected_path_tests, ErrorIf
<1>12. r.expected_trust_anchor = r.stack.trust_anchor
  BY <1>10 DEF ts, stack_selected_path_tests, ErrorIf
<1> QED
  BY <1>6, <1>7, <1>11, <1>12

-----------------------------------------------------------------------------
(* Aggregate states *)

\* A required check passes only on a trusted pass, or a trusted declaration
\* that it does not apply where that is allowed.
LEMMA RequiredCheckPass ==
  ASSUME NEW check \in CheckResult, NEW allowed \in BOOLEAN,
         required_check_state(check, allowed) = "Pass"
  PROVE  /\ Trusted(check)
         /\ check.state = "Pass" \/ (check.state = "NotApplicable" /\ allowed)
BY DEF required_check_state, CheckResult, CheckState, Confidence, Trusted

\* Passing evidence about a certificate is conclusive.
LEMMA PassingIsConclusive ==
  ASSUME NEW r \in VerificationRequest, validate_request(r) = "ok",
         NEW c \in Certificates(r), c.position # "TrustAnchor",
         NEW i \in DOMAIN r.evidence, r.evidence[i].certificate_id = c.id,
         evidence_binding_state(c, r.evidence[i]) = "Pass",
         \A name \in CheckName :
           required_check_state(r.evidence[i].checks[name],
                                allow_not_applicable(name, r.revocation_policy.mode)) = "Pass"
  PROVE  Conclusive(r, c, r.evidence[i])
<1> DEFINE item == r.evidence[i]
<1>1. BoundEvidence(r, i)
  BY ValidatedFacts
<1>2. item \in EvidenceItem
  BY DEF VerificationRequest
<1>3. /\ c.der_sha256 # None /\ item.certificate_der_sha256 # None
      /\ item.evidence_artifact_der_sha256 # None
      /\ c.issuer_edge_sha256 # None /\ item.issuer_edge_sha256 # None
  BY DEF evidence_binding_state
<1>4. /\ c.position = item.position
      /\ item.certificate_der_sha256 = c.der_sha256
      /\ item.issuer_edge_sha256 = c.issuer_edge_sha256
  BY <1>1, <1>3 DEF BoundEvidence, mismatched_optional_hash
<1>5. item.evidence_artifact_der_sha256 \in expected_artifacts(r, c, item)
  <2>1. \A expected \in expected_artifacts(r, c, item) :
          ~mismatched_optional_hash(expected, item.evidence_artifact_der_sha256)
    BY <1>1 DEF BoundEvidence
  <2>2. CASE c.binding_design = "RelatedCertificate" /\ item.kind = "PostQuantum"
    <3>1. ~invalid_authentication_operation(r, i, c)
      BY <1>1 DEF BoundEvidence
    <3>2. PICK pair \in Pairs(r) : pair.operation_id = item.authentication_operation_id
      BY <2>2, <3>1 DEF invalid_authentication_operation
    <3>3. pair.post_quantum_certificate_der_sha256 \in expected_artifacts(r, c, item)
      BY <2>2, <3>2 DEF expected_artifacts
    <3>4. pair.post_quantum_certificate_der_sha256 # None
      <4>1. pair \in PairedAuthentication
        BY DEF VerificationRequest, Pairs, Range
      <4> QED
        BY <4>1, NoneIsNoValue DEF PairedAuthentication, Strings
    <3> QED
      BY <1>3, <2>1, <3>3, <3>4 DEF mismatched_optional_hash
  <2>3. CASE ~ (c.binding_design = "RelatedCertificate" /\ item.kind = "PostQuantum")
    BY <1>3, <2>1, <2>3 DEF expected_artifacts, mismatched_optional_hash
  <2> QED
    BY <2>2, <2>3
<1>6. ASSUME NEW name \in CheckName
      PROVE  \/ Clean(item.checks[name])
             \/ /\ Trusted(item.checks[name])
                /\ item.checks[name].state = "NotApplicable"
                /\ name = "binding" \/ (name = "revocation" /\ r.revocation_policy.mode = "NotRequired")
  <2>1. item.checks[name] \in CheckResult
    BY <1>2 DEF EvidenceItem
  <2>2. allow_not_applicable(name, r.revocation_policy.mode) \in BOOLEAN
    BY DEF allow_not_applicable
  <2> QED
    BY <2>1, <2>2, RequiredCheckPass DEF Clean, allow_not_applicable
<1>7. item.checks["revocation"].state = "Pass" => item.revocation_method # "None"
  BY <1>1 DEF BoundEvidence
<1> QED
  BY <1>4, <1>5, <1>6, <1>7 DEF Conclusive

\* An in-scope certificate that calls for evidence of a kind has a conclusive
\* item of that kind when the aggregate state of that kind passes.
LEMMA PassingHasConclusive ==
  ASSUME NEW r \in VerificationRequest, validate_request(r) = "ok",
         NEW kind, NEW required \in SUBSET ScopedCertificates(r), NEW c \in required,
         evidence_state(required, OfKind(r, kind), r.revocation_policy.mode) = "Pass"
  PROVE  \E item \in EvidenceItems(r) : item.kind = kind /\ Conclusive(r, c, item)
<1>1. PICK item \in OfKind(r, kind) : item.certificate_id = c.id
  BY EvidenceStatePass
<1>2. PICK i \in DOMAIN r.evidence : r.evidence[i] = item
  BY DEF OfKind, InScope, EvidenceItems, Range
<1>3. /\ evidence_binding_state(c, item) = "Pass"
      /\ \A name \in CheckName :
           required_check_state(item.checks[name],
                                allow_not_applicable(name, r.revocation_policy.mode)) = "Pass"
  BY <1>1, EvidenceStatePass
<1>4. c \in Certificates(r) /\ c.position # "TrustAnchor"
  BY DEF ScopedCertificates, InScope, includes
<1>5. Conclusive(r, c, item)
  BY <1>1, <1>2, <1>3, <1>4, PassingIsConclusive
<1> QED
  BY <1>1, <1>5 DEF OfKind, InScope

\* A design that passes is hybrid, or a related certificate whose pair was used
\* in the same operation.
LEMMA PassingDesign ==
  ASSUME NEW r \in VerificationRequest, validate_request(r) = "ok",
         NEW c \in ScopedCertificates(r),
         hybrid_authentication_design_state(r, ScopedCertificates(r)) = "Pass",
         ~has_hybrid_certificate_signature_design(c)
  PROVE  /\ c.binding_design = "RelatedCertificate"
         /\ \E pair \in Pairs(r) : /\ pair.classical_certificate_id = c.id
                                   /\ Clean(pair.same_authentication_operation)
<1> DEFINE naming == {i \in DOMAIN r.evidence : r.evidence[i].certificate_id = c.id}
<1>1. "Fail" \notin design_states(r, c) /\ "Indeterminate" \notin design_states(r, c)
  BY DEF hybrid_authentication_design_state, Worst
<1>2. c.binding_design = "RelatedCertificate" /\ pair_of(r, c) # {}
  BY <1>1 DEF design_states
<1>3. naming # {}
  BY <1>2 DEF pair_of
<1>4. Min(naming) \in naming
  <2>1. naming \in SUBSET Nat
    BY DEF VerificationRequest
  <2> QED
    BY <1>3, <2>1, MinIsMember
<1>5. ~invalid_authentication_operation(r, Min(naming), c)
  <2>1. c \in Certificates(r)
    BY DEF ScopedCertificates, InScope
  <2> QED
    BY <1>4, <2>1, ValidatedFacts DEF BoundEvidence
<1>6. PICK pair \in Pairs(r) :
        /\ pair.operation_id = r.evidence[Min(naming)].authentication_operation_id
        /\ pair.classical_certificate_id = c.id
  BY <1>2, <1>4, <1>5 DEF invalid_authentication_operation
<1>7. pair \in pair_of(r, c)
  BY <1>3, <1>6 DEF pair_of
<1>8. required_check_state(pair.same_authentication_operation, FALSE) = "Pass"
  <2>1. required_check_state(pair.same_authentication_operation, FALSE) \in design_states(r, c)
    BY <1>2, <1>7 DEF design_states
  <2>2. required_check_state(pair.same_authentication_operation, FALSE) \in AggregateState
    BY DEF required_check_state, AggregateState
  <2> QED
    BY <1>1, <2>1, <2>2 DEF AggregateState
<1>9. pair.same_authentication_operation \in CheckResult
  <2>1. pair \in PairedAuthentication
    BY DEF VerificationRequest, Pairs, Range
  <2> QED
    BY <2>1 DEF PairedAuthentication
<1>10. Clean(pair.same_authentication_operation)
  BY <1>8, <1>9, RequiredCheckPass DEF Clean
<1> QED
  BY <1>2, <1>6, <1>10

\* For every request, a hybrid verdict is earned.
LEMMA HybridVerdictEarned ==
  ASSUME NEW r \in VerificationRequest,
         evaluate(r).status = "result",
         evaluate(r).policy_verdict = "HybridClaimSetSatisfied"
  PROVE  HybridEarned(r)
<1> DEFINE a == Aggregates(r)
<1>1. validate_request(r) = "ok" /\ ~unsupported(r)
  BY DEF evaluate, Response
<1>2. evaluate(r).policy_verdict = policy_verdict(r.policy, a)
  BY <1>1 DEF evaluate, decide, Response
<1>3. AllPass(a) /\ r.policy \in {"P1OptionalHybrid", "P2RequiredHybrid"}
  <2>1. policy_verdict(r.policy, a) = "HybridClaimSetSatisfied"
    BY <1>2
  <2>2. r.policy \in Policy
    BY DEF VerificationRequest
  <2> HIDE DEF a
  <2> QED
    BY <2>1, <2>2 DEF policy_verdict, p0_verdict, p1_verdict, p2_verdict, Policy
<1>4. /\ a["stack"] = "Pass" /\ a["profile"] = "Pass" /\ a["design"] = "Pass"
      /\ a["classical"] = "Pass" /\ a["pq"] = "Pass" /\ a["path"] = "Pass"
  BY <1>3 DEF AllPass
<1>5. /\ stack_state(r) = "Pass"
      /\ authentication_profile_state(r.stack.validation_profile) = "Pass"
      /\ hybrid_authentication_design_state(r, ScopedCertificates(r)) = "Pass"
      /\ evidence_state(classical_required(r), OfKind(r, "Classical"),
                        r.revocation_policy.mode) = "Pass"
      /\ evidence_state(pq_required(r), OfKind(r, "PostQuantum"),
                        r.revocation_policy.mode) = "Pass"
      /\ validated_path_state(r) = "Pass"
  BY <1>4 DEF Aggregates
<1>6. /\ r.stack.verdict = "Accept"
      /\ Clean(r.stack.validation_time)
      /\ r.stack.applied_validation_time = r.validation_time
  <2>1. /\ r.stack.verdict = "Accept"
        /\ r.stack.applied_validation_time = r.validation_time
        /\ required_check_state(r.stack.validation_time, FALSE) = "Pass"
    BY <1>5 DEF stack_state
  <2>2. r.stack.validation_time \in CheckResult
    BY DEF VerificationRequest, StackObservation
  <2> QED
    BY <2>1, <2>2, RequiredCheckPass DEF Clean
<1>7. /\ r.stack.validation_profile # "EvidenceSignature"
      /\ r.stack.selected_path_source = "AdapterSelected"
  BY <1>5 DEF authentication_profile_state, validated_path_state
<1>8. \A i \in DOMAIN r.certificate_path :
        /\ r.certificate_path[i].der_sha256 = r.stack.certification_path_der_sha256[i]
        /\ r.certificate_path[i].issuer_edge_sha256 \in Sha256
  <2> SUFFICES ASSUME NEW i \in DOMAIN r.certificate_path
               PROVE  /\ r.certificate_path[i].der_sha256
                           = r.stack.certification_path_der_sha256[i]
                      /\ r.certificate_path[i].issuer_edge_sha256 \in Sha256
    OBVIOUS
  <2>1. r.certificate_path[i] \in Certificates(r)
    BY DEF Certificates, Range
  <2>2. r.certificate_path[i].issuer_edge_sha256 # None
    BY <1>5, <2>1 DEF validated_path_state
  <2>3. valid_sha256_hex(r.certificate_path[i].issuer_edge_sha256)
    BY <1>1, <2>1, ValidatedFacts
  <2>4. r.certificate_path[i].der_sha256 = r.stack.certification_path_der_sha256[i]
    <3>1. [k \in DOMAIN r.certificate_path |-> r.certificate_path[k].der_sha256]
            = r.stack.certification_path_der_sha256
      BY <1>1, ValidatedFacts
    <3>2. [k \in DOMAIN r.certificate_path |-> r.certificate_path[k].der_sha256][i]
            = r.certificate_path[i].der_sha256
      OBVIOUS
    <3> QED
      BY <3>1, <3>2
  <2> QED
    BY <2>2, <2>3, <2>4 DEF valid_sha256_hex
<1>9. ASSUME NEW c \in ScopedCertificates(r)
      PROVE  /\ \E item \in EvidenceItems(r) :
                  item.kind = "PostQuantum" /\ Conclusive(r, c, item)
             /\ requires_classical_certificate_signature_evidence(c) =>
                  \E item \in EvidenceItems(r) :
                    item.kind = "Classical" /\ Conclusive(r, c, item)
             /\ ~has_hybrid_certificate_signature_design(c) =>
                  \E pair \in Pairs(r) :
                    /\ pair.classical_certificate_id = c.id
                    /\ Clean(pair.same_authentication_operation)
  <2>1. requires_post_quantum_certificate_signature_evidence(c)
    BY <1>1, <1>5, PassingDesign DEF requires_post_quantum_certificate_signature_evidence,
       has_hybrid_certificate_signature_design, is_post_quantum
  <2>2. pq_required(r) \in SUBSET ScopedCertificates(r) /\ c \in pq_required(r)
    BY <2>1 DEF pq_required
  <2>3. \E item \in EvidenceItems(r) : item.kind = "PostQuantum" /\ Conclusive(r, c, item)
    BY <1>1, <1>5, <2>2, PassingHasConclusive
  <2>4. ASSUME requires_classical_certificate_signature_evidence(c)
        PROVE  \E item \in EvidenceItems(r) : item.kind = "Classical" /\ Conclusive(r, c, item)
    <3>1. classical_required(r) \in SUBSET ScopedCertificates(r) /\ c \in classical_required(r)
      BY <2>4 DEF classical_required
    <3> QED
      BY <1>1, <1>5, <3>1, PassingHasConclusive
  <2> QED
    BY <1>1, <1>5, <2>3, <2>4, PassingDesign
<1>10. r.stack.trust_anchor = r.expected_trust_anchor
  BY <1>1, ValidatedFacts
<1> QED
  BY <1>3, <1>6, <1>7, <1>8, <1>9, <1>10 DEF HybridEarned

-----------------------------------------------------------------------------
(* The session *)

\* An answer is the answer to the request it stands beside.
AnswerMatches == response.status # "pending" => response = evaluate(request)

OracleInv == TypeOK /\ AnswerMatches

\* The initial states satisfy the invariant.
LEMMA InitOracleInv == Init => OracleInv
BY RequestsAreTyped DEF Init, OracleInv, TypeOK, ResponseType, AnswerMatches, Pending,
   Response, Errors, PolicyVerdict

\* Evaluating and revising preserve it.
LEMMA NextOracleInv == OracleInv /\ [Next]_vars => OracleInv'
<1> SUFFICES ASSUME OracleInv, [Next]_vars PROVE OracleInv'
  OBVIOUS
<1>1. CASE Evaluate
  <2>1. response' = evaluate(request) /\ request' = request /\ last' = last
        /\ revisions' = revisions
    BY <1>1 DEF Evaluate
  <2>2. request \in VerificationRequest
    BY DEF OracleInv, TypeOK
  <2>3. /\ DOMAIN request.evidence \subseteq Nat /\ DOMAIN request.certificate_path \subseteq Nat
        /\ DOMAIN request.paired_authentications \subseteq Nat
        /\ request.stack.verdict \in StackVerdict
    BY <2>2 DEF VerificationRequest, StackObservation
  <2>4. ResponseType'
    BY <2>1, <2>3, EvaluateType DEF ResponseType
  <2> QED
    BY <2>1, <2>4 DEF OracleInv, TypeOK, AnswerMatches
<1>2. CASE Revise
  BY <1>2, RequestsAreTyped DEF Revise, OracleInv, TypeOK, ResponseType, AnswerMatches,
     Pending, Response, Errors, PolicyVerdict
<1>3. CASE UNCHANGED vars
  BY <1>3 DEF vars, OracleInv, TypeOK, ResponseType, AnswerMatches
<1> QED
  BY <1>1, <1>2, <1>3 DEF Next

\* In every session every answer is a named error or a verdict: evaluate never
\* reaches an unreachable!() arm, whatever requests callers send.
THEOREM OracleTypeCorrect == Spec => []TypeOK
<1>1. OracleInv => TypeOK
  BY DEF OracleInv
<1> QED
  BY <1>1, InitOracleInv, NextOracleInv, PTL DEF Spec

\* Every hybrid verdict the oracle ever gives is earned: the stack accepted the
\* path it selected, and every in-scope certificate has conclusive evidence.
THEOREM OracleHybridSound == Spec => []HybridSound
<1>1. OracleInv => HybridSound
  <2> SUFFICES ASSUME OracleInv, Satisfied("HybridClaimSetSatisfied")
               PROVE  HybridEarned(request)
    BY DEF HybridSound
  <2>1. response = evaluate(request) /\ request \in VerificationRequest
    BY DEF OracleInv, AnswerMatches, TypeOK, Satisfied
  <2> QED
    BY <2>1, HybridVerdictEarned DEF Satisfied
<1> QED
  BY <1>1, InitOracleInv, NextOracleInv, PTL DEF Spec

-----------------------------------------------------------------------------
(* Failed checks *)

\* What makes a check fail, and that a trusted failure does.
LEMMA RequiredCheckFail ==
  ASSUME NEW check \in CheckResult, NEW allowed \in BOOLEAN
  PROVE  /\ KnownFailure(check) => required_check_state(check, allowed) = "Fail"
         /\ required_check_state(check, allowed) = "Fail" =>
              \/ KnownFailure(check)
              \/ check.state = "NotApplicable" /\ ~allowed
BY DEF required_check_state, CheckResult, CheckState, Confidence, Trusted, KnownFailure

-----------------------------------------------------------------------------
(* What validate_request establishes beyond ValidatedFacts *)

\* The path is one end entity followed by intermediates, and no operation is
\* paired twice.
LEMMA ValidatedOrder ==
  ASSUME NEW r \in VerificationRequest, validate_request(r) = "ok"
  PROVE  /\ \A k \in DOMAIN r.certificate_path :
              r.certificate_path[k].position = IF k = 1 THEN "EndEntity" ELSE "Intermediate"
         /\ \A p, q \in Pairs(r) : p.operation_id = q.operation_id => p = q
<1> DEFINE t == request_tests(r)
           tp == [i \in DOMAIN r.paired_authentications |->
                    FirstError(paired_authentication_tests(r, i))]
<1>1. DOMAIN t = 1 .. 10
  BY DEF request_tests
<1>2. \A k \in 1 .. 10 : t[k] = "ok"
  BY <1>1, FirstErrorOk DEF validate_request
<1>3. DOMAIN r.paired_authentications \subseteq Nat
  BY DEF VerificationRequest
<1> HIDE DEF t
<1>4. t[6] = "ok" /\ t[8] = "ok"
  BY <1>2
<1>5. validate_certificate_path_order(r) = "ok" /\ FirstError(tp) = "ok"
  BY <1>4 DEF t, request_tests
<1>6. \A k \in DOMAIN r.certificate_path :
        r.certificate_path[k].position = IF k = 1 THEN "EndEntity" ELSE "Intermediate"
  BY <1>5 DEF validate_certificate_path_order, ErrorIf
<1>7. ASSUME NEW i \in DOMAIN r.paired_authentications,
             NEW j \in DOMAIN r.paired_authentications, j < i
      PROVE  r.paired_authentications[j].operation_id # r.paired_authentications[i].operation_id
  <2> DEFINE ti == paired_authentication_tests(r, i)
  <2>1. FirstError(ti) = "ok"
    <3>1. \A k \in DOMAIN tp : tp[k] = "ok"
      BY <1>3, <1>5, FirstErrorOk
    <3> QED
      BY <3>1
  <2>2. DOMAIN ti = 1 .. 3
    BY DEF paired_authentication_tests
  <2>3. ti[2] = "ok"
    BY <2>1, <2>2, FirstErrorOk
  <2>4. ~ \E k \in 1 .. i - 1 :
            r.paired_authentications[k].operation_id = r.paired_authentications[i].operation_id
    BY <2>3 DEF paired_authentication_tests, ErrorIf
  <2>5. j \in 1 .. i - 1
    <3>1. i \in Nat /\ j \in Nat /\ j >= 1
      BY DEF VerificationRequest
    <3> QED
      BY <1>7, <3>1
  <2> QED
    BY <2>4, <2>5
<1>8. ASSUME NEW p \in Pairs(r), NEW q \in Pairs(r), p.operation_id = q.operation_id
      PROVE  p = q
  <2>1. PICK i \in DOMAIN r.paired_authentications : p = r.paired_authentications[i]
    BY DEF Pairs, Range
  <2>2. PICK j \in DOMAIN r.paired_authentications : q = r.paired_authentications[j]
    BY DEF Pairs, Range
  <2>3. i \in Int /\ j \in Int
    BY <1>3
  <2>4. ~(i < j) /\ ~(j < i)
    BY <1>7, <1>8, <2>1, <2>2
  <2>5. i = j
    BY <2>3, <2>4
  <2> QED
    BY <2>1, <2>2, <2>5
<1> QED
  BY <1>6, <1>8

\* r and s differ at most in policy and scope.
SameCase(r, s) ==
  /\ r.api_version = s.api_version
  /\ r.validation_time = s.validation_time
  /\ r.revocation_policy = s.revocation_policy
  /\ r.stack = s.stack
  /\ r.expected_trust_anchor = s.expected_trust_anchor
  /\ r.certificate_path = s.certificate_path
  /\ r.paired_authentications = s.paired_authentications
  /\ r.evidence = s.evidence

\* Neither the policy nor the scope decides whether a request is well formed.
LEMMA ValidationIgnoresPolicy ==
  ASSUME NEW r, NEW s, SameCase(r, s)
  PROVE  validate_request(r) = validate_request(s)
<1> USE DEF SameCase
<1>1. /\ Certificates(r) = Certificates(s) /\ Pairs(r) = Pairs(s)
      /\ EvidenceItems(r) = EvidenceItems(s)
  BY DEF Certificates, Pairs, EvidenceItems
<1>2. \A i : duplicate_evidence_tests(r, i) = duplicate_evidence_tests(s, i)
  BY DEF duplicate_evidence_tests
<1>3. \A i : certificate_tests(r, i) = certificate_tests(s, i)
  BY DEF certificate_tests
<1>4. end_entity_error(r) = end_entity_error(s)
  BY DEF end_entity_error
<1>5. validate_certificate_path_order(r) = validate_certificate_path_order(s)
  BY DEF validate_certificate_path_order
<1>6. stack_selected_path_tests(r) = stack_selected_path_tests(s)
  BY <1>1 DEF stack_selected_path_tests
<1>7. \A i : paired_authentication_tests(r, i) = paired_authentication_tests(s, i)
  BY <1>1 DEF paired_authentication_tests
<1>8. \A i, c : invalid_authentication_operation(r, i, c) = invalid_authentication_operation(s, i, c)
  BY <1>1 DEF invalid_authentication_operation
<1>9. \A c, item : expected_artifacts(r, c, item) = expected_artifacts(s, c, item)
  BY <1>1 DEF expected_artifacts
<1>10. \A i : evidence_tests(r, i) = evidence_tests(s, i)
  <2> SUFFICES ASSUME NEW i PROVE evidence_tests(r, i) = evidence_tests(s, i)
    OBVIOUS
  <2> DEFINE item == s.evidence[i]
             Named == {c \in Certificates(s) : c.id = item.certificate_id}
  <2>1. {c \in Certificates(r) : c.id = r.evidence[i].certificate_id} = Named
    BY <1>1
  <2>2. (\E c \in Named : invalid_authentication_operation(r, i, c))
          <=> \E c \in Named : invalid_authentication_operation(s, i, c)
    BY <1>8
  <2>3. (\E c \in Named : \E expected \in expected_artifacts(r, c, item) :
           mismatched_optional_hash(expected, item.evidence_artifact_der_sha256))
          <=> \E c \in Named : \E expected \in expected_artifacts(s, c, item) :
                mismatched_optional_hash(expected, item.evidence_artifact_der_sha256)
    BY <1>9
  <2> QED
    BY <2>1, <2>2, <2>3 DEF evidence_tests, ErrorIf
<1>11. request_tests(r) = request_tests(s)
  BY <1>2, <1>3, <1>4, <1>5, <1>6, <1>7, <1>10 DEF request_tests
<1> QED
  BY <1>11 DEF validate_request

-----------------------------------------------------------------------------
(* A known failure rejects *)

\* Evidence an in-scope certificate calls for is in scope with it.
LEMMA EvidenceIsInScope ==
  ASSUME NEW r \in VerificationRequest, validate_request(r) = "ok",
         NEW c \in ScopedCertificates(r),
         NEW item \in EvidenceItems(r), item.certificate_id = c.id
  PROVE  /\ item \in InScope(r, EvidenceItems(r)) /\ item.position = c.position
         /\ item \in EvidenceItem
<1>1. PICK i \in DOMAIN r.evidence : item = r.evidence[i]
  BY DEF EvidenceItems, Range
<1>2. BoundEvidence(r, i)
  BY <1>1, ValidatedFacts
<1>3. c \in Certificates(r) /\ includes(r.path_scope, c.position)
  BY DEF ScopedCertificates, InScope
<1>4. c.position = item.position
  BY <1>1, <1>2, <1>3 DEF BoundEvidence
<1>5. item \in EvidenceItem
  BY <1>1 DEF VerificationRequest
<1> QED
  BY <1>3, <1>4, <1>5 DEF InScope

\* Failed evidence makes its aggregate state Fail.
LEMMA FailedEvidenceFails ==
  ASSUME NEW r \in VerificationRequest, validate_request(r) = "ok",
         NEW required \in SUBSET ScopedCertificates(r), NEW kind,
         FailedEvidence(r, required, kind)
  PROVE  evidence_state(required, OfKind(r, kind), r.revocation_policy.mode) = "Fail"
<1> DEFINE mode == r.revocation_policy.mode
<1>1. PICK c \in required :
        \/ ~ \E item \in EvidenceItems(r) : item.certificate_id = c.id /\ item.kind = kind
        \/ \E item \in EvidenceItems(r) :
             /\ item.certificate_id = c.id
             /\ item.kind = kind
             /\ \E name \in CheckName : KnownFailure(item.checks[name])
  BY DEF FailedEvidence
<1>2. CASE ~ \E item \in EvidenceItems(r) : item.certificate_id = c.id /\ item.kind = kind
  <2>1. ~ \E item \in OfKind(r, kind) : item.certificate_id = c.id
    BY <1>2 DEF OfKind, InScope
  <2> QED
    BY <2>1, EvidenceStateFails
<1>3. CASE \E item \in EvidenceItems(r) :
             /\ item.certificate_id = c.id
             /\ item.kind = kind
             /\ \E name \in CheckName : KnownFailure(item.checks[name])
  <2>1. PICK item \in EvidenceItems(r), name \in CheckName :
          item.certificate_id = c.id /\ item.kind = kind /\ KnownFailure(item.checks[name])
    BY <1>3
  <2>2. item \in OfKind(r, kind) /\ item \in EvidenceItem
    BY <2>1, EvidenceIsInScope DEF OfKind
  <2>3. item.checks[name] \in CheckResult
    BY <2>2 DEF EvidenceItem
  <2>4. allow_not_applicable(name, mode) \in BOOLEAN
    BY DEF allow_not_applicable
  <2>5. required_check_state(item.checks[name], allow_not_applicable(name, mode)) = "Fail"
    BY <2>1, <2>3, <2>4, RequiredCheckFail
  <2> QED
    BY <2>1, <2>2, <2>5, EvidenceStateFails
<1> QED
  BY <1>1, <1>2, <1>3

\* Whatever else is indeterminate, a known failure rejects.
LEMMA KnownFailureDecides ==
  ASSUME NEW r \in VerificationRequest,
         evaluate(r).status = "result", evaluate(r).policy_verdict # "Unsupported"
  PROVE  /\ /\ r.policy = "P2RequiredHybrid"
            /\ \/ r.stack.verdict = "Reject"
               \/ FailedEvidence(r, classical_required(r), "Classical")
               \/ FailedEvidence(r, pq_required(r), "PostQuantum")
            => evaluate(r).policy_verdict = "Reject"
         /\ /\ r.policy \in {"P0Classical", "P1OptionalHybrid"}
            /\ \/ r.stack.verdict = "Reject"
               \/ FailedEvidence(r, classical_required(r), "Classical")
            => evaluate(r).policy_verdict = "Reject"
<1> DEFINE a == Aggregates(r)
<1>1. validate_request(r) = "ok" /\ evaluate(r).policy_verdict = policy_verdict(r.policy, a)
  BY Decided
<1>2. r.stack.verdict = "Reject" => a["stack"] = "Fail"
  BY AggregateFields DEF stack_state
<1>3. classical_required(r) \in SUBSET ScopedCertificates(r)
      /\ pq_required(r) \in SUBSET ScopedCertificates(r)
  BY DEF classical_required, pq_required
<1>4. FailedEvidence(r, classical_required(r), "Classical") => a["classical"] = "Fail"
  BY <1>1, <1>3, FailedEvidenceFails, AggregateFields
<1>5. FailedEvidence(r, pq_required(r), "PostQuantum") => a["pq"] = "Fail"
  BY <1>1, <1>3, FailedEvidenceFails, AggregateFields
<1> HIDE DEF a
<1>6. AllPass(a) => a["classical"] = "Pass" /\ a["pq"] = "Pass" /\ a["stack"] = "Pass"
  BY DEF AllPass
<1> QED
  BY <1>1, <1>2, <1>4, <1>5, <1>6 DEF policy_verdict, p0_verdict, p1_verdict, p2_verdict

-----------------------------------------------------------------------------
(* Validated evidence is bound to the path *)

\* Two items about one related certificate name the same operation.
LEMMA OneOperation ==
  ASSUME NEW r \in VerificationRequest, validate_request(r) = "ok",
         NEW c \in Certificates(r), c.binding_design = "RelatedCertificate",
         NEW i \in DOMAIN r.evidence, NEW j \in DOMAIN r.evidence,
         r.evidence[i].certificate_id = c.id, r.evidence[j].certificate_id = c.id
  PROVE  r.evidence[i].authentication_operation_id = r.evidence[j].authentication_operation_id
<1>1. i \in Nat \ {0} /\ j \in Nat \ {0}
  BY DEF VerificationRequest
<1>2. BoundEvidence(r, i) /\ BoundEvidence(r, j)
  BY ValidatedFacts
<1>3. ~invalid_authentication_operation(r, i, c) /\ ~invalid_authentication_operation(r, j, c)
  BY <1>2 DEF BoundEvidence
<1>4. CASE i = j
  BY <1>4
<1>5. CASE i < j
  <2>1. i \in 1 .. j - 1
    BY <1>1, <1>5
  <2> QED
    BY <1>3, <2>1 DEF invalid_authentication_operation
<1>6. CASE j < i
  <2>1. j \in 1 .. i - 1
    BY <1>1, <1>6
  <2> QED
    BY <1>3, <2>1 DEF invalid_authentication_operation
<1> QED
  BY <1>1, <1>4, <1>5, <1>6

\* The place of an item in the path, as ValidatedIsBound asks for it.
BoundAt(r, i, k) ==
  LET item == r.evidence[i]  c == r.certificate_path[k] IN
  /\ c.id = item.certificate_id
  /\ item.position = c.position
  /\ c.position = IF k = 1 THEN "EndEntity" ELSE "Intermediate"
  /\ item.certificate_der_sha256 \in {None, r.stack.certification_path_der_sha256[k]}
  /\ \/ c.issuer_edge_sha256 = None
     \/ item.issuer_edge_sha256 \in {None, c.issuer_edge_sha256}
  /\ IF c.binding_design = "RelatedCertificate"
       THEN \E pair \in Pairs(r) :
              /\ pair.classical_certificate_id = c.id
              /\ \A other \in EvidenceItems(r) :
                   other.certificate_id = c.id =>
                     other.authentication_operation_id = pair.operation_id
              /\ item.kind = "PostQuantum" =>
                   item.evidence_artifact_der_sha256 \in
                     {None, pair.post_quantum_certificate_der_sha256}
       ELSE item.evidence_artifact_der_sha256 \in
              {None, r.stack.certification_path_der_sha256[k]}

\* Every evidence item of a validated request has its place.
LEMMA EvidenceHasPlace ==
  ASSUME NEW r \in VerificationRequest, validate_request(r) = "ok",
         NEW i \in DOMAIN r.evidence
  PROVE  \E k \in DOMAIN r.certificate_path : BoundAt(r, i, k)
<1> DEFINE item == r.evidence[i]
<1>1. BoundEvidence(r, i)
  BY ValidatedFacts
<1>2. PICK k \in DOMAIN r.certificate_path : r.certificate_path[k].id = item.certificate_id
  BY <1>1 DEF BoundEvidence, Certificates, Range
<1> DEFINE c == r.certificate_path[k]
<1>3. c \in Certificates(r)
  BY <1>2 DEF Certificates, Range
<1>4. c.position = IF k = 1 THEN "EndEntity" ELSE "Intermediate"
  BY <1>2, ValidatedOrder
<1>5. c.der_sha256 = r.stack.certification_path_der_sha256[k] /\ c.der_sha256 # None
  <2>1. [n \in DOMAIN r.certificate_path |-> r.certificate_path[n].der_sha256]
          = r.stack.certification_path_der_sha256
    BY ValidatedFacts
  <2>2. [n \in DOMAIN r.certificate_path |-> r.certificate_path[n].der_sha256][k] = c.der_sha256
    BY <1>2
  <2> QED
    BY <1>3, <2>1, <2>2, ValidatedFacts
<1>6. /\ item.position = c.position
      /\ ~mismatched_optional_hash(c.der_sha256, item.certificate_der_sha256)
      /\ ~mismatched_optional_hash(c.issuer_edge_sha256, item.issuer_edge_sha256)
      /\ ~invalid_authentication_operation(r, i, c)
      /\ \A expected \in expected_artifacts(r, c, item) :
           ~mismatched_optional_hash(expected, item.evidence_artifact_der_sha256)
  BY <1>1, <1>2, <1>3 DEF BoundEvidence
<1>7. /\ item.position = c.position
      /\ item.certificate_der_sha256 \in {None, r.stack.certification_path_der_sha256[k]}
      /\ \/ c.issuer_edge_sha256 = None
         \/ item.issuer_edge_sha256 \in {None, c.issuer_edge_sha256}
  BY <1>5, <1>6 DEF mismatched_optional_hash
<1> HIDE DEF c, item
<1>8. CASE c.binding_design = "RelatedCertificate"
  <2>1. PICK pair \in Pairs(r) : /\ pair.operation_id = item.authentication_operation_id
                                 /\ pair.classical_certificate_id = c.id
    BY <1>2, <1>6, <1>8 DEF invalid_authentication_operation, item, c
  <2>2. ASSUME NEW other \in EvidenceItems(r), other.certificate_id = c.id
        PROVE  other.authentication_operation_id = pair.operation_id
    <3>1. PICK j \in DOMAIN r.evidence : other = r.evidence[j]
      BY DEF EvidenceItems, Range
    <3> QED
      BY <1>2, <1>3, <1>8, <2>1, <2>2, <3>1, OneOperation DEF item, c
  <2>3. ASSUME item.kind = "PostQuantum"
        PROVE  item.evidence_artifact_der_sha256 \in
                 {None, pair.post_quantum_certificate_der_sha256}
    <3>1. pair.post_quantum_certificate_der_sha256 \in expected_artifacts(r, c, item)
      BY <1>8, <2>1, <2>3 DEF expected_artifacts
    <3>2. pair.post_quantum_certificate_der_sha256 # None
      <4>1. pair \in PairedAuthentication
        BY DEF VerificationRequest, Pairs, Range
      <4> QED
        BY <4>1, NoneIsNoValue DEF PairedAuthentication, Strings
    <3> QED
      BY <1>6, <3>1, <3>2 DEF mismatched_optional_hash
  <2>4. BoundAt(r, i, k)
    BY <1>2, <1>4, <1>7, <1>8, <2>1, <2>2, <2>3 DEF BoundAt, item, c
  <2> QED
    BY <2>4
<1>9. CASE c.binding_design # "RelatedCertificate"
  <2>1. item.evidence_artifact_der_sha256 \in {None, r.stack.certification_path_der_sha256[k]}
    BY <1>5, <1>6, <1>9 DEF expected_artifacts, mismatched_optional_hash
  <2>2. BoundAt(r, i, k)
    BY <1>2, <1>4, <1>7, <1>9, <2>1 DEF BoundAt, item, c
  <2> QED
    BY <2>2
<1> QED
  BY <1>8, <1>9

-----------------------------------------------------------------------------
(* The failed checks *)

\* The failed checks are those of the items, the missing items and the pairs.
LEMMA FailedCheckParts ==
  ASSUME NEW r
  PROVE  /\ \A item \in InScope(r, EvidenceItems(r)) : \A name \in unpassed_checks(item) :
              FailedCheck("evidence", item.id, name, item.checks[name]) \in failed_checks(r)
         /\ missing_evidence_checks(classical_required(r), OfKind(r, "Classical"), "Classical")
              \subseteq failed_checks(r)
         /\ missing_evidence_checks(pq_required(r), OfKind(r, "PostQuantum"), "PostQuantum")
              \subseteq failed_checks(r)
         /\ \A pair \in unestablished_pairs(r) : pair_failed_check(pair) \in failed_checks(r)
<1> DEFINE checks == UNION {item_failed_checks(item) : item \in InScope(r, EvidenceItems(r))}
           classical == missing_evidence_checks(classical_required(r),
                                                OfKind(r, "Classical"), "Classical")
           pq == missing_evidence_checks(pq_required(r),
                                         OfKind(r, "PostQuantum"), "PostQuantum")
           pairs == {pair_failed_check(pair) : pair \in unestablished_pairs(r)}
<1>1. failed_checks(r) = checks \cup classical \cup pq \cup pairs
  BY DEF failed_checks
<1>2. \A pair \in unestablished_pairs(r) : pair_failed_check(pair) \in pairs
  OBVIOUS
<1>3. ASSUME NEW item \in InScope(r, EvidenceItems(r)), NEW name \in unpassed_checks(item)
      PROVE  FailedCheck("evidence", item.id, name, item.checks[name]) \in checks
  BY DEF item_failed_checks
<1> HIDE DEF checks, classical, pq, pairs
<1> QED
  BY <1>1, <1>2, <1>3 DEF classical, pq

\* An in-scope check that neither passes nor is declared inapplicable is
\* reported.
LEMMA ReportedCheck ==
  ASSUME NEW r, NEW item \in InScope(r, EvidenceItems(r)), NEW name \in CheckName,
         item.checks[name].state # "NotApplicable",
         item.checks[name].state # "Pass"
  PROVE  FailedCheck("evidence", item.id, name, item.checks[name]) \in failed_checks(r)
BY FailedCheckParts DEF unpassed_checks

\* Evidence that an in-scope certificate calls for and lacks is reported.
LEMMA ReportedMissing ==
  ASSUME NEW r, NEW required, NEW kind,
         \/ required = classical_required(r) /\ kind = "Classical"
         \/ required = pq_required(r) /\ kind = "PostQuantum",
         NEW c \in required, ~ \E item \in OfKind(r, kind) : item.certificate_id = c.id
  PROVE  FailedCheck(kind, c.id, "present", observed("Fail")) \in failed_checks(r)
<1> DEFINE missing == missing_evidence_checks(required, OfKind(r, kind), kind)
<1>1. FailedCheck(kind, c.id, "present", observed("Fail")) \in missing
  BY DEF missing_evidence_checks
<1>2. missing \subseteq failed_checks(r)
  BY FailedCheckParts
<1> HIDE DEF missing
<1> QED
  BY <1>1, <1>2

\* An in-scope pair whose use in the same operation is not established is
\* reported.
LEMMA ReportedPair ==
  ASSUME NEW r, NEW pair \in Pairs(r), NEW c \in ScopedCertificates(r),
         c.id = pair.classical_certificate_id,
         required_check_state(pair.same_authentication_operation, FALSE) # "Pass"
  PROVE  \E failed \in failed_checks(r) : failed.check = "same-authentication-operation"
<1>1. pair \in unestablished_pairs(r)
  BY DEF unestablished_pairs
<1>2. pair_failed_check(pair).check = "same-authentication-operation"
  BY DEF pair_failed_check, FailedCheck
<1> QED
  BY <1>1, <1>2, FailedCheckParts

-----------------------------------------------------------------------------
(* The flags *)

\* Neither the policy nor the scope decides whether a certificate is hybrid by
\* design or by its pair.
LEMMA DesignIgnoresPolicy ==
  ASSUME NEW r, NEW s, SameCase(r, s), NEW c
  PROVE  design_states(r, c) = design_states(s, c)
<1>1. pair_of(r, c) = pair_of(s, c)
  BY DEF pair_of, SameCase, Pairs
<1> QED
  BY <1>1 DEF design_states

\* Two requests that differ only in the policy have the same aggregate states.
LEMMA PolicyChangesNothingElse ==
  ASSUME NEW r, NEW s, SameCase(r, s), r.path_scope = s.path_scope
  PROVE  /\ validate_request(r) = validate_request(s)
         /\ unsupported(r) = unsupported(s)
         /\ Aggregates(r) = Aggregates(s)
<1> USE DEF SameCase
<1>1. validate_request(r) = validate_request(s)
  BY ValidationIgnoresPolicy
<1>2. /\ Certificates(r) = Certificates(s) /\ Pairs(r) = Pairs(s)
      /\ EvidenceItems(r) = EvidenceItems(s)
  BY DEF Certificates, Pairs, EvidenceItems
<1>3. \A nodes : InScope(r, nodes) = InScope(s, nodes)
  BY DEF InScope
<1>4. ScopedCertificates(r) = ScopedCertificates(s)
  BY <1>2, <1>3 DEF ScopedCertificates
<1>5. unsupported(r) = unsupported(s)
  BY <1>4 DEF unsupported
<1>6. \A kind : OfKind(r, kind) = OfKind(s, kind)
  BY <1>2, <1>3 DEF OfKind
<1>7. classical_required(r) = classical_required(s) /\ pq_required(r) = pq_required(s)
  BY <1>4 DEF classical_required, pq_required
<1>8. stack_state(r) = stack_state(s)
  BY DEF stack_state
<1>9. validated_path_state(r) = validated_path_state(s)
  BY <1>2 DEF validated_path_state
<1>10. \A c : design_states(r, c) = design_states(s, c)
  BY DesignIgnoresPolicy
<1>11. hybrid_authentication_design_state(r, ScopedCertificates(r))
         = hybrid_authentication_design_state(s, ScopedCertificates(s))
  BY <1>4, <1>10 DEF hybrid_authentication_design_state
<1>12. Aggregates(r) = Aggregates(s)
  BY <1>6, <1>7, <1>8, <1>9, <1>11 DEF Aggregates
<1> QED
  BY <1>1, <1>5, <1>12

\* Changing the policy of a typed request gives another one that is the same
\* case.
LEMMA OtherPolicy ==
  ASSUME NEW r \in VerificationRequest, NEW p
  PROVE  /\ SameCase([r EXCEPT !.policy = p], r)
         /\ [r EXCEPT !.policy = p].path_scope = r.path_scope
         /\ [r EXCEPT !.policy = p].policy = p
BY DEF VerificationRequest, SameCase

\* The flags of an answer are backed.
LEMMA FlagsMeanWhatTheySay ==
  ASSUME NEW r \in VerificationRequest, evaluate(r).status = "result"
  PROVE  LET p0 == evaluate([r EXCEPT !.policy = "P0Classical"]).policy_verdict IN
         /\ evaluate(r).classical_only_fallback =>
              /\ p0 = "ClassicalClaimSetSatisfied"
              /\ evaluate(r).policy_verdict # "HybridClaimSetSatisfied"
         /\ /\ r.policy = "P2RequiredHybrid"
            /\ validated_path_state(r) = "Pass"
            /\ p0 = "ClassicalClaimSetSatisfied"
            /\ evaluate(r).policy_verdict # "HybridClaimSetSatisfied"
            => evaluate(r).classical_only_fallback
         /\ evaluate(r).lifecycle_desynchronization =>
              /\ evaluate(r).policy_verdict # "HybridClaimSetSatisfied"
              /\ \E failed \in evaluate(r).failed_checks :
                   failed.check \in {"validity", "revocation"} /\ failed.state = "Fail"
<1> DEFINE s == [r EXCEPT !.policy = "P0Classical"]
           a == Aggregates(r)
           v == policy_verdict(r.policy, a)
           f == classical_only_fallback(r, a, v)
           p0 == evaluate(s).policy_verdict
<1>1. validate_request(r) = "ok"
  BY Decided
<1>2. /\ validate_request(s) = "ok" /\ unsupported(s) = unsupported(r)
      /\ Aggregates(s) = a /\ s.policy = "P0Classical"
  BY <1>1, OtherPolicy, PolicyChangesNothingElse
<1> HIDE DEF s, a
<1>3. CASE unsupported(r)
  <2>1. /\ evaluate(r).policy_verdict = "Unsupported"
        /\ ~evaluate(r).classical_only_fallback
        /\ ~evaluate(r).lifecycle_desynchronization
    BY <1>1, <1>3, Decided
  <2>2. p0 = "Unsupported"
    BY <1>2, <1>3, Decided
  <2> HIDE DEF p0
  <2> QED
    BY <2>1, <2>2 DEF p0, s
<1>4. CASE ~unsupported(r)
  <2>1. /\ evaluate(r).policy_verdict = v
        /\ evaluate(r).classical_only_fallback = f
        /\ evaluate(r).lifecycle_desynchronization = lifecycle_desynchronization(r, f)
        /\ evaluate(r).failed_checks = failed_checks(r)
    BY <1>1, <1>4, Decided DEF a
  <2>2. p0 = p0_verdict(a)
    <3>1. p0 = policy_verdict(s.policy, Aggregates(s))
      BY <1>2, <1>4, Decided
    <3> QED
      BY <1>2, <3>1 DEF policy_verdict
  <2>3. AllPass(a) <=> /\ a["classical"] = "Pass" /\ a["pq"] = "Pass" /\ a["design"] = "Pass"
                       /\ a["stack"] = "Pass" /\ a["profile"] = "Pass" /\ a["path"] = "Pass"
    BY DEF AllPass
  <2>4. f => p0 = "ClassicalClaimSetSatisfied" /\ v # "HybridClaimSetSatisfied"
    BY <2>2, <2>3, VerdictMeans DEF classical_only_fallback, policy_verdict
  <2>5. /\ r.policy = "P2RequiredHybrid"
        /\ validated_path_state(r) = "Pass"
        /\ p0 = "ClassicalClaimSetSatisfied"
        /\ v # "HybridClaimSetSatisfied"
        => f
    <3>1. a["path"] = validated_path_state(r)
      BY AggregateFields DEF a
    <3> QED
      BY <2>2, <2>3, <3>1, VerdictMeans
         DEF classical_only_fallback, policy_verdict, classical_authentication_succeeded
  <2>6. ASSUME lifecycle_desynchronization(r, f)
        PROVE  f /\ \E failed \in failed_checks(r) :
                      failed.check \in {"validity", "revocation"} /\ failed.state = "Fail"
    <3>1. f
      BY <2>6 DEF lifecycle_desynchronization
    <3>2. PICK item \in OfKind(r, "PostQuantum") :
            "Fail" \in {item.checks["validity"].state, item.checks["revocation"].state}
      BY <2>6 DEF lifecycle_desynchronization
    <3>3. PICK name \in {"validity", "revocation"} : item.checks[name].state = "Fail"
      BY <3>2
    <3>4. item \in InScope(r, EvidenceItems(r)) /\ name \in CheckName
      BY <3>2 DEF OfKind, CheckName
    <3> DEFINE failed == FailedCheck("evidence", item.id, name, item.checks[name])
    <3>5. failed \in failed_checks(r)
      BY <3>3, <3>4, ReportedCheck
    <3>6. failed.check = name /\ failed.state = "Fail"
      BY <3>3 DEF FailedCheck
    <3> HIDE DEF failed
    <3> QED
      BY <3>1, <3>3, <3>5, <3>6
  <2> HIDE DEF f, v, p0
  <2> QED
    BY <2>1, <2>4, <2>5, <2>6 DEF p0, s
<1> QED
  BY <1>3, <1>4

-----------------------------------------------------------------------------
(* Reasons of a rejection *)

\* What a Reject says of the aggregate states.
LEMMA RejectMeans ==
  ASSUME NEW policy, NEW a, policy_verdict(policy, a) = "Reject"
  PROVE  \/ policy # "P2RequiredHybrid" /\ ~a.has_classical
         \/ a.classical = "Fail"
         \/ a.stack = "Fail"
         \/ policy = "P2RequiredHybrid" /\ (a.pq = "Fail" \/ a.design = "Fail")
BY DEF policy_verdict, p0_verdict, p1_verdict, p2_verdict

\* The reasons RejectionIsExplained accepts from the evidence.
Explained(r) ==
  \/ \E failed \in failed_checks(r) :
       KnownFailure(failed) \/ failed.check = "same-authentication-operation"
  \/ \E item \in InScope(r, EvidenceItems(r)) : \E name \in CheckName \ {"binding"} :
       item.checks[name].state = "NotApplicable"

\* Required evidence that fails is reported, or a check of it was declared
\* inapplicable.
LEMMA FailedEvidenceExplained ==
  ASSUME NEW r \in VerificationRequest, NEW required, NEW kind,
         \/ required = classical_required(r) /\ kind = "Classical"
         \/ required = pq_required(r) /\ kind = "PostQuantum",
         evidence_state(required, OfKind(r, kind), r.revocation_policy.mode) = "Fail"
  PROVE  Explained(r)
<1> DEFINE mode == r.revocation_policy.mode
<1>1. PICK c \in required :
        \/ ~ \E item \in OfKind(r, kind) : item.certificate_id = c.id
        \/ \E item \in OfKind(r, kind) : \E name \in CheckName :
             /\ item.certificate_id = c.id
             /\ required_check_state(item.checks[name], allow_not_applicable(name, mode)) = "Fail"
  BY EvidenceStateFails
<1>2. CASE ~ \E item \in OfKind(r, kind) : item.certificate_id = c.id
  <2> DEFINE failed == FailedCheck(kind, c.id, "present", observed("Fail"))
  <2>1. failed \in failed_checks(r)
    BY <1>2, ReportedMissing
  <2>2. KnownFailure(failed)
    BY DEF FailedCheck, observed, KnownFailure, Trusted
  <2> HIDE DEF failed
  <2> QED
    BY <2>1, <2>2 DEF Explained
<1>3. CASE \E item \in OfKind(r, kind) : \E name \in CheckName :
             /\ item.certificate_id = c.id
             /\ required_check_state(item.checks[name], allow_not_applicable(name, mode)) = "Fail"
  <2>1. PICK item \in OfKind(r, kind), name \in CheckName :
          required_check_state(item.checks[name], allow_not_applicable(name, mode)) = "Fail"
    BY <1>3
  <2>2. item \in InScope(r, EvidenceItems(r)) /\ item \in EvidenceItem
    BY DEF OfKind, InScope, EvidenceItems, Range, VerificationRequest
  <2>3. item.checks[name] \in CheckResult
    BY <2>2 DEF EvidenceItem
  <2>4. allow_not_applicable(name, mode) \in BOOLEAN
    BY DEF allow_not_applicable
  <2>5. CASE KnownFailure(item.checks[name])
    <3> DEFINE failed == FailedCheck("evidence", item.id, name, item.checks[name])
    <3>1. failed \in failed_checks(r)
      BY <2>2, <2>5, ReportedCheck DEF KnownFailure
    <3>2. KnownFailure(failed)
      BY <2>5 DEF FailedCheck, KnownFailure, Trusted
    <3> HIDE DEF failed
    <3> QED
      BY <3>1, <3>2 DEF Explained
  <2>6. CASE item.checks[name].state = "NotApplicable" /\ ~allow_not_applicable(name, mode)
    BY <2>2, <2>6 DEF Explained, allow_not_applicable
  <2> QED
    BY <2>1, <2>3, <2>4, <2>5, <2>6, RequiredCheckFail
<1> QED
  BY <1>1, <1>2, <1>3

\* A design that fails is not hybrid, or its pair or its post-quantum evidence
\* is reported.
LEMMA FailedDesignExplained ==
  ASSUME NEW r \in VerificationRequest, validate_request(r) = "ok",
         hybrid_authentication_design_state(r, ScopedCertificates(r)) = "Fail"
  PROVE  \/ Explained(r)
         \/ \E c \in ScopedCertificates(r) : /\ ~has_hybrid_certificate_signature_design(c)
                                             /\ c.binding_design # "RelatedCertificate"
<1>1. PICK c \in ScopedCertificates(r) : "Fail" \in design_states(r, c)
  BY DEF hybrid_authentication_design_state, Worst
<1> DEFINE naming == {i \in DOMAIN r.evidence : r.evidence[i].certificate_id = c.id}
<1>2. ~has_hybrid_certificate_signature_design(c) /\ c \in Certificates(r)
  BY <1>1 DEF design_states, ScopedCertificates, InScope
<1>3. CASE c.binding_design # "RelatedCertificate"
  BY <1>2, <1>3
<1>4. CASE c.binding_design = "RelatedCertificate" /\ naming = {}
  <2>1. c \in pq_required(r)
    BY <1>4 DEF pq_required, requires_post_quantum_certificate_signature_evidence
  <2>2. ~ \E item \in OfKind(r, "PostQuantum") : item.certificate_id = c.id
    BY <1>4 DEF OfKind, InScope, EvidenceItems, Range
  <2>3. evidence_state(pq_required(r), OfKind(r, "PostQuantum"), r.revocation_policy.mode)
          = "Fail"
    BY <2>1, <2>2, EvidenceStateFails
  <2> QED
    BY <2>3, FailedEvidenceExplained
<1>5. CASE c.binding_design = "RelatedCertificate" /\ naming # {}
  <2>1. Min(naming) \in naming
    <3>1. naming \in SUBSET Nat
      BY DEF VerificationRequest
    <3> QED
      BY <1>5, <3>1, MinIsMember
  <2>2. ~invalid_authentication_operation(r, Min(naming), c)
    BY <1>2, <2>1, ValidatedFacts DEF BoundEvidence
  <2>3. PICK pair \in Pairs(r) :
          /\ pair.operation_id = r.evidence[Min(naming)].authentication_operation_id
          /\ pair.classical_certificate_id = c.id
    BY <1>5, <2>1, <2>2 DEF invalid_authentication_operation
  <2>4. pair_of(r, c) = {pair}
    <3>1. pair_of(r, c) =
            {p \in Pairs(r) :
               p.operation_id = r.evidence[Min(naming)].authentication_operation_id}
      BY <1>5 DEF pair_of
    <3>2. \A p \in Pairs(r) :
            p.operation_id = r.evidence[Min(naming)].authentication_operation_id <=> p = pair
      BY <2>3, ValidatedOrder
    <3> QED
      BY <3>1, <3>2
  <2>5. required_check_state(pair.same_authentication_operation, FALSE) = "Fail"
    BY <1>1, <1>2, <1>5, <2>4 DEF design_states
  <2> QED
    BY <2>3, <2>5, ReportedPair DEF Explained
<1> QED
  BY <1>3, <1>4, <1>5

\* Every Reject of evaluate has one of the reasons of RejectionIsExplained.
LEMMA RejectionHasReason ==
  ASSUME NEW r \in VerificationRequest, evaluate(r).policy_verdict = "Reject"
  PROVE  /\ evaluate(r).failed_checks = failed_checks(r)
         /\ \/ Explained(r)
            \/ stack_state(r) = "Fail"
            \/ r.policy # "P2RequiredHybrid" /\ classical_required(r) = {}
            \/ /\ r.policy = "P2RequiredHybrid"
               /\ \E c \in ScopedCertificates(r) :
                    /\ ~has_hybrid_certificate_signature_design(c)
                    /\ c.binding_design # "RelatedCertificate"
<1> DEFINE a == Aggregates(r)
<1>1. /\ validate_request(r) = "ok"
      /\ evaluate(r).failed_checks = failed_checks(r)
      /\ policy_verdict(r.policy, a) = "Reject"
  BY Decided
<1>2. a["classical"] = "Fail" => Explained(r)
  BY AggregateFields, FailedEvidenceExplained
<1>3. a["pq"] = "Fail" => Explained(r)
  BY AggregateFields, FailedEvidenceExplained
<1>4. a["design"] = "Fail" =>
        \/ Explained(r)
        \/ \E c \in ScopedCertificates(r) : /\ ~has_hybrid_certificate_signature_design(c)
                                            /\ c.binding_design # "RelatedCertificate"
  BY <1>1, AggregateFields, FailedDesignExplained
<1>5. a["stack"] = stack_state(r) /\ a["has_classical"] = (classical_required(r) # {})
  BY AggregateFields
<1> HIDE DEF a
<1>6. \/ r.policy # "P2RequiredHybrid" /\ ~a["has_classical"]
      \/ a["classical"] = "Fail"
      \/ a["stack"] = "Fail"
      \/ r.policy = "P2RequiredHybrid" /\ (a["pq"] = "Fail" \/ a["design"] = "Fail")
  BY <1>1, RejectMeans
<1>7. CASE r.policy # "P2RequiredHybrid" /\ ~a["has_classical"]
  BY <1>1, <1>5, <1>7
<1> QED
  BY <1>1, <1>2, <1>3, <1>4, <1>5, <1>6, <1>7

-----------------------------------------------------------------------------
(* The answers to two requests of a session *)

\* The claim set granted, from the aggregate states.
LEMMA GrantMeans ==
  ASSUME NEW r \in VerificationRequest
  PROVE  LET a == Aggregates(r)
             answered == validate_request(r) = "ok" /\ ~unsupported(r)
         IN  /\ Grant(evaluate(r)) \in 0 .. 2
             /\ Grant(evaluate(r)) = 2 <=>
                  evaluate(r).policy_verdict = "HybridClaimSetSatisfied"
             /\ Grant(evaluate(r)) = 2 <=>
                  /\ answered
                  /\ \/ r.policy = "P2RequiredHybrid" /\ AllPass(a)
                     \/ /\ r.policy = "P1OptionalHybrid"
                        /\ AllPass(a) /\ classical_authentication_succeeded(a)
             /\ Grant(evaluate(r)) >= 1 <=>
                  /\ answered
                  /\ \/ r.policy = "P2RequiredHybrid" /\ AllPass(a)
                     \/ /\ r.policy \in {"P0Classical", "P1OptionalHybrid"}
                        /\ classical_authentication_succeeded(a)
<1> DEFINE a == Aggregates(r)
           v == evaluate(r).policy_verdict
<1>1. /\ Grant(evaluate(r)) \in 0 .. 2
      /\ Grant(evaluate(r)) = 2 <=> v = "HybridClaimSetSatisfied"
      /\ Grant(evaluate(r)) >= 1 <=>
           v \in {"ClassicalClaimSetSatisfied", "HybridClaimSetSatisfied"}
  BY DEF Grant
<1>2. CASE validate_request(r) = "ok" /\ ~unsupported(r)
  <2>1. v = policy_verdict(r.policy, a)
    BY <1>2, Decided
  <2>2. r.policy \in Policy
    BY DEF VerificationRequest
  <2> HIDE DEF a, v
  <2>3. /\ v = "HybridClaimSetSatisfied" <=>
             \/ r.policy = "P2RequiredHybrid" /\ AllPass(a)
             \/ /\ r.policy = "P1OptionalHybrid"
                /\ AllPass(a) /\ classical_authentication_succeeded(a)
        /\ v \in {"ClassicalClaimSetSatisfied", "HybridClaimSetSatisfied"} <=>
             \/ r.policy = "P2RequiredHybrid" /\ AllPass(a)
             \/ /\ r.policy \in {"P0Classical", "P1OptionalHybrid"}
                /\ classical_authentication_succeeded(a)
    BY <2>1, <2>2, VerdictMeans DEF policy_verdict, Policy
  <2> QED
    BY <1>1, <1>2, <2>3 DEF a, v
<1>3. CASE ~ (validate_request(r) = "ok" /\ ~unsupported(r))
  <2>1. v \in {"none", "Unsupported"}
    BY <1>3, Decided
  <2> HIDE DEF v
  <2> QED
    BY <1>1, <1>3, <2>1 DEF v
<1> QED
  BY <1>2, <1>3

\* The policies are ordered.
LEMMA PolicyOrder ==
  ASSUME NEW r \in VerificationRequest, NEW s \in VerificationRequest,
         s = [r EXCEPT !.policy = s.policy]
  PROVE  /\ r.policy = "P0Classical" /\ s.policy = "P1OptionalHybrid" =>
              Grant(evaluate(s)) >= Grant(evaluate(r))
         /\ r.policy = "P1OptionalHybrid" /\ s.policy = "P2RequiredHybrid" =>
              (Grant(evaluate(r)) = 2 => Grant(evaluate(s)) = 2)
<1>1. /\ validate_request(s) = validate_request(r) /\ unsupported(s) = unsupported(r)
      /\ Aggregates(s) = Aggregates(r)
  <2>1. /\ s.api_version = r.api_version /\ s.path_scope = r.path_scope
        /\ s.validation_time = r.validation_time
        /\ s.revocation_policy = r.revocation_policy /\ s.stack = r.stack
        /\ s.expected_trust_anchor = r.expected_trust_anchor
        /\ s.certificate_path = r.certificate_path
        /\ s.paired_authentications = r.paired_authentications
        /\ s.evidence = r.evidence
    BY DEF VerificationRequest
  <2> QED
    BY <2>1, PolicyChangesNothingElse DEF SameCase
<1>2. /\ Grant(evaluate(r)) \in 0 .. 2 /\ Grant(evaluate(s)) \in 0 .. 2
      /\ r.policy = "P0Classical" => Grant(evaluate(r)) # 2
  BY GrantMeans
<1>3. r.policy = "P0Classical" /\ s.policy = "P1OptionalHybrid" =>
        (Grant(evaluate(r)) >= 1 => Grant(evaluate(s)) >= 1)
  BY <1>1, GrantMeans
<1>4. r.policy = "P1OptionalHybrid" /\ s.policy = "P2RequiredHybrid" =>
        (Grant(evaluate(r)) = 2 => Grant(evaluate(s)) = 2)
  BY <1>1, GrantMeans
<1> QED
  BY <1>2, <1>3, <1>4

\* Passing evidence carries over to fewer certificates when their items are
\* still there and no item is new, less bound or worse.
LEMMA PassingCarriesOver ==
  ASSUME NEW before, NEW after \in SUBSET before, NEW old, NEW new, NEW mode,
         \A c \in after : \A item \in old : item.certificate_id = c.id =>
           \E other \in new : other.certificate_id = c.id,
         \A c \in after : \A item \in new : item.certificate_id = c.id =>
           \E other \in old :
             /\ other.certificate_id = c.id
             /\ evidence_binding_state(c, item) = evidence_binding_state(c, other)
             /\ \A name \in CheckName :
                  required_check_state(other.checks[name], allow_not_applicable(name, mode))
                    = "Pass" =>
                  required_check_state(item.checks[name], allow_not_applicable(name, mode))
                    = "Pass",
         evidence_state(before, old, mode) = "Pass"
  PROVE  evidence_state(after, new, mode) = "Pass"
<1>1. ASSUME NEW c \in after
      PROVE  \E item \in new : item.certificate_id = c.id
  BY EvidenceStatePass
<1>2. ASSUME NEW c \in after, NEW item \in new, item.certificate_id = c.id
      PROVE  /\ evidence_binding_state(c, item) = "Pass"
             /\ \A name \in CheckName :
                  required_check_state(item.checks[name], allow_not_applicable(name, mode))
                    = "Pass"
  <2>1. PICK other \in old :
          /\ other.certificate_id = c.id
          /\ evidence_binding_state(c, item) = evidence_binding_state(c, other)
          /\ \A name \in CheckName :
               required_check_state(other.checks[name], allow_not_applicable(name, mode))
                 = "Pass" =>
               required_check_state(item.checks[name], allow_not_applicable(name, mode))
                 = "Pass"
    BY <1>2
  <2>2. /\ evidence_binding_state(c, other) = "Pass"
        /\ \A name \in CheckName :
             required_check_state(other.checks[name], allow_not_applicable(name, mode))
               = "Pass"
    BY <2>1, EvidenceStatePass
  <2> QED
    BY <2>1, <2>2
<1> QED
  BY <1>1, <1>2, EvidenceStatePasses

\* A design that passes carries over to fewer certificates.
LEMMA DesignCarriesOver ==
  ASSUME NEW r, NEW s, NEW before, NEW after \in SUBSET before,
         \A c \in after : design_states(s, c) = design_states(r, c),
         hybrid_authentication_design_state(r, before) = "Pass"
  PROVE  hybrid_authentication_design_state(s, after) = "Pass"
<1> DEFINE old == UNION {design_states(r, c) : c \in before}
           new == UNION {design_states(s, c) : c \in after}
<1>1. "Fail" \notin old /\ "Indeterminate" \notin old
  BY DEF hybrid_authentication_design_state, Worst
<1>2. new \subseteq old
  OBVIOUS
<1>3. "Fail" \notin new /\ "Indeterminate" \notin new
  BY <1>1, <1>2
<1> QED
  BY <1>3 DEF hybrid_authentication_design_state, Worst

\* Narrowing the scope of a P2 request keeps a hybrid verdict.
LEMMA NarrowScope ==
  ASSUME NEW r \in VerificationRequest, NEW s \in VerificationRequest,
         s = [r EXCEPT !.path_scope = "EndEntity"],
         r.path_scope = "CertificationPath", r.policy = "P2RequiredHybrid",
         evaluate(r).policy_verdict = "HybridClaimSetSatisfied"
  PROVE  evaluate(s).policy_verdict = "HybridClaimSetSatisfied"
<1> DEFINE a == Aggregates(r)
           b == Aggregates(s)
           mode == r.revocation_policy.mode
<1>1. SameCase(s, r) /\ s.path_scope = "EndEntity" /\ s.policy = "P2RequiredHybrid"
  BY DEF VerificationRequest, SameCase
<1>2. validate_request(r) = "ok" /\ ~unsupported(r) /\ AllPass(a)
  BY GrantMeans
<1>3. validate_request(s) = "ok"
  BY <1>1, <1>2, ValidationIgnoresPolicy
<1>4. /\ Certificates(s) = Certificates(r) /\ Pairs(s) = Pairs(r)
      /\ EvidenceItems(s) = EvidenceItems(r)
  BY <1>1 DEF SameCase, Certificates, Pairs, EvidenceItems
<1>5. \A nodes : InScope(s, nodes) \subseteq InScope(r, nodes)
  BY <1>1 DEF InScope, includes
<1>6. ScopedCertificates(s) \in SUBSET ScopedCertificates(r)
  BY <1>4, <1>5 DEF ScopedCertificates
<1>7. /\ classical_required(s) \in SUBSET classical_required(r)
      /\ pq_required(s) \in SUBSET pq_required(r)
      /\ classical_required(s) \subseteq ScopedCertificates(s)
      /\ pq_required(s) \subseteq ScopedCertificates(s)
  BY <1>6 DEF classical_required, pq_required
<1>8. \A kind : OfKind(s, kind) \subseteq OfKind(r, kind)
  BY <1>4, <1>5 DEF OfKind
<1>9. ~unsupported(s)
  BY <1>1, <1>2, <1>6 DEF unsupported, SameCase
<1>10. ASSUME NEW kind, NEW before, NEW after \in SUBSET before,
              after \subseteq ScopedCertificates(s),
              evidence_state(before, OfKind(r, kind), mode) = "Pass"
       PROVE  evidence_state(after, OfKind(s, kind), mode) = "Pass"
  <2>1. ASSUME NEW c \in after, NEW item \in OfKind(r, kind), item.certificate_id = c.id
        PROVE  item \in OfKind(s, kind)
    <3>1. item \in EvidenceItems(s) /\ item.kind = kind
      BY <1>4 DEF OfKind, InScope
    <3>2. item \in InScope(s, EvidenceItems(s))
      BY <1>3, <1>10, <2>1, <3>1, EvidenceIsInScope
    <3> QED
      BY <3>1, <3>2 DEF OfKind
  <2>2. OfKind(s, kind) \subseteq OfKind(r, kind)
    BY <1>8
  <2> QED
    BY <1>10, <2>1, <2>2, PassingCarriesOver
<1>11. b["stack"] = a["stack"] /\ b["profile"] = a["profile"] /\ b["path"] = a["path"]
  <2>1. stack_state(s) = stack_state(r)
    BY <1>1 DEF SameCase, stack_state
  <2>2. validated_path_state(s) = validated_path_state(r)
    BY <1>1, <1>4 DEF SameCase, validated_path_state
  <2>3. s.stack.validation_profile = r.stack.validation_profile
    BY <1>1 DEF SameCase
  <2> QED
    BY <2>1, <2>2, <2>3, AggregateFields
<1>12. /\ a["classical"] = "Pass" /\ a["pq"] = "Pass" /\ a["design"] = "Pass"
       /\ a["stack"] = "Pass" /\ a["profile"] = "Pass" /\ a["path"] = "Pass"
  <2> HIDE DEF a
  <2> QED
    BY <1>2 DEF AllPass
<1>13. s.revocation_policy.mode = mode
  BY <1>1 DEF SameCase
<1>14. b["classical"] = "Pass" /\ b["pq"] = "Pass"
  <2>1. /\ evidence_state(classical_required(r), OfKind(r, "Classical"), mode) = "Pass"
        /\ evidence_state(pq_required(r), OfKind(r, "PostQuantum"), mode) = "Pass"
    BY <1>12, AggregateFields
  <2>2. /\ evidence_state(classical_required(s), OfKind(s, "Classical"), mode) = "Pass"
        /\ evidence_state(pq_required(s), OfKind(s, "PostQuantum"), mode) = "Pass"
    BY <1>7, <1>10, <2>1
  <2> QED
    BY <1>13, <2>2, AggregateFields
<1>15. b["design"] = "Pass"
  <2>1. ASSUME NEW c PROVE design_states(s, c) = design_states(r, c)
    BY <1>1, DesignIgnoresPolicy
  <2>2. hybrid_authentication_design_state(r, ScopedCertificates(r)) = "Pass"
    BY <1>12, AggregateFields
  <2>3. hybrid_authentication_design_state(s, ScopedCertificates(s)) = "Pass"
    BY <1>6, <2>1, <2>2, DesignCarriesOver
  <2> QED
    BY <2>3, AggregateFields
<1>16. AllPass(b)
  <2> HIDE DEF a, b
  <2> QED
    BY <1>11, <1>12, <1>14, <1>15 DEF AllPass
<1> QED
  BY <1>1, <1>3, <1>9, <1>16, GrantMeans

\* What a degraded request keeps.
LEMMA DegradedKeeps ==
  ASSUME NEW r \in VerificationRequest, NEW s \in VerificationRequest, Degraded(r, s)
  PROVE  /\ s.policy = r.policy /\ s.path_scope = r.path_scope
         /\ s.validation_time = r.validation_time /\ s.stack = r.stack
         /\ s.revocation_policy = r.revocation_policy
         /\ s.certificate_path = r.certificate_path
         /\ s.paired_authentications = r.paired_authentications
         /\ DOMAIN s.evidence = DOMAIN r.evidence
         /\ \A i \in DOMAIN r.evidence :
              LET old == r.evidence[i]  new == s.evidence[i] IN
              /\ old \in EvidenceItem /\ new \in EvidenceItem
              /\ new.certificate_id = old.certificate_id
              /\ new.position = old.position /\ new.kind = old.kind
              /\ new.authentication_operation_id = old.authentication_operation_id
              /\ new.certificate_der_sha256 = old.certificate_der_sha256
              /\ new.evidence_artifact_der_sha256 = old.evidence_artifact_der_sha256
              /\ new.issuer_edge_sha256 = old.issuer_edge_sha256
              /\ \A name \in CheckName :
                   \/ new.checks[name] = old.checks[name]
                   \/ ~Trusted(new.checks[name])
                   \/ new.checks[name].state \in {"Fail", "Indeterminate", "NotChecked"}
<1>1. [s EXCEPT !.evidence = r.evidence] = r /\ Len(r.evidence) = Len(s.evidence)
  BY DEF Degraded
<1>2. /\ s.policy = r.policy /\ s.path_scope = r.path_scope
      /\ s.validation_time = r.validation_time /\ s.stack = r.stack
      /\ s.revocation_policy = r.revocation_policy
      /\ s.certificate_path = r.certificate_path
      /\ s.paired_authentications = r.paired_authentications
  BY <1>1 DEF VerificationRequest
<1>3. r.evidence \in Seq(EvidenceItem) /\ s.evidence \in Seq(EvidenceItem)
  BY DEF VerificationRequest
<1>4. DOMAIN s.evidence = DOMAIN r.evidence
  BY <1>1, <1>3
<1>5. ASSUME NEW i \in DOMAIN r.evidence
      PROVE  LET old == r.evidence[i]  new == s.evidence[i] IN
             /\ old \in EvidenceItem /\ new \in EvidenceItem
             /\ new.certificate_id = old.certificate_id
             /\ new.position = old.position /\ new.kind = old.kind
             /\ new.authentication_operation_id = old.authentication_operation_id
             /\ new.certificate_der_sha256 = old.certificate_der_sha256
             /\ new.evidence_artifact_der_sha256 = old.evidence_artifact_der_sha256
             /\ new.issuer_edge_sha256 = old.issuer_edge_sha256
             /\ \A name \in CheckName :
                  \/ new.checks[name] = old.checks[name]
                  \/ ~Trusted(new.checks[name])
                  \/ new.checks[name].state \in {"Fail", "Indeterminate", "NotChecked"}
  <2> DEFINE old == r.evidence[i]
             new == s.evidence[i]
  <2>1. old \in EvidenceItem /\ new \in EvidenceItem
    BY <1>3, <1>4
  <2>2. /\ [new EXCEPT !.checks = old.checks] = old
        /\ \A name \in CheckName :
             \/ new.checks[name] = old.checks[name]
             \/ ~Trusted(new.checks[name])
             \/ new.checks[name].state \in {"Fail", "Indeterminate", "NotChecked"}
    BY DEF Degraded
  <2> HIDE DEF old, new
  <2>3. /\ new.certificate_id = old.certificate_id
        /\ new.position = old.position /\ new.kind = old.kind
        /\ new.authentication_operation_id = old.authentication_operation_id
        /\ new.certificate_der_sha256 = old.certificate_der_sha256
        /\ new.evidence_artifact_der_sha256 = old.evidence_artifact_der_sha256
        /\ new.issuer_edge_sha256 = old.issuer_edge_sha256
    BY <2>1, <2>2 DEF EvidenceItem
  <2> QED
    BY <2>1, <2>2, <2>3 DEF old, new
<1> QED
  BY <1>2, <1>4, <1>5

\* A check that passes although it may have been degraded was not.
LEMMA PassingWasNotDegraded ==
  ASSUME NEW old, NEW new \in CheckResult, NEW allowed \in BOOLEAN,
         \/ new = old
         \/ ~Trusted(new)
         \/ new.state \in {"Fail", "Indeterminate", "NotChecked"},
         required_check_state(new, allowed) = "Pass"
  PROVE  required_check_state(old, allowed) = "Pass"
BY RequiredCheckPass

\* Evidence that passes after degradation passed before it.
LEMMA EvidenceBeforeDegradation ==
  ASSUME NEW r \in VerificationRequest, NEW s \in VerificationRequest, Degraded(r, s),
         NEW required, NEW kind, NEW mode,
         evidence_state(required, OfKind(s, kind), mode) = "Pass"
  PROVE  evidence_state(required, OfKind(r, kind), mode) = "Pass"
<1>1. ASSUME NEW i \in DOMAIN r.evidence
      PROVE  r.evidence[i] \in OfKind(r, kind) <=> s.evidence[i] \in OfKind(s, kind)
  <2>1. /\ s.evidence[i].position = r.evidence[i].position
        /\ s.evidence[i].kind = r.evidence[i].kind
        /\ s.path_scope = r.path_scope
        /\ s.evidence[i] \in EvidenceItems(s) /\ r.evidence[i] \in EvidenceItems(r)
    BY DegradedKeeps DEF EvidenceItems, Range
  <2> QED
    BY <2>1 DEF OfKind, InScope
<1>2. ASSUME NEW c, NEW item \in OfKind(s, kind), item.certificate_id = c.id
      PROVE  \E other \in OfKind(r, kind) : other.certificate_id = c.id
  <2>1. PICK i \in DOMAIN r.evidence : s.evidence[i] = item
    BY DegradedKeeps DEF OfKind, InScope, EvidenceItems, Range
  <2>2. r.evidence[i].certificate_id = c.id
    BY <1>2, <2>1, DegradedKeeps
  <2> QED
    BY <1>1, <2>1, <2>2
<1>3. ASSUME NEW c, NEW item \in OfKind(r, kind), item.certificate_id = c.id
      PROVE  \E other \in OfKind(s, kind) :
               /\ other.certificate_id = c.id
               /\ evidence_binding_state(c, item) = evidence_binding_state(c, other)
               /\ \A name \in CheckName :
                    required_check_state(other.checks[name], allow_not_applicable(name, mode))
                      = "Pass" =>
                    required_check_state(item.checks[name], allow_not_applicable(name, mode))
                      = "Pass"
  <2>1. PICK i \in DOMAIN r.evidence : r.evidence[i] = item
    BY DEF OfKind, InScope, EvidenceItems, Range
  <2> DEFINE other == s.evidence[i]
  <2>2. other \in OfKind(s, kind)
    BY <1>1, <2>1
  <2>3. /\ other \in EvidenceItem /\ other.certificate_id = c.id
        /\ evidence_binding_state(c, item) = evidence_binding_state(c, other)
        /\ \A name \in CheckName :
             \/ other.checks[name] = item.checks[name]
             \/ ~Trusted(other.checks[name])
             \/ other.checks[name].state \in {"Fail", "Indeterminate", "NotChecked"}
    BY <1>3, <2>1, DegradedKeeps DEF evidence_binding_state
  <2> HIDE DEF other
  <2>4. ASSUME NEW name \in CheckName,
               required_check_state(other.checks[name], allow_not_applicable(name, mode)) = "Pass"
        PROVE  required_check_state(item.checks[name], allow_not_applicable(name, mode)) = "Pass"
    <3>1. other.checks[name] \in CheckResult
      BY <2>3 DEF EvidenceItem
    <3>2. allow_not_applicable(name, mode) \in BOOLEAN
      BY DEF allow_not_applicable
    <3> QED
      BY <2>3, <2>4, <3>1, <3>2, PassingWasNotDegraded
  <2> QED
    BY <2>2, <2>3, <2>4
<1> QED
  BY <1>2, <1>3, PassingCarriesOver

\* A certificate is hybrid by its pair after degradation as before it.
LEMMA DesignKeptByDegradation ==
  ASSUME NEW r \in VerificationRequest, NEW s \in VerificationRequest, Degraded(r, s), NEW c
  PROVE  design_states(r, c) = design_states(s, c)
<1> DEFINE old == {i \in DOMAIN r.evidence : r.evidence[i].certificate_id = c.id}
           new == {i \in DOMAIN s.evidence : s.evidence[i].certificate_id = c.id}
<1>1. Pairs(r) = Pairs(s)
  BY DegradedKeeps DEF Pairs
<1>2. old = new
  BY DegradedKeeps
<1>3. pair_of(r, c) = pair_of(s, c)
  <2>1. CASE old = {}
    BY <1>2, <2>1 DEF pair_of
  <2>2. CASE old # {}
    <3>1. Min(old) \in old
      <4>1. old \in SUBSET Nat
        BY DEF VerificationRequest
      <4> QED
        BY <2>2, <4>1, MinIsMember
    <3>2. r.evidence[Min(old)].authentication_operation_id
            = s.evidence[Min(new)].authentication_operation_id
      <4>1. Min(old) \in DOMAIN r.evidence
        BY <3>1
      <4> HIDE DEF old, new
      <4> QED
        BY <1>2, <4>1, DegradedKeeps
    <3> HIDE DEF old, new
    <3> QED
      BY <1>1, <1>2, <2>2, <3>2 DEF pair_of, old, new
  <2> QED
    BY <2>1, <2>2
<1> QED
  BY <1>3 DEF design_states

\* Degrading an answered request cannot raise the claim set it is granted.
LEMMA DegradeGrants ==
  ASSUME NEW r \in VerificationRequest, NEW s \in VerificationRequest, Degraded(r, s),
         validate_request(r) = "ok"
  PROVE  Grant(evaluate(s)) <= Grant(evaluate(r))
<1> DEFINE a == Aggregates(r)
           b == Aggregates(s)
<1>1. /\ s.policy = r.policy /\ s.path_scope = r.path_scope
      /\ s.validation_time = r.validation_time /\ s.stack = r.stack
      /\ s.revocation_policy = r.revocation_policy
      /\ s.certificate_path = r.certificate_path
      /\ s.paired_authentications = r.paired_authentications
  BY DegradedKeeps
<1>2. Certificates(s) = Certificates(r) /\ ScopedCertificates(s) = ScopedCertificates(r)
  BY <1>1 DEF Certificates, ScopedCertificates, InScope
<1>3. classical_required(s) = classical_required(r) /\ pq_required(s) = pq_required(r)
  BY <1>2 DEF classical_required, pq_required
<1>4. unsupported(s) = unsupported(r)
  BY <1>1, <1>2 DEF unsupported
<1>5. /\ b["stack"] = a["stack"] /\ b["profile"] = a["profile"] /\ b["path"] = a["path"]
      /\ b["has_classical"] = a["has_classical"]
  <2>1. stack_state(s) = stack_state(r)
    BY <1>1 DEF stack_state
  <2>2. validated_path_state(s) = validated_path_state(r)
    BY <1>1, <1>2 DEF validated_path_state
  <2> QED
    BY <1>1, <1>3, <2>1, <2>2, AggregateFields
<1>6. b["classical"] = "Pass" => a["classical"] = "Pass"
  BY <1>1, <1>3, AggregateFields, EvidenceBeforeDegradation
<1>7. b["pq"] = "Pass" => a["pq"] = "Pass"
  BY <1>1, <1>3, AggregateFields, EvidenceBeforeDegradation
<1>8. b["design"] = "Pass" => a["design"] = "Pass"
  BY <1>2, AggregateFields, DesignKeptByDegradation, DesignCarriesOver
<1> HIDE DEF a, b
<1>9. AllPass(b) => AllPass(a)
  BY <1>5, <1>6, <1>7, <1>8 DEF AllPass
<1>10. classical_authentication_succeeded(b) => classical_authentication_succeeded(a)
  BY <1>5, <1>6 DEF classical_authentication_succeeded
<1>11. Grant(evaluate(s)) \in 0 .. 2 /\ Grant(evaluate(r)) \in 0 .. 2
  BY GrantMeans
<1>12. Grant(evaluate(s)) = 2 => Grant(evaluate(r)) = 2
  BY <1>1, <1>4, <1>9, <1>10, GrantMeans DEF a, b
<1>13. Grant(evaluate(s)) >= 1 => Grant(evaluate(r)) >= 1
  BY <1>1, <1>4, <1>9, <1>10, GrantMeans DEF a, b
<1> QED
  BY <1>11, <1>12, <1>13

-----------------------------------------------------------------------------
(* The last answer of the session *)

\* The answer kept beside the last request is the answer to it.
LastMatches == last.response = Pending \/ last.response = evaluate(last.request)

SessionInv == OracleInv /\ LastMatches

\* The initial states satisfy the invariant.
LEMMA InitSessionInv == Init => SessionInv
BY InitOracleInv DEF SessionInv, LastMatches, Init

\* Evaluating and revising preserve it.
LEMMA NextSessionInv == SessionInv /\ [Next]_vars => SessionInv'
<1> SUFFICES ASSUME SessionInv, [Next]_vars PROVE LastMatches'
  BY NextOracleInv DEF SessionInv
<1>1. CASE Evaluate
  BY <1>1 DEF Evaluate, SessionInv, LastMatches
<1>2. CASE Revise
  <2>1. response = evaluate(request)
    BY <1>2 DEF Revise, SessionInv, OracleInv, AnswerMatches
  <2> QED
    BY <1>2, <2>1 DEF Revise, LastMatches
<1>3. CASE UNCHANGED vars
  BY <1>3 DEF vars, SessionInv, LastMatches
<1> QED
  BY <1>1, <1>2, <1>3 DEF Next

\* What the invariant says of a state in which the current request is answered.
LEMMA Answered ==
  ASSUME SessionInv
  PROVE  /\ request \in VerificationRequest /\ last.request \in VerificationRequest
         /\ response.status # "pending" => response = evaluate(request)
         /\ last.response.status = "result" =>
              /\ last.response = evaluate(last.request)
              /\ validate_request(last.request) = "ok"
         /\ Grant(last.response) = 0 \/ last.response = evaluate(last.request)
<1>1. Pending.status = "pending" /\ Grant(Pending) = 0
  BY DEF Pending, Response, Grant
<1> QED
  BY <1>1, Decided DEF SessionInv, OracleInv, TypeOK, AnswerMatches, LastMatches

\* In every session, whatever requests callers send, an answered request binds
\* each of its evidence items to the place of its certificate in the path the
\* stack reports, by position, digest and issuer edge (validate_request).
THEOREM OracleValidatedIsBound == Spec => []ValidatedIsBound
<1>1. SessionInv => ValidatedIsBound
  <2> SUFFICES ASSUME SessionInv, response.status = "result", NEW i \in DOMAIN request.evidence
               PROVE  \E k \in DOMAIN request.certificate_path : BoundAt(request, i, k)
    BY DEF ValidatedIsBound, BoundAt
  <2>1. request \in VerificationRequest /\ validate_request(request) = "ok"
    BY Answered, Decided
  <2> QED
    BY <2>1, EvidenceHasPlace
<1> QED
  BY <1>1, InitSessionInv, NextSessionInv, PTL DEF Spec

\* In every session a known failure of evidence the policy depends on rejects,
\* whatever else is indeterminate (evaluate, evidence_state).
THEOREM OracleKnownFailureRejects == Spec => []KnownFailureRejects
<1>1. SessionInv => KnownFailureRejects
  BY Answered, KnownFailureDecides DEF KnownFailureRejects
<1> QED
  BY <1>1, InitSessionInv, NextSessionInv, PTL DEF Spec

\* In every session the fallback and desynchronization flags of an answer mean
\* what their names say.
THEOREM OracleFlagsAreBacked == Spec => []FlagsAreBacked
<1>1. SessionInv => FlagsAreBacked
  BY Answered, FlagsMeanWhatTheySay DEF FlagsAreBacked
<1> QED
  BY <1>1, InitSessionInv, NextSessionInv, PTL DEF Spec

\* In every session a Reject is explained by its failed checks or by one of the
\* listed reasons that failed_checks leaves out.
THEOREM OracleRejectionIsExplained == Spec => []RejectionIsExplained
<1>1. SessionInv => RejectionIsExplained
  <2> SUFFICES ASSUME SessionInv, Satisfied("Reject") PROVE RejectionIsExplained
    BY DEF RejectionIsExplained
  <2>1. /\ request \in VerificationRequest /\ response = evaluate(request)
        /\ evaluate(request).policy_verdict = "Reject"
    BY Answered DEF Satisfied
  <2> QED
    BY <2>1, RejectionHasReason DEF RejectionIsExplained, Explained
<1> QED
  BY <1>1, InitSessionInv, NextSessionInv, PTL DEF Spec

\* In every session, however many checks of an answered request are measured
\* worse, the claim set it is granted does not grow.
THEOREM OracleDegradationNeverUpgrades == Spec => []DegradationNeverUpgrades
<1>1. SessionInv => DegradationNeverUpgrades
  BY Answered, DegradeGrants DEF DegradationNeverUpgrades
<1> QED
  BY <1>1, InitSessionInv, NextSessionInv, PTL DEF Spec

\* In every session narrowing the scope of a P2 request to the end entity keeps
\* its hybrid verdict.
THEOREM OracleNarrowingKeepsHybrid == Spec => []NarrowingKeepsHybrid
<1>1. SessionInv => NarrowingKeepsHybrid
  <2>1. last.response.policy_verdict = "HybridClaimSetSatisfied" => Grant(last.response) = 2
    BY DEF Grant
  <2> QED
    BY <2>1, Answered, NarrowScope DEF NarrowingKeepsHybrid
<1> QED
  BY <1>1, InitSessionInv, NextSessionInv, PTL DEF Spec

\* In every session P1 grants at least what P0 grants and P2 calls hybrid what
\* P1 calls hybrid.
THEOREM OraclePoliciesAreOrdered == Spec => []PoliciesAreOrdered
<1>1. SessionInv => PoliciesAreOrdered
  <2> SUFFICES ASSUME SessionInv, response.status # "pending",
                      request = [last.request EXCEPT !.policy = request.policy]
               PROVE  PoliciesAreOrdered
    BY DEF PoliciesAreOrdered
  <2> DEFINE r == last.request
             s == request
  <2>1. /\ r \in VerificationRequest /\ s \in VerificationRequest
        /\ response = evaluate(s)
    BY Answered
  <2>2. CASE last.response = evaluate(r)
    BY <2>1, <2>2, PolicyOrder DEF PoliciesAreOrdered
  <2>3. CASE Grant(last.response) = 0
    BY <2>1, <2>3, GrantMeans DEF PoliciesAreOrdered
  <2> QED
    BY <2>2, <2>3, Answered
<1> QED
  BY <1>1, InitSessionInv, NextSessionInv, PTL DEF Spec
=============================================================================

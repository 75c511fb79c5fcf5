---------------------------- MODULE EvaluationProofs ------------------------
(***************************************************************************)
(* What the operators of Evaluation compute: the facts that the proofs     *)
(* about the oracle's sessions and about the analyses both rest on.        *)
(***************************************************************************)
EXTENDS Evaluation, WellFoundedInduction, TLAPS

\* A non-empty set of indices has a least element.
LEMMA MinIsMember ==
  ASSUME NEW S \in SUBSET Nat, S # {}
  PROVE  Min(S) \in S /\ \A j \in S : Min(S) <= j
<1>1. PICK x \in S : \A y \in S : ~ (<<y, x>> \in OpToRel(<, Nat))
  BY WFMin, NatLessThanWellFounded
<1>2. \A y \in S : x <= y
  <2> SUFFICES ASSUME NEW y \in S PROVE x <= y
    OBVIOUS
  <2>1. x \in Nat /\ y \in Nat
    OBVIOUS
  <2>2. ~ (y < x)
    BY <1>1, <2>1, Zenon DEF OpToRel
  <2> QED
    BY <2>1, <2>2
<1> QED
  BY <1>2 DEF Min

\* The first error of a sequence of tests is "ok" only if all of them are.
LEMMA FirstErrorOk ==
  ASSUME NEW e, DOMAIN e \subseteq Nat
  PROVE  FirstError(e) = "ok" <=> \A i \in DOMAIN e : e[i] = "ok"
<1> DEFINE failing == {i \in DOMAIN e : e[i] # "ok"}
<1>1. CASE failing = {}
  BY <1>1 DEF FirstError
<1>2. CASE failing # {}
  <2>1. Min(failing) \in failing
    BY <1>2, MinIsMember
  <2> QED
    BY <1>2, <2>1 DEF FirstError
<1> QED
  BY <1>1, <1>2

\* The first error of a sequence of tests is one of the errors or "ok".
LEMMA FirstErrorType ==
  ASSUME NEW e, DOMAIN e \subseteq Nat, NEW E,
         "ok" \in E, \A i \in DOMAIN e : e[i] \in E
  PROVE  FirstError(e) \in E
<1> DEFINE failing == {i \in DOMAIN e : e[i] # "ok"}
<1>1. CASE failing = {}
  BY <1>1 DEF FirstError
<1>2. CASE failing # {}
  <2>1. Min(failing) \in failing
    BY <1>2, MinIsMember
  <2> QED
    BY <1>2, <2>1 DEF FirstError
<1> QED
  BY <1>1, <1>2

-----------------------------------------------------------------------------
(* Aggregate states *)

AggregateState == {"Pass", "Fail", "Indeterminate"}

\* Passing evidence has, for every required certificate, an item, and no item
\* of that certificate is unbound or has a check that does not pass.
LEMMA EvidenceStatePass ==
  ASSUME NEW required, NEW items, NEW mode, NEW c \in required,
         evidence_state(required, items, mode) = "Pass"
  PROVE  /\ \E item \in items : item.certificate_id = c.id
         /\ \A item \in items : item.certificate_id = c.id =>
              /\ evidence_binding_state(c, item) = "Pass"
              /\ \A name \in CheckName :
                   required_check_state(item.checks[name], allow_not_applicable(name, mode))
                     = "Pass"
<1> DEFINE states == UNION {certificate_states(d, items, mode) : d \in required}
           mine == {item \in items : item.certificate_id = c.id}
<1>1. "Fail" \notin states /\ "Indeterminate" \notin states
  BY DEF evidence_state, Worst
<1>2. certificate_states(c, items, mode) \subseteq states
  OBVIOUS
<1>3. mine # {}
  BY <1>1, <1>2 DEF certificate_states
<1>4. ASSUME NEW item \in items, item.certificate_id = c.id
      PROVE  /\ evidence_binding_state(c, item) = "Pass"
             /\ \A name \in CheckName :
                  required_check_state(item.checks[name], allow_not_applicable(name, mode))
                    = "Pass"
  <2>1. item_states(c, item, mode) \subseteq states
    BY <1>2, <1>3, <1>4 DEF certificate_states
  <2>2. evidence_binding_state(c, item) \in item_states(c, item, mode)
    BY DEF item_states
  <2>3. evidence_binding_state(c, item) \in AggregateState
    BY DEF evidence_binding_state, AggregateState
  <2>4. ASSUME NEW name \in CheckName
        PROVE  required_check_state(item.checks[name], allow_not_applicable(name, mode))
                 = "Pass"
    <3> DEFINE x == required_check_state(item.checks[name], allow_not_applicable(name, mode))
    <3>1. x \in states
      BY <2>1 DEF item_states
    <3>2. x \in AggregateState
      BY DEF required_check_state, AggregateState
    <3> QED
      BY <1>1, <3>1, <3>2 DEF AggregateState
  <2> QED
    BY <1>1, <2>1, <2>2, <2>3, <2>4 DEF AggregateState
<1> QED
  BY <1>3, <1>4

\* evidence_state in terms of the certificates: it passes exactly when every
\* required certificate has an item and all its items are bound and pass.
LEMMA EvidenceStatePasses ==
  ASSUME NEW required, NEW items, NEW mode,
         \A c \in required :
           /\ \E item \in items : item.certificate_id = c.id
           /\ \A item \in items : item.certificate_id = c.id =>
                /\ evidence_binding_state(c, item) = "Pass"
                /\ \A name \in CheckName :
                     required_check_state(item.checks[name], allow_not_applicable(name, mode))
                       = "Pass"
  PROVE  evidence_state(required, items, mode) = "Pass"
<1> DEFINE states == UNION {certificate_states(d, items, mode) : d \in required}
<1>1. ASSUME NEW c \in required, NEW s \in certificate_states(c, items, mode)
      PROVE  s = "Pass"
  <2> DEFINE mine == {item \in items : item.certificate_id = c.id}
  <2>1. mine # {}
    OBVIOUS
  <2>2. PICK item \in mine : s \in item_states(c, item, mode)
    BY <1>1, <2>1 DEF certificate_states
  <2> QED
    BY <2>2 DEF item_states
<1>2. "Fail" \notin states /\ "Indeterminate" \notin states
  BY <1>1
<1> QED
  BY <1>2 DEF evidence_state, Worst

\* It fails exactly when some required certificate lacks an item or has one
\* with a failed check.
LEMMA EvidenceStateFails ==
  ASSUME NEW required, NEW items, NEW mode
  PROVE  evidence_state(required, items, mode) = "Fail" <=>
           \E c \in required :
             \/ ~ \E item \in items : item.certificate_id = c.id
             \/ \E item \in items : \E name \in CheckName :
                  /\ item.certificate_id = c.id
                  /\ required_check_state(item.checks[name], allow_not_applicable(name, mode))
                       = "Fail"
<1> DEFINE states == UNION {certificate_states(d, items, mode) : d \in required}
           Failing(c) ==
             \/ ~ \E item \in items : item.certificate_id = c.id
             \/ \E item \in items : \E name \in CheckName :
                  /\ item.certificate_id = c.id
                  /\ required_check_state(item.checks[name], allow_not_applicable(name, mode))
                       = "Fail"
<1>1. evidence_state(required, items, mode) = "Fail" <=> "Fail" \in states
  BY DEF evidence_state, Worst
<1>2. ASSUME NEW c \in required
      PROVE  "Fail" \in certificate_states(c, items, mode) <=> Failing(c)
  <2> DEFINE mine == {item \in items : item.certificate_id = c.id}
  <2>1. CASE mine = {}
    BY <2>1 DEF certificate_states
  <2>2. CASE mine # {}
    <3>1. \A item : "Fail" \in item_states(c, item, mode) <=>
            \E name \in CheckName :
              required_check_state(item.checks[name], allow_not_applicable(name, mode)) = "Fail"
      BY DEF item_states, evidence_binding_state
    <3>2. certificate_states(c, items, mode) = UNION {item_states(c, item, mode) : item \in mine}
      BY <2>2 DEF certificate_states
    <3> QED
      BY <2>2, <3>1, <3>2
  <2> QED
    BY <2>1, <2>2
<1> HIDE DEF Failing
<1>3. "Fail" \in states <=> \E c \in required : Failing(c)
  BY <1>2
<1> QED
  BY <1>1, <1>3 DEF Failing

\* The fields of Aggregates.
LEMMA AggregateFields ==
  ASSUME NEW r
  PROVE  /\ Aggregates(r).classical = evidence_state(classical_required(r),
              OfKind(r, "Classical"), r.revocation_policy.mode)
         /\ Aggregates(r).pq = evidence_state(pq_required(r),
              OfKind(r, "PostQuantum"), r.revocation_policy.mode)
         /\ Aggregates(r).path = validated_path_state(r)
         /\ Aggregates(r).stack = stack_state(r)
         /\ Aggregates(r).profile = authentication_profile_state(r.stack.validation_profile)
         /\ Aggregates(r).design = hybrid_authentication_design_state(r, ScopedCertificates(r))
         /\ Aggregates(r).has_classical = (classical_required(r) # {})
BY DEF Aggregates

-----------------------------------------------------------------------------
(* Verdicts *)

\* What a verdict says of the aggregate states.
LEMMA VerdictMeans ==
  ASSUME NEW a
  PROVE  /\ p0_verdict(a) # "HybridClaimSetSatisfied"
         /\ p0_verdict(a) = "ClassicalClaimSetSatisfied"
              <=> classical_authentication_succeeded(a)
         /\ p1_verdict(a) = "HybridClaimSetSatisfied"
              <=> AllPass(a) /\ classical_authentication_succeeded(a)
         /\ classical_authentication_succeeded(a) =>
              p1_verdict(a) \in {"ClassicalClaimSetSatisfied", "HybridClaimSetSatisfied"}
         /\ p1_verdict(a) = "ClassicalClaimSetSatisfied" =>
              classical_authentication_succeeded(a)
         /\ p2_verdict(a) = "HybridClaimSetSatisfied" <=> AllPass(a)
         /\ p2_verdict(a) # "ClassicalClaimSetSatisfied"
<1>1. AllPass(a) <=> /\ a["classical"] = "Pass" /\ a["pq"] = "Pass" /\ a["design"] = "Pass"
                     /\ a["stack"] = "Pass" /\ a["profile"] = "Pass" /\ a["path"] = "Pass"
  BY DEF AllPass
<1> QED
  BY <1>1 DEF p0_verdict, p1_verdict, p2_verdict, classical_authentication_succeeded

\* A request that is answered with a verdict was validated; unless it is
\* unsupported, its answer is decided from the aggregate states.
LEMMA Decided ==
  ASSUME NEW r
  PROVE  /\ evaluate(r).status = "result" <=> validate_request(r) = "ok"
         /\ validate_request(r) # "ok" => evaluate(r).policy_verdict = "none"
         /\ validate_request(r) = "ok" /\ unsupported(r) =>
              /\ evaluate(r).policy_verdict = "Unsupported"
              /\ ~evaluate(r).classical_only_fallback
              /\ ~evaluate(r).lifecycle_desynchronization
         /\ validate_request(r) = "ok" /\ ~unsupported(r) =>
              LET v == policy_verdict(r.policy, Aggregates(r))
                  f == classical_only_fallback(r, Aggregates(r), v)
              IN  /\ evaluate(r).policy_verdict = v
                  /\ evaluate(r).classical_only_fallback = f
                  /\ evaluate(r).lifecycle_desynchronization = lifecycle_desynchronization(r, f)
                  /\ evaluate(r).failed_checks = failed_checks(r)
<1>1. CASE validate_request(r) # "ok"
  BY <1>1 DEF evaluate, Response
<1>2. CASE validate_request(r) = "ok" /\ unsupported(r)
  BY <1>2 DEF evaluate, Response
<1>3. CASE validate_request(r) = "ok" /\ ~unsupported(r)
  BY <1>3 DEF evaluate, decide, Response
<1> QED
  BY <1>1, <1>2, <1>3

-----------------------------------------------------------------------------
(* Types *)

\* Every error validate_request can return is named.
LEMMA ValidateType ==
  ASSUME NEW r, DOMAIN r.evidence \subseteq Nat, DOMAIN r.certificate_path \subseteq Nat,
         DOMAIN r.paired_authentications \subseteq Nat
  PROVE  validate_request(r) \in Errors
<1>1. "ok" \in Errors
  BY DEF Errors
<1>2. /\ DOMAIN r.evidence \subseteq Nat
      /\ DOMAIN r.certificate_path \subseteq Nat
      /\ DOMAIN r.paired_authentications \subseteq Nat
  OBVIOUS
<1>3. \A i : FirstError(duplicate_evidence_tests(r, i)) \in Errors
  <2> SUFFICES ASSUME NEW i PROVE FirstError(duplicate_evidence_tests(r, i)) \in Errors
    OBVIOUS
  <2>1. DOMAIN duplicate_evidence_tests(r, i) = 1 .. 2
    BY DEF duplicate_evidence_tests
  <2>2. \A k \in 1 .. 2 : duplicate_evidence_tests(r, i)[k] \in Errors
    BY DEF duplicate_evidence_tests, ErrorIf, Errors
  <2> QED
    BY <1>1, <2>1, <2>2, FirstErrorType
<1>4. \A i : FirstError(certificate_tests(r, i)) \in Errors
  <2> SUFFICES ASSUME NEW i PROVE FirstError(certificate_tests(r, i)) \in Errors
    OBVIOUS
  <2>1. DOMAIN certificate_tests(r, i) = 1 .. 5
    BY DEF certificate_tests
  <2>2. \A k \in 1 .. 5 : certificate_tests(r, i)[k] \in Errors
    BY DEF certificate_tests, ErrorIf, Errors
  <2> QED
    BY <1>1, <2>1, <2>2, FirstErrorType
<1>5. \A i : FirstError(paired_authentication_tests(r, i)) \in Errors
  <2> SUFFICES ASSUME NEW i PROVE FirstError(paired_authentication_tests(r, i)) \in Errors
    OBVIOUS
  <2>1. DOMAIN paired_authentication_tests(r, i) = 1 .. 3
    BY DEF paired_authentication_tests
  <2>2. \A k \in 1 .. 3 : paired_authentication_tests(r, i)[k] \in Errors
    BY DEF paired_authentication_tests, ErrorIf, Errors
  <2> QED
    BY <1>1, <2>1, <2>2, FirstErrorType
<1>6. \A i : FirstError(evidence_tests(r, i)) \in Errors
  <2> SUFFICES ASSUME NEW i PROVE FirstError(evidence_tests(r, i)) \in Errors
    OBVIOUS
  <2>1. DOMAIN evidence_tests(r, i) = 1 .. 12
    BY DEF evidence_tests
  <2>2. \A k \in 1 .. 12 : evidence_tests(r, i)[k] \in Errors
    BY SMTT(30) DEF evidence_tests, ErrorIf, Errors
  <2> QED
    BY <1>1, <2>1, <2>2, FirstErrorType
<1>7. \A anchor : validate_trust_anchor(anchor) \in Errors
  <2> SUFFICES ASSUME NEW anchor PROVE validate_trust_anchor(anchor) \in Errors
    OBVIOUS
  <2> DEFINE t == << ErrorIf(~valid_sha256_hex(anchor.spki_sha256), "InvalidSha256Hex"),
                     ErrorIf(anchor.name = EmptyString, "TrustAnchorMismatch") >>
  <2>1. DOMAIN t = 1 .. 2
    OBVIOUS
  <2>2. \A k \in 1 .. 2 : t[k] \in Errors
    BY DEF ErrorIf, Errors
  <2>3. FirstError(t) \in Errors
    BY <1>1, <2>1, <2>2, FirstErrorType
  <2> QED
    BY <2>3 DEF validate_trust_anchor, ErrorIf, Errors
<1>8. FirstError(stack_selected_path_tests(r)) \in Errors
  <2>1. DOMAIN stack_selected_path_tests(r) = 1 .. 5
    BY DEF stack_selected_path_tests
  <2>2. \A k \in 1 .. 5 : stack_selected_path_tests(r)[k] \in Errors
    BY <1>7 DEF stack_selected_path_tests, ErrorIf, Errors
  <2> QED
    BY <1>1, <2>1, <2>2, FirstErrorType
<1> DEFINE td == [i \in DOMAIN r.evidence |-> FirstError(duplicate_evidence_tests(r, i))]
           tc == [i \in DOMAIN r.certificate_path |-> FirstError(certificate_tests(r, i))]
           tp == [i \in DOMAIN r.paired_authentications |->
                    FirstError(paired_authentication_tests(r, i))]
           te == [i \in DOMAIN r.evidence |-> FirstError(evidence_tests(r, i))]
<1>9. FirstError(td) \in Errors
  BY <1>1, <1>2, <1>3, FirstErrorType
<1>10. FirstError(tc) \in Errors
  BY <1>1, <1>2, <1>4, FirstErrorType
<1>11. FirstError(tp) \in Errors
  BY <1>1, <1>2, <1>5, FirstErrorType
<1>12. FirstError(te) \in Errors
  BY <1>1, <1>2, <1>6, FirstErrorType
<1>13. DOMAIN request_tests(r) = 1 .. 10
  BY DEF request_tests
<1> DEFINE te1 == ErrorIf(r.api_version # "v9", "UnsupportedApiVersion")
           te2 == ErrorIf(r.validation_time = BadTime, "InvalidValidationTime")
           te10 == ErrorIf(/\ r.stack.validation_time.state = "Pass"
                           /\ r.stack.applied_validation_time # r.validation_time,
                           "ValidationTimeMismatch")
           ftd == FirstError(td)
           ftc == FirstError(tc)
           ftp == FirstError(tp)
           fte == FirstError(te)
           path == FirstError(stack_selected_path_tests(r))
           entity == end_entity_error(r)
           order == validate_certificate_path_order(r)
<1>14. te1 \in Errors /\ te2 \in Errors /\ te10 \in Errors
  BY DEF ErrorIf, Errors
<1>15. entity \in Errors /\ order \in Errors
  BY DEF end_entity_error, validate_certificate_path_order, ErrorIf, Errors
<1>16. request_tests(r) =
         <<te1, te2, ftd, ftc, entity, order, path, ftp, fte, te10>>
  BY DEF request_tests
<1>17. \A k \in 1 .. 10 : request_tests(r)[k] \in Errors
  <2> HIDE DEF te1, te2, te10, ftd, ftc, ftp, fte, path, entity, order
  <2>1. /\ ftd \in Errors /\ ftc \in Errors /\ ftp \in Errors
        /\ fte \in Errors /\ path \in Errors
    BY <1>8, <1>9, <1>10, <1>11, <1>12 DEF ftd, ftc, ftp, fte, path
  <2> QED
    BY <1>14, <1>15, <1>16, <2>1
<1> QED
  BY <1>1, <1>13, <1>17, FirstErrorType DEF validate_request

\* The unreachable!() arms of evaluate are unreachable: once the stack is not
\* Unsupported, every policy yields one of the verdicts.
LEMMA VerdictType ==
  ASSUME NEW r, r.stack.verdict \in StackVerdict \ {"Unsupported"}
  PROVE  policy_verdict(r.policy, Aggregates(r)) \in PolicyVerdict
<1> DEFINE a == Aggregates(r)
<1>1. \A S : Worst(S) \in AggregateState
  BY DEF Worst, AggregateState
<1>2. stack_state(r) \in AggregateState
  <2>1. required_check_state(r.stack.validation_time, FALSE) \in AggregateState
    BY DEF required_check_state, AggregateState
  <2> QED
    BY <2>1 DEF stack_state, StackVerdict, AggregateState
<1>3. /\ a["classical"] \in AggregateState /\ a["pq"] \in AggregateState
      /\ a["design"] \in AggregateState /\ a["stack"] \in AggregateState
      /\ a["profile"] \in {"Pass", "Indeterminate"}
      /\ a["path"] \in {"Pass", "Indeterminate"}
  BY <1>1, <1>2 DEF Aggregates, evidence_state, hybrid_authentication_design_state,
     authentication_profile_state, validated_path_state
<1> HIDE DEF a
<1>4. AllPass(a) <=> /\ a["classical"] = "Pass" /\ a["pq"] = "Pass" /\ a["design"] = "Pass"
                     /\ a["stack"] = "Pass" /\ a["profile"] = "Pass" /\ a["path"] = "Pass"
  BY DEF AllPass
<1>5. p2_verdict(a) \in PolicyVerdict
  BY <1>3, <1>4 DEF p2_verdict, AggregateState, PolicyVerdict
<1>6. p0_verdict(a) \in PolicyVerdict /\ p1_verdict(a) \in PolicyVerdict
  BY DEF p0_verdict, p1_verdict, PolicyVerdict
<1>7. policy_verdict(r.policy, a) \in PolicyVerdict
  BY <1>5, <1>6 DEF policy_verdict, PolicyVerdict
<1> QED
  BY <1>7 DEF a

\* evaluate returns a named error or a verdict.
LEMMA EvaluateType ==
  ASSUME NEW r, DOMAIN r.evidence \subseteq Nat, DOMAIN r.certificate_path \subseteq Nat,
         DOMAIN r.paired_authentications \subseteq Nat, r.stack.verdict \in StackVerdict
  PROVE  /\ evaluate(r).status \in {"error", "result"}
         /\ evaluate(r).status = "result" <=> evaluate(r).policy_verdict \in PolicyVerdict
         /\ evaluate(r).error \in Errors
         /\ evaluate(r).status = "error" <=> evaluate(r).error # "ok"
         /\ evaluate(r).classical_only_fallback \in BOOLEAN
         /\ evaluate(r).lifecycle_desynchronization \in BOOLEAN
<1>1. CASE validate_request(r) # "ok"
  BY <1>1, ValidateType DEF evaluate, Response, PolicyVerdict
<1>2. CASE validate_request(r) = "ok" /\ unsupported(r)
  BY <1>2 DEF evaluate, Response, PolicyVerdict, Errors
<1>3. CASE validate_request(r) = "ok" /\ ~unsupported(r)
  <2> DEFINE a == Aggregates(r)
             v == policy_verdict(r.policy, a)
             f == classical_only_fallback(r, a, v)
  <2>1. evaluate(r) = Response("result", "ok", v, f, lifecycle_desynchronization(r, f),
                               failed_checks(r))
    BY <1>3 DEF evaluate, decide
  <2>2. v \in PolicyVerdict
    BY <1>3, VerdictType DEF unsupported
  <2>3. f \in BOOLEAN /\ lifecycle_desynchronization(r, f) \in BOOLEAN
    BY DEF classical_only_fallback, lifecycle_desynchronization
  <2> HIDE DEF a, v, f
  <2> QED
    BY <2>1, <2>2, <2>3 DEF Response, Errors
<1> QED
  BY <1>1, <1>2, <1>3
=============================================================================

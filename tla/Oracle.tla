------------------------------- MODULE Oracle -------------------------------
(***************************************************************************)
(* Sessions of the policy oracle of src/src/oracle.rs.  A session evaluates*)
(* a request, lets the caller revise it (another scope, another policy, one*)
(* check measured again, a digest that no longer matches) and evaluates    *)
(* again; the analyses and the evaluate command do exactly that.           *)
(***************************************************************************)
EXTENDS Evaluation

CONSTANTS
  InitialRequests,  \* the requests a session may start with
  Revisions(_),     \* the requests a caller may turn a request into
  MaxRevisions      \* bound: revisions in one session

ASSUME RequestsAreTyped ==
  /\ InitialRequests \subseteq VerificationRequest
  /\ MaxRevisions \in Nat

VARIABLES
  request,    \* the request under evaluation
  response,   \* what evaluate returned for it, or status "pending"
  last,       \* the request evaluated before this one, with its response
  revisions   \* revisions made so far

vars == <<request, response, last, revisions>>

-----------------------------------------------------------------------------
(* The session *)

Init ==
  /\ request \in InitialRequests
  /\ response = Pending
  /\ last = [request |-> request, response |-> Pending]
  /\ revisions = 0

Evaluate ==
  /\ response.status = "pending"
  /\ response' = evaluate(request)
  /\ UNCHANGED <<request, last, revisions>>

\* The caller prepares the next request from the one just answered.  Only a
\* document with the fields and enumerations of the model deserializes.
Revise ==
  /\ response.status # "pending"
  /\ revisions < MaxRevisions
  /\ request' \in Revisions(request)
  /\ request' \in VerificationRequest
  /\ response' = Pending
  /\ last' = [request |-> request, response |-> response]
  /\ revisions' = revisions + 1

Next == Evaluate \/ Revise

Spec == Init /\ [][Next]_vars

-----------------------------------------------------------------------------
(* Properties *)

ResponseType ==
  /\ response.status \in {"pending", "error", "result"}
  /\ response.status = "result" <=> response.policy_verdict \in PolicyVerdict
  /\ response.error \in Errors
  /\ response.status = "error" <=> response.error # "ok"
  /\ response.classical_only_fallback \in BOOLEAN
  /\ response.lifecycle_desynchronization \in BOOLEAN

\* Every request is typed and every answer is either a named error or one of
\* the five verdicts: no unreachable!() arm of evaluate is ever taken.
TypeOK ==
  /\ request \in VerificationRequest
  /\ last.request \in VerificationRequest
  /\ revisions \in 0 .. MaxRevisions
  /\ ResponseType

Trusted(check) == check.confidence \in {"Observed", "BehaviorallyEstablished"}
Clean(check) == Trusted(check) /\ check.state = "Pass"
KnownFailure(check) == Trusted(check) /\ check.state = "Fail"

Satisfied(v) == response.status = "result" /\ response.policy_verdict = v

\* What makes one item of evidence conclusive for a certificate: it is about
\* this certificate, over the digests the stack validated, and every check is
\* a trusted pass.  The two not-applicable exceptions are the code's.
Conclusive(r, c, item) ==
  /\ item.certificate_id = c.id
  /\ item.position = c.position
  /\ item.certificate_der_sha256 = c.der_sha256
  /\ item.issuer_edge_sha256 = c.issuer_edge_sha256
  /\ item.evidence_artifact_der_sha256 \in expected_artifacts(r, c, item)
  /\ \A name \in CheckName :
       \/ Clean(item.checks[name])
       \/ /\ Trusted(item.checks[name])
          /\ item.checks[name].state = "NotApplicable"
          /\ name = "binding" \/ (name = "revocation" /\ r.revocation_policy.mode = "NotRequired")
  /\ item.checks["revocation"].state = "Pass" => item.revocation_method # "None"

\* What a hybrid verdict must rest on.
HybridEarned(r) ==
  /\ r.policy \in {"P1OptionalHybrid", "P2RequiredHybrid"}
  /\ r.stack.verdict = "Accept"
  /\ Clean(r.stack.validation_time)
  /\ r.stack.applied_validation_time = r.validation_time
  /\ r.stack.validation_profile # "EvidenceSignature"
  /\ r.stack.selected_path_source = "AdapterSelected"
  /\ r.stack.trust_anchor = r.expected_trust_anchor
  /\ \A i \in DOMAIN r.certificate_path :
       /\ r.certificate_path[i].der_sha256 = r.stack.certification_path_der_sha256[i]
       /\ r.certificate_path[i].issuer_edge_sha256 \in Sha256
  /\ \A c \in ScopedCertificates(r) :
       /\ \E item \in EvidenceItems(r) :
            item.kind = "PostQuantum" /\ Conclusive(r, c, item)
       /\ requires_classical_certificate_signature_evidence(c) =>
            \E item \in EvidenceItems(r) :
              item.kind = "Classical" /\ Conclusive(r, c, item)
       /\ ~has_hybrid_certificate_signature_design(c) =>
            \E pair \in Pairs(r) :
              /\ pair.classical_certificate_id = c.id
              /\ Clean(pair.same_authentication_operation)

\* A hybrid verdict is only given for a path the stack itself selected and
\* accepted at the requested time, all of whose in-scope certificates are
\* hybrid by design or by a trusted same-operation pair, each with conclusive
\* post-quantum evidence bound to the digests of that path, and with
\* conclusive classical evidence wherever the certificate calls for it
\* (evaluate, arms P1 and P2; docs/verification-status.md lines 14-17).
HybridSound == Satisfied("HybridClaimSetSatisfied") => HybridEarned(request)

\* Evidence a policy depends on that is known to have failed: the stack
\* rejected, an in-scope certificate lacks an item it calls for, or an item it
\* calls for has a trusted failed check.
FailedEvidence(r, required, kind) ==
  \E c \in required :
    \/ ~ \E item \in EvidenceItems(r) : item.certificate_id = c.id /\ item.kind = kind
    \/ \E item \in EvidenceItems(r) :
         /\ item.certificate_id = c.id
         /\ item.kind = kind
         /\ \E name \in CheckName : KnownFailure(item.checks[name])

\* A known failure decides: whatever else is indeterminate, P2 rejects when
\* required evidence of either kind failed, and P0 and P1 reject when the
\* classical evidence failed (evidence_state returns at the first Fail).
KnownFailureRejects ==
  response.status = "result" /\ response.policy_verdict # "Unsupported" =>
    /\ /\ request.policy = "P2RequiredHybrid"
       /\ \/ request.stack.verdict = "Reject"
          \/ FailedEvidence(request, classical_required(request), "Classical")
          \/ FailedEvidence(request, pq_required(request), "PostQuantum")
       => response.policy_verdict = "Reject"
    /\ /\ request.policy \in {"P0Classical", "P1OptionalHybrid"}
       /\ \/ request.stack.verdict = "Reject"
          \/ FailedEvidence(request, classical_required(request), "Classical")
       => response.policy_verdict = "Reject"

\* The flags mean what their names say.  With classical-only fallback the same
\* request satisfies the classical policy P0 and was not granted a hybrid
\* verdict; and under P2, on a path the adapter selected, every such request
\* carries the flag.  A reported lifecycle desynchronization is backed by a
\* failed validity or revocation check in the same result, and never accompanies
\* a hybrid verdict.
FlagsAreBacked ==
  LET Accepts(policy) ==
        evaluate([request EXCEPT !.policy = policy]).policy_verdict
          = "ClassicalClaimSetSatisfied"
  IN  response.status = "result" =>
        /\ response.classical_only_fallback =>
             /\ Accepts("P0Classical")
             /\ response.policy_verdict # "HybridClaimSetSatisfied"
        /\ /\ request.policy = "P2RequiredHybrid"
           /\ validated_path_state(request) = "Pass"
           /\ Accepts("P0Classical")
           /\ response.policy_verdict # "HybridClaimSetSatisfied"
           => response.classical_only_fallback
        /\ response.lifecycle_desynchronization =>
             /\ response.policy_verdict # "HybridClaimSetSatisfied"
             /\ \E failed \in response.failed_checks :
                  failed.check \in {"validity", "revocation"} /\ failed.state = "Fail"

\* A Reject names a reason among the failed checks of its result: a trusted
\* failed check, missing evidence or an operation that was not the same.  The
\* exceptions are what failed_checks leaves out: the stack's own verdict and
\* time check, a path with no classical evidence to ask for, a certificate that
\* is not hybrid by design, and a check declared not applicable.
RejectionIsExplained ==
  Satisfied("Reject") =>
    \/ \E failed \in response.failed_checks :
         KnownFailure(failed) \/ failed.check = "same-authentication-operation"
    \/ stack_state(request) = "Fail"
    \/ request.policy # "P2RequiredHybrid" /\ classical_required(request) = {}
    \/ /\ request.policy = "P2RequiredHybrid"
       /\ \E c \in ScopedCertificates(request) : /\ ~has_hybrid_certificate_signature_design(c)
                                                 /\ c.binding_design # "RelatedCertificate"
    \/ \E item \in InScope(request, EvidenceItems(request)) : \E name \in CheckName \ {"binding"} :
         item.checks[name].state = "NotApplicable"

\* A request that passes validation binds every evidence item to the path the
\* stack reports: the item has the position of its certificate's place in that
\* path; the digest it names, when it names one, is the digest at that place,
\* and its issuer edge is the certificate's when both name one; an item of a
\* related certificate names the one pair of that certificate, and the
\* post-quantum artifact is that pair's.
ValidatedIsBound ==
  response.status = "result" =>
    \A i \in DOMAIN request.evidence :
      LET item == request.evidence[i] IN
      \E k \in DOMAIN request.certificate_path :
        LET c == request.certificate_path[k] IN
        /\ c.id = item.certificate_id
        /\ item.position = c.position
        /\ c.position = IF k = 1 THEN "EndEntity" ELSE "Intermediate"
        /\ item.certificate_der_sha256 \in
             {None, request.stack.certification_path_der_sha256[k]}
        /\ \/ c.issuer_edge_sha256 = None
           \/ item.issuer_edge_sha256 \in {None, c.issuer_edge_sha256}
        /\ IF c.binding_design = "RelatedCertificate"
             THEN \E pair \in Pairs(request) :
                    /\ pair.classical_certificate_id = c.id
                    /\ \A other \in EvidenceItems(request) :
                         other.certificate_id = c.id =>
                           other.authentication_operation_id = pair.operation_id
                    /\ item.kind = "PostQuantum" =>
                         item.evidence_artifact_der_sha256 \in
                           {None, pair.post_quantum_certificate_der_sha256}
             ELSE item.evidence_artifact_der_sha256 \in
                    {None, request.stack.certification_path_der_sha256[k]}

Grant(answer) ==
  CASE answer.policy_verdict = "HybridClaimSetSatisfied" -> 2
    [] answer.policy_verdict = "ClassicalClaimSetSatisfied" -> 1
    [] OTHER -> 0

\* r2 is r1 with some checks measured worse: no longer a trusted pass and not
\* declared inapplicable.
Degraded(r1, r2) ==
  /\ [r2 EXCEPT !.evidence = r1.evidence] = r1
  /\ Len(r1.evidence) = Len(r2.evidence)
  /\ \A i \in DOMAIN r1.evidence :
       /\ [r2.evidence[i] EXCEPT !.checks = r1.evidence[i].checks] = r1.evidence[i]
       /\ \A name \in CheckName :
            \/ r2.evidence[i].checks[name] = r1.evidence[i].checks[name]
            \/ ~Trusted(r2.evidence[i].checks[name])
            \/ r2.evidence[i].checks[name].state \in {"Fail", "Indeterminate", "NotChecked"}

\* Worse evidence never earns more: degrading checks of an answered request
\* cannot raise the claim set it is granted.
DegradationNeverUpgrades ==
  /\ response.status = "result"
  /\ last.response.status = "result"
  /\ Degraded(last.request, request)
  => Grant(response) <= Grant(last.response)

\* Narrowing the scope of a P2 request from the certification path to the end
\* entity keeps a hybrid verdict: the wider claim contains the narrower one.
NarrowingKeepsHybrid ==
  /\ last.response.policy_verdict = "HybridClaimSetSatisfied"
  /\ last.request.policy = "P2RequiredHybrid"
  /\ last.request.path_scope = "CertificationPath"
  /\ request = [last.request EXCEPT !.path_scope = "EndEntity"]
  /\ response.status # "pending"
  => response.policy_verdict = "HybridClaimSetSatisfied"

\* The policies are ordered: what satisfies P0 satisfies P1 at least as
\* strongly, and what P1 calls hybrid P2 calls hybrid.
PoliciesAreOrdered ==
  /\ response.status # "pending"
  /\ request = [last.request EXCEPT !.policy = request.policy]
  => /\ /\ last.request.policy = "P0Classical"
        /\ request.policy = "P1OptionalHybrid"
        => Grant(response) >= Grant(last.response)
     /\ /\ last.request.policy = "P1OptionalHybrid"
        /\ request.policy = "P2RequiredHybrid"
        => (Grant(last.response) = 2 => Grant(response) = 2)
=============================================================================

--------------------------- MODULE AnalysisParts ---------------------------
(***************************************************************************)
(* What the analyses of src/src/analysis are made of.  An analysis is a    *)
(* straight line of steps, each of which reads files and yields one value: *)
(* an adapter's verdict, a digest, the result of a check.  A Step records  *)
(* its name, the operation, the files it is given (by argument), the value *)
(* it has in the documented run of the repository's own controls, and the  *)
(* other values the operation can yield.  A request is then built from     *)
(* results, a function g from step names to values.                        *)
(*                                                                         *)
(* A file is named <<role, place>>.  Its digest is its name with the       *)
(* version of its contents, an edge digest is the digest of certificate    *)
(* and issuer together, so two digests are equal when all they cover is.   *)
(***************************************************************************)
EXTENDS Evaluation, TLC

-----------------------------------------------------------------------------
(* Steps *)

Step(id, what, op, inputs, nominal, others) ==
  [name |-> <<id, what>>, op |-> op, inputs |-> inputs,
   nominal |-> nominal, others |-> others]

Reads(step) == Range(step.inputs)

\* inspect_certificate and the test for the scheme the analysis wants: any
\* other scheme ends the analysis.
Inspect(file) ==
  [Step("inspect", "scheme", "inspect", [certificate |-> file], "expected", {"other"})
     EXCEPT !.name = <<"inspect">> \o file]

\* A call of an adapter's verify, in one of its modes.
Run(id, what, mode, inputs, nominal) ==
  Step(id, what, mode, inputs, nominal, StackVerdict \ {nominal})

\* Version v of these files, hashed together.
DigestOf(files, v) ==
  IF Len(files) = 1 THEN files[1] \o <<v[files[1]]>>
  ELSE files[1] \o <<v[files[1]]>> \o files[2] \o <<v[files[2]]>>

Unchanged(files) == [f \in Range(files) |-> "v1"]

\* certificate_der_hash, certificate_trust_anchor
Digest(id, what, file) ==
  Step(id, what, "digest", [certificate |-> file],
       DigestOf(<<file>>, Unchanged(<<file>>)), {})

\* issuer_edge_hash
Edge(id, what, certificate, issuer) ==
  Step(id, what, "edge", [certificate |-> certificate, issuer |-> issuer],
       DigestOf(<<certificate, issuer>>, Unchanged(<<certificate, issuer>>)), {})

\* selected_path_hashes: the digests of the path a run was given, made by the
\* adapter before its program runs or, for Bouncy Castle, after.
Select(leaf, intermediate, root) ==
  Step("path", "selected", "select", [leaf |-> leaf, intermediate |-> intermediate, root |-> root],
       <<DigestOf(<<leaf>>, Unchanged(<<leaf>>)),
         DigestOf(<<intermediate>>, Unchanged(<<intermediate>>)),
         DigestOf(<<root>>, Unchanged(<<root>>))>>, {})

\* check_certificate_validity
Validity(id, what, file) ==
  Step(id, what, "validity", [certificate |-> file], "Pass", {"Fail"})

\* check_crl_status: what it says of the issuer and of revocation.  A CRL of
\* another issuer, unverified or stale, says nothing of the certificate.
CrlStatus(id, what, certificate, issuer, crl, nominal) ==
  Step(id, what, "crl_status", [certificate |-> certificate, issuer |-> issuer, crl |-> crl],
       nominal, {<<"Pass", "Pass">>, <<"Pass", "Fail">>, <<"Pass", "Indeterminate">>,
                 <<"Fail", "Indeterminate">>} \ {nominal})

ConformanceCheck ==
  {"binding", "extension_in_end_entity", "related_certificate_is_end_entity",
   "key_usage_subset", "extended_key_usage_subset",
   "reference_subject_public_key_is_classical",
   "related_subject_public_key_is_post_quantum", "dns_identity_overlap"}

\* verify_related_certificate_conformance: the checks that fail.
Conformance(id, what, reference, related, nominal) ==
  Step(id, what, "conformance", [reference |-> reference, related |-> related], nominal,
       ({{c} : c \in {"binding", "dns_identity_overlap"}} \cup {{}}) \ {nominal})

\* verify_related_binding
Binding(id, what, reference, related, nominal) ==
  Step(id, what, "binding", [reference |-> reference, related |-> related],
       nominal, {"Pass", "Fail"} \ {nominal})

\* read_der, corrupt_outer_signature, encode_certificate_pem and a temporary
\* file of the analysis's own, which nobody else replaces.
Corrupt(id, file) ==
  Step(id, "corrupt", "corrupt", [certificate |-> file], "written", {})

Corrupted(file) == <<"corrupted", file[2]>>

-----------------------------------------------------------------------------
(* Checks *)

pass == observed("Pass")
not_applicable == observed("NotApplicable")
not_checked == observed("NotChecked")

behavioral_check(established, state) ==
  IF established
    THEN [state |-> state, confidence |-> "BehaviorallyEstablished"]
    ELSE [state |-> "Indeterminate", confidence |-> "Unknown"]

\* Mutant: whatever is not rejected passes.
UnlessRejected(verdict) == observed(IF verdict = "Reject" THEN "Fail" ELSE "Pass")

\* Mutant: whatever is not accepted fails.
UnlessAccepted(verdict) == observed(IF verdict = "Accept" THEN "Pass" ELSE "Fail")

check_from_verdict(verdict) ==
  observed(CASE verdict = "Accept" -> "Pass"
             [] verdict = "Reject" -> "Fail"
             [] OTHER -> "Indeterminate")

\* Mutant: the direct controls are not looked at.
UnestablishedOutcome(valid, invalid, established) ==
  IF valid # "Accept" THEN behavioral_check(FALSE, "Indeterminate")
  ELSE CASE invalid = "Reject" -> behavioral_check(TRUE, "Pass")
         [] invalid = "Accept" -> behavioral_check(TRUE, "Fail")
         [] OTHER -> behavioral_check(FALSE, "Indeterminate")

\* Whether one signature decides: the stack accepts the valid path, direct
\* controls establish that only that signature is broken, and the verdict on
\* the path with the broken one tells.
outcome_check(valid, invalid, established) ==
  IF valid # "Accept" \/ ~established THEN behavioral_check(FALSE, "Indeterminate")
  ELSE CASE invalid = "Reject" -> behavioral_check(TRUE, "Pass")
         [] invalid = "Accept" -> behavioral_check(TRUE, "Fail")
         [] OTHER -> behavioral_check(FALSE, "Indeterminate")

\* Every check of the result is Pass or Fail.
related_conformance_check(failing) ==
  observed(IF failing = {} THEN "Pass" ELSE "Fail")

-----------------------------------------------------------------------------
(* Requests *)

the_time == CHOOSE t \in Times : TRUE
crl_hard_fail == [mode |-> "HardFail", bounds |-> "unset"]

Checks(signature, binding, path, validity, revocation, sensitive) ==
  [present |-> pass, recognized |-> pass, signature |-> signature, binding |-> binding,
   path |-> path, validity |-> validity, revocation |-> revocation,
   decision_sensitive |-> sensitive]

Node(id, position, key, signature, design, der, edge) ==
  [id |-> <<id>>, position |-> position, subject_public_key_scheme |-> key,
   certificate_signature_scheme |-> signature, binding_design |-> design,
   der_sha256 |-> der, issuer_edge_sha256 |-> edge]

\* Evidence about the node's certificate, measured on an artifact.
Item(node, kind, artifact, operation, checks, method) ==
  [id |-> node.id \o <<kind>>, certificate_id |-> node.id, position |-> node.position,
   certificate_der_sha256 |-> node.der_sha256,
   evidence_artifact_der_sha256 |-> artifact,
   issuer_edge_sha256 |-> node.issuer_edge_sha256,
   authentication_operation_id |-> operation, kind |-> kind, checks |-> checks,
   revocation_method |-> method, applied_revocation_policy |-> crl_hard_fail]

\* A related pair was never used in one authentication operation.
UnpairedUse(node, operation, related) ==
  [operation_id |-> operation, classical_certificate_id |-> node.id,
   post_quantum_certificate_der_sha256 |-> related,
   same_authentication_operation |-> observed("Fail")]

Anchor(der) == [kind |-> "CertificateDerSha256", der_sha256 |-> der]

\* Mutant: the path an adapter was given counts as the one it selected.
PresentedIsSelected(verdict, profile, selected) ==
  [verdict |-> verdict, validation_profile |-> profile,
   certification_path_der_sha256 |-> <<selected[1], selected[2]>>,
   selected_path_source |-> "AdapterSelected", trust_anchor |-> Anchor(selected[3]),
   applied_validation_time |-> the_time, validation_time |-> pass]

\* The observation of an adapter that was given the whole path.
Presented(verdict, profile, selected) ==
  [verdict |-> verdict, validation_profile |-> profile,
   certification_path_der_sha256 |-> <<selected[1], selected[2]>>,
   selected_path_source |-> "PresentedInput", trust_anchor |-> Anchor(selected[3]),
   applied_validation_time |-> the_time, validation_time |-> pass]

\* All but the policy and the scope of a request.
Submission(stack, anchor, path, pairs, evidence) ==
  [stack |-> stack, expected_trust_anchor |-> Anchor(anchor), certificate_path |-> path,
   paired_authentications |-> pairs, evidence |-> evidence]

Request(policy, scope, s) ==
  [api_version |-> "v9", policy |-> policy, path_scope |-> scope,
   validation_time |-> the_time, revocation_policy |-> crl_hard_fail,
   stack |-> s.stack, expected_trust_anchor |-> s.expected_trust_anchor,
   certificate_path |-> s.certificate_path,
   paired_authentications |-> s.paired_authentications, evidence |-> s.evidence]
=============================================================================

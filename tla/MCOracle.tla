------------------------------ MODULE MCOracle ------------------------------
(***************************************************************************)
(* Oracle on concrete sessions: requests about a path of an end entity and *)
(* an intermediate in several designs, revised one part at a time.         *)
(***************************************************************************)
EXTENDS Oracle, SequencesExt

Good == observed("Pass")

\* The results a check is revised to: every state, and the two confidences
\* that do not count.
RevisedResults ==
  {observed(s) : s \in CheckState \ {"Pass"}}
    \cup {[state |-> "Pass", confidence |-> "BehaviorallyEstablished"],
          [state |-> "Pass", confidence |-> "Inferred"],
          [state |-> "Fail", confidence |-> "Unknown"]}

HardFail == [mode |-> "HardFail", bounds |-> "unset"]
NotRequired == [mode |-> "NotRequired", bounds |-> "unset"]
Anchor == [kind |-> "CertificateDerSha256", der_sha256 |-> "hA"]

Node(id, position, scheme, design, der, edge) ==
  [id |-> id, position |-> position, subject_public_key_scheme |-> scheme,
   certificate_signature_scheme |-> scheme, binding_design |-> design,
   der_sha256 |-> der, issuer_edge_sha256 |-> edge]

Item(id, c, kind, artifact, operation, policy) ==
  [id |-> id, certificate_id |-> c.id, position |-> c.position,
   certificate_der_sha256 |-> c.der_sha256,
   evidence_artifact_der_sha256 |-> artifact,
   issuer_edge_sha256 |-> c.issuer_edge_sha256,
   authentication_operation_id |-> operation, kind |-> kind,
   checks |-> [name \in CheckName |->
                 IF name = "revocation" /\ policy = NotRequired
                   THEN observed("NotApplicable") ELSE Good],
   revocation_method |-> IF policy = NotRequired THEN "None" ELSE "Crl",
   applied_revocation_policy |-> policy]

Request(policy, scope, revocation, path, pairs, evidence) ==
  [api_version |-> "v9", policy |-> policy, path_scope |-> scope,
   validation_time |-> "t1", revocation_policy |-> revocation,
   stack |-> [verdict |-> "Accept", validation_profile |-> "X509Path",
              certification_path_der_sha256 |-> [i \in DOMAIN path |-> path[i].der_sha256],
              selected_path_source |-> "AdapterSelected", trust_anchor |-> Anchor,
              applied_validation_time |-> "t1", validation_time |-> Good],
   expected_trust_anchor |-> Anchor, certificate_path |-> path,
   paired_authentications |-> pairs, evidence |-> evidence]

Leaf(scheme, design) == Node("ee", "EndEntity", scheme, design, "h1", "g1")
Issuer(scheme, design) == Node("ca", "Intermediate", scheme, design, "h2", "g2")

Pair == [operation_id |-> "op", classical_certificate_id |-> "ee",
         post_quantum_certificate_der_sha256 |-> "h3",
         same_authentication_operation |-> Good]

\* Composite leaf under a Catalyst issuer.
Composite(policy, scope, revocation) ==
  LET leaf == Leaf("Hybrid", "AtomicComposite")
      ca   == Issuer("Classical", "Catalyst")
  IN  Request(policy, scope, revocation, <<leaf, ca>>, <<>>,
        << Item("e1", leaf, "Classical", "h1", None, revocation),
           Item("e2", leaf, "PostQuantum", "h1", None, revocation),
           Item("e3", ca, "Classical", "h2", None, revocation),
           Item("e4", ca, "PostQuantum", "h2", None, revocation) >>)

\* Related-certificate leaf, used with its pair, under a Chameleon issuer.
Related(policy, scope, revocation) ==
  LET leaf == Leaf("Classical", "RelatedCertificate")
      ca   == Issuer("Classical", "Chameleon")
  IN  Request(policy, scope, revocation, <<leaf, ca>>, <<Pair>>,
        << Item("e1", leaf, "Classical", "h1", "op", revocation),
           Item("e2", leaf, "PostQuantum", "h3", "op", revocation),
           Item("e3", ca, "Classical", "h2", None, revocation),
           Item("e4", ca, "PostQuantum", "h2", None, revocation) >>)

\* Related-certificate leaf with a classical key, signed by a post-quantum
\* issuer that is the trust anchor: only post-quantum evidence is called for.
RelatedUnderPostQuantum(policy) ==
  LET leaf == [Leaf("PostQuantum", "RelatedCertificate")
                 EXCEPT !.subject_public_key_scheme = "Classical"]
  IN  Request(policy, "EndEntity", HardFail, <<leaf>>, <<Pair>>,
        << Item("e2", leaf, "PostQuantum", "h3", "op", HardFail) >>)

MCInitialRequests ==
  {Composite("P2RequiredHybrid", "CertificationPath", HardFail),
   Composite("P1OptionalHybrid", "EndEntity", NotRequired),
   Related("P2RequiredHybrid", "CertificationPath", HardFail),
   Related("P0Classical", "CertificationPath", HardFail),
   RelatedUnderPostQuantum("P2RequiredHybrid")}

-----------------------------------------------------------------------------
(* Revisions that change what the policies weigh. *)

RevisedChecks(r) ==
  {[r EXCEPT !.evidence[i].checks[name] = result] :
     i \in DOMAIN r.evidence, result \in RevisedResults,
     name \in {"signature", "binding", "validity", "revocation"}}

RevisedPolicies(r) ==
  {[r EXCEPT !.policy = p] : p \in Policy}
    \cup {[r EXCEPT !.path_scope = s] : s \in PathScope}

RevisedCertificates(r) ==
  {[r EXCEPT !.certificate_path[i].certificate_signature_scheme = s] :
     i \in DOMAIN r.certificate_path, s \in AlgorithmSecurity}
  \cup {[r EXCEPT !.certificate_path[i].binding_design = d] :
          i \in DOMAIN r.certificate_path, d \in BindingDesign}

RevisedStack(r) ==
  {[r EXCEPT !.stack.verdict = v] : v \in StackVerdict}
  \cup {[r EXCEPT !.stack.validation_profile = p] : p \in ValidationProfile}
  \cup {[r EXCEPT !.stack.selected_path_source = s] : s \in PathObservationSource}
  \cup {[r EXCEPT !.stack.validation_time = c] : c \in RevisedResults}
  \cup {[r EXCEPT !.stack.applied_validation_time = t] : t \in Times \cup {EmptyString}}

OmittedEvidence(r) ==
  {[r EXCEPT !.evidence = RemoveAt(r.evidence, i)] : i \in DOMAIN r.evidence}

RevisedPairs(r) ==
  {[r EXCEPT !.paired_authentications[i].same_authentication_operation = c] :
     i \in DOMAIN r.paired_authentications, c \in RevisedResults}

-----------------------------------------------------------------------------
(* Revisions that change digests, identifiers and structure. *)

Digests == {"h1", "h2", "h3", "bad", None}

RevisedDigests(r) ==
  {[r EXCEPT !.certificate_path[i].der_sha256 = h] :
     i \in DOMAIN r.certificate_path, h \in Digests}
  \cup {[r EXCEPT !.certificate_path[i].issuer_edge_sha256 = h] :
          i \in DOMAIN r.certificate_path, h \in {"g1", "bad", None}}
  \cup {[r EXCEPT !.evidence[i].certificate_der_sha256 = h] :
          i \in DOMAIN r.evidence, h \in Digests}
  \cup {[r EXCEPT !.evidence[i].issuer_edge_sha256 = h] :
          i \in DOMAIN r.evidence, h \in {"g1", "bad", None}}
  \cup {[r EXCEPT !.evidence[i].evidence_artifact_der_sha256 = h] :
          i \in DOMAIN r.evidence, h \in Digests}
  \cup {[r EXCEPT !.stack.certification_path_der_sha256 = p] :
          p \in {<<"h1">>, <<"h2", "h1">>, <<"h1", "h3">>, <<"h1", "bad">>,
                 <<"h3", "h2">>}}

RevisedIdentity(r) ==
  {[r EXCEPT !.evidence[i].certificate_id = id] :
     i \in DOMAIN r.evidence, id \in {"ee", "ca", "zz"}}
  \cup {[r EXCEPT !.evidence[i].id = "e1"] : i \in DOMAIN r.evidence}
  \cup {[r EXCEPT !.evidence[i].position = p] :
          i \in DOMAIN r.evidence, p \in PathPosition}
  \cup {[r EXCEPT !.evidence[i].authentication_operation_id = o] :
          i \in DOMAIN r.evidence, o \in {"op", "zz", EmptyString, None}}
  \cup {[r EXCEPT !.certificate_path[i].id = id] :
          i \in DOMAIN r.certificate_path, id \in {"ee", "ca"}}
  \cup {[r EXCEPT !.certificate_path[i].position = p] :
          i \in DOMAIN r.certificate_path, p \in PathPosition}
  \cup {[r EXCEPT !.certificate_path = Reverse(@)],
        [r EXCEPT !.certificate_path = <<>>]}

RevisedBindings(r) ==
  {[r EXCEPT !.paired_authentications = ps] :
     ps \in {<<>>, <<Pair, Pair>>,
             <<Pair, [Pair EXCEPT !.operation_id = "zz"]>>,
             <<[Pair EXCEPT !.operation_id = EmptyString]>>,
             <<[Pair EXCEPT !.classical_certificate_id = "ca"]>>,
             <<[Pair EXCEPT !.post_quantum_certificate_der_sha256 = "bad"]>>}}
  \cup {[r EXCEPT !.expected_trust_anchor = a, !.stack.trust_anchor = b] :
          a \in {Anchor, [kind |-> "LocalIdentifier", identifier |-> EmptyString]},
          b \in {Anchor, [Anchor EXCEPT !.der_sha256 = "bad"],
                 [kind |-> "NameAndSpkiSha256", name |-> EmptyString, spki_sha256 |-> "hA"],
                 [kind |-> "NameAndSpkiSha256", name |-> "ca", spki_sha256 |-> "bad"],
                 [kind |-> "LocalIdentifier", identifier |-> EmptyString]}}
  \cup {[r EXCEPT !.api_version = "other"], [r EXCEPT !.validation_time = BadTime],
        [r EXCEPT !.stack.applied_validation_time = "t2"],
        [r EXCEPT !.revocation_policy = NotRequired]}
  \cup {[r EXCEPT !.evidence[i].revocation_method = "None"] : i \in DOMAIN r.evidence}
  \cup {[r EXCEPT !.evidence[i].applied_revocation_policy.bounds = "set"] :
          i \in DOMAIN r.evidence}
  \cup {[r EXCEPT !.evidence[i].checks["revocation"] = observed("NotApplicable")] :
          i \in DOMAIN r.evidence}

MCRevisions(r) ==
  (RevisedChecks(r) \cup RevisedPolicies(r) \cup RevisedCertificates(r)
     \cup RevisedStack(r) \cup OmittedEvidence(r) \cup RevisedPairs(r)
     \cup RevisedDigests(r) \cup RevisedIdentity(r) \cup RevisedBindings(r)) \ {r}
=============================================================================

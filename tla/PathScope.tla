----------------------------- MODULE PathScope -----------------------------
(***************************************************************************)
(* The five path-scope analyses: atomic composite, Catalyst, Chameleon,    *)
(* pure post-quantum and related certificates.  Each inspects its control  *)
(* certificates, runs the valid path, examines the leaf, the intermediate  *)
(* and the root in that order, reads the trust anchor's digest, and        *)
(* evaluates the evidence about leaf and intermediate.  X_steps is the     *)
(* order of operations, X_submission the evidence made of their results.   *)
(***************************************************************************)
EXTENDS AnalysisParts

position_id(position) ==
  CASE position = "EndEntity" -> "leaf"
    [] position = "Intermediate" -> "intermediate"
    [] OTHER -> "root"

issuer_id(position) == IF position = "EndEntity" THEN "intermediate" ELSE "root"

At(role, position) == <<role, position_id(position)>>
IssuerAt(role, position) == <<role, issuer_id(position)>>

Hierarchy(role) ==
  [leaf |-> <<role, "leaf">>, intermediate |-> <<role, "intermediate">>,
   root |-> <<role, "root">>]

\* The path with one certificate replaced by a control.
path_with_replacement(role, position, other) ==
  [Hierarchy(role) EXCEPT ![position_id(position)] = At(other, position)]

\* The issuer stands in for the intermediate; the trust store is the root, or
\* for Chameleon, pure and related chains the issuer itself.
direct(root, issuer, certificate) ==
  [root |-> root, intermediate |-> issuer, leaf |-> certificate]

crl_run(root, issuer, certificate, crl) ==
  [root |-> root, intermediate |-> issuer, leaf |-> certificate, crl |-> crl]

\* The order of the inspections differs between analyses; each of them ends
\* the analysis with the same error.
InspectChain(role) ==
  <<Inspect(<<role, "root">>), Inspect(<<role, "intermediate">>), Inspect(<<role, "leaf">>)>>

\* The run of the valid path, and the digests that come with it.
ValidPath(what, role) ==
  <<Run("path", what, "Path", Hierarchy(role), "Accept"),
    Select(<<role, "leaf">>, <<role, "intermediate">>, <<role, "root">>)>>

\* The digest of the certificate, and of its edge unless it is the anchor.
Identity(role, position) ==
  <<Digest(position, "digest", At(role, position))>>
    \o (IF position = "TrustAnchor" THEN <<>>
        ELSE <<Edge(position, "edge", At(role, position), IssuerAt(role, position))>>)

\* A broken self-signature of the anchor does not matter to a path.
IfNotAnchor(position, verdict) == IF position = "TrustAnchor" THEN "Accept" ELSE verdict

\* The nodes of leaf and intermediate; the anchor is no part of the path.
PathNodes(g, key, signature, design) ==
  LET NodeAt(p) == Node(position_id(p), p, key, signature, design,
                     g[<<p, "digest">>], g[<<p, "edge">>])
  IN  <<NodeAt("EndEntity"), NodeAt("Intermediate")>>

-----------------------------------------------------------------------------
(* atomic_path_scope.rs *)

atomic_controls ==
  InspectChain("atomic") \o InspectChain("invalid_classical")
    \o InspectChain("invalid_post_quantum")

atomic_position_steps(p) ==
  LET certificate == At("atomic", p)
      issuer      == IssuerAt("atomic", p)
      Direct(what, c, v) ==
        Run(p, what, "CertificateSignature", direct(<<"atomic", "root">>, issuer, c), v)
      Replaced(what, other) ==
        Run(p, what, "Path", path_with_replacement("atomic", p, other), IfNotAnchor(p, "Reject"))
  IN  <<Direct("valid_signature", certificate, "Accept"),
        Direct("invalid_classical_signature", At("invalid_classical", p), "Reject"),
        Direct("invalid_post_quantum_signature", At("invalid_post_quantum", p), "Reject"),
        Replaced("invalid_classical_path", "invalid_classical"),
        Replaced("invalid_post_quantum_path", "invalid_post_quantum")>>
      \o Identity("atomic", p)
      \o <<Validity(p, "validity", certificate),
           Run(p, "crl", "CrlStatus",
               crl_run(<<"atomic", "root">>, issuer, certificate, IssuerAt("crl", p)), "Accept")>>

atomic_steps ==
  atomic_controls \o ValidPath("valid_path", "atomic")
    \o atomic_position_steps("EndEntity") \o atomic_position_steps("Intermediate")
    \o atomic_position_steps("TrustAnchor")
    \o <<Digest("anchor", "digest", <<"atomic", "root">>)>>

atomic_outcome(g, p, invalid_signature, invalid_path) ==
  outcome_check(g[<<"path", "valid_path">>], g[<<p, invalid_path>>],
                /\ g[<<p, "valid_signature">>] = "Accept"
                /\ g[<<p, invalid_signature>>] = "Reject")

atomic_position_evidence(g, node) ==
  LET p == node.position
      Component(kind, outcome) ==
        Item(node, kind, node.der_sha256, None,
             Checks(check_from_verdict(g[<<p, "valid_signature">>]), not_applicable,
                    check_from_verdict(g[<<"path", "valid_path">>]),
                    observed(g[<<p, "validity">>]), check_from_verdict(g[<<p, "crl">>]),
                    outcome), "Crl")
  IN  <<Component("Classical",
          atomic_outcome(g, p, "invalid_classical_signature", "invalid_classical_path")),
        Component("PostQuantum",
          atomic_outcome(g, p, "invalid_post_quantum_signature", "invalid_post_quantum_path"))>>

atomic_nodes(g) == PathNodes(g, "Classical", "Hybrid", "AtomicComposite")

\* The evidence about both nodes, leaf first.
atomic_evidence(g) ==
  atomic_position_evidence(g, atomic_nodes(g)[1])
    \o atomic_position_evidence(g, atomic_nodes(g)[2])

atomic_submission(g) ==
  Submission(Presented(g[<<"path", "valid_path">>], "X509Path",
                       g[<<"path", "selected">>]),
             g[<<"anchor", "digest">>], atomic_nodes(g), <<>>, atomic_evidence(g))

-----------------------------------------------------------------------------
(* catalyst_path_scope.rs *)

catalyst_controls == InspectChain("catalyst") \o InspectChain("invalid_alternative")

\* The valid path is run again at every position.
catalyst_position_steps(p) ==
  LET certificate == At("catalyst", p)
      issuer      == IssuerAt("catalyst", p)
      Direct(what, c, v) ==
        Run(p, what, "AlternativeSignature", direct(<<"catalyst", "root">>, issuer, c), v)
  IN  <<Direct("valid_alternative", certificate, "Accept"),
        Direct("invalid_alternative", At("invalid_alternative", p), "Reject"),
        Run(p, "invalid_alternative_path", "Path",
            path_with_replacement("catalyst", p, "invalid_alternative"), "Accept"),
        Corrupt(p, certificate),
        Run(p, "invalid_classical_path", "Path",
            path_with_replacement("catalyst", p, "corrupted"), IfNotAnchor(p, "Reject")),
        Run(p, "valid_default", "Path", Hierarchy("catalyst"), "Accept")>>
      \o Identity("catalyst", p)
      \o <<CrlStatus(p, "crl_status", certificate, issuer, IssuerAt("crl", p), <<"Pass", "Pass">>),
           Validity(p, "validity", certificate)>>

catalyst_steps ==
  catalyst_controls \o ValidPath("valid_path", "catalyst")
    \o catalyst_position_steps("EndEntity") \o catalyst_position_steps("Intermediate")
    \o catalyst_position_steps("TrustAnchor")
    \o <<Digest("anchor", "digest", <<"catalyst", "root">>)>>

catalyst_position_evidence(g, node) ==
  LET p           == node.position
      alternative == check_from_verdict(g[<<p, "valid_alternative">>])
      revocation  == observed(g[<<p, "crl_status">>][2])
  IN  <<Item(node, "Classical", node.der_sha256, None,
          Checks(observed(g[<<p, "crl_status">>][1]), not_applicable,
                 check_from_verdict(g[<<"path", "valid_path">>]),
                 observed(g[<<p, "validity">>]), revocation,
                 outcome_check(g[<<p, "valid_default">>], g[<<p, "invalid_classical_path">>],
                               TRUE)), "Crl"),
        Item(node, "PostQuantum", node.der_sha256, None,
          Checks(alternative, alternative, alternative, observed(g[<<p, "validity">>]), revocation,
                 outcome_check(g[<<p, "valid_default">>], g[<<p, "invalid_alternative_path">>],
                               /\ g[<<p, "valid_alternative">>] = "Accept"
                               /\ g[<<p, "invalid_alternative">>] = "Reject")), "Crl")>>

catalyst_submission(g) ==
  LET nodes == PathNodes(g, "Classical", "Classical", "Catalyst")
  IN  Submission(Presented(g[<<"path", "valid_path">>], "X509Path",
                           g[<<"path", "selected">>]),
                 g[<<"anchor", "digest">>], nodes, <<>>,
                 catalyst_position_evidence(g, nodes[1]) \o catalyst_position_evidence(g, nodes[2]))

-----------------------------------------------------------------------------
(* chameleon_path_scope.rs *)

chameleon_controls ==
  InspectChain("base") \o InspectChain("invalid_delta_base") \o InspectChain("invalid_base")
    \o InspectChain("delta")

chameleon_position_steps(p) ==
  LET base   == At("base", p)
      issuer == IssuerAt("base", p)
      Signature(what, mode, c, v) == Run(p, what, mode, direct(issuer, issuer, c), v)
      Replaced(what, other, v) ==
        Run(p, what, "Path", path_with_replacement("base", p, other), v)
  IN  <<Signature("base_signature", "CertificateSignature", base, "Accept"),
        Signature("invalid_base_signature", "CertificateSignature", At("invalid_base", p), "Reject"),
        Signature("delta_signature", "DeltaSignature", base, "Accept"),
        Signature("invalid_delta_signature", "DeltaSignature", At("invalid_delta_base", p), "Reject"),
        Replaced("invalid_base_path", "invalid_base", IfNotAnchor(p, "Reject")),
        Replaced("invalid_delta_path", "invalid_delta_base", "Accept")>>
      \o Identity("base", p)
      \o <<Validity(p, "base_validity", base), Validity(p, "delta_validity", At("delta", p)),
           Run(p, "base_crl", "CrlStatus",
               crl_run(issuer, issuer, base, IssuerAt("base_crl", p)), "Accept"),
           Run(p, "delta_crl", "CrlStatus",
               crl_run(IssuerAt("delta", p), IssuerAt("delta", p), At("delta", p),
                       IssuerAt("delta_crl", p)), "Accept")>>

chameleon_steps ==
  chameleon_controls \o ValidPath("base_path", "base")
    \o <<Run("path", "delta_path", "Path", Hierarchy("delta"), "Accept")>>
    \o chameleon_position_steps("EndEntity") \o chameleon_position_steps("Intermediate")
    \o chameleon_position_steps("TrustAnchor")
    \o <<Digest("anchor", "digest", <<"base", "root">>)>>

\* The outcome for one of the two certificates of a position.
dual_outcome(g, p, valid_path, signature, invalid_signature, invalid_path) ==
  outcome_check(g[<<"path", valid_path>>], g[<<p, invalid_path>>],
                /\ g[<<p, signature>>] = "Accept"
                /\ g[<<p, invalid_signature>>] = "Reject")

chameleon_position_evidence(g, node) ==
  LET p     == node.position
      delta == check_from_verdict(g[<<p, "delta_signature">>])
  IN  <<Item(node, "Classical", node.der_sha256, None,
          Checks(delta, delta, check_from_verdict(g[<<"path", "delta_path">>]),
                 observed(g[<<p, "delta_validity">>]), check_from_verdict(g[<<p, "delta_crl">>]),
                 dual_outcome(g, p, "base_path", "delta_signature", "invalid_delta_signature",
                              "invalid_delta_path")), "Crl"),
        Item(node, "PostQuantum", node.der_sha256, None,
          Checks(check_from_verdict(g[<<p, "base_signature">>]), not_applicable,
                 check_from_verdict(g[<<"path", "base_path">>]),
                 observed(g[<<p, "base_validity">>]), check_from_verdict(g[<<p, "base_crl">>]),
                 dual_outcome(g, p, "base_path", "base_signature", "invalid_base_signature",
                              "invalid_base_path")), "Crl")>>

chameleon_submission(g) ==
  LET nodes == PathNodes(g, "Classical", "Classical", "Chameleon")
  IN  Submission(Presented(g[<<"path", "base_path">>], "X509Path",
                           g[<<"path", "selected">>]),
                 g[<<"anchor", "digest">>], nodes, <<>>,
                 chameleon_position_evidence(g, nodes[1]) \o chameleon_position_evidence(g, nodes[2]))

-----------------------------------------------------------------------------
(* pure_path_scope.rs *)

pure_position_steps(p) ==
  LET certificate == At("pure", p)
      issuer      == IssuerAt("pure", p)
      Direct(what, c, v) ==
        Run(p, what, "CertificateSignature", direct(issuer, issuer, c), v)
  IN  <<Direct("signature", certificate, "Accept"),
        Direct("invalid_signature", At("invalid", p), "Reject"),
        Run(p, "invalid_path", "Path", path_with_replacement("pure", p, "invalid"),
            IfNotAnchor(p, "Reject"))>>
      \o Identity("pure", p)
      \o <<Validity(p, "validity", certificate),
           Run(p, "crl", "CrlStatus",
               crl_run(issuer, issuer, certificate, IssuerAt("crl", p)), "Accept")>>

pure_steps ==
  InspectChain("pure") \o InspectChain("invalid") \o ValidPath("valid_path", "pure")
    \o pure_position_steps("EndEntity") \o pure_position_steps("Intermediate")
    \o pure_position_steps("TrustAnchor")
    \o <<Digest("anchor", "digest", <<"pure", "root">>)>>

pure_position_evidence(g, node) ==
  LET p == node.position IN
  <<Item(node, "PostQuantum", node.der_sha256, None,
      Checks(check_from_verdict(g[<<p, "signature">>]), not_applicable,
             check_from_verdict(g[<<"path", "valid_path">>]),
             observed(g[<<p, "validity">>]), check_from_verdict(g[<<p, "crl">>]),
             dual_outcome(g, p, "valid_path", "signature", "invalid_signature",
                          "invalid_path")), "Crl")>>

pure_submission(g) ==
  LET nodes == PathNodes(g, "PostQuantum", "PostQuantum", "None")
  IN  Submission(Presented(g[<<"path", "valid_path">>], "X509Path",
                           g[<<"path", "selected">>]),
                 g[<<"anchor", "digest">>], nodes, <<>>,
                 pure_position_evidence(g, nodes[1]) \o pure_position_evidence(g, nodes[2]))

-----------------------------------------------------------------------------
(* related_path_scope.rs *)

related_controls ==
  InspectChain("classical") \o InspectChain("invalid_binding")
    \o InspectChain("invalid_classical") \o InspectChain("post_quantum")
    \o InspectChain("invalid_post_quantum")

\* No pair of the controls shares a DNS name, and a certificate authority is no
\* end entity: the pair conforms at no position.
related_failures(p) ==
  {"dns_identity_overlap"}
    \cup (IF p = "EndEntity" THEN {}
          ELSE {"extension_in_end_entity", "related_certificate_is_end_entity"})

related_position_steps(p) ==
  LET classical           == At("classical", p)
      post_quantum        == At("post_quantum", p)
      classical_issuer    == IssuerAt("classical", p)
      post_quantum_issuer == IssuerAt("post_quantum", p)
      Direct(what, issuer, c, v) ==
        Run(p, what, "CertificateSignature", direct(issuer, issuer, c), v)
  IN  <<Conformance(p, "conformance", classical, post_quantum, related_failures(p)),
        Binding(p, "invalid_binding", At("invalid_binding", p), post_quantum, "Fail"),
        Direct("classical_signature", classical_issuer, classical, "Accept"),
        Direct("invalid_classical_signature", classical_issuer, At("invalid_classical", p), "Reject"),
        Direct("post_quantum_signature", post_quantum_issuer, post_quantum, "Accept"),
        Direct("invalid_post_quantum_signature", post_quantum_issuer,
               At("invalid_post_quantum", p), "Reject"),
        Run(p, "invalid_classical_path", "Path",
            path_with_replacement("classical", p, "invalid_classical"), IfNotAnchor(p, "Reject")),
        Run(p, "invalid_binding_path", "Path",
            path_with_replacement("classical", p, "invalid_binding"), "Accept"),
        Run(p, "invalid_post_quantum_path", "Path",
            path_with_replacement("post_quantum", p, "invalid_post_quantum"),
            IfNotAnchor(p, "Reject")),
        Digest(p, "digest", classical), Digest(p, "post_quantum_digest", post_quantum)>>
      \o (IF p = "TrustAnchor" THEN <<>> ELSE <<Edge(p, "edge", classical, classical_issuer)>>)
      \o <<Validity(p, "classical_validity", classical),
           Validity(p, "post_quantum_validity", post_quantum),
           Run(p, "classical_crl", "CrlStatus",
               crl_run(classical_issuer, classical_issuer, classical,
                       IssuerAt("classical_crl", p)), "Accept"),
           Run(p, "post_quantum_crl", "CrlStatus",
               crl_run(post_quantum_issuer, post_quantum_issuer, post_quantum,
                       IssuerAt("post_quantum_crl", p)), "Accept")>>

related_steps ==
  related_controls \o ValidPath("classical_path", "classical")
    \o <<Run("path", "post_quantum_path", "Path", Hierarchy("post_quantum"), "Accept")>>
    \o related_position_steps("EndEntity") \o related_position_steps("Intermediate")
    \o related_position_steps("TrustAnchor")
    \o <<Digest("anchor", "digest", <<"classical", "root">>)>>

\* At best the controls show that the pair does not matter to the path; a pair
\* that does not conform shows nothing.
related_post_quantum_outcome(g, p) ==
  behavioral_check(/\ g[<<"path", "classical_path">>] = "Accept"
                   /\ related_conformance_check(g[<<p, "conformance">>]).state = "Pass"
                   /\ g[<<p, "invalid_binding">>] = "Fail"
                   /\ g[<<p, "invalid_binding_path">>] = "Accept"
                   /\ g[<<p, "post_quantum_signature">>] = "Accept"
                   /\ g[<<p, "invalid_post_quantum_signature">>] = "Reject", "Fail")

related_operation(node) == node.id \o <<"related-authentication">>

related_position_evidence(g, node) ==
  LET p == node.position IN
  <<Item(node, "Classical", node.der_sha256, related_operation(node),
      Checks(check_from_verdict(g[<<p, "classical_signature">>]), not_applicable,
             check_from_verdict(g[<<"path", "classical_path">>]),
             observed(g[<<p, "classical_validity">>]),
             check_from_verdict(g[<<p, "classical_crl">>]),
             dual_outcome(g, p, "classical_path", "classical_signature",
                          "invalid_classical_signature", "invalid_classical_path")), "Crl"),
    Item(node, "PostQuantum", g[<<p, "post_quantum_digest">>], related_operation(node),
      Checks(check_from_verdict(g[<<p, "post_quantum_signature">>]),
             related_conformance_check(g[<<p, "conformance">>]),
             check_from_verdict(g[<<"path", "post_quantum_path">>]),
             observed(g[<<p, "post_quantum_validity">>]),
             check_from_verdict(g[<<p, "post_quantum_crl">>]),
             related_post_quantum_outcome(g, p)), "Crl")>>

related_submission(g) ==
  LET nodes == PathNodes(g, "Classical", "Classical", "RelatedCertificate")
      Pair(node) == UnpairedUse(node, related_operation(node),
                                g[<<node.position, "post_quantum_digest">>])
  IN  Submission(Presented(g[<<"path", "classical_path">>], "X509Path",
                           g[<<"path", "selected">>]),
                 g[<<"anchor", "digest">>], nodes, <<Pair(nodes[1]), Pair(nodes[2])>>,
                 related_position_evidence(g, nodes[1]) \o related_position_evidence(g, nodes[2]))
=============================================================================

---------------------------- MODULE Credentials ----------------------------
(***************************************************************************)
(* The analyses of one credential: the Catalyst leaf under Bouncy Castle,  *)
(* the related pair under OpenSSL, and the four TLS handshakes.  They read *)
(* the certificate, the issuer and the trust store again and again: for    *)
(* the runs, for the digests of the evidence, and once more for the        *)
(* certification path of the request (end_entity_certification_path).      *)
(***************************************************************************)
EXTENDS AnalysisParts

Issuer == <<"certificate", "issuer">>
TrustStore == <<"certificate", "trust_store">>
IssuedCrl == <<"crl", "issuer">>
RootCrl == <<"crl", "trust_store">>
Leaf(role) == <<role, "leaf">>
Key(role) == <<"key", role>>

\* A leaf under the issuer and the trust store.
Presentation(leaf) == [leaf |-> leaf, intermediate |-> Issuer, root |-> TrustStore]
Handshake(leaf, key) ==
  [leaf |-> leaf, intermediate |-> Issuer, root |-> TrustStore, key |-> key]

SelectLeaf(leaf) == Select(leaf, Issuer, TrustStore)

\* Bouncy Castle hashes the path after its run, OpenSSL before.
BouncyCastleStack(run, leaf) == <<run, SelectLeaf(leaf)>>
OpenSslStack(run, leaf) == <<SelectLeaf(leaf), run>>

AcceptedOnly(verdict) == observed(IF verdict = "Accept" THEN "Pass" ELSE "Fail")

\* The digests an analysis takes for its evidence ...
EvidenceIdentity(leaf) ==
  <<Digest("evidence", "digest", leaf), Edge("evidence", "edge", leaf, Issuer)>>

AnchorDigest == <<Digest("anchor", "digest", TrustStore)>>

\* ... and the ones end_entity_certification_path takes for the request.
PathIdentity(leaf) ==
  <<Digest("node", "digest", leaf), Edge("node", "edge", leaf, Issuer),
    Digest("issuer", "digest", Issuer), Edge("issuer", "edge", Issuer, TrustStore)>>

end_entity_certification_path(g, signature, design) ==
  <<Node("end-entity", "EndEntity", "Classical", signature, design,
         g[<<"node", "digest">>], g[<<"node", "edge">>]),
    Node("issuer", "Intermediate", "Classical", "Classical", "None",
         g[<<"issuer", "digest">>], g[<<"issuer", "edge">>])>>

\* Mutant: the evidence takes its digests from the node.
DigestsOfNode(g, node, kind, artifact, operation, checks, method) ==
  Item(node, kind, artifact, operation, checks, method)

\* Evidence about the leaf carries the digests taken for it, not the node's.
LeafItem(g, node, kind, artifact, operation, checks, method) ==
  [Item(node, kind, artifact, operation, checks, method) EXCEPT
     !.certificate_der_sha256 = g[<<"evidence", "digest">>],
     !.issuer_edge_sha256 = g[<<"evidence", "edge">>]]

EndEntitySubmission(g, run, profile, path, pairs, evidence) ==
  Submission(Presented(g[run], profile, g[<<"path", "selected">>]),
             g[<<"anchor", "digest">>], path, pairs, evidence)

-----------------------------------------------------------------------------
(* catalyst_bouncy_castle.rs *)

catalyst_bouncy_castle_steps ==
  LET valid == Leaf("certificate")  invalid == Leaf("invalid_post_quantum") IN
  <<Inspect(valid), Inspect(invalid),
    CrlStatus("leaf", "crl_status", valid, Issuer, IssuedCrl, <<"Pass", "Pass">>),
    CrlStatus("issuer", "crl_status", Issuer, TrustStore, RootCrl, <<"Pass", "Pass">>),
    CrlStatus("root", "crl_status", TrustStore, TrustStore, RootCrl, <<"Pass", "Pass">>),
    Validity("leaf", "validity", valid), Validity("issuer", "validity", Issuer),
    Validity("root", "validity", TrustStore)>>
  \o BouncyCastleStack(Run("leaf", "valid_default", "Path", Presentation(valid), "Accept"), valid)
  \o <<Run("leaf", "invalid_post_quantum_default", "Path", Presentation(invalid), "Accept"),
       Run("leaf", "valid_post_quantum", "AlternativeSignature", Presentation(valid), "Accept"),
       Run("leaf", "invalid_post_quantum", "AlternativeSignature", Presentation(invalid), "Reject"),
       Corrupt("leaf", valid),
       Run("leaf", "invalid_classical", "Path", Presentation(Corrupted(valid)), "Reject"),
       Corrupt("issuer", Issuer),
       Run("issuer", "invalid_classical", "Path",
           [Presentation(valid) EXCEPT !.intermediate = Corrupted(Issuer)], "Reject"),
       Corrupt("root", TrustStore),
       Run("root", "invalid_classical", "Path",
           [Presentation(valid) EXCEPT !.root = Corrupted(TrustStore)], "Accept"),
       Digest("node", "digest", valid), Edge("node", "edge", valid, Issuer),
       Digest("issuer", "digest", Issuer), Edge("issuer", "edge", Issuer, TrustStore),
       Digest("root", "digest", TrustStore)>>
  \o AnchorDigest

\* The alternative signature counts as not deciding when every control says so.
catalyst_post_quantum_outcome(g, valid, invalid) ==
  behavioral_check(/\ g[valid] = "Accept" /\ g[invalid] = "Accept"
                   /\ g[<<"leaf", "valid_post_quantum">>] = "Accept"
                   /\ g[<<"leaf", "invalid_post_quantum">>] = "Reject", "Fail")

rejects_control(g, valid, invalid) ==
  behavioral_check(g[valid] = "Accept" /\ g[invalid] = "Reject", "Pass")

\* The intermediate's certificate has no alternative signature of its issuer.
missing_alternative(validity, revocation) ==
  [Checks(not_checked, not_checked, not_checked, validity, revocation, not_checked)
     EXCEPT !.present = observed("Fail"), !.recognized = not_checked]

catalyst_bouncy_castle_submission(g) ==
  LET run     == <<"leaf", "valid_default">>
      default == check_from_verdict(g[run])
      alternative == check_from_verdict(g[<<"leaf", "valid_post_quantum">>])
      leaf    == Node("end-entity", "EndEntity", "Classical", "Classical", "Catalyst",
                      g[<<"node", "digest">>], g[<<"node", "edge">>])
      issuer  == Node("intermediate", "Intermediate", "Classical", "Classical", "Catalyst",
                      g[<<"issuer", "digest">>], g[<<"issuer", "edge">>])
      leaf_validity   == observed(g[<<"leaf", "validity">>])
      issuer_validity == observed(g[<<"issuer", "validity">>])
      leaf_crl   == observed(g[<<"leaf", "crl_status">>][2])
      issuer_crl == observed(g[<<"issuer", "crl_status">>][2])
  IN  Submission(Presented(g[run], "X509Path", g[<<"path", "selected">>]),
        g[<<"anchor", "digest">>], <<leaf, issuer>>, <<>>,
        <<Item(leaf, "Classical", leaf.der_sha256, None,
            Checks(default, not_applicable, default, leaf_validity, leaf_crl,
                   rejects_control(g, run, <<"leaf", "invalid_classical">>)), "Crl"),
          Item(leaf, "PostQuantum", leaf.der_sha256, None,
            Checks(alternative, alternative, default, leaf_validity, leaf_crl,
                   catalyst_post_quantum_outcome(g, run,
                     <<"leaf", "invalid_post_quantum_default">>)), "Crl"),
          Item(issuer, "Classical", issuer.der_sha256, None,
            Checks(observed(g[<<"issuer", "crl_status">>][1]), not_applicable, default,
                   issuer_validity, issuer_crl,
                   rejects_control(g, run, <<"issuer", "invalid_classical">>)), "Crl"),
          Item(issuer, "PostQuantum", issuer.der_sha256, None,
            missing_alternative(issuer_validity, issuer_crl), "Crl")>>)

-----------------------------------------------------------------------------
(* related_openssl.rs *)

\* What fails for the published pair: the key usage of the related certificate
\* is wider, and the two share no DNS name.
published_failures == {"key_usage_subset", "dns_identity_overlap"}

OpenSslWith(leaf, crl) ==
  [leaf |-> leaf, intermediate |-> Issuer, root |-> TrustStore, crl |-> crl]

\* The bound post-quantum certificate is revoked in the documented run.
related_openssl_steps ==
  LET classical == Leaf("certificate")  post_quantum == Leaf("post_quantum") IN
  <<Inspect(classical),
    Conformance("pair", "conformance", classical, post_quantum, published_failures),
    Binding("pair", "invalid_binding", classical, Leaf("invalid_binding"), "Fail"),
    CrlStatus("leaf", "classical_crl", classical, Issuer, IssuedCrl, <<"Pass", "Pass">>),
    CrlStatus("leaf", "post_quantum_crl", post_quantum, Issuer, IssuedCrl, <<"Pass", "Fail">>)>>
  \o OpenSslStack(Run("leaf", "classical", "openssl", OpenSslWith(classical, IssuedCrl), "Accept"),
                  classical)
  \o <<Corrupt("leaf", classical),
       Run("leaf", "classical_invalid", "openssl", OpenSslWith(Corrupted(classical), IssuedCrl),
           "Reject"),
       Run("leaf", "post_quantum", "openssl", Presentation(post_quantum), "Accept"),
       Run("leaf", "invalid_binding_path", "openssl", Presentation(Leaf("invalid_binding")),
           "Accept"),
       Run("leaf", "post_quantum_expired", "openssl", Presentation(Leaf("expired")), "Reject"),
       Run("leaf", "post_quantum_revocation", "openssl", OpenSslWith(post_quantum, IssuedCrl),
           "Reject"),
       Digest("evidence", "digest", classical), Digest("pair", "digest", post_quantum),
       Edge("evidence", "edge", classical, Issuer)>>
  \o AnchorDigest \o PathIdentity(classical)

\* The pair's item and the record that the two were not used in one operation.
PairOperation == <<"end-entity-related-authentication">>

unpaired(g, node) == <<UnpairedUse(node, PairOperation, g[<<"pair", "digest">>])>>

related_openssl_evidence(g, node) ==
  LET classical    == check_from_verdict(g[<<"leaf", "classical">>])
      post_quantum == check_from_verdict(g[<<"leaf", "post_quantum">>])
      conformance  == related_conformance_check(g[<<"pair", "conformance">>])
  IN  <<LeafItem(g, node, "Classical", g[<<"evidence", "digest">>], PairOperation,
          Checks(classical, not_applicable, classical, classical,
                 observed(g[<<"leaf", "classical_crl">>][2]),
                 rejects_control(g, <<"leaf", "classical">>, <<"leaf", "classical_invalid">>)),
          "Crl"),
        LeafItem(g, node, "PostQuantum", g[<<"pair", "digest">>], PairOperation,
          Checks(post_quantum, conformance, post_quantum, post_quantum,
                 observed(g[<<"leaf", "post_quantum_crl">>][2]),
                 behavioral_check(/\ g[<<"leaf", "classical">>] = "Accept"
                                  /\ conformance.state = "Pass"
                                  /\ g[<<"pair", "invalid_binding">>] = "Fail"
                                  /\ g[<<"leaf", "invalid_binding_path">>] = "Accept"
                                  /\ g[<<"leaf", "post_quantum_expired">>] = "Reject"
                                  /\ g[<<"leaf", "post_quantum_crl">>][2] = "Fail", "Fail")),
          "Crl")>>

related_openssl_submission(g) ==
  LET path == end_entity_certification_path(g, "Classical", "RelatedCertificate")
  IN  EndEntitySubmission(g, <<"leaf", "classical">>, "X509Path", path, unpaired(g, path[1]),
                          related_openssl_evidence(g, path[1]))

-----------------------------------------------------------------------------
(* atomic_tls.rs *)

atomic_tls_steps ==
  LET valid == Leaf("certificate")  invalid == Leaf("invalid_post_quantum")
      Tls(what, leaf, v) == Run("tls", what, "TlsTranscript", Handshake(leaf, Key("leaf")), v)
  IN  <<Inspect(valid), Inspect(invalid)>>
      \o BouncyCastleStack(Tls("valid", valid, "Accept"), valid)
      \o <<Tls("invalid_post_quantum", invalid, "Reject"), Corrupt("leaf", valid),
           Tls("invalid_classical", Corrupted(valid), "Reject"),
           Validity("leaf", "validity", valid)>>
      \o EvidenceIdentity(valid) \o AnchorDigest \o PathIdentity(valid)

\* A handshake does not show which component was at fault.
component_signature == [state |-> "Indeterminate", confidence |-> "Unknown"]

atomic_tls_submission(g) ==
  LET path == end_entity_certification_path(g, "Hybrid", "AtomicComposite")
      Component(kind, control) ==
        LeafItem(g, path[1], kind, g[<<"evidence", "digest">>], None,
          Checks(component_signature, not_applicable, AcceptedOnly(g[<<"tls", "valid">>]),
                 observed(g[<<"leaf", "validity">>]), not_checked,
                 rejects_control(g, <<"tls", "valid">>, <<"tls", control>>)), "None")
  IN  EndEntitySubmission(g, <<"tls", "valid">>, "WebPkiServer", path, <<>>,
        <<Component("Classical", "invalid_classical"),
          Component("PostQuantum", "invalid_post_quantum")>>)

-----------------------------------------------------------------------------
(* catalyst_tls.rs *)

\* observe: the handshake, then the leaf read again for the digest reported.
observe(what, leaf, verdict) ==
  <<Run("tls", what, "openssl_tls", Handshake(leaf, Key("leaf")), verdict),
    Digest(what, "reported", leaf)>>

catalyst_tls_steps ==
  LET valid == Leaf("certificate")  invalid == Leaf("invalid_post_quantum") IN
  <<Inspect(valid), Inspect(invalid),
    CrlStatus("leaf", "crl_status", valid, Issuer, IssuedCrl, <<"Pass", "Pass">>)>>
  \o <<SelectLeaf(valid)>> \o observe("valid", valid, "Accept")
  \o observe("invalid_post_quantum", invalid, "Accept")
  \o <<Corrupt("leaf", valid)>> \o observe("invalid_classical", Corrupted(valid), "Reject")
  \o <<Run("leaf", "valid_post_quantum", "AlternativeSignature", Presentation(valid), "Accept"),
       Run("leaf", "invalid_post_quantum", "AlternativeSignature", Presentation(invalid), "Reject"),
       Run("tls", "transcript", "TlsTranscript", Handshake(valid, Key("leaf")), "Accept"),
       Validity("leaf", "validity", valid)>>
  \o EvidenceIdentity(valid) \o AnchorDigest \o PathIdentity(valid)

catalyst_tls_submission(g) ==
  LET path == end_entity_certification_path(g, "Classical", "Catalyst")
      run == <<"tls", "valid">>
      classical   == check_from_verdict(g[run])
      alternative == check_from_verdict(g[<<"leaf", "valid_post_quantum">>])
      validity    == observed(g[<<"leaf", "validity">>])
      revocation  == observed(g[<<"leaf", "crl_status">>][2])
      evidence ==
        <<LeafItem(g, path[1], "Classical", g[<<"evidence", "digest">>], None,
            Checks(classical, not_applicable, classical, validity, revocation,
                   rejects_control(g, run, <<"tls", "invalid_classical">>)), "Crl"),
          LeafItem(g, path[1], "PostQuantum", g[<<"evidence", "digest">>], None,
            Checks(alternative, alternative, classical, validity, revocation,
                   catalyst_post_quantum_outcome(g, run, <<"tls", "invalid_post_quantum">>)),
            "Crl")>>
  IN  EndEntitySubmission(g, run, "WebPkiServer", path, <<>>, evidence)

-----------------------------------------------------------------------------
(* chameleon_tls.rs *)

chameleon_tls_steps ==
  LET base == Leaf("certificate")  invalid == Leaf("invalid_delta_base")
      Tls(what, leaf, key, v) == Run("tls", what, "TlsTranscript", Handshake(leaf, Key(key)), v)
  IN  <<Inspect(base), Inspect(invalid)>>
      \o BouncyCastleStack(Tls("valid_base", base, "base", "Accept"), base)
      \o <<Tls("invalid_delta", invalid, "base", "Accept"),
           Tls("separate_delta", Leaf("delta"), "delta", "Accept"),
           Corrupt("leaf", base),
           Tls("invalid_base", Corrupted(base), "base", "Reject"),
           Run("leaf", "valid_delta", "DeltaSignature", Presentation(base), "Accept"),
           Run("leaf", "invalid_delta", "DeltaSignature", Presentation(invalid), "Reject"),
           Validity("leaf", "base_validity", base),
           Validity("leaf", "delta_validity", Leaf("delta"))>>
      \o EvidenceIdentity(base) \o AnchorDigest \o PathIdentity(base)

chameleon_tls_submission(g) ==
  LET path == end_entity_certification_path(g, "Classical", "Chameleon")
      run   == <<"tls", "valid_base">>
      delta == check_from_verdict(g[<<"leaf", "valid_delta">>])
      post_quantum_outcome == rejects_control(g, run, <<"tls", "invalid_base">>)
      classical_outcome ==
        behavioral_check(/\ g[run] = "Accept" /\ g[<<"tls", "invalid_delta">>] = "Accept"
                         /\ g[<<"leaf", "valid_delta">>] = "Accept"
                         /\ g[<<"leaf", "invalid_delta">>] = "Reject", "Fail")
      evidence ==
        <<LeafItem(g, path[1], "Classical", g[<<"evidence", "digest">>], None,
            Checks(delta, delta, AcceptedOnly(g[<<"tls", "separate_delta">>]),
                   observed(g[<<"leaf", "delta_validity">>]), not_checked, classical_outcome),
            "None"),
          LeafItem(g, path[1], "PostQuantum", g[<<"evidence", "digest">>], None,
            Checks(post_quantum_outcome, not_applicable, AcceptedOnly(g[run]),
                   observed(g[<<"leaf", "base_validity">>]), not_checked, post_quantum_outcome),
            "None")>>
  IN  EndEntitySubmission(g, run, "WebPkiServer", path, <<>>, evidence)

-----------------------------------------------------------------------------
(* related_tls.rs *)

related_tls_steps ==
  LET classical == Leaf("certificate")  post_quantum == Leaf("post_quantum")
      Tls(what, leaf, key, v) == Run("tls", what, "TlsTranscript", Handshake(leaf, Key(key)), v)
  IN  <<Inspect(classical),
        Conformance("pair", "conformance", classical, post_quantum, published_failures),
        Binding("pair", "invalid_binding", Leaf("invalid_binding"), post_quantum, "Fail"),
        CrlStatus("leaf", "classical_crl", classical, Issuer, IssuedCrl, <<"Pass", "Pass">>),
        CrlStatus("leaf", "post_quantum_crl", post_quantum, Issuer, IssuedCrl, <<"Pass", "Fail">>)>>
      \o BouncyCastleStack(Tls("classical", classical, "classical", "Accept"), classical)
      \o <<Tls("invalid_binding", Leaf("invalid_binding"), "classical", "Accept"),
           Tls("missing_binding", Leaf("missing_binding"), "classical", "Accept"),
           Tls("separate_post_quantum", post_quantum, "post_quantum", "Accept"),
           Tls("expired", Leaf("expired"), "post_quantum", "Reject"),
           Corrupt("leaf", classical),
           Tls("invalid_classical", Corrupted(classical), "classical", "Reject"),
           Validity("leaf", "post_quantum_validity", post_quantum),
           Digest("evidence", "digest", classical), Digest("pair", "digest", post_quantum),
           Edge("evidence", "edge", classical, Issuer)>>
      \o AnchorDigest \o PathIdentity(classical)
      \o <<Validity("leaf", "classical_validity", classical)>>

related_tls_evidence(g, node) ==
  LET run  == <<"tls", "classical">>
      path == AcceptedOnly(g[run])
      conformance == related_conformance_check(g[<<"pair", "conformance">>])
  IN  <<LeafItem(g, node, "Classical", g[<<"evidence", "digest">>], PairOperation,
          Checks(path, not_applicable, path, observed(g[<<"leaf", "classical_validity">>]),
                 observed(g[<<"leaf", "classical_crl">>][2]),
                 rejects_control(g, run, <<"tls", "invalid_classical">>)), "Crl"),
        LeafItem(g, node, "PostQuantum", g[<<"pair", "digest">>], PairOperation,
          Checks(not_applicable, conformance, not_applicable,
                 observed(g[<<"leaf", "post_quantum_validity">>]),
                 observed(g[<<"leaf", "post_quantum_crl">>][2]),
                 behavioral_check(/\ g[run] = "Accept" /\ conformance.state = "Pass"
                                  /\ g[<<"pair", "invalid_binding">>] = "Fail"
                                  /\ g[<<"tls", "invalid_binding">>] = "Accept"
                                  /\ g[<<"tls", "missing_binding">>] = "Accept"
                                  /\ g[<<"leaf", "post_quantum_crl">>][2] = "Fail"
                                  /\ g[<<"tls", "expired">>] = "Reject", "Fail")), "Crl")>>

related_tls_submission(g) ==
  LET path == end_entity_certification_path(g, "Classical", "RelatedCertificate")
  IN  EndEntitySubmission(g, <<"tls", "classical">>, "WebPkiServer", path, unpaired(g, path[1]),
                          related_tls_evidence(g, path[1]))
=============================================================================

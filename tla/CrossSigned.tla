---------------------------- MODULE CrossSigned ----------------------------
(***************************************************************************)
(* cross_signed_path.rs: one leaf whose issuer is certified twice, once    *)
(* under a classical and once under an atomic composite root.  A path      *)
(* builder is offered both routes and selects one; the atomic route is     *)
(* analysed by atomic_path_scope and evaluated with the selected path, the *)
(* classical route with the path of a run that offers no other.            *)
(*                                                                         *)
(* The roles atomic, invalid_classical, invalid_post_quantum and crl are   *)
(* the files given to atomic_path_scope; the leaf is shared.               *)
(***************************************************************************)
EXTENDS PathScope

cross_leaf == <<"atomic", "leaf">>
Classical(place) == <<"classical", place>>
BadSignature(place) == <<"invalid", place>>
Bundle(name) == <<"bundle", name>>

Builder(id, what, roots, intermediates, leaf, nominal) ==
  Step(id, what, "PathBuilder", [root |-> roots, intermediate |-> intermediates, leaf |-> leaf],
       nominal, {"atomic", "classical", "other", "Reject", "Indeterminate"} \ {nominal})

\* A run of the builder that selects a route: the digest it reports of the
\* leaf, and the route, "other" for any other accepted path.
Selection(id, roots, intermediates, nominal) ==
  <<Digest(id, "leaf", cross_leaf),
    Builder(id, "route", roots, intermediates, cross_leaf, nominal)>>

\* A run of the builder on a control, of which only the verdict is used.
BuilderControl(what, root, intermediate, leaf, nominal) ==
  Run("control", what, "PathBuilder",
      [root |-> root, intermediate |-> intermediate, leaf |-> leaf], nominal)

run_direct(what, issuer, certificate, nominal) ==
  Run("control", what, "CertificateSignature", direct(issuer, issuer, certificate), nominal)

run_crl(what, issuer, certificate, crl) ==
  Run("control", what, "CrlStatus", crl_run(issuer, issuer, certificate, crl), "Accept")

builder_steps ==
  <<Digest("hash", "classical_ica", Classical("intermediate")),
    Digest("hash", "classical_root", Classical("root")),
    Digest("hash", "atomic_ica", <<"atomic", "intermediate">>),
    Digest("hash", "atomic_root", <<"atomic", "root">>)>>
  \o Selection("selected", Bundle("roots"), Bundle("icas"), "atomic")
  \o Selection("forced_classical", Classical("root"), Bundle("icas"), "classical")
  \o Selection("forced_atomic", <<"atomic", "root">>, Bundle("icas"), "atomic")
  \o Selection("classical_fallback", Bundle("roots"), Bundle("icas_classical"), "classical")
  \o Selection("atomic_fallback", Bundle("roots"), Bundle("icas_atomic"), "atomic")
  \o <<Step("routes", "forced", "routes", << >>, "expected", {})>>

classical_control_steps ==
  <<BuilderControl("invalid_intermediate_path", Classical("root"), BadSignature("intermediate"),
                   cross_leaf, "Reject"),
    BuilderControl("invalid_root_path", BadSignature("root"), Classical("intermediate"),
                   cross_leaf, "Accept"),
    BuilderControl("invalid_leaf_ecdsa_path", Classical("root"), Classical("intermediate"),
                   <<"invalid_classical", "leaf">>, "Reject"),
    BuilderControl("invalid_leaf_mldsa_path", Classical("root"), Classical("intermediate"),
                   <<"invalid_post_quantum", "leaf">>, "Reject"),
    run_direct("intermediate_signature", Classical("root"), Classical("intermediate"), "Accept"),
    run_direct("invalid_intermediate_signature", Classical("root"),
               BadSignature("intermediate"), "Reject"),
    run_direct("root_signature", Classical("root"), Classical("root"), "Accept"),
    run_direct("invalid_root_signature", Classical("root"), BadSignature("root"), "Reject"),
    run_crl("root_crl", Classical("root"), Classical("intermediate"), <<"classical_crl", "root">>),
    run_crl("ica_crl", Classical("intermediate"), cross_leaf, <<"crl", "intermediate">>)>>

\* The digests evaluate_classical_route takes, after the atomic analysis.
classical_route_steps ==
  <<Digest("route", "leaf", cross_leaf),
    Edge("route", "leaf_edge", cross_leaf, Classical("intermediate")),
    Digest("route", "intermediate", Classical("intermediate")),
    Edge("route", "intermediate_edge", Classical("intermediate"), Classical("root")),
    Digest("route", "root", Classical("root")),
    Validity("route", "intermediate_validity", Classical("intermediate")),
    Validity("route", "root_validity", Classical("root"))>>

cross_signed_steps ==
  builder_steps \o classical_control_steps \o atomic_steps \o classical_route_steps

\* selected_path: an accepted path through a known intermediate and root.  The
\* bundles hold the certificates as they were; a digest of a replaced file
\* does not match what the builder reports.
selected_path(g, id) ==
  LET Known(route, ica, root) ==
        /\ g[<<id, "route">>] = route
        /\ g[<<"hash", ica>>] = <<route, "intermediate", "v1">>
        /\ g[<<"hash", root>>] = <<route, "root", "v1">>
  IN  CASE Known("classical", "classical_ica", "classical_root") -> "classical"
        [] Known("atomic", "atomic_ica", "atomic_root") -> "atomic"
        [] OTHER -> "InvalidSelectedPath"

\* Every builder run selects a route, and all but the first the one it must.
routes_error(g) ==
  CASE \E id \in {"selected", "forced_classical", "forced_atomic", "classical_fallback",
                  "atomic_fallback"} : selected_path(g, id) = "InvalidSelectedPath"
         -> "InvalidSelectedPath"
    [] \/ {selected_path(g, "forced_classical"), selected_path(g, "classical_fallback")}
            # {"classical"}
       \/ {selected_path(g, "forced_atomic"), selected_path(g, "atomic_fallback")}
            # {"atomic"} -> "UnexpectedRoute"
    [] OTHER -> "ok"

\* The observation of an accepting builder.
Built(g, id) ==
  LET route == g[<<id, "route">>] IN
  [Presented("Accept", "X509Path",
             <<g[<<id, "leaf">>], <<route, "intermediate", "v1">>, <<route, "root", "v1">>>>)
     EXCEPT !.selected_path_source = "AdapterSelected"]

evaluate_atomic_route(g) ==
  Submission(Built(g, "selected"), g[<<"anchor", "digest">>], atomic_nodes(g), <<>>,
             atomic_evidence(g))

\* The leaf's evidence is that of the atomic route, with path, revocation and
\* digests of this one; the root's item is dropped again by evaluate_scopes.
evaluate_classical_route(g) ==
  LET leaf == Node("leaf", "EndEntity", "Classical", "Hybrid", "AtomicComposite",
                   g[<<"route", "leaf">>], g[<<"route", "leaf_edge">>])
      intermediate == Node("intermediate", "Intermediate", "Classical", "Classical", "None",
                           g[<<"route", "intermediate">>], g[<<"route", "intermediate_edge">>])
      builder == check_from_verdict("Accept")
      atomic  == atomic_position_evidence(g, atomic_nodes(g)[1])
      LeafEvidence(i) ==
        [atomic[i] EXCEPT !.checks["path"] = builder,
                          !.checks["revocation"] =
                             check_from_verdict(g[<<"control", "ica_crl">>]),
                          !.certificate_der_sha256 = leaf.der_sha256,
                          !.issuer_edge_sha256 = leaf.issuer_edge_sha256]
  IN  Submission(Built(g, "classical_fallback"), g[<<"route", "root">>],
        <<leaf, intermediate>>, <<>>,
        <<LeafEvidence(1), LeafEvidence(2),
          Item(intermediate, "Classical", intermediate.der_sha256, None,
            Checks(check_from_verdict(g[<<"control", "intermediate_signature">>]),
                   not_applicable, builder,
                   observed(g[<<"route", "intermediate_validity">>]),
                   check_from_verdict(g[<<"control", "root_crl">>]),
                   outcome_check("Accept", g[<<"control", "invalid_intermediate_path">>],
                     /\ g[<<"control", "intermediate_signature">>] = "Accept"
                     /\ g[<<"control", "invalid_intermediate_signature">>] = "Reject")), "Crl")>>)
=============================================================================

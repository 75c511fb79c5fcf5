---------------------------- MODULE RefusalProofs ----------------------------
(***************************************************************************)
(* Proofs about what an analysis does not accept: the verdicts of runs     *)
(* that come to no conclusion, the documented verdicts, the requests that  *)
(* the oracle refuses, and the replaced files for which it does.           *)
(***************************************************************************)
EXTENDS AnalysisProofs

-----------------------------------------------------------------------------
(* Runs that come to no conclusion *)

\* The answers about the routes of the path builder.
LEMMA AtomicRouteAnswer ==
  ASSUME AnalysisInv, Answered, kind = "cross_signed", 2 \in DOMAIN answers,
         NEW scope \in scopes(kind)
  PROVE  LET g == results
             a == Aggregates(RequestAt(2, scope))
             e == AtomicItems(g, "EndEntity")
             f == AtomicItems(g, "Intermediate")
             both == scope = "CertificationPath"
         IN  /\ Judged(2, scope, "Accept", a)
             /\ a.has_classical /\ a.design = "Pass"
             /\ a.classical = "Fail" <=> ItemFails(e[1]) \/ (both /\ ItemFails(f[1]))
             /\ a.pq = "Fail" <=> ItemFails(e[2]) \/ (both /\ ItemFails(f[2]))
<1> DEFINE g == results
           s == evaluate_atomic_route(g)
           r == Request(policy, scope, s)
           a == Aggregates(r)
           n == AtomicNode(g, "EndEntity")
           m == AtomicNode(g, "Intermediate")
           e == AtomicItems(g, "EndEntity")
           f == AtomicItems(g, "Intermediate")
           both == scope = "CertificationPath"
<1>1. r = RequestAt(2, scope) /\ scope \in PathScope
  <2>1. submissions(kind, g)[2] = s
    BY DEF submissions
  <2> QED
    BY <2>1, AnsweredAt DEF RequestAt
<1>2. /\ s.certificate_path = <<n, m>> /\ s.evidence = BothItems(e, f)
      /\ s.stack = Built(g, "selected")
  <2>1. s = Submission(Built(g, "selected"), g[<<"anchor", "digest">>], atomic_nodes(g), <<>>,
                       atomic_evidence(g))
    BY DEF evaluate_atomic_route
  <2>2. /\ s.certificate_path = atomic_nodes(g) /\ s.evidence = atomic_evidence(g)
        /\ s.stack = Built(g, "selected")
    BY <2>1, SubmissionFields
  <2> QED
    BY <2>2, AtomicForm
<1>3. /\ Certificates(r) = {n, m}
      /\ a.has_classical /\ a.design = "Pass"
      /\ \A c \in Certificates(r) :
           /\ ~has_unknown_crypto_property(c)
           /\ c.der_sha256 # None /\ c.issuer_edge_sha256 # None
           /\ c.position \in {"EndEntity", "Intermediate"}
      /\ n.position = "EndEntity"
      /\ a.classical = "Fail" <=> ItemFails(e[1]) \/ (both /\ ItemFails(f[1]))
      /\ a.pq = "Fail" <=> ItemFails(e[2]) \/ (both /\ ItemFails(f[2]))
  BY <1>1, <1>2, AtomicKnown, AtomicClaims
<1>4. Stacked(r) /\ r.stack.verdict = "Accept"
  BY <1>2, <1>3, BuiltRequest
<1> HIDE DEF s, r, n, m, e, f
<1>5. Judged(2, scope, "Accept", a)
  BY <1>1, <1>4, Judging
<1> QED
  BY <1>1, <1>3, <1>5 DEF e, f

LEMMA ClassicalRouteAnswer ==
  ASSUME AnalysisInv, Answered, kind = "cross_signed", 3 \in DOMAIN answers,
         NEW scope \in scopes(kind)
  PROVE  LET g == results
             a == Aggregates(RequestAt(3, scope))
             n == RouteLeaf(g)
             m == RouteIntermediate(g)
             i == RouteItem(g, AtomicItems(g, "EndEntity")[1])
             q == RouteItem(g, AtomicItems(g, "EndEntity")[2])
             j == RouteIntermediateItem(g)
             both == scope = "CertificationPath"
         IN  /\ Judged(3, scope, "Accept", a) /\ a.has_classical
             /\ a.design = IF both THEN "Fail" ELSE "Pass"
             /\ a.classical = "Pass" <=> ItemPasses(n, i) /\ (both => ItemPasses(m, j))
             /\ a.classical = "Fail" <=> ItemFails(i) \/ (both /\ ItemFails(j))
             /\ a.pq = "Fail" <=> ItemFails(q)
<1> DEFINE g == results
           r == Request(policy, scope, evaluate_classical_route(g))
           a == Aggregates(r)
           n == RouteLeaf(g)
           m == RouteIntermediate(g)
           i == RouteItem(g, AtomicItems(g, "EndEntity")[1])
           q == RouteItem(g, AtomicItems(g, "EndEntity")[2])
           j == RouteIntermediateItem(g)
           both == scope = "CertificationPath"
<1>1. r = RequestAt(3, scope) /\ scope \in PathScope
  <2>1. submissions(kind, g)[3] = evaluate_classical_route(g)
    BY DEF submissions
  <2> QED
    BY <2>1, AnsweredAt DEF RequestAt
<1>2. /\ Stacked(r) /\ r.stack.verdict = "Accept" /\ a.has_classical
      /\ a.design = IF both THEN "Fail" ELSE "Pass"
      /\ a.classical = "Pass" <=> ItemPasses(n, i) /\ (both => ItemPasses(m, j))
      /\ a.classical = "Fail" <=> ItemFails(i) \/ (both /\ ItemFails(j))
      /\ a.pq = "Fail" <=> ItemFails(q)
  BY <1>1, AtomicKnown, RouteKnown, RouteClaims
<1> HIDE DEF r, n, m, i, q, j
<1>3. Judged(3, scope, "Accept", a)
  BY <1>1, <1>2, Judging
<1> QED
  BY <1>1, <1>2, <1>3 DEF n, m, i, q, j

\* Nothing is odd but adapter runs that came to no conclusion.
Undecided ==
  \A name \in DOMAIN odd : /\ Table[kind][Place[kind][name]].op \in Modes
                           /\ odd[name] \in Inconclusive

\* A result that is as documented or inconclusive.
Quiet(id, what, v) == results[<<id, what>>] \in {v} \cup Inconclusive
Settled(id, what) == results[<<id, what>>] = "Pass"

LEMMA UndecidedResults ==
  ASSUME AnalysisInv, Undecided, NEW id, NEW what
  PROVE  /\ \A v : As(id, what, v) => Quiet(id, what, v)
         /\ Held(id, what) => Settled(id, what)
<1>1. ASSUME <<id, what>> \in DOMAIN odd PROVE results[<<id, what>>] \in Inconclusive
  <2>1. PICK i \in DOMAIN Table[kind] : Table[kind][i].name = <<id, what>>
    BY <1>1 DEF AnalysisInv, OddResults
  <2>2. <<id, what>> \in DOMAIN Nominal[kind]
    BY <2>1, NominalOfStep DEF AnalysisInv
  <2>3. results[<<id, what>>] = odd[<<id, what>>]
    BY <1>1, <2>2 DEF results
  <2> QED
    BY <1>1, <2>3 DEF Undecided
<1>2. \A v : As(id, what, v) => Quiet(id, what, v)
  BY <1>1 DEF As, Quiet
<1>3. Held(id, what) => Settled(id, what)
  BY <1>1 DEF Held, As, Settled, Inconclusive
<1> QED
  BY <1>2, <1>3

\* A CRL that was read is never inconclusive in this sense.
LEMMA UndecidedStatus ==
  ASSUME AnalysisInv, Undecided, NEW id, NEW what,
         Does(Table[kind], id, what, {"crl_status"}, <<"Pass", "Pass">>,
              CrlAnswers \ {<<"Pass", "Pass">>})
  PROVE  results[<<id, what>>][1] = "Pass" /\ results[<<id, what>>][2] = "Pass"
<1>1. PICK i \in DOMAIN Table[kind] : /\ Table[kind][i].name = <<id, what>>
                                      /\ Table[kind][i].op \in {"crl_status"}
  BY DEF Does
<1>2. Place[kind][<<id, what>>] = i
  BY <1>1, NominalOfStep DEF AnalysisInv
<1>3. <<id, what>> \notin DOMAIN odd
  BY <1>1, <1>2 DEF Undecided, Modes
<1> QED
  BY <1>3, StatusResult DEF Cleared

LEMMA AtomicUndecided ==
  ASSUME AnalysisInv, Undecided, kind \in {"atomic", "cross_signed"},
         NEW p \in {"EndEntity", "Intermediate"}
  PROVE  /\ results[<<"path", "valid_path">>] # "Reject"
         /\ ~ItemFails(AtomicItems(results, p)[1]) /\ ~ItemFails(AtomicItems(results, p)[2])
<1> DEFINE g == results
           e == AtomicItems(g, p)
<1>1. /\ Quiet("path", "valid_path", "Accept") /\ Quiet(p, "valid_signature", "Accept")
      /\ Settled(p, "validity") /\ Quiet(p, "crl", "Accept")
      /\ Quiet(p, "invalid_classical_path", "Reject")
      /\ Quiet(p, "invalid_post_quantum_path", "Reject")
  BY AtomicKnown, UndecidedResults DEF AtomicResults, Ran
<1>2. LET refuted == \/ g[<<p, "valid_signature">>] = "Reject"
                     \/ g[<<"path", "valid_path">>] = "Reject"
                     \/ g[<<p, "validity">>] \in {"Fail", "NotApplicable"}
                     \/ g[<<p, "crl">>] = "Reject"
      IN  /\ ItemFails(e[1]) => refuted \/ g[<<p, "invalid_classical_path">>] = "Accept"
          /\ ItemFails(e[2]) => refuted \/ g[<<p, "invalid_post_quantum_path">>] = "Accept"
  BY AtomicKnown, AtomicMeans
<1> HIDE DEF e
<1> QED
  BY <1>1, <1>2 DEF Quiet, Settled, Inconclusive, e

LEMMA RouteUndecided ==
  ASSUME AnalysisInv, Undecided, kind = "cross_signed"
  PROVE  /\ ~ItemFails(RouteItem(results, AtomicItems(results, "EndEntity")[1]))
         /\ ~ItemFails(RouteItem(results, AtomicItems(results, "EndEntity")[2]))
         /\ ~ItemFails(RouteIntermediateItem(results))
<1> DEFINE g == results
           i == RouteItem(g, AtomicItems(g, "EndEntity")[1])
           q == RouteItem(g, AtomicItems(g, "EndEntity")[2])
           j == RouteIntermediateItem(g)
           p == "EndEntity"
<1>1. /\ Quiet(p, "valid_signature", "Accept") /\ Settled(p, "validity")
      /\ Quiet(p, "invalid_classical_path", "Reject")
      /\ Quiet(p, "invalid_post_quantum_path", "Reject")
  BY AtomicKnown, UndecidedResults DEF AtomicResults, Ran
<1>2. /\ Quiet("control", "ica_crl", "Accept") /\ Quiet("control", "root_crl", "Accept")
      /\ Quiet("control", "intermediate_signature", "Accept")
      /\ Quiet("control", "invalid_intermediate_path", "Reject")
      /\ Settled("route", "intermediate_validity")
  BY RouteKnown, UndecidedResults DEF Ran
<1>3. LET refuted == \/ g[<<p, "valid_signature">>] = "Reject"
                     \/ g[<<p, "validity">>] \in {"Fail", "NotApplicable"}
                     \/ g[<<"control", "ica_crl">>] = "Reject"
      IN  /\ ItemFails(i) => refuted \/ g[<<p, "invalid_classical_path">>] = "Accept"
          /\ ItemFails(q) => refuted \/ g[<<p, "invalid_post_quantum_path">>] = "Accept"
  BY AtomicKnown, RouteKnown, RouteMeans
<1>4. ItemFails(j) =>
        \/ g[<<"control", "intermediate_signature">>] = "Reject"
        \/ g[<<"route", "intermediate_validity">>] \in {"Fail", "NotApplicable"}
        \/ g[<<"control", "root_crl">>] = "Reject"
        \/ g[<<"control", "invalid_intermediate_path">>] = "Accept"
  BY AtomicKnown, RouteKnown, RouteMeans
<1> HIDE DEF i, q, j
<1> QED
  BY <1>1, <1>2, <1>3, <1>4 DEF Quiet, Settled, Inconclusive, i, q, j

LEMMA CatalystUndecided ==
  ASSUME AnalysisInv, Undecided, kind = "catalyst", NEW p \in {"EndEntity", "Intermediate"}
  PROVE  /\ results[<<"path", "valid_path">>] # "Reject"
         /\ ~ItemFails(CatalystItems(results, p)[1])
<1> DEFINE g == results
           c == CatalystItems(g, p)[1]
<1>1. Table[kind] = catalyst_steps
  BY TablesAreDistinct DEF AnalysisInv, StepsOf
<1>2. g[<<p, "crl_status">>][1] = "Pass" /\ g[<<p, "crl_status">>][2] = "Pass"
  BY <1>1, CatalystTable, UndecidedStatus DEF CatalystAt
<1>3. /\ Quiet("path", "valid_path", "Accept") /\ Settled(p, "validity")
      /\ Quiet(p, "invalid_classical_path", "Reject")
  BY CatalystKnown, UndecidedResults DEF CatalystResults, Ran
<1>4. ItemFails(c) =>
        \/ g[<<p, "crl_status">>][1] \in {"Fail", "NotApplicable"}
        \/ g[<<"path", "valid_path">>] = "Reject"
        \/ g[<<p, "validity">>] \in {"Fail", "NotApplicable"}
        \/ g[<<p, "crl_status">>][2] \in {"Fail", "NotApplicable"}
        \/ g[<<p, "invalid_classical_path">>] = "Accept"
  BY CatalystKnown, CatalystMeans
<1> HIDE DEF c
<1> QED
  BY <1>2, <1>3, <1>4 DEF Quiet, Settled, Inconclusive, c

LEMMA RelatedUndecided ==
  ASSUME AnalysisInv, Undecided, kind = "related", NEW p \in {"EndEntity", "Intermediate"}
  PROVE  /\ results[<<"path", "classical_path">>] # "Reject"
         /\ ~ItemFails(RelatedItems(results, p)[1])
<1> DEFINE g == results
           c == RelatedItems(g, p)[1]
<1>1. /\ Quiet("path", "classical_path", "Accept") /\ Quiet(p, "classical_signature", "Accept")
      /\ Settled(p, "classical_validity") /\ Quiet(p, "classical_crl", "Accept")
      /\ Quiet(p, "invalid_classical_path", "Reject")
  BY RelatedKnown, UndecidedResults DEF RelatedResults, Ran
<1>2. ItemFails(c) =>
        \/ g[<<p, "classical_signature">>] = "Reject"
        \/ g[<<"path", "classical_path">>] = "Reject"
        \/ g[<<p, "classical_validity">>] \in {"Fail", "NotApplicable"}
        \/ g[<<p, "classical_crl">>] = "Reject"
        \/ g[<<p, "invalid_classical_path">>] = "Accept"
  BY RelatedKnown, RelatedMeans
<1> HIDE DEF c
<1> QED
  BY <1>1, <1>2 DEF Quiet, Settled, Inconclusive, c

LEMMA BouncyCastleUndecided ==
  ASSUME AnalysisInv, Undecided, kind = "catalyst_bouncy_castle"
  PROVE  /\ results[<<"leaf", "valid_default">>] # "Reject"
         /\ ~ItemFails(BouncyCastleLeafItems(results)[1])
         /\ ~ItemFails(BouncyCastleIssuerItems(results)[1])
<1> DEFINE g == results
           c == BouncyCastleLeafItems(g)[1]
           d == BouncyCastleIssuerItems(g)[1]
<1>1. Table[kind] = catalyst_bouncy_castle_steps
  BY TablesAreDistinct DEF AnalysisInv, StepsOf
<1>2. /\ g[<<"leaf", "crl_status">>][2] = "Pass"
      /\ g[<<"issuer", "crl_status">>][1] = "Pass" /\ g[<<"issuer", "crl_status">>][2] = "Pass"
  BY <1>1, CatalystBouncyCastleTable, UndecidedStatus DEF CatalystBouncyCastleSteps
<1>3. /\ Quiet("leaf", "valid_default", "Accept")
      /\ Settled("leaf", "validity") /\ Settled("issuer", "validity")
  BY BouncyCastleKnown, UndecidedResults DEF BouncyCastleResults, Ran
<1>4. ItemFails(c) <=>
        \/ g[<<"leaf", "valid_default">>] = "Reject"
        \/ g[<<"leaf", "validity">>] \in {"Fail", "NotApplicable"}
        \/ g[<<"leaf", "crl_status">>][2] \in {"Fail", "NotApplicable"}
  BY BouncyCastleKnown, BouncyCastleLeafMeans
<1>5. ItemFails(d) <=>
        \/ g[<<"issuer", "crl_status">>][1] \in {"Fail", "NotApplicable"}
        \/ g[<<"leaf", "valid_default">>] = "Reject"
        \/ g[<<"issuer", "validity">>] \in {"Fail", "NotApplicable"}
        \/ g[<<"issuer", "crl_status">>][2] \in {"Fail", "NotApplicable"}
  BY BouncyCastleKnown, BouncyCastleIssuerMeans
<1> HIDE DEF c, d
<1> QED
  BY <1>2, <1>3, <1>4, <1>5 DEF Quiet, Settled, Inconclusive, c, d

LEMMA OpenSslUndecided ==
  ASSUME AnalysisInv, Undecided, kind = "related_openssl"
  PROVE  /\ results[<<"leaf", "classical">>] # "Reject"
         /\ ~ItemFails(related_openssl_evidence(results, OpenSslNode(results))[1])
<1> DEFINE g == results
           c == related_openssl_evidence(g, OpenSslNode(g))[1]
<1>1. Table[kind] = related_openssl_steps
  BY TablesAreDistinct DEF AnalysisInv, StepsOf
<1>2. g[<<"leaf", "classical_crl">>][2] = "Pass"
  BY <1>1, RelatedOpenSslTable, UndecidedStatus DEF RelatedOpenSslSteps
<1>3. Quiet("leaf", "classical", "Accept")
  BY OpenSslKnown, UndecidedResults DEF OpenSslResults, Ran
<1>4. ItemFails(c) <=>
        \/ g[<<"leaf", "classical">>] = "Reject"
        \/ g[<<"leaf", "classical_crl">>][2] \in {"Fail", "NotApplicable"}
  BY OpenSslKnown, OpenSslMeans
<1> HIDE DEF c
<1> QED
  BY <1>2, <1>3, <1>4 DEF Quiet, Inconclusive, c

LEMMA UndecidedNeverRejects == AnalysisInv => InconclusiveNeverRejects
<1> SUFFICES ASSUME AnalysisInv, Answered, kind \notin FailingHandshakes, Undecided,
                    NEW i \in DOMAIN answers, NEW scope \in scopes(kind),
                    Verdict(i, scope) = "Reject", ~NominallyRejected(i, scope)
             PROVE  FALSE
  BY DEF InconclusiveNeverRejects, Undecided
<1>1. /\ i \in DOMAIN submissions(kind, results) /\ kind \in AllKinds /\ policy \in policies(kind)
      /\ policy \in Policy /\ scope \in PathScope
  BY AnsweredAt
<1>2. kind \notin {"pure", "chameleon"}
  BY DEF NominallyRejected
<1>3. policy = "P2RequiredHybrid" => /\ kind \notin FallbackKinds
                                     /\ ~(i = 3 /\ scope = "CertificationPath")
  BY DEF NominallyRejected
<1>4. kind \notin TlsKinds
  BY <1>1, <1>3 DEF policies, TlsKinds, FailingHandshakes, FallbackKinds
<1>5. kind # "cross_signed" => i = 1
  BY <1>1, <1>4 DEF submissions, AllKinds, PathScopeKinds
<1>6. CASE kind \in {"atomic", "cross_signed"} /\ i = 1
  BY <1>6, AtomicAnswer, AtomicUndecided DEF Judged
<1>7. CASE kind = "cross_signed" /\ i = 2
  BY <1>7, AtomicRouteAnswer, AtomicUndecided DEF Judged
<1>8. CASE kind = "cross_signed" /\ i = 3
  BY <1>1, <1>3, <1>8, ClassicalRouteAnswer, RouteUndecided DEF Judged
<1>9. CASE kind = "catalyst"
  BY <1>3, <1>5, <1>9, CatalystAnswer, CatalystUndecided DEF Judged, FallbackKinds
<1>10. CASE kind = "related"
  BY <1>3, <1>5, <1>10, RelatedAnswer, RelatedUndecided DEF Judged, FallbackKinds
<1>11. CASE kind = "catalyst_bouncy_castle"
  BY <1>3, <1>5, <1>11, BouncyCastleAnswer, BouncyCastleUndecided DEF Judged, FallbackKinds
<1>12. CASE kind = "related_openssl"
  BY <1>3, <1>5, <1>12, OpenSslAnswer, OpenSslUndecided DEF Judged, FallbackKinds
<1>13. kind = "cross_signed" => i \in {1, 2, 3}
  BY <1>1, AllFormed
<1> QED
  BY <1>1, <1>2, <1>4, <1>5, <1>6, <1>7, <1>8, <1>9, <1>10, <1>11, <1>12, <1>13
     DEF AllKinds, PathScopeKinds

\* Adapter runs that come to no conclusion, however many, never turn an
\* analysis into a rejection.
THEOREM UndecidedIsNoRejection == AnalysisSpec => []InconclusiveNeverRejects
BY AnalysisInvariant, UndecidedNeverRejects, PTL

-----------------------------------------------------------------------------
(* The handshakes *)

\* The certification path of a handshake.
LEMMA HandshakePath ==
  ASSUME NEW g, NEW signature, NEW design
  PROVE  LET path == end_entity_certification_path(g, signature, design) IN
         /\ path = <<CredentialNode(g, signature, design), CredentialIssuer(g)>>
         /\ path[1] = CredentialNode(g, signature, design)
BY DEF end_entity_certification_path, CredentialNode, CredentialIssuer

LEMMA HandshakeItems ==
  ASSUME NEW g, Identified(g), NEW signature, NEW design, NEW c, NEW q,
         NEW artifact, NEW other, NEW operation, NEW method, NEW x, NEW y,
         design \in {"AtomicComposite", "Catalyst", "Chameleon", "RelatedCertificate"},
         signature = IF design = "AtomicComposite" THEN "Hybrid" ELSE "Classical",
         c = LeafItem(g, CredentialNode(g, signature, design), "Classical", artifact, operation,
                      x, method),
         q = LeafItem(g, CredentialNode(g, signature, design), "PostQuantum", other, operation,
                      y, method)
  PROVE  Credential(CredentialNode(g, signature, design), CredentialIssuer(g), design, <<c, q>>)
<1> DEFINE n == CredentialNode(g, signature, design)
           e == <<c, q>>
<1>1. c.certificate_id = n.id /\ c.position = n.position /\ c.kind = "Classical"
  BY LeafItemFields
<1>2. q.certificate_id = n.id /\ q.position = n.position /\ q.kind = "PostQuantum"
  BY LeafItemFields
<1>3. e = <<e[1], e[2]>> /\ e[1] = c /\ e[2] = q
  OBVIOUS
<1> HIDE DEF e
<1>4. ItemsOf(n, e)
  BY <1>1, <1>2, <1>3 DEF ItemsOf
<1>5. Credential(n, CredentialIssuer(g), design, e)
  BY <1>3, <1>4, CredentialsAre
<1> QED
  BY <1>5 DEF e

\* Checks that cannot fail and checks that a handshake's verdict decides.
LEMMA HandshakeStates ==
  /\ ~Fails(component_signature, FALSE) /\ ~Fails(not_checked, FALSE)
  /\ Passes(not_applicable, TRUE) /\ ~Fails(not_applicable, TRUE)
  /\ \A v : /\ Passes(AcceptedOnly(v), FALSE) <=> v = "Accept"
            /\ Fails(AcceptedOnly(v), FALSE) <=> v # "Accept"
<1>1. ~Fails(component_signature, FALSE)
  BY DEF Fails, required_check_state, component_signature
<1>2. /\ ~Fails(not_checked, FALSE) /\ Passes(not_applicable, TRUE) /\ ~Fails(not_applicable, TRUE)
  BY CheckStates DEF not_checked, not_applicable
<1>3. ASSUME NEW v PROVE /\ Passes(AcceptedOnly(v), FALSE) <=> v = "Accept"
                         /\ Fails(AcceptedOnly(v), FALSE) <=> v # "Accept"
  BY CheckStates DEF AcceptedOnly
<1> QED
  BY <1>1, <1>2, <1>3

AtomicTlsChecks(g, control) ==
  Checks(component_signature, not_applicable, AcceptedOnly(g[<<"tls", "valid">>]),
         observed(g[<<"leaf", "validity">>]), not_checked,
         rejects_control(g, <<"tls", "valid">>, <<"tls", control>>))
AtomicTlsItem(g, knd, control) ==
  LeafItem(g, CredentialNode(g, "Hybrid", "AtomicComposite"), knd, g[<<"evidence", "digest">>],
           None, AtomicTlsChecks(g, control), "None")

LEMMA AtomicTlsForm ==
  ASSUME NEW g
  PROVE  atomic_tls_submission(g) =
           Submission(Presented(g[<<"tls", "valid">>], "WebPkiServer", g[<<"path", "selected">>]),
                      g[<<"anchor", "digest">>],
                      <<CredentialNode(g, "Hybrid", "AtomicComposite"), CredentialIssuer(g)>>, <<>>,
                      <<AtomicTlsItem(g, "Classical", "invalid_classical"),
                        AtomicTlsItem(g, "PostQuantum", "invalid_post_quantum")>>)
<1> DEFINE path == end_entity_certification_path(g, "Hybrid", "AtomicComposite")
           n == CredentialNode(g, "Hybrid", "AtomicComposite")
<1>1. path = <<n, CredentialIssuer(g)>> /\ path[1] = n
  BY HandshakePath
<1> HIDE DEF path, n
<1> QED
  BY <1>1 DEF atomic_tls_submission, EndEntitySubmission, AtomicTlsItem, AtomicTlsChecks, path, n

\* A component of the handshake fails only with the handshake or its date.
LEMMA AtomicTlsMeans ==
  ASSUME NEW g, Identified(g), NEW knd, NEW control
  PROVE  ItemFails(AtomicTlsItem(g, knd, control)) <=>
           \/ g[<<"tls", "valid">>] # "Accept"
           \/ g[<<"leaf", "validity">>] \in {"Fail", "NotApplicable"}
<1> DEFINE n == CredentialNode(g, "Hybrid", "AtomicComposite")
           item == AtomicTlsItem(g, knd, control)
           path == AcceptedOnly(g[<<"tls", "valid">>])
           validity == observed(g[<<"leaf", "validity">>])
           sensitive == rejects_control(g, <<"tls", "valid">>, <<"tls", control>>)
<1>1. n.der_sha256 # None /\ n.issuer_edge_sha256 # None /\ g[<<"evidence", "digest">>] # None
  BY CredentialNodeFields DEF Identified
<1>2. item = LeafItem(g, n, knd, g[<<"evidence", "digest">>], None,
                      Checks(component_signature, not_applicable, path, validity, not_checked,
                             sensitive), "None")
  BY DEF AtomicTlsItem, AtomicTlsChecks
<1>3. /\ Fails(path, FALSE) <=> g[<<"tls", "valid">>] # "Accept"
      /\ Fails(validity, FALSE) <=> g[<<"leaf", "validity">>] \in {"Fail", "NotApplicable"}
      /\ ~Fails(sensitive, FALSE)
  BY HandshakeStates, CheckStates, ControlStates
<1> HIDE DEF n, item, path, validity, sensitive
<1>4. ItemFails(item) <=>
        Broken(component_signature, not_applicable, path, validity, not_checked, sensitive)
  BY <1>1, <1>2, LeafItemMeans
<1> QED
  BY <1>3, <1>4, HandshakeStates DEF Broken, item

LEMMA AtomicTlsAnswer ==
  ASSUME AnalysisInv, Answered, kind = "atomic_tls", NEW scope \in scopes(kind),
         1 \in DOMAIN answers, DOMAIN odd = {}
  PROVE  LET a == Aggregates(RequestAt(1, scope)) IN
         /\ Judged(1, scope, "Accept", a)
         /\ a.design = "Pass" /\ a.classical # "Fail" /\ a.pq # "Fail"
<1> DEFINE g == results
           n == CredentialNode(g, "Hybrid", "AtomicComposite")
           m == CredentialIssuer(g)
           c == AtomicTlsItem(g, "Classical", "invalid_classical")
           q == AtomicTlsItem(g, "PostQuantum", "invalid_post_quantum")
           e == <<c, q>>
           v == g[<<"tls", "valid">>]
           a == Aggregates(RequestAt(1, scope))
<1>1. submissions(kind, g)[1]
        = Submission(Presented(v, "WebPkiServer", g[<<"path", "selected">>]),
                     g[<<"anchor", "digest">>], <<n, m>>, <<>>, e)
  BY AtomicTlsForm DEF submissions
<1>2. Table[kind] = atomic_tls_steps
  BY TablesAreDistinct DEF AnalysisInv, StepsOf
<1>3. AtomicTlsSteps(Table[kind])
  BY <1>2, AtomicTlsTable
<1>4. {"Accept", "Reject"} \subseteq StackVerdict
  BY DEF StackVerdict
<1>5. /\ Ran("tls", "valid", "Accept") /\ Held("leaf", "validity") /\ Identified(g)
  BY <1>3, <1>4, ResultsAre DEF AtomicTlsSteps, Identified
<1>6. v = "Accept" /\ g[<<"leaf", "validity">>] = "Pass"
  BY <1>5 DEF Ran, Held, As
<1>7. Credential(n, m, "AtomicComposite", e)
  BY <1>5, HandshakeItems DEF AtomicTlsItem
<1>8. ~ItemFails(c) /\ ~ItemFails(q)
  BY <1>5, <1>6, AtomicTlsMeans
<1> HIDE DEF n, m, c, q, e, v, a
<1>0. kind \in TlsKinds \cup {"related_openssl"} /\ v \in StackVerdict
  BY <1>4, <1>6 DEF TlsKinds
<1>9. /\ Judged(1, scope, v, a) /\ a.design = "Pass"
      /\ a.classical = "Fail" <=> ItemFails(e[1])
      /\ a.pq = "Fail" <=> ItemFails(e[2])
  BY <1>0, <1>1, <1>7, CredentialAnswer DEF a
<1>10. e[1] = c /\ e[2] = q
  BY DEF e
<1> QED
  BY <1>6, <1>8, <1>9, <1>10 DEF a

CatalystTlsItems(g) ==
  LET n == CredentialNode(g, "Classical", "Catalyst")
      run == <<"tls", "valid">>
      classical   == check_from_verdict(g[run])
      alternative == check_from_verdict(g[<<"leaf", "valid_post_quantum">>])
      validity    == observed(g[<<"leaf", "validity">>])
      revocation  == observed(g[<<"leaf", "crl_status">>][2])
  IN  <<LeafItem(g, n, "Classical", g[<<"evidence", "digest">>], None,
          Checks(classical, not_applicable, classical, validity, revocation,
                 rejects_control(g, run, <<"tls", "invalid_classical">>)), "Crl"),
        LeafItem(g, n, "PostQuantum", g[<<"evidence", "digest">>], None,
          Checks(alternative, alternative, classical, validity, revocation,
                 catalyst_post_quantum_outcome(g, run, <<"tls", "invalid_post_quantum">>)),
          "Crl")>>

LEMMA CatalystTlsForm ==
  ASSUME NEW g
  PROVE  LET n == CredentialNode(g, "Classical", "Catalyst") IN
         catalyst_tls_submission(g) =
           Submission(Presented(g[<<"tls", "valid">>], "WebPkiServer", g[<<"path", "selected">>]),
                      g[<<"anchor", "digest">>], <<n, CredentialIssuer(g)>>, <<>>,
                      CatalystTlsItems(g))
<1> DEFINE path == end_entity_certification_path(g, "Classical", "Catalyst")
           n == CredentialNode(g, "Classical", "Catalyst")
<1>1. path = <<n, CredentialIssuer(g)>> /\ path[1] = n
  BY HandshakePath
<1> HIDE DEF path, n
<1> QED
  BY <1>1 DEF catalyst_tls_submission, EndEntitySubmission, CatalystTlsItems, path, n

LEMMA CatalystTlsMeans ==
  ASSUME NEW g, Identified(g),
         g[<<"tls", "valid">>] = "Accept", g[<<"tls", "invalid_classical">>] = "Reject",
         g[<<"tls", "invalid_post_quantum">>] = "Accept",
         g[<<"leaf", "valid_post_quantum">>] = "Accept",
         g[<<"leaf", "invalid_post_quantum">>] = "Reject",
         g[<<"leaf", "validity">>] = "Pass", g[<<"leaf", "crl_status">>][2] = "Pass"
  PROVE  LET n == CredentialNode(g, "Classical", "Catalyst")
             e == CatalystTlsItems(g)
         IN  /\ Credential(n, CredentialIssuer(g), "Catalyst", e)
             /\ ItemPasses(n, e[1]) /\ ItemFails(e[2]) /\ ~Outdated(e[2])
<1> DEFINE n == CredentialNode(g, "Classical", "Catalyst")
           e == CatalystTlsItems(g)
           run == <<"tls", "valid">>
           classical == check_from_verdict(g[run])
           alternative == check_from_verdict(g[<<"leaf", "valid_post_quantum">>])
           validity == observed(g[<<"leaf", "validity">>])
           revocation == observed(g[<<"leaf", "crl_status">>][2])
           sensitive == rejects_control(g, run, <<"tls", "invalid_classical">>)
           pq == catalyst_post_quantum_outcome(g, run, <<"tls", "invalid_post_quantum">>)
           artifact == g[<<"evidence", "digest">>]
           c == LeafItem(g, n, "Classical", artifact, None,
                         Checks(classical, not_applicable, classical, validity, revocation,
                                sensitive), "Crl")
           q == LeafItem(g, n, "PostQuantum", artifact, None,
                         Checks(alternative, alternative, classical, validity, revocation, pq),
                         "Crl")
<1>1. n.der_sha256 # None /\ n.issuer_edge_sha256 # None /\ artifact # None
  BY CredentialNodeFields DEF Identified
<1>2. e = <<c, q>>
  BY Zenon DEF CatalystTlsItems
<1>3. Credential(n, CredentialIssuer(g), "Catalyst", <<c, q>>)
  BY HandshakeItems
<1>4. Passes(classical, FALSE)
  BY VerdictStates
<1>5. Passes(validity, FALSE) /\ Passes(revocation, FALSE) /\ Passes(not_applicable, TRUE)
  BY CheckStates, HandshakeStates
<1>6. Passes(sensitive, FALSE)
  BY ControlStates
<1>7. Fails(pq, FALSE)
  BY CheckStates DEF catalyst_post_quantum_outcome
<1>8. validity.state = "Pass" /\ revocation.state = "Pass"
  BY StatesOf
<1> HIDE DEF n, e, classical, alternative, validity, revocation, sensitive, pq, artifact
<1>9. ItemPasses(n, c) <=>
        Sound(classical, not_applicable, classical, validity, revocation, sensitive)
  BY <1>1, LeafItemMeans
<1>10. /\ ItemFails(q) <=> Broken(alternative, alternative, classical, validity, revocation, pq)
       /\ Outdated(q) <=> "Fail" \in {validity.state, revocation.state}
  BY <1>1, LeafItemMeans
<1> HIDE DEF c, q
<1>11. ItemPasses(n, c) /\ ItemFails(q) /\ ~Outdated(q)
  BY <1>4, <1>5, <1>6, <1>7, <1>8, <1>9, <1>10 DEF Sound, Broken
<1> QED
  BY <1>2, <1>3, <1>11 DEF n, e

LEMMA CatalystTlsAnswer ==
  ASSUME AnalysisInv, Answered, kind = "catalyst_tls", NEW scope \in scopes(kind),
         1 \in DOMAIN answers, DOMAIN odd = {}
  PROVE  LET r == RequestAt(1, scope)
             a == Aggregates(r)
         IN  /\ Judged(1, scope, "Accept", a) /\ a.has_classical
             /\ a.classical = "Pass" /\ a.pq = "Fail"
             /\ \A item \in OfKind(r, "PostQuantum") : ~Outdated(item)
<1> DEFINE g == results
           n == CredentialNode(g, "Classical", "Catalyst")
           m == CredentialIssuer(g)
           e == CatalystTlsItems(g)
           v == g[<<"tls", "valid">>]
           r == RequestAt(1, scope)
           a == Aggregates(r)
           pairs == <<>>
<1>1. submissions(kind, g)[1]
        = Submission(Presented(v, "WebPkiServer", g[<<"path", "selected">>]),
                     g[<<"anchor", "digest">>], <<n, m>>, pairs, e)
  BY CatalystTlsForm DEF submissions
<1>2. Table[kind] = catalyst_tls_steps
  BY TablesAreDistinct DEF AnalysisInv, StepsOf
<1>3. CatalystTlsSteps(Table[kind])
  BY <1>2, CatalystTlsTable
<1>4. {"Accept", "Reject"} \subseteq StackVerdict
  BY DEF StackVerdict
<1>5. /\ Ran("tls", "valid", "Accept") /\ Ran("tls", "invalid_classical", "Reject")
      /\ Ran("tls", "invalid_post_quantum", "Accept")
      /\ Ran("leaf", "valid_post_quantum", "Accept")
      /\ Ran("leaf", "invalid_post_quantum", "Reject") /\ Held("leaf", "validity")
      /\ Cleared("leaf", "crl_status") /\ Identified(g)
  BY <1>3, <1>4, ResultsAre, StatusResult DEF CatalystTlsSteps, Identified
<1>6. /\ v = "Accept" /\ g[<<"tls", "invalid_classical">>] = "Reject"
      /\ g[<<"tls", "invalid_post_quantum">>] = "Accept"
      /\ g[<<"leaf", "valid_post_quantum">>] = "Accept"
      /\ g[<<"leaf", "invalid_post_quantum">>] = "Reject"
      /\ g[<<"leaf", "validity">>] = "Pass" /\ g[<<"leaf", "crl_status">>][2] = "Pass"
  BY <1>5 DEF Ran, Held, As, Cleared
<1>7. /\ Credential(n, m, "Catalyst", e)
      /\ ItemPasses(n, e[1]) /\ ItemFails(e[2]) /\ ~Outdated(e[2])
  BY <1>5, <1>6, CatalystTlsMeans
<1>8. kind \in TlsKinds \cup {"related_openssl"} /\ v \in StackVerdict
  BY <1>4, <1>6 DEF TlsKinds
<1> HIDE DEF n, m, e, v, r, pairs
<1>10. /\ Judged(1, scope, v, a) /\ a.has_classical
       /\ a.design = "Pass"
       /\ a.classical = "Pass" <=> ItemPasses(n, e[1])
       /\ a.classical = "Fail" <=> ItemFails(e[1])
       /\ a.pq = "Fail" <=> ItemFails(e[2])
       /\ \A item \in OfKind(r, "PostQuantum") : item = e[2]
       /\ e[2] \in OfKind(r, "PostQuantum")
  BY <1>1, <1>7, <1>8, CredentialAnswer DEF r
<1> QED
  BY <1>6, <1>7, <1>10 DEF r

ChameleonTlsItems(g) ==
  LET n == CredentialNode(g, "Classical", "Chameleon")
      run   == <<"tls", "valid_base">>
      delta == check_from_verdict(g[<<"leaf", "valid_delta">>])
      post_quantum_outcome == rejects_control(g, run, <<"tls", "invalid_base">>)
      classical_outcome ==
        behavioral_check(/\ g[run] = "Accept" /\ g[<<"tls", "invalid_delta">>] = "Accept"
                         /\ g[<<"leaf", "valid_delta">>] = "Accept"
                         /\ g[<<"leaf", "invalid_delta">>] = "Reject", "Fail")
  IN  <<LeafItem(g, n, "Classical", g[<<"evidence", "digest">>], None,
          Checks(delta, delta, AcceptedOnly(g[<<"tls", "separate_delta">>]),
                 observed(g[<<"leaf", "delta_validity">>]), not_checked, classical_outcome),
          "None"),
        LeafItem(g, n, "PostQuantum", g[<<"evidence", "digest">>], None,
          Checks(post_quantum_outcome, not_applicable, AcceptedOnly(g[run]),
                 observed(g[<<"leaf", "base_validity">>]), not_checked, post_quantum_outcome),
          "None")>>

LEMMA ChameleonTlsForm ==
  ASSUME NEW g
  PROVE  LET n == CredentialNode(g, "Classical", "Chameleon") IN
         chameleon_tls_submission(g) =
           Submission(Presented(g[<<"tls", "valid_base">>], "WebPkiServer",
             g[<<"path", "selected">>]),
                      g[<<"anchor", "digest">>], <<n, CredentialIssuer(g)>>, <<>>,
                      ChameleonTlsItems(g))
<1> DEFINE path == end_entity_certification_path(g, "Classical", "Chameleon")
           n == CredentialNode(g, "Classical", "Chameleon")
<1>1. path = <<n, CredentialIssuer(g)>> /\ path[1] = n
  BY HandshakePath
<1> HIDE DEF path, n
<1> QED
  BY <1>1 DEF chameleon_tls_submission, EndEntitySubmission, ChameleonTlsItems, path, n

LEMMA ChameleonTlsMeans ==
  ASSUME NEW g, Identified(g),
         g[<<"tls", "valid_base">>] = "Accept", g[<<"tls", "invalid_delta">>] = "Accept",
         g[<<"leaf", "valid_delta">>] = "Accept", g[<<"leaf", "invalid_delta">>] = "Reject"
  PROVE  LET n == CredentialNode(g, "Classical", "Chameleon")
             e == ChameleonTlsItems(g)
         IN  Credential(n, CredentialIssuer(g), "Chameleon", e) /\ ItemFails(e[1])
<1> DEFINE n == CredentialNode(g, "Classical", "Chameleon")
           e == ChameleonTlsItems(g)
           run == <<"tls", "valid_base">>
           delta == check_from_verdict(g[<<"leaf", "valid_delta">>])
           classical == behavioral_check(/\ g[run] = "Accept"
                                         /\ g[<<"tls", "invalid_delta">>] = "Accept"
                                         /\ g[<<"leaf", "valid_delta">>] = "Accept"
                                         /\ g[<<"leaf", "invalid_delta">>] = "Reject", "Fail")
           pq == rejects_control(g, run, <<"tls", "invalid_base">>)
           path == AcceptedOnly(g[<<"tls", "separate_delta">>])
           base_path == AcceptedOnly(g[run])
           validity == observed(g[<<"leaf", "delta_validity">>])
           base_validity == observed(g[<<"leaf", "base_validity">>])
           artifact == g[<<"evidence", "digest">>]
           c == LeafItem(g, n, "Classical", artifact, None,
                         Checks(delta, delta, path, validity, not_checked, classical), "None")
           q == LeafItem(g, n, "PostQuantum", artifact, None,
                         Checks(pq, not_applicable, base_path, base_validity, not_checked, pq),
                         "None")
<1>1. n.der_sha256 # None /\ n.issuer_edge_sha256 # None /\ artifact # None
  BY CredentialNodeFields DEF Identified
<1>2. e = <<c, q>>
  BY Zenon DEF ChameleonTlsItems
<1>4. Fails(classical, FALSE)
  BY CheckStates
<1> HIDE DEF n, e, delta, classical, pq, path, base_path, validity, base_validity, artifact
<1>3. Credential(n, CredentialIssuer(g), "Chameleon", <<c, q>>)
  BY HandshakeItems DEF n
<1>5. ItemFails(c) <=> Broken(delta, delta, path, validity, not_checked, classical)
  BY <1>1, LeafItemMeans
<1> HIDE DEF c, q
<1>6. ItemFails(c)
  BY <1>4, <1>5 DEF Broken
<1> QED
  BY <1>2, <1>3, <1>6 DEF n, e

LEMMA ChameleonTlsAnswer ==
  ASSUME AnalysisInv, Answered, kind = "chameleon_tls", NEW scope \in scopes(kind),
         1 \in DOMAIN answers, DOMAIN odd = {}
  PROVE  LET r == RequestAt(1, scope)
             a == Aggregates(r)
         IN  /\ Judged(1, scope, "Accept", a) /\ a.classical = "Fail"
<1> DEFINE g == results
           n == CredentialNode(g, "Classical", "Chameleon")
           m == CredentialIssuer(g)
           e == ChameleonTlsItems(g)
           v == g[<<"tls", "valid_base">>]
           r == RequestAt(1, scope)
           a == Aggregates(r)
           pairs == <<>>
<1>1. submissions(kind, g)[1]
        = Submission(Presented(v, "WebPkiServer", g[<<"path", "selected">>]),
                     g[<<"anchor", "digest">>], <<n, m>>, pairs, e)
  BY ChameleonTlsForm DEF submissions
<1>2. Table[kind] = chameleon_tls_steps
  BY TablesAreDistinct DEF AnalysisInv, StepsOf
<1>3. ChameleonTlsSteps(Table[kind])
  BY <1>2, ChameleonTlsTable
<1>4. {"Accept", "Reject"} \subseteq StackVerdict
  BY DEF StackVerdict
<1>5. /\ Ran("tls", "valid_base", "Accept") /\ Ran("tls", "invalid_delta", "Accept")
      /\ Ran("leaf", "valid_delta", "Accept") /\ Ran("leaf", "invalid_delta", "Reject")
      /\ Identified(g)
  BY <1>3, <1>4, ResultsAre DEF ChameleonTlsSteps, Identified
<1>6. /\ v = "Accept" /\ g[<<"tls", "invalid_delta">>] = "Accept"
      /\ g[<<"leaf", "valid_delta">>] = "Accept" /\ g[<<"leaf", "invalid_delta">>] = "Reject"
  BY <1>5 DEF Ran, Held, As, Cleared
<1>7. Credential(n, m, "Chameleon", e) /\ ItemFails(e[1])
  BY <1>5, <1>6, ChameleonTlsMeans
<1>8. kind \in TlsKinds \cup {"related_openssl"} /\ v \in StackVerdict
  BY <1>4, <1>6 DEF TlsKinds
<1> HIDE DEF n, m, e, v, r, pairs
<1>10. /\ Judged(1, scope, v, a) /\ a.has_classical
       /\ a.design = "Pass"
       /\ a.classical = "Pass" <=> ItemPasses(n, e[1])
       /\ a.classical = "Fail" <=> ItemFails(e[1])
       /\ a.pq = "Fail" <=> ItemFails(e[2])
       /\ \A item \in OfKind(r, "PostQuantum") : item = e[2]
       /\ e[2] \in OfKind(r, "PostQuantum")
  BY <1>1, <1>7, <1>8, CredentialAnswer DEF r
<1> QED
  BY <1>6, <1>7, <1>10 DEF r

LEMMA RevokedResult ==
  ASSUME AnalysisInv, NEW id, NEW what,
         Does(Table[kind], id, what, {"crl_status"}, <<"Pass", "Fail">>,
              CrlAnswers \ {<<"Pass", "Fail">>})
  PROVE  Revoked(id, what)
BY ResultOf DEF Revoked

LEMMA RelatedTlsForm ==
  ASSUME NEW g
  PROVE  LET n == CredentialNode(g, "Classical", "RelatedCertificate") IN
         related_tls_submission(g) =
           Submission(Presented(g[<<"tls", "classical">>], "WebPkiServer",
             g[<<"path", "selected">>]),
                      g[<<"anchor", "digest">>], <<n, CredentialIssuer(g)>>, unpaired(g, n),
                      related_tls_evidence(g, n))
<1> DEFINE path == end_entity_certification_path(g, "Classical", "RelatedCertificate")
           n == CredentialNode(g, "Classical", "RelatedCertificate")
<1>1. path = <<n, CredentialIssuer(g)>> /\ path[1] = n
  BY HandshakePath
<1> HIDE DEF path, n
<1> QED
  BY <1>1 DEF related_tls_submission, EndEntitySubmission, path, n

LEMMA RelatedTlsMeans ==
  ASSUME NEW g, Identified(g), g[<<"pair", "digest">>] # None,
         g[<<"tls", "classical">>] = "Accept", g[<<"tls", "invalid_classical">>] = "Reject",
         g[<<"leaf", "classical_validity">>] = "Pass", g[<<"leaf", "classical_crl">>][2] = "Pass",
         g[<<"leaf", "post_quantum_crl">>] = <<"Pass", "Fail">>
  PROVE  LET n == CredentialNode(g, "Classical", "RelatedCertificate")
             e == related_tls_evidence(g, n)
         IN  /\ Credential(n, CredentialIssuer(g), "RelatedCertificate", e)
             /\ ItemPasses(n, e[1]) /\ Outdated(e[2])
<1> DEFINE n == CredentialNode(g, "Classical", "RelatedCertificate")
           e == related_tls_evidence(g, n)
           run == <<"tls", "classical">>
           path == AcceptedOnly(g[run])
           validity == observed(g[<<"leaf", "classical_validity">>])
           crl == observed(g[<<"leaf", "classical_crl">>][2])
           sensitive == rejects_control(g, run, <<"tls", "invalid_classical">>)
           conformance == related_conformance_check(g[<<"pair", "conformance">>])
           other_validity == observed(g[<<"leaf", "post_quantum_validity">>])
           other_crl == observed(g[<<"leaf", "post_quantum_crl">>][2])
           c == e[1]
           q == e[2]
<1>1. n.der_sha256 # None /\ n.issuer_edge_sha256 # None /\ g[<<"evidence", "digest">>] # None
  BY CredentialNodeFields DEF Identified
<1> HIDE DEF n
<1>2. c = LeafItem(g, n, "Classical", g[<<"evidence", "digest">>], PairOperation,
                   Checks(path, not_applicable, path, validity, crl, sensitive), "Crl")
  BY DEF related_tls_evidence
<1>3. PICK outcome_of : q = LeafItem(g, n, "PostQuantum", g[<<"pair", "digest">>], PairOperation,
                                     Checks(not_applicable, conformance, not_applicable,
                                            other_validity, other_crl, outcome_of), "Crl")
  BY DEF related_tls_evidence
<1>4. e = <<c, q>>
  BY DEF related_tls_evidence
<1>5. Passes(path, FALSE) /\ Passes(not_applicable, TRUE)
  BY HandshakeStates
<1>6. Passes(validity, FALSE) /\ Passes(crl, FALSE)
  BY CheckStates
<1>7. Passes(sensitive, FALSE)
  BY ControlStates
<1>8. other_crl.state = "Fail"
  <2>1. g[<<"leaf", "post_quantum_crl">>][2] = "Fail"
    OBVIOUS
  <2> QED
    BY <2>1, StatesOf
<1> HIDE DEF e, path, validity, crl, sensitive, conformance, other_validity, other_crl
<1>9. ItemPasses(n, c) <=> Sound(path, not_applicable, path, validity, crl, sensitive)
  BY <1>1, <1>2, LeafItemMeans
<1>10. Outdated(q) <=> "Fail" \in {other_validity.state, other_crl.state}
  BY <1>1, <1>3, LeafItemMeans
<1> HIDE DEF c, q
<1>11. Credential(n, CredentialIssuer(g), "RelatedCertificate", <<c, q>>)
  BY <1>2, <1>3, HandshakeItems DEF n
<1>12. ItemPasses(n, c) /\ Outdated(q)
  BY <1>5, <1>6, <1>7, <1>8, <1>9, <1>10 DEF Sound
<1> QED
  BY <1>4, <1>11, <1>12 DEF n, e

LEMMA RelatedTlsAnswer ==
  ASSUME AnalysisInv, Answered, kind = "related_tls", NEW scope \in scopes(kind),
         1 \in DOMAIN answers, DOMAIN odd = {}
  PROVE  LET r == RequestAt(1, scope)
             a == Aggregates(r)
         IN  /\ Judged(1, scope, "Accept", a) /\ a.has_classical
             /\ a.classical = "Pass" /\ a.design = "Fail"
             /\ \E item \in OfKind(r, "PostQuantum") : Outdated(item)
             /\ related_tls_evidence(results, OpenSslNode(results))[2] \in OfKind(r, "PostQuantum")
<1> DEFINE g == results
           n == CredentialNode(g, "Classical", "RelatedCertificate")
           m == CredentialIssuer(g)
           e == related_tls_evidence(g, n)
           v == g[<<"tls", "classical">>]
           r == RequestAt(1, scope)
           a == Aggregates(r)
           pairs == unpaired(g, n)
<1>1. submissions(kind, g)[1]
        = Submission(Presented(v, "WebPkiServer", g[<<"path", "selected">>]),
                     g[<<"anchor", "digest">>], <<n, m>>, pairs, e)
  BY RelatedTlsForm DEF submissions
<1>2. Table[kind] = related_tls_steps
  BY TablesAreDistinct DEF AnalysisInv, StepsOf
<1>3. RelatedTlsSteps(Table[kind])
  BY <1>2, RelatedTlsTable
<1>4. {"Accept", "Reject"} \subseteq StackVerdict
  BY DEF StackVerdict
<1>5. /\ Ran("tls", "classical", "Accept") /\ Ran("tls", "invalid_classical", "Reject")
      /\ Held("leaf", "classical_validity") /\ Cleared("leaf", "classical_crl")
      /\ Revoked("leaf", "post_quantum_crl") /\ Identified(g) /\ g[<<"pair", "digest">>] # None
  BY <1>3, <1>4, ResultsAre, StatusResult, RevokedResult DEF RelatedTlsSteps, Identified
<1>6. /\ v = "Accept" /\ g[<<"tls", "invalid_classical">>] = "Reject"
      /\ g[<<"leaf", "classical_validity">>] = "Pass" /\ g[<<"leaf", "classical_crl">>][2] = "Pass"
      /\ g[<<"leaf", "post_quantum_crl">>] = <<"Pass", "Fail">>
  BY <1>5 DEF Ran, Held, As, Cleared, Revoked
<1>7. /\ Credential(n, m, "RelatedCertificate", e)
      /\ ItemPasses(n, e[1]) /\ Outdated(e[2])
  BY <1>5, <1>6, RelatedTlsMeans
<1>8. kind \in TlsKinds \cup {"related_openssl"} /\ v \in StackVerdict
  BY <1>4, <1>6 DEF TlsKinds
<1>9. n.binding_design = "RelatedCertificate" /\ n.certificate_signature_scheme = "Classical"
  BY CredentialNodeFields
<1> HIDE DEF n, m, e, v, r, pairs
<1>10. /\ Judged(1, scope, v, a) /\ a.has_classical
       /\ n \in ScopedCertificates(r) /\ r.paired_authentications = pairs
       /\ a.classical = "Pass" <=> ItemPasses(n, e[1])
       /\ a.classical = "Fail" <=> ItemFails(e[1])
       /\ a.pq = "Fail" <=> ItemFails(e[2])
       /\ \A item \in OfKind(r, "PostQuantum") : item = e[2]
       /\ e[2] \in OfKind(r, "PostQuantum")
  BY <1>1, <1>7, <1>8, CredentialAnswer DEF r
<1>11. a.design = "Fail"
  BY <1>9, <1>10, UnpairedRequest DEF pairs
<1>12. e = related_tls_evidence(g, OpenSslNode(g))
  BY DEF e, n, OpenSslNode
<1> QED
  BY <1>6, <1>7, <1>10, <1>11, <1>12 DEF r

-----------------------------------------------------------------------------
(* The documented verdicts *)

LEMMA HierarchyLifecycle ==
  ASSUME NEW scope \in PathScope, NEW n, NEW m, NEW e, NEW f, NEW design,
         NEW stack, NEW anchor, NEW pairs,
         submissions(kind, results)[1]
           = Submission(stack, anchor, <<n, m>>, pairs, BothItems(e, f)),
         Hybrids(n, m, design), ItemsOf(n, e), ItemsOf(m, f),
         ~Outdated(e[2]), ~Outdated(f[2])
  PROVE  \A item \in OfKind(RequestAt(1, scope), "PostQuantum") : ~Outdated(item)
<1> DEFINE s == submissions(kind, results)[1]
<1>1. s.certificate_path = <<n, m>> /\ s.evidence = BothItems(e, f)
  BY SubmissionFields
<1> HIDE DEF s
<1>2. Evidenced(s, n, m, e, f)
  BY <1>1 DEF Evidenced
<1>3. OfKind(Request(policy, scope, s), "PostQuantum")
        = IF scope = "CertificationPath" THEN {e[2], f[2]} ELSE {e[2]}
  BY <1>2, HierarchyEvidence
<1>4. RequestAt(1, scope) = Request(policy, scope, s)
  BY DEF RequestAt, s
<1> QED
  BY <1>3, <1>4

\* A path whose classical evidence passes while something hybrid fails.
Fallback(i, scope, late) ==
  /\ Verdict(i, scope) = "Reject"
  /\ answers[i][scope].classical_only_fallback
  /\ answers[i][scope].lifecycle_desynchronization \in BOOLEAN
  /\ answers[i][scope].lifecycle_desynchronization <=> late

LEMMA FallbackJudged ==
  ASSUME NEW i, NEW scope, NEW a, NEW late \in BOOLEAN, policy = "P2RequiredHybrid",
         Judged(i, scope, "Accept", a), a.has_classical, a.classical = "Pass",
         a.pq = "Fail" \/ a.design = "Fail",
         late => \E item \in OfKind(RequestAt(i, scope), "PostQuantum") : Outdated(item),
         ~late => \A item \in OfKind(RequestAt(i, scope), "PostQuantum") : ~Outdated(item)
  PROVE  Fallback(i, scope, late)
BY DEF Judged, Fallback

LEMMA CatalystDocumented ==
  ASSUME AnalysisInv, Answered, kind = "catalyst", policy = "P2RequiredHybrid", DOMAIN odd = {},
         NEW scope \in scopes(kind)
  PROVE  Fallback(1, scope, FALSE)
<1> DEFINE g == results
           n == CatalystNode(g, "EndEntity")
           m == CatalystNode(g, "Intermediate")
           e == CatalystItems(g, "EndEntity")
           f == CatalystItems(g, "Intermediate")
           a == Aggregates(RequestAt(1, scope))
           both == scope = "CertificationPath"
<1>1. 1 \in DOMAIN answers /\ scope \in PathScope
  BY FirstAnswer, AnsweredAt
<1>2. /\ g[<<"path", "valid_path">>] = "Accept" /\ Digested(g)
      /\ \A p \in {"EndEntity", "Intermediate"} :
           /\ g[<<p, "crl_status">>][1] = "Pass" /\ g[<<p, "crl_status">>][2] = "Pass"
           /\ g[<<p, "validity">>] = "Pass" /\ g[<<p, "valid_default">>] = "Accept"
           /\ g[<<p, "invalid_classical_path">>] = "Reject"
           /\ g[<<p, "valid_alternative">>] = "Accept"
           /\ g[<<p, "invalid_alternative">>] = "Reject"
           /\ g[<<p, "invalid_alternative_path">>] = "Accept"
  BY CatalystKnown DEF CatalystResults, Ran, Held, As, Cleared
<1>3. submissions(kind, g)[1]
        = Submission(Presented(g[<<"path", "valid_path">>], "X509Path", g[<<"path", "selected">>]),
                     g[<<"anchor", "digest">>], <<n, m>>, <<>>, BothItems(e, f))
  BY CatalystForm DEF submissions
<1>4. ItemsOf(n, e) /\ ItemPasses(n, e[1]) /\ ItemFails(e[2]) /\ ~Outdated(e[2])
  BY <1>2, CatalystMeans
<1>5. ItemsOf(m, f) /\ ItemPasses(m, f[1]) /\ ~Outdated(f[2]) /\ Hybrids(n, m, "Catalyst")
  BY <1>2, CatalystMeans, HybridNodes
<1>6. /\ Judged(1, scope, g[<<"path", "valid_path">>], a) /\ a.has_classical
      /\ a.classical = "Pass" <=> ItemPasses(n, e[1]) /\ (both => ItemPasses(m, f[1]))
      /\ a.pq = "Fail" <=> ItemFails(e[2]) \/ (both /\ ItemFails(f[2]))
  BY <1>1, CatalystAnswer
<1> HIDE DEF n, m, e, f, a
<1>7. \A item \in OfKind(RequestAt(1, scope), "PostQuantum") : ~Outdated(item)
  BY <1>1, <1>3, <1>4, <1>5, HierarchyLifecycle
<1> QED
  BY <1>2, <1>4, <1>5, <1>6, <1>7, FallbackJudged DEF a

LEMMA RelatedDocumented ==
  ASSUME AnalysisInv, Answered, kind = "related", policy = "P2RequiredHybrid", DOMAIN odd = {},
         NEW scope \in scopes(kind)
  PROVE  Fallback(1, scope, FALSE)
<1> DEFINE g == results
           n == RelatedNode(g, "EndEntity")
           m == RelatedNode(g, "Intermediate")
           e == RelatedItems(g, "EndEntity")
           f == RelatedItems(g, "Intermediate")
           a == Aggregates(RequestAt(1, scope))
           both == scope = "CertificationPath"
<1>1. 1 \in DOMAIN answers /\ scope \in PathScope
  BY FirstAnswer, AnsweredAt
<1>2. /\ g[<<"path", "classical_path">>] = "Accept" /\ Digested(g)
      /\ \A p \in {"EndEntity", "Intermediate"} :
           /\ g[<<p, "classical_signature">>] = "Accept"
           /\ g[<<p, "classical_validity">>] = "Pass" /\ g[<<p, "classical_crl">>] = "Accept"
           /\ g[<<p, "invalid_classical_signature">>] = "Reject"
           /\ g[<<p, "invalid_classical_path">>] = "Reject"
           /\ g[<<p, "post_quantum_validity">>] = "Pass"
           /\ g[<<p, "post_quantum_crl">>] = "Accept"
  BY RelatedKnown DEF RelatedResults, Ran, Held, As
<1>3. submissions(kind, g)[1]
        = Submission(Presented(g[<<"path", "classical_path">>], "X509Path",
          g[<<"path", "selected">>]),
                     g[<<"anchor", "digest">>], <<n, m>>,
                       <<RelatedPair(g, "EndEntity"), RelatedPair(g, "Intermediate")>>,
                       BothItems(e, f))
  BY RelatedForm DEF submissions
<1>4. ItemsOf(n, e) /\ ItemPasses(n, e[1]) /\ ~Outdated(e[2])
  BY <1>2, RelatedMeans
<1>5. ItemsOf(m, f) /\ ItemPasses(m, f[1]) /\ ~Outdated(f[2]) /\ Hybrids(n, m, "RelatedCertificate")
  BY <1>2, RelatedMeans, HybridNodes
<1>6. /\ Judged(1, scope, g[<<"path", "classical_path">>], a) /\ a.has_classical
      /\ a.classical = "Pass" <=> ItemPasses(n, e[1]) /\ (both => ItemPasses(m, f[1]))
      /\ a.design = "Fail"
  BY <1>1, RelatedAnswer
<1> HIDE DEF n, m, e, f, a
<1>7. \A item \in OfKind(RequestAt(1, scope), "PostQuantum") : ~Outdated(item)
  BY <1>1, <1>3, <1>4, <1>5, HierarchyLifecycle
<1> QED
  BY <1>2, <1>4, <1>5, <1>6, <1>7, FallbackJudged DEF a

LEMMA BouncyCastleDocumented ==
  ASSUME AnalysisInv, Answered, kind = "catalyst_bouncy_castle", policy = "P2RequiredHybrid",
           DOMAIN odd = {},
         NEW scope \in scopes(kind)
  PROVE  Fallback(1, scope, FALSE)
<1> DEFINE g == results
           n == CredentialNode(g, "Classical", "Catalyst")
           m == BouncyCastleIssuer(g)
           e == BouncyCastleLeafItems(g)
           f == BouncyCastleIssuerItems(g)
           a == Aggregates(RequestAt(1, scope))
           both == scope = "CertificationPath"
<1>1. 1 \in DOMAIN answers /\ scope \in PathScope
  BY FirstAnswer, AnsweredAt
<1>2. /\ g[<<"leaf", "valid_default">>] = "Accept" /\ BouncyCastleIdentified(g)
      /\ g[<<"leaf", "invalid_classical">>] = "Reject"
      /\ g[<<"issuer", "invalid_classical">>] = "Reject"
      /\ g[<<"leaf", "validity">>] = "Pass" /\ g[<<"issuer", "validity">>] = "Pass"
      /\ g[<<"leaf", "crl_status">>][2] = "Pass"
      /\ g[<<"issuer", "crl_status">>][1] = "Pass" /\ g[<<"issuer", "crl_status">>][2] = "Pass"
      /\ g[<<"leaf", "invalid_post_quantum_default">>] = "Accept"
      /\ g[<<"leaf", "valid_post_quantum">>] = "Accept"
      /\ g[<<"leaf", "invalid_post_quantum">>] = "Reject"
  BY BouncyCastleKnown DEF BouncyCastleResults, Ran, Held, As, Cleared
<1>3. submissions(kind, g)[1]
        = Submission(Presented(g[<<"leaf", "valid_default">>], "X509Path",
          g[<<"path", "selected">>]),
                     g[<<"anchor", "digest">>], <<n, m>>, <<>>, BothItems(e, f))
  BY BouncyCastleForm DEF submissions
<1>4. ItemsOf(n, e) /\ ItemPasses(n, e[1]) /\ ItemFails(e[2]) /\ ~Outdated(e[2])
  BY <1>2, BouncyCastleLeafMeans
<1>5. ItemsOf(m, f) /\ ItemPasses(m, f[1]) /\ ~Outdated(f[2]) /\ Hybrids(n, m, "Catalyst")
  BY <1>2, BouncyCastleIssuerMeans, BouncyCastleNodes
<1>6. /\ Judged(1, scope, g[<<"leaf", "valid_default">>], a) /\ a.has_classical
      /\ a.classical = "Pass" <=> ItemPasses(n, e[1]) /\ (both => ItemPasses(m, f[1]))
      /\ a.pq = "Fail" <=> ItemFails(e[2]) \/ (both /\ ItemFails(f[2]))
  BY <1>1, BouncyCastleAnswer
<1> HIDE DEF n, m, e, f, a
<1>7. \A item \in OfKind(RequestAt(1, scope), "PostQuantum") : ~Outdated(item)
  BY <1>1, <1>3, <1>4, <1>5, HierarchyLifecycle
<1> QED
  BY <1>2, <1>4, <1>5, <1>6, <1>7, FallbackJudged DEF a

LEMMA OpenSslDocumented ==
  ASSUME AnalysisInv, Answered, kind = "related_openssl", policy = "P2RequiredHybrid",
         DOMAIN odd = {}, NEW scope \in scopes(kind)
  PROVE  Fallback(1, scope, TRUE)
<1> DEFINE g == results
           n == OpenSslNode(g)
           e == related_openssl_evidence(g, n)
           r == RequestAt(1, scope)
           a == Aggregates(r)
<1>1. 1 \in DOMAIN answers
  BY FirstAnswer
<1>2. OpenSslResults /\ Identified(g) /\ g[<<"pair", "digest">>] # None
  BY OpenSslKnown
<1>3. /\ g[<<"leaf", "classical">>] = "Accept" /\ g[<<"leaf", "classical_invalid">>] = "Reject"
      /\ g[<<"leaf", "classical_crl">>][2] = "Pass"
      /\ g[<<"leaf", "post_quantum_crl">>] = <<"Pass", "Fail">>
  BY <1>2 DEF OpenSslResults, Ran, As, Cleared, Revoked
<1>4. ItemPasses(n, e[1]) /\ Outdated(e[2])
  <2>1. g[<<"leaf", "post_quantum_crl">>][2] = "Fail"
    BY <1>3
  <2> QED
    BY <1>2, <1>3, <2>1, OpenSslMeans
<1>5. /\ Judged(1, scope, g[<<"leaf", "classical">>], a)
      /\ a.has_classical /\ a.design = "Fail"
      /\ a.classical = "Pass" <=> ItemPasses(n, e[1])
      /\ e[2] \in OfKind(r, "PostQuantum")
  BY <1>1, OpenSslAnswer
<1> HIDE DEF n, e, r
<1>6. \E item \in OfKind(r, "PostQuantum") : Outdated(item)
  BY <1>4, <1>5
<1> HIDE DEF a
<1> QED
  BY <1>3, <1>4, <1>5, <1>6, FallbackJudged DEF r

LEMMA ChameleonDocumented ==
  ASSUME AnalysisInv, Answered, kind = "chameleon", policy = "P2RequiredHybrid",
         DOMAIN odd = {}, NEW scope \in scopes(kind)
  PROVE  Verdict(1, scope) = "Reject" /\ ~answers[1][scope].classical_only_fallback
<1> DEFINE g == results
           p == "EndEntity"
           c == ChameleonItems(g, p)[1]
           a == Aggregates(RequestAt(1, scope))
<1>1. 1 \in DOMAIN answers
  BY FirstAnswer
<1>2. /\ g[<<"path", "base_path">>] = "Accept" /\ g[<<p, "delta_signature">>] = "Accept"
      /\ g[<<p, "invalid_delta_signature">>] = "Reject"
      /\ g[<<p, "invalid_delta_path">>] = "Accept" /\ Digested(g)
  BY ChameleonKnown DEF ChameleonResults, Ran, As
<1>3. ItemFails(c)
  BY <1>2, ChameleonMeans
<1>4. Judged(1, scope, g[<<"path", "base_path">>], a) /\ a.classical = "Fail"
  BY <1>1, <1>3, ChameleonAnswer
<1> HIDE DEF a
<1> QED
  BY <1>2, <1>4 DEF Judged

LEMMA CrossSignedDocumented ==
  ASSUME AnalysisInv, Answered, kind = "cross_signed", policy = "P2RequiredHybrid",
         DOMAIN odd = {}, NEW scope \in scopes(kind)
  PROVE  /\ Verdict(2, scope) = "HybridClaimSetSatisfied"
         /\ Verdict(3, "CertificationPath") = "Reject"
         /\ answers[3]["CertificationPath"].classical_only_fallback
<1> DEFINE g == results
           p == "EndEntity"
           n == RouteLeaf(g)
           m == RouteIntermediate(g)
           i == RouteItem(g, AtomicItems(g, p)[1])
           j == RouteIntermediateItem(g)
           a == Aggregates(RequestAt(3, "CertificationPath"))
<1>1. {1, 2, 3} \subseteq DOMAIN answers
  <2>1. DOMAIN answers = DOMAIN submissions(kind, g)
    BY FirstAnswer, AnswerAt
  <2> QED
    BY <2>1 DEF submissions
<1>2. Verdict(2, scope) = "HybridClaimSetSatisfied"
  BY <1>1, AtomicRouteHybrid
<1>3. "CertificationPath" \in scopes(kind)
  BY DEF scopes, TlsKinds, PathScope
<1>4. /\ g[<<"path", "valid_path">>] = "Accept" /\ g[<<p, "valid_signature">>] = "Accept"
      /\ g[<<p, "validity">>] = "Pass" /\ g[<<p, "invalid_classical_signature">>] = "Reject"
      /\ g[<<p, "invalid_classical_path">>] = "Reject" /\ Digested(g)
  BY AtomicKnown DEF AtomicResults, Ran, Held, As
<1>5. /\ g[<<"control", "ica_crl">>] = "Accept" /\ g[<<"control", "root_crl">>] = "Accept"
      /\ g[<<"control", "intermediate_signature">>] = "Accept"
      /\ g[<<"control", "invalid_intermediate_signature">>] = "Reject"
      /\ g[<<"control", "invalid_intermediate_path">>] = "Reject"
      /\ g[<<"route", "intermediate_validity">>] = "Pass" /\ Routed(g)
  BY RouteKnown DEF Ran, Held, As
<1>6. ItemPasses(n, i) /\ ItemPasses(m, j)
  BY <1>4, <1>5, RouteMeans
<1>7. /\ Judged(3, "CertificationPath", "Accept", a) /\ a.has_classical /\ a.design = "Fail"
      /\ a.classical = "Pass" <=> ItemPasses(n, i) /\ ItemPasses(m, j)
  BY <1>1, <1>3, ClassicalRouteAnswer
<1> HIDE DEF n, m, i, j, a
<1> QED
  BY <1>2, <1>6, <1>7 DEF Judged

\* An answer that is neither a rejection nor hybrid is inconclusive under P2.
LEMMA AtomicDocumented ==
  ASSUME AnalysisInv, Answered, kind \in {"atomic", "atomic_tls"}, policy = "P2RequiredHybrid",
         DOMAIN odd = {}, NEW scope \in scopes(kind)
  PROVE  Verdict(1, scope) = "Indeterminate"
<1> DEFINE a == Aggregates(RequestAt(1, scope))
<1>1. 1 \in DOMAIN answers
  BY FirstAnswer
<1>2. Undecided
  BY DEF Undecided
<1>3. /\ Judged(1, scope, "Accept", a)
      /\ a.design = "Pass" /\ a.classical # "Fail" /\ a.pq # "Fail"
  <2>1. CASE kind = "atomic"
    <3>1. results[<<"path", "valid_path">>] = "Accept"
      BY <2>1, AtomicKnown DEF Ran, As
    <3> QED
      BY <1>1, <1>2, <2>1, <3>1, AtomicAnswer, AtomicUndecided
  <2>2. CASE kind = "atomic_tls"
    BY <1>1, <2>2, AtomicTlsAnswer
  <2> QED
    BY <2>1, <2>2
<1>4. Verdict(1, scope) # "HybridClaimSetSatisfied"
  BY <1>1, HybridEarned DEF HybridIsEarned
<1> HIDE DEF a
<1> QED
  BY <1>3, <1>4 DEF Judged, PolicyVerdict

\* A rejection reports the pair of an item that is not settled.
LEMMA UnsettledReported ==
  ASSUME AnalysisInv, Answered, NEW scope \in scopes(kind), Verdict(1, scope) = "Reject",
         NEW item \in OfKind(RequestAt(1, scope), "PostQuantum"),
         item.checks["binding"] = observed("Fail"),
         item.checks["decision_sensitive"] = behavioral_check(FALSE, "Fail")
  PROVE  Unsettled(item.id) \subseteq answers[1][scope].failed_checks
<1> DEFINE r == RequestAt(1, scope)
<1>1. answers[1][scope] = evaluate(r) /\ validate_request(r) = "ok"
  BY FirstAnswer, AnsweredAt
<1> HIDE DEF r
<1>2. evaluate(r).failed_checks = failed_checks(r)
  BY <1>1, Decided DEF Verdict
<1>3. item \in InScope(r, EvidenceItems(r))
  BY DEF OfKind, r
<1>4. /\ item.checks["binding"].state = "Fail"
      /\ item.checks["decision_sensitive"].state = "Indeterminate"
  BY DEF observed, behavioral_check
<1>5. {"binding", "decision_sensitive"} \subseteq unpassed_checks(item)
  BY <1>4 DEF unpassed_checks, CheckName
<1>6. \A name \in unpassed_checks(item) :
        FailedCheck("evidence", item.id, name, item.checks[name]) \in failed_checks(r)
  <2>1. \A name \in unpassed_checks(item) :
          FailedCheck("evidence", item.id, name, item.checks[name]) \in item_failed_checks(item)
    BY DEF item_failed_checks
  <2>2. item_failed_checks(item) \subseteq failed_checks(r)
    BY <1>3 DEF failed_checks
  <2> QED
    BY <2>1, <2>2
<1> QED
  BY <1>1, <1>2, <1>5, <1>6 DEF Unsettled

LEMMA RelatedItemFields ==
  ASSUME NEW g, NEW node, NEW word, node.id = <<word>>, NEW artifact, NEW operation, NEW checks
  PROVE  \A item \in {Item(node, "PostQuantum", artifact, operation, checks, "Crl"),
                      LeafItem(g, node, "PostQuantum", artifact, operation, checks, "Crl")} :
           item.id = <<word, "PostQuantum">> /\ item.checks = checks
<1> DEFINE item == Item(node, "PostQuantum", artifact, operation, checks, "Crl")
           leaf == LeafItem(g, node, "PostQuantum", artifact, operation, checks, "Crl")
<1>1. <<word>> \o <<"PostQuantum">> = <<word, "PostQuantum">>
  <2> DEFINE W == {word, "PostQuantum"}
  <2>1. /\ <<word>> \in Seq(W) /\ <<"PostQuantum">> \in Seq(W)
        /\ <<word, "PostQuantum">> \in Seq(W) /\ <<word>> \o <<"PostQuantum">> \in Seq(W)
    OBVIOUS
  <2>2. /\ Len(<<word>> \o <<"PostQuantum">>) = 2
        /\ \A i \in 1 .. 2 : (<<word>> \o <<"PostQuantum">>)[i] = <<word, "PostQuantum">>[i]
    BY <2>1
  <2> QED
    BY <2>1, <2>2, SeqEqual
<1>2. item.id = node.id \o <<"PostQuantum">> /\ item.checks = checks
  BY DEF Item
<1>3. leaf.id = node.id \o <<"PostQuantum">> /\ leaf.checks = checks
  BY DEF LeafItem, Item
<1> HIDE DEF item, leaf
<1>4. \A x \in {item, leaf} : x.id = <<word, "PostQuantum">> /\ x.checks = checks
  BY <1>1, <1>2, <1>3
<1> QED
  BY <1>4 DEF item, leaf

\* The evidence on a related certificate whose pair does not conform.
LEMMA UnsettledItem ==
  ASSUME NEW g, NEW failing, failing # {}
  PROVE  /\ \A p \in {"EndEntity", "Intermediate"} : g[<<p, "conformance">>] = failing =>
              LET item == RelatedItems(g, p)[2] IN
              /\ item.id = <<position_id(p), "PostQuantum">>
              /\ item.checks["binding"] = observed("Fail")
              /\ item.checks["decision_sensitive"] = behavioral_check(FALSE, "Fail")
         /\ g[<<"pair", "conformance">>] = failing =>
              \A item \in {related_openssl_evidence(g, OpenSslNode(g))[2],
                           related_tls_evidence(g, OpenSslNode(g))[2]} :
                /\ item.id = <<"end-entity", "PostQuantum">>
                /\ item.checks["binding"] = observed("Fail")
                /\ item.checks["decision_sensitive"] = behavioral_check(FALSE, "Fail")
<1>1. /\ related_conformance_check(failing) = observed("Fail")
      /\ related_conformance_check(failing).state # "Pass"
  BY DEF related_conformance_check, observed
<1>2. \A established, state : ~established =>
        behavioral_check(established, state) = behavioral_check(FALSE, "Fail")
  BY DEF behavioral_check
<1>4. ASSUME NEW p \in {"EndEntity", "Intermediate"}, g[<<p, "conformance">>] = failing
      PROVE  LET item == RelatedItems(g, p)[2] IN
             /\ item.id = <<position_id(p), "PostQuantum">>
             /\ item.checks["binding"] = observed("Fail")
             /\ item.checks["decision_sensitive"] = behavioral_check(FALSE, "Fail")
  <2> DEFINE n == RelatedNode(g, p)
             item == RelatedItems(g, p)[2]
  <2>1. n.position = p /\ n.id = <<position_id(p)>>
    BY DEF RelatedNode, NodeOf, Node
  <2>2. related_post_quantum_outcome(g, p) = behavioral_check(FALSE, "Fail")
    BY <1>1, <1>2, <1>4 DEF related_post_quantum_outcome
  <2> HIDE DEF n
  <2>3. PICK artifact, operation, signature, path, validity, revocation :
          item = Item(n, "PostQuantum", artifact, operation,
                      Checks(signature, observed("Fail"), path, validity, revocation,
                             related_post_quantum_outcome(g, p)), "Crl")
    BY <1>1, <1>4, <2>1 DEF RelatedItems, related_position_evidence, n
  <2> HIDE DEF item
  <2> DEFINE checks == Checks(signature, observed("Fail"), path, validity, revocation,
                              behavioral_check(FALSE, "Fail"))
  <2>4. /\ checks["binding"] = observed("Fail")
        /\ checks["decision_sensitive"] = behavioral_check(FALSE, "Fail")
    BY DEF Checks
  <2>5. item = Item(n, "PostQuantum", artifact, operation, checks, "Crl")
    BY <2>2, <2>3
  <2> HIDE DEF checks
  <2>6. item.id = <<position_id(p), "PostQuantum">> /\ item.checks = checks
    BY <2>1, <2>5, RelatedItemFields
  <2> QED
    BY <2>4, <2>6 DEF item
<1>5. ASSUME g[<<"pair", "conformance">>] = failing,
             NEW item \in {related_openssl_evidence(g, OpenSslNode(g))[2],
                           related_tls_evidence(g, OpenSslNode(g))[2]}
      PROVE  /\ item.id = <<"end-entity", "PostQuantum">>
             /\ item.checks["binding"] = observed("Fail")
             /\ item.checks["decision_sensitive"] = behavioral_check(FALSE, "Fail")
  <2> DEFINE n == OpenSslNode(g)
  <2>1. n.id = <<"end-entity">>
    BY DEF OpenSslNode, CredentialNode, Node
  <2> HIDE DEF n
  <2>2. PICK artifact, operation, signature, path, validity, revocation, established :
          /\ ~established
          /\ item = LeafItem(g, n, "PostQuantum", artifact, operation,
                             Checks(signature, observed("Fail"), path, validity, revocation,
                                    behavioral_check(established, "Fail")), "Crl")
    BY <1>1, <1>5 DEF related_openssl_evidence, related_tls_evidence, n
  <2> DEFINE checks == Checks(signature, observed("Fail"), path, validity, revocation,
                              behavioral_check(FALSE, "Fail"))
  <2>3. /\ checks["binding"] = observed("Fail")
        /\ checks["decision_sensitive"] = behavioral_check(FALSE, "Fail")
    BY DEF Checks
  <2>4. item = LeafItem(g, n, "PostQuantum", artifact, operation, checks, "Crl")
    BY <1>2, <2>2
  <2> HIDE DEF checks
  <2>5. item.id = <<"end-entity", "PostQuantum">> /\ item.checks = checks
    BY <2>1, <2>4, RelatedItemFields
  <2> QED
    BY <2>3, <2>5
<1> QED
  BY <1>4, <1>5

\* What the tests of the three related analyses assert of the pair.
LEMMA PairsDocumented ==
  ASSUME AnalysisInv, Answered, DOMAIN odd = {}, NEW scope \in scopes(kind),
         Verdict(1, scope) = "Reject", NEW id \in RelatedItemIds(scope)
  PROVE  Unsettled(id) \subseteq answers[1][scope].failed_checks
<1> DEFINE g == results
           r == RequestAt(1, scope)
<1>1. 1 \in DOMAIN answers /\ scope \in PathScope
  BY FirstAnswer, AnsweredAt
<1>2. \A p : related_failures(p) # {}
  BY DEF related_failures
<1>3. published_failures # {}
  BY DEF published_failures
<1>4. CASE kind = "related"
  <2> DEFINE n == RelatedNode(g, "EndEntity")
             m == RelatedNode(g, "Intermediate")
             e == RelatedItems(g, "EndEntity")
             f == RelatedItems(g, "Intermediate")
             s == submissions(kind, g)[1]
  <2>1. PICK p \in InScopeOf(scope) : id = <<position_id(p), "PostQuantum">>
    BY <1>4 DEF RelatedItemIds
  <2>2. p \in {"EndEntity", "Intermediate"} /\ (p = "EndEntity" \/ scope = "CertificationPath")
    BY <1>1, <2>1 DEF InScopeOf, includes, PathScope
  <2>3. g[<<p, "conformance">>] = related_failures(p)
    <3>1. Table[kind] = related_steps
      BY <1>4, TablesAreDistinct DEF AnalysisInv, StepsOf
    <3>2. Does(Table[kind], p, "conformance", {"conformance"}, related_failures(p),
               ConformanceAnswers \ {related_failures(p)})
      BY <2>2, <3>1, RelatedTable DEF RelatedAt
    <3> QED
      BY <3>2, ResultOf
  <2>4. /\ s.certificate_path = <<n, m>> /\ s.evidence = BothItems(e, f)
    <3>1. s = Submission(Presented(g[<<"path", "classical_path">>], "X509Path",
                                   g[<<"path", "selected">>]),
                         g[<<"anchor", "digest">>], <<n, m>>,
                         <<RelatedPair(g, "EndEntity"), RelatedPair(g, "Intermediate")>>,
                         BothItems(e, f))
      BY <1>4, RelatedForm DEF submissions
    <3> HIDE DEF s, n, m, e, f
    <3> QED
      BY <3>1, SubmissionFields
  <2>5. ItemsOf(n, e) /\ ItemsOf(m, f) /\ Hybrids(n, m, "RelatedCertificate")
    BY <1>4, RelatedKnown, RelatedMeans, HybridNodes
  <2>6. RelatedItems(g, p)[2] \in OfKind(r, "PostQuantum")
    <3> HIDE DEF s, n, m, e, f
    <3>1. Evidenced(s, n, m, e, f)
      BY <2>4, <2>5 DEF Evidenced
    <3>2. OfKind(Request(policy, scope, s), "PostQuantum")
            = IF scope = "CertificationPath" THEN {e[2], f[2]} ELSE {e[2]}
      BY <1>1, <2>5, <3>1, HierarchyEvidence
    <3>3. r = Request(policy, scope, s)
      BY DEF RequestAt, s
    <3> QED
      BY <2>2, <3>2, <3>3 DEF e, f
  <2> HIDE DEF r
  <2> QED
    BY <1>2, <2>1, <2>2, <2>3, <2>6, UnsettledItem, UnsettledReported DEF r
<1>5. CASE kind \in {"related_tls", "related_openssl"}
  <2> DEFINE n == OpenSslNode(g)
             item == IF kind = "related_tls" THEN related_tls_evidence(g, n)[2]
                                             ELSE related_openssl_evidence(g, n)[2]
  <2>1. id = <<"end-entity", "PostQuantum">>
    BY <1>5 DEF RelatedItemIds
  <2>2. g[<<"pair", "conformance">>] = published_failures
    <3>1. Does(Table[kind], "pair", "conformance", {"conformance"}, published_failures,
               ConformanceAnswers \ {published_failures})
      <4>1. CASE kind = "related_tls"
        <5>1. Table[kind] = related_tls_steps
          BY <4>1, TablesAreDistinct DEF AnalysisInv, StepsOf
        <5> QED
          BY <5>1, RelatedTlsTable DEF RelatedTlsSteps
      <4>2. CASE kind = "related_openssl"
        <5>1. Table[kind] = related_openssl_steps
          BY <4>2, TablesAreDistinct DEF AnalysisInv, StepsOf
        <5> QED
          BY <5>1, RelatedOpenSslTable DEF RelatedOpenSslSteps
      <4> QED
        BY <1>5, <4>1, <4>2
    <3> QED
      BY <3>1, ResultOf
  <2>3. item \in OfKind(r, "PostQuantum")
    <3>1. CASE kind = "related_tls"
      BY <1>1, <3>1, RelatedTlsAnswer
    <3>2. CASE kind = "related_openssl"
      BY <1>1, <3>2, OpenSslAnswer
    <3> QED
      BY <1>5, <3>1, <3>2
  <2>4. /\ item.id = id /\ item.checks["binding"] = observed("Fail")
        /\ item.checks["decision_sensitive"] = behavioral_check(FALSE, "Fail")
    <3>1. item \in {related_openssl_evidence(g, n)[2], related_tls_evidence(g, n)[2]}
      OBVIOUS
    <3> HIDE DEF item
    <3> QED
      BY <1>3, <2>1, <2>2, <3>1, UnsettledItem
  <2> HIDE DEF item, r
  <2> QED
    BY <2>3, <2>4, UnsettledReported DEF r
<1> QED
  BY <1>4, <1>5 DEF RelatedItemIds

LEMMA FallbackDocumented ==
  ASSUME AnalysisInv, Answered, kind \in FallbackKinds, policy = "P2RequiredHybrid",
         DOMAIN odd = {}, NEW scope \in scopes(kind)
  PROVE  /\ Verdict(1, scope) = "Reject"
         /\ answers[1][scope].classical_only_fallback
         /\ answers[1][scope].lifecycle_desynchronization
              = (kind \in {"related_tls", "related_openssl"})
<1>1. 1 \in DOMAIN answers
  BY FirstAnswer
<1> DEFINE a == Aggregates(RequestAt(1, scope))
           late == kind \in {"related_tls", "related_openssl"}
<1>2. kind = "catalyst" => Fallback(1, scope, FALSE)
  BY CatalystDocumented
<1>3. kind = "related" => Fallback(1, scope, FALSE)
  BY RelatedDocumented
<1>4. kind = "catalyst_bouncy_castle" => Fallback(1, scope, FALSE)
  BY BouncyCastleDocumented
<1>5. kind = "related_openssl" => Fallback(1, scope, TRUE)
  BY OpenSslDocumented
<1>6. ASSUME kind = "catalyst_tls" PROVE Fallback(1, scope, FALSE)
  <2>1. /\ Judged(1, scope, "Accept", a) /\ a.has_classical
        /\ a.classical = "Pass" /\ a.pq = "Fail"
        /\ \A item \in OfKind(RequestAt(1, scope), "PostQuantum") : ~Outdated(item)
    BY <1>1, <1>6, CatalystTlsAnswer
  <2> HIDE DEF a
  <2> QED
    BY <2>1, FallbackJudged
<1>7. ASSUME kind = "related_tls" PROVE Fallback(1, scope, TRUE)
  <2>1. /\ Judged(1, scope, "Accept", a) /\ a.has_classical
        /\ a.classical = "Pass" /\ a.design = "Fail"
        /\ \E item \in OfKind(RequestAt(1, scope), "PostQuantum") : Outdated(item)
    BY <1>1, <1>7, RelatedTlsAnswer
  <2> HIDE DEF a
  <2> QED
    BY <2>1, FallbackJudged
<1>8. (late => Fallback(1, scope, TRUE)) /\ (~late => Fallback(1, scope, FALSE))
  BY <1>2, <1>3, <1>4, <1>5, <1>6, <1>7 DEF FallbackKinds
<1> QED
  BY <1>8 DEF Fallback

LEMMA VerdictsDocumented == AnalysisInv => DocumentedVerdicts
<1> SUFFICES ASSUME AnalysisInv, Answered, odd = << >>, policy = "P2RequiredHybrid",
                    NEW scope \in scopes(kind)
             PROVE  LET first == answers[1][scope] IN
                    CASE kind \in {"atomic", "atomic_tls"} ->
                           first.policy_verdict = "Indeterminate"
                      [] kind \in FallbackKinds ->
                           /\ first.policy_verdict = "Reject"
                           /\ first.classical_only_fallback
                           /\ first.lifecycle_desynchronization
                                = (kind \in {"related_tls", "related_openssl"})
                           /\ \A id \in RelatedItemIds(scope) :
                                Unsettled(id) \subseteq first.failed_checks
                      [] kind \in {"pure", "chameleon", "chameleon_tls"} ->
                           first.policy_verdict = "Reject" /\ ~first.classical_only_fallback
                      [] OTHER ->
                           /\ Verdict(2, scope) = "HybridClaimSetSatisfied"
                           /\ Verdict(3, "CertificationPath") = "Reject"
                           /\ answers[3]["CertificationPath"].classical_only_fallback
  BY DEF DocumentedVerdicts
<1>1. 1 \in DOMAIN answers
  BY FirstAnswer
<1>2. DOMAIN odd = {} /\ kind \in AllKinds
  BY <1>1, AnsweredAt
<1>3. CASE kind \in {"atomic", "atomic_tls"}
  <2>1. kind \notin {"pure", "chameleon", "chameleon_tls"} \cup FallbackKinds
    BY <1>3 DEF FallbackKinds
  <2> QED
    BY <1>2, <1>3, <2>1, AtomicDocumented DEF Verdict
<1>4. CASE kind \in FallbackKinds
  <2>1. kind \notin {"atomic", "atomic_tls"}
    BY <1>4 DEF FallbackKinds
  <2>2. kind \notin {"pure", "chameleon", "chameleon_tls"}
    BY <1>4 DEF FallbackKinds
  <2> QED
    BY <1>2, <1>4, <2>1, <2>2, FallbackDocumented, PairsDocumented DEF Verdict
<1>5. CASE kind \in {"pure", "chameleon", "chameleon_tls"}
  <2>1. Verdict(1, scope) = "Reject" /\ ~answers[1][scope].classical_only_fallback
    <3>1. CASE kind = "pure"
      <4>1. results[<<"path", "valid_path">>] = "Accept"
        <5>1. Table[kind] = pure_steps
          BY <3>1, TablesAreDistinct DEF AnalysisInv, StepsOf
        <5>2. Runs(Table[kind], "path", "valid_path", "Accept")
          BY <5>1, PureTable
        <5> QED
          BY <1>2, <5>2, ResultsAre DEF Ran, As, StackVerdict
      <4> QED
        BY <1>1, <3>1, <4>1, PureAnswer DEF Judged
    <3>2. CASE kind = "chameleon"
      BY <1>2, <3>2, ChameleonDocumented
    <3>3. CASE kind = "chameleon_tls"
      BY <1>1, <1>2, <3>3, ChameleonTlsAnswer DEF Judged
    <3> QED
      BY <1>5, <3>1, <3>2, <3>3
  <2>2. kind \notin {"atomic", "atomic_tls"} \cup FallbackKinds
    BY <1>5 DEF FallbackKinds
  <2> QED
    BY <1>5, <2>1, <2>2 DEF Verdict
<1>6. CASE kind = "cross_signed"
  <2>1. kind \notin {"atomic", "atomic_tls", "pure", "chameleon", "chameleon_tls"}
          \cup FallbackKinds
    BY <1>6 DEF FallbackKinds
  <2> QED
    BY <1>2, <1>6, <2>1, CrossSignedDocumented
<1> QED
  BY <1>2, <1>3, <1>4, <1>5, <1>6 DEF AllKinds, PathScopeKinds, TlsKinds, FallbackKinds

\* With every control as documented, each analysis gives under P2 the verdict
\* and the flags that docs/verification-status.md reports for it, and names what
\* does not conform of a related pair as the tests assert, whatever
\* files are replaced meanwhile so long as no digest shows it.
THEOREM VerdictsAreDocumented == AnalysisSpec => []DocumentedVerdicts
BY AnalysisInvariant, VerdictsDocumented, PTL
-----------------------------------------------------------------------------
(* Requests are never refused for their form *)

\* The refusals of a request whose digests do not fit together.
Mismatches ==
  {"ok", "SelectedPathMismatch", "TrustAnchorMismatch", "CertificateDerHashMismatch",
   "IssuerEdgeHashMismatch", "EvidenceArtifactDerHashMismatch"}

Certified(c, position) ==
  /\ c.position = position /\ {c.der_sha256, c.issuer_edge_sha256} \subseteq Sha256
  /\ valid_certificate_properties(c)

\* The path and the anchor that the stack reports, and the anchor expected.
Anchored(s) ==
  /\ Range(s.stack.certification_path_der_sha256) \subseteq Sha256
  /\ \A anchor \in {s.stack.trust_anchor, s.expected_trust_anchor} :
       anchor.kind = "CertificateDerSha256" /\ anchor.der_sha256 \in Sha256
  /\ s.stack.applied_validation_time = the_time

\* Evidence about a certificate that was used in an operation.
About(item, c, operation) ==
  /\ item.certificate_id = c.id /\ item.position = c.position
  /\ item.authentication_operation_id = operation
  /\ {item.certificate_der_sha256, item.issuer_edge_sha256,
      item.evidence_artifact_der_sha256} \subseteq Sha256
  /\ item.applied_revocation_policy = crl_hard_fail
  /\ ~(item.checks["revocation"].state = "Pass" /\ item.revocation_method = "None")

\* The operation that the evidence about a certificate must name.
Operated(pairs, c, operation) ==
  IF c.binding_design = "RelatedCertificate"
    THEN \E pair \in Range(pairs) : pair.operation_id = operation
                                    /\ pair.classical_certificate_id = c.id
    ELSE operation = None

Paired(pairs, n, m) ==
  \A i \in DOMAIN pairs :
    /\ i \in Nat /\ pairs[i].post_quantum_certificate_der_sha256 \in Sha256
    /\ pairs[i].operation_id # EmptyString
    /\ \A j \in 1 .. i - 1 : pairs[j].operation_id # pairs[i].operation_id
    /\ \E c \in {n, m} : /\ c.id = pairs[i].classical_certificate_id
                         /\ c.binding_design = "RelatedCertificate"

Itemized(e, n, m, operation, other) ==
  \A i \in DOMAIN e :
    /\ i \in Nat /\ 1 .. i - 1 \subseteq DOMAIN e
    /\ About(e[i], n, operation) \/ About(e[i], m, other)
    /\ \A j \in 1 .. i - 1 : /\ e[j].id # e[i].id
                             /\ \/ e[j].certificate_id # e[i].certificate_id
                                \/ e[j].kind # e[i].kind

\* A submission of two certificates, with its evidence and its operations.
Orderly(s, n, m, operation, other) ==
  /\ s.certificate_path = <<n, m>> /\ n.id # m.id
  /\ Certified(n, "EndEntity") /\ Certified(m, "Intermediate")
  /\ Anchored(s) /\ Paired(s.paired_authentications, n, m)
  /\ Operated(s.paired_authentications, n, operation)
  /\ Operated(s.paired_authentications, m, other)
  /\ Itemized(s.evidence, n, m, operation, other)

\* The digests of an item are those of its certificate, or of its partner.
Agrees(pairs, item, c) ==
  /\ item.certificate_der_sha256 = c.der_sha256
  /\ item.issuer_edge_sha256 = c.issuer_edge_sha256
  /\ IF c.binding_design = "RelatedCertificate" /\ item.kind = "PostQuantum"
       THEN \A pair \in Range(pairs) :
              pair.operation_id = item.authentication_operation_id
                => pair.post_quantum_certificate_der_sha256 = item.evidence_artifact_der_sha256
       ELSE c.der_sha256 = item.evidence_artifact_der_sha256

ItemsAgree(s, n, m) ==
  \A i \in DOMAIN s.evidence : \A c \in {n, m} :
    s.evidence[i].certificate_id = c.id => Agrees(s.paired_authentications, s.evidence[i], c)

\* The digests of a submission fit together.
Fits(s) ==
  LET n == s.certificate_path[1]
      m == s.certificate_path[2]
  IN  /\ s.stack.certification_path_der_sha256 = <<n.der_sha256, m.der_sha256>>
      /\ s.expected_trust_anchor = s.stack.trust_anchor
      /\ ItemsAgree(s, n, m)

LEMMA RequestIs ==
  ASSUME NEW p, NEW scope, NEW s
  PROVE  LET r == Request(p, scope, s) IN
         /\ r.api_version = "v9" /\ r.validation_time = the_time
         /\ r.revocation_policy = crl_hard_fail /\ r.stack = s.stack
         /\ r.expected_trust_anchor = s.expected_trust_anchor
         /\ r.certificate_path = s.certificate_path
         /\ r.paired_authentications = s.paired_authentications /\ r.evidence = s.evidence
BY DEF Request

LEMMA PairRange ==
  ASSUME NEW n, NEW m
  PROVE  /\ DOMAIN <<n, m>> = {1, 2} /\ <<n, m>>[1] = n /\ <<n, m>>[2] = m
         /\ Range(<<n, m>>) = {n, m}
BY DEF Range

\* The tests of one item.
LEMMA ItemTests ==
  ASSUME NEW r, NEW n, NEW m, NEW operation, NEW other, NEW i \in DOMAIN r.evidence,
         Range(r.certificate_path) = {n, m}, n.id # m.id,
         Certified(n, "EndEntity"), Certified(m, "Intermediate"),
         Paired(r.paired_authentications, n, m),
         Operated(r.paired_authentications, n, operation),
         Operated(r.paired_authentications, m, other),
         Itemized(r.evidence, n, m, operation, other), r.revocation_policy = crl_hard_fail
  PROVE  /\ FirstError(evidence_tests(r, i)) \in Mismatches
         /\ FirstError(evidence_tests(r, i)) = "ok" <=>
              \A d \in {n, m} : r.evidence[i].certificate_id = d.id
                                  => Agrees(r.paired_authentications, r.evidence[i], d)
<1> DEFINE item == r.evidence[i]
<1>1. PICK c \in {n, m} : \E op : /\ About(item, c, op)
                                  /\ Operated(r.paired_authentications, c, op)
                                  /\ op = IF c = n THEN operation ELSE other
  BY DEF Itemized
<1>2. PICK op : /\ About(item, c, op) /\ Operated(r.paired_authentications, c, op)
                /\ op = IF c = n THEN operation ELSE other
  BY <1>1
<1> DEFINE Referred == {d \in Certificates(r) : d.id = item.certificate_id}
<1>3. Referred = {c}
  BY <1>1, <1>2 DEF Certificates, About
<1>4. ~invalid_authentication_operation(r, i, c)
  <2>1. item.authentication_operation_id = op /\ item.certificate_id = c.id
    BY <1>2 DEF About
  <2>2. CASE c.binding_design = "RelatedCertificate"
    <3>1. \E pair \in Pairs(r) :
            /\ pair.operation_id = item.authentication_operation_id
            /\ pair.classical_certificate_id = item.certificate_id
      BY <1>2, <2>1, <2>2 DEF Operated, Pairs
    <3>2. ASSUME NEW j \in 1 .. i - 1, r.evidence[j].certificate_id = item.certificate_id
          PROVE  r.evidence[j].authentication_operation_id = item.authentication_operation_id
      <4>1. j \in DOMAIN r.evidence
        BY DEF Itemized
      <4>2. About(r.evidence[j], n, operation) \/ About(r.evidence[j], m, other)
        BY <4>1 DEF Itemized
      <4> QED
        BY <1>1, <1>2, <2>1, <3>2, <4>2 DEF About
    <3> HIDE DEF item
    <3> QED
      BY <2>2, <3>1, <3>2 DEF invalid_authentication_operation, item
  <2>3. CASE c.binding_design # "RelatedCertificate"
    BY <1>2, <2>1, <2>3 DEF Operated, invalid_authentication_operation
  <2> QED
    BY <2>2, <2>3
<1>5. /\ valid_sha256_hex(item.certificate_der_sha256) /\ valid_sha256_hex(item.issuer_edge_sha256)
      /\ valid_sha256_hex(item.evidence_artifact_der_sha256) /\ c.position = item.position
      /\ item.applied_revocation_policy = r.revocation_policy
      /\ ~(item.checks["revocation"].state = "Pass" /\ item.revocation_method = "None")
      /\ r.revocation_policy.mode # "NotRequired"
  BY <1>2 DEF About, valid_sha256_hex, crl_hard_fail
<1> DEFINE
      certificate == \E d \in Referred : mismatched_optional_hash(d.der_sha256,
                                                               item.certificate_der_sha256)
      edge == \E d \in Referred : mismatched_optional_hash(d.issuer_edge_sha256,
                                                        item.issuer_edge_sha256)
      artifact == \E d \in Referred : \E expected \in expected_artifacts(r, d, item) :
                    mismatched_optional_hash(expected, item.evidence_artifact_der_sha256)
      e == <<"ok", "ok", "ok", "ok", "ok", ErrorIf(certificate, "CertificateDerHashMismatch"),
             ErrorIf(edge, "IssuerEdgeHashMismatch"), "ok",
             ErrorIf(artifact, "EvidenceArtifactDerHashMismatch"), "ok", "ok", "ok">>
<1>6. evidence_tests(r, i) =
  << ErrorIf(~valid_sha256_hex(item.certificate_der_sha256), "InvalidSha256Hex"),
    ErrorIf(~valid_sha256_hex(item.issuer_edge_sha256), "InvalidSha256Hex"),
    ErrorIf(~valid_sha256_hex(item.evidence_artifact_der_sha256), "InvalidSha256Hex"),
    ErrorIf(Referred = {}, "UnknownCertificate"),
    ErrorIf(\E d \in Referred : d.position # item.position, "PositionMismatch"),
    ErrorIf(certificate, "CertificateDerHashMismatch"),
    ErrorIf(edge, "IssuerEdgeHashMismatch"),
    ErrorIf(\E d \in Referred : invalid_authentication_operation(r, i, d),
            "InvalidEvidenceAuthenticationOperation"),
    ErrorIf(artifact, "EvidenceArtifactDerHashMismatch"),
    ErrorIf(item.applied_revocation_policy # r.revocation_policy,
            "RevocationPolicyMismatch"),
    ErrorIf(/\ item.checks["revocation"].state = "Pass"
            /\ item.revocation_method = "None", "InvalidRevocationEvidence"),
    ErrorIf(/\ r.revocation_policy.mode = "NotRequired"
            /\ item.checks["revocation"].state # "NotApplicable",
            "RevocationPolicyMismatch") >>
  BY DEF evidence_tests
<1> HIDE DEF item, Referred, certificate, edge, artifact
<1>7. evidence_tests(r, i) = e
  BY <1>3, <1>4, <1>5, <1>6 DEF ErrorIf
<1>8. DOMAIN e \subseteq Nat /\ \A k \in DOMAIN e : e[k] \in Mismatches
  BY DEF ErrorIf, Mismatches
<1>9. (\A k \in DOMAIN e : e[k] = "ok") <=> ~certificate /\ ~edge /\ ~artifact
  BY DEF ErrorIf
<1> HIDE DEF e
<1>10. FirstError(evidence_tests(r, i)) \in Mismatches
  BY <1>7, <1>8, FirstErrorType DEF Mismatches
<1>11. FirstError(evidence_tests(r, i)) = "ok" <=> ~certificate /\ ~edge /\ ~artifact
  BY <1>7, <1>8, <1>9, FirstErrorOk
<1>12. /\ {c.der_sha256, c.issuer_edge_sha256, item.certificate_der_sha256,
           item.issuer_edge_sha256, item.evidence_artifact_der_sha256} \subseteq Sha256
       /\ None \notin Sha256
  BY <1>1, <1>2, NoneIsNoValue DEF Certified, About
<1>13. /\ ~certificate <=> item.certificate_der_sha256 = c.der_sha256
       /\ ~edge <=> item.issuer_edge_sha256 = c.issuer_edge_sha256
  BY <1>3, <1>12 DEF certificate, edge, mismatched_optional_hash
<1>14. expected_artifacts(r, c, item) \subseteq Sha256
  <2>1. \A pair \in Pairs(r) : pair.post_quantum_certificate_der_sha256 \in Sha256
    BY DEF Pairs, Range, Paired
  <2> QED
    BY <1>12, <2>1 DEF expected_artifacts
<1>15. ~artifact <=> \A x \in expected_artifacts(r, c, item) :
                       x = item.evidence_artifact_der_sha256
  BY <1>3, <1>12, <1>14 DEF artifact, mismatched_optional_hash
<1>16. ~artifact <=>
         IF c.binding_design = "RelatedCertificate" /\ item.kind = "PostQuantum"
           THEN \A pair \in Range(r.paired_authentications) :
                  pair.operation_id = item.authentication_operation_id
                    => pair.post_quantum_certificate_der_sha256
                         = item.evidence_artifact_der_sha256
           ELSE c.der_sha256 = item.evidence_artifact_der_sha256
  BY <1>15 DEF expected_artifacts, Pairs
<1>17. ~certificate /\ ~edge /\ ~artifact <=> Agrees(r.paired_authentications, item, c)
  BY <1>13, <1>16 DEF Agrees
<1>18. \A d \in {n, m} : item.certificate_id = d.id <=> d = c
  BY <1>1, <1>2 DEF About
<1> QED
  BY <1>10, <1>11, <1>17, <1>18 DEF item

\* The tests of one paired operation, one certificate and two items.
LEMMA FormTests ==
  ASSUME NEW r, NEW n, NEW m, NEW operation, NEW other,
         r.certificate_path = <<n, m>>, n.id # m.id,
         Certified(n, "EndEntity"), Certified(m, "Intermediate"),
         Paired(r.paired_authentications, n, m),
         Itemized(r.evidence, n, m, operation, other)
  PROVE  /\ \A i \in DOMAIN r.evidence : FirstError(duplicate_evidence_tests(r, i)) = "ok"
         /\ \A i \in DOMAIN r.certificate_path : FirstError(certificate_tests(r, i)) = "ok"
         /\ \A i \in DOMAIN r.paired_authentications :
              FirstError(paired_authentication_tests(r, i)) = "ok"
         /\ end_entity_error(r) = "ok" /\ validate_certificate_path_order(r) = "ok"
<1>1. /\ DOMAIN r.certificate_path = {1, 2} /\ r.certificate_path[1] = n
      /\ r.certificate_path[2] = m /\ Certificates(r) = {n, m}
  BY PairRange DEF Certificates
<1>2. ASSUME NEW i \in DOMAIN r.evidence
      PROVE  FirstError(duplicate_evidence_tests(r, i)) = "ok"
  <2> DEFINE t == duplicate_evidence_tests(r, i)
  <2>1. t = <<"ok", "ok">>
    BY DEF duplicate_evidence_tests, ErrorIf, Itemized
  <2> HIDE DEF t
  <2> QED
    BY <2>1, FirstErrorOk DEF t
<1>3. ASSUME NEW i \in {1, 2} PROVE FirstError(certificate_tests(r, i)) = "ok"
  <2> DEFINE c == r.certificate_path[i]
             t == certificate_tests(r, i)
  <2>1. /\ valid_sha256_hex(c.der_sha256) /\ valid_sha256_hex(c.issuer_edge_sha256)
        /\ valid_certificate_properties(c) /\ c.position # "TrustAnchor"
    BY <1>1 DEF Certified, valid_sha256_hex
  <2>2. ~ \E j \in 1 .. i - 1 : r.certificate_path[j].id = c.id
    BY <1>1
  <2>3. t = <<"ok", "ok", "ok", "ok", "ok">>
    <3> HIDE DEF c
    <3> QED
      BY <2>1, <2>2 DEF certificate_tests, ErrorIf, c
  <2> HIDE DEF t
  <2> QED
    BY <2>3, FirstErrorOk DEF t
<1>4. ASSUME NEW i \in DOMAIN r.paired_authentications
      PROVE  FirstError(paired_authentication_tests(r, i)) = "ok"
  <2> DEFINE pair == r.paired_authentications[i]
             t == paired_authentication_tests(r, i)
  <2>1. /\ valid_sha256_hex(pair.post_quantum_certificate_der_sha256)
        /\ pair.operation_id # EmptyString
        /\ ~ \E j \in 1 .. i - 1 :
               r.paired_authentications[j].operation_id = pair.operation_id
        /\ \E c \in Certificates(r) : /\ c.id = pair.classical_certificate_id
                                      /\ c.binding_design = "RelatedCertificate"
    BY <1>1 DEF Paired, valid_sha256_hex
  <2>2. t = <<"ok", "ok", "ok">>
    <3> HIDE DEF pair
    <3> QED
      BY <2>1 DEF paired_authentication_tests, ErrorIf, pair
  <2> HIDE DEF t
  <2> QED
    BY <2>2, FirstErrorOk DEF t
<1>5. end_entity_error(r) = "ok"
  <2>1. {i \in DOMAIN r.certificate_path : r.certificate_path[i].position = "EndEntity"} = {1}
    BY <1>1 DEF Certified
  <2>2. Cardinality({1}) = 1
    BY FS_Singleton
  <2> QED
    BY <2>1, <2>2 DEF end_entity_error, ErrorIf
<1>6. validate_certificate_path_order(r) = "ok"
  BY <1>1 DEF Certified, validate_certificate_path_order, ErrorIf
<1> QED
  BY <1>1, <1>2, <1>3, <1>4, <1>5, <1>6

LEMMA AnchorTests ==
  ASSUME NEW r, NEW n, NEW m, r.certificate_path = <<n, m>>,
         {n.der_sha256, m.der_sha256} \subseteq Sha256,
         Range(r.stack.certification_path_der_sha256) \subseteq Sha256,
         \A anchor \in {r.stack.trust_anchor, r.expected_trust_anchor} :
           anchor.kind = "CertificateDerSha256" /\ anchor.der_sha256 \in Sha256
  PROVE  /\ FirstError(stack_selected_path_tests(r)) \in Mismatches
         /\ FirstError(stack_selected_path_tests(r)) = "ok" <=>
              /\ r.stack.certification_path_der_sha256 = <<n.der_sha256, m.der_sha256>>
              /\ r.expected_trust_anchor = r.stack.trust_anchor
<1> DEFINE
      unlike == \/ \E c \in Certificates(r) : c.der_sha256 = None
                \/ [i \in DOMAIN r.certificate_path |-> r.certificate_path[i].der_sha256]
                     # r.stack.certification_path_der_sha256
      astray == r.expected_trust_anchor # r.stack.trust_anchor
      e == <<"ok", ErrorIf(unlike, "SelectedPathMismatch"), "ok", "ok",
             ErrorIf(astray, "TrustAnchorMismatch")>>
<1>1. /\ validate_trust_anchor(r.expected_trust_anchor) = "ok"
      /\ validate_trust_anchor(r.stack.trust_anchor) = "ok"
  BY DEF validate_trust_anchor, valid_sha256_hex, ErrorIf
<1>2. ~ \E h \in Range(r.stack.certification_path_der_sha256) : ~valid_sha256_hex(h)
  BY DEF valid_sha256_hex
<1>3. stack_selected_path_tests(r) = e
  <2>1. stack_selected_path_tests(r) =
          <<ErrorIf(\E h \in Range(r.stack.certification_path_der_sha256) :
                      ~valid_sha256_hex(h), "InvalidSha256Hex"),
            ErrorIf(unlike, "SelectedPathMismatch"),
            validate_trust_anchor(r.expected_trust_anchor),
            validate_trust_anchor(r.stack.trust_anchor),
            ErrorIf(astray, "TrustAnchorMismatch")>>
    BY DEF stack_selected_path_tests
  <2> HIDE DEF unlike, astray
  <2> QED
    BY <1>1, <1>2, <2>1 DEF ErrorIf
<1>0. unlike <=> r.stack.certification_path_der_sha256 # <<n.der_sha256, m.der_sha256>>
  <2>1. Certificates(r) = {n, m}
    BY PairRange DEF Certificates
  <2>2. None \notin Sha256
    BY NoneIsNoValue
  <2>3. [i \in DOMAIN r.certificate_path |-> r.certificate_path[i].der_sha256]
          = <<n.der_sha256, m.der_sha256>>
    OBVIOUS
  <2> QED
    BY <2>1, <2>2, <2>3
<1> HIDE DEF unlike
<1>4. DOMAIN e \subseteq Nat /\ \A k \in DOMAIN e : e[k] \in Mismatches
  BY DEF ErrorIf, Mismatches
<1>5. (\A k \in DOMAIN e : e[k] = "ok") <=> ~unlike /\ ~astray
  BY DEF ErrorIf
<1> HIDE DEF e
<1>6. FirstError(e) \in Mismatches
  BY <1>4, FirstErrorType DEF Mismatches
<1>7. FirstError(e) = "ok" <=> ~unlike /\ ~astray
  BY <1>4, <1>5, FirstErrorOk
<1> QED
  BY <1>0, <1>3, <1>6, <1>7 DEF astray

\* validate_request refuses an orderly submission for its digests alone.
LEMMA OrderlyIsSound ==
  ASSUME NEW p, NEW scope, NEW s, NEW n, NEW m, NEW operation, NEW other,
         Orderly(s, n, m, operation, other)
  PROVE  /\ validate_request(Request(p, scope, s)) \in Mismatches
         /\ validate_request(Request(p, scope, s)) = "ok" <=> Fits(s)
<1> DEFINE r == Request(p, scope, s)
<1>1. /\ r.api_version = "v9" /\ r.validation_time = the_time
      /\ r.revocation_policy = crl_hard_fail /\ r.stack = s.stack
      /\ r.expected_trust_anchor = s.expected_trust_anchor
      /\ r.certificate_path = s.certificate_path
      /\ r.paired_authentications = s.paired_authentications /\ r.evidence = s.evidence
  BY RequestIs
<1> HIDE DEF r
<1>2. /\ r.certificate_path = <<n, m>> /\ n.id # m.id
      /\ Certified(n, "EndEntity") /\ Certified(m, "Intermediate")
      /\ Paired(r.paired_authentications, n, m)
      /\ Operated(r.paired_authentications, n, operation)
      /\ Operated(r.paired_authentications, m, other)
      /\ Itemized(r.evidence, n, m, operation, other)
  BY <1>1 DEF Orderly
<1>3. Range(r.certificate_path) = {n, m}
  BY <1>2, PairRange
<1>4. the_time # BadTime /\ r.stack.applied_validation_time = r.validation_time
  <2>1. the_time \in Times
    BY RequestsAreNamed DEF the_time
  <2> QED
    BY <1>1, <2>1, NoneIsNoValue DEF Orderly, Anchored
<1>5. /\ FirstError(stack_selected_path_tests(r)) \in Mismatches
      /\ FirstError(stack_selected_path_tests(r)) = "ok" <=>
           /\ s.stack.certification_path_der_sha256 = <<n.der_sha256, m.der_sha256>>
           /\ s.expected_trust_anchor = s.stack.trust_anchor
  <2>1. {n.der_sha256, m.der_sha256} \subseteq Sha256
    BY <1>2 DEF Certified
  <2> QED
    BY <1>1, <1>2, <2>1, AnchorTests DEF Orderly, Anchored
<1> DEFINE td == [i \in DOMAIN r.evidence |-> FirstError(duplicate_evidence_tests(r, i))]
           tc == [i \in DOMAIN r.certificate_path |-> FirstError(certificate_tests(r, i))]
           tq == [i \in DOMAIN r.paired_authentications |->
                    FirstError(paired_authentication_tests(r, i))]
           te == [i \in DOMAIN r.evidence |-> FirstError(evidence_tests(r, i))]
<1>6. /\ DOMAIN r.evidence \subseteq Nat /\ DOMAIN r.paired_authentications \subseteq Nat
      /\ DOMAIN r.certificate_path \subseteq Nat
  BY <1>2, PairRange DEF Itemized, Paired
<1>7. /\ \A i \in DOMAIN td : td[i] = "ok"
      /\ \A i \in DOMAIN tc : tc[i] = "ok" 
      /\ \A i \in DOMAIN tq : tq[i] = "ok"
      /\ end_entity_error(r) = "ok" /\ validate_certificate_path_order(r) = "ok"
  BY <1>2, FormTests
<1>8. \A i \in DOMAIN te : /\ te[i] \in Mismatches
                           /\ te[i] = "ok" <=>
                                \A d \in {n, m} : s.evidence[i].certificate_id = d.id
                                  => Agrees(s.paired_authentications, s.evidence[i], d)
  <2> SUFFICES ASSUME NEW i \in DOMAIN r.evidence
               PROVE  /\ FirstError(evidence_tests(r, i)) \in Mismatches
                      /\ FirstError(evidence_tests(r, i)) = "ok" <=>
                           \A d \in {n, m} : r.evidence[i].certificate_id = d.id
                             => Agrees(r.paired_authentications, r.evidence[i], d)
    BY <1>1, Zenon
  <2> QED
    BY <1>1, <1>2, <1>3, ItemTests
<1>9. DOMAIN td \subseteq Nat /\ DOMAIN tc \subseteq Nat /\ DOMAIN tq \subseteq Nat
      /\ DOMAIN te \subseteq Nat
  BY <1>6
<1>10. request_tests(r) =
         <<ErrorIf(r.api_version # "v9", "UnsupportedApiVersion"),
           ErrorIf(r.validation_time = BadTime, "InvalidValidationTime"),
           FirstError(td), FirstError(tc), end_entity_error(r),
           validate_certificate_path_order(r), FirstError(stack_selected_path_tests(r)),
           FirstError(tq), FirstError(te),
           ErrorIf(/\ r.stack.validation_time.state = "Pass"
                   /\ r.stack.applied_validation_time # r.validation_time,
                   "ValidationTimeMismatch")>>
  BY DEF request_tests
<1> HIDE DEF td, tc, tq, te
<1>11. "ok" \in Mismatches
  BY DEF Mismatches
<1>12. /\ FirstError(td) = "ok" /\ FirstError(tc) = "ok" /\ FirstError(tq) = "ok"
       /\ FirstError(te) \in Mismatches
  BY <1>7, <1>8, <1>9, <1>11, FirstErrorOk, FirstErrorType
<1> DEFINE path == FirstError(stack_selected_path_tests(r))
           items == FirstError(te)
           e == <<"ok", "ok", "ok", "ok", "ok", "ok", path, "ok", items, "ok">>
<1>13. request_tests(r) = e
  <2> HIDE DEF path, items
  <2>1. request_tests(r) =
         <<ErrorIf(r.api_version # "v9", "UnsupportedApiVersion"),
           ErrorIf(r.validation_time = BadTime, "InvalidValidationTime"),
           "ok", "ok", "ok", "ok", path, "ok", items,
           ErrorIf(/\ r.stack.validation_time.state = "Pass"
                   /\ r.stack.applied_validation_time # r.validation_time,
                   "ValidationTimeMismatch")>>
    BY <1>7, <1>10, <1>12 DEF path, items
  <2> QED
    BY <1>1, <1>4, <2>1 DEF ErrorIf
<1>14. path \in Mismatches /\ items \in Mismatches
  BY <1>5, <1>12
<1> HIDE DEF path, items
<1>15. DOMAIN e \subseteq Nat /\ \A k \in DOMAIN e : e[k] \in Mismatches
  BY <1>11, <1>14
<1> HIDE DEF e
<1>16. FirstError(e) \in Mismatches
  BY <1>11, <1>15, FirstErrorType
<1>17. FirstError(e) = "ok" <=> path = "ok" /\ items = "ok"
  <2>1. (\A k \in DOMAIN e : e[k] = "ok") <=> path = "ok" /\ items = "ok"
    BY DEF e
  <2> QED
    BY <1>15, <2>1, FirstErrorOk
<1>18. items = "ok" <=> ItemsAgree(s, n, m)
  <2>1. items = "ok" <=> \A i \in DOMAIN te : te[i] = "ok"
    BY <1>9, FirstErrorOk DEF items
  <2>2. DOMAIN te = DOMAIN s.evidence
    BY <1>1 DEF te
  <2> QED
    BY <1>8, <2>1, <2>2 DEF ItemsAgree
<1>19. path = "ok" /\ items = "ok" <=> Fits(s)
  <2>1. s.certificate_path[1] = n /\ s.certificate_path[2] = m
    BY <1>1, <1>2
  <2> QED
    BY <1>5, <1>18, <2>1 DEF path, Fits
<1> QED
  BY <1>13, <1>16, <1>17, <1>19 DEF validate_request, r

\* An item about a certificate, named for it and for its kind.
Witness(item, x, knd, c, operation) ==
  /\ About(item, c, operation) /\ c.id = <<x>>
  /\ item.id = <<x, knd>> /\ item.kind = knd

LEMMA WitnessItem ==
  ASSUME NEW x, NEW c, NEW knd, NEW artifact, NEW operation, NEW checks, NEW method,
         c.id = <<x>>, {c.der_sha256, c.issuer_edge_sha256, artifact} \subseteq Sha256,
         method # "None"
  PROVE  Witness(Item(c, knd, artifact, operation, checks, method), x, knd, c, operation)
<1> DEFINE i == Item(c, knd, artifact, operation, checks, method)
<1>1. /\ i.id = c.id \o <<knd>> /\ i.revocation_method = method
      /\ i.applied_revocation_policy = crl_hard_fail
  BY DEF Item
<1>2. c.id \o <<knd>> = <<x, knd>>
  BY JoinedPairs
<1>3. /\ i.certificate_id = c.id /\ i.position = c.position /\ i.kind = knd
      /\ i.certificate_der_sha256 = c.der_sha256
      /\ i.evidence_artifact_der_sha256 = artifact
      /\ i.issuer_edge_sha256 = c.issuer_edge_sha256
      /\ i.authentication_operation_id = operation
  BY ItemFields
<1> HIDE DEF i
<1>4. Witness(i, x, knd, c, operation)
  BY <1>1, <1>2, <1>3 DEF Witness, About
<1> QED
  BY <1>4 DEF i

LEMMA WitnessLeafItem ==
  ASSUME NEW g, NEW x, NEW c, NEW knd, NEW artifact, NEW operation, NEW checks, NEW method,
         c.id = <<x>>,
         {g[<<"evidence", "digest">>], g[<<"evidence", "edge">>], artifact} \subseteq Sha256,
         ~(checks["revocation"].state = "Pass" /\ method = "None")
  PROVE  Witness(LeafItem(g, c, knd, artifact, operation, checks, method), x, knd, c, operation)
<1> DEFINE i == LeafItem(g, c, knd, artifact, operation, checks, method)
<1>1. /\ i.id = c.id \o <<knd>> /\ i.revocation_method = method
      /\ i.applied_revocation_policy = crl_hard_fail
  BY DEF LeafItem, Item
<1>2. c.id \o <<knd>> = <<x, knd>>
  BY JoinedPairs
<1>3. /\ i.certificate_id = c.id /\ i.position = c.position /\ i.kind = knd
      /\ i.certificate_der_sha256 = g[<<"evidence", "digest">>]
      /\ i.evidence_artifact_der_sha256 = artifact
      /\ i.issuer_edge_sha256 = g[<<"evidence", "edge">>] /\ i.checks = checks
      /\ i.authentication_operation_id = operation
  BY LeafItemFields
<1> HIDE DEF i
<1>4. Witness(i, x, knd, c, operation)
  BY <1>1, <1>2, <1>3 DEF Witness, About
<1> QED
  BY <1>4 DEF i

LEMMA ItemizedFour ==
  ASSUME NEW n, NEW m, NEW operation, NEW other, NEW x, NEW y, x # y, NEW e, NEW f,
         Witness(e[1], x, "Classical", n, operation),
         Witness(e[2], x, "PostQuantum", n, operation),
         Witness(f[1], y, "Classical", m, other), Witness(f[2], y, "PostQuantum", m, other)
  PROVE  Itemized(BothItems(e, f), n, m, operation, other)
<1> DEFINE a == e[1]  b == e[2]  c == f[1]  d == f[2]
           t == BothItems(e, f)
<1>1. /\ Witness(a, x, "Classical", n, operation) /\ Witness(b, x, "PostQuantum", n, operation)
      /\ Witness(c, y, "Classical", m, other) /\ Witness(d, y, "PostQuantum", m, other)
  OBVIOUS
<1> HIDE DEF a, b, c, d
<1>2. DOMAIN t = 1 .. 4 /\ t[1] = a /\ t[2] = b /\ t[3] = c /\ t[4] = d
  BY DEF BothItems, a, b, c, d
<1> HIDE DEF t
<1>3. \A i \in 1 .. 4 : About(t[i], n, operation) \/ About(t[i], m, other)
  BY <1>1, <1>2 DEF Witness
<1>4. /\ a.id = <<x, "Classical">> /\ b.id = <<x, "PostQuantum">>
      /\ c.id = <<y, "Classical">> /\ d.id = <<y, "PostQuantum">>
      /\ a.kind = "Classical" /\ b.kind = "PostQuantum"
      /\ c.kind = "Classical" /\ d.kind = "PostQuantum"
      /\ a.certificate_id = <<x>> /\ b.certificate_id = <<x>>
      /\ c.certificate_id = <<y>> /\ d.certificate_id = <<y>>
  BY <1>1 DEF Witness, About
<1>5. \A i \in 1 .. 4 : \A j \in 1 .. i - 1 :
        /\ t[j].id # t[i].id
        /\ t[j].certificate_id # t[i].certificate_id \/ t[j].kind # t[i].kind
  BY <1>2, <1>4
<1>6. Itemized(t, n, m, operation, other)
  BY <1>2, <1>3, <1>5 DEF Itemized
<1> QED
  BY <1>6 DEF t

\* Two items of one certificate, and two of the same kind.
LEMMA ItemizedTwo ==
  ASSUME NEW n, NEW m, NEW operation, NEW other, NEW x, NEW a, NEW b,
         Witness(a, x, "Classical", n, operation), Witness(b, x, "PostQuantum", n, operation)
  PROVE  Itemized(<<a, b>>, n, m, operation, other)
<1> DEFINE t == <<a, b>>
<1>1. DOMAIN t = 1 .. 2 /\ t[1] = a /\ t[2] = b
  OBVIOUS
<1> HIDE DEF t
<1>2. \A i \in 1 .. 2 : About(t[i], n, operation) \/ About(t[i], m, other)
  BY <1>1 DEF Witness
<1>3. \A i \in 1 .. 2 : \A j \in 1 .. i - 1 : t[j].id # t[i].id /\ t[j].kind # t[i].kind
  BY <1>1 DEF Witness
<1>4. Itemized(t, n, m, operation, other)
  BY <1>1, <1>2, <1>3 DEF Itemized
<1> QED
  BY <1>4 DEF t

LEMMA ItemizedEach ==
  ASSUME NEW n, NEW m, NEW operation, NEW other, NEW x, NEW y, x # y, NEW knd, NEW a, NEW b,
         Witness(a, x, knd, n, operation), Witness(b, y, knd, m, other)
  PROVE  Itemized(<<a, b>>, n, m, operation, other)
<1> DEFINE t == <<a, b>>
<1>1. DOMAIN t = 1 .. 2 /\ t[1] = a /\ t[2] = b
  OBVIOUS
<1> HIDE DEF t
<1>2. \A i \in 1 .. 2 : About(t[i], n, operation) \/ About(t[i], m, other)
  BY <1>1 DEF Witness
<1>3. /\ a.id = <<x, knd>> /\ b.id = <<y, knd>>
      /\ a.certificate_id = <<x>> /\ b.certificate_id = <<y>>
  BY DEF Witness, About
<1>4. \A i \in 1 .. 2 : \A j \in 1 .. i - 1 :
        t[j].id # t[i].id /\ t[j].certificate_id # t[i].certificate_id
  BY <1>1, <1>3
<1>5. Itemized(t, n, m, operation, other)
  BY <1>1, <1>2, <1>4 DEF Itemized
<1> QED
  BY <1>5 DEF t

LEMMA ItemizedThree ==
  ASSUME NEW n, NEW m, NEW operation, NEW other, NEW x, NEW y, x # y, NEW a, NEW b, NEW c,
         Witness(a, x, "Classical", n, operation), Witness(b, x, "PostQuantum", n, operation),
         Witness(c, y, "Classical", m, other)
  PROVE  Itemized(<<a, b, c>>, n, m, operation, other)
<1> DEFINE t == <<a, b, c>>
<1>1. DOMAIN t = 1 .. 3 /\ t[1] = a /\ t[2] = b /\ t[3] = c
  OBVIOUS
<1> HIDE DEF t
<1>2. \A i \in 1 .. 3 : About(t[i], n, operation) \/ About(t[i], m, other)
  BY <1>1 DEF Witness
<1>3. /\ a.id = <<x, "Classical">> /\ b.id = <<x, "PostQuantum">> /\ c.id = <<y, "Classical">>
      /\ a.kind = "Classical" /\ b.kind = "PostQuantum" /\ c.kind = "Classical"
      /\ a.certificate_id = <<x>> /\ b.certificate_id = <<x>> /\ c.certificate_id = <<y>>
  BY DEF Witness, About
<1>4. \A i \in 1 .. 3 : \A j \in 1 .. i - 1 :
        /\ t[j].id # t[i].id
        /\ t[j].certificate_id # t[i].certificate_id \/ t[j].kind # t[i].kind
  BY <1>1, <1>3
<1>5. Itemized(t, n, m, operation, other)
  BY <1>1, <1>2, <1>4 DEF Itemized
<1> QED
  BY <1>5 DEF t

\* The stack's report of a path whose files were hashed.
Hashed(stack) ==
  /\ Range(stack.certification_path_der_sha256) \subseteq Sha256
  /\ stack.trust_anchor.kind = "CertificateDerSha256" /\ stack.trust_anchor.der_sha256 \in Sha256
  /\ stack.applied_validation_time = the_time

LEMMA PresentedIsHashed ==
  ASSUME NEW verdict, NEW profile, NEW selected,
         selected[1] \in Sha256, selected[2] \in Sha256, selected[3] \in Sha256
  PROVE  Hashed(Presented(verdict, profile, selected))
<1> DEFINE p == Presented(verdict, profile, selected)
<1>1. /\ p.certification_path_der_sha256 = <<selected[1], selected[2]>>
      /\ p.trust_anchor = Anchor(selected[3]) /\ p.applied_validation_time = the_time
  BY DEF Presented
<1>2. Range(<<selected[1], selected[2]>>) = {selected[1], selected[2]}
  BY PairRange
<1> HIDE DEF p
<1>3. Hashed(p)
  BY <1>1, <1>2 DEF Hashed, Anchor
<1> QED
  BY <1>3 DEF p

LEMMA SubmissionIsOrderly ==
  ASSUME NEW stack, NEW anchor, NEW n, NEW m, NEW pairs, NEW e, NEW operation, NEW other,
         Hashed(stack), anchor \in Sha256, n.id # m.id,
         Certified(n, "EndEntity"), Certified(m, "Intermediate"), Paired(pairs, n, m),
         Operated(pairs, n, operation), Operated(pairs, m, other),
         Itemized(e, n, m, operation, other)
  PROVE  Orderly(Submission(stack, anchor, <<n, m>>, pairs, e), n, m, operation, other)
<1> DEFINE s == Submission(stack, anchor, <<n, m>>, pairs, e)
<1>1. /\ s.stack = stack /\ s.certificate_path = <<n, m>> /\ s.paired_authentications = pairs
      /\ s.evidence = e
  BY SubmissionFields
<1>2. /\ s.expected_trust_anchor.kind = "CertificateDerSha256"
      /\ s.expected_trust_anchor.der_sha256 = anchor
  BY DEF Submission, Anchor
<1> HIDE DEF s
<1>3. Anchored(s)
  BY <1>1, <1>2 DEF Anchored, Hashed
<1>4. Orderly(s, n, m, operation, other)
  BY <1>1, <1>3 DEF Orderly
<1> QED
  BY <1>4 DEF s

LEMMA NothingPaired ==
  ASSUME NEW n, NEW m, NEW c, c.binding_design # "RelatedCertificate"
  PROVE  Paired(<<>>, n, m) /\ Operated(<<>>, c, None)
BY DEF Paired, Operated

\* The digests of the path that the stack was given.
LEMMA SelectResult ==
  ASSUME AnalysisInv, Selects(Table[kind])
  PROVE  LET s == results[<<"path", "selected">>] IN
         s[1] \in Sha256 /\ s[2] \in Sha256 /\ s[3] \in Sha256
<1> DEFINE name == <<"path", "selected">>
           T == Table[kind]
<1>1. PICK i \in DOMAIN T : T[i].name = name /\ T[i].op = "select" /\ DOMAIN T[i].nominal = 1 .. 3
  BY DEF Selects
<1>2. /\ name \in DOMAIN Nominal[kind] /\ Nominal[kind][name] = T[i].nominal
  BY <1>1, NominalOfStep DEF AnalysisInv
<1>3. results[name] = IF name \in DOMAIN odd THEN odd[name] ELSE T[i].nominal
  BY <1>2 DEF results
<1>4. /\ T[i].nominal[1] \in Sha256 /\ T[i].nominal[2] \in Sha256 /\ T[i].nominal[3] \in Sha256
  <2>1. T[i] \in Range(T) /\ kind \in Kinds
    BY DEF Range, AnalysisInv
  <2>2. Versions \in [HashedFiles[kind] -> {"v1", "v2"}]
    BY DEF Versions
  <2>3. Range(T[i].nominal) \cup Range(HashOf(T[i], Versions)) \subseteq Sha256
    BY <1>1, <2>1, <2>2, HashesAreWellFormed
  <2> HIDE DEF T
  <2> QED
    BY <1>1, <2>3 DEF Range
<1>5. ASSUME name \in DOMAIN odd
      PROVE  odd[name][1] \in Sha256 /\ odd[name][2] \in Sha256 /\ odd[name][3] \in Sha256
  <2>1. PICK j \in DOMAIN T : T[j].name = name /\ OddValue(T[j], odd[name])
    BY <1>5 DEF AnalysisInv, OddResults
  <2>2. j = i
    BY <1>1, <2>1, TablesAreDistinct DEF Distinct, AnalysisInv
  <2> QED
    BY <1>1, <2>1, <2>2 DEF OddValue
<1> HIDE DEF T
<1> QED
  BY <1>3, <1>4, <1>5

-----------------------------------------------------------------------------
(* What the path-scope analyses submit *)

SelectedIsHashed(g) ==
  LET s == g[<<"path", "selected">>] IN s[1] \in Sha256 /\ s[2] \in Sha256 /\ s[3] \in Sha256

\* The digests of leaf and intermediate, and of the anchor.
Measured(g) ==
  /\ \A p \in {"EndEntity", "Intermediate"} :
       {g[<<p, "digest">>], g[<<p, "edge">>]} \subseteq Sha256
  /\ g[<<"anchor", "digest">>] \in Sha256

LEMMA HierarchyCertified ==
  ASSUME NEW g, Measured(g), NEW key, NEW signature, NEW design, NEW n, NEW m,
         n = NodeOf(g, "EndEntity", key, signature, design),
         m = NodeOf(g, "Intermediate", key, signature, design),
         design = "AtomicComposite" => signature = "Hybrid"
  PROVE  /\ Certified(n, "EndEntity") /\ Certified(m, "Intermediate")
         /\ n.id = <<"leaf">> /\ m.id = <<"intermediate">> /\ n.id # m.id
         /\ n.binding_design = design /\ m.binding_design = design
         /\ n.position = "EndEntity" /\ m.position = "Intermediate"
         /\ {n.der_sha256, n.issuer_edge_sha256, m.der_sha256, m.issuer_edge_sha256}
              \subseteq Sha256
BY NodeOfFields DEF Certified, Measured, valid_certificate_properties

LEMMA HierarchyOrderly ==
  ASSUME NEW g, Measured(g), NEW stack, Hashed(stack),
         NEW key, NEW signature, NEW design, NEW n, NEW m, NEW e, NEW f,
         n = NodeOf(g, "EndEntity", key, signature, design),
         m = NodeOf(g, "Intermediate", key, signature, design),
         design = "AtomicComposite" => signature = "Hybrid", design # "RelatedCertificate",
         Witness(e[1], "leaf", "Classical", n, None),
         Witness(e[2], "leaf", "PostQuantum", n, None),
         Witness(f[1], "intermediate", "Classical", m, None),
         Witness(f[2], "intermediate", "PostQuantum", m, None)
  PROVE  Orderly(Submission(stack, g[<<"anchor", "digest">>], <<n, m>>, <<>>, BothItems(e, f)),
                 n, m, None, None)
<1>1. /\ Certified(n, "EndEntity") /\ Certified(m, "Intermediate") /\ n.id # m.id
      /\ n.binding_design = design /\ m.binding_design = design
  BY HierarchyCertified
<1>2. Itemized(BothItems(e, f), n, m, None, None)
  BY ItemizedFour
<1>3. Paired(<<>>, n, m) /\ Operated(<<>>, n, None) /\ Operated(<<>>, m, None)
  BY <1>1, NothingPaired
<1>4. g[<<"anchor", "digest">>] \in Sha256
  BY DEF Measured
<1> QED
  BY <1>1, <1>2, <1>3, <1>4, SubmissionIsOrderly

LEMMA AtomicOrderly ==
  ASSUME NEW g, Measured(g), NEW stack, Hashed(stack)
  PROVE  Orderly(Submission(stack, g[<<"anchor", "digest">>],
                            <<AtomicNode(g, "EndEntity"), AtomicNode(g, "Intermediate")>>, <<>>,
                            BothItems(AtomicItems(g, "EndEntity"), AtomicItems(g, "Intermediate"))),
                 AtomicNode(g, "EndEntity"), AtomicNode(g, "Intermediate"), None, None)
<1> DEFINE n == AtomicNode(g, "EndEntity")
           m == AtomicNode(g, "Intermediate")
<1>1. /\ n = NodeOf(g, "EndEntity", "Classical", "Hybrid", "AtomicComposite")
      /\ m = NodeOf(g, "Intermediate", "Classical", "Hybrid", "AtomicComposite")
  BY DEF AtomicNode
<1>2. /\ AtomicItems(g, "EndEntity") = atomic_position_evidence(g, n)
      /\ AtomicItems(g, "Intermediate") = atomic_position_evidence(g, m)
  BY DEF AtomicItems
<1> HIDE DEF n, m
<1>3. /\ n.id = <<"leaf">> /\ m.id = <<"intermediate">>
      /\ {n.der_sha256, n.issuer_edge_sha256, m.der_sha256, m.issuer_edge_sha256} \subseteq Sha256
  BY <1>1, HierarchyCertified
<1>4. ASSUME NEW x, NEW c, c.id = <<x>>, {c.der_sha256, c.issuer_edge_sha256} \subseteq Sha256
      PROVE  /\ Witness(atomic_position_evidence(g, c)[1], x, "Classical", c, None)
             /\ Witness(atomic_position_evidence(g, c)[2], x, "PostQuantum", c, None)
  BY <1>4, WitnessItem DEF atomic_position_evidence
<1>5. /\ Witness(AtomicItems(g, "EndEntity")[1], "leaf", "Classical", n, None)
      /\ Witness(AtomicItems(g, "EndEntity")[2], "leaf", "PostQuantum", n, None)
      /\ Witness(AtomicItems(g, "Intermediate")[1], "intermediate", "Classical", m, None)
      /\ Witness(AtomicItems(g, "Intermediate")[2], "intermediate", "PostQuantum", m, None)
  BY <1>2, <1>3, <1>4
<1> QED
  BY <1>1, <1>5, HierarchyOrderly DEF n, m

\* What a request is refused for is a digest that does not fit.
Admissible(s) ==
  \A p, scope : /\ validate_request(Request(p, scope, s)) \in Mismatches
                /\ validate_request(Request(p, scope, s)) = "ok" <=> Fits(s)

LEMMA OrderlyIsAdmissible ==
  ASSUME NEW s, NEW n, NEW m, NEW operation, NEW other, Orderly(s, n, m, operation, other)
  PROVE  Admissible(s)
BY OrderlyIsSound DEF Admissible

LEMMA AtomicAdmissible ==
  ASSUME NEW g, Measured(g), SelectedIsHashed(g)
  PROVE  Admissible(atomic_submission(g))
<1>1. Hashed(Presented(g[<<"path", "valid_path">>], "X509Path", g[<<"path", "selected">>]))
  BY PresentedIsHashed DEF SelectedIsHashed
<1> QED
  BY <1>1, AtomicForm, AtomicOrderly, OrderlyIsAdmissible

LEMMA CatalystAdmissible ==
  ASSUME NEW g, Measured(g), SelectedIsHashed(g)
  PROVE  Admissible(catalyst_submission(g))
<1> DEFINE n == CatalystNode(g, "EndEntity")
           m == CatalystNode(g, "Intermediate")
           e == CatalystItems(g, "EndEntity")
           f == CatalystItems(g, "Intermediate")
           stack == Presented(g[<<"path", "valid_path">>], "X509Path", g[<<"path", "selected">>])
<1>1. /\ n = NodeOf(g, "EndEntity", "Classical", "Classical", "Catalyst")
      /\ m = NodeOf(g, "Intermediate", "Classical", "Classical", "Catalyst")
  BY DEF CatalystNode
<1>2. /\ e = catalyst_position_evidence(g, n) /\ f = catalyst_position_evidence(g, m)
  BY DEF CatalystItems
<1>3. Hashed(stack)
  BY PresentedIsHashed DEF SelectedIsHashed
<1>4. catalyst_submission(g)
        = Submission(stack, g[<<"anchor", "digest">>], <<n, m>>, <<>>, BothItems(e, f))
  BY CatalystForm
<1> HIDE DEF n, m, e, f, stack
<1>5. /\ n.id = <<"leaf">> /\ m.id = <<"intermediate">>
      /\ {n.der_sha256, n.issuer_edge_sha256, m.der_sha256, m.issuer_edge_sha256} \subseteq Sha256
  BY <1>1, HierarchyCertified
<1>6. ASSUME NEW x, NEW c, c.id = <<x>>, {c.der_sha256, c.issuer_edge_sha256} \subseteq Sha256
      PROVE  /\ Witness(catalyst_position_evidence(g, c)[1], x, "Classical", c, None)
             /\ Witness(catalyst_position_evidence(g, c)[2], x, "PostQuantum", c, None)
  BY <1>6, WitnessItem DEF catalyst_position_evidence
<1>7. /\ Witness(e[1], "leaf", "Classical", n, None)
      /\ Witness(e[2], "leaf", "PostQuantum", n, None)
      /\ Witness(f[1], "intermediate", "Classical", m, None)
      /\ Witness(f[2], "intermediate", "PostQuantum", m, None)
  BY <1>2, <1>5, <1>6
<1> QED
  BY <1>1, <1>3, <1>4, <1>7, HierarchyOrderly, OrderlyIsAdmissible

LEMMA ChameleonAdmissible ==
  ASSUME NEW g, Measured(g), SelectedIsHashed(g)
  PROVE  Admissible(chameleon_submission(g))
<1> DEFINE n == ChameleonNode(g, "EndEntity")
           m == ChameleonNode(g, "Intermediate")
           e == ChameleonItems(g, "EndEntity")
           f == ChameleonItems(g, "Intermediate")
           stack == Presented(g[<<"path", "base_path">>], "X509Path", g[<<"path", "selected">>])
<1>1. /\ n = NodeOf(g, "EndEntity", "Classical", "Classical", "Chameleon")
      /\ m = NodeOf(g, "Intermediate", "Classical", "Classical", "Chameleon")
  BY DEF ChameleonNode
<1>2. /\ e = chameleon_position_evidence(g, n) /\ f = chameleon_position_evidence(g, m)
  BY DEF ChameleonItems
<1>3. Hashed(stack)
  BY PresentedIsHashed DEF SelectedIsHashed
<1>4. chameleon_submission(g)
        = Submission(stack, g[<<"anchor", "digest">>], <<n, m>>, <<>>, BothItems(e, f))
  BY ChameleonForm
<1> HIDE DEF n, m, e, f, stack
<1>5. /\ n.id = <<"leaf">> /\ m.id = <<"intermediate">>
      /\ {n.der_sha256, n.issuer_edge_sha256, m.der_sha256, m.issuer_edge_sha256} \subseteq Sha256
  BY <1>1, HierarchyCertified
<1>6. ASSUME NEW x, NEW c, c.id = <<x>>, {c.der_sha256, c.issuer_edge_sha256} \subseteq Sha256
      PROVE  /\ Witness(chameleon_position_evidence(g, c)[1], x, "Classical", c, None)
             /\ Witness(chameleon_position_evidence(g, c)[2], x, "PostQuantum", c, None)
  BY <1>6, WitnessItem DEF chameleon_position_evidence
<1>7. /\ Witness(e[1], "leaf", "Classical", n, None)
      /\ Witness(e[2], "leaf", "PostQuantum", n, None)
      /\ Witness(f[1], "intermediate", "Classical", m, None)
      /\ Witness(f[2], "intermediate", "PostQuantum", m, None)
  BY <1>2, <1>5, <1>6
<1> QED
  BY <1>1, <1>3, <1>4, <1>7, HierarchyOrderly, OrderlyIsAdmissible

LEMMA PureAdmissible ==
  ASSUME NEW g, Measured(g), SelectedIsHashed(g)
  PROVE  Admissible(pure_submission(g))
<1> DEFINE n == PureNode(g, "EndEntity")
           m == PureNode(g, "Intermediate")
           a == PureItems(g, "EndEntity")[1]
           b == PureItems(g, "Intermediate")[1]
           stack == Presented(g[<<"path", "valid_path">>], "X509Path", g[<<"path", "selected">>])
           anchor == g[<<"anchor", "digest">>]
<1>1. /\ n = NodeOf(g, "EndEntity", "PostQuantum", "PostQuantum", "None")
      /\ m = NodeOf(g, "Intermediate", "PostQuantum", "PostQuantum", "None")
  BY DEF PureNode
<1>2. /\ a = pure_position_evidence(g, n)[1] /\ b = pure_position_evidence(g, m)[1]
  BY DEF PureItems
<1>3. Hashed(stack) /\ anchor \in Sha256
  BY PresentedIsHashed DEF SelectedIsHashed, Measured
<1>4. pure_submission(g) = Submission(stack, anchor, <<n, m>>, <<>>, <<a, b>>)
  BY PureForm
<1> HIDE DEF n, m, a, b, stack, anchor
<1>5. /\ n.id = <<"leaf">> /\ m.id = <<"intermediate">> /\ n.id # m.id
      /\ {n.der_sha256, n.issuer_edge_sha256, m.der_sha256, m.issuer_edge_sha256} \subseteq Sha256
      /\ Certified(n, "EndEntity") /\ Certified(m, "Intermediate")
      /\ n.binding_design = "None" /\ m.binding_design = "None"
  BY <1>1, HierarchyCertified
<1>6. ASSUME NEW x, NEW c, c.id = <<x>>, {c.der_sha256, c.issuer_edge_sha256} \subseteq Sha256
      PROVE  Witness(pure_position_evidence(g, c)[1], x, "PostQuantum", c, None)
  BY <1>6, WitnessItem DEF pure_position_evidence
<1>7. /\ Witness(a, "leaf", "PostQuantum", n, None)
      /\ Witness(b, "intermediate", "PostQuantum", m, None)
  BY <1>2, <1>5, <1>6
<1>8. Itemized(<<a, b>>, n, m, None, None)
  BY <1>7, ItemizedEach
<1>9. Paired(<<>>, n, m) /\ Operated(<<>>, n, None) /\ Operated(<<>>, m, None)
  BY <1>5, NothingPaired
<1> QED
  BY <1>3, <1>4, <1>5, <1>8, <1>9, SubmissionIsOrderly, OrderlyIsAdmissible

LEMMA RelatedAdmissible ==
  ASSUME NEW g, Measured(g), SelectedIsHashed(g),
         \A p \in {"EndEntity", "Intermediate"} : g[<<p, "post_quantum_digest">>] \in Sha256
  PROVE  Admissible(related_submission(g))
<1> DEFINE n == RelatedNode(g, "EndEntity")
           m == RelatedNode(g, "Intermediate")
           e == RelatedItems(g, "EndEntity")
           f == RelatedItems(g, "Intermediate")
           u == RelatedPair(g, "EndEntity")
           w == RelatedPair(g, "Intermediate")
           stack == Presented(g[<<"path", "classical_path">>], "X509Path",
             g[<<"path", "selected">>])
           anchor == g[<<"anchor", "digest">>]
           operation == <<"leaf", "related-authentication">>
           other == <<"intermediate", "related-authentication">>
<1>1. /\ n = NodeOf(g, "EndEntity", "Classical", "Classical", "RelatedCertificate")
      /\ m = NodeOf(g, "Intermediate", "Classical", "Classical", "RelatedCertificate")
  BY DEF RelatedNode
<1>2. /\ e = related_position_evidence(g, n) /\ f = related_position_evidence(g, m)
  BY DEF RelatedItems
<1>3. Hashed(stack) /\ anchor \in Sha256
  BY PresentedIsHashed DEF SelectedIsHashed, Measured
<1>4. related_submission(g) = Submission(stack, anchor, <<n, m>>, <<u, w>>, BothItems(e, f))
  BY RelatedForm
<1>5. /\ u = UnpairedUse(n, related_operation(n), g[<<n.position, "post_quantum_digest">>])
      /\ w = UnpairedUse(m, related_operation(m), g[<<m.position, "post_quantum_digest">>])
  BY DEF RelatedPair
<1> HIDE DEF n, m, e, f, u, w, stack, anchor
<1>6. /\ n.id = <<"leaf">> /\ m.id = <<"intermediate">> /\ n.id # m.id
      /\ {n.der_sha256, n.issuer_edge_sha256, m.der_sha256, m.issuer_edge_sha256} \subseteq Sha256
      /\ Certified(n, "EndEntity") /\ Certified(m, "Intermediate")
      /\ n.binding_design = "RelatedCertificate" /\ m.binding_design = "RelatedCertificate"
      /\ n.position = "EndEntity" /\ m.position = "Intermediate"
  BY <1>1, HierarchyCertified
<1>7. related_operation(n) = operation /\ related_operation(m) = other
  BY <1>6, JoinedPairs DEF related_operation
<1>8. /\ u.operation_id = operation /\ u.classical_certificate_id = n.id
      /\ u.post_quantum_certificate_der_sha256 \in Sha256
      /\ w.operation_id = other /\ w.classical_certificate_id = m.id
      /\ w.post_quantum_certificate_der_sha256 \in Sha256
  BY <1>5, <1>6, <1>7 DEF UnpairedUse
<1>9. operation # EmptyString /\ other # EmptyString /\ operation # other
  BY RequestsAreNamed
<1>10. ASSUME NEW x, NEW c, c.id = <<x>>, {c.der_sha256, c.issuer_edge_sha256} \subseteq Sha256,
              c.position \in {"EndEntity", "Intermediate"}
       PROVE  /\ Witness(related_position_evidence(g, c)[1], x, "Classical", c,
                         related_operation(c))
              /\ Witness(related_position_evidence(g, c)[2], x, "PostQuantum", c,
                         related_operation(c))
  BY <1>10, WitnessItem DEF related_position_evidence
<1>11. /\ Witness(e[1], "leaf", "Classical", n, operation)
       /\ Witness(e[2], "leaf", "PostQuantum", n, operation)
       /\ Witness(f[1], "intermediate", "Classical", m, other)
       /\ Witness(f[2], "intermediate", "PostQuantum", m, other)
  BY <1>2, <1>6, <1>7, <1>10
<1> HIDE DEF operation, other
<1>12. Itemized(BothItems(e, f), n, m, operation, other)
  BY <1>11, ItemizedFour
<1>13. Paired(<<u, w>>, n, m)
  BY <1>6, <1>8, <1>9 DEF Paired
<1>14. Operated(<<u, w>>, n, operation) /\ Operated(<<u, w>>, m, other)
  <2>1. Range(<<u, w>>) = {u, w}
    BY PairRange
  <2> QED
    BY <1>6, <1>8, <2>1 DEF Operated
<1> QED
  BY <1>3, <1>4, <1>6, <1>12, <1>13, <1>14, SubmissionIsOrderly, OrderlyIsAdmissible

-----------------------------------------------------------------------------
(* What the analyses of one credential submit *)

\* The digests of the credential, of its issuer and of the anchor.
Credentialed(g) ==
  {g[<<"node", "digest">>], g[<<"node", "edge">>], g[<<"issuer", "digest">>],
   g[<<"issuer", "edge">>], g[<<"anchor", "digest">>]} \subseteq Sha256
\* The digests that the evidence carries.
Evidential(g) == {g[<<"evidence", "digest">>], g[<<"evidence", "edge">>]} \subseteq Sha256

LEMMA CredentialCertified ==
  ASSUME NEW g, Credentialed(g), NEW signature, NEW design, NEW n, NEW m,
         n = CredentialNode(g, signature, design), m = CredentialIssuer(g),
         design = "AtomicComposite" => signature = "Hybrid"
  PROVE  /\ Certified(n, "EndEntity") /\ Certified(m, "Intermediate")
         /\ n.id = <<"end-entity">> /\ m.id = <<"issuer">> /\ n.id # m.id
         /\ n.binding_design = design /\ m.binding_design = "None"
<1>1. /\ n.id = <<"end-entity">> /\ n.position = "EndEntity"
      /\ n.certificate_signature_scheme = signature /\ n.binding_design = design
      /\ n.der_sha256 = g[<<"node", "digest">>] /\ n.issuer_edge_sha256 = g[<<"node", "edge">>]
  BY CredentialNodeFields
<1>2. /\ m.id = <<"issuer">> /\ m.position = "Intermediate" /\ m.binding_design = "None"
      /\ m.der_sha256 = g[<<"issuer", "digest">>]
      /\ m.issuer_edge_sha256 = g[<<"issuer", "edge">>]
  BY NodeFields DEF CredentialIssuer
<1> QED
  BY <1>1, <1>2 DEF Certified, Credentialed, valid_certificate_properties

LEMMA CredentialAdmissible ==
  ASSUME NEW g, Credentialed(g), NEW stack, Hashed(stack), NEW signature, NEW design,
         NEW n, NEW m, NEW e, e = <<e[1], e[2]>>,
         n = CredentialNode(g, signature, design), m = CredentialIssuer(g),
         design = "AtomicComposite" => signature = "Hybrid", design # "RelatedCertificate",
         Witness(e[1], "end-entity", "Classical", n, None),
         Witness(e[2], "end-entity", "PostQuantum", n, None)
  PROVE  Admissible(Submission(stack, g[<<"anchor", "digest">>], <<n, m>>, <<>>, e))
<1>1. /\ Certified(n, "EndEntity") /\ Certified(m, "Intermediate") /\ n.id # m.id
      /\ n.binding_design = design /\ m.binding_design = "None"
  BY CredentialCertified
<1>2. Itemized(e, n, m, None, None)
  <2> DEFINE a == e[1]  b == e[2]
  <2>1. e = <<a, b>> /\ Witness(a, "end-entity", "Classical", n, None)
        /\ Witness(b, "end-entity", "PostQuantum", n, None)
    OBVIOUS
  <2> HIDE DEF a, b
  <2> QED
    BY <2>1, ItemizedTwo
<1>3. Paired(<<>>, n, m) /\ Operated(<<>>, n, None) /\ Operated(<<>>, m, None)
  BY <1>1, NothingPaired
<1>4. g[<<"anchor", "digest">>] \in Sha256
  BY DEF Credentialed
<1> DEFINE anchor == g[<<"anchor", "digest">>]
<1>5. anchor \in Sha256
  BY <1>4
<1> HIDE DEF anchor
<1>6. ASSUME NEW nn, NEW mm, NEW ee, Certified(nn, "EndEntity"), Certified(mm, "Intermediate"),
             nn.id # mm.id, Itemized(ee, nn, mm, None, None), Paired(<<>>, nn, mm),
             Operated(<<>>, nn, None), Operated(<<>>, mm, None)
      PROVE  Admissible(Submission(stack, anchor, <<nn, mm>>, <<>>, ee))
  BY <1>5, <1>6, SubmissionIsOrderly, OrderlyIsAdmissible
<1>7. Admissible(Submission(stack, anchor, <<n, m>>, <<>>, e))
  BY <1>1, <1>2, <1>3, <1>6, Zenon
<1> QED
  BY <1>7 DEF anchor

LEMMA PairAdmissible ==
  ASSUME NEW g, Credentialed(g), NEW stack, Hashed(stack), g[<<"pair", "digest">>] \in Sha256,
         NEW n, NEW m, NEW e, e = <<e[1], e[2]>>,
         n = CredentialNode(g, "Classical", "RelatedCertificate"), m = CredentialIssuer(g),
         Witness(e[1], "end-entity", "Classical", n, PairOperation),
         Witness(e[2], "end-entity", "PostQuantum", n, PairOperation)
  PROVE  Admissible(Submission(stack, g[<<"anchor", "digest">>], <<n, m>>, unpaired(g, n), e))
<1>1. /\ Certified(n, "EndEntity") /\ Certified(m, "Intermediate") /\ n.id # m.id
      /\ n.binding_design = "RelatedCertificate" /\ m.binding_design = "None"
  BY CredentialCertified
<1>2. Itemized(e, n, m, PairOperation, None)
  <2> DEFINE a == e[1]  b == e[2]
  <2>1. e = <<a, b>> /\ Witness(a, "end-entity", "Classical", n, PairOperation)
        /\ Witness(b, "end-entity", "PostQuantum", n, PairOperation)
    OBVIOUS
  <2> HIDE DEF a, b
  <2> QED
    BY <2>1, ItemizedTwo
<1> DEFINE u == UnpairedUse(n, PairOperation, g[<<"pair", "digest">>])
<1>3. /\ u.operation_id = PairOperation /\ u.classical_certificate_id = n.id
      /\ u.post_quantum_certificate_der_sha256 \in Sha256
  BY DEF UnpairedUse
<1>4. unpaired(g, n) = <<u>>
  BY DEF unpaired
<1> HIDE DEF u
<1>5. Paired(<<u>>, n, m)
  BY <1>1, <1>3, RequestsAreNamed DEF Paired
<1>6. Operated(<<u>>, n, PairOperation) /\ Operated(<<u>>, m, None)
  BY <1>1, <1>3 DEF Operated, Range
<1>7. g[<<"anchor", "digest">>] \in Sha256
  BY DEF Credentialed
<1> QED
  BY <1>1, <1>2, <1>4, <1>5, <1>6, <1>7, SubmissionIsOrderly, OrderlyIsAdmissible

LEMMA BouncyCastleAdmissible ==
  ASSUME NEW g, Credentialed(g), SelectedIsHashed(g)
  PROVE  Admissible(catalyst_bouncy_castle_submission(g))
<1> DEFINE n == CredentialNode(g, "Classical", "Catalyst")
           m == BouncyCastleIssuer(g)
           e == BouncyCastleLeafItems(g)
           f == BouncyCastleIssuerItems(g)
           stack == Presented(g[<<"leaf", "valid_default">>], "X509Path", g[<<"path", "selected">>])
           anchor == g[<<"anchor", "digest">>]
<1>1. /\ n.id = <<"end-entity">> /\ n.position = "EndEntity" /\ n.binding_design = "Catalyst"
      /\ n.der_sha256 = g[<<"node", "digest">>] /\ n.issuer_edge_sha256 = g[<<"node", "edge">>]
  BY CredentialNodeFields
<1>2. /\ m.id = <<"intermediate">> /\ m.position = "Intermediate"
      /\ m.binding_design = "Catalyst" /\ m.der_sha256 = g[<<"issuer", "digest">>]
      /\ m.issuer_edge_sha256 = g[<<"issuer", "edge">>]
  BY NodeFields DEF BouncyCastleIssuer
<1>3. {n.der_sha256, n.issuer_edge_sha256, m.der_sha256, m.issuer_edge_sha256} \subseteq Sha256
  BY <1>1, <1>2 DEF Credentialed
<1>4. /\ Witness(e[1], "end-entity", "Classical", n, None)
      /\ Witness(e[2], "end-entity", "PostQuantum", n, None)
  <2> HIDE DEF n
  <2> QED
    BY <1>1, <1>3, WitnessItem DEF BouncyCastleLeafItems, n
<1>5. /\ Witness(f[1], "intermediate", "Classical", m, None)
      /\ Witness(f[2], "intermediate", "PostQuantum", m, None)
  <2> HIDE DEF m
  <2> QED
    BY <1>2, <1>3, WitnessItem DEF BouncyCastleIssuerItems, m
<1>6. Hashed(stack) /\ anchor \in Sha256
  BY PresentedIsHashed DEF SelectedIsHashed, Credentialed
<1>7. catalyst_bouncy_castle_submission(g)
        = Submission(stack, anchor, <<n, m>>, <<>>, BothItems(e, f))
  BY BouncyCastleForm
<1> HIDE DEF n, m, e, f, stack, anchor
<1>8. Certified(n, "EndEntity") /\ Certified(m, "Intermediate") /\ n.id # m.id
  BY <1>1, <1>2, <1>3 DEF Certified, valid_certificate_properties
<1>9. Itemized(BothItems(e, f), n, m, None, None)
  BY <1>4, <1>5, ItemizedFour
<1>10. Paired(<<>>, n, m) /\ Operated(<<>>, n, None) /\ Operated(<<>>, m, None)
  BY <1>1, <1>2, NothingPaired
<1> QED
  BY <1>6, <1>7, <1>8, <1>9, <1>10, SubmissionIsOrderly, OrderlyIsAdmissible

LEMMA OpenSslAdmissible ==
  ASSUME NEW g, Credentialed(g), Evidential(g), SelectedIsHashed(g),
           g[<<"pair", "digest">>] \in Sha256
  PROVE  Admissible(related_openssl_submission(g))
<1> DEFINE n == CredentialNode(g, "Classical", "RelatedCertificate")
           m == CredentialIssuer(g)
           e == related_openssl_evidence(g, n)
           stack == Presented(g[<<"leaf", "classical">>], "X509Path", g[<<"path", "selected">>])
<1>1. n.id = <<"end-entity">>
  BY CredentialNodeFields
<1>2. related_openssl_submission(g)
        = Submission(stack, g[<<"anchor", "digest">>], <<n, m>>, unpaired(g, n), e)
  BY OpenSslForm DEF OpenSslNode
<1>3. Hashed(stack)
  BY PresentedIsHashed DEF SelectedIsHashed
<1>4. ASSUME NEW knd, NEW artifact \in Sha256, NEW signature, NEW binding, NEW path,
             NEW validity, NEW revocation, NEW sensitive, NEW method,
             method = "None" => revocation = not_checked
      PROVE  Witness(LeafItem(g, n, knd, artifact, PairOperation,
                              Checks(signature, binding, path, validity, revocation, sensitive),
                              method), "end-entity", knd, n, PairOperation)
  <2> DEFINE checks == Checks(signature, binding, path, validity, revocation, sensitive)
  <2>1. checks["revocation"] = revocation
    BY ChecksFields
  <2>2. ~(checks["revocation"].state = "Pass" /\ method = "None")
    BY <1>4, <2>1 DEF not_checked, observed
  <2> HIDE DEF checks, n
  <2> QED
    BY <1>1, <2>2, WitnessLeafItem DEF Evidential, checks
<1>5. g[<<"evidence", "digest">>] \in Sha256
  BY DEF Evidential
<1>6. /\ Witness(e[1], "end-entity", "Classical", n, PairOperation)
      /\ Witness(e[2], "end-entity", "PostQuantum", n, PairOperation)
      /\ e = <<e[1], e[2]>>
  <2> HIDE DEF n
  <2> QED
    BY <1>4, <1>5 DEF related_openssl_evidence, n
<1> HIDE DEF n, m, e, stack
<1> QED
  BY <1>2, <1>3, <1>6, PairAdmissible DEF n, m

LEMMA AtomicTlsAdmissible ==
  ASSUME NEW g, Credentialed(g), Evidential(g), SelectedIsHashed(g)
  PROVE  Admissible(atomic_tls_submission(g))
<1> DEFINE n == CredentialNode(g, "Hybrid", "AtomicComposite")
           m == CredentialIssuer(g)
           e == <<AtomicTlsItem(g, "Classical", "invalid_classical"),
                  AtomicTlsItem(g, "PostQuantum", "invalid_post_quantum")>>
           stack == Presented(g[<<"tls", "valid">>], "WebPkiServer", g[<<"path", "selected">>])
<1>1. n.id = <<"end-entity">>
  BY CredentialNodeFields
<1>2. atomic_tls_submission(g)
        = Submission(stack, g[<<"anchor", "digest">>], <<n, m>>, <<>>, e)
  BY AtomicTlsForm
<1>3. Hashed(stack)
  BY PresentedIsHashed DEF SelectedIsHashed
<1>4. ASSUME NEW knd, NEW artifact \in Sha256, NEW signature, NEW binding, NEW path,
             NEW validity, NEW revocation, NEW sensitive, NEW method,
             method = "None" => revocation = not_checked
      PROVE  Witness(LeafItem(g, n, knd, artifact, None,
                              Checks(signature, binding, path, validity, revocation, sensitive),
                              method), "end-entity", knd, n, None)
  <2> DEFINE checks == Checks(signature, binding, path, validity, revocation, sensitive)
  <2>1. checks["revocation"] = revocation
    BY ChecksFields
  <2>2. ~(checks["revocation"].state = "Pass" /\ method = "None")
    BY <1>4, <2>1 DEF not_checked, observed
  <2> HIDE DEF checks, n
  <2> QED
    BY <1>1, <2>2, WitnessLeafItem DEF Evidential, checks
<1>5. g[<<"evidence", "digest">>] \in Sha256
  BY DEF Evidential
<1>6. /\ Witness(e[1], "end-entity", "Classical", n, None)
      /\ Witness(e[2], "end-entity", "PostQuantum", n, None)
      /\ e = <<e[1], e[2]>>
  <2> HIDE DEF n
  <2> QED
    BY <1>4, <1>5 DEF AtomicTlsItem, AtomicTlsChecks, n
<1> HIDE DEF n, m, e, stack
<1> QED
  BY <1>2, <1>3, <1>6, CredentialAdmissible DEF n, m

LEMMA CatalystTlsAdmissible ==
  ASSUME NEW g, Credentialed(g), Evidential(g), SelectedIsHashed(g)
  PROVE  Admissible(catalyst_tls_submission(g))
<1> DEFINE n == CredentialNode(g, "Classical", "Catalyst")
           m == CredentialIssuer(g)
           e == CatalystTlsItems(g)
           stack == Presented(g[<<"tls", "valid">>], "WebPkiServer", g[<<"path", "selected">>])
<1>1. n.id = <<"end-entity">>
  BY CredentialNodeFields
<1>2. catalyst_tls_submission(g)
        = Submission(stack, g[<<"anchor", "digest">>], <<n, m>>, <<>>, e)
  BY CatalystTlsForm
<1>3. Hashed(stack)
  BY PresentedIsHashed DEF SelectedIsHashed
<1>4. ASSUME NEW knd, NEW artifact \in Sha256, NEW signature, NEW binding, NEW path,
             NEW validity, NEW revocation, NEW sensitive, NEW method,
             method = "None" => revocation = not_checked
      PROVE  Witness(LeafItem(g, n, knd, artifact, None,
                              Checks(signature, binding, path, validity, revocation, sensitive),
                              method), "end-entity", knd, n, None)
  <2> DEFINE checks == Checks(signature, binding, path, validity, revocation, sensitive)
  <2>1. checks["revocation"] = revocation
    BY ChecksFields
  <2>2. ~(checks["revocation"].state = "Pass" /\ method = "None")
    BY <1>4, <2>1 DEF not_checked, observed
  <2> HIDE DEF checks, n
  <2> QED
    BY <1>1, <2>2, WitnessLeafItem DEF Evidential, checks
<1>5. g[<<"evidence", "digest">>] \in Sha256
  BY DEF Evidential
<1>6. /\ Witness(e[1], "end-entity", "Classical", n, None)
      /\ Witness(e[2], "end-entity", "PostQuantum", n, None)
      /\ e = <<e[1], e[2]>>
  <2> HIDE DEF n
  <2> QED
    BY <1>4, <1>5 DEF CatalystTlsItems, n
<1> HIDE DEF n, m, e, stack
<1> QED
  BY <1>2, <1>3, <1>6, CredentialAdmissible DEF n, m

LEMMA ChameleonTlsAdmissible ==
  ASSUME NEW g, Credentialed(g), Evidential(g), SelectedIsHashed(g)
  PROVE  Admissible(chameleon_tls_submission(g))
<1> DEFINE n == CredentialNode(g, "Classical", "Chameleon")
           m == CredentialIssuer(g)
           e == ChameleonTlsItems(g)
           stack == Presented(g[<<"tls", "valid_base">>], "WebPkiServer", g[<<"path", "selected">>])
<1>1. n.id = <<"end-entity">>
  BY CredentialNodeFields
<1>2. chameleon_tls_submission(g)
        = Submission(stack, g[<<"anchor", "digest">>], <<n, m>>, <<>>, e)
  BY ChameleonTlsForm
<1>3. Hashed(stack)
  BY PresentedIsHashed DEF SelectedIsHashed
<1>4. ASSUME NEW knd, NEW artifact \in Sha256, NEW signature, NEW binding, NEW path,
             NEW validity, NEW revocation, NEW sensitive, NEW method,
             method = "None" => revocation = not_checked
      PROVE  Witness(LeafItem(g, n, knd, artifact, None,
                              Checks(signature, binding, path, validity, revocation, sensitive),
                              method), "end-entity", knd, n, None)
  <2> DEFINE checks == Checks(signature, binding, path, validity, revocation, sensitive)
  <2>1. checks["revocation"] = revocation
    BY ChecksFields
  <2>2. ~(checks["revocation"].state = "Pass" /\ method = "None")
    BY <1>4, <2>1 DEF not_checked, observed
  <2> HIDE DEF checks, n
  <2> QED
    BY <1>1, <2>2, WitnessLeafItem DEF Evidential, checks
<1>5. g[<<"evidence", "digest">>] \in Sha256
  BY DEF Evidential
<1>6. /\ Witness(e[1], "end-entity", "Classical", n, None)
      /\ Witness(e[2], "end-entity", "PostQuantum", n, None)
      /\ e = <<e[1], e[2]>>
  <2> HIDE DEF n
  <2> QED
    BY <1>4, <1>5 DEF ChameleonTlsItems, n
<1> HIDE DEF n, m, e, stack
<1> QED
  BY <1>2, <1>3, <1>6, CredentialAdmissible DEF n, m

LEMMA RelatedTlsAdmissible ==
  ASSUME NEW g, Credentialed(g), Evidential(g), SelectedIsHashed(g),
           g[<<"pair", "digest">>] \in Sha256
  PROVE  Admissible(related_tls_submission(g))
<1> DEFINE n == CredentialNode(g, "Classical", "RelatedCertificate")
           m == CredentialIssuer(g)
           e == related_tls_evidence(g, n)
           stack == Presented(g[<<"tls", "classical">>], "WebPkiServer", g[<<"path", "selected">>])
<1>1. n.id = <<"end-entity">>
  BY CredentialNodeFields
<1>2. related_tls_submission(g)
        = Submission(stack, g[<<"anchor", "digest">>], <<n, m>>, unpaired(g, n), e)
  BY RelatedTlsForm
<1>3. Hashed(stack)
  BY PresentedIsHashed DEF SelectedIsHashed
<1>4. ASSUME NEW knd, NEW artifact \in Sha256, NEW signature, NEW binding, NEW path,
             NEW validity, NEW revocation, NEW sensitive, NEW method,
             method = "None" => revocation = not_checked
      PROVE  Witness(LeafItem(g, n, knd, artifact, PairOperation,
                              Checks(signature, binding, path, validity, revocation, sensitive),
                              method), "end-entity", knd, n, PairOperation)
  <2> DEFINE checks == Checks(signature, binding, path, validity, revocation, sensitive)
  <2>1. checks["revocation"] = revocation
    BY ChecksFields
  <2>2. ~(checks["revocation"].state = "Pass" /\ method = "None")
    BY <1>4, <2>1 DEF not_checked, observed
  <2> HIDE DEF checks, n
  <2> QED
    BY <1>1, <2>2, WitnessLeafItem DEF Evidential, checks
<1>5. g[<<"evidence", "digest">>] \in Sha256
  BY DEF Evidential
<1>6. /\ Witness(e[1], "end-entity", "Classical", n, PairOperation)
      /\ Witness(e[2], "end-entity", "PostQuantum", n, PairOperation)
      /\ e = <<e[1], e[2]>>
  <2> HIDE DEF n
  <2> QED
    BY <1>4, <1>5 DEF related_tls_evidence, n
<1> HIDE DEF n, m, e, stack
<1> QED
  BY <1>2, <1>3, <1>6, PairAdmissible DEF n, m

-----------------------------------------------------------------------------
(* What the cross-signed analysis submits *)

\* The digests of the path that a run of the builder reports.
PathReported(g, id) ==
  /\ g[<<id, "leaf">>] \in Sha256
  /\ <<g[<<id, "route">>], "intermediate", "v1">> \in Sha256
  /\ <<g[<<id, "route">>], "root", "v1">> \in Sha256

LEMMA BuiltIsHashed ==
  ASSUME NEW g, NEW id, PathReported(g, id)
  PROVE  Hashed(Built(g, id))
<1> DEFINE route == g[<<id, "route">>]
           a == g[<<id, "leaf">>]
           b == <<route, "intermediate", "v1">>
           c == <<route, "root", "v1">>
<1>1. a \in Sha256 /\ b \in Sha256 /\ c \in Sha256
  BY DEF PathReported
<1>2. Built(g, id) = [Presented("Accept", "X509Path", <<a, b, c>>)
                        EXCEPT !.selected_path_source = "AdapterSelected"]
  BY DEF Built
<1> HIDE DEF a, b, c
<1> DEFINE selected == <<a, b, c>>
<1>3. selected[1] \in Sha256 /\ selected[2] \in Sha256 /\ selected[3] \in Sha256
  BY <1>1
<1> HIDE DEF selected
<1> DEFINE p == Presented("Accept", "X509Path", selected)
<1>4. Hashed(p)
  BY <1>3, PresentedIsHashed
<1>5. LET q == [p EXCEPT !.selected_path_source = "AdapterSelected"] IN
      /\ q.certification_path_der_sha256 = p.certification_path_der_sha256
      /\ q.trust_anchor = p.trust_anchor
      /\ q.applied_validation_time = p.applied_validation_time
  BY DEF Presented
<1> HIDE DEF p
<1>6. Hashed([p EXCEPT !.selected_path_source = "AdapterSelected"])
  BY <1>4, <1>5 DEF Hashed
<1> QED
  BY <1>2, <1>6 DEF p, selected

LEMMA AtomicRouteAdmissible ==
  ASSUME NEW g, Measured(g), PathReported(g, "selected")
  PROVE  Admissible(evaluate_atomic_route(g))
<1>1. evaluate_atomic_route(g)
        = Submission(Built(g, "selected"), g[<<"anchor", "digest">>],
                     <<AtomicNode(g, "EndEntity"), AtomicNode(g, "Intermediate")>>, <<>>,
                     BothItems(AtomicItems(g, "EndEntity"), AtomicItems(g, "Intermediate")))
  BY AtomicForm DEF evaluate_atomic_route
<1> QED
  BY <1>1, BuiltIsHashed, AtomicOrderly, OrderlyIsAdmissible

\* The digests taken for the classical route.
RouteHashed(g) ==
  \A w \in {"leaf", "leaf_edge", "intermediate", "intermediate_edge", "root"} :
    g[<<"route", w>>] \in Sha256

LEMMA WitnessRouteItem ==
  ASSUME NEW g, NEW n, NEW knd, NEW artifact, NEW checks, NEW method, method # "None",
         n.id = <<"leaf">>, n.position = "EndEntity", RouteHashed(g), artifact \in Sha256
  PROVE  Witness(RouteItem(g, Item(n, knd, artifact, None, checks, method)), "leaf", knd,
                 RouteLeaf(g), None)
<1> DEFINE i == RouteItem(g, Item(n, knd, artifact, None, checks, method))
           c == RouteLeaf(g)
<1>1. /\ i.id = n.id \o <<knd>> /\ i.certificate_id = n.id /\ i.position = n.position
      /\ i.kind = knd /\ i.certificate_der_sha256 = c.der_sha256
      /\ i.evidence_artifact_der_sha256 = artifact /\ i.issuer_edge_sha256 = c.issuer_edge_sha256
      /\ i.authentication_operation_id = None /\ i.revocation_method = method
      /\ i.applied_revocation_policy = crl_hard_fail
  BY DEF RouteItem, Item
<1>2. n.id \o <<knd>> = <<"leaf", knd>>
  BY JoinedPairs
<1>3. /\ c.id = <<"leaf">> /\ c.position = "EndEntity"
      /\ {c.der_sha256, c.issuer_edge_sha256} \subseteq Sha256
  BY NodeFields DEF RouteLeaf, RouteHashed
<1> HIDE DEF i, c
<1>4. Witness(i, "leaf", knd, c, None)
  BY <1>1, <1>2, <1>3 DEF Witness, About
<1> QED
  BY <1>4 DEF i, c

LEMMA ClassicalRouteAdmissible ==
  ASSUME NEW g, Measured(g), RouteHashed(g), PathReported(g, "classical_fallback")
  PROVE  Admissible(evaluate_classical_route(g))
<1> DEFINE n == RouteLeaf(g)
           m == RouteIntermediate(g)
           i == RouteItem(g, AtomicItems(g, "EndEntity")[1])
           q == RouteItem(g, AtomicItems(g, "EndEntity")[2])
           j == RouteIntermediateItem(g)
           anchor == g[<<"route", "root">>]
           stack == Built(g, "classical_fallback")
<1>1. evaluate_classical_route(g) = Submission(stack, anchor, <<n, m>>, <<>>, <<i, q, j>>)
  BY ClassicalRouteForm
<1>2. /\ n.id = <<"leaf">> /\ n.position = "EndEntity" /\ m.id = <<"intermediate">>
      /\ m.position = "Intermediate" /\ m.binding_design = "None"
      /\ n.binding_design = "AtomicComposite" /\ n.certificate_signature_scheme = "Hybrid"
      /\ {n.der_sha256, n.issuer_edge_sha256, m.der_sha256, m.issuer_edge_sha256}
           \subseteq Sha256
  BY NodeFields DEF RouteLeaf, RouteIntermediate, RouteHashed
<1>3. anchor \in Sha256 /\ Hashed(stack)
  BY BuiltIsHashed DEF RouteHashed
<1>4. Witness(i, "leaf", "Classical", n, None) /\ Witness(q, "leaf", "PostQuantum", n, None)
  <2> DEFINE a == AtomicNode(g, "EndEntity")
  <2>1. /\ a.id = <<"leaf">> /\ a.position = "EndEntity" /\ a.der_sha256 \in Sha256
    BY HierarchyCertified DEF AtomicNode
  <2>2. AtomicItems(g, "EndEntity") = atomic_position_evidence(g, a)
    BY DEF AtomicItems
  <2> HIDE DEF a, n
  <2>3. /\ Witness(RouteItem(g, atomic_position_evidence(g, a)[1]), "leaf", "Classical",
                   RouteLeaf(g), None)
        /\ Witness(RouteItem(g, atomic_position_evidence(g, a)[2]), "leaf", "PostQuantum",
                   RouteLeaf(g), None)
    BY <2>1, WitnessRouteItem DEF atomic_position_evidence
  <2> QED
    BY <2>2, <2>3 DEF n
<1>5. Witness(j, "intermediate", "Classical", m, None)
  <2> HIDE DEF m
  <2> QED
    BY <1>2, WitnessItem DEF RouteIntermediateItem, m
<1>6. Certified(n, "EndEntity") /\ Certified(m, "Intermediate") /\ n.id # m.id
  BY <1>2 DEF Certified, valid_certificate_properties, RouteLeaf, RouteIntermediate, Node
<1> HIDE DEF n, m, i, q, j, anchor, stack
<1>7. Itemized(<<i, q, j>>, n, m, None, None)
  BY <1>4, <1>5, ItemizedThree
<1>8. Paired(<<>>, n, m) /\ Operated(<<>>, n, None) /\ Operated(<<>>, m, None)
  BY <1>2, NothingPaired
<1>9. Orderly(Submission(stack, anchor, <<n, m>>, <<>>, <<i, q, j>>), n, m, None, None)
  BY <1>3, <1>6, <1>7, <1>8, SubmissionIsOrderly
<1> QED
  BY <1>1, <1>9, OrderlyIsAdmissible

-----------------------------------------------------------------------------
(* The routes of the cross-signed analysis *)

\* The builder's runs end by comparing their routes, and no later step is one
\* of them.
BuiltFirst(t) ==
  LET n == Len(builder_steps) IN
  /\ n \in DOMAIN t /\ t[n].op = "routes" /\ t[n].nominal = "expected"
  /\ \A i \in DOMAIN t : i > n => t[i].name[1] \notin BuilderIds

LEMMA BuiltFirstConcat ==
  ASSUME NEW t, NEW u, NEW A, NEW B, Grouped(t, A), Grouped(u, B), B \cap BuilderIds = {},
         BuiltFirst(t)
  PROVE  BuiltFirst(t \o u)
<1> DEFINE tu == t \o u
           n == Len(builder_steps)
<1>1. /\ \E X : t \in Seq(X)
      /\ \E X : u \in Seq(X)
      /\ \A i \in DOMAIN u : u[i].name[1] \in B
  BY DEF Grouped, Listed
<1>2. /\ Len(t) \in Nat /\ Len(u) \in Nat
      /\ DOMAIN t = 1 .. Len(t) /\ DOMAIN tu = 1 .. Len(t) + Len(u)
      /\ \A i \in 1 .. Len(t) + Len(u) :
           /\ i <= Len(t) => i \in DOMAIN t /\ tu[i] = t[i]
           /\ ~(i <= Len(t)) => i - Len(t) \in DOMAIN u /\ tu[i] = u[i - Len(t)]
  BY <1>1, Concatenation
<1> HIDE DEF tu
<1>3. /\ n \in DOMAIN t /\ t[n].op = "routes" /\ t[n].nominal = "expected"
      /\ \A i \in DOMAIN t : i > n => t[i].name[1] \notin BuilderIds
  BY DEF BuiltFirst
<1> HIDE DEF n
<1>4. n \in DOMAIN tu /\ tu[n] = t[n]
  BY <1>2, <1>3
<1>5. ASSUME NEW i \in DOMAIN tu, i > n PROVE tu[i].name[1] \notin BuilderIds
  <2>1. CASE i <= Len(t)
    BY <1>2, <1>3, <1>5, <2>1
  <2>2. CASE ~(i <= Len(t))
    BY <1>1, <1>2, <2>2
  <2> QED
    BY <2>1, <2>2
<1>6. BuiltFirst(tu)
  BY <1>3, <1>4, <1>5 DEF BuiltFirst, n
<1> QED
  BY <1>6 DEF tu

LEMMA CrossSignedBuiltFirst == BuiltFirst(cross_signed_steps)
<1> DEFINE b == builder_steps
           c == classical_control_steps
           a == atomic_steps
           r == classical_route_steps
<1>1. /\ Grouped(b, BuilderIds) /\ Grouped(c, {"control"}) /\ Grouped(a, TableIds)
      /\ Grouped(r, {"route"})
  BY BuilderTable, ControlTable, AtomicTable, RouteTable
<1>2. cross_signed_steps = b \o c \o a \o r
  BY DEF cross_signed_steps
<1>3. /\ {"control"} \cap BuilderIds = {} /\ TableIds \cap BuilderIds = {}
      /\ {"route"} \cap BuilderIds = {} /\ (BuilderIds \cup {"control"}) \cap TableIds = {}
  BY DEF BuilderIds, TableIds
<1>4. BuiltFirst(b)
  <2>1. PICK X : b \in Seq(X)
    BY <1>1 DEF Grouped, Listed
  <2>2. b[Len(b)].op = "routes" /\ b[Len(b)].nominal = "expected" /\ DOMAIN b # {}
    BY BuilderTable DEF Hashes
  <2>3. Len(b) \in Nat /\ DOMAIN b = 1 .. Len(b)
    BY <2>1
  <2>4. Len(b) \in DOMAIN b /\ \A i \in DOMAIN b : ~(i > Len(b))
    BY <2>2, <2>3
  <2> QED
    BY <2>2, <2>4 DEF BuiltFirst
<1> HIDE DEF a, b, c, r
<1>5. Grouped(b \o c, BuilderIds \cup {"control"}) /\ BuiltFirst(b \o c)
  BY <1>1, <1>3, <1>4, GroupedConcat, BuiltFirstConcat
<1>6. Grouped(b \o c \o a, BuilderIds \cup {"control"} \cup TableIds) /\ BuiltFirst(b \o c \o a)
  BY <1>1, <1>3, <1>5, GroupedConcat, BuiltFirstConcat
<1>7. BuiltFirst(b \o c \o a \o r)
  BY <1>1, <1>3, <1>6, BuiltFirstConcat
<1> QED
  BY <1>2, <1>7

\* What is compared is a result of the builder's runs.
RouteNames ==
  {<<id, "route">> : id \in {"selected", "forced_classical", "forced_atomic",
                             "classical_fallback", "atomic_fallback"}}
    \cup {<<"hash", w>> : w \in {"classical_ica", "classical_root", "atomic_ica", "atomic_root"}}

LEMMA ComparedResults ==
  ASSUME NEW f, NEW g, \A name \in RouteNames : f[name] = g[name]
  PROVE  routes_error(f) = routes_error(g)
<1> DEFINE ids == {"selected", "forced_classical", "forced_atomic", "classical_fallback",
                   "atomic_fallback"}
<1>1. ASSUME NEW id \in ids PROVE selected_path(f, id) = selected_path(g, id)
  <2>1. f[<<id, "route">>] = g[<<id, "route">>]
    BY DEF RouteNames
  <2>2. \A w \in {"classical_ica", "classical_root", "atomic_ica", "atomic_root"} :
          f[<<"hash", w>>] = g[<<"hash", w>>]
    BY DEF RouteNames
  <2> QED
    BY <2>1, <2>2 DEF selected_path
<1> QED
  BY <1>1 DEF routes_error

LEMMA RouteNamesAreSteps ==
  ASSUME AnalysisInv, kind = "cross_signed"
  PROVE  RouteNames \subseteq DOMAIN Nominal[kind]
<1>1. Table[kind] = cross_signed_steps
  BY TablesAreDistinct DEF AnalysisInv, StepsOf
<1>2. Part(builder_steps, Table[kind])
  BY <1>1, CrossTable
<1> DEFINE T == Table[kind]
<1>3. ASSUME NEW name, Has(T, name) PROVE name \in DOMAIN Nominal[kind]
  BY <1>3, NominalOfStep DEF Has, AnalysisInv
<1>4. ASSUME NEW w, Hashes(T, "hash", w) PROVE Has(T, <<"hash", w>>)
  BY <1>4 DEF Hashes, Has
<1> HIDE DEF T
<1>5. /\ Has(T, <<"selected", "route">>) /\ Has(T, <<"forced_classical", "route">>)
      /\ Has(T, <<"forced_atomic", "route">>) /\ Has(T, <<"classical_fallback", "route">>)
      /\ Has(T, <<"atomic_fallback", "route">>)
  BY <1>2, BuilderTable, PartHas DEF T
<1>6. /\ Has(T, <<"hash", "classical_ica">>) /\ Has(T, <<"hash", "classical_root">>)
      /\ Has(T, <<"hash", "atomic_ica">>) /\ Has(T, <<"hash", "atomic_root">>)
  BY <1>2, <1>4, BuilderTable, PartHashes DEF T
<1> QED
  BY <1>3, <1>5, <1>6 DEF RouteNames

\* Once compared, the routes stay what they are.
RoutesCompared ==
  kind = "cross_signed" /\ at > Len(builder_steps) => routes_error(results) = "ok"

LEMMA RecordKeepsRoutes ==
  ASSUME AnalysisInv, RoutesCompared, NEW ops, Running(ops), NEW value, Record(value),
         kind' = kind,
         "routes" \in ops => ops = {"routes"} /\ value = "expected" /\ routes_error(results) = "ok"
  PROVE  RoutesCompared'
<1> SUFFICES ASSUME kind = "cross_signed", at' > Len(builder_steps)
             PROVE  routes_error(results') = "ok"
  BY DEF RoutesCompared, results
<1> DEFINE n == Len(builder_steps)
<1>1. Table[kind] = cross_signed_steps
  BY TablesAreDistinct DEF AnalysisInv, StepsOf
<1>2. /\ n \in DOMAIN Table[kind] /\ Table[kind][n].op = "routes"
      /\ Table[kind][n].nominal = "expected"
      /\ \A i \in DOMAIN Table[kind] : i > n => Table[kind][i].name[1] \notin BuilderIds
  BY <1>1, CrossSignedBuiltFirst DEF BuiltFirst
<1>3. /\ DOMAIN Table[kind] = 1 .. Len(Table[kind]) /\ Len(Table[kind]) \in Nat
  BY TableIsSequence DEF AnalysisInv
<1>4. at \in DOMAIN Table[kind] /\ current = Table[kind][at] /\ current.op \in ops /\ at' = at + 1
  BY DEF Running, current, Record
<1>5. at \in Int /\ n \in Int /\ at >= n
  BY <1>2, <1>3, <1>4
<1>6. CASE at = n
  <2>1. current.op = "routes" /\ current.nominal = "expected"
    BY <1>2, <1>4, <1>6
  <2>2. odd' = odd /\ routes_error(results) = "ok"
    BY <1>4, <2>1 DEF Record
  <2>3. results' = results
    BY <2>2 DEF results
  <2> QED
    BY <2>2, <2>3
<1>7. CASE at > n
  <2>1. routes_error(results) = "ok"
    BY <1>7 DEF RoutesCompared
  <2>2. current.name[1] \notin BuilderIds
    BY <1>2, <1>4, <1>7
  <2>3. ASSUME NEW name \in RouteNames PROVE results'[name] = results[name]
    <3>1. name \in DOMAIN Nominal[kind]
      BY RouteNamesAreSteps
    <3>2. name[1] \in BuilderIds
      BY DEF RouteNames, BuilderIds
    <3>3. name # current.name
      BY <2>2, <3>2
    <3>4. /\ name \in DOMAIN odd' <=> name \in DOMAIN odd
          /\ name \in DOMAIN odd => odd'[name] = odd[name]
      BY <3>3 DEF Record, Noting
    <3> QED
      BY <3>1, <3>4 DEF results
  <2>4. routes_error(results') = routes_error(results)
    BY <2>3, ComparedResults
  <2> QED
    BY <2>1, <2>4
<1> QED
  BY <1>5, <1>6, <1>7

LEMMA RoutesReported ==
  ASSUME AnalysisInv, kind = "cross_signed", routes_error(results) = "ok"
  PROVE  PathReported(results, "selected") /\ PathReported(results, "classical_fallback")
<1> DEFINE g == results
<1>1. Table[kind] = cross_signed_steps
  BY TablesAreDistinct DEF AnalysisInv, StepsOf
<1>2. Part(builder_steps, Table[kind])
  BY <1>1, CrossTable
<1>3. /\ Hashes(Table[kind], "hash", "classical_ica")
      /\ Hashes(Table[kind], "hash", "classical_root")
      /\ Hashes(Table[kind], "hash", "atomic_ica") /\ Hashes(Table[kind], "hash", "atomic_root")
      /\ Hashes(Table[kind], "selected", "leaf")
      /\ Hashes(Table[kind], "classical_fallback", "leaf")
  BY <1>2, BuilderTable, PartHashes
<1>4. /\ g[<<"hash", "classical_ica">>] \in Sha256 /\ g[<<"hash", "classical_root">>] \in Sha256
      /\ g[<<"hash", "atomic_ica">>] \in Sha256 /\ g[<<"hash", "atomic_root">>] \in Sha256
      /\ g[<<"selected", "leaf">>] \in Sha256 /\ g[<<"classical_fallback", "leaf">>] \in Sha256
  BY <1>3, HashResult
<1>5. /\ selected_path(g, "selected") # "InvalidSelectedPath"
      /\ selected_path(g, "classical_fallback") # "InvalidSelectedPath"
  BY DEF routes_error
<1> HIDE DEF g
<1>6. ASSUME NEW id, selected_path(g, id) # "InvalidSelectedPath"
      PROVE  /\ <<g[<<id, "route">>], "intermediate", "v1">> \in Sha256
             /\ <<g[<<id, "route">>], "root", "v1">> \in Sha256
  <2>1. \/ /\ g[<<id, "route">>] = "classical"
           /\ g[<<"hash", "classical_ica">>] = <<"classical", "intermediate", "v1">>
           /\ g[<<"hash", "classical_root">>] = <<"classical", "root", "v1">>
        \/ /\ g[<<id, "route">>] = "atomic"
           /\ g[<<"hash", "atomic_ica">>] = <<"atomic", "intermediate", "v1">>
           /\ g[<<"hash", "atomic_root">>] = <<"atomic", "root", "v1">>
    BY <1>6 DEF selected_path
  <2> QED
    BY <1>4, <2>1
<1> QED
  BY <1>4, <1>5, <1>6 DEF PathReported, g

-----------------------------------------------------------------------------
(* What every analysis submits *)

\* Nothing is asked that the oracle refuses for its form, nor about a stack
\* that gave no verdict.
Ready(s) == Admissible(s) /\ s.stack.verdict \in StackVerdict

LEMMA PresentedIsReady ==
  ASSUME AnalysisInv, NEW id, NEW what, Runs(Table[kind], id, what, "Accept"), NEW profile,
         NEW anchor, NEW path, NEW pairs, NEW e, NEW s, Admissible(s),
         s = Submission(Presented(results[<<id, what>>], profile, results[<<"path", "selected">>]),
                        anchor, path, pairs, e)
  PROVE  Ready(s)
<1>1. "Accept" \in StackVerdict
  BY DEF StackVerdict
<1>2. results[<<id, what>>] \in StackVerdict
  BY <1>1, RunResult
<1>3. s.stack.verdict = results[<<id, what>>]
  BY SubmissionFields, StackFields
<1> QED
  BY <1>2, <1>3 DEF Ready

LEMMA MeasuredResults ==
  ASSUME AnalysisInv, Hashes(Table[kind], "EndEntity", "digest"),
         Hashes(Table[kind], "EndEntity", "edge"), Hashes(Table[kind], "Intermediate", "digest"),
         Hashes(Table[kind], "Intermediate", "edge"), Hashes(Table[kind], "anchor", "digest"),
         Selects(Table[kind])
  PROVE  Measured(results) /\ SelectedIsHashed(results)
<1>1. \A p \in {"EndEntity", "Intermediate"} :
        results[<<p, "digest">>] \in Sha256 /\ results[<<p, "edge">>] \in Sha256
  BY HashResult
<1>2. results[<<"anchor", "digest">>] \in Sha256
  BY HashResult
<1>3. SelectedIsHashed(results)
  BY SelectResult DEF SelectedIsHashed
<1> QED
  BY <1>1, <1>2, <1>3 DEF Measured

LEMMA CredentialedResults ==
  ASSUME AnalysisInv, Hashes(Table[kind], "node", "digest"), Hashes(Table[kind], "node", "edge"),
         Hashes(Table[kind], "issuer", "digest"), Hashes(Table[kind], "issuer", "edge"),
         Hashes(Table[kind], "anchor", "digest"), Selects(Table[kind])
  PROVE  Credentialed(results) /\ SelectedIsHashed(results)
<1>1. /\ results[<<"node", "digest">>] \in Sha256 /\ results[<<"node", "edge">>] \in Sha256
      /\ results[<<"issuer", "digest">>] \in Sha256 /\ results[<<"issuer", "edge">>] \in Sha256
      /\ results[<<"anchor", "digest">>] \in Sha256
  BY HashResult
<1>2. SelectedIsHashed(results)
  BY SelectResult DEF SelectedIsHashed
<1> QED
  BY <1>1, <1>2 DEF Credentialed

LEMMA EvidentialResults ==
  ASSUME AnalysisInv, Hashes(Table[kind], "evidence", "digest"),
         Hashes(Table[kind], "evidence", "edge")
  PROVE  Evidential(results)
BY HashResult DEF Evidential

LEMMA AtomicReady ==
  ASSUME AnalysisInv, kind \in {"atomic", "cross_signed"}
  PROVE  Ready(atomic_submission(results)) /\ Measured(results)
<1>0. Table[kind] = StepsOf(kind)
  BY TablesAreDistinct DEF AnalysisInv
<1>1. Part(atomic_steps, Table[kind])
  BY <1>0, CrossTable DEF StepsOf, Part
<1>2. /\ Runs(Table[kind], "path", "valid_path", "Accept") /\ AtomicAt(Table[kind], "EndEntity")
      /\ AtomicAt(Table[kind], "Intermediate") /\ Hashes(Table[kind], "anchor", "digest")
      /\ Selects(Table[kind])
  BY <1>1, AtomicTable, AtomicPart, PartRuns, PartHashes, PartSelects
<1>3. Measured(results) /\ SelectedIsHashed(results)
  BY <1>2, MeasuredResults DEF AtomicAt
<1>4. Admissible(atomic_submission(results))
  BY <1>3, AtomicAdmissible
<1> QED
  BY <1>2, <1>3, <1>4, AtomicForm, PresentedIsReady

LEMMA CatalystReady ==
  ASSUME AnalysisInv, kind = "catalyst"
  PROVE  Ready(catalyst_submission(results))
<1>1. Table[kind] = catalyst_steps
  BY TablesAreDistinct DEF AnalysisInv, StepsOf
<1>2. /\ Runs(Table[kind], "path", "valid_path", "Accept") /\ CatalystAt(Table[kind], "EndEntity")
      /\ CatalystAt(Table[kind], "Intermediate") /\ Hashes(Table[kind], "anchor", "digest")
      /\ Selects(Table[kind])
  BY <1>1, CatalystTable
<1>3. Measured(results) /\ SelectedIsHashed(results)
  BY <1>2, MeasuredResults DEF CatalystAt
<1>4. Admissible(catalyst_submission(results))
  BY <1>3, CatalystAdmissible
<1> QED
  BY <1>2, <1>4, CatalystForm, PresentedIsReady

LEMMA ChameleonReady ==
  ASSUME AnalysisInv, kind = "chameleon"
  PROVE  Ready(chameleon_submission(results))
<1>1. Table[kind] = chameleon_steps
  BY TablesAreDistinct DEF AnalysisInv, StepsOf
<1>2. /\ Runs(Table[kind], "path", "base_path", "Accept") /\ ChameleonAt(Table[kind], "EndEntity")
      /\ ChameleonAt(Table[kind], "Intermediate") /\ Hashes(Table[kind], "anchor", "digest")
      /\ Selects(Table[kind])
  BY <1>1, ChameleonTable
<1>3. Measured(results) /\ SelectedIsHashed(results)
  BY <1>2, MeasuredResults DEF ChameleonAt
<1>4. Admissible(chameleon_submission(results))
  BY <1>3, ChameleonAdmissible
<1> QED
  BY <1>2, <1>4, ChameleonForm, PresentedIsReady

LEMMA PureReady ==
  ASSUME AnalysisInv, kind = "pure"
  PROVE  Ready(pure_submission(results))
<1>1. Table[kind] = pure_steps
  BY TablesAreDistinct DEF AnalysisInv, StepsOf
<1>2. /\ Runs(Table[kind], "path", "valid_path", "Accept") /\ PureAt(Table[kind], "EndEntity")
      /\ PureAt(Table[kind], "Intermediate") /\ Hashes(Table[kind], "anchor", "digest")
      /\ Selects(Table[kind])
  BY <1>1, PureTable
<1>3. Measured(results) /\ SelectedIsHashed(results)
  BY <1>2, MeasuredResults DEF PureAt
<1>4. Admissible(pure_submission(results))
  BY <1>3, PureAdmissible
<1> QED
  BY <1>2, <1>4, PureForm, PresentedIsReady

LEMMA RelatedReady ==
  ASSUME AnalysisInv, kind = "related"
  PROVE  Ready(related_submission(results))
<1>1. Table[kind] = related_steps
  BY TablesAreDistinct DEF AnalysisInv, StepsOf
<1>2. /\ Runs(Table[kind], "path", "classical_path", "Accept")
           /\ RelatedAt(Table[kind], "EndEntity")
      /\ RelatedAt(Table[kind], "Intermediate") /\ Hashes(Table[kind], "anchor", "digest")
      /\ Selects(Table[kind])
  BY <1>1, RelatedTable
<1>3. Measured(results) /\ SelectedIsHashed(results)
  BY <1>2, MeasuredResults DEF RelatedAt
<1>4. \A p \in {"EndEntity", "Intermediate"} : results[<<p, "post_quantum_digest">>] \in Sha256
  BY <1>2, HashResult DEF RelatedAt
<1>5. Admissible(related_submission(results))
  BY <1>3, <1>4, RelatedAdmissible
<1> QED
  BY <1>2, <1>5, RelatedForm, PresentedIsReady

LEMMA BouncyCastleReady ==
  ASSUME AnalysisInv, kind = "catalyst_bouncy_castle"
  PROVE  Ready(catalyst_bouncy_castle_submission(results))
<1>1. Table[kind] = catalyst_bouncy_castle_steps
  BY TablesAreDistinct DEF AnalysisInv, StepsOf
<1>2. CatalystBouncyCastleSteps(Table[kind])
  BY <1>1, CatalystBouncyCastleTable
<1>3. Credentialed(results) /\ SelectedIsHashed(results)
  BY <1>2, CredentialedResults DEF CatalystBouncyCastleSteps
<1>4. Admissible(catalyst_bouncy_castle_submission(results))
  BY <1>3, BouncyCastleAdmissible
<1>5. Runs(Table[kind], "leaf", "valid_default", "Accept")
  BY <1>2 DEF CatalystBouncyCastleSteps
<1> QED
  BY <1>4, <1>5, BouncyCastleForm, PresentedIsReady

LEMMA OpenSslReady ==
  ASSUME AnalysisInv, kind = "related_openssl"
  PROVE  Ready(related_openssl_submission(results))
<1>1. Table[kind] = related_openssl_steps
  BY TablesAreDistinct DEF AnalysisInv, StepsOf
<1>2. RelatedOpenSslSteps(Table[kind])
  BY <1>1, RelatedOpenSslTable
<1>3. Credentialed(results) /\ SelectedIsHashed(results)
  BY <1>2, CredentialedResults DEF RelatedOpenSslSteps
<1>4. Evidential(results)
  BY <1>2, EvidentialResults DEF RelatedOpenSslSteps
<1>5. results[<<"pair", "digest">>] \in Sha256
  BY <1>2, HashResult DEF RelatedOpenSslSteps
<1>6. Admissible(related_openssl_submission(results))
  BY <1>3, <1>4, <1>5, OpenSslAdmissible
<1>7. Runs(Table[kind], "leaf", "classical", "Accept")
  BY <1>2 DEF RelatedOpenSslSteps
<1> QED
  BY <1>6, <1>7, OpenSslForm, PresentedIsReady

LEMMA AtomicTlsReady ==
  ASSUME AnalysisInv, kind = "atomic_tls"
  PROVE  Ready(atomic_tls_submission(results))
<1>1. Table[kind] = atomic_tls_steps
  BY TablesAreDistinct DEF AnalysisInv, StepsOf
<1>2. AtomicTlsSteps(Table[kind])
  BY <1>1, AtomicTlsTable
<1>3. Credentialed(results) /\ SelectedIsHashed(results)
  BY <1>2, CredentialedResults DEF AtomicTlsSteps
<1>4. Evidential(results)
  BY <1>2, EvidentialResults DEF AtomicTlsSteps
<1>5. Admissible(atomic_tls_submission(results))
  BY <1>3, <1>4, AtomicTlsAdmissible
<1>6. Runs(Table[kind], "tls", "valid", "Accept")
  BY <1>2 DEF AtomicTlsSteps
<1> QED
  BY <1>5, <1>6, AtomicTlsForm, PresentedIsReady

LEMMA CatalystTlsReady ==
  ASSUME AnalysisInv, kind = "catalyst_tls"
  PROVE  Ready(catalyst_tls_submission(results))
<1>1. Table[kind] = catalyst_tls_steps
  BY TablesAreDistinct DEF AnalysisInv, StepsOf
<1>2. CatalystTlsSteps(Table[kind])
  BY <1>1, CatalystTlsTable
<1>3. Credentialed(results) /\ SelectedIsHashed(results)
  BY <1>2, CredentialedResults DEF CatalystTlsSteps
<1>4. Evidential(results)
  BY <1>2, EvidentialResults DEF CatalystTlsSteps
<1>5. Admissible(catalyst_tls_submission(results))
  BY <1>3, <1>4, CatalystTlsAdmissible
<1>6. Runs(Table[kind], "tls", "valid", "Accept")
  BY <1>2 DEF CatalystTlsSteps
<1> QED
  BY <1>5, <1>6, CatalystTlsForm, PresentedIsReady

LEMMA ChameleonTlsReady ==
  ASSUME AnalysisInv, kind = "chameleon_tls"
  PROVE  Ready(chameleon_tls_submission(results))
<1>1. Table[kind] = chameleon_tls_steps
  BY TablesAreDistinct DEF AnalysisInv, StepsOf
<1>2. ChameleonTlsSteps(Table[kind])
  BY <1>1, ChameleonTlsTable
<1>3. Credentialed(results) /\ SelectedIsHashed(results)
  BY <1>2, CredentialedResults DEF ChameleonTlsSteps
<1>4. Evidential(results)
  BY <1>2, EvidentialResults DEF ChameleonTlsSteps
<1>5. Admissible(chameleon_tls_submission(results))
  BY <1>3, <1>4, ChameleonTlsAdmissible
<1>6. Runs(Table[kind], "tls", "valid_base", "Accept")
  BY <1>2 DEF ChameleonTlsSteps
<1> QED
  BY <1>5, <1>6, ChameleonTlsForm, PresentedIsReady

LEMMA RelatedTlsReady ==
  ASSUME AnalysisInv, kind = "related_tls"
  PROVE  Ready(related_tls_submission(results))
<1>1. Table[kind] = related_tls_steps
  BY TablesAreDistinct DEF AnalysisInv, StepsOf
<1>2. RelatedTlsSteps(Table[kind])
  BY <1>1, RelatedTlsTable
<1>3. Credentialed(results) /\ SelectedIsHashed(results)
  BY <1>2, CredentialedResults DEF RelatedTlsSteps
<1>4. Evidential(results)
  BY <1>2, EvidentialResults DEF RelatedTlsSteps
<1>5. results[<<"pair", "digest">>] \in Sha256
  BY <1>2, HashResult DEF RelatedTlsSteps
<1>6. Admissible(related_tls_submission(results))
  BY <1>3, <1>4, <1>5, RelatedTlsAdmissible
<1>7. Runs(Table[kind], "tls", "classical", "Accept")
  BY <1>2 DEF RelatedTlsSteps
<1> QED
  BY <1>6, <1>7, RelatedTlsForm, PresentedIsReady

LEMMA RoutesReady ==
  ASSUME AnalysisInv, kind = "cross_signed", routes_error(results) = "ok"
  PROVE  Ready(evaluate_atomic_route(results)) /\ Ready(evaluate_classical_route(results))
<1> DEFINE g == results
<1>1. PathReported(g, "selected") /\ PathReported(g, "classical_fallback")
  BY RoutesReported
<1>2. Measured(g)
  BY AtomicReady
<1>3. RouteHashed(g)
  <2>1. Table[kind] = cross_signed_steps
    BY TablesAreDistinct DEF AnalysisInv, StepsOf
  <2>2. Part(classical_route_steps, Table[kind])
    BY <2>1, CrossTable
  <2>3. /\ Hashes(Table[kind], "route", "leaf") /\ Hashes(Table[kind], "route", "leaf_edge")
        /\ Hashes(Table[kind], "route", "intermediate")
        /\ Hashes(Table[kind], "route", "intermediate_edge")
        /\ Hashes(Table[kind], "route", "root")
    BY <2>2, RouteTable, PartHashes
  <2> QED
    BY <2>3, HashResult DEF RouteHashed
<1> HIDE DEF g
<1>4. /\ Admissible(evaluate_atomic_route(g)) /\ Admissible(evaluate_classical_route(g))
  BY <1>1, <1>2, <1>3, AtomicRouteAdmissible, ClassicalRouteAdmissible
<1>5. /\ evaluate_atomic_route(g).stack = Built(g, "selected")
      /\ evaluate_classical_route(g).stack = Built(g, "classical_fallback")
  <2>1. evaluate_atomic_route(g).stack = Built(g, "selected")
    BY SubmissionFields DEF evaluate_atomic_route
  <2>2. PICK path, e : evaluate_classical_route(g)
          = Submission(Built(g, "classical_fallback"), g[<<"route", "root">>], path, <<>>, e)
    BY ClassicalRouteForm
  <2> QED
    BY <2>1, <2>2, SubmissionFields
<1>6. Ready(evaluate_atomic_route(g)) /\ Ready(evaluate_classical_route(g))
  BY <1>4, <1>5, BuiltFields DEF Ready, StackVerdict
<1> QED
  BY <1>6 DEF g

\* Whatever an analysis has measured, what it submits has the form of a request.
LEMMA AllReady ==
  ASSUME AnalysisInv, kind = "cross_signed" => routes_error(results) = "ok",
         NEW i \in DOMAIN submissions(kind, results)
  PROVE  Ready(submissions(kind, results)[i])
<1>1. kind \in AllKinds
  BY KindsAreAnalyses DEF AnalysisInv
<1>2. i \in IF kind = "cross_signed" THEN 1 .. 3 ELSE {1}
  BY <1>1, AllFormed
<1>3. CASE kind = "cross_signed"
  <2>1. submissions(kind, results)
          = <<atomic_submission(results), evaluate_atomic_route(results),
              evaluate_classical_route(results)>>
    BY <1>3 DEF submissions
  <2>2. /\ Ready(atomic_submission(results)) /\ Ready(evaluate_atomic_route(results))
        /\ Ready(evaluate_classical_route(results))
    BY <1>3, AtomicReady, RoutesReady
  <2> QED
    BY <1>2, <1>3, <2>1, <2>2
<1>4. CASE kind # "cross_signed"
  <2>1. kind = "atomic" => Ready(atomic_submission(results))
    BY AtomicReady
  <2>2. /\ kind = "catalyst" => Ready(catalyst_submission(results))
        /\ kind = "chameleon" => Ready(chameleon_submission(results))
        /\ kind = "pure" => Ready(pure_submission(results))
        /\ kind = "related" => Ready(related_submission(results))
    BY CatalystReady, ChameleonReady, PureReady, RelatedReady
  <2>3. /\ kind = "catalyst_bouncy_castle" => Ready(catalyst_bouncy_castle_submission(results))
        /\ kind = "related_openssl" => Ready(related_openssl_submission(results))
    BY BouncyCastleReady, OpenSslReady
  <2>4. /\ kind = "atomic_tls" => Ready(atomic_tls_submission(results))
        /\ kind = "catalyst_tls" => Ready(catalyst_tls_submission(results))
        /\ kind = "chameleon_tls" => Ready(chameleon_tls_submission(results))
        /\ kind = "related_tls" => Ready(related_tls_submission(results))
    BY AtomicTlsReady, CatalystTlsReady, ChameleonTlsReady, RelatedTlsReady
  <2> QED
    BY <1>1, <1>2, <1>4, <2>1, <2>2, <2>3, <2>4
       DEF submissions, AllKinds, PathScopeKinds, TlsKinds
<1> QED
  BY <1>3, <1>4

-----------------------------------------------------------------------------
(* The type invariant *)

\* An analysis ends with an answer, a failed step or a mismatch of digests, and
\* the cross-signed one asks the oracle about routes that it has compared.
AnalysisTypeInv == AnalysisInv /\ RoutesCompared /\ outcome \in ModelledOutcomes

LEMMA BuilderLength ==
  Len(builder_steps) \in Nat \ {0} /\ Len(builder_steps) \in DOMAIN cross_signed_steps
<1>1. PICK X : builder_steps \in Seq(X)
  BY BuilderTable DEF Grouped, Listed
<1>2. DOMAIN builder_steps # {}
  BY BuilderTable DEF Hashes
<1>3. Len(builder_steps) \in Nat \ {0}
  BY <1>1, <1>2
<1> QED
  BY <1>3, CrossSignedBuiltFirst DEF BuiltFirst

LEMMA ComparedAtTheEnd ==
  ASSUME AnalysisInv, RoutesCompared, at = Len(Table[kind]) + 1, kind = "cross_signed"
  PROVE  routes_error(results) = "ok"
<1>1. Table[kind] = cross_signed_steps
  BY TablesAreDistinct DEF AnalysisInv, StepsOf
<1>2. DOMAIN Table[kind] = 1 .. Len(Table[kind]) /\ Len(Table[kind]) \in Nat
  BY TableIsSequence DEF AnalysisInv
<1>3. at > Len(builder_steps)
  BY <1>1, <1>2, BuilderLength
<1> QED
  BY <1>3 DEF RoutesCompared

LEMMA RefusalsAreMismatches ==
  ASSUME AnalysisInv, RoutesCompared, answers # <<>>
  PROVE  refusals \subseteq Mismatches
<1> SUFFICES ASSUME NEW i \in DOMAIN answers, NEW scope \in scopes(kind)
             PROVE  answers[i][scope].error \in Mismatches
  BY DEF refusals
<1> DEFINE r == RequestAt(i, scope)
<1>1. answers[i][scope] = evaluate(r) /\ i \in DOMAIN submissions(kind, results)
  BY AnswerAt
<1>2. kind = "cross_signed" => routes_error(results) = "ok"
  BY ComparedAtTheEnd DEF AnalysisInv, AnswersEvaluated
<1>3. validate_request(r) \in Mismatches
  BY <1>1, <1>2, AllReady DEF Ready, Admissible, RequestAt
<1> HIDE DEF r
<1>4. evaluate(r).error \in {"ok", validate_request(r)}
  BY DEF evaluate, decide, Response
<1> QED
  BY <1>1, <1>3, <1>4 DEF Mismatches

LEMMA ModelledMismatches == Mismatches \ {"ok"} \subseteq ModelledOutcomes
BY DEF Mismatches, ModelledOutcomes

LEMMA AnalysisTypeInvInit == AnalysisInit => AnalysisTypeInv
<1> SUFFICES ASSUME AnalysisInit PROVE AnalysisTypeInv
  OBVIOUS
<1>1. AnalysisInv /\ outcome \in ModelledOutcomes
  BY AnalysisInvInit DEF AnalysisInit, ModelledOutcomes
<1>2. ASSUME kind = "cross_signed" PROVE ~(at > Len(builder_steps))
  <2>1. at = 1
    BY DEF AnalysisInit
  <2> QED
    BY <2>1, BuilderLength
<1> QED
  BY <1>1, <1>2 DEF AnalysisTypeInv, RoutesCompared

LEMMA AnalysisTypeInvNext ==
  ASSUME AnalysisTypeInv, [AnalysisNext]_analysis_vars
  PROVE  AnalysisTypeInv'
<1>0. /\ AnalysisInv /\ AnalysisInv' /\ RoutesCompared /\ outcome \in ModelledOutcomes
  BY AnalysisInvNext DEF AnalysisTypeInv
<1> DEFINE Kept == RoutesCompared' /\ outcome' \in ModelledOutcomes
<1> SUFFICES Kept
  BY <1>0 DEF AnalysisTypeInv
<1>1. ASSUME NEW error, EndWith(error), error \in ModelledOutcomes PROVE Kept
  <2>1. results' = results /\ UNCHANGED <<kind, at>> /\ outcome' = error
    BY <1>1 DEF EndWith, results
  <2> QED
    BY <1>0, <1>1, <2>1 DEF RoutesCompared
<1>2. ASSUME NEW ops, Running(ops), "routes" \notin ops, NEW value, Record(value),
             UNCHANGED <<kind, outcome>>
      PROVE  Kept
  BY <1>0, <1>2, RecordKeepsRoutes
<1>3. ASSUME NEW ops, Running(ops), "routes" \notin ops, Observe PROVE Kept
  <2>1. PICK value : Record(value)
    BY <1>3 DEF Observe
  <2> QED
    BY <1>2, <1>3, <2>1 DEF Observe
<1>4. ASSUME UNCHANGED <<kind, at, odd>>, outcome' \in ModelledOutcomes PROVE Kept
  <2>1. results' = results
    BY <1>4 DEF results
  <2> QED
    BY <1>0, <1>4, <2>1 DEF RoutesCompared
<1>5. CASE InspectControl
  <2>1. Running({"inspect"})
    BY <1>5 DEF InspectControl
  <2>2. CASE Record("expected") /\ UNCHANGED <<kind, outcome>>
    BY <1>2, <2>1, <2>2
  <2>3. CASE EndWith("WrongScheme")
    BY <1>1, <2>3 DEF ModelledOutcomes
  <2> QED
    BY <1>5, <2>2, <2>3 DEF InspectControl
<1>6. CASE RunAdapter
  BY <1>3, <1>6 DEF RunAdapter, Modes
<1>7. CASE CheckCertificate
  BY <1>3, <1>7 DEF CheckCertificate
<1>8. CASE HashFiles
  BY <1>2, <1>8 DEF HashFiles
<1>9. CASE CorruptSignature
  BY <1>2, <1>9 DEF CorruptSignature
<1>10. CASE CompareRoutes
  <2>1. CASE routes_error(results) = "ok"
    <3>1. Running({"routes"}) /\ Record("expected") /\ UNCHANGED <<kind, outcome>>
      BY <1>10, <2>1 DEF CompareRoutes
    <3>2. RoutesCompared'
      BY <1>0, <2>1, <3>1, RecordKeepsRoutes
    <3> QED
      BY <1>0, <3>1, <3>2
  <2>2. CASE routes_error(results) # "ok"
    <3>1. routes_error(results) \in ModelledOutcomes
      BY <2>2 DEF routes_error, ModelledOutcomes
    <3> QED
      BY <1>1, <1>10, <2>2, <3>1 DEF CompareRoutes
  <2> QED
    BY <2>1, <2>2
<1>11. CASE StepFails
  BY <1>1, <1>11 DEF StepFails, ModelledOutcomes
<1>12. CASE ReplaceFile
  BY <1>0, <1>4, <1>12 DEF ReplaceFile
<1>13. CASE Evaluate
  BY <1>0, <1>4, <1>13 DEF Evaluate
<1>14. CASE Refuse
  <2>1. PICK error \in refusals : EndWith(error)
    BY <1>14 DEF Refuse
  <2>2. error \in Mismatches /\ error # "ok"
    BY <1>0, <1>14, <2>1, RefusalsAreMismatches DEF Refuse, refusals
  <2> QED
    BY <1>1, <2>1, <2>2, ModelledMismatches
<1>15. CASE Report
  BY <1>4, <1>15 DEF Report, ModelledOutcomes
<1>16. CASE UNCHANGED analysis_vars
  BY <1>0, <1>4, <1>16 DEF analysis_vars
<1> QED
  BY <1>5, <1>6, <1>7, <1>8, <1>9, <1>10, <1>11, <1>12, <1>13, <1>14, <1>15, <1>16
     DEF AnalysisNext

LEMMA TypeInvIsTypeOK == AnalysisTypeInv => AnalysisTypeOK
<1> SUFFICES ASSUME AnalysisTypeInv PROVE AnalysisTypeOK
  OBVIOUS
<1>1. AnalysisInv /\ RoutesCompared /\ outcome \in ModelledOutcomes
  BY DEF AnalysisTypeInv
<1>2. DOMAIN odd \subseteq DOMAIN Nominal[kind]
  BY <1>1, NominalOfStep DEF AnalysisInv, OddResults
<1>3. answers # <<>> => policy \in policies(kind)
  BY <1>1 DEF AnalysisInv, AnswersEvaluated
<1>4. ASSUME Answered, NEW i \in DOMAIN answers, NEW scope \in scopes(kind)
      PROVE  Verdict(i, scope) \in PolicyVerdict
  <2> DEFINE r == RequestAt(i, scope)
             s == submissions(kind, results)[i]
  <2>1. /\ answers[i][scope] = evaluate(r) /\ validate_request(r) = "ok"
        /\ i \in DOMAIN submissions(kind, results) /\ answers # <<>>
    BY <1>1, <1>4, AnsweredAt
  <2>2. kind = "cross_signed" => routes_error(results) = "ok"
    BY <1>1, <2>1, ComparedAtTheEnd DEF AnalysisInv, AnswersEvaluated
  <2>3. s.stack.verdict \in StackVerdict
    BY <1>1, <2>1, <2>2, AllReady DEF Ready
  <2>4. r.stack = s.stack
    BY DEF RequestAt, Request
  <2>5. /\ DOMAIN r.evidence \subseteq Nat /\ DOMAIN r.certificate_path \subseteq Nat
        /\ DOMAIN r.paired_authentications \subseteq Nat
    BY <1>1, <2>1, RequestAtForm
  <2> HIDE DEF r, s
  <2>6. evaluate(r).status = "result"
    BY <2>1, Decided
  <2>7. evaluate(r).policy_verdict \in PolicyVerdict
    BY <2>3, <2>4, <2>5, <2>6, EvaluateType
  <2> QED
    BY <2>1, <2>7 DEF Verdict
<1> QED
  BY <1>1, <1>2, <1>3, <1>4 DEF AnalysisInv, AnalysisTypeOK

\* Every analysis keeps to its table, and ends with an answer, a failed step or
\* a digest that does not match: the request that it builds for evaluate is
\* never refused for its form, whatever the adapters answered and whichever
\* files were replaced, and an answer holds a verdict for every scope.
THEOREM AnalysisTypeCorrect == AnalysisSpec => []AnalysisTypeOK
<1>1. AnalysisTypeInv /\ [AnalysisNext]_analysis_vars => AnalysisTypeInv'
  BY AnalysisTypeInvNext
<1> QED
  BY <1>1, AnalysisTypeInvInit, TypeInvIsTypeOK, PTL DEF AnalysisSpec

-----------------------------------------------------------------------------
(* The versions that were hashed *)

HashOps == {"digest", "edge", "select"}

\* Whether a file had been replaced when a step read it.
Changed(f, i) == f \in DOMAIN replaced /\ replaced[f] <= i

\* The versions on disk when a step read them.
VersionsAt(i) == [f \in HashedFiles[kind] |-> IF Changed(f, i) THEN "v2" ELSE "v1"]

\* A file was replaced before a step that was reached, a result is that of a
\* step already taken, and a digest covers the files as they were at its step.
HistoryInv ==
  /\ \A f \in DOMAIN replaced : replaced[f] \in Nat /\ replaced[f] <= at
  /\ \A i \in DOMAIN Table[kind] : at <= i => Table[kind][i].name \notin DOMAIN odd
  /\ \A i \in DOMAIN Table[kind] :
       i < at /\ Table[kind][i].op \in HashOps =>
         results[Table[kind][i].name] = HashOf(Table[kind][i], VersionsAt(i))

LEMMA RecordKeepsHistory ==
  ASSUME AnalysisInv, HistoryInv, NEW ops, Running(ops), NEW value, Record(value),
         UNCHANGED <<kind, replaced>>,
         current.op \in HashOps => value = HashOf(current, Versions)
  PROVE  HistoryInv'
<1> DEFINE T == Table[kind]
<1>1. /\ DOMAIN T = 1 .. Len(T) /\ Len(T) \in Nat /\ kind \in Kinds
  BY TableIsSequence DEF AnalysisInv
<1>2. at \in DOMAIN T /\ current = T[at] /\ at \in Nat /\ at' = at + 1
  BY <1>1 DEF Running, current, Record
<1>3. \A i, j \in DOMAIN T : T[i].name = T[j].name => i = j
  BY <1>1, TablesAreDistinct DEF Distinct
<1>4. current.name \notin DOMAIN odd
  BY <1>2 DEF HistoryInv
<1>5. \A name : name # current.name =>
        /\ name \in DOMAIN odd' <=> name \in DOMAIN odd
        /\ name \in DOMAIN odd => odd'[name] = odd[name]
  BY DEF Record, Noting
<1>6. \A name \in DOMAIN Nominal[kind] : name # current.name => results'[name] = results[name]
  BY <1>5 DEF results
<1>7. results'[current.name] = value
  <2>1. current.name \in DOMAIN Nominal[kind] /\ Nominal[kind][current.name] = current.nominal
    BY <1>1, <1>2, NominalOfStep
  <2>2. CASE value = current.nominal
    <3>1. odd' = odd
      BY <2>2 DEF Record
    <3> QED
      BY <1>4, <2>1, <2>2, <3>1 DEF results
  <2>3. CASE value # current.nominal
    <3>1. odd' = Noting(odd, current.name, value)
      BY <2>3 DEF Record
    <3>2. current.name \in DOMAIN odd' /\ odd'[current.name] = value
      BY <3>1 DEF Noting
    <3> QED
      BY <2>1, <3>2 DEF results
  <2> QED
    BY <2>2, <2>3
<1>8. Versions = VersionsAt(at)
  BY DEF Versions, VersionsAt, Changed, HistoryInv
<1>9. \A i : VersionsAt(i)' = VersionsAt(i)
  BY DEF VersionsAt, Changed
<1> HIDE DEF T
<1>10. \A f \in DOMAIN replaced : replaced[f] \in Nat /\ replaced[f] <= at'
  BY <1>2 DEF HistoryInv
<1>11. ASSUME NEW i \in DOMAIN T, at' <= i PROVE T[i].name \notin DOMAIN odd'
  <2>1. i # at /\ at <= i
    BY <1>1, <1>2, <1>11
  <2>2. T[i].name \notin DOMAIN odd
    BY <2>1 DEF HistoryInv, T
  <2>3. T[i].name # current.name
    BY <1>2, <1>3, <2>1
  <2> QED
    BY <1>5, <2>2, <2>3
<1>12. ASSUME NEW i \in DOMAIN T, i < at', T[i].op \in HashOps
       PROVE  results'[T[i].name] = HashOf(T[i], VersionsAt(i))
  <2>1. CASE i = at
    BY <1>2, <1>7, <1>8, <1>12, <2>1
  <2>2. CASE i # at
    <3>1. i < at /\ T[i].name # current.name
      BY <1>1, <1>2, <1>3, <1>12, <2>2
    <3>2. results[T[i].name] = HashOf(T[i], VersionsAt(i))
      BY <1>12, <3>1 DEF HistoryInv, T
    <3>3. T[i].name \in DOMAIN Nominal[kind]
      BY <1>1, NominalOfStep DEF T
    <3> QED
      BY <1>6, <3>1, <3>2, <3>3
  <2> QED
    BY <2>1, <2>2
<1> QED
  BY <1>9, <1>10, <1>11, <1>12 DEF HistoryInv, T

LEMMA HistoryInvNext ==
  ASSUME AnalysisInv, HistoryInv, [AnalysisNext]_analysis_vars
  PROVE  HistoryInv'
<1>1. ASSUME UNCHANGED <<kind, at, odd, replaced>> PROVE HistoryInv'
  <2>1. results' = results /\ \A i : VersionsAt(i)' = VersionsAt(i)
    BY <1>1 DEF results, VersionsAt, Changed
  <2> QED
    BY <1>1, <2>1 DEF HistoryInv
<1>2. ASSUME NEW error, EndWith(error) PROVE HistoryInv'
  BY <1>1, <1>2 DEF EndWith
<1>3. ASSUME NEW ops, Running(ops), ops \cap HashOps = {}, NEW value, Record(value),
             UNCHANGED <<kind, replaced>>
      PROVE  HistoryInv'
  BY <1>3, RecordKeepsHistory DEF Running
<1>4. ASSUME NEW ops, Running(ops), ops \cap HashOps = {}, Observe PROVE HistoryInv'
  <2>1. PICK value : Record(value)
    BY <1>4 DEF Observe
  <2> QED
    BY <1>3, <1>4, <2>1 DEF Observe
<1>5. CASE InspectControl
  <2>1. Running({"inspect"}) /\ {"inspect"} \cap HashOps = {}
    BY <1>5 DEF InspectControl, HashOps
  <2>2. CASE Record("expected") /\ UNCHANGED <<kind, replaced>>
    BY <1>3, <2>1, <2>2
  <2>3. CASE EndWith("WrongScheme")
    BY <1>2, <2>3
  <2> QED
    BY <1>5, <2>2, <2>3 DEF InspectControl
<1>6. CASE RunAdapter
  BY <1>4, <1>6 DEF RunAdapter, Modes, HashOps
<1>7. CASE CheckCertificate
  BY <1>4, <1>7 DEF CheckCertificate, HashOps
<1>8. CASE HashFiles
  BY <1>8, RecordKeepsHistory DEF HashFiles
<1>9. CASE CorruptSignature
  BY <1>3, <1>9 DEF CorruptSignature, HashOps
<1>10. CASE CompareRoutes
  <2>1. Running({"routes"}) /\ {"routes"} \cap HashOps = {}
    BY <1>10 DEF CompareRoutes, HashOps
  <2>2. CASE Record("expected") /\ UNCHANGED <<kind, replaced>>
    BY <1>3, <2>1, <2>2
  <2>3. CASE \E error : EndWith(error)
    BY <1>2, <2>3
  <2> QED
    BY <1>10, <2>2, <2>3 DEF CompareRoutes
<1>11. CASE StepFails
  BY <1>2, <1>11 DEF StepFails
<1>12. CASE ReplaceFile
  <2>1. PICK f : f \notin DOMAIN replaced /\ replaced' = Noting(replaced, f, at)
    BY <1>12 DEF ReplaceFile
  <2>2. UNCHANGED <<kind, at, odd>>
    BY <1>12 DEF ReplaceFile
  <2>3. at \in Nat /\ DOMAIN Table[kind] \subseteq Nat
    BY TableIsSequence DEF AnalysisInv
  <2>4. /\ DOMAIN replaced' = DOMAIN replaced \cup {f} /\ replaced'[f] = at
        /\ \A h \in DOMAIN replaced : replaced'[h] = replaced[h]
    BY <2>1 DEF Noting
  <2>5. results' = results
    BY <2>2 DEF results
  <2>6. ASSUME NEW i \in Nat, i < at PROVE VersionsAt(i)' = VersionsAt(i)
    <3>1. \A h : (h \in DOMAIN replaced' /\ replaced'[h] <= i)
                   <=> (h \in DOMAIN replaced /\ replaced[h] <= i)
      BY <2>1, <2>3, <2>4, <2>6
    <3> QED
      BY <2>2, <3>1 DEF VersionsAt, Changed
  <2>7. \A h \in DOMAIN replaced' : replaced'[h] \in Nat /\ replaced'[h] <= at
    BY <2>3, <2>4 DEF HistoryInv
  <2>8. ASSUME NEW i \in DOMAIN Table[kind], i < at, Table[kind][i].op \in HashOps
        PROVE  results[Table[kind][i].name] = HashOf(Table[kind][i], VersionsAt(i)')
    BY <2>3, <2>6, <2>8 DEF HistoryInv
  <2> QED
    BY <2>2, <2>5, <2>7, <2>8 DEF HistoryInv
<1>13. CASE Evaluate
  BY <1>1, <1>13 DEF Evaluate
<1>14. CASE Refuse
  BY <1>2, <1>14 DEF Refuse
<1>15. CASE Report
  BY <1>1, <1>15 DEF Report
<1>16. CASE UNCHANGED analysis_vars
  BY <1>1, <1>16 DEF analysis_vars
<1> QED
  BY <1>5, <1>6, <1>7, <1>8, <1>9, <1>10, <1>11, <1>12, <1>13, <1>14, <1>15, <1>16
     DEF AnalysisNext

\* The digests of an analysis are those of the files as they were when each
\* was taken: what certificate_der_hash, issuer_edge_hash and
\* selected_path_hashes returned is never written again, and a file replaced
\* later does not show in them.
THEOREM HistoryInvariant == AnalysisSpec => [](AnalysisTypeInv /\ HistoryInv)
<1>1. AnalysisInit => AnalysisTypeInv /\ HistoryInv
  <2> SUFFICES ASSUME AnalysisInit PROVE HistoryInv
    BY AnalysisTypeInvInit
  <2>1. DOMAIN odd = {} /\ DOMAIN replaced = {} /\ at = 1 /\ kind \in Kinds
    BY DEF AnalysisInit
  <2>2. \A i \in DOMAIN Table[kind] : ~(i < at)
    BY <2>1, TableIsSequence
  <2> QED
    BY <2>1, <2>2 DEF HistoryInv
<1>2. AnalysisTypeInv /\ HistoryInv /\ [AnalysisNext]_analysis_vars
        => (AnalysisTypeInv /\ HistoryInv)'
  BY AnalysisTypeInvNext, HistoryInvNext DEF AnalysisTypeInv
<1> QED
  BY <1>1, <1>2, PTL DEF AnalysisSpec

-----------------------------------------------------------------------------
(* Steps in order *)

Sequence(s) == \E X : s \in Seq(X)

\* A table with a step, and with two steps one after the other.
Takes(T, a) == \E i \in DOMAIN T : T[i] = a
Sequel(T, a, b) == \E i, j \in DOMAIN T : i < j /\ T[i] = a /\ T[j] = b

LEMMA SequenceConcat ==
  ASSUME NEW s, NEW t, Sequence(s), Sequence(t)
  PROVE  Sequence(s \o t)
BY Concatenation DEF Sequence

LEMMA TakesConcat ==
  ASSUME NEW s, NEW t, Sequence(s), Sequence(t), NEW a, Takes(s, a) \/ Takes(t, a)
  PROVE  Takes(s \o t, a)
<1> DEFINE st == s \o t
<1>1. /\ \A i \in DOMAIN s : i \in DOMAIN st /\ st[i] = s[i]
      /\ \A i \in DOMAIN t : Len(s) + i \in DOMAIN st /\ st[Len(s) + i] = t[i]
  BY ConcatElements DEF Sequence
<1> HIDE DEF st
<1>2. Takes(st, a)
  BY <1>1 DEF Takes
<1> QED
  BY <1>2 DEF st

\* What two sequences do in order, their concatenation does.
LEMMA SequelConcat ==
  ASSUME NEW s, NEW t, Sequence(s), Sequence(t), NEW a, NEW b,
         Sequel(s, a, b) \/ Sequel(t, a, b) \/ (Takes(s, a) /\ Takes(t, b))
  PROVE  Sequel(s \o t, a, b)
<1> DEFINE st == s \o t
<1>1. /\ \A i \in DOMAIN s : i \in DOMAIN st /\ st[i] = s[i]
      /\ \A i \in DOMAIN t : Len(s) + i \in DOMAIN st /\ st[Len(s) + i] = t[i]
  BY ConcatElements DEF Sequence
<1>2. DOMAIN s = 1 .. Len(s) /\ DOMAIN t = 1 .. Len(t) /\ Len(s) \in Nat /\ Len(t) \in Nat
  BY Concatenation DEF Sequence
<1> HIDE DEF st
<1>3. CASE Sequel(s, a, b)
  <2>1. PICK i \in DOMAIN s, j \in DOMAIN s : i < j /\ s[i] = a /\ s[j] = b
    BY <1>3 DEF Sequel
  <2>2. i \in DOMAIN st /\ j \in DOMAIN st /\ i < j /\ st[i] = a /\ st[j] = b
    BY <1>1, <2>1
  <2> QED
    BY <2>2 DEF Sequel, st
<1>4. CASE Sequel(t, a, b)
  <2>1. PICK i \in DOMAIN t, j \in DOMAIN t : i < j /\ t[i] = a /\ t[j] = b
    BY <1>4 DEF Sequel
  <2>2. Len(s) + i \in DOMAIN st /\ Len(s) + j \in DOMAIN st
        /\ st[Len(s) + i] = a /\ st[Len(s) + j] = b
    BY <1>1, <2>1
  <2>3. Len(s) + i < Len(s) + j
    BY <1>2, <2>1
  <2> QED
    BY <2>2, <2>3 DEF Sequel, st
<1>5. CASE Takes(s, a) /\ Takes(t, b)
  <2>1. PICK i \in DOMAIN s : s[i] = a
    BY <1>5 DEF Takes
  <2>2. PICK j \in DOMAIN t : t[j] = b
    BY <1>5 DEF Takes
  <2>3. i \in DOMAIN st /\ Len(s) + j \in DOMAIN st /\ st[i] = a /\ st[Len(s) + j] = b
    BY <1>1, <2>1, <2>2
  <2>4. i < Len(s) + j
    BY <1>2, <2>1, <2>2
  <2> QED
    BY <2>3, <2>4 DEF Sequel, st
<1> QED
  BY <1>3, <1>4, <1>5

LEMMA SequelTakes ==
  ASSUME NEW T, NEW a, NEW b, Sequel(T, a, b)
  PROVE  Takes(T, a) /\ Takes(T, b)
BY DEF Sequel, Takes

-----------------------------------------------------------------------------
(* What a step read *)

\* Every step has been taken.
Completed == AnalysisTypeInv /\ HistoryInv /\ at = Len(Table[kind]) + 1

\* Whether the step of this name saw the file replaced, and the version it saw.
Seen(f, name) == Changed(f, Place[kind][name])
Version(f, name) == IF Seen(f, name) THEN "v2" ELSE "v1"

\* A hash step's result is made of the versions that it saw.
LEMMA HashedResult ==
  ASSUME Completed, NEW a, Takes(Table[kind], a), a.op \in HashOps
  PROVE  \E v : /\ results[a.name] = HashOf(a, v)
                /\ \A f \in Reads(a) : v[f] = Version(f, a.name)
<1> DEFINE T == Table[kind]
<1>1. PICK i \in DOMAIN T : T[i] = a
  BY DEF Takes
<1>2. kind \in Kinds /\ DOMAIN T = 1 .. Len(T) /\ Len(T) \in Nat
  BY TableIsSequence DEF Completed, AnalysisTypeInv, AnalysisInv
<1>3. Place[kind][a.name] = i
  BY <1>1, <1>2, NominalOfStep
<1>4. i < at
  BY <1>2 DEF Completed
<1>5. results[a.name] = HashOf(a, VersionsAt(i))
  BY <1>1, <1>4 DEF Completed, HistoryInv
<1>6. ASSUME NEW f \in Reads(a) PROVE f \in HashedFiles[kind]
  <2>1. a \in Range(T)
    BY <1>1 DEF Range
  <2> HIDE DEF T
  <2>2. HashedFiles[kind] = UNION {Reads(step) : step \in {s \in Range(T) : s.op \in HashOps}}
    BY <1>2 DEF HashedFiles, HashOps, T
  <2> QED
    BY <2>1, <2>2
<1>7. ASSUME NEW f \in Reads(a) PROVE VersionsAt(i)[f] = Version(f, a.name)
  BY <1>3, <1>6 DEF VersionsAt, Version, Seen
<1> QED
  BY <1>5, <1>7

LEMMA DigestResult ==
  ASSUME Completed, NEW id, NEW what, NEW x, NEW y,
         Takes(Table[kind], Digest(id, what, <<x, y>>))
  PROVE  results[<<id, what>>] = <<x, y, Version(<<x, y>>, <<id, what>>)>>
<1> DEFINE f == <<x, y>>
           a == Digest(id, what, f)
<1>1. /\ a.name = <<id, what>> /\ a.op = "digest" /\ a.inputs.certificate = f
      /\ a.inputs = [certificate |-> f]
  BY DigestFields
<1>2. f \in Reads(a)
  BY <1>1 DEF Reads, Range
<1> HIDE DEF a
<1>3. a.op \in HashOps
  BY <1>1 DEF HashOps
<1>4. PICK v : results[a.name] = HashOf(a, v) /\ \A h \in Reads(a) : v[h] = Version(h, a.name)
  BY <1>3, HashedResult DEF a
<1>5. HashOf(a, v) = f \o <<v[f]>>
  BY <1>1 DEF HashOf, DigestOf
<1>6. v[f] = Version(f, <<id, what>>)
  BY <1>1, <1>2, <1>4
<1>7. \A z : f \o <<z>> = <<x, y, z>>
  BY Joined
<1> QED
  BY <1>1, <1>4, <1>5, <1>6, <1>7

LEMMA EdgeResult ==
  ASSUME Completed, NEW id, NEW what, NEW x, NEW y, NEW u, NEW w,
         Takes(Table[kind], Edge(id, what, <<x, y>>, <<u, w>>))
  PROVE  results[<<id, what>>] = <<x, y, Version(<<x, y>>, <<id, what>>),
                                   u, w, Version(<<u, w>>, <<id, what>>)>>
<1> DEFINE f == <<x, y>>
           h == <<u, w>>
           a == Edge(id, what, f, h)
<1>0. Takes(Table[kind], a)
  OBVIOUS
<1> HIDE DEF f, h
<1>1. /\ a.name = <<id, what>> /\ a.op = "edge" /\ a.inputs.certificate = f
      /\ a.inputs.issuer = h /\ a.inputs = [certificate |-> f, issuer |-> h]
  BY EdgeFields
<1>2. f \in Reads(a) /\ h \in Reads(a)
  BY <1>1 DEF Reads, Range
<1> HIDE DEF a
<1>3. a.op \in HashOps
  BY <1>1 DEF HashOps
<1>4. PICK v : results[a.name] = HashOf(a, v) /\ \A z \in Reads(a) : v[z] = Version(z, a.name)
  BY <1>0, <1>3, HashedResult
<1>5. HashOf(a, v) = f \o <<v[f]>> \o h \o <<v[h]>>
  BY <1>1 DEF HashOf, DigestOf
<1>6. v[f] = Version(f, <<id, what>>) /\ v[h] = Version(h, <<id, what>>)
  BY <1>1, <1>2, <1>4
<1>7. ASSUME NEW p, NEW q PROVE f \o <<p>> \o h \o <<q>> = <<x, y, p, u, w, q>>
  <2>1. f \o <<p>> = <<x, y, p>>
    BY Joined DEF f
  <2>2. <<x, y, p>> \o h = <<x, y, p, u, w>>
    BY Joined DEF h
  <2>3. <<x, y, p, u, w>> \o <<q>> = <<x, y, p, u, w, q>>
    BY Joined
  <2> QED
    BY <2>1, <2>2, <2>3, Zenon
<1> QED
  BY <1>1, <1>4, <1>5, <1>6, <1>7 DEF f, h

LEMMA SelectionResult ==
  ASSUME Completed, NEW x, NEW y, NEW u, NEW w, NEW p, NEW q,
         Takes(Table[kind], Select(<<x, y>>, <<u, w>>, <<p, q>>))
  PROVE  LET name == <<"path", "selected">>
             s == results[name]
         IN  /\ s[1] = <<x, y, Version(<<x, y>>, name)>>
             /\ s[2] = <<u, w, Version(<<u, w>>, name)>>
             /\ s[3] = <<p, q, Version(<<p, q>>, name)>>
<1> DEFINE f == <<x, y>>
           h == <<u, w>>
           r == <<p, q>>
           name == <<"path", "selected">>
           a == Select(f, h, r)
<1>0. Takes(Table[kind], a)
  OBVIOUS
<1> HIDE DEF f, h, r
<1>1. /\ a.name = name /\ a.op = "select"
      /\ a.inputs = [leaf |-> f, intermediate |-> h, root |-> r]
  BY SelectFields
<1>2. f \in Reads(a) /\ h \in Reads(a) /\ r \in Reads(a)
  BY <1>1 DEF Reads, Range
<1> HIDE DEF a
<1>3. a.op \in HashOps
  BY <1>1 DEF HashOps
<1>4. PICK v : results[a.name] = HashOf(a, v) /\ \A z \in Reads(a) : v[z] = Version(z, a.name)
  BY <1>0, <1>3, HashedResult
<1>5. \A z : DigestOf(<<z>>, v) = z \o <<v[z]>>
  BY DEF DigestOf
<1>6. a.inputs.leaf = f /\ a.inputs.intermediate = h /\ a.inputs.root = r
  BY <1>1
<1>7. HashOf(a, v) = <<f \o <<v[f]>>, h \o <<v[h]>>, r \o <<v[r]>>>>
  <2>1. HashOf(a, v) = <<DigestOf(<<a.inputs.leaf>>, v), DigestOf(<<a.inputs.intermediate>>, v),
                         DigestOf(<<a.inputs.root>>, v)>>
    BY <1>1 DEF HashOf
  <2>2. /\ DigestOf(<<a.inputs.leaf>>, v) = f \o <<v[f]>>
        /\ DigestOf(<<a.inputs.intermediate>>, v) = h \o <<v[h]>>
        /\ DigestOf(<<a.inputs.root>>, v) = r \o <<v[r]>>
    BY <1>5, <1>6
  <2> QED
    BY <2>1, <2>2
<1>8. v[f] = Version(f, name) /\ v[h] = Version(h, name) /\ v[r] = Version(r, name)
  BY <1>1, <1>2, <1>4
<1>9. \A z : f \o <<z>> = <<x, y, z>> /\ h \o <<z>> = <<u, w, z>> /\ r \o <<z>> = <<p, q, z>>
  BY Joined DEF f, h, r
<1> DEFINE F == f \o <<v[f]>>
           H == h \o <<v[h]>>
           R == r \o <<v[r]>>
<1>10. /\ F = <<x, y, Version(f, name)>> /\ H = <<u, w, Version(h, name)>>
       /\ R = <<p, q, Version(r, name)>>
  BY <1>8, <1>9, Zenon
<1>11. results[name] = <<F, H, R>>
  BY <1>1, <1>4, <1>7, Zenon
<1> HIDE DEF F, H, R
<1>12. results[name][1] = F /\ results[name][2] = H /\ results[name][3] = R
  BY <1>11
<1> QED
  BY <1>10, <1>12 DEF f, h, r

\* A file that one step saw replaced is so for every later one; it moved
\* between the two when only the later step saw it.
LEMMA MovedBetween ==
  ASSUME Completed, NEW a, NEW b, Sequel(Table[kind], a, b), NEW f
  PROVE  /\ Moved(f, a.name, b.name) <=> ~Seen(f, a.name) /\ Seen(f, b.name)
         /\ Seen(f, a.name) => Seen(f, b.name)
<1> DEFINE T == Table[kind]
<1>1. PICK i \in DOMAIN T, j \in DOMAIN T : i < j /\ T[i] = a /\ T[j] = b
  BY DEF Sequel
<1>2. kind \in Kinds /\ DOMAIN T = 1 .. Len(T) /\ Len(T) \in Nat
  BY TableIsSequence DEF Completed, AnalysisTypeInv, AnalysisInv
<1>3. Place[kind][a.name] = i /\ Place[kind][b.name] = j
  BY <1>1, <1>2, NominalOfStep
<1>4. i \in Nat /\ j \in Nat /\ i < j
  BY <1>1, <1>2
<1>5. f \in DOMAIN replaced => replaced[f] \in Nat
  BY DEF Completed, HistoryInv
<1> HIDE DEF T
<1> QED
  BY <1>3, <1>4, <1>5 DEF Moved, Seen, Changed

-----------------------------------------------------------------------------
(* The order of the digests in the path-scope tables *)

LEMMA ListedIsSequence ==
  ASSUME NEW s, NEW ids, NEW words, Listed(s, ids, words)
  PROVE  Sequence(s)
BY DEF Listed, Sequence

\* The steps about a position, which take its certificate's digest.
Measures(s, role, p) == Sequence(s) /\ Takes(s, Digest(p, "digest", At(role, p)))

LEMMA OptionalIsSequence ==
  ASSUME NEW c, NEW y
  PROVE  Sequence(IF c THEN <<>> ELSE <<y>>)
<1>1. <<>> \in Seq({y}) /\ <<y>> \in Seq({y})
  OBVIOUS
<1>2. Sequence(<<>>) /\ Sequence(<<y>>)
  BY <1>1 DEF Sequence
<1> QED
  BY <1>2

LEMMA IdentityMeasures ==
  ASSUME NEW role, NEW p \in PathPosition, NEW a, NEW b, Sequence(a), Sequence(b)
  PROVE  Measures(a \o Identity(role, p) \o b, role, p)
<1> DEFINE x == Digest(p, "digest", At(role, p))
           d == <<x>>
           e == IF p = "TrustAnchor" THEN <<>>
                ELSE <<Edge(p, "edge", At(role, p), IssuerAt(role, p))>>
           i == Identity(role, p)
<1>1. i = d \o e
  BY DEF Identity
<1>2. Sequence(d) /\ Takes(d, x)
  <2> HIDE DEF x
  <2>1. d \in Seq({x}) /\ 1 \in DOMAIN d /\ d[1] = x
    OBVIOUS
  <2> QED
    BY <2>1 DEF Sequence, Takes
<1>3. Sequence(e)
  BY OptionalIsSequence
<1> HIDE DEF x, d, e, i
<1>4. Sequence(i) /\ Takes(i, x)
  BY <1>1, <1>2, <1>3, SequenceConcat, TakesConcat
<1>5. Sequence(a \o i) /\ Takes(a \o i, x)
  BY <1>4, SequenceConcat, TakesConcat
<1>6. Sequence(a \o i \o b) /\ Takes(a \o i \o b, x)
  BY <1>5, SequenceConcat, TakesConcat
<1> QED
  BY <1>6 DEF Measures, x, i

LEMMA AtomicMeasures ==
  ASSUME NEW p \in PathPosition
  PROVE  Measures(atomic_position_steps(p), "atomic", p)
<1> DEFINE
      Direct(what, c, w) ==
        Run(p, what, "CertificateSignature", direct(<<"atomic", "root">>, IssuerAt("atomic", p),
          c), w)
      Replaced(what, other) ==
        Run(p, what, "Path", path_with_replacement("atomic", p, other), IfNotAnchor(p, "Reject"))
      a == <<Direct("valid_signature", At("atomic", p), "Accept"),
             Direct("invalid_classical_signature", At("invalid_classical", p), "Reject"),
             Direct("invalid_post_quantum_signature", At("invalid_post_quantum", p), "Reject"),
             Replaced("invalid_classical_path", "invalid_classical"),
             Replaced("invalid_post_quantum_path", "invalid_post_quantum")>>
      b == <<Validity(p, "validity", At("atomic", p)),
             Run(p, "crl", "CrlStatus",
                 crl_run(<<"atomic", "root">>, IssuerAt("atomic", p), At("atomic", p),
                         IssuerAt("crl", p)), "Accept")>>
<1>1. atomic_position_steps(p) = a \o Identity("atomic", p) \o b
  BY DEF atomic_position_steps
<1>2. a \in Seq(Range(a)) /\ b \in Seq(Range(b))
  BY DEF Range
<1> HIDE DEF a, b
<1>3. Sequence(a) /\ Sequence(b)
  BY <1>2 DEF Sequence
<1> QED
  BY <1>1, <1>3, IdentityMeasures

LEMMA CatalystMeasures ==
  ASSUME NEW p \in PathPosition
  PROVE  Measures(catalyst_position_steps(p), "catalyst", p)
<1> DEFINE
      Direct(what, c, w) ==
        Run(p, what, "AlternativeSignature",
            direct(<<"catalyst", "root">>, IssuerAt("catalyst", p), c), w)
      a == <<Direct("valid_alternative", At("catalyst", p), "Accept"),
             Direct("invalid_alternative", At("invalid_alternative", p), "Reject"),
             Run(p, "invalid_alternative_path", "Path",
                 path_with_replacement("catalyst", p, "invalid_alternative"), "Accept"),
             Corrupt(p, At("catalyst", p)),
             Run(p, "invalid_classical_path", "Path",
                 path_with_replacement("catalyst", p, "corrupted"), IfNotAnchor(p, "Reject")),
             Run(p, "valid_default", "Path", Hierarchy("catalyst"), "Accept")>>
      b == <<CrlStatus(p, "crl_status", At("catalyst", p), IssuerAt("catalyst", p),
                       IssuerAt("crl", p), <<"Pass", "Pass">>),
             Validity(p, "validity", At("catalyst", p))>>
<1>1. catalyst_position_steps(p) = a \o Identity("catalyst", p) \o b
  BY DEF catalyst_position_steps
<1>2. a \in Seq(Range(a)) /\ b \in Seq(Range(b))
  BY DEF Range
<1> HIDE DEF a, b
<1>3. Sequence(a) /\ Sequence(b)
  BY <1>2 DEF Sequence
<1> QED
  BY <1>1, <1>3, IdentityMeasures

LEMMA ChameleonMeasures ==
  ASSUME NEW p \in PathPosition
  PROVE  Measures(chameleon_position_steps(p), "base", p)
<1> DEFINE
      base == At("base", p)
      issuer == IssuerAt("base", p)
      Signature(what, mode, c, w) == Run(p, what, mode, direct(issuer, issuer, c), w)
      Replaced(what, other, w) ==
        Run(p, what, "Path", path_with_replacement("base", p, other), w)
      a == <<Signature("base_signature", "CertificateSignature", base, "Accept"),
             Signature("invalid_base_signature", "CertificateSignature", At("invalid_base", p),
                       "Reject"),
             Signature("delta_signature", "DeltaSignature", base, "Accept"),
             Signature("invalid_delta_signature", "DeltaSignature", At("invalid_delta_base", p),
                       "Reject"),
             Replaced("invalid_base_path", "invalid_base", IfNotAnchor(p, "Reject")),
             Replaced("invalid_delta_path", "invalid_delta_base", "Accept")>>
      b == <<Validity(p, "base_validity", base), Validity(p, "delta_validity", At("delta", p)),
             Run(p, "base_crl", "CrlStatus",
                 crl_run(issuer, issuer, base, IssuerAt("base_crl", p)), "Accept"),
             Run(p, "delta_crl", "CrlStatus",
                 crl_run(IssuerAt("delta", p), IssuerAt("delta", p), At("delta", p),
                         IssuerAt("delta_crl", p)), "Accept")>>
<1>1. chameleon_position_steps(p) = a \o Identity("base", p) \o b
  BY DEF chameleon_position_steps
<1>2. a \in Seq(Range(a)) /\ b \in Seq(Range(b))
  BY DEF Range
<1> HIDE DEF a, b
<1>3. Sequence(a) /\ Sequence(b)
  BY <1>2 DEF Sequence
<1> QED
  BY <1>1, <1>3, IdentityMeasures

LEMMA PureMeasures ==
  ASSUME NEW p \in PathPosition
  PROVE  Measures(pure_position_steps(p), "pure", p)
<1> DEFINE
      Direct(what, c, w) ==
        Run(p, what, "CertificateSignature", direct(IssuerAt("pure", p), IssuerAt("pure", p), c), w)
      a == <<Direct("signature", At("pure", p), "Accept"),
             Direct("invalid_signature", At("invalid", p), "Reject"),
             Run(p, "invalid_path", "Path", path_with_replacement("pure", p, "invalid"),
                 IfNotAnchor(p, "Reject"))>>
      b == <<Validity(p, "validity", At("pure", p)),
             Run(p, "crl", "CrlStatus",
                 crl_run(IssuerAt("pure", p), IssuerAt("pure", p), At("pure", p),
                         IssuerAt("crl", p)), "Accept")>>
<1>1. pure_position_steps(p) = a \o Identity("pure", p) \o b
  BY DEF pure_position_steps
<1>2. a \in Seq(Range(a)) /\ b \in Seq(Range(b))
  BY DEF Range
<1> HIDE DEF a, b
<1>3. Sequence(a) /\ Sequence(b)
  BY <1>2 DEF Sequence
<1> QED
  BY <1>1, <1>3, IdentityMeasures

LEMMA RelatedMeasures ==
  ASSUME NEW p \in PathPosition
  PROVE  Measures(related_position_steps(p), "classical", p)
<1> DEFINE
      classical == At("classical", p)
      post_quantum == At("post_quantum", p)
      classical_issuer == IssuerAt("classical", p)
      post_quantum_issuer == IssuerAt("post_quantum", p)
      Direct(what, issuer, c, w) ==
        Run(p, what, "CertificateSignature", direct(issuer, issuer, c), w)
      x == Digest(p, "digest", classical)
      a == <<Conformance(p, "conformance", classical, post_quantum, related_failures(p)),
             Binding(p, "invalid_binding", At("invalid_binding", p), post_quantum, "Fail"),
             Direct("classical_signature", classical_issuer, classical, "Accept"),
             Direct("invalid_classical_signature", classical_issuer, At("invalid_classical", p),
                    "Reject"),
             Direct("post_quantum_signature", post_quantum_issuer, post_quantum, "Accept"),
             Direct("invalid_post_quantum_signature", post_quantum_issuer,
                    At("invalid_post_quantum", p), "Reject"),
             Run(p, "invalid_classical_path", "Path",
                 path_with_replacement("classical", p, "invalid_classical"),
                 IfNotAnchor(p, "Reject")),
             Run(p, "invalid_binding_path", "Path",
                 path_with_replacement("classical", p, "invalid_binding"), "Accept"),
             Run(p, "invalid_post_quantum_path", "Path",
                 path_with_replacement("post_quantum", p, "invalid_post_quantum"),
                 IfNotAnchor(p, "Reject")),
             x, Digest(p, "post_quantum_digest", post_quantum)>>
      i == IF p = "TrustAnchor" THEN <<>> ELSE <<Edge(p, "edge", classical, classical_issuer)>>
      b == <<Validity(p, "classical_validity", classical),
             Validity(p, "post_quantum_validity", post_quantum),
             Run(p, "classical_crl", "CrlStatus",
                 crl_run(classical_issuer, classical_issuer, classical,
                         IssuerAt("classical_crl", p)), "Accept"),
             Run(p, "post_quantum_crl", "CrlStatus",
                 crl_run(post_quantum_issuer, post_quantum_issuer, post_quantum,
                         IssuerAt("post_quantum_crl", p)), "Accept")>>
<1>1. related_position_steps(p) = a \o i \o b
  BY DEF related_position_steps
<1>2. a \in Seq(Range(a)) /\ b \in Seq(Range(b))
  BY DEF Range
<1>8. Sequence(i)
  BY OptionalIsSequence
<1>3. 10 \in DOMAIN a /\ a[10] = x
  OBVIOUS
<1>4. x = Digest(p, "digest", At("classical", p))
  OBVIOUS
<1> HIDE DEF a, b, i, x
<1>5. Sequence(a) /\ Sequence(b) /\ Sequence(i) /\ Takes(a, x)
  BY <1>2, <1>3, <1>8 DEF Sequence, Takes
<1>6. Sequence(a \o i) /\ Takes(a \o i, x)
  BY <1>5, SequenceConcat, TakesConcat
<1>7. Sequence(a \o i \o b) /\ Takes(a \o i \o b, x)
  BY <1>5, <1>6, SequenceConcat, TakesConcat
<1> QED
  BY <1>1, <1>4, <1>7 DEF Measures

\* The digests of the path are taken with the stack's run, and again later.
SelectRole(role) == Select(<<role, "leaf">>, <<role, "intermediate">>, <<role, "root">>)

PathOrdered(T, role) ==
  /\ Sequel(T, SelectRole(role), Digest("EndEntity", "digest", <<role, "leaf">>))
  /\ Sequel(T, SelectRole(role), Digest("Intermediate", "digest", <<role, "intermediate">>))
  /\ Sequel(T, SelectRole(role), Digest("anchor", "digest", <<role, "root">>))

LEMMA ValidPathSelects ==
  ASSUME NEW c, Sequence(c), NEW what, NEW role
  PROVE  /\ Sequence(c \o ValidPath(what, role))
         /\ Takes(c \o ValidPath(what, role), SelectRole(role))
<1> DEFINE x == Run("path", what, "Path", Hierarchy(role), "Accept")
           y == SelectRole(role)
           w == <<x, y>>
<1>1. ValidPath(what, role) = w
  BY DEF ValidPath, SelectRole
<1> HIDE DEF x, y
<1>2. w \in Seq({x, y}) /\ 2 \in DOMAIN w /\ w[2] = y
  OBVIOUS
<1> HIDE DEF w
<1>3. Sequence(w) /\ Takes(w, y)
  BY <1>2 DEF Sequence, Takes
<1> QED
  BY <1>1, <1>3, SequenceConcat, TakesConcat DEF y

LEMMA OneMoreRun ==
  ASSUME NEW v, Sequence(v), NEW x, NEW y, Takes(v, y)
  PROVE  Sequence(v \o <<x>>) /\ Takes(v \o <<x>>, y)
<1>1. <<x>> \in Seq({x})
  OBVIOUS
<1>2. Sequence(<<x>>)
  BY <1>1 DEF Sequence
<1> QED
  BY <1>2, SequenceConcat, TakesConcat

LEMMA PathOrder ==
  ASSUME NEW role, NEW c, NEW e, NEW m, NEW r,
         Sequence(c), Takes(c, SelectRole(role)), Measures(e, role, "EndEntity"),
         Measures(m, role, "Intermediate"), Measures(r, role, "TrustAnchor")
  PROVE  LET T == c \o e \o m \o r \o <<Digest("anchor", "digest", <<role, "root">>)>> IN
         Sequence(T) /\ PathOrdered(T, role)
<1> DEFINE s == SelectRole(role)
           x == Digest("EndEntity", "digest", <<role, "leaf">>)
           y == Digest("Intermediate", "digest", <<role, "intermediate">>)
           z == Digest("anchor", "digest", <<role, "root">>)
           d == <<z>>
<1>1. /\ Sequence(e) /\ Takes(e, x) /\ Sequence(m) /\ Takes(m, y) /\ Sequence(r)
  BY DEF Measures, At, position_id
<1>2. Sequence(d) /\ Takes(d, z)
  <2> HIDE DEF z
  <2>1. d \in Seq({z}) /\ 1 \in DOMAIN d /\ d[1] = z
    OBVIOUS
  <2> QED
    BY <2>1 DEF Sequence, Takes
<1>3. Takes(c, s)
  OBVIOUS
<1> HIDE DEF s, x, y, z, d
<1>4. Sequence(c \o e) /\ Takes(c \o e, s) /\ Sequel(c \o e, s, x)
  BY <1>1, <1>3, SequenceConcat, TakesConcat, SequelConcat
<1>5. /\ Sequence(c \o e \o m) /\ Takes(c \o e \o m, s) /\ Sequel(c \o e \o m, s, x)
      /\ Sequel(c \o e \o m, s, y)
  BY <1>1, <1>4, SequenceConcat, TakesConcat, SequelConcat
<1>6. /\ Sequence(c \o e \o m \o r) /\ Takes(c \o e \o m \o r, s)
      /\ Sequel(c \o e \o m \o r, s, x) /\ Sequel(c \o e \o m \o r, s, y)
  BY <1>1, <1>5, SequenceConcat, TakesConcat, SequelConcat
<1>7. /\ Sequence(c \o e \o m \o r \o d) /\ Sequel(c \o e \o m \o r \o d, s, x)
      /\ Sequel(c \o e \o m \o r \o d, s, y) /\ Sequel(c \o e \o m \o r \o d, s, z)
  BY <1>2, <1>6, SequenceConcat, SequelConcat
<1> QED
  BY <1>7 DEF PathOrdered, s, x, y, z, d

LEMMA AtomicOrder == Sequence(atomic_steps) /\ PathOrdered(atomic_steps, "atomic")
<1> DEFINE
      i1 == InspectChain("atomic")
      i2 == InspectChain("invalid_classical")
      i3 == InspectChain("invalid_post_quantum")
      c == i1 \o i2 \o i3
      v == c \o ValidPath("valid_path", "atomic")
      e == atomic_position_steps("EndEntity")
      m == atomic_position_steps("Intermediate")
      r == atomic_position_steps("TrustAnchor")
<1>1. atomic_steps = v \o e \o m \o r \o <<Digest("anchor", "digest", <<"atomic", "root">>)>>
  BY DEF atomic_steps, atomic_controls
<1>2. Sequence(i1) /\ Sequence(i2) /\ Sequence(i3)
  BY InspectChainListed, ListedIsSequence
<1>3. /\ Measures(e, "atomic", "EndEntity") /\ Measures(m, "atomic", "Intermediate")
      /\ Measures(r, "atomic", "TrustAnchor")
  BY AtomicMeasures DEF PathPosition
<1> HIDE DEF i1, i2, i3, e, m, r
<1>4. Sequence(c)
  BY <1>2, SequenceConcat
<1> HIDE DEF c
<1>5. Sequence(v) /\ Takes(v, SelectRole("atomic"))
  BY <1>4, ValidPathSelects
<1> HIDE DEF v
<1> QED
  BY <1>1, <1>3, <1>5, PathOrder

LEMMA CatalystOrder == Sequence(catalyst_steps) /\ PathOrdered(catalyst_steps, "catalyst")
<1> DEFINE
      i1 == InspectChain("catalyst")
      i2 == InspectChain("invalid_alternative")
      c == i1 \o i2
      v == c \o ValidPath("valid_path", "catalyst")
      e == catalyst_position_steps("EndEntity")
      m == catalyst_position_steps("Intermediate")
      r == catalyst_position_steps("TrustAnchor")
<1>1. catalyst_steps = v \o e \o m \o r \o <<Digest("anchor", "digest", <<"catalyst", "root">>)>>
  BY DEF catalyst_steps, catalyst_controls
<1>2. Sequence(i1) /\ Sequence(i2)
  BY InspectChainListed, ListedIsSequence
<1>3. /\ Measures(e, "catalyst", "EndEntity") /\ Measures(m, "catalyst", "Intermediate")
      /\ Measures(r, "catalyst", "TrustAnchor")
  BY CatalystMeasures DEF PathPosition
<1> HIDE DEF i1, i2, e, m, r
<1>4. Sequence(c)
  BY <1>2, SequenceConcat
<1> HIDE DEF c
<1>5. Sequence(v) /\ Takes(v, SelectRole("catalyst"))
  BY <1>4, ValidPathSelects
<1> HIDE DEF v
<1> QED
  BY <1>1, <1>3, <1>5, PathOrder

LEMMA ChameleonOrder == Sequence(chameleon_steps) /\ PathOrdered(chameleon_steps, "base")
<1> DEFINE
      i1 == InspectChain("base")
      i2 == InspectChain("invalid_delta_base")
      i3 == InspectChain("invalid_base")
      i4 == InspectChain("delta")
      c == i1 \o i2 \o i3 \o i4
      v == c \o ValidPath("base_path", "base")
      x == Run("path", "delta_path", "Path", Hierarchy("delta"), "Accept")
      u == v \o <<x>>
      e == chameleon_position_steps("EndEntity")
      m == chameleon_position_steps("Intermediate")
      r == chameleon_position_steps("TrustAnchor")
<1>1. chameleon_steps = u \o e \o m \o r \o <<Digest("anchor", "digest", <<"base", "root">>)>>
  BY DEF chameleon_steps, chameleon_controls
<1>2. Sequence(i1) /\ Sequence(i2) /\ Sequence(i3) /\ Sequence(i4)
  BY InspectChainListed, ListedIsSequence
<1>3. /\ Measures(e, "base", "EndEntity") /\ Measures(m, "base", "Intermediate")
      /\ Measures(r, "base", "TrustAnchor")
  BY ChameleonMeasures DEF PathPosition
<1> HIDE DEF i1, i2, i3, i4, e, m, r, x
<1>4. Sequence(c)
  BY <1>2, SequenceConcat
<1> HIDE DEF c
<1>5. Sequence(v) /\ Takes(v, SelectRole("base"))
  BY <1>4, ValidPathSelects
<1> HIDE DEF v
<1>6. Sequence(u) /\ Takes(u, SelectRole("base"))
  BY <1>5, OneMoreRun
<1> HIDE DEF u
<1> QED
  BY <1>1, <1>3, <1>6, PathOrder

LEMMA PureOrder == Sequence(pure_steps) /\ PathOrdered(pure_steps, "pure")
<1> DEFINE
      i1 == InspectChain("pure")
      i2 == InspectChain("invalid")
      c == i1 \o i2
      v == c \o ValidPath("valid_path", "pure")
      e == pure_position_steps("EndEntity")
      m == pure_position_steps("Intermediate")
      r == pure_position_steps("TrustAnchor")
<1>1. pure_steps = v \o e \o m \o r \o <<Digest("anchor", "digest", <<"pure", "root">>)>>
  BY DEF pure_steps
<1>2. Sequence(i1) /\ Sequence(i2)
  BY InspectChainListed, ListedIsSequence
<1>3. /\ Measures(e, "pure", "EndEntity") /\ Measures(m, "pure", "Intermediate")
      /\ Measures(r, "pure", "TrustAnchor")
  BY PureMeasures DEF PathPosition
<1> HIDE DEF i1, i2, e, m, r
<1>4. Sequence(c)
  BY <1>2, SequenceConcat
<1> HIDE DEF c
<1>5. Sequence(v) /\ Takes(v, SelectRole("pure"))
  BY <1>4, ValidPathSelects
<1> HIDE DEF v
<1> QED
  BY <1>1, <1>3, <1>5, PathOrder

LEMMA RelatedOrder == Sequence(related_steps) /\ PathOrdered(related_steps, "classical")
<1> DEFINE
      i1 == InspectChain("classical")
      i2 == InspectChain("invalid_binding")
      i3 == InspectChain("invalid_classical")
      i4 == InspectChain("post_quantum")
      i5 == InspectChain("invalid_post_quantum")
      c == i1 \o i2 \o i3 \o i4 \o i5
      v == c \o ValidPath("classical_path", "classical")
      x == Run("path", "post_quantum_path", "Path", Hierarchy("post_quantum"), "Accept")
      u == v \o <<x>>
      e == related_position_steps("EndEntity")
      m == related_position_steps("Intermediate")
      r == related_position_steps("TrustAnchor")
<1>1. related_steps = u \o e \o m \o r \o <<Digest("anchor", "digest", <<"classical", "root">>)>>
  BY DEF related_steps, related_controls
<1>2. Sequence(i1) /\ Sequence(i2) /\ Sequence(i3) /\ Sequence(i4) /\ Sequence(i5)
  BY InspectChainListed, ListedIsSequence
<1>3. /\ Measures(e, "classical", "EndEntity") /\ Measures(m, "classical", "Intermediate")
      /\ Measures(r, "classical", "TrustAnchor")
  BY RelatedMeasures DEF PathPosition
<1> HIDE DEF i1, i2, i3, i4, i5, e, m, r, x
<1>4. Sequence(c)
  BY <1>2, SequenceConcat
<1> HIDE DEF c
<1>5. Sequence(v) /\ Takes(v, SelectRole("classical"))
  BY <1>4, ValidPathSelects
<1> HIDE DEF v
<1>6. Sequence(u) /\ Takes(u, SelectRole("classical"))
  BY <1>5, OneMoreRun
<1> HIDE DEF u
<1> QED
  BY <1>1, <1>3, <1>6, PathOrder

-----------------------------------------------------------------------------
(* The order of the digests in the tables of one credential *)

CredentialLeaf == <<"certificate", "leaf">>

\* The path's digests come with the stack's run, then the evidence's, then the
\* ones of the request.
CredentialOrdered(T) ==
  LET selected == SelectLeaf(CredentialLeaf)
      digest == Digest("evidence", "digest", CredentialLeaf)
      edge == Edge("evidence", "edge", CredentialLeaf, Issuer)
      leaf == Digest("node", "digest", CredentialLeaf)
      leaf_edge == Edge("node", "edge", CredentialLeaf, Issuer)
      issuer == Digest("issuer", "digest", Issuer)
  IN  /\ Sequel(T, selected, digest) /\ Sequel(T, selected, edge)
      /\ Sequel(T, selected, leaf_edge) /\ Sequel(T, selected, issuer)
      /\ Sequel(T, selected, Digest("anchor", "digest", TrustStore))
      /\ Sequel(T, digest, leaf) /\ Sequel(T, edge, leaf)
      /\ Sequel(T, leaf, leaf_edge) /\ Sequel(T, leaf_edge, issuer)

LEMMA CredentialOrder ==
  ASSUME NEW v, NEW c, Sequence(v), Takes(v, SelectLeaf(CredentialLeaf)), Sequence(c),
         Takes(c, Digest("evidence", "digest", CredentialLeaf)),
         Takes(c, Edge("evidence", "edge", CredentialLeaf, Issuer))
  PROVE  LET T == v \o c \o AnchorDigest \o PathIdentity(CredentialLeaf) IN
         Sequence(T) /\ CredentialOrdered(T)
<1> DEFINE s == SelectLeaf(CredentialLeaf)
           x == Digest("evidence", "digest", CredentialLeaf)
           y == Edge("evidence", "edge", CredentialLeaf, Issuer)
           n == Digest("node", "digest", CredentialLeaf)
           e == Edge("node", "edge", CredentialLeaf, Issuer)
           i == Digest("issuer", "digest", Issuer)
           j == Edge("issuer", "edge", Issuer, TrustStore)
           z == Digest("anchor", "digest", TrustStore)
           a == <<z>>
           p == <<n, e, i, j>>
<1>1. AnchorDigest = a /\ PathIdentity(CredentialLeaf) = p
  BY DEF AnchorDigest, PathIdentity
<1>2. Takes(v, s) /\ Takes(c, x) /\ Takes(c, y)
  OBVIOUS
<1> HIDE DEF s, x, y, n, e, i, j, z
<1>3. Sequence(a) /\ Takes(a, z)
  <2>1. a \in Seq({z}) /\ 1 \in DOMAIN a /\ a[1] = z
    OBVIOUS
  <2> QED
    BY <2>1 DEF Sequence, Takes
<1>4. /\ Sequence(p) /\ Takes(p, n) /\ Takes(p, e) /\ Takes(p, i)
      /\ Sequel(p, n, e) /\ Sequel(p, e, i)
  <2>1. /\ p \in Seq({n, e, i, j}) /\ 1 \in DOMAIN p /\ 2 \in DOMAIN p /\ 3 \in DOMAIN p
        /\ p[1] = n /\ p[2] = e /\ p[3] = i /\ 1 < 2 /\ 2 < 3
    OBVIOUS
  <2> HIDE DEF p
  <2>2. Sequel(p, n, e) /\ Sequel(p, e, i)
    BY <2>1 DEF Sequel
  <2> QED
    BY <2>1, <2>2 DEF Sequence, Takes
<1> HIDE DEF a, p
<1> DEFINE vc == v \o c
<1>5. /\ Sequence(vc) /\ Takes(vc, s) /\ Takes(vc, x) /\ Takes(vc, y)
      /\ Sequel(vc, s, x) /\ Sequel(vc, s, y)
  BY <1>2, SequenceConcat, TakesConcat, SequelConcat
<1> HIDE DEF vc
<1> DEFINE va == vc \o a
<1>6. /\ Sequence(va) /\ Takes(va, s) /\ Takes(va, x) /\ Takes(va, y)
      /\ Sequel(va, s, x) /\ Sequel(va, s, y) /\ Sequel(va, s, z)
  BY <1>3, <1>5, SequenceConcat, TakesConcat, SequelConcat
<1> HIDE DEF va
<1> DEFINE T == va \o p
<1>7. Sequence(T) /\ Sequel(T, s, x) /\ Sequel(T, s, y) /\ Sequel(T, s, z)
  BY <1>4, <1>6, SequenceConcat, SequelConcat
<1>8. Sequel(T, s, e) /\ Sequel(T, s, i) /\ Sequel(T, x, n) /\ Sequel(T, y, n)
  BY <1>4, <1>6, SequelConcat
<1>9. Sequel(T, n, e) /\ Sequel(T, e, i)
  BY <1>4, <1>6, SequelConcat
<1>10. T = v \o c \o AnchorDigest \o PathIdentity(CredentialLeaf)
  BY <1>1 DEF T, va, vc
<1> HIDE DEF T
<1>11. CredentialOrdered(T)
  BY <1>7, <1>8, <1>9 DEF CredentialOrdered, s, x, y, z, n, e, i
<1> QED
  BY <1>7, <1>10, <1>11

LEMMA StackSelects ==
  ASSUME NEW run, NEW leaf
  PROVE  /\ Sequence(BouncyCastleStack(run, leaf))
         /\ Takes(BouncyCastleStack(run, leaf), SelectLeaf(leaf))
         /\ Sequence(OpenSslStack(run, leaf)) /\ Takes(OpenSslStack(run, leaf), SelectLeaf(leaf))
<1> DEFINE y == SelectLeaf(leaf)
           b == <<run, y>>
           o == <<y, run>>
<1>1. BouncyCastleStack(run, leaf) = b /\ OpenSslStack(run, leaf) = o
  BY DEF BouncyCastleStack, OpenSslStack
<1> HIDE DEF y
<1>2. /\ b \in Seq({run, y}) /\ 2 \in DOMAIN b /\ b[2] = y
      /\ o \in Seq({run, y}) /\ 1 \in DOMAIN o /\ o[1] = y
  OBVIOUS
<1> HIDE DEF b, o
<1> QED
  BY <1>1, <1>2 DEF Sequence, Takes, y

LEMMA EvidenceIdentityTakes ==
  ASSUME NEW leaf
  PROVE  /\ Sequence(EvidenceIdentity(leaf))
         /\ Takes(EvidenceIdentity(leaf), Digest("evidence", "digest", leaf))
         /\ Takes(EvidenceIdentity(leaf), Edge("evidence", "edge", leaf, Issuer))
<1> DEFINE x == Digest("evidence", "digest", leaf)
           y == Edge("evidence", "edge", leaf, Issuer)
           d == <<x, y>>
<1>1. EvidenceIdentity(leaf) = d
  BY DEF EvidenceIdentity
<1> HIDE DEF x, y
<1>2. d \in Seq({x, y}) /\ 1 \in DOMAIN d /\ 2 \in DOMAIN d /\ d[1] = x /\ d[2] = y
  OBVIOUS
<1> HIDE DEF d
<1> QED
  BY <1>1, <1>2 DEF Sequence, Takes, x, y

LEMMA AtomicTlsOrder == CredentialOrdered(atomic_tls_steps)
<1> DEFINE
      valid == Leaf("certificate")
      invalid == Leaf("invalid_post_quantum")
      Tls(what, leaf, v) == Run("tls", what, "TlsTranscript", Handshake(leaf, Key("leaf")), v)
      a == <<Inspect(valid), Inspect(invalid)>>
      b == BouncyCastleStack(Tls("valid", valid, "Accept"), valid)
      c == <<Tls("invalid_post_quantum", invalid, "Reject"), Corrupt("leaf", valid),
             Tls("invalid_classical", Corrupted(valid), "Reject"),
             Validity("leaf", "validity", valid)>>
      d == EvidenceIdentity(valid)
      v == a \o b \o c
<1>1. atomic_tls_steps = v \o d \o AnchorDigest \o PathIdentity(valid)
  BY DEF atomic_tls_steps
<1>2. a \in Seq(Range(a)) /\ c \in Seq(Range(c))
  BY DEF Range
<1>3. valid = CredentialLeaf
  BY DEF Leaf, CredentialLeaf
<1>4. Sequence(b) /\ Takes(b, SelectLeaf(valid))
  BY StackSelects
<1>5. /\ Sequence(d) /\ Takes(d, Digest("evidence", "digest", valid))
      /\ Takes(d, Edge("evidence", "edge", valid, Issuer))
  BY EvidenceIdentityTakes
<1> HIDE DEF a, b, c, d, valid
<1>6. Sequence(a) /\ Sequence(c)
  BY <1>2 DEF Sequence
<1>7. Sequence(a \o b) /\ Takes(a \o b, SelectLeaf(valid))
  BY <1>4, <1>6, SequenceConcat, TakesConcat
<1>8. Sequence(v) /\ Takes(v, SelectLeaf(valid))
  BY <1>6, <1>7, SequenceConcat, TakesConcat
<1> HIDE DEF v
<1> QED
  BY <1>1, <1>3, <1>5, <1>8, CredentialOrder

LEMMA ChameleonTlsOrder == CredentialOrdered(chameleon_tls_steps)
<1> DEFINE
      base == Leaf("certificate")
      invalid == Leaf("invalid_delta_base")
      Tls(what, leaf, key, v) ==
        Run("tls", what, "TlsTranscript", Handshake(leaf, Key(key)), v)
      a == <<Inspect(base), Inspect(invalid)>>
      b == BouncyCastleStack(Tls("valid_base", base, "base", "Accept"), base)
      c == <<Tls("invalid_delta", invalid, "base", "Accept"),
             Tls("separate_delta", Leaf("delta"), "delta", "Accept"),
             Corrupt("leaf", base),
             Tls("invalid_base", Corrupted(base), "base", "Reject"),
             Run("leaf", "valid_delta", "DeltaSignature", Presentation(base), "Accept"),
             Run("leaf", "invalid_delta", "DeltaSignature", Presentation(invalid), "Reject"),
             Validity("leaf", "base_validity", base),
             Validity("leaf", "delta_validity", Leaf("delta"))>>
      d == EvidenceIdentity(base)
      v == a \o b \o c
<1>1. chameleon_tls_steps = v \o d \o AnchorDigest \o PathIdentity(base)
  BY DEF chameleon_tls_steps
<1>2. a \in Seq(Range(a)) /\ c \in Seq(Range(c))
  BY DEF Range
<1>3. base = CredentialLeaf
  BY DEF Leaf, CredentialLeaf
<1>4. Sequence(b) /\ Takes(b, SelectLeaf(base))
  BY StackSelects
<1>5. /\ Sequence(d) /\ Takes(d, Digest("evidence", "digest", base))
      /\ Takes(d, Edge("evidence", "edge", base, Issuer))
  BY EvidenceIdentityTakes
<1> HIDE DEF a, b, c, d, base
<1>6. Sequence(a) /\ Sequence(c)
  BY <1>2 DEF Sequence
<1>7. Sequence(a \o b) /\ Takes(a \o b, SelectLeaf(base))
  BY <1>4, <1>6, SequenceConcat, TakesConcat
<1>8. Sequence(v) /\ Takes(v, SelectLeaf(base))
  BY <1>6, <1>7, SequenceConcat, TakesConcat
<1> HIDE DEF v
<1> QED
  BY <1>1, <1>3, <1>5, <1>8, CredentialOrder

LEMMA ObserveIsSequence ==
  ASSUME NEW what, NEW leaf, NEW verdict
  PROVE  Sequence(observe(what, leaf, verdict))
<1> DEFINE x == Run("tls", what, "openssl_tls", Handshake(leaf, Key("leaf")), verdict)
           y == Digest(what, "reported", leaf)
<1>1. observe(what, leaf, verdict) = <<x, y>>
  BY DEF observe
<1> HIDE DEF x, y
<1>2. <<x, y>> \in Seq({x, y})
  OBVIOUS
<1> QED
  BY <1>1, <1>2 DEF Sequence

LEMMA CatalystTlsOrder == CredentialOrdered(catalyst_tls_steps)
<1> DEFINE
      valid == Leaf("certificate")
      invalid == Leaf("invalid_post_quantum")
      a == <<Inspect(valid), Inspect(invalid),
             CrlStatus("leaf", "crl_status", valid, Issuer, IssuedCrl, <<"Pass", "Pass">>)>>
      b == <<SelectLeaf(valid)>>
      c == observe("valid", valid, "Accept")
      d == observe("invalid_post_quantum", invalid, "Accept")
      e == <<Corrupt("leaf", valid)>>
      f == observe("invalid_classical", Corrupted(valid), "Reject")
      g == <<Run("leaf", "valid_post_quantum", "AlternativeSignature", Presentation(valid),
        "Accept"),
             Run("leaf", "invalid_post_quantum", "AlternativeSignature", Presentation(invalid),
                 "Reject"),
             Run("tls", "transcript", "TlsTranscript", Handshake(valid, Key("leaf")), "Accept"),
             Validity("leaf", "validity", valid)>>
      h == EvidenceIdentity(valid)
      s == SelectLeaf(valid)
<1>1. catalyst_tls_steps
        = a \o b \o c \o d \o e \o f \o g \o h \o AnchorDigest \o PathIdentity(valid)
  BY DEF catalyst_tls_steps
<1>2. a \in Seq(Range(a)) /\ e \in Seq(Range(e)) /\ g \in Seq(Range(g))
  BY DEF Range
<1>3. valid = CredentialLeaf
  BY DEF Leaf, CredentialLeaf
<1>4. Sequence(b) /\ Takes(b, s)
  <2> HIDE DEF s
  <2>1. <<s>> \in Seq({s}) /\ 1 \in DOMAIN <<s>> /\ <<s>>[1] = s
    OBVIOUS
  <2>2. Sequence(<<s>>) /\ Takes(<<s>>, s)
    BY <2>1 DEF Sequence, Takes
  <2> QED
    BY <2>2 DEF s
<1>5. /\ Sequence(h) /\ Takes(h, Digest("evidence", "digest", valid))
      /\ Takes(h, Edge("evidence", "edge", valid, Issuer))
  BY EvidenceIdentityTakes
<1>6. Sequence(c) /\ Sequence(d) /\ Sequence(f)
  BY ObserveIsSequence
<1>7. s = SelectLeaf(valid)
  OBVIOUS
<1> HIDE DEF a, b, c, d, e, f, g, h, valid, s
<1>8. Sequence(a) /\ Sequence(e) /\ Sequence(g)
  BY <1>2 DEF Sequence
<1> DEFINE v2 == a \o b
           v3 == v2 \o c
           v4 == v3 \o d
           v5 == v4 \o e
           v6 == v5 \o f
           v == v6 \o g
<1>9. Sequence(v2) /\ Takes(v2, s)
  BY <1>4, <1>8, SequenceConcat, TakesConcat
<1> HIDE DEF v2
<1>10. Sequence(v3) /\ Takes(v3, s)
  BY <1>6, <1>9, SequenceConcat, TakesConcat
<1> HIDE DEF v3
<1>11. Sequence(v4) /\ Takes(v4, s)
  BY <1>6, <1>10, SequenceConcat, TakesConcat
<1> HIDE DEF v4
<1>12. Sequence(v5) /\ Takes(v5, s)
  BY <1>8, <1>11, SequenceConcat, TakesConcat
<1> HIDE DEF v5
<1>13. Sequence(v6) /\ Takes(v6, s)
  BY <1>6, <1>12, SequenceConcat, TakesConcat
<1> HIDE DEF v6
<1>14. Sequence(v) /\ Takes(v, s)
  BY <1>8, <1>13, SequenceConcat, TakesConcat
<1>15. catalyst_tls_steps = v \o h \o AnchorDigest \o PathIdentity(valid)
  BY <1>1 DEF v, v6, v5, v4, v3, v2
<1> HIDE DEF v
<1> QED
  BY <1>3, <1>5, <1>7, <1>14, <1>15, CredentialOrder

LEMMA OpenSslOrder == CredentialOrdered(related_openssl_steps)
<1> DEFINE
      classical == Leaf("certificate")
      post_quantum == Leaf("post_quantum")
      x == Digest("evidence", "digest", classical)
      y == Edge("evidence", "edge", classical, Issuer)
      a == <<Inspect(classical),
             Conformance("pair", "conformance", classical, post_quantum, published_failures),
             Binding("pair", "invalid_binding", classical, Leaf("invalid_binding"), "Fail"),
             CrlStatus("leaf", "classical_crl", classical, Issuer, IssuedCrl, <<"Pass", "Pass">>),
             CrlStatus("leaf", "post_quantum_crl", post_quantum, Issuer, IssuedCrl,
                       <<"Pass", "Fail">>)>>
      b == OpenSslStack(Run("leaf", "classical", "openssl", OpenSslWith(classical, IssuedCrl),
                            "Accept"), classical)
      c == <<Corrupt("leaf", classical),
             Run("leaf", "classical_invalid", "openssl",
                 OpenSslWith(Corrupted(classical), IssuedCrl), "Reject"),
             Run("leaf", "post_quantum", "openssl", Presentation(post_quantum), "Accept"),
             Run("leaf", "invalid_binding_path", "openssl",
                 Presentation(Leaf("invalid_binding")), "Accept"),
             Run("leaf", "post_quantum_expired", "openssl", Presentation(Leaf("expired")),
               "Reject"),
             Run("leaf", "post_quantum_revocation", "openssl",
                 OpenSslWith(post_quantum, IssuedCrl), "Reject"),
             x, Digest("pair", "digest", post_quantum),
             y>>
      T == a \o b \o c \o AnchorDigest \o PathIdentity(classical)
<1>1. related_openssl_steps = T
  BY DEF related_openssl_steps
<1>2. a \in Seq(Range(a)) /\ c \in Seq(Range(c))
  BY DEF Range
<1>3. classical = CredentialLeaf
  BY DEF Leaf, CredentialLeaf
<1>4. Sequence(b) /\ Takes(b, SelectLeaf(classical))
  BY StackSelects
<1>5. 7 \in DOMAIN c /\ 9 \in DOMAIN c /\ c[7] = x /\ c[9] = y
  OBVIOUS
<1>6. /\ x = Digest("evidence", "digest", classical)
      /\ y = Edge("evidence", "edge", classical, Issuer)
  OBVIOUS
<1> HIDE DEF a, b, c, x, y, classical
<1>7. Sequence(a) /\ Sequence(c) /\ Takes(c, x) /\ Takes(c, y)
  BY <1>2, <1>5 DEF Sequence, Takes
<1>8. Sequence(a \o b) /\ Takes(a \o b, SelectLeaf(classical))
  BY <1>4, <1>7, SequenceConcat, TakesConcat
<1>9. Sequence(T) /\ CredentialOrdered(T)
  BY <1>3, <1>6, <1>7, <1>8, CredentialOrder
<1> QED
  BY <1>1, <1>9

LEMMA RelatedTlsOrder == CredentialOrdered(related_tls_steps)
<1> DEFINE
      classical == Leaf("certificate")
      post_quantum == Leaf("post_quantum")
      Tls(what, leaf, key, v) ==
        Run("tls", what, "TlsTranscript", Handshake(leaf, Key(key)), v)
      x == Digest("evidence", "digest", classical)
      y == Edge("evidence", "edge", classical, Issuer)
      a == <<Inspect(classical),
             Conformance("pair", "conformance", classical, post_quantum, published_failures),
             Binding("pair", "invalid_binding", Leaf("invalid_binding"), post_quantum, "Fail"),
             CrlStatus("leaf", "classical_crl", classical, Issuer, IssuedCrl, <<"Pass", "Pass">>),
             CrlStatus("leaf", "post_quantum_crl", post_quantum, Issuer, IssuedCrl,
                       <<"Pass", "Fail">>)>>
      b == BouncyCastleStack(Tls("classical", classical, "classical", "Accept"), classical)
      c == <<Tls("invalid_binding", Leaf("invalid_binding"), "classical", "Accept"),
             Tls("missing_binding", Leaf("missing_binding"), "classical", "Accept"),
             Tls("separate_post_quantum", post_quantum, "post_quantum", "Accept"),
             Tls("expired", Leaf("expired"), "post_quantum", "Reject"),
             Corrupt("leaf", classical),
             Tls("invalid_classical", Corrupted(classical), "classical", "Reject"),
             Validity("leaf", "post_quantum_validity", post_quantum),
             x, Digest("pair", "digest", post_quantum),
             y>>
      T == a \o b \o c \o AnchorDigest \o PathIdentity(classical)
      w == Validity("leaf", "classical_validity", classical)
<1>1. related_tls_steps = T \o <<w>>
  BY DEF related_tls_steps
<1>2. a \in Seq(Range(a)) /\ c \in Seq(Range(c))
  BY DEF Range
<1>3. classical = CredentialLeaf
  BY DEF Leaf, CredentialLeaf
<1>4. Sequence(b) /\ Takes(b, SelectLeaf(classical))
  BY StackSelects
<1>5. 8 \in DOMAIN c /\ 10 \in DOMAIN c /\ c[8] = x /\ c[10] = y
  OBVIOUS
<1>6. /\ x = Digest("evidence", "digest", classical)
      /\ y = Edge("evidence", "edge", classical, Issuer)
  OBVIOUS
<1> HIDE DEF a, b, c, x, y, classical, w
<1>7. Sequence(a) /\ Sequence(c) /\ Takes(c, x) /\ Takes(c, y)
  BY <1>2, <1>5 DEF Sequence, Takes
<1>8. Sequence(a \o b) /\ Takes(a \o b, SelectLeaf(classical))
  BY <1>4, <1>7, SequenceConcat, TakesConcat
<1>9. Sequence(T) /\ CredentialOrdered(T)
  BY <1>3, <1>6, <1>7, <1>8, CredentialOrder
<1> HIDE DEF T
<1>10. Sequence(<<w>>)
  <2>1. <<w>> \in Seq({w})
    OBVIOUS
  <2> QED
    BY <2>1 DEF Sequence
<1>11. \A s, t : Sequel(T, s, t) => Sequel(T \o <<w>>, s, t)
  BY <1>9, <1>10, SequelConcat
<1> DEFINE u == T \o <<w>>
<1> HIDE DEF u
<1>12. CredentialOrdered(u)
  BY <1>9, <1>11 DEF CredentialOrdered, u
<1> QED
  BY <1>1, <1>12 DEF u

\* Bouncy Castle's request takes its digests once.
BouncyCastleOrdered(T) ==
  LET selected == SelectLeaf(CredentialLeaf)
  IN  /\ Sequel(T, selected, Digest("node", "digest", CredentialLeaf))
      /\ Sequel(T, selected, Digest("issuer", "digest", Issuer))
      /\ Sequel(T, selected, Digest("anchor", "digest", TrustStore))

LEMMA BouncyCastleOrder == BouncyCastleOrdered(catalyst_bouncy_castle_steps)
<1> DEFINE
      valid == Leaf("certificate")
      invalid == Leaf("invalid_post_quantum")
      x == Digest("node", "digest", valid)
      y == Digest("issuer", "digest", Issuer)
      a == <<Inspect(valid), Inspect(invalid),
             CrlStatus("leaf", "crl_status", valid, Issuer, IssuedCrl, <<"Pass", "Pass">>),
             CrlStatus("issuer", "crl_status", Issuer, TrustStore, RootCrl, <<"Pass", "Pass">>),
             CrlStatus("root", "crl_status", TrustStore, TrustStore, RootCrl, <<"Pass", "Pass">>),
             Validity("leaf", "validity", valid), Validity("issuer", "validity", Issuer),
             Validity("root", "validity", TrustStore)>>
      b == BouncyCastleStack(Run("leaf", "valid_default", "Path", Presentation(valid), "Accept"),
        valid)
      c == <<Run("leaf", "invalid_post_quantum_default", "Path", Presentation(invalid), "Accept"),
             Run("leaf", "valid_post_quantum", "AlternativeSignature", Presentation(valid),
               "Accept"),
             Run("leaf", "invalid_post_quantum", "AlternativeSignature", Presentation(invalid),
                 "Reject"),
             Corrupt("leaf", valid),
             Run("leaf", "invalid_classical", "Path", Presentation(Corrupted(valid)), "Reject"),
             Corrupt("issuer", Issuer),
             Run("issuer", "invalid_classical", "Path",
                 [Presentation(valid) EXCEPT !.intermediate = Corrupted(Issuer)], "Reject"),
             Corrupt("root", TrustStore),
             Run("root", "invalid_classical", "Path",
                 [Presentation(valid) EXCEPT !.root = Corrupted(TrustStore)], "Accept"),
             x, Edge("node", "edge", valid, Issuer),
             y, Edge("issuer", "edge", Issuer, TrustStore),
             Digest("root", "digest", TrustStore)>>
      s == SelectLeaf(valid)
      z == Digest("anchor", "digest", TrustStore)
<1>1. catalyst_bouncy_castle_steps = a \o b \o c \o <<z>>
  BY DEF catalyst_bouncy_castle_steps, AnchorDigest
<1>2. a \in Seq(Range(a)) /\ c \in Seq(Range(c))
  BY DEF Range
<1>3. valid = CredentialLeaf
  BY DEF Leaf, CredentialLeaf
<1>4. Sequence(b) /\ Takes(b, s)
  BY StackSelects
<1>5. 10 \in DOMAIN c /\ 12 \in DOMAIN c /\ c[10] = x /\ c[12] = y
  OBVIOUS
<1>6. x = Digest("node", "digest", valid) /\ s = SelectLeaf(valid)
  OBVIOUS
<1> HIDE DEF a, b, c, x, s, valid
<1>7. /\ y = Digest("issuer", "digest", Issuer)
      /\ z = Digest("anchor", "digest", TrustStore)
  OBVIOUS
<1> HIDE DEF y, z
<1>8. Sequence(a) /\ Sequence(c) /\ Takes(c, x) /\ Takes(c, y)
  BY <1>2, <1>5 DEF Sequence, Takes
<1>9. Sequence(<<z>>) /\ Takes(<<z>>, z)
  <2>1. <<z>> \in Seq({z}) /\ 1 \in DOMAIN <<z>> /\ <<z>>[1] = z
    OBVIOUS
  <2> QED
    BY <2>1 DEF Sequence, Takes
<1> DEFINE v == a \o b
           w == v \o c
           T == w \o <<z>>
<1>10. Sequence(v) /\ Takes(v, s)
  BY <1>4, <1>8, SequenceConcat, TakesConcat
<1> HIDE DEF v
<1>11. Sequence(w) /\ Takes(w, s) /\ Sequel(w, s, x) /\ Sequel(w, s, y)
  BY <1>8, <1>10, SequenceConcat, TakesConcat, SequelConcat
<1> HIDE DEF w
<1>12. Sequel(T, s, x) /\ Sequel(T, s, y) /\ Sequel(T, s, z)
  BY <1>9, <1>11, SequelConcat
<1>13. catalyst_bouncy_castle_steps = T
  BY <1>1 DEF T, w, v
<1> HIDE DEF T
<1>14. BouncyCastleOrdered(T)
  BY <1>3, <1>6, <1>7, <1>12 DEF BouncyCastleOrdered
<1> QED
  BY <1>13, <1>14

-----------------------------------------------------------------------------
(* The order of the digests in the cross-signed table *)

LEMMA SelectionTakes ==
  ASSUME NEW id, NEW roots, NEW intermediates, NEW nominal
  PROVE  LET s == Selection(id, roots, intermediates, nominal) IN
         Sequence(s) /\ Takes(s, Digest(id, "leaf", <<"atomic", "leaf">>))
<1> DEFINE x == Digest(id, "leaf", <<"atomic", "leaf">>)
           y == Builder(id, "route", roots, intermediates, cross_leaf, nominal)
           s == <<x, y>>
<1>1. Selection(id, roots, intermediates, nominal) = s
  BY DEF Selection, cross_leaf
<1> HIDE DEF x, y
<1>2. s \in Seq({x, y}) /\ 1 \in DOMAIN s /\ s[1] = x
  OBVIOUS
<1> HIDE DEF s
<1> QED
  BY <1>1, <1>2 DEF Sequence, Takes, x

\* The known digests and the runs of the builder, the first of them earlier
\* than the one that must take the classical route.
BuilderOrdered(T) ==
  /\ Takes(T, Digest("hash", "classical_ica", <<"classical", "intermediate">>))
  /\ Takes(T, Digest("hash", "classical_root", <<"classical", "root">>))
  /\ Takes(T, Digest("hash", "atomic_ica", <<"atomic", "intermediate">>))
  /\ Takes(T, Digest("hash", "atomic_root", <<"atomic", "root">>))
  /\ Sequel(T, Digest("selected", "leaf", <<"atomic", "leaf">>),
               Digest("classical_fallback", "leaf", <<"atomic", "leaf">>))

LEMMA BuilderOrder == Sequence(builder_steps) /\ BuilderOrdered(builder_steps)
<1> DEFINE
      x1 == Digest("hash", "classical_ica", <<"classical", "intermediate">>)
      x2 == Digest("hash", "classical_root", <<"classical", "root">>)
      x3 == Digest("hash", "atomic_ica", <<"atomic", "intermediate">>)
      x4 == Digest("hash", "atomic_root", <<"atomic", "root">>)
      y1 == Digest("selected", "leaf", <<"atomic", "leaf">>)
      y4 == Digest("classical_fallback", "leaf", <<"atomic", "leaf">>)
      h == <<x1, x2, x3, x4>>
      s1 == Selection("selected", Bundle("roots"), Bundle("icas"), "atomic")
      s2 == Selection("forced_classical", Classical("root"), Bundle("icas"), "classical")
      s3 == Selection("forced_atomic", <<"atomic", "root">>, Bundle("icas"), "atomic")
      s4 == Selection("classical_fallback", Bundle("roots"), Bundle("icas_classical"), "classical")
      s5 == Selection("atomic_fallback", Bundle("roots"), Bundle("icas_atomic"), "atomic")
      z == Step("routes", "forced", "routes", << >>, "expected", {})
      f == <<z>>
<1>1. builder_steps = h \o s1 \o s2 \o s3 \o s4 \o s5 \o f
  BY DEF builder_steps, Classical
<1>2. /\ Sequence(s1) /\ Takes(s1, y1) /\ Sequence(s2) /\ Sequence(s3)
      /\ Sequence(s4) /\ Takes(s4, y4) /\ Sequence(s5)
  BY SelectionTakes
<1> HIDE DEF x1, x2, x3, x4, y1, y4, s1, s2, s3, s4, s5, z
<1>3. Sequence(h) /\ Takes(h, x1) /\ Takes(h, x2) /\ Takes(h, x3) /\ Takes(h, x4)
  <2>1. /\ h \in Seq({x1, x2, x3, x4}) /\ 1 \in DOMAIN h /\ 2 \in DOMAIN h /\ 3 \in DOMAIN h
        /\ 4 \in DOMAIN h /\ h[1] = x1 /\ h[2] = x2 /\ h[3] = x3 /\ h[4] = x4
    OBVIOUS
  <2> HIDE DEF h
  <2> QED
    BY <2>1 DEF Sequence, Takes
<1>4. Sequence(f)
  <2>1. f \in Seq({z})
    OBVIOUS
  <2> QED
    BY <2>1 DEF Sequence
<1> HIDE DEF h, f
<1> DEFINE t1 == h \o s1
           t2 == t1 \o s2
           t3 == t2 \o s3
           t4 == t3 \o s4
           t5 == t4 \o s5
           T == t5 \o f
           Known(t) == Takes(t, x1) /\ Takes(t, x2) /\ Takes(t, x3) /\ Takes(t, x4)
<1>5. Sequence(t1) /\ Known(t1) /\ Takes(t1, y1)
  BY <1>2, <1>3, SequenceConcat, TakesConcat
<1> HIDE DEF t1
<1>6. Sequence(t2) /\ Known(t2) /\ Takes(t2, y1)
  BY <1>2, <1>5, SequenceConcat, TakesConcat
<1> HIDE DEF t2
<1>7. Sequence(t3) /\ Known(t3) /\ Takes(t3, y1)
  BY <1>2, <1>6, SequenceConcat, TakesConcat
<1> HIDE DEF t3
<1>8. Sequence(t4) /\ Known(t4) /\ Sequel(t4, y1, y4)
  BY <1>2, <1>7, SequenceConcat, TakesConcat, SequelConcat
<1> HIDE DEF t4
<1>9. Sequence(t5) /\ Known(t5) /\ Sequel(t5, y1, y4)
  BY <1>2, <1>8, SequenceConcat, TakesConcat, SequelConcat
<1> HIDE DEF t5
<1>10. Sequence(T) /\ Known(T) /\ Sequel(T, y1, y4)
  BY <1>4, <1>9, SequenceConcat, TakesConcat, SequelConcat
<1>11. builder_steps = T
  BY <1>1 DEF T, t5, t4, t3, t2, t1
<1> HIDE DEF T
<1>12. BuilderOrdered(T)
  BY <1>10 DEF BuilderOrdered, x1, x2, x3, x4, y1, y4
<1> QED
  BY <1>10, <1>11, <1>12

\* The atomic analysis runs between the builder's runs and the digests that
\* are taken for the classical route.
CrossOrdered(T) ==
  LET selected == Digest("selected", "leaf", <<"atomic", "leaf">>)
      fallback == Digest("classical_fallback", "leaf", <<"atomic", "leaf">>)
      leaf == Digest("EndEntity", "digest", <<"atomic", "leaf">>)
      route_leaf == Digest("route", "leaf", <<"atomic", "leaf">>)
  IN  /\ PathOrdered(T, "atomic")
      /\ Sequel(T, selected, SelectRole("atomic")) /\ Sequel(T, leaf, route_leaf)
      /\ Sequel(T, selected, fallback) /\ Sequel(T, fallback, route_leaf)
      /\ Sequel(T, selected, route_leaf)
      /\ Sequel(T, Digest("hash", "atomic_ica", <<"atomic", "intermediate">>),
                   Digest("Intermediate", "digest", <<"atomic", "intermediate">>))
      /\ Sequel(T, Digest("hash", "atomic_root", <<"atomic", "root">>),
                   Digest("anchor", "digest", <<"atomic", "root">>))
      /\ Sequel(T, Digest("hash", "classical_ica", <<"classical", "intermediate">>),
                   Digest("route", "intermediate", <<"classical", "intermediate">>))
      /\ Sequel(T, Digest("hash", "classical_root", <<"classical", "root">>),
                   Digest("route", "root", <<"classical", "root">>))

LEMMA CrossOrder == CrossOrdered(cross_signed_steps)
<1> DEFINE
      x1 == Digest("hash", "classical_ica", <<"classical", "intermediate">>)
      x2 == Digest("hash", "classical_root", <<"classical", "root">>)
      x3 == Digest("hash", "atomic_ica", <<"atomic", "intermediate">>)
      x4 == Digest("hash", "atomic_root", <<"atomic", "root">>)
      y1 == Digest("selected", "leaf", <<"atomic", "leaf">>)
      y4 == Digest("classical_fallback", "leaf", <<"atomic", "leaf">>)
      s == SelectRole("atomic")
      d1 == Digest("EndEntity", "digest", <<"atomic", "leaf">>)
      d2 == Digest("Intermediate", "digest", <<"atomic", "intermediate">>)
      d3 == Digest("anchor", "digest", <<"atomic", "root">>)
      r1 == Digest("route", "leaf", <<"atomic", "leaf">>)
      r2 == Edge("route", "leaf_edge", <<"atomic", "leaf">>, <<"classical", "intermediate">>)
      r3 == Digest("route", "intermediate", <<"classical", "intermediate">>)
      r4 == Edge("route", "intermediate_edge", <<"classical", "intermediate">>,
              <<"classical", "root">>)
      r5 == Digest("route", "root", <<"classical", "root">>)
      r6 == Validity("route", "intermediate_validity", <<"classical", "intermediate">>)
      r7 == Validity("route", "root_validity", <<"classical", "root">>)
      b == builder_steps
      c == classical_control_steps
      a == atomic_steps
      r == <<r1, r2, r3, r4, r5, r6, r7>>
<1>1. cross_signed_steps = b \o c \o a \o r
  BY DEF cross_signed_steps, classical_route_steps, cross_leaf, Classical
<1>2. /\ Sequence(b) /\ Takes(b, x1) /\ Takes(b, x2) /\ Takes(b, x3) /\ Takes(b, x4)
      /\ Sequel(b, y1, y4)
  BY BuilderOrder DEF BuilderOrdered
<1>3. Sequence(c)
  BY ControlTable, ListedIsSequence DEF Grouped
<1>4. Sequence(a) /\ Sequel(a, s, d1) /\ Sequel(a, s, d2) /\ Sequel(a, s, d3)
  BY AtomicOrder DEF PathOrdered
<1> HIDE DEF x1, x2, x3, x4, y1, y4, s, d1, d2, d3, r1, r2, r3, r4, r5, r6, r7, a, b, c
<1>5. Sequence(r) /\ Takes(r, r1) /\ Takes(r, r3) /\ Takes(r, r5)
  <2>1. /\ r \in Seq({r1, r2, r3, r4, r5, r6, r7}) /\ 1 \in DOMAIN r /\ 3 \in DOMAIN r
        /\ 5 \in DOMAIN r /\ r[1] = r1 /\ r[3] = r3 /\ r[5] = r5
    OBVIOUS
  <2> HIDE DEF r
  <2> QED
    BY <2>1 DEF Sequence, Takes
<1> HIDE DEF r
<1>6. Takes(b, y1) /\ Takes(b, y4) /\ Takes(a, s) /\ Takes(a, d1) /\ Takes(a, d2) /\ Takes(a, d3)
  BY <1>2, <1>4, SequelTakes
<1> DEFINE bc == b \o c
           ba == bc \o a
           T == ba \o r
<1>7. /\ Sequence(bc) /\ Takes(bc, x1) /\ Takes(bc, x2) /\ Takes(bc, x3) /\ Takes(bc, x4)
      /\ Takes(bc, y1) /\ Takes(bc, y4) /\ Sequel(bc, y1, y4)
  BY <1>2, <1>3, <1>6, SequenceConcat, TakesConcat, SequelConcat
<1> HIDE DEF bc
<1>8. Sequence(ba) /\ Takes(ba, x1) /\ Takes(ba, x2) /\ Takes(ba, y1) /\ Takes(ba, y4)
      /\ Takes(ba, d1)
  BY <1>4, <1>6, <1>7, SequenceConcat, TakesConcat
<1>9. /\ Sequel(ba, s, d1) /\ Sequel(ba, s, d2) /\ Sequel(ba, s, d3) /\ Sequel(ba, y1, y4)
  BY <1>4, <1>7, SequelConcat
<1>10. Sequel(ba, y1, s) /\ Sequel(ba, x3, d2) /\ Sequel(ba, x4, d3)
  BY <1>4, <1>6, <1>7, SequelConcat
<1> HIDE DEF ba
<1>11. /\ Sequel(T, s, d1) /\ Sequel(T, s, d2) /\ Sequel(T, s, d3) /\ Sequel(T, y1, y4)
       /\ Sequel(T, y1, s) /\ Sequel(T, x3, d2) /\ Sequel(T, x4, d3)
  BY <1>5, <1>8, <1>9, <1>10, SequelConcat
<1>12. /\ Sequel(T, d1, r1) /\ Sequel(T, y4, r1) /\ Sequel(T, y1, r1) /\ Sequel(T, x1, r3)
       /\ Sequel(T, x2, r5)
  BY <1>5, <1>8, SequelConcat
<1>13. cross_signed_steps = T
  BY <1>1 DEF T, ba, bc
<1> HIDE DEF T
<1>14. CrossOrdered(T)
  BY <1>11, <1>12 DEF CrossOrdered, PathOrdered, x1, x2, x3, x4, y1, y4, s, d1, d2, d3, r1, r3, r5
<1> QED
  BY <1>13, <1>14

-----------------------------------------------------------------------------
(* When the digests of a submission fit *)

\* The path and the anchor that the stack reports.
Reports(stack, a, b, z) ==
  stack.certification_path_der_sha256 = <<a, b>> /\ stack.trust_anchor = Anchor(z)

\* What ItemsAgree says, of items that are not yet part of a submission.
ItemsFit(e, pairs, n, m) ==
  \A i \in DOMAIN e : \A c \in {n, m} :
    e[i].certificate_id = c.id => Agrees(pairs, e[i], c)

\* An item about a certificate, with the certificate's digests.
Corroborates(pairs, item, c) == item.certificate_id = c.id /\ Agrees(pairs, item, c)

LEMMA PresentedReports ==
  ASSUME NEW verdict, NEW profile, NEW selected
  PROVE  Reports(Presented(verdict, profile, selected), selected[1], selected[2], selected[3])
BY DEF Reports, Presented

LEMMA BuiltReports ==
  ASSUME NEW g, NEW id
  PROVE  Reports(Built(g, id), g[<<id, "leaf">>], <<g[<<id, "route">>], "intermediate", "v1">>,
                 <<g[<<id, "route">>], "root", "v1">>)
<1> DEFINE a == g[<<id, "leaf">>]
           b == <<g[<<id, "route">>], "intermediate", "v1">>
           c == <<g[<<id, "route">>], "root", "v1">>
<1>1. Built(g, id) = [Presented("Accept", "X509Path", <<a, b, c>>)
                        EXCEPT !.selected_path_source = "AdapterSelected"]
  BY DEF Built
<1> HIDE DEF a, b, c
<1> DEFINE selected == <<a, b, c>>
           p == Presented("Accept", "X509Path", selected)
<1>2. selected[1] = a /\ selected[2] = b /\ selected[3] = c
  OBVIOUS
<1>3. LET q == [p EXCEPT !.selected_path_source = "AdapterSelected"] IN
      /\ q.certification_path_der_sha256 = p.certification_path_der_sha256
      /\ q.trust_anchor = p.trust_anchor
  BY DEF Presented
<1> HIDE DEF selected
<1>4. Reports(p, selected[1], selected[2], selected[3])
  BY PresentedReports
<1> HIDE DEF p
<1>5. Reports([p EXCEPT !.selected_path_source = "AdapterSelected"], a, b, c)
  BY <1>2, <1>3, <1>4 DEF Reports
<1> QED
  BY <1>1, <1>5 DEF p, selected, a, b, c

LEMMA FitsMeans ==
  ASSUME NEW stack, NEW anchor, NEW n, NEW m, NEW pairs, NEW e, NEW a, NEW b, NEW z,
         Reports(stack, a, b, z)
  PROVE  Fits(Submission(stack, anchor, <<n, m>>, pairs, e)) <=>
           /\ a = n.der_sha256 /\ b = m.der_sha256 /\ z = anchor
           /\ ItemsFit(e, pairs, n, m)
<1> DEFINE s == Submission(stack, anchor, <<n, m>>, pairs, e)
<1>1. /\ s.stack = stack /\ s.certificate_path = <<n, m>> /\ s.paired_authentications = pairs
      /\ s.evidence = e
  BY SubmissionFields
<1>2. s.expected_trust_anchor = Anchor(anchor)
  BY DEF Submission
<1>3. Anchor(anchor) = Anchor(z) <=> z = anchor
  <2>1. Anchor(anchor).der_sha256 = anchor /\ Anchor(z).der_sha256 = z
    BY DEF Anchor
  <2> QED
    BY <2>1
<1>4. <<a, b>> = <<n.der_sha256, m.der_sha256>> <=> a = n.der_sha256 /\ b = m.der_sha256
  OBVIOUS
<1>5. s.certificate_path[1] = n /\ s.certificate_path[2] = m
  BY <1>1, PairRange
<1>6. ItemsAgree(s, n, m) <=> ItemsFit(e, pairs, n, m)
  BY <1>1 DEF ItemsAgree, ItemsFit
<1> HIDE DEF s
<1>7. Fits(s) <=> /\ stack.certification_path_der_sha256 = <<n.der_sha256, m.der_sha256>>
                  /\ Anchor(anchor) = stack.trust_anchor /\ ItemsAgree(s, n, m)
  BY <1>1, <1>2, <1>5 DEF Fits
<1>8. Fits(s) <=> /\ a = n.der_sha256 /\ b = m.der_sha256 /\ z = anchor
                  /\ ItemsFit(e, pairs, n, m)
  BY <1>3, <1>4, <1>6, <1>7 DEF Reports
<1> QED
  BY <1>8 DEF s

LEMMA MatchingItem ==
  ASSUME NEW pairs, NEW c, NEW knd, NEW artifact, NEW operation, NEW checks, NEW method,
         \/ /\ artifact = c.der_sha256
            /\ c.binding_design # "RelatedCertificate" \/ knd # "PostQuantum"
         \/ /\ c.binding_design = "RelatedCertificate" /\ knd = "PostQuantum"
            /\ \A pair \in Range(pairs) :
                 pair.operation_id = operation
                   => pair.post_quantum_certificate_der_sha256 = artifact
  PROVE  Corroborates(pairs, Item(c, knd, artifact, operation, checks, method), c)
<1> DEFINE i == Item(c, knd, artifact, operation, checks, method)
<1>1. /\ i.certificate_id = c.id /\ i.kind = knd /\ i.certificate_der_sha256 = c.der_sha256
      /\ i.evidence_artifact_der_sha256 = artifact
      /\ i.issuer_edge_sha256 = c.issuer_edge_sha256 /\ i.authentication_operation_id = operation
  BY ItemFields
<1> HIDE DEF i
<1>2. Corroborates(pairs, i, c)
  BY <1>1 DEF Corroborates, Agrees
<1> QED
  BY <1>2 DEF i

\* Items that match their certificates.
LEMMA FourFit ==
  ASSUME NEW pairs, NEW n, NEW m, n.id # m.id, NEW e, NEW f,
         Corroborates(pairs, e[1], n), Corroborates(pairs, e[2], n),
         Corroborates(pairs, f[1], m), Corroborates(pairs, f[2], m)
  PROVE  ItemsFit(BothItems(e, f), pairs, n, m)
<1> DEFINE t == BothItems(e, f)
           a == e[1]  b == e[2]  c == f[1]  d == f[2]
<1>1. /\ Corroborates(pairs, a, n) /\ Corroborates(pairs, b, n)
      /\ Corroborates(pairs, c, m) /\ Corroborates(pairs, d, m)
  OBVIOUS
<1> HIDE DEF a, b, c, d
<1>2. DOMAIN t = 1 .. 4 /\ t[1] = a /\ t[2] = b /\ t[3] = c /\ t[4] = d
  BY DEF BothItems, a, b, c, d
<1> HIDE DEF t
<1>3. ItemsFit(t, pairs, n, m)
  BY <1>1, <1>2 DEF ItemsFit, Corroborates
<1> QED
  BY <1>3 DEF t

LEMMA TwoFit ==
  ASSUME NEW pairs, NEW n, NEW m, n.id # m.id, NEW a, NEW b,
         Corroborates(pairs, a, n), Corroborates(pairs, b, m)
  PROVE  ItemsFit(<<a, b>>, pairs, n, m)
<1> DEFINE t == <<a, b>>
<1>1. DOMAIN t = 1 .. 2 /\ t[1] = a /\ t[2] = b
  OBVIOUS
<1> HIDE DEF t
<1>2. ItemsFit(t, pairs, n, m)
  BY <1>1 DEF ItemsFit, Corroborates
<1> QED
  BY <1>2 DEF t

LEMMA LeafFit ==
  ASSUME NEW pairs, NEW n, NEW m, n.id # m.id, NEW a, NEW b,
         a.certificate_id = n.id, b.certificate_id = n.id
  PROVE  ItemsFit(<<a, b>>, pairs, n, m) <=> Agrees(pairs, a, n) /\ Agrees(pairs, b, n)
<1> DEFINE t == <<a, b>>
<1>1. DOMAIN t = 1 .. 2 /\ t[1] = a /\ t[2] = b
  OBVIOUS
<1> HIDE DEF t
<1>2. ItemsFit(t, pairs, n, m) <=> Agrees(pairs, a, n) /\ Agrees(pairs, b, n)
  BY <1>1 DEF ItemsFit
<1> QED
  BY <1>2 DEF t

LEMMA ThreeFit ==
  ASSUME NEW pairs, NEW n, NEW m, n.id # m.id, NEW a, NEW b, NEW c,
         a.certificate_id = n.id, b.certificate_id = n.id, Corroborates(pairs, c, m)
  PROVE  ItemsFit(<<a, b, c>>, pairs, n, m) <=> Agrees(pairs, a, n) /\ Agrees(pairs, b, n)
<1> DEFINE t == <<a, b, c>>
<1>1. DOMAIN t = 1 .. 3 /\ t[1] = a /\ t[2] = b /\ t[3] = c
  OBVIOUS
<1> HIDE DEF t
<1>2. ItemsFit(t, pairs, n, m) <=> Agrees(pairs, a, n) /\ Agrees(pairs, b, n)
  BY <1>1 DEF ItemsFit, Corroborates
<1> QED
  BY <1>2 DEF t

\* The path that the stack was given is the one whose files were hashed.
PathFits(g, leaf, intermediate) ==
  LET s == g[<<"path", "selected">>] IN
  /\ s[1] = g[<<leaf, "digest">>] /\ s[2] = g[<<intermediate, "digest">>]
  /\ s[3] = g[<<"anchor", "digest">>]

HierarchyFits(g) == PathFits(g, "EndEntity", "Intermediate")

\* The evidence carries the digests of the leaf.
EvidenceFits(g) ==
  /\ g[<<"evidence", "digest">>] = g[<<"node", "digest">>]
  /\ g[<<"evidence", "edge">>] = g[<<"node", "edge">>]

LEMMA HierarchyFields ==
  ASSUME NEW g, NEW key, NEW signature, NEW design, NEW n, NEW m,
         n = NodeOf(g, "EndEntity", key, signature, design),
         m = NodeOf(g, "Intermediate", key, signature, design)
  PROVE  /\ n.id = <<"leaf">> /\ m.id = <<"intermediate">> /\ n.id # m.id
         /\ n.binding_design = design /\ m.binding_design = design
         /\ n.der_sha256 = g[<<"EndEntity", "digest">>]
         /\ m.der_sha256 = g[<<"Intermediate", "digest">>]
<1>1. /\ n.id = <<"leaf">> /\ n.binding_design = design
      /\ n.der_sha256 = g[<<"EndEntity", "digest">>]
  BY NodeOfFields
<1>2. /\ m.id = <<"intermediate">> /\ m.binding_design = design
      /\ m.der_sha256 = g[<<"Intermediate", "digest">>]
  BY NodeOfFields
<1> QED
  BY <1>1, <1>2

LEMMA HierarchyFitting ==
  ASSUME NEW g, NEW verdict, NEW profile, NEW key, NEW signature, NEW design, NEW pairs,
         NEW n, NEW m, NEW e,
         n = NodeOf(g, "EndEntity", key, signature, design),
         m = NodeOf(g, "Intermediate", key, signature, design),
         ItemsFit(e, pairs, n, m)
  PROVE  Fits(Submission(Presented(verdict, profile, g[<<"path", "selected">>]),
                         g[<<"anchor", "digest">>], <<n, m>>, pairs, e)) <=> HierarchyFits(g)
<1> DEFINE s == g[<<"path", "selected">>]
           anchor == g[<<"anchor", "digest">>]
           stack == Presented(verdict, profile, s)
<1>1. /\ n.der_sha256 = g[<<"EndEntity", "digest">>]
      /\ m.der_sha256 = g[<<"Intermediate", "digest">>]
  BY NodeOfFields
<1>2. HierarchyFits(g) <=> s[1] = n.der_sha256 /\ s[2] = m.der_sha256 /\ s[3] = anchor
  BY <1>1 DEF HierarchyFits, PathFits
<1>3. Reports(stack, s[1], s[2], s[3])
  BY PresentedReports
<1> DEFINE a == s[1]  b == s[2]  z == s[3]
<1>4. Reports(stack, a, b, z)
  BY <1>3
<1> HIDE DEF s, anchor, stack, a, b, z
<1>5. Fits(Submission(stack, anchor, <<n, m>>, pairs, e)) <=>
        a = n.der_sha256 /\ b = m.der_sha256 /\ z = anchor /\ ItemsFit(e, pairs, n, m)
  BY <1>4, FitsMeans
<1>6. Fits(Submission(stack, anchor, <<n, m>>, pairs, e)) <=> HierarchyFits(g)
  BY <1>2, <1>5 DEF a, b, z
<1> QED
  BY <1>6 DEF s, anchor, stack

LEMMA AtomicItemsFit ==
  ASSUME NEW g
  PROVE  ItemsFit(BothItems(AtomicItems(g, "EndEntity"), AtomicItems(g, "Intermediate")), <<>>,
                  AtomicNode(g, "EndEntity"), AtomicNode(g, "Intermediate"))
<1> DEFINE n == AtomicNode(g, "EndEntity")
           m == AtomicNode(g, "Intermediate")
           e == AtomicItems(g, "EndEntity")
           f == AtomicItems(g, "Intermediate")
<1>1. /\ n = NodeOf(g, "EndEntity", "Classical", "Hybrid", "AtomicComposite")
      /\ m = NodeOf(g, "Intermediate", "Classical", "Hybrid", "AtomicComposite")
  BY DEF AtomicNode
<1>2. e = atomic_position_evidence(g, n) /\ f = atomic_position_evidence(g, m)
  BY DEF AtomicItems
<1> HIDE DEF n, m, e, f
<1>3. /\ n.id # m.id /\ n.binding_design # "RelatedCertificate"
      /\ m.binding_design # "RelatedCertificate"
  BY <1>1, HierarchyFields
<1>4. ASSUME NEW c, c.binding_design # "RelatedCertificate"
      PROVE  /\ Corroborates(<<>>, atomic_position_evidence(g, c)[1], c)
             /\ Corroborates(<<>>, atomic_position_evidence(g, c)[2], c)
  BY <1>4, MatchingItem DEF atomic_position_evidence
<1>5. /\ Corroborates(<<>>, e[1], n) /\ Corroborates(<<>>, e[2], n)
      /\ Corroborates(<<>>, f[1], m) /\ Corroborates(<<>>, f[2], m)
  BY <1>2, <1>3, <1>4
<1>6. ItemsFit(BothItems(e, f), <<>>, n, m)
  BY <1>3, <1>5, FourFit
<1> QED
  BY <1>6 DEF n, m, e, f

LEMMA AtomicFitting ==
  ASSUME NEW g
  PROVE  Fits(atomic_submission(g)) <=> HierarchyFits(g)
<1> DEFINE n == AtomicNode(g, "EndEntity")
           m == AtomicNode(g, "Intermediate")
           e == BothItems(AtomicItems(g, "EndEntity"), AtomicItems(g, "Intermediate"))
<1>1. /\ n = NodeOf(g, "EndEntity", "Classical", "Hybrid", "AtomicComposite")
      /\ m = NodeOf(g, "Intermediate", "Classical", "Hybrid", "AtomicComposite")
  BY DEF AtomicNode
<1>2. ItemsFit(e, <<>>, n, m)
  BY AtomicItemsFit
<1>3. atomic_submission(g)
        = Submission(Presented(g[<<"path", "valid_path">>], "X509Path", g[<<"path", "selected">>]),
                     g[<<"anchor", "digest">>], <<n, m>>, <<>>, e)
  BY AtomicForm
<1> HIDE DEF n, m, e
<1> QED
  BY <1>1, <1>2, <1>3, HierarchyFitting

LEMMA CatalystItemsFit ==
  ASSUME NEW g
  PROVE  ItemsFit(BothItems(CatalystItems(g, "EndEntity"), CatalystItems(g, "Intermediate")), <<>>,
                  CatalystNode(g, "EndEntity"), CatalystNode(g, "Intermediate"))
<1> DEFINE n == CatalystNode(g, "EndEntity")
           m == CatalystNode(g, "Intermediate")
           e == CatalystItems(g, "EndEntity")
           f == CatalystItems(g, "Intermediate")
<1>1. /\ n = NodeOf(g, "EndEntity", "Classical", "Classical", "Catalyst")
      /\ m = NodeOf(g, "Intermediate", "Classical", "Classical", "Catalyst")
  BY DEF CatalystNode
<1>2. e = catalyst_position_evidence(g, n) /\ f = catalyst_position_evidence(g, m)
  BY DEF CatalystItems
<1> HIDE DEF n, m, e, f
<1>3. /\ n.id # m.id /\ n.binding_design # "RelatedCertificate"
      /\ m.binding_design # "RelatedCertificate"
  BY <1>1, HierarchyFields
<1>4. ASSUME NEW c, c.binding_design # "RelatedCertificate"
      PROVE  /\ Corroborates(<<>>, catalyst_position_evidence(g, c)[1], c)
             /\ Corroborates(<<>>, catalyst_position_evidence(g, c)[2], c)
  BY <1>4, MatchingItem DEF catalyst_position_evidence
<1>5. /\ Corroborates(<<>>, e[1], n) /\ Corroborates(<<>>, e[2], n)
      /\ Corroborates(<<>>, f[1], m) /\ Corroborates(<<>>, f[2], m)
  BY <1>2, <1>3, <1>4
<1>6. ItemsFit(BothItems(e, f), <<>>, n, m)
  BY <1>3, <1>5, FourFit
<1> QED
  BY <1>6 DEF n, m, e, f

LEMMA CatalystFitting ==
  ASSUME NEW g
  PROVE  Fits(catalyst_submission(g)) <=> HierarchyFits(g)
<1> DEFINE n == CatalystNode(g, "EndEntity")
           m == CatalystNode(g, "Intermediate")
           e == BothItems(CatalystItems(g, "EndEntity"), CatalystItems(g, "Intermediate"))
<1>1. /\ n = NodeOf(g, "EndEntity", "Classical", "Classical", "Catalyst")
      /\ m = NodeOf(g, "Intermediate", "Classical", "Classical", "Catalyst")
  BY DEF CatalystNode
<1>2. ItemsFit(e, <<>>, n, m)
  BY CatalystItemsFit
<1>3. catalyst_submission(g)
        = Submission(Presented(g[<<"path", "valid_path">>], "X509Path", g[<<"path", "selected">>]),
                     g[<<"anchor", "digest">>], <<n, m>>, <<>>, e)
  BY CatalystForm
<1> HIDE DEF n, m, e
<1> QED
  BY <1>1, <1>2, <1>3, HierarchyFitting

LEMMA ChameleonItemsFit ==
  ASSUME NEW g
  PROVE  ItemsFit(BothItems(ChameleonItems(g, "EndEntity"), ChameleonItems(g, "Intermediate")),
                  <<>>, ChameleonNode(g, "EndEntity"), ChameleonNode(g, "Intermediate"))
<1> DEFINE n == ChameleonNode(g, "EndEntity")
           m == ChameleonNode(g, "Intermediate")
           e == ChameleonItems(g, "EndEntity")
           f == ChameleonItems(g, "Intermediate")
<1>1. /\ n = NodeOf(g, "EndEntity", "Classical", "Classical", "Chameleon")
      /\ m = NodeOf(g, "Intermediate", "Classical", "Classical", "Chameleon")
  BY DEF ChameleonNode
<1>2. e = chameleon_position_evidence(g, n) /\ f = chameleon_position_evidence(g, m)
  BY DEF ChameleonItems
<1> HIDE DEF n, m, e, f
<1>3. /\ n.id # m.id /\ n.binding_design # "RelatedCertificate"
      /\ m.binding_design # "RelatedCertificate"
  BY <1>1, HierarchyFields
<1>4. ASSUME NEW c, c.binding_design # "RelatedCertificate"
      PROVE  /\ Corroborates(<<>>, chameleon_position_evidence(g, c)[1], c)
             /\ Corroborates(<<>>, chameleon_position_evidence(g, c)[2], c)
  BY <1>4, MatchingItem DEF chameleon_position_evidence
<1>5. /\ Corroborates(<<>>, e[1], n) /\ Corroborates(<<>>, e[2], n)
      /\ Corroborates(<<>>, f[1], m) /\ Corroborates(<<>>, f[2], m)
  BY <1>2, <1>3, <1>4
<1>6. ItemsFit(BothItems(e, f), <<>>, n, m)
  BY <1>3, <1>5, FourFit
<1> QED
  BY <1>6 DEF n, m, e, f

LEMMA ChameleonFitting ==
  ASSUME NEW g
  PROVE  Fits(chameleon_submission(g)) <=> HierarchyFits(g)
<1> DEFINE n == ChameleonNode(g, "EndEntity")
           m == ChameleonNode(g, "Intermediate")
           e == BothItems(ChameleonItems(g, "EndEntity"), ChameleonItems(g, "Intermediate"))
<1>1. /\ n = NodeOf(g, "EndEntity", "Classical", "Classical", "Chameleon")
      /\ m = NodeOf(g, "Intermediate", "Classical", "Classical", "Chameleon")
  BY DEF ChameleonNode
<1>2. ItemsFit(e, <<>>, n, m)
  BY ChameleonItemsFit
<1>3. chameleon_submission(g)
        = Submission(Presented(g[<<"path", "base_path">>], "X509Path", g[<<"path", "selected">>]),
                     g[<<"anchor", "digest">>], <<n, m>>, <<>>, e)
  BY ChameleonForm
<1> HIDE DEF n, m, e
<1> QED
  BY <1>1, <1>2, <1>3, HierarchyFitting

LEMMA PureFitting ==
  ASSUME NEW g
  PROVE  Fits(pure_submission(g)) <=> HierarchyFits(g)
<1> DEFINE n == PureNode(g, "EndEntity")
           m == PureNode(g, "Intermediate")
           a == PureItems(g, "EndEntity")[1]
           b == PureItems(g, "Intermediate")[1]
<1>1. /\ n = NodeOf(g, "EndEntity", "PostQuantum", "PostQuantum", "None")
      /\ m = NodeOf(g, "Intermediate", "PostQuantum", "PostQuantum", "None")
  BY DEF PureNode
<1>2. a = pure_position_evidence(g, n)[1] /\ b = pure_position_evidence(g, m)[1]
  BY DEF PureItems
<1>3. pure_submission(g)
        = Submission(Presented(g[<<"path", "valid_path">>], "X509Path", g[<<"path", "selected">>]),
                     g[<<"anchor", "digest">>], <<n, m>>, <<>>, <<a, b>>)
  BY PureForm
<1> HIDE DEF n, m, a, b
<1>4. /\ n.id # m.id /\ n.binding_design # "RelatedCertificate"
      /\ m.binding_design # "RelatedCertificate"
  BY <1>1, HierarchyFields
<1>5. ASSUME NEW c, c.binding_design # "RelatedCertificate"
      PROVE  Corroborates(<<>>, pure_position_evidence(g, c)[1], c)
  BY <1>5, MatchingItem DEF pure_position_evidence
<1>6. Corroborates(<<>>, a, n) /\ Corroborates(<<>>, b, m)
  BY <1>2, <1>4, <1>5
<1> DEFINE e == <<a, b>>
<1>7. ItemsFit(e, <<>>, n, m)
  BY <1>4, <1>6, TwoFit
<1> HIDE DEF e
<1>8. Fits(Submission(Presented(g[<<"path", "valid_path">>], "X509Path", g[<<"path", "selected">>]),
                      g[<<"anchor", "digest">>], <<n, m>>, <<>>, e)) <=> HierarchyFits(g)
  BY <1>1, <1>7, HierarchyFitting
<1> QED
  BY <1>3, <1>8 DEF e

LEMMA RelatedFitting ==
  ASSUME NEW g
  PROVE  Fits(related_submission(g)) <=> HierarchyFits(g)
<1> DEFINE n == RelatedNode(g, "EndEntity")
           m == RelatedNode(g, "Intermediate")
           e == RelatedItems(g, "EndEntity")
           f == RelatedItems(g, "Intermediate")
           u == RelatedPair(g, "EndEntity")
           w == RelatedPair(g, "Intermediate")
           operation == <<"leaf", "related-authentication">>
           other == <<"intermediate", "related-authentication">>
<1>1. /\ n = NodeOf(g, "EndEntity", "Classical", "Classical", "RelatedCertificate")
      /\ m = NodeOf(g, "Intermediate", "Classical", "Classical", "RelatedCertificate")
  BY DEF RelatedNode
<1>2. e = related_position_evidence(g, n) /\ f = related_position_evidence(g, m)
  BY DEF RelatedItems
<1>3. related_submission(g)
        = Submission(Presented(g[<<"path", "classical_path">>], "X509Path",
                               g[<<"path", "selected">>]),
                     g[<<"anchor", "digest">>], <<n, m>>, <<u, w>>, BothItems(e, f))
  BY RelatedForm
<1>4. /\ u = UnpairedUse(n, related_operation(n), g[<<n.position, "post_quantum_digest">>])
      /\ w = UnpairedUse(m, related_operation(m), g[<<m.position, "post_quantum_digest">>])
  BY DEF RelatedPair
<1> HIDE DEF n, m, e, f, u, w
<1>5. /\ n.id = <<"leaf">> /\ m.id = <<"intermediate">> /\ n.id # m.id
      /\ n.binding_design = "RelatedCertificate" /\ m.binding_design = "RelatedCertificate"
  BY <1>1, HierarchyFields
<1>6. related_operation(n) = operation /\ related_operation(m) = other
  BY <1>5, JoinedPairs DEF related_operation
<1>7. operation # other
  BY RequestsAreNamed
<1>8. /\ u.operation_id = related_operation(n) /\ w.operation_id = related_operation(m)
      /\ u.post_quantum_certificate_der_sha256 = g[<<n.position, "post_quantum_digest">>]
      /\ w.post_quantum_certificate_der_sha256 = g[<<m.position, "post_quantum_digest">>]
  BY <1>4 DEF UnpairedUse
<1> HIDE DEF operation, other
<1> DEFINE pairs == <<u, w>>
<1>9. Range(pairs) = {u, w}
  BY PairRange
<1> HIDE DEF pairs
<1>10. ASSUME NEW c \in {n, m}
       PROVE  /\ Corroborates(pairs, related_position_evidence(g, c)[1], c)
              /\ Corroborates(pairs, related_position_evidence(g, c)[2], c)
  <2> DEFINE digest == g[<<c.position, "post_quantum_digest">>]
  <2>1. \A pair \in Range(pairs) : pair.operation_id = related_operation(c)
                                    => pair.post_quantum_certificate_der_sha256 = digest
    BY <1>6, <1>7, <1>8, <1>9
  <2>2. c.binding_design = "RelatedCertificate"
    BY <1>5
  <2>3. ASSUME NEW checks, NEW method
        PROVE  /\ Corroborates(pairs, Item(c, "PostQuantum", digest, related_operation(c),
                                           checks, method), c)
               /\ Corroborates(pairs, Item(c, "Classical", c.der_sha256, related_operation(c),
                                           checks, method), c)
    <3> HIDE DEF digest
    <3> QED
      BY <2>1, <2>2, MatchingItem
  <2> QED
    BY <2>3 DEF related_position_evidence
<1>11. /\ Corroborates(pairs, e[1], n) /\ Corroborates(pairs, e[2], n)
       /\ Corroborates(pairs, f[1], m) /\ Corroborates(pairs, f[2], m)
  BY <1>2, <1>10
<1> DEFINE items == BothItems(e, f)
<1>12. ItemsFit(items, pairs, n, m)
  BY <1>5, <1>11, FourFit
<1> HIDE DEF items
<1>13. Fits(Submission(Presented(g[<<"path", "classical_path">>], "X509Path",
                                 g[<<"path", "selected">>]),
                       g[<<"anchor", "digest">>], <<n, m>>, pairs, items)) <=> HierarchyFits(g)
  BY <1>1, <1>12, HierarchyFitting
<1> QED
  BY <1>3, <1>13 DEF items, pairs

\* The digests that a node is made with.
Identical(g, n) ==
  n.der_sha256 = g[<<"node", "digest">>] /\ n.issuer_edge_sha256 = g[<<"node", "edge">>]

\* Every pair names one partner.
Partnered(pairs, artifact) ==
  \A pair \in Range(pairs) : pair.post_quantum_certificate_der_sha256 = artifact

LEMMA LeafItemAgrees ==
  ASSUME NEW g, NEW pairs, NEW n, Identical(g, n), NEW knd, NEW operation, NEW checks,
         NEW method, n.binding_design # "RelatedCertificate" \/ knd # "PostQuantum"
  PROVE  LET i == LeafItem(g, n, knd, g[<<"evidence", "digest">>], operation, checks, method) IN
         i.certificate_id = n.id /\ (Agrees(pairs, i, n) <=> EvidenceFits(g))
<1> DEFINE i == LeafItem(g, n, knd, g[<<"evidence", "digest">>], operation, checks, method)
<1>1. /\ i.certificate_id = n.id /\ i.kind = knd
      /\ i.certificate_der_sha256 = g[<<"evidence", "digest">>]
      /\ i.evidence_artifact_der_sha256 = g[<<"evidence", "digest">>]
      /\ i.issuer_edge_sha256 = g[<<"evidence", "edge">>]
  BY LeafItemFields
<1> HIDE DEF i
<1>2. Agrees(pairs, i, n) <=> EvidenceFits(g)
  BY <1>1 DEF Agrees, EvidenceFits, Identical
<1> QED
  BY <1>1, <1>2 DEF i

LEMMA PairItemAgrees ==
  ASSUME NEW g, NEW pairs, NEW n, Identical(g, n), NEW artifact, NEW operation, NEW checks,
         NEW method, n.binding_design = "RelatedCertificate",
         Partnered(pairs, artifact)
  PROVE  LET i == LeafItem(g, n, "PostQuantum", artifact, operation, checks, method) IN
         i.certificate_id = n.id /\ (Agrees(pairs, i, n) <=> EvidenceFits(g))
<1> DEFINE i == LeafItem(g, n, "PostQuantum", artifact, operation, checks, method)
<1>1. /\ i.certificate_id = n.id /\ i.kind = "PostQuantum"
      /\ i.certificate_der_sha256 = g[<<"evidence", "digest">>]
      /\ i.evidence_artifact_der_sha256 = artifact
      /\ i.issuer_edge_sha256 = g[<<"evidence", "edge">>]
  BY LeafItemFields
<1> HIDE DEF i
<1>2. Agrees(pairs, i, n) <=> EvidenceFits(g)
  BY <1>1 DEF Agrees, EvidenceFits, Identical, Partnered
<1> QED
  BY <1>1, <1>2 DEF i

LEMMA CredentialFitting ==
  ASSUME NEW g, NEW verdict, NEW profile, NEW pairs, NEW signature, NEW design, NEW n, NEW m,
         n = CredentialNode(g, signature, design), m = CredentialIssuer(g), NEW e,
         e = <<e[1], e[2]>>, e[1].certificate_id = n.id, e[2].certificate_id = n.id,
         Agrees(pairs, e[1], n) <=> EvidenceFits(g), Agrees(pairs, e[2], n) <=> EvidenceFits(g)
  PROVE  Fits(Submission(Presented(verdict, profile, g[<<"path", "selected">>]),
                         g[<<"anchor", "digest">>], <<n, m>>, pairs, e))
           <=> PathFits(g, "node", "issuer") /\ EvidenceFits(g)
<1> DEFINE s == g[<<"path", "selected">>]
           anchor == g[<<"anchor", "digest">>]
           stack == Presented(verdict, profile, s)
<1>1. n.id = <<"end-entity">> /\ n.der_sha256 = g[<<"node", "digest">>]
  BY CredentialNodeFields
<1>2. m.id = <<"issuer">> /\ m.der_sha256 = g[<<"issuer", "digest">>]
  BY NodeFields DEF CredentialIssuer
<1>3. n.id # m.id
  BY <1>1, <1>2
<1>4. ItemsFit(e, pairs, n, m) <=> EvidenceFits(g)
  <2> DEFINE a == e[1]  b == e[2]
  <2>1. /\ e = <<a, b>> /\ a.certificate_id = n.id /\ b.certificate_id = n.id
        /\ Agrees(pairs, a, n) <=> EvidenceFits(g)
        /\ Agrees(pairs, b, n) <=> EvidenceFits(g)
    OBVIOUS
  <2> HIDE DEF a, b
  <2>2. ItemsFit(<<a, b>>, pairs, n, m) <=> Agrees(pairs, a, n) /\ Agrees(pairs, b, n)
    BY <1>3, <2>1, LeafFit
  <2> QED
    BY <2>1, <2>2
<1>5. PathFits(g, "node", "issuer") <=>
        s[1] = n.der_sha256 /\ s[2] = m.der_sha256 /\ s[3] = anchor
  BY <1>1, <1>2 DEF PathFits
<1> DEFINE a == s[1]  b == s[2]  z == s[3]
<1>6. Reports(stack, a, b, z)
  BY PresentedReports
<1> HIDE DEF s, anchor, stack, a, b, z
<1>7. ASSUME NEW nn, NEW mm, NEW ee
      PROVE  Fits(Submission(stack, anchor, <<nn, mm>>, pairs, ee)) <=>
               a = nn.der_sha256 /\ b = mm.der_sha256 /\ z = anchor /\ ItemsFit(ee, pairs, nn, mm)
  BY <1>6, FitsMeans
<1>8. Fits(Submission(stack, anchor, <<n, m>>, pairs, e)) <=>
        a = n.der_sha256 /\ b = m.der_sha256 /\ z = anchor /\ ItemsFit(e, pairs, n, m)
  BY <1>7, Zenon
<1>9. Fits(Submission(stack, anchor, <<n, m>>, pairs, e)) <=>
        PathFits(g, "node", "issuer") /\ EvidenceFits(g)
  BY <1>4, <1>5, <1>8 DEF a, b, z
<1> QED
  BY <1>9 DEF s, anchor, stack

LEMMA AtomicTlsFitting ==
  ASSUME NEW g
  PROVE  Fits(atomic_tls_submission(g)) <=> PathFits(g, "node", "issuer") /\ EvidenceFits(g)
<1> DEFINE n == CredentialNode(g, "Hybrid", "AtomicComposite")
           m == CredentialIssuer(g)
           e == <<AtomicTlsItem(g, "Classical", "invalid_classical"),
                  AtomicTlsItem(g, "PostQuantum", "invalid_post_quantum")>>
<1>1. atomic_tls_submission(g)
        = Submission(Presented(g[<<"tls", "valid">>], "WebPkiServer", g[<<"path", "selected">>]),
                     g[<<"anchor", "digest">>], <<n, m>>, <<>>, e)
  BY AtomicTlsForm
<1>2. ASSUME NEW knd, NEW checks, NEW method
      PROVE  LET i == LeafItem(g, n, knd, g[<<"evidence", "digest">>], None, checks, method) IN
             i.certificate_id = n.id /\ (Agrees(<<>>, i, n) <=> EvidenceFits(g))
  <2>1. Identical(g, n) /\ n.binding_design # "RelatedCertificate"
    BY CredentialNodeFields DEF Identical
  <2> HIDE DEF n
  <2> QED
    BY <2>1, LeafItemAgrees
<1>3. /\ e = <<e[1], e[2]>> /\ e[1].certificate_id = n.id /\ e[2].certificate_id = n.id
      /\ Agrees(<<>>, e[1], n) <=> EvidenceFits(g)
      /\ Agrees(<<>>, e[2], n) <=> EvidenceFits(g)
  <2> HIDE DEF n
  <2> QED
    BY <1>2 DEF AtomicTlsItem, AtomicTlsChecks, n
<1> HIDE DEF n, m, e
<1> QED
  BY <1>1, <1>3, CredentialFitting DEF n, m

LEMMA CatalystTlsFitting ==
  ASSUME NEW g
  PROVE  Fits(catalyst_tls_submission(g)) <=> PathFits(g, "node", "issuer") /\ EvidenceFits(g)
<1> DEFINE n == CredentialNode(g, "Classical", "Catalyst")
           m == CredentialIssuer(g)
           e == CatalystTlsItems(g)
<1>1. catalyst_tls_submission(g)
        = Submission(Presented(g[<<"tls", "valid">>], "WebPkiServer", g[<<"path", "selected">>]),
                     g[<<"anchor", "digest">>], <<n, m>>, <<>>, e)
  BY CatalystTlsForm
<1>2. ASSUME NEW knd, NEW checks, NEW method
      PROVE  LET i == LeafItem(g, n, knd, g[<<"evidence", "digest">>], None, checks, method) IN
             i.certificate_id = n.id /\ (Agrees(<<>>, i, n) <=> EvidenceFits(g))
  <2>1. Identical(g, n) /\ n.binding_design # "RelatedCertificate"
    BY CredentialNodeFields DEF Identical
  <2> HIDE DEF n
  <2> QED
    BY <2>1, LeafItemAgrees
<1>3. /\ e = <<e[1], e[2]>> /\ e[1].certificate_id = n.id /\ e[2].certificate_id = n.id
      /\ Agrees(<<>>, e[1], n) <=> EvidenceFits(g)
      /\ Agrees(<<>>, e[2], n) <=> EvidenceFits(g)
  <2> HIDE DEF n
  <2> QED
    BY <1>2 DEF CatalystTlsItems, n
<1> HIDE DEF n, m, e
<1> QED
  BY <1>1, <1>3, CredentialFitting DEF n, m

LEMMA ChameleonTlsFitting ==
  ASSUME NEW g
  PROVE  Fits(chameleon_tls_submission(g)) <=> PathFits(g, "node", "issuer") /\ EvidenceFits(g)
<1> DEFINE n == CredentialNode(g, "Classical", "Chameleon")
           m == CredentialIssuer(g)
           e == ChameleonTlsItems(g)
<1>1. chameleon_tls_submission(g)
        = Submission(Presented(g[<<"tls", "valid_base">>], "WebPkiServer",
                               g[<<"path", "selected">>]),
                     g[<<"anchor", "digest">>], <<n, m>>, <<>>, e)
  BY ChameleonTlsForm
<1>2. ASSUME NEW knd, NEW checks, NEW method
      PROVE  LET i == LeafItem(g, n, knd, g[<<"evidence", "digest">>], None, checks, method) IN
             i.certificate_id = n.id /\ (Agrees(<<>>, i, n) <=> EvidenceFits(g))
  <2>1. Identical(g, n) /\ n.binding_design # "RelatedCertificate"
    BY CredentialNodeFields DEF Identical
  <2> HIDE DEF n
  <2> QED
    BY <2>1, LeafItemAgrees
<1>3. /\ e = <<e[1], e[2]>> /\ e[1].certificate_id = n.id /\ e[2].certificate_id = n.id
      /\ Agrees(<<>>, e[1], n) <=> EvidenceFits(g)
      /\ Agrees(<<>>, e[2], n) <=> EvidenceFits(g)
  <2> HIDE DEF n
  <2> QED
    BY <1>2 DEF ChameleonTlsItems, n
<1> HIDE DEF n, m, e
<1> QED
  BY <1>1, <1>3, CredentialFitting DEF n, m

LEMMA OpenSslFitting ==
  ASSUME NEW g
  PROVE  Fits(related_openssl_submission(g)) <=> PathFits(g, "node", "issuer") /\ EvidenceFits(g)
<1> DEFINE n == CredentialNode(g, "Classical", "RelatedCertificate")
           m == CredentialIssuer(g)
           e == related_openssl_evidence(g, n)
           pairs == unpaired(g, n)
<1>1. related_openssl_submission(g)
        = Submission(Presented(g[<<"leaf", "classical">>], "X509Path", g[<<"path", "selected">>]),
                     g[<<"anchor", "digest">>], <<n, m>>, pairs, e)
  BY OpenSslForm DEF OpenSslNode
<1>2. Partnered(pairs, g[<<"pair", "digest">>])
  <2> HIDE DEF n
  <2> QED
    BY DEF unpaired, UnpairedUse, Range, Partnered
<1> HIDE DEF pairs
<1>3. ASSUME NEW checks, NEW method
      PROVE  /\ LET i == LeafItem(g, n, "Classical", g[<<"evidence", "digest">>], PairOperation,
                                  checks, method)
                IN  i.certificate_id = n.id /\ (Agrees(pairs, i, n) <=> EvidenceFits(g))
             /\ LET i == LeafItem(g, n, "PostQuantum", g[<<"pair", "digest">>], PairOperation,
                                  checks, method)
                IN  i.certificate_id = n.id /\ (Agrees(pairs, i, n) <=> EvidenceFits(g))
  <2>1. Identical(g, n) /\ n.binding_design = "RelatedCertificate"
    BY CredentialNodeFields DEF Identical
  <2> HIDE DEF n
  <2>2. LET i == LeafItem(g, n, "Classical", g[<<"evidence", "digest">>], PairOperation,
                          checks, method)
        IN  i.certificate_id = n.id /\ (Agrees(pairs, i, n) <=> EvidenceFits(g))
    BY <2>1, LeafItemAgrees
  <2> DEFINE artifact == g[<<"pair", "digest">>]
  <2>3. Partnered(pairs, artifact)
    BY <1>2
  <2> HIDE DEF artifact
  <2>4. LET i == LeafItem(g, n, "PostQuantum", artifact, PairOperation, checks, method)
        IN  i.certificate_id = n.id /\ (Agrees(pairs, i, n) <=> EvidenceFits(g))
    BY <2>1, <2>3, PairItemAgrees
  <2> QED
    BY <2>2, <2>4 DEF artifact
<1>4. /\ e = <<e[1], e[2]>> /\ e[1].certificate_id = n.id /\ e[2].certificate_id = n.id
      /\ Agrees(pairs, e[1], n) <=> EvidenceFits(g)
      /\ Agrees(pairs, e[2], n) <=> EvidenceFits(g)
  <2> HIDE DEF n
  <2> QED
    BY <1>3 DEF related_openssl_evidence
<1> HIDE DEF n, m, e
<1> QED
  BY <1>1, <1>4, CredentialFitting DEF n, m

LEMMA RelatedTlsFitting ==
  ASSUME NEW g
  PROVE  Fits(related_tls_submission(g)) <=> PathFits(g, "node", "issuer") /\ EvidenceFits(g)
<1> DEFINE n == CredentialNode(g, "Classical", "RelatedCertificate")
           m == CredentialIssuer(g)
           e == related_tls_evidence(g, n)
           pairs == unpaired(g, n)
<1>1. related_tls_submission(g)
        = Submission(Presented(g[<<"tls", "classical">>], "WebPkiServer",
                               g[<<"path", "selected">>]),
                     g[<<"anchor", "digest">>], <<n, m>>, pairs, e)
  BY RelatedTlsForm
<1>2. Partnered(pairs, g[<<"pair", "digest">>])
  <2> HIDE DEF n
  <2> QED
    BY DEF unpaired, UnpairedUse, Range, Partnered
<1> HIDE DEF pairs
<1>3. ASSUME NEW checks, NEW method
      PROVE  /\ LET i == LeafItem(g, n, "Classical", g[<<"evidence", "digest">>], PairOperation,
                                  checks, method)
                IN  i.certificate_id = n.id /\ (Agrees(pairs, i, n) <=> EvidenceFits(g))
             /\ LET i == LeafItem(g, n, "PostQuantum", g[<<"pair", "digest">>], PairOperation,
                                  checks, method)
                IN  i.certificate_id = n.id /\ (Agrees(pairs, i, n) <=> EvidenceFits(g))
  <2>1. Identical(g, n) /\ n.binding_design = "RelatedCertificate"
    BY CredentialNodeFields DEF Identical
  <2> HIDE DEF n
  <2>2. LET i == LeafItem(g, n, "Classical", g[<<"evidence", "digest">>], PairOperation,
                          checks, method)
        IN  i.certificate_id = n.id /\ (Agrees(pairs, i, n) <=> EvidenceFits(g))
    BY <2>1, LeafItemAgrees
  <2> DEFINE artifact == g[<<"pair", "digest">>]
  <2>3. Partnered(pairs, artifact)
    BY <1>2
  <2> HIDE DEF artifact
  <2>4. LET i == LeafItem(g, n, "PostQuantum", artifact, PairOperation, checks, method)
        IN  i.certificate_id = n.id /\ (Agrees(pairs, i, n) <=> EvidenceFits(g))
    BY <2>1, <2>3, PairItemAgrees
  <2> QED
    BY <2>2, <2>4 DEF artifact
<1>4. /\ e = <<e[1], e[2]>> /\ e[1].certificate_id = n.id /\ e[2].certificate_id = n.id
      /\ Agrees(pairs, e[1], n) <=> EvidenceFits(g)
      /\ Agrees(pairs, e[2], n) <=> EvidenceFits(g)
  <2> HIDE DEF n
  <2> QED
    BY <1>3 DEF related_tls_evidence
<1> HIDE DEF n, m, e
<1> QED
  BY <1>1, <1>4, CredentialFitting DEF n, m

LEMMA BouncyCastleFitting ==
  ASSUME NEW g
  PROVE  Fits(catalyst_bouncy_castle_submission(g)) <=> PathFits(g, "node", "issuer")
<1> DEFINE n == CredentialNode(g, "Classical", "Catalyst")
           m == BouncyCastleIssuer(g)
           e == BouncyCastleLeafItems(g)
           f == BouncyCastleIssuerItems(g)
           s == g[<<"path", "selected">>]
           stack == Presented(g[<<"leaf", "valid_default">>], "X509Path", s)
           anchor == g[<<"anchor", "digest">>]
<1>1. /\ n.id = <<"end-entity">> /\ n.binding_design = "Catalyst"
      /\ n.der_sha256 = g[<<"node", "digest">>]
  BY CredentialNodeFields
<1>2. /\ m.id = <<"intermediate">> /\ m.binding_design = "Catalyst"
      /\ m.der_sha256 = g[<<"issuer", "digest">>]
  BY NodeFields DEF BouncyCastleIssuer
<1>3. Corroborates(<<>>, e[1], n) /\ Corroborates(<<>>, e[2], n)
  <2> HIDE DEF n
  <2> QED
    BY <1>1, MatchingItem DEF BouncyCastleLeafItems, n
<1>4. Corroborates(<<>>, f[1], m) /\ Corroborates(<<>>, f[2], m)
  <2> HIDE DEF m
  <2> QED
    BY <1>2, MatchingItem DEF BouncyCastleIssuerItems, m
<1>5. catalyst_bouncy_castle_submission(g)
        = Submission(stack, anchor, <<n, m>>, <<>>, BothItems(e, f))
  BY BouncyCastleForm
<1>6. PathFits(g, "node", "issuer") <=>
        s[1] = n.der_sha256 /\ s[2] = m.der_sha256 /\ s[3] = anchor
  BY <1>1, <1>2 DEF PathFits
<1> DEFINE a == s[1]  b == s[2]  z == s[3]
<1>7. Reports(stack, a, b, z)
  BY PresentedReports
<1> HIDE DEF n, m, e, f, s, stack, anchor, a, b, z
<1> DEFINE items == BothItems(e, f)
<1>8. n.id # m.id /\ ItemsFit(items, <<>>, n, m)
  BY <1>1, <1>2, <1>3, <1>4, FourFit
<1> HIDE DEF items
<1>9. Fits(Submission(stack, anchor, <<n, m>>, <<>>, items)) <=>
        a = n.der_sha256 /\ b = m.der_sha256 /\ z = anchor /\ ItemsFit(items, <<>>, n, m)
  BY <1>7, FitsMeans
<1>10. Fits(Submission(stack, anchor, <<n, m>>, <<>>, items)) <=> PathFits(g, "node", "issuer")
  BY <1>6, <1>8, <1>9 DEF a, b, z
<1> QED
  BY <1>5, <1>10 DEF items

\* What is built for the atomic route fits when the route is that of the files hashed.
AtomicRouteFits(g) ==
  LET route == g[<<"selected", "route">>] IN
  /\ g[<<"selected", "leaf">>] = g[<<"EndEntity", "digest">>]
  /\ <<route, "intermediate", "v1">> = g[<<"Intermediate", "digest">>]
  /\ <<route, "root", "v1">> = g[<<"anchor", "digest">>]

ClassicalRouteFits(g) ==
  LET route == g[<<"classical_fallback", "route">>] IN
  /\ g[<<"classical_fallback", "leaf">>] = g[<<"route", "leaf">>]
  /\ <<route, "intermediate", "v1">> = g[<<"route", "intermediate">>]
  /\ <<route, "root", "v1">> = g[<<"route", "root">>]
  /\ g[<<"EndEntity", "digest">>] = g[<<"route", "leaf">>]

LEMMA AtomicRouteFitting ==
  ASSUME NEW g
  PROVE  Fits(evaluate_atomic_route(g)) <=> AtomicRouteFits(g)
<1> DEFINE n == AtomicNode(g, "EndEntity")
           m == AtomicNode(g, "Intermediate")
           e == BothItems(AtomicItems(g, "EndEntity"), AtomicItems(g, "Intermediate"))
           a == g[<<"selected", "leaf">>]
           b == <<g[<<"selected", "route">>], "intermediate", "v1">>
           z == <<g[<<"selected", "route">>], "root", "v1">>
           stack == Built(g, "selected")
           anchor == g[<<"anchor", "digest">>]
<1>1. evaluate_atomic_route(g) = Submission(stack, anchor, <<n, m>>, <<>>, e)
  BY AtomicForm DEF evaluate_atomic_route
<1>2. /\ n = NodeOf(g, "EndEntity", "Classical", "Hybrid", "AtomicComposite")
      /\ m = NodeOf(g, "Intermediate", "Classical", "Hybrid", "AtomicComposite")
  BY DEF AtomicNode
<1>3. ItemsFit(e, <<>>, n, m)
  BY AtomicItemsFit
<1>4. Reports(stack, a, b, z)
  BY BuiltReports
<1>5. AtomicRouteFits(g) <=>
        a = g[<<"EndEntity", "digest">>] /\ b = g[<<"Intermediate", "digest">>] /\ z = anchor
  BY DEF AtomicRouteFits
<1> HIDE DEF n, m, e, a, b, z, stack, anchor
<1>6. /\ n.der_sha256 = g[<<"EndEntity", "digest">>]
      /\ m.der_sha256 = g[<<"Intermediate", "digest">>]
  BY <1>2, HierarchyFields
<1>7. Fits(Submission(stack, anchor, <<n, m>>, <<>>, e)) <=>
        a = n.der_sha256 /\ b = m.der_sha256 /\ z = anchor /\ ItemsFit(e, <<>>, n, m)
  BY <1>4, FitsMeans
<1> QED
  BY <1>1, <1>3, <1>5, <1>6, <1>7

LEMMA ClassicalRouteFitting ==
  ASSUME NEW g
  PROVE  Fits(evaluate_classical_route(g)) <=> ClassicalRouteFits(g)
<1> DEFINE n == RouteLeaf(g)
           m == RouteIntermediate(g)
           i == RouteItem(g, AtomicItems(g, "EndEntity")[1])
           q == RouteItem(g, AtomicItems(g, "EndEntity")[2])
           j == RouteIntermediateItem(g)
           a == g[<<"classical_fallback", "leaf">>]
           b == <<g[<<"classical_fallback", "route">>], "intermediate", "v1">>
           z == <<g[<<"classical_fallback", "route">>], "root", "v1">>
           stack == Built(g, "classical_fallback")
           anchor == g[<<"route", "root">>]
           hashed == g[<<"EndEntity", "digest">>]
<1>1. evaluate_classical_route(g) = Submission(stack, anchor, <<n, m>>, <<>>, <<i, q, j>>)
  BY ClassicalRouteForm
<1>2. /\ n.id = <<"leaf">> /\ m.id = <<"intermediate">> /\ n.id # m.id
      /\ n.binding_design = "AtomicComposite" /\ m.binding_design = "None"
      /\ n.der_sha256 = g[<<"route", "leaf">>] /\ m.der_sha256 = g[<<"route", "intermediate">>]
  BY NodeFields DEF RouteLeaf, RouteIntermediate
<1>3. Reports(stack, a, b, z)
  BY BuiltReports
<1>4. ClassicalRouteFits(g) <=>
        /\ a = n.der_sha256 /\ b = m.der_sha256 /\ z = anchor /\ hashed = n.der_sha256
  BY <1>2 DEF ClassicalRouteFits
<1>5. Corroborates(<<>>, j, m)
  <2> HIDE DEF m
  <2> QED
    BY <1>2, MatchingItem DEF RouteIntermediateItem, m
<1>6. /\ i.certificate_id = n.id /\ (Agrees(<<>>, i, n) <=> hashed = n.der_sha256)
      /\ q.certificate_id = n.id /\ (Agrees(<<>>, q, n) <=> hashed = n.der_sha256)
  <2> DEFINE c == AtomicNode(g, "EndEntity")
  <2>1. c.id = <<"leaf">> /\ c.der_sha256 = hashed
    BY HierarchyFields DEF AtomicNode
  <2>2. AtomicItems(g, "EndEntity") = atomic_position_evidence(g, c)
    BY DEF AtomicItems
  <2> HIDE DEF c
  <2>3. ASSUME NEW knd, NEW checks, NEW method
        PROVE  LET r == RouteItem(g, Item(c, knd, c.der_sha256, None, checks, method)) IN
               r.certificate_id = n.id /\ (Agrees(<<>>, r, n) <=> hashed = n.der_sha256)
    <3> DEFINE r == RouteItem(g, Item(c, knd, c.der_sha256, None, checks, method))
    <3>1. /\ r.certificate_id = c.id /\ r.certificate_der_sha256 = n.der_sha256
          /\ r.issuer_edge_sha256 = n.issuer_edge_sha256
          /\ r.evidence_artifact_der_sha256 = c.der_sha256
      BY DEF RouteItem, Item
    <3> HIDE DEF r, n, hashed
    <3>2. r.certificate_id = n.id /\ (Agrees(<<>>, r, n) <=> hashed = n.der_sha256)
      BY <1>2, <2>1, <3>1 DEF Agrees
    <3> QED
      BY <3>2 DEF r
  <2> HIDE DEF n, hashed
  <2>4. LET t == atomic_position_evidence(g, c) IN
        /\ RouteItem(g, t[1]).certificate_id = n.id
        /\ Agrees(<<>>, RouteItem(g, t[1]), n) <=> hashed = n.der_sha256
        /\ RouteItem(g, t[2]).certificate_id = n.id
        /\ Agrees(<<>>, RouteItem(g, t[2]), n) <=> hashed = n.der_sha256
    BY <2>3 DEF atomic_position_evidence
  <2> QED
    BY <2>2, <2>4
<1> HIDE DEF n, m, i, q, j, a, b, z, stack, anchor, hashed
<1> DEFINE e == <<i, q, j>>
<1>7. ItemsFit(e, <<>>, n, m) <=> hashed = n.der_sha256
  BY <1>2, <1>5, <1>6, ThreeFit
<1> HIDE DEF e
<1>8. Fits(Submission(stack, anchor, <<n, m>>, <<>>, e)) <=>
        a = n.der_sha256 /\ b = m.der_sha256 /\ z = anchor /\ ItemsFit(e, <<>>, n, m)
  BY <1>3, FitsMeans
<1>9. Fits(Submission(stack, anchor, <<n, m>>, <<>>, e)) <=> ClassicalRouteFits(g)
  BY <1>4, <1>7, <1>8
<1> QED
  BY <1>1, <1>9 DEF e

-----------------------------------------------------------------------------
(* Refused exactly when the path moved *)

\* The oracle refuses exactly the submissions that do not fit.
LEMMA RefusedUnlessFit ==
  ASSUME AnalysisInv, RoutesCompared, answers # <<>>
  PROVE  LET subs == submissions(kind, results) IN
         refusals = {} <=> \A i \in DOMAIN subs : Fits(subs[i])
<1> DEFINE subs == submissions(kind, results)
<1>1. /\ DOMAIN answers = DOMAIN subs
      /\ \A i \in DOMAIN answers : \A scope \in scopes(kind) :
           answers[i][scope] = evaluate(RequestAt(i, scope))
  BY AnswerAt
<1>2. kind = "cross_signed" => routes_error(results) = "ok"
  BY ComparedAtTheEnd DEF AnalysisInv, AnswersEvaluated
<1>3. \A i \in DOMAIN subs : \A scope :
        validate_request(RequestAt(i, scope)) = "ok" <=> Fits(subs[i])
  BY <1>2, AllReady DEF Ready, Admissible, RequestAt
<1>4. ASSUME NEW r PROVE evaluate(r).error = "ok" <=> validate_request(r) = "ok"
  BY DEF evaluate, decide, Response
<1>5. PICK scope : scope \in scopes(kind)
  <2>1. "EndEntity" \in scopes(kind)
    BY DEF scopes, PathScope
  <2> QED
    BY <2>1
<1> HIDE DEF subs
<1>6. \A i \in DOMAIN subs : \A t \in scopes(kind) : answers[i][t].error = "ok" <=> Fits(subs[i])
  BY <1>1, <1>3, <1>4
<1>7. refusals = {} <=> \A i \in DOMAIN subs : Fits(subs[i])
  <2>1. refusals = {} <=>
          \A i \in DOMAIN answers : \A t \in scopes(kind) : answers[i][t].error = "ok"
    <3>1. ASSUME NEW i \in DOMAIN answers, NEW t \in scopes(kind), answers[i][t].error # "ok"
          PROVE  refusals # {}
      <4>1. answers[i][t].error \in refusals
        BY <3>1 DEF refusals
      <4> QED
        BY <4>1
    <3>2. ASSUME NEW error \in refusals
          PROVE  \E i \in DOMAIN answers : \E t \in scopes(kind) : answers[i][t].error # "ok"
      BY DEF refusals
    <3> QED
      BY <3>1, <3>2
  <2> QED
    BY <1>1, <1>5, <1>6, <2>1
<1> QED
  BY <1>7 DEF subs

LEMMA StepNames ==
  ASSUME NEW id, NEW what, NEW f, NEW h, NEW r
  PROVE  /\ Digest(id, what, f).name = <<id, what>>
         /\ Edge(id, what, f, h).name = <<id, what>>
         /\ Select(f, h, r).name = <<"path", "selected">>
BY DEF Digest, Edge, Select, Step

\* Digests of a file agree when both steps saw the same version.
LEMMA SameVersion ==
  ASSUME NEW x, NEW y, NEW f, NEW a, NEW b
  PROVE  <<x, y, Version(f, a)>> = <<x, y, Version(f, b)>> <=> (Seen(f, a) <=> Seen(f, b))
<1>1. Version(f, a) = Version(f, b) <=> (Seen(f, a) <=> Seen(f, b))
  BY DEF Version
<1> QED
  BY <1>1

LEMMA SameVersions ==
  ASSUME NEW x, NEW y, NEW f, NEW u, NEW w, NEW h, NEW a, NEW b
  PROVE  <<x, y, Version(f, a), u, w, Version(h, a)>> = <<x, y, Version(f, b), u, w, Version(h, b)>>
           <=> (Seen(f, a) <=> Seen(f, b)) /\ (Seen(h, a) <=> Seen(h, b))
<1>1. /\ Version(f, a) = Version(f, b) <=> (Seen(f, a) <=> Seen(f, b))
      /\ Version(h, a) = Version(h, b) <=> (Seen(h, a) <=> Seen(h, b))
  BY DEF Version
<1> QED
  BY <1>1

\* A file keeps its version from one step to the next exactly when it did not move.
LEMMA SameUnlessMoved ==
  ASSUME Completed, NEW a, NEW b, Sequel(Table[kind], a, b), NEW f, NEW x, NEW y,
         a.name = x, b.name = y
  PROVE  (Seen(f, x) <=> Seen(f, y)) <=> ~Moved(f, x, y)
BY MovedBetween

Stays(f, g, h, leaf, intermediate) ==
  /\ ~Moved(f, <<"path", "selected">>, leaf)
  /\ ~Moved(g, <<"path", "selected">>, intermediate)
  /\ ~Moved(h, <<"path", "selected">>, <<"anchor", "digest">>)

\* The digests of the path fit those of the request when no file moved between.
LEMMA PathStays ==
  ASSUME Completed, NEW leaf, NEW intermediate,
         NEW x, NEW y, NEW u, NEW w, NEW p, NEW q, NEW f, NEW h, NEW r,
         f = <<x, y>>, h = <<u, w>>, r = <<p, q>>,
         Sequel(Table[kind], Select(f, h, r), Digest(leaf, "digest", f)),
         Sequel(Table[kind], Select(f, h, r), Digest(intermediate, "digest", h)),
         Sequel(Table[kind], Select(f, h, r), Digest("anchor", "digest", r))
  PROVE  PathFits(results, leaf, intermediate) <=>
           Stays(f, h, r, <<leaf, "digest">>, <<intermediate, "digest">>)
<1> DEFINE s == results[<<"path", "selected">>]
           selected == <<"path", "selected">>
           l == <<leaf, "digest">>
           i == <<intermediate, "digest">>
           z == <<"anchor", "digest">>
<1>1. /\ Takes(Table[kind], Select(f, h, r)) /\ Takes(Table[kind], Digest(leaf, "digest", f))
      /\ Takes(Table[kind], Digest(intermediate, "digest", h))
      /\ Takes(Table[kind], Digest("anchor", "digest", r))
  BY SequelTakes
<1>2. /\ s[1] = <<x, y, Version(f, selected)>> /\ s[2] = <<u, w, Version(h, selected)>>
      /\ s[3] = <<p, q, Version(r, selected)>>
  BY <1>1, SelectionResult
<1>3. /\ results[l] = <<x, y, Version(f, l)>> /\ results[i] = <<u, w, Version(h, i)>>
      /\ results[z] = <<p, q, Version(r, z)>>
  BY <1>1, DigestResult
<1>4. /\ Select(f, h, r).name = selected /\ Digest(leaf, "digest", f).name = l
      /\ Digest(intermediate, "digest", h).name = i /\ Digest("anchor", "digest", r).name = z
  BY StepNames
<1> HIDE DEF s, selected, l, i, z
<1>5. s[1] = results[l] <=> ~Moved(f, selected, l)
  BY <1>2, <1>3, <1>4, SameVersion, SameUnlessMoved
<1>6. s[2] = results[i] <=> ~Moved(h, selected, i)
  BY <1>2, <1>3, <1>4, SameVersion, SameUnlessMoved
<1>7. s[3] = results[z] <=> ~Moved(r, selected, z)
  BY <1>2, <1>3, <1>4, SameVersion, SameUnlessMoved
<1> QED
  BY <1>5, <1>6, <1>7 DEF PathFits, Stays, s, selected, l, i, z

LEMMA HierarchyStays ==
  ASSUME Completed, NEW role, PathOrdered(Table[kind], role)
  PROVE  HierarchyFits(results) <=>
           Stays(<<role, "leaf">>, <<role, "intermediate">>, <<role, "root">>,
                 <<"EndEntity", "digest">>, <<"Intermediate", "digest">>)
<1> DEFINE f == <<role, "leaf">>
           h == <<role, "intermediate">>
           r == <<role, "root">>
<1>1. /\ Sequel(Table[kind], Select(f, h, r), Digest("EndEntity", "digest", f))
      /\ Sequel(Table[kind], Select(f, h, r), Digest("Intermediate", "digest", h))
      /\ Sequel(Table[kind], Select(f, h, r), Digest("anchor", "digest", r))
  BY DEF PathOrdered, SelectRole
<1>2. f = <<role, "leaf">> /\ h = <<role, "intermediate">> /\ r = <<role, "root">>
  OBVIOUS
<1> HIDE DEF f, h, r
<1>3. PathFits(results, "EndEntity", "Intermediate") <=>
        Stays(f, h, r, <<"EndEntity", "digest">>, <<"Intermediate", "digest">>)
  BY <1>1, <1>2, PathStays
<1> QED
  BY <1>3 DEF HierarchyFits, f, h, r

LEMMA ThreeMoved ==
  ASSUME NEW f, NEW h, NEW r, NEW s, NEW l, NEW i, NEW z,
         Window = {<<f, s, l>>, <<h, s, i>>, <<r, s, z>>}
  PROVE  PathMoved <=> Moved(f, s, l) \/ Moved(h, s, i) \/ Moved(r, s, z)
<1> DEFINE a == <<f, s, l>>
           b == <<h, s, i>>
           c == <<r, s, z>>
<1>1. /\ a[1] = f /\ a[2] = s /\ a[3] = l /\ b[1] = h /\ b[2] = s /\ b[3] = i
      /\ c[1] = r /\ c[2] = s /\ c[3] = z
  OBVIOUS
<1>2. Window = {a, b, c}
  OBVIOUS
<1> HIDE DEF a, b, c
<1> QED
  BY <1>1, <1>2 DEF PathMoved

LEMMA StaysUnlessMoved ==
  ASSUME NEW f, NEW h, NEW r, NEW l, NEW i,
         Window = {<<f, <<"path", "selected">>, l>>, <<h, <<"path", "selected">>, i>>,
                   <<r, <<"path", "selected">>, <<"anchor", "digest">>>>}
  PROVE  Stays(f, h, r, l, i) <=> ~PathMoved
<1> DEFINE s == <<"path", "selected">>
           z == <<"anchor", "digest">>
<1>1. Window = {<<f, s, l>>, <<h, s, i>>, <<r, s, z>>}
  OBVIOUS
<1>2. Stays(f, h, r, l, i) <=> ~Moved(f, s, l) /\ ~Moved(h, s, i) /\ ~Moved(r, s, z)
  BY DEF Stays
<1> HIDE DEF s, z
<1> QED
  BY <1>1, <1>2, ThreeMoved

\* The digests of a credential, its issuer and its evidence fit when no file
\* moved between the stack's run and the request's digests.
LEMMA CredentialStays ==
  ASSUME Completed, CredentialOrdered(Table[kind])
  PROVE  PathFits(results, "node", "issuer") /\ EvidenceFits(results) <=>
           Stays(CredentialLeaf, Issuer, TrustStore, <<"node", "edge">>, <<"issuer", "digest">>)
<1> DEFINE f == CredentialLeaf
           h == Issuer
           r == TrustStore
           selected == Select(f, h, r)
           digest == Digest("evidence", "digest", f)
           edge == Edge("evidence", "edge", f, h)
           leaf == Digest("node", "digest", f)
           leaf_edge == Edge("node", "edge", f, h)
           issuer == Digest("issuer", "digest", h)
           anchor == Digest("anchor", "digest", r)
           s == <<"path", "selected">>
           d == <<"evidence", "digest">>
           e == <<"evidence", "edge">>
           l == <<"node", "digest">>
           k == <<"node", "edge">>
           i == <<"issuer", "digest">>
           z == <<"anchor", "digest">>
           T == Table[kind]
<1>1. /\ Sequel(T, selected, digest) /\ Sequel(T, selected, edge)
      /\ Sequel(T, selected, leaf_edge) /\ Sequel(T, selected, issuer)
      /\ Sequel(T, selected, anchor) /\ Sequel(T, digest, leaf) /\ Sequel(T, edge, leaf)
      /\ Sequel(T, leaf, leaf_edge) /\ Sequel(T, leaf_edge, issuer)
  BY DEF CredentialOrdered, SelectLeaf
<1>2. /\ f = <<"certificate", "leaf">> /\ h = <<"certificate", "issuer">>
      /\ r = <<"certificate", "trust_store">>
  BY DEF CredentialLeaf, Issuer, TrustStore
<1>3. /\ selected.name = s /\ digest.name = d /\ edge.name = e /\ leaf.name = l
      /\ leaf_edge.name = k /\ issuer.name = i /\ anchor.name = z
  BY StepNames
<1>4. /\ Takes(T, selected) /\ Takes(T, digest) /\ Takes(T, edge) /\ Takes(T, leaf)
      /\ Takes(T, leaf_edge) /\ Takes(T, issuer) /\ Takes(T, anchor)
  BY <1>1, SequelTakes
<1>5. LET p == results[s] IN
      /\ p[1] = <<"certificate", "leaf", Version(f, s)>>
      /\ p[2] = <<"certificate", "issuer", Version(h, s)>>
      /\ p[3] = <<"certificate", "trust_store", Version(r, s)>>
  <2> HIDE DEF f, h, r
  <2> QED
    BY <1>2, <1>4, SelectionResult
<1>6. /\ results[d] = <<"certificate", "leaf", Version(f, d)>>
      /\ results[l] = <<"certificate", "leaf", Version(f, l)>>
      /\ results[i] = <<"certificate", "issuer", Version(h, i)>>
      /\ results[z] = <<"certificate", "trust_store", Version(r, z)>>
  <2> HIDE DEF f, h, r
  <2> QED
    BY <1>2, <1>4, DigestResult
<1>7. /\ results[e] = <<"certificate", "leaf", Version(f, e), "certificate", "issuer",
                        Version(h, e)>>
      /\ results[k] = <<"certificate", "leaf", Version(f, k), "certificate", "issuer",
                        Version(h, k)>>
  <2> HIDE DEF f, h, r
  <2> QED
    BY <1>2, <1>4, EdgeResult
<1>8. /\ PathFits(results, "node", "issuer") <=>
           results[s][1] = results[l] /\ results[s][2] = results[i] /\ results[s][3] = results[z]
      /\ EvidenceFits(results) <=> results[d] = results[l] /\ results[e] = results[k]
      /\ Stays(f, h, r, k, i) <=> ~Moved(f, s, k) /\ ~Moved(h, s, i) /\ ~Moved(r, s, z)
  BY DEF PathFits, EvidenceFits, Stays
<1> HIDE DEF f, h, r, selected, digest, edge, leaf, leaf_edge, issuer, anchor,
             s, d, e, l, k, i, z, T
<1>9. /\ results[s][1] = results[l] <=> (Seen(f, s) <=> Seen(f, l))
      /\ results[s][2] = results[i] <=> (Seen(h, s) <=> Seen(h, i))
      /\ results[s][3] = results[z] <=> (Seen(r, s) <=> Seen(r, z))
      /\ results[d] = results[l] <=> (Seen(f, d) <=> Seen(f, l))
  BY <1>5, <1>6, SameVersion
<1>10. results[e] = results[k] <=> (Seen(f, e) <=> Seen(f, k)) /\ (Seen(h, e) <=> Seen(h, k))
  BY <1>7, SameVersions
<1>11. /\ Moved(f, s, k) <=> ~Seen(f, s) /\ Seen(f, k)
       /\ Moved(h, s, i) <=> ~Seen(h, s) /\ Seen(h, i)
       /\ Moved(r, s, z) <=> ~Seen(r, s) /\ Seen(r, z)
       /\ Seen(r, s) => Seen(r, z)
  BY <1>1, <1>3, MovedBetween DEF T
<1>12. /\ Seen(f, s) => Seen(f, d)
       /\ Seen(f, s) => Seen(f, e)
       /\ Seen(f, d) => Seen(f, l)
       /\ Seen(f, e) => Seen(f, l)
       /\ Seen(f, l) => Seen(f, k)
  BY <1>1, <1>3, MovedBetween DEF T
<1>13. /\ Seen(h, s) => Seen(h, e)
       /\ Seen(h, e) => Seen(h, l)
       /\ Seen(h, l) => Seen(h, k)
       /\ Seen(h, k) => Seen(h, i)
  BY <1>1, <1>3, MovedBetween DEF T
<1>14. PathFits(results, "node", "issuer") /\ EvidenceFits(results) <=> Stays(f, h, r, k, i)
  BY <1>8, <1>9, <1>10, <1>11, <1>12, <1>13
<1> QED
  BY <1>14 DEF f, h, r, k, i

LEMMA BouncyCastleStays ==
  ASSUME Completed, BouncyCastleOrdered(Table[kind])
  PROVE  PathFits(results, "node", "issuer") <=>
           Stays(CredentialLeaf, Issuer, TrustStore, <<"node", "digest">>, <<"issuer", "digest">>)
<1> DEFINE f == CredentialLeaf
           h == Issuer
           r == TrustStore
<1>1. /\ Sequel(Table[kind], Select(f, h, r), Digest("node", "digest", f))
      /\ Sequel(Table[kind], Select(f, h, r), Digest("issuer", "digest", h))
      /\ Sequel(Table[kind], Select(f, h, r), Digest("anchor", "digest", r))
  BY DEF BouncyCastleOrdered, SelectLeaf
<1>2. /\ f = <<"certificate", "leaf">> /\ h = <<"certificate", "issuer">>
      /\ r = <<"certificate", "trust_store">>
  BY DEF CredentialLeaf, Issuer, TrustStore
<1> HIDE DEF f, h, r
<1>3. PathFits(results, "node", "issuer") <=>
        Stays(f, h, r, <<"node", "digest">>, <<"issuer", "digest">>)
  BY <1>1, <1>2, PathStays
<1> QED
  BY <1>3 DEF f, h, r

\* The routes of the builder's runs, once they were compared.
LEMMA ComparedRoutes ==
  ASSUME NEW g, routes_error(g) = "ok"
  PROVE  /\ g[<<"hash", "classical_ica">>] = <<"classical", "intermediate", "v1">>
         /\ g[<<"hash", "classical_root">>] = <<"classical", "root", "v1">>
         /\ g[<<"hash", "atomic_ica">>] = <<"atomic", "intermediate", "v1">>
         /\ g[<<"hash", "atomic_root">>] = <<"atomic", "root", "v1">>
         /\ g[<<"classical_fallback", "route">>] = "classical"
         /\ g[<<"selected", "route">>] \in {"atomic", "classical"}
<1>1. /\ selected_path(g, "selected") # "InvalidSelectedPath"
      /\ selected_path(g, "classical_fallback") = "classical"
      /\ selected_path(g, "forced_atomic") = "atomic"
  BY DEF routes_error
<1>2. ASSUME NEW id, selected_path(g, id) # "InvalidSelectedPath"
      PROVE  \/ /\ g[<<id, "route">>] = "classical" /\ selected_path(g, id) = "classical"
                /\ g[<<"hash", "classical_ica">>] = <<"classical", "intermediate", "v1">>
                /\ g[<<"hash", "classical_root">>] = <<"classical", "root", "v1">>
             \/ /\ g[<<id, "route">>] = "atomic" /\ selected_path(g, id) = "atomic"
                /\ g[<<"hash", "atomic_ica">>] = <<"atomic", "intermediate", "v1">>
                /\ g[<<"hash", "atomic_root">>] = <<"atomic", "root", "v1">>
  BY <1>2 DEF selected_path
<1>3. /\ g[<<"hash", "classical_ica">>] = <<"classical", "intermediate", "v1">>
      /\ g[<<"hash", "classical_root">>] = <<"classical", "root", "v1">>
      /\ g[<<"classical_fallback", "route">>] = "classical"
  BY <1>1, <1>2
<1>4. /\ g[<<"hash", "atomic_ica">>] = <<"atomic", "intermediate", "v1">>
      /\ g[<<"hash", "atomic_root">>] = <<"atomic", "root", "v1">>
  BY <1>1, <1>2
<1>5. g[<<"selected", "route">>] \in {"atomic", "classical"}
  BY <1>1, <1>2
<1> QED
  BY <1>3, <1>4, <1>5

CrossStays ==
  /\ ~Moved(<<"atomic", "leaf">>, <<"selected", "leaf">>, <<"route", "leaf">>)
  /\ ~Moved(<<"atomic", "intermediate">>, <<"hash", "atomic_ica">>, <<"Intermediate", "digest">>)
  /\ ~Moved(<<"atomic", "root">>, <<"hash", "atomic_root">>, <<"anchor", "digest">>)
  /\ ~Moved(<<"classical", "intermediate">>, <<"hash", "classical_ica">>,
            <<"route", "intermediate">>)
  /\ ~Moved(<<"classical", "root">>, <<"hash", "classical_root">>, <<"route", "root">>)

CrossFits(g) == HierarchyFits(g) /\ AtomicRouteFits(g) /\ ClassicalRouteFits(g)

\* A digest of the first version, and a later one.
LEMMA StillFirst ==
  ASSUME Completed, NEW id, NEW what, NEW other, NEW w, NEW x, NEW y, NEW f, f = <<x, y>>,
         Sequel(Table[kind], Digest(id, what, f), Digest(other, w, f)),
         results[<<id, what>>] = <<x, y, "v1">>
  PROVE  /\ <<x, y, "v1">> = results[<<other, w>>] <=> ~Moved(f, <<id, what>>, <<other, w>>)
         /\ <<x, y, "v1">> = results[<<other, w>>] <=> ~Seen(f, <<other, w>>)
<1> DEFINE a == <<id, what>>
           b == <<other, w>>
<1>1. Takes(Table[kind], Digest(id, what, f)) /\ Takes(Table[kind], Digest(other, w, f))
  BY SequelTakes
<1>2. results[a] = <<x, y, Version(f, a)>> /\ results[b] = <<x, y, Version(f, b)>>
  BY <1>1, DigestResult
<1>3. Digest(id, what, f).name = a /\ Digest(other, w, f).name = b
  BY StepNames
<1> HIDE DEF a, b
<1>4. Moved(f, a, b) <=> ~Seen(f, a) /\ Seen(f, b)
  BY <1>3, MovedBetween
<1>5. Version(f, a) = "v1"
  BY <1>2 DEF a
<1>6. ~Seen(f, a)
  BY <1>5 DEF Version
<1>7. <<x, y, "v1">> = <<x, y, Version(f, b)>> <=> ~Seen(f, b)
  <2>1. Version(f, b) = "v1" <=> ~Seen(f, b)
    BY DEF Version
  <2> QED
    BY <2>1
<1> QED
  BY <1>2, <1>4, <1>6, <1>7 DEF a, b

LEMMA CrossSignedStays ==
  ASSUME Completed, CrossOrdered(Table[kind]), routes_error(results) = "ok"
  PROVE  CrossFits(results) <=> CrossStays /\ results[<<"selected", "route">>] = "atomic"
<1> DEFINE T == Table[kind]
           f == <<"atomic", "leaf">>
           h == <<"atomic", "intermediate">>
           r == <<"atomic", "root">>
           i == <<"classical", "intermediate">>
           o == <<"classical", "root">>
           selected == Digest("selected", "leaf", f)
           fallback == Digest("classical_fallback", "leaf", f)
           select == Select(f, h, r)
           leaf == Digest("EndEntity", "digest", f)
           route_leaf == Digest("route", "leaf", f)
           n1 == <<"selected", "leaf">>
           n2 == <<"classical_fallback", "leaf">>
           n3 == <<"path", "selected">>
           n4 == <<"EndEntity", "digest">>
           n5 == <<"route", "leaf">>
           m == <<"Intermediate", "digest">>
           z == <<"anchor", "digest">>
<1>1. /\ Sequel(T, select, leaf) /\ Sequel(T, select, Digest("Intermediate", "digest", h))
      /\ Sequel(T, select, Digest("anchor", "digest", r))
      /\ Sequel(T, selected, select) /\ Sequel(T, leaf, route_leaf)
      /\ Sequel(T, selected, fallback) /\ Sequel(T, fallback, route_leaf)
      /\ Sequel(T, selected, route_leaf)
  BY DEF CrossOrdered, PathOrdered, SelectRole
<1>2. /\ Sequel(T, Digest("hash", "atomic_ica", h), Digest("Intermediate", "digest", h))
      /\ Sequel(T, Digest("hash", "atomic_root", r), Digest("anchor", "digest", r))
      /\ Sequel(T, Digest("hash", "classical_ica", i), Digest("route", "intermediate", i))
      /\ Sequel(T, Digest("hash", "classical_root", o), Digest("route", "root", o))
  BY DEF CrossOrdered
<1>3. /\ results[<<"hash", "classical_ica">>] = <<"classical", "intermediate", "v1">>
      /\ results[<<"hash", "classical_root">>] = <<"classical", "root", "v1">>
      /\ results[<<"hash", "atomic_ica">>] = <<"atomic", "intermediate", "v1">>
      /\ results[<<"hash", "atomic_root">>] = <<"atomic", "root", "v1">>
      /\ results[<<"classical_fallback", "route">>] = "classical"
      /\ results[<<"selected", "route">>] \in {"atomic", "classical"}
  BY ComparedRoutes
<1>4. /\ selected.name = n1 /\ fallback.name = n2 /\ select.name = n3 /\ leaf.name = n4
      /\ route_leaf.name = n5 /\ Digest("Intermediate", "digest", h).name = m
      /\ Digest("anchor", "digest", r).name = z
  <2>1. /\ selected.name = n1 /\ fallback.name = n2 /\ leaf.name = n4 /\ route_leaf.name = n5
        /\ Digest("Intermediate", "digest", h).name = m /\ Digest("anchor", "digest", r).name = z
    <3> HIDE DEF f, h, r
    <3> QED
      BY StepNames
  <2>2. select.name = n3
    <3> HIDE DEF f, h, r
    <3> QED
      BY StepNames
  <2> QED
    BY <2>1, <2>2
<1>5. /\ f = <<"atomic", "leaf">> /\ h = <<"atomic", "intermediate">> /\ r = <<"atomic", "root">>
      /\ i = <<"classical", "intermediate">> /\ o = <<"classical", "root">>
  OBVIOUS
<1>6. /\ results[n1] = <<"atomic", "leaf", Version(f, n1)>>
      /\ results[n2] = <<"atomic", "leaf", Version(f, n2)>>
      /\ results[n4] = <<"atomic", "leaf", Version(f, n4)>>
      /\ results[n5] = <<"atomic", "leaf", Version(f, n5)>>
      /\ results[m] = <<"atomic", "intermediate", Version(h, m)>>
      /\ results[z] = <<"atomic", "root", Version(r, z)>>
  <2>1. /\ Takes(T, selected) /\ Takes(T, fallback) /\ Takes(T, leaf) /\ Takes(T, route_leaf)
        /\ Takes(T, Digest("Intermediate", "digest", h)) /\ Takes(T, Digest("anchor", "digest", r))
    BY <1>1, SequelTakes
  <2> HIDE DEF f, h, r
  <2> QED
    BY <1>5, <2>1, DigestResult
<1>7. HierarchyFits(results) <=>
        ~Moved(f, n3, n4) /\ ~Moved(h, n3, m) /\ ~Moved(r, n3, z)
  <2>1. PathOrdered(Table[kind], "atomic")
    BY DEF CrossOrdered
  <2> QED
    BY <2>1, HierarchyStays DEF Stays
<1>8. /\ <<"atomic", "intermediate", "v1">> = results[m] <=>
           ~Moved(h, <<"hash", "atomic_ica">>, m)
      /\ <<"atomic", "intermediate", "v1">> = results[m] <=> ~Seen(h, m)
  <2>1. /\ Sequel(Table[kind], Digest("hash", "atomic_ica", h), Digest("Intermediate", "digest", h))
        /\ results[<<"hash", "atomic_ica">>] = <<"atomic", "intermediate", "v1">>
    BY <1>2, <1>3
  <2>2. h = <<"atomic", "intermediate">>
    OBVIOUS
  <2> HIDE DEF h
  <2> QED
    BY <2>1, <2>2, StillFirst
<1>9. /\ <<"atomic", "root", "v1">> = results[z] <=> ~Moved(r, <<"hash", "atomic_root">>, z)
      /\ <<"atomic", "root", "v1">> = results[z] <=> ~Seen(r, z)
  <2>1. /\ Sequel(Table[kind], Digest("hash", "atomic_root", r), Digest("anchor", "digest", r))
        /\ results[<<"hash", "atomic_root">>] = <<"atomic", "root", "v1">>
    BY <1>2, <1>3
  <2>2. r = <<"atomic", "root">>
    OBVIOUS
  <2> HIDE DEF r
  <2> QED
    BY <2>1, <2>2, StillFirst
<1>10. <<"classical", "intermediate", "v1">> = results[<<"route", "intermediate">>] <=>
         ~Moved(i, <<"hash", "classical_ica">>, <<"route", "intermediate">>)
  <2>1. /\ Sequel(Table[kind], Digest("hash", "classical_ica", i),
                  Digest("route", "intermediate", i))
        /\ results[<<"hash", "classical_ica">>] = <<"classical", "intermediate", "v1">>
    BY <1>2, <1>3
  <2>2. i = <<"classical", "intermediate">>
    OBVIOUS
  <2> HIDE DEF i
  <2> QED
    BY <2>1, <2>2, StillFirst
<1>11. <<"classical", "root", "v1">> = results[<<"route", "root">>] <=>
         ~Moved(o, <<"hash", "classical_root">>, <<"route", "root">>)
  <2>1. /\ Sequel(Table[kind], Digest("hash", "classical_root", o), Digest("route", "root", o))
        /\ results[<<"hash", "classical_root">>] = <<"classical", "root", "v1">>
    BY <1>2, <1>3
  <2>2. o = <<"classical", "root">>
    OBVIOUS
  <2> HIDE DEF o
  <2> QED
    BY <2>1, <2>2, StillFirst
<1>12. /\ Moved(f, n3, n4) <=> ~Seen(f, n3) /\ Seen(f, n4)
       /\ Moved(h, n3, m) => Seen(h, m)
       /\ Moved(r, n3, z) => Seen(r, z)
       /\ Moved(f, n1, n5) <=> ~Seen(f, n1) /\ Seen(f, n5)
       /\ Seen(f, n1) => Seen(f, n3)
       /\ Seen(f, n3) => Seen(f, n4)
       /\ Seen(f, n4) => Seen(f, n5)
       /\ Seen(f, n1) => Seen(f, n2)
       /\ Seen(f, n2) => Seen(f, n5)
  <2> HIDE DEF f, h, r, selected, fallback, select, leaf, route_leaf, n1, n2, n3, n4, n5, m, z
  <2> QED
    BY <1>1, <1>4, MovedBetween
<1>13. /\ results[n1] = results[n4] <=> (Seen(f, n1) <=> Seen(f, n4))
       /\ results[n2] = results[n5] <=> (Seen(f, n2) <=> Seen(f, n5))
       /\ results[n4] = results[n5] <=> (Seen(f, n4) <=> Seen(f, n5))
  <2> HIDE DEF f, n1, n2, n4, n5
  <2> QED
    BY <1>6, SameVersion
<1>14. ClassicalRouteFits(results) <=>
         /\ results[n2] = results[n5] /\ results[n4] = results[n5]
         /\ <<"classical", "intermediate", "v1">> = results[<<"route", "intermediate">>]
         /\ <<"classical", "root", "v1">> = results[<<"route", "root">>]
  BY <1>3 DEF ClassicalRouteFits
<1>15. AtomicRouteFits(results) <=>
         /\ results[<<"selected", "route">>] = "atomic" /\ results[n1] = results[n4]
         /\ <<"atomic", "intermediate", "v1">> = results[m]
         /\ <<"atomic", "root", "v1">> = results[z]
  <2>1. CASE results[<<"selected", "route">>] = "atomic"
    BY <2>1 DEF AtomicRouteFits
  <2>2. CASE results[<<"selected", "route">>] = "classical"
    <3>1. <<"classical", "root", "v1">> # results[z]
      BY <1>6
    <3> QED
      BY <2>2, <3>1 DEF AtomicRouteFits
  <2> QED
    BY <1>3, <2>1, <2>2
<1>16. CrossStays <=>
         /\ ~Moved(f, n1, n5) /\ ~Moved(h, <<"hash", "atomic_ica">>, m)
         /\ ~Moved(r, <<"hash", "atomic_root">>, z)
         /\ ~Moved(i, <<"hash", "classical_ica">>, <<"route", "intermediate">>)
         /\ ~Moved(o, <<"hash", "classical_root">>, <<"route", "root">>)
  BY DEF CrossStays
<1> HIDE DEF f, h, r, i, o, n1, n2, n3, n4, n5, m, z
<1> QED
  BY <1>7, <1>8, <1>9, <1>10, <1>11, <1>12, <1>13, <1>14, <1>15, <1>16 DEF CrossFits

LEMMA TableOf ==
  ASSUME AnalysisInv
  PROVE  Table[kind] = StepsOf(kind)
BY TablesAreDistinct DEF AnalysisInv

\* One submission fits when the files of its path stayed.
LEMMA SingleRefusal ==
  ASSUME Completed, answers # <<>>, NEW s, submissions(kind, results) = <<s>>,
         Fits(s) <=> ~PathMoved
  PROVE  refusals # {} <=> PathMoved
<1> DEFINE subs == submissions(kind, results)
<1>1. refusals = {} <=> \A i \in DOMAIN subs : Fits(subs[i])
  BY RefusedUnlessFit DEF Completed, AnalysisTypeInv
<1>2. DOMAIN subs = {1} /\ subs[1] = s
  OBVIOUS
<1> HIDE DEF subs
<1> QED
  BY <1>1, <1>2

LEMMA AtomicRefusal ==
  ASSUME Completed, answers # <<>>, kind = "atomic"
  PROVE  refusals # {} <=> PathMoved
<1>1. PathOrdered(Table[kind], "atomic")
  BY TableOf, AtomicOrder DEF Completed, AnalysisTypeInv, StepsOf
<1>2. Window = {<<<<"atomic", "leaf">>, <<"path", "selected">>, <<"EndEntity", "digest">>>>,
                <<<<"atomic", "intermediate">>, <<"path", "selected">>,
                  <<"Intermediate", "digest">>>>,
                <<<<"atomic", "root">>, <<"path", "selected">>, <<"anchor", "digest">>>>}
  BY DEF Window
<1>3. Stays(<<"atomic", "leaf">>, <<"atomic", "intermediate">>, <<"atomic", "root">>,
            <<"EndEntity", "digest">>, <<"Intermediate", "digest">>) <=> ~PathMoved
  BY <1>2, StaysUnlessMoved
<1>4. HierarchyFits(results) <=> ~PathMoved
  BY <1>1, <1>3, HierarchyStays
<1>5. Fits(atomic_submission(results)) <=> ~PathMoved
  BY <1>4, AtomicFitting
<1>6. submissions(kind, results) = <<atomic_submission(results)>>
  BY DEF submissions
<1> QED
  BY <1>5, <1>6, SingleRefusal

LEMMA CatalystRefusal ==
  ASSUME Completed, answers # <<>>, kind = "catalyst"
  PROVE  refusals # {} <=> PathMoved
<1>1. PathOrdered(Table[kind], "catalyst")
  BY TableOf, CatalystOrder DEF Completed, AnalysisTypeInv, StepsOf
<1>2. Window = {<<<<"catalyst", "leaf">>, <<"path", "selected">>, <<"EndEntity", "digest">>>>,
                <<<<"catalyst", "intermediate">>, <<"path", "selected">>,
                  <<"Intermediate", "digest">>>>,
                <<<<"catalyst", "root">>, <<"path", "selected">>, <<"anchor", "digest">>>>}
  BY DEF Window
<1>3. Stays(<<"catalyst", "leaf">>, <<"catalyst", "intermediate">>, <<"catalyst", "root">>,
            <<"EndEntity", "digest">>, <<"Intermediate", "digest">>) <=> ~PathMoved
  BY <1>2, StaysUnlessMoved
<1>4. HierarchyFits(results) <=> ~PathMoved
  BY <1>1, <1>3, HierarchyStays
<1>5. Fits(catalyst_submission(results)) <=> ~PathMoved
  BY <1>4, CatalystFitting
<1>6. submissions(kind, results) = <<catalyst_submission(results)>>
  BY DEF submissions
<1> QED
  BY <1>5, <1>6, SingleRefusal

LEMMA ChameleonRefusal ==
  ASSUME Completed, answers # <<>>, kind = "chameleon"
  PROVE  refusals # {} <=> PathMoved
<1>1. PathOrdered(Table[kind], "base")
  BY TableOf, ChameleonOrder DEF Completed, AnalysisTypeInv, StepsOf
<1>2. Window = {<<<<"base", "leaf">>, <<"path", "selected">>, <<"EndEntity", "digest">>>>,
                <<<<"base", "intermediate">>, <<"path", "selected">>,
                  <<"Intermediate", "digest">>>>,
                <<<<"base", "root">>, <<"path", "selected">>, <<"anchor", "digest">>>>}
  BY DEF Window
<1>3. Stays(<<"base", "leaf">>, <<"base", "intermediate">>, <<"base", "root">>,
            <<"EndEntity", "digest">>, <<"Intermediate", "digest">>) <=> ~PathMoved
  BY <1>2, StaysUnlessMoved
<1>4. HierarchyFits(results) <=> ~PathMoved
  BY <1>1, <1>3, HierarchyStays
<1>5. Fits(chameleon_submission(results)) <=> ~PathMoved
  BY <1>4, ChameleonFitting
<1>6. submissions(kind, results) = <<chameleon_submission(results)>>
  BY DEF submissions
<1> QED
  BY <1>5, <1>6, SingleRefusal

LEMMA PureRefusal ==
  ASSUME Completed, answers # <<>>, kind = "pure"
  PROVE  refusals # {} <=> PathMoved
<1>1. PathOrdered(Table[kind], "pure")
  BY TableOf, PureOrder DEF Completed, AnalysisTypeInv, StepsOf
<1>2. Window = {<<<<"pure", "leaf">>, <<"path", "selected">>, <<"EndEntity", "digest">>>>,
                <<<<"pure", "intermediate">>, <<"path", "selected">>,
                  <<"Intermediate", "digest">>>>,
                <<<<"pure", "root">>, <<"path", "selected">>, <<"anchor", "digest">>>>}
  BY DEF Window
<1>3. Stays(<<"pure", "leaf">>, <<"pure", "intermediate">>, <<"pure", "root">>,
            <<"EndEntity", "digest">>, <<"Intermediate", "digest">>) <=> ~PathMoved
  BY <1>2, StaysUnlessMoved
<1>4. HierarchyFits(results) <=> ~PathMoved
  BY <1>1, <1>3, HierarchyStays
<1>5. Fits(pure_submission(results)) <=> ~PathMoved
  BY <1>4, PureFitting
<1>6. submissions(kind, results) = <<pure_submission(results)>>
  BY DEF submissions
<1> QED
  BY <1>5, <1>6, SingleRefusal

LEMMA RelatedRefusal ==
  ASSUME Completed, answers # <<>>, kind = "related"
  PROVE  refusals # {} <=> PathMoved
<1>1. PathOrdered(Table[kind], "classical")
  BY TableOf, RelatedOrder DEF Completed, AnalysisTypeInv, StepsOf
<1>2. Window = {<<<<"classical", "leaf">>, <<"path", "selected">>, <<"EndEntity", "digest">>>>,
                <<<<"classical", "intermediate">>, <<"path", "selected">>,
                  <<"Intermediate", "digest">>>>,
                <<<<"classical", "root">>, <<"path", "selected">>, <<"anchor", "digest">>>>}
  BY DEF Window
<1>3. Stays(<<"classical", "leaf">>, <<"classical", "intermediate">>, <<"classical", "root">>,
            <<"EndEntity", "digest">>, <<"Intermediate", "digest">>) <=> ~PathMoved
  BY <1>2, StaysUnlessMoved
<1>4. HierarchyFits(results) <=> ~PathMoved
  BY <1>1, <1>3, HierarchyStays
<1>5. Fits(related_submission(results)) <=> ~PathMoved
  BY <1>4, RelatedFitting
<1>6. submissions(kind, results) = <<related_submission(results)>>
  BY DEF submissions
<1> QED
  BY <1>5, <1>6, SingleRefusal

LEMMA BouncyCastleRefusal ==
  ASSUME Completed, answers # <<>>, kind = "catalyst_bouncy_castle"
  PROVE  refusals # {} <=> PathMoved
<1>1. BouncyCastleOrdered(Table[kind])
  BY TableOf, BouncyCastleOrder DEF Completed, AnalysisTypeInv, StepsOf
<1>2. Window = {<<CredentialLeaf, <<"path", "selected">>, <<"node", "digest">>>>,
                <<Issuer, <<"path", "selected">>, <<"issuer", "digest">>>>,
                <<TrustStore, <<"path", "selected">>, <<"anchor", "digest">>>>}
  BY DEF Window, CredentialLeaf, Issuer, TrustStore
<1>3. Stays(CredentialLeaf, Issuer, TrustStore, <<"node", "digest">>, <<"issuer", "digest">>)
        <=> ~PathMoved
  BY <1>2, StaysUnlessMoved
<1>4. PathFits(results, "node", "issuer") <=> ~PathMoved
  BY <1>1, <1>3, BouncyCastleStays
<1>5. Fits(catalyst_bouncy_castle_submission(results)) <=> ~PathMoved
  BY <1>4, BouncyCastleFitting
<1>6. submissions(kind, results) = <<catalyst_bouncy_castle_submission(results)>>
  BY DEF submissions
<1> QED
  BY <1>5, <1>6, SingleRefusal

LEMMA OpenSslRefusal ==
  ASSUME Completed, answers # <<>>, kind = "related_openssl"
  PROVE  refusals # {} <=> PathMoved
<1>1. CredentialOrdered(Table[kind])
  BY TableOf, OpenSslOrder DEF Completed, AnalysisTypeInv, StepsOf
<1>2. Window = {<<CredentialLeaf, <<"path", "selected">>, <<"node", "edge">>>>,
                <<Issuer, <<"path", "selected">>, <<"issuer", "digest">>>>,
                <<TrustStore, <<"path", "selected">>, <<"anchor", "digest">>>>}
  BY DEF Window, CredentialLeaf, Issuer, TrustStore
<1>3. Stays(CredentialLeaf, Issuer, TrustStore, <<"node", "edge">>, <<"issuer", "digest">>)
        <=> ~PathMoved
  BY <1>2, StaysUnlessMoved
<1>4. PathFits(results, "node", "issuer") /\ EvidenceFits(results) <=> ~PathMoved
  BY <1>1, <1>3, CredentialStays
<1>5. Fits(related_openssl_submission(results)) <=> ~PathMoved
  BY <1>4, OpenSslFitting
<1>6. submissions(kind, results) = <<related_openssl_submission(results)>>
  BY DEF submissions
<1> QED
  BY <1>5, <1>6, SingleRefusal

LEMMA AtomicTlsRefusal ==
  ASSUME Completed, answers # <<>>, kind = "atomic_tls"
  PROVE  refusals # {} <=> PathMoved
<1>1. CredentialOrdered(Table[kind])
  BY TableOf, AtomicTlsOrder DEF Completed, AnalysisTypeInv, StepsOf
<1>2. Window = {<<CredentialLeaf, <<"path", "selected">>, <<"node", "edge">>>>,
                <<Issuer, <<"path", "selected">>, <<"issuer", "digest">>>>,
                <<TrustStore, <<"path", "selected">>, <<"anchor", "digest">>>>}
  BY DEF Window, CredentialLeaf, Issuer, TrustStore
<1>3. Stays(CredentialLeaf, Issuer, TrustStore, <<"node", "edge">>, <<"issuer", "digest">>)
        <=> ~PathMoved
  BY <1>2, StaysUnlessMoved
<1>4. PathFits(results, "node", "issuer") /\ EvidenceFits(results) <=> ~PathMoved
  BY <1>1, <1>3, CredentialStays
<1>5. Fits(atomic_tls_submission(results)) <=> ~PathMoved
  BY <1>4, AtomicTlsFitting
<1>6. submissions(kind, results) = <<atomic_tls_submission(results)>>
  BY DEF submissions
<1> QED
  BY <1>5, <1>6, SingleRefusal

LEMMA CatalystTlsRefusal ==
  ASSUME Completed, answers # <<>>, kind = "catalyst_tls"
  PROVE  refusals # {} <=> PathMoved
<1>1. CredentialOrdered(Table[kind])
  BY TableOf, CatalystTlsOrder DEF Completed, AnalysisTypeInv, StepsOf
<1>2. Window = {<<CredentialLeaf, <<"path", "selected">>, <<"node", "edge">>>>,
                <<Issuer, <<"path", "selected">>, <<"issuer", "digest">>>>,
                <<TrustStore, <<"path", "selected">>, <<"anchor", "digest">>>>}
  BY DEF Window, CredentialLeaf, Issuer, TrustStore
<1>3. Stays(CredentialLeaf, Issuer, TrustStore, <<"node", "edge">>, <<"issuer", "digest">>)
        <=> ~PathMoved
  BY <1>2, StaysUnlessMoved
<1>4. PathFits(results, "node", "issuer") /\ EvidenceFits(results) <=> ~PathMoved
  BY <1>1, <1>3, CredentialStays
<1>5. Fits(catalyst_tls_submission(results)) <=> ~PathMoved
  BY <1>4, CatalystTlsFitting
<1>6. submissions(kind, results) = <<catalyst_tls_submission(results)>>
  BY DEF submissions
<1> QED
  BY <1>5, <1>6, SingleRefusal

LEMMA ChameleonTlsRefusal ==
  ASSUME Completed, answers # <<>>, kind = "chameleon_tls"
  PROVE  refusals # {} <=> PathMoved
<1>1. CredentialOrdered(Table[kind])
  BY TableOf, ChameleonTlsOrder DEF Completed, AnalysisTypeInv, StepsOf
<1>2. Window = {<<CredentialLeaf, <<"path", "selected">>, <<"node", "edge">>>>,
                <<Issuer, <<"path", "selected">>, <<"issuer", "digest">>>>,
                <<TrustStore, <<"path", "selected">>, <<"anchor", "digest">>>>}
  BY DEF Window, CredentialLeaf, Issuer, TrustStore
<1>3. Stays(CredentialLeaf, Issuer, TrustStore, <<"node", "edge">>, <<"issuer", "digest">>)
        <=> ~PathMoved
  BY <1>2, StaysUnlessMoved
<1>4. PathFits(results, "node", "issuer") /\ EvidenceFits(results) <=> ~PathMoved
  BY <1>1, <1>3, CredentialStays
<1>5. Fits(chameleon_tls_submission(results)) <=> ~PathMoved
  BY <1>4, ChameleonTlsFitting
<1>6. submissions(kind, results) = <<chameleon_tls_submission(results)>>
  BY DEF submissions
<1> QED
  BY <1>5, <1>6, SingleRefusal

LEMMA RelatedTlsRefusal ==
  ASSUME Completed, answers # <<>>, kind = "related_tls"
  PROVE  refusals # {} <=> PathMoved
<1>1. CredentialOrdered(Table[kind])
  BY TableOf, RelatedTlsOrder DEF Completed, AnalysisTypeInv, StepsOf
<1>2. Window = {<<CredentialLeaf, <<"path", "selected">>, <<"node", "edge">>>>,
                <<Issuer, <<"path", "selected">>, <<"issuer", "digest">>>>,
                <<TrustStore, <<"path", "selected">>, <<"anchor", "digest">>>>}
  BY DEF Window, CredentialLeaf, Issuer, TrustStore
<1>3. Stays(CredentialLeaf, Issuer, TrustStore, <<"node", "edge">>, <<"issuer", "digest">>)
        <=> ~PathMoved
  BY <1>2, StaysUnlessMoved
<1>4. PathFits(results, "node", "issuer") /\ EvidenceFits(results) <=> ~PathMoved
  BY <1>1, <1>3, CredentialStays
<1>5. Fits(related_tls_submission(results)) <=> ~PathMoved
  BY <1>4, RelatedTlsFitting
<1>6. submissions(kind, results) = <<related_tls_submission(results)>>
  BY DEF submissions
<1> QED
  BY <1>5, <1>6, SingleRefusal

LEMMA CrossSignedRefusal ==
  ASSUME Completed, answers # <<>>, kind = "cross_signed"
  PROVE  refusals # {} <=> PathMoved \/ results[<<"selected", "route">>] = "classical"
<1> DEFINE subs == submissions(kind, results)
           a == atomic_submission(results)
           b == evaluate_atomic_route(results)
           c == evaluate_classical_route(results)
<1>1. refusals = {} <=> \A i \in DOMAIN subs : Fits(subs[i])
  BY RefusedUnlessFit DEF Completed, AnalysisTypeInv
<1>2. subs = <<a, b, c>>
  BY DEF submissions
<1>3. /\ Fits(a) <=> HierarchyFits(results)
      /\ Fits(b) <=> AtomicRouteFits(results)
      /\ Fits(c) <=> ClassicalRouteFits(results)
  BY AtomicFitting, AtomicRouteFitting, ClassicalRouteFitting
<1> HIDE DEF subs, a, b, c
<1>4. DOMAIN subs = 1 .. 3 /\ subs[1] = a /\ subs[2] = b /\ subs[3] = c
  BY <1>2
<1>5. refusals = {} <=> CrossFits(results)
  BY <1>1, <1>3, <1>4 DEF CrossFits
<1>6. routes_error(results) = "ok"
  BY ComparedAtTheEnd DEF Completed, AnalysisTypeInv
<1>7. CrossOrdered(Table[kind])
  BY TableOf, CrossOrder DEF Completed, AnalysisTypeInv, StepsOf
<1>8. CrossFits(results) <=> CrossStays /\ results[<<"selected", "route">>] = "atomic"
  BY <1>6, <1>7, CrossSignedStays
<1>9. results[<<"selected", "route">>] \in {"atomic", "classical"}
  BY <1>6, ComparedRoutes
<1>10. CrossStays <=> ~PathMoved
  <2> DEFINE
        p == <<<<"atomic", "leaf">>, <<"selected", "leaf">>, <<"route", "leaf">>>>
        q == <<<<"atomic", "intermediate">>, <<"hash", "atomic_ica">>,
               <<"Intermediate", "digest">>>>
        r == <<<<"atomic", "root">>, <<"hash", "atomic_root">>, <<"anchor", "digest">>>>
        s == <<<<"classical", "intermediate">>, <<"hash", "classical_ica">>,
               <<"route", "intermediate">>>>
        t == <<<<"classical", "root">>, <<"hash", "classical_root">>, <<"route", "root">>>>
  <2>1. Window = {p, q, r, s, t}
    BY DEF Window
  <2>2. CrossStays <=> /\ ~Moved(p[1], p[2], p[3]) /\ ~Moved(q[1], q[2], q[3])
                       /\ ~Moved(r[1], r[2], r[3]) /\ ~Moved(s[1], s[2], s[3])
                       /\ ~Moved(t[1], t[2], t[3])
    BY DEF CrossStays
  <2> HIDE DEF p, q, r, s, t
  <2> QED
    BY <2>1, <2>2 DEF PathMoved
<1> QED
  BY <1>5, <1>8, <1>9, <1>10

LEMMA RefusedWhenMoved ==
  AnalysisTypeInv /\ HistoryInv => OnePathOrRefusal
<1> SUFFICES ASSUME AnalysisTypeInv, HistoryInv, Finished, answers # <<>>
             PROVE  refusals # {} <=>
                      \/ PathMoved
                      \/ kind = "cross_signed" /\ results[<<"selected", "route">>] = "classical"
  BY DEF OnePathOrRefusal
<1>1. Completed
  BY DEF Completed, Finished
<1>2. kind \in AllKinds
  BY KindsAreAnalyses DEF AnalysisTypeInv, AnalysisInv
<1>3. CASE kind = "cross_signed"
  BY <1>1, <1>3, CrossSignedRefusal
<1>4. CASE kind # "cross_signed"
  <2>1. CASE kind \in {"atomic", "catalyst", "chameleon", "pure", "related"}
    BY <1>1, <1>4, <2>1, AtomicRefusal, CatalystRefusal, ChameleonRefusal, PureRefusal,
       RelatedRefusal
  <2>2. CASE kind \in {"catalyst_bouncy_castle", "related_openssl", "atomic_tls", "catalyst_tls",
                       "chameleon_tls", "related_tls"}
    BY <1>1, <1>4, <2>2, BouncyCastleRefusal, OpenSslRefusal, AtomicTlsRefusal,
       CatalystTlsRefusal, ChameleonTlsRefusal, RelatedTlsRefusal
  <2> QED
    BY <1>2, <1>4, <2>1, <2>2 DEF AllKinds, PathScopeKinds, TlsKinds
<1> QED
  BY <1>3, <1>4

\* An analysis that asked the oracle is refused exactly when a certificate of
\* the path was replaced between the digest that came with the stack's run and
\* the last digest of the request, or when the builder of cross_signed_path.rs
\* selected the classical route and evaluate_atomic_route asked about it.
THEOREM OnePathOrRefused == AnalysisSpec => []OnePathOrRefusal
BY HistoryInvariant, RefusedWhenMoved, PTL
=============================================================================

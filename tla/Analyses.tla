------------------------------ MODULE Analyses ------------------------------
(***************************************************************************)
(* One call of an analysis.  Its steps run one after the other; each       *)
(* yields the documented value or another one the operation can return,    *)
(* any step may fail, and meanwhile somebody may replace a certificate     *)
(* file on disk.  At the end the results become one or more submissions,   *)
(* each evaluated at every scope, and the executions become a report.      *)
(*                                                                         *)
(* odd holds the results that differ from the documented ones.  A file is  *)
(* read anew by every step, so a digest is that of the version then on     *)
(* disk; every other effect of a replaced file shows as an odd result.     *)
(***************************************************************************)
EXTENDS CrossSigned, Credentials

CONSTANTS
  Kinds,      \* the analyses called
  Surprises   \* bound: odd results and replaced files in a call of each kind

PathScopeKinds == {"atomic", "catalyst", "chameleon", "pure", "related"}
TlsKinds == {"atomic_tls", "catalyst_tls", "chameleon_tls", "related_tls"}
AllKinds == PathScopeKinds \cup TlsKinds
              \cup {"catalyst_bouncy_castle", "related_openssl", "cross_signed"}

ASSUME KindsAreAnalyses ==
  /\ Kinds \subseteq AllKinds
  /\ Surprises \in [Kinds -> Nat]

\* A time is given, and the operation of a pair has a name.
ASSUME RequestsAreNamed ==
  /\ Times # {}
  /\ EmptyString \notin {PairOperation} \cup {<<id, "related-authentication">> :
                                                id \in {"leaf", "intermediate"}}

VARIABLES
  kind,       \* the analysis running
  at,         \* the step it is at
  odd,        \* results that differ from the documented ones, by step name
  replaced,   \* for every file replaced, the step before which it was
  surprises,  \* odd results and replaced files so far
  outcome,    \* "running", "answered" or the error it ended with
  policy,     \* the policy evaluated
  answers     \* the responses of every submission, by scope

analysis_vars == <<kind, at, odd, replaced, surprises, outcome, policy, answers>>

-----------------------------------------------------------------------------
(* Tables *)

StepsOf(k) ==
  CASE k = "atomic" -> atomic_steps
    [] k = "catalyst" -> catalyst_steps
    [] k = "chameleon" -> chameleon_steps
    [] k = "pure" -> pure_steps
    [] k = "related" -> related_steps
    [] k = "cross_signed" -> cross_signed_steps
    [] k = "catalyst_bouncy_castle" -> catalyst_bouncy_castle_steps
    [] k = "related_openssl" -> related_openssl_steps
    [] k = "atomic_tls" -> atomic_tls_steps
    [] k = "catalyst_tls" -> catalyst_tls_steps
    [] k = "chameleon_tls" -> chameleon_tls_steps
    [] k = "related_tls" -> related_tls_steps

Table == [k \in Kinds |-> StepsOf(k)]

\* The documented result of every step, and its place in the order.
Place ==
  [k \in Kinds |->
     [name \in {step.name : step \in Range(Table[k])} |->
        CHOOSE i \in DOMAIN Table[k] : Table[k][i].name = name]]
Nominal ==
  [k \in Kinds |->
     [name \in {step.name : step \in Range(Table[k])} |->
        (CHOOSE step \in Range(Table[k]) : step.name = name).nominal]]

\* The files that are hashed: their identity is part of the answer.
HashedFiles ==
  [k \in Kinds |-> UNION {Reads(step) : step \in {s \in Range(Table[k]) :
                                                   s.op \in {"digest", "edge", "select"}}}]

submissions(k, g) ==
  CASE k = "atomic" -> <<atomic_submission(g)>>
    [] k = "catalyst" -> <<catalyst_submission(g)>>
    [] k = "chameleon" -> <<chameleon_submission(g)>>
    [] k = "pure" -> <<pure_submission(g)>>
    [] k = "related" -> <<related_submission(g)>>
    [] k = "cross_signed" ->
         <<atomic_submission(g), evaluate_atomic_route(g), evaluate_classical_route(g)>>
    [] k = "catalyst_bouncy_castle" -> <<catalyst_bouncy_castle_submission(g)>>
    [] k = "related_openssl" -> <<related_openssl_submission(g)>>
    [] k = "atomic_tls" -> <<atomic_tls_submission(g)>>
    [] k = "catalyst_tls" -> <<catalyst_tls_submission(g)>>
    [] k = "chameleon_tls" -> <<chameleon_tls_submission(g)>>
    [] k = "related_tls" -> <<related_tls_submission(g)>>

\* The policy is the caller's, except in a handshake.
policies(k) == IF k \in TlsKinds THEN {"P2RequiredHybrid"} ELSE Policy

scopes(k) ==
  IF k \in TlsKinds \cup {"related_openssl"} THEN {"EndEntity"} ELSE PathScope

-----------------------------------------------------------------------------
(* Steps *)

current == Table[kind][at]
Running(ops) == outcome = "running" /\ at \in DOMAIN Table[kind] /\ current.op \in ops
Finished == outcome = "running" /\ at = Len(Table[kind]) + 1
results ==
  [name \in DOMAIN Nominal[kind] |->
     IF name \in DOMAIN odd THEN odd[name] ELSE Nominal[kind][name]]

\* Nothing is recorded twice.
Noting(f, key, value) == [k \in DOMAIN f \cup {key} |-> IF k = key THEN value ELSE f[k]]

AnalysisInit ==
  /\ kind \in Kinds
  /\ at = 1
  /\ odd = << >>
  /\ replaced = << >>
  /\ surprises = 0
  /\ outcome = "running"
  /\ policy = "none"
  /\ answers = <<>>

Record(value) ==
  /\ at' = at + 1
  /\ odd' = IF value = current.nominal THEN odd ELSE Noting(odd, current.name, value)

EndWith(error) ==
  /\ outcome' = error
  /\ UNCHANGED <<kind, at, odd, replaced, surprises, policy, answers>>

\* The step yields its documented value, or another at the cost of a surprise.
Observe ==
  /\ \/ Record(current.nominal) /\ UNCHANGED surprises
     \/ /\ surprises < Surprises[kind]
        /\ surprises' = surprises + 1
        /\ \E value \in current.others : Record(value)
  /\ UNCHANGED <<kind, replaced, outcome, policy, answers>>

\* A certificate of another scheme ends the analysis.
InspectControl ==
  /\ Running({"inspect"})
  /\ \/ /\ Record("expected")
        /\ UNCHANGED <<kind, replaced, surprises, outcome, policy, answers>>
     \/ EndWith("WrongScheme")

Modes == {"Path", "CertificateSignature", "AlternativeSignature", "DeltaSignature",
          "CrlStatus", "TlsTranscript", "PathBuilder", "openssl", "openssl_tls"}

RunAdapter == Running(Modes) /\ Observe

CheckCertificate == Running({"validity", "crl_status", "conformance", "binding"}) /\ Observe

Versions == [f \in HashedFiles[kind] |-> IF f \in DOMAIN replaced THEN "v2" ELSE "v1"]

\* certificate_der_hash, issuer_edge_hash, selected_path_hashes
HashOf(step, v) ==
  CASE step.op = "digest" -> DigestOf(<<step.inputs.certificate>>, v)
    [] step.op = "edge" -> DigestOf(<<step.inputs.certificate, step.inputs.issuer>>, v)
    [] OTHER -> <<DigestOf(<<step.inputs.leaf>>, v), DigestOf(<<step.inputs.intermediate>>, v),
                  DigestOf(<<step.inputs.root>>, v)>>

\* Whatever a file holds, its digest is well formed.
ASSUME HashesAreWellFormed ==
  \A k \in Kinds : \A step \in Range(Table[k]) :
    \A v \in [HashedFiles[k] -> {"v1", "v2"}] :
      /\ step.op \in {"digest", "edge"} => {step.nominal, HashOf(step, v)} \subseteq Sha256
      /\ step.op = "select" => Range(step.nominal) \cup Range(HashOf(step, v)) \subseteq Sha256

HashFiles ==
  /\ Running({"digest", "edge", "select"})
  /\ Record(HashOf(current, Versions))
  /\ UNCHANGED <<kind, replaced, surprises, outcome, policy, answers>>

CorruptSignature ==
  /\ Running({"corrupt"})
  /\ Record("written")
  /\ UNCHANGED <<kind, replaced, surprises, outcome, policy, answers>>

CompareRoutes ==
  /\ Running({"routes"})
  /\ \E error \in {routes_error(results)} :
       IF error = "ok"
         THEN /\ Record("expected")
              /\ UNCHANGED <<kind, replaced, surprises, outcome, policy, answers>>
         ELSE EndWith(error)

\* A file that cannot be read, an adapter's error, output that does not parse.
StepFails == Running(Modes \cup {"inspect", "validity", "crl_status", "conformance", "binding",
                                 "digest", "edge", "select", "corrupt"})
             /\ EndWith("StepError")

\* Somebody replaces a certificate the next step reads.
ReplaceFile ==
  /\ Running(Modes \cup {"validity", "crl_status", "conformance", "binding", "digest", "edge",
                         "select", "corrupt"})
  /\ surprises < Surprises[kind]
  /\ \E f \in (Reads(current) \cap HashedFiles[kind]) \ DOMAIN replaced :
       replaced' = Noting(replaced, f, at)
  /\ surprises' = surprises + 1
  /\ UNCHANGED <<kind, at, odd, outcome, policy, answers>>

\* Every submission is evaluated at every scope.
Evaluate ==
  /\ Finished
  /\ answers = <<>>
  /\ \E p \in policies(kind), subs \in {submissions(kind, results)} :
       /\ policy' = p
       /\ answers' = [i \in DOMAIN subs |->
                       [scope \in scopes(kind) |-> evaluate(Request(p, scope, subs[i]))]]
  /\ UNCHANGED <<kind, at, odd, replaced, surprises, outcome>>

\* The first error of the oracle is returned, or the report is written.  An
\* execution whose command line is not UTF-8 cannot be reported.
refusals == {answers[i][scope].error : i \in DOMAIN answers, scope \in scopes(kind)} \ {"ok"}

Refuse ==
  /\ Finished /\ answers # <<>>
  /\ \E error \in refusals : EndWith(error)

Report ==
  /\ Finished /\ answers # <<>> /\ refusals = {}
  /\ outcome' \in {"answered", "ReportError"}
  /\ UNCHANGED <<kind, at, odd, replaced, surprises, policy, answers>>

AnalysisNext ==
  \/ InspectControl \/ RunAdapter \/ CheckCertificate \/ HashFiles \/ CorruptSignature
  \/ CompareRoutes \/ StepFails \/ ReplaceFile \/ Evaluate \/ Refuse \/ Report

AnalysisSpec == AnalysisInit /\ [][AnalysisNext]_analysis_vars

-----------------------------------------------------------------------------
(* Properties *)

Answered == outcome = "answered"
Verdict(i, scope) == answers[i][scope].policy_verdict
ModelledOutcomes ==
  {"running", "answered", "WrongScheme", "StepError", "ReportError", "InvalidSelectedPath",
   "UnexpectedRoute", "SelectedPathMismatch", "TrustAnchorMismatch",
   "CertificateDerHashMismatch", "IssuerEdgeHashMismatch", "EvidenceArtifactDerHashMismatch"}

\* The analysis is at one of its steps within its bounds; it only ever ends
\* with an answer, a failed step or a mismatch of digests: a request that an
\* analysis builds is never refused for its form, and no verdict is missing.
AnalysisTypeOK ==
  /\ kind \in Kinds
  /\ at \in 1 .. Len(Table[kind]) + 1
  /\ DOMAIN odd \subseteq DOMAIN Nominal[kind]
  /\ DOMAIN replaced \subseteq HashedFiles[kind]
  /\ surprises \in 0 .. Surprises[kind]
  /\ outcome \in ModelledOutcomes
  /\ answers # <<>> => policy \in policies(kind)
  /\ Answered => \A i \in DOMAIN answers : \A scope \in scopes(kind) :
                   Verdict(i, scope) \in PolicyVerdict

FallbackKinds ==
  {"catalyst", "catalyst_bouncy_castle", "catalyst_tls", "related", "related_tls",
   "related_openssl"}

InScopeOf(scope) == {p \in {"EndEntity", "Intermediate"} : includes(scope, p)}

\* The evidence on the related certificate of every position in scope.
RelatedItemIds(scope) ==
  CASE kind = "related" -> {<<position_id(p), "PostQuantum">> : p \in InScopeOf(scope)}
    [] kind \in {"related_tls", "related_openssl"} -> {<<"end-entity", "PostQuantum">>}
    [] OTHER -> {}

\* The pair does not conform, and so nothing shows that it matters.
Unsettled(id) ==
  {FailedCheck("evidence", id, "binding", observed("Fail")),
   FailedCheck("evidence", id, "decision_sensitive", behavioral_check(FALSE, "Fail"))}

\* With every control as documented, each analysis gives under P2 the verdict
\* that docs/verification-status.md reports for it, with the same flags; and
\* the answer on a related pair names, at every position in scope, what the
\* tests of the three related analyses assert: a pair that does not conform and
\* whose part in the decision is not settled.
DocumentedVerdicts ==
  Answered /\ odd = << >> /\ policy = "P2RequiredHybrid" =>
    \A scope \in scopes(kind) :
      LET first == answers[1][scope] IN
      CASE kind \in {"atomic", "atomic_tls"} -> first.policy_verdict = "Indeterminate"
        [] kind \in FallbackKinds ->
             /\ first.policy_verdict = "Reject"
             /\ first.classical_only_fallback
             /\ first.lifecycle_desynchronization = (kind \in {"related_tls", "related_openssl"})
             /\ \A id \in RelatedItemIds(scope) : Unsettled(id) \subseteq first.failed_checks
        [] kind \in {"pure", "chameleon", "chameleon_tls"} ->
             first.policy_verdict = "Reject" /\ ~first.classical_only_fallback
        [] OTHER ->
             /\ Verdict(2, scope) = "HybridClaimSetSatisfied"
             /\ Verdict(3, "CertificationPath") = "Reject"
             /\ answers[3]["CertificationPath"].classical_only_fallback

AtPositions(scope, what) == {<<p, w>> : p \in InScopeOf(scope), w \in what}

AtomicControls ==
  {"valid_signature", "invalid_classical_signature", "invalid_post_quantum_signature",
   "invalid_classical_path", "invalid_post_quantum_path", "validity"}

\* The steps a hybrid verdict on the selected and on the fallback route of a
\* cross-signed leaf must rest on.  The classical route has none beyond the
\* end entity: its intermediate is not hybrid.
HybridNeeds(i, scope) ==
  {<<"path", "valid_path">>} \cup AtPositions(scope, AtomicControls)
    \cup (IF i = 2 THEN AtPositions(scope, {"crl"}) ELSE {<<"control", "ica_crl">>})

\* Only the path builder earns a hybrid verdict, and it does exactly when every
\* control of both components at every position in scope came out as it must:
\* one inconclusive or unexpected result anywhere costs the verdict, and no
\* result outside the scope does.
HybridIsEarned ==
  Answered =>
    \A i \in DOMAIN answers : \A scope \in scopes(kind) :
      Verdict(i, scope) = "HybridClaimSetSatisfied" <=>
        /\ kind = "cross_signed"
        /\ policy \in {"P1OptionalHybrid", "P2RequiredHybrid"}
        /\ i = 2 \/ (i = 3 /\ scope = "EndEntity")
        /\ DOMAIN odd \cap HybridNeeds(i, scope) = {}

\* The steps the classical evidence of an analysis rests on.
ClassicalNeeds(scope) ==
  CASE kind \in {"atomic", "cross_signed"} ->
         {<<"path", "valid_path">>}
           \cup AtPositions(scope, {"valid_signature", "invalid_classical_signature",
                                     "invalid_classical_path", "validity", "crl"})
    [] kind = "catalyst" ->
         {<<"path", "valid_path">>}
           \cup AtPositions(scope, {"crl_status", "validity", "valid_default",
                                     "invalid_classical_path"})
    [] kind = "related" ->
         {<<"path", "classical_path">>}
           \cup AtPositions(scope, {"classical_signature", "invalid_classical_signature",
                                     "invalid_classical_path", "classical_validity",
                                     "classical_crl"})
    [] kind = "chameleon" ->
         {<<"path", "base_path">>, <<"path", "delta_path">>}
           \cup AtPositions(scope, {"delta_signature", "invalid_delta_signature",
                                    "delta_validity", "delta_crl"})
    [] kind = "catalyst_bouncy_castle" ->
         {<<"leaf", "valid_default">>}
           \cup {<<id, what>> : id \in {"leaf"} \cup (IF scope = "EndEntity" THEN {} ELSE {"issuer"}),
                                what \in {"invalid_classical", "validity", "crl_status"}}
    [] OTHER -> {<<"leaf", w>> : w \in {"classical", "classical_invalid", "classical_crl"}}

\* A delta signature decides only where the base path notices a bad one.
DeltaDecides(scope) ==
  kind = "chameleon" =>
    \A p \in InScopeOf(scope) : results[<<p, "invalid_delta_path">>] = "Reject"

\* Under P0 a classical verdict is given exactly when the classical signature
\* was measured, and shown to decide, at every position in scope; what the
\* post-quantum controls and the trust anchor's say makes no difference.
ClassicalIsEarned ==
  Answered /\ policy = "P0Classical" =>
    \A scope \in scopes(kind) :
      Verdict(1, scope) = "ClassicalClaimSetSatisfied" <=>
        /\ kind # "pure"
        /\ DeltaDecides(scope)
        /\ DOMAIN odd \cap ClassicalNeeds(scope) = {}

\* The files of the certification path, each with the first and the last of
\* the digests that must agree.
Window ==
  LET Path(role) ==
        {<<<<role, "leaf">>, <<"path", "selected">>, <<"EndEntity", "digest">>>>,
         <<<<role, "intermediate">>, <<"path", "selected">>, <<"Intermediate", "digest">>>>,
         <<<<role, "root">>, <<"path", "selected">>, <<"anchor", "digest">>>>}
      LeafUnder(last) ==
        {<<<<"certificate", "leaf">>, <<"path", "selected">>, <<"node", last>>>>,
         <<<<"certificate", "issuer">>, <<"path", "selected">>, <<"issuer", "digest">>>>,
         <<<<"certificate", "trust_store">>, <<"path", "selected">>, <<"anchor", "digest">>>>}
  IN  CASE kind \in {"atomic", "catalyst", "pure"} -> Path(kind)
        [] kind = "chameleon" -> Path("base")
        [] kind = "related" -> Path("classical")
        [] kind = "catalyst_bouncy_castle" -> LeafUnder("digest")
        [] kind = "cross_signed" ->
             {<<<<"atomic", "leaf">>, <<"selected", "leaf">>, <<"route", "leaf">>>>,
              <<<<"atomic", "intermediate">>, <<"hash", "atomic_ica">>,
                <<"Intermediate", "digest">>>>,
              <<<<"atomic", "root">>, <<"hash", "atomic_root">>, <<"anchor", "digest">>>>,
              <<<<"classical", "intermediate">>, <<"hash", "classical_ica">>,
                <<"route", "intermediate">>>>,
              <<<<"classical", "root">>, <<"hash", "classical_root">>, <<"route", "root">>>>}
        [] OTHER -> LeafUnder("edge")

\* A file was replaced after the one step and before the other.
Moved(file, first, last) ==
  /\ file \in DOMAIN replaced
  /\ Place[kind][first] < replaced[file]
  /\ replaced[file] <= Place[kind][last]

PathMoved == \E w \in Window : Moved(w[1], w[2], w[3])

\* A completed analysis is refused by the oracle exactly when a certificate of
\* the path was replaced between the digest that came with the stack's run and
\* the last digest of the request, or, in the cross-signed analysis, when the
\* builder selected the classical route: evaluate_atomic_route is called for
\* that route too, and its digests are those of the other one.
OnePathOrRefusal ==
  Finished /\ answers # <<>> =>
    (refusals # {} <=>
       \/ PathMoved
       \/ kind = "cross_signed" /\ results[<<"selected", "route">>] = "classical")

Inconclusive == {"Indeterminate", "Unsupported"}

\* These handshakes record a verdict that is not Accept as a failed path.
FailingHandshakes == {"atomic_tls", "chameleon_tls", "related_tls"}

NominallyRejected(i, scope) ==
  IF policy = "P2RequiredHybrid"
    THEN kind \in FallbackKinds \cup {"pure", "chameleon"} \/ (i = 3 /\ scope = "CertificationPath")
    ELSE kind \in {"pure", "chameleon"}

\* Adapter runs that come to no conclusion never turn an analysis into a
\* rejection: a verdict that was not Reject becomes Indeterminate or
\* Unsupported at worst.
InconclusiveNeverRejects ==
  /\ Answered
  /\ kind \notin FailingHandshakes
  /\ \A name \in DOMAIN odd : /\ Table[kind][Place[kind][name]].op \in Modes
                               /\ odd[name] \in Inconclusive
  => \A i \in DOMAIN answers : \A scope \in scopes(kind) :
       Verdict(i, scope) = "Reject" => NominallyRejected(i, scope)

\* "Direct signature mutations, path mutations, validity checks, and all three
\* CRLs establish the evidence" (docs/verification-status.md): a hybrid verdict
\* for the leaf on the classical route rests on that route's leaf controls.
RouteControlsDecide ==
  /\ Answered /\ kind = "cross_signed"
  /\ Verdict(3, "EndEntity") = "HybridClaimSetSatisfied"
  => /\ results[<<"control", "invalid_leaf_ecdsa_path">>] = "Reject"
     /\ results[<<"control", "invalid_leaf_mldsa_path">>] = "Reject"
=============================================================================

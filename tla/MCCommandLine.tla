--------------------------- MODULE MCCommandLine ---------------------------
(***************************************************************************)
(* Values of the constants of CommandLine.                                 *)
(***************************************************************************)
EXTENDS CommandLine

-----------------------------------------------------------------------------
(* Analyses *)

\* The analyses name no certificate by its subject.
MCNames == {<<"x">>}

EdgeSteps == UNION {{s \in Range(Table[k]) : s.op = "edge"} : k \in Kinds}

\* The digests of the files, before and after they are replaced, and of the edges.
MCSha256 ==
  {f \o <<v>> : f \in UNION {HashedFiles[k] : k \in Kinds}, v \in {"v1", "v2"}}
    \cup UNION {{DigestOf(<<s.inputs.certificate, s.inputs.issuer>>, v) :
                   v \in [Reads(s) -> {"v1", "v2"}]} : s \in EdgeSteps}

\* Two surprises where the analysis is short, one where it is long.
MCSurprises ==
  [k \in Kinds |-> IF k \in TlsKinds \cup {"pure", "related_openssl"} THEN 2 ELSE 1]

-----------------------------------------------------------------------------
(* Matrix *)

\* The default images: OpenSSL of the study is in the image of oqs-provider.
MCImageOf ==
  [openssl_current |-> "openssl:4.0.1", openssl_study |-> "oqs-provider:0.11.0",
   gnutls_current |-> "gnutls:3.8.13", gnutls_study |-> "gnutls:3.7.3",
   go_study |-> "go:1.26.4", go_current |-> "go:1.26.6",
   pyca_study |-> "pyca:49.0.0", pyca_current |-> "pyca:50.0.0",
   bouncy_castle_study |-> "bouncycastle:1.84", bouncy_castle_current |-> "bouncycastle:1.85",
   nss_study |-> "nss:3.98", nss_current |-> "nss:3.126",
   oqs_provider |-> "oqs-provider:0.11.0", wolfssl |-> "wolfssl:5.9.2"]

MCSortedTags ==
  <<"bouncycastle:1.84", "bouncycastle:1.85", "gnutls:3.7.3", "gnutls:3.8.13", "go:1.26.4",
    "go:1.26.6", "nss:3.126", "nss:3.98", "openssl:4.0.1", "oqs-provider:0.11.0",
    "pyca:49.0.0", "pyca:50.0.0", "wolfssl:5.9.2">>

\* The Bouncy Castle images as released, with one version twice, and rebuilt.
MCContents ==
  {[tag \in Range(MCSortedTags) |->
      CASE tag = "bouncycastle:1.84" -> versions[1]
        [] tag = "bouncycastle:1.85" -> versions[2]
        [] OTHER -> "built"] :
     versions \in {<<"1.84", "1.85">>, <<"1.85", "1.85">>, <<"other", "other">>}}

\* A commit and an edit among the git commands; a tag moved away after its
\* inspection and back before its first run, one moved before its inspection,
\* before its first run and before its last, and one moved after its last run.
MCDisturbancePoints ==
  [what \in {"commit", "edit", "bouncycastle:1.84", "nss:3.126", "oqs-provider:0.11.0"} |->
     CASE what \in {"commit", "edit"} -> {2}
       [] what = "bouncycastle:1.84" -> {6, 17}
       [] what = "nss:3.126" -> {6, 17, 350}
       [] what = "oqs-provider:0.11.0" -> {350}]

-----------------------------------------------------------------------------
(* Corpus *)

File(bytes, form, digest, der_bytes) ==
  [regular |-> TRUE, bytes |-> bytes, form |-> form, der_sha256 |-> digest,
   der_bytes |-> der_bytes]

\* Two certificates of one length, a revocation list, a longer certificate, and
\* files that are not one PEM object.
MCFileContents ==
  {File(2, "certificate", "d1", 1), File(2, "certificate", "d2", 1), File(2, "crl", "d3", 1),
   File(4, "certificate", "d4", 3), File(2, "trailing", "d1", 1), File(0, "malformed", "d0", 0),
   [File(2, "malformed", "d0", 0) EXCEPT !.regular = FALSE]}

ArtifactOf(path, type, digest, der_bytes, maker) ==
  [path |-> path, kind |-> type, der_sha256 |-> digest, der_bytes |-> der_bytes,
   generator |-> maker]

\* Artifacts of two generators, one with the wrong length, one of another type.
MCManifests ==
  {<<ArtifactOf("a", "certificate", "d1", 1, "g"), ArtifactOf("c", "certificate", "d4", 3, "h"),
     ArtifactOf("b", "crl", "d3", 1, "g")>>,
   <<ArtifactOf("c", "certificate", "d4", 3, "h"), ArtifactOf("a", "certificate", "d1", 3, "g")>>,
   <<ArtifactOf("a", "key", "d1", 1, "h")>>}

MCInitialCorpora == [{"a", "b", "c"} -> MCFileContents]

-----------------------------------------------------------------------------
(* Inspection *)

ReferenceBase ==
  [id |-> "r", signature_oid |-> "ecdsa", key_oid |-> "ecdsa", extensions |-> {"related"},
   embedded |-> "m", algorithm |-> "sha384", ca |-> FALSE, key_usage |-> {"sign"},
   purposes |-> {"server"}, dns |-> {"a", "b"}]

\* A certificate that conforms, and ones that differ from it in one respect.
MCReferences ==
  {ReferenceBase} \cup
  {[ReferenceBase EXCEPT !.extensions = e] : e \in {{}, {"related", "delta"}, {"alternative"}}} \cup
  {[ReferenceBase EXCEPT !.embedded = e] : e \in {"other", "malformed"}} \cup
  {[ReferenceBase EXCEPT !.algorithm = "sha1"], [ReferenceBase EXCEPT !.ca = TRUE]} \cup
  {[ReferenceBase EXCEPT !.key_usage = u] : u \in {Absent, {}}} \cup
  {[ReferenceBase EXCEPT !.purposes = p] : p \in {Absent, {"any"}}} \cup
  {[ReferenceBase EXCEPT !.key_oid = k] : k \in {"ml-dsa-65", "composite-ml-dsa"}}

RelatedBase ==
  [ReferenceBase EXCEPT !.id = "m", !.key_oid = "ml-dsa-44", !.extensions = {},
                        !.embedded = "none", !.dns = {"b"}]

MCRelateds ==
  {RelatedBase} \cup
  {[RelatedBase EXCEPT !.id = "n"], [RelatedBase EXCEPT !.ca = TRUE]} \cup
  {[RelatedBase EXCEPT !.key_usage = u] : u \in {Absent, {"sign", "agree"}}} \cup
  {[RelatedBase EXCEPT !.purposes = p] : p \in {Absent, {"any"}, {"client"}}} \cup
  {[RelatedBase EXCEPT !.key_oid = k] : k \in {"ecdsa", "composite-ml-dsa"}} \cup
  {[RelatedBase EXCEPT !.dns = {"c"}]}
=============================================================================

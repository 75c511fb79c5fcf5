----------------------------- MODULE Inspection -----------------------------
(***************************************************************************)
(* Certificate inspection and related-certificate conformance of           *)
(* src/src/pem.rs.  A related analysis inspects the certificate that       *)
(* carries the extension, then verify_related_certificate_conformance      *)
(* reads each of the two files three times: for the binding, for the       *)
(* profile checks and for the key algorithms.  The files may be replaced   *)
(* between two reads.                                                      *)
(*                                                                         *)
(* A certificate is a record of what the code looks at; object identifiers *)
(* are named, and embedded is the digest of the extension, given as the    *)
(* certificate it was computed from.                                       *)
(***************************************************************************)
EXTENDS Integers, Sequences, FiniteSets

CONSTANTS
  References,      \* certificates the first file may hold
  Relateds,        \* certificates the second file may hold
  MaxReplacements  \* bound: files replaced during one call

\* No digest is a malformed one.
ASSUME DigestsAreWellFormed == \A c \in Relateds : c.id # "malformed"

VARIABLES
  pair,          \* the certificates now in the two files
  pair_at,       \* the read the call is at
  pair_reads,    \* the certificates read so far
  replacements,  \* the reads before which a file was replaced, and which file
  pair_outcome   \* "running", an error, or the set of checks that fail

pair_vars == <<pair, pair_at, pair_reads, replacements, pair_outcome>>

-----------------------------------------------------------------------------
(* inspect_certificate *)

is_ml_dsa_oid(oid) == oid \in {"ml-dsa-44", "ml-dsa-65", "ml-dsa-87"}
is_composite_mldsa_oid(oid) == oid = "composite-ml-dsa"

\* Every other algorithm counts as classical.
algorithm_security(oid) ==
  IF is_ml_dsa_oid(oid) THEN "PostQuantum"
  ELSE IF is_composite_mldsa_oid(oid) THEN "Hybrid" ELSE "Classical"

binding_design(signature_oid, extensions) ==
  IF "alternative" \in extensions THEN "Catalyst"
  ELSE IF "delta" \in extensions THEN "Chameleon"
  ELSE IF "related" \in extensions THEN "RelatedCertificate"
  ELSE IF is_composite_mldsa_oid(signature_oid) THEN "AtomicComposite" ELSE "None"

-----------------------------------------------------------------------------
(* The checks of a pair *)

\* verify_related_binding: an error, or whether the digests agree.
binding_error(reference) ==
  IF "related" \notin reference.extensions THEN "MissingRelatedCertificate"
  ELSE IF reference.embedded = "malformed" THEN "MalformedRelatedCertificate"
  ELSE IF reference.algorithm \notin {"sha256", "sha384", "sha512"}
    THEN "UnsupportedDigestAlgorithm" ELSE "ok"

binding_holds(reference, related) == reference.embedded = related.id

is_end_entity(c) == ~c.ca

\* An absent extension is the set {"absent"}.
Absent == {"absent"}

\* A reference that restricts nothing passes, a related certificate that says
\* nothing fails.
key_usage_is_subset(reference, related) ==
  \/ reference.key_usage = Absent
  \/ related.key_usage # Absent /\ reference.key_usage \subseteq related.key_usage

\* Mutant: any purpose in the related certificate has no special meaning.
AnyIsAPurpose(reference, related) ==
  \/ reference.purposes = Absent
  \/ related.purposes # Absent /\ reference.purposes \subseteq related.purposes

extended_key_usage_is_subset(reference, related) ==
  \/ reference.purposes = Absent
  \/ /\ related.purposes # Absent
     /\ "any" \in related.purposes \/ reference.purposes \subseteq related.purposes

dns_names_overlap(reference, related) == reference.dns \cap related.dns # {}

FailingIf(condition, check) == IF condition THEN {check} ELSE {}

hybrid_application_policy_failures(reference_scheme, related_scheme, overlap) ==
  FailingIf(reference_scheme # "Classical", "reference_subject_public_key_is_classical")
    \cup FailingIf(related_scheme # "PostQuantum", "related_subject_public_key_is_post_quantum")
    \cup FailingIf(~overlap, "dns_identity_overlap")

\* The checks that fail, given the six certificates in the order of the reads.
conformance_failures(r) ==
  LET reference == r[3]  related == r[4] IN
  FailingIf(~binding_holds(r[1], r[2]), "binding")
    \cup FailingIf(~is_end_entity(reference), "extension_in_end_entity")
    \cup FailingIf(~is_end_entity(related), "related_certificate_is_end_entity")
    \cup FailingIf(~key_usage_is_subset(reference, related), "key_usage_subset")
    \cup FailingIf(~extended_key_usage_is_subset(reference, related), "extended_key_usage_subset")
    \cup hybrid_application_policy_failures(algorithm_security(r[5].key_oid),
                                            algorithm_security(r[6].key_oid),
                                            dns_names_overlap(reference, related))

-----------------------------------------------------------------------------
(* The call *)

PairInit ==
  /\ pair \in [reference : References, related : Relateds]
  /\ pair_at = 0
  /\ pair_reads = <<>>
  /\ replacements = {}
  /\ pair_outcome = {"running"}

PairRunning == pair_outcome = {"running"}

EndPair(result) ==
  pair_outcome' = result /\ UNCHANGED <<pair, pair_at, pair_reads, replacements>>

\* The analysis wants a related certificate.
InspectReference ==
  /\ PairRunning /\ pair_at = 0
  /\ IF binding_design(pair.reference.signature_oid, pair.reference.extensions)
          = "RelatedCertificate"
       THEN pair_at' = 1 /\ UNCHANGED <<pair, pair_reads, replacements, pair_outcome>>
       ELSE EndPair({"WrongScheme"})

\* Reads 1, 3 and 5 are of the certificate with the extension.
FileOf(n) == IF n % 2 = 1 THEN "reference" ELSE "related"

ReadCertificate ==
  /\ PairRunning /\ pair_at \in 1 .. 6
  /\ pair_at' = pair_at + 1
  /\ pair_reads' = Append(pair_reads, pair[FileOf(pair_at)])
  /\ UNCHANGED <<pair, replacements>>
  /\ pair_outcome' =
       IF pair_at = 2 /\ binding_error(pair_reads[1]) # "ok"
         THEN {binding_error(pair_reads[1])} ELSE pair_outcome

\* A file that cannot be read or parsed, or extensions given twice.
ReadFails == PairRunning /\ pair_at \in 0 .. 6 /\ EndPair({"ReadError"})

Conclude ==
  /\ PairRunning /\ pair_at = 7
  /\ EndPair(conformance_failures(pair_reads))

\* Somebody replaces one of the two files.
ReplaceCertificate ==
  /\ PairRunning /\ pair_at \in 0 .. 6
  /\ Cardinality(replacements) < MaxReplacements
  /\ \E file \in {"reference", "related"} :
       /\ replacements' = replacements \cup {<<file, pair_at>>}
       /\ \E c \in IF file = "reference" THEN References ELSE Relateds :
            pair' = [pair EXCEPT ![file] = c]
  /\ UNCHANGED <<pair_at, pair_reads, pair_outcome>>

PairNext ==
  InspectReference \/ ReadCertificate \/ ReadFails \/ Conclude \/ ReplaceCertificate

PairSpec == PairInit /\ [][PairNext]_pair_vars

-----------------------------------------------------------------------------
(* Properties *)

Usages(extension) == IF extension = Absent THEN {} ELSE extension
Conforming(reference, related) ==
  /\ "related" \in reference.extensions /\ reference.embedded = related.id
  /\ reference.algorithm \in {"sha256", "sha384", "sha512"}
  /\ ~reference.ca /\ ~related.ca
  /\ \A u \in Usages(reference.key_usage) : u \in related.key_usage
  /\ \A u \in Usages(reference.purposes) : {u, "any"} \cap related.purposes # {}
  /\ reference.key_usage = {} => related.key_usage # Absent
  /\ reference.purposes = {} => related.purposes # Absent
  /\ reference.key_oid \notin {"ml-dsa-44", "ml-dsa-65", "ml-dsa-87", "composite-ml-dsa"}
  /\ related.key_oid \in {"ml-dsa-44", "ml-dsa-65", "ml-dsa-87"}
  /\ \E name \in reference.dns : name \in related.dns

\* Whenever the reads of each file saw one certificate, also one that replaced
\* the inspected one, the call ends without a failed check exactly when the two
\* are a conforming pair: the digest binds them, both are end entities, every
\* use the first asserts is allowed to the second, the first key is classical
\* and the second post-quantum, and they share a name.
ConformanceIsExact ==
  /\ pair_outcome \notin {{"running"}, {"ReadError"}, {"WrongScheme"}}
  /\ \A i, j \in DOMAIN pair_reads : FileOf(i) = FileOf(j) => pair_reads[i] = pair_reads[j]
  => (pair_outcome = {} <=> Conforming(pair_reads[1], pair_reads[2]))
=============================================================================

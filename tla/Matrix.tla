------------------------------- MODULE Matrix -------------------------------
(***************************************************************************)
(* The adapter matrix of src/src/analysis/matrix.rs: the provenance of the *)
(* source and of the adapter images is collected first, then every case,   *)
(* valid and mutated, is run with fifteen adapters, and all of it becomes  *)
(* one report.  Meanwhile a commit may land, a file of the source may be   *)
(* edited, and an image tag may be moved to another image.                 *)
(*                                                                         *)
(* The content of an image stands for its digest; that of a Bouncy Castle  *)
(* image is the version it prints.  The files of the cases are left to     *)
(* Analyses: here a run fails or yields an entry.                          *)
(***************************************************************************)
EXTENDS Integers, Sequences, FiniteSets, Functions

CONSTANTS
  ImageOf,            \* the tag configured for every image
  SortedTags,         \* the tags configured, sorted and each once
  Contents,           \* what each tag may name at the start
  DisturbancePoints,  \* bound: the commands before which each thing may change
  MaxDisturbances     \* bound: changes during one call

VARIABLES
  publication,    \* whether the report is to be published
  head,           \* the commit checked out
  clean,          \* whether the working tree is clean
  content,        \* what every tag names
  matrix_at,      \* the command the call is at
  provenance,     \* what is recorded so far
  printed,        \* the version cache: what each image printed first
  entries,        \* the entries so far
  ran,            \* what was run under each tag
  disturbances,   \* what changed, before which command, and to what
  matrix_outcome  \* "running", "reported" or the error

matrix_vars == <<publication, head, clean, content, matrix_at, provenance, printed,
                 entries, ran, disturbances, matrix_outcome>>

-----------------------------------------------------------------------------
(* Cases, variants and adapters *)

CASES ==
  <<"pure-pq-key", "pure-pq-signature", "atomic-composite", "catalyst", "chameleon",
    "related", "classical">>

\* What run_available_matrix runs, in its order.
Rows ==
  [n \in 1 .. 2 * Len(CASES) |->
     <<CASES[(n + 1) \div 2], IF n % 2 = 1 THEN "Valid" ELSE "InvalidCertificateSignature">>]
    \o <<<<"catalyst", "InvalidPostQuantumSignature">>,
         <<"atomic-composite", "InvalidPostQuantumSignature">>,
         <<"related", "MissingHybridEvidence">>,
         <<"related", "BrokenBinding">>,
         <<"related", "UnknownHybridAlgorithm">>,
         <<"related", "MalformedHybridEvidence">>,
         <<"related", "CriticalHybridExtension">>,
         <<"chameleon", "PublishedStudyFixture">>,
         <<"chameleon", "InvalidHybridEvidenceSignature">>>>

\* The adapters of run_case in its order, each with the image it runs.
Adapters ==
  <<<<"openssl-study", "openssl_study">>, <<"openssl-current", "openssl_current">>,
    <<"oqs-provider", "oqs_provider">>,
    <<"mozilla-nss-study", "nss_study">>, <<"mozilla-nss-current", "nss_current">>,
    <<"bouncycastle-java", "bouncy_castle_study">>,
    <<"bouncycastle-java", "bouncy_castle_current">>,
    <<"wolfssl-mode1", "wolfssl">>, <<"wolfssl-mode2", "wolfssl">>,
    <<"gnutls-current", "gnutls_current">>, <<"gnutls-study", "gnutls_study">>,
    <<"go-crypto-x509-study", "go_study">>, <<"go-crypto-x509-current", "go_current">>,
    <<"pyca-cryptography-study", "pyca_study">>, <<"pyca-cryptography-current", "pyca_current">>>>

\* A Bouncy Castle run is named after the version its image printed.
bouncy_castle_name(version) ==
  CASE version = "1.84" -> "bouncycastle-java-study"
    [] version = "1.85" -> "bouncycastle-java-current"
    [] OTHER -> "bouncycastle-java"

BouncyCastle == {bouncy_castle_name(v) : v \in {"1.84", "1.85", "other"}}

\* Mutant: only the two known releases support the composite case.
KnownReleasesOnly(case, variant, adapter) ==
  IF \/ case = "atomic-composite"
          /\ adapter \notin {"bouncycastle-java-study", "bouncycastle-java-current"}
     \/ case \in {"pure-pq-key", "chameleon"} /\ adapter = "mozilla-nss-study"
    THEN "Unsupported" ELSE "Supported"

expected_support(case, variant, adapter) ==
  IF \/ case = "atomic-composite" /\ adapter \notin BouncyCastle
     \/ case \in {"pure-pq-key", "chameleon"} /\ adapter = "mozilla-nss-study"
     \/ /\ case = "pure-pq-signature"
        /\ adapter \in {"mozilla-nss-study", "gnutls-study", "go-crypto-x509-study",
                        "go-crypto-x509-current", "pyca-cryptography-study"}
     \/ /\ case = "related" /\ variant = "CriticalHybridExtension"
        /\ adapter \in {"mozilla-nss-study", "mozilla-nss-current",
                        "bouncycastle-java-study", "bouncycastle-java-current"}
    THEN "Unsupported" ELSE "Supported"

expected_stack_verdict(case, variant, adapter) ==
  CASE expected_support(case, variant, adapter) = "Unsupported" -> "Unsupported"
    [] /\ variant = "Valid"
       /\ \/ case = "pure-pq-signature" /\ adapter \in {"mozilla-nss-current", "gnutls-current"}
          \/ case = "catalyst" /\ adapter = "wolfssl-mode2" -> "Reject"
    [] variant \in {"InvalidCertificateSignature", "CriticalHybridExtension"} -> "Reject"
    [] variant = "InvalidPostQuantumSignature"
         /\ ~(case = "catalyst" /\ adapter # "wolfssl-mode2") -> "Reject"
    [] OTHER -> "Accept"

\* The configuration names an image for every adapter and no other; two may
\* have one tag, which is inspected once.  Every tag names something, and none
\* is called as one of the other changes below.
ASSUME TagsAreConfigured ==
  /\ DOMAIN ImageOf = {adapter[2] : adapter \in Range(Adapters)}
  /\ SortedTags \in Seq(Range(ImageOf)) /\ Range(SortedTags) = Range(ImageOf)
  /\ \A i, j \in DOMAIN SortedTags : SortedTags[i] = SortedTags[j] => i = j
  /\ {"commit", "edit"} \cap Range(SortedTags) = {}
  /\ \A c \in Contents : c \in [Range(SortedTags) -> Range(c)]

-----------------------------------------------------------------------------
(* The commands of a call, numbered: three of git, one per image, the runs *)

\* Mutant: the image of the current NSS release is not recorded.
WithoutCurrentNss ==
  SelectSeq(SortedTags, LAMBDA tag : tag # ImageOf["nss_current"])

\* The images of the configuration, sorted and each once.
RecordedImages == SortedTags

FirstRun == 4 + Len(RecordedImages)
AllRuns == Len(Rows) * Len(Adapters)
End == FirstRun + AllRuns

RowAt(n) == Rows[((n - FirstRun) \div Len(Adapters)) + 1]
AdapterAt(n) == Adapters[((n - FirstRun) % Len(Adapters)) + 1]
TagAt(n) == ImageOf[AdapterAt(n)[2]]

\* What is known of a tag already stays.
Remember(known, tag, what) ==
  [t \in DOMAIN known \cup {tag} |-> IF t \in DOMAIN known THEN known[t] ELSE what]

MatrixInit ==
  /\ publication \in BOOLEAN
  /\ head = 1
  /\ clean \in BOOLEAN
  /\ content \in Contents
  /\ matrix_at = 1
  /\ provenance = [commit |-> 0, tree |-> 0, clean |-> FALSE, images |-> << >>]
  /\ printed = << >>
  /\ entries = <<>>
  /\ ran = [tag \in Range(SortedTags) |-> {}]
  /\ disturbances = {}
  /\ matrix_outcome = "running"

MatrixRunning == matrix_outcome = "running"
Environment == <<publication, head, clean, content, disturbances>>

EndMatrix(result) ==
  /\ matrix_outcome' = result
  /\ UNCHANGED <<matrix_at, provenance, printed, entries, ran>>

Proceed(recorded) ==
  /\ matrix_at' = matrix_at + 1
  /\ provenance' = recorded
  /\ UNCHANGED <<printed, entries, ran, matrix_outcome>>

\* git rev-parse HEAD, git rev-parse HEAD^{tree}
RevParse ==
  /\ MatrixRunning /\ matrix_at \in {1, 2} /\ UNCHANGED Environment
  /\ Proceed(IF matrix_at = 1 THEN [provenance EXCEPT !.commit = head]
                              ELSE [provenance EXCEPT !.tree = head])

\* A report for publication must come from a clean source tree.
ensure_publication_source_clean(source_clean) == publication => source_clean

\* git status --porcelain
Status ==
  /\ MatrixRunning /\ matrix_at = 3 /\ UNCHANGED Environment
  /\ IF ensure_publication_source_clean(clean)
       THEN Proceed([provenance EXCEPT !.clean = clean])
       ELSE EndMatrix("DirtySourceTree")

\* docker image inspect
InspectImage ==
  /\ MatrixRunning /\ matrix_at \in 4 .. FirstRun - 1 /\ UNCHANGED Environment
  /\ LET tag == RecordedImages[matrix_at - 3] IN
     Proceed([provenance EXCEPT !.images = Remember(@, tag, content[tag])])

\* Mutant: the claim does not name the variant.
ClaimWithoutVariant(row, adapter) ==
  [claim |-> <<row[1], adapter>>, case |-> row[1], variant |-> row[2], adapter |-> adapter,
   expected |-> expected_stack_verdict(row[1], row[2], adapter)]

push(row, adapter) ==
  [claim |-> <<row[1], row[2], adapter>>, case |-> row[1], variant |-> row[2], adapter |-> adapter,
   expected |-> expected_stack_verdict(row[1], row[2], adapter)]

\* One adapter run of run_case: the version is printed once for each image.
RunCase ==
  /\ MatrixRunning /\ matrix_at \in FirstRun .. End - 1 /\ UNCHANGED Environment
  /\ LET tag == TagAt(matrix_at)
         version == Remember(printed, tag, content[tag])
         name == IF AdapterAt(matrix_at)[1] = "bouncycastle-java"
                   THEN bouncy_castle_name(version[tag]) ELSE AdapterAt(matrix_at)[1] IN
     /\ printed' = version
     /\ ran' = [ran EXCEPT ![tag] = @ \cup {content[tag]}]
     /\ entries' = Append(entries, push(RowAt(matrix_at), name))
  /\ matrix_at' = matrix_at + 1
  /\ UNCHANGED <<provenance, matrix_outcome>>

\* git or docker fails, a leaf cannot be read or mutated, an adapter returns an
\* error: the call ends and its entries are gone.
MatrixFails ==
  /\ MatrixRunning /\ matrix_at < End /\ UNCHANGED Environment
  /\ EndMatrix(IF matrix_at < FirstRun THEN "Provenance" ELSE "RunError")

ReportMatrix ==
  /\ MatrixRunning /\ matrix_at = End /\ UNCHANGED Environment
  /\ EndMatrix("reported")

-----------------------------------------------------------------------------
(* The environment *)

Between(changes, what, first, last) ==
  \E d \in changes : d[1] = what /\ d[2] \in first .. last

\* A thing changes at most once between two commands: what it was meanwhile no
\* command sees.
Disturb(what, to) ==
  /\ MatrixRunning
  /\ what \in DOMAIN DisturbancePoints /\ matrix_at \in DisturbancePoints[what]
  /\ ~Between(disturbances, what, matrix_at, matrix_at)
  /\ Cardinality(disturbances) < MaxDisturbances
  /\ disturbances' = disturbances \cup {<<what, matrix_at, to>>}
  /\ UNCHANGED <<publication, matrix_at, provenance, printed, entries, ran, matrix_outcome>>

CommitSource == Disturb("commit", "new") /\ head' = head + 1 /\ UNCHANGED <<clean, content>>
EditSource == Disturb("edit", "new") /\ clean' = ~clean /\ UNCHANGED <<head, content>>

\* A tag is moved to another image, or back to one it may have named before.
MoveTag ==
  \E tag \in Range(SortedTags) \cap DOMAIN DisturbancePoints :
  \E image \in {c[tag] : c \in Contents} \cup {"moved"} :
    /\ Disturb(tag, image)
    /\ image # content[tag]
    /\ content' = [content EXCEPT ![tag] = image]
    /\ UNCHANGED <<head, clean>>

MatrixNext ==
  \/ RevParse \/ Status \/ InspectImage \/ RunCase \/ MatrixFails \/ ReportMatrix
  \/ CommitSource \/ EditSource \/ MoveTag

MatrixSpec == MatrixInit /\ [][MatrixNext]_matrix_vars

-----------------------------------------------------------------------------
(* Properties *)

Reported == matrix_outcome = "reported"

Expected(case, variant, verdict) ==
  {e.adapter : e \in {f \in Range(entries) : /\ f.case = case /\ f.variant = variant
                                              /\ f.expected = verdict}}

\* A report is never partial: every case and variant was run with every
\* adapter.  Its claims are all different exactly when the two Bouncy Castle
\* images printed versions that are named differently.  And whatever versions
\* they print, some adapter of the report is expected to tell the valid
\* certificate of every case from the one with a broken outer signature, and
\* some to tell a composite signature with a broken ML-DSA part.
MatrixIsComplete ==
  Reported =>
    /\ Len(entries) = AllRuns
    /\ \A i \in DOMAIN Rows : \A a \in Range(Adapters) \ {Adapters[6], Adapters[7]} :
         \E e \in Range(entries) : <<e.case, e.variant>> = Rows[i] /\ e.adapter = a[1]
    /\ Cardinality({e.claim : e \in Range(entries)}) = AllRuns
         <=> bouncy_castle_name(printed[ImageOf["bouncy_castle_study"]])
               # bouncy_castle_name(printed[ImageOf["bouncy_castle_current"]])
    /\ \A case \in Range(CASES) :
         Expected(case, "Valid", "Accept")
           \cap Expected(case, "InvalidCertificateSignature", "Reject") # {}
    /\ Expected("atomic-composite", "Valid", "Accept")
         \cap Expected("atomic-composite", "InvalidPostQuantumSignature", "Reject") # {}

InspectionOf(tag) == CHOOSE n \in 1 .. Len(SortedTags) : SortedTags[n] = tag

\* At the n-th command a tag names another image: the last time it was moved,
\* of those from the first command on, it was moved elsewhere.
MovedAway(changes, tag, image, first, n) ==
  \E d \in changes :
    d[1] = tag /\ d[2] \in first .. n /\ d[3] # image /\ ~Between(changes, tag, d[2] + 1, n)

\* What a report says of the source and of the images is true of one commit and
\* of every run, except exactly when a commit landed between the two git
\* commands, or a tag was moved after its image was inspected and was not moved
\* back before the next of its runs.  A published report was made from a tree
\* that was clean when asked.
ProvenanceIsExact ==
  Reported =>
    /\ provenance.commit = provenance.tree <=> ~Between(disturbances, "commit", 2, 2)
    /\ publication => provenance.clean
    /\ \A tag \in {ImageOf[image] : image \in DOMAIN ImageOf} :
         /\ tag \in DOMAIN provenance.images
         /\ ran[tag] = {provenance.images[tag]} <=>
              \A n \in FirstRun .. End - 1 :
                TagAt(n) = tag => ~MovedAway(disturbances, tag, provenance.images[tag],
                                             InspectionOf(tag) + 4, n)
=============================================================================

------------------------------- MODULE Corpus -------------------------------
(***************************************************************************)
(* Corpus verification (src/src/corpus.rs) over bounded input              *)
(* (src/src/input.rs) and PEM decoding (src/src/pem.rs): the artifacts one *)
(* generator made are read one by one and compared with the manifest.  A   *)
(* file is opened and measured first and read afterwards, and it may be    *)
(* written in between.                                                     *)
(*                                                                         *)
(* What a file holds is a record: whether it is a regular file, its length,*)
(* the PEM object in it, and the digest and the length of its DER form.    *)
(***************************************************************************)
EXTENDS Integers, Sequences

CONSTANTS
  Manifests,       \* the manifests that may be given
  FileContents,    \* what a file may hold
  InitialCorpora,  \* the files at the start
  Generators,      \* the generators that may be asked for
  InputLimits,     \* the limits that may be given
  MaxLength,       \* the largest length a machine word holds
  MaxWrites        \* bound: files written during one call

ASSUME LengthsFit ==
  /\ MaxLength \in Nat
  /\ InputLimits \subseteq 0 .. MaxLength
  /\ \A c \in FileContents : c.bytes \in 0 .. MaxLength

\* The artifacts of one generator, in the order of the manifest.
of_generator(artifacts, maker) ==
  SelectSeq(artifacts, LAMBDA artifact : artifact.generator = maker)

\* A manifest is a list, and what is selected from a list is a list of its
\* members.  Every file a manifest names holds something; for one that is not
\* there the call fails as it does when it cannot be opened.
ASSUME CorporaAreTyped ==
  /\ \A m \in Manifests : \A maker \in Generators :
       of_generator(m, maker) \in Seq({m[i] : i \in DOMAIN m})
  /\ \A files \in InitialCorpora :
       /\ files \in [DOMAIN files -> FileContents]
       /\ \A m \in Manifests : \A i \in DOMAIN m : m[i].path \in DOMAIN files

VARIABLES
  manifest,       \* the artifacts of the manifest
  corpus,         \* what every file holds
  generator,      \* the generator asked for
  input_limit,    \* the limit given
  artifact_at,    \* the artifact the call is at
  buffer,         \* what was read of its file
  accepted,       \* what was read of the artifacts before it
  writes,         \* files written so far
  corpus_outcome  \* "manifest", "open", "read", "compare", "verified" or the error

corpus_vars == <<manifest, corpus, generator, input_limit, artifact_at, buffer, accepted,
                 writes, corpus_outcome>>

-----------------------------------------------------------------------------
(* read_bounded_file, decode_pem *)

\* Mutant: the sum of the limit and one wraps.
WrappingAdd(limit) == (limit + 1) % (MaxLength + 1)

\* One byte over the limit is enough to see that a file is too large.
saturating_add_one(limit) == IF limit = MaxLength THEN MaxLength ELSE limit + 1

\* Mutant: the file is read to its end.
ReadToEnd(content, limit) == [content |-> content, count |-> content.bytes]

take(content, limit) ==
  LET bound == saturating_add_one(limit) IN
  [content |-> content, count |-> IF content.bytes < bound THEN content.bytes ELSE bound]

metadata_error(content, limit) ==
  CASE ~content.regular -> "NotAFile"
    [] content.bytes > limit -> "TooLarge"
    [] OTHER -> "ok"

\* A part of a PEM object is not one.
decode_pem(read, kind, limit) ==
  CASE read.count > limit -> "TooLarge"
    [] read.count < read.content.bytes \/ read.content.form = "malformed" -> "Malformed"
    [] read.content.form = "trailing" -> "TrailingData"
    [] read.content.form # kind -> "WrongLabel"
    [] OTHER -> "ok"

-----------------------------------------------------------------------------
(* verify_corpus *)

selected == of_generator(manifest, generator)
artifact_now == selected[artifact_at]

\* Mutant: only the lengths are compared.
LengthOnly(artifact, content) ==
  IF content.der_bytes # artifact.der_bytes THEN "Size" ELSE "ok"

comparison(artifact, content) ==
  CASE content.der_bytes # artifact.der_bytes -> "Size"
    [] content.der_sha256 # artifact.der_sha256 -> "Digest"
    [] OTHER -> "ok"

NothingRead == [content |-> "none", count |-> 0]

CorpusInit ==
  /\ manifest \in Manifests
  /\ corpus \in InitialCorpora
  /\ generator \in Generators
  /\ input_limit \in InputLimits
  /\ artifact_at = 1
  /\ buffer = NothingRead
  /\ accepted = <<>>
  /\ writes = 0
  /\ corpus_outcome = "manifest"

EndCorpus(result) ==
  corpus_outcome' = result /\ UNCHANGED <<artifact_at, buffer, accepted>>

Inputs == <<manifest, corpus, generator, input_limit, writes>>

\* The manifest is read whole and its artifacts selected.
ReadManifest ==
  /\ corpus_outcome = "manifest" /\ UNCHANGED Inputs
  /\ EndCorpus(IF selected = <<>> THEN "EmptySelection" ELSE "open")

\* The type of the artifact is looked at, its file opened and measured.
OpenArtifact ==
  /\ corpus_outcome = "open" /\ UNCHANGED Inputs
  /\ LET error == metadata_error(corpus[artifact_now.path], input_limit) IN
     EndCorpus(CASE artifact_now.kind \notin {"certificate", "crl"} -> "UnsupportedType"
                 [] error # "ok" -> error
                 [] OTHER -> "read")

\* The same open file is read.
ReadArtifact ==
  /\ corpus_outcome = "read" /\ UNCHANGED Inputs
  /\ buffer' = take(corpus[artifact_now.path], input_limit)
  /\ corpus_outcome' = "compare"
  /\ UNCHANGED <<artifact_at, accepted>>

CompareArtifact ==
  /\ corpus_outcome = "compare" /\ UNCHANGED Inputs
  /\ LET decoded == decode_pem(buffer, artifact_now.kind, input_limit)
         compared == comparison(artifact_now, buffer.content) IN
     IF decoded # "ok" THEN EndCorpus(decoded)
     ELSE IF compared # "ok" THEN EndCorpus(compared)
     ELSE /\ accepted' = Append(accepted, buffer.content)
          /\ buffer' = NothingRead
          /\ artifact_at' = artifact_at + 1
          /\ corpus_outcome' = IF artifact_at = Len(selected) THEN "verified" ELSE "open"

\* A file cannot be opened, measured or read, or the manifest is not one.
CorpusFails ==
  /\ corpus_outcome \in {"manifest", "open", "read"} /\ UNCHANGED Inputs
  /\ EndCorpus("Io")

\* Somebody writes a file in place.
WriteFile ==
  /\ corpus_outcome \in {"manifest", "open", "read", "compare"}
  /\ writes < MaxWrites
  /\ writes' = writes + 1
  /\ \E path \in DOMAIN corpus : \E written \in FileContents :
       /\ corpus[path].regular /\ written.regular
       /\ corpus' = [corpus EXCEPT ![path] = written]
  /\ UNCHANGED <<manifest, generator, input_limit, artifact_at, buffer, accepted, corpus_outcome>>

CorpusNext ==
  ReadManifest \/ OpenArtifact \/ ReadArtifact \/ CompareArtifact \/ CorpusFails \/ WriteFile

CorpusSpec == CorpusInit /\ [][CorpusNext]_corpus_vars

-----------------------------------------------------------------------------
(* Properties *)

Matches(artifact, content) ==
  /\ content.regular /\ content.bytes <= input_limit
  /\ content.form = artifact.kind /\ artifact.kind \in {"certificate", "crl"}
  /\ content.der_sha256 = artifact.der_sha256 /\ content.der_bytes = artifact.der_bytes

CorpusEnded == corpus_outcome \notin {"manifest", "open", "read", "compare"}

\* A corpus is verified only if it has an artifact of the generator and what was
\* read of every one, whatever was written meanwhile, is what the manifest says
\* it is; and if no file was written, every corpus like that is verified, the
\* largest limit included.  However large a file has grown since it was measured,
\* no more than one byte over the limit is ever held.
VerifiedIsExact ==
  /\ buffer.count <= input_limit + 1
  /\ corpus_outcome = "verified" =>
       /\ Len(accepted) = Len(selected) /\ accepted # <<>>
       /\ \A i \in DOMAIN accepted : Matches(selected[i], accepted[i])
  /\ CorpusEnded /\ corpus_outcome # "Io" /\ writes = 0 =>
       (corpus_outcome = "verified" <=>
          /\ selected # <<>>
          /\ \A i \in DOMAIN selected : Matches(selected[i], corpus[selected[i].path]))
=============================================================================

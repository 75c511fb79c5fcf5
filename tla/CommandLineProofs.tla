------------------------- MODULE CommandLineProofs -------------------------
(***************************************************************************)
(* Proofs about the commands that read PEM files: the verification of a    *)
(* corpus, for any manifests, file contents, limits and writes, and the    *)
(* conformance of a pair of certificates, for any certificates and         *)
(* replacements; about the adapter matrix, for any configuration, any      *)
(* contents of the images and any changes during a call; and about the     *)
(* command line: a command does to the state of its own part what that     *)
(* part's specification allows and leaves the others' alone, so what is    *)
(* proved of a part holds of the process.                                  *)
(***************************************************************************)
EXTENDS CommandLine, RefusalProofs, SequenceTheorems, FiniteSetTheorems, NaturalsInduction

-----------------------------------------------------------------------------
(* Bounded input *)

\* What is held of a file is never more than one byte over the limit, and all
\* of a file that is no larger than the limit.
LEMMA TakeIsBounded ==
  ASSUME NEW text \in FileContents, NEW limit \in InputLimits
  PROVE  LET read == take(text, limit) IN
         /\ read.content = text
         /\ read.count \in Nat /\ read.count <= limit + 1
         /\ text.bytes <= limit => read.count = text.bytes
         /\ read.count <= limit /\ read.count >= text.bytes => text.bytes <= limit
         /\ text.bytes > limit => read.count > limit \/ read.count < text.bytes
<1>1. text.bytes \in 0 .. MaxLength /\ limit \in 0 .. MaxLength /\ MaxLength \in Nat
  BY LengthsFit
<1>2. take(text, limit).content = text
  BY DEF take
<1>3. take(text, limit).count =
        IF text.bytes < saturating_add_one(limit) THEN text.bytes
                                                     ELSE saturating_add_one(limit)
  BY DEF take
<1> QED
  BY <1>1, <1>2, <1>3 DEF saturating_add_one

\* A file that was read decodes exactly when it is a PEM object of the kind
\* and within the limit.
LEMMA DecodeIsExact ==
  ASSUME NEW text \in FileContents, NEW limit \in InputLimits, NEW form \in {"certificate", "crl"}
  PROVE  decode_pem(take(text, limit), form, limit) = "ok"
           <=> text.bytes <= limit /\ text.form = form
<1> DEFINE read == take(text, limit)
<1>1. /\ text.bytes \in 0 .. MaxLength /\ limit \in 0 .. MaxLength /\ MaxLength \in Nat
  BY LengthsFit
<1>2. /\ read.content = text /\ read.count \in Nat
      /\ text.bytes <= limit => read.count = text.bytes
      /\ text.bytes > limit => read.count > limit \/ read.count < text.bytes
  BY TakeIsBounded
<1> HIDE DEF read
<1>3. CASE text.bytes <= limit
  <2>1. ~(read.count > limit) /\ ~(read.count < read.content.bytes)
    BY <1>1, <1>2, <1>3
  <2> QED
    BY <1>2, <1>3, <2>1 DEF decode_pem, read
<1>4. CASE text.bytes > limit
  <2>1. read.count > limit \/ read.count < read.content.bytes
    BY <1>2, <1>4
  <2>2. ~(text.bytes <= limit)
    BY <1>1, <1>4
  <2> QED
    BY <2>1, <2>2 DEF decode_pem, read
<1> QED
  BY <1>1, <1>3, <1>4

-----------------------------------------------------------------------------
(* verify_corpus *)

Active == {"open", "read", "compare"}

\* The corpus is as the manifest says.
AllMatch ==
  /\ selected # <<>>
  /\ \A i \in DOMAIN selected : Matches(selected[i], corpus[selected[i].path])

\* What was accepted of the first n artifacts.
AcceptedUpTo(n) ==
  /\ accepted \in Seq(FileContents) /\ Len(accepted) = n
  /\ \A i \in 1 .. n : /\ Matches(selected[i], accepted[i])
                       /\ writes = 0 => accepted[i] = corpus[selected[i].path]

CorpusTyped ==
  /\ manifest \in Manifests /\ generator \in Generators /\ input_limit \in InputLimits
  /\ corpus \in [DOMAIN corpus -> FileContents]
  /\ \A i \in DOMAIN manifest : manifest[i].path \in DOMAIN corpus
  /\ artifact_at \in Nat \ {0} /\ writes \in Nat
  /\ buffer.count \in Nat /\ buffer.count <= input_limit + 1

\* What is known at each point of the call.
CorpusProgress ==
  /\ corpus_outcome = "manifest" => artifact_at = 1 /\ accepted = <<>>
  /\ corpus_outcome \in Active =>
       artifact_at \in DOMAIN selected /\ AcceptedUpTo(artifact_at - 1)
  /\ corpus_outcome \in {"read", "compare"} => artifact_now.kind \in {"certificate", "crl"}
  /\ corpus_outcome = "read" => corpus[artifact_now.path].regular = TRUE
  /\ corpus_outcome = "compare" =>
       /\ buffer.content \in FileContents /\ buffer = take(buffer.content, input_limit)
       /\ buffer.content.regular = TRUE
       /\ writes = 0 => buffer.content = corpus[artifact_now.path]
  /\ corpus_outcome = "verified" => selected # <<>> /\ AcceptedUpTo(Len(selected))
  /\ corpus_outcome \notin Active \cup {"manifest", "verified", "Io"} =>
       (writes = 0 => ~AllMatch)

CorpusInv == CorpusTyped /\ CorpusProgress

\* The selected artifacts.
LEMMA SelectedIsList ==
  ASSUME CorpusTyped
  PROVE  /\ Len(selected) \in Nat /\ DOMAIN selected = 1 .. Len(selected)
         /\ selected # <<>> <=> Len(selected) >= 1
         /\ \A i \in DOMAIN selected : corpus[selected[i].path] \in FileContents
<1>1. selected \in Seq({manifest[i] : i \in DOMAIN manifest})
  BY CorporaAreTyped DEF CorpusTyped, selected
<1>2. Len(selected) \in Nat /\ DOMAIN selected = 1 .. Len(selected)
  BY <1>1
<1>3. selected = <<>> <=> Len(selected) = 0
  BY <1>1, EmptySeq
<1>4. ASSUME NEW i \in DOMAIN selected PROVE corpus[selected[i].path] \in FileContents
  <2>1. selected[i] \in {manifest[j] : j \in DOMAIN manifest}
    BY <1>1, <1>2
  <2>2. PICK j \in DOMAIN manifest : selected[i] = manifest[j]
    BY <2>1
  <2> QED
    BY <2>2 DEF CorpusTyped
<1> QED
  BY <1>2, <1>3, <1>4

LEMMA CorpusStarts == CorpusInit => CorpusInv
<1> SUFFICES ASSUME CorpusInit PROVE CorpusInv
  OBVIOUS
<1>1. /\ manifest \in Manifests /\ generator \in Generators /\ input_limit \in InputLimits
      /\ corpus \in InitialCorpora /\ artifact_at = 1 /\ writes = 0 /\ accepted = <<>>
      /\ buffer.count = 0 /\ corpus_outcome = "manifest"
  BY DEF CorpusInit, NothingRead
<1>2. input_limit \in Nat
  BY <1>1, LengthsFit
<1>3. CorpusTyped
  BY <1>1, <1>2, CorporaAreTyped DEF CorpusTyped
<1>4. CorpusProgress
  BY <1>1 DEF CorpusProgress, Active
<1> QED
  BY <1>3, <1>4 DEF CorpusInv

LEMMA ReadManifestPreserves ==
  ASSUME CorpusInv, ReadManifest
  PROVE  CorpusInv'
<1>1. /\ UNCHANGED <<manifest, corpus, generator, input_limit, writes, artifact_at, buffer, accepted>>
      /\ corpus_outcome = "manifest"
      /\ corpus_outcome' = IF selected = <<>> THEN "EmptySelection" ELSE "open"
  BY DEF ReadManifest, Inputs, EndCorpus
<1>2. CorpusTyped' /\ selected' = selected
  BY <1>1 DEF CorpusInv, CorpusTyped, selected
<1>3. artifact_at = 1 /\ accepted = <<>>
  BY <1>1 DEF CorpusInv, CorpusProgress
<1>4. CASE selected = <<>>
  <2>1. ~AllMatch'
    BY <1>2, <1>4 DEF AllMatch
  <2> QED
    BY <1>1, <1>2, <1>4, <2>1 DEF CorpusInv, CorpusProgress, Active
<1>5. CASE selected # <<>>
  <2>1. artifact_at \in DOMAIN selected
    BY <1>3, <1>5, SelectedIsList DEF CorpusInv
  <2>2. <<>> \in Seq(FileContents) /\ Len(<<>>) = 0 /\ 1 .. 0 = {} /\ 1 - 1 = 0
    OBVIOUS
  <2>3. AcceptedUpTo(artifact_at - 1)'
    BY <1>1, <1>3, <2>2 DEF AcceptedUpTo
  <2> QED
    BY <1>1, <1>2, <1>5, <2>1, <2>3 DEF CorpusInv, CorpusProgress, Active
<1> QED
  BY <1>4, <1>5

\* An error at the artifact means that the corpus does not match, when it was
\* not written.
LEMMA Mismatch ==
  ASSUME CorpusTyped, artifact_at \in DOMAIN selected,
         ~Matches(artifact_now, corpus[artifact_now.path])
  PROVE  ~AllMatch
BY DEF AllMatch, artifact_now

LEMMA OpenArtifactPreserves ==
  ASSUME CorpusInv, OpenArtifact
  PROVE  CorpusInv'
<1> DEFINE text == corpus[artifact_now.path]
           error == metadata_error(text, input_limit)
<1>1. /\ UNCHANGED <<manifest, corpus, generator, input_limit, writes, artifact_at, buffer, accepted>>
      /\ corpus_outcome = "open"
      /\ corpus_outcome' = CASE artifact_now.kind \notin {"certificate", "crl"} -> "UnsupportedType"
                             [] error # "ok" -> error
                             [] OTHER -> "read"
  BY DEF OpenArtifact, Inputs, EndCorpus
<1>2. CorpusTyped' /\ selected' = selected /\ artifact_now' = artifact_now
  BY <1>1 DEF CorpusInv, CorpusTyped, selected, artifact_now
<1>3. /\ artifact_at \in DOMAIN selected /\ AcceptedUpTo(artifact_at - 1)
  BY <1>1 DEF CorpusInv, CorpusProgress, Active
<1>4. AcceptedUpTo(artifact_at - 1)' /\ (AllMatch' <=> AllMatch)
  BY <1>1, <1>2, <1>3 DEF AcceptedUpTo, AllMatch, Matches
<1>5. text \in FileContents /\ CorpusTyped
  BY <1>3, SelectedIsList DEF CorpusInv, artifact_now
<1>6. text.bytes \in Nat /\ input_limit \in Nat
  BY <1>5, LengthsFit DEF CorpusTyped
<1>7. error \in {"NotAFile", "TooLarge", "ok"}
  BY DEF metadata_error
<1>8. error # "ok" => ~Matches(artifact_now, text)
  BY <1>6 DEF metadata_error, Matches
<1>9. error = "ok" => text.regular = TRUE
  BY DEF metadata_error
<1>10. CASE artifact_now.kind \notin {"certificate", "crl"} \/ error # "ok"
  <2>1. ~AllMatch
    BY <1>3, <1>5, <1>8, <1>10, Mismatch DEF Matches
  <2>2. corpus_outcome' \in {"UnsupportedType", "NotAFile", "TooLarge"}
    BY <1>1, <1>7, <1>10
  <2> QED
    BY <1>2, <1>4, <2>1, <2>2 DEF CorpusInv, CorpusProgress, Active
<1>11. CASE artifact_now.kind \in {"certificate", "crl"} /\ error = "ok"
  <2>1. corpus_outcome' = "read"
    BY <1>1, <1>11
  <2> QED
    BY <1>1, <1>2, <1>3, <1>4, <1>9, <1>11, <2>1 DEF CorpusInv, CorpusProgress, Active
<1> QED
  BY <1>10, <1>11

LEMMA ReadArtifactPreserves ==
  ASSUME CorpusInv, ReadArtifact
  PROVE  CorpusInv'
<1> DEFINE text == corpus[artifact_now.path]
<1>1. /\ UNCHANGED <<manifest, corpus, generator, input_limit, writes, artifact_at, accepted>>
      /\ corpus_outcome = "read" /\ corpus_outcome' = "compare"
      /\ buffer' = take(text, input_limit)
  BY DEF ReadArtifact, Inputs
<1>2. selected' = selected /\ artifact_now' = artifact_now
  BY <1>1 DEF selected, artifact_now
<1>3. /\ artifact_at \in DOMAIN selected /\ AcceptedUpTo(artifact_at - 1)
      /\ artifact_now.kind \in {"certificate", "crl"} /\ text.regular = TRUE
  BY <1>1 DEF CorpusInv, CorpusProgress, Active
<1>4. AcceptedUpTo(artifact_at - 1)'
  BY <1>1, <1>2, <1>3 DEF AcceptedUpTo, Matches
<1>5. text \in FileContents /\ CorpusTyped /\ input_limit \in InputLimits
  BY <1>3, SelectedIsList DEF CorpusInv, artifact_now, CorpusTyped
<1>6. buffer'.content = text /\ buffer'.count \in Nat /\ buffer'.count <= input_limit + 1
  BY <1>1, <1>5, TakeIsBounded
<1>7. CorpusTyped'
  BY <1>1, <1>5, <1>6 DEF CorpusTyped
<1>8. CorpusProgress'
  BY <1>1, <1>2, <1>3, <1>4, <1>5, <1>6 DEF CorpusProgress, Active
<1> QED
  BY <1>7, <1>8 DEF CorpusInv

LEMMA CompareArtifactPreserves ==
  ASSUME CorpusInv, CompareArtifact
  PROVE  CorpusInv'
<1> DEFINE text == buffer.content
           decoded == decode_pem(buffer, artifact_now.kind, input_limit)
           compared == comparison(artifact_now, text)
<1>1. /\ UNCHANGED <<manifest, corpus, generator, input_limit, writes>>
      /\ corpus_outcome = "compare"
      /\ IF decoded # "ok" THEN EndCorpus(decoded)
         ELSE IF compared # "ok" THEN EndCorpus(compared)
         ELSE /\ accepted' = Append(accepted, text)
              /\ buffer' = NothingRead
              /\ artifact_at' = artifact_at + 1
              /\ corpus_outcome' = IF artifact_at = Len(selected) THEN "verified" ELSE "open"
  BY DEF CompareArtifact, Inputs
<1>2. selected' = selected
  BY <1>1 DEF selected
<1>3. /\ artifact_at \in DOMAIN selected /\ AcceptedUpTo(artifact_at - 1)
      /\ artifact_now.kind \in {"certificate", "crl"}
      /\ text \in FileContents /\ buffer = take(text, input_limit)
      /\ text.regular = TRUE
      /\ writes = 0 => text = corpus[artifact_now.path]
  BY <1>1 DEF CorpusInv, CorpusProgress, Active
<1>4. CorpusTyped /\ input_limit \in InputLimits /\ artifact_at \in Nat \ {0}
  BY DEF CorpusInv, CorpusTyped
<1>5. decoded = "ok" <=> text.bytes <= input_limit /\ text.form = artifact_now.kind
  BY <1>3, <1>4, DecodeIsExact
<1>6. compared = "ok" <=> /\ text.der_sha256 = artifact_now.der_sha256
                          /\ text.der_bytes = artifact_now.der_bytes
  BY DEF comparison
<1>7. Matches(artifact_now, text) <=> decoded = "ok" /\ compared = "ok"
  BY <1>3, <1>5, <1>6 DEF Matches
<1>8. CASE decoded # "ok" \/ compared # "ok"
  <2>1. /\ corpus_outcome' \in {decoded, compared} \ {"ok"}
        /\ UNCHANGED <<artifact_at, buffer, accepted>>
    BY <1>1, <1>8 DEF EndCorpus
  <2>2. /\ decoded \in {"ok", "TooLarge", "Malformed", "TrailingData", "WrongLabel"}
        /\ compared \in {"ok", "Size", "Digest"}
    BY DEF decode_pem, comparison
  <2>3. writes = 0 => ~AllMatch
    BY <1>3, <1>4, <1>7, <1>8, Mismatch
  <2>4. writes' = 0 => ~AllMatch'
    BY <1>1, <1>2, <2>3 DEF AllMatch, Matches
  <2>5. CorpusTyped'
    BY <1>1, <1>4, <2>1 DEF CorpusTyped
  <2>6. corpus_outcome' \notin Active \cup {"manifest", "verified", "Io"}
    BY <2>1, <2>2 DEF Active
  <2>7. CorpusProgress'
    BY <2>4, <2>6 DEF CorpusProgress, Active
  <2> QED
    BY <2>5, <2>7 DEF CorpusInv
<1>9. CASE decoded = "ok" /\ compared = "ok"
  <2>1. /\ accepted' = Append(accepted, text) /\ buffer' = NothingRead
        /\ artifact_at' = artifact_at + 1
        /\ corpus_outcome' = IF artifact_at = Len(selected) THEN "verified" ELSE "open"
    BY <1>1, <1>9
  <2>2. /\ Len(selected) \in Nat /\ DOMAIN selected = 1 .. Len(selected)
        /\ selected # <<>> <=> Len(selected) >= 1
    BY <1>4, SelectedIsList
  <2>3. /\ accepted \in Seq(FileContents) /\ Len(accepted) = artifact_at - 1
        /\ \A i \in 1 .. artifact_at - 1 :
             /\ Matches(selected[i], accepted[i])
             /\ writes = 0 => accepted[i] = corpus[selected[i].path]
    BY <1>3 DEF AcceptedUpTo
  <2>4. /\ accepted' \in Seq(FileContents) /\ Len(accepted') = artifact_at
        /\ accepted'[artifact_at] = text
        /\ \A i \in 1 .. artifact_at - 1 : accepted'[i] = accepted[i]
    BY <1>3, <1>4, <2>1, <2>3
  <2>5. \A i \in 1 .. artifact_at : i = artifact_at \/ i \in 1 .. artifact_at - 1
    BY <1>4
  <2>6. \A i \in 1 .. artifact_at :
          /\ Matches(selected[i], accepted'[i])
          /\ writes = 0 => accepted'[i] = corpus[selected[i].path]
    BY <1>3, <1>7, <1>9, <2>3, <2>4, <2>5 DEF artifact_now
  <2>7. ASSUME NEW n, n = artifact_at PROVE AcceptedUpTo(n)'
    BY <1>1, <1>2, <2>4, <2>6, <2>7 DEF AcceptedUpTo, Matches
  <2>8. CorpusTyped'
    <3>1. buffer'.count = 0 /\ input_limit \in Nat
      BY <1>4, <2>1, LengthsFit DEF NothingRead
    <3> QED
      BY <1>1, <1>4, <2>1, <3>1 DEF CorpusTyped
  <2>9. CASE artifact_at = Len(selected)
    <3>1. AcceptedUpTo(Len(selected))'
      BY <1>2, <2>6, <2>7, <2>9, <1>1, <2>4 DEF AcceptedUpTo, Matches
    <3> QED
      BY <1>2, <1>4, <2>1, <2>2, <2>8, <2>9, <3>1 DEF CorpusInv, CorpusProgress, Active
  <2>10. CASE artifact_at # Len(selected)
    <3>1. artifact_at + 1 \in DOMAIN selected /\ artifact_at' - 1 = artifact_at
      BY <1>3, <1>4, <2>1, <2>2, <2>10
    <3>2. AcceptedUpTo(artifact_at - 1)'
      BY <1>1, <1>2, <2>4, <2>6, <3>1 DEF AcceptedUpTo, Matches
    <3> QED
      BY <1>2, <2>1, <2>8, <2>10, <3>1, <3>2 DEF CorpusInv, CorpusProgress, Active
  <2> QED
    BY <2>9, <2>10
<1> QED
  BY <1>8, <1>9

LEMMA CorpusFailsPreserves ==
  ASSUME CorpusInv, CorpusFails
  PROVE  CorpusInv'
<1>1. /\ UNCHANGED <<manifest, corpus, generator, input_limit, writes, artifact_at, buffer, accepted>>
      /\ corpus_outcome' = "Io"
  BY DEF CorpusFails, Inputs, EndCorpus
<1>2. CorpusTyped'
  BY <1>1 DEF CorpusInv, CorpusTyped
<1>3. CorpusProgress'
  BY <1>1 DEF CorpusProgress, Active
<1> QED
  BY <1>2, <1>3 DEF CorpusInv

LEMMA WriteFilePreserves ==
  ASSUME CorpusInv, WriteFile
  PROVE  CorpusInv'
<1>1. PICK path \in DOMAIN corpus, written \in FileContents :
        /\ corpus[path].regular /\ written.regular
        /\ corpus' = [corpus EXCEPT ![path] = written]
  BY DEF WriteFile
<1>2. /\ UNCHANGED <<manifest, generator, input_limit, artifact_at, buffer, accepted, corpus_outcome>>
      /\ corpus_outcome \in Active \cup {"manifest"} /\ writes' = writes + 1
  BY DEF WriteFile, Active
<1>3. CorpusTyped /\ writes' \in Nat /\ writes' # 0
  BY <1>2 DEF CorpusInv, CorpusTyped
<1>4. /\ DOMAIN corpus' = DOMAIN corpus
      /\ \A p \in DOMAIN corpus : corpus'[p] = IF p = path THEN written ELSE corpus[p]
  BY <1>1
<1>5. CorpusTyped'
  BY <1>1, <1>2, <1>3, <1>4 DEF CorpusTyped
<1>6. selected' = selected /\ artifact_now' = artifact_now
  BY <1>2 DEF selected, artifact_now
<1>7. ASSUME NEW n, AcceptedUpTo(n) PROVE AcceptedUpTo(n)'
  BY <1>2, <1>3, <1>6, <1>7 DEF AcceptedUpTo, Matches
<1>8. corpus_outcome = "read" => corpus'[artifact_now.path].regular = TRUE
  <2> SUFFICES ASSUME corpus_outcome = "read" PROVE corpus'[artifact_now.path].regular = TRUE
    OBVIOUS
  <2>1. artifact_at \in DOMAIN selected /\ corpus[artifact_now.path].regular = TRUE
    BY DEF CorpusInv, CorpusProgress, Active
  <2>2. artifact_now.path \in DOMAIN corpus
    <3>1. selected \in Seq({manifest[i] : i \in DOMAIN manifest})
      BY <1>3, CorporaAreTyped DEF CorpusTyped, selected
    <3>2. artifact_now \in {manifest[i] : i \in DOMAIN manifest}
      BY <2>1, <3>1 DEF artifact_now
    <3> QED
      BY <1>3, <3>2 DEF CorpusTyped
  <2> QED
    BY <1>1, <1>4, <2>1, <2>2
<1>9. corpus_outcome \in Active => AcceptedUpTo(artifact_at - 1)'
  <2> SUFFICES ASSUME corpus_outcome \in Active PROVE AcceptedUpTo(artifact_at - 1)'
    OBVIOUS
  <2>1. AcceptedUpTo(artifact_at - 1)
    BY DEF CorpusInv, CorpusProgress
  <2> QED
    BY <1>2, <1>3, <1>6, <2>1 DEF AcceptedUpTo, Matches
<1>10. CorpusProgress'
  BY <1>2, <1>3, <1>6, <1>8, <1>9 DEF CorpusInv, CorpusProgress, Active
<1> QED
  BY <1>5, <1>10 DEF CorpusInv

LEMMA CorpusInductive == CorpusInv /\ [CorpusNext]_corpus_vars => CorpusInv'
<1> SUFFICES ASSUME CorpusInv, [CorpusNext]_corpus_vars PROVE CorpusInv'
  OBVIOUS
<1>1. CASE CorpusNext
  BY <1>1, ReadManifestPreserves, OpenArtifactPreserves, ReadArtifactPreserves,
     CompareArtifactPreserves, CorpusFailsPreserves, WriteFilePreserves DEF CorpusNext
<1>2. CASE UNCHANGED corpus_vars
  <2>1. UNCHANGED <<manifest, corpus, generator, input_limit, artifact_at, buffer, accepted,
                    writes, corpus_outcome>>
    BY <1>2 DEF corpus_vars
  <2>2. selected' = selected /\ artifact_now' = artifact_now /\ CorpusTyped'
    BY <2>1 DEF selected, artifact_now, CorpusInv, CorpusTyped
  <2>3. CorpusProgress'
    BY <2>1, <2>2 DEF CorpusInv, CorpusProgress, AcceptedUpTo, AllMatch, Matches
  <2> QED
    BY <2>2, <2>3 DEF CorpusInv
<1> QED
  BY <1>1, <1>2

\* A corpus is verified only if every selected artifact was read as the manifest
\* says, and every corpus that is as the manifest says is verified when nothing
\* is written and no file fails; no more than one byte over the limit is held.
\* For any manifest, any contents and any limit, the largest included.
THEOREM CorpusIsVerifiedExactly == CorpusSpec => []VerifiedIsExact
<1>1. CorpusInv => VerifiedIsExact
  <2> SUFFICES ASSUME CorpusInv PROVE VerifiedIsExact
    OBVIOUS
  <2>1. /\ Len(selected) \in Nat /\ DOMAIN selected = 1 .. Len(selected)
        /\ selected # <<>> <=> Len(selected) >= 1
    BY SelectedIsList DEF CorpusInv
  <2>2. buffer.count <= input_limit + 1
    BY DEF CorpusInv, CorpusTyped
  <2>3. ASSUME corpus_outcome = "verified"
        PROVE  /\ Len(accepted) = Len(selected) /\ accepted # <<>>
               /\ \A i \in DOMAIN accepted : Matches(selected[i], accepted[i])
               /\ writes = 0 => AllMatch
    <3>1. selected # <<>> /\ AcceptedUpTo(Len(selected))
      BY <2>3 DEF CorpusInv, CorpusProgress
    <3>2. /\ accepted \in Seq(FileContents) /\ Len(accepted) = Len(selected)
          /\ \A i \in 1 .. Len(selected) :
               /\ Matches(selected[i], accepted[i])
               /\ writes = 0 => accepted[i] = corpus[selected[i].path]
      BY <3>1 DEF AcceptedUpTo
    <3>3. DOMAIN accepted = 1 .. Len(selected)
      BY <3>2
    <3>4. accepted # <<>>
      BY <2>1, <3>1, <3>2
    <3>5. writes = 0 => AllMatch
      BY <2>1, <3>1, <3>2 DEF AllMatch
    <3> QED
      BY <3>2, <3>3, <3>4, <3>5
  <2>4. ASSUME CorpusEnded, corpus_outcome # "Io", writes = 0
        PROVE  corpus_outcome = "verified" <=> AllMatch
    BY <2>3, <2>4 DEF CorpusInv, CorpusProgress, CorpusEnded, Active
  <2> QED
    BY <2>2, <2>3, <2>4 DEF VerifiedIsExact, AllMatch
<1> QED
  BY <1>1, CorpusStarts, CorpusInductive, PTL DEF CorpusSpec

-----------------------------------------------------------------------------
(* A pair of certificates *)

\* The four sets of checks that can fail are empty together exactly when every
\* condition is false.
LEMMA NoFailure ==
  ASSUME NEW condition, NEW check
  PROVE  FailingIf(condition, check) = {} <=> ~condition
BY DEF FailingIf

\* The first key is classical, or the second post-quantum, by its algorithm.
LEMMA SecurityIsExact ==
  ASSUME NEW oid
  PROVE  /\ algorithm_security(oid) = "Classical"
              <=> oid \notin {"ml-dsa-44", "ml-dsa-65", "ml-dsa-87", "composite-ml-dsa"}
         /\ algorithm_security(oid) = "PostQuantum"
              <=> oid \in {"ml-dsa-44", "ml-dsa-65", "ml-dsa-87"}
BY DEF algorithm_security, is_ml_dsa_oid, is_composite_mldsa_oid

\* The key usage test of the code is the subset of uses, with its two special
\* cases for an absent extension.
LEMMA KeyUsageIsExact ==
  ASSUME NEW reference, NEW related
  PROVE  key_usage_is_subset(reference, related)
           <=> /\ \A u \in Usages(reference.key_usage) : u \in related.key_usage
               /\ reference.key_usage = {} => related.key_usage # Absent
<1>1. CASE reference.key_usage = Absent
  BY <1>1 DEF key_usage_is_subset, Usages, Absent
<1>2. CASE reference.key_usage # Absent
  <2>1. Usages(reference.key_usage) = reference.key_usage
    BY <1>2 DEF Usages
  <2>2. ASSUME related.key_usage = Absent, reference.key_usage \subseteq related.key_usage
        PROVE  reference.key_usage = {}
    BY <1>2, <2>2 DEF Absent
  <2> QED
    BY <1>2, <2>1, <2>2 DEF key_usage_is_subset
<1> QED
  BY <1>1, <1>2

\* The same for the extended key usage, where any purpose allows every other.
LEMMA PurposesAreExact ==
  ASSUME NEW reference, NEW related
  PROVE  extended_key_usage_is_subset(reference, related)
           <=> /\ \A u \in Usages(reference.purposes) : {u, "any"} \cap related.purposes # {}
               /\ reference.purposes = {} => related.purposes # Absent
<1>1. CASE reference.purposes = Absent
  BY <1>1 DEF extended_key_usage_is_subset, Usages, Absent
<1>2. CASE reference.purposes # Absent
  <2>1. Usages(reference.purposes) = reference.purposes
    BY <1>2 DEF Usages
  <2>2. ASSUME NEW u PROVE {u, "any"} \cap related.purposes # {}
                             <=> u \in related.purposes \/ "any" \in related.purposes
    OBVIOUS
  <2>3. CASE related.purposes = Absent
    <3>1. ASSUME \A u \in reference.purposes : {u, "any"} \cap related.purposes # {}
          PROVE  reference.purposes = {}
      <4>1. "any" \notin related.purposes
        BY <2>3 DEF Absent
      <4>2. reference.purposes \subseteq {"absent"}
        BY <2>2, <2>3, <3>1, <4>1 DEF Absent
      <4> QED
        BY <1>2, <4>2 DEF Absent
    <3> QED
      BY <1>2, <2>1, <2>3, <3>1 DEF extended_key_usage_is_subset
  <2>4. CASE related.purposes # Absent
    BY <1>2, <2>1, <2>2, <2>4 DEF extended_key_usage_is_subset
  <2> QED
    BY <2>3, <2>4
<1> QED
  BY <1>1, <1>2

\* No check fails on a pair read three times the same whose binding was
\* examined without an error exactly when the pair conforms.
LEMMA NoFailureIsConforming ==
  ASSUME NEW reference, NEW related \in Relateds, NEW r,
         r[1] = reference, r[3] = reference, r[5] = reference,
         r[2] = related, r[4] = related, r[6] = related,
         binding_error(reference) = "ok"
  PROVE  conformance_failures(r) = {} <=> Conforming(reference, related)
<1>1. /\ "related" \in reference.extensions
      /\ reference.algorithm \in {"sha256", "sha384", "sha512"}
  BY DEF binding_error
<1>2. hybrid_application_policy_failures(algorithm_security(reference.key_oid),
                                         algorithm_security(related.key_oid),
                                         dns_names_overlap(reference, related)) = {}
        <=> /\ algorithm_security(reference.key_oid) = "Classical"
            /\ algorithm_security(related.key_oid) = "PostQuantum"
            /\ dns_names_overlap(reference, related)
  BY DEF hybrid_application_policy_failures, FailingIf
<1>3. conformance_failures(r) = {}
        <=> /\ binding_holds(reference, related)
            /\ is_end_entity(reference) /\ is_end_entity(related)
            /\ key_usage_is_subset(reference, related)
            /\ extended_key_usage_is_subset(reference, related)
            /\ hybrid_application_policy_failures(algorithm_security(reference.key_oid),
                                                  algorithm_security(related.key_oid),
                                                  dns_names_overlap(reference, related)) = {}
  <2> DEFINE last == hybrid_application_policy_failures(
                       algorithm_security(reference.key_oid), algorithm_security(related.key_oid),
                       dns_names_overlap(reference, related))
  <2>1. conformance_failures(r) =
          FailingIf(~binding_holds(reference, related), "binding")
            \cup FailingIf(~is_end_entity(reference), "extension_in_end_entity")
            \cup FailingIf(~is_end_entity(related), "related_certificate_is_end_entity")
            \cup FailingIf(~key_usage_is_subset(reference, related), "key_usage_subset")
            \cup FailingIf(~extended_key_usage_is_subset(reference, related),
                           "extended_key_usage_subset")
            \cup last
    BY DEF conformance_failures
  <2> HIDE DEF last
  <2>2. conformance_failures(r) = {}
          <=> /\ FailingIf(~binding_holds(reference, related), "binding") = {}
              /\ FailingIf(~is_end_entity(reference), "extension_in_end_entity") = {}
              /\ FailingIf(~is_end_entity(related), "related_certificate_is_end_entity") = {}
              /\ FailingIf(~key_usage_is_subset(reference, related), "key_usage_subset") = {}
              /\ FailingIf(~extended_key_usage_is_subset(reference, related),
                           "extended_key_usage_subset") = {}
              /\ last = {}
    BY <2>1
  <2> QED
    BY <2>2, NoFailure DEF last
<1>4. dns_names_overlap(reference, related) <=> \E name \in reference.dns : name \in related.dns
  BY DEF dns_names_overlap
<1> QED
  BY <1>1, <1>2, <1>3, <1>4, SecurityIsExact, KeyUsageIsExact, PurposesAreExact
  DEF Conforming, binding_holds, is_end_entity

\* A pair with a binding that is an error does not conform.
LEMMA BindingErrorRefutes ==
  ASSUME NEW reference, NEW related \in Relateds, binding_error(reference) # "ok"
  PROVE  ~Conforming(reference, related)
BY DigestsAreWellFormed DEF binding_error, Conforming

\* What the reads have seen: of each file a certificate it may hold, as many as
\* the call is past.
PairTyped ==
  /\ pair \in [reference : References, related : Relateds]
  /\ pair_at \in 0 .. 7
  /\ pair_reads \in Seq(References \cup Relateds)
  /\ Len(pair_reads) = IF pair_at = 0 THEN 0 ELSE pair_at - 1
  /\ \A i \in 1 .. Len(pair_reads) :
       pair_reads[i] \in IF FileOf(i) = "reference" THEN References ELSE Relateds

\* The binding is examined after the second read; a call past it has found no
\* error there, and ends with its error or with the failures of the six reads.
PairProgress ==
  /\ PairRunning /\ pair_at >= 3 => binding_error(pair_reads[1]) = "ok"
  /\ pair_outcome \notin {{"running"}, {"ReadError"}, {"WrongScheme"}} =>
       \/ /\ pair_at = 3
          /\ binding_error(pair_reads[1]) # "ok"
          /\ pair_outcome = {binding_error(pair_reads[1])}
       \/ /\ pair_at = 7
          /\ binding_error(pair_reads[1]) = "ok"
          /\ pair_outcome = conformance_failures(pair_reads)

PairInv == PairTyped /\ PairProgress

LEMMA PairStarts == PairInit => PairInv
BY DEF PairInit, PairInv, PairTyped, PairProgress, PairRunning

LEMMA InspectReferencePreserves == PairInv /\ InspectReference => PairInv'
<1> SUFFICES ASSUME PairInv, InspectReference PROVE PairInv'
  OBVIOUS
<1>1. UNCHANGED <<pair, pair_reads>> /\ pair_at' \in 0 .. 1 /\ Len(pair_reads) = 0 /\ pair_at = 0
  BY DEF InspectReference, EndPair, PairInv, PairTyped
<1>2. PairTyped'
  <2>1. (IF pair_at' = 0 THEN 0 ELSE pair_at' - 1) = 0 /\ pair_at' \in 0 .. 7
    BY <1>1
  <2> QED
    BY <1>1, <2>1 DEF PairInv, PairTyped
<1>3. pair_outcome' \in {{"running"}, {"WrongScheme"}}
  BY DEF InspectReference, EndPair, PairRunning
<1> QED
  BY <1>1, <1>2, <1>3 DEF PairInv, PairProgress, PairRunning

LEMMA ReadCertificatePreserves == PairInv /\ ReadCertificate => PairInv'
<1> SUFFICES ASSUME PairInv, ReadCertificate PROVE PairInv'
  OBVIOUS
<1> DEFINE c == pair[FileOf(pair_at)]
<1>1. /\ pair_at \in 1 .. 6 /\ pair_at' = pair_at + 1 /\ pair' = pair
      /\ pair_reads' = Append(pair_reads, c)
      /\ pair_reads \in Seq(References \cup Relateds) /\ Len(pair_reads) = pair_at - 1
  BY DEF ReadCertificate, PairInv, PairTyped
<1>2. /\ c \in IF FileOf(pair_at) = "reference" THEN References ELSE Relateds
      /\ c \in References \cup Relateds
  BY DEF PairInv, PairTyped, FileOf
<1> HIDE DEF c
<1>3. /\ pair_reads' \in Seq(References \cup Relateds) /\ Len(pair_reads') = pair_at
      /\ pair_reads'[pair_at] = c
      /\ \A i \in 1 .. pair_at - 1 : pair_reads'[i] = pair_reads[i]
  BY <1>1, <1>2
<1>4. PairTyped'
  <2>1. ASSUME NEW i \in 1 .. pair_at
        PROVE  pair_reads'[i] \in IF FileOf(i) = "reference" THEN References ELSE Relateds
    <3>1. CASE i = pair_at
      BY <1>2, <1>3, <3>1
    <3>2. CASE i # pair_at
      <4>1. i \in 1 .. pair_at - 1 /\ i \in 1 .. Len(pair_reads)
        BY <1>1, <3>2
      <4> QED
        BY <1>3, <4>1 DEF PairInv, PairTyped
    <3> QED
      BY <3>1, <3>2
  <2> QED
    BY <1>1, <1>3, <2>1 DEF PairInv, PairTyped
<1>5. pair_at >= 2 => pair_reads'[1] = pair_reads[1]
  BY <1>1, <1>3
<1>6. CASE pair_at = 2 /\ binding_error(pair_reads[1]) # "ok"
  <2>1. pair_outcome' = {binding_error(pair_reads[1])}
    BY <1>6 DEF ReadCertificate
  <2>2. binding_error(pair_reads[1]) # "running"
    BY DEF binding_error
  <2> QED
    BY <1>1, <1>4, <1>5, <1>6, <2>1, <2>2 DEF PairInv, PairProgress, PairRunning
<1>7. CASE ~(pair_at = 2 /\ binding_error(pair_reads[1]) # "ok")
  <2>1. pair_outcome' = {"running"} /\ PairRunning
    BY <1>7 DEF ReadCertificate, PairRunning
  <2> QED
    BY <1>1, <1>4, <1>5, <1>7, <2>1 DEF PairInv, PairProgress
<1> QED
  BY <1>6, <1>7

LEMMA ReadFailsPreserves == PairInv /\ ReadFails => PairInv'
BY DEF PairInv, PairTyped, PairProgress, PairRunning, ReadFails, EndPair

LEMMA ConcludePreserves == PairInv /\ Conclude => PairInv'
<1> SUFFICES ASSUME PairInv, Conclude PROVE PairInv'
  OBVIOUS
<1>1. /\ UNCHANGED <<pair, pair_at, pair_reads>> /\ pair_at = 7 /\ PairRunning
      /\ pair_outcome' = conformance_failures(pair_reads)
  BY DEF Conclude, EndPair
<1>2. conformance_failures(pair_reads)' = conformance_failures(pair_reads)
  BY <1>1 DEF conformance_failures
<1>3. PairTyped'
  BY <1>1 DEF PairInv, PairTyped
<1>4. binding_error(pair_reads[1]) = "ok"
  BY <1>1 DEF PairInv, PairProgress
<1> QED
  BY <1>1, <1>2, <1>3, <1>4 DEF PairInv, PairProgress

LEMMA ReplaceCertificatePreserves == PairInv /\ ReplaceCertificate => PairInv'
<1> SUFFICES ASSUME PairInv, ReplaceCertificate PROVE PairInv'
  OBVIOUS
<1>1. PICK file \in {"reference", "related"} :
        \E c \in IF file = "reference" THEN References ELSE Relateds :
          pair' = [pair EXCEPT ![file] = c]
  BY DEF ReplaceCertificate
<1>2. pair' \in [reference : References, related : Relateds]
  BY <1>1 DEF PairInv, PairTyped
<1>3. UNCHANGED <<pair_at, pair_reads, pair_outcome>>
  BY DEF ReplaceCertificate
<1> QED
  BY <1>2, <1>3 DEF PairInv, PairTyped, PairProgress, PairRunning

LEMMA PairInductive == PairInv /\ [PairNext]_pair_vars => PairInv'
<1> SUFFICES ASSUME PairInv, [PairNext]_pair_vars PROVE PairInv'
  OBVIOUS
<1>1. CASE PairNext
  BY <1>1, InspectReferencePreserves, ReadCertificatePreserves, ReadFailsPreserves,
     ConcludePreserves, ReplaceCertificatePreserves DEF PairNext
<1>2. CASE UNCHANGED pair_vars
  BY <1>2 DEF pair_vars, PairInv, PairTyped, PairProgress, PairRunning
<1> QED
  BY <1>1, <1>2

\* The verdict of a pair is exact whenever the reads of each file saw one
\* certificate: for any certificates and any number of replacements.
THEOREM ConformanceIsExactAlways == PairSpec => []ConformanceIsExact
<1>1. PairInv => ConformanceIsExact
  <2> SUFFICES ASSUME PairInv,
                      pair_outcome \notin {{"running"}, {"ReadError"}, {"WrongScheme"}},
                      \A i, j \in DOMAIN pair_reads :
                        FileOf(i) = FileOf(j) => pair_reads[i] = pair_reads[j]
               PROVE  pair_outcome = {} <=> Conforming(pair_reads[1], pair_reads[2])
    BY DEF ConformanceIsExact
  <2>1. FileOf(1) = "reference" /\ FileOf(2) = "related"
    BY DEF FileOf
  <2>2. /\ DOMAIN pair_reads = 1 .. Len(pair_reads)
        /\ Len(pair_reads) = IF pair_at = 0 THEN 0 ELSE pair_at - 1
    BY DEF PairInv, PairTyped
  <2>3. CASE pair_at = 3 /\ binding_error(pair_reads[1]) # "ok"
               /\ pair_outcome = {binding_error(pair_reads[1])}
    <3>1. 2 \in 1 .. Len(pair_reads)
      BY <2>2, <2>3
    <3>2. pair_reads[2] \in Relateds
      BY <2>1, <3>1 DEF PairInv, PairTyped
    <3> QED
      BY <2>3, <3>2, BindingErrorRefutes
  <2>4. CASE pair_at = 7 /\ binding_error(pair_reads[1]) = "ok"
               /\ pair_outcome = conformance_failures(pair_reads)
    <3>1. Len(pair_reads) = 6 /\ DOMAIN pair_reads = 1 .. 6
      BY <2>2, <2>4
    <3>2. pair_reads[2] \in Relateds
      <4>1. 2 \in 1 .. Len(pair_reads)
        BY <3>1
      <4> QED
        BY <2>1, <4>1 DEF PairInv, PairTyped
    <3>3. /\ FileOf(3) = "reference" /\ FileOf(5) = "reference"
          /\ FileOf(4) = "related" /\ FileOf(6) = "related"
      BY DEF FileOf
    <3>4. /\ pair_reads[3] = pair_reads[1] /\ pair_reads[5] = pair_reads[1]
          /\ pair_reads[4] = pair_reads[2] /\ pair_reads[6] = pair_reads[2]
      BY <2>1, <3>1, <3>3
    <3> QED
      BY <2>4, <3>2, <3>4, NoFailureIsConforming
  <2> QED
    BY <2>3, <2>4 DEF PairInv, PairProgress
<1> QED
  BY <1>1, PairStarts, PairInductive, PTL DEF PairSpec

-----------------------------------------------------------------------------
(* Rows, adapters and the numbers of the commands *)

LEMMA AdaptersAreListed ==
  /\ Len(Adapters) = 15 /\ DOMAIN Adapters = 1 .. 15
  /\ \A j \in 1 .. 15 : Adapters[j] \in Range(Adapters)
BY DEF Adapters, Range

LEMMA RowsAreListed == Len(Rows) = 23 /\ DOMAIN Rows = 1 .. 23
<1>1. Len(CASES) = 7
  BY DEF CASES
<1> QED
  BY <1>1 DEF Rows

LEMMA TagsAreListed ==
  /\ Len(SortedTags) \in Nat /\ DOMAIN SortedTags = 1 .. Len(SortedTags)
  /\ \A i \in 1 .. Len(SortedTags) : SortedTags[i] \in Range(SortedTags)
  /\ \A tag \in Range(SortedTags) : \E i \in 1 .. Len(SortedTags) : SortedTags[i] = tag
BY TagsAreConfigured DEF Range

\* Three git commands, one inspection for each tag, and 23 rows of 15 runs.
LEMMA CommandsAreNumbered ==
  /\ FirstRun \in Nat /\ FirstRun = 4 + Len(SortedTags)
  /\ AllRuns = 345 /\ End \in Nat /\ End = FirstRun + 345
BY TagsAreListed, RowsAreListed, AdaptersAreListed DEF FirstRun, AllRuns, End, RecordedImages

\* Where a run is in its row.
Index(n) == ((n - FirstRun) % 15) + 1
RowIndex(n) == ((n - FirstRun) \div 15) + 1

\* Every run is of a row, with an adapter whose image has a tag.
LEMMA RunsAreOfAdapters ==
  ASSUME NEW n \in FirstRun .. End - 1
  PROVE  /\ Index(n) \in 1 .. 15 /\ RowIndex(n) \in 1 .. 23
         /\ n = FirstRun + 15 * (RowIndex(n) - 1) + Index(n) - 1
         /\ AdapterAt(n) = Adapters[Index(n)] /\ RowAt(n) = Rows[RowIndex(n)]
         /\ TagAt(n) = ImageOf[Adapters[Index(n)][2]] /\ TagAt(n) \in Range(SortedTags)
<1>1. n \in Int /\ FirstRun \in Int /\ n - FirstRun \in Int /\ n - FirstRun >= 0
      /\ n - FirstRun <= 344
  <2>1. FirstRun \in Int /\ End - 1 \in Int /\ End - 1 = FirstRun + 344
    BY CommandsAreNumbered
  <2> QED
    BY <2>1
<1>2. /\ Index(n) \in 1 .. 15 /\ RowIndex(n) \in 1 .. 23
      /\ n = FirstRun + 15 * (RowIndex(n) - 1) + Index(n) - 1
  <2> DEFINE d == n - FirstRun
  <2>1. d \in Int /\ d >= 0 /\ d <= 344 /\ n = FirstRun + d
    BY <1>1
  <2> HIDE DEF d
  <2>2. /\ (d % 15) + 1 \in 1 .. 15 /\ (d \div 15) + 1 \in 1 .. 23
        /\ d = 15 * (((d \div 15) + 1) - 1) + ((d % 15) + 1) - 1
    BY <2>1
  <2> QED
    BY <1>1, <2>1, <2>2 DEF Index, RowIndex, d
<1>3. AdapterAt(n) = Adapters[Index(n)] /\ RowAt(n) = Rows[RowIndex(n)]
  BY AdaptersAreListed DEF AdapterAt, RowAt, Index, RowIndex
<1>4. Adapters[Index(n)][2] \in DOMAIN ImageOf
  BY <1>2, AdaptersAreListed, TagsAreConfigured
<1>5. ImageOf[Adapters[Index(n)][2]] \in Range(SortedTags)
  BY <1>4, TagsAreConfigured DEF Range
<1> QED
  BY <1>2, <1>3, <1>5 DEF TagAt

\* Every adapter is run in every row.
LEMMA EveryAdapterRuns ==
  ASSUME NEW i \in 1 .. 23, NEW j \in 1 .. 15
  PROVE  LET n == FirstRun + 15 * (i - 1) + j - 1 IN
         /\ n \in FirstRun .. End - 1 /\ RowIndex(n) = i /\ Index(n) = j
BY CommandsAreNumbered DEF Index, RowIndex

\* A tag is that of an adapter, so it is run.
LEMMA EveryTagRuns ==
  ASSUME NEW tag \in Range(SortedTags)
  PROVE  \E n \in FirstRun .. End - 1 : TagAt(n) = tag
<1>1. PICK j \in 1 .. 15 : ImageOf[Adapters[j][2]] = tag
  <2>1. tag \in {ImageOf[image] : image \in DOMAIN ImageOf}
    BY TagsAreConfigured, Zenon DEF Range
  <2>2. PICK image \in DOMAIN ImageOf : ImageOf[image] = tag
    BY <2>1, Zenon
  <2>3. PICK adapter \in Range(Adapters) : adapter[2] = image
    BY <2>2, TagsAreConfigured, Zenon
  <2>4. PICK j \in DOMAIN Adapters : Adapters[j] = adapter
    BY <2>3, Zenon DEF Range
  <2>5. j \in 1 .. 15
    BY <2>4, AdaptersAreListed, Zenon
  <2> QED
    BY <2>2, <2>3, <2>4, <2>5, Zenon
<1> DEFINE n == FirstRun + 15 * (1 - 1) + j - 1
<1>2. n \in FirstRun .. End - 1 /\ Index(n) = j
  BY EveryAdapterRuns
<1> HIDE DEF n
<1> QED
  BY <1>1, <1>2, RunsAreOfAdapters

\* A tag is inspected once, at its place in the order.
LEMMA InspectionIsPlace ==
  ASSUME NEW i \in 1 .. Len(SortedTags)
  PROVE  InspectionOf(SortedTags[i]) = i
<1>1. \A n \in 1 .. Len(SortedTags) : SortedTags[n] = SortedTags[i] => n = i
  BY TagsAreConfigured, TagsAreListed
<1> QED
  BY <1>1 DEF InspectionOf

-----------------------------------------------------------------------------
(* The invariant *)

\* No change is later than now.
Past(changes, now) == \A d \in changes : d[2] \in 1 .. now

\* Nothing changed yet at a command that is still to come.
MatrixTyped ==
  /\ matrix_at \in 1 .. End
  /\ head \in Nat
  /\ content \in [Range(SortedTags) -> Range(content)]
  /\ ran \in [Range(SortedTags) -> Range(ran)]
  /\ provenance = [commit |-> provenance.commit, tree |-> provenance.tree,
                   clean |-> provenance.clean, images |-> provenance.images]
  /\ provenance.commit \in Nat
  /\ Past(disturbances, matrix_at)
  /\ Reported => matrix_at = End

\* A commit between the two git commands is the only way to tell them apart.
SourceInv ==
  /\ matrix_at >= 2 => provenance.commit <= head
  /\ matrix_at = 2 => (provenance.commit = head <=> ~Between(disturbances, "commit", 2, 2))
  /\ matrix_at >= 3 => (provenance.commit = provenance.tree
                          <=> ~Between(disturbances, "commit", 2, 2))
  /\ matrix_at >= 4 /\ publication => provenance.clean

\* What is known of a tag once it was inspected, as the n-th: it names another
\* image when its last move was away, and another image was run under it when
\* that was so at one of its runs.
RanAway(changes, tag, image, n, now) ==
  \E m \in FirstRun .. now - 1 : TagAt(m) = tag /\ MovedAway(changes, tag, image, n + 4, m)

TagInv(tag, n) ==
  LET image == provenance.images[tag] IN
  /\ content[tag] # image <=> MovedAway(disturbances, tag, image, n + 4, matrix_at)
  /\ ran[tag] \subseteq {image} <=> ~RanAway(disturbances, tag, image, n, matrix_at)
  /\ (\E m \in FirstRun .. matrix_at - 1 : TagAt(m) = tag) => ran[tag] # {}

ImagesInv ==
  /\ DOMAIN provenance.images
       = {SortedTags[n] : n \in {m \in 1 .. Len(SortedTags) : m + 4 <= matrix_at}}
  /\ matrix_at <= FirstRun => \A tag \in Range(SortedTags) : ran[tag] = {}
  /\ \A n \in 1 .. Len(SortedTags) : n + 4 <= matrix_at => TagInv(SortedTags[n], n)

ProvenanceInv == MatrixTyped /\ SourceInv /\ ImagesInv

LEMMA ProvenanceStarts == MatrixInit => ProvenanceInv
<1> SUFFICES ASSUME MatrixInit PROVE ProvenanceInv
  OBVIOUS
<1>1. matrix_at = 1 /\ 1 \in 1 .. End
  BY CommandsAreNumbered DEF MatrixInit
<1>2. content \in [Range(SortedTags) -> Range(content)]
  BY TagsAreConfigured DEF MatrixInit
<1>3. ran \in [Range(SortedTags) -> Range(ran)] /\ \A tag \in Range(SortedTags) : ran[tag] = {}
  BY DEF MatrixInit, Range
<1>4. /\ provenance.commit = 0 /\ provenance.images = << >>
      /\ provenance = [commit |-> provenance.commit, tree |-> provenance.tree,
                       clean |-> provenance.clean, images |-> provenance.images]
  BY DEF MatrixInit
<1>5. MatrixTyped
  BY <1>1, <1>2, <1>3, <1>4 DEF MatrixTyped, MatrixInit, Reported, Past
<1>6. SourceInv
  BY <1>1 DEF SourceInv
<1>7. ImagesInv
  <2>1. DOMAIN provenance.images = {}
    BY <1>4
  <2>2. {m \in 1 .. Len(SortedTags) : m + 4 <= matrix_at} = {}
    BY <1>1, TagsAreListed
  <2>3. \A n \in 1 .. Len(SortedTags) : ~(n + 4 <= matrix_at)
    BY <1>1, TagsAreListed
  <2> QED
    BY <1>3, <2>1, <2>2, <2>3 DEF ImagesInv
<1> QED
  BY <1>5, <1>6, <1>7 DEF ProvenanceInv

\* At the next command a tag names what it names now.
LEMMA AwayAdvances ==
  ASSUME NEW changes, NEW now \in Nat, Past(changes, now), NEW tag, NEW image, NEW first \in Int
  PROVE  /\ now < first => ~MovedAway(changes, tag, image, first, now + 1)
         /\ MovedAway(changes, tag, image, first, now + 1)
              <=> MovedAway(changes, tag, image, first, now)
<1>1. \A d \in changes : d[2] \in Int /\ d[2] <= now
  BY DEF Past
<1>2. \A k \in Int : Between(changes, tag, k, now + 1) <=> Between(changes, tag, k, now)
  BY <1>1 DEF Between
<1>3. \A d \in changes : d[2] \in first .. now + 1 <=> d[2] \in first .. now
  BY <1>1
<1>4. MovedAway(changes, tag, image, first, now + 1)
        <=> MovedAway(changes, tag, image, first, now)
  BY <1>1, <1>2, <1>3 DEF MovedAway
<1> QED
  BY <1>3, <1>4 DEF MovedAway

\* A change says nothing of the commands before it, nor of anything else.
LEMMA AwayElsewhere ==
  ASSUME NEW changes, NEW now \in Int, NEW what, NEW to, NEW tag, NEW image,
         NEW first \in Int, NEW m \in Int, m < now \/ tag # what
  PROVE  MovedAway(changes \cup {<<what, now, to>>}, tag, image, first, m)
           <=> MovedAway(changes, tag, image, first, m)
<1> DEFINE d == <<what, now, to>>
           more == changes \cup {d}
<1>1. d[1] = what /\ d[2] = now /\ d[3] = to
  OBVIOUS
<1> HIDE DEF d
<1>2. \A k : ~(d[1] = tag /\ d[2] \in k .. m)
  BY <1>1
<1>3. \A k : Between(more, tag, k, m) <=> Between(changes, tag, k, m)
  BY <1>2 DEF Between
<1>4. MovedAway(more, tag, image, first, m) <=> MovedAway(changes, tag, image, first, m)
  BY <1>2, <1>3 DEF MovedAway
<1> QED
  BY <1>4 DEF d

\* After its first change before a command, a tag names what it was moved to.
LEMMA AwayNow ==
  ASSUME NEW changes, NEW now \in Nat, Past(changes, now), NEW tag, NEW to, NEW image,
         NEW first \in Int, first <= now, ~Between(changes, tag, now, now)
  PROVE  MovedAway(changes \cup {<<tag, now, to>>}, tag, image, first, now) <=> to # image
<1> DEFINE d == <<tag, now, to>>
           more == changes \cup {d}
<1>1. d[1] = tag /\ d[2] = now /\ d[3] = to
  OBVIOUS
<1> HIDE DEF d
<1>2. ASSUME NEW e \in changes, e[1] = tag
      PROVE  e[2] \in Int /\ e[2] + 1 <= now
  <2>1. e[2] \in Int /\ e[2] <= now
    BY DEF Past
  <2>2. e[2] # now
    BY <1>2, <2>1 DEF Between
  <2> QED
    BY <2>1, <2>2
<1>3. ASSUME NEW e \in changes, e[1] = tag PROVE Between(more, tag, e[2] + 1, now)
  <2>1. d[2] \in e[2] + 1 .. now
    BY <1>1, <1>2, <1>3
  <2> QED
    BY <1>1, <2>1 DEF Between
<1>4. ~Between(more, tag, now + 1, now)
  <2>1. now + 1 .. now = {}
    OBVIOUS
  <2> QED
    BY <2>1 DEF Between
<1>5. d[2] \in first .. now
  BY <1>1
<1>6. MovedAway(more, tag, image, first, now) <=> to # image
  BY <1>1, <1>3, <1>4, <1>5 DEF MovedAway
<1> QED
  BY <1>6 DEF d

LEMMA RevParsePreserves == ProvenanceInv /\ RevParse => ProvenanceInv'
<1> SUFFICES ASSUME ProvenanceInv, RevParse PROVE ProvenanceInv'
  OBVIOUS
<1>1. /\ matrix_at \in {1, 2} /\ matrix_at' = matrix_at + 1
      /\ UNCHANGED <<publication, head, clean, content, disturbances, ran, matrix_outcome>>
      /\ provenance' = IF matrix_at = 1 THEN [provenance EXCEPT !.commit = head]
                                        ELSE [provenance EXCEPT !.tree = head]
  BY DEF RevParse, Environment, Proceed
<1>2. /\ provenance = [commit |-> provenance.commit, tree |-> provenance.tree,
                       clean |-> provenance.clean, images |-> provenance.images]
      /\ head \in Nat /\ provenance.commit \in Nat /\ matrix_at \in Int
      /\ Past(disturbances, matrix_at)
  BY <1>1 DEF ProvenanceInv, MatrixTyped
<1>3. /\ provenance' = [commit |-> provenance'.commit, tree |-> provenance'.tree,
                        clean |-> provenance'.clean, images |-> provenance'.images]
      /\ provenance'.commit = IF matrix_at = 1 THEN head ELSE provenance.commit
      /\ matrix_at = 2 => provenance'.tree = head
      /\ provenance'.images = provenance.images
  BY <1>1, <1>2
<1>4. Past(disturbances, matrix_at)'
  BY <1>1, <1>2 DEF Past
<1>5. MatrixTyped'
  <2>1. matrix_at' \in 1 .. End /\ ~Reported
    BY <1>1, CommandsAreNumbered DEF RevParse, MatrixRunning, Reported
  <2> QED
    BY <1>1, <1>2, <1>3, <1>4, <2>1 DEF ProvenanceInv, MatrixTyped, Reported
<1>6. SourceInv'
  <2>1. matrix_at = 1 => ~Between(disturbances, "commit", 2, 2)
    BY <1>2 DEF Past, Between
  <2> QED
    BY <1>1, <1>2, <1>3, <2>1 DEF ProvenanceInv, SourceInv
<1>7. ImagesInv'
  <2>1. \A n \in 1 .. Len(SortedTags) : ~(n + 4 <= matrix_at) /\ ~(n + 4 <= matrix_at')
    BY <1>1, TagsAreListed
  <2>2. matrix_at <= FirstRun
    BY <1>1, TagsAreListed, CommandsAreNumbered
  <2> QED
    BY <1>1, <1>3, <2>1, <2>2 DEF ProvenanceInv, ImagesInv
<1> QED
  BY <1>5, <1>6, <1>7 DEF ProvenanceInv

\* An ended call keeps what it has.
LEMMA EndMatrixPreserves ==
  ASSUME ProvenanceInv, NEW result, EndMatrix(result), UNCHANGED Environment,
         result = "reported" => matrix_at = End
  PROVE  ProvenanceInv'
<1>1. UNCHANGED <<publication, head, clean, content, disturbances, matrix_at, provenance, ran>>
      /\ matrix_outcome' = result
  BY DEF EndMatrix, Environment
<1>2. MatrixTyped' /\ SourceInv'
  BY <1>1 DEF ProvenanceInv, MatrixTyped, SourceInv, Reported
<1>3. \A n : TagInv(SortedTags[n], n) => TagInv(SortedTags[n], n)'
  BY <1>1 DEF TagInv
<1>4. ImagesInv'
  BY <1>1, <1>3 DEF ProvenanceInv, ImagesInv
<1> QED
  BY <1>2, <1>4 DEF ProvenanceInv

LEMMA StatusPreserves == ProvenanceInv /\ Status => ProvenanceInv'
<1> SUFFICES ASSUME ProvenanceInv, Status PROVE ProvenanceInv'
  OBVIOUS
<1>1. CASE ~ensure_publication_source_clean(clean)
  BY <1>1, EndMatrixPreserves DEF Status
<1>2. CASE ensure_publication_source_clean(clean)
  <2>1. /\ matrix_at = 3 /\ matrix_at' = 4 /\ ~Reported
        /\ UNCHANGED <<publication, head, clean, content, disturbances, ran, matrix_outcome>>
        /\ provenance' = [provenance EXCEPT !.clean = clean]
    BY <1>2 DEF Status, Environment, Proceed, MatrixRunning, Reported
  <2>2. /\ provenance = [commit |-> provenance.commit, tree |-> provenance.tree,
                         clean |-> provenance.clean, images |-> provenance.images]
        /\ Past(disturbances, matrix_at)
    BY DEF ProvenanceInv, MatrixTyped
  <2>3. /\ provenance' = [commit |-> provenance'.commit, tree |-> provenance'.tree,
                          clean |-> provenance'.clean, images |-> provenance'.images]
        /\ provenance'.commit = provenance.commit /\ provenance'.tree = provenance.tree
        /\ provenance'.images = provenance.images /\ provenance'.clean = clean
    BY <2>1, <2>2
  <2>4. MatrixTyped'
    <3>1. matrix_at' \in 1 .. End
      BY <2>1, CommandsAreNumbered
    <3>2. Past(disturbances, matrix_at)'
      BY <2>1, <2>2 DEF Past
    <3> QED
      BY <2>1, <2>3, <3>1, <3>2 DEF ProvenanceInv, MatrixTyped, Reported
  <2>5. SourceInv'
    BY <1>2, <2>1, <2>3 DEF ProvenanceInv, SourceInv, ensure_publication_source_clean
  <2>6. ImagesInv'
    <3>1. \A n \in 1 .. Len(SortedTags) : ~(n + 4 <= matrix_at) /\ ~(n + 4 <= matrix_at')
      BY <2>1, TagsAreListed
    <3>2. matrix_at <= FirstRun
      BY <2>1, TagsAreListed, CommandsAreNumbered
    <3> QED
      BY <2>1, <2>3, <3>1, <3>2 DEF ProvenanceInv, ImagesInv
  <2> QED
    BY <2>4, <2>5, <2>6 DEF ProvenanceInv
<1> QED
  BY <1>1, <1>2

\* A tag is inspected once.
LEMMA InspectImagePreserves == ProvenanceInv /\ InspectImage => ProvenanceInv'
<1> SUFFICES ASSUME ProvenanceInv, InspectImage PROVE ProvenanceInv'
  OBVIOUS
<1>0. PICK k \in 1 .. Len(SortedTags) : matrix_at = k + 3
  <2>1. matrix_at \in 4 .. FirstRun - 1
    BY DEF InspectImage
  <2>2. matrix_at - 3 \in 1 .. Len(SortedTags) /\ matrix_at = (matrix_at - 3) + 3
    <3>1. FirstRun - 1 = Len(SortedTags) + 3 /\ FirstRun - 1 \in Int /\ Len(SortedTags) \in Nat
      BY CommandsAreNumbered, TagsAreListed
    <3> QED
      BY <2>1, <3>1
  <2> QED
    BY <2>2
<1> DEFINE tag == SortedTags[k]
<1>1. /\ matrix_at \in 4 .. FirstRun - 1 /\ matrix_at' = matrix_at + 1 /\ ~Reported
      /\ UNCHANGED <<publication, head, clean, content, disturbances, ran, matrix_outcome>>
      /\ provenance' = [provenance EXCEPT !.images = Remember(@, tag, content[tag])]
  <2>1. matrix_at - 3 = k
    BY <1>0, TagsAreListed
  <2> QED
    BY <2>1 DEF InspectImage, Environment, Proceed, MatrixRunning, Reported, RecordedImages
<1>2. /\ k \in 1 .. Len(SortedTags) /\ matrix_at = k + 3 /\ matrix_at' = k + 4
      /\ matrix_at \in Int /\ matrix_at' \in 1 .. End /\ matrix_at' <= FirstRun
  <2>1. FirstRun \in Int /\ FirstRun - 1 = Len(SortedTags) + 3 /\ Len(SortedTags) \in Nat
        /\ FirstRun < End /\ End \in Int
    BY CommandsAreNumbered, TagsAreListed
  <2> QED
    BY <1>0, <1>1, <2>1
<1>3. MatrixTyped
  BY DEF ProvenanceInv
<1>4. /\ provenance' = [commit |-> provenance'.commit, tree |-> provenance'.tree,
                        clean |-> provenance'.clean, images |-> provenance'.images]
      /\ provenance'.commit = provenance.commit /\ provenance'.tree = provenance.tree
      /\ provenance'.clean = provenance.clean
      /\ provenance'.images = Remember(provenance.images, tag, content[tag])
  BY <1>1, <1>3 DEF MatrixTyped
<1> HIDE DEF tag
<1>5. MatrixTyped'
  <2>1. Past(disturbances, matrix_at)'
    BY <1>1, <1>2, <1>3 DEF MatrixTyped, Past
  <2> QED
    BY <1>1, <1>2, <1>3, <1>4, <2>1 DEF MatrixTyped, Reported
<1>6. SourceInv'
  BY <1>1, <1>2, <1>4 DEF ProvenanceInv, SourceInv
<1>7. \A n \in 1 .. Len(SortedTags) : /\ n + 4 <= matrix_at <=> n < k
                                      /\ n + 4 <= matrix_at' <=> n < k \/ n = k
  BY <1>2, TagsAreListed
<1>8. \A n \in 1 .. Len(SortedTags) : SortedTags[n] = tag => n = k
  BY <1>2, TagsAreConfigured, TagsAreListed DEF tag
<1>9. DOMAIN provenance.images = {SortedTags[n] : n \in {m \in 1 .. Len(SortedTags) : m < k}}
  BY <1>7 DEF ProvenanceInv, ImagesInv
<1>10. tag \notin DOMAIN provenance.images
  <2>1. k \in Int
    BY <1>2
  <2> QED
    BY <1>8, <1>9, <2>1
<1>11. /\ DOMAIN provenance'.images = DOMAIN provenance.images \cup {tag}
       /\ \A t \in DOMAIN provenance.images : provenance'.images[t] = provenance.images[t]
       /\ provenance'.images[tag] = content[tag]
  BY <1>4, <1>10 DEF Remember
<1>12. DOMAIN provenance'.images
         = {SortedTags[n] : n \in {m \in 1 .. Len(SortedTags) : m + 4 <= matrix_at'}}
  BY <1>2, <1>7, <1>9, <1>11 DEF tag
<1>13. \A t \in Range(SortedTags) : ran'[t] = {} /\ ran[t] = {}
  <2>1. matrix_at <= FirstRun
    BY <1>1, <1>2, CommandsAreNumbered
  <2> QED
    BY <1>1, <2>1 DEF ProvenanceInv, ImagesInv
<1>17. FirstRun .. matrix_at - 1 = {} /\ FirstRun .. matrix_at' - 1 = {}
  <2>1. FirstRun \in Int /\ matrix_at <= FirstRun
    BY <1>1, <1>2, CommandsAreNumbered
  <2> QED
    BY <1>2, <2>1
<1>14. ASSUME NEW n \in 1 .. Len(SortedTags), n < k PROVE TagInv(SortedTags[n], n)'
  <2> DEFINE t == SortedTags[n]
  <2>1. TagInv(t, n) /\ t \in DOMAIN provenance.images
    BY <1>7, <1>9, <1>14 DEF ProvenanceInv, ImagesInv
  <2>2. provenance'.images[t] = provenance.images[t]
    BY <1>11, <2>1
  <2>3. t \in Range(SortedTags) /\ n + 4 \in Int /\ matrix_at \in Nat
        /\ Past(disturbances, matrix_at)
    BY <1>2, <1>3, TagsAreListed DEF MatrixTyped
  <2> HIDE DEF t
  <2>4. \A image : MovedAway(disturbances, t, image, n + 4, matrix_at + 1)
                     <=> MovedAway(disturbances, t, image, n + 4, matrix_at)
    BY <2>3, AwayAdvances
  <2>5. ran'[t] = ran[t] /\ ran[t] = {}
    BY <1>13, <2>3
  <2>6. TagInv(t, n)'
    BY <1>1, <1>17, <2>1, <2>2, <2>4, <2>5 DEF TagInv, RanAway
  <2> QED
    BY <2>6 DEF t
<1>15. TagInv(tag, k)'
  <2>1. tag \in Range(SortedTags) /\ k + 4 \in Int /\ matrix_at \in Nat /\ matrix_at < k + 4
        /\ Past(disturbances, matrix_at)
    BY <1>2, <1>3, TagsAreListed DEF tag, MatrixTyped
  <2>2. ~MovedAway(disturbances, tag, content[tag], k + 4, matrix_at + 1)
    BY <2>1, AwayAdvances
  <2>3. ran'[tag] = {}
    BY <1>13, <2>1
  <2> QED
    BY <1>1, <1>11, <1>17, <2>2, <2>3 DEF TagInv, RanAway
<1>16. ImagesInv'
  <2>1. ASSUME NEW n \in 1 .. Len(SortedTags), n + 4 <= matrix_at' PROVE TagInv(SortedTags[n], n)'
    <3>1. CASE n < k
      BY <1>14, <3>1
    <3>2. CASE n = k
      BY <1>15, <3>2 DEF tag
    <3> QED
      BY <1>7, <2>1, <3>1, <3>2
  <2> QED
    BY <1>12, <1>13, <2>1 DEF ImagesInv
<1> QED
  BY <1>5, <1>6, <1>16 DEF ProvenanceInv

\* A run adds what its tag names now to what was run under it.
LEMMA RunCasePreserves == ProvenanceInv /\ RunCase => ProvenanceInv'
<1> SUFFICES ASSUME ProvenanceInv, RunCase PROVE ProvenanceInv'
  OBVIOUS
<1>0. PICK tag \in Range(SortedTags) : tag = TagAt(matrix_at)
  BY RunsAreOfAdapters DEF RunCase
<1>1. /\ matrix_at \in FirstRun .. End - 1 /\ matrix_at' = matrix_at + 1 /\ ~Reported
      /\ UNCHANGED <<publication, head, clean, content, disturbances, provenance,
                     matrix_outcome>>
      /\ ran' = [ran EXCEPT ![tag] = @ \cup {content[tag]}]
  BY <1>0 DEF RunCase, Environment, MatrixRunning, Reported
<1>2. /\ matrix_at \in Int /\ matrix_at' \in 1 .. End /\ FirstRun \in Int /\ End \in Int
      /\ matrix_at >= FirstRun /\ FirstRun >= 4
  <2>1. FirstRun \in Int /\ End \in Int /\ FirstRun >= 4
    BY CommandsAreNumbered, TagsAreListed
  <2> QED
    BY <1>1, <2>1
<1>3. MatrixTyped
  BY DEF ProvenanceInv
<1>4. /\ DOMAIN ran = Range(SortedTags) /\ DOMAIN ran' = Range(SortedTags)
      /\ ran'[tag] = ran[tag] \cup {content[tag]}
      /\ \A t \in Range(SortedTags) : t # tag => ran'[t] = ran[t]
  BY <1>1, <1>3 DEF MatrixTyped
<1>5. MatrixTyped'
  <2>1. Past(disturbances, matrix_at)'
    BY <1>1, <1>2, <1>3 DEF MatrixTyped, Past
  <2>2. ran' \in [Range(SortedTags) -> Range(ran')]
    BY <1>1, <1>3, <1>4 DEF MatrixTyped, Range
  <2> QED
    BY <1>1, <1>2, <1>3, <2>1, <2>2 DEF MatrixTyped, Reported
<1>6. SourceInv'
  BY <1>1, <1>2 DEF ProvenanceInv, SourceInv
<1>7. /\ \A n \in 1 .. Len(SortedTags) : n + 4 <= matrix_at /\ n + 4 <= matrix_at'
      /\ ~(matrix_at' <= FirstRun)
  <2>1. FirstRun = 4 + Len(SortedTags) /\ Len(SortedTags) \in Nat
    BY CommandsAreNumbered, TagsAreListed
  <2> QED
    BY <1>1, <1>2, <2>1
<1>8. ASSUME NEW n \in 1 .. Len(SortedTags) PROVE TagInv(SortedTags[n], n)'
  <2> DEFINE t == SortedTags[n]
  <2>1. TagInv(t, n)
    BY <1>7 DEF ProvenanceInv, ImagesInv
  <2>2. t \in Range(SortedTags) /\ n + 4 \in Int
    BY TagsAreListed
  <2> HIDE DEF t
  <2>3. \A image : MovedAway(disturbances, t, image, n + 4, matrix_at + 1)
                     <=> MovedAway(disturbances, t, image, n + 4, matrix_at)
    <3>1. Past(disturbances, matrix_at) /\ matrix_at \in Nat
      BY <1>2, <1>3 DEF MatrixTyped
    <3> QED
      BY <2>2, <3>1, AwayAdvances
  <2>4. \A m : m \in FirstRun .. matrix_at' - 1
                <=> m \in FirstRun .. matrix_at - 1 \/ m = matrix_at
    BY <1>1, <1>2
  <2>5. \A image : RanAway(disturbances, t, image, n, matrix_at')
                     <=> \/ RanAway(disturbances, t, image, n, matrix_at)
                         \/ t = tag /\ MovedAway(disturbances, t, image, n + 4, matrix_at)
    BY <1>0, <2>4 DEF RanAway
  <2>6. CASE t = tag
    <3>1. ran'[t] = ran[t] \cup {content[t]}
      BY <1>4, <2>6
    <3>2. content[t] # provenance.images[t]
            <=> MovedAway(disturbances, t, provenance.images[t], n + 4, matrix_at)
      BY <2>1 DEF TagInv
    <3>3. ran'[t] \subseteq {provenance.images[t]} <=>
            ~RanAway(disturbances, t, provenance.images[t], n, matrix_at')
      BY <2>1, <2>5, <2>6, <3>1, <3>2 DEF TagInv
    <3> QED
      BY <1>1, <2>3, <3>1, <3>2, <3>3 DEF TagInv, t
  <2>7. CASE t # tag
    <3>1. ran'[t] = ran[t]
      BY <1>4, <2>2, <2>7
    <3>2. (\E m \in FirstRun .. matrix_at' - 1 : TagAt(m) = t)
            => \E m \in FirstRun .. matrix_at - 1 : TagAt(m) = t
      BY <1>0, <2>4, <2>7
    <3>3. ran'[t] \subseteq {provenance.images[t]} <=>
            ~RanAway(disturbances, t, provenance.images[t], n, matrix_at')
      BY <2>1, <2>5, <2>7, <3>1 DEF TagInv
    <3> QED
      BY <1>1, <2>1, <2>3, <3>1, <3>2, <3>3 DEF TagInv, t
  <2> QED
    BY <2>6, <2>7
<1>9. DOMAIN provenance'.images
        = {SortedTags[n] : n \in {m \in 1 .. Len(SortedTags) : m + 4 <= matrix_at'}}
  <2>1. {m \in 1 .. Len(SortedTags) : m + 4 <= matrix_at'}
          = {m \in 1 .. Len(SortedTags) : m + 4 <= matrix_at}
    BY <1>7
  <2> QED
    BY <1>1, <2>1 DEF ProvenanceInv, ImagesInv
<1>10. ImagesInv'
  BY <1>7, <1>8, <1>9 DEF ImagesInv
<1> QED
  BY <1>5, <1>6, <1>10 DEF ProvenanceInv

\* A change of the source says nothing of the images.
LEMMA SourceChangePreserves ==
  ASSUME ProvenanceInv, NEW what \in {"commit", "edit"}, NEW to, Disturb(what, to),
         UNCHANGED content,
         head' \in Nat, what = "commit" => head' > head, what = "edit" => head' = head
  PROVE  ProvenanceInv'
<1>1. /\ disturbances' = disturbances \cup {<<what, matrix_at, to>>}
      /\ UNCHANGED <<publication, matrix_at, provenance, ran, matrix_outcome>>
  BY DEF Disturb
<1>2. MatrixTyped /\ matrix_at \in Int /\ matrix_at >= 1 /\ head \in Nat
  BY CommandsAreNumbered DEF ProvenanceInv, MatrixTyped
<1>3. MatrixTyped'
  <2>1. Past(disturbances, matrix_at)'
    BY <1>1, <1>2 DEF MatrixTyped, Past
  <2> QED
    BY <1>1, <1>2, <2>1 DEF MatrixTyped, Reported
<1>4. SourceInv'
  <2>1. Between(disturbances', "commit", 2, 2) <=>
          Between(disturbances, "commit", 2, 2) \/ (what = "commit" /\ matrix_at = 2)
    <3> DEFINE d == <<what, matrix_at, to>>
    <3>1. d[1] = what /\ d[2] = matrix_at
      OBVIOUS
    <3> HIDE DEF d
    <3>2. d[2] \in 2 .. 2 <=> matrix_at = 2
      BY <1>2, <3>1
    <3>3. disturbances' = disturbances \cup {d}
      BY <1>1 DEF d
    <3> QED
      BY <3>1, <3>2, <3>3 DEF Between
  <2>2. provenance.commit \in Nat
    BY <1>2 DEF MatrixTyped
  <2> QED
    BY <1>1, <1>2, <2>1, <2>2 DEF ProvenanceInv, SourceInv
<1>5. ASSUME NEW n \in 1 .. Len(SortedTags), TagInv(SortedTags[n], n)
      PROVE  TagInv(SortedTags[n], n)'
  <2> DEFINE t == SortedTags[n]
  <2>1. t # what
    BY TagsAreConfigured, TagsAreListed
  <2>2. n + 4 \in Int /\ FirstRun \in Int
    BY TagsAreListed, CommandsAreNumbered
  <2> HIDE DEF t
  <2>3. \A image : \A m \in Int : MovedAway(disturbances', t, image, n + 4, m)
                                  <=> MovedAway(disturbances, t, image, n + 4, m)
    BY <1>1, <1>2, <2>1, <2>2, AwayElsewhere
  <2>5. \A image : RanAway(disturbances', t, image, n, matrix_at)
                     <=> RanAway(disturbances, t, image, n, matrix_at)
    <3>1. \A m \in FirstRun .. matrix_at - 1 : m \in Int
      BY <1>2, <2>2
    <3> QED
      BY <2>3, <3>1 DEF RanAway
  <2>4. TagInv(t, n) => TagInv(t, n)'
    BY <1>1, <1>2, <2>3, <2>5 DEF TagInv
  <2> QED
    BY <1>5, <2>4 DEF t
<1>6. ImagesInv'
  BY <1>1, <1>5 DEF ProvenanceInv, ImagesInv
<1> QED
  BY <1>3, <1>4, <1>6 DEF ProvenanceInv

LEMMA CommitSourcePreserves == ProvenanceInv /\ CommitSource => ProvenanceInv'
<1> SUFFICES ASSUME ProvenanceInv, CommitSource PROVE ProvenanceInv'
  OBVIOUS
<1>1. head \in Nat /\ head' = head + 1 /\ Disturb("commit", "new") /\ UNCHANGED content
  BY DEF ProvenanceInv, MatrixTyped, CommitSource
<1>2. head' \in Nat /\ head' > head
  BY <1>1
<1> QED
  BY <1>1, <1>2, SourceChangePreserves

LEMMA EditSourcePreserves == ProvenanceInv /\ EditSource => ProvenanceInv'
<1> SUFFICES ASSUME ProvenanceInv, EditSource PROVE ProvenanceInv'
  OBVIOUS
<1>1. head' \in Nat /\ head' = head /\ Disturb("edit", "new") /\ UNCHANGED content
  BY DEF ProvenanceInv, MatrixTyped, EditSource
<1> QED
  BY <1>1, SourceChangePreserves

\* A tag that is moved after its inspection names what was recorded only when it
\* is moved back to that.
LEMMA MoveTagPreserves == ProvenanceInv /\ MoveTag => ProvenanceInv'
<1> SUFFICES ASSUME ProvenanceInv, MoveTag PROVE ProvenanceInv'
  OBVIOUS
<1>0. PICK tag \in Range(SortedTags) : \E image :
        /\ Disturb(tag, image)
        /\ content' = [content EXCEPT ![tag] = image] /\ UNCHANGED <<head, clean>>
  BY DEF MoveTag
<1>8. PICK to : /\ Disturb(tag, to)
                /\ content' = [content EXCEPT ![tag] = to] /\ UNCHANGED <<head, clean>>
  BY <1>0
<1>1. /\ disturbances' = disturbances \cup {<<tag, matrix_at, to>>}
      /\ ~Between(disturbances, tag, matrix_at, matrix_at)
      /\ UNCHANGED <<publication, matrix_at, provenance, ran, matrix_outcome, head>>
  BY <1>8 DEF Disturb
<1>2. MatrixTyped /\ matrix_at \in Int /\ matrix_at >= 1
  BY CommandsAreNumbered DEF ProvenanceInv, MatrixTyped
<1>3. /\ DOMAIN content = Range(SortedTags) /\ content'[tag] = to
      /\ \A t \in Range(SortedTags) : t # tag => content'[t] = content[t]
      /\ content' \in [Range(SortedTags) -> Range(content')]
  <2>1. DOMAIN content = Range(SortedTags)
    BY <1>2 DEF MatrixTyped
  <2> QED
    BY <1>8, <2>1 DEF Range
<1>4. MatrixTyped'
  <2>1. Past(disturbances, matrix_at)'
    BY <1>1, <1>2 DEF MatrixTyped, Past
  <2> QED
    BY <1>1, <1>2, <1>3, <2>1 DEF MatrixTyped, Reported
<1>5. SourceInv'
  <2>1. tag # "commit"
    BY TagsAreConfigured
  <2>2. Between(disturbances', "commit", 2, 2) <=> Between(disturbances, "commit", 2, 2)
    BY <1>1, <2>1 DEF Between
  <2> QED
    BY <1>1, <2>2 DEF ProvenanceInv, SourceInv
<1>6. ASSUME NEW n \in 1 .. Len(SortedTags), n + 4 <= matrix_at, TagInv(SortedTags[n], n)
      PROVE  TagInv(SortedTags[n], n)'
  <2> DEFINE t == SortedTags[n]
  <2>1. t \in Range(SortedTags) /\ n + 4 \in Int /\ FirstRun \in Int
    BY TagsAreListed, CommandsAreNumbered
  <2>2. matrix_at \in Nat /\ Past(disturbances, matrix_at)
    BY <1>2 DEF MatrixTyped
  <2> HIDE DEF t
  <2>3. \A image : \A m \in Int : m < matrix_at \/ t # tag =>
          (MovedAway(disturbances', t, image, n + 4, m)
             <=> MovedAway(disturbances, t, image, n + 4, m))
    BY <1>1, <1>2, <2>1, AwayElsewhere
  <2>4. \A image : RanAway(disturbances', t, image, n, matrix_at)
                     <=> RanAway(disturbances, t, image, n, matrix_at)
    <3>1. \A m \in FirstRun .. matrix_at - 1 : m \in Int /\ m < matrix_at
      BY <1>2, <2>1
    <3> QED
      BY <2>3, <3>1 DEF RanAway
  <2>5. content'[t] # provenance.images[t]
          <=> MovedAway(disturbances', t, provenance.images[t], n + 4, matrix_at)
    <3>1. CASE t = tag
      <4>1. MovedAway(disturbances \cup {<<tag, matrix_at, to>>}, tag, provenance.images[t],
                      n + 4, matrix_at) <=> to # provenance.images[t]
        BY <1>1, <1>6, <2>1, <2>2, AwayNow
      <4> QED
        BY <1>1, <1>3, <3>1, <4>1
    <3>2. CASE t # tag
      BY <1>2, <1>3, <1>6, <2>1, <2>3, <3>2 DEF TagInv, t
    <3> QED
      BY <3>1, <3>2
  <2>6. TagInv(t, n) => TagInv(t, n)'
    BY <1>1, <2>4, <2>5 DEF TagInv
  <2> QED
    BY <1>6, <2>6 DEF t
<1>7. ImagesInv'
  BY <1>1, <1>6 DEF ProvenanceInv, ImagesInv
<1> QED
  BY <1>4, <1>5, <1>7 DEF ProvenanceInv

LEMMA ProvenanceInductive == ProvenanceInv /\ [MatrixNext]_matrix_vars => ProvenanceInv'
<1> SUFFICES ASSUME ProvenanceInv, [MatrixNext]_matrix_vars PROVE ProvenanceInv'
  OBVIOUS
<1>1. CASE MatrixFails
  BY <1>1, EndMatrixPreserves DEF MatrixFails
<1>2. CASE ReportMatrix
  BY <1>2, EndMatrixPreserves DEF ReportMatrix
<1>3. CASE UNCHANGED matrix_vars
  <2>1. UNCHANGED <<publication, head, clean, content, disturbances, matrix_at, provenance,
                    ran, matrix_outcome>>
    BY <1>3 DEF matrix_vars
  <2>2. MatrixTyped' /\ SourceInv'
    BY <2>1 DEF ProvenanceInv, MatrixTyped, SourceInv, Reported
  <2>3. \A n : TagInv(SortedTags[n], n) => TagInv(SortedTags[n], n)'
    BY <2>1 DEF TagInv
  <2>4. ImagesInv'
    BY <2>1, <2>3 DEF ProvenanceInv, ImagesInv
  <2> QED
    BY <2>2, <2>4 DEF ProvenanceInv
<1> QED
  BY <1>1, <1>2, <1>3, RevParsePreserves, StatusPreserves, InspectImagePreserves,
     RunCasePreserves, CommitSourcePreserves, EditSourcePreserves, MoveTagPreserves DEF MatrixNext

\* The provenance of a report is true of one commit and of every run unless a
\* commit landed between the two git commands, or a tag was moved after its
\* inspection and not back before the next of its runs, and then it is not; a
\* published report was made from a clean tree.  For any configuration, also one in which several images
\* have one tag, and any number of changes at any points.
THEOREM ProvenanceIsAlwaysExact == MatrixSpec => []ProvenanceIsExact
<1>1. ProvenanceInv => ProvenanceIsExact
  <2> SUFFICES ASSUME ProvenanceInv, Reported PROVE ProvenanceIsExact
    BY DEF ProvenanceIsExact
  <2>1. matrix_at = End /\ MatrixTyped /\ SourceInv /\ ImagesInv
    BY DEF ProvenanceInv, MatrixTyped
  <2>2. /\ End \in Int /\ End >= 4 /\ FirstRun = 4 + Len(SortedTags) /\ End = FirstRun + 345
        /\ Len(SortedTags) \in Nat
    BY CommandsAreNumbered, TagsAreListed
  <2>3. provenance.commit = provenance.tree <=> ~Between(disturbances, "commit", 2, 2)
    BY <2>1, <2>2 DEF SourceInv
  <2>4. publication => provenance.clean
    BY <2>1, <2>2 DEF SourceInv
  <2>5. ASSUME NEW tag \in {ImageOf[image] : image \in DOMAIN ImageOf}
        PROVE  /\ tag \in DOMAIN provenance.images
               /\ ran[tag] = {provenance.images[tag]} <=>
                    \A n \in FirstRun .. End - 1 :
                      TagAt(n) = tag => ~MovedAway(disturbances, tag, provenance.images[tag],
                                                   InspectionOf(tag) + 4, n)
    <3>1. tag \in Range(SortedTags)
      BY TagsAreConfigured DEF Range
    <3>2. PICK n \in 1 .. Len(SortedTags) : SortedTags[n] = tag
      BY <3>1, TagsAreListed
    <3>3. n + 4 <= matrix_at /\ n + 4 \in Int
      BY <2>1, <2>2
    <3>4. InspectionOf(tag) = n
      BY <3>2, InspectionIsPlace
    <3>5. tag \in DOMAIN provenance.images /\ TagInv(tag, n)
      BY <2>1, <3>2, <3>3 DEF ImagesInv
    <3>6. \E m \in FirstRun .. matrix_at - 1 : TagAt(m) = tag
      BY <2>1, <3>1, EveryTagRuns
    <3>7. ran[tag] = {provenance.images[tag]}
            <=> ~RanAway(disturbances, tag, provenance.images[tag], n, matrix_at)
      BY <3>5, <3>6 DEF TagInv
    <3> QED
      BY <2>1, <3>4, <3>5, <3>7 DEF RanAway
  <2> QED
    BY <2>3, <2>4, <2>5 DEF ProvenanceIsExact
<1> QED
  BY <1>1, ProvenanceStarts, ProvenanceInductive, PTL DEF MatrixSpec

-----------------------------------------------------------------------------
(* The entries of a report *)

\* The case and the variant of every row.
LEMMA RowsAre ==
  /\ Rows[1] = <<"pure-pq-key", "Valid">>
  /\ Rows[2] = <<"pure-pq-key", "InvalidCertificateSignature">>
  /\ Rows[3] = <<"pure-pq-signature", "Valid">>
  /\ Rows[4] = <<"pure-pq-signature", "InvalidCertificateSignature">>
  /\ Rows[5] = <<"atomic-composite", "Valid">>
  /\ Rows[6] = <<"atomic-composite", "InvalidCertificateSignature">>
  /\ Rows[7] = <<"catalyst", "Valid">>
  /\ Rows[8] = <<"catalyst", "InvalidCertificateSignature">>
  /\ Rows[9] = <<"chameleon", "Valid">>
  /\ Rows[10] = <<"chameleon", "InvalidCertificateSignature">>
  /\ Rows[11] = <<"related", "Valid">>
  /\ Rows[12] = <<"related", "InvalidCertificateSignature">>
  /\ Rows[13] = <<"classical", "Valid">>
  /\ Rows[14] = <<"classical", "InvalidCertificateSignature">>
  /\ Rows[15] = <<"catalyst", "InvalidPostQuantumSignature">>
  /\ Rows[16] = <<"atomic-composite", "InvalidPostQuantumSignature">>
  /\ Rows[17] = <<"related", "MissingHybridEvidence">>
  /\ Rows[18] = <<"related", "BrokenBinding">>
  /\ Rows[19] = <<"related", "UnknownHybridAlgorithm">>
  /\ Rows[20] = <<"related", "MalformedHybridEvidence">>
  /\ Rows[21] = <<"related", "CriticalHybridExtension">>
  /\ Rows[22] = <<"chameleon", "PublishedStudyFixture">>
  /\ Rows[23] = <<"chameleon", "InvalidHybridEvidenceSignature">>
<1> DEFINE First == [n \in 1 .. 2 * Len(CASES) |->
                       <<CASES[(n + 1) \div 2],
                         IF n % 2 = 1 THEN "Valid" ELSE "InvalidCertificateSignature">>]
           Rest == <<<<"catalyst", "InvalidPostQuantumSignature">>,
                     <<"atomic-composite", "InvalidPostQuantumSignature">>,
                     <<"related", "MissingHybridEvidence">>,
                     <<"related", "BrokenBinding">>,
                     <<"related", "UnknownHybridAlgorithm">>,
                     <<"related", "MalformedHybridEvidence">>,
                     <<"related", "CriticalHybridExtension">>,
                     <<"chameleon", "PublishedStudyFixture">>,
                     <<"chameleon", "InvalidHybridEvidenceSignature">>>>
<1>1. Len(CASES) = 7
  BY DEF CASES
<1>2. First \in Seq(Range(First)) /\ Len(First) = 14
  BY <1>1 DEF Range
<1>3. Rest \in Seq(Range(Rest)) /\ Len(Rest) = 9
  BY DEF Range
<1>4. /\ \A n \in 1 .. 14 : Rows[n] = First[n]
      /\ \A n \in 15 .. 23 : Rows[n] = Rest[n - 14]
  <2> DEFINE S == Range(First) \cup Range(Rest)
             both == First \o Rest
  <2>1. First \in Seq(S) /\ Rest \in Seq(S) /\ Len(First) = 14 /\ Len(Rest) = 9
    BY <1>2, <1>3
  <2>2. Rows = both
    BY DEF Rows
  <2> HIDE DEF First, Rest, S
  <2>3. \A n \in 1 .. Len(First) + Len(Rest) :
          both[n] = IF n <= Len(First) THEN First[n] ELSE Rest[n - Len(First)]
    BY <2>1, ConcatProperties, Zenon
  <2> HIDE DEF both
  <2>4. \A n \in 1 .. 23 : both[n] = IF n <= 14 THEN First[n] ELSE Rest[n - 14]
    <3>1. Len(First) = 14 /\ Len(First) + Len(Rest) = 23
      BY <2>1
    <3> QED
      BY <2>3, <3>1, Zenon
  <2> QED
    BY <2>2, <2>4
<1>5. \A n \in 1 .. 14 :
        First[n] = <<CASES[(n + 1) \div 2],
                     IF n % 2 = 1 THEN "Valid" ELSE "InvalidCertificateSignature">>
  BY <1>1
<1> HIDE DEF First
<1>6. /\ Rows[1] = <<CASES[1], "Valid">> /\ Rows[2] = <<CASES[1], "InvalidCertificateSignature">>
      /\ Rows[3] = <<CASES[2], "Valid">> /\ Rows[4] = <<CASES[2], "InvalidCertificateSignature">>
      /\ Rows[5] = <<CASES[3], "Valid">> /\ Rows[6] = <<CASES[3], "InvalidCertificateSignature">>
      /\ Rows[7] = <<CASES[4], "Valid">> /\ Rows[8] = <<CASES[4], "InvalidCertificateSignature">>
      /\ Rows[9] = <<CASES[5], "Valid">> /\ Rows[10] = <<CASES[5], "InvalidCertificateSignature">>
      /\ Rows[11] = <<CASES[6], "Valid">> /\ Rows[12] = <<CASES[6], "InvalidCertificateSignature">>
      /\ Rows[13] = <<CASES[7], "Valid">> /\ Rows[14] = <<CASES[7], "InvalidCertificateSignature">>
  BY <1>4, <1>5
<1>7. /\ Rows[15] = Rest[1] /\ Rows[16] = Rest[2] /\ Rows[17] = Rest[3] /\ Rows[18] = Rest[4]
      /\ Rows[19] = Rest[5] /\ Rows[20] = Rest[6] /\ Rows[21] = Rest[7] /\ Rows[22] = Rest[8]
      /\ Rows[23] = Rest[9]
  <2> HIDE DEF Rest
  <2> QED
    BY <1>4
<1> QED
  BY <1>6, <1>7 DEF CASES

\* No two rows are the same.
LEMMA RowsDiffer == \A i, k \in 1 .. 23 : Rows[i] = Rows[k] => i = k
BY RowsAre

LEMMA RowsArePairs == \A i \in 1 .. 23 : Rows[i] = <<Rows[i][1], Rows[i][2]>>
BY RowsAre

\* The name under which the j-th adapter is reported.
NameOf(j) ==
  IF Adapters[j][1] = "bouncycastle-java"
    THEN bouncy_castle_name(printed[ImageOf[Adapters[j][2]]]) ELSE Adapters[j][1]

AdapterNames == {Adapters[j][1] : j \in 1 .. 15} \cup BouncyCastle

PossibleEntries == {push(row, name) : row \in Range(Rows), name \in AdapterNames}

\* One entry for every run, and the version its name comes from still cached.
EntriesInv ==
  /\ entries \in Seq(PossibleEntries)
  /\ Len(entries) = IF matrix_at < FirstRun THEN 0 ELSE matrix_at - FirstRun
  /\ \A n \in FirstRun .. matrix_at - 1 :
       /\ TagAt(n) \in DOMAIN printed
       /\ entries[n - FirstRun + 1] = push(Rows[RowIndex(n)], NameOf(Index(n)))

LEMMA NamesAreListed ==
  ASSUME NEW version
  PROVE  bouncy_castle_name(version) \in BouncyCastle
BY DEF bouncy_castle_name, BouncyCastle

LEMMA EntriesStart == MatrixInit => EntriesInv
<1> SUFFICES ASSUME MatrixInit PROVE EntriesInv
  OBVIOUS
<1>1. matrix_at = 1 /\ entries = <<>> /\ FirstRun \in Int /\ FirstRun >= 4
  BY CommandsAreNumbered, TagsAreListed DEF MatrixInit
<1>2. FirstRun .. matrix_at - 1 = {} /\ matrix_at < FirstRun
  BY <1>1
<1> QED
  BY <1>1, <1>2 DEF EntriesInv

\* Before the first run there is no entry, and a command that is not a run adds
\* none.
LEMMA NoRunKeepsEntries ==
  ASSUME EntriesInv, MatrixTyped, UNCHANGED <<entries, printed>>,
         \/ matrix_at' = matrix_at
         \/ matrix_at < FirstRun /\ matrix_at' = matrix_at + 1
  PROVE  EntriesInv'
<1>1. matrix_at \in Int /\ FirstRun \in Int
  BY CommandsAreNumbered DEF MatrixTyped
<1>2. \A j : NameOf(j)' = NameOf(j)
  BY DEF NameOf
<1>3. CASE matrix_at' = matrix_at
  BY <1>2, <1>3 DEF EntriesInv
<1>4. CASE matrix_at < FirstRun /\ matrix_at' = matrix_at + 1
  <2>1. FirstRun .. matrix_at' - 1 = {}
    BY <1>1, <1>4
  <2>2. Len(entries) = 0
    BY <1>4 DEF EntriesInv
  <2>3. (IF matrix_at' < FirstRun THEN 0 ELSE matrix_at' - FirstRun) = 0
    BY <1>1, <1>4
  <2> QED
    BY <2>1, <2>2, <2>3 DEF EntriesInv
<1> QED
  BY <1>3, <1>4

\* A run adds its entry; the versions printed before stay.
LEMMA RunCaseAddsEntry == EntriesInv /\ MatrixTyped /\ RunCase => EntriesInv'
<1> SUFFICES ASSUME EntriesInv, MatrixTyped, RunCase PROVE EntriesInv'
  OBVIOUS
<1>1. PICK m \in FirstRun .. End - 1 : m = matrix_at
  BY DEF RunCase
<1>2. m \in Int /\ FirstRun \in Int /\ m >= FirstRun /\ matrix_at' = m + 1
  BY <1>1, CommandsAreNumbered DEF RunCase
<1> DEFINE tag == TagAt(m)
           name == IF AdapterAt(m)[1] = "bouncycastle-java"
                     THEN bouncy_castle_name(printed'[tag]) ELSE AdapterAt(m)[1]
<1>3. /\ printed' = Remember(printed, tag, content[tag])
      /\ entries' = Append(entries, push(RowAt(m), name))
  BY <1>1 DEF RunCase
<1>4. /\ DOMAIN printed' = DOMAIN printed \cup {tag}
      /\ \A t \in DOMAIN printed : printed'[t] = printed[t]
  BY <1>3 DEF Remember
<1>5. /\ Index(m) \in 1 .. 15 /\ RowIndex(m) \in 1 .. 23
      /\ AdapterAt(m) = Adapters[Index(m)] /\ RowAt(m) = Rows[RowIndex(m)]
      /\ tag = ImageOf[Adapters[Index(m)][2]]
  BY RunsAreOfAdapters
<1>6. name = NameOf(Index(m))'
  BY <1>5 DEF NameOf
<1> HIDE DEF name
<1>7. push(RowAt(m), name) \in PossibleEntries
  <2>1. RowAt(m) \in Range(Rows)
    BY <1>5, RowsAreListed DEF Range
  <2>2. name \in AdapterNames
    BY <1>5, NamesAreListed DEF name, AdapterNames
  <2> QED
    BY <2>1, <2>2 DEF PossibleEntries
<1>8. entries \in Seq(PossibleEntries) /\ Len(entries) = m - FirstRun
  BY <1>1, <1>2 DEF EntriesInv
<1>9. /\ entries' \in Seq(PossibleEntries) /\ Len(entries') = m - FirstRun + 1
      /\ entries'[m - FirstRun + 1] = push(RowAt(m), name)
      /\ \A k \in 1 .. m - FirstRun : entries'[k] = entries[k]
  <2> DEFINE entry == push(RowAt(m), name)
  <2>1. entry \in PossibleEntries /\ entries' = Append(entries, entry)
    BY <1>3, <1>7 DEF name
  <2> HIDE DEF entry
  <2>2. /\ entries' \in Seq(PossibleEntries) /\ Len(entries') = m - FirstRun + 1
        /\ entries'[m - FirstRun + 1] = entry
        /\ \A k \in 1 .. m - FirstRun : entries'[k] = entries[k]
    BY <1>2, <1>8, <2>1
  <2> QED
    BY <2>2 DEF entry
<1>10. ASSUME NEW n \in FirstRun .. matrix_at' - 1
       PROVE  /\ TagAt(n) \in DOMAIN printed'
              /\ entries'[n - FirstRun + 1] = push(Rows[RowIndex(n)], NameOf(Index(n))')
  <2>1. CASE n = m
    BY <1>4, <1>5, <1>6, <1>9, <2>1
  <2>2. CASE n # m
    <3>1. n \in FirstRun .. matrix_at - 1 /\ n - FirstRun + 1 \in 1 .. m - FirstRun
          /\ n \in FirstRun .. End - 1
      BY <1>1, <1>2, <2>2, CommandsAreNumbered
    <3>2. TagAt(n) \in DOMAIN printed
          /\ entries[n - FirstRun + 1] = push(Rows[RowIndex(n)], NameOf(Index(n)))
      BY <3>1 DEF EntriesInv
    <3>3. TagAt(n) = ImageOf[Adapters[Index(n)][2]]
      BY <3>1, RunsAreOfAdapters
    <3>4. NameOf(Index(n))' = NameOf(Index(n))
      BY <1>4, <3>2, <3>3 DEF NameOf
    <3> QED
      BY <1>4, <1>9, <3>1, <3>2, <3>4
  <2> QED
    BY <2>1, <2>2
<1>11. Len(entries') = IF matrix_at' < FirstRun THEN 0 ELSE matrix_at' - FirstRun
  BY <1>2, <1>9
<1> QED
  BY <1>9, <1>10, <1>11 DEF EntriesInv

LEMMA EntriesInductive ==
  EntriesInv /\ MatrixTyped /\ [MatrixNext]_matrix_vars => EntriesInv'
<1> SUFFICES ASSUME EntriesInv, MatrixTyped, [MatrixNext]_matrix_vars PROVE EntriesInv'
  OBVIOUS
<1>1. CASE RevParse \/ Status
  <2>1. matrix_at < FirstRun
    BY <1>1, CommandsAreNumbered, TagsAreListed DEF RevParse, Status
  <2> QED
    BY <1>1, <2>1, NoRunKeepsEntries DEF RevParse, Status, Proceed, EndMatrix
<1>2. CASE InspectImage
  <2>1. matrix_at < FirstRun
    BY <1>2, CommandsAreNumbered DEF InspectImage
  <2> QED
    BY <1>2, <2>1, NoRunKeepsEntries DEF InspectImage, Proceed
<1>3. CASE RunCase
  BY <1>3, RunCaseAddsEntry
<1>4. CASE MatrixFails \/ ReportMatrix \/ CommitSource \/ EditSource \/ MoveTag
  BY <1>4, NoRunKeepsEntries
  DEF MatrixFails, ReportMatrix, CommitSource, EditSource, MoveTag, EndMatrix, Disturb
<1>5. CASE UNCHANGED matrix_vars
  BY <1>5, NoRunKeepsEntries DEF matrix_vars
<1> QED
  BY <1>1, <1>2, <1>3, <1>4, <1>5 DEF MatrixNext

\* The names of the adapters: those of the two Bouncy Castle images, and
\* thirteen others that differ from one another and from those two.
LEMMA NamesAre ==
  /\ Adapters[6] = <<"bouncycastle-java", "bouncy_castle_study">>
  /\ Adapters[7] = <<"bouncycastle-java", "bouncy_castle_current">>
  /\ \A j \in 1 .. 15 : Adapters[j][1] = "bouncycastle-java" <=> j \in {6, 7}
  /\ \A j, k \in (1 .. 15) \ {6, 7} : Adapters[j][1] = Adapters[k][1] => j = k
  /\ \A j \in (1 .. 15) \ {6, 7} : Adapters[j][1] \notin BouncyCastle
  /\ Adapters[2][1] = "openssl-current"
<1>1. /\ Adapters[1][1] = "openssl-study" /\ Adapters[2][1] = "openssl-current"
      /\ Adapters[3][1] = "oqs-provider" /\ Adapters[4][1] = "mozilla-nss-study"
      /\ Adapters[5][1] = "mozilla-nss-current" /\ Adapters[6][1] = "bouncycastle-java"
      /\ Adapters[7][1] = "bouncycastle-java" /\ Adapters[8][1] = "wolfssl-mode1"
      /\ Adapters[9][1] = "wolfssl-mode2" /\ Adapters[10][1] = "gnutls-current"
      /\ Adapters[11][1] = "gnutls-study" /\ Adapters[12][1] = "go-crypto-x509-study"
      /\ Adapters[13][1] = "go-crypto-x509-current"
      /\ Adapters[14][1] = "pyca-cryptography-study"
      /\ Adapters[15][1] = "pyca-cryptography-current"
  BY DEF Adapters
<1>2. /\ Adapters[6] = <<"bouncycastle-java", "bouncy_castle_study">>
      /\ Adapters[7] = <<"bouncycastle-java", "bouncy_castle_current">>
  BY DEF Adapters
<1>3. BouncyCastle = {"bouncycastle-java-study", "bouncycastle-java-current", "bouncycastle-java"}
  BY DEF BouncyCastle, bouncy_castle_name
<1>4. \A j \in 1 .. 15 : Adapters[j][1] = "bouncycastle-java" <=> j \in {6, 7}
  BY <1>1
<1>5. \A j, k \in (1 .. 15) \ {6, 7} : Adapters[j][1] = Adapters[k][1] => j = k
  BY <1>1
<1>6. \A j \in (1 .. 15) \ {6, 7} : Adapters[j][1] \notin BouncyCastle
  BY <1>1, <1>3
<1> QED
  BY <1>1, <1>2, <1>4, <1>5, <1>6

\* Every adapter is reported under one name, and two under the same exactly
\* when they are the two Bouncy Castle images and their versions are named
\* alike.
LEMMA NamesCollide ==
  ASSUME NEW j \in 1 .. 15, NEW k \in 1 .. 15, NameOf(j) = NameOf(k), j # k
  PROVE  NameOf(6) = NameOf(7)
<1>1. \A i \in 1 .. 15 : i \in {6, 7} => NameOf(i) \in BouncyCastle
  BY NamesAre, NamesAreListed DEF NameOf
<1>2. \A i \in (1 .. 15) \ {6, 7} : NameOf(i) = Adapters[i][1]
  BY NamesAre DEF NameOf
<1>3. j \in {6, 7} /\ k \in {6, 7}
  BY <1>1, <1>2, NamesAre
<1> QED
  BY <1>3

\* Every entry of a finished call, by its row and its adapter, and no other.
LEMMA EntriesAreRuns ==
  ASSUME EntriesInv, matrix_at = End
  PROVE  /\ Len(entries) = 345 /\ DOMAIN entries = 1 .. 345
         /\ \A i \in 1 .. 23, j \in 1 .. 15 :
              /\ 15 * (i - 1) + j \in 1 .. 345
              /\ entries[15 * (i - 1) + j] = push(Rows[i], NameOf(j))
              /\ push(Rows[i], NameOf(j)) \in Range(entries)
         /\ \A k \in 1 .. 345 :
              \E i \in 1 .. 23, j \in 1 .. 15 :
                k = 15 * (i - 1) + j /\ entries[k] = push(Rows[i], NameOf(j))
<1>1. Len(entries) = 345 /\ DOMAIN entries = 1 .. 345
  <2>1. ~(End < FirstRun) /\ End - FirstRun = 345
    BY CommandsAreNumbered
  <2>2. entries \in Seq(PossibleEntries) /\ Len(entries) = End - FirstRun
    BY <2>1 DEF EntriesInv
  <2>3. DOMAIN entries = 1 .. Len(entries)
    BY <2>2, LenProperties, Zenon
  <2>4. Len(entries) = 345
    BY <2>1, <2>2, Zenon
  <2> QED
    BY <2>3, <2>4, Zenon
<1>2. ASSUME NEW i \in 1 .. 23, NEW j \in 1 .. 15
      PROVE  /\ 15 * (i - 1) + j \in 1 .. 345
             /\ entries[15 * (i - 1) + j] = push(Rows[i], NameOf(j))
             /\ push(Rows[i], NameOf(j)) \in Range(entries)
  <2> DEFINE n == FirstRun + 15 * (i - 1) + j - 1
  <2>1. n \in FirstRun .. End - 1 /\ RowIndex(n) = i /\ Index(n) = j
    BY EveryAdapterRuns
  <2>2. n - FirstRun + 1 = 15 * (i - 1) + j /\ 15 * (i - 1) + j \in 1 .. 345
    BY CommandsAreNumbered
  <2> HIDE DEF n
  <2>3. entries[n - FirstRun + 1] = push(Rows[i], NameOf(j))
    BY <2>1 DEF EntriesInv
  <2> QED
    BY <1>1, <2>2, <2>3 DEF Range
<1>3. ASSUME NEW k \in 1 .. 345
      PROVE  \E i \in 1 .. 23, j \in 1 .. 15 :
               k = 15 * (i - 1) + j /\ entries[k] = push(Rows[i], NameOf(j))
  <2> DEFINE n == FirstRun + k - 1
  <2>1. n \in FirstRun .. End - 1 /\ n - FirstRun + 1 = k
    BY CommandsAreNumbered
  <2>2. /\ Index(n) \in 1 .. 15 /\ RowIndex(n) \in 1 .. 23
        /\ n = FirstRun + 15 * (RowIndex(n) - 1) + Index(n) - 1
    BY <2>1, RunsAreOfAdapters
  <2>3. entries[k] = push(Rows[RowIndex(n)], NameOf(Index(n)))
    BY <2>1 DEF EntriesInv
  <2>4. k = 15 * (RowIndex(n) - 1) + Index(n)
    <3>1. ASSUME NEW a \in Int, NEW b \in Int, NEW c \in Int,
                 c + k - 1 = c + 15 * (a - 1) + b - 1
          PROVE  k = 15 * (a - 1) + b
      BY <3>1
    <3>2. Index(n) \in Int /\ RowIndex(n) \in Int /\ FirstRun \in Int
      <4>1. FirstRun \in Int
        BY CommandsAreNumbered
      <4> HIDE DEF n
      <4> QED
        BY <2>2, <4>1
    <3> QED
      BY <2>2, <3>1, <3>2
  <2> QED
    BY <2>2, <2>3, <2>4
<1> QED
  BY <1>1, <1>2, <1>3

\* As many claims as runs exactly when no two runs claim the same.
LEMMA ClaimsAreCounted ==
  ASSUME EntriesInv, matrix_at = End
  PROVE  Cardinality({e.claim : e \in Range(entries)}) = 345
           <=> \A k, l \in 1 .. 345 : entries[k].claim = entries[l].claim => k = l
<1> DEFINE claims == {e.claim : e \in Range(entries)}
           f == [k \in 1 .. 345 |-> entries[k].claim]
<1>1. DOMAIN entries = 1 .. 345
  BY EntriesAreRuns
<1>2. f \in Surjection(1 .. 345, claims)
  <2>1. f \in [1 .. 345 -> claims]
    BY <1>1 DEF Range
  <2>2. ASSUME NEW t \in claims PROVE \E s \in 1 .. 345 : f[s] = t
    BY <1>1 DEF Range
  <2> HIDE DEF f, claims
  <2> QED
    BY <2>1, <2>2 DEF Surjection
<1>3. IsFiniteSet(1 .. 345) /\ Cardinality(1 .. 345) = 345
  <2>1. /\ IsFiniteSet(1 .. 345)
        /\ Cardinality(1 .. 345) = IF 1 > 345 THEN 0 ELSE 345 - 1 + 1
    <3>1. 1 \in Int /\ 345 \in Int
      OBVIOUS
    <3> QED
      BY <3>1, FS_Interval, Zenon
  <2> QED
    BY <2>1
<1>4. Cardinality(claims) = 345 <=> f \in Injection(1 .. 345, claims)
  <2> HIDE DEF f, claims
  <2>1. Cardinality(claims) = Cardinality(1 .. 345) <=> f \in Injection(1 .. 345, claims)
    BY <1>2, <1>3, FS_Surjection, Zenon
  <2> QED
    BY <1>3, <2>1
<1>5. f \in Injection(1 .. 345, claims)
        <=> \A k, l \in 1 .. 345 : entries[k].claim = entries[l].claim => k = l
  <2>1. f \in [1 .. 345 -> claims] /\ \A k \in 1 .. 345 : f[k] = entries[k].claim
    BY <1>1 DEF Range
  <2> HIDE DEF f, claims
  <2>2. f \in Injection(1 .. 345, claims) <=> \A k, l \in 1 .. 345 : f[k] = f[l] => k = l
    <3>1. DOMAIN f = 1 .. 345
      BY <2>1
    <3> QED
      BY <2>1, <3>1, Zenon DEF Injection, IsInjective
  <2>3. ASSUME NEW k \in 1 .. 345, NEW l \in 1 .. 345
        PROVE  f[k] = f[l] <=> entries[k].claim = entries[l].claim
    BY <2>1, Zenon
  <2>4. (\A k, l \in 1 .. 345 : f[k] = f[l] => k = l)
          <=> \A k, l \in 1 .. 345 : entries[k].claim = entries[l].claim => k = l
    <3> DEFINE all == 1 .. 345
    <3>1. \A k, l \in all : f[k] = f[l] <=> entries[k].claim = entries[l].claim
      BY <2>3
    <3> HIDE DEF all
    <3>2. (\A k, l \in all : f[k] = f[l] => k = l)
            <=> \A k, l \in all : entries[k].claim = entries[l].claim => k = l
      BY <3>1, Zenon
    <3> QED
      BY <3>2 DEF all
  <2> QED
    BY <2>2, <2>4, Zenon
<1> QED
  BY <1>4, <1>5

\* An OpenSSL release tells a broken outer signature in every case but the
\* composite one, and there every Bouncy Castle release does, whatever its name.
LEMMA VerdictsTell ==
  /\ \A case \in {"pure-pq-key", "pure-pq-signature", "catalyst", "chameleon", "related",
                  "classical"} :
       /\ expected_stack_verdict(case, "Valid", "openssl-current") = "Accept"
       /\ expected_stack_verdict(case, "InvalidCertificateSignature", "openssl-current") = "Reject"
  /\ \A name \in BouncyCastle :
       /\ expected_stack_verdict("atomic-composite", "Valid", name) = "Accept"
       /\ expected_stack_verdict("atomic-composite", "InvalidCertificateSignature", name) = "Reject"
       /\ expected_stack_verdict("atomic-composite", "InvalidPostQuantumSignature", name) = "Reject"
<1>1. BouncyCastle = {"bouncycastle-java-study", "bouncycastle-java-current", "bouncycastle-java"}
  BY DEF BouncyCastle, bouncy_castle_name
<1>2. /\ \A case \in {"pure-pq-key", "pure-pq-signature", "catalyst", "chameleon", "related",
                      "classical"} :
           \A variant \in {"Valid", "InvalidCertificateSignature"} :
             expected_support(case, variant, "openssl-current") = "Supported"
      /\ \A name \in BouncyCastle :
           \A variant \in {"Valid", "InvalidCertificateSignature", "InvalidPostQuantumSignature"} :
             expected_support("atomic-composite", variant, name) = "Supported"
  BY <1>1 DEF expected_support
<1> QED
  BY <1>1, <1>2 DEF expected_stack_verdict

\* What two entries of one adapter show.
LEMMA RunsTell ==
  ASSUME EntriesInv, matrix_at = End, NEW i \in 1 .. 23, NEW k \in 1 .. 23, NEW j \in 1 .. 15,
         NEW case, NEW variant, Rows[i] = <<case, "Valid">>, Rows[k] = <<case, variant>>,
         expected_stack_verdict(case, "Valid", NameOf(j)) = "Accept",
         expected_stack_verdict(case, variant, NameOf(j)) = "Reject"
  PROVE  Expected(case, "Valid", "Accept") \cap Expected(case, variant, "Reject") # {}
<1> DEFINE first == push(Rows[i], NameOf(j))
           second == push(Rows[k], NameOf(j))
<1>1. first \in Range(entries) /\ second \in Range(entries)
  BY EntriesAreRuns
<1>2. /\ first.case = case /\ first.variant = "Valid" /\ first.adapter = NameOf(j)
      /\ first.expected = "Accept"
      /\ second.case = case /\ second.variant = variant /\ second.adapter = NameOf(j)
      /\ second.expected = "Reject"
  BY DEF push
<1> HIDE DEF first, second
<1>3. NameOf(j) \in Expected(case, "Valid", "Accept")
  BY <1>1, <1>2 DEF Expected
<1>4. NameOf(j) \in Expected(case, variant, "Reject")
  BY <1>1, <1>2 DEF Expected
<1> QED
  BY <1>3, <1>4

\* Every case is run as it is and with a broken outer signature.
LEMMA EveryCaseHasRows ==
  ASSUME NEW case \in {"pure-pq-key", "pure-pq-signature", "atomic-composite", "catalyst",
                       "chameleon", "related", "classical"}
  PROVE  \E i \in 1 .. 23, k \in 1 .. 23 :
           Rows[i] = <<case, "Valid">> /\ Rows[k] = <<case, "InvalidCertificateSignature">>
<1> DEFINE Pair(i, k) ==
             Rows[i] = <<case, "Valid">> /\ Rows[k] = <<case, "InvalidCertificateSignature">>
<1>1. \/ Pair(1, 2) \/ Pair(3, 4) \/ Pair(5, 6) \/ Pair(7, 8) \/ Pair(9, 10) \/ Pair(11, 12)
      \/ Pair(13, 14)
  BY RowsAre
<1> HIDE DEF Pair
<1>2. \E i \in 1 .. 23, k \in 1 .. 23 : Pair(i, k)
  BY <1>1
<1> QED
  BY <1>2 DEF Pair

\* A report is never partial, its claims are all different exactly when the two
\* Bouncy Castle images printed versions that are named differently, and for
\* every case some adapter is expected to tell a broken certificate: for any
\* configuration and anything the images print.
THEOREM MatrixIsAlwaysComplete == MatrixSpec => []MatrixIsComplete
<1>1. ProvenanceInv /\ EntriesInv => MatrixIsComplete
  <2> SUFFICES ASSUME ProvenanceInv, EntriesInv, Reported PROVE MatrixIsComplete
    BY DEF MatrixIsComplete
  <2>1. matrix_at = End
    BY DEF ProvenanceInv, MatrixTyped
  <2>2. Len(entries) = AllRuns /\ AllRuns = 345
    BY <2>1, EntriesAreRuns, CommandsAreNumbered
  <2>3. \A k \in 1 .. 345 :
          \E i \in 1 .. 23, j \in 1 .. 15 :
            k = 15 * (i - 1) + j /\ entries[k] = push(Rows[i], NameOf(j))
    BY <2>1, EntriesAreRuns, Zenon
  <2>4. ASSUME NEW i \in 1 .. 23, NEW j \in 1 .. 15
        PROVE  /\ entries[15 * (i - 1) + j] = push(Rows[i], NameOf(j))
               /\ push(Rows[i], NameOf(j)) \in Range(entries)
    <3>1. \A row \in 1 .. 23, place \in 1 .. 15 :
            /\ 15 * (row - 1) + place \in 1 .. 345
            /\ entries[15 * (row - 1) + place] = push(Rows[row], NameOf(place))
            /\ push(Rows[row], NameOf(place)) \in Range(entries)
      BY <2>1, EntriesAreRuns, Zenon
    <3> QED
      BY <3>1, Zenon
  <2>5. ASSUME NEW i \in DOMAIN Rows, NEW a \in Range(Adapters) \ {Adapters[6], Adapters[7]}
        PROVE  \E e \in Range(entries) : <<e.case, e.variant>> = Rows[i] /\ e.adapter = a[1]
    <3>1. PICK j \in 1 .. 15 : a = Adapters[j]
      BY AdaptersAreListed DEF Range
    <3>2. j \notin {6, 7} /\ i \in 1 .. 23
      BY <3>1, RowsAreListed
    <3>3. NameOf(j) = a[1]
      BY <3>1, <3>2, NamesAre DEF NameOf
    <3>4. push(Rows[i], a[1]) \in Range(entries)
      BY <2>4, <3>2, <3>3, Zenon
    <3>5. Rows[i] = <<Rows[i][1], Rows[i][2]>>
      BY <3>2, RowsArePairs
    <3>6. /\ push(Rows[i], a[1]).case = Rows[i][1] /\ push(Rows[i], a[1]).variant = Rows[i][2]
          /\ push(Rows[i], a[1]).adapter = a[1]
      BY DEF push
    <3> QED
      BY <3>4, <3>5, <3>6
  <2>6. (\A k, l \in 1 .. 345 : entries[k].claim = entries[l].claim => k = l)
          <=> NameOf(6) # NameOf(7)
    <3>1. ASSUME NameOf(6) = NameOf(7)
          PROVE  ~\A k, l \in 1 .. 345 : entries[k].claim = entries[l].claim => k = l
      <4>1. entries[15 * (1 - 1) + 6] = push(Rows[1], NameOf(6))
            /\ entries[15 * (1 - 1) + 7] = push(Rows[1], NameOf(7))
        BY <2>4
      <4>2. entries[6] = entries[7]
        BY <3>1, <4>1
      <4>3. entries[6].claim = entries[7].claim /\ 6 # 7 /\ 6 \in 1 .. 345 /\ 7 \in 1 .. 345
        BY <4>2
      <4> QED
        BY <4>3, Zenon
    <3>2. ASSUME NameOf(6) # NameOf(7), NEW k \in 1 .. 345, NEW l \in 1 .. 345,
                 entries[k].claim = entries[l].claim
          PROVE  k = l
      <4>1. PICK i \in 1 .. 23, j \in 1 .. 15 :
              k = 15 * (i - 1) + j /\ entries[k] = push(Rows[i], NameOf(j))
        BY <2>3, Zenon
      <4>2. PICK m \in 1 .. 23, n \in 1 .. 15 :
              l = 15 * (m - 1) + n /\ entries[l] = push(Rows[m], NameOf(n))
        BY <2>3, Zenon
      <4>3. <<Rows[i][1], Rows[i][2], NameOf(j)>> = <<Rows[m][1], Rows[m][2], NameOf(n)>>
        BY <3>2, <4>1, <4>2 DEF push
      <4>4. Rows[i] = Rows[m] /\ NameOf(j) = NameOf(n)
        BY <4>3, RowsArePairs
      <4>5. i = m /\ j = n
        BY <3>2, <4>4, RowsDiffer, NamesCollide
      <4> QED
        BY <4>1, <4>2, <4>5
    <3> QED
      BY <3>1, <3>2
  <2>7. Cardinality({e.claim : e \in Range(entries)}) = AllRuns
          <=> bouncy_castle_name(printed[ImageOf["bouncy_castle_study"]])
                # bouncy_castle_name(printed[ImageOf["bouncy_castle_current"]])
    <3>1. /\ NameOf(6) = bouncy_castle_name(printed[ImageOf["bouncy_castle_study"]])
          /\ NameOf(7) = bouncy_castle_name(printed[ImageOf["bouncy_castle_current"]])
      BY NamesAre DEF NameOf
    <3>2. Cardinality({e.claim : e \in Range(entries)}) = 345
            <=> \A k, l \in 1 .. 345 : entries[k].claim = entries[l].claim => k = l
      BY <2>1, ClaimsAreCounted, Zenon
    <3>3. Cardinality({e.claim : e \in Range(entries)}) = 345 <=> NameOf(6) # NameOf(7)
      BY <2>6, <3>2, Zenon
    <3>4. Cardinality({e.claim : e \in Range(entries)}) = AllRuns <=> NameOf(6) # NameOf(7)
      BY <2>2, <3>3, Zenon
    <3> QED
      BY <3>1, <3>4, Zenon
  <2>8. NameOf(2) = "openssl-current" /\ NameOf(6) \in BouncyCastle
    BY NamesAre, NamesAreListed DEF NameOf
  <2>9. ASSUME NEW case \in Range(CASES)
        PROVE  Expected(case, "Valid", "Accept")
                 \cap Expected(case, "InvalidCertificateSignature", "Reject") # {}
    <3>1. case \in {"pure-pq-key", "pure-pq-signature", "atomic-composite", "catalyst",
                    "chameleon", "related", "classical"}
      BY DEF CASES, Range
    <3>2. PICK i \in 1 .. 23, k \in 1 .. 23 :
            Rows[i] = <<case, "Valid">> /\ Rows[k] = <<case, "InvalidCertificateSignature">>
      BY <3>1, EveryCaseHasRows
    <3>3. PICK j \in 1 .. 15 :
            /\ expected_stack_verdict(case, "Valid", NameOf(j)) = "Accept"
            /\ expected_stack_verdict(case, "InvalidCertificateSignature", NameOf(j)) = "Reject"
      <4>1. CASE case = "atomic-composite"
        BY <2>8, <4>1, VerdictsTell
      <4>2. CASE case # "atomic-composite"
        BY <2>8, <3>1, <4>2, VerdictsTell
      <4> QED
        BY <4>1, <4>2
    <3> QED
      BY <2>1, <3>2, <3>3, RunsTell, Zenon
  <2>10. Expected("atomic-composite", "Valid", "Accept")
          \cap Expected("atomic-composite", "InvalidPostQuantumSignature", "Reject") # {}
    <3>1. Rows[5] = <<"atomic-composite", "Valid">>
          /\ Rows[16] = <<"atomic-composite", "InvalidPostQuantumSignature">>
      BY RowsAre
    <3>2. /\ expected_stack_verdict("atomic-composite", "Valid", NameOf(6)) = "Accept"
          /\ expected_stack_verdict("atomic-composite", "InvalidPostQuantumSignature", NameOf(6))
               = "Reject"
      BY <2>8, VerdictsTell
    <3>3. 5 \in 1 .. 23 /\ 16 \in 1 .. 23 /\ 6 \in 1 .. 15
      OBVIOUS
    <3> QED
      BY <2>1, <3>1, <3>2, <3>3, RunsTell, Zenon
  <2> QED
    BY <2>2, <2>5, <2>7, <2>9, <2>10 DEF MatrixIsComplete
<1>2. ProvenanceInv => MatrixTyped
  BY DEF ProvenanceInv
<1> QED
  BY <1>1, <1>2, ProvenanceStarts, ProvenanceInductive, EntriesStart, EntriesInductive, PTL
  DEF MatrixSpec

-----------------------------------------------------------------------------
(* The command line *)

\* Whatever the command, the process does not disturb a part: it behaves as the
\* specification of the part allows.
LEMMA CommandStartsParts ==
  CommandInit => AnalysisInit /\ MatrixInit /\ CorpusInit /\ PairInit
BY DEF CommandInit

LEMMA CommandKeepsParts ==
  [CommandNext]_command_line_vars =>
    /\ [AnalysisNext]_analysis_vars
    /\ [MatrixNext]_matrix_vars
    /\ [CorpusNext]_corpus_vars
    /\ [PairNext]_pair_vars
BY DEF CommandNext, command_line_vars, RunAnalysis, RunMatrix, VerifyCorpus, AnalyzePair

\* The command line implements the specification of every command (main.rs):
\* its dispatch adds no behaviour to an analysis, to the matrix, to the
\* verification of a corpus or to the examination of a pair.
THEOREM CommandImplementsParts ==
  CommandSpec => AnalysisSpec /\ MatrixSpec /\ CorpusSpec /\ PairSpec
BY CommandStartsParts, CommandKeepsParts, PTL
DEF CommandSpec, AnalysisSpec, MatrixSpec, CorpusSpec, PairSpec

\* What is proved of a part is true of every process: a matrix report is
\* complete and its provenance exact, a corpus is verified exactly when it is as
\* its manifest says, a pair of certificates is judged exactly, and an analysis
\* accepts only what its evidence earns and is refused exactly when its path
\* moved.
THEOREM CommandsAreExact ==
  CommandSpec => [](/\ MatrixIsComplete /\ ProvenanceIsExact /\ VerifiedIsExact
                    /\ ConformanceIsExact /\ HybridIsEarned /\ ClassicalIsEarned
                    /\ DocumentedVerdicts /\ InconclusiveNeverRejects
                    /\ OnePathOrRefusal)
BY CommandImplementsParts, MatrixIsAlwaysComplete, ProvenanceIsAlwaysExact,
   CorpusIsVerifiedExactly, ConformanceIsExactAlways, HybridOnlyEarned, ClassicalOnlyEarned,
   VerdictsAreDocumented, UndecidedIsNoRejection, OnePathOrRefused, PTL
=============================================================================

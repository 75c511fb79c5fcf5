# Verification of the hybrid X.509 evidence policy evaluator

TLA+ models of this repository's core, the TLC runs that check them on small
instances, and TLAPS proofs of what matters most for every instance. Paths such
as `src/src/oracle.rs` start at the directory above this one; the Rust sources
are `src/src/`, the documents `src/docs/`.

Every definition that models code is listed in `PROJECT.json` under `map` with
the lines it models; hazards, runs, mutants, findings and theorems are listed
there too.

## The system

The program records what certificate-verification stacks say about hybrid
(classical plus post-quantum) certificate paths and decides what that evidence
supports. It is a library with a command line around it.

| Part | State it keeps | Operations | Talks to |
|---|---|---|---|
| Evidence model (`model.rs`) | none; request and result documents | predicates on certificates, scopes, designs | everything |
| Policy oracle (`oracle.rs`) | none between calls; the caller's request and answer | `validate_request`, `evaluate` under P0, P1, P2 | called by the command line and the analyses |
| Process runner (`process.rs`) | one child, its process group, two pipes, two reader threads | `run_program` | called by the adapters; system calls |
| Stack adapters (`adapters/`) | a process-wide version cache behind a mutex | one `verify` per stack and mode | process runner, files, containers; give observations to the oracle's requests |
| OCSP checker (`ocsp.rs`) | none | `check_ocsp_status` | files; its answer becomes the revocation check of an evidence item |
| CRL checker (`pem.rs`) | none | `check_crl_status` | as above |
| Certificate inspection (`pem.rs`) | none | design classification, related-certificate conformance | analyses |
| Bounded input (`input.rs`) | none | `read_bounded_file` | all readers of files |
| Mutation (`mutation.rs`) | none | flip one bit of an encoding | analyses, matrix |
| Analyses (`analysis/*.rs`) | temporary files | run adapters, build evidence, evaluate per scope | adapters, checkers, oracle |
| Matrix (`analysis/matrix.rs`) | the report under construction | run all cases, compare with expectations | adapters |
| Corpus (`corpus.rs`) | counters | compare files with a manifest | input |
| Command line (`main.rs`) | none | parse, call, print JSON | all |
| Adapter images, corpus generator (`tools/`) | - | programs inside containers | seen by the adapters as external commands |

What is hard in it:

- **Concurrency.** `run_program` has a calling thread, two reader threads, the
  child, and whatever the child starts. The version cache is shared by all
  threads that use the library, and its lock is not held while the version
  command runs. (The command line itself calls one adapter at a time; tests and
  users of the library need not.)
- **Failure and time limits.** The limit races the child's exit; the kill
  reaches a process group, not every process; a failing system call returns at
  once; an output cut at the limit must not be taken for a whole one.
- **Files read twice.** An adapter reads and hashes its inputs, then a program
  opens them again. An analysis reads the same certificate for its runs, its
  digests, its edges and the path of the request; the conformance of a pair reads
  each file three times; a bounded read measures first and reads afterwards.
- **Names that move.** The matrix records commit, tree and image digests first
  and runs hundreds of commands by tag afterwards.
- **Long lines of controls.** A path-scope analysis makes thirty to sixty runs and
  checks; each can fail, be inconclusive or come out otherwise than documented,
  and the evidence must claim exactly what was established.
- **Decisions over many partial results.** The oracle folds some ten checks,
  with states and confidences, per item, item per certificate, certificate per
  scope, into one verdict. Loops that return early depend on order; empty sets
  pass; missing digests match.
- **Time arithmetic.** OCSP times are unsigned 64-bit with saturating sums,
  validation times are signed, CRL times signed with strict bounds.

What makes each part correct: the oracle grants a hybrid verdict only when
path, stack and evidence earn it, and known failures decide; the runner's
records are complete and truthful, and it neither blocks the child nor signals
a foreign group; an adapter's observation describes the run it comes from; the
revocation checkers pass only what a trusted, current statement supports, and
agree with each other; an analysis claims for a position and a component what its
controls established, all about one path, or it is refused; a report of the
matrix is whole and its provenance true of its runs; a corpus is verified only
as read; a conforming pair is one by every rule.

## Modules

| Module | Models | Runs in | Proofs in |
|---|---|---|---|
| `Evidence` | `model.rs` | (used by `Evaluation`) | |
| `Evaluation` | `oracle.rs`, as operators | (used by `Oracle`, `AnalysisParts`) | `EvaluationProofs` |
| `Oracle` | a caller's session with `oracle.rs` | `MCOracle` | `OracleProofs` |
| `BoundedCall` | what callers of `run_program` rely on | (refined by `ProcessRunner`) | |
| `ProcessRunner` | `process.rs` | `MCProcessRunner` | `ProcessRunnerProofs` |
| `Adapter` | `adapters/*.rs` | `MCAdapter` | `AdapterProofs` |
| `Revocation` | `ocsp.rs`, the CRL part of `pem.rs` | `MCRevocation` | `RevocationProofs` |
| `AnalysisParts` | `analysis/mod.rs`, what all analyses share | (used below) | `AnalysisProofs` |
| `PathScope` | the five `analysis/*_path_scope.rs` | (used by `CrossSigned`) | `AnalysisProofs` |
| `CrossSigned` | `analysis/cross_signed_path.rs` | (used by `Analyses`) | `AnalysisProofs` |
| `Credentials` | `analysis/*_tls.rs`, `tls.rs`, `related_openssl.rs`, `catalyst_bouncy_castle.rs` | (used by `Analyses`) | `AnalysisProofs` |
| `Analyses` | one call of an analysis | `MCCommandLine` | `AnalysisProofs`, `RefusalProofs` |
| `Matrix` | `analysis/matrix.rs` | `MCCommandLine` | `CommandLineProofs` |
| `Corpus` | `corpus.rs`, `input.rs`, PEM decoding | `MCCommandLine` | `CommandLineProofs` |
| `Inspection` | inspection and conformance in `pem.rs` | `MCCommandLine` | `CommandLineProofs` |
| `CommandLine` | the commands of `main.rs` that take several steps | `MCCommandLine` | `CommandLineProofs` |

**Evidence and Oracle.** `Evidence` has the enumerations and records of
`model.rs` as sets, with the predicates on them. `Evaluation` is `evaluate` and
all it calls, as operators of a request; the analyses evaluate with the same
operators. `Oracle` keeps a session: a
`request`, the `response` to it, and the `last` pair. `Evaluate` is one call of
`evaluate`; `Revise` is the caller preparing the next request from the one just
answered, as the analyses do when they evaluate the same evidence under another
scope. `validate_request` is a sequence of tests whose first error is returned,
in the order of the code. Digests, names and times are members of small sets,
with one ill-formed member each; error details and the texts of reasons are left
out. The states of `evidence_state`, the policy arms, the flags and
`failed_checks` are operators of the same names.

**ProcessRunner.** The variables are the calling thread's position and record,
the two processes (the child and one it may start) with their group, exit status
and open pipe ends, the pipes, and the two readers. One action per system call of
the caller, per `read` of a reader and per thing a program may do. Bytes are
counted, not represented. The programs are the environment: they may write,
close, exit, fork, leave the group, or do nothing for ever. `BoundedCall` is the
promise without threads, pipes and signals: a program produces output and ends,
and the call fails, or returns once, after the program ended and its last byte
was produced, with its status and of each stream a prefix of at most the limit.
The mapping (`Call`) takes what was written for what was produced and the record
for the record; the property `ImplementsBoundedCall` is the abstract specification.

**Adapter.** Each `verify` function is a sequence of steps (`Steps`), in the
order of its code; a call holds the steps still to do and what it has gathered.
`LookUpVersion`, `RunVersion` and `InsertVersion` are separate actions, since
the lock is released between them. The environment replaces files and upgrades
programs at any moment. The content of a file stands for its digest. Process
outputs are the facts the classifiers test: exit status, time-out, truncation
and the markers found. `saw` is a history variable: what the verification
command was really given, the time in its arguments included (`given_time`: whole
seconds for most stacks, whole minutes and two digits of the year for NSS, which
`vfychain -b` reads as a time of one fixed century). A call of `ProcessRunner` is one step here; that a
record is complete and truthful is what `ProcessRunner` shows. Arguments and
traces are left out.

**Revocation.** A document is the set of answers the parsers and the signature
verification give about it (`Targets`, `Responses`, `Crls`); the decisions from
there on are the code's, saturation at `MaxU64` included. A caller checks the
documents it holds by either checker, in any order, as time moves on. Errors are
one outcome, `NoAnswer`.

**AnalysisParts, PathScope, CrossSigned, Credentials, Analyses.** An analysis is a
straight line of operations followed by the construction of one or more requests.
`X_steps` is that line: a sequence of steps, each with the files it reads, its
result in the documented run, and the other results the operation can have. The
documented run is the one of the recorded reports (`reports/local-arm64/`) that the
repository's tests assert on: in the three related analyses the pair does not
conform, at the leaf either (`related_failures`, `published_failures`).
`X_submission` is the construction, from the results by name. `Analyses` walks
along the line: `RunAdapter`, `CheckCertificate` and `HashFiles` record a result,
documented or not; `InspectControl` ends on a wrong scheme, `CompareRoutes` on a
wrong route, `StepFails` on any error; `ReplaceFile` is somebody replacing a
certificate the next step reads; `Evaluate` evaluates every submission at every
scope with `Evaluation`; `Refuse` and `Report` end the call. A call of an adapter
or of the CRL checker is one step here; `Adapter` and `Revocation` show what such
a call does. The five path-scope analyses share `position_id`, replacement and
direct runs; they differ in controls, in the order of steps, in where the trust
store of a direct run comes from and in what a control is taken to establish.

**Matrix.** The commands of a call are numbered: three of git, one per recorded
image, then 23 rows by 15 adapters. `RunCase` runs the image its tag names now and
appends the entry `push` makes; the version an image prints is kept by the version
cache, and names a Bouncy Castle run. The environment commits, edits the tree or
moves a tag, to another image or back to one it named.

**Corpus.** One artifact is opened and measured (`OpenArtifact`), read
(`ReadArtifact`) and decoded and compared (`CompareArtifact`); `WriteFile` may
write any file in between. Lengths are bounded by `MaxLength`, the largest word,
so that the limit plus one may saturate.

**Inspection.** `InspectReference` is the inspection that precedes conformance,
`ReadCertificate` one of the six reads, `Conclude` the result as the set of checks
that fail. A certificate is the record of the fields the code looks at.

**CommandLine.** One process carries out one command: an analysis, the matrix, a
corpus or the pair, each with its own variables; what a command does not touch
stays as it is at its own start.

## Runs

All runs pass or fail as `PROJECT.json` expects. Each property of a passing run
has a mutant of the code (a definition next to the one it mutates, marked
"Mutant") under which TLC finds it violated.

| Run | What it asks |
|---|---|
| `oracle` | Five initial requests (composite, Catalyst, Chameleon, related and related-under-post-quantum designs) of which any two parts are revised, one after the other: checks, confidences, schemes, designs, stack report, policy, scope, digests, identifiers, positions, pairs, anchors, evidence left out. Every hybrid verdict is earned (`HybridSound`), what passes validation is bound to the reported path (`ValidatedIsBound`), known failures decide (`KnownFailureRejects`), the fallback and lifecycle flags mean what they say, worse evidence never earns more, narrowing the scope keeps a hybrid verdict, P0 to P2 are ordered, and a rejection always has its explanation in the answer (`RejectionIsExplained`). |
| `process` | Caller, readers, child and descendant in every interleaving, with failing system calls: `CaptureExact`, `RecordComplete`, `RecordTruthful`, `KillWhileUnreaped`; a full pipe is drained again, also beyond the limit (`NeverBlocksTheChild`); `run_program` returns unless a process left behind holds a pipe (`ReturnsUnlessHeld`); every step is one of the abstract call (`ImplementsBoundedCall`). |
| `adapter_calls` | Every adapter and mode, every output, one file replaced at any moment: the observation is exact when nothing changed, an adapter-selected path is exact even then, conclusive verdicts come from complete runs, a claimed time was given to the run, less than a second off (`AppliedTimeWasGiven`; for NSS up to whole centuries when two digits cannot name the year, and never otherwise). |
| `adapter_cache` | Two callers race on the version cache over two images and two executables that are displayed alike: only complete outputs are cached, each caller completes a version command at most once per key, a reported version is that of the command that ran. |
| `revocation` | Both checkers on well-signed documents at all times and on documents with every defect of signature, issuer, responder, nonce, extension and identifier: `OcspSound`, `SoftFailNeedsRevocation`, `CheckersAgree`, `RevokedStaysRevoked`. |
| `analysis` | All twelve analyses, with odd results, errors and replaced files at every step: the documented controls give the documented verdicts, and a related pair is named as not conforming (`DocumentedVerdicts`), a hybrid or classical claim is made exactly when each control it rests on came out as it must (`HybridIsEarned`, `ClassicalIsEarned`), an analysis whose files moved is refused, exactly then (`OnePathOrRefusal`), inconclusive runs never turn a verdict (`InconclusiveNeverRejects`). The matrix: a report is whole, its claims are distinct and its control runs discriminate (`MatrixIsComplete`), its provenance is true of its runs except in the named windows (`ProvenanceIsExact`). The corpus: verified exactly when what was read, within the bounded buffer, is what the manifest says (`VerifiedIsExact`). The pair: what was read conforms exactly when the rules hold (`ConformanceIsExact`). |

Six runs state what a document or a test says and the code does not do; each is
a finding.

| Run | Finding |
|---|---|
| `process_time_limit` | The limit covers the wait, not the join: a process that keeps a pipe open after the child ended holds `run_program` for ever. |
| `process_descendant` | A descendant that left the process group is active after a timed-out record was returned. |
| `adapter_alias` | The cache key is a lossy text: two commands can share it, and one is then reported with the version of the other. (In `adapter_cache` neither of the executables displayed alike is valid UTF-8, so `AdapterExecution::report` refuses both and nothing wrong is reported; here one of them is.) |
| `adapter_century` | NSS is given two digits of the year, so from 2050 on it judges at a time a century off, and the observation says that the requested time was applied; `docs/verification-status.md` has the stack report name the applied time. |
| `revocation_unavailable` | An unsuccessful OCSP response is answered Indeterminate whatever the revocation mode, where the test of the modes asks for Fail under hard-fail and NotApplicable under not-required. |
| `cross_signed` | The leaf's evidence on the classical route is copied from the atomic one; the path mutations of the leaf that were run on the classical route are reported and decide nothing, where `docs/verification-status.md` says that path mutations establish the evidence. |

Three more things the runs show. A not-applicable check passes in two cases:
revocation under `not-required`, and binding (`HybridSound` says so of every item a
hybrid verdict rests on). The repository's tests ask for the second too; the
status document names only the first. When the path builder
prefers the classical route, `cross_signed_path::analyze` evaluates the atomic
route with that path all the same and ends with `SelectedPathMismatch`; the arm of
its last `match` for the classical route is never taken (`OnePathOrRefusal`). In
three handshakes (`atomic_tls`, `chameleon_tls`, `related_tls`) a run without a
conclusion is recorded as a failed path check; `InconclusiveNeverRejects` leaves
them out by name.

### Bounds

- Oracle: `MaxRevisions = 2`. Two revisions reach every pair of defects, which is
  what masking of one failure by another takes; the comparisons between requests
  relate one revision to the next. Paths have at most two certificates: the loops
  treat an intermediate like any other, and order and position tests need two.
- Process runner: limits 0 to 2 (0 is refused), reads of 2 bytes, pipes of 2, up
  to 3 bytes per stream. A read may straddle the limit, end on it, and follow it;
  a pipe may be full. One descendant stands for all processes left behind.
- Adapter: one call and one replacement over every configuration; two callers,
  three calls and one upgrade for the cache (callers are symmetric). Three calls
  let a caller miss, insert and hit while the other is between lookup and insert.
  A second is two ticks, a minute two seconds and a century two minutes, all taken
  to be of one length: times in, before and after the century of the short years,
  on a minute, a second or neither.
- Revocation: `MaxU64 = 7`, times from -1 to 7: before the epoch, equal to and
  around every bound, and where sums saturate. `Cases` holds every well-signed pair
  of documents, every defective response beside one CRL, and every defective CRL
  beside one response: the checkers share the certificate and the time only.
- Analyses: all twelve, every step, every result the operation can have. Odd
  results and replaced files together are at most two for the handshakes, `pure`
  and `related_openssl`, one for the others (`Surprises`): one at every step shows
  for each single control whether it matters and how, two whether one hides
  another, in the analyses that are short enough.
- Matrix: the full table of 345 runs with the default images and three pairs of
  Bouncy Castle versions. Two changes of head, tree or tags (`MaxDisturbances`),
  at the commands `DisturbancePoints` gives for each thing: 2 (between the git
  commands), 6 (between two inspections), 17 (before the first run) and 350
  (between the runs). So a tag is moved before its inspection, after it, away and
  back before its first run, away and back between two runs, and after its last
  one. A thing changes at most once between two commands: no command sees more.
- Corpus: three files of seven contents, three manifests of one to three
  artifacts, limits 2 and 4 where 4 is the largest length, one write.
- Pair: fourteen first and eleven second certificates, each one step from a
  conforming one, one replacement at any read.

`CHECK_DEADLOCK FALSE` is set for the oracle, the runner, the adapters and the
commands: a session stops at its last revision, `run_program` returns, callers
reach `MaxCalls`, a command ends, and nothing need follow. A revocation check can always be repeated,
so there deadlock is checked.

### Fairness

Only the liveness properties of `process` and `process_time_limit` need it. `ProcessRunner` assumes
weak fairness of the calling thread's ordinary steps (`Advance`) and of each
reader thread: the operating system runs runnable threads, and the time limit
passes. No system call has to fail, so progress never rests on a fault, and
nothing is assumed of the programs, which may run, block or hold pipes for ever.
The analyses, the matrix and the corpus are straight lines of steps without a loop
that could fail to end; that they end follows from each step ending, so no
liveness is stated for them.

## Proofs

`tlapm` checks all of them. They hold for every value of the constants that
satisfies the named assumptions (which TLC evaluates on each run). Every
invariant and safety action property of the passing runs is stated by a theorem;
what is left to TLC is at the end of this section.

- **EvaluationProofs** holds the lemmas about `evaluate` that the oracle and the
  analyses share: what validation establishes about each item, when a component
  is present, passes or is missing, and which verdict each policy then gives.

- **OracleProofs** (`RequestsAreTyped`). `OracleTypeCorrect`: every evaluation
  ends in a named error or one of the five verdicts, so no `unreachable!` arm is
  taken. `OracleHybridSound`: a hybrid verdict is earned, for all requests, path
  lengths and numbers of items. The invariant `OracleInv` adds that the response
  is the answer to the request beside it; the work is in lemmas about
  `evaluate`: the first error of the tests is "ok" only if all tests are, what
  validation establishes about each item, and what a passing `evidence_state`
  and design state imply.
  The seven other oracle properties compare two requests, or go from a verdict
  back to its cause. `SessionInv` adds to
  `OracleInv` that the `last` pair is a request and its answer. The argument for
  `DegradationNeverUpgrades` is monotony, item by item: a state that gets worse
  makes no `evidence_state` better, no item stops being in scope, and hence no
  component becomes present or passes. `RejectionIsExplained` goes the other
  way, from a Reject to the item, pair or stack verdict behind it, and shows that
  `failed_checks` lists it.
- **ProcessRunnerProofs** (`RunnerConstants`). Type correctness, `CaptureExact`,
  `RecordComplete`, `RecordTruthful` and `KillWhileUnreaped`, for all limits,
  buffer sizes, pipe capacities and amounts of output. A returned record says
  nothing of the steps that led to it, so `RunnerInv` adds what the caller's
  position implies, that a process that does not run holds no pipe, and that a
  reader ends only at the end of its stream. `RunnerImplementsCall`, from the same
  invariant: the runner implements `BoundedCall`. Every action maps to a step or a
  stutter: joining both readers is `Return`, and the invariant gives that by then
  the child is reaped, both streams are at their end and what was kept is the
  bounded prefix.
- **AdapterProofs** (`AdapterConstants`, `ConfigsAreTyped`, `NoneIsNoOutput`).
  All eight properties, for any number of callers, calls, replaced files and
  upgrades. What an observation says depends on steps that are over, and each
  adapter has its own order of steps. So `AdapterInv` says of every call that its
  steps to do are the rest of its adapter's line, and that each step before them
  `Established` its part (the version, the recorded inputs, the path, the run)
  about the files and programs as they are, unless they were touched since the
  call began; a returned call has all parts. `CacheInv` says whose output the
  cache holds. `VersionRunsAreBounded` needs a count: `CountInv` says that until
  an output is cached, those who completed its command are exactly the callers
  still to insert it, and from then on those who completed it and those still
  running it are together no more than the callers. `VersionsAreExact` has the
  hypothesis `NoAlias`, that no executable whose path is not UTF-8 is displayed
  like one whose path is: true in `adapter_cache`, false in `adapter_alias`,
  where the property is violated. It is the exact condition of that finding.
  `AppliedTimesWereGiven` has no such hypothesis: the century is part of the
  statement, and `adapter_century` violates it without that part.
- **RevocationProofs** (`RevocationConstants`, `DocumentsAreTyped`). Type
  correctness, `OcspIsSound`, `SoftFailFailsOnRevocation`, the action property
  `RevokedIsForever`, and `CheckersNeverContradict`. `RevocationInv`: each answer
  kept is the checker's answer for the documents held and a time already reached.
  The main lemma, `FreshIsCurrent`, turns saturating into plain arithmetic; the
  last theorem compares the two checkers' answers for one record and one time.
- **AnalysisProofs** (`KindsAreAnalyses`, `RequestsAreNamed`,
  `HashesAreWellFormed`), for any number of odd results and replaced files.
  `HybridOnlyEarned` and `ClassicalOnlyEarned` rest on one invariant,
  `AnalysisInv`: an odd result is one its step can give and that is not the
  documented one, and the answers are what `evaluate` gives for the submissions
  built from the results. The names of each of the twelve tables are shown to be
  distinct, so a result is the documented one or odd; then what each control
  contributes to its item, what the items of a component say together at each
  scope, and what verdict follows.
- **RefusalProofs**, on the same assumptions and the same invariant.
  `UndecidedIsNoRejection`: what an inconclusive result makes of an item is never
  what a failed one makes of it. `VerdictsAreDocumented`: with no odd result and no
  file replaced, every submission is accepted by `validate_request` and each verdict
  is computed; and the failing conformance of a related pair is traced from its step
  to `failed_checks` (`PairsDocumented`). `AnalysisTypeCorrect` needs that the oracle never refuses a
  request for its form. `AnalysisTypeInv` adds that the cross-signed builder got
  past the comparison of its routes only with a route it knows. Every submission
  is then `Orderly` (its items are of the path, their positions, kinds and
  operations fit); of an orderly request `validate_request` can only find that two
  digests differ, and it does so exactly when they do not fit the path (`Fits`).
  `OnePathOrRefused` says of which file, and between which two steps, a replacement
  is noticed. The results alone do not tell: an invariant must remember what was on
  disk at each step. `HistoryInv` (`HistoryInvariant`) does: a file was replaced
  before a step that was reached, a step not yet taken has no odd result, and every
  digest taken is the one of the files as they were at its step. The rest has three
  parts. *Order*: each of the twelve tables takes the stack's digests before those
  of the evidence and of the request (`PathOrdered`, `CredentialOrdered`,
  `BouncyCastleOrdered`, `CrossOrdered`), shown by composing `Sequel` over the
  pieces a table is concatenated from. *Comparison*: what `Fits` comes to for each
  submission, as equalities between results (the lemmas `...Fitting`). *Versions*:
  two digests of a file are equal exactly when both steps saw the same version,
  and a file seen replaced stays so, so a chain of equal digests says that the file
  did not move from the first to the last (`MovedBetween`). In the
  cross-signed analysis the comparison of routes pins the intermediates and roots to
  their first version, and a classical route can never be the one that
  `evaluate_atomic_route` asks about.
- **CommandLineProofs** (`TagsAreConfigured`, `LengthsFit`, `CorporaAreTyped`,
  `DigestsAreWellFormed`). `ProvenanceIsAlwaysExact`:
  `ProvenanceInv` says for each inspected tag that it names something else than
  what was recorded exactly when its last move since went elsewhere (`MovedAway`),
  and that something else was run under it exactly when it was away at one of its
  runs so far (`RanAway`), of which there is one (`EveryTagRuns`).
  Commits are compared through the head, which only grows. `MatrixIsAlwaysComplete`:
  `EntriesInv` says that the entries are those of the runs so far, in order, under
  names the cache still gives. The claims of 345 runs are then counted as the
  image of an injection or not: rows differ, names differ but for Bouncy Castle's.
  `CommandImplementsParts`: the dispatch adds no behaviour,
  so the command line implements each part's specification, and
  `CommandsAreExact` carries the theorems about the analyses, the matrix, the
  corpus and the pair over to the process.
  `CorpusIsVerifiedExactly`: `CorpusInv` says that the artifacts before the
  current one were read as the manifest says, that the buffer is what `take`
  leaves of a content the file had, and, as long as nothing was written, that it
  is the file's. `DecodeIsExact` shows that a file read up to one byte over the
  limit, or to the largest length where that byte does not exist, decodes
  exactly when it is within the limit and of the kind. `ConformanceIsExactAlways`:
  `PairInv` says which file each read is of, and that a call past the second read
  found no binding error; four lemmas show that the code's tests of usages,
  purposes and algorithms are the rules of `Conforming`.

The assumptions ask of the constants what the code gives: finite sets, values of
the right types, markers that are no values. Two say more. `CorporaAreTyped` has
that what `SelectSeq` selects from a manifest is a list of its members, since
the prover knows nothing of `SelectSeq`; and that every file a manifest names holds
something, a missing one being an I/O error. `TagsAreConfigured` has that
`SortedTags` lists the configured tags once each, which is what sorting and
removing duplicates gives in `collect_provenance`.

Only model-checked:

- the liveness properties of the runner: fairness and ENABLED are out of the
  prover's reach.

## Not modelled

- Of the command line: argument parsing, the schema commands, JSON output and exit
  codes (a rejected request still ends with status 0: the verdict is the output).
- Of the matrix: `process_record_check`, the texts of specifications and the files
  of the cases; a run there fails or gives an entry.
- Of the analyses: what is reported and not evaluated (protocol, cipher suite,
  group, proof of possession), and `previous_authentication`, which the oracle
  hands through.
- Which bit `corrupt_outer_signature` flips, and that the result still parses: it
  is a fact about one DER encoding.
- The adapter images and the corpus generator: programs run in containers, seen
  as external commands with arbitrary outputs.
- ASN.1 parsing, signatures and digests: their answers are inputs of the models.

## Further work

- An abstract specification of the version cache (each key is unset, then set
  once, to a complete output), which `Adapter` implements.
- A second look at the theorems' hypotheses: which assumptions a proof could do
  without.

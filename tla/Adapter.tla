------------------------------ MODULE Adapter ------------------------------
(***************************************************************************)
(* The stack adapters of src/src/adapters.  Every verify function runs the *)
(* same kind of sequence: it resolves the program, reads and records its   *)
(* input files, hashes the path it presents, asks the program for its      *)
(* version through a cache that the whole process shares, runs the         *)
(* verification and classifies what was printed.  Steps gives the order,   *)
(* which differs between adapters; todo holds what is left of it.          *)
(*                                                                         *)
(* The environment replaces files and upgrades programs at any time.  One  *)
(* step reads all the files of a phase: as files are replaced one by one,  *)
(* each combination of old and new contents is still read by some          *)
(* behaviour.  Time is counted in ticks, several of them to a second.      *)
(***************************************************************************)
EXTENDS Integers, Sequences, FiniteSets

CONSTANTS
  Callers,            \* the threads that call an adapter
  Configs,            \* the configurations they call it with
  DisplayedAs,        \* each executable path -> the text Path::display gives
  Utf8,               \* the executable paths that are valid UTF-8
  Certificates,       \* file contents that hold one PEM certificate
  InitialFiles,       \* what the files may hold at first
  OtherContents,      \* readable file contents that do not
  Versions,           \* what a program may print as its version
  VersionResults,     \* how a version command may end
  Outputs,            \* how a verification command may end
  TicksPerSecond, SecondsPerMinute, MinutesPerCentury,
  ShortYearsFrom,     \* the first time that a year of two digits stands for
  BadTime,            \* a time that RFC 3339 parsing refuses
  Unreadable,         \* no regular file, or one over MAX_INPUT_BYTES
  None,
  MaxCalls,           \* bound: calls
  MaxReplacements,    \* bound: files replaced
  MaxUpgrades         \* bound: programs upgraded

File == {"root", "intermediate", "leaf", "crl", "key", "script"}

ASSUME AdapterConstants ==
  /\ TicksPerSecond \in Nat \ {0}
  /\ SecondsPerMinute \in Nat \ {0}
  /\ MinutesPerCentury \in Nat \ {0}
  /\ ShortYearsFrom \in Int
  /\ IsFiniteSet(Callers)
  /\ {MaxCalls, MaxReplacements, MaxUpgrades} \subseteq Nat
  /\ None \notin Int /\ BadTime \notin Int \cup {None}
  /\ Unreadable \notin Certificates \cup OtherContents
  /\ Certificates \cap OtherContents = {}
  /\ InitialFiles \subseteq [File -> Certificates \cup OtherContents]

VARIABLES
  files,         \* the contents of each file
  tool,          \* the version installed behind each command
  cache,         \* the version cache: key -> output, None when absent
  call,          \* each caller's current or last call
  calls,         \* calls begun so far
  replacements,  \* files replaced so far
  upgraded,      \* the commands whose program was upgraded
  ran            \* complete version runs so far, by key

vars == <<files, tool, cache, call, calls, replacements, upgraded, ran>>

-----------------------------------------------------------------------------
(* Configurations *)

\* The order of each verify function.
openssl_verify == <<"resolve", "record", "select", "time", "version", "run">>
openssl_verify_tls ==
  <<"hostname", "time", "resolve", "record", "select", "image", "version", "mount", "run">>
openssl_verify_container ==
  <<"resolve", "record", "select", "time", "image", "version", "mount", "run">>
gnutls_verify == <<"resolve", "record", "select", "version", "authorities", "run">>
gnutls_verify_container ==
  <<"resolve", "record", "select", "time", "image", "version", "mount", "run">>
go_verify == <<"resolve", "record", "select", "version", "run">>
go_verify_container ==
  <<"resolve", "record", "select", "image", "version", "mount", "run">>
pyca_verify == <<"resolve", "record", "select", "version", "run">>
pyca_verify_container ==
  <<"resolve", "record", "select", "time", "image", "version", "mount", "run">>
wolfssl_verify ==
  <<"resolve", "record", "select", "time", "image", "version", "mount", "run">>
nss_verify == <<"resolve", "record", "select", "time", "image", "version", "mount", "run">>
bouncy_castle_verify ==
  <<"resolve", "required", "record", "image", "version", "mount", "run", "path">>

\* oqs_provider::verify is openssl_verify_container with other arguments.
Steps ==
  [openssl |-> openssl_verify, openssl_tls |-> openssl_verify_tls,
   openssl_container |-> openssl_verify_container, gnutls |-> gnutls_verify,
   gnutls_container |-> gnutls_verify_container, go |-> go_verify,
   go_container |-> go_verify_container, pyca |-> pyca_verify,
   pyca_container |-> pyca_verify_container, wolfssl |-> wolfssl_verify,
   nss |-> nss_verify, bouncy_castle |-> bouncy_castle_verify]

\* A configuration belongs to one adapter; an intermediate is optional except
\* for Bouncy Castle, whose configuration always names one.
ASSUME ConfigsAreTyped ==
  \A cfg \in Configs :
    /\ cfg.adapter \in DOMAIN Steps
    /\ cfg.optional \subseteq File
    /\ cfg.adapter = "bouncy_castle" => "intermediate" \in cfg.optional
    /\ cfg.time \in Int \cup {BadTime}

\* The files a configuration names; record_inputs is given all of them.
Supplied(cfg) == {"root", "leaf"} \cup cfg.optional

\* The files the verification command opens.  Bouncy Castle is only told of
\* the key and the CRL in the modes that use them.
ReadByTool(cfg) ==
  IF cfg.adapter # "bouncy_castle" THEN Supplied(cfg)
  ELSE {"root", "intermediate", "leaf"}
         \cup (IF cfg.mode = "TlsTranscript" THEN {"key"} ELSE {})
         \cup (IF cfg.mode = "CrlStatus" THEN {"crl"} ELSE {})

command(cfg) == <<cfg.executable, cfg.image>>
\* Mutant: the arguments are left out of the key.
KeyOfExecutable(cfg) == <<DisplayedAs[cfg.executable]>>

\* One text for the executable and the arguments; bytes that are not UTF-8 are
\* displayed as replacement characters.
version_cache_key(cfg) == <<DisplayedAs[cfg.executable], cfg.image>>

TicksPerMinute == TicksPerSecond * SecondsPerMinute
TicksPerCentury == TicksPerMinute * MinutesPerCentury
DownTo(unit, time) == time - (time % unit)

\* The times a year of two digits can name, one century of them, and what a
\* time becomes when its year is cut to two digits and read again.  Centuries
\* are taken to be of one length: only which century it is matters.
ShortYears == ShortYearsFrom .. ShortYearsFrom + TicksPerCentury - 1
two_digit_year(time) == ShortYearsFrom + ((time - ShortYearsFrom) % TicksPerCentury)

\* Mutant: NSS is given any time.
AnyPrecision(cfg) == TRUE

\* The text NSS is given has no seconds.
precise_enough(cfg) == cfg.adapter = "nss" => cfg.time % TicksPerMinute = 0

\* The tests that depend on the configuration alone.
accepted(cfg, step) ==
  CASE step = "hostname" -> cfg.hostname # ""
    [] step = "image"    -> cfg.image # ""
    [] step = "required" -> /\ cfg.mode = "TlsTranscript" => "key" \in cfg.optional
                            /\ cfg.mode = "CrlStatus" => "crl" \in cfg.optional
    [] step = "time"     -> cfg.time # BadTime /\ precise_enough(cfg)

\* The time in the arguments of the verification command: seconds since the
\* epoch, a text without fractions, a text without seconds and with two digits
\* of the year, the caller's own text, or nothing.
given_time(cfg) ==
  CASE cfg.adapter \in {"openssl", "openssl_tls", "openssl_container",
                        "gnutls_container", "wolfssl"} ->
         DownTo(TicksPerSecond, cfg.time)
    [] cfg.adapter = "nss" -> two_digit_year(DownTo(TicksPerMinute, cfg.time))
    [] cfg.adapter = "gnutls" -> None
    [] OTHER -> cfg.time

-----------------------------------------------------------------------------
(* Process outputs *)

\* status is "0", "other" or "signal"; markers are the phrases, or the JSON
\* verdict, that a classifier looks for in what was printed.
Markers == {"accept", "unsupported", "reject"}
Cut(output) == output.timed_out \/ output.stdout_truncated \/ output.stderr_truncated
Complete(output) == output.status = "0" /\ ~Cut(output)

\* Mutant: the exit status is looked at first.
StatusFirst(output) ==
  IF output.status = "0" THEN "Accept"
  ELSE IF Cut(output) THEN "Indeterminate"
  ELSE IF "unsupported" \in output.markers THEN "Unsupported"
  ELSE IF "reject" \in output.markers THEN "Reject"
  ELSE "Indeterminate"

classify_openssl(output) ==
  IF Cut(output) THEN "Indeterminate"
  ELSE IF output.status = "0" THEN "Accept"
  ELSE IF "unsupported" \in output.markers THEN "Unsupported"
  ELSE IF "reject" \in output.markers THEN "Reject"
  ELSE "Indeterminate"

classify_gnutls(output) ==
  IF Cut(output) THEN "Indeterminate"
  ELSE IF output.status = "0" /\ "accept" \in output.markers THEN "Accept"
  ELSE IF "unsupported" \in output.markers THEN "Unsupported"
  ELSE IF "reject" \in output.markers THEN "Reject"
  ELSE "Indeterminate"

\* Output that is not one JSON document with a known verdict has no marker, or
\* more than one.
classify_json_verdict(output) ==
  CASE ~Complete(output) -> "Indeterminate"
    [] Complete(output) /\ output.markers = {"accept"} -> "Accept"
    [] Complete(output) /\ output.markers = {"reject"} -> "Reject"
    [] Complete(output) /\ output.markers = {"unsupported"} -> "Unsupported"
    [] OTHER -> "Indeterminate"

classify(cfg, output) ==
  IF cfg.adapter \in {"openssl", "openssl_tls", "openssl_container"}
    THEN classify_openssl(output)
  ELSE IF cfg.adapter \in {"gnutls", "gnutls_container"} THEN classify_gnutls(output)
  ELSE classify_json_verdict(output)

\* A version output is also what its command printed, when it was not cut.
VersionOutputs(version) ==
  {[status |-> r.status, timed_out |-> r.timed_out,
    stdout_truncated |-> r.stdout_truncated, stderr_truncated |-> r.stderr_truncated,
    text |-> IF r.timed_out \/ r.stdout_truncated THEN None ELSE version] : r \in VersionResults}

\* Option::None is no output.
ASSUME NoneIsNoOutput == \A version \in Versions : None \notin VersionOutputs(version)

\* Mutant: a truncated version is cached too.
CachesTruncated(output) == output.status = "0" /\ ~output.timed_out

cacheable(output) == Complete(output)

\* Mutant: the adapters take any version output.
AnyVersion(output) == TRUE

\* What every adapter asks of the version output, cached or not.
version_accepted(output) == ~output.timed_out /\ output.status = "0"

-----------------------------------------------------------------------------
(* Calls *)

Idle == [outcome |-> "none"]
Running(c) == call[c].outcome = "running"
At(c, step) == Running(c) /\ Head(call[c].todo) = step

Update(c, new) == call' = [call EXCEPT ![c] = new]
Proceed(c, new) == Update(c, [new EXCEPT !.todo = Tail(@)])
Fail(c) == Update(c, [call[c] EXCEPT !.outcome = "error"])

Init ==
  /\ files \in InitialFiles
  /\ tool \in [{command(cfg) : cfg \in Configs} -> Versions]
  /\ cache = [key \in {version_cache_key(cfg) : cfg \in Configs} |-> None]
  /\ call = [c \in Callers |-> Idle]
  /\ calls = 0
  /\ replacements = 0
  /\ upgraded = {}
  /\ ran = [key \in {version_cache_key(cfg) : cfg \in Configs} |-> 0]

environment == <<files, tool, replacements, upgraded>>
shared == <<cache, calls, ran>>

Begin(c, cfg) ==
  /\ ~Running(c)
  /\ calls < MaxCalls
  /\ calls' = calls + 1
  /\ Update(c, [outcome |-> "running", cfg |-> cfg, todo |-> Steps[cfg.adapter],
                inputs |-> None, copied |-> <<>>, path |-> None, anchor |-> None,
                source |-> None, version |-> None, output |-> None, report |-> None,
                saw |-> None, quiet |-> TRUE])
  /\ UNCHANGED <<environment, cache, ran>>

Resolve(c) ==
  /\ At(c, "resolve")
  /\ Proceed(c, call[c]) \/ Fail(c)
  /\ UNCHANGED <<environment, shared>>

CheckConfig(c) ==
  LET step == Head(call[c].todo) IN
  /\ Running(c)
  /\ step \in {"hostname", "image", "required", "time"}
  /\ IF accepted(call[c].cfg, step) THEN Proceed(c, call[c]) ELSE Fail(c)
  /\ UNCHANGED <<environment, shared>>

record_inputs(c) ==
  LET contents == [f \in Supplied(call[c].cfg) |-> files[f]] IN
  /\ At(c, "record")
  /\ IF \E f \in DOMAIN contents : contents[f] = Unreadable
       THEN Fail(c) ELSE Proceed(c, [call[c] EXCEPT !.inputs = contents])
  /\ UNCHANGED <<environment, shared>>

\* Mutant: the issuer is hashed before the leaf.
IssuerFirst(cfg) ==
  (IF "intermediate" \in cfg.optional THEN <<files["intermediate"]>> ELSE <<>>)
    \o <<files["leaf"]>>

\* A digest is the content it is the digest of.
selected_path_hashes(cfg) ==
  <<files["leaf"]>>
    \o (IF "intermediate" \in cfg.optional THEN <<files["intermediate"]>> ELSE <<>>)

\* The call with the path it presents, or failed: read_der wants certificates.
WithPresentedPath(new) ==
  LET path == selected_path_hashes(new.cfg) IN
  IF {files["root"]} \cup {path[i] : i \in DOMAIN path} \subseteq Certificates
    THEN [new EXCEPT !.path = path, !.anchor = files["root"], !.source = "PresentedInput"]
    ELSE [new EXCEPT !.outcome = "error"]

Select(c) ==
  /\ At(c, "select")
  /\ Proceed(c, WithPresentedPath(call[c]))
  /\ UNCHANGED <<environment, shared>>

\* The rest of every verify once cached_version_output returned output.
WithVersion(c, output) ==
  IF version_accepted(output)
    THEN Proceed(c, [call[c] EXCEPT !.version = output])
    ELSE Fail(c)

\* cached_version_output: the lock is held for the lookup only.
LookUpVersion(c) ==
  LET hit == cache[version_cache_key(call[c].cfg)] IN
  /\ At(c, "version")
  /\ IF hit # None THEN WithVersion(c, hit)
     ELSE Update(c, [call[c] EXCEPT !.todo = <<"run_version">> \o Tail(@)])
  /\ UNCHANGED <<environment, shared>>

RunVersion(c) ==
  LET key == version_cache_key(call[c].cfg) IN
  /\ At(c, "run_version")
  /\ \E output \in VersionOutputs(tool[command(call[c].cfg)]) :
       IF cacheable(output)
         THEN /\ Update(c, [call[c] EXCEPT !.version = output,
                                           !.todo = <<"insert">> \o Tail(@)])
              /\ ran' = [ran EXCEPT ![key] = @ + 1]
         ELSE WithVersion(c, output) /\ UNCHANGED ran
  /\ UNCHANGED <<environment, cache, calls>>

\* Mutant: the output is never inserted.
ForgetVersion(c) ==
  /\ At(c, "insert")
  /\ WithVersion(c, call[c].version)
  /\ UNCHANGED <<environment, shared>>

InsertVersion(c) ==
  /\ At(c, "insert")
  /\ cache' = [cache EXCEPT ![version_cache_key(call[c].cfg)] = call[c].version]
  /\ WithVersion(c, call[c].version)
  /\ UNCHANGED <<environment, calls, ran>>

\* isolated_arguments resolves the path of every mounted file, which may be
\* gone or hold a delimiter.
Mount(c) ==
  /\ At(c, "mount")
  /\ Proceed(c, call[c]) \/ Fail(c)
  /\ UNCHANGED <<environment, shared>>

\* gnutls::verify copies the authorities into one temporary file.
CopyAuthorities(c) ==
  LET contents == [f \in Supplied(call[c].cfg) \ {"leaf"} |-> files[f]] IN
  /\ At(c, "authorities")
  /\ IF \E f \in DOMAIN contents : contents[f] = Unreadable
       THEN Fail(c) ELSE Proceed(c, [call[c] EXCEPT !.copied = contents])
  /\ UNCHANGED <<environment, shared>>

\* What the path builder reports: the digests of the path it built from the
\* files it read, leaf first and anchor last, or a document without a path.
PathReports(contents) ==
  {None, <<>>, <<contents["leaf"], contents["root"]>>,
   <<contents["leaf"], contents["intermediate"], contents["root"]>>}

Run(c) ==
  LET cfg == call[c].cfg
      contents == [f \in ReadByTool(cfg) |->
                     IF f \in DOMAIN call[c].copied THEN call[c].copied[f] ELSE files[f]]
      builder == cfg.mode = "PathBuilder"
  IN
  /\ At(c, "run")
  /\ \E output \in Outputs :
     \E report \in IF builder THEN PathReports(contents) ELSE {None} :
       LET ended == [call[c] EXCEPT
                       !.output = output, !.report = report,
                       !.saw = [files |-> contents, version |-> tool[command(cfg)],
                                time |-> given_time(cfg)]]
       IN  IF Tail(ended.todo) = <<>>
             THEN Update(c, [ended EXCEPT !.outcome = "ok"])
             ELSE Proceed(c, ended)
  /\ UNCHANGED <<environment, shared>>

\* Mutant: a report is used whatever the verdict.
ReportTrusted(c) == call[c].report # None

\* The path of an accepted path-builder run is the one it reports.
uses_report(c) == classify(call[c].cfg, call[c].output) = "Accept"

\* The end of bouncy_castle::verify.
SelectAfterRun(c) ==
  LET ended == [call[c] EXCEPT !.outcome = "ok"]
      report == call[c].report
  IN
  /\ At(c, "path")
  /\ IF call[c].cfg.mode # "PathBuilder" THEN Update(c, WithPresentedPath(ended))
     ELSE IF ~uses_report(c) THEN
       Update(c, [ended EXCEPT !.path = <<>>, !.anchor = "not-reported",
                               !.source = "NotReported"])
     ELSE IF report \in {None, <<>>} THEN Fail(c)
     ELSE Update(c, [ended EXCEPT !.path = SubSeq(report, 1, Len(report) - 1),
                                  !.anchor = report[Len(report)],
                                  !.source = "AdapterSelected"])
  /\ UNCHANGED <<environment, shared>>

\* A system call of the step fails: starting the program, a temporary file.
SystemCallFails(c) ==
  /\ Running(c)
  /\ Head(call[c].todo) \in {"run_version", "authorities", "run"}
  /\ Fail(c)
  /\ UNCHANGED <<environment, shared>>

-----------------------------------------------------------------------------
(* The environment *)

ReplaceFile(f, content) ==
  /\ replacements < MaxReplacements
  /\ files[f] # content
  /\ files' = [files EXCEPT ![f] = content]
  /\ replacements' = replacements + 1
  /\ call' = [c \in Callers |->
                IF Running(c) THEN [call[c] EXCEPT !.quiet = FALSE] ELSE call[c]]
  /\ UNCHANGED <<tool, upgraded, shared>>

Upgrade(cmd, version) ==
  /\ Cardinality(upgraded) < MaxUpgrades
  /\ cmd \notin upgraded
  /\ tool[cmd] # version
  /\ tool' = [tool EXCEPT ![cmd] = version]
  /\ upgraded' = upgraded \cup {cmd}
  /\ UNCHANGED <<files, replacements, call, shared>>

Verify(c) ==
  \/ \E cfg \in Configs : Begin(c, cfg)
  \/ Resolve(c) \/ CheckConfig(c) \/ record_inputs(c) \/ Select(c)
  \/ LookUpVersion(c) \/ RunVersion(c) \/ InsertVersion(c)
  \/ Mount(c) \/ CopyAuthorities(c) \/ Run(c) \/ SelectAfterRun(c)
  \/ SystemCallFails(c)

Environment ==
  \/ \E f \in File, content \in Certificates \cup OtherContents \cup {Unreadable} :
       ReplaceFile(f, content)
  \/ \E cmd \in DOMAIN tool, version \in Versions : Upgrade(cmd, version)

Next == (\E c \in Callers : Verify(c)) \/ Environment

Spec == Init /\ [][Next]_vars

-----------------------------------------------------------------------------
(* The observation of a call that returned Ok *)

verdict(c) == classify(call[c].cfg, call[c].output)

\* validation_profile of the observation.
profile(cfg) ==
  CASE cfg.adapter \in {"openssl_tls", "go", "go_container", "pyca", "pyca_container", "nss"} ->
         "WebPkiServer"
    [] cfg.adapter = "bouncy_castle" /\ cfg.mode = "TlsTranscript" -> "WebPkiServer"
    [] cfg.adapter = "bouncy_castle" /\ cfg.mode \in {"AlternativeSignature",
                        "DeltaSignature", "CertificateSignature"} -> "EvidenceSignature"
    [] OTHER -> "X509Path"

\* The state of the validation_time check of the observation.
time_state(cfg) ==
  CASE cfg.adapter = "gnutls" -> "NotChecked"
    [] profile(cfg) = "EvidenceSignature" -> "NotApplicable"
    [] OTHER -> "Pass"

\* AdapterExecution::report refuses a command that is not UTF-8.
reportable(c) == call[c].cfg.executable \in Utf8

-----------------------------------------------------------------------------
(* Properties *)

Ok(c) == call[c].outcome = "ok"

\* The state is typed; a call that returned Ok holds a version from a command
\* that ended with status 0 in time, a verdict and the source of its path.
TypeOK ==
  /\ files \in [File -> Certificates \cup OtherContents \cup {Unreadable}]
  /\ tool \in [DOMAIN tool -> Versions]
  /\ \A c \in Callers :
       /\ call[c].outcome \in {"none", "running", "error", "ok"}
       /\ Ok(c) => /\ call[c].version.status = "0" /\ ~call[c].version.timed_out
                   /\ verdict(c) \in {"Accept", "Reject", "Indeterminate", "Unsupported"}
                   /\ call[c].source \in {"PresentedInput", "AdapterSelected", "NotReported"}

\* Whatever the callers' interleaving, the cache only ever holds the complete
\* output of a command that succeeded (cached_version_output): a cut or failed
\* version is asked for again.
CacheIsComplete ==
  \A key \in DOMAIN cache :
    cache[key] # None => Complete(cache[key]) /\ cache[key].text \in Versions

\* The lock is not held while the command runs, so callers that miss together
\* all run it; but each caller completes the command at most once, however
\* many calls it makes.
BoundedVersionRuns == \A key \in DOMAIN ran : ran[key] <= Cardinality(Callers)

\* A reported version was printed by the very command that verified, unless the
\* program behind it was upgraded meanwhile, or the report shows it as cut:
\* neither the cache, its lossy keys nor another caller can substitute one.
VersionIsExact ==
  \A c \in Callers :
    Ok(c) /\ reportable(c) /\ command(call[c].cfg) \notin upgraded =>
      \/ call[c].version.stdout_truncated
      \/ call[c].version.text = call[c].saw.version

\* When no file changed during a call, the recorded inputs cover every file the
\* program read and the presented path and anchor are what it judged.
QuietCallIsExact ==
  \A c \in Callers :
    LET saw == call[c].saw.files IN
    Ok(c) /\ call[c].quiet =>
      /\ \A f \in DOMAIN saw : f \in DOMAIN call[c].inputs /\ call[c].inputs[f] = saw[f]
      /\ call[c].source = "PresentedInput" =>
           /\ call[c].path[1] = saw["leaf"]
           /\ Len(call[c].path) = 2 => call[c].path[2] = saw["intermediate"]
           /\ (Len(call[c].path) = 2) <=> ("intermediate" \in DOMAIN saw)
           /\ call[c].anchor = saw["root"]

\* A path labelled as selected by the adapter was accepted by the path builder
\* and consists of what that run read, even when files changed under the call;
\* no other label makes this promise, and only this one lets the oracle answer.
AdapterSelectedIsExact ==
  \A c \in Callers :
    LET saw == call[c].saw.files IN
    Ok(c) /\ call[c].source = "AdapterSelected" =>
      /\ verdict(c) = "Accept"
      /\ call[c].path \in {<<saw["leaf"]>>, <<saw["leaf"], saw["intermediate"]>>}
      /\ call[c].anchor = saw["root"]

\* Accept and Reject are only said of a run that ended in time and whose whole
\* output was read, Accept only with exit status 0.
ConclusiveRunsAreComplete ==
  \A c \in Callers :
    Ok(c) /\ verdict(c) \in {"Accept", "Reject"} =>
      /\ ~Cut(call[c].output)
      /\ verdict(c) = "Accept" => call[c].output.status = "0"

\* The time a run was given is the requested one, less than a second off.
GivenInTime(c) ==
  /\ call[c].saw.time <= call[c].cfg.time
  /\ call[c].cfg.time - call[c].saw.time < TicksPerSecond

\* An observation that claims the validation time was applied comes from a run
\* that was given that time, less than one second off; except that NSS, told of
\* a time outside the century its two digits of the year can name, was given
\* one that is whole centuries off, never anything else.
AppliedTimeWasGiven ==
  \A c \in Callers :
    LET cfg == call[c].cfg
        time == call[c].saw.time
    IN
    Ok(c) /\ time_state(cfg) = "Pass" =>
      /\ time # None
      /\ cfg.time # BadTime =>
           IF cfg.adapter = "nss" /\ cfg.time \notin ShortYears
             THEN time \in ShortYears /\ (cfg.time - time) % TicksPerCentury = 0
             ELSE GivenInTime(c)

\* The stack report names the time that was applied: a run whose validation_time
\* check passed was given the time in applied_validation_time.  What the oracle
\* takes for granted (stack_validation_time_state); NSS breaks it.
ReportNamesAppliedTime ==
  \A c \in Callers :
    Ok(c) /\ time_state(call[c].cfg) = "Pass" /\ call[c].cfg.time # BadTime =>
      GivenInTime(c)
=============================================================================

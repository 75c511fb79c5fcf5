--------------------------- MODULE AdapterProofs ---------------------------
(***************************************************************************)
(* Proofs about the stack adapters for any number of callers, any          *)
(* configurations, file contents, versions and outputs, and any number of  *)
(* calls, replaced files and upgrades.                                     *)
(***************************************************************************)
EXTENDS Adapter, FiniteSetTheorems, SequenceTheorems, TLAPS

-----------------------------------------------------------------------------
(* The order of the steps *)

\* What the order of an adapter's steps guarantees: the step k comes after the
\* steps its work rests on.
Before(steps, k, step) == \E j \in 1 .. k - 1 : steps[j] = step

TimedAdapters ==
  {"openssl", "openssl_tls", "openssl_container", "gnutls_container", "wolfssl", "nss"}

StepNames ==
  {"hostname", "time", "resolve", "required", "record", "select", "image", "version",
   "run_version", "insert", "mount", "authorities", "run", "path"}

WellOrdered(a, steps) ==
  /\ steps \in Seq(StepNames) /\ Len(steps) >= 1
  /\ \A k \in 1 .. Len(steps) :
       /\ steps[k] \notin {"run", "path"} => k < Len(steps)
       /\ steps[k] \in {"run", "path"} =>
            /\ Before(steps, k, "record") /\ Before(steps, k, "version")
            /\ a \in TimedAdapters => Before(steps, k, "time")
            /\ a = "bouncy_castle" => Before(steps, k, "required")
            /\ a # "bouncy_castle" => Before(steps, k, "select")
       /\ steps[k] = "run" => (k = Len(steps) <=> a # "bouncy_castle")
       /\ steps[k] = "path" => /\ a = "bouncy_castle" /\ k = Len(steps)
                               /\ Before(steps, k, "run")
       /\ steps[k] \notin {"run_version", "insert"}

\* Every verify function has such an order.
LEMMA StepsAreOrdered ==
  ASSUME NEW a \in DOMAIN Steps
  PROVE  WellOrdered(a, Steps[a])
<1>1. WellOrdered("openssl", openssl_verify)
  <2> DEFINE s == openssl_verify
  <2>1. s \in Seq(StepNames)
    BY DEF openssl_verify, StepNames
  <2> QED
    BY <2>1 DEF openssl_verify, WellOrdered, Before, TimedAdapters
<1>2. WellOrdered("openssl_tls", openssl_verify_tls)
  <2> DEFINE s == openssl_verify_tls
  <2>1. s \in Seq(StepNames)
    BY DEF openssl_verify_tls, StepNames
  <2> QED
    BY <2>1 DEF openssl_verify_tls, WellOrdered, Before, TimedAdapters
<1>3. WellOrdered("openssl_container", openssl_verify_container)
  <2> DEFINE s == openssl_verify_container
  <2>1. s \in Seq(StepNames)
    BY DEF openssl_verify_container, StepNames
  <2> QED
    BY <2>1 DEF openssl_verify_container, WellOrdered, Before, TimedAdapters
<1>4. WellOrdered("gnutls", gnutls_verify)
  <2> DEFINE s == gnutls_verify
  <2>1. s \in Seq(StepNames)
    BY DEF gnutls_verify, StepNames
  <2> QED
    BY <2>1 DEF gnutls_verify, WellOrdered, Before, TimedAdapters
<1>5. WellOrdered("gnutls_container", gnutls_verify_container)
  <2> DEFINE s == gnutls_verify_container
  <2>1. s \in Seq(StepNames)
    BY DEF gnutls_verify_container, StepNames
  <2> QED
    BY <2>1 DEF gnutls_verify_container, WellOrdered, Before, TimedAdapters
<1>6. WellOrdered("go", go_verify)
  <2> DEFINE s == go_verify
  <2>1. s \in Seq(StepNames)
    BY DEF go_verify, StepNames
  <2> QED
    BY <2>1 DEF go_verify, WellOrdered, Before, TimedAdapters
<1>7. WellOrdered("go_container", go_verify_container)
  <2> DEFINE s == go_verify_container
  <2>1. s \in Seq(StepNames)
    BY DEF go_verify_container, StepNames
  <2> QED
    BY <2>1 DEF go_verify_container, WellOrdered, Before, TimedAdapters
<1>8. WellOrdered("pyca", pyca_verify)
  <2> DEFINE s == pyca_verify
  <2>1. s \in Seq(StepNames)
    BY DEF pyca_verify, StepNames
  <2> QED
    BY <2>1 DEF pyca_verify, WellOrdered, Before, TimedAdapters
<1>9. WellOrdered("pyca_container", pyca_verify_container)
  <2> DEFINE s == pyca_verify_container
  <2>1. s \in Seq(StepNames)
    BY DEF pyca_verify_container, StepNames
  <2> QED
    BY <2>1 DEF pyca_verify_container, WellOrdered, Before, TimedAdapters
<1>10. WellOrdered("wolfssl", wolfssl_verify)
  <2> DEFINE s == wolfssl_verify
  <2>1. s \in Seq(StepNames)
    BY DEF wolfssl_verify, StepNames
  <2> QED
    BY <2>1 DEF wolfssl_verify, WellOrdered, Before, TimedAdapters
<1>11. WellOrdered("nss", nss_verify)
  <2> DEFINE s == nss_verify
  <2>1. s \in Seq(StepNames)
    BY DEF nss_verify, StepNames
  <2> QED
    BY <2>1 DEF nss_verify, WellOrdered, Before, TimedAdapters
<1>12. WellOrdered("bouncy_castle", bouncy_castle_verify)
  <2> DEFINE s == bouncy_castle_verify
  <2>1. s \in Seq(StepNames)
    BY DEF bouncy_castle_verify, StepNames
  <2> QED
    BY <2>1 DEF bouncy_castle_verify, WellOrdered, Before, TimedAdapters
<1> QED
  BY <1>1, <1>2, <1>3, <1>4, <1>5, <1>6, <1>7, <1>8, <1>9, <1>10, <1>11, <1>12 DEF Steps

-----------------------------------------------------------------------------
(* A call under way *)

Fields == {"outcome", "cfg", "todo", "inputs", "copied", "path", "anchor", "source",
           "version", "output", "report", "saw", "quiet"}

StepsOf(x) == Steps[x.cfg.adapter]

\* The step a call is at: x.todo is what is left of the steps from there on,
\* with the two halves of cached_version_output in place of "version".
Position(x) == Len(StepsOf(x)) - Len(x.todo) + 1

OnTrack(x) ==
  /\ x.todo \in Seq(StepNames)
  /\ Len(x.todo) \in 1 .. Len(StepsOf(x))
  /\ \A j \in 1 .. Len(x.todo) :
       \/ x.todo[j] = StepsOf(x)[Position(x) + j - 1]
       \/ /\ j = 1 /\ x.todo[1] \in {"run_version", "insert"}
          /\ StepsOf(x)[Position(x)] = "version"

\* The steps of a configuration are well ordered.
LEMMA ConfigSteps ==
  ASSUME NEW cfg \in Configs
  PROVE  WellOrdered(cfg.adapter, Steps[cfg.adapter])
BY ConfigsAreTyped, StepsAreOrdered

\* The head and the tail of a sequence.
LEMMA HeadAndTail ==
  ASSUME NEW S, NEW s \in Seq(S), Len(s) >= 1
  PROVE  /\ Len(s) \in Nat /\ Head(s) = s[1] /\ s[1] \in S
         /\ Tail(s) \in Seq(S) /\ Len(Tail(s)) = Len(s) - 1
         /\ \A j \in 1 .. Len(s) - 1 : Tail(s)[j] = s[j + 1]
         /\ (Tail(s) = <<>>) <=> (Len(s) = 1)
<1>1. /\ Len(s) \in Nat /\ Head(s) = s[1] /\ s[1] \in S
      /\ Tail(s) \in Seq(S) /\ Len(Tail(s)) = Len(s) - 1
      /\ \A j \in 1 .. Len(s) - 1 : Tail(s)[j] = s[j + 1]
  OBVIOUS
<1>2. (Tail(s) = <<>>) <=> (Len(Tail(s)) = 0)
  BY <1>1, EmptySeq
<1> QED
  BY <1>1, <1>2

\* Where a call is.
LEMMA Place ==
  ASSUME NEW x, x.cfg \in Configs, OnTrack(x)
  PROVE  /\ Position(x) \in 1 .. Len(StepsOf(x))
         /\ Len(StepsOf(x)) \in Nat
         /\ Head(x.todo) = x.todo[1]
         /\ x.todo[1] \in StepNames
         /\ x.todo[1] \notin {"run_version", "insert"} => StepsOf(x)[Position(x)] = x.todo[1]
         /\ x.todo[1] \in {"run_version", "insert"} => StepsOf(x)[Position(x)] = "version"
         /\ (Tail(x.todo) = <<>>) <=> (Position(x) = Len(StepsOf(x)))
<1>1. StepsOf(x) \in Seq(StepNames)
  BY ConfigSteps DEF WellOrdered, StepsOf
<1>2. /\ x.todo \in Seq(StepNames) /\ Len(x.todo) \in Nat /\ Len(StepsOf(x)) \in Nat
      /\ Len(x.todo) >= 1 /\ Len(x.todo) <= Len(StepsOf(x))
  BY <1>1 DEF OnTrack
<1>3. Position(x) \in 1 .. Len(StepsOf(x)) /\ Position(x) + 1 - 1 = Position(x)
  BY <1>2 DEF Position
<1>4. /\ Head(x.todo) = x.todo[1] /\ x.todo[1] \in StepNames
      /\ (Tail(x.todo) = <<>>) <=> (Len(x.todo) = 1)
  BY <1>2, HeadAndTail
<1>5. (Len(x.todo) = 1) <=> (Position(x) = Len(StepsOf(x)))
  <2> DEFINE n == Len(x.todo)
             m == Len(StepsOf(x))
  <2>1. n \in Nat /\ m \in Nat /\ Position(x) = m - n + 1
    BY <1>2 DEF Position
  <2> HIDE DEF n, m
  <2>2. (n = 1) <=> (Position(x) = m)
    BY <2>1
  <2> QED
    BY <2>2 DEF n, m
<1>6. 1 \in 1 .. Len(x.todo)
  BY <1>2
<1>7. \/ x.todo[1] = StepsOf(x)[Position(x)]
      \/ /\ x.todo[1] \in {"run_version", "insert"}
         /\ StepsOf(x)[Position(x)] = "version"
  BY <1>3, <1>6 DEF OnTrack
<1>8. StepsOf(x)[Position(x)] \notin {"run_version", "insert"}
  BY <1>3, ConfigSteps DEF WellOrdered, StepsOf
<1> QED
  BY <1>2, <1>3, <1>4, <1>5, <1>7, <1>8

\* Taking the next step.
LEMMA Advanced ==
  ASSUME NEW x, x.cfg \in Configs, OnTrack(x), Position(x) < Len(StepsOf(x)),
         NEW y, y.cfg = x.cfg, y.todo = Tail(x.todo)
  PROVE  OnTrack(y) /\ Position(y) = Position(x) + 1 /\ y.todo[1] \notin {"run_version", "insert"}
<1>1. StepsOf(x) \in Seq(StepNames) /\ StepsOf(y) = StepsOf(x)
  BY ConfigSteps DEF WellOrdered, StepsOf
<1>2. /\ x.todo \in Seq(StepNames) /\ Len(x.todo) \in Nat /\ Len(StepsOf(x)) \in Nat
      /\ Len(x.todo) >= 1 /\ Len(x.todo) <= Len(StepsOf(x))
  BY <1>1 DEF OnTrack
<1>3. Len(x.todo) >= 2 /\ Position(x) \in Int
  <2> DEFINE n == Len(x.todo)
             m == Len(StepsOf(x))
  <2>1. n \in Nat /\ m \in Nat /\ Position(x) = m - n + 1 /\ Position(x) < m
    BY <1>2 DEF Position
  <2> HIDE DEF n, m
  <2>2. n >= 2 /\ Position(x) \in Int
    BY <2>1
  <2> QED
    BY <2>2 DEF n
<1>4. /\ y.todo \in Seq(StepNames) /\ Len(y.todo) = Len(x.todo) - 1
      /\ \A j \in 1 .. Len(y.todo) : y.todo[j] = x.todo[j + 1]
  BY <1>2, HeadAndTail
<1>5. Position(y) = Position(x) + 1
  <2> DEFINE n == Len(x.todo)
             m == Len(StepsOf(x))
  <2>1. /\ n \in Nat /\ m \in Nat /\ Position(x) = m - n + 1
        /\ Position(y) = m - (n - 1) + 1
    BY <1>1, <1>2, <1>4 DEF Position
  <2> HIDE DEF n, m
  <2> QED
    BY <2>1
<1>6. ASSUME NEW j \in 1 .. Len(y.todo)
      PROVE  y.todo[j] = StepsOf(y)[Position(y) + j - 1]
  <2>1. j + 1 \in 1 .. Len(x.todo) /\ j + 1 # 1
    BY <1>2, <1>4
  <2>2. x.todo[j + 1] = StepsOf(x)[Position(x) + (j + 1) - 1]
    BY <2>1 DEF OnTrack
  <2>3. Position(x) + (j + 1) - 1 = Position(y) + j - 1
    BY <1>3, <1>5
  <2> QED
    BY <1>1, <1>4, <2>2, <2>3
<1>7. Len(y.todo) \in 1 .. Len(StepsOf(y))
  BY <1>1, <1>2, <1>3, <1>4
<1>8. OnTrack(y)
  BY <1>4, <1>6, <1>7 DEF OnTrack
<1>9. y.todo[1] \notin {"run_version", "insert"}
  <2>1. 1 \in 1 .. Len(y.todo) /\ Position(y) + 1 - 1 = Position(y)
    BY <1>2, <1>3, <1>4, <1>5
  <2>2. y.todo[1] = StepsOf(y)[Position(y)]
    BY <1>6, <2>1
  <2>3. Position(y) \in 1 .. Len(StepsOf(y))
    BY <1>1, <1>2, <1>3, <1>4 DEF Position
  <2> QED
    BY <2>2, <2>3, ConfigSteps DEF WellOrdered, StepsOf
<1> QED
  BY <1>5, <1>8, <1>9

\* Going on within cached_version_output.
LEMMA Within ==
  ASSUME NEW x, x.cfg \in Configs, OnTrack(x), StepsOf(x)[Position(x)] = "version",
         NEW step \in {"run_version", "insert"},
         NEW y, y.cfg = x.cfg, y.todo = <<step>> \o Tail(x.todo)
  PROVE  OnTrack(y) /\ Position(y) = Position(x) /\ y.todo[1] = step
<1>1. StepsOf(x) \in Seq(StepNames) /\ StepsOf(y) = StepsOf(x)
  BY ConfigSteps DEF WellOrdered, StepsOf
<1>2. /\ x.todo \in Seq(StepNames) /\ Len(x.todo) \in Nat /\ Len(x.todo) >= 1
      /\ Len(x.todo) \in 1 .. Len(StepsOf(x))
  BY <1>1 DEF OnTrack
<1>3. <<step>> \in Seq(StepNames) /\ Tail(x.todo) \in Seq(StepNames)
  BY <1>2 DEF StepNames
<1>4. /\ y.todo \in Seq(StepNames) /\ Len(y.todo) = Len(x.todo) /\ y.todo[1] = step
      /\ \A j \in 2 .. Len(y.todo) : y.todo[j] = x.todo[j]
  BY <1>2, <1>3
<1>5. Position(y) = Position(x)
  BY <1>1, <1>4 DEF Position
<1>6. ASSUME NEW j \in 2 .. Len(y.todo)
      PROVE  y.todo[j] = StepsOf(y)[Position(y) + j - 1]
  <2>1. j \in 1 .. Len(x.todo) /\ j # 1
    BY <1>2, <1>4
  <2> QED
    BY <1>1, <1>4, <1>5, <2>1 DEF OnTrack
<1>7. \A j \in 1 .. Len(y.todo) : j = 1 \/ j \in 2 .. Len(y.todo)
  BY <1>2, <1>4
<1>8. OnTrack(y)
  BY <1>1, <1>2, <1>4, <1>5, <1>6, <1>7 DEF OnTrack
<1> QED
  BY <1>4, <1>5, <1>8

-----------------------------------------------------------------------------
(* What the steps of a call establish, w being the files and the programs *)

\* selected_path_hashes of the files fs.
PathOf(cfg, fs) ==
  <<fs["leaf"]>> \o (IF "intermediate" \in cfg.optional THEN <<fs["intermediate"]>> ELSE <<>>)

\* A key that a UTF-8 path is displayed as belongs to no other path.
NoAlias ==
  \A cfg, other \in Configs :
    cfg.executable \in Utf8 /\ DisplayedAs[cfg.executable] = DisplayedAs[other.executable] =>
      cfg.executable = other.executable

\* The programs whose version the cache can be trusted with.
Traceable(cfg, w) == NoAlias /\ cfg.executable \in Utf8 /\ command(cfg) \notin w.upgraded

Established(x, step, w) ==
  /\ step = "record" =>
       /\ DOMAIN x.inputs = Supplied(x.cfg)
       /\ x.quiet = TRUE => \A f \in Supplied(x.cfg) : x.inputs[f] = w.files[f]
  /\ step = "select" =>
       /\ x.source = "PresentedInput"
       /\ x.quiet = TRUE => x.path = PathOf(x.cfg, w.files) /\ x.anchor = w.files["root"]
  /\ step \in {"time", "required"} => accepted(x.cfg, step)
  /\ step = "version" =>
       /\ version_accepted(x.version)
       /\ Traceable(x.cfg, w) =>
            x.version.stdout_truncated \/ x.version.text = w.tool[command(x.cfg)]
  /\ step = "run" =>
       /\ DOMAIN x.saw.files = ReadByTool(x.cfg)
       /\ x.quiet = TRUE => \A f \in ReadByTool(x.cfg) : x.saw.files[f] = w.files[f]
       /\ x.saw.time = given_time(x.cfg)
       /\ Traceable(x.cfg, w) => x.saw.version = w.tool[command(x.cfg)]
       /\ x.cfg.mode = "PathBuilder" => x.report \in PathReports(x.saw.files)

EstablishedSoFar(x, w) ==
  \A j \in 1 .. Position(x) - 1 : Established(x, StepsOf(x)[j], w)

\* The copies of gnutls::verify.
CopiesMatch(x, w) == x.quiet = TRUE => \A f \in DOMAIN x.copied : x.copied[f] = w.files[f]

\* A version that is about to be cached is complete and is the program's.
Insertable(cfg, version, w) ==
  /\ Complete(version) /\ version.text \in Versions /\ version # None
  /\ command(cfg) \notin w.upgraded => version.text = w.tool[command(cfg)]

RunningOk(x, w) ==
  /\ OnTrack(x)
  /\ EstablishedSoFar(x, w)
  /\ CopiesMatch(x, w)
  /\ x.todo[1] = "insert" => Insertable(x.cfg, x.version, w)

\* A returned observation, as the properties ask for it.
ReturnedOk(x, w) ==
  /\ version_accepted(x.version)
  /\ x.source \in {"PresentedInput", "AdapterSelected", "NotReported"}
  /\ x.quiet = TRUE =>
       /\ \A f \in DOMAIN x.saw.files :
            f \in DOMAIN x.inputs /\ x.inputs[f] = x.saw.files[f]
       /\ x.source = "PresentedInput" =>
            /\ x.path[1] = x.saw.files["leaf"]
            /\ Len(x.path) = 2 => x.path[2] = x.saw.files["intermediate"]
            /\ (Len(x.path) = 2) <=> ("intermediate" \in DOMAIN x.saw.files)
            /\ x.anchor = x.saw.files["root"]
  /\ x.source = "AdapterSelected" =>
       /\ classify(x.cfg, x.output) = "Accept"
       /\ x.path \in {<<x.saw.files["leaf"]>>,
                      <<x.saw.files["leaf"], x.saw.files["intermediate"]>>}
       /\ x.anchor = x.saw.files["root"]
  /\ x.saw.time = given_time(x.cfg)
  /\ Traceable(x.cfg, w) => x.version.stdout_truncated \/ x.version.text = x.saw.version
  /\ x.cfg.adapter \in TimedAdapters => accepted(x.cfg, "time")

CallOk(x, w) ==
  \/ x = Idle
  \/ /\ DOMAIN x = Fields
     /\ x.cfg \in Configs
     /\ x.outcome \in {"running", "error", "ok"}
     /\ x.outcome = "running" => RunningOk(x, w)
     /\ x.outcome = "ok" => ReturnedOk(x, w)

\* A call that fails is accounted for.
LEMMA Failed ==
  ASSUME NEW x, DOMAIN x = Fields, x.cfg \in Configs, NEW w
  PROVE  CallOk([x EXCEPT !.outcome = "error"], w)
<1> DEFINE y == [x EXCEPT !.outcome = "error"]
<1>1. DOMAIN y = Fields /\ y.cfg = x.cfg /\ y.outcome = "error"
  BY DEF Fields
<1> HIDE DEF y
<1>2. CallOk(y, w)
  BY <1>1 DEF CallOk
<1> QED
  BY <1>2 DEF y

\* A call that goes on with the next step is accounted for when the step just
\* made is established and the earlier ones still are.
LEMMA WentOn ==
  ASSUME NEW w, NEW x, x.cfg \in Configs, OnTrack(x), Position(x) < Len(StepsOf(x)),
         NEW z, DOMAIN z = Fields, z.cfg = x.cfg, z.todo = x.todo, z.outcome = "running",
         \A j \in 1 .. Position(x) : Established(z, StepsOf(x)[j], w),
         CopiesMatch(z, w)
  PROVE  CallOk([z EXCEPT !.todo = Tail(@)], w)
<1> DEFINE y == [z EXCEPT !.todo = Tail(@)]
<1>1. /\ DOMAIN y = Fields /\ y.cfg = x.cfg /\ y.outcome = "running"
      /\ y.todo = Tail(x.todo)
      /\ y.inputs = z.inputs /\ y.quiet = z.quiet /\ y.source = z.source /\ y.path = z.path
      /\ y.anchor = z.anchor /\ y.version = z.version /\ y.saw = z.saw
      /\ y.report = z.report /\ y.copied = z.copied
  BY DEF Fields
<1> HIDE DEF y
<1>2. OnTrack(y) /\ Position(y) = Position(x) + 1 /\ y.todo[1] # "insert"
  BY <1>1, Advanced
<1>3. Position(x) \in Nat
  BY Place
<1>4. EstablishedSoFar(y, w)
  <2>1. StepsOf(y) = StepsOf(x)
    BY <1>1 DEF StepsOf
  <2>2. 1 .. Position(y) - 1 = 1 .. Position(x)
    BY <1>2, <1>3
  <2>3. ASSUME NEW j \in 1 .. Position(x) PROVE Established(y, StepsOf(x)[j], w)
    <3>1. Established(z, StepsOf(x)[j], w)
      OBVIOUS
    <3> QED
      BY <1>1, <3>1 DEF Established
  <2> QED
    BY <2>1, <2>2, <2>3 DEF EstablishedSoFar
<1>5. CopiesMatch(y, w)
  BY <1>1 DEF CopiesMatch
<1>6. CallOk(y, w)
  BY <1>1, <1>2, <1>4, <1>5 DEF CallOk, RunningOk
<1> QED
  BY <1>6 DEF y

\* The same, from a call under way whose step assigned only fields that
\* nothing established before depends on, or that are established anew.
LEMMA StepTaken ==
  ASSUME NEW w, NEW x, DOMAIN x = Fields, x.cfg \in Configs, x.outcome = "running",
         RunningOk(x, w), StepsOf(x)[Position(x)] \notin {"run", "path"},
         NEW z, DOMAIN z = Fields, z.cfg = x.cfg, z.todo = x.todo, z.outcome = "running",
         \A step : Established(x, step, w) => Established(z, step, w),
         Established(z, StepsOf(x)[Position(x)], w),
         CopiesMatch(z, w)
  PROVE  CallOk([z EXCEPT !.todo = Tail(@)], w)
<1>1. OnTrack(x) /\ EstablishedSoFar(x, w)
  BY DEF RunningOk
<1>2. Position(x) \in 1 .. Len(StepsOf(x)) /\ Len(StepsOf(x)) \in Nat
  BY <1>1, Place
<1>3. Position(x) < Len(StepsOf(x))
  BY <1>2, ConfigSteps DEF WellOrdered, StepsOf
<1>4. \A j \in 1 .. Position(x) : j = Position(x) \/ j \in 1 .. Position(x) - 1
  BY <1>2
<1>5. \A j \in 1 .. Position(x) : Established(z, StepsOf(x)[j], w)
  BY <1>1, <1>4 DEF EstablishedSoFar
<1> QED
  BY <1>1, <1>3, <1>5, WentOn

-----------------------------------------------------------------------------
(* The steps of a call *)

World == [files |-> files, tool |-> tool, upgraded |-> upgraded]

UnderWay(x, w) == DOMAIN x = Fields /\ x.cfg \in Configs /\ x.outcome = "running" /\ RunningOk(x, w)

\* The step of caller c leaves its call accounted for.
Accounted(c) == \E new : Update(c, new) /\ CallOk(new, World)

\* A running call, and the step it is at.
LEMMA AtStep ==
  ASSUME NEW c, CallOk(call[c], World), Running(c)
  PROVE  /\ UnderWay(call[c], World)
         /\ Head(call[c].todo) = call[c].todo[1]
         /\ call[c].todo[1] \notin {"run_version", "insert"} =>
              StepsOf(call[c])[Position(call[c])] = call[c].todo[1]
         /\ call[c].todo[1] \in {"run_version", "insert"} =>
              StepsOf(call[c])[Position(call[c])] = "version"
         /\ (Tail(call[c].todo) = <<>>) <=> (Position(call[c]) = Len(StepsOf(call[c])))
<1>1. call[c] # Idle
  BY DEF Running, Idle
<1>2. UnderWay(call[c], World)
  BY <1>1 DEF CallOk, Running, UnderWay
<1>3. call[c].cfg \in Configs /\ OnTrack(call[c])
  BY <1>2 DEF UnderWay, RunningOk
<1> QED
  BY <1>2, <1>3, Place

\* An early return.
LEMMA FailAccounted ==
  ASSUME NEW c, CallOk(call[c], World), Running(c), Fail(c)
  PROVE  Accounted(c)
<1>1. UnderWay(call[c], World)
  BY AtStep
<1>2. CallOk([call[c] EXCEPT !.outcome = "error"], World)
  BY <1>1, Failed DEF UnderWay
<1> QED
  BY <1>2 DEF Fail, Accounted

\* A step that assigns nothing.
LEMMA PassAccounted ==
  ASSUME NEW c, CallOk(call[c], World), Running(c),
         call[c].todo[1] \in {"resolve", "mount", "hostname", "image", "time", "required"},
         call[c].todo[1] \in {"time", "required"} => accepted(call[c].cfg, call[c].todo[1]),
         Proceed(c, call[c])
  PROVE  Accounted(c)
<1>1. UnderWay(call[c], World) /\ StepsOf(call[c])[Position(call[c])] = call[c].todo[1]
  BY AtStep
<1>2. Established(call[c], call[c].todo[1], World)
  BY DEF Established
<1>3. CopiesMatch(call[c], World)
  BY <1>1 DEF UnderWay, RunningOk
<1>4. CallOk([call[c] EXCEPT !.todo = Tail(@)], World)
  BY <1>1, <1>2, <1>3, StepTaken DEF UnderWay
<1> QED
  BY <1>4 DEF Proceed, Accounted

LEMMA ResolveAccounted ==
  ASSUME NEW c, CallOk(call[c], World), Resolve(c)
  PROVE  Accounted(c)
<1>1. Running(c) /\ call[c].todo[1] = "resolve"
  BY AtStep DEF Resolve, At
<1> QED
  BY <1>1, PassAccounted, FailAccounted DEF Resolve

LEMMA MountAccounted ==
  ASSUME NEW c, CallOk(call[c], World), Mount(c)
  PROVE  Accounted(c)
<1>1. Running(c) /\ call[c].todo[1] = "mount"
  BY AtStep DEF Mount, At
<1> QED
  BY <1>1, PassAccounted, FailAccounted DEF Mount

LEMMA CheckConfigAccounted ==
  ASSUME NEW c, CallOk(call[c], World), CheckConfig(c)
  PROVE  Accounted(c)
<1>1. Running(c) /\ Head(call[c].todo) = call[c].todo[1]
  BY AtStep DEF CheckConfig
<1>2. CASE accepted(call[c].cfg, call[c].todo[1])
  BY <1>1, <1>2, PassAccounted DEF CheckConfig
<1>3. CASE ~accepted(call[c].cfg, call[c].todo[1])
  BY <1>1, <1>3, FailAccounted DEF CheckConfig
<1> QED
  BY <1>2, <1>3

LEMMA SystemCallFailsAccounted ==
  ASSUME NEW c, CallOk(call[c], World), SystemCallFails(c)
  PROVE  Accounted(c)
BY FailAccounted DEF SystemCallFails

LEMMA RecordAccounted ==
  ASSUME NEW c, CallOk(call[c], World), record_inputs(c)
  PROVE  Accounted(c)
<1> DEFINE contents == [f \in Supplied(call[c].cfg) |-> files[f]]
           x == call[c]
           z == [x EXCEPT !.inputs = contents]
<1>1. Running(c) /\ call[c].todo[1] = "record"
  BY AtStep DEF record_inputs, At
<1>2. UnderWay(x, World) /\ StepsOf(x)[Position(x)] = "record"
  BY <1>1, AtStep
<1>3. CASE \E f \in DOMAIN contents : contents[f] = Unreadable
  BY <1>1, <1>3, FailAccounted DEF record_inputs
<1>4. CASE ~\E f \in DOMAIN contents : contents[f] = Unreadable
  <2>1. Proceed(c, z)
    BY <1>4 DEF record_inputs
  <2>2. /\ DOMAIN z = Fields /\ z.cfg = x.cfg /\ z.todo = x.todo /\ z.outcome = "running"
        /\ z.inputs = contents /\ z.quiet = x.quiet /\ z.source = x.source /\ z.path = x.path
        /\ z.anchor = x.anchor /\ z.version = x.version /\ z.saw = x.saw
        /\ z.report = x.report /\ z.copied = x.copied
    BY <1>2 DEF Fields, UnderWay
  <2>3. World.files = files
    BY DEF World
  <2> HIDE DEF z
  <2>4. ASSUME NEW step PROVE Established(x, step, World) => Established(z, step, World)
    BY <2>2, <2>3 DEF Established
  <2>5. Established(z, "record", World)
    BY <2>2, <2>3 DEF Established
  <2>6. CopiesMatch(z, World)
    BY <1>2, <2>2 DEF CopiesMatch, UnderWay, RunningOk
  <2>7. CallOk([z EXCEPT !.todo = Tail(@)], World)
    BY <1>2, <2>2, <2>4, <2>5, <2>6, StepTaken DEF UnderWay
  <2> QED
    BY <2>1, <2>7 DEF Proceed, Accounted
<1> QED
  BY <1>3, <1>4

LEMMA CopyAccounted ==
  ASSUME NEW c, CallOk(call[c], World), CopyAuthorities(c)
  PROVE  Accounted(c)
<1> DEFINE contents == [f \in Supplied(call[c].cfg) \ {"leaf"} |-> files[f]]
           x == call[c]
           z == [x EXCEPT !.copied = contents]
<1>1. Running(c) /\ call[c].todo[1] = "authorities"
  BY AtStep DEF CopyAuthorities, At
<1>2. UnderWay(x, World) /\ StepsOf(x)[Position(x)] = "authorities"
  BY <1>1, AtStep
<1>3. CASE \E f \in DOMAIN contents : contents[f] = Unreadable
  BY <1>1, <1>3, FailAccounted DEF CopyAuthorities
<1>4. CASE ~\E f \in DOMAIN contents : contents[f] = Unreadable
  <2>1. Proceed(c, z)
    BY <1>4 DEF CopyAuthorities
  <2>2. /\ DOMAIN z = Fields /\ z.cfg = x.cfg /\ z.todo = x.todo /\ z.outcome = "running"
        /\ z.inputs = x.inputs /\ z.quiet = x.quiet /\ z.source = x.source /\ z.path = x.path
        /\ z.anchor = x.anchor /\ z.version = x.version /\ z.saw = x.saw
        /\ z.report = x.report /\ z.copied = contents
    BY <1>2 DEF Fields, UnderWay
  <2>3. World.files = files
    BY DEF World
  <2> HIDE DEF z
  <2>4. ASSUME NEW step PROVE Established(x, step, World) => Established(z, step, World)
    BY <2>2 DEF Established
  <2>5. Established(z, "authorities", World)
    BY DEF Established
  <2>6. CopiesMatch(z, World)
    BY <2>2, <2>3 DEF CopiesMatch
  <2>7. CallOk([z EXCEPT !.todo = Tail(@)], World)
    BY <1>2, <2>2, <2>4, <2>5, <2>6, StepTaken DEF UnderWay
  <2> QED
    BY <2>1, <2>7 DEF Proceed, Accounted
<1> QED
  BY <1>3, <1>4

LEMMA SelectAccounted ==
  ASSUME NEW c, CallOk(call[c], World), Select(c)
  PROVE  Accounted(c)
<1> DEFINE x == call[c]
           path == selected_path_hashes(x.cfg)
           readable == {files["root"]} \cup {path[i] : i \in DOMAIN path} \subseteq Certificates
<1>1. Running(c) /\ call[c].todo[1] = "select"
  BY AtStep DEF Select, At
<1>2. UnderWay(x, World) /\ StepsOf(x)[Position(x)] = "select"
  BY <1>1, AtStep
<1>3. Proceed(c, WithPresentedPath(x))
  BY DEF Select
<1>4. CASE ~readable
  <2> DEFINE e == [x EXCEPT !.outcome = "error"]
             y == [e EXCEPT !.todo = Tail(@)]
  <2>1. Update(c, y)
    BY <1>3, <1>4 DEF Proceed, WithPresentedPath
  <2>2. DOMAIN y = Fields /\ y.cfg = x.cfg /\ y.outcome = "error"
    BY <1>2 DEF Fields, UnderWay
  <2> HIDE DEF y
  <2>3. CallOk(y, World)
    BY <1>2, <2>2 DEF CallOk, UnderWay
  <2> QED
    BY <2>1, <2>3 DEF Accounted
<1>5. CASE readable
  <2> DEFINE z == [x EXCEPT !.path = path, !.anchor = files["root"], !.source = "PresentedInput"]
  <2>1. Proceed(c, z)
    BY <1>3, <1>5 DEF WithPresentedPath
  <2>2. /\ DOMAIN z = Fields /\ z.cfg = x.cfg /\ z.todo = x.todo /\ z.outcome = "running"
        /\ z.inputs = x.inputs /\ z.quiet = x.quiet /\ z.source = "PresentedInput"
        /\ z.path = path /\ z.anchor = files["root"] /\ z.version = x.version /\ z.saw = x.saw
        /\ z.report = x.report /\ z.copied = x.copied
    BY <1>2 DEF Fields, UnderWay
  <2>3. World.files = files /\ path = PathOf(x.cfg, files)
    BY DEF World, selected_path_hashes, PathOf
  <2> HIDE DEF z, path
  <2>4. ASSUME NEW step PROVE Established(x, step, World) => Established(z, step, World)
    BY <2>2, <2>3 DEF Established
  <2>5. Established(z, "select", World)
    BY <2>2, <2>3 DEF Established
  <2>6. CopiesMatch(z, World)
    BY <1>2, <2>2 DEF CopiesMatch, UnderWay, RunningOk
  <2>7. CallOk([z EXCEPT !.todo = Tail(@)], World)
    BY <1>2, <2>2, <2>4, <2>5, <2>6, StepTaken DEF UnderWay
  <2> QED
    BY <2>1, <2>7 DEF Proceed, Accounted
<1> QED
  BY <1>4, <1>5

-----------------------------------------------------------------------------
(* The version cache *)

Keys == {version_cache_key(cfg) : cfg \in Configs}
Commands == {command(cfg) : cfg \in Configs}

\* What is cached is complete and, for a program it can be traced to, is what
\* that program prints.
CacheInv ==
  /\ DOMAIN cache = Keys
  /\ \A key \in Keys : cache[key] # None => Complete(cache[key]) /\ cache[key].text \in Versions
  /\ \A cfg \in Configs :
       LET cached == cache[version_cache_key(cfg)] IN
       Traceable(cfg, World) /\ cached # None => cached.text = tool[command(cfg)]

\* What cached_version_output returns is established.
LEMMA VersionAccounted ==
  ASSUME NEW c, CallOk(call[c], World), Running(c),
         StepsOf(call[c])[Position(call[c])] = "version",
         NEW output, WithVersion(c, output),
         Traceable(call[c].cfg, World) /\ version_accepted(output) =>
           output.stdout_truncated \/ output.text = tool[command(call[c].cfg)]
  PROVE  Accounted(c)
<1> DEFINE x == call[c]
           z == [x EXCEPT !.version = output]
<1>1. UnderWay(x, World)
  BY AtStep
<1>2. CASE ~version_accepted(output)
  BY <1>2, FailAccounted DEF WithVersion
<1>3. CASE version_accepted(output)
  <2>1. Proceed(c, z)
    BY <1>3 DEF WithVersion
  <2>2. /\ DOMAIN z = Fields /\ z.cfg = x.cfg /\ z.todo = x.todo /\ z.outcome = "running"
        /\ z.inputs = x.inputs /\ z.quiet = x.quiet /\ z.source = x.source /\ z.path = x.path
        /\ z.anchor = x.anchor /\ z.version = output /\ z.saw = x.saw
        /\ z.report = x.report /\ z.copied = x.copied
    BY <1>1 DEF Fields, UnderWay
  <2>3. World.tool = tool
    BY DEF World
  <2> HIDE DEF z
  <2>4. Established(z, "version", World)
    BY <1>3, <2>2, <2>3 DEF Established
  <2>5. ASSUME NEW step PROVE Established(x, step, World) => Established(z, step, World)
    BY <1>3, <2>2, <2>3 DEF Established
  <2>6. CopiesMatch(z, World)
    BY <1>1, <2>2 DEF CopiesMatch, UnderWay, RunningOk
  <2>7. CallOk([z EXCEPT !.todo = Tail(@)], World)
    BY <1>1, <2>2, <2>4, <2>5, <2>6, StepTaken DEF UnderWay
  <2> QED
    BY <2>1, <2>7 DEF Proceed, Accounted
<1> QED
  BY <1>2, <1>3

\* A call that goes on within cached_version_output is accounted for.
LEMMA WithinAccounted ==
  ASSUME NEW w, NEW x, UnderWay(x, w), StepsOf(x)[Position(x)] = "version",
         NEW step \in {"run_version", "insert"},
         NEW y, DOMAIN y = Fields, y.cfg = x.cfg, y.todo = <<step>> \o Tail(x.todo),
         y.outcome = "running",
         y.inputs = x.inputs, y.quiet = x.quiet, y.source = x.source, y.path = x.path,
         y.anchor = x.anchor, y.saw = x.saw, y.report = x.report, y.copied = x.copied,
         y.version = x.version \/ Established(y, "version", w),
         step = "insert" => Insertable(y.cfg, y.version, w)
  PROVE  CallOk(y, w)
<1>1. x.cfg \in Configs /\ OnTrack(x) /\ EstablishedSoFar(x, w) /\ CopiesMatch(x, w)
  BY DEF UnderWay, RunningOk
<1>2. OnTrack(y) /\ Position(y) = Position(x) /\ y.todo[1] = step
  BY <1>1, Within
<1>3. ASSUME NEW s PROVE Established(x, s, w) => Established(y, s, w)
  BY DEF Established
<1>4. StepsOf(y) = StepsOf(x)
  BY DEF StepsOf
<1>5. EstablishedSoFar(y, w)
  BY <1>1, <1>2, <1>3, <1>4 DEF EstablishedSoFar
<1>6. CopiesMatch(y, w)
  BY <1>1 DEF CopiesMatch
<1> QED
  BY <1>1, <1>2, <1>5, <1>6 DEF CallOk, RunningOk

LEMMA LookUpAccounted ==
  ASSUME NEW c, CallOk(call[c], World), CacheInv, LookUpVersion(c)
  PROVE  Accounted(c)
<1> DEFINE x == call[c]
           hit == cache[version_cache_key(x.cfg)]
           y == [x EXCEPT !.todo = <<"run_version">> \o Tail(@)]
<1>1. Running(c) /\ call[c].todo[1] = "version"
  BY AtStep DEF LookUpVersion, At
<1>2. UnderWay(x, World) /\ StepsOf(x)[Position(x)] = "version"
  BY <1>1, AtStep
<1>3. CASE hit # None
  <2>1. WithVersion(c, hit)
    BY <1>3 DEF LookUpVersion
  <2>2. Traceable(x.cfg, World) => hit.text = tool[command(x.cfg)]
    BY <1>2, <1>3 DEF CacheInv, UnderWay
  <2> QED
    BY <1>1, <1>2, <2>1, <2>2, VersionAccounted
<1>4. CASE hit = None
  <2>1. Update(c, y)
    BY <1>4 DEF LookUpVersion
  <2>2. /\ DOMAIN y = Fields /\ y.cfg = x.cfg /\ y.todo = <<"run_version">> \o Tail(x.todo)
        /\ y.outcome = "running"
        /\ y.inputs = x.inputs /\ y.quiet = x.quiet /\ y.source = x.source /\ y.path = x.path
        /\ y.anchor = x.anchor /\ y.version = x.version /\ y.saw = x.saw
        /\ y.report = x.report /\ y.copied = x.copied
    BY <1>2 DEF Fields, UnderWay
  <2> HIDE DEF y
  <2>3. CallOk(y, World)
    BY <1>2, <2>2, WithinAccounted
  <2> QED
    BY <2>1, <2>3 DEF Accounted
<1> QED
  BY <1>3, <1>4

\* What a version command prints.
LEMMA Printed ==
  ASSUME NEW version \in Versions, NEW output \in VersionOutputs(version)
  PROVE  /\ output # None
         /\ version_accepted(output) => output.stdout_truncated \/ output.text = version
         /\ cacheable(output) => output.text = version /\ version_accepted(output)
<1>1. PICK r \in VersionResults :
        output = [status |-> r.status, timed_out |-> r.timed_out,
                  stdout_truncated |-> r.stdout_truncated,
                  stderr_truncated |-> r.stderr_truncated,
                  text |-> IF r.timed_out \/ r.stdout_truncated THEN None ELSE version]
  BY DEF VersionOutputs
<1>2. output # None
  BY NoneIsNoOutput
<1> QED
  BY <1>1, <1>2 DEF version_accepted, cacheable, Complete, Cut

LEMMA RunVersionAccounted ==
  ASSUME NEW c, CallOk(call[c], World), tool \in [Commands -> Versions], RunVersion(c)
  PROVE  Accounted(c)
<1> DEFINE x == call[c]
<1>1. Running(c) /\ call[c].todo[1] = "run_version"
  BY AtStep DEF RunVersion, At
<1>2. UnderWay(x, World) /\ StepsOf(x)[Position(x)] = "version"
  BY <1>1, AtStep
<1>3. tool[command(x.cfg)] \in Versions
  BY <1>2 DEF UnderWay, Commands
<1>4. PICK output \in VersionOutputs(tool[command(x.cfg)]) :
        IF cacheable(output)
          THEN Update(c, [x EXCEPT !.version = output, !.todo = <<"insert">> \o Tail(@)])
          ELSE WithVersion(c, output)
  BY DEF RunVersion
<1>5. /\ output # None
      /\ version_accepted(output) =>
           output.stdout_truncated \/ output.text = tool[command(x.cfg)]
      /\ cacheable(output) => output.text = tool[command(x.cfg)] /\ version_accepted(output)
  BY <1>3, Printed
<1>6. CASE ~cacheable(output)
  BY <1>1, <1>2, <1>4, <1>5, <1>6, VersionAccounted
<1>7. CASE cacheable(output)
  <2> DEFINE y == [x EXCEPT !.version = output, !.todo = <<"insert">> \o Tail(@)]
  <2>1. Update(c, y)
    BY <1>4, <1>7
  <2>2. /\ DOMAIN y = Fields /\ y.cfg = x.cfg /\ y.todo = <<"insert">> \o Tail(x.todo)
        /\ y.outcome = "running"
        /\ y.inputs = x.inputs /\ y.quiet = x.quiet /\ y.source = x.source /\ y.path = x.path
        /\ y.anchor = x.anchor /\ y.version = output /\ y.saw = x.saw
        /\ y.report = x.report /\ y.copied = x.copied
    BY <1>2 DEF Fields, UnderWay
  <2>3. World.tool = tool
    BY DEF World
  <2> HIDE DEF y
  <2>4. Insertable(y.cfg, y.version, World) /\ Established(y, "version", World)
    BY <1>3, <1>5, <1>7, <2>2, <2>3 DEF Insertable, Established, cacheable
  <2>5. CallOk(y, World)
    BY <1>2, <2>2, <2>4, WithinAccounted
  <2> QED
    BY <2>1, <2>5 DEF Accounted
<1> QED
  BY <1>6, <1>7

LEMMA InsertAccounted ==
  ASSUME NEW c, CallOk(call[c], World), InsertVersion(c)
  PROVE  Accounted(c) /\ Insertable(call[c].cfg, call[c].version, World) /\ call[c].cfg \in Configs
<1> DEFINE x == call[c]
<1>1. Running(c) /\ call[c].todo[1] = "insert"
  BY AtStep DEF InsertVersion, At
<1>2. UnderWay(x, World) /\ StepsOf(x)[Position(x)] = "version"
  BY <1>1, AtStep
<1>3. x.cfg \in Configs /\ Insertable(x.cfg, x.version, World)
  BY <1>1, <1>2 DEF UnderWay, RunningOk
<1>4. Traceable(x.cfg, World) => x.version.text = tool[command(x.cfg)]
  BY <1>3 DEF Insertable, Traceable, World
<1>5. Accounted(c)
  BY <1>1, <1>2, <1>4, VersionAccounted DEF InsertVersion
<1> QED
  BY <1>3, <1>5

-----------------------------------------------------------------------------
(* The verification run and the path *)

\* What has been established when the verification runs, and after it.
LEMMA ReadyToRun ==
  ASSUME NEW w, NEW x, UnderWay(x, w), StepsOf(x)[Position(x)] \in {"run", "path"}
  PROVE  /\ Established(x, "record", w) /\ Established(x, "version", w)
         /\ x.cfg.adapter \in TimedAdapters => Established(x, "time", w)
         /\ x.cfg.adapter = "bouncy_castle" => Established(x, "required", w)
         /\ x.cfg.adapter # "bouncy_castle" => Established(x, "select", w)
         /\ StepsOf(x)[Position(x)] = "path" =>
              /\ x.cfg.adapter = "bouncy_castle"
              /\ Established(x, "run", w)
         /\ StepsOf(x)[Position(x)] = "run" =>
              (Position(x) = Len(StepsOf(x)) <=> x.cfg.adapter # "bouncy_castle")
<1>1. x.cfg \in Configs /\ OnTrack(x) /\ EstablishedSoFar(x, w)
  BY DEF UnderWay, RunningOk
<1>2. Position(x) \in 1 .. Len(StepsOf(x))
  BY <1>1, Place
<1>3. WellOrdered(x.cfg.adapter, StepsOf(x))
  BY <1>1, ConfigSteps DEF StepsOf
<1>4. ASSUME NEW step, Before(StepsOf(x), Position(x), step)
      PROVE  Established(x, step, w)
  BY <1>1, <1>4 DEF Before, EstablishedSoFar
<1> QED
  BY <1>2, <1>3, <1>4 DEF WellOrdered

\* The verification command opens no file that was not recorded.
LEMMA OpenedIsSupplied ==
  ASSUME NEW cfg \in Configs,
         cfg.adapter = "bouncy_castle" => accepted(cfg, "required")
  PROVE  /\ ReadByTool(cfg) \subseteq Supplied(cfg)
         /\ {"root", "leaf"} \subseteq ReadByTool(cfg)
         /\ "intermediate" \in ReadByTool(cfg) <=> "intermediate" \in cfg.optional
<1>1. CASE cfg.adapter # "bouncy_castle"
  BY <1>1 DEF ReadByTool, Supplied
<1>2. CASE cfg.adapter = "bouncy_castle"
  <2>1. "intermediate" \in cfg.optional
    BY <1>2, ConfigsAreTyped
  <2>2. /\ cfg.mode = "TlsTranscript" => "key" \in cfg.optional
        /\ cfg.mode = "CrlStatus" => "crl" \in cfg.optional
    BY <1>2 DEF accepted
  <2> QED
    BY <1>2, <2>1, <2>2 DEF ReadByTool, Supplied
<1> QED
  BY <1>1, <1>2

\* The shape of a presented path.
LEMMA PathShape ==
  ASSUME NEW cfg, NEW fs
  PROVE  LET path == PathOf(cfg, fs) IN
         /\ path[1] = fs["leaf"]
         /\ Len(path) = 2 <=> "intermediate" \in cfg.optional
         /\ Len(path) = 2 => path[2] = fs["intermediate"]
<1>1. ASSUME NEW a, NEW b
      PROVE  /\ (<<a>> \o <<b>>)[1] = a /\ (<<a>> \o <<b>>)[2] = b /\ Len(<<a>> \o <<b>>) = 2
             /\ (<<a>> \o <<>>)[1] = a /\ Len(<<a>> \o <<>>) = 1
  OBVIOUS
<1> QED
  BY <1>1 DEF PathOf

\* An observation made of established facts is as the properties ask for it.
LEMMA Returned ==
  ASSUME NEW w, NEW x, x.cfg \in Configs,
         Established(x, "record", w), Established(x, "version", w), Established(x, "run", w),
         x.cfg.adapter \in TimedAdapters => Established(x, "time", w),
         x.cfg.adapter = "bouncy_castle" => Established(x, "required", w),
         \/ Established(x, "select", w)
         \/ x.source = "NotReported"
         \/ /\ x.source = "AdapterSelected"
            /\ classify(x.cfg, x.output) = "Accept"
            /\ x.path \in {<<x.saw.files["leaf"]>>,
                           <<x.saw.files["leaf"], x.saw.files["intermediate"]>>}
            /\ x.anchor = x.saw.files["root"]
  PROVE  ReturnedOk(x, w)
<1>1. /\ ReadByTool(x.cfg) \subseteq Supplied(x.cfg)
      /\ {"root", "leaf"} \subseteq ReadByTool(x.cfg)
      /\ "intermediate" \in ReadByTool(x.cfg) <=> "intermediate" \in x.cfg.optional
  BY OpenedIsSupplied DEF Established
<1>2. version_accepted(x.version) /\ x.saw.time = given_time(x.cfg)
  BY DEF Established
<1>3. x.source \in {"PresentedInput", "AdapterSelected", "NotReported"}
  BY DEF Established
<1>4. Traceable(x.cfg, w) => x.version.stdout_truncated \/ x.version.text = x.saw.version
  BY DEF Established
<1>5. x.cfg.adapter \in TimedAdapters => accepted(x.cfg, "time")
  BY DEF Established
<1>6. ASSUME x.quiet = TRUE
      PROVE  \A f \in DOMAIN x.saw.files :
               f \in DOMAIN x.inputs /\ x.inputs[f] = x.saw.files[f]
  BY <1>1, <1>6 DEF Established
<1>7. ASSUME x.quiet = TRUE, x.source = "PresentedInput"
      PROVE  /\ x.path[1] = x.saw.files["leaf"]
             /\ Len(x.path) = 2 => x.path[2] = x.saw.files["intermediate"]
             /\ (Len(x.path) = 2) <=> ("intermediate" \in DOMAIN x.saw.files)
             /\ x.anchor = x.saw.files["root"]
  <2>1. Established(x, "select", w)
    BY <1>7
  <2>2. x.path = PathOf(x.cfg, w.files) /\ x.anchor = w.files["root"]
    BY <1>7, <2>1 DEF Established
  <2>3. /\ DOMAIN x.saw.files = ReadByTool(x.cfg)
        /\ \A f \in ReadByTool(x.cfg) : x.saw.files[f] = w.files[f]
    BY <1>7 DEF Established
  <2>4. /\ x.path[1] = w.files["leaf"]
        /\ Len(x.path) = 2 <=> "intermediate" \in x.cfg.optional
        /\ Len(x.path) = 2 => x.path[2] = w.files["intermediate"]
    BY <2>2, PathShape
  <2> QED
    BY <1>1, <2>2, <2>3, <2>4
<1>8. ASSUME x.source = "AdapterSelected"
      PROVE  /\ classify(x.cfg, x.output) = "Accept"
             /\ x.path \in {<<x.saw.files["leaf"]>>,
                            <<x.saw.files["leaf"], x.saw.files["intermediate"]>>}
             /\ x.anchor = x.saw.files["root"]
  BY <1>8 DEF Established
<1> QED
  BY <1>2, <1>3, <1>4, <1>5, <1>6, <1>7, <1>8 DEF ReturnedOk

LEMMA RunAccounted ==
  ASSUME NEW c, CallOk(call[c], World), Run(c)
  PROVE  Accounted(c)
<1> DEFINE x == call[c]
           cfg == x.cfg
           contents == [f \in ReadByTool(cfg) |->
                          IF f \in DOMAIN x.copied THEN x.copied[f] ELSE files[f]]
           saw == [files |-> contents, version |-> tool[command(cfg)], time |-> given_time(cfg)]
<1>1. Running(c) /\ x.todo[1] = "run"
  BY AtStep DEF Run, At
<1>2. /\ UnderWay(x, World) /\ StepsOf(x)[Position(x)] = "run"
      /\ (Tail(x.todo) = <<>>) <=> (Position(x) = Len(StepsOf(x)))
  BY <1>1, AtStep
<1>3. PICK output \in Outputs, report \in IF cfg.mode = "PathBuilder" THEN PathReports(contents)
                                                                      ELSE {None} :
        LET ended == [x EXCEPT !.output = output, !.report = report, !.saw = saw] IN
        IF Tail(ended.todo) = <<>> THEN Update(c, [ended EXCEPT !.outcome = "ok"])
                                   ELSE Proceed(c, ended)
  BY DEF Run
<1> DEFINE z == [x EXCEPT !.output = output, !.report = report, !.saw = saw]
<1>4. IF Tail(z.todo) = <<>> THEN Update(c, [z EXCEPT !.outcome = "ok"]) ELSE Proceed(c, z)
  BY <1>3
<1>5. /\ DOMAIN z = Fields /\ z.cfg = x.cfg /\ z.todo = x.todo /\ z.outcome = "running"
      /\ z.inputs = x.inputs /\ z.quiet = x.quiet /\ z.source = x.source /\ z.path = x.path
      /\ z.anchor = x.anchor /\ z.version = x.version /\ z.saw = saw
      /\ z.report = report /\ z.copied = x.copied
  BY <1>2 DEF Fields, UnderWay
<1>6. World.files = files /\ World.tool = tool
  BY DEF World
<1>7. CopiesMatch(x, World)
  BY <1>2 DEF UnderWay, RunningOk
<1>8. x.quiet = TRUE => \A f \in ReadByTool(cfg) : contents[f] = files[f]
  BY <1>6, <1>7 DEF CopiesMatch
<1>9. /\ saw.files = contents /\ saw.version = tool[command(cfg)]
      /\ saw.time = given_time(cfg) /\ DOMAIN contents = ReadByTool(cfg)
  OBVIOUS
<1>10. cfg.mode = "PathBuilder" => report \in PathReports(contents)
  BY <1>3
<1> HIDE DEF z, saw, contents
<1>11. Established(z, "run", World)
  BY <1>5, <1>6, <1>8, <1>9, <1>10 DEF Established
<1>12. ASSUME NEW step PROVE Established(x, step, World) => Established(z, step, World)
  BY <1>5, <1>11 DEF Established
<1>13. CopiesMatch(z, World)
  BY <1>5, <1>7 DEF CopiesMatch
<1>14. x.cfg \in Configs /\ OnTrack(x) /\ EstablishedSoFar(x, World)
  BY <1>2 DEF UnderWay, RunningOk
<1>15. CASE Tail(x.todo) # <<>>
  <2>1. Proceed(c, z)
    BY <1>4, <1>5, <1>15
  <2>2. Position(x) \in 1 .. Len(StepsOf(x)) /\ Len(StepsOf(x)) \in Nat
    BY <1>14, Place
  <2>3. Position(x) < Len(StepsOf(x))
    BY <1>2, <1>15, <2>2
  <2>4. \A j \in 1 .. Position(x) : j = Position(x) \/ j \in 1 .. Position(x) - 1
    BY <2>2
  <2>5. \A j \in 1 .. Position(x) : Established(z, StepsOf(x)[j], World)
    BY <1>2, <1>11, <1>12, <1>14, <2>4 DEF EstablishedSoFar
  <2>6. CallOk([z EXCEPT !.todo = Tail(@)], World)
    BY <1>5, <1>13, <1>14, <2>3, <2>5, WentOn
  <2> QED
    BY <2>1, <2>6 DEF Proceed, Accounted
<1>16. CASE Tail(x.todo) = <<>>
  <2> DEFINE y == [z EXCEPT !.outcome = "ok"]
  <2>1. Update(c, y)
    BY <1>4, <1>5, <1>16
  <2>2. /\ DOMAIN y = Fields /\ y.cfg = z.cfg /\ y.outcome = "ok"
        /\ y.inputs = z.inputs /\ y.quiet = z.quiet /\ y.source = z.source /\ y.path = z.path
        /\ y.anchor = z.anchor /\ y.version = z.version /\ y.saw = z.saw
        /\ y.report = z.report
    BY <1>5 DEF Fields
  <2> HIDE DEF y
  <2>3. ASSUME NEW step PROVE Established(z, step, World) => Established(y, step, World)
    BY <2>2 DEF Established
  <2>4. /\ Established(x, "record", World) /\ Established(x, "version", World)
        /\ x.cfg.adapter \in TimedAdapters => Established(x, "time", World)
        /\ x.cfg.adapter # "bouncy_castle" /\ Established(x, "select", World)
    BY <1>2, <1>16, ReadyToRun
  <2>5. ReturnedOk(y, World)
    BY <1>5, <1>11, <1>12, <1>14, <2>2, <2>3, <2>4, Returned
  <2>6. CallOk(y, World)
    BY <1>5, <1>14, <2>2, <2>5 DEF CallOk
  <2> QED
    BY <2>1, <2>6 DEF Accounted
<1> QED
  BY <1>15, <1>16

\* The path an accepted path builder reports.
LEMMA ReportedPath ==
  ASSUME NEW fs, NEW report \in PathReports(fs), report # None, report # <<>>
  PROVE  /\ SubSeq(report, 1, Len(report) - 1) \in {<<fs["leaf"]>>,
                                                    <<fs["leaf"], fs["intermediate"]>>}
         /\ report[Len(report)] = fs["root"]
<1> DEFINE a == fs["leaf"]
           b == fs["intermediate"]
           d == fs["root"]
<1>1. report = <<a, d>> \/ report = <<a, b, d>>
  BY DEF PathReports
<1> HIDE DEF a, b, d
<1>2. CASE report = <<a, d>>
  <2>1. Len(report) = 2 /\ report \in Seq({a, b, d}) /\ report[1] = a /\ report[2] = d
    BY <1>2
  <2>2. SubSeq(report, 1, 1) = <<a>>
    <3>1. /\ SubSeq(report, 1, 1) \in Seq({a, b, d}) /\ Len(SubSeq(report, 1, 1)) = 1
          /\ SubSeq(report, 1, 1)[1] = a
      BY <2>1, SubSeqProperties
    <3>2. <<a>> \in Seq({a, b, d}) /\ Len(<<a>>) = 1 /\ <<a>>[1] = a
      OBVIOUS
    <3>3. \A k \in 1 .. 1 : k = 1
      OBVIOUS
    <3> QED
      BY <3>1, <3>2, <3>3, SeqEqual
  <2> QED
    BY <2>1, <2>2 DEF a, b, d
<1>3. CASE report = <<a, b, d>>
  <2>1. /\ Len(report) = 3 /\ report \in Seq({a, b, d})
        /\ report[1] = a /\ report[2] = b /\ report[3] = d
    BY <1>3
  <2>2. SubSeq(report, 1, 2) = <<a, b>>
    <3>1. /\ SubSeq(report, 1, 2) \in Seq({a, b, d}) /\ Len(SubSeq(report, 1, 2)) = 2
          /\ SubSeq(report, 1, 2)[1] = a /\ SubSeq(report, 1, 2)[2] = b
      BY <2>1, SubSeqProperties
    <3>2. /\ <<a, b>> \in Seq({a, b, d}) /\ Len(<<a, b>>) = 2
          /\ <<a, b>>[1] = a /\ <<a, b>>[2] = b
      OBVIOUS
    <3>3. \A k \in 1 .. 2 : k = 1 \/ k = 2
      OBVIOUS
    <3> QED
      BY <3>1, <3>2, <3>3, SeqEqual
  <2> QED
    BY <2>1, <2>2 DEF a, b, d
<1> QED
  BY <1>1, <1>2, <1>3

LEMMA SelectAfterRunAccounted ==
  ASSUME NEW c, CallOk(call[c], World), SelectAfterRun(c)
  PROVE  Accounted(c)
<1> DEFINE x == call[c]
           e == [x EXCEPT !.outcome = "ok"]
<1>1. Running(c) /\ x.todo[1] = "path"
  BY AtStep DEF SelectAfterRun, At
<1>2. UnderWay(x, World) /\ StepsOf(x)[Position(x)] = "path"
  BY <1>1, AtStep
<1>3. /\ Established(x, "record", World) /\ Established(x, "version", World)
      /\ x.cfg.adapter \in TimedAdapters => Established(x, "time", World)
      /\ x.cfg.adapter = "bouncy_castle"
      /\ Established(x, "required", World) /\ Established(x, "run", World)
  BY <1>2, ReadyToRun
<1>4. World.files = files /\ x.cfg \in Configs /\ DOMAIN x = Fields
  BY <1>2 DEF World, UnderWay
<1>5. ASSUME NEW path, NEW anchor, NEW source,
             \/ /\ source = "PresentedInput"
                /\ path = PathOf(x.cfg, files) /\ anchor = files["root"]
             \/ source = "NotReported"
             \/ /\ source = "AdapterSelected"
                /\ classify(x.cfg, x.output) = "Accept"
                /\ path \in {<<x.saw.files["leaf"]>>,
                             <<x.saw.files["leaf"], x.saw.files["intermediate"]>>}
                /\ anchor = x.saw.files["root"]
      PROVE  CallOk([e EXCEPT !.path = path, !.anchor = anchor, !.source = source], World)
  <2> DEFINE y == [e EXCEPT !.path = path, !.anchor = anchor, !.source = source]
  <2>1. /\ DOMAIN y = Fields /\ y.cfg = x.cfg /\ y.outcome = "ok"
        /\ y.inputs = x.inputs /\ y.quiet = x.quiet /\ y.source = source /\ y.path = path
        /\ y.anchor = anchor /\ y.version = x.version /\ y.saw = x.saw
        /\ y.report = x.report /\ y.output = x.output
    BY <1>4 DEF Fields
  <2> HIDE DEF y, e
  <2>2. /\ Established(y, "record", World) /\ Established(y, "version", World)
        /\ Established(y, "run", World) /\ Established(y, "required", World)
        /\ y.cfg.adapter \in TimedAdapters => Established(y, "time", World)
    BY <1>3, <2>1 DEF Established
  <2>3. source = "PresentedInput" => Established(y, "select", World)
    BY <1>4, <1>5, <2>1 DEF Established
  <2>4. ReturnedOk(y, World)
    BY <1>4, <1>5, <2>1, <2>2, <2>3, Returned
  <2>5. CallOk(y, World)
    BY <1>4, <2>1, <2>4 DEF CallOk
  <2> QED
    BY <2>5 DEF y
<1>6. CASE x.cfg.mode # "PathBuilder"
  <2> DEFINE path == selected_path_hashes(x.cfg)
             readable == {files["root"]} \cup {path[i] : i \in DOMAIN path} \subseteq Certificates
  <2>1. Update(c, WithPresentedPath(e)) /\ e.cfg = x.cfg /\ DOMAIN e = Fields
    BY <1>4, <1>6 DEF SelectAfterRun, Fields
  <2>2. path = PathOf(x.cfg, files)
    BY DEF selected_path_hashes, PathOf
  <2>3. CASE readable
    <3>1. WithPresentedPath(e) =
            [e EXCEPT !.path = path, !.anchor = files["root"], !.source = "PresentedInput"]
      BY <2>1, <2>3 DEF WithPresentedPath
    <3> HIDE DEF path
    <3>2. CallOk([e EXCEPT !.path = path, !.anchor = files["root"],
                           !.source = "PresentedInput"], World)
      BY <1>5, <2>2
    <3>3. CallOk(WithPresentedPath(e), World)
      <4> HIDE DEF e
      <4> QED
        BY <3>1, <3>2
    <3> QED
      BY <2>1, <3>3 DEF Accounted
  <2>4. CASE ~readable
    <3> HIDE DEF e
    <3>1. WithPresentedPath(e) = [e EXCEPT !.outcome = "error"]
      BY <2>1, <2>4 DEF WithPresentedPath
    <3>2. CallOk(WithPresentedPath(e), World)
      BY <1>4, <2>1, <3>1, Failed
    <3> QED
      BY <2>1, <3>2 DEF Accounted
  <2> QED
    BY <2>3, <2>4
<1>7. CASE x.cfg.mode = "PathBuilder" /\ ~uses_report(c)
  <2>1. Update(c, [e EXCEPT !.path = <<>>, !.anchor = "not-reported", !.source = "NotReported"])
    BY <1>7 DEF SelectAfterRun
  <2> QED
    BY <1>5, <2>1 DEF Accounted
<1>8. CASE /\ x.cfg.mode = "PathBuilder" /\ uses_report(c) /\ x.report \in {None, <<>>}
  BY <1>1, <1>8, FailAccounted DEF SelectAfterRun
<1>9. CASE x.cfg.mode = "PathBuilder" /\ uses_report(c) /\ x.report \notin {None, <<>>}
  <2> DEFINE path == SubSeq(x.report, 1, Len(x.report) - 1)
             anchor == x.report[Len(x.report)]
  <2>1. Update(c, [e EXCEPT !.path = path, !.anchor = anchor, !.source = "AdapterSelected"])
    BY <1>9 DEF SelectAfterRun
  <2>2. x.report \in PathReports(x.saw.files)
    BY <1>3, <1>9 DEF Established
  <2>3. /\ path \in {<<x.saw.files["leaf"]>>, <<x.saw.files["leaf"], x.saw.files["intermediate"]>>}
        /\ anchor = x.saw.files["root"]
    BY <1>9, <2>2, ReportedPath
  <2>4. classify(x.cfg, x.output) = "Accept"
    BY <1>9 DEF uses_report
  <2> HIDE DEF path, anchor, e
  <2>5. CallOk([e EXCEPT !.path = path, !.anchor = anchor, !.source = "AdapterSelected"], World)
    BY <1>5, <2>3, <2>4 DEF e
  <2> QED
    BY <2>1, <2>5 DEF Accounted
<1> QED
  BY <1>6, <1>7, <1>8, <1>9

LEMMA BeginAccounted ==
  ASSUME NEW c, NEW cfg \in Configs, Begin(c, cfg)
  PROVE  Accounted(c)
<1> DEFINE x == [outcome |-> "running", cfg |-> cfg, todo |-> Steps[cfg.adapter],
                 inputs |-> None, copied |-> <<>>, path |-> None, anchor |-> None,
                 source |-> None, version |-> None, output |-> None, report |-> None,
                 saw |-> None, quiet |-> TRUE]
<1>1. Update(c, x)
  BY DEF Begin
<1>2. /\ DOMAIN x = Fields /\ x.cfg = cfg /\ x.outcome = "running"
      /\ x.todo = Steps[cfg.adapter] /\ x.copied = <<>>
  BY DEF Fields
<1> HIDE DEF x
<1>3. WellOrdered(cfg.adapter, Steps[cfg.adapter]) /\ StepsOf(x) = x.todo
  BY <1>2, ConfigSteps DEF StepsOf
<1>4. x.todo \in Seq(StepNames) /\ Len(x.todo) \in Nat /\ Len(x.todo) >= 1
  BY <1>2, <1>3 DEF WellOrdered
<1>5. Position(x) = 1
  BY <1>3, <1>4 DEF Position
<1>6. OnTrack(x)
  BY <1>3, <1>4, <1>5 DEF OnTrack
<1>7. EstablishedSoFar(x, World)
  BY <1>5 DEF EstablishedSoFar
<1>8. x.todo[1] # "insert"
  BY <1>2, <1>3, <1>4 DEF WellOrdered
<1>9. DOMAIN x.copied = {}
  BY <1>2
<1>10. CallOk(x, World)
  BY <1>2, <1>6, <1>7, <1>8, <1>9 DEF CallOk, RunningOk, CopiesMatch
<1> QED
  BY <1>1, <1>10 DEF Accounted

\* Every step of a caller leaves its call accounted for.
LEMMA VerifyAccounted ==
  ASSUME NEW c, CallOk(call[c], World), CacheInv, tool \in [Commands -> Versions], Verify(c)
  PROVE  Accounted(c) /\ UNCHANGED environment
<1>1. UNCHANGED environment
  BY DEF Verify, Begin, Resolve, CheckConfig, record_inputs, Select, LookUpVersion, RunVersion,
         InsertVersion, Mount, CopyAuthorities, Run, SelectAfterRun, SystemCallFails
<1> QED
  BY <1>1, BeginAccounted, ResolveAccounted, CheckConfigAccounted, RecordAccounted,
     SelectAccounted, LookUpAccounted, RunVersionAccounted, InsertAccounted, MountAccounted,
     CopyAccounted, RunAccounted, SelectAfterRunAccounted, SystemCallFailsAccounted DEF Verify

-----------------------------------------------------------------------------
(* The environment *)

\* A replaced file disturbs only the running calls, which are no longer quiet.
LEMMA Replaced ==
  ASSUME NEW w, NEW v, v.tool = w.tool, v.upgraded = w.upgraded,
         NEW x, CallOk(x, w),
         NEW y, y = IF x.outcome = "running" THEN [x EXCEPT !.quiet = FALSE] ELSE x
  PROVE  CallOk(y, v)
<1>1. CASE x.outcome # "running"
  <2>1. ReturnedOk(x, w) => ReturnedOk(x, v)
    BY DEF ReturnedOk, Traceable
  <2> QED
    BY <1>1, <2>1 DEF CallOk
<1>2. CASE x.outcome = "running"
  <2>1. x # Idle
    BY <1>2 DEF Idle
  <2>2. DOMAIN x = Fields /\ x.cfg \in Configs /\ RunningOk(x, w)
    BY <1>2, <2>1 DEF CallOk
  <2>3. y = [x EXCEPT !.quiet = FALSE]
    BY <1>2
  <2>4. /\ DOMAIN y = Fields /\ y.cfg = x.cfg /\ y.todo = x.todo /\ y.outcome = "running"
        /\ y.inputs = x.inputs /\ y.quiet = FALSE /\ y.source = x.source /\ y.path = x.path
        /\ y.anchor = x.anchor /\ y.version = x.version /\ y.saw = x.saw
        /\ y.report = x.report /\ y.copied = x.copied
    BY <1>2, <2>2, <2>3 DEF Fields
  <2>5. OnTrack(y) /\ Position(y) = Position(x) /\ StepsOf(y) = StepsOf(x)
    BY <2>2, <2>4 DEF RunningOk, OnTrack, Position, StepsOf
  <2>6. ASSUME NEW step, Established(x, step, w) PROVE Established(y, step, v)
    BY <2>4, <2>6 DEF Established, Traceable
  <2>7. EstablishedSoFar(y, v)
    BY <2>2, <2>5, <2>6 DEF RunningOk, EstablishedSoFar
  <2>8. CopiesMatch(y, v)
    BY <2>4 DEF CopiesMatch
  <2>9. y.todo[1] = "insert" => Insertable(y.cfg, y.version, v)
    BY <2>2, <2>4 DEF RunningOk, Insertable
  <2> QED
    BY <2>2, <2>4, <2>5, <2>7, <2>8, <2>9 DEF CallOk, RunningOk
<1> QED
  BY <1>1, <1>2

\* An upgraded program is no longer traced; the others are as before.
LEMMA Upgraded ==
  ASSUME NEW w, NEW v, v.files = w.files, w.upgraded \subseteq v.upgraded,
         \A cfg \in Configs :
           command(cfg) \notin v.upgraded => v.tool[command(cfg)] = w.tool[command(cfg)],
         NEW x, CallOk(x, w)
  PROVE  CallOk(x, v)
<1>1. CASE x = Idle
  BY <1>1 DEF CallOk
<1>2. CASE x # Idle
  <2>1. /\ DOMAIN x = Fields /\ x.cfg \in Configs
        /\ x.outcome \in {"running", "error", "ok"}
        /\ x.outcome = "running" => RunningOk(x, w)
        /\ x.outcome = "ok" => ReturnedOk(x, w)
    BY <1>2 DEF CallOk
  <2>2. /\ Traceable(x.cfg, v) => Traceable(x.cfg, w)
        /\ Traceable(x.cfg, v) => v.tool[command(x.cfg)] = w.tool[command(x.cfg)]
    BY <2>1 DEF Traceable
  <2>3. ASSUME NEW step, Established(x, step, w) PROVE Established(x, step, v)
    BY <2>2, <2>3 DEF Established
  <2>4. RunningOk(x, w) => RunningOk(x, v)
    BY <2>1, <2>3 DEF RunningOk, EstablishedSoFar, CopiesMatch, Insertable
  <2>5. ReturnedOk(x, w) => ReturnedOk(x, v)
    BY <2>2 DEF ReturnedOk
  <2> QED
    BY <2>1, <2>4, <2>5 DEF CallOk
<1> QED
  BY <1>1, <1>2

-----------------------------------------------------------------------------
(* The inductive invariant *)

CallsOk == DOMAIN call = Callers /\ \A c \in Callers : CallOk(call[c], World)

AdapterInv ==
  /\ files \in [File -> Certificates \cup OtherContents \cup {Unreadable}]
  /\ tool \in [Commands -> Versions]
  /\ CallsOk
  /\ CacheInv

LEMMA AdapterInit == Init => AdapterInv
<1> SUFFICES ASSUME Init PROVE AdapterInv
  OBVIOUS
<1>1. files \in [File -> Certificates \cup OtherContents \cup {Unreadable}]
  BY AdapterConstants DEF Init
<1>2. tool \in [Commands -> Versions]
  BY DEF Init, Commands
<1>3. CallsOk
  BY DEF Init, CallsOk, CallOk
<1>4. DOMAIN cache = Keys /\ \A key \in Keys : cache[key] = None
  BY DEF Init, Keys
<1>5. CacheInv
  BY <1>4 DEF CacheInv, Keys
<1> QED
  BY <1>1, <1>2, <1>3, <1>5 DEF AdapterInv

LEMMA VerifyPreserves ==
  ASSUME AdapterInv, NEW c \in Callers, Verify(c)
  PROVE  AdapterInv'
<1>1. CallOk(call[c], World) /\ CacheInv /\ tool \in [Commands -> Versions]
  BY DEF AdapterInv, CallsOk
<1>2. Accounted(c) /\ UNCHANGED environment
  BY <1>1, VerifyAccounted
<1>3. World' = World /\ files' = files /\ tool' = tool
  BY <1>2 DEF World, environment
<1>4. CallsOk'
  <2>1. PICK new : call' = [call EXCEPT ![c] = new] /\ CallOk(new, World)
    BY <1>2 DEF Accounted, Update
  <2>2. /\ DOMAIN call' = Callers
        /\ \A d \in Callers : call'[d] = IF d = c THEN new ELSE call[d]
    BY <2>1 DEF AdapterInv, CallsOk
  <2>3. \A d \in Callers : CallOk(call'[d], World)
    BY <2>1, <2>2 DEF AdapterInv, CallsOk
  <2> QED
    BY <1>3, <2>2, <2>3 DEF CallsOk
<1>5. CacheInv'
  <2>1. CASE InsertVersion(c)
    <3> DEFINE x == call[c]
               key == version_cache_key(x.cfg)
    <3>1. Insertable(x.cfg, x.version, World) /\ x.cfg \in Configs
      BY <1>1, <2>1, InsertAccounted
    <3>2. cache' = [cache EXCEPT ![key] = x.version]
      BY <2>1 DEF InsertVersion
    <3>3. /\ DOMAIN cache' = Keys
          /\ \A k \in Keys : cache'[k] = IF k = key THEN x.version ELSE cache[k]
      BY <1>1, <3>1, <3>2 DEF CacheInv, Keys
    <3>4. ASSUME NEW k \in Keys, cache'[k] # None
          PROVE  Complete(cache'[k]) /\ cache'[k].text \in Versions
      BY <1>1, <3>1, <3>3, <3>4 DEF CacheInv, Insertable
    <3>5. ASSUME NEW cfg \in Configs, Traceable(cfg, World),
                 cache'[version_cache_key(cfg)] # None
          PROVE  cache'[version_cache_key(cfg)].text = tool[command(cfg)]
      <4>1. version_cache_key(cfg) \in Keys
        BY DEF Keys
      <4>2. CASE version_cache_key(cfg) # key
        BY <1>1, <3>3, <3>5, <4>1, <4>2 DEF CacheInv
      <4>3. CASE version_cache_key(cfg) = key
        <5>1. DisplayedAs[cfg.executable] = DisplayedAs[x.cfg.executable] /\ cfg.image = x.cfg.image
          BY <4>3 DEF version_cache_key
        <5>2. command(cfg) = command(x.cfg)
          BY <3>1, <3>5, <5>1 DEF command, Traceable, NoAlias
        <5>3. command(x.cfg) \notin World.upgraded
          BY <3>5, <5>2 DEF Traceable
        <5>4. x.version.text = tool[command(x.cfg)]
          BY <3>1, <5>3 DEF Insertable, World
        <5> QED
          BY <3>3, <4>1, <4>3, <5>2, <5>4
      <4> QED
        BY <4>2, <4>3
    <3> QED
      BY <1>3, <3>3, <3>4, <3>5 DEF CacheInv
  <2>2. CASE ~InsertVersion(c)
    <3>1. cache' = cache
      BY <2>2 DEF Verify, Begin, Resolve, CheckConfig, record_inputs, Select, LookUpVersion,
         RunVersion, Mount, CopyAuthorities, Run, SelectAfterRun, SystemCallFails, shared
    <3> QED
      BY <1>1, <1>3, <3>1 DEF CacheInv
  <2> QED
    BY <2>1, <2>2
<1> QED
  BY <1>3, <1>4, <1>5 DEF AdapterInv

LEMMA ReplaceFilePreserves ==
  ASSUME AdapterInv, NEW f \in File,
         NEW content \in Certificates \cup OtherContents \cup {Unreadable},
         ReplaceFile(f, content)
  PROVE  AdapterInv'
<1>1. files' \in [File -> Certificates \cup OtherContents \cup {Unreadable}]
  BY DEF AdapterInv, ReplaceFile
<1>2. tool' = tool /\ cache' = cache /\ upgraded' = upgraded
  BY DEF ReplaceFile, shared
<1>3. World'.tool = World.tool /\ World'.upgraded = World.upgraded
  BY <1>2 DEF World
<1>4. /\ DOMAIN call' = Callers
      /\ \A c \in Callers :
           call'[c] = IF call[c].outcome = "running" THEN [call[c] EXCEPT !.quiet = FALSE]
                                                     ELSE call[c]
  BY DEF ReplaceFile, Running
<1>5. ASSUME NEW c \in Callers PROVE CallOk(call'[c], World')
  <2>1. CallOk(call[c], World)
    BY DEF AdapterInv, CallsOk
  <2> QED
    BY <1>3, <1>4, <2>1, Replaced
<1>6. CallsOk'
  BY <1>4, <1>5 DEF CallsOk
<1>7. CacheInv'
  BY <1>2, <1>3 DEF AdapterInv, CacheInv, Traceable
<1> QED
  BY <1>1, <1>2, <1>6, <1>7 DEF AdapterInv

LEMMA UpgradePreserves ==
  ASSUME AdapterInv, NEW cmd \in DOMAIN tool, NEW version \in Versions, Upgrade(cmd, version)
  PROVE  AdapterInv'
<1>1. /\ files' = files /\ call' = call /\ cache' = cache
      /\ tool' = [tool EXCEPT ![cmd] = version] /\ upgraded' = upgraded \cup {cmd}
  BY DEF Upgrade, shared
<1>2. tool \in [Commands -> Versions] /\ tool' \in [Commands -> Versions]
  BY <1>1 DEF AdapterInv
<1>3. World'.files = World.files /\ World.upgraded \subseteq World'.upgraded
  BY <1>1 DEF World
<1>4. ASSUME NEW cfg \in Configs, command(cfg) \notin World'.upgraded
      PROVE  World'.tool[command(cfg)] = World.tool[command(cfg)]
  <2>1. command(cfg) \in Commands /\ command(cfg) # cmd
    BY <1>1, <1>4 DEF Commands, World
  <2> QED
    BY <1>1, <1>2, <2>1 DEF World
<1>5. ASSUME NEW c \in Callers PROVE CallOk(call'[c], World')
  <2>1. CallOk(call[c], World)
    BY DEF AdapterInv, CallsOk
  <2> QED
    BY <1>1, <1>3, <1>4, <2>1, Upgraded
<1>6. CallsOk'
  BY <1>1, <1>5 DEF AdapterInv, CallsOk
<1>7. CacheInv'
  <2>1. ASSUME NEW cfg \in Configs, Traceable(cfg, World')
        PROVE  Traceable(cfg, World) /\ tool'[command(cfg)] = tool[command(cfg)]
    BY <1>3, <1>4, <2>1 DEF Traceable, World
  <2> QED
    BY <1>1, <2>1 DEF AdapterInv, CacheInv
<1> QED
  BY <1>1, <1>2, <1>6, <1>7 DEF AdapterInv

\* AdapterInv is inductive.
LEMMA AdapterInductive == AdapterInv /\ [Next]_vars => AdapterInv'
<1> SUFFICES ASSUME AdapterInv, [Next]_vars PROVE AdapterInv'
  OBVIOUS
<1>1. CASE \E c \in Callers : Verify(c)
  BY <1>1, VerifyPreserves
<1>2. CASE Environment
  BY <1>2, ReplaceFilePreserves, UpgradePreserves DEF Environment
<1>3. CASE UNCHANGED vars
  <2>1. UNCHANGED <<files, tool, cache, call, upgraded>>
    BY <1>3 DEF vars
  <2>2. World' = World
    BY <2>1 DEF World
  <2> QED
    BY <2>1, <2>2 DEF AdapterInv, CallsOk, CacheInv
<1> QED
  BY <1>1, <1>2, <1>3 DEF Next

LEMMA AdapterAlways == Spec => []AdapterInv
BY AdapterInit, AdapterInductive, PTL DEF Spec

-----------------------------------------------------------------------------
(* Theorems *)

\* A call that returned Ok.
LEMMA OkCall ==
  ASSUME AdapterInv, NEW c \in Callers, Ok(c)
  PROVE  ReturnedOk(call[c], World) /\ call[c].cfg \in Configs
<1>1. CallOk(call[c], World) /\ call[c].outcome = "ok"
  BY DEF AdapterInv, CallsOk, Ok
<1>2. call[c] # Idle
  BY <1>1 DEF Idle
<1> QED
  BY <1>1, <1>2 DEF CallOk

\* What the classifiers answer, and from what.
LEMMA Classified ==
  ASSUME NEW cfg, NEW output
  PROVE  /\ classify(cfg, output) \in {"Accept", "Reject", "Indeterminate", "Unsupported"}
         /\ classify(cfg, output) \in {"Accept", "Reject"} => ~Cut(output)
         /\ classify(cfg, output) = "Accept" => output.status = "0"
<1>1. /\ classify_openssl(output) \in {"Accept", "Reject", "Indeterminate", "Unsupported"}
      /\ classify_openssl(output) \in {"Accept", "Reject"} => ~Cut(output)
      /\ classify_openssl(output) = "Accept" => output.status = "0"
  BY DEF classify_openssl
<1>2. /\ classify_gnutls(output) \in {"Accept", "Reject", "Indeterminate", "Unsupported"}
      /\ classify_gnutls(output) \in {"Accept", "Reject"} => ~Cut(output)
      /\ classify_gnutls(output) = "Accept" => output.status = "0"
  BY DEF classify_gnutls
<1>3. /\ classify_json_verdict(output) \in {"Accept", "Reject", "Indeterminate", "Unsupported"}
      /\ classify_json_verdict(output) \in {"Accept", "Reject"} => Complete(output)
  BY DEF classify_json_verdict
<1> QED
  BY <1>1, <1>2, <1>3 DEF classify, Complete

\* The state is typed, and every call that returned Ok holds an accepted
\* version, a verdict and the source of its path, for every adapter's order of
\* steps.
THEOREM AdapterTypeCorrect == Spec => []TypeOK
<1>1. AdapterInv => TypeOK
  <2> SUFFICES ASSUME AdapterInv PROVE TypeOK
    OBVIOUS
  <2>1. files \in [File -> Certificates \cup OtherContents \cup {Unreadable}]
    BY DEF AdapterInv
  <2>2. tool \in [DOMAIN tool -> Versions]
    BY DEF AdapterInv
  <2>3. ASSUME NEW c \in Callers PROVE call[c].outcome \in {"none", "running", "error", "ok"}
    BY DEF AdapterInv, CallsOk, CallOk, Idle
  <2>4. ASSUME NEW c \in Callers, Ok(c)
        PROVE  /\ call[c].version.status = "0" /\ ~call[c].version.timed_out
               /\ verdict(c) \in {"Accept", "Reject", "Indeterminate", "Unsupported"}
               /\ call[c].source \in {"PresentedInput", "AdapterSelected", "NotReported"}
    BY <2>4, OkCall, Classified DEF ReturnedOk, version_accepted, verdict
  <2> QED
    BY <2>1, <2>2, <2>3, <2>4 DEF TypeOK
<1> QED
  BY <1>1, AdapterAlways, PTL

\* However the callers' steps interleave, the cache holds only complete
\* outputs of version commands that succeeded.
THEOREM CacheStaysComplete == Spec => []CacheIsComplete
<1>1. AdapterInv => CacheIsComplete
  BY DEF AdapterInv, CacheInv, CacheIsComplete
<1> QED
  BY <1>1, AdapterAlways, PTL

\* No adapter says Accept or Reject of a run that was cut, nor Accept of a run
\* that failed.
THEOREM ConclusiveMeansComplete == Spec => []ConclusiveRunsAreComplete
<1>1. AdapterInv => ConclusiveRunsAreComplete
  BY Classified DEF ConclusiveRunsAreComplete, verdict
<1> QED
  BY <1>1, AdapterAlways, PTL

\* Without a replaced file, the recorded inputs, path and anchor are exactly
\* what the verification command read, in every adapter and every order.
THEOREM QuietCallsAreExact == Spec => []QuietCallIsExact
<1>1. AdapterInv => QuietCallIsExact
  <2> SUFFICES ASSUME AdapterInv PROVE QuietCallIsExact
    OBVIOUS
  <2>1. ASSUME NEW c \in Callers, Ok(c), call[c].quiet
        PROVE  LET saw == call[c].saw.files IN
               /\ \A f \in DOMAIN saw : f \in DOMAIN call[c].inputs /\ call[c].inputs[f] = saw[f]
               /\ call[c].source = "PresentedInput" =>
                    /\ call[c].path[1] = saw["leaf"]
                    /\ Len(call[c].path) = 2 => call[c].path[2] = saw["intermediate"]
                    /\ (Len(call[c].path) = 2) <=> ("intermediate" \in DOMAIN saw)
                    /\ call[c].anchor = saw["root"]
    BY <2>1, OkCall DEF ReturnedOk
  <2> QED
    BY <2>1 DEF QuietCallIsExact
<1> QED
  BY <1>1, AdapterAlways, PTL

\* Even when files are replaced under the call, a path labelled as selected by
\* the adapter is one that the accepting run built from what it read.
THEOREM SelectedPathsAreExact == Spec => []AdapterSelectedIsExact
<1>1. AdapterInv => AdapterSelectedIsExact
  BY OkCall DEF ReturnedOk, AdapterSelectedIsExact, verdict
<1> QED
  BY <1>1, AdapterAlways, PTL

\* Rounding down loses less than one unit.
LEMMA RoundedDown ==
  ASSUME NEW unit \in Nat \ {0}, NEW time \in Int
  PROVE  /\ DownTo(unit, time) \in Int
         /\ DownTo(unit, time) <= time /\ time - DownTo(unit, time) < unit
         /\ time % unit = 0 => DownTo(unit, time) = time
<1>1. time % unit \in 0 .. unit - 1
  OBVIOUS
<1>2. ASSUME NEW m \in 0 .. unit - 1
      PROVE  time - m \in Int /\ time - m <= time /\ time - (time - m) < unit
  OBVIOUS
<1>3. time % unit = 0 => DownTo(unit, time) = time
  BY DEF DownTo
<1> QED
  BY <1>1, <1>2, <1>3 DEF DownTo

\* A time whose year is cut to two digits and read again lies in the century
\* these name, whole centuries off, and a time of that century stays itself.
LEMMA ReadAgain ==
  ASSUME NEW time \in Int, TicksPerCentury \in Nat \ {0}
  PROVE  /\ two_digit_year(time) \in ShortYears
         /\ (time - two_digit_year(time)) % TicksPerCentury = 0
         /\ time \in ShortYears => two_digit_year(time) = time
<1>1. ShortYearsFrom \in Int
  BY AdapterConstants
<1>2. ASSUME NEW d \in Int, NEW u \in Nat \ {0}
      PROVE  /\ d % u \in 0 .. u - 1
             /\ (d - (d % u)) % u = 0
             /\ d \in 0 .. u - 1 => d % u = d
  <2>1. d % u \in 0 .. u - 1 /\ (d \in 0 .. u - 1 => d % u = d)
    OBVIOUS
  <2>2. d - (d % u) = u * (d \div u) /\ d \div u \in Int
    OBVIOUS
  <2>3. ASSUME NEW q \in Int PROVE (u * q) % u = 0
    OBVIOUS
  <2> QED
    BY <2>1, <2>2, <2>3
<1> DEFINE d == time - ShortYearsFrom
<1>d. d \in Int
  BY <1>1
<1>4. two_digit_year(time) = ShortYearsFrom + (d % TicksPerCentury)
  BY DEF two_digit_year
<1>5. ASSUME NEW m \in 0 .. TicksPerCentury - 1
      PROVE  /\ ShortYearsFrom + m \in ShortYears
             /\ time - (ShortYearsFrom + m) = d - m
             /\ time \in ShortYears => d \in 0 .. TicksPerCentury - 1
             /\ m = d => ShortYearsFrom + m = time
  BY <1>1 DEF ShortYears
<1> HIDE DEF d
<1>3. /\ d % TicksPerCentury \in 0 .. TicksPerCentury - 1
      /\ (d - (d % TicksPerCentury)) % TicksPerCentury = 0
      /\ d \in 0 .. TicksPerCentury - 1 => d % TicksPerCentury = d
  BY <1>2, <1>d, Zenon
<1> QED
  BY <1>3, <1>4, <1>5, Zenon

\* An observation that claims the validation time was applied comes from a run
\* that was given it to the second, whatever the length of a second, a minute or
\* a century; NSS alone is given another time, and only outside the century
\* that two digits of a year can name, by whole centuries.
THEOREM AppliedTimesWereGiven == Spec => []AppliedTimeWasGiven
<1>1. AdapterInv => AppliedTimeWasGiven
  <2> SUFFICES ASSUME AdapterInv, NEW c \in Callers, Ok(c), time_state(call[c].cfg) = "Pass"
               PROVE  LET cfg == call[c].cfg
                          time == call[c].saw.time
                      IN
                      /\ time # None
                      /\ cfg.time # BadTime =>
                           IF cfg.adapter = "nss" /\ cfg.time \notin ShortYears
                             THEN time \in ShortYears /\ (cfg.time - time) % TicksPerCentury = 0
                             ELSE /\ time <= cfg.time
                                  /\ cfg.time - time < TicksPerSecond
    BY DEF AppliedTimeWasGiven, GivenInTime
  <2> DEFINE cfg == call[c].cfg
  <2>1. /\ cfg \in Configs /\ call[c].saw.time = given_time(cfg)
        /\ cfg.adapter \in TimedAdapters => accepted(cfg, "time")
    BY OkCall DEF ReturnedOk
  <2>2. /\ cfg.time \in Int \cup {BadTime} /\ cfg.adapter \in DOMAIN Steps
    BY <2>1, ConfigsAreTyped
  <2>3. cfg.adapter # "gnutls"
    BY DEF time_state
  <2>4. /\ TicksPerSecond \in Nat \ {0} /\ None \notin Int /\ BadTime \notin Int
        /\ BadTime # None
    BY AdapterConstants
  <2>5. TicksPerMinute \in Nat \ {0} /\ TicksPerCentury \in Nat \ {0}
    <3>1. ASSUME NEW a \in Nat \ {0}, NEW b \in Nat \ {0} PROVE a * b \in Nat \ {0}
      OBVIOUS
    <3> QED
      BY <3>1, AdapterConstants DEF TicksPerMinute, TicksPerCentury
  <2>6. CASE cfg.adapter \in {"openssl", "openssl_tls", "openssl_container",
                              "gnutls_container", "wolfssl"}
    <3>1. given_time(cfg) = DownTo(TicksPerSecond, cfg.time)
      BY <2>6 DEF given_time
    <3>2. cfg.time # BadTime
      BY <2>1, <2>6 DEF accepted, TimedAdapters
    <3>3. /\ given_time(cfg) # None /\ given_time(cfg) <= cfg.time
          /\ cfg.time - given_time(cfg) < TicksPerSecond
      BY <2>2, <2>4, <3>1, <3>2, RoundedDown
    <3>4. cfg.adapter # "nss"
      BY <2>6
    <3> QED
      BY <2>1, <3>3, <3>4, Zenon
  <2>7. CASE cfg.adapter = "nss"
    <3>1. given_time(cfg) = two_digit_year(DownTo(TicksPerMinute, cfg.time))
      BY <2>7 DEF given_time
    <3>2. cfg.time # BadTime /\ cfg.time % TicksPerMinute = 0
      BY <2>1, <2>7 DEF accepted, TimedAdapters, precise_enough
    <3>3. given_time(cfg) = two_digit_year(cfg.time)
      BY <2>2, <2>5, <3>1, <3>2, RoundedDown
    <3>4. /\ two_digit_year(cfg.time) \in ShortYears
          /\ (cfg.time - two_digit_year(cfg.time)) % TicksPerCentury = 0
          /\ cfg.time \in ShortYears => two_digit_year(cfg.time) = cfg.time
      BY <2>2, <2>5, <3>2, ReadAgain
    <3>5. ShortYears \subseteq Int
      BY <2>5, AdapterConstants DEF ShortYears
    <3>6. call[c].saw.time = two_digit_year(cfg.time)
      BY <2>1, <3>3, Zenon
    <3>7. two_digit_year(cfg.time) # None
      BY <2>4, <3>4, <3>5, Zenon
    <3>8. CASE cfg.time \in ShortYears
      <4>1. cfg.time <= cfg.time /\ cfg.time - cfg.time < TicksPerSecond
        BY <2>2, <2>4, <3>2
      <4>2. call[c].saw.time = cfg.time
        BY <3>4, <3>6, <3>8, Zenon
      <4> QED
        BY <3>6, <3>7, <3>8, <4>1, <4>2, Zenon
    <3>9. CASE cfg.time \notin ShortYears
      BY <2>7, <3>4, <3>6, <3>7, <3>9, Zenon
    <3> QED
      BY <3>8, <3>9
  <2>8. CASE cfg.adapter \notin {"openssl", "openssl_tls", "openssl_container",
                                 "gnutls_container", "wolfssl", "nss"}
    <3>1. given_time(cfg) = cfg.time
      BY <2>3, <2>8 DEF given_time
    <3>2. /\ cfg.time # None
          /\ cfg.time # BadTime => cfg.time <= cfg.time /\ cfg.time - cfg.time < TicksPerSecond
      BY <2>2, <2>4
    <3>3. cfg.adapter # "nss"
      BY <2>8
    <3> QED
      BY <2>1, <3>1, <3>2, <3>3, Zenon
  <2> QED
    BY <2>6, <2>7, <2>8
<1> QED
  BY <1>1, AdapterAlways, PTL

\* When no path that is not UTF-8 is displayed as one that is, a reported
\* version was printed by the program that verified, unless it was upgraded or
\* the report shows the version as cut.  The hypothesis is needed: the run
\* adapter_alias violates the property without it.
THEOREM VersionsAreExact ==
  ASSUME NoAlias
  PROVE  Spec => []VersionIsExact
<1>1. AdapterInv => VersionIsExact
  <2> SUFFICES ASSUME AdapterInv, NEW c \in Callers, Ok(c), reportable(c),
                      command(call[c].cfg) \notin upgraded
               PROVE  \/ call[c].version.stdout_truncated
                      \/ call[c].version.text = call[c].saw.version
    BY DEF VersionIsExact
  <2>1. ReturnedOk(call[c], World) /\ Traceable(call[c].cfg, World)
    BY OkCall DEF Traceable, reportable, World
  <2> QED
    BY <2>1 DEF ReturnedOk
<1> QED
  BY <1>1, AdapterAlways, PTL

-----------------------------------------------------------------------------
(* How often a version command completes *)

WaitsAt(x, step, key) ==
  x.outcome = "running" /\ Head(x.todo) = step /\ version_cache_key(x.cfg) = key

Waiting(step, key) == {c \in Callers : WaitsAt(call[c], step, key)}

\* Until the output of a key is cached, those who completed its command are
\* still to insert it; from then on nobody else starts the command, so those
\* who did and those who still run it are different callers.
CountInv ==
  /\ DOMAIN ran = Keys
  /\ \A key \in Keys :
       /\ ran[key] \in Nat
       /\ cache[key] = None => ran[key] = Cardinality(Waiting("insert", key))
       /\ cache[key] # None =>
            ran[key] + Cardinality(Waiting("run_version", key)) <= Cardinality(Callers)

\* The call is inside cached_version_output, after a miss.
VersionStep(x) == x.outcome = "running" /\ Head(x.todo) \in {"run_version", "insert"}

\* A call whose step is done has left cached_version_output.
LEMMA ProceedLeaves ==
  ASSUME AdapterInv, AdapterInv', NEW c \in Callers, Running(c),
         NEW z, DOMAIN z = Fields, z.cfg = call[c].cfg, z.todo = call[c].todo, Proceed(c, z)
  PROVE  ~VersionStep(call'[c])
<1> DEFINE x == call[c]
           y == call'[c]
<1>1. CallOk(x, World) /\ CallOk(y, World') /\ DOMAIN call = Callers
  BY DEF AdapterInv, CallsOk
<1>2. y = [z EXCEPT !.todo = Tail(@)]
  BY <1>1 DEF Proceed, Update
<1>3. y.cfg = x.cfg /\ y.todo = Tail(x.todo)
  BY <1>2 DEF Fields
<1>4. x.cfg \in Configs /\ OnTrack(x)
  BY <1>1, AtStep DEF UnderWay, RunningOk
<1> SUFFICES ASSUME VersionStep(y) PROVE FALSE
  OBVIOUS
<1>5. y # Idle /\ y.outcome = "running"
  BY DEF VersionStep, Idle
<1> HIDE DEF y
<1>6. OnTrack(y)
  BY <1>1, <1>5 DEF CallOk, RunningOk
<1>7. Len(y.todo) >= 1 /\ Len(y.todo) \in Nat
  BY <1>4, <1>6, <1>3, ConfigSteps DEF OnTrack
<1>8. Tail(x.todo) # <<>>
  BY <1>3, <1>7
<1>9. Position(x) < Len(StepsOf(x))
  BY <1>4, <1>8, Place
<1>10. y.todo[1] \notin {"run_version", "insert"}
  BY <1>3, <1>4, <1>9, Advanced
<1>11. Head(y.todo) = y.todo[1]
  BY <1>3, <1>4, <1>6, Place
<1> QED
  BY <1>10, <1>11 DEF VersionStep

\* A call that returns an error has left it too.
LEMMA FailLeaves ==
  ASSUME AdapterInv, NEW c \in Callers, Running(c), Fail(c)
  PROVE  ~VersionStep(call'[c])
<1>1. DOMAIN call[c] = Fields /\ DOMAIN call = Callers
  BY AtStep DEF AdapterInv, CallsOk, UnderWay
<1>2. call'[c] = [call[c] EXCEPT !.outcome = "error"]
  BY <1>1 DEF Fail, Update
<1> QED
  BY <1>1, <1>2 DEF VersionStep, Fields

LEMMA WithVersionLeaves ==
  ASSUME AdapterInv, AdapterInv', NEW c \in Callers, Running(c),
         NEW output, WithVersion(c, output)
  PROVE  ~VersionStep(call'[c])
<1>1. DOMAIN call[c] = Fields
  BY AtStep DEF AdapterInv, CallsOk, UnderWay
<1> DEFINE z == [call[c] EXCEPT !.version = output]
<1>2. DOMAIN z = Fields /\ z.cfg = call[c].cfg /\ z.todo = call[c].todo
  BY <1>1 DEF Fields
<1>3. Proceed(c, z) \/ Fail(c)
  BY DEF WithVersion
<1> HIDE DEF z
<1> QED
  BY <1>2, <1>3, ProceedLeaves, FailLeaves

\* Only a missed lookup, and a completed command, go on within it.
LEMMA OtherStepsLeave ==
  ASSUME AdapterInv, AdapterInv', NEW c \in Callers, Verify(c),
         ~LookUpVersion(c), ~RunVersion(c)
  PROVE  ~VersionStep(call'[c])
<1>1. CASE \E cfg \in Configs : Begin(c, cfg)
  <2>1. PICK cfg \in Configs : Begin(c, cfg)
    BY <1>1
  <2>2. /\ call'[c].todo = Steps[cfg.adapter]
        /\ DOMAIN call = Callers
    BY <2>1 DEF Begin, Update, AdapterInv, CallsOk
  <2>3. WellOrdered(cfg.adapter, Steps[cfg.adapter])
    BY ConfigSteps
  <2>4. Head(Steps[cfg.adapter]) = Steps[cfg.adapter][1] /\ 1 \in 1 .. Len(Steps[cfg.adapter])
    BY <2>3, HeadAndTail DEF WellOrdered
  <2> QED
    BY <2>2, <2>3, <2>4 DEF VersionStep, WellOrdered
<1>2. CASE ~\E cfg \in Configs : Begin(c, cfg)
  <2>1. Running(c)
    BY <1>2 DEF Verify, Resolve, CheckConfig, record_inputs, Select, InsertVersion, Mount,
                CopyAuthorities, Run, SelectAfterRun, SystemCallFails, At
  <2>2. /\ UnderWay(call[c], World) /\ DOMAIN call = Callers
        /\ (Tail(call[c].todo) = <<>>) <=> (Position(call[c]) = Len(StepsOf(call[c])))
    BY <2>1, AtStep DEF AdapterInv, CallsOk
  <2>3. DOMAIN call[c] = Fields
    BY <2>2 DEF UnderWay
  <2>4. ASSUME Proceed(c, call[c]) \/ Fail(c) PROVE ~VersionStep(call'[c])
    BY <2>1, <2>3, <2>4, ProceedLeaves, FailLeaves
  <2>5. CASE Resolve(c) \/ CheckConfig(c) \/ Mount(c) \/ SystemCallFails(c)
    BY <2>4, <2>5 DEF Resolve, CheckConfig, Mount, SystemCallFails
  <2>6. CASE record_inputs(c)
    <3> DEFINE contents == [f \in Supplied(call[c].cfg) |-> files[f]]
               z == [call[c] EXCEPT !.inputs = contents]
    <3>1. Proceed(c, z) \/ Fail(c)
      BY <2>6 DEF record_inputs
    <3>2. DOMAIN z = Fields /\ z.cfg = call[c].cfg /\ z.todo = call[c].todo
      BY <2>3 DEF Fields
    <3> HIDE DEF z
    <3> QED
      BY <2>1, <3>1, <3>2, ProceedLeaves, FailLeaves
  <2>7. CASE CopyAuthorities(c)
    <3> DEFINE contents == [f \in Supplied(call[c].cfg) \ {"leaf"} |-> files[f]]
               z == [call[c] EXCEPT !.copied = contents]
    <3>1. Proceed(c, z) \/ Fail(c)
      BY <2>7 DEF CopyAuthorities
    <3>2. DOMAIN z = Fields /\ z.cfg = call[c].cfg /\ z.todo = call[c].todo
      BY <2>3 DEF Fields
    <3> HIDE DEF z
    <3> QED
      BY <2>1, <3>1, <3>2, ProceedLeaves, FailLeaves
  <2>8. CASE Select(c)
    <3> DEFINE z == WithPresentedPath(call[c])
    <3>1. Proceed(c, z)
      BY <2>8 DEF Select
    <3>2. DOMAIN z = Fields /\ z.cfg = call[c].cfg /\ z.todo = call[c].todo
      BY <2>3 DEF Fields, WithPresentedPath
    <3> HIDE DEF z
    <3> QED
      BY <2>1, <3>1, <3>2, ProceedLeaves
  <2>9. CASE InsertVersion(c)
    BY <2>1, <2>9, WithVersionLeaves DEF InsertVersion
  <2>10. CASE Run(c)
    <3>1. PICK output, report, saw :
            LET ended == [call[c] EXCEPT !.output = output, !.report = report, !.saw = saw] IN
            IF Tail(ended.todo) = <<>> THEN Update(c, [ended EXCEPT !.outcome = "ok"])
                                       ELSE Proceed(c, ended)
      BY <2>10 DEF Run
    <3> DEFINE z == [call[c] EXCEPT !.output = output, !.report = report, !.saw = saw]
    <3>2. Update(c, [z EXCEPT !.outcome = "ok"]) \/ Proceed(c, z)
      BY <3>1
    <3>3. DOMAIN z = Fields /\ z.cfg = call[c].cfg /\ z.todo = call[c].todo
      BY <2>3 DEF Fields
    <3> HIDE DEF z
    <3>4. CASE Update(c, [z EXCEPT !.outcome = "ok"])
      <4>1. call'[c] = [z EXCEPT !.outcome = "ok"]
        BY <2>2, <3>4 DEF Update
      <4> QED
        BY <3>3, <4>1 DEF VersionStep, Fields
    <3> QED
      BY <2>1, <3>2, <3>3, <3>4, ProceedLeaves
  <2>11. CASE SelectAfterRun(c)
    <3>1. CASE Fail(c)
      BY <2>4, <3>1
    <3>2. CASE ~Fail(c)
      <4> DEFINE e == [call[c] EXCEPT !.outcome = "ok"]
      <4>1. DOMAIN e = Fields /\ e.outcome = "ok"
        BY <2>3 DEF Fields
      <4> HIDE DEF e
      <4>2. WithPresentedPath(e).outcome \in {"ok", "error"}
        BY <4>1 DEF WithPresentedPath, Fields
      <4>3. ASSUME NEW path, NEW anchor, NEW source,
                   Update(c, [e EXCEPT !.path = path, !.anchor = anchor, !.source = source])
            PROVE  \E new : Update(c, new) /\ new.outcome \in {"ok", "error"}
        <5> DEFINE y == [e EXCEPT !.path = path, !.anchor = anchor, !.source = source]
        <5>1. y.outcome = "ok"
          BY <4>1 DEF Fields
        <5> HIDE DEF y
        <5> QED
          BY <4>3, <5>1 DEF y
      <4>4. \/ Update(c, WithPresentedPath(e))
            \/ \E path, anchor, source :
                 Update(c, [e EXCEPT !.path = path, !.anchor = anchor, !.source = source])
        BY <2>11, <3>2 DEF SelectAfterRun, e
      <4>5. PICK new : Update(c, new) /\ new.outcome \in {"ok", "error"}
        BY <4>2, <4>3, <4>4
      <4>6. call'[c] = new
        BY <2>2, <4>5 DEF Update
      <4> QED
        BY <4>5, <4>6 DEF VersionStep
    <3> QED
      BY <3>1, <3>2
  <2> QED
    BY <1>2, <2>5, <2>6, <2>7, <2>8, <2>9, <2>10, <2>11 DEF Verify
<1> QED
  BY <1>1, <1>2

\* The callers that wait are finitely many.
LEMMA WaitingFinite ==
  ASSUME NEW step, NEW key
  PROVE  /\ IsFiniteSet(Waiting(step, key)) /\ Cardinality(Waiting(step, key)) \in Nat
         /\ Cardinality(Waiting(step, key)) <= Cardinality(Callers)
         /\ Cardinality(Callers) \in Nat
<1>1. Waiting(step, key) \in SUBSET Callers
  BY DEF Waiting
<1>2. IsFiniteSet(Callers)
  BY AdapterConstants
<1> QED
  BY <1>1, <1>2, FS_Subset, FS_CardinalityType

\* The callers that wait before and after a step of caller c.
LEMMA OthersWait ==
  ASSUME DOMAIN call = Callers, NEW c \in Callers, NEW new, Update(c, new), NEW step, NEW key
  PROVE  /\ WaitsAt(new, step, key) => Waiting(step, key)' = Waiting(step, key) \cup {c}
         /\ ~WaitsAt(new, step, key) => Waiting(step, key)' = Waiting(step, key) \ {c}
         /\ c \in Waiting(step, key) <=> WaitsAt(call[c], step, key)
<1>1. \A d \in Callers : call'[d] = IF d = c THEN new ELSE call[d]
  BY DEF Update
<1>2. Waiting(step, key)' = {d \in Callers : WaitsAt(call'[d], step, key)}
  BY DEF Waiting, WaitsAt
<1> QED
  BY <1>1, <1>2 DEF Waiting

LEMMA CountInit == Init => CountInv
<1> SUFFICES ASSUME Init PROVE CountInv
  OBVIOUS
<1>1. \A key \in Keys : cache[key] = None /\ ran[key] = 0
  BY DEF Init, Keys
<1>2. ASSUME NEW key \in Keys PROVE Waiting("insert", key) = {}
  BY DEF Init, Idle, Waiting, WaitsAt
<1>3. DOMAIN ran = Keys
  BY DEF Init, Keys
<1> QED
  BY <1>1, <1>2, <1>3, FS_EmptySet DEF CountInv

\* A step of a caller keeps the count, by what it does within
\* cached_version_output.
LEMMA VerifyCounts ==
  ASSUME AdapterInv, AdapterInv', CountInv, NEW c \in Callers, Verify(c)
  PROVE  CountInv'
<1> DEFINE x == call[c]
           k0 == version_cache_key(x.cfg)
           I(key) == Waiting("insert", key)
           R(key) == Waiting("run_version", key)
<1>1. /\ DOMAIN call = Callers /\ CallOk(x, World) /\ CacheInv /\ CacheInv'
      /\ tool \in [Commands -> Versions]
  BY DEF AdapterInv, CallsOk
<1>2. PICK new : Update(c, new) /\ call'[c] = new
  BY <1>1, VerifyAccounted DEF Accounted, Update
<1>3. ASSUME NEW key
      PROVE  /\ IsFiniteSet(I(key)) /\ Cardinality(I(key)) \in Nat
             /\ IsFiniteSet(R(key)) /\ Cardinality(R(key)) \in Nat
             /\ Cardinality(Callers) \in Nat
  BY WaitingFinite
<1>4. ASSUME NEW key \in Keys
      PROVE  /\ ran[key] \in Nat
             /\ cache[key] = None => ran[key] = Cardinality(I(key))
             /\ cache[key] # None => ran[key] + Cardinality(R(key)) <= Cardinality(Callers)
  BY DEF CountInv
<1>5. CASE RunVersion(c) /\ VersionStep(new)
  <2>1. Running(c) /\ Head(x.todo) = "run_version" /\ cache' = cache
    BY <1>5 DEF RunVersion, At
  <2>2. UnderWay(x, World)
    BY <1>1, <2>1, AtStep
  <2>3. PICK output :
          /\ Update(c, [x EXCEPT !.version = output, !.todo = <<"insert">> \o Tail(@)])
          /\ ran' = [ran EXCEPT ![k0] = @ + 1]
    <3>1. PICK output : IF cacheable(output)
            THEN /\ Update(c, [x EXCEPT !.version = output, !.todo = <<"insert">> \o Tail(@)])
                 /\ ran' = [ran EXCEPT ![k0] = @ + 1]
            ELSE WithVersion(c, output)
      BY <1>5 DEF RunVersion
    <3>2. ~WithVersion(c, output)
      BY <1>2, <1>5, <2>1, WithVersionLeaves
    <3> QED
      BY <3>1, <3>2
  <2>4. new = [x EXCEPT !.version = output, !.todo = <<"insert">> \o Tail(@)]
    BY <1>1, <1>2, <2>3 DEF Update
  <2>5. new.todo = <<"insert">> \o Tail(x.todo) /\ new.cfg = x.cfg /\ new.outcome = "running"
    BY <2>2, <2>4 DEF UnderWay, Fields
  <2>6. Head(new.todo) = "insert"
    <3>1. x.todo \in Seq(StepNames) /\ Len(x.todo) >= 1 /\ Tail(x.todo) \in Seq(StepNames)
      BY <2>2, HeadAndTail, ConfigSteps DEF UnderWay, RunningOk, OnTrack, WellOrdered, StepsOf
    <3> QED
      BY <2>5, <3>1
  <2>7. k0 \in Keys
    BY <2>2 DEF UnderWay, Keys
  <2>8. DOMAIN ran' = Keys /\ \A key \in Keys : ran'[key] = IF key = k0 THEN ran[key] + 1 ELSE ran[key]
    BY <2>3, <2>7 DEF CountInv
  <2> HIDE DEF x, k0
  <2>9. ASSUME NEW key \in Keys
        PROVE  /\ ran'[key] \in Nat
               /\ cache'[key] = None => ran'[key] = Cardinality(I(key)')
               /\ cache'[key] # None =>
                    ran'[key] + Cardinality(R(key)') <= Cardinality(Callers)
    <3>1. /\ WaitsAt(new, "insert", key) <=> key = k0
          /\ ~WaitsAt(new, "run_version", key)
          /\ WaitsAt(x, "run_version", key) <=> key = k0
          /\ ~WaitsAt(x, "insert", key)
      BY <2>1, <2>5, <2>6 DEF WaitsAt, k0, x, Running
    <3>2. /\ key = k0 => I(key)' = I(key) \cup {c}
          /\ key # k0 => I(key)' = I(key) \ {c}
          /\ R(key)' = R(key) \ {c}
          /\ c \in R(key) <=> key = k0
          /\ c \notin I(key)
      BY <1>1, <1>2, <3>1, OthersWait DEF x
    <3>3. CASE key = k0
      <4>1. Cardinality(I(key)') = Cardinality(I(key)) + 1
        BY <1>3, <3>2, <3>3, FS_AddElement
      <4>2. Cardinality(R(key)') = Cardinality(R(key)) - 1
        BY <1>3, <3>2, <3>3, FS_RemoveElement
      <4> HIDE DEF I, R
      <4> QED
        BY <1>3, <1>4, <2>1, <2>8, <3>3, <4>1, <4>2
    <3>4. CASE key # k0
      <4>1. I(key)' = I(key) /\ R(key)' = R(key)
        BY <3>2, <3>4
      <4> QED
        BY <1>4, <2>1, <2>8, <3>4, <4>1
    <3> QED
      BY <3>3, <3>4
  <2> QED
    BY <2>8, <2>9 DEF CountInv
<1>6. CASE LookUpVersion(c) /\ VersionStep(new)
  <2>1. Running(c) /\ Head(x.todo) = "version" /\ cache' = cache /\ ran' = ran
    BY <1>6 DEF LookUpVersion, At, shared
  <2>2. UnderWay(x, World)
    BY <1>1, <2>1, AtStep
  <2>3. /\ cache[k0] = None
        /\ Update(c, [x EXCEPT !.todo = <<"run_version">> \o Tail(@)])
    <3>1. ~WithVersion(c, cache[k0])
      BY <1>2, <1>6, <2>1, WithVersionLeaves
    <3> QED
      BY <1>6, <3>1 DEF LookUpVersion
  <2>4. new = [x EXCEPT !.todo = <<"run_version">> \o Tail(@)]
    BY <1>1, <1>2, <2>3 DEF Update
  <2>5. new.todo = <<"run_version">> \o Tail(x.todo) /\ new.cfg = x.cfg
    BY <2>2, <2>4 DEF UnderWay, Fields
  <2>6. Head(new.todo) = "run_version"
    <3>1. x.todo \in Seq(StepNames) /\ Len(x.todo) >= 1 /\ Tail(x.todo) \in Seq(StepNames)
      BY <2>2, HeadAndTail, ConfigSteps DEF UnderWay, RunningOk, OnTrack, WellOrdered, StepsOf
    <3> QED
      BY <2>5, <3>1
  <2> HIDE DEF x, k0
  <2>7. ASSUME NEW key \in Keys
        PROVE  I(key)' = I(key) /\ (cache[key] # None => R(key)' = R(key))
    <3>1. /\ ~WaitsAt(new, "insert", key) /\ ~WaitsAt(x, "insert", key)
          /\ ~WaitsAt(x, "run_version", key)
          /\ key # k0 => ~WaitsAt(new, "run_version", key)
      BY <2>1, <2>5, <2>6 DEF WaitsAt, k0, x
    <3>2. /\ I(key)' = I(key) \ {c} /\ c \notin I(key)
          /\ key # k0 => R(key)' = R(key) \ {c}
          /\ c \notin R(key)
      BY <1>1, <1>2, <3>1, OthersWait DEF x
    <3> QED
      BY <2>3, <3>2
  <2> QED
    BY <1>4, <2>1, <2>7 DEF CountInv
<1>7. CASE ~VersionStep(new) /\ ~InsertVersion(c)
  <2>1. cache' = cache /\ ran' = ran
    <3>1. CASE RunVersion(c)
      <4>1. CASE ran' = ran
        BY <3>1, <4>1 DEF RunVersion
      <4>2. CASE ran' # ran
        <5>1. Running(c) /\ UnderWay(x, World)
          BY <1>1, <3>1, AtStep DEF RunVersion, At
        <5>2. PICK output :
                Update(c, [x EXCEPT !.version = output, !.todo = <<"insert">> \o Tail(@)])
          BY <3>1, <4>2 DEF RunVersion
        <5>3. new = [x EXCEPT !.version = output, !.todo = <<"insert">> \o Tail(@)]
          BY <1>1, <1>2, <5>2 DEF Update
        <5>4. new.todo = <<"insert">> \o Tail(x.todo) /\ new.outcome = "running"
          BY <5>1, <5>3 DEF UnderWay, Fields
        <5>5. x.todo \in Seq(StepNames) /\ Len(x.todo) >= 1 /\ Tail(x.todo) \in Seq(StepNames)
          BY <5>1, HeadAndTail, ConfigSteps
          DEF UnderWay, RunningOk, OnTrack, WellOrdered, StepsOf
        <5>6. Head(new.todo) = "insert"
          BY <5>4, <5>5
        <5> QED
          BY <1>7, <5>4, <5>6 DEF VersionStep
      <4> QED
        BY <4>1, <4>2
    <3>2. CASE ~RunVersion(c)
      BY <1>7, <3>2 DEF Verify, Begin, Resolve, CheckConfig, record_inputs, Select, LookUpVersion,
         Mount, CopyAuthorities, Run, SelectAfterRun, SystemCallFails, shared
    <3> QED
      BY <3>1, <3>2
  <2>2. ~WaitsAt(x, "insert", version_cache_key(x.cfg))
    BY <1>7 DEF Verify, Begin, Resolve, CheckConfig, record_inputs, Select, LookUpVersion,
       RunVersion, Mount, CopyAuthorities, Run, SelectAfterRun, SystemCallFails, At, Running,
       WaitsAt
  <2> HIDE DEF x, k0
  <2>3. ASSUME NEW key \in Keys
        PROVE  I(key)' = I(key) /\ R(key)' \subseteq R(key)
    <3>1. /\ ~WaitsAt(new, "insert", key) /\ ~WaitsAt(x, "insert", key)
          /\ ~WaitsAt(new, "run_version", key)
      BY <1>7, <2>2 DEF WaitsAt, VersionStep
    <3>2. I(key)' = I(key) \ {c} /\ c \notin I(key) /\ R(key)' = R(key) \ {c}
      BY <1>1, <1>2, <3>1, OthersWait DEF x
    <3> QED
      BY <3>2
  <2>4. ASSUME NEW key \in Keys
        PROVE  Cardinality(R(key)') <= Cardinality(R(key)) /\ Cardinality(R(key)') \in Nat
    BY <1>3, <2>3, FS_Subset, FS_CardinalityType
  <2>5. ASSUME NEW key \in Keys, cache[key] # None
        PROVE  ran[key] + Cardinality(R(key)') <= Cardinality(Callers)
    <3>1. ran[key] + Cardinality(R(key)) <= Cardinality(Callers) /\ ran[key] \in Nat
      BY <1>4, <2>5
    <3>2. /\ Cardinality(R(key)) \in Nat /\ Cardinality(Callers) \in Nat
          /\ Cardinality(R(key)') <= Cardinality(R(key)) /\ Cardinality(R(key)') \in Nat
      BY <1>3, <2>4
    <3> HIDE DEF R
    <3> QED
      BY <3>1, <3>2
  <2> QED
    BY <1>4, <2>1, <2>3, <2>5 DEF CountInv
<1>8. CASE InsertVersion(c)
  <2>1. Running(c) /\ Head(x.todo) = "insert" /\ ran' = ran
    BY <1>8 DEF InsertVersion, At
  <2>2. x.cfg \in Configs /\ x.version # None /\ k0 \in Keys
    BY <1>1, <1>8, InsertAccounted DEF Insertable, Keys
  <2>3. \A key \in Keys : cache'[key] = IF key = k0 THEN x.version ELSE cache[key]
    BY <1>1, <1>8, <2>2 DEF InsertVersion, CacheInv
  <2>4. ~VersionStep(new)
    BY <1>2, <1>8, <2>1, WithVersionLeaves DEF InsertVersion
  <2> HIDE DEF x, k0
  <2>5. ASSUME NEW key \in Keys
        PROVE  R(key)' = R(key) /\ (key # k0 => I(key)' = I(key))
    <3>1. /\ ~WaitsAt(new, "run_version", key) /\ ~WaitsAt(x, "run_version", key)
          /\ ~WaitsAt(new, "insert", key)
          /\ key # k0 => ~WaitsAt(x, "insert", key)
      BY <2>1, <2>4 DEF WaitsAt, VersionStep, k0
    <3>2. /\ R(key)' = R(key) \ {c} /\ c \notin R(key)
          /\ I(key)' = I(key) \ {c} /\ (key # k0 => c \notin I(key))
      BY <1>1, <1>2, <3>1, OthersWait DEF x
    <3> QED
      BY <3>2
  <2>6. ASSUME NEW key \in Keys
        PROVE  Cardinality(I(key)) + Cardinality(R(key)) <= Cardinality(Callers)
    <3>1. I(key) \cap R(key) = {} /\ I(key) \cup R(key) \in SUBSET Callers
      BY DEF Waiting, WaitsAt
    <3>2. Cardinality(I(key) \cup R(key)) = Cardinality(I(key)) + Cardinality(R(key)) - 0
      BY <1>3, <3>1, FS_Union, FS_EmptySet
    <3>3. Cardinality(I(key) \cup R(key)) <= Cardinality(Callers)
      BY <3>1, FS_Subset, AdapterConstants
    <3> HIDE DEF I, R
    <3> QED
      BY <1>3, <3>2, <3>3
  <2>7. ASSUME NEW key \in Keys
        PROVE  ran[key] + Cardinality(R(key)) <= Cardinality(Callers) \/ key # k0
    BY <1>4, <2>6
  <2> QED
    BY <1>4, <2>1, <2>2, <2>3, <2>5, <2>7 DEF CountInv
<1>9. ~VersionStep(new) \/ LookUpVersion(c) \/ RunVersion(c)
  BY <1>2, OtherStepsLeave
<1> QED
  BY <1>5, <1>6, <1>7, <1>8, <1>9

LEMMA CountInductive == AdapterInv /\ AdapterInv' /\ CountInv /\ [Next]_vars => CountInv'
<1> SUFFICES ASSUME AdapterInv, AdapterInv', CountInv, [Next]_vars PROVE CountInv'
  OBVIOUS
<1>1. CASE \E c \in Callers : Verify(c)
  BY <1>1, VerifyCounts
<1>2. CASE Environment \/ UNCHANGED vars
  <2>1. cache' = cache /\ ran' = ran
    BY <1>2 DEF Environment, ReplaceFile, Upgrade, shared, vars
  <2>2. ASSUME NEW c \in Callers, NEW step, NEW key
        PROVE  WaitsAt(call'[c], step, key) <=> WaitsAt(call[c], step, key)
    <3>1. \/ call'[c] = call[c]
          \/ Running(c) /\ call'[c] = [call[c] EXCEPT !.quiet = FALSE]
      BY <1>2 DEF Environment, ReplaceFile, Upgrade, vars
    <3>2. Running(c) => DOMAIN call[c] = Fields
      BY AtStep DEF AdapterInv, CallsOk, UnderWay
    <3> QED
      BY <3>1, <3>2 DEF WaitsAt, Fields
  <2>3. ASSUME NEW step, NEW key PROVE Waiting(step, key)' = Waiting(step, key)
    <3>1. Waiting(step, key)' = {d \in Callers : WaitsAt(call'[d], step, key)}
      BY DEF Waiting, WaitsAt
    <3> QED
      BY <2>2, <3>1 DEF Waiting
  <2> QED
    BY <2>1, <2>3 DEF CountInv
<1> QED
  BY <1>1, <1>2 DEF Next

\* Callers that miss together all run the version command, but each completes
\* it at most once, however many there are and however many calls they make.
THEOREM VersionRunsAreBounded == Spec => []BoundedVersionRuns
<1>1. CountInv => BoundedVersionRuns
  <2> SUFFICES ASSUME CountInv, NEW key \in Keys PROVE ran[key] <= Cardinality(Callers)
    BY DEF CountInv, BoundedVersionRuns
  <2>1. /\ Cardinality(Waiting("insert", key)) <= Cardinality(Callers)
        /\ Cardinality(Waiting("run_version", key)) \in Nat /\ Cardinality(Callers) \in Nat
    BY WaitingFinite
  <2>2. /\ ran[key] \in Nat
        /\ \/ ran[key] = Cardinality(Waiting("insert", key))
           \/ ran[key] + Cardinality(Waiting("run_version", key)) <= Cardinality(Callers)
    BY DEF CountInv
  <2> QED
    BY <2>1, <2>2
<1> QED
  BY <1>1, CountInit, CountInductive, AdapterInit, AdapterInductive, PTL DEF Spec
=============================================================================

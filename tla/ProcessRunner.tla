--------------------------- MODULE ProcessRunner ---------------------------
(***************************************************************************)
(* run_program of src/src/process.rs: the calling thread spawns a child in *)
(* a process group of its own, two threads drain its output pipes and keep *)
(* a bounded prefix, the caller waits with a time limit, kills the group   *)
(* when the limit passes, reaps the child and joins the readers.           *)
(*                                                                         *)
(* The child and a process it may fork are the environment: they write,    *)
(* close a stream, exit or run on as they like.  A byte is one unit of     *)
(* `written`; what the bytes say is not modelled.                          *)
(***************************************************************************)
EXTENDS Integers, FiniteSetsExt

CONSTANTS
  Limits,         \* the values of ProcessLimits::max_output_bytes
  ReadSize,       \* size of the buffer of read_bounded
  PipeCapacity,   \* bytes a pipe holds before a write blocks
  MaxWritten,     \* bound: bytes written to one stream
  Forks,          \* whether the program may start a process of its own
  Leaves,         \* whether that process may leave the process group
  Faults          \* whether system calls may fail

ASSUME RunnerConstants ==
  /\ Limits \subseteq Nat
  /\ MaxWritten \in Nat
  /\ ReadSize \in Nat \ {0}
  /\ PipeCapacity \in Nat \ {0}
  /\ Forks \in BOOLEAN
  /\ Leaves \in BOOLEAN
  /\ Faults \in BOOLEAN

Streams == {"stdout", "stderr"}
Processes == {"child", "descendant"}

VARIABLES
  limit,      \* max_output_bytes of this call
  pc,         \* where the calling thread is
  outcome,    \* what run_program returned: "none" yet, "ok" or "error"
  timedOut,   \* ProcessOutput::timed_out
  status,     \* the status the caller obtained from wait
  process,    \* each process: absent, running, zombie or gone
  exit,       \* how the child ended: "none" yet, "0", "1" or "signal"
  inGroup,    \* the processes in the child's process group
  holds,      \* the write ends each process has open
  pipe,       \* bytes in each pipe
  written,    \* bytes ever written to each pipe
  reader,     \* each reader thread: absent, reading, done or failed
  captured,   \* length of the prefix each reader keeps
  truncated   \* CapturedStream::truncated of each reader

caller == <<limit, pc, outcome, timedOut, status>>
programs == <<process, exit, inGroup, holds>>
readers == <<reader, captured, truncated>>
vars == <<caller, programs, pipe, written, readers>>

-----------------------------------------------------------------------------

Init ==
  /\ limit \in Limits
  /\ pc = "start"
  /\ outcome = "none"
  /\ timedOut = FALSE
  /\ status = "none"
  /\ process = [p \in Processes |-> "absent"]
  /\ exit = "none"
  /\ inGroup = {}
  /\ holds = [p \in Processes |-> {}]
  /\ pipe = [s \in Streams |-> 0]
  /\ written = [s \in Streams |-> 0]
  /\ reader = [s \in Streams |-> "absent"]
  /\ captured = [s \in Streams |-> 0]
  /\ truncated = [s \in Streams |-> FALSE]

\* run_program returns an error; whatever it started goes on without it.
Fail ==
  /\ pc' = "done"
  /\ outcome' = "error"
  /\ UNCHANGED <<limit, timedOut, status, programs, pipe, written, readers>>

-----------------------------------------------------------------------------
(* The calling thread *)

RefuseZeroLimit == pc = "start" /\ limit = 0 /\ Fail

SpawnFails == pc = "start" /\ limit # 0 /\ Faults /\ Fail

Spawn ==
  /\ pc = "start"
  /\ limit # 0
  /\ pc' = "waiting"
  /\ process' = [process EXCEPT !["child"] = "running"]
  /\ inGroup' = {"child"}
  /\ holds' = [holds EXCEPT !["child"] = Streams]
  /\ reader' = [s \in Streams |-> "reading"]
  /\ UNCHANGED <<limit, outcome, timedOut, status, exit, pipe, written,
                 captured, truncated>>

\* Collecting the status of an ended child frees its process identifier.
Reap(next) ==
  /\ process["child"] = "zombie"
  /\ process' = [process EXCEPT !["child"] = "gone"]
  /\ inGroup' = inGroup \ {"child"}
  /\ status' = exit
  /\ pc' = next
  /\ UNCHANGED <<limit, outcome, exit, holds, pipe, written, readers>>

\* Mutant: the group is also killed after the child was reaped.
WaitThenKill ==
  /\ pc = "waiting"
  /\ timedOut' = FALSE
  /\ Reap("terminating")

\* wait_timeout returns Some(status).
WaitReturns ==
  /\ pc = "waiting"
  /\ timedOut' = FALSE
  /\ Reap("stdout")

\* wait_timeout returns None.  The child may have ended since it last looked.
TimeLimitPasses ==
  /\ pc = "waiting"
  /\ pc' = "terminating"
  /\ UNCHANGED <<limit, outcome, timedOut, status, programs, pipe, written, readers>>

\* Mutant: only the child is killed, as on systems without process groups.
TerminateChildOnly ==
  /\ pc = "terminating"
  /\ pc' = "reaping"
  /\ process' = [process EXCEPT !["child"] = "zombie"]
  /\ exit' = IF process["child"] = "running" THEN "signal" ELSE exit
  /\ holds' = [holds EXCEPT !["child"] = {}]
  /\ UNCHANGED <<limit, outcome, timedOut, status, inGroup, pipe, written, readers>>

\* Mutant: the group is asked to end, with a signal it may ignore.
TerminateByRequest ==
  /\ pc = "terminating"
  /\ pc' = "reaping"
  /\ UNCHANGED <<limit, outcome, timedOut, status, programs, pipe, written, readers>>

\* terminate: SIGKILL to every process of the group.  An unreaped child is
\* still a member, so the group exists; a zombie keeps the status it has.
Terminate ==
  /\ pc = "terminating"
  /\ pc' = "reaping"
  /\ process' = [p \in Processes |->
                   IF p \notin inGroup THEN process[p]
                   ELSE IF p = "child" THEN "zombie" ELSE "gone"]
  /\ exit' = IF process["child"] = "running" THEN "signal" ELSE exit
  /\ holds' = [p \in Processes |-> IF p \in inGroup THEN {} ELSE holds[p]]
  /\ UNCHANGED <<limit, outcome, timedOut, status, inGroup, pipe, written, readers>>

WaitAfterKill ==
  /\ pc = "reaping"
  /\ timedOut' = TRUE
  /\ Reap("stdout")

\* wait_timeout, kill or wait reports an error: the ? returns at once.
SystemCallFails ==
  /\ pc \in {"waiting", "terminating", "reaping"}
  /\ Faults
  /\ Fail

\* Mutant: the caller takes what the reader has so far.
JoinWithoutEof(s) ==
  /\ pc = s
  /\ reader[s] \in {"reading", "done"}
  /\ IF s = "stdout"
       THEN pc' = "stderr" /\ UNCHANGED outcome
       ELSE pc' = "done" /\ outcome' = "ok"
  /\ UNCHANGED <<limit, timedOut, status, programs, pipe, written, readers>>

\* join_reader, first for stdout, then for stderr.
Join(s) ==
  /\ pc = s
  /\ reader[s] = "done"
  /\ IF s = "stdout"
       THEN pc' = "stderr" /\ UNCHANGED outcome
       ELSE pc' = "done" /\ outcome' = "ok"
  /\ UNCHANGED <<limit, timedOut, status, programs, pipe, written, readers>>

JoinFails(s) == pc = s /\ reader[s] = "failed" /\ Fail

\* The steps the caller takes when its system calls succeed.
Advance ==
  \/ RefuseZeroLimit \/ Spawn
  \/ WaitReturns \/ TimeLimitPasses \/ Terminate \/ WaitAfterKill
  \/ \E s \in Streams : Join(s) \/ JoinFails(s)

Caller == Advance \/ SpawnFails \/ SystemCallFails

-----------------------------------------------------------------------------
(* The reader threads: read_bounded *)

\* Mutant: the truncation test counts a chunk that exactly fits.
TruncatedWhenFull(s, n) == truncated[s] \/ n >= limit - captured[s]

TruncatedBy(s, n) == truncated[s] \/ n > limit - captured[s]

\* Mutant: every byte is kept.
ReadKeepsAll(s, n) ==
  /\ reader[s] = "reading"
  /\ n <= pipe[s]
  /\ pipe' = [pipe EXCEPT ![s] = @ - n]
  /\ captured' = [captured EXCEPT ![s] = @ + n]
  /\ truncated' = [truncated EXCEPT ![s] = TruncatedBy(s, n)]
  /\ UNCHANGED <<caller, programs, written, reader>>

\* Mutant: the reader stops once it holds the limit.
ReadUntilFull(s, n) ==
  /\ reader[s] = "reading"
  /\ captured[s] < limit
  /\ n <= pipe[s]
  /\ pipe' = [pipe EXCEPT ![s] = @ - n]
  /\ captured' = [captured EXCEPT ![s] = @ + Min({n, limit - @})]
  /\ truncated' = [truncated EXCEPT ![s] = TruncatedBy(s, n)]
  /\ UNCHANGED <<caller, programs, written, reader>>

\* One read of n bytes: keep what still fits, drop the rest, go on reading.
Read(s, n) ==
  /\ reader[s] = "reading"
  /\ n <= pipe[s]
  /\ pipe' = [pipe EXCEPT ![s] = @ - n]
  /\ captured' = [captured EXCEPT ![s] = @ + Min({n, limit - @})]
  /\ truncated' = [truncated EXCEPT ![s] = TruncatedBy(s, n)]
  /\ UNCHANGED <<caller, programs, written, reader>>

\* A read returns 0 when the pipe is empty and no process can write to it.
ReadEof(s) ==
  /\ reader[s] = "reading"
  /\ pipe[s] = 0
  /\ \A p \in Processes : s \notin holds[p]
  /\ reader' = [reader EXCEPT ![s] = "done"]
  /\ UNCHANGED <<caller, programs, pipe, written, captured, truncated>>

\* A read fails or the thread panics; the read end closes.
ReadFails(s) ==
  /\ reader[s] = "reading"
  /\ Faults
  /\ reader' = [reader EXCEPT ![s] = "failed"]
  /\ UNCHANGED <<caller, programs, pipe, written, captured, truncated>>

Reader(s) == (\E n \in 1 .. ReadSize : Read(s, n)) \/ ReadEof(s)

-----------------------------------------------------------------------------
(* The programs *)

End(p, how) ==
  /\ process[p] = "running"
  /\ process' = [process EXCEPT ![p] = IF p = "child" THEN "zombie" ELSE "gone"]
  /\ exit' = IF p = "child" THEN how ELSE exit
  /\ holds' = [holds EXCEPT ![p] = {}]
  /\ inGroup' = IF p = "child" THEN inGroup ELSE inGroup \ {p}
  /\ UNCHANGED <<caller, pipe, written, readers>>

Exits(p) == \E how \in {"0", "1", "signal"} : End(p, how)

Fork ==
  /\ Forks
  /\ process["child"] = "running"
  /\ process["descendant"] = "absent"
  /\ process' = [process EXCEPT !["descendant"] = "running"]
  /\ inGroup' = inGroup \cup {"descendant"}
  /\ holds' = [holds EXCEPT !["descendant"] = holds["child"]]
  /\ UNCHANGED <<caller, exit, pipe, written, readers>>

\* setsid, or work handed to a process outside the group such as a container
\* daemon.
LeaveGroup ==
  /\ Leaves
  /\ process["descendant"] = "running"
  /\ "descendant" \in inGroup
  /\ inGroup' = inGroup \ {"descendant"}
  /\ UNCHANGED <<caller, process, exit, holds, pipe, written, readers>>

Close(p, s) ==
  /\ process[p] = "running"
  /\ s \in holds[p]
  /\ holds' = [holds EXCEPT ![p] = @ \ {s}]
  /\ UNCHANGED <<caller, process, exit, inGroup, pipe, written, readers>>

Write(p, s) ==
  /\ process[p] = "running"
  /\ s \in holds[p]
  /\ reader[s] # "failed"
  /\ pipe[s] < PipeCapacity
  /\ written[s] < MaxWritten
  /\ pipe' = [pipe EXCEPT ![s] = @ + 1]
  /\ written' = [written EXCEPT ![s] = @ + 1]
  /\ UNCHANGED <<caller, programs, readers>>

\* Writing to a pipe whose reader is gone raises SIGPIPE.
BrokenPipe(p, s) ==
  /\ s \in holds[p]
  /\ reader[s] = "failed"
  /\ End(p, "signal")

Programs ==
  \/ Fork \/ LeaveGroup
  \/ \E p \in Processes :
       \/ Exits(p)
       \/ \E s \in Streams : Close(p, s) \/ Write(p, s) \/ BrokenPipe(p, s)

-----------------------------------------------------------------------------

Next ==
  \/ Caller
  \/ Programs
  \/ \E s \in Streams : Reader(s) \/ ReadFails(s)

\* The caller and the readers are threads the scheduler runs, and the time
\* limit does pass; nothing is assumed of the programs, and no system call has
\* to fail.
Fairness == WF_vars(Advance) /\ \A s \in Streams : WF_vars(Reader(s))

Spec == Init /\ [][Next]_vars /\ Fairness

-----------------------------------------------------------------------------
(* Properties *)

\* Every variable has its type.
TypeOK ==
  /\ limit \in Limits
  /\ pc \in {"start", "waiting", "terminating", "reaping", "stdout", "stderr", "done"}
  /\ outcome \in {"none", "ok", "error"}
  /\ timedOut \in BOOLEAN
  /\ status \in {"none", "0", "1", "signal"}
  /\ process \in [Processes -> {"absent", "running", "zombie", "gone"}]
  /\ exit \in {"none", "0", "1", "signal"}
  /\ inGroup \in SUBSET Processes
  /\ holds \in [Processes -> SUBSET Streams]
  /\ pipe \in [Streams -> 0 .. PipeCapacity]
  /\ written \in [Streams -> 0 .. MaxWritten]
  /\ reader \in [Streams -> {"absent", "reading", "done", "failed"}]
  /\ captured \in [Streams -> 0 .. limit]
  /\ truncated \in [Streams -> BOOLEAN]

\* Bytes a reader has taken out of its pipe.
Consumed(s) == written[s] - pipe[s]

\* At every moment a reader keeps exactly the first limit bytes it took,
\* and its stream is marked truncated exactly when it took more.
CaptureExact ==
  \A s \in Streams :
    /\ captured[s] = Min({Consumed(s), limit})
    /\ truncated[s] <=> Consumed(s) > limit

\* A record that run_program returns covers the whole output: nothing is left
\* in a pipe, no process can still write, and the captured length and the
\* truncation mark are those of everything that was written.
RecordComplete ==
  outcome = "ok" =>
    \A s \in Streams :
      /\ \A p \in Processes : s \notin holds[p]
      /\ captured[s] = Min({written[s], limit})
      /\ truncated[s] <=> written[s] > limit

\* A returned record carries the status the reaped child really ended with, and
\* one with timed_out leaves no process of the group running.  (A timed-out
\* record may carry status 0: the child can end between the limit and the kill.)
RecordTruthful ==
  outcome = "ok" =>
    /\ process["child"] = "gone"
    /\ status = exit /\ status # "none"
    /\ timedOut => \A p \in inGroup : process[p] # "running"

\* The group is only signalled while the child is unreaped, so its identifier
\* cannot have passed to another process group.
KillWhileUnreaped ==
  pc \in {"terminating", "reaping"} => process["child"] \in {"running", "zombie"}

\* A full pipe is drained again, also beyond the output limit, so the child is
\* never blocked by its own output (test
\* output_is_bounded_without_blocking_the_child).
NeverBlocksTheChild ==
  \A s \in Streams :
    pipe[s] = PipeCapacity ~> pipe[s] < PipeCapacity \/ reader[s] = "failed"

\* The call as its callers see it.
Returned == outcome = "ok"
Call ==
  INSTANCE BoundedCall WITH
    state <- IF outcome = "none" THEN "calling" ELSE IF Returned THEN "returned" ELSE "failed",
    produced <- written,
    ended <- exit,
    record <- [status |-> IF Returned THEN status ELSE "none",
               timed_out |-> Returned /\ timedOut,
               length |-> [s \in Streams |-> IF Returned THEN captured[s] ELSE 0],
               truncated |-> [s \in Streams |-> Returned /\ truncated[s]]]

\* run_program implements BoundedCall: whatever its threads, the signals and the
\* programs do, it returns at most once, not before the child has ended and no
\* process can write any more, and then with one exact and final record.
ImplementsBoundedCall == Call!Spec

Held == \E s \in Streams : s \in holds["descendant"]

\* run_program returns, unless a process the program left behind keeps an
\* output pipe open for ever.
ReturnsUnlessHeld == <>(pc = "done") \/ <>[]Held

\* docs/verification-status.md line 71: "External process execution has a time
\* limit".
Returns == <>(pc = "done")

\* docs/verification-status.md lines 72-73: "a descendant cannot remain active
\* after the timeout".
NothingSurvivesTimeout ==
  outcome = "ok" /\ timedOut => process["descendant"] # "running"
=============================================================================

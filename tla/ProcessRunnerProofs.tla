------------------------ MODULE ProcessRunnerProofs ------------------------
(***************************************************************************)
(* Proofs about run_program for every output limit, buffer size, pipe      *)
(* capacity and amount of output.                                          *)
(***************************************************************************)
EXTENDS ProcessRunner, TLAPS

\* A process that does not run has no pipe open, an ended child has a status,
\* and the child is in its group until it is reaped.
ProcessesConsistent ==
  /\ \A p \in Processes : process[p] # "running" => holds[p] = {}
  /\ process["child"] \in {"zombie", "gone"} <=> exit # "none"
  /\ "child" \in inGroup <=> process["child"] \in {"running", "zombie"}

\* Where the calling thread is says what it has done so far.
CallerConsistent ==
  /\ pc = "start" => /\ \A p \in Processes : process[p] = "absent"
                     /\ \A s \in Streams : reader[s] = "absent"
  /\ pc # "done" => outcome = "none"
  /\ pc \notin {"start", "done"} \/ outcome = "ok" => limit # 0
  /\ KillWhileUnreaped
  /\ pc = "waiting" => process["child"] \in {"running", "zombie"}
  /\ pc = "reaping" => process["child"] = "zombie"
  /\ pc \in {"stdout", "stderr"} \/ outcome = "ok" =>
       process["child"] = "gone" /\ status = exit
  /\ pc = "stderr" \/ outcome = "ok" => reader["stdout"] = "done"
  /\ outcome = "ok" => reader["stderr"] = "done"
  /\ timedOut => process["child"] = "gone"
  /\ pc = "reaping" \/ timedOut => \A p \in inGroup : process[p] # "running"

\* A reader ends only at the end of its stream, and nothing follows that.
StreamsEnd ==
  /\ \A s \in Streams : pipe[s] <= written[s]
  /\ \A s \in Streams :
       reader[s] = "done" => pipe[s] = 0 /\ \A p \in Processes : s \notin holds[p]

\* The inductive invariant: the properties are not inductive by themselves,
\* since a returned record says nothing of the steps that led to it.
RunnerInv ==
  TypeOK /\ CaptureExact /\ ProcessesConsistent /\ CallerConsistent /\ StreamsEnd

-----------------------------------------------------------------------------

\* What the minimum of two integers is; used for the kept prefix of a stream.
LEMMA MinOfTwo ==
  ASSUME NEW a \in Int, NEW b \in Int
  PROVE  Min({a, b}) = IF a <= b THEN a ELSE b
<1>1. CASE a <= b
  <2>1. \A x \in {a, b} : (\A y \in {a, b} : x <= y) => x = a
    BY <1>1
  <2> QED
    BY <1>1, <2>1 DEF Min
<1>2. CASE b < a
  <2>1. \A x \in {a, b} : (\A y \in {a, b} : x <= y) => x = b
    BY <1>2
  <2> QED
    BY <1>2, <2>1 DEF Min
<1> QED
  BY <1>1, <1>2

\* The initial states satisfy the invariant.
LEMMA InitRunnerInv == Init => RunnerInv
<1> SUFFICES ASSUME Init PROVE RunnerInv
  OBVIOUS
<1> USE RunnerConstants
<1>1. TypeOK
  <2>1. limit \in Nat
    BY DEF Init
  <2>2. /\ pipe \in [Streams -> 0 .. PipeCapacity]
        /\ written \in [Streams -> 0 .. MaxWritten]
        /\ captured \in [Streams -> 0 .. limit]
    BY <2>1 DEF Init, Streams
  <2>3. timedOut \in BOOLEAN /\ truncated \in [Streams -> BOOLEAN]
    BY DEF Init
  <2> QED
    BY <2>2, <2>3 DEF Init, TypeOK
<1>2. CaptureExact
  <2>1. limit \in Nat
    BY DEF Init
  <2>2. Min({0, limit}) = 0
    BY <2>1, MinOfTwo
  <2> QED
    BY <2>1, <2>2 DEF Init, CaptureExact, Consumed, Streams
<1>3. ProcessesConsistent /\ CallerConsistent /\ StreamsEnd
  BY DEF Init, ProcessesConsistent, CallerConsistent, KillWhileUnreaped, StreamsEnd,
         Streams, Processes
<1> QED
  BY <1>1, <1>2, <1>3 DEF RunnerInv

\* A step of the calling thread preserves the invariant: it moves no byte.
LEMMA CallerRunnerInv == RunnerInv /\ Caller => RunnerInv'
<1> SUFFICES ASSUME RunnerInv, Caller PROVE RunnerInv'
  OBVIOUS
<1> USE RunnerConstants DEF RunnerInv, TypeOK, Streams, Processes
<1>1. UNCHANGED <<limit, pipe, written, captured, truncated>>
  BY DEF Caller, Advance, RefuseZeroLimit, SpawnFails, Spawn, WaitReturns, TimeLimitPasses,
         Terminate, WaitAfterKill, SystemCallFails, Join, JoinFails, Reap, Fail, readers
<1>2. CaptureExact'
  BY <1>1 DEF CaptureExact, Consumed
<1>3. CASE Fail /\ pc # "done"
  BY <1>2, <1>3 DEF Fail, programs, readers, ProcessesConsistent, CallerConsistent,
         KillWhileUnreaped, StreamsEnd
<1>4. CASE Spawn
  BY <1>2, <1>4 DEF Spawn, ProcessesConsistent, CallerConsistent,
         KillWhileUnreaped, StreamsEnd
<1>5. CASE WaitReturns
  BY <1>2, <1>5 DEF WaitReturns, Reap, readers, ProcessesConsistent, CallerConsistent,
         KillWhileUnreaped, StreamsEnd
<1>6. CASE TimeLimitPasses
  BY <1>2, <1>6 DEF TimeLimitPasses, programs, readers, ProcessesConsistent,
         CallerConsistent, KillWhileUnreaped, StreamsEnd
<1>7. CASE Terminate
  BY <1>2, <1>7 DEF Terminate, readers, ProcessesConsistent, CallerConsistent,
         KillWhileUnreaped, StreamsEnd
<1>8. CASE WaitAfterKill
  BY <1>2, <1>8 DEF WaitAfterKill, Reap, readers, ProcessesConsistent, CallerConsistent,
         KillWhileUnreaped, StreamsEnd
<1>9. CASE \E s \in Streams : Join(s)
  BY <1>2, <1>9 DEF Join, programs, readers, ProcessesConsistent, CallerConsistent,
         KillWhileUnreaped, StreamsEnd
<1> QED
  BY <1>3, <1>4, <1>5, <1>6, <1>7, <1>8, <1>9
     DEF Caller, Advance, RefuseZeroLimit, SpawnFails, SystemCallFails, JoinFails

\* One read keeps the captured prefix exact, whether the chunk fits, overlaps
\* the limit or lies beyond it.
LEMMA ReadRunnerInv ==
  ASSUME RunnerInv, NEW s \in Streams, NEW n \in 1 .. ReadSize, Read(s, n)
  PROVE  RunnerInv'
<1> USE RunnerConstants
<1>1. /\ limit \in Nat
      /\ n \in Nat /\ n >= 1
      /\ captured \in [Streams -> 0 .. limit]
      /\ pipe \in [Streams -> 0 .. PipeCapacity]
      /\ written \in [Streams -> 0 .. MaxWritten]
      /\ truncated \in [Streams -> BOOLEAN]
      /\ PipeCapacity \in Nat /\ MaxWritten \in Nat
  BY DEF RunnerInv, TypeOK
<1>2. /\ n <= pipe[s]
      /\ pipe' = [pipe EXCEPT ![s] = pipe[s] - n]
      /\ captured' = [captured EXCEPT ![s] = captured[s] + Min({n, limit - captured[s]})]
      /\ truncated' = [truncated EXCEPT ![s] = TruncatedBy(s, n)]
      /\ UNCHANGED <<limit, written>>
  BY DEF Read, caller
<1>3. Min({n, limit - captured[s]}) =
        IF n <= limit - captured[s] THEN n ELSE limit - captured[s]
  BY <1>1, MinOfTwo
<1>4. \A t \in Streams :
        Min({Consumed(t), limit}) = IF Consumed(t) <= limit THEN Consumed(t) ELSE limit
  <2> SUFFICES ASSUME NEW t \in Streams
               PROVE  Min({Consumed(t), limit}) =
                        IF Consumed(t) <= limit THEN Consumed(t) ELSE limit
    OBVIOUS
  <2>1. Consumed(t) \in Int /\ limit \in Int
    BY <1>1 DEF Consumed
  <2> QED
    BY <2>1, MinOfTwo
<1>5. \A t \in Streams :
        Min({Consumed(t)', limit}) = IF Consumed(t)' <= limit THEN Consumed(t)' ELSE limit
  <2> SUFFICES ASSUME NEW t \in Streams
               PROVE  Min({Consumed(t)', limit}) =
                        IF Consumed(t)' <= limit THEN Consumed(t)' ELSE limit
    OBVIOUS
  <2>1. Consumed(t)' \in Int /\ limit \in Int
    BY <1>1, <1>2 DEF Consumed
  <2> QED
    BY <2>1, MinOfTwo
<1>6. CaptureExact'
  <2> SUFFICES ASSUME NEW t \in Streams
               PROVE  /\ captured'[t] = Min({Consumed(t)', limit'})
                      /\ truncated'[t] <=> Consumed(t)' > limit'
    BY DEF CaptureExact
  <2>1. /\ captured[t] = IF Consumed(t) <= limit THEN Consumed(t) ELSE limit
        /\ truncated[t] <=> Consumed(t) > limit
    BY <1>4 DEF RunnerInv, CaptureExact
  <2>2. CASE t = s
    <3>1. Consumed(t)' = Consumed(t) + n
      BY <1>1, <1>2, <2>2 DEF Consumed
    <3>2. Consumed(t) \in Int
      BY <1>1 DEF Consumed
    <3>3. truncated'[t] <=> (truncated[t] \/ n > limit - captured[t])
      BY <1>1, <1>2, <2>2 DEF TruncatedBy
    <3>4. captured'[t] = captured[t] +
            (IF n <= limit - captured[t] THEN n ELSE limit - captured[t])
      BY <1>1, <1>2, <1>3, <2>2
    <3> QED
      BY <1>1, <1>2, <1>5, <2>1, <3>1, <3>2, <3>3, <3>4
  <2>3. CASE t # s
    <3>1. Consumed(t)' = Consumed(t) /\ captured'[t] = captured[t]
            /\ truncated'[t] = truncated[t]
      BY <1>1, <1>2, <2>3 DEF Consumed
    <3> QED
      BY <1>1, <1>2, <1>5, <2>1, <3>1
  <2> QED
    BY <2>2, <2>3
<1>7. TypeOK'
  <2>1. captured' \in [Streams -> 0 .. limit]
    BY <1>1, <1>2, <1>3
  <2>2. pipe' \in [Streams -> 0 .. PipeCapacity]
    BY <1>1, <1>2
  <2>3. truncated' \in [Streams -> BOOLEAN]
    BY <1>1, <1>2 DEF TruncatedBy
  <2> QED
    BY <1>2, <2>1, <2>2, <2>3 DEF RunnerInv, TypeOK, Read, caller, programs
<1>8. ProcessesConsistent' /\ CallerConsistent'
  BY DEF RunnerInv, Read, caller, programs, ProcessesConsistent, CallerConsistent,
         KillWhileUnreaped
<1>9. StreamsEnd'
  BY <1>1, <1>2 DEF RunnerInv, Read, programs, StreamsEnd
<1> QED
  BY <1>6, <1>7, <1>8, <1>9 DEF RunnerInv

\* The other steps of a reader preserve the invariant.
LEMMA ReaderEndRunnerInv ==
  ASSUME RunnerInv, NEW s \in Streams, ReadEof(s) \/ ReadFails(s)
  PROVE  RunnerInv'
<1> USE DEF RunnerInv, TypeOK, Streams, Processes
<1>1. CaptureExact'
  BY DEF ReadEof, ReadFails, caller, CaptureExact, Consumed
<1>2. CASE ReadEof(s)
  BY <1>1, <1>2 DEF ReadEof, caller, programs, ProcessesConsistent, CallerConsistent,
         KillWhileUnreaped, StreamsEnd
<1>3. CASE ReadFails(s)
  BY <1>1, <1>3 DEF ReadFails, caller, programs, ProcessesConsistent, CallerConsistent,
         KillWhileUnreaped, StreamsEnd
<1> QED
  BY <1>2, <1>3

\* A step of the programs preserves the invariant: a write moves the pipe and
\* the total together, and no step reopens a stream that has ended.
LEMMA ProgramsRunnerInv == RunnerInv /\ Programs => RunnerInv'
<1> SUFFICES ASSUME RunnerInv, Programs PROVE RunnerInv'
  OBVIOUS
<1> USE RunnerConstants DEF RunnerInv, TypeOK, Streams, Processes
<1>1. UNCHANGED <<caller, readers>>
  BY DEF Programs, Fork, LeaveGroup, Exits, Close, Write, BrokenPipe, End
<1>2. \A s \in Streams : Consumed(s)' = Consumed(s)
  BY DEF Programs, Fork, LeaveGroup, Exits, Close, Write, BrokenPipe, End, Consumed
<1>3. CaptureExact'
  BY <1>1, <1>2 DEF CaptureExact, caller, readers
<1>4. CASE \E p \in Processes, how \in {"0", "1", "signal"} : End(p, how)
  BY <1>3, <1>4 DEF End, caller, readers, ProcessesConsistent, CallerConsistent,
         KillWhileUnreaped, StreamsEnd
<1>5. CASE Fork
  BY <1>3, <1>5 DEF Fork, caller, readers, ProcessesConsistent, CallerConsistent,
         KillWhileUnreaped, StreamsEnd
<1>6. CASE LeaveGroup
  BY <1>3, <1>6 DEF LeaveGroup, caller, readers, ProcessesConsistent, CallerConsistent,
         KillWhileUnreaped, StreamsEnd
<1>7. CASE \E p \in Processes, s \in Streams : Close(p, s)
  BY <1>3, <1>7 DEF Close, caller, readers, ProcessesConsistent, CallerConsistent,
         KillWhileUnreaped, StreamsEnd
<1>8. CASE \E p \in Processes, s \in Streams : Write(p, s)
  BY <1>3, <1>8 DEF Write, caller, programs, readers, ProcessesConsistent,
         CallerConsistent, KillWhileUnreaped, StreamsEnd
<1> QED
  BY <1>4, <1>5, <1>6, <1>7, <1>8 DEF Programs, Exits, BrokenPipe

\* The invariant is inductive.
LEMMA NextRunnerInv == RunnerInv /\ [Next]_vars => RunnerInv'
<1> SUFFICES ASSUME RunnerInv, [Next]_vars PROVE RunnerInv'
  OBVIOUS
<1>1. CASE UNCHANGED vars
  <2>1. UNCHANGED caller /\ UNCHANGED programs /\ UNCHANGED <<pipe, written>> /\ UNCHANGED readers
    BY <1>1 DEF vars
  <2>2. TypeOK' /\ CaptureExact'
    BY <2>1 DEF caller, programs, readers, RunnerInv, TypeOK, CaptureExact, Consumed
  <2>3. ProcessesConsistent' /\ CallerConsistent'
    BY <2>1 DEF caller, programs, readers, RunnerInv, ProcessesConsistent, CallerConsistent,
           KillWhileUnreaped
  <2>4. StreamsEnd'
    BY <2>1 DEF caller, programs, readers, RunnerInv, StreamsEnd
  <2> QED
    BY <2>2, <2>3, <2>4 DEF RunnerInv
<1>2. CASE Next
  BY <1>2, CallerRunnerInv, ProgramsRunnerInv, ReadRunnerInv, ReaderEndRunnerInv
     DEF Next, Reader
<1> QED
  BY <1>1, <1>2

\* The invariant implies the properties of a returned record.
LEMMA RunnerInvImplies == RunnerInv => RecordComplete /\ RecordTruthful /\ KillWhileUnreaped
<1> SUFFICES ASSUME RunnerInv PROVE RecordComplete /\ RecordTruthful /\ KillWhileUnreaped
  OBVIOUS
<1>1. \A s \in Streams : reader[s] = "done" => Consumed(s) = written[s]
  BY RunnerConstants DEF RunnerInv, TypeOK, StreamsEnd, Consumed
<1>2. outcome = "ok" => \A s \in Streams : reader[s] = "done"
  BY DEF RunnerInv, CallerConsistent, Streams
<1>3. RecordComplete
  BY <1>1, <1>2 DEF RecordComplete, RunnerInv, CaptureExact, StreamsEnd
<1>4. RecordTruthful
  BY DEF RecordTruthful, RunnerInv, CallerConsistent, ProcessesConsistent
<1> QED
  BY <1>3, <1>4 DEF RunnerInv, CallerConsistent

-----------------------------------------------------------------------------

\* Every variable of run_program keeps its type in every behaviour.
THEOREM RunnerTypeCorrect == Spec => []TypeOK
<1>1. RunnerInv => TypeOK
  BY DEF RunnerInv
<1> QED
  BY <1>1, InitRunnerInv, NextRunnerInv, PTL DEF Spec

\* For every limit and every interleaving, a reader holds exactly the first
\* limit bytes it took and marks truncation exactly when it took more.
THEOREM RunnerCapturesExactly == Spec => []CaptureExact
<1>1. RunnerInv => CaptureExact
  BY DEF RunnerInv
<1> QED
  BY <1>1, InitRunnerInv, NextRunnerInv, PTL DEF Spec

\* A returned record covers everything that was written to both streams.
THEOREM RunnerRecordsAll == Spec => []RecordComplete
<1> QED
  BY InitRunnerInv, NextRunnerInv, RunnerInvImplies, PTL DEF Spec

\* A returned record carries the child's real status, and after a timeout no
\* process of the group runs.
THEOREM RunnerRecordsTruth == Spec => []RecordTruthful
<1> QED
  BY InitRunnerInv, NextRunnerInv, RunnerInvImplies, PTL DEF Spec

\* The process group is never signalled after the child was reaped.
THEOREM RunnerKillsUnreaped == Spec => []KillWhileUnreaped
<1> QED
  BY InitRunnerInv, NextRunnerInv, RunnerInvImplies, PTL DEF Spec

-----------------------------------------------------------------------------
(* run_program implements BoundedCall *)

\* The initial states of a call are those of a bounded call.
LEMMA InitImplementsCall == Init => Call!Init
<1> SUFFICES ASSUME Init PROVE Call!Init
  OBVIOUS
<1>1. outcome = "none" /\ limit \in Limits /\ exit = "none" /\ written = [s \in Streams |-> 0]
  BY DEF Init
<1>2. ~Returned
  BY <1>1 DEF Returned
<1> QED
  BY <1>1, <1>2 DEF Call!Init, Call!NoRecord

\* A step that a caller of run_program cannot see: before the return what the
\* readers hold is no part of a record, after it nothing of the record changes.
LEMMA Unseen ==
  /\ UNCHANGED <<limit, outcome, written, exit>>
  /\ outcome = "ok" => UNCHANGED <<status, timedOut, captured, truncated>>
  => UNCHANGED Call!vars
<1> SUFFICES ASSUME UNCHANGED <<limit, outcome, written, exit>>,
                    outcome = "ok" => UNCHANGED <<status, timedOut, captured, truncated>>
             PROVE  UNCHANGED Call!vars
  OBVIOUS
<1>1. CASE Returned
  BY <1>1 DEF Call!vars, Returned
<1>2. CASE ~Returned
  BY <1>2 DEF Call!vars, Returned
<1> QED
  BY <1>1, <1>2

\* An error returned by run_program is a failed call.
LEMMA FailFails ==
  ASSUME RunnerInv, Fail, pc # "done"
  PROVE  Call!Fail
<1>1. outcome = "none" /\ outcome' = "error"
  BY DEF RunnerInv, CallerConsistent, Fail
<1>2. UNCHANGED <<limit, written, exit>>
  BY DEF Fail, programs
<1>3. ~Returned /\ ~Returned'
  BY <1>1 DEF Returned
<1> QED
  BY <1>1, <1>2, <1>3 DEF Call!Fail

\* The child ends once, by itself or killed, and never after the return.
LEMMA ChildEnds ==
  ASSUME RunnerInv, exit = "none", exit' \in {"0", "1", "signal"},
         UNCHANGED <<limit, outcome, written>>
  PROVE  Call!ProgramEnds
<1>1. ~Returned /\ ~Returned'
  BY DEF RunnerInv, CallerConsistent, ProcessesConsistent, Returned
<1>2. outcome # "ok"
  BY <1>1 DEF Returned
<1> QED
  BY <1>1, <1>2 DEF Call!ProgramEnds

\* Joining the second reader returns the exact record of everything produced.
LEMMA JoinReturns ==
  ASSUME RunnerInv, RunnerInv', Join("stderr")
  PROVE  Call!Return
<1>1. /\ pc = "stderr" /\ outcome' = "ok"
      /\ UNCHANGED <<limit, timedOut, status, exit, written, captured, truncated>>
  BY DEF Join, programs, readers
<1>2. outcome = "none" /\ status = exit /\ exit # "none" /\ limit # 0
  BY <1>1 DEF RunnerInv, CallerConsistent, ProcessesConsistent
<1>3. timedOut \in BOOLEAN
  BY DEF RunnerInv, TypeOK
<1>4. \A s \in Streams : /\ captured[s] = Call!Prefix(written[s])
                         /\ truncated[s] <=> written[s] > limit
  <2> SUFFICES ASSUME NEW s \in Streams
               PROVE  /\ captured[s] = Call!Prefix(written[s])
                      /\ truncated[s] <=> written[s] > limit
    OBVIOUS
  <2>1. RecordComplete'
    BY RunnerInvImplies, PTL
  <2>2. captured[s] = Min({written[s], limit}) /\ (truncated[s] <=> written[s] > limit)
    BY <1>1, <2>1 DEF RecordComplete
  <2>3. written[s] \in Int /\ limit \in Int
    BY RunnerConstants DEF RunnerInv, TypeOK
  <2> QED
    BY <2>2, <2>3, MinOfTwo DEF Call!Prefix
<1>5. truncated \in [Streams -> BOOLEAN] /\ captured \in [Streams -> 0 .. limit]
  BY DEF RunnerInv, TypeOK
<1>6. ~Returned /\ Returned'
  BY <1>1, <1>2 DEF Returned
<1>7. \A s \in Streams : truncated[s] = (written[s] > limit)
  BY <1>4, <1>5
<1>8. Call!Record(timedOut) =
        [status |-> status', timed_out |-> timedOut',
         length |-> [s \in Streams |-> captured'[s]],
         truncated |-> [s \in Streams |-> truncated'[s]]]
  BY <1>1, <1>2, <1>4, <1>7 DEF Call!Record
<1> QED
  BY <1>1, <1>2, <1>3, <1>5, <1>6, <1>8 DEF Call!Return

\* A step of the calling thread fails the call, returns, kills the child or is
\* not seen.
LEMMA CallerImplementsCall ==
  ASSUME RunnerInv, RunnerInv', Caller
  PROVE  [Call!Next]_(Call!vars)
<1>1. CASE Fail /\ pc # "done"
  BY <1>1, FailFails DEF Call!Next
<1>2. CASE Join("stderr")
  BY <1>2, JoinReturns DEF Call!Next
<1>3. CASE Spawn \/ WaitReturns \/ TimeLimitPasses \/ WaitAfterKill \/ Join("stdout")
  <2>1. outcome = "none" /\ UNCHANGED <<limit, outcome, written, exit>>
    BY <1>3 DEF RunnerInv, CallerConsistent, Spawn, WaitReturns, TimeLimitPasses,
           WaitAfterKill, Join, Reap, programs
  <2> QED
    BY <2>1, Unseen
<1>4. CASE Terminate
  <2>1. outcome = "none" /\ UNCHANGED <<limit, outcome, written>>
    BY <1>4 DEF RunnerInv, CallerConsistent, Terminate
  <2>2. CASE process["child"] = "running"
    <3>1. exit = "none" /\ exit' = "signal"
      BY <1>4, <2>2 DEF RunnerInv, TypeOK, ProcessesConsistent, Terminate
    <3> QED
      BY <2>1, <3>1, ChildEnds DEF Call!Next
  <2>3. CASE process["child"] # "running"
    <3>1. exit' = exit
      BY <1>4, <2>3 DEF Terminate
    <3> QED
      BY <2>1, <3>1, Unseen
  <2> QED
    BY <2>2, <2>3
<1> QED
  BY <1>1, <1>2, <1>3, <1>4
     DEF Caller, Advance, RefuseZeroLimit, SpawnFails, SystemCallFails, JoinFails, Streams

\* A step of a reader is not seen: none reads once the call has returned.
LEMMA ReaderImplementsCall ==
  ASSUME RunnerInv, NEW s \in Streams, Reader(s) \/ ReadFails(s)
  PROVE  UNCHANGED Call!vars
<1>1. reader[s] = "reading" /\ UNCHANGED <<limit, outcome, written, exit>>
  BY DEF Reader, Read, ReadEof, ReadFails, caller, programs
<1>2. outcome # "ok"
  BY <1>1 DEF RunnerInv, CallerConsistent, Streams
<1> QED
  BY <1>1, <1>2, Unseen

\* A program produces a byte or ends while the call has not returned; its other
\* steps are not seen.
LEMMA ProgramsImplementCall ==
  ASSUME RunnerInv, Programs
  PROVE  [Call!Next]_(Call!vars)
<1>1. UNCHANGED <<caller, readers>>
  BY DEF Programs, Fork, LeaveGroup, Exits, Close, Write, BrokenPipe, End
<1>2. UNCHANGED <<limit, outcome, timedOut, status, captured, truncated>>
  BY <1>1 DEF caller, readers
<1>3. CASE \E p \in Processes, how \in {"0", "1", "signal"} : End(p, how)
  <2>1. PICK p \in Processes, how \in {"0", "1", "signal"} : End(p, how)
    BY <1>3
  <2>2. written' = written
    BY <2>1 DEF End
  <2>3. CASE p = "child"
    <3>1. exit = "none" /\ exit' \in {"0", "1", "signal"}
      BY <2>1, <2>3 DEF End, RunnerInv, TypeOK, ProcessesConsistent
    <3> QED
      BY <1>2, <2>2, <3>1, ChildEnds DEF Call!Next
  <2>4. CASE p # "child"
    <3>1. exit' = exit
      BY <2>1, <2>4 DEF End
    <3> QED
      BY <1>2, <2>2, <3>1, Unseen
  <2> QED
    BY <2>3, <2>4
<1>4. CASE Fork \/ LeaveGroup \/ \E p \in Processes, s \in Streams : Close(p, s)
  <2>1. UNCHANGED <<written, exit>>
    BY <1>4 DEF Fork, LeaveGroup, Close
  <2> QED
    BY <1>2, <2>1, Unseen
<1>5. CASE \E p \in Processes, s \in Streams : Write(p, s)
  <2>1. PICK p \in Processes, s \in Streams : Write(p, s)
    BY <1>5
  <2>2. s \in holds[p] /\ exit' = exit /\ written' = [written EXCEPT ![s] = @ + 1]
    BY <2>1 DEF Write, programs
  <2>3. outcome # "ok"
    BY <2>2 DEF RunnerInv, CallerConsistent, StreamsEnd, Streams, Processes
  <2>4. ~Returned /\ ~Returned'
    BY <1>2, <2>3 DEF Returned
  <2>5. Call!Produce
    BY <1>2, <2>2, <2>3, <2>4 DEF Call!Produce
  <2> QED
    BY <2>5 DEF Call!Next
<1> QED
  BY <1>3, <1>4, <1>5 DEF Programs, Exits, BrokenPipe

\* Every step of run_program is a step of a bounded call or is not seen.
LEMMA NextImplementsCall ==
  RunnerInv /\ RunnerInv' /\ [Next]_vars => [Call!Next]_(Call!vars)
<1> SUFFICES ASSUME RunnerInv, RunnerInv', [Next]_vars
             PROVE  [Call!Next]_(Call!vars)
  OBVIOUS
<1>1. CASE UNCHANGED vars
  BY <1>1, Unseen DEF vars, caller, programs, readers
<1>2. CASE Next
  BY <1>2, CallerImplementsCall, ProgramsImplementCall, ReaderImplementsCall DEF Next
<1> QED
  BY <1>1, <1>2

\* For every limit, buffer, pipe and amount of output, and every interleaving,
\* run_program behaves as BoundedCall says: at most one return, with the exact
\* and final record of everything the program produced.
THEOREM RunnerImplementsCall == Spec => ImplementsBoundedCall
<1>1. Spec => []RunnerInv
  BY InitRunnerInv, NextRunnerInv, PTL DEF Spec
<1>2. Spec => [][Call!Next]_(Call!vars)
  BY <1>1, NextImplementsCall, PTL DEF Spec
<1>3. Spec => Call!Init
  BY InitImplementsCall DEF Spec
<1> QED
  BY <1>2, <1>3 DEF ImplementsBoundedCall, Call!Spec
=============================================================================

---------------------------- MODULE BoundedCall ----------------------------
(***************************************************************************)
(* What the callers of run_program rely on, without threads, pipes and     *)
(* signals: a program produces output and ends; the call either fails, or  *)
(* returns once, after the program has ended and the last byte was         *)
(* produced, with the status of the program and, of each stream, the       *)
(* length of a prefix of at most limit bytes and whether that is all.      *)
(***************************************************************************)
EXTENDS Integers

CONSTANTS
  Limits,  \* the output limits
  Streams  \* the output streams

VARIABLES
  limit,     \* the limit of this call
  state,     \* "calling", "returned" or "failed"
  produced,  \* bytes produced on each stream
  ended,     \* how the program ended, "none" while it runs
  record     \* what the call returned

vars == <<limit, state, produced, ended, record>>

Prefix(n) == IF n <= limit THEN n ELSE limit

\* The record of a call that returns now.
Record(timedOut) ==
  [status |-> ended, timed_out |-> timedOut,
   length |-> [s \in Streams |-> Prefix(produced[s])],
   truncated |-> [s \in Streams |-> produced[s] > limit]]

NoRecord == [status |-> "none", timed_out |-> FALSE, length |-> [s \in Streams |-> 0],
             truncated |-> [s \in Streams |-> FALSE]]

Init ==
  /\ limit \in Limits
  /\ state = "calling"
  /\ produced = [s \in Streams |-> 0]
  /\ ended = "none"
  /\ record = NoRecord

\* Nothing is produced after the call has returned.
Produce ==
  /\ state # "returned"
  /\ \E s \in Streams : produced' = [produced EXCEPT ![s] = @ + 1]
  /\ UNCHANGED <<limit, state, ended, record>>

ProgramEnds ==
  /\ state # "returned"
  /\ ended = "none"
  /\ ended' \in {"0", "1", "signal"}
  /\ UNCHANGED <<limit, state, produced, record>>

Return ==
  /\ state = "calling"
  /\ limit # 0
  /\ ended # "none"
  /\ state' = "returned"
  /\ \E timedOut \in BOOLEAN : record' = Record(timedOut)
  /\ UNCHANGED <<limit, produced, ended>>

Fail ==
  /\ state = "calling"
  /\ state' = "failed"
  /\ UNCHANGED <<limit, produced, ended, record>>

Next == Produce \/ ProgramEnds \/ Return \/ Fail

Spec == Init /\ [][Next]_vars
=============================================================================

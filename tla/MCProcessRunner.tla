-------------------------- MODULE MCProcessRunner --------------------------
(***************************************************************************)
(* ProcessRunner on small pipes.  The two reader threads run the same code *)
(* on pipes of their own but are joined in a fixed order, so the streams   *)
(* are not symmetric.                                                      *)
(***************************************************************************)
EXTENDS ProcessRunner

\* Bounds: limits that one read can meet, overshoot or fall short of.
MCLimits == {0, 1, 2}
MCReadSize == 2
MCPipeCapacity == 2
MCMaxWritten == 3
=============================================================================

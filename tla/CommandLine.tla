---------------------------- MODULE CommandLine ----------------------------
(***************************************************************************)
(* The command line of src/src/main.rs: one process carries out one        *)
(* command, from its arguments to the report it prints or the error it     *)
(* ends with.  Here the commands that run several steps are put together:  *)
(* the analyses, the adapter matrix and the verification of a corpus.  The *)
(* first calls of a related analysis, the inspection of one certificate    *)
(* and the conformance of the pair, are one step each in Analyses; the     *)
(* command "analyze-pair" is those calls, read by read.  (The commands     *)
(* that evaluate a request, check an OCSP response or probe one adapter    *)
(* are the actions of Oracle, Revocation and Adapter.)                     *)
(***************************************************************************)
EXTENDS Analyses, Matrix, Corpus, Inspection

CONSTANT Commands  \* the commands given

VARIABLE command

command_line_vars == <<command, analysis_vars, matrix_vars, corpus_vars, pair_vars>>

\* What a command leaves alone is as it would be at its own start.
AnalysisIdle == kind = CHOOSE k \in Kinds : TRUE
MatrixIdle ==
  /\ publication = FALSE /\ clean = TRUE
  /\ content = CHOOSE c \in Contents : TRUE
CorpusIdle ==
  /\ manifest = CHOOSE m \in Manifests : TRUE
  /\ corpus = CHOOSE c \in InitialCorpora : TRUE
  /\ generator = CHOOSE g \in Generators : TRUE
  /\ input_limit = CHOOSE l \in InputLimits : TRUE
PairIdle ==
  pair = [reference |-> CHOOSE c \in References : TRUE, related |-> CHOOSE c \in Relateds : TRUE]

CommandInit ==
  /\ command \in Commands
  /\ command # "analyze" => AnalysisIdle
  /\ command # "matrix-available" => MatrixIdle
  /\ command # "verify-corpus" => CorpusIdle
  /\ command # "analyze-pair" => PairIdle
  /\ AnalysisInit /\ MatrixInit /\ CorpusInit /\ PairInit

RunAnalysis ==
  command = "analyze" /\ AnalysisNext /\ UNCHANGED <<matrix_vars, corpus_vars, pair_vars>>
RunMatrix ==
  command = "matrix-available" /\ MatrixNext
    /\ UNCHANGED <<analysis_vars, corpus_vars, pair_vars>>
VerifyCorpus ==
  command = "verify-corpus" /\ CorpusNext
    /\ UNCHANGED <<analysis_vars, matrix_vars, pair_vars>>
AnalyzePair ==
  command = "analyze-pair" /\ PairNext
    /\ UNCHANGED <<analysis_vars, matrix_vars, corpus_vars>>

CommandNext ==
  /\ RunAnalysis \/ RunMatrix \/ VerifyCorpus \/ AnalyzePair
  /\ UNCHANGED command

CommandSpec == CommandInit /\ [][CommandNext]_command_line_vars
=============================================================================

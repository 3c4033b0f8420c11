---------------------------- MODULE MCTaskEngine ----------------------------
(***************************************************************************)
(* Instances of TaskEngine: the tasks of ReplBlockLocalizer, and others    *)
(* the LocalizedTask type admits.                                          *)
(***************************************************************************)
EXTENDS TaskEngine

\* next_task and _default_fallback_candidates: every failure is localized as a
\* terminal step with the two larger blocks behind it.
LocalizerTasks ==
    {[kind |-> "TerminalProofStep",
      structured |-> <<[kind |-> "TerminalProofStep", origin |-> "primary"],
                       [kind |-> "WholeProofBody", origin |-> "fallback"],
                       [kind |-> "TheoremShell", origin |-> "fallback"]>>,
      chain |-> <<"TerminalProofStep", "WholeProofBody", "TheoremShell">>,
      source |-> TRUE, level |-> level, entry |-> level] : level \in Level}

Plain == [kind |-> "TerminalProofStep", structured |-> <<>>, chain |-> <<>>,
          source |-> TRUE, level |-> 1, entry |-> 1]

\* Tasks with the older metadata chain, without an entry checkpoint, without a source
\* state, of kinds without rules or without a contract.
OtherTasks ==
    {Plain,
     [Plain EXCEPT !.source = FALSE, !.chain = <<"TerminalProofStep", "WholeProofBody">>],
     [Plain EXCEPT !.kind = "WholeProofBody", !.chain = <<"WholeProofBody", "Unknown", "TheoremShell">>,
                   !.level = 2, !.entry = 0],
     [Plain EXCEPT !.kind = "Unknown"],
     [Plain EXCEPT !.kind = "Unknown", !.structured = <<[kind |-> "Unknown", origin |-> "primary"]>>],
     [Plain EXCEPT !.kind = "TopLevelCommand", !.level = 0, !.entry = 0]}

AllTasks == LocalizerTasks \union OtherTasks

\* What the theorems ask of the tasks holds of these.
ASSUME TasksAsAsked == LocalizedFirst /\ ProofChain

DefaultHighRisk == FailureKind \ {"proof_body_failure"}
=============================================================================

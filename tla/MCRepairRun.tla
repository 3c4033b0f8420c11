---------------------------- MODULE MCRepairRun ----------------------------
(***************************************************************************)
(* Theories for RepairRun.                                                 *)
(***************************************************************************)
EXTENDS RepairRun, MCOrchestrator

Cmd(kind, line, last) == [kind |-> kind, line |-> line, last |-> last]
Header == Cmd("theory", 1, 1)

\* One command to a line, but for a header over two, and an empty line.
Plain == {<<>>, <<Cmd("other", 1, 1)>>,
          <<Cmd("other", 1, 1), Cmd("theory", 2, 3), Cmd("statement", 5, 5), Cmd("closing", 6, 6)>>}

\* A command over two lines, and two commands on a line.
Wrapped == {<<Header, Cmd("statement", 2, 2), Cmd("closing", 3, 4)>>}
Shared == {<<Header, Cmd("statement", 2, 2), Cmd("closing", 2, 2)>>}
AnyLayout == Wrapped \union Shared

\* What the theorems ask of the gate, the engine and the theories holds here, but
\* for the layouts that show what happens otherwise.
ASSUME RunAsAsked ==
    /\ RuleGated /\ BlockEscalated /\ EngineTexts /\ ContinuationsUngated
    /\ Theories # AnyLayout => LinesApart /\ OnOneLine
=============================================================================

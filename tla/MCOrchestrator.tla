--------------------------- MODULE MCOrchestrator ---------------------------
(***************************************************************************)
(* Instances of Orchestrator: any policy gate, and the rule-based one.     *)
(***************************************************************************)
EXTENDS Orchestrator

AnyGate(c) == DecisionKind
RuleGate(c) == {Decide(c)}

DefaultHighRisk == FailureKind \ {"proof_body_failure"}

Artifact(depth, rerun) ==
    [outcome |-> "accepted", kind |-> "repair", text |-> "candidate", rerun |-> rerun, depth |-> depth]
Failed == [NoResult EXCEPT !.outcome = "failed"]
Escalated == [NoResult EXCEPT !.outcome = "escalated", !.kind = "repair", !.text = "block"]

\* The shapes ReplDeterministicTaskEngine.run returns (see TaskEngine) ...
EngineResults == {Artifact(0, FALSE), Artifact(1, FALSE), Failed, Escalated}

\* ... and those the TaskEngine protocol allows beyond them.
ProtocolResults ==
    EngineResults \union
    {NoResult, Artifact(0, TRUE), Artifact(1, TRUE),
     [Artifact(0, TRUE) EXCEPT !.kind = "placeholder", !.outcome = "placeholder"],
     [NoResult EXCEPT !.outcome = "escalated", !.rerun = TRUE, !.depth = 1]}
=============================================================================

------------------------------- MODULE Policy -------------------------------
(***************************************************************************)
(* RuleBasedPolicyGate.decide: the rules, in the order the code tries them.*)
(* Only the decision kind is kept; scopes and rule ids are labels of it.   *)
(***************************************************************************)
EXTENDS Naturals

CONSTANTS
    PlaceholderMode,  \* PlaceholderPolicyConfig.mode
    HighRisk          \* PolicyConfig.high_risk_failure_kinds

FailureKind == {"proof_body_failure", "statement_failure", "non_proof_command_failure",
                "theory_load_or_header_failure"}
ArtifactKind == {"repair", "placeholder"}
DecisionKind == {"allow", "deny", "requires_review"}

ASSUME PolicyAssumption == PlaceholderMode \in DecisionKind /\ HighRisk \subseteq FailureKind

\* PolicyContext: artifact is an ArtifactKind or "none", depth is fallback_depth,
\* of which the rules only ask whether it is 0.
PolicyContext ==
    [failure : FailureKind, artifact : ArtifactKind \union {"none"}, depth : 0 .. 1,
     reason : {"task_artifact_evaluation", "continuation_gating", "review_placeholder_request"}]

IsPlaceholder(c) == c.artifact = "placeholder" \/ c.reason = "review_placeholder_request"

\* Mutant: the fallback rule asks for the continuation only.
MutFallbackAllowed(c) ==
    IF IsPlaceholder(c) THEN PlaceholderMode
    ELSE IF (c.reason = "continuation_gating" /\ c.depth > 0) \/ c.failure \in HighRisk
         THEN "requires_review"
         ELSE "allow"

\* decide: the three rules that ask for a review, and _placeholder_decision before them.
Decide(c) ==
    IF IsPlaceholder(c) THEN PlaceholderMode
    ELSE IF \/ c.reason = "continuation_gating" /\ c.depth > 0
            \/ c.depth > 0 /\ c.artifact = "repair"
            \/ c.failure \in HighRisk
         THEN "requires_review"
         ELSE "allow"
=============================================================================

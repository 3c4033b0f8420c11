---------------------------- MODULE Orchestrator ----------------------------
(***************************************************************************)
(* TheoryRepairOrchestrator: the state machine of one theory repair run.   *)
(*                                                                         *)
(* The localizer, the task engine and the review hook are protocols the    *)
(* orchestrator calls; here they answer anything their types allow, or     *)
(* raise.  resume_from_review is re-entrant: with auto_resolve_review it   *)
(* is called again from inside _resolve_placeholder_request and            *)
(* _gate_continuation, so its activations are kept on a stack together     *)
(* with the place each returns to.  The record store is kept as the        *)
(* sequence of records of each task.                                       *)
(***************************************************************************)
EXTENDS Policy, Sequences, FiniteSets, SequencesExt

CONSTANTS
    Gate(_),    \* the decisions the PolicyGate may take in a PolicyContext
    AutoResolve,    \* auto_resolve_review
    TargetBoundary, \* run_mode is TARGET_BOUNDARY rather than THEORY_WIDE
    Target,     \* target_max_tasks; 0: None
    Results,    \* what engine.run may return
    MaxSteps,   \* max_steps of run_until_terminal
    MaxRuns     \* bound: calls of run_until_terminal

Terminal == {"STOPPED", "COMPLETED", "FINISHED"}
RunState == {"ACTIVE", "AWAITING_REVIEW"} \union Terminal

\* TaskResult.  The text is the failing block itself (an escalated task), a
\* candidate of the engine, a replacement of the reviewer, or missing.
TaskResult ==
    [outcome : {"accepted", "failed", "placeholder", "escalated", "aborted"},
     kind : {"repair", "placeholder", "none"},
     text : {"block", "candidate", "replacement", "none"},
     rerun : BOOLEAN, depth : 0 .. 1]

ASSUME RunAssumption ==
    /\ AutoResolve \in BOOLEAN /\ TargetBoundary \in BOOLEAN
    /\ Target \in Nat /\ MaxSteps \in Nat /\ MaxRuns \in Nat
    /\ Results \subseteq TaskResult
    /\ \A c \in PolicyContext : Gate(c) \subseteq DecisionKind

Reason == {"policy_requires_review", "task_escalated_requires_review",
           "placeholder_policy_requires_review", "continuation_policy_requires_review"}

\* InterventionResponseKind
ResponseKind == {"approve", "reject", "replacement", "placeholder", "stop"}

VARIABLES
    state,      \* RunState of the run
    pending,    \* pending_review: the reason code, or "none"
    failure,    \* failure_kind of the current task
    res,        \* the TaskResult of the current task, mutated by reviews
    applied,    \* snapshot.applied_replacements
    appliedIds, \* applied_artifact_task_ids
    accepted,   \* accepted_artifact_count
    records,    \* the record store: the records of each task, in order
    terminals,  \* TERMINAL records
    steps, runs,
    pc,
    stack,      \* active calls of resume_from_review
    ret         \* the value resume_from_review returns

vars == <<state, pending, failure, res, applied, appliedIds, accepted, records, terminals,
          steps, runs, pc, stack, ret>>
bookVars == <<applied, appliedIds, accepted>>
runVars == <<terminals, steps, runs, failure>>

Task == Len(records)  \* the current task: ids are numbered in the order of localization

NoResult == [outcome |-> "aborted", kind |-> "none", text |-> "none", rerun |-> FALSE, depth |-> 0]

Init ==
    /\ state = "ACTIVE"
    /\ pending = "none"
    /\ failure = "proof_body_failure"
    /\ res = NoResult
    /\ applied = <<>>
    /\ appliedIds = {}
    /\ accepted = 0
    /\ records = <<>>
    /\ terminals = 0
    /\ steps = 0
    /\ runs = 0
    /\ pc = "out"
    /\ stack = <<>>
    /\ ret = FALSE

\* Appending records about the current task.
Record(s) == records' = [records EXCEPT ![Task] = @ \o s]

Decisions(reason, kind, depth) ==
    Gate([failure |-> failure, artifact |-> kind, depth |-> depth, reason |-> reason])

-----------------------------------------------------------------------------
(* run_until_terminal                                                      *)

\* Mutant: a new call of run_until_terminal reactivates the run.
MutRestart ==
    /\ pc = "out"
    /\ runs < MaxRuns
    /\ runs' = runs + 1
    /\ steps' = 0
    /\ pc' = "loop"
    /\ state' = "ACTIVE"
    /\ UNCHANGED <<pending, failure, res, bookVars, records, terminals, stack, ret>>

RunUntilTerminal ==
    /\ pc = "out"
    /\ runs < MaxRuns
    /\ runs' = runs + 1
    /\ steps' = 0
    /\ pc' = "loop"
    /\ UNCHANGED <<state, pending, failure, res, bookVars, records, terminals, stack, ret>>

NextTask ==
    /\ pc = "loop"
    /\ state = "ACTIVE"
    /\ steps < MaxSteps
    /\ steps' = steps + 1
    /\ failure' \in FailureKind
    /\ records' = Append(records, <<>>)
    /\ pc' = "engine"
    /\ UNCHANGED <<state, pending, res, bookVars, terminals, runs, stack, ret>>

\* localizer.next_task returned None: _finalize_without_next_task
NoNextTask ==
    /\ pc = "loop"
    /\ state = "ACTIVE"
    /\ steps < MaxSteps
    /\ steps' = steps + 1
    /\ state' = IF TargetBoundary THEN "COMPLETED" ELSE "FINISHED"
    /\ pc' = "exit"
    /\ UNCHANGED <<pending, failure, res, bookVars, records, terminals, runs, stack, ret>>

\* Mutant: max_steps is not looked at.
MutNoLimit ==
    /\ pc = "loop"
    /\ state # "ACTIVE"
    /\ pc' = "exit"
    /\ UNCHANGED <<state, pending, res, bookVars, records, runVars, stack, ret>>

LeaveLoop ==
    /\ pc = "loop"
    /\ state # "ACTIVE" \/ steps = MaxSteps
    /\ pc' = "exit"
    /\ UNCHANGED <<state, pending, res, bookVars, records, runVars, stack, ret>>

Exit ==
    /\ pc = "exit"
    /\ terminals' = terminals + (IF state \in Terminal THEN 1 ELSE 0)
    /\ pc' = "out"
    /\ UNCHANGED <<state, pending, failure, res, bookVars, records, steps, runs, stack, ret>>

\* _enter_review, and with auto_resolve_review the call of resume_from_review.
EnterReview(reason, from, before, back) ==
    /\ pending' = reason
    /\ state' = "AWAITING_REVIEW"
    /\ Record(Append(before, "review_entered"))
    /\ IF AutoResolve
       THEN /\ stack' = Append(stack, [reason |-> reason, from |-> from, kind |-> res.kind])
            /\ pc' = "hook"
       ELSE /\ pc' = back
            /\ UNCHANGED stack

\* engine.run, the TASK record, and what the outcome leads to
RunTask ==
    /\ pc = "engine"
    /\ \E r \in Results :
          /\ res' = r
          /\ \/ /\ r.outcome = "failed"
                /\ Record(<<"task", "continuation_stop">>)
                /\ state' = "STOPPED"
                /\ pc' = "loop"
                /\ UNCHANGED <<pending, stack>>
             \/ /\ r.outcome = "escalated"
                /\ EnterReview("task_escalated_requires_review", "main", <<"task">>, "loop")
             \/ /\ r.outcome \notin {"failed", "escalated"}
                /\ Record(<<"task">>)
                /\ pc' = IF r.kind # "none" /\ r.text # "none" THEN "gate" ELSE "loop"
                /\ UNCHANGED <<state, pending, stack>>
    /\ UNCHANGED <<bookVars, runVars, ret>>

\* _gate_or_review
GateOrReview ==
    LET decisions == Decisions("task_artifact_evaluation", res.kind, res.depth) IN
    /\ pc = "gate"
    /\ \/ /\ "deny" \in decisions
          /\ Record(<<"policy_deny">>)
          /\ pc' = "loop"
          /\ UNCHANGED <<state, pending, stack>>
       \/ /\ "allow" \in decisions
          /\ Record(<<"policy_allow">>)
          /\ pc' = "apply"
          /\ UNCHANGED <<state, pending, stack>>
       \/ /\ "requires_review" \in decisions
          /\ EnterReview("policy_requires_review", "main", <<"policy_review">>, "loop")
    /\ UNCHANGED <<res, bookVars, runVars, ret>>

-----------------------------------------------------------------------------
(* resume_from_review                                                      *)

\* Mutant: resume_from_review without its first check.
MutResumeAnytime ==
    /\ pc = "out"
    /\ Task > 0
    /\ stack' = <<[reason |-> pending, from |-> "caller", kind |-> res.kind]>>
    /\ pc' = "hook"
    /\ UNCHANGED <<state, pending, res, bookVars, records, runVars, ret>>

\* A caller outside run_until_terminal resolves the pending review.
ResumeFromReview ==
    /\ pc = "out"
    /\ state = "AWAITING_REVIEW"
    /\ pending # "none"
    /\ stack' = <<[reason |-> pending, from |-> "caller", kind |-> res.kind]>>
    /\ pc' = "hook"
    /\ UNCHANGED <<state, pending, res, bookVars, records, runVars, ret>>

AllowedResponses(reason) ==
    CASE reason = "policy_requires_review" -> ResponseKind
      [] reason = "task_escalated_requires_review" -> {"replacement", "placeholder", "stop"}
      [] reason = "placeholder_policy_requires_review" -> {"approve", "reject", "stop"}
      [] reason = "continuation_policy_requires_review" -> {"approve", "stop"}

\* validate_intervention_response: what is not allowed, or lacks its text,
\* becomes a rejection.
Guard(reason, kind, hasText) ==
    IF kind \in AllowedResponses(reason) /\ (kind = "replacement" => hasText)
    THEN kind ELSE "reject"

\* Mutant: the review is answered but stays pending.
MutStillPending ==
    /\ pc = "hook"
    /\ \E kind \in ResponseKind, hasText \in BOOLEAN :
          LET k == Guard(Last(stack).reason, kind, hasText) IN
          /\ state' = IF k = "stop" THEN "STOPPED" ELSE "ACTIVE"
          /\ Record(IF k = "stop" THEN <<"stop", "continuation_stop">> ELSE <<k>>)
          /\ pc' = IF k = "approve" THEN "accept" ELSE "return"
    /\ ret' = FALSE
    /\ UNCHANGED <<pending, res, bookVars, runVars, stack>>

\* The reviewer answers; the guarded answer is recorded, the review is closed
\* and _apply_review_response dispatches on it.
HandleResponse ==
    /\ pc = "hook"
    /\ \E kind \in ResponseKind, hasText \in BOOLEAN :
          LET k == Guard(Last(stack).reason, kind, hasText) IN
          /\ hasText => kind = "replacement"
          /\ pending' = "none"
          /\ state' = IF k = "stop" THEN "STOPPED" ELSE "ACTIVE"
          /\ Record(CASE k = "stop" -> <<"stop", "continuation_stop">>
                      [] OTHER -> <<k>>)
          /\ pc' = CASE k \in {"stop", "reject"} -> "return"
                     [] k = "approve" -> "accept"
                     [] k = "placeholder" -> "placeholder"
                     [] k = "replacement" -> "validate"
    /\ ret' = FALSE
    /\ UNCHANGED <<res, bookVars, runVars, stack>>

\* PROVIDE_REPLACEMENT_ARTIFACT: engine.validate_candidate decides.
ValidateReplacement ==
    /\ pc = "validate"
    /\ \/ /\ res' = [res EXCEPT !.text = "replacement", !.kind = "repair"]
          /\ pc' = "accept"
       \/ /\ UNCHANGED res
          /\ pc' = "return"
    /\ UNCHANGED <<state, pending, bookVars, records, runVars, stack, ret>>

\* Mutant: a denied placeholder is accepted all the same.
MutDeniedPlaceholder ==
    /\ pc = "placeholder"
    /\ Record(<<"policy_deny">>)
    /\ res' = [res EXCEPT !.kind = "placeholder"]
    /\ pc' = "accept"
    /\ UNCHANGED <<state, pending, bookVars, runVars, stack, ret>>

\* _resolve_placeholder_request
ResolvePlaceholderRequest ==
    LET decisions == Decisions("review_placeholder_request", "placeholder", 0) IN
    /\ pc = "placeholder"
    /\ \/ /\ res.text = "none"
          /\ pc' = "return"
          /\ UNCHANGED <<state, pending, records, stack, res>>
       \/ /\ res.text # "none" /\ "deny" \in decisions
          /\ Record(<<"policy_deny">>)
          /\ pc' = "return"
          /\ UNCHANGED <<state, pending, stack, res>>
       \/ /\ res.text # "none" /\ "requires_review" \in decisions
          /\ res' = [res EXCEPT !.kind = "placeholder"]
          /\ EnterReview("placeholder_policy_requires_review", "placeholder",
                         <<"policy_review">>, "return")
       \/ /\ res.text # "none" /\ "allow" \in decisions
          /\ Record(<<"policy_allow">>)
          /\ res' = [res EXCEPT !.kind = "placeholder"]
          /\ pc' = "accept"
          /\ UNCHANGED <<state, pending, stack>>
    /\ UNCHANGED <<bookVars, runVars, ret>>

\* _finalize_accepted_continuation
Finalize(before) ==
    /\ Record(before \o <<IF res.rerun THEN "continuation_rerun" ELSE "continuation",
                          "provenance">>)
    /\ accepted' = accepted + 1
    /\ state' = IF TargetBoundary /\ Target > 0 /\ accepted' >= Target THEN "COMPLETED" ELSE state

\* The end of _apply_accepted_artifact: back to the loop, or to the
\* resume_from_review that called it, which then returns True.
DoneApply(rest) ==
    /\ pc' = IF rest = <<>> THEN "loop" ELSE "return"
    /\ ret' = (rest # <<>>)

\* Mutant: the acceptance is booked before the artifact is applied.
MutFinalizeFirst ==
    /\ pc = "accept"
    /\ Finalize(<<>>)
    /\ pc' = "apply"
    /\ UNCHANGED <<pending, applied, appliedIds, res, runVars, stack, ret>>

\* The response was accepted: conclude the continuation, or apply the artifact.
AcceptResponse ==
    /\ pc = "accept"
    /\ IF Last(stack).reason = "continuation_policy_requires_review"
       THEN /\ Finalize(<<>>)
            /\ pc' = "return"
            /\ ret' = TRUE
            /\ UNCHANGED <<pending, applied, appliedIds>>
       ELSE /\ pc' = "apply"
            /\ UNCHANGED <<state, pending, bookVars, records, ret>>
    /\ UNCHANGED <<res, runVars, stack>>

\* Mutant: the outer activation goes on whatever the inner one returned.
MutIgnoreReturn ==
    LET frame == Last(stack) IN
    /\ pc = "return"
    /\ stack' = Front(stack)
    /\ pc' = CASE frame.from = "caller" -> "out"
               [] frame.from = "main" -> "loop"
               [] frame.from = "placeholder" -> "accept"
               [] frame.from = "apply" -> IF Front(stack) = <<>> THEN "loop" ELSE "return"
    /\ ret' = (frame.from # "main")
    /\ UNCHANGED <<res, state, pending, bookVars, records, runVars>>

\* resume_from_review returns to the loop, to its external caller, to the outer
\* activation's _resolve_placeholder_request, or to _apply_accepted_artifact.
Return ==
    LET frame == Last(stack) IN
    /\ pc = "return"
    /\ stack' = Front(stack)
    /\ \/ /\ frame.from \in {"caller", "main"}
          /\ pc' = IF frame.from = "caller" THEN "out" ELSE "loop"
          /\ UNCHANGED <<res, ret>>
       \/ /\ frame.from = "placeholder"
          /\ res' = IF ret \/ state = "AWAITING_REVIEW" THEN res ELSE [res EXCEPT !.kind = frame.kind]
          /\ pc' = IF ret THEN "accept" ELSE "return"
          /\ UNCHANGED ret
       \/ /\ frame.from = "apply"
          /\ DoneApply(Front(stack))
          /\ UNCHANGED res
    /\ UNCHANGED <<state, pending, bookVars, records, runVars>>

-----------------------------------------------------------------------------
(* _apply_accepted_artifact and the continuation gate                      *)

\* Nothing to apply, or applied by an inner activation already.
SkipApply ==
    /\ pc = "apply"
    /\ res.kind = "none" \/ res.text = "none" \/ Task \in appliedIds
    /\ DoneApply(stack)
    /\ UNCHANGED <<state, pending, res, bookVars, records, runVars, stack>>

\* Mutant: without the check of applied_artifact_task_ids.
MutApplyAgain ==
    /\ pc = "apply"
    /\ res.kind # "none" /\ res.text # "none"
    /\ applied' = Append(applied, [task |-> Task, kind |-> res.kind, text |-> res.text])
    /\ appliedIds' = appliedIds \union {Task}
    /\ IF res.rerun /\ res.depth > 0
       THEN /\ Record(<<"artifact">>)
            /\ pc' = "continuation"
            /\ UNCHANGED <<state, accepted, ret>>
       ELSE Finalize(<<"artifact">>) /\ DoneApply(stack)
    /\ UNCHANGED <<pending, res, runVars, stack>>

ApplyAcceptedArtifact ==
    /\ pc = "apply"
    /\ res.kind # "none" /\ res.text # "none" /\ Task \notin appliedIds
    /\ applied' = Append(applied, [task |-> Task, kind |-> res.kind, text |-> res.text])
    /\ appliedIds' = appliedIds \union {Task}
    /\ IF res.rerun /\ res.depth > 0
       THEN /\ Record(<<"artifact">>)
            /\ pc' = "continuation"
            /\ UNCHANGED <<state, accepted, ret>>
       ELSE Finalize(<<"artifact">>) /\ DoneApply(stack)
    /\ UNCHANGED <<pending, res, runVars, stack>>

\* _gate_continuation
GateContinuation ==
    LET decisions == Decisions("continuation_gating", res.kind, res.depth) IN
    /\ pc = "continuation"
    /\ \/ /\ "deny" \in decisions
          /\ Record(<<"policy_deny", "continuation_stop">>)
          /\ state' = "STOPPED"
          /\ DoneApply(stack)
          /\ UNCHANGED <<pending, accepted, stack>>
       \/ /\ "requires_review" \in decisions
          /\ EnterReview("continuation_policy_requires_review", "apply", <<"policy_review">>,
                         IF stack = <<>> THEN "loop" ELSE "return")
          /\ ret' = (stack # <<>>)
          /\ UNCHANGED accepted
       \/ /\ "allow" \in decisions
          /\ Finalize(<<"policy_allow">>)
          /\ DoneApply(stack)
          /\ UNCHANGED <<pending, stack>>
    /\ UNCHANGED <<res, applied, appliedIds, runVars>>

\* The localizer, the engine, the gate, the hook or the snapshot (a task without a
\* line) raises: the exception leaves run_until_terminal or resume_from_review, and
\* whatever was done before it stays done.
Raise ==
    /\ \/ pc \in {"engine", "gate", "hook", "validate", "continuation"}
       \/ pc = "loop" /\ state = "ACTIVE" /\ steps < MaxSteps
       \/ pc = "placeholder" /\ res.text # "none"
       \/ pc = "apply" /\ Task \notin appliedIds /\ res.kind # "none" /\ res.text # "none"
    /\ pc' = "out"
    /\ stack' = <<>>
    /\ UNCHANGED <<state, pending, res, bookVars, records, runVars, ret>>

Step ==
    \/ NextTask \/ NoNextTask \/ LeaveLoop \/ Exit \/ RunTask \/ GateOrReview
    \/ HandleResponse \/ ValidateReplacement \/ ResolvePlaceholderRequest \/ AcceptResponse
    \/ Return \/ SkipApply \/ ApplyAcceptedArtifact \/ GateContinuation \/ Raise

\* The run object is left alone.
Rest ==
    /\ pc = "out"
    /\ UNCHANGED vars

Next == Step \/ RunUntilTerminal \/ ResumeFromReview \/ Rest

Spec == Init /\ [][Next]_vars
FairSpec == Spec /\ WF_vars(Step)
-----------------------------------------------------------------------------
(* What theorems about the rules ask of the collaborators                  *)

\* The gate is RuleBasedPolicyGate.
RuleGated == \A c \in PolicyContext : Gate(c) = {Decide(c)}

\* The engine hands out the failing block itself only with an escalation, as
\* ReplDeterministicTaskEngine does.
BlockEscalated == \A r \in Results : r.text = "block" => r.outcome = "escalated"

\* No continuation is gated: ReplDeterministicTaskEngine never sets requires_rerun.
ContinuationsUngated == \A r \in Results : ~(r.rerun /\ r.depth > 0)

-----------------------------------------------------------------------------
(* Properties                                                              *)

RecordKind ==
    {"task", "policy_allow", "policy_deny", "policy_review", "review_entered", "artifact",
     "continuation", "continuation_rerun", "continuation_stop", "provenance"} \union ResponseKind

\* Every variable has its type: the run holds one of the five states, a task
\* result of the engine's shape, and records only of the kinds the store knows.
\* Reviews nest at most three deep: a review of the artifact, of a placeholder
\* asked for in it, and of the continuation after it.
TypeOK ==
    /\ state \in RunState
    /\ pending \in Reason \union {"none"}
    /\ failure \in FailureKind
    /\ res \in TaskResult
    /\ applied \in Seq([task : Nat, kind : ArtifactKind, text : {"block", "candidate", "replacement"}])
    /\ appliedIds \subseteq 1 .. Task
    /\ accepted \in Nat
    /\ records \in Seq(Seq(RecordKind))
    /\ terminals \in Nat
    /\ steps \in 0 .. MaxSteps
    /\ runs \in 0 .. MaxRuns
    /\ pc \in {"out", "loop", "exit", "engine", "gate", "hook", "validate", "placeholder",
               "accept", "return", "apply", "continuation"}
    /\ stack \in Seq([reason : Reason, from : {"main", "caller", "placeholder", "apply"},
                      kind : ArtifactKind \union {"none"}])
    /\ Len(stack) <= 3
    /\ ret \in BOOLEAN

\* A review is pending exactly while the run awaits one, whatever reviews were
\* nested, refused or cut short by an exception (_enter_review sets both,
\* resume_from_review clears both before it acts on the response).
ReviewPauses == pending # "none" <=> state = "AWAITING_REVIEW"

\* A run that stopped, completed or finished stays as it is: neither an outer
\* activation of resume_from_review that goes on after an inner one stopped
\* the run, nor a late response, revives or relabels it.
TerminalAbsorbing == [][(state \in Terminal) => state' = state]_state

\* The snapshot integrates at most one artifact per task, although the inner
\* and the outer activation of resume_from_review both ask for it, and the
\* artifacts of different tasks are integrated in the order of the tasks.
AppliedOnce ==
    \A i, j \in DOMAIN applied : i < j => applied[i].task < applied[j].task

\* The evidence for an integration, from the task on: the gate allowed the
\* artifact, or a review was opened, by the gate or for an escalated task, and the
\* reviewer approved of what the gate had seen, replaced it, or asked for a
\* placeholder, of which the gate was asked again.
ToReview == <<"policy_review", "review_entered">>
Opened == {<<"task">> \o ToReview, <<"task", "review_entered">>}
Requested == {o \o <<"placeholder">> : o \in Opened}
Evidence ==
    {<<"task">> \o <<"policy_allow">>, <<"task">> \o ToReview \o <<"approve">>}
        \union {o \o <<"replacement">> : o \in Opened}
        \union {q \o <<"policy_allow">> : q \in Requested}
        \union {q \o ToReview \o <<"approve">> : q \in Requested}

\* Before an artifact is integrated its task has that evidence, in that order and
\* nothing else: no denial, rejection or stop on the way, no approval of an
\* escalated task or of something the gate was not asked about, whichever
\* activation integrates it, and however often a review was interrupted.
Vetted ==
    \A t \in DOMAIN records : \A i \in DOMAIN records[t] :
        records[t][i] = "artifact" => SubSeq(records[t], 1, i - 1) \in Evidence

\* Some decision of the gate is recorded before each artifact, also of one that
\* comes out of the review of an escalated task.
PolicyPrecedesArtifact ==
    \A t \in DOMAIN records : \A i \in DOMAIN records[t] :
        records[t][i] = "artifact" =>
            \E j \in 1 .. i - 1 :
                records[t][j] \in {"policy_allow", "policy_deny", "policy_review"}

\* What counts as accepted is exactly what has provenance: one provenance
\* record per accepted artifact, each after the artifact and its continuation
\* (_finalize_accepted_continuation, reached from three places).
AcceptedHasProvenance ==
    LET With(k) == {t \in DOMAIN records : Contains(records[t], k)}
        Places(t, k) == {i \in DOMAIN records[t] : records[t][i] = k} IN
    /\ accepted = Cardinality(With("provenance"))
    /\ \A t \in With("provenance") :
          /\ Cardinality(Places(t, "provenance")) = 1
          /\ \A i \in Places(t, "provenance") :
                /\ records[t][i - 1] \in {"continuation", "continuation_rerun"}
                /\ \E j \in Places(t, "artifact") : j < i - 1

\* The run goes on after an integration only when continuation and provenance are
\* recorded, whichever nesting of reviews led there.
IntegrationConcluded ==
    pc = "loop" /\ state = "ACTIVE" => \A t \in appliedIds : Contains(records[t], "provenance")

\* The contract of the run: every integration has the evidence task, policy, optional
\* intervention, artifact, continuation and provenance, on every path.
EvidenceOrdered == PolicyPrecedesArtifact /\ IntegrationConcluded

\* A run is stopped exactly when the last record of its last task is a stop
\* continuation: whoever stops it says so, and nothing is recorded or started
\* after it, by an outer activation of resume_from_review either.
StopIsExplained ==
    state = "STOPPED" <=>
        Task > 0 /\ records[Task] # <<>> /\ Last(records[Task]) = "continuation_stop"

\* With RuleBasedPolicyGate, what the rules single out was seen by a reviewer
\* before it got into the theory: a repair of a high-risk failure or of a
\* fallback block, and a placeholder as its mode demands; the failing block
\* itself is never integrated as a repair.
RiskReviewed ==
    LET entry == Last(applied)
        Reviewed(kinds) == \E k \in kinds : Contains(records[Task], k) IN
    (applied # <<>> /\ Task \in appliedIds) =>
        /\ entry.task = Task
        /\ entry.kind = "repair" /\ (failure \in HighRisk \/ res.depth > 0) =>
              Reviewed({"approve", "replacement"})
        /\ entry.kind = "placeholder" => PlaceholderMode # "deny"
        /\ entry.kind = "placeholder" /\ PlaceholderMode = "requires_review" =>
              Reviewed({"approve"})
        /\ entry.text = "block" => entry.kind = "placeholder"

\* run_until_terminal and resume_from_review return to their caller: no answer
\* of the engine, the gate or the reviewer keeps them going for ever.
EveryRunReturns == (pc # "out") ~> (pc = "out")
=============================================================================

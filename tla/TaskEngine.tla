----------------------------- MODULE TaskEngine -----------------------------
(***************************************************************************)
(* ReplDeterministicTaskEngine and DeterministicTaskController: a task is  *)
(* tried block kind by block kind, each with the candidates of the rule-   *)
(* first generator, all from one source state and within one validation    *)
(* budget; a replacement of a reviewer goes through the same loop.         *)
(*                                                                         *)
(* The prover answers a tactic at a state always the same, but any         *)
(* execution may time out.  A call of the client may also raise.           *)
(***************************************************************************)
EXTENDS Policy, Sequences, SequencesExt, IndexOrder

CONSTANTS
    Tasks,            \* the LocalizedTasks the engine is given
    MaxValidations,   \* max_validations of the TaskSpec
    Promote,          \* promote_failed_block_for_review
    AllowSledgehammer,
    MaxReviews        \* bound: replacements validated for one task

BlockKind == {"TerminalProofStep", "WholeProofBody", "TheoremShell", "TopLevelCommand", "Unknown"}
Supported == BlockKind \ {"Unknown"}  \* contract_for_block_kind is not None

Tactic == {"simp", "auto", "blast", "sledgehammer", "replacement"}

Level == 0 .. 2  \* proof levels

\* LocalizedTask: its fallback_candidates, the older metadata["fallback_chain"],
\* whether it has a source_state_id, the proof level of that state and the one
\* entry_checkpoint states: that of the state, or 0 when it states none.
BlockCandidate == [kind : BlockKind, origin : {"primary", "fallback"}]
Task ==
    [kind : BlockKind, structured : Seq(BlockCandidate), chain : Seq(BlockKind),
     source : BOOLEAN, level : Level, entry : Level]

ASSUME EngineAssumption ==
    /\ Tasks \subseteq {t \in Task : t.entry \in {0, t.level}}
    /\ MaxValidations \in Nat /\ MaxReviews \in Nat
    /\ Promote \in BOOLEAN /\ AllowSledgehammer \in BOOLEAN

-----------------------------------------------------------------------------
(* The prover                                                              *)

\* StateResult
Answer ==
    [status : {"SUCCESS", "PROOF_COMPLETE", "ERROR", "TIMEOUT"}, level : Level,
     mode : {"THEORY", "PROOF", "SKIPPED_PROOF"}]

\* Toplevel states: a proof has a level above 0.
Mode(level) == IF level = 0 THEN {"THEORY"} ELSE {"PROOF", "SKIPPED_PROOF"}

\* computeExecute: a failure leaves the source state.
Succeeds(source, level, mode) ==
    [status |-> IF source > 0 /\ level = 0 THEN "PROOF_COMPLETE" ELSE "SUCCESS",
     level |-> level, mode |-> mode]
Fails(source, status) ==
    [status |-> status, level |-> source, mode |-> IF source = 0 THEN "THEORY" ELSE "PROOF"]

\* What a tactic does at a state of the level, given the time it needs.
Answers(source) ==
    {Fails(source, "ERROR")} \union
    UNION {{Succeeds(source, level, mode) : mode \in Mode(level)} : level \in Level}

IsSuccess(a) == a.status \in {"SUCCESS", "PROOF_COMPLETE"}
ProofIsFinished(a) == a.status = "PROOF_COMPLETE"

-----------------------------------------------------------------------------
(* Candidates and contracts                                                *)

Rules(kind) ==
    CASE kind = "TerminalProofStep" -> <<"simp", "auto", "blast">>
      [] kind = "WholeProofBody" -> <<"auto", "blast", "simp">>
      [] kind = "TheoremShell" -> <<"auto", "simp">>
      [] OTHER -> <<>>

\* generate_candidates; the prover decides whether Sledgehammer finds anything.
GenerateCandidates(kind) ==
    IF Rules(kind) # <<>> \/ kind = "TopLevelCommand" \/ ~ AllowSledgehammer
    THEN {Rules(kind)}
    ELSE {<<>>, <<"sledgehammer">>}

\* Mutant: a proof body may also stay at the level it was entered at.
MutLevelKept(kind, entry, a) ==
    \/ kind = "TerminalProofStep" /\ (ProofIsFinished(a) \/ (IsSuccess(a) /\ a.level < entry))
    \/ kind = "WholeProofBody" /\ IsSuccess(a) /\ a.level <= entry
    \/ kind = "TheoremShell" /\ ProofIsFinished(a) /\ a.level = 0 /\ a.mode # "PROOF"
    \/ kind = "TopLevelCommand" /\ IsSuccess(a) /\ a.level = 0 /\ a.mode # "PROOF"

\* Mutant: the goal of a terminal step counts as closed when the step executes.
MutGoalNotClosed(kind, entry, a) ==
    \/ kind = "TerminalProofStep" /\ IsSuccess(a)
    \/ kind = "WholeProofBody" /\ IsSuccess(a) /\ a.level < entry
    \/ kind = "TheoremShell" /\ ProofIsFinished(a) /\ a.level = 0 /\ a.mode # "PROOF"
    \/ kind = "TopLevelCommand" /\ IsSuccess(a) /\ a.level = 0 /\ a.mode # "PROOF"

\* The validation adapters.
ContractHolds(kind, entry, a) ==
    \/ kind = "TerminalProofStep" /\ (ProofIsFinished(a) \/ (IsSuccess(a) /\ a.level < entry))
    \/ kind = "WholeProofBody" /\ IsSuccess(a) /\ a.level < entry
    \/ kind = "TheoremShell" /\ ProofIsFinished(a) /\ a.level = 0 /\ a.mode # "PROOF"
    \/ kind = "TopLevelCommand" /\ IsSuccess(a) /\ a.level = 0 /\ a.mode # "PROOF"

\* _validate_execution
ValidateExecution(kind, entry, a) ==
    CASE a.status = "TIMEOUT" -> "failed_timeout"
      [] a.status = "ERROR" -> "failed_execution"
      [] OTHER -> IF ContractHolds(kind, entry, a) THEN "passed" ELSE "failed_contract"

\* _fallback_candidates: the structured ones, or those of the chain that have a
\* contract; only the first of the chain is primary.
FallbackCandidates(task) ==
    LET chain == IF task.chain = <<>> THEN <<task.kind>> ELSE task.chain
        supported == Ascending({i \in 1 .. Len(chain) : chain[i] \in Supported})
    IN  IF task.structured # <<>> THEN task.structured
        ELSE [k \in DOMAIN supported |->
                [kind |-> chain[supported[k]],
                 origin |-> IF supported[k] = 1 THEN "primary" ELSE "fallback"]]

-----------------------------------------------------------------------------
VARIABLES
    task,
    call,       \* what was called: "none", "run" or "validate_candidate"
    blocks,     \* the block candidates of the call
    index,      \* the one being tried
    candidates, \* those of the block that are left
    spent,      \* validation_count: validations of earlier blocks
    validated,  \* validate_count: validations of this block
    attempted,  \* what was executed in the call, with the answers
    answers,    \* what the prover answered so far, timeouts aside
    reviews,    \* calls of validate_candidate
    pc,
    result

vars == <<task, call, blocks, index, candidates, spent, validated, attempted, answers, reviews,
          pc, result>>

None == [outcome |-> "none", reason |-> "none", depth |-> 0]

Init ==
    /\ task \in Tasks
    /\ call = "none"
    /\ blocks = <<>>
    /\ index = 0
    /\ candidates = <<>>
    /\ spent = 0
    /\ validated = 0
    /\ attempted = <<>>
    /\ answers = {}
    /\ reviews = 0
    /\ pc = "idle"
    /\ result = None

Call(name, list) ==
    /\ call' = name
    /\ blocks' = list
    /\ index' = 1
    /\ spent' = 0
    /\ validated' = 0
    /\ attempted' = <<>>
    /\ result' = None
    /\ pc' = "block"

Run ==
    /\ pc = "idle"
    /\ call = "none"
    /\ Call("run", FallbackCandidates(task))
    /\ UNCHANGED <<task, candidates, answers, reviews>>

\* The orchestrator names a contract for every block kind, so the engine never
\* has to infer one; the adapter is chosen by the task's own kind.
ValidateCandidate ==
    /\ pc = "idle"
    /\ call # "none"
    /\ reviews < MaxReviews
    /\ reviews' = reviews + 1
    /\ Call("validate_candidate", <<[kind |-> task.kind, origin |-> "primary"]>>)
    /\ UNCHANGED <<task, candidates, answers>>

\* The call returns.
Finish(outcome, reason, depth) ==
    /\ result' = [outcome |-> outcome, reason |-> reason, depth |-> depth]
    /\ pc' = "idle"

\* Mutant: the budget is counted block by block.
MutOwnBudget == MaxValidations

\* What is left of the budget for the current block.
Remaining == IF spent > MaxValidations THEN 0 ELSE MaxValidations - spent

\* The end of run_with_source without acceptance, and the next turn of the
\* engine's loop; a review has only this block.
EndBlock(reason) ==
    IF call = "validate_candidate"
    THEN Finish("failed", reason, 0) /\ UNCHANGED <<index, spent, validated>>
    ELSE /\ index' = index + 1
         /\ spent' = spent + validated
         /\ validated' = 0
         /\ pc' = "block"
         /\ UNCHANGED result

StartBlock ==
    /\ pc = "block"
    /\ index <= Len(blocks)
    /\ \/ /\ ~ task.source
          /\ candidates' = <<>>
          /\ EndBlock("missing_source_state")
       \/ /\ task.source
          /\ \E c \in IF call = "run" THEN GenerateCandidates(blocks[index].kind)
                                      ELSE {<<"replacement">>} :
                /\ candidates' = c
                /\ IF c = <<>>
                   THEN EndBlock("no_candidate_generated")
                   ELSE pc' = "try" /\ UNCHANGED <<index, spent, validated, result>>
    /\ UNCHANGED <<task, call, blocks, attempted, answers, reviews>>

\* Mutant: the depth is counted from the first fallback.
MutDepthFromFallback == IF index > 2 THEN index - 2 ELSE 0

\* Mutant: the index starts at 1.
MutDepthFromOne == index

\* is_fallback and fallback_depth
Depth == IF index > 1 \/ blocks[index].origin # "primary" THEN index - 1 ELSE 0

\* The execution of a candidate from the source state.
Execute(tactic) ==
    {[tactic |-> tactic, kind |-> blocks[index].kind, answer |-> a] :
        a \in {Fails(task.level, "TIMEOUT")} \union
              {b \in Answers(task.level) :
                 \A known \in answers : known.tactic = tactic => known.answer = b}}

\* Mutant: the loop does not stop at the first candidate that passes.
MutTryAll ==
    /\ pc = "try"
    /\ candidates # <<>>
    /\ validated < Remaining
    /\ \E e \in Execute(Head(candidates)) :
          /\ attempted' = Append(attempted, e)
          /\ answers' = IF e.answer.status = "TIMEOUT" THEN answers
                        ELSE answers \union {[tactic |-> e.tactic, answer |-> e.answer]}
          /\ IF /\ ValidateExecution(e.kind, task.entry, e.answer) = "passed"
                /\ Tail(candidates) = <<>>
             THEN Finish("accepted", "none", Depth)
             ELSE pc' = pc /\ UNCHANGED result
    /\ candidates' = Tail(candidates)
    /\ validated' = validated + 1
    /\ UNCHANGED <<task, call, blocks, index, spent, reviews>>

\* One turn of the loop over the candidates: execute and validate.
TryCandidate ==
    /\ pc = "try"
    /\ candidates # <<>>
    /\ validated < Remaining
    /\ \E e \in Execute(Head(candidates)) :
          /\ attempted' = Append(attempted, e)
          /\ answers' = IF e.answer.status = "TIMEOUT" THEN answers
                        ELSE answers \union {[tactic |-> e.tactic, answer |-> e.answer]}
          /\ IF ValidateExecution(e.kind, task.entry, e.answer) = "passed"
             THEN Finish("accepted", "none", Depth)
             ELSE pc' = pc /\ UNCHANGED result
    /\ candidates' = Tail(candidates)
    /\ validated' = validated + 1
    /\ UNCHANGED <<task, call, blocks, index, spent, reviews>>

\* Mutant: an exhausted budget ends the block only.
MutBudgetEndsBlock ==
    /\ pc = "try"
    /\ candidates # <<>>
    /\ validated >= Remaining
    /\ EndBlock("validation_budget_exhausted")
    /\ UNCHANGED <<task, call, blocks, candidates, attempted, answers, reviews>>

\* validation_budget_exhausted ends the whole call.
BudgetExhausted ==
    /\ pc = "try"
    /\ candidates # <<>>
    /\ validated >= Remaining
    /\ Finish("failed", "validation_budget_exhausted", 0)
    /\ UNCHANGED <<task, call, blocks, index, candidates, spent, validated, attempted, answers,
                   reviews>>

AllCandidatesRejected ==
    /\ pc = "try"
    /\ candidates = <<>>
    /\ EndBlock("all_candidates_rejected")
    /\ UNCHANGED <<task, call, blocks, candidates, attempted, answers, reviews>>

\* Every block failed: the failing block itself goes to review, or the task fails.
BlocksExhausted ==
    /\ pc = "block"
    /\ index > Len(blocks)
    /\ IF Promote THEN Finish("escalated", "promote_review", 0)
                  ELSE Finish("failed", "all_block_kinds_failed", 0)
    /\ UNCHANGED <<task, call, blocks, index, candidates, spent, validated, attempted, answers,
                   reviews>>

\* The client raises: in an execution, or in the call of Sledgehammer.
Raise ==
    /\ \/ pc = "try" /\ candidates # <<>> /\ validated < Remaining
       \/ /\ pc = "block" /\ index <= Len(blocks) /\ task.source /\ call = "run"
          /\ \E c \in GenerateCandidates(blocks[index].kind) : "sledgehammer" \in Range(c)
    /\ Finish("raised", "none", 0)
    /\ UNCHANGED <<task, call, blocks, index, candidates, spent, validated, attempted, answers,
                   reviews>>

\* The task is not heard of again.
Rest == pc = "idle" /\ call # "none" /\ UNCHANGED vars

Next ==
    \/ Run \/ ValidateCandidate
    \/ StartBlock \/ TryCandidate \/ BudgetExhausted \/ AllCandidatesRejected \/ BlocksExhausted
    \/ Raise
    \/ Rest

Spec == Init /\ [][Next]_vars

-----------------------------------------------------------------------------
(* What theorems about the chain ask of the tasks                          *)

\* The chain starts with the block that was localized, as ReplBlockLocalizer and
\* the plain task build it.
LocalizedFirst ==
    \A t \in Tasks : FallbackCandidates(t) # <<>> => FallbackCandidates(t)[1].kind = t.kind

\* The fallbacks of a chain are of kinds with a contract, and behind a proof step or
\* a proof body, as _default_fallback_candidates and the metadata chain list them.
ProofChain ==
    \A t \in Tasks : \A i \in 2 .. Len(FallbackCandidates(t)) :
        /\ FallbackCandidates(t)[1].kind \in {"TerminalProofStep", "WholeProofBody"}
        /\ FallbackCandidates(t)[i].kind \in Supported

-----------------------------------------------------------------------------
(* Properties                                                              *)

\* The type invariant: the call, its loops and its result.
TypeOK ==
    /\ task \in Tasks
    /\ call \in {"none", "run", "validate_candidate"}
    /\ blocks \in Seq(BlockCandidate)
    /\ index \in 0 .. Len(blocks) + 1
    /\ candidates \in Seq(Tactic)
    /\ spent \in Nat /\ validated \in Nat /\ reviews \in 0 .. MaxReviews
    /\ attempted \in Seq([tactic : Tactic, kind : BlockKind, answer : Answer])
    /\ answers \subseteq [tactic : Tactic, answer : Answer]
    /\ pc \in {"idle", "block", "try"}
    /\ result.outcome \in {"none", "accepted", "failed", "escalated", "raised"}
    /\ result.depth \in Nat /\ (result.depth = 0 \/ result.depth < Len(blocks))

\* What it means that an executed candidate repaired its block: the proof it was
\* entered in, the whole theorem, or the command, is behind it.
Closed(e) ==
    /\ IsSuccess(e.answer)
    /\ \/ e.kind \in {"TerminalProofStep", "WholeProofBody"} /\ e.answer.level < task.level
       \/ e.kind = "TheoremShell" /\ task.level > 0 /\ e.answer.level = 0
       \/ e.kind = "TopLevelCommand" /\ e.answer.level = 0

Returned(outcome) == pc = "idle" /\ result.outcome = outcome
Informed == task.entry = task.level  \* entry_checkpoint is that of the source state

\* One budget for all blocks of the chain: run and validate_candidate never execute
\* more candidates than max_validations, however the attempts are spread.
BudgetShared == Len(attempted) <= MaxValidations

\* What is accepted, by the engine or for a reviewer, did close its block, even when
\* the task carries no entry checkpoint.
AcceptedCloses == Returned("accepted") => Closed(Last(attempted))

\* The accepted candidate is the first one, in the order of blocks and rules, that
\* closes its block: no block falls back past a repair it already had.
FirstClosingWins ==
    Returned("accepted") /\ Informed => \A i \in 1 .. Len(attempted) - 1 : ~ Closed(attempted[i])

\* A task is given up only after every rule of every block was executed in vain, or
\* with the budget spent to the last validation; a block is promoted to review only
\* in the first case.
GivenUpInVain ==
    LET tactics == [i \in 1 .. Len(attempted) |-> attempted[i].tactic]
        rules == FlattenSeq([i \in 1 .. Len(blocks) |-> Rules(blocks[i].kind)])
        unruled == {i \in 1 .. Len(blocks) : Rules(blocks[i].kind) = <<>>}
    IN  call = "run" /\ (Returned("failed") \/ Returned("escalated")) =>
           /\ Informed => \A i \in 1 .. Len(attempted) : ~ Closed(attempted[i])
           /\ IF result.reason = "validation_budget_exhausted"
              THEN Returned("failed") /\ Len(attempted) = MaxValidations
              ELSE unruled = {} /\ task.source => tactics = rules

\* The larger blocks of a chain repeat tactics of the first from the same state under
\* contracts that ask no less.  So for a task with its entry checkpoint a fallback is
\* accepted only where the same tactic timed out before.
FallbackNeedsTimeout ==
    Returned("accepted") /\ Informed /\ call = "run" /\ result.depth > 0 =>
        \E i \in 1 .. Len(attempted) - 1 :
            /\ attempted[i].tactic = Last(attempted).tactic
            /\ attempted[i].answer.status = "TIMEOUT"

\* A repair of another block than the localized one is never let through by the rule-
\* based gate, whatever the failure: the depth the engine reports tells the gate.
FallbackReviewed ==
    Returned("accepted") /\ call = "run" /\ Last(attempted).kind # task.kind =>
        \A failure \in FailureKind :
            Decide([failure |-> failure, artifact |-> "repair", depth |-> IF result.depth > 0 THEN 1 ELSE 0,
                    reason |-> "task_artifact_evaluation"]) = "requires_review"
=============================================================================

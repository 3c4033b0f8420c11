-------------------------- MODULE TaskEngineProofs --------------------------
(***************************************************************************)
(* The engine stays within the budget, accepts only what closed its block  *)
(* and the first that does, goes through the whole chain before it gives   *)
(* up, and falls back only after a timeout and under review: for every set *)
(* of tasks, every chain of blocks and every budget.                       *)
(***************************************************************************)
EXTENDS TaskEngine, SequenceProofs, SequenceTheorems

\* What the loops know: every execution of the call is counted once, either for
\* an earlier block or for this one, and the budget covers both.
BudgetInv ==
    /\ spent \in Nat /\ validated \in Nat
    /\ \E S : attempted \in Seq(S)
    /\ Len(attempted) = spent + validated
    /\ spent + validated <= MaxValidations

IInv == task \in Tasks /\ BudgetInv /\ AcceptedCloses

\* An execution is added at the end of the attempts.
LEMMA AppendAttempt ==
    ASSUME NEW s, NEW e, \E S : s \in Seq(S)
    PROVE  /\ \E S : Append(s, e) \in Seq(S)
           /\ Len(Append(s, e)) = Len(s) + 1
           /\ Last(Append(s, e)) = e
<1>1. PICK S : s \in Seq(S)
  OBVIOUS
<1> DEFINE T == S \union {e}
<1>2. s \in Seq(T) /\ e \in T
  BY <1>1, SeqMonotonic
<1>3. /\ Append(s, e) \in Seq(T)
      /\ Len(Append(s, e)) = Len(s) + 1
      /\ Append(s, e)[Len(s) + 1] = e
  BY <1>2, AppendProperties
<1> QED
  BY <1>3 DEF Last

\* The contracts are sound: an answer the adapter of a block accepts left the proof
\* or the theorem behind, as long as the entry level is not above that of the state.
LEMMA ContractSound ==
    ASSUME NEW t \in Tasks, NEW kind, NEW a \in Answers(t.level) \union {Fails(t.level, "TIMEOUT")},
           NEW e, e.kind = kind, e.answer = a, task = t,
           ValidateExecution(kind, t.entry, a) = "passed"
    PROVE  Closed(e)
<1>1. t.level \in 0 .. 2 /\ t.entry \in {0, t.level}
  BY EngineAssumption DEF Task, Level
<1>2. /\ a.status # "TIMEOUT" /\ a.status # "ERROR"
      /\ ContractHolds(kind, t.entry, a)
  BY DEF ValidateExecution
<1>3. PICK level \in Level : \E mode \in Mode(level) : a = Succeeds(t.level, level, mode)
  BY <1>2 DEF Answers, Fails
<1>4. a.level = level /\ a.status = (IF t.level > 0 /\ level = 0 THEN "PROOF_COMPLETE" ELSE "SUCCESS")
  BY <1>3 DEF Succeeds
<1>5. level \in 0 .. 2
  BY DEF Level
<1>6. CASE kind = "TerminalProofStep"
  <2>1. ProofIsFinished(a) \/ (IsSuccess(a) /\ a.level < t.entry)
    BY <1>2, <1>6 DEF ContractHolds
  <2>2. IsSuccess(a) /\ a.level < t.level
    BY <2>1, <1>1, <1>4, <1>5 DEF ProofIsFinished, IsSuccess
  <2> QED
    BY <2>2, <1>6 DEF Closed
<1>7. CASE kind = "WholeProofBody"
  <2>1. IsSuccess(a) /\ a.level < t.entry
    BY <1>2, <1>7 DEF ContractHolds
  <2>2. a.level < t.level
    BY <2>1, <1>1, <1>4, <1>5
  <2> QED
    BY <2>1, <2>2, <1>7 DEF Closed
<1>8. CASE kind = "TheoremShell"
  <2>1. ProofIsFinished(a) /\ a.level = 0
    BY <1>2, <1>8 DEF ContractHolds
  <2>2. IsSuccess(a) /\ t.level > 0
    BY <2>1, <1>4 DEF ProofIsFinished, IsSuccess
  <2> QED
    BY <2>1, <2>2, <1>8 DEF Closed
<1>9. CASE kind = "TopLevelCommand"
  BY <1>2, <1>9 DEF ContractHolds, Closed
<1>10. CASE kind \notin {"TerminalProofStep", "WholeProofBody", "TheoremShell", "TopLevelCommand"}
  BY <1>2, <1>10 DEF ContractHolds
<1> QED
  BY <1>6, <1>7, <1>8, <1>9, <1>10

\* A call of the engine starts with nothing spent and nothing accepted.
LEMMA CallKeeps ==
    ASSUME IInv, NEW name, NEW list, Call(name, list), task' = task
    PROVE  IInv'
<1>1. attempted' \in Seq({}) /\ Len(attempted') = 0
  BY DEF Call
<1>2. BudgetInv'
  BY <1>1, EngineAssumption DEF BudgetInv, Call
<1>3. AcceptedCloses'
  BY DEF Call, AcceptedCloses, Returned
<1> QED
  BY <1>2, <1>3 DEF IInv

\* The end of a block moves what it spent to the total.
LEMMA EndBlockKeeps ==
    ASSUME IInv, NEW reason, EndBlock(reason), UNCHANGED <<task, attempted>>
    PROVE  IInv'
<1>1. CASE call = "validate_candidate"
  BY <1>1 DEF IInv, BudgetInv, AcceptedCloses, EndBlock, Finish, Returned
<1>2. CASE call # "validate_candidate"
  <2>1. BudgetInv'
    BY <1>2 DEF IInv, BudgetInv, EndBlock
  <2>2. AcceptedCloses'
    BY <1>2 DEF EndBlock, AcceptedCloses, Returned
  <2> QED
    BY <2>1, <2>2 DEF IInv, EndBlock
<1> QED
  BY <1>1, <1>2

\* A call that returns anything but an acceptance keeps the invariant.
LEMMA FinishKeeps ==
    ASSUME IInv, NEW outcome, outcome # "accepted", NEW reason, Finish(outcome, reason, 0),
           UNCHANGED <<task, attempted, spent, validated>>
    PROVE  IInv'
BY DEF IInv, BudgetInv, AcceptedCloses, Finish, Returned

\* Executing a candidate spends one validation that was left.
LEMMA TryKeeps ==
    ASSUME IInv, TryCandidate
    PROVE  IInv'
<1>1. PICK e \in Execute(Head(candidates)) :
          /\ attempted' = Append(attempted, e)
          /\ IF ValidateExecution(e.kind, task.entry, e.answer) = "passed"
             THEN Finish("accepted", "none", Depth)
             ELSE pc' = pc /\ UNCHANGED result
  BY DEF TryCandidate
<1>2. /\ \E S : attempted' \in Seq(S)
      /\ Len(attempted') = Len(attempted) + 1
      /\ Last(attempted') = e
  BY <1>1, AppendAttempt DEF IInv, BudgetInv
<1>3. validated' = validated + 1 /\ spent' = spent /\ task' = task /\ pc = "try"
  BY DEF TryCandidate
<1>4. spent + validated + 1 <= MaxValidations
  BY EngineAssumption DEF TryCandidate, Remaining, IInv, BudgetInv
<1>5. BudgetInv'
  BY <1>2, <1>3, <1>4, EngineAssumption DEF IInv, BudgetInv
<1>6. AcceptedCloses'
  <2>1. CASE ValidateExecution(e.kind, task.entry, e.answer) = "passed"
    <3>1. e.answer \in Answers(task.level) \union {Fails(task.level, "TIMEOUT")}
      BY DEF Execute
    <3>2. Closed(e)
      BY <2>1, <3>1, ContractSound DEF IInv
    <3>3. Closed(Last(attempted))'
      BY <3>2, <1>2, <1>3 DEF Closed
    <3> QED
      BY <3>3 DEF AcceptedCloses
  <2>2. CASE ValidateExecution(e.kind, task.entry, e.answer) # "passed"
    <3>1. pc' = "try"
      BY <1>1, <1>3, <2>2
    <3> QED
      BY <3>1 DEF AcceptedCloses, Returned
  <2> QED
    BY <2>1, <2>2
<1> QED
  BY <1>3, <1>5, <1>6 DEF IInv

\* The invariant of the engine is inductive.
THEOREM EngineInductive == Spec => []IInv
<1>1. Init => IInv
  <2> SUFFICES ASSUME Init PROVE IInv
    OBVIOUS
  <2>1. attempted \in Seq({}) /\ Len(attempted) = 0
    BY DEF Init
  <2> QED
    BY <2>1, EngineAssumption DEF Init, IInv, BudgetInv, AcceptedCloses, Returned, None
<1>2. IInv /\ [Next]_vars => IInv'
  <2> SUFFICES ASSUME IInv, [Next]_vars PROVE IInv'
    OBVIOUS
  <2>1. CASE Run
    BY <2>1, CallKeeps DEF Run
  <2>2. CASE ValidateCandidate
    BY <2>2, CallKeeps DEF ValidateCandidate
  <2>3. CASE StartBlock
    <3>1. CASE EndBlock("missing_source_state") \/ EndBlock("no_candidate_generated")
      BY <2>3, <3>1, EndBlockKeeps DEF StartBlock
    <3>2. CASE pc' = "try" /\ UNCHANGED <<index, spent, validated, result>>
      BY <2>3, <3>2 DEF StartBlock, IInv, BudgetInv, AcceptedCloses, Returned
    <3> QED
      BY <2>3, <3>1, <3>2 DEF StartBlock
  <2>4. CASE TryCandidate
    BY <2>4, TryKeeps
  <2>5. CASE BudgetExhausted
    BY <2>5, FinishKeeps DEF BudgetExhausted
  <2>6. CASE AllCandidatesRejected
    BY <2>6, EndBlockKeeps DEF AllCandidatesRejected
  <2>7. CASE BlocksExhausted
    BY <2>7, FinishKeeps DEF BlocksExhausted
  <2>8. CASE Raise
    BY <2>8, FinishKeeps DEF Raise
  <2>9. CASE UNCHANGED vars
    BY <2>9 DEF vars, IInv, BudgetInv, AcceptedCloses, Returned, Closed
  <2> QED
    BY <2>1, <2>2, <2>3, <2>4, <2>5, <2>6, <2>7, <2>8, <2>9 DEF Next, Rest
<1> QED
  BY <1>1, <1>2, PTL DEF Spec

\* The candidates executed for all blocks of a chain never exceed max_validations.
THEOREM BudgetRespected == Spec => []BudgetShared
<1>1. IInv => BudgetShared
  BY DEF IInv, BudgetInv, BudgetShared
<1> QED
  BY <1>1, EngineInductive, PTL

\* What run or validate_candidate accepts closed the block it was tried for.
THEOREM AcceptanceSound == Spec => []AcceptedCloses
<1>1. IInv => AcceptedCloses
  BY DEF IInv
<1> QED
  BY <1>1, EngineInductive, PTL

-----------------------------------------------------------------------------
(* Nothing that closed its block is passed over                            *)

\* Of what a call executed, for a task with its entry checkpoint, nothing closed
\* its block but the candidate the call returned with.
FirstInv ==
    /\ task \in Tasks
    /\ \E S : attempted \in Seq(S)
    /\ Informed => \A i \in 1 .. Len(attempted) :
                      Closed(attempted[i]) => Returned("accepted") /\ i = Len(attempted)

\* The contracts are complete where the entry level is known: what closed its block
\* is accepted.
LEMMA ContractComplete ==
    ASSUME NEW t \in Tasks, NEW kind, NEW a \in Answers(t.level) \union {Fails(t.level, "TIMEOUT")},
           NEW e, e.kind = kind, e.answer = a, task = t, t.entry = t.level, Closed(e)
    PROVE  ValidateExecution(kind, t.entry, a) = "passed"
<1>1. t.level \in 0 .. 2
  BY EngineAssumption DEF Task, Level
<1>2. IsSuccess(a)
  BY DEF Closed
<1>3. PICK level \in Level : \E mode \in Mode(level) : a = Succeeds(t.level, level, mode)
  BY <1>2 DEF Answers, Fails, IsSuccess
<1>4. /\ a.level = level /\ a.mode \in Mode(level)
      /\ a.status = (IF t.level > 0 /\ level = 0 THEN "PROOF_COMPLETE" ELSE "SUCCESS")
  BY <1>3 DEF Succeeds
<1>5. level \in 0 .. 2
  BY DEF Level
<1>6. level = 0 => a.mode # "PROOF"
  BY <1>4 DEF Mode
<1>7. ContractHolds(kind, t.entry, a)
  <2>1. CASE kind \in {"TerminalProofStep", "WholeProofBody"}
    BY <2>1, <1>2, <1>4 DEF ContractHolds, Closed
  <2>2. CASE kind = "TheoremShell"
    BY <2>2, <1>4, <1>6 DEF ContractHolds, Closed, ProofIsFinished
  <2>3. CASE kind = "TopLevelCommand"
    BY <2>3, <1>2, <1>4, <1>6 DEF ContractHolds, Closed
  <2> QED
    BY <2>1, <2>2, <2>3 DEF Closed
<1> QED
  BY <1>4, <1>7 DEF ValidateExecution

\* The loops keep it: a candidate that closed its block ends the call.
LEMMA FirstKeeps ==
    ASSUME FirstInv, [Next]_vars
    PROVE  FirstInv'
<1>1. CASE Run \/ ValidateCandidate
  <2>1. attempted' = <<>> /\ task' = task
    BY <1>1 DEF Run, ValidateCandidate, Call
  <2>2. attempted' \in Seq({}) /\ Len(attempted') = 0
    BY <2>1
  <2>3. \A i \in 1 .. Len(attempted') : FALSE
    BY <2>2
  <2> QED
    BY <2>1, <2>2, <2>3 DEF FirstInv
<1>2. CASE TryCandidate
  <2>1. PICK e \in Execute(Head(candidates)) :
            /\ attempted' = Append(attempted, e)
            /\ IF ValidateExecution(e.kind, task.entry, e.answer) = "passed"
               THEN Finish("accepted", "none", Depth)
               ELSE pc' = pc /\ UNCHANGED result
    BY <1>2 DEF TryCandidate
  <2>2. task' = task /\ pc = "try" /\ task \in Tasks
    BY <1>2 DEF TryCandidate, FirstInv
  <2>3. PICK S : attempted \in Seq(S)
    BY DEF FirstInv
  <2> DEFINE T == S \union {e}
  <2>4. attempted \in Seq(T) /\ e \in T
    BY <2>3, SeqMonotonic
  <2>5. /\ attempted' \in Seq(T) /\ Len(attempted') = Len(attempted) + 1
        /\ \A i \in 1 .. Len(attempted) : attempted'[i] = attempted[i]
        /\ attempted'[Len(attempted) + 1] = e
    BY <2>1, <2>4, AppendProperties
  <2>6. Len(attempted) \in Nat
    BY <2>3
  <2>7. \A x : Closed(x)' <=> Closed(x)
    BY <2>2 DEF Closed
  <2>8. ASSUME Informed', NEW i \in 1 .. Len(attempted'), Closed(attempted'[i])
        PROVE  Returned("accepted")' /\ i = Len(attempted')
    <3>1. CASE i \in 1 .. Len(attempted)
      <4>1. Closed(attempted[i]) /\ Informed
        BY <2>2, <2>5, <2>8, <3>1 DEF Informed
      <4> QED
        BY <4>1, <3>1, <2>2 DEF FirstInv, Returned
    <3>2. CASE i \notin 1 .. Len(attempted)
      <4>1. i = Len(attempted') /\ attempted'[i] = e
        BY <2>5, <2>6, <3>2
      <4>2. e.answer \in Answers(task.level) \union {Fails(task.level, "TIMEOUT")}
        BY DEF Execute
      <4>3. Closed(e) /\ task.entry = task.level
        BY <4>1, <2>2, <2>8 DEF Informed
      <4>4. ValidateExecution(e.kind, task.entry, e.answer) = "passed"
        BY <4>2, <4>3, <2>2, ContractComplete
      <4> QED
        BY <4>1, <4>4, <2>1 DEF Finish, Returned
    <3> QED
      BY <3>1, <3>2
  <2>9. \A i \in 1 .. Len(attempted') :
            Informed' /\ Closed(attempted[i])' => Returned("accepted")' /\ i = Len(attempted')
    BY <2>8, <2>7 DEF Closed
  <2> QED
    BY <2>2, <2>5, <2>9 DEF FirstInv
<1>3. CASE StartBlock \/ BudgetExhausted \/ AllCandidatesRejected \/ BlocksExhausted \/ Raise
  <2>1. /\ pc # "idle" /\ UNCHANGED <<task, attempted>>
    BY <1>3 DEF StartBlock, BudgetExhausted, AllCandidatesRejected, BlocksExhausted, Raise
  <2> QED
    BY <2>1 DEF FirstInv, Informed, Closed, Returned
<1>4. CASE UNCHANGED vars
  BY <1>4 DEF vars, FirstInv, Informed, Closed, Returned
<1> QED
  BY <1>1, <1>2, <1>3, <1>4 DEF Next, Rest

\* The invariant of the attempts is inductive.
THEOREM AttemptsInductive == Spec => []FirstInv
<1>1. Init => FirstInv
  <2> SUFFICES ASSUME Init PROVE FirstInv
    OBVIOUS
  <2>1. attempted \in Seq({}) /\ \A i \in 1 .. Len(attempted) : FALSE
    BY DEF Init
  <2> QED
    BY <2>1 DEF Init, FirstInv
<1>2. FirstInv /\ [Next]_vars => FirstInv'
  BY FirstKeeps
<1> QED
  BY <1>1, <1>2, PTL DEF Spec

\* The accepted candidate is the first one that closed its block, in all blocks.
THEOREM FirstClosingIsTaken == Spec => []FirstClosingWins
<1>1. FirstInv => FirstClosingWins
  <2> SUFFICES ASSUME FirstInv, Informed, NEW i \in 1 .. Len(attempted) - 1 PROVE ~ Closed(attempted[i])
    BY DEF FirstClosingWins
  <2>1. Len(attempted) \in Nat
    BY DEF FirstInv
  <2>2. i \in 1 .. Len(attempted) /\ i # Len(attempted)
    BY <2>1
  <2> QED
    BY <2>2 DEF FirstInv
<1> QED
  BY <1>1, AttemptsInductive, PTL

\* A call that fails, escalates or raises executed nothing that closed its block: the
\* part of GivenUpInVain that holds for every call and every set of tasks.
THEOREM NothingOverlooked ==
    Spec => [](Informed /\ ~ Returned("accepted") => \A i \in 1 .. Len(attempted) : ~ Closed(attempted[i]))
<1>1. FirstInv => (Informed /\ ~ Returned("accepted") => \A i \in 1 .. Len(attempted) : ~ Closed(attempted[i]))
  BY DEF FirstInv
<1> QED
  BY <1>1, AttemptsInductive, PTL

-----------------------------------------------------------------------------
(* The depth tells the gate                                                *)

\* What the accepted candidate was tried for, and at which place of the chain.
DepthInv ==
    /\ task \in Tasks
    /\ \E S : attempted \in Seq(S)
    /\ call = "run" => blocks = FallbackCandidates(task)
    /\ pc # "idle" => index \in Nat \ {0}
    /\ pc = "try" => index <= Len(blocks)
    /\ Returned("accepted") =>
          /\ index \in Nat \ {0} /\ index <= Len(blocks)
          /\ Last(attempted).kind = blocks[index].kind
          /\ result.depth = Depth

\* The end of a block that was not accepted.
LEMMA EndBlockDepth ==
    ASSUME DepthInv, pc # "idle", NEW reason, EndBlock(reason),
           UNCHANGED <<task, call, blocks, attempted>>
    PROVE  DepthInv'
<1>1. CASE call = "validate_candidate"
  BY <1>1 DEF DepthInv, EndBlock, Finish, Returned
<1>2. CASE call # "validate_candidate"
  BY <1>2 DEF DepthInv, EndBlock, Returned
<1> QED
  BY <1>1, <1>2

\* Every step of the engine keeps the place of the accepted candidate.
LEMMA DepthKeeps ==
    ASSUME DepthInv, [Next]_vars
    PROVE  DepthInv'
<1>1. CASE Run \/ ValidateCandidate
  <2>1. /\ attempted' = <<>> /\ task' = task /\ index' = 1 /\ pc' = "block"
        /\ call' = "run" => blocks' = FallbackCandidates(task)
    BY <1>1 DEF Run, ValidateCandidate, Call
  <2>2. attempted' \in Seq({})
    BY <2>1
  <2> QED
    BY <2>1, <2>2 DEF DepthInv, Returned
<1>2. CASE StartBlock
  <2>1. pc # "idle" /\ UNCHANGED <<task, call, blocks, attempted>> /\ index <= Len(blocks)
    BY <1>2 DEF StartBlock
  <2>2. CASE EndBlock("missing_source_state") \/ EndBlock("no_candidate_generated")
    BY <2>1, <2>2, EndBlockDepth
  <2>3. CASE pc' = "try" /\ UNCHANGED <<index, spent, validated, result>>
    BY <2>1, <2>3 DEF DepthInv, Returned
  <2> QED
    BY <1>2, <2>2, <2>3 DEF StartBlock
<1>3. CASE TryCandidate
  <2>1. PICK e \in Execute(Head(candidates)) :
            /\ attempted' = Append(attempted, e)
            /\ IF ValidateExecution(e.kind, task.entry, e.answer) = "passed"
               THEN Finish("accepted", "none", Depth)
               ELSE pc' = pc /\ UNCHANGED result
    BY <1>3 DEF TryCandidate
  <2>2. /\ pc = "try" /\ UNCHANGED <<task, call, blocks, index>>
        /\ index \in Nat \ {0} /\ index <= Len(blocks)
    BY <1>3 DEF TryCandidate, DepthInv
  <2>3. (\E S : attempted' \in Seq(S)) /\ Last(attempted') = e
    BY <2>1, AppendAttempt DEF DepthInv
  <2>4. e.kind = blocks[index].kind
    BY DEF Execute
  <2>5. Depth' = Depth
    BY <2>2 DEF Depth
  <2>6. CASE ValidateExecution(e.kind, task.entry, e.answer) = "passed"
    BY <2>1, <2>2, <2>3, <2>4, <2>5, <2>6 DEF DepthInv, Finish, Returned
  <2>7. CASE ValidateExecution(e.kind, task.entry, e.answer) # "passed"
    BY <2>1, <2>2, <2>3, <2>7 DEF DepthInv, Returned
  <2> QED
    BY <2>6, <2>7
<1>4. CASE AllCandidatesRejected
  <2>1. pc # "idle" /\ UNCHANGED <<task, call, blocks, attempted>> /\ EndBlock("all_candidates_rejected")
    BY <1>4 DEF AllCandidatesRejected
  <2> QED
    BY <2>1, EndBlockDepth
<1>5. CASE BudgetExhausted \/ BlocksExhausted \/ Raise
  <2>1. /\ UNCHANGED <<task, call, blocks, attempted>> /\ pc' = "idle"
        /\ result'.outcome \in {"failed", "escalated", "raised"}
    BY <1>5 DEF BudgetExhausted, BlocksExhausted, Raise, Finish
  <2> QED
    BY <2>1 DEF DepthInv, Returned
<1>6. CASE UNCHANGED vars
  BY <1>6 DEF vars, DepthInv, Returned, Depth
<1> QED
  BY <1>1, <1>2, <1>3, <1>4, <1>5, <1>6 DEF Next, Rest

\* The place of the accepted candidate is an invariant of the engine.
THEOREM DepthInductive == Spec => []DepthInv
<1>1. Init => DepthInv
  <2> SUFFICES ASSUME Init PROVE DepthInv
    OBVIOUS
  <2>1. attempted \in Seq({})
    BY DEF Init
  <2> QED
    BY <2>1 DEF Init, DepthInv, Returned, None
<1>2. DepthInv /\ [Next]_vars => DepthInv'
  BY DepthKeeps
<1> QED
  BY <1>1, <1>2, PTL DEF Spec

\* A repair of another block than the localized one has a depth that sends it to
\* review, for every chain that starts with the localized block and every setting
\* of the rule-based gate.
THEOREM FallbacksAreReviewed ==
    ASSUME LocalizedFirst
    PROVE  Spec => []FallbackReviewed
<1>1. DepthInv => FallbackReviewed
  <2> SUFFICES ASSUME DepthInv, Returned("accepted"), call = "run",
                      Last(attempted).kind # task.kind, NEW failure \in FailureKind
               PROVE  Decide([failure |-> failure, artifact |-> "repair",
                              depth |-> IF result.depth > 0 THEN 1 ELSE 0,
                              reason |-> "task_artifact_evaluation"]) = "requires_review"
    BY DEF FallbackReviewed
  <2>1. /\ index \in Nat \ {0} /\ index <= Len(blocks) /\ task \in Tasks
        /\ blocks[index].kind # task.kind /\ result.depth = Depth
        /\ blocks = FallbackCandidates(task)
    BY DEF DepthInv
  <2>2. blocks # <<>>
    <3>1. Len(<<>>) = 0
      OBVIOUS
    <3> QED
      BY <2>1, <3>1
  <2>3. blocks[1].kind = task.kind
    BY <2>1, <2>2 DEF LocalizedFirst
  <2>4. index > 1
    BY <2>1, <2>3
  <2>5. result.depth > 0
    BY <2>1, <2>4 DEF Depth
  <2> QED
    BY <2>5 DEF Decide, IsPlaceholder
<1> QED
  BY <1>1, DepthInductive, PTL

-----------------------------------------------------------------------------
(* Every rule of every block gets its turn                                 *)

\* A tactic was executed for a block of the chain.
TriedFor(j, x) ==
    \E i \in 1 .. Len(attempted) : attempted[i].tactic = x /\ attempted[i].kind = blocks[j].kind
AllTried(j) == \A x : Contains(Rules(blocks[j].kind), x) => TriedFor(j, x)

\* Where run is in the chain, all rules of the blocks before were executed, and those
\* of the current block were or are still to come; what the prover answered is known.
TriedInv ==
    /\ \E S : candidates \in Seq(S)
    /\ call = "run" /\ task.source =>
          /\ pc # "idle" => \A j \in 1 .. Len(blocks) : j < index => AllTried(j)
          /\ pc = "try" => \A x : Contains(Rules(blocks[index].kind), x) =>
                                     TriedFor(index, x) \/ Contains(candidates, x)
          /\ /\ Returned("failed") \/ Returned("escalated")
             /\ result.reason # "validation_budget_exhausted"
             => \A j \in 1 .. Len(blocks) : AllTried(j)
    /\ call = "run" /\ pc = "try" /\ blocks[index].kind \in Supported =>
          \A x : Contains(candidates, x) => Contains(Rules(blocks[index].kind), x)
    /\ \A i \in 1 .. Len(attempted) :
          \/ attempted[i].answer.status = "TIMEOUT"
          \/ [tactic |-> attempted[i].tactic, answer |-> attempted[i].answer] \in answers

\* The rules of a kind, and what is generated for it.
LEMMA RulesOf ==
    ASSUME NEW kind
    PROVE  /\ \A x : ~ Contains(<<>>, x)
           /\ kind \in {"TerminalProofStep", "WholeProofBody"} =>
                 \A x : Contains(Rules(kind), x) <=> x \in {"simp", "auto", "blast"}
           /\ \A x : Contains(Rules(kind), x) => x \in {"simp", "auto", "blast"}
           /\ \A c \in GenerateCandidates(kind) : c \in Seq(Tactic)
           /\ \A c \in GenerateCandidates(kind) : \A x : Contains(Rules(kind), x) => Contains(c, x)
           /\ kind \in Supported => \A c \in GenerateCandidates(kind) : c = Rules(kind)
<1>1. \A x : ~ Contains(<<>>, x)
  BY DEF Contains
<1>2. \A a \in Tactic, b \in Tactic, c \in Tactic :
          /\ <<a, b, c>> \in Seq(Tactic) /\ <<a, b, c>> # <<>>
          /\ \A x : Contains(<<a, b, c>>, x) <=> x \in {a, b, c}
  <2> SUFFICES ASSUME NEW a \in Tactic, NEW b \in Tactic, NEW c \in Tactic
               PROVE  /\ <<a, b, c>> \in Seq(Tactic) /\ <<a, b, c>> # <<>>
                      /\ \A x : Contains(<<a, b, c>>, x) <=> x \in {a, b, c}
    OBVIOUS
  <2>1. /\ <<a, b, c>> \in Seq(Tactic) /\ Len(<<a, b, c>>) = 3
        /\ <<a, b, c>>[1] = a /\ <<a, b, c>>[2] = b /\ <<a, b, c>>[3] = c
    OBVIOUS
  <2>2. 1 .. 3 = {1, 2, 3}
    OBVIOUS
  <2> QED
    BY <2>1, <2>2 DEF Contains
<1>3. \A a \in Tactic, b \in Tactic :
          /\ <<a, b>> \in Seq(Tactic) /\ <<a, b>> # <<>>
          /\ \A x : Contains(<<a, b>>, x) <=> x \in {a, b}
  <2> SUFFICES ASSUME NEW a \in Tactic, NEW b \in Tactic
               PROVE  /\ <<a, b>> \in Seq(Tactic) /\ <<a, b>> # <<>>
                      /\ \A x : Contains(<<a, b>>, x) <=> x \in {a, b}
    OBVIOUS
  <2>1. /\ <<a, b>> \in Seq(Tactic) /\ Len(<<a, b>>) = 2
        /\ <<a, b>>[1] = a /\ <<a, b>>[2] = b
    OBVIOUS
  <2>2. 1 .. 2 = {1, 2}
    OBVIOUS
  <2> QED
    BY <2>1, <2>2 DEF Contains
<1>4. {"simp", "auto", "blast", "sledgehammer"} \subseteq Tactic
  BY DEF Tactic
<1>5. <<>> \in Seq(Tactic) /\ <<"sledgehammer">> \in Seq(Tactic)
  BY <1>4
<1>6. CASE kind = "TerminalProofStep"
  <2>1. Rules(kind) = <<"simp", "auto", "blast">>
    BY <1>6 DEF Rules
  <2>2. /\ Rules(kind) \in Seq(Tactic) /\ Rules(kind) # <<>>
        /\ \A x : Contains(Rules(kind), x) <=> x \in {"simp", "auto", "blast"}
    BY <1>2, <1>4, <2>1
  <2> QED
    BY <1>1, <2>2 DEF GenerateCandidates
<1>7. CASE kind = "WholeProofBody"
  <2>1. Rules(kind) = <<"auto", "blast", "simp">>
    BY <1>7 DEF Rules
  <2>2. /\ Rules(kind) \in Seq(Tactic) /\ Rules(kind) # <<>>
        /\ \A x : Contains(Rules(kind), x) <=> x \in {"simp", "auto", "blast"}
    BY <1>2, <1>4, <2>1
  <2> QED
    BY <1>1, <2>2 DEF GenerateCandidates
<1>8. CASE kind = "TheoremShell"
  <2>1. Rules(kind) = <<"auto", "simp">>
    BY <1>8 DEF Rules
  <2>2. /\ Rules(kind) \in Seq(Tactic) /\ Rules(kind) # <<>>
        /\ \A x : Contains(Rules(kind), x) => x \in {"simp", "auto", "blast"}
    BY <1>3, <1>4, <2>1
  <2> QED
    BY <1>1, <1>8, <2>2 DEF GenerateCandidates
<1>9. CASE kind \notin {"TerminalProofStep", "WholeProofBody", "TheoremShell"}
  <2>1. Rules(kind) = <<>>
    BY <1>9 DEF Rules
  <2>2. kind \in Supported => kind = "TopLevelCommand"
    BY <1>9 DEF Supported, BlockKind
  <2> QED
    BY <1>1, <1>5, <1>9, <2>1, <2>2 DEF GenerateCandidates
<1> QED
  BY <1>6, <1>7, <1>8, <1>9

\* What is in a sequence that is taken from its head.
LEMMA TakeHead ==
    ASSUME NEW S, NEW c \in Seq(S), c # <<>>
    PROVE  /\ Head(c) \in S /\ Tail(c) \in Seq(S) /\ Contains(c, Head(c))
           /\ \A x : Contains(c, x) => x = Head(c) \/ Contains(Tail(c), x)
           /\ \A x : Contains(Tail(c), x) => Contains(c, x)
<1>1. /\ Head(c) \in S /\ Head(c) = c[1] /\ Tail(c) \in Seq(S) /\ Len(Tail(c)) = Len(c) - 1
      /\ \A i \in 1 .. Len(Tail(c)) : Tail(c)[i] = c[i + 1]
  BY HeadTailProperties
<1>2. Len(c) \in Nat /\ Len(c) > 0
  OBVIOUS
<1>3. Contains(c, Head(c))
  BY <1>1, <1>2 DEF Contains
<1>4. ASSUME NEW x, Contains(c, x), x # Head(c) PROVE Contains(Tail(c), x)
  <2>1. PICK i \in 1 .. Len(c) : c[i] = x
    BY <1>4 DEF Contains
  <2>2. i - 1 \in 1 .. Len(Tail(c)) /\ (i - 1) + 1 = i
    BY <2>1, <1>1, <1>2, <1>4
  <2>3. Tail(c)[i - 1] = x
    BY <2>1, <2>2, <1>1
  <2> QED
    BY <2>2, <2>3 DEF Contains
<1>5. ASSUME NEW x, Contains(Tail(c), x) PROVE Contains(c, x)
  <2>1. PICK i \in 1 .. Len(Tail(c)) : Tail(c)[i] = x
    BY <1>5 DEF Contains
  <2>2. i + 1 \in 1 .. Len(c) /\ c[i + 1] = x
    BY <2>1, <1>1, <1>2
  <2> QED
    BY <2>2 DEF Contains
<1> QED
  BY <1>1, <1>3, <1>4, <1>5

\* The end of a block all of whose rules were executed.
LEMMA EndBlockTried ==
    ASSUME DepthInv, TriedInv, pc # "idle", NEW reason, reason # "validation_budget_exhausted",
           EndBlock(reason), UNCHANGED <<task, call, blocks, attempted, answers>>,
           \E S : candidates' \in Seq(S),
           call = "run" /\ task.source => AllTried(index)
    PROVE  TriedInv'
<1>1. CASE call = "validate_candidate"
  BY <1>1 DEF TriedInv, EndBlock, Finish
<1>2. CASE call # "validate_candidate"
  <2>1. index' = index + 1 /\ pc' = "block"
    BY <1>2 DEF EndBlock
  <2>2. ASSUME call = "run", task.source, NEW j \in 1 .. Len(blocks), j < index + 1
        PROVE  AllTried(j)
    <3>1. CASE j = index
      BY <2>2, <3>1
    <3>2. CASE j # index
      <4>1. j < index
        BY <2>2, <3>2 DEF DepthInv
      <4> QED
        BY <2>2, <4>1 DEF TriedInv
    <3> QED
      BY <3>1, <3>2
  <2>3. \A j : AllTried(j)' <=> AllTried(j)
    BY DEF AllTried, TriedFor
  <2> QED
    BY <2>1, <2>2, <2>3 DEF TriedInv, Returned
<1> QED
  BY <1>1, <1>2

\* Every step keeps the account of what was tried.
LEMMA TriedKeeps ==
    ASSUME DepthInv, TriedInv, [Next]_vars
    PROVE  TriedInv'
<1>1. CASE Run \/ ValidateCandidate
  <2>1. /\ attempted' = <<>> /\ index' = 1 /\ pc' = "block" /\ candidates' = candidates
    BY <1>1 DEF Run, ValidateCandidate, Call
  <2>2. \A i \in 1 .. Len(attempted') : FALSE
    BY <2>1
  <2>3. \A j \in 1 .. Len(blocks') : ~ (j < index')
    BY <2>1
  <2> QED
    BY <2>1, <2>2, <2>3 DEF TriedInv, Returned
<1>2. CASE StartBlock
  <2>1. pc = "block" /\ UNCHANGED <<task, call, blocks, attempted, answers>>
    BY <1>2 DEF StartBlock
  <2>2. CASE ~ task.source
    <3>1. candidates' = <<>> /\ EndBlock("missing_source_state")
      BY <1>2, <2>2 DEF StartBlock
    <3>2. candidates' \in Seq({})
      BY <3>1
    <3> QED
      BY <2>1, <2>2, <3>1, <3>2, EndBlockTried
  <2>3. CASE task.source
    <3>1. PICK c \in IF call = "run" THEN GenerateCandidates(blocks[index].kind)
                                     ELSE {<<"replacement">>} :
              /\ candidates' = c
              /\ IF c = <<>>
                 THEN EndBlock("no_candidate_generated")
                 ELSE pc' = "try" /\ UNCHANGED <<index, spent, validated, result>>
      BY <1>2, <2>3 DEF StartBlock
    <3>2. c \in Seq(Tactic)
      <4>1. <<"replacement">> \in Seq(Tactic)
        BY DEF Tactic
      <4> QED
        BY <3>1, <4>1, RulesOf
    <3>3. call = "run" => \A x : Contains(Rules(blocks[index].kind), x) => Contains(c, x)
      BY <3>1, RulesOf
    <3>4. call = "run" /\ blocks[index].kind \in Supported =>
              \A x : Contains(c, x) => Contains(Rules(blocks[index].kind), x)
      BY <3>1, RulesOf
    <3>5. CASE c = <<>>
      <4>1. call = "run" => AllTried(index)
        BY <3>3, <3>5, RulesOf DEF AllTried
      <4> QED
        BY <2>1, <3>1, <3>2, <3>5, <4>1, EndBlockTried
    <3>6. CASE c # <<>>
      <4>1. \A j, x : TriedFor(j, x)' <=> TriedFor(j, x)
        BY <2>1 DEF TriedFor
      <4>2. \A j : AllTried(j)' <=> AllTried(j)
        BY <2>1 DEF AllTried, TriedFor
      <4>3. pc' = "try" /\ index' = index /\ candidates' = c
        BY <3>1, <3>6
      <4> QED
        BY <2>1, <3>2, <3>3, <3>4, <4>2, <4>3 DEF TriedInv, Returned
    <3> QED
      BY <3>5, <3>6
  <2> QED
    BY <2>2, <2>3
<1>3. CASE TryCandidate
  <2>1. PICK e \in Execute(Head(candidates)) :
            /\ attempted' = Append(attempted, e)
            /\ answers' = IF e.answer.status = "TIMEOUT" THEN answers
                          ELSE answers \union {[tactic |-> e.tactic, answer |-> e.answer]}
            /\ IF ValidateExecution(e.kind, task.entry, e.answer) = "passed"
               THEN Finish("accepted", "none", Depth)
               ELSE pc' = pc /\ UNCHANGED result
    BY <1>3 DEF TryCandidate
  <2>2. /\ pc = "try" /\ UNCHANGED <<task, call, blocks, index>> /\ candidates # <<>>
        /\ candidates' = Tail(candidates)
        /\ e.tactic = Head(candidates) /\ e.kind = blocks[index].kind
    BY <1>3 DEF TryCandidate, Execute
  <2>3. PICK S : candidates \in Seq(S)
    BY DEF TriedInv
  <2>4. /\ candidates' \in Seq(S)
        /\ \A x : Contains(candidates, x) => x = e.tactic \/ Contains(candidates', x)
        /\ \A x : Contains(candidates', x) => Contains(candidates, x)
    BY <2>2, <2>3, TakeHead
  <2>5. PICK T : attempted \in Seq(T) /\ e \in T
    <3>1. PICK U : attempted \in Seq(U)
      BY DEF DepthInv
    <3>2. attempted \in Seq(U \union {e}) /\ e \in U \union {e}
      BY <3>1, SeqMonotonic
    <3> QED
      BY <3>2
  <2>6. /\ Len(attempted) \in Nat /\ Len(attempted') = Len(attempted) + 1
        /\ \A i \in 1 .. Len(attempted) : attempted'[i] = attempted[i]
        /\ attempted'[Len(attempted) + 1] = e
    BY <2>1, <2>5, AppendProperties
  <2>7. \A j, x : TriedFor(j, x) => TriedFor(j, x)'
    BY <2>2, <2>6 DEF TriedFor
  <2>8. TriedFor(index, e.tactic)'
    <3>1. Len(attempted) + 1 \in 1 .. Len(attempted')
      BY <2>6
    <3> QED
      BY <2>2, <2>6, <3>1 DEF TriedFor
  <2>9. \A j : AllTried(j) => AllTried(j)'
    BY <2>2, <2>7 DEF AllTried
  <2>10. pc' = "try" \/ (pc' = "idle" /\ result'.outcome = "accepted")
    BY <2>1, <2>2 DEF Finish
  <2>11. \A i \in 1 .. Len(attempted') :
            \/ attempted'[i].answer.status = "TIMEOUT"
            \/ [tactic |-> attempted'[i].tactic, answer |-> attempted'[i].answer] \in answers'
    <3> SUFFICES ASSUME NEW i \in 1 .. Len(attempted')
                 PROVE  \/ attempted'[i].answer.status = "TIMEOUT"
                        \/ [tactic |-> attempted'[i].tactic, answer |-> attempted'[i].answer] \in answers'
      OBVIOUS
    <3>1. CASE i \in 1 .. Len(attempted)
      BY <3>1, <2>1, <2>6 DEF TriedInv
    <3>2. CASE i \notin 1 .. Len(attempted)
      <4>1. attempted'[i] = e
        BY <3>2, <2>6
      <4> QED
        BY <4>1, <2>1
    <3> QED
      BY <3>1, <3>2
  <2>12. call = "run" /\ task.source =>
            \A x : Contains(Rules(blocks[index].kind), x) =>
                      TriedFor(index, x)' \/ Contains(candidates', x)
    BY <2>2, <2>4, <2>7, <2>8 DEF TriedInv
  <2>13. call = "run" /\ task.source => \A j \in 1 .. Len(blocks) : j < index => AllTried(j)'
    BY <2>2, <2>9 DEF TriedInv
  <2>14. call = "run" /\ blocks[index].kind \in Supported =>
            \A x : Contains(candidates', x) => Contains(Rules(blocks[index].kind), x)
    BY <2>2, <2>4 DEF TriedInv
  <2>15. (pc = "try" => \A x : Contains(Rules(blocks[index].kind), x) =>
                                    TriedFor(index, x) \/ Contains(candidates, x))'
         <=> (pc' = "try" => \A x : Contains(Rules(blocks[index].kind), x) =>
                                       TriedFor(index, x)' \/ Contains(candidates', x))
    BY <2>2 DEF TriedFor
  <2> QED
    BY <2>2, <2>4, <2>10, <2>11, <2>12, <2>13, <2>14, <2>15 DEF TriedInv, Returned
<1>4. CASE AllCandidatesRejected
  <2>1. /\ pc = "try" /\ candidates = <<>> /\ EndBlock("all_candidates_rejected")
        /\ UNCHANGED <<task, call, blocks, candidates, attempted, answers>>
    BY <1>4 DEF AllCandidatesRejected
  <2>2. call = "run" /\ task.source => AllTried(index)
    BY <2>1, RulesOf DEF TriedInv, AllTried
  <2>3. \E S : candidates' \in Seq(S)
    BY <2>1 DEF TriedInv
  <2> QED
    BY <2>1, <2>2, <2>3, EndBlockTried
<1>5. CASE BlocksExhausted
  <2>1. /\ pc = "block" /\ index > Len(blocks) /\ pc' = "idle"
        /\ UNCHANGED <<task, call, blocks, index, candidates, attempted, answers>>
    BY <1>5 DEF BlocksExhausted, Finish
  <2>2. \A j : AllTried(j)' <=> AllTried(j)
    BY <2>1 DEF AllTried, TriedFor
  <2>3. \A j \in 1 .. Len(blocks) : j < index
    BY <2>1 DEF DepthInv
  <2> QED
    BY <2>1, <2>2, <2>3 DEF TriedInv
<1>6. CASE BudgetExhausted \/ Raise
  <2>1. /\ pc' = "idle" /\ UNCHANGED <<task, call, blocks, index, candidates, attempted, answers>>
        /\ \/ result'.reason = "validation_budget_exhausted"
           \/ result'.outcome = "raised"
    BY <1>6 DEF BudgetExhausted, Raise, Finish
  <2> QED
    BY <2>1 DEF TriedInv, Returned
<1>7. CASE UNCHANGED vars
  <2>1. \A j : AllTried(j)' <=> AllTried(j)
    BY <1>7 DEF AllTried, TriedFor, vars
  <2>2. \A x : TriedFor(index, x)' <=> TriedFor(index, x)
    BY <1>7 DEF TriedFor, vars
  <2> QED
    BY <1>7, <2>1, <2>2 DEF vars, TriedInv, Returned
<1> QED
  BY <1>1, <1>2, <1>3, <1>4, <1>5, <1>6, <1>7 DEF Next, Rest

\* The chain is gone through in order, every rule of every block.
THEOREM ChainInductive == Spec => []TriedInv
<1>1. Init => TriedInv
  <2> SUFFICES ASSUME Init
               PROVE  TriedInv
    OBVIOUS
  <2>1. candidates \in Seq({}) /\ Len(attempted) = 0
    BY DEF Init
  <2> QED
    BY <2>1 DEF Init, TriedInv
<1>2. DepthInv /\ TriedInv /\ [Next]_vars => TriedInv'
  BY TriedKeeps
<1> QED
  BY <1>1, <1>2, DepthInductive, PTL DEF Spec

\* A call that ended for its budget has spent it, and is a failure.
SpentInv ==
    result.reason = "validation_budget_exhausted" =>
        pc = "idle" /\ result.outcome = "failed" /\ Len(attempted) = MaxValidations

\* What GivenUpInVain says, but for the order of the attempts: a task is given up
\* after every rule of every block of its chain was executed, none of which closed
\* its block, or with the budget spent to the last validation.
AllRulesInVain ==
    call = "run" /\ (Returned("failed") \/ Returned("escalated")) =>
        /\ Informed => \A i \in 1 .. Len(attempted) : ~ Closed(attempted[i])
        /\ IF result.reason = "validation_budget_exhausted"
           THEN Returned("failed") /\ Len(attempted) = MaxValidations
           ELSE task.source => \A j \in 1 .. Len(blocks) : AllTried(j)

\* Every step keeps the account of the spent budget.
LEMMA SpentKeeps ==
    ASSUME IInv, SpentInv, [Next]_vars
    PROVE  SpentInv'
<1>1. CASE Run \/ ValidateCandidate
  BY <1>1 DEF Run, ValidateCandidate, Call, None, SpentInv
<1>2. CASE StartBlock
  <2>1. /\ pc = "block"
        /\ \/ result' = result
           \/ EndBlock("missing_source_state") \/ EndBlock("no_candidate_generated")
    BY <1>2 DEF StartBlock
  <2> QED
    BY <2>1 DEF EndBlock, Finish, SpentInv
<1>3. CASE TryCandidate
  <2>1. /\ pc = "try"
        /\ result'.reason = "none" \/ result' = result
    BY <1>3 DEF TryCandidate, Finish
  <2> QED
    BY <2>1 DEF SpentInv
<1>4. CASE BudgetExhausted
  <2>1. /\ validated >= Remaining /\ attempted' = attempted
        /\ pc' = "idle" /\ result'.outcome = "failed"
    BY <1>4 DEF BudgetExhausted, Finish
  <2>2. Len(attempted) = MaxValidations
    BY <2>1, EngineAssumption DEF IInv, BudgetInv, Remaining
  <2> QED
    BY <2>1, <2>2 DEF SpentInv
<1>5. CASE AllCandidatesRejected
  BY <1>5 DEF AllCandidatesRejected, EndBlock, Finish, SpentInv
<1>6. CASE BlocksExhausted \/ Raise
  BY <1>6 DEF BlocksExhausted, Raise, Finish, SpentInv
<1>7. CASE UNCHANGED vars
  BY <1>7 DEF vars, SpentInv
<1> QED
  BY <1>1, <1>2, <1>3, <1>4, <1>5, <1>6, <1>7 DEF Next, Rest

\* run gives a task up only in vain: for every chain, however it was built, and
\* every budget.
THEOREM GivenUpAfterAllRules == Spec => []AllRulesInVain
<1>1. Init => SpentInv
  BY DEF Init, SpentInv, None
<1>2. IInv /\ SpentInv /\ [Next]_vars => SpentInv'
  BY SpentKeeps
<1>3. FirstInv /\ TriedInv /\ SpentInv => AllRulesInVain
  <2> SUFFICES ASSUME FirstInv, TriedInv, SpentInv, call = "run",
                      Returned("failed") \/ Returned("escalated")
               PROVE  AllRulesInVain
    BY DEF AllRulesInVain
  <2>1. Informed => \A i \in 1 .. Len(attempted) : ~ Closed(attempted[i])
    BY DEF FirstInv, Returned
  <2>2. result.reason = "validation_budget_exhausted" =>
            Returned("failed") /\ Len(attempted) = MaxValidations
    BY DEF SpentInv, Returned
  <2>3. result.reason # "validation_budget_exhausted" /\ task.source =>
            \A j \in 1 .. Len(blocks) : AllTried(j)
    BY DEF TriedInv
  <2> QED
    BY <2>1, <2>2, <2>3 DEF AllRulesInVain
<1> QED
  BY <1>1, <1>2, <1>3, EngineInductive, AttemptsInductive, ChainInductive, PTL DEF Spec

-----------------------------------------------------------------------------
(* A fallback is accepted only after a timeout                             *)

\* The rules of a block before the accepted one were executed before.
TriedBefore(j) ==
    \A x : Contains(Rules(blocks[j].kind), x) =>
       \E i \in 1 .. Len(attempted) - 1 :
          attempted[i].tactic = x /\ attempted[i].kind = blocks[j].kind

\* The prover does not contradict itself, and what was accepted came after the rules
\* of all blocks before its own.
AcceptedInv ==
    /\ \A k \in answers, l \in answers : k.tactic = l.tactic => k.answer = l.answer
    /\ pc = "try" => task.source
    /\ call = "run" /\ Returned("accepted") =>
          /\ \A j \in 1 .. Len(blocks) : j < index => TriedBefore(j)
          /\ blocks[index].kind \in Supported =>
                Contains(Rules(blocks[index].kind), Last(attempted).tactic)

\* The step that executes a candidate.
LEMMA TryAccepts ==
    ASSUME DepthInv, TriedInv, AcceptedInv, TryCandidate
    PROVE  AcceptedInv'
<1>1. PICK e \in Execute(Head(candidates)) :
          /\ attempted' = Append(attempted, e)
          /\ answers' = IF e.answer.status = "TIMEOUT" THEN answers
                        ELSE answers \union {[tactic |-> e.tactic, answer |-> e.answer]}
          /\ IF ValidateExecution(e.kind, task.entry, e.answer) = "passed"
             THEN Finish("accepted", "none", Depth)
             ELSE pc' = pc /\ UNCHANGED result
  BY DEF TryCandidate
<1>2. /\ pc = "try" /\ UNCHANGED <<task, call, blocks, index>> /\ candidates # <<>>
      /\ e.tactic = Head(candidates)
  BY DEF TryCandidate, Execute
<1>3. \A known \in answers :
          e.answer.status # "TIMEOUT" /\ known.tactic = e.tactic => known.answer = e.answer
  BY DEF Execute, Fails
<1>4. \A k \in answers', l \in answers' : k.tactic = l.tactic => k.answer = l.answer
  <2>1. CASE e.answer.status = "TIMEOUT"
    BY <1>1, <2>1 DEF AcceptedInv
  <2>2. CASE e.answer.status # "TIMEOUT"
    BY <1>1, <1>3, <2>2 DEF AcceptedInv
  <2> QED
    BY <2>1, <2>2
<1>5. pc' = "try" => task'.source
  BY <1>2 DEF AcceptedInv
<1>6. /\ Len(attempted) \in Nat /\ Len(attempted') = Len(attempted) + 1
      /\ \A i \in 1 .. Len(attempted) : attempted'[i] = attempted[i]
      /\ Last(attempted') = e
  <2>1. PICK T : attempted \in Seq(T) /\ e \in T
    <3>1. PICK U : attempted \in Seq(U)
      BY DEF DepthInv
    <3>2. attempted \in Seq(U \union {e}) /\ e \in U \union {e}
      BY <3>1, SeqMonotonic
    <3> QED
      BY <3>2
  <2> QED
    BY <1>1, <2>1, AppendProperties, AppendAttempt
<1>7. ASSUME call = "run", NEW j \in 1 .. Len(blocks), j < index
      PROVE  TriedBefore(j)'
  <2>1. AllTried(j)
    BY <1>2, <1>7 DEF TriedInv, AcceptedInv
  <2>2. 1 .. Len(attempted') - 1 = 1 .. Len(attempted)
    BY <1>6
  <2> QED
    BY <1>2, <1>6, <2>1, <2>2 DEF AllTried, TriedFor, TriedBefore
<1>8. call = "run" /\ blocks[index].kind \in Supported =>
          Contains(Rules(blocks[index].kind), e.tactic)
  <2>1. PICK S : candidates \in Seq(S)
    BY DEF TriedInv
  <2>2. Contains(candidates, Head(candidates))
    BY <1>2, <2>1 DEF Contains
  <2> QED
    BY <1>2, <2>2 DEF TriedInv
<1> QED
  BY <1>2, <1>4, <1>5, <1>6, <1>7, <1>8 DEF AcceptedInv

\* Every step keeps what is known of the accepted candidate.
LEMMA AcceptedKeeps ==
    ASSUME DepthInv, TriedInv, AcceptedInv, [Next]_vars
    PROVE  AcceptedInv'
<1>1. CASE Run \/ ValidateCandidate
  <2>1. answers' = answers /\ pc' = "block"
    BY <1>1 DEF Run, ValidateCandidate, Call
  <2> QED
    BY <2>1 DEF AcceptedInv, Returned
<1>2. CASE StartBlock
  <2>1. /\ UNCHANGED <<task, answers>> /\ pc = "block"
        /\ \/ pc' = "try" /\ task.source
           \/ \E reason : EndBlock(reason)
    BY <1>2 DEF StartBlock
  <2> QED
    BY <2>1 DEF AcceptedInv, EndBlock, Finish, Returned
<1>3. CASE TryCandidate
  BY <1>3, TryAccepts
<1>4. CASE AllCandidatesRejected
  BY <1>4 DEF AllCandidatesRejected, AcceptedInv, EndBlock, Finish, Returned
<1>5. CASE BlocksExhausted \/ BudgetExhausted \/ Raise
  <2>1. /\ answers' = answers /\ pc' = "idle" /\ result'.outcome # "accepted"
    BY <1>5 DEF BlocksExhausted, BudgetExhausted, Raise, Finish
  <2> QED
    BY <2>1 DEF AcceptedInv, Returned
<1>6. CASE UNCHANGED vars
  <2>1. \A j : TriedBefore(j)' <=> TriedBefore(j)
    BY <1>6 DEF vars, TriedBefore
  <2> QED
    BY <1>6, <2>1 DEF vars, AcceptedInv, Returned
<1> QED
  BY <1>1, <1>2, <1>3, <1>4, <1>5, <1>6 DEF Next, Rest

\* What was accepted comes after the rules of the blocks before.
THEOREM AcceptedInductive == Spec => []AcceptedInv
<1>1. Init => AcceptedInv
  BY DEF Init, AcceptedInv, Returned, None
<1>2. DepthInv /\ TriedInv /\ AcceptedInv /\ [Next]_vars => AcceptedInv'
  BY AcceptedKeeps
<1> QED
  BY <1>1, <1>2, DepthInductive, ChainInductive, PTL DEF Spec

\* A fallback is accepted only where the same tactic timed out earlier in the call:
\* for every budget, and every chain of blocks that starts with a proof.
THEOREM FallbacksNeedTimeouts ==
    ASSUME ProofChain
    PROVE  Spec => []FallbackNeedsTimeout
<1>1. /\ IInv /\ FirstInv /\ DepthInv /\ TriedInv /\ AcceptedInv
      => FallbackNeedsTimeout
  <2> SUFFICES ASSUME IInv, FirstInv, DepthInv, TriedInv, AcceptedInv,
                      Returned("accepted"), Informed, call = "run", result.depth > 0
               PROVE  \E i \in 1 .. Len(attempted) - 1 :
                         /\ attempted[i].tactic = Last(attempted).tactic
                         /\ attempted[i].answer.status = "TIMEOUT"
    BY DEF FallbackNeedsTimeout
  <2> DEFINE last == Last(attempted)
  <2>1. /\ index \in Nat \ {0} /\ index <= Len(blocks) /\ task \in Tasks
        /\ last.kind = blocks[index].kind /\ result.depth = Depth
        /\ blocks = FallbackCandidates(task)
    BY DEF DepthInv
  <2>2. index > 1
    BY <2>1 DEF Depth
  <2>3. index \in 2 .. Len(FallbackCandidates(task)) /\ 1 \in 1 .. Len(blocks)
    BY <2>1, <2>2
  <2>4. /\ blocks[1].kind \in {"TerminalProofStep", "WholeProofBody"}
        /\ blocks[index].kind \in Supported
    BY <2>1, <2>3 DEF ProofChain
  <2>5. Contains(Rules(blocks[index].kind), last.tactic)
    BY <2>4 DEF AcceptedInv
  <2>6. Contains(Rules(blocks[1].kind), last.tactic)
    BY <2>4, <2>5, RulesOf
  <2>7. TriedBefore(1)
    BY <2>2, <2>3 DEF AcceptedInv
  <2>8. PICK i \in 1 .. Len(attempted) - 1 :
            attempted[i].tactic = last.tactic /\ attempted[i].kind = blocks[1].kind
    BY <2>6, <2>7 DEF TriedBefore
  <2>9. Closed(last)
    BY DEF IInv, AcceptedCloses
  <2>10. Len(attempted) \in Nat /\ i \in 1 .. Len(attempted) /\ i # Len(attempted)
         /\ Len(attempted) \in 1 .. Len(attempted) /\ last = attempted[Len(attempted)]
    <3>1. PICK S : attempted \in Seq(S)
      BY DEF FirstInv
    <3> QED
      BY <2>8, <3>1 DEF Last
  <2>11. ~ Closed(attempted[i])
    BY <2>10 DEF FirstInv
  <2>12. ASSUME attempted[i].answer.status # "TIMEOUT"
         PROVE  FALSE
    <3>1. [tactic |-> attempted[i].tactic, answer |-> attempted[i].answer] \in answers
      BY <2>10, <2>12 DEF TriedInv
    <3>2. last.answer.status # "TIMEOUT"
      BY <2>9 DEF Closed, IsSuccess
    <3>3. [tactic |-> last.tactic, answer |-> last.answer] \in answers
      BY <2>10, <3>2 DEF TriedInv
    <3>4. attempted[i].answer = last.answer
      BY <2>8, <3>1, <3>3 DEF AcceptedInv
    <3>5. blocks[index].kind # "TopLevelCommand"
      BY <2>5, RulesOf DEF Rules
    <3>6. task.level \in 0 .. 2
      BY <2>1, EngineAssumption DEF Task, Level
    <3>7. IsSuccess(last.answer) /\ last.answer.level < task.level
      BY <2>1, <2>4, <2>9, <3>5, <3>6 DEF Closed, Supported, BlockKind
    <3> QED
      BY <2>4, <2>8, <2>11, <3>4, <3>7 DEF Closed
  <2> QED
    BY <2>8, <2>12
<1> QED
  BY <1>1, EngineInductive, AttemptsInductive, DepthInductive, ChainInductive,
     AcceptedInductive, PTL

-----------------------------------------------------------------------------
(* Type correctness                                                        *)

\* _fallback_candidates lists block candidates, structured or of the older chain.
LEMMA ChainTyped ==
    ASSUME NEW t \in Tasks
    PROVE  FallbackCandidates(t) \in Seq(BlockCandidate)
<1>1. t.structured \in Seq(BlockCandidate) /\ t.chain \in Seq(BlockKind) /\ t.kind \in BlockKind
  BY EngineAssumption DEF Task
<1>2. CASE t.structured # <<>>
  BY <1>1, <1>2 DEF FallbackCandidates
<1>3. CASE t.structured = <<>>
  <2> DEFINE chain == IF t.chain = <<>> THEN <<t.kind>> ELSE t.chain
             S == {i \in 1 .. Len(chain) : chain[i] \in Supported}
             supported == Ascending(S)
             c == [k \in DOMAIN supported |->
                     [kind |-> chain[supported[k]],
                      origin |-> IF supported[k] = 1 THEN "primary" ELSE "fallback"]]
  <2>1. FallbackCandidates(t) = c
    BY <1>3, Zenon DEF FallbackCandidates
  <2>2. chain \in Seq(BlockKind)
    BY <1>1
  <2> HIDE DEF chain
  <2>3. IsFiniteSet(S) /\ S \subseteq Nat
    <3>1. IsFiniteSet(1 .. Len(chain)) /\ S \in SUBSET (1 .. Len(chain)) /\ Len(chain) \in Nat
      BY <2>2, FS_Interval
    <3> QED
      BY <3>1, FS_Subset
  <2>4. supported \in Seq(S)
    BY <2>3, AscendingLists DEF Lists
  <2> HIDE DEF supported
  <2>5. DOMAIN supported = 1 .. Len(supported) /\ Len(supported) \in Nat
        /\ \A k \in DOMAIN supported : supported[k] \in S
    BY <2>4
  <2>6. \A k \in DOMAIN supported : chain[supported[k]] \in BlockKind
    BY <2>2, <2>5
  <2>7. \A k \in DOMAIN supported :
           [kind |-> chain[supported[k]],
            origin |-> IF supported[k] = 1 THEN "primary" ELSE "fallback"] \in BlockCandidate
    BY <2>6 DEF BlockCandidate
  <2>8. c \in Seq(BlockCandidate)
    BY <2>5, <2>7
  <2> QED
    BY <2>1, <2>8
<1> QED
  BY <1>2, <1>3

\* TypeOK, with where the loop over the blocks is.
TypedInv ==
    /\ TypeOK
    /\ pc # "idle" => index # 0
    /\ pc = "try" => index <= Len(blocks)

\* What is executed, and what is answered.
LEMMA ExecuteTyped ==
    ASSUME TypedInv, pc = "try", NEW x \in Tactic, NEW e \in Execute(x)
    PROVE  /\ e \in [tactic : Tactic, kind : BlockKind, answer : Answer]
           /\ [tactic |-> e.tactic, answer |-> e.answer] \in [tactic : Tactic, answer : Answer]
<1>1. task.level \in Level
  BY EngineAssumption DEF TypedInv, TypeOK, Task
<1>2. /\ blocks \in Seq(BlockCandidate) /\ index \in 0 .. Len(blocks) + 1
      /\ index # 0 /\ index <= Len(blocks)
  BY DEF TypedInv, TypeOK
<1>3. blocks[index] \in BlockCandidate
  BY <1>2
<1>4. Fails(task.level, "TIMEOUT") \in Answer /\ Fails(task.level, "ERROR") \in Answer
  BY <1>1 DEF Fails, Answer
<1>5. \A level \in Level : \A mode \in Mode(level) : Succeeds(task.level, level, mode) \in Answer
  BY DEF Mode, Succeeds, Answer
<1>6. Answers(task.level) \subseteq Answer
  BY <1>4, <1>5 DEF Answers
<1>7. PICK a \in Answer : e = [tactic |-> x, kind |-> blocks[index].kind, answer |-> a]
  BY <1>4, <1>6 DEF Execute
<1> QED
  BY <1>3, <1>7 DEF BlockCandidate

\* The end of a block.
LEMMA EndBlockTyped ==
    ASSUME TypedInv, pc # "idle", index <= Len(blocks), NEW reason, EndBlock(reason),
           candidates' \in Seq(Tactic),
           UNCHANGED <<task, call, blocks, attempted, answers, reviews>>
    PROVE  TypedInv'
<1>1. /\ blocks \in Seq(BlockCandidate) /\ index \in 0 .. Len(blocks) + 1 /\ index # 0
      /\ Len(blocks) \in Nat /\ spent \in Nat /\ validated \in Nat
  BY DEF TypedInv, TypeOK
<1>2. CASE call = "validate_candidate"
  <2>1. /\ result' = [outcome |-> "failed", reason |-> reason, depth |-> 0] /\ pc' = "idle"
        /\ UNCHANGED <<index, spent, validated>>
    BY <1>2 DEF EndBlock, Finish
  <2>2. result'.outcome = "failed" /\ result'.depth = 0
    BY <2>1
  <2> QED
    BY <2>1, <2>2 DEF TypedInv, TypeOK
<1>3. CASE call # "validate_candidate"
  <2>1. /\ index' = index + 1 /\ spent' = spent + validated /\ validated' = 0
        /\ pc' = "block" /\ result' = result
    BY <1>3 DEF EndBlock
  <2>2. index' \in 0 .. Len(blocks) + 1 /\ index' # 0 /\ spent' \in Nat /\ validated' \in Nat
    BY <1>1, <2>1
  <2> QED
    BY <2>1, <2>2 DEF TypedInv, TypeOK
<1> QED
  BY <1>2, <1>3

\* Every step is typed.
LEMMA TypedKeeps ==
    ASSUME TypedInv, [Next]_vars
    PROVE  TypedInv'
<1>1. CASE Run \/ ValidateCandidate
  <2>1. /\ UNCHANGED <<task, candidates, answers>> /\ index' = 1 /\ spent' = 0 /\ validated' = 0
        /\ attempted' = <<>> /\ result' = None /\ pc' = "block"
        /\ call' \in {"run", "validate_candidate"}
        /\ \/ blocks' = FallbackCandidates(task) /\ reviews' = reviews
           \/ /\ blocks' = <<[kind |-> task.kind, origin |-> "primary"]>>
              /\ reviews < MaxReviews /\ reviews' = reviews + 1
    BY <1>1 DEF Run, ValidateCandidate, Call
  <2>2. task \in Tasks /\ task.kind \in BlockKind
    BY EngineAssumption DEF TypedInv, TypeOK, Task
  <2>3. [kind |-> task.kind, origin |-> "primary"] \in BlockCandidate
    BY <2>2 DEF BlockCandidate
  <2>4. blocks' \in Seq(BlockCandidate)
    <3>1. \A c \in BlockCandidate : <<c>> \in Seq(BlockCandidate)
      OBVIOUS
    <3>2. FallbackCandidates(task) \in Seq(BlockCandidate)
      BY <2>2, ChainTyped
    <3>3. <<[kind |-> task.kind, origin |-> "primary"]>> \in Seq(BlockCandidate)
      BY <2>3, <3>1
    <3> QED
      BY <2>1, <3>2, <3>3
  <2>5. reviews' \in 0 .. MaxReviews
    BY <2>1, EngineAssumption DEF TypedInv, TypeOK
  <2>6. index' \in 0 .. Len(blocks') + 1 /\ spent' \in Nat /\ validated' \in Nat
    BY <2>1, <2>4
  <2>7. result'.outcome = "none" /\ result'.depth = 0
    BY <2>1 DEF None
  <2>8. attempted' \in Seq([tactic : Tactic, kind : BlockKind, answer : Answer])
    BY <2>1
  <2> QED
    BY <2>1, <2>4, <2>5, <2>6, <2>7, <2>8 DEF TypedInv, TypeOK
<1>2. CASE StartBlock
  <2>1. /\ pc = "block" /\ index <= Len(blocks)
        /\ UNCHANGED <<task, call, blocks, attempted, answers, reviews>>
        /\ \/ candidates' = <<>> /\ EndBlock("missing_source_state")
           \/ \E c \in IF call = "run" THEN GenerateCandidates(blocks[index].kind)
                                       ELSE {<<"replacement">>} :
                 /\ candidates' = c
                 /\ IF c = <<>>
                    THEN EndBlock("no_candidate_generated")
                    ELSE pc' = "try" /\ UNCHANGED <<index, spent, validated, result>>
    BY <1>2 DEF StartBlock
  <2>2. <<"replacement">> \in Seq(Tactic)
    BY DEF Tactic
  <2>3. candidates' \in Seq(Tactic)
    <3>1. \A c \in GenerateCandidates(blocks[index].kind) : c \in Seq(Tactic)
      BY RulesOf
    <3>2. <<>> \in Seq(Tactic)
      OBVIOUS
    <3> QED
      BY <2>1, <2>2, <3>1, <3>2, Zenon
  <2>4. CASE \E reason : EndBlock(reason)
    BY <2>1, <2>3, <2>4, EndBlockTyped
  <2>5. CASE pc' = "try" /\ UNCHANGED <<index, spent, validated, result>>
    BY <2>1, <2>3, <2>5 DEF TypedInv, TypeOK
  <2> QED
    BY <2>1, <2>4, <2>5
<1>3. CASE TryCandidate
  <2>1. PICK e \in Execute(Head(candidates)) :
            /\ attempted' = Append(attempted, e)
            /\ answers' = IF e.answer.status = "TIMEOUT" THEN answers
                          ELSE answers \union {[tactic |-> e.tactic, answer |-> e.answer]}
            /\ IF ValidateExecution(e.kind, task.entry, e.answer) = "passed"
               THEN Finish("accepted", "none", Depth)
               ELSE pc' = pc /\ UNCHANGED result
    BY <1>3 DEF TryCandidate
  <2>2. /\ pc = "try" /\ candidates # <<>> /\ candidates' = Tail(candidates)
        /\ validated' = validated + 1 /\ UNCHANGED <<task, call, blocks, index, spent, reviews>>
    BY <1>3 DEF TryCandidate
  <2>3. candidates \in Seq(Tactic)
    BY DEF TypedInv, TypeOK
  <2>4. Head(candidates) \in Tactic /\ candidates' \in Seq(Tactic)
    BY <2>2, <2>3
  <2>5. /\ e \in [tactic : Tactic, kind : BlockKind, answer : Answer]
        /\ [tactic |-> e.tactic, answer |-> e.answer] \in [tactic : Tactic, answer : Answer]
    BY <2>2, <2>4, ExecuteTyped
  <2>6. attempted' \in Seq([tactic : Tactic, kind : BlockKind, answer : Answer])
    <3>1. attempted \in Seq([tactic : Tactic, kind : BlockKind, answer : Answer])
      BY DEF TypedInv, TypeOK
    <3> QED
      BY <2>1, <2>5, <3>1, AppendProperties
  <2>7. answers' \subseteq [tactic : Tactic, answer : Answer]
    BY <2>1, <2>5 DEF TypedInv, TypeOK
  <2>8. /\ Len(blocks) \in Nat /\ index \in 1 .. Len(blocks) /\ validated' \in Nat
    BY <2>2 DEF TypedInv, TypeOK
  <2>9. Depth \in Nat /\ (Depth = 0 \/ Depth < Len(blocks))
    BY <2>8 DEF Depth
  <2>10. \/ pc' = "try" /\ result' = result
         \/ pc' = "idle" /\ result'.outcome = "accepted" /\ result'.depth = Depth
    BY <2>1, <2>2 DEF Finish
  <2> QED
    BY <2>2, <2>4, <2>6, <2>7, <2>8, <2>9, <2>10 DEF TypedInv, TypeOK
<1>4. CASE AllCandidatesRejected
  <2>1. /\ pc = "try" /\ EndBlock("all_candidates_rejected")
        /\ UNCHANGED <<task, call, blocks, candidates, attempted, answers, reviews>>
    BY <1>4 DEF AllCandidatesRejected
  <2>2. candidates' \in Seq(Tactic) /\ index <= Len(blocks)
    BY <2>1 DEF TypedInv, TypeOK
  <2> QED
    BY <2>1, <2>2, EndBlockTyped
<1>5. CASE BlocksExhausted \/ BudgetExhausted \/ Raise
  <2>1. /\ UNCHANGED <<task, call, blocks, index, candidates, spent, validated, attempted, answers,
                       reviews>>
        /\ pc' = "idle" /\ result'.depth = 0
        /\ result'.outcome \in {"failed", "escalated", "raised"}
    BY <1>5 DEF BlocksExhausted, BudgetExhausted, Raise, Finish
  <2> QED
    BY <2>1 DEF TypedInv, TypeOK
<1>6. CASE UNCHANGED vars
  BY <1>6 DEF vars, TypedInv, TypeOK
<1> QED
  BY <1>1, <1>2, <1>3, <1>4, <1>5, <1>6 DEF Next, Rest

\* The typed states are kept.
THEOREM TypedInductive == Spec => []TypedInv
<1>1. Init => TypedInv
  <2> SUFFICES ASSUME Init
               PROVE  TypedInv
    OBVIOUS
  <2>1. /\ blocks \in Seq(BlockCandidate) /\ candidates \in Seq(Tactic)
        /\ attempted \in Seq([tactic : Tactic, kind : BlockKind, answer : Answer])
        /\ Len(blocks) = 0
    BY DEF Init
  <2>2. result.outcome = "none" /\ result.depth = 0
    BY DEF Init, None
  <2>3. index \in 0 .. Len(blocks) + 1 /\ spent \in Nat /\ validated \in Nat
        /\ reviews \in 0 .. MaxReviews
    BY <2>1, EngineAssumption DEF Init
  <2> QED
    BY <2>1, <2>2, <2>3 DEF Init, TypedInv, TypeOK
<1>2. TypedInv /\ [Next]_vars => TypedInv'
  BY TypedKeeps
<1> QED
  BY <1>1, <1>2, PTL DEF Spec

\* The call, its loops and its result are typed, and the depth that is reported is a
\* place of the chain.
THEOREM EngineTyped == Spec => []TypeOK
<1>1. TypedInv => TypeOK
  BY DEF TypedInv
<1> QED
  BY <1>1, TypedInductive, PTL

-----------------------------------------------------------------------------
(* The rules are executed in the order of the chain                        *)

\* The rules of the blocks, and the tactics that were executed.
RuleLists == [i \in 1 .. Len(blocks) |-> Rules(blocks[i].kind)]
Tactics == [i \in 1 .. Len(attempted) |-> attempted[i].tactic]
Ruled == \A i \in 1 .. Len(blocks) : Rules(blocks[i].kind) # <<>>

\* What was executed, with what is left of the current block, are the rules of the
\* blocks up to it.
OrderInv ==
    call = "run" /\ task.source /\ Ruled =>
        /\ pc = "block" => Tactics = Flattened(RuleLists, index - 1)
        /\ pc = "try" => Tactics \o candidates = Flattened(RuleLists, index)
        /\ /\ Returned("failed") \/ Returned("escalated")
           /\ result.reason # "validation_budget_exhausted"
           => Tactics = Flattened(RuleLists, Len(blocks))

\* The rules are tactics.
LEMMA RulesTyped ==
    ASSUME TypedInv
    PROVE  /\ RuleLists \in Seq(Seq(Tactic)) /\ Len(RuleLists) = Len(blocks) /\ Len(blocks) \in Nat
           /\ \A i \in 1 .. Len(blocks) : RuleLists[i] = Rules(blocks[i].kind)
           /\ Tactics \in Seq(Tactic)
<1>1. /\ Len(blocks) \in Nat
      /\ attempted \in Seq([tactic : Tactic, kind : BlockKind, answer : Answer])
  BY DEF TypedInv, TypeOK
<1>2. \A kind : Rules(kind) \in Seq(Tactic)
  <2>1. /\ <<"simp", "auto", "blast">> \in Seq(Tactic) /\ <<"auto", "blast", "simp">> \in Seq(Tactic)
        /\ <<"auto", "simp">> \in Seq(Tactic) /\ <<>> \in Seq(Tactic)
    BY DEF Tactic
  <2> QED
    BY <2>1 DEF Rules
<1>3. /\ RuleLists \in Seq(Seq(Tactic)) /\ Len(RuleLists) = Len(blocks)
      /\ \A i \in 1 .. Len(blocks) : RuleLists[i] = Rules(blocks[i].kind)
  BY <1>1, <1>2 DEF RuleLists
<1>4. Tactics \in Seq(Tactic)
  <2>1. Len(attempted) \in Nat
    BY <1>1
  <2>2. \A i \in 1 .. Len(attempted) :
           attempted[i] \in [tactic : Tactic, kind : BlockKind, answer : Answer]
    BY <1>1, ElementOfSeq
  <2>3. \A i \in 1 .. Len(attempted) : attempted[i].tactic \in Tactic
    BY <2>2
  <2> QED
    BY <2>1, <2>3 DEF Tactics
<1> QED
  BY <1>1, <1>3, <1>4

\* The head of a sequence may be given to the one before it.
LEMMA MoveHead ==
    ASSUME NEW S, NEW a \in Seq(S), NEW c \in Seq(S), c # <<>>
    PROVE  Append(a, Head(c)) \o Tail(c) = a \o c
<1>1. /\ Head(c) \in S /\ Head(c) = c[1] /\ Tail(c) \in Seq(S) /\ Len(Tail(c)) = Len(c) - 1
      /\ \A i \in 1 .. Len(Tail(c)) : Tail(c)[i] = c[i + 1]
  BY HeadTailProperties
<1>2. Len(a) \in Nat /\ Len(c) \in Nat /\ Len(c) > 0
  OBVIOUS
<1> DEFINE x == Append(a, Head(c)) \o Tail(c)
           y == a \o c
<1>3. /\ Append(a, Head(c)) \in Seq(S) /\ Len(Append(a, Head(c))) = Len(a) + 1
      /\ \A i \in 1 .. Len(a) : Append(a, Head(c))[i] = a[i]
      /\ Append(a, Head(c))[Len(a) + 1] = c[1]
  BY <1>1, <1>2, AppendProperties
<1>4. /\ x \in Seq(S) /\ Len(x) = Len(a) + 1 + (Len(c) - 1)
      /\ \A i \in 1 .. Len(x) : x[i] = IF i <= Len(a) + 1 THEN Append(a, Head(c))[i]
                                       ELSE Tail(c)[i - (Len(a) + 1)]
  BY <1>1, <1>3, ConcatProperties
<1>5. /\ y \in Seq(S) /\ Len(y) = Len(a) + Len(c)
      /\ \A i \in 1 .. Len(y) : y[i] = IF i <= Len(a) THEN a[i] ELSE c[i - Len(a)]
  BY ConcatProperties
<1> HIDE DEF x, y
<1>6. Len(x) = Len(y) /\ Len(x) \in Nat
  BY <1>2, <1>4, <1>5
<1>7. ASSUME NEW i \in 1 .. Len(x) PROVE x[i] = y[i]
  <2>1. CASE i <= Len(a)
    <3>1. i \in 1 .. Len(a) /\ i <= Len(a) + 1 /\ i \in 1 .. Len(y)
      BY <1>2, <1>6, <2>1
    <3>2. x[i] = Append(a, Head(c))[i] /\ y[i] = a[i]
      BY <1>4, <1>5, <3>1
    <3> QED
      BY <1>3, <3>1, <3>2
  <2>2. CASE i = Len(a) + 1
    <3>1. i - Len(a) = 1 /\ ~ (i <= Len(a)) /\ i <= Len(a) + 1
      BY <1>2, <2>2
    <3> QED
      BY <1>3, <1>4, <1>5, <1>6, <2>2, <3>1
  <2>3. CASE i > Len(a) + 1
    <3>1. /\ i - (Len(a) + 1) \in 1 .. Len(Tail(c)) /\ (i - (Len(a) + 1)) + 1 = i - Len(a)
          /\ ~ (i <= Len(a)) /\ ~ (i <= Len(a) + 1)
      BY <1>1, <1>2, <1>4, <2>3
    <3> QED
      BY <1>1, <1>4, <1>5, <1>6, <3>1
  <2> QED
    BY <1>2, <1>6, <2>1, <2>2, <2>3
<1>8. x = y
  BY <1>4, <1>5, <1>6, <1>7, SeqEqual
<1> QED
  BY <1>8 DEF x, y

\* Every step keeps the order.
LEMMA OrderKeeps ==
    ASSUME TypedInv, OrderInv, [Next]_vars
    PROVE  OrderInv'
<1>0. /\ RuleLists \in Seq(Seq(Tactic)) /\ Len(RuleLists) = Len(blocks) /\ Len(blocks) \in Nat
      /\ \A i \in 1 .. Len(blocks) : RuleLists[i] = Rules(blocks[i].kind)
      /\ Tactics \in Seq(Tactic)
  BY RulesTyped
<1>a. /\ \A j \in 0 .. Len(blocks) : Flattened(RuleLists, j) \in Seq(Tactic)
      /\ \A j \in 1 .. Len(blocks) :
            Flattened(RuleLists, j) = Flattened(RuleLists, j - 1) \o RuleLists[j]
  BY <1>0, FlattenUnfolds
<1>b. index \in 0 .. Len(blocks) + 1 /\ candidates \in Seq(Tactic)
      /\ (pc # "idle" => index # 0) /\ (pc = "try" => index <= Len(blocks))
  BY DEF TypedInv, TypeOK
<1>c. blocks' = blocks => RuleLists' = RuleLists /\ (Ruled' <=> Ruled)
  BY DEF RuleLists, Ruled
<1>d. attempted' = attempted => Tactics' = Tactics
  BY DEF Tactics
<1>1. CASE Run \/ ValidateCandidate
  <2>1. attempted' = <<>> /\ index' = 1 /\ pc' = "block"
    BY <1>1 DEF Run, ValidateCandidate, Call
  <2>2. Tactics' = <<>>
    BY <2>1 DEF Tactics
  <2>3. Flattened(RuleLists', index' - 1) = <<>>
    BY <2>1 DEF Flattened
  <2> QED
    BY <2>1, <2>2, <2>3 DEF OrderInv, Returned
<1>2. CASE StartBlock
  <2>1. pc = "block" /\ index <= Len(blocks) /\ UNCHANGED <<task, call, blocks, attempted>>
    BY <1>2 DEF StartBlock
  <2>2. SUFFICES ASSUME call = "run", task.source, Ruled
                 PROVE  OrderInv'
    BY <1>c, <2>1 DEF OrderInv
  <2>3. index \in 1 .. Len(blocks)
    BY <1>b, <2>1
  <2>4. Rules(blocks[index].kind) # <<>>
    BY <2>2, <2>3 DEF Ruled
  <2>5. GenerateCandidates(blocks[index].kind) = {Rules(blocks[index].kind)}
    BY <2>4 DEF GenerateCandidates
  <2>6. candidates' = Rules(blocks[index].kind) /\ pc' = "try" /\ index' = index
    BY <1>2, <2>2, <2>4, <2>5 DEF StartBlock
  <2>7. Tactics = Flattened(RuleLists, index - 1)
    BY <2>1, <2>2 DEF OrderInv
  <2>8. Tactics \o candidates' = Flattened(RuleLists, index)
    BY <1>0, <1>a, <2>3, <2>6, <2>7
  <2> QED
    BY <1>c, <1>d, <2>1, <2>6, <2>8 DEF OrderInv, Returned
<1>3. CASE TryCandidate
  <2>1. PICK e \in Execute(Head(candidates)) :
            /\ attempted' = Append(attempted, e)
            /\ \/ pc' = "idle" /\ result'.outcome = "accepted"
               \/ pc' = pc /\ result' = result
    BY <1>3 DEF TryCandidate, Finish
  <2>2. /\ pc = "try" /\ UNCHANGED <<task, call, blocks, index>> /\ candidates # <<>>
        /\ candidates' = Tail(candidates) /\ e.tactic = Head(candidates)
    BY <1>3 DEF TryCandidate, Execute
  <2>3. Tactics' = Append(Tactics, Head(candidates))
    <3>1. attempted \in Seq([tactic : Tactic, kind : BlockKind, answer : Answer])
      BY DEF TypedInv, TypeOK
    <3>2. PICK T : attempted \in Seq(T) /\ e \in T
      <4>1. attempted \in Seq([tactic : Tactic, kind : BlockKind, answer : Answer] \union {e})
        BY <3>1, SeqMonotonic
      <4> QED
        BY <4>1
    <3>3. /\ Len(attempted) \in Nat /\ Len(attempted') = Len(attempted) + 1
          /\ \A i \in 1 .. Len(attempted) : attempted'[i] = attempted[i]
          /\ attempted'[Len(attempted) + 1] = e
      BY <2>1, <3>2, AppendProperties
    <3>4. Head(candidates) \in Tactic
      BY <1>b, <2>2
    <3>5. /\ Len(Tactics) = Len(attempted)
          /\ \A i \in 1 .. Len(attempted) : Tactics[i] = attempted[i].tactic
      BY <3>3 DEF Tactics
    <3>6. Tactics' = [i \in 1 .. Len(attempted) + 1 |-> attempted'[i].tactic]
      BY <3>3 DEF Tactics
    <3>7. /\ Append(Tactics, Head(candidates)) \in Seq(Tactic)
          /\ Len(Append(Tactics, Head(candidates))) = Len(attempted) + 1
          /\ \A i \in 1 .. Len(attempted) : Append(Tactics, Head(candidates))[i] = Tactics[i]
          /\ Append(Tactics, Head(candidates))[Len(attempted) + 1] = Head(candidates)
      BY <1>0, <3>4, <3>5, AppendProperties
    <3> DEFINE t == Append(Tactics, Head(candidates))
    <3> HIDE DEF t
    <3>8. \A i \in 1 .. Len(attempted) + 1 : t[i] = attempted'[i].tactic
      BY <2>2, <3>3, <3>5, <3>7 DEF t
    <3>9. t = [i \in 1 .. Len(attempted) + 1 |-> t[i]]
      <4>1. t \in Seq(Tactic) /\ Len(t) = Len(attempted) + 1
        BY <3>7 DEF t
      <4> QED
        BY <4>1
    <3> QED
      BY <3>6, <3>8, <3>9 DEF t
  <2>4. Tactics' \o candidates' = Tactics \o candidates
    BY <1>0, <1>b, <2>2, <2>3, MoveHead
  <2> QED
    BY <1>c, <2>1, <2>2, <2>4 DEF OrderInv, Returned
<1>4. CASE AllCandidatesRejected
  <2>1. /\ pc = "try" /\ candidates = <<>> /\ EndBlock("all_candidates_rejected")
        /\ UNCHANGED <<task, call, blocks, candidates, attempted>>
    BY <1>4 DEF AllCandidatesRejected
  <2>2. SUFFICES ASSUME call = "run", task.source, Ruled
                 PROVE  OrderInv'
    BY <1>c, <2>1 DEF OrderInv
  <2>3. index' = index + 1 /\ pc' = "block"
    BY <2>1, <2>2 DEF EndBlock
  <2>4. Tactics \o candidates = Tactics
    BY <1>0, <2>1
  <2>5. Tactics = Flattened(RuleLists, index)
    BY <2>1, <2>2, <2>4 DEF OrderInv
  <2>6. index' - 1 = index
    BY <1>b, <2>3
  <2> QED
    BY <1>c, <1>d, <2>1, <2>3, <2>5, <2>6 DEF OrderInv, Returned
<1>5. CASE BlocksExhausted
  <2>1. /\ pc = "block" /\ index > Len(blocks) /\ pc' = "idle"
        /\ UNCHANGED <<task, call, blocks, attempted>>
    BY <1>5 DEF BlocksExhausted, Finish
  <2>2. index - 1 = Len(blocks)
    BY <1>0, <1>b, <2>1
  <2> QED
    BY <1>c, <1>d, <2>1, <2>2 DEF OrderInv
<1>6. CASE BudgetExhausted \/ Raise
  <2>1. /\ pc' = "idle" /\ UNCHANGED <<task, call, blocks, attempted>>
        /\ \/ result'.reason = "validation_budget_exhausted"
           \/ result'.outcome = "raised"
    BY <1>6 DEF BudgetExhausted, Raise, Finish
  <2> QED
    BY <2>1 DEF OrderInv, Returned
<1>7. CASE UNCHANGED vars
  BY <1>7 DEF vars, OrderInv, Returned, RuleLists, Tactics, Ruled
<1> QED
  BY <1>1, <1>2, <1>3, <1>4, <1>5, <1>6, <1>7 DEF Next, Rest

\* run gives a task up only in vain: the rules of the blocks were executed in the
\* order of the chain, each once and none that closed its block, or the budget is
\* spent to the last validation; for every chain, however it was built.
THEOREM GivenUpOnlyInVain == Spec => []GivenUpInVain
<1>1. Init => OrderInv
  BY DEF Init, OrderInv
<1>2. TypedInv /\ OrderInv /\ [Next]_vars => OrderInv'
  BY OrderKeeps
<1>3. TypedInv /\ OrderInv /\ AllRulesInVain => GivenUpInVain
  <2> SUFFICES ASSUME TypedInv, OrderInv, AllRulesInVain, call = "run",
                      Returned("failed") \/ Returned("escalated")
               PROVE  GivenUpInVain
    BY DEF GivenUpInVain
  <2>1. /\ Informed => \A i \in 1 .. Len(attempted) : ~ Closed(attempted[i])
        /\ result.reason = "validation_budget_exhausted" =>
              Returned("failed") /\ Len(attempted) = MaxValidations
    BY DEF AllRulesInVain
  <2>2. RuleLists \in Seq(Seq(Tactic)) /\ Len(RuleLists) = Len(blocks)
    BY RulesTyped
  <2>3. FlattenSeq(RuleLists) = Flattened(RuleLists, Len(blocks))
    BY <2>2, FlattenUnfolds
  <2>4. {i \in 1 .. Len(blocks) : Rules(blocks[i].kind) = <<>>} = {} => Ruled
    BY DEF Ruled
  <2>5. /\ result.reason # "validation_budget_exhausted"
        /\ {i \in 1 .. Len(blocks) : Rules(blocks[i].kind) = <<>>} = {} /\ task.source
        => Tactics = FlattenSeq(RuleLists)
    BY <2>3, <2>4 DEF OrderInv
  <2> QED
    BY <2>1, <2>5, Zenon DEF GivenUpInVain, Tactics, RuleLists
<1> QED
  BY <1>1, <1>2, <1>3, TypedInductive, GivenUpAfterAllRules, PTL DEF Spec
=============================================================================

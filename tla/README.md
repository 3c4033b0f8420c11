# isabelle-repl: TLA+ models and proofs

TLA+ models of the REPL server (Scala) and of the repair run that drives it
(Python), the TLC instances that check them, and TLAPS proofs about each of them:
the server and its refinement, the replay of a theory, the orchestrator, the task
engine and the repair run.

## The system

A long-lived gRPC **server** (`src/main/scala`) keeps Isabelle processes, one per
*session*. In a session a client holds *states*: immutable Isabelle toplevel
states, named by UUIDs. `init_state` replays a theory file up to a line,
`execute`, `execute_many` and `run_sledgehammer` derive new states from one,
`drop_state`, `drop_all_states` and `destroy_session` release them. On top of the
Python **client** runs a **repair run** (`python/src/isabelle_repair`): a
localizer finds the first failing command of a theory, a task engine tries
candidates for it, a policy gate and human review decide on acceptance, and the
accepted artifact is integrated into a working snapshot.

### Inventory

| Component | State | Operations | What is hard | What makes it correct |
|---|---|---|---|---|
| RPC service (`IsabelleReplServer.scala`) | `sessionMap`; per session a lock and `closing` | the 12 RPCs | every call is a task on a cached thread pool; the two global maps are read before the session lock is taken; any step into ML can throw | no call works on a closing session; NOT_FOUND is never wrong; every call returns |
| State registry (`StateRegistry.scala`) | `stateOwnerMap` | register, drop if owned, group by owner, drop all | every registration and drop is two writes, with unlocked readers between them | registry and session agree (its "source-of-truth invariant") |
| Session (`IsabelleSession.scala`) | `stateMap`, `theoryCache`, `initCache`, `initCacheKeys` | compute, store, drop, close | two caches that must follow the store | checkpoints point at live states |
| Replay (`ReplayPlanner.scala`, `computeInitState`) | the checkpoints of a theory | resolve a position, choose a checkpoint, execute the delta | lines with several commands, failures and timeouts half way | a checkpoint cannot be observed |
| Bootstrap, workspace catalog, theory manager | none of their own | build a session, resolve imports, call ML | mostly ML and file system | imports resolve to the session's theories |
| Python client | channel | one method per RPC | - | names only ids it was given |
| Orchestrator (`run/orchestrator.py`) | run state, pending review, applied ids, accepted count, records | `run_until_terminal`, `resume_from_review` | `resume_from_review` re-enters itself up to three deep on one shared, mutable task result; collaborators raise | the contract of `docs/v1_5/contracts` |
| Policy gate, hook guard | configuration | `decide`, `validate_intervention_response` | order of rules | nothing risky goes in unreviewed |
| Task engine, adapters | validation budget | `run`, `validate_candidate` | one budget for a chain of fallback blocks | only validated candidates are accepted, within the budget |
| Localizer, working snapshot | anchor state and cursor, replacements by line, failure digest | `next_task`, `set_anchor`, `apply_artifact`, exports | the executed text and the exported text are computed apart, by line; the anchor may be lost and is rebuilt | the patched file is what was executed; a repaired command is not reported again |
| Theory run, repair script, records, observability | session, files | `execute`, export, `main` | exceptions anywhere; three writes | the session is destroyed; an export is linked to its records |

Interaction: the localizer and the task engine call the client; the client calls
the server; the orchestrator calls the localizer, engine, gate, hook, snapshot and
record store, and is called back by none of them. The server's calls share the two
global maps, and the tables of a session under its lock.

`PROJECT.json` lists the hazards this gives rise to, each with its line and the
properties that would catch it.

## Modules

| Module | Models |
|---|---|
| `ReplServer` | RPC service, registry and session tables, composed: they share the lock |
| `StateLife` | what the server promises about state ids, all operations atomic |
| `ReplServerProofs`, `ReplServerCallProofs` | TLAPS proofs about `ReplServer`: its tables, then its calls |
| `ReplServerRefinement` | TLAPS proof that `ReplServer` implements `StateLife` |
| `Replay` | `computeInitState` and `ReplayPlanner` on one theory |
| `ReplayProofs` | TLAPS proofs about `Replay` |
| `Policy` | `RuleBasedPolicyGate.decide` |
| `Orchestrator` | `TheoryRepairOrchestrator`, with the hook guard |
| `OrchestratorProofs` | TLAPS proofs about `Orchestrator` |
| `TaskEngine` | `ReplDeterministicTaskEngine`, its controller, generator and adapters |
| `TaskEngineProofs` | TLAPS proofs about `TaskEngine` |
| `RepairRun` | one run of `run_repair_once.py`: `Orchestrator` composed with the localizer, the snapshot and the export |
| `RepairRunProofs` | TLAPS proofs about `RepairRun`, for any `Orchestrator` |
| `IndexOrder` | the elements of a set of numbers in ascending order (`Ascending`): how `Replay`, `TaskEngine` and `RepairRun` list commands and blocks |
| `SequenceProofs` | lemmas about `Ascending` and `FlattenSeq` the proofs share |
| `MCReplServer`, `MCReplay`, `MCOrchestrator`, `MCTaskEngine`, `MCRepairRun` | constants, symmetry and warm start for TLC |

Mutated forms of some definitions (`Mut...`) stand before the definition they
change; none is used by a specification.

### ReplServer

A process (`Thread`) is one RPC in progress. `pc` is its place in the handler;
`at` the `ManagedSession` it works on; `pending`, `results`, `failed` the computed
states before and after registration; `todo` and `groups` the loops of drops. The
labels of `Critical` are the body of `lock.synchronized`; `Reply` labels are the
gRPC status of the answer. Each access to a *global* map is a step of its own
(`LookupOwner`, `LookupSession`, `PublishOwner`, `RemoveOwner`, `DisownState`, ...),
because unlocked reads fall between them; what only the lock holder can see
(`StoreStateLocal`, `DropStateLocal`) is one step.
Several RPCs share steps: `loadTheory` and `listTheoryCommands` are the same
`computeIfAbsent`; `execute`, `executeBatch`, `runSledgehammer` and `initState`
differ in what they compute and share the registration loop. `initState` and
`loadTheory` choose the theory when they compute, because nothing before depends
on it. `executeBatch` is modelled as drawing all its ids when it has computed its
results; the code draws each at its registration, which no one can tell apart,
since an id is unknown to others until it is registered.

A step into the ML process may fail: `BodyFails` (status INTERNAL or what
`tryWrapper` maps it to, here `FAILED`), the second half of `ComputeInitState`,
`BuildStateResult` after the registration, `CloseSession`, `EnterSession`.

### StateLife and the refinement

`StateLife` has a phase per session and a life per id: *unborn*, *drawn*, *live*,
*dead*. `Linearizable` (`ReplServer => StateLife`) says that a published id becomes
live once, in an open session; that a dead id never returns; and that
`drop_all_states` and `destroy_session` kill *all* states of a session in one
instant, although the code removes the owners one by one. The instant is the
moment the ids are collected under the lock: any call that reads an owner not yet
removed must still wait for the lock and then fails its liveness check.

### Replay

The contents of a toplevel state are the indices of the commands executed to
reach it. Init ranges over *every* theory of up to `MaxLength` commands with lines
up to `MaxLine` (0: no position), two texts, each command raising or not. The code
classifies a failed replay by the exception it catches: at every command, raising or not,
the execution may be cut off by the timeout or fail for another reason; what it cannot do
is get past a command that raises. `Answer` is the response, which is not sent when the
description of the registered state cannot be built. The session parses the file at the
first call that needs it (`transitions`, the `computeIfAbsent` of every call) and never again, while
`EditFile` deletes commands from it: what is listed, checkpointed and replayed must
stay with the version that was parsed. One deletion per history bounds the edits. `FromScratch` is the reference: all positioned
commands up to the line, in file order. Texts are taken up to
`normalizeWhitespace`. Targets are not negative (see the hazards).

### Orchestrator and Policy

`pc` walks through `run_until_terminal` and `resume_from_review`; `stack` holds the
active calls of `resume_from_review`, each with the place it returns to (the loop,
an external caller, `_resolve_placeholder_request`, `_apply_accepted_artifact`).
`res` is the task result all activations share and mutate. `records` is the record
store: the sequence of record kinds per task; a policy record carries its decision
and an intervention record its response. The gate is the constant operator `Gate`:
`AnyGate` decides anything (the `PolicyGate` protocol), `RuleGate` follows
`Policy!Decide`. The localizer returns any failure or none, the engine any member
of `Results`, the reviewer any response, with or without text; each may raise
(`Raise`), as may the gate at any of the three places it is asked (the artifact, the
placeholder, the continuation) and the snapshot for a task without a line.
`AutoResolve` is `auto_resolve_review`. Writing records and logs is taken not to fail, and no collaborator returns an empty text. `EngineResults` are
the results `TaskEngine` can end with; `ProtocolResults` adds those another
implementation of the protocol may return, among them `requires_rerun`, which
`ReplDeterministicTaskEngine` never sets and without which a continuation is not
gated.

### TaskEngine

`run` and `validate_candidate` share `run_with_source`, so they share the steps from
`StartBlock` on; `call` says which is active. `blocks` is the chain of a task, `index`
the block being tried, `candidates` the tactics left for it. `spent` is the engine's
`validation_count`, `validated` the controller's `validate_count`. The prover answers
a tactic at a state always the same (`answers`), but every execution may time out
instead, or the client may raise. Statuses follow `computeExecute`: PROOF_COMPLETE is
the step from a proof level above 0 to level 0. `Closed` is the reference the adapters
are compared with: the proof the candidate was entered in, the theorem or the command
is behind it. A task's `entry` level is the level of its source state, or 0 when the
task has no checkpoint; the localizer always sets it together with the anchor.
Block contracts are labels of block kinds: the adapter is chosen by kind.

### RepairRun

`RepairRun` extends `Orchestrator`: its variables and actions are those of the
orchestrator, and each step that calls the localizer, the snapshot or the engine gets
what that collaborator does. `NextTask` and `NoNextTask`, where `Orchestrator` takes any
answer, are here the last step of `next_task`: `Localize`. `loc` is its place (the
replay of `_rebuild_anchor_from_header`, the walk). What a state on the server contains
(`contents`, of the anchor) is the sequence of the texts executed to reach it: a command
as it stands in the file, a tactic of the engine, a replacement of the reviewer. A
placeholder keeps the text of the task result, which for an escalated task is the text
of the command that failed. The prover answers a text at a state always the same
(`answers`), but any execution may time out. An artifact the engine accepts was
executed at the anchor with success, which is what `TaskEngine` shows
(`AcceptedCloses`). Whether the anchor is in a proof is a choice where a failure is
classified.

`RepairAssumption` says that a theory lists its commands in the order of their lines, as
`list_theory_commands` returns them: the commands up to the line of the header are then
the first ones (`AfterHeader`). The engine never sets `requires_rerun`, so the gate of a
continuation is not among the steps.

States on the server never change, so `_detect_drift` finds a drift only when
`get_state_info` raises (`Drift`); a rebuild may fail at every command. `held` counts
the states on the server the localizer created, those no one knows of included: the server
registers the last success of a call that fails, and a state before its description is
built (`MayLeaveState`). After such a call `next_task` returns `None` or raises, so it is
the last of the run (`Over`). Those of the engine come on top and are bounded by
its budget (`BudgetShared`). The digest keeps its reason and whether it names a drift.
A record is named by its task and its place in `records`; the records without a task
(run metadata, the patch's provenance) are not in `records`, the last one is
`patch = "linked"`.

`phase` is the script: `CreateSession` (which the refusal of a missing file or of a
policy file also ends), `LoadTheory`, `Execute`, `ReturnState`, `ExportPatchArtifacts`,
and `DestroySession`, the `finally`. `Abort` is an exception out of `execute`, from
wherever the run is.

## Runs

| Run | Shows | Bounds |
|---|---|---|
| `server_one` | all safety properties and `Linearizable` | 2 calls at once, 1 session, 3 ids, 1 theory and line, batches of 2, 6 requests |
| `server_two` | `drop_state` across sessions: `NotFoundIsTrue`, the steps of `StateLife` (`WarmLinearizable`) and `EveryCallReturns` | 2 calls at once; starts with 2 open sessions and a state in one, 2 ids, 3 requests |
| `replay_cache` | `CacheTransparent`, `FailureIsExact`, whatever cuts a replay off | all theories with 3 commands, lines 0..3; one edit |
| `orchestrator_any` | the state machine with nested reviews, any gate; every call returns | 2 steps, so two tasks or one that comes again; target 2 |
| `orchestrator_pause` | paused reviews, resumed by a caller between calls | 2 runs of 2 steps |
| `orchestrator_evidence` | *violation*: the evidence of what is integrated | rule-based gate, an engine that may ask for reruns, 2 steps |
| `engine_any` | budget, acceptance, giving up and fallback, for the localizer's tasks and others | proof levels 0..2, 9 tasks, budget 7 where the localizer's chain has 8 candidates, 1 review |
| `repair_plain` | the composed run: what is exported, what is localized again, what a run that finishes has executed, the states it holds, and `RiskReviewed` under the rule-based gate | 3 steps, 1 drift; a theory with a command before its header, a header over two lines, an empty line and two commands after it, one without header, one without commands; placeholders need review, default high-risk kinds |
| `repair_live` | `SessionDestroyed` | the same theories, target boundary 1, 2 steps, 1 drift |
| `repair_patch` | *violation*: replacements and lines | a command over two lines, two commands on a line |
| `repair_placeholder` | *violation*: placeholders and later failures | as `repair_plain`, placeholders allowed |
| `repair_finished` | *violation*: finished without an anchor | as `repair_plain`, placeholders allowed |

Why the bounds suffice. In the server a conflict needs two calls that meet at one
lock or one id; six requests allow a session to be created, a state to be made,
and then four more requests in any overlap, e.g. a batch with `drop_failed` against
a destroy with a queued `execute`. Three ids let a batch have a failed and a good
candidate beside its source. A second session matters only to `drop_state`: three
requests after the warm start make a state in the other session and then let a drop of
both overlap with any other call. One
theory and line make every pair of `init_state` calls collide on one checkpoint.
In `Replay` three commands give a checkpoint in the middle, a shared line and a
command after it. In the orchestrator a task carries nothing into the next but the
count and the run state, so two tasks show every carry-over; reviews nest at most
three deep (`TypeOK`). The engine's contracts only compare a level with 0 and
with the level of entry, so levels 0..2 give every order; a budget one below the
length of the chain runs out in the last block. In the repair run three steps give a
command a placeholder, then a repair, and then localize it a third time or move on; one
drift at any step gives a rebuild over commands repaired before it; a command before the
header shows that the server's line and the localizer's index agree, and a header over
two lines with an empty line behind it that the export finds a command by its line and
not by its number.

Symmetry is used for calls, sessions, ids and texts in safety runs only. The
liveness runs use none.

Fairness. `EveryCallReturns`: weak fairness of each call's steps; the pool is
cached (unbounded), so an accepted call always has a thread, and a handler is
a straight line but for the wait for a lock. The JVM's monitor is not fair; the
number of requests is bounded here, so what is shown is that no call waits on a
lock nobody will release, not that a stream of new calls cannot overtake it. The ML
process is assumed to answer or to fail (the code runs it under timeouts).
`EveryRunReturns` and `SessionDestroyed`: weak fairness of the single thread; engine,
reviewer and client calls are assumed to return or raise, and `destroy_session`, which
the script calls in its `finally`, to reach the server.

`Quiet` and `Rest` are the idle server and the run object nobody calls: the only
states in which nothing need happen, so deadlock is checked everywhere else.

### What the code does otherwise than its documents say

* `repair_patch` - a replacement takes the place of exactly one line of the file, the
  first of its command. `lemma ... by simp` on one line loses its statement, a command
  over two lines keeps its tail. With one command to a line the patched file is what
  was executed (`PatchIsValidated` in `repair_plain`).
* `repair_placeholder` - a placeholder made from an escalated task has the text of the
  command that failed, so the run meets the same failure again until its steps are used
  up.
* `orchestrator_evidence` - the contract of the state machine asks for task, policy,
  optional intervention, artifact, continuation and provenance, in that order
  (`EvidenceOrdered`). The front is missing in the review of an escalated task: it is
  entered with a decision that is never recorded, so a replacement integrated there has no
  policy record before it (`PolicyPrecedesArtifact`; the trace of the run). `Vetted` has
  the sequences that do occur. The end is missing when a response is refused, or rejects,
  or the gate raises, in a continuation: the artifact stays in the theory without
  continuation or provenance record, and the run is active and goes on
  (`IntegrationConcluded`). That takes an engine that sets `requires_rerun`, as the tests
  of the orchestrator do and `ReplDeterministicTaskEngine` does not; without, it is a
  theorem (`NoLooseIntegration`).
* `repair_finished` - `next_task` also returns `None` when the anchor cannot be made or
  rebuilt, and the run is then FINISHED as if the theory had been repaired; nothing but
  the digest of the snapshot tells. `FinishedIsRepaired` in `repair_plain` shows that all
  other runs that finish did execute the theory to its end.

Some things the models show in passing properties, or only contain:

* `after_command` is resolved to a *line* (`Matches`): commands after the selected one on
  its line are executed too, although `repl.proto` has it "execute up to and including the
  text-matching cmd", and two equal commands on one line are not ambiguous.
* The localizer makes every failure a terminal proof step. At proof level 0 the contract of
  that kind (a finished proof or a lower level, `ContractHolds`) cannot be met, so a
  replacement of a top-level command that executes is rejected; a test of the repository
  relaxes the contract for that reason.
* A drift whose rebuild fails, or after which no further task comes, is in no record;
  after one that succeeded, every later task names it.
* `dropStateLocal` evicts a checkpoint by its key, also when a newer live state holds
  it: the next call at the line replays, and answers the same (`CacheTransparent`).

`FallbackNeedsTimeout` holds, and is worth knowing: the larger blocks of the localizer's
chain try a subset of the same tactics from the same state under contracts that ask
no less, so they accept something only when a tactic timed out the first time.

## Proofs

`ReplServerProofs` proves, for every set of calls, sessions, ids, theories and
lines and all bounds, from `NoneAssumption` (the null value is none of the others),
`IdAssumption` (no UUID names both a session and a state) and `BoundAssumption`:

| Theorem | Property |
|---|---|
| `TypeCorrect` | `TypeOK` |
| `RegistryAgrees` | `SourceOfTruth` |
| `DestroyedIsEmpty` | `ClosedHoldsNothing` |
| `CheckpointsAreLive` | `CheckpointsLive` |
| `Inductive` | the invariant `IInv` they follow from |

None of the properties is inductive alone: between the two writes of a registration
or a drop the tables disagree about one id, and only the lock holder's program
counter says which. `IInv` adds

* `LockInv`: a call is in a critical section exactly when it holds the lock of its
  session (so two are never in one);
* `ProgInv`: what each label knows: its session exists, the loop of a drop-all holds
  all that is still owned, the current id is typed, ...;
* `FreshInv`: ids computed by different calls are distinct and not registered;
* `OwnerInv`: registry and store agree except for the id the lock holder is moving;
* `ClosingInv`: a closing session is being emptied by the lock holder, or is empty.

There is one step lemma per conjunct with one case per action, and `StepInv` puts
them together. `IInv` was also checked by TLC on the `server_one` instance, and so were
the invariants below on the instance of a run of their module, before they were proved.

### The calls, and the refinement

`ReplServerCallProofs`, from the same assumptions:

| Theorem | Property |
|---|---|
| `NotFoundNeverWrong` | `NotFoundIsTrue` |
| `HandlersWorkOnOpenSessions` | `NoUseAfterClose` |
| `OnlyFailedAreDropped` | `DropFailed` |
| `TornDownInOrder` | `TeardownOrder` |
| `CallsInductive` | the invariant `CInv` |

What a call has read before it took the lock may be stale, so `CInv` says by how much:
the owner it read is still the owner of the state or the state is dead (`SourceInv`),
which needs that a state a client can name is never registered again (`KnownInv`).
`SessionInv` gives a session its process from before it can be found until it is gone,
`OpInv` says which operation reaches which label, and `ResultInv` what becomes of the
ids a call registered.

`ReplServerRefinement` proves `ServerImplementsStateLife`: `Spec => Linearizable`. The
mapping (`phaseBar`, `lifeBar`, `homeBar`) counts a session in the middle of losing its
owners as emptied. Each action is a lemma: `EnterSession` opens, `PublishOwner` makes an
id live, collecting the ids under the lock of a drop-all or a destroy empties, and the
removal of each owner after it is invisible.

### The replay

`ReplayProofs`, for every set of theories and every bound on lines, from
`ReplayAssumption` and `NoneAssumption` (the null value is neither a number nor a
sequence):

| Theorem | Property |
|---|---|
| `CacheIsTransparent` | `CacheTransparent` |
| `FailuresAreExact` | `FailureIsExact` |
| `TheoryNeverChanges` | no step changes `transitions`: what is listed, checkpointed and replayed stays with the version parsed first |

The two properties rest on each other's checkpoints and are inductive together, with
the types of the cache (`CacheTyped`) and the order of the parsed commands (`ParsedInv`).
The argument is one fact about positions: a checkpoint at an earlier line holds the
commands up to that line (`BestIsFromScratch`), the delta lists exactly those between the
two lines, and in file order every one of the first comes before every one of the second
(`DeltaFollows`), so one list behind the other is the list of both (`AscendingUnion`). A
replay that fails executed the front of the delta, which is the front of the reference up
to the command that failed (`AscendingPrefix`).

### The orchestrator

`OrchestratorProofs`, from `RunAssumption` (types only), for any gate, engine results,
number of tasks, steps and runs, with or without automatic resolution:

| Theorem | Property |
|---|---|
| `OrchestratorTyped` | `TypeOK` |
| `PendingIsAwaiting` | `ReviewPauses` |
| `IntegratedOnce` | `AppliedOnce` |
| `NothingUnvetted` | `Vetted` |
| `CountIsProven` | `AcceptedHasProvenance` |
| `NoLooseIntegration` | `IntegrationConcluded`, given `ContinuationsUngated` |
| `StopsAreExplained` | `StopIsExplained` |
| `TerminalStays` | `TerminalAbsorbing` |
| `RiskIsReviewed` | `RiskReviewed`, given `RuleGated` and `BlockEscalated` |
| `OrchestratorInductive` | the invariant `IInv` |

The activations of `resume_from_review` share `res` and the records, so what an outer
one knows when an inner one returns must be said: `StackInv` (a review of an artifact,
in it at most one of a placeholder, in it at most one of a continuation), `PendingInv`
(which review is pending after which integration), `PlaceInv` (what each place of the
control knows; at `apply` the artifact is permitted or an inner activation was there
first), `BooksInv` (`applied`, `applied_artifact_task_ids` and the current task) and
`LedgerInv` (what the records of each task contain, and that the count is the number of
tasks with provenance). `Evidence` lists all that may stand before an ARTIFACT record: the
shapes of the records at each place of the control (`Opened`, `Requested`) are part of
`PlaceInv`, since a permission is only good for what was permitted. `NoLooseIntegration`
is about engines that ask for no rerun (`ContinuationsUngated`) and adds `Ungated`: no
continuation is gated or reviewed, so the conclusion is in the step of the integration.
`RiskIsReviewed` adds `RiskInv`: what is about to be integrated
is cleared by the rules. `RuleGated` says the gate is `RuleBasedPolicyGate`;
`BlockEscalated` that the engine returns the failing block only with an escalation,
which is what `ReplDeterministicTaskEngine` does.

### The engine

`TaskEngineProofs`, for every set of tasks, every chain and every budget, from
`EngineAssumption` (tasks are well-formed, and an entry checkpoint, when there is one,
is that of the source state):

| Theorem | Property |
|---|---|
| `BudgetRespected` | `BudgetShared` |
| `AcceptanceSound` | `AcceptedCloses` |
| `FirstClosingIsTaken` | `FirstClosingWins` |
| `GivenUpOnlyInVain` | `GivenUpInVain` |
| `GivenUpAfterAllRules` | `AllRulesInVain`: the same as a set, also for tasks whose chain has a block without rules |
| `FallbacksAreReviewed` | `FallbackReviewed`, given `LocalizedFirst` |
| `FallbacksNeedTimeouts` | `FallbackNeedsTimeout`, given `ProofChain` |
| `EngineTyped` | `TypeOK` |

The attempts of a call number `spent + validated`, which is what the guard of the loop
bounds; `ContractSound` and `ContractComplete` compare each adapter with `Closed`.
`FirstInv` says that of what was executed nothing closed but the candidate the call
returned with; `DepthInv` ties the result to its place in the chain; `TriedInv` says
that the rules of all blocks before the current one were executed and the others are
still to come; `AcceptedInv` that the prover does not contradict itself and that what
was accepted came after all rules of the blocks before. `OrderInv` has the order: at a
block the tactics executed are the rules of the blocks before it, put together in the
order of the chain, and within a block those executed and those left are the rules up to
its end. The hypotheses are about `_fallback_candidates`: the chain starts with the block
that was localized (`LocalizedFirst`), and its other members are of kinds with a contract
and follow a proof step or a proof body (`ProofChain`).

### The repair run

`RepairRunProofs`, from `RepairAssumption` and `RunAssumption`, for every theory and any
number of steps, drifts and exceptions:

| Theorem | Property |
|---|---|
| `RepairImplementsOrchestrator` | `RepairSpec => Spec`: all theorems about the orchestrator hold here |
| `RepairRiskReviewed` | `RiskReviewed`, given `RuleGated` and `BlockEscalated` |
| `RepairTyped` | `RepairTypeOK` |
| `StatesAreBounded` | `HeldBounded` |
| `ExportIsLinked` | `ExportLinked` |
| `AnchorExtends` | `AnchorOnlyExtends`, given `LinesApart` |
| `PatchWasExecuted` | `PatchIsValidated`, given `OnOneLine` |
| `FinishIsRepaired` | `FinishedIsRepaired`, given `OnOneLine` |
| `RepairedStaysRepaired` | `NotReportedAgain`, given `LinesApart`, `RuleGated`, `BlockEscalated`, `EngineTexts` |
| `RepairInductive` | the invariant `RunInv` |

`RunInv` adds to the orchestrator's invariant where `next_task` may be (`LocalizerInv`),
that localizer, snapshot and records count the same tasks and the one at work is the
command after the anchor (`PlacesInv`), that a run which finishes has its anchor at the
last command or a digest that says otherwise (`FinishedInv`), the bound of `held` halfway
through a rebuild (`HeldInv`; the state a last call leaves is within the bound because
what is over stays over, `OverStays`), and that every replacement names the ARTIFACT
record of its task
(`LinkInv`, which needs that records only grow).

`AnchorExtends`, `PatchWasExecuted` and `RepairedStaysRepaired` are about the texts in
effect. `AnchorInv` says that the anchor, and one being rebuilt, was reached by executing the texts in effect *now*; a new
replacement changes only the text of the command after the anchor (`EffectiveChanges`),
so two states reached up to the same command are equal (`ReachedUnique`), which is why a
rebuild gives back the anchor. This is where `LinesApart` (one command to a line) is
needed: replacements are found by line, and with two commands on a line a repair of the
second would rewrite the first, which the anchor has executed already (`repair_patch`
shows what the export makes of that). `RepairedInv` says that the artifact of the task at
work, and the text in effect for a repaired command, was executed with success at the
anchor; an integration must then be of such a text or of the block as it stands, which
is a placeholder under the rule-based gate of the script. `EngineTexts` says that
replacements come from the reviewer only.

`PatchWasExecuted` compares two texts the code computes apart: the one the anchor was
reached by, command by command, and the one exported, line by line. `FileInv` says that
every replacement stands at the line of a command behind the header, and that a text kept
from the file (a placeholder's) is that command's own. Then a line a command begins on
renders to the text in effect of that command (`RenderCommand`), a line of no command to nothing that is executed
(`RenderGap`), and an induction over the lines (`RenderedIsExecuted`) has the pieces of
the lines put together be the texts executed up to there. `OnOneLine` (commands stand
apart, and those behind the header have one line each) is where a replacement of *one*
line is right; `repair_patch` shows what happens otherwise. The header itself may span
lines: it is not replaced. `FinishIsRepaired` puts `AnchorInv` and `FinishedInv` together:
an anchor at the last command was reached through every command.

All hypotheses on the constants are evaluated by TLC in `MCTaskEngine` and `MCRepairRun`
(`TasksAsAsked`, `RunAsAsked`).

### Sequences

`SequenceProofs` has what the proofs need of lists. The prover cannot instantiate the
library's induction theorems, but a set of numbers with an element has a least one
(`WFMin` of the well-founded `<`, in `LeastNatural`), and a least counterexample is an
induction: `Stepwise` has it for a set of numbers that is closed under the next one, which
is how the lines of a file or the blocks of a chain are gone through. `Ascending(S)` is
what it says (`AscendingLists`) and nothing else is (`AscendingUnique`); it continues over
a union whose second part lies behind the first (`AscendingUnion`). `FlattenSeq` is
defined by a recursive function, which exists by `StepsExist`; `FlattenUnfolds` then gives
its value at each place, and `FlattenedGap`, `FlattenedSingles` and `FlattenedPrefix` what
empty and single pieces do.

### What is only model-checked

* Liveness under fairness: `EveryCallReturns`, `EveryRunReturns`, `SessionDestroyed`.
  The provers have no rule for fairness and `ENABLED`.
* `WarmLinearizable`: the steps of `server_two`, which starts with sessions that are open
  already, as steps of `StateLife`. The theorem is about `Linearizable`, from the
  specification's own initial states.

Every invariant a passing run checks is a theorem.

## Not modelled

* ML (parsing, proof checking, Sledgehammer) beyond success, failure and timeout.
* gRPC transport: a call is delivered once; the server keeps no session across a
  restart. Start-up and shutdown of the server.
* `WorkspaceCatalog` and the ROOT files of the bootstrap: a function of texts and
  directories without state, whose substance is its regular expressions.
* The checks of the policy file field by field; arguments of the script.
* Failing writes of records and logs in the middle of a run. `CompositeRecordStore`
  appends to memory before the file, so memory may be one record ahead; the exception
  leaves `execute`, and nobody sees the memory store then.
* File formats, the unified diff as such, event logs, generated stubs, examples.

## Plan

1. *Done:* `ReplServer`, `StateLife`, their runs, the inductive invariant; `Replay`;
   `Policy`, `Orchestrator`; `TaskEngine`, its runs and first proofs; `RepairRun`, the
   composition with localizer, snapshot and export.
2. *Done:* the proofs: the safety properties and the refinement of `ReplServer`; the
   caches of `Replay`; the invariants of `Orchestrator`; type correctness, first closing,
   giving up and fallback of `TaskEngine`; `RepairRun` as an implementation of
   `Orchestrator`, its types, bounds, links, anchor, repaired commands and patched file.
3. *Left:* liveness, which is beyond the provers. `PatchIsValidated` for layouts in which
   commands share lines does not hold (`repair_patch`).

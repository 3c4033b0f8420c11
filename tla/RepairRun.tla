----------------------------- MODULE RepairRun -----------------------------
(***************************************************************************)
(* One run of scripts/run_repair_once.py: the orchestrator composed with   *)
(* ReplBlockLocalizer, WorkingTheorySnapshot and the export of             *)
(* TheoryRepairRun, on one theory in one session of the server.            *)
(*                                                                         *)
(* What a state on the server contains is the sequence of texts executed   *)
(* to reach it.  The prover answers a text at a state always the same      *)
(* (answers), but any execution may time out, and any call of the client   *)
(* may raise.  An artifact the engine accepts was executed at the anchor   *)
(* with success (module TaskEngine, AcceptedCloses).                       *)
(***************************************************************************)
EXTENDS Orchestrator, IndexOrder

CONSTANTS
    Theories,   \* the theories a run may be started on
    MaxDrifts   \* bound: failures of get_state_info

\* TheoryCommand: its lines, and of its kind what the localizer asks for.
Command ==
    [line : Nat \ {0}, last : Nat \ {0}, kind : {"theory", "closing", "statement", "other"}]

\* A theory lists its commands in the order of the file.
ASSUME RepairAssumption ==
    /\ Theories \subseteq Seq(Command) /\ MaxDrifts \in Nat
    /\ \A t \in Theories : \A i, j \in DOMAIN t : i < j => t[i].line <= t[j].line

\* A text to execute: command cmd as the file has it, a tactic of the engine
\* or a replacement of the reviewer.
Text == [cmd : Nat, by : {"file", "candidate", "replacement"}]
Original(i) == [cmd |-> i, by |-> "file"]
Tactic(by) == [cmd |-> 0, by |-> by]

VARIABLES
    theory,       \* what list_theory_commands returns
    loc,          \* where next_task is: "idle", "rebuild" or "walk"
    anchored,     \* the snapshot has a current_anchor_state_id
    contents,     \* ... and what that state contains
    cursor,       \* command_cursor: the last command executed, 0 at first
    replay,       \* the anchor being rebuilt: the command reached, its contents
    replacements, \* applied_replacements
    digest,       \* last_failure_digest: its reason, and whether it names a drift
    tasks,        \* the LocalizedTasks so far
    answers,      \* what the prover answered so far, timeouts aside
    drifts, held, \* drifts met; states the localizer created on the server
    session,      \* "none", "open" or "destroyed"
    patch,        \* what was exported: nothing, the diff, also the JSON, also the record
    phase         \* where the script is

snapshotVars == <<anchored, contents, cursor, digest>>
localizerVars == <<theory, loc, replay, drifts, held>>
scriptVars == <<session, patch, phase>>
repairVars == <<snapshotVars, localizerVars, scriptVars, replacements, tasks, answers>>
allVars == <<vars, repairVars>>

RepairInit ==
    /\ Init
    /\ theory \in Theories
    /\ loc = "idle"
    /\ anchored = FALSE
    /\ contents = <<>>
    /\ cursor = 0
    /\ replay = [at |-> 0, contents |-> <<>>]
    /\ replacements = <<>>
    /\ digest = [reason |-> "none", drift |-> FALSE]
    /\ tasks = <<>>
    /\ answers = {}
    /\ drifts = 0
    /\ held = 0
    /\ session = "none"
    /\ patch = "none"
    /\ phase = "start"

-----------------------------------------------------------------------------
(* WorkingTheorySnapshot                                                   *)

ReplacementsAt(line) == {k \in DOMAIN replacements : replacements[k].line = line}

MutFirstReplacement(line) ==  \* mutant: the oldest replacement of the line
    replacements[Min(ReplacementsAt(line))].text

\* replacement_for_line, and by_line of _render_patched_text: the latest.
ReplacementForLine(line) == replacements[Max(ReplacementsAt(line))].text

MutIgnoreReplacements(i) == Original(i)  \* mutant: the text of the file

\* The text of a command as the localizer executes it.
EffectiveText(i) ==
    IF ReplacementsAt(theory[i].line) = {} THEN Original(i) ELSE ReplacementForLine(theory[i].line)

\* The part of a text that stands on one line.
Piece(text, part) == [text |-> text, part |-> part]

\* _render_patched_text: a replacement takes the place of one line, the first
\* of its command, whatever else stands there.
RenderLine(line) ==
    LET on == Ascending({i \in DOMAIN theory : theory[i].line <= line /\ line <= theory[i].last})
    IN  IF ReplacementsAt(line) # {} THEN <<Piece(ReplacementForLine(line), 0)>>
        ELSE [k \in DOMAIN on |-> Piece(Original(on[k]), line - theory[on[k]].line)]

RenderPatchedText ==
    FlattenSeq([line \in 1 .. (IF theory = <<>> THEN 0 ELSE Last(theory).last) |-> RenderLine(line)])

\* Reference: the lines of a text that is complete.
Pieces(text) ==
    IF text.by # "file" THEN <<Piece(text, 0)>>
    ELSE [k \in 1 .. theory[text.cmd].last - theory[text.cmd].line + 1 |-> Piece(text, k - 1)]

\* set_anchor
SetAnchor(texts, index) ==
    /\ anchored' = TRUE
    /\ contents' = texts
    /\ cursor' = index

MutNoLine(task) == 0  \* mutant: a task without a line is accepted

\* _command_line_for_task
CommandLineForTask(task) == theory[task.index].line

\* apply_artifact
Patched(rec) ==
    Append(replacements,
        [line |-> CommandLineForTask(Last(tasks)), task |-> Task, rec |-> rec,
         text |-> IF res.text = "block" THEN Last(tasks).text ELSE Tactic(res.text)])

-----------------------------------------------------------------------------
(* ReplBlockLocalizer.next_task                                            *)

\* client.execute of a text at a state that contains at.
Answered(at, text, ok) ==
    /\ \A a \in answers : a.at = at /\ a.text = text => a.ok = ok
    /\ answers' = answers \union {[at |-> at, text |-> text, ok |-> ok]}

\* _header_index; 0 stands for -1
Headers == {i \in DOMAIN theory : theory[i].kind = "theory"}
HeaderIndex == IF Headers = {} THEN 0 ELSE Min(Headers)

\* What the state of init_after_header contains: the server executes all
\* commands up to the line of the header (module Replay, FromScratch), the first
\* ones of the file.
AfterHeader ==
    LET upTo == {i \in DOMAIN theory : theory[i].line <= theory[HeaderIndex].line}
    IN  [k \in 1 .. Cardinality(upTo) |-> Original(k)]

ClassifyFailure(kind, mode) ==
    CASE mode = "PROOF" /\ kind = "closing" -> "proof_body_failure"
      [] mode = "PROOF" \/ kind = "statement" -> "statement_failure"
      [] OTHER -> "non_proof_command_failure"

\* next_task was called and has not looked at anything yet.
Called ==
    /\ phase = "run"
    /\ pc = "loop" /\ state = "ACTIVE" /\ steps < MaxSteps
    /\ loc = "idle"

\* next_task returns None.
ReturnNone ==
    /\ NoNextTask
    /\ loc' = "idle"
    /\ UNCHANGED <<theory, scriptVars, replacements, tasks>>

\* No commands were parsed.
NothingToDo ==
    /\ Called
    /\ theory = <<>>
    /\ ReturnNone
    /\ UNCHANGED <<snapshotVars, replay, drifts, held, answers>>

\* _bootstrap_anchor; without a header the client raises.
BootstrapAnchor ==
    /\ Called
    /\ ~ anchored /\ HeaderIndex # 0
    /\ SetAnchor(AfterHeader, HeaderIndex)
    /\ digest' = [reason |-> "none", drift |-> FALSE]
    /\ held' = held + 1
    /\ loc' = "walk"
    /\ UNCHANGED <<vars, theory, replay, drifts, scriptVars, replacements, tasks, answers>>

\* The server registers the last success of a call that fails, if there is one, and
\* a state before its description is built, which may fail: a call without a result
\* may leave a state behind.
MayLeaveState == held' \in {held, held + 1}

BootstrapFails ==
    /\ Called
    /\ ~ anchored /\ HeaderIndex # 0
    /\ digest' = [reason |-> "init_after_header_failed", drift |-> FALSE]
    /\ MayLeaveState
    /\ ReturnNone
    /\ UNCHANGED <<anchored, contents, cursor, replay, drifts, answers>>

\* Mutant: the anchor is never trusted.
MutAlwaysRebuild ==
    /\ Called
    /\ anchored
    /\ replay' = [at |-> HeaderIndex, contents |-> AfterHeader]
    /\ held' = held + 1
    /\ loc' = "rebuild"
    /\ UNCHANGED <<vars, snapshotVars, theory, drifts, scriptVars, replacements, tasks, answers>>

\* _detect_drift finds the anchor as the snapshot describes it: states on the
\* server never change.
NoDrift ==
    /\ Called
    /\ anchored
    /\ loc' = "walk"
    /\ UNCHANGED <<vars, snapshotVars, theory, replay, drifts, held, scriptVars, replacements,
                   tasks, answers>>

\* get_state_info raised: _rebuild_anchor_from_header begins.
Drift ==
    /\ Called
    /\ anchored /\ drifts < MaxDrifts
    /\ drifts' = drifts + 1
    /\ digest' = [reason |-> "drift", drift |-> TRUE]
    /\ \/ /\ replay' = [at |-> HeaderIndex, contents |-> AfterHeader]
          /\ held' = held + 1
          /\ loc' = "rebuild"
          /\ UNCHANGED <<vars, theory, scriptVars, replacements, tasks>>
       \/ /\ MayLeaveState
          /\ ReturnNone
          /\ UNCHANGED replay
    /\ UNCHANGED <<anchored, contents, cursor, answers>>

ReplayCommand ==
    LET text == EffectiveText(replay.at + 1) IN
    /\ loc = "rebuild"
    /\ replay.at < cursor
    /\ held' = held + 1
    /\ \/ /\ Answered(replay.contents, text, TRUE)
          /\ replay' = [at |-> replay.at + 1, contents |-> Append(replay.contents, text)]
          /\ UNCHANGED <<vars, loc, theory, digest, scriptVars, replacements, tasks>>
       \/ /\ Answered(replay.contents, text, FALSE) \/ UNCHANGED answers
          /\ digest' = [reason |-> "rebuild_anchor_failed", drift |-> TRUE]
          /\ ReturnNone
          /\ UNCHANGED replay
    /\ UNCHANGED <<anchored, contents, cursor, drifts>>

\* Mutant: the last command before the cursor is not replayed.
MutReplayOneShort ==
    /\ loc = "rebuild"
    /\ replay.at >= cursor - 1
    /\ SetAnchor(replay.contents, cursor)
    /\ digest' = [reason |-> "rebuild_anchor_success", drift |-> TRUE]
    /\ loc' = "walk"
    /\ UNCHANGED <<vars, theory, replay, drifts, held, scriptVars, replacements, tasks, answers>>

Rebuilt ==
    /\ loc = "rebuild"
    /\ replay.at = cursor
    /\ SetAnchor(replay.contents, cursor)
    /\ digest' = [reason |-> "rebuild_anchor_success", drift |-> TRUE]
    /\ loc' = "walk"
    /\ UNCHANGED <<vars, theory, replay, drifts, held, scriptVars, replacements, tasks, answers>>

WalkOn ==
    /\ loc = "walk"
    /\ cursor < Len(theory)
    /\ held' = held + 1
    /\ LET text == EffectiveText(cursor + 1) IN
          /\ Answered(contents, text, TRUE)
          /\ SetAnchor(Append(contents, text), cursor + 1)
    /\ UNCHANGED <<vars, theory, loc, replay, drifts, digest, scriptVars, replacements, tasks>>

\* The next command fails: it is the next task.  The mode of the anchor is the
\* prover's; nothing but the classification depends on it.
LocalizeFailure ==
    LET text == EffectiveText(cursor + 1) IN
    /\ loc = "walk"
    /\ cursor < Len(theory)
    /\ NextTask
    /\ held' = held + 1
    /\ \E mode \in {"PROOF", "THEORY"} :
          failure' = ClassifyFailure(theory[cursor + 1].kind, mode)
    /\ \E timeout \in BOOLEAN :
          /\ IF timeout THEN UNCHANGED answers ELSE Answered(contents, text, FALSE)
          /\ tasks' = Append(tasks, [index |-> cursor + 1, text |-> text, timeout |-> timeout,
                                     drift |-> digest.drift])
    /\ digest' = [reason |-> "command_execution_failure", drift |-> digest.drift]
    /\ loc' = "idle"
    /\ UNCHANGED <<anchored, contents, cursor, theory, replay, drifts, scriptVars, replacements>>

\* Mutant: the last command is left out.
MutStopShort ==
    /\ loc = "walk"
    /\ cursor >= Len(theory) - 1
    /\ ReturnNone
    /\ UNCHANGED <<snapshotVars, replay, drifts, held, answers>>

TheoryEnds ==
    /\ loc = "walk"
    /\ cursor = Len(theory)
    /\ ReturnNone
    /\ UNCHANGED <<snapshotVars, replay, drifts, held, answers>>

-----------------------------------------------------------------------------
(* The orchestrator's steps, with what they do to the snapshot             *)

\* The engine, and validate_candidate, execute at the anchor.
ValidatedAtAnchor(by, passed) ==
    IF passed THEN Answered(contents, Tactic(by), TRUE) ELSE UNCHANGED answers

RepairTask ==
    /\ RunTask
    /\ ValidatedAtAnchor("candidate", res'.text = "candidate")
    /\ UNCHANGED <<snapshotVars, localizerVars, scriptVars, replacements, tasks>>

ReviewReplacement ==
    /\ ValidateReplacement
    /\ ValidatedAtAnchor("replacement", pc' = "accept")
    /\ UNCHANGED <<snapshotVars, localizerVars, scriptVars, replacements, tasks>>

\* Mutant: the artifact record is not attached to the replacement.
MutUnlinked ==
    /\ ApplyAcceptedArtifact
    /\ replacements' = Patched(<<>>)
    /\ UNCHANGED <<snapshotVars, localizerVars, scriptVars, tasks, answers>>

\* apply_artifact, the ARTIFACT record and attach_artifact_record_id: a record is
\* named by its task and its place among the records of the task.
ApplyToSnapshot ==
    /\ ApplyAcceptedArtifact
    /\ replacements' = Patched(<<Task, Len(records[Task]) + 1>>)
    /\ UNCHANGED <<snapshotVars, localizerVars, scriptVars, tasks, answers>>

\* The rest of the orchestrator's steps.  ReplDeterministicTaskEngine never sets
\* requires_rerun, without which no continuation is gated (GateContinuation).
DecideTask ==
    /\ \/ LeaveLoop \/ GateOrReview \/ HandleResponse \/ ResolvePlaceholderRequest
       \/ AcceptResponse \/ Return \/ SkipApply
    /\ UNCHANGED repairVars

\* Mutant: an exception is not caught by a finally.
MutNoFinally ==
    /\ phase = "run" /\ pc # "apply"
    /\ Raise
    /\ loc' = "idle"
    /\ phase' = "ended"
    /\ IF pc = "loop" THEN MayLeaveState ELSE UNCHANGED held
    /\ UNCHANGED <<snapshotVars, theory, replay, drifts, session, patch, replacements, tasks,
                   answers>>

\* An exception leaves execute, of a call of next_task as well, and nothing reads the
\* snapshot any more.  A task of the localizer has a line, so apply_artifact does not
\* raise.
Abort ==
    /\ phase = "run" /\ pc # "apply"
    /\ Raise
    /\ loc' = "idle"
    /\ phase' = "release"
    /\ IF pc = "loop" THEN MayLeaveState ELSE UNCHANGED held
    /\ UNCHANGED <<snapshotVars, theory, replay, drifts, session, patch, replacements, tasks,
                   answers>>

-----------------------------------------------------------------------------
(* main of run_repair_once.py, and TheoryRepairRun.execute                 *)

CreateSession ==
    /\ phase = "start"
    /\ \/ session' = "open" /\ phase' = "load"
       \/ session' = "none" /\ phase' = "ended"
    /\ UNCHANGED <<vars, snapshotVars, localizerVars, patch, replacements, tasks, answers>>

LoadTheory ==
    /\ phase = "load"
    /\ phase' \in {"ready", "release"}
    /\ UNCHANGED <<vars, snapshotVars, localizerVars, session, patch, replacements, tasks, answers>>

Execute ==
    /\ phase = "ready"
    /\ RunUntilTerminal
    /\ phase' = "run"
    /\ UNCHANGED <<snapshotVars, localizerVars, session, patch, replacements, tasks, answers>>

ReturnState ==
    /\ Exit
    /\ phase' = "export"
    /\ UNCHANGED <<snapshotVars, localizerVars, session, patch, replacements, tasks, answers>>

Exportable == state \in {"COMPLETED", "FINISHED"} /\ replacements # <<>>

\* export_patch_provenance_links
PatchProvenanceLinks ==
    [k \in DOMAIN replacements |-> [task |-> replacements[k].task, rec |-> replacements[k].rec]]

\* _export_patch_artifacts: the diff, the JSON patch, the PROVENANCE record; each
\* write may raise.
ExportPatchArtifacts ==
    /\ phase = "export"
    /\ \/ /\ Exportable
          /\ patch' = CASE patch = "none" -> "diff" [] patch = "diff" -> "json" [] OTHER -> "linked"
          /\ phase' = IF patch' = "linked" THEN "release" ELSE "export"
       \/ /\ phase' = "release"
          /\ UNCHANGED patch
    /\ UNCHANGED <<vars, snapshotVars, localizerVars, session, replacements, tasks, answers>>

\* The finally of main.
DestroySession ==
    /\ phase = "release"
    /\ session' = "destroyed"
    /\ phase' = "ended"
    /\ UNCHANGED <<vars, snapshotVars, localizerVars, patch, replacements, tasks, answers>>

Localize ==
    \/ NothingToDo \/ BootstrapAnchor \/ BootstrapFails \/ NoDrift \/ Drift \/ ReplayCommand
    \/ Rebuilt \/ WalkOn \/ LocalizeFailure \/ TheoryEnds

RepairStep ==
    \/ CreateSession \/ LoadTheory \/ Execute \/ Localize \/ RepairTask \/ ReviewReplacement
    \/ ApplyToSnapshot \/ DecideTask \/ Abort \/ ReturnState \/ ExportPatchArtifacts
    \/ DestroySession

Ended ==
    /\ phase = "ended"
    /\ UNCHANGED allVars

RepairNext == RepairStep \/ Ended

RepairSpec == RepairInit /\ [][RepairNext]_allVars
FairRepairSpec == RepairSpec /\ WF_allVars(RepairStep)
-----------------------------------------------------------------------------
(* What theorems about the snapshot ask of the theories and the engine     *)

\* One command to a line.
LinesApart == \A t \in Theories : \A i, j \in DOMAIN t : i < j => t[i].line < t[j].line

\* Commands stand apart, and those behind the header on one line each.
OnOneLine ==
    \A t \in Theories :
        /\ \A i \in DOMAIN t : t[i].line <= t[i].last
        /\ \A i, j \in DOMAIN t : i < j => t[i].last < t[j].line
        /\ \A h, i \in DOMAIN t : t[h].kind = "theory" /\ h < i => t[i].last = t[i].line

\* Replacements come from the reviewer; the engine offers candidates and blocks.
EngineTexts == \A r \in Results : r.text # "replacement"

-----------------------------------------------------------------------------
(* Properties                                                              *)

\* Every variable has its type; a replacement has a line, as apply_artifact
\* demands, and the cursor a command.
RepairTypeOK ==
    /\ theory \in Theories
    /\ loc \in {"idle", "rebuild", "walk"}
    /\ anchored \in BOOLEAN
    /\ contents \in Seq(Text) /\ replay \in [at : 0 .. Len(theory), contents : Seq(Text)]
    /\ cursor \in 0 .. Len(theory)
    /\ replacements \in Seq([line : Nat \ {0}, task : Nat, rec : Seq(Nat), text : Text])
    /\ tasks \in Seq([index : DOMAIN theory, text : Text, timeout : BOOLEAN, drift : BOOLEAN])
    /\ digest \in [reason : {"none", "drift", "init_after_header_failed", "rebuild_anchor_failed",
                             "rebuild_anchor_success", "command_execution_failure"},
                   drift : BOOLEAN]
    /\ drifts \in 0 .. MaxDrifts /\ held \in Nat
    /\ session \in {"none", "open", "destroyed"}
    /\ patch \in {"none", "diff", "json", "linked"}
    /\ phase \in {"start", "load", "ready", "run", "export", "release", "ended"}

\* What the anchor executed is what the patched file says up to the cursor:
\* the file that is exported was run as it stands (_render_patched_text and the
\* localizer's effective texts are computed apart, both by line).
PatchIsValidated ==
    anchored =>
        IsPrefix(FlattenSeq([k \in DOMAIN contents |-> Pieces(contents[k])]), RenderPatchedText)

\* The anchor's contents are only ever extended: a rebuild after a drift gives
\* back the state that was lost, with all repairs integrated before, and the
\* cursor never goes back, which set_anchor would refuse.
AnchorOnlyExtends == [][IsPrefix(contents, contents') /\ cursor' >= cursor]_<<contents, cursor>>

\* A command whose repair was integrated is localized again only if executing
\* it timed out: the repair is found by its line, executed in the state it was
\* validated in, also after a rebuild.
NotReportedAgain ==
    \A i, j \in DOMAIN tasks :
        /\ i < j /\ tasks[i].index = tasks[j].index
        /\ \E a \in Range(applied) : a.task = i /\ a.kind = "repair"
        => tasks[j].timeout

\* A run that finishes with an anchor has executed the whole theory in one line of
\* states, each command with the text that is in effect in the end: no command is
\* skipped and none stands as it was before its repair, whatever tasks, rejections,
\* drifts and rebuilds were on the way.
FinishedIsRepaired ==
    /\ state = "FINISHED"
    /\ digest.reason \notin {"drift", "init_after_header_failed", "rebuild_anchor_failed"}
    => contents = [i \in DOMAIN theory |-> EffectiveText(i)]

\* The contract of the run: finished is theory-wide completion.
FinishedIsComplete == state = "FINISHED" => cursor = Len(theory)

\* execute returned or raised, or is about to return.
Over == state \in Terminal \/ phase \in {"export", "release", "ended"}

\* The states the localizer leaves on the server: each command once, each failure
\* once, and a replay from the header only for a drift; then at most one of the call
\* that ended the run, which no one knows of.
HeldBounded ==
    held <= (IF anchored THEN (1 + drifts) * (1 + cursor - HeaderIndex) + Len(tasks) ELSE 0)
            + (IF Over THEN 1 ELSE 0)

\* When the export is recorded, each of its entries names an ARTIFACT record of
\* its own task, whatever reviews, rejected tasks and repeated failures went before.
ExportLinked ==
    patch = "linked" =>
        \A link \in Range(PatchProvenanceLinks) :
            /\ link.rec # <<>> /\ link.rec[1] = link.task
            /\ records[link.task][link.rec[2]] = "artifact"

\* The session, and with it every state of the run, is destroyed in the end,
\* however the run ends.
SessionDestroyed == (session = "open") ~> (session = "destroyed")

\* After a committed placeholder the run goes on to later failures, unless the
\* command timed out.
PlaceholderExposesLater ==
    \A i, j \in DOMAIN tasks :
        /\ i < j
        /\ \E a \in Range(applied) : a.task = i /\ a.kind = "placeholder"
        => tasks[j].index > tasks[i].index \/ tasks[j].timeout
=============================================================================

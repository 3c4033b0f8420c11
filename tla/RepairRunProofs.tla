-------------------------- MODULE RepairRunProofs ---------------------------
(***************************************************************************)
(* A repair run is a run of the orchestrator, and what the localizer, the  *)
(* snapshot and the export do around it is sound: for every theory, any    *)
(* number of drifts, timeouts and exceptions.                              *)
(***************************************************************************)
EXTENDS RepairRun, OrchestratorProofs, SequenceProofs

\* A task is being worked on.
Working == pc \notin {"out", "loop", "exit"}

\* next_task runs inside the loop of an active run.
LocalizerInv ==
    loc # "idle" =>
        /\ phase = "run" /\ anchored
        /\ pc = "loop" /\ state = "ACTIVE" /\ steps < MaxSteps

\* The localizer, the snapshot and the records count the same tasks; the one at
\* work is the command after the anchor.
PlacesInv ==
    /\ Len(tasks) = Task
    /\ anchored => HeaderIndex \in 1 .. cursor
    /\ ~ anchored => contents = <<>> /\ cursor = 0 /\ tasks = <<>>
    /\ loc = "rebuild" => HeaderIndex <= replay.at /\ replay.at <= cursor
    /\ Working => tasks # <<>> /\ Last(tasks).index = cursor + 1 /\ cursor < Len(theory)
    /\ \A i \in DOMAIN tasks : tasks[i].index <= cursor + 1

\* A run that finishes executed the last command, or its digest says why not.
FinishedInv ==
    /\ state = "FINISHED"
    /\ digest.reason \notin {"drift", "init_after_header_failed", "rebuild_anchor_failed"}
    => theory = <<>> \/ (anchored /\ cursor = Len(theory))

\* What the localizer holds, also halfway through a rebuild.
HeldInv ==
    /\ HeldBounded
    /\ loc = "rebuild" =>
          held <= drifts * (1 + cursor - HeaderIndex) + (1 + replay.at - HeaderIndex) + Len(tasks)

\* Every replacement names the ARTIFACT record of its task.
LinkInv ==
    \A k \in DOMAIN replacements :
        LET r == replacements[k] IN
        /\ r.task \in 1 .. Task /\ Len(r.rec) = 2 /\ r.rec[1] = r.task
        /\ r.rec[2] \in 1 .. Len(records[r.task])
        /\ records[r.task][r.rec[2]] = "artifact"

\* The texts in effect.
Effective == [i \in 1 .. Len(theory) |-> EffectiveText(i)]

\* What a state contains that was reached by executing the theory up to a command.
Reached(texts, n) ==
    /\ texts \in Seq(Text)
    /\ Len(texts) = Len(AfterHeader) + (n - HeaderIndex)
    /\ \A k \in 1 .. Len(AfterHeader) : texts[k] = AfterHeader[k]
    /\ \A k \in 1 .. n - HeaderIndex : texts[Len(AfterHeader) + k] = Effective[HeaderIndex + k]

\* The anchor, and a rebuilt one, was reached with the texts in effect now.
AnchorInv ==
    /\ anchored => Reached(contents, cursor)
    /\ loc = "rebuild" => Reached(replay.contents, replay.at)

\* A text that was executed with success at the anchor, and a task whose repair was
\* integrated.
Validated(text) == [at |-> contents, text |-> text, ok |-> TRUE] \in answers
Repaired(i) == \E a \in Range(applied) : a.task = i /\ a.kind = "repair"

\* The text in effect for a command that was repaired was executed with success at
\* the anchor, and so was the artifact of the task at work.
RepairedInv ==
    /\ NotReportedAgain
    /\ \A i \in DOMAIN tasks :
          tasks[i].index = cursor + 1 /\ Repaired(i) => Validated(Effective[cursor + 1])
    /\ Working /\ pc # "engine" /\ res.text \in {"candidate", "replacement"} =>
          Validated(Tactic(res.text))
    /\ Working /\ ~ Settled => Last(tasks).text = Effective[cursor + 1]

-----------------------------------------------------------------------------
(* A repair run is a run of the orchestrator                               *)

\* The steps of the localizer that leave the orchestrator alone.
LEMMA LocalizeQuiet ==
    ASSUME Localize
    PROVE  UNCHANGED vars \/ NoNextTask \/ NextTask
BY DEF Localize, NothingToDo, BootstrapAnchor, BootstrapFails, NoDrift, Drift, ReplayCommand,
   Rebuilt, WalkOn, LocalizeFailure, TheoryEnds, ReturnNone

\* Every step of the script is a step of the orchestrator, or leaves it alone.
LEMMA RepairStepIsStep ==
    ASSUME [RepairNext]_allVars
    PROVE  [Next]_vars
<1>1. CASE Localize
  BY <1>1, LocalizeQuiet DEF Next, Step
<1>2. CASE CreateSession \/ LoadTheory \/ ExportPatchArtifacts \/ DestroySession
  BY <1>2 DEF CreateSession, LoadTheory, ExportPatchArtifacts, DestroySession
<1>3. CASE Execute \/ RepairTask \/ ReviewReplacement \/ ApplyToSnapshot \/ Abort \/ ReturnState
  BY <1>3 DEF Execute, RepairTask, ReviewReplacement, ApplyToSnapshot, Abort, ReturnState, Next, Step
<1>4. CASE DecideTask
  BY <1>4 DEF DecideTask, Next, Step
<1>5. CASE UNCHANGED allVars
  BY <1>5 DEF allVars
<1> QED
  BY <1>1, <1>2, <1>3, <1>4, <1>5 DEF RepairNext, RepairStep, Ended

\* The composition with the localizer, the snapshot and the script restricts the
\* orchestrator and adds nothing to what it does: all that is proved of the
\* orchestrator holds of a repair run.
THEOREM RepairImplementsOrchestrator == RepairSpec => Spec
<1>1. RepairInit => Init
  BY DEF RepairInit
<1>2. [RepairNext]_allVars => [Next]_vars
  BY RepairStepIsStep
<1> QED
  BY <1>1, <1>2, PTL DEF RepairSpec, Spec

\* With the rule-based gate of the script, the risk rules hold of a repair run.
THEOREM RepairRiskReviewed ==
    ASSUME RuleGated, BlockEscalated
    PROVE  RepairSpec => []RiskReviewed
BY RepairImplementsOrchestrator, RiskIsReviewed, PTL

-----------------------------------------------------------------------------
(* The end of a run                                                        *)

\* Every step keeps next_task inside the loop.
LEMMA LocalizerKeeps ==
    ASSUME LocalizerInv, [RepairNext]_allVars
    PROVE  LocalizerInv'
<1>1. CASE NothingToDo \/ BootstrapFails \/ LocalizeFailure \/ TheoryEnds
  <2>1. loc' = "idle"
    BY <1>1 DEF NothingToDo, BootstrapFails, LocalizeFailure, TheoryEnds, ReturnNone
  <2> QED
    BY <2>1 DEF LocalizerInv
<1>2. CASE BootstrapAnchor \/ NoDrift
  BY <1>2 DEF LocalizerInv, BootstrapAnchor, NoDrift, Called, SetAnchor, vars, snapshotVars,
     scriptVars
<1>3. CASE Drift
  BY <1>3 DEF LocalizerInv, Drift, ReturnNone, Called, vars, snapshotVars, scriptVars
<1>4. CASE ReplayCommand
  BY <1>4 DEF LocalizerInv, ReplayCommand, ReturnNone, vars, scriptVars
<1>5. CASE Rebuilt \/ WalkOn
  BY <1>5 DEF LocalizerInv, Rebuilt, WalkOn, SetAnchor, vars, scriptVars
<1>6. CASE RepairTask \/ ReviewReplacement \/ ApplyToSnapshot \/ ReturnState \/ Execute
  <2>1. loc' = loc /\ pc # "loop"
    BY <1>6 DEF RepairTask, ReviewReplacement, ApplyToSnapshot, ReturnState, Execute,
       RunTask, ValidateReplacement, ApplyAcceptedArtifact, Exit, RunUntilTerminal, localizerVars
  <2> QED
    BY <2>1 DEF LocalizerInv
<1>7. CASE DecideTask
  <2>1. loc' = loc /\ (pc # "loop" \/ state # "ACTIVE" \/ steps = MaxSteps)
    BY <1>7 DEF DecideTask, LeaveLoop, GateOrReview, HandleResponse, ResolvePlaceholderRequest,
       AcceptResponse, Return, SkipApply, repairVars, localizerVars
  <2> QED
    BY <2>1, RunAssumption DEF LocalizerInv
<1>8. CASE Abort
  BY <1>8 DEF Abort, LocalizerInv
<1>9. CASE CreateSession \/ LoadTheory \/ ExportPatchArtifacts \/ DestroySession
  <2>1. loc' = loc /\ phase # "run"
    BY <1>9 DEF CreateSession, LoadTheory, ExportPatchArtifacts, DestroySession, localizerVars
  <2> QED
    BY <2>1 DEF LocalizerInv
<1>10. CASE UNCHANGED allVars
  BY <1>10 DEF LocalizerInv, allVars, vars, repairVars, localizerVars, scriptVars, snapshotVars
<1> QED
  BY <1>1, <1>2, <1>3, <1>4, <1>5, <1>6, <1>7, <1>8, <1>9, <1>10
     DEF RepairNext, RepairStep, Localize, Ended

\* What the steps of the orchestrator may do to the state of the run: only the
\* end of the localizer finishes it.
LEMMA OnlyNoTaskFinishes ==
    ASSUME Next, ~ NoNextTask, state' = "FINISHED"
    PROVE  state = "FINISHED"
<1>1. CASE NextTask \/ LeaveLoop \/ Exit \/ ValidateReplacement \/ Return \/ SkipApply \/ Raise
             \/ RunUntilTerminal \/ ResumeFromReview \/ Rest
  BY <1>1 DEF NextTask, LeaveLoop, Exit, ValidateReplacement, Return, SkipApply, Raise,
     RunUntilTerminal, ResumeFromReview, Rest, vars
<1>2. CASE RunTask \/ GateOrReview \/ HandleResponse \/ ResolvePlaceholderRequest
  BY <1>2 DEF RunTask, GateOrReview, HandleResponse, ResolvePlaceholderRequest, EnterReview
<1>3. CASE AcceptResponse \/ ApplyAcceptedArtifact \/ GateContinuation
  BY <1>3 DEF AcceptResponse, ApplyAcceptedArtifact, GateContinuation, EnterReview, Finalize
<1> QED
  BY <1>1, <1>2, <1>3 DEF Next, Step

-----------------------------------------------------------------------------
(* Places and types                                                        *)

\* The header is a command of the theory, and the state behind it contains texts.
LEMMA HeaderTyped ==
    ASSUME theory \in Theories
    PROVE  /\ theory \in Seq(Command) /\ Len(theory) \in Nat
           /\ HeaderIndex \in 0 .. Len(theory)
           /\ AfterHeader \in Seq(Text)
<1>1. theory \in Seq(Command) /\ Len(theory) \in Nat /\ DOMAIN theory = 1 .. Len(theory)
  BY RepairAssumption
<1>2. HeaderIndex \in 0 .. Len(theory)
  <2>1. CASE Headers = {}
    BY <1>1, <2>1 DEF HeaderIndex
  <2>2. CASE Headers # {}
    <3>1. Headers \subseteq 1 .. Len(theory)
      BY <1>1 DEF Headers
    <3>2. 1 .. Len(theory) \subseteq Nat /\ 1 .. Len(theory) \subseteq 0 .. Len(theory)
      BY <1>1
    <3>3. Min(Headers) \in Headers
      BY <2>2, <3>1, <3>2, LeastNatural
    <3>4. HeaderIndex = Min(Headers)
      BY <2>2 DEF HeaderIndex
    <3> QED
      BY <3>1, <3>2, <3>3, <3>4
  <2> QED
    BY <2>1, <2>2
<1>3. AfterHeader \in Seq(Text)
  <2> DEFINE upTo == {i \in DOMAIN theory : theory[i].line <= theory[HeaderIndex].line}
  <2>1. IsFiniteSet(1 .. Len(theory))
    BY <1>1, FS_Interval
  <2>2. upTo \in SUBSET (1 .. Len(theory))
    BY <1>1
  <2>3. IsFiniteSet(upTo)
    BY <2>1, <2>2, FS_Subset
  <2>4. Cardinality(upTo) \in Nat
    BY <2>3, FS_CardinalityType
  <2>5. \A k \in 1 .. Cardinality(upTo) : Original(k) \in Text
    BY <2>4 DEF Original, Text
  <2>6. [k \in 1 .. Cardinality(upTo) |-> Original(k)] \in Seq(Text)
    BY <2>4, <2>5
  <2> QED
    BY <2>6 DEF AfterHeader
<1> QED
  BY <1>1, <1>2, <1>3

\* What replaces a line is the latest replacement of it.
LEMMA LatestReplacement ==
    ASSUME replacements \in Seq([line : Nat \ {0}, task : Nat, rec : Seq(Nat), text : Text]),
           NEW line, ReplacementsAt(line) # {}
    PROVE  /\ Max(ReplacementsAt(line)) \in 1 .. Len(replacements)
           /\ Max(ReplacementsAt(line)) \in ReplacementsAt(line)
           /\ \A k \in ReplacementsAt(line) : k <= Max(ReplacementsAt(line))
           /\ ReplacementForLine(line) \in Text
<1>1. ReplacementsAt(line) \subseteq 1 .. Len(replacements) /\ Len(replacements) \in Nat
  BY DEF ReplacementsAt
<1>a. ReplacementsAt(line) \subseteq 0 .. Len(replacements)
  BY <1>1
<1>2. /\ Max(ReplacementsAt(line)) \in ReplacementsAt(line)
      /\ \A k \in ReplacementsAt(line) : k <= Max(ReplacementsAt(line))
  BY <1>1, <1>a, GreatestNatural
<1>3. Max(ReplacementsAt(line)) \in 1 .. Len(replacements)
  BY <1>1, <1>2
<1>4. replacements[Max(ReplacementsAt(line))].text \in Text
  <2>1. replacements[Max(ReplacementsAt(line))] \in
           [line : Nat \ {0}, task : Nat, rec : Seq(Nat), text : Text]
    BY <1>3, ElementOfSeq
  <2> QED
    BY <2>1
<1> QED
  BY <1>2, <1>3, <1>4 DEF ReplacementForLine

\* What is executed for a command is a text.
LEMMA EffectiveTyped ==
    ASSUME RepairTypeOK, NEW i \in 1 .. Len(theory)
    PROVE  EffectiveText(i) \in Text
<1>1. Len(theory) \in Nat
  BY HeaderTyped DEF RepairTypeOK
<1>2. CASE ReplacementsAt(theory[i].line) = {}
  BY <1>1, <1>2 DEF EffectiveText, Original, Text
<1>3. CASE ReplacementsAt(theory[i].line) # {}
  BY <1>3, LatestReplacement DEF EffectiveText, RepairTypeOK
<1> QED
  BY <1>2, <1>3

\* A finished or failed call of next_task counts no task.
LEMMA NoTaskCounted ==
    ASSUME ReturnNone
    PROVE  /\ UNCHANGED <<theory, session, patch, phase, replacements, tasks, records, applied,
                          appliedIds, res>>
           /\ loc' = "idle" /\ pc' = "exit" /\ pc = "loop" /\ state = "ACTIVE" /\ Task' = Task
           /\ state' \in {"COMPLETED", "FINISHED"}
BY DEF ReturnNone, NoNextTask, scriptVars, bookVars, Task

\* The theory is what it was.
LEMMA TheoryStays ==
    ASSUME [RepairNext]_allVars
    PROVE  theory' = theory /\ HeaderIndex' = HeaderIndex /\ AfterHeader' = AfterHeader
<1>1. theory' = theory
  BY DEF RepairNext, RepairStep, Localize, Ended, NothingToDo, BootstrapAnchor, BootstrapFails, NoDrift,
     Drift, ReplayCommand, Rebuilt, WalkOn, LocalizeFailure, TheoryEnds, ReturnNone, CreateSession,
     LoadTheory, Execute, RepairTask, ReviewReplacement, ApplyToSnapshot, DecideTask, Abort, ReturnState,
     ExportPatchArtifacts, DestroySession, allVars, repairVars, localizerVars
<1> QED
  BY <1>1 DEF HeaderIndex, Headers, AfterHeader

\* One task more.
TaskType == [index : DOMAIN theory, text : Text, timeout : BOOLEAN, drift : BOOLEAN]

\* The steps of the localizer and the snapshot are typed.
LEMMA LocalizeTyped ==
    ASSUME IInv, LocalizerInv, PlacesInv, RepairTypeOK, Localize
    PROVE  RepairTypeOK'
<1>1. /\ theory' = theory /\ theory \in Seq(Command) /\ Len(theory) \in Nat
      /\ HeaderIndex \in 0 .. Len(theory) /\ AfterHeader \in Seq(Text)
  BY TheoryStays, HeaderTyped DEF RepairNext, RepairStep, RepairTypeOK
<1>2. CASE NothingToDo \/ TheoryEnds
  BY <1>2, NoTaskCounted, ZenonT(60) DEF NothingToDo, TheoryEnds, RepairTypeOK, snapshotVars, ReturnNone
<1>3. CASE BootstrapAnchor
  <2>1. /\ anchored' = TRUE /\ contents' = AfterHeader /\ cursor' = HeaderIndex
        /\ digest' = [reason |-> "none", drift |-> FALSE] /\ held' = held + 1 /\ loc' = "walk"
        /\ UNCHANGED <<theory, replay, drifts, session, patch, phase, replacements, tasks>>
    BY <1>3 DEF BootstrapAnchor, SetAnchor, scriptVars
  <2> QED
    BY <1>1, <2>1 DEF RepairTypeOK
<1>4. CASE BootstrapFails
  <2>1. /\ digest' = [reason |-> "init_after_header_failed", drift |-> FALSE] /\ loc' = "idle"
        /\ UNCHANGED <<theory, anchored, contents, cursor, replay, drifts, session, patch, phase,
                       replacements, tasks>>
        /\ held' \in {held, held + 1}
    BY <1>4, NoTaskCounted DEF BootstrapFails, MayLeaveState
  <2>2. held' \in Nat
    BY <2>1 DEF RepairTypeOK
  <2> QED
    BY <2>1, <2>2 DEF RepairTypeOK
<1>5. CASE NoDrift
  BY <1>5 DEF NoDrift, RepairTypeOK, snapshotVars, scriptVars
<1>6. CASE Drift
  <2>1. /\ drifts < MaxDrifts /\ drifts' = drifts + 1 /\ digest' = [reason |-> "drift", drift |-> TRUE]
        /\ UNCHANGED <<theory, anchored, contents, cursor, session, patch, phase, replacements, tasks>>
        /\ \/ /\ replay' = [at |-> HeaderIndex, contents |-> AfterHeader]
              /\ held' = held + 1 /\ loc' = "rebuild"
           \/ replay' = replay /\ held' \in {held, held + 1} /\ loc' = "idle"
    BY <1>6, NoTaskCounted DEF Drift, MayLeaveState, scriptVars
  <2>2. drifts' \in 0 .. MaxDrifts
    BY <2>1, RepairAssumption DEF RepairTypeOK
  <2>3. replay' \in [at : 0 .. Len(theory), contents : Seq(Text)] /\ held' \in Nat
    BY <1>1, <2>1 DEF RepairTypeOK
  <2> QED
    BY <2>1, <2>2, <2>3 DEF RepairTypeOK
<1>7. CASE ReplayCommand
  <2> DEFINE text == EffectiveText(replay.at + 1)
  <2>1. /\ replay.at < cursor /\ held' = held + 1
        /\ UNCHANGED <<theory, anchored, contents, cursor, drifts, session, patch, phase, replacements,
                       tasks>>
        /\ \/ /\ replay' = [at |-> replay.at + 1, contents |-> Append(replay.contents, text)]
              /\ digest' = digest /\ loc' = loc
           \/ /\ replay' = replay /\ loc' = "idle"
              /\ digest' = [reason |-> "rebuild_anchor_failed", drift |-> TRUE]
    BY <1>7, NoTaskCounted DEF ReplayCommand, scriptVars
  <2>2. replay.at + 1 \in 1 .. Len(theory) /\ replay.contents \in Seq(Text)
    BY <1>1, <2>1 DEF RepairTypeOK
  <2>3. text \in Text
    BY <2>2, EffectiveTyped
  <2>4. Append(replay.contents, text) \in Seq(Text)
    BY <2>2, <2>3, AppendProperties
  <2>5. replay.at + 1 \in 0 .. Len(theory) /\ held' \in Nat
    BY <1>1, <2>1, <2>2 DEF RepairTypeOK
  <2> HIDE DEF text
  <2>6. replay' \in [at : 0 .. Len(theory), contents : Seq(Text)]
    <3>1. replay \in [at : 0 .. Len(theory), contents : Seq(Text)]
      BY DEF RepairTypeOK
    <3>2. [at |-> replay.at + 1, contents |-> Append(replay.contents, text)]
             \in [at : 0 .. Len(theory), contents : Seq(Text)]
      BY <2>4, <2>5
    <3> QED
      BY <2>1, <3>1, <3>2
  <2>7. \/ loc' = "idle" /\ digest' = [reason |-> "rebuild_anchor_failed", drift |-> TRUE]
        \/ loc' = loc /\ digest' = digest
    BY <2>1
  <2>8. UNCHANGED <<theory, anchored, contents, cursor, drifts, session, patch, phase, replacements,
                    tasks>>
    BY <2>1
  <2>9. loc' \in {"idle", "rebuild", "walk"}
    BY <2>7 DEF RepairTypeOK
  <2>10. digest' \in
            [reason : {"none", "drift", "init_after_header_failed", "rebuild_anchor_failed",
                       "rebuild_anchor_success", "command_execution_failure"}, drift : BOOLEAN]
    <3>1. CASE digest' = digest
      BY <3>1 DEF RepairTypeOK
    <3>2. CASE digest' = [reason |-> "rebuild_anchor_failed", drift |-> TRUE]
      BY <3>2
    <3> QED
      BY <2>7, <3>1, <3>2
  <2> QED
    BY <2>5, <2>6, <2>8, <2>9, <2>10 DEF RepairTypeOK
<1>8. CASE Rebuilt
  <2>1. /\ anchored' = TRUE /\ contents' = replay.contents /\ cursor' = cursor /\ loc' = "walk"
        /\ digest' = [reason |-> "rebuild_anchor_success", drift |-> TRUE]
        /\ UNCHANGED <<theory, replay, drifts, held, session, patch, phase, replacements, tasks>>
    BY <1>8 DEF Rebuilt, SetAnchor, scriptVars
  <2> QED
    BY <2>1 DEF RepairTypeOK
<1>9. CASE WalkOn
  <2> DEFINE text == EffectiveText(cursor + 1)
  <2>1. /\ cursor < Len(theory) /\ held' = held + 1 /\ anchored' = TRUE
        /\ contents' = Append(contents, text) /\ cursor' = cursor + 1
        /\ UNCHANGED <<theory, loc, replay, drifts, digest, session, patch, phase, replacements, tasks>>
    BY <1>9 DEF WalkOn, SetAnchor, scriptVars
  <2>2. cursor + 1 \in 1 .. Len(theory) /\ contents \in Seq(Text)
    BY <1>1, <2>1 DEF RepairTypeOK
  <2>3. Append(contents, text) \in Seq(Text)
    BY <2>2, EffectiveTyped, AppendProperties
  <2>4. cursor' \in 0 .. Len(theory) /\ held' \in Nat
    BY <1>1, <2>1, <2>2 DEF RepairTypeOK
  <2> QED
    BY <2>1, <2>3, <2>4 DEF RepairTypeOK
<1>10. CASE LocalizeFailure
  <2> DEFINE text == EffectiveText(cursor + 1)
  <2>1. PICK timeout \in BOOLEAN :
            tasks' = Append(tasks, [index |-> cursor + 1, text |-> text, timeout |-> timeout,
                                    drift |-> digest.drift])
    BY <1>10 DEF LocalizeFailure
  <2>2. /\ cursor < Len(theory) /\ held' = held + 1 /\ loc' = "idle"
        /\ digest' = [reason |-> "command_execution_failure", drift |-> digest.drift]
        /\ UNCHANGED <<theory, anchored, contents, cursor, replay, drifts, session, patch, phase,
                       replacements>>
    BY <1>10 DEF LocalizeFailure, scriptVars
  <2>3. cursor + 1 \in 1 .. Len(theory) /\ DOMAIN theory = 1 .. Len(theory)
    BY <1>1, <2>2 DEF RepairTypeOK
  <2>4. [index |-> cursor + 1, text |-> text, timeout |-> timeout, drift |-> digest.drift] \in TaskType
    BY <2>3, EffectiveTyped DEF RepairTypeOK, TaskType
  <2>5. tasks' \in Seq(TaskType)
    BY <2>1, <2>4, AppendProperties DEF RepairTypeOK, TaskType
  <2>6. held' \in Nat /\ digest'.drift \in BOOLEAN
    BY <2>2 DEF RepairTypeOK
  <2> QED
    BY <2>2, <2>5, <2>6 DEF RepairTypeOK, TaskType
<1> QED
  BY <1>2, <1>3, <1>4, <1>5, <1>6, <1>7, <1>8, <1>9, <1>10 DEF Localize

-----------------------------------------------------------------------------
(* The records only grow                                                   *)

\* What was recorded of each task stays where it is.
Grown ==
    \A t \in 1 .. Task :
        /\ Len(records[t]) \in Nat /\ Len(records'[t]) \in Nat
        /\ Len(records[t]) <= Len(records'[t])
        /\ \A i \in 1 .. Len(records[t]) : records'[t][i] = records[t][i]

\* Records are appended.
LEMMA RecordGrows ==
    ASSUME TypeOK, Task > 0, NEW s \in Seq(RecordKind), s # <<>>, Record(s)
    PROVE  Task' = Task /\ Grown
<1>1. /\ records' \in Seq(Seq(RecordKind)) /\ Task' = Task /\ DOMAIN records = 1 .. Task
      /\ Log \in Seq(RecordKind) /\ Log' = Log \o s
      /\ \A u \in 1 .. Task : u # Task => records'[u] = records[u]
  BY Recorded DEF TypeOK
<1>2. \A t \in 1 .. Task : records[t] \in Seq(RecordKind)
  BY <1>1, ElementOfSeq DEF TypeOK, Task
<1>3. /\ Len(Log) \in Nat /\ Len(s) \in Nat /\ Len(Log \o s) = Len(Log) + Len(s)
      /\ \A i \in 1 .. Len(Log) : (Log \o s)[i] = Log[i]
  BY <1>1, Joined
<1>4. records'[Task] = Log \o s
  BY <1>1 DEF Log
<1> SUFFICES ASSUME NEW t \in 1 .. Task
             PROVE  /\ Len(records[t]) \in Nat /\ Len(records'[t]) \in Nat
                    /\ Len(records[t]) <= Len(records'[t])
                    /\ \A i \in 1 .. Len(records[t]) : records'[t][i] = records[t][i]
  BY <1>1 DEF Grown
<1>5. CASE t = Task
  BY <1>3, <1>4, <1>5 DEF Log
<1>6. CASE t # Task
  <2>1. records'[t] = records[t] /\ Len(records[t]) \in Nat
    BY <1>1, <1>2, <1>6
  <2> QED
    BY <2>1
<1> QED
  BY <1>5, <1>6

\* Nothing is recorded.
LEMMA SameGrows ==
    ASSUME TypeOK, records' = records
    PROVE  Task' = Task /\ Grown
<1>1. Task' = Task /\ Task = Len(records)
  BY DEF Task
<1>2. \A t \in 1 .. Task : records[t] \in Seq(RecordKind)
  BY <1>1, ElementOfSeq DEF TypeOK
<1>3. \A t \in 1 .. Task : Len(records[t]) \in Nat
  BY <1>2
<1> QED
  BY <1>1, <1>3 DEF Grown

\* Every step of the orchestrator keeps the tasks and what is recorded of them, and
\* only NextTask adds one.
LEMMA RecordsGrow ==
    ASSUME IInv, [Next]_vars
    PROVE  /\ Grown
           /\ ~ NextTask => Task' = Task
           /\ NextTask => Task' = Task + 1
<1>t. TypeOK /\ Task \in Nat
  BY DEF IInv, TypeOK, Task
<1>1. CASE NextTask
  <2>1. records' = Append(records, <<>>) /\ <<>> \in Seq(RecordKind)
        /\ records \in Seq(Seq(RecordKind))
    BY <1>1, <1>t DEF NextTask, TypeOK
  <2>2. /\ Len(records') = Len(records) + 1
        /\ \A t \in 1 .. Len(records) : records'[t] = records[t]
    BY <2>1, AppendProperties
  <2>3. \A t \in 1 .. Len(records) : records[t] \in Seq(RecordKind)
    BY <2>1, ElementOfSeq
  <2>4. \A t \in 1 .. Len(records) : Len(records[t]) \in Nat
    BY <2>3
  <2> QED
    BY <1>1, <2>2, <2>4 DEF Task, Grown
<1>2. CASE \/ NoNextTask \/ LeaveLoop \/ Exit \/ ValidateReplacement \/ Return \/ SkipApply \/ Raise
           \/ RunUntilTerminal \/ ResumeFromReview \/ UNCHANGED vars
  <2>1. records' = records
    BY <1>2 DEF NoNextTask, LeaveLoop, Exit, ValidateReplacement, Return, SkipApply, Raise,
       RunUntilTerminal, ResumeFromReview, vars
  <2>2. ~ NextTask
    <3>1. ASSUME NextTask PROVE FALSE
      <4>1. records' = Append(records, <<>>) /\ records \in Seq(Seq(RecordKind))
            /\ <<>> \in Seq(RecordKind)
        BY <3>1, <1>t DEF NextTask, TypeOK
      <4>2. Len(records') = Len(records) + 1 /\ Len(records) \in Nat
        BY <4>1, AppendProperties
      <4> QED
        BY <2>1, <4>2
    <3> QED
      BY <3>1
  <2> QED
    BY <1>t, <2>1, <2>2, SameGrows
<1>3. ASSUME \E s \in Seq(RecordKind) : s # <<>> /\ Record(s), Task > 0, pc # "loop"
      PROVE  Grown /\ Task' = Task /\ ~ NextTask
  BY <1>t, <1>3, RecordGrows DEF NextTask
<1>4. \A a \in RecordKind, b \in RecordKind, c \in RecordKind :
          /\ <<a>> \in Seq(RecordKind) /\ <<a>> # <<>>
          /\ <<a, b>> \in Seq(RecordKind) /\ <<a, b>> # <<>>
          /\ Append(<<a>>, b) \in Seq(RecordKind) /\ Append(<<a>>, b) # <<>>
          /\ <<a>> \o <<b, c>> \in Seq(RecordKind) /\ <<a>> \o <<b, c>> # <<>>
          /\ <<>> \o <<b, c>> \in Seq(RecordKind) /\ <<>> \o <<b, c>> # <<>>
  <2> SUFFICES ASSUME NEW a \in RecordKind, NEW b \in RecordKind, NEW c \in RecordKind
               PROVE  /\ <<a>> \in Seq(RecordKind) /\ <<a>> # <<>>
                      /\ <<a, b>> \in Seq(RecordKind) /\ <<a, b>> # <<>>
                      /\ Append(<<a>>, b) \in Seq(RecordKind) /\ Append(<<a>>, b) # <<>>
                      /\ <<a>> \o <<b, c>> \in Seq(RecordKind) /\ <<a>> \o <<b, c>> # <<>>
                      /\ <<>> \o <<b, c>> \in Seq(RecordKind) /\ <<>> \o <<b, c>> # <<>>
    OBVIOUS
  <2>1. /\ <<a>> \in Seq(RecordKind) /\ <<a>> # <<>>
        /\ <<a, b>> \in Seq(RecordKind) /\ <<a, b>> # <<>>
        /\ <<b, c>> \in Seq(RecordKind) /\ <<b, c>> # <<>> /\ <<>> \in Seq(RecordKind)
    OBVIOUS
  <2>2. Append(<<a>>, b) \in Seq(RecordKind) /\ Append(<<a>>, b) # <<>>
    BY <2>1, Pushed
  <2> QED
    BY <2>1, <2>2, Joined
<1>5. CASE RunTask \/ GateOrReview \/ HandleResponse
  <2>1. Task > 0 /\ pc # "loop"
    BY <1>5 DEF IInv, PlaceInv, RunTask, GateOrReview, HandleResponse
  <2>2. {"task", "continuation_stop", "review_entered", "policy_deny", "policy_allow",
         "policy_review", "stop"} \subseteq RecordKind
    BY DEF RecordKind, ResponseKind
  <2>3. \E s \in Seq(RecordKind) : s # <<>> /\ Record(s)
    <3>1. CASE RunTask
      BY <3>1, <1>4, <2>2 DEF RunTask, EnterReview
    <3>2. CASE GateOrReview
      BY <3>2, <1>4, <2>2 DEF GateOrReview, EnterReview
    <3>3. CASE HandleResponse
      <4>1. PICK kind \in ResponseKind, hasText \in BOOLEAN :
                LET k == Guard(Last(stack).reason, kind, hasText) IN
                Record(CASE k = "stop" -> <<"stop", "continuation_stop">> [] OTHER -> <<k>>)
        BY <3>3 DEF HandleResponse
      <4>2. Guard(Last(stack).reason, kind, hasText) \in RecordKind
        BY DEF Guard, RecordKind, ResponseKind
      <4> QED
        BY <4>1, <4>2, <1>4, <2>2
    <3> QED
      BY <1>5, <3>1, <3>2, <3>3
  <2> QED
    BY <1>3, <2>1, <2>3
<1>6. CASE ResolvePlaceholderRequest
  <2>1. Task > 0 /\ pc # "loop"
    BY <1>6 DEF IInv, PlaceInv, ResolvePlaceholderRequest
  <2>2. {"review_entered", "policy_deny", "policy_allow", "policy_review"} \subseteq RecordKind
    BY DEF RecordKind
  <2>3. records' = records \/ \E s \in Seq(RecordKind) : s # <<>> /\ Record(s)
    BY <1>6, <1>4, <2>2 DEF ResolvePlaceholderRequest, EnterReview
  <2>4. ~ NextTask
    BY <2>1 DEF NextTask
  <2> QED
    BY <1>t, <1>3, <2>1, <2>3, <2>4, SameGrows
<1>7. CASE AcceptResponse \/ ApplyAcceptedArtifact \/ GateContinuation
  <2>1. Task > 0 /\ pc # "loop"
    BY <1>7 DEF IInv, PlaceInv, AcceptResponse, ApplyAcceptedArtifact, GateContinuation
  <2>2. {"review_entered", "policy_deny", "policy_allow", "policy_review", "artifact", "continuation",
         "continuation_rerun", "continuation_stop", "provenance"} \subseteq RecordKind
    BY DEF RecordKind
  <2>3. records' = records \/ \E s \in Seq(RecordKind) : s # <<>> /\ Record(s)
    <3>1. CASE AcceptResponse
      BY <3>1, <1>4, <2>2 DEF AcceptResponse, Finalize
    <3>2. CASE ApplyAcceptedArtifact
      BY <3>2, <1>4, <2>2 DEF ApplyAcceptedArtifact, Finalize
    <3>3. CASE GateContinuation
      BY <3>3, <1>4, <2>2 DEF GateContinuation, Finalize, EnterReview
    <3> QED
      BY <1>7, <3>1, <3>2, <3>3
  <2>4. ~ NextTask
    BY <2>1 DEF NextTask
  <2> QED
    BY <1>t, <1>3, <2>1, <2>3, <2>4, SameGrows
<1> QED
  BY <1>1, <1>2, <1>5, <1>6, <1>7 DEF Next, Step, Rest

-----------------------------------------------------------------------------
(* The places of the localizer and the tasks agree                         *)

\* Whatever is not a step of next_task leaves the snapshot's anchor alone.
LEMMA Outside ==
    ASSUME [RepairNext]_allVars, ~ Localize
    PROVE  /\ UNCHANGED <<anchored, contents, cursor, digest, theory, replay, drifts, tasks>>
           /\ \/ held' = held
              \/ Abort /\ pc = "loop" /\ held' \in {held, held + 1}
           /\ loc' = loc \/ loc' = "idle"
           /\ replacements' = replacements \/ ApplyToSnapshot
           /\ ~ NextTask /\ (Working' => Working)
<1>1. CASE DecideTask
  <2>1. UNCHANGED repairVars
    BY <1>1 DEF DecideTask
  <2>2. pc # "loop" \/ pc' = "exit"
    BY <1>1 DEF DecideTask, LeaveLoop, GateOrReview, HandleResponse, ResolvePlaceholderRequest,
       AcceptResponse, Return, SkipApply
  <2>3. Working' => Working
    BY <1>1 DEF DecideTask, LeaveLoop, GateOrReview, HandleResponse, ResolvePlaceholderRequest,
       AcceptResponse, Return, SkipApply, Working
  <2> QED
    BY <2>1, <2>2, <2>3 DEF repairVars, snapshotVars, localizerVars, NextTask
<1>2. CASE RepairTask \/ ReviewReplacement
  BY <1>2 DEF RepairTask, ReviewReplacement, RunTask, ValidateReplacement, NextTask, Working,
     snapshotVars, localizerVars
<1>3. CASE ApplyToSnapshot
  BY <1>3 DEF ApplyToSnapshot, ApplyAcceptedArtifact, NextTask, Working, snapshotVars, localizerVars
<1>4. CASE Execute \/ ReturnState
  BY <1>4 DEF Execute, ReturnState, RunUntilTerminal, Exit, NextTask, Working, snapshotVars,
     localizerVars
<1>5. CASE Abort
  BY <1>5 DEF Abort, Raise, NextTask, Working, MayLeaveState, snapshotVars
<1>6. CASE CreateSession \/ LoadTheory \/ ExportPatchArtifacts \/ DestroySession \/ UNCHANGED allVars
  <2>1. /\ UNCHANGED vars
        /\ UNCHANGED <<anchored, contents, cursor, digest, theory, loc, replay, drifts, held, tasks,
                       replacements>>
    BY <1>6 DEF CreateSession, LoadTheory, ExportPatchArtifacts, DestroySession, allVars, repairVars,
       snapshotVars, localizerVars
  <2>2. pc' = pc
    BY <2>1 DEF vars
  <2> QED
    BY <2>1, <2>2 DEF NextTask, Working
<1> QED
  BY <1>1, <1>2, <1>3, <1>4, <1>5, <1>6 DEF RepairNext, RepairStep, Ended

\* What the script does to its own variables.
LEMMA ScriptTyped ==
    ASSUME RepairTypeOK, [RepairNext]_allVars, ~ Localize
    PROVE  /\ session' \in {"none", "open", "destroyed"}
           /\ patch' \in {"none", "diff", "json", "linked"}
           /\ phase' \in {"start", "load", "ready", "run", "export", "release", "ended"}
<1>1. CASE DecideTask \/ RepairTask \/ ReviewReplacement \/ ApplyToSnapshot \/ UNCHANGED allVars
  BY <1>1 DEF DecideTask, RepairTask, ReviewReplacement, ApplyToSnapshot, allVars, repairVars,
     scriptVars, RepairTypeOK
<1>2. CASE Execute \/ ReturnState \/ Abort \/ CreateSession \/ LoadTheory \/ DestroySession
  BY <1>2 DEF Execute, ReturnState, Abort, CreateSession, LoadTheory, DestroySession, RepairTypeOK
<1>3. CASE ExportPatchArtifacts
  BY <1>3 DEF ExportPatchArtifacts, RepairTypeOK
<1> QED
  BY <1>1, <1>2, <1>3 DEF RepairNext, RepairStep, Ended

\* The artifact of the task at work is noted with the line of its command, and with
\* the place its ARTIFACT record gets.
Entry ==
    [line |-> theory[cursor + 1].line, task |-> Task, rec |-> <<Task, Len(Log) + 1>>,
     text |-> IF res.text = "block" THEN Last(tasks).text ELSE Tactic(res.text)]
\* What a replacement is.
EntryType == [line : Nat \ {0}, task : Nat, rec : Seq(Nat), text : Text]

\* apply_artifact adds one entry.
LEMMA Noted ==
    ASSUME IInv, PlacesInv, RepairTypeOK, ApplyToSnapshot
    PROVE  /\ replacements' = Append(replacements, Entry) /\ Entry \in EntryType
           /\ Last(tasks) \in TaskType /\ Last(tasks) = tasks[Task] /\ Task \in 1 .. Task
           /\ Task = Len(tasks) /\ Last(tasks).index = cursor + 1
           /\ cursor + 1 \in 1 .. Len(theory) /\ res.text # "none"
<1>1. /\ Working /\ Task > 0 /\ res.text # "none"
      /\ replacements' = Patched(<<Task, Len(records[Task]) + 1>>)
  BY DEF ApplyToSnapshot, ApplyAcceptedArtifact, Working, IInv, PlaceInv
<1>2. /\ tasks # <<>> /\ Last(tasks).index = cursor + 1 /\ cursor < Len(theory) /\ Len(tasks) = Task
      /\ tasks \in Seq(TaskType)
  BY <1>1 DEF PlacesInv, RepairTypeOK, TaskType
<1>3. Last(tasks) \in TaskType /\ Last(tasks) = tasks[Task] /\ Task \in Nat
  BY <1>2, Popped
<1>4. /\ cursor + 1 \in 1 .. Len(theory) /\ theory \in Seq(Command)
  BY <1>2, HeaderTyped DEF RepairTypeOK
<1>5. theory[cursor + 1] \in Command
  BY <1>4, ElementOfSeq
<1>6. theory[cursor + 1].line \in Nat \ {0}
  BY <1>5 DEF Command
<1>7. records \in Seq(Seq(RecordKind)) /\ Task \in 1 .. Len(records)
  BY <1>1, <1>3 DEF IInv, TypeOK, Task
<1>8. Log \in Seq(RecordKind)
  BY <1>7, ElementOfSeq DEF Log
<1>9. Len(Log) + 1 \in Nat
  BY <1>8
<1>10. <<Task, Len(Log) + 1>> \in Seq(Nat)
  BY <1>3, <1>9
<1>11. Entry.text \in Text
  <2>1. CASE res.text = "block"
    BY <1>3, <2>1 DEF TaskType, Entry
  <2>2. CASE res.text # "block"
    <3>1. res.text \in {"candidate", "replacement"}
      BY <1>1, <2>2 DEF IInv, TypeOK, TaskResult
    <3> QED
      BY <2>2, <3>1 DEF Tactic, Text, Entry
  <2> QED
    BY <2>1, <2>2
<1>12. Entry \in EntryType
  BY <1>3, <1>6, <1>10, <1>11 DEF Entry, EntryType
<1>13. replacements' = Append(replacements, Entry)
  BY <1>1, <1>2 DEF Patched, CommandLineForTask, Log, Entry
<1>14. Task \in 1 .. Task
  BY <1>1, <1>3
<1> QED
  BY <1>1, <1>2, <1>3, <1>4, <1>12, <1>13, <1>14

\* Every step is typed.
LEMMA RepairTypedKeeps ==
    ASSUME IInv, LocalizerInv, PlacesInv, RepairTypeOK, [RepairNext]_allVars
    PROVE  RepairTypeOK'
<1>1. CASE Localize
  BY <1>1, LocalizeTyped
<1>2. CASE ~ Localize
  <2>1. /\ UNCHANGED <<anchored, contents, cursor, digest, theory, replay, drifts, tasks>>
        /\ held' \in {held, held + 1}
        /\ loc' = loc \/ loc' = "idle"
        /\ replacements' = replacements \/ ApplyToSnapshot
    BY <1>2, Outside
  <2>h. held' \in Nat
    BY <2>1 DEF RepairTypeOK
  <2>2. replacements' \in Seq([line : Nat \ {0}, task : Nat, rec : Seq(Nat), text : Text])
    <3>1. CASE ApplyToSnapshot
      <4>1. replacements' = Append(replacements, Entry) /\ Entry \in EntryType
        BY <3>1, Noted
      <4>2. replacements \in Seq(EntryType)
        BY DEF RepairTypeOK, EntryType
      <4>3. replacements' \in Seq(EntryType)
        BY <4>1, <4>2, AppendProperties
      <4> QED
        BY <4>3 DEF EntryType
    <3>2. CASE replacements' = replacements
      BY <3>2 DEF RepairTypeOK
    <3> QED
      BY <2>1, <3>1, <3>2
  <2> QED
    BY <1>2, <2>1, <2>h, <2>2, ScriptTyped DEF RepairTypeOK
<1> QED
  BY <1>1, <1>2

\* The steps of next_task keep the places.
LEMMA LocalizePlaces ==
    ASSUME IInv, LocalizerInv, PlacesInv, RepairTypeOK, Localize
    PROVE  PlacesInv'
<1>0. [RepairNext]_allVars /\ [Next]_vars
  BY RepairStepIsStep DEF RepairNext, RepairStep
<1>1. /\ theory' = theory /\ HeaderIndex' = HeaderIndex /\ Len(theory) \in Nat
      /\ HeaderIndex \in 0 .. Len(theory) /\ cursor \in 0 .. Len(theory)
      /\ replay.at \in 0 .. Len(theory) /\ held \in Nat
  BY <1>0, TheoryStays, HeaderTyped DEF RepairTypeOK
<1>2. tasks \in Seq(TaskType) /\ DOMAIN tasks = 1 .. Len(tasks)
  BY DEF RepairTypeOK, TaskType
<1>3. \A i \in DOMAIN tasks : tasks[i].index \in 1 .. Len(theory)
  <2>1. \A i \in DOMAIN tasks : tasks[i] \in TaskType
    BY <1>2, ElementOfSeq
  <2>2. DOMAIN theory = 1 .. Len(theory)
    BY HeaderTyped DEF RepairTypeOK
  <2> QED
    BY <2>1, <2>2 DEF TaskType
<1>4. CASE NothingToDo \/ TheoryEnds \/ BootstrapFails
  <2>1. /\ UNCHANGED <<anchored, contents, cursor, tasks, Task>> /\ loc' = "idle"
        /\ pc' = "exit"
    BY <1>4, NoTaskCounted DEF NothingToDo, TheoryEnds, BootstrapFails, snapshotVars
  <2> QED
    BY <1>1, <2>1 DEF PlacesInv, Working
<1>5. CASE BootstrapAnchor
  <2>1. /\ anchored' /\ cursor' = HeaderIndex /\ HeaderIndex # 0 /\ ~ anchored
        /\ UNCHANGED <<vars, tasks>> /\ loc' = "walk" /\ pc = "loop"
    BY <1>5 DEF BootstrapAnchor, SetAnchor, Called
  <2>2. UNCHANGED <<pc, Task>>
    BY <2>1 DEF vars, Task
  <2> QED
    BY <1>1, <1>3, <2>1, <2>2 DEF PlacesInv, Working
<1>6. CASE NoDrift
  <2>1. /\ UNCHANGED <<vars, anchored, contents, cursor, tasks>> /\ loc' = "walk"
    BY <1>6 DEF NoDrift, snapshotVars
  <2>2. UNCHANGED <<pc, Task>>
    BY <2>1 DEF vars, Task
  <2> QED
    BY <1>1, <2>1, <2>2 DEF PlacesInv, Working
<1>7. CASE Drift
  <2>1. /\ UNCHANGED <<anchored, contents, cursor, tasks, Task>> /\ anchored /\ pc = "loop"
        /\ \/ replay' = [at |-> HeaderIndex, contents |-> AfterHeader] /\ pc' = pc
           \/ loc' = "idle" /\ pc' = "exit"
    BY <1>7, NoTaskCounted DEF Drift, Called, vars, Task
  <2>2. loc' = "rebuild" => replay'.at = HeaderIndex
    BY <2>1
  <2>3. HeaderIndex <= cursor
    BY <2>1 DEF PlacesInv
  <2> QED
    BY <1>1, <2>1, <2>2, <2>3 DEF PlacesInv, Working
<1>8. CASE ReplayCommand
  <2>1. /\ UNCHANGED <<anchored, contents, cursor, tasks, Task>> /\ anchored /\ pc = "loop"
        /\ loc = "rebuild" /\ replay.at < cursor
        /\ \/ replay' = [at |-> replay.at + 1, contents |-> Append(replay.contents, EffectiveText(replay.at + 1))]
              /\ pc' = pc
           \/ loc' = "idle" /\ pc' = "exit"
    BY <1>8, NoTaskCounted DEF ReplayCommand, LocalizerInv, vars, Task
  <2>2. loc' = "rebuild" => replay'.at = replay.at + 1
    BY <2>1
  <2>3. HeaderIndex <= replay.at
    BY <2>1 DEF PlacesInv
  <2>4. loc' = "rebuild" => HeaderIndex' <= replay'.at /\ replay'.at <= cursor'
    BY <1>1, <2>1, <2>2, <2>3
  <2>5. pc' \in {"loop", "exit"}
    BY <2>1
  <2>6. UNCHANGED <<anchored, contents, cursor, tasks, Task, theory, HeaderIndex>> /\ anchored
    BY <1>1, <2>1
  <2> QED
    BY <2>4, <2>5, <2>6 DEF PlacesInv, Working
<1>9. CASE Rebuilt
  <2>1. /\ anchored' /\ cursor' = cursor /\ UNCHANGED <<vars, tasks>> /\ loc' = "walk" /\ anchored
    BY <1>9 DEF Rebuilt, SetAnchor, LocalizerInv
  <2>2. UNCHANGED <<pc, Task>>
    BY <2>1 DEF vars, Task
  <2> QED
    BY <1>1, <2>1, <2>2 DEF PlacesInv, Working
<1>10. CASE WalkOn
  <2>1. /\ anchored' /\ cursor' = cursor + 1 /\ cursor < Len(theory) /\ UNCHANGED <<vars, tasks>>
        /\ loc' = "walk" /\ anchored /\ pc = "loop"
    BY <1>10 DEF WalkOn, SetAnchor, LocalizerInv
  <2>2. UNCHANGED <<pc, Task>>
    BY <2>1 DEF vars, Task
  <2>3. \A i \in DOMAIN tasks : tasks[i].index <= cursor + 1 + 1
    BY <1>1, <1>3 DEF PlacesInv
  <2> QED
    BY <1>1, <2>1, <2>2, <2>3 DEF PlacesInv, Working
<1>11. CASE LocalizeFailure
  <2>1. PICK timeout \in BOOLEAN :
            tasks' = Append(tasks, [index |-> cursor + 1, text |-> EffectiveText(cursor + 1),
                                    timeout |-> timeout, drift |-> digest.drift])
    BY <1>11 DEF LocalizeFailure
  <2> DEFINE new == [index |-> cursor + 1, text |-> EffectiveText(cursor + 1),
                     timeout |-> timeout, drift |-> digest.drift]
  <2>2. /\ UNCHANGED <<anchored, contents, cursor>> /\ anchored /\ NextTask /\ loc' = "idle"
        /\ cursor < Len(theory)
    BY <1>11 DEF LocalizeFailure, LocalizerInv
  <2>3. Task' = Task + 1
    BY <1>0, <2>2, RecordsGrow
  <2>4. new \in TaskType
    <3>1. cursor + 1 \in 1 .. Len(theory) /\ DOMAIN theory = 1 .. Len(theory)
      BY <1>1, <2>2, HeaderTyped DEF RepairTypeOK
    <3> QED
      BY <3>1, EffectiveTyped DEF RepairTypeOK, TaskType
  <2>5. new.index = cursor + 1
    OBVIOUS
  <2> HIDE DEF new
  <2>6. /\ tasks' \in Seq(TaskType) /\ Len(tasks') = Len(tasks) + 1 /\ tasks' # <<>>
        /\ Last(tasks') = new /\ tasks'[Len(tasks) + 1] = new
        /\ \A i \in 1 .. Len(tasks) : tasks'[i] = tasks[i]
    BY <1>2, <2>1, <2>4, Pushed DEF new
  <2>7. \A i \in DOMAIN tasks' : tasks'[i].index <= cursor + 1
    <3> SUFFICES ASSUME NEW i \in DOMAIN tasks'
                 PROVE  tasks'[i].index <= cursor + 1
      OBVIOUS
    <3>1. i \in 1 .. Len(tasks) + 1 /\ Len(tasks) \in Nat
      BY <1>2, <2>6
    <3>2. CASE i = Len(tasks) + 1
      BY <1>1, <2>5, <2>6, <3>2
    <3>3. CASE i # Len(tasks) + 1
      BY <1>2, <2>6, <3>1, <3>3 DEF PlacesInv
    <3> QED
      BY <3>2, <3>3
  <2> QED
    BY <1>1, <2>2, <2>3, <2>5, <2>6, <2>7 DEF PlacesInv
<1> QED
  BY <1>4, <1>5, <1>6, <1>7, <1>8, <1>9, <1>10, <1>11 DEF Localize

\* Every step keeps the places.
LEMMA PlacesKeeps ==
    ASSUME IInv, LocalizerInv, PlacesInv, RepairTypeOK, [RepairNext]_allVars
    PROVE  PlacesInv'
<1>1. CASE Localize
  BY <1>1, LocalizePlaces
<1>2. CASE ~ Localize
  <2>1. /\ UNCHANGED <<anchored, contents, cursor, digest, theory, replay, drifts, tasks>>
        /\ loc' = loc \/ loc' = "idle"
        /\ ~ NextTask /\ (Working' => Working)
    BY <1>2, Outside
  <2>2. Task' = Task /\ HeaderIndex' = HeaderIndex
    BY <2>1, RepairStepIsStep, RecordsGrow, TheoryStays
  <2> QED
    BY <2>1, <2>2 DEF PlacesInv
<1> QED
  BY <1>1, <1>2

-----------------------------------------------------------------------------
(* The end of a run, the export and the states on the server               *)

\* A run that finishes before the last command says why.
LEMMA FinishedKeeps ==
    ASSUME LocalizerInv, RepairTypeOK, FinishedInv, [RepairNext]_allVars
    PROVE  FinishedInv'
<1>1. theory' = theory /\ cursor \in 0 .. Len(theory) /\ Len(theory) \in Nat
  BY TheoryStays, HeaderTyped DEF RepairTypeOK
<1>2. CASE NothingToDo \/ TheoryEnds
  <2>1. /\ anchored' = anchored /\ cursor' = cursor
        /\ theory = <<>> \/ (anchored /\ cursor = Len(theory))
    <3>1. CASE NothingToDo
      <4>1. UNCHANGED snapshotVars /\ theory = <<>>
        BY <3>1, Zenon DEF NothingToDo
      <4>2. anchored' = anchored /\ cursor' = cursor
        BY <4>1 DEF snapshotVars
      <4> QED
        BY <4>1, <4>2, Zenon
    <3>2. CASE TheoryEnds
      BY <3>2 DEF TheoryEnds, LocalizerInv, snapshotVars
    <3> QED
      BY <1>2, <3>1, <3>2
  <2> QED
    BY <1>1, <2>1 DEF FinishedInv
<1>3. CASE BootstrapFails \/ Drift
  <2>1. digest'.reason \in {"drift", "init_after_header_failed"}
    BY <1>3 DEF BootstrapFails, Drift
  <2> QED
    BY <2>1 DEF FinishedInv
<1>4. CASE ReplayCommand
  <2>1. /\ state = "ACTIVE"
        /\ state' = state \/ digest' = [reason |-> "rebuild_anchor_failed", drift |-> TRUE]
    BY <1>4 DEF ReplayCommand, LocalizerInv, vars
  <2>2. state' = state \/ digest'.reason = "rebuild_anchor_failed"
    BY <2>1
  <2> QED
    BY <2>1, <2>2 DEF FinishedInv
<1>5. CASE BootstrapAnchor \/ NoDrift \/ Rebuilt \/ WalkOn \/ LocalizeFailure
  <2>1. state = "ACTIVE" /\ state' = state
    BY <1>5 DEF BootstrapAnchor, NoDrift, Rebuilt, WalkOn, LocalizeFailure, NextTask, Called,
       LocalizerInv, vars
  <2> QED
    BY <2>1 DEF FinishedInv
<1>6. CASE ~ Localize
  <2>1. UNCHANGED <<anchored, cursor, digest>>
    BY <1>6, Outside
  <2>2. ~ NoNextTask
    <3>1. CASE UNCHANGED vars
      BY <3>1 DEF vars, NoNextTask
    <3>2. CASE \/ DecideTask \/ RepairTask \/ ReviewReplacement \/ ApplyToSnapshot \/ Execute
               \/ ReturnState \/ Abort
      <4>1. pc # "loop" \/ state' = state \/ pc' = "out"
        BY <3>2 DEF DecideTask, LeaveLoop, GateOrReview, HandleResponse, ResolvePlaceholderRequest,
           AcceptResponse, Return, SkipApply, RepairTask, ReviewReplacement, ApplyToSnapshot, Execute,
           ReturnState, Abort, RunTask, ValidateReplacement, ApplyAcceptedArtifact, RunUntilTerminal,
           Exit, Raise
      <4> QED
        BY <4>1 DEF NoNextTask
    <3> QED
      BY <1>6, <3>1, <3>2 DEF RepairNext, RepairStep, Ended, CreateSession, LoadTheory,
         ExportPatchArtifacts, DestroySession, allVars
  <2>3. state' = "FINISHED" => state = "FINISHED"
    <3>1. [Next]_vars
      BY RepairStepIsStep
    <3>2. CASE Next
      BY <2>2, <3>2, OnlyNoTaskFinishes
    <3>3. CASE UNCHANGED vars
      BY <3>3 DEF vars
    <3> QED
      BY <3>1, <3>2, <3>3
  <2> QED
    BY <1>1, <2>1, <2>3 DEF FinishedInv
<1> QED
  BY <1>2, <1>3, <1>4, <1>5, <1>6 DEF Localize

\* Every step keeps the links.
LEMMA LinkKeeps ==
    ASSUME IInv, PlacesInv, RepairTypeOK, LinkInv, [RepairNext]_allVars
    PROVE  LinkInv'
<1>1. Grown /\ Task \in Nat /\ Task' \in Nat /\ Task <= Task'
  <2>1. [Next]_vars
    BY RepairStepIsStep
  <2>2. Grown /\ (Task' = Task \/ Task' = Task + 1)
    BY <2>1, RecordsGrow
  <2>3. Task \in Nat
    BY DEF IInv, TypeOK, Task
  <2> QED
    BY <2>2, <2>3
<1>2. \A k \in DOMAIN replacements :
          LET r == replacements[k] IN
          /\ r.task \in 1 .. Task' /\ Len(r.rec) = 2 /\ r.rec[1] = r.task
          /\ r.rec[2] \in 1 .. Len(records'[r.task])
          /\ records'[r.task][r.rec[2]] = "artifact"
  <2> SUFFICES ASSUME NEW k \in DOMAIN replacements
               PROVE  /\ replacements[k].task \in 1 .. Task' /\ Len(replacements[k].rec) = 2
                      /\ replacements[k].rec[1] = replacements[k].task
                      /\ replacements[k].rec[2] \in 1 .. Len(records'[replacements[k].task])
                      /\ records'[replacements[k].task][replacements[k].rec[2]] = "artifact"
    OBVIOUS
  <2> DEFINE t == replacements[k].task
             i == replacements[k].rec[2]
  <2>1. /\ t \in 1 .. Task /\ Len(replacements[k].rec) = 2 /\ replacements[k].rec[1] = t
        /\ i \in 1 .. Len(records[t]) /\ records[t][i] = "artifact"
    BY DEF LinkInv
  <2> HIDE DEF t, i
  <2>2. /\ Len(records[t]) \in Nat /\ Len(records'[t]) \in Nat
        /\ Len(records[t]) <= Len(records'[t]) /\ records'[t][i] = records[t][i]
    BY <1>1, <2>1 DEF Grown
  <2>3. t \in 1 .. Task' /\ i \in 1 .. Len(records'[t])
    BY <1>1, <2>1, <2>2
  <2> QED
    BY <2>1, <2>2, <2>3 DEF t, i
<1>3. CASE replacements' = replacements
  BY <1>2, <1>3 DEF LinkInv
<1>4. CASE ApplyToSnapshot
  <2>1. /\ replacements' = Append(replacements, Entry) /\ Entry \in EntryType /\ Task \in 1 .. Task
    BY <1>4, Noted
  <2>2. /\ Len(replacements') = Len(replacements) + 1 /\ Len(replacements) \in Nat
        /\ DOMAIN replacements = 1 .. Len(replacements)
        /\ DOMAIN replacements' = 1 .. Len(replacements) + 1
        /\ \A k \in 1 .. Len(replacements) : replacements'[k] = replacements[k]
        /\ replacements'[Len(replacements) + 1] = Entry
    <3>1. replacements \in Seq(EntryType)
      BY DEF RepairTypeOK, EntryType
    <3>2. /\ replacements' \in Seq(EntryType) /\ Len(replacements') = Len(replacements) + 1
          /\ \A k \in 1 .. Len(replacements) : replacements'[k] = replacements[k]
          /\ replacements'[Len(replacements) + 1] = Entry
      BY <2>1, <3>1, AppendProperties
    <3> QED
      BY <3>1, <3>2
  <2>3. /\ Entry.task = Task /\ Entry.rec = <<Task, Len(Log) + 1>>
        /\ Len(Entry.rec) = 2 /\ Entry.rec[1] = Task /\ Entry.rec[2] = Len(Log) + 1
    BY DEF Entry
  <2>4. \E s \in Seq(RecordKind) : s # <<>> /\ s[1] = "artifact" /\ Record(s)
    <3>1. \A b \in RecordKind : /\ <<"artifact">> \o <<b, "provenance">> \in Seq(RecordKind)
                                /\ <<"artifact">> \o <<b, "provenance">> # <<>>
                                /\ (<<"artifact">> \o <<b, "provenance">>)[1] = "artifact"
      <4> SUFFICES ASSUME NEW b \in RecordKind
                   PROVE  /\ <<"artifact">> \o <<b, "provenance">> \in Seq(RecordKind)
                          /\ <<"artifact">> \o <<b, "provenance">> # <<>>
                          /\ (<<"artifact">> \o <<b, "provenance">>)[1] = "artifact"
        OBVIOUS
      <4>1. /\ <<"artifact">> \in Seq(RecordKind) /\ <<b, "provenance">> \in Seq(RecordKind)
            /\ <<b, "provenance">> # <<>> /\ 1 \in 1 .. Len(<<"artifact">>)
            /\ <<"artifact">>[1] = "artifact"
        BY DEF RecordKind
      <4> QED
        BY <4>1, Joined
    <3>2. <<"artifact">> \in Seq(RecordKind) /\ <<"artifact">> # <<>> /\ <<"artifact">>[1] = "artifact"
      BY DEF RecordKind
    <3>3. {"continuation", "continuation_rerun"} \subseteq RecordKind
      BY DEF RecordKind
    <3> QED
      BY <1>4, <3>1, <3>2, <3>3 DEF ApplyToSnapshot, ApplyAcceptedArtifact, Finalize
  <2>5. PICK s \in Seq(RecordKind) : s # <<>> /\ s[1] = "artifact" /\ Record(s)
    BY <2>4
  <2>6. Log \in Seq(RecordKind) /\ records'[Task] = Log \o s /\ Task' = Task
    <3>1. Task > 0
      BY <2>1
    <3>2. Log \in Seq(RecordKind) /\ Log' = Log \o s /\ Task' = Task
      BY <2>5, <3>1, Recorded DEF IInv, TypeOK
    <3> QED
      BY <3>2 DEF Log
  <2>7. /\ Len(Log) \in Nat /\ Len(s) \in Nat /\ Len(s) > 0 /\ Len(Log \o s) = Len(Log) + Len(s)
        /\ \A i \in Len(Log) + 1 .. Len(Log) + Len(s) : (Log \o s)[i] = s[i - Len(Log)]
    BY <2>5, <2>6, Joined
  <2>8. Len(Log) + 1 \in 1 .. Len(records'[Task]) /\ records'[Task][Len(Log) + 1] = "artifact"
    <3>1. /\ Len(Log) + 1 \in Len(Log) + 1 .. Len(Log) + Len(s) /\ (Len(Log) + 1) - Len(Log) = 1
          /\ Len(Log) + 1 \in 1 .. Len(Log) + Len(s)
      BY <2>7
    <3> QED
      BY <2>5, <2>6, <2>7, <3>1
  <2> SUFFICES ASSUME NEW k \in DOMAIN replacements'
               PROVE  /\ replacements'[k].task \in 1 .. Task' /\ Len(replacements'[k].rec) = 2
                      /\ replacements'[k].rec[1] = replacements'[k].task
                      /\ replacements'[k].rec[2] \in 1 .. Len(records'[replacements'[k].task])
                      /\ records'[replacements'[k].task][replacements'[k].rec[2]] = "artifact"
    BY DEF LinkInv
  <2>9. CASE k = Len(replacements) + 1
    BY <2>1, <2>2, <2>3, <2>6, <2>8, <2>9
  <2>10. CASE k # Len(replacements) + 1
    <3>1. k \in DOMAIN replacements /\ replacements'[k] = replacements[k]
      BY <2>2, <2>10
    <3> QED
      BY <1>2, <3>1
  <2> QED
    BY <2>9, <2>10
<1>5. replacements' = replacements \/ ApplyToSnapshot
  <2>1. CASE Localize
    BY <2>1, NoTaskCounted DEF Localize, NothingToDo, BootstrapAnchor, BootstrapFails, NoDrift, Drift,
       ReplayCommand, Rebuilt, WalkOn, LocalizeFailure, TheoryEnds
  <2>2. CASE ~ Localize
    BY <2>2, Outside
  <2> QED
    BY <2>1, <2>2
<1> QED
  BY <1>3, <1>4, <1>5

\* Sums of the states a walk and the rebuilds created.
LEMMA Sums ==
    ASSUME NEW d \in Nat, NEW p \in Nat
    PROVE  /\ (1 + d) * p \in Nat /\ d * p \in Nat
           /\ (1 + d) * p = d * p + p
           /\ (1 + d) * (p + 1) = (1 + d) * p + 1 + d
           /\ (1 + (d + 1)) * p = (1 + d) * p + p
  OBVIOUS

\* One more replayed command raises the bound of a rebuild by one, ...
LEMMA OneMore ==
    ASSUME NEW q \in Nat, NEW at \in Nat, NEW h \in Nat, NEW t \in Nat
    PROVE  q + (1 + (at + 1) - h) + t = (q + (1 + at - h) + t) + 1
  OBVIOUS

\* ... and so may the number of states.
LEMMA Shift ==
    ASSUME NEW q \in Nat, NEW at \in Nat, NEW h \in Nat, NEW t \in Nat, NEW n \in Nat,
           n <= q + (1 + at - h) + t
    PROVE  n + 1 <= (q + (1 + at - h) + t) + 1
  OBVIOUS

\* What the end of the run adds is within what its end allows.
LEMMA Absorbed ==
    ASSUME NEW h \in Nat, NEW i \in Nat, NEW e \in {0, 1}, NEW f \in {0, 1}, NEW b \in Nat,
           h <= b + e, i + e <= h + f
    PROVE  i <= b + f
OBVIOUS

\* What is over stays over, and next_task runs in no run that is.
LEMMA OverStays ==
    ASSUME IInv, LocalizerInv, [RepairNext]_allVars
    PROVE  /\ Over => Over'
           /\ Localize => ~ Over /\ (Over' => pc' = "exit")
           /\ Abort => Over' /\ (pc = "loop" => ~ Over)
<1>1. state \in Terminal => state' \in Terminal
  BY RepairStepIsStep, TerminalStep
<1>2. ASSUME Localize
      PROVE  /\ phase = "run" /\ phase' = "run" /\ state = "ACTIVE" /\ (state' = state \/ pc' = "exit")
  <2>1. CASE NothingToDo \/ BootstrapFails \/ TheoryEnds
    <3>1. phase = "run" /\ state = "ACTIVE"
      BY <2>1, NoTaskCounted DEF NothingToDo, BootstrapFails, TheoryEnds, Called, LocalizerInv
    <3> QED
      BY <2>1, <3>1, NoTaskCounted DEF NothingToDo, BootstrapFails, TheoryEnds
  <2>2. CASE BootstrapAnchor \/ NoDrift \/ Rebuilt \/ WalkOn \/ LocalizeFailure
    BY <2>2 DEF BootstrapAnchor, NoDrift, Rebuilt, WalkOn, LocalizeFailure, NextTask, Called,
       LocalizerInv, vars, scriptVars
  <2>3. CASE Drift
    BY <2>3, NoTaskCounted DEF Drift, Called, vars, scriptVars
  <2>4. CASE ReplayCommand
    BY <2>4, NoTaskCounted DEF ReplayCommand, LocalizerInv, vars, scriptVars
  <2> QED
    BY <1>2, <2>1, <2>2, <2>3, <2>4 DEF Localize
<1>3. ASSUME ~ Localize, phase \in {"export", "release", "ended"}
      PROVE  phase' \in {"export", "release", "ended"}
  <2>1. CASE DecideTask \/ RepairTask \/ ReviewReplacement \/ ApplyToSnapshot \/ UNCHANGED allVars
    BY <1>3, <2>1 DEF DecideTask, RepairTask, ReviewReplacement, ApplyToSnapshot, allVars, repairVars,
       scriptVars
  <2>2. CASE \/ Execute \/ ReturnState \/ Abort \/ CreateSession \/ LoadTheory \/ DestroySession
             \/ ExportPatchArtifacts
    BY <1>3, <2>2 DEF Execute, ReturnState, Abort, CreateSession, LoadTheory, DestroySession,
       ExportPatchArtifacts
  <2> QED
    BY <1>3, <2>1, <2>2 DEF RepairNext, RepairStep, Ended
<1>4. ASSUME Abort
      PROVE  phase' = "release" /\ phase = "run" /\ (pc = "loop" => state = "ACTIVE")
  BY <1>4 DEF Abort, Raise
<1>5. "ACTIVE" \notin Terminal
  BY DEF Terminal
<1> QED
  BY <1>1, <1>2, <1>3, <1>4, <1>5 DEF Over

\* Every step keeps the number of states within the bound.
LEMMA HeldKeeps ==
    ASSUME IInv, LocalizerInv, PlacesInv, RepairTypeOK, HeldInv, [RepairNext]_allVars
    PROVE  HeldInv'
<1> DEFINE p == 1 + cursor - HeaderIndex
           T == Len(tasks)
<1>1. /\ theory' = theory /\ HeaderIndex' = HeaderIndex /\ HeaderIndex \in Nat
      /\ cursor \in Nat /\ replay.at \in Nat /\ held \in Nat /\ drifts \in Nat /\ T \in Nat
  BY TheoryStays, HeaderTyped DEF RepairTypeOK
<1>2. anchored => p \in Nat /\ p >= 1
  BY <1>1 DEF PlacesInv
<1>4. PICK e \in {0, 1}, f \in {0, 1} : e = (IF Over THEN 1 ELSE 0) /\ f = (IF Over' THEN 1 ELSE 0)
  OBVIOUS
<1>e. /\ e \in {0, 1} /\ f \in {0, 1} /\ e <= f
      /\ Localize => e = 0
      /\ Abort => f = 1 /\ (pc = "loop" => e = 0)
      /\ Localize /\ state' \in {"COMPLETED", "FINISHED"} => f = 1
  <2>1. state' \in {"COMPLETED", "FINISHED"} => Over'
    BY DEF Over, Terminal
  <2> QED
    BY <1>4, <2>1, OverStays
<1>3. /\ anchored => held <= (1 + drifts) * p + T + e
      /\ ~ anchored => held <= e
  <2>1. CASE anchored
    BY <1>1, <1>4, <2>1 DEF HeldInv, HeldBounded
  <2>2. CASE ~ anchored
    BY <1>1, <1>4, <2>2 DEF HeldInv, HeldBounded
  <2> QED
    BY <2>1, <2>2
<1>b. ASSUME /\ anchored' => held' <= (1 + drifts') * (1 + cursor' - HeaderIndex) + Len(tasks') + f
             /\ ~ anchored' => held' <= f
      PROVE  HeldBounded'
  BY <1>1, <1>4, <1>b DEF HeldBounded
<1>5. loc # "idle" => anchored
  BY DEF LocalizerInv
<1>a. anchored => (1 + drifts) * p \in Nat
  BY <1>1, <1>2, Sums
<1>6. CASE \/ ~ Localize \/ NothingToDo \/ TheoryEnds \/ BootstrapFails \/ NoDrift
  <2>1. /\ UNCHANGED <<anchored, cursor, drifts, tasks>>
        /\ held' \in Nat /\ held' + e <= held + f
        /\ loc' # "rebuild" \/ (loc' = loc /\ replay' = replay /\ held' = held)
    <3>1. CASE ~ Localize
      <4>1. held' = held \/ (held' \in {held, held + 1} /\ e = 0 /\ f = 1 /\ loc' = "idle")
        BY <1>e, <3>1, Outside DEF Abort
      <4>2. UNCHANGED <<anchored, cursor, drifts, tasks, replay>> /\ (loc' = loc \/ loc' = "idle")
        BY <3>1, Outside
      <4> QED
        BY <1>1, <1>e, <4>1, <4>2
    <3>2. CASE NothingToDo \/ TheoryEnds \/ BootstrapFails
      <4>1. /\ UNCHANGED <<anchored, cursor, drifts, tasks>> /\ held' \in {held, held + 1}
            /\ loc' = "idle" /\ state' \in {"COMPLETED", "FINISHED"} /\ Localize
        BY <3>2, NoTaskCounted DEF NothingToDo, TheoryEnds, BootstrapFails, MayLeaveState, snapshotVars,
           Localize
      <4>2. e = 0 /\ f = 1
        BY <1>e, <4>1
      <4>3. held' = held \/ held' = held + 1
        BY <4>1
      <4>4. held' \in Nat /\ held' + e <= held + f
        BY <1>1, <4>2, <4>3
      <4> QED
        BY <4>1, <4>4
    <3>3. CASE NoDrift
      <4>1. UNCHANGED <<anchored, cursor, drifts, tasks, held>> /\ loc' = "walk"
        BY <3>3 DEF NoDrift, snapshotVars
      <4>2. held' \in Nat /\ held' + e <= held + f
        BY <1>1, <1>e, <4>1
      <4> QED
        BY <4>1, <4>2
    <3> QED
      BY <1>6, <3>1, <3>2, <3>3
  <2>2. /\ anchored => held' <= ((1 + drifts) * p + T) + f
        /\ ~ anchored => held' <= 0 + f
    <3>1. CASE anchored
      <4>1. PICK b \in Nat : b = (1 + drifts) * p + T
        BY <1>1, <1>a, <3>1
      <4>2. held <= b + e
        BY <1>3, <3>1, <4>1
      <4>3. held' <= b + f
        BY <1>1, <1>e, <2>1, <4>2, Absorbed
      <4> QED
        BY <3>1, <4>1, <4>3
    <3>2. CASE ~ anchored
      <4>1. held <= 0 + e
        BY <1>1, <1>3, <1>e, <3>2
      <4>2. held' <= 0 + f
        BY <1>1, <1>e, <2>1, <4>1, Absorbed
      <4> QED
        BY <3>2, <4>2
    <3> QED
      BY <3>1, <3>2
  <2>3. /\ anchored' => held' <= (1 + drifts') * (1 + cursor' - HeaderIndex) + Len(tasks') + f
        /\ ~ anchored' => held' <= f
    BY <1>e, <2>1, <2>2
  <2> QED
    BY <1>1, <1>b, <2>1, <2>3 DEF HeldInv
<1>7. CASE BootstrapAnchor
  <2>1. /\ ~ anchored /\ anchored' /\ cursor' = HeaderIndex /\ held' = held + 1 /\ loc' = "walk"
        /\ UNCHANGED <<drifts, tasks>>
    BY <1>7 DEF BootstrapAnchor, SetAnchor
  <2>l. Localize
    BY <1>7 DEF Localize
  <2>2. (1 + drifts) * (1 + HeaderIndex - HeaderIndex) = 1 + drifts
    BY <1>1
  <2>3. held' <= (1 + drifts') * (1 + cursor' - HeaderIndex) + Len(tasks') + f
    BY <1>1, <1>3, <1>e, <2>1, <2>2, <2>l
  <2> QED
    BY <1>b, <2>1, <2>3 DEF HeldInv
<1>8. CASE Drift
  <2>1. /\ anchored /\ drifts' = drifts + 1 /\ UNCHANGED <<anchored, cursor, tasks>>
        /\ \/ /\ held' = held + 1 /\ loc' = "rebuild"
              /\ replay' = [at |-> HeaderIndex, contents |-> AfterHeader]
           \/ held' \in {held, held + 1} /\ loc' = "idle"
    BY <1>8, NoTaskCounted DEF Drift, MayLeaveState
  <2>l. e = 0
    BY <1>8, <1>e DEF Localize
  <2>2. loc' = "rebuild" => replay'.at = HeaderIndex
    BY <2>1
  <2>3. /\ (1 + (drifts + 1)) * p = (1 + drifts) * p + p /\ (1 + drifts) * p \in Nat
        /\ (drifts + 1) * p = (1 + drifts) * p
    BY <1>1, <1>2, <2>1, Sums
  <2>4. held' <= held + 1 /\ held' \in Nat
    BY <1>1, <2>1
  <2>5. held' <= (1 + drifts') * p + T + f
    BY <1>1, <1>2, <1>3, <1>e, <2>1, <2>3, <2>4, <2>l
  <2>6. loc' = "rebuild" => held' <= drifts' * p + (1 + replay'.at - HeaderIndex) + T
    <3>1. CASE loc' = "rebuild"
      <4>1. 1 + replay'.at - HeaderIndex = 1
        BY <1>1, <2>2, <3>1
      <4>2. drifts' * p = (1 + drifts) * p
        BY <2>1, <2>3
      <4> QED
        BY <1>1, <1>3, <2>1, <2>3, <2>4, <2>l, <4>1, <4>2
    <3> QED
      BY <3>1
  <2> QED
    BY <1>1, <1>b, <2>1, <2>5, <2>6 DEF HeldInv
<1>9. CASE ReplayCommand
  <2>1. /\ anchored /\ held' = held + 1 /\ UNCHANGED <<anchored, cursor, tasks, drifts>>
        /\ loc = "rebuild" /\ replay.at < cursor
        /\ \/ replay' = [at |-> replay.at + 1,
                         contents |-> Append(replay.contents, EffectiveText(replay.at + 1))]
           \/ loc' = "idle"
    BY <1>5, <1>9, NoTaskCounted DEF ReplayCommand
  <2>2. loc' = "rebuild" => replay'.at = replay.at + 1
    BY <2>1
  <2>3. held <= drifts * p + (1 + replay.at - HeaderIndex) + T
    BY <2>1 DEF HeldInv
  <2>4. (1 + drifts) * p = drifts * p + p /\ drifts * p \in Nat
    BY <1>1, <1>2, <2>1, Sums
  <2>5. UNCHANGED <<anchored, cursor, tasks, drifts>> /\ held' = held + 1 /\ replay.at < cursor
    BY <2>1
  <2>6. held' <= (1 + drifts) * p + T + f
    BY <1>1, <1>e, <2>3, <2>4, <2>5
  <2>7. loc' = "rebuild" => held' <= drifts * p + (1 + replay'.at - HeaderIndex) + T
    <3>1. drifts * p + (1 + (replay.at + 1) - HeaderIndex) + T
          = (drifts * p + (1 + replay.at - HeaderIndex) + T) + 1
      BY <1>1, <2>4, OneMore
    <3>2. held + 1 <= (drifts * p + (1 + replay.at - HeaderIndex) + T) + 1
      BY <1>1, <2>3, <2>4, Shift
    <3> QED
      BY <2>2, <2>5, <3>1, <3>2
  <2> QED
    BY <1>1, <1>b, <2>1, <2>5, <2>6, <2>7 DEF HeldInv
<1>10. CASE Rebuilt
  <2>1. /\ anchored' /\ cursor' = cursor /\ loc' = "walk" /\ UNCHANGED <<drifts, held, tasks>> /\ anchored
    BY <1>5, <1>10 DEF Rebuilt, SetAnchor
  <2>2. held' <= (1 + drifts') * (1 + cursor' - HeaderIndex) + Len(tasks') + f
    BY <1>1, <1>3, <1>a, <1>e, <2>1
  <2> QED
    BY <1>b, <2>1, <2>2 DEF HeldInv
<1>11. CASE WalkOn
  <2>1. /\ anchored' /\ cursor' = cursor + 1 /\ held' = held + 1 /\ loc' = "walk"
        /\ UNCHANGED <<drifts, tasks>> /\ anchored
    BY <1>5, <1>11 DEF WalkOn, SetAnchor
  <2>2. /\ (1 + drifts) * (p + 1) = (1 + drifts) * p + 1 + drifts /\ (1 + drifts) * p \in Nat
    BY <1>1, <1>2, <2>1, Sums
  <2>5. Localize
    BY <1>11 DEF Localize
  <2>3. 1 + cursor' - HeaderIndex = p + 1
    BY <1>1, <2>1
  <2>4. held' <= (1 + drifts) * (p + 1) + T + f
    BY <1>1, <1>3, <1>e, <2>1, <2>2, <2>5
  <2> QED
    BY <1>b, <2>1, <2>3, <2>4 DEF HeldInv
<1>12. CASE LocalizeFailure
  <2>1. /\ anchored /\ held' = held + 1 /\ loc' = "idle" /\ UNCHANGED <<anchored, cursor, drifts>>
        /\ NextTask
    BY <1>5, <1>12 DEF LocalizeFailure
  <2>2. Len(tasks') = T + 1
    <3>1. Len(tasks) = Task /\ Len(tasks') = Task'
      BY PlacesKeeps DEF PlacesInv
    <3>2. Task' = Task + 1
      BY <2>1, RepairStepIsStep, RecordsGrow
    <3> QED
      BY <3>1, <3>2
  <2>3. (1 + drifts) * p \in Nat
    BY <1>1, <1>2, <2>1, Sums
  <2>4. held' <= (1 + drifts') * (1 + cursor' - HeaderIndex) + Len(tasks') + f
    BY <1>1, <1>3, <1>e, <2>1, <2>2, <2>3
  <2> QED
    BY <1>b, <2>1, <2>4 DEF HeldInv
<1> QED
  BY <1>6, <1>7, <1>8, <1>9, <1>10, <1>11, <1>12 DEF Localize

-----------------------------------------------------------------------------

\* What holds of a repair run, whatever the layout of the theory.
RunInv ==
    /\ IInv
    /\ RepairTypeOK /\ LocalizerInv /\ PlacesInv
    /\ FinishedInv /\ LinkInv /\ HeldInv

\* A fresh run.
LEMMA RepairInitKeeps ==
    ASSUME RepairInit
    PROVE  RunInv
<1>1. IInv /\ Task = 0
  BY InitKeeps DEF RepairInit, Init, Task
<1>2. theory \in Theories /\ Len(theory) \in Nat
  BY HeaderTyped DEF RepairInit
<1>3. /\ contents \in Seq(Text) /\ DOMAIN replacements = {} /\ DOMAIN tasks = {} /\ Len(tasks) = 0
      /\ replacements \in Seq([line : Nat \ {0}, task : Nat, rec : Seq(Nat), text : Text])
      /\ tasks \in Seq([index : DOMAIN theory, text : Text, timeout : BOOLEAN, drift : BOOLEAN])
  BY DEF RepairInit
<1>4. /\ replay \in [at : 0 .. Len(theory), contents : Seq(Text)] /\ cursor \in 0 .. Len(theory)
      /\ drifts \in 0 .. MaxDrifts
  <2>1. <<>> \in Seq(Text) /\ 0 \in 0 .. Len(theory) /\ 0 \in 0 .. MaxDrifts
    BY <1>2, RepairAssumption
  <2> QED
    BY <2>1 DEF RepairInit
<1>5. RepairTypeOK
  BY <1>2, <1>3, <1>4 DEF RepairInit, RepairTypeOK
<1>6. LocalizerInv /\ FinishedInv /\ LinkInv
  BY <1>3 DEF RepairInit, Init, LocalizerInv, FinishedInv, LinkInv
<1>7. PlacesInv /\ HeldInv
  BY <1>1, <1>3 DEF RepairInit, Init, PlacesInv, Working, HeldInv, HeldBounded
<1> QED
  BY <1>1, <1>5, <1>6, <1>7 DEF RunInv

\* Every step of the script keeps the invariant.
LEMMA RepairStepKeeps ==
    ASSUME RunInv, [RepairNext]_allVars
    PROVE  RunInv'
<1>1. IInv /\ RepairTypeOK /\ LocalizerInv /\ PlacesInv /\ FinishedInv /\ LinkInv /\ HeldInv
  BY DEF RunInv
<1>2. IInv'
  BY <1>1, RepairStepIsStep, StepKeeps
<1>3. RepairTypeOK' /\ LocalizerInv' /\ PlacesInv'
  BY <1>1, RepairTypedKeeps, LocalizerKeeps, PlacesKeeps
<1>4. FinishedInv' /\ LinkInv' /\ HeldInv'
  BY <1>1, FinishedKeeps, LinkKeeps, HeldKeeps
<1> QED
  BY <1>2, <1>3, <1>4 DEF RunInv

\* The invariant of a repair run.
THEOREM RepairInductive == RepairSpec => []RunInv
<1>1. RepairInit => RunInv
  BY RepairInitKeeps
<1>2. RunInv /\ [RepairNext]_allVars => RunInv'
  BY RepairStepKeeps
<1> QED
  BY <1>1, <1>2, PTL DEF RepairSpec

\* The localizer, the snapshot, the export and the script keep their types: every
\* replacement has a line, and cursor and tasks name commands of the theory.
THEOREM RepairTyped == RepairSpec => []RepairTypeOK
<1>1. RunInv => RepairTypeOK
  BY DEF RunInv
<1> QED
  BY <1>1, RepairInductive, PTL

\* The localizer creates each command's state once and replays only for drifts:
\* for every theory and every number of drifts.
THEOREM StatesAreBounded == RepairSpec => []HeldBounded
<1>1. RunInv => HeldBounded
  BY DEF RunInv, HeldInv
<1> QED
  BY <1>1, RepairInductive, PTL

\* Every entry of an export names an ARTIFACT record of its own task, whatever
\* reviews and failures went before and after.
THEOREM ExportIsLinked == RepairSpec => []ExportLinked
<1>1. RunInv => ExportLinked
  <2> SUFFICES ASSUME LinkInv, RepairTypeOK, NEW link \in Range(PatchProvenanceLinks)
               PROVE  /\ link.rec # <<>> /\ link.rec[1] = link.task
                      /\ records[link.task][link.rec[2]] = "artifact"
    BY DEF RunInv, ExportLinked
  <2>1. PICK k \in DOMAIN replacements :
            link = [task |-> replacements[k].task, rec |-> replacements[k].rec]
    BY DEF PatchProvenanceLinks, Range
  <2>2. link.rec = replacements[k].rec /\ link.task = replacements[k].task
    BY <2>1
  <2>3. /\ Len(replacements[k].rec) = 2 /\ replacements[k].rec[1] = replacements[k].task
        /\ records[replacements[k].task][replacements[k].rec[2]] = "artifact"
    BY DEF LinkInv
  <2>4. replacements[k].rec # <<>>
    <3>1. Len(<<>>) = 0
      OBVIOUS
    <3> QED
      BY <2>3, <3>1
  <2> QED
    BY <2>2, <2>3, <2>4
<1> QED
  BY <1>1, RepairInductive, PTL

-----------------------------------------------------------------------------
(* The anchor is what the texts in effect lead to                          *)

\* Without a new replacement the texts in effect stay.
LEMMA EffectiveStays ==
    ASSUME theory' = theory, replacements' = replacements
    PROVE  Effective' = Effective
BY DEF Effective, EffectiveText, ReplacementsAt, ReplacementForLine, Original

\* A new replacement changes the text of the command after the anchor only, as long
\* as no other shares its line.
LEMMA EffectiveChanges ==
    ASSUME LinesApart, RunInv, ApplyToSnapshot, theory' = theory
    PROVE  /\ Effective'[cursor + 1] = Entry.text
           /\ \A i \in 1 .. Len(theory) : i # cursor + 1 => Effective'[i] = Effective[i]
<1>1. /\ replacements' = Append(replacements, Entry) /\ Entry \in EntryType
      /\ cursor + 1 \in 1 .. Len(theory)
  BY Noted DEF RunInv
<1>2. /\ theory \in Seq(Command) /\ Len(theory) \in Nat /\ DOMAIN theory = 1 .. Len(theory)
      /\ theory \in Theories /\ cursor \in Nat
  BY HeaderTyped DEF RunInv, RepairTypeOK
<1>3. replacements \in Seq(EntryType) /\ Len(replacements) \in Nat
  BY DEF RunInv, RepairTypeOK, EntryType
<1> DEFINE n == Len(replacements)
<1>4. /\ replacements' \in Seq(EntryType) /\ Len(replacements') = n + 1
      /\ DOMAIN replacements = 1 .. n /\ DOMAIN replacements' = 1 .. n + 1
      /\ \A k \in 1 .. n : replacements'[k] = replacements[k]
      /\ replacements'[n + 1] = Entry
  <2>1. /\ replacements' \in Seq(EntryType) /\ Len(replacements') = n + 1
        /\ \A k \in 1 .. n : replacements'[k] = replacements[k]
        /\ replacements'[n + 1] = Entry
    BY <1>1, <1>3, AppendProperties
  <2> QED
    BY <1>3, <2>1
<1>5. Entry.line = theory[cursor + 1].line
  BY DEF Entry
<1>6. Effective'[cursor + 1] = Entry.text
  <2>1. PICK c \in 1 .. Len(theory) : c = cursor + 1
    BY <1>1
  <2> DEFINE S == {k \in DOMAIN replacements' : replacements'[k].line = theory[c].line}
  <2>2. S \subseteq 1 .. n + 1 /\ n + 1 \in S /\ n + 1 \in Nat
    BY <1>3, <1>4, <1>5, <2>1
  <2>3. Effective'[c] = IF S = {} THEN Original(c) ELSE replacements'[Max(S)].text
    BY DEF Effective, EffectiveText, ReplacementsAt, ReplacementForLine, Original
  <2> HIDE DEF S
  <2>4. Max(S) \in S /\ \A y \in S : y <= Max(S)
    <3>1. S \subseteq 0 .. n + 1 /\ S # {}
      BY <1>3, <2>2
    <3> QED
      BY <2>2, <3>1, GreatestNatural
  <2>5. Max(S) \in 1 .. n + 1 /\ n + 1 <= Max(S)
    BY <2>2, <2>4
  <2>6. Max(S) = n + 1
    BY <2>2, <2>5
  <2> QED
    BY <1>4, <2>1, <2>2, <2>3, <2>6
<1>7. ASSUME NEW i \in 1 .. Len(theory), i # cursor + 1
      PROVE  Effective'[i] = Effective[i]
  <2>1. theory[i].line # theory[cursor + 1].line
    <3>1. \A j \in 1 .. Len(theory) : theory[j].line \in Nat
      <4>1. \A j \in 1 .. Len(theory) : theory[j] \in Command
        BY <1>2, ElementOfSeq
      <4> QED
        BY <4>1 DEF Command
    <3>2. i < cursor + 1 \/ cursor + 1 < i
      BY <1>1, <1>2, <1>7
    <3>3. theory[i].line < theory[cursor + 1].line \/ theory[cursor + 1].line < theory[i].line
      BY <1>1, <1>2, <3>2 DEF LinesApart
    <3> QED
      BY <1>1, <3>1, <3>3
  <2> DEFINE line == theory[i].line
             S == {k \in DOMAIN replacements : replacements[k].line = line}
             Z == {k \in DOMAIN replacements' : replacements'[k].line = line}
  <2>2. Z = S
    <3>1. \A k \in 1 .. n + 1 : k = n + 1 \/ k \in 1 .. n
      BY <1>3
    <3>2. 1 .. n \subseteq 1 .. n + 1
      BY <1>3
    <3> QED
      BY <1>4, <1>5, <2>1, <3>1, <3>2
  <2>3. Effective'[i] = EffectiveText(i)' /\ Effective[i] = EffectiveText(i)
    BY <1>7 DEF Effective
  <2>4. CASE S = {}
    BY <2>2, <2>3, <2>4 DEF EffectiveText, ReplacementsAt, Original
  <2>5. CASE S # {}
    <3>0. S \subseteq 0 .. n
      BY <1>3, <1>4
    <3>1. Max(S) \in S
      BY <1>3, <2>5, <3>0, GreatestNatural
    <3>2. replacements'[Max(S)] = replacements[Max(S)]
      BY <1>4, <3>1
    <3>3. EffectiveText(i)' = replacements'[Max(Z)].text /\ EffectiveText(i) = replacements[Max(S)].text
      BY <2>2, <2>5 DEF EffectiveText, ReplacementsAt, ReplacementForLine
    <3> QED
      BY <2>2, <2>3, <3>2, <3>3
  <2> QED
    BY <2>4, <2>5
<1> QED
  BY <1>6, <1>7

\* Two states reached by executing the theory up to the same command are the same.
LEMMA ReachedUnique ==
    ASSUME NEW a, NEW b, NEW n, Reached(a, n), Reached(b, n), HeaderIndex \in Nat, n \in Nat,
           HeaderIndex <= n, AfterHeader \in Seq(Text)
    PROVE  a = b
<1>1. /\ a \in Seq(Text) /\ b \in Seq(Text) /\ Len(AfterHeader) \in Nat
      /\ Len(a) = Len(AfterHeader) + (n - HeaderIndex) /\ Len(b) = Len(a)
  BY DEF Reached
<1>2. ASSUME NEW k \in 1 .. Len(a)
      PROVE  a[k] = b[k]
  <2>1. CASE k \in 1 .. Len(AfterHeader)
    BY <2>1 DEF Reached
  <2>2. CASE k \notin 1 .. Len(AfterHeader)
    <3> DEFINE m == k - Len(AfterHeader)
    <3>1. m \in 1 .. n - HeaderIndex /\ k = Len(AfterHeader) + m
      BY <1>1, <2>2
    <3> HIDE DEF m
    <3> QED
      BY <3>1 DEF Reached
  <2> QED
    BY <2>1, <2>2
<1> QED
  BY <1>1, <1>2, SeqEqual

\* One command more.
LEMMA ReachedNext ==
    ASSUME NEW a, NEW n, Reached(a, n), HeaderIndex \in Nat, n \in Nat, HeaderIndex <= n,
           AfterHeader \in Seq(Text), Effective[n + 1] \in Text
    PROVE  Reached(Append(a, Effective[n + 1]), n + 1)
<1> DEFINE b == Append(a, Effective[n + 1])
<1>1. /\ a \in Seq(Text) /\ Len(AfterHeader) \in Nat
      /\ Len(a) = Len(AfterHeader) + (n - HeaderIndex)
  BY DEF Reached
<1>2. /\ b \in Seq(Text) /\ Len(b) = Len(a) + 1 /\ b[Len(a) + 1] = Effective[n + 1]
      /\ \A k \in 1 .. Len(a) : b[k] = a[k]
  BY <1>1, AppendProperties
<1> HIDE DEF b
<1>3. Len(b) = Len(AfterHeader) + ((n + 1) - HeaderIndex)
  BY <1>1, <1>2
<1>4. \A k \in 1 .. Len(AfterHeader) : b[k] = AfterHeader[k]
  <2>1. \A k \in 1 .. Len(AfterHeader) : k \in 1 .. Len(a)
    BY <1>1
  <2> QED
    BY <1>2, <2>1 DEF Reached
<1>5. ASSUME NEW k \in 1 .. (n + 1) - HeaderIndex
      PROVE  b[Len(AfterHeader) + k] = Effective[HeaderIndex + k]
  <2>1. CASE k = (n + 1) - HeaderIndex
    <3>1. Len(AfterHeader) + k = Len(a) + 1 /\ HeaderIndex + k = n + 1
      BY <1>1, <2>1
    <3> QED
      BY <1>2, <3>1
  <2>2. CASE k # (n + 1) - HeaderIndex
    <3>1. k \in 1 .. n - HeaderIndex /\ Len(AfterHeader) + k \in 1 .. Len(a)
      BY <1>1, <2>2
    <3> QED
      BY <1>2, <3>1 DEF Reached
  <2> QED
    BY <2>1, <2>2
<1> QED
  BY <1>2, <1>3, <1>4, <1>5 DEF Reached, b

\* The header alone.
LEMMA ReachedHeader ==
    ASSUME AfterHeader \in Seq(Text), HeaderIndex \in Nat
    PROVE  Reached(AfterHeader, HeaderIndex)
<1>1. Len(AfterHeader) = Len(AfterHeader) + (HeaderIndex - HeaderIndex)
      /\ \A k \in 1 .. HeaderIndex - HeaderIndex : FALSE
  OBVIOUS
<1> QED
  BY <1>1 DEF Reached

\* What was reached stays reached while the texts up to there are in effect.
LEMMA ReachedStays ==
    ASSUME NEW a, NEW n, Reached(a, n), HeaderIndex \in Nat, n \in Nat, AfterHeader' = AfterHeader,
           HeaderIndex' = HeaderIndex, \A i \in 1 .. n : Effective'[i] = Effective[i]
    PROVE  Reached(a, n)'
<1>1. \A k \in 1 .. n - HeaderIndex : HeaderIndex + k \in 1 .. n
  OBVIOUS
<1> QED
  BY <1>1 DEF Reached


\* Where the localizer is, and what it may count on.
LEMMA Located ==
    ASSUME RunInv, [RepairNext]_allVars
    PROVE  /\ theory' = theory /\ HeaderIndex' = HeaderIndex /\ AfterHeader' = AfterHeader
           /\ Len(theory) \in Nat /\ HeaderIndex \in Nat /\ AfterHeader \in Seq(Text)
           /\ cursor \in Nat /\ cursor \in 0 .. Len(theory) /\ replay.at \in Nat
           /\ replay.at \in 0 .. Len(theory) /\ contents \in Seq(Text) /\ replay.contents \in Seq(Text)
           /\ anchored => HeaderIndex <= cursor
           /\ loc = "rebuild" => anchored /\ HeaderIndex <= replay.at
<1>1. theory \in Theories
  BY DEF RunInv, RepairTypeOK
<1>2. /\ Len(theory) \in Nat /\ HeaderIndex \in 0 .. Len(theory) /\ AfterHeader \in Seq(Text)
  BY <1>1, HeaderTyped
<1>3. /\ cursor \in 0 .. Len(theory) /\ contents \in Seq(Text)
      /\ replay \in [at : 0 .. Len(theory), contents : Seq(Text)]
  BY DEF RunInv, RepairTypeOK
<1>4. /\ anchored => HeaderIndex \in 1 .. cursor
      /\ loc = "rebuild" => anchored /\ HeaderIndex <= replay.at
  BY DEF RunInv, PlacesInv, LocalizerInv
<1> QED
  BY <1>2, <1>3, <1>4, TheoryStays

\* A step changes no text in effect up to the cursor, and a step of the localizer
\* none at all.
LEMMA TextsStay ==
    ASSUME LinesApart, RunInv, [RepairNext]_allVars
    PROVE  /\ \A i \in 1 .. cursor : Effective'[i] = Effective[i]
           /\ ~ ApplyToSnapshot => Effective' = Effective
<1>1. theory' = theory /\ Len(theory) \in Nat /\ cursor \in 0 .. Len(theory)
  BY Located
<1>2. CASE replacements' = replacements
  BY <1>1, <1>2, EffectiveStays
<1>3. CASE ApplyToSnapshot
  <2>1. \A i \in 1 .. Len(theory) : i # cursor + 1 => Effective'[i] = Effective[i]
    BY <1>1, <1>3, EffectiveChanges
  <2>2. \A i \in 1 .. cursor : i \in 1 .. Len(theory) /\ i # cursor + 1
    BY <1>1
  <2> QED
    BY <1>3, <2>1, <2>2
<1>4. CASE Localize
  <2>1. replacements' = replacements
    BY <1>4 DEF Localize, NothingToDo, BootstrapAnchor, BootstrapFails, NoDrift, Drift, ReplayCommand,
       Rebuilt, WalkOn, LocalizeFailure, TheoryEnds, ReturnNone
  <2> QED
    BY <1>2, <2>1
<1> QED
  BY <1>2, <1>3, <1>4, Outside

\* What the localizer does to the anchor and to the one being rebuilt.
LEMMA AnchorSteps ==
    ASSUME RunInv, Localize
    PROVE  \/ /\ UNCHANGED <<anchored, contents, cursor>>
              /\ \/ loc' # "rebuild"
                 \/ replay'.at = HeaderIndex /\ replay'.contents = AfterHeader
                 \/ /\ loc = "rebuild" /\ replay.at < cursor /\ replay'.at = replay.at + 1
                    /\ replay'.contents = Append(replay.contents, EffectiveText(replay.at + 1))
           \/ /\ ~ anchored /\ anchored' /\ contents' = AfterHeader /\ cursor' = HeaderIndex
              /\ loc' = "walk"
           \/ /\ loc = "rebuild" /\ replay.at = cursor /\ anchored' /\ contents' = replay.contents
              /\ cursor' = cursor /\ loc' = "walk"
           \/ /\ WalkOn /\ anchored /\ anchored' /\ cursor < Len(theory) /\ cursor' = cursor + 1
              /\ contents' = Append(contents, EffectiveText(cursor + 1)) /\ loc' = "walk"
<1>1. CASE NothingToDo \/ TheoryEnds \/ BootstrapFails \/ NoDrift \/ LocalizeFailure
  BY <1>1 DEF NothingToDo, TheoryEnds, BootstrapFails, NoDrift, LocalizeFailure, ReturnNone, snapshotVars
<1>2. CASE BootstrapAnchor
  BY <1>2 DEF BootstrapAnchor, SetAnchor
<1>3. CASE Drift
  BY <1>3 DEF Drift, ReturnNone
<1>4. CASE ReplayCommand
  <2>1. /\ UNCHANGED <<anchored, contents, cursor>> /\ loc = "rebuild" /\ replay.at < cursor
        /\ \/ replay' = [at |-> replay.at + 1,
                         contents |-> Append(replay.contents, EffectiveText(replay.at + 1))]
           \/ loc' = "idle"
    BY <1>4 DEF ReplayCommand, ReturnNone
  <2> QED
    BY <2>1
<1>5. CASE Rebuilt
  BY <1>5 DEF Rebuilt, SetAnchor
<1>6. CASE WalkOn
  <2>1. anchored
    BY <1>6 DEF WalkOn, RunInv, LocalizerInv
  <2> QED
    BY <1>6, <2>1 DEF WalkOn, SetAnchor
<1> QED
  BY <1>1, <1>2, <1>3, <1>4, <1>5, <1>6 DEF Localize

\* Every step keeps the anchor what the texts in effect lead to.
LEMMA AnchorKeeps ==
    ASSUME LinesApart, RunInv, AnchorInv, [RepairNext]_allVars
    PROVE  AnchorInv'
<1>0. /\ theory' = theory /\ HeaderIndex' = HeaderIndex /\ AfterHeader' = AfterHeader
      /\ Len(theory) \in Nat /\ HeaderIndex \in Nat /\ AfterHeader \in Seq(Text)
      /\ cursor \in Nat /\ cursor \in 0 .. Len(theory) /\ replay.at \in Nat
      /\ replay.at \in 0 .. Len(theory)
      /\ anchored => HeaderIndex <= cursor
      /\ loc = "rebuild" => anchored /\ HeaderIndex <= replay.at
  BY Located
<1>1. \A i \in 1 .. cursor : Effective'[i] = Effective[i]
  BY TextsStay
<1>2. ASSUME NEW a, NEW n \in Nat, Reached(a, n), n <= cursor \/ ~ ApplyToSnapshot
      PROVE  Reached(a, n)'
  <2>1. \A i \in 1 .. n : Effective'[i] = Effective[i]
    <3>1. CASE n <= cursor
      <4>1. \A i \in 1 .. n : i \in 1 .. cursor
        BY <1>0, <3>1
      <4> QED
        BY <1>1, <4>1
    <3>2. CASE ~ ApplyToSnapshot
      BY <3>2, TextsStay
    <3> QED
      BY <1>2, <3>1, <3>2
  <2> QED
    BY <1>0, <1>2, <2>1, ReachedStays
<1>3. ASSUME NEW a, NEW n \in Nat, contents' = a, cursor' = n, Reached(a, n)'
      PROVE  Reached(contents, cursor)'
  BY <1>3 DEF Reached
<1>4. ASSUME NEW a, NEW n \in Nat, replay'.contents = a, replay'.at = n, Reached(a, n)'
      PROVE  Reached(replay.contents, replay.at)'
  BY <1>4 DEF Reached
<1>5. ASSUME UNCHANGED <<anchored, contents, cursor>>
      PROVE  anchored' => Reached(contents, cursor)'
  <2>1. PICK a, n : a = contents /\ n = cursor
    OBVIOUS
  <2>2. anchored => Reached(a, n)'
    BY <1>0, <1>2, <2>1 DEF AnchorInv
  <2> QED
    BY <1>0, <1>3, <1>5, <2>1, <2>2
<1>6. CASE ~ Localize
  <2>1. /\ UNCHANGED <<anchored, contents, cursor, replay>> /\ (loc' = loc \/ loc' = "idle")
    BY <1>6, Outside
  <2>2. loc' = "rebuild" => Reached(replay.contents, replay.at)'
    <3>1. PICK a, n : a = replay.contents /\ n = replay.at
      OBVIOUS
    <3>2. loc = "rebuild" => n <= cursor
      BY <3>1 DEF RunInv, PlacesInv
    <3>3. loc = "rebuild" => Reached(a, n)'
      BY <1>0, <1>2, <3>1, <3>2 DEF AnchorInv
    <3> QED
      BY <1>0, <1>4, <2>1, <3>1, <3>3
  <2> QED
    BY <1>5, <2>1, <2>2 DEF AnchorInv
<1>7. CASE Localize
  <2>0. ~ ApplyToSnapshot
    BY <1>7 DEF Localize, ApplyToSnapshot, ApplyAcceptedArtifact, NothingToDo, BootstrapAnchor,
       BootstrapFails, NoDrift, Drift, ReplayCommand, Rebuilt, WalkOn, LocalizeFailure, TheoryEnds,
       Called, RunInv, LocalizerInv
  <2>h. Reached(AfterHeader, HeaderIndex)
    BY <1>0, ReachedHeader
  <2>n. ASSUME NEW i \in 1 .. Len(theory)
        PROVE  EffectiveText(i) = Effective[i] /\ Effective[i] \in Text
    BY EffectiveTyped DEF Effective, RunInv
  <2>1. CASE UNCHANGED <<anchored, contents, cursor>> /\ loc' # "rebuild"
    BY <1>5, <2>1 DEF AnchorInv
  <2>2. CASE /\ UNCHANGED <<anchored, contents, cursor>>
             /\ replay'.at = HeaderIndex /\ replay'.contents = AfterHeader
    <3>1. PICK a, n : a = AfterHeader /\ n = HeaderIndex
      OBVIOUS
    <3>2. Reached(a, n)'
      BY <1>0, <1>2, <2>0, <2>h, <3>1
    <3>3. Reached(replay.contents, replay.at)'
      BY <1>0, <1>4, <2>2, <3>1, <3>2
    <3> QED
      BY <1>5, <2>2, <3>3 DEF AnchorInv
  <2>3. CASE /\ UNCHANGED <<anchored, contents, cursor>>
             /\ loc = "rebuild" /\ replay.at < cursor /\ replay'.at = replay.at + 1
             /\ replay'.contents = Append(replay.contents, EffectiveText(replay.at + 1))
    <3>1. PICK a, n, b : /\ a = replay.contents /\ n = replay.at
                         /\ b = Append(replay.contents, EffectiveText(replay.at + 1))
      OBVIOUS
    <3>2. Reached(a, n) /\ HeaderIndex <= n /\ n \in Nat /\ n + 1 \in 1 .. Len(theory)
      BY <1>0, <2>3, <3>1 DEF AnchorInv
    <3>3. Effective[n + 1] \in Text /\ b = Append(a, Effective[n + 1])
      BY <2>n, <3>1, <3>2
    <3>4. Reached(b, n + 1)
      BY <1>0, <3>2, <3>3, ReachedNext
    <3>5. Reached(b, n + 1)'
      BY <1>2, <2>0, <3>2, <3>4
    <3>6. Reached(replay.contents, replay.at)'
      BY <1>4, <2>3, <3>1, <3>2, <3>5
    <3> QED
      BY <1>5, <2>3, <3>6 DEF AnchorInv
  <2>4. CASE contents' = AfterHeader /\ cursor' = HeaderIndex /\ loc' = "walk"
    <3>1. PICK a, n : a = AfterHeader /\ n = HeaderIndex
      OBVIOUS
    <3>2. Reached(a, n)'
      BY <1>0, <1>2, <2>0, <2>h, <3>1
    <3> QED
      BY <1>0, <1>3, <2>4, <3>1, <3>2 DEF AnchorInv
  <2>5. CASE /\ loc = "rebuild" /\ replay.at = cursor /\ contents' = replay.contents
             /\ cursor' = cursor /\ loc' = "walk"
    <3>1. PICK a, n : a = replay.contents /\ n = replay.at
      OBVIOUS
    <3>2. Reached(a, n)'
      BY <1>0, <1>2, <2>0, <2>5, <3>1 DEF AnchorInv
    <3> QED
      BY <1>0, <1>3, <2>5, <3>1, <3>2 DEF AnchorInv
  <2>6. CASE /\ anchored /\ cursor < Len(theory) /\ cursor' = cursor + 1
             /\ contents' = Append(contents, EffectiveText(cursor + 1)) /\ loc' = "walk"
    <3>1. PICK a, n, b : /\ a = contents /\ n = cursor
                         /\ b = Append(contents, EffectiveText(cursor + 1))
      OBVIOUS
    <3>2. Reached(a, n) /\ HeaderIndex <= n /\ n \in Nat /\ n + 1 \in 1 .. Len(theory)
      BY <1>0, <2>6, <3>1 DEF AnchorInv
    <3>3. Effective[n + 1] \in Text /\ b = Append(a, Effective[n + 1])
      BY <2>n, <3>1, <3>2
    <3>4. Reached(b, n + 1)
      BY <1>0, <3>2, <3>3, ReachedNext
    <3>5. Reached(b, n + 1)'
      BY <1>2, <2>0, <3>2, <3>4
    <3>6. Reached(contents, cursor)'
      BY <1>3, <2>6, <3>1, <3>2, <3>5
    <3> QED
      BY <2>6, <3>6 DEF AnchorInv
  <2> QED
    BY <1>7, AnchorSteps, <2>1, <2>2, <2>3, <2>4, <2>5, <2>6
<1> QED
  BY <1>6, <1>7

\* Sequences that are extended have what they had as a prefix.
LEMMA Extended ==
    ASSUME NEW S, NEW s \in Seq(S), NEW t \in Seq(S), s = <<>> \/ t = s \/ \E e \in S : t = Append(s, e)
    PROVE  IsPrefix(s, t)
<1>1. t \in Seq(S) /\ Len(s) \in Nat /\ Len(t) \in Nat /\ Len(s) <= Len(t)
  OBVIOUS
<1>2. \A i \in 1 .. Len(s) : s[i] = t[i]
  OBVIOUS
<1>3. /\ SubSeq(s, 1, Len(s)) = [i \in 1 .. Len(s) |-> s[i]]
      /\ SubSeq(t, 1, Len(s)) = [i \in 1 .. Len(s) |-> t[i]]
  BY <1>1
<1>4. SubSeq(s, 1, Len(s)) = SubSeq(t, 1, Len(s))
  BY <1>2, <1>3
<1> QED
  BY <1>1, <1>4 DEF IsPrefix

\* A rebuild gives back the anchor that was lost; every other step extends it.
LEMMA AnchorStep ==
    ASSUME LinesApart, RunInv, AnchorInv, [RepairNext]_allVars
    PROVE  /\ IsPrefix(contents, contents') /\ cursor' >= cursor
           /\ ~ WalkOn /\ anchored => contents' = contents /\ cursor' = cursor
<1>0. /\ Len(theory) \in Nat /\ HeaderIndex \in Nat /\ AfterHeader \in Seq(Text)
      /\ cursor \in Nat /\ cursor \in 0 .. Len(theory) /\ contents \in Seq(Text)
      /\ anchored => HeaderIndex <= cursor
      /\ loc = "rebuild" => anchored /\ HeaderIndex <= replay.at
  BY Located
<1>1. CASE UNCHANGED <<contents, cursor>>
  BY <1>0, <1>1, Extended
<1>2. CASE ~ anchored /\ contents' = AfterHeader /\ cursor' = HeaderIndex
  <2>1. contents = <<>> /\ cursor = 0
    BY <1>2 DEF RunInv, PlacesInv
  <2>2. IsPrefix(contents, AfterHeader)
    BY <1>0, <2>1, Extended
  <2> QED
    BY <1>0, <1>2, <2>1, <2>2
<1>3. CASE loc = "rebuild" /\ replay.at = cursor /\ contents' = replay.contents /\ cursor' = cursor
  <2>1. Reached(replay.contents, cursor) /\ Reached(contents, cursor)
    BY <1>0, <1>3 DEF AnchorInv
  <2>2. replay.contents = contents
    BY <1>0, <1>3, <2>1, ReachedUnique
  <2> QED
    BY <1>1, <1>3, <2>2
<1>4. CASE /\ WalkOn /\ cursor < Len(theory) /\ cursor' = cursor + 1
           /\ contents' = Append(contents, EffectiveText(cursor + 1))
  <2>1. EffectiveText(cursor + 1) \in Text
    BY <1>0, <1>4, EffectiveTyped DEF RunInv
  <2>2. Append(contents, EffectiveText(cursor + 1)) \in Seq(Text)
    BY <1>0, <2>1
  <2>3. IsPrefix(contents, Append(contents, EffectiveText(cursor + 1)))
    BY <1>0, <2>1, <2>2, Extended
  <2> QED
    BY <1>0, <1>4, <2>3
<1> QED
  BY <1>1, <1>2, <1>3, <1>4, Outside, AnchorSteps

\* The anchor's contents are only ever extended, also by a rebuild, however many
\* drifts there are: for theories with at most one command to a line.
THEOREM AnchorExtends ==
    ASSUME LinesApart
    PROVE  RepairSpec => AnchorOnlyExtends
<1>1. RepairInit => AnchorInv
  BY DEF RepairInit, AnchorInv
<1>2. RunInv /\ AnchorInv /\ [RepairNext]_allVars => AnchorInv'
  BY AnchorKeeps
<1>3. RunInv /\ AnchorInv /\ [RepairNext]_allVars =>
         [IsPrefix(contents, contents') /\ cursor' >= cursor]_<<contents, cursor>>
  BY AnchorStep
<1> QED
  BY <1>1, <1>2, <1>3, RepairInductive, PTL DEF RepairSpec, AnchorOnlyExtends

-----------------------------------------------------------------------------
(* A repaired command does not fail again                                  *)

\* What the steps of the orchestrator do to the artifact of the task at work: it is
\* validated at the anchor, or stays what it was.
LEMMA ArtifactSteps ==
    ASSUME EngineTexts, IInv, [RepairNext]_allVars, ~ Localize, ~ ApplyToSnapshot
    PROVE  /\ UNCHANGED <<applied, appliedIds>> /\ answers \subseteq answers'
           /\ Working' /\ pc' # "engine" /\ res'.text \in {"candidate", "replacement"} =>
                 \/ pc # "engine" /\ res'.text = res.text
                 \/ [at |-> contents, text |-> Tactic(res'.text), ok |-> TRUE] \in answers'
<1>0. res \in TaskResult
  BY DEF IInv, TypeOK
<1>1. CASE DecideTask
  <2>1. UNCHANGED <<answers, applied, appliedIds>>
    BY <1>1 DEF DecideTask, repairVars, LeaveLoop, GateOrReview, HandleResponse,
       ResolvePlaceholderRequest, AcceptResponse, Return, SkipApply, bookVars, Finalize
  <2>2. pc # "engine"
    BY <1>1 DEF DecideTask, LeaveLoop, GateOrReview, HandleResponse,
       ResolvePlaceholderRequest, AcceptResponse, Return, SkipApply
  <2>3. \/ res' = res \/ res' = [res EXCEPT !.kind = "placeholder"]
        \/ res' = [res EXCEPT !.kind = Last(stack).kind]
    BY <1>1 DEF DecideTask, LeaveLoop, GateOrReview, HandleResponse,
       ResolvePlaceholderRequest, AcceptResponse, Return, SkipApply
  <2>4. res'.text = res.text
    BY <1>0, <2>3 DEF TaskResult
  <2> QED
    BY <2>1, <2>2, <2>4
<1>2. CASE RepairTask
  <2>1. /\ res' \in Results /\ UNCHANGED <<applied, appliedIds>>
        /\ IF res'.text = "candidate"
           THEN answers' = answers \union {[at |-> contents, text |-> Tactic("candidate"), ok |-> TRUE]}
           ELSE answers' = answers
    BY <1>2 DEF RepairTask, RunTask, ValidatedAtAnchor, Answered, bookVars
  <2> QED
    BY <2>1 DEF EngineTexts
<1>3. CASE ReviewReplacement
  <2>1. /\ UNCHANGED <<applied, appliedIds>> /\ pc = "validate"
        /\ \/ /\ res' = [res EXCEPT !.text = "replacement", !.kind = "repair"]
              /\ pc' = "accept"
           \/ res' = res /\ pc' = "return"
        /\ IF pc' = "accept"
           THEN answers' = answers \union {[at |-> contents, text |-> Tactic("replacement"), ok |-> TRUE]}
           ELSE answers' = answers
    BY <1>3 DEF ReviewReplacement, ValidateReplacement, ValidatedAtAnchor, Answered, bookVars
  <2>2. pc' = "accept" => res'.text = "replacement"
    BY <1>0, <2>1 DEF TaskResult
  <2> QED
    BY <2>1, <2>2
<1>4. CASE Execute \/ ReturnState \/ Abort
  <2>1. UNCHANGED <<answers, applied, appliedIds>>
    BY <1>4 DEF Execute, ReturnState, Abort, RunUntilTerminal, Exit, Raise, bookVars
  <2>2. ~ Working'
    BY <1>4 DEF Execute, ReturnState, Abort, RunUntilTerminal, Exit, Raise, Working
  <2> QED
    BY <2>1, <2>2
<1>5. CASE CreateSession \/ LoadTheory \/ ExportPatchArtifacts \/ DestroySession \/ UNCHANGED allVars
  <2>1. UNCHANGED <<vars, answers>>
    BY <1>5 DEF CreateSession, LoadTheory, ExportPatchArtifacts, DestroySession, allVars, repairVars
  <2>2. UNCHANGED <<pc, res, answers, applied, appliedIds>>
    BY <2>1 DEF vars
  <2> QED
    BY <2>2
<1> QED
  BY <1>1, <1>2, <1>3, <1>4, <1>5 DEF RepairNext, RepairStep, Ended

\* The localizer leaves the artifacts alone, and no task is being worked on but the
\* one it returns.
LEMMA LocalizerSteps ==
    ASSUME RunInv, Localize
    PROVE  /\ UNCHANGED <<applied, appliedIds>> /\ answers \subseteq answers'
           /\ ~ LocalizeFailure => tasks' = tasks /\ ~ Working'
<1>1. CASE NothingToDo \/ TheoryEnds \/ BootstrapFails
  <2>1. UNCHANGED <<applied, appliedIds, tasks, answers>> /\ pc' = "exit"
    BY <1>1, NoTaskCounted DEF NothingToDo, TheoryEnds, BootstrapFails
  <2> QED
    BY <2>1 DEF Working
<1>2. CASE Drift \/ ReplayCommand
  <2>0. pc = "loop"
    BY <1>2 DEF Drift, ReplayCommand, Called, RunInv, LocalizerInv
  <2>1. answers \subseteq answers' /\ tasks' = tasks /\ (ReturnNone \/ UNCHANGED vars)
    BY <1>2 DEF Drift, ReplayCommand, Answered, ReturnNone
  <2>2. UNCHANGED <<applied, appliedIds>> /\ (pc' = "exit" \/ pc' = pc)
    BY <2>1, NoTaskCounted DEF vars
  <2> QED
    BY <2>0, <2>1, <2>2 DEF Working
<1>3. CASE BootstrapAnchor \/ NoDrift \/ Rebuilt \/ WalkOn
  <2>0. pc = "loop"
    BY <1>3 DEF BootstrapAnchor, NoDrift, Rebuilt, WalkOn, Called, RunInv, LocalizerInv
  <2>1. answers \subseteq answers' /\ tasks' = tasks /\ UNCHANGED vars
    BY <1>3 DEF BootstrapAnchor, NoDrift, Rebuilt, WalkOn, Answered
  <2>2. UNCHANGED <<applied, appliedIds, pc>>
    BY <2>1 DEF vars
  <2> QED
    BY <2>0, <2>1, <2>2 DEF Working
<1>4. CASE LocalizeFailure
  BY <1>4 DEF LocalizeFailure, NextTask, Answered, bookVars
<1> QED
  BY <1>1, <1>2, <1>3, <1>4 DEF Localize

\* An artifact is of a task that was localized; integrating one adds that of the
\* task at work.
LEMMA RepairedTasks ==
    ASSUME RunInv
    PROVE  /\ \A i : Repaired(i) => i \in 1 .. Task
           /\ ApplyToSnapshot =>
                 \A i : Repaired(i)' => Repaired(i) \/ (i = Task /\ res.kind = "repair")
<1>1. applied \in Seq([task : Nat, kind : ArtifactKind, text : {"block", "candidate", "replacement"}])
  BY DEF RunInv, IInv, TypeOK
<1>2. \A i : Repaired(i) => i \in 1 .. Task
  <2>1. \A k \in DOMAIN applied : applied[k].task \in 1 .. Task
    BY DEF RunInv, IInv, TypeOK, BooksInv
  <2> QED
    BY <2>1 DEF Repaired, Range
<1>3. ASSUME ApplyToSnapshot, NEW i, Repaired(i)'
      PROVE  Repaired(i) \/ (i = Task /\ res.kind = "repair")
  <2> DEFINE e == [task |-> Task, kind |-> res.kind, text |-> res.text]
  <2>1. applied' = Append(applied, e)
    BY <1>3 DEF ApplyToSnapshot, ApplyAcceptedArtifact
  <2>2. PICK k \in DOMAIN applied' : applied'[k].task = i /\ applied'[k].kind = "repair"
    BY <1>3 DEF Repaired, Range
  <2>3. Len(applied) \in Nat /\ DOMAIN applied' = 1 .. Len(applied) + 1
    BY <1>1, <2>1
  <2>4. CASE k = Len(applied) + 1
    BY <1>1, <2>1, <2>2, <2>4
  <2>5. CASE k # Len(applied) + 1
    <3>1. k \in 1 .. Len(applied) /\ DOMAIN applied = 1 .. Len(applied)
      BY <1>1, <2>2, <2>3, <2>5
    <3>2. applied'[k] = applied[k]
      BY <1>1, <2>1, <3>1
    <3> QED
      BY <2>2, <3>1, <3>2 DEF Repaired, Range
  <2> QED
    BY <2>4, <2>5
<1> QED
  BY <1>2, <1>3

\* A command whose repair is in effect can only time out.
LEMMA RepairedFailure ==
    ASSUME RunInv, RepairedInv, LocalizeFailure, theory' = theory, Effective' = Effective
    PROVE  RepairedInv'
<1>1. PICK timeout \in BOOLEAN :
         /\ IF timeout THEN UNCHANGED answers ELSE Answered(contents, EffectiveText(cursor + 1), FALSE)
         /\ tasks' = Append(tasks, [index |-> cursor + 1, text |-> EffectiveText(cursor + 1),
                                    timeout |-> timeout, drift |-> digest.drift])
  BY DEF LocalizeFailure
<1> DEFINE new == [index |-> cursor + 1, text |-> EffectiveText(cursor + 1),
                   timeout |-> timeout, drift |-> digest.drift]
<1>2. /\ cursor < Len(theory) /\ UNCHANGED <<contents, cursor, applied, appliedIds>> /\ pc' = "engine"
      /\ answers \subseteq answers'
  BY LocalizerSteps DEF LocalizeFailure, NextTask, Localize
<1>3. Len(theory) \in Nat /\ cursor \in 0 .. Len(theory) /\ tasks \in Seq(TaskType)
  BY HeaderTyped DEF RunInv, RepairTypeOK, TaskType
<1>4. cursor + 1 \in 1 .. Len(theory) /\ EffectiveText(cursor + 1) = Effective[cursor + 1]
  BY <1>2, <1>3 DEF Effective
<1>5. /\ new.index = cursor + 1 /\ new.text = Effective[cursor + 1] /\ new.timeout = timeout
      /\ new \in TaskType
  <2>1. DOMAIN theory = 1 .. Len(theory) /\ digest.drift \in BOOLEAN
    BY HeaderTyped DEF RunInv, RepairTypeOK
  <2> QED
    BY <1>4, <2>1, EffectiveTyped DEF TaskType, RunInv
<1>6. tasks' = Append(tasks, new)
  BY <1>1
<1> HIDE DEF new
<1> DEFINE n == Len(tasks)
<1>7. /\ n \in Nat /\ DOMAIN tasks = 1 .. n /\ DOMAIN tasks' = 1 .. n + 1 /\ tasks'[n + 1] = new
      /\ \A i \in 1 .. n : tasks'[i] = tasks[i]
      /\ Last(tasks') = new
  <2>1. /\ tasks' \in Seq(TaskType) /\ Len(tasks') = n + 1 /\ Last(tasks') = new /\ tasks'[n + 1] = new
        /\ \A i \in 1 .. n : tasks'[i] = tasks[i]
    BY <1>3, <1>5, <1>6, Pushed
  <2> QED
    BY <1>3, <2>1
<1>8. \A i : (Repaired(i)' <=> Repaired(i)) /\ (Repaired(i) => i \in 1 .. n)
  <2>1. n = Task
    BY DEF RunInv, PlacesInv
  <2> QED
    BY <1>2, <2>1, RepairedTasks DEF Repaired
<1>9. \A i \in 1 .. n : tasks[i].index = cursor + 1 /\ Repaired(i) => Validated(Effective[cursor + 1])
  BY <1>7 DEF RepairedInv
<1>10. Validated(Effective[cursor + 1]) => timeout
  <2> SUFFICES ASSUME Validated(Effective[cursor + 1]), ~ timeout PROVE FALSE
    OBVIOUS
  <2>1. \A a \in answers : a.at = contents /\ a.text = Effective[cursor + 1] => a.ok = FALSE
    BY <1>1, <1>4 DEF Answered
  <2> QED
    BY <2>1 DEF Validated
<1>11. NotReportedAgain'
  <2> SUFFICES ASSUME NEW i \in DOMAIN tasks', NEW j \in DOMAIN tasks', i < j,
                      tasks'[i].index = tasks'[j].index, Repaired(i)'
               PROVE  tasks'[j].timeout
    BY DEF NotReportedAgain, Repaired
  <2>1. i \in 1 .. n /\ tasks'[i] = tasks[i] /\ Repaired(i)
    BY <1>7, <1>8
  <2>2. CASE j = n + 1
    BY <1>5, <1>7, <1>9, <1>10, <2>1, <2>2
  <2>3. CASE j # n + 1
    <3>1. j \in 1 .. n /\ tasks'[j] = tasks[j]
      BY <1>7, <2>3
    <3> QED
      BY <1>7, <2>1, <3>1 DEF RepairedInv, NotReportedAgain, Repaired
  <2> QED
    BY <2>2, <2>3
<1>12. ASSUME NEW i \in DOMAIN tasks', tasks'[i].index = cursor' + 1, Repaired(i)'
       PROVE  Validated(Effective[cursor + 1])'
  <2>1. i \in 1 .. n /\ tasks'[i] = tasks[i] /\ Repaired(i)
    BY <1>7, <1>8, <1>12
  <2>2. Validated(Effective[cursor + 1])
    BY <1>2, <1>9, <1>12, <2>1
  <2> QED
    BY <1>2, <2>2 DEF Validated
<1>13. Last(tasks').text = Effective'[cursor' + 1]
  BY <1>2, <1>5, <1>7
<1> QED
  BY <1>2, <1>11, <1>12, <1>13 DEF RepairedInv

\* Integrating an artifact puts a validated text in effect, or the one that was.
LEMMA RepairedApply ==
    ASSUME LinesApart, RunInv, RiskInv, RepairedInv, ApplyToSnapshot, [RepairNext]_allVars
    PROVE  RepairedInv'
<1>1. /\ pc = "apply" /\ ~ Settled /\ UNCHANGED <<res, tasks, contents, cursor, answers, theory>>
      /\ appliedIds' = appliedIds \union {Task} /\ res.kind # "none" /\ res.text # "none"
  BY DEF ApplyToSnapshot, ApplyAcceptedArtifact, snapshotVars, localizerVars, Settled
<1>2. Working /\ pc # "engine"
  BY <1>1 DEF Working
<1>3. /\ res.text = "block" => res.kind = "placeholder"
  BY <1>1 DEF RiskInv, Cleared
<1>4. res.text \in {"block", "candidate", "replacement"}
  BY <1>1 DEF RunInv, IInv, TypeOK, TaskResult
<1>5. /\ Entry.text = IF res.text = "block" THEN Last(tasks).text ELSE Tactic(res.text)
      /\ Effective'[cursor + 1] = Entry.text
  BY <1>1, EffectiveChanges DEF Entry
<1>6. Task' = Task /\ Len(tasks) = Task /\ Task \in Nat /\ DOMAIN tasks = 1 .. Task
  <2>1. ~ NextTask
    BY <1>1 DEF NextTask
  <2>2. Task' = Task
    BY <2>1, RepairStepIsStep, RecordsGrow DEF RunInv
  <2>3. Len(tasks) = Task /\ tasks \in Seq(TaskType)
    BY DEF RunInv, PlacesInv, RepairTypeOK, TaskType
  <2> QED
    BY <2>2, <2>3
<1>7. \/ Validated(Effective'[cursor + 1])
      \/ Effective'[cursor + 1] = Effective[cursor + 1] /\ res.kind # "repair"
  <2>1. CASE res.text = "block"
    BY <1>1, <1>2, <1>3, <1>5, <2>1 DEF RepairedInv
  <2>2. CASE res.text # "block"
    BY <1>2, <1>4, <1>5, <2>2 DEF RepairedInv
  <2> QED
    BY <2>1, <2>2
<1>8. \A i : Repaired(i)' => Repaired(i) \/ (i = Task /\ res.kind = "repair")
  BY RepairedTasks
<1>9. NotReportedAgain'
  <2> SUFFICES ASSUME NEW i \in DOMAIN tasks, NEW j \in DOMAIN tasks, i < j,
                      tasks[i].index = tasks[j].index, Repaired(i)'
               PROVE  tasks[j].timeout
    BY <1>1 DEF NotReportedAgain, Repaired
  <2>1. Repaired(i)
    BY <1>6, <1>8
  <2> QED
    BY <2>1 DEF RepairedInv, NotReportedAgain, Repaired
<1>10. ASSUME NEW i \in DOMAIN tasks, tasks[i].index = cursor + 1, Repaired(i)'
       PROVE  Validated(Effective'[cursor + 1])
  BY <1>7, <1>8, <1>10 DEF RepairedInv
<1>11. ASSUME NEW i \in DOMAIN tasks', tasks'[i].index = cursor' + 1, Repaired(i)'
       PROVE  Validated(Effective[cursor + 1])'
  BY <1>1, <1>10, <1>11 DEF Validated
<1>12. res'.text \in {"candidate", "replacement"} => Validated(Tactic(res.text))'
  <2>1. res.text \in {"candidate", "replacement"} => Validated(Tactic(res.text))
    BY <1>2 DEF RepairedInv
  <2> QED
    BY <1>1, <2>1 DEF Validated, Tactic
<1>13. Settled'
  BY <1>1, <1>6 DEF Settled
<1> QED
  BY <1>9, <1>11, <1>12, <1>13 DEF RepairedInv

\* Every step keeps a repaired command from failing again.
LEMMA RepairedKeeps ==
    ASSUME LinesApart, EngineTexts, RunInv, AnchorInv, RiskInv, RepairedInv, [RepairNext]_allVars
    PROVE  RepairedInv'
<1>0. /\ theory' = theory /\ Len(theory) \in Nat /\ cursor \in Nat
      /\ ~ ApplyToSnapshot => Effective' = Effective
  BY Located, TextsStay
<1>1. CASE ApplyToSnapshot
  BY <1>1, RepairedApply
<1>2. CASE LocalizeFailure
  <2>1. ~ ApplyToSnapshot
    BY <1>2 DEF LocalizeFailure, NextTask, ApplyToSnapshot, ApplyAcceptedArtifact
  <2> QED
    BY <1>0, <1>2, <2>1, RepairedFailure
<1>3. ASSUME ~ ApplyToSnapshot, UNCHANGED <<tasks, applied, contents, cursor>>, answers \subseteq answers'
      PROVE  /\ NotReportedAgain'
             /\ \A i \in DOMAIN tasks' :
                   tasks'[i].index = cursor' + 1 /\ Repaired(i)' => Validated(Effective[cursor + 1])'
  <2>1. NotReportedAgain'
    BY <1>3 DEF RepairedInv, NotReportedAgain
  <2>2. ASSUME NEW i \in DOMAIN tasks', tasks'[i].index = cursor' + 1, Repaired(i)'
        PROVE  Validated(Effective[cursor + 1])'
    <3>1. Repaired(i) /\ i \in DOMAIN tasks /\ tasks[i].index = cursor + 1
      BY <1>3, <2>2 DEF Repaired
    <3>2. Validated(Effective[cursor + 1]) /\ Effective'[cursor' + 1] = Effective[cursor + 1]
      BY <1>0, <1>3, <3>1 DEF RepairedInv
    <3> QED
      BY <1>3, <3>2 DEF Validated
  <2> QED
    BY <2>1, <2>2
<1>4. CASE Localize /\ ~ LocalizeFailure
  <2>0. ~ ApplyToSnapshot
    BY <1>4 DEF Localize, ApplyToSnapshot, ApplyAcceptedArtifact, NothingToDo, BootstrapAnchor,
       BootstrapFails, NoDrift, Drift, ReplayCommand, Rebuilt, WalkOn, TheoryEnds,
       Called, RunInv, LocalizerInv
  <2>1. UNCHANGED <<applied, tasks>> /\ answers \subseteq answers' /\ ~ Working'
    BY <1>4, LocalizerSteps
  <2>2. CASE UNCHANGED <<contents, cursor>>
    BY <1>3, <2>0, <2>1, <2>2 DEF RepairedInv
  <2>3. CASE ~ anchored
    <3>1. tasks' = <<>>
      BY <2>1, <2>3 DEF RunInv, PlacesInv
    <3>2. DOMAIN tasks' = {}
      BY <3>1
    <3> QED
      BY <2>1, <3>2 DEF RepairedInv, NotReportedAgain
  <2>4. CASE WalkOn
    <3>1. cursor' = cursor + 1
      BY <2>4 DEF WalkOn, SetAnchor
    <3>2. \A i \in DOMAIN tasks : tasks[i].index <= cursor + 1 /\ tasks[i].index \in Nat
      <4>1. tasks \in Seq(TaskType) /\ DOMAIN theory = 1 .. Len(theory)
        BY HeaderTyped DEF RunInv, RepairTypeOK, TaskType
      <4>2. \A i \in DOMAIN tasks : tasks[i] \in TaskType
        BY <4>1, ElementOfSeq
      <4>3. \A i \in DOMAIN tasks : tasks[i].index \in Nat
        BY <4>1, <4>2 DEF TaskType
      <4> QED
        BY <4>3 DEF RunInv, PlacesInv
    <3>3. \A i \in DOMAIN tasks' : tasks'[i].index # cursor' + 1
      BY <1>0, <2>1, <3>1, <3>2
    <3>4. NotReportedAgain'
      BY <2>1 DEF RepairedInv, NotReportedAgain
    <3> QED
      BY <2>1, <3>3, <3>4 DEF RepairedInv
  <2> QED
    BY <2>2, <2>3, <2>4, AnchorStep
<1>5. CASE ~ Localize /\ ~ ApplyToSnapshot
  <2>1. /\ UNCHANGED <<contents, cursor, tasks>> /\ (Working' => Working) /\ ~ NextTask
    BY <1>5, Outside
  <2>2. /\ UNCHANGED <<applied, appliedIds>> /\ answers \subseteq answers'
        /\ Working' /\ pc' # "engine" /\ res'.text \in {"candidate", "replacement"} =>
              \/ pc # "engine" /\ res'.text = res.text
              \/ [at |-> contents, text |-> Tactic(res'.text), ok |-> TRUE] \in answers'
    BY <1>5, ArtifactSteps DEF RunInv
  <2>3. Task' = Task
    BY <2>1, RepairStepIsStep, RecordsGrow DEF RunInv
  <2>4. Working' /\ pc' # "engine" /\ res'.text \in {"candidate", "replacement"} =>
           Validated(Tactic(res.text))'
    <3> SUFFICES ASSUME Working', pc' # "engine", res'.text \in {"candidate", "replacement"}
                 PROVE  Validated(Tactic(res.text))'
      OBVIOUS
    <3>1. CASE pc # "engine" /\ res'.text = res.text
      <4>1. Validated(Tactic(res.text))
        BY <2>1, <3>1 DEF RepairedInv
      <4> QED
        BY <2>1, <2>2, <3>1, <4>1 DEF Validated, Tactic
    <3>2. CASE [at |-> contents, text |-> Tactic(res'.text), ok |-> TRUE] \in answers'
      BY <2>1, <3>2 DEF Validated, Tactic
    <3> QED
      BY <2>2, <3>1, <3>2
  <2>5. Working' /\ ~ Settled' => Last(tasks').text = Effective'[cursor' + 1]
    BY <1>0, <1>5, <2>1, <2>2, <2>3 DEF RepairedInv, Settled
  <2> QED
    BY <1>3, <1>5, <2>1, <2>2, <2>4, <2>5 DEF RepairedInv
<1> QED
  BY <1>1, <1>2, <1>4, <1>5

\* A command whose repair was integrated is localized again only if executing it
\* timed out: for every theory with one command to a line, the rule-based gate and
\* an engine that offers what it validated or, escalating, the block itself.
THEOREM RepairedStaysRepaired ==
    ASSUME LinesApart, RuleGated, BlockEscalated, EngineTexts
    PROVE  RepairSpec => []NotReportedAgain
<1>1. RepairInit => AnchorInv /\ RiskInv /\ RepairedInv
  <2> SUFFICES ASSUME RepairInit PROVE AnchorInv /\ RiskInv /\ RepairedInv
    OBVIOUS
  <2>1. AnchorInv /\ RiskInv
    BY DEF RepairInit, Init, AnchorInv, RiskInv, RiskReviewed, OfPlaceholder
  <2>2. DOMAIN tasks = {} /\ ~ Working
    BY DEF RepairInit, Init, Working
  <2> QED
    BY <2>1, <2>2 DEF RepairedInv, NotReportedAgain
<1>2. RunInv /\ AnchorInv /\ [RepairNext]_allVars => AnchorInv'
  BY AnchorKeeps
<1>3. RunInv /\ RiskInv /\ [RepairNext]_allVars => RiskInv'
  BY RepairStepIsStep, RiskKeeps DEF RunInv
<1>4. RunInv /\ AnchorInv /\ RiskInv /\ RepairedInv /\ [RepairNext]_allVars => RepairedInv'
  BY RepairedKeeps
<1>5. RepairedInv => NotReportedAgain
  BY DEF RepairedInv
<1> QED
  BY <1>1, <1>2, <1>3, <1>4, <1>5, RepairInductive, PTL DEF RepairSpec

-----------------------------------------------------------------------------
(* The exported file was run as it stands                                  *)

\* A text of the file is noted for its own command only, and nothing for a command
\* up to the header.
OfFile(text, i) == text.by = "file" => text = Original(i)
FileInv ==
    /\ \A k \in DOMAIN tasks :
          tasks[k].index > HeaderIndex /\ OfFile(tasks[k].text, tasks[k].index)
    /\ \A k \in DOMAIN replacements :
          \E i \in HeaderIndex + 1 .. Len(theory) :
             replacements[k].line = theory[i].line /\ OfFile(replacements[k].text, i)

\* Commands that stand apart begin on lines of their own.
LEMMA ApartBegin ==
    ASSUME OnOneLine
    PROVE  LinesApart
<1> SUFFICES ASSUME NEW t \in Theories, NEW i \in DOMAIN t, NEW j \in DOMAIN t, i < j
             PROVE  t[i].line < t[j].line
  BY DEF LinesApart
<1>1. t \in Seq(Command)
  BY RepairAssumption
<1>2. t[i] \in Command /\ t[j] \in Command
  BY <1>1, ElementOfSeq
<1>3. t[i].line \in Nat /\ t[i].last \in Nat /\ t[j].line \in Nat
  BY <1>2 DEF Command
<1>4. t[i].line <= t[i].last /\ t[i].last < t[j].line
  BY DEF OnOneLine
<1> QED
  BY <1>3, <1>4

\* The lines of the commands of the theory.
LEMMA Layout ==
    ASSUME OnOneLine, theory \in Theories
    PROVE  /\ theory \in Seq(Command) /\ Len(theory) \in Nat /\ DOMAIN theory = 1 .. Len(theory)
           /\ \A i \in 1 .. Len(theory) :
                 /\ theory[i].line \in Nat \ {0} /\ theory[i].last \in Nat
                 /\ theory[i].line <= theory[i].last
           /\ \A i, j \in 1 .. Len(theory) : i < j => theory[i].last < theory[j].line
           /\ \A i \in 1 .. Len(theory) :
                 HeaderIndex # 0 /\ HeaderIndex < i => theory[i].last = theory[i].line
<1>1. theory \in Seq(Command) /\ Len(theory) \in Nat /\ DOMAIN theory = 1 .. Len(theory)
  BY RepairAssumption
<1>2. \A i \in 1 .. Len(theory) : theory[i] \in Command
  BY <1>1, ElementOfSeq
<1>3. \A i \in 1 .. Len(theory) : theory[i].line \in Nat \ {0} /\ theory[i].last \in Nat
  BY <1>2 DEF Command
<1>4. /\ \A i \in 1 .. Len(theory) : theory[i].line <= theory[i].last
      /\ \A i, j \in 1 .. Len(theory) : i < j => theory[i].last < theory[j].line
      /\ \A h, i \in 1 .. Len(theory) :
            theory[h].kind = "theory" /\ h < i => theory[i].last = theory[i].line
  BY <1>1 DEF OnOneLine
<1>5. HeaderIndex # 0 => HeaderIndex \in 1 .. Len(theory) /\ theory[HeaderIndex].kind = "theory"
  <2>1. CASE Headers = {}
    BY <2>1 DEF HeaderIndex
  <2>2. CASE Headers # {}
    <3>1. Headers \subseteq Nat
      BY <1>1 DEF Headers
    <3>2. Min(Headers) \in Headers
      BY <2>2, <3>1, LeastNatural
    <3> QED
      BY <1>1, <2>2, <3>2 DEF HeaderIndex, Headers
  <2> QED
    BY <2>1, <2>2
<1> QED
  BY <1>1, <1>3, <1>4, <1>5

\* The text in effect for a command is its own or not of the file, and up to the
\* header it is its own.
LEMMA EffectiveOfFile ==
    ASSUME LinesApart, RepairTypeOK, FileInv, NEW i \in 1 .. Len(theory)
    PROVE  /\ OfFile(EffectiveText(i), i)
           /\ i <= HeaderIndex => ReplacementsAt(theory[i].line) = {}
           /\ ReplacementsAt(theory[i].line) = {} => EffectiveText(i) = Original(i)
<1>0. /\ theory \in Theories /\ theory \in Seq(Command) /\ Len(theory) \in Nat
      /\ DOMAIN theory = 1 .. Len(theory) /\ HeaderIndex \in 0 .. Len(theory)
  BY HeaderTyped DEF RepairTypeOK
<1>1. \A j \in 1 .. Len(theory) : theory[j].line \in Nat
  <2>1. \A j \in 1 .. Len(theory) : theory[j] \in Command
    BY <1>0, ElementOfSeq
  <2> QED
    BY <2>1 DEF Command
<1>2. ASSUME NEW j \in 1 .. Len(theory), theory[j].line = theory[i].line
      PROVE  i = j
  <2>1. /\ i < j => theory[i].line < theory[j].line
        /\ j < i => theory[j].line < theory[i].line
    BY <1>0 DEF LinesApart
  <2> QED
    BY <1>0, <1>1, <1>2, <2>1
<1>3. ASSUME NEW k \in ReplacementsAt(theory[i].line)
      PROVE  HeaderIndex < i /\ OfFile(replacements[k].text, i)
  <2>1. k \in DOMAIN replacements /\ replacements[k].line = theory[i].line
    BY DEF ReplacementsAt
  <2>2. PICK j \in HeaderIndex + 1 .. Len(theory) :
           replacements[k].line = theory[j].line /\ OfFile(replacements[k].text, j)
    BY <2>1 DEF FileInv
  <2>3. j \in 1 .. Len(theory) /\ HeaderIndex < j
    BY <1>0, <2>2
  <2> QED
    BY <1>2, <2>1, <2>2, <2>3
<1>4. CASE ReplacementsAt(theory[i].line) = {}
  BY <1>4 DEF EffectiveText, OfFile
<1>5. CASE ReplacementsAt(theory[i].line) # {}
  <2>1. Max(ReplacementsAt(theory[i].line)) \in ReplacementsAt(theory[i].line)
    BY <1>5, LatestReplacement DEF RepairTypeOK
  <2>2. OfFile(ReplacementForLine(theory[i].line), i) /\ HeaderIndex < i
    BY <1>3, <2>1 DEF ReplacementForLine
  <2> QED
    BY <1>0, <1>5, <2>2 DEF EffectiveText
<1> QED
  BY <1>4, <1>5

\* Every step keeps the texts of the file with their commands.
LEMMA FileKeeps ==
    ASSUME LinesApart, RunInv, FileInv, [RepairNext]_allVars
    PROVE  FileInv'
<1>0. /\ theory' = theory /\ HeaderIndex' = HeaderIndex /\ Len(theory) \in Nat
      /\ HeaderIndex \in Nat /\ cursor \in 0 .. Len(theory)
  BY Located
<1>1. IInv /\ PlacesInv /\ RepairTypeOK /\ LocalizerInv
  BY DEF RunInv
<1>2. CASE UNCHANGED <<tasks, replacements>>
  BY <1>0, <1>2 DEF FileInv, OfFile, Original
<1>3. CASE LocalizeFailure
  <2>1. PICK timeout \in BOOLEAN :
            tasks' = Append(tasks, [index |-> cursor + 1, text |-> EffectiveText(cursor + 1),
                                    timeout |-> timeout, drift |-> digest.drift])
    BY <1>3 DEF LocalizeFailure
  <2> DEFINE new == [index |-> cursor + 1, text |-> EffectiveText(cursor + 1),
                     timeout |-> timeout, drift |-> digest.drift]
  <2>2. replacements' = replacements /\ anchored /\ cursor < Len(theory)
    BY <1>1, <1>3 DEF LocalizeFailure, LocalizerInv
  <2>3. HeaderIndex <= cursor
    BY <1>1, <2>2 DEF PlacesInv
  <2>4. cursor + 1 \in 1 .. Len(theory) /\ cursor + 1 > HeaderIndex
    BY <1>0, <2>2, <2>3
  <2>5. new.index > HeaderIndex /\ OfFile(new.text, new.index)
    BY <1>1, <2>4, EffectiveOfFile
  <2>6. new \in TaskType /\ tasks \in Seq(TaskType)
    <3>1. DOMAIN theory = 1 .. Len(theory)
      BY <1>1, HeaderTyped DEF RepairTypeOK
    <3> QED
      BY <1>1, <2>4, <3>1, EffectiveTyped DEF RepairTypeOK, TaskType
  <2> HIDE DEF new
  <2>7. /\ Len(tasks) \in Nat /\ DOMAIN tasks = 1 .. Len(tasks)
        /\ DOMAIN tasks' = 1 .. Len(tasks) + 1 /\ tasks'[Len(tasks) + 1] = new
        /\ \A k \in 1 .. Len(tasks) : tasks'[k] = tasks[k]
    BY <2>1, <2>6, Pushed DEF new
  <2>8. ASSUME NEW k \in DOMAIN tasks'
        PROVE  tasks'[k].index > HeaderIndex /\ OfFile(tasks'[k].text, tasks'[k].index)
    <3>1. k = Len(tasks) + 1 \/ k \in DOMAIN tasks
      BY <2>7
    <3> QED
      BY <2>5, <2>7, <3>1 DEF FileInv
  <2>9. ASSUME NEW k \in DOMAIN replacements
        PROVE  \E i \in HeaderIndex + 1 .. Len(theory) :
                  replacements[k].line = theory[i].line /\ OfFile(replacements[k].text, i)
    BY DEF FileInv
  <2> QED
    BY <1>0, <2>2, <2>8, <2>9 DEF FileInv, OfFile, Original
<1>4. CASE ApplyToSnapshot
  <2>1. /\ replacements' = Append(replacements, Entry) /\ Entry \in EntryType
        /\ Last(tasks) = tasks[Task] /\ Task \in 1 .. Task /\ Task = Len(tasks)
        /\ Last(tasks).index = cursor + 1 /\ cursor + 1 \in 1 .. Len(theory) /\ res.text # "none"
    BY <1>1, <1>4, Noted
  <2>2. tasks' = tasks
    BY <1>4 DEF ApplyToSnapshot
  <2>3. tasks \in Seq(TaskType) /\ replacements \in Seq(EntryType)
    BY <1>1 DEF RepairTypeOK, TaskType, EntryType
  <2>4. Task \in DOMAIN tasks
    BY <2>1, <2>3
  <2>5. cursor + 1 > HeaderIndex /\ OfFile(Last(tasks).text, cursor + 1)
    BY <2>1, <2>4 DEF FileInv
  <2>6. OfFile(Entry.text, cursor + 1)
    <3>1. CASE res.text = "block"
      BY <2>5, <3>1 DEF Entry
    <3>2. CASE res.text # "block"
      <4>1. res.text \in {"candidate", "replacement"}
        BY <1>1, <2>1, <3>2 DEF IInv, TypeOK, TaskResult
      <4> QED
        BY <3>2, <4>1 DEF Entry, Tactic, OfFile
    <3> QED
      BY <3>1, <3>2
  <2>7. Entry.line = theory[cursor + 1].line /\ cursor + 1 \in HeaderIndex + 1 .. Len(theory)
    BY <1>0, <2>1, <2>5 DEF Entry
  <2>8. PICK e \in EntryType : e = Entry
    BY <2>1
  <2>9. /\ Len(replacements) \in Nat /\ DOMAIN replacements = 1 .. Len(replacements)
        /\ DOMAIN replacements' = 1 .. Len(replacements) + 1
        /\ replacements'[Len(replacements) + 1] = e
        /\ \A k \in 1 .. Len(replacements) : replacements'[k] = replacements[k]
    BY <2>1, <2>3, <2>8, Pushed
  <2>10. ASSUME NEW k \in DOMAIN replacements'
         PROVE  \E i \in HeaderIndex + 1 .. Len(theory) :
                   replacements'[k].line = theory[i].line /\ OfFile(replacements'[k].text, i)
    <3>1. CASE k = Len(replacements) + 1
      BY <2>6, <2>7, <2>8, <2>9, <3>1
    <3>2. CASE k # Len(replacements) + 1
      <4>1. k \in DOMAIN replacements /\ replacements'[k] = replacements[k]
        BY <2>9, <3>2
      <4> QED
        BY <4>1 DEF FileInv
    <3> QED
      BY <3>1, <3>2
  <2> QED
    BY <1>0, <2>2, <2>10 DEF FileInv, OfFile, Original
<1> QED
  <2>1. CASE Localize /\ ~ LocalizeFailure
    <3>1. tasks' = tasks
      BY <2>1, LocalizerSteps
    <3>2. replacements' = replacements
      BY <2>1 DEF Localize, NothingToDo, BootstrapAnchor, BootstrapFails, NoDrift, Drift, ReplayCommand,
         Rebuilt, WalkOn, TheoryEnds, ReturnNone
    <3> QED
      BY <1>2, <3>1, <3>2
  <2>2. CASE ~ Localize
    BY <1>2, <1>4, <2>2, Outside
  <2> QED
    BY <1>3, <2>1, <2>2

\* What stands on a line, and the last line of the first n commands.
PieceType == [text : Text, part : Nat]
EndOf(n) == IF n = 0 THEN 0 ELSE theory[n].last
On(line) == {i \in DOMAIN theory : theory[i].line <= line /\ line <= theory[i].last}

\* A line holds at most one command.
LEMMA OneOnLine ==
    ASSUME OnOneLine, theory \in Theories, NEW m \in Nat, NEW j \in On(m)
    PROVE  On(m) = {j} /\ j \in 1 .. Len(theory) /\ theory[j].line <= m /\ m <= theory[j].last
<1>1. /\ Len(theory) \in Nat /\ DOMAIN theory = 1 .. Len(theory)
      /\ \A i \in 1 .. Len(theory) : theory[i].line \in Nat /\ theory[i].last \in Nat
      /\ \A h, i \in 1 .. Len(theory) : h < i => theory[h].last < theory[i].line
  BY Layout
<1>2. ASSUME NEW i \in On(m)
      PROVE  i \in 1 .. Len(theory) /\ theory[i].line <= m /\ m <= theory[i].last
  BY <1>1 DEF On
<1>3. ASSUME NEW i \in On(m)
      PROVE  i = j
  <2>1. ~ (i < j) /\ ~ (j < i)
    BY <1>1, <1>2
  <2> QED
    BY <1>1, <1>2, <2>1
<1> QED
  BY <1>2, <1>3

\* What is listed of one command.
LEMMA AscendingOne ==
    ASSUME NEW j \in Nat
    PROVE  Ascending({j}) = <<j>>
<1>1. Lists(<<j>>, {j})
  BY DEF Lists
<1>2. {j} \subseteq Nat
  OBVIOUS
<1> QED
  BY <1>1, <1>2, AscendingUnique

\* Only lines of one command after the header are replaced, and with the text in
\* effect for it.
LEMMA ReplacedLine ==
    ASSUME OnOneLine, RepairTypeOK, FileInv, HeaderIndex # 0, NEW m \in Nat,
           ReplacementsAt(m) # {}
    PROVE  \E i \in 1 .. Len(theory) :
              /\ HeaderIndex < i /\ theory[i].line = m /\ theory[i].last = m
              /\ EffectiveText(i) = ReplacementForLine(m) /\ On(m) = {i}
<1>0. /\ theory \in Theories /\ Len(theory) \in Nat /\ HeaderIndex \in Nat
      /\ DOMAIN theory = 1 .. Len(theory)
  BY HeaderTyped DEF RepairTypeOK
<1>1. PICK k \in DOMAIN replacements : replacements[k].line = m
  BY DEF ReplacementsAt
<1>2. PICK i \in HeaderIndex + 1 .. Len(theory) : replacements[k].line = theory[i].line
  BY DEF FileInv
<1>3. i \in 1 .. Len(theory) /\ HeaderIndex < i
  BY <1>0
<1>4. theory[i].line = m /\ theory[i].last = m
  BY <1>0, <1>1, <1>2, <1>3, Layout
<1>5. EffectiveText(i) = ReplacementForLine(m)
  BY <1>4 DEF EffectiveText
<1>6. i \in On(m)
  BY <1>0, <1>3, <1>4 DEF On
<1> QED
  BY <1>0, <1>3, <1>4, <1>5, <1>6, OneOnLine

\* A line without a command is empty.
LEMMA RenderGap ==
    ASSUME OnOneLine, RepairTypeOK, FileInv, HeaderIndex # 0, NEW m \in Nat, On(m) = {}
    PROVE  RenderLine(m) = <<>>
<1>1. ReplacementsAt(m) = {}
  BY ReplacedLine
<1>2. Ascending(On(m)) = <<>>
  BY AscendingEmpty
<1>3. RenderLine(m) = [k \in DOMAIN Ascending(On(m)) |->
                         Piece(Original(Ascending(On(m))[k]), m - theory[Ascending(On(m))[k]].line)]
  BY <1>1 DEF RenderLine, On
<1> QED
  BY <1>2, <1>3

\* The lines of a text that is complete are as many as its command has.
LEMMA PiecesTyped ==
    ASSUME OnOneLine, RepairTypeOK, FileInv, HeaderIndex # 0, NEW j \in 1 .. Len(theory)
    PROVE  /\ Pieces(EffectiveText(j)) \in Seq(PieceType)
           /\ Len(Pieces(EffectiveText(j))) = theory[j].last - theory[j].line + 1
           /\ \A i \in 1 .. theory[j].last - theory[j].line + 1 :
                 Pieces(EffectiveText(j))[i] = Piece(EffectiveText(j), i - 1)
<1>0. /\ theory \in Theories /\ Len(theory) \in Nat /\ HeaderIndex \in Nat
  BY HeaderTyped DEF RepairTypeOK
<1>1. /\ theory[j].line \in Nat /\ theory[j].last \in Nat /\ theory[j].line <= theory[j].last
      /\ HeaderIndex < j => theory[j].last = theory[j].line
  BY <1>0, Layout
<1>2. PICK text \in Text : text = EffectiveText(j)
  BY EffectiveTyped
<1>3. PICK n \in Nat : n = theory[j].last - theory[j].line + 1
  BY <1>1
<1>4. \A i \in 1 .. n : Piece(text, i - 1) \in PieceType
  BY DEF Piece, PieceType
<1>5. Pieces(text) = [i \in 1 .. n |-> Piece(text, i - 1)]
  <2>1. CASE text.by # "file"
    <3>1. HeaderIndex < j
      <4>1. ASSUME j <= HeaderIndex PROVE FALSE
        <5>1. EffectiveText(j) = Original(j)
          BY <4>1, ApartBegin, EffectiveOfFile
        <5>2. Original(j).by = "file"
          BY DEF Original
        <5> QED
          BY <1>2, <2>1, <5>1, <5>2
      <4> QED
        BY <1>0, <4>1
    <3>2. n = 1
      BY <1>1, <1>3, <3>1
    <3>3. Pieces(text) = <<Piece(text, 0)>>
      BY <2>1 DEF Pieces
    <3>4. <<Piece(text, 0)>> = [i \in 1 .. 1 |-> Piece(text, i - 1)]
      OBVIOUS
    <3> QED
      BY <3>2, <3>3, <3>4
  <2>2. CASE text.by = "file"
    <3>1. text = Original(j)
      BY <1>2, <2>2, ApartBegin, EffectiveOfFile DEF OfFile
    <3>2. text.cmd = j
      BY <3>1 DEF Original
    <3> QED
      BY <1>3, <2>2, <3>2 DEF Pieces
  <2> QED
    BY <2>1, <2>2
<1>6. Pieces(text) \in Seq(PieceType) /\ Len(Pieces(text)) = n
  BY <1>4, <1>5
<1> QED
  BY <1>2, <1>3, <1>5, <1>6

\* A line of a command shows its part of the text in effect.
LEMMA RenderCommand ==
    ASSUME OnOneLine, RepairTypeOK, FileInv, HeaderIndex # 0, NEW m \in Nat, NEW j \in On(m)
    PROVE  RenderLine(m) = <<Piece(EffectiveText(j), m - theory[j].line)>>
<1>0. theory \in Theories /\ Len(theory) \in Nat /\ HeaderIndex \in Nat
  BY HeaderTyped DEF RepairTypeOK
<1>1. On(m) = {j} /\ j \in 1 .. Len(theory) /\ theory[j].line <= m /\ m <= theory[j].last
  BY <1>0, OneOnLine
<1>2. theory[j].line \in Nat \ {0} /\ theory[j].last \in Nat
  BY <1>0, <1>1, Layout
<1>3. CASE ReplacementsAt(m) # {}
  <2>1. PICK i \in 1 .. Len(theory) : /\ theory[i].line = m /\ On(m) = {i}
                                      /\ EffectiveText(i) = ReplacementForLine(m)
    BY <1>3, ReplacedLine
  <2>2. i = j
    BY <1>1, <2>1
  <2>3. m - theory[j].line = 0
    BY <2>1, <2>2
  <2>4. RenderLine(m) = <<Piece(ReplacementForLine(m), 0)>>
    BY <1>3 DEF RenderLine
  <2> QED
    BY <2>1, <2>2, <2>3, <2>4
<1>4. CASE ReplacementsAt(m) = {}
  <2>1. ReplacementsAt(theory[j].line) = {}
    <3>1. SUFFICES ASSUME ReplacementsAt(theory[j].line) # {} PROVE FALSE
      OBVIOUS
    <3>2. PICK l \in Nat : l = theory[j].line
      BY <1>2
    <3>3. PICK i \in 1 .. Len(theory) : theory[i].last = l /\ On(l) = {i}
      BY <3>1, <3>2, ReplacedLine
    <3>4. j \in On(l)
      BY <1>0, <1>1, <1>2, <3>2, Layout DEF On
    <3>5. i = j /\ m = l
      BY <1>1, <1>2, <3>2, <3>3, <3>4
    <3> QED
      BY <1>4, <3>1, <3>2, <3>5
  <2>2. EffectiveText(j) = Original(j)
    BY <1>1, <2>1, ApartBegin, EffectiveOfFile
  <2>3. Ascending(On(m)) = <<j>>
    BY <1>1, AscendingOne
  <2>4. RenderLine(m) = [k \in DOMAIN Ascending(On(m)) |->
                           Piece(Original(Ascending(On(m))[k]), m - theory[Ascending(On(m))[k]].line)]
    BY <1>4 DEF RenderLine, On
  <2>5. PICK x : x = Piece(Original(j), m - theory[j].line)
    OBVIOUS
  <2>6. RenderLine(m) = [k \in 1 .. 1 |-> x]
    BY <2>3, <2>4, <2>5
  <2>7. RenderLine(m) = <<x>>
    BY <2>6
  <2> QED
    BY <2>2, <2>5, <2>7
<1> QED
  BY <1>3, <1>4

\* The lines of the patched file, and of the texts that were executed.
RenderedLines ==
    [line \in 1 .. (IF theory = <<>> THEN 0 ELSE Last(theory).last) |-> RenderLine(line)]
ExecutedLines == [k \in DOMAIN contents |-> Pieces(contents[k])]

\* The file has a line for every line of a command.
LEMMA RenderedTyped ==
    ASSUME OnOneLine, RepairTypeOK, FileInv, HeaderIndex # 0
    PROVE  /\ RenderedLines \in Seq(Seq(PieceType)) /\ Len(RenderedLines) \in Nat
           /\ Len(RenderedLines) = EndOf(Len(theory))
           /\ \A m \in 1 .. Len(RenderedLines) : RenderedLines[m] = RenderLine(m)
           /\ \A n \in 0 .. Len(theory) : EndOf(n) \in 0 .. Len(RenderedLines)
<1>0. /\ theory \in Theories /\ theory \in Seq(Command) /\ Len(theory) \in Nat
      /\ DOMAIN theory = 1 .. Len(theory)
  BY HeaderTyped DEF RepairTypeOK
<1>1. /\ \A i \in 1 .. Len(theory) : /\ theory[i].line \in Nat \ {0} /\ theory[i].last \in Nat
                                     /\ theory[i].line <= theory[i].last
      /\ \A i, j \in 1 .. Len(theory) : i < j => theory[i].last < theory[j].line
  BY <1>0, Layout
<1>2. \A n \in 0 .. Len(theory) : EndOf(n) \in Nat
  BY <1>0, <1>1 DEF EndOf
<1>3. (IF theory = <<>> THEN 0 ELSE Last(theory).last) = EndOf(Len(theory))
  <2>1. theory = <<>> <=> Len(theory) = 0
    BY <1>0
  <2> QED
    BY <2>1 DEF EndOf, Last
<1>4. PICK e \in Nat : e = EndOf(Len(theory))
  BY <1>0, <1>2
<1>5. ASSUME NEW m \in 1 .. e
      PROVE  RenderLine(m) \in Seq(PieceType)
  <2>0. m \in Nat
    OBVIOUS
  <2>1. CASE On(m) = {}
    <3>1. RenderLine(m) = <<>>
      BY <2>0, <2>1, RenderGap
    <3> QED
      BY <3>1
  <2>2. CASE On(m) # {}
    <3>1. PICK j \in On(m) : TRUE
      BY <2>2
    <3>2. RenderLine(m) = <<Piece(EffectiveText(j), m - theory[j].line)>>
      BY <2>0, RenderCommand
    <3>3. j \in 1 .. Len(theory) /\ theory[j].line <= m
      BY <1>0, <2>0, OneOnLine
    <3>4. m - theory[j].line \in Nat /\ EffectiveText(j) \in Text
      BY <1>1, <2>0, <3>3, EffectiveTyped
    <3>5. Piece(EffectiveText(j), m - theory[j].line) \in PieceType
      BY <3>4 DEF Piece, PieceType
    <3> QED
      BY <3>2, <3>5
  <2> QED
    BY <2>1, <2>2
<1>6. RenderedLines = [m \in 1 .. e |-> RenderLine(m)]
  BY <1>3, <1>4 DEF RenderedLines
<1>7. ASSUME NEW n \in 0 .. Len(theory)
      PROVE  EndOf(n) <= e
  <2>1. CASE n = Len(theory)
    BY <1>4, <2>1
  <2>2. CASE n = 0
    BY <1>4, <2>2 DEF EndOf
  <2>3. CASE n # 0 /\ n # Len(theory)
    <3>1. n \in 1 .. Len(theory) /\ Len(theory) \in 1 .. Len(theory) /\ n < Len(theory)
      <4>1. PICK l \in Nat : l = Len(theory)
        BY <1>0
      <4>2. n \in 0 .. l /\ n # 0 /\ n # l
        BY <2>3, <4>1
      <4>3. n \in 1 .. l /\ l \in 1 .. l /\ n < l
        BY <4>2
      <4> QED
        BY <4>1, <4>3
    <3>2. EndOf(n) = theory[n].last /\ e = theory[Len(theory)].last
      <4>1. n # 0 /\ Len(theory) # 0
        BY <3>1
      <4> QED
        BY <1>4, <4>1 DEF EndOf
    <3>3. theory[n].last < theory[Len(theory)].line
      BY <1>1, <3>1
    <3>4. theory[Len(theory)].line <= theory[Len(theory)].last
      BY <1>1, <3>1
    <3>5. PICK x \in Nat, y \in Nat :
             x = theory[n].last /\ y = theory[Len(theory)].line /\ x < y /\ y <= e
      BY <1>1, <3>1, <3>2, <3>3, <3>4
    <3> QED
      BY <3>2, <3>5
  <2> QED
    BY <2>1, <2>2, <2>3
<1>8. /\ RenderedLines \in Seq(Seq(PieceType)) /\ Len(RenderedLines) = e
      /\ \A m \in 1 .. e : RenderedLines[m] = RenderLine(m)
  BY <1>5, <1>6
<1>9. \A n \in 0 .. Len(theory) : EndOf(n) \in 0 .. e
  BY <1>2, <1>7
<1> QED
  BY <1>4, <1>8, <1>9

\* The number of lines from b + 1 to c, ...
LEMMA Span ==
    ASSUME NEW b \in Nat, NEW c \in Nat, b < c, NEW l, l = c - (b + 1) + 1
    PROVE  l \in Nat /\ b + l = c
OBVIOUS

\* ... and one of them.
LEMMA Within ==
    ASSUME NEW b \in Nat, NEW c \in Nat, NEW l \in Nat, b + l = c, NEW r \in Nat, c <= r,
           NEW i \in Nat, 1 <= i, i <= l
    PROVE  /\ b + i \in Nat /\ b + 1 <= b + i /\ b + i <= c /\ (b + i) - (b + 1) = i - 1
           /\ b + i \in 1 .. r
OBVIOUS

\* The lines up to the end of the next command are those up to the end of this one,
\* and then the text in effect for it.
LEMMA RenderNext ==
    ASSUME OnOneLine, RepairTypeOK, FileInv, HeaderIndex # 0, NEW n \in 0 .. Len(theory) - 1
    PROVE  Flattened(RenderedLines, EndOf(n + 1)) =
              Flattened(RenderedLines, EndOf(n)) \o Pieces(EffectiveText(n + 1))
<1>0. /\ theory \in Theories /\ Len(theory) \in Nat /\ DOMAIN theory = 1 .. Len(theory)
      /\ n + 1 \in 1 .. Len(theory) /\ n \in 0 .. Len(theory) /\ n + 1 \in 0 .. Len(theory)
      /\ n \in Nat
  BY HeaderTyped DEF RepairTypeOK
<1>1. /\ \A i \in 1 .. Len(theory) : /\ theory[i].line \in Nat \ {0} /\ theory[i].last \in Nat
                                     /\ theory[i].line <= theory[i].last
      /\ \A i, j \in 1 .. Len(theory) : i < j => theory[i].last < theory[j].line
  BY <1>0, Layout
<1>2. /\ RenderedLines \in Seq(Seq(PieceType)) /\ Len(RenderedLines) \in Nat
      /\ \A m \in 1 .. Len(RenderedLines) : RenderedLines[m] = RenderLine(m)
      /\ EndOf(n) \in 0 .. Len(RenderedLines) /\ EndOf(n + 1) \in 0 .. Len(RenderedLines)
  BY <1>0, RenderedTyped
<1>3. PICK a \in Nat, b \in Nat, c \in Nat :
         a = EndOf(n) /\ theory[n + 1].line = b + 1 /\ c = EndOf(n + 1)
  <2>1. PICK l \in Nat \ {0} : l = theory[n + 1].line
    BY <1>0, <1>1
  <2>2. l - 1 \in Nat /\ l = (l - 1) + 1
    OBVIOUS
  <2>3. EndOf(n) \in Nat /\ EndOf(n + 1) \in Nat
    BY <1>2
  <2> QED
    BY <2>1, <2>2, <2>3
<1>4. c = theory[n + 1].last /\ b < c
  <2>1. n + 1 # 0
    BY <1>0
  <2>2. c = theory[n + 1].last
    BY <1>3, <2>1 DEF EndOf
  <2>3. b + 1 <= c
    BY <1>0, <1>1, <1>3, <2>2
  <2> QED
    BY <2>2, <2>3
<1>5. a <= b
  <2>1. CASE n = 0
    <3>1. a = 0
      BY <1>3, <2>1 DEF EndOf
    <3> QED
      BY <3>1
  <2>2. CASE n # 0
    <3>1. n \in 1 .. Len(theory) /\ n < n + 1
      BY <1>0, <2>2
    <3>2. a = theory[n].last
      BY <1>3, <2>2 DEF EndOf
    <3>3. theory[n].last < theory[n + 1].line
      BY <1>0, <1>1, <3>1
    <3> QED
      BY <1>0, <1>1, <1>3, <3>1, <3>2, <3>3
  <2> QED
    BY <2>1, <2>2
<1>6. ASSUME NEW m \in a + 1 .. b
      PROVE  RenderedLines[m] = <<>>
  <2>1. m \in Nat /\ m \in 1 .. Len(RenderedLines) /\ a < m /\ m < theory[n + 1].line
    <3>1. m \in Nat /\ a < m /\ m <= b /\ c <= Len(RenderedLines)
      BY <1>2, <1>3
    <3>2. PICK r \in Nat : r = Len(RenderedLines)
      BY <1>2
    <3>3. m \in 1 .. r /\ m < b + 1
      BY <1>4, <3>1, <3>2
    <3> QED
      BY <1>3, <3>1, <3>2, <3>3
  <2>2. ASSUME NEW i \in On(m) PROVE FALSE
    <3>1. i \in 1 .. Len(theory) /\ theory[i].line <= m /\ m <= theory[i].last
      BY <1>0 DEF On
    <3>2. CASE i > n + 1
      <4>1. theory[n + 1].last < theory[i].line
        BY <1>0, <1>1, <3>1, <3>2
      <4> QED
        BY <1>0, <1>1, <2>1, <3>1, <4>1
    <3>3. CASE i = n + 1
      BY <1>0, <1>1, <2>1, <3>1, <3>3
    <3>4. CASE i = n
      <4>1. n # 0
        BY <3>1, <3>4
      <4>2. a = theory[n].last
        BY <1>3, <4>1 DEF EndOf
      <4> QED
        BY <1>1, <2>1, <3>1, <3>4, <4>2
    <3>5. CASE i < n
      <4>1. n \in 1 .. Len(theory) /\ n # 0
        BY <1>0, <3>1, <3>5
      <4>2. a = theory[n].last
        BY <1>3, <4>1 DEF EndOf
      <4>3. theory[i].last < theory[n].line /\ theory[n].line <= theory[n].last
        BY <1>1, <3>1, <3>5, <4>1
      <4>4. /\ theory[i].last \in Nat /\ theory[n].line \in Nat /\ theory[n].last \in Nat
            /\ theory[n].last < m /\ m <= theory[i].last
        BY <1>1, <2>1, <3>1, <4>1, <4>2
      <4> QED
        BY <2>1, <4>3, <4>4
    <3> QED
      BY <1>0, <3>1, <3>2, <3>3, <3>4, <3>5
  <2>3. RenderLine(m) = <<>>
    BY <2>1, <2>2, RenderGap
  <2> QED
    BY <1>2, <2>1, <2>3
<1>7. Flattened(RenderedLines, b) = Flattened(RenderedLines, a)
  <2>1. a \in 0 .. Len(RenderedLines) /\ b \in a .. Len(RenderedLines)
    BY <1>2, <1>3, <1>4, <1>5
  <2> QED
    BY <1>2, <1>6, <2>1, FlattenedGap
<1>8. PICK q \in Seq(PieceType) : q = Pieces(EffectiveText(n + 1))
  BY <1>0, PiecesTyped
<1>9. /\ Len(q) \in Nat /\ b + Len(q) = c
      /\ \A i \in 1 .. Len(q) : q[i] = Piece(EffectiveText(n + 1), i - 1)
  <2>1. /\ Len(q) = theory[n + 1].last - theory[n + 1].line + 1
        /\ \A i \in 1 .. Len(q) : q[i] = Piece(EffectiveText(n + 1), i - 1)
    BY <1>0, <1>8, PiecesTyped
  <2>2. Len(q) = c - (b + 1) + 1
    BY <1>3, <1>4, <2>1
  <2>3. Len(q) \in Nat /\ b + Len(q) = c
    BY <1>4, <2>2, Span
  <2> QED
    BY <2>1, <2>3
<1>10. ASSUME NEW i \in 1 .. Len(q)
       PROVE  RenderedLines[b + i] = <<q[i]>>
  <2>1. /\ b + i \in Nat /\ b + i \in 1 .. Len(RenderedLines)
        /\ theory[n + 1].line <= b + i /\ b + i <= theory[n + 1].last
        /\ (b + i) - theory[n + 1].line = i - 1
    <3>1. i \in Nat /\ 1 <= i /\ i <= Len(q) /\ c <= Len(RenderedLines)
      BY <1>2, <1>3, <1>9
    <3>2. theory[n + 1].line = b + 1 /\ theory[n + 1].last = c
      BY <1>3, <1>4
    <3>3. /\ b + i \in Nat /\ b + 1 <= b + i /\ b + i <= c /\ (b + i) - (b + 1) = i - 1
          /\ b + i \in 1 .. Len(RenderedLines)
      <4>1. PICK r \in Nat : r = Len(RenderedLines)
        BY <1>2
      <4>2. PICK l \in Nat : l = Len(q)
        BY <1>9
      <4>3. b \in Nat /\ c \in Nat /\ b + l = c /\ c <= r /\ 1 <= i /\ i <= l /\ i \in Nat
        BY <1>3, <1>4, <1>9, <3>1, <4>1, <4>2
      <4>4. /\ b + i \in Nat /\ b + 1 <= b + i /\ b + i <= c /\ (b + i) - (b + 1) = i - 1
            /\ b + i \in 1 .. r
        BY <4>3, Within
      <4> QED
        BY <4>1, <4>4
    <3> QED
      BY <3>2, <3>3
  <2>2. n + 1 \in On(b + i)
    BY <1>0, <2>1 DEF On
  <2>3. RenderLine(b + i) = <<Piece(EffectiveText(n + 1), (b + i) - theory[n + 1].line)>>
    BY <2>1, <2>2, RenderCommand
  <2> QED
    BY <1>2, <1>9, <2>1, <2>3
<1>11. Flattened(RenderedLines, b + Len(q)) = Flattened(RenderedLines, b) \o q
  <2>1. b \in 0 .. Len(RenderedLines) /\ b + Len(q) <= Len(RenderedLines)
    BY <1>2, <1>3, <1>4, <1>9
  <2> QED
    BY <1>2, <1>8, <1>10, <2>1, FlattenedSingles
<1> QED
  BY <1>3, <1>7, <1>8, <1>9, <1>11

\* The anchor contains the texts in effect, from the first command on.
LEMMA AnchorHasEffective ==
    ASSUME OnOneLine, RunInv, AnchorInv, FileInv, anchored
    PROVE  /\ HeaderIndex # 0 /\ Len(contents) = cursor /\ contents \in Seq(Text)
           /\ cursor \in 0 .. Len(theory)
           /\ \A k \in 1 .. cursor : contents[k] = EffectiveText(k)
<1>0. /\ theory \in Theories /\ Len(theory) \in Nat /\ DOMAIN theory = 1 .. Len(theory)
      /\ HeaderIndex \in 0 .. Len(theory) /\ cursor \in 0 .. Len(theory)
      /\ contents \in Seq(Text) /\ RepairTypeOK
  BY HeaderTyped DEF RunInv, RepairTypeOK
<1>1. HeaderIndex \in 1 .. cursor /\ HeaderIndex \in 1 .. Len(theory)
  <2>1. HeaderIndex \in 1 .. cursor
    BY DEF RunInv, PlacesInv
  <2> QED
    BY <1>0, <2>1
<1>2. \A i \in 1 .. Len(theory) : theory[i].line <= theory[HeaderIndex].line <=> i <= HeaderIndex
  <2> SUFFICES ASSUME NEW i \in 1 .. Len(theory)
               PROVE  theory[i].line <= theory[HeaderIndex].line <=> i <= HeaderIndex
    OBVIOUS
  <2>1. LinesApart
    BY ApartBegin
  <2>2. /\ i < HeaderIndex => theory[i].line < theory[HeaderIndex].line
        /\ HeaderIndex < i => theory[HeaderIndex].line < theory[i].line
    BY <1>0, <1>1, <2>1 DEF LinesApart
  <2>3. theory[i].line \in Nat /\ theory[HeaderIndex].line \in Nat
    BY <1>0, <1>1, Layout
  <2>4. i \in Nat /\ HeaderIndex \in Nat
    BY <1>0
  <2> QED
    BY <2>2, <2>3, <2>4
<1>3. {i \in DOMAIN theory : theory[i].line <= theory[HeaderIndex].line} = 1 .. HeaderIndex
  <2>1. \A i : i \in 1 .. HeaderIndex <=> i \in 1 .. Len(theory) /\ i <= HeaderIndex
    BY <1>0, <1>1
  <2> QED
    BY <1>0, <1>2, <2>1
<1>4. Cardinality(1 .. HeaderIndex) = HeaderIndex
  BY <1>1, FS_Interval
<1>5. AfterHeader = [k \in 1 .. HeaderIndex |-> Original(k)]
  BY <1>3, <1>4 DEF AfterHeader
<1>6. Len(AfterHeader) = HeaderIndex /\ \A k \in 1 .. HeaderIndex : AfterHeader[k] = Original(k)
  BY <1>1, <1>5
<1>7. /\ Len(contents) = HeaderIndex + (cursor - HeaderIndex)
      /\ \A k \in 1 .. HeaderIndex : contents[k] = Original(k)
      /\ \A k \in 1 .. cursor - HeaderIndex : contents[HeaderIndex + k] = Effective[HeaderIndex + k]
  BY <1>6 DEF AnchorInv, Reached
<1>8. ASSUME NEW k \in 1 .. cursor
      PROVE  contents[k] = EffectiveText(k)
  <2>0. k \in 1 .. Len(theory)
    BY <1>0
  <2>1. CASE k <= HeaderIndex
    <3>1. EffectiveText(k) = Original(k)
      BY <1>0, <2>0, <2>1, ApartBegin, EffectiveOfFile
    <3>2. k \in 1 .. HeaderIndex
      BY <1>0, <2>1
    <3> QED
      BY <1>7, <3>1, <3>2
  <2>2. CASE ~ (k <= HeaderIndex)
    <3>1. k - HeaderIndex \in 1 .. cursor - HeaderIndex /\ HeaderIndex + (k - HeaderIndex) = k
      BY <1>0, <2>2
    <3>2. contents[k] = Effective[k]
      BY <1>7, <3>1
    <3> QED
      BY <2>0, <3>2 DEF Effective
  <2> QED
    BY <2>1, <2>2
<1>9. HeaderIndex # 0 /\ HeaderIndex + (cursor - HeaderIndex) = cursor
  BY <1>0, <1>1
<1> QED
  BY <1>0, <1>7, <1>8, <1>9

\* The patched file begins with the lines of the texts that were executed.
LEMMA RenderedIsExecuted ==
    ASSUME OnOneLine, RunInv, AnchorInv, FileInv
    PROVE  PatchIsValidated
<1> SUFFICES ASSUME anchored
             PROVE  IsPrefix(FlattenSeq(ExecutedLines), FlattenSeq(RenderedLines))
  BY DEF PatchIsValidated, ExecutedLines, RenderedLines, RenderPatchedText
<1>0. /\ RepairTypeOK /\ HeaderIndex # 0 /\ Len(contents) = cursor /\ contents \in Seq(Text)
      /\ cursor \in 0 .. Len(theory) /\ Len(theory) \in Nat
      /\ \A k \in 1 .. cursor : contents[k] = EffectiveText(k)
  <2>1. RepairTypeOK /\ Len(theory) \in Nat
    BY HeaderTyped DEF RunInv, RepairTypeOK
  <2> QED
    BY <2>1, AnchorHasEffective
<1>1. cursor \in Nat /\ DOMAIN contents = 1 .. cursor /\ \A k \in 1 .. cursor : k \in 1 .. Len(theory)
  BY <1>0
<1>2. \A k \in 1 .. cursor : Pieces(EffectiveText(k)) \in Seq(PieceType)
  BY <1>0, <1>1, PiecesTyped
<1>3. /\ ExecutedLines \in Seq(Seq(PieceType)) /\ Len(ExecutedLines) = cursor
      /\ \A k \in 1 .. cursor : ExecutedLines[k] = Pieces(EffectiveText(k))
  <2>1. ExecutedLines = [k \in 1 .. cursor |-> Pieces(EffectiveText(k))]
    BY <1>0, <1>1 DEF ExecutedLines
  <2> QED
    BY <1>1, <1>2, <2>1
<1>4. /\ RenderedLines \in Seq(Seq(PieceType)) /\ Len(RenderedLines) \in Nat
      /\ \A n \in 0 .. Len(theory) : EndOf(n) \in 0 .. Len(RenderedLines)
  BY <1>0, RenderedTyped
<1> DEFINE Same == {n \in Nat : Flattened(RenderedLines, EndOf(n)) = Flattened(ExecutedLines, n)}
<1>5. 0 \in Same
  <2>1. Flattened(RenderedLines, 0) = <<>> /\ Flattened(ExecutedLines, 0) = <<>> /\ EndOf(0) = 0
    BY <1>3, <1>4, FlattenUnfolds DEF EndOf
  <2> QED
    BY <2>1
<1>6. ASSUME NEW n \in 0 .. cursor - 1, n \in Same
      PROVE  n + 1 \in Same
  <2>1. /\ n \in 0 .. Len(theory) - 1 /\ n + 1 \in 1 .. cursor /\ (n + 1) - 1 = n /\ n + 1 \in Nat
    BY <1>0, <1>1
  <2>2. Flattened(RenderedLines, EndOf(n + 1)) =
           Flattened(RenderedLines, EndOf(n)) \o Pieces(EffectiveText(n + 1))
    BY <1>0, <2>1, RenderNext
  <2>3. Flattened(ExecutedLines, n + 1) = Flattened(ExecutedLines, n) \o ExecutedLines[n + 1]
    BY <1>3, <2>1, FlattenUnfolds
  <2>4. ExecutedLines[n + 1] = Pieces(EffectiveText(n + 1))
    BY <1>3, <2>1
  <2>5. Flattened(RenderedLines, EndOf(n)) = Flattened(ExecutedLines, n)
    BY <1>6
  <2> QED
    BY <2>1, <2>2, <2>3, <2>4, <2>5
<1> HIDE DEF Same
<1>7. cursor \in Same
  <2>1. cursor \in 0 .. cursor
    BY <1>1
  <2> QED
    BY <1>1, <1>5, <1>6, <2>1, Stepwise
<1>8. Flattened(RenderedLines, EndOf(cursor)) = FlattenSeq(ExecutedLines)
  BY <1>3, <1>7, FlattenUnfolds DEF Same
<1>9. EndOf(cursor) \in 0 .. Len(RenderedLines) /\ Len(RenderedLines) \in EndOf(cursor) .. Len(RenderedLines)
  BY <1>0, <1>4
<1>10. IsPrefix(Flattened(RenderedLines, EndOf(cursor)), Flattened(RenderedLines, Len(RenderedLines)))
  BY <1>4, <1>9, FlattenedPrefix
<1>11. FlattenSeq(RenderedLines) = Flattened(RenderedLines, Len(RenderedLines))
  BY <1>4, FlattenUnfolds
<1> QED
  BY <1>8, <1>10, <1>11

\* Nothing is executed or replaced at first.
LEMMA AnchorBegins ==
    ASSUME RepairInit
    PROVE  AnchorInv /\ FileInv
<1>1. DOMAIN tasks = {} /\ DOMAIN replacements = {}
  BY DEF RepairInit
<1> QED
  BY <1>1 DEF RepairInit, AnchorInv, FileInv

\* What the patched file says up to the cursor is what was executed, line by line:
\* for every theory whose commands stand apart, those behind the header on one line.
THEOREM PatchWasExecuted ==
    ASSUME OnOneLine
    PROVE  RepairSpec => []PatchIsValidated
<1>0. LinesApart
  BY ApartBegin
<1>1. RepairInit => AnchorInv /\ FileInv
  BY AnchorBegins
<1>2. RunInv /\ AnchorInv /\ [RepairNext]_allVars => AnchorInv'
  BY <1>0, AnchorKeeps
<1>3. RunInv /\ FileInv /\ [RepairNext]_allVars => FileInv'
  BY <1>0, FileKeeps
<1>4. RunInv /\ AnchorInv /\ FileInv => PatchIsValidated
  BY RenderedIsExecuted
<1> QED
  BY <1>1, <1>2, <1>3, <1>4, RepairInductive, PTL DEF RepairSpec

\* A run that finishes with an anchor executed every command of the theory, each with
\* the text in effect in the end, repaired or not: for every such theory, and any
\* tasks, rejections, timeouts, drifts and rebuilds on the way.
THEOREM FinishIsRepaired ==
    ASSUME OnOneLine
    PROVE  RepairSpec => []FinishedIsRepaired
<1>0. LinesApart
  BY ApartBegin
<1>1. RepairInit => AnchorInv /\ FileInv
  BY AnchorBegins
<1>2. RunInv /\ AnchorInv /\ [RepairNext]_allVars => AnchorInv'
  BY <1>0, AnchorKeeps
<1>3. RunInv /\ FileInv /\ [RepairNext]_allVars => FileInv'
  BY <1>0, FileKeeps
<1>4. RunInv /\ AnchorInv /\ FileInv => FinishedIsRepaired
  <2> SUFFICES ASSUME RunInv, AnchorInv, FileInv, theory = <<>> \/ (anchored /\ cursor = Len(theory))
               PROVE  contents = [i \in DOMAIN theory |-> EffectiveText(i)]
    BY DEF RunInv, FinishedInv, FinishedIsRepaired
  <2>1. CASE anchored /\ cursor = Len(theory)
    <3>1. /\ Len(contents) = cursor /\ contents \in Seq(Text)
          /\ \A k \in 1 .. cursor : contents[k] = EffectiveText(k)
      BY <2>1, AnchorHasEffective
    <3>2. DOMAIN theory = 1 .. cursor
      BY <2>1, HeaderTyped DEF RunInv, RepairTypeOK
    <3>3. contents = [k \in 1 .. cursor |-> contents[k]]
      BY <3>1
    <3> QED
      BY <3>1, <3>2, <3>3
  <2>2. CASE ~ anchored /\ theory = <<>>
    <3>1. contents = <<>>
      BY <2>2 DEF RunInv, PlacesInv
    <3> QED
      BY <2>2, <3>1
  <2>3. CASE anchored /\ theory = <<>>
    <3>1. cursor \in 0 .. Len(theory) /\ Len(theory) = 0
      BY <2>3 DEF RunInv, RepairTypeOK
    <3> QED
      BY <2>1, <2>3, <3>1
  <2> QED
    BY <2>1, <2>2, <2>3
<1> QED
  BY <1>1, <1>2, <1>3, <1>4, RepairInductive, PTL DEF RepairSpec
=============================================================================

------------------------------- MODULE Replay -------------------------------
(***************************************************************************)
(* init_state of one theory in one session: IsabelleSession's              *)
(* computeInitState with ReplayPlanner and the checkpoint cache.           *)
(*                                                                         *)
(* What a ToplevelState contains is the sequence of the commands executed  *)
(* to reach it from the empty toplevel, named by their index in the        *)
(* theory.  A command is its source line (0: no position), its text up to  *)
(* normalizeWhitespace, and whether executing it raises.  The calls of one *)
(* session hold its lock (module ReplServer), so one action is one call.   *)
(* Meanwhile someone may edit the file; the session parses it once.        *)
(***************************************************************************)
EXTENDS Naturals, Sequences, SequencesExt, IndexOrder

CONSTANTS
    Text,       \* command texts
    MaxLine,    \* bound: source lines
    MaxLength,  \* bound: commands of a theory
    None

ASSUME ReplayAssumption == MaxLine \in Nat /\ MaxLength \in Nat

Command == [line : 0 .. MaxLine, text : Text, raises : BOOLEAN]

ASSUME NoneAssumption == None \notin Seq(Command) /\ None \notin Seq(Nat) /\ None \notin Nat

\* after_line; MaxLine + 1 stands for the Int.MaxValue of a call without position.
Target == 0 .. MaxLine + 1

VARIABLES
    file,         \* the commands in the theory file
    theoryCache,  \* CachedTheory.transitions: None, or the commands that were parsed
    initCache,    \* the checkpoint at each target line: a state, or None
    reply         \* the last response

vars == <<file, theoryCache, initCache, reply>>

MutReparse == file   \* mutant: every call parses the file

\* theoryCache.computeIfAbsent: the commands a call works on.
transitions == IF theoryCache = None THEN file ELSE theoryCache

NoReply == [kind |-> "none"]

\* The parser lists the commands as they stand in the file, so those that have
\* a line have it in ascending order.
InFileOrder(cmds) ==
    \A i, j \in DOMAIN cmds :
        i < j /\ cmds[i].line > 0 /\ cmds[j].line > 0 => cmds[i].line <= cmds[j].line

Init ==
    /\ file \in {cmds \in BoundedSeq(Command, MaxLength) : InFileOrder(cmds)}
    /\ theoryCache = None
    /\ initCache = [l \in Target |-> None]
    /\ reply = NoReply

-----------------------------------------------------------------------------
(* ReplayPlanner                                                           *)

\* The distinct lines of the commands with the text of after_command.
Matches(selector) ==
    {transitions[i].line : i \in {j \in DOMAIN transitions :
                                     transitions[j].line > 0 /\ transitions[j].text = selector}}

MutFromStart(start, target, line) ==   \* mutant: the start line is not exclusive
    line >= start /\ line <= target /\ line > 0

Between(start, target, line) == line > start /\ line <= target

TransitionsBetweenLines(start, target) ==
    Ascending({i \in DOMAIN transitions : Between(start, target, transitions[i].line)})

-----------------------------------------------------------------------------
(* computeInitState                                                        *)

MutLastFailed(best, line) == best   \* mutant: lastSuccessLine is never advanced

\* lastSuccessLine after some of the delta: of its last command, if any.
LastSuccessLine(best, line) == IF line = None THEN best ELSE line

\* bestCache: the highest checkpoint at or below the target.
Checkpoints(target) == {l \in Target : l <= target /\ initCache[l] # None}

BestCache(target) ==
    IF Checkpoints(target) = {} THEN [line |-> 0, state |-> <<>>]
    ELSE LET l == Max(Checkpoints(target)) IN [line |-> l, state |-> initCache[l]]

\* The response of a call that registered a state: buildStateResult may still fail,
\* and the call with it.
Answer(response) == reply' \in {response, NoReply}

\* Replay the delta.  All of it succeeds and the new state becomes the checkpoint
\* of the target; or its k-th command fails - one that raises must, unless it runs
\* into the timeout first, and any other may, by the timeout or another exception -
\* and the state before it is the last success, unless no line was passed.
ReplayTo(target, selector) ==
    LET best == BestCache(target)
        toExecute == TransitionsBetweenLines(best.line, target)
        Raises(k) == transitions[toExecute[k]].raises
        Reached(k) == best.state \o SubSeq(toExecute, 1, k)
        LastLine(k) == LastSuccessLine(best.line,
                          IF k = 0 THEN None ELSE transitions[toExecute[k]].line)
        Failure(kind, k, last) ==
            [kind |-> kind, target |-> target, line |-> transitions[toExecute[k]].line, last |-> last] IN
    \/ /\ \A k \in DOMAIN toExecute : ~Raises(k)
       /\ initCache' = [initCache EXCEPT ![target] = Reached(Len(toExecute))]
       /\ Answer([kind |-> "success", target |-> target, selector |-> selector,
                  state |-> initCache'[target]])
    \/ /\ \E k \in DOMAIN toExecute, kind \in {"execution_failed", "timeout"} :
             /\ \A j \in 1 .. k - 1 : ~Raises(j)
             /\ IF LastLine(k - 1) > 0 THEN Answer(Failure(kind, k, Reached(k - 1)))
                ELSE reply' = Failure(kind, k, None)
       /\ UNCHANGED initCache

InitStateAtLine ==
    /\ \E target \in Target : ReplayTo(target, None)
    /\ theoryCache' = transitions
    /\ UNCHANGED file

\* A selector must match commands of exactly one line.
InitStateAtCommand ==
    /\ \E selector \in Text :
          LET lines == Matches(selector) IN
          \/ /\ lines = {}
             /\ reply' = [kind |-> "not_found", selector |-> selector]
             /\ UNCHANGED initCache
          \/ /\ \E l, m \in lines : l # m
             /\ reply' = [kind |-> "ambiguous", selector |-> selector, candidates |-> lines]
             /\ UNCHANGED initCache
          \/ \E target \in lines :
                /\ lines = {target}
                /\ ReplayTo(target, selector)
    /\ theoryCache' = transitions
    /\ UNCHANGED file

\* drop_state of a checkpointed state, and drop_all_states
DropState ==
    /\ \E l \in Target :
          /\ initCache[l] # None
          /\ initCache' = [initCache EXCEPT ![l] = None]
    /\ reply' = NoReply
    /\ UNCHANGED <<file, theoryCache>>

DropAllStates ==
    /\ initCache' = [l \in Target |-> None]
    /\ reply' = NoReply
    /\ UNCHANGED <<file, theoryCache>>

\* load_theory and list_theory_commands
LoadTheory ==
    /\ theoryCache' = transitions
    /\ reply' = [kind |-> "commands"]
    /\ UNCHANGED <<file, initCache>>

\* A call that must parse the file cannot: nothing is cached.
ParseFails ==
    /\ theoryCache = None
    /\ reply' = NoReply
    /\ UNCHANGED <<file, theoryCache, initCache>>

\* The environment: somebody deletes a command from the file that was parsed.
\* Bound: once, since Init has every shorter file and a second edit changes
\* nothing more for the session.
EditFile ==
    /\ theoryCache = file
    /\ \E i \in DOMAIN file : file' = RemoveAt(file, i)
    /\ UNCHANGED <<theoryCache, initCache, reply>>

Next ==
    \/ InitStateAtLine \/ InitStateAtCommand \/ DropState \/ DropAllStates \/ LoadTheory
    \/ ParseFails \/ EditFile

Spec == Init /\ [][Next]_vars

-----------------------------------------------------------------------------
(* Properties                                                              *)

\* The reference: every positioned command up to the target, in file order.
FromScratch(target) ==
    Ascending({i \in DOMAIN transitions :
                  transitions[i].line > 0 /\ transitions[i].line <= target})

\* The commands before the i-th, those without a position left out.
Before(i) == Ascending({j \in DOMAIN transitions : transitions[j].line > 0 /\ j < i})

\* The cache cannot be observed in a success: whatever was asked, dropped,
\* refused or timed out before, and however the file was edited meanwhile, a
\* checkpoint holds exactly the state a replay of the commands the session lists
\* reaches at its line, and so does the response - no command is skipped,
\* repeated or taken from beyond the line.
CacheTransparent ==
    /\ \A l \in Target : initCache[l] # None =>
          initCache[l] = FromScratch(l) /\ \A i \in Range(initCache[l]) : ~transitions[i].raises
    /\ reply.kind = "success" => reply.state = FromScratch(reply.target)

\* A failure is reported where it is, from whichever checkpoint the replay set
\* out: the line named is within the target and that of a command before which
\* none raises - so the first that raises, or one that failed before it - and
\* last_success is the state just before it; it is missing only if no command
\* comes before.
FailureIsExact ==
    reply.kind \in {"execution_failed", "timeout"} =>
        /\ reply.line \in 1 .. reply.target
        /\ \E i \in DOMAIN transitions :
              /\ transitions[i].line = reply.line
              /\ \A j \in Range(Before(i)) : ~transitions[j].raises
              /\ \/ reply.last = Before(i)
                 \/ reply.last = None /\ Before(i) = <<>>

=============================================================================

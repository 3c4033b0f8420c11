---------------------------- MODULE ReplayProofs ----------------------------
(***************************************************************************)
(* The checkpoint cache cannot be observed, and a failure is reported      *)
(* where it is: for theories and lines of any number.                      *)
(*                                                                         *)
(* The session's commands never change once a call works on them, so a     *)
(* checkpoint at a line stays the list of the positioned commands up to    *)
(* it.  As the commands stand in file order, those between the checkpoint  *)
(* and the target come after it, and the replay appends them in order.     *)
(***************************************************************************)
EXTENDS Replay, SequenceProofs

\* The commands a call works on are those of a theory, in file order.
ParsedInv == transitions \in Seq(Command) /\ InFileOrder(transitions)

\* What a replay up to a line executes, and what it executes from a checkpoint on.
UpTo(target) == {i \in DOMAIN transitions : transitions[i].line > 0 /\ transitions[i].line <= target}
Delta(start, target) == {i \in DOMAIN transitions : Between(start, target, transitions[i].line)}

\* The commands without a position left out, those before the i-th.
Earlier(i) == {j \in DOMAIN transitions : transitions[j].line > 0 /\ j < i}

\* The commands are numbered from 1, and their lines are numbers.
LEMMA CommandsTyped ==
    ASSUME ParsedInv
    PROVE  /\ DOMAIN transitions = 1 .. Len(transitions) /\ Len(transitions) \in Nat
           /\ IsFiniteSet(DOMAIN transitions) /\ DOMAIN transitions \subseteq Nat
           /\ \A i \in DOMAIN transitions :
                 transitions[i].line \in Nat /\ transitions[i].raises \in BOOLEAN
<1>1. DOMAIN transitions = 1 .. Len(transitions) /\ Len(transitions) \in Nat
  BY DEF ParsedInv
<1>2. IsFiniteSet(1 .. Len(transitions))
  BY <1>1, FS_Interval
<1>3. \A i \in DOMAIN transitions : transitions[i] \in Command
  BY <1>1 DEF ParsedInv
<1> QED
  BY <1>1, <1>2, <1>3, ReplayAssumption DEF Command

\* So any set of them is listed by Ascending.
LEMMA CommandsListed ==
    ASSUME ParsedInv, NEW S \in SUBSET DOMAIN transitions
    PROVE  /\ IsFiniteSet(S) /\ S \subseteq Nat
           /\ Lists(Ascending(S), S) /\ Range(Ascending(S)) = S
           /\ Ascending(S) \in Seq(Nat)
           /\ Len(Ascending(S)) = Cardinality(S)
<1>1. IsFiniteSet(S) /\ S \subseteq Nat
  BY CommandsTyped, FS_Subset
<1>2. Lists(Ascending(S), S) /\ Len(Ascending(S)) = Cardinality(S)
  BY <1>1, AscendingLists
<1>3. Ascending(S) \in Seq(S) /\ \A i \in S : \E k \in 1 .. Len(Ascending(S)) : Ascending(S)[k] = i
  BY <1>2 DEF Lists
<1>4. Range(Ascending(S)) = S
  BY <1>3 DEF Range
<1>5. Ascending(S) \in Seq(Nat)
  BY <1>1, <1>3
<1> QED
  BY <1>1, <1>2, <1>4, <1>5

\* A file that is not yet parsed, and then the parsed commands, are a theory.
LEMMA InitParsed == Init => ParsedInv
<1> SUFFICES ASSUME Init PROVE ParsedInv
  OBVIOUS
<1>1. transitions = file
  BY DEF Init, transitions
<1>2. PICK m \in 0 .. MaxLength : file \in [1 .. m -> Command]
  BY DEF Init, BoundedSeq, SeqOf
<1>3. m \in Nat
  BY ReplayAssumption
<1>4. file \in Seq(Command)
  BY <1>2, <1>3
<1> QED
  BY <1>1, <1>4 DEF ParsedInv, Init

\* No step changes the commands the session works on, an edit of the file included.
LEMMA TheoryFixed ==
    ASSUME ParsedInv, [Next]_vars
    PROVE  transitions' = transitions
<1>1. CASE InitStateAtLine \/ InitStateAtCommand \/ LoadTheory
  <2>1. theoryCache' = transitions /\ file' = file
    BY <1>1 DEF InitStateAtLine, InitStateAtCommand, LoadTheory
  <2> QED
    BY <2>1 DEF transitions
<1>2. CASE DropState \/ DropAllStates \/ ParseFails \/ UNCHANGED vars
  <2>1. theoryCache' = theoryCache /\ file' = file
    BY <1>2 DEF DropState, DropAllStates, ParseFails, vars
  <2> QED
    BY <2>1 DEF transitions
<1>3. CASE EditFile
  <2>1. theoryCache = file /\ theoryCache' = theoryCache
    BY <1>3 DEF EditFile
  <2>2. theoryCache # None
    BY <2>1, NoneAssumption DEF ParsedInv, transitions
  <2> QED
    BY <2>1, <2>2 DEF transitions
<1> QED
  BY <1>1, <1>2, <1>3 DEF Next

\* So what a replay from scratch reaches stays what it was.
ReferenceStays ==
    /\ transitions' = transitions /\ ParsedInv'
    /\ \A l : FromScratch(l)' = FromScratch(l)
    /\ \A i : Before(i)' = Before(i)

\* No step changes the reference.
LEMMA ReferenceFixed ==
    ASSUME ParsedInv, [Next]_vars
    PROVE  ReferenceStays
<1>1. transitions' = transitions
  BY TheoryFixed
<1>2. ParsedInv'
  BY <1>1 DEF ParsedInv, InFileOrder
<1>3. ASSUME NEW l PROVE FromScratch(l)' = FromScratch(l)
  BY <1>1 DEF FromScratch
<1>4. ASSUME NEW i PROVE Before(i)' = Before(i)
  BY <1>1 DEF Before
<1> QED
  BY <1>1, <1>2, <1>3, <1>4 DEF ReferenceStays

-----------------------------------------------------------------------------
(* What a replay from the best checkpoint reaches.                         *)

\* The best checkpoint is what a replay from scratch reaches at its line, and no
\* command up to there raises.
LEMMA BestIsFromScratch ==
    ASSUME ParsedInv, CacheTransparent, NEW target \in Target
    PROVE  /\ BestCache(target).line \in Nat /\ BestCache(target).line <= target
           /\ BestCache(target).state = Ascending(UpTo(BestCache(target).line))
           /\ \A i \in UpTo(BestCache(target).line) : ~ transitions[i].raises
<1>1. CASE Checkpoints(target) = {}
  <2>1. BestCache(target) = [line |-> 0, state |-> <<>>]
    BY <1>1 DEF BestCache
  <2>2. UpTo(0) = {}
    BY CommandsTyped DEF UpTo
  <2>3. 0 <= target
    BY ReplayAssumption DEF Target
  <2>4. BestCache(target).line = 0 /\ BestCache(target).state = <<>>
    BY <2>1
  <2>5. Ascending(UpTo(0)) = <<>>
    BY <2>2, AscendingEmpty
  <2> QED
    BY <2>2, <2>3, <2>4, <2>5
<1>2. CASE Checkpoints(target) # {}
  <2> DEFINE l == Max(Checkpoints(target))
  <2>1. BestCache(target) = [line |-> l, state |-> initCache[l]]
    BY <1>2 DEF BestCache
  <2>2. Checkpoints(target) \subseteq 0 .. MaxLine + 1 /\ MaxLine + 1 \in Nat
    BY ReplayAssumption DEF Checkpoints, Target
  <2>3. l \in Checkpoints(target)
    BY <1>2, <2>2, GreatestNatural
  <2> HIDE DEF l
  <2>4. l \in Target /\ l <= target /\ initCache[l] # None
    BY <2>3 DEF Checkpoints
  <2>5. initCache[l] = Ascending(UpTo(l)) /\ \A i \in Range(initCache[l]) : ~ transitions[i].raises
    BY <2>4 DEF CacheTransparent, FromScratch, UpTo
  <2>6. Range(Ascending(UpTo(l))) = UpTo(l)
    BY CommandsListed DEF UpTo
  <2>7. l \in Nat
    BY <2>4, ReplayAssumption DEF Target
  <2> QED
    BY <2>1, <2>4, <2>5, <2>6, <2>7
<1> QED
  BY <1>1, <1>2

\* The commands after a checkpoint's line come after those up to it.
LEMMA DeltaFollows ==
    ASSUME ParsedInv, NEW start \in Nat, NEW target, NEW i \in UpTo(start), NEW j \in Delta(start, target)
    PROVE  i < j
<1>1. /\ i \in DOMAIN transitions /\ j \in DOMAIN transitions
      /\ transitions[i].line > 0 /\ transitions[i].line <= start /\ transitions[j].line > start
  BY DEF UpTo, Delta, Between
<1>2. i \in Nat /\ j \in Nat /\ transitions[i].line \in Nat /\ transitions[j].line \in Nat
  BY <1>1, CommandsTyped
<1>3. i # j /\ transitions[j].line > 0 /\ ~ (transitions[j].line <= transitions[i].line)
  BY <1>1, <1>2
<1>4. ~ (j < i)
  BY <1>1, <1>3 DEF ParsedInv, InFileOrder
<1> QED
  BY <1>2, <1>3, <1>4

\* The state after k commands of the delta lists those up to the checkpoint and these.
LEMMA ReplayAppends ==
    ASSUME ParsedInv, NEW start \in Nat, NEW target,
           NEW k \in 0 .. Len(Ascending(Delta(start, target)))
    PROVE  Ascending(UpTo(start)) \o SubSeq(Ascending(Delta(start, target)), 1, k)
           = Ascending(UpTo(start) \union FirstOf(Delta(start, target), k))
<1> DEFINE A == UpTo(start)
           B == Delta(start, target)
           T == FirstOf(B, k)
<1>1. A \in SUBSET DOMAIN transitions /\ B \in SUBSET DOMAIN transitions
  BY DEF UpTo, Delta
<1>2. \A i \in A, j \in B : i < j
  BY DeltaFollows
<1> HIDE DEF A, B, T
<1>3. /\ IsFiniteSet(A) /\ A \subseteq Nat /\ IsFiniteSet(B) /\ B \subseteq Nat
      /\ Len(Ascending(B)) = Cardinality(B)
  BY <1>1, CommandsListed
<1>4. k \in 0 .. Cardinality(B)
  BY <1>3 DEF B
<1>5. IsFiniteSet(T) /\ T \subseteq B /\ SubSeq(Ascending(B), 1, k) = Ascending(T)
  BY <1>3, <1>4, AscendingPrefix DEF T
<1>6. T \subseteq Nat /\ \A i \in A, j \in T : i < j
  BY <1>2, <1>3, <1>5
<1>7. Ascending(A) \o Ascending(T) = Ascending(A \union T)
  BY <1>3, <1>5, <1>6, AscendingUnion
<1> QED
  BY <1>5, <1>7 DEF A, B, T

\* After the whole delta these are the commands up to the target, ...
LEMMA ReplayReachesTarget ==
    ASSUME ParsedInv, NEW start \in Nat, NEW target \in Nat, start <= target
    PROVE  LET s == Ascending(Delta(start, target)) IN
           Ascending(UpTo(start)) \o SubSeq(s, 1, Len(s)) = Ascending(UpTo(target))
<1> DEFINE B == Delta(start, target)
           s == Ascending(B)
           T == FirstOf(B, Len(s))
<1>1. B \in SUBSET DOMAIN transitions
  BY DEF Delta
<1>2. Lists(s, B)
  BY <1>1, CommandsListed
<1>3. s \in Seq(B) /\ \A i \in B : \E k \in 1 .. Len(s) : s[k] = i
  BY <1>2 DEF Lists
<1>a. T = {s[m] : m \in 1 .. Len(s)}
  BY DEF FirstOf
<1> HIDE DEF s, B, T
<1>b. Len(s) \in Nat /\ \A k \in 1 .. Len(s) : s[k] \in B
  BY <1>3
<1>c. Len(s) \in 0 .. Len(s)
  BY <1>b
<1>d. T = B
  BY <1>3, <1>a, <1>b, ZenonT(60)
<1>4. T = B /\ Len(s) \in 0 .. Len(s)
  BY <1>c, <1>d
<1>5. UpTo(start) \union B = UpTo(target)
  <2>1. \A i \in DOMAIN transitions : transitions[i].line \in Nat
    BY CommandsTyped
  <2> QED
    BY <2>1 DEF UpTo, B, Delta, Between
<1>6. Ascending(UpTo(start)) \o SubSeq(s, 1, Len(s)) = Ascending(UpTo(start) \union T)
  BY <1>4, ReplayAppends DEF s, B, T
<1> QED
  BY <1>4, <1>5, <1>6 DEF s, B

\* ... and before its k-th command these are the positioned commands before it.
LEMMA ReplayReachesFailed ==
    ASSUME ParsedInv, NEW start \in Nat, NEW target \in Nat,
           NEW k \in 1 .. Len(Ascending(Delta(start, target)))
    PROVE  LET s == Ascending(Delta(start, target)) IN
           /\ s[k] \in Delta(start, target)
           /\ Earlier(s[k]) = UpTo(start) \union FirstOf(Delta(start, target), k - 1)
           /\ Ascending(UpTo(start)) \o SubSeq(s, 1, k - 1) = Ascending(Earlier(s[k]))
<1> DEFINE B == Delta(start, target)
           s == Ascending(B)
           T == FirstOf(B, k - 1)
<1>1. B \in SUBSET DOMAIN transitions
  BY DEF Delta
<1>2. Lists(s, B)
  BY <1>1, CommandsListed
<1>3. /\ s \in Seq(B) /\ k \in 1 .. Len(s) /\ Len(s) \in Nat
      /\ \A i \in B : \E m \in 1 .. Len(s) : s[m] = i
      /\ \A m, n \in 1 .. Len(s) : m < n => s[m] < s[n]
  BY <1>2 DEF Lists
<1>4. \A i \in UpTo(start), j \in B : i < j
  BY DeltaFollows
<1>c. T = {s[m] : m \in 1 .. k - 1}
  BY DEF FirstOf
<1> HIDE DEF s, T
<1>5. \A m \in 1 .. Len(s) : s[m] \in B
  BY <1>3
<1>6. /\ DOMAIN transitions \subseteq Nat
      /\ \A i \in DOMAIN transitions : transitions[i].line \in Nat
  BY CommandsTyped
<1>a. s[k] \in DOMAIN transitions
  BY <1>1, <1>3, <1>5
<1>b. k - 1 \in 0 .. Len(s)
  BY <1>3
<1>7. s[k] \in DOMAIN transitions /\ s[k] \in Nat /\ k - 1 \in 0 .. Len(s)
  BY <1>a, <1>b, <1>6
<1>8. ASSUME NEW j \in Earlier(s[k])
      PROVE  j \in UpTo(start) \/ j \in T
  <2>1. j \in DOMAIN transitions /\ transitions[j].line > 0 /\ j < s[k]
    BY DEF Earlier
  <2>2. transitions[j].line <= transitions[s[k]].line
    <3>1. transitions[s[k]].line > 0
      <4>1. transitions[s[k]].line > start
        BY <1>3, <1>5 DEF B, Delta, Between
      <4> QED
        BY <1>6, <1>7, <4>1
    <3> QED
      BY <1>7, <2>1, <3>1 DEF ParsedInv, InFileOrder
  <2>3. transitions[s[k]].line <= target
    BY <1>3, <1>5 DEF B, Delta, Between
  <2>4. transitions[j].line <= target
    BY <1>6, <1>7, <2>1, <2>2, <2>3
  <2>5. CASE transitions[j].line <= start
    BY <2>1, <2>5 DEF UpTo
  <2>6. CASE ~ (transitions[j].line <= start)
    <3>1. j \in B
      BY <1>6, <2>1, <2>4, <2>6 DEF B, Delta, Between
    <3>2. PICK m \in 1 .. Len(s) : s[m] = j
      BY <1>3, <3>1
    <3>3. ~ (s[k] < s[m]) /\ s[m] # s[k]
      BY <1>6, <1>7, <2>1, <3>2
    <3>4. m < k
      BY <1>3, <3>3
    <3>5. m \in 1 .. k - 1
      BY <1>3, <3>4
    <3> QED
      BY <1>c, <3>2, <3>5
  <2> QED
    BY <2>5, <2>6
<1>9. ASSUME NEW j \in UpTo(start)
      PROVE  j \in Earlier(s[k])
  BY <1>3, <1>4, <1>5 DEF UpTo, Earlier
<1>10. ASSUME NEW j \in T
       PROVE  j \in Earlier(s[k])
  <2>1. PICK m \in 1 .. k - 1 : j = s[m]
    BY <1>c
  <2>2. m \in 1 .. Len(s) /\ m < k
    BY <1>3
  <2>3. s[m] < s[k] /\ s[m] \in B
    BY <1>3, <1>5, <2>2
  <2>4. s[m] \in DOMAIN transitions /\ transitions[s[m]].line > 0
    BY <1>6, <2>3 DEF B, Delta, Between
  <2> QED
    BY <2>1, <2>3, <2>4 DEF Earlier
<1>11. Earlier(s[k]) = UpTo(start) \union T
  BY <1>8, <1>9, <1>10
<1>12. Ascending(UpTo(start)) \o SubSeq(s, 1, k - 1) = Ascending(UpTo(start) \union T)
  BY <1>7, ReplayAppends DEF s, T
<1> QED
  BY <1>3, <1>5, <1>11, <1>12 DEF s, T

-----------------------------------------------------------------------------
(* The steps.                                                              *)

\* A checkpoint is a list of commands.
CacheTyped == initCache \in [Target -> Seq(Nat) \union {None}]

\* The inductive invariant: the two properties rest on each other's checkpoints, and
\* on the commands the session parsed.
IInv == ParsedInv /\ CacheTyped /\ CacheTransparent /\ FailureIsExact

\* A replay that gets through makes the checkpoint of its target, and the response if any.
LEMMA ReplaySucceeds ==
    ASSUME IInv, ReferenceStays, NEW target \in Target, NEW selector,
           \A k \in DOMAIN Ascending(Delta(BestCache(target).line, target)) :
              ~ transitions[Ascending(Delta(BestCache(target).line, target))[k]].raises,
           initCache' = [initCache EXCEPT ![target] =
              LET s == Ascending(Delta(BestCache(target).line, target)) IN
              BestCache(target).state \o SubSeq(s, 1, Len(s))],
           Answer([kind |-> "success", target |-> target, selector |-> selector,
                   state |-> initCache'[target]])
    PROVE  IInv'
<1> DEFINE start == BestCache(target).line
           B == Delta(start, target)
           s == Ascending(B)
           new == BestCache(target).state \o SubSeq(s, 1, Len(s))
<1>1. /\ start \in Nat /\ start <= target /\ BestCache(target).state = Ascending(UpTo(start))
      /\ \A i \in UpTo(start) : ~ transitions[i].raises
  BY BestIsFromScratch DEF IInv
<1>2. target \in Nat
  BY ReplayAssumption DEF Target
<1>3. new = Ascending(UpTo(target))
  <2>1. Ascending(UpTo(start)) \o SubSeq(s, 1, Len(s)) = Ascending(UpTo(target))
    BY <1>1, <1>2, ReplayReachesTarget DEF IInv
  <2> QED
    BY <1>1, <2>1
<1>4. initCache' = [initCache EXCEPT ![target] = new]
  OBVIOUS
<1>5. \A k \in DOMAIN s : ~ transitions[s[k]].raises
  OBVIOUS
<1> HIDE DEF start, B, s, new
<1>6. UpTo(target) \in SUBSET DOMAIN transitions /\ B \in SUBSET DOMAIN transitions
  BY DEF UpTo, B, Delta
<1>7. Ascending(UpTo(target)) \in Seq(Nat) /\ Range(Ascending(UpTo(target))) = UpTo(target)
  BY <1>6, CommandsListed DEF IInv
<1>8. Lists(s, B)
  BY <1>6, CommandsListed DEF IInv, s
<1>9. \A i \in B : \E k \in DOMAIN s : s[k] = i
  <2>1. s \in Seq(B) /\ \A i \in B : \E k \in 1 .. Len(s) : s[k] = i
    BY <1>8 DEF Lists
  <2> QED
    BY <2>1
<1>10. \A i \in B : ~ transitions[i].raises
  BY <1>5, <1>9
<1>11. UpTo(target) \subseteq UpTo(start) \union B
  <2>1. \A i \in DOMAIN transitions : transitions[i].line \in Nat
    BY CommandsTyped DEF IInv
  <2> QED
    BY <1>1, <2>1 DEF UpTo, B, Delta, Between
<1>12. \A i \in UpTo(target) : ~ transitions[i].raises
  BY <1>1, <1>10, <1>11
<1>13. /\ CacheTyped' /\ initCache'[target] = new
       /\ \A l \in Target : l # target => initCache'[l] = initCache[l]
  BY <1>3, <1>4, <1>7 DEF IInv, CacheTyped
<1>14. new = FromScratch(target) /\ \A i \in Range(new) : ~ transitions[i].raises
  BY <1>3, <1>7, <1>12 DEF FromScratch, UpTo
<1>15. reply'.kind \in {"success", "none"}
       /\ (reply'.kind = "success" => reply'.state = new /\ reply'.target = target)
  <2>1. reply' \in {[kind |-> "success", target |-> target, selector |-> selector,
                     state |-> initCache'[target]], NoReply}
    BY Zenon DEF Answer
  <2>2. CASE reply' = NoReply
    <3>1. reply'.kind = "none"
      BY <2>2 DEF NoReply
    <3> QED
      BY <3>1
  <2>3. CASE reply' # NoReply
    <3>1. reply' = [kind |-> "success", target |-> target, selector |-> selector,
                    state |-> initCache'[target]]
      BY <2>1, <2>3
    <3>2. reply'.kind = "success" /\ reply'.state = initCache'[target] /\ reply'.target = target
      BY <3>1
    <3> QED
      BY <1>13, <3>2
  <2> QED
    BY <2>2, <2>3
<1>16. CacheTransparent'
  BY <1>13, <1>14, <1>15 DEF IInv, CacheTransparent, ReferenceStays
<1>17. FailureIsExact'
  BY <1>15 DEF FailureIsExact
<1> QED
  BY <1>13, <1>16, <1>17 DEF IInv, ReferenceStays

\* A step that gives no state as its response and makes no checkpoint.
LEMMA OtherwiseKeeps ==
    ASSUME IInv, ReferenceStays,
           \A l \in Target : initCache'[l] \in {initCache[l], None}, CacheTyped',
           reply' = reply \/ reply'.kind \notin {"success", "execution_failed", "timeout"}
    PROVE  IInv'
<1>1. CacheTransparent'
  BY DEF IInv, CacheTransparent, ReferenceStays
<1>2. FailureIsExact'
  BY DEF IInv, FailureIsExact, ReferenceStays
<1> QED
  BY <1>1, <1>2 DEF IInv, ReferenceStays

\* A replay that fails names the line of its k-th command and the state before it, and
\* leaves the checkpoints alone.
LEMMA ReplayFails ==
    ASSUME IInv, ReferenceStays, NEW target \in Target,
           NEW k \in DOMAIN Ascending(Delta(BestCache(target).line, target)),
           \A j \in 1 .. k - 1 :
              ~ transitions[Ascending(Delta(BestCache(target).line, target))[j]].raises,
           NEW kind \in {"execution_failed", "timeout"},
           LET s == Ascending(Delta(BestCache(target).line, target))
               line == LastSuccessLine(BestCache(target).line,
                          IF k - 1 = 0 THEN None ELSE transitions[s[k - 1]].line) IN
           reply' = [kind |-> kind, target |-> target, line |-> transitions[s[k]].line,
                     last |-> IF line > 0 THEN BestCache(target).state \o SubSeq(s, 1, k - 1) ELSE None],
           initCache' = initCache
    PROVE  IInv'
<1> DEFINE start == BestCache(target).line
           B == Delta(start, target)
           s == Ascending(B)
           old == BestCache(target).state \o SubSeq(s, 1, k - 1)
           line == LastSuccessLine(start, IF k - 1 = 0 THEN None ELSE transitions[s[k - 1]].line)
           T == FirstOf(B, k - 1)
<1>1. /\ start \in Nat /\ start <= target /\ BestCache(target).state = Ascending(UpTo(start))
      /\ \A i \in UpTo(start) : ~ transitions[i].raises
  BY BestIsFromScratch DEF IInv
<1>2. target \in Nat
  BY ReplayAssumption DEF Target
<1>3. B \in SUBSET DOMAIN transitions
  BY DEF Delta
<1>4. Lists(s, B) /\ s \in Seq(Nat)
  BY <1>3, CommandsListed DEF IInv
<1>a. s \in Seq(B)
  BY <1>4 DEF Lists
<1>b. k \in DOMAIN s
  OBVIOUS
<1>5. s \in Seq(B) /\ Len(s) \in Nat /\ k \in 1 .. Len(s)
  <2> HIDE DEF s, B
  <2> QED
    BY <1>a, <1>b
<1>6. /\ s[k] \in B
      /\ Earlier(s[k]) = UpTo(start) \union T
      /\ old = Ascending(Earlier(s[k]))
  <2>1. /\ s[k] \in B /\ Earlier(s[k]) = UpTo(start) \union T
        /\ Ascending(UpTo(start)) \o SubSeq(s, 1, k - 1) = Ascending(Earlier(s[k]))
    BY <1>1, <1>2, <1>5, ReplayReachesFailed, ZenonT(60) DEF IInv
  <2> QED
    BY <1>1, <2>1
<1>7. T = {s[m] : m \in 1 .. k - 1}
  BY DEF FirstOf
<1>8. /\ reply'.kind = kind /\ reply'.target = target /\ reply'.line = transitions[s[k]].line
      /\ reply'.last = IF line > 0 THEN old ELSE None
  OBVIOUS
<1>9. \A j \in 1 .. k - 1 : ~ transitions[s[j]].raises
  OBVIOUS
<1> HIDE DEF start, B, s, old, line, T
<1>10. \A i \in DOMAIN transitions : transitions[i].line \in Nat /\ transitions[i].raises \in BOOLEAN
  BY CommandsTyped DEF IInv
<1>11. /\ s[k] \in DOMAIN transitions /\ transitions[s[k]].line > start
       /\ transitions[s[k]].line <= target
  BY <1>6 DEF B, Delta, Between
<1>12. transitions[s[k]].line \in 1 .. target
  BY <1>1, <1>2, <1>10, <1>11
<1>13. old = Before(s[k]) /\ Earlier(s[k]) \in SUBSET DOMAIN transitions
  BY <1>6 DEF Before, Earlier
<1>14. Range(old) = Earlier(s[k]) /\ old \in Seq(Nat)
  BY <1>6, <1>13, CommandsListed DEF IInv
<1>15. \A i \in Earlier(s[k]) : ~ transitions[i].raises
  BY <1>1, <1>6, <1>7, <1>9
<1>16. old # None
  BY <1>14, NoneAssumption
<1>17. ~ (line > 0) => old = <<>>
  <2>1. SUFFICES ASSUME ~ (line > 0) PROVE old = <<>>
    OBVIOUS
  <2>2. k = 1
    <3>1. SUFFICES ASSUME k # 1 PROVE FALSE
      OBVIOUS
    <3>2. k - 1 \in 1 .. Len(s) /\ k - 1 # 0
      BY <1>5, <3>1
    <3>3. s[k - 1] \in B
      BY <1>5, <3>2
    <3>4. transitions[s[k - 1]].line > start /\ transitions[s[k - 1]].line \in Nat
      BY <1>3, <1>10, <3>3 DEF B, Delta, Between
    <3>5. line = transitions[s[k - 1]].line
      BY <3>2, <3>4, NoneAssumption DEF line, LastSuccessLine
    <3> QED
      BY <1>1, <2>1, <3>4, <3>5
  <2>3. line = start
    BY <2>2 DEF line, LastSuccessLine
  <2>4. start = 0 /\ T = {}
    BY <1>1, <1>7, <2>1, <2>2, <2>3
  <2>5. UpTo(start) = {}
    BY <1>10, <2>4 DEF UpTo
  <2>6. Earlier(s[k]) = {}
    BY <1>6, <2>4, <2>5
  <2> QED
    BY <1>6, <2>6, AscendingEmpty
<1>18. FailureIsExact'
  <2>1. PICK f : f = s[k]
    OBVIOUS
  <2>2. f \in DOMAIN transitions /\ transitions' = transitions /\ Before(f)' = Before(f)
    BY <1>11, <2>1 DEF ReferenceStays
  <2>3. Before(f)' = old
    BY <1>13, <2>1, <2>2
  <2>4. reply'.line \in 1 .. reply'.target /\ transitions'[f].line = reply'.line
    BY <1>8, <1>12, <2>1, <2>2
  <2>5. \A i \in Range(old) : ~ transitions'[i].raises
    BY <1>14, <1>15, <2>2
  <2>6. reply'.last = old \/ (reply'.last = None /\ old = <<>>)
    BY <1>8, <1>17
  <2>7. \A j \in Range(Before(f)') : ~ transitions'[j].raises
    BY <2>3, <2>5
  <2>8. reply'.last = Before(f)' \/ (reply'.last = None /\ Before(f)' = <<>>)
    BY <2>3, <2>6
  <2> QED
    BY <2>2, <2>4, <2>7, <2>8 DEF FailureIsExact
<1>19. CacheTransparent'
  <2>1. reply'.kind # "success"
    BY <1>8
  <2> QED
    BY <2>1 DEF IInv, CacheTransparent, ReferenceStays
<1> QED
  BY <1>18, <1>19 DEF IInv, ReferenceStays, CacheTyped

\* A call that replays.
LEMMA ReplayKeeps ==
    ASSUME IInv, ReferenceStays, NEW target \in Target, NEW selector, ReplayTo(target, selector)
    PROVE  IInv'
<1> DEFINE best == BestCache(target)
           s == Ascending(Delta(best.line, target))
           line(k) == LastSuccessLine(best.line, IF k = 0 THEN None ELSE transitions[s[k]].line)
<1>1. TransitionsBetweenLines(best.line, target) = s
  BY DEF TransitionsBetweenLines, Delta
<1>2. \/ /\ \A k \in DOMAIN s : ~ transitions[s[k]].raises
         /\ initCache' = [initCache EXCEPT ![target] = best.state \o SubSeq(s, 1, Len(s))]
         /\ Answer([kind |-> "success", target |-> target, selector |-> selector,
                    state |-> initCache'[target]])
      \/ /\ \E k \in DOMAIN s, kind \in {"execution_failed", "timeout"} :
               /\ \A j \in 1 .. k - 1 : ~ transitions[s[j]].raises
               /\ IF line(k - 1) > 0
                  THEN Answer([kind |-> kind, target |-> target, line |-> transitions[s[k]].line,
                               last |-> best.state \o SubSeq(s, 1, k - 1)])
                  ELSE reply' = [kind |-> kind, target |-> target, line |-> transitions[s[k]].line,
                                 last |-> None]
         /\ initCache' = initCache
  BY <1>1, Zenon DEF ReplayTo
<1>3. CASE /\ \A k \in DOMAIN s : ~ transitions[s[k]].raises
           /\ initCache' = [initCache EXCEPT ![target] = best.state \o SubSeq(s, 1, Len(s))]
           /\ Answer([kind |-> "success", target |-> target, selector |-> selector,
                      state |-> initCache'[target]])
  BY <1>3, ReplaySucceeds
<1>4. ASSUME NEW k \in DOMAIN s, NEW kind \in {"execution_failed", "timeout"},
             \A j \in 1 .. k - 1 : ~ transitions[s[j]].raises,
             IF line(k - 1) > 0
             THEN Answer([kind |-> kind, target |-> target, line |-> transitions[s[k]].line,
                          last |-> best.state \o SubSeq(s, 1, k - 1)])
             ELSE reply' = [kind |-> kind, target |-> target, line |-> transitions[s[k]].line,
                            last |-> None],
             initCache' = initCache
      PROVE  IInv'
  <2>1. CASE reply' = NoReply
    <3>1. reply'.kind = "none"
      BY <2>1 DEF NoReply
    <3> QED
      BY <1>4, <3>1, OtherwiseKeeps DEF IInv, CacheTyped
  <2>2. CASE reply' # NoReply
    <3>1. reply' = [kind |-> kind, target |-> target, line |-> transitions[s[k]].line,
                    last |-> IF line(k - 1) > 0 THEN best.state \o SubSeq(s, 1, k - 1) ELSE None]
      BY <1>4, <2>2, Zenon DEF Answer
    <3> QED
      BY <1>4, <3>1, ReplayFails
  <2> QED
    BY <2>1, <2>2
<1> QED
  BY <1>2, <1>3, <1>4

\* Every step keeps the invariant.
LEMMA StepKeeps ==
    ASSUME IInv, [Next]_vars
    PROVE  IInv'
<1>0. ReferenceStays
  BY ReferenceFixed DEF IInv
<1>1. CASE InitStateAtLine
  BY <1>0, <1>1, ReplayKeeps DEF InitStateAtLine
<1>2. CASE InitStateAtCommand
  <2>1. PICK selector \in Text :
           \/ reply' = [kind |-> "not_found", selector |-> selector] /\ initCache' = initCache
           \/ /\ reply' = [kind |-> "ambiguous", selector |-> selector, candidates |-> Matches(selector)]
              /\ initCache' = initCache
           \/ \E target \in Matches(selector) : ReplayTo(target, selector)
    BY <1>2 DEF InitStateAtCommand
  <2>2. CASE \E target \in Matches(selector) : ReplayTo(target, selector)
    <3>1. Matches(selector) \subseteq Target
      <4>1. \A i \in DOMAIN transitions : transitions[i] \in Command
        BY DEF IInv, ParsedInv
      <4>2. \A i \in DOMAIN transitions : transitions[i].line \in Target
        BY <4>1, ReplayAssumption DEF Command, Target
      <4> QED
        BY <4>2 DEF Matches
    <3> QED
      BY <1>0, <2>2, <3>1, ReplayKeeps
  <2>3. CASE ~ \E target \in Matches(selector) : ReplayTo(target, selector)
    <3>1. initCache' = initCache /\ reply'.kind \in {"not_found", "ambiguous"}
      BY <2>1, <2>3
    <3> QED
      BY <1>0, <3>1, OtherwiseKeeps DEF IInv, CacheTyped
  <2> QED
    BY <2>2, <2>3
<1>3. CASE DropState
  <2>1. PICK l \in Target : initCache' = [initCache EXCEPT ![l] = None]
    BY <1>3 DEF DropState
  <2>2. CacheTyped' /\ \A m \in Target : initCache'[m] \in {initCache[m], None}
    BY <2>1 DEF IInv, CacheTyped
  <2>3. reply'.kind = "none"
    BY <1>3 DEF DropState, NoReply
  <2> QED
    BY <1>0, <2>2, <2>3, OtherwiseKeeps
<1>4. CASE DropAllStates
  <2>1. CacheTyped' /\ \A m \in Target : initCache'[m] \in {initCache[m], None}
    BY <1>4 DEF DropAllStates, CacheTyped
  <2>2. reply'.kind = "none"
    BY <1>4 DEF DropAllStates, NoReply
  <2> QED
    BY <1>0, <2>1, <2>2, OtherwiseKeeps
<1>5. CASE LoadTheory \/ ParseFails \/ EditFile \/ UNCHANGED vars
  <2>1. initCache' = initCache /\ (reply' = reply \/ reply'.kind \in {"none", "commands"})
    BY <1>5 DEF LoadTheory, ParseFails, EditFile, vars, NoReply
  <2> QED
    BY <1>0, <2>1, OtherwiseKeeps DEF IInv, CacheTyped
<1> QED
  BY <1>1, <1>2, <1>3, <1>4, <1>5 DEF Next

\* The initial states satisfy it.
LEMMA InitKeeps == Init => IInv
<1> SUFFICES ASSUME Init PROVE IInv
  OBVIOUS
<1>1. ParsedInv
  BY InitParsed
<1>2. CacheTyped /\ \A l \in Target : initCache[l] = None
  BY DEF Init, CacheTyped
<1>3. reply.kind = "none"
  BY DEF Init, NoReply
<1> QED
  BY <1>1, <1>2, <1>3 DEF IInv, CacheTransparent, FailureIsExact

-----------------------------------------------------------------------------
(* The theorems.                                                           *)

\* The invariant holds in every reachable state.
THEOREM Invariance == Spec => []IInv
<1>1. Init => IInv
  BY InitKeeps
<1>2. IInv /\ [Next]_vars => IInv'
  BY StepKeeps
<1> QED
  BY <1>1, <1>2, PTL DEF Spec

\* computeInitState's cache cannot be observed in a success: a checkpoint and a
\* response hold what a replay from the start reaches, whatever was asked, dropped or
\* edited before, for a theory and lines of any number.
THEOREM CacheIsTransparent == Spec => []CacheTransparent
<1>1. IInv => CacheTransparent
  BY DEF IInv
<1> QED
  BY <1>1, Invariance, PTL

\* computeInitState's failure, of either kind, names the line of a command before which
\* none raises, and has the state just before that command as its last success, from
\* whichever checkpoint the replay set out.
THEOREM FailuresAreExact == Spec => []FailureIsExact
<1>1. IInv => FailureIsExact
  BY DEF IInv
<1> QED
  BY <1>1, Invariance, PTL

\* theoryCache.computeIfAbsent: the commands a session works on are fixed by the first
\* call that parses them; no later edit of the file changes them.
THEOREM TheoryNeverChanges == Spec => [][transitions' = transitions]_vars
<1>1. IInv /\ [Next]_vars => [transitions' = transitions]_vars
  BY TheoryFixed DEF IInv
<1> QED
  BY <1>1, Invariance, PTL DEF Spec
=============================================================================

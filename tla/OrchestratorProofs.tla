------------------------- MODULE OrchestratorProofs -------------------------
(***************************************************************************)
(* The orchestrator's run, reviews and records are sound: for every policy *)
(* gate, every engine, any number of tasks and reviews, and any exception. *)
(***************************************************************************)
EXTENDS Orchestrator, SequenceTheorems, FiniteSetTheorems, TLAPS

Frame ==
    [reason : Reason, from : {"main", "caller", "placeholder", "apply"},
     kind : ArtifactKind \union {"none"}]

Top == Last(stack).reason       \* the review the innermost activation answers
Log == records[Task]            \* the records of the current task
Settled == Task \in appliedIds  \* its artifact is in the theory
Continuation == "continuation_policy_requires_review"
OfPlaceholder == "placeholder_policy_requires_review"
OfArtifact == {"policy_requires_review", "task_escalated_requires_review"}

\* What is recorded before an integration, see Vetted.
VettedLog(s) ==
    \A i \in 1 .. Len(s) : s[i] = "artifact" => SubSeq(s, 1, i - 1) \in Evidence

\* Provenance is the last record of its task, and what it concludes is before it.
ProvenLog(s) ==
    \A i \in 1 .. Len(s) : s[i] = "provenance" =>
        /\ i = Len(s) /\ i > 2
        /\ s[i - 1] \in {"continuation", "continuation_rerun"}
        /\ \E j \in 1 .. i - 2 : s[j] = "artifact"

\* An integrated artifact is concluded, or its continuation was refused, or the gate
\* raised when it was asked for it.
Concluded(t) == Contains(records[t], "provenance") \/ Last(records[t]) \in {"reject", "artifact"}

Proven == {t \in DOMAIN records : Contains(records[t], "provenance")}

\* The activation at a place of the stack, by who called it.
NestedAt(i) ==
    /\ stack[i].from \in {"main", "caller"} => i = 1
    /\ stack[i].from = "main" => stack[i].reason \in OfArtifact
    /\ stack[i].from = "placeholder" =>
          i = 2 /\ stack[i].reason = OfPlaceholder /\ stack[1].reason \in OfArtifact
    /\ stack[i].from = "apply" => stack[i].reason = Continuation
    /\ stack[i].reason = Continuation => i = Len(stack)

\* Activations of resume_from_review nest in one order: the review of the
\* artifact, of a placeholder asked for in it, of the continuation.
StackInv ==
    /\ pc \in {"out", "loop", "exit", "engine", "gate"} => stack = <<>>
    /\ pc \in {"hook", "validate", "placeholder", "accept", "return"} => stack # <<>>
    /\ \A i \in 1 .. Len(stack) : NestedAt(i)
    /\ \A i \in 1 .. Len(stack) : stack[i].reason = Continuation => Settled

\* A pending review is about the current task, which has not been integrated yet
\* unless the review is that of its continuation; the records say how it was opened.
PendingInv ==
    /\ ReviewPauses
    /\ pending # "none" => Task > 0
    /\ pending \in {"policy_requires_review", OfPlaceholder} =>
          res.kind # "none" /\ res.text # "none"
    /\ pending \notin {"none", Continuation} => ~ Settled
    /\ pending = Continuation =>
          Settled /\ ~ Contains(Log, "provenance")
    /\ pending \in OfArtifact => Log \in Opened
    /\ pending = "policy_requires_review" => Log = <<"task">> \o ToReview
    /\ pending = OfPlaceholder => Log \in {q \o ToReview : q \in Requested}

\* The artifact may be integrated now, or an inner activation was there first.
ReadyToApply ==
    \/ /\ ~ Settled /\ state = "ACTIVE"
       /\ res.kind # "none" /\ res.text # "none"
       /\ Log \in Evidence
    \/ Settled /\ stack # <<>> /\ (state = "ACTIVE" => Concluded(Task))

\* What holds at each place of the control.
PlaceInv ==
    /\ pc \notin {"out", "loop", "exit"} => Task > 0
    /\ pc \in {"engine", "gate", "validate", "placeholder"} => state = "ACTIVE" /\ ~ Settled
    /\ pc = "engine" => Log = <<>>
    /\ pc = "gate" => res.kind # "none" /\ res.text # "none" /\ Log = <<"task">>
    /\ pc \in {"validate", "placeholder"} => Top \in OfArtifact /\ ~ ret
    /\ pc = "validate" => Log \in {o \o <<"replacement">> : o \in Opened}
    /\ pc = "placeholder" => Log \in Requested
    /\ pc = "hook" => state = "AWAITING_REVIEW" /\ pending = Top
    /\ pc = "accept" =>
          IF Top = Continuation
          THEN state = "ACTIVE" /\ ~ Contains(Log, "provenance")
          ELSE ReadyToApply
    /\ pc = "apply" => ReadyToApply /\ (stack # <<>> => Top # Continuation)
    /\ pc = "continuation" =>
          /\ state = "ACTIVE" /\ Settled /\ ~ Contains(Log, "provenance")
          /\ Last(Log) = "artifact"
          /\ stack # <<>> => Top # Continuation
    /\ pc = "return" /\ ret => Settled
    /\ pc \in {"out", "loop", "exit", "return"} /\ state = "ACTIVE" /\ Settled => Concluded(Task)
    /\ \A t \in appliedIds : t # Task => Concluded(t)

\* The records tell what was integrated and what was concluded.
LedgerInv ==
    /\ \A t \in DOMAIN records : VettedLog(records[t]) /\ ProvenLog(records[t])
    /\ Proven \subseteq appliedIds
    /\ \A t \in appliedIds : Contains(records[t], "artifact")
    /\ accepted = Cardinality(Proven)

\* The artifacts are integrated one per task, that of the current task last.
BooksInv ==
    /\ \A i \in DOMAIN applied : applied[i].task \in appliedIds
    /\ AppliedOnce
    /\ Settled => applied # <<>> /\ Last(applied).task = Task

IInv == TypeOK /\ StackInv /\ PendingInv /\ PlaceInv /\ BooksInv /\ LedgerInv /\ StopIsExplained
-----------------------------------------------------------------------------
(* Sequences                                                               *)

\* What a sequence followed by another contains, and where.
LEMMA Joined ==
    ASSUME NEW S, NEW s \in Seq(S), NEW t \in Seq(S), t # <<>>
    PROVE  /\ s \o t \in Seq(S) /\ s \o t # <<>>
           /\ Len(s \o t) = Len(s) + Len(t)
           /\ Last(s \o t) = Last(t)
           /\ \A i \in 1 .. Len(s) : (s \o t)[i] = s[i]
           /\ \A i \in Len(s) + 1 .. Len(s) + Len(t) : (s \o t)[i] = t[i - Len(s)]
           /\ \A k : Contains(s \o t, k) <=> Contains(s, k) \/ Contains(t, k)
<1>1. Len(s) \in Nat /\ Len(t) \in Nat /\ Len(t) > 0
  OBVIOUS
<1>2. /\ s \o t \in Seq(S)
      /\ Len(s \o t) = Len(s) + Len(t)
      /\ \A i \in 1 .. Len(s) : (s \o t)[i] = s[i]
      /\ \A i \in Len(s) + 1 .. Len(s) + Len(t) : (s \o t)[i] = t[i - Len(s)]
  BY ConcatProperties
<1>3. s \o t # <<>>
  BY <1>1, <1>2
<1>4. Last(s \o t) = Last(t)
  BY <1>1, <1>2 DEF Last
<1>5. ASSUME NEW k PROVE Contains(s \o t, k) <=> Contains(s, k) \/ Contains(t, k)
  <2>1. ASSUME Contains(s \o t, k) PROVE Contains(s, k) \/ Contains(t, k)
    <3>1. PICK i \in 1 .. Len(s) + Len(t) : (s \o t)[i] = k
      BY <2>1, <1>2 DEF Contains
    <3>2. CASE i \in 1 .. Len(s)
      BY <3>1, <3>2, <1>2 DEF Contains
    <3>3. CASE i \notin 1 .. Len(s)
      <4>1. i - Len(s) \in 1 .. Len(t) /\ t[i - Len(s)] = k
        BY <3>1, <3>3, <1>1, <1>2
      <4> QED
        BY <4>1 DEF Contains
    <3> QED
      BY <3>2, <3>3
  <2>2. ASSUME Contains(s, k) PROVE Contains(s \o t, k)
    BY <2>2, <1>1, <1>2 DEF Contains
  <2>3. ASSUME Contains(t, k) PROVE Contains(s \o t, k)
    <3>1. PICK i \in 1 .. Len(t) : t[i] = k
      BY <2>3 DEF Contains
    <3>2. /\ i + Len(s) \in Len(s) + 1 .. Len(s) + Len(t)
          /\ i + Len(s) \in 1 .. Len(s) + Len(t)
          /\ (i + Len(s)) - Len(s) = i
      BY <3>1, <1>1
    <3> QED
      BY <3>1, <3>2, <1>2 DEF Contains
  <2> QED
    BY <2>1, <2>2, <2>3
<1> QED
  BY <1>2, <1>3, <1>4, <1>5

\* One frame more on the stack.
LEMMA Pushed ==
    ASSUME NEW S, NEW s \in Seq(S), NEW f \in S
    PROVE  /\ Append(s, f) \in Seq(S) /\ Append(s, f) # <<>>
           /\ Len(Append(s, f)) = Len(s) + 1
           /\ Last(Append(s, f)) = f /\ Append(s, f)[Len(s) + 1] = f
           /\ \A i \in 1 .. Len(s) : Append(s, f)[i] = s[i]
<1>1. /\ Append(s, f) \in Seq(S) /\ Len(Append(s, f)) = Len(s) + 1
      /\ \A i \in 1 .. Len(s) : Append(s, f)[i] = s[i]
      /\ Append(s, f)[Len(s) + 1] = f
  BY AppendProperties
<1> QED
  BY <1>1 DEF Last

\* One frame less on the stack.
LEMMA Popped ==
    ASSUME NEW S, NEW s \in Seq(S), s # <<>>
    PROVE  /\ Front(s) \in Seq(S)
           /\ Len(Front(s)) = Len(s) - 1
           /\ \A i \in 1 .. Len(s) - 1 : Front(s)[i] = s[i]
           /\ Last(s) \in S /\ Last(s) = s[Len(s)] /\ Len(s) \in Nat \ {0}
<1>1. Len(s) \in Nat /\ Len(s) > 0
  OBVIOUS
<1>2. /\ Front(s) \in Seq(S)
      /\ Len(Front(s)) = Len(s) - 1
      /\ \A i \in 1 .. Len(s) - 1 : Front(s)[i] = s[i]
  <2>1. \A i \in 1 .. Len(s) - 1 : s[i] \in S
    BY <1>1, ElementOfSeq
  <2>2. Len(s) - 1 \in Int /\ 1 \in Int
    BY <1>1
  <2> DEFINE n == Len(s) - 1
  <2>3. /\ SubSeq(s, 1, n) \in Seq(S)
        /\ Len(SubSeq(s, 1, n)) = IF 1 <= n THEN n - 1 + 1 ELSE 0
        /\ \A i \in 1 .. n - 1 + 1 : SubSeq(s, 1, n)[i] = s[1 + i - 1]
    BY <2>1, <2>2, SubSeqProperties
  <2>4. n \in Nat /\ n - 1 + 1 = n
    BY <1>1
  <2>5. \A i \in 1 .. n : 1 + i - 1 = i
    BY <2>4
  <2> QED
    BY <2>3, <2>4, <2>5 DEF Front
<1>3. Last(s) = s[Len(s)] /\ Len(s) \in 1 .. Len(s)
  BY <1>1 DEF Last
<1>4. s[Len(s)] \in S
  BY <1>3, ElementOfSeq
<1> QED
  BY <1>1, <1>2, <1>3, <1>4

\* Records without an artifact or a provenance among them.
Plain(s) ==
    /\ s \in Seq(RecordKind) /\ s # <<>>
    /\ ~ Contains(s, "artifact") /\ ~ Contains(s, "provenance")

\* The records the reviews and the gate write.
LEMMA PlainRecords ==
    ASSUME NEW a \in RecordKind \ {"artifact", "provenance"},
           NEW b \in RecordKind \ {"artifact", "provenance"}
    PROVE  /\ Plain(<<a>>) /\ Last(<<a>>) = a
           /\ Plain(<<a, b>>) /\ Last(<<a, b>>) = b
           /\ Append(<<a>>, b) = <<a, b>>
<1>1. <<a>> \in Seq(RecordKind) /\ Len(<<a>>) = 1 /\ <<a>>[1] = a
  OBVIOUS
<1>2. /\ <<a, b>> \in Seq(RecordKind) /\ Len(<<a, b>>) = 2
      /\ <<a, b>>[1] = a /\ <<a, b>>[2] = b
  OBVIOUS
<1>3. Append(<<a>>, b) = <<a, b>>
  <2>1. /\ Append(<<a>>, b) \in Seq(RecordKind) /\ Len(Append(<<a>>, b)) = 2
        /\ Append(<<a>>, b)[1] = a /\ Append(<<a>>, b)[2] = b
    BY <1>1, Pushed
  <2>2. \A i \in 1 .. 2 : Append(<<a>>, b)[i] = <<a, b>>[i]
    BY <2>1, <1>2
  <2> QED
    BY <2>1, <2>2, <1>2, SeqEqual
<1>4. 1 .. 1 = {1} /\ 1 .. 2 = {1, 2}
  OBVIOUS
<1>5. Plain(<<a>>)
  BY <1>1, <1>4 DEF Plain, Contains
<1>6. Plain(<<a, b>>)
  BY <1>2, <1>4 DEF Plain, Contains
<1> QED
  BY <1>1, <1>2, <1>3, <1>5, <1>6 DEF Last

\* The first elements of a sequence are those of its prolongation, and all of them the
\* sequence itself.
LEMMA PrefixStays ==
    ASSUME NEW S, NEW s \in Seq(S), NEW t \in Seq(S), t # <<>>, NEW n \in 0 .. Len(s)
    PROVE  SubSeq(s \o t, 1, n) = SubSeq(s, 1, n) /\ SubSeq(s, 1, Len(s)) = s
<1>1. /\ Len(s) \in Nat /\ Len(t) \in Nat /\ Len(s \o t) = Len(s) + Len(t) /\ s \o t \in Seq(S)
      /\ \A j \in 1 .. Len(s) : (s \o t)[j] = s[j]
  BY Joined
<1>2. \A j \in 1 .. n : s[j] \in S /\ (s \o t)[j] = s[j]
  BY <1>1, ElementOfSeq
<1>3. 1 \in Int /\ n \in Int /\ n - 1 + 1 = n /\ n \in Nat /\ \A j \in 1 .. n : 1 + j - 1 = j
  BY <1>1
<1>4. /\ SubSeq(s, 1, n) \in Seq(S) /\ Len(SubSeq(s, 1, n)) = n
      /\ \A j \in 1 .. n : SubSeq(s, 1, n)[j] = s[j]
  <2>1. /\ SubSeq(s, 1, n) \in Seq(S)
        /\ Len(SubSeq(s, 1, n)) = IF 1 <= n THEN n - 1 + 1 ELSE 0
        /\ \A j \in 1 .. n - 1 + 1 : SubSeq(s, 1, n)[j] = s[1 + j - 1]
    BY <1>2, <1>3, SubSeqProperties
  <2> QED
    BY <2>1, <1>3
<1>5. /\ SubSeq(s \o t, 1, n) \in Seq(S) /\ Len(SubSeq(s \o t, 1, n)) = n
      /\ \A j \in 1 .. n : SubSeq(s \o t, 1, n)[j] = (s \o t)[j]
  <2> DEFINE u == s \o t
  <2>0. \A j \in 1 .. n : u[j] \in S
    BY <1>2
  <2> HIDE DEF u
  <2>1. /\ SubSeq(u, 1, n) \in Seq(S)
        /\ Len(SubSeq(u, 1, n)) = IF 1 <= n THEN n - 1 + 1 ELSE 0
        /\ \A j \in 1 .. n - 1 + 1 : SubSeq(u, 1, n)[j] = u[1 + j - 1]
    BY <2>0, <1>3, SubSeqProperties
  <2>2. /\ SubSeq(u, 1, n) \in Seq(S) /\ Len(SubSeq(u, 1, n)) = n
        /\ \A j \in 1 .. n : SubSeq(u, 1, n)[j] = u[j]
    BY <2>1, <1>3
  <2> QED
    BY <2>2 DEF u
<1>6. SubSeq(s \o t, 1, n) = SubSeq(s, 1, n)
  BY <1>2, <1>4, <1>5, SeqEqual
<1>7. SubSeq(s, 1, Len(s)) = s
  <2>1. \A j \in 1 .. Len(s) : s[j] \in S
    BY <1>1, ElementOfSeq
  <2> DEFINE m == Len(s)
  <2>2. 1 \in Int /\ m \in Int /\ m - 1 + 1 = m /\ m \in Nat /\ \A j \in 1 .. m : 1 + j - 1 = j
    BY <1>1
  <2>3. m = Len(s)
    OBVIOUS
  <2> HIDE DEF m
  <2>4. /\ SubSeq(s, 1, m) \in Seq(S)
        /\ Len(SubSeq(s, 1, m)) = IF 1 <= m THEN m - 1 + 1 ELSE 0
        /\ \A j \in 1 .. m - 1 + 1 : SubSeq(s, 1, m)[j] = s[1 + j - 1]
    BY <2>1, <2>2, <2>3, SubSeqProperties
  <2>5. Len(SubSeq(s, 1, m)) = m /\ \A j \in 1 .. m : SubSeq(s, 1, m)[j] = s[j]
    BY <2>2, <2>4
  <2> QED
    BY <2>3, <2>4, <2>5, SeqEqual
<1> QED
  BY <1>6, <1>7

\* A log stays vetted when an artifact is added only right after its evidence.
LEMMA VettedJoined ==
    ASSUME NEW S, NEW s \in Seq(S), NEW t \in Seq(S), t # <<>>, VettedLog(s),
           \A i \in 1 .. Len(t) : t[i] = "artifact" => i = 1 /\ s \in Evidence
    PROVE  VettedLog(s \o t)
<1> SUFFICES ASSUME NEW i \in 1 .. Len(s \o t), (s \o t)[i] = "artifact"
             PROVE  SubSeq(s \o t, 1, i - 1) \in Evidence
  BY DEF VettedLog
<1>1. /\ Len(s) \in Nat /\ Len(t) \in Nat /\ Len(s \o t) = Len(s) + Len(t)
      /\ \A j \in 1 .. Len(s) : (s \o t)[j] = s[j]
      /\ \A j \in Len(s) + 1 .. Len(s) + Len(t) : (s \o t)[j] = t[j - Len(s)]
  BY Joined
<1>2. CASE i \in 1 .. Len(s)
  <2>1. SubSeq(s, 1, i - 1) \in Evidence
    BY <1>1, <1>2 DEF VettedLog
  <2>2. i - 1 \in 0 .. Len(s)
    BY <1>1, <1>2
  <2> QED
    BY <2>1, <2>2, PrefixStays
<1>3. CASE i \notin 1 .. Len(s)
  <2>1. i - Len(s) \in 1 .. Len(t) /\ t[i - Len(s)] = "artifact"
    BY <1>1, <1>3
  <2>2. i - Len(s) = 1 /\ s \in Evidence
    BY <2>1
  <2>3. i - 1 = Len(s) /\ Len(s) \in 0 .. Len(s)
    BY <2>2, <1>1
  <2>4. SubSeq(s \o t, 1, Len(s)) = s
    BY <2>3, PrefixStays
  <2> QED
    BY <2>2, <2>3, <2>4
<1> QED
  BY <1>2, <1>3

\* A log stays proven when a provenance is added only at its end, after a
\* continuation and, before that, an artifact.
LEMMA ProvenJoined ==
    ASSUME NEW S, NEW s \in Seq(S), NEW t \in Seq(S), t # <<>>, ~ Contains(s, "provenance"),
           \A i \in 1 .. Len(t) : t[i] = "provenance" =>
               /\ i = Len(t) /\ i > 1 /\ t[i - 1] \in {"continuation", "continuation_rerun"}
               /\ Contains(s, "artifact") \/ (i > 2 /\ t[1] = "artifact")
    PROVE  ProvenLog(s \o t)
<1> SUFFICES ASSUME NEW i \in 1 .. Len(s \o t), (s \o t)[i] = "provenance"
             PROVE  /\ i = Len(s \o t) /\ i > 2
                    /\ (s \o t)[i - 1] \in {"continuation", "continuation_rerun"}
                    /\ \E j \in 1 .. i - 2 : (s \o t)[j] = "artifact"
  BY DEF ProvenLog
<1>1. /\ Len(s) \in Nat /\ Len(t) \in Nat /\ Len(s \o t) = Len(s) + Len(t)
      /\ \A j \in 1 .. Len(s) : (s \o t)[j] = s[j]
      /\ \A j \in Len(s) + 1 .. Len(s) + Len(t) : (s \o t)[j] = t[j - Len(s)]
  BY Joined
<1>2. i \notin 1 .. Len(s)
  BY <1>1 DEF Contains
<1> DEFINE m == i - Len(s)
<1>3. m \in 1 .. Len(t) /\ t[m] = "provenance" /\ i = m + Len(s)
  BY <1>1, <1>2
<1> HIDE DEF m
<1>4. /\ m = Len(t) /\ m > 1 /\ t[m - 1] \in {"continuation", "continuation_rerun"}
      /\ Contains(s, "artifact") \/ (m > 2 /\ t[1] = "artifact")
  BY <1>3
<1>5. i = Len(s \o t) /\ i - 1 \in Len(s) + 1 .. Len(s) + Len(t) /\ (i - 1) - Len(s) = m - 1
  BY <1>1, <1>3, <1>4
<1>6. (s \o t)[i - 1] \in {"continuation", "continuation_rerun"}
  BY <1>1, <1>4, <1>5
<1>7. CASE Contains(s, "artifact")
  <2>1. PICK j \in 1 .. Len(s) : s[j] = "artifact"
    BY <1>7 DEF Contains
  <2>2. j \in 1 .. i - 2 /\ i > 2 /\ (s \o t)[j] = "artifact"
    BY <2>1, <1>1, <1>3, <1>4
  <2> QED
    BY <2>2, <1>5, <1>6
<1>8. CASE m > 2 /\ t[1] = "artifact"
  <2>1. /\ Len(s) + 1 \in Len(s) + 1 .. Len(s) + Len(t) /\ Len(s) + 1 - Len(s) = 1
        /\ Len(s) + 1 \in 1 .. i - 2 /\ i > 2
    BY <1>8, <1>1, <1>3
  <2>2. (s \o t)[Len(s) + 1] = "artifact"
    BY <2>1, <1>1, <1>8
  <2> QED
    BY <2>1, <2>2, <1>5, <1>6
<1> QED
  BY <1>4, <1>7, <1>8

\* What is recorded about the current task changes its log and no other.
LEMMA Recorded ==
    ASSUME records \in Seq(Seq(RecordKind)), Task > 0, NEW t \in Seq(RecordKind), t # <<>>,
           Record(t)
    PROVE  /\ records' \in Seq(Seq(RecordKind)) /\ Task' = Task
           /\ Task \in 1 .. Task /\ DOMAIN records = 1 .. Task /\ DOMAIN records' = 1 .. Task
           /\ Log \in Seq(RecordKind) /\ Log' = Log \o t
           /\ \A u \in 1 .. Task : u # Task => records'[u] = records[u]
           /\ Log' # <<>> /\ Last(Log') = Last(t)
           /\ \A k : Contains(Log', k) <=> Contains(Log, k) \/ Contains(t, k)
<1>1. Task \in Nat /\ Task \in 1 .. Task /\ DOMAIN records = 1 .. Task
  BY DEF Task
<1>2. Log \in Seq(RecordKind)
  BY <1>1, ElementOfSeq DEF Log, Task
<1>3. Log \o t \in Seq(RecordKind)
  BY <1>2, Joined
<1>4. records' = [records EXCEPT ![Task] = Log \o t]
  BY DEF Record, Log
<1>5. /\ records' \in Seq(Seq(RecordKind)) /\ Len(records') = Len(records)
      /\ \A u \in 1 .. Len(records) : records'[u] = IF u = Task THEN Log \o t ELSE records[u]
  BY <1>1, <1>3, <1>4, ExceptSeq DEF Task
<1>6. Task' = Task /\ Log' = Log \o t
  BY <1>1, <1>5 DEF Task, Log
<1>7. DOMAIN records' = 1 .. Task
  BY <1>5 DEF Task
<1>8. /\ Log' # <<>> /\ Last(Log') = Last(t)
      /\ \A k : Contains(Log', k) <=> Contains(Log, k) \/ Contains(t, k)
  BY <1>2, <1>6, Joined
<1> QED
  BY <1>1, <1>2, <1>5, <1>6, <1>7, <1>8 DEF Task

\* The records of an artifact and of a concluded continuation.
LEMMA FinalRecords ==
    ASSUME NEW c \in {"continuation", "continuation_rerun"},
           NEW before \in {<<>>, <<"artifact">>, <<"policy_allow">>},
           NEW t, t = before \o <<c, "provenance">>
    PROVE  /\ t \in Seq(RecordKind) /\ t # <<>> /\ Last(t) = "provenance"
           /\ Contains(t, "provenance")
           /\ Contains(t, "artifact") <=> before = <<"artifact">>
           /\ \A i \in 1 .. Len(t) : t[i] = "artifact" => i = 1 /\ before = <<"artifact">>
           /\ \A i \in 1 .. Len(t) : t[i] = "provenance" =>
                 /\ i = Len(t) /\ i > 1 /\ t[i - 1] \in {"continuation", "continuation_rerun"}
                 /\ before = <<"artifact">> => i > 2 /\ t[1] = "artifact"
<1>0. <<c, "provenance">> \in Seq(RecordKind)
  BY DEF RecordKind
<1>1. CASE before = <<>>
  <2>1. t = <<c, "provenance">>
    BY <1>0, <1>1, ConcatEmptySeq
  <2>2. t \in Seq(RecordKind) /\ Len(t) = 2 /\ t[1] = c /\ t[2] = "provenance"
    <3>1. /\ Len(<<c, "provenance">>) = 2
          /\ <<c, "provenance">>[1] = c /\ <<c, "provenance">>[2] = "provenance"
      OBVIOUS
    <3> QED
      BY <1>0, <2>1, <3>1
  <2>3. \A i \in 1 .. 2 : i = 1 \/ i = 2
    OBVIOUS
  <2>4. <<>> # <<"artifact">>
    OBVIOUS
  <2> QED
    BY <1>1, <2>2, <2>3, <2>4 DEF Contains, Last
<1>2. ASSUME NEW b \in {"artifact", "policy_allow"}, before = <<b>>
      PROVE  /\ t \in Seq(RecordKind) /\ Len(t) = 3
             /\ t[1] = b /\ t[2] = c /\ t[3] = "provenance"
  <2>1. <<b>> \in Seq(RecordKind) /\ Len(<<b>>) = 1 /\ <<b>>[1] = b
    BY DEF RecordKind
  <2>2. Len(<<c, "provenance">>) = 2
    OBVIOUS
  <2>3. /\ t \in Seq(RecordKind) /\ Len(t) = 1 + 2
        /\ \A i \in 1 .. 1 : t[i] = <<b>>[i]
        /\ \A i \in 1 + 1 .. 1 + 2 : t[i] = <<c, "provenance">>[i - 1]
    BY <1>0, <1>2, <2>1, <2>2, ConcatProperties
  <2> QED
    BY <2>1, <2>3
<1>3. \A i \in 1 .. 3 : i = 1 \/ i = 2 \/ i = 3
  OBVIOUS
<1>4. <<"artifact">>[1] = "artifact" /\ <<"policy_allow">>[1] = "policy_allow"
  OBVIOUS
<1>5. <<"artifact">> # <<"policy_allow">>
  BY <1>4
<1>6. CASE before = <<"artifact">>
  BY <1>2, <1>3, <1>6 DEF Contains, Last
<1>7. CASE before = <<"policy_allow">>
  BY <1>2, <1>3, <1>5, <1>7 DEF Contains, Last
<1> QED
  BY <1>1, <1>6, <1>7

\* Records about a task that is not concluded, none of them an artifact or a
\* provenance, leave the ledger right.
LEMMA PlainLedger ==
    ASSUME TypeOK, LedgerInv, Task > 0, ~ Contains(Log, "provenance"),
           NEW t, Plain(t), Record(t), UNCHANGED bookVars
    PROVE  LedgerInv'
<1>1. /\ Task' = Task /\ Task \in 1 .. Task
      /\ DOMAIN records = 1 .. Task /\ DOMAIN records' = 1 .. Task
      /\ Log \in Seq(RecordKind) /\ records'[Task] = Log \o t
      /\ \A u \in 1 .. Task : u # Task => records'[u] = records[u]
      /\ \A k : Contains(records'[Task], k) <=> Contains(Log, k) \/ Contains(t, k)
  BY Recorded DEF TypeOK, Plain, Log
<1>2. VettedLog(Log \o t)
  BY <1>1, VettedJoined DEF LedgerInv, Plain, Contains, Log
<1>3. ProvenLog(Log \o t)
  BY <1>1, ProvenJoined DEF Plain, Contains
<1>4. \A u \in 1 .. Task : VettedLog(records'[u]) /\ ProvenLog(records'[u])
  BY <1>1, <1>2, <1>3 DEF LedgerInv
<1>5. \A u \in 1 .. Task, k \in {"artifact", "provenance"} :
          Contains(records'[u], k) <=> Contains(records[u], k)
  BY <1>1 DEF Plain, Log
<1>6. Proven' = Proven
  BY <1>1, <1>5 DEF Proven
<1>7. \A u \in appliedIds : Contains(records'[u], "artifact")
  BY <1>5 DEF LedgerInv, TypeOK
<1> QED
  BY <1>1, <1>4, <1>6, <1>7 DEF LedgerInv, bookVars

\* An artifact is recorded with its integration, right after its evidence.
LEMMA ArtifactLedger ==
    ASSUME TypeOK, LedgerInv, Task > 0, ~ Settled, Log \in Evidence,
           Record(<<"artifact">>), appliedIds' = appliedIds \union {Task}, accepted' = accepted
    PROVE  LedgerInv' /\ ~ Contains(Log, "provenance") /\ ~ Contains(Log', "provenance")
<1> DEFINE t == <<"artifact">>
<1>0. t \in Seq(RecordKind) /\ Len(t) = 1 /\ t[1] = "artifact" /\ t # <<>>
  BY DEF RecordKind
<1>a. Contains(t, "artifact") /\ ~ Contains(t, "provenance")
  BY <1>0 DEF Contains
<1>b. Record(t)
  OBVIOUS
<1> HIDE DEF t
<1>1. /\ Task' = Task /\ Task \in 1 .. Task
      /\ DOMAIN records = 1 .. Task /\ DOMAIN records' = 1 .. Task
      /\ Log \in Seq(RecordKind) /\ records'[Task] = Log \o t
      /\ \A u \in 1 .. Task : u # Task => records'[u] = records[u]
      /\ \A k : Contains(records'[Task], k) <=> Contains(Log, k) \/ Contains(t, k)
  BY <1>0, <1>b, Recorded DEF TypeOK, Log
<1>2. ~ Contains(Log, "provenance")
  BY <1>1 DEF LedgerInv, Proven, Settled, Log
<1>3. VettedLog(Log \o t)
  BY <1>0, <1>1, VettedJoined DEF LedgerInv, Log
<1>4. ProvenLog(Log \o t)
  BY <1>0, <1>1, <1>2, ProvenJoined
<1>5. \A u \in 1 .. Task : VettedLog(records'[u]) /\ ProvenLog(records'[u])
  BY <1>1, <1>3, <1>4 DEF LedgerInv
<1>6. \A u \in 1 .. Task : Contains(records'[u], "provenance") <=> Contains(records[u], "provenance")
  BY <1>1, <1>a DEF Log
<1>7. Proven' = Proven
  BY <1>1, <1>6 DEF Proven
<1>8. \A u \in appliedIds' : Contains(records'[u], "artifact")
  BY <1>1, <1>a DEF LedgerInv, TypeOK
<1>9. ~ Contains(Log', "provenance")
  BY <1>1, <1>2, <1>a DEF Log
<1> QED
  BY <1>1, <1>2, <1>5, <1>7, <1>8, <1>9 DEF LedgerInv

\* _finalize_accepted_continuation counts one acceptance and proves it, for an
\* artifact integrated before or with it.
LEMMA FinalLedger ==
    ASSUME TypeOK, LedgerInv, Task > 0, ~ Contains(Log, "provenance"),
           NEW before, Finalize(before),
           \/ /\ before = <<"artifact">> /\ Log \in Evidence
              /\ appliedIds' = appliedIds \union {Task}
           \/ before \in {<<>>, <<"policy_allow">>} /\ Settled /\ UNCHANGED appliedIds
    PROVE  /\ LedgerInv' /\ Task' = Task /\ records' \in Seq(Seq(RecordKind))
           /\ Log' # <<>> /\ Last(Log') = "provenance" /\ Contains(Log', "provenance")
           /\ \A u \in 1 .. Task : u # Task => records'[u] = records[u]
<1> DEFINE c == IF res.rerun THEN "continuation_rerun" ELSE "continuation"
           t == before \o <<c, "provenance">>
<1>0. Record(t) /\ accepted' = accepted + 1
  BY DEF Finalize
<1>a. c \in {"continuation", "continuation_rerun"}
  OBVIOUS
<1> HIDE DEF c
<1>b. /\ t \in Seq(RecordKind) /\ t # <<>> /\ Last(t) = "provenance" /\ Contains(t, "provenance")
      /\ Contains(t, "artifact") <=> before = <<"artifact">>
      /\ \A i \in 1 .. Len(t) : t[i] = "artifact" => i = 1 /\ before = <<"artifact">>
      /\ \A i \in 1 .. Len(t) : t[i] = "provenance" =>
            /\ i = Len(t) /\ i > 1 /\ t[i - 1] \in {"continuation", "continuation_rerun"}
            /\ before = <<"artifact">> => i > 2 /\ t[1] = "artifact"
  BY <1>a, FinalRecords, ZenonT(60)
<1> HIDE DEF t
<1>1. /\ Task' = Task /\ Task \in 1 .. Task /\ records' \in Seq(Seq(RecordKind))
      /\ DOMAIN records = 1 .. Task /\ DOMAIN records' = 1 .. Task
      /\ Log \in Seq(RecordKind) /\ records'[Task] = Log \o t
      /\ \A u \in 1 .. Task : u # Task => records'[u] = records[u]
      /\ Log' # <<>> /\ Last(Log') = Last(t) /\ Log' = records'[Task]
      /\ \A k : Contains(records'[Task], k) <=> Contains(Log, k) \/ Contains(t, k)
  BY <1>0, <1>b, Recorded DEF TypeOK, Log
<1>c. <<>> # <<"artifact">> /\ <<"policy_allow">> # <<"artifact">>
  <2>1. <<"artifact">>[1] # <<"policy_allow">>[1]
    OBVIOUS
  <2>2. Len(<<>>) # Len(<<"artifact">>)
    OBVIOUS
  <2> QED
    BY <2>1, <2>2
<1>2. before # <<"artifact">> => Contains(Log, "artifact")
  BY <1>c DEF LedgerInv, Settled, Log
<1>3. VettedLog(Log \o t)
  BY <1>b, <1>1, <1>c, VettedJoined DEF LedgerInv, Log
<1>4. ProvenLog(Log \o t)
  BY <1>b, <1>1, <1>2, ProvenJoined
<1>5. \A u \in 1 .. Task : VettedLog(records'[u]) /\ ProvenLog(records'[u])
  BY <1>1, <1>3, <1>4 DEF LedgerInv
<1>6. Task \notin Proven /\ Proven' = Proven \union {Task}
  BY <1>1, <1>b DEF Proven, Log
<1>7. IsFiniteSet(Proven)
  <2>1. Proven \in SUBSET (1 .. Task) /\ Task \in Int
    BY <1>1 DEF Proven, TypeOK
  <2>2. IsFiniteSet(1 .. Task)
    BY <2>1, FS_Interval
  <2> QED
    BY <2>1, <2>2, FS_Subset
<1>8. accepted' = Cardinality(Proven')
  BY <1>0, <1>6, <1>7, FS_AddElement DEF LedgerInv
<1>9. Proven' \subseteq appliedIds'
  BY <1>6 DEF LedgerInv, Settled
<1>10. \A u \in appliedIds' : Contains(records'[u], "artifact")
  BY <1>1, <1>2, <1>b, <1>c DEF LedgerInv, TypeOK, Log
<1>11. LedgerInv'
  BY <1>1, <1>5, <1>8, <1>9, <1>10 DEF LedgerInv
<1> QED
  BY <1>1, <1>11, <1>b

\* The integration of the current task's artifact is the first, and the last so far.
LEMMA BooksGrow ==
    ASSUME TypeOK, BooksInv, Task > 0, ~ Settled, Task' = Task, NEW kind \in ArtifactKind,
           NEW text \in {"block", "candidate", "replacement"},
           applied' = Append(applied, [task |-> Task, kind |-> kind, text |-> text]),
           appliedIds' = appliedIds \union {Task}
    PROVE  /\ BooksInv'
           /\ applied' \in Seq([task : Nat, kind : ArtifactKind,
                                text : {"block", "candidate", "replacement"}])
<1> DEFINE E == [task : Nat, kind : ArtifactKind, text : {"block", "candidate", "replacement"}]
           e == [task |-> Task, kind |-> kind, text |-> text]
<1>1. Task \in Nat /\ e \in E /\ e.task = Task /\ applied \in Seq(E)
  BY DEF TypeOK, Task
<1>a. applied' = Append(applied, e)
  OBVIOUS
<1> HIDE DEF E, e
<1>2. /\ applied' \in Seq(E) /\ applied' # <<>> /\ Len(applied') = Len(applied) + 1
      /\ Last(applied') = e /\ applied'[Len(applied) + 1] = e
      /\ \A i \in 1 .. Len(applied) : applied'[i] = applied[i]
  BY <1>1, <1>a, Pushed
<1>3. /\ Len(applied) \in Nat /\ DOMAIN applied = 1 .. Len(applied)
      /\ DOMAIN applied' = 1 .. Len(applied) + 1
  BY <1>1, <1>2
<1>4. \A i \in 1 .. Len(applied) : applied[i].task \in appliedIds /\ applied[i].task < Task
  <2>1. \A u \in appliedIds : u \in 1 .. Task /\ u # Task
    BY DEF TypeOK, Settled
  <2>2. \A u \in appliedIds : u < Task
    BY <2>1, <1>1
  <2> QED
    BY <2>2, <1>3 DEF BooksInv
<1>5. \A i \in DOMAIN applied' : applied'[i].task \in appliedIds'
  BY <1>1, <1>2, <1>3, <1>4
<1>6. AppliedOnce'
  BY <1>1, <1>2, <1>3, <1>4 DEF BooksInv, AppliedOnce
<1>7. Settled' => applied' # <<>> /\ Last(applied').task = Task'
  BY <1>1, <1>2
<1> QED
  BY <1>2, <1>5, <1>6, <1>7 DEF BooksInv, E

-----------------------------------------------------------------------------
(* The steps                                                               *)

\* The innermost activation, and how deep it can be for the review it answers.
LEMMA Innermost ==
    ASSUME IInv, stack # <<>>
    PROVE  /\ Len(stack) \in 1 .. 3 /\ Last(stack) = stack[Len(stack)] /\ Last(stack) \in Frame
           /\ Top \in OfArtifact => Len(stack) = 1 /\ Last(stack).from \in {"main", "caller"}
           /\ Top # Continuation => Len(stack) <= 2
<1>1. stack \in Seq(Frame) /\ Len(stack) <= 3
  BY DEF IInv, TypeOK, Frame
<1>2. Len(stack) \in 1 .. 3 /\ Last(stack) = stack[Len(stack)] /\ Last(stack) \in Frame
  <2>1. Last(stack) \in Frame /\ Last(stack) = stack[Len(stack)] /\ Len(stack) \in Nat \ {0}
    BY <1>1, Popped
  <2>2. \A n \in Nat \ {0} : n <= 3 => n \in 1 .. 3
    OBVIOUS
  <2>3. Len(stack) \in 1 .. 3
    BY <1>1, <2>1, <2>2
  <2> QED
    BY <2>1, <2>3
<1>3. NestedAt(Len(stack))
  BY <1>2 DEF IInv, StackInv
<1>4. Last(stack).from \in {"main", "caller", "placeholder", "apply"}
  BY <1>2 DEF Frame
<1>5. Top \in OfArtifact => Len(stack) = 1 /\ Last(stack).from \in {"main", "caller"}
  BY <1>2, <1>3, <1>4 DEF NestedAt, Top, OfArtifact, Continuation, OfPlaceholder
<1>6. Top # Continuation => Len(stack) <= 2
  BY <1>2, <1>3, <1>4 DEF NestedAt, Top, OfArtifact, Continuation, OfPlaceholder
<1> QED
  BY <1>2, <1>5, <1>6

\* A step that records and integrates nothing.
LEMMA Kept ==
    ASSUME IInv, UNCHANGED <<records, bookVars>>
    PROVE  /\ BooksInv' /\ LedgerInv'
           /\ UNCHANGED <<Task, records, applied, appliedIds, accepted>>
           /\ Log' = Log /\ (Settled' <=> Settled)
<1>1. Task' = Task
  BY DEF Task
<1>2. LedgerInv'
  BY <1>1 DEF IInv, LedgerInv, Proven, bookVars
<1>3. BooksInv'
  BY <1>1 DEF IInv, BooksInv, AppliedOnce, Settled, bookVars
<1> QED
  BY <1>1, <1>2, <1>3 DEF Log, Settled, bookVars

\* The activations stay what they are while the stack is left alone.
LEMMA SameStack ==
    ASSUME IInv, UNCHANGED stack, Settled => Settled'
    PROVE  /\ \A i \in 1 .. Len(stack') : NestedAt(i)'
           /\ \A i \in 1 .. Len(stack') : stack'[i].reason = Continuation => Settled'
           /\ Top' = Top
BY DEF IInv, StackInv, NestedAt, Top

\* run_until_terminal is called.
LEMMA RunUntilTerminalKeeps ==
    ASSUME IInv, RunUntilTerminal
    PROVE  IInv'
<1>k. UNCHANGED <<records, bookVars>>
  BY DEF RunUntilTerminal, bookVars
<1>l. /\ BooksInv' /\ LedgerInv'
      /\ UNCHANGED <<Task, records, applied, appliedIds, accepted>>
      /\ Log' = Log /\ (Settled' <=> Settled)
  BY <1>k, Kept
<1>s. /\ \A i \in 1 .. Len(stack') : NestedAt(i)'
      /\ \A i \in 1 .. Len(stack') : stack'[i].reason = Continuation => Settled'
      /\ Top' = Top /\ stack' = stack
  <2>1. UNCHANGED stack
    BY DEF RunUntilTerminal
  <2> QED
    BY <2>1, <1>l, SameStack
<1>1. TypeOK'
  BY <1>k, <1>l, <1>s, RunAssumption DEF IInv, RunUntilTerminal, TypeOK, bookVars, runVars,
     RunState, Terminal
<1>2. StackInv'
  BY <1>l, <1>s DEF IInv, StackInv, PlaceInv, PendingInv, RunUntilTerminal
<1>3. PendingInv'
  BY <1>l, <1>s DEF IInv, PendingInv, PlaceInv, ReviewPauses, RunUntilTerminal
<1>4. PlaceInv'
  BY <1>l, <1>s DEF IInv, StackInv, PlaceInv, PendingInv, ReviewPauses, ReadyToApply, Concluded,
     Top, Terminal, RunUntilTerminal
<1>5. StopIsExplained'
  BY <1>k, <1>l DEF IInv, StopIsExplained, RunUntilTerminal
<1> QED
  BY <1>l, <1>1, <1>2, <1>3, <1>4, <1>5 DEF IInv

\* There is no next task.
LEMMA NoNextTaskKeeps ==
    ASSUME IInv, NoNextTask
    PROVE  IInv'
<1>k. UNCHANGED <<records, bookVars>>
  BY DEF NoNextTask, bookVars
<1>l. /\ BooksInv' /\ LedgerInv'
      /\ UNCHANGED <<Task, records, applied, appliedIds, accepted>>
      /\ Log' = Log /\ (Settled' <=> Settled)
  BY <1>k, Kept
<1>s. /\ \A i \in 1 .. Len(stack') : NestedAt(i)'
      /\ \A i \in 1 .. Len(stack') : stack'[i].reason = Continuation => Settled'
      /\ Top' = Top /\ stack' = stack
  <2>1. UNCHANGED stack
    BY DEF NoNextTask
  <2> QED
    BY <2>1, <1>l, SameStack
<1>1. TypeOK'
  BY <1>k, <1>l, <1>s, RunAssumption DEF IInv, NoNextTask, TypeOK, bookVars, runVars, RunState,
     Terminal
<1>2. StackInv'
  BY <1>l, <1>s DEF IInv, StackInv, PlaceInv, PendingInv, NoNextTask
<1>3. PendingInv'
  BY <1>l, <1>s DEF IInv, PendingInv, PlaceInv, ReviewPauses, NoNextTask
<1>4. PlaceInv'
  BY <1>l, <1>s DEF IInv, StackInv, PlaceInv, PendingInv, ReviewPauses, ReadyToApply, Concluded,
     Top, Terminal, NoNextTask
<1>5. StopIsExplained'
  BY <1>k, <1>l DEF IInv, StopIsExplained, NoNextTask
<1> QED
  BY <1>l, <1>1, <1>2, <1>3, <1>4, <1>5 DEF IInv

\* The loop is left.
LEMMA LeaveLoopKeeps ==
    ASSUME IInv, LeaveLoop
    PROVE  IInv'
<1>k. UNCHANGED <<records, bookVars>>
  BY DEF LeaveLoop, bookVars
<1>l. /\ BooksInv' /\ LedgerInv'
      /\ UNCHANGED <<Task, records, applied, appliedIds, accepted>>
      /\ Log' = Log /\ (Settled' <=> Settled)
  BY <1>k, Kept
<1>s. /\ \A i \in 1 .. Len(stack') : NestedAt(i)'
      /\ \A i \in 1 .. Len(stack') : stack'[i].reason = Continuation => Settled'
      /\ Top' = Top /\ stack' = stack
  <2>1. UNCHANGED stack
    BY DEF LeaveLoop
  <2> QED
    BY <2>1, <1>l, SameStack
<1>1. TypeOK'
  BY <1>k, <1>l, <1>s, RunAssumption DEF IInv, LeaveLoop, TypeOK, bookVars, runVars, RunState,
     Terminal
<1>2. StackInv'
  BY <1>l, <1>s DEF IInv, StackInv, PlaceInv, PendingInv, LeaveLoop
<1>3. PendingInv'
  BY <1>l, <1>s DEF IInv, PendingInv, PlaceInv, ReviewPauses, LeaveLoop
<1>4. PlaceInv'
  BY <1>l, <1>s DEF IInv, StackInv, PlaceInv, PendingInv, ReviewPauses, ReadyToApply, Concluded,
     Top, Terminal, LeaveLoop
<1>5. StopIsExplained'
  BY <1>k, <1>l DEF IInv, StopIsExplained, LeaveLoop
<1> QED
  BY <1>l, <1>1, <1>2, <1>3, <1>4, <1>5 DEF IInv

\* run_until_terminal returns.
LEMMA ExitKeeps ==
    ASSUME IInv, Exit
    PROVE  IInv'
<1>k. UNCHANGED <<records, bookVars>>
  BY DEF Exit, bookVars
<1>l. /\ BooksInv' /\ LedgerInv'
      /\ UNCHANGED <<Task, records, applied, appliedIds, accepted>>
      /\ Log' = Log /\ (Settled' <=> Settled)
  BY <1>k, Kept
<1>s. /\ \A i \in 1 .. Len(stack') : NestedAt(i)'
      /\ \A i \in 1 .. Len(stack') : stack'[i].reason = Continuation => Settled'
      /\ Top' = Top /\ stack' = stack
  <2>1. UNCHANGED stack
    BY DEF Exit
  <2> QED
    BY <2>1, <1>l, SameStack
<1>1. TypeOK'
  BY <1>k, <1>l, <1>s, RunAssumption DEF IInv, Exit, TypeOK, bookVars, runVars, RunState, Terminal
<1>2. StackInv'
  BY <1>l, <1>s DEF IInv, StackInv, PlaceInv, PendingInv, Exit
<1>3. PendingInv'
  BY <1>l, <1>s DEF IInv, PendingInv, PlaceInv, ReviewPauses, Exit
<1>4. PlaceInv'
  BY <1>l, <1>s DEF IInv, StackInv, PlaceInv, PendingInv, ReviewPauses, ReadyToApply, Concluded,
     Top, Terminal, Exit
<1>5. StopIsExplained'
  BY <1>k, <1>l DEF IInv, StopIsExplained, Exit
<1> QED
  BY <1>l, <1>1, <1>2, <1>3, <1>4, <1>5 DEF IInv

\* The reviewer's replacement is validated.
LEMMA ValidateReplacementKeeps ==
    ASSUME IInv, ValidateReplacement
    PROVE  IInv'
<1>k. UNCHANGED <<records, bookVars>>
  BY DEF ValidateReplacement, bookVars
<1>l. /\ BooksInv' /\ LedgerInv'
      /\ UNCHANGED <<Task, records, applied, appliedIds, accepted>>
      /\ Log' = Log /\ (Settled' <=> Settled)
  BY <1>k, Kept
<1>s. /\ \A i \in 1 .. Len(stack') : NestedAt(i)'
      /\ \A i \in 1 .. Len(stack') : stack'[i].reason = Continuation => Settled'
      /\ Top' = Top /\ stack' = stack
  <2>1. UNCHANGED stack
    BY DEF ValidateReplacement
  <2> QED
    BY <2>1, <1>l, SameStack
<1>1. TypeOK'
  BY <1>k, <1>l, <1>s, RunAssumption DEF IInv, ValidateReplacement, TypeOK, bookVars, runVars,
     RunState, Terminal, TaskResult, ArtifactKind, ReadyToApply
<1>r. /\ pc = "validate" /\ UNCHANGED <<state, pending, ret>> /\ pending = "none"
      /\ \/ pc' = "accept" /\ res'.kind = "repair" /\ res'.text = "replacement"
         \/ pc' = "return"
  BY DEF IInv, TypeOK, PlaceInv, PendingInv, ReviewPauses, ValidateReplacement, TaskResult
<1>2. StackInv'
  BY <1>r, <1>l, <1>s DEF IInv, StackInv, PlaceInv, PendingInv, OfArtifact, OfPlaceholder,
     Continuation
<1>3. PendingInv'
  BY <1>r, <1>l, <1>s DEF IInv, PendingInv, PlaceInv, ReviewPauses, OfArtifact, OfPlaceholder,
     Continuation
<1>4. PlaceInv'
  <2>1. /\ state = "ACTIVE" /\ ~ Settled /\ Task > 0 /\ Top \in OfArtifact /\ ~ ret
        /\ Log \in {o \o <<"replacement">> : o \in Opened}
    BY <1>r DEF IInv, PlaceInv
  <2>2. pc' = "accept" => ReadyToApply'
    <3>1. Log \in Evidence
      BY <2>1 DEF Evidence
    <3> QED
      BY <1>r, <1>l, <2>1, <3>1 DEF ReadyToApply
  <2>3. Top' # Continuation
    BY <1>s, <2>1 DEF OfArtifact, Continuation
  <2>4. \A t \in appliedIds' : t # Task' => Concluded(t)'
    BY <1>l DEF IInv, PlaceInv, Concluded
  <2> QED
    BY <1>r, <1>l, <1>s, <2>1, <2>2, <2>3, <2>4 DEF IInv, PlaceInv
<1>5. StopIsExplained'
  BY <1>k, <1>l DEF IInv, StopIsExplained, ValidateReplacement
<1> QED
  BY <1>l, <1>1, <1>2, <1>3, <1>4, <1>5 DEF IInv

\* There is nothing to integrate any more.
LEMMA SkipApplyKeeps ==
    ASSUME IInv, SkipApply
    PROVE  IInv'
<1>k. UNCHANGED <<records, bookVars>>
  BY DEF SkipApply, bookVars
<1>l. /\ BooksInv' /\ LedgerInv'
      /\ UNCHANGED <<Task, records, applied, appliedIds, accepted>>
      /\ Log' = Log /\ (Settled' <=> Settled)
  BY <1>k, Kept
<1>s. /\ \A i \in 1 .. Len(stack') : NestedAt(i)'
      /\ \A i \in 1 .. Len(stack') : stack'[i].reason = Continuation => Settled'
      /\ Top' = Top /\ stack' = stack
  <2>1. UNCHANGED stack
    BY DEF SkipApply
  <2> QED
    BY <2>1, <1>l, SameStack
<1>1. TypeOK'
  BY <1>k, <1>l, <1>s, RunAssumption DEF IInv, SkipApply, TypeOK, bookVars, runVars, RunState,
     Terminal, DoneApply, ReadyToApply
<1>r. /\ pc = "apply" /\ UNCHANGED <<state, pending, res>>
      /\ Settled /\ stack # <<>> /\ (state = "ACTIVE" => Concluded(Task))
      /\ pc' = "return" /\ ret' = TRUE
  BY DEF IInv, PlaceInv, ReadyToApply, SkipApply, DoneApply, Settled
<1>2. StackInv'
  BY <1>r, <1>l, <1>s DEF IInv, StackInv, PlaceInv, PendingInv, OfArtifact
<1>3. PendingInv'
  BY <1>r, <1>l, <1>s DEF IInv, PendingInv, PlaceInv, ReviewPauses, OfArtifact
<1>4. PlaceInv'
  BY <1>r, <1>l, <1>s DEF IInv, StackInv, PlaceInv, PendingInv, ReviewPauses, ReadyToApply,
     Concluded, Top, Terminal, OfArtifact
<1>5. StopIsExplained'
  BY <1>k, <1>l DEF IInv, StopIsExplained, SkipApply
<1> QED
  BY <1>l, <1>1, <1>2, <1>3, <1>4, <1>5 DEF IInv

\* An exception unwinds all activations.
LEMMA RaiseKeeps ==
    ASSUME IInv, Raise
    PROVE  IInv'
<1>k. UNCHANGED <<records, bookVars>>
  BY DEF Raise, bookVars
<1>l. /\ BooksInv' /\ LedgerInv'
      /\ UNCHANGED <<Task, records, applied, appliedIds, accepted>>
      /\ Log' = Log /\ (Settled' <=> Settled)
  BY <1>k, Kept
<1>s. stack' = <<>> /\ Len(stack') = 0
  BY DEF Raise
<1>1. TypeOK'
  BY <1>k, <1>l, <1>s, RunAssumption DEF IInv, Raise, TypeOK, bookVars, runVars, RunState, Terminal
<1>2. StackInv'
  BY <1>l, <1>s DEF IInv, StackInv, PlaceInv, PendingInv, Raise
<1>3. PendingInv'
  BY <1>l, <1>s DEF IInv, PendingInv, PlaceInv, ReviewPauses, Raise
<1>4. PlaceInv'
  <2>1. state = "ACTIVE" /\ Settled => Concluded(Task)
    <3>1. pc = "continuation" => Last(Log) = "artifact"
      BY DEF IInv, PlaceInv
    <3>2. /\ pc \in {"engine", "gate", "validate", "placeholder"} => ~ Settled
          /\ pc = "hook" => state # "ACTIVE"
          /\ pc = "loop" /\ state = "ACTIVE" /\ Settled => Concluded(Task)
      BY DEF IInv, PlaceInv
    <3> QED
      BY <3>1, <3>2 DEF Raise, Settled, Concluded, Log
  <2>2. \A t \in appliedIds : t # Task => Concluded(t)
    BY DEF IInv, PlaceInv
  <2>3. pc' = "out" /\ UNCHANGED state
    BY DEF Raise
  <2>4. \A t : Concluded(t)' <=> Concluded(t)
    BY <1>l DEF Concluded
  <2> QED
    BY <1>l, <2>1, <2>2, <2>3, <2>4 DEF PlaceInv
<1>5. StopIsExplained'
  BY <1>k, <1>l DEF IInv, StopIsExplained, Raise
<1> QED
  BY <1>l, <1>1, <1>2, <1>3, <1>4, <1>5 DEF IInv

\* A caller resolves the pending review.
LEMMA ResumeFromReviewKeeps ==
    ASSUME IInv, ResumeFromReview
    PROVE  IInv'
<1>k. UNCHANGED <<records, bookVars>>
  BY DEF ResumeFromReview, bookVars
<1>l. /\ BooksInv' /\ LedgerInv'
      /\ UNCHANGED <<Task, records, applied, appliedIds, accepted>>
      /\ Log' = Log /\ (Settled' <=> Settled)
  BY <1>k, Kept
<1> DEFINE f == [reason |-> pending, from |-> "caller", kind |-> res.kind]
<1>f. f \in Frame /\ f.from = "caller" /\ f.reason = pending
  BY DEF IInv, TypeOK, TaskResult, Frame, ArtifactKind, ResumeFromReview
<1>g. stack' = <<f>>
  BY DEF ResumeFromReview
<1> HIDE DEF f
<1>s. stack' \in Seq(Frame) /\ Len(stack') = 1 /\ stack'[1] = f /\ Last(stack') = f /\ stack' # <<>>
  BY <1>f, <1>g DEF Last
<1>1. TypeOK'
  BY <1>k, <1>l, <1>s, RunAssumption DEF IInv, ResumeFromReview, TypeOK, bookVars, runVars,
     RunState, Terminal, Frame
<1>2. StackInv'
  BY <1>l, <1>s, <1>f DEF IInv, StackInv, PlaceInv, PendingInv, ResumeFromReview, NestedAt
<1>3. PendingInv'
  BY <1>l, <1>s DEF IInv, PendingInv, PlaceInv, ReviewPauses, ResumeFromReview
<1>4. PlaceInv'
  BY <1>l, <1>s, <1>f DEF IInv, StackInv, PlaceInv, PendingInv, ReviewPauses, ReadyToApply,
     Concluded, Top, Terminal, ResumeFromReview
<1>5. StopIsExplained'
  BY <1>k, <1>l DEF IInv, StopIsExplained, ResumeFromReview
<1> QED
  BY <1>l, <1>1, <1>2, <1>3, <1>4, <1>5 DEF IInv

\* The localizer returns a task: its log is empty, and what was integrated
\* before is concluded.
LEMMA NextTaskKeeps ==
    ASSUME IInv, NextTask
    PROVE  IInv'
<1>1. /\ pc = "loop" /\ pc' = "engine" /\ state = "ACTIVE" /\ stack = <<>> /\ pending = "none"
      /\ UNCHANGED <<state, pending, stack, res, ret, applied, appliedIds, accepted, runs, terminals>>
      /\ steps' \in 0 .. MaxSteps /\ failure' \in FailureKind
  BY RunAssumption DEF IInv, TypeOK, StackInv, PendingInv, ReviewPauses, NextTask, bookVars
<1>2. records \in Seq(Seq(RecordKind)) /\ <<>> \in Seq(RecordKind) /\ appliedIds \subseteq 1 .. Task
  BY DEF IInv, TypeOK
<1>3. /\ records' \in Seq(Seq(RecordKind)) /\ Len(records') = Len(records) + 1
      /\ records'[Len(records) + 1] = <<>>
      /\ \A t \in 1 .. Len(records) : records'[t] = records[t]
  BY <1>2, Pushed DEF NextTask
<1>4. /\ Task \in Nat /\ Task' = Task + 1 /\ Log' = <<>>
      /\ DOMAIN records = 1 .. Task /\ DOMAIN records' = 1 .. Task + 1
      /\ \A t \in 1 .. Task : records'[t] = records[t]
  BY <1>2, <1>3 DEF Task, Log
<1>5. ~ Settled' /\ Task' \notin appliedIds
  BY <1>1, <1>2, <1>4 DEF Settled
<1>6. TypeOK'
  BY <1>1, <1>2, <1>3, <1>4 DEF IInv, TypeOK
<1>7. StackInv'
  BY <1>1 DEF StackInv
<1>8. PendingInv'
  BY <1>1 DEF PendingInv, ReviewPauses, OfArtifact, Continuation, OfPlaceholder
<1>9. PlaceInv'
  <2>1. \A t \in appliedIds : Concluded(t)
    BY <1>1 DEF IInv, PlaceInv, Settled
  <2>2. \A t \in appliedIds' : Concluded(t)'
    BY <2>1, <1>1, <1>2, <1>4 DEF Concluded
  <2> QED
    BY <2>2, <1>1, <1>4, <1>5 DEF PlaceInv
<1>10. BooksInv'
  BY <1>1, <1>5 DEF IInv, BooksInv, AppliedOnce
<1>11. LedgerInv'
  <2>1. VettedLog(<<>>) /\ ProvenLog(<<>>) /\ \A k : ~ Contains(<<>>, k)
    BY DEF VettedLog, ProvenLog, Contains
  <2>2. \A t \in DOMAIN records' : VettedLog(records'[t]) /\ ProvenLog(records'[t])
    <3> SUFFICES ASSUME NEW t \in 1 .. Task + 1
                 PROVE  VettedLog(records'[t]) /\ ProvenLog(records'[t])
      BY <1>4
    <3>1. CASE t \in 1 .. Task
      BY <3>1, <1>4 DEF IInv, LedgerInv
    <3>2. CASE t \notin 1 .. Task
      <4>1. t = Task + 1 /\ records'[t] = <<>>
        BY <3>2, <1>3, <1>4 DEF Task
      <4> QED
        BY <4>1, <2>1
    <3> QED
      BY <3>1, <3>2
  <2>3. Proven' = Proven
    <3>1. \A t \in 1 .. Task + 1 : t \in 1 .. Task \/ records'[t] = <<>>
      BY <1>3, <1>4 DEF Task
    <3>2. 1 .. Task \subseteq 1 .. Task + 1
      BY <1>4
    <3> QED
      BY <2>1, <3>1, <3>2, <1>4 DEF Proven
  <2>4. \A t \in appliedIds' : Contains(records'[t], "artifact")
    BY <1>1, <1>2, <1>4 DEF IInv, LedgerInv
  <2> QED
    BY <2>2, <2>3, <2>4, <1>1 DEF IInv, LedgerInv
<1>12. StopIsExplained'
  BY <1>1, <1>4 DEF StopIsExplained, Log
<1> QED
  BY <1>6, <1>7, <1>8, <1>9, <1>10, <1>11, <1>12 DEF IInv

\* resume_from_review returns to whoever called it.
LEMMA ReturnKeeps ==
    ASSUME IInv, Return
    PROVE  IInv'
<1> DEFINE f == Last(stack)
<1>0. /\ pc = "return" /\ stack # <<>> /\ stack' = Front(stack) /\ Task > 0
      /\ UNCHANGED <<state, pending, records, bookVars, runVars>>
      /\ ret => Settled
  BY DEF IInv, StackInv, PlaceInv, Return
<1>1. /\ BooksInv' /\ LedgerInv'
      /\ UNCHANGED <<Task, records, applied, appliedIds, accepted>>
      /\ Log' = Log /\ (Settled' <=> Settled)
  BY <1>0, Kept
<1>2. /\ stack \in Seq(Frame) /\ Len(stack) \in 1 .. 3 /\ f = stack[Len(stack)] /\ f \in Frame
      /\ stack' \in Seq(Frame) /\ Len(stack') = Len(stack) - 1
      /\ \A i \in 1 .. Len(stack) - 1 : stack'[i] = stack[i]
  <2>1. stack \in Seq(Frame)
    BY DEF IInv, TypeOK, Frame
  <2>2. Len(stack) \in 1 .. 3 /\ f = stack[Len(stack)] /\ f \in Frame
    BY <1>0, Innermost
  <2> QED
    BY <2>1, <2>2, <1>0, Popped
<1> HIDE DEF f
<1>3. NestedAt(Len(stack))
  BY <1>2 DEF IInv, StackInv
<1>4. stack' = <<>> <=> Len(stack) = 1
  BY <1>2
<1>5. \/ /\ f.from \in {"caller", "main"} /\ pc' \in {"out", "loop"} /\ stack' = <<>>
         /\ UNCHANGED <<res, ret>>
      \/ /\ f.from = "placeholder" /\ Len(stack) = 2 /\ pc' = IF ret THEN "accept" ELSE "return"
         /\ res' = IF ret \/ state = "AWAITING_REVIEW" THEN res ELSE [res EXCEPT !.kind = f.kind]
         /\ UNCHANGED ret
      \/ /\ f.from = "apply" /\ Settled /\ UNCHANGED res
         /\ pc' = IF stack' = <<>> THEN "loop" ELSE "return"
         /\ ret' = (stack' # <<>>)
  <2>1. CASE f.from \in {"caller", "main"}
    BY <2>1, <1>2, <1>3, <1>4 DEF Return, NestedAt, f
  <2>2. CASE f.from = "placeholder"
    BY <2>2, <1>2, <1>3 DEF Return, NestedAt, f
  <2>3. CASE f.from = "apply"
    <3>1. Settled
      BY <2>3, <1>2, <1>3 DEF IInv, StackInv, NestedAt
    <3> QED
      BY <2>3, <3>1 DEF Return, DoneApply, f
  <2> QED
    BY <2>1, <2>2, <2>3, <1>2 DEF Frame
<1>6. \A i \in 1 .. Len(stack') : /\ NestedAt(i)'
                                  /\ stack'[i].reason # Continuation
  <2> SUFFICES ASSUME NEW i \in 1 .. Len(stack')
               PROVE  NestedAt(i)' /\ stack'[i].reason # Continuation
    OBVIOUS
  <2>1. i \in 1 .. Len(stack) /\ i # Len(stack) /\ 1 \in 1 .. Len(stack) - 1
    BY <1>2
  <2>2. NestedAt(i) /\ stack'[i] = stack[i] /\ stack'[1] = stack[1]
    BY <2>1, <1>2 DEF IInv, StackInv
  <2> QED
    BY <2>1, <2>2 DEF NestedAt
<1>7. res' \in TaskResult /\ ret' \in BOOLEAN
  BY <1>5, <1>2, ZenonT(60) DEF IInv, TypeOK, TaskResult, Frame, ArtifactKind
<1>8. TypeOK'
  BY <1>0, <1>1, <1>2, <1>5, <1>7 DEF IInv, TypeOK, Frame, runVars
<1>9. StackInv'
  BY <1>4, <1>5, <1>6 DEF StackInv
<1>10. PendingInv'
  <2>1. pending' # "none" => UNCHANGED res
    BY <1>0, <1>5 DEF IInv, PendingInv, ReviewPauses
  <2> QED
    BY <1>0, <1>1, <2>1 DEF IInv, PendingInv, ReviewPauses, OfArtifact, Continuation,
       OfPlaceholder
<1>11. PlaceInv'
  <2>1. state = "ACTIVE" /\ Settled => Concluded(Task)
    BY <1>0 DEF IInv, PlaceInv
  <2>2. pc' = "accept" => Top' # Continuation
    <3>1. pc' = "accept" => Len(stack) = 2
      BY <1>5
    <3>2. pc' = "accept" => Len(stack') = 1
      BY <3>1, <1>2
    <3>3. ASSUME Len(stack') = 1 PROVE stack'[1].reason # Continuation
      <4>1. 1 \in 1 .. Len(stack')
        BY <3>3
      <4> QED
        BY <4>1, <1>6
    <3> QED
      BY <3>2, <3>3 DEF Top, Last
  <2>3. pc' = "accept" => ReadyToApply'
    BY <1>0, <1>1, <1>4, <1>5, <2>1 DEF ReadyToApply, Concluded
  <2>4. \A t \in appliedIds' : t # Task' => Concluded(t)'
    BY <1>1 DEF IInv, PlaceInv, Concluded
  <2>5. Concluded(Task)' <=> Concluded(Task)
    BY <1>1 DEF Concluded
  <2>6. pc' = "return" /\ ret' => Settled'
    BY <1>0, <1>1, <1>5
  <2>7. pc' \in {"out", "loop", "accept", "return"}
    BY <1>5
  <2> QED
    BY <1>0, <1>1, <2>1, <2>2, <2>3, <2>4, <2>5, <2>6, <2>7 DEF PlaceInv
<1>12. StopIsExplained'
  BY <1>0, <1>1 DEF IInv, StopIsExplained
<1> QED
  BY <1>1, <1>8, <1>9, <1>10, <1>11, <1>12 DEF IInv

\* A step that records something about a task that is not concluded, and
\* integrates nothing.
LEMMA PlainStep ==
    ASSUME IInv, Task > 0, ~ Contains(Log, "provenance"), NEW t, Plain(t), Record(t),
           UNCHANGED bookVars
    PROVE  /\ BooksInv' /\ LedgerInv' /\ records' \in Seq(Seq(RecordKind))
           /\ UNCHANGED <<Task, applied, appliedIds, accepted>> /\ (Settled' <=> Settled)
           /\ Log' # <<>> /\ Last(Log') = Last(t) /\ ~ Contains(Log', "provenance")
           /\ Log' = Log \o t
           /\ \A u \in appliedIds' : u # Task' => Concluded(u)'
           /\ StopIsExplained' <=> (state' = "STOPPED" <=> Last(t) = "continuation_stop")
<1>1. /\ records' \in Seq(Seq(RecordKind)) /\ Task' = Task
      /\ \A u \in 1 .. Task : u # Task => records'[u] = records[u]
      /\ Log' # <<>> /\ Last(Log') = Last(t) /\ Log' = Log \o t
      /\ Contains(Log', "provenance") <=> Contains(Log, "provenance") \/ Contains(t, "provenance")
  BY Recorded DEF IInv, TypeOK, Plain
<1>2. UNCHANGED <<applied, appliedIds, accepted>>
  BY DEF bookVars
<1>3. LedgerInv'
  BY PlainLedger DEF IInv
<1>4. Settled' <=> Settled
  BY <1>1, <1>2 DEF Settled
<1>5. BooksInv'
  BY <1>1, <1>2, <1>4 DEF IInv, BooksInv, AppliedOnce
<1>6. \A u \in appliedIds' : u # Task' => Concluded(u)'
  <2>1. appliedIds \subseteq 1 .. Task
    BY DEF IInv, TypeOK
  <2> QED
    BY <2>1, <1>1, <1>2 DEF IInv, PlaceInv, Concluded
<1>7. StopIsExplained' <=> (state' = "STOPPED" <=> Last(t) = "continuation_stop")
  BY <1>1 DEF StopIsExplained, Log
<1> QED
  BY <1>1, <1>2, <1>3, <1>4, <1>5, <1>6, <1>7 DEF Plain

\* _enter_review from a place that may ask for the review: it is pending and the
\* hook is called, or the caller gets control back.
LEMMA EnterReviewKeeps ==
    ASSUME IInv, Task > 0, ~ Contains(Log, "provenance"),
           NEW reason \in Reason, NEW from \in {"main", "placeholder", "apply"},
           NEW b \in RecordKind \ {"artifact", "provenance"}, NEW back,
           EnterReview(reason, from, <<b>>, back), UNCHANGED <<bookVars, runVars>>,
           res' \in TaskResult, ret' \in BOOLEAN,
           stack = <<>> => back = "loop",
           stack # <<>> => back = "return" /\ Top # Continuation,
           \/ from = "main" /\ stack = <<>> /\ reason \in OfArtifact
           \/ from = "placeholder" /\ stack # <<>> /\ Top \in OfArtifact /\ reason = OfPlaceholder
           \/ from = "apply" /\ reason = Continuation,
           reason \in {"policy_requires_review", OfPlaceholder} =>
               res'.kind # "none" /\ res'.text # "none",
           reason = Continuation <=> Settled,
           reason \in OfArtifact => Log \o <<b, "review_entered">> \in Opened,
           reason = "policy_requires_review" =>
               Log \o <<b, "review_entered">> = <<"task">> \o ToReview,
           reason = OfPlaceholder =>
               Log \o <<b, "review_entered">> \in {q \o ToReview : q \in Requested},
           ret' => Settled \/ back # "return"
    PROVE  IInv'
<1> DEFINE f == [reason |-> reason, from |-> from, kind |-> res.kind]
           t == <<b, "review_entered">>
<1>0. Plain(t) /\ Last(t) = "review_entered" /\ Append(<<b>>, "review_entered") = t
  BY PlainRecords DEF RecordKind
<1>1. Record(t) /\ pending' = reason /\ state' = "AWAITING_REVIEW"
  BY <1>0 DEF EnterReview
<1>2. \/ stack' = Append(stack, f) /\ pc' = "hook"
      \/ pc' = back /\ stack' = stack
  BY DEF EnterReview
<1>s. /\ reason \in OfArtifact => Log \o t \in Opened
      /\ reason = "policy_requires_review" => Log \o t = <<"task">> \o ToReview
      /\ reason = OfPlaceholder => Log \o t \in {q \o ToReview : q \in Requested}
  OBVIOUS
<1> HIDE DEF t
<1>3. /\ BooksInv' /\ LedgerInv' /\ records' \in Seq(Seq(RecordKind))
      /\ UNCHANGED <<Task, applied, appliedIds, accepted>> /\ (Settled' <=> Settled)
      /\ Log' # <<>> /\ Last(Log') = Last(t) /\ ~ Contains(Log', "provenance")
      /\ Log' = Log \o t
      /\ \A u \in appliedIds' : u # Task' => Concluded(u)'
      /\ StopIsExplained' <=> (state' = "STOPPED" <=> Last(t) = "continuation_stop")
  BY <1>0, <1>1, PlainStep
<1>4. StopIsExplained'
  BY <1>0, <1>1, <1>3
<1>5. f \in Frame /\ f.reason = reason /\ f.from = from
  BY DEF Frame, IInv, TypeOK, TaskResult, ArtifactKind
<1> HIDE DEF f
<1>6. stack \in Seq(Frame) /\ Len(stack) \in Nat /\ (stack = <<>> <=> Len(stack) = 0)
  BY DEF IInv, TypeOK, Frame
<1>7. \/ Len(stack) = 0 /\ stack = <<>>
      \/ /\ Len(stack) \in 1 .. 2 /\ stack # <<>> /\ stack[Len(stack)].reason # Continuation
         /\ from = "placeholder" => Len(stack) = 1 /\ stack[1].reason \in OfArtifact
  <2>1. CASE stack = <<>>
    BY <2>1, <1>6
  <2>2. CASE stack # <<>>
    <3>1. /\ Len(stack) \in 1 .. 3 /\ Last(stack) = stack[Len(stack)]
          /\ Top \in OfArtifact => Len(stack) = 1 /\ Last(stack).from \in {"main", "caller"}
          /\ Top # Continuation => Len(stack) <= 2
      BY <2>2, Innermost
    <3>2. from = "placeholder" => Top \in OfArtifact
      OBVIOUS
    <3>3. Len(stack) \in 1 .. 2
      BY <2>2, <3>1
    <3> QED
      BY <2>2, <3>1, <3>2, <3>3 DEF Top
  <2> QED
    BY <2>1, <2>2
<1>8. CASE stack' = Append(stack, f) /\ pc' = "hook"
  <2>1. /\ stack' \in Seq(Frame) /\ stack' # <<>> /\ Len(stack') = Len(stack) + 1
        /\ Last(stack') = f /\ stack'[Len(stack) + 1] = f
        /\ \A i \in 1 .. Len(stack) : stack'[i] = stack[i]
    BY <1>5, <1>6, <1>8, Pushed
  <2>2. Top' = reason /\ Len(stack') \in 1 .. 3
    BY <2>1, <1>5, <1>7 DEF Top
  <2>3. TypeOK'
    BY <1>1, <1>3, <1>8, <2>1, <2>2 DEF IInv, TypeOK, RunState, runVars, Frame
  <2>4. \A i \in 1 .. Len(stack') :
            NestedAt(i)' /\ (stack'[i].reason = Continuation => Settled')
    <3> SUFFICES ASSUME NEW i \in 1 .. Len(stack')
                 PROVE  NestedAt(i)' /\ (stack'[i].reason = Continuation => Settled')
      OBVIOUS
    <3>1. CASE i = Len(stack) + 1
      <4>1. stack'[i] = f /\ i = Len(stack')
        BY <3>1, <2>1
      <4>2. CASE from = "placeholder"
        <5>1. i = 2 /\ stack'[1] = stack[1] /\ stack[1].reason \in OfArtifact
          BY <3>1, <4>2, <1>6, <1>7, <2>1
        <5> QED
          BY <4>1, <4>2, <5>1, <1>3, <1>5 DEF NestedAt, OfPlaceholder, Continuation
      <4>3. CASE from = "main"
        <5>1. i = 1
          BY <3>1, <4>3, <1>6
        <5> QED
          BY <4>1, <4>3, <5>1, <1>3, <1>5 DEF NestedAt
      <4>4. CASE from = "apply"
        BY <4>1, <4>4, <1>3, <1>5 DEF NestedAt
      <4> QED
        BY <4>2, <4>3, <4>4
    <3>2. CASE i # Len(stack) + 1
      <4>1. i \in 1 .. Len(stack) /\ 1 \in 1 .. Len(stack)
        BY <3>2, <1>6, <2>1
      <4>2. NestedAt(i) /\ stack'[i] = stack[i] /\ stack'[1] = stack[1]
        BY <4>1, <2>1 DEF IInv, StackInv
      <4>3. stack[i].reason # Continuation
        BY <4>1, <4>2, <1>7 DEF NestedAt
      <4> QED
        BY <4>2, <4>3 DEF NestedAt
    <3> QED
      BY <3>1, <3>2
  <2>5. StackInv'
    BY <2>1, <2>4, <1>8 DEF StackInv
  <2>6. PendingInv'
    BY <1>1, <1>s, <1>3 DEF PendingInv, ReviewPauses, Reason, Continuation, OfPlaceholder,
       OfArtifact
  <2>7. PlaceInv'
    BY <1>1, <1>3, <1>8, <2>2 DEF PlaceInv
  <2> QED
    BY <2>3, <2>5, <2>6, <2>7, <1>3, <1>4 DEF IInv
<1>9. CASE pc' = back /\ stack' = stack
  <2>1. TypeOK'
    BY <1>1, <1>3, <1>9 DEF IInv, TypeOK, RunState, runVars
  <2>2. StackInv'
    BY <1>3, <1>9, SameStack DEF StackInv
  <2>3. PendingInv'
    BY <1>1, <1>s, <1>3 DEF PendingInv, ReviewPauses, Reason, Continuation, OfPlaceholder,
       OfArtifact
  <2>4. PlaceInv'
    BY <1>1, <1>3, <1>9 DEF PlaceInv
  <2> QED
    BY <2>1, <2>2, <2>3, <2>4, <1>3, <1>4 DEF IInv
<1> QED
  BY <1>2, <1>8, <1>9

\* A step that records something plain and leaves the stack alone, from a place
\* where the task is not concluded.
LEMMA PlainMove ==
    ASSUME IInv, Task > 0, ~ Contains(Log, "provenance"), NEW t, Plain(t), Record(t),
           UNCHANGED <<bookVars, runVars, stack>>, res' \in TaskResult, ret' \in BOOLEAN,
           state' \in RunState, state' # "AWAITING_REVIEW", pending' = "none",
           state' = "STOPPED" <=> Last(t) = "continuation_stop",
           pc' \in {"loop", "gate", "accept", "return", "validate", "placeholder", "apply"},
           stack = <<>> => pc' \in {"loop", "gate", "apply"},
           stack # <<>> => pc' \notin {"loop", "gate"},
           pc' \in {"gate", "validate", "placeholder"} => state' = "ACTIVE" /\ ~ Settled,
           pc' \in {"validate", "placeholder"} => Top \in OfArtifact /\ ~ ret',
           pc' = "validate" => Log \o t \in {o \o <<"replacement">> : o \in Opened},
           pc' = "placeholder" => Log \o t \in Requested,
           pc' = "gate" => res'.kind # "none" /\ res'.text # "none" /\ Log \o t = <<"task">>,
           pc' \in {"accept", "apply"} => state' = "ACTIVE",
           pc' = "apply" \/ (pc' = "accept" /\ Top # Continuation) =>
               /\ ~ Settled /\ Log \o t \in Evidence
               /\ res'.kind # "none" /\ res'.text # "none",
           pc' = "apply" /\ stack # <<>> => Top # Continuation,
           pc' = "return" => ~ ret' \/ Settled,
           pc' \in {"loop", "return"} =>
               state' # "ACTIVE" \/ ~ Settled \/ Last(t) = "reject"
    PROVE  IInv'
<1>1. /\ BooksInv' /\ LedgerInv' /\ records' \in Seq(Seq(RecordKind))
      /\ UNCHANGED <<Task, applied, appliedIds, accepted>> /\ (Settled' <=> Settled)
      /\ Log' # <<>> /\ Last(Log') = Last(t) /\ ~ Contains(Log', "provenance")
      /\ Log' = Log \o t
      /\ \A u \in appliedIds' : u # Task' => Concluded(u)'
      /\ StopIsExplained' <=> (state' = "STOPPED" <=> Last(t) = "continuation_stop")
  BY PlainStep
<1>2. /\ \A i \in 1 .. Len(stack') : NestedAt(i)'
      /\ \A i \in 1 .. Len(stack') : stack'[i].reason = Continuation => Settled'
      /\ Top' = Top /\ stack' = stack
  BY <1>1, SameStack
<1>3. TypeOK'
  BY <1>1 DEF IInv, TypeOK, runVars
<1>4. StackInv'
  BY <1>2 DEF StackInv
<1>5. PendingInv'
  BY DEF PendingInv, ReviewPauses, Continuation, OfPlaceholder, OfArtifact
<1>6. PlaceInv'
  <2>1. pc' = "apply" \/ (pc' = "accept" /\ Top' # Continuation) => ReadyToApply'
    BY <1>1, <1>2 DEF ReadyToApply
  <2>2. pc' \in {"out", "loop", "exit", "return"} /\ state' = "ACTIVE" /\ Settled'
        => Concluded(Task)'
    BY <1>1 DEF Concluded, Log
  <2> QED
    BY <1>1, <1>2, <2>1, <2>2 DEF PlaceInv
<1> QED
  BY <1>1, <1>3, <1>4, <1>5, <1>6 DEF IInv

\* The task fails, is escalated, or has an artifact to gate or nothing to do.
LEMMA RunTaskKeeps ==
    ASSUME IInv, RunTask
    PROVE  IInv'
<1>1. /\ pc = "engine" /\ Task > 0 /\ ~ Settled /\ state = "ACTIVE" /\ pending = "none"
      /\ stack = <<>> /\ ret \in BOOLEAN
      /\ UNCHANGED <<bookVars, runVars, ret>>
  BY DEF IInv, TypeOK, PlaceInv, PendingInv, ReviewPauses, StackInv, RunTask
<1>2. Log = <<>> /\ ~ Contains(Log, "provenance")
  <2>1. Log = <<>>
    BY <1>1 DEF IInv, PlaceInv
  <2> QED
    BY <2>1 DEF Contains
<1>3. PICK r \in Results :
          /\ res' = r
          /\ \/ /\ r.outcome = "failed"
                /\ Record(<<"task", "continuation_stop">>)
                /\ state' = "STOPPED"
                /\ pc' = "loop"
                /\ UNCHANGED <<pending, stack>>
             \/ /\ r.outcome = "escalated"
                /\ EnterReview("task_escalated_requires_review", "main", <<"task">>, "loop")
             \/ /\ r.outcome \notin {"failed", "escalated"}
                /\ Record(<<"task">>)
                /\ pc' = IF r.kind # "none" /\ r.text # "none" THEN "gate" ELSE "loop"
                /\ UNCHANGED <<state, pending, stack>>
  BY DEF RunTask
<1>4. res' \in TaskResult
  BY <1>3, RunAssumption
<1>5. CASE Record(<<"task", "continuation_stop">>) /\ state' = "STOPPED" /\ pc' = "loop"
           /\ UNCHANGED <<pending, stack>>
  <2> DEFINE t == <<"task", "continuation_stop">>
  <2>1. Plain(t) /\ Last(t) = "continuation_stop"
    BY PlainRecords DEF RecordKind
  <2> HIDE DEF t
  <2>2. Record(t)
    BY <1>5 DEF t
  <2> QED
    BY <1>1, <1>2, <1>4, <1>5, <2>1, <2>2, PlainMove DEF RunState, Terminal
<1>6. CASE EnterReview("task_escalated_requires_review", "main", <<"task">>, "loop")
  <2>1. Log \o <<"task", "review_entered">> \in Opened
    <3>1. <<"task", "review_entered">> \in Seq(RecordKind)
      BY DEF RecordKind
    <3> QED
      BY <1>2, <3>1, ConcatEmptySeq DEF Opened
  <2> QED
    BY <1>1, <1>2, <1>4, <1>6, <2>1, EnterReviewKeeps DEF RecordKind, Reason, OfArtifact,
       Continuation, OfPlaceholder
<1>7. CASE /\ Record(<<"task">>)
           /\ pc' = IF r.kind # "none" /\ r.text # "none" THEN "gate" ELSE "loop"
           /\ UNCHANGED <<state, pending, stack>>
  <2> DEFINE t == <<"task">>
  <2>0. "task" \in RecordKind \ {"artifact", "provenance"}
    BY DEF RecordKind
  <2>1. Plain(t) /\ Last(t) = "task"
    BY <2>0, PlainRecords
  <2>5. Log \o t = <<"task">>
    BY <1>2, <2>1, ConcatEmptySeq DEF Plain
  <2> HIDE DEF t
  <2>2. Record(t)
    BY <1>7 DEF t
  <2>3. pc' = "gate" => res'.kind # "none" /\ res'.text # "none"
    BY <1>3, <1>7
  <2>4. pc' \in {"gate", "loop"}
    BY <1>7
  <2> QED
    BY <1>1, <1>2, <1>4, <1>7, <2>1, <2>2, <2>3, <2>4, <2>5, PlainMove DEF RunState
<1> QED
  BY <1>3, <1>5, <1>6, <1>7

\* What is not integrated is not concluded.
LEMMA UnsettledIsOpen ==
    ASSUME IInv, Task > 0, ~ Settled
    PROVE  ~ Contains(Log, "provenance")
<1>1. Task \in DOMAIN records
  BY DEF IInv, TypeOK, Task
<1> QED
  BY <1>1 DEF IInv, LedgerInv, Proven, Settled, Log

\* The gate denies the artifact, lets it through or asks for a review.
LEMMA GateOrReviewKeeps ==
    ASSUME IInv, GateOrReview
    PROVE  IInv'
<1>1. /\ pc = "gate" /\ Task > 0 /\ ~ Settled /\ state = "ACTIVE" /\ pending = "none"
      /\ stack = <<>> /\ ret \in BOOLEAN /\ res \in TaskResult
      /\ res.kind # "none" /\ res.text # "none" /\ Log = <<"task">>
      /\ UNCHANGED <<bookVars, runVars, ret, res>>
  BY DEF IInv, TypeOK, PlaceInv, PendingInv, ReviewPauses, StackInv, GateOrReview
<1>2. ~ Contains(Log, "provenance")
  BY <1>1, UnsettledIsOpen
<1>3. ASSUME NEW b \in {"policy_deny", "policy_allow"}, Record(<<b>>),
             pc' = IF b = "policy_deny" THEN "loop" ELSE "apply", UNCHANGED <<state, pending, stack>>
      PROVE  IInv'
  <2> DEFINE t == <<b>>
  <2>1. Plain(t) /\ Last(t) = b
    BY PlainRecords DEF RecordKind
  <2>4. \/ pc' = "loop"
        \/ pc' = "apply" /\ Log \o t \in Evidence
    BY <1>1, <1>3 DEF Evidence
  <2> HIDE DEF t
  <2>2. Record(t)
    BY <1>3 DEF t
  <2>3. Last(t) # "continuation_stop" /\ state' # "STOPPED"
    BY <2>1, <1>1, <1>3
  <2> QED
    BY <1>1, <1>2, <1>3, <2>1, <2>2, <2>3, <2>4, PlainMove DEF RunState
<1>4. CASE EnterReview("policy_requires_review", "main", <<"policy_review">>, "loop")
  <2>1. /\ Log \o <<"policy_review", "review_entered">> = <<"task">> \o ToReview
        /\ Log \o <<"policy_review", "review_entered">> \in Opened
    BY <1>1 DEF ToReview, Opened
  <2> QED
    BY <1>1, <1>2, <1>4, <2>1, EnterReviewKeeps DEF RecordKind, Reason, OfArtifact, Continuation,
       OfPlaceholder
<1> QED
  BY <1>3, <1>4 DEF GateOrReview

\* The guarded response: reviews accept only the answers their reason admits.
LEMMA GuardAdmits ==
    ASSUME NEW reason \in Reason, NEW kind \in ResponseKind, NEW hasText \in BOOLEAN
    PROVE  /\ Guard(reason, kind, hasText) \in ResponseKind
           /\ Guard(reason, kind, hasText) = "approve" => reason # "task_escalated_requires_review"
           /\ Guard(reason, kind, hasText) \in {"replacement", "placeholder"} =>
                 reason \in OfArtifact
BY DEF Guard, AllowedResponses, ResponseKind, Reason, OfArtifact

\* The reviewer's answer closes the review and is acted on.
LEMMA HandleResponseKeeps ==
    ASSUME IInv, HandleResponse
    PROVE  IInv'
<1>1. /\ pc = "hook" /\ Task > 0 /\ stack # <<>> /\ res \in TaskResult
      /\ pending = Top /\ pending # "none" /\ state = "AWAITING_REVIEW"
      /\ UNCHANGED <<bookVars, runVars, stack, res>> /\ ret' = FALSE /\ pending' = "none"
  BY DEF IInv, TypeOK, PlaceInv, PendingInv, ReviewPauses, StackInv, HandleResponse
<1>2. Top \in Reason /\ ~ Contains(Log, "provenance") /\ (Settled => Top = Continuation)
  <2>1. Top \in Reason
    BY <1>1 DEF IInv, TypeOK
  <2>2. CASE Top = Continuation
    BY <1>1, <2>1, <2>2 DEF IInv, PendingInv
  <2>3. CASE Top # Continuation
    BY <1>1, <2>1, <2>3, UnsettledIsOpen DEF IInv, PendingInv
  <2> QED
    BY <2>1, <2>2, <2>3
<1>3. PICK kind \in ResponseKind, hasText \in BOOLEAN :
          LET k == Guard(Last(stack).reason, kind, hasText) IN
          /\ state' = IF k = "stop" THEN "STOPPED" ELSE "ACTIVE"
          /\ Record(CASE k = "stop" -> <<"stop", "continuation_stop">>
                      [] OTHER -> <<k>>)
          /\ pc' = CASE k \in {"stop", "reject"} -> "return"
                     [] k = "approve" -> "accept"
                     [] k = "placeholder" -> "placeholder"
                     [] k = "replacement" -> "validate"
  BY DEF HandleResponse
<1> DEFINE k == Guard(Top, kind, hasText)
<1>4. /\ k \in ResponseKind
      /\ k = "approve" => Top # "task_escalated_requires_review"
      /\ k \in {"replacement", "placeholder"} => Top \in OfArtifact
  BY <1>2, GuardAdmits
<1>5. /\ state' = IF k = "stop" THEN "STOPPED" ELSE "ACTIVE"
      /\ pc' = CASE k \in {"stop", "reject"} -> "return"
                 [] k = "approve" -> "accept"
                 [] k = "placeholder" -> "placeholder"
                 [] k = "replacement" -> "validate"
      /\ k = "stop" => Record(<<"stop", "continuation_stop">>)
      /\ k # "stop" => Record(<<k>>)
  BY <1>3 DEF Top
<1> HIDE DEF k
<1>6. k \in {"stop", "reject", "approve", "placeholder", "replacement"}
  BY <1>4 DEF ResponseKind
<1>7. CASE k = "stop"
  <2> DEFINE t == <<"stop", "continuation_stop">>
  <2>1. Plain(t) /\ Last(t) = "continuation_stop"
    BY PlainRecords DEF RecordKind, ResponseKind
  <2> HIDE DEF t
  <2>2. Record(t) /\ state' = "STOPPED" /\ pc' = "return"
    BY <1>5, <1>7 DEF t
  <2> QED
    BY <1>1, <1>2, <2>1, <2>2, PlainMove DEF RunState, Terminal
<1>8. CASE k # "stop"
  <2> DEFINE t == <<k>>
  <2>1. Plain(t) /\ Last(t) = k
    BY <1>4, PlainRecords DEF RecordKind, ResponseKind
  <2>2. Record(t) /\ state' = "ACTIVE" /\ "ACTIVE" \in RunState
    BY <1>5, <1>8 DEF RunState
  <2>7. k = "approve" /\ Top # Continuation => Log \o t \in Evidence
    <3>1. CASE Top = "policy_requires_review"
      BY <1>1, <3>1 DEF IInv, PendingInv, Evidence
    <3>2. CASE Top = OfPlaceholder
      <4>1. PICK q \in Requested : Log = q \o ToReview
        BY <1>1, <3>2 DEF IInv, PendingInv
      <4> QED
        BY <4>1 DEF Evidence
    <3> QED
      BY <1>2, <1>4, <3>1, <3>2 DEF Reason, Continuation, OfPlaceholder
  <2>8. /\ k = "placeholder" => Log \o t \in Requested
        /\ k = "replacement" => Log \o t \in {o \o <<"replacement">> : o \in Opened}
    <3>1. k \in {"placeholder", "replacement"} => Log \in Opened
      BY <1>1, <1>4 DEF IInv, PendingInv
    <3> QED
      BY <3>1 DEF Requested
  <2> HIDE DEF t
  <2>3. Last(t) # "continuation_stop" /\ stack # <<>>
    BY <1>1, <1>6, <2>1
  <2>4. CASE k = "reject"
    <3>1. pc' = "return" /\ Last(t) = "reject"
      BY <1>5, <2>1, <2>4
    <3> QED
      BY <1>1, <1>2, <2>1, <2>2, <2>3, <3>1, PlainMove
  <2>5. CASE k = "approve"
    <3>1. pc' = "accept" /\ (Top # Continuation => Log \o t \in Evidence)
      BY <1>5, <2>5, <2>7
    <3>2. Top # Continuation => ~ Settled /\ res.kind # "none" /\ res.text # "none"
      BY <1>1, <1>2, <1>4, <2>5 DEF IInv, PendingInv, Reason, Continuation, OfPlaceholder
    <3> QED
      BY <1>1, <1>2, <2>1, <2>2, <2>3, <3>1, <3>2, PlainMove
  <2>6. CASE k = "placeholder" \/ k = "replacement"
    <3>1. /\ pc' \in {"placeholder", "validate"} /\ Top \in OfArtifact /\ ~ Settled
          /\ pc' = "placeholder" => Log \o t \in Requested
          /\ pc' = "validate" => Log \o t \in {o \o <<"replacement">> : o \in Opened}
      BY <1>2, <1>4, <1>5, <2>6, <2>8 DEF OfArtifact, Continuation
    <3> QED
      BY <1>1, <1>2, <2>1, <2>2, <2>3, <3>1, PlainMove
  <2> QED
    BY <1>6, <1>8, <2>4, <2>5, <2>6
<1> QED
  BY <1>7, <1>8

\* The reviewer's request for a placeholder is refused, reviewed or granted.
LEMMA ResolvePlaceholderRequestKeeps ==
    ASSUME IInv, ResolvePlaceholderRequest
    PROVE  IInv'
<1>1. /\ pc = "placeholder" /\ Task > 0 /\ ~ Settled /\ state = "ACTIVE" /\ pending = "none"
      /\ stack # <<>> /\ Top \in OfArtifact /\ ~ ret /\ ret \in BOOLEAN /\ res \in TaskResult
      /\ Log \in Requested
      /\ UNCHANGED <<bookVars, runVars, ret>>
  BY DEF IInv, TypeOK, PlaceInv, PendingInv, ReviewPauses, StackInv, ResolvePlaceholderRequest
<1>2. ~ Contains(Log, "provenance") /\ Top # Continuation
  BY <1>1, UnsettledIsOpen DEF OfArtifact, Continuation
<1>3. ASSUME res' = [res EXCEPT !.kind = "placeholder"]
      PROVE  res' \in TaskResult /\ res'.kind = "placeholder" /\ res'.text = res.text
  BY <1>1, <1>3 DEF TaskResult
<1>4. CASE pc' = "return" /\ UNCHANGED <<state, pending, records, stack, res>>
  <2>1. /\ BooksInv' /\ LedgerInv'
        /\ UNCHANGED <<Task, records, applied, appliedIds, accepted>>
        /\ Log' = Log /\ (Settled' <=> Settled)
    BY <1>1, <1>4, Kept
  <2>2. /\ \A i \in 1 .. Len(stack') : NestedAt(i)'
        /\ \A i \in 1 .. Len(stack') : stack'[i].reason = Continuation => Settled'
    BY <1>4, <2>1, SameStack
  <2>3. TypeOK'
    BY <1>1, <1>4, <2>1 DEF IInv, TypeOK, runVars
  <2>4. StackInv' /\ PendingInv' /\ StopIsExplained'
    BY <1>1, <1>4, <2>1, <2>2 DEF IInv, StackInv, PendingInv, ReviewPauses, StopIsExplained
  <2>5. PlaceInv'
    BY <1>1, <1>4, <2>1 DEF IInv, PlaceInv, Concluded
  <2> QED
    BY <2>1, <2>3, <2>4, <2>5 DEF IInv
<1>5. ASSUME NEW b \in {"policy_deny", "policy_allow"}, Record(<<b>>),
             \/ pc' = "return" /\ UNCHANGED res
             \/ /\ pc' = "accept" /\ b = "policy_allow" /\ res.text # "none"
                /\ res' = [res EXCEPT !.kind = "placeholder"],
             UNCHANGED <<state, pending, stack>>
      PROVE  IInv'
  <2> DEFINE t == <<b>>
  <2>1. Plain(t) /\ Last(t) = b
    BY PlainRecords DEF RecordKind
  <2>5. b = "policy_allow" => Log \o t \in Evidence
    BY <1>1 DEF Evidence
  <2> HIDE DEF t
  <2>2. Record(t)
    BY <1>5 DEF t
  <2>3. Last(t) # "continuation_stop" /\ state' # "STOPPED"
    BY <2>1, <1>1, <1>5
  <2>4. \/ pc' = "return" /\ res' \in TaskResult
        \/ /\ pc' = "accept" /\ Log \o t \in Evidence /\ res' \in TaskResult
           /\ res'.kind # "none" /\ res'.text # "none"
    BY <1>1, <1>3, <1>5, <2>5
  <2> QED
    BY <1>1, <1>2, <1>5, <2>1, <2>2, <2>3, <2>4, PlainMove DEF RunState
<1>6. CASE /\ res.text # "none" /\ res' = [res EXCEPT !.kind = "placeholder"]
           /\ EnterReview("placeholder_policy_requires_review", "placeholder",
                          <<"policy_review">>, "return")
  <2>1. /\ OfPlaceholder \in Reason /\ "policy_review" \in RecordKind \ {"artifact", "provenance"}
        /\ OfPlaceholder # Continuation
        /\ EnterReview(OfPlaceholder, "placeholder", <<"policy_review">>, "return")
        /\ OfPlaceholder \notin OfArtifact /\ OfPlaceholder # "policy_requires_review"
    BY <1>6 DEF OfPlaceholder, OfArtifact, Continuation, Reason, RecordKind
  <2>2. res' \in TaskResult /\ res'.kind # "none" /\ res'.text # "none"
    BY <1>3, <1>6
  <2>3. Log \o <<"policy_review", "review_entered">> \in {q \o ToReview : q \in Requested}
    BY <1>1 DEF ToReview
  <2> QED
    BY <1>1, <1>2, <2>1, <2>2, <2>3, EnterReviewKeeps
<1> QED
  BY <1>4, <1>5, <1>6 DEF ResolvePlaceholderRequest

\* Where an acceptance is concluded the run goes on or is complete, and the
\* activations are left alone.
LEMMA FinalizeKeeps ==
    ASSUME IInv, Task > 0, ~ Contains(Log, "provenance"), state = "ACTIVE",
           NEW before, Finalize(before),
           \/ /\ before = <<"artifact">> /\ Log \in Evidence
              /\ appliedIds' = appliedIds \union {Task}
           \/ before \in {<<>>, <<"policy_allow">>} /\ Settled /\ UNCHANGED appliedIds,
           applied' \in Seq([task : Nat, kind : ArtifactKind,
                             text : {"block", "candidate", "replacement"}]),
           Task' = Task => BooksInv',
           UNCHANGED <<pending, res, runVars, stack>>, ret' \in BOOLEAN,
           pc' = IF stack = <<>> THEN "loop" ELSE "return"
    PROVE  IInv'
<1>1. /\ LedgerInv' /\ Task' = Task /\ records' \in Seq(Seq(RecordKind))
      /\ Log' # <<>> /\ Last(Log') = "provenance" /\ Contains(Log', "provenance")
      /\ \A u \in 1 .. Task : u # Task => records'[u] = records[u]
  BY FinalLedger DEF IInv
<1>2. pending' = "none" /\ state' \in {"ACTIVE", "COMPLETED"}
  BY DEF IInv, PendingInv, ReviewPauses, Finalize
<1>3. Settled' /\ (Settled => Settled') /\ appliedIds' \subseteq appliedIds \union {Task}
  BY <1>1 DEF Settled
<1>4. /\ \A i \in 1 .. Len(stack') : NestedAt(i)'
      /\ \A i \in 1 .. Len(stack') : stack'[i].reason = Continuation => Settled'
  BY <1>3, SameStack
<1>5. TypeOK'
  <2>1. Task \in 1 .. Task /\ accepted' \in Nat
    BY DEF IInv, TypeOK, Finalize, Task
  <2>2. appliedIds' \subseteq 1 .. Task'
    BY <2>1, <1>1, <1>3 DEF IInv, TypeOK
  <2> QED
    BY <2>1, <2>2, <1>1, <1>2 DEF IInv, TypeOK, runVars, RunState, Terminal
<1>6. StackInv'
  BY <1>4 DEF StackInv
<1>7. PendingInv'
  BY <1>2 DEF PendingInv, ReviewPauses, OfArtifact, Continuation, OfPlaceholder
<1>8. PlaceInv'
  <2>1. Concluded(Task)'
    BY <1>1 DEF Concluded, Log
  <2>2. \A u \in appliedIds' : u # Task' => Concluded(u)'
    BY <1>1, <1>3 DEF IInv, TypeOK, PlaceInv, Concluded
  <2>3. pc' \in {"loop", "return"}
    OBVIOUS
  <2> QED
    BY <2>1, <2>2, <2>3, <1>1, <1>3 DEF PlaceInv
<1>9. StopIsExplained'
  BY <1>1, <1>2 DEF StopIsExplained, Log
<1> QED
  BY <1>1, <1>5, <1>6, <1>7, <1>8, <1>9 DEF IInv

\* An accepted response concludes the continuation or leads to the integration.
LEMMA AcceptResponseKeeps ==
    ASSUME IInv, AcceptResponse
    PROVE  IInv'
<1>1. pc = "accept" /\ stack # <<>> /\ Task > 0 /\ UNCHANGED <<res, runVars, stack>>
  BY DEF IInv, StackInv, PlaceInv, AcceptResponse
<1>2. CASE Top = Continuation
  <2>1. /\ Finalize(<<>>) /\ pc' = "return" /\ ret' = TRUE
        /\ UNCHANGED <<pending, applied, appliedIds>>
    BY <1>2 DEF AcceptResponse, Top, Continuation
  <2>2. state = "ACTIVE" /\ ~ Contains(Log, "provenance")
    BY <1>1, <1>2 DEF IInv, PlaceInv
  <2>3. Settled
    <3>1. Len(stack) \in 1 .. 3 /\ Last(stack) = stack[Len(stack)]
      BY <1>1, Innermost
    <3>2. Len(stack) \in 1 .. Len(stack)
      BY <3>1
    <3> QED
      BY <3>1, <3>2, <1>2 DEF IInv, StackInv, Top
  <2>4. Task' = Task => BooksInv'
    BY <2>1 DEF IInv, BooksInv, AppliedOnce, Settled
  <2>5. applied' \in Seq([task : Nat, kind : ArtifactKind, text : {"block", "candidate", "replacement"}])
    BY <2>1 DEF IInv, TypeOK
  <2> QED
    BY <1>1, <2>1, <2>2, <2>3, <2>4, <2>5, FinalizeKeeps
<1>3. CASE Top # Continuation
  <2>1. pc' = "apply" /\ UNCHANGED <<state, pending, bookVars, records, ret>>
    BY <1>3 DEF AcceptResponse, Top, Continuation
  <2>2. /\ BooksInv' /\ LedgerInv'
        /\ UNCHANGED <<Task, records, applied, appliedIds, accepted>>
        /\ Log' = Log /\ (Settled' <=> Settled)
    BY <2>1, Kept
  <2>3. /\ \A i \in 1 .. Len(stack') : NestedAt(i)'
        /\ \A i \in 1 .. Len(stack') : stack'[i].reason = Continuation => Settled'
        /\ Top' = Top
    BY <1>1, <2>2, SameStack
  <2>4. TypeOK'
    BY <1>1, <2>1, <2>2 DEF IInv, TypeOK, runVars
  <2>5. StackInv' /\ PendingInv' /\ StopIsExplained'
    BY <1>1, <2>1, <2>2, <2>3 DEF IInv, StackInv, PendingInv, ReviewPauses, StopIsExplained
  <2>6. ReadyToApply'
    BY <1>1, <1>3, <2>1, <2>2 DEF IInv, PlaceInv, ReadyToApply, Concluded
  <2>7. PlaceInv'
    BY <1>1, <1>3, <2>1, <2>2, <2>3, <2>6 DEF IInv, PlaceInv, Concluded
  <2> QED
    BY <2>2, <2>4, <2>5, <2>7 DEF IInv
<1> QED
  BY <1>2, <1>3

\* The artifact is integrated, and its continuation is gated or concluded.
LEMMA ApplyAcceptedArtifactKeeps ==
    ASSUME IInv, ApplyAcceptedArtifact
    PROVE  IInv'
<1>1. /\ pc = "apply" /\ Task > 0 /\ ~ Settled /\ UNCHANGED <<pending, res, runVars, stack>>
      /\ res.kind # "none" /\ res.text # "none" /\ appliedIds' = appliedIds \union {Task}
      /\ applied' = Append(applied, [task |-> Task, kind |-> res.kind, text |-> res.text])
  BY DEF IInv, PlaceInv, ApplyAcceptedArtifact, Settled
<1>2. /\ state = "ACTIVE" /\ Log \in Evidence /\ ~ Contains(Log, "provenance")
      /\ stack # <<>> => Top # Continuation
  BY <1>1, UnsettledIsOpen DEF IInv, PlaceInv, ReadyToApply
<1>3. res.kind \in ArtifactKind /\ res.text \in {"block", "candidate", "replacement"}
  BY <1>1 DEF IInv, TypeOK, TaskResult, ArtifactKind
<1>4. /\ Task' = Task => BooksInv'
      /\ applied' \in Seq([task : Nat, kind : ArtifactKind, text : {"block", "candidate", "replacement"}])
  <2>1. applied' \in Seq([task : Nat, kind : ArtifactKind, text : {"block", "candidate", "replacement"}])
    <3>1. [task |-> Task, kind |-> res.kind, text |-> res.text]
              \in [task : Nat, kind : ArtifactKind, text : {"block", "candidate", "replacement"}]
      BY <1>3 DEF IInv, TypeOK, Task
    <3> QED
      BY <1>1, <3>1, Pushed DEF IInv, TypeOK
  <2>2. Task' = Task => BooksInv'
    BY <1>1, <1>3, BooksGrow DEF IInv
  <2> QED
    BY <2>1, <2>2
<1>5. CASE Record(<<"artifact">>) /\ pc' = "continuation" /\ UNCHANGED <<state, accepted, ret>>
  <2>1. LedgerInv' /\ ~ Contains(Log', "provenance")
    BY <1>1, <1>2, <1>5, ArtifactLedger DEF IInv
  <2> DEFINE t == <<"artifact">>
  <2>2. t \in Seq(RecordKind) /\ t # <<>> /\ Last(t) = "artifact"
    BY DEF RecordKind, Last
  <2>3. Record(t)
    BY <1>5
  <2> HIDE DEF t
  <2>4. /\ records' \in Seq(Seq(RecordKind)) /\ Task' = Task /\ Task \in 1 .. Task
        /\ \A u \in 1 .. Task : u # Task => records'[u] = records[u]
        /\ Log' # <<>> /\ Last(Log') = Last(t)
    BY <1>1, <2>2, <2>3, Recorded DEF IInv, TypeOK
  <2>5. Settled'
    BY <1>1, <2>4 DEF Settled
  <2>6. /\ \A i \in 1 .. Len(stack') : NestedAt(i)'
        /\ \A i \in 1 .. Len(stack') : stack'[i].reason = Continuation => Settled'
        /\ Top' = Top
    BY <1>1, <2>5, SameStack
  <2>7. TypeOK'
    BY <1>1, <1>4, <1>5, <2>4 DEF IInv, TypeOK, runVars
  <2>8. StackInv'
    BY <1>5, <2>6 DEF StackInv
  <2>9. PendingInv'
    BY <1>1, <1>2, <1>5 DEF IInv, PendingInv, ReviewPauses, OfArtifact, Continuation,
       OfPlaceholder
  <2>10. PlaceInv'
    <3>1. \A u \in appliedIds' : u # Task' => Concluded(u)'
      BY <1>1, <2>4 DEF IInv, TypeOK, PlaceInv, Concluded
    <3> QED
      BY <3>1, <1>1, <1>2, <1>5, <2>1, <2>2, <2>4, <2>5, <2>6 DEF PlaceInv
  <2>11. StopIsExplained'
    BY <1>2, <1>5, <2>2, <2>4 DEF StopIsExplained, Log
  <2> QED
    BY <1>4, <2>1, <2>4, <2>7, <2>8, <2>9, <2>10, <2>11 DEF IInv
<1>6. CASE Finalize(<<"artifact">>) /\ DoneApply(stack)
  <2>1. ret' \in BOOLEAN /\ pc' = IF stack = <<>> THEN "loop" ELSE "return"
    BY <1>6 DEF DoneApply
  <2> QED
    BY <1>1, <1>2, <1>4, <1>6, <2>1, FinalizeKeeps
<1> QED
  BY <1>5, <1>6 DEF ApplyAcceptedArtifact

\* The continuation is denied, reviewed or concluded.
LEMMA GateContinuationKeeps ==
    ASSUME IInv, GateContinuation
    PROVE  IInv'
<1>1. /\ pc = "continuation" /\ Task > 0 /\ Settled /\ state = "ACTIVE" /\ pending = "none"
      /\ ~ Contains(Log, "provenance") /\ res \in TaskResult
      /\ stack # <<>> => Top # Continuation
      /\ UNCHANGED <<res, applied, appliedIds, runVars>>
  BY DEF IInv, TypeOK, PlaceInv, PendingInv, ReviewPauses, GateContinuation
<1>2. CASE /\ Record(<<"policy_deny", "continuation_stop">>) /\ state' = "STOPPED"
           /\ DoneApply(stack) /\ UNCHANGED <<pending, accepted, stack>>
  <2> DEFINE t == <<"policy_deny", "continuation_stop">>
  <2>1. Plain(t) /\ Last(t) = "continuation_stop"
    BY PlainRecords DEF RecordKind
  <2> HIDE DEF t
  <2>2. /\ Record(t) /\ ret' \in BOOLEAN /\ pc' = IF stack = <<>> THEN "loop" ELSE "return"
        /\ UNCHANGED bookVars
    BY <1>1, <1>2 DEF t, DoneApply, bookVars
  <2> QED
    BY <1>1, <1>2, <2>1, <2>2, PlainMove DEF RunState, Terminal
<1>3. CASE /\ EnterReview("continuation_policy_requires_review", "apply", <<"policy_review">>,
                          IF stack = <<>> THEN "loop" ELSE "return")
           /\ ret' = (stack # <<>>) /\ UNCHANGED accepted
  <2> DEFINE back == IF stack = <<>> THEN "loop" ELSE "return"
  <2>1. /\ Continuation \in Reason /\ "policy_review" \in RecordKind \ {"artifact", "provenance"}
        /\ Continuation \notin {"policy_requires_review", OfPlaceholder} \union OfArtifact
        /\ EnterReview(Continuation, "apply", <<"policy_review">>, back)
        /\ ret' \in BOOLEAN /\ UNCHANGED bookVars
    BY <1>1, <1>3 DEF OfPlaceholder, OfArtifact, Continuation, Reason, RecordKind, bookVars
  <2>2. /\ stack = <<>> => back = "loop"
        /\ stack # <<>> => back = "return"
    OBVIOUS
  <2> HIDE DEF back
  <2> QED
    BY <1>1, <2>1, <2>2, EnterReviewKeeps
<1>4. CASE Finalize(<<"policy_allow">>) /\ DoneApply(stack) /\ UNCHANGED <<pending, stack>>
  <2>1. ret' \in BOOLEAN /\ pc' = IF stack = <<>> THEN "loop" ELSE "return"
    BY <1>4 DEF DoneApply
  <2>2. Task' = Task => BooksInv'
    BY <1>1 DEF IInv, BooksInv, AppliedOnce, Settled
  <2>3. applied' \in Seq([task : Nat, kind : ArtifactKind, text : {"block", "candidate", "replacement"}])
    BY <1>1 DEF IInv, TypeOK
  <2> QED
    BY <1>1, <1>4, <2>1, <2>2, <2>3, FinalizeKeeps
<1> QED
  BY <1>2, <1>3, <1>4 DEF GateContinuation

\* Every step of the orchestrator and its callers keeps the invariant.
LEMMA StepKeeps ==
    ASSUME IInv, [Next]_vars
    PROVE  IInv'
<1>1. CASE UNCHANGED vars
  <2>1. UNCHANGED <<records, bookVars, runVars, state, pending, res, pc, stack, ret, failure>>
    BY <1>1 DEF vars, bookVars, runVars
  <2>2. BooksInv' /\ LedgerInv' /\ UNCHANGED <<Task, Log>> /\ (Settled' <=> Settled)
    BY <2>1, Kept
  <2>3. TypeOK'
    BY <2>1, <2>2 DEF IInv, TypeOK, bookVars, runVars
  <2>4. StackInv' /\ PendingInv' /\ StopIsExplained'
    BY <2>1, <2>2, SameStack DEF IInv, StackInv, PendingInv, ReviewPauses, StopIsExplained
  <2>5. PlaceInv'
    BY <2>1, <2>2 DEF IInv, PlaceInv, ReadyToApply, Concluded, Top, bookVars
  <2> QED
    BY <2>2, <2>3, <2>4, <2>5 DEF IInv
<1> QED
  BY <1>1, NextTaskKeeps, NoNextTaskKeeps, LeaveLoopKeeps, ExitKeeps, RunTaskKeeps,
     GateOrReviewKeeps, HandleResponseKeeps, ValidateReplacementKeeps,
     ResolvePlaceholderRequestKeeps, AcceptResponseKeeps, ReturnKeeps, SkipApplyKeeps,
     ApplyAcceptedArtifactKeeps, GateContinuationKeeps, RaiseKeeps, RunUntilTerminalKeeps,
     ResumeFromReviewKeeps DEF Next, Step, Rest

\* A fresh run satisfies the invariant.
LEMMA InitKeeps ==
    ASSUME Init
    PROVE  IInv
<1>1. /\ records = <<>> /\ Task = 0 /\ applied = <<>> /\ stack = <<>> /\ appliedIds = {}
      /\ Len(stack) = 0 /\ DOMAIN records = {} /\ DOMAIN applied = {}
  BY DEF Init, Task
<1>2. TypeOK
  <2>1. NoResult \in TaskResult
    BY DEF NoResult, TaskResult
  <2>2. /\ applied \in Seq([task : Nat, kind : ArtifactKind, text : {"block", "candidate", "replacement"}])
        /\ records \in Seq(Seq(RecordKind)) /\ stack \in Seq(Frame) /\ Len(stack) <= 3
        /\ appliedIds \subseteq 1 .. Task
    BY <1>1
  <2>3. 0 \in 0 .. MaxSteps /\ 0 \in 0 .. MaxRuns
    BY RunAssumption
  <2> QED
    BY <1>1, <2>1, <2>2, <2>3 DEF Init, TypeOK, RunState, FailureKind, Frame
<1>3. Cardinality(Proven) = 0
  BY <1>1, FS_EmptySet DEF Proven
<1>4. LedgerInv
  BY <1>1, <1>3 DEF Init, LedgerInv, Proven
<1>5. BooksInv
  BY <1>1 DEF BooksInv, AppliedOnce, Settled
<1>6. StackInv /\ PendingInv /\ PlaceInv /\ StopIsExplained
  BY <1>1 DEF Init, StackInv, PendingInv, ReviewPauses, PlaceInv, StopIsExplained, Settled,
     Continuation, OfPlaceholder, OfArtifact
<1> QED
  BY <1>2, <1>4, <1>5, <1>6 DEF IInv

-----------------------------------------------------------------------------
(* The theorems                                                            *)

\* The invariant of the orchestrator is inductive.
THEOREM OrchestratorInductive == Spec => []IInv
<1>1. Init => IInv
  BY InitKeeps
<1>2. IInv /\ [Next]_vars => IInv'
  BY StepKeeps
<1> QED
  BY <1>1, <1>2, PTL DEF Spec

\* The run, its records and its activations keep their types; reviews nest at
\* most three deep.
THEOREM OrchestratorTyped == Spec => []TypeOK
<1>1. IInv => TypeOK
  BY DEF IInv
<1> QED
  BY <1>1, OrchestratorInductive, PTL

\* pending_review and AWAITING_REVIEW go together, also after an exception.
THEOREM PendingIsAwaiting == Spec => []ReviewPauses
<1>1. IInv => ReviewPauses
  BY DEF IInv, PendingInv
<1> QED
  BY <1>1, OrchestratorInductive, PTL

\* The artifact of a task is integrated at most once, and in the order of tasks.
THEOREM IntegratedOnce == Spec => []AppliedOnce
<1>1. IInv => AppliedOnce
  BY DEF IInv, BooksInv
<1> QED
  BY <1>1, OrchestratorInductive, PTL

\* No artifact is integrated without the evidence for it right before it, and nothing
\* else.
THEOREM NothingUnvetted == Spec => []Vetted
<1>1. IInv => Vetted
  <2> SUFFICES ASSUME IInv, NEW t \in DOMAIN records, NEW i \in DOMAIN records[t],
                      records[t][i] = "artifact"
               PROVE  SubSeq(records[t], 1, i - 1) \in Evidence
    BY DEF Vetted
  <2>1. VettedLog(records[t]) /\ records[t] \in Seq(RecordKind)
    BY ElementOfSeq DEF IInv, LedgerInv, TypeOK
  <2>2. i \in 1 .. Len(records[t])
    BY <2>1
  <2> QED
    BY <2>1, <2>2 DEF VettedLog
<1> QED
  BY <1>1, OrchestratorInductive, PTL

\* accepted_artifact_count counts the provenance records, each the conclusion of
\* an integrated artifact.
THEOREM CountIsProven == Spec => []AcceptedHasProvenance
<1>1. IInv => AcceptedHasProvenance
  <2> SUFFICES ASSUME IInv PROVE AcceptedHasProvenance
    OBVIOUS
  <2> DEFINE Places(t, k) == {i \in DOMAIN records[t] : records[t][i] = k}
  <2>1. accepted = Cardinality(Proven)
    BY DEF IInv, LedgerInv
  <2>2. ASSUME NEW t \in Proven
        PROVE  /\ Cardinality(Places(t, "provenance")) = 1
               /\ \A i \in Places(t, "provenance") :
                     /\ records[t][i - 1] \in {"continuation", "continuation_rerun"}
                     /\ \E j \in Places(t, "artifact") : j < i - 1
    <3>1. t \in DOMAIN records /\ Contains(records[t], "provenance")
      BY DEF Proven
    <3>2. ProvenLog(records[t]) /\ records[t] \in Seq(RecordKind)
      BY <3>1, ElementOfSeq DEF IInv, LedgerInv, TypeOK
    <3>3. DOMAIN records[t] = 1 .. Len(records[t]) /\ Len(records[t]) \in Nat
      BY <3>2
    <3>4. Places(t, "provenance") = {Len(records[t])}
      BY <3>1, <3>2, <3>3 DEF Contains, ProvenLog
    <3>5. Cardinality(Places(t, "provenance")) = 1
      BY <3>4, FS_Singleton
    <3>6. ASSUME NEW i \in Places(t, "provenance")
          PROVE  /\ records[t][i - 1] \in {"continuation", "continuation_rerun"}
                 /\ \E j \in Places(t, "artifact") : j < i - 1
      <4>1. /\ i \in 1 .. Len(records[t]) /\ i = Len(records[t])
            /\ records[t][i - 1] \in {"continuation", "continuation_rerun"}
            /\ \E j \in 1 .. i - 2 : records[t][j] = "artifact"
        BY <3>2, <3>3 DEF ProvenLog
      <4>2. PICK j \in 1 .. i - 2 : records[t][j] = "artifact"
        BY <4>1
      <4>3. j \in Places(t, "artifact") /\ j < i - 1
        BY <4>1, <4>2, <3>3
      <4> QED
        BY <4>1, <4>3
    <3> QED
      BY <3>5, <3>6
  <2> QED
    BY <2>1, <2>2 DEF AcceptedHasProvenance, Proven
<1> QED
  BY <1>1, OrchestratorInductive, PTL

\* A stop is the last thing that is recorded, and nothing else is a stop.
THEOREM StopsAreExplained == Spec => []StopIsExplained
<1>1. IInv => StopIsExplained
  BY DEF IInv
<1> QED
  BY <1>1, OrchestratorInductive, PTL

\* A run that ended keeps its state.
LEMMA TerminalStep ==
    ASSUME IInv, [Next]_vars, state \in Terminal
    PROVE  state' = state
<1>0. state \notin {"ACTIVE", "AWAITING_REVIEW"}
  BY DEF Terminal
<1>1. CASE UNCHANGED vars
  BY <1>1 DEF vars
<1>2. CASE RunTask \/ GateOrReview \/ ResolvePlaceholderRequest \/ GateContinuation
  BY <1>0, <1>2 DEF IInv, PlaceInv, RunTask, GateOrReview, ResolvePlaceholderRequest,
     GateContinuation
<1>3. CASE HandleResponse \/ NoNextTask
  BY <1>0, <1>3 DEF IInv, PlaceInv, HandleResponse, NoNextTask
<1>4. CASE AcceptResponse
  BY <1>0, <1>4 DEF IInv, PlaceInv, AcceptResponse, Finalize, Top, Continuation
<1>5. CASE ApplyAcceptedArtifact
  <2>1. ~ Settled /\ pc = "apply"
    BY <1>5 DEF ApplyAcceptedArtifact, Settled
  <2> QED
    BY <1>0, <2>1 DEF IInv, PlaceInv, ReadyToApply
<1>6. CASE \/ NextTask \/ LeaveLoop \/ Exit \/ ValidateReplacement \/ Return \/ SkipApply
           \/ Raise \/ RunUntilTerminal \/ ResumeFromReview
  BY <1>6 DEF NextTask, LeaveLoop, Exit, ValidateReplacement, Return, SkipApply, Raise,
     RunUntilTerminal, ResumeFromReview
<1> QED
  BY <1>1, <1>2, <1>3, <1>4, <1>5, <1>6 DEF Next, Step, Rest

\* Nothing revives or relabels a run that stopped, completed or finished.
THEOREM TerminalStays == Spec => TerminalAbsorbing
<1>1. IInv /\ [Next]_vars => [(state \in Terminal) => state' = state]_state
  BY TerminalStep
<1> QED
  BY <1>1, OrchestratorInductive, PTL DEF Spec, TerminalAbsorbing

-----------------------------------------------------------------------------
(* An engine that never asks for a rerun                                   *)

\* No continuation is gated, so nothing comes between an integration and its
\* conclusion.
Ungated ==
    /\ ~ (res.rerun /\ res.depth > 0)
    /\ pc # "continuation" /\ pending # Continuation
    /\ \A i \in 1 .. Len(stack) : stack[i].reason # Continuation
    /\ \A u \in appliedIds : Contains(records[u], "provenance")

\* What is recorded is not forgotten.
LEMMA LogGrows ==
    ASSUME TypeOK, Task > 0, NEW t \in Seq(RecordKind), t # <<>>, Record(t)
    PROVE  /\ Task' = Task
           /\ \A k : Contains(Log', k) <=> Contains(Log, k) \/ Contains(t, k)
BY Recorded DEF TypeOK

\* What is concluded stays concluded when more is recorded.
LEMMA ConcludedStays ==
    ASSUME TypeOK, Task > 0, NEW t \in Seq(RecordKind), t # <<>>, Record(t),
           NEW u \in appliedIds, Contains(records[u], "provenance")
    PROVE  Contains(records'[u], "provenance")
<1>1. /\ Log' = records'[Task] /\ u \in 1 .. Task
      /\ \A v \in 1 .. Task : v # Task => records'[v] = records[v]
      /\ \A k : Contains(Log', k) <=> Contains(Log, k) \/ Contains(t, k)
  BY Recorded DEF TypeOK, Log
<1> QED
  BY <1>1 DEF Log

\* A review of something else than the continuation leaves it ungated.
LEMMA UngatedRecord ==
    ASSUME IInv, Ungated, Task > 0, NEW t \in Seq(RecordKind), t # <<>>, Record(t),
           UNCHANGED bookVars, ~ (res'.rerun /\ res'.depth > 0),
           pc' # "continuation", pending' # Continuation,
           \/ stack' = stack
           \/ \E f \in Frame : f.reason # Continuation /\ stack' = Append(stack, f)
    PROVE  Ungated'
<1>1. \A u \in appliedIds' : Contains(records'[u], "provenance")
  BY ConcludedStays DEF IInv, Ungated, bookVars
<1>2. \A i \in 1 .. Len(stack') : stack'[i].reason # Continuation
  <2>1. CASE stack' = stack
    BY <2>1 DEF Ungated
  <2>2. ASSUME NEW f \in Frame, f.reason # Continuation, stack' = Append(stack, f)
        PROVE  \A i \in 1 .. Len(stack') : stack'[i].reason # Continuation
    <3>1. stack \in Seq(Frame)
      BY DEF IInv, TypeOK, Frame
    <3>2. /\ Len(stack') = Len(stack) + 1 /\ stack'[Len(stack) + 1] = f /\ Len(stack) \in Nat
          /\ \A i \in 1 .. Len(stack) : stack'[i] = stack[i]
      BY <2>2, <3>1, Pushed
    <3>3. \A i \in 1 .. Len(stack') : i \in 1 .. Len(stack) \/ i = Len(stack) + 1
      BY <3>2
    <3> QED
      BY <2>2, <3>2, <3>3 DEF Ungated
  <2> QED
    BY <2>1, <2>2
<1> QED
  BY <1>1, <1>2 DEF Ungated

\* With an engine that never asks for a rerun, no step leaves a loose integration.
LEMMA UngatedKeeps ==
    ASSUME ContinuationsUngated, IInv, Ungated, [Next]_vars
    PROVE  Ungated'
<1>t. TypeOK
  BY DEF IInv
<1>s. stack \in Seq(Frame)
  BY <1>t DEF TypeOK, Frame
<1>f. \A reason \in Reason, from \in {"main", "placeholder"} :
          [reason |-> reason, from |-> from, kind |-> res.kind] \in Frame
  BY <1>t DEF TypeOK, Frame, TaskResult, ArtifactKind
<1>1. CASE \/ UNCHANGED vars \/ NoNextTask \/ LeaveLoop \/ Exit \/ SkipApply
           \/ RunUntilTerminal \/ ValidateReplacement
  <2>1. UNCHANGED <<appliedIds, records, pending, stack>>
    BY <1>1 DEF vars, NoNextTask, LeaveLoop, Exit, SkipApply, RunUntilTerminal,
       ValidateReplacement, bookVars
  <2>2. pc' # "continuation" /\ res'.rerun = res.rerun /\ res'.depth = res.depth
    BY <1>1, <1>t DEF vars, NoNextTask, LeaveLoop, Exit, SkipApply, RunUntilTerminal,
       ValidateReplacement, Ungated, DoneApply, TypeOK, TaskResult
  <2> QED
    BY <2>1, <2>2 DEF Ungated
<1>2. CASE Raise
  <2>1. Len(stack') = 0
    BY <1>2 DEF Raise
  <2> QED
    BY <1>2, <2>1 DEF Raise, Ungated, bookVars
<1>3. CASE ResumeFromReview
  <2>1. Len(stack') = 1 /\ stack'[1].reason = pending
    BY <1>3 DEF ResumeFromReview
  <2> QED
    BY <1>3, <2>1 DEF ResumeFromReview, Ungated, bookVars
<1>4. CASE Return
  <2>1. stack # <<>> /\ stack' = Front(stack) /\ pc' # "continuation"
        /\ UNCHANGED <<appliedIds, records, pending>>
        /\ res'.rerun = res.rerun /\ res'.depth = res.depth
    BY <1>4, <1>t DEF Return, DoneApply, bookVars, IInv, StackInv, TypeOK, TaskResult
  <2>2. /\ Len(stack') = Len(stack) - 1 /\ Len(stack) \in Nat
        /\ \A i \in 1 .. Len(stack) - 1 : stack'[i] = stack[i]
    BY <1>s, <2>1, Popped
  <2> QED
    BY <2>1, <2>2 DEF Ungated
<1>5. CASE NextTask
  <2>1. /\ UNCHANGED <<appliedIds, pending, res, stack>> /\ pc' = "engine"
        /\ records' = Append(records, <<>>)
    BY <1>5 DEF NextTask, bookVars
  <2>2. \A u \in appliedIds : records'[u] = records[u]
    <3>1. <<>> \in Seq(RecordKind) /\ records \in Seq(Seq(RecordKind))
      BY <1>t DEF TypeOK
    <3> QED
      BY <1>t, <2>1, <3>1, Pushed DEF TypeOK, Task
  <2> QED
    BY <2>1, <2>2 DEF Ungated
<1>6. CASE RunTask
  <2>1. Task > 0 /\ UNCHANGED bookVars
    BY <1>6 DEF IInv, PlaceInv, RunTask
  <2>2. ~ (res'.rerun /\ res'.depth > 0)
    BY <1>6 DEF RunTask, ContinuationsUngated
  <2>3. \E t \in Seq(RecordKind) : t # <<>> /\ Record(t)
    <3>1. /\ Plain(<<"task", "continuation_stop">>) /\ Plain(<<"task">>)
          /\ Plain(<<"task", "review_entered">>)
          /\ Append(<<"task">>, "review_entered") = <<"task", "review_entered">>
      BY PlainRecords DEF RecordKind
    <3> QED
      BY <1>6, <3>1 DEF RunTask, EnterReview, Plain
  <2>4. /\ pc' # "continuation" /\ pending' # Continuation
        /\ \/ stack' = stack
           \/ stack' = Append(stack, [reason |-> "task_escalated_requires_review",
                                      from |-> "main", kind |-> res.kind])
    BY <1>6 DEF RunTask, EnterReview, Ungated, Continuation
  <2> DEFINE f == [reason |-> "task_escalated_requires_review", from |-> "main", kind |-> res.kind]
  <2>5. f \in Frame /\ f.reason # Continuation
    BY <1>f DEF Reason, Continuation
  <2> HIDE DEF f
  <2>6. stack' = stack \/ stack' = Append(stack, f)
    BY <2>4 DEF f
  <2> QED
    BY <2>1, <2>2, <2>3, <2>4, <2>5, <2>6, UngatedRecord
<1>7. CASE GateOrReview
  <2>1. Task > 0 /\ UNCHANGED bookVars /\ res' = res /\ ~ (res.rerun /\ res.depth > 0)
    BY <1>7 DEF IInv, PlaceInv, GateOrReview, Ungated
  <2>2. \E t \in Seq(RecordKind) : t # <<>> /\ Record(t)
    <3>1. /\ Plain(<<"policy_deny">>) /\ Plain(<<"policy_allow">>)
          /\ Plain(<<"policy_review", "review_entered">>)
          /\ Append(<<"policy_review">>, "review_entered") = <<"policy_review", "review_entered">>
      BY PlainRecords DEF RecordKind
    <3> QED
      BY <1>7, <3>1 DEF GateOrReview, EnterReview, Plain
  <2> DEFINE f == [reason |-> "policy_requires_review", from |-> "main", kind |-> res.kind]
  <2>3. f \in Frame /\ f.reason # Continuation
    BY <1>f DEF Reason, Continuation
  <2>4. /\ pc' # "continuation" /\ pending' # Continuation
        /\ stack' = stack \/ stack' = Append(stack, f)
    BY <1>7 DEF GateOrReview, EnterReview, Ungated, Continuation
  <2> HIDE DEF f
  <2> QED
    BY <2>1, <2>2, <2>3, <2>4, UngatedRecord
<1>8. CASE HandleResponse
  <2>1. Task > 0 /\ UNCHANGED bookVars /\ res' = res /\ ~ (res.rerun /\ res.depth > 0)
        /\ stack' = stack /\ pending' = "none" /\ Top \in Reason
    BY <1>8, <1>t, Innermost DEF IInv, PlaceInv, StackInv, HandleResponse, Ungated, Top, Frame
  <2>2. PICK kind \in ResponseKind, hasText \in BOOLEAN :
            LET k == Guard(Top, kind, hasText) IN
            /\ Record(CASE k = "stop" -> <<"stop", "continuation_stop">>
                        [] OTHER -> <<k>>)
            /\ pc' = CASE k \in {"stop", "reject"} -> "return"
                       [] k = "approve" -> "accept"
                       [] k = "placeholder" -> "placeholder"
                       [] k = "replacement" -> "validate"
    BY <1>8 DEF HandleResponse, Top
  <2> DEFINE k == Guard(Top, kind, hasText)
  <2>3. k \in ResponseKind
    BY <2>1, GuardAdmits
  <2>4. pc' # "continuation"
    BY <2>2, <2>3 DEF ResponseKind
  <2>5. \E t \in Seq(RecordKind) : t # <<>> /\ Record(t)
    <3>1. /\ Plain(<<"stop", "continuation_stop">>)
          /\ \A a \in ResponseKind : Plain(<<a>>)
      BY PlainRecords DEF RecordKind, ResponseKind
    <3> QED
      BY <2>2, <2>3, <3>1 DEF Plain
  <2> HIDE DEF k
  <2> QED
    BY <2>1, <2>4, <2>5, UngatedRecord DEF Continuation
<1>9. CASE ResolvePlaceholderRequest
  <2>1. Task > 0 /\ UNCHANGED bookVars /\ res'.rerun = res.rerun /\ res'.depth = res.depth
        /\ ~ (res.rerun /\ res.depth > 0) /\ pending # Continuation
    BY <1>9, <1>t DEF IInv, PlaceInv, ResolvePlaceholderRequest, Ungated, TypeOK, TaskResult
  <2>2. CASE pc' = "return" /\ UNCHANGED <<state, pending, records, stack, res>>
    BY <2>1, <2>2 DEF Ungated, bookVars
  <2>3. CASE ~ (pc' = "return" /\ UNCHANGED <<state, pending, records, stack, res>>)
    <3>1. \E t \in Seq(RecordKind) : t # <<>> /\ Record(t)
      <4>1. /\ Plain(<<"policy_deny">>) /\ Plain(<<"policy_allow">>)
            /\ Plain(<<"policy_review", "review_entered">>)
            /\ Append(<<"policy_review">>, "review_entered") = <<"policy_review", "review_entered">>
        BY PlainRecords DEF RecordKind
      <4> QED
        BY <1>9, <2>3, <4>1 DEF ResolvePlaceholderRequest, EnterReview, Plain
    <3> DEFINE f == [reason |-> OfPlaceholder, from |-> "placeholder", kind |-> res.kind]
    <3>2. f \in Frame /\ f.reason # Continuation
      BY <1>f DEF Reason, Continuation, OfPlaceholder
    <3>3. /\ pc' # "continuation" /\ pending' # Continuation
          /\ stack' = stack \/ stack' = Append(stack, f)
      BY <1>9, <2>1 DEF ResolvePlaceholderRequest, EnterReview, Continuation, OfPlaceholder
    <3> HIDE DEF f
    <3> QED
      BY <2>1, <3>1, <3>2, <3>3, UngatedRecord
  <2> QED
    BY <2>2, <2>3
<1>10. CASE AcceptResponse
  <2>1. Top # Continuation
    <3>1. stack # <<>>
      BY <1>10 DEF AcceptResponse, IInv, StackInv
    <3>2. Len(stack) \in 1 .. 3 /\ Last(stack) = stack[Len(stack)]
      BY <3>1, Innermost
    <3>3. Len(stack) \in 1 .. Len(stack)
      BY <3>2
    <3> QED
      BY <3>2, <3>3 DEF Ungated, Top
  <2>2. pc' = "apply" /\ UNCHANGED <<appliedIds, records, pending, stack, res>>
    BY <1>10, <2>1 DEF AcceptResponse, Top, Continuation, bookVars
  <2> QED
    BY <2>2 DEF Ungated
<1>11. CASE ApplyAcceptedArtifact
  <2>1. /\ Finalize(<<"artifact">>) /\ Task > 0 /\ appliedIds' = appliedIds \union {Task}
        /\ UNCHANGED <<pending, res, stack>> /\ pc' \in {"loop", "return"}
    BY <1>11 DEF IInv, PlaceInv, ApplyAcceptedArtifact, Ungated, DoneApply
  <2> DEFINE c == IF res.rerun THEN "continuation_rerun" ELSE "continuation"
             t == <<"artifact">> \o <<c, "provenance">>
  <2>2. Record(t) /\ c \in {"continuation", "continuation_rerun"}
    BY <2>1 DEF Finalize
  <2> HIDE DEF c
  <2>3. t \in Seq(RecordKind) /\ t # <<>> /\ Contains(t, "provenance")
    BY <2>2, FinalRecords
  <2> HIDE DEF t
  <2>4. \A u \in appliedIds : Contains(records'[u], "provenance")
    BY <1>t, <2>1, <2>2, <2>3, ConcludedStays DEF Ungated
  <2>5. Contains(records'[Task], "provenance")
    <3>1. Task' = Task /\ Contains(Log', "provenance")
      BY <1>t, <2>1, <2>2, <2>3, LogGrows
    <3> QED
      BY <3>1 DEF Log
  <2> QED
    BY <2>1, <2>4, <2>5 DEF Ungated
<1>12. CASE GateContinuation
  BY <1>12 DEF GateContinuation, Ungated
<1> QED
  BY <1>1, <1>2, <1>3, <1>4, <1>5, <1>6, <1>7, <1>8, <1>9, <1>10, <1>11, <1>12
     DEF Next, Step, Rest

\* With an engine that never asks for a rerun, as ReplDeterministicTaskEngine, each
\* integration is concluded and proved before the run goes on, for every gate, in every
\* nesting of reviews and past every exception: a continuation review that is refused, or
\* a gate that raises over one, is the only way to what the run orchestrator_continuation
\* finds.
THEOREM NoLooseIntegration ==
    ASSUME ContinuationsUngated
    PROVE  Spec => []IntegrationConcluded
<1>1. Init => Ungated
  <2>1. Init => Len(stack) = 0 /\ appliedIds = {} /\ ~ res.rerun
    BY DEF Init, NoResult
  <2> QED
    BY <2>1 DEF Init, Ungated, Continuation
<1>2. IInv /\ Ungated /\ [Next]_vars => Ungated'
  BY UngatedKeeps
<1>3. Ungated => IntegrationConcluded
  BY DEF Ungated, IntegrationConcluded
<1> QED
  BY <1>1, <1>2, <1>3, OrchestratorInductive, PTL DEF Spec

-----------------------------------------------------------------------------
(* The rule-based gate                                                     *)

\* What the rules ask of the artifact that is about to be integrated.
Cleared ==
    /\ res.kind = "repair" /\ (failure \in HighRisk \/ res.depth > 0) =>
          Contains(Log, "approve") \/ Contains(Log, "replacement")
    /\ res.kind = "placeholder" =>
          /\ PlaceholderMode # "deny"
          /\ PlaceholderMode = "requires_review" => Contains(Log, "approve")
    /\ res.text = "block" => res.kind = "placeholder"

RiskInv ==
    /\ RiskReviewed
    /\ pc = "gate" => res.text # "block"
    /\ pending = "policy_requires_review" =>
          res.text # "block" /\ (res.kind = "placeholder" => PlaceholderMode # "deny")
    /\ pending = OfPlaceholder => res.kind = "placeholder" /\ PlaceholderMode # "deny"
    /\ ~ Settled /\ (pc = "apply" \/ (pc = "accept" /\ Top # Continuation)) => Cleared

\* A reviewed integration stays reviewed while the task is the current one.
LEMMA RiskStable ==
    ASSUME RiskReviewed, UNCHANGED <<applied, appliedIds, Task, failure>>, res'.depth = res.depth,
           \A k : Contains(Log, k) => Contains(Log', k)
    PROVE  RiskReviewed'
BY DEF RiskReviewed, Log

\* The rules, in the three places that ask the gate.
LEMMA Rules ==
    ASSUME RuleGated, TypeOK, NEW kind \in ArtifactKind \union {"none"}, NEW depth \in 0 .. 1,
           NEW reason \in {"task_artifact_evaluation", "review_placeholder_request"},
           NEW d \in Decisions(reason, kind, depth)
    PROVE  /\ kind = "placeholder" => d = PlaceholderMode
           /\ reason = "task_artifact_evaluation" /\ kind = "repair" /\ d = "allow" =>
                 failure \notin HighRisk /\ depth = 0
<1> DEFINE c == [failure |-> failure, artifact |-> kind, depth |-> depth, reason |-> reason]
<1>1. c \in PolicyContext
  BY DEF PolicyContext, TypeOK
<1>2. d = Decide(c)
  BY <1>1 DEF Decisions, RuleGated
<1> QED
  BY <1>2 DEF Decide, IsPlaceholder

\* A step that integrates nothing and has nothing integrated next.
LEMMA RiskKept ==
    ASSUME RiskReviewed', pc' \notin {"gate", "accept", "apply"}, pending' = "none"
    PROVE  RiskInv'
BY DEF RiskInv, OfPlaceholder

\* A step that leaves the artifact, its task and its records alone.
LEMMA RiskSame ==
    ASSUME RiskInv, UNCHANGED <<applied, appliedIds, records, failure, res, pending>>,
           pc' \notin {"gate", "accept", "apply"}
    PROVE  RiskInv'
<1>1. Task' = Task /\ Log' = Log
  BY DEF Task, Log
<1>2. RiskReviewed'
  BY <1>1, RiskStable DEF RiskInv
<1> QED
  BY <1>2 DEF RiskInv

\* With the rules as the gate, every step keeps what they ask for.
LEMMA RiskKeeps ==
    ASSUME RuleGated, BlockEscalated, IInv, RiskInv, [Next]_vars
    PROVE  RiskInv'
<1>t. TypeOK
  BY DEF IInv
<1>1. CASE UNCHANGED vars
  BY <1>1 DEF vars, RiskInv, RiskReviewed, Cleared, Settled, Task, Log, Top
<1>2. CASE NoNextTask \/ LeaveLoop \/ Exit \/ SkipApply \/ Raise \/ RunUntilTerminal \/ ResumeFromReview
  BY <1>2, RiskSame DEF NoNextTask, LeaveLoop, Exit, SkipApply, Raise, RunUntilTerminal,
     ResumeFromReview, DoneApply, bookVars, runVars
<1>3. CASE NextTask
  <2>1. ~ Settled' /\ pc' = "engine" /\ pending' = "none"
    <3>1. IInv' /\ pc' = "engine" /\ pending' = pending /\ state = "ACTIVE"
      BY <1>3, NextTaskKeeps DEF NextTask
    <3> QED
      BY <3>1 DEF IInv, PlaceInv, PendingInv, ReviewPauses
  <2>2. RiskReviewed'
    BY <2>1 DEF RiskReviewed, Settled
  <2> QED
    BY <2>1, <2>2, RiskKept
<1>4. CASE RunTask
  <2>1. /\ ~ Settled /\ UNCHANGED <<applied, appliedIds, failure>> /\ Task > 0
        /\ pending = "none" /\ stack = <<>>
    BY <1>4 DEF IInv, PlaceInv, PendingInv, ReviewPauses, StackInv, RunTask, bookVars, runVars
  <2>2. IInv'
    BY <1>4, RunTaskKeeps
  <2>3. PICK r \in Results :
            /\ res' = r
            /\ \/ pc' = "loop" /\ pending' = pending
               \/ r.outcome # "escalated" /\ pc' = "gate" /\ pending' = pending
               \/ pc' \in {"hook", "loop"} /\ pending' = "task_escalated_requires_review"
    BY <1>4 DEF RunTask, EnterReview
  <2>4. Task' = Task
    <3>1. Len(records') = Len(records)
      BY <1>4, <1>t DEF RunTask, EnterReview, Record, TypeOK
    <3> QED
      BY <3>1 DEF Task
  <2>5. RiskReviewed'
    BY <2>1, <2>4 DEF RiskReviewed, Settled
  <2>6. pc' = "gate" => res'.text # "block"
    BY <2>3 DEF BlockEscalated
  <2> QED
    BY <2>1, <2>3, <2>5, <2>6 DEF RiskInv, OfPlaceholder
<1>5. CASE GateOrReview
  <2>1. /\ pc = "gate" /\ ~ Settled /\ UNCHANGED <<applied, appliedIds, failure, res>> /\ Task > 0
        /\ pending = "none" /\ res.text # "block"
        /\ res.kind \in {"repair", "placeholder"} /\ res.depth \in 0 .. 1
    BY <1>5, <1>t DEF IInv, PlaceInv, PendingInv, ReviewPauses, GateOrReview, bookVars, runVars,
       RiskInv,
       TypeOK, TaskResult
  <2>2. Task' = Task
    <3>1. Len(records') = Len(records)
      BY <1>5, <1>t DEF GateOrReview, EnterReview, Record, TypeOK
    <3> QED
      BY <3>1 DEF Task
  <2>3. RiskReviewed'
    BY <2>1, <2>2 DEF RiskReviewed, Settled
  <2>4. \/ pc' = "loop" /\ pending' = pending
        \/ /\ pc' = "apply" /\ pending' = pending
           /\ "allow" \in Decisions("task_artifact_evaluation", res.kind, res.depth)
        \/ /\ pc' \in {"hook", "loop"} /\ pending' = "policy_requires_review"
           /\ "requires_review" \in Decisions("task_artifact_evaluation", res.kind, res.depth)
    BY <1>5 DEF GateOrReview, EnterReview
  <2>5. pc' = "apply" => Cleared'
    <3>1. ASSUME pc' = "apply"
          PROVE  /\ res.kind = "placeholder" => PlaceholderMode = "allow"
                 /\ res.kind = "repair" => failure \notin HighRisk /\ res.depth = 0
      BY <3>1, <1>t, <2>1, <2>4, Rules DEF ArtifactKind
    <3> QED
      BY <3>1, <2>1 DEF Cleared
  <2>6. pending' = "policy_requires_review" /\ res.kind = "placeholder" => PlaceholderMode # "deny"
    BY <1>t, <2>1, <2>4, Rules DEF ArtifactKind
  <2> QED
    BY <2>1, <2>3, <2>4, <2>5, <2>6 DEF RiskInv, OfPlaceholder
<1>6. CASE HandleResponse
  <2>1. /\ pc = "hook" /\ pending = Top /\ UNCHANGED <<applied, appliedIds, failure, res, stack>>
        /\ Task > 0 /\ pending' = "none" /\ stack # <<>> /\ Top \in Reason
    BY <1>6, <1>t DEF IInv, PlaceInv, PendingInv, ReviewPauses, StackInv, HandleResponse, bookVars,
       runVars, TypeOK
  <2>2. PICK kind \in ResponseKind, hasText \in BOOLEAN :
            LET k == Guard(Top, kind, hasText) IN
            /\ Record(CASE k = "stop" -> <<"stop", "continuation_stop">>
                        [] OTHER -> <<k>>)
            /\ pc' = CASE k \in {"stop", "reject"} -> "return"
                       [] k = "approve" -> "accept"
                       [] k = "placeholder" -> "placeholder"
                       [] k = "replacement" -> "validate"
    BY <1>6 DEF HandleResponse, Top
  <2> DEFINE k == Guard(Top, kind, hasText)
             t == IF k = "stop" THEN <<"stop", "continuation_stop">> ELSE <<k>>
  <2>3. k \in ResponseKind /\ (k = "approve" => Top # "task_escalated_requires_review")
    BY <2>1, GuardAdmits
  <2>4. /\ Record(t) /\ pc' \in {"return", "accept", "placeholder", "validate"}
        /\ pc' = "accept" => k = "approve"
    BY <2>2, <2>3 DEF ResponseKind
  <2>5. t \in Seq(RecordKind) /\ t # <<>> /\ (k = "approve" => Contains(t, "approve"))
    <3>1. CASE k = "stop"
      BY <3>1 DEF RecordKind, ResponseKind
    <3>2. CASE k # "stop"
      <4>1. t = <<k>> /\ k \in RecordKind
        BY <3>2, <2>3 DEF RecordKind, ResponseKind
      <4>2. Len(<<k>>) = 1 /\ <<k>>[1] = k /\ <<k>> \in Seq(RecordKind) /\ <<k>> # <<>>
        BY <4>1
      <4> QED
        BY <4>1, <4>2 DEF Contains
    <3> QED
      BY <3>1, <3>2
  <2> HIDE DEF k, t
  <2>6. /\ Task' = Task /\ \A a : Contains(Log', a) <=> Contains(Log, a) \/ Contains(t, a)
    BY <1>t, <2>1, <2>4, <2>5, LogGrows
  <2>7. RiskReviewed'
    BY <2>1, <2>6, RiskStable DEF RiskInv
  <2>8. pc' = "accept" /\ Top # Continuation => Cleared'
    <3>1. ASSUME pc' = "accept", Top # Continuation
          PROVE  /\ Contains(Log', "approve")
                 /\ res.text = "block" => res.kind = "placeholder"
                 /\ res.kind = "placeholder" => PlaceholderMode # "deny"
      BY <3>1, <2>1, <2>3, <2>4, <2>5, <2>6 DEF RiskInv, Reason, Continuation, OfPlaceholder
    <3> QED
      BY <3>1, <2>1 DEF Cleared
  <2>9. Top' = Top
    BY <2>1 DEF Top
  <2> QED
    BY <2>1, <2>4, <2>7, <2>8, <2>9 DEF RiskInv, OfPlaceholder
<1>7. CASE ValidateReplacement
  <2>1. /\ pc = "validate" /\ UNCHANGED <<applied, appliedIds, failure, records, pending, stack>>
        /\ pending = "none" /\ Log \in {o \o <<"replacement">> : o \in Opened} /\ Task > 0
    BY <1>7 DEF IInv, PlaceInv, PendingInv, ReviewPauses, ValidateReplacement, bookVars, runVars
  <2>2. /\ res'.depth = res.depth
        /\ \/ pc' = "return"
           \/ pc' = "accept" /\ res'.kind = "repair" /\ res'.text = "replacement"
    BY <1>7, <1>t DEF ValidateReplacement, TypeOK, TaskResult
  <2>3. Task' = Task /\ Log' = Log
    BY <2>1 DEF Task, Log
  <2>4. Contains(Log, "replacement")
    <3> DEFINE t == <<"replacement">>
    <3>1. t \in Seq(RecordKind) /\ t # <<>> /\ Contains(t, "replacement")
      <4>1. t \in Seq(RecordKind) /\ Len(t) = 1 /\ t[1] = "replacement"
        BY DEF RecordKind, ResponseKind
      <4> QED
        BY <4>1 DEF Contains
    <3>2. PICK o \in Opened : Log = o \o t
      BY <2>1
    <3>3. o \in Seq(RecordKind)
      <4>1. /\ <<"task">> \in Seq(RecordKind) /\ ToReview \in Seq(RecordKind) /\ ToReview # <<>>
            /\ <<"task", "review_entered">> \in Seq(RecordKind)
        BY DEF RecordKind, ToReview
      <4>2. <<"task">> \o ToReview \in Seq(RecordKind)
        BY <4>1, Joined
      <4> QED
        BY <4>1, <4>2 DEF Opened
    <3> HIDE DEF t
    <3> QED
      BY <3>1, <3>2, <3>3, Joined
  <2>5. RiskReviewed'
    BY <2>1, <2>2, <2>3, RiskStable DEF RiskInv
  <2>6. pc' = "accept" => Cleared'
    BY <2>2, <2>3, <2>4 DEF Cleared
  <2> QED
    BY <2>1, <2>2, <2>5, <2>6 DEF RiskInv, OfPlaceholder
<1>8. CASE ResolvePlaceholderRequest
  <2>1. /\ pc = "placeholder" /\ ~ Settled /\ UNCHANGED <<applied, appliedIds, failure>>
        /\ pending = "none" /\ Task > 0
    BY <1>8 DEF IInv, PlaceInv, PendingInv, ReviewPauses, ResolvePlaceholderRequest, bookVars,
       runVars
  <2>2. Task' = Task
    <3>1. Len(records') = Len(records)
      BY <1>8, <1>t DEF ResolvePlaceholderRequest, EnterReview, Record, TypeOK
    <3> QED
      BY <3>1 DEF Task
  <2>3. RiskReviewed'
    BY <2>1, <2>2 DEF RiskReviewed, Settled
  <2>4. \/ pc' = "return" /\ pending' = pending
        \/ /\ pc' = "accept" /\ pending' = pending
           /\ res' = [res EXCEPT !.kind = "placeholder"]
           /\ "allow" \in Decisions("review_placeholder_request", "placeholder", 0)
        \/ /\ pc' \in {"hook", "return"} /\ pending' = OfPlaceholder
           /\ res' = [res EXCEPT !.kind = "placeholder"]
           /\ "requires_review" \in Decisions("review_placeholder_request", "placeholder", 0)
    BY <1>8 DEF ResolvePlaceholderRequest, EnterReview, OfPlaceholder
  <2>5. \A d \in Decisions("review_placeholder_request", "placeholder", 0) : d = PlaceholderMode
    BY <1>t, Rules DEF ArtifactKind
  <2>6. res' = [res EXCEPT !.kind = "placeholder"] => res'.kind = "placeholder"
    BY <1>t DEF TypeOK, TaskResult
  <2>7. pc' = "accept" => Cleared'
    BY <2>4, <2>5, <2>6 DEF Cleared
  <2> QED
    BY <2>1, <2>3, <2>4, <2>5, <2>6, <2>7 DEF RiskInv, OfPlaceholder
<1>9. CASE AcceptResponse
  <2>1. CASE Top = Continuation
    <3>1. /\ Finalize(<<>>) /\ pc' = "return" /\ Task > 0
          /\ UNCHANGED <<pending, applied, appliedIds, failure, res>>
          /\ state = "ACTIVE"
      BY <1>9, <2>1 DEF AcceptResponse, Top, Continuation, IInv, PlaceInv, runVars
    <3>2. pending' = "none"
      BY <3>1 DEF IInv, PendingInv, ReviewPauses
    <3>3. Task' = Task /\ \A k : Contains(Log, k) => Contains(Log', k)
      <4> DEFINE c == IF res.rerun THEN "continuation_rerun" ELSE "continuation"
                 t == <<>> \o <<c, "provenance">>
      <4>1. Record(t) /\ c \in {"continuation", "continuation_rerun"}
        BY <3>1 DEF Finalize
      <4> HIDE DEF c
      <4>2. t \in Seq(RecordKind) /\ t # <<>>
        BY <4>1, FinalRecords
      <4> HIDE DEF t
      <4> QED
        BY <4>1, <4>2, <3>1, <1>t, LogGrows
    <3>4. RiskReviewed'
      BY <3>1, <3>3, RiskStable DEF RiskInv
    <3> QED
      BY <3>1, <3>2, <3>4, RiskKept
  <2>2. CASE Top # Continuation
    <3>1. /\ pc' = "apply" /\ pc = "accept"
          /\ UNCHANGED <<pending, applied, appliedIds, failure, res, records>>
      BY <1>9, <2>2 DEF AcceptResponse, Top, Continuation, bookVars, runVars
    <3>2. Task' = Task /\ Log' = Log /\ (Settled' <=> Settled)
      BY <3>1 DEF Task, Log, Settled
    <3>3. RiskReviewed'
      BY <3>1, <3>2, RiskStable DEF RiskInv
    <3>4. ~ Settled' => Cleared'
      BY <3>1, <3>2, <2>2 DEF RiskInv, Cleared
    <3> QED
      BY <3>1, <3>3, <3>4 DEF RiskInv
  <2> QED
    BY <2>1, <2>2
<1>10. CASE Return
  <2>1. /\ pc = "return" /\ UNCHANGED <<applied, appliedIds, failure, records, pending, state>>
        /\ Task' = Task /\ Log' = Log /\ (Settled' <=> Settled) /\ (ret => Settled)
    BY <1>10 DEF IInv, PlaceInv, Return, bookVars, runVars, Task, Log, Settled
  <2>2. /\ pc' \in {"out", "loop", "accept", "return"} /\ (pc' = "accept" => ret)
        /\ res'.depth = res.depth
        /\ state = "AWAITING_REVIEW" => res' = res
    BY <1>10, <1>t DEF Return, DoneApply, TypeOK, TaskResult
  <2>3. RiskReviewed'
    BY <2>1, <2>2, RiskStable DEF RiskInv
  <2>4. pending' # "none" => pending' = pending /\ res' = res
    BY <2>1, <2>2 DEF IInv, PendingInv, ReviewPauses
  <2> QED
    BY <2>1, <2>2, <2>3, <2>4 DEF RiskInv, OfPlaceholder
<1>11. CASE ApplyAcceptedArtifact
  <2> DEFINE e == [task |-> Task, kind |-> res.kind, text |-> res.text]
  <2>1. /\ pc = "apply" /\ ~ Settled /\ UNCHANGED <<failure, res, pending>> /\ Task > 0
        /\ applied' = Append(applied, e) /\ appliedIds' = appliedIds \union {Task}
        /\ pc' \in {"continuation", "loop", "return"} /\ res.kind # "none" /\ res.text # "none"
    BY <1>11 DEF IInv, PlaceInv, ApplyAcceptedArtifact, Settled, runVars, DoneApply
  <2>2. state = "ACTIVE" /\ pending' = "none" /\ Cleared
    BY <2>1 DEF IInv, PlaceInv, ReadyToApply, PendingInv, ReviewPauses, RiskInv
  <2>3. Task' = Task /\ \A k : Contains(Log, k) => Contains(Log', k)
    <3>1. PICK t \in Seq(RecordKind) : t # <<>> /\ Record(t)
      <4>1. CASE Record(<<"artifact">>)
        <5>1. <<"artifact">> \in Seq(RecordKind) /\ <<"artifact">> # <<>>
          BY DEF RecordKind
        <5> QED
          BY <4>1, <5>1
      <4>2. CASE Finalize(<<"artifact">>)
        <5> DEFINE c == IF res.rerun THEN "continuation_rerun" ELSE "continuation"
                   t == <<"artifact">> \o <<c, "provenance">>
        <5>1. Record(t) /\ c \in {"continuation", "continuation_rerun"}
          BY <4>2 DEF Finalize
        <5> HIDE DEF c
        <5>2. t \in Seq(RecordKind) /\ t # <<>>
          BY <5>1, FinalRecords
        <5> QED
          BY <5>1, <5>2
      <4> QED
        BY <1>11, <4>1, <4>2 DEF ApplyAcceptedArtifact
    <3> QED
      BY <3>1, <1>t, <2>1, LogGrows
  <2>4. Last(applied') = e
    <3> DEFINE E == [task : Nat, kind : ArtifactKind, text : {"block", "candidate", "replacement"}]
    <3>1. e \in E
      BY <1>t, <2>1 DEF TypeOK, TaskResult, Task, ArtifactKind
    <3>2. applied \in Seq(E)
      BY <1>t DEF TypeOK
    <3>3. applied' = Append(applied, e)
      BY <2>1
    <3> HIDE DEF e, E
    <3> QED
      BY <3>1, <3>2, <3>3, Pushed
  <2>5. e.task = Task /\ e.kind = res.kind /\ e.text = res.text
    OBVIOUS
  <2> HIDE DEF e
  <2>6. RiskReviewed'
    BY <2>1, <2>2, <2>3, <2>4, <2>5 DEF RiskReviewed, Cleared, Log
  <2> QED
    BY <2>1, <2>2, <2>6, RiskKept
<1>12. CASE GateContinuation
  <2>1. /\ pc = "continuation" /\ UNCHANGED <<applied, appliedIds, failure, res>> /\ Task > 0
        /\ pending = "none"
        /\ pc' \in {"loop", "return", "hook"} /\ pending' \in {"none", Continuation}
    BY <1>12 DEF IInv, PlaceInv, PendingInv, ReviewPauses, GateContinuation, EnterReview, DoneApply,
       runVars, Continuation
  <2>2. PICK t \in Seq(RecordKind) : t # <<>> /\ Record(t)
    <3>1. CASE Record(<<"policy_deny", "continuation_stop">>)
      <4>1. Plain(<<"policy_deny", "continuation_stop">>)
        BY PlainRecords DEF RecordKind
      <4> QED
        BY <3>1, <4>1 DEF Plain
    <3>2. CASE Record(Append(<<"policy_review">>, "review_entered"))
      <4>1. /\ Plain(<<"policy_review", "review_entered">>)
            /\ Append(<<"policy_review">>, "review_entered") = <<"policy_review", "review_entered">>
        BY PlainRecords DEF RecordKind
      <4> QED
        BY <3>2, <4>1 DEF Plain
    <3>3. CASE Finalize(<<"policy_allow">>)
      <4> DEFINE c == IF res.rerun THEN "continuation_rerun" ELSE "continuation"
                 t == <<"policy_allow">> \o <<c, "provenance">>
      <4>1. Record(t) /\ c \in {"continuation", "continuation_rerun"}
        BY <3>3 DEF Finalize
      <4> HIDE DEF c
      <4>2. t \in Seq(RecordKind) /\ t # <<>>
        BY <4>1, FinalRecords
      <4> QED
        BY <4>1, <4>2
    <3> QED
      BY <1>12, <3>1, <3>2, <3>3 DEF GateContinuation, EnterReview
  <2>3. Task' = Task /\ \A k : Contains(Log, k) => Contains(Log', k)
    BY <2>1, <2>2, <1>t, LogGrows
  <2>4. RiskReviewed'
    BY <2>1, <2>3, RiskStable DEF RiskInv
  <2> QED
    BY <2>1, <2>4 DEF RiskInv, Continuation, OfPlaceholder
<1> QED
  BY <1>1, <1>2, <1>3, <1>4, <1>5, <1>6, <1>7, <1>8, <1>9, <1>10, <1>11, <1>12
     DEF Next, Step, Rest

\* With RuleBasedPolicyGate, risky repairs, fallbacks and placeholders get into the
\* theory only past a reviewer, for every set of high-risk failures and every
\* placeholder mode.
THEOREM RiskIsReviewed ==
    ASSUME RuleGated, BlockEscalated
    PROVE  Spec => []RiskReviewed
<1>1. Init => RiskInv
  BY DEF Init, RiskInv, RiskReviewed, OfPlaceholder
<1>2. IInv /\ RiskInv /\ [Next]_vars => RiskInv'
  BY RiskKeeps
<1>3. RiskInv => RiskReviewed
  BY DEF RiskInv
<1> QED
  BY <1>1, <1>2, <1>3, OrchestratorInductive, PTL DEF Spec
=============================================================================

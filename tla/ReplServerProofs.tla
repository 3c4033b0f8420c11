-------------------------- MODULE ReplServerProofs --------------------------
(***************************************************************************)
(* Proofs about ReplServer, for any number of calls, sessions, states and  *)
(* theories.  The inductive invariant IInv says, besides the types, who is *)
(* inside which critical section, what each program point knows about its  *)
(* call, and where the ids in flight are; the safety invariants follow.    *)
(***************************************************************************)
EXTENDS ReplServer, TLAPS

\* lock.synchronized is mutual exclusion: the holder of a lock is the one call
\* inside the critical section of that session.
LockInv ==
    /\ \A t \in Thread : pc[t] \in Critical => at[t] \in Session /\ lock[at[t]] = t
    /\ \A s \in Session : lock[s] # None => pc[lock[s]] \in Critical /\ at[lock[s]] = s

\* What the program points say of the request and of the locals.
ProgInv ==
    \A t \in Thread :
        /\ pc[t] \in {"enter", "session", "acquire"} => at[t] \in Session
        /\ pc[t] = "OK" /\ req[t].op = "createSession" => at[t] \in Session
        /\ pc[t] = "owner" => req[t].op \in StateOps
        /\ req[t].op \in StateOps => req[t].src \in StateId
        /\ pc[t] \in {"group", "next"} => req[t].op = "dropState"
        /\ pc[t] = "publish" => cur[t] \in pending[t] /\ cur[t] \in stateMap[at[t]]
        /\ pc[t] = "build" => cur[t] \in StateId
        /\ pc[t] = "forget" =>
              cur[t] \in StateId /\ owner[cur[t]] = None /\ cur[t] \in stateMap[at[t]]
        /\ pc[t] = "disown" => Owned(at[t]) \subseteq todo[t]
        /\ pc[t] \in {"body", "store", "publish", "build"} => ~closing[at[t]]
        /\ pc[t] \in {"store", "publish", "build"} /\ key[t] # None =>
              key[t][1] \in theoryCache[at[t]]

\* A drawn id is nowhere before its call stores it, and in one call only.
FreshInv ==
    /\ \A x \in StateId : x \notin issued =>
          owner[x] = None /\ \A s \in Session : x \notin stateMap[s]
    /\ \A t \in Thread : \A x \in pending[t] :
          /\ x \in issued
          /\ owner[x] = None
          /\ \A s \in Session : x \in stateMap[s] =>
                pc[t] = "publish" /\ cur[t] = x /\ at[t] = s
          /\ \A u \in Thread : x \in pending[u] => u = t

\* Stored and owned differ only for the state the holder of the lock is
\* registering or dropping, or while it empties the session.
OwnerInv ==
    /\ \A x \in StateId : owner[x] # None => x \in stateMap[owner[x]]
    /\ \A s \in Session, x \in StateId : x \in stateMap[s] /\ owner[x] # s =>
          /\ lock[s] # None
          /\ \/ pc[lock[s]] = "disown"
             \/ pc[lock[s]] \in {"publish", "forget"} /\ cur[lock[s]] = x

\* A session is gone from sessionMap only if it was closing, and a closing
\* session is empty once its destroyer has cleared it.
ClosingInv ==
    /\ \A t \in Thread :
          /\ pc[t] \in {"acquire"} \union Critical => at[t] \in sessionMap \/ closing[at[t]]
          /\ pc[t] = "OK" /\ req[t].op = "createSession" => at[t] \in sessionMap \/ closing[at[t]]
          /\ pc[t] = "disown" => at[t] \in sessionMap
          /\ pc[t] = "disown" /\ req[t].op = "destroySession" => closing[at[t]]
          /\ pc[t] = "close" => closing[at[t]]
    /\ \A s \in Session \intersect known : s \in sessionMap \/ closing[s]
    /\ \A s \in Session : closing[s] /\ (lock[s] = None \/ pc[lock[s]] # "disown") =>
          stateMap[s] = {} /\ \A k \in Key : initCache[s][k] = None

IInv == TypeOK /\ LockInv /\ ProgInv /\ FreshInv /\ OwnerInv /\ ClosingInv /\ CheckpointsLive

-----------------------------------------------------------------------------

\* The program points are labels, and the requests clients send are well formed.
LEMMA Labels ==
    /\ Critical \subseteq Label
    /\ Reply \subseteq Label
    /\ {"idle", "create", "enter", "owner", "session", "group", "next", "acquire"} \subseteq Label
    /\ {"locked", "body", "store", "publish", "build", "unown", "forget", "disown", "clear",
        "close"} \subseteq Label
    /\ {"OK", "NOT_FOUND", "FAILED_PRECONDITION", "FAILED"} \subseteq Label
BY DEF Label, Critical, Reply

\* Every request a client can send is well formed.
LEMMA Requests ==
    /\ NoRequest \in Request
    /\ [NoRequest EXCEPT !.op = "createSession"] \in Request
    /\ \A op \in SessionOps, s \in Session : [NoRequest EXCEPT !.op = op, !.sid = s] \in Request
    /\ \A op \in StateOps, x \in StateId, d \in BOOLEAN :
          [NoRequest EXCEPT !.op = op, !.src = x, !.dropFailed = d] \in Request
    /\ \A X \in SUBSET StateId :
          [NoRequest EXCEPT !.op = "dropState", !.ids = X] \in Request
BY DEF Request, NoRequest, Ops

\* The shape of a request step: everything typed but the two locals it may set.
LEMMA CallType ==
    ASSUME TypeOK, NEW t \in Thread, NEW r \in Request, NEW l \in Label, Call(t, r, l),
           at' \in [Thread -> Session \union {None}], todo' \in [Thread -> SUBSET StateId]
    PROVE  TypeOK'
<1>1. UNCHANGED <<sessionMap, running, closing, lock, owner, stateMap, theoryCache, initCache,
                  initCacheKeys, issued, known, pending, results, failed, key, cur, groups>>
  BY DEF Call, globalVars, sessionVars, resultVars
<1>2. pc' \in [Thread -> Label] /\ req' \in [Thread -> Request]
  BY DEF TypeOK, Call, Goto
<1>3. calls' \in Nat
  BY DEF TypeOK, Call
<1> QED
  BY <1>1, <1>2, <1>3 DEF TypeOK

\* A step of a handler that only moves on keeps the types.
LEMMA MoveType ==
    ASSUME TypeOK, NEW t \in Thread, NEW l \in Label, Goto(t, l), OnlyMoves
    PROVE  TypeOK'
BY DEF TypeOK, Goto, OnlyMoves, globalVars, sessionVars, clientVars, resultVars, loopVars

\* A step of a handler that only takes or gives up its lock keeps the types.
LEMMA LeaveType ==
    ASSUME TypeOK, NEW t \in Thread, NEW l \in Label, Leave(t, l), OnlyLeaves
    PROVE  TypeOK'
BY DEF TypeOK, Leave, Goto, OnlyLeaves, sessionVars, clientVars, resultVars, loopVars

\* Every step of the service keeps the tables and the locals of the calls well typed.
LEMMA TypeStep == TypeOK /\ ProgInv /\ LockInv /\ [Next]_vars => TypeOK'
<1> SUFFICES ASSUME TypeOK, ProgInv, LockInv, [Next]_vars PROVE TypeOK'
  OBVIOUS
<1>1. CASE UNCHANGED vars
  BY <1>1 DEF vars, globalVars, sessionVars, clientVars, resultVars, loopVars, TypeOK
<1>2. ASSUME NEW t \in Thread, Issue(t) PROVE TypeOK'
  <2>1. CASE CallCreate(t)
    BY <2>1, CallType, Requests, Labels DEF CallCreate, TypeOK
  <2>2. CASE CallSession(t)
    <3>1. PICK op \in SessionOps, s \in Session \intersect known :
             /\ Call(t, [NoRequest EXCEPT !.op = op, !.sid = s], "session")
             /\ at' = [at EXCEPT ![t] = s]
             /\ UNCHANGED todo
      BY <2>2 DEF CallSession
    <3>2. [NoRequest EXCEPT !.op = op, !.sid = s] \in Request /\ "session" \in Label
      BY Requests, Labels
    <3>3. at' \in [Thread -> Session \union {None}] /\ todo' \in [Thread -> SUBSET StateId]
      BY <3>1 DEF TypeOK
    <3> QED
      BY <3>1, <3>2, <3>3, CallType
  <2>3. CASE CallState(t)
    <3>1. PICK op \in StateOps, x \in StateId \intersect known, d \in BOOLEAN :
             /\ Call(t, [NoRequest EXCEPT !.op = op, !.src = x, !.dropFailed = d], "owner")
             /\ UNCHANGED <<at, todo>>
      BY <2>3 DEF CallState
    <3>2. [NoRequest EXCEPT !.op = op, !.src = x, !.dropFailed = d] \in Request /\ "owner" \in Label
      BY Requests, Labels
    <3> QED
      BY <3>1, <3>2, CallType DEF TypeOK
  <2>4. CASE CallDrop(t)
    <3>1. PICK X \in SUBSET (StateId \intersect known) :
             /\ Call(t, [NoRequest EXCEPT !.op = "dropState", !.ids = X], "group")
             /\ todo' = [todo EXCEPT ![t] = X]
             /\ UNCHANGED at
      BY <2>4 DEF CallDrop
    <3>2. [NoRequest EXCEPT !.op = "dropState", !.ids = X] \in Request /\ "group" \in Label
      BY Requests, Labels
    <3>3. at' \in [Thread -> Session \union {None}] /\ todo' \in [Thread -> SUBSET StateId]
      BY <3>1 DEF TypeOK
    <3> QED
      BY <3>1, <3>2, <3>3, CallType
  <2> QED
    BY <1>2, <2>1, <2>2, <2>3, <2>4 DEF Issue
<1>3. ASSUME NEW t \in Thread, Step(t) PROVE TypeOK'
  <2>1. CASE BootSession(t)
    <3>1. UNCHANGED <<sessionMap, closing, lock, owner, stateMap, theoryCache, initCache,
                      initCacheKeys, known, calls, req, pending, results, failed, key, cur, todo, groups>>
      BY <2>1 DEF BootSession, globalVars, sessionVars, clientVars, resultVars, loopVars
    <3>2. running' \subseteq Session
      BY <2>1 DEF TypeOK, BootSession
    <3>3. issued' \subseteq Session \union StateId
      BY <2>1 DEF TypeOK, BootSession
    <3>4. at' \in [Thread -> Session \union {None}]
      BY <2>1 DEF TypeOK, BootSession
    <3>5. pc' \in [Thread -> Label]
      BY <2>1, Labels DEF TypeOK, BootSession, Goto, Leave
    <3> QED
      BY <3>1, <3>2, <3>3, <3>4, <3>5 DEF TypeOK
  <2>2. CASE EnterSession(t)
    <3>1. UNCHANGED <<running, closing, lock, owner, stateMap, theoryCache, initCache,
                      initCacheKeys, issued, known, calls, req, at, pending, results, failed, key, cur, todo, groups>>
      BY <2>2 DEF EnterSession, globalVars, sessionVars, clientVars, resultVars, loopVars
    <3>2. sessionMap' \subseteq Session
      BY <2>2 DEF TypeOK, EnterSession, ProgInv
    <3>3. pc' \in [Thread -> Label]
      BY <2>2, Labels DEF TypeOK, EnterSession, Goto, Leave, ProgInv
    <3> QED
      BY <3>1, <3>2, <3>3 DEF TypeOK
  <2>3. CASE LookupOwner(t)
    BY <2>3, Labels DEF TypeOK, ProgInv, LookupOwner, Goto, Leave, globalVars, sessionVars, clientVars, resultVars, loopVars
  <2>4. CASE LookupSession(t)
    BY <2>4, MoveType, Labels DEF LookupSession
  <2>5. CASE Acquire(t)
    <3>1. UNCHANGED <<sessionMap, running, closing, owner, stateMap, theoryCache, initCache,
                      initCacheKeys, issued, known, calls, req, at, pending, results, failed, key, cur, todo, groups>>
      BY <2>5 DEF Acquire, OnlyLeaves, globalVars, sessionVars, clientVars, resultVars, loopVars
    <3>2. lock' \in [Session -> Thread \union {None}]
      BY <2>5 DEF TypeOK, Acquire, Goto, Leave
    <3>3. pc' \in [Thread -> Label]
      BY <2>5, Labels DEF TypeOK, Acquire, Goto, Leave
    <3> QED
      BY <3>1, <3>2, <3>3 DEF TypeOK
  <2>6. CASE RejectClosing(t)
    BY <2>6, LeaveType, Labels DEF RejectClosing
  <2>7. CASE RejectDeadState(t)
    BY <2>7, LeaveType, Labels DEF RejectDeadState
  <2>8. CASE EnterBody(t)
    BY <2>8, MoveType, Labels DEF EnterBody
  <2>9. CASE BodyFails(t)
    BY <2>9, LeaveType, Labels DEF BodyFails
  <2>10. CASE LoadTheory(t)
    <3>1. UNCHANGED <<sessionMap, running, closing, owner, stateMap, initCache,
                      initCacheKeys, issued, known, calls, req, at, pending, results, failed, key, cur, todo, groups>>
      BY <2>10 DEF LoadTheory, globalVars, sessionVars, clientVars, resultVars, loopVars
    <3>2. theoryCache' \in [Session -> SUBSET Theory]
      <4>1. PICK p \in Theory : theoryCache' = [theoryCache EXCEPT ![at[t]] = @ \union {p}]
        BY <2>10 DEF LoadTheory
      <4>2. at[t] \in Session
        BY <2>10 DEF LoadTheory, LockInv, Critical
      <4> QED
        BY <4>1, <4>2 DEF TypeOK
    <3>3. lock' \in [Session -> Thread \union {None}]
      BY <2>10 DEF TypeOK, LoadTheory, Goto, Leave
    <3>4. pc' \in [Thread -> Label]
      BY <2>10, Labels DEF TypeOK, LoadTheory, Goto, Leave
    <3> QED
      BY <3>1, <3>2, <3>3, <3>4 DEF TypeOK
  <2>11. CASE ComputeInitState(t)
    <3>1. UNCHANGED <<sessionMap, running, closing, owner, stateMap, initCache,
                      initCacheKeys, known, calls, req, at, results, cur, todo, groups>>
      BY <2>11 DEF ComputeInitState, Computed, globalVars, sessionVars, clientVars, resultVars, loopVars
    <3>2. theoryCache' \in [Session -> SUBSET Theory]
      <4>1. PICK p \in Theory : theoryCache' = [theoryCache EXCEPT ![at[t]] = @ \union {p}]
        BY <2>11 DEF ComputeInitState
      <4>2. at[t] \in Session
        BY <2>11 DEF ComputeInitState, LockInv, Critical
      <4> QED
        BY <4>1, <4>2 DEF TypeOK
    <3> PICK p \in Theory :
          \/ /\ \/ \E x \in StateId \ issued, l \in Line : Computed(t, {x}, {}, <<p, l>>)
                \/ \E x \in StateId \ issued : Computed(t, {x}, {}, None)
                \/ Computed(t, {}, {}, None)
             /\ Goto(t, "store")
             /\ UNCHANGED lock
          \/ /\ Leave(t, "FAILED")
             /\ UNCHANGED <<clientVars, resultVars>>
      BY <2>11 DEF ComputeInitState
    <3>a. \/ \E X \in SUBSET StateId, k \in Key \union {None} : Computed(t, X, {}, k)
          \/ UNCHANGED <<issued, pending, failed, key>>
      <4>1. CASE \E x \in StateId \ issued, l \in Line : Computed(t, {x}, {}, <<p, l>>)
        <5> PICK x \in StateId \ issued, l \in Line : Computed(t, {x}, {}, <<p, l>>)
          BY <4>1
        <5> <<p, l>> \in Key \union {None} /\ {x} \in SUBSET StateId
          BY DEF Key
        <5> QED
          OBVIOUS
      <4>2. CASE \E x \in StateId \ issued : Computed(t, {x}, {}, None)
        BY <4>2
      <4>3. CASE Computed(t, {}, {}, None)
        BY <4>3
      <4>4. CASE UNCHANGED <<clientVars, resultVars>>
        BY <4>4 DEF clientVars, resultVars
      <4> QED
        BY <4>1, <4>2, <4>3, <4>4
    <3>3. lock' \in [Session -> Thread \union {None}]
      BY <2>11 DEF TypeOK, ComputeInitState, Computed, Goto, Leave
    <3>4. pc' \in [Thread -> Label]
      BY <2>11, Labels, ZenonT(100) DEF TypeOK, ComputeInitState, Computed, Goto, Leave
    <3>5. issued' \subseteq Session \union StateId
      BY <3>a DEF TypeOK, Computed
    <3>6. pending' \in [Thread -> SUBSET StateId]
      BY <3>a DEF TypeOK, Computed
    <3>7. failed' \in [Thread -> SUBSET StateId]
      BY <3>a DEF TypeOK, Computed
    <3>8. key' \in [Thread -> Key \union {None}]
      BY <3>a DEF TypeOK, Computed
    <3> QED
      BY <3>1, <3>2, <3>3, <3>4, <3>5, <3>6, <3>7, <3>8 DEF TypeOK
  <2>12. CASE ComputeExecute(t)
    BY <2>12, Labels DEF TypeOK, ProgInv, ComputeExecute, Computed, Goto, Leave, globalVars, sessionVars, clientVars, resultVars, loopVars
  <2>13. CASE ComputeExecuteBatch(t)
    BY <2>13, Labels DEF TypeOK, ProgInv, ComputeExecuteBatch, Computed, Goto, Leave, globalVars, sessionVars, clientVars, resultVars, loopVars
  <2>14. CASE ComputeRunSledgehammer(t)
    <3>1. UNCHANGED <<sessionMap, running, closing, lock, owner, stateMap, theoryCache,
                      initCache, initCacheKeys, known, calls, req, at, results, cur, todo, groups>>
      BY <2>14 DEF ComputeRunSledgehammer, Computed, globalVars, sessionVars, clientVars, resultVars, loopVars
    <3>2. issued' \subseteq Session \union StateId
      BY <2>14 DEF TypeOK, ComputeRunSledgehammer, Computed
    <3>3. pending' \in [Thread -> SUBSET StateId]
      BY <2>14 DEF TypeOK, ComputeRunSledgehammer, Computed
    <3>4. failed' \in [Thread -> SUBSET StateId]
      BY <2>14 DEF TypeOK, ComputeRunSledgehammer, Computed
    <3>5. key' \in [Thread -> Key \union {None}]
      BY <2>14 DEF TypeOK, ComputeRunSledgehammer, Computed
    <3>6. pc' \in [Thread -> Label]
      BY <2>14, Labels DEF TypeOK, ComputeRunSledgehammer, Computed, Goto, Leave
    <3> QED
      BY <3>1, <3>2, <3>3, <3>4, <3>5, <3>6 DEF TypeOK
  <2>15. CASE GetStateInfo(t)
    BY <2>15, LeaveType, Labels DEF GetStateInfo
  <2>16. CASE StoreState(t)
    <3>1. UNCHANGED <<sessionMap, running, closing, lock, owner, theoryCache, issued, known,
                      calls, req, at, pending, results, failed, key, todo, groups>>
      BY <2>16 DEF StoreState, StoreStateLocal, globalVars, sessionVars, clientVars, resultVars, loopVars
    <3> PICK x \in pending[t] : StoreStateLocal(at[t], x, key[t])
      BY <2>16 DEF StoreState
    <3>a. at[t] \in Session /\ x \in StateId
      BY <2>16 DEF StoreState, LockInv, Critical, TypeOK
    <3>2. stateMap' \in [Session -> SUBSET StateId]
      BY <3>a DEF TypeOK, StoreStateLocal
    <3>3. initCache' \in [Session -> [Key -> StateId \union {None}]]
      <4>1. [initCache[at[t]] EXCEPT ![key[t]] = x] \in [Key -> StateId \union {None}]
        BY <3>a DEF TypeOK
      <4>2. \/ initCache' = initCache
            \/ initCache' = [initCache EXCEPT ![at[t]] = [initCache[at[t]] EXCEPT ![key[t]] = x]]
        BY <3>a DEF TypeOK, StoreStateLocal
      <4> QED
        BY <3>a, <4>1, <4>2 DEF TypeOK
    <3>4. initCacheKeys' \in [Session -> [StateId -> Key \union {None}]]
      <4>1. [initCacheKeys[at[t]] EXCEPT ![x] = key[t]] \in [StateId -> Key \union {None}]
        BY <3>a DEF TypeOK
      <4>2. \/ initCacheKeys' = initCacheKeys
            \/ initCacheKeys' =
                  [initCacheKeys EXCEPT ![at[t]] = [initCacheKeys[at[t]] EXCEPT ![x] = key[t]]]
        BY <3>a DEF TypeOK, StoreStateLocal
      <4>3. initCacheKeys \in [Session -> [StateId -> Key \union {None}]]
        BY DEF TypeOK
      <4> QED
        BY <3>a, <4>1, <4>2, <4>3
    <3>5. cur' \in [Thread -> StateId \union {None}]
      BY <2>16 DEF TypeOK, StoreState, StoreStateLocal
    <3>6. pc' \in [Thread -> Label]
      BY <2>16, Labels DEF TypeOK, StoreState, StoreStateLocal, Goto, Leave
    <3> QED
      BY <3>1, <3>2, <3>3, <3>4, <3>5, <3>6 DEF TypeOK
  <2>17. CASE PublishOwner(t)
    BY <2>17, Labels DEF TypeOK, ProgInv, PublishOwner, Goto, Leave, globalVars, sessionVars, clientVars, resultVars, loopVars
  <2>18. CASE BuildStateResult(t)
    <3>1. UNCHANGED <<sessionMap, running, closing, owner, stateMap, theoryCache, initCache,
                      initCacheKeys, issued, known, calls, req, at, pending, results, failed, key, todo, groups>>
      BY <2>18 DEF BuildStateResult, globalVars, sessionVars, clientVars, resultVars, loopVars
    <3>2. cur' \in [Thread -> StateId \union {None}]
      BY <2>18 DEF TypeOK, BuildStateResult
    <3>3. lock' \in [Session -> Thread \union {None}]
      BY <2>18 DEF TypeOK, BuildStateResult, Goto, Leave
    <3>4. pc' \in [Thread -> Label]
      BY <2>18, Labels DEF TypeOK, BuildStateResult, Goto, Leave
    <3> QED
      BY <3>1, <3>2, <3>3, <3>4 DEF TypeOK
  <2>19. CASE Registered(t)
    <3>1. UNCHANGED <<sessionMap, running, closing, owner, stateMap, theoryCache, initCache,
                      initCacheKeys, issued, known, calls, req, at, pending, results, failed, key, cur, groups>>
      BY <2>19 DEF Registered, globalVars, sessionVars, clientVars, resultVars, loopVars
    <3>2. lock' \in [Session -> Thread \union {None}]
      BY <2>19 DEF TypeOK, Registered, Goto, Leave
    <3>3. pc' \in [Thread -> Label]
      BY <2>19, Labels, ZenonT(60) DEF TypeOK, Registered, Goto, Leave
    <3>4. todo' \in [Thread -> SUBSET StateId]
      BY <2>19, ZenonT(60) DEF TypeOK, Registered
    <3> QED
      BY <3>1, <3>2, <3>3, <3>4 DEF TypeOK
  <2>20. CASE GroupByOwner(t)
    BY <2>20, Labels DEF TypeOK, ProgInv, GroupByOwner, Goto, Leave, globalVars, sessionVars, clientVars, resultVars, loopVars
  <2>21. CASE Grouped(t)
    BY <2>21, MoveType, Labels DEF Grouped
  <2>22. CASE NextGroup(t)
    <3>1. UNCHANGED <<sessionMap, running, closing, lock, owner, stateMap, theoryCache,
                      initCache, initCacheKeys, issued, known, calls, req, pending, results, failed, key, cur>>
      BY <2>22 DEF NextGroup, globalVars, sessionVars, clientVars, resultVars, loopVars
    <3>2. groups' \in [Thread -> SUBSET (StateId \X Session)]
      BY <2>22 DEF TypeOK, NextGroup
    <3> PICK s \in {g[2] : g \in groups[t]} :
          IF s \in sessionMap
          THEN /\ at' = [at EXCEPT ![t] = s]
               /\ todo' = [todo EXCEPT ![t] = {g[1] : g \in {h \in groups[t] : h[2] = s}}]
          ELSE UNCHANGED <<at, todo>>
      BY <2>22 DEF NextGroup
    <3>a. s \in Session /\ \A g \in groups[t] : g[1] \in StateId
      BY DEF TypeOK
    <3>3. at' \in [Thread -> Session \union {None}]
      BY <3>a DEF TypeOK
    <3>4. todo' \in [Thread -> SUBSET StateId]
      <4>1. {g[1] : g \in {h \in groups[t] : h[2] = s}} \in SUBSET StateId
        BY <3>a
      <4> QED
        BY <4>1 DEF TypeOK
    <3>5. pc' \in [Thread -> Label]
      BY <2>22, Labels, ZenonT(60) DEF TypeOK, NextGroup, Goto, Leave
    <3> QED
      BY <3>1, <3>2, <3>3, <3>4, <3>5 DEF TypeOK
  <2>23. CASE NoMoreGroups(t)
    BY <2>23, MoveType, Labels DEF NoMoreGroups
  <2>24. CASE EnterDrop(t)
    BY <2>24, MoveType, Labels DEF EnterDrop
  <2>25. CASE RemoveOwner(t)
    <3>1. UNCHANGED <<sessionMap, running, closing, lock, stateMap, theoryCache, initCache,
                      initCacheKeys, issued, known, calls, req, at, pending, results, failed, key, groups>>
      BY <2>25 DEF RemoveOwner, globalVars, sessionVars, clientVars, resultVars, loopVars
    <3>2. todo' \in [Thread -> SUBSET StateId]
      BY <2>25 DEF TypeOK, RemoveOwner
    <3> PICK x \in todo[t] :
          IF owner[x] = at[t]
          THEN owner' = [owner EXCEPT ![x] = None] /\ cur' = [cur EXCEPT ![t] = x]
          ELSE UNCHANGED <<owner, cur>>
      BY <2>25 DEF RemoveOwner
    <3>a. x \in StateId
      BY DEF TypeOK
    <3>3. owner' \in [StateId -> Session \union {None}]
      BY <3>a, ZenonT(60) DEF TypeOK
    <3>4. cur' \in [Thread -> StateId \union {None}]
      BY <3>a DEF TypeOK
    <3>5. pc' \in [Thread -> Label]
      BY <2>25, Labels DEF TypeOK, RemoveOwner, Goto, Leave
    <3> QED
      BY <3>1, <3>2, <3>3, <3>4, <3>5 DEF TypeOK
  <2>26. CASE ForgetState(t)
    <3>1. UNCHANGED <<sessionMap, running, closing, lock, owner, theoryCache, issued, known,
                      calls, req, at, pending, results, failed, key, todo, groups>>
      BY <2>26 DEF ForgetState, DropStateLocal, globalVars, sessionVars, clientVars, resultVars, loopVars
    <3>2. stateMap' \in [Session -> SUBSET StateId]
      BY <2>26 DEF TypeOK, ForgetState, DropStateLocal
    <3>3. initCacheKeys' \in [Session -> [StateId -> Key \union {None}]]
      BY <2>26 DEF TypeOK, ForgetState, DropStateLocal
    <3>4. initCache' \in [Session -> [Key -> StateId \union {None}]]
      <4>1. at[t] \in Session /\ cur[t] \in StateId
        BY <2>26 DEF ForgetState, LockInv, ProgInv, Critical
      <4>2. [initCache[at[t]] EXCEPT ![initCacheKeys[at[t]][cur[t]]] = None]
               \in [Key -> StateId \union {None}]
        BY <4>1 DEF TypeOK
      <4>3. \/ initCache' = initCache
            \/ initCache' = [initCache EXCEPT ![at[t]] =
                                [initCache[at[t]] EXCEPT ![initCacheKeys[at[t]][cur[t]]] = None]]
        BY <2>26, <4>1 DEF TypeOK, ForgetState, DropStateLocal
      <4> QED
        BY <4>1, <4>2, <4>3 DEF TypeOK
    <3>5. cur' \in [Thread -> StateId \union {None}]
      BY <2>26 DEF TypeOK, ForgetState, DropStateLocal
    <3>6. pc' \in [Thread -> Label]
      BY <2>26, Labels DEF TypeOK, ForgetState, DropStateLocal, Goto, Leave
    <3> QED
      BY <3>1, <3>2, <3>3, <3>4, <3>5, <3>6 DEF TypeOK
  <2>27. CASE Dropped(t)
    BY <2>27, LeaveType, Labels DEF Dropped
  <2>28. CASE EnterDropAllStates(t)
    BY <2>28, Labels DEF TypeOK, ProgInv, EnterDropAllStates, Owned, Goto, Leave, globalVars, sessionVars, clientVars, resultVars, loopVars
  <2>29. CASE EnterDestroySession(t)
    BY <2>29, Labels DEF TypeOK, ProgInv, EnterDestroySession, Owned, Goto, Leave, globalVars, sessionVars, clientVars, resultVars, loopVars
  <2>30. CASE DisownState(t)
    BY <2>30, Labels DEF TypeOK, ProgInv, DisownState, Goto, Leave, globalVars, sessionVars, clientVars, resultVars, loopVars
  <2>31. CASE ClearStates(t)
    BY <2>31, Labels, ZenonT(60) DEF TypeOK, ProgInv, ClearStates, DropAllStatesLocal, Goto, Leave, globalVars, sessionVars, clientVars, resultVars, loopVars
  <2>32. CASE CloseSession(t)
    <3>1. UNCHANGED <<closing, owner, stateMap, theoryCache, initCache, initCacheKeys,
                      issued, known, calls, req, at, pending, results, failed, key, cur, todo, groups>>
      BY <2>32 DEF CloseSession, globalVars, sessionVars, clientVars, resultVars, loopVars
    <3>2. running' \subseteq Session
      BY <2>32 DEF TypeOK, CloseSession
    <3>3. sessionMap' \subseteq Session
      BY <2>32 DEF TypeOK, CloseSession
    <3>4. lock' \in [Session -> Thread \union {None}]
      BY <2>32 DEF TypeOK, CloseSession, Goto, Leave
    <3>5. pc' \in [Thread -> Label]
      <4>1. pc' = [pc EXCEPT ![t] = "OK"] \/ pc' = [pc EXCEPT ![t] = "FAILED"]
        BY <2>32 DEF CloseSession, Leave, Goto
      <4> QED
        BY <4>1, Labels DEF TypeOK
    <3> QED
      BY <3>1, <3>2, <3>3, <3>4, <3>5 DEF TypeOK
  <2>33. CASE Return(t)
    <3>1. UNCHANGED <<sessionMap, running, closing, lock, owner, stateMap, theoryCache,
                      initCache, initCacheKeys, issued, calls>>
      BY <2>33 DEF Return, globalVars, sessionVars, clientVars, resultVars, loopVars
    <3>2. known' \subseteq Session \union StateId
      <4>1. results[t] \subseteq StateId
        BY DEF TypeOK
      <4> QED
        BY <2>33, <4>1 DEF TypeOK, ProgInv, Return
    <3>3. pc' \in [Thread -> Label]
      BY <2>33, Labels DEF TypeOK, Return, Goto, Leave
    <3>4. req' \in [Thread -> Request]
      BY <2>33, Requests DEF TypeOK, Return
    <3>5. at' \in [Thread -> Session \union {None}]
      BY <2>33 DEF TypeOK, Return
    <3>6. pending' \in [Thread -> SUBSET StateId]
      BY <2>33 DEF TypeOK, Return
    <3>7. results' \in [Thread -> SUBSET StateId]
      BY <2>33 DEF TypeOK, Return
    <3>8. failed' \in [Thread -> SUBSET StateId]
      BY <2>33 DEF TypeOK, Return
    <3>9. key' \in [Thread -> Key \union {None}]
      BY <2>33 DEF TypeOK, Return
    <3>10. cur' \in [Thread -> StateId \union {None}]
      BY <2>33 DEF TypeOK, Return
    <3>11. todo' \in [Thread -> SUBSET StateId]
      BY <2>33 DEF TypeOK, Return
    <3>12. groups' \in [Thread -> SUBSET (StateId \X Session)]
      BY <2>33 DEF TypeOK, Return
    <3> QED
      BY <3>1, <3>2, <3>3, <3>4, <3>5, <3>6, <3>7, <3>8, <3>9, <3>10, <3>11, <3>12 DEF TypeOK
  <2> QED
    BY <1>3, <2>1, <2>2, <2>3, <2>4, <2>5, <2>6, <2>7, <2>8, <2>9, <2>10, <2>11, <2>12, <2>13, <2>14, <2>15, <2>16, <2>17, <2>18, <2>19, <2>20, <2>21, <2>22, <2>23, <2>24, <2>25, <2>26, <2>27, <2>28, <2>29, <2>30, <2>31, <2>32, <2>33 DEF Step
<1> QED
  BY <1>1, <1>2, <1>3 DEF Next, Quiet

\* Mutual exclusion of the critical sections: a lock is taken when free and given
\* up by its holder on every path out, the exceptional ones included.
LEMMA LockStep ==
    TypeOK /\ LockInv /\ ProgInv /\ TypeOK' /\ [Next]_vars => LockInv'
<1> SUFFICES ASSUME TypeOK, LockInv, ProgInv, TypeOK', [Next]_vars
             PROVE  LockInv'
  OBVIOUS
<1> USE DEF LockInv, ProgInv, Critical, Reply, Goto, Leave, globalVars, sessionVars,
            clientVars, resultVars, loopVars
<1>t. /\ pc \in [Thread -> Label]
      /\ at \in [Thread -> Session \union {None}]
      /\ lock \in [Session -> Thread \union {None}]
  BY DEF TypeOK
<1>u. /\ pc' \in [Thread -> Label]
      /\ at' \in [Thread -> Session \union {None}]
      /\ lock' \in [Session -> Thread \union {None}]
  BY DEF TypeOK
<1>1. CASE UNCHANGED vars
  BY <1>1 DEF vars
<1>2. ASSUME NEW t \in Thread, Issue(t) \/ Step(t) PROVE LockInv'
  <2>1. CASE CallCreate(t)
    BY <2>1, <1>t, <1>u, NoneAssumption DEF CallCreate, Call
  <2>2. CASE CallSession(t)
    BY <2>2, <1>t, <1>u, NoneAssumption DEF CallSession, Call
  <2>3. CASE CallState(t)
    BY <2>3, <1>t, <1>u, NoneAssumption DEF CallState, Call
  <2>4. CASE CallDrop(t)
    BY <2>4, <1>t, <1>u, NoneAssumption DEF CallDrop, Call
  <2>5. CASE BootSession(t)
    BY <2>5, <1>t, <1>u, NoneAssumption DEF BootSession
  <2>6. CASE EnterSession(t)
    BY <2>6, <1>t, <1>u, NoneAssumption DEF EnterSession
  <2>7. CASE LookupOwner(t)
    BY <2>7, <1>t, <1>u, NoneAssumption DEF LookupOwner
  <2>8. CASE LookupSession(t)
    BY <2>8, <1>t, <1>u, NoneAssumption DEF LookupSession, OnlyMoves
  <2>9. CASE Acquire(t)
    BY <2>9, <1>t, <1>u, NoneAssumption DEF Acquire, OnlyLeaves
  <2>10. CASE RejectClosing(t)
    BY <2>10, <1>t, <1>u, NoneAssumption DEF RejectClosing, OnlyLeaves
  <2>11. CASE RejectDeadState(t)
    BY <2>11, <1>t, <1>u, NoneAssumption DEF RejectDeadState, OnlyLeaves
  <2>12. CASE EnterBody(t)
    BY <2>12, <1>t, <1>u, NoneAssumption DEF EnterBody, OnlyMoves
  <2>13. CASE BodyFails(t)
    BY <2>13, <1>t, <1>u, NoneAssumption DEF BodyFails, OnlyLeaves
  <2>14. CASE LoadTheory(t)
    BY <2>14, <1>t, <1>u, NoneAssumption DEF LoadTheory
  <2>15. CASE ComputeInitState(t)
    BY <2>15, <1>t, <1>u, NoneAssumption DEF ComputeInitState, Computed
  <2>16. CASE ComputeExecute(t)
    BY <2>16, <1>t, <1>u, NoneAssumption DEF ComputeExecute, Computed
  <2>17. CASE ComputeExecuteBatch(t)
    BY <2>17, <1>t, <1>u, NoneAssumption DEF ComputeExecuteBatch, Computed
  <2>18. CASE ComputeRunSledgehammer(t)
    BY <2>18, <1>t, <1>u, NoneAssumption DEF ComputeRunSledgehammer, Computed
  <2>19. CASE GetStateInfo(t)
    BY <2>19, <1>t, <1>u, NoneAssumption DEF GetStateInfo, OnlyLeaves
  <2>20. CASE StoreState(t)
    BY <2>20, <1>t, <1>u, NoneAssumption DEF StoreState, StoreStateLocal
  <2>21. CASE PublishOwner(t)
    BY <2>21, <1>t, <1>u, NoneAssumption DEF PublishOwner
  <2>22. CASE BuildStateResult(t)
    BY <2>22, <1>t, <1>u, NoneAssumption DEF BuildStateResult
  <2>23. CASE Registered(t)
    BY <2>23, <1>t, <1>u, NoneAssumption DEF Registered
  <2>24. CASE GroupByOwner(t)
    BY <2>24, <1>t, <1>u, NoneAssumption DEF GroupByOwner
  <2>25. CASE Grouped(t)
    BY <2>25, <1>t, <1>u, NoneAssumption DEF Grouped, OnlyMoves
  <2>26. CASE NextGroup(t)
    BY <2>26, <1>t, <1>u, NoneAssumption DEF NextGroup
  <2>27. CASE NoMoreGroups(t)
    BY <2>27, <1>t, <1>u, NoneAssumption DEF NoMoreGroups, OnlyMoves
  <2>28. CASE EnterDrop(t)
    BY <2>28, <1>t, <1>u, NoneAssumption DEF EnterDrop, OnlyMoves
  <2>29. CASE RemoveOwner(t)
    BY <2>29, <1>t, <1>u, NoneAssumption DEF RemoveOwner
  <2>30. CASE ForgetState(t)
    BY <2>30, <1>t, <1>u, NoneAssumption DEF ForgetState, DropStateLocal
  <2>31. CASE Dropped(t)
    BY <2>31, <1>t, <1>u, NoneAssumption DEF Dropped, OnlyLeaves
  <2>32. CASE EnterDropAllStates(t)
    BY <2>32, <1>t, <1>u, NoneAssumption DEF EnterDropAllStates, Owned
  <2>33. CASE EnterDestroySession(t)
    BY <2>33, <1>t, <1>u, NoneAssumption DEF EnterDestroySession, Owned
  <2>34. CASE DisownState(t)
    BY <2>34, <1>t, <1>u, NoneAssumption DEF DisownState
  <2>35. CASE ClearStates(t)
    BY <2>35, <1>t, <1>u, NoneAssumption DEF ClearStates, DropAllStatesLocal
  <2>36. CASE CloseSession(t)
    BY <2>36, <1>t, <1>u, NoneAssumption DEF CloseSession
  <2>37. CASE Return(t)
    BY <2>37, <1>t, <1>u, NoneAssumption DEF Return
  <2> QED
    BY <1>2, <2>1, <2>2, <2>3, <2>4, <2>5, <2>6, <2>7, <2>8, <2>9, <2>10, <2>11, <2>12, <2>13,
       <2>14, <2>15, <2>16, <2>17, <2>18, <2>19, <2>20, <2>21, <2>22, <2>23, <2>24, <2>25,
       <2>26, <2>27, <2>28, <2>29, <2>30, <2>31, <2>32, <2>33, <2>34, <2>35, <2>36, <2>37
       DEF Issue, Step
<1> QED
  BY <1>1, <1>2 DEF Next, Quiet

\* The facts of each program point survive the steps of the other calls: what a
\* handler relies on inside its section is protected by its lock.
LEMMA ProgStep ==
    TypeOK /\ LockInv /\ ProgInv /\ FreshInv /\ OwnerInv /\ TypeOK' /\ [Next]_vars => ProgInv'
<1> SUFFICES ASSUME TypeOK, LockInv, ProgInv, FreshInv, OwnerInv, TypeOK', [Next]_vars
             PROVE  ProgInv'
  OBVIOUS
<1> USE DEF LockInv, ProgInv, FreshInv, OwnerInv, Critical, Reply, Owned, StateOps,
            SessionOps, NoRequest, Goto, Leave, globalVars, sessionVars, clientVars,
            resultVars, loopVars
<1>t. /\ pc \in [Thread -> Label]
      /\ at \in [Thread -> Session \union {None}]
      /\ lock \in [Session -> Thread \union {None}]
      /\ req \in [Thread -> Request]
      /\ owner \in [StateId -> Session \union {None}]
      /\ closing \in [Session -> BOOLEAN]
      /\ key \in [Thread -> Key \union {None}]
      /\ cur \in [Thread -> StateId \union {None}]
      /\ pending \in [Thread -> SUBSET StateId]
      /\ stateMap \in [Session -> SUBSET StateId]
      /\ theoryCache \in [Session -> SUBSET Theory]
      /\ todo \in [Thread -> SUBSET StateId]
      /\ issued \subseteq Session \union StateId
      /\ groups \in [Thread -> SUBSET (StateId \X Session)]
  BY DEF TypeOK
<1>u. /\ pc' \in [Thread -> Label]
      /\ at' \in [Thread -> Session \union {None}]
      /\ lock' \in [Session -> Thread \union {None}]
      /\ req' \in [Thread -> Request]
      /\ owner' \in [StateId -> Session \union {None}]
      /\ closing' \in [Session -> BOOLEAN]
      /\ key' \in [Thread -> Key \union {None}]
      /\ cur' \in [Thread -> StateId \union {None}]
      /\ pending' \in [Thread -> SUBSET StateId]
      /\ stateMap' \in [Session -> SUBSET StateId]
      /\ theoryCache' \in [Session -> SUBSET Theory]
      /\ todo' \in [Thread -> SUBSET StateId]
      /\ issued' \subseteq Session \union StateId
      /\ groups' \in [Thread -> SUBSET (StateId \X Session)]
  BY DEF TypeOK
<1>1. CASE UNCHANGED vars
  BY <1>1 DEF vars
<1>2. ASSUME NEW t \in Thread, Issue(t) \/ Step(t) PROVE ProgInv'
  <2>1. CASE CallCreate(t)
    BY <2>1, <1>t, <1>u, NoneAssumption DEF CallCreate, Call
  <2>2. CASE CallSession(t)
    BY <2>2, <1>t, <1>u, NoneAssumption DEF CallSession, Call
  <2>3. CASE CallState(t)
    BY <2>3, <1>t, <1>u, NoneAssumption DEF CallState, Call
  <2>4. CASE CallDrop(t)
    BY <2>4, <1>t, <1>u, NoneAssumption DEF CallDrop, Call
  <2>5. CASE BootSession(t)
    BY <2>5, <1>t, <1>u, NoneAssumption DEF BootSession
  <2>6. CASE EnterSession(t)
    BY <2>6, <1>t, <1>u, NoneAssumption DEF EnterSession
  <2>7. CASE LookupOwner(t)
    BY <2>7, <1>t, <1>u, NoneAssumption DEF LookupOwner
  <2>8. CASE LookupSession(t)
    BY <2>8, <1>t, <1>u, NoneAssumption DEF LookupSession, OnlyMoves
  <2>9. CASE Acquire(t)
    BY <2>9, <1>t, <1>u, NoneAssumption DEF Acquire, OnlyLeaves
  <2>10. CASE RejectClosing(t)
    BY <2>10, <1>t, <1>u, NoneAssumption DEF RejectClosing, OnlyLeaves
  <2>11. CASE RejectDeadState(t)
    BY <2>11, <1>t, <1>u, NoneAssumption DEF RejectDeadState, OnlyLeaves
  <2>12. CASE EnterBody(t)
    BY <2>12, <1>t, <1>u, NoneAssumption DEF EnterBody, OnlyMoves
  <2>13. CASE BodyFails(t)
    BY <2>13, <1>t, <1>u, NoneAssumption DEF BodyFails, OnlyLeaves
  <2>14. CASE LoadTheory(t)
    BY <2>14, <1>t, <1>u, NoneAssumption DEF LoadTheory
  <2>15. CASE ComputeInitState(t)
    BY <2>15, <1>t, <1>u, NoneAssumption DEF ComputeInitState, Computed
  <2>16. CASE ComputeExecute(t)
    BY <2>16, <1>t, <1>u, NoneAssumption DEF ComputeExecute, Computed
  <2>17. CASE ComputeExecuteBatch(t)
    BY <2>17, <1>t, <1>u, NoneAssumption DEF ComputeExecuteBatch, Computed
  <2>18. CASE ComputeRunSledgehammer(t)
    BY <2>18, <1>t, <1>u, NoneAssumption DEF ComputeRunSledgehammer, Computed
  <2>19. CASE GetStateInfo(t)
    BY <2>19, <1>t, <1>u, NoneAssumption DEF GetStateInfo, OnlyLeaves
  <2>20. CASE StoreState(t)
    BY <2>20, <1>t, <1>u, NoneAssumption DEF StoreState, StoreStateLocal
  <2>21. CASE PublishOwner(t)
    BY <2>21, <1>t, <1>u, NoneAssumption DEF PublishOwner
  <2>22. CASE BuildStateResult(t)
    BY <2>22, <1>t, <1>u, NoneAssumption DEF BuildStateResult
  <2>23. CASE Registered(t)
    BY <2>23, <1>t, <1>u, NoneAssumption DEF Registered
  <2>24. CASE GroupByOwner(t)
    BY <2>24, <1>t, <1>u, NoneAssumption DEF GroupByOwner
  <2>25. CASE Grouped(t)
    BY <2>25, <1>t, <1>u, NoneAssumption DEF Grouped, OnlyMoves
  <2>26. CASE NextGroup(t)
    BY <2>26, <1>t, <1>u, NoneAssumption DEF NextGroup
  <2>27. CASE NoMoreGroups(t)
    BY <2>27, <1>t, <1>u, NoneAssumption DEF NoMoreGroups, OnlyMoves
  <2>28. CASE EnterDrop(t)
    BY <2>28, <1>t, <1>u, NoneAssumption DEF EnterDrop, OnlyMoves
  <2>29. CASE RemoveOwner(t)
    BY <2>29, <1>t, <1>u, NoneAssumption DEF RemoveOwner
  <2>30. CASE ForgetState(t)
    BY <2>30, <1>t, <1>u, NoneAssumption DEF ForgetState, DropStateLocal
  <2>31. CASE Dropped(t)
    BY <2>31, <1>t, <1>u, NoneAssumption DEF Dropped, OnlyLeaves
  <2>32. CASE EnterDropAllStates(t)
    BY <2>32, <1>t, <1>u, NoneAssumption DEF EnterDropAllStates, Owned
  <2>33. CASE EnterDestroySession(t)
    BY <2>33, <1>t, <1>u, NoneAssumption DEF EnterDestroySession, Owned
  <2>34. CASE DisownState(t)
    BY <2>34, <1>t, <1>u, NoneAssumption DEF DisownState
  <2>35. CASE ClearStates(t)
    BY <2>35, <1>t, <1>u, NoneAssumption DEF ClearStates, DropAllStatesLocal
  <2>36. CASE CloseSession(t)
    BY <2>36, <1>t, <1>u, NoneAssumption DEF CloseSession
  <2>37. CASE Return(t)
    BY <2>37, <1>t, <1>u, NoneAssumption DEF Return
  <2> QED
    BY <1>2, <2>1, <2>2, <2>3, <2>4, <2>5, <2>6, <2>7, <2>8, <2>9, <2>10, <2>11, <2>12, <2>13,
       <2>14, <2>15, <2>16, <2>17, <2>18, <2>19, <2>20, <2>21, <2>22, <2>23, <2>24, <2>25,
       <2>26, <2>27, <2>28, <2>29, <2>30, <2>31, <2>32, <2>33, <2>34, <2>35, <2>36, <2>37
       DEF Issue, Step
<1> QED
  BY <1>1, <1>2 DEF Next, Quiet

\* UUIDs drawn by concurrent computations stay apart until they are registered.
LEMMA FreshStep ==
    TypeOK /\ LockInv /\ ProgInv /\ FreshInv /\ OwnerInv /\ TypeOK' /\ [Next]_vars => FreshInv'
<1> SUFFICES ASSUME TypeOK, LockInv, ProgInv, FreshInv, OwnerInv, TypeOK', [Next]_vars
             PROVE  FreshInv'
  OBVIOUS
<1> USE DEF LockInv, ProgInv, FreshInv, OwnerInv, Critical, Reply, Goto, Leave, globalVars,
            sessionVars, clientVars, resultVars, loopVars
<1>t. /\ pc \in [Thread -> Label]
      /\ at \in [Thread -> Session \union {None}]
      /\ lock \in [Session -> Thread \union {None}]
      /\ owner \in [StateId -> Session \union {None}]
      /\ cur \in [Thread -> StateId \union {None}]
      /\ pending \in [Thread -> SUBSET StateId]
      /\ stateMap \in [Session -> SUBSET StateId]
      /\ issued \subseteq Session \union StateId
  BY DEF TypeOK
<1>u. /\ pc' \in [Thread -> Label]
      /\ at' \in [Thread -> Session \union {None}]
      /\ lock' \in [Session -> Thread \union {None}]
      /\ owner' \in [StateId -> Session \union {None}]
      /\ cur' \in [Thread -> StateId \union {None}]
      /\ pending' \in [Thread -> SUBSET StateId]
      /\ stateMap' \in [Session -> SUBSET StateId]
      /\ issued' \subseteq Session \union StateId
  BY DEF TypeOK
<1>1. CASE UNCHANGED vars
  BY <1>1 DEF vars
<1>2. ASSUME NEW t \in Thread, Issue(t) \/ Step(t) PROVE FreshInv'
  <2>1. CASE CallCreate(t)
    BY <2>1, <1>t, <1>u, NoneAssumption DEF CallCreate, Call
  <2>2. CASE CallSession(t)
    BY <2>2, <1>t, <1>u, NoneAssumption DEF CallSession, Call
  <2>3. CASE CallState(t)
    BY <2>3, <1>t, <1>u, NoneAssumption DEF CallState, Call
  <2>4. CASE CallDrop(t)
    BY <2>4, <1>t, <1>u, NoneAssumption DEF CallDrop, Call
  <2>5. CASE BootSession(t)
    BY <2>5, <1>t, <1>u, NoneAssumption DEF BootSession
  <2>6. CASE EnterSession(t)
    BY <2>6, <1>t, <1>u, NoneAssumption DEF EnterSession
  <2>7. CASE LookupOwner(t)
    BY <2>7, <1>t, <1>u, NoneAssumption DEF LookupOwner
  <2>8. CASE LookupSession(t)
    BY <2>8, <1>t, <1>u, NoneAssumption DEF LookupSession, OnlyMoves
  <2>9. CASE Acquire(t)
    BY <2>9, <1>t, <1>u, NoneAssumption DEF Acquire, OnlyLeaves
  <2>10. CASE RejectClosing(t)
    BY <2>10, <1>t, <1>u, NoneAssumption DEF RejectClosing, OnlyLeaves
  <2>11. CASE RejectDeadState(t)
    BY <2>11, <1>t, <1>u, NoneAssumption DEF RejectDeadState, OnlyLeaves
  <2>12. CASE EnterBody(t)
    BY <2>12, <1>t, <1>u, NoneAssumption DEF EnterBody, OnlyMoves
  <2>13. CASE BodyFails(t)
    BY <2>13, <1>t, <1>u, NoneAssumption DEF BodyFails, OnlyLeaves
  <2>14. CASE LoadTheory(t)
    BY <2>14, <1>t, <1>u, NoneAssumption DEF LoadTheory
  <2>15. CASE ComputeInitState(t)
    BY <2>15, <1>t, <1>u, NoneAssumption, SMTT(40) DEF ComputeInitState, Computed
  <2>16. CASE ComputeExecute(t)
    BY <2>16, <1>t, <1>u, NoneAssumption DEF ComputeExecute, Computed
  <2>17. CASE ComputeExecuteBatch(t)
    BY <2>17, <1>t, <1>u, NoneAssumption DEF ComputeExecuteBatch, Computed
  <2>18. CASE ComputeRunSledgehammer(t)
    BY <2>18, <1>t, <1>u, NoneAssumption DEF ComputeRunSledgehammer, Computed
  <2>19. CASE GetStateInfo(t)
    BY <2>19, <1>t, <1>u, NoneAssumption DEF GetStateInfo, OnlyLeaves
  <2>20. CASE StoreState(t)
    BY <2>20, <1>t, <1>u, NoneAssumption DEF StoreState, StoreStateLocal
  <2>21. CASE PublishOwner(t)
    BY <2>21, <1>t, <1>u, NoneAssumption DEF PublishOwner
  <2>22. CASE BuildStateResult(t)
    BY <2>22, <1>t, <1>u, NoneAssumption DEF BuildStateResult
  <2>23. CASE Registered(t)
    BY <2>23, <1>t, <1>u, NoneAssumption DEF Registered
  <2>24. CASE GroupByOwner(t)
    BY <2>24, <1>t, <1>u, NoneAssumption DEF GroupByOwner
  <2>25. CASE Grouped(t)
    BY <2>25, <1>t, <1>u, NoneAssumption DEF Grouped, OnlyMoves
  <2>26. CASE NextGroup(t)
    BY <2>26, <1>t, <1>u, NoneAssumption DEF NextGroup
  <2>27. CASE NoMoreGroups(t)
    BY <2>27, <1>t, <1>u, NoneAssumption DEF NoMoreGroups, OnlyMoves
  <2>28. CASE EnterDrop(t)
    BY <2>28, <1>t, <1>u, NoneAssumption DEF EnterDrop, OnlyMoves
  <2>29. CASE RemoveOwner(t)
    BY <2>29, <1>t, <1>u, NoneAssumption DEF RemoveOwner
  <2>30. CASE ForgetState(t)
    BY <2>30, <1>t, <1>u, NoneAssumption DEF ForgetState, DropStateLocal
  <2>31. CASE Dropped(t)
    BY <2>31, <1>t, <1>u, NoneAssumption DEF Dropped, OnlyLeaves
  <2>32. CASE EnterDropAllStates(t)
    BY <2>32, <1>t, <1>u, NoneAssumption DEF EnterDropAllStates, Owned
  <2>33. CASE EnterDestroySession(t)
    BY <2>33, <1>t, <1>u, NoneAssumption DEF EnterDestroySession, Owned
  <2>34. CASE DisownState(t)
    BY <2>34, <1>t, <1>u, NoneAssumption DEF DisownState
  <2>35. CASE ClearStates(t)
    BY <2>35, <1>t, <1>u, NoneAssumption DEF ClearStates, DropAllStatesLocal
  <2>36. CASE CloseSession(t)
    BY <2>36, <1>t, <1>u, NoneAssumption DEF CloseSession
  <2>37. CASE Return(t)
    BY <2>37, <1>t, <1>u, NoneAssumption DEF Return
  <2> QED
    BY <1>2, <2>1, <2>2, <2>3, <2>4, <2>5, <2>6, <2>7, <2>8, <2>9, <2>10, <2>11, <2>12, <2>13,
       <2>14, <2>15, <2>16, <2>17, <2>18, <2>19, <2>20, <2>21, <2>22, <2>23, <2>24, <2>25,
       <2>26, <2>27, <2>28, <2>29, <2>30, <2>31, <2>32, <2>33, <2>34, <2>35, <2>36, <2>37
       DEF Issue, Step
<1> QED
  BY <1>1, <1>2 DEF Next, Quiet

\* Registry and session store agree up to the one id the lock holder is moving.
LEMMA OwnerStep ==
    TypeOK /\ LockInv /\ ProgInv /\ FreshInv /\ OwnerInv /\ TypeOK' /\ [Next]_vars => OwnerInv'
<1> SUFFICES ASSUME TypeOK, LockInv, ProgInv, FreshInv, OwnerInv, TypeOK', [Next]_vars
             PROVE  OwnerInv'
  OBVIOUS
<1> USE DEF LockInv, ProgInv, FreshInv, OwnerInv, Critical, Reply, Owned, Goto, Leave,
            globalVars, sessionVars, clientVars, resultVars, loopVars
<1>t. /\ pc \in [Thread -> Label]
      /\ at \in [Thread -> Session \union {None}]
      /\ lock \in [Session -> Thread \union {None}]
      /\ owner \in [StateId -> Session \union {None}]
      /\ cur \in [Thread -> StateId \union {None}]
      /\ pending \in [Thread -> SUBSET StateId]
      /\ stateMap \in [Session -> SUBSET StateId]
      /\ todo \in [Thread -> SUBSET StateId]
      /\ issued \subseteq Session \union StateId
  BY DEF TypeOK
<1>u. /\ pc' \in [Thread -> Label]
      /\ at' \in [Thread -> Session \union {None}]
      /\ lock' \in [Session -> Thread \union {None}]
      /\ owner' \in [StateId -> Session \union {None}]
      /\ cur' \in [Thread -> StateId \union {None}]
      /\ pending' \in [Thread -> SUBSET StateId]
      /\ stateMap' \in [Session -> SUBSET StateId]
      /\ todo' \in [Thread -> SUBSET StateId]
      /\ issued' \subseteq Session \union StateId
  BY DEF TypeOK
<1>1. CASE UNCHANGED vars
  BY <1>1 DEF vars
<1>2. ASSUME NEW t \in Thread, Issue(t) \/ Step(t) PROVE OwnerInv'
  <2>1. CASE CallCreate(t)
    BY <2>1, <1>t, <1>u, NoneAssumption DEF CallCreate, Call
  <2>2. CASE CallSession(t)
    BY <2>2, <1>t, <1>u, NoneAssumption DEF CallSession, Call
  <2>3. CASE CallState(t)
    BY <2>3, <1>t, <1>u, NoneAssumption DEF CallState, Call
  <2>4. CASE CallDrop(t)
    BY <2>4, <1>t, <1>u, NoneAssumption DEF CallDrop, Call
  <2>5. CASE BootSession(t)
    BY <2>5, <1>t, <1>u, NoneAssumption DEF BootSession
  <2>6. CASE EnterSession(t)
    BY <2>6, <1>t, <1>u, NoneAssumption DEF EnterSession
  <2>7. CASE LookupOwner(t)
    BY <2>7, <1>t, <1>u, NoneAssumption DEF LookupOwner
  <2>8. CASE LookupSession(t)
    BY <2>8, <1>t, <1>u, NoneAssumption DEF LookupSession, OnlyMoves
  <2>9. CASE Acquire(t)
    BY <2>9, <1>t, <1>u, NoneAssumption DEF Acquire, OnlyLeaves
  <2>10. CASE RejectClosing(t)
    BY <2>10, <1>t, <1>u, NoneAssumption DEF RejectClosing, OnlyLeaves
  <2>11. CASE RejectDeadState(t)
    BY <2>11, <1>t, <1>u, NoneAssumption DEF RejectDeadState, OnlyLeaves
  <2>12. CASE EnterBody(t)
    BY <2>12, <1>t, <1>u, NoneAssumption DEF EnterBody, OnlyMoves
  <2>13. CASE BodyFails(t)
    BY <2>13, <1>t, <1>u, NoneAssumption DEF BodyFails, OnlyLeaves
  <2>14. CASE LoadTheory(t)
    BY <2>14, <1>t, <1>u, NoneAssumption DEF LoadTheory
  <2>15. CASE ComputeInitState(t)
    BY <2>15, <1>t, <1>u, NoneAssumption DEF ComputeInitState, Computed
  <2>16. CASE ComputeExecute(t)
    BY <2>16, <1>t, <1>u, NoneAssumption DEF ComputeExecute, Computed
  <2>17. CASE ComputeExecuteBatch(t)
    BY <2>17, <1>t, <1>u, NoneAssumption DEF ComputeExecuteBatch, Computed
  <2>18. CASE ComputeRunSledgehammer(t)
    BY <2>18, <1>t, <1>u, NoneAssumption DEF ComputeRunSledgehammer, Computed
  <2>19. CASE GetStateInfo(t)
    BY <2>19, <1>t, <1>u, NoneAssumption DEF GetStateInfo, OnlyLeaves
  <2>20. CASE StoreState(t)
    BY <2>20, <1>t, <1>u, NoneAssumption DEF StoreState, StoreStateLocal
  <2>21. CASE PublishOwner(t)
    BY <2>21, <1>t, <1>u, NoneAssumption DEF PublishOwner
  <2>22. CASE BuildStateResult(t)
    BY <2>22, <1>t, <1>u, NoneAssumption DEF BuildStateResult
  <2>23. CASE Registered(t)
    BY <2>23, <1>t, <1>u, NoneAssumption DEF Registered
  <2>24. CASE GroupByOwner(t)
    BY <2>24, <1>t, <1>u, NoneAssumption DEF GroupByOwner
  <2>25. CASE Grouped(t)
    BY <2>25, <1>t, <1>u, NoneAssumption DEF Grouped, OnlyMoves
  <2>26. CASE NextGroup(t)
    BY <2>26, <1>t, <1>u, NoneAssumption DEF NextGroup
  <2>27. CASE NoMoreGroups(t)
    BY <2>27, <1>t, <1>u, NoneAssumption DEF NoMoreGroups, OnlyMoves
  <2>28. CASE EnterDrop(t)
    BY <2>28, <1>t, <1>u, NoneAssumption DEF EnterDrop, OnlyMoves
  <2>29. CASE RemoveOwner(t)
    BY <2>29, <1>t, <1>u, NoneAssumption DEF RemoveOwner
  <2>30. CASE ForgetState(t)
    BY <2>30, <1>t, <1>u, NoneAssumption DEF ForgetState, DropStateLocal
  <2>31. CASE Dropped(t)
    BY <2>31, <1>t, <1>u, NoneAssumption DEF Dropped, OnlyLeaves
  <2>32. CASE EnterDropAllStates(t)
    BY <2>32, <1>t, <1>u, NoneAssumption DEF EnterDropAllStates, Owned
  <2>33. CASE EnterDestroySession(t)
    BY <2>33, <1>t, <1>u, NoneAssumption DEF EnterDestroySession, Owned
  <2>34. CASE DisownState(t)
    BY <2>34, <1>t, <1>u, NoneAssumption DEF DisownState
  <2>35. CASE ClearStates(t)
    BY <2>35, <1>t, <1>u, NoneAssumption DEF ClearStates, DropAllStatesLocal
  <2>36. CASE CloseSession(t)
    BY <2>36, <1>t, <1>u, NoneAssumption DEF CloseSession
  <2>37. CASE Return(t)
    BY <2>37, <1>t, <1>u, NoneAssumption DEF Return
  <2> QED
    BY <1>2, <2>1, <2>2, <2>3, <2>4, <2>5, <2>6, <2>7, <2>8, <2>9, <2>10, <2>11, <2>12, <2>13,
       <2>14, <2>15, <2>16, <2>17, <2>18, <2>19, <2>20, <2>21, <2>22, <2>23, <2>24, <2>25,
       <2>26, <2>27, <2>28, <2>29, <2>30, <2>31, <2>32, <2>33, <2>34, <2>35, <2>36, <2>37
       DEF Issue, Step
<1> QED
  BY <1>1, <1>2 DEF Next, Quiet

\* A closing session is emptied once and stays empty, whoever waits on its lock.
LEMMA ClosingStep ==
    TypeOK /\ LockInv /\ ProgInv /\ FreshInv /\ OwnerInv /\ ClosingInv /\ TypeOK' /\ [Next]_vars => ClosingInv'
<1> SUFFICES ASSUME TypeOK, LockInv, ProgInv, FreshInv, OwnerInv, ClosingInv, TypeOK', [Next]_vars
             PROVE  ClosingInv'
  OBVIOUS
<1> USE DEF LockInv, ProgInv, OwnerInv, ClosingInv, Critical, Reply, Owned, SessionOps,
            StateOps, NoRequest, Goto, Leave, globalVars, sessionVars, clientVars,
            resultVars, loopVars
<1>t. /\ pc \in [Thread -> Label]
      /\ at \in [Thread -> Session \union {None}]
      /\ lock \in [Session -> Thread \union {None}]
      /\ req \in [Thread -> Request]
      /\ sessionMap \subseteq Session
      /\ known \subseteq Session \union StateId
      /\ owner \in [StateId -> Session \union {None}]
      /\ closing \in [Session -> BOOLEAN]
      /\ stateMap \in [Session -> SUBSET StateId]
      /\ initCache \in [Session -> [Key -> StateId \union {None}]]
      /\ initCacheKeys \in [Session -> [StateId -> Key \union {None}]]
      /\ cur \in [Thread -> StateId \union {None}]
      /\ key \in [Thread -> Key \union {None}]
  BY DEF TypeOK
<1>u. /\ pc' \in [Thread -> Label]
      /\ at' \in [Thread -> Session \union {None}]
      /\ lock' \in [Session -> Thread \union {None}]
      /\ req' \in [Thread -> Request]
      /\ sessionMap' \subseteq Session
      /\ known' \subseteq Session \union StateId
      /\ owner' \in [StateId -> Session \union {None}]
      /\ closing' \in [Session -> BOOLEAN]
      /\ stateMap' \in [Session -> SUBSET StateId]
      /\ initCache' \in [Session -> [Key -> StateId \union {None}]]
      /\ initCacheKeys' \in [Session -> [StateId -> Key \union {None}]]
      /\ cur' \in [Thread -> StateId \union {None}]
      /\ key' \in [Thread -> Key \union {None}]
  BY DEF TypeOK
<1>1. CASE UNCHANGED vars
  BY <1>1 DEF vars
<1>2. ASSUME NEW t \in Thread, Issue(t) \/ Step(t) PROVE ClosingInv'
  <2>1. CASE CallCreate(t)
    BY <2>1, <1>t, <1>u, NoneAssumption DEF CallCreate, Call
  <2>2. CASE CallSession(t)
    BY <2>2, <1>t, <1>u, NoneAssumption DEF CallSession, Call
  <2>3. CASE CallState(t)
    BY <2>3, <1>t, <1>u, NoneAssumption DEF CallState, Call
  <2>4. CASE CallDrop(t)
    BY <2>4, <1>t, <1>u, NoneAssumption DEF CallDrop, Call
  <2>5. CASE BootSession(t)
    <3>1. UNCHANGED <<sessionMap, closing, lock, stateMap, initCache, req, known>>
      BY <2>5 DEF BootSession
    <3>2. pc[t] = "create" /\ \E l \in {"enter", "FAILED"} : pc' = [pc EXCEPT ![t] = l]
      BY <2>5 DEF BootSession
    <3>3. \A u \in Thread \ {t} : at'[u] = at[u]
      BY <2>5, <1>t DEF BootSession
    <3> QED
      BY <3>1, <3>2, <3>3, <1>t, <1>u, NoneAssumption
  <2>6. CASE EnterSession(t)
    BY <2>6, <1>t, <1>u, NoneAssumption DEF EnterSession
  <2>7. CASE LookupOwner(t)
    BY <2>7, <1>t, <1>u, NoneAssumption DEF LookupOwner
  <2>8. CASE LookupSession(t)
    BY <2>8, <1>t, <1>u, NoneAssumption DEF LookupSession, OnlyMoves
  <2>9. CASE Acquire(t)
    BY <2>9, <1>t, <1>u, NoneAssumption DEF Acquire, OnlyLeaves
  <2>10. CASE RejectClosing(t)
    BY <2>10, <1>t, <1>u, NoneAssumption DEF RejectClosing, OnlyLeaves
  <2>11. CASE RejectDeadState(t)
    BY <2>11, <1>t, <1>u, NoneAssumption DEF RejectDeadState, OnlyLeaves
  <2>12. CASE EnterBody(t)
    BY <2>12, <1>t, <1>u, NoneAssumption DEF EnterBody, OnlyMoves
  <2>13. CASE BodyFails(t)
    BY <2>13, <1>t, <1>u, NoneAssumption DEF BodyFails, OnlyLeaves
  <2>14. CASE LoadTheory(t)
    BY <2>14, <1>t, <1>u, NoneAssumption DEF LoadTheory
  <2>15. CASE ComputeInitState(t)
    <3>1. UNCHANGED <<sessionMap, closing, stateMap, initCache, req, at, known>>
      BY <2>15 DEF ComputeInitState, Computed, clientVars
    <3>2. \/ Goto(t, "store") /\ UNCHANGED lock
          \/ Leave(t, "FAILED")
      BY <2>15 DEF ComputeInitState
    <3>3. pc[t] = "body"
      BY <2>15 DEF ComputeInitState
    <3>4. CASE Goto(t, "store") /\ UNCHANGED lock
      BY <3>1, <3>3, <3>4, <1>t, <1>u, NoneAssumption DEF Goto
    <3>5. CASE Leave(t, "FAILED")
      BY <3>1, <3>3, <3>5, <1>t, <1>u, NoneAssumption DEF Goto, Leave
    <3> QED
      BY <3>2, <3>4, <3>5
  <2>16. CASE ComputeExecute(t)
    BY <2>16, <1>t, <1>u, NoneAssumption DEF ComputeExecute, Computed
  <2>17. CASE ComputeExecuteBatch(t)
    BY <2>17, <1>t, <1>u, NoneAssumption DEF ComputeExecuteBatch, Computed
  <2>18. CASE ComputeRunSledgehammer(t)
    BY <2>18, <1>t, <1>u, NoneAssumption DEF ComputeRunSledgehammer, Computed
  <2>19. CASE GetStateInfo(t)
    BY <2>19, <1>t, <1>u, NoneAssumption DEF GetStateInfo, OnlyLeaves
  <2>20. CASE StoreState(t)
    BY <2>20, <1>t, <1>u, NoneAssumption DEF StoreState, StoreStateLocal
  <2>21. CASE PublishOwner(t)
    BY <2>21, <1>t, <1>u, NoneAssumption DEF PublishOwner
  <2>22. CASE BuildStateResult(t)
    BY <2>22, <1>t, <1>u, NoneAssumption DEF BuildStateResult
  <2>23. CASE Registered(t)
    BY <2>23, <1>t, <1>u, NoneAssumption DEF Registered
  <2>24. CASE GroupByOwner(t)
    BY <2>24, <1>t, <1>u, NoneAssumption DEF GroupByOwner
  <2>25. CASE Grouped(t)
    BY <2>25, <1>t, <1>u, NoneAssumption DEF Grouped, OnlyMoves
  <2>26. CASE NextGroup(t)
    <3>1. UNCHANGED <<sessionMap, closing, lock, stateMap, initCache, req, known>>
      BY <2>26 DEF NextGroup
    <3>2. \/ UNCHANGED <<at, pc>>
          \/ \E s \in sessionMap : /\ at' = [at EXCEPT ![t] = s]
                                   /\ pc' = [pc EXCEPT ![t] = "acquire"]
      BY <2>26 DEF NextGroup
    <3>3. pc[t] = "next"
      BY <2>26 DEF NextGroup
    <3>4. CASE UNCHANGED <<at, pc>>
      BY <3>1, <3>4
    <3>5. ASSUME NEW s \in sessionMap,
                 at' = [at EXCEPT ![t] = s], pc' = [pc EXCEPT ![t] = "acquire"]
          PROVE  ClosingInv'
      BY <3>1, <3>3, <3>5, <1>t, <1>u, NoneAssumption
    <3> QED
      BY <3>2, <3>4, <3>5
  <2>27. CASE NoMoreGroups(t)
    BY <2>27, <1>t, <1>u, NoneAssumption DEF NoMoreGroups, OnlyMoves
  <2>28. CASE EnterDrop(t)
    BY <2>28, <1>t, <1>u, NoneAssumption DEF EnterDrop, OnlyMoves
  <2>29. CASE RemoveOwner(t)
    BY <2>29, <1>t, <1>u, NoneAssumption DEF RemoveOwner
  <2>30. CASE ForgetState(t)
    BY <2>30, <1>t, <1>u, NoneAssumption DEF ForgetState, DropStateLocal
  <2>31. CASE Dropped(t)
    BY <2>31, <1>t, <1>u, NoneAssumption DEF Dropped, OnlyLeaves
  <2>32. CASE EnterDropAllStates(t)
    BY <2>32, <1>t, <1>u, NoneAssumption DEF EnterDropAllStates, Owned
  <2>33. CASE EnterDestroySession(t)
    BY <2>33, <1>t, <1>u, NoneAssumption DEF EnterDestroySession, Owned
  <2>34. CASE DisownState(t)
    BY <2>34, <1>t, <1>u, NoneAssumption DEF DisownState
  <2>35. CASE ClearStates(t)
    BY <2>35, <1>t, <1>u, NoneAssumption DEF ClearStates, DropAllStatesLocal
  <2>36. CASE CloseSession(t)
    BY <2>36, <1>t, <1>u, NoneAssumption, SMTT(40) DEF CloseSession
  <2>37. CASE Return(t)
    <3>1. UNCHANGED <<sessionMap, closing, lock, stateMap, initCache>>
      BY <2>37 DEF Return, globalVars, sessionVars
    <3>2. /\ pc[t] \in Reply
          /\ pc' = [pc EXCEPT ![t] = "idle"]
          /\ at' = [at EXCEPT ![t] = None]
          /\ req' = [req EXCEPT ![t] = NoRequest]
      BY <2>37 DEF Return, Goto
    <3>3. \A s \in Session \intersect known' : s \in sessionMap' \/ closing'[s]
      <4>1. results[t] \subseteq StateId
        BY DEF TypeOK
      <4>2. \A s \in known' : \/ s \in known \/ s \in results[t]
                              \/ s = at[t] /\ pc[t] = "OK" /\ req[t].op = "createSession"
        BY <2>37 DEF Return
      <4> QED
        BY <3>1, <4>1, <4>2, <1>t, IdAssumption
    <3> QED
      BY <3>1, <3>2, <3>3, <1>t, <1>u, NoneAssumption
  <2> QED
    BY <1>2, <2>1, <2>2, <2>3, <2>4, <2>5, <2>6, <2>7, <2>8, <2>9, <2>10, <2>11, <2>12, <2>13,
       <2>14, <2>15, <2>16, <2>17, <2>18, <2>19, <2>20, <2>21, <2>22, <2>23, <2>24, <2>25,
       <2>26, <2>27, <2>28, <2>29, <2>30, <2>31, <2>32, <2>33, <2>34, <2>35, <2>36, <2>37
       DEF Issue, Step
<1> QED
  BY <1>1, <1>2 DEF Next, Quiet

\* The init cache follows the store through registration, drops and clearing.
LEMMA CheckpointStep ==
    TypeOK /\ LockInv /\ ProgInv /\ FreshInv /\ OwnerInv /\ CheckpointsLive /\ TypeOK' /\ [Next]_vars => CheckpointsLive'
<1> SUFFICES ASSUME TypeOK, LockInv, ProgInv, FreshInv, OwnerInv, CheckpointsLive, TypeOK', [Next]_vars
             PROVE  CheckpointsLive'
  OBVIOUS
<1> USE DEF LockInv, ProgInv, FreshInv, OwnerInv, CheckpointsLive, Critical, Reply, Goto,
            Leave, globalVars, sessionVars, clientVars, resultVars, loopVars
<1>t. /\ pc \in [Thread -> Label]
      /\ at \in [Thread -> Session \union {None}]
      /\ lock \in [Session -> Thread \union {None}]
      /\ owner \in [StateId -> Session \union {None}]
      /\ key \in [Thread -> Key \union {None}]
      /\ cur \in [Thread -> StateId \union {None}]
      /\ pending \in [Thread -> SUBSET StateId]
      /\ stateMap \in [Session -> SUBSET StateId]
      /\ theoryCache \in [Session -> SUBSET Theory]
      /\ initCache \in [Session -> [Key -> StateId \union {None}]]
      /\ initCacheKeys \in [Session -> [StateId -> Key \union {None}]]
      /\ issued \subseteq Session \union StateId
  BY DEF TypeOK
<1>u. /\ pc' \in [Thread -> Label]
      /\ at' \in [Thread -> Session \union {None}]
      /\ lock' \in [Session -> Thread \union {None}]
      /\ owner' \in [StateId -> Session \union {None}]
      /\ key' \in [Thread -> Key \union {None}]
      /\ cur' \in [Thread -> StateId \union {None}]
      /\ pending' \in [Thread -> SUBSET StateId]
      /\ stateMap' \in [Session -> SUBSET StateId]
      /\ theoryCache' \in [Session -> SUBSET Theory]
      /\ initCache' \in [Session -> [Key -> StateId \union {None}]]
      /\ initCacheKeys' \in [Session -> [StateId -> Key \union {None}]]
      /\ issued' \subseteq Session \union StateId
  BY DEF TypeOK
<1>1. CASE UNCHANGED vars
  BY <1>1 DEF vars
<1>2. ASSUME NEW t \in Thread, Issue(t) \/ Step(t) PROVE CheckpointsLive'
  <2>1. CASE CallCreate(t)
    BY <2>1, <1>t, <1>u, NoneAssumption DEF CallCreate, Call
  <2>2. CASE CallSession(t)
    BY <2>2, <1>t, <1>u, NoneAssumption DEF CallSession, Call
  <2>3. CASE CallState(t)
    BY <2>3, <1>t, <1>u, NoneAssumption DEF CallState, Call
  <2>4. CASE CallDrop(t)
    BY <2>4, <1>t, <1>u, NoneAssumption DEF CallDrop, Call
  <2>5. CASE BootSession(t)
    BY <2>5, <1>t, <1>u, NoneAssumption DEF BootSession
  <2>6. CASE EnterSession(t)
    BY <2>6, <1>t, <1>u, NoneAssumption DEF EnterSession
  <2>7. CASE LookupOwner(t)
    BY <2>7, <1>t, <1>u, NoneAssumption DEF LookupOwner
  <2>8. CASE LookupSession(t)
    BY <2>8, <1>t, <1>u, NoneAssumption DEF LookupSession, OnlyMoves
  <2>9. CASE Acquire(t)
    BY <2>9, <1>t, <1>u, NoneAssumption DEF Acquire, OnlyLeaves
  <2>10. CASE RejectClosing(t)
    BY <2>10, <1>t, <1>u, NoneAssumption DEF RejectClosing, OnlyLeaves
  <2>11. CASE RejectDeadState(t)
    BY <2>11, <1>t, <1>u, NoneAssumption DEF RejectDeadState, OnlyLeaves
  <2>12. CASE EnterBody(t)
    BY <2>12, <1>t, <1>u, NoneAssumption DEF EnterBody, OnlyMoves
  <2>13. CASE BodyFails(t)
    BY <2>13, <1>t, <1>u, NoneAssumption DEF BodyFails, OnlyLeaves
  <2>14. CASE LoadTheory(t)
    BY <2>14, <1>t, <1>u, NoneAssumption DEF LoadTheory
  <2>15. CASE ComputeInitState(t)
    BY <2>15, <1>t, <1>u, NoneAssumption DEF ComputeInitState, Computed
  <2>16. CASE ComputeExecute(t)
    BY <2>16, <1>t, <1>u, NoneAssumption DEF ComputeExecute, Computed
  <2>17. CASE ComputeExecuteBatch(t)
    BY <2>17, <1>t, <1>u, NoneAssumption DEF ComputeExecuteBatch, Computed
  <2>18. CASE ComputeRunSledgehammer(t)
    BY <2>18, <1>t, <1>u, NoneAssumption DEF ComputeRunSledgehammer, Computed
  <2>19. CASE GetStateInfo(t)
    BY <2>19, <1>t, <1>u, NoneAssumption DEF GetStateInfo, OnlyLeaves
  <2>20. CASE StoreState(t)
    <3>1. PICK x \in pending[t] : StoreStateLocal(at[t], x, key[t])
      BY <2>20 DEF StoreState
    <3>2. at[t] \in Session /\ x \in StateId /\ x \notin stateMap[at[t]] /\ theoryCache' = theoryCache
      BY <2>20, <1>t DEF StoreState
    <3>a. stateMap' = [stateMap EXCEPT ![at[t]] = stateMap[at[t]] \union {x}]
      BY <3>1, <3>2, <1>t DEF StoreStateLocal
    <3>b. key[t] # None => key[t] \in Key /\ key[t][1] \in theoryCache[at[t]]
      BY <2>20, <1>t DEF StoreState
    <3>3. /\ \A s \in Session : stateMap[s] \subseteq stateMap'[s]
          /\ x \in stateMap'[at[t]]
          /\ key[t] # None => key[t] \in Key /\ key[t][1] \in theoryCache[at[t]]
      BY <3>a, <3>b, <3>2, <1>t
    <3>4. CASE key[t] = None
      BY <3>1, <3>2, <3>3, <3>4, <1>t DEF StoreStateLocal
    <3>5. CASE key[t] # None
      <4>1. ASSUME NEW s \in Session, NEW k \in Key, initCache'[s][k] # None
            PROVE  /\ initCache'[s][k] \in stateMap'[s]
                   /\ initCacheKeys'[s][initCache'[s][k]] = k
                   /\ k[1] \in theoryCache'[s]
        <5>1. CASE s # at[t]
          <6>1. initCache'[s] = initCache[s] /\ initCacheKeys'[s] = initCacheKeys[s]
            BY <3>1, <3>2, <3>5, <5>1, <1>t DEF StoreStateLocal
          <6> QED
            BY <4>1, <5>1, <6>1, <3>2, <3>3, <1>t
        <5>2. CASE s = at[t]
          <6>1. /\ initCache'[s] = [initCache[s] EXCEPT ![key[t]] = x]
                /\ initCacheKeys'[s] = [initCacheKeys[s] EXCEPT ![x] = key[t]]
            BY <3>1, <3>2, <3>5, <5>2, <1>t DEF StoreStateLocal
          <6>2. CASE k = key[t]
            BY <5>2, <6>1, <6>2, <3>2, <3>3, <3>5, <1>t
          <6>3. CASE k # key[t]
            BY <4>1, <5>2, <6>1, <6>3, <3>2, <3>3, <1>t
          <6> QED
            BY <6>2, <6>3
        <5> QED
          BY <5>1, <5>2
      <4> QED
        BY <4>1
    <3> QED
      BY <3>4, <3>5
  <2>21. CASE PublishOwner(t)
    BY <2>21, <1>t, <1>u, NoneAssumption DEF PublishOwner
  <2>22. CASE BuildStateResult(t)
    BY <2>22, <1>t, <1>u, NoneAssumption DEF BuildStateResult
  <2>23. CASE Registered(t)
    BY <2>23, <1>t, <1>u, NoneAssumption DEF Registered
  <2>24. CASE GroupByOwner(t)
    BY <2>24, <1>t, <1>u, NoneAssumption DEF GroupByOwner
  <2>25. CASE Grouped(t)
    BY <2>25, <1>t, <1>u, NoneAssumption DEF Grouped, OnlyMoves
  <2>26. CASE NextGroup(t)
    BY <2>26, <1>t, <1>u, NoneAssumption DEF NextGroup
  <2>27. CASE NoMoreGroups(t)
    BY <2>27, <1>t, <1>u, NoneAssumption DEF NoMoreGroups, OnlyMoves
  <2>28. CASE EnterDrop(t)
    BY <2>28, <1>t, <1>u, NoneAssumption DEF EnterDrop, OnlyMoves
  <2>29. CASE RemoveOwner(t)
    BY <2>29, <1>t, <1>u, NoneAssumption DEF RemoveOwner
  <2>30. CASE ForgetState(t)
    BY <2>30, <1>t, <1>u, NoneAssumption DEF ForgetState, DropStateLocal
  <2>31. CASE Dropped(t)
    BY <2>31, <1>t, <1>u, NoneAssumption DEF Dropped, OnlyLeaves
  <2>32. CASE EnterDropAllStates(t)
    BY <2>32, <1>t, <1>u, NoneAssumption DEF EnterDropAllStates, Owned
  <2>33. CASE EnterDestroySession(t)
    BY <2>33, <1>t, <1>u, NoneAssumption DEF EnterDestroySession, Owned
  <2>34. CASE DisownState(t)
    BY <2>34, <1>t, <1>u, NoneAssumption DEF DisownState
  <2>35. CASE ClearStates(t)
    BY <2>35, <1>t, <1>u, NoneAssumption DEF ClearStates, DropAllStatesLocal
  <2>36. CASE CloseSession(t)
    BY <2>36, <1>t, <1>u, NoneAssumption DEF CloseSession
  <2>37. CASE Return(t)
    BY <2>37, <1>t, <1>u, NoneAssumption DEF Return
  <2> QED
    BY <1>2, <2>1, <2>2, <2>3, <2>4, <2>5, <2>6, <2>7, <2>8, <2>9, <2>10, <2>11, <2>12, <2>13,
       <2>14, <2>15, <2>16, <2>17, <2>18, <2>19, <2>20, <2>21, <2>22, <2>23, <2>24, <2>25,
       <2>26, <2>27, <2>28, <2>29, <2>30, <2>31, <2>32, <2>33, <2>34, <2>35, <2>36, <2>37
       DEF Issue, Step
<1> QED
  BY <1>1, <1>2 DEF Next, Quiet


-----------------------------------------------------------------------------
\* The server starts empty, with every call slot idle.
LEMMA InitInv == Init => IInv
<1> SUFFICES ASSUME Init PROVE IInv
  OBVIOUS
<1>1. TypeOK
  BY Labels, Requests DEF Init, TypeOK
<1>2. LockInv /\ ProgInv
  BY DEF Init, LockInv, ProgInv, Critical, NoRequest, StateOps
<1>3. FreshInv /\ OwnerInv /\ CheckpointsLive
  BY DEF Init, FreshInv, OwnerInv, CheckpointsLive
<1>4. ClosingInv
  BY DEF Init, ClosingInv, Critical
<1> QED
  BY <1>1, <1>2, <1>3, <1>4 DEF IInv

\* IInv is inductive: one lemma for each of its conjuncts.
LEMMA StepInv == IInv /\ [Next]_vars => IInv'
<1> SUFFICES ASSUME IInv, [Next]_vars PROVE IInv'
  OBVIOUS
<1>1. TypeOK'
  BY TypeStep DEF IInv
<1> QED
  BY <1>1, LockStep, ProgStep, FreshStep, OwnerStep, ClosingStep, CheckpointStep DEF IInv

\* In every behaviour of the service, at any load, IInv holds throughout.
THEOREM Inductive == Spec => []IInv
BY InitInv, StepInv, PTL DEF Spec

\* The tables of the service and the locals of every call stay well typed.
THEOREM TypeCorrect == Spec => []TypeOK
<1>1. IInv => TypeOK
  BY DEF IInv
<1> QED
  BY <1>1, Inductive, PTL

\* StateRegistry's source-of-truth invariant: an owner read without a lock names
\* a session that stores the state, and a session at rest strands no state.
THEOREM RegistryAgrees == Spec => []SourceOfTruth
<1>1. IInv => SourceOfTruth
  <2> SUFFICES ASSUME IInv PROVE SourceOfTruth
    OBVIOUS
  <2>1. ASSUME NEW s \in Session, lock[s] = None, NEW x \in stateMap[s] PROVE x \in Owned(s)
    <3>1. x \in StateId
      BY DEF IInv, TypeOK
    <3> QED
      BY <2>1, <3>1 DEF IInv, OwnerInv, Owned
  <2> QED
    BY <2>1 DEF IInv, OwnerInv, SourceOfTruth
<1> QED
  BY <1>1, Inductive, PTL

\* IsabelleSession's local invariant: init-cache entries only point at live states.
THEOREM CheckpointsAreLive == Spec => []CheckpointsLive
<1>1. IInv => CheckpointsLive
  BY DEF IInv
<1> QED
  BY <1>1, Inductive, PTL

\* A session destroySession has let go of holds no state and no checkpoint, also
\* when closing its process failed and calls were queued on its lock.
THEOREM DestroyedIsEmpty == Spec => []ClosedHoldsNothing
<1>1. IInv => ClosedHoldsNothing
  <2> SUFFICES ASSUME IInv, NEW s \in Session,
                      (closing[s] /\ lock[s] = None) \/ (s \in known /\ s \notin sessionMap)
               PROVE  /\ Owned(s) = {}
                      /\ stateMap[s] = {}
                      /\ \A k \in Key : initCache[s][k] = None
    BY DEF ClosedHoldsNothing
  <2>1. closing[s]
    BY DEF IInv, ClosingInv
  <2>2. lock[s] = None \/ pc[lock[s]] # "disown"
    <3>1. CASE s \notin sessionMap
      <4> SUFFICES ASSUME lock[s] # None PROVE pc[lock[s]] # "disown"
        OBVIOUS
      <4>1. lock[s] \in Thread /\ at[lock[s]] = s
        BY DEF IInv, TypeOK, LockInv
      <4> QED
        BY <3>1, <4>1 DEF IInv, ClosingInv
    <3> QED
      BY <3>1
  <2>3. stateMap[s] = {} /\ \A k \in Key : initCache[s][k] = None
    BY <2>1, <2>2 DEF IInv, ClosingInv
  <2>4. Owned(s) = {}
    BY <2>3, NoneAssumption DEF IInv, OwnerInv, Owned
  <2> QED
    BY <2>3, <2>4
<1> QED
  BY <1>1, Inductive, PTL
=============================================================================

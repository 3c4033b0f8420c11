------------------------ MODULE ReplServerCallProofs ------------------------
(***************************************************************************)
(* What the calls of ReplServer may rely on, for any number of calls,      *)
(* sessions, states and theories: an answer NOT_FOUND is true when it is   *)
(* given, no handler works on a session that is closing or gone, failed    *)
(* candidates of a batch are dropped and no others, and a session is torn  *)
(* down in order.  CInv adds to IInv which ids are known to whom.          *)
(***************************************************************************)
EXTENDS ReplServerProofs

\* A session has a process from before it can be found until it is gone, and
\* the id of a session that is being created is in nobody else's hands.
SessionInv ==
    /\ sessionMap \subseteq running
    /\ sessionMap \union known \subseteq issued
    /\ \A s \in Session :
          /\ stateMap[s] # {} => s \in sessionMap
          /\ closing[s] => s \in issued
    /\ \A t \in Thread : pc[t] = "enter" =>
          /\ at[t] \in running \intersect issued
          /\ at[t] \notin sessionMap \union known
          /\ ~closing[at[t]]
          /\ \A u \in Thread : pc[u] = "enter" /\ at[u] = at[t] => u = t

\* An id a client knows, or will be told, is never registered a second time;
\* only a call that computed results has any, and only a failed one loses them.
KnownInv ==
    /\ \A t, u \in Thread : (known \union results[t]) \intersect pending[u] = {}
    /\ \A t \in Thread :
          /\ results[t] \subseteq issued
          /\ req[t].op \in StateOps => req[t].src \in known
          /\ req[t].op \in SessionOps => req[t].sid \in known \intersect Session
          /\ pending[t] # {} => pc[t] \in {"store", "publish", "build", "FAILED"}
          /\ results[t] # {} =>
                /\ req[t].op # "dropState"
                /\ pc[t] \in {"store", "publish", "build", "unown", "forget", "OK", "FAILED"}

\* Which operations reach which program points.
OpInv ==
    \A t \in Thread :
        /\ pc[t] \in {"create", "enter"} => req[t].op = "createSession"
        /\ pc[t] \in {"session", "NOT_FOUND"} => req[t].op \in SessionOps \union StateOps
        /\ pc[t] = "session" /\ req[t].op \in SessionOps => at[t] = req[t].sid
        /\ pc[t] \in {"body", "store", "publish", "build"} =>
              req[t].op \in StateOps \union {"loadTheory", "initState"}
        /\ pc[t] \in {"unown", "forget"} => req[t].op \in {"dropState", "executeBatch"}
        /\ pc[t] = "disown" => req[t].op \in {"dropAllStates", "destroySession"}
        /\ pc[t] = "close" => req[t].op = "destroySession"
        /\ req[t].dropFailed => req[t].op = "executeBatch"

\* The owner a call has read is the owner of its source state, or the state is
\* dead by now; past the checks under the lock it stays live.
SourceInv ==
    \A t \in Thread : req[t].op \in StateOps =>
        /\ pc[t] \in {"session", "acquire", "locked"} => owner[req[t].src] \in {at[t], None}
        /\ pc[t] \in {"body", "store", "publish", "build"} => owner[req[t].src] = at[t]

\* What a call registered is live until its handler drops it, which happens to
\* failed candidates only, and to all of them.
ResultInv ==
    \A t \in Thread :
        /\ pc[t] \in {"store", "publish", "build"} =>
              /\ failed[t] \subseteq pending[t] \union results[t]
              /\ \A x \in results[t] : owner[x] = at[t]
        /\ pc[t] \in {"unown", "forget"} /\ req[t].op = "executeBatch" =>
              /\ todo[t] \subseteq failed[t]
              /\ failed[t] \subseteq results[t]
              /\ \A x \in results[t] \ todo[t] : owner[x] = IF x \in failed[t] THEN None ELSE at[t]
              /\ \A x \in todo[t] : owner[x] = at[t]
              /\ pc[t] = "forget" => cur[t] \in failed[t]
        /\ pc[t] = "OK" /\ req[t].dropFailed =>
              failed[t] \subseteq results[t] /\ \A x \in failed[t] : owner[x] = None

CInv == IInv /\ SessionInv /\ KnownInv /\ OpInv /\ SourceInv /\ ResultInv /\ NotFoundIsTrue

-----------------------------------------------------------------------------
\* computeInitState draws fresh ids and waits to register them, or it fails.
LEMMA InitStateEffect ==
    ASSUME NEW t \in Thread, ComputeInitState(t)
    PROVE  /\ pc[t] = "body" /\ req[t].op = "initState"
           /\ UNCHANGED <<sessionMap, running, closing, owner, stateMap, req, at, cur, todo,
                          known, results>>
           /\ \/ /\ \E X \in SUBSET (StateId \ issued) : \E k : Computed(t, X, {}, k)
                 /\ Goto(t, "store")
              \/ /\ Goto(t, "FAILED")
                 /\ UNCHANGED <<issued, pending, failed>>
<1>1. PICK p \in Theory :
          \/ /\ \/ \E x \in StateId \ issued, l \in Line : Computed(t, {x}, {}, <<p, l>>)
                \/ \E x \in StateId \ issued : Computed(t, {x}, {}, None)
                \/ Computed(t, {}, {}, None)
             /\ Goto(t, "store")
          \/ /\ Leave(t, "FAILED")
             /\ UNCHANGED <<clientVars, resultVars>>
  BY DEF ComputeInitState
<1>2. ASSUME NEW x \in StateId \ issued, NEW k, Computed(t, {x}, {}, k)
      PROVE  \E X \in SUBSET (StateId \ issued) : \E j : Computed(t, X, {}, j)
  <2>1. {x} \in SUBSET (StateId \ issued)
    OBVIOUS
  <2> QED
    BY <2>1, <1>2
<1>3. ASSUME Computed(t, {}, {}, None)
      PROVE  \E X \in SUBSET (StateId \ issued) : \E j : Computed(t, X, {}, j)
  <2>1. {} \in SUBSET (StateId \ issued)
    OBVIOUS
  <2> QED
    BY <2>1, <1>3
<1>4. \/ /\ \E X \in SUBSET (StateId \ issued) : \E k : Computed(t, X, {}, k)
         /\ Goto(t, "store")
      \/ /\ Goto(t, "FAILED")
         /\ UNCHANGED <<issued, pending, failed, known, results>>
  BY <1>1, <1>2, <1>3 DEF Leave, clientVars, resultVars
<1>5. UNCHANGED <<known, results>>
  BY <1>4 DEF Computed
<1> QED
  BY <1>4, <1>5 DEF ComputeInitState, loopVars

-----------------------------------------------------------------------------
\* Sessions are created under fresh ids and torn down by the holder of their lock.
LEMMA SessionStep ==
    IInv /\ KnownInv /\ SessionInv
      /\ TypeOK' /\ [Next]_vars => SessionInv'
<1> SUFFICES ASSUME IInv, KnownInv, SessionInv, TypeOK', [Next]_vars
             PROVE  SessionInv'
  OBVIOUS
<1> USE DEF IInv, SessionInv, LockInv, ProgInv, ClosingInv, Critical, Reply, Goto, Leave, globalVars, sessionVars,
            clientVars, resultVars, loopVars
<1>t. /\ pc \in [Thread -> Label]
      /\ at \in [Thread -> Session \union {None}]
      /\ lock \in [Session -> Thread \union {None}]
      /\ closing \in [Session -> BOOLEAN]
      /\ stateMap \in [Session -> SUBSET StateId]
      /\ sessionMap \subseteq Session
      /\ running \subseteq Session
      /\ issued \subseteq Session \union StateId
      /\ known \subseteq Session \union StateId
      /\ results \in [Thread -> SUBSET StateId]
  BY DEF TypeOK
<1>u. /\ pc' \in [Thread -> Label]
      /\ at' \in [Thread -> Session \union {None}]
      /\ lock' \in [Session -> Thread \union {None}]
      /\ closing' \in [Session -> BOOLEAN]
      /\ stateMap' \in [Session -> SUBSET StateId]
      /\ sessionMap' \subseteq Session
      /\ running' \subseteq Session
      /\ issued' \subseteq Session \union StateId
      /\ known' \subseteq Session \union StateId
      /\ results' \in [Thread -> SUBSET StateId]
  BY DEF TypeOK
<1>1. CASE UNCHANGED vars
  BY <1>1 DEF vars
<1>2. ASSUME NEW t \in Thread, Issue(t) \/ Step(t) PROVE SessionInv'
  <2>1. CASE CallCreate(t)
    BY <2>1, <1>t, <1>u, NoneAssumption, IdAssumption DEF CallCreate, Call
  <2>2. CASE CallSession(t)
    BY <2>2, <1>t, <1>u, NoneAssumption, IdAssumption DEF CallSession, Call
  <2>3. CASE CallState(t)
    BY <2>3, <1>t, <1>u, NoneAssumption, IdAssumption DEF CallState, Call
  <2>4. CASE CallDrop(t)
    BY <2>4, <1>t, <1>u, NoneAssumption, IdAssumption DEF CallDrop, Call
  <2>5. CASE BootSession(t)
    BY <2>5, <1>t, <1>u, NoneAssumption, IdAssumption DEF BootSession
  <2>6. CASE EnterSession(t)
    BY <2>6, <1>t, <1>u, NoneAssumption, IdAssumption DEF EnterSession
  <2>7. CASE LookupOwner(t)
    BY <2>7, <1>t, <1>u, NoneAssumption, IdAssumption DEF LookupOwner
  <2>8. CASE LookupSession(t)
    BY <2>8, <1>t, <1>u, NoneAssumption, IdAssumption DEF LookupSession, OnlyMoves
  <2>9. CASE Acquire(t)
    BY <2>9, <1>t, <1>u, NoneAssumption, IdAssumption DEF Acquire, OnlyLeaves
  <2>10. CASE RejectClosing(t)
    BY <2>10, <1>t, <1>u, NoneAssumption, IdAssumption DEF RejectClosing, OnlyLeaves
  <2>11. CASE RejectDeadState(t)
    BY <2>11, <1>t, <1>u, NoneAssumption, IdAssumption DEF RejectDeadState, OnlyLeaves, IsLiveStateInSession
  <2>12. CASE EnterBody(t)
    BY <2>12, <1>t, <1>u, NoneAssumption, IdAssumption DEF EnterBody, OnlyMoves, IsLiveStateInSession
  <2>13. CASE BodyFails(t)
    BY <2>13, <1>t, <1>u, NoneAssumption, IdAssumption DEF BodyFails, OnlyLeaves
  <2>14. CASE LoadTheory(t)
    BY <2>14, <1>t, <1>u, NoneAssumption, IdAssumption DEF LoadTheory
  <2>15. CASE ComputeInitState(t)
    BY <2>15, <1>t, <1>u, NoneAssumption, IdAssumption DEF ComputeInitState, Computed
  <2>16. CASE ComputeExecute(t)
    BY <2>16, <1>t, <1>u, NoneAssumption, IdAssumption DEF ComputeExecute, Computed
  <2>17. CASE ComputeExecuteBatch(t)
    BY <2>17, <1>t, <1>u, NoneAssumption, IdAssumption DEF ComputeExecuteBatch, Computed
  <2>18. CASE ComputeRunSledgehammer(t)
    BY <2>18, <1>t, <1>u, NoneAssumption, IdAssumption DEF ComputeRunSledgehammer, Computed
  <2>19. CASE GetStateInfo(t)
    BY <2>19, <1>t, <1>u, NoneAssumption, IdAssumption DEF GetStateInfo, OnlyLeaves
  <2>20. CASE StoreState(t)
    BY <2>20, <1>t, <1>u, NoneAssumption, IdAssumption DEF StoreState, StoreStateLocal
  <2>21. CASE PublishOwner(t)
    BY <2>21, <1>t, <1>u, NoneAssumption, IdAssumption DEF PublishOwner
  <2>22. CASE BuildStateResult(t)
    BY <2>22, <1>t, <1>u, NoneAssumption, IdAssumption DEF BuildStateResult
  <2>23. CASE Registered(t)
    BY <2>23, <1>t, <1>u, NoneAssumption, IdAssumption DEF Registered
  <2>24. CASE GroupByOwner(t)
    BY <2>24, <1>t, <1>u, NoneAssumption, IdAssumption DEF GroupByOwner
  <2>25. CASE Grouped(t)
    BY <2>25, <1>t, <1>u, NoneAssumption, IdAssumption DEF Grouped, OnlyMoves
  <2>26. CASE NextGroup(t)
    BY <2>26, <1>t, <1>u, NoneAssumption, IdAssumption DEF NextGroup
  <2>27. CASE NoMoreGroups(t)
    BY <2>27, <1>t, <1>u, NoneAssumption, IdAssumption DEF NoMoreGroups, OnlyMoves
  <2>28. CASE EnterDrop(t)
    BY <2>28, <1>t, <1>u, NoneAssumption, IdAssumption DEF EnterDrop, OnlyMoves
  <2>29. CASE RemoveOwner(t)
    BY <2>29, <1>t, <1>u, NoneAssumption, IdAssumption DEF RemoveOwner
  <2>30. CASE ForgetState(t)
    BY <2>30, <1>t, <1>u, NoneAssumption, IdAssumption DEF ForgetState, DropStateLocal
  <2>31. CASE Dropped(t)
    BY <2>31, <1>t, <1>u, NoneAssumption, IdAssumption DEF Dropped, OnlyLeaves
  <2>32. CASE EnterDropAllStates(t)
    BY <2>32, <1>t, <1>u, NoneAssumption, IdAssumption DEF EnterDropAllStates, Owned
  <2>33. CASE EnterDestroySession(t)
    BY <2>33, <1>t, <1>u, NoneAssumption, IdAssumption DEF EnterDestroySession, Owned
  <2>34. CASE DisownState(t)
    BY <2>34, <1>t, <1>u, NoneAssumption, IdAssumption DEF DisownState
  <2>35. CASE ClearStates(t)
    BY <2>35, <1>t, <1>u, NoneAssumption, IdAssumption DEF ClearStates, DropAllStatesLocal, Owned
  <2>36. CASE CloseSession(t)
    BY <2>36, <1>t, <1>u, NoneAssumption, IdAssumption DEF CloseSession
  <2>37. CASE Return(t)
    <3>1. UNCHANGED <<sessionMap, running, closing, stateMap, issued>> /\ pc' = [pc EXCEPT ![t] = "idle"]
          /\ at' = [at EXCEPT ![t] = None]
      BY <2>37 DEF Return
    <3>2. \A x \in known' : \/ x \in known \/ x \in results[t]
                            \/ x = at[t] /\ pc[t] = "OK" /\ req[t].op = "createSession"
      BY <2>37 DEF Return
    <3>3. results[t] \subseteq issued /\ results[t] \subseteq StateId
      BY <1>t DEF KnownInv
    <3>4. known' \subseteq issued
      BY <3>2, <3>3, <1>t
    <3>5. \A u \in Thread : pc[u] = "enter" => at[u] \notin known'
      BY <3>2, <3>3, <1>t, IdAssumption
    <3> QED
      BY <3>1, <3>4, <3>5, <1>t
  <2> QED
    BY <1>2, <2>1, <2>2, <2>3, <2>4, <2>5, <2>6, <2>7, <2>8, <2>9, <2>10, <2>11, <2>12,
       <2>13, <2>14, <2>15, <2>16, <2>17, <2>18, <2>19, <2>20, <2>21, <2>22, <2>23, <2>24,
       <2>25, <2>26, <2>27, <2>28, <2>29, <2>30, <2>31, <2>32, <2>33, <2>34, <2>35, <2>36,
       <2>37
       DEF Issue, Step
<1> QED
  BY <1>1, <1>2 DEF Next, Quiet

\* Ids are drawn outside of what is issued, and clients name ids they were told.
LEMMA KnownStep ==
    IInv /\ SessionInv /\ OpInv /\ KnownInv
      /\ TypeOK' /\ [Next]_vars => KnownInv'
<1> SUFFICES ASSUME IInv, SessionInv, OpInv, KnownInv, TypeOK', [Next]_vars
             PROVE  KnownInv'
  OBVIOUS
<1> USE DEF IInv, SessionInv, OpInv, KnownInv, FreshInv, ProgInv, SessionOps, StateOps, Request, NoRequest, Critical, Reply, Goto, Leave, globalVars, sessionVars,
            clientVars, resultVars, loopVars
<1>t. /\ pc \in [Thread -> Label]
      /\ req \in [Thread -> Request]
      /\ pending \in [Thread -> SUBSET StateId]
      /\ results \in [Thread -> SUBSET StateId]
      /\ issued \subseteq Session \union StateId
      /\ known \subseteq Session \union StateId
  BY DEF TypeOK
<1>u. /\ pc' \in [Thread -> Label]
      /\ req' \in [Thread -> Request]
      /\ pending' \in [Thread -> SUBSET StateId]
      /\ results' \in [Thread -> SUBSET StateId]
      /\ issued' \subseteq Session \union StateId
      /\ known' \subseteq Session \union StateId
  BY DEF TypeOK
<1>1. CASE UNCHANGED vars
  BY <1>1 DEF vars
<1>2. ASSUME NEW t \in Thread, Issue(t) \/ Step(t) PROVE KnownInv'
  <2>1. CASE CallCreate(t)
    BY <2>1, <1>t, <1>u, NoneAssumption, IdAssumption DEF CallCreate, Call
  <2>2. CASE CallSession(t)
    BY <2>2, <1>t, <1>u, NoneAssumption, IdAssumption DEF CallSession, Call
  <2>3. CASE CallState(t)
    BY <2>3, <1>t, <1>u, NoneAssumption, IdAssumption DEF CallState, Call
  <2>4. CASE CallDrop(t)
    BY <2>4, <1>t, <1>u, NoneAssumption, IdAssumption DEF CallDrop, Call
  <2>5. CASE BootSession(t)
    BY <2>5, <1>t, <1>u, NoneAssumption, IdAssumption DEF BootSession
  <2>6. CASE EnterSession(t)
    BY <2>6, <1>t, <1>u, NoneAssumption, IdAssumption DEF EnterSession
  <2>7. CASE LookupOwner(t)
    BY <2>7, <1>t, <1>u, NoneAssumption, IdAssumption, SMTT(40) DEF LookupOwner
  <2>8. CASE LookupSession(t)
    BY <2>8, <1>t, <1>u, NoneAssumption, IdAssumption DEF LookupSession, OnlyMoves
  <2>9. CASE Acquire(t)
    BY <2>9, <1>t, <1>u, NoneAssumption, IdAssumption DEF Acquire, OnlyLeaves
  <2>10. CASE RejectClosing(t)
    BY <2>10, <1>t, <1>u, NoneAssumption, IdAssumption DEF RejectClosing, OnlyLeaves
  <2>11. CASE RejectDeadState(t)
    BY <2>11, <1>t, <1>u, NoneAssumption, IdAssumption DEF RejectDeadState, OnlyLeaves, IsLiveStateInSession
  <2>12. CASE EnterBody(t)
    BY <2>12, <1>t, <1>u, NoneAssumption, IdAssumption DEF EnterBody, OnlyMoves, IsLiveStateInSession
  <2>13. CASE BodyFails(t)
    BY <2>13, <1>t, <1>u, NoneAssumption, IdAssumption DEF BodyFails, OnlyLeaves
  <2>14. CASE LoadTheory(t)
    BY <2>14, <1>t, <1>u, NoneAssumption, IdAssumption DEF LoadTheory
  <2>15. CASE ComputeInitState(t)
    <3>2. /\ pc[t] = "body" /\ req[t].op = "initState"
          /\ UNCHANGED <<known, req, results>>
      BY <2>15, InitStateEffect
    <3>3. ASSUME NEW X \in SUBSET (StateId \ issued), NEW k, Computed(t, X, {}, k), Goto(t, "store")
          PROVE  KnownInv'
      <4>1. /\ pending' = [pending EXCEPT ![t] = X]
            /\ issued' = issued \union X
            /\ pc' = [pc EXCEPT ![t] = "store"]
        BY <3>3 DEF Computed
      <4>2. \A u, v \in Thread : (known \union results[u]) \intersect pending'[v] = {}
        BY <4>1, <1>t
      <4> QED
        BY <3>2, <4>1, <4>2, <1>t
    <3>4. CASE Goto(t, "FAILED") /\ UNCHANGED <<issued, pending, failed>>
      BY <3>2, <3>4, <1>t
    <3> QED
      BY <2>15, <3>3, <3>4, InitStateEffect, ZenonT(60)
  <2>16. CASE ComputeExecute(t)
    BY <2>16, <1>t, <1>u, NoneAssumption, IdAssumption DEF ComputeExecute, Computed
  <2>17. CASE ComputeExecuteBatch(t)
    BY <2>17, <1>t, <1>u, NoneAssumption, IdAssumption DEF ComputeExecuteBatch, Computed
  <2>18. CASE ComputeRunSledgehammer(t)
    BY <2>18, <1>t, <1>u, NoneAssumption, IdAssumption DEF ComputeRunSledgehammer, Computed
  <2>19. CASE GetStateInfo(t)
    BY <2>19, <1>t, <1>u, NoneAssumption, IdAssumption DEF GetStateInfo, OnlyLeaves
  <2>20. CASE StoreState(t)
    BY <2>20, <1>t, <1>u, NoneAssumption, IdAssumption DEF StoreState, StoreStateLocal
  <2>21. CASE PublishOwner(t)
    BY <2>21, <1>t, <1>u, NoneAssumption, IdAssumption DEF PublishOwner
  <2>22. CASE BuildStateResult(t)
    BY <2>22, <1>t, <1>u, NoneAssumption, IdAssumption DEF BuildStateResult
  <2>23. CASE Registered(t)
    BY <2>23, <1>t, <1>u, NoneAssumption, IdAssumption DEF Registered
  <2>24. CASE GroupByOwner(t)
    BY <2>24, <1>t, <1>u, NoneAssumption, IdAssumption DEF GroupByOwner
  <2>25. CASE Grouped(t)
    BY <2>25, <1>t, <1>u, NoneAssumption, IdAssumption DEF Grouped, OnlyMoves
  <2>26. CASE NextGroup(t)
    BY <2>26, <1>t, <1>u, NoneAssumption, IdAssumption DEF NextGroup
  <2>27. CASE NoMoreGroups(t)
    BY <2>27, <1>t, <1>u, NoneAssumption, IdAssumption DEF NoMoreGroups, OnlyMoves
  <2>28. CASE EnterDrop(t)
    BY <2>28, <1>t, <1>u, NoneAssumption, IdAssumption DEF EnterDrop, OnlyMoves
  <2>29. CASE RemoveOwner(t)
    BY <2>29, <1>t, <1>u, NoneAssumption, IdAssumption DEF RemoveOwner
  <2>30. CASE ForgetState(t)
    BY <2>30, <1>t, <1>u, NoneAssumption, IdAssumption DEF ForgetState, DropStateLocal
  <2>31. CASE Dropped(t)
    BY <2>31, <1>t, <1>u, NoneAssumption, IdAssumption DEF Dropped, OnlyLeaves
  <2>32. CASE EnterDropAllStates(t)
    BY <2>32, <1>t, <1>u, NoneAssumption, IdAssumption DEF EnterDropAllStates, Owned
  <2>33. CASE EnterDestroySession(t)
    BY <2>33, <1>t, <1>u, NoneAssumption, IdAssumption DEF EnterDestroySession, Owned
  <2>34. CASE DisownState(t)
    BY <2>34, <1>t, <1>u, NoneAssumption, IdAssumption DEF DisownState
  <2>35. CASE ClearStates(t)
    BY <2>35, <1>t, <1>u, NoneAssumption, IdAssumption DEF ClearStates, DropAllStatesLocal, Owned
  <2>36. CASE CloseSession(t)
    BY <2>36, <1>t, <1>u, NoneAssumption, IdAssumption, SMTT(40) DEF CloseSession
  <2>37. CASE Return(t)
    BY <2>37, <1>t, <1>u, NoneAssumption, IdAssumption DEF Return
  <2> QED
    BY <1>2, <2>1, <2>2, <2>3, <2>4, <2>5, <2>6, <2>7, <2>8, <2>9, <2>10, <2>11, <2>12,
       <2>13, <2>14, <2>15, <2>16, <2>17, <2>18, <2>19, <2>20, <2>21, <2>22, <2>23, <2>24,
       <2>25, <2>26, <2>27, <2>28, <2>29, <2>30, <2>31, <2>32, <2>33, <2>34, <2>35, <2>36,
       <2>37
       DEF Issue, Step
<1> QED
  BY <1>1, <1>2 DEF Next, Quiet

\* The handlers only reach their own program points.
LEMMA OpStep ==
    IInv /\ OpInv
      /\ TypeOK' /\ [Next]_vars => OpInv'
<1> SUFFICES ASSUME IInv, OpInv, TypeOK', [Next]_vars
             PROVE  OpInv'
  OBVIOUS
<1> USE DEF IInv, OpInv, ProgInv, SessionOps, StateOps, Request, NoRequest, Critical, Reply, Goto, Leave, globalVars, sessionVars,
            clientVars, resultVars, loopVars
<1>t. /\ pc \in [Thread -> Label]
      /\ at \in [Thread -> Session \union {None}]
      /\ req \in [Thread -> Request]
  BY DEF TypeOK
<1>u. /\ pc' \in [Thread -> Label]
      /\ at' \in [Thread -> Session \union {None}]
      /\ req' \in [Thread -> Request]
  BY DEF TypeOK
<1>1. CASE UNCHANGED vars
  BY <1>1 DEF vars
<1>2. ASSUME NEW t \in Thread, Issue(t) \/ Step(t) PROVE OpInv'
  <2>1. CASE CallCreate(t)
    BY <2>1, <1>t, <1>u, NoneAssumption DEF CallCreate, Call
  <2>2. CASE CallSession(t)
    BY <2>2, <1>t, <1>u, NoneAssumption DEF CallSession, Call
  <2>3. CASE CallState(t)
    BY <2>3, <1>t, <1>u, NoneAssumption DEF CallState, Call
  <2>4. CASE CallDrop(t)
    BY <2>4, <1>t, <1>u, NoneAssumption DEF CallDrop, Call
  <2>5. CASE BootSession(t)
    BY <2>5, <1>t, <1>u, NoneAssumption DEF BootSession
  <2>6. CASE EnterSession(t)
    BY <2>6, <1>t, <1>u, NoneAssumption DEF EnterSession
  <2>7. CASE LookupOwner(t)
    BY <2>7, <1>t, <1>u, NoneAssumption DEF LookupOwner
  <2>8. CASE LookupSession(t)
    BY <2>8, <1>t, <1>u, NoneAssumption DEF LookupSession, OnlyMoves
  <2>9. CASE Acquire(t)
    BY <2>9, <1>t, <1>u, NoneAssumption DEF Acquire, OnlyLeaves
  <2>10. CASE RejectClosing(t)
    BY <2>10, <1>t, <1>u, NoneAssumption DEF RejectClosing, OnlyLeaves
  <2>11. CASE RejectDeadState(t)
    BY <2>11, <1>t, <1>u, NoneAssumption DEF RejectDeadState, OnlyLeaves, IsLiveStateInSession
  <2>12. CASE EnterBody(t)
    BY <2>12, <1>t, <1>u, NoneAssumption DEF EnterBody, OnlyMoves, IsLiveStateInSession
  <2>13. CASE BodyFails(t)
    BY <2>13, <1>t, <1>u, NoneAssumption DEF BodyFails, OnlyLeaves
  <2>14. CASE LoadTheory(t)
    BY <2>14, <1>t, <1>u, NoneAssumption DEF LoadTheory
  <2>15. CASE ComputeInitState(t)
    BY <2>15, <1>t, <1>u, NoneAssumption DEF ComputeInitState, Computed
  <2>16. CASE ComputeExecute(t)
    BY <2>16, <1>t, <1>u, NoneAssumption DEF ComputeExecute, Computed
  <2>17. CASE ComputeExecuteBatch(t)
    BY <2>17, <1>t, <1>u, NoneAssumption DEF ComputeExecuteBatch, Computed
  <2>18. CASE ComputeRunSledgehammer(t)
    BY <2>18, <1>t, <1>u, NoneAssumption DEF ComputeRunSledgehammer, Computed
  <2>19. CASE GetStateInfo(t)
    BY <2>19, <1>t, <1>u, NoneAssumption DEF GetStateInfo, OnlyLeaves
  <2>20. CASE StoreState(t)
    BY <2>20, <1>t, <1>u, NoneAssumption DEF StoreState, StoreStateLocal
  <2>21. CASE PublishOwner(t)
    BY <2>21, <1>t, <1>u, NoneAssumption DEF PublishOwner
  <2>22. CASE BuildStateResult(t)
    BY <2>22, <1>t, <1>u, NoneAssumption DEF BuildStateResult
  <2>23. CASE Registered(t)
    BY <2>23, <1>t, <1>u, NoneAssumption DEF Registered
  <2>24. CASE GroupByOwner(t)
    BY <2>24, <1>t, <1>u, NoneAssumption DEF GroupByOwner
  <2>25. CASE Grouped(t)
    BY <2>25, <1>t, <1>u, NoneAssumption DEF Grouped, OnlyMoves
  <2>26. CASE NextGroup(t)
    BY <2>26, <1>t, <1>u, NoneAssumption DEF NextGroup
  <2>27. CASE NoMoreGroups(t)
    BY <2>27, <1>t, <1>u, NoneAssumption DEF NoMoreGroups, OnlyMoves
  <2>28. CASE EnterDrop(t)
    BY <2>28, <1>t, <1>u, NoneAssumption DEF EnterDrop, OnlyMoves
  <2>29. CASE RemoveOwner(t)
    BY <2>29, <1>t, <1>u, NoneAssumption DEF RemoveOwner
  <2>30. CASE ForgetState(t)
    BY <2>30, <1>t, <1>u, NoneAssumption DEF ForgetState, DropStateLocal
  <2>31. CASE Dropped(t)
    BY <2>31, <1>t, <1>u, NoneAssumption DEF Dropped, OnlyLeaves
  <2>32. CASE EnterDropAllStates(t)
    BY <2>32, <1>t, <1>u, NoneAssumption DEF EnterDropAllStates, Owned
  <2>33. CASE EnterDestroySession(t)
    BY <2>33, <1>t, <1>u, NoneAssumption DEF EnterDestroySession, Owned
  <2>34. CASE DisownState(t)
    BY <2>34, <1>t, <1>u, NoneAssumption DEF DisownState
  <2>35. CASE ClearStates(t)
    BY <2>35, <1>t, <1>u, NoneAssumption DEF ClearStates, DropAllStatesLocal, Owned
  <2>36. CASE CloseSession(t)
    BY <2>36, <1>t, <1>u, NoneAssumption DEF CloseSession
  <2>37. CASE Return(t)
    BY <2>37, <1>t, <1>u, NoneAssumption DEF Return
  <2> QED
    BY <1>2, <2>1, <2>2, <2>3, <2>4, <2>5, <2>6, <2>7, <2>8, <2>9, <2>10, <2>11, <2>12,
       <2>13, <2>14, <2>15, <2>16, <2>17, <2>18, <2>19, <2>20, <2>21, <2>22, <2>23, <2>24,
       <2>25, <2>26, <2>27, <2>28, <2>29, <2>30, <2>31, <2>32, <2>33, <2>34, <2>35, <2>36,
       <2>37
       DEF Issue, Step
<1> QED
  BY <1>1, <1>2 DEF Next, Quiet

\* A source state changes its owner only by being dropped, by the holder of the lock.
LEMMA SourceStep ==
    IInv /\ KnownInv /\ SourceInv
      /\ TypeOK' /\ [Next]_vars => SourceInv'
<1> SUFFICES ASSUME IInv, KnownInv, SourceInv, TypeOK', [Next]_vars
             PROVE  SourceInv'
  OBVIOUS
<1> USE DEF IInv, LockInv, ProgInv, OwnerInv, FreshInv, KnownInv, SourceInv, SessionOps, StateOps, Request, NoRequest, Critical, Reply, Goto, Leave, globalVars, sessionVars,
            clientVars, resultVars, loopVars
<1>t. /\ pc \in [Thread -> Label]
      /\ at \in [Thread -> Session \union {None}]
      /\ lock \in [Session -> Thread \union {None}]
      /\ owner \in [StateId -> Session \union {None}]
      /\ req \in [Thread -> Request]
      /\ cur \in [Thread -> StateId \union {None}]
      /\ todo \in [Thread -> SUBSET StateId]
      /\ pending \in [Thread -> SUBSET StateId]
  BY DEF TypeOK
<1>u. /\ pc' \in [Thread -> Label]
      /\ at' \in [Thread -> Session \union {None}]
      /\ lock' \in [Session -> Thread \union {None}]
      /\ owner' \in [StateId -> Session \union {None}]
      /\ req' \in [Thread -> Request]
      /\ cur' \in [Thread -> StateId \union {None}]
      /\ todo' \in [Thread -> SUBSET StateId]
      /\ pending' \in [Thread -> SUBSET StateId]
  BY DEF TypeOK
<1>1. CASE UNCHANGED vars
  BY <1>1 DEF vars
<1>2. ASSUME NEW t \in Thread, Issue(t) \/ Step(t) PROVE SourceInv'
  <2>1. CASE CallCreate(t)
    BY <2>1, <1>t, <1>u, NoneAssumption DEF CallCreate, Call
  <2>2. CASE CallSession(t)
    BY <2>2, <1>t, <1>u, NoneAssumption DEF CallSession, Call
  <2>3. CASE CallState(t)
    BY <2>3, <1>t, <1>u, NoneAssumption DEF CallState, Call
  <2>4. CASE CallDrop(t)
    BY <2>4, <1>t, <1>u, NoneAssumption DEF CallDrop, Call
  <2>5. CASE BootSession(t)
    BY <2>5, <1>t, <1>u, NoneAssumption DEF BootSession
  <2>6. CASE EnterSession(t)
    BY <2>6, <1>t, <1>u, NoneAssumption DEF EnterSession
  <2>7. CASE LookupOwner(t)
    BY <2>7, <1>t, <1>u, NoneAssumption DEF LookupOwner
  <2>8. CASE LookupSession(t)
    BY <2>8, <1>t, <1>u, NoneAssumption DEF LookupSession, OnlyMoves
  <2>9. CASE Acquire(t)
    BY <2>9, <1>t, <1>u, NoneAssumption DEF Acquire, OnlyLeaves
  <2>10. CASE RejectClosing(t)
    BY <2>10, <1>t, <1>u, NoneAssumption DEF RejectClosing, OnlyLeaves
  <2>11. CASE RejectDeadState(t)
    BY <2>11, <1>t, <1>u, NoneAssumption DEF RejectDeadState, OnlyLeaves, IsLiveStateInSession
  <2>12. CASE EnterBody(t)
    BY <2>12, <1>t, <1>u, NoneAssumption DEF EnterBody, OnlyMoves, IsLiveStateInSession
  <2>13. CASE BodyFails(t)
    BY <2>13, <1>t, <1>u, NoneAssumption DEF BodyFails, OnlyLeaves
  <2>14. CASE LoadTheory(t)
    BY <2>14, <1>t, <1>u, NoneAssumption DEF LoadTheory
  <2>15. CASE ComputeInitState(t)
    BY <2>15, <1>t, <1>u, NoneAssumption DEF ComputeInitState, Computed
  <2>16. CASE ComputeExecute(t)
    BY <2>16, <1>t, <1>u, NoneAssumption DEF ComputeExecute, Computed
  <2>17. CASE ComputeExecuteBatch(t)
    BY <2>17, <1>t, <1>u, NoneAssumption DEF ComputeExecuteBatch, Computed
  <2>18. CASE ComputeRunSledgehammer(t)
    BY <2>18, <1>t, <1>u, NoneAssumption DEF ComputeRunSledgehammer, Computed
  <2>19. CASE GetStateInfo(t)
    BY <2>19, <1>t, <1>u, NoneAssumption DEF GetStateInfo, OnlyLeaves
  <2>20. CASE StoreState(t)
    BY <2>20, <1>t, <1>u, NoneAssumption DEF StoreState, StoreStateLocal
  <2>21. CASE PublishOwner(t)
    BY <2>21, <1>t, <1>u, NoneAssumption DEF PublishOwner
  <2>22. CASE BuildStateResult(t)
    BY <2>22, <1>t, <1>u, NoneAssumption DEF BuildStateResult
  <2>23. CASE Registered(t)
    BY <2>23, <1>t, <1>u, NoneAssumption DEF Registered
  <2>24. CASE GroupByOwner(t)
    BY <2>24, <1>t, <1>u, NoneAssumption DEF GroupByOwner
  <2>25. CASE Grouped(t)
    BY <2>25, <1>t, <1>u, NoneAssumption DEF Grouped, OnlyMoves
  <2>26. CASE NextGroup(t)
    BY <2>26, <1>t, <1>u, NoneAssumption DEF NextGroup
  <2>27. CASE NoMoreGroups(t)
    BY <2>27, <1>t, <1>u, NoneAssumption DEF NoMoreGroups, OnlyMoves
  <2>28. CASE EnterDrop(t)
    BY <2>28, <1>t, <1>u, NoneAssumption DEF EnterDrop, OnlyMoves
  <2>29. CASE RemoveOwner(t)
    BY <2>29, <1>t, <1>u, NoneAssumption DEF RemoveOwner
  <2>30. CASE ForgetState(t)
    BY <2>30, <1>t, <1>u, NoneAssumption DEF ForgetState, DropStateLocal
  <2>31. CASE Dropped(t)
    BY <2>31, <1>t, <1>u, NoneAssumption DEF Dropped, OnlyLeaves
  <2>32. CASE EnterDropAllStates(t)
    BY <2>32, <1>t, <1>u, NoneAssumption DEF EnterDropAllStates, Owned
  <2>33. CASE EnterDestroySession(t)
    BY <2>33, <1>t, <1>u, NoneAssumption DEF EnterDestroySession, Owned
  <2>34. CASE DisownState(t)
    BY <2>34, <1>t, <1>u, NoneAssumption DEF DisownState
  <2>35. CASE ClearStates(t)
    BY <2>35, <1>t, <1>u, NoneAssumption DEF ClearStates, DropAllStatesLocal, Owned
  <2>36. CASE CloseSession(t)
    BY <2>36, <1>t, <1>u, NoneAssumption DEF CloseSession
  <2>37. CASE Return(t)
    BY <2>37, <1>t, <1>u, NoneAssumption DEF Return
  <2> QED
    BY <1>2, <2>1, <2>2, <2>3, <2>4, <2>5, <2>6, <2>7, <2>8, <2>9, <2>10, <2>11, <2>12,
       <2>13, <2>14, <2>15, <2>16, <2>17, <2>18, <2>19, <2>20, <2>21, <2>22, <2>23, <2>24,
       <2>25, <2>26, <2>27, <2>28, <2>29, <2>30, <2>31, <2>32, <2>33, <2>34, <2>35, <2>36,
       <2>37
       DEF Issue, Step
<1> QED
  BY <1>1, <1>2 DEF Next, Quiet

\* Results are registered one by one, and failed ones dropped one by one.
LEMMA ResultStep ==
    IInv /\ KnownInv /\ OpInv /\ ResultInv
      /\ TypeOK' /\ [Next]_vars => ResultInv'
<1> SUFFICES ASSUME IInv, KnownInv, OpInv, ResultInv, TypeOK', [Next]_vars
             PROVE  ResultInv'
  OBVIOUS
<1> USE DEF IInv, LockInv, ProgInv, OwnerInv, FreshInv, KnownInv, OpInv, ResultInv, SessionOps, StateOps, Request, NoRequest, Critical, Reply, Goto, Leave, globalVars, sessionVars,
            clientVars, resultVars, loopVars
<1>t. /\ pc \in [Thread -> Label]
      /\ at \in [Thread -> Session \union {None}]
      /\ lock \in [Session -> Thread \union {None}]
      /\ owner \in [StateId -> Session \union {None}]
      /\ req \in [Thread -> Request]
      /\ cur \in [Thread -> StateId \union {None}]
      /\ todo \in [Thread -> SUBSET StateId]
      /\ pending \in [Thread -> SUBSET StateId]
      /\ results \in [Thread -> SUBSET StateId]
      /\ failed \in [Thread -> SUBSET StateId]
  BY DEF TypeOK
<1>u. /\ pc' \in [Thread -> Label]
      /\ at' \in [Thread -> Session \union {None}]
      /\ lock' \in [Session -> Thread \union {None}]
      /\ owner' \in [StateId -> Session \union {None}]
      /\ req' \in [Thread -> Request]
      /\ cur' \in [Thread -> StateId \union {None}]
      /\ todo' \in [Thread -> SUBSET StateId]
      /\ pending' \in [Thread -> SUBSET StateId]
      /\ results' \in [Thread -> SUBSET StateId]
      /\ failed' \in [Thread -> SUBSET StateId]
  BY DEF TypeOK
<1>1. CASE UNCHANGED vars
  BY <1>1 DEF vars
<1>2. ASSUME NEW t \in Thread, Issue(t) \/ Step(t) PROVE ResultInv'
  <2>1. CASE CallCreate(t)
    BY <2>1, <1>t, <1>u, NoneAssumption DEF CallCreate, Call
  <2>2. CASE CallSession(t)
    BY <2>2, <1>t, <1>u, NoneAssumption DEF CallSession, Call
  <2>3. CASE CallState(t)
    BY <2>3, <1>t, <1>u, NoneAssumption DEF CallState, Call
  <2>4. CASE CallDrop(t)
    BY <2>4, <1>t, <1>u, NoneAssumption DEF CallDrop, Call
  <2>5. CASE BootSession(t)
    BY <2>5, <1>t, <1>u, NoneAssumption DEF BootSession
  <2>6. CASE EnterSession(t)
    BY <2>6, <1>t, <1>u, NoneAssumption, SMTT(40) DEF EnterSession
  <2>7. CASE LookupOwner(t)
    <3>1. /\ pc[t] = "owner"
          /\ UNCHANGED <<owner, req, todo, cur, pending, results, failed>>
          /\ \E l \in {"NOT_FOUND", "session"} : pc' = [pc EXCEPT ![t] = l]
          /\ \A u \in Thread \ {t} : at'[u] = at[u]
      BY <2>7, <1>t DEF LookupOwner
    <3> QED
      BY <3>1, <1>t
  <2>8. CASE LookupSession(t)
    BY <2>8, <1>t, <1>u, NoneAssumption DEF LookupSession, OnlyMoves
  <2>9. CASE Acquire(t)
    BY <2>9, <1>t, <1>u, NoneAssumption DEF Acquire, OnlyLeaves
  <2>10. CASE RejectClosing(t)
    BY <2>10, <1>t, <1>u, NoneAssumption DEF RejectClosing, OnlyLeaves
  <2>11. CASE RejectDeadState(t)
    BY <2>11, <1>t, <1>u, NoneAssumption DEF RejectDeadState, OnlyLeaves, IsLiveStateInSession
  <2>12. CASE EnterBody(t)
    BY <2>12, <1>t, <1>u, NoneAssumption DEF EnterBody, OnlyMoves, IsLiveStateInSession
  <2>13. CASE BodyFails(t)
    BY <2>13, <1>t, <1>u, NoneAssumption DEF BodyFails, OnlyLeaves
  <2>14. CASE LoadTheory(t)
    BY <2>14, <1>t, <1>u, NoneAssumption DEF LoadTheory
  <2>15. CASE ComputeInitState(t)
    <3>1. \/ \E X \in SUBSET (StateId \ issued) : \E k : Computed(t, X, {}, k) /\ Goto(t, "store")
          \/ Goto(t, "FAILED") /\ UNCHANGED <<issued, pending, failed>>
      BY <2>15, InitStateEffect
    <3>2. pc[t] = "body" /\ UNCHANGED <<owner, at, req, todo, cur, results>>
      BY <2>15, InitStateEffect
    <3> QED
      BY <3>1, <3>2, <1>t DEF Computed
  <2>16. CASE ComputeExecute(t)
    BY <2>16, <1>t, <1>u, NoneAssumption DEF ComputeExecute, Computed
  <2>17. CASE ComputeExecuteBatch(t)
    BY <2>17, <1>t, <1>u, NoneAssumption DEF ComputeExecuteBatch, Computed
  <2>18. CASE ComputeRunSledgehammer(t)
    <3>1. /\ pc[t] = "body"
          /\ UNCHANGED <<owner, at, req, todo, cur, results>>
          /\ pc' = [pc EXCEPT ![t] = "store"]
      BY <2>18 DEF ComputeRunSledgehammer, Computed
    <3>a. \/ Computed(t, {}, {}, None)
          \/ \E x \in StateId \ issued : \E F \in SUBSET {x} : Computed(t, {x}, F, None)
      BY <2>18 DEF ComputeRunSledgehammer
    <3>2. \E X : \E F \in SUBSET X : /\ pending' = [pending EXCEPT ![t] = X]
                                   /\ failed' = [failed EXCEPT ![t] = F]
      <4>1. CASE Computed(t, {}, {}, None)
        BY <4>1 DEF Computed
      <4>2. ASSUME NEW x \in StateId \ issued, NEW F \in SUBSET {x}, Computed(t, {x}, F, None)
            PROVE  \E X : \E G \in SUBSET X : /\ pending' = [pending EXCEPT ![t] = X]
                                          /\ failed' = [failed EXCEPT ![t] = G]
        BY <4>2 DEF Computed
      <4> QED
        BY <3>a, <4>1, <4>2
    <3> QED
      BY <3>1, <3>2, <1>t
  <2>19. CASE GetStateInfo(t)
    BY <2>19, <1>t, <1>u, NoneAssumption DEF GetStateInfo, OnlyLeaves
  <2>20. CASE StoreState(t)
    BY <2>20, <1>t, <1>u, NoneAssumption DEF StoreState, StoreStateLocal
  <2>21. CASE PublishOwner(t)
    BY <2>21, <1>t, <1>u, NoneAssumption DEF PublishOwner
  <2>22. CASE BuildStateResult(t)
    BY <2>22, <1>t, <1>u, NoneAssumption DEF BuildStateResult
  <2>23. CASE Registered(t)
    BY <2>23, <1>t, <1>u, NoneAssumption DEF Registered
  <2>24. CASE GroupByOwner(t)
    BY <2>24, <1>t, <1>u, NoneAssumption DEF GroupByOwner
  <2>25. CASE Grouped(t)
    BY <2>25, <1>t, <1>u, NoneAssumption DEF Grouped, OnlyMoves
  <2>26. CASE NextGroup(t)
    BY <2>26, <1>t, <1>u, NoneAssumption, SMTT(40) DEF NextGroup
  <2>27. CASE NoMoreGroups(t)
    BY <2>27, <1>t, <1>u, NoneAssumption DEF NoMoreGroups, OnlyMoves
  <2>28. CASE EnterDrop(t)
    BY <2>28, <1>t, <1>u, NoneAssumption DEF EnterDrop, OnlyMoves
  <2>29. CASE RemoveOwner(t)
    BY <2>29, <1>t, <1>u, NoneAssumption DEF RemoveOwner
  <2>30. CASE ForgetState(t)
    BY <2>30, <1>t, <1>u, NoneAssumption DEF ForgetState, DropStateLocal
  <2>31. CASE Dropped(t)
    BY <2>31, <1>t, <1>u, NoneAssumption DEF Dropped, OnlyLeaves
  <2>32. CASE EnterDropAllStates(t)
    BY <2>32, <1>t, <1>u, NoneAssumption DEF EnterDropAllStates, Owned
  <2>33. CASE EnterDestroySession(t)
    BY <2>33, <1>t, <1>u, NoneAssumption DEF EnterDestroySession, Owned
  <2>34. CASE DisownState(t)
    BY <2>34, <1>t, <1>u, NoneAssumption DEF DisownState
  <2>35. CASE ClearStates(t)
    BY <2>35, <1>t, <1>u, NoneAssumption, SMTT(40) DEF ClearStates, DropAllStatesLocal, Owned
  <2>36. CASE CloseSession(t)
    BY <2>36, <1>t, <1>u, NoneAssumption DEF CloseSession
  <2>37. CASE Return(t)
    BY <2>37, <1>t, <1>u, NoneAssumption DEF Return
  <2> QED
    BY <1>2, <2>1, <2>2, <2>3, <2>4, <2>5, <2>6, <2>7, <2>8, <2>9, <2>10, <2>11, <2>12,
       <2>13, <2>14, <2>15, <2>16, <2>17, <2>18, <2>19, <2>20, <2>21, <2>22, <2>23, <2>24,
       <2>25, <2>26, <2>27, <2>28, <2>29, <2>30, <2>31, <2>32, <2>33, <2>34, <2>35, <2>36,
       <2>37
       DEF Issue, Step
<1> QED
  BY <1>1, <1>2 DEF Next, Quiet

\* A state that was dead, or a session that was gone, does not come back.
LEMMA NotFoundStep ==
    IInv /\ SessionInv /\ KnownInv /\ OpInv /\ SourceInv /\ NotFoundIsTrue
      /\ TypeOK' /\ [Next]_vars => NotFoundIsTrue'
<1> SUFFICES ASSUME IInv, SessionInv, KnownInv, OpInv, SourceInv, NotFoundIsTrue, TypeOK', [Next]_vars
             PROVE  NotFoundIsTrue'
  OBVIOUS
<1> USE DEF IInv, SessionInv, LockInv, ProgInv, OwnerInv, FreshInv, KnownInv, OpInv, SourceInv, NotFoundIsTrue, SessionOps, StateOps, Request, NoRequest, Critical, Reply, Goto, Leave, globalVars, sessionVars,
            clientVars, resultVars, loopVars
<1>t. /\ pc \in [Thread -> Label]
      /\ at \in [Thread -> Session \union {None}]
      /\ lock \in [Session -> Thread \union {None}]
      /\ owner \in [StateId -> Session \union {None}]
      /\ req \in [Thread -> Request]
      /\ cur \in [Thread -> StateId \union {None}]
      /\ todo \in [Thread -> SUBSET StateId]
      /\ pending \in [Thread -> SUBSET StateId]
      /\ sessionMap \subseteq Session
      /\ stateMap \in [Session -> SUBSET StateId]
  BY DEF TypeOK
<1>u. /\ pc' \in [Thread -> Label]
      /\ at' \in [Thread -> Session \union {None}]
      /\ lock' \in [Session -> Thread \union {None}]
      /\ owner' \in [StateId -> Session \union {None}]
      /\ req' \in [Thread -> Request]
      /\ cur' \in [Thread -> StateId \union {None}]
      /\ todo' \in [Thread -> SUBSET StateId]
      /\ pending' \in [Thread -> SUBSET StateId]
      /\ sessionMap' \subseteq Session
      /\ stateMap' \in [Session -> SUBSET StateId]
  BY DEF TypeOK
<1>1. CASE UNCHANGED vars
  BY <1>1 DEF vars
<1>2. ASSUME NEW t \in Thread, Issue(t) \/ Step(t) PROVE NotFoundIsTrue'
  <2>1. CASE CallCreate(t)
    BY <2>1, <1>t, <1>u, NoneAssumption, IdAssumption DEF CallCreate, Call
  <2>2. CASE CallSession(t)
    BY <2>2, <1>t, <1>u, NoneAssumption, IdAssumption DEF CallSession, Call
  <2>3. CASE CallState(t)
    BY <2>3, <1>t, <1>u, NoneAssumption, IdAssumption DEF CallState, Call
  <2>4. CASE CallDrop(t)
    BY <2>4, <1>t, <1>u, NoneAssumption, IdAssumption DEF CallDrop, Call
  <2>5. CASE BootSession(t)
    BY <2>5, <1>t, <1>u, NoneAssumption, IdAssumption DEF BootSession
  <2>6. CASE EnterSession(t)
    BY <2>6, <1>t, <1>u, NoneAssumption, IdAssumption DEF EnterSession
  <2>7. CASE LookupOwner(t)
    BY <2>7, <1>t, <1>u, NoneAssumption, IdAssumption DEF LookupOwner
  <2>8. CASE LookupSession(t)
    BY <2>8, <1>t, <1>u, NoneAssumption, IdAssumption DEF LookupSession, OnlyMoves
  <2>9. CASE Acquire(t)
    BY <2>9, <1>t, <1>u, NoneAssumption, IdAssumption DEF Acquire, OnlyLeaves
  <2>10. CASE RejectClosing(t)
    BY <2>10, <1>t, <1>u, NoneAssumption, IdAssumption DEF RejectClosing, OnlyLeaves
  <2>11. CASE RejectDeadState(t)
    BY <2>11, <1>t, <1>u, NoneAssumption, IdAssumption DEF RejectDeadState, OnlyLeaves, IsLiveStateInSession
  <2>12. CASE EnterBody(t)
    BY <2>12, <1>t, <1>u, NoneAssumption, IdAssumption DEF EnterBody, OnlyMoves, IsLiveStateInSession
  <2>13. CASE BodyFails(t)
    BY <2>13, <1>t, <1>u, NoneAssumption, IdAssumption DEF BodyFails, OnlyLeaves
  <2>14. CASE LoadTheory(t)
    BY <2>14, <1>t, <1>u, NoneAssumption, IdAssumption DEF LoadTheory
  <2>15. CASE ComputeInitState(t)
    BY <2>15, <1>t, <1>u, NoneAssumption, IdAssumption DEF ComputeInitState, Computed
  <2>16. CASE ComputeExecute(t)
    BY <2>16, <1>t, <1>u, NoneAssumption, IdAssumption DEF ComputeExecute, Computed
  <2>17. CASE ComputeExecuteBatch(t)
    BY <2>17, <1>t, <1>u, NoneAssumption, IdAssumption DEF ComputeExecuteBatch, Computed
  <2>18. CASE ComputeRunSledgehammer(t)
    BY <2>18, <1>t, <1>u, NoneAssumption, IdAssumption DEF ComputeRunSledgehammer, Computed
  <2>19. CASE GetStateInfo(t)
    BY <2>19, <1>t, <1>u, NoneAssumption, IdAssumption DEF GetStateInfo, OnlyLeaves
  <2>20. CASE StoreState(t)
    BY <2>20, <1>t, <1>u, NoneAssumption, IdAssumption DEF StoreState, StoreStateLocal
  <2>21. CASE PublishOwner(t)
    BY <2>21, <1>t, <1>u, NoneAssumption, IdAssumption DEF PublishOwner
  <2>22. CASE BuildStateResult(t)
    BY <2>22, <1>t, <1>u, NoneAssumption, IdAssumption DEF BuildStateResult
  <2>23. CASE Registered(t)
    BY <2>23, <1>t, <1>u, NoneAssumption, IdAssumption DEF Registered
  <2>24. CASE GroupByOwner(t)
    BY <2>24, <1>t, <1>u, NoneAssumption, IdAssumption DEF GroupByOwner
  <2>25. CASE Grouped(t)
    BY <2>25, <1>t, <1>u, NoneAssumption, IdAssumption DEF Grouped, OnlyMoves
  <2>26. CASE NextGroup(t)
    BY <2>26, <1>t, <1>u, NoneAssumption, IdAssumption DEF NextGroup
  <2>27. CASE NoMoreGroups(t)
    BY <2>27, <1>t, <1>u, NoneAssumption, IdAssumption DEF NoMoreGroups, OnlyMoves
  <2>28. CASE EnterDrop(t)
    BY <2>28, <1>t, <1>u, NoneAssumption, IdAssumption DEF EnterDrop, OnlyMoves
  <2>29. CASE RemoveOwner(t)
    BY <2>29, <1>t, <1>u, NoneAssumption, IdAssumption DEF RemoveOwner
  <2>30. CASE ForgetState(t)
    BY <2>30, <1>t, <1>u, NoneAssumption, IdAssumption DEF ForgetState, DropStateLocal
  <2>31. CASE Dropped(t)
    BY <2>31, <1>t, <1>u, NoneAssumption, IdAssumption DEF Dropped, OnlyLeaves
  <2>32. CASE EnterDropAllStates(t)
    BY <2>32, <1>t, <1>u, NoneAssumption, IdAssumption DEF EnterDropAllStates, Owned
  <2>33. CASE EnterDestroySession(t)
    BY <2>33, <1>t, <1>u, NoneAssumption, IdAssumption DEF EnterDestroySession, Owned
  <2>34. CASE DisownState(t)
    BY <2>34, <1>t, <1>u, NoneAssumption, IdAssumption DEF DisownState
  <2>35. CASE ClearStates(t)
    BY <2>35, <1>t, <1>u, NoneAssumption, IdAssumption DEF ClearStates, DropAllStatesLocal, Owned
  <2>36. CASE CloseSession(t)
    BY <2>36, <1>t, <1>u, NoneAssumption, IdAssumption DEF CloseSession
  <2>37. CASE Return(t)
    BY <2>37, <1>t, <1>u, NoneAssumption, IdAssumption DEF Return
  <2> QED
    BY <1>2, <2>1, <2>2, <2>3, <2>4, <2>5, <2>6, <2>7, <2>8, <2>9, <2>10, <2>11, <2>12,
       <2>13, <2>14, <2>15, <2>16, <2>17, <2>18, <2>19, <2>20, <2>21, <2>22, <2>23, <2>24,
       <2>25, <2>26, <2>27, <2>28, <2>29, <2>30, <2>31, <2>32, <2>33, <2>34, <2>35, <2>36,
       <2>37
       DEF Issue, Step
<1> QED
  BY <1>1, <1>2 DEF Next, Quiet

\* What a step does to a session that leaves sessionMap or is closing.
TearsDown ==
    \A s \in Session :
        /\ s \in sessionMap \ sessionMap' => s \notin running' /\ stateMap[s] = {}
        /\ closing[s] => stateMap'[s] \subseteq stateMap[s] /\ Owned(s)' \subseteq Owned(s)

\* Only the destroyer of a session removes it, and nobody registers into a closing one.
LEMMA TeardownStep ==
    IInv
      /\ TypeOK' /\ [Next]_vars => TearsDown
<1> SUFFICES ASSUME IInv, TypeOK', [Next]_vars
             PROVE  TearsDown
  OBVIOUS
<1> USE DEF IInv, LockInv, ProgInv, ClosingInv, TearsDown, Owned, Critical, Reply, Goto, Leave, globalVars, sessionVars,
            clientVars, resultVars, loopVars
<1>t. /\ pc \in [Thread -> Label]
      /\ at \in [Thread -> Session \union {None}]
      /\ lock \in [Session -> Thread \union {None}]
      /\ owner \in [StateId -> Session \union {None}]
      /\ stateMap \in [Session -> SUBSET StateId]
      /\ closing \in [Session -> BOOLEAN]
      /\ cur \in [Thread -> StateId \union {None}]
      /\ sessionMap \subseteq Session
      /\ running \subseteq Session
  BY DEF TypeOK
<1>u. /\ pc' \in [Thread -> Label]
      /\ at' \in [Thread -> Session \union {None}]
      /\ lock' \in [Session -> Thread \union {None}]
      /\ owner' \in [StateId -> Session \union {None}]
      /\ stateMap' \in [Session -> SUBSET StateId]
      /\ closing' \in [Session -> BOOLEAN]
      /\ cur' \in [Thread -> StateId \union {None}]
      /\ sessionMap' \subseteq Session
      /\ running' \subseteq Session
  BY DEF TypeOK
<1>1. CASE UNCHANGED vars
  BY <1>1 DEF vars
<1>2. ASSUME NEW t \in Thread, Issue(t) \/ Step(t) PROVE TearsDown
  <2>1. CASE CallCreate(t)
    BY <2>1, <1>t, <1>u, NoneAssumption DEF CallCreate, Call
  <2>2. CASE CallSession(t)
    BY <2>2, <1>t, <1>u, NoneAssumption DEF CallSession, Call
  <2>3. CASE CallState(t)
    BY <2>3, <1>t, <1>u, NoneAssumption DEF CallState, Call
  <2>4. CASE CallDrop(t)
    BY <2>4, <1>t, <1>u, NoneAssumption DEF CallDrop, Call
  <2>5. CASE BootSession(t)
    BY <2>5, <1>t, <1>u, NoneAssumption DEF BootSession
  <2>6. CASE EnterSession(t)
    BY <2>6, <1>t, <1>u, NoneAssumption DEF EnterSession
  <2>7. CASE LookupOwner(t)
    BY <2>7, <1>t, <1>u, NoneAssumption DEF LookupOwner
  <2>8. CASE LookupSession(t)
    BY <2>8, <1>t, <1>u, NoneAssumption DEF LookupSession, OnlyMoves
  <2>9. CASE Acquire(t)
    BY <2>9, <1>t, <1>u, NoneAssumption DEF Acquire, OnlyLeaves
  <2>10. CASE RejectClosing(t)
    BY <2>10, <1>t, <1>u, NoneAssumption DEF RejectClosing, OnlyLeaves
  <2>11. CASE RejectDeadState(t)
    BY <2>11, <1>t, <1>u, NoneAssumption DEF RejectDeadState, OnlyLeaves, IsLiveStateInSession
  <2>12. CASE EnterBody(t)
    BY <2>12, <1>t, <1>u, NoneAssumption DEF EnterBody, OnlyMoves, IsLiveStateInSession
  <2>13. CASE BodyFails(t)
    BY <2>13, <1>t, <1>u, NoneAssumption DEF BodyFails, OnlyLeaves
  <2>14. CASE LoadTheory(t)
    BY <2>14, <1>t, <1>u, NoneAssumption DEF LoadTheory
  <2>15. CASE ComputeInitState(t)
    BY <2>15, <1>t, <1>u, NoneAssumption DEF ComputeInitState, Computed
  <2>16. CASE ComputeExecute(t)
    BY <2>16, <1>t, <1>u, NoneAssumption DEF ComputeExecute, Computed
  <2>17. CASE ComputeExecuteBatch(t)
    BY <2>17, <1>t, <1>u, NoneAssumption DEF ComputeExecuteBatch, Computed
  <2>18. CASE ComputeRunSledgehammer(t)
    BY <2>18, <1>t, <1>u, NoneAssumption DEF ComputeRunSledgehammer, Computed
  <2>19. CASE GetStateInfo(t)
    BY <2>19, <1>t, <1>u, NoneAssumption DEF GetStateInfo, OnlyLeaves
  <2>20. CASE StoreState(t)
    BY <2>20, <1>t, <1>u, NoneAssumption DEF StoreState, StoreStateLocal
  <2>21. CASE PublishOwner(t)
    BY <2>21, <1>t, <1>u, NoneAssumption DEF PublishOwner
  <2>22. CASE BuildStateResult(t)
    BY <2>22, <1>t, <1>u, NoneAssumption DEF BuildStateResult
  <2>23. CASE Registered(t)
    BY <2>23, <1>t, <1>u, NoneAssumption DEF Registered
  <2>24. CASE GroupByOwner(t)
    BY <2>24, <1>t, <1>u, NoneAssumption DEF GroupByOwner
  <2>25. CASE Grouped(t)
    BY <2>25, <1>t, <1>u, NoneAssumption DEF Grouped, OnlyMoves
  <2>26. CASE NextGroup(t)
    BY <2>26, <1>t, <1>u, NoneAssumption DEF NextGroup
  <2>27. CASE NoMoreGroups(t)
    BY <2>27, <1>t, <1>u, NoneAssumption DEF NoMoreGroups, OnlyMoves
  <2>28. CASE EnterDrop(t)
    BY <2>28, <1>t, <1>u, NoneAssumption DEF EnterDrop, OnlyMoves
  <2>29. CASE RemoveOwner(t)
    BY <2>29, <1>t, <1>u, NoneAssumption DEF RemoveOwner
  <2>30. CASE ForgetState(t)
    BY <2>30, <1>t, <1>u, NoneAssumption DEF ForgetState, DropStateLocal
  <2>31. CASE Dropped(t)
    BY <2>31, <1>t, <1>u, NoneAssumption DEF Dropped, OnlyLeaves
  <2>32. CASE EnterDropAllStates(t)
    BY <2>32, <1>t, <1>u, NoneAssumption DEF EnterDropAllStates, Owned
  <2>33. CASE EnterDestroySession(t)
    BY <2>33, <1>t, <1>u, NoneAssumption DEF EnterDestroySession, Owned
  <2>34. CASE DisownState(t)
    BY <2>34, <1>t, <1>u, NoneAssumption DEF DisownState
  <2>35. CASE ClearStates(t)
    BY <2>35, <1>t, <1>u, NoneAssumption DEF ClearStates, DropAllStatesLocal, Owned
  <2>36. CASE CloseSession(t)
    BY <2>36, <1>t, <1>u, NoneAssumption DEF CloseSession
  <2>37. CASE Return(t)
    BY <2>37, <1>t, <1>u, NoneAssumption DEF Return
  <2> QED
    BY <1>2, <2>1, <2>2, <2>3, <2>4, <2>5, <2>6, <2>7, <2>8, <2>9, <2>10, <2>11, <2>12,
       <2>13, <2>14, <2>15, <2>16, <2>17, <2>18, <2>19, <2>20, <2>21, <2>22, <2>23, <2>24,
       <2>25, <2>26, <2>27, <2>28, <2>29, <2>30, <2>31, <2>32, <2>33, <2>34, <2>35, <2>36,
       <2>37
       DEF Issue, Step
<1> QED
  BY <1>1, <1>2 DEF Next, Quiet

-----------------------------------------------------------------------------
\* The server starts empty.
LEMMA CallsInit == Init => CInv
<1> SUFFICES ASSUME Init PROVE CInv
  OBVIOUS
<1>1. IInv
  BY InitInv
<1>2. SessionInv /\ KnownInv
  BY DEF Init, SessionInv, KnownInv, NoRequest, StateOps, SessionOps
<1>3. OpInv /\ SourceInv /\ ResultInv /\ NotFoundIsTrue
  BY DEF Init, OpInv, SourceInv, ResultInv, NotFoundIsTrue, NoRequest, StateOps, SessionOps
<1> QED
  BY <1>1, <1>2, <1>3 DEF CInv

\* CInv is inductive: one lemma for each of its conjuncts.
LEMMA CallsStep == CInv /\ [Next]_vars => CInv'
<1> SUFFICES ASSUME CInv, [Next]_vars PROVE CInv'
  OBVIOUS
<1>1. IInv'
  BY StepInv DEF CInv
<1>2. TypeOK'
  BY <1>1 DEF IInv
<1> QED
  BY <1>1, <1>2, SessionStep, KnownStep, OpStep, SourceStep, ResultStep, NotFoundStep DEF CInv

\* In every behaviour, at any load, the calls can rely on CInv.
THEOREM CallsInductive == Spec => []CInv
BY CallsInit, CallsStep, PTL DEF Spec

\* NOT_FOUND is never wrong: the state is dead, or the session gone, when the
\* answer is given, although the maps were read before the lock was taken.
THEOREM NotFoundNeverWrong == Spec => []NotFoundIsTrue
<1>1. CInv => NotFoundIsTrue
  BY DEF CInv
<1> QED
  BY <1>1, CallsInductive, PTL

\* A handler that got past the checks under its lock works on an open session
\* with a running process, and its source state stays live while it does.
THEOREM HandlersWorkOnOpenSessions == Spec => []NoUseAfterClose
<1>1. CInv => NoUseAfterClose
  <2> SUFFICES ASSUME CInv, NEW t \in Thread, pc[t] \in {"body", "store", "publish", "build"}
               PROVE  /\ at[t] \in sessionMap \intersect running
                      /\ ~closing[at[t]]
                      /\ req[t].op \in StateOps => IsLiveStateInSession(at[t], req[t].src)
    BY DEF NoUseAfterClose
  <2>1. ~closing[at[t]]
    BY DEF CInv, IInv, ProgInv
  <2>2. at[t] \in sessionMap
    BY <2>1 DEF CInv, IInv, ClosingInv, Critical
  <2>3. at[t] \in running
    BY <2>2 DEF CInv, SessionInv
  <2>4. ASSUME req[t].op \in StateOps PROVE IsLiveStateInSession(at[t], req[t].src)
    <3>1. owner[req[t].src] = at[t] /\ req[t].src \in StateId
      BY <2>4 DEF CInv, SourceInv, IInv, ProgInv
    <3>2. at[t] # None
      BY <2>2, NoneAssumption DEF CInv, IInv, TypeOK
    <3> QED
      BY <3>1, <3>2 DEF CInv, IInv, OwnerInv, IsLiveStateInSession
  <2> QED
    BY <2>1, <2>2, <2>3, <2>4
<1> QED
  BY <1>1, CallsInductive, PTL

\* execute_many with drop_failed answers with all failed candidates dropped, and
\* until a handler answers nobody drops what else it registered.
THEOREM OnlyFailedAreDropped == Spec => []DropFailed
<1>1. CInv => DropFailed
  <2> SUFFICES ASSUME CInv, NEW t \in Thread
               PROVE  /\ pc[t] = "OK" /\ req[t].dropFailed => \A x \in failed[t] : owner[x] = None
                      /\ pc[t] \in Critical /\ req[t].op \notin {"dropState", "dropAllStates", "destroySession"} =>
                            \A x \in results[t] \ failed[t] : IsLiveStateInSession(at[t], x)
    BY DEF DropFailed
  <2>1. pc[t] = "OK" /\ req[t].dropFailed => \A x \in failed[t] : owner[x] = None
    BY DEF CInv, ResultInv
  <2>2. ASSUME pc[t] \in Critical, req[t].op \notin {"dropState", "dropAllStates", "destroySession"},
               NEW x \in results[t] \ failed[t]
        PROVE  IsLiveStateInSession(at[t], x)
    <3>1. pc[t] \in {"store", "publish", "build", "unown", "forget"}
      BY <2>2 DEF CInv, KnownInv, Critical
    <3>2. owner[x] = at[t]
      BY <2>2, <3>1 DEF CInv, ResultInv, OpInv
    <3>3. at[t] # None /\ x \in StateId
      BY <2>2, NoneAssumption DEF CInv, IInv, TypeOK, LockInv
    <3> QED
      BY <3>2, <3>3 DEF CInv, IInv, OwnerInv, IsLiveStateInSession
  <2> QED
    BY <2>1, <2>2
<1> QED
  BY <1>1, CallsInductive, PTL

\* A session leaves sessionMap after its process was torn down and its states
\* were dropped, and once it is closing it gains none.
THEOREM TornDownInOrder == Spec => TeardownOrder
<1>1. CInv /\ [Next]_vars => [TearsDown]_vars
  <2> SUFFICES ASSUME CInv, [Next]_vars PROVE [TearsDown]_vars
    OBVIOUS
  <2>1. TypeOK'
    BY CallsStep DEF CInv, IInv
  <2> QED
    BY <2>1, TeardownStep DEF CInv
<1> QED
  BY <1>1, CallsInductive, PTL DEF Spec, TeardownOrder, TearsDown
=============================================================================

----------------------------- MODULE ReplServer -----------------------------
(***************************************************************************)
(* The RPC service of the REPL server: IsabelleReplServiceImpl with its    *)
(* StateRegistry and the lock-protected tables of each IsabelleSession.    *)
(*                                                                         *)
(* Every RPC is a body of one Future on a cached thread pool, so any       *)
(* number of calls run at once; a process of this model is one such call   *)
(* slot.  A call first reads the two global maps without a lock            *)
(* (sessionMap, stateOwnerMap), then takes the lock of one ManagedSession  *)
(* and runs its critical section there.  The steps of a critical section   *)
(* that touch a global map are separate actions, because the unlocked      *)
(* reads of the other calls fall between them.                             *)
(*                                                                         *)
(* Abstracted data: a ToplevelState is only its state id (what it contains *)
(* is the subject of module Replay); a tactic, a timeout and a message are *)
(* choices among the outcomes they can lead to.                            *)
(***************************************************************************)
EXTENDS Naturals, FiniteSets

CONSTANTS
    Thread,     \* calls that can be in progress at the same time
    Session,    \* UUIDs drawn for sessions
    StateId,    \* UUIDs drawn for states
    Theory,     \* theory paths
    Line,       \* target lines of init_state
    MaxBatch,   \* bound: tactics of one executeBatch request
    MaxCalls,   \* bound: requests issued in one behaviour
    None

Key == Theory \X Line

ASSUME NoneAssumption ==
    /\ None \notin Thread
    /\ None \notin Session
    /\ None \notin StateId
    /\ None \notin Key

\* No UUID is drawn twice, for a session or for a state.
ASSUME IdAssumption == Session \intersect StateId = {}

ASSUME BoundAssumption == MaxBatch \in Nat /\ MaxCalls \in Nat

VARIABLES
    sessionMap,     \* the keys of IsabelleReplServiceImpl.sessionMap
    running,        \* sessions whose Isabelle process has been started
    closing,        \* ManagedSession.closing
    lock,           \* the holder of ManagedSession.lock
    owner,          \* StateRegistry.stateOwnerMap
    stateMap,       \* IsabelleSession.stateMap, its keys
    theoryCache,    \* IsabelleSession.theoryCache, its keys
    initCache,      \* IsabelleSession.initCache: key -> state id
    initCacheKeys,  \* IsabelleSession.initCacheKeys: state id -> key
    issued,         \* UUIDs drawn so far (sessions and states)
    known,          \* UUIDs the clients learned from a response
    calls,          \* requests issued so far
    pc,             \* where each call is; Reply labels are gRPC statuses
    req,            \* the request of each call
    at,             \* the ManagedSession a call works on
    pending,        \* results computed and not registered yet
    results,        \* results registered, to be named in the response
    failed,         \* those with status ERROR or TIMEOUT
    key,            \* the cacheKey of a successful init_state
    cur,            \* the state id between the two halves of a (de)registration
    todo,           \* state ids left in the loop of the call
    groups          \* dropState: (state id, owner) pairs read without a lock

globalVars == <<sessionMap, running, closing, lock, owner>>
sessionVars == <<stateMap, theoryCache, initCache, initCacheKeys>>
clientVars == <<issued, known, calls>>
resultVars == <<pending, results, failed, key>>
loopVars == <<cur, todo, groups>>
vars == <<globalVars, sessionVars, clientVars, pc, req, at, resultVars, loopVars>>

-----------------------------------------------------------------------------
SessionOps == {"destroySession", "loadTheory", "initState", "dropAllStates"}
StateOps == {"execute", "executeBatch", "runSledgehammer", "getStateInfo"}
Ops == SessionOps \union StateOps \union {"createSession", "dropState", "none"}

Request ==
    [op : Ops, sid : Session \union {None}, src : StateId \union {None},
     ids : SUBSET StateId, dropFailed : BOOLEAN]

NoRequest == [op |-> "none", sid |-> None, src |-> None, ids |-> {}, dropFailed |-> FALSE]

Reply == {"OK", "NOT_FOUND", "FAILED_PRECONDITION", "FAILED"}

\* The critical section of a ManagedSession: the body of lock.synchronized.
Critical == {"locked", "body", "store", "publish", "build", "unown", "forget",
             "disown", "clear", "close"}

Label == {"idle", "create", "enter", "owner", "session", "group", "next", "acquire"}
            \union Critical \union Reply

Goto(t, l) == pc' = [pc EXCEPT ![t] = l]

\* Leaving lock.synchronized, by its end or by an exception.
Leave(t, l) ==
    /\ lock' = [lock EXCEPT ![at[t]] = None]
    /\ Goto(t, l)

\* What a step leaves alone that only moves on, or only leaves the section.
OnlyMoves == UNCHANGED <<globalVars, sessionVars, clientVars, req, at, resultVars, loopVars>>
OnlyLeaves == UNCHANGED <<sessionMap, running, closing, owner, sessionVars, clientVars, req,
                          at, resultVars, loopVars>>

Init ==
    /\ sessionMap = {}
    /\ running = {}
    /\ closing = [s \in Session |-> FALSE]
    /\ lock = [s \in Session |-> None]
    /\ owner = [x \in StateId |-> None]
    /\ stateMap = [s \in Session |-> {}]
    /\ theoryCache = [s \in Session |-> {}]
    /\ initCache = [s \in Session |-> [k \in Key |-> None]]
    /\ initCacheKeys = [s \in Session |-> [x \in StateId |-> None]]
    /\ issued = {}
    /\ known = {}
    /\ calls = 0
    /\ pc = [t \in Thread |-> "idle"]
    /\ req = [t \in Thread |-> NoRequest]
    /\ at = [t \in Thread |-> None]
    /\ pending = [t \in Thread |-> {}]
    /\ results = [t \in Thread |-> {}]
    /\ failed = [t \in Thread |-> {}]
    /\ key = [t \in Thread |-> None]
    /\ cur = [t \in Thread |-> None]
    /\ todo = [t \in Thread |-> {}]
    /\ groups = [t \in Thread |-> {}]

-----------------------------------------------------------------------------
(* Requests.  A client names only UUIDs that a response gave it.           *)

Call(t, r, l) ==
    /\ pc[t] = "idle"
    /\ calls < MaxCalls
    /\ calls' = calls + 1
    /\ req' = [req EXCEPT ![t] = r]
    /\ Goto(t, l)
    /\ UNCHANGED <<globalVars, sessionVars, issued, known, resultVars, cur, groups>>

CallCreate(t) ==
    /\ Call(t, [NoRequest EXCEPT !.op = "createSession"], "create")
    /\ UNCHANGED <<at, todo>>

CallSession(t) ==
    \E op \in SessionOps, s \in Session \intersect known :
        /\ Call(t, [NoRequest EXCEPT !.op = op, !.sid = s], "session")
        /\ at' = [at EXCEPT ![t] = s]
        /\ UNCHANGED todo

CallState(t) ==
    \E op \in StateOps, x \in StateId \intersect known, d \in BOOLEAN :
        /\ d => op = "executeBatch"
        /\ Call(t, [NoRequest EXCEPT !.op = op, !.src = x, !.dropFailed = d], "owner")
        /\ UNCHANGED <<at, todo>>

CallDrop(t) ==
    \E X \in SUBSET (StateId \intersect known) :
        /\ Call(t, [NoRequest EXCEPT !.op = "dropState", !.ids = X], "group")
        /\ todo' = [todo EXCEPT ![t] = X]
        /\ UNCHANGED at

\* The response reaches the client, which learns the UUIDs it names.
Return(t) ==
    /\ pc[t] \in Reply
    /\ known' = IF pc[t] # "OK" THEN known
                ELSE known \union results[t]
                       \union (IF req[t].op = "createSession" THEN {at[t]} ELSE {})
    /\ Goto(t, "idle")
    /\ req' = [req EXCEPT ![t] = NoRequest]
    /\ at' = [at EXCEPT ![t] = None]
    /\ pending' = [pending EXCEPT ![t] = {}]
    /\ results' = [results EXCEPT ![t] = {}]
    /\ failed' = [failed EXCEPT ![t] = {}]
    /\ key' = [key EXCEPT ![t] = None]
    /\ cur' = [cur EXCEPT ![t] = None]
    /\ todo' = [todo EXCEPT ![t] = {}]
    /\ groups' = [groups EXCEPT ![t] = {}]
    /\ UNCHANGED <<globalVars, sessionVars, issued, calls>>

-----------------------------------------------------------------------------
(* createSession                                                           *)

\* SessionBootstrap.build can refuse the request; the IsabelleSession
\* constructor starts the Isabelle process.
BootSession(t) ==
    /\ pc[t] = "create"
    /\ \/ /\ Goto(t, "FAILED")
          /\ UNCHANGED <<running, issued, at>>
       \/ \E s \in Session \ issued :
             /\ issued' = issued \union {s}
             /\ running' = running \union {s}
             /\ at' = [at EXCEPT ![t] = s]
             /\ Goto(t, "enter")
    /\ UNCHANGED <<sessionMap, closing, lock, owner, sessionVars, known, calls, req,
                   resultVars, loopVars>>

\* The constructor can still fail after the process was started (registering
\* the session directories); otherwise sessionMap.put publishes the session.
EnterSession(t) ==
    /\ pc[t] = "enter"
    /\ \/ /\ Goto(t, "FAILED")
          /\ UNCHANGED sessionMap
       \/ /\ sessionMap' = sessionMap \union {at[t]}
          /\ Goto(t, "OK")
    /\ UNCHANGED <<running, closing, lock, owner, sessionVars, clientVars, req, at,
                   resultVars, loopVars>>

-----------------------------------------------------------------------------
(* The way into a critical section: getManagedSession, withManagedState    *)
(* and withActiveManagedSession.                                           *)

\* stateRegistry.ownerOf, without a lock
LookupOwner(t) ==
    /\ pc[t] = "owner"
    /\ IF owner[req[t].src] = None
       THEN Goto(t, "NOT_FOUND") /\ UNCHANGED at
       ELSE Goto(t, "session") /\ at' = [at EXCEPT ![t] = owner[req[t].src]]
    /\ UNCHANGED <<globalVars, sessionVars, clientVars, req, resultVars, loopVars>>

\* sessionMap.get, without a lock
LookupSession(t) ==
    /\ pc[t] = "session"
    /\ Goto(t, IF at[t] \in sessionMap THEN "acquire" ELSE "NOT_FOUND")
    /\ OnlyMoves

Acquire(t) ==
    /\ pc[t] = "acquire"
    /\ lock[at[t]] = None
    /\ lock' = [lock EXCEPT ![at[t]] = t]
    /\ Goto(t, "locked")
    /\ OnlyLeaves

\* StateRegistry.isLiveStateInSession
IsLiveStateInSession(s, x) == owner[x] = s /\ x \in stateMap[s]

\* The checks made once the lock is held, up to the body of the handler.
RejectClosing(t) ==
    /\ pc[t] = "locked"
    /\ req[t].op # "dropState"
    /\ closing[at[t]]
    /\ Leave(t, "FAILED_PRECONDITION")
    /\ OnlyLeaves

MutKeepLock(t) ==   \* mutant: the error path does not release the lock
    /\ pc[t] = "locked"
    /\ req[t].op \in StateOps
    /\ ~closing[at[t]]
    /\ ~IsLiveStateInSession(at[t], req[t].src)
    /\ Goto(t, "NOT_FOUND")
    /\ OnlyMoves

RejectDeadState(t) ==
    /\ pc[t] = "locked"
    /\ req[t].op \in StateOps
    /\ ~closing[at[t]]
    /\ ~IsLiveStateInSession(at[t], req[t].src)
    /\ Leave(t, "NOT_FOUND")
    /\ OnlyLeaves

MutIgnoreClosing(t) ==   \* mutant: no isClosingLocked test after the wait for the lock
    /\ pc[t] = "locked"
    /\ \/ req[t].op \in {"loadTheory", "initState"}
       \/ req[t].op \in StateOps /\ IsLiveStateInSession(at[t], req[t].src)
    /\ Goto(t, "body")
    /\ OnlyMoves

EnterBody(t) ==
    /\ pc[t] = "locked"
    /\ ~closing[at[t]]
    /\ \/ req[t].op \in {"loadTheory", "initState"}
       \/ req[t].op \in StateOps /\ IsLiveStateInSession(at[t], req[t].src)
    /\ Goto(t, "body")
    /\ OnlyMoves

-----------------------------------------------------------------------------
(* Computing results.  The ML process can fail any of these calls.         *)

\* An exception the handler does not turn into a result.
BodyFails(t) ==
    /\ pc[t] = "body"
    /\ Leave(t, "FAILED")
    /\ OnlyLeaves

\* theoryCache.computeIfAbsent
LoadTheory(t) ==
    /\ pc[t] = "body"
    /\ req[t].op = "loadTheory"
    /\ \E p \in Theory :
          theoryCache' = [theoryCache EXCEPT ![at[t]] = @ \union {p}]
    /\ Leave(t, "OK")
    /\ UNCHANGED <<sessionMap, running, closing, owner, stateMap, initCache, initCacheKeys,
                   clientVars, req, at, resultVars, loopVars>>

\* The results of a computation: fresh UUIDs for n states, F of them failed.
Computed(t, X, F, k) ==
    /\ issued' = issued \union X
    /\ pending' = [pending EXCEPT ![t] = X]
    /\ failed' = [failed EXCEPT ![t] = F]
    /\ key' = [key EXCEPT ![t] = k]
    /\ UNCHANGED <<known, calls, results>>

\* computeInitState: the theory is parsed at most once; the outcome is the
\* state after the target line with its cache key, a failure with the state of
\* the last good line, or a failure with none; building the empty toplevel to
\* replay from can fail the call after the theory was cached.
ComputeInitState(t) ==
    /\ pc[t] = "body"
    /\ req[t].op = "initState"
    /\ \E p \in Theory :
          /\ theoryCache' = [theoryCache EXCEPT ![at[t]] = @ \union {p}]
          /\ \/ /\ \/ \E x \in StateId \ issued, l \in Line : Computed(t, {x}, {}, <<p, l>>)
                   \/ \E x \in StateId \ issued : Computed(t, {x}, {}, None)
                   \/ Computed(t, {}, {}, None)
                /\ Goto(t, "store")
                /\ UNCHANGED lock
             \/ /\ Leave(t, "FAILED")
                /\ UNCHANGED <<clientVars, resultVars>>
    /\ UNCHANGED <<sessionMap, running, closing, owner, stateMap, initCache, initCacheKeys,
                   req, at, loopVars>>

\* computeExecute: an ML failure still yields a result, with the source state.
ComputeExecute(t) ==
    /\ pc[t] = "body"
    /\ req[t].op = "execute"
    /\ \E x \in StateId \ issued : \E F \in SUBSET {x} : Computed(t, {x}, F, None)
    /\ Goto(t, "store")
    /\ UNCHANGED <<globalVars, sessionVars, req, at, loopVars>>

\* computeExecuteBatch: every tactic is tried before any result is registered.
ComputeExecuteBatch(t) ==
    /\ pc[t] = "body"
    /\ req[t].op = "executeBatch"
    /\ \E X \in SUBSET (StateId \ issued) :
          /\ Cardinality(X) <= MaxBatch
          /\ \E F \in SUBSET X : Computed(t, X, F, None)
    /\ Goto(t, "store")
    /\ UNCHANGED <<globalVars, sessionVars, req, at, loopVars>>

\* computeRunSledgehammer: nothing found, or the first command executed.
ComputeRunSledgehammer(t) ==
    /\ pc[t] = "body"
    /\ req[t].op = "runSledgehammer"
    /\ \/ Computed(t, {}, {}, None)
       \/ \E x \in StateId \ issued : \E F \in SUBSET {x} : Computed(t, {x}, F, None)
    /\ Goto(t, "store")
    /\ UNCHANGED <<globalVars, sessionVars, req, at, loopVars>>

GetStateInfo(t) ==
    /\ pc[t] = "body"
    /\ req[t].op = "getStateInfo"
    /\ Leave(t, "OK")
    /\ OnlyLeaves

-----------------------------------------------------------------------------
(* Registering results: StateRegistry.registerState and buildStateResult   *)

\* IsabelleSession.storeStateLocal
StoreStateLocal(s, x, k) ==
    /\ stateMap' = [stateMap EXCEPT ![s] = @ \union {x}]
    /\ IF k = None
       THEN UNCHANGED <<initCache, initCacheKeys>>
       ELSE /\ initCache' = [initCache EXCEPT ![s] = [@ EXCEPT ![k] = x]]
            /\ initCacheKeys' = [initCacheKeys EXCEPT ![s] = [@ EXCEPT ![x] = k]]

StoreState(t) ==
    /\ pc[t] = "store"
    /\ \E x \in pending[t] :
          /\ StoreStateLocal(at[t], x, key[t])
          /\ cur' = [cur EXCEPT ![t] = x]
    /\ Goto(t, "publish")
    /\ UNCHANGED <<globalVars, theoryCache, clientVars, req, at, resultVars, todo, groups>>

\* stateOwnerMap.put: the state becomes addressable
PublishOwner(t) ==
    /\ pc[t] = "publish"
    /\ owner' = [owner EXCEPT ![cur[t]] = at[t]]
    /\ pending' = [pending EXCEPT ![t] = @ \ {cur[t]}]
    /\ results' = [results EXCEPT ![t] = @ \union {cur[t]}]
    /\ Goto(t, "build")
    /\ UNCHANGED <<sessionMap, running, closing, lock, sessionVars, clientVars, req, at,
                   failed, key, loopVars>>

\* buildStateResult asks the ML process for mode and level, and can fail.
BuildStateResult(t) ==
    /\ pc[t] = "build"
    /\ cur' = [cur EXCEPT ![t] = None]
    /\ \/ Goto(t, "store") /\ UNCHANGED lock
       \/ Leave(t, "FAILED")
    /\ UNCHANGED <<sessionMap, running, closing, owner, sessionVars, clientVars, req, at,
                   resultVars, todo, groups>>

MutKeepFailed(t) ==   \* mutant: the drop_failed flag is ignored
    /\ pc[t] = "store"
    /\ pending[t] = {}
    /\ Leave(t, "OK")
    /\ OnlyLeaves

\* All results are registered: respond, or drop the failed ones first.
Registered(t) ==
    /\ pc[t] = "store"
    /\ pending[t] = {}
    /\ IF req[t].dropFailed
       THEN Goto(t, "unown") /\ todo' = [todo EXCEPT ![t] = failed[t]] /\ UNCHANGED lock
       ELSE Leave(t, "OK") /\ UNCHANGED todo
    /\ UNCHANGED <<sessionMap, running, closing, owner, sessionVars, clientVars, req, at,
                   resultVars, cur, groups>>

-----------------------------------------------------------------------------
(* Dropping single states: dropState, and the end of executeBatch          *)

MutGroupUnowned(t) ==   \* mutant: ids without an owner are grouped too
    /\ pc[t] = "group"
    /\ \E x \in todo[t] :
          /\ todo' = [todo EXCEPT ![t] = @ \ {x}]
          /\ groups' = [groups EXCEPT ![t] = @ \union {<<x, owner[x]>>}]
    /\ UNCHANGED <<globalVars, sessionVars, clientVars, pc, req, at, resultVars, cur>>

\* groupStateIdsByOwner reads one owner after the other, without a lock.
GroupByOwner(t) ==
    /\ pc[t] = "group"
    /\ \E x \in todo[t] :
          /\ todo' = [todo EXCEPT ![t] = @ \ {x}]
          /\ groups' = [groups EXCEPT ![t] =
                           @ \union (IF owner[x] = None THEN {} ELSE {<<x, owner[x]>>})]
    /\ UNCHANGED <<globalVars, sessionVars, clientVars, pc, req, at, resultVars, cur>>

Grouped(t) ==
    /\ pc[t] = "group"
    /\ todo[t] = {}
    /\ Goto(t, "next")
    /\ OnlyMoves

\* The next group; a session that is gone from sessionMap is skipped.
NextGroup(t) ==
    /\ pc[t] = "next"
    /\ \E s \in {g[2] : g \in groups[t]} :
          LET mine == {g \in groups[t] : g[2] = s} IN
          /\ groups' = [groups EXCEPT ![t] = @ \ mine]
          /\ IF s \in sessionMap
             THEN /\ at' = [at EXCEPT ![t] = s]
                  /\ todo' = [todo EXCEPT ![t] = {g[1] : g \in mine}]
                  /\ Goto(t, "acquire")
             ELSE UNCHANGED <<at, todo, pc>>
    /\ UNCHANGED <<globalVars, sessionVars, clientVars, req, resultVars, cur>>

NoMoreGroups(t) ==
    /\ pc[t] = "next"
    /\ groups[t] = {}
    /\ Goto(t, "OK")
    /\ OnlyMoves

\* dropState does not look at the closing flag.
EnterDrop(t) ==
    /\ pc[t] = "locked"
    /\ req[t].op = "dropState"
    /\ Goto(t, "unown")
    /\ OnlyMoves

\* dropStateIfOwned, first half: stateOwnerMap.remove(stateId, sessionId)
RemoveOwner(t) ==
    /\ pc[t] = "unown"
    /\ \E x \in todo[t] :
          /\ todo' = [todo EXCEPT ![t] = @ \ {x}]
          /\ IF owner[x] = at[t]
             THEN /\ owner' = [owner EXCEPT ![x] = None]
                  /\ cur' = [cur EXCEPT ![t] = x]
                  /\ Goto(t, "forget")
             ELSE UNCHANGED <<owner, cur, pc>>
    /\ UNCHANGED <<sessionMap, running, closing, lock, sessionVars, clientVars, req, at,
                   resultVars, groups>>

MutKeepCheckpoint(s, x) ==   \* mutant: the init cache is not told of the drop
    /\ stateMap' = [stateMap EXCEPT ![s] = @ \ {x}]
    /\ UNCHANGED <<initCache, initCacheKeys>>

\* IsabelleSession.dropStateLocal: the checkpoint goes by its key, whichever
\* state it points at.
DropStateLocal(s, x) ==
    /\ stateMap' = [stateMap EXCEPT ![s] = @ \ {x}]
    /\ initCacheKeys' = [initCacheKeys EXCEPT ![s] = [@ EXCEPT ![x] = None]]
    /\ IF initCacheKeys[s][x] = None
       THEN UNCHANGED initCache
       ELSE initCache' = [initCache EXCEPT ![s] =
                             [@ EXCEPT ![initCacheKeys[s][x]] = None]]

\* dropStateIfOwned, second half
ForgetState(t) ==
    /\ pc[t] = "forget"
    /\ DropStateLocal(at[t], cur[t])
    /\ cur' = [cur EXCEPT ![t] = None]
    /\ Goto(t, "unown")
    /\ UNCHANGED <<globalVars, theoryCache, clientVars, req, at, resultVars, todo, groups>>

\* End of the loop: dropState goes on with the next session, executeBatch responds.
Dropped(t) ==
    /\ pc[t] = "unown"
    /\ todo[t] = {}
    /\ Leave(t, IF req[t].op = "dropState" THEN "next" ELSE "OK")
    /\ OnlyLeaves

-----------------------------------------------------------------------------
(* Dropping a whole session: dropAllStates and destroySession              *)

Owned(s) == {x \in StateId : owner[x] = s}

EnterDropAllStates(t) ==
    /\ pc[t] = "locked"
    /\ req[t].op = "dropAllStates"
    /\ ~closing[at[t]]
    /\ todo' = [todo EXCEPT ![t] = Owned(at[t])]
    /\ Goto(t, "disown")
    /\ UNCHANGED <<globalVars, sessionVars, clientVars, req, at, resultVars, cur, groups>>

MutDestroyKeepsStates(t) ==   \* mutant: destroySession without dropAllStatesLocked
    /\ pc[t] = "locked"
    /\ req[t].op = "destroySession"
    /\ ~closing[at[t]]
    /\ closing' = [closing EXCEPT ![at[t]] = TRUE]
    /\ Goto(t, "close")
    /\ UNCHANGED <<sessionMap, running, lock, owner, sessionVars, clientVars, req, at,
                   resultVars, loopVars>>

MutUnmapFirst(t) ==   \* mutant: sessionMap.remove before the states are dropped
    /\ pc[t] = "locked"
    /\ req[t].op = "destroySession"
    /\ ~closing[at[t]]
    /\ closing' = [closing EXCEPT ![at[t]] = TRUE]
    /\ sessionMap' = sessionMap \ {at[t]}
    /\ todo' = [todo EXCEPT ![t] = Owned(at[t])]
    /\ Goto(t, "disown")
    /\ UNCHANGED <<running, lock, owner, sessionVars, clientVars, req, at,
                   resultVars, cur, groups>>

\* startClosingLocked, and the ids collected by dropAllStatesForSession
EnterDestroySession(t) ==
    /\ pc[t] = "locked"
    /\ req[t].op = "destroySession"
    /\ ~closing[at[t]]
    /\ closing' = [closing EXCEPT ![at[t]] = TRUE]
    /\ todo' = [todo EXCEPT ![t] = Owned(at[t])]
    /\ Goto(t, "disown")
    /\ UNCHANGED <<sessionMap, running, lock, owner, sessionVars, clientVars, req, at,
                   resultVars, cur, groups>>

\* dropAllStatesForSession: the owners go one by one, then the local tables.
DisownState(t) ==
    /\ pc[t] = "disown"
    /\ \E x \in todo[t] :
          /\ todo' = [todo EXCEPT ![t] = @ \ {x}]
          /\ owner' = IF owner[x] = at[t] THEN [owner EXCEPT ![x] = None] ELSE owner
    /\ UNCHANGED <<sessionMap, running, closing, lock, sessionVars, clientVars, pc, req, at,
                   resultVars, cur, groups>>

MutKeepStateMap(s) ==   \* mutant: stateMap.clear() forgotten
    /\ initCache' = [initCache EXCEPT ![s] = [k \in Key |-> None]]
    /\ initCacheKeys' = [initCacheKeys EXCEPT ![s] = [x \in StateId |-> None]]
    /\ UNCHANGED <<theoryCache, stateMap>>

\* IsabelleSession.dropAllStatesLocal keeps the parsed theories.
DropAllStatesLocal(s) ==
    /\ stateMap' = [stateMap EXCEPT ![s] = {}]
    /\ initCache' = [initCache EXCEPT ![s] = [k \in Key |-> None]]
    /\ initCacheKeys' = [initCacheKeys EXCEPT ![s] = [x \in StateId |-> None]]
    /\ UNCHANGED theoryCache

ClearStates(t) ==
    /\ pc[t] = "disown"
    /\ todo[t] = {}
    /\ DropAllStatesLocal(at[t])
    /\ IF req[t].op = "destroySession"
       THEN Goto(t, "close") /\ UNCHANGED lock
       ELSE Leave(t, "OK")
    /\ UNCHANGED <<sessionMap, running, closing, owner, clientVars, req, at, resultVars, loopVars>>

MutUnmapAnyway(t) ==   \* mutant: sessionMap.remove in a finally block
    /\ pc[t] = "close"
    /\ sessionMap' = sessionMap \ {at[t]}
    /\ \/ running' = running \ {at[t]} /\ Leave(t, "OK")
       \/ UNCHANGED running /\ Leave(t, "FAILED")
    /\ UNCHANGED <<closing, owner, sessionVars, clientVars, req, at, resultVars, loopVars>>

\* session.close() destroys the Isabelle process; only then the session leaves
\* sessionMap.  If close() throws, it stays there, closing.
CloseSession(t) ==
    /\ pc[t] = "close"
    /\ \/ /\ running' = running \ {at[t]}
          /\ sessionMap' = sessionMap \ {at[t]}
          /\ Leave(t, "OK")
       \/ /\ UNCHANGED <<running, sessionMap>>
          /\ Leave(t, "FAILED")
    /\ UNCHANGED <<closing, owner, sessionVars, clientVars, req, at, resultVars, loopVars>>

-----------------------------------------------------------------------------
Step(t) ==
    \/ BootSession(t) \/ EnterSession(t)
    \/ LookupOwner(t) \/ LookupSession(t) \/ Acquire(t)
    \/ RejectClosing(t) \/ RejectDeadState(t) \/ EnterBody(t)
    \/ BodyFails(t) \/ LoadTheory(t) \/ ComputeInitState(t) \/ ComputeExecute(t)
    \/ ComputeExecuteBatch(t) \/ ComputeRunSledgehammer(t) \/ GetStateInfo(t)
    \/ StoreState(t) \/ PublishOwner(t) \/ BuildStateResult(t) \/ Registered(t)
    \/ GroupByOwner(t) \/ Grouped(t) \/ NextGroup(t) \/ NoMoreGroups(t)
    \/ EnterDrop(t) \/ RemoveOwner(t) \/ ForgetState(t) \/ Dropped(t)
    \/ EnterDropAllStates(t) \/ EnterDestroySession(t) \/ DisownState(t)
    \/ ClearStates(t) \/ CloseSession(t)
    \/ Return(t)

Issue(t) == CallCreate(t) \/ CallSession(t) \/ CallState(t) \/ CallDrop(t)

\* No call in progress and no more requests: the server waits.
Quiet ==
    /\ \A t \in Thread : pc[t] = "idle"
    /\ UNCHANGED vars

Next == (\E t \in Thread : Step(t) \/ Issue(t)) \/ Quiet

Spec == Init /\ [][Next]_vars

\* A call that was accepted keeps running: the pool is unbounded and every
\* handler is a straight line apart from the wait for a lock.
FairSpec == Spec /\ \A t \in Thread : WF_vars(Step(t))

-----------------------------------------------------------------------------
(* Properties                                                              *)

\* The maps of the service, the tables of each session and the locals of each
\* call hold values of their types; in particular a call that groups ids for
\* dropState holds only ids that had an owner.
TypeOK ==
    /\ sessionMap \subseteq Session
    /\ running \subseteq Session
    /\ closing \in [Session -> BOOLEAN]
    /\ lock \in [Session -> Thread \union {None}]
    /\ owner \in [StateId -> Session \union {None}]
    /\ stateMap \in [Session -> SUBSET StateId]
    /\ theoryCache \in [Session -> SUBSET Theory]
    /\ initCache \in [Session -> [Key -> StateId \union {None}]]
    /\ initCacheKeys \in [Session -> [StateId -> Key \union {None}]]
    /\ issued \subseteq Session \union StateId
    /\ known \subseteq Session \union StateId
    /\ calls \in Nat
    /\ pc \in [Thread -> Label]
    /\ req \in [Thread -> Request]
    /\ at \in [Thread -> Session \union {None}]
    /\ pending \in [Thread -> SUBSET StateId]
    /\ results \in [Thread -> SUBSET StateId]
    /\ failed \in [Thread -> SUBSET StateId]
    /\ key \in [Thread -> Key \union {None}]
    /\ cur \in [Thread -> StateId \union {None}]
    /\ todo \in [Thread -> SUBSET StateId]
    /\ groups \in [Thread -> SUBSET (StateId \X Session)]

\* StateRegistry's "source-of-truth invariant".  An owner read without a lock,
\* at any instant, names a session that stores the state; and when no handler
\* is inside a session, every state stored there is addressable through the
\* registry, so none is stranded.
SourceOfTruth ==
    /\ \A x \in StateId : owner[x] # None => x \in stateMap[owner[x]]
    /\ \A s \in Session : lock[s] = None => stateMap[s] \subseteq Owned(s)

\* Once destroySession has let go of a session - removed it, or failed to close
\* its process and left it closing in sessionMap - the session owns no state
\* and no checkpoint, whatever calls were queued on its lock.
ClosedHoldsNothing ==
    \A s \in Session :
        (closing[s] /\ lock[s] = None) \/ (s \in known /\ s \notin sessionMap)
            => /\ Owned(s) = {}
               /\ stateMap[s] = {}
               /\ \A k \in Key : initCache[s][k] = None

\* IsabelleSession's "local invariant": an init-cache entry points at a state
\* that is still stored, is the entry that state would evict, and belongs to a
\* theory that is still parsed.
CheckpointsLive ==
    \A s \in Session, k \in Key :
        initCache[s][k] # None =>
            /\ initCache[s][k] \in stateMap[s]
            /\ initCacheKeys[s][initCache[s][k]] = k
            /\ k[1] \in theoryCache[s]

\* A call on a state answers NOT_FOUND only if the state is dead by then,
\* although ownerOf and sessionMap.get were read before the lock was taken; a
\* call on a session answers NOT_FOUND only if the session is gone.
NotFoundIsTrue ==
    \A t \in Thread : pc[t] = "NOT_FOUND" =>
        IF req[t].op \in StateOps
        THEN owner[req[t].src] = None
        ELSE req[t].sid \notin sessionMap

\* No handler computes on, or registers into, a session that is closing or
\* whose Isabelle process was destroyed; and the source state of execute,
\* executeBatch, runSledgehammer and getStateInfo stays live until the handler
\* leaves (execution is non-destructive and nobody drops it meanwhile).
NoUseAfterClose ==
    \A t \in Thread : pc[t] \in {"body", "store", "publish", "build"} =>
        /\ at[t] \in sessionMap \intersect running
        /\ ~closing[at[t]]
        /\ req[t].op \in StateOps => IsLiveStateInSession(at[t], req[t].src)

\* execute_many(drop_failed=True): when the response is ready, no failed
\* candidate it names is live; without drop_failed, or for a candidate that did
\* not fail, a state is dropped only by a request that names it or its session.
DropFailed ==
    \A t \in Thread :
        /\ pc[t] = "OK" /\ req[t].dropFailed =>
              \A x \in failed[t] : owner[x] = None
        /\ pc[t] \in Critical /\ req[t].op \notin {"dropState", "dropAllStates", "destroySession"} =>
              \A x \in results[t] \ failed[t] : IsLiveStateInSession(at[t], x)

\* A session the clients know leaves sessionMap only after its Isabelle process
\* was torn down, and while it is closing it only loses states.
TeardownOrder ==
    [][\A s \in Session :
          /\ s \in sessionMap \ sessionMap' => s \notin running' /\ stateMap[s] = {}
          /\ closing[s] => stateMap'[s] \subseteq stateMap[s] /\ Owned(s)' \subseteq Owned(s)]_vars

\* drop_all_states and destroy_session kill every state of the session in one
\* instant, a drawn id is published once into an open session, and a dead id
\* never comes back: the server implements StateLife.  A session in the middle
\* of losing its owners counts as emptied, because every call that still reads
\* one of them has to wait for the lock and then finds the state gone.
Emptied(s) == \E t \in Thread : pc[t] = "disown" /\ at[t] = s

AbstractLive(x) == owner[x] # None /\ ~Emptied(owner[x])

Life == INSTANCE StateLife WITH
    phase <- [s \in Session |-> IF closing[s] THEN "closed"
                                ELSE IF s \in sessionMap THEN "open" ELSE "new"],
    life <- [x \in StateId |->
                IF x \notin issued THEN "unborn"
                ELSE IF \E t \in Thread : x \in pending[t] THEN "drawn"
                ELSE IF AbstractLive(x) THEN "live" ELSE "dead"],
    home <- [x \in StateId |-> IF AbstractLive(x) THEN owner[x] ELSE None]

Linearizable == Life!Spec

\* Every accepted call is answered: nobody waits for a lock forever, although
\* dropState takes the locks of several sessions and calls fail half way.
EveryCallReturns == \A t \in Thread : pc[t] # "idle" ~> pc[t] = "idle"
=============================================================================

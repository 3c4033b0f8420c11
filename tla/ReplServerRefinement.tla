------------------------ MODULE ReplServerRefinement ------------------------
(***************************************************************************)
(* ReplServer implements StateLife: seen through the registry and the      *)
(* locks, every step of every call is one atomic operation on state ids or *)
(* changes nothing a client could tell.                                    *)
(***************************************************************************)
EXTENDS ReplServerCallProofs

\* The refinement mapping of Life, by name.
phaseBar == [s \in Session |-> IF closing[s] THEN "closed"
                               ELSE IF s \in sessionMap THEN "open" ELSE "new"]
lifeBar == [x \in StateId |->
               IF x \notin issued THEN "unborn"
               ELSE IF \E t \in Thread : x \in pending[t] THEN "drawn"
               ELSE IF AbstractLive(x) THEN "live" ELSE "dead"]
homeBar == [x \in StateId |-> IF AbstractLive(x) THEN owner[x] ELSE None]

\* Call t moves, and neither begins nor ends the emptying of a session.
Moves(t) ==
    /\ pc[t] # "disown" /\ pc'[t] # "disown"
    /\ \A u \in Thread \ {t} : pc'[u] = pc[u] /\ at'[u] = at[u]

\* A step that moves a call does not change which sessions are being emptied.
LEMMA MovesKeepEmptied ==
    ASSUME NEW t \in Thread, Moves(t), NEW s
    PROVE  Emptied(s)' <=> Emptied(s)
<1>1. ASSUME NEW u \in Thread
      PROVE  pc'[u] = "disown" /\ at'[u] = s <=> pc[u] = "disown" /\ at[u] = s
  BY DEF Moves
<1> QED
  BY <1>1 DEF Emptied

\* A step that touches neither the maps nor the drawn ids is invisible.
LEMMA Invisible ==
    ASSUME NEW t \in Thread, Moves(t), UNCHANGED <<sessionMap, closing, owner, pending>>,
           \A x \in StateId : x \in issued' <=> x \in issued
    PROVE  UNCHANGED Life!vars
<1>1. \A x \in StateId : AbstractLive(x)' <=> AbstractLive(x)
  BY MovesKeepEmptied DEF AbstractLive
<1>2. phaseBar' = phaseBar
  BY DEF phaseBar
<1>3. lifeBar' = lifeBar
  BY <1>1 DEF lifeBar
<1>4. homeBar' = homeBar
  BY <1>1 DEF homeBar
<1> QED
  BY <1>2, <1>3, <1>4 DEF Life!vars, phaseBar, lifeBar, homeBar

\* A live id is an issued one that nobody is about to register.
LEMMA LiveIsIssued ==
    ASSUME CInv, NEW x \in StateId, owner[x] # None
    PROVE  x \in issued /\ \A t \in Thread : x \notin pending[t]
BY DEF CInv, IInv, FreshInv

\* sessionMap.put opens the session.
LEMMA EnterSessionOpens ==
    ASSUME CInv, NEW t \in Thread, Moves(t), pc[t] = "enter",
           sessionMap' = sessionMap \union {at[t]}, UNCHANGED <<closing, owner, pending, issued>>
    PROVE  \E s \in Session : Life!Open(s)
<1>1. PICK s \in Session : s = at[t] /\ ~closing[s] /\ s \notin sessionMap
  BY DEF CInv, SessionInv, IInv, ProgInv
<1>2. phaseBar[s] = "new" /\ phaseBar' = [phaseBar EXCEPT ![s] = "open"]
  BY <1>1 DEF phaseBar
<1>3. \A x \in StateId : AbstractLive(x)' <=> AbstractLive(x)
  BY MovesKeepEmptied DEF AbstractLive
<1>4. lifeBar' = lifeBar /\ homeBar' = homeBar
  BY <1>3 DEF lifeBar, homeBar
<1>5. Life!Open(s)
  BY <1>2, <1>4 DEF Life!Open, phaseBar, lifeBar, homeBar
<1> QED
  BY <1>5

\* The ids of one computation are drawn at once.
LEMMA ComputedDraws ==
    ASSUME CInv, NEW t \in Thread, Moves(t), pc[t] = "body",
           NEW X \in SUBSET (StateId \ issued), NEW F, NEW k, Computed(t, X, F, k),
           UNCHANGED <<sessionMap, closing, owner>>
    PROVE  Life!Draw(X)
<1>1. issued' = issued \union X /\ pending' = [pending EXCEPT ![t] = X] /\ pending[t] = {}
  BY DEF Computed, CInv, KnownInv
<1>2. pending \in [Thread -> SUBSET StateId]
  BY DEF CInv, IInv, TypeOK
<1>3. \A x \in StateId : (\E u \in Thread : x \in pending'[u])
                           <=> x \in X \/ \E u \in Thread : x \in pending[u]
  BY <1>1, <1>2
<1>4. \A x \in StateId : AbstractLive(x)' <=> AbstractLive(x)
  BY MovesKeepEmptied DEF AbstractLive
<1>5. \A x \in X : lifeBar[x] = "unborn"
  BY DEF lifeBar
<1>6. lifeBar' = [x \in StateId |-> IF x \in X THEN "drawn" ELSE lifeBar[x]]
  BY <1>1, <1>3, <1>4 DEF lifeBar
<1>7. phaseBar' = phaseBar /\ homeBar' = homeBar
  BY <1>4 DEF phaseBar, homeBar
<1> QED
  BY <1>5, <1>6, <1>7 DEF Life!Draw, phaseBar, lifeBar, homeBar

\* stateOwnerMap.put publishes an id into an open session.
LEMMA PublishOwnerPublishes ==
    ASSUME CInv, NEW t \in Thread, PublishOwner(t)
    PROVE  \E s \in Session, x \in StateId : Life!Publish(s, x)
<1>1. /\ pc[t] = "publish" /\ owner' = [owner EXCEPT ![cur[t]] = at[t]]
      /\ pending' = [pending EXCEPT ![t] = @ \ {cur[t]}]
      /\ pc' = [pc EXCEPT ![t] = "build"]
      /\ UNCHANGED <<sessionMap, closing, at, issued>>
  BY DEF PublishOwner, Goto, clientVars
<1>2. /\ pc \in [Thread -> Label] /\ pending \in [Thread -> SUBSET StateId]
      /\ owner \in [StateId -> Session \union {None}]
  BY DEF CInv, IInv, TypeOK
<1>3. PICK s \in Session : s = at[t] /\ lock[s] = t
  BY <1>1 DEF CInv, IInv, LockInv, Critical
<1>4. PICK x \in StateId : x = cur[t] /\ x \in pending[t] /\ ~closing[s]
  BY <1>1, <1>2, <1>3 DEF CInv, IInv, ProgInv
<1>5. s \in sessionMap
  BY <1>1, <1>3, <1>4 DEF CInv, IInv, ClosingInv, Critical
<1>6. x \in issued /\ owner[x] = None /\ \A u \in Thread : x \in pending[u] => u = t
  BY <1>4 DEF CInv, IInv, FreshInv
<1>7. Moves(t)
  BY <1>1, <1>2 DEF Moves
<1>8. ~Emptied(s)
  BY <1>1, <1>3 DEF Emptied, CInv, IInv, LockInv, Critical
<1>9. \A y \in StateId : AbstractLive(y)' <=> y = x \/ AbstractLive(y)
  BY <1>1, <1>2, <1>3, <1>4, <1>7, <1>8, MovesKeepEmptied, NoneAssumption DEF AbstractLive
<1>10. \A y \in StateId : (\E u \in Thread : y \in pending'[u])
                            <=> y # x /\ \E u \in Thread : y \in pending[u]
  BY <1>1, <1>2, <1>4, <1>6
<1>11. phaseBar[s] = "open" /\ phaseBar' = phaseBar
  BY <1>1, <1>3, <1>4, <1>5 DEF phaseBar
<1>12. lifeBar[x] = "drawn" /\ lifeBar' = [lifeBar EXCEPT ![x] = "live"]
  BY <1>1, <1>4, <1>6, <1>9, <1>10 DEF lifeBar
<1>13. homeBar' = [homeBar EXCEPT ![x] = s]
  BY <1>1, <1>2, <1>3, <1>4, <1>9 DEF homeBar
<1>14. Life!Publish(s, x)
  BY <1>11, <1>12, <1>13 DEF Life!Publish, phaseBar, lifeBar, homeBar
<1> QED
  BY <1>14

\* The answer discards what the call drew and never registered.
LEMMA ReturnDiscards ==
    ASSUME CInv, NEW t \in Thread, Return(t)
    PROVE  \E X \in SUBSET StateId : Life!Discard(X)
<1>1. /\ pc[t] \in Reply /\ pc' = [pc EXCEPT ![t] = "idle"]
      /\ pending' = [pending EXCEPT ![t] = {}]
      /\ at' = [at EXCEPT ![t] = None]
      /\ UNCHANGED <<sessionMap, closing, owner, issued>>
  BY DEF Return, Goto, globalVars
<1>2. /\ pc \in [Thread -> Label] /\ pending \in [Thread -> SUBSET StateId]
      /\ at \in [Thread -> Session \union {None}]
  BY DEF CInv, IInv, TypeOK
<1>a. PICK X \in SUBSET StateId : X = pending[t]
  BY <1>2
<1>3. Moves(t)
  BY <1>1, <1>2 DEF Moves, Reply
<1>4. \A x \in X : x \in issued /\ owner[x] = None /\ \A u \in Thread : x \in pending[u] => u = t
  BY <1>a DEF CInv, IInv, FreshInv
<1>5. \A x \in StateId : AbstractLive(x)' <=> AbstractLive(x)
  BY <1>1, <1>3, MovesKeepEmptied DEF AbstractLive
<1>6. \A x \in StateId : (\E u \in Thread : x \in pending'[u])
                           <=> x \notin X /\ \E u \in Thread : x \in pending[u]
  BY <1>1, <1>2, <1>4, <1>a
<1>7. \A x \in X : lifeBar[x] = "drawn" /\ ~AbstractLive(x)
  BY <1>2, <1>4, <1>a DEF lifeBar, AbstractLive
<1>8. lifeBar' = [x \in StateId |-> IF x \in X THEN "dead" ELSE lifeBar[x]]
  BY <1>1, <1>4, <1>5, <1>6, <1>7 DEF lifeBar
<1>9. phaseBar' = phaseBar /\ homeBar' = homeBar
  BY <1>1, <1>5 DEF phaseBar, homeBar
<1>10. Life!Discard(X)
  BY <1>7, <1>8, <1>9 DEF Life!Discard, phaseBar, lifeBar, homeBar
<1> QED
  BY <1>10

\* stateOwnerMap.remove kills one live id.
LEMMA RemoveOwnerDrops ==
    ASSUME CInv, NEW t \in Thread, RemoveOwner(t)
    PROVE  (\E x \in StateId : Life!Drop(x)) \/ UNCHANGED Life!vars
<1>1. PICK x \in todo[t] :
          IF owner[x] = at[t]
          THEN owner' = [owner EXCEPT ![x] = None] /\ Goto(t, "forget")
          ELSE UNCHANGED <<owner, pc>>
  BY DEF RemoveOwner
<1>2. /\ pc[t] = "unown"
      /\ UNCHANGED <<sessionMap, closing, pending, at, issued>>
  BY DEF RemoveOwner, clientVars, resultVars
<1>3. /\ pc \in [Thread -> Label] /\ owner \in [StateId -> Session \union {None}]
      /\ x \in StateId
  BY DEF CInv, IInv, TypeOK
<1>4. Moves(t)
  BY <1>1, <1>2, <1>3 DEF Moves, Goto
<1>5. CASE owner[x] # at[t]
  BY <1>1, <1>2, <1>4, <1>5, Invisible
<1>6. CASE owner[x] = at[t]
  <2>1. at[t] \in Session /\ lock[at[t]] = t
    BY <1>2 DEF CInv, IInv, LockInv, Critical
  <2>2. ~Emptied(at[t])
    BY <1>2, <2>1 DEF Emptied, CInv, IInv, LockInv, Critical
  <2>3. AbstractLive(x) /\ x \in issued /\ \A u \in Thread : x \notin pending[u]
    BY <1>3, <1>6, <2>1, <2>2, LiveIsIssued, NoneAssumption DEF AbstractLive
  <2>4. \A y \in StateId : AbstractLive(y)' <=> y # x /\ AbstractLive(y)
    BY <1>1, <1>3, <1>4, <1>6, MovesKeepEmptied DEF AbstractLive
  <2>5. lifeBar[x] = "live" /\ lifeBar' = [y \in StateId |-> IF y \in {x} THEN "dead" ELSE lifeBar[y]]
    BY <1>2, <1>3, <2>3, <2>4 DEF lifeBar
  <2>6. homeBar' = [y \in StateId |-> IF y \in {x} THEN None ELSE homeBar[y]]
    BY <1>1, <1>3, <1>6, <2>4 DEF homeBar
  <2>7. phaseBar' = phaseBar
    BY <1>2 DEF phaseBar
  <2>8. Life!Drop(x)
    BY <2>5, <2>6, <2>7 DEF Life!Drop, Life!Kill, phaseBar, lifeBar, homeBar
  <2> QED
    BY <1>3, <2>8
<1> QED
  BY <1>5, <1>6

\* Collecting the owned ids under the lock kills all of them in one instant: from
\* then on every other call has to wait for the lock and finds them gone.
LEMMA CollectingEmpties ==
    ASSUME CInv, NEW t \in Thread, pc[t] = "locked", pc' = [pc EXCEPT ![t] = "disown"],
           ~closing[at[t]], UNCHANGED <<sessionMap, owner, pending, at, issued>>
    PROVE  \E s \in Session :
              /\ s = at[t] /\ phaseBar[s] = "open"
              /\ lifeBar' = [x \in StateId |-> IF homeBar[x] = s THEN "dead" ELSE lifeBar[x]]
              /\ homeBar' = [x \in StateId |-> IF homeBar[x] = s THEN None ELSE homeBar[x]]
<1>1. PICK s \in Session : s = at[t] /\ lock[s] = t
  BY DEF CInv, IInv, LockInv, Critical
<1>2. s \in sessionMap
  BY <1>1 DEF CInv, IInv, ClosingInv, Critical
<1>3. phaseBar[s] = "open"
  BY <1>1, <1>2 DEF phaseBar
<1>4. pc \in [Thread -> Label] /\ owner \in [StateId -> Session \union {None}]
  BY DEF CInv, IInv, TypeOK
<1>5. \A r : Emptied(r)' <=> r = s \/ Emptied(r)
  BY <1>1, <1>4 DEF Emptied
<1>6. \A x \in StateId : AbstractLive(x)' <=> AbstractLive(x) /\ owner[x] # s
  BY <1>5 DEF AbstractLive
<1>7. \A x \in StateId : homeBar[x] = s <=> AbstractLive(x) /\ owner[x] = s
  BY NoneAssumption DEF homeBar
<1>8. \A x \in StateId : AbstractLive(x) => x \in issued /\ \A u \in Thread : x \notin pending[u]
  BY LiveIsIssued DEF AbstractLive
<1>9. lifeBar' = [x \in StateId |-> IF homeBar[x] = s THEN "dead" ELSE lifeBar[x]]
  BY <1>6, <1>7, <1>8 DEF lifeBar
<1>10. homeBar' = [x \in StateId |-> IF homeBar[x] = s THEN None ELSE homeBar[x]]
  BY <1>6, <1>7 DEF homeBar
<1> QED
  BY <1>1, <1>3, <1>9, <1>10

\* dropAllStates
LEMMA DropAllStatesEmpties ==
    ASSUME CInv, NEW t \in Thread, EnterDropAllStates(t)
    PROVE  \E s \in Session : Life!DropAll(s)
<1>1. /\ pc[t] = "locked" /\ pc' = [pc EXCEPT ![t] = "disown"] /\ ~closing[at[t]]
      /\ UNCHANGED <<sessionMap, closing, owner, pending, at, issued>>
  BY DEF EnterDropAllStates, Goto, globalVars, clientVars, resultVars
<1>2. PICK s \in Session :
         /\ s = at[t] /\ phaseBar[s] = "open"
         /\ lifeBar' = [x \in StateId |-> IF homeBar[x] = s THEN "dead" ELSE lifeBar[x]]
         /\ homeBar' = [x \in StateId |-> IF homeBar[x] = s THEN None ELSE homeBar[x]]
  BY <1>1, CollectingEmpties
<1>3. phaseBar' = phaseBar
  BY <1>1 DEF phaseBar
<1>4. Life!DropAll(s)
  BY <1>2, <1>3 DEF Life!DropAll, Life!Kill, Life!Residents, phaseBar, lifeBar, homeBar
<1> QED
  BY <1>4

\* destroySession
LEMMA DestroySessionCloses ==
    ASSUME CInv, NEW t \in Thread, EnterDestroySession(t)
    PROVE  \E s \in Session : Life!Close(s)
<1>1. /\ pc[t] = "locked" /\ pc' = [pc EXCEPT ![t] = "disown"] /\ ~closing[at[t]]
      /\ closing' = [closing EXCEPT ![at[t]] = TRUE]
      /\ UNCHANGED <<sessionMap, owner, pending, at, issued>>
  BY DEF EnterDestroySession, Goto, clientVars, resultVars
<1>2. PICK s \in Session :
         /\ s = at[t] /\ phaseBar[s] = "open"
         /\ lifeBar' = [x \in StateId |-> IF homeBar[x] = s THEN "dead" ELSE lifeBar[x]]
         /\ homeBar' = [x \in StateId |-> IF homeBar[x] = s THEN None ELSE homeBar[x]]
  BY <1>1, CollectingEmpties
<1>3. closing \in [Session -> BOOLEAN]
  BY DEF CInv, IInv, TypeOK
<1>4. phaseBar' = [phaseBar EXCEPT ![s] = "closed"]
  BY <1>1, <1>2, <1>3 DEF phaseBar
<1>5. Life!Close(s)
  BY <1>2, <1>4 DEF Life!Close, Life!Kill, Life!Residents, phaseBar, lifeBar, homeBar
<1> QED
  BY <1>5

\* Removing the owners of a session that counts as emptied is invisible.
LEMMA DisownInvisible ==
    ASSUME CInv, NEW t \in Thread, DisownState(t)
    PROVE  UNCHANGED Life!vars
<1>1. PICK x \in todo[t] :
          owner' = IF owner[x] = at[t] THEN [owner EXCEPT ![x] = None] ELSE owner
  BY DEF DisownState
<1>2. pc[t] = "disown" /\ UNCHANGED <<sessionMap, closing, pending, pc, at, issued>>
  BY DEF DisownState, clientVars, resultVars
<1>3. owner \in [StateId -> Session \union {None}] /\ x \in StateId
  BY DEF CInv, IInv, TypeOK
<1>4. \A r : Emptied(r)' <=> Emptied(r)
  BY <1>2 DEF Emptied
<1>5. Emptied(at[t])
  BY <1>2 DEF Emptied
<1>6. \A y \in StateId : /\ AbstractLive(y)' <=> AbstractLive(y)
                         /\ AbstractLive(y) => owner'[y] = owner[y]
  BY <1>1, <1>3, <1>4, <1>5 DEF AbstractLive
<1>7. phaseBar' = phaseBar /\ lifeBar' = lifeBar /\ homeBar' = homeBar
  BY <1>2, <1>6 DEF phaseBar, lifeBar, homeBar
<1> QED
  BY <1>7 DEF Life!vars, phaseBar, lifeBar, homeBar

\* When the tables are cleared nothing is owned any more, so the end of the
\* emptying is invisible.
LEMMA ClearInvisible ==
    ASSUME CInv, NEW t \in Thread, ClearStates(t)
    PROVE  UNCHANGED Life!vars
<1>1. /\ pc[t] = "disown" /\ todo[t] = {}
      /\ UNCHANGED <<sessionMap, closing, owner, pending, at, issued>>
      /\ \E l \in {"close", "OK"} : pc' = [pc EXCEPT ![t] = l]
  BY DEF ClearStates, Goto, Leave, clientVars, resultVars
<1>2. \A x \in StateId : owner[x] # at[t]
  BY <1>1 DEF CInv, IInv, ProgInv, Owned
<1>3. pc \in [Thread -> Label]
  BY DEF CInv, IInv, TypeOK
<1>4. \A r : r # at[t] => (Emptied(r)' <=> Emptied(r))
  BY <1>1, <1>3 DEF Emptied
<1>5. \A x \in StateId : AbstractLive(x)' <=> AbstractLive(x)
  BY <1>1, <1>2, <1>4 DEF AbstractLive
<1>6. phaseBar' = phaseBar /\ lifeBar' = lifeBar /\ homeBar' = homeBar
  BY <1>1, <1>5 DEF phaseBar, lifeBar, homeBar
<1> QED
  BY <1>6 DEF Life!vars, phaseBar, lifeBar, homeBar

\* A session that leaves sessionMap was closed before.
LEMMA CloseInvisible ==
    ASSUME CInv, NEW t \in Thread, CloseSession(t)
    PROVE  UNCHANGED Life!vars
<1>1. /\ pc[t] = "close" /\ UNCHANGED <<closing, owner, pending, at, issued>>
      /\ \E l \in {"OK", "FAILED"} : pc' = [pc EXCEPT ![t] = l]
      /\ \A s : s # at[t] => (s \in sessionMap' <=> s \in sessionMap)
  BY DEF CloseSession, Goto, Leave, clientVars, resultVars
<1>2. closing[at[t]]
  BY <1>1 DEF CInv, IInv, ClosingInv
<1>3. pc \in [Thread -> Label]
  BY DEF CInv, IInv, TypeOK
<1>4. Moves(t)
  BY <1>1, <1>3 DEF Moves
<1>5. \A x \in StateId : AbstractLive(x)' <=> AbstractLive(x)
  BY <1>1, <1>4, MovesKeepEmptied DEF AbstractLive
<1>6. phaseBar' = phaseBar
  BY <1>1, <1>2 DEF phaseBar
<1>7. lifeBar' = lifeBar /\ homeBar' = homeBar
  BY <1>1, <1>5 DEF lifeBar, homeBar
<1> QED
  BY <1>6, <1>7 DEF Life!vars, phaseBar, lifeBar, homeBar

\* Every step is one of StateLife, or a step no client can tell from none.
LEMMA Simulation ==
    ASSUME CInv, [Next]_vars
    PROVE  [Life!Next]_(Life!vars)
<1>t. pc \in [Thread -> Label] /\ at \in [Thread -> Session \union {None}]
  BY DEF CInv, IInv, TypeOK
<1>1. CASE UNCHANGED vars
  <2>1. phaseBar' = phaseBar /\ lifeBar' = lifeBar /\ homeBar' = homeBar
    BY <1>1 DEF vars, globalVars, clientVars, resultVars, phaseBar, lifeBar, homeBar, AbstractLive,
                Emptied
  <2> QED
    BY <2>1 DEF Life!vars, phaseBar, lifeBar, homeBar
<1>2. ASSUME NEW t \in Thread, Issue(t) \/ Step(t)
      PROVE  Life!Next \/ UNCHANGED Life!vars
  <2>1. CASE CallCreate(t)
    <3>1. /\ Moves(t) /\ UNCHANGED <<sessionMap, closing, owner, pending>>
          /\ UNCHANGED issued
      BY <2>1, <1>t DEF CallCreate, Call, Moves, Goto, Leave, globalVars, clientVars,
         resultVars
    <3> QED
      BY <3>1, Invisible
  <2>2. CASE CallSession(t)
    <3>1. /\ Moves(t) /\ UNCHANGED <<sessionMap, closing, owner, pending>>
          /\ UNCHANGED issued
      BY <2>2, <1>t DEF CallSession, Call, Moves, Goto, Leave, globalVars, clientVars,
         resultVars
    <3> QED
      BY <3>1, Invisible
  <2>3. CASE CallState(t)
    <3>1. /\ Moves(t) /\ UNCHANGED <<sessionMap, closing, owner, pending>>
          /\ UNCHANGED issued
      BY <2>3, <1>t DEF CallState, Call, Moves, Goto, Leave, globalVars, clientVars,
         resultVars
    <3> QED
      BY <3>1, Invisible
  <2>4. CASE CallDrop(t)
    <3>1. /\ Moves(t) /\ UNCHANGED <<sessionMap, closing, owner, pending>>
          /\ UNCHANGED issued
      BY <2>4, <1>t DEF CallDrop, Call, Moves, Goto, Leave, globalVars, clientVars,
         resultVars
    <3> QED
      BY <3>1, Invisible
  <2>5. CASE BootSession(t)
    <3>1. /\ Moves(t) /\ UNCHANGED <<sessionMap, closing, owner, pending>>
      BY <2>5, <1>t DEF BootSession, Moves, Goto, resultVars
    <3>2. \A x \in StateId : x \in issued' <=> x \in issued
      BY <2>5, IdAssumption DEF BootSession
    <3> QED
      BY <3>1, <3>2, Invisible
  <2>6. CASE EnterSession(t)
    <3>1. /\ pc[t] = "enter" /\ UNCHANGED <<closing, owner, pending, issued, at>>
          /\ \/ sessionMap' = sessionMap /\ Goto(t, "FAILED")
             \/ sessionMap' = sessionMap \union {at[t]} /\ Goto(t, "OK")
      BY <2>6 DEF EnterSession, clientVars, resultVars
    <3>2. Moves(t)
      BY <3>1, <1>t DEF Moves, Goto
    <3>3. CASE sessionMap' = sessionMap
      BY <3>1, <3>2, <3>3, Invisible
    <3>4. CASE sessionMap' = sessionMap \union {at[t]}
      BY <3>1, <3>2, <3>4, EnterSessionOpens DEF Life!Next
    <3> QED
      BY <3>1, <3>3, <3>4
  <2>7. CASE LookupOwner(t)
    <3>1. /\ Moves(t) /\ UNCHANGED <<sessionMap, closing, owner, pending>>
          /\ UNCHANGED issued
      BY <2>7, <1>t DEF LookupOwner, Moves, Goto, Leave, globalVars, clientVars,
         resultVars
    <3> QED
      BY <3>1, Invisible
  <2>8. CASE LookupSession(t)
    <3>1. /\ Moves(t) /\ UNCHANGED <<sessionMap, closing, owner, pending>>
          /\ UNCHANGED issued
      BY <2>8, <1>t DEF LookupSession, OnlyMoves, Moves, Goto, Leave, globalVars,
         clientVars, resultVars
    <3> QED
      BY <3>1, Invisible
  <2>9. CASE Acquire(t)
    <3>1. /\ Moves(t) /\ UNCHANGED <<sessionMap, closing, owner, pending>>
          /\ UNCHANGED issued
      BY <2>9, <1>t DEF Acquire, OnlyLeaves, Moves, Goto, Leave, globalVars, clientVars,
         resultVars
    <3> QED
      BY <3>1, Invisible
  <2>10. CASE RejectClosing(t)
    <3>1. /\ Moves(t) /\ UNCHANGED <<sessionMap, closing, owner, pending>>
          /\ UNCHANGED issued
      BY <2>10, <1>t DEF RejectClosing, OnlyLeaves, Moves, Goto, Leave, globalVars,
         clientVars, resultVars
    <3> QED
      BY <3>1, Invisible
  <2>11. CASE RejectDeadState(t)
    <3>1. /\ Moves(t) /\ UNCHANGED <<sessionMap, closing, owner, pending>>
          /\ UNCHANGED issued
      BY <2>11, <1>t DEF RejectDeadState, OnlyLeaves, Moves, Goto, Leave, globalVars,
         clientVars, resultVars
    <3> QED
      BY <3>1, Invisible
  <2>12. CASE EnterBody(t)
    <3>1. /\ Moves(t) /\ UNCHANGED <<sessionMap, closing, owner, pending>>
          /\ UNCHANGED issued
      BY <2>12, <1>t DEF EnterBody, OnlyMoves, Moves, Goto, Leave, globalVars, clientVars,
         resultVars
    <3> QED
      BY <3>1, Invisible
  <2>13. CASE BodyFails(t)
    <3>1. /\ Moves(t) /\ UNCHANGED <<sessionMap, closing, owner, pending>>
          /\ UNCHANGED issued
      BY <2>13, <1>t DEF BodyFails, OnlyLeaves, Moves, Goto, Leave, globalVars,
         clientVars, resultVars
    <3> QED
      BY <3>1, Invisible
  <2>14. CASE LoadTheory(t)
    <3>1. /\ Moves(t) /\ UNCHANGED <<sessionMap, closing, owner, pending>>
          /\ UNCHANGED issued
      BY <2>14, <1>t DEF LoadTheory, Moves, Goto, Leave, globalVars, clientVars,
         resultVars
    <3> QED
      BY <3>1, Invisible
  <2>15. CASE ComputeInitState(t)
    <3>1. /\ pc[t] = "body" /\ UNCHANGED <<sessionMap, closing, owner, at>>
          /\ \/ (\E X \in SUBSET (StateId \ issued) : \E k : Computed(t, X, {}, k)) /\ Goto(t, "store")
             \/ Goto(t, "FAILED") /\ UNCHANGED <<issued, pending>>
      BY <2>15, InitStateEffect
    <3>2. Moves(t)
      BY <3>1, <1>t DEF Moves, Goto
    <3>3. CASE UNCHANGED <<issued, pending>>
      BY <3>1, <3>2, <3>3, Invisible
    <3>4. ASSUME NEW X \in SUBSET (StateId \ issued), NEW k, Computed(t, X, {}, k) PROVE Life!Next
      BY <3>1, <3>2, <3>4, ComputedDraws DEF Life!Next
    <3> QED
      BY <3>1, <3>3, <3>4
  <2>16. CASE ComputeExecute(t)
    <3>1. pc[t] = "body" /\ UNCHANGED <<sessionMap, closing, owner, at>> /\ Moves(t)
      BY <2>16, <1>t DEF ComputeExecute, Moves, Goto, globalVars
    <3>2. \E x \in StateId \ issued : \E F \in SUBSET {x} : Computed(t, {x}, F, None)
      BY <2>16 DEF ComputeExecute
    <3>3. ASSUME NEW X \in SUBSET (StateId \ issued), NEW F, Computed(t, X, F, None) PROVE Life!Next
      BY <3>1, <3>3, ComputedDraws DEF Life!Next
    <3>4. ASSUME NEW x \in StateId \ issued, NEW F, Computed(t, {x}, F, None) PROVE Life!Next
      <4>1. {x} \in SUBSET (StateId \ issued)
        OBVIOUS
      <4> QED
        BY <4>1, <3>3, <3>4
    <3> QED
      BY <3>2, <3>4
  <2>17. CASE ComputeExecuteBatch(t)
    <3>1. pc[t] = "body" /\ UNCHANGED <<sessionMap, closing, owner, at>> /\ Moves(t)
      BY <2>17, <1>t DEF ComputeExecuteBatch, Moves, Goto, globalVars
    <3>2. \E X \in SUBSET (StateId \ issued) : \E F \in SUBSET X : Computed(t, X, F, None)
      BY <2>17 DEF ComputeExecuteBatch
    <3>3. ASSUME NEW X \in SUBSET (StateId \ issued), NEW F, Computed(t, X, F, None) PROVE Life!Next
      BY <3>1, <3>3, ComputedDraws DEF Life!Next
    <3> QED
      BY <3>2, <3>3
  <2>18. CASE ComputeRunSledgehammer(t)
    <3>1. pc[t] = "body" /\ UNCHANGED <<sessionMap, closing, owner, at>> /\ Moves(t)
      BY <2>18, <1>t DEF ComputeRunSledgehammer, Moves, Goto, globalVars
    <3>2. \/ Computed(t, {}, {}, None)
          \/ \E x \in StateId \ issued : \E F \in SUBSET {x} : Computed(t, {x}, F, None)
      BY <2>18 DEF ComputeRunSledgehammer
    <3>3. ASSUME NEW X \in SUBSET (StateId \ issued), NEW F, Computed(t, X, F, None) PROVE Life!Next
      BY <3>1, <3>3, ComputedDraws DEF Life!Next
    <3>4. ASSUME NEW x \in StateId \ issued, NEW F, Computed(t, {x}, F, None) PROVE Life!Next
      <4>1. {x} \in SUBSET (StateId \ issued)
        OBVIOUS
      <4> QED
        BY <4>1, <3>3, <3>4
    <3>5. ASSUME Computed(t, {}, {}, None) PROVE Life!Next
      <4>1. {} \in SUBSET (StateId \ issued)
        OBVIOUS
      <4> QED
        BY <4>1, <3>3, <3>5
    <3> QED
      BY <3>2, <3>4, <3>5
  <2>19. CASE GetStateInfo(t)
    <3>1. /\ Moves(t) /\ UNCHANGED <<sessionMap, closing, owner, pending>>
          /\ UNCHANGED issued
      BY <2>19, <1>t DEF GetStateInfo, OnlyLeaves, Moves, Goto, Leave, globalVars,
         clientVars, resultVars
    <3> QED
      BY <3>1, Invisible
  <2>20. CASE StoreState(t)
    <3>1. /\ Moves(t) /\ UNCHANGED <<sessionMap, closing, owner, pending>>
          /\ UNCHANGED issued
      BY <2>20, <1>t DEF StoreState, Moves, Goto, Leave, globalVars, clientVars,
         resultVars
    <3> QED
      BY <3>1, Invisible
  <2>21. CASE PublishOwner(t)
    BY <2>21, PublishOwnerPublishes DEF Life!Next
  <2>22. CASE BuildStateResult(t)
    <3>1. /\ Moves(t) /\ UNCHANGED <<sessionMap, closing, owner, pending>>
          /\ UNCHANGED issued
      BY <2>22, <1>t DEF BuildStateResult, Moves, Goto, Leave, globalVars, clientVars,
         resultVars
    <3> QED
      BY <3>1, Invisible
  <2>23. CASE Registered(t)
    <3>1. /\ Moves(t) /\ UNCHANGED <<sessionMap, closing, owner, pending>>
          /\ UNCHANGED issued
      BY <2>23, <1>t DEF Registered, Moves, Goto, Leave, globalVars, clientVars,
         resultVars
    <3> QED
      BY <3>1, Invisible
  <2>24. CASE GroupByOwner(t)
    <3>1. /\ Moves(t) /\ UNCHANGED <<sessionMap, closing, owner, pending>>
          /\ UNCHANGED issued
      BY <2>24, <1>t DEF GroupByOwner, Moves, Goto, Leave, globalVars, clientVars,
         resultVars
    <3> QED
      BY <3>1, Invisible
  <2>25. CASE Grouped(t)
    <3>1. /\ Moves(t) /\ UNCHANGED <<sessionMap, closing, owner, pending>>
          /\ UNCHANGED issued
      BY <2>25, <1>t DEF Grouped, OnlyMoves, Moves, Goto, Leave, globalVars, clientVars,
         resultVars
    <3> QED
      BY <3>1, Invisible
  <2>26. CASE NextGroup(t)
    <3>1. /\ Moves(t) /\ UNCHANGED <<sessionMap, closing, owner, pending>>
          /\ UNCHANGED issued
      BY <2>26, <1>t DEF NextGroup, Moves, Goto, Leave, globalVars, clientVars, resultVars
    <3> QED
      BY <3>1, Invisible
  <2>27. CASE NoMoreGroups(t)
    <3>1. /\ Moves(t) /\ UNCHANGED <<sessionMap, closing, owner, pending>>
          /\ UNCHANGED issued
      BY <2>27, <1>t DEF NoMoreGroups, OnlyMoves, Moves, Goto, Leave, globalVars,
         clientVars, resultVars
    <3> QED
      BY <3>1, Invisible
  <2>28. CASE EnterDrop(t)
    <3>1. /\ Moves(t) /\ UNCHANGED <<sessionMap, closing, owner, pending>>
          /\ UNCHANGED issued
      BY <2>28, <1>t DEF EnterDrop, OnlyMoves, Moves, Goto, Leave, globalVars, clientVars,
         resultVars
    <3> QED
      BY <3>1, Invisible
  <2>29. CASE RemoveOwner(t)
    BY <2>29, RemoveOwnerDrops DEF Life!Next
  <2>30. CASE ForgetState(t)
    <3>1. /\ Moves(t) /\ UNCHANGED <<sessionMap, closing, owner, pending>>
          /\ UNCHANGED issued
      BY <2>30, <1>t DEF ForgetState, Moves, Goto, Leave, globalVars, clientVars,
         resultVars
    <3> QED
      BY <3>1, Invisible
  <2>31. CASE Dropped(t)
    <3>1. /\ Moves(t) /\ UNCHANGED <<sessionMap, closing, owner, pending>>
          /\ UNCHANGED issued
      BY <2>31, <1>t DEF Dropped, OnlyLeaves, Moves, Goto, Leave, globalVars, clientVars,
         resultVars
    <3> QED
      BY <3>1, Invisible
  <2>32. CASE EnterDropAllStates(t)
    BY <2>32, DropAllStatesEmpties DEF Life!Next
  <2>33. CASE EnterDestroySession(t)
    BY <2>33, DestroySessionCloses DEF Life!Next
  <2>34. CASE DisownState(t)
    BY <2>34, DisownInvisible
  <2>35. CASE ClearStates(t)
    BY <2>35, ClearInvisible
  <2>36. CASE CloseSession(t)
    BY <2>36, CloseInvisible
  <2>37. CASE Return(t)
    BY <2>37, ReturnDiscards DEF Life!Next
  <2> QED
    BY <1>2, <2>1, <2>2, <2>3, <2>4, <2>5, <2>6, <2>7, <2>8, <2>9, <2>10, <2>11, <2>12,
       <2>13, <2>14, <2>15, <2>16, <2>17, <2>18, <2>19, <2>20, <2>21, <2>22, <2>23, <2>24,
       <2>25, <2>26, <2>27, <2>28, <2>29, <2>30, <2>31, <2>32, <2>33, <2>34, <2>35, <2>36,
       <2>37
       DEF Issue, Step
<1> QED
  BY <1>1, <1>2 DEF Next, Quiet

\* A server without sessions and ids is one of StateLife.
LEMMA InitMaps == Init => Life!Init
<1> SUFFICES ASSUME Init PROVE Life!Init
  OBVIOUS
<1>1. /\ phaseBar = [s \in Session |-> "new"]
      /\ lifeBar = [x \in StateId |-> "unborn"]
      /\ homeBar = [x \in StateId |-> None]
  BY DEF Init, phaseBar, lifeBar, homeBar, AbstractLive
<1> QED
  BY <1>1 DEF Life!Init, phaseBar, lifeBar, homeBar

\* The server is linearizable: an id is published once, into an open session, and
\* a dead one never returns; drop_all_states and destroy_session act in one
\* instant, for any number of calls, sessions and states.
THEOREM ServerImplementsStateLife == Spec => Linearizable
<1>1. CInv /\ [Next]_vars => [Life!Next]_(Life!vars)
  BY Simulation
<1> QED
  BY <1>1, InitMaps, CallsInductive, PTL DEF Spec, Linearizable, Life!Spec
=============================================================================

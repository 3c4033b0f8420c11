---------------------------- MODULE MCReplServer ----------------------------
(* TLC instances of ReplServer.                                            *)
EXTENDS ReplServer, TLC

CONSTANTS t1, t2, s1, s2, x1, x2, x3, p1

\* UUIDs and call slots are interchangeable.
Symmetry == Permutations(Thread) \union Permutations(Session) \union Permutations(StateId)

\* Two call slots may be exchanged in a state that names sessions and states.
ThreadSymmetry == Permutations(Thread)

\* A server that has been in use: two sessions are open and a client holds a
\* state of the first, obtained by init_state at line 1 of theory p1 (the state
\* Init reaches by createSession, twice, and initState).
WarmInit ==
    /\ sessionMap = {s1, s2}
    /\ running = {s1, s2}
    /\ closing = [s \in Session |-> FALSE]
    /\ lock = [s \in Session |-> None]
    /\ owner = [x \in StateId |-> IF x = x1 THEN s1 ELSE None]
    /\ stateMap = [s \in Session |-> IF s = s1 THEN {x1} ELSE {}]
    /\ theoryCache = [s \in Session |-> IF s = s1 THEN {p1} ELSE {}]
    /\ initCache = [s \in Session |-> [k \in Key |->
                       IF s = s1 /\ k = <<p1, 1>> THEN x1 ELSE None]]
    /\ initCacheKeys = [s \in Session |-> [x \in StateId |->
                           IF x \in stateMap[s] THEN <<p1, 1>> ELSE None]]
    /\ issued = {s1, s2, x1}
    /\ known = {s1, s2, x1}
    /\ calls = 0
    /\ pc = [t \in Thread |-> "idle"]
    /\ req = [t \in Thread |-> NoRequest]
    /\ at = [t \in Thread |-> None]
    /\ pending = [t \in Thread |-> {}]
    /\ results = [t \in Thread |-> {}]
    /\ failed = [t \in Thread |-> {}]
    /\ key = [t \in Thread |-> None]
    /\ cur = [t \in Thread |-> None]
    /\ todo = [t \in Thread |-> {}]
    /\ groups = [t \in Thread |-> {}]

\* Linearizable for a server that has been in use: every step is one of StateLife.
WarmLinearizable == [][Life!Next]_(Life!vars)

WarmSpec == WarmInit /\ [][Next]_vars
WarmFairSpec == WarmSpec /\ \A t \in Thread : WF_vars(Step(t))
=============================================================================

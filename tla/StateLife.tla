------------------------------ MODULE StateLife ------------------------------
(***************************************************************************)
(* What the REPL server promises its clients about state ids, with every   *)
(* operation atomic and no locks, maps or caches: an id is drawn once,     *)
(* becomes live in one open session, and dies for good; drop_all_states    *)
(* and destroy_session kill all states of a session in one instant, and a  *)
(* session that was closed never has a live state again.                   *)
(***************************************************************************)
EXTENDS Naturals

CONSTANTS Session, StateId, None

VARIABLES
    phase,  \* of each session: "new", "open" or "closed"
    life,   \* of each state id: "unborn", "drawn", "live" or "dead"
    home    \* the session of each live state id

vars == <<phase, life, home>>

Init ==
    /\ phase = [s \in Session |-> "new"]
    /\ life = [x \in StateId |-> "unborn"]
    /\ home = [x \in StateId |-> None]

Open(s) ==
    /\ phase[s] = "new"
    /\ phase' = [phase EXCEPT ![s] = "open"]
    /\ UNCHANGED <<life, home>>

\* The UUIDs of one computation are drawn before any of them is usable.
Draw(X) ==
    /\ \A x \in X : life[x] = "unborn"
    /\ life' = [x \in StateId |-> IF x \in X THEN "drawn" ELSE life[x]]
    /\ UNCHANGED <<phase, home>>

\* The call that drew them failed before they became usable.
Discard(X) ==
    /\ \A x \in X : life[x] = "drawn"
    /\ life' = [x \in StateId |-> IF x \in X THEN "dead" ELSE life[x]]
    /\ UNCHANGED <<phase, home>>

Publish(s, x) ==
    /\ phase[s] = "open"
    /\ life[x] = "drawn"
    /\ life' = [life EXCEPT ![x] = "live"]
    /\ home' = [home EXCEPT ![x] = s]
    /\ UNCHANGED phase

Kill(X) ==
    /\ life' = [x \in StateId |-> IF x \in X THEN "dead" ELSE life[x]]
    /\ home' = [x \in StateId |-> IF x \in X THEN None ELSE home[x]]

Residents(s) == {x \in StateId : home[x] = s}

Drop(x) ==
    /\ life[x] = "live"
    /\ Kill({x})
    /\ UNCHANGED phase

DropAll(s) ==
    /\ phase[s] = "open"
    /\ Kill(Residents(s))
    /\ UNCHANGED phase

Close(s) ==
    /\ phase[s] = "open"
    /\ phase' = [phase EXCEPT ![s] = "closed"]
    /\ Kill(Residents(s))

Next ==
    \/ \E s \in Session : Open(s) \/ DropAll(s) \/ Close(s)
    \/ \E X \in SUBSET StateId : Draw(X) \/ Discard(X)
    \/ \E x \in StateId : Drop(x) \/ \E s \in Session : Publish(s, x)

Spec == Init /\ [][Next]_vars
=============================================================================

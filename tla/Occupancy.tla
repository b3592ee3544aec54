----------------------------- MODULE Occupancy -----------------------------
(***************************************************************************)
(* What a Host promises about the grants it occupies (execenv.Host,        *)
(* src/execenv.go): an id holds at most one environment, an environment    *)
(* is set up at most once and never comes back after it was given up, and  *)
(* no more than Slots ids are held, counting the ones still starting.      *)
(* The isolated host starts an environment in two steps, Reserve and       *)
(* Commit; the memory host grants it in one.                               *)
(***************************************************************************)
EXTENDS Naturals, FiniteSets

CONSTANTS
    ID,      \* the ids callers may choose
    Env,     \* the identities of the environments that may ever be created
    None,    \* no environment
    Slots    \* how many ids the host takes at once

\* What the theorems about the contract suppose of the constants.
OccupancyAssumption ==
    /\ IsFiniteSet(ID)
    /\ None \notin Env
    /\ Slots \in Nat \ {0}

VARIABLES
    holder,  \* holder[id]: the environment that occupies id, or None
    live,    \* the environments that callers may be handed
    used     \* the environments created so far

vars == <<holder, live, used>>

Held == {id \in ID : holder[id] # None}

----------------------------------------------------------------------------

\* The id is free, and so is a slot.
SlotFree(id) == holder[id] = None /\ Cardinality(Held) < Slots

\* The environment never existed.
Fresh(e) == e \notin used

\* What callers may be handed when the environment of id is given up.
LiveWithout(id) == live \ {holder[id]}

Init ==
    /\ holder = [id \in ID |-> None]
    /\ live = {}
    /\ used = {}

\* Takes a slot for a new environment, which nobody is handed yet.
Reserve(id, e) ==
    /\ SlotFree(id)
    /\ Fresh(e)
    /\ holder' = [holder EXCEPT ![id] = e]
    /\ used' = used \cup {e}
    /\ UNCHANGED live

\* The environment came up.
Commit(id) ==
    /\ holder[id] # None
    /\ holder[id] \notin live
    /\ live' = live \cup {holder[id]}
    /\ UNCHANGED <<holder, used>>

\* Both at once.
Grant(id, e) ==
    /\ SlotFree(id)
    /\ Fresh(e)
    /\ holder' = [holder EXCEPT ![id] = e]
    /\ used' = used \cup {e}
    /\ live' = live \cup {e}

\* The environment failed to come up, or was revoked.
Release(id) ==
    /\ holder[id] # None
    /\ holder' = [holder EXCEPT ![id] = None]
    /\ live' = LiveWithout(id)
    /\ UNCHANGED used

\* The process that keeps the grants died: all of them are gone.
Vanish ==
    /\ holder' = [id \in ID |-> None]
    /\ live' = {}
    /\ UNCHANGED used

Next ==
    \/ \E id \in ID, e \in Env : Reserve(id, e) \/ Grant(id, e)
    \/ \E id \in ID : Commit(id) \/ Release(id)
    \/ Vanish

Spec == Init /\ [][Next]_vars

----------------------------------------------------------------------------

TypeOK ==
    /\ holder \in [ID -> Env \cup {None}]
    /\ live \subseteq Env
    /\ used \subseteq Env

\* The host never holds more ids than it has slots.
WithinSlots == Cardinality(Held) <= Slots

\* No environment occupies two ids, and what callers are handed occupies one.
OneHome ==
    /\ \A i, j \in ID : holder[i] # None /\ holder[i] = holder[j] => i = j
    /\ \A e \in live : \E id \in ID : holder[id] = e
    /\ \A id \in ID : holder[id] # None => holder[id] \in used

\* An environment that was given up is never handed out again.
NoReturn ==
    [][\A e \in used : e \notin live /\ ~(\E id \in ID : holder[id] = e)
                        => e \notin live']_vars
=============================================================================

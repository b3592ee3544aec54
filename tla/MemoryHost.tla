----------------------------- MODULE MemoryHost -----------------------------
(***************************************************************************)
(* The memory host's occupancy (Ensure, Revoke and Ready of                *)
(* src/memory/memory.go).  Ensure is one section under Host.mu; Revoke     *)
(* removes the grant under Host.mu and revokes the environment after it.   *)
(* An environment that callers were handed may be revoked through it at    *)
(* any time, which revokes its id.                                         *)
(***************************************************************************)
EXTENDS Naturals, Sequences, FiniteSets

CONSTANTS
    ID,        \* grant ids
    Caller,    \* goroutines that call the host, one call at a time
    Image,     \* image names callers ask for
    Images,    \* Config.Images
    Network,   \* networks callers ask for
    Slots,     \* Config.Slots, at least one
    NoEnv,     \* nil
    MaxEnvs    \* bound: environments ever created

ASSUME MemoryHostAssumption ==
    /\ IsFiniteSet(ID)
    /\ Images \subseteq Image
    /\ Slots \in Nat \ {0}
    /\ MaxEnvs \in Nat
    /\ NoEnv \notin Nat

Envs == 1..MaxEnvs
SpecRec == [id : ID, image : Image, network : Network]

VARIABLES
    grants,   \* Host.grants
    created,  \* the specs of the environments created so far, in order
    ended,    \* environments whose revoked is set
    taking,   \* per caller: the environment its Revoke took out of the map
    through   \* per caller: the environment whose Revoke was called, or NoEnv

hostVars == <<grants, created, ended, taking, through>>

Held == {id \in ID : grants[id] # NoEnv}

----------------------------------------------------------------------------
(* Faults: what the code would do without one of its precautions.          *)

TakeStays(id) == grants
LooseFull == Cardinality(Held) > Slots

----------------------------------------------------------------------------

\* len(h.grants) >= h.slots
Full == Cardinality(Held) >= Slots

\* hasImage is TRUE, the id is free, and so is a slot.
CanGrant(s) == grants[s.id] = NoEnv /\ s.image \in Images /\ ~Full

\* An occupied id is answered with its environment or with ErrConflict; that
\* and a refused call change nothing.
Ensure(s) ==
    \/ /\ CanGrant(s)
       /\ Len(created) < MaxEnvs
       /\ created' = Append(created, s)
       /\ grants' = [grants EXCEPT ![s.id] = Len(created) + 1]
       /\ UNCHANGED <<ended, taking, through>>
    \/ ~CanGrant(s) /\ UNCHANGED hostVars

\* delete(h.grants, id)
Taken(id) == [grants EXCEPT ![id] = NoEnv]

\* Revoke up to its unlock, of the host (e is NoEnv) or of the environment e.
RevokeTake(c, id, e) ==
    /\ taking[c] = NoEnv
    /\ grants[id] # NoEnv
    /\ grants' = Taken(id)
    /\ taking' = [taking EXCEPT ![c] = grants[id]]
    /\ through' = [through EXCEPT ![c] = e]
    /\ UNCHANGED <<created, ended>>

\* environment.revoke
RevokeEnv(c) ==
    /\ taking[c] # NoEnv
    /\ ended' = ended \cup {taking[c]}
    /\ taking' = [taking EXCEPT ![c] = NoEnv]
    /\ UNCHANGED <<grants, created, through>>

HostInit ==
    /\ grants = [id \in ID |-> NoEnv]
    /\ created = <<>>
    /\ ended = {}
    /\ taking = [c \in Caller |-> NoEnv]
    /\ through = [c \in Caller |-> NoEnv]

HostNext ==
    \/ \E s \in SpecRec : Ensure(s)
    \/ \E c \in Caller, id \in ID : RevokeTake(c, id, NoEnv)
    \/ \E c \in Caller, e \in 1..Len(created) :
          RevokeTake(c, created[e].id, e)
    \/ \E c \in Caller : RevokeEnv(c)

HostSpec == HostInit /\ [][HostNext]_hostVars

----------------------------------------------------------------------------
(* Properties.                                                             *)

Home(e) == created[e].id
Takers(e) == {c \in Caller : taking[c] = e}

\* Concurrent Revokes of one id end an environment exactly once, and none is
\* forgotten: it is the grant of its own id, or one Revoke has it in hand,
\* or it is revoked.
OneFate ==
    \A e \in 1..Len(created) :
        \/ /\ grants[Home(e)] = e /\ Takers(e) = {} /\ e \notin ended
        \/ /\ grants[Home(e)] # e /\ Cardinality(Takers(e)) = 1
           /\ e \notin ended
        \/ /\ grants[Home(e)] # e /\ Takers(e) = {} /\ e \in ended

\* The memory host implements the occupancy contract.
Contract == INSTANCE Occupancy WITH
    Env <- Envs,
    None <- NoEnv,
    holder <- grants,
    live <- {grants[id] : id \in ID} \ {NoEnv},
    used <- 1..Len(created)

\* Every step of the host is a step of the contract or leaves it alone.
ImplementsOccupancy == Contract!Spec

----------------------------------------------------------------------------
(* What the code does not guarantee, although callers may expect it: the   *)
(* README describes the counterexample.                                    *)

\* "host.Revoke; also env.Revoke; both are idempotent": the Revoke of an
\* environment takes no other environment out of the map.
RevokeThroughTakesItself ==
    \A c \in Caller :
        taking[c] # NoEnv /\ through[c] # NoEnv => taking[c] = through[c]
=============================================================================

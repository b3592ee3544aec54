---------------------------- MODULE MemoryProofs ----------------------------
(***************************************************************************)
(* The memory host, for any number of ids, callers, environments, watchers *)
(* and terminals: what the occupancy contract guarantees of every host     *)
(* that implements it, that this one does and ends every environment       *)
(* exactly once, and that an environment of it loses no guest event on the *)
(* way to an observation and is quiet once it is frozen or revoked.        *)
(***************************************************************************)
EXTENDS MemoryHost, MemoryEnv, FiniteSetTheorems, TLAPS

CONSTANT Identity              \* the environments of any host
VARIABLES holder, live, used   \* the occupancy of any host

Promise == INSTANCE Occupancy WITH Env <- Identity, None <- NoEnv

----------------------------------------------------------------------------
(* The contract.                                                           *)

\* The contract is its own inductive invariant but for the identities: what
\* is live or held was created.
PromiseInv ==
    /\ Promise!TypeOK
    /\ Promise!OneHome
    /\ Promise!WithinSlots

\* An instance has its own copy of the operators it extends.
LEMMA SamePromiseSizes ==
    \A S : /\ Promise!IsFiniteSet(S) <=> IsFiniteSet(S)
           /\ Promise!Cardinality(S) = Cardinality(S)
BY DEF Promise!IsFiniteSet, IsFiniteSet, Promise!Cardinality, Cardinality

LEMMA FiniteHeld ==
    ASSUME Promise!OccupancyAssumption
    PROVE  IsFiniteSet(Promise!Held) /\ Cardinality(Promise!Held) \in Nat
<1>1. IsFiniteSet(Promise!Held)
  BY FS_Subset, SamePromiseSizes DEF Promise!OccupancyAssumption, Promise!Held
<1> QED BY <1>1, FS_CardinalityType

LEMMA TakeSlotKeepsPromise ==
    ASSUME Promise!OccupancyAssumption, PromiseInv, NEW id \in ID, NEW e \in Identity,
           Promise!SlotFree(id), Promise!Fresh(e),
           holder' = [holder EXCEPT ![id] = e],
           used' = used \cup {e},
           live' \in {live, live \cup {e}}
    PROVE  PromiseInv'
<1>1. e # NoEnv
  BY DEF Promise!OccupancyAssumption
<1>2. Promise!TypeOK'
  BY DEF PromiseInv, Promise!TypeOK
<1>3. Promise!OneHome'
  <2>1. holder[id] = NoEnv /\ e \notin used /\ holder \in [ID -> Identity \cup {NoEnv}]
    BY DEF PromiseInv, Promise!TypeOK, Promise!SlotFree, Promise!Fresh
  <2>2. \A j \in ID : holder'[j] = IF j = id THEN e ELSE holder[j]
    BY <2>1
  <2>3. \A j \in ID : holder[j] # NoEnv => holder[j] \in used
    BY DEF PromiseInv, Promise!OneHome
  <2>4. \A i, j \in ID : holder'[i] # NoEnv /\ holder'[i] = holder'[j] => i = j
    BY <1>1, <2>1, <2>2, <2>3 DEF PromiseInv, Promise!OneHome
  <2>5. \A f \in live' : \E j \in ID : holder'[j] = f
    <3> SUFFICES ASSUME NEW f \in live', f # e
                 PROVE  \E j \in ID : holder'[j] = f
      BY <2>2
    <3>1. PICK j \in ID : holder[j] = f
      BY DEF PromiseInv, Promise!OneHome
    <3>2. f # NoEnv
      BY DEF Promise!OccupancyAssumption, PromiseInv, Promise!TypeOK
    <3> QED BY <2>1, <2>2, <3>1, <3>2
  <2>6. \A j \in ID : holder'[j] # NoEnv => holder'[j] \in used'
    BY <2>2, <2>3
  <2> QED BY <2>4, <2>5, <2>6 DEF Promise!OneHome
<1>4. Promise!WithinSlots'
  <2>1. Promise!Held' = Promise!Held \cup {id} /\ id \notin Promise!Held
    BY <1>1 DEF Promise!Held, Promise!SlotFree, PromiseInv, Promise!TypeOK
  <2>2. Cardinality(Promise!Held') = Cardinality(Promise!Held) + 1
    BY <2>1, FiniteHeld, FS_AddElement
  <2> QED BY <2>2, FiniteHeld, SamePromiseSizes DEF Promise!OccupancyAssumption, Promise!SlotFree, Promise!WithinSlots
<1> QED BY <1>2, <1>3, <1>4 DEF PromiseInv

LEMMA ReleaseKeepsPromise ==
    ASSUME Promise!OccupancyAssumption, PromiseInv, NEW id \in ID, Promise!Release(id)
    PROVE  PromiseInv'
<1>1. Promise!TypeOK'
  BY DEF PromiseInv, Promise!TypeOK, Promise!Release, Promise!LiveWithout
<1>2. Promise!OneHome'
  BY DEF PromiseInv, Promise!TypeOK, Promise!OneHome, Promise!Release, Promise!LiveWithout
<1>3. Promise!WithinSlots'
  <2>1. Promise!Held' \subseteq Promise!Held
    BY DEF Promise!Held, Promise!Release, PromiseInv, Promise!TypeOK
  <2>2. Cardinality(Promise!Held') <= Cardinality(Promise!Held) /\ Cardinality(Promise!Held') \in Nat
    BY <2>1, FiniteHeld, FS_Subset, FS_CardinalityType
  <2> QED BY <2>2, FiniteHeld, SamePromiseSizes DEF Promise!OccupancyAssumption, PromiseInv, Promise!WithinSlots
<1> QED BY <1>1, <1>2, <1>3 DEF PromiseInv

LEMMA VanishKeepsPromise == ASSUME Promise!OccupancyAssumption, PromiseInv, Promise!Vanish PROVE PromiseInv'
<1>1. Promise!TypeOK' /\ Promise!OneHome'
  BY DEF PromiseInv, Promise!TypeOK, Promise!OneHome, Promise!Vanish
<1>2. Promise!Held' = {}
  BY DEF Promise!Held, Promise!Vanish
<1> QED BY <1>1, <1>2, FS_EmptySet, SamePromiseSizes DEF Promise!OccupancyAssumption, PromiseInv, Promise!WithinSlots

LEMMA CommitKeepsPromise ==
    ASSUME Promise!OccupancyAssumption, PromiseInv, NEW id \in ID, Promise!Commit(id)
    PROVE  PromiseInv'
<1>1. Promise!TypeOK' /\ Promise!OneHome'
  BY DEF PromiseInv, Promise!TypeOK, Promise!OneHome, Promise!Commit
<1> QED BY <1>1 DEF PromiseInv, Promise!WithinSlots, Promise!Held, Promise!Commit

LEMMA PromiseNextInv == ASSUME Promise!OccupancyAssumption PROVE PromiseInv /\ [Promise!Next]_Promise!vars => PromiseInv'
<1> SUFFICES ASSUME PromiseInv, [Promise!Next]_Promise!vars PROVE PromiseInv'
  OBVIOUS
<1>1. CASE UNCHANGED Promise!vars
  BY <1>1 DEF PromiseInv, Promise!TypeOK, Promise!OneHome, Promise!WithinSlots, Promise!Held, Promise!vars
<1>2. ASSUME NEW id \in ID, NEW e \in Identity, Promise!Reserve(id, e) \/ Promise!Grant(id, e)
      PROVE  PromiseInv'
  BY <1>2, TakeSlotKeepsPromise DEF Promise!Reserve, Promise!Grant
<1> QED BY <1>1, <1>2, CommitKeepsPromise, ReleaseKeepsPromise, VanishKeepsPromise DEF Promise!Next

LEMMA PromiseSpecInv == ASSUME Promise!OccupancyAssumption PROVE Promise!Spec => []PromiseInv
<1>1. Promise!Init => PromiseInv
  <2> SUFFICES ASSUME Promise!Init PROVE PromiseInv
    OBVIOUS
  <2>1. Promise!TypeOK /\ Promise!OneHome
    BY DEF Promise!Init, Promise!TypeOK, Promise!OneHome
  <2>2. Promise!Held = {}
    BY DEF Promise!Init, Promise!Held
  <2> QED BY <2>1, <2>2, FS_EmptySet, SamePromiseSizes DEF Promise!OccupancyAssumption, PromiseInv, Promise!WithinSlots
<1>2. PromiseInv /\ [Promise!Next]_Promise!vars => PromiseInv'
  BY PromiseNextInv
<1> QED BY <1>1, <1>2, PTL DEF Promise!Spec

\* A host that keeps the contract never holds more ids than it has slots.
THEOREM SlotsAreEnough == ASSUME Promise!OccupancyAssumption PROVE Promise!Spec => []Promise!WithinSlots
<1>1. PromiseInv => Promise!WithinSlots
  BY DEF PromiseInv
<1>2. Promise!Spec => []PromiseInv
  BY PromiseSpecInv
<1> QED BY <1>1, <1>2, PTL

\* A host that keeps the contract never has an environment occupy two ids.
THEOREM OneHomeEach == ASSUME Promise!OccupancyAssumption PROVE Promise!Spec => []Promise!OneHome
<1>1. PromiseInv => Promise!OneHome
  BY DEF PromiseInv
<1>2. Promise!Spec => []PromiseInv
  BY PromiseSpecInv
<1> QED BY <1>1, <1>2, PTL

\* A host that keeps the contract never hands out an environment again that
\* was given up.
THEOREM GivenUpForGood == ASSUME Promise!OccupancyAssumption PROVE Promise!Spec => Promise!NoReturn
<1>1. PromiseInv /\ [Promise!Next]_Promise!vars
        => [\A e \in used : e \notin live /\ ~(\E id \in ID : holder[id] = e)
                             => e \notin live']_Promise!vars
  <2> SUFFICES ASSUME PromiseInv, [Promise!Next]_Promise!vars, NEW e \in used, e \notin live,
                      ~(\E id \in ID : holder[id] = e), ~(UNCHANGED Promise!vars)
               PROVE  e \notin live'
    OBVIOUS
  <2> QED
    BY DEF Promise!Next, Promise!Reserve, Promise!Commit, Promise!Grant, Promise!Release, Promise!Vanish, Promise!Fresh, Promise!LiveWithout, Promise!vars
<1>2. Promise!Spec => []PromiseInv
  BY PromiseSpecInv
<1> QED BY <1>1, <1>2, PTL DEF Promise!Spec, Promise!NoReturn

----------------------------------------------------------------------------
(* The memory host.                                                        *)

Made == 1..Len(created)

HostTypeOK ==
    /\ created \in Seq(SpecRec)
    /\ grants \in [ID -> Made \cup {NoEnv}]
    /\ taking \in [Caller -> Made \cup {NoEnv}]
    /\ ended \subseteq Made

\* What the map holds for an id was created for it.
GrantsAtHome == \A id \in ID : grants[id] # NoEnv => Home(grants[id]) = id

\* What a Revoke has in hand is out of the map, not ended yet, and in no
\* other's hand.
TakenIsAlone ==
    /\ \A c \in Caller : taking[c] # NoEnv =>
          grants[Home(taking[c])] # taking[c] /\ taking[c] \notin ended
    /\ \A c, d \in Caller : taking[c] # NoEnv /\ taking[c] = taking[d] => c = d

RevokedIsOut == \A e \in ended : grants[Home(e)] # e

NoneForgotten ==
    \A e \in Made :
        grants[Home(e)] = e \/ e \in ended \/ \E c \in Caller : taking[c] = e

HostInv == HostTypeOK /\ GrantsAtHome /\ TakenIsAlone /\ RevokedIsOut /\ NoneForgotten

----------------------------------------------------------------------------

LEMMA NoneIsNoEnv == ASSUME HostTypeOK PROVE NoEnv \notin Made
BY MemoryHostAssumption DEF HostTypeOK, Made

LEMMA HomeIsID == ASSUME HostTypeOK, NEW e \in Made PROVE created[e].id \in ID
<1>1. created[e] \in SpecRec
  BY DEF HostTypeOK, Made
<1> QED BY <1>1 DEF SpecRec

\* One more environment leaves the others and their ids alone.
LEMMA OneMore ==
    ASSUME HostTypeOK, NEW s \in SpecRec, created' = Append(created, s)
    PROVE  /\ created' \in Seq(SpecRec)
           /\ Len(created) \in Nat
           /\ Len(created) + 1 \notin Made
           /\ Made' = Made \cup {Len(created) + 1}
           /\ \A e \in Made : created'[e] = created[e]
           /\ created'[Len(created) + 1] = s
<1>1. Len(created) \in Nat /\ Len(created') = Len(created) + 1
  BY DEF HostTypeOK
<1>2. Made' = Made \cup {Len(created) + 1} /\ Len(created) + 1 \notin Made
  BY <1>1 DEF Made
<1>3. \A e \in Made : created'[e] = created[e]
  BY DEF HostTypeOK, Made
<1>4. created'[Len(created) + 1] = s
  BY DEF HostTypeOK
<1>5. created' \in Seq(SpecRec)
  BY DEF HostTypeOK
<1> QED BY <1>1, <1>2, <1>3, <1>4, <1>5

LEMMA EnsureKeepsInv ==
    ASSUME HostInv, NEW s \in SpecRec, Ensure(s)
    PROVE  HostInv'
<1> DEFINE n == Len(created) + 1
<1>1. CASE UNCHANGED hostVars
  BY <1>1 DEF HostInv, HostTypeOK, Made, GrantsAtHome, TakenIsAlone, RevokedIsOut,
              NoneForgotten, Home, hostVars
<1>2. CASE /\ CanGrant(s) /\ created' = Append(created, s)
           /\ grants' = [grants EXCEPT ![s.id] = n]
           /\ UNCHANGED <<ended, taking, through>>
  <2>1. HostTypeOK /\ s.id \in ID /\ grants[s.id] = NoEnv
    BY <1>2 DEF HostInv, CanGrant, SpecRec
  <2>2. /\ Made' = Made \cup {n} /\ n \notin Made
        /\ \A e \in Made : created'[e] = created[e] /\ created[e].id \in ID
        /\ created'[n] = s /\ created' \in Seq(SpecRec)
    BY <1>2, <2>1, OneMore, HomeIsID
  <2>3. n # NoEnv /\ NoEnv \notin Made
    BY <2>1, NoneIsNoEnv, MemoryHostAssumption DEF HostTypeOK
  <2>4. \A id \in ID : grants'[id] = IF id = s.id THEN n ELSE grants[id]
    BY <1>2, <2>1 DEF HostTypeOK
  <2> HIDE DEF n
  <2>5. HostTypeOK'
    BY <1>2, <2>1, <2>2 DEF HostTypeOK
  <2>6. \A e \in Made :
          grants'[created'[e].id] = e <=> grants[created[e].id] = e
    BY <2>1, <2>2, <2>3, <2>4
  <2>7. GrantsAtHome'
    BY <2>1, <2>2, <2>4 DEF HostInv, Home, GrantsAtHome, HostTypeOK
  <2>8. \A c \in Caller : taking'[c] = taking[c] /\ taking[c] \in Made \cup {NoEnv}
    BY <1>2, <2>1 DEF HostTypeOK
  <2>9. TakenIsAlone'
    BY <1>2, <2>2, <2>6, <2>8 DEF HostInv, Home, TakenIsAlone
  <2>10. RevokedIsOut'
    BY <1>2, <2>1, <2>6 DEF HostInv, Home, RevokedIsOut, HostTypeOK
  <2>11. NoneForgotten'
    <3> SUFFICES ASSUME NEW e \in Made'
                 PROVE  \/ grants'[created'[e].id] = e \/ e \in ended'
                        \/ \E c \in Caller : taking'[c] = e
      BY DEF NoneForgotten, Home
    <3>1. CASE e = n
      BY <2>1, <2>2, <2>4, <3>1
    <3>2. CASE e \in Made
      BY <1>2, <2>6, <2>8, <3>2 DEF HostInv, NoneForgotten, Home
    <3> QED BY <2>2, <3>1, <3>2
  <2> QED BY <2>5, <2>7, <2>9, <2>10, <2>11 DEF HostInv
<1> QED BY <1>1, <1>2 DEF Ensure

LEMMA TakeKeepsInv ==
    ASSUME HostInv, NEW c \in Caller, NEW id \in ID, NEW e, RevokeTake(c, id, e)
    PROVE  HostInv'
<1> DEFINE x == grants[id]
<1>1. /\ created' = created /\ ended' = ended /\ taking[c] = NoEnv
      /\ x # NoEnv /\ x \in Made /\ created[x].id = id
  BY DEF Home, RevokeTake, HostInv, HostTypeOK, GrantsAtHome
<1>2. /\ \A i \in ID : grants'[i] = IF i = id THEN NoEnv ELSE grants[i]
      /\ \A d \in Caller : taking'[d] = IF d = c THEN x ELSE taking[d]
      /\ \A f \in Made : created[f].id \in ID
      /\ Made' = Made
  BY <1>1, HomeIsID DEF RevokeTake, Taken, HostInv, HostTypeOK, Made
<1>3. HostTypeOK'
  BY <1>1 DEF RevokeTake, Taken, HostInv, HostTypeOK, Made
<1>4. NoEnv \notin Made
  BY NoneIsNoEnv DEF HostInv
<1>5. GrantsAtHome'
  BY <1>1, <1>2 DEF HostInv, Home, GrantsAtHome, HostTypeOK
<1>6. x \notin ended /\ \A d \in Caller : taking[d] # x
  BY <1>1 DEF HostInv, Home, TakenIsAlone, RevokedIsOut
<1> HIDE DEF x
<1>7. TakenIsAlone'
  <2>1. ASSUME NEW d \in Caller, taking'[d] # NoEnv
        PROVE  grants'[created[taking'[d]].id] # taking'[d] /\ taking'[d] \notin ended'
    BY <1>1, <1>2, <1>4, <1>6, <2>1 DEF HostInv, Home, TakenIsAlone, HostTypeOK
  <2>2. ASSUME NEW d1 \in Caller, NEW d2 \in Caller, taking'[d1] # NoEnv,
               taking'[d1] = taking'[d2]
        PROVE  d1 = d2
    BY <1>2, <1>6, <2>2 DEF HostInv, Home, TakenIsAlone
  <2> QED BY <1>1, <2>1, <2>2 DEF TakenIsAlone, Home
<1>8. RevokedIsOut'
  BY <1>1, <1>2, <1>4 DEF HostInv, Home, HostTypeOK, RevokedIsOut
<1>9. NoneForgotten'
  <2> SUFFICES ASSUME NEW f \in Made
               PROVE  \/ grants'[created[f].id] = f \/ f \in ended
                      \/ \E d \in Caller : taking'[d] = f
    BY <1>1, <1>2 DEF Home, NoneForgotten
  <2>1. CASE f = x
    BY <1>2, <2>1
  <2>2. CASE f # x /\ grants[created[f].id] = f
    BY <1>2, <2>2 DEF x
  <2>3. CASE \E d \in Caller : taking[d] = f
    BY <1>1, <1>2, <1>4, <2>3
  <2> QED BY <2>1, <2>2, <2>3 DEF HostInv, Home, NoneForgotten
<1> QED BY <1>3, <1>5, <1>7, <1>8, <1>9 DEF HostInv

LEMMA RevokeEnvKeepsInv ==
    ASSUME HostInv, NEW c \in Caller, RevokeEnv(c)
    PROVE  HostInv'
<1> DEFINE x == taking[c]
<1>1. /\ created' = created /\ grants' = grants /\ x # NoEnv /\ x \in Made
      /\ ended' = ended \cup {x} /\ Made' = Made
  BY DEF RevokeEnv, HostInv, HostTypeOK, Made
<1>2. \A d \in Caller : taking'[d] = IF d = c THEN NoEnv ELSE taking[d]
  BY DEF RevokeEnv, HostInv, HostTypeOK
<1>3. HostTypeOK' /\ GrantsAtHome'
  BY <1>1 DEF RevokeEnv, HostInv, HostTypeOK, GrantsAtHome, Made, Home
<1>4. TakenIsAlone' /\ RevokedIsOut' /\ NoneForgotten'
  BY <1>1, <1>2 DEF HostInv, TakenIsAlone, RevokedIsOut, NoneForgotten, Home
<1> QED BY <1>3, <1>4 DEF HostInv

LEMMA HostNextInv == HostInv /\ [HostNext]_hostVars => HostInv'
<1> SUFFICES ASSUME HostInv, [HostNext]_hostVars PROVE HostInv'
  OBVIOUS
<1>1. CASE UNCHANGED hostVars
  BY <1>1 DEF HostInv, HostTypeOK, Made, GrantsAtHome, TakenIsAlone, RevokedIsOut,
              NoneForgotten, Home, hostVars
<1>2. ASSUME NEW c \in Caller, NEW e \in 1..Len(created),
             RevokeTake(c, created[e].id, e)
      PROVE  HostInv'
  <2>1. created[e].id \in ID
    BY HomeIsID DEF HostInv, Home, Made
  <2> QED BY <1>2, <2>1, TakeKeepsInv
<1> QED BY <1>1, <1>2, EnsureKeepsInv, TakeKeepsInv, RevokeEnvKeepsInv DEF HostNext

LEMMA HostSpecInv == HostSpec => []HostInv
<1>1. HostInit => HostInv
  BY DEF HostInit, HostInv, HostTypeOK, Made, GrantsAtHome, TakenIsAlone, RevokedIsOut,
         NoneForgotten
<1> QED BY <1>1, HostNextInv, PTL DEF HostSpec

\* The state that Ensure and Revoke leave is well typed: the map holds only
\* environments that were created, and only for ids.
THEOREM HostTypesHold == HostSpec => []HostTypeOK
<1>1. HostInv => HostTypeOK
  BY DEF HostInv
<1> QED BY <1>1, HostSpecInv, PTL

\* Concurrent Revokes of one id, of the host or through the environment, end
\* each environment exactly once, and none is forgotten.
THEOREM EachEndsOnce == HostSpec => []OneFate
<1>1. HostInv => OneFate
  <2> SUFFICES ASSUME HostInv, NEW e \in 1..Len(created)
               PROVE  \/ /\ grants[Home(e)] = e /\ Takers(e) = {} /\ e \notin ended
                      \/ /\ grants[Home(e)] # e /\ Cardinality(Takers(e)) = 1
                         /\ e \notin ended
                      \/ /\ grants[Home(e)] # e /\ Takers(e) = {} /\ e \in ended
    BY DEF OneFate
  <2>1. e # NoEnv /\ e \in Made
    BY NoneIsNoEnv DEF HostInv, Made
  <2>2. CASE \E c \in Caller : taking[c] = e
    <3>1. PICK c \in Caller : taking[c] = e
      BY <2>2
    <3>2. Takers(e) = {c}
      BY <2>1, <3>1 DEF Takers, HostInv, TakenIsAlone
    <3>3. Cardinality(Takers(e)) = 1
      BY <3>2, FS_Singleton
    <3> QED BY <2>1, <3>1, <3>3 DEF HostInv, TakenIsAlone
  <2>3. CASE ~(\E c \in Caller : taking[c] = e)
    <3>1. Takers(e) = {}
      BY <2>3 DEF Takers
    <3> QED BY <2>1, <2>3, <3>1 DEF HostInv, NoneForgotten, RevokedIsOut
  <2> QED BY <2>2, <2>3
<1> QED BY <1>1, HostSpecInv, PTL

----------------------------------------------------------------------------
(* Refinement.                                                             *)

Live == {grants[id] : id \in ID} \ {NoEnv}

LEMMA SameCardinality == \A S : Contract!Cardinality(S) = Cardinality(S)
BY DEF Contract!Cardinality, Cardinality

LEMMA EnsureRefines ==
    ASSUME HostInv, NEW s \in SpecRec, Ensure(s)
    PROVE  [Contract!Next]_Contract!vars
<1>1. CASE UNCHANGED hostVars
  BY <1>1 DEF hostVars, Contract!vars
<1>2. CASE /\ CanGrant(s) /\ Len(created) < MaxEnvs
           /\ created' = Append(created, s)
           /\ grants' = [grants EXCEPT ![s.id] = Len(created) + 1]
  <2>i. PICK i \in ID : i = s.id
    BY DEF SpecRec
  <2>n. PICK n \in Envs : n = Len(created) + 1
    BY <1>2, MemoryHostAssumption DEF HostInv, HostTypeOK, Envs
  <2>1. /\ grants[i] = NoEnv /\ grants' = [grants EXCEPT ![i] = n]
        /\ grants \in [ID -> Made \cup {NoEnv}] /\ n # NoEnv
    BY <1>2, <2>i, <2>n, MemoryHostAssumption DEF CanGrant, HostInv, HostTypeOK, Envs
  <2>2. Made' = Made \cup {n} /\ n \notin Made
    BY <1>2, <2>n, OneMore DEF HostInv
  <2>3. Cardinality(Held) < Slots
    <3>1. Cardinality(Held) \in Nat
      BY MemoryHostAssumption, FS_Subset, FS_CardinalityType DEF Held
    <3> QED BY <1>2, <3>1, MemoryHostAssumption DEF CanGrant, Full
  <2>4. Live' = Live \cup {n}
    BY <2>1 DEF Live
  <2>5. Contract!Cardinality(Contract!Held) < Slots
    BY <2>3, SameCardinality DEF Contract!Held, Held
  <2>6. Contract!Grant(i, n)
    BY <2>1, <2>2, <2>4, <2>5
       DEF Contract!Grant, Contract!SlotFree, Contract!Fresh, Live, Made
  <2> QED BY <2>6 DEF Contract!Next
<1> QED BY <1>1, <1>2 DEF Ensure

LEMMA TakeRefines ==
    ASSUME HostInv, NEW c \in Caller, NEW id \in ID, NEW e, RevokeTake(c, id, e)
    PROVE  Contract!Next
<1>1. /\ grants[id] # NoEnv /\ grants' = [grants EXCEPT ![id] = NoEnv]
      /\ grants \in [ID -> Made \cup {NoEnv}] /\ created' = created
  BY DEF RevokeTake, Taken, HostInv, HostTypeOK
<1>2. \A i \in ID \ {id} : grants[i] # grants[id]
  BY <1>1 DEF HostInv, GrantsAtHome
<1>3. Live' = Live \ {grants[id]}
  BY <1>1, <1>2 DEF Live
<1>4. Contract!Release(id)
  BY <1>1, <1>3 DEF Contract!Release, Contract!LiveWithout, Live
<1> QED BY <1>4 DEF Contract!Next

\* Every step of the memory host is a step of the occupancy contract or
\* leaves what the contract speaks of alone.
THEOREM MemoryHostImplementsOccupancy == HostSpec => ImplementsOccupancy
<1>1. HostInit => Contract!Init
  BY DEF HostInit, Contract!Init
<1>2. HostInv /\ [HostNext]_hostVars => [Contract!Next]_Contract!vars
  <2> SUFFICES ASSUME HostInv, [HostNext]_hostVars PROVE [Contract!Next]_Contract!vars
    OBVIOUS
  <2>1. CASE UNCHANGED <<grants, created>>
    BY <2>1 DEF Contract!vars
  <2>2. ASSUME NEW c \in Caller, NEW e \in 1..Len(created),
               RevokeTake(c, created[e].id, e)
        PROVE  Contract!Next
    <3>1. created[e].id \in ID
      BY HomeIsID DEF HostInv, Home, Made
    <3> QED BY <2>2, <3>1, TakeRefines
  <2> QED BY <2>1, <2>2, EnsureRefines, TakeRefines DEF HostNext, RevokeEnv, hostVars
<1> QED
  BY <1>1, <1>2, HostSpecInv, PTL DEF HostSpec, ImplementsOccupancy, Contract!Spec

----------------------------------------------------------------------------
(* An environment.                                                         *)

CursorRec == [epoch : Nat, seq : Nat]
EventRec == [cursor : CursorRec, event : {"change"}]
LogRec == [epoch : Nat \ {0}, next : Nat, events : Seq(EventRec)]

WatchTypeOK ==
    /\ log \in LogRec
    /\ hist \in Seq(EventRec)
    /\ current \in Watcher \cup {None}
    /\ err \in [Watcher -> {"none", "open", "lagged", "frozen", "revoked", "closed"}]
    /\ queue \in [Watcher -> Seq(EventRec)]
    /\ room \in [Watcher -> Nat]
    /\ cursor \in [Watcher -> CursorRec]
    /\ hand \in [Watcher -> Seq(EventRec)]

TermTypeOK ==
    /\ term \in Terminal \cup {None}
    /\ state \in [Terminal -> {"new", "live", "closed", "frozen", "revoked"}]
    /\ bytes \in [Terminal -> Nat]
    /\ reader \in [Terminal -> {"none", "running", "asleep"}]

EnvTypeOK ==
    /\ frozen \in BOOLEAN /\ revoked \in BOOLEAN
    /\ WatchTypeOK
    /\ TermTypeOK

OnlyCurrentIsOpen == \A w \in Watcher : err[w] = "open" <=> current = w
OnlyTermIsLive == \A t \in Terminal : state[t] = "live" => term = t

\* The events of a generation are numbered from one, and the log has the
\* last LogCapacity of them.
LogKeepsTheLast ==
    /\ log.next = Len(hist)
    /\ \A i \in 1..Len(hist) : hist[i].cursor = Cursor(log.epoch, i)
    /\ Len(log.events) <= LogCapacity
    /\ Len(log.events) <= log.next
    /\ Len(log.events) < LogCapacity => Len(log.events) = log.next
    /\ \A i \in 1..Len(log.events) : log.events[i] = hist[Oldest(log) + i]

\* A kept cursor is of this generation or an earlier one, and not ahead.
CursorsAreBehind ==
    \A w \in Watcher :
        /\ cursor[w].epoch <= log.epoch
        /\ cursor[w].epoch = log.epoch => cursor[w].seq <= log.next

\* What is in hand and in the channel, event by event, is what follows s.
Holds(s, a, q) ==
    /\ Len(a) <= 1
    /\ s + Len(a) + Len(q) = Len(hist)
    /\ \A i \in 1..Len(a) : a[i] = hist[s + i]
    /\ \A i \in 1..Len(q) : q[i] = hist[s + Len(a) + i]

\* What the observation still will deliver: first what Next has in hand.
ObservationFollows ==
    current # None =>
        /\ cursor[current].epoch = log.epoch
        /\ Holds(cursor[current].seq, hand[current], queue[current])

WatchInv ==
    /\ WatchTypeOK
    /\ OnlyCurrentIsOpen
    /\ LogKeepsTheLast
    /\ CursorsAreBehind
    /\ ObservationFollows

TermInv == TermTypeOK /\ OnlyTermIsLive

EnvInv ==
    /\ frozen \in BOOLEAN /\ revoked \in BOOLEAN
    /\ WatchInv
    /\ TermInv
    /\ frozen \/ revoked => current = None /\ term = None

----------------------------------------------------------------------------
(* Sequences of events, and the operators of the log.                      *)

LEMMA SameSeq ==
    ASSUME NEW S, NEW s \in Seq(S), NEW t \in Seq(S), Len(s) = Len(t),
           \A i \in 1..Len(s) : s[i] = t[i]
    PROVE  s = t
OBVIOUS

LEMMA OneMoreEvent ==
    ASSUME NEW S, NEW s \in Seq(S), NEW e \in S
    PROVE  /\ Append(s, e) \in Seq(S)
           /\ Len(Append(s, e)) = Len(s) + 1
           /\ \A i \in 1..Len(s) : Append(s, e)[i] = s[i]
           /\ Append(s, e)[Len(s) + 1] = e
OBVIOUS

LEMMA LaterPart ==
    ASSUME NEW S, NEW s \in Seq(S), NEW m \in 1..Len(s) + 1
    PROVE  /\ SubSeq(s, m, Len(s)) \in Seq(S)
           /\ Len(SubSeq(s, m, Len(s))) = (Len(s) + 1) - m
           /\ \A i \in 1..(Len(s) + 1) - m : SubSeq(s, m, Len(s))[i] = s[m - 1 + i]
OBVIOUS

\* What is left once the first was received.
LEMMA WithoutFirst ==
    ASSUME NEW S, NEW s \in Seq(S), s # <<>>
    PROVE  /\ Tail(s) \in Seq(S) /\ Len(s) > 0
           /\ Len(Tail(s)) = Len(s) - 1
           /\ \A i \in 1..Len(s) - 1 : Tail(s)[i] = s[i + 1]
           /\ Head(s) = s[1] /\ Head(s) \in S
OBVIOUS

\* Trim keeps the last events.
LEMMA TrimKeepsTheLast ==
    ASSUME NEW S, NEW s \in Seq(S), NEW c \in Nat
    PROVE  /\ Trim(s, c) \in Seq(S)
           /\ Len(Trim(s, c)) = IF Len(s) > c THEN c ELSE Len(s)
           /\ \A i \in 1..Len(Trim(s, c)) :
                  Trim(s, c)[i] = s[Len(s) - Len(Trim(s, c)) + i]
<1>1. CASE Len(s) > c
  <2>1. Len(s) - c + 1 \in 1..Len(s) + 1
    BY <1>1
  <2>2. Trim(s, c) = SubSeq(s, Len(s) - c + 1, Len(s))
    BY <1>1 DEF Trim
  <2> QED BY <1>1, <2>1, <2>2, LaterPart
<1>2. CASE ~(Len(s) > c)
  BY <1>2 DEF Trim
<1> QED BY <1>1, <1>2

LEMMA StampedIsAnEvent ==
    ASSUME NEW l \in LogRec
    PROVE  /\ Stamped(l, "change") \in EventRec
           /\ Stamped(l, "change").cursor = Cursor(l.epoch, l.next + 1)
BY DEF Stamped, EventRec, CursorRec, Cursor, LogRec

\* Append numbers the event, and drops the oldest when the log is full.
LEMMA AppendEventKeepsTheLast ==
    ASSUME NEW l \in LogRec, Len(l.events) <= LogCapacity,
           NEW n, n = AppendEvent(l, "change", LogCapacity)
    PROVE  /\ n \in LogRec
           /\ n.epoch = l.epoch /\ n.next = l.next + 1
           /\ Len(n.events) = IF Len(l.events) = LogCapacity
                              THEN LogCapacity ELSE Len(l.events) + 1
           /\ \A i \in 1..Len(n.events) :
                  n.events[i] = Append(l.events, Stamped(l, "change"))
                                    [(Len(l.events) + 1) - Len(n.events) + i]
<1> DEFINE more == Append(l.events, Stamped(l, "change"))
<1>1. l.events \in Seq(EventRec) /\ LogCapacity \in Nat
  BY MemoryAssumption DEF LogRec
<1>2. more \in Seq(EventRec) /\ Len(more) = Len(l.events) + 1
  BY <1>1, StampedIsAnEvent, OneMoreEvent
<1>3. /\ n.epoch = l.epoch /\ n.next = l.next + 1
      /\ n.events = Trim(more, LogCapacity)
      /\ n = [epoch |-> n.epoch, next |-> n.next, events |-> n.events]
  BY DEF AppendEvent, LogRec
<1> HIDE DEF more
<1>4. /\ Trim(more, LogCapacity) \in Seq(EventRec)
      /\ Len(Trim(more, LogCapacity)) =
            IF Len(more) > LogCapacity THEN LogCapacity ELSE Len(more)
      /\ \A i \in 1..Len(Trim(more, LogCapacity)) :
            Trim(more, LogCapacity)[i] =
                more[Len(more) - Len(Trim(more, LogCapacity)) + i]
  BY <1>1, <1>2, TrimKeepsTheLast
<1>5. Len(n.events) = IF Len(l.events) = LogCapacity
                      THEN LogCapacity ELSE Len(l.events) + 1
  BY <1>1, <1>2, <1>3, <1>4
<1>6. \A i \in 1..Len(n.events) : n.events[i] = more[(Len(l.events) + 1) - Len(n.events) + i]
  <2> SUFFICES ASSUME NEW i \in 1..Len(n.events)
               PROVE  n.events[i] = more[(Len(l.events) + 1) - Len(n.events) + i]
    OBVIOUS
  <2>1. n.events[i] = more[Len(more) - Len(n.events) + i]
    BY <1>3, <1>4
  <2>2. Len(l.events) \in Nat /\ Len(n.events) \in Nat /\ i \in Nat
    BY <1>1, <1>3, <1>4
  <2>3. Len(more) - Len(n.events) + i = (Len(l.events) + 1) - Len(n.events) + i
    BY <1>2, <2>2
  <2> QED BY <2>1, <2>3
<1>7. n \in LogRec
  BY <1>3, <1>4 DEF LogRec
<1> QED BY <1>3, <1>5, <1>6, <1>7 DEF more

\* Since gives the events after a cursor that the log still covers.
LEMMA ReplayGivesTheRest ==
    ASSUME NEW l \in LogRec, Len(l.events) <= l.next,
           NEW c \in CursorRec, c # NoCursor, CanResume(l, c)
    PROVE  /\ Replay(l, c) \in Seq(EventRec)
           /\ Len(Replay(l, c)) = l.next - c.seq
           /\ \A i \in 1..l.next - c.seq :
                  Replay(l, c)[i] = l.events[c.seq - Oldest(l) + i]
<1>1. l.events \in Seq(EventRec) /\ l.next \in Nat /\ c.seq \in Nat
  BY DEF LogRec, CursorRec
<1>2. c.seq <= l.next /\ c.seq >= l.next - Len(l.events)
  BY DEF CanResume, Oldest
<1> DEFINE m == c.seq - Oldest(l) + 1
<1>3. /\ m \in 1..Len(l.events) + 1 /\ (Len(l.events) + 1) - m = l.next - c.seq
      /\ m - 1 = c.seq - Oldest(l)
  <2>1. PICK a \in Nat, x \in Nat, y \in Nat :
            a = Len(l.events) /\ x = l.next /\ y = c.seq
    BY <1>1
  <2>2. m = y - (x - a) + 1
    BY <2>1 DEF Oldest
  <2>3. y <= x /\ y >= x - a /\ a <= x
    BY <1>2, <2>1
  <2>4. y - (x - a) + 1 \in 1..a + 1 /\ (a + 1) - (y - (x - a) + 1) = x - y
        /\ (y - (x - a) + 1) - 1 = y - (x - a)
    BY <2>3
  <2> QED BY <2>1, <2>2, <2>4 DEF Oldest
<1>4. Replay(l, c) = SubSeq(l.events, m, Len(l.events))
  BY DEF Replay
<1> HIDE DEF m
<1>5. /\ Replay(l, c) \in Seq(EventRec)
      /\ Len(Replay(l, c)) = (Len(l.events) + 1) - m
      /\ \A i \in 1..(Len(l.events) + 1) - m : Replay(l, c)[i] = l.events[m - 1 + i]
  BY <1>1, <1>3, <1>4, LaterPart
<1>6. \A i \in 1..l.next - c.seq : Replay(l, c)[i] = l.events[m - 1 + i]
  BY <1>3, <1>5
<1> QED BY <1>3, <1>5, <1>6

----------------------------------------------------------------------------
(* The steps of the observation.                                           *)

\* The events of the log after an Append, as numbered in the history.
EndsWith(s, h, len) == \A i \in 1..Len(s) : s[i] = h[len - Len(s) + i]
Extends(g, h, len, e) == (\A i \in 1..len : g[i] = h[i]) /\ g[len + 1] = e

LEMMA ShiftedEvents ==
    ASSUME NEW l \in LogRec, NEW n \in LogRec, NEW more, NEW h, NEW g, NEW e,
           NEW len \in Nat, l.next = len,
           Len(l.events) <= len, n.next = len + 1,
           Len(n.events) \in {Len(l.events), Len(l.events) + 1},
           EndsWith(n.events, more, Len(l.events) + 1),
           Extends(more, l.events, Len(l.events), e),
           EndsWith(l.events, h, l.next),
           Extends(g, h, len, e)
    PROVE  EndsWith(n.events, g, n.next)
<1> SUFFICES ASSUME NEW i \in 1..Len(n.events)
             PROVE  n.events[i] = g[n.next - Len(n.events) + i]
  BY DEF EndsWith
<1> USE DEF EndsWith, Extends
<1>1. PICK a : a = Len(l.events)
  OBVIOUS
<1>2. PICK b : b = Len(n.events)
  OBVIOUS
<1>3. a \in Nat /\ b \in Nat /\ b \in {a, a + 1} /\ i \in 1..b /\ a <= len
  BY <1>1, <1>2 DEF LogRec
<1>4. PICK k : k = (a + 1) - b + i
  OBVIOUS
<1>5. k \in 1..a + 1 /\ (len + 1) - b + i = len - a + k
  BY <1>3, <1>4
<1>i. i \in 1..Len(n.events) /\ (Len(l.events) + 1) - Len(n.events) + i = k
  BY <1>1, <1>2, <1>4, Zenon
<1>6. n.events[i] = more[k] /\ n.next - Len(n.events) + i = len - a + k
  <2>1. n.events[i] = more[k]
    BY <1>i
  <2>2. n.next - Len(n.events) + i = (len + 1) - b + i
    BY <1>2, Zenon
  <2> QED BY <1>5, <2>1, <2>2
<1>7. CASE k = a + 1
  <2>1. len - a + k = len + 1
    BY <1>3, <1>7
  <2> QED BY <1>1, <1>6, <1>7, <2>1
<1>8. CASE k # a + 1
  <2>1. k \in 1..a /\ len - a + k \in 1..len
    BY <1>3, <1>5, <1>8
  <2>2. more[k] = h[len - a + k]
    BY <1>1, <2>1
  <2> QED BY <1>6, <2>1, <2>2
<1> QED BY <1>7, <1>8

\* Emit keeps the log in order.
LEMMA EmitKeepsLog ==
    ASSUME WatchInv, log' = AppendEvent(log, "change", LogCapacity),
           hist' = Append(hist, Stamped(log, "change"))
    PROVE  /\ log' \in LogRec /\ hist' \in Seq(EventRec)
           /\ LogKeepsTheLast'
           /\ log'.epoch = log.epoch /\ log'.next = log.next + 1
           /\ Len(hist') = Len(hist) + 1
           /\ \A i \in 1..Len(hist) : hist'[i] = hist[i]
           /\ hist'[Len(hist) + 1] = Stamped(log, "change")
<1>1. /\ log \in LogRec /\ hist \in Seq(EventRec) /\ log.events \in Seq(EventRec)
      /\ LogCapacity \in Nat /\ log.next = Len(hist)
  BY MemoryAssumption DEF WatchInv, WatchTypeOK, LogRec, LogKeepsTheLast
<1>2. /\ Stamped(log, "change") \in EventRec
      /\ Stamped(log, "change").cursor = Cursor(log.epoch, log.next + 1)
  BY <1>1, StampedIsAnEvent
<1>3. /\ hist' \in Seq(EventRec) /\ Len(hist') = Len(hist) + 1
      /\ \A i \in 1..Len(hist) : hist'[i] = hist[i]
      /\ hist'[Len(hist) + 1] = Stamped(log, "change")
  BY <1>1, <1>2, OneMoreEvent
<1>4. /\ Len(log.events) <= LogCapacity /\ Len(log.events) <= log.next
      /\ Len(log.events) < LogCapacity => Len(log.events) = log.next
      /\ \A i \in 1..Len(log.events) : log.events[i] = hist[log.next - Len(log.events) + i]
      /\ \A i \in 1..Len(hist) : hist[i].cursor = Cursor(log.epoch, i)
  BY DEF WatchInv, LogKeepsTheLast, Oldest
<1>5. /\ log' \in LogRec
      /\ log'.epoch = log.epoch /\ log'.next = log.next + 1
      /\ Len(log'.events) = IF Len(log.events) = LogCapacity
                            THEN LogCapacity ELSE Len(log.events) + 1
      /\ \A i \in 1..Len(log'.events) :
             log'.events[i] = Append(log.events, Stamped(log, "change"))
                                  [(Len(log.events) + 1) - Len(log'.events) + i]
  BY <1>1, <1>4, AppendEventKeepsTheLast
<1>6. /\ \A i \in 1..Len(log.events) :
             Append(log.events, Stamped(log, "change"))[i] = log.events[i]
      /\ Append(log.events, Stamped(log, "change"))[Len(log.events) + 1]
            = Stamped(log, "change")
  BY <1>1, <1>2, OneMoreEvent
<1>7. \A i \in 1..Len(log'.events) :
          log'.events[i] = hist'[log'.next - Len(log'.events) + i]
  <2>n. PICK n : n = log'
    OBVIOUS
  <2>m. PICK more : more = Append(log.events, Stamped(log, "change"))
    OBVIOUS
  <2>1. /\ n \in LogRec /\ n.next = Len(hist) + 1
        /\ Len(n.events) \in {Len(log.events), Len(log.events) + 1}
        /\ \A i \in 1..Len(n.events) :
              n.events[i] = more[(Len(log.events) + 1) - Len(n.events) + i]
    BY <1>1, <1>5, <2>n, <2>m
  <2>2. Len(hist) \in Nat /\ Len(log.events) <= Len(hist)
    BY <1>1, <1>4
  <2>3. \A i \in 1..Len(n.events) : n.events[i] = hist'[n.next - Len(n.events) + i]
    <3>1. /\ \A i \in 1..Len(log.events) : more[i] = log.events[i]
          /\ more[Len(log.events) + 1] = Stamped(log, "change")
      BY <1>6, <2>m, Zenon
    <3>2. PICK g : g = hist'
      OBVIOUS
    <3>3. /\ \A i \in 1..Len(hist) : g[i] = hist[i]
          /\ g[Len(hist) + 1] = Stamped(log, "change")
      BY <1>3, <3>2
    <3>4. log \in LogRec /\ log.next = Len(hist)
      BY <1>1
    <3>5. \A i \in 1..Len(log.events) :
              log.events[i] = hist[log.next - Len(log.events) + i]
      BY <1>4
    <3>6. \A i \in 1..Len(n.events) : n.events[i] = g[n.next - Len(n.events) + i]
      <4>1. /\ EndsWith(n.events, more, Len(log.events) + 1)
            /\ Extends(more, log.events, Len(log.events), Stamped(log, "change"))
            /\ Extends(g, hist, Len(hist), Stamped(log, "change"))
            /\ EndsWith(log.events, hist, log.next)
        BY <2>1, <3>1, <3>3, <3>5 DEF EndsWith, Extends
      <4>2. EndsWith(n.events, g, n.next)
        BY <2>1, <2>2, <3>4, <4>1, ShiftedEvents
      <4> QED BY <4>2 DEF EndsWith
    <3> QED BY <3>2, <3>6
  <2> QED BY <2>n, <2>3
<1>8. \A i \in 1..Len(hist') : hist'[i].cursor = Cursor(log'.epoch, i)
  BY <1>1, <1>2, <1>3, <1>4, <1>5
<1>9. /\ Len(log'.events) <= LogCapacity /\ Len(log'.events) <= log'.next
      /\ Len(log'.events) < LogCapacity => Len(log'.events) = log'.next
  BY <1>1, <1>4, <1>5, MemoryAssumption
<1> QED BY <1>1, <1>3, <1>5, <1>7, <1>8, <1>9 DEF LogKeepsTheLast, Oldest

\* failWatch leaves no observation behind.
LEMMA FailWatchEnds ==
    ASSUME WatchInv, NEW reason \in {"lagged", "frozen", "revoked", "closed"},
           FailWatch(reason)
    PROVE  /\ current' = None
           /\ err' \in [Watcher -> {"none", "open", "lagged", "frozen", "revoked", "closed"}]
           /\ queue' \in [Watcher -> Seq(EventRec)]
           /\ room' \in [Watcher -> Nat]
           /\ OnlyCurrentIsOpen'
           /\ ObservationFollows'
<1>1. current' = None /\ None \notin Watcher
  BY MemoryAssumption DEF FailWatch
<1>2. ObservationFollows'
  BY <1>1 DEF ObservationFollows
<1>3. CASE current = None
  BY <1>1, <1>2, <1>3 DEF FailWatch, WatchInv, WatchTypeOK, OnlyCurrentIsOpen
<1>4. CASE current # None
  <2>1. current \in Watcher
    BY <1>4 DEF WatchInv, WatchTypeOK
  <2>2. <<>> \in Seq(EventRec)
    OBVIOUS
  <2>3. /\ err' = [err EXCEPT ![current] = reason]
        /\ queue' = [queue EXCEPT ![current] = <<>>]
        /\ room' = [room EXCEPT ![current] = 0]
    BY <1>4 DEF FailWatch
  <2>4. /\ err' \in [Watcher -> {"none", "open", "lagged", "frozen", "revoked", "closed"}]
        /\ queue' \in [Watcher -> Seq(EventRec)]
        /\ room' \in [Watcher -> Nat]
    BY <2>2, <2>3 DEF WatchInv, WatchTypeOK
  <2>5. OnlyCurrentIsOpen'
    BY <1>1, <2>1, <2>3 DEF WatchInv, WatchTypeOK, OnlyCurrentIsOpen
  <2> QED BY <1>1, <1>2, <2>4, <2>5
<1> QED BY <1>3, <1>4

LEMMA EmitKeepsWatch == ASSUME WatchInv, Emit PROVE WatchInv'
<1> DEFINE e == Stamped(log, "change")
<1>1. /\ log' = AppendEvent(log, "change", LogCapacity)
      /\ hist' = Append(hist, e)
      /\ cursor' = cursor /\ hand' = hand
  BY DEF Emit
<1>2. /\ log' \in LogRec /\ hist' \in Seq(EventRec)
      /\ LogKeepsTheLast'
      /\ log'.epoch = log.epoch /\ log'.next = log.next + 1
      /\ Len(hist') = Len(hist) + 1
      /\ \A i \in 1..Len(hist) : hist'[i] = hist[i]
      /\ hist'[Len(hist) + 1] = e
  BY <1>1, EmitKeepsLog
<1>3. /\ hist \in Seq(EventRec) /\ log \in LogRec /\ log.next \in Nat
      /\ cursor \in [Watcher -> CursorRec] /\ hand \in [Watcher -> Seq(EventRec)]
  BY DEF WatchInv, WatchTypeOK, LogRec
<1>4. CursorsAreBehind'
  <2> SUFFICES ASSUME NEW w \in Watcher
               PROVE  /\ cursor[w].epoch <= log'.epoch
                      /\ cursor[w].epoch = log'.epoch => cursor[w].seq <= log'.next
    BY <1>1 DEF CursorsAreBehind
  <2>1. /\ cursor[w].epoch <= log.epoch
        /\ cursor[w].epoch = log.epoch => cursor[w].seq <= log.next
    BY DEF WatchInv, CursorsAreBehind
  <2>2. cursor[w].seq \in Nat
    BY <1>3 DEF CursorRec
  <2> QED BY <1>2, <1>3, <2>1, <2>2
<1>5. CASE current = None /\ UNCHANGED <<current, err, queue, room>>
  <2>1. WatchTypeOK'
    BY <1>1, <1>2, <1>5 DEF WatchInv, WatchTypeOK
  <2>2. OnlyCurrentIsOpen' /\ ObservationFollows'
    BY <1>5 DEF WatchInv, OnlyCurrentIsOpen, ObservationFollows
  <2> QED BY <1>2, <1>4, <2>1, <2>2 DEF WatchInv
<1>6. CASE FailWatch("lagged")
  <2>1. /\ current' = None
        /\ err' \in [Watcher -> {"none", "open", "lagged", "frozen", "revoked", "closed"}]
        /\ queue' \in [Watcher -> Seq(EventRec)]
        /\ room' \in [Watcher -> Nat]
        /\ OnlyCurrentIsOpen' /\ ObservationFollows'
    BY <1>6, FailWatchEnds
  <2>2. WatchTypeOK'
    BY <1>1, <1>2, <1>3, <2>1 DEF WatchTypeOK
  <2> QED BY <1>2, <1>4, <2>1, <2>2 DEF WatchInv
<1>7. CASE /\ current # None
           /\ queue' = [queue EXCEPT ![current] = Append(@, e)]
           /\ UNCHANGED <<current, err, room>>
  <2>1. current \in Watcher /\ e \in EventRec
    BY <1>3, <1>7, StampedIsAnEvent DEF WatchInv, WatchTypeOK
  <2>2. PICK c \in Watcher, s \in Nat, q \in Seq(EventRec), a \in Seq(EventRec) :
            /\ c = current /\ s = cursor[c].seq /\ q = queue[c] /\ a = hand[c]
    <3>1. /\ queue[current] \in Seq(EventRec) /\ hand[current] \in Seq(EventRec)
          /\ cursor[current].seq \in Nat
      BY <1>3, <2>1 DEF WatchInv, WatchTypeOK, CursorRec
    <3> QED BY <2>1, <3>1
  <2>3. /\ cursor[c].epoch = log.epoch /\ Len(a) <= 1
        /\ s + Len(a) + Len(q) = Len(hist)
        /\ \A i \in 1..Len(a) : a[i] = hist[s + i]
        /\ \A i \in 1..Len(q) : q[i] = hist[s + Len(a) + i]
    BY <1>7, <2>2 DEF WatchInv, ObservationFollows, Holds
  <2>4. PICK r : r = queue'[c]
    OBVIOUS
  <2>5. /\ r \in Seq(EventRec) /\ Len(r) = Len(q) + 1
        /\ \A i \in 1..Len(q) : r[i] = q[i]
        /\ r[Len(q) + 1] = e
    <3>1. r = Append(q, e)
      <4>1. queue \in [Watcher -> Seq(EventRec)]
        BY DEF WatchInv, WatchTypeOK
      <4> QED BY <1>7, <2>2, <2>4, <4>1
    <3> QED BY <2>1, <3>1, OneMoreEvent
  <2>6. s + Len(a) + Len(r) = Len(hist) + 1
    <3>1. PICK x \in Nat, y \in Nat : x = Len(a) /\ y = Len(q)
      OBVIOUS
    <3>2. s + x + (y + 1) = (s + x + y) + 1
      OBVIOUS
    <3> QED BY <2>3, <2>5, <3>1, <3>2
  <2>7. \A i \in 1..Len(a) : a[i] = hist'[s + i]
    <3> SUFFICES ASSUME NEW i \in 1..Len(a) PROVE a[i] = hist'[s + i]
      OBVIOUS
    <3>1. s + i \in 1..Len(hist)
      BY <1>3, <2>3
    <3> QED BY <1>2, <2>3, <3>1
  <2>8. \A i \in 1..Len(r) : r[i] = hist'[s + Len(a) + i]
    <3> SUFFICES ASSUME NEW i \in 1..Len(r) PROVE r[i] = hist'[s + Len(a) + i]
      OBVIOUS
    <3>1. CASE i = Len(q) + 1
      BY <1>2, <2>3, <2>5, <3>1
    <3>2. CASE i # Len(q) + 1
      <4>1. i \in 1..Len(q)
        BY <2>5, <3>2
      <4>2. s + Len(a) + i \in 1..Len(hist)
        BY <1>3, <2>3, <4>1
      <4> QED BY <1>2, <2>3, <2>5, <4>1, <4>2
    <3> QED BY <3>1, <3>2
  <2>9. ObservationFollows'
    <3>1. current' = c /\ cursor'[c] = cursor[c] /\ cursor[c].seq = s /\ hand'[c] = a
      BY <1>1, <1>7, <2>2
    <3>2. Holds(s, a, r)'
      BY <1>2, <2>3, <2>6, <2>7, <2>8 DEF Holds
    <3> QED BY <1>2, <2>3, <2>4, <3>1, <3>2 DEF ObservationFollows
  <2>10. WatchTypeOK'
    <3>1. queue' \in [Watcher -> Seq(EventRec)]
      BY <1>7, <2>2, <2>4, <2>5 DEF WatchInv, WatchTypeOK
    <3> QED BY <1>1, <1>2, <1>7, <3>1 DEF WatchInv, WatchTypeOK
  <2>11. OnlyCurrentIsOpen'
    BY <1>7 DEF WatchInv, OnlyCurrentIsOpen
  <2> QED BY <1>2, <1>4, <2>9, <2>10, <2>11 DEF WatchInv
<1> QED BY <1>5, <1>6, <1>7 DEF Emit

LEMMA ReplaceTreeKeepsWatch ==
    ASSUME WatchInv, NEW tree, ReplaceTree(tree)
    PROVE  WatchInv'
<1>1. /\ FailWatch("lagged") /\ log' = NewLog(log.epoch + 1) /\ hist' = <<>>
      /\ cursor' = cursor /\ hand' = hand
  BY DEF ReplaceTree
<1>2. log.epoch \in Nat /\ hist' \in Seq(EventRec) /\ Len(hist') = 0
  BY <1>1 DEF WatchInv, WatchTypeOK, LogRec
<1>3. /\ log' \in LogRec /\ log'.epoch = log.epoch + 1 /\ log'.next = 0
      /\ log'.events = <<>> /\ Len(log'.events) = 0
  BY <1>1, <1>2 DEF NewLog, LogRec
<1>4. /\ current' = None
      /\ err' \in [Watcher -> {"none", "open", "lagged", "frozen", "revoked", "closed"}]
      /\ queue' \in [Watcher -> Seq(EventRec)]
      /\ room' \in [Watcher -> Nat]
      /\ OnlyCurrentIsOpen' /\ ObservationFollows'
  BY <1>1, FailWatchEnds
<1>5. WatchTypeOK'
  BY <1>1, <1>2, <1>3, <1>4 DEF WatchInv, WatchTypeOK
<1>6. LogKeepsTheLast'
  BY <1>2, <1>3, MemoryAssumption DEF LogKeepsTheLast
<1>7. CursorsAreBehind'
  <2> SUFFICES ASSUME NEW w \in Watcher
               PROVE  /\ cursor[w].epoch <= log'.epoch
                      /\ cursor[w].epoch = log'.epoch => cursor[w].seq <= log'.next
    BY <1>1 DEF CursorsAreBehind
  <2>1. cursor[w].epoch \in Nat /\ cursor[w].epoch <= log.epoch
    BY DEF WatchInv, WatchTypeOK, CursorsAreBehind, CursorRec
  <2> QED BY <1>2, <1>3, <2>1
<1> QED BY <1>4, <1>5, <1>6, <1>7 DEF WatchInv

\* The observation ends, and everything else about the log stays.
LEMMA FailWatchKeepsWatch ==
    ASSUME WatchInv, NEW reason \in {"lagged", "frozen", "revoked", "closed"},
           FailWatch(reason), UNCHANGED <<log, hist, cursor, hand>>
    PROVE  WatchInv' /\ current' = None
<1>1. /\ current' = None
      /\ err' \in [Watcher -> {"none", "open", "lagged", "frozen", "revoked", "closed"}]
      /\ queue' \in [Watcher -> Seq(EventRec)]
      /\ room' \in [Watcher -> Nat]
      /\ OnlyCurrentIsOpen' /\ ObservationFollows'
  BY FailWatchEnds
<1>2. WatchTypeOK'
  BY <1>1 DEF WatchInv, WatchTypeOK
<1>3. LogKeepsTheLast'
  BY DEF WatchInv, LogKeepsTheLast, Oldest
<1>4. CursorsAreBehind'
  BY DEF WatchInv, CursorsAreBehind
<1> QED BY <1>1, <1>2, <1>3, <1>4 DEF WatchInv

LEMMA WatchKeepsWatch ==
    ASSUME WatchInv, NEW w \in Watcher, NEW after \in {NoCursor, cursor[w]},
           Watch(w, after)
    PROVE  WatchInv'
<1>1. /\ current' = w /\ hand[w] = <<>> /\ CanResume(log, after)
      /\ current = None
      /\ err' = [err EXCEPT ![w] = "open"]
      /\ cursor' = [cursor EXCEPT ![w] = StartOf(log, after)]
      /\ queue' = [queue EXCEPT ![w] = Replay(log, after)]
      /\ log' = log /\ hist' = hist /\ hand' = hand
  BY DEF Watch
<1>2. /\ log \in LogRec /\ log.epoch \in Nat \ {0} /\ log.next \in Nat
      /\ hist \in Seq(EventRec) /\ log.next = Len(hist)
      /\ Len(log.events) \in Nat
      /\ Len(log.events) <= log.next
      /\ \A i \in 1..Len(log.events) : log.events[i] = hist[Oldest(log) + i]
  BY DEF WatchInv, WatchTypeOK, LogRec, LogKeepsTheLast
<1>3. after \in CursorRec
  BY DEF WatchInv, WatchTypeOK, CursorRec, NoCursor, Cursor
<1>4. PICK q, c : q = Replay(log, after) /\ c = StartOf(log, after)
  OBVIOUS
<1>5. /\ q \in Seq(EventRec) /\ c \in CursorRec
      /\ c.epoch = log.epoch /\ c.seq <= log.next
      /\ c.seq + Len(q) = Len(hist)
      /\ \A i \in 1..Len(q) : q[i] = hist[c.seq + i]
  <2>1. CASE after = NoCursor
    <3>1. q = <<>> /\ c = Cursor(log.epoch, log.next)
      BY <1>4, <2>1 DEF Replay, StartOf, Current
    <3>2. c \in CursorRec /\ c.epoch = log.epoch /\ c.seq = log.next
      BY <1>2, <3>1 DEF Cursor, CursorRec
    <3> QED BY <1>2, <3>1, <3>2
  <2>2. CASE after # NoCursor
    <3>1. c = after
      BY <1>4, <2>2 DEF StartOf
    <3>2. c.epoch = log.epoch /\ c.seq <= log.next /\ c.seq >= Oldest(log) /\ c.seq \in Nat
      BY <1>1, <1>3, <2>2, <3>1 DEF CanResume, CursorRec
    <3>3. /\ q \in Seq(EventRec) /\ Len(q) = log.next - c.seq
          /\ \A i \in 1..log.next - c.seq : q[i] = log.events[c.seq - Oldest(log) + i]
      BY <1>1, <1>2, <1>3, <1>4, <2>2, <3>1, ReplayGivesTheRest
    <3>4. \A i \in 1..Len(q) : q[i] = hist[c.seq + i]
      <4> SUFFICES ASSUME NEW i \in 1..Len(q) PROVE q[i] = hist[c.seq + i]
        OBVIOUS
      <4>1. PICK x \in Nat, y \in Nat, z \in Nat :
                x = log.next /\ y = c.seq /\ z = Len(log.events)
        BY <1>2, <3>2
      <4>2. /\ Oldest(log) = x - z /\ y >= x - z /\ y <= x
            /\ i \in 1..x - y
        BY <3>2, <3>3, <4>1 DEF Oldest
      <4>3. y - (x - z) + i \in 1..z /\ (x - z) + (y - (x - z) + i) = y + i
        BY <4>2
      <4>4. q[i] = log.events[y - (x - z) + i]
        BY <3>3, <4>1, <4>2
      <4>5. log.events[y - (x - z) + i] = hist[(x - z) + (y - (x - z) + i)]
        BY <1>2, <4>1, <4>2, <4>3
      <4> QED BY <4>1, <4>3, <4>4, <4>5
    <3> QED BY <1>2, <1>3, <3>1, <3>2, <3>3, <3>4
  <2> QED BY <2>1, <2>2
<1>6. w # None
  BY MemoryAssumption
<1>7. WatchTypeOK'
  <2>1. /\ err \in [Watcher -> {"none", "open", "lagged", "frozen", "revoked", "closed"}]
        /\ queue \in [Watcher -> Seq(EventRec)]
        /\ room \in [Watcher -> Nat]
        /\ cursor \in [Watcher -> CursorRec]
        /\ hand \in [Watcher -> Seq(EventRec)]
    BY DEF WatchInv, WatchTypeOK
  <2>2. room' \in [Watcher -> Nat]
    <3>1. Len(q) \in Nat /\ WatchBuffer \in Nat
      BY <1>5, MemoryAssumption
    <3>2. room' = [room EXCEPT ![w] = IF Len(q) > WatchBuffer THEN Len(q) ELSE WatchBuffer]
      BY <1>4 DEF Watch
    <3> QED BY <2>1, <3>1, <3>2
  <2>3. /\ err' \in [Watcher -> {"none", "open", "lagged", "frozen", "revoked", "closed"}]
        /\ current' \in Watcher \cup {None}
    BY <1>1, <2>1
  <2>4. queue' \in [Watcher -> Seq(EventRec)] /\ cursor' \in [Watcher -> CursorRec]
    BY <1>1, <1>4, <1>5, <2>1
  <2> QED BY <1>1, <1>2, <2>1, <2>2, <2>3, <2>4 DEF WatchTypeOK
<1>8. OnlyCurrentIsOpen'
  <2>1. /\ err \in [Watcher -> {"none", "open", "lagged", "frozen", "revoked", "closed"}]
        /\ \A v \in Watcher : err[v] # "open"
    BY <1>1, MemoryAssumption DEF WatchInv, WatchTypeOK, OnlyCurrentIsOpen
  <2>2. \A v \in Watcher : err'[v] = IF v = w THEN "open" ELSE err[v]
    BY <1>1, <2>1
  <2> QED BY <1>1, <2>1, <2>2 DEF OnlyCurrentIsOpen
<1>9. LogKeepsTheLast'
  BY <1>1 DEF WatchInv, LogKeepsTheLast, Oldest
<1>10. \A v \in Watcher : cursor'[v] = IF v = w THEN c ELSE cursor[v]
  BY <1>1, <1>4 DEF WatchInv, WatchTypeOK
<1>11. CursorsAreBehind'
  <2>1. log'.epoch = log.epoch /\ log'.next = log.next /\ c.epoch <= log.epoch
    BY <1>1, <1>2, <1>5
  <2> QED BY <1>5, <1>10, <2>1 DEF WatchInv, CursorsAreBehind
<1>12. ObservationFollows'
  <2>1. /\ current' = w /\ cursor'[w] = c /\ hand'[w] = <<>> /\ Len(hand'[w]) = 0
        /\ hist' = hist /\ log' = log
    BY <1>1, <1>10
  <2>2. queue'[w] = q
    BY <1>1, <1>4 DEF WatchInv, WatchTypeOK
  <2>3. c.seq + 0 = c.seq /\ c.seq \in Nat
    BY <1>5 DEF CursorRec
  <2>4. Holds(c.seq, <<>>, q)'
    BY <1>5, <2>1, <2>3 DEF Holds
  <2> QED BY <1>5, <2>1, <2>2, <2>4 DEF ObservationFollows
<1> QED BY <1>7, <1>8, <1>9, <1>11, <1>12 DEF WatchInv

\* What the current observation holds, under names of its own.
LEMMA HeldByCurrent ==
    ASSUME WatchInv, NEW w \in Watcher, current = w
    PROVE  /\ cursor[w].epoch = log.epoch
           /\ cursor[w].seq \in Nat
           /\ queue[w] \in Seq(EventRec) /\ hand[w] \in Seq(EventRec)
           /\ Holds(cursor[w].seq, hand[w], queue[w])
<1>1. w # None
  BY MemoryAssumption
<1>2. queue[w] \in Seq(EventRec) /\ hand[w] \in Seq(EventRec) /\ cursor[w].seq \in Nat
  BY DEF WatchInv, WatchTypeOK, CursorRec
<1> QED BY <1>1, <1>2 DEF WatchInv, ObservationFollows

LEMMA NextReceiveKeepsWatch ==
    ASSUME WatchInv, NEW w \in Watcher, NextReceive(w)
    PROVE  WatchInv'
<1>1. /\ current = w /\ w # None /\ hand[w] = <<>> /\ queue[w] # <<>>
      /\ hand' = [hand EXCEPT ![w] = <<Head(queue[w])>>]
      /\ queue' = [queue EXCEPT ![w] = Tail(queue[w])]
      /\ UNCHANGED <<log, hist, current, err, room, cursor>>
  BY MemoryAssumption DEF NextReceive, WatchInv, OnlyCurrentIsOpen
<1>2. /\ queue \in [Watcher -> Seq(EventRec)] /\ hand \in [Watcher -> Seq(EventRec)]
  BY DEF WatchInv, WatchTypeOK
<1>3. PICK s \in Nat, q \in Seq(EventRec) :
          /\ s = cursor[w].seq /\ q = queue[w] /\ q # <<>>
          /\ cursor[w].epoch = log.epoch
          /\ s + Len(q) = Len(hist)
          /\ \A i \in 1..Len(q) : q[i] = hist[s + i]
  <2>1. PICK s \in Nat, q \in Seq(EventRec), a \in Seq(EventRec) :
            /\ s = cursor[w].seq /\ q = queue[w] /\ a = hand[w]
    BY <1>1, HeldByCurrent
  <2>2. cursor[w].epoch = log.epoch /\ Holds(s, a, q)
    BY <1>1, <2>1, HeldByCurrent
  <2>3. Len(a) = 0 /\ s + 0 = s
    BY <1>1, <2>1
  <2>4. s + Len(q) = Len(hist) /\ \A i \in 1..Len(q) : q[i] = hist[s + i]
    BY <2>2, <2>3 DEF Holds
  <2> QED BY <1>1, <2>1, <2>2, <2>4
<1>4. /\ Tail(q) \in Seq(EventRec) /\ Len(q) > 0
      /\ Len(Tail(q)) = Len(q) - 1
      /\ \A i \in 1..Len(q) - 1 : Tail(q)[i] = q[i + 1]
      /\ Head(q) = q[1] /\ Head(q) \in EventRec
  BY <1>3, WithoutFirst
<1>5. PICK a \in Seq(EventRec), r \in Seq(EventRec) : a = <<Head(q)>> /\ r = Tail(q)
  <2>1. <<Head(q)>> \in Seq(EventRec)
    BY <1>4
  <2> QED BY <1>4, <2>1
<1>6. /\ Len(a) = 1 /\ a[1] = q[1]
  BY <1>4, <1>5
<1>7. hand'[w] = a /\ queue'[w] = r
  BY <1>1, <1>2, <1>3, <1>5
<1>8. WatchTypeOK'
  <2>1. queue' \in [Watcher -> Seq(EventRec)] /\ hand' \in [Watcher -> Seq(EventRec)]
    BY <1>1, <1>2, <1>3, <1>5
  <2> QED BY <1>1, <2>1 DEF WatchInv, WatchTypeOK
<1>9. OnlyCurrentIsOpen' /\ LogKeepsTheLast' /\ CursorsAreBehind'
  BY <1>1 DEF WatchInv, OnlyCurrentIsOpen, LogKeepsTheLast, Oldest, CursorsAreBehind
<1>10. ObservationFollows'
  <2>1. s + Len(a) + Len(r) = Len(hist)
    <3>1. PICK x \in Nat : x = Len(q)
      OBVIOUS
    <3>2. Len(r) = x - 1 /\ Len(a) = 1 /\ x > 0
      BY <1>4, <1>5, <1>6, <3>1
    <3>3. s + 1 + (x - 1) = s + x
      BY <3>2
    <3> QED BY <1>3, <3>1, <3>2, <3>3
  <2>2. \A i \in 1..Len(a) : a[i] = hist[s + i]
    BY <1>3, <1>4, <1>6
  <2>3. \A i \in 1..Len(r) : r[i] = hist[s + Len(a) + i]
    <3> SUFFICES ASSUME NEW i \in 1..Len(r) PROVE r[i] = hist[s + Len(a) + i]
      OBVIOUS
    <3>1. i \in 1..Len(q) - 1 /\ i + 1 \in 1..Len(q)
      BY <1>4, <1>5
    <3>2. r[i] = hist[s + (i + 1)]
      BY <1>3, <1>4, <1>5, <3>1
    <3>3. s + Len(a) + i = s + (i + 1)
      BY <1>6
    <3> QED BY <3>2, <3>3
  <2>4. current' = w /\ cursor'[w] = cursor[w] /\ hist' = hist /\ log' = log
    BY <1>1
  <2>5. Holds(s, a, r)'
    BY <1>6, <2>1, <2>2, <2>3, <2>4 DEF Holds
  <2> QED BY <1>3, <1>7, <2>4, <2>5 DEF ObservationFollows
<1> QED BY <1>8, <1>9, <1>10 DEF WatchInv

LEMMA NextReturnKeepsWatch ==
    ASSUME WatchInv, NEW w \in Watcher, NextReturn(w)
    PROVE  WatchInv'
<1>1. /\ hand[w] # <<>>
      /\ hand' = [hand EXCEPT ![w] = <<>>]
      /\ UNCHANGED <<log, hist, current, err, queue, room>>
  BY DEF NextReturn
<1>2. /\ hand \in [Watcher -> Seq(EventRec)] /\ cursor \in [Watcher -> CursorRec]
      /\ err[w] = "open" <=> current = w
      /\ w # None
  BY MemoryAssumption DEF WatchInv, WatchTypeOK, OnlyCurrentIsOpen
<1>3. hand' \in [Watcher -> Seq(EventRec)]
  <2>1. <<>> \in Seq(EventRec)
    OBVIOUS
  <2> QED BY <1>1, <1>2, <2>1
<1>4. OnlyCurrentIsOpen' /\ LogKeepsTheLast'
  BY <1>1 DEF WatchInv, OnlyCurrentIsOpen, LogKeepsTheLast, Oldest
<1>5. CASE err[w] # "open"
  <2>1. cursor' = cursor /\ current # w
    BY <1>2, <1>5 DEF NextReturn
  <2>2. current # None => hand'[current] = hand[current]
    BY <1>1, <1>2, <2>1 DEF WatchInv, WatchTypeOK
  <2>3. WatchTypeOK' /\ CursorsAreBehind'
    BY <1>1, <1>3, <2>1 DEF WatchInv, WatchTypeOK, CursorsAreBehind
  <2>4. ObservationFollows'
    BY <1>1, <2>1, <2>2 DEF WatchInv, ObservationFollows, Holds
  <2> QED BY <1>4, <2>3, <2>4 DEF WatchInv
<1>6. CASE err[w] = "open"
  <2>1. current = w /\ cursor' = [cursor EXCEPT ![w] = hand[w][1].cursor]
    BY <1>2, <1>6 DEF NextReturn
  <2>i. PICK s \in Nat, q \in Seq(EventRec), a \in Seq(EventRec) :
            /\ s = cursor[w].seq /\ q = queue[w] /\ a = hand[w]
    BY <2>1, HeldByCurrent
  <2>h. cursor[w].epoch = log.epoch /\ Holds(s, a, q)
    BY <2>1, <2>i, HeldByCurrent
  <2>2. /\ s = cursor[w].seq /\ q = queue[w] /\ a = hand[w]
        /\ cursor[w].epoch = log.epoch /\ Len(a) <= 1
        /\ s + Len(a) + Len(q) = Len(hist)
        /\ \A i \in 1..Len(a) : a[i] = hist[s + i]
        /\ \A i \in 1..Len(q) : q[i] = hist[s + Len(a) + i]
    BY <2>i, <2>h DEF Holds
  <2>3. Len(a) = 1 /\ a[1] = hist[s + 1]
    <3>1. Len(a) = 1
      <4>1. a # <<>> /\ Len(a) <= 1
        BY <1>1, <2>2
      <4>2. Len(a) > 0
        BY <4>1, WithoutFirst
      <4>3. PICK x \in Nat : x = Len(a)
        OBVIOUS
      <4>4. x = 1
        BY <4>1, <4>2, <4>3
      <4> QED BY <4>3, <4>4
    <3> QED BY <2>2, <3>1
  <2>4. s + 1 \in 1..Len(hist) /\ Len(hist) \in Nat
    BY <2>2, <2>3 DEF WatchInv, WatchTypeOK
  <2>5. hist[s + 1].cursor = Cursor(log.epoch, s + 1) /\ log.next = Len(hist)
    BY <2>4 DEF WatchInv, LogKeepsTheLast
  <2>6. PICK c : c = Cursor(log.epoch, s + 1)
    OBVIOUS
  <2>7. /\ c \in CursorRec /\ c.epoch = log.epoch /\ c.seq = s + 1
        /\ c.seq <= log.next /\ log.epoch \in Nat
    BY <2>4, <2>5, <2>6 DEF Cursor, CursorRec, WatchInv, WatchTypeOK, LogRec
  <2>8. cursor' = [cursor EXCEPT ![w] = c]
    BY <2>1, <2>2, <2>3, <2>5, <2>6
  <2>9. \A v \in Watcher : cursor'[v] = IF v = w THEN c ELSE cursor[v]
    BY <1>2, <2>8
  <2>10. WatchTypeOK'
    <3>1. cursor' \in [Watcher -> CursorRec]
      BY <1>2, <2>7, <2>8
    <3> QED BY <1>1, <1>3, <3>1 DEF WatchInv, WatchTypeOK
  <2>11. CursorsAreBehind'
    <3>1. c.epoch <= log.epoch
      BY <2>7
    <3> QED BY <1>1, <2>7, <2>9, <3>1 DEF WatchInv, CursorsAreBehind
  <2>12. ObservationFollows'
    <3>1. /\ current' = w /\ cursor'[w] = c /\ hand'[w] = <<>> /\ Len(hand'[w]) = 0
          /\ hist' = hist /\ log' = log /\ queue'[w] = q
      BY <1>1, <1>2, <2>1, <2>2, <2>9
    <3>2. c.seq + 0 + Len(q) = Len(hist)
      BY <2>2, <2>3, <2>7
    <3>3. \A i \in 1..Len(q) : q[i] = hist[c.seq + 0 + i]
      BY <2>2, <2>3, <2>7
    <3>4. Holds(c.seq, <<>>, q)'
      BY <3>1, <3>2, <3>3 DEF Holds
    <3> QED BY <2>7, <3>1, <3>4 DEF ObservationFollows
  <2> QED BY <1>4, <2>10, <2>11, <2>12 DEF WatchInv
<1> QED BY <1>5, <1>6

LEMMA QuietKeepsWatch == ASSUME WatchInv, UNCHANGED watchVars PROVE WatchInv'
<1>1. UNCHANGED <<log, hist, current, err, queue, room, cursor, hand>>
  BY DEF watchVars
<1>2. WatchTypeOK' /\ OnlyCurrentIsOpen' /\ LogKeepsTheLast'
  BY <1>1 DEF WatchInv, WatchTypeOK, OnlyCurrentIsOpen, LogKeepsTheLast, Oldest
<1>3. CursorsAreBehind' /\ ObservationFollows'
  BY <1>1 DEF WatchInv, CursorsAreBehind, ObservationFollows, Holds
<1> QED BY <1>2, <1>3 DEF WatchInv

----------------------------------------------------------------------------
(* The terminal, and the environment as a whole.                           *)

LEMMA BroadcastTypes ==
    ASSUME TermTypeOK, NEW t \in Terminal
    PROVE  Broadcast(t) \in [Terminal -> {"none", "running", "asleep"}]
BY DEF TermTypeOK, Broadcast

LEMMA AttachKeepsTerm ==
    ASSUME TermInv, NEW t \in Terminal, Attach(t)
    PROVE  TermInv'
<1>1. /\ term # None => Finished(term)
      /\ term' = t /\ state' = [state EXCEPT ![t] = "live"]
      /\ UNCHANGED <<bytes, reader>>
  BY DEF Attach
<1>2. TermTypeOK'
  BY <1>1 DEF TermInv, TermTypeOK
<1>3. \A u \in Terminal : state[u] # "live"
  BY <1>1, MemoryAssumption DEF TermInv, TermTypeOK, OnlyTermIsLive, Finished
<1>4. OnlyTermIsLive'
  BY <1>1, <1>3 DEF TermInv, TermTypeOK, OnlyTermIsLive
<1> QED BY <1>2, <1>4 DEF TermInv

\* kill leaves no terminal behind.
LEMMA KillTermEnds ==
    ASSUME TermInv, NEW reason \in {"frozen", "revoked"}, KillTerm(reason)
    PROVE  TermInv' /\ term' = None
<1>1. term' = None /\ bytes' = bytes
  BY DEF KillTerm
<1>2. CASE term = None
  <2>1. state' = state /\ reader' = reader
    BY <1>2 DEF KillTerm
  <2> QED BY <1>1, <1>2, <2>1 DEF TermInv, TermTypeOK, OnlyTermIsLive
<1>3. CASE term # None
  <2>1. term \in Terminal /\ state' = [state EXCEPT ![term] = reason]
        /\ reader' = Broadcast(term)
    BY <1>3 DEF KillTerm, TermInv, TermTypeOK
  <2>2. TermTypeOK'
    BY <1>1, <2>1, BroadcastTypes DEF TermInv, TermTypeOK
  <2>3. OnlyTermIsLive'
    BY <1>1, <2>1 DEF TermInv, TermTypeOK, OnlyTermIsLive
  <2> QED BY <1>1, <2>2, <2>3 DEF TermInv
<1> QED BY <1>2, <1>3

LEMMA TermStepKeepsTerm ==
    ASSUME TermInv, NEW t \in Terminal,
           Write(t) \/ CloseTerm(t) \/ ReadBegin(t) \/ ReadTurn(t)
    PROVE  TermInv' /\ term' = term
<1>1. CASE Write(t)
  <2>1. bytes' \in [Terminal -> Nat] /\ reader' = Broadcast(t) /\ UNCHANGED <<term, state>>
    BY <1>1 DEF Write, TermInv, TermTypeOK
  <2> QED BY <2>1, BroadcastTypes DEF TermInv, TermTypeOK, OnlyTermIsLive
<1>2. CASE CloseTerm(t)
  <2>1. /\ state' = [state EXCEPT ![t] = "closed"]
        /\ reader' = Broadcast(t) /\ UNCHANGED <<term, bytes>>
    BY <1>2 DEF CloseTerm
  <2> QED BY <2>1, BroadcastTypes DEF TermInv, TermTypeOK, OnlyTermIsLive
<1>3. CASE ReadBegin(t)
  BY <1>3 DEF ReadBegin, TermInv, TermTypeOK, OnlyTermIsLive
<1>4. CASE ReadTurn(t)
  <2>1. UNCHANGED <<term, state>>
    BY <1>4 DEF ReadTurn
  <2>2. reader' \in [Terminal -> {"none", "running", "asleep"}]
    BY <1>4 DEF ReadTurn, TermInv, TermTypeOK
  <2>3. bytes' \in [Terminal -> Nat]
    BY <1>4 DEF ReadTurn, TermInv, TermTypeOK
  <2> QED BY <2>1, <2>2, <2>3 DEF TermInv, TermTypeOK, OnlyTermIsLive
<1> QED BY <1>1, <1>2, <1>3, <1>4

LEMMA QuietKeepsTerm == ASSUME TermInv, UNCHANGED termVars PROVE TermInv' /\ term' = term
BY DEF TermInv, TermTypeOK, OnlyTermIsLive, termVars

LEMMA EnvNextInv == EnvInv /\ [Next]_vars => EnvInv'
<1> SUFFICES ASSUME EnvInv, [Next]_vars PROVE EnvInv'
  OBVIOUS
<1>i. /\ frozen \in BOOLEAN /\ revoked \in BOOLEAN
      /\ WatchInv /\ TermInv
      /\ frozen \/ revoked => current = None /\ term = None
  BY DEF EnvInv
<1>1. CASE UNCHANGED vars
  <2>1. UNCHANGED <<frozen, revoked, current>> /\ UNCHANGED watchVars /\ UNCHANGED termVars
    BY <1>1 DEF vars, envVars, watchVars, termVars
  <2> QED BY <1>i, <2>1, QuietKeepsWatch, QuietKeepsTerm DEF EnvInv
<1>2. CASE Guest
  <2>1. Guard /\ Emit /\ UNCHANGED <<frozen, revoked, termVars>>
    BY <1>2 DEF Guest, WriteGuest, RemoveGuest, MoveGuest
  <2>2. WatchInv' /\ TermInv' /\ ~frozen' /\ ~revoked'
    BY <1>i, <2>1, EmitKeepsWatch, QuietKeepsTerm DEF Guard
  <2> QED BY <1>i, <2>1, <2>2 DEF EnvInv, Guard
<1>3. ASSUME NEW tree \in Trees, ReplaceTree(tree) PROVE EnvInv'
  <2>1. Guard /\ UNCHANGED <<frozen, revoked, termVars>>
    BY <1>3 DEF ReplaceTree
  <2>2. WatchInv' /\ TermInv'
    BY <1>i, <1>3, <2>1, ReplaceTreeKeepsWatch, QuietKeepsTerm
  <2> QED BY <1>i, <2>1, <2>2 DEF EnvInv, Guard
<1>4. ASSUME NEW mut \in Mutations, ApplyBatch(mut) PROVE EnvInv'
  <2>1. Guard /\ UNCHANGED <<frozen, revoked>> /\ UNCHANGED watchVars /\ UNCHANGED termVars
    BY <1>4 DEF ApplyBatch
  <2> QED BY <1>i, <2>1, QuietKeepsWatch, QuietKeepsTerm DEF EnvInv, Guard
<1>5. ASSUME NEW t \in Terminal, Attach(t) PROVE EnvInv'
  <2>1. Guard /\ UNCHANGED <<frozen, revoked>> /\ UNCHANGED watchVars
    BY <1>5 DEF Attach, envVars
  <2> QED BY <1>i, <1>5, <2>1, QuietKeepsWatch, AttachKeepsTerm DEF EnvInv, Guard
<1>6. ASSUME NEW t \in Terminal,
             Write(t) \/ CloseTerm(t) \/ ReadBegin(t) \/ ReadTurn(t)
      PROVE  EnvInv'
  <2>1. UNCHANGED <<frozen, revoked>> /\ UNCHANGED watchVars
    BY <1>6 DEF Write, CloseTerm, ReadBegin, ReadTurn, envVars
  <2>2. current' = current
    BY <2>1 DEF watchVars
  <2>3. WatchInv' /\ TermInv' /\ term' = term
    BY <1>i, <1>6, <2>1, QuietKeepsWatch, TermStepKeepsTerm
  <2> QED BY <1>i, <2>1, <2>2, <2>3 DEF EnvInv
<1>7. CASE Freeze
  <2>1. /\ KillTerm("frozen") /\ FailWatch("frozen") /\ frozen' = TRUE /\ revoked' = revoked
        /\ UNCHANGED <<log, hist, cursor, hand>>
    BY <1>7 DEF Freeze
  <2>2. WatchInv' /\ current' = None
    BY <1>i, <2>1, FailWatchKeepsWatch
  <2>3. TermInv' /\ term' = None
    BY <1>i, <2>1, KillTermEnds
  <2> QED BY <1>i, <2>1, <2>2, <2>3 DEF EnvInv
<1>8. CASE Thaw
  <2>1. /\ ~revoked /\ frozen' = FALSE /\ revoked' = revoked
        /\ UNCHANGED watchVars /\ UNCHANGED termVars
    BY <1>8 DEF Thaw
  <2> QED BY <1>i, <2>1, QuietKeepsWatch, QuietKeepsTerm DEF EnvInv
<1>9. CASE Revoke
  <2>1. /\ KillTerm("revoked") /\ FailWatch("revoked") /\ frozen' = FALSE /\ revoked' = TRUE
        /\ UNCHANGED <<log, hist, cursor, hand>>
    BY <1>9 DEF Revoke
  <2>2. WatchInv' /\ current' = None
    BY <1>i, <2>1, FailWatchKeepsWatch
  <2>3. TermInv' /\ term' = None
    BY <1>i, <2>1, KillTermEnds
  <2> QED BY <2>1, <2>2, <2>3 DEF EnvInv
<1>10. ASSUME NEW w \in Watcher, Watch(w, NoCursor) \/ Watch(w, cursor[w])
       PROVE  EnvInv'
  <2>1. Guard /\ UNCHANGED <<frozen, revoked>> /\ UNCHANGED termVars
    BY <1>10 DEF Watch, envVars
  <2>2. WatchInv'
    BY <1>i, <1>10, WatchKeepsWatch
  <2> QED BY <1>i, <2>1, <2>2, QuietKeepsTerm DEF EnvInv, Guard
<1>11. ASSUME NEW w \in Watcher, NextReceive(w) \/ NextReturn(w) PROVE EnvInv'
  <2>1. UNCHANGED <<frozen, revoked, current>> /\ UNCHANGED termVars
    BY <1>11 DEF NextReceive, NextReturn, envVars
  <2>2. WatchInv' /\ TermInv' /\ term' = term
    BY <1>i, <1>11, <2>1, NextReceiveKeepsWatch, NextReturnKeepsWatch, QuietKeepsTerm
  <2> QED BY <1>i, <2>1, <2>2 DEF EnvInv
<1>12. ASSUME NEW w \in Watcher, CloseObs(w) PROVE EnvInv'
  <2>1. /\ FailWatch("closed") /\ UNCHANGED <<frozen, revoked>>
        /\ UNCHANGED <<log, hist, cursor, hand>> /\ UNCHANGED termVars
    BY <1>12 DEF CloseObs, envVars
  <2>2. WatchInv' /\ current' = None
    BY <1>i, <2>1, FailWatchKeepsWatch
  <2>3. TermInv' /\ term' = term
    BY <1>i, <2>1, QuietKeepsTerm
  <2> QED BY <1>i, <2>1, <2>2, <2>3 DEF EnvInv
<1> QED BY <1>1, <1>2, <1>3, <1>4, <1>5, <1>6, <1>7, <1>8, <1>9, <1>10, <1>11, <1>12
        DEF Next

LEMMA EnvSpecInv == Spec => []EnvInv
<1>1. Init => EnvInv
  <2> SUFFICES ASSUME Init PROVE EnvInv
    OBVIOUS
  <2>1. <<>> \in Seq(EventRec) /\ NoCursor \in CursorRec /\ NoCursor.epoch = 0
    BY DEF CursorRec, NoCursor, Cursor
  <2>2. /\ log \in LogRec /\ log.epoch = 1 /\ log.next = 0
        /\ log.events = <<>> /\ Len(log.events) = 0
    BY <2>1 DEF Init, NewLog, LogRec
  <2>3. WatchTypeOK
    BY <2>1, <2>2 DEF Init, WatchTypeOK
  <2>4. LogKeepsTheLast
    BY <2>2, MemoryAssumption DEF Init, LogKeepsTheLast
  <2>5. CursorsAreBehind
    BY <2>1, <2>2 DEF Init, CursorsAreBehind
  <2>6. OnlyCurrentIsOpen /\ ObservationFollows
    BY MemoryAssumption DEF Init, OnlyCurrentIsOpen, ObservationFollows
  <2>7. TermInv
    BY DEF Init, TermInv, TermTypeOK, OnlyTermIsLive
  <2> QED BY <2>3, <2>4, <2>5, <2>6, <2>7 DEF Init, EnvInv, WatchInv
<1> QED BY <1>1, EnvNextInv, PTL DEF Spec

\* The state that the operations on an environment, its observation and its
\* terminal leave is well typed.
THEOREM EnvTypesHold == Spec => []EnvTypeOK
<1>1. EnvInv => EnvTypeOK
  BY DEF EnvInv, WatchInv, TermInv, EnvTypeOK
<1> QED BY <1>1, EnvSpecInv, PTL

\* No guest event is lost or repeated on the way to an observation, for any
\* capacity of the log and of the channel, any number of watchers and any
\* order of overflow, eviction, resumption and ReplaceTree (emit, Watch, Next
\* and watchlog.Since).
THEOREM NoEventIsLost == Spec => []NoGap
<1>1. EnvInv => NoGap
  <2> SUFFICES ASSUME EnvInv, current # None
               PROVE  /\ cursor[current].epoch = log.epoch
                      /\ hand[current] \o queue[current] =
                            SubSeq(hist, cursor[current].seq + 1, Len(hist))
    BY DEF NoGap
  <2>1. PICK w \in Watcher : w = current
    BY DEF EnvInv, WatchInv, WatchTypeOK
  <2>2. /\ WatchInv /\ cursor[w].epoch = log.epoch /\ cursor[w].seq \in Nat
        /\ queue[w] \in Seq(EventRec) /\ hand[w] \in Seq(EventRec)
        /\ Holds(cursor[w].seq, hand[w], queue[w])
        /\ hist \in Seq(EventRec)
    BY <2>1, HeldByCurrent DEF EnvInv, WatchInv, WatchTypeOK
  <2>3. PICK s \in Nat, a \in Seq(EventRec), q \in Seq(EventRec) :
            s = cursor[w].seq /\ a = hand[w] /\ q = queue[w]
    BY <2>2
  <2>4. /\ s + Len(a) + Len(q) = Len(hist)
        /\ \A i \in 1..Len(a) : a[i] = hist[s + i]
        /\ \A i \in 1..Len(q) : q[i] = hist[s + Len(a) + i]
    BY <2>2, <2>3 DEF Holds
  <2>5. s + 1 \in 1..Len(hist) + 1 /\ Len(hist) \in Nat
    BY <2>2, <2>4
  <2>6. PICK r : r = SubSeq(hist, s + 1, Len(hist))
    OBVIOUS
  <2>7. /\ r \in Seq(EventRec) /\ Len(r) = (Len(hist) + 1) - (s + 1)
        /\ \A i \in 1..(Len(hist) + 1) - (s + 1) : r[i] = hist[(s + 1) - 1 + i]
    BY <2>2, <2>5, <2>6, LaterPart
  <2>8. Len(r) = Len(a) + Len(q) /\ \A i \in 1..Len(r) : r[i] = hist[s + i]
    BY <2>4, <2>5, <2>7
  <2>9. /\ a \o q \in Seq(EventRec) /\ Len(a \o q) = Len(a) + Len(q)
        /\ \A i \in 1..Len(a) : (a \o q)[i] = a[i]
        /\ \A i \in 1..Len(q) : (a \o q)[Len(a) + i] = q[i]
    OBVIOUS
  <2>10. \A i \in 1..Len(a \o q) : (a \o q)[i] = r[i]
    <3> SUFFICES ASSUME NEW i \in 1..Len(a) + Len(q) PROVE (a \o q)[i] = hist[s + i]
      BY <2>8, <2>9
    <3>1. CASE i \in 1..Len(a)
      BY <2>4, <2>9, <3>1
    <3>2. CASE i \notin 1..Len(a)
      <4>1. PICK k \in 1..Len(q) : i = Len(a) + k
        <5>1. i - Len(a) \in 1..Len(q) /\ i = Len(a) + (i - Len(a))
          BY <3>2
        <5> QED BY <5>1
      <4>2. s + Len(a) + k = s + (Len(a) + k)
        OBVIOUS
      <4> QED BY <2>4, <2>9, <4>1, <4>2
    <3> QED BY <3>1, <3>2
  <2>11. a \o q = r
    BY <2>7, <2>8, <2>9, <2>10, SameSeq
  <2> QED BY <2>1, <2>2, <2>3, <2>6, <2>11
<1> QED BY <1>1, EnvSpecInv, PTL

\* A client that is at most as far behind as the log is long is never told
\* that it lagged, unless the tree was replaced in between (Append and Since
\* of watchlog).
THEOREM RecentCursorsResume == Spec => []RecentCursorResumes
<1>1. EnvInv => RecentCursorResumes
  <2> SUFFICES ASSUME EnvInv, NEW w \in Watcher, cursor[w].epoch = log.epoch,
                      Len(hist) - cursor[w].seq <= LogCapacity
               PROVE  CanResume(log, cursor[w])
    BY DEF RecentCursorResumes
  <2>1. /\ cursor[w].seq <= log.next /\ log.next = Len(hist)
        /\ Len(log.events) <= LogCapacity
        /\ Len(log.events) < LogCapacity => Len(log.events) = log.next
        /\ cursor[w].seq \in Nat /\ log.next \in Nat /\ Len(log.events) \in Nat
    BY DEF EnvInv, WatchInv, WatchTypeOK, LogRec, CursorRec, LogKeepsTheLast, CursorsAreBehind
  <2>2. cursor[w].seq >= log.next - Len(log.events)
    <3>1. CASE Len(log.events) < LogCapacity
      BY <2>1, <3>1
    <3>2. CASE ~(Len(log.events) < LogCapacity)
      BY <2>1, <3>2, MemoryAssumption
    <3> QED BY <3>1, <3>2
  <2> QED BY <2>1, <2>2 DEF CanResume, Oldest
<1> QED BY <1>1, EnvSpecInv, PTL

\* No observation or terminal survives a Freeze or a revocation, and at most
\* one of each is in use, for any number of watchers and terminals (failWatch,
\* kill and the checks of Watch and Attach).
THEOREM StoppedStaysQuiet == Spec => []StoppedIsQuiet
<1>1. EnvInv => StoppedIsQuiet
  BY DEF EnvInv, WatchInv, TermInv, OnlyCurrentIsOpen, OnlyTermIsLive, StoppedIsQuiet
<1> QED BY <1>1, EnvSpecInv, PTL
=============================================================================

------------------------- MODULE IsolatedHostProofs -------------------------
(***************************************************************************)
(* Safety of the isolated host for any number of ids, callers, launches    *)
(* and daemon deaths.  The properties of IsolatedHost follow from one      *)
(* inductive invariant, Inv, whose parts say what every value of pc means  *)
(* for the caller's launch, what the entries of the two maps are, and who  *)
(* answers for every microVM and tap device.  From it follows, at the end, *)
(* that the host stays within its slots and implements the occupancy       *)
(* contract.                                                               *)
(***************************************************************************)
EXTENDS IsolatedHost, FiniteSetTheorems, TLAPS

Made == 1..launched
RunLabel == {"setup", "start", "dial", "handshake", "complete"}

\* What a caller's label says of its request and its launch.
CallerOK ==
    \A c \in Caller :
        /\ pc[c] \in RunLabel \cup {"wait", "verify", "cleanup"}
              => req[c] \in SpecRec
        /\ pc[c] \in RunLabel \cup {"wait"}
              => ref[c] \in Made /\ spec[ref[c]] = req[c]
        /\ pc[c] \in {"revoke", "rwait", "stop", "remove"} => req[c].id \in ID
        /\ pc[c] \in {"rwait", "stop"} => ref[c] \in Made
        /\ pc[c] = "idle" /\ res[c] = "ok" /\ ref[c] # None
              => ref[c] \in Made /\ spec[ref[c]] = req[c]

\* What an entry of Host.grants and of Host.pending is.
MapsOK ==
    \A id \in ID :
        /\ grants[id] # None =>
              /\ grants[id] \in Made
              /\ spec[grants[id]] \in SpecRec
              /\ spec[grants[id]].id = id
              /\ pending[id] = None
              /\ outcome[grants[id]] = "ok"
              /\ grants[id] \notin revoked
        /\ pending[id] # None =>
              /\ pending[id] \in Made
              /\ spec[pending[id]] \in SpecRec
              /\ spec[pending[id]].id = id
              /\ outcome[pending[id]] = "none"

\* A launch has a spec from when it is made, and an outcome only after.
LaunchOK ==
    /\ \A n \in Made : spec[n] \in SpecRec
    /\ \A n \in Launch \ Made : outcome[n] = "none"

\* A launch in flight and the goroutine that carries it out.
RunnersOK ==
    /\ \A c \in Caller : pc[c] \in RunLabel => pending[req[c].id] = ref[c]
    /\ \A c, d \in Caller :
          pc[c] \in RunLabel /\ pc[d] \in RunLabel /\ ref[c] = ref[d] => c = d
    /\ \A id \in ID : pending[id] # None =>
          \E c \in Caller : /\ pc[c] \in RunLabel
                            /\ ref[c] = pending[id]
                            /\ req[c].id = id

\* What is waited for is in flight or concluded.
WaitOK ==
    \A c \in Caller : pc[c] \in {"wait", "rwait"} =>
        \/ outcome[ref[c]] # "none"
        \/ \E id \in ID : pending[id] = ref[c]

\* Where the microVM of a launch runs, and who stops it.
MachineOK ==
    /\ running \subseteq Made
    /\ revoked \subseteq Made
    /\ \A c \in Caller :
          /\ pc[c] \in {"setup", "start"} => ref[c] \notin running \cup revoked
          /\ pc[c] \in {"dial", "handshake"} => ref[c] \notin revoked
          /\ pc[c] = "complete" =>
                \/ res[c] = "ok" /\ ref[c] \notin revoked
                \/ res[c] = "failed" /\ ref[c] \notin running
          /\ pc[c] = "stop" =>
                /\ outcome[ref[c]] = "ok"
                /\ spec[ref[c]].id = req[c].id
                /\ \A id \in ID : grants[id] # ref[c]
    /\ \A n \in running :
          \/ \E c \in Caller : /\ pc[c] \in {"dial", "handshake", "complete"}
                               /\ ref[c] = n
          \/ grants[spec[n].id] = n
          \/ \E c \in Caller : pc[c] = "stop" /\ ref[c] = n

\* Where the tap device of an id comes from, and who closes it.
TapOK ==
    /\ \A id \in ID : tap[id] # None =>
          tap[id] \in Made /\ spec[tap[id]].id = id
    /\ \A c \in Caller :
          pc[c] = "setup" \/ (pc[c] = "complete" /\ res[c] = "failed")
             => tap[req[c].id] # ref[c]
    /\ TapAccounted

\* A launch that ended and is in neither map.
Over(n) ==
    /\ outcome[n] # "none"
    /\ \A id \in ID : grants[id] # n /\ pending[id] # n

\* What a Revoke still has to end of what it saw.
SeenOK ==
    \A c \in Caller : \A n \in seen[c] :
        /\ n \in Made
        /\ pc[c] \in {"revoke", "rwait"} =>
              grants[req[c].id] = n \/ pending[req[c].id] = n \/ Over(n)
        /\ pc[c] \in {"idle", "stop", "remove"} => Over(n)

Inv ==
    /\ TypeOK
    /\ CallerOK
    /\ MapsOK
    /\ LaunchOK
    /\ RunnersOK
    /\ WaitOK
    /\ MachineOK
    /\ TapOK
    /\ SeenOK

LEMMA NoneIsNoLaunch == None \notin Launch
BY HostAssumption DEF Launch

LEMMA MadeIsLaunch == ASSUME TypeOK PROVE Made \subseteq Launch
BY HostAssumption DEF TypeOK, Made, Launch

\* The part of the types that the steps below need.
LEMMA Shape ==
    ASSUME Inv
    PROVE  /\ grants \in [ID -> LaunchOrNone]
           /\ pending \in [ID -> LaunchOrNone]
           /\ tap \in [ID -> LaunchOrNone]
           /\ spec \in [Launch -> SpecRec \cup {NoSpec}]
           /\ outcome \in [Launch -> {"none", "ok", "failed"}]
           /\ pc \in [Caller -> Label]
           /\ ref \in [Caller -> LaunchOrNone]
           /\ req = [c \in Caller |-> req[c]]
           /\ res \in [Caller -> Result]
           /\ seen \in [Caller -> SUBSET Launch]
           /\ Made \subseteq Launch
           /\ None \notin Launch
BY NoneIsNoLaunch, MadeIsLaunch DEF Inv, TypeOK

----------------------------------------------------------------------------
(* Steps that change nothing but where one caller is: the caller c goes to *)
(* label l with request s, launch n, result r and history S.               *)

Request == [id : ID \cup {None}, image : Image \cup {None},
            network : Network \cup {None}]

LEMMA CallerStepKeepsInv ==
    ASSUME Inv,
           NEW c \in Caller, NEW l \in Label, NEW s \in Request,
           NEW n \in LaunchOrNone, NEW r \in Result, NEW S \in SUBSET Made,
           pc[c] \notin RunLabel \cup {"stop"},
           l \notin RunLabel \cup {"stop"},
           l \in {"wait", "verify", "cleanup"} => s \in SpecRec,
           l = "wait" => n \in Made /\ spec[n] = s,
           l \in {"revoke", "rwait", "remove"} => s.id \in ID,
           l = "rwait" => n \in Made,
           l = "idle" /\ r = "ok" /\ n # None => n \in Made /\ spec[n] = s,
           l \in {"wait", "rwait"} =>
              outcome[n] # "none" \/ \E id \in ID : pending[id] = n,
           l \in {"revoke", "rwait"} => \A m \in S :
              grants[s.id] = m \/ pending[s.id] = m \/ Over(m),
           l \in {"idle", "remove"} => \A m \in S : Over(m),
           pc' = [pc EXCEPT ![c] = l], req' = [req EXCEPT ![c] = s],
           ref' = [ref EXCEPT ![c] = n], res' = [res EXCEPT ![c] = r],
           seen' = [seen EXCEPT ![c] = S], ctx' \in [Caller -> BOOLEAN],
           cancelled' \in SUBSET Launch,
           dir' \in [ID -> SUBSET Launch], sock' \in [ID -> LaunchOrNone],
           UNCHANGED <<grants, pending, launched, spec, outcome, revoked,
                       running, link, tap, crashes>>
    PROVE  Inv'
<1>1. Made' = Made
  BY DEF Made
<1>2. TypeOK'
  BY Shape DEF Inv, TypeOK, Request
<1>3. CallerOK'
  BY <1>1, Shape DEF Inv, CallerOK, RunLabel
<1>4. MapsOK'
  BY <1>1 DEF Inv, MapsOK
<1>5. LaunchOK'
  BY <1>1 DEF Inv, LaunchOK
<1>6. RunnersOK'
  BY <1>1, Shape DEF Inv, RunnersOK
<1>7. WaitOK'
  BY <1>1, Shape DEF Inv, WaitOK
<1>8. MachineOK'
  <2>1. \A d \in Caller \ {c} : pc'[d] = pc[d] /\ ref'[d] = ref[d]
                                 /\ req'[d] = req[d] /\ res'[d] = res[d]
    BY Shape
  <2>2. pc'[c] = l
    BY Shape
  <2>3. \A d \in Caller :
           pc'[d] \in RunLabel \cup {"stop"} => d # c /\ pc[d] = pc'[d]
    BY <2>1, <2>2
  <2>4. \A m \in running :
           \/ \E d \in Caller : /\ pc'[d] \in {"dial", "handshake", "complete"}
                                /\ ref'[d] = m
           \/ grants[spec[m].id] = m
           \/ \E d \in Caller : pc'[d] = "stop" /\ ref'[d] = m
    BY <2>1 DEF Inv, MachineOK, RunLabel
  <2>5. \A d \in Caller :
          /\ pc'[d] \in {"setup", "start"} => ref'[d] \notin running \cup revoked
          /\ pc'[d] \in {"dial", "handshake"} => ref'[d] \notin revoked
          /\ pc'[d] = "complete" =>
                \/ res'[d] = "ok" /\ ref'[d] \notin revoked
                \/ res'[d] = "failed" /\ ref'[d] \notin running
          /\ pc'[d] = "stop" =>
                /\ outcome[ref'[d]] = "ok"
                /\ spec[ref'[d]].id = req'[d].id
                /\ \A id \in ID : grants[id] # ref'[d]
    BY <2>1, <2>3 DEF Inv, MachineOK, RunLabel
  <2> QED BY <1>1, <2>4, <2>5 DEF Inv, MachineOK
<1>9. TapOK'
  BY <1>1, Shape DEF Inv, TapOK, TapAccounted, Runs, RunLabel
<1>10. SeenOK'
  BY <1>1, Shape DEF Inv, SeenOK, Over
<1> QED BY <1>2, <1>3, <1>4, <1>5, <1>6, <1>7, <1>8, <1>9, <1>10 DEF Inv

LEMMA NoSpecIsRequest ==
    /\ NoSpec \in Request
    /\ SpecRec \subseteq Request
    /\ \A id \in ID : [NoSpec EXCEPT !.id = id] \in Request
                       /\ [NoSpec EXCEPT !.id = id].id = id
BY DEF NoSpec, SpecRec, Request

\* Fail, Return and Continue without any other effect.
LEMMA FailKeepsInv ==
    ASSUME Inv, NEW c \in Caller, Fail(c),
           pc[c] \notin RunLabel \cup {"stop"},
           dir' \in [ID -> SUBSET Launch], sock' \in [ID -> LaunchOrNone],
           UNCHANGED <<hostVars, revoked, running, link, tap, crashes>>
    PROVE  Inv'
<1>1. /\ pc' = [pc EXCEPT ![c] = "idle"]
      /\ req' = [req EXCEPT ![c] = NoSpec]
      /\ ref' = [ref EXCEPT ![c] = None]
      /\ res' = [res EXCEPT ![c] = "none"]
      /\ seen' = [seen EXCEPT ![c] = {}]
  BY DEF Fail, GoTo
<1>2. ctx' \in [Caller -> BOOLEAN] /\ cancelled' \in SUBSET Launch
  BY DEF Fail, Inv, TypeOK, hostVars
<1>3. "idle" \in Label \ (RunLabel \cup {"stop"}) /\ "none" \in Result
      /\ None \in LaunchOrNone
  BY DEF Label, RunLabel, Result, LaunchOrNone
<1>4. /\ UNCHANGED <<grants, pending, launched, spec, outcome>>
      /\ NoSpec \in Request /\ {} \in SUBSET Made
      /\ \A m \in {} : Over(m)
  BY NoSpecIsRequest DEF hostVars
<1> QED
  BY <1>1, <1>2, <1>3, <1>4, CallerStepKeepsInv

LEMMA ReturnKeepsInv ==
    ASSUME Inv, NEW c \in Caller, NEW s \in Request, NEW n \in LaunchOrNone,
           NEW S \in SUBSET Made, Return(c, s, n, S),
           pc[c] \notin RunLabel \cup {"stop"},
           n # None => n \in Made /\ spec[n] = s,
           \A m \in S : Over(m),
           dir' \in [ID -> SUBSET Launch], sock' \in [ID -> LaunchOrNone],
           UNCHANGED <<hostVars, revoked, running, link, tap, crashes>>
    PROVE  Inv'
<1>1. /\ pc' = [pc EXCEPT ![c] = "idle"]
      /\ req' = [req EXCEPT ![c] = s]
      /\ ref' = [ref EXCEPT ![c] = n]
      /\ res' = [res EXCEPT ![c] = "ok"]
      /\ seen' = [seen EXCEPT ![c] = S]
  BY DEF Return, GoTo
<1>2. ctx' \in [Caller -> BOOLEAN] /\ cancelled' \in SUBSET Launch
  BY DEF Return, Inv, TypeOK, hostVars
<1>3. "idle" \in Label \ (RunLabel \cup {"stop"}) /\ "ok" \in Result
  BY DEF Label, RunLabel, Result
<1> QED BY <1>1, <1>2, <1>3, CallerStepKeepsInv DEF hostVars

LEMMA ContinueKeepsInv ==
    ASSUME Inv, NEW c \in Caller, NEW l \in {"wait", "verify", "revoke", "rwait"},
           NEW s \in Request, NEW n \in LaunchOrNone,
           NEW S \in SUBSET Made, Continue(c, l, s, n, S),
           pc[c] \notin RunLabel \cup {"stop"},
           l \in {"wait", "verify"} => s \in SpecRec,
           l = "wait" => n \in Made /\ spec[n] = s,
           l \in {"revoke", "rwait"} => s.id \in ID,
           l = "rwait" => n \in Made,
           l \in {"wait", "rwait"} =>
              outcome[n] # "none" \/ \E id \in ID : pending[id] = n,
           l \in {"revoke", "rwait"} => \A m \in S :
              grants[s.id] = m \/ pending[s.id] = m \/ Over(m),
           cancelled' \in SUBSET Launch,
           UNCHANGED <<grants, pending, launched, spec, outcome, machineVars,
                       crashes>>
    PROVE  Inv'
<1>1. /\ pc' = [pc EXCEPT ![c] = l]
      /\ req' = [req EXCEPT ![c] = s]
      /\ ref' = [ref EXCEPT ![c] = n]
      /\ res' = [res EXCEPT ![c] = "none"]
      /\ seen' = [seen EXCEPT ![c] = S]
  BY DEF Continue, GoTo
<1>2. /\ ctx' \in [Caller -> BOOLEAN]
      /\ dir' \in [ID -> SUBSET Launch] /\ sock' \in [ID -> LaunchOrNone]
  BY DEF Continue, Inv, TypeOK, machineVars
<1>3. l \in Label \ (RunLabel \cup {"stop"}) /\ "none" \in Result
  BY DEF Label, RunLabel, Result
<1> QED BY <1>1, <1>2, <1>3, CallerStepKeepsInv DEF machineVars

\* The types of the machine when a step leaves it alone.
LEMMA MachineShape ==
    ASSUME Inv, UNCHANGED <<hostVars, machineVars>>
    PROVE  /\ dir' \in [ID -> SUBSET Launch] /\ sock' \in [ID -> LaunchOrNone]
           /\ cancelled' \in SUBSET Launch
           /\ UNCHANGED <<revoked, running, link, tap>>
           /\ UNCHANGED <<grants, pending, launched, spec, outcome, cancelled>>
BY DEF Inv, TypeOK, machineVars, hostVars

LEMMA OccupiedKeepsInv ==
    ASSUME Inv, NEW c \in Caller, NEW s \in SpecRec, Occupied(c, s),
           pc[c] \in {"idle", "verify"},
           UNCHANGED <<hostVars, machineVars, crashes>>
    PROVE  Inv'
<1>1. s \in Request /\ s.id \in ID /\ {} \in SUBSET Made
  BY NoSpecIsRequest DEF SpecRec
<1>2. pc[c] \notin RunLabel \cup {"stop"}
  BY DEF RunLabel
<1>3. \A n \in Made : /\ spec[n] \in SpecRec /\ spec[n].id = s.id
                       /\ SameConfig(n, s)
                       => spec[n] = s
  BY DEF SameConfig, SpecRec
<1>4. CASE Fail(c)
  BY <1>2, <1>4, MachineShape, FailKeepsInv
<1>5. CASE /\ grants[s.id] # None
           /\ SameConfig(grants[s.id], s)
           /\ Return(c, s, grants[s.id], {})
  <2>1. /\ grants[s.id] \in LaunchOrNone
        /\ grants[s.id] \in Made /\ spec[grants[s.id]] = s
    BY <1>1, <1>3, <1>5, Shape DEF Inv, MapsOK
  <2> QED BY <1>1, <1>2, <1>5, <2>1, MachineShape, ReturnKeepsInv
<1>6. CASE /\ pending[s.id] # None
           /\ SameConfig(pending[s.id], s)
           /\ Continue(c, "wait", s, pending[s.id], {})
  <2>1. /\ pending[s.id] \in LaunchOrNone
        /\ pending[s.id] \in Made /\ spec[pending[s.id]] = s
    BY <1>1, <1>3, <1>6, Shape DEF Inv, MapsOK
  <2> QED BY <1>1, <1>2, <1>6, <2>1, MachineShape, ContinueKeepsInv
<1> QED BY <1>4, <1>5, <1>6 DEF Occupied

LEMMA CheckKeepsInv ==
    ASSUME Inv, NEW c \in Caller, NEW s \in SpecRec, EnsureCheck(c, s)
    PROVE  Inv'
<1>1. /\ pc[c] = "idle" /\ UNCHANGED <<hostVars, machineVars, crashes>>
      /\ pc[c] \notin RunLabel \cup {"stop"}
  BY DEF EnsureCheck, RunLabel
<1>2. CASE Fail(c)
  BY <1>1, <1>2, MachineShape, FailKeepsInv
<1>3. CASE Occupied(c, s)
  BY <1>1, <1>3, OccupiedKeepsInv
<1>4. CASE Continue(c, "verify", s, None, {})
  <2>1. s \in Request /\ None \in LaunchOrNone
    BY NoSpecIsRequest DEF LaunchOrNone
  <2> QED BY <1>1, <1>4, <2>1, MachineShape, ContinueKeepsInv
<1> QED BY <1>2, <1>3, <1>4 DEF EnsureCheck

LEMMA RefuseKeepsInv ==
    ASSUME Inv, NEW c \in Caller, EnsureRefuse(c)
    PROVE  Inv'
<1>1. /\ pc[c] = "verify" /\ UNCHANGED <<hostVars, machineVars, crashes>>
      /\ pc[c] \notin RunLabel \cup {"stop"}
  BY DEF EnsureRefuse, RunLabel
<1>2. req[c] \in SpecRec
  BY <1>1 DEF Inv, CallerOK
<1>3. CASE Fail(c)
  BY <1>1, <1>3, MachineShape, FailKeepsInv
<1>4. CASE Occupied(c, req[c])
  BY <1>1, <1>2, <1>4, OccupiedKeepsInv
<1> QED BY <1>3, <1>4 DEF EnsureRefuse

LEMMA WaitKeepsInv ==
    ASSUME Inv, NEW c \in Caller, WaitEnsure(c)
    PROVE  Inv'
<1>1. /\ pc[c] = "wait" /\ UNCHANGED <<hostVars, machineVars, crashes>>
      /\ pc[c] \notin RunLabel \cup {"stop"}
  BY DEF WaitEnsure, RunLabel
<1>2. CASE Fail(c)
  BY <1>1, <1>2, MachineShape, FailKeepsInv
<1>3. CASE Return(c, req[c], ref[c], {})
  <2>1. /\ req[c] \in Request /\ ref[c] \in LaunchOrNone
        /\ ref[c] \in Made /\ spec[ref[c]] = req[c]
    BY <1>1, NoSpecIsRequest, Shape DEF Inv, CallerOK
  <2> QED BY <1>1, <1>3, <2>1, MachineShape, ReturnKeepsInv
<1> QED BY <1>2, <1>3 DEF WaitEnsure

LEMMA RevokeCallKeepsInv ==
    ASSUME Inv, NEW c \in Caller, NEW id \in ID, RevokeCall(c, id)
    PROVE  Inv'
<1> DEFINE s == [NoSpec EXCEPT !.id = id]
           S == {grants[id], pending[id]} \ {None}
<1>1. /\ pc[c] = "idle" /\ UNCHANGED <<hostVars, machineVars, crashes>>
      /\ pc[c] \notin RunLabel \cup {"stop"}
  BY DEF RevokeCall, RunLabel
<1>2. CASE Fail(c)
  BY <1>1, <1>2, MachineShape, FailKeepsInv
<1>3. CASE Continue(c, "revoke", s, None, S)
  <2>1. s \in Request /\ s.id = id /\ None \in LaunchOrNone
    BY NoSpecIsRequest DEF LaunchOrNone
  <2>2. S \in SUBSET Made
    BY DEF Inv, MapsOK
  <2>3. \A m \in S : grants[s.id] = m \/ pending[s.id] = m
    BY <2>1
  <2> HIDE DEF s, S
  <2> QED BY <1>1, <1>3, <2>1, <2>2, <2>3, MachineShape, ContinueKeepsInv
<1> QED BY <1>2, <1>3 DEF RevokeCall

LEMMA RevokePendingKeepsInv ==
    ASSUME Inv, NEW c \in Caller, RevokePending(c)
    PROVE  Inv'
<1> DEFINE n == pending[req[c].id]
<1>1. /\ pc[c] = "revoke" /\ n # None
      /\ cancelled' = cancelled \cup {n}
      /\ Continue(c, "rwait", req[c], n, seen[c])
      /\ UNCHANGED <<grants, pending, launched, spec, outcome, machineVars,
                     crashes>>
      /\ pc[c] \notin RunLabel \cup {"stop"}
  BY DEF RevokePending, LoopEnds, RunLabel
<1>2. req[c] \in Request /\ req[c].id \in ID
  BY <1>1 DEF Inv, CallerOK, TypeOK, Request
<1>3. n \in Made /\ n \in LaunchOrNone /\ \E id \in ID : pending[id] = n
  BY <1>1, <1>2, Shape DEF Inv, MapsOK
<1>4. cancelled' \in SUBSET Launch
  BY <1>1, <1>3, Shape DEF Inv, TypeOK
<1>5. /\ seen[c] \in SUBSET Made
      /\ \A m \in seen[c] :
            grants[req[c].id] = m \/ pending[req[c].id] = m \/ Over(m)
  BY <1>1 DEF Inv, SeenOK
<1> HIDE DEF n
<1> QED BY <1>1, <1>2, <1>3, <1>4, <1>5, ContinueKeepsInv

LEMMA RevokeWaitKeepsInv ==
    ASSUME Inv, NEW c \in Caller, RevokeWait(c)
    PROVE  Inv'
<1>1. /\ pc[c] = "rwait" /\ UNCHANGED <<hostVars, machineVars, crashes>>
      /\ pc[c] \notin RunLabel \cup {"stop"}
  BY DEF RevokeWait, RunLabel
<1>2. CASE Fail(c)
  BY <1>1, <1>2, MachineShape, FailKeepsInv
<1>3. CASE Continue(c, "revoke", req[c], None, seen[c])
  <2>1. req[c] \in Request /\ req[c].id \in ID /\ None \in LaunchOrNone
    BY <1>1 DEF Inv, CallerOK, TypeOK, Request, LaunchOrNone
  <2>2. /\ seen[c] \in SUBSET Made
        /\ \A m \in seen[c] :
              grants[req[c].id] = m \/ pending[req[c].id] = m \/ Over(m)
    BY <1>1 DEF Inv, SeenOK
  <2> QED BY <1>1, <1>3, <2>1, <2>2, MachineShape, ContinueKeepsInv
<1> QED BY <1>2, <1>3 DEF RevokeWait

LEMMA RemoveDirShape ==
    ASSUME Inv, NEW id \in ID, RemoveDir(id)
    PROVE  dir' \in [ID -> SUBSET Launch] /\ sock' \in [ID -> LaunchOrNone]
BY DEF Inv, TypeOK, RemoveDir, LaunchOrNone

LEMMA CleanupKeepsInv ==
    ASSUME Inv, NEW c \in Caller, CleanupEnsure(c)
    PROVE  Inv'
<1>1. /\ pc[c] = "cleanup" /\ RemoveDir(req[c].id) /\ Fail(c)
      /\ UNCHANGED <<hostVars, revoked, running, link, tap, crashes>>
      /\ pc[c] \notin RunLabel \cup {"stop"}
  BY DEF CleanupEnsure, RunLabel
<1>2. req[c].id \in ID
  BY <1>1 DEF Inv, CallerOK, SpecRec
<1> QED BY <1>1, <1>2, RemoveDirShape, FailKeepsInv

LEMMA RevokeRemoveKeepsInv ==
    ASSUME Inv, NEW c \in Caller, RevokeRemove(c)
    PROVE  Inv'
<1>1. /\ pc[c] = "remove" /\ RemoveDir(req[c].id)
      /\ UNCHANGED <<hostVars, revoked, running, link, tap, crashes>>
      /\ pc[c] \notin RunLabel \cup {"stop"}
  BY DEF RevokeRemove, RunLabel
<1>2. dir' \in [ID -> SUBSET Launch] /\ sock' \in [ID -> LaunchOrNone]
  BY <1>1, RemoveDirShape DEF Inv, CallerOK
<1>3. CASE Fail(c)
  BY <1>1, <1>2, <1>3, FailKeepsInv
<1>4. CASE Return(c, NoSpec, None, seen[c])
  <2>1. seen[c] \in SUBSET Made /\ \A m \in seen[c] : Over(m)
    BY <1>1 DEF Inv, SeenOK
  <2> QED
    BY <1>1, <1>2, <1>4, <2>1, NoSpecIsRequest, ReturnKeepsInv DEF LaunchOrNone
<1> QED BY <1>3, <1>4 DEF RevokeRemove

LEMMA ReserveKeepsInv ==
    ASSUME Inv, NEW c \in Caller, EnsureReserve(c)
    PROVE  Inv'
<1> DEFINE n == launched + 1
           i == req[c].id
<1>1. /\ n \in Launch /\ n \notin Made /\ Made' = Made \cup {n}
      /\ req[c] \in SpecRec /\ i \in ID /\ i = req[c].id
  <2>1. launched \in Nat /\ launched < MaxLaunches /\ launched' = launched + 1
    BY HostAssumption DEF Inv, TypeOK, EnsureReserve
  <2>2. n \in Launch /\ n \notin Made /\ Made' = Made \cup {n}
    BY <2>1, HostAssumption DEF Launch, Made
  <2>3. pc[c] = "verify"
    BY DEF EnsureReserve
  <2>4. req[c] \in SpecRec
    BY <2>3 DEF Inv, CallerOK
  <2> QED BY <2>2, <2>4 DEF SpecRec
<1>2. /\ launched' = n
      /\ spec' = [spec EXCEPT ![n] = req[c]]
      /\ pending' = [pending EXCEPT ![i] = n]
      /\ dir' = [dir EXCEPT ![i] = @ \cup {n}]
      /\ ref' = [ref EXCEPT ![c] = n]
      /\ pc' \in {[pc EXCEPT ![c] = "setup"], [pc EXCEPT ![c] = "start"]}
      /\ UNCHANGED <<grants, cancelled, outcome, revoked, running, link, tap,
                     sock, req, ctx, res, seen, crashes>>
  BY DEF EnsureReserve, GoTo
<1>3. pc[c] = "verify" /\ grants[i] = None /\ pending[i] = None
  BY DEF EnsureReserve, NotOccupied
<1> HIDE DEF n, i
<1>4. TypeOK'
  <2>1. launched' \in 0..MaxLaunches
    BY <1>1, <1>2 DEF Launch
  <2>2. spec' \in [Launch -> SpecRec \cup {NoSpec}]
    BY <1>1, <1>2 DEF Inv, TypeOK
  <2>3. /\ pending' \in [ID -> LaunchOrNone]
        /\ dir' \in [ID -> SUBSET Launch]
        /\ ref' \in [Caller -> LaunchOrNone]
    BY <1>1, <1>2 DEF Inv, TypeOK, LaunchOrNone
  <2>4. pc' \in [Caller -> Label]
    BY <1>1, <1>2 DEF Inv, TypeOK, Label
  <2> QED BY <1>2, <2>1, <2>2, <2>3, <2>4 DEF Inv, TypeOK
<1>5. CallerOK'
  BY <1>1, <1>2, <1>3, Shape DEF Inv, CallerOK, RunLabel
<1>6. MapsOK'
  BY <1>1, <1>2, <1>3, Shape DEF Inv, LaunchOK, MapsOK
<1>12. LaunchOK'
  BY <1>1, <1>2, <1>3, Shape DEF Inv, LaunchOK
<1>7. RunnersOK'
  <2>1. \A d \in Caller : pc'[d] \in RunLabel =>
           \/ d = c
           \/ pc[d] \in RunLabel /\ ref[d] \in Made /\ req[d].id # i
              /\ pc'[d] = pc[d] /\ ref'[d] = ref[d]
    BY <1>1, <1>2, <1>3, Shape DEF Inv, CallerOK, RunnersOK
  <2>2. pc'[c] \in RunLabel /\ ref'[c] = n /\ req'[c].id = i /\ n \notin Made
    BY <1>1, <1>2, Shape DEF RunLabel, i, Made, Inv, TypeOK
  <2>3. \A d \in Caller : pc'[d] \in RunLabel => pending'[req'[d].id] = ref'[d]
    BY <1>1, <1>2, <2>1, <2>2, Shape DEF Inv, CallerOK, RunnersOK, SpecRec
  <2>4. \A d, e \in Caller :
          pc'[d] \in RunLabel /\ pc'[e] \in RunLabel /\ ref'[d] = ref'[e] => d = e
    BY <2>1, <2>2 DEF Inv, RunnersOK
  <2>5. \A id \in ID : pending'[id] # None =>
          \E d \in Caller : /\ pc'[d] \in RunLabel
                            /\ ref'[d] = pending'[id]
                            /\ req'[d].id = id
    <3> SUFFICES ASSUME NEW id \in ID, pending'[id] # None
                 PROVE  \E d \in Caller : /\ pc'[d] \in RunLabel
                                          /\ ref'[d] = pending'[id]
                                          /\ req'[d].id = id
      OBVIOUS
    <3>1. CASE id = i
      BY <1>1, <1>2, <2>2, <3>1, Shape
    <3>2. CASE id # i
      <4>1. pending'[id] = pending[id]
        BY <1>1, <1>2, <3>2, Shape
      <4>2. PICK d \in Caller :
               pc[d] \in RunLabel /\ ref[d] = pending[id] /\ req[d].id = id
        BY <4>1 DEF Inv, RunnersOK
      <4>3. d # c
        BY <1>3, <4>2 DEF RunLabel
      <4> QED BY <1>2, <4>1, <4>2, <4>3, Shape
    <3> QED BY <3>1, <3>2
  <2> QED BY <2>3, <2>4, <2>5 DEF RunnersOK
<1>8. WaitOK'
  BY <1>1, <1>2, <1>3, Shape DEF Inv, CallerOK, WaitOK
<1>9. MachineOK'
  <2>1. \A d \in Caller : pc[d] \in RunLabel \cup {"stop"} =>
           d # c /\ ref[d] \in Made /\ spec'[ref[d]] = spec[ref[d]]
    BY <1>1, <1>2, <1>3, Shape DEF Inv, CallerOK, RunLabel
  <2>2. \A m \in running : m \in Made /\ spec'[m] = spec[m]
    BY <1>1, <1>2, Shape DEF Inv, MachineOK
  <2> QED
    BY <1>1, <1>2, <1>3, <2>1, <2>2, Shape DEF Inv, MachineOK, RunLabel
<1>10. TapOK'
  <2>1. /\ tap' = tap /\ grants' = grants /\ req' = req /\ res' = res
        /\ crashes' = crashes
        /\ \A d \in Caller : d # c => pc'[d] = pc[d] /\ ref'[d] = ref[d]
        /\ ref'[c] = n /\ pc'[c] \in {"setup", "start"} /\ pc[c] = "verify"
    BY <1>2, <1>3, Shape
  <2>2. \A id \in ID : tap[id] # None =>
           /\ tap[id] \in Made /\ tap[id] # n
           /\ spec[tap[id]].id = id /\ spec'[tap[id]] = spec[tap[id]]
    BY <1>1, <1>2, Shape DEF Inv, TapOK
  <2>3. \A id \in ID : tap'[id] # None => tap'[id] \in Made' /\ spec'[tap'[id]].id = id
    BY <1>1, <2>1, <2>2
  <2>4. \A d \in Caller :
           pc'[d] = "setup" \/ (pc'[d] = "complete" /\ res'[d] = "failed")
              => tap'[req'[d].id] # ref'[d]
    <3>1. n # None /\ tap[req[c].id] # n
      BY <1>1, <2>2, HostAssumption DEF Launch
    <3> QED BY <2>1, <3>1 DEF Inv, TapOK
  <2>5. TapAccounted'
    <3>1. \A d \in Caller : \A m : m # n /\ Runs(d, m) => d # c
      BY <2>1 DEF Runs
    <3>2. \A d \in Caller : \A m : Runs(d, m) /\ d # c => Runs(d, m)'
      BY <2>1 DEF Runs
    <3> QED BY <2>1, <2>2, <3>1, <3>2 DEF Inv, TapOK, TapAccounted
  <2> QED BY <2>3, <2>4, <2>5 DEF TapOK
<1>11. SeenOK'
  BY <1>1, <1>2, <1>3, Shape DEF Inv, SeenOK, Over
<1> QED BY <1>4, <1>5, <1>6, <1>12, <1>7, <1>8, <1>9, <1>10, <1>11 DEF Inv
----------------------------------------------------------------------------
(* Steps of the goroutine c that carries out a launch: it goes to label l  *)
(* with result r, and the machine changes for its launch only.             *)

LEMMA RunnerStepKeepsInv ==
    ASSUME Inv, NEW c \in Caller, NEW l \in RunLabel, NEW r \in Result,
           pc[c] \in RunLabel,
           pc' = [pc EXCEPT ![c] = l], res' = [res EXCEPT ![c] = r],
           running' \in {running, running \cup {ref[c]}, running \ {ref[c]}},
           revoked' \in {revoked, revoked \cup {ref[c]}},
           tap' \in {tap, [tap EXCEPT ![req[c].id] = ref[c]],
                     CloseTap(req[c].id, ref[c])},
           dir' \in [ID -> SUBSET Launch], sock' \in [ID -> LaunchOrNone],
           link' \in [Launch -> LaunchOrNone],
           l \in {"setup", "start"} => ref[c] \notin running' \cup revoked',
           l \in {"dial", "handshake"} => ref[c] \notin revoked',
           l = "complete" =>
              \/ r = "ok" /\ ref[c] \notin revoked'
              \/ r = "failed" /\ ref[c] \notin running',
           l = "setup" \/ (l = "complete" /\ r = "failed")
              => tap'[req[c].id] # ref[c],
           UNCHANGED <<hostVars, req, ref, ctx, seen, crashes>>
    PROVE  Inv'
<1> DEFINE n == ref[c]
           i == req[c].id
<1>1. /\ Made' = Made
      /\ UNCHANGED <<grants, pending, launched, spec, outcome, cancelled>>
  BY DEF Made, hostVars
<1>2. /\ n \in Made /\ n \in Launch /\ spec[n] = req[c] /\ i \in ID
      /\ spec[n].id = i /\ pending[i] = n /\ outcome[n] = "none"
  BY Shape DEF Inv, CallerOK, RunnersOK, MapsOK, SpecRec
<1>3. \A id \in ID : grants[id] # n
  BY <1>2, Shape DEF Inv, MapsOK
<1>4. \A d \in Caller : pc[d] \in RunLabel /\ ref[d] = n => d = c
  BY <1>2 DEF Inv, RunnersOK
<1>5. TypeOK'
  <2>1. tap' \in [ID -> LaunchOrNone]
    BY <1>2, Shape DEF CloseTap, LaunchOrNone
  <2>2. running' \subseteq Launch /\ revoked' \subseteq Launch
    BY <1>2 DEF Inv, TypeOK
  <2>3. pc' \in [Caller -> Label] /\ res' \in [Caller -> Result]
    BY Shape DEF RunLabel, Label
  <2> QED BY <1>1, <2>1, <2>2, <2>3 DEF Inv, TypeOK
<1>6. CallerOK'
  BY <1>1, <1>2, Shape DEF Inv, CallerOK, RunLabel
<1>7. MapsOK'
  BY <1>1, <1>3 DEF Inv, MapsOK
<1>8. LaunchOK'
  BY <1>1 DEF Inv, LaunchOK
<1>9. RunnersOK'
  BY <1>1, Shape DEF Inv, RunnersOK
<1>10. WaitOK'
  BY <1>1, Shape DEF Inv, WaitOK, RunLabel
<1>11. MachineOK'
  <2>1. running' \subseteq Made /\ revoked' \subseteq Made
    BY <1>2 DEF Inv, MachineOK
  <2>2. \A d \in Caller \ {c} : pc[d] \in RunLabel \cup {"stop"} => ref[d] # n
    BY <1>2, <1>4 DEF Inv, MachineOK
  <2>3. ASSUME NEW d \in Caller
        PROVE  /\ pc'[d] \in {"setup", "start"}
                     => ref[d] \notin running' \cup revoked'
               /\ pc'[d] \in {"dial", "handshake"}
                     => ref[d] \notin revoked'
               /\ pc'[d] = "complete" =>
                     \/ res'[d] = "ok" /\ ref[d] \notin revoked'
                     \/ res'[d] = "failed" /\ ref[d] \notin running'
               /\ pc'[d] = "stop" =>
                     /\ outcome[ref[d]] = "ok"
                     /\ spec[ref[d]].id = req[d].id
                     /\ \A id \in ID : grants[id] # ref[d]
    <3>1. CASE d = c
      BY <3>1, Shape DEF RunLabel
    <3>2. CASE d # c
      <4>1. pc'[d] = pc[d] /\ res'[d] = res[d]
        BY <3>2, Shape
      <4>2. pc[d] \in RunLabel => /\ ref[d] \in running' <=> ref[d] \in running
                                  /\ ref[d] \in revoked' <=> ref[d] \in revoked
        BY <2>2, <3>2
      <4> QED BY <4>1, <4>2 DEF Inv, MachineOK, RunLabel
    <3> QED BY <3>1, <3>2
  <2>4. ASSUME NEW m \in running'
        PROVE  \/ \E d \in Caller : /\ pc'[d] \in {"dial", "handshake",
                                                    "complete"}
                                     /\ ref[d] = m
               \/ grants[spec[m].id] = m
               \/ \E d \in Caller : pc'[d] = "stop" /\ ref[d] = m
    <3>1. CASE m = n
      BY <2>3, <3>1, Shape DEF RunLabel
    <3>2. CASE m # n
      <4>1. m \in running
        BY <3>2
      <4> QED BY <3>2, <4>1, Shape DEF Inv, MachineOK, RunLabel
    <3> QED BY <3>1, <3>2
  <2> QED BY <1>1, <2>1, <2>3, <2>4 DEF MachineOK
<1>12. TapOK'
  <2>1. \A id \in ID \ {i} : tap'[id] = tap[id]
    BY <1>2, Shape DEF CloseTap
  <2>2. tap'[i] \in {tap[i], n, None}
    BY <1>2, Shape DEF CloseTap
  <2>3. \A id \in ID : tap'[id] # None => tap'[id] \in Made /\ spec[tap'[id]].id = id
    BY <1>2, <2>1, <2>2 DEF Inv, TapOK
  <2>4. \A d \in Caller :
           pc'[d] = "setup" \/ (pc'[d] = "complete" /\ res'[d] = "failed")
              => tap'[req[d].id] # ref[d]
    <3>1. SUFFICES ASSUME NEW d \in Caller, d # c,
                          pc[d] = "setup" \/ (pc[d] = "complete" /\ res[d] = "failed")
                   PROVE  tap'[req[d].id] # ref[d]
      BY Shape
    <3>2. /\ ref[d] # n /\ ref[d] # None /\ tap[req[d].id] # ref[d]
          /\ req[d].id \in ID
      BY <1>4, <3>1, Shape DEF Inv, TapOK, CallerOK, RunLabel, SpecRec
    <3> QED BY <2>1, <2>2, <3>2
  <2>5. TapAccounted'
    <3>1. SUFFICES ASSUME crashes = 0, NEW id \in ID, tap'[id] # None
                   PROVE  \/ \E d \in Caller : pc'[d] \in RunLabel /\ ref[d] = tap'[id]
                          \/ grants[id] = tap'[id]
                          \/ \E d \in Caller : pc'[d] = "stop" /\ ref[d] = tap'[id]
      BY <1>1 DEF TapAccounted, Runs, RunLabel
    <3>2. CASE tap'[id] = n
      BY <3>2, Shape
    <3>3. CASE tap'[id] # n
      <4>1. tap'[id] = tap[id]
        BY <2>1, <2>2, <3>1, <3>3
      <4> QED BY <3>1, <4>1, Shape DEF Inv, TapOK, TapAccounted, Runs, RunLabel
    <3> QED BY <3>2, <3>3
  <2> QED BY <1>1, <2>3, <2>4, <2>5 DEF TapOK
<1>13. SeenOK'
  BY <1>1, Shape DEF Inv, SeenOK, Over, RunLabel
<1> QED
  BY <1>5, <1>6, <1>7, <1>8, <1>9, <1>10, <1>11, <1>12, <1>13 DEF Inv
LEMMA SetupKeepsInv ==
    ASSUME Inv, NEW c \in Caller, EnsureSetup(c)
    PROVE  Inv'
<1>1. /\ pc[c] = "setup" /\ pc[c] \in RunLabel
      /\ UNCHANGED <<hostVars, revoked, running, link, dir, sock, req, ref,
                     ctx, seen, crashes>>
  BY DEF EnsureSetup, RunLabel
<1>2. /\ ref[c] \notin running \cup revoked
      /\ tap[req[c].id] # ref[c]
      /\ dir' \in [ID -> SUBSET Launch] /\ sock' \in [ID -> LaunchOrNone]
      /\ link' \in [Launch -> LaunchOrNone]
      /\ res[c] \in Result
  BY <1>1, Shape DEF Inv, MachineOK, TapOK, TypeOK
<1>3. CASE /\ tap' = [tap EXCEPT ![req[c].id] = ref[c]]
           /\ pc' = [pc EXCEPT ![c] = "start"]
           /\ UNCHANGED res
  <2>1. res' = [res EXCEPT ![c] = res[c]] /\ "start" \in RunLabel
    BY <1>3, Shape DEF RunLabel
  <2> QED BY <1>1, <1>2, <1>3, <2>1, RunnerStepKeepsInv
<1>4. CASE Conclude(c, "failed") /\ UNCHANGED tap
  <2>1. /\ res' = [res EXCEPT ![c] = "failed"] /\ "failed" \in Result
        /\ pc' = [pc EXCEPT ![c] = "complete"] /\ "complete" \in RunLabel
    BY <1>4 DEF Conclude, GoTo, RunLabel, Result
  <2> QED BY <1>1, <1>2, <1>4, <2>1, RunnerStepKeepsInv
<1> QED BY <1>3, <1>4 DEF EnsureSetup, GoTo

LEMMA StartKeepsInv ==
    ASSUME Inv, NEW c \in Caller, EnsureStart(c)
    PROVE  Inv'
<1> DEFINE n == ref[c]
           i == req[c].id
<1>1. /\ pc[c] = "start" /\ pc[c] \in RunLabel
      /\ UNCHANGED <<hostVars, revoked, link, sock, req, ref, ctx, seen, crashes>>
  BY DEF EnsureStart, RunLabel
<1>2. /\ n \notin running \cup revoked
      /\ n \in Launch /\ i \in ID
      /\ sock' \in [ID -> LaunchOrNone] /\ link' \in [Launch -> LaunchOrNone]
      /\ dir \in [ID -> SUBSET Launch]
      /\ res[c] \in Result
  BY <1>1, Shape DEF Inv, MachineOK, TypeOK, CallerOK, SpecRec
<1>3. [dir EXCEPT ![i] = @ \cup {n}] \in [ID -> SUBSET Launch]
  BY <1>2
<1>4. CASE /\ running' = running \cup {n}
           /\ dir' = [dir EXCEPT ![i] = @ \cup {n}]
           /\ pc' = [pc EXCEPT ![c] = "dial"]
           /\ UNCHANGED <<tap, res>>
  <2>1. /\ res' = [res EXCEPT ![c] = res[c]] /\ "dial" \in RunLabel
        /\ n \notin revoked'
    BY <1>1, <1>2, <1>4, Shape DEF RunLabel
  <2> QED BY <1>1, <1>2, <1>3, <1>4, <2>1, RunnerStepKeepsInv
<1>5. CASE /\ dir' \in {dir, [dir EXCEPT ![i] = @ \cup {n}]}
           /\ tap' = CloseTap(i, n)
           /\ Conclude(c, "failed")
           /\ UNCHANGED running
  <2>1. /\ res' = [res EXCEPT ![c] = "failed"] /\ "failed" \in Result
        /\ pc' = [pc EXCEPT ![c] = "complete"] /\ "complete" \in RunLabel
        /\ tap'[i] # n
    BY <1>2, <1>5, Shape DEF Conclude, GoTo, RunLabel, Result, CloseTap
  <2> QED BY <1>1, <1>2, <1>3, <1>5, <2>1, RunnerStepKeepsInv
<1> QED BY <1>4, <1>5 DEF EnsureStart, GoTo

LEMMA DialKeepsInv ==
    ASSUME Inv, NEW c \in Caller, EnsureDial(c)
    PROVE  Inv'
<1> DEFINE n == ref[c]
           i == req[c].id
<1>1. /\ pc[c] = "dial" /\ pc[c] \in RunLabel
      /\ UNCHANGED <<hostVars, dir, req, ref, ctx, seen, crashes>>
  BY DEF EnsureDial, RunLabel
<1>2. /\ n \notin revoked
      /\ n \in Launch /\ i \in ID
      /\ sock \in [ID -> LaunchOrNone] /\ link \in [Launch -> LaunchOrNone]
      /\ dir' \in [ID -> SUBSET Launch]
      /\ res[c] \in Result
  BY <1>1, Shape DEF Inv, MachineOK, TypeOK, CallerOK, SpecRec
<1>3. CASE /\ link' = [link EXCEPT ![n] = sock[i]]
           /\ pc' = [pc EXCEPT ![c] = "handshake"]
           /\ UNCHANGED <<revoked, running, tap, sock, res>>
  <2>1. /\ res' = [res EXCEPT ![c] = res[c]] /\ "handshake" \in RunLabel
        /\ link' \in [Launch -> LaunchOrNone]
    BY <1>2, <1>3, Shape DEF RunLabel
  <2> QED BY <1>1, <1>2, <1>3, <2>1, RunnerStepKeepsInv
<1>4. CASE RevokeEnv(i, n) /\ Conclude(c, "failed")
  <2>1. /\ res' = [res EXCEPT ![c] = "failed"] /\ "failed" \in Result
        /\ pc' = [pc EXCEPT ![c] = "complete"] /\ "complete" \in RunLabel
    BY <1>4 DEF Conclude, GoTo, RunLabel, Result
  <2>2. /\ revoked' = revoked \cup {n} /\ running' = running \ {n}
        /\ tap' = CloseTap(i, n) /\ tap'[i] # n
        /\ link' \in [Launch -> LaunchOrNone] /\ sock' \in [ID -> LaunchOrNone]
    BY <1>2, <1>4, Shape DEF RevokeEnv, StopVM, CloseTap, LaunchOrNone
  <2> QED BY <1>1, <1>2, <2>1, <2>2, RunnerStepKeepsInv
<1> QED BY <1>3, <1>4 DEF EnsureDial, GoTo

LEMMA AnswersKeepsInv ==
    ASSUME Inv, NEW c \in Caller, GuestAnswers(c)
    PROVE  Inv'
<1>1. /\ pc[c] = "handshake" /\ pc[c] \in RunLabel
      /\ UNCHANGED <<hostVars, machineVars, req, ref, ctx, seen, crashes>>
      /\ pc' = [pc EXCEPT ![c] = "complete"] /\ "complete" \in RunLabel
      /\ res' = [res EXCEPT ![c] = "ok"] /\ "ok" \in Result
  BY DEF GuestAnswers, Conclude, GoTo, RunLabel, Result
<1>2. /\ ref[c] \notin revoked'
      /\ dir' \in [ID -> SUBSET Launch] /\ sock' \in [ID -> LaunchOrNone]
      /\ link' \in [Launch -> LaunchOrNone]
      /\ UNCHANGED <<running, revoked, tap>>
  BY <1>1 DEF Inv, MachineOK, TypeOK, machineVars
<1> QED BY <1>1, <1>2, RunnerStepKeepsInv

LEMMA RefusesKeepsInv ==
    ASSUME Inv, NEW c \in Caller, GuestRefuses(c)
    PROVE  Inv'
<1>1. /\ pc[c] = "handshake" /\ pc[c] \in RunLabel
      /\ link' = [link EXCEPT ![ref[c]] = None]
      /\ pc' = [pc EXCEPT ![c] = "dial"] /\ "dial" \in RunLabel
      /\ UNCHANGED <<hostVars, revoked, running, tap, dir, sock, req, ref, ctx,
                     res, seen, crashes>>
  BY DEF GuestRefuses, GoTo, RunLabel
<1>2. /\ ref[c] \notin revoked'
      /\ dir' \in [ID -> SUBSET Launch] /\ sock' \in [ID -> LaunchOrNone]
      /\ link' \in [Launch -> LaunchOrNone]
      /\ res' = [res EXCEPT ![c] = res[c]] /\ res[c] \in Result
  BY <1>1, Shape DEF Inv, MachineOK, TypeOK, LaunchOrNone
<1> QED BY <1>1, <1>2, RunnerStepKeepsInv
----------------------------------------------------------------------------
(* The steps that conclude a launch or take a grant.                       *)

LEMMA CompleteKeepsInv ==
    ASSUME Inv, NEW c \in Caller, CompleteEnsure(c)
    PROVE  Inv'
<1> DEFINE n == ref[c]
           i == req[c].id
           r == res[c]
<1>1. /\ pc[c] = "complete"
      /\ pending' = [pending EXCEPT ![i] = None]
      /\ outcome' = [outcome EXCEPT ![n] = r]
      /\ cancelled' = cancelled \cup {n}
      /\ UNCHANGED <<launched, spec, machineVars, crashes>>
  BY DEF CompleteEnsure, CloseDone
<1>2. /\ n \in Made /\ n \in Launch /\ n # None /\ spec[n] = req[c]
      /\ req[c] \in SpecRec /\ i \in ID /\ i = req[c].id /\ n = ref[c]
      /\ pending[i] = n /\ outcome[n] = "none" /\ grants[i] = None
  BY <1>1, Shape DEF Inv, CallerOK, RunnersOK, MapsOK, RunLabel, SpecRec
<1>3. /\ r \in {"ok", "failed"}
      /\ r = "ok" => n \notin revoked
      /\ r # "ok" => n \notin running
  BY <1>1 DEF Inv, MachineOK
<1>4. /\ Made' = Made
      /\ UNCHANGED <<running, revoked, link, tap, dir, sock>>
  BY <1>1 DEF Made, machineVars
<1>5. /\ \A id \in ID : grants[id] # n
      /\ \A id \in ID \ {i} : pending[id] # n
      /\ \A d \in Caller \ {c} : pc[d] \in RunLabel => ref[d] # n /\ req[d].id # i
      /\ \A d \in Caller : pc[d] = "stop" => ref[d] # n
  BY <1>1, <1>2, Shape DEF Inv, MapsOK, RunnersOK, MachineOK, RunLabel
<1>6. PICK l \in {"idle", "cleanup"} :
         /\ pc' = [pc EXCEPT ![c] = l]
         /\ req' = req
         /\ seen' = [seen EXCEPT ![c] = {}]
         /\ ctx' \in [Caller -> BOOLEAN]
         /\ \/ /\ r = "ok" /\ l = "idle"
               /\ grants' = [grants EXCEPT ![i] = n]
               /\ ref' = ref
               /\ res' = [res EXCEPT ![c] = "ok"]
            \/ /\ r = "failed" /\ l = "cleanup"
               /\ grants' = grants
               /\ ref' = [ref EXCEPT ![c] = None]
               /\ res' = [res EXCEPT ![c] = "none"]
  BY <1>3, Shape DEF CompleteEnsure, Return, Continue, GoTo, Inv, TypeOK
<1>7. \A d \in Caller \ {c} : /\ pc'[d] = pc[d] /\ req'[d] = req[d]
                              /\ ref'[d] = ref[d] /\ res'[d] = res[d]
                              /\ seen'[d] = seen[d]
  BY <1>6, Shape
<1> HIDE DEF n, i, r
<1>8. TypeOK'
  <2>1. grants' \in [ID -> LaunchOrNone] /\ pending' \in [ID -> LaunchOrNone]
    BY <1>1, <1>2, <1>6, Shape DEF LaunchOrNone
  <2>2. /\ outcome' \in [Launch -> {"none", "ok", "failed"}]
        /\ cancelled' \subseteq Launch
    BY <1>1, <1>2, <1>3, Shape DEF Inv, TypeOK
  <2>3. /\ pc' \in [Caller -> Label] /\ ref' \in [Caller -> LaunchOrNone]
        /\ res' \in [Caller -> Result] /\ seen' \in [Caller -> SUBSET Launch]
    BY <1>6, Shape DEF Label, Result, LaunchOrNone
  <2> QED BY <1>1, <1>4, <1>6, <2>1, <2>2, <2>3 DEF Inv, TypeOK
<1>9. CallerOK'
  BY <1>1, <1>2, <1>4, <1>6, <1>7, Shape DEF Inv, CallerOK, RunLabel
<1>10. MapsOK'
  BY <1>1, <1>2, <1>3, <1>4, <1>5, <1>6, Shape DEF Inv, MapsOK
<1>11. LaunchOK'
  BY <1>1, <1>2, <1>4, Shape DEF Inv, LaunchOK
<1>12. RunnersOK'
  BY <1>1, <1>2, <1>5, <1>6, <1>7, Shape DEF Inv, RunnersOK, RunLabel
<1>13. WaitOK'
  BY <1>1, <1>2, <1>3, <1>6, <1>7, Shape DEF Inv, CallerOK, WaitOK
<1>14. MachineOK'
  <2>1. ASSUME NEW d \in Caller
        PROVE  /\ pc'[d] \in {"setup", "start"}
                     => ref'[d] \notin running \cup revoked
               /\ pc'[d] \in {"dial", "handshake"}
                     => ref'[d] \notin revoked
               /\ pc'[d] = "complete" =>
                     \/ res'[d] = "ok" /\ ref'[d] \notin revoked
                     \/ res'[d] = "failed" /\ ref'[d] \notin running
               /\ pc'[d] = "stop" =>
                     /\ outcome'[ref'[d]] = "ok"
                     /\ spec[ref'[d]].id = req'[d].id
                     /\ \A id \in ID : grants'[id] # ref'[d]
    <3>1. CASE d = c
      BY <1>6, <3>1, Shape
    <3>2. CASE d # c
      BY <1>1, <1>2, <1>5, <1>6, <1>7, <3>2, Shape DEF Inv, CallerOK, MachineOK
    <3> QED BY <3>1, <3>2
  <2>2. ASSUME NEW m \in running
        PROVE  \/ \E d \in Caller : /\ pc'[d] \in {"dial", "handshake",
                                                    "complete"}
                                     /\ ref'[d] = m
               \/ grants'[spec[m].id] = m
               \/ \E d \in Caller : pc'[d] = "stop" /\ ref'[d] = m
    <3>1. CASE m = n
      BY <1>2, <1>3, <1>6, <3>1, Shape
    <3>2. CASE m # n /\ grants[spec[m].id] = m
      <4>1. m \in Made /\ m # None /\ spec[m].id \in ID
        BY Shape DEF Inv, MachineOK, LaunchOK, SpecRec
      <4> QED BY <1>2, <1>6, <3>2, <4>1, Shape
    <3>3. CASE m # n /\ \E d \in Caller \ {c} :
                            /\ pc[d] \in {"dial", "handshake", "complete", "stop"}
                            /\ ref[d] = m
      BY <1>7, <3>3
    <3> QED BY <1>2, <3>1, <3>2, <3>3 DEF Inv, MachineOK
  <2> QED BY <1>1, <1>4, <2>1, <2>2 DEF Inv, MachineOK
<1>15. TapOK'
  <2>1. \A d \in Caller :
           pc'[d] = "setup" \/ (pc'[d] = "complete" /\ res'[d] = "failed")
              => tap[req'[d].id] # ref'[d]
    BY <1>6, <1>7, Shape DEF Inv, TapOK
  <2>2. TapAccounted'
    <3>1. SUFFICES ASSUME crashes = 0, NEW id \in ID, tap[id] # None
                   PROVE  \/ \E d \in Caller : pc'[d] \in RunLabel /\ ref'[d] = tap[id]
                          \/ grants'[id] = tap[id]
                          \/ \E d \in Caller : pc'[d] = "stop" /\ ref'[d] = tap[id]
      BY <1>1, <1>4 DEF TapAccounted, Runs, RunLabel
    <3>2. CASE tap[id] = n
      <4>1. id = i
        BY <1>2, <3>1, <3>2 DEF Inv, TapOK
      <4>2. r = "ok"
        BY <1>1, <1>2, <1>3, <3>2, <4>1 DEF Inv, TapOK, r
      <4> QED BY <1>2, <1>6, <3>2, <4>1, <4>2, Shape
    <3>3. CASE tap[id] # n /\ grants[id] = tap[id]
      BY <1>2, <1>6, <3>1, <3>3, Shape
    <3>4. CASE tap[id] # n /\ \E d \in Caller \ {c} :
                     pc[d] \in RunLabel \cup {"stop"} /\ ref[d] = tap[id]
      BY <1>7, <3>4
    <3> QED
      BY <1>2, <3>1, <3>2, <3>3, <3>4 DEF Inv, TapOK, TapAccounted, Runs, RunLabel
  <2> QED BY <1>1, <1>4, <2>1, <2>2 DEF Inv, TapOK
<1>16. SeenOK'
  <2>1. \A m \in Made : Over(m) => Over(m)'
    BY <1>1, <1>2, <1>4, <1>6, Shape DEF Over
  <2>2. \A m \in Made, id \in ID : grants[id] = m \/ pending[id] = m
           => grants'[id] = m \/ pending'[id] = m \/ Over(m)'
    BY <1>1, <1>2, <1>3, <1>5, <1>6, Shape DEF Over
  <2>3. ASSUME NEW d \in Caller, d # c
        PROVE  \A m \in seen'[d] :
                  /\ m \in Made
                  /\ pc'[d] \in {"revoke", "rwait"} =>
                        \/ grants'[req'[d].id] = m \/ pending'[req'[d].id] = m
                        \/ Over(m)'
                  /\ pc'[d] \in {"idle", "stop", "remove"} => Over(m)'
    BY <1>7, <2>1, <2>2, <2>3 DEF Inv, SeenOK, CallerOK
  <2>4. seen'[c] = {}
    BY <1>6, Shape
  <2> QED BY <1>4, <2>3, <2>4 DEF SeenOK
<1> QED
  BY <1>8, <1>9, <1>10, <1>11, <1>12, <1>13, <1>14, <1>15, <1>16 DEF Inv
LEMMA TakeKeepsInv ==
    ASSUME Inv, NEW c \in Caller, RevokeTake(c)
    PROVE  Inv'
<1> DEFINE i == req[c].id
           n == grants[i]
<1>1. /\ pc[c] = "revoke" /\ pending[i] = None
      /\ UNCHANGED <<pending, launched, spec, cancelled, outcome, machineVars,
                     crashes>>
  BY DEF RevokeTake, LoopEnds
<1>2. /\ i \in ID /\ i = req[c].id /\ n = grants[i] /\ Made' = Made
      /\ UNCHANGED <<running, revoked, link, tap, dir, sock>>
  BY <1>1 DEF Inv, CallerOK, Made, machineVars
<1>3. CASE grants[i] = None /\ Return(c, NoSpec, None, seen[c]) /\ UNCHANGED grants
  <2>1. seen[c] \in SUBSET Made /\ \A m \in seen[c] : Over(m)
    BY <1>1, <1>2, <1>3, Shape DEF Inv, SeenOK
  <2>2. /\ pc[c] \notin RunLabel \cup {"stop"} /\ None \in LaunchOrNone
        /\ UNCHANGED <<hostVars, machineVars>>
    BY <1>1, <1>3 DEF RunLabel, LaunchOrNone, hostVars
  <2> QED
    BY <1>1, <1>3, <2>1, <2>2, NoSpecIsRequest, MachineShape, ReturnKeepsInv
<1>4. CASE /\ n # None
           /\ grants' = [grants EXCEPT ![i] = None]
           /\ Continue(c, "stop", req[c], n, seen[c])
  <2>1. /\ n \in Made /\ n \in Launch /\ spec[n].id = i /\ outcome[n] = "ok"
        /\ \A id \in ID \ {i} : grants[id] # n
        /\ \A id \in ID : pending[id] # n
        /\ \A d \in Caller : pc[d] \in RunLabel => ref[d] # n
    BY <1>2, <1>4, Shape DEF Inv, MapsOK, RunnersOK, CallerOK, SpecRec
  <2>2. /\ pc' = [pc EXCEPT ![c] = "stop"]
        /\ req' = req
        /\ ref' = [ref EXCEPT ![c] = n]
        /\ res' = [res EXCEPT ![c] = "none"]
        /\ seen' = seen /\ ctx' = ctx
    BY <1>4, Shape DEF Continue, GoTo
  <2>3. \A d \in Caller \ {c} : /\ pc'[d] = pc[d] /\ req'[d] = req[d]
                                /\ ref'[d] = ref[d] /\ res'[d] = res[d]
    BY <2>2, Shape
  <2> HIDE DEF n, i
  <2>4. TypeOK'
    <3>1. grants' \in [ID -> LaunchOrNone] /\ ref' \in [Caller -> LaunchOrNone]
      BY <1>4, <2>1, <2>2, Shape DEF LaunchOrNone
    <3>2. pc' \in [Caller -> Label] /\ res' \in [Caller -> Result]
      BY <2>2, Shape DEF Label, Result
    <3> QED BY <1>1, <1>2, <2>2, <3>1, <3>2 DEF Inv, TypeOK
  <2>5. CallerOK'
    BY <1>1, <1>2, <2>1, <2>2, <2>3, Shape DEF Inv, CallerOK, RunLabel
  <2>6. MapsOK' /\ LaunchOK'
    BY <1>1, <1>2, <1>4, <2>1, Shape DEF Inv, MapsOK, LaunchOK
  <2>7. RunnersOK' /\ WaitOK'
    BY <1>1, <1>2, <2>2, <2>3, Shape DEF Inv, RunnersOK, WaitOK, RunLabel
  <2>8. MachineOK'
    <3>1. ASSUME NEW m \in running
          PROVE  \/ \E d \in Caller : /\ pc'[d] \in {"dial", "handshake",
                                                      "complete"}
                                       /\ ref'[d] = m
                 \/ grants'[spec[m].id] = m
                 \/ \E d \in Caller : pc'[d] = "stop" /\ ref'[d] = m
      <4>1. CASE m = n
        BY <2>2, <4>1, Shape
      <4>2. CASE m # n /\ grants[spec[m].id] = m
        <5>1. spec[m].id \in ID \ {i}
          BY <1>2, <4>2 DEF Inv, MachineOK, LaunchOK, SpecRec
        <5> QED BY <1>4, <4>2, <5>1, Shape
      <4>3. CASE \E d \in Caller :
                    /\ pc[d] \in {"dial", "handshake", "complete", "stop"}
                    /\ ref[d] = m
        BY <1>1, <2>3, <4>3
      <4> QED BY <4>1, <4>2, <4>3 DEF Inv, MachineOK
    <3>2. ASSUME NEW d \in Caller
          PROVE  /\ pc'[d] \in {"setup", "start"}
                       => ref'[d] \notin running \cup revoked
                 /\ pc'[d] \in {"dial", "handshake"}
                       => ref'[d] \notin revoked
                 /\ pc'[d] = "complete" =>
                       \/ res'[d] = "ok" /\ ref'[d] \notin revoked
                       \/ res'[d] = "failed" /\ ref'[d] \notin running
                 /\ pc'[d] = "stop" =>
                       /\ outcome[ref'[d]] = "ok"
                       /\ spec[ref'[d]].id = req'[d].id
                       /\ \A id \in ID : grants'[id] # ref'[d]
      <4>1. CASE d = c
        BY <1>2, <1>4, <2>1, <2>2, <4>1, Shape
      <4>2. CASE d # c
        BY <1>2, <1>4, <2>1, <2>3, <4>2, Shape DEF Inv, CallerOK, MachineOK
      <4> QED BY <4>1, <4>2
    <3> QED BY <1>1, <1>2, <3>1, <3>2 DEF Inv, MachineOK
  <2>9. TapOK'
    <3>1. \A d \in Caller :
             pc'[d] = "setup" \/ (pc'[d] = "complete" /\ res'[d] = "failed")
                => tap[req'[d].id] # ref'[d]
      BY <2>2, <2>3, Shape DEF Inv, TapOK
    <3>2. TapAccounted'
      <4>1. SUFFICES ASSUME crashes = 0, NEW id \in ID, tap[id] # None
                     PROVE  \/ \E d \in Caller : pc'[d] \in RunLabel /\ ref'[d] = tap[id]
                            \/ grants'[id] = tap[id]
                            \/ \E d \in Caller : pc'[d] = "stop" /\ ref'[d] = tap[id]
        BY <1>1, <1>2 DEF TapAccounted, Runs, RunLabel
      <4>2. CASE grants[id] = tap[id]
        BY <1>2, <1>4, <2>2, <4>1, <4>2, Shape
      <4>3. CASE \E d \in Caller :
                    pc[d] \in RunLabel \cup {"stop"} /\ ref[d] = tap[id]
        BY <1>1, <2>3, <4>3 DEF RunLabel
      <4> QED
        BY <4>1, <4>2, <4>3 DEF Inv, TapOK, TapAccounted, Runs, RunLabel
    <3> QED BY <1>1, <1>2, <3>1, <3>2 DEF Inv, TapOK
  <2>10. SeenOK'
    <3>1. \A m \in Made : Over(m) => Over(m)'
      BY <1>1, <1>2, <1>4, Shape DEF Over
    <3>2. \A m \in Made : m = n => Over(m)'
      BY <1>1, <1>2, <1>4, <2>1, Shape DEF Over
    <3>3. \A m \in Made, id \in ID : grants[id] = m => grants'[id] = m \/ m = n
      BY <1>2, <1>4, Shape
    <3>4. ASSUME NEW d \in Caller, NEW m \in seen[d]
          PROVE  /\ m \in Made
                 /\ pc'[d] \in {"revoke", "rwait"} =>
                       \/ grants'[req'[d].id] = m \/ pending'[req'[d].id] = m
                       \/ Over(m)'
                 /\ pc'[d] \in {"idle", "stop", "remove"} => Over(m)'
      <4>1. CASE d = c
        <5>1. grants[i] = m \/ pending[i] = m \/ Over(m)
          BY <1>1, <1>2, <4>1 DEF Inv, SeenOK
        <5>2. m \in Made /\ pc'[c] = "stop"
          BY <2>2, <4>1, Shape DEF Inv, SeenOK
        <5> QED BY <1>1, <1>2, <3>1, <3>2, <4>1, <5>1, <5>2, Shape
      <4>2. CASE d # c
        <5>1. pc[d] \in {"revoke", "rwait"} => req[d].id \in ID
          BY DEF Inv, CallerOK
        <5>2. m \in Made /\ pc'[d] = pc[d] /\ req'[d] = req[d]
          BY <2>3, <4>2 DEF Inv, SeenOK
        <5>3. pc[d] \in {"revoke", "rwait"} =>
                 grants[req[d].id] = m \/ pending[req[d].id] = m \/ Over(m)
          BY DEF Inv, SeenOK
        <5>4. pc[d] \in {"idle", "stop", "remove"} => Over(m)
          BY DEF Inv, SeenOK
        <5> QED BY <1>1, <3>1, <3>2, <3>3, <5>1, <5>2, <5>3, <5>4
      <4> QED BY <4>1, <4>2
    <3> QED BY <1>2, <2>2, <3>4 DEF SeenOK
  <2> QED BY <2>4, <2>5, <2>6, <2>7, <2>8, <2>9, <2>10 DEF Inv
<1> QED BY <1>3, <1>4 DEF RevokeTake
LEMMA StopKeepsInv ==
    ASSUME Inv, NEW c \in Caller, RevokeStop(c)
    PROVE  Inv'
<1> DEFINE n == ref[c]
           i == req[c].id
<1>1. /\ pc[c] = "stop"
      /\ revoked' = revoked \cup {n} /\ running' = running \ {n}
      /\ tap' = CloseTap(i, n)
      /\ pc' = [pc EXCEPT ![c] = "remove"]
      /\ UNCHANGED <<hostVars, dir, req, ref, ctx, res, seen, crashes>>
  BY DEF RevokeStop, RevokeEnv, StopVM, GoTo
<1>2. /\ n \in Made /\ n \in Launch /\ i \in ID /\ outcome[n] = "ok"
      /\ spec[n].id = i /\ \A id \in ID : grants[id] # n
  BY <1>1, Shape DEF Inv, CallerOK, MachineOK
<1>3. /\ Made' = Made
      /\ UNCHANGED <<grants, pending, launched, spec, outcome, cancelled>>
  BY <1>1 DEF Made, hostVars
<1>4. \A d \in Caller : pc[d] \in RunLabel => ref[d] # n
  BY <1>2, Shape DEF Inv, CallerOK, RunnersOK, MapsOK, SpecRec
<1>5. /\ \A id \in ID : tap'[id] # n
      /\ \A id \in ID : tap'[id] # None => tap'[id] = tap[id]
  BY <1>1, <1>2, Shape DEF CloseTap, Inv, TapOK
<1>6. \A d \in Caller \ {c} : pc'[d] = pc[d]
  BY <1>1, Shape
<1>7. TypeOK'
  <2>1. tap' \in [ID -> LaunchOrNone] /\ pc' \in [Caller -> Label]
    BY <1>1, <1>2, Shape DEF CloseTap, LaunchOrNone, Label
  <2>2. running' \subseteq Launch /\ revoked' \subseteq Launch
    BY <1>1, <1>2 DEF Inv, TypeOK
  <2>3. link' \in [Launch -> LaunchOrNone] /\ sock' \in [ID -> LaunchOrNone]
    BY <1>2 DEF RevokeStop, RevokeEnv, Inv, TypeOK, LaunchOrNone
  <2> QED BY <1>1, <1>3, <2>1, <2>2, <2>3 DEF Inv, TypeOK
<1> HIDE DEF n, i
<1>8. CallerOK'
  BY <1>1, <1>3, Shape DEF Inv, CallerOK, RunLabel
<1>9. MapsOK' /\ LaunchOK'
  BY <1>1, <1>2, <1>3 DEF Inv, MapsOK, LaunchOK
<1>10. RunnersOK' /\ WaitOK'
  BY <1>1, <1>3, Shape DEF Inv, RunnersOK, WaitOK, RunLabel
<1>11. MachineOK'
  <2>1. ASSUME NEW m \in running'
        PROVE  \/ \E d \in Caller : /\ pc'[d] \in {"dial", "handshake",
                                                    "complete"}
                                     /\ ref[d] = m
               \/ grants[spec[m].id] = m
               \/ \E d \in Caller : pc'[d] = "stop" /\ ref[d] = m
    <3>1. m \in running /\ m # n
      BY <1>1
    <3>2. ref[c] = n
      BY DEF n
    <3> QED BY <1>1, <1>6, <3>1, <3>2 DEF Inv, MachineOK
  <2>2. ASSUME NEW d \in Caller
        PROVE  /\ pc'[d] \in {"setup", "start"}
                     => ref[d] \notin running' \cup revoked'
               /\ pc'[d] \in {"dial", "handshake"}
                     => ref[d] \notin revoked'
               /\ pc'[d] = "complete" =>
                     \/ res[d] = "ok" /\ ref[d] \notin revoked'
                     \/ res[d] = "failed" /\ ref[d] \notin running'
               /\ pc'[d] = "stop" =>
                     /\ outcome[ref[d]] = "ok"
                     /\ spec[ref[d]].id = req[d].id
                     /\ \A id \in ID : grants[id] # ref[d]
    <3>1. CASE d = c
      BY <1>1, <3>1, Shape
    <3>2. CASE d # c
      BY <1>1, <1>4, <1>6, <3>2 DEF Inv, MachineOK, RunLabel
    <3> QED BY <3>1, <3>2
  <2>3. running' \subseteq Made /\ revoked' \subseteq Made
    BY <1>1, <1>2 DEF Inv, MachineOK
  <2> QED BY <1>1, <1>3, <2>1, <2>2, <2>3 DEF MachineOK
<1>12. TapOK'
  <2>1. \A id \in ID : tap'[id] # None => tap'[id] \in Made /\ spec[tap'[id]].id = id
    BY <1>5 DEF Inv, TapOK
  <2>2. ASSUME NEW d \in Caller,
               pc'[d] = "setup" \/ (pc'[d] = "complete" /\ res[d] = "failed")
        PROVE  tap'[req[d].id] # ref[d]
    <3>1. /\ d # c /\ req[d].id \in ID /\ ref[d] # None
          /\ tap[req[d].id] # ref[d]
      BY <1>1, <1>6, <2>2, Shape DEF Inv, CallerOK, TapOK, RunLabel, SpecRec
    <3> QED BY <1>5, <3>1
  <2>3. TapAccounted'
    <3>1. SUFFICES ASSUME crashes = 0, NEW id \in ID, tap'[id] # None
                   PROVE  \/ \E d \in Caller : pc'[d] \in RunLabel /\ ref[d] = tap'[id]
                          \/ grants[id] = tap'[id]
                          \/ \E d \in Caller : pc'[d] = "stop" /\ ref[d] = tap'[id]
      BY <1>1, <1>3 DEF TapAccounted, Runs, RunLabel
    <3>2. tap'[id] = tap[id] /\ tap[id] # n /\ ref[c] = n
      BY <1>5, <3>1 DEF n
    <3> QED
      BY <1>1, <1>6, <3>1, <3>2 DEF Inv, TapOK, TapAccounted, Runs, RunLabel
  <2> QED BY <1>1, <1>3, <2>1, <2>2, <2>3 DEF TapOK
<1>13. SeenOK'
  BY <1>1, <1>3, Shape DEF Inv, SeenOK, Over
<1> QED BY <1>7, <1>8, <1>9, <1>10, <1>11, <1>12, <1>13 DEF Inv

----------------------------------------------------------------------------
(* The rest of Next.                                                       *)

LEMMA ListenKeepsInv ==
    ASSUME Inv, NEW n \in Launch, SupervisorListen(n)
    PROVE  Inv'
<1>1. sock' = [sock EXCEPT ![spec[n].id] = n]
  BY DEF SupervisorListen
<1>2. UNCHANGED <<hostVars, revoked, running, link, tap, dir, callerVars, crashes>>
  BY DEF SupervisorListen
<1>3. TypeOK'
  BY <1>1, <1>2 DEF Inv, TypeOK, LaunchOrNone, hostVars, callerVars
<1>4. CallerOK' /\ MapsOK' /\ LaunchOK' /\ RunnersOK' /\ WaitOK'
  BY <1>2 DEF Inv, CallerOK, MapsOK, LaunchOK, RunnersOK, WaitOK, Made,
              hostVars, callerVars
<1>5. MachineOK' /\ TapOK' /\ SeenOK'
  BY <1>2 DEF Inv, MachineOK, TapOK, TapAccounted, Runs, SeenOK, Over, Made,
              hostVars, callerVars
<1> QED BY <1>3, <1>4, <1>5 DEF Inv

LEMMA MicroVMEndsKeepsInv ==
    ASSUME Inv, NEW n \in Launch, MicroVMEnds(n)
    PROVE  Inv'
<1>1. /\ running' = running \ {n}
      /\ sock' = [id \in ID |-> IF sock[id] = n THEN None ELSE sock[id]]
  BY DEF MicroVMEnds
<1>2. UNCHANGED <<hostVars, revoked, link, tap, dir, callerVars, crashes>>
  BY DEF MicroVMEnds
<1>3. TypeOK'
  <2>1. sock' \in [ID -> LaunchOrNone] /\ running' \subseteq Launch
    BY <1>1 DEF Inv, TypeOK, LaunchOrNone
  <2> QED BY <1>2, <2>1 DEF Inv, TypeOK, hostVars, callerVars
<1>4. CallerOK' /\ MapsOK' /\ LaunchOK' /\ RunnersOK' /\ WaitOK'
  BY <1>2 DEF Inv, CallerOK, MapsOK, LaunchOK, RunnersOK, WaitOK, Made,
              hostVars, callerVars
<1>5. MachineOK'
  BY <1>1, <1>2 DEF Inv, MachineOK, Made, hostVars, callerVars
<1>6. TapOK' /\ SeenOK'
  BY <1>2 DEF Inv, TapOK, TapAccounted, Runs, SeenOK, Over, Made,
              hostVars, callerVars
<1> QED BY <1>3, <1>4, <1>5, <1>6 DEF Inv

LEMMA CtxKeepsInv ==
    ASSUME Inv, NEW c \in Caller, CtxDone(c)
    PROVE  Inv'
<1>1. ctx' = [ctx EXCEPT ![c] = TRUE]
  BY DEF CtxDone
<1>2. UNCHANGED <<hostVars, machineVars, pc, req, ref, res, seen, crashes>>
  BY DEF CtxDone
<1>3. TypeOK'
  BY <1>1, <1>2 DEF Inv, TypeOK, hostVars, machineVars
<1>4. CallerOK' /\ MapsOK' /\ LaunchOK' /\ RunnersOK' /\ WaitOK'
  BY <1>2 DEF Inv, CallerOK, MapsOK, LaunchOK, RunnersOK, WaitOK, Made,
              hostVars, machineVars
<1>5. MachineOK' /\ TapOK' /\ SeenOK'
  BY <1>2 DEF Inv, MachineOK, TapOK, TapAccounted, Runs, SeenOK, Over, Made,
              hostVars, machineVars
<1> QED BY <1>3, <1>4, <1>5 DEF Inv

LEMMA CrashKeepsInv ==
    ASSUME Inv, Crash
    PROVE  Inv'
<1>1. /\ crashes' = crashes + 1 /\ crashes < MaxCrashes /\ crashes \in Nat
      /\ UNCHANGED <<launched, spec, cancelled, outcome, revoked, tap>>
      /\ Made' = Made
  BY HostAssumption DEF Crash, Inv, TypeOK, Made
<1>2. /\ \A id \in ID : grants'[id] = None /\ pending'[id] = None
      /\ \A c \in Caller : /\ pc'[c] = "idle" /\ ref'[c] = None
                            /\ seen'[c] = {} /\ res'[c] = "none"
      /\ running' = {}
  BY DEF Crash
<1>3. TypeOK'
  <2>1. crashes' \in 0..MaxCrashes
    BY <1>1, HostAssumption
  <2>2. [c \in Caller |-> NoSpec] \in [Caller -> Request]
    BY NoSpecIsRequest
  <2>3. /\ grants' \in [ID -> LaunchOrNone] /\ pending' \in [ID -> LaunchOrNone]
        /\ sock' \in [ID -> LaunchOrNone] /\ link' \in [Launch -> LaunchOrNone]
        /\ dir' \in [ID -> SUBSET Launch] /\ running' \subseteq Launch
        /\ pc' \in [Caller -> Label] /\ ref' \in [Caller -> LaunchOrNone]
        /\ ctx' \in [Caller -> BOOLEAN] /\ res' \in [Caller -> Result]
        /\ seen' \in [Caller -> SUBSET Launch]
    BY DEF Crash, LaunchOrNone, Label, Result
  <2>4. req' \in [Caller -> Request]
    BY <2>2 DEF Crash
  <2> QED BY <1>1, <2>1, <2>3, <2>4 DEF Inv, TypeOK, Request
<1>4. CallerOK' /\ MapsOK' /\ LaunchOK' /\ RunnersOK' /\ WaitOK'
  BY <1>1, <1>2 DEF Inv, CallerOK, MapsOK, LaunchOK, RunnersOK, WaitOK, RunLabel
<1>5. MachineOK' /\ TapOK' /\ SeenOK'
  BY <1>1, <1>2 DEF Inv, MachineOK, TapOK, TapAccounted, SeenOK
<1> QED BY <1>3, <1>4, <1>5 DEF Inv

LEMMA InitInv == Init => Inv
<1> SUFFICES ASSUME Init PROVE Inv
  OBVIOUS
<1>1. Made = {}
  BY DEF Init, Made
<1>2. [c \in Caller |-> NoSpec] \in [Caller -> Request]
  BY NoSpecIsRequest
<1>3. TypeOK
  BY <1>2, HostAssumption DEF Init, TypeOK, LaunchOrNone, Label, Result, Request
<1>4. CallerOK /\ MapsOK /\ LaunchOK /\ RunnersOK /\ WaitOK
  BY <1>1 DEF Init, CallerOK, MapsOK, LaunchOK, RunnersOK, WaitOK, RunLabel
<1>5. MachineOK /\ TapOK /\ SeenOK
  BY <1>1 DEF Init, MachineOK, TapOK, TapAccounted, SeenOK
<1> QED BY <1>3, <1>4, <1>5 DEF Inv

LEMMA NextInv == Inv /\ [Next]_vars => Inv'
<1> SUFFICES ASSUME Inv, [Next]_vars PROVE Inv'
  OBVIOUS
<1>1. CASE UNCHANGED vars
  <2>1. TypeOK' /\ CallerOK' /\ MapsOK' /\ LaunchOK' /\ RunnersOK' /\ WaitOK'
    BY <1>1 DEF Inv, TypeOK, CallerOK, MapsOK, LaunchOK, RunnersOK, WaitOK,
                Made, vars, hostVars, machineVars, callerVars
  <2>2. MachineOK' /\ TapOK' /\ SeenOK'
    BY <1>1 DEF Inv, MachineOK, TapOK, TapAccounted, Runs, SeenOK, Over, Made,
                vars, hostVars, machineVars, callerVars
  <2> QED BY <2>1, <2>2 DEF Inv
<1>2. ASSUME NEW c \in Caller, Ensure(c) PROVE Inv'
  BY <1>2, CheckKeepsInv, RefuseKeepsInv, ReserveKeepsInv, SetupKeepsInv,
     StartKeepsInv, DialKeepsInv, AnswersKeepsInv, RefusesKeepsInv,
     CompleteKeepsInv, CleanupKeepsInv, WaitKeepsInv DEF Ensure
<1>3. ASSUME NEW c \in Caller, Revoke(c) PROVE Inv'
  BY <1>3, RevokeCallKeepsInv, RevokePendingKeepsInv, RevokeWaitKeepsInv,
     TakeKeepsInv, StopKeepsInv, RevokeRemoveKeepsInv DEF Revoke
<1> QED
  BY <1>1, <1>2, <1>3, CtxKeepsInv, ListenKeepsInv, MicroVMEndsKeepsInv,
     CrashKeepsInv DEF Next

----------------------------------------------------------------------------
(* The properties, for every value of the constants.                       *)

LEMMA SpecInv == Spec => []Inv
BY InitInv, NextInv, PTL DEF Spec
\* Every variable of the host keeps its type, whatever the interleaving of
\* Ensure, Revoke, cancellation and daemon deaths.
THEOREM TypeCorrect == Spec => []TypeOK
<1>1. Inv => TypeOK
  BY DEF Inv
<1> QED BY <1>1, SpecInv, PTL

\* Concurrent Ensures of an id share one launch although the image is
\* verified without Host.mu.
THEOREM LaunchesAreShared == Spec => []OneLaunchPerID
<1>1. ASSUME Inv PROVE OneLaunchPerID
  <2> SUFFICES ASSUME NEW c \in Caller, NEW n \in Launch, Runs(c, n)
               PROVE  /\ pending[req[c].id] = n
                      /\ grants[req[c].id] = None
                      /\ \A d \in Caller : Runs(d, n) => d = c
    BY DEF OneLaunchPerID
  <2>1. pc[c] \in RunLabel /\ ref[c] = n
    BY DEF Runs, RunLabel
  <2>2. pending[req[c].id] = n /\ req[c].id \in ID /\ n # None
    BY <1>1, <2>1, NoneIsNoLaunch DEF Inv, RunnersOK, CallerOK, SpecRec
  <2>3. grants[req[c].id] = None
    BY <1>1, <2>2 DEF Inv, MapsOK
  <2>4. \A d \in Caller : Runs(d, n) => d = c
    BY <1>1, <2>1 DEF Inv, RunnersOK, Runs, RunLabel
  <2> QED BY <2>2, <2>3, <2>4
<1> QED BY <1>1, SpecInv, PTL

\* Whoever waits for a launch, in Ensure or in Revoke, waits for one that a
\* goroutine is carrying out or that is concluded: no wakeup is lost.
THEOREM NobodyWaitsInVain == Spec => []WaitersHaveRunner
<1>1. ASSUME Inv PROVE WaitersHaveRunner
  <2>1. \A id \in ID : pending[id] # None =>
           \E c \in Caller : Runs(c, pending[id]) /\ req[c].id = id
    BY <1>1 DEF Inv, RunnersOK, Runs, RunLabel
  <2>2. ASSUME NEW c \in Caller, pc[c] \in {"wait", "rwait"},
               outcome[ref[c]] = "none"
        PROVE  \E d \in Caller : Runs(d, ref[c])
    <3>1. PICK id \in ID : pending[id] = ref[c]
      BY <1>1, <2>2 DEF Inv, WaitOK
    <3>2. pending[id] # None
      BY <1>1, <2>2, <3>1, Shape DEF Inv, CallerOK
    <3> QED BY <2>1, <3>1, <3>2
  <2> QED BY <2>1, <2>2 DEF WaitersHaveRunner
<1> QED BY <1>1, SpecInv, PTL

\* A microVM runs only while something will stop it: the call that launches
\* it and has not failed, the grant, or a Revoke that took the grant.
THEOREM NoMicroVMLeaks == Spec => []VMAccounted
<1>1. ASSUME Inv PROVE VMAccounted
  <2> SUFFICES ASSUME NEW n \in running
               PROVE  \/ \E c \in Caller :
                            /\ Runs(c, n)
                            /\ \/ pc[c] \in {"dial", "handshake"}
                               \/ pc[c] = "complete" /\ res[c] = "ok"
                      \/ grants[spec[n].id] = n
                      \/ \E c \in Caller : pc[c] = "stop" /\ ref[c] = n
    BY DEF VMAccounted
  <2>1. ASSUME NEW c \in Caller, pc[c] = "complete", ref[c] = n
        PROVE  res[c] = "ok"
    BY <1>1, <2>1 DEF Inv, MachineOK
  <2> QED BY <1>1, <2>1 DEF Inv, MachineOK, Runs
<1> QED BY <1>1, SpecInv, PTL

\* As long as the daemon lives, a tap device exists only while something
\* will close it.
THEOREM NoTapLeaks == Spec => []TapAccounted
<1>1. Inv => TapAccounted
  BY DEF Inv, TapOK
<1> QED BY <1>1, SpecInv, PTL

\* Ensure never returns the environment of another id, image or network.
THEOREM EnsureIsRight == Spec => []EnsureGetsWhatItAsked
<1>1. Inv => EnsureGetsWhatItAsked
  BY DEF Inv, CallerOK, EnsureGetsWhatItAsked
<1> QED BY <1>1, SpecInv, PTL

\* A Revoke that succeeded ended what its id held when it was called: no map
\* leads to it, and its microVM is dead or about to be stopped by the Revoke
\* that took it.
THEOREM RevokeIsFinal == Spec => []RevokeEndsWhatItSaw
<1>1. ASSUME Inv PROVE RevokeEndsWhatItSaw
  <2> SUFFICES ASSUME NEW c \in Caller, pc[c] = "idle", NEW n \in seen[c]
               PROVE  /\ Over(n)
                      /\ n \in running =>
                            \E d \in Caller : pc[d] = "stop" /\ ref[d] = n
    BY DEF RevokeEndsWhatItSaw, Over
  <2>1. Over(n) /\ n \in Made
    BY <1>1 DEF Inv, SeenOK
  <2>2. ASSUME NEW d \in Caller, pc[d] \in {"dial", "handshake", "complete"}
        PROVE  ref[d] # n
    <3>1. pc[d] \in RunLabel /\ req[d].id \in ID
      BY <1>1, <2>2 DEF RunLabel, Inv, CallerOK, SpecRec
    <3> QED BY <1>1, <2>1, <3>1 DEF Inv, RunnersOK, Over
  <2>3. ASSUME n \in running PROVE spec[n].id \in ID
    BY <1>1, <2>1 DEF Inv, LaunchOK, SpecRec
  <2> QED BY <1>1, <2>1, <2>2, <2>3 DEF Inv, MachineOK, Over
<1> QED BY <1>1, SpecInv, PTL

----------------------------------------------------------------------------
(* Capacity and refinement.                                                *)

G == {id \in ID : grants[id] # None}
P == {id \in ID : pending[id] # None}

\* What a step does to the two maps, and that a slot was free if it takes one.
LEMMA MapSteps ==
    ASSUME Inv, [Next]_vars
    PROVE  \/ UNCHANGED <<grants, pending, launched>>
           \/ \E c \in Caller : EnsureReserve(c)
           \/ \E c \in Caller : CompleteEnsure(c)
           \/ \E c \in Caller : RevokeTake(c)
           \/ Crash
<1>1. \A c \in Caller, s \in SpecRec : EnsureCheck(c, s)
         => UNCHANGED <<grants, pending, launched>>
  BY DEF EnsureCheck, hostVars
<1>2. \A c \in Caller :
         \/ EnsureRefuse(c) \/ EnsureSetup(c) \/ EnsureStart(c)
         \/ EnsureDial(c) \/ GuestAnswers(c) \/ GuestRefuses(c)
         \/ CleanupEnsure(c) \/ WaitEnsure(c) \/ CtxDone(c)
         => UNCHANGED <<grants, pending, launched>>
  BY DEF EnsureRefuse, EnsureSetup, EnsureStart, EnsureDial, GuestAnswers,
         GuestRefuses, CleanupEnsure, WaitEnsure, CtxDone, hostVars
<1>3. \A c \in Caller, id \in ID : RevokeCall(c, id)
         => UNCHANGED <<grants, pending, launched>>
  BY DEF RevokeCall, hostVars
<1>4. \A c \in Caller :
         RevokePending(c) \/ RevokeWait(c) \/ RevokeStop(c) \/ RevokeRemove(c)
         => UNCHANGED <<grants, pending, launched>>
  BY DEF RevokePending, RevokeWait, RevokeStop, RevokeRemove, hostVars
<1>5. \A n \in Launch : SupervisorListen(n) \/ MicroVMEnds(n)
         => UNCHANGED <<grants, pending, launched>>
  BY DEF SupervisorListen, MicroVMEnds, hostVars
<1>6. UNCHANGED vars => UNCHANGED <<grants, pending, launched>>
  BY DEF vars, hostVars
<1> QED BY <1>1, <1>2, <1>3, <1>4, <1>5, <1>6 DEF Next, Ensure, Revoke

LEMMA FiniteMaps ==
    /\ IsFiniteSet(G) /\ IsFiniteSet(P)
    /\ Cardinality(G) \in Nat /\ Cardinality(P) \in Nat
<1>1. IsFiniteSet(G) /\ IsFiniteSet(P)
  BY HostAssumption, FS_Subset DEF G, P
<1> QED BY <1>1, FS_CardinalityType

LEMMA CapacityNext ==
    ASSUME Inv, Capacity, [Next]_vars
    PROVE  Capacity'
<1>1. Cardinality(G) + Cardinality(P) <= Slots
  BY DEF Capacity, HeldCount, G, P
<1>2. SUFFICES Cardinality(G') + Cardinality(P') <= Slots
  BY DEF Capacity, HeldCount, G, P
<1>3. CASE UNCHANGED <<grants, pending, launched>>
  BY <1>1, <1>3 DEF G, P
<1>4. ASSUME NEW c \in Caller, EnsureReserve(c)
      PROVE  Cardinality(G') + Cardinality(P') <= Slots
  <2> DEFINE i == req[c].id
  <2>1. i \in ID
    BY <1>4 DEF EnsureReserve, Inv, CallerOK, SpecRec
  <2>2. /\ i \notin P
        /\ grants' = grants /\ pending' = [pending EXCEPT ![i] = launched + 1]
        /\ ~Full /\ launched + 1 # None
    BY <1>4, HostAssumption DEF EnsureReserve, NotOccupied, P, Inv, TypeOK
  <2>3. G' = G /\ P' = P \cup {i}
    BY <2>1, <2>2, Shape DEF G, P
  <2>4. Cardinality(P') = Cardinality(P) + 1
    BY <2>2, <2>3, FiniteMaps, FS_AddElement
  <2>5. ~(Cardinality(G) + Cardinality(P) >= Slots)
    BY <2>2 DEF Full, HeldCount, G, P
  <2> QED BY <2>3, <2>4, <2>5, FiniteMaps, HostAssumption
<1>5. ASSUME NEW c \in Caller, CompleteEnsure(c)
      PROVE  Cardinality(G') + Cardinality(P') <= Slots
  <2> DEFINE i == req[c].id
             n == ref[c]
  <2>1. i \in ID /\ n # None /\ pending[i] = n /\ grants[i] = None
    BY <1>5, Shape DEF CompleteEnsure, Inv, CallerOK, RunnersOK, MapsOK,
                       RunLabel, SpecRec
  <2>2. /\ pending' = [pending EXCEPT ![i] = None]
        /\ grants' \in {grants, [grants EXCEPT ![i] = n]}
    BY <1>5 DEF CompleteEnsure
  <2>3. P' = P \ {i} /\ i \in P /\ i \notin G /\ G' \in {G, G \cup {i}}
    BY <2>1, <2>2, Shape DEF G, P
  <2>4. Cardinality(P') = Cardinality(P) - 1
    BY <2>3, FiniteMaps, FS_RemoveElement
  <2>5. Cardinality(G') \in {Cardinality(G), Cardinality(G) + 1}
    BY <2>3, FiniteMaps, FS_AddElement
  <2> QED BY <1>1, <2>4, <2>5, FiniteMaps, HostAssumption
<1>6. ASSUME NEW c \in Caller, RevokeTake(c)
      PROVE  Cardinality(G') + Cardinality(P') <= Slots
  <2>1. G' \subseteq G /\ P' = P
    BY <1>6, Shape DEF RevokeTake, G, P
  <2>2. Cardinality(G') <= Cardinality(G) /\ Cardinality(G') \in Nat
    BY <2>1, FiniteMaps, FS_Subset, FS_CardinalityType
  <2> QED BY <1>1, <2>1, <2>2, FiniteMaps, HostAssumption
<1>7. CASE Crash
  <2>1. G' = {} /\ P' = {}
    BY <1>7 DEF Crash, G, P
  <2> QED BY <2>1, FS_EmptySet, HostAssumption
<1> QED BY <1>3, <1>4, <1>5, <1>6, <1>7, MapSteps

\* The grants and the launches in flight never outnumber the slots.
THEOREM CapacityHolds == Spec => []Capacity
<1>1. Init => Capacity
  <2> SUFFICES ASSUME Init PROVE Capacity
    OBVIOUS
  <2>1. G = {} /\ P = {}
    BY DEF Init, G, P
  <2>2. Cardinality(G) = 0 /\ Cardinality(P) = 0
    BY <2>1, FS_EmptySet
  <2> QED BY <2>2, HostAssumption DEF Capacity, HeldCount, G, P
<1>2. Inv /\ Capacity /\ [Next]_vars => Capacity'
  BY CapacityNext
<1> QED BY <1>1, <1>2, SpecInv, PTL DEF Spec
----------------------------------------------------------------------------
(* Refinement.                                                             *)

Holder ==
    [id \in ID |-> IF grants[id] # None THEN grants[id] ELSE pending[id]]
Live == {grants[id] : id \in ID} \ {None}

\* The contract's count of the ids that are held is the host's.
LEMMA HeldIsGrantsAndPending ==
    ASSUME Inv
    PROVE  Cardinality({id \in ID : Holder[id] # None})
              = Cardinality(G) + Cardinality(P)
<1>1. {id \in ID : Holder[id] # None} = G \cup P /\ G \cap P = {}
  BY DEF Holder, G, P, Inv, MapsOK
<1>2. Cardinality(G \cup P)
         = Cardinality(G) + Cardinality(P) - Cardinality(G \cap P)
  BY FiniteMaps, FS_Union
<1>3. Cardinality(G \cap P) = 0
  BY <1>1, FS_EmptySet
<1>4. Cardinality(G \cup P) = Cardinality(G) + Cardinality(P)
  BY <1>2, <1>3, FiniteMaps
<1> QED BY <1>1, <1>4

\* The instance has its own name for Cardinality.
LEMMA SameCardinality == \A S : Contract!Cardinality(S) = Cardinality(S)
BY DEF Contract!Cardinality, Cardinality

LEMMA RefinementInit == Init => Contract!Init
BY DEF Init, Contract!Init

LEMMA ReserveRefines ==
    ASSUME Inv, NEW c \in Caller, EnsureReserve(c)
    PROVE  Contract!Next
<1>i. PICK i \in ID : i = req[c].id
  BY DEF EnsureReserve, Inv, CallerOK, SpecRec
<1>n. PICK n \in Launch : n = launched + 1
  BY HostAssumption DEF EnsureReserve, Inv, TypeOK, Launch
<1>1. /\ n # None /\ launched \in Nat /\ n = launched + 1
      /\ launched' = n
  BY <1>n, NoneIsNoLaunch DEF EnsureReserve, Inv, TypeOK
<1>2. /\ grants[i] = None /\ pending[i] = None /\ grants' = grants
      /\ pending' = [pending EXCEPT ![i] = n]
      /\ ~Full
  BY <1>i, <1>n DEF EnsureReserve, NotOccupied
<1>3. Holder[i] = None /\ Holder' = [Holder EXCEPT ![i] = n]
  BY <1>1, <1>2, Shape DEF Holder
<1>4. Cardinality({id \in ID : Holder[id] # None}) < Slots
  <2>1. ~(Cardinality(G) + Cardinality(P) >= Slots)
    BY <1>2 DEF Full, HeldCount, G, P
  <2> QED BY <2>1, HeldIsGrantsAndPending, FiniteMaps, HostAssumption
<1>5. n \notin 1..launched /\ (1..launched)' = (1..launched) \cup {n}
  BY <1>1
<1>6. Live' = Live
  BY <1>2 DEF Live
<1>7. Contract!Reserve(i, n)
  <2>1. Contract!Cardinality(Contract!Held) < Slots
    BY <1>4, SameCardinality DEF Contract!Held, Holder
  <2>2. (1..launched)' = (1..launched) \cup {n} /\ n \notin 1..launched
    BY <1>5
  <2> QED BY <1>3, <1>6, <2>1, <2>2 DEF Contract!Reserve, Contract!SlotFree, Contract!Fresh,
                                         Holder, Live
<1> QED BY <1>1, <1>7 DEF Contract!Next

LEMMA CompleteRefines ==
    ASSUME Inv, NEW c \in Caller, CompleteEnsure(c)
    PROVE  Contract!Next
<1>i. PICK i \in ID : i = req[c].id
  BY DEF CompleteEnsure, Inv, CallerOK, RunLabel, SpecRec
<1>n. PICK n : n = ref[c]
  OBVIOUS
<1>1. /\ n # None /\ pending[i] = n /\ grants[i] = None
      /\ \A id \in ID : grants[id] # n
  BY <1>i, <1>n, Shape DEF CompleteEnsure, Inv, CallerOK, RunnersOK, MapsOK, RunLabel, SpecRec
<1>2. /\ pending' = [pending EXCEPT ![i] = None]
      /\ launched' = launched
      /\ grants' \in {grants, [grants EXCEPT ![i] = n]}
  BY <1>i, <1>n DEF CompleteEnsure
<1>3. Holder[i] = n /\ n \notin Live
  BY <1>1 DEF Holder, Live
<1>4. CASE grants' = [grants EXCEPT ![i] = n]
  <2>1. Holder' = Holder
    BY <1>1, <1>2, <1>4, Shape DEF Holder
  <2>2. Live' = Live \cup {n}
    BY <1>1, <1>4, Shape DEF Live
  <2>3. Contract!Commit(i)
    BY <1>1, <1>2, <1>3, <2>1, <2>2 DEF Contract!Commit, Holder, Live
  <2> QED BY <1>1, <2>3 DEF Contract!Next
<1>5. CASE grants' = grants
  <2>1. Holder' = [Holder EXCEPT ![i] = None]
    BY <1>1, <1>2, <1>5, Shape DEF Holder
  <2>2. Live' = Live \ {n}
    BY <1>3, <1>5 DEF Live
  <2>3. Contract!Release(i)
    BY <1>1, <1>2, <1>3, <2>1, <2>2 DEF Contract!Release, Contract!LiveWithout,
                                         Holder, Live
  <2> QED BY <1>1, <2>3 DEF Contract!Next
<1> QED BY <1>2, <1>4, <1>5

LEMMA TakeRefines ==
    ASSUME Inv, NEW c \in Caller, RevokeTake(c)
    PROVE  [Contract!Next]_Contract!vars
<1>i. PICK i \in ID : i = req[c].id
  BY DEF RevokeTake, Inv, CallerOK
<1>n. PICK n : n = grants[i]
  OBVIOUS
<1>1. pending[i] = None /\ pending' = pending /\ launched' = launched
  BY <1>i DEF RevokeTake, LoopEnds
<1>2. CASE grants' = grants
  BY <1>1, <1>2 DEF Contract!vars
<1>3. CASE n # None /\ grants' = [grants EXCEPT ![i] = None]
  <2>1. Holder[i] = n /\ Holder' = [Holder EXCEPT ![i] = None]
    BY <1>1, <1>3, <1>n, Shape DEF Holder
  <2>2. \A id \in ID \ {i} : grants[id] # n
    BY <1>1, <1>3, <1>n DEF Inv, MapsOK
  <2>3. Live' = Live \ {n}
    BY <1>1, <1>3, <1>n, <2>2, Shape DEF Live
  <2>4. Contract!Release(i)
    BY <1>1, <1>3, <2>1, <2>3 DEF Contract!Release, Contract!LiveWithout,
                                         Holder, Live
  <2> QED BY <1>1, <2>4 DEF Contract!Next
<1> QED BY <1>2, <1>3, <1>i, <1>n DEF RevokeTake

LEMMA CrashRefines == ASSUME Inv, Crash PROVE Contract!Next
<1>1. Holder' = [id \in ID |-> None] /\ Live' = {} /\ launched' = launched
  BY DEF Crash, Holder, Live
<1>2. Contract!Vanish
  BY <1>1 DEF Contract!Vanish, Holder, Live
<1> QED BY <1>2 DEF Contract!Next

\* Every step of the host is a step of the occupancy contract or leaves what
\* the contract speaks of alone.
THEOREM HostImplementsOccupancy == Spec => ImplementsOccupancy
<1>1. Inv /\ [Next]_vars => [Contract!Next]_Contract!vars
  <2> SUFFICES ASSUME Inv, [Next]_vars PROVE [Contract!Next]_Contract!vars
    OBVIOUS
  <2>1. CASE UNCHANGED <<grants, pending, launched>>
    BY <2>1 DEF Contract!vars
  <2> QED BY <2>1, MapSteps, ReserveRefines, CompleteRefines, TakeRefines,
             CrashRefines
<1> QED
  BY <1>1, RefinementInit, SpecInv, PTL DEF Spec, ImplementsOccupancy, Contract!Spec

=============================================================================

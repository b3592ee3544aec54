---------------------------- MODULE IsolatedHost ----------------------------
(***************************************************************************)
(* The isolated host (src/isolated/isolated.go, env.go, process.go): the   *)
(* goroutines of concurrent Ensure and Revoke calls over the grants and    *)
(* pending maps, the microVM, tap device, grant directory and guest socket *)
(* of every launch, cancellation, and the death of the daemon.             *)
(*                                                                         *)
(* One ensureCall and the environment it may produce are one "launch",     *)
(* numbered in the order the calls are created.  A step of a goroutine is  *)
(* a section under Host.mu, or one effect outside of it.                   *)
(***************************************************************************)
EXTENDS Naturals, FiniteSets

CONSTANTS
    ID,           \* grant ids
    Caller,       \* goroutines that call the host, one call at a time
    Image,        \* image names callers ask for
    Catalog,      \* the images the host is configured with
    Network,      \* networks callers ask for, of "none" and "allowlist"
    Allow,        \* whether Config.Allow has destinations
    Slots,        \* Config.Slots
    None,         \* nil
    MaxLaunches,  \* bound: ensureCalls ever created
    MaxCrashes    \* bound: deaths of the daemon

ASSUME HostAssumption ==
    /\ IsFiniteSet(ID)
    /\ Catalog \subseteq Image
    /\ Network \subseteq {"none", "allowlist"}
    /\ Allow \in BOOLEAN
    /\ Slots \in Nat \ {0}
    /\ MaxLaunches \in Nat
    /\ MaxCrashes \in Nat
    /\ None \notin Nat

Launch == 1..MaxLaunches
SpecRec == [id : ID, image : Image, network : Network]
NoSpec == [id |-> None, image |-> None, network |-> None]

VARIABLES
    grants,     \* Host.grants: the launch whose environment holds the id
    pending,    \* Host.pending: the launch in flight for the id
    launched,   \* how many ensureCalls were created
    spec,       \* ensureCall.spec, per launch
    cancelled,  \* launches whose ensureCall.cancel was called
    outcome,    \* ensureCall.err once ensureCall.done is closed
    revoked,    \* launches whose environment.revoked is set
    running,    \* launches whose microVM process runs
    link,       \* the launch whose microVM is at the other end of the
                \* connection the launch's environment made, or is making
    tap,        \* the launch that created the tap device named after the id
    dir,        \* launches with their files in the directory grants/<id>
    sock,       \* the launch that listens on grants/<id>/guest.sock
    pc,         \* where each caller is
    req,        \* the Spec (Revoke: only its id) of the caller's call
    ref,        \* the launch the caller runs, waits for, revokes or got
    ctx,        \* whether the caller's context is done
    res,        \* what the call returned, or is about to
    seen,       \* history: the launches of the id when Revoke was called
    crashes     \* how often the daemon died

hostVars == <<grants, pending, launched, spec, cancelled, outcome>>
machineVars == <<revoked, running, link, tap, dir, sock>>
callerVars == <<pc, req, ref, ctx, res, seen>>
vars == <<hostVars, machineVars, callerVars, crashes>>

----------------------------------------------------------------------------
(* Faults: what the code would do without one of its precautions.  They    *)
(* are not part of the specification.                                      *)

HeldCount(S) == Cardinality({id \in ID : S[id] # None})
FullIgnoringPending == HeldCount(grants) >= Slots
NotOccupiedIgnoringPending(id) == grants[id] = None
AnyConfig(n, s) == TRUE
KeepTap(id, n) == tap
KeepVM(n) == running
OutcomeOnSuccessOnly(n, r) ==
    IF r = "ok" THEN [outcome EXCEPT ![n] = r] ELSE outcome
NothingInFlight(id) == TRUE
AlwaysInFlight(id) == FALSE

----------------------------------------------------------------------------
(* The maps under Host.mu.                                                 *)

\* len(h.grants)+len(h.pending) >= h.slots
Full == HeldCount(grants) + HeldCount(pending) >= Slots

\* Neither map has the id.
NotOccupied(id) == grants[id] = None /\ pending[id] = None

\* An existing launch serves the caller only with the image and network
\* asked for.
SameConfig(n, s) == spec[n].image = s.image /\ spec[n].network = s.network

\* launchCtx, of the caller's own context and of ensureCall.cancel.
LaunchCtxDone(c) == ctx[c] \/ ref[c] \in cancelled

----------------------------------------------------------------------------
(* The effects on the machine.                                             *)

\* netAttach.close: deletes the device the launch created.
CloseTap(id, n) == IF tap[id] = n THEN [tap EXCEPT ![id] = None] ELSE tap

\* processInstance.Stop kills the microVM and waits for it.
StopVM(n) == running \ {n}

\* environment.revoke
RevokeEnv(id, n) ==
    /\ revoked' = revoked \cup {n}
    /\ link' = [link EXCEPT ![n] = None]
    /\ running' = StopVM(n)
    /\ sock' = IF sock[id] = n THEN [sock EXCEPT ![id] = None] ELSE sock
    /\ tap' = CloseTap(id, n)

\* os.RemoveAll of grants/<id>, whoever's files are in it; it may fail.
RemoveDir(id) ==
    \/ /\ dir' = [dir EXCEPT ![id] = {}]
       /\ sock' = [sock EXCEPT ![id] = None]
    \/ UNCHANGED <<dir, sock>>

\* ensureCall.err and close(ensureCall.done)
CloseDone(n, r) == [outcome EXCEPT ![n] = r]

----------------------------------------------------------------------------
(* Ensure.                                                                 *)

GoTo(c, label) == pc' = [pc EXCEPT ![c] = label]

\* The call returns without error: Ensure of s with n, Revoke of S with None.
Return(c, s, n, S) ==
    /\ GoTo(c, "idle")
    /\ req' = [req EXCEPT ![c] = s]
    /\ ref' = [ref EXCEPT ![c] = n]
    /\ ctx' = [ctx EXCEPT ![c] = FALSE]
    /\ res' = [res EXCEPT ![c] = "ok"]
    /\ seen' = [seen EXCEPT ![c] = S]

\* The call returns an error; which one is told apart by the comments only.
Fail(c) ==
    /\ GoTo(c, "idle")
    /\ req' = [req EXCEPT ![c] = NoSpec]
    /\ ref' = [ref EXCEPT ![c] = None]
    /\ ctx' = [ctx EXCEPT ![c] = FALSE]
    /\ res' = [res EXCEPT ![c] = "none"]
    /\ seen' = [seen EXCEPT ![c] = {}]

\* The call goes on at label, for s, with launch n and the history S.
Continue(c, label, s, n, S) ==
    /\ GoTo(c, label)
    /\ req' = [req EXCEPT ![c] = s]
    /\ ref' = [ref EXCEPT ![c] = n]
    /\ res' = [res EXCEPT ![c] = "none"]
    /\ seen' = [seen EXCEPT ![c] = S]
    /\ UNCHANGED ctx

\* The lookup Ensure makes under the lock, twice: an occupied id is
\* answered with its environment, with ErrConflict, or by waiting.
Occupied(c, s) ==
    \/ /\ grants[s.id] # None
       /\ \/ SameConfig(grants[s.id], s) /\ Return(c, s, grants[s.id], {})
          \/ ~SameConfig(grants[s.id], s) /\ Fail(c)
    \/ /\ grants[s.id] = None
       /\ pending[s.id] # None
       /\ \/ /\ SameConfig(pending[s.id], s)
             /\ Continue(c, "wait", s, pending[s.id], {})
          \/ ~SameConfig(pending[s.id], s) /\ Fail(c)

\* Ensure up to the first unlock.  A done context, an invalid spec and a
\* failed probe are refused before anything else.
EnsureCheck(c, s) ==
    /\ pc[c] = "idle"
    /\ \/ Fail(c)
       \/ Occupied(c, s)
       \/ NotOccupied(s.id) /\ Continue(c, "verify", s, None, {})
    /\ UNCHANGED <<hostVars, machineVars, crashes>>

\* The image is hashed without the lock, and is ErrUnknownImage if it is not
\* in the catalog or its files do not match; then occupancy is looked up
\* again.  A free id is still refused with ErrNetwork, with ErrCapacity, or
\* because its directory cannot be made.
EnsureRefuse(c) ==
    /\ pc[c] = "verify"
    /\ \/ Fail(c)
       \/ req[c].image \in Catalog /\ Occupied(c, req[c])
    /\ UNCHANGED <<hostVars, machineVars, crashes>>

\* The slot is reserved and the grant directory made under the same lock.
EnsureReserve(c) ==
    LET n == launched + 1
        s == req[c]
    IN  /\ pc[c] = "verify"
        /\ s.image \in Catalog
        /\ NotOccupied(s.id)
        /\ s.network = "allowlist" => Allow
        /\ ~Full
        /\ launched < MaxLaunches
        /\ launched' = n
        /\ spec' = [spec EXCEPT ![n] = s]
        /\ pending' = [pending EXCEPT ![s.id] = n]
        /\ dir' = [dir EXCEPT ![s.id] = @ \cup {n}]
        /\ ref' = [ref EXCEPT ![c] = n]
        /\ GoTo(c, IF s.network = "allowlist" THEN "setup" ELSE "start")
        /\ UNCHANGED <<grants, cancelled, outcome, revoked, running, link,
                       tap, sock, req, ctx, res, seen, crashes>>

\* What remains is completeEnsure with r.
Conclude(c, r) ==
    /\ GoTo(c, "complete")
    /\ res' = [res EXCEPT ![c] = r]

\* attach.Setup: the tap device is named after the id, so it cannot be
\* created while another launch's device of the id exists.
EnsureSetup(c) ==
    /\ pc[c] = "setup"
    /\ \/ /\ tap[req[c].id] = None
          /\ tap' = [tap EXCEPT ![req[c].id] = ref[c]]
          /\ GoTo(c, "start")
          /\ UNCHANGED res
       \/ /\ Conclude(c, "failed")
          /\ UNCHANGED tap
    /\ UNCHANGED <<hostVars, revoked, running, link, dir, sock, req, ref, ctx,
                   seen, crashes>>

\* launch.Start: makes the directory again, writes the machine config and
\* starts the supervisor; a failure may come before or after the directory.
EnsureStart(c) ==
    LET n == ref[c]
        id == req[c].id
    IN  /\ pc[c] = "start"
        /\ \/ /\ ~LaunchCtxDone(c)
              /\ running' = running \cup {n}
              /\ dir' = [dir EXCEPT ![id] = @ \cup {n}]
              /\ GoTo(c, "dial")
              /\ UNCHANGED <<tap, res>>
           \/ /\ dir' \in {dir, [dir EXCEPT ![id] = @ \cup {n}]}
              /\ tap' = CloseTap(id, n)
              /\ Conclude(c, "failed")
              /\ UNCHANGED running
        /\ UNCHANGED <<hostVars, revoked, link, sock, req, ref, ctx, seen,
                       crashes>>

\* The supervisor creates the guest's socket next to the machine config.
SupervisorListen(n) ==
    /\ n \in running
    /\ n \in dir[spec[n].id]
    /\ sock[spec[n].id] = None
    /\ sock' = [sock EXCEPT ![spec[n].id] = n]
    /\ UNCHANGED <<hostVars, revoked, running, link, tap, dir, callerVars,
                   crashes>>

\* A microVM ends by itself: the guest powers off or panics (panic=1
\* reboot=k), or the supervisor fails.  Nobody waits for the process, so
\* only who talks to it can notice.
MicroVMEnds(n) ==
    /\ n \in running
    /\ running' = running \ {n}
    /\ sock' = [id \in ID |-> IF sock[id] = n THEN None ELSE sock[id]]
    /\ UNCHANGED <<hostVars, revoked, link, tap, dir, callerVars, crashes>>

\* environment.dial, Connect and the dialing half of dialGuest: the path of
\* the socket is tried until it is accepted or launchCtx ends; then the
\* environment is revoked before completing.
EnsureDial(c) ==
    LET n == ref[c]
        id == req[c].id
    IN  /\ pc[c] = "dial"
        /\ \/ /\ ~LaunchCtxDone(c)
              /\ sock[id] # None
              /\ link' = [link EXCEPT ![n] = sock[id]]
              /\ GoTo(c, "handshake")
              /\ UNCHANGED <<revoked, running, tap, sock, res>>
           \/ /\ LaunchCtxDone(c)
              /\ RevokeEnv(id, n)
              /\ Conclude(c, "failed")
        /\ UNCHANGED <<hostVars, dir, req, ref, ctx, seen, crashes>>

\* The reading half of dialGuest, which has no deadline: the guest behind
\* the accepted socket answers CONNECT ...
GuestAnswers(c) ==
    /\ pc[c] = "handshake"
    /\ link[ref[c]] \in running
    /\ Conclude(c, "ok")
    /\ UNCHANGED <<hostVars, machineVars, req, ref, ctx, seen, crashes>>

\* ... or closes the connection, and Connect is where it was.
GuestRefuses(c) ==
    /\ pc[c] = "handshake"
    /\ link' = [link EXCEPT ![ref[c]] = None]
    /\ GoTo(c, "dial")
    /\ UNCHANGED <<hostVars, revoked, running, tap, dir, sock, req, ref, ctx,
                   res, seen, crashes>>

\* completeEnsure up to its unlock.
CompleteEnsure(c) ==
    LET n == ref[c]
        id == req[c].id
    IN  /\ pc[c] = "complete"
        /\ pending' = [pending EXCEPT ![id] = None]
        /\ outcome' = CloseDone(n, res[c])
        /\ cancelled' = cancelled \cup {n}
        /\ \/ /\ res[c] = "ok"
              /\ grants' = [grants EXCEPT ![id] = n]
              /\ Return(c, req[c], n, {})
           \/ /\ res[c] # "ok"
              /\ Continue(c, "cleanup", req[c], None, {})
              /\ UNCHANGED grants
        /\ UNCHANGED <<launched, spec, machineVars, crashes>>

\* completeEnsure after its unlock, when the launch failed.
CleanupEnsure(c) ==
    /\ pc[c] = "cleanup"
    /\ RemoveDir(req[c].id)
    /\ Fail(c)
    /\ UNCHANGED <<hostVars, revoked, running, link, tap, crashes>>

\* waitEnsure: the select takes either ready case.
WaitEnsure(c) ==
    /\ pc[c] = "wait"
    /\ \/ outcome[ref[c]] = "ok" /\ Return(c, req[c], ref[c], {})
       \/ outcome[ref[c]] = "failed" /\ Fail(c)
       \/ ctx[c] /\ Fail(c)
    /\ UNCHANGED <<hostVars, machineVars, crashes>>

----------------------------------------------------------------------------
(* Revoke, of the host and of an environment, which revokes its id.        *)

RevokeCall(c, id) ==
    /\ pc[c] = "idle"
    /\ \/ Fail(c)
       \/ Continue(c, "revoke", [NoSpec EXCEPT !.id = id], None,
                   {grants[id], pending[id]} \ {None})
    /\ UNCHANGED <<hostVars, machineVars, crashes>>

\* No launch of the id is in flight, so Revoke leaves its loop.
LoopEnds(id) == pending[id] = None

\* A launch in flight is cancelled and waited for.
RevokePending(c) ==
    /\ pc[c] = "revoke"
    /\ ~LoopEnds(req[c].id)
    /\ cancelled' = cancelled \cup {pending[req[c].id]}
    /\ Continue(c, "rwait", req[c], pending[req[c].id], seen[c])
    /\ UNCHANGED <<grants, pending, launched, spec, outcome, machineVars,
                   crashes>>

RevokeWait(c) ==
    /\ pc[c] = "rwait"
    /\ \/ /\ outcome[ref[c]] # "none"
          /\ Continue(c, "revoke", req[c], None, seen[c])
       \/ ctx[c] /\ Fail(c)
    /\ UNCHANGED <<hostVars, machineVars, crashes>>

\* The grant leaves the map, and with it the slot, under the lock.
RevokeTake(c) ==
    /\ pc[c] = "revoke"
    /\ LoopEnds(req[c].id)
    /\ \/ /\ grants[req[c].id] # None
          /\ grants' = [grants EXCEPT ![req[c].id] = None]
          /\ Continue(c, "stop", req[c], grants[req[c].id], seen[c])
       \/ /\ grants[req[c].id] = None
          /\ Return(c, NoSpec, None, seen[c])
          /\ UNCHANGED grants
    /\ UNCHANGED <<pending, launched, spec, cancelled, outcome, machineVars,
                   crashes>>

RevokeStop(c) ==
    /\ pc[c] = "stop"
    /\ RevokeEnv(req[c].id, ref[c])
    /\ GoTo(c, "remove")
    /\ UNCHANGED <<hostVars, dir, req, ref, ctx, res, seen, crashes>>

RevokeRemove(c) ==
    /\ pc[c] = "remove"
    /\ RemoveDir(req[c].id)
    /\ \/ dir'[req[c].id] = {} /\ Return(c, NoSpec, None, seen[c])
       \/ dir'[req[c].id] # {} /\ Fail(c)
    /\ UNCHANGED <<hostVars, revoked, running, link, tap, crashes>>

----------------------------------------------------------------------------
(* Contexts end at any time during a call.  When the daemon dies the       *)
(* microVMs get its parent-death signal and New wipes the grant            *)
(* directories; tap devices stay.                                          *)

CtxDone(c) ==
    /\ pc[c] # "idle"
    /\ ~ctx[c]
    /\ ctx' = [ctx EXCEPT ![c] = TRUE]
    /\ UNCHANGED <<hostVars, machineVars, pc, req, ref, res, seen, crashes>>

Crash ==
    /\ crashes < MaxCrashes
    /\ crashes' = crashes + 1
    /\ grants' = [id \in ID |-> None]
    /\ pending' = [id \in ID |-> None]
    /\ running' = {}
    /\ link' = [n \in Launch |-> None]
    /\ dir' = [id \in ID |-> {}]
    /\ sock' = [id \in ID |-> None]
    /\ pc' = [c \in Caller |-> "idle"]
    /\ ref' = [c \in Caller |-> None]
    /\ ctx' = [c \in Caller |-> FALSE]
    /\ res' = [c \in Caller |-> "none"]
    /\ seen' = [c \in Caller |-> {}]
    /\ req' = [c \in Caller |-> NoSpec]
    /\ UNCHANGED <<launched, spec, cancelled, outcome, revoked, tap>>

----------------------------------------------------------------------------

\* isolated.New
Init ==
    /\ grants = [id \in ID |-> None]
    /\ pending = [id \in ID |-> None]
    /\ launched = 0
    /\ spec = [n \in Launch |-> NoSpec]
    /\ cancelled = {}
    /\ outcome = [n \in Launch |-> "none"]
    /\ revoked = {}
    /\ running = {}
    /\ link = [n \in Launch |-> None]
    /\ tap = [id \in ID |-> None]
    /\ dir = [id \in ID |-> {}]
    /\ sock = [id \in ID |-> None]
    /\ pc = [c \in Caller |-> "idle"]
    /\ req = [c \in Caller |-> NoSpec]
    /\ ref = [c \in Caller |-> None]
    /\ ctx = [c \in Caller |-> FALSE]
    /\ res = [c \in Caller |-> "none"]
    /\ seen = [c \in Caller |-> {}]
    /\ crashes = 0

Ensure(c) ==
    \/ \E s \in SpecRec : EnsureCheck(c, s)
    \/ EnsureRefuse(c)
    \/ EnsureReserve(c)
    \/ EnsureSetup(c)
    \/ EnsureStart(c)
    \/ EnsureDial(c)
    \/ GuestAnswers(c)
    \/ GuestRefuses(c)
    \/ CompleteEnsure(c)
    \/ CleanupEnsure(c)
    \/ WaitEnsure(c)

Revoke(c) ==
    \/ \E id \in ID : RevokeCall(c, id)
    \/ RevokePending(c)
    \/ RevokeWait(c)
    \/ RevokeTake(c)
    \/ RevokeStop(c)
    \/ RevokeRemove(c)

Next ==
    \/ \E c \in Caller : Ensure(c) \/ Revoke(c) \/ CtxDone(c)
    \/ \E n \in Launch : SupervisorListen(n) \/ MicroVMEnds(n)
    \/ Crash

Spec == Init /\ [][Next]_vars

\* Goroutines that are inside a call keep running: the locks are held for
\* short sections, and Setup, Start, Stop and RemoveAll return.  A dead
\* microVM breaks its connections.  Nothing makes a guest answer, a context
\* end or a call begin.
Progress(c) ==
    \/ EnsureRefuse(c) \/ EnsureReserve(c) \/ EnsureSetup(c) \/ EnsureStart(c)
    \/ EnsureDial(c) \/ CompleteEnsure(c) \/ CleanupEnsure(c) \/ WaitEnsure(c)
    \/ /\ pc[c] = "handshake"
       /\ link[ref[c]] \notin running
       /\ GuestRefuses(c)
    \/ RevokePending(c) \/ RevokeWait(c) \/ RevokeTake(c) \/ RevokeStop(c)
    \/ RevokeRemove(c)

FairSpec == Spec /\ \A c \in Caller : WF_vars(Progress(c))

\* Supervisors that, in addition, answer or close what they accepted.
ResponsiveSpec ==
    FairSpec /\ \A c \in Caller : WF_vars(GuestAnswers(c) \/ GuestRefuses(c))

----------------------------------------------------------------------------
(* Properties.                                                             *)

Label == {"idle", "verify", "setup", "start", "dial", "handshake", "complete",
          "cleanup", "wait", "revoke", "rwait", "stop", "remove"}
Result == {"none", "ok", "failed"}
LaunchOrNone == Launch \cup {None}

\* The types of the host's state.
TypeOK ==
    /\ grants \in [ID -> LaunchOrNone]
    /\ pending \in [ID -> LaunchOrNone]
    /\ launched \in 0..MaxLaunches
    /\ spec \in [Launch -> SpecRec \cup {NoSpec}]
    /\ cancelled \subseteq Launch
    /\ outcome \in [Launch -> {"none", "ok", "failed"}]
    /\ revoked \subseteq Launch
    /\ running \subseteq Launch
    /\ link \in [Launch -> LaunchOrNone]
    /\ tap \in [ID -> LaunchOrNone]
    /\ dir \in [ID -> SUBSET Launch]
    /\ sock \in [ID -> LaunchOrNone]
    /\ pc \in [Caller -> Label]
    /\ req \in [Caller -> [id : ID \cup {None}, image : Image \cup {None},
                            network : Network \cup {None}]]
    /\ ref \in [Caller -> LaunchOrNone]
    /\ ctx \in [Caller -> BOOLEAN]
    /\ res \in [Caller -> Result]
    /\ seen \in [Caller -> SUBSET Launch]
    /\ crashes \in 0..MaxCrashes

\* c is the goroutine that carries out launch n, up to completeEnsure.
Runs(c, n) ==
    /\ ref[c] = n
    /\ pc[c] \in {"setup", "start", "dial", "handshake", "complete"}

\* Grants and launches in flight together never exceed the slots, so the
\* free slots Ready reports need no clamping to zero.
Capacity == HeldCount(grants) + HeldCount(pending) <= Slots

\* Concurrent Ensures of one id share one launch, although the image is
\* verified without the lock: a launch in flight is run by one goroutine,
\* is the pending entry of its id, and its id has no grant.
OneLaunchPerID ==
    \A c \in Caller, n \in Launch : Runs(c, n) =>
        /\ pending[req[c].id] = n
        /\ grants[req[c].id] = None
        /\ \A d \in Caller : Runs(d, n) => d = c

\* Nobody waits for a launch that no goroutine will complete: closing
\* ensureCall.done is never lost.
WaitersHaveRunner ==
    /\ \A id \in ID : pending[id] # None =>
          \E c \in Caller : Runs(c, pending[id]) /\ req[c].id = id
    /\ \A c \in Caller : pc[c] \in {"wait", "rwait"} =>
          \/ outcome[ref[c]] # "none"
          \/ \E d \in Caller : Runs(d, ref[c])

\* No microVM leaks: one that runs is being launched by a call that will
\* grant it or stop it, is granted, or was taken by a Revoke that has yet to
\* stop it.
VMAccounted ==
    \A n \in running :
        \/ \E c \in Caller : /\ Runs(c, n)
                             /\ \/ pc[c] \in {"dial", "handshake"}
                                \/ pc[c] = "complete" /\ res[c] = "ok"
        \/ grants[spec[n].id] = n
        \/ \E c \in Caller : pc[c] = "stop" /\ ref[c] = n

\* No tap device leaks while the daemon lives: a device belongs to a launch
\* that is under way, granted or about to be stopped.
TapAccounted ==
    crashes = 0 => \A id \in ID : tap[id] # None =>
        \/ \E c \in Caller : Runs(c, tap[id])
        \/ grants[id] = tap[id]
        \/ \E c \in Caller : pc[c] = "stop" /\ ref[c] = tap[id]

\* What Ensure returns without error was set up for the id, the image and
\* the network asked for, whether it was new, found or waited for.
EnsureGetsWhatItAsked ==
    \A c \in Caller : pc[c] = "idle" /\ res[c] = "ok" /\ ref[c] # None =>
        spec[ref[c]] = req[c]

\* A Revoke that returned without error ended every environment and every
\* launch its id had when it was called, also one that was still starting:
\* it is in neither map, and its microVM is dead.  Only of a grant that
\* another Revoke had taken out of the map before may the microVM still run,
\* and that Revoke is about to stop it.
RevokeEndsWhatItSaw ==
    \A c \in Caller : pc[c] = "idle" /\ res[c] = "ok" =>
        \A n \in seen[c] :
            /\ outcome[n] # "none"
            /\ \A id \in ID : grants[id] # n /\ pending[id] # n
            /\ n \in running => \E d \in Caller : pc[d] = "stop" /\ ref[d] = n

\* A Revoke returns, although it waits for launches in flight.
RevokeReturns == \A c \in Caller : pc[c] = "revoke" ~> pc[c] = "idle"

----------------------------------------------------------------------------
(* The host implements the occupancy contract: an id is held from the      *)
(* reservation of its slot to the removal of its entry from the maps.      *)

Contract == INSTANCE Occupancy WITH
    Env <- Launch,
    holder <- [id \in ID |-> IF grants[id] # None THEN grants[id]
                                                  ELSE pending[id]],
    live <- {grants[id] : id \in ID} \ {None},
    used <- 1..launched

\* Every step of the host is a step of the contract or leaves it alone.
ImplementsOccupancy == Contract!Spec

----------------------------------------------------------------------------
(* What the code does not guarantee, although callers may expect it: each  *)
(* of these has a short counterexample, which the README describes.        *)

\* The environment Ensure grants talks to the microVM started for it
\* ("Ensure starts a microVM for a new grant").
LinkToOwnVM ==
    \A id \in ID : grants[id] # None => link[grants[id]] = grants[id]

\* Only a Revoke of the grant removes its directory.
GrantKeepsDirectory ==
    \A id \in ID : grants[id] # None => grants[id] \in dir[id]

\* After a Revoke that returned without error "The guest is destroyed",
\* whoever destroyed it: no microVM runs that its id had when it was called.
\* The code returns from a second Revoke while the first has yet to stop it.
RevokeDestroys ==
    \A c \in Caller : pc[c] = "idle" /\ res[c] = "ok" => seen[c] \cap running = {}

\* What a caller is handed, or finds, is a machine that runs.
GrantedRuns == \A id \in ID : grants[id] # None => grants[id] \in running
=============================================================================

# A verification of execenv

execenv gives a caller an isolated machine (an *environment*) under an id of
the caller's choice, projects files into it, attaches one terminal, observes
what the guest changes, freezes and thaws it and revokes it. This directory
holds TLA+ models of the parts that carry this logic, the TLC runs that check
them on small instances, and TLAPS proofs, for every value of the constants,
about both hosts, both environments, the agent link, Home and the tree
projection, both ends of a connection to the daemon and the operator's tool.
Paths below are relative to the repository, `src/...`.

## 1. Inventory

| part | code | state it keeps | operations |
|---|---|---|---|
| host contract | `execenv.go` | - | `Ensure`, `Revoke`, `Ready`; `Env` |
| isolated host | `isolated/isolated.go`, `process.go`, `network*.go` | `grants`, `pending`, per launch an `ensureCall`; a microVM, a tap device, a directory, a socket | `Ensure`, `Revoke`, `New` |
| isolated environment | `isolated/env.go`, `tree.go` | `frozen`, `revoked`, the client and the instance | `Freeze`, `Thaw`, `revoke`, everything through `live` |
| memory host and environment | `memory/memory.go`, `tree.go` | `grants`; per environment `files`, `log`, `obs`, `term`, flags | all of `Host` and `Env` |
| tree projection | `internal/tree/tree.go` | a snapshot: path to kind, version, body | `Replace`, `Apply` |
| watch log | `internal/watchlog/watchlog.go` | generation, counter, the last events | `Append`, `Since`, `Reset` |
| agent link | `agent/client.go`, `agent/server.go` | both sides' idea of the current terminal and observation; pending calls; the login shell | calls, frames, `Hangup`, `failAll`, `shutdown` |
| agent home | `agent/server.go`, `watch.go`, `tree.go` | Home, the last scan, the log, the projection | `replace`, `apply`, `open`, `watch`, `diffOnce` |
| remote daemon connection | `remote/server.go` | operations in flight, `tails`, terminals, observations | `dispatch`, handlers, `copyPty`, `copyWatch`, `close` |
| remote client | `remote/client.go` | pending calls; per grant a terminal and an observation | calls, `Attach`, `Watch`, their `Close`, `Freeze`, `Revoke`, the read loop, `failAll`, `Close` |
| operator control | `internal/ctl` | boot files, binaries, certificate, configuration | `Bootstrap`, `Install`, `Upgrade`, `Remove`; `List` and `Status` print |
| daemon and image catalog | `daemon`, `isolated/catalog.go` | the configuration it loaded; per image a cached verdict | start, `verified` |
| framing | `internal/mux` | - | not modelled |

How they interact: a caller uses a `Host`, in its process or through the
remote client and the daemon's connection. The isolated host starts a microVM
and reaches the agent in it over one ordered link; an isolated environment
turns each call into one on that link. The agent keeps Home, scans it and
sends events; the memory environment does the same without a machine. Both
use the tree projection and the watch log. The operator's tool changes, beside
a running daemon, the files that the daemon reads when it starts and verifies
before each launch.

What is hard here:

* **two locks and the work between them.** `Ensure` verifies the image,
  creates a tap, starts a process and dials without `Host.mu`; `Revoke`
  cancels, waits, and stops the microVM after it gave the id free;
* **state both ends believe in.** A terminal and an observation exist on the
  host, in the daemon and in the guest; each may end on any side, and the
  frames that say so cross frames of their successors;
* **contexts that end** while the request is already on its way;
* **loss**: the link, the connection, the daemon itself;
* **limits**: slots, the channel of an observation, the log, the operations
  of a connection;
* **half-done work**: a launch that fails at its third step, a batch that
  fails at its second mutation, a tree that is half written, an upgrade that
  is killed between two renames.

`PROJECT.json` lists these hazards line by line, with the properties that
would catch each of them going wrong.

## 2. Modules

| module | models | uses |
|---|---|---|
| `Occupancy` | the contract of a host: ids, slots, environments | |
| `IsolatedHost`, `MCIsolatedHost` | the isolated host, step by step | instantiates `Occupancy` |
| `IsolatedHostProofs` | the inductive invariant, the safety theorems, capacity and the refinement | `IsolatedHost` |
| `MemoryHost`, `MCMemoryHost` | the memory host | instantiates `Occupancy` |
| `TreeOps` | `Replace` and `Apply` as operators | |
| `WatchLog` | the log as operators | |
| `MemoryEnv`, `MCMemoryEnv` | one memory environment | `TreeOps`, `WatchLog` |
| `MemoryProofs` | the contract; the memory host and its refinement; the memory environment | `Occupancy`, `MemoryHost`, `MemoryEnv` |
| `IsolatedEnv` | Freeze, Thaw, revoke over a machine that can be paused | |
| `AgentSession`, `MCAgentSession` | the link between host and guest | |
| `AgentSessionProofs` | answers, shells, observations, waiting calls | `AgentSession` |
| `HomeDiff` | two scans to events | |
| `AgentHome`, `MCAgentHome` | Home, scans, log, and a client that follows | `HomeDiff`, `WatchLog` |
| `AgentHomeProofs` | what the host is told of Home | `AgentHome` |
| `AgentTree`, `MCAgentTree` | the projection and the disk under `ReplaceTree` and `Apply`, failing anywhere | `TreeOps` |
| `EnvironmentProofs` | quiet while frozen, dead once revoked; failures undone, successes on disk, the order of mutations | `IsolatedEnv`, `AgentTree` |
| `RemoteConn` | one connection of the daemon | |
| `RemoteConnProofs` | order, reachability, nothing left behind | `RemoteConn` |
| `RemoteClient` | the client at its other end | assumes of the daemon what `RemoteConn` shows |
| `RemoteClientProofs` | nothing silent, nothing stale, success is the end | `RemoteClient` |
| `OperatorCtl`, `MCOperatorCtl` | the operator's commands, the daemon's start, the catalog's cache | |
| `OperatorCtlProofs` | the catalog, the images, success, what is left | `OperatorCtl` |

A section under a lock is one step; work outside the lock is one step per
effect. Every module has a block of *faults* before the definitions they
replace: what the code would do without one of its precautions. They are not
part of a specification; replacing the definition by the fault makes the
property named in `PROJECT.json` fail, which shows that the property is about
that precaution. Where one proof module is about two components, the
specification of one of them has names of its own (`HostInit`, `HostNext`,
`HostSpec` in `MemoryHost`, `TreeInit`, `TreeNext`, `TreeSpec` in `AgentTree`).

### IsolatedHost

A *launch* is one `ensureCall` and the environment it may produce. Callers
are goroutines; `pc` says where one is:

    Ensure   idle -> verify -> setup -> start -> dial -> handshake -> complete -> cleanup -> idle
                          \-> wait -> idle
    Revoke   idle -> revoke -> stop -> remove -> idle
                       \-> rwait -> revoke

`EnsureCheck` is the first section under `Host.mu` (validation, the lookup in
both maps, the decision to return, refuse, wait or go on), `EnsureReserve`
and `EnsureRefuse` the second, after `Catalog` was consulted without the lock.
`EnsureSetup`, `EnsureStart`, `EnsureDial` and the guest's answer are the
effects of `launch`; each may fail and then undoes what it must.
`CompleteEnsure` is `completeEnsure` up to its unlock, `CleanupEnsure` the
removal of the directory after it. `RevokePending` cancels, `RevokeWait`
waits for `done`, `RevokeTake` removes the grant, `RevokeStop` and
`RevokeRemove` are what follows without the lock. `CtxDone` ends a caller's
context. `MicroVMEnds` is the end of a microVM by itself, when its guest powers
off or panics: nothing in the host watches the process. `Crash` is the death of
the daemon: goroutines, maps and processes are gone, directories and taps stay,
and `New` starts over.

### MemoryHost, MemoryEnv

`MemoryHost` is the occupancy of the memory host; `MemoryEnv` one of its
environments. `Observation.Next` is two steps, because it takes an event out
of the channel and then looks at the error; `Terminal.Read` is a loop that
sleeps on a condition variable, so a reader is running or asleep and
`Broadcast` wakes it. Events are told apart by their cursors only; `hist` is
a history variable with all events of the log's generation, against which
deliveries are compared.

### AgentSession, IsolatedEnv

`AgentSession` has both ends of the link with the frames between them. A call
registers, sends, waits and settles as separate steps; the read loop handles
one frame per step; the server one request per step under its mutex. Login
shells run, exit or are killed, and their `copyPty` ends later. Each side sees
the loss of the link for itself, and not before it has read what arrived.
`IsolatedEnv` abstracts the link to a queue of requests and asks what a
machine that may be paused, or end, does to the calls on their way, when several
goroutines freeze and thaw it. The lock is released between setting `frozen` and
the agent's call and the signal, so a Freeze and a Thaw may fall into each
other; `crossed` is history and says that the last one to begin did.

### AgentHome, HomeDiff

Home is a function from paths to hashes, or to directories, that the guest
changes at any time: it writes, makes directories, removes and renames. `Poll`
is `diffOnce`; the client closes and resumes its observation as the
repository's README shows. `ReplaceTree` and `Apply` succeed and take a new
scan, or fail half way (`ReplaceFails`, `ApplyFails`) and leave Home changed
behind the old scan. History variables are `seen`, the scan that the events
received so far add up to; `unclear`, the paths of which these events need not
tell; `by`, who last changed each path; and `authors`, whose changes events
were made of.

### AgentTree, TreeOps

`TreeOps` has `Replace` and `Apply` of `internal/tree` as operators. Sizes
and versions are small numbers and names; the limits are kept, and so is the
difference between them (`Apply` counts the bytes of one batch, `Replace`
those of the tree). `AgentTree` is the server that carries accepted calls out
under its mutex, one system call per step: `ReplaceTree` writes a sibling
directory (`WriteStaging`), clears Home (`ClearChild`) and renames the new
files into it (`RenameChild`); `Apply` makes one mutation per step
(`ApplyDisk`), having moved aside what is there, or fails and undoes them
(`Rollback`). Every step may fail, and renaming onto a directory always does,
as in `os.Rename`. The guest changes Home between calls, so the disk is seldom
what the projection says, and bodies that the guest wrote are moved and removed
like others. `before`, `old`, `arg` and `over` are history.

### RemoteConn

Frames become operations that are chained per grant; each is queued, handled
and ends, then closes its channel, gives its place back and removes its tail.
The host behind it is external: it hands out one terminal and one observation
per grant (`open` has those it did not end) and may end either for its own
reasons. Its Freeze reports success whether it reached the agent or not
(`isolated/env.go:78`), and then may have hung up the terminal only
(`agent/client.go:301`). What a guest is left with when a call was given up is
the subject of `AgentSession`. The grants are in `envs` from the start, as after
`Ensure`; `revoke` forgets one whatever the host answers.

### RemoteClient

`calls` has one record per frame the client sent: what the daemon has done
about it (`server`), what is in the channel the caller waits on (`answer`) and
how the call returned (`result`). A terminal or an observation has the number
of the call that opened it, as its stream. `cterms` and `cobs` are the entries
of `Client.terms` and `Client.obs`, `dead` the handles that were hung up or
have failed. The read loop takes one frame per step. `Returns` is the `select`
of `call` with what its caller does under `Client.mu` afterwards: it finds an
answer, or its context is done, also when both are true. The daemon's half is
as small as `RemoteConn` allows: operations of a grant take turns, `Busy`
refuses without waiting, `CopyEnds` reports an end later than the operation
that caused it. After the connection ends nothing of it is kept.

### OperatorCtl

A file is its content: a kernel has a name, a root filesystem and a binary
the release they come from. `op` is the command under way with its program
counter and what it remembers (the configuration as it loaded it, what it has
staged, which ids are left to do); one step is one change of the disk, which
succeeds, or fails with the clean-up the code does then; `Kill` ends the
command without any. All kernels have one file name, as in the published
index. `Started` is `daemon.Main`: the daemon serves the images of the
configuration it loaded, and none without a usable certificate. `Verify`,
`DigestKernel` and `DigestRootfs` are `imageRecord.verified`, between whose
reads the tool may replace the files; `fresh` says that the stamps are still
those of the files in place. The token is left out: it is copied from one
configuration to the next.

## 3. Runs

Twelve runs, each within three minutes with two workers.

| run | bounds | checks |
|---|---|---|
| `host` | 2 callers, 2 ids, 1 slot, 2 launches, microVMs that end, 1 crash, an image outside the catalog, both networks | type, `WaitersHaveRunner`, `VMAccounted`, `TapAccounted`, `EnsureGetsWhatItAsked`, `RevokeEndsWhatItSaw`, `ImplementsOccupancy` |
| `host_progress` | 2 callers, 1 id, 2 slots, 2 launches | `OneLaunchPerID`, `RevokeReturns` |
| `memory_host` | 2 callers, 3 ids, 2 slots, 4 environments | `OneFate`, `ImplementsOccupancy` |
| `memory_env` | 2 paths, 1 watcher, 2 terminals, log of 2, channel of 1, 3 events, 2 generations | `NoGap`, `RecentCursorResumes`, `StoppedIsQuiet`, `EventsArrive`, `HangupEndsRead` |
| `agent_session` | 2 callers, 3 calls of 7 kinds, 2 events, channel of 1, loss and hangup before the third call | `NoSilentObservation`, `RunningShellIsKnown`, `ShellHasOwner`, `OneAnswer`, `NobodyStranded` |
| `agent_home` | 2 paths, 2 contents and directories, 3 changes by the guest, 1 Apply or call that fails, log of 1, 2 generations | `EventsTrackScans`, `OwnChangesAreSilent` |
| `agent_tree` | 2 valid paths and a bad one, 1 version and bodies of the guest, 3 bytes, batches of up to 3 | `FailureIsUndone`, `SuccessIsOnDisk`, `DisjointMutationsCommute` |
| `disk_move_over` | batches of up to 2 | `WholeBatchOrNothing`, **violated** |
| `isolated_env` | 2 controllers, 2 users, 1 revoker, 4 calls | `FrozenIsQuiet`, `MachineFollows`, `ThawReturns` |
| `remote_conn` | 1 grant, 8 kinds of frames, 3 operations, 2 places | `ArrivalOrder`, `InUseIsReachable`, `NoObservationStays`, `OperationsEnd` |
| `remote_client` | 1 grant, 3 calls of 7 kinds, 1 event | `NoSilentHandle`, `SuccessEndsThem`, `EntriesHaveOwners` |
| `operator_ctl` | 2 images, 3 releases, 3 commands, 1 failure or kill | `SuccessIsServed`, `CatalogTellsTruth`, `NothingLeftBehind`, `OnlyItsInstallBreaksAnImage` |

What they show, where the name of a property does not say it:

* `host`: a Revoke that returned left nothing of its id in the maps, and no
  microVM that runs, except one that another Revoke took out before it and is
  about to stop (section 5). No microVM runs that the host has lost sight of;
  the converse, that what is granted runs, is not promised by the code.
* `isolated_env`: when everybody who began to freeze or thaw has sent its
  signal, the machine is paused exactly if the environment says frozen, and a
  Thaw without a deadline returns. Two exceptions are part of the formulas,
  because the signals are sent without the lock: a last Freeze or Thaw that
  began between the lock and the signal of one of the other kind, and a Thaw
  under which another goroutine pauses the machine again (section 5).
* `agent_home`: calls that succeed make no events, also when calls that fail
  half way, whose remains do come back as events, come between; and the events
  tell what became of each path, but for those that turned from a file into a
  directory or back (`agent/watch.go:161`) and those whose change a successful
  Apply took into its scan, until an event names them again.
* `remote_conn`: an operation ends unless it hangs itself, or one ahead of it
  may hang, in a Close or a handshake without a deadline; and once the
  connection ends, nobody waits for one that hangs.
* `agent_tree`: whatever a call that failed left on disk, the next one that
  succeeds puts right what it names: a ReplaceTree makes Home the projection; an
  Apply makes the paths it names exist exactly if they are projected, with the
  bodies it was sent, or with what the guest had made of a file that it moves.
  Nothing that was moved aside stays where the next scan would report it; a
  failed batch is undone, even if it named one path several times.
  Mutations of different paths commute, which is about acceptance as much as
  about results: bytes are counted along the batch, and each mutation is judged
  by what the earlier ones left.
* `remote_client`: a `Freeze` whose answer is read late hangs up a terminal
  that was attached since, and still nobody is left waiting: what a caller
  holds is known to the client and has somebody to report its end, or is
  dead. Calls that expired leave no entry behind, and a detach reaches its own
  stream only. What success means is said per call: a Close ended its stream, a
  Revoke everything before it, a Freeze the terminals before it, but not
  always the observation (section 5).
* `operator_ctl`: after any sequence of commands, failures and kills, an
  Install or Upgrade that reports success left exactly its disks and
  configuration, loaded by a daemon that runs. An Upgrade that finds every file
  in place reports `already current` (`upgrade.go:90-95`) and is no part of
  this: it does not look at what the daemon runs, see `AlreadyCurrentIsServed`
  in section 5. Further, an image that works keeps
  working until its own Install renames its disk; and the catalog never
  answers from its cache what hashing would not answer.

Why the bounds are enough to be interesting:

* `host`: two launches on one slot let a Revoke, its waiter and a new Ensure
  overlap; the crash may fall into any of their steps; the second id contends
  for the slot and the second network for the answer of a shared launch.
  All that the run checks is also proved for all bounds.
* `host_progress`: the second slot is what makes `OneLaunchPerID` depend on
  the lookup after the hash: with one slot the capacity check alone would
  refuse a second launch.
* `memory_env`: the third event is one more than the log keeps, the second
  one more than the channel keeps, so eviction, overflow and resumption with
  a replay longer than the channel all happen, before and after a new
  generation. The second terminal is attached while the first still has a
  reader.
* `agent_session`: detach, attach and the late end of the first shell take
  three calls; overflow of the channel takes two events. The link is lost or
  hung up among the first two calls (`LossBy`): the third call is there for
  shells that follow each other, and a call meets the loss in every state
  already with two.
* `agent_tree`: two paths let a batch create, delete and recreate one of them
  and move it onto the other; three bytes are one more than a file may have,
  so both limits are met; nested paths are left out.
* `isolated_env`: two controllers are what it takes for a Thaw to fall between
  the unlock of a Freeze and its signal, and for a Freeze to pause a machine
  under a Thaw; four calls are a Freeze, a Thaw, one more of either and a call
  of a user or a Revoke.
* `agent_home`: with one place in the log, two changes between two polls
  overflow it, and a rename is one event; three changes turn a path from a
  file into a directory and back, or rename it after a poll.
* `remote_conn`: three operations suffice for the tail of the second to be
  removed by the first; two places make the third wait.
* `remote_client`: an Attach that expires, its successor and the Freeze that
  meets both are three calls; one event is enough for the client to be too
  slow, since the buffer of 64 is abstracted to room or no room. Entries,
  turns and streams are per grant, so a second grant adds nothing but
  interleavings.
* `operator_ctl`: the second release shares the first's kernel and the third
  has another and lacks an image, so upgrades go forward, back, across
  kernels and fail in their plan; a command that is cut off, one that meets
  what it left, and one more are three commands.

Deadlock is checked where callers never run out of calls (`host`,
`host_progress`, `memory_host`, `agent_tree`, `agent_home`, `operator_ctl`); elsewhere
calls are bounded, or a revoked environment has come to its end.

Symmetry is used for callers and ids in runs that check no liveness.

### Fairness

* `host_progress`: a goroutine inside `Ensure` or `Revoke` goes on, and a
  connection to a dead microVM breaks. In addition a guest that accepted a
  connection answers or closes it (`ResponsiveSpec`): the code sets no
  deadline on the handshake, so without it `RevokeReturns` fails, see
  below. Nobody is forced to call, and no context is forced to end.
* `memory_env`: a client with an observation keeps calling `Next`, and a
  reader that is awake runs. The guest, writers and closers owe nothing.
* `isolated_env`: goroutines inside a call go on, the context of a Freeze
  ends at last, the agent of a running machine reads its link, and the link to
  a machine that ended is lost. A Thaw has no deadline here.
* `remote_conn`: operations that can run do, and the host answers those that
  have the deadline of `operationContext` (`remote/server.go:245`), or that are
  writes, for which `internal/mux` sets one. No answer is assumed where there is
  none of either (`MayHang`): `Close` of a terminal or an observation, by
  detach, unwatch, revoke (329-333) or an operation that meets a closed
  connection (414, 543), uses `context.Background()` (`agent/client.go:416`, 525),
  and the handshake of an `Ensure` ignores its context
  (`isolated/process.go:73`).

All of it is weak fairness of what the Go scheduler runs when it can.

## 4. Proofs

`tlapm` checks them in about ten minutes; they use the SMT solver, Zenon and LS4.

**The contract** (`MemoryProofs`, first part), for any finite set of ids, any
environments and any number of slots: at most `Slots` ids are held
(`SlotsAreEnough`), no environment has two homes (`OneHomeEach`), and one that
was given up is never handed out again (`GivenUpForGood`). The invariant is
the conjunction of types, `OneHome` and `WithinSlots`.

**The isolated host** (`IsolatedHostProofs`), for any finite set of ids, any
callers, images and networks, any bound on launches and deaths:
`TypeCorrect`, `LaunchesAreShared`, `NobodyWaitsInVain`, `NoMicroVMLeaks`,
`NoTapLeaks`, `EnsureIsRight`, `RevokeIsFinal`. None of these is inductive.
The invariant `Inv` adds what each label of `pc` says about the caller's
launch (`CallerOK`), what entries of the maps are (`MapsOK`: a grant has an
outcome, runs, and excludes a pending entry), that a pending entry and the
goroutine that carries it out determine each other (`RunnersOK`), that what
is waited for is in flight or concluded (`WaitOK`), who answers for each
microVM and tap (`MachineOK`, `TapOK`), and what a Revoke still has to end of
what it saw (`SeenOK`). `RunnersOK` is the heart: with it a completed launch
finds its own entry, so its waiters are woken and its microVM has exactly one
owner. There is a lemma per action and one, `RunnerStepKeepsInv`, for what
the steps of a launch have in common.

**Refinement** (the end of `IsolatedHostProofs`): `CapacityHolds`, and
`HostImplementsOccupancy`: every step of the host is a step of the contract
under the mapping that an id is held by its grant or else by its launch in
flight. A reservation is `Reserve`, a completion `Commit` or `Release`, the
removal of a grant `Release`, a crash `Vanish`, everything else a stutter.

**The memory host** (`MemoryProofs`, second part), for any finite set of ids, any
callers and any number of environments: `HostTypesHold`, `EachEndsOnce`
(`OneFate`) and `MemoryHostImplementsOccupancy`. `OneFate` counts who has an environment; its
invariant says that an entry of the map is at home (`GrantsAtHome`), that what
a Revoke took is out of the map and in no other's hand (`TakenIsAlone`), that
what was revoked is out of it too (`RevokedIsOut`), and that nothing is in
none of the three places (`NoneForgotten`).

**The memory environment** (`MemoryProofs`, third part), for any paths and
trees, any capacity of the log and of the channel, any number of watchers,
terminals, events and generations: `EnvTypesHold`, `NoEventIsLost` (`NoGap`),
`RecentCursorsResume` (`RecentCursorResumes`) and `StoppedStaysQuiet`
(`StoppedIsQuiet`). They rest on lemmas about the log for every capacity:
`TrimKeepsTheLast`, `AppendEventKeepsTheLast` (what `Append` keeps, and under
which number) and `ReplayGivesTheRest` (what `Since` returns for a cursor that
the log still covers). The invariant says that the log is the end of the
history (`LogKeepsTheLast`), that an open observation is the current one
(`OnlyCurrentIsOpen`), and that what it delivered, what it holds between the
two halves of `Next` and what is in its channel are the consecutive events of the
history that end with the newest (`ObservationFollows`); `OnlyTermIsLive` does for terminals what `OnlyCurrentIsOpen` does for
observations.

**The isolated environment** (`EnvironmentProofs`, first part), for any goroutines and
calls: `FreezeSilences` (`FrozenIsQuiet`) from `QuietHolds` (while quiet the
machine does not run and no Thaw is about to resume it), and `MachineIsAsSaid`
(`MachineFollows`), for any number of controllers. Its half about revoked
environments follows from `RevokedEnds` (a revocation that began has stopped the
machine or is going to), the other from `Follows`: unless the last Freeze or
Thaw crossed one of the other kind, whoever has yet to signal the machine does
what `frozen` says, and when nobody has, the machine is what it says. The
lemmas follow it through the taking of the lock (`BeginFollows`), the signals
(`ControllerFollows`) and everybody else (`OthersLeaveFollows`).

**The tree projection and the disk** (`EnvironmentProofs`, second part), for
any paths, versions and limits, trees and batches of any length, and a failure
at any system call: `TreeTypesHold`, `FailuresAreUndone` (`FailureIsUndone`),
`SuccessesAreOnDisk` (`SuccessIsOnDisk`) and `OrderOfDisjointMutations`
(`DisjointMutationsCommute`). `Apply` runs over a batch, so what it computes
is defined by recursion (`Steps`). The library's induction theorems cannot be
instantiated here; the lemma `SetInduction` states induction for a set of
numbers instead of a formula, and `StepsExist` and `StepsIs` obtain from it
the recursion equation, with which one step of `ApplyDisk` is compared with
one step of the projection. The invariant `TreeInv` says that whatever is
moved aside has its undo (`StashesHaveUndos`), that undoing what is left to
undo leads back to Home as the call found it, unless a move went over a file
(`KeptUnlessOver`, `UndosLeadBack`), that the rest of a batch is accepted where
the disk has got to (`BatchIsAccepted`), that of the paths that the mutations
done so far name Home has those that they left in the projection, each with
the body that they gave it or moved there, and is otherwise as it was
(`AppliedIsOnDisk`, which follows each body through the batch, `BodyIsRight`), and that what was renamed into Home is the projection's
(`RenamedIsProjected`).

**Home** (`AgentHomeProofs`), for any paths, contents, trees, size of the log
and number of changes: `CallersAreNotEchoed` (`OwnChangesAreSilent`) and
`EventsAreComplete` (`EventsTrackScans`). The invariant of the first is that
the last scan has whatever a call that succeeded changed last
(`CallerIsScanned`), which calls that fail leave alone. The
second is about what events add up to. `MidwayStep` and `MidwayEnds` show that
the events between two scans, in any order, lead from one to the other: after
some of them one believes in a scan (`Midway`) that has the new state at the
paths that were named and the old one elsewhere, which is well defined because
no two events name the same path (`EventsAreApart`) and some event names each
path that differs, unless it turned (`DiffCovers`). `LoggedLeads` follows them
into the log, whose recursion is treated like that of a batch. The invariant
`FollowInv` says that there is a sequence of scans, one per cursor of the epoch,
of which every entry of the log after the client's place (`Place`) and every
event under way is a step, while the client has seen the scan at its cursor
(`IsTrail`), and which ends with one that tells the last scan at every path
that is not `unclear` (`TellsScan`). Events of an earlier epoch are told apart by their
cursors (`EpochsAreBehind`), and a client that is neither frozen nor asked to
`ReplaceTree` has no cursor of this epoch unless Home is being polled
(`WatchingPolls`). The theorem assumes finitely many paths, and nothing of what
the guest, the trees or the calls contain.

**The agent link** (`AgentSessionProofs`), for any callers, number of calls,
frames and size of the channel of an observation, with or without contexts
that end: `NoSecondAnswer` (`OneAnswer`), `NoShellIsForgotten`
(`RunningShellIsKnown`), `NoShellIsOrphaned` (`ShellHasOwner`),
`NoObservationIsSilent` (`NoSilentObservation`) and `NoCallIsStranded`
(`NobodyStranded`). They share one invariant. `InTurn` is its basis: a number
is used once, and its call, request and response follow each other, so an
answer that arrives finds its own call or none. `ShellsOK` and `AttachesOK`
say who is about to get, holds or is closing each shell, with the requests and
frames under way counted in; `GrantedOK` does the same for observations: one
that is granted, in a caller's hands or still in an answer under way, is
watched or the frame that ends it is on its way; `WaitsOK` says that what is
waited for is answered or arriving. Each step of `Next` is first classified by
what it does to calls, frames, shells and observations (`Step`); then there is
one lemma per part of the invariant, with a case per class.

**The daemon's connection** (`RemoteConnProofs`), for any grants, operations
and places in flight: `NoneOvertakes` (`ArrivalOrder`), `NothingIsHidden`
(`InUseIsReachable`), `NoWatchIsLeft` (`NoObservationStays`). An operation
waits only for the tail it found, which may be removed when its owner is done;
order holds because of `NothingBetween`: whatever came between an operation
and the one it waits for is done, and so is whatever came after the tail.
The other two need that entries and what is in hand are the grant's own
(`EntriesOK`, `HandsOK`), that only an operation whose turn it is opens
something (`OpensInTurn`), that storing an answer replaces no entry in use
(`OneInUse`), and that an observation in use is copied from
(`WatchesAreCopied`).

**The remote client** (`RemoteClientProofs`), for any grants, calls and
events: `NobodyReadsForEver` (`NoSilentHandle`), `SuccessIsTheEnd`
(`SuccessEndsThem`), `NoStaleEntry` (`EntriesHaveOwners`). What a call was
answered may be with the daemon, in a frame under way, in its channel or
returned already (`Answered`); `AnswersOK` says for all four that the call has
had its turn, so that nothing it ended (`Ends`: a Revoke ends what its grant has, a Freeze the
terminals) can be opened again by an earlier one that comes late. `WantedIsKnown` and `GrantedIsCopied` say of everything that
a caller has or may still get (`Wanted`) that the client has its entry, and,
once it is granted, that the daemon copies from it or its end is on the way.
They hold of an Attach from its first step, long before a caller has a handle,
which is what makes them inductive.

**Operator control** (`OperatorCtlProofs`), for any images, releases, number
of commands and number of failures and kills: `CatalogIsRight`
(`CatalogTellsTruth`), `ImagesStayWhole` (`OnlyItsInstallBreaksAnImage`, an
action property), `SuccessMeansServed` (`SuccessIsServed`) and `NothingIsLeft`
(`NothingLeftBehind`). The type invariant already says that what is renamed
was verified (`PlaceOK`). `RecordsTrue` follows the catalog through its two
hashes, while files are renamed between them; `DocOK` says that what a command
remembers of the configuration still agrees with the files; `UpgradeOK` that
the images an Upgrade has been through stay those of the release while it
does the rest; `Tidy` where staged files and files without a configuration may
be found on the way.

Assumptions on the constants, each named in the module that declares them and
evaluated by TLC on every run: `HostAssumption` and `MemoryHostAssumption`
(ids are finite, at least one slot, `None` is no number), `EnvAssumption` (a
goroutine plays one part), `RemoteAssumption` (at least one operation in
flight), `ClientAssumption` (bounds are numbers), `CtlAssumption` (finitely
many images; `None` and `Bad` are no releases, and `None` is neither a kernel
nor a hash), `AgentAssumption` (bounds are numbers, and the link is lost
within the calls that there are), `MemoryAssumption` (capacities and bounds
are numbers, and both capacities positive), `TreeAssumption` and
`CallAssumption` (limits are numbers; trees and batches are sequences of
records of the types that the code decodes), `HomeAssumption` and
`DiffAssumption` (trees are scans, and a directory is no file's hash).
`OccupancyAssumption` is a hypothesis of the
theorems about the contract. Bounds on calls, launches, commands and faults
are constants too, so the theorems hold for executions of any length.

Only model-checked is all liveness (`RevokeReturns`, `OperationsEnd` and the
other properties under fairness), which is out of the prover's reach. Every
invariant and every action property of a passing run is a theorem.

## 5. What the code does not guarantee

`disk_move_over` shows that a failed `Apply` can destroy a file: `applyDisk`
renames onto whatever the guest put at the new path without moving it aside,
so the rollback has nothing to bring back (onto a directory the rename fails, and
nothing is lost), while `README.md:250` says that
the whole batch succeeds or nothing changes. `FailureIsUndone` therefore
excludes batches in which a move replaced a file.

The other formulas of this kind are kept at the end of their modules, without
a run of their own; adding one as an invariant (or property) to the module's
configuration, with the change named here, shows the trace.

| formula | module | what happens |
|---|---|---|
| `LinkToOwnVM` | `IsolatedHost` | `Revoke` frees the id (`isolated.go:306`) before it stops the microVM (312); a new Ensure in between dials the old one's socket and is granted its connection |
| `GrantKeepsDirectory` | `IsolatedHost` | the directory is removed after the id is free (`isolated.go:279`, 313) and may be the next grant's |
| `RevokeReturns` under `FairSpec` | `IsolatedHost` | the handshake (`process.go:73`) has no deadline and ignores the context; a silent guest keeps a cancelled launch and the Revoke that waits for it |
| `RevokeThroughTakesItself` | `MemoryHost` | a second `Revoke` of an environment (`memory.go:216`, `isolated/env.go:114`) ends whatever has its id now |
| `DirectoriesIgnoreData` | `AgentTree` | a directory with `Data` is refused (`internal/tree/tree.go:42`); `tree.go:47` says it is ignored |
| `NoSendOnClosedChannel` | `AgentSession` | `clientObs.Close` closes the channel while `deliverWatch` still pushes to it (`client.go:462`, 520) |
| `BusyUntilClose` | `AgentSession` | an Attach whose context ends leaves a shell that nobody can close (`client.go:188`, 288), also when the daemon's context ended and its client was refused; `ShellHasOwner` excludes that shell |
| `ShellExitIsHangup` | `AgentSession` | the exit of the shell travels as a frame with an empty status (`server.go:339`), which the client takes for output |
| `NoCallAppears` | `AgentHome` | a `ReplaceTree` or `Apply` that fails returns before the new scan (`server.go:156-158`, 184-186) with Home partly changed; the next poll reports that as the guest's, while `README.md:276` says that a caller's calls do not appear |
| `GuestChangesAreReported` | `AgentHome` | the scan after `Apply` (`server.go:188`) takes in guest changes since the last poll, which no event reports; and a path that turned from a file into a directory, or back, makes no event (`watch.go:161`). `EventsTrackScans` excludes these paths until an event names them |
| `ReportedCanBeOpened` | `AgentHome` | an event says `create` of a directory, or of a file that is gone or a directory by now, which `Open` refuses (`server.go:212-214`); the loop in the README opens what every event names |
| `FrozenMeansPaused` | `IsolatedEnv` | a Thaw between the two halves of a Freeze (`env.go:81`) leaves the machine paused and the flag clear: calls are let through and wait for a guest that does not run |
| `ThawAlwaysReturns` | `IsolatedEnv` | another goroutine's Freeze pauses the machine after a Thaw has resumed it and before the agent answered (`env.go:102-105`); a Thaw without a deadline then waits for the next Thaw or Revoke |
| `RevokeDestroys` | `IsolatedHost` | the id leaves the map before its microVM is stopped; a second `Revoke` finds nothing and returns nil (`isolated.go:309-311`) while the first has yet to stop it (312); `README.md:374` says that the guest is destroyed |
| `GrantedRuns` | `IsolatedHost` | nobody waits for the process of a microVM (`process.go:137-144`); when the guest powers off or panics (`panic=1 reboot=k`, 230), Ensure goes on returning the grant, until a Revoke |
| `EveryOperationEnds` under `FairSpec` | `RemoteConn` | detach, unwatch and revoke close without a deadline (`remote/server.go:329-333`, 414, 543; `agent/client.go:416`, 525), and Ensure's handshake has none (`process.go:73`); behind a guest that is silent or paused, they may hang for ever, and every later operation of the grant, Thaw included, waits behind them until the connection ends |
| `FreezeEndsAll` | `RemoteClient` | a Freeze whose call to the agent failed reports success (`isolated/env.go:78`), having hung up the terminal but not the observation (`agent/client.go:301-311`) |
| `DroppedPtyIsHangup` | `RemoteConn` | `copyPty` whose send fails forgets the terminal without closing it (`remote/server.go:378`) |
| `FailedReplaceKeepsHome` | `AgentTree` | once `clearChildren` has begun (`agent/tree.go:25`), a failed removal or rename leaves Home with some of the old or of the new files, and the projection as it was |
| `CloseIsSafe` | `RemoteClient` | `remoteObservation.Close` closes the channel (`client.go:596`) while its entry is there; an event that arrives then is sent to it (`client.go:537`), which ends the process |
| `ExpiredHoldsNothing` | `RemoteClient` | an Attach or a Watch that expired for its caller and succeeds on the daemon leaves a terminal or an observation that the client has no handle for; later ones are refused as busy until Freeze, Revoke or the end of the connection |
| `HungUpIsOver` | `RemoteClient` | `Freeze` and `Revoke` hang up the client's terminal also when they failed (`client.go:361`), and also one attached after the daemon answered; it stays in use on the host until it is closed |
| `UpgradeNeedsNoLuck` | `OperatorCtl` | a kernel that is in place is never fetched again (`install.go:88`), so an Upgrade to a release with another kernel fails at the digest, with its binaries already replaced; `README.md:617` says that it reinstalls every image |
| `InstallNeedsNoLuck` | `OperatorCtl` | the same after a Remove that was cut off before it removed the kernel |
| `AlreadyCurrentIsServed` | `OperatorCtl` | `upgraded=already current` compares files (`upgrade.go:90`); after an Upgrade whose restart failed, the next one leaves the old process running |
| `BootstrapStarts` | `OperatorCtl` | a key that was cut off while it was written (`tls.go:52`) exists and is kept, and the daemon cannot start with it |

## 6. What is not modelled, and the plan

Not modelled:

* framing and statuses (`internal/mux`): an encoding without state; frames
  are taken as whole and in order, as a stream connection delivers them;
* subnets and filter rules of the allowlist network, which are text for
  system tools: a tap is one resource that is created and deleted as a whole;
* authentication, the validation of single settings, `List`, `Status`, the
  command lines, the download of the supervisors, output and keystrokes of
  terminals, text and logging;
* a guest that changes files while `ReplaceTree` or `Apply` runs, an undo
  that fails itself, and nested paths on disk;
* two operators at once: the tool takes no lock, and nothing is promised of
  it; and what a disk forgets when the power goes: files count as written
  when the call returned, though the code never syncs them;
* the step between the entry of an Attach in `Client.terms` and the sending
  of its request; the size of the event buffer;
* the conformance suite, build stamps, ids and errors.

Order of the work, the most important first:

1. done: the contract, the isolated host and its proofs, the refinement;
2. done: memory host and environment, tree, log; agent link, Home, disk;
   isolated environment; daemon connection;
3. done: the remote client; operator control with the daemon's start and the
   catalog's cache; `ReplaceTree` and `Apply` failing anywhere on disk;
4. done: the proofs of the memory host, the isolated environment, the agent
   link, the daemon's connection, the remote client and operator control;
5. done: the proofs of the memory environment, of the tree projection and
   the disk, and of what the agent reports of Home.

Out of the prover's reach and left to TLC: liveness under fairness.

## 7. Running

    tlc -config Host.cfg MCIsolatedHost
    tlapm IsolatedHostProofs.tla

`PROJECT.json` names the module and configuration of every run.

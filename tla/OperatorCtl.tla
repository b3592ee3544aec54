---------------------------- MODULE OperatorCtl ----------------------------
(***************************************************************************)
(* The operator's tool, internal/ctl, and the daemon it configures.        *)
(* Bootstrap, Install, Upgrade and Remove are sequences of changes to the  *)
(* disk; each change may fail, and the tool may be killed between any two  *)
(* (the machine going down is that and a start of the daemon).  The daemon *)
(* loads the host configuration when it starts (daemon/run.go) and asks    *)
(* the image catalog (isolated/catalog.go) whether the boot files of an    *)
(* image still have the configured digest, while the tool replaces them.   *)
(*                                                                         *)
(* A file is its content.  A kernel has a name, a root filesystem and a    *)
(* binary the release they belong to, a digest the pair of its inputs.     *)
(* Files are written to a sibling and renamed, so they change in one step, *)
(* except the certificate and its key, which are written in place.  The    *)
(* token and the limits in the configuration are left out.                 *)
(***************************************************************************)
EXTENDS Naturals, FiniteSets

CONSTANTS Ids,          \* catalog ids
          Releases,     \* published releases
          KernelOf,     \* the kernel of each release, all under one file name
          Published,    \* the ids in the index of each release
          MaxCommands,  \* bound: commands the operator gives
          MaxFaults,    \* bound: failed writes, renames, restarts, and kills
          None,         \* no file, no entry
          Bad           \* what a corrupt download holds

ASSUME CtlAssumption ==
    /\ IsFiniteSet(Ids)
    /\ KernelOf \in [Releases -> STRING]
    /\ Published \in [Releases -> SUBSET Ids]
    /\ MaxCommands \in Nat /\ MaxFaults \in Nat
    /\ None # Bad /\ None \notin Releases /\ Bad \notin Releases
    /\ \A r \in Releases : KernelOf[r] # None /\ <<KernelOf[r], r>> # None

VARIABLES kernel, kernelNew,   \* images/vmlinux and vmlinux.new
          rootfs, rootfsNew,   \* images/rootfs-<id> and its .new
          bin, binNew,         \* the two binaries and their .new
          pair,                \* tls.crt and tls.key
          config,              \* host.json
          daemon,              \* the running daemon
          op,                  \* the command that runs, or the last one
          commands, faults     \* how many there were

disk == <<kernel, kernelNew, rootfs, rootfsNew, bin, binNew, pair>>
vars == <<disk, config, daemon, op, commands, faults>>

Binaries == {"execenv", "execenvctl"}
NoConfig == [exists |-> FALSE, tls |-> FALSE, images |-> [i \in Ids |-> None]]
Installed(doc) == {i \in Ids : doc.images[i] # None}
HashOf(r) == <<KernelOf[r], r>>
InPlace(i) == <<kernel, rootfs[i]>>

\* What the commands have to remember of their run.
Idle == [pc |-> "idle", cmd |-> "none", rel |-> None, id |-> None, doc |-> NoConfig,
         staged |-> FALSE, need |-> {}, todo |-> {}, replaced |-> FALSE,
         trouble |-> FALSE, result |-> "ok"]

NoRecord == [checked |-> FALSE, fresh |-> FALSE, phase |-> "idle", seen |-> None,
             valid |-> FALSE]
Down == [up |-> FALSE, bin |-> None, images |-> NoConfig.images,
         record |-> [i \in Ids |-> NoRecord]]

(***************************************************************************)
(* Faults: what the code would do without one of its precautions.          *)
(***************************************************************************)
NeverUsed(doc) == FALSE
RestartsNothing == op.pc \in {"reload", "reloadBinary"} /\ UNCHANGED <<daemon, faults>>
KeepKernel == UNCHANGED kernelNew
CheckedOnce(i) == daemon.record[i].checked /\ kernel # None /\ rootfs[i] # None

(***************************************************************************)
(* The daemon and its catalog.                                             *)
(***************************************************************************)
\* daemon.Main: Load, the adapter, the certificate; with either missing or
\* broken the process exits.
Started ==
    IF /\ config.exists
       /\ config.tls => pair = [f \in {"cert", "key"} |-> "whole"]
       /\ bin["execenv"] # None
    THEN [up |-> TRUE, bin |-> bin["execenv"], images |-> config.images,
          record |-> [i \in Ids |-> NoRecord]]
    ELSE Down

\* systemd starts the unit again after a failure or a boot; it may be stopped.
DaemonStarts ==
    /\ daemon' \in {Started, Down}
    /\ UNCHANGED <<disk, config, op, commands, faults>>

\* The stamps that the records hold are those of files which are no longer
\* in place; two files have the same size, time and mode only if they are one.
Restamped(i) == [daemon EXCEPT !.record[i].fresh = FALSE]
RestampedAll == [daemon EXCEPT !.record =
                    [i \in Ids |-> [daemon.record[i] EXCEPT !.fresh = FALSE]]]

Serves(i) == daemon.up /\ daemon.images[i] # None
Present(i) == kernel # None /\ rootfs[i] # None
Cached(i) == daemon.record[i].checked /\ daemon.record[i].fresh /\ Present(i)

\* verified, with r.mu held: the stamps come first, then the two files are
\* read one after the other.
Verify(i) ==
    /\ Serves(i) /\ daemon.record[i].phase = "idle" /\ ~Cached(i)
    /\ daemon' = [daemon EXCEPT !.record[i] =
                    [NoRecord EXCEPT !.checked = TRUE, !.fresh = TRUE,
                                     !.phase = IF Present(i) THEN "kernel" ELSE "idle"]]
    /\ UNCHANGED <<disk, config, op, commands, faults>>

DigestKernel(i) ==
    /\ daemon.record[i].phase = "kernel"
    /\ daemon' = [daemon EXCEPT !.record[i].phase = IF kernel = None THEN "idle" ELSE "rootfs",
                                !.record[i].seen = kernel]
    /\ UNCHANGED <<disk, config, op, commands, faults>>

DigestRootfs(i) ==
    /\ daemon.record[i].phase = "rootfs"
    /\ daemon' = [daemon EXCEPT !.record[i] =
                    [daemon.record[i] EXCEPT
                        !.phase = "idle", !.seen = None,
                        !.valid = <<daemon.record[i].seen, rootfs[i]>> = daemon.images[i]]]
    /\ UNCHANGED <<disk, config, op, commands, faults>>

(***************************************************************************)
(* Commands in general.                                                    *)
(***************************************************************************)
At(label) == op.pc = label
Goto(label) == op' = [op EXCEPT !.pc = label]
End(result) == op' = [Idle EXCEPT !.cmd = op.cmd, !.rel = op.rel, !.id = op.id,
                                  !.trouble = op.trouble, !.result = result]
Fails == op' = [Idle EXCEPT !.cmd = op.cmd, !.rel = op.rel, !.id = op.id,
                            !.trouble = TRUE, !.result = "failed"]
Fault == faults < MaxFaults /\ faults' = faults + 1

Command(cmd, r, i, label) ==
    /\ At("idle") /\ commands < MaxCommands
    /\ commands' = commands + 1
    /\ op' = [Idle EXCEPT !.pc = label, !.cmd = cmd, !.rel = r, !.id = i]
    /\ UNCHANGED <<disk, config, daemon, faults>>

Kill ==
    /\ ~At("idle") /\ Fault /\ Fails
    /\ UNCHANGED <<disk, config, daemon, commands>>

\* fetchURL: what the release has under the name, or something else.
Fetched(content) == {content, Bad}

\* The entry of an image in the index of the release.
Lookup(i) == i \in Published[op.rel]

\* daemon.Save: written to host.json.new and renamed; the chmod that follows
\* may fail with the new configuration in place.
Save(then) ==
    /\ At("save")
    /\ \/ config' = op.doc /\ Goto(then[op.cmd]) /\ UNCHANGED faults
       \/ Fault /\ Fails /\ config' \in {config, op.doc}
    /\ UNCHANGED <<disk, daemon, commands>>

AfterSave == [bootstrap |-> "start", install |-> "reload", upgrade |-> "reload",
              remove |-> "removeRootfs"]

\* reloadUnit: a unit that is not active stays so.  A restart that fails
\* leaves the old process or none.
Restart ==
    /\ At("reload") \/ At("reloadBinary")
    /\ \/ daemon' = (IF daemon.up THEN Started ELSE daemon) /\ UNCHANGED faults
       \/ daemon.up /\ Fault /\ daemon' \in {daemon, Down}

Reload ==
    /\ Restart
    /\ IF faults' # faults THEN Fails
       ELSE IF op.cmd = "upgrade" THEN Goto("next") ELSE End("ok")
    /\ UNCHANGED <<disk, config, commands>>

(***************************************************************************)
(* Bootstrap.                                                              *)
(***************************************************************************)
Bootstrap(r) == Command("bootstrap", r, None, "binary")

\* checkDevice, the directories, installExecenv and installSupervisors.  What
\* fails may come before or after the binary is replaced.
BootstrapBinary ==
    LET replaced == [bin EXCEPT !["execenv"] = op.rel]
    IN  /\ At("binary")
        /\ \/ bin' = replaced /\ Goto("settings") /\ UNCHANGED faults
           \/ Fault /\ Fails /\ bin' \in {bin, replaced}
        /\ UNCHANGED <<kernel, kernelNew, rootfs, rootfsNew, binNew, pair, config, daemon, commands>>

HasPair == pair["cert"] # "none" /\ pair["key"] # "none"
KeepsPair(doc) == doc.tls /\ HasPair

\* writeHostConfig up to ensureTLS.
BootstrapSettings(insecure) ==
    /\ At("settings")
    /\ LET tls == KeepsPair(config) \/ ~insecure
       IN  op' = [op EXCEPT !.doc = [config EXCEPT !.exists = TRUE, !.tls = tls],
                            !.pc = IF tls /\ ~HasPair THEN "cert" ELSE "save"]
    /\ UNCHANGED <<disk, config, daemon, commands, faults>>

\* ensureTLS writes both files in place: a write that is cut off leaves a
\* file that exists.
WriteInPlace(file, label, then) ==
    /\ At(label)
    /\ \/ pair' = [pair EXCEPT ![file] = "whole"] /\ Goto(then) /\ UNCHANGED faults
       \/ Fault /\ Fails /\ pair' = [pair EXCEPT ![file] = "torn"]
    /\ UNCHANGED <<kernel, kernelNew, rootfs, rootfsNew, bin, binNew, config, daemon, commands>>

WriteCert == WriteInPlace("cert", "cert", "key")
WriteKey == WriteInPlace("key", "key", "save")

\* writeUnit and startUnit: enable --now leaves an active unit alone.
BootstrapStart ==
    /\ At("start")
    /\ \/ daemon' = (IF daemon.up THEN daemon ELSE Started) /\ End("ok") /\ UNCHANGED faults
       \/ Fault /\ Fails /\ UNCHANGED daemon
    /\ UNCHANGED <<disk, config, commands>>

(***************************************************************************)
(* Install, alone and as a part of Upgrade.                                *)
(***************************************************************************)
Install(r, i) == Command("install", r, i, "load")

\* The configuration, the index and the entry of the id.
InstallLoad ==
    /\ At("load")
    /\ \/ /\ config.exists /\ Lookup(op.id)
          /\ op' = [op EXCEPT !.pc = "kernel", !.doc = config]
       \/ Fails
    /\ UNCHANGED <<disk, config, daemon, commands, faults>>

\* fetchVerified: the kernel only if there is none.
FetchKernel ==
    /\ At("kernel")
    /\ \/ kernel # None /\ Goto("rootfs") /\ UNCHANGED kernelNew
       \/ /\ kernel = None /\ kernelNew' \in Fetched(KernelOf[op.rel])
          /\ op' = [op EXCEPT !.pc = "rootfs", !.staged = TRUE,
                              !.trouble = @ \/ kernelNew' = Bad]
       \/ kernel = None /\ Fails /\ UNCHANGED kernelNew
    /\ UNCHANGED <<kernel, rootfs, rootfsNew, bin, binNew, pair, config, daemon, commands, faults>>

DropKernel == kernelNew' = IF op.staged THEN None ELSE kernelNew

FetchRootfs ==
    /\ At("rootfs")
    /\ \/ /\ \E c \in Fetched(op.rel) :
                /\ rootfsNew' = [rootfsNew EXCEPT ![op.id] = c]
                /\ op' = [op EXCEPT !.pc = "verify", !.trouble = @ \/ c = Bad]
          /\ UNCHANGED kernelNew
       \/ Fails /\ DropKernel /\ UNCHANGED rootfsNew
    /\ UNCHANGED <<kernel, rootfs, bin, binNew, pair, config, daemon, commands, faults>>

Trusted(k, r) == <<k, r>> = HashOf(op.rel)

VerifyDigest ==
    /\ At("verify")
    /\ IF Trusted(IF op.staged THEN kernelNew ELSE kernel, rootfsNew[op.id])
       THEN /\ Goto(IF op.staged THEN "renameKernel" ELSE "renameRootfs")
            /\ UNCHANGED <<kernelNew, rootfsNew>>
       ELSE /\ End("failed") /\ DropKernel
            /\ rootfsNew' = [rootfsNew EXCEPT ![op.id] = None]
    /\ UNCHANGED <<kernel, rootfs, bin, binNew, pair, config, daemon, commands, faults>>

RenameKernel ==
    /\ At("renameKernel")
    /\ kernelNew' = None
    /\ \/ /\ kernel' = kernelNew /\ daemon' = RestampedAll /\ Goto("renameRootfs")
          /\ UNCHANGED <<rootfsNew, faults>>
       \/ /\ Fault /\ Fails
          /\ rootfsNew' = [rootfsNew EXCEPT ![op.id] = None]
          /\ UNCHANGED <<kernel, daemon>>
    /\ UNCHANGED <<rootfs, bin, binNew, pair, config, commands>>

UpsertImage(doc) == [doc EXCEPT !.images[op.id] = HashOf(op.rel)]

RenameRootfs ==
    /\ At("renameRootfs")
    /\ rootfsNew' = [rootfsNew EXCEPT ![op.id] = None]
    /\ \/ /\ rootfs' = [rootfs EXCEPT ![op.id] = rootfsNew[op.id]]
          /\ daemon' = Restamped(op.id)
          /\ op' = [op EXCEPT !.pc = "save", !.doc = UpsertImage(op.doc)]
          /\ UNCHANGED faults
       \/ Fault /\ Fails /\ UNCHANGED <<rootfs, daemon>>
    /\ UNCHANGED <<kernel, kernelNew, bin, binNew, pair, config, commands>>

(***************************************************************************)
(* Upgrade.                                                                *)
(***************************************************************************)
Upgrade(r) == Command("upgrade", r, None, "plan")

FileMatches(b) == bin[b] = op.rel

\* The index, the installed ids, which all have to be in it, the checksums
\* and the binaries that differ.
UpgradePlan ==
    /\ At("plan")
    /\ \/ /\ (\A i \in Installed(config) : Lookup(i))
          /\ op' = [op EXCEPT !.pc = "stage", !.todo = Installed(config),
                              !.need = {b \in Binaries : ~FileMatches(b)}]
       \/ Fails
    /\ UNCHANGED <<disk, config, daemon, commands, faults>>

\* One download that passes its checksum, or all staged ones removed.
StageBinary ==
    /\ At("stage")
    /\ \/ \E b \in op.need : /\ binNew[b] # op.rel
                             /\ binNew' = [binNew EXCEPT ![b] = op.rel] /\ UNCHANGED op
       \/ /\ \A b \in op.need : binNew[b] = op.rel
          /\ Goto("replace") /\ UNCHANGED binNew
       \/ /\ op.need # {} /\ Fails
          /\ binNew' = [b \in Binaries |-> IF b \in op.need THEN None ELSE binNew[b]]
    /\ UNCHANGED <<kernel, kernelNew, rootfs, rootfsNew, bin, pair, config, daemon, commands, faults>>

ReplaceBinary(b) ==
    /\ At("replace") /\ b \in op.need
    /\ binNew' = [binNew EXCEPT ![b] = None]
    /\ \/ /\ bin' = [bin EXCEPT ![b] = binNew[b]]
          /\ op' = [op EXCEPT !.need = @ \ {b}, !.replaced = TRUE]
          /\ UNCHANGED faults
       \/ Fault /\ Fails /\ UNCHANGED bin
    /\ UNCHANGED <<kernel, kernelNew, rootfs, rootfsNew, pair, config, daemon, commands>>

InstalledDisksDiffer == \E i \in Installed(config) : config.images[i] # HashOf(op.rel)

UpgradeBinariesDone ==
    /\ At("replace") /\ op.need = {}
    /\ IF op.replaced THEN Goto("reloadBinary")
       ELSE IF InstalledDisksDiffer THEN Goto("next") ELSE End("current")
    /\ UNCHANGED <<disk, config, daemon, commands, faults>>

\* Install of the next installed id.
UpgradeNext ==
    /\ At("next")
    /\ IF op.todo = {} THEN End("ok")
       ELSE \E i \in op.todo :
                op' = [op EXCEPT !.pc = "load", !.id = i, !.todo = @ \ {i}, !.staged = FALSE]
    /\ UNCHANGED <<disk, config, daemon, commands, faults>>

(***************************************************************************)
(* Remove.                                                                 *)
(***************************************************************************)
Remove(i) == Command("remove", None, i, "removeLoad")

RemoveLoad ==
    /\ At("removeLoad")
    /\ IF op.id \notin Installed(config) THEN End("ok")
       ELSE op' = [op EXCEPT !.pc = "save", !.doc = [config EXCEPT !.images[op.id] = None]]
    /\ UNCHANGED <<disk, config, daemon, commands, faults>>

KernelStillUsed(doc) == Installed(doc) # {}

RemoveRootfs ==
    /\ At("removeRootfs")
    /\ \/ /\ rootfs' = [rootfs EXCEPT ![op.id] = None] /\ daemon' = Restamped(op.id)
          /\ Goto(IF KernelStillUsed(op.doc) THEN "reload" ELSE "removeKernel")
          /\ UNCHANGED faults
       \/ Fault /\ Fails /\ UNCHANGED <<rootfs, daemon>>
    /\ UNCHANGED <<kernel, kernelNew, rootfsNew, bin, binNew, pair, config, commands>>

RemoveKernel ==
    /\ At("removeKernel")
    /\ \/ kernel' = None /\ daemon' = RestampedAll /\ Goto("reload") /\ UNCHANGED faults
       \/ Fault /\ Fails /\ UNCHANGED <<kernel, daemon>>
    /\ UNCHANGED <<kernelNew, rootfs, rootfsNew, bin, binNew, pair, config, commands>>

(***************************************************************************)
(* The specification.                                                      *)
(***************************************************************************)
\* A machine that was never bootstrapped, or one that runs the images S of
\* the release r.
HostWith(r, S) ==
    /\ kernel = (IF S = {} THEN None ELSE KernelOf[r]) /\ kernelNew = None
    /\ rootfs = [i \in Ids |-> IF i \in S THEN r ELSE None]
    /\ rootfsNew = [i \in Ids |-> None]
    /\ bin = [b \in Binaries |-> r] /\ binNew = [b \in Binaries |-> None]
    /\ pair = [f \in {"cert", "key"} |-> "whole"]
    /\ config = [exists |-> TRUE, tls |-> TRUE,
                 images |-> [i \in Ids |-> IF i \in S THEN HashOf(r) ELSE None]]
    /\ daemon = Started

EmptyMachine ==
    /\ kernel = None /\ kernelNew = None
    /\ rootfs = [i \in Ids |-> None] /\ rootfsNew = [i \in Ids |-> None]
    /\ bin = [b \in Binaries |-> None] /\ binNew = [b \in Binaries |-> None]
    /\ pair = [f \in {"cert", "key"} |-> "none"]
    /\ config = NoConfig /\ daemon = Down

Init ==
    /\ \/ EmptyMachine
       \/ \E r \in Releases : \E S \in SUBSET Published[r] : HostWith(r, S)
    /\ op = Idle /\ commands = 0 /\ faults = 0

Catalog == \E i \in Ids : Verify(i) \/ DigestKernel(i) \/ DigestRootfs(i)
BootstrapStep == \/ \E r \in Releases : Bootstrap(r)
                 \/ BootstrapBinary
                 \/ \E insecure \in BOOLEAN : BootstrapSettings(insecure)
                 \/ WriteCert \/ WriteKey \/ BootstrapStart
InstallStep == \/ \E r \in Releases, i \in Ids : Install(r, i)
               \/ InstallLoad \/ FetchKernel \/ FetchRootfs \/ VerifyDigest
               \/ RenameKernel \/ RenameRootfs
UpgradeStep == \/ \E r \in Releases : Upgrade(r)
               \/ UpgradePlan \/ StageBinary \/ (\E b \in Binaries : ReplaceBinary(b))
               \/ UpgradeBinariesDone \/ UpgradeNext
RemoveStep == (\E i \in Ids : Remove(i)) \/ RemoveLoad \/ RemoveRootfs \/ RemoveKernel

Next == \/ DaemonStarts \/ Catalog
        \/ BootstrapStep \/ InstallStep \/ UpgradeStep \/ RemoveStep
        \/ Save(AfterSave) \/ Reload \/ Kill

Spec == Init /\ [][Next]_vars

(***************************************************************************)
(* Properties.                                                             *)
(***************************************************************************)
Matches(i) == i \in Installed(config) /\ InPlace(i) = config.images[i]

\* An image whose boot files match the configuration keeps matching, through
\* every command on other images, every failure and every kill: only the
\* rename in an Install of the image itself breaks it (until the Save), and
\* the shared kernel is neither replaced nor removed under it (install.go,
\* list.go).
OnlyItsInstallBreaksAnImage ==
    [][\A i \in Ids : (Matches(i) /\ i \in Installed(config)' /\ ~Matches(i)')
                        => op.pc = "renameRootfs" /\ op.id = i]_vars

\* After an Install or an Upgrade that reported success, whatever was
\* interrupted or failed before: the disks in place and the configuration
\* are those of the release, and a running daemon has loaded that very
\* configuration, with the binary of the release after an Upgrade.  (An
\* Upgrade that found nothing to do reports "already current" instead.)
SuccessIsServed ==
    (At("idle") /\ op.result = "ok" /\ op.cmd \in {"install", "upgrade"}) =>
        /\ \A i \in IF op.cmd = "install" THEN {op.id} ELSE Installed(config) :
              config.images[i] = HashOf(op.rel) /\ Matches(i)
        /\ daemon.up => daemon.images = config.images
        /\ op.cmd = "upgrade" => /\ bin = [b \in Binaries |-> op.rel]
                                 /\ daemon.up => daemon.bin = op.rel

\* What the catalog answers without hashing again is what hashing would
\* answer, although files are replaced while it stamps and reads them
\* (imageRecord.verified).
CatalogTellsTruth ==
    \A i \in Ids : (Serves(i) /\ daemon.record[i].phase = "idle" /\ Cached(i))
                      => daemon.record[i].valid = (InPlace(i) = daemon.images[i])

\* Downloads that fail or are corrupt leave nothing: without other faults the
\* files in place are exactly those the configuration names, and nothing is
\* staged (fetchVerified, removeStaged).
NothingLeftBehind ==
    (faults = 0 /\ At("idle")) =>
        /\ kernelNew = None /\ \A i \in Ids : rootfsNew[i] = None
        /\ \A b \in Binaries : binNew[b] = None
        /\ \A i \in Ids : (rootfs[i] # None) = (i \in Installed(config))
        /\ (kernel # None) = (Installed(config) # {})

(***************************************************************************)
(* What the code does not guarantee, although operators may expect it: the *)
(* README describes the counterexamples.                                   *)
(***************************************************************************)
\* README: upgrade "replaces execenv and execenvctl from this binary's tag,
\* then reinstalls every catalog id already on the host".  The
\* kernel of another release is never fetched while one is in place
\* (fetchVerified), so the digest cannot match.
UpgradeNeedsNoLuck ==
    (At("idle") /\ op.cmd = "upgrade" /\ op.result = "failed") => op.trouble

\* As above for Install: a Remove that was killed before it removed the
\* kernel leaves one that nothing removes.
InstallNeedsNoLuck ==
    (At("idle") /\ op.cmd = "install" /\ op.result = "failed") => op.trouble

\* "upgraded=already current" compares files, not what the daemon runs: an
\* Upgrade that failed to restart the daemon is not finished by another.
AlreadyCurrentIsServed ==
    (At("idle") /\ op.result = "current" /\ daemon.up) =>
        daemon.bin = op.rel /\ daemon.images = config.images

\* A key that was cut off while it was written exists, and is kept.
BootstrapStarts ==
    (At("idle") /\ op.cmd = "bootstrap" /\ op.result = "ok") => ~config.tls \/ pair["key"] # "torn"
=============================================================================

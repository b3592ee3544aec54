------------------------- MODULE OperatorCtlProofs -------------------------
(***************************************************************************)
(* What the operator's tool keeps true of the host it installs images on,  *)
(* for any images, releases, commands and faults.                          *)
(***************************************************************************)
EXTENDS OperatorCtl, TLAPS

\* Where a command may be.
BootPc == {"binary", "settings", "cert", "key", "start"}
InstPc == {"load", "kernel", "rootfs", "verify", "renameKernel", "renameRootfs"}
UpPc == {"plan", "stage", "replace", "reloadBinary", "next"}
RemPc == {"removeLoad", "removeRootfs", "removeKernel"}
Label == BootPc \cup InstPc \cup UpPc \cup RemPc \cup {"idle", "save", "reload"}
Cmd == {"none", "bootstrap", "install", "upgrade", "remove"}

Kernels == {KernelOf[r] : r \in Releases}
Hashes == {HashOf(r) : r \in Releases}
Images == [Ids -> Hashes \cup {None}]
ConfigRec == [exists : BOOLEAN, tls : BOOLEAN, images : Images]
Record == [checked : BOOLEAN, fresh : BOOLEAN, phase : {"idle", "kernel", "rootfs"},
           seen : Kernels \cup {None}, valid : BOOLEAN]
DaemonRec == [up : BOOLEAN, bin : Releases \cup {None}, images : Images,
              record : [Ids -> Record]]
OpRec == [pc : Label, cmd : Cmd, rel : Releases \cup {None}, id : Ids \cup {None},
          doc : ConfigRec, staged : BOOLEAN, need : SUBSET Binaries,
          todo : SUBSET Ids, replaced : BOOLEAN, trouble : BOOLEAN,
          result : {"ok", "failed", "current"}]

FilesOK ==
    /\ kernel \in Kernels \cup {None}
    /\ kernelNew \in Kernels \cup {None, Bad}
    /\ rootfs \in [Ids -> Releases \cup {None}]
    /\ rootfsNew \in [Ids -> Releases \cup {None, Bad}]
    /\ bin \in [Binaries -> Releases \cup {None}]
    /\ binNew \in [Binaries -> Releases \cup {None}]
    /\ pair \in [{"cert", "key"} -> {"none", "whole", "torn"}]

\* Each command is at places of its own, with its release and its image, and
\* what it renames was verified.
PlaceOK ==
    /\ op.pc \in BootPc => op.cmd = "bootstrap"
    /\ op.pc \in InstPc => op.cmd \in {"install", "upgrade"}
    /\ op.pc \in UpPc => op.cmd = "upgrade"
    /\ op.pc \in RemPc => op.cmd = "remove"
    /\ op.pc = "save" => op.cmd # "none"
    /\ op.pc = "reload" => op.cmd \in {"install", "upgrade", "remove"}
    /\ op.pc # "idle" /\ op.cmd # "remove" => op.rel \in Releases
    /\ op.pc # "idle" /\ op.cmd \in {"install", "remove"} => op.id \in Ids
    /\ op.pc \in InstPc \cup {"save", "reload"} /\ op.cmd = "upgrade" => op.id \in Ids
    /\ op.pc = "renameKernel" => <<kernelNew, rootfsNew[op.id]>> = HashOf(op.rel)
    /\ op.pc = "renameRootfs" => <<kernel, rootfsNew[op.id]>> = HashOf(op.rel)
    /\ op.pc = "replace" => \A b \in op.need : binNew[b] = op.rel

TypeOK ==
    /\ FilesOK
    /\ config \in ConfigRec
    /\ daemon \in DaemonRec
    /\ op \in OpRec
    /\ commands \in Nat /\ faults \in Nat
    /\ PlaceOK

----------------------------------------------------------------------------
(* What the updates of the command's memory do.                            *)

LEMMA NoConfigType == NoConfig \in ConfigRec
BY DEF NoConfig, ConfigRec, Images

LEMMA IdleType ==
    /\ Idle \in OpRec /\ Idle.pc = "idle" /\ Idle.doc = NoConfig
    /\ Idle.staged = FALSE /\ Idle.need = {} /\ Idle.todo = {}
    /\ Idle.replaced = FALSE /\ Idle.trouble = FALSE /\ Idle.result = "ok"
BY NoConfigType DEF Idle, OpRec, Label, Cmd

LEMMA GotoFields ==
    ASSUME op \in OpRec, NEW l \in Label, Goto(l)
    PROVE  /\ op' \in OpRec /\ op'.pc = l
           /\ op'.cmd = op.cmd /\ op'.rel = op.rel /\ op'.id = op.id
           /\ op'.doc = op.doc /\ op'.staged = op.staged
           /\ op'.need = op.need /\ op'.todo = op.todo
           /\ op'.replaced = op.replaced /\ op'.result = op.result
BY DEF Goto, OpRec

\* End and Fails.
LEMMA EndFields ==
    ASSUME op \in OpRec, NEW t \in BOOLEAN, NEW r \in {"ok", "failed", "current"},
           op' = [Idle EXCEPT !.cmd = op.cmd, !.rel = op.rel, !.id = op.id,
                              !.trouble = t, !.result = r]
    PROVE  /\ op' \in OpRec /\ op'.pc = "idle" /\ op'.result = r
           /\ op'.cmd = op.cmd /\ op'.rel = op.rel /\ op'.id = op.id
BY IdleType DEF OpRec

LEMMA Ends ==
    ASSUME op \in OpRec,
           Fails \/ \E r \in {"ok", "failed", "current"} : End(r)
    PROVE  /\ op' \in OpRec /\ op'.pc = "idle"
           /\ op'.cmd = op.cmd /\ op'.rel = op.rel /\ op'.id = op.id
           /\ Fails => op'.result = "failed"
           /\ \A r \in {"ok", "failed", "current"} : End(r) => op'.result = r
<1>1. op.trouble \in BOOLEAN
  BY DEF OpRec
<1>2. Fails => /\ op' \in OpRec /\ op'.pc = "idle" /\ op'.result = "failed"
               /\ op'.cmd = op.cmd /\ op'.rel = op.rel /\ op'.id = op.id
  BY EndFields DEF Fails
<1>3. \A r \in {"ok", "failed", "current"} : End(r) =>
               /\ op' \in OpRec /\ op'.pc = "idle" /\ op'.result = r
               /\ op'.cmd = op.cmd /\ op'.rel = op.rel /\ op'.id = op.id
  BY <1>1, EndFields DEF End
<1> QED BY <1>2, <1>3

LEMMA CommandFields ==
    ASSUME NEW c \in Cmd, NEW r \in Releases \cup {None}, NEW i \in Ids \cup {None},
           NEW l \in Label, Command(c, r, i, l)
    PROVE  /\ op' \in OpRec /\ op'.pc = l /\ op'.cmd = c
           /\ op'.rel = r /\ op'.id = i
           /\ op'.staged = FALSE /\ op'.replaced = FALSE
BY IdleType DEF Command, OpRec

\* What the daemon becomes.
LEMMA StartedType ==
    ASSUME FilesOK, config \in ConfigRec
    PROVE  /\ Started \in DaemonRec /\ Down \in DaemonRec
           /\ Down.up = FALSE
           /\ Started.up => /\ Started.images = config.images
                            /\ Started.bin = bin["execenv"]
           /\ \A i \in Ids : Started.record[i] = NoRecord /\ Down.record[i] = NoRecord
<1>1. NoRecord \in Record
  BY DEF NoRecord, Record
<1>2. Down \in DaemonRec /\ Down.up = FALSE /\ \A i \in Ids : Down.record[i] = NoRecord
  BY <1>1, NoConfigType DEF Down, DaemonRec, NoConfig, ConfigRec
<1>3. CASE Started = Down
  BY <1>2, <1>3
<1>4. CASE Started = [up |-> TRUE, bin |-> bin["execenv"], images |-> config.images,
                      record |-> [i \in Ids |-> NoRecord]]
  BY <1>1, <1>2, <1>4 DEF DaemonRec, FilesOK, Binaries, ConfigRec
<1> QED BY <1>3, <1>4 DEF Started

LEMMA RestampedFields ==
    ASSUME daemon \in DaemonRec, NEW i \in Ids
    PROVE  /\ Restamped(i) \in DaemonRec
           /\ Restamped(i).up = daemon.up /\ Restamped(i).bin = daemon.bin
           /\ Restamped(i).images = daemon.images
           /\ Restamped(i).record[i].fresh = FALSE
           /\ \A j \in Ids \ {i} : Restamped(i).record[j] = daemon.record[j]
<1>1. daemon.record \in [Ids -> Record] /\ daemon.record[i] \in Record
  BY DEF DaemonRec
<1>2. [daemon.record[i] EXCEPT !.fresh = FALSE] \in Record
  BY <1>1 DEF Record
<1>3. Restamped(i) = [daemon EXCEPT !.record =
                        [daemon.record EXCEPT ![i] = [daemon.record[i] EXCEPT !.fresh = FALSE]]]
  BY DEF Restamped
<1>4. [daemon.record[i] EXCEPT !.fresh = FALSE].fresh = FALSE
  BY <1>1 DEF Record
<1> DEFINE r == [daemon.record[i] EXCEPT !.fresh = FALSE]
<1> HIDE DEF r
<1>5. /\ [daemon.record EXCEPT ![i] = r] \in [Ids -> Record]
      /\ [daemon.record EXCEPT ![i] = r][i] = r
      /\ \A j \in Ids \ {i} : [daemon.record EXCEPT ![i] = r][j] = daemon.record[j]
  BY <1>1, <1>2 DEF r
<1> DEFINE q == [daemon.record EXCEPT ![i] = r]
<1>6. Restamped(i) = [daemon EXCEPT !.record = q]
  BY <1>3 DEF r
<1>7. r.fresh = FALSE
  BY <1>4 DEF r
<1>8. q \in [Ids -> Record] /\ q[i] = r /\ \A j \in Ids \ {i} : q[j] = daemon.record[j]
  BY <1>5
<1> HIDE DEF q
<1> QED BY <1>6, <1>7, <1>8 DEF DaemonRec

LEMMA RestampedAllFields ==
    ASSUME daemon \in DaemonRec
    PROVE  /\ RestampedAll \in DaemonRec
           /\ RestampedAll.up = daemon.up /\ RestampedAll.bin = daemon.bin
           /\ RestampedAll.images = daemon.images
           /\ \A j \in Ids : RestampedAll.record[j].fresh = FALSE
<1>1. \A j \in Ids : daemon.record[j] \in Record
  BY DEF DaemonRec
<1>2. \A j \in Ids : /\ [daemon.record[j] EXCEPT !.fresh = FALSE] \in Record
                     /\ [daemon.record[j] EXCEPT !.fresh = FALSE].fresh = FALSE
  BY <1>1 DEF Record
<1> DEFINE q == [i \in Ids |-> [daemon.record[i] EXCEPT !.fresh = FALSE]]
<1>3. q \in [Ids -> Record] /\ \A j \in Ids : q[j].fresh = FALSE
  BY <1>2
<1>4. RestampedAll = [daemon EXCEPT !.record = q]
  BY DEF RestampedAll
<1> HIDE DEF q
<1> QED BY <1>3, <1>4 DEF DaemonRec

\* A record of the catalog changes, and nothing else does.
LEMMA RecordFields ==
    ASSUME daemon \in DaemonRec, NEW i \in Ids, NEW r \in Record,
           daemon' = [daemon EXCEPT !.record[i] = r]
    PROVE  /\ daemon' \in DaemonRec
           /\ daemon'.up = daemon.up /\ daemon'.bin = daemon.bin
           /\ daemon'.images = daemon.images
           /\ daemon'.record[i] = r
           /\ \A j \in Ids \ {i} : daemon'.record[j] = daemon.record[j]
<1> DEFINE q == [daemon.record EXCEPT ![i] = r]
<1>1. q \in [Ids -> Record] /\ q[i] = r /\ \A j \in Ids \ {i} : q[j] = daemon.record[j]
  BY DEF DaemonRec
<1>2. daemon' = [daemon EXCEPT !.record = q]
  OBVIOUS
<1> HIDE DEF q
<1> QED BY <1>1, <1>2 DEF DaemonRec

\* verified and its two reads, as changes of the record of the image.
LEMMA CatalogSteps ==
    ASSUME TypeOK, NEW i \in Ids, Verify(i) \/ DigestKernel(i) \/ DigestRootfs(i)
    PROVE  /\ \E r \in Record :
                 /\ daemon' = [daemon EXCEPT !.record[i] = r]
                 /\ \/ /\ Verify(i) /\ r.fresh /\ r.phase \in {"kernel", "idle"}
                       /\ r.phase = "idle" => ~Present(i)
                    \/ /\ DigestKernel(i) /\ r.fresh = daemon.record[i].fresh
                       /\ r.phase = IF kernel = None THEN "idle" ELSE "rootfs"
                       /\ r.seen = kernel
                    \/ /\ DigestRootfs(i) /\ r.fresh = daemon.record[i].fresh
                       /\ daemon.record[i].phase = "rootfs" /\ r.phase = "idle"
                       /\ r.valid = (<<daemon.record[i].seen, rootfs[i]>> = daemon.images[i])
           /\ UNCHANGED <<disk, config, op, commands, faults>>
<1>1. UNCHANGED <<disk, config, op, commands, faults>>
  BY DEF Verify, DigestKernel, DigestRootfs
<1>2. daemon.record[i] \in Record /\ kernel \in Kernels \cup {None}
  BY DEF TypeOK, DaemonRec, FilesOK
<1>3. CASE Verify(i)
  <2> DEFINE r == [NoRecord EXCEPT !.checked = TRUE, !.fresh = TRUE,
                                   !.phase = IF Present(i) THEN "kernel" ELSE "idle"]
  <2>1. r \in Record /\ r.fresh /\ r.phase = IF Present(i) THEN "kernel" ELSE "idle"
    BY DEF NoRecord, Record
  <2>2. daemon' = [daemon EXCEPT !.record[i] = r]
    BY <1>3 DEF Verify
  <2> HIDE DEF r
  <2> QED BY <1>1, <1>3, <2>1, <2>2
<1>4. CASE DigestKernel(i)
  <2> DEFINE r == [daemon.record[i] EXCEPT
                      !.phase = IF kernel = None THEN "idle" ELSE "rootfs", !.seen = kernel]
  <2>1. /\ r \in Record /\ r.fresh = daemon.record[i].fresh /\ r.seen = kernel
        /\ r.phase = IF kernel = None THEN "idle" ELSE "rootfs"
    BY <1>2 DEF Record
  <2>2. daemon' = [daemon EXCEPT !.record[i] = r]
    BY <1>2, <1>4 DEF DigestKernel, TypeOK, DaemonRec
  <2> HIDE DEF r
  <2> QED BY <1>1, <1>4, <2>1, <2>2
<1>5. CASE DigestRootfs(i)
  <2> DEFINE v == (<<daemon.record[i].seen, rootfs[i]>> = daemon.images[i])
             r == [daemon.record[i] EXCEPT !.phase = "idle", !.seen = None, !.valid = v]
  <2>1. v \in BOOLEAN
    OBVIOUS
  <2>2. daemon' = [daemon EXCEPT !.record[i] = r]
    BY <1>5 DEF DigestRootfs
  <2>3. r.valid = v
    BY <1>2 DEF Record
  <2> HIDE DEF v
  <2>4. /\ r \in Record /\ r.fresh = daemon.record[i].fresh
        /\ r.phase = "idle"
    BY <1>2, <2>1 DEF Record
  <2> HIDE DEF r
  <2>5. daemon.record[i].phase = "rootfs"
    BY <1>5 DEF DigestRootfs
  <2> QED BY <1>1, <1>5, <2>2, <2>3, <2>4, <2>5 DEF v
<1> QED BY <1>3, <1>4, <1>5

----------------------------------------------------------------------------
(* Types.                                                                  *)

\* A command that ended is nowhere.
LEMMA NowhereOK == op'.pc = "idle" => PlaceOK'
BY DEF PlaceOK, BootPc, InstPc, UpPc, RemPc

LEMMA TypeParts ==
    ASSUME TypeOK
    PROVE  /\ FilesOK /\ config \in ConfigRec /\ daemon \in DaemonRec
           /\ op \in OpRec /\ commands \in Nat /\ faults \in Nat /\ PlaceOK
           /\ None \notin Releases /\ Bad \notin Releases
           /\ op.doc \in ConfigRec /\ op.todo \subseteq Ids
           /\ op.need \subseteq Binaries /\ config.images \in Images
BY CtlAssumption DEF TypeOK, OpRec, ConfigRec

LEMMA ServeTypes ==
    ASSUME TypeOK,
           \/ UNCHANGED vars \/ DaemonStarts \/ Catalog \/ Kill
           \/ Save(AfterSave) \/ Reload
    PROVE  TypeOK'
<1>1. CASE UNCHANGED vars
  BY <1>1 DEF TypeOK, FilesOK, PlaceOK, vars, disk
<1>2. CASE DaemonStarts
  <2>1. daemon' \in DaemonRec
    BY <1>2, StartedType DEF DaemonStarts, TypeOK
  <2> QED BY <1>2, <2>1 DEF DaemonStarts, TypeOK, FilesOK, PlaceOK, disk
<1>3. CASE Catalog
  <2>1. PICK i \in Ids : Verify(i) \/ DigestKernel(i) \/ DigestRootfs(i)
    BY <1>3 DEF Catalog
  <2>2. daemon' \in DaemonRec /\ UNCHANGED <<disk, config, op, commands, faults>>
    BY <2>1, CatalogSteps, RecordFields DEF TypeOK
  <2> QED BY <2>2 DEF TypeOK, FilesOK, PlaceOK, disk
<1>4. CASE Kill
  <2>1. op' \in OpRec /\ op'.pc = "idle"
    BY <1>4, Ends DEF Kill, TypeOK
  <2> QED BY <1>4, <2>1, NowhereOK DEF Kill, Fault, TypeOK, FilesOK, disk
<1>5. CASE Save(AfterSave)
  <2>1. op.pc = "save" /\ op.cmd \in {"bootstrap", "install", "upgrade", "remove"}
    BY <1>5, TypeParts DEF Save, At, PlaceOK, OpRec, Cmd
  <2>2. config' \in ConfigRec /\ faults' \in Nat
    BY <1>5, TypeParts DEF Save, Fault
  <2>3. CASE Fails
    <3>1. op' \in OpRec /\ op'.pc = "idle"
      BY <2>3, Ends DEF TypeOK
    <3> QED BY <1>5, <2>2, <3>1, NowhereOK DEF Save, TypeOK, FilesOK, disk
  <2>4. CASE Goto(AfterSave[op.cmd])
    <3>1. /\ AfterSave[op.cmd] \in Label
          /\ AfterSave[op.cmd] = IF op.cmd = "bootstrap" THEN "start"
                                 ELSE IF op.cmd = "remove" THEN "removeRootfs" ELSE "reload"
      BY <2>1 DEF AfterSave, Label, BootPc, RemPc
    <3>2. /\ op' \in OpRec /\ op'.pc = AfterSave[op.cmd] /\ op'.cmd = op.cmd
          /\ op'.rel = op.rel /\ op'.id = op.id
      BY <2>4, <3>1, GotoFields DEF TypeOK
    <3>3. PlaceOK'
      BY <2>1, <3>1, <3>2, TypeParts
         DEF PlaceOK, BootPc, InstPc, UpPc, RemPc
    <3> QED BY <1>5, <2>2, <3>2, <3>3 DEF Save, TypeOK, FilesOK, disk
  <2> QED BY <1>5, <2>3, <2>4 DEF Save
<1>6. CASE Reload
  <2>1. /\ op.pc \in {"reload", "reloadBinary"} /\ faults' \in Nat
        /\ daemon' \in DaemonRec
    BY <1>6, TypeParts, StartedType DEF Reload, Restart, At, Fault
  <2>2. CASE Goto("next") /\ op.cmd = "upgrade"
    <3>1. /\ op' \in OpRec /\ op'.pc = "next" /\ op'.cmd = op.cmd
          /\ op'.rel = op.rel /\ op'.id = op.id
      BY <2>2, GotoFields DEF TypeOK, Label, UpPc
    <3>2. PlaceOK'
      BY <2>1, <2>2, <3>1, TypeParts DEF PlaceOK, BootPc, InstPc, UpPc, RemPc
    <3> QED BY <1>6, <2>1, <3>1, <3>2 DEF Reload, TypeOK, FilesOK, disk
  <2>3. CASE Fails \/ End("ok")
    <3>1. op' \in OpRec /\ op'.pc = "idle"
      BY <2>3, Ends DEF TypeOK
    <3> QED BY <1>6, <2>1, <3>1, NowhereOK DEF Reload, TypeOK, FilesOK, disk
  <2> QED BY <1>6, <2>2, <2>3 DEF Reload
<1> QED BY <1>1, <1>2, <1>3, <1>4, <1>5, <1>6

LEMMA BeginTypes ==
    ASSUME TypeOK,
           \/ \E r \in Releases : Bootstrap(r) \/ Upgrade(r)
           \/ \E r \in Releases, i \in Ids : Install(r, i)
           \/ \E i \in Ids : Remove(i)
    PROVE  TypeOK'
<1>1. /\ op' \in OpRec
      /\ \/ op'.pc = "binary" /\ op'.cmd = "bootstrap" /\ op'.rel \in Releases
         \/ op'.pc = "plan" /\ op'.cmd = "upgrade" /\ op'.rel \in Releases
         \/ /\ op'.pc = "load" /\ op'.cmd = "install"
            /\ op'.rel \in Releases /\ op'.id \in Ids
         \/ op'.pc = "removeLoad" /\ op'.cmd = "remove" /\ op'.id \in Ids
  <2>1. /\ {"binary", "plan", "load", "removeLoad"} \subseteq Label
        /\ {"bootstrap", "upgrade", "install", "remove"} \subseteq Cmd
    BY DEF Label, Cmd, BootPc, UpPc, InstPc, RemPc
  <2>2. ASSUME NEW r \in Releases, Bootstrap(r)
        PROVE  /\ op' \in OpRec /\ op'.pc = "binary" /\ op'.cmd = "bootstrap"
               /\ op'.rel = r
    BY <2>1, <2>2, CommandFields DEF Bootstrap
  <2>3. ASSUME NEW r \in Releases, Upgrade(r)
        PROVE  /\ op' \in OpRec /\ op'.pc = "plan" /\ op'.cmd = "upgrade"
               /\ op'.rel = r
    BY <2>1, <2>3, CommandFields DEF Upgrade
  <2>4. ASSUME NEW r \in Releases, NEW i \in Ids, Install(r, i)
        PROVE  /\ op' \in OpRec /\ op'.pc = "load" /\ op'.cmd = "install"
               /\ op'.rel = r /\ op'.id = i
    BY <2>1, <2>4, CommandFields DEF Install
  <2>5. ASSUME NEW i \in Ids, Remove(i)
        PROVE  /\ op' \in OpRec /\ op'.pc = "removeLoad" /\ op'.cmd = "remove"
               /\ op'.id = i
    BY <2>1, <2>5, CommandFields DEF Remove
  <2> QED BY <2>2, <2>3, <2>4, <2>5
<1>2. commands' \in Nat /\ UNCHANGED <<disk, config, daemon, faults>>
  <2>1. commands + 1 \in Nat
    BY TypeParts
  <2> QED BY <2>1 DEF Bootstrap, Upgrade, Install, Remove, Command
<1>3. PlaceOK'
  BY <1>1 DEF PlaceOK, BootPc, InstPc, UpPc, RemPc
<1> QED BY <1>1, <1>2, <1>3 DEF TypeOK, FilesOK, disk

LEMMA BootstrapTypes ==
    ASSUME TypeOK,
           \/ BootstrapBinary \/ WriteCert \/ WriteKey \/ BootstrapStart
           \/ \E insecure \in BOOLEAN : BootstrapSettings(insecure)
    PROVE  TypeOK'
<1>1. CASE BootstrapBinary
  <2>1. /\ op.pc = "binary" /\ op.cmd = "bootstrap" /\ op.rel \in Releases
        /\ faults' \in Nat
    BY <1>1, TypeParts DEF BootstrapBinary, At, PlaceOK, BootPc, Fault
  <2>2. bin' \in [Binaries -> Releases \cup {None}]
    BY <1>1, <2>1, TypeParts DEF BootstrapBinary, FilesOK
  <2>3. op' \in OpRec /\ PlaceOK'
    <3>1. Fails => op' \in OpRec /\ op'.pc = "idle"
      BY Ends DEF TypeOK
    <3>2. Goto("settings") => /\ op' \in OpRec /\ op'.pc = "settings"
                              /\ op'.cmd = op.cmd /\ op'.rel = op.rel
      BY GotoFields DEF TypeOK, Label, BootPc
    <3> QED BY <1>1, <2>1, <3>1, <3>2, NowhereOK
            DEF BootstrapBinary, PlaceOK, BootPc, InstPc, UpPc, RemPc
  <2> QED BY <1>1, <2>1, <2>2, <2>3 DEF BootstrapBinary, TypeOK, FilesOK
<1>2. CASE WriteCert \/ WriteKey
  <2>1. PICK f \in {"cert", "key"}, l \in {"cert", "key"}, t \in {"key", "save"} :
           WriteInPlace(f, l, t)
    BY <1>2 DEF WriteCert, WriteKey
  <2>2. /\ op.pc = l /\ op.cmd = "bootstrap" /\ op.rel \in Releases
        /\ faults' \in Nat
    BY <2>1, TypeParts DEF WriteInPlace, At, PlaceOK, BootPc, Fault
  <2>3. pair' \in [{"cert", "key"} -> {"none", "whole", "torn"}]
    BY <2>1, TypeParts DEF WriteInPlace, FilesOK
  <2>4. op' \in OpRec /\ PlaceOK'
    <3>1. Fails => op' \in OpRec /\ op'.pc = "idle"
      BY Ends DEF TypeOK
    <3>2. Goto(t) => /\ op' \in OpRec /\ op'.pc = t
                     /\ op'.cmd = op.cmd /\ op'.rel = op.rel
      BY GotoFields DEF TypeOK, Label, BootPc
    <3> QED BY <2>1, <2>2, <3>1, <3>2, NowhereOK
            DEF WriteInPlace, PlaceOK, BootPc, InstPc, UpPc, RemPc
  <2> QED BY <2>1, <2>2, <2>3, <2>4 DEF WriteInPlace, TypeOK, FilesOK
<1>3. CASE BootstrapStart
  <2>1. daemon' \in DaemonRec /\ faults' \in Nat
    BY <1>3, TypeParts, StartedType DEF BootstrapStart, Fault
  <2>2. op' \in OpRec /\ op'.pc = "idle"
    BY <1>3, Ends DEF BootstrapStart, TypeOK
  <2> QED BY <1>3, <2>1, <2>2, NowhereOK DEF BootstrapStart, TypeOK, FilesOK, disk
<1>4. ASSUME NEW insecure \in BOOLEAN, BootstrapSettings(insecure)
      PROVE  TypeOK'
  <2> DEFINE tls == KeepsPair(config) \/ ~insecure
             d == [config EXCEPT !.exists = TRUE, !.tls = tls]
             l == IF tls /\ ~HasPair THEN "cert" ELSE "save"
  <2>1. tls \in BOOLEAN
    OBVIOUS
  <2>2. op' = [op EXCEPT !.doc = d, !.pc = l] /\ l \in {"cert", "save"}
    BY <1>4 DEF BootstrapSettings
  <2> HIDE DEF tls
  <2>3. d \in ConfigRec
    BY <2>1, TypeParts DEF ConfigRec
  <2> HIDE DEF d, l
  <2>4. /\ op' \in OpRec /\ op'.pc = l /\ op'.cmd = op.cmd /\ op'.rel = op.rel
    BY <2>2, <2>3, TypeParts DEF OpRec, Label, BootPc
  <2>5. op.cmd = "bootstrap" /\ op.rel \in Releases
    BY <1>4, TypeParts DEF BootstrapSettings, At, PlaceOK, BootPc
  <2>6. PlaceOK'
    BY <2>2, <2>4, <2>5 DEF PlaceOK, BootPc, InstPc, UpPc, RemPc
  <2> QED BY <1>4, <2>4, <2>6 DEF BootstrapSettings, TypeOK, FilesOK, disk
<1> QED BY <1>1, <1>2, <1>3, <1>4

LEMMA HashParts ==
    ASSUME NEW r \in Releases, NEW k, NEW f, <<k, f>> = HashOf(r)
    PROVE  k = KernelOf[r] /\ f = r /\ k # None /\ HashOf(r) # None
BY CtlAssumption DEF HashOf

LEMMA HashTypes ==
    ASSUME NEW r \in Releases
    PROVE  HashOf(r) \in Hashes /\ HashOf(r) # None /\ KernelOf[r] \in Kernels
BY CtlAssumption DEF HashOf, Hashes, Kernels

LEMMA InstallTypes ==
    ASSUME TypeOK,
           \/ InstallLoad \/ FetchKernel \/ FetchRootfs \/ VerifyDigest
           \/ RenameKernel \/ RenameRootfs
    PROVE  TypeOK'
<1>1. /\ op.pc \in InstPc /\ op.cmd \in {"install", "upgrade"}
      /\ op.rel \in Releases /\ op.id \in Ids
  BY TypeParts DEF InstallLoad, FetchKernel, FetchRootfs, VerifyDigest,
                   RenameKernel, RenameRootfs, At, PlaceOK, InstPc
<1>2. Fails \/ (\E r \in {"ok", "failed", "current"} : End(r))
         => op' \in OpRec /\ PlaceOK'
  BY Ends, NowhereOK DEF TypeOK
<1>3. CASE InstallLoad
  <2>1. CASE op' = [op EXCEPT !.pc = "kernel", !.doc = config]
    <3>1. /\ op' \in OpRec /\ op'.pc = "kernel" /\ op'.cmd = op.cmd
          /\ op'.rel = op.rel /\ op'.id = op.id
      BY <2>1, TypeParts DEF OpRec, Label, InstPc
    <3>2. PlaceOK'
      BY <1>1, <3>1 DEF PlaceOK, BootPc, InstPc, UpPc, RemPc
    <3> QED BY <1>3, <3>1, <3>2 DEF InstallLoad, TypeOK, FilesOK, disk
  <2> QED BY <1>2, <1>3, <2>1 DEF InstallLoad, TypeOK, FilesOK, disk
<1>4. CASE FetchKernel
  <2>1. kernelNew' \in Kernels \cup {None, Bad}
    BY <1>1, <1>4, TypeParts, HashTypes DEF FetchKernel, Fetched, FilesOK
  <2>2. op' \in OpRec /\ PlaceOK'
    <3>1. Goto("rootfs") \/ op' = [op EXCEPT !.pc = "rootfs", !.staged = TRUE,
                              !.trouble = @ \/ kernelNew' = Bad]
          => /\ op' \in OpRec /\ op'.pc = "rootfs" /\ op'.cmd = op.cmd
             /\ op'.rel = op.rel /\ op'.id = op.id
      <4>1. (op.trouble \/ kernelNew' = Bad) \in BOOLEAN
        OBVIOUS
      <4> DEFINE t == op.trouble \/ kernelNew' = Bad
      <4>2. op' = [op EXCEPT !.pc = "rootfs", !.staged = TRUE,
                              !.trouble = @ \/ kernelNew' = Bad]
            => op' = [op EXCEPT !.pc = "rootfs", !.staged = TRUE, !.trouble = t]
        BY TypeParts DEF OpRec
      <4>3. t \in BOOLEAN
        BY <4>1
      <4> HIDE DEF t
      <4> QED BY <4>2, <4>3, GotoFields, TypeParts DEF OpRec, Label, InstPc
    <3> QED BY <1>1, <1>2, <1>4, <3>1
            DEF FetchKernel, PlaceOK, BootPc, InstPc, UpPc, RemPc
  <2> QED BY <1>4, <2>1, <2>2 DEF FetchKernel, TypeOK, FilesOK
<1>5. CASE FetchRootfs
  <2>1. kernelNew' \in Kernels \cup {None, Bad}
    BY <1>5, TypeParts DEF FetchRootfs, DropKernel, FilesOK
  <2>2. rootfsNew' \in [Ids -> Releases \cup {None, Bad}]
    BY <1>1, <1>5, TypeParts DEF FetchRootfs, Fetched, FilesOK
  <2>3. op' \in OpRec /\ PlaceOK'
    <3>1. ASSUME NEW c, op' = [op EXCEPT !.pc = "verify", !.trouble = @ \/ c = Bad]
          PROVE  /\ op' \in OpRec /\ op'.pc = "verify" /\ op'.cmd = op.cmd
                 /\ op'.rel = op.rel /\ op'.id = op.id
      <4> DEFINE t == op.trouble \/ c = Bad
      <4>1. op' = [op EXCEPT !.pc = "verify", !.trouble = t]
        BY <3>1, TypeParts DEF OpRec
      <4>2. t \in BOOLEAN
        OBVIOUS
      <4> HIDE DEF t
      <4> QED BY <4>1, <4>2, TypeParts DEF OpRec, Label, InstPc
    <3> QED BY <1>1, <1>2, <1>5, <3>1
            DEF FetchRootfs, PlaceOK, BootPc, InstPc, UpPc, RemPc
  <2> QED BY <1>5, <2>1, <2>2, <2>3 DEF FetchRootfs, TypeOK, FilesOK
<1>6. CASE VerifyDigest
  <2>1. /\ kernelNew' \in Kernels \cup {None, Bad}
        /\ rootfsNew' \in [Ids -> Releases \cup {None, Bad}]
    BY <1>6, TypeParts DEF VerifyDigest, DropKernel, FilesOK
  <2>2. op' \in OpRec /\ PlaceOK'
    <3>1. CASE /\ Trusted(IF op.staged THEN kernelNew ELSE kernel, rootfsNew[op.id])
               /\ Goto(IF op.staged THEN "renameKernel" ELSE "renameRootfs")
               /\ UNCHANGED <<kernelNew, rootfsNew>>
      <4>1. /\ op' \in OpRec /\ op'.cmd = op.cmd
            /\ op'.rel = op.rel /\ op'.id = op.id
            /\ op'.pc = IF op.staged THEN "renameKernel" ELSE "renameRootfs"
        BY <3>1, GotoFields, TypeParts DEF Label, InstPc
      <4>2. /\ op.staged => <<kernelNew', rootfsNew'[op.id]>> = HashOf(op.rel)
            /\ ~op.staged => <<kernel', rootfsNew'[op.id]>> = HashOf(op.rel)
        BY <1>6, <3>1 DEF Trusted, VerifyDigest
      <4> QED BY <1>1, <4>1, <4>2 DEF PlaceOK, BootPc, InstPc, UpPc, RemPc, HashOf
    <3> QED BY <1>2, <1>6, <3>1 DEF VerifyDigest
  <2> QED BY <1>6, <2>1, <2>2 DEF VerifyDigest, TypeOK, FilesOK
<1>7. CASE RenameKernel
  <2>1. op.pc = "renameKernel" /\ <<kernelNew, rootfsNew[op.id]>> = HashOf(op.rel)
    BY <1>7, TypeParts DEF RenameKernel, At, PlaceOK
  <2>2. kernelNew \in Kernels
    BY <1>1, <2>1, HashParts, HashTypes
  <2>3. /\ kernelNew' = None /\ faults' \in Nat
        /\ kernel' \in Kernels \cup {None} /\ daemon' \in DaemonRec
        /\ rootfsNew' \in [Ids -> Releases \cup {None, Bad}]
    BY <1>7, <2>2, TypeParts, RestampedAllFields DEF RenameKernel, Fault, FilesOK
  <2>4. op' \in OpRec /\ PlaceOK'
    <3>1. CASE Goto("renameRootfs") /\ kernel' = kernelNew /\ rootfsNew' = rootfsNew
      <4>1. /\ op' \in OpRec /\ op'.pc = "renameRootfs" /\ op'.cmd = op.cmd
            /\ op'.rel = op.rel /\ op'.id = op.id
        BY <3>1, GotoFields, TypeParts DEF Label, InstPc
      <4> QED BY <1>1, <2>1, <3>1, <4>1 DEF PlaceOK, BootPc, InstPc, UpPc, RemPc, HashOf
    <3> QED BY <1>2, <1>7, <3>1 DEF RenameKernel
  <2> QED BY <1>7, <2>3, <2>4 DEF RenameKernel, TypeOK, FilesOK
<1>8. CASE RenameRootfs
  <2>1. op.pc = "renameRootfs" /\ <<kernel, rootfsNew[op.id]>> = HashOf(op.rel)
    BY <1>8, TypeParts DEF RenameRootfs, At, PlaceOK
  <2>2. rootfsNew[op.id] \in Releases
    BY <1>1, <2>1, HashParts
  <2>3. /\ rootfsNew' \in [Ids -> Releases \cup {None, Bad}] /\ faults' \in Nat
        /\ rootfs' \in [Ids -> Releases \cup {None}] /\ daemon' \in DaemonRec
    <3>1. faults' \in Nat /\ (daemon' = daemon \/ daemon' = Restamped(op.id))
      BY <1>8, TypeParts DEF RenameRootfs, Fault
    <3>2. \/ rootfs' = rootfs
          \/ rootfs' = [rootfs EXCEPT ![op.id] = rootfsNew[op.id]]
      BY <1>8 DEF RenameRootfs
    <3>3. rootfs' \in [Ids -> Releases \cup {None}]
      BY <2>2, <3>2, TypeParts DEF FilesOK
    <3>4. rootfsNew' \in [Ids -> Releases \cup {None, Bad}]
      BY <1>8, TypeParts DEF RenameRootfs, FilesOK
    <3> QED BY <1>1, <3>1, <3>3, <3>4, TypeParts, RestampedFields
  <2>4. op' \in OpRec /\ PlaceOK'
    <3>1. CASE op' = [op EXCEPT !.pc = "save", !.doc = UpsertImage(op.doc)]
      <4>1. UpsertImage(op.doc) \in ConfigRec
        BY <1>1, TypeParts, HashTypes DEF UpsertImage, ConfigRec, Images
      <4>2. /\ op' \in OpRec /\ op'.pc = "save" /\ op'.cmd = op.cmd
            /\ op'.rel = op.rel /\ op'.id = op.id
        BY <3>1, <4>1, TypeParts DEF OpRec, Label
      <4> QED BY <1>1, <4>2 DEF PlaceOK, BootPc, InstPc, UpPc, RemPc
    <3> QED BY <1>2, <1>8, <3>1 DEF RenameRootfs
  <2> QED BY <1>8, <2>3, <2>4 DEF RenameRootfs, TypeOK, FilesOK
<1> QED BY <1>3, <1>4, <1>5, <1>6, <1>7, <1>8

LEMMA UpgradeTypes ==
    ASSUME TypeOK,
           \/ UpgradePlan \/ StageBinary \/ (\E b \in Binaries : ReplaceBinary(b))
           \/ UpgradeBinariesDone \/ UpgradeNext
    PROVE  TypeOK'
<1>1. op.pc \in UpPc /\ op.cmd = "upgrade" /\ op.rel \in Releases
  BY TypeParts DEF UpgradePlan, StageBinary, ReplaceBinary, UpgradeBinariesDone,
                   UpgradeNext, At, PlaceOK, UpPc
<1>2. Fails \/ (\E r \in {"ok", "failed", "current"} : End(r))
         => op' \in OpRec /\ PlaceOK'
  BY Ends, NowhereOK DEF TypeOK
<1>3. CASE UpgradePlan
  <2>1. CASE op' = [op EXCEPT !.pc = "stage", !.todo = Installed(config),
                              !.need = {b \in Binaries : ~FileMatches(b)}]
    <3>1. Installed(config) \subseteq Ids /\ {b \in Binaries : ~FileMatches(b)} \subseteq Binaries
      BY DEF Installed
    <3>2. /\ op' \in OpRec /\ op'.pc = "stage" /\ op'.cmd = op.cmd
          /\ op'.rel = op.rel
      BY <2>1, <3>1, TypeParts DEF OpRec, Label, UpPc
    <3>3. PlaceOK'
      BY <1>1, <3>2 DEF PlaceOK, BootPc, InstPc, UpPc, RemPc
    <3> QED BY <1>3, <3>2, <3>3 DEF UpgradePlan, TypeOK, FilesOK, disk
  <2> QED BY <1>2, <1>3, <2>1 DEF UpgradePlan, TypeOK, FilesOK, disk
<1>4. CASE StageBinary
  <2>1. binNew' \in [Binaries -> Releases \cup {None}]
    BY <1>1, <1>4, TypeParts DEF StageBinary, FilesOK
  <2>2. op' \in OpRec /\ PlaceOK'
    <3>1. CASE op' = op
      <4>1. op'.pc = "stage"
        BY <1>4, <3>1 DEF StageBinary, At
      <4> QED BY <1>1, <3>1, <4>1, TypeParts DEF PlaceOK, BootPc, InstPc, UpPc, RemPc
    <3>2. CASE /\ \A b \in op.need : binNew[b] = op.rel
               /\ Goto("replace") /\ UNCHANGED binNew
      <4>1. /\ op' \in OpRec /\ op'.pc = "replace" /\ op'.cmd = op.cmd
            /\ op'.rel = op.rel /\ op'.need = op.need
        BY <3>2, GotoFields, TypeParts DEF Label, UpPc
      <4> QED BY <1>1, <3>2, <4>1 DEF PlaceOK, BootPc, InstPc, UpPc, RemPc
    <3> QED BY <1>2, <1>4, <3>1, <3>2 DEF StageBinary
  <2> QED BY <1>4, <2>1, <2>2 DEF StageBinary, TypeOK, FilesOK
<1>5. ASSUME NEW b \in Binaries, ReplaceBinary(b)
      PROVE  TypeOK'
  <2>1. /\ b \in op.need /\ op.pc = "replace"
        /\ \A c \in op.need : binNew[c] = op.rel
    BY <1>5, TypeParts DEF ReplaceBinary, At, PlaceOK
  <2>2. /\ binNew' \in [Binaries -> Releases \cup {None}]
        /\ bin' \in [Binaries -> Releases \cup {None}] /\ faults' \in Nat
        /\ \A c \in Binaries \ {b} : binNew'[c] = binNew[c]
    <3>1. /\ binNew' = [binNew EXCEPT ![b] = None]
          /\ faults' = faults \/ faults' = faults + 1
      BY <1>5 DEF ReplaceBinary, Fault
    <3>2. bin' = bin \/ bin' = [bin EXCEPT ![b] = binNew[b]]
      BY <1>5 DEF ReplaceBinary
    <3>3. binNew[b] \in Releases
      BY <1>1, <2>1
    <3> QED BY <3>1, <3>2, <3>3, TypeParts DEF FilesOK
  <2>3. op' \in OpRec /\ PlaceOK'
    <3>1. CASE op' = [op EXCEPT !.need = @ \ {b}, !.replaced = TRUE]
      <4>1. op' = [op EXCEPT !.need = op.need \ {b}, !.replaced = TRUE]
        BY <3>1, TypeParts DEF OpRec
      <4>2. /\ op' \in OpRec /\ op'.pc = "replace" /\ op'.cmd = op.cmd
            /\ op'.rel = op.rel /\ op'.need = op.need \ {b}
        BY <2>1, <4>1, TypeParts DEF OpRec
      <4>3. \A c \in op'.need : binNew'[c] = op'.rel
        BY <2>1, <2>2, <4>2, TypeParts
      <4> QED BY <1>1, <4>2, <4>3 DEF PlaceOK, BootPc, InstPc, UpPc, RemPc
    <3> QED BY <1>2, <1>5, <3>1 DEF ReplaceBinary
  <2> QED BY <1>5, <2>2, <2>3 DEF ReplaceBinary, TypeOK, FilesOK
<1>6. CASE UpgradeBinariesDone
  <2>1. op' \in OpRec /\ PlaceOK'
    <3>1. Goto("reloadBinary") \/ Goto("next")
             => /\ op' \in OpRec /\ op'.pc \in {"reloadBinary", "next"}
                /\ op'.cmd = op.cmd /\ op'.rel = op.rel
      BY GotoFields, TypeParts DEF Label, UpPc
    <3> QED BY <1>1, <1>2, <1>6, <3>1
            DEF UpgradeBinariesDone, PlaceOK, BootPc, InstPc, UpPc, RemPc
  <2> QED BY <1>6, <2>1 DEF UpgradeBinariesDone, TypeOK, FilesOK, disk
<1>7. CASE UpgradeNext
  <2>1. ASSUME NEW i \in op.todo,
               op' = [op EXCEPT !.pc = "load", !.id = i, !.todo = @ \ {i}, !.staged = FALSE]
        PROVE  op' \in OpRec /\ PlaceOK'
    <3>1. op' = [op EXCEPT !.pc = "load", !.id = i, !.todo = op.todo \ {i}, !.staged = FALSE]
      BY <2>1, TypeParts DEF OpRec
    <3>2. i \in Ids
      BY TypeParts
    <3>3. /\ op' \in OpRec /\ op'.pc = "load" /\ op'.cmd = op.cmd
          /\ op'.rel = op.rel /\ op'.id = i
      BY <3>1, <3>2, TypeParts DEF OpRec, Label, InstPc
    <3> QED BY <1>1, <3>2, <3>3 DEF PlaceOK, BootPc, InstPc, UpPc, RemPc
  <2>2. op' \in OpRec /\ PlaceOK'
    BY <1>2, <1>7, <2>1 DEF UpgradeNext
  <2> QED BY <1>7, <2>2 DEF UpgradeNext, TypeOK, FilesOK, disk
<1> QED BY <1>3, <1>4, <1>5, <1>6, <1>7

LEMMA RemoveTypes ==
    ASSUME TypeOK, RemoveLoad \/ RemoveRootfs \/ RemoveKernel
    PROVE  TypeOK'
<1>1. op.pc \in RemPc /\ op.cmd = "remove" /\ op.id \in Ids
  BY TypeParts DEF RemoveLoad, RemoveRootfs, RemoveKernel, At, PlaceOK, RemPc
<1>2. Fails \/ (\E r \in {"ok", "failed", "current"} : End(r))
         => op' \in OpRec /\ PlaceOK'
  BY Ends, NowhereOK DEF TypeOK
<1>3. \A l \in {"removeKernel", "reload"} : Goto(l) => op' \in OpRec /\ PlaceOK'
  <2>1. \A l \in {"removeKernel", "reload"} : Goto(l)
           => /\ op' \in OpRec /\ op'.pc = l /\ op'.cmd = op.cmd
              /\ op'.rel = op.rel /\ op'.id = op.id
    BY GotoFields, TypeParts DEF Label, RemPc
  <2> QED BY <1>1, <2>1 DEF PlaceOK, BootPc, InstPc, UpPc, RemPc
<1>4. CASE RemoveLoad
  <2>1. CASE op' = [op EXCEPT !.pc = "save", !.doc = [config EXCEPT !.images[op.id] = None]]
    <3>1. [config EXCEPT !.images[op.id] = None] \in ConfigRec
      BY <1>1, TypeParts DEF ConfigRec, Images
    <3>2. /\ op' \in OpRec /\ op'.pc = "save" /\ op'.cmd = op.cmd
          /\ op'.rel = op.rel /\ op'.id = op.id
      BY <2>1, <3>1, TypeParts DEF OpRec, Label
    <3>3. PlaceOK'
      BY <1>1, <3>2 DEF PlaceOK, BootPc, InstPc, UpPc, RemPc
    <3> QED BY <1>4, <3>2, <3>3 DEF RemoveLoad, TypeOK, FilesOK, disk
  <2> QED BY <1>2, <1>4, <2>1 DEF RemoveLoad, TypeOK, FilesOK, disk
<1>5. CASE RemoveRootfs
  <2>1. /\ rootfs' \in [Ids -> Releases \cup {None}] /\ daemon' \in DaemonRec
        /\ faults' \in Nat
    <3>1. faults' \in Nat /\ (daemon' = daemon \/ daemon' = Restamped(op.id))
      BY <1>5, TypeParts DEF RemoveRootfs, Fault
    <3>2. rootfs' \in [Ids -> Releases \cup {None}]
      BY <1>5, TypeParts DEF RemoveRootfs, FilesOK
    <3> QED BY <1>1, <3>1, <3>2, TypeParts, RestampedFields
  <2>2. op' \in OpRec /\ PlaceOK'
    BY <1>2, <1>3, <1>5 DEF RemoveRootfs
  <2> QED BY <1>5, <2>1, <2>2 DEF RemoveRootfs, TypeOK, FilesOK
<1>6. CASE RemoveKernel
  <2>1. kernel' \in Kernels \cup {None} /\ daemon' \in DaemonRec /\ faults' \in Nat
    BY <1>6, TypeParts, RestampedAllFields DEF RemoveKernel, Fault, FilesOK
  <2>2. op' \in OpRec /\ PlaceOK'
    BY <1>2, <1>3, <1>6 DEF RemoveKernel
  <2> QED BY <1>6, <2>1, <2>2 DEF RemoveKernel, TypeOK, FilesOK
<1> QED BY <1>4, <1>5, <1>6

LEMMA TypeNext == ASSUME TypeOK, [Next]_vars PROVE TypeOK'
BY ServeTypes, BeginTypes, BootstrapTypes, InstallTypes, UpgradeTypes, RemoveTypes
   DEF Next, BootstrapStep, InstallStep, UpgradeStep, RemoveStep

LEMMA TypeInit == ASSUME Init PROVE TypeOK
<1>1. op \in OpRec /\ op.pc = "idle" /\ commands = 0 /\ faults = 0
  BY IdleType DEF Init
<1>2. PlaceOK
  BY <1>1 DEF PlaceOK, BootPc, InstPc, UpPc, RemPc
<1>3. CASE EmptyMachine
  <2>1. FilesOK /\ config \in ConfigRec
    BY <1>3, NoConfigType DEF EmptyMachine, FilesOK
  <2> QED BY <1>1, <1>2, <1>3, <2>1, StartedType DEF EmptyMachine, TypeOK
<1>4. ASSUME NEW r \in Releases, NEW S \in SUBSET Published[r], HostWith(r, S)
      PROVE  TypeOK
  <2>1. FilesOK
    BY <1>4, HashTypes DEF HostWith, FilesOK
  <2>2. config \in ConfigRec
    BY <1>4, HashTypes DEF HostWith, ConfigRec, Images
  <2> QED BY <1>1, <1>2, <1>4, <2>1, <2>2, StartedType DEF HostWith, TypeOK
<1> QED BY <1>3, <1>4 DEF Init

\* Whatever fails or is killed, the commands keep the files, the configuration
\* and their own memory well typed, each command at places of its own, and
\* rename nothing that was not verified.
THEOREM TypesHold == Spec => []TypeOK
<1>1. Init => TypeOK
  BY TypeInit
<1>2. TypeOK /\ [Next]_vars => TypeOK'
  BY TypeNext
<1> QED BY <1>1, <1>2, PTL DEF Spec

----------------------------------------------------------------------------
(* The catalog.                                                            *)

\* A record whose stamps are those of the files in place says the truth about
\* them once it is complete, and until then has read the kernel in place.
RecordTrue(i) ==
    daemon.record[i].fresh =>
        /\ daemon.record[i].phase = "idle" /\ Present(i) =>
              daemon.record[i].valid = (InPlace(i) = daemon.images[i])
        /\ daemon.record[i].phase = "rootfs" => daemon.record[i].seen = kernel
RecordsTrue == \A i \in Ids : RecordTrue(i)

\* Who changes the files in place tells the records, and who changes the
\* records leaves the files.
LEMMA FileSteps ==
    ASSUME TypeOK, [Next]_vars
    PROVE  \/ UNCHANGED <<kernel, rootfs, daemon>>
           \/ UNCHANGED <<kernel, rootfs>> /\ daemon' \in {Started, Down}
           \/ Catalog
           \/ daemon' = RestampedAll
           \/ /\ op.id \in Ids /\ daemon' = Restamped(op.id) /\ kernel' = kernel
              /\ \A j \in Ids \ {op.id} : rootfs'[j] = rootfs[j]
<1>1. CASE DaemonStarts \/ Save(AfterSave) \/ Reload \/ Kill \/ UNCHANGED vars
  BY <1>1 DEF DaemonStarts, Save, Reload, Restart, Kill, vars, disk
<1>2. CASE BootstrapStep
  BY <1>2 DEF BootstrapStep, Bootstrap, Command, BootstrapBinary,
              BootstrapSettings, WriteCert, WriteKey, WriteInPlace, BootstrapStart, disk
<1>3. CASE UpgradeStep
  BY <1>3 DEF UpgradeStep, Upgrade, Command, UpgradePlan, StageBinary,
              ReplaceBinary, UpgradeBinariesDone, UpgradeNext, disk
<1>4. CASE \/ \E r \in Releases, i \in Ids : Install(r, i)
           \/ InstallLoad \/ FetchKernel \/ FetchRootfs \/ VerifyDigest \/ RenameKernel
  BY <1>4 DEF Install, Command, InstallLoad, FetchKernel, FetchRootfs, VerifyDigest,
              RenameKernel, disk
<1>5. CASE RenameRootfs \/ RemoveRootfs
  <2>1. op.id \in Ids
    BY <1>5, TypeParts DEF RenameRootfs, RemoveRootfs, At, PlaceOK, InstPc, RemPc
  <2>2. \/ rootfs' = rootfs /\ daemon' = daemon
        \/ /\ daemon' = Restamped(op.id)
           /\ rootfs' \in {[rootfs EXCEPT ![op.id] = rootfsNew[op.id]],
                           [rootfs EXCEPT ![op.id] = None]}
    BY <1>5 DEF RenameRootfs, RemoveRootfs
  <2>3. kernel' = kernel
    BY <1>5 DEF RenameRootfs, RemoveRootfs
  <2> QED BY <2>1, <2>2, <2>3, TypeParts DEF FilesOK
<1>6. CASE (\E i \in Ids : Remove(i)) \/ RemoveLoad \/ RemoveKernel
  BY <1>6 DEF Remove, Command, RemoveLoad, RemoveKernel, disk
<1> QED BY <1>1, <1>2, <1>3, <1>4, <1>5, <1>6 DEF Next, InstallStep, RemoveStep

LEMMA RecordsNext == ASSUME TypeOK, RecordsTrue, [Next]_vars PROVE RecordsTrue'
<1> SUFFICES ASSUME NEW j \in Ids PROVE RecordTrue(j)'
  BY DEF RecordsTrue
<1>1. RecordTrue(j)
  BY DEF RecordsTrue
<1>2. CASE UNCHANGED <<kernel, rootfs, daemon>>
  BY <1>1, <1>2 DEF RecordTrue, Present, InPlace
<1>3. CASE daemon' \in {Started, Down}
  <2>1. daemon'.record[j].fresh = FALSE
    BY <1>3, StartedType, TypeParts DEF NoRecord
  <2> QED BY <2>1 DEF RecordTrue
<1>4. CASE daemon' = RestampedAll
  BY <1>4, RestampedAllFields, TypeParts DEF RecordTrue
<1>5. CASE /\ op.id \in Ids /\ daemon' = Restamped(op.id) /\ kernel' = kernel
           /\ \A k \in Ids \ {op.id} : rootfs'[k] = rootfs[k]
  <2>1. CASE j = op.id
    BY <1>5, <2>1, RestampedFields, TypeParts DEF RecordTrue
  <2>2. CASE j # op.id
    <3>1. daemon'.record[j] = daemon.record[j] /\ daemon'.images = daemon.images
      BY <1>5, <2>2, RestampedFields, TypeParts
    <3> QED BY <1>1, <1>5, <2>2, <3>1 DEF RecordTrue, Present, InPlace
  <2> QED BY <2>1, <2>2
<1>6. CASE Catalog
  <2>1. PICK i \in Ids : Verify(i) \/ DigestKernel(i) \/ DigestRootfs(i)
    BY <1>6 DEF Catalog
  <2>2. UNCHANGED <<kernel, rootfs>>
    BY <2>1, CatalogSteps DEF disk
  <2>3. PICK r \in Record :
           /\ daemon' = [daemon EXCEPT !.record[i] = r]
           /\ \/ /\ Verify(i) /\ r.fresh /\ r.phase \in {"kernel", "idle"}
                 /\ r.phase = "idle" => ~Present(i)
              \/ /\ DigestKernel(i) /\ r.fresh = daemon.record[i].fresh
                 /\ r.phase = IF kernel = None THEN "idle" ELSE "rootfs"
                 /\ r.seen = kernel
              \/ /\ DigestRootfs(i) /\ r.fresh = daemon.record[i].fresh
                 /\ daemon.record[i].phase = "rootfs" /\ r.phase = "idle"
                 /\ r.valid = (<<daemon.record[i].seen, rootfs[i]>> = daemon.images[i])
    BY <2>1, CatalogSteps
  <2>4. /\ daemon'.images = daemon.images /\ daemon'.record[i] = r
        /\ i # j => daemon'.record[j] = daemon.record[j]
    BY <2>3, RecordFields, TypeParts
  <2>5. CASE i # j
    BY <1>1, <2>2, <2>4, <2>5 DEF RecordTrue, Present, InPlace
  <2>6. CASE i = j
    <3> SUFFICES ASSUME r.fresh
                 PROVE  /\ r.phase = "idle" /\ Present(j) =>
                              r.valid = (InPlace(j) = daemon.images[j])
                        /\ r.phase = "rootfs" => r.seen = kernel
      BY <2>2, <2>4, <2>6 DEF RecordTrue, Present, InPlace
    <3>1. CASE Verify(i) /\ r.phase \in {"kernel", "idle"} /\ (r.phase = "idle" => ~Present(i))
      BY <2>6, <3>1
    <3>2. CASE /\ r.phase = IF kernel = None THEN "idle" ELSE "rootfs"
               /\ r.seen = kernel
      BY <2>6, <3>2 DEF Present
    <3>3. CASE /\ r.fresh = daemon.record[i].fresh
               /\ daemon.record[i].phase = "rootfs" /\ r.phase = "idle"
               /\ r.valid = (<<daemon.record[i].seen, rootfs[i]>> = daemon.images[i])
      <4>1. daemon.record[i].seen = kernel
        BY <1>1, <2>6, <3>3 DEF RecordTrue
      <4> QED BY <2>6, <3>3, <4>1 DEF InPlace
    <3> QED BY <2>3, <3>1, <3>2, <3>3
  <2> QED BY <2>5, <2>6
<1> QED BY <1>2, <1>3, <1>4, <1>5, <1>6, FileSteps

\* What the catalog answers without hashing again is what hashing would
\* answer, however the commands replace the files while it stamps and reads
\* them.
THEOREM CatalogIsRight == Spec => []CatalogTellsTruth
<1>1. Init => RecordsTrue
  <2> SUFFICES ASSUME Init, NEW i \in Ids PROVE RecordTrue(i)
    BY DEF RecordsTrue
  <2>1. daemon \in {Started, Down} /\ TypeOK
    BY TypeInit DEF Init, EmptyMachine, HostWith
  <2>2. daemon.record[i].fresh = FALSE
    BY <2>1, StartedType, TypeParts DEF NoRecord
  <2> QED BY <2>2 DEF RecordTrue
<1>2. TypeOK /\ RecordsTrue /\ [Next]_vars => RecordsTrue'
  BY RecordsNext
<1>3. RecordsTrue => CatalogTellsTruth
  BY DEF RecordsTrue, RecordTrue, CatalogTellsTruth, Cached
<1> QED BY <1>1, <1>2, <1>3, TypesHold, PTL DEF Spec

----------------------------------------------------------------------------
(* Files and configuration.                                                *)

\* What a command remembers agrees with the files and the configuration, which
\* no other command changes meanwhile.
DocOK ==
    /\ op.pc \in {"kernel", "rootfs", "verify", "renameKernel", "renameRootfs"}
          => op.doc = config
    /\ op.pc \in {"load", "kernel"} => ~op.staged
    /\ op.pc \in {"rootfs", "verify", "renameKernel"} /\ op.staged => kernel = None
    /\ op.pc = "renameKernel" => op.staged
    /\ op.pc \in {"cert", "key", "save"} /\ op.cmd = "bootstrap"
          => op.doc.images = config.images
    /\ op.pc = "save" /\ op.cmd \in {"install", "upgrade"}
          => /\ InPlace(op.id) = HashOf(op.rel)
             /\ op.doc.images = [config.images EXCEPT ![op.id] = HashOf(op.rel)]
    /\ op.pc = "save" /\ op.cmd = "remove"
          => op.doc.images = [config.images EXCEPT ![op.id] = None]
    /\ op.pc \in {"removeRootfs", "removeKernel"}
          => config.images = op.doc.images /\ config.images[op.id] = None
    /\ op.pc = "removeKernel" => Installed(config) = {}
    /\ op.pc = "reload" /\ op.cmd \in {"install", "upgrade"}
          => config.images[op.id] = HashOf(op.rel) /\ InPlace(op.id) = HashOf(op.rel)

\* The places at which a command relies on nothing that it remembers.
FreePc == {"idle", "binary", "plan", "load", "removeLoad", "settings", "start",
           "stage", "replace", "reloadBinary", "next"}

FreePlace == op.pc \in FreePc /\ (op.pc = "load" => ~op.staged)

LEMMA FreeDoc == FreePlace' => DocOK'
BY DEF DocOK, FreePlace, FreePc

\* The steps that lead to such a place, or leave command and files alone.
LEMMA FreeSteps ==
    ASSUME TypeOK, [Next]_vars
    PROVE  \/ FreePlace'
           \/ UNCHANGED <<op, kernel, rootfs, config>>
           \/ \E insecure \in BOOLEAN : BootstrapSettings(insecure)
           \/ WriteCert \/ WriteKey
           \/ InstallLoad \/ FetchKernel \/ FetchRootfs \/ VerifyDigest
           \/ RenameKernel \/ RenameRootfs
           \/ RemoveLoad \/ RemoveRootfs \/ RemoveKernel
           \/ Save(AfterSave)
<1>1. Fails \/ (\E r \in {"ok", "failed", "current"} : End(r)) => FreePlace'
  BY Ends DEF TypeOK, FreePlace, FreePc
<1>2. \A l \in FreePc \ {"load"} : Goto(l) => FreePlace'
  BY TypeParts DEF Goto, OpRec, FreePlace
<1>3. CASE DaemonStarts \/ Catalog \/ UNCHANGED vars
  BY <1>3 DEF DaemonStarts, Catalog, Verify, DigestKernel, DigestRootfs, vars, disk
<1>4. CASE Kill \/ Reload \/ BootstrapBinary \/ BootstrapStart
  BY <1>1, <1>2, <1>4 DEF Kill, Reload, BootstrapBinary, BootstrapStart, FreePc
<1>5. \A c, r, i : \A l \in FreePc : Command(c, r, i, l) => FreePlace'
  BY IdleType DEF Command, OpRec, FreePlace
<1>6. CASE \/ \E r \in Releases : Bootstrap(r) \/ Upgrade(r)
           \/ \E r \in Releases, i \in Ids : Install(r, i)
           \/ \E i \in Ids : Remove(i)
  BY <1>5, <1>6 DEF Bootstrap, Upgrade, Install, Remove, FreePc
<1>7. CASE UpgradePlan
  <2>1. op' = [op EXCEPT !.pc = "stage", !.todo = Installed(config),
                         !.need = {b \in Binaries : ~FileMatches(b)}] => op'.pc = "stage"
    BY TypeParts DEF OpRec
  <2> QED BY <1>1, <1>7, <2>1 DEF UpgradePlan, FreePlace, FreePc
<1>8. CASE StageBinary
  <2>1. UNCHANGED op => FreePlace'
    BY <1>8 DEF StageBinary, At, FreePlace, FreePc
  <2> QED BY <1>1, <1>2, <1>8, <2>1 DEF StageBinary, FreePc
<1>9. ASSUME NEW b \in Binaries, ReplaceBinary(b)
      PROVE  FreePlace'
  <2>1. op.pc = "replace"
    BY <1>9 DEF ReplaceBinary, At
  <2>2. op' = [op EXCEPT !.need = @ \ {b}, !.replaced = TRUE] => op'.pc = op.pc
    BY TypeParts DEF OpRec
  <2> QED BY <1>1, <1>9, <2>1, <2>2 DEF ReplaceBinary, FreePlace, FreePc
<1>10. CASE UpgradeBinariesDone \/ UpgradeNext
  <2>1. ASSUME NEW i \in op.todo,
               op' = [op EXCEPT !.pc = "load", !.id = i, !.todo = @ \ {i}, !.staged = FALSE]
        PROVE  FreePlace'
    BY <2>1, TypeParts DEF OpRec, FreePlace, FreePc
  <2> QED BY <1>1, <1>2, <1>10, <2>1 DEF UpgradeBinariesDone, UpgradeNext, FreePc
<1> QED BY <1>3, <1>4, <1>6, <1>7, <1>8, <1>9, <1>10
        DEF Next, BootstrapStep, InstallStep, UpgradeStep, RemoveStep

LEMMA InstallDoc ==
    ASSUME TypeOK, DocOK, TypeOK',
           \/ InstallLoad \/ FetchKernel \/ FetchRootfs \/ VerifyDigest
           \/ RenameKernel \/ RenameRootfs
    PROVE  DocOK'
<1>1. /\ op.pc \in InstPc /\ op.cmd \in {"install", "upgrade"}
      /\ op.rel \in Releases /\ op.id \in Ids /\ op \in OpRec
  BY TypeParts DEF InstallLoad, FetchKernel, FetchRootfs, VerifyDigest,
                   RenameKernel, RenameRootfs, At, PlaceOK, InstPc
<1>2. Fails \/ (\E r \in {"ok", "failed", "current"} : End(r)) => DocOK'
  BY Ends, FreeDoc DEF TypeOK, FreePlace, FreePc
<1>3. CASE InstallLoad
  <2>1. CASE op' = [op EXCEPT !.pc = "kernel", !.doc = config]
    <3>1. /\ op'.pc = "kernel" /\ op'.doc = config /\ config' = config
          /\ op'.staged = op.staged /\ ~op.staged
      BY <1>1, <1>3, <2>1 DEF OpRec, InstallLoad, At, DocOK
    <3> QED BY <3>1 DEF DocOK
  <2> QED BY <1>2, <1>3, <2>1 DEF InstallLoad
<1>4. CASE FetchKernel
  <2>1. op.doc = config /\ config' = config /\ kernel' = kernel /\ ~op.staged
    BY <1>4 DEF FetchKernel, At, DocOK
  <2>2. CASE Goto("rootfs") /\ kernel # None
    <3>1. /\ op'.pc = "rootfs" /\ op'.doc = op.doc /\ op'.staged = op.staged
      BY <1>1, <2>2, GotoFields DEF Label, InstPc
    <3> QED BY <2>1, <3>1 DEF DocOK
  <2>3. CASE kernel = None /\ op' = [op EXCEPT !.pc = "rootfs", !.staged = TRUE,
                                               !.trouble = @ \/ kernelNew' = Bad]
    <3>1. op'.pc = "rootfs" /\ op'.doc = op.doc
      BY <1>1, <2>3 DEF OpRec
    <3> QED BY <2>1, <2>3, <3>1 DEF DocOK
  <2> QED BY <1>2, <1>4, <2>2, <2>3 DEF FetchKernel
<1>5. CASE FetchRootfs
  <2>1. op.doc = config /\ config' = config /\ kernel' = kernel
    BY <1>5 DEF FetchRootfs, At, DocOK
  <2>2. ASSUME NEW c, op' = [op EXCEPT !.pc = "verify", !.trouble = @ \/ c = Bad]
        PROVE  DocOK'
    <3>1. op'.pc = "verify" /\ op'.doc = op.doc /\ op'.staged = op.staged
      BY <1>1, <2>2 DEF OpRec
    <3>2. op.staged => kernel = None
      BY <1>5 DEF FetchRootfs, At, DocOK
    <3> QED BY <2>1, <3>1, <3>2 DEF DocOK
  <2> QED BY <1>2, <1>5, <2>2 DEF FetchRootfs
<1>6. CASE VerifyDigest
  <2>1. /\ op.doc = config /\ config' = config /\ kernel' = kernel
        /\ op.staged => kernel = None
    BY <1>6 DEF VerifyDigest, At, DocOK
  <2>2. CASE Goto(IF op.staged THEN "renameKernel" ELSE "renameRootfs")
    <3>1. /\ op'.pc = IF op.staged THEN "renameKernel" ELSE "renameRootfs"
          /\ op'.doc = op.doc /\ op'.staged = op.staged
      BY <1>1, <2>2, GotoFields DEF Label, InstPc
    <3> QED BY <2>1, <3>1 DEF DocOK
  <2> QED BY <1>2, <1>6, <2>2 DEF VerifyDigest
<1>7. CASE RenameKernel
  <2>1. op.doc = config /\ config' = config
    BY <1>7 DEF RenameKernel, At, DocOK
  <2>2. CASE Goto("renameRootfs")
    <3>1. op'.pc = "renameRootfs" /\ op'.doc = op.doc
      BY <1>1, <2>2, GotoFields DEF Label, InstPc
    <3> QED BY <2>1, <3>1 DEF DocOK
  <2> QED BY <1>2, <1>7, <2>2 DEF RenameKernel
<1>8. CASE RenameRootfs
  <2>1. /\ op.doc = config /\ config' = config /\ kernel' = kernel
        /\ <<kernel, rootfsNew[op.id]>> = HashOf(op.rel)
    BY <1>8, TypeParts DEF RenameRootfs, At, DocOK, PlaceOK
  <2>2. CASE /\ rootfs' = [rootfs EXCEPT ![op.id] = rootfsNew[op.id]]
             /\ op' = [op EXCEPT !.pc = "save", !.doc = UpsertImage(op.doc)]
    <3>1. /\ op'.pc = "save" /\ op'.doc = UpsertImage(op.doc) /\ op'.cmd = op.cmd
          /\ op'.id = op.id /\ op'.rel = op.rel
      BY <1>1, <2>2 DEF OpRec
    <3>2. op'.doc.images = [config.images EXCEPT ![op.id] = HashOf(op.rel)]
      BY <2>1, <3>1, TypeParts DEF UpsertImage, ConfigRec
    <3>3. rootfs'[op.id] = rootfsNew[op.id]
      BY <1>1, <2>2, TypeParts DEF FilesOK
    <3> QED BY <1>1, <2>1, <3>1, <3>2, <3>3 DEF DocOK, InPlace, HashOf
  <2> QED BY <1>2, <1>8, <2>2 DEF RenameRootfs
<1> QED BY <1>3, <1>4, <1>5, <1>6, <1>7, <1>8

LEMMA BootstrapDoc ==
    ASSUME TypeOK, DocOK,
           (\E insecure \in BOOLEAN : BootstrapSettings(insecure)) \/ WriteCert \/ WriteKey
    PROVE  DocOK'
<1>1. op \in OpRec /\ config \in ConfigRec /\ op.pc \in BootPc /\ op.cmd = "bootstrap"
  BY TypeParts DEF BootstrapSettings, WriteCert, WriteKey, WriteInPlace, At, PlaceOK, BootPc
<1>2. config' = config
  BY DEF BootstrapSettings, WriteCert, WriteKey, WriteInPlace
<1>3. ASSUME NEW insecure \in BOOLEAN, BootstrapSettings(insecure)
      PROVE  DocOK'
  <2> DEFINE tls == KeepsPair(config) \/ ~insecure
             doc == [config EXCEPT !.exists = TRUE, !.tls = tls]
             l == IF tls /\ ~HasPair THEN "cert" ELSE "save"
  <2>1. op' = [op EXCEPT !.doc = doc, !.pc = l]
    BY <1>3 DEF BootstrapSettings
  <2>2. doc.images = config.images
    BY <1>1 DEF ConfigRec
  <2>3. l \in {"cert", "save"}
    OBVIOUS
  <2> HIDE DEF doc, l
  <2>4. op'.pc = l /\ op'.doc = doc /\ op'.cmd = op.cmd
    BY <1>1, <2>1 DEF OpRec
  <2> QED BY <1>1, <1>2, <2>2, <2>3, <2>4 DEF DocOK
<1>4. CASE WriteCert \/ WriteKey
  <2>1. op.doc.images = config.images
    BY <1>1, <1>4 DEF WriteCert, WriteKey, WriteInPlace, At, DocOK
  <2>2. CASE Fails
    BY <2>2, Ends, FreeDoc, TypeParts DEF FreePlace, FreePc
  <2>3. CASE Goto("key") \/ Goto("save")
    <3>1. op'.pc \in {"key", "save"} /\ op'.cmd = op.cmd /\ op'.doc = op.doc
      BY <1>1, <2>3, GotoFields DEF Label, BootPc
    <3> QED BY <1>1, <1>2, <2>1, <3>1 DEF DocOK
  <2> QED BY <1>4, <2>2, <2>3 DEF WriteCert, WriteKey, WriteInPlace
<1> QED BY <1>3, <1>4

LEMMA RemoveDoc ==
    ASSUME TypeOK, DocOK, RemoveLoad \/ RemoveRootfs \/ RemoveKernel
    PROVE  DocOK'
<1>1. op \in OpRec /\ config \in ConfigRec /\ op.cmd = "remove" /\ op.id \in Ids
  BY TypeParts DEF RemoveLoad, RemoveRootfs, RemoveKernel, At, PlaceOK, RemPc
<1>2. config' = config
  BY DEF RemoveLoad, RemoveRootfs, RemoveKernel
<1>3. Fails \/ (\E r \in {"ok", "failed", "current"} : End(r)) => DocOK'
  BY Ends, FreeDoc, TypeParts DEF FreePlace, FreePc
<1>4. CASE RemoveLoad
  <2>1. CASE op' = [op EXCEPT !.pc = "save", !.doc = [config EXCEPT !.images[op.id] = None]]
    <3> DEFINE doc == [config EXCEPT !.images[op.id] = None]
    <3>1. doc.images = [config.images EXCEPT ![op.id] = None]
      BY <1>1 DEF ConfigRec
    <3> HIDE DEF doc
    <3>2. op'.pc = "save" /\ op'.doc = doc /\ op'.cmd = op.cmd /\ op'.id = op.id
      BY <1>1, <2>1 DEF OpRec, doc
    <3> QED BY <1>1, <1>2, <3>1, <3>2 DEF DocOK
  <2> QED BY <1>3, <1>4, <2>1 DEF RemoveLoad
<1>5. CASE RemoveRootfs
  <2>1. config.images = op.doc.images /\ config.images[op.id] = None
    BY <1>5 DEF RemoveRootfs, At, DocOK
  <2>2. CASE Goto(IF KernelStillUsed(op.doc) THEN "reload" ELSE "removeKernel")
    <3>1. /\ op'.pc = IF KernelStillUsed(op.doc) THEN "reload" ELSE "removeKernel"
          /\ op'.doc = op.doc /\ op'.cmd = op.cmd /\ op'.id = op.id
      BY <1>1, <2>2, GotoFields DEF Label, RemPc
    <3>2. ~KernelStillUsed(op.doc) => Installed(config) = {}
      BY <2>1 DEF KernelStillUsed, Installed
    <3>3. ~KernelStillUsed(op.doc) => Installed(config') = {}
      BY <3>2, <1>2
    <3> QED BY <1>1, <1>2, <2>1, <3>1, <3>3 DEF DocOK
  <2> QED BY <1>3, <1>5, <2>2 DEF RemoveRootfs
<1>6. CASE RemoveKernel
  <2>1. CASE Goto("reload")
    <3>1. op'.pc = "reload" /\ op'.cmd = op.cmd
      BY <1>1, <2>1, GotoFields DEF Label
    <3> QED BY <1>1, <3>1 DEF DocOK
  <2> QED BY <1>3, <1>6, <2>1 DEF RemoveKernel
<1> QED BY <1>4, <1>5, <1>6

LEMMA SaveDoc ==
    ASSUME TypeOK, DocOK, Save(AfterSave)
    PROVE  DocOK'
<1>1. /\ op \in OpRec /\ config.images \in Images /\ op.pc = "save"
      /\ op.cmd \in {"bootstrap", "install", "upgrade", "remove"}
      /\ op.cmd # "bootstrap" => op.id \in Ids
  BY TypeParts DEF Save, At, PlaceOK, OpRec, Cmd
<1>2. CASE Fails
  BY <1>2, Ends, FreeDoc, TypeParts DEF FreePlace, FreePc
<1>3. CASE config' = op.doc /\ Goto(AfterSave[op.cmd])
  <2>1. /\ AfterSave[op.cmd] \in Label
        /\ AfterSave[op.cmd] = IF op.cmd = "bootstrap" THEN "start"
                               ELSE IF op.cmd = "remove" THEN "removeRootfs" ELSE "reload"
    BY <1>1 DEF AfterSave, Label, BootPc, RemPc
  <2>2. /\ op'.pc = AfterSave[op.cmd] /\ op'.cmd = op.cmd /\ op'.rel = op.rel
        /\ op'.id = op.id /\ op'.doc = op.doc
    BY <1>1, <1>3, <2>1, GotoFields
  <2>3. UNCHANGED <<kernel, rootfs>>
    BY DEF Save, disk
  <2>4. CASE op.cmd = "bootstrap"
    BY <2>1, <2>2, <2>4, FreeDoc DEF FreePlace, FreePc
  <2>5. CASE op.cmd = "remove"
    <3>1. op.doc.images[op.id] = None
      BY <1>1, <2>5 DEF DocOK, Images
    <3> QED BY <1>1, <1>3, <2>1, <2>2, <2>5, <3>1 DEF DocOK
  <2>6. CASE op.cmd \in {"install", "upgrade"}
    <3>1. op.doc.images[op.id] = HashOf(op.rel) /\ InPlace(op.id) = HashOf(op.rel)
      BY <1>1, <2>6 DEF DocOK, Images
    <3> QED BY <1>1, <1>3, <2>1, <2>2, <2>3, <2>6, <3>1 DEF DocOK, InPlace, HashOf
  <2> QED BY <1>1, <2>4, <2>5, <2>6
<1> QED BY <1>2, <1>3 DEF Save

LEMMA DocNext == ASSUME TypeOK, DocOK, TypeOK', [Next]_vars PROVE DocOK'
<1>1. CASE UNCHANGED <<op, kernel, rootfs, config>>
  BY <1>1 DEF DocOK, InPlace, Installed, HashOf
<1> QED BY <1>1, FreeSteps, FreeDoc, InstallDoc, BootstrapDoc, RemoveDoc, SaveDoc

LEMMA DocAlways == Spec => []DocOK
<1>1. Init => DocOK
  BY IdleType DEF Init, DocOK
<1>2. TypeOK /\ TypeOK' /\ DocOK /\ [Next]_vars => DocOK'
  BY DocNext
<1> QED BY <1>1, <1>2, TypesHold, PTL DEF Spec

\* The only steps that change the files in place or the configuration.
LEMMA WhoChangesFiles ==
    ASSUME [Next]_vars
    PROVE  \/ UNCHANGED <<kernel, rootfs, config>>
           \/ RenameKernel \/ RenameRootfs \/ RemoveRootfs \/ RemoveKernel
           \/ Save(AfterSave)
<1>1. CASE DaemonStarts \/ Catalog \/ Reload \/ Kill \/ UNCHANGED vars
  BY <1>1 DEF DaemonStarts, Catalog, Verify, DigestKernel, DigestRootfs, Reload, Kill, vars, disk
<1>2. CASE BootstrapStep
  BY <1>2 DEF BootstrapStep, Bootstrap, Command, BootstrapBinary,
              BootstrapSettings, WriteCert, WriteKey, WriteInPlace, BootstrapStart, disk
<1>3. CASE UpgradeStep
  BY <1>3 DEF UpgradeStep, Upgrade, Command, UpgradePlan, StageBinary,
              ReplaceBinary, UpgradeBinariesDone, UpgradeNext, disk
<1>4. CASE InstallStep
  BY <1>4 DEF InstallStep, Install, Command, InstallLoad, FetchKernel, FetchRootfs,
              VerifyDigest, disk
<1>5. CASE RemoveStep
  BY <1>5 DEF RemoveStep, Remove, Command, RemoveLoad, disk
<1> QED BY <1>1, <1>2, <1>3, <1>4, <1>5 DEF Next

\* An image that matches has a kernel, and keeps matching while neither its
\* files nor its entry change.
LEMMA MatchesMeans ==
    ASSUME TypeOK, NEW i \in Ids, Matches(i)
    PROVE  /\ kernel # None /\ config.images[i] # None
           /\ (kernel' = kernel /\ rootfs'[i] = rootfs[i] /\ config'.images[i] = config.images[i])
                 => Matches(i)'
<1>1. PICK r \in Releases : config.images[i] = HashOf(r)
  BY TypeParts DEF Matches, Installed, Images, Hashes
<1>2. kernel # None
  BY <1>1, HashParts DEF Matches, InPlace
<1> QED BY <1>2 DEF Matches, Installed, InPlace

LEMMA MatchStep ==
    ASSUME TypeOK, DocOK, [Next]_vars, NEW i \in Ids,
           Matches(i), i \in Installed(config)', ~Matches(i)'
    PROVE  op.pc = "renameRootfs" /\ op.id = i
<1>1. kernel # None /\ config.images[i] # None
  BY MatchesMeans
<1>2. ~(kernel' = kernel /\ rootfs'[i] = rootfs[i] /\ config'.images[i] = config.images[i])
  BY MatchesMeans
<1>3. rootfs \in [Ids -> Releases \cup {None}] /\ config.images \in Images
  BY TypeParts DEF FilesOK
<1>4. CASE RenameKernel
  \* The kernel was staged because there was none.
  BY <1>1, <1>4 DEF RenameKernel, At, DocOK
<1>5. CASE RenameRootfs
  <2>1. op.id # i => rootfs'[i] = rootfs[i]
    BY <1>3, <1>5 DEF RenameRootfs
  <2> QED BY <1>2, <1>5, <2>1 DEF RenameRootfs, At
<1>6. CASE RemoveRootfs
  \* The image was taken out of the configuration first.
  <2>1. op.id # i
    BY <1>1, <1>6 DEF RemoveRootfs, At, DocOK
  <2>2. rootfs'[i] = rootfs[i]
    BY <1>3, <1>6, <2>1 DEF RemoveRootfs
  <2> QED BY <1>2, <1>6, <2>2 DEF RemoveRootfs
<1>7. CASE RemoveKernel
  \* No image was left.
  BY <1>1, <1>7 DEF RemoveKernel, At, DocOK, Installed
<1>8. CASE Save(AfterSave)
  <2>1. /\ op.pc = "save" /\ UNCHANGED <<kernel, rootfs>> /\ config' \in {config, op.doc}
        /\ op.cmd \in {"bootstrap", "install", "upgrade", "remove"}
        /\ op.cmd # "bootstrap" => op.id \in Ids
    BY <1>8, TypeParts DEF Save, At, PlaceOK, OpRec, Cmd, disk
  <2>2. config' = op.doc /\ op.doc.images[i] # config.images[i]
    BY <1>2, <2>1
  <2>3. op.doc.images[i] # None
    BY <2>2 DEF Installed
  <2>4. op.cmd \in {"install", "upgrade"} /\ op.id = i
    BY <1>3, <2>1, <2>2, <2>3 DEF DocOK, Images
  <2>5. InPlace(i) = HashOf(op.rel) /\ op.doc.images[i] = HashOf(op.rel)
    BY <1>3, <2>1, <2>4 DEF DocOK, Images
  <2>6. Matches(i)'
    BY <2>1, <2>2, <2>3, <2>5 DEF Matches, Installed, InPlace
  <2> QED BY <2>6
<1> QED BY <1>2, <1>4, <1>5, <1>6, <1>7, <1>8, WhoChangesFiles

\* No command, failure or kill breaks an image whose boot files match the
\* configuration, but the rename in an Install of that image: the shared kernel
\* is neither replaced nor removed under the others, whatever the images and
\* releases and however many faults.
THEOREM ImagesStayWhole == Spec => OnlyItsInstallBreaksAnImage
<1>1. TypeOK /\ DocOK /\ [Next]_vars
         => [\A i \in Ids : (Matches(i) /\ i \in Installed(config)' /\ ~Matches(i)')
                               => op.pc = "renameRootfs" /\ op.id = i]_vars
  BY MatchStep
<1> QED BY <1>1, TypesHold, DocAlways, PTL DEF Spec, OnlyItsInstallBreaksAnImage

----------------------------------------------------------------------------
(* What success means.                                                     *)

BinariesDone == \A b \in Binaries : bin[b] = op.rel
ImageDone(j) == config.images[j] = HashOf(op.rel) /\ InPlace(j) = HashOf(op.rel)
DaemonDone == daemon.up => daemon.images = config.images /\ daemon.bin = op.rel

\* The images that an Upgrade has yet to install, the one in hand included.
Pending == IF op.pc \in InstPc \cup {"save"} THEN op.todo \cup {op.id} ELSE op.todo

\* An Upgrade replaces the binaries, then the images one by one, and what it
\* has replaced stays: the binaries it need not replace are those of the
\* release, and after them the images that are not pending.
UpgradeOK ==
    /\ op.pc \in {"stage", "replace"}
          => op.todo = Installed(config) /\ \A b \in Binaries \ op.need : bin[b] = op.rel
    /\ op.cmd = "upgrade" /\ op.pc \in InstPc \cup {"reloadBinary", "next", "save", "reload"}
          => BinariesDone /\ \A j \in Installed(config) \ Pending : ImageDone(j)
    /\ op.pc = "next" /\ op.todo = {} => DaemonDone

SuccessInv == UpgradeOK /\ SuccessIsServed

\* Steps that lead to no claim.
LEMMA NotUpgrading ==
    ASSUME PlaceOK', op'.pc # "idle", op'.cmd # "upgrade"
    PROVE  SuccessInv'
BY DEF SuccessInv, UpgradeOK, SuccessIsServed, At, PlaceOK, UpPc

LEMMA EndsWithout ==
    ASSUME op'.pc = "idle", op'.result # "ok" \/ op'.cmd \notin {"install", "upgrade"}
    PROVE  SuccessInv'
BY DEF SuccessInv, UpgradeOK, SuccessIsServed, At, InstPc

LEMMA FailsWithout == ASSUME TypeOK, Fails PROVE SuccessInv'
BY Ends, EndsWithout, TypeParts

\* A daemon that starts by itself, is stopped or checks an image: whatever was
\* said of a running one holds.
LEMMA ServeSuccess ==
    ASSUME TypeOK, SuccessInv, DaemonStarts \/ Catalog \/ UNCHANGED vars
    PROVE  SuccessInv'
<1>1. UNCHANGED <<disk, config, op, commands, faults>>
  BY CatalogSteps DEF DaemonStarts, Catalog, vars
<1>2. UNCHANGED <<kernel, rootfs, bin, config, op>>
  BY <1>1 DEF disk
<1>3. daemon'.up => \/ /\ daemon.up /\ daemon'.images = daemon.images
                       /\ daemon'.bin = daemon.bin
                    \/ daemon'.images = config.images /\ daemon'.bin = bin["execenv"]
  <2>1. CASE DaemonStarts
    BY <2>1, StartedType, TypeParts DEF DaemonStarts
  <2>2. CASE Catalog
    BY <2>2, CatalogSteps, RecordFields, TypeParts DEF Catalog
  <2>3. CASE UNCHANGED vars
    BY <2>3 DEF vars
  <2> QED BY <2>1, <2>2, <2>3
<1>4. "execenv" \in Binaries
  BY DEF Binaries
<1>5. UpgradeOK'
  <2>1. /\ Installed(config)' = Installed(config) /\ Pending' = Pending
        /\ BinariesDone' = BinariesDone
        /\ \A j \in Ids : ImageDone(j)' = ImageDone(j)
    BY <1>2 DEF Installed, Pending, BinariesDone, ImageDone, InPlace, HashOf
  <2>2. op.pc = "next" => op.cmd = "upgrade"
    BY TypeParts DEF PlaceOK, UpPc
  <2>3. op.pc = "next" /\ op.todo = {} => DaemonDone'
    BY <1>2, <1>3, <1>4, <2>2 DEF SuccessInv, UpgradeOK, DaemonDone, BinariesDone
  <2> QED BY <1>2, <2>1, <2>3 DEF SuccessInv, UpgradeOK, Installed
<1>6. SuccessIsServed'
  <2> SUFFICES ASSUME op.pc = "idle", op.result = "ok", op.cmd \in {"install", "upgrade"}
               PROVE  SuccessIsServed'
    BY <1>2 DEF SuccessIsServed, At
  <2>1. /\ \A i \in IF op.cmd = "install" THEN {op.id} ELSE Installed(config) :
              config.images[i] = HashOf(op.rel) /\ Matches(i)
        /\ daemon.up => daemon.images = config.images
        /\ op.cmd = "upgrade" => /\ bin = [b \in Binaries |-> op.rel]
                                 /\ daemon.up => daemon.bin = op.rel
    BY DEF SuccessInv, SuccessIsServed, At
  <2>2. /\ daemon'.up => daemon'.images = config.images
        /\ op.cmd = "upgrade" => (daemon'.up => daemon'.bin = op.rel)
    BY <1>3, <1>4, <2>1
  <2> QED BY <1>2, <2>1, <2>2 DEF SuccessIsServed, Matches, Installed, InPlace, HashOf
<1> QED BY <1>5, <1>6 DEF SuccessInv

\* The fields that a step of an Install keeps.
SameRun == /\ op'.cmd = op.cmd /\ op'.rel = op.rel
           /\ op'.id = op.id /\ op'.todo = op.todo

LEMMA InstallMoves ==
    ASSUME TypeOK,
           \/ InstallLoad \/ FetchKernel \/ FetchRootfs \/ VerifyDigest
           \/ RenameKernel \/ RenameRootfs
    PROVE  /\ \/ op'.pc = "idle" /\ op'.result = "failed"
              \/ op'.pc \in InstPc \cup {"save"} /\ SameRun
           /\ op.pc \in InstPc /\ UNCHANGED <<bin, config>>
<1>1. Fails \/ End("failed") => op'.pc = "idle" /\ op'.result = "failed"
  BY Ends, TypeParts
<1>2. \A l \in InstPc : Goto(l) => op'.pc \in InstPc /\ SameRun
  BY GotoFields, TypeParts DEF Label, SameRun
<1>3. op \in OpRec
  BY TypeParts
<1>4. CASE InstallLoad
  <2>1. op' = [op EXCEPT !.pc = "kernel", !.doc = config] => op'.pc = "kernel" /\ SameRun
    BY <1>3 DEF OpRec, SameRun
  <2> QED BY <1>1, <1>4, <2>1 DEF InstallLoad, At, InstPc, disk
<1>5. CASE FetchKernel
  <2>1. op' = [op EXCEPT !.pc = "rootfs", !.staged = TRUE, !.trouble = @ \/ kernelNew' = Bad]
           => op'.pc = "rootfs" /\ SameRun
    BY <1>3 DEF OpRec, SameRun
  <2> QED BY <1>1, <1>2, <1>5, <2>1 DEF FetchKernel, At, InstPc
<1>6. CASE FetchRootfs
  <2>1. \A c : op' = [op EXCEPT !.pc = "verify", !.trouble = @ \/ c = Bad]
           => op'.pc = "verify" /\ SameRun
    BY <1>3 DEF OpRec, SameRun
  <2> QED BY <1>1, <1>6, <2>1 DEF FetchRootfs, At, InstPc
<1>7. CASE VerifyDigest
  BY <1>1, <1>2, <1>7 DEF VerifyDigest, At, InstPc
<1>8. CASE RenameKernel
  BY <1>1, <1>2, <1>8 DEF RenameKernel, At, InstPc
<1>9. CASE RenameRootfs
  <2>1. op' = [op EXCEPT !.pc = "save", !.doc = UpsertImage(op.doc)]
           => op'.pc = "save" /\ SameRun
    BY <1>3 DEF OpRec, SameRun
  <2> QED BY <1>1, <1>9, <2>1 DEF RenameRootfs, At, InstPc
<1> QED BY <1>4, <1>5, <1>6, <1>7, <1>8, <1>9

LEMMA InstallSuccess ==
    ASSUME TypeOK, TypeOK', DocOK, SuccessInv, [Next]_vars,
           \/ InstallLoad \/ FetchKernel \/ FetchRootfs \/ VerifyDigest
           \/ RenameKernel \/ RenameRootfs
    PROVE  SuccessInv'
<1>1. CASE op'.pc = "idle" /\ op'.result = "failed"
  BY <1>1, EndsWithout
<1>2. CASE op'.pc \in InstPc \cup {"save"} /\ SameRun
  <2>1. op.pc \in InstPc /\ UNCHANGED <<bin, config>>
    BY InstallMoves
  <2>2. SuccessIsServed' /\ op'.pc \notin {"idle", "stage", "replace", "next"}
    BY <1>2 DEF SuccessIsServed, At, InstPc
  <2>3. CASE op.cmd = "upgrade"
    <3>1. Pending' = Pending /\ Pending = op.todo \cup {op.id}
      BY <1>2, <2>1 DEF Pending, SameRun
    <3>2. BinariesDone' /\ \A j \in Installed(config) \ Pending : ImageDone(j)
      BY <1>2, <2>1, <2>3 DEF SuccessInv, UpgradeOK, BinariesDone, SameRun
    <3>3. op.rel \in Releases /\ op.id \in Ids /\ rootfs \in [Ids -> Releases \cup {None}]
      BY <2>1, <2>3, TypeParts DEF PlaceOK, InstPc, FilesOK
    <3>4. \A j \in Installed(config) \ Pending : ImageDone(j)'
      <4> SUFFICES ASSUME NEW j \in Installed(config) \ Pending PROVE ImageDone(j)'
        OBVIOUS
      <4>1. j \in Ids /\ j # op.id /\ ImageDone(j)
        BY <3>1, <3>2 DEF Installed
      \* An image of the release has a kernel, so none was staged.
      <4>2. kernel # None
        BY <3>3, <4>1, HashParts DEF ImageDone, InPlace
      <4>3. ~RenameKernel
        BY <4>2 DEF RenameKernel, At, DocOK
      <4>4. kernel' = kernel /\ rootfs'[j] = rootfs[j]
        <5>1. CASE RenameRootfs
          BY <3>3, <4>1, <5>1 DEF RenameRootfs
        <5>2. CASE InstallLoad \/ FetchKernel \/ FetchRootfs \/ VerifyDigest
          BY <5>2 DEF InstallLoad, FetchKernel, FetchRootfs, VerifyDigest, disk
        <5> QED BY <4>3, <5>1, <5>2
      <4> QED BY <1>2, <2>1, <4>1, <4>4 DEF ImageDone, InPlace, SameRun, HashOf
    <3>5. Installed(config)' = Installed(config)
      BY <2>1 DEF Installed
    <3> QED BY <2>2, <3>1, <3>2, <3>4, <3>5 DEF SuccessInv, UpgradeOK
  <2>4. CASE op.cmd # "upgrade"
    BY <1>2, <2>2, <2>4, NotUpgrading DEF SameRun, TypeOK
  <2> QED BY <2>3, <2>4
<1> QED BY <1>1, <1>2, InstallMoves

LEMMA SaveSuccess ==
    ASSUME TypeOK, TypeOK', DocOK, SuccessInv, Save(AfterSave)
    PROVE  SuccessInv'
<1>1. /\ op \in OpRec /\ config.images \in Images /\ op.pc = "save"
      /\ op.cmd \in {"bootstrap", "install", "upgrade", "remove"}
      /\ op.cmd # "bootstrap" => op.id \in Ids
  BY TypeParts DEF Save, At, PlaceOK, OpRec, Cmd
<1>2. CASE Fails
  BY <1>2, FailsWithout
<1>3. CASE config' = op.doc /\ Goto(AfterSave[op.cmd])
  <2>1. /\ AfterSave[op.cmd] \in Label \ {"idle"}
        /\ op.cmd = "upgrade" => AfterSave[op.cmd] = "reload"
    BY <1>1 DEF AfterSave, Label, BootPc, RemPc
  <2>2. op'.pc = AfterSave[op.cmd] /\ SameRun
    BY <1>1, <1>3, <2>1, GotoFields DEF SameRun
  <2>3. CASE op.cmd # "upgrade"
    BY <2>1, <2>2, <2>3, NotUpgrading DEF SameRun, TypeOK
  <2>4. CASE op.cmd = "upgrade"
    <3>1. UNCHANGED <<kernel, rootfs, bin>>
      BY DEF Save, disk
    <3>2. op'.pc = "reload" /\ Pending = op.todo \cup {op.id} /\ Pending' = op.todo
      BY <1>1, <2>1, <2>2, <2>4 DEF Pending, SameRun, InstPc
    <3>3. BinariesDone /\ \A j \in Installed(config) \ Pending : ImageDone(j)
      BY <1>1, <2>4 DEF SuccessInv, UpgradeOK
    <3>4. ASSUME NEW j \in Installed(config)' \ op.todo PROVE ImageDone(j)'
      <4>1. /\ InPlace(op.id) = HashOf(op.rel) /\ op.id \in Ids
            /\ op.doc.images = [config.images EXCEPT ![op.id] = HashOf(op.rel)]
        BY <1>1, <2>4 DEF DocOK
      <4>2. config'.images[j] # None /\ j \in Ids
        BY DEF Installed
      <4>3. CASE j = op.id
        <5>1. config'.images[j] = HashOf(op.rel)
          BY <1>1, <1>3, <4>1, <4>3 DEF Images
        <5> QED BY <2>2, <3>1, <4>1, <4>3, <5>1 DEF ImageDone, InPlace, SameRun, HashOf
      <4>4. CASE j # op.id
        <5>1. config'.images[j] = config.images[j]
          BY <1>1, <1>3, <4>1, <4>2, <4>4 DEF Images
        <5>2. ImageDone(j)
          BY <3>2, <3>3, <4>2, <4>4, <5>1 DEF Installed
        <5> QED BY <2>2, <3>1, <5>1, <5>2 DEF ImageDone, InPlace, SameRun, HashOf
      <4> QED BY <4>3, <4>4
    <3>5. BinariesDone'
      BY <2>2, <3>1, <3>3 DEF BinariesDone, SameRun
    <3> QED BY <3>2, <3>4, <3>5 DEF SuccessInv, UpgradeOK, SuccessIsServed, At
  <2> QED BY <2>3, <2>4
<1> QED BY <1>2, <1>3 DEF Save

LEMMA ReloadSuccess ==
    ASSUME TypeOK, TypeOK', DocOK, SuccessInv, Reload
    PROVE  SuccessInv'
<1>1. /\ op.pc \in {"reload", "reloadBinary"} /\ op.cmd \in {"install", "upgrade", "remove"}
      /\ op.cmd # "remove" => op.rel \in Releases
      /\ op.pc = "reloadBinary" => op.cmd = "upgrade"
  BY TypeParts DEF Reload, Restart, At, PlaceOK, UpPc
<1>2. UNCHANGED <<kernel, rootfs, bin, config>>
  BY DEF Reload, disk
<1>3. CASE Fails
  BY <1>3, FailsWithout
<1>4. ~Fails => daemon' = IF daemon.up THEN Started ELSE daemon
  BY TypeParts DEF Reload, Restart, Fault
<1>5. ~Fails /\ daemon'.up => daemon'.images = config.images /\ daemon'.bin = bin["execenv"]
  BY <1>4, StartedType, TypeParts
<1>6. CASE ~Fails /\ op.cmd = "upgrade" /\ Goto("next")
  <2>1. op'.pc = "next" /\ SameRun
    BY <1>6, GotoFields, TypeParts DEF Label, UpPc, SameRun
  <2>2. Pending = op.todo /\ Pending' = op.todo
    BY <1>1, <2>1 DEF Pending, InstPc, SameRun
  <2>3. BinariesDone /\ \A j \in Installed(config) \ Pending : ImageDone(j)
    BY <1>1, <1>6 DEF SuccessInv, UpgradeOK
  <2>4. bin["execenv"] = op.rel
    BY <2>3 DEF BinariesDone, Binaries
  <2>5. DaemonDone' /\ BinariesDone'
    BY <1>2, <1>5, <1>6, <2>1, <2>3, <2>4 DEF DaemonDone, BinariesDone, SameRun
  <2>6. Installed(config)' = Installed(config) /\ \A j \in Ids : ImageDone(j)' = ImageDone(j)
    BY <1>2, <2>1 DEF Installed, ImageDone, InPlace, HashOf, SameRun
  <2>7. Installed(config) \subseteq Ids
    BY DEF Installed
  <2> QED BY <2>1, <2>2, <2>3, <2>5, <2>6, <2>7 DEF SuccessInv, UpgradeOK, SuccessIsServed, At
<1>7. CASE ~Fails /\ op.cmd # "upgrade" /\ End("ok")
  <2>1. /\ op'.pc = "idle" /\ op'.cmd = op.cmd /\ op'.rel = op.rel /\ op'.id = op.id
    BY <1>7, Ends, TypeParts
  <2>2. CASE op.cmd = "remove"
    BY <2>1, <2>2, EndsWithout
  <2>3. CASE op.cmd = "install"
    <3>1. /\ config.images[op.id] = HashOf(op.rel) /\ InPlace(op.id) = HashOf(op.rel)
          /\ op.id \in Ids
      BY <1>1, <2>3, TypeParts DEF DocOK, PlaceOK
    <3>2. config.images[op.id] = HashOf(op.rel) /\ Matches(op.id)
      BY <1>1, <2>3, <3>1, HashTypes DEF Matches, Installed
    <3>3. config'.images[op'.id] = HashOf(op'.rel) /\ Matches(op.id)'
      BY <1>2, <2>1, <3>2 DEF Matches, Installed, InPlace
    <3>5. daemon'.up => daemon'.images = config'.images
      BY <1>2, <1>5, <1>7
    <3>4. \A i \in {op'.id} : (config.images[i] = HashOf(op.rel) /\ Matches(i))'
      BY <2>1, <3>3 DEF HashOf
    <3>6. SuccessIsServed'
      BY <2>1, <2>3, <3>4, <3>5 DEF SuccessIsServed
    <3> QED BY <2>1, <2>3, <3>6 DEF SuccessInv, UpgradeOK, InstPc
  <2> QED BY <1>1, <1>7, <2>2, <2>3
<1> QED BY <1>3, <1>6, <1>7 DEF Reload

LEMMA UpgradeSuccess ==
    ASSUME TypeOK, TypeOK', DocOK, SuccessInv,
           \/ UpgradePlan \/ StageBinary \/ (\E b \in Binaries : ReplaceBinary(b))
           \/ UpgradeBinariesDone \/ UpgradeNext
    PROVE  SuccessInv'
<1>1. /\ op \in OpRec /\ op.pc \in UpPc /\ op.cmd = "upgrade" /\ op.rel \in Releases
  BY TypeParts DEF UpgradePlan, StageBinary, ReplaceBinary, UpgradeBinariesDone, UpgradeNext,
                   At, PlaceOK, UpPc
<1>2. UNCHANGED <<kernel, rootfs, config, daemon>>
  BY DEF UpgradePlan, StageBinary, ReplaceBinary, UpgradeBinariesDone, UpgradeNext, disk
<1>3. Fails => SuccessInv'
  BY FailsWithout
<1>4. Installed(config)' = Installed(config) /\ Installed(config) \subseteq Ids
  BY <1>2 DEF Installed
<1>5. CASE UpgradePlan
  <2> DEFINE need == {b \in Binaries : ~FileMatches(b)}
             todo == Installed(config)
  <2>1. CASE op' = [op EXCEPT !.pc = "stage", !.todo = todo, !.need = need]
    <3>1. \A b \in Binaries \ need : bin[b] = op.rel
      BY DEF FileMatches
    <3> HIDE DEF need, todo
    <3>2. op'.pc = "stage" /\ op'.todo = todo /\ op'.need = need /\ op'.rel = op.rel
      BY <1>1, <2>1 DEF OpRec
    <3>3. bin' = bin
      BY <1>5 DEF UpgradePlan, disk
    <3> QED BY <1>4, <3>1, <3>2, <3>3 DEF SuccessInv, UpgradeOK, SuccessIsServed, At, InstPc, todo
  <2> QED BY <1>3, <1>5, <2>1 DEF UpgradePlan
<1>6. CASE StageBinary
  <2>1. CASE UNCHANGED op
    BY <1>2, <1>4, <1>6, <2>1
       DEF StageBinary, At, SuccessInv, UpgradeOK, SuccessIsServed, InstPc
  <2>2. CASE Goto("replace")
    <3>1. op'.pc = "replace" /\ op'.todo = op.todo /\ op'.need = op.need /\ op'.rel = op.rel
      BY <1>1, <2>2, GotoFields DEF Label, UpPc
    <3> QED BY <1>4, <1>6, <3>1
            DEF StageBinary, At, SuccessInv, UpgradeOK, SuccessIsServed, InstPc
  <2> QED BY <1>3, <1>6, <2>1, <2>2 DEF StageBinary
<1>7. ASSUME NEW b \in Binaries, ReplaceBinary(b)
      PROVE  SuccessInv'
  <2>1. /\ op.pc = "replace" /\ b \in op.need /\ binNew[b] = op.rel
        /\ op.todo = Installed(config) /\ \A c \in Binaries \ op.need : bin[c] = op.rel
    BY <1>7, TypeParts DEF ReplaceBinary, At, PlaceOK, SuccessInv, UpgradeOK
  <2>2. CASE /\ bin' = [bin EXCEPT ![b] = binNew[b]]
             /\ op' = [op EXCEPT !.need = @ \ {b}, !.replaced = TRUE]
    <3>1. /\ op'.pc = op.pc /\ op'.todo = op.todo /\ op'.rel = op.rel
          /\ op'.need = op.need \ {b}
      BY <1>1, <2>2 DEF OpRec
    <3>2. \A c \in Binaries \ op'.need : bin'[c] = op'.rel
      BY <2>1, <2>2, <3>1, TypeParts DEF FilesOK
    <3> QED BY <1>4, <2>1, <3>1, <3>2 DEF SuccessInv, UpgradeOK, SuccessIsServed, At, InstPc
  <2> QED BY <1>3, <1>7, <2>2 DEF ReplaceBinary
<1>8. CASE UpgradeBinariesDone
  <2>1. /\ op.pc = "replace" /\ op.need = {} /\ bin' = bin
        /\ op.todo = Installed(config) /\ BinariesDone
    BY <1>8 DEF UpgradeBinariesDone, At, SuccessInv, UpgradeOK, BinariesDone, disk
  <2>2. CASE End("current")
    BY <2>2, Ends, EndsWithout, TypeParts
  <2>3. CASE Goto("reloadBinary") \/ (Goto("next") /\ InstalledDisksDiffer)
    <3>1. /\ op'.pc \in {"reloadBinary", "next"} /\ SameRun
          /\ op'.pc = "next" => InstalledDisksDiffer
      BY <1>1, <2>3, GotoFields DEF Label, UpPc, SameRun
    <3>2. InstalledDisksDiffer => Installed(config) # {}
      BY DEF InstalledDisksDiffer
    <3>3. Pending' = Installed(config) /\ op'.todo = Installed(config)
      BY <2>1, <3>1 DEF Pending, InstPc, SameRun
    <3>4. BinariesDone'
      BY <2>1, <3>1 DEF BinariesDone, SameRun
    <3> QED BY <1>4, <3>1, <3>2, <3>3, <3>4
            DEF SuccessInv, UpgradeOK, SuccessIsServed, At
  <2> QED BY <1>8, <2>2, <2>3 DEF UpgradeBinariesDone
<1>9. CASE UpgradeNext
  <2>1. op.pc = "next" /\ bin' = bin
    BY <1>9 DEF UpgradeNext, At, disk
  <2>2. Pending = op.todo
    BY <2>1 DEF Pending, InstPc
  <2>3. /\ BinariesDone /\ \A j \in Installed(config) \ op.todo : ImageDone(j)
        /\ op.todo = {} => DaemonDone
    BY <1>1, <2>1, <2>2 DEF SuccessInv, UpgradeOK
  <2>4. CASE op.todo = {} /\ End("ok")
    <3>1. op'.pc = "idle" /\ op'.cmd = op.cmd /\ op'.rel = op.rel /\ op'.id = op.id
      BY <2>4, Ends, TypeParts
    <3>2. \A j \in Installed(config) : config.images[j] = HashOf(op.rel) /\ Matches(j)
      BY <2>3, <2>4 DEF ImageDone, Matches
    <3>3. \A j \in Installed(config)' : (config.images[j] = HashOf(op.rel) /\ Matches(j))'
      BY <1>2, <1>4, <3>1, <3>2 DEF Matches, InPlace, HashOf
    <3>4. bin' = [b \in Binaries |-> op'.rel]
      BY <2>1, <2>3, <3>1, TypeParts DEF BinariesDone, FilesOK
    <3>5. daemon'.up => daemon'.images = config'.images /\ daemon'.bin = op'.rel
      BY <1>2, <2>3, <2>4, <3>1 DEF DaemonDone
    <3>6. SuccessIsServed'
      BY <1>1, <3>1, <3>3, <3>4, <3>5 DEF SuccessIsServed
    <3> QED BY <3>1, <3>6 DEF SuccessInv, UpgradeOK, InstPc
  <2>5. ASSUME NEW i \in op.todo,
               op' = [op EXCEPT !.pc = "load", !.id = i, !.todo = @ \ {i}, !.staged = FALSE]
        PROVE  SuccessInv'
    <3>1. /\ op'.pc = "load" /\ op'.id = i /\ op'.todo = op.todo \ {i}
          /\ op'.cmd = op.cmd /\ op'.rel = op.rel
      BY <1>1, <2>5 DEF OpRec
    <3>2. Pending' = op.todo
      BY <3>1 DEF Pending, InstPc
    <3>3. BinariesDone' /\ \A j \in Ids : ImageDone(j)' = ImageDone(j)
      BY <1>2, <2>1, <2>3, <3>1 DEF BinariesDone, ImageDone, InPlace, HashOf
    <3> QED BY <1>4, <2>3, <3>1, <3>2, <3>3 DEF SuccessInv, UpgradeOK, SuccessIsServed, At
  <2> QED BY <1>9, <2>4, <2>5 DEF UpgradeNext
<1> QED BY <1>5, <1>6, <1>7, <1>8, <1>9

LEMMA OtherSuccess ==
    ASSUME TypeOK, TypeOK', SuccessInv,
           \/ \E r \in Releases : Bootstrap(r) \/ Upgrade(r)
           \/ \E r \in Releases, i \in Ids : Install(r, i)
           \/ \E i \in Ids : Remove(i)
           \/ BootstrapBinary \/ (\E insecure \in BOOLEAN : BootstrapSettings(insecure))
           \/ WriteCert \/ WriteKey \/ BootstrapStart
           \/ RemoveLoad \/ RemoveRootfs \/ RemoveKernel \/ Kill
    PROVE  SuccessInv'
<1>1. Fails => SuccessInv'
  BY FailsWithout
<1>2. PlaceOK'
  BY DEF TypeOK
<1>3. CASE Kill
  BY <1>1, <1>3 DEF Kill
<1>4. ASSUME NEW r \in Releases, Upgrade(r)
      PROVE  SuccessInv'
  <2>1. op'.pc = "plan"
    BY <1>4, CommandFields DEF Upgrade, Cmd, Label, UpPc
  <2> QED BY <2>1 DEF SuccessInv, UpgradeOK, SuccessIsServed, At, InstPc
<1>5. CASE \/ \E r \in Releases : Bootstrap(r)
           \/ \E r \in Releases, i \in Ids : Install(r, i)
           \/ \E i \in Ids : Remove(i)
  <2>1. \A c \in Cmd \ {"upgrade"} : \A l \in Label \ {"idle"} :
           \A r \in Releases \cup {None}, i \in Ids \cup {None} :
              Command(c, r, i, l) => op'.pc # "idle" /\ op'.cmd # "upgrade"
    BY CommandFields
  <2>2. op'.pc # "idle" /\ op'.cmd # "upgrade"
    BY <1>5, <2>1 DEF Bootstrap, Install, Remove, Cmd, Label, BootPc, InstPc, RemPc
  <2> QED BY <1>2, <2>2, NotUpgrading
<1>6. CASE \/ BootstrapBinary \/ (\E insecure \in BOOLEAN : BootstrapSettings(insecure))
           \/ WriteCert \/ WriteKey \/ BootstrapStart
           \/ RemoveLoad \/ RemoveRootfs \/ RemoveKernel
  <2>1. op.cmd \in {"bootstrap", "remove"} /\ op \in OpRec
    BY <1>6, TypeParts DEF BootstrapBinary, BootstrapSettings, WriteCert, WriteKey,
          WriteInPlace, BootstrapStart, RemoveLoad, RemoveRootfs, RemoveKernel, At,
          PlaceOK, BootPc, RemPc
  <2>2. End("ok") => SuccessInv'
    BY <2>1, Ends, EndsWithout, TypeParts
  <2>3. \A l \in Label \ {"idle"} : Goto(l) => SuccessInv'
    BY <1>2, <2>1, GotoFields, NotUpgrading
  <2>4. \A d : \A l \in Label \ {"idle"} : op' = [op EXCEPT !.doc = d, !.pc = l] => SuccessInv'
    <3> SUFFICES ASSUME NEW d, NEW l \in Label \ {"idle"}, op' = [op EXCEPT !.doc = d, !.pc = l]
                 PROVE  SuccessInv'
      OBVIOUS
    <3>1. op'.pc = l /\ op'.cmd = op.cmd
      BY <2>1 DEF OpRec
    <3> QED BY <1>2, <2>1, <3>1, NotUpgrading
  <2>5. ASSUME NEW insecure \in BOOLEAN, BootstrapSettings(insecure)
        PROVE  SuccessInv'
    <3> DEFINE tls == KeepsPair(config) \/ ~insecure
               doc == [config EXCEPT !.exists = TRUE, !.tls = tls]
               l == IF tls /\ ~HasPair THEN "cert" ELSE "save"
    <3>1. op' = [op EXCEPT !.doc = doc, !.pc = l]
      BY <2>5 DEF BootstrapSettings
    <3>2. l \in Label \ {"idle"}
      BY DEF Label, BootPc
    <3> HIDE DEF doc, l
    <3> QED BY <2>4, <3>1, <3>2
  <2>6. CASE RemoveLoad
    <3>1. CASE op' = [op EXCEPT !.pc = "save", !.doc = [config EXCEPT !.images[op.id] = None]]
      <4>1. op' = [op EXCEPT !.doc = [config EXCEPT !.images[op.id] = None], !.pc = "save"]
        BY <2>1, <3>1 DEF OpRec
      <4> QED BY <2>4, <4>1 DEF Label
    <3> QED BY <2>2, <2>6, <3>1 DEF RemoveLoad
  <2>7. CASE BootstrapBinary \/ WriteCert \/ WriteKey \/ BootstrapStart
    BY <1>1, <2>2, <2>3, <2>7 DEF BootstrapBinary, WriteCert, WriteKey, WriteInPlace,
                                  BootstrapStart, Label, BootPc
  <2>8. CASE RemoveRootfs \/ RemoveKernel
    BY <1>1, <2>3, <2>8 DEF RemoveRootfs, RemoveKernel, Label, RemPc
  <2> QED BY <1>6, <2>5, <2>6, <2>7, <2>8
<1> QED BY <1>3, <1>4, <1>5, <1>6

\* After an Install or an Upgrade that reported success the disks in place and
\* the configuration are those of the release, and a daemon that runs serves
\* them, with the binary of the release after an Upgrade: whatever failed or
\* was killed before, and however often the daemon is started meanwhile.
THEOREM SuccessMeansServed == Spec => []SuccessIsServed
<1>1. Init => SuccessInv
  BY IdleType DEF Init, SuccessInv, UpgradeOK, SuccessIsServed, Idle, At, InstPc
<1>2. TypeOK /\ TypeOK' /\ DocOK /\ SuccessInv /\ [Next]_vars => SuccessInv'
  BY ServeSuccess, InstallSuccess, SaveSuccess, ReloadSuccess, UpgradeSuccess, OtherSuccess
     DEF Next, BootstrapStep, InstallStep, UpgradeStep, RemoveStep
<1>3. SuccessInv => SuccessIsServed
  BY DEF SuccessInv
<1> QED BY <1>1, <1>2, <1>3, TypesHold, DocAlways, PTL DEF Spec

----------------------------------------------------------------------------
(* What is left behind.                                                    *)

Unsaved == op.pc = "save" /\ op.cmd \in {"install", "upgrade"}

\* What is staged belongs to the command that runs, at the places where it
\* uses it.
StagedTidy ==
    /\ \A j \in Ids : rootfsNew[j] # None
          => j = op.id /\ op.pc \in {"verify", "renameKernel", "renameRootfs"}
    /\ kernelNew # None => op.staged /\ op.pc \in {"rootfs", "verify", "renameKernel"}
    /\ \A b \in Binaries : binNew[b] # None => b \in op.need /\ op.pc \in {"stage", "replace"}

\* The files in place are those that the configuration names, but for the
\* image in hand between the change of the one and of the other.
PlacedTidy ==
    /\ \A j \in Ids : \/ (rootfs[j] # None) <=> (j \in Installed(config))
                      \/ j = op.id /\ (Unsaved \/ op.pc = "removeRootfs")
    /\ Installed(config) # {} => kernel # None
    /\ kernel # None => \/ Installed(config) # {} \/ Unsaved
                        \/ op.pc \in {"renameRootfs", "removeRootfs", "removeKernel"}

Tidy == faults = 0 => StagedTidy /\ PlacedTidy

LEMMA NoFault ==
    ASSUME TypeOK, [Next]_vars, faults' = 0
    PROVE  faults = 0 /\ ~Fault
<1>1. faults \in Nat
  BY TypeParts
<1>2. faults' = faults \/ Fault
  <2>1. CASE DaemonStarts \/ Catalog \/ Kill \/ UNCHANGED vars \/ Save(AfterSave) \/ Reload
    BY <2>1 DEF DaemonStarts, Catalog, Verify, DigestKernel, DigestRootfs, Kill, vars,
                Save, Reload, Restart
  <2>2. CASE BootstrapStep
    BY <2>2 DEF BootstrapStep, Bootstrap, Command, BootstrapBinary,
              BootstrapSettings, WriteCert, WriteKey, WriteInPlace, BootstrapStart
  <2>3. CASE UpgradeStep
    BY <2>3 DEF UpgradeStep, Upgrade, Command, UpgradePlan, StageBinary,
              ReplaceBinary, UpgradeBinariesDone, UpgradeNext
  <2>4. CASE InstallStep
    BY <2>4 DEF InstallStep, Install, Command, InstallLoad, FetchKernel, FetchRootfs,
              VerifyDigest, RenameKernel, RenameRootfs
  <2>5. CASE RemoveStep
    BY <2>5 DEF RemoveStep, Remove, Command, RemoveLoad, RemoveRootfs, RemoveKernel
  <2> QED BY <2>1, <2>2, <2>3, <2>4, <2>5 DEF Next
<1> QED BY <1>1, <1>2 DEF Fault

\* The places between two changes are left by the second.
LEMMA BetweenSteps ==
    ASSUME [Next]_vars, ~Fault,
           op.pc \in {"save", "renameRootfs", "removeRootfs", "removeKernel"}
    PROVE  \/ UNCHANGED op
           \/ RenameRootfs \/ RemoveRootfs \/ RemoveKernel \/ Save(AfterSave)
<1>1. CASE DaemonStarts \/ Catalog \/ Kill \/ UNCHANGED vars \/ Reload
  BY <1>1 DEF DaemonStarts, Catalog, Verify, DigestKernel, DigestRootfs, Kill, vars,
              Reload, Restart, At
<1>2. ~BootstrapStep
  BY DEF BootstrapStep, Bootstrap, Command, BootstrapBinary,
         BootstrapSettings, WriteCert, WriteKey, WriteInPlace, BootstrapStart, At
<1>3. ~UpgradeStep
  BY DEF UpgradeStep, Upgrade, Command, UpgradePlan, StageBinary,
         ReplaceBinary, UpgradeBinariesDone, UpgradeNext, At
<1>4. InstallStep => RenameRootfs
  BY DEF InstallStep, Install, Command, InstallLoad, FetchKernel, FetchRootfs,
         VerifyDigest, RenameKernel, At
<1>5. RemoveStep => RemoveRootfs \/ RemoveKernel
  BY DEF RemoveStep, Remove, Command, RemoveLoad, At
<1> QED BY <1>1, <1>2, <1>3, <1>4, <1>5 DEF Next

LEMMA PlacedNext ==
    ASSUME TypeOK, DocOK, PlacedTidy, [Next]_vars, ~Fault
    PROVE  PlacedTidy'
<1>1. /\ rootfs \in [Ids -> Releases \cup {None}] /\ config.images \in Images
      /\ op \in OpRec /\ None \notin Releases
  BY TypeParts DEF FilesOK
<1>2. CASE RenameKernel
  <2>1. /\ op.pc = "renameKernel" /\ kernel' = kernelNew /\ UNCHANGED <<rootfs, config>>
        /\ Goto("renameRootfs")
    BY <1>2 DEF RenameKernel, At
  <2>2. op'.pc = "renameRootfs"
    BY <1>1, <2>1, GotoFields DEF Label, InstPc
  <2>3. kernelNew # None
    BY <2>1, TypeParts, HashParts DEF PlaceOK, InstPc
  <2> QED BY <2>1, <2>2, <2>3 DEF PlacedTidy, Unsaved, Installed
<1>3. CASE RenameRootfs
  <2>1. /\ op.pc = "renameRootfs" /\ UNCHANGED <<kernel, config>>
        /\ rootfs' = [rootfs EXCEPT ![op.id] = rootfsNew[op.id]]
    BY <1>3 DEF RenameRootfs, At
  <2>2. op'.pc = "save" /\ SameRun
    <3>1. op' = [op EXCEPT !.pc = "save", !.doc = UpsertImage(op.doc)]
      BY <1>3 DEF RenameRootfs
    <3> QED BY <1>1, <3>1 DEF OpRec, SameRun
  <2>3. Unsaved'
    BY <2>1, <2>2, TypeParts DEF Unsaved, SameRun, PlaceOK, InstPc
  <2>4. \A j \in Ids \ {op.id} : rootfs'[j] = rootfs[j]
    BY <1>1, <2>1
  <2> QED BY <2>1, <2>2, <2>3, <2>4 DEF PlacedTidy, Unsaved, Installed, SameRun
<1>4. CASE RemoveRootfs
  <2>1. /\ op.pc = "removeRootfs" /\ UNCHANGED <<kernel, config>> /\ op.id \in Ids
        /\ rootfs' = [rootfs EXCEPT ![op.id] = None]
        /\ Goto(IF KernelStillUsed(op.doc) THEN "reload" ELSE "removeKernel")
    BY <1>4, TypeParts DEF RemoveRootfs, At, PlaceOK, RemPc
  <2>2. op'.pc = IF KernelStillUsed(op.doc) THEN "reload" ELSE "removeKernel"
    BY <1>1, <2>1, GotoFields DEF Label, RemPc
  <2>3. config.images = op.doc.images /\ config.images[op.id] = None
    BY <2>1 DEF DocOK
  <2>4. KernelStillUsed(op.doc) => Installed(config) # {}
    BY <2>3 DEF KernelStillUsed, Installed
  <2>5. rootfs'[op.id] = None /\ \A j \in Ids \ {op.id} : rootfs'[j] = rootfs[j]
    BY <1>1, <2>1
  <2>6. op.id \notin Installed(config) /\ Installed(config)' = Installed(config)
    BY <2>1, <2>3 DEF Installed
  <2>7. \A j \in Ids : (rootfs'[j] # None) <=> (j \in Installed(config)')
    BY <2>1, <2>5, <2>6 DEF PlacedTidy
  <2>8. /\ Installed(config)' # {} => kernel' # None
        /\ kernel' # None => Installed(config)' # {} \/ op'.pc = "removeKernel"
    BY <2>1, <2>2, <2>4, <2>6 DEF PlacedTidy
  <2> QED BY <2>7, <2>8 DEF PlacedTidy
<1>5. CASE RemoveKernel
  <2>1. /\ op.pc = "removeKernel" /\ kernel' = None /\ UNCHANGED <<rootfs, config>>
    BY <1>5 DEF RemoveKernel, At
  <2>2. Installed(config)' = Installed(config) /\ Installed(config) = {}
    BY <2>1 DEF DocOK, Installed
  <2> QED BY <2>1, <2>2 DEF PlacedTidy, Unsaved
<1>6. CASE Save(AfterSave)
  <2>1. /\ op.pc = "save" /\ config' = op.doc /\ UNCHANGED <<kernel, rootfs>>
        /\ op.cmd \in {"bootstrap", "install", "upgrade", "remove"}
        /\ op.cmd # "bootstrap" => op.id \in Ids
        /\ Goto(AfterSave[op.cmd])
    BY <1>6, TypeParts DEF Save, At, PlaceOK, OpRec, Cmd, disk
  <2>2. /\ AfterSave[op.cmd] \in Label
        /\ op.cmd = "remove" => AfterSave[op.cmd] = "removeRootfs"
    BY <2>1 DEF AfterSave, Label, BootPc, RemPc
  <2>3. op'.pc = AfterSave[op.cmd] /\ SameRun
    BY <1>1, <2>1, <2>2, GotoFields DEF SameRun
  <2>4. CASE op.cmd = "bootstrap"
    <3>1. Installed(config)' = Installed(config)
      BY <2>1, <2>4 DEF DocOK, Installed
    <3> QED BY <2>1, <2>4, <3>1 DEF PlacedTidy, Unsaved
  <2>5. CASE op.cmd = "remove"
    <3>1. op.doc.images = [config.images EXCEPT ![op.id] = None]
      BY <2>1, <2>5 DEF DocOK
    <3>2. Installed(config)' = Installed(config) \ {op.id}
      BY <1>1, <2>1, <2>5, <3>1 DEF Installed, Images
    <3>3. \A j \in Ids : (rootfs[j] # None) <=> (j \in Installed(config))
      BY <2>1, <2>5 DEF PlacedTidy, Unsaved
    <3>4. Installed(config) # {} => kernel # None
      BY DEF PlacedTidy
    <3> QED BY <2>1, <2>2, <2>3, <2>5, <3>2, <3>3, <3>4 DEF PlacedTidy, SameRun
  <2>6. CASE op.cmd \in {"install", "upgrade"}
    <3>1. /\ op.doc.images = [config.images EXCEPT ![op.id] = HashOf(op.rel)]
          /\ InPlace(op.id) = HashOf(op.rel) /\ op.rel \in Releases /\ op.id \in Ids
      BY <2>1, <2>6, TypeParts DEF DocOK, PlaceOK
    <3>2. kernel # None /\ rootfs[op.id] # None /\ HashOf(op.rel) # None
      BY <1>1, <3>1, HashParts DEF InPlace
    <3>3. Installed(config)' = Installed(config) \cup {op.id}
      BY <1>1, <2>1, <3>1, <3>2 DEF Installed, Images
    <3>4. \A j \in Ids \ {op.id} : (rootfs[j] # None) <=> (j \in Installed(config))
      BY DEF PlacedTidy
    <3> QED BY <2>1, <3>2, <3>3, <3>4 DEF PlacedTidy
  <2> QED BY <2>1, <2>4, <2>5, <2>6
<1>7. CASE /\ UNCHANGED <<kernel, rootfs, config>>
           /\ ~RenameRootfs /\ ~RemoveRootfs /\ ~RemoveKernel /\ ~Save(AfterSave)
  <2>1. Installed(config)' = Installed(config)
    BY <1>7 DEF Installed
  <2>2. CASE UNCHANGED op
    BY <1>7, <2>1, <2>2 DEF PlacedTidy, Unsaved
  <2>3. CASE op.pc \notin {"save", "renameRootfs", "removeRootfs", "removeKernel"}
    BY <1>7, <2>1, <2>3 DEF PlacedTidy, Unsaved
  <2> QED BY <1>7, <2>2, <2>3, BetweenSteps
<1> QED BY <1>2, <1>3, <1>4, <1>5, <1>6, <1>7, WhoChangesFiles

\* The places at which something may be staged.
StagedPc == {"rootfs", "verify", "renameKernel", "renameRootfs", "stage", "replace"}

NothingStaged == /\ kernelNew = None /\ \A j \in Ids : rootfsNew[j] = None
                 /\ \A b \in Binaries : binNew[b] = None

LEMMA StagedSteps ==
    ASSUME [Next]_vars, ~Fault
    PROVE  \/ /\ UNCHANGED <<kernelNew, rootfsNew, binNew>>
              /\ UNCHANGED op \/ op.pc \notin StagedPc
           \/ FetchKernel \/ FetchRootfs \/ VerifyDigest \/ RenameKernel \/ RenameRootfs
           \/ StageBinary \/ (\E b \in Binaries : ReplaceBinary(b)) \/ UpgradeBinariesDone
<1>1. CASE DaemonStarts \/ Catalog \/ Kill \/ UNCHANGED vars \/ Reload \/ Save(AfterSave)
  BY <1>1 DEF DaemonStarts, Catalog, Verify, DigestKernel, DigestRootfs, Kill, vars,
              Reload, Restart, Save, At, disk, StagedPc
<1>2. CASE BootstrapStep
  BY <1>2 DEF BootstrapStep, Bootstrap, Command, BootstrapBinary, BootstrapSettings,
              WriteCert, WriteKey, WriteInPlace, BootstrapStart, At, disk, StagedPc
<1>3. CASE UpgradeStep
  BY <1>3 DEF UpgradeStep, Upgrade, Command, UpgradePlan, UpgradeNext, At, disk, StagedPc
<1>4. CASE InstallStep
  BY <1>4 DEF InstallStep, Install, Command, InstallLoad, At, disk, StagedPc
<1>5. CASE RemoveStep
  BY <1>5 DEF RemoveStep, Remove, Command, RemoveLoad, RemoveRootfs, RemoveKernel, At,
              disk, StagedPc
<1> QED BY <1>1, <1>2, <1>3, <1>4, <1>5 DEF Next

LEMMA StagedNext ==
    ASSUME TypeOK, DocOK, StagedTidy, [Next]_vars, ~Fault
    PROVE  StagedTidy'
<1>1. op \in OpRec /\ rootfsNew \in [Ids -> Releases \cup {None, Bad}]
      /\ binNew \in [Binaries -> Releases \cup {None}]
  BY TypeParts DEF FilesOK
<1>2. op.pc \notin StagedPc => NothingStaged
  BY DEF StagedTidy, StagedPc, NothingStaged
<1>3. NothingStaged' => StagedTidy'
  BY DEF StagedTidy, NothingStaged
<1>4. op.pc \in {"rootfs", "verify", "renameKernel", "renameRootfs"}
         => \A b \in Binaries : binNew[b] = None
  BY DEF StagedTidy
<1>5. op.pc \in {"stage", "replace"} => kernelNew = None /\ \A j \in Ids : rootfsNew[j] = None
  BY DEF StagedTidy
<1>6. CASE /\ UNCHANGED <<kernelNew, rootfsNew, binNew>>
           /\ UNCHANGED op \/ op.pc \notin StagedPc
  BY <1>2, <1>3, <1>6 DEF StagedTidy, NothingStaged
<1>7. CASE FetchKernel
  <2>1. op.pc = "kernel" /\ NothingStaged /\ UNCHANGED <<rootfsNew, binNew>>
    BY <1>2, <1>7 DEF FetchKernel, At, StagedPc
  <2>2. CASE UNCHANGED kernelNew
    BY <1>3, <2>1, <2>2 DEF NothingStaged
  <2>3. CASE op' = [op EXCEPT !.pc = "rootfs", !.staged = TRUE,
                              !.trouble = @ \/ kernelNew' = Bad]
    <3>1. op'.pc = "rootfs" /\ op'.staged = TRUE
      BY <1>1, <2>3 DEF OpRec
    <3> QED BY <2>1, <3>1 DEF StagedTidy, NothingStaged
  <2> QED BY <1>7, <2>2, <2>3 DEF FetchKernel
<1>8. CASE FetchRootfs
  <2>1. /\ op.pc = "rootfs" /\ binNew' = binNew /\ (\A j \in Ids : rootfsNew[j] = None)
        /\ kernelNew # None => op.staged
    BY <1>8 DEF FetchRootfs, At, StagedTidy
  <2>2. CASE DropKernel /\ UNCHANGED rootfsNew
    BY <1>3, <1>4, <2>1, <2>2 DEF DropKernel, NothingStaged
  <2>3. ASSUME NEW c, rootfsNew' = [rootfsNew EXCEPT ![op.id] = c], UNCHANGED kernelNew,
               op' = [op EXCEPT !.pc = "verify", !.trouble = @ \/ c = Bad]
        PROVE  StagedTidy'
    <3>1. op'.pc = "verify" /\ op'.id = op.id /\ op'.staged = op.staged
      BY <1>1, <2>3 DEF OpRec
    <3>2. \A j \in Ids \ {op.id} : rootfsNew'[j] = None
      BY <1>1, <2>1, <2>3
    <3> QED BY <1>4, <2>1, <2>3, <3>1, <3>2 DEF StagedTidy
  <2> QED BY <1>8, <2>2, <2>3 DEF FetchRootfs
<1>9. CASE VerifyDigest
  <2>1. /\ op.pc = "verify" /\ binNew' = binNew
        /\ kernelNew # None => op.staged
        /\ \A j \in Ids \ {op.id} : rootfsNew[j] = None
    BY <1>9 DEF VerifyDigest, At, StagedTidy
  <2>2. CASE /\ Goto(IF op.staged THEN "renameKernel" ELSE "renameRootfs")
             /\ UNCHANGED <<kernelNew, rootfsNew>>
    <3>1. /\ op'.pc = IF op.staged THEN "renameKernel" ELSE "renameRootfs"
          /\ op'.id = op.id /\ op'.staged = op.staged
      BY <1>1, <2>2, GotoFields DEF Label, InstPc
    <3> QED BY <1>4, <2>1, <2>2, <3>1 DEF StagedTidy
  <2>3. CASE DropKernel /\ rootfsNew' = [rootfsNew EXCEPT ![op.id] = None]
    <3>1. \A j \in Ids : rootfsNew'[j] = None
      BY <1>1, <2>1, <2>3
    <3>2. kernelNew' = None
      BY <2>1, <2>3 DEF DropKernel
    <3> QED BY <1>3, <1>4, <2>1, <3>1, <3>2 DEF NothingStaged
  <2> QED BY <1>9, <2>2, <2>3 DEF VerifyDigest
<1>10. CASE RenameKernel
  <2>1. /\ op.pc = "renameKernel" /\ UNCHANGED <<binNew, rootfsNew>> /\ kernelNew' = None
        /\ \A j \in Ids \ {op.id} : rootfsNew[j] = None
        /\ Goto("renameRootfs")
    BY <1>10 DEF RenameKernel, At, StagedTidy
  <2>2. op'.pc = "renameRootfs" /\ op'.id = op.id
    BY <1>1, <2>1, GotoFields DEF Label, InstPc
  <2> QED BY <1>4, <2>1, <2>2 DEF StagedTidy
<1>11. CASE RenameRootfs
  <2>1. /\ op.pc = "renameRootfs" /\ UNCHANGED <<binNew, kernelNew>> /\ kernelNew = None
        /\ rootfsNew' = [rootfsNew EXCEPT ![op.id] = None]
        /\ \A j \in Ids \ {op.id} : rootfsNew[j] = None
    BY <1>11 DEF RenameRootfs, At, StagedTidy
  <2>2. \A j \in Ids : rootfsNew'[j] = None
    BY <1>1, <2>1
  <2> QED BY <1>3, <1>4, <2>1, <2>2 DEF NothingStaged
<1>12. CASE StageBinary
  <2>1. /\ op.pc = "stage" /\ UNCHANGED <<rootfsNew, kernelNew>>
        /\ \A b \in Binaries \ op.need : binNew[b] = None
    BY <1>12 DEF StageBinary, At, StagedTidy
  <2>2. ASSUME NEW b \in op.need, binNew' = [binNew EXCEPT ![b] = op.rel], UNCHANGED op
        PROVE  StagedTidy'
    <3>1. \A c \in Binaries \ op.need : binNew'[c] = None
      BY <1>1, <2>1, <2>2
    <3> QED BY <1>5, <2>1, <2>2, <3>1 DEF StagedTidy
  <2>3. CASE Goto("replace") /\ UNCHANGED binNew
    <3>1. op'.pc = "replace" /\ op'.need = op.need
      BY <1>1, <2>3, GotoFields DEF Label, UpPc
    <3> QED BY <1>5, <2>1, <2>3, <3>1 DEF StagedTidy
  <2>4. CASE binNew' = [b \in Binaries |-> IF b \in op.need THEN None ELSE binNew[b]]
    <3>1. \A b \in Binaries : binNew'[b] = None
      BY <2>1, <2>4
    <3> QED BY <1>3, <1>5, <2>1, <3>1 DEF NothingStaged
  <2> QED BY <1>12, <2>2, <2>3, <2>4 DEF StageBinary
<1>13. ASSUME NEW b \in Binaries, ReplaceBinary(b)
       PROVE  StagedTidy'
  <2>1. /\ op.pc = "replace" /\ UNCHANGED <<rootfsNew, kernelNew>>
        /\ binNew' = [binNew EXCEPT ![b] = None]
        /\ op' = [op EXCEPT !.need = @ \ {b}, !.replaced = TRUE]
        /\ \A c \in Binaries \ op.need : binNew[c] = None
    BY <1>13 DEF ReplaceBinary, At, StagedTidy
  <2>2. op'.pc = op.pc /\ op'.need = op.need \ {b}
    BY <1>1, <2>1 DEF OpRec
  <2>3. \A c \in Binaries \ op'.need : binNew'[c] = None
    BY <1>1, <2>1, <2>2
  <2> QED BY <1>5, <2>1, <2>2, <2>3 DEF StagedTidy
<1>14. CASE UpgradeBinariesDone
  <2>1. /\ op.pc = "replace" /\ UNCHANGED <<rootfsNew, kernelNew, binNew>>
        /\ \A b \in Binaries : binNew[b] = None
    BY <1>14 DEF UpgradeBinariesDone, At, StagedTidy, disk
  <2> QED BY <1>3, <1>5, <2>1 DEF NothingStaged
<1> QED BY <1>6, <1>7, <1>8, <1>9, <1>10, <1>11, <1>12, <1>13, <1>14, StagedSteps

\* As long as no write, rename or restart fails and nothing is killed, corrupt
\* and failed downloads leave nothing: between commands nothing is staged and
\* the boot files are exactly those that the configuration names.
THEOREM NothingIsLeft == Spec => []NothingLeftBehind
<1>1. Init => Tidy
  <2> SUFFICES ASSUME Init PROVE StagedTidy /\ PlacedTidy
    BY DEF Tidy
  <2>1. CASE EmptyMachine
    BY <2>1, IdleType DEF Init, EmptyMachine, StagedTidy, PlacedTidy, NoConfig, Installed
  <2>2. ASSUME NEW r \in Releases, NEW S \in SUBSET Published[r], HostWith(r, S)
        PROVE  StagedTidy /\ PlacedTidy
    <3>1. r # None /\ HashOf(r) # None /\ KernelOf[r] # None /\ S \subseteq Ids
      BY CtlAssumption, HashTypes DEF HashOf
    <3>2. Installed(config) = S
      BY <2>2, <3>1 DEF HostWith, Installed
    <3> QED BY <2>2, <3>1, <3>2 DEF HostWith, StagedTidy, PlacedTidy
  <2> QED BY <2>1, <2>2 DEF Init
<1>2. TypeOK /\ DocOK /\ Tidy /\ [Next]_vars => Tidy'
  BY NoFault, StagedNext, PlacedNext DEF Tidy
<1>3. Tidy => NothingLeftBehind
  <2> SUFFICES ASSUME StagedTidy, PlacedTidy, faults = 0, op.pc = "idle"
               PROVE  NothingLeftBehind
    BY DEF Tidy, NothingLeftBehind, At
  <2> QED BY DEF StagedTidy, PlacedTidy, NothingLeftBehind, Unsaved
<1> QED BY <1>1, <1>2, <1>3, TypesHold, DocAlways, PTL DEF Spec
=============================================================================

--------------------------- MODULE MachineProofs ---------------------------
(***************************************************************************)
(* Proofs about Packaging and Machine: for any contents of the workspace,  *)
(* any layout, paths and file contents, and any number of operations,      *)
(* edits, failures, interruptions and power losses.                        *)
(***************************************************************************)
EXTENDS Machine, StorageProofs, FiniteSetTheorems

-----------------------------------------------------------------------------
(***************************************************************************)
(* Packaging.                                                              *)
(***************************************************************************)

\* The inductive invariant: from the step that makes it on, each directory holds what the
\* source has, and the loaders are there once ensure_limine has returned (package).
PackagingInv ==
    /\ task \in {"cargo", "bundle", "stage", "image"} => cache # "absent"
    /\ task = "stage" => bundle = Entries(source)
    /\ task = "image" => staging = Entries(source)
    /\ task \in {"disk", "size", "guest"} =>
           iso.files = Entries(source) /\ iso.loader # "absent"

-----------------------------------------------------------------------------

\* A copy has no .gitkeep entries left, so copying it again changes nothing
\* (copy_directory, collect_files).
LEMMA EntriesOfEntries ==
    ASSUME NEW d
    PROVE  Entries(Entries(d)) = Entries(d)
BY DEF Entries

\* What was in the directory before does not show in a copy (recreate_directory,
\* copy_directory).
LEMMA CopyIsExact ==
    ASSUME NEW old, NEW from
    PROVE  CopyDirectory(old, from) = Entries(from)
BY SMTT(30) DEF CopyDirectory, RecreateDirectory, Into, Entries, EmptyDirectory

\* Every step of a command, also one that fails or is interrupted, and every edit keep
\* the invariant.
LEMMA PackagingKeeps ==
    ASSUME PackagingInv, [PackagingNext \/ Leaves]_packaging
    PROVE  PackagingInv'
<1>. USE DEF PackagingInv, Goes, workspace
<1>1. CASE EditSource
  BY <1>1 DEF EditSource
<1>2. CASE \E command \in {"package", "run", "smoke"} : Begin(command)
  BY <1>2 DEF Begin
<1>3. CASE EnsureLimine
  BY <1>3 DEF EnsureLimine
<1>4. CASE \E file \in {"other", "pinned"} : Download(file)
  BY <1>4 DEF Download
<1>5. CASE Verify \/ Extract \/ Cargo
  BY <1>5 DEF Verify, Extract, Cargo
<1>6. CASE Bundle
  BY <1>6, CopyIsExact DEF Bundle
<1>7. CASE Stage
  BY <1>7, CopyIsExact, EntriesOfEntries DEF Stage
<1>8. CASE MakeImage
  BY <1>8, EntriesOfEntries DEF MakeImage
<1>9. CASE KeepDataDisk \/ SizeDataDisk
  BY <1>9 DEF KeepDataDisk, SizeDataDisk, Packaged
<1>10. CASE CreateDataDisk
  BY <1>10 DEF CreateDataDisk
<1>11. CASE Aborts \/ Refuses \/ Leaves
  BY <1>11 DEF Aborts, Refuses, Leaves
<1>12. CASE UNCHANGED packaging
  BY <1>12 DEF packaging
<1>. HIDE DEF PackagingInv, Goes, workspace
<1>. QED
  BY <1>1, <1>2, <1>3, <1>4, <1>5, <1>6, <1>7, <1>8, <1>9, <1>10, <1>11, <1>12, Zenon
     DEF PackagingNext

\* So it holds throughout.
THEOREM PackagingInvariant == PackagingSpec => []PackagingInv
<1>1. PackagingInit => PackagingInv
  BY DEF PackagingInit, PackagingInv
<1>. QED  BY <1>1, PackagingKeeps, PTL DEF PackagingSpec

\* A guest always gets the files of the workspace and a loader (package, run_qemu, smoke).
THEOREM GuestGetsSource == PackagingSpec => []GuestImage
<1>1. PackagingInv => GuestImage
  BY DEF PackagingInv, GuestImage
<1> QED
  BY <1>1, PackagingInvariant, PTL

-----------------------------------------------------------------------------
(***************************************************************************)
(* The machine.                                                            *)
(***************************************************************************)

\* What a kernel and the log of a smoke test have to do with the workspace.
HostInv ==
    /\ PackagingInv /\ source \in Sources
    /\ task \in {"size", "guest"} => disk # "absent"
    /\ guest # "none" => task = "guest"
    /\ guest \in {"mount", "running"} =>
           booted = Entries(source) /\ \A p \in DOMAIN booted : p[1] \in Roots
    /\ verdict = "passed" => booted = Entries(source) /\ task = "idle"
    /\ guest # "none" /\ goal = "smoke" /\ log # {} => booted = Entries(source)
    /\ goal = "smoke" /\ guest \in {"loader", "heap", "modules"} => log = {}

\* Only a kernel that runs uses the disk, and a disk that is not there holds nothing.
DiskInv ==
    /\ guest # "running" => phase = "off" /\ online = FALSE /\ pending = NoTree
    /\ disk = "absent" => committed = NoTree /\ attempted = {} /\ touched = FALSE

\* The inductive invariant.
MachineInv == HostInv /\ DiskInv /\ StorageInv

\* What package does to the rest: it does not run beside a guest, and leaves a data disk
\* before one starts.
LEMMA PackagesFacts ==
    ASSUME PackagingNext, source \in Sources, task \in {"size", "guest"} => disk # "absent"
    PROVE  /\ task # "guest" /\ source' \in Sources
           /\ task' \in {"size", "guest"} => disk' # "absent"
           /\ disk' = "absent" => disk = "absent"
           /\ disk = "absent" => disk' \in {"absent", "empty"}
<1>. USE DEF Goes, workspace
<1>1. CASE EditSource
  BY <1>1 DEF EditSource
<1>2. CASE \E command \in {"package", "run", "smoke"} : Begin(command)
  BY <1>2 DEF Begin
<1>3. CASE EnsureLimine \/ \E file \in {"other", "pinned"} : Download(file)
  BY <1>3 DEF EnsureLimine, Download
<1>4. CASE Verify \/ Extract \/ Cargo \/ Bundle \/ Stage \/ MakeImage
  BY <1>4 DEF Verify, Extract, Cargo, Bundle, Stage, MakeImage
<1>5. CASE KeepDataDisk \/ CreateDataDisk \/ SizeDataDisk
  BY <1>5 DEF KeepDataDisk, CreateDataDisk, SizeDataDisk, Packaged
<1>6. CASE Aborts \/ Refuses
  BY <1>6 DEF Aborts, Refuses, CutsShort, CopyCutShort
<1>. QED  BY <1>1, <1>2, <1>3, <1>4, <1>5, <1>6 DEF PackagingNext

\* The files that a boot seeds are some of the workspace's, so they are those of a
\* directory (load_boot_files).
LEMMA MutableIsSeedable ==
    ASSUME HostInv, guest \in {"mount", "running"}
    PROVE  Seedable(Mutable)
<1>. DEFINE S == {p \in DOMAIN booted : p[1] # "sys"}
            T == {<<p, booted[p]>> : p \in S}
            n == Cardinality(T)
<1>1. booted = Entries(source) /\ source \in Sources /\ \A p \in DOMAIN booted : p[1] \in Roots
  BY DEF HostInv
<1>2. DOMAIN booted \subseteq DOMAIN source
  BY <1>1 DEF Entries
<1>3. IsFiniteSet(DOMAIN source) /\ DOMAIN source \subseteq Paths /\ Separate(DOMAIN source)
  BY <1>1, SourcesAssumption
<1>4. IsFiniteSet(S)
  BY <1>2, <1>3, FS_Subset
<1>5. ExistsBijection(S, T)
  <2>1. PICK f : f = [p \in S |-> <<p, booted[p]>>]
    BY Zenon
  <2>2. f \in Injection(S, T)
    BY <2>1 DEF Injection, IsInjective
  <2>3. f \in Surjection(S, T)
    BY <2>1, Zenon DEF Surjection
  <2>. QED  BY <2>2, <2>3 DEF ExistsBijection, Bijection
<1>6. IsFiniteSet(T)
  BY <1>4, <1>5, FS_Bijection
<1>. HIDE DEF T
<1>7. n \in Nat /\ ExistsBijection(1 .. n, T)
  BY <1>6, FS_CardinalityType
<1>8. \E f \in [1 .. n -> T] : IsInjective(f)
  BY <1>7 DEF ExistsBijection, Bijection, Injection
<1>9. Mutable = CHOOSE f \in [1 .. n -> T] : IsInjective(f)
  BY DEF Mutable, T
<1>10. Mutable \in [1 .. n -> T]
  BY <1>8, <1>9
<1>11. Len(Mutable) = n
  <2>1. Mutable \in Seq(T)
    BY <1>7, <1>10
  <2>. QED  BY <1>7, <1>10, <2>1
<1>12. \A p \in Given(Mutable) : p \in S
  <2>1. \A x \in T : x[1] \in S
    BY DEF T
  <2>. QED  BY <1>10, <1>11, <2>1 DEF Given
<1>13. \A p \in S : p \in DOMAIN source /\ p \in Paths /\ p[1] \in Mounts
  BY <1>1, <1>2, <1>3, MountsAssumption
<1>. QED  BY <1>3, <1>7, <1>11, <1>12, <1>13, ZenonT(30) DEF Seedable, OnMount, Separate

\* What a step that leaves the host's files alone keeps of HostInv.
LEMMA WorkspaceKeeps ==
    ASSUME HostInv, UNCHANGED packaging
    PROVE  /\ PackagingInv' /\ source' = source /\ task' = task /\ disk' = disk /\ goal' = goal
           /\ Entries(source)' = Entries(source)
<1>1. PackagingInv'
  BY PackagingKeeps DEF HostInv
<1>. QED  BY <1>1 DEF packaging, workspace, Entries

\* The command ends: the verdict is passed only when the log had the answer.
LEMMA EndsKeeps ==
    ASSUME HostInv, NEW result, Ends(result), result = "passed" => booted = Entries(source)
    PROVE  HostInv'
<1>1. PackagingInv'
  BY PackagingKeeps DEF Ends, HostInv
<1>2. /\ task' = "idle" /\ source' = source /\ guest' = "none" /\ verdict' = result
      /\ result = "passed" => booted' = booted
  BY DEF Ends, Leaves, workspace
<1>3. Entries(source)' = Entries(source)
  BY <1>2 DEF Entries
<1>. QED  BY <1>1, <1>2, <1>3 DEF HostInv

\* Every step keeps what the host and the kernel have.
LEMMA HostKeeps ==
    ASSUME HostInv, [MachineNext]_mvars
    PROVE  HostInv'
<1>1. CASE Packages
  <2>1. PackagingNext /\ verdict' = "none" /\ booted' = EmptyDirectory /\ guest' = guest
    BY <1>1 DEF Packages
  <2>2. /\ task # "guest" /\ source' \in Sources
        /\ task' \in {"size", "guest"} => disk' # "absent"
    BY <2>1, PackagesFacts DEF HostInv
  <2>3. PackagingInv' /\ guest = "none"
    BY <2>1, <2>2, PackagingKeeps DEF HostInv
  <2>. QED  BY <2>1, <2>2, <2>3 DEF HostInv
<1>2. CASE Launch
  BY <1>2, WorkspaceKeeps DEF Launch, HostInv
<1>3. CASE LaunchFails
  BY <1>3, EndsKeeps DEF LaunchFails
<1>4. CASE LoadKernel
  <2>1. /\ guest = "loader" /\ guest' \in {"heap", "halted"} /\ booted' = booted /\ log' = log
        /\ verdict' = verdict /\ UNCHANGED packaging
    BY <1>4 DEF LoadKernel, harness
  <2>. QED  BY <2>1, WorkspaceKeeps, Zenon DEF HostInv
<1>5. CASE \E map \in MemoryMaps : StartHeap(map)
  <2>1. /\ guest = "heap" /\ guest' \in {"modules", "halted"} /\ booted' = booted /\ log' = log
        /\ verdict' = verdict /\ UNCHANGED packaging
    BY <1>5 DEF StartHeap, harness
  <2>. QED  BY <2>1, WorkspaceKeeps DEF HostInv
<1>6. CASE LoadModules
  <2>1. /\ guest = "modules" /\ booted' = LoadBootFiles(iso.files) /\ log' = log /\ verdict' = verdict
        /\ guest' = IF booted' = EmptyDirectory THEN "halted" ELSE "mount"
        /\ UNCHANGED packaging
    BY <1>6 DEF LoadModules, harness
  <2>2. iso.files = Entries(source) /\ task = "guest"
    BY <2>1, ZenonT(30) DEF HostInv, PackagingInv
  <2>3. booted' # EmptyDirectory => booted' = Entries(source) /\ \A p \in DOMAIN booted' : p[1] \in Roots
    BY <2>1, <2>2, ZenonT(30) DEF LoadBootFiles
  <2>4. verdict # "passed"
    BY <2>2, ZenonT(30) DEF HostInv
  <2>. QED  BY <2>1, <2>2, <2>3, <2>4, WorkspaceKeeps DEF HostInv
<1>7. CASE Transfers \/ Stores \/ Used(Operation) \/ Used((MountsDisk \/ PowerLoss) /\ UNCHANGED operations)
  <2>1. guest' = guest /\ booted' = booted /\ log' = log /\ verdict' = verdict /\ UNCHANGED packaging
    BY <1>7 DEF Transfers, Stores, Used, harness
  <2>. QED  BY <2>1, WorkspaceKeeps DEF HostInv
<1>8. CASE Mount
  <2>1. /\ guest = "mount" /\ guest' = "running" /\ booted' = booted /\ log' = log
        /\ verdict' = verdict /\ UNCHANGED packaging
    BY <1>8 DEF Mount, harness
  <2>. QED  BY <2>1, WorkspaceKeeps DEF HostInv
<1>9. CASE Outputs
  <2>1. /\ guest = "running" /\ guest' = guest /\ booted' = booted /\ verdict' = verdict
        /\ UNCHANGED packaging
    BY <1>9 DEF Outputs
  <2>. QED  BY <2>1, WorkspaceKeeps DEF HostInv
<1>10. CASE QemuExits
  <2>1. /\ guest # "none" /\ guest' = "gone" /\ booted' = booted /\ log' = log
        /\ verdict' = verdict /\ UNCHANGED packaging
    BY <1>10 DEF QemuExits, harness
  <2>. QED  BY <2>1, WorkspaceKeeps, Zenon DEF HostInv
<1>11. CASE Returns
  BY <1>11, EndsKeeps DEF Returns
<1>12. CASE WaitForLog
  <2>1. CASE Ends("failed")
    BY <2>1, EndsKeeps
  <2>2. CASE waiting \in log /\ Looking /\ Ends("passed")
    BY <2>2, EndsKeeps, ZenonT(30) DEF Looking, HostInv
  <2>3. CASE guest' = guest /\ booted' = booted /\ log' = log /\ verdict' = verdict /\ UNCHANGED packaging
    BY <2>3, WorkspaceKeeps, Zenon DEF HostInv
  <2>. QED  BY <1>12, <2>1, <2>2, <2>3 DEF WaitForLog, Found, Sleeps
<1>13. CASE UNCHANGED mvars
  <2>1. guest' = guest /\ booted' = booted /\ log' = log /\ verdict' = verdict /\ UNCHANGED packaging
    BY <1>13 DEF mvars, harness
  <2>. QED  BY <2>1, WorkspaceKeeps DEF HostInv
<1>. QED
  BY <1>1, <1>2, <1>3, <1>4, <1>5, <1>6, <1>7, <1>8, <1>9, <1>10, <1>11, <1>12, <1>13, SMTT(30)
     DEF MachineNext

\* What a step means to the file system: the packaging replaces its disk, it goes on as the
\* kernel runs, it loses power, or it is left alone.
LEMMA StorageEffect ==
    ASSUME [MachineNext]_mvars
    PROVE  \/ Packages
           \/ /\ guest \in {"mount", "running"} /\ guest' = "running" /\ UNCHANGED packaging
              /\ StorageStep(Mutable)
           \/ PowerLoss /\ UNCHANGED disk /\ guest' # "running"
           \/ UNCHANGED storage /\ UNCHANGED disk /\ (guest' = "running" <=> guest = "running")
<1>. USE DEF StorageStep
<1>1. CASE Launch \/ LoadKernel \/ LoadModules \/ Outputs
  BY <1>1 DEF Launch, LoadKernel, LoadModules, Outputs, packaging, workspace
<1>2. CASE (\E map \in MemoryMaps : StartHeap(map)) \/ Transfers
  BY <1>2 DEF StartHeap, Transfers, packaging, workspace
<1>3. CASE Mount \/ Stores
  BY <1>3 DEF Mount, Stores, MountsDisk
<1>4. CASE Used(Operation) \/ Used((MountsDisk \/ PowerLoss) /\ UNCHANGED operations)
  BY <1>4 DEF Used, MountsDisk
<1>5. ASSUME NEW result, Ends(result) PROVE PowerLoss /\ UNCHANGED disk /\ guest' # "running"
  BY <1>5 DEF Ends, MachineOff, Leaves, workspace
<1>6. CASE LaunchFails \/ Returns
  BY <1>5, <1>6 DEF LaunchFails, Returns
<1>7. CASE QemuExits
  BY <1>7 DEF QemuExits, MachineOff, packaging, workspace
<1>8. CASE WaitForLog
  <2>1. CASE \E result \in {"failed", "passed"} : Ends(result)
    BY <1>5, <2>1
  <2>2. CASE UNCHANGED <<packaging, memory, storage, guest>>
    BY <2>2 DEF packaging, workspace
  <2>. QED  BY <1>8, <2>1, <2>2 DEF WaitForLog, Found, Sleeps
<1>9. CASE UNCHANGED mvars
  BY <1>9 DEF mvars, packaging, workspace
<1>. QED  BY <1>1, <1>2, <1>3, <1>4, <1>6, <1>7, <1>8, <1>9, ZenonT(30) DEF MachineNext

\* Package and run commands, edits, guests and their users keep the invariant.
LEMMA MachineKeeps ==
    ASSUME MachineInv, [MachineNext]_mvars
    PROVE  MachineInv'
<1>0. HostInv /\ DiskInv /\ StorageInv
  BY DEF MachineInv
<1>1. HostInv'
  BY <1>0, HostKeeps
<1>2. CASE Packages
  <2>1. /\ PackagingNext /\ guest' = guest /\ online' = online /\ pending' = pending
        /\ tree' = tree /\ previous' = previous /\ phase' = phase /\ step' = step
        /\ IF disk = "absent" /\ disk' = "empty"
           THEN committed' = NoTree /\ attempted' = {} /\ touched' = FALSE
           ELSE UNCHANGED <<committed, attempted, touched>>
    BY <1>2 DEF Packages
  <2>2. task # "guest" /\ (disk' = "absent" => disk = "absent")
    BY <1>0, <2>1, PackagesFacts DEF HostInv
  <2>3. guest = "none" /\ phase = "off" /\ pending = NoTree
    BY <1>0, <2>2 DEF HostInv, DiskInv
  <2>4. DiskInv'
    BY <1>0, <2>1, <2>2 DEF DiskInv
  <2>5. StorageInv'
    BY <1>0, <2>1, <2>3, Zenon DEF StorageInv
  <2>. QED  BY <1>1, <2>4, <2>5 DEF MachineInv
<1>3. CASE /\ guest \in {"mount", "running"} /\ guest' = "running" /\ UNCHANGED packaging
           /\ StorageStep(Mutable)
  <2>1. Seedable(Mutable)
    BY <1>0, <1>3, MutableIsSeedable
  <2>2. StorageInv'
    BY <1>0, <1>3, <2>1, StorageStepKeeps
  <2>3. disk' # "absent"
    BY <1>0, <1>3 DEF HostInv, packaging, workspace
  <2>. QED  BY <1>1, <1>3, <2>2, <2>3 DEF MachineInv, DiskInv
<1>4. CASE PowerLoss /\ UNCHANGED disk /\ guest' # "running"
  <2>1. StorageInv'
    BY <1>0, <1>4, OffKeeps
  <2>2. /\ phase' = "off" /\ online' = FALSE /\ pending' = NoTree /\ disk' = disk
        /\ committed' = committed /\ attempted' = attempted /\ touched' = touched
    BY <1>4 DEF PowerLoss, Store!PowerLoss
  <2>. QED  BY <1>0, <1>1, <2>1, <2>2 DEF MachineInv, DiskInv
<1>5. CASE UNCHANGED storage /\ UNCHANGED disk /\ (guest' = "running" <=> guest = "running")
  <2>1. StorageInv'
    BY <1>0, <1>5, StorageStutters DEF storage
  <2>2. /\ phase' = phase /\ online' = online /\ pending' = pending /\ disk' = disk
        /\ committed' = committed /\ attempted' = attempted /\ touched' = touched
    BY <1>5 DEF storage, vars, register
  <2>. QED  BY <1>0, <1>1, <1>5, <2>1, <2>2 DEF MachineInv, DiskInv
<1>. QED  BY <1>2, <1>3, <1>4, <1>5, StorageEffect

-----------------------------------------------------------------------------
(***************************************************************************)
(* The theorems about the machine.                                         *)
(***************************************************************************)

\* Commands, edits, guests, their users and power losses in any order keep the invariant
\* (xtask, _start, BareMetalPlatform).
THEOREM MachineInvariant == MachineSpec => []MachineInv
<1>1. MachineInit => MachineInv
  <2>. SUFFICES ASSUME MachineInit PROVE MachineInv
    OBVIOUS
  <2>1. HostInv
    BY DEF MachineInit, PackagingInit, PackagingInv, HostInv
  <2>2. DiskInv
    BY DEF MachineInit, Init, Store!Init, DiskInv
  <2>3. StorageInv
    BY StorageInitially DEF MachineInit
  <2>. QED  BY <2>1, <2>2, <2>3 DEF MachineInv
<1>. QED  BY <1>1, MachineKeeps, PTL DEF MachineSpec

\* No operation, failure or power loss makes a tree, in memory or on the disk, in which a
\* path is a file and a directory, a parent is missing, or an entry is outside the mounts
\* (add_parents, storage_remove, storage_rename).
THEOREM TreesStayWellFormed == MachineSpec => []WellFormed
<1>1. MachineInv => WellFormed
  BY StorageInvImplies DEF MachineInv
<1>. QED  BY <1>1, MachineInvariant, PTL

\* Between operations the files in memory are those on the disk, whatever failed before
\* (commit).
THEOREM FilesStayDurable == MachineSpec => []FilesDurable
<1>1. MachineInv => FilesDurable
  BY StorageInvImplies DEF MachineInv
<1>. QED  BY <1>1, MachineInvariant, PTL

\* A rename, of a file or of a directory with all that is below it, loses, duplicates and
\* changes no file (storage_rename, rebased).
THEOREM RenamesAreExact == MachineSpec => []RenameMovesSubtree
<1>1. MachineInv => RenameMovesSubtree
  BY RenamesMove DEF MachineInv
<1>. QED  BY <1>1, MachineInvariant, PTL

\* A boot that reaches the shell has its layout and its marker on the disk
\* (initialize_layout, System::initialize).
THEOREM BootsAreComplete == MachineSpec => BootCompletesLayout
<1>1. MachineInv /\ [MachineNext]_mvars =>
          [phase = "layout" /\ phase' = "ready" =>
              Exists(committed', Marker) /\ Range(Layout) \subseteq committed'.dirs]_vars
  <2>. SUFFICES ASSUME MachineInv, [MachineNext]_mvars, phase = "layout", phase' = "ready"
                PROVE  Exists(committed', Marker) /\ Range(Layout) \subseteq committed'.dirs
    OBVIOUS
  <2>1. ~Packages /\ ~PowerLoss /\ ~UNCHANGED storage
    BY DEF Packages, PowerLoss, storage, vars
  <2>2. StorageStep(Mutable)
    BY <2>1, StorageEffect
  <2>. QED  BY <2>2, BootCompletes DEF MachineInv
<1>. QED  BY <1>1, MachineInvariant, PTL DEF MachineSpec, BootCompletesLayout

\* A kernel that runs, and a smoke test that passed, had exactly the files of the workspace
\* (package, load_boot_files, smoke_boot).
THEOREM KernelsHaveSource == MachineSpec => []ImageIsSource
<1>1. MachineInv => ImageIsSource
  BY DEF MachineInv, HostInv, ImageIsSource
<1>. QED  BY <1>1, MachineInvariant, PTL

\* Outside a guest no command, edit, failure or interruption changes what the next guest
\* finds on the data disk (package, ensure_data_disk).
THEOREM DisksArePreserved == MachineSpec => DataDiskPreserved
<1>1. MachineInv /\ [MachineNext]_mvars => [guest = "none" => register' = register]_mvars
  <2>. SUFFICES ASSUME MachineInv, [MachineNext]_mvars, guest = "none"
                PROVE  /\ online' = online /\ pending' = pending /\ committed' = committed
                       /\ attempted' = attempted /\ touched' = touched
    BY DEF register
  <2>1. DiskInv /\ online = FALSE /\ pending = NoTree
    BY DEF MachineInv, DiskInv
  <2>2. CASE Packages
    BY <2>1, <2>2, Zenon DEF Packages, DiskInv
  <2>3. CASE PowerLoss
    BY <2>1, <2>3, Zenon DEF PowerLoss, Store!PowerLoss
  <2>4. CASE UNCHANGED storage
    BY <2>4 DEF storage, vars, register
  <2>. QED  BY <2>2, <2>3, <2>4, StorageEffect
<1>. QED  BY <1>1, MachineInvariant, PTL DEF MachineSpec, DataDiskPreserved

=============================================================================

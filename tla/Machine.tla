------------------------------ MODULE Machine ------------------------------
(***************************************************************************)
(* cargo xtask package, run and smoke from end to end: the image that      *)
(* Packaging makes, QEMU, the kernel's start (_start and load_boot_files   *)
(* in platforms/bare-metal/src/main.rs) with its heap and its transfers    *)
(* (Memory), its file system (BareMetalStorage) on the data disk, and the  *)
(* harness that waits for the prompt and for the answer in the log         *)
(* (xtask/src/main.rs).                                                    *)
(***************************************************************************)
EXTENDS Packaging, Memory, BareMetalStorage

CONSTANTS
    PromptTimeout, AnswerTimeout,   \* looks at the log before wait_for_log gives up
    UseBound        \* bound: operations of guests after which a command is still followed

VARIABLES
    guest,      \* "none" | "loader" | "heap" | "modules" | "mount" | "running" | "halted" | "gone"
    booted,     \* the files that the kernel took over from the boot loader
    log,        \* what of the prompt and the answer the log has
    waiting,    \* what the harness waits for: "prompt" | "answer"
    waited,
    verdict     \* of the last command, if that was smoke: "passed" | "failed"; else "none"

storage == vars
harness == <<log, waiting, waited, verdict>>
mvars == <<packaging, memory, storage, guest, booted, harness>>

Roots == {"sys", "apps", "user"}

\* fs/ is a directory: it has finitely many files, with a name each, and none below another.
ASSUME SourcesAssumption ==
    \A directory \in Sources :
        /\ IsFiniteSet(DOMAIN directory) /\ DOMAIN directory \subseteq Paths
        /\ Separate(DOMAIN directory)
ASSUME MountsAssumption == Roots \ {"sys"} \subseteq Mounts

-----------------------------------------------------------------------------
(***************************************************************************)
(* The guest starts.                                                       *)
(***************************************************************************)

\* qemu_command and its start; smoke_boot makes a new log.
Launch ==
    /\ task = "guest" /\ guest = "none"
    /\ guest' = "loader"
    /\ log' = IF goal = "smoke" THEN {} ELSE log
    /\ UNCHANGED <<packaging, memory, storage, booted, waiting, waited, verdict>>

\* The firmware starts the loader of the image, and that the kernel; or nothing happens.
LoadKernel ==
    /\ guest = "loader"
    /\ guest' = IF iso.loader = "whole" THEN "heap" ELSE "halted"
    /\ UNCHANGED <<packaging, memory, storage, booted, harness>>

\* initialize_heap; without a suitable region the kernel fails.
StartHeap(map) ==
    /\ guest = "heap"
    /\ \/ \E i \in DOMAIN map : InitializeHeap(map, i) /\ guest' = "modules"
       \/ /\ \A i \in DOMAIN map : ~Suitable(map[i])
          /\ guest' = "halted" /\ UNCHANGED memory
    /\ UNCHANGED <<packaging, storage, booted, harness>>

\* load_boot_files: the files, or none of them if one lies outside the three roots or
\* none is a system file.  The paths of a directory's files are normalized.
LoadBootFiles(modules) ==
    IF /\ \A p \in DOMAIN modules : p[1] \in Roots
       /\ \E p \in DOMAIN modules : p[1] = "sys"
    THEN modules ELSE EmptyDirectory

LoadModules ==
    /\ guest = "modules"
    /\ booted' = LoadBootFiles(iso.files)
    /\ guest' = IF booted' = EmptyDirectory THEN "halted" ELSE "mount"
    /\ UNCHANGED <<packaging, memory, storage, harness>>

\* The drivers exchange data with their devices.  It is followed on first boots, which
\* are then not followed further.
Transfers ==
    /\ guest = "mount" /\ goal = "run" /\ committed = NoTree /\ attempted = {}
    /\ Transfer
    /\ UNCHANGED <<packaging, storage, guest, booted, harness>>

Mutable ==
    LET files == {<<p, booted[p]>> : p \in {p \in DOMAIN booted : p[1] # "sys"}}
    IN  CHOOSE order \in [1 .. Cardinality(files) -> files] : IsInjective(order)

\* BareMetalPlatform::new; a disk without blocks is an error.
MountsDisk == (disk # "empty" /\ Boot(Mutable)) \/ BootFails

Mount ==
    /\ guest = "mount" /\ ram = [p \in {} |-> Blank] /\ shared = [b \in Buffers |-> Waiting]
    /\ MountsDisk
    /\ guest' = "running"
    /\ UNCHANGED <<packaging, memory, operations, booted, harness>>

-----------------------------------------------------------------------------
(***************************************************************************)
(* The guest runs.                                                         *)
(***************************************************************************)

\* The rest of the boot, and the saves.
Stores ==
    /\ guest = "running"
    /\ SaveSeed \/ CreateLayout \/ MarkInitialized \/ SaveSucceeds \/ SaveFails
    /\ UNCHANGED <<packaging, memory, operations, guest, booted, harness>>

\* The user of a run works with files, and may turn the machine off and on again, as one
\* that has the image on a disk of its own; it is followed until there was a smoke test.
Used(action) ==
    /\ guest = "running" /\ goal = "run" /\ log = {}
    /\ action
    /\ UNCHANGED <<packaging, memory, guest, booted, harness>>

\* The shell prompts, and runs the command that it got; its output is the log.
Outputs ==
    /\ guest = "running" /\ phase = "ready" /\ goal = "smoke"
    /\ log' = log \cup {waiting}
    /\ UNCHANGED <<packaging, memory, storage, guest, booted, waiting, waited, verdict>>

\* The guest's memory is lost; what it saved is on the disk.
MachineOff ==
    /\ heap' = NoHeap /\ rings' = {} /\ ram' = [p \in {} |-> Blank]
    /\ shared' = [b \in Buffers |-> Waiting]
    /\ PowerLoss /\ UNCHANGED operations

\* QEMU ends: the user closes it, or the guest resets (-no-reboot).
QemuExits ==
    /\ guest \notin {"none", "gone"} /\ operations <= UseBound
    /\ guest' = "gone"
    /\ MachineOff
    /\ UNCHANGED <<packaging, booted, harness>>

-----------------------------------------------------------------------------
(***************************************************************************)
(* xtask waits for the guest.                                              *)
(***************************************************************************)

\* The command ends, and the guest with it.
Ends(result) ==
    /\ Leaves /\ guest' = "none"
    /\ verdict' = result
    /\ booted' = IF result = "passed" THEN booted ELSE EmptyDirectory
    /\ waiting' = "prompt" /\ waited' = 0
    /\ log' = IF goal = "smoke" /\ guest = "none" THEN {} ELSE log
    /\ MachineOff

\* QEMU cannot be started, or the firmware's variables cannot be copied; smoke_boot has
\* made its log by then.
LaunchFails ==
    /\ task = "guest" /\ guest = "none"
    /\ Ends(IF goal = "smoke" THEN "failed" ELSE "none")

\* run_command, in run_qemu.
Returns == goal = "run" /\ guest = "gone" /\ Ends("none")

Timeout == IF waiting = "prompt" THEN PromptTimeout ELSE AnswerTimeout

\* smoke_boot has its prompt, and writes the command unless QEMU is gone; or its answer.
Found ==
    \/ /\ waiting = "prompt" /\ guest # "gone"
       /\ waiting' = "answer" /\ waited' = 0
       /\ UNCHANGED <<packaging, memory, storage, guest, booted, log, verdict>>
    \/ waiting = "prompt" /\ guest = "gone" /\ Ends("failed")
    \/ waiting = "answer" /\ Ends("passed")

Sleeps ==
    /\ waited' = waited + 1
    /\ UNCHANGED <<packaging, memory, storage, guest, booted, log, waiting, verdict>>

Looking == task = "guest" /\ goal = "smoke" /\ guest # "none"

\* Mutation: it waits as long as QEMU runs.
WaitForLog_NoTimeout ==
    /\ Looking
    /\ \/ waiting \in log /\ Found
       \/ waiting \notin log /\ guest = "gone" /\ Ends("failed")
       \/ waiting \notin log /\ guest # "gone" /\ waited < Timeout /\ Sleeps

\* One round of wait_for_log, and what smoke_boot does with its result.
WaitForLog ==
    /\ Looking
    /\ \/ waiting \in log /\ Found
       \/ waiting \notin log /\ (guest = "gone" \/ waited >= Timeout) /\ Ends("failed")
       \/ waiting \notin log /\ guest # "gone" /\ waited < Timeout /\ Sleeps

-----------------------------------------------------------------------------

MachineInit ==
    /\ PackagingInit /\ MemoryInit /\ Init
    /\ guest = "none" /\ booted = EmptyDirectory
    /\ log = {} /\ waiting = "prompt" /\ waited = 0 /\ verdict = "none"

\* A new command or an edit of the sources makes the last verdict void.  A disk that is
\* created holds nothing.
Packages ==
    /\ PackagingNext
    /\ verdict' = "none" /\ booted' = EmptyDirectory
    /\ IF disk = "absent" /\ disk' = "empty"
       THEN committed' = NoTree /\ attempted' = {} /\ touched' = FALSE
       ELSE UNCHANGED <<committed, attempted, touched>>
    /\ UNCHANGED <<memory, tree, previous, phase, step, reply, operations, online, pending>>
    /\ UNCHANGED <<guest, log, waiting, waited>>

MachineNext ==
    \/ Packages
    \/ Launch \/ LaunchFails \/ LoadKernel
    \/ \E map \in MemoryMaps : StartHeap(map)
    \/ LoadModules \/ Transfers \/ Mount \/ Stores
    \/ Used(Operation)
    \/ Used((MountsDisk \/ PowerLoss) /\ UNCHANGED operations)
    \/ Outputs \/ QemuExits \/ Returns \/ WaitForLog

\* xtask goes on once it has its image; that a guest starts, answers or ends is not
\* assumed.
MachineSpec ==
    MachineInit /\ [][MachineNext]_mvars /\ WF_mvars(Launch) /\ WF_mvars(WaitForLog)

-----------------------------------------------------------------------------
(***************************************************************************)
(* Properties.                                                             *)
(***************************************************************************)

\* A kernel that runs, and a smoke test that passed, had the files of the workspace and
\* no others, whatever interrupted commands and edits left behind (package,
\* load_boot_files, smoke_boot).
ImageIsSource == guest = "running" \/ verdict = "passed" => booted = Entries(source)

\* "Repackaging preserves an existing image" (docs/BARE_METAL.md): outside a guest nothing
\* changes what the next one will find on the data disk (package, ensure_data_disk).
DataDiskPreserved == [][guest = "none" => register' = register]_mvars

\* A smoke test ends, and its guest is gone, also if the guest never starts, halts, exits
\* or does not answer (smoke_boot, wait_for_log, terminate).
SmokeEnds == (task = "guest" /\ goal = "smoke") ~> (task = "idle" /\ guest = "none")

=============================================================================

-------------------------- MODULE BareMetalStorage --------------------------
(***************************************************************************)
(* The writable file system of the bare-metal platform: boot, the storage  *)
(* operations as the VFS passes them on, and persistence.                  *)
(*                                                                         *)
(* BareMetalPlatform keeps the whole tree in memory and saves all of it    *)
(* after every change; a save that fails restores the tree it replaced.    *)
(* The snapshot store is the abstract register that SnapshotStore          *)
(* implements: its steps are the steps below, so a power loss can come at  *)
(* any point of a save and leave either tree.                              *)
(***************************************************************************)
EXTENDS FileTree, FiniteSets

CONSTANTS
    Mounts,         \* the first components that persist: apps, user
    Layout,         \* the directories of initialize_layout, in order
    Marker,         \* INITIALIZED_PATH
    InitialFiles,   \* the boot modules that seed the tree: sequence of <<path, data>>
    Arguments,      \* the paths that callers pass, outside the mounts too
    Data,           \* file contents
    AttemptBound,   \* bound on the trees saved in vain since the last successful save
    DepthBound,     \* bound on the length of paths
    OperationBound, \* bound on the operations that callers begin
    Trees,          \* every file tree (never enumerated)
    NoTree          \* what a disk without a snapshot holds

\* Directories and files of the platform lie below its mounts.
OnMount(p) == p \in Paths /\ p[1] \in Mounts

\* The files of one directory: a boot module has no other one below it.
Separate(files) == \A p, q \in files : ~IsStrictPrefix(p, q)

ASSUME StorageAssumption ==
    /\ Arguments \subseteq Names
    /\ Layout \in Seq(Paths) /\ \A i \in DOMAIN Layout : OnMount(Layout[i])
    /\ OnMount(Marker)
    /\ "files" \notin DOMAIN NoTree

ASSUME InitialFilesAssumption ==
    /\ InitialFiles \in Seq(Paths \X Data)
    /\ \A i \in DOMAIN InitialFiles : OnMount(InitialFiles[i][1])
    /\ Separate({InitialFiles[i][1] : i \in DOMAIN InitialFiles})

VARIABLES
    tree,           \* platform.tree
    previous,       \* the tree to restore if the save in progress fails, else empty
    phase,          \* "off" | "seed" | "layout" | "ready" | "halted"
    step,           \* the next directory of initialize_layout, then the marker
    reply,          \* what the last operation returned: "none" | "ok" | "error"
    operations,     \* operations begun, for the bound only
    \* The snapshot store:
    online, pending, committed, attempted, touched

register == <<online, pending, committed, attempted, touched>>
vars == <<tree, previous, phase, step, reply, operations, register>>

Store == INSTANCE RecoverableRegister

Idle == pending = NoTree
Shallow(t) == \A p \in Files(t) \cup t.dirs : Len(p) <= DepthBound

-----------------------------------------------------------------------------
(***************************************************************************)
(* commit: save the tree t that replaced the current one.                  *)
(***************************************************************************)

\* Mutation: the boot ends one step early, before the marker.
Continue_OneShort ==
    CASE phase = "seed" -> phase' = "layout" /\ step' = 1
      [] phase = "layout" -> /\ step' = step + 1
                             /\ phase' = IF step >= Len(Layout) THEN "ready" ELSE "layout"
      [] phase = "ready" -> UNCHANGED <<phase, step>>

\* What follows a save that succeeded: the boot goes on, an operation returns.
Continue ==
    CASE phase = "seed" -> phase' = "layout" /\ step' = 1
      [] phase = "layout" -> /\ step' = step + 1
                             /\ phase' = IF step > Len(Layout) THEN "ready" ELSE "layout"
      [] phase = "ready" -> UNCHANGED <<phase, step>>

\* An error during the boot stops the machine; an operation returns it.
Abort ==
    /\ phase' = IF phase = "ready" THEN "ready" ELSE "halted"
    /\ reply' = "error"
    /\ UNCHANGED step

\* Mutation: a failed save leaves the tree as it is.
Rollback_Forgotten == UNCHANGED tree

\* self.tree = previous.
Rollback == tree' = previous

Save(t) ==
    /\ Shallow(t) /\ Cardinality(attempted \cup {t}) <= AttemptBound
    /\ tree' = t /\ previous' = tree
    /\ reply' = "none"
    /\ Store!BeginSave(t) /\ pending' = t
    /\ UNCHANGED <<phase, step>>

\* The store refuses the tree without touching the device.
SaveRefused(t) ==
    /\ Shallow(t)
    /\ Abort
    /\ UNCHANGED <<tree, previous, register>>

SaveSucceeds ==
    /\ Store!Acknowledge
    /\ Continue
    /\ reply' = "ok"
    /\ previous' = EmptyTree
    /\ UNCHANGED tree

SaveFails ==
    /\ Store!FailSave
    /\ Rollback
    /\ Abort
    /\ previous' = EmptyTree

\* A storage method that leaves outcome.tree in memory and goes on from there.
Perform(outcome) ==
    \/ outcome.next = "commit" /\ (Save(outcome.tree) \/ SaveRefused(outcome.tree))
    \/ /\ outcome.next = "ok"
       /\ reply' = "ok"
       /\ UNCHANGED <<tree, previous, phase, step, register>>
    \/ /\ outcome.next = "error"
       /\ tree' = outcome.tree
       /\ Abort
       /\ UNCHANGED <<previous, register>>
-----------------------------------------------------------------------------
(***************************************************************************)
(* Boot: BareMetalPlatform::new, then System::initialize(false).           *)
(***************************************************************************)

\* The loop over initial_files.
SeedFile(seeded, file) ==
    LET made == AddParents(seeded.tree, Parent(file[1])) IN
    IF seeded.next = "error" THEN seeded
    ELSE IF ~made.ok THEN Fails(made.tree)
    ELSE Commits([made.tree EXCEPT !.files = Insert(@, file[1], file[2])])
Seeded(initial) ==
    LET after[n \in 0 .. Len(initial)] ==
            IF n = 0 THEN Commits(EmptyTree) ELSE SeedFile(after[n - 1], initial[n])
    IN  after[Len(initial)]

\* SnapshotStore::open succeeds; an empty tree is seeded.
Boot(initial) ==
    /\ phase = "off"
    /\ Store!Open
    /\ LET restored == IF committed' = NoTree THEN EmptyTree ELSE committed' IN
       IF restored # EmptyTree THEN tree' = restored /\ phase' = "layout"
       ELSE /\ tree' = Seeded(initial).tree
            /\ phase' = IF Seeded(initial).next = "error" THEN "halted" ELSE "seed"
    /\ step' = 1
    /\ UNCHANGED <<previous, reply>>

\* SnapshotStore::open fails: the kernel stops.
BootFails ==
    /\ phase = "off"
    /\ phase' = "halted"
    /\ UNCHANGED <<tree, previous, step, reply, register>>

\* persist of the seeded tree (on an error the platform is dropped with its tree).
SaveSeed == phase = "seed" /\ Idle /\ (Save(tree) \/ SaveRefused(tree))

\* initialize_layout.
CreateLayout ==
    /\ phase = "layout" /\ Idle
    /\ step <= Len(Layout)
    /\ Perform(StorageCreateDirAll(tree, Layout[step]))

\* System::initialize writes the marker unless it is there.
MarkInitialized ==
    /\ phase = "layout" /\ Idle
    /\ step > Len(Layout)
    /\ IF Exists(tree, Marker)
       THEN /\ phase' = "ready"
            /\ UNCHANGED <<tree, previous, step, reply, register>>
       ELSE \E d \in Data : Perform(StorageWrite(tree, Marker, d))

-----------------------------------------------------------------------------
(***************************************************************************)
(* Operations, as Vfs routes them.                                         *)
(***************************************************************************)

\* persistent_path, and the refusals of paths below /sys.
Persistent(p) == p # <<>> /\ p[1] \in Mounts
Routed(p, outcome) == IF Persistent(p) THEN outcome ELSE Fails(tree)

Serving == phase = "ready" /\ Idle
Calls(outcome) ==
    /\ Serving /\ operations < OperationBound
    /\ operations' = operations + 1
    /\ Perform(outcome)

VfsWrite(p, d) == Calls(Routed(p, StorageWrite(tree, p, d)))

VfsCreateDirAll(p) == Calls(Routed(p, StorageCreateDirAll(tree, p)))

\* Vfs::remove refuses the directories of the layout.
VfsRemove(p) ==
    Calls(IF p \in Range(Layout) THEN Fails(tree) ELSE Routed(p, StorageRemove(tree, p)))

VfsRename(from, to) == Calls(Routed(from, Routed(to, StorageRename(tree, from, to))))

Operation ==
    \E p \in Arguments : \/ \E d \in Data : VfsWrite(p, d)
                         \/ VfsCreateDirAll(p) \/ VfsRemove(p)
                         \/ \E to \in Arguments : VfsRename(p, to)

PowerLoss ==
    /\ Store!PowerLoss
    /\ phase' = "off" /\ step' = 1
    /\ tree' = EmptyTree /\ previous' = EmptyTree
    /\ reply' = "none"

-----------------------------------------------------------------------------

Init ==
    /\ Store!Init
    /\ tree = EmptyTree /\ previous = EmptyTree
    /\ phase = "off" /\ step = 1 /\ reply = "none"
    /\ operations = 0

Next ==
    \/ /\ \/ Boot(InitialFiles) \/ BootFails \/ SaveSeed \/ CreateLayout \/ MarkInitialized
          \/ SaveSucceeds \/ SaveFails \/ PowerLoss
       /\ UNCHANGED operations
    \/ Operation

Spec == Init /\ [][Next]_vars

-----------------------------------------------------------------------------
(***************************************************************************)
(* Properties.                                                             *)
(***************************************************************************)

\* What an open may return, and the tree in memory.
Recoverable == Store!Outcomes \ {NoTree}

\* No sequence of operations, failures and power losses puts a file where a directory
\* is, leaves an entry without its parent directory, or puts one outside the mounts,
\* in memory or in any tree that a boot may recover (add_parents, storage_remove,
\* storage_rename).
WellFormed ==
    \A t \in {tree} \cup Recoverable :
        WellFormedTree(t) /\ \A p \in Files(t) \cup t.dirs : p[1] \in Mounts

\* Between operations every file in memory is the durable one, whatever failed before,
\* and every durable directory is there (commit and its roll-back).
FilesDurable ==
    Serving => tree.files = committed.files /\ committed.dirs \subseteq tree.dirs

\* A rename moves every file at or below its source to the corresponding path below
\* its target, and loses, duplicates or changes none (storage_rename, rebased).
RenameMovesSubtree ==
    Serving => \A from, to \in {p \in Arguments : Persistent(p)} :
        LET moved == StorageRename(tree, from, to).tree
            Image(p) == IF IsPrefix(from, p) THEN Rebased(p, from, to) ELSE p
        IN  StorageRename(tree, from, to).next = "commit" =>
                /\ Files(moved) = {Image(p) : p \in Files(tree)}
                /\ \A p \in Files(tree) : moved.files[Image(p)] = tree.files[p]
                /\ \A p, q \in Files(tree) : Image(p) = Image(q) => p = q

\* A boot that reaches the shell has the whole layout and the marker on the medium,
\* whatever crash or operation came before (initialize_layout, System::initialize).
BootCompletesLayout ==
    [][phase = "layout" /\ phase' = "ready" =>
          Exists(committed', Marker) /\ Range(Layout) \subseteq committed'.dirs]_vars

\* docs/FILESYSTEM.md: "`/apps` and `/user` changes survive reboots."  Between
\* operations what applications see is what a reboot would restore (storage_rename).
ChangesSurviveReboot == Serving => tree = committed

=============================================================================

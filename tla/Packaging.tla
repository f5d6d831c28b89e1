----------------------------- MODULE Packaging -----------------------------
(***************************************************************************)
(* cargo xtask package (xtask/src/main.rs): from the fs/ directory of the  *)
(* workspace and the downloaded boot loader to the boot image and the data *)
(* disk.  A command may fail at every step, or be interrupted there, and   *)
(* what it leaves behind is what the next command starts from.             *)
(*                                                                         *)
(* A directory is the function from the paths of its files (sequences of   *)
(* names) to their contents; Link is the content of a symbolic link.  A    *)
(* bundle has no use for directories without files: only files become      *)
(* modules of the boot loader.  The kernel executable, which cargo builds  *)
(* from the same workspace, is left out.                                   *)
(***************************************************************************)
EXTENDS Integers, Sequences

CONSTANTS
    Sources,        \* what fs/ of the workspace may hold
    Link,           \* a symbolic link
    MishapBound     \* bound: edits and failed commands since the last one that succeeded

EmptyDirectory == [p \in {} |-> Link]
NoImage == [loader |-> "absent", files |-> EmptyDirectory]

VARIABLES
    source,     \* fs/ of the workspace
    archive,    \* the download: "absent" | "other" | "pinned" (has the expected SHA-256)
    cache,      \* the loaders: "absent" (one is missing) | "torn" (both there, ours cut short) | "whole"
    bundle,     \* dist/<arch>/fs
    staging,    \* fs/ of the image directory under target/
    iso,        \* afos.iso
    disk,       \* afos-data.img: "absent" | "empty" (no blocks) | "whole"
    task,       \* where package is; "idle" outside a command, "guest" after it
    goal,       \* the command: "package" | "run" | "smoke"
    mishaps

workspace == <<source, archive, cache, bundle, staging, iso, disk>>
packaging == <<workspace, task, goal, mishaps>>

-----------------------------------------------------------------------------
(***************************************************************************)
(* Directories.                                                            *)
(***************************************************************************)

\* Mutation: what a directory held stays in it.
RecreateDirectory_Keeps(directory) == directory

RecreateDirectory(directory) == EmptyDirectory

\* The entries that copy_directory and collect_files look at.
Entries(directory) ==
    [p \in {p \in DOMAIN directory : \A i \in DOMAIN p : p[i] # ".gitkeep"} |-> directory[p]]

Into(directory, files) ==
    [p \in DOMAIN directory \cup DOMAIN files |->
        IF p \in DOMAIN files THEN files[p] ELSE directory[p]]

\* copy_directory: the first link it meets is an error.
Copyable(directory) == \A p \in DOMAIN Entries(directory) : directory[p] # Link
CopyDirectory(directory, from) == Into(RecreateDirectory(directory), Entries(from))

Part(directory, files) == [p \in files |-> directory[p]]

\* What a copy that does not come to its end may leave: it was still removing the old
\* files, or had copied some of the new ones.
CutShort(directory, from) ==
    {Part(directory, left) : left \in SUBSET DOMAIN directory} \cup
    {Into(RecreateDirectory(directory), Part(from, copied)) :
        copied \in SUBSET {p \in DOMAIN Entries(from) : from[p] # Link}}

-----------------------------------------------------------------------------
(***************************************************************************)
(* package, step by step.                                                  *)
(***************************************************************************)

Goes(from, to) == task = from /\ task' = to /\ UNCHANGED <<goal, mishaps>>

Begin(command) ==
    /\ task = "idle" /\ task' = "limine"
    /\ goal' = command
    /\ UNCHANGED <<workspace, mishaps>>

\* package returns Ok, and run_qemu or smoke goes on.
Packaged ==
    /\ task' = IF goal = "package" THEN "idle" ELSE "guest"
    /\ mishaps' = 0
    /\ UNCHANGED goal

\* The files are edited between two commands.
EditSource ==
    /\ task = "idle" /\ mishaps < MishapBound
    /\ source' \in Sources \ {source}
    /\ mishaps' = mishaps + 1
    /\ UNCHANGED <<archive, cache, bundle, staging, iso, disk, task, goal>>

\* ensure_limine: a cache with both loaders is used as it is, and recreated otherwise.
EnsureLimine ==
    /\ Goes("limine", IF cache = "absent" THEN "download" ELSE "cargo")
    /\ UNCHANGED workspace

Download(file) ==
    /\ Goes("download", "verify")
    /\ archive' = file
    /\ UNCHANGED <<source, cache, bundle, staging, iso, disk>>

\* verify_sha256.
Verify ==
    /\ archive = "pinned" /\ Goes("verify", "extract")
    /\ UNCHANGED workspace

Extract ==
    /\ Goes("extract", "cargo")
    /\ cache' = "whole"
    /\ UNCHANGED <<source, archive, bundle, staging, iso, disk>>

Cargo == Goes("cargo", "bundle") /\ UNCHANGED workspace

\* Mutation: the whole package directory is recreated.
Bundle_WholePackage ==
    /\ Copyable(source) /\ Goes("bundle", "stage")
    /\ bundle' = CopyDirectory(bundle, source)
    /\ disk' = "absent" /\ iso' = NoImage
    /\ UNCHANGED <<source, archive, cache, staging>>

\* recreate_directory of boot and fs, prepare_bundle_filesystem.
Bundle ==
    /\ Copyable(source) /\ Goes("bundle", "stage")
    /\ bundle' = CopyDirectory(bundle, source)
    /\ UNCHANGED <<source, archive, cache, staging, iso, disk>>

\* The staging directory, bundle_files and limine_config.
Stage ==
    /\ Copyable(bundle) /\ Goes("stage", "image")
    /\ staging' = CopyDirectory(staging, bundle)
    /\ UNCHANGED <<source, archive, cache, bundle, iso, disk>>

\* The old image is removed; create_uefi_boot_image and xorriso make the new one.
MakeImage ==
    /\ Goes("image", "disk")
    /\ iso' = [loader |-> cache, files |-> Entries(staging)]
    /\ UNCHANGED <<source, archive, cache, bundle, staging, disk>>

\* ensure_data_disk: what is a file is kept; else create, then set_len.
KeepDataDisk ==
    /\ task = "disk" /\ disk # "absent"
    /\ Packaged /\ UNCHANGED workspace

CreateDataDisk ==
    /\ disk = "absent" /\ Goes("disk", "size")
    /\ disk' = "empty"
    /\ UNCHANGED <<source, archive, cache, bundle, staging, iso>>

SizeDataDisk ==
    /\ task = "size" /\ Packaged
    /\ disk' = "whole"
    /\ UNCHANGED <<source, archive, cache, bundle, staging, iso>>

-----------------------------------------------------------------------------
(***************************************************************************)
(* The command fails.                                                      *)
(***************************************************************************)

\* What a step that is cut short leaves of the files that it writes.
CopyCutShort ==
    \/ /\ task = "bundle" /\ bundle' \in CutShort(bundle, source)
       /\ UNCHANGED <<source, archive, cache, staging, iso, disk>>
    \/ /\ task = "stage" /\ staging' \in CutShort(staging, bundle)
       /\ UNCHANGED <<source, archive, cache, bundle, iso, disk>>

CutsShort ==
    \/ /\ task \in {"limine", "verify", "cargo", "disk", "size"}
       /\ UNCHANGED workspace
    \/ /\ task = "download" /\ archive' \in {archive, "other"}
       /\ UNCHANGED <<source, cache, bundle, staging, iso, disk>>
    \/ /\ task = "extract" /\ cache' \in {"absent", "torn", "whole"}
       /\ UNCHANGED <<source, archive, bundle, staging, iso, disk>>
    \/ CopyCutShort
    \/ /\ task = "image" /\ iso' \in {iso, NoImage}
       /\ UNCHANGED <<source, archive, cache, bundle, staging, disk>>

\* A tool is missing or fails, or the user interrupts it.
Aborts ==
    /\ mishaps < MishapBound /\ CutsShort
    /\ task' = "idle" /\ mishaps' = mishaps + 1
    /\ UNCHANGED goal

\* verify_sha256 or copy_directory returns an error.
Refuses ==
    /\ \/ task = "verify" /\ archive # "pinned" /\ UNCHANGED workspace
       \/ task = "bundle" /\ ~Copyable(source) /\ CopyCutShort
    /\ Goes(task, "idle")

-----------------------------------------------------------------------------

PackagingInit ==
    /\ source \in Sources
    /\ archive = "absent" /\ cache = "absent" /\ disk = "absent"
    /\ bundle = EmptyDirectory /\ staging = EmptyDirectory /\ iso = NoImage
    /\ task = "idle" /\ goal = "package" /\ mishaps = 0

PackagingNext ==
    \/ EditSource
    \/ \E command \in {"package", "run", "smoke"} : Begin(command)
    \/ EnsureLimine
    \/ \E file \in {"other", "pinned"} : Download(file)
    \/ Verify \/ Extract \/ Cargo \/ Bundle \/ Stage \/ MakeImage
    \/ KeepDataDisk \/ CreateDataDisk \/ SizeDataDisk
    \/ Aborts \/ Refuses

\* run_qemu or smoke returns.
Leaves ==
    /\ task = "guest" /\ task' = "idle"
    /\ UNCHANGED <<workspace, goal, mishaps>>

PackagingSpec == PackagingInit /\ [][PackagingNext \/ Leaves]_packaging

-----------------------------------------------------------------------------

\* A guest gets the files of the workspace, without the .gitkeep entries, and a loader,
\* whatever earlier commands left in the directories (package).
GuestImage ==
    task = "guest" => iso.files = Entries(source) /\ iso.loader # "absent"
=============================================================================

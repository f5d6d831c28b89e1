--------------------------- MODULE DesktopStorage ---------------------------
(***************************************************************************)
(* The storage of the desktop platform: DesktopPlatform in                 *)
(* platforms/desktop/src/platform.rs, which keeps AFOS paths as files and  *)
(* directories of the host below its data directory.                       *)
(*                                                                         *)
(* The operators named Host... are the calls of std::fs that the platform  *)
(* makes, as POSIX hosts answer them.  The data directory is assumed to    *)
(* hold no symbolic links and to be used by one AFOS at a time.  The       *)
(* platform commits nothing: a call that fails half way leaves what the    *)
(* host has done by then, one of the trees of the operators ...Leaves.     *)
(***************************************************************************)
EXTENDS FileTree

Ok(t) == [ok |-> TRUE, tree |-> t]
Err(t) == [ok |-> FALSE, tree |-> t]

\* What is left of the contents of a file whose write failed.
Cut == "cut"

-----------------------------------------------------------------------------
(***************************************************************************)
(* The host.                                                               *)
(***************************************************************************)

\* The path and the directories on the way to it.
Trail(p) == {SubSeq(p, 1, n) : n \in 1 .. Len(p)}

\* fs::create_dir_all: a file on the way, or at the end of it, fails the first mkdir.
HostCreateDirAll(t, p) ==
    IF Trail(p) \cap Files(t) # {} THEN Err(t)
    ELSE Ok([t EXCEPT !.dirs = @ \cup Trail(p)])

\* A host error after the first directories were made.
CreateDirLeaves(t, p) ==
    {u \in {[t EXCEPT !.dirs = @ \cup Trail(q)] : q \in Trail(p) \cup {<<>>}} :
        Trail(p) \cap Files(t) = {}}

\* rename(2): a file replaces a file, a directory replaces an empty directory, and no
\* directory moves into itself.
HostRename(t, from, to) ==
    LET occupied == \/ to \in Files(t)
                    \/ \E q \in Files(t) \cup t.dirs : IsStrictPrefix(to, q)
    IN  IF from = to THEN Ok(t)
        ELSE IF from \in Files(t)
             THEN IF to \in t.dirs THEN Err(t) ELSE Ok(MoveFile(t, from, to))
        ELSE IF IsStrictPrefix(from, to) \/ occupied THEN Err(t)
        ELSE Ok(MoveDirectory(t, from, to))

-----------------------------------------------------------------------------
(***************************************************************************)
(* The platform.                                                           *)
(***************************************************************************)

\* existing: canonicalize finds the path, misses it, or meets a file on the way, which is
\* not the NotFound that storage_exists turns into false.
Existing(t, p) ==
    IF Exists(t, p) THEN "found"
    ELSE IF Trail(Parent(p)) \cap Files(t) # {} THEN "error"
    ELSE "missing"

\* writable: the parents are made before anything else is known.
Writable(t, p) == HostCreateDirAll(t, Parent(p))

DesktopWrite(t, p, d) ==
    LET made == Writable(t, p) IN
    IF ~made.ok THEN made
    ELSE IF p \in made.tree.dirs THEN Err(made.tree)
    ELSE Ok([made.tree EXCEPT !.files = Insert(@, p, d)])

\* fs::write truncates the file before it fills it.
WriteLeaves(t, p) ==
    CreateDirLeaves(t, Parent(p)) \cup
    {u.tree : u \in {v \in {DesktopWrite(t, p, Cut)} : v.ok}}

DesktopCreateDirAll(t, p) ==
    LET made == Writable(t, p) IN IF made.ok THEN HostCreateDirAll(made.tree, p) ELSE made

DesktopRemove(t, p) ==
    IF Existing(t, p) # "found" THEN Err(t)
    ELSE Ok([files |-> RestrictDomain(t.files, LAMBDA q : ~IsPrefix(p, q)),
             dirs |-> {q \in t.dirs : ~IsPrefix(p, q)}])

\* fs::remove_dir_all removes entries one by one, those of a directory before itself.
RemoveLeaves(t, p) ==
    LET below == {q \in Files(t) \cup t.dirs : IsStrictPrefix(p, q)}
    IN  {[files |-> Restrict(t.files, Files(t) \ gone), dirs |-> t.dirs \ gone] :
            gone \in {S \in SUBSET below : \A q \in S, r \in below : IsPrefix(q, r) => r \in S}}

\* Mutation: the target's parents are not made.
DesktopRename_NoParents(t, from, to) ==
    IF Existing(t, from) # "found" \/ ~(Trail(Parent(to)) \subseteq t.dirs) THEN Err(t)
    ELSE HostRename(t, from, to)

DesktopRename(t, from, to) ==
    LET made == Writable(t, to) IN
    IF Existing(t, from) # "found" THEN Err(t)
    ELSE IF made.ok THEN HostRename(made.tree, from, to)
    ELSE made

RenameLeaves(t, from, to) ==
    IF Existing(t, from) = "found" THEN CreateDirLeaves(t, Parent(to)) ELSE {t}

\* storage_list of a directory: the entries that read_dir finds.
DesktopList(t, p) ==
    LET below == {q \in Files(t) \cup t.dirs : Len(q) = Len(p) + 1 /\ IsPrefix(p, q)}
    IN  [name \in {Last(q) : q \in below} |->
            IF Append(p, name) \in t.dirs THEN "dir" ELSE "file"]
=============================================================================

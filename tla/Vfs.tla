-------------------------------- MODULE Vfs --------------------------------
(***************************************************************************)
(* Paths and mounts: normalize_path and Vfs in crates/afos-core/src/vfs.rs *)
(* over the desktop's storage.                                             *)
(*                                                                         *)
(* A normalized path is the sequence of its components, <<>> for "/".  The *)
(* path that a caller gives is whether it begins with a slash and what     *)
(* lies between its slashes, which may be "", ".", ".." or a component     *)
(* with a character that no path may have.                                 *)
(***************************************************************************)
EXTENDS DesktopStorage

CONSTANTS
    SystemFiles     \* the bundled files, in path order: records of path and data

Forbidden == "\\"                           \* stands for a component with \ or NUL
Special == {"", ".", "..", Forbidden}

InvalidPath == <<Forbidden>>                \* Error::InvalidPath

\* The components that the source spells out are strings: true of every string, and
\* named for the proofs, whose provers know nothing of the set STRING.
ASSUME StringsAssumption ==
    {Forbidden, "sys", "apps", "user", "config", "saves", "appdata", "security", "initialized"}
        \subseteq STRING

\* What a caller may give.
Inputs == [absolute : BOOLEAN, parts : Names]

\* One round of the loop over the components of input; an error is kept by what follows it.
FollowComponent(path, component) ==
    IF path = InvalidPath \/ component \in {"", "."} THEN path
    ELSE IF component # ".." THEN Append(path, component)
    ELSE IF path = <<>> THEN InvalidPath
    ELSE Parent(path)

Follow(start, parts) ==
    LET after[n \in 0 .. Len(parts)] ==
            IF n = 0 THEN start ELSE FollowComponent(after[n - 1], parts[n])
    IN  IF Forbidden \in Range(parts) THEN InvalidPath ELSE after[Len(parts)]

\* Mutation: the input is normalized before it is joined to cwd.
NormalizePath_JoinsLast(cwd, input) ==
    LET p == Follow(<<>>, input.parts)
    IN  IF input.absolute \/ p = InvalidPath THEN p ELSE cwd \o p

NormalizePath(cwd, input) == Follow(IF input.absolute THEN <<>> ELSE cwd, input.parts)

-----------------------------------------------------------------------------

\* is_path_prefix("/sys", path) and persistent_path.
InSys(p) == IsPrefix(<<"sys">>, p)
Persistent(p) == IsPrefix(<<"apps">>, p) \/ IsPrefix(<<"user">>, p)

SystemFile(p) == \E i \in DOMAIN SystemFiles : SystemFiles[i].path = p
SystemData(p) ==
    SystemFiles[CHOOSE i \in DOMAIN SystemFiles : SystemFiles[i].path = p].data
SystemDirExists(p) == \E i \in DOMAIN SystemFiles : IsStrictPrefix(p, SystemFiles[i].path)

Layout ==
    <<<<"apps">>, <<"user">>, <<"user", "config">>, <<"user", "saves">>, <<"user", "appdata">>>>

VfsExists(t, p) ==
    IF p \in {<<>>, <<"sys">>, <<"apps">>, <<"user">>} THEN "found"
    ELSE IF InSys(p) THEN IF SystemFile(p) \/ SystemDirExists(p) THEN "found" ELSE "missing"
    ELSE IF Persistent(p) THEN Existing(t, p)
    ELSE "error"

\* read succeeds on p.
Readable(t, p) == IF InSys(p) THEN SystemFile(p) ELSE Persistent(p) /\ p \in Files(t)
VfsRead(t, p) == IF InSys(p) THEN SystemData(p) ELSE t.files[p]

\* list succeeds on p.
Listable(t, p) ==
    \/ p \in {<<>>, <<"sys">>}
    \/ InSys(p) /\ SystemDirExists(p)
    \/ Persistent(p) /\ p \in t.dirs

\* normalize_path("/", path), with which every call of Vfs begins.  What exists, read and
\* list are given is normalized already; what the calls below are given need not be.
Normalized(path) == NormalizePath(<<>>, [absolute |-> TRUE, parts |-> path])

\* The outcomes of the calls that change files: an answer, and the tree that is left.
VfsWrites(t, path, d) ==
    LET p == Normalized(path) IN
    IF Persistent(p) THEN {DesktopWrite(t, p, d)} \cup {Err(u) : u \in WriteLeaves(t, p)}
    ELSE {Err(t)}

VfsCreatesDirAll(t, path) ==
    LET p == Normalized(path) IN
    IF Persistent(p) THEN {DesktopCreateDirAll(t, p)} \cup {Err(u) : u \in CreateDirLeaves(t, p)}
    ELSE {Err(t)}

\* The AFOS root directories are not removed.
VfsRemoves(t, path) ==
    LET p == Normalized(path) IN
    IF Persistent(p) /\ p \notin Range(Layout)
    THEN {DesktopRemove(t, p)} \cup {Err(u) : u \in RemoveLeaves(t, p)}
    ELSE {Err(t)}

VfsRenames(t, source, target) ==
    LET from == Normalized(source)
        to == Normalized(target)
    IN  IF Persistent(from) /\ Persistent(to)
        THEN {DesktopRename(t, from, to)} \cup {Err(u) : u \in RenameLeaves(t, from, to)}
        ELSE {Err(t)}
=============================================================================

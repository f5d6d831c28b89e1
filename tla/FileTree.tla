------------------------------ MODULE FileTree ------------------------------
(***************************************************************************)
(* FileTree (crates/afos-storage) and what the storage methods of          *)
(* BareMetalPlatform make of it (platforms/bare-metal/src/platform.rs).    *)
(*                                                                         *)
(* A tree has a map from paths to file contents and a set of directories.  *)
(* Paths reach the platform normalized and relative, so a path is the      *)
(* sequence of its components, and a string test such as                   *)
(* name.starts_with("{path}/") is a strict prefix of sequences.            *)
(*                                                                         *)
(* An operator for a storage method yields the tree that it leaves in      *)
(* memory and what it does next: "commit" that tree (the save that ends    *)
(* the method), return Ok at once ("ok"), or return an error ("error").    *)
(***************************************************************************)
EXTENDS Integers, Sequences, Functions

Names == Seq(STRING)
Paths == Names \ {<<>>}         \* of files and directories; <<>> is the root

\* is_path_prefix: p is q or on the way to it; and the tests that leave q itself out.
IsPrefix(p, q) == Len(p) <= Len(q) /\ SubSeq(q, 1, Len(p)) = p
IsStrictPrefix(p, q) == IsPrefix(p, q) /\ p # q

\* parent: the empty path for a single component.
Parent(p) == SubSeq(p, 1, Len(p) - 1)
Last(p) == p[Len(p)]

Files(t) == DOMAIN t.files
EmptyTree == [files |-> [p \in {} |-> p], dirs |-> {}]

Commits(t) == [next |-> "commit", tree |-> t]
Fails(t) == [next |-> "error", tree |-> t]

\* BTreeMap::insert, and a map restricted to the keys that are kept.
Insert(f, p, d) == [q \in DOMAIN f \cup {p} |-> IF q = p THEN d ELSE f[q]]

Exists(t, p) == p \in Files(t) \/ p \in t.dirs

\* Mutation: the walk does not look for a file in the way.
AddParents_Unchecked(t, p) ==
    [ok |-> TRUE, tree |-> [t EXCEPT !.dirs = @ \cup {SubSeq(p, 1, n) : n \in 1 .. Len(p)}]]

\* add_parents: walks down p and stops with an error at the first component that
\* is a file; the directories before it have been inserted by then.
AddParents(t, p) ==
    LET blocked == {n \in 1 .. Len(p) : SubSeq(p, 1, n) \in Files(t)}
        passed == {n \in 1 .. Len(p) : \A m \in blocked : n < m}
    IN  [ok |-> blocked = {},
         tree |-> [t EXCEPT !.dirs = @ \cup {SubSeq(p, 1, n) : n \in passed}]]

-----------------------------------------------------------------------------

StorageWrite(t, p, d) ==
    LET made == AddParents(t, Parent(p)) IN
    IF p \in t.dirs THEN Fails(t)
    ELSE IF ~made.ok THEN Fails(made.tree)
    ELSE Commits([made.tree EXCEPT !.files = Insert(@, p, d)])

StorageCreateDirAll(t, p) ==
    LET made == AddParents(t, p) IN
    IF made.ok THEN Commits(made.tree) ELSE Fails(made.tree)

StorageRemove(t, p) ==
    IF p \in Files(t) THEN Commits([t EXCEPT !.files = Restrict(@, Files(t) \ {p})])
    ELSE IF p \notin t.dirs THEN Fails(t)
    ELSE Commits([files |-> RestrictDomain(t.files, LAMBDA q : ~IsStrictPrefix(p, q)),
                  dirs |-> {q \in t.dirs : ~IsPrefix(p, q)}])

\* rebased: from is replaced by to at the front of p.
Rebased(p, from, to) == to \o SubSeq(p, Len(from) + 1, Len(p))

\* Moving what is at and below from.  Neither of from and to is below the other when
\* the loops run, so the order in which they remove and insert does not matter.
MoveFile(t, from, to) ==
    [t EXCEPT !.files = Insert(Restrict(@, Files(t) \ {from}), to, t.files[from])]
MoveDirectory(t, from, to) ==
    LET moved == {p \in Files(t) : IsStrictPrefix(from, p)}
        Source(q) == CHOOSE p \in moved : Rebased(p, from, to) = q
        arrived == {Rebased(p, from, to) : p \in moved}
    IN  [files |-> [q \in (Files(t) \ moved) \cup arrived |->
                       t.files[IF q \in arrived THEN Source(q) ELSE q]],
         dirs |-> {IF IsPrefix(from, p) THEN Rebased(p, from, to) ELSE p : p \in t.dirs}]

\* Mutation: an existing target is replaced.
StorageRename_Overwrites(t, from, to) ==
    LET made == AddParents(t, Parent(to)) IN
    IF from = to THEN [next |-> "ok", tree |-> t]
    ELSE IF IsStrictPrefix(from, to) THEN Fails(t)
    ELSE IF ~made.ok THEN Fails(made.tree)
    ELSE IF from \in Files(t) THEN Commits(MoveFile(made.tree, from, to))
    ELSE IF from \notin made.tree.dirs THEN Fails(made.tree)
    ELSE Commits(MoveDirectory(made.tree, from, to))

StorageRename(t, from, to) ==
    LET made == AddParents(t, Parent(to)) IN
    IF from = to THEN [next |-> "ok", tree |-> t]
    ELSE IF Exists(t, to) THEN Fails(t)
    ELSE IF IsStrictPrefix(from, to) THEN Fails(t)
    ELSE IF ~made.ok THEN Fails(made.tree)
    ELSE IF from \in Files(t) THEN Commits(MoveFile(made.tree, from, to))
    ELSE IF from \notin made.tree.dirs THEN Fails(made.tree)
    ELSE Commits(MoveDirectory(made.tree, from, to))

\* storage_list of a directory: the names of direct_child; a file's entry replaces a
\* directory's of the same name.
Children(S, p) == {q[Len(p) + 1] : q \in {q \in S : Len(q) = Len(p) + 1 /\ IsPrefix(p, q)}}
StorageList(t, p) ==
    [name \in Children(t.dirs, p) \cup Children(Files(t), p) |->
        IF name \in Children(Files(t), p) THEN "file" ELSE "dir"]

-----------------------------------------------------------------------------

\* No path is a file and a directory, every parent is a directory.
WellFormedTree(t) ==
    /\ Files(t) \cap t.dirs = {}
    /\ \A p \in Files(t) \cup t.dirs :
           p # <<>> /\ (Parent(p) # <<>> => Parent(p) \in t.dirs)
=============================================================================

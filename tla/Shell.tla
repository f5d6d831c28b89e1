------------------------------- MODULE Shell -------------------------------
(***************************************************************************)
(* The shell on the desktop, from its start to its exit and its next       *)
(* start: System::initialize and change_password (system.rs), Afos in      *)
(* crates/afos-core/src/shell.rs, parse_metadata and RuntimeRegistry in    *)
(* app.rs, the API slot of crates/afos-runtime-rhai, and run in            *)
(* platforms/desktop/src/main.rs, around the calls of module Session.      *)
(*                                                                         *)
(* A command is the first word of a line: whether it has a slash, and the  *)
(* path that it spells.  What matters of a file's contents is what its     *)
(* directives declare, if they can be parsed.                              *)
(***************************************************************************)
EXTENDS Session

CONSTANTS
    Commands,       \* the commands typed: records of slash and input
    Directories,    \* the arguments of cd
    Rhai,           \* for every name without a dot, the name with the extension
    Sources         \* for every content that parses: the id it declares, or "", and its
                    \* capabilities

\* What the user types and the applications declare is text.
ASSUME TypedAssumption ==
    Directories \subseteq Inputs /\ \A c \in Commands : c.input \in Inputs
ASSUME RhaiAssumption ==
    DOMAIN Rhai \subseteq STRING /\ Range(Rhai) \subseteq STRING
ASSUME SourcesAssumption ==
    \A data \in DOMAIN Sources :
        /\ Sources[data].id \in STRING
        /\ \A declared \in Sources[data].capabilities :
               declared.kind = "write" => declared.prefix \in Inputs

NoCommand == [slash |-> FALSE, input |-> [absolute |-> FALSE, parts |-> <<>>]]

VARIABLES
    phase,          \* "setup" | "prompt" | "running" | "exited" | "stopped": an error
                    \* ended the process
    typed,          \* the command that is running
    slot,           \* API_SLOT
    leaked          \* history: the connections open when the session began

session == <<typed, app, slot, sockets, leaked>>
process == <<cwd, approved, session, network>>
vars == <<phase, tree, process>>

\* The process ends, with an error or without, and takes its connections with it.
Ends(how) ==
    /\ phase' = how
    /\ cwd' = <<"user">> /\ approved' = {} /\ connections' = {} /\ next_handle' = 1
    /\ typed' = NoCommand /\ app' = NoApp /\ slot' = NoApp /\ sockets' = {} /\ leaked' = {}

\* The end of a command that may fail: the next prompt, or the end of run_interactive.
Prompts(ok) ==
    \/ ok /\ phase' = "prompt" /\ UNCHANGED process
    \/ ~ok /\ Ends("stopped")

-----------------------------------------------------------------------------
(***************************************************************************)
(* The start of the process.                                               *)
(***************************************************************************)

InitializedPath == <<"user", "config", "initialized">>
Marker == Cut       \* its contents are never read: part of them is as good as the whole

\* initialize_layout, as far as the n-th directory; an error ends it.
CreateNext(o, p) == IF o.ok THEN DesktopCreateDirAll(o.tree, p) ELSE o
LaidOut(t, n) ==
    LET after[k \in 0 .. n] == IF k = 0 THEN Ok(t) ELSE CreateNext(after[k - 1], Layout[k])
    IN  after[n]

\* A new DesktopPlatform over the same data directory: it has no connections.  A host
\* error ends the process after n directories.
Start(n) ==
    LET o == LaidOut(tree, n) IN
    /\ phase \in {"exited", "stopped"}
    /\ tree' = o.tree
    /\ phase' = IF ~o.ok \/ n < Len(Layout) THEN "stopped"
                ELSE IF VfsExists(o.tree, InitializedPath) = "found" THEN "prompt"
                ELSE "setup"
    /\ UNCHANGED process

\* prompt_new_password and set_password: a verifier is written, or the password is
\* disabled, or the confirmation, the console or the random source fails.
NewPassword(t) ==
    VfsWrites(t, SecurityPath, Verifier) \cup {Err(t)} \cup
    IF VfsExists(t, SecurityPath) = "found" THEN VfsRemoves(t, SecurityPath) ELSE {Ok(t)}

\* The first run: a master password if the user wants one, then the marker.
Setup ==
    /\ phase = "setup"
    /\ \E o \in {Ok(tree)} \cup NewPassword(tree) :
       \E w \in IF o.ok THEN VfsWrites(o.tree, InitializedPath, Marker) ELSE {o} :
           tree' = w.tree /\ Prompts(w.ok)

-----------------------------------------------------------------------------
(***************************************************************************)
(* resolve_command: the path that a command runs, if any.                  *)
(***************************************************************************)

Supports(p) == p # <<>> /\ Last(p) \in Range(Rhai)      \* one runtime is registered
WithExtension(p) == Append(Parent(p), Rhai[Last(p)])
Undotted(p) == p # <<>> /\ Last(p) \in DOMAIN Rhai

\* A command with a slash: the file as it is named, else with the extension.
NamedPaths(c) ==
    LET p == NormalizePath(cwd, c.input)
        found == VfsExists(tree, p)
    IN  IF p = InvalidPath \/ found = "error" THEN {}
        ELSE IF found = "found" /\ Supports(p) THEN {p}
        ELSE {q \in IF Undotted(p) THEN {WithExtension(p)} ELSE {} : VfsExists(tree, q) = "found"}

\* Mutation: installed applications come first.
SearchOrder_AppsFirst == <<<<"apps">>, <<"sys", "apps">>>>

SearchOrder == <<<<"sys", "apps">>, <<"apps">>>>

InRoot(root, c) ==
    LET p == root \o c.input.parts IN IF Undotted(p) THEN WithExtension(p) ELSE p

\* A bare command: the first directory of the search that has it.
SearchPaths(c) ==
    LET Has(i) == LET p == InRoot(SearchOrder[i], c)
                  IN  VfsExists(tree, p) = "found" /\ Supports(p)
    IN  {InRoot(SearchOrder[i], c) :
            i \in {j \in DOMAIN SearchOrder : Has(j) /\ \A k \in 1 .. j - 1 : ~Has(k)}}

Resolved(c) == IF c.slash THEN NamedPaths(c) ELSE SearchPaths(c)

-----------------------------------------------------------------------------
(***************************************************************************)
(* run_interactive and run_command.                                        *)
(***************************************************************************)

\* An unterminated quote, a usage error, a bad exit status or a failing console.  clear
\* and an empty line change nothing here.
BuiltinFails ==
    /\ phase = "prompt"
    /\ Ends("stopped")
    /\ UNCHANGED tree

Exit ==
    /\ phase = "prompt"
    /\ Ends("exited")
    /\ UNCHANGED tree

ChangeDirectory(argument) ==
    LET target == NormalizePath(cwd, argument)
        ok == target # InvalidPath /\ Listable(tree, target)
    IN  /\ phase = "prompt"
        /\ \/ ok /\ cwd' = target /\ UNCHANGED <<phase, approved, session, network>>
           \/ ~ok /\ Ends("stopped")
        /\ UNCHANGED tree

\* passwd: the current password first, if there is one.
ChangePassword ==
    /\ phase = "prompt"
    /\ \E o \in {Err(tree)} \cup IF CanVerify THEN NewPassword(tree) ELSE {} :
           tree' = o.tree /\ Prompts(o.ok)

\* execute_app gets as far as the evaluation: the source is read and its directives
\* parse, and ApiGuard::install finds the slot empty.
Runnable(c) ==
    {p \in Resolved(c) : Readable(tree, p) /\ VfsRead(tree, p) \in DOMAIN Sources /\ slot = NoApp}

\* parse_metadata; trusted is a file directly in /sys/apps.
Identity(p) ==
    LET source == Sources[VfsRead(tree, p)]
        stem == CHOOSE name \in DOMAIN Rhai : Rhai[name] = Last(p)
    IN  [path |-> p,
         id |-> IF source.id = "" THEN stem ELSE source.id,
         trusted |-> Parent(p) = <<"sys", "apps">>,
         capabilities |-> source.capabilities]

ExecuteFails(c) ==
    /\ phase = "prompt"
    /\ Runnable(c) = {}
    /\ Ends("stopped")
    /\ UNCHANGED tree

\* The session is made and ApiGuard::install fills the slot.
Execute(c) ==
    /\ phase = "prompt"
    /\ \E p \in Runnable(c) : app' = Identity(p) /\ slot' = Identity(p)
    /\ typed' = c
    /\ sockets' = {} /\ leaked' = connections
    /\ phase' = "running"
    /\ UNCHANGED <<tree, cwd, approved, network>>

-----------------------------------------------------------------------------
(***************************************************************************)
(* The running application.                                                *)
(***************************************************************************)

CallsFiles ==
    /\ phase = "running"
    /\ FileCall
    /\ UNCHANGED <<phase, cwd, session, network>>

CallsNetwork ==
    /\ phase = "running"
    /\ \/ \E host \in Hosts, yes \in Answers : Connect(host, yes)
       \/ \E handle \in sockets : Close(handle)
    /\ UNCHANGED <<phase, cwd, typed, app, slot, leaked>>

\* Mutation: the guard is leaked.
Dropped_Kept == UNCHANGED slot

\* ApiGuard is dropped.
Dropped == slot' = NoApp

\* The session ends with the evaluation; its connections stay with the platform.
EndSession ==
    /\ Dropped
    /\ sockets' = {} /\ leaked' = {} /\ app' = NoApp /\ typed' = NoCommand /\ approved' = {}

Returns ==
    /\ phase = "running"
    /\ EndSession
    /\ phase' = "prompt"
    /\ UNCHANGED <<tree, cwd, network>>

\* A script error, an error of the API that the script does not catch, a resource
\* limit, Escape, a result that is not an exit status, or a status that cannot be shown.
AppFails ==
    /\ phase = "running"
    /\ Ends("stopped")
    /\ UNCHANGED tree

-----------------------------------------------------------------------------

\* Before the first start, with an empty data directory.
Init ==
    /\ phase = "exited" /\ tree = EmptyTree /\ cwd = <<"user">> /\ approved = {}
    /\ typed = NoCommand /\ app = NoApp /\ slot = NoApp /\ sockets = {} /\ leaked = {}
    /\ connections = {} /\ next_handle = 1

Next ==
    \/ \E n \in 0 .. Len(Layout) : Start(n)
    \/ Setup \/ BuiltinFails \/ Exit \/ ChangePassword
    \/ \E argument \in Directories : ChangeDirectory(argument)
    \/ \E c \in Commands : Execute(c) \/ ExecuteFails(c)
    \/ CallsFiles \/ CallsNetwork
    \/ Returns \/ AppFails

Spec == Init /\ [][Next]_vars

-----------------------------------------------------------------------------
(***************************************************************************)
(* Properties.                                                             *)
(***************************************************************************)

\* The API slot holds the running application's session while it runs and nothing at the
\* prompt, so that a callback never reaches an ended session and the next application is
\* never refused as nested (ApiGuard).
SlotIsCurrent ==
    /\ phase = "prompt" => slot = NoApp
    /\ phase = "running" => slot = app

\* A session reaches only connections that are open and that it opened itself, even
\* though those an earlier application left open are still with the platform
\* (owned_socket, next_handle).
OwnConnections == sockets \subseteq connections \ leaked

\* Whatever applications install, a bare command that names a bundled application runs
\* the bundled one (the order of resolve_command).
BundledWins ==
    phase = "running" /\ ~typed.slash /\ SystemFile(InRoot(<<"sys", "apps">>, typed))
        => InSys(app.path)

\* A file that changes while an application runs is in the directory that
\* /user/appdata/<id> names for the application's id, or the application declared that it
\* writes there and, unless it is bundled, the user allowed it in this very call: no grant
\* outlives its operation, whatever was renamed, removed or allowed before.  That directory
\* is the application's own for every id but "." and "..", with which it is all of
\* /user/appdata or all of /user (authorize, resolve_appdata, docs/SECURITY.md).
Changed == {p \in Files(tree) \cup Files(tree)' :
                ~(p \in Files(tree) /\ p \in Files(tree)' /\ tree.files[p] = tree'.files[p])}
ChangesApproved ==
    [][phase = "running" =>
          \A p \in Changed :
              \/ IsPrefix(Normalized(AppdataRoot), p)
              \/ Declares(At("write", p)) /\
                 (app.trusted \/ \E q \in approved' : IsPrefix(q, p))]_vars

\* normalize_path leaves no special component, and following one path and then a
\* relative one is following both as one path, unless that leaves the root half way.
NormalizeComposes ==
    \A a \in Arguments \cup Directories, b \in Arguments \cup Directories :
        LET p == NormalizePath(cwd, a)
            joined == [absolute |-> a.absolute, parts |-> a.parts \o b.parts]
        IN  p # InvalidPath =>
                /\ Range(p) \cap Special = {}
                /\ ~b.absolute => NormalizePath(p, b) = NormalizePath(cwd, joined)

\* The two platforms are interchangeable below the same Vfs: a call that bare metal
\* commits makes the same tree on the desktop's file system and the other way round,
\* except that a desktop rename may replace its target, and that only bare metal lets
\* what is not there be renamed to itself; listings agree too
\* (docs/PORTING.md; storage_* of both platforms).
PlatformsAgree ==
    LET Same(bare, desktop) == /\ desktop.ok = (bare.next # "error")
                               /\ desktop.ok => desktop.tree = bare.tree
        paths == {p \in {Resolve(a) : a \in Arguments} : Persistent(p)}
    IN  /\ \A p \in paths :
               /\ \A d \in Data : Same(StorageWrite(tree, p, d), DesktopWrite(tree, p, d))
               /\ Same(StorageCreateDirAll(tree, p), DesktopCreateDirAll(tree, p))
               /\ Same(StorageRemove(tree, p), DesktopRemove(tree, p))
               /\ p \in tree.dirs => StorageList(tree, p) = DesktopList(tree, p)
        /\ \A p \in paths, q \in paths :
               Exists(tree, q) = (p = q) => Same(StorageRename(tree, p, q), DesktopRename(tree, p, q))

\* An application that fails gives the shell a command result, as docs/APPS.md says: the
\* end of a run leads back to the prompt (execute_app, run_interactive).
FailuresAreResults == [][phase = "running" /\ phase' # "running" => phase' = "prompt"]_vars
=============================================================================

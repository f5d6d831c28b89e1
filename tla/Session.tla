------------------------------ MODULE Session ------------------------------
(***************************************************************************)
(* What a running application can do: AppSession and System::authorize in  *)
(* crates/afos-core/src/system.rs, over the desktop's connections.         *)
(*                                                                         *)
(* A call is one step.  Its answers from the user are one choice, yes: the *)
(* user allows the operation and gives the master password if there is one *)
(* to give.  An operation that asks twice and is refused once does nothing *)
(* more than one that is refused at first.                                 *)
(***************************************************************************)
EXTENDS Vfs

CONSTANTS
    Arguments,          \* the paths that applications pass
    Data,               \* the contents that applications write
    Hosts,
    HandleBound,        \* bound: connections opened by one AFOS process
    DepthBound          \* bound: components of a path, which renames may nest for ever

\* The callers' paths are any paths.
ASSUME ArgumentsAssumption == Arguments \subseteq Inputs

VARIABLES
    tree,           \* the data directory
    cwd,
    app,            \* the identity of the running application
    sockets,        \* the running session's connections
    connections,    \* the handles of the platform's open connections
    next_handle,
    approved        \* history: the paths that the user let the last call change

network == <<connections, next_handle>>

SecurityPath == <<"user", "config", "security">>
Verifier == "verifier"          \* the contents that set_password writes
NoApp == [path |-> <<>>, id |-> "", trusted |-> FALSE, capabilities |-> {}]

-----------------------------------------------------------------------------
(***************************************************************************)
(* authorize.  A capability has a kind and, for files, a path (declared: a *)
(* prefix as the application wrote it), for the network a host.            *)
(***************************************************************************)

Protected(c) == c.kind \in {"read", "write"} /\ IsPrefix(SecurityPath, c.path)

Covers(declared, c) ==
    /\ declared.kind = c.kind
    /\ c.kind \in {"read", "write"} =>
           LET prefix == NormalizePath(<<>>, declared.prefix)
           IN  prefix # InvalidPath /\ IsPrefix(prefix, c.path)
    /\ c.kind = "net" => declared.host \in {"*", c.host}

Declares(c) == \E declared \in app.capabilities : Covers(declared, c)

Asked(c) == ~Protected(c) /\ Declares(c) /\ ~app.trusted

\* verify can succeed: there is a verifier, and it is whole.
CanVerify ==
    \/ VfsExists(tree, SecurityPath) = "missing"
    \/ SecurityPath \in Files(tree) /\ tree.files[SecurityPath] = Verifier

\* Mutation: what was allowed in the last call is not asked for again.
Authorize_Remembers(c, yes) ==
    /\ ~Protected(c) /\ Declares(c)
    /\ app.trusted \/ (yes /\ CanVerify) \/ (c.kind = "write" /\ c.path \in approved)

Authorize(c, yes) ==
    /\ ~Protected(c) /\ Declares(c)
    /\ app.trusted \/ (yes /\ CanVerify)

\* A call whose requests are all authorized; one that is refused changes nothing.
Performs(requests, yes, outcomes) ==
    /\ \A c \in requests : Authorize(c, yes)
    /\ approved' = {c.path : c \in {r \in requests : yes /\ Asked(r)}}
    /\ \E o \in outcomes : tree' = o.tree

-----------------------------------------------------------------------------
(***************************************************************************)
(* The calls that leave the connections alone.  An invalid path fails a    *)
(* call before it asks.                                                    *)
(***************************************************************************)

At(kind, p) == [kind |-> kind, path |-> p]
Resolve(argument) == NormalizePath(cwd, argument)

\* read_text and list, the clock and the system information: they ask, and read.
Query(c, yes) == Authorize(c, yes) /\ approved' = {} /\ UNCHANGED tree

WriteText(argument, d, yes) ==
    LET p == Resolve(argument) IN
    /\ p # InvalidPath
    /\ Performs({At("write", p)}, yes, VfsWrites(tree, p, d))

CreateDirAll(argument, yes) ==
    LET p == Resolve(argument) IN
    /\ p # InvalidPath
    /\ Performs({At("write", p)}, yes, VfsCreatesDirAll(tree, p))

RemovePath(argument, yes) ==
    LET p == Resolve(argument) IN
    /\ p # InvalidPath
    /\ Performs({At("write", p)}, yes, VfsRemoves(tree, p))

RenameRequests(from, to) == {At("write", from), At("write", to)}

RenamePath(argument, target, yes) ==
    LET from == Resolve(argument)
        to == Resolve(target)
    IN  /\ from # InvalidPath /\ to # InvalidPath
        /\ Performs(RenameRequests(from, to), yes, VfsRenames(tree, from, to))
        /\ \A p \in (Files(tree') \cup tree'.dirs) \ (Files(tree) \cup tree.dirs) :
               Len(p) <= DepthBound

\* appdata_root is spelled with the id, which may be "." or "..".
AppdataRoot == <<"user", "appdata", app.id>>

\* appdata_write asks nobody: the directory is made, then the file is written.  The path
\* must begin as the root is spelled; what Vfs makes of the two is what they name.
AppdataWrite(argument, d) ==
    LET p == NormalizePath(AppdataRoot, argument)
        Written(made) == IF made.ok THEN VfsWrites(made.tree, p, d) ELSE {made}
    IN  /\ p # InvalidPath /\ IsPrefix(AppdataRoot, p)
        /\ \E o \in UNION {Written(made) : made \in VfsCreatesDirAll(tree, AppdataRoot)} :
               tree' = o.tree
        /\ approved' = {}

\* The answers that matter: a bundled application asks for none.
Answers == IF app.trusted THEN {TRUE} ELSE BOOLEAN

FileCall ==
    \/ \E argument \in Arguments, yes \in Answers :
           \/ Resolve(argument) # InvalidPath /\ Query(At("read", Resolve(argument)), yes)
           \/ \E d \in Data : WriteText(argument, d, yes)
           \/ CreateDirAll(argument, yes)
           \/ RemovePath(argument, yes)
           \/ \E target \in Arguments : RenamePath(argument, target, yes)
    \/ \E kind \in {"clock", "system.info"}, yes \in Answers : Query([kind |-> kind], yes)
    \/ \E argument \in Arguments, d \in Data : AppdataWrite(argument, d)

-----------------------------------------------------------------------------
(***************************************************************************)
(* Connections.                                                            *)
(***************************************************************************)

\* Mutation: the counter is not advanced.
Opened_SameHandle ==
    /\ connections' = connections \cup {next_handle}
    /\ sockets' = sockets \cup {next_handle}
    /\ UNCHANGED next_handle

\* The platform's net_connect once the connection stands, and the session's record of it.
Opened ==
    /\ connections' = connections \cup {next_handle}
    /\ sockets' = sockets \cup {next_handle}
    /\ next_handle' = next_handle + 1

\* net_connect; one that fails changes nothing.
Connect(host, yes) ==
    /\ next_handle <= HandleBound
    /\ Authorize([kind |-> "net", host |-> host], yes)
    /\ Opened
    /\ approved' = {}
    /\ UNCHANGED tree

\* net_close; owned_socket refuses any other handle, to net_send and net_recv as well.
Close(handle) ==
    /\ handle \in sockets
    /\ sockets' = sockets \ {handle}
    /\ connections' = connections \ {handle}
    /\ approved' = {}
    /\ UNCHANGED <<tree, next_handle>>
=============================================================================

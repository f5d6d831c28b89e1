------------------------------ MODULE MCShell ------------------------------
(***************************************************************************)
(* A small instance of Shell: one bundled application, one that gets       *)
(* installed, and files that hide behind, replace or sit beside them.      *)
(***************************************************************************)
EXTENDS Shell

Abs(parts) == [absolute |-> TRUE, parts |-> parts]
Rel(parts) == [absolute |-> FALSE, parts |-> parts]
Command(input) == [slash |-> TRUE, input |-> input]
Bare(name) == [slash |-> FALSE, input |-> Rel(<<name>>)]

MCSystemFiles ==
    <<[path |-> <<"sys", "apps", "ls.rhai">>, data |-> "ls"],
      [path |-> <<"sys", "motd">>, data |-> "text"]>>

MCRhai ==
    [name \in {"ls", "d"} |-> IF name = "ls" THEN "ls.rhai" ELSE "d.rhai"]

\* What a failed write leaves ends within the directives and does not parse.
MCSources ==
    [data \in {"ls", "edit"} |->
        IF data = "ls"
        THEN [id |-> "", capabilities |->
                 {[kind |-> "write", prefix |-> Abs(<<"apps">>)]}]
        ELSE [id |-> "..", capabilities |->
                 {[kind |-> "write", prefix |-> Rel(<<"apps", "", ".">>)],
                  [kind |-> "write", prefix |-> Abs(<<"user", "x", "..", "d">>)],
                  [kind |-> "clock"], [kind |-> "net", host |-> "h"]}]]

MCArguments ==
    {Abs(<<"user", ".", "d">>), Rel(<<"d">>), Abs(<<"apps", "ls.rhai">>)}

MCDirectories == {Abs(<<"user", "d">>), Rel(<<"..", "..">>), Abs(<<"user">>)}

MCCommands == {Bare("ls"), Command(Abs(<<"apps", "x", "..", "ls">>)), Command(Rel(<<".", "d">>))}

\* approved is a history: no action reads it, and ChangesApproved, which does, is evaluated
\* on every step.  States that differ in nothing else are one state to TLC.
WithoutHistory == <<phase, tree, cwd, session, network>>
=============================================================================

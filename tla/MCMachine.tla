----------------------------- MODULE MCMachine -----------------------------
(***************************************************************************)
(* Instance of Machine.  Of the four workspaces one boots; the others have *)
(* no system file, a file outside the three roots, or a link.  Of the two  *)
(* memory maps one has room for the heap, in a region that is not aligned  *)
(* and longer than the heap may be.                                        *)
(***************************************************************************)
EXTENDS Machine, MCBareMetalStorage

MCLink == 0
Holding(paths) == [p \in paths |-> 1]
MCSources ==
    {Holding({<<"sys", "a">>, <<"apps", "f">>, <<"user", ".gitkeep">>}),
     Holding({<<"apps", "f">>}),
     Holding({<<"sys", "a">>, <<"readme">>}),
     [p \in {<<"apps", "g">>, <<"apps", "link">>} |-> IF p[2] = "link" THEN MCLink ELSE 1]}

Region(base, length, usable) == [base |-> base, length |-> length, usable |-> usable]
MCMemoryMaps ==
    {<<Region(10, 6, TRUE), Region(1, 9, TRUE), Region(20, 8, FALSE)>>,
     <<Region(3, 3, TRUE)>>}
=============================================================================

------------------------ MODULE RecoverableRegister ------------------------
(***************************************************************************)
(* What a SnapshotStore promises to the platform that owns it: a register  *)
(* holding one file tree that survives power loss.                         *)
(*                                                                         *)
(*  - A save that returned Ok is what every later open returns, until      *)
(*    another save is begun.                                               *)
(*  - A save that was begun and did not return Ok (it failed, or power     *)
(*    was lost) may or may not have happened.  Which of the two is decided *)
(*    by a later open, and not necessarily by the next one: a tree whose   *)
(*    save failed stays a possible outcome until some save returns Ok, but *)
(*    it can only surface after yet another save has been begun.           *)
(*  - open never returns anything else: no mixture of trees, no tree older *)
(*    than the last acknowledged one, and never "nothing" once a save has  *)
(*    been acknowledged.                                                   *)
(***************************************************************************)

CONSTANTS
    Trees,      \* the file trees that can be saved
    NoTree      \* what open returns on a device that was never written

VARIABLES
    online,     \* a store is open
    pending,    \* the tree whose save is in progress, NoTree outside save
    committed,  \* the tree the register holds
    attempted,  \* the trees whose save was begun since the last acknowledged save
    touched     \* a save was begun since the register was last read or acknowledged

rvars == <<online, pending, committed, attempted, touched>>

RegisterTypeOK ==
    /\ online \in BOOLEAN
    /\ pending \in Trees \cup {NoTree}
    /\ committed \in Trees \cup {NoTree}
    /\ attempted \subseteq Trees
    /\ touched \in BOOLEAN

Init ==
    /\ online = FALSE
    /\ pending = NoTree
    /\ committed = NoTree
    /\ attempted = {}
    /\ touched = FALSE

\* What an open may find.
Outcomes == {committed} \cup (IF touched THEN attempted ELSE {})

Open ==
    /\ ~online
    /\ online' = TRUE
    /\ committed' \in Outcomes
    /\ touched' = FALSE
    /\ UNCHANGED <<pending, attempted>>

\* A save may fail at once (pending stays NoTree) or go on.
BeginSave(t) ==
    /\ online /\ pending = NoTree
    /\ pending' \in {NoTree, t}
    /\ attempted' = attempted \cup {t}
    /\ touched' = TRUE
    /\ UNCHANGED <<online, committed>>

Acknowledge ==
    /\ online /\ pending # NoTree
    /\ pending' = NoTree
    /\ committed' = pending
    /\ attempted' = {}
    /\ touched' = FALSE
    /\ UNCHANGED online

FailSave ==
    /\ online /\ pending # NoTree
    /\ pending' = NoTree
    /\ UNCHANGED <<online, committed, attempted, touched>>

PowerLoss ==
    /\ online' = FALSE
    /\ pending' = NoTree
    /\ UNCHANGED <<committed, attempted, touched>>

Next ==
    \/ Open
    \/ \E t \in Trees : BeginSave(t)
    \/ Acknowledge
    \/ FailSave
    \/ PowerLoss

Spec == Init /\ [][Next]_rvars
=============================================================================

-------------------------- MODULE MCSnapshotFaults --------------------------
(***************************************************************************)
(* Instance of SnapshotFaults: the device and the trees of MCSnapshotStore. *)
(***************************************************************************)
EXTENDS MCSnapshotStore, SnapshotFaults
=============================================================================

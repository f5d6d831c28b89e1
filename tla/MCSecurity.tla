----------------------------- MODULE MCSecurity -----------------------------
(***************************************************************************)
(* Instance of Security for its clock: a counter so fast that the          *)
(* multiplication by a second saturates before the bound is reached.       *)
(***************************************************************************)
EXTENDS Security
=============================================================================

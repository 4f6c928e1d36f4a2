------------------------------ MODULE MCStorage ------------------------------
(***************************************************************************)
(* One request VM beside the main VM and the storage VM, and up to two     *)
(* timers, as the check of their number is not under the lock.             *)
(***************************************************************************)
EXTENDS Storage

CONSTANT r1
=============================================================================

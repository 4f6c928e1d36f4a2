---------------------------- MODULE MCSelfRequest ----------------------------
(***************************************************************************)
(* Three tasks and a limit of two.                                         *)
(***************************************************************************)
EXTENDS SelfRequest

CONSTANTS t1, t2, t3
=============================================================================

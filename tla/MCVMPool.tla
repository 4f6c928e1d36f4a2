------------------------------ MODULE MCVMPool ------------------------------
(***************************************************************************)
(* Two programs: p1 with two VMs, and p2, which replaces it, with one.     *)
(***************************************************************************)
EXTENDS VMPool

CONSTANTS r1, r2, u1, p1, p2, a, b, c, n0

MCProgOf == [s \in Slots |-> IF s = c THEN p2 ELSE p1]
MCFirst  == [p \in Programs |-> IF p = p1 THEN a ELSE c]

\* Without VARNISH_PLUS every new VM goes to m_vmqueue[0].
MCHome   == [s \in Slots |-> Node0]
=============================================================================

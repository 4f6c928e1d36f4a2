--------------------------- MODULE MCTenantProgram ---------------------------
(***************************************************************************)
(* One tenant: a request, a start, a live update and an unload.            *)
(***************************************************************************)
EXTENDS TenantProgram

CONSTANTS r1, s1, u1, d1, p1, p2, p3, p4, p5
=============================================================================

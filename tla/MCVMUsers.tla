----------------------------- MODULE MCVMUsers -----------------------------
(***************************************************************************)
(* A fetch and a call of to_string; tenants A and B with a VM each.        *)
(***************************************************************************)
EXTENDS VMUsers

CONSTANTS t1, t2, A, B, a, b

MCTenantOf == [s \in Slots |-> IF s = a THEN A ELSE B]

Prog(n)   == [tenant |-> n, breaks |-> TRUE]
Steady(n) == [tenant |-> n, breaks |-> FALSE]
SelfReq   == [tenant |-> Fetch, breaks |-> TRUE]

\* Alone, after a self-request, and reserving the same VMs in opposite order.
\* One re-uses a VM, but not for its last program.
CrossedChains ==
    {<<Prog(A)>>, <<SelfReq, Prog(B)>>, <<Prog(A), Prog(B)>>, <<Prog(B), Steady(B), Prog(A)>>}

\* The last two programs are the same.
FinalReuse == {<<Steady(A), Steady(A)>>}

\* Only the first program of a chain may break it; one waits for itself.
FirstBreaks == 
    {<<Prog(A)>>, <<Prog(A), Steady(B)>>, <<Prog(B), Steady(A)>>, <<Steady(A), Steady(A)>>,
     <<Steady(B), Steady(A), Steady(B)>>}

Reply(st, sz, str) == [status |-> st, size |-> sz, stream |-> str]

\* With buffers, or streamed.
AllReplies ==
    {Reply("ok", "long", FALSE), Reply("ok", "short", FALSE), Reply("error", "zero", FALSE),
     Reply("error", "long", FALSE), Reply("ok", "long", TRUE), Reply("ok", "short", TRUE)}
=============================================================================

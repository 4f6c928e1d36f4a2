---------------------------- MODULE Reservations ----------------------------
(***************************************************************************)
(* The VMs of all tenants as the C side of the VMOD sees them: taken from  *)
(* a queue, given back to it.  VMPool shows in detail that a pool whose    *)
(* users free each reservation once keeps its promises; here every user    *)
(* must be shown to do so.  A VM is idle as many times as it sits in the   *)
(* queue, and giving back a VM whose prog_ref is null dereferences null.   *)
(***************************************************************************)
EXTENDS Naturals

CONSTANTS Tasks,      \* requests, each on a Varnish worker of its own
          Tenants,
          Slots,      \* the pooled VMs of all tenants
          TenantOf,   \* whose VM it is
          NoSlot      \* NULL

ASSUME SlotsAssumption == NoSlot \notin Slots

VARIABLES idle,       \* how often a VM sits in the queue
          prog_ref,   \* VMPoolItem::prog_ref is set
          held,       \* (history) the VMs a task reserved and did not free
          crashed     \* prog_ref was dereferenced while null

slotVars == <<idle, prog_ref, held, crashed>>

SlotsType ==
    /\ idle \in [Slots -> Nat]
    /\ prog_ref \in [Slots -> BOOLEAN]
    /\ held \in [Tasks -> SUBSET Slots]
    /\ crashed \in BOOLEAN

SlotsInit ==
    /\ idle = [s \in Slots |-> 1]
    /\ prog_ref = [s \in Slots |-> FALSE]
    /\ held = [t \in Tasks |-> {}]
    /\ crashed = FALSE

VMsOf(n) == {s \in Slots : TenantOf[s] = n}

\* reserve_vm: s was dequeued and references its program.
Take(t, s) ==
    /\ idle[s] > 0
    /\ idle' = [idle EXCEPT ![s] = @ - 1]
    /\ prog_ref' = [prog_ref EXCEPT ![s] = TRUE]
    /\ held' = [held EXCEPT ![t] = @ \cup {s}]
    /\ UNCHANGED crashed

\* The queue of tenant n stays empty for max_queue_time.
QueueTimeout(n) == \A s \in VMsOf(n) : idle[s] = 0

\* vm_free_function on each member of S; freeing NULL does nothing.
Give(t, S) ==
    /\ crashed' = (crashed \/ \E s \in S \ {NoSlot} : ~prog_ref[s])
    /\ idle' = [s \in Slots |-> idle[s] + IF s \in S /\ prog_ref[s] THEN 1 ELSE 0]
    /\ prog_ref' = [s \in Slots |-> prog_ref[s] /\ s \notin S]
    /\ held' = [held EXCEPT ![t] = @ \ S]

\* "When they are reserved, they can't be used by anyone else": every VM is
\* in the queue or reserved, once, and nobody frees a VM that is not theirs.
\* Every reservation and every free of a request (kvm_reserve_machine,
\* kvm_temporarily_reserve_machine, kvm_free_reserved_machine, priv_task).
ReservedOnce ==
    /\ ~crashed
    /\ \A s \in Slots :
          \/ idle[s] = 1 /\ \A t \in Tasks : s \notin held[t]
          \/ idle[s] = 0 /\ \E t \in Tasks : s \in held[t] /\ \A u \in Tasks \ {t} : s \notin held[u]
=============================================================================

------------------------------- MODULE VMPool -------------------------------
(***************************************************************************)
(* The request VMs of one tenant: reservation through the blocking queue,  *)
(* the two ways of giving a VM back, the shared_ptr that keeps a program   *)
(* alive, the live update that swaps the program, and the destructor that  *)
(* runs on whichever thread drops the last reference.                      *)
(*                                                                         *)
(* Three kinds of thread take steps: Varnish workers serving requests,     *)
(* workers performing a live update, and the single thread every pooled VM *)
(* owns (VMPoolItem::tp).  The forking of VMs runs on the storage queue of *)
(* the program.  The contents of a VM are left to RequestVM.               *)
(***************************************************************************)
EXTENDS Naturals

CONSTANTS
    Requests,    \* Varnish workers that serve requests
    Updaters,    \* Varnish workers that upload a new program
    Programs,    \* ProgramInstance objects that may ever be constructed
    Slots,       \* VMPoolItem objects, over all programs
    Nodes,       \* NUMA nodes a thread can find itself on
    ProgOf,      \* the program whose m_vms holds the slot
    First,       \* m_vms.front() of each program
    Node0,       \* the node of m_vmqueue[0]
    Home,        \* the node whose queue a new VM is put in (i % n_nodes)
    InitProg,    \* the program the tenant starts with
    Ephemeral,   \* the programs whose VMs are reset after every request
    NoProg,      \* nullptr
    NoSlot,      \* no slot
    NoThread     \* nobody

Threads == Requests \cup Updaters \cup Slots

ASSUME PoolAssumption ==
    /\ ProgOf \in [Slots -> Programs]
    /\ First \in [Programs -> Slots]
    /\ \A p \in Programs : ProgOf[First[p]] = p
    /\ Node0 \in Nodes
    /\ Home \in [Slots -> Nodes]
    /\ InitProg \in Programs
    /\ Ephemeral \subseteq Programs
    /\ NoProg \notin Programs
    /\ NoSlot \notin Slots
    /\ NoThread \notin Threads
    /\ Requests \cap Updaters = {}
    /\ Requests \cap Slots = {}
    /\ Updaters \cap Slots = {}

VARIABLES
    program,   \* TenantInstance::program
    life,      \* per program: "unborn", "live" (constructed) or "dead"
    dtor,      \* per program: the thread inside ~ProgramInstance
    ready,     \* m_initialization_complete: "init", "ok" or "failed"
    boot,      \* per slot: "none", "up" or "failed"
    queue,     \* m_vmqueue of every node, as a bag of slots
    prog_ref,  \* VMPoolItem::prog_ref
    pending,   \* reset tasks waiting in the queue of the slot's thread
    taskref,   \* the local ref of the reset task that is running
    pc,        \* where a request is
    prog,      \* the shared_ptr a request holds in a local variable
    node,      \* the NUMA node a request fixated on
    slot,      \* the slot a request was given
    upc,       \* where an updater is
    newp,      \* inst in kvm_live_update
    cur        \* current in commit_program_live

poolVars == <<queue, prog_ref, pending, taskref>>
reqVars  == <<pc, prog, node, slot>>
updVars  == <<upc, newp, cur>>
bootVars == <<ready, boot>>
vars     == <<program, life, dtor, bootVars, poolVars, reqVars, updVars>>

Progs0 == Programs \cup {NoProg}

TypeOK ==
    /\ program \in Progs0
    /\ life \in [Programs -> {"unborn", "live", "dead"}]
    /\ dtor \in [Programs -> Threads \cup {NoThread}]
    /\ ready \in [Programs -> {"init", "ok", "failed"}]
    /\ boot \in [Slots -> {"none", "up", "failed"}]
    /\ queue \in [Nodes -> [Slots -> Nat]]
    /\ prog_ref \in [Slots -> Progs0]
    /\ pending \in [Slots -> Nat]
    /\ taskref \in [Slots -> Progs0]
    /\ pc \in [Requests -> {"idle", "reffed", "waiting", "running", "assign", "drop"}]
    /\ prog \in [Requests -> Progs0]
    /\ node \in [Requests -> Nodes]
    /\ slot \in [Requests -> Slots \cup {NoSlot}]
    /\ upc \in [Updaters -> {"idle", "init", "load", "swap", "dropcur", "dropnew"}]
    /\ newp \in [Updaters -> Progs0]
    /\ cur \in [Updaters -> Progs0]

Init ==
    /\ program = InitProg
    /\ life = [p \in Programs |-> IF p = InitProg THEN "live" ELSE "unborn"]
    /\ dtor = [p \in Programs |-> NoThread]
    /\ ready = [p \in Programs |-> "init"]
    /\ boot = [s \in Slots |-> "none"]
    /\ queue = [n \in Nodes |-> [s \in Slots |-> 0]]
    /\ prog_ref = [s \in Slots |-> NoProg]
    /\ pending = [s \in Slots |-> 0]
    /\ taskref = [s \in Slots |-> NoProg]
    /\ pc = [r \in Requests |-> "idle"]
    /\ prog = [r \in Requests |-> NoProg]
    /\ node = [r \in Requests |-> Node0]
    /\ slot = [r \in Requests |-> NoSlot]
    /\ upc = [u \in Updaters |-> "idle"]
    /\ newp = [u \in Updaters |-> NoProg]
    /\ cur = [u \in Updaters |-> NoProg]

(***************************************************************************)
(* Reference counting.                                                     *)
(***************************************************************************)
\* Some shared_ptr points to p.
Referenced(p) ==
    \/ program = p
    \/ \E r \in Requests : prog[r] = p
    \/ \E s \in Slots : prog_ref[s] = p \/ taskref[s] = p
    \/ \E u \in Updaters : newp[u] = p \/ cur[u] = p

\* Thread x has just dropped its reference to p: the last one destroys.
Dropped(x, p) ==
    dtor' = [q \in Programs |-> IF q = p /\ ~Referenced(q)' THEN x ELSE dtor[q]]

\* A thread inside a destructor takes no other step.
Busy(x) == \E p \in Programs : dtor[p] = x

SlotsOf(p) == {s \in Slots : ProgOf[s] = p}

Enqueue(n, s) == queue' = [queue EXCEPT ![n][s] = @ + 1]

(***************************************************************************)
(* begin_initialization, on the storage queue of the program.              *)
(***************************************************************************)
\* The main VM and the first fork are up: requests are let in.
BootFirst(p) ==
    /\ life[p] = "live" /\ ready[p] = "init"
    /\ boot' = [boot EXCEPT ![First[p]] = "up"]
    /\ Enqueue(Node0, First[p])
    /\ ready' = [ready EXCEPT ![p] = "ok"]
    /\ UNCHANGED <<program, life, dtor, prog_ref, pending, taskref, reqVars, updVars>>

\* Anything up to the first fork threw.  (That a later VMPoolItem cannot be
\* constructed is left to TenantProgram.)
BootFail(p) ==
    /\ life[p] = "live" /\ ready[p] = "init"
    /\ ready' = [ready EXCEPT ![p] = "failed"]
    /\ UNCHANGED <<program, life, dtor, boot, poolVars, reqVars, updVars>>

\* One more fork is up.
BootNext(s) ==
    /\ life[ProgOf[s]] = "live" /\ ready[ProgOf[s]] = "ok" /\ boot[s] = "none"
    /\ boot' = [boot EXCEPT ![s] = "up"]
    /\ Enqueue(Home[s], s)
    /\ UNCHANGED <<program, life, dtor, ready, prog_ref, pending, taskref, reqVars, updVars>>

\* One fork failed: the program continues with less concurrency.
BootNextFail(s) ==
    /\ life[ProgOf[s]] = "live" /\ ready[ProgOf[s]] = "ok" /\ boot[s] = "none"
    /\ boot' = [boot EXCEPT ![s] = "failed"]
    /\ UNCHANGED <<program, life, dtor, ready, poolVars, reqVars, updVars>>

\* The initialization job has left the storage queue.
InitDone(p) ==
    \/ ready[p] = "failed"
    \/ ready[p] = "ok" /\ \A s \in SlotsOf(p) : boot[s] # "none"

(***************************************************************************)
(* A request: TenantInstance::ref, reserve_vm, vm_free_function.           *)
(***************************************************************************)
\* Load the current program, keeping it alive.
Ref(r) ==
    /\ pc[r] = "idle" /\ ~Busy(r)
    /\ program # NoProg
    /\ prog' = [prog EXCEPT ![r] = program]
    /\ pc' = [pc EXCEPT ![r] = "reffed"]
    /\ UNCHANGED <<program, life, dtor, bootVars, poolVars, node, slot, updVars>>

\* wait_for_main_vm succeeded: wait in the queue of the current node.
MainVMReady(r) ==
    /\ pc[r] = "reffed" /\ ready[prog[r]] = "ok"
    /\ \E n \in Nodes : node' = [node EXCEPT ![r] = n]
    /\ pc' = [pc EXCEPT ![r] = "waiting"]
    /\ UNCHANGED <<program, life, dtor, bootVars, poolVars, prog, slot, updVars>>

\* wait_for_main_vm reports that the main VM failed: no reservation.
MainVMFailed(r) ==
    /\ pc[r] = "reffed" /\ ready[prog[r]] = "failed"
    /\ pc' = [pc EXCEPT ![r] = "drop"]
    /\ UNCHANGED <<program, life, dtor, bootVars, poolVars, prog, node, slot, updVars>>

\* (bug) The self-reference of the slot is forgotten.
DequeueNoRef(r, s) ==
    /\ pc[r] = "waiting" /\ ProgOf[s] = prog[r] /\ queue[node[r]][s] > 0
    /\ queue' = [queue EXCEPT ![node[r]][s] = @ - 1]
    /\ prog' = [prog EXCEPT ![r] = NoProg]
    /\ slot' = [slot EXCEPT ![r] = s]
    /\ pc' = [pc EXCEPT ![r] = "running"]
    /\ UNCHANGED <<program, life, dtor, bootVars, prog_ref, pending, taskref, node, updVars>>

\* A VM was dequeued: it takes over the request's reference to the program.
Dequeue(r, s) ==
    /\ pc[r] = "waiting" /\ ProgOf[s] = prog[r] /\ queue[node[r]][s] > 0
    /\ queue' = [queue EXCEPT ![node[r]][s] = @ - 1]
    /\ prog_ref' = [prog_ref EXCEPT ![s] = prog[r]]
    /\ prog' = [prog EXCEPT ![r] = NoProg]
    /\ slot' = [slot EXCEPT ![r] = s]
    /\ pc' = [pc EXCEPT ![r] = "running"]
    /\ UNCHANGED <<program, life, dtor, bootVars, pending, taskref, node, updVars>>

\* The timed wait expired on an empty queue.
Timeout(r) ==
    /\ pc[r] = "waiting"
    /\ \A s \in SlotsOf(prog[r]) : queue[node[r]][s] = 0
    /\ pc' = [pc EXCEPT ![r] = "drop"]
    /\ UNCHANGED <<program, life, dtor, bootVars, poolVars, prog, node, slot, updVars>>

\* No reset needed: enqueue the VM here, the reference lives on in a local.
FreeInline(r, n) ==
    LET s == slot[r] IN
    /\ pc[r] = "running" /\ ProgOf[s] \notin Ephemeral
    /\ prog' = [prog EXCEPT ![r] = prog_ref[s]]
    /\ prog_ref' = [prog_ref EXCEPT ![s] = NoProg]
    /\ Enqueue(n, s)
    /\ slot' = [slot EXCEPT ![r] = NoSlot]
    /\ pc' = [pc EXCEPT ![r] = "drop"]
    /\ UNCHANGED <<program, life, dtor, bootVars, pending, taskref, node, updVars>>

\* (bug) The deferred path falls through into the inline one.
FreeFallsThrough(r) ==
    LET s == slot[r] IN
    /\ pc[r] = "running"
    /\ pending' = [pending EXCEPT ![s] = @ + 1]
    /\ Enqueue(node[r], s)
    /\ pc' = [pc EXCEPT ![r] = "assign"]
    /\ UNCHANGED <<program, life, dtor, bootVars, prog_ref, taskref, prog, node, slot, updVars>>

\* (bug) The reference is moved out of the slot on both paths.
FreeMovesRef(r) ==
    LET s == slot[r] IN
    /\ pc[r] = "running"
    /\ pending' = [pending EXCEPT ![s] = @ + 1]
    /\ prog' = [prog EXCEPT ![r] = prog_ref[s]]
    /\ prog_ref' = [prog_ref EXCEPT ![s] = NoProg]
    /\ slot' = [slot EXCEPT ![r] = NoSlot]
    /\ pc' = [pc EXCEPT ![r] = "drop"]
    /\ UNCHANGED <<program, life, dtor, bootVars, queue, taskref, node, updVars>>

\* Reset needed: hand the reset to the thread of the VM.
FreeDeferred(r) ==
    LET s == slot[r] IN
    /\ pc[r] = "running"
    /\ pending' = [pending EXCEPT ![s] = @ + 1]
    /\ pc' = [pc EXCEPT ![r] = "assign"]
    /\ UNCHANGED <<program, life, dtor, bootVars, queue, prog_ref, taskref, prog, node, slot, updVars>>

\* slot->task_future = the future of the task: a write to the slot.
AssignFuture(r) ==
    /\ pc[r] = "assign"
    /\ slot' = [slot EXCEPT ![r] = NoSlot]
    /\ pc' = [pc EXCEPT ![r] = "idle"]
    /\ UNCHANGED <<program, life, dtor, bootVars, poolVars, prog, node, updVars>>

\* The local shared_ptr of the request goes out of scope.
DropRef(r) ==
    /\ pc[r] = "drop"
    /\ prog' = [prog EXCEPT ![r] = NoProg]
    /\ pc' = [pc EXCEPT ![r] = "idle"]
    /\ UNCHANGED <<program, life, bootVars, poolVars, node, slot, updVars>>
    /\ Dropped(r, prog[r])

(***************************************************************************)
(* The thread of a VM running a deferred reset.                            *)
(***************************************************************************)
\* (bug) A VM of a replaced program is not signalled.
ResetTaskNoSignal(s, n) ==
    /\ pending[s] > 0 /\ taskref[s] = NoProg /\ ~Busy(s)
    /\ pending' = [pending EXCEPT ![s] = @ - 1]
    /\ taskref' = [taskref EXCEPT ![s] = prog_ref[s]]
    /\ prog_ref' = [prog_ref EXCEPT ![s] = NoProg]
    /\ IF prog_ref[s] = program THEN Enqueue(n, s) ELSE UNCHANGED queue
    /\ UNCHANGED <<program, life, dtor, bootVars, reqVars, updVars>>

\* (bug) The task copies the reference of the slot instead of moving it.
ResetTaskCopiesRef(s, n) ==
    /\ pending[s] > 0 /\ taskref[s] = NoProg /\ ~Busy(s)
    /\ pending' = [pending EXCEPT ![s] = @ - 1]
    /\ taskref' = [taskref EXCEPT ![s] = prog_ref[s]]
    /\ Enqueue(n, s)
    /\ UNCHANGED <<program, life, dtor, bootVars, prog_ref, reqVars, updVars>>

\* Move the reference out of the slot, then signal that the VM is free.
ResetTask(s, n) ==
    /\ pending[s] > 0 /\ taskref[s] = NoProg /\ ~Busy(s)
    /\ pending' = [pending EXCEPT ![s] = @ - 1]
    /\ taskref' = [taskref EXCEPT ![s] = prog_ref[s]]
    /\ prog_ref' = [prog_ref EXCEPT ![s] = NoProg]
    /\ Enqueue(n, s)
    /\ UNCHANGED <<program, life, dtor, bootVars, reqVars, updVars>>

\* The local ref of the task goes out of scope, on the thread of the VM.
DropTaskRef(s) ==
    /\ taskref[s] # NoProg
    /\ taskref' = [taskref EXCEPT ![s] = NoProg]
    /\ UNCHANGED <<program, life, bootVars, queue, prog_ref, pending, reqVars, updVars>>
    /\ Dropped(s, taskref[s])

(***************************************************************************)
(* A live update: kvm_live_update and commit_program_live.                 *)
(***************************************************************************)
Construct(u, p) ==
    /\ upc[u] = "idle" /\ ~Busy(u) /\ life[p] = "unborn"
    /\ life' = [life EXCEPT ![p] = "live"]
    /\ newp' = [newp EXCEPT ![u] = p]
    /\ upc' = [upc EXCEPT ![u] = "init"]
    /\ UNCHANGED <<program, dtor, bootVars, poolVars, reqVars, cur>>

\* wait_for_initialization returns, or throws when the main VM failed.
InitWaited(u) ==
    /\ upc[u] = "init" /\ InitDone(newp[u])
    /\ upc' = [upc EXCEPT ![u] = IF ready[newp[u]] = "ok" THEN "load" ELSE "dropnew"]
    /\ UNCHANGED <<program, life, dtor, bootVars, poolVars, reqVars, newp, cur>>

\* Reference the current program while its state is transferred, which may
\* throw.
LoadCurrent(u) ==
    /\ upc[u] = "load"
    /\ cur' = [cur EXCEPT ![u] = program]
    /\ \E l \in {"swap", "dropcur"} : upc' = [upc EXCEPT ![u] = l]
    /\ UNCHANGED <<program, life, dtor, bootVars, poolVars, reqVars, newp>>

\* atomic_exchange, whose result (the replaced reference) is discarded.
Swap(u) ==
    /\ upc[u] = "swap"
    /\ program' = newp[u]
    /\ upc' = [upc EXCEPT ![u] = "dropcur"]
    /\ UNCHANGED <<life, bootVars, poolVars, reqVars, newp, cur>>
    /\ Dropped(u, program)

\* current goes out of scope.
DropCurrent(u) ==
    /\ upc[u] = "dropcur" /\ ~Busy(u)
    /\ cur' = [cur EXCEPT ![u] = NoProg]
    /\ upc' = [upc EXCEPT ![u] = "dropnew"]
    /\ UNCHANGED <<program, life, bootVars, poolVars, reqVars, newp>>
    /\ Dropped(u, cur[u])

\* inst goes out of scope.
DropNew(u) ==
    /\ upc[u] = "dropnew" /\ ~Busy(u)
    /\ newp' = [newp EXCEPT ![u] = NoProg]
    /\ upc' = [upc EXCEPT ![u] = "idle"]
    /\ UNCHANGED <<program, life, bootVars, poolVars, reqVars, cur>>
    /\ Dropped(u, newp[u])

\* ~ProgramInstance waits for the reset tasks (task_future, and the threads
\* that are joined with the slots) and for the storage queue.
Destroy(p) ==
    /\ dtor[p] # NoThread
    /\ InitDone(p)
    /\ \A s \in SlotsOf(p) : pending[s] = 0 /\ taskref[s] = NoProg /\ ~Busy(s)
    /\ life' = [life EXCEPT ![p] = "dead"]
    /\ dtor' = [dtor EXCEPT ![p] = NoThread]
    /\ UNCHANGED <<program, bootVars, poolVars, reqVars, updVars>>

Boot(p) ==
    \/ BootFirst(p)
    \/ BootFail(p)
    \/ \E s \in SlotsOf(p) : BootNext(s) \/ BootNextFail(s)

Free(r) == FreeDeferred(r) \/ \E n \in Nodes : FreeInline(r, n)

Reserve(r) ==
    \/ MainVMReady(r)
    \/ MainVMFailed(r)
    \/ Timeout(r)
    \/ \E s \in Slots : Dequeue(r, s)

ReqNext(r) == Ref(r) \/ Reserve(r) \/ Free(r) \/ AssignFuture(r) \/ DropRef(r)

SlotNext(s) == DropTaskRef(s) \/ \E n \in Nodes : ResetTask(s, n)

UpdStep(u) ==
    \/ InitWaited(u)
    \/ LoadCurrent(u)
    \/ Swap(u)
    \/ DropCurrent(u)
    \/ DropNew(u)

Next ==
    \/ \E p \in Programs : Boot(p) \/ Destroy(p)
    \/ \E r \in Requests : ReqNext(r)
    \/ \E s \in Slots : SlotNext(s)
    \/ \E u \in Updaters : UpdStep(u) \/ \E p \in Programs : Construct(u, p)

\* Everything but the arrival of a request or of a new program happens in
\* bounded time: VM calls and queue waits carry timeouts, and threads run.
Fairness ==
    /\ \A p \in Programs : WF_vars(Boot(p)) /\ WF_vars(Destroy(p))
    /\ \A r \in Requests :
          /\ WF_vars(Reserve(r))
          /\ WF_vars(Free(r))
          /\ WF_vars(AssignFuture(r))
          /\ WF_vars(DropRef(r))
    /\ \A s \in Slots : WF_vars(SlotNext(s))
    /\ \A u \in Updaters : WF_vars(UpdStep(u))

Spec == Init /\ [][Next]_vars

FairSpec == Spec /\ Fairness

(***************************************************************************)
(* Properties.                                                             *)
(***************************************************************************)
Holds(r, s)   == pc[r] = "running" /\ slot[r] = s
Queued(s)     == \E n \in Nodes : queue[n][s] > 0

\* "It guarantees ownership of a VM until a request is fully completed": a
\* VM is in the hands of one request, or with its own thread to be reset,
\* or in one queue, once -- never in two of these places.  reserve_vm,
\* both paths of vm_free_function, the forking loop.
Exclusive ==
    \A s \in Slots :
       /\ \A r1, r2 \in Requests : Holds(r1, s) /\ Holds(r2, s) => r1 = r2
       /\ pending[s] \in {0, 1}
       /\ \A n \in Nodes : queue[n][s] \in {0, 1}
       /\ \A n, m \in Nodes : queue[n][s] > 0 /\ queue[m][s] > 0 => n = m
       /\ Queued(s) => pending[s] = 0 /\ \A r \in Requests : ~Holds(r, s)
       /\ pending[s] > 0 => \A r \in Requests : ~Holds(r, s)

\* A VM that was started is never lost: it is held, being reset or queued,
\* whatever timeouts, live updates and failed forks happened.
NoLostVM ==
    \A s \in Slots : boot[s] = "up" =>
       Queued(s) \/ pending[s] > 0 \/ \E r \in Requests : Holds(r, s)

\* vm_free_function dereferences slot->prog_ref: whoever is about to free a
\* VM finds there the program the VM was forked from.
FreeFindsProgram ==
    \A s \in Slots :
       (pending[s] > 0 \/ \E r \in Requests : Holds(r, s)) => prog_ref[s] = ProgOf[s]

\* p is current, is waited for, or one of its VMs is reserved or to be reset.
Used(p) ==
    \/ program = p
    \/ \E r \in Requests : pc[r] \in {"reffed", "waiting"} /\ prog[r] = p
    \/ \E s \in SlotsOf(p) : pending[s] > 0 \/ \E r \in Requests : Holds(r, s)

\* "A ProgramInstance is kept alive for the duration of all requests that are
\* using it", by whoever has the reference at each moment: ref's caller, then
\* the slot, and the task that resets it.  No live update, and no other user's
\* release, lets the destructor start before that.
UsedIsAlive ==
    \A p \in Programs : Used(p) => life[p] = "live" /\ dtor[p] = NoThread

\* A request is none of the other states of a slot.
ASSUME OwnerAssumption == Requests \cap {"absent", "idle", "resetting"} = {}

\* Who has the slot, in the terms of the exclusive pool.
Owner(s) ==
    IF boot[s] # "up" THEN "absent"
    ELSE IF \E r \in Requests : Holds(r, s)
         THEN CHOOSE r \in Requests : Holds(r, s)
    ELSE IF pending[s] > 0 THEN "resetting"
    ELSE "idle"

Promise == INSTANCE ExclusivePool WITH
    Absent <- "absent", Idle <- "idle", Resetting <- "resetting",
    owner <- [s \in Slots |-> Owner(s)],
    gone <- {p \in Programs : life[p] = "dead"}

\* Every behaviour of the pool is one the documentation promises.
ImplementsExclusivePool == Promise!Spec

\* A reserved VM comes back to a queue (vm_free_function), whichever path it
\* takes and whatever happens to its program meanwhile.
VMsComeBack ==
    \A s \in Slots : (\E r \in Requests : Holds(r, s)) ~> Queued(s)

\* A program that stays replaced is dropped by its last user: some thread
\* enters ~ProgramInstance.
ReplacedIsDropped ==
    \A p \in Programs :
       [](life[p] = "live" /\ [](program # p) => <>(life[p] = "dead" \/ dtor[p] # NoThread))

\* "Once they are all finished a ProgramInstance may be destroyed if a live
\* update happened": the destructor of a replaced program also finishes.
ReplacedIsDestroyed ==
    \A p \in Programs :
       [](life[p] = "live" /\ [](program # p) => <>(life[p] = "dead"))
=============================================================================

---------------------------- MODULE BackendFetch ----------------------------
(***************************************************************************)
(* A backend fetch served by a chain of programs: kvmbe_gethdrs, the       *)
(* delivery of the body that follows it, and the priv_task that gives the  *)
(* last VM back when the task ends.  The programs of a chain run one after *)
(* the other, each in a reserved VM, and the response of each is posted to *)
(* the next.  Several fetches compete for the VMs.                         *)
(***************************************************************************)
EXTENDS Reservations, Sequences

CONSTANTS
    Chains,      \* the program chains VCL sets up
    Fetch,       \* the self-request in front of a chain
    Replies,     \* what a VM call can answer
    WSFails,     \* the workspace allocations that can fail
    MaxRetries   \* how often VCL retries a fetch

\* Content lengths: nothing, below backend_early_release_size, or more.
Sizes == {"zero", "short", "long"}

\* A chain item, its break_status reached by an error reply or not.
Items == [tenant : Tenants \cup {Fetch}, breaks : BOOLEAN]

ASSUME ChainAssumption ==
    /\ \A c \in Chains :
          /\ c \in Seq(Items) /\ Len(c) > 0 /\ c[Len(c)].tenant # Fetch
          /\ \A i \in 2..Len(c) : c[i].tenant # Fetch
    /\ Replies \subseteq [status : {"ok", "error"}, size : Sizes, stream : BOOLEAN]
    /\ \A r \in Replies : r.stream => r.size # "zero"
    /\ WSFails \subseteq {"start", "methods", "copy", "htc"}
    /\ MaxRetries \in Nat

VARIABLES
    pc,
    chain,       \* kvmr->chain
    index,       \* the current item, counted from 1
    is_post,     \* the request has a body
    slot,        \* the VM of the current item
    last_slot,   \* the VM of the previous item
    priv,        \* priv_task->priv
    methods,     \* the fini of priv_task->methods
    result,      \* backend_result, and the memory its buffers point to
    chunk,       \* the response of the self-request is allocated
    must_free,   \* must_free_chunk is set
    ws_full,     \* the smallest allocation failed: the workspace is used up
    retries,
    panicked     \* the assert at the early release failed: the process is gone

locals == <<chain, index, is_post, slot, last_slot, result, chunk, must_free>>
task   == <<priv, methods, ws_full, retries>>
vars   == <<pc, locals, task, panicked, slotVars>>

NoResult == [status |-> "ok", size |-> "zero", stream |-> FALSE, src |-> NoSlot]

TypeOK ==
    /\ SlotsType
    /\ pc \in [Tasks -> {"idle", "item", "body", "call", "finish", "deliver", "end"}]
    /\ chain \in [Tasks -> Chains \cup {<<>>}]
    /\ \A t \in Tasks : index[t] \in 1..(Len(chain[t]) + 1)
    /\ is_post \in [Tasks -> BOOLEAN]
    /\ slot \in [Tasks -> Slots \cup {NoSlot}]
    /\ last_slot \in [Tasks -> Slots \cup {NoSlot}]
    /\ priv \in [Tasks -> Slots \cup {NoSlot}]
    /\ methods \in [Tasks -> {"NULL", "vm_free_function", "kvm_free_reserved_machine"}]
    /\ result \in [Tasks -> [status : {"ok", "error"}, size : Sizes,
                             stream : BOOLEAN, src : Slots \cup {NoSlot}]]
    /\ chunk \in [Tasks -> BOOLEAN]
    /\ must_free \in [Tasks -> BOOLEAN]
    /\ ws_full \in [Tasks -> BOOLEAN]
    /\ retries \in [Tasks -> 0..MaxRetries]
    /\ panicked \in BOOLEAN

Init ==
    /\ SlotsInit
    /\ pc = [t \in Tasks |-> "idle"]
    /\ chain = [t \in Tasks |-> <<>>]
    /\ index = [t \in Tasks |-> 1]
    /\ is_post = [t \in Tasks |-> FALSE]
    /\ slot = [t \in Tasks |-> NoSlot]
    /\ last_slot = [t \in Tasks |-> NoSlot]
    /\ priv = [t \in Tasks |-> NoSlot]
    /\ methods = [t \in Tasks |-> "NULL"]
    /\ result = [t \in Tasks |-> NoResult]
    /\ chunk = [t \in Tasks |-> FALSE]
    /\ must_free = [t \in Tasks |-> FALSE]
    /\ ws_full = [t \in Tasks |-> FALSE]
    /\ retries = [t \in Tasks |-> 0]
    /\ panicked = FALSE

Item(t)      == chain[t][index[t]]
Temporary(t) == index[t] < Len(chain[t])     \* is_temporary
Goto(t, l)   == pc' = [pc EXCEPT ![t] = l]

\* An allocation of the named kind on the workspace.
WS_Alloc(kind) == IF kind \in WSFails THEN BOOLEAN ELSE {TRUE}

(***************************************************************************)
(* Leaving kvmbe_gethdrs.  The locals go away; what is still allocated and *)
(* not freed by then stays allocated.                                      *)
(***************************************************************************)
ForgetLocals(t) ==
    /\ chain' = [chain EXCEPT ![t] = <<>>]
    /\ index' = [index EXCEPT ![t] = 1]
    /\ is_post' = [is_post EXCEPT ![t] = FALSE]
    /\ slot' = [slot EXCEPT ![t] = NoSlot]
    /\ last_slot' = [last_slot EXCEPT ![t] = NoSlot]
    /\ result' = [result EXCEPT ![t] = NoResult]
    /\ must_free' = [must_free EXCEPT ![t] = FALSE]

\* LOOP_EXIT_ACTIONS: free the chunk and the previous VM, then return -1.
\* also are the further VMs the error path frees.
Fail(t, also) ==
    /\ Give(t, {last_slot[t]} \cup also)
    /\ chunk' = [chunk EXCEPT ![t] = @ /\ ~must_free[t]]
    /\ ForgetLocals(t)
    /\ Goto(t, "end")

(***************************************************************************)
(* The loop over the chain.                                                *)
(***************************************************************************)
\* Enter kvmbe_gethdrs with the chain VCL made: post and result are
\* allocated on the workspace.
Begin(t) ==
    /\ pc[t] = "idle"
    /\ \E c \in Chains, p \in BOOLEAN, ok \in (IF ws_full[t] THEN {FALSE} ELSE WS_Alloc("start")) :
          /\ chain' = [chain EXCEPT ![t] = IF ok THEN c ELSE <<>>]
          /\ is_post' = [is_post EXCEPT ![t] = ok /\ p]
          /\ Goto(t, IF ok THEN "item" ELSE "end")
    /\ UNCHANGED <<index, slot, last_slot, result, chunk, must_free,
                   task, panicked, slotVars>>

\* kvm_self_request fails without a response, answers with an error
\* status, or yields a chunk for the next item.
SelfRequest(t) ==
    /\ pc[t] = "item" /\ Item(t).tenant = Fetch
    /\ \E st \in {"ok", "error"}, sz \in Sizes, failed \in BOOLEAN :
          LET good == st = "ok" /\ ~failed IN
          /\ result' = [result EXCEPT ![t] =
                [status |-> IF failed THEN "error" ELSE st,
                 size |-> IF failed THEN "zero" ELSE sz,
                 stream |-> FALSE, src |-> NoSlot]]
          /\ chunk' = [chunk EXCEPT ![t] = ~failed]
          /\ must_free' = [must_free EXCEPT ![t] = good]
          /\ index' = [index EXCEPT ![t] = IF good THEN @ + 1 ELSE @]
          /\ Goto(t, IF good THEN "item" ELSE "finish")
    /\ UNCHANGED <<chain, is_post, slot, last_slot, task, panicked, slotVars>>

\* VM s is freed when the task ends.
ReleaseAfter(t, s, fini) ==
    /\ priv' = [priv EXCEPT ![t] = s]
    /\ methods' = [methods EXCEPT ![t] = fini]

kvm_release_after_request(t, s) == ReleaseAfter(t, s, "kvm_free_reserved_machine")

\* (bug) The previous VM is re-used whatever its tenant.
NeedsVMIfNone(t) ==
    /\ pc[t] = "item" /\ Item(t).tenant # Fetch
    /\ last_slot[t] = NoSlot

\* The next item is a program, and not the one that just ran.
NeedsVM(t) ==
    /\ pc[t] = "item" /\ Item(t).tenant # Fetch
    /\ ~(last_slot[t] # NoSlot /\ chain[t][index[t] - 1].tenant = Item(t).tenant)

\* (bug) last_slot is not cleared.
ReuseKeepsLast(t) ==
    /\ pc[t] = "item" /\ Item(t).tenant # Fetch /\ ~NeedsVM(t)
    /\ slot' = [slot EXCEPT ![t] = last_slot[t]]
    /\ IF Temporary(t) THEN UNCHANGED <<priv, methods>>
       ELSE kvm_release_after_request(t, last_slot[t])
    /\ Goto(t, "body")
    /\ UNCHANGED <<chain, index, is_post, last_slot, result, chunk, must_free,
                   ws_full, retries, panicked, slotVars>>

\* Re-use the VM of the previous item; the last item leaves it to priv_task
\* (kvm_release_after_request).
Reuse(t) ==
    /\ pc[t] = "item" /\ Item(t).tenant # Fetch /\ ~NeedsVM(t)
    /\ slot' = [slot EXCEPT ![t] = last_slot[t]]
    /\ last_slot' = [last_slot EXCEPT ![t] = NoSlot]
    /\ IF Temporary(t) THEN UNCHANGED <<priv, methods>>
       ELSE kvm_release_after_request(t, last_slot[t])
    /\ Goto(t, "body")
    /\ UNCHANGED <<chain, index, is_post, result, chunk, must_free,
                   ws_full, retries, panicked, slotVars>>

\* A temporary reservation, in the middle of the chain.
ReserveTemporary(t, s) ==
    /\ NeedsVM(t) /\ Temporary(t) /\ TenantOf[s] = Item(t).tenant
    /\ Take(t, s)
    /\ slot' = [slot EXCEPT ![t] = s]
    /\ Goto(t, "body")
    /\ UNCHANGED <<chain, index, is_post, last_slot, result, chunk,
                   must_free, task, panicked>>

\* vmreserve for the last item: the VM is freed with the task.
ReserveFull(t, s) ==
    /\ NeedsVM(t) /\ ~Temporary(t) /\ TenantOf[s] = Item(t).tenant
    /\ priv[t] = NoSlot
    /\ Take(t, s)
    /\ slot' = [slot EXCEPT ![t] = s]
    /\ ReleaseAfter(t, s, "vm_free_function")
    /\ Goto(t, "body")
    /\ UNCHANGED <<chain, index, is_post, last_slot, result, chunk,
                   must_free, ws_full, retries, panicked>>

\* vmreserve has no workspace for the methods: the VM goes back at once, and
\* priv_task->priv keeps pointing to it.
ReserveNoWorkspace(t, s) ==
    /\ NeedsVM(t) /\ ~Temporary(t) /\ TenantOf[s] = Item(t).tenant
    /\ priv[t] = NoSlot /\ idle[s] > 0 /\ FALSE \in WS_Alloc("methods")
    /\ priv' = [priv EXCEPT ![t] = s]
    /\ ws_full' = [ws_full EXCEPT ![t] = TRUE]
    /\ Fail(t, {})
    /\ UNCHANGED <<methods, retries, panicked>>

\* vmreserve finds that the task has a VM already.
ReserveAgain(t) ==
    /\ NeedsVM(t) /\ ~Temporary(t) /\ priv[t] # NoSlot
    /\ slot' = [slot EXCEPT ![t] = priv[t]]
    /\ Goto(t, "body")
    /\ UNCHANGED <<chain, index, is_post, last_slot, result, chunk,
                   must_free, task, panicked, slotVars>>

\* (bug) The wait for a VM has no timeout.
ReserveKeepsWaiting(t) ==
    /\ NeedsVM(t) /\ (Temporary(t) \/ priv[t] = NoSlot)
    /\ QueueTimeout(Item(t).tenant)
    /\ UNCHANGED vars

\* No VM in time.
ReserveFailed(t) ==
    /\ NeedsVM(t) /\ (Temporary(t) \/ priv[t] = NoSlot)
    /\ QueueTimeout(Item(t).tenant)
    /\ Fail(t, {})
    /\ UNCHANGED <<task, panicked>>

\* ref() finds no program that works, whatever VMs are idle.
ReserveNoProgram(t) ==
    /\ NeedsVM(t) /\ (Temporary(t) \/ priv[t] = NoSlot)
    /\ Fail(t, {})
    /\ UNCHANGED <<task, panicked>>

\* kvm_get_body copies the body of the request into the first VM.
GetBody(t) ==
    /\ pc[t] = "body" /\ index[t] = 1
    /\ \E ok \in (IF is_post[t] THEN BOOLEAN ELSE {TRUE}) :
          \/ /\ ok
             /\ Goto(t, "call")
             /\ UNCHANGED <<locals, slotVars>>
          \/ /\ ~ok
             /\ Fail(t, IF Temporary(t) THEN {slot[t]} ELSE {})
    /\ UNCHANGED <<task, panicked>>

\* (bug) The previous VM is not freed after the transfer.
TransferKeepsLast(t) ==
    LET bufs == ~result[t].stream /\ result[t].size # "zero" IN
    /\ pc[t] = "body" /\ index[t] > 1
    /\ \/ /\ Give(t, {})
          /\ last_slot' = [last_slot EXCEPT ![t] = NoSlot]
          /\ Goto(t, "call")
          /\ UNCHANGED <<chain, index, is_post, slot, result, chunk, must_free>>
       \/ /\ bufs
          /\ Fail(t, IF Temporary(t) THEN {slot[t]} ELSE {})
    /\ UNCHANGED <<task, panicked>>

\* kvm_handle_post_to_another copies the buffers of the previous result
\* into the VM, whose predecessor is then freed.
Transfer(t) ==
    LET bufs == ~result[t].stream /\ result[t].size # "zero" IN
    /\ pc[t] = "body" /\ index[t] > 1
    /\ \/ /\ Give(t, {last_slot[t]})
          /\ last_slot' = [last_slot EXCEPT ![t] = NoSlot]
          /\ Goto(t, "call")
          /\ UNCHANGED <<chain, index, is_post, slot, result, chunk, must_free>>
       \/ /\ bufs
          /\ Fail(t, IF Temporary(t) THEN {slot[t]} ELSE {})
    /\ UNCHANGED <<task, panicked>>

\* kvm_backend_call, and whether the chain breaks.  A temporary VM that
\* breaks the chain is freed.
Call(t) ==
    /\ pc[t] = "call"
    /\ \E r \in Replies :
          LET broke == r.status = "error" /\ Item(t).breaks IN
          /\ result' = [result EXCEPT ![t] =
                [status |-> r.status, size |-> r.size, stream |-> r.stream, src |-> slot[t]]]
          /\ Give(t, IF broke /\ Temporary(t) THEN {slot[t]} ELSE {})
          /\ index' = [index EXCEPT ![t] = IF broke THEN @ ELSE @ + 1]
          /\ Goto(t, IF broke \/ ~Temporary(t) THEN "finish" ELSE "item")
    /\ last_slot' = [last_slot EXCEPT ![t] = slot[t]]
    /\ slot' = [slot EXCEPT ![t] = NoSlot]
    /\ UNCHANGED <<chain, is_post, chunk, must_free, task, panicked>>

(***************************************************************************)
(* After the loop.                                                         *)
(***************************************************************************)
\* (bug) The VM is always released early.
EarlyAlways(t) == last_slot[t] # NoSlot

\* The VM is released early when the response is short.
Early(t) == last_slot[t] # NoSlot /\ result[t].size # "long"

\* The buffers of a streamed response do not add up to its content length.
AssertFails(t) ==
    /\ pc[t] = "finish"
    /\ Early(t) /\ result[t].size = "short" /\ result[t].stream /\ TRUE \in WS_Alloc("copy")
    /\ panicked' = TRUE
    /\ UNCHANGED <<pc, locals, task, slotVars>>

\* A short response is copied to the workspace, if there is room; without
\* content there is nothing to copy.
CopyResult(t) ==
    \E copied \in WS_Alloc("copy") :
       LET r == result[t] IN
       /\ ~(Early(t) /\ r.size = "short" /\ copied /\ r.stream)
       /\ result' = [result EXCEPT ![t].src =
             IF Early(t) /\ (r.size = "zero" \/ copied) THEN NoSlot ELSE @]

\* Free the VM of priv_task now: fini(NULL, priv), to which
\* kvm_free_reserved_machine does nothing.
kvm_early_slot_release(t) ==
    /\ Give(t, IF methods[t] = "vm_free_function" THEN {priv[t]} ELSE {})
    /\ priv' = [priv EXCEPT ![t] = NoSlot]
    /\ methods' = [methods EXCEPT ![t] = "NULL"]

\* The response is handed to Varnish, which fetches the body next.
kvmbe_write_response(t) ==
    \E ok \in WS_Alloc("htc") : Goto(t, IF ok THEN "deliver" ELSE "end")

\* Release the VM early if the response is short, free the chunk, respond.
Finish(t) ==
    /\ pc[t] = "finish"
    /\ CopyResult(t)
    /\ IF Early(t) THEN kvm_early_slot_release(t)
       ELSE UNCHANGED <<priv, methods, slotVars>>
    /\ chunk' = [chunk EXCEPT ![t] = @ /\ ~must_free[t]]
    /\ must_free' = [must_free EXCEPT ![t] = FALSE]
    /\ kvmbe_write_response(t)
    /\ UNCHANGED <<chain, index, is_post, slot, last_slot, ws_full, retries, panicked>>

\* kvmfp_pull or kvmfp_streaming_pull until the body is in storage, then
\* kvmbe_finish.
Deliver(t) ==
    /\ pc[t] = "deliver"
    /\ Goto(t, "end")
    /\ UNCHANGED <<locals, task, panicked, slotVars>>

\* VCL retries, before or without a delivery: the task and its priv_task
\* go on.
Retry(t) ==
    /\ pc[t] \in {"deliver", "end"} /\ retries[t] < MaxRetries
    /\ retries' = [retries EXCEPT ![t] = @ + 1]
    /\ ForgetLocals(t)
    /\ Goto(t, "idle")
    /\ UNCHANGED <<chunk, priv, methods, ws_full, panicked, slotVars>>

\* The end of the task: Varnish calls the methods of priv_task.
TaskEnd(t) ==
    /\ pc[t] = "end"
    /\ Give(t, IF methods[t] # "NULL" THEN {priv[t]} ELSE {})
    /\ priv' = [priv EXCEPT ![t] = NoSlot]
    /\ methods' = [methods EXCEPT ![t] = "NULL"]
    /\ ws_full' = [ws_full EXCEPT ![t] = FALSE]
    /\ retries' = [retries EXCEPT ![t] = 0]
    /\ ForgetLocals(t)
    /\ Goto(t, "idle")
    /\ UNCHANGED <<chunk, panicked>>

Reserve(t) ==
    \/ Reuse(t)
    \/ ReserveAgain(t)
    \/ ReserveFailed(t)
    \/ \E s \in Slots : ReserveTemporary(t, s) \/ ReserveFull(t, s) \/ ReserveNoWorkspace(t, s)

Step(t) ==
    \/ SelfRequest(t)
    \/ Reserve(t)
    \/ GetBody(t)
    \/ Transfer(t)
    \/ Call(t)
    \/ AssertFails(t)
    \/ Finish(t)
    \/ Deliver(t)
    \/ TaskEnd(t)

\* What the requests and the programs bring about.
Arrive(t) == Begin(t) \/ Retry(t) \/ ReserveNoProgram(t)

Next == ~panicked /\ \E t \in Tasks : Arrive(t) \/ Step(t)

Spec == Init /\ [][Next]_vars

(***************************************************************************)
(* Properties.                                                             *)
(***************************************************************************)
\* "At this point any previously reserved VM has been freed.  We are only
\* reserving the current VM in the chain": kvmbe_gethdrs at every VM call of
\* a fetch that is not a retry.
OnlyCurrentAtCall ==
    \A t \in Tasks : pc[t] = "call" /\ retries[t] = 0 => held[t] = {slot[t]}

\* The VMs whose memory, or whose program, the next step of the task uses.
InUse(t) ==
    CASE pc[t] = "call" -> {slot[t]}
      [] pc[t] = "body" -> {slot[t], result[t].src} \ {NoSlot}
      [] pc[t] = "finish" -> IF Early(t) /\ result[t].size = "short" THEN {result[t].src} \ {NoSlot} ELSE {}
      [] pc[t] = "deliver" -> IF result[t].size = "zero" THEN {} ELSE {result[t].src} \ {NoSlot}
      [] OTHER -> {}

\* "It guarantees ownership of a VM until a request is fully completed,
\* including any data transfers": calls, chain transfers, the early copy and
\* the delivery touch only VMs the task has reserved and not freed.
UsesReserved == \A t \in Tasks : InUse(t) \subseteq held[t]

\* A response that may be in a VM which is freed: of a program in the middle
\* that broke off the chain, or short, without room to copy it.
Abandoned(t) ==
    \/ pc[t] \in {"finish", "deliver"} /\ Temporary(t)
    \/ pc[t] = "deliver" /\ result[t].size = "short"

\* Calls and chain transfers touch only VMs the task has reserved and not
\* freed, wherever its chain breaks, and so do the early copy and the delivery
\* of what the last program answers.
KeepsReserved == \A t \in Tasks : ~Abandoned(t) => InUse(t) \subseteq held[t]

\* The program that is called is the one the chain names: a VM re-used from
\* the previous item, or found in priv_task, is one of that tenant, unless a
\* retry finds there the VM of the program that was tried before.
RunsOwnProgram ==
    \A t \in Tasks : pc[t] = "call" =>
       \/ TenantOf[slot[t]] = Item(t).tenant
       \/ retries[t] > 0 /\ slot[t] = priv[t]
=============================================================================

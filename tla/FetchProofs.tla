----------------------------- MODULE FetchProofs -----------------------------
(***************************************************************************)
(* Proofs about BackendFetch, for any number of fetches, VMs and tenants,  *)
(* any chains, replies and failures of the workspace, and any number of    *)
(* retries unless a theorem says otherwise.  The variables of a fetch that *)
(* point to VMs (slot, last_slot, priv_task) point to different VMs it     *)
(* holds, as long as it is going to free them.                             *)
(***************************************************************************)
EXTENDS BackendFetch, TLAPS

\* Zenon proves most leaves; those that need arithmetic cite SMT.
USE ZenonT(30)

MaybeSlot == Slots \cup {NoSlot}

Types ==
    /\ idle \in [Slots -> Nat]
    /\ prog_ref \in [Slots -> BOOLEAN]
    /\ held \in [Tasks -> SUBSET Slots]
    /\ pc \in [Tasks -> {"idle", "item", "body", "call", "finish", "deliver", "end"}]
    /\ slot \in [Tasks -> MaybeSlot]
    /\ last_slot \in [Tasks -> MaybeSlot]
    /\ priv \in [Tasks -> MaybeSlot]
    /\ methods \in [Tasks -> {"NULL", "vm_free_function", "kvm_free_reserved_machine"}]
    /\ ws_full \in [Tasks -> BOOLEAN]
    /\ DOMAIN chain = Tasks
    /\ DOMAIN index = Tasks
    /\ DOMAIN result = Tasks
    /\ retries \in [Tasks -> Nat]

\* A VM is in the queue and nobody has it, or one fetch has it.
Idle(s)  == idle[s] = 1 /\ ~prog_ref[s] /\ \A t \in Tasks : s \notin held[t]
Taken(s) == /\ idle[s] = 0 /\ prog_ref[s]
            /\ \E t \in Tasks : s \in held[t] /\ \A u \in Tasks \ {t} : s \notin held[u]

SlotInv == ~crashed /\ \A s \in Slots : Idle(s) \/ Taken(s)

\* priv_task points to a VM of the fetch if its methods are set; without
\* them it is NULL, or no further attempt gets past its first allocation.
PrivInv(t) ==
    /\ methods[t] # "NULL" => priv[t] \in held[t]
    /\ methods[t] = "NULL" /\ priv[t] # NoSlot => ws_full[t]
    /\ pc[t] \in {"item", "body", "call"} => ~ws_full[t]

\* The VM of the previous item is not the one priv_task frees.
LastInv(t) ==
    /\ pc[t] = "idle" => last_slot[t] = NoSlot
    /\ pc[t] \in {"item", "body"} =>
          /\ last_slot[t] \in held[t] \cup {NoSlot}
          /\ methods[t] # "NULL" => last_slot[t] # priv[t]

\* The VM of the current item; priv_task frees it if the item is the last.
CurrentInv(t) ==
    pc[t] \in {"body", "call"} =>
       /\ slot[t] \in held[t]
       /\ pc[t] = "body" => slot[t] # last_slot[t]
       /\ IF Temporary(t) THEN methods[t] # "NULL" => slot[t] # priv[t]
          ELSE methods[t] # "NULL" /\ slot[t] = priv[t]

Own(t) == PrivInv(t) /\ LastInv(t) /\ CurrentInv(t)

IInv == Types /\ SlotInv /\ \A t \in Tasks : Own(t)

\* What the other fetches see of a step of t.
Others(t) ==
    \A u \in Tasks \ {t} :
       /\ pc'[u] = pc[u] /\ held'[u] = held[u]
       /\ slot'[u] = slot[u] /\ last_slot'[u] = last_slot[u] /\ priv'[u] = priv[u]
       /\ methods'[u] = methods[u] /\ ws_full'[u] = ws_full[u]
       /\ chain'[u] = chain[u] /\ index'[u] = index[u]
       /\ result'[u] = result[u] /\ retries'[u] = retries[u]

(***************************************************************************)
(* Reservations and frees.                                                 *)
(***************************************************************************)
\* reserve_vm: the VM leaves the queue and belongs to the fetch only.
LEMMA TakeKeeps ==
    ASSUME Types, SlotInv, NEW t \in Tasks, NEW s \in Slots, Take(t, s)
    PROVE  /\ SlotInv'
           /\ idle' \in [Slots -> Nat] /\ prog_ref' \in [Slots -> BOOLEAN]
           /\ held' \in [Tasks -> SUBSET Slots]
           /\ s \notin held[t] /\ held'[t] = held[t] \cup {s}
           /\ \A u \in Tasks \ {t} : held'[u] = held[u]
<1>1. idle[s] = 1 /\ \A u \in Tasks : s \notin held[u]
  BY SMT DEF Types, SlotInv, Idle, Taken, Take
<1>2. /\ idle' \in [Slots -> Nat] /\ prog_ref' \in [Slots -> BOOLEAN]
      /\ held' \in [Tasks -> SUBSET Slots]
      /\ held'[t] = held[t] \cup {s}
      /\ \A u \in Tasks \ {t} : held'[u] = held[u]
  BY SMT, <1>1 DEF Types, Take
<1>3. ASSUME NEW r \in Slots PROVE (Idle(r) \/ Taken(r))'
  <2>1. CASE r = s
    <3>1. idle'[s] = 0 /\ prog_ref'[s] BY SMT, <1>1 DEF Types, Take
    <3>2. s \in held'[t] /\ \A u \in Tasks \ {t} : s \notin held'[u] BY <1>1, <1>2
    <3> QED BY <2>1, <3>1, <3>2 DEF Taken
  <2>2. CASE r # s
    <3>1. idle'[r] = idle[r] /\ prog_ref'[r] = prog_ref[r] BY <2>2 DEF Types, Take
    <3>2. \A u \in Tasks : r \in held'[u] <=> r \in held[u] BY <1>2, <2>2
    <3> QED BY <3>1, <3>2 DEF SlotInv, Idle, Taken
  <2> QED BY <2>1, <2>2
<1>4. ~crashed' BY DEF SlotInv, Take
<1> QED BY <1>1, <1>2, <1>3, <1>4 DEF SlotInv

\* vm_free_function on VMs that the fetch holds.
LEMMA GiveKeeps ==
    ASSUME Types, SlotInv, NEW t \in Tasks, NEW S, S \ {NoSlot} \subseteq held[t], Give(t, S)
    PROVE  /\ SlotInv'
           /\ idle' \in [Slots -> Nat] /\ prog_ref' \in [Slots -> BOOLEAN]
           /\ held' \in [Tasks -> SUBSET Slots]
           /\ held'[t] = held[t] \ S
           /\ \A u \in Tasks \ {t} : held'[u] = held[u]
<1>1. /\ held' \in [Tasks -> SUBSET Slots]
      /\ held'[t] = held[t] \ S
      /\ \A u \in Tasks \ {t} : held'[u] = held[u]
  BY DEF Types, Give
<1>2. \A s \in S \ {NoSlot} : s \in Slots /\ s \in held[t] /\ idle[s] = 0 /\ prog_ref[s]
               /\ \A u \in Tasks \ {t} : s \notin held[u]
  BY DEF Types, SlotInv, Idle, Taken
<1>3. idle' \in [Slots -> Nat] /\ prog_ref' \in [Slots -> BOOLEAN]
  BY SMT DEF Types, Give
<1>4. ASSUME NEW r \in Slots PROVE (Idle(r) \/ Taken(r))'
  <2>0. r # NoSlot BY SlotsAssumption
  <2>1. CASE r \in S
    <3>0. idle[r] = 0 /\ prog_ref[r] BY <1>2, <2>0, <2>1
    <3>1a. idle'[r] = idle[r] + (IF r \in S /\ prog_ref[r] THEN 1 ELSE 0) BY DEF Give
    <3>1b. idle'[r] = 1 BY SMT, <3>0, <3>1a, <2>1
    <3>1c. ~prog_ref'[r] BY <2>1, Zenon DEF Give
    <3>1. idle'[r] = 1 /\ ~prog_ref'[r] BY <3>1b, <3>1c
    <3>2. \A u \in Tasks : r \notin held'[u] BY <1>1, <1>2, <2>0, <2>1
    <3> QED BY <3>1, <3>2 DEF Idle
  <2>2. CASE r \notin S
    <3>1. idle'[r] = idle[r] /\ prog_ref'[r] = prog_ref[r] BY SMT, <2>2 DEF Types, Give
    <3>2. \A u \in Tasks : r \in held'[u] <=> r \in held[u] BY <1>1, <2>2
    <3> QED BY <3>1, <3>2 DEF SlotInv, Idle, Taken
  <2> QED BY <2>1, <2>2
<1>5. ~crashed' BY <1>2 DEF SlotInv, Give
<1> QED BY <1>1, <1>3, <1>4, <1>5 DEF SlotInv

\* Nothing is reserved or freed.
LEMMA SlotsKept ==
    ASSUME Types, SlotInv, UNCHANGED slotVars
    PROVE  /\ SlotInv'
           /\ idle' \in [Slots -> Nat] /\ prog_ref' \in [Slots -> BOOLEAN]
           /\ held' \in [Tasks -> SUBSET Slots] /\ held' = held
BY DEF Types, SlotInv, Idle, Taken, slotVars

(***************************************************************************)
(* Every step of a fetch keeps what it knows about its VMs, and leaves the *)
(* other fetches alone.                                                    *)
(***************************************************************************)
Kept(t) == Types' /\ SlotInv' /\ Others(t) /\ Own(t)'

\* LOOP_EXIT_ACTIONS frees VMs that the fetch holds and priv_task does not.
LEMMA FailKeeps ==
    ASSUME IInv, NEW t \in Tasks, NEW S,
           S \ {NoSlot} \subseteq held[t], methods[t] # "NULL" => priv[t] \notin S,
           last_slot[t] \in held[t] \cup {NoSlot},
           methods[t] # "NULL" => last_slot[t] # priv[t],
           Fail(t, S), UNCHANGED task
    PROVE  Kept(t)
<1>1. ({last_slot[t]} \cup S) \ {NoSlot} \subseteq held[t] OBVIOUS
<1>2. /\ SlotInv'
      /\ idle' \in [Slots -> Nat] /\ prog_ref' \in [Slots -> BOOLEAN]
      /\ held' \in [Tasks -> SUBSET Slots]
      /\ held'[t] = held[t] \ ({last_slot[t]} \cup S)
      /\ \A u \in Tasks \ {t} : held'[u] = held[u]
  BY <1>1, GiveKeeps DEF IInv, Fail
<1>3. Types' BY <1>2 DEF IInv, Types, Fail, ForgetLocals, Goto, task, MaybeSlot
<1>4. Others(t) BY <1>2 DEF IInv, Types, Fail, ForgetLocals, Goto, task, Others
<1>5. pc'[t] = "end" /\ priv' = priv /\ methods' = methods /\ ws_full' = ws_full
  BY DEF IInv, Types, Fail, Goto, task
<1>6. Own(t)' BY <1>2, <1>5 DEF IInv, Own, PrivInv, LastInv, CurrentInv
<1> QED BY <1>2, <1>3, <1>4, <1>6 DEF Kept

\* Enter kvmbe_gethdrs.
LEMMA BeginKeeps == ASSUME IInv, NEW t \in Tasks, Begin(t) PROVE Kept(t)
<1>1. /\ SlotInv' /\ idle' \in [Slots -> Nat] /\ prog_ref' \in [Slots -> BOOLEAN]
      /\ held' \in [Tasks -> SUBSET Slots] /\ held' = held
  BY SlotsKept DEF IInv, Begin
<1>2. Types' BY <1>1 DEF IInv, Types, Begin, Goto, task
<1>3. Others(t) BY <1>1 DEF IInv, Types, Begin, Goto, task, Others
<1>4. /\ last_slot' = last_slot /\ priv' = priv /\ methods' = methods /\ ws_full' = ws_full
      /\ last_slot[t] = NoSlot
      /\ pc'[t] = "end" \/ (pc'[t] = "item" /\ ~ws_full[t])
  BY DEF IInv, Types, Own, LastInv, Begin, Goto, task
<1>5. methods[t] # "NULL" => priv[t] # NoSlot BY SMT, SlotsAssumption DEF IInv, Types, Own, PrivInv
<1>6. Own(t)' BY <1>1, <1>4, <1>5 DEF IInv, Own, PrivInv, LastInv, CurrentInv
<1> QED BY <1>1, <1>2, <1>3, <1>6 DEF Kept

\* kvm_self_request.
LEMMA SelfRequestKeeps == ASSUME IInv, NEW t \in Tasks, SelfRequest(t) PROVE Kept(t)
<1>1. /\ SlotInv' /\ idle' \in [Slots -> Nat] /\ prog_ref' \in [Slots -> BOOLEAN]
      /\ held' \in [Tasks -> SUBSET Slots] /\ held' = held
  BY SlotsKept DEF IInv, SelfRequest
<1>2. Types' BY <1>1 DEF IInv, Types, SelfRequest, Goto, task
<1>3. Others(t) BY <1>1 DEF IInv, Types, SelfRequest, Goto, task, Others
<1>4. /\ last_slot' = last_slot /\ priv' = priv /\ methods' = methods /\ ws_full' = ws_full
      /\ pc[t] = "item" /\ pc'[t] \in {"item", "finish"}
  BY DEF IInv, Types, SelfRequest, Goto, task
<1>5. Own(t)' BY <1>1, <1>4 DEF IInv, Own, PrivInv, LastInv, CurrentInv
<1> QED BY <1>1, <1>2, <1>3, <1>5 DEF Kept

\* The VM of the previous item is used again, and no longer the previous one.
LEMMA ReuseKeeps == ASSUME IInv, NEW t \in Tasks, Reuse(t) PROVE Kept(t)
<1>1. /\ SlotInv' /\ idle' \in [Slots -> Nat] /\ prog_ref' \in [Slots -> BOOLEAN]
      /\ held' \in [Tasks -> SUBSET Slots] /\ held' = held
  BY SlotsKept DEF IInv, Reuse
<1>2. last_slot[t] # NoSlot /\ last_slot[t] \in held[t] /\ (methods[t] # "NULL" => last_slot[t] # priv[t])
  BY DEF IInv, Own, LastInv, Reuse, NeedsVM
<1>3. Types' BY <1>1 DEF IInv, Types, Reuse, kvm_release_after_request, ReleaseAfter, Goto, MaybeSlot
<1>4. Others(t) BY <1>1 DEF IInv, Types, Reuse, kvm_release_after_request, ReleaseAfter, Goto, Others
<1>5. /\ pc[t] = "item" /\ pc'[t] = "body" /\ ws_full' = ws_full
      /\ slot'[t] = last_slot[t] /\ last_slot'[t] = NoSlot
      /\ Temporary(t)' <=> Temporary(t)
  BY DEF IInv, Types, Reuse, Goto, Temporary
<1>6. CASE Temporary(t)
  <2>1. priv' = priv /\ methods' = methods BY <1>6 DEF Reuse
  <2>2. methods[t] # "NULL" => priv[t] # NoSlot BY SMT, SlotsAssumption DEF IInv, Types, Own, PrivInv
  <2>3. Own(t)' BY <1>1, <1>2, <1>5, <1>6, <2>1, <2>2 DEF IInv, Own, PrivInv, LastInv, CurrentInv
  <2> QED BY <1>1, <1>3, <1>4, <2>3 DEF Kept
<1>7. CASE ~Temporary(t)
  <2>1. priv'[t] = last_slot[t] /\ methods'[t] # "NULL" BY <1>7 DEF IInv, Types, Reuse, kvm_release_after_request, ReleaseAfter
  <2>2. Own(t)' BY <1>1, <1>2, <1>5, <1>7, <2>1 DEF IInv, Own, PrivInv, LastInv, CurrentInv
  <2> QED BY <1>1, <1>3, <1>4, <2>2 DEF Kept
<1> QED BY <1>6, <1>7

\* vmreserve finds the VM of an earlier attempt in priv_task.
LEMMA ReserveAgainKeeps == ASSUME IInv, NEW t \in Tasks, ReserveAgain(t) PROVE Kept(t)
<1>1. /\ SlotInv' /\ idle' \in [Slots -> Nat] /\ prog_ref' \in [Slots -> BOOLEAN]
      /\ held' \in [Tasks -> SUBSET Slots] /\ held' = held
  BY SlotsKept DEF IInv, ReserveAgain
<1>2. pc[t] = "item" /\ methods[t] # "NULL" /\ priv[t] \in held[t] /\ last_slot[t] # priv[t]
  BY DEF IInv, Own, PrivInv, LastInv, ReserveAgain, NeedsVM
<1>3. Types' BY <1>1 DEF IInv, Types, ReserveAgain, Goto, MaybeSlot, task
<1>4. Others(t) BY <1>1 DEF IInv, Types, ReserveAgain, Goto, Others, task
<1>5. /\ pc'[t] = "body" /\ ws_full' = ws_full /\ priv' = priv /\ methods' = methods
      /\ slot'[t] = priv[t] /\ last_slot' = last_slot /\ ~Temporary(t)'
  BY DEF IInv, Types, ReserveAgain, Goto, Temporary, task
<1>6. Own(t)' BY <1>1, <1>2, <1>5 DEF IInv, Own, PrivInv, LastInv, CurrentInv
<1> QED BY <1>1, <1>3, <1>4, <1>6 DEF Kept

\* A temporary reservation.
LEMMA ReserveTemporaryKeeps ==
    ASSUME IInv, NEW t \in Tasks, NEW s \in Slots, ReserveTemporary(t, s) PROVE Kept(t)
<1>1. /\ SlotInv' /\ idle' \in [Slots -> Nat] /\ prog_ref' \in [Slots -> BOOLEAN]
      /\ held' \in [Tasks -> SUBSET Slots]
      /\ s \notin held[t] /\ held'[t] = held[t] \cup {s}
      /\ \A u \in Tasks \ {t} : held'[u] = held[u]
  BY TakeKeeps DEF IInv, ReserveTemporary
<1>2. Types' BY <1>1 DEF IInv, Types, ReserveTemporary, Goto, MaybeSlot, task
<1>3. Others(t) BY <1>1 DEF IInv, Types, ReserveTemporary, Goto, Others, task
<1>4. /\ pc[t] = "item" /\ pc'[t] = "body" /\ ws_full' = ws_full /\ priv' = priv /\ methods' = methods
      /\ slot'[t] = s /\ last_slot' = last_slot /\ Temporary(t)'
  BY DEF IInv, Types, ReserveTemporary, NeedsVM, Goto, Temporary, task
<1>5. s # NoSlot BY SlotsAssumption
<1>6. Own(t)' BY <1>1, <1>4, <1>5 DEF IInv, Own, PrivInv, LastInv, CurrentInv
<1> QED BY <1>1, <1>2, <1>3, <1>6 DEF Kept

\* vmreserve.
LEMMA ReserveFullKeeps ==
    ASSUME IInv, NEW t \in Tasks, NEW s \in Slots, ReserveFull(t, s) PROVE Kept(t)
<1>1. /\ SlotInv' /\ idle' \in [Slots -> Nat] /\ prog_ref' \in [Slots -> BOOLEAN]
      /\ held' \in [Tasks -> SUBSET Slots]
      /\ s \notin held[t] /\ held'[t] = held[t] \cup {s}
      /\ \A u \in Tasks \ {t} : held'[u] = held[u]
  BY TakeKeeps DEF IInv, ReserveFull
<1>2. Types' BY <1>1 DEF IInv, Types, ReserveFull, ReleaseAfter, Goto, MaybeSlot
<1>3. Others(t) BY <1>1 DEF IInv, Types, ReserveFull, ReleaseAfter, Goto, Others
<1>4. /\ pc[t] = "item" /\ pc'[t] = "body" /\ ws_full' = ws_full /\ priv'[t] = s /\ methods'[t] # "NULL"
      /\ slot'[t] = s /\ last_slot' = last_slot /\ ~Temporary(t)'
  BY DEF IInv, Types, ReserveFull, NeedsVM, ReleaseAfter, Goto, Temporary
<1>5. s # NoSlot BY SlotsAssumption
<1>6. Own(t)' BY <1>1, <1>4, <1>5 DEF IInv, Own, PrivInv, LastInv, CurrentInv
<1> QED BY <1>1, <1>2, <1>3, <1>6 DEF Kept

\* vmreserve without workspace: the VM stays in the queue, priv_task points
\* to it, and no later attempt gets as far as this one.
LEMMA ReserveNoWorkspaceKeeps ==
    ASSUME IInv, NEW t \in Tasks, NEW s \in Slots, ReserveNoWorkspace(t, s) PROVE Kept(t)
<1>1. pc[t] = "item" /\ priv[t] = NoSlot /\ methods[t] = "NULL" /\ last_slot[t] \in held[t] \cup {NoSlot}
  BY SlotsAssumption DEF IInv, Types, Own, PrivInv, LastInv, ReserveNoWorkspace, NeedsVM
<1>2. ({last_slot[t]} \cup {}) \ {NoSlot} \subseteq held[t] BY <1>1
<1>3. /\ SlotInv'
      /\ idle' \in [Slots -> Nat] /\ prog_ref' \in [Slots -> BOOLEAN]
      /\ held' \in [Tasks -> SUBSET Slots]
      /\ \A u \in Tasks \ {t} : held'[u] = held[u]
  BY <1>2, GiveKeeps DEF IInv, ReserveNoWorkspace, Fail
<1>4. Types' BY <1>3 DEF IInv, Types, ReserveNoWorkspace, Fail, ForgetLocals, Goto, MaybeSlot
<1>5. Others(t) BY <1>3 DEF IInv, Types, ReserveNoWorkspace, Fail, ForgetLocals, Goto, Others
<1>6. pc'[t] = "end" /\ methods' = methods /\ ws_full'[t]
  BY DEF IInv, Types, ReserveNoWorkspace, Fail, Goto
<1>7. Own(t)' BY <1>1, <1>6 DEF Own, PrivInv, LastInv, CurrentInv
<1> QED BY <1>3, <1>4, <1>5, <1>7 DEF Kept

\* No VM in time, or no program.
LEMMA ReserveFailedKeeps ==
    ASSUME IInv, NEW t \in Tasks, ReserveFailed(t) \/ ReserveNoProgram(t) PROVE Kept(t)
<1>1. /\ last_slot[t] \in held[t] \cup {NoSlot}
      /\ methods[t] # "NULL" => last_slot[t] # priv[t]
  BY DEF IInv, Own, LastInv, ReserveFailed, ReserveNoProgram, NeedsVM
<1>2. Fail(t, {}) /\ UNCHANGED task BY DEF ReserveFailed, ReserveNoProgram
<1>3. {} \ {NoSlot} \subseteq held[t] /\ (methods[t] # "NULL" => priv[t] \notin {}) OBVIOUS
<1> QED BY <1>1, <1>2, <1>3, FailKeeps

\* kvm_get_body and kvm_handle_post_to_another fail: a temporary VM is freed
\* with the previous one.
LEMMA BodyFails ==
    ASSUME IInv, NEW t \in Tasks, pc[t] = "body",
           Fail(t, IF Temporary(t) THEN {slot[t]} ELSE {}), UNCHANGED task
    PROVE  Kept(t)
<1> DEFINE S == IF Temporary(t) THEN {slot[t]} ELSE {}
<1>1. /\ last_slot[t] \in held[t] \cup {NoSlot}
      /\ methods[t] # "NULL" => last_slot[t] # priv[t]
  BY DEF IInv, Own, LastInv
<1>2. S \ {NoSlot} \subseteq held[t] BY DEF IInv, Own, CurrentInv
<1>3. methods[t] # "NULL" => priv[t] \notin S BY DEF IInv, Own, CurrentInv
<1>4. Fail(t, S) OBVIOUS
<1> HIDE DEF S
<1> QED BY <1>1, <1>2, <1>3, <1>4, FailKeeps

\* kvm_get_body.
LEMMA GetBodyKeeps == ASSUME IInv, NEW t \in Tasks, GetBody(t) PROVE Kept(t)
<1>1. CASE Goto(t, "call") /\ UNCHANGED <<locals, slotVars>>
  <2>1. /\ SlotInv' /\ idle' \in [Slots -> Nat] /\ prog_ref' \in [Slots -> BOOLEAN]
        /\ held' \in [Tasks -> SUBSET Slots] /\ held' = held
    BY <1>1, SlotsKept DEF IInv
  <2>2. Types' BY <1>1, <2>1 DEF IInv, Types, GetBody, Goto, task, locals
  <2>3. Others(t) BY <1>1, <2>1 DEF IInv, Types, GetBody, Goto, Others, task, locals
  <2>4. /\ pc[t] = "body" /\ pc'[t] = "call" /\ UNCHANGED <<ws_full, priv, methods, slot>>
        /\ Temporary(t)' <=> Temporary(t)
    BY <1>1 DEF IInv, Types, GetBody, Goto, Temporary, task, locals
  <2>5. Own(t)' BY <2>1, <2>4 DEF IInv, Own, PrivInv, LastInv, CurrentInv
  <2> QED BY <2>1, <2>2, <2>3, <2>5 DEF Kept
<1>2. CASE Fail(t, IF Temporary(t) THEN {slot[t]} ELSE {})
  BY <1>2, BodyFails DEF GetBody
<1> QED BY <1>1, <1>2 DEF GetBody

\* kvm_handle_post_to_another; the previous VM is freed.
LEMMA TransferKeeps == ASSUME IInv, NEW t \in Tasks, Transfer(t) PROVE Kept(t)
<1>1. CASE /\ Give(t, {last_slot[t]})
           /\ last_slot' = [last_slot EXCEPT ![t] = NoSlot]
           /\ Goto(t, "call")
           /\ UNCHANGED <<chain, index, is_post, slot, result, chunk, must_free>>
  <2>0. pc[t] = "body" /\ UNCHANGED task BY DEF Transfer
  <2>1. {last_slot[t]} \ {NoSlot} \subseteq held[t] BY <2>0 DEF IInv, Own, LastInv
  <2>2. /\ SlotInv' /\ idle' \in [Slots -> Nat] /\ prog_ref' \in [Slots -> BOOLEAN]
        /\ held' \in [Tasks -> SUBSET Slots] /\ held'[t] = held[t] \ {last_slot[t]}
        /\ \A u \in Tasks \ {t} : held'[u] = held[u]
    BY <1>1, <2>1, GiveKeeps DEF IInv
  <2>3. Types' BY <1>1, <2>0, <2>2 DEF IInv, Types, Goto, task, MaybeSlot
  <2>4. Others(t) BY <1>1, <2>0, <2>2 DEF IInv, Types, Goto, Others, task
  <2>5. /\ pc'[t] = "call" /\ UNCHANGED <<ws_full, priv, methods, slot>>
        /\ Temporary(t)' <=> Temporary(t)
    BY <1>1, <2>0 DEF IInv, Types, Goto, Temporary, task
  <2>6. Own(t)' BY <2>0, <2>2, <2>5 DEF IInv, Own, PrivInv, LastInv, CurrentInv
  <2> QED BY <2>2, <2>3, <2>4, <2>6 DEF Kept
<1>2. CASE Fail(t, IF Temporary(t) THEN {slot[t]} ELSE {})
  BY <1>2, BodyFails DEF Transfer
<1> QED BY <1>1, <1>2 DEF Transfer

\* kvm_backend_call; a temporary VM that breaks the chain is freed.
LEMMA CallKeeps == ASSUME IInv, NEW t \in Tasks, Call(t) PROVE Kept(t)
<1>1. PICK broke \in BOOLEAN :
         /\ Give(t, IF broke /\ Temporary(t) THEN {slot[t]} ELSE {})
         /\ index' = [index EXCEPT ![t] = IF broke THEN @ ELSE @ + 1]
         /\ Goto(t, IF broke \/ ~Temporary(t) THEN "finish" ELSE "item")
  BY DEF Call
<1>2. /\ pc[t] = "call" /\ last_slot' = [last_slot EXCEPT ![t] = slot[t]]
      /\ slot' = [slot EXCEPT ![t] = NoSlot] /\ UNCHANGED <<chain, task>>
      /\ \E r : result' = [result EXCEPT ![t] = r]
  BY DEF Call
<1> DEFINE S == IF broke /\ Temporary(t) THEN {slot[t]} ELSE {}
<1>3. S \ {NoSlot} \subseteq held[t] BY <1>2 DEF IInv, Own, CurrentInv
<1>4. Give(t, S) BY <1>1
<1>5. /\ SlotInv' /\ idle' \in [Slots -> Nat] /\ prog_ref' \in [Slots -> BOOLEAN]
      /\ held' \in [Tasks -> SUBSET Slots] /\ held'[t] = held[t] \ S
      /\ \A u \in Tasks \ {t} : held'[u] = held[u]
  <2> HIDE DEF S
  <2> QED BY <1>3, <1>4, GiveKeeps DEF IInv
<1>6. Types' BY <1>1, <1>2, <1>5 DEF IInv, Types, Goto, task, MaybeSlot
<1>7. Others(t) BY <1>1, <1>2, <1>5 DEF IInv, Types, Goto, Others, task
<1>8. UNCHANGED <<ws_full, priv, methods>> /\ last_slot'[t] = slot[t]
  BY <1>2 DEF IInv, Types, task
<1>9. CASE broke \/ ~Temporary(t)
  <2>1. pc'[t] = "finish" BY <1>1, <1>9 DEF IInv, Types, Goto
  <2>2. methods[t] # "NULL" => priv[t] \notin S BY <1>2 DEF IInv, Own, CurrentInv
  <2>3. Own(t)' BY <1>5, <1>8, <2>1, <2>2 DEF IInv, Own, PrivInv, LastInv, CurrentInv
  <2> QED BY <1>5, <1>6, <1>7, <2>3 DEF Kept
<1>10. CASE ~broke /\ Temporary(t)
  <2>1. pc'[t] = "item" BY <1>1, <1>10 DEF IInv, Types, Goto
  <2>2. held'[t] = held[t] BY <1>5, <1>10
  <2>3. slot[t] \in held[t] /\ (methods[t] # "NULL" => slot[t] # priv[t])
    BY <1>2, <1>10 DEF IInv, Own, CurrentInv
  <2>4. Own(t)' BY <1>2, <1>8, <2>1, <2>2, <2>3 DEF IInv, Own, PrivInv, LastInv, CurrentInv
  <2> QED BY <1>5, <1>6, <1>7, <2>4 DEF Kept
<1> QED BY <1>9, <1>10

\* priv_task is freed, early or at the end of the task, if its methods do so.
LEMMA PrivIsFreed ==
    ASSUME IInv, NEW t \in Tasks, NEW frees \in BOOLEAN, frees => methods[t] # "NULL",
           Give(t, IF frees THEN {priv[t]} ELSE {})
    PROVE  /\ SlotInv' /\ idle' \in [Slots -> Nat] /\ prog_ref' \in [Slots -> BOOLEAN]
           /\ held' \in [Tasks -> SUBSET Slots]
           /\ held'[t] = held[t] \ (IF frees THEN {priv[t]} ELSE {})
           /\ \A u \in Tasks \ {t} : held'[u] = held[u]
<1> DEFINE S == IF frees THEN {priv[t]} ELSE {}
<1>1. S \ {NoSlot} \subseteq held[t] BY DEF IInv, Own, PrivInv
<1>2. Give(t, S) OBVIOUS
<1> HIDE DEF S
<1>3. /\ SlotInv' /\ idle' \in [Slots -> Nat] /\ prog_ref' \in [Slots -> BOOLEAN]
      /\ held' \in [Tasks -> SUBSET Slots] /\ held'[t] = held[t] \ S
      /\ \A u \in Tasks \ {t} : held'[u] = held[u]
  BY <1>1, <1>2, GiveKeeps DEF IInv
<1> QED BY <1>3 DEF S

\* The early release, and the response.
LEMMA FinishKeeps == ASSUME IInv, NEW t \in Tasks, Finish(t) PROVE Kept(t)
<1>1. /\ pc[t] = "finish" /\ (Goto(t, "deliver") \/ Goto(t, "end"))
      /\ UNCHANGED <<chain, index, slot, last_slot, ws_full, retries>>
      /\ \E r : result' = [result EXCEPT ![t] = r]
  BY DEF Finish, CopyResult, kvmbe_write_response
<1>2. pc'[t] \in {"deliver", "end"} BY <1>1 DEF IInv, Types, Goto
<1>3. CASE kvm_early_slot_release(t)
  <2>1. /\ SlotInv' /\ idle' \in [Slots -> Nat] /\ prog_ref' \in [Slots -> BOOLEAN]
        /\ held' \in [Tasks -> SUBSET Slots]
        /\ \A u \in Tasks \ {t} : held'[u] = held[u]
    <3>1. Give(t, IF methods[t] = "vm_free_function" THEN {priv[t]} ELSE {})
      BY <1>3 DEF kvm_early_slot_release
    <3>2. methods[t] = "vm_free_function" => methods[t] # "NULL" OBVIOUS
    <3> QED BY <3>1, <3>2, PrivIsFreed
  <2>2. priv' = [priv EXCEPT ![t] = NoSlot] /\ methods' = [methods EXCEPT ![t] = "NULL"]
    BY <1>3 DEF kvm_early_slot_release
  <2>3. Types' BY <1>1, <2>1, <2>2 DEF IInv, Types, Goto, MaybeSlot
  <2>4. Others(t) BY <1>1, <2>1, <2>2 DEF IInv, Types, Goto, Others
  <2>5. priv'[t] = NoSlot /\ methods'[t] = "NULL" BY <2>2 DEF IInv, Types
  <2>6. Own(t)' BY <1>2, <2>5 DEF Own, PrivInv, LastInv, CurrentInv
  <2> QED BY <2>1, <2>3, <2>4, <2>6 DEF Kept
<1>4. CASE UNCHANGED <<priv, methods, slotVars>>
  <2>1. /\ SlotInv' /\ idle' \in [Slots -> Nat] /\ prog_ref' \in [Slots -> BOOLEAN]
        /\ held' \in [Tasks -> SUBSET Slots] /\ held' = held
    BY <1>4, SlotsKept DEF IInv
  <2>2. Types' BY <1>1, <1>4, <2>1 DEF IInv, Types, Goto
  <2>3. Others(t) BY <1>1, <1>4, <2>1 DEF IInv, Types, Goto, Others
  <2>4. Own(t)' BY <1>1, <1>2, <1>4, <2>1 DEF IInv, Own, PrivInv, LastInv, CurrentInv
  <2> QED BY <2>1, <2>2, <2>3, <2>4 DEF Kept
<1> QED BY <1>3, <1>4 DEF Finish

\* The delivery, and a retry, which forgets the locals.
LEMMA LaterKeeps == ASSUME IInv, NEW t \in Tasks, Deliver(t) \/ Retry(t) PROVE Kept(t)
<1>1. /\ SlotInv' /\ idle' \in [Slots -> Nat] /\ prog_ref' \in [Slots -> BOOLEAN]
      /\ held' \in [Tasks -> SUBSET Slots] /\ held' = held
  BY SlotsKept DEF IInv, Deliver, Retry
<1>2. CASE Deliver(t)
  <2>1. Types' BY <1>1, <1>2 DEF IInv, Types, Deliver, Goto, task, locals
  <2>2. Others(t) BY <1>1, <1>2 DEF IInv, Types, Deliver, Goto, task, locals, Others
  <2>3. pc'[t] = "end" /\ UNCHANGED <<priv, methods, ws_full>>
    BY <1>2 DEF IInv, Types, Deliver, Goto, task
  <2>4. Own(t)' BY <1>1, <2>3 DEF IInv, Own, PrivInv, LastInv, CurrentInv
  <2> QED BY <1>1, <2>1, <2>2, <2>4 DEF Kept
<1>3. CASE Retry(t)
  <2>1. Types' BY SMT, <1>1, <1>3 DEF IInv, Types, Retry, ForgetLocals, Goto, MaybeSlot
  <2>2. Others(t) BY <1>1, <1>3 DEF IInv, Types, Retry, ForgetLocals, Goto, Others
  <2>3. pc'[t] = "idle" /\ last_slot'[t] = NoSlot /\ UNCHANGED <<priv, methods, ws_full>>
    BY <1>3 DEF IInv, Types, Retry, ForgetLocals, Goto
  <2>4. Own(t)' BY <1>1, <2>3 DEF IInv, Own, PrivInv, LastInv, CurrentInv
  <2> QED BY <1>1, <2>1, <2>2, <2>4 DEF Kept
<1> QED BY <1>2, <1>3

\* The failing assert.
LEMMA AssertFailsKeeps == ASSUME IInv, NEW t \in Tasks, AssertFails(t) PROVE Kept(t)
<1>1. SlotInv' BY SlotsKept DEF IInv, AssertFails
<1>2. Types' BY DEF IInv, Types, AssertFails, locals, task, slotVars
<1>3. Others(t) BY DEF AssertFails, locals, task, slotVars, Others
<1>4. Temporary(t)' <=> Temporary(t) BY DEF AssertFails, locals, Temporary
<1>5. Own(t)'
  BY <1>4 DEF IInv, Own, PrivInv, LastInv, CurrentInv, AssertFails, locals, task, slotVars
<1> QED BY <1>1, <1>2, <1>3, <1>5 DEF Kept

\* The end of the task.
LEMMA TaskEndKeeps == ASSUME IInv, NEW t \in Tasks, TaskEnd(t) PROVE Kept(t)
<1>1. /\ SlotInv' /\ idle' \in [Slots -> Nat] /\ prog_ref' \in [Slots -> BOOLEAN]
      /\ held' \in [Tasks -> SUBSET Slots]
      /\ \A u \in Tasks \ {t} : held'[u] = held[u]
  <2>1. Give(t, IF methods[t] # "NULL" THEN {priv[t]} ELSE {}) BY DEF TaskEnd
  <2> QED BY <2>1, PrivIsFreed
<1>2. Types' BY <1>1 DEF IInv, Types, TaskEnd, ForgetLocals, Goto, MaybeSlot
<1>3. Others(t) BY <1>1 DEF IInv, Types, TaskEnd, ForgetLocals, Goto, Others
<1>4. pc'[t] = "idle" /\ last_slot'[t] = NoSlot /\ priv'[t] = NoSlot /\ methods'[t] = "NULL"
  BY DEF IInv, Types, TaskEnd, ForgetLocals, Goto
<1>5. Own(t)' BY <1>4 DEF Own, PrivInv, LastInv, CurrentInv
<1> QED BY <1>1, <1>2, <1>3, <1>5 DEF Kept

(***************************************************************************)
(* The invariant.                                                          *)
(***************************************************************************)
\* A step of one fetch.
LEMMA StepKeeps ==
    ASSUME IInv, NEW t \in Tasks, Arrive(t) \/ Step(t) PROVE Kept(t)
BY BeginKeeps, SelfRequestKeeps, ReuseKeeps, ReserveAgainKeeps, ReserveFailedKeeps,
   ReserveTemporaryKeeps, ReserveFullKeeps, ReserveNoWorkspaceKeeps, GetBodyKeeps,
   TransferKeeps, CallKeeps, AssertFailsKeeps, FinishKeeps, LaterKeeps, TaskEndKeeps
   DEF Arrive, Step, Reserve

\* A fetch that another one's step leaves alone knows what it knew.
LEMMA OthersKeep ==
    ASSUME IInv, NEW t \in Tasks, Others(t), NEW u \in Tasks \ {t} PROVE Own(u)'
<1>1. Temporary(u)' <=> Temporary(u) BY DEF Others, Temporary
<1> QED BY SMT, <1>1 DEF IInv, Own, PrivInv, LastInv, CurrentInv, Others

\* The inductive invariant of kvmbe_gethdrs holds at first,
LEMMA InitInv == ASSUME Init PROVE IInv
<1>1. Types BY DEF Init, SlotsInit, Types, MaybeSlot
<1>2. SlotInv BY DEF Init, SlotsInit, SlotInv, Idle
<1>3. ASSUME NEW t \in Tasks PROVE Own(t) BY DEF Init, Own, PrivInv, LastInv, CurrentInv
<1> QED BY <1>1, <1>2, <1>3 DEF IInv

\* and is kept by every step of a fetch.
LEMMA StepInv ==
    ASSUME IInv, NEW t \in Tasks, Arrive(t) \/ Step(t) PROVE IInv' /\ Others(t)
<1>1. Types' /\ SlotInv' /\ Others(t) /\ Own(t)' BY StepKeeps DEF Kept
<1>2. \A u \in Tasks \ {t} : Own(u)' BY <1>1, OthersKeep
<1> QED BY <1>1, <1>2 DEF IInv

\* The inductive invariant of kvmbe_gethdrs.
LEMMA Invariance == Spec => []IInv
<1>1. IInv /\ [Next]_vars => IInv'
  <2> SUFFICES ASSUME IInv, [Next]_vars PROVE IInv' OBVIOUS
  <2>1. CASE Next BY <2>1, StepInv DEF Next
  <2>2. CASE UNCHANGED vars
    <3>1. Types' BY <2>2 DEF IInv, Types, vars, locals, task, slotVars
    <3>2. SlotInv' BY <2>2, SlotsKept DEF IInv, vars
    <3>3. ASSUME NEW t \in Tasks PROVE Own(t)'
      <4>1. Temporary(t)' <=> Temporary(t) BY <2>2 DEF vars, locals, Temporary
      <4> QED BY <2>2, <4>1 DEF IInv, Own, PrivInv, LastInv, CurrentInv, vars, locals, task, slotVars
    <3> QED BY <3>1, <3>2, <3>3 DEF IInv
  <2> QED BY <2>1, <2>2
<1> QED BY <1>1, InitInv, PTL DEF Spec

\* Every VM is in its queue or reserved by one fetch, and no fetch frees a VM
\* twice or frees one of another: whatever chains kvmbe_gethdrs runs, wherever
\* they break or fail, and however often VCL retries.
THEOREM FetchesReserveOnce == Spec => []ReservedOnce
<1>1. IInv => ReservedOnce BY DEF IInv, SlotInv, Idle, Taken, ReservedOnce
<1> QED BY <1>1, Invariance, PTL

(***************************************************************************)
(* Which program runs.                                                     *)
(***************************************************************************)
\* Where a fetch is in its chain.
Position(t) ==
    /\ pc[t] = "idle" => index[t] = 1
    /\ pc[t] \in {"item", "body", "call"} => chain[t] \in Chains /\ index[t] \in 1..Len(chain[t])

\* The VM of the previous item is one of its program, and in a first attempt
\* only the last item has a VM in priv_task.
Previous(t) ==
    /\ pc[t] = "item" /\ last_slot[t] # NoSlot =>
          index[t] > 1 /\ TenantOf[last_slot[t]] = chain[t][index[t] - 1].tenant
    /\ retries[t] = 0 /\ pc[t] \in {"idle", "item"} => priv[t] = NoSlot

\* The VM of the current item.
Current(t) ==
    pc[t] \in {"body", "call"} =>
       /\ TenantOf[slot[t]] = Item(t).tenant \/ (retries[t] > 0 /\ slot[t] = priv[t])
       /\ Temporary(t) => slot[t] # priv[t]
       /\ Temporary(t) /\ retries[t] = 0 => priv[t] = NoSlot
       /\ pc[t] = "body" /\ last_slot[t] # NoSlot => index[t] > 1

Programs(t) == Position(t) /\ Previous(t) /\ Current(t)

\* The loop over the chain: the self-request and the steps that begin an item.
LEMMA ItemPrograms ==
    ASSUME IInv, NEW t \in Tasks, Programs(t),
           Begin(t) \/ SelfRequest(t) \/ Reserve(t) \/ ReserveNoProgram(t)
    PROVE  Programs(t)'
<1>0. ASSUME pc'[t] = "end" PROVE Programs(t)'
  BY <1>0 DEF Programs, Position, Previous, Current
<1>1. CASE Begin(t)
  <2>1. PICK c \in Chains : pc'[t] = "end" \/ (pc'[t] = "item" /\ chain'[t] = c)
    BY <1>1 DEF IInv, Types, Begin, Goto
  <2>2. Len(c) \in Nat /\ Len(c) > 0 BY SMT, ChainAssumption
  <2>3. UNCHANGED <<index, last_slot, priv, retries>> /\ index[t] = 1 /\ last_slot[t] = NoSlot
        /\ (retries[t] = 0 => priv[t] = NoSlot)
    BY <1>1 DEF IInv, Own, LastInv, Programs, Position, Previous, Begin, task
  <2> QED BY SMT, <1>0, <2>1, <2>2, <2>3 DEF Programs, Position, Previous, Current
<1>2. CASE SelfRequest(t)
  <2>1. /\ pc[t] = "item" /\ Item(t).tenant = Fetch /\ UNCHANGED <<chain, last_slot, priv, retries>>
        /\ pc'[t] = "finish" \/ (pc'[t] = "item" /\ index'[t] = index[t] + 1)
    BY <1>2 DEF IInv, Types, SelfRequest, Goto, task
  <2>2. chain[t] \in Chains /\ index[t] \in 1..Len(chain[t]) BY <2>1 DEF Programs, Position
  <2>3. Len(chain[t]) \in Nat /\ index[t] # Len(chain[t]) /\ index[t] = 1
    BY SMT, <2>1, <2>2, ChainAssumption DEF Item
  <2>4. last_slot[t] = NoSlot BY SMT, <2>1, <2>3 DEF Programs, Previous
  <2>5. CASE pc'[t] = "finish" BY <2>5 DEF Programs, Position, Previous, Current
  <2>6. CASE pc'[t] = "item" /\ index'[t] = index[t] + 1
    <3> DEFINE n == Len(chain[t])
    <3>0. n \in Nat /\ index[t] \in 1..n /\ index[t] # n /\ index[t] = 1 BY <2>2, <2>3
    <3> HIDE DEF n
    <3>0a. index'[t] = 2 BY SMT, <2>6, <3>0
    <3>0b. 2 \in 1..n BY SMT, <3>0
    <3>0c. index'[t] \in 1..Len(chain[t]) BY <3>0a, <3>0b DEF n
    <3>1. Position(t)' BY <2>1, <2>2, <2>6, <3>0c DEF Position
    <3>2. Previous(t)' BY <2>1, <2>4, <2>6 DEF Programs, Previous
    <3> QED BY <2>6, <3>1, <3>2 DEF Programs, Current
  <2> QED BY <2>1, <2>5, <2>6
<1>3. CASE Reuse(t)
  <2>1. /\ pc[t] = "item" /\ pc'[t] = "body" /\ slot'[t] = last_slot[t] /\ last_slot[t] # NoSlot
        /\ last_slot'[t] = NoSlot
        /\ UNCHANGED <<chain, index, retries>>
        /\ chain[t][index[t] - 1].tenant = Item(t).tenant
        /\ Temporary(t) => priv' = priv
    BY <1>3 DEF IInv, Types, Reuse, NeedsVM, Goto
  <2>2. TenantOf[slot'[t]] = Item(t).tenant BY <2>1 DEF Programs, Previous
  <2>3. Item(t)' = Item(t) /\ (Temporary(t)' <=> Temporary(t)) BY <2>1 DEF Item, Temporary
  <2>4. last_slot[t] # priv[t]
    BY <2>1 DEF IInv, Own, PrivInv, LastInv
  <2> QED BY <2>1, <2>2, <2>3, <2>4 DEF Programs, Position, Previous, Current
<1>4. CASE ReserveAgain(t)
  <2>1. /\ pc[t] = "item" /\ pc'[t] = "body" /\ slot'[t] = priv[t] /\ priv[t] # NoSlot
        /\ UNCHANGED <<chain, index, retries, priv, last_slot>> /\ ~Temporary(t)' /\ retries[t] \in Nat
    BY <1>4 DEF IInv, Types, ReserveAgain, NeedsVM, Goto, Temporary, task
  <2> QED BY SMT, <2>1 DEF Programs, Position, Previous, Current
<1>5. ASSUME NEW s \in Slots, ReserveTemporary(t, s) PROVE Programs(t)'
  <2>1. /\ pc[t] = "item" /\ pc'[t] = "body" /\ slot'[t] = s /\ TenantOf[s] = Item(t).tenant
        /\ UNCHANGED <<chain, index, priv, methods, retries, last_slot>> /\ Item(t)' = Item(t)
    BY <1>5 DEF IInv, Types, ReserveTemporary, NeedsVM, Goto, Item, task
  <2>2. s \notin held[t] BY <1>5, TakeKeeps DEF IInv, ReserveTemporary
  <2>3. s # priv[t] BY <2>1, <2>2, SlotsAssumption DEF IInv, Own, PrivInv
  <2> QED BY <2>1, <2>3 DEF Programs, Position, Previous, Current
<1>6. ASSUME NEW s \in Slots, ReserveFull(t, s) PROVE Programs(t)'
  <2>1. /\ pc[t] = "item" /\ pc'[t] = "body" /\ slot'[t] = s /\ TenantOf[s] = Item(t).tenant
        /\ UNCHANGED <<chain, index, last_slot>> /\ Item(t)' = Item(t) /\ ~Temporary(t)'
    BY <1>6 DEF IInv, Types, ReserveFull, NeedsVM, Goto, Item, Temporary
  <2> QED BY <2>1 DEF Programs, Position, Previous, Current
<1>7. ASSUME NEW s \in Slots, ReserveNoWorkspace(t, s) PROVE Programs(t)'
  BY <1>0, <1>7 DEF IInv, Types, ReserveNoWorkspace, Fail, Goto
<1>8. CASE ReserveFailed(t) \/ ReserveNoProgram(t)
  BY <1>0, <1>8 DEF IInv, Types, ReserveFailed, ReserveNoProgram, Fail, Goto
<1> QED BY <1>1, <1>2, <1>3, <1>4, <1>5, <1>6, <1>7, <1>8 DEF Reserve

\* The steps of one item, and those after the loop.
LEMMA CallPrograms ==
    ASSUME IInv, NEW t \in Tasks, Programs(t),
           \/ GetBody(t) \/ Transfer(t) \/ Call(t) \/ AssertFails(t)
           \/ Finish(t) \/ Deliver(t) \/ TaskEnd(t) \/ Retry(t)
    PROVE  Programs(t)'
<1>0. ASSUME pc'[t] \in {"deliver", "end", "finish"} PROVE Programs(t)'
  BY <1>0 DEF Programs, Position, Previous, Current
<1>1. CASE GetBody(t) \/ Transfer(t)
  <2>1. \/ Goto(t, "call") /\ UNCHANGED <<chain, index, slot, priv, retries>>
        \/ Goto(t, "end")
    BY <1>1 DEF GetBody, Transfer, Fail, locals, task
  <2>2. CASE Goto(t, "call") /\ UNCHANGED <<chain, index, slot, priv, retries>>
    <3>1. pc[t] = "body" /\ pc'[t] = "call" BY <1>1, <2>2 DEF IInv, Types, GetBody, Transfer, Goto
    <3>2. Item(t)' = Item(t) /\ (Temporary(t)' <=> Temporary(t)) BY <2>2 DEF Item, Temporary
    <3> QED BY <2>2, <3>1, <3>2 DEF Programs, Position, Previous, Current
  <2> QED BY <1>0, <2>1, <2>2 DEF IInv, Types, Goto
<1>2. CASE Call(t)
  <2>1. /\ pc[t] = "call" /\ UNCHANGED <<chain, priv, retries>> /\ last_slot'[t] = slot[t]
        /\ \/ pc'[t] = "finish"
           \/ pc'[t] = "item" /\ Temporary(t) /\ index'[t] = index[t] + 1
    BY <1>2 DEF IInv, Types, Call, Goto, task
  <2>2. CASE pc'[t] = "item" /\ Temporary(t) /\ index'[t] = index[t] + 1
    <3>1. chain[t] \in Chains /\ index[t] \in 1..Len(chain[t]) BY <2>1 DEF Programs, Position
    <3>2. Len(chain[t]) \in Nat BY SMT, <3>1, ChainAssumption
    <3>3. TenantOf[slot[t]] = chain[t][index[t]].tenant
      BY <2>1, <2>2 DEF Programs, Current, Item
    <3>4. Position(t)' BY SMT, <2>1, <2>2, <3>1, <3>2 DEF Position, Temporary
    <3>5. retries[t] = 0 => priv[t] = NoSlot
      BY <2>1, <2>2 DEF Programs, Current
    <3>6. index'[t] > 1 /\ index'[t] - 1 = index[t] BY SMT, <2>2, <3>1, <3>2
    <3>7. TenantOf[last_slot'[t]] = chain'[t][index'[t] - 1].tenant BY <2>1, <3>3, <3>6
    <3>8. priv' = priv /\ retries' = retries BY <2>1
    <3>9. Previous(t)' BY <3>5, <3>6, <3>7, <3>8 DEF Previous
    <3>10. Current(t)' BY <2>2 DEF Current
    <3> QED BY <3>4, <3>9, <3>10 DEF Programs
  <2> QED BY <1>0, <2>1, <2>2
<1>3. CASE Finish(t) \/ Deliver(t)
  BY <1>0, <1>3 DEF IInv, Types, Finish, kvmbe_write_response, Deliver, Goto
<1>4. CASE TaskEnd(t)
  <2>1. pc'[t] = "idle" /\ index'[t] = 1 /\ priv'[t] = NoSlot
    BY <1>4 DEF IInv, Types, TaskEnd, ForgetLocals, Goto
  <2> QED BY <2>1 DEF Programs, Position, Previous, Current
<1>5. CASE Retry(t)
  <2>1. pc'[t] = "idle" /\ index'[t] = 1 /\ retries'[t] = retries[t] + 1 /\ retries[t] \in Nat
    BY <1>5 DEF IInv, Types, Retry, ForgetLocals, Goto
  <2>2. retries'[t] # 0 BY SMT, <2>1
  <2>3. Position(t)' BY <2>1 DEF Position
  <2>4. Previous(t)' BY <2>1, <2>2 DEF Previous
  <2>5. Current(t)' BY <2>1 DEF Current
  <2> QED BY <2>3, <2>4, <2>5 DEF Programs
<1>6. CASE AssertFails(t)
  BY <1>0, <1>6 DEF AssertFails
<1> QED BY <1>1, <1>2, <1>3, <1>4, <1>5, <1>6

PInv == IInv /\ \A t \in Tasks : Programs(t)

\* The invariant about the programs, on top of the one about the VMs, holds at
\* first,
LEMMA InitPrograms == ASSUME Init PROVE PInv
BY InitInv DEF PInv, Init, Programs, Position, Previous, Current

\* is kept by a fetch that another one's step leaves alone,
LEMMA OthersPrograms ==
    ASSUME NEW t \in Tasks, Others(t), NEW u \in Tasks \ {t}, Programs(u) PROVE Programs(u)'
<1>1. Item(u)' = Item(u) /\ (Temporary(u)' <=> Temporary(u)) BY DEF Others, Item, Temporary
<1>2. /\ pc'[u] = pc[u] /\ index'[u] = index[u] /\ chain'[u] = chain[u]
      /\ slot'[u] = slot[u] /\ last_slot'[u] = last_slot[u]
      /\ priv'[u] = priv[u] /\ retries'[u] = retries[u]
  BY DEF Others
<1>3. Position(u) /\ Previous(u) /\ Current(u) BY DEF Programs
<1>4. Position(u)' BY <1>2, <1>3 DEF Position
<1>5. Previous(u)' BY <1>2, <1>3 DEF Previous
<1>6. Current(u)' BY <1>1, <1>2, <1>3 DEF Current
<1> QED BY <1>4, <1>5, <1>6 DEF Programs

\* and is kept by every step of a fetch, for that fetch and for the others.
LEMMA StepPrograms ==
    ASSUME PInv, NEW t \in Tasks, Arrive(t) \/ Step(t) PROVE PInv' /\ Others(t)
<1>0. IInv /\ \A u \in Tasks : Programs(u) BY DEF PInv
<1>1. IInv' /\ Others(t) BY <1>0, StepInv
<1>2. ASSUME NEW u \in Tasks PROVE Programs(u)'
  <2>1. CASE u = t BY <1>0, <2>1, ItemPrograms, CallPrograms DEF Arrive, Step
  <2>2. CASE u # t BY <1>0, <1>1, <2>2, OthersPrograms
  <2> QED BY <2>1, <2>2
<1> QED BY <1>1, <1>2 DEF PInv

\* The invariant about the programs.
LEMMA ProgramInvariance == Spec => []PInv
<1>1. PInv /\ IInv' /\ [Next]_vars => PInv'
  <2> SUFFICES ASSUME PInv, IInv', [Next]_vars PROVE PInv' OBVIOUS
  <2>1. CASE Next BY <2>1, StepPrograms DEF Next
  <2>2. CASE UNCHANGED vars
    <3> SUFFICES ASSUME NEW u \in Tasks PROVE Programs(u)' BY DEF PInv
    <3>1. Item(u)' = Item(u) /\ (Temporary(u)' <=> Temporary(u))
      BY <2>2 DEF vars, locals, Item, Temporary
    <3> QED BY <2>2, <3>1 DEF PInv, vars, locals, task, Programs, Position, Previous, Current
  <2> QED BY <2>1, <2>2
<1> QED BY <1>1, InitPrograms, Invariance, PTL DEF Spec

\* The VM at a call is one of the program that the chain names.
LEMMA OwnProgramInv == ASSUME PInv PROVE RunsOwnProgram
BY DEF PInv, RunsOwnProgram, Programs, Current

\* kvm_backend_call runs the program that the chain names, in every item of
\* every chain; only a retry may run, for the last item, the VM that an earlier
\* attempt left in priv_task.
THEOREM FetchesRunOwnProgram == Spec => []RunsOwnProgram
BY OwnProgramInv, ProgramInvariance, PTL

(***************************************************************************)
(* Whose memory is read.                                                   *)
(***************************************************************************)
Results == [status : {"ok", "error"}, size : Sizes, stream : BOOLEAN, src : MaybeSlot]

\* The buffers of a result are in a VM that the fetch has.
Source(t) ==
    /\ result[t] \in Results
    /\ pc[t] = "idle" => result[t].src = NoSlot
    /\ pc[t] = "item" => result[t].src \in {NoSlot, last_slot[t]}
    /\ pc[t] = "body" => result[t].src \in {NoSlot, last_slot[t], slot[t]}
    /\ pc[t] \in {"finish", "deliver"} =>
          \/ result[t].src = NoSlot
          \/ methods[t] # "NULL" /\ result[t].src = priv[t]
          \/ Abandoned(t)

\* A chain that no program breaks ends after its last one, whose VM priv_task
\* frees.
LEMMA CallSource ==
    ASSUME PInv, NEW t \in Tasks, Source(t), Call(t) PROVE Source(t)'
<1>1. PICK r \in Replies :
         LET broke == r.status = "error" /\ Item(t).breaks IN
          /\ result' = [result EXCEPT ![t] =
                [status |-> r.status, size |-> r.size, stream |-> r.stream, src |-> slot[t]]]
          /\ index' = [index EXCEPT ![t] = IF broke THEN @ ELSE @ + 1]
          /\ Goto(t, IF broke \/ ~Temporary(t) THEN "finish" ELSE "item")
  BY DEF Call
<1> DEFINE broke == r.status = "error" /\ Item(t).breaks
<1>2. /\ pc[t] = "call" /\ last_slot' = [last_slot EXCEPT ![t] = slot[t]]
      /\ UNCHANGED <<chain, priv, methods>>
  BY DEF Call, task
<1>3. pc'[t] = (IF broke \/ ~Temporary(t) THEN "finish" ELSE "item")
  BY <1>1 DEF PInv, IInv, Types, Goto
<1>4. broke => index'[t] = index[t] BY <1>1 DEF PInv, IInv, Types
<1>5. result'[t] = [status |-> r.status, size |-> r.size, stream |-> r.stream, src |-> slot[t]]
  BY <1>1 DEF PInv, IInv, Types
<1>6. result'[t] \in Results
  <2>1. r \in [status : {"ok", "error"}, size : Sizes, stream : BOOLEAN] BY ChainAssumption
  <2>2. slot[t] \in MaybeSlot BY DEF PInv, IInv, Types
  <2> QED BY SMT, <1>5, <2>1, <2>2 DEF Results
<1>7. result'[t].src = slot[t] BY SMT, <1>5
<1> HIDE DEF broke
<1>8. CASE ~broke /\ Temporary(t)
  <2>1. pc'[t] = "item" /\ last_slot'[t] = slot[t] BY <1>2, <1>3, <1>8 DEF PInv, IInv, Types
  <2> QED BY <1>6, <1>7, <2>1 DEF Source
<1>9. CASE ~Temporary(t)
  <2>1. pc'[t] = "finish" BY <1>3, <1>9
  <2>2. methods[t] # "NULL" /\ slot[t] = priv[t] BY <1>2, <1>9 DEF PInv, IInv, Own, CurrentInv
  <2> QED BY <1>2, <1>6, <1>7, <2>1, <2>2 DEF Source
<1>10. CASE broke /\ Temporary(t)
  <2>1. pc'[t] = "finish" BY <1>3, <1>10
  <2>2. Temporary(t)' BY <1>2, <1>4, <1>10 DEF Temporary
  <2> QED BY <1>6, <2>1, <2>2 DEF Source, Abandoned
<1> QED BY <1>8, <1>9, <1>10

\* The early copy takes the buffers out of the VM that is released, if there
\* is room for them.
LEMMA FinishSource ==
    ASSUME PInv, NEW t \in Tasks, Source(t), Finish(t) PROVE Source(t)'
<1>1. pc[t] = "finish" /\ result[t] \in Results BY DEF Finish, Source
<1>2. pc'[t] \in {"deliver", "end"} BY DEF PInv, IInv, Types, Finish, kvmbe_write_response, Goto
<1>3. PICK copied \in BOOLEAN :
         result' = [result EXCEPT ![t].src =
            IF Early(t) /\ (result[t].size = "zero" \/ copied) THEN NoSlot ELSE @]
  BY DEF Finish, CopyResult, WS_Alloc
<1>4. /\ result'[t] \in Results /\ result'[t].size = result[t].size
      /\ result'[t].src = IF Early(t) /\ (result[t].size = "zero" \/ copied) THEN NoSlot
                          ELSE result[t].src
  BY SMT, <1>1, <1>3 DEF PInv, IInv, Types, Results, MaybeSlot
<1>5. Temporary(t)' <=> Temporary(t) BY DEF Finish, Temporary
<1>6. CASE Early(t) /\ (result[t].size = "zero" \/ copied)
  BY <1>2, <1>4, <1>6 DEF Source
<1>7. CASE Early(t) /\ ~(result[t].size = "zero" \/ copied)
  <2>1. result'[t].size = "short" BY <1>1, <1>4, <1>7 DEF Early, Results, Sizes
  <2> QED BY <1>2, <1>4, <2>1 DEF Source, Abandoned
<1>8. CASE ~Early(t)
  <2>1. result'[t].src = result[t].src BY <1>4, <1>8
  <2>2. UNCHANGED <<priv, methods>> BY <1>8 DEF Finish
  <2>3. Abandoned(t) => Temporary(t) BY <1>1 DEF Abandoned
  <2>4. Temporary(t)' => Abandoned(t)' \/ pc'[t] = "end" BY <1>2 DEF Abandoned
  <2> QED BY <1>1, <1>2, <1>4, <1>5, <2>1, <2>2, <2>3, <2>4 DEF Source
<1> QED BY <1>6, <1>7, <1>8

\* The steps that leave kvmbe_gethdrs forget the result.
LEMMA ForgetSource ==
    ASSUME PInv, NEW t \in Tasks, ForgetLocals(t), pc'[t] \in {"idle", "end"} PROVE Source(t)'
<1>1. result'[t] = NoResult BY DEF PInv, IInv, Types, ForgetLocals
<1>2. result'[t] \in Results BY SMT, <1>1 DEF Results, NoResult, MaybeSlot, Sizes
<1>3. result'[t].src = NoSlot BY SMT, <1>1 DEF NoResult
<1> QED BY <1>2, <1>3 DEF Source

\* The other steps keep the result, and the pointers to the VM it is in.
LEMMA OtherSource ==
    ASSUME PInv, NEW t \in Tasks, Source(t),
           \/ Begin(t) \/ SelfRequest(t) \/ Reserve(t) \/ GetBody(t) \/ Transfer(t)
           \/ ReserveNoProgram(t) \/ AssertFails(t) \/ Deliver(t) \/ TaskEnd(t) \/ Retry(t)
    PROVE  Source(t)'
<1>0. Types BY DEF PInv, IInv
<1>1. CASE Begin(t)
  <2>1. /\ pc[t] = "idle" /\ result' = result /\ pc'[t] \in {"item", "end"}
    BY <1>0, <1>1 DEF Types, Begin, Goto
  <2> QED BY <2>1 DEF Source
<1>2. CASE SelfRequest(t)
  <2>1. PICK st \in {"ok", "error"}, sz \in Sizes, failed \in BOOLEAN :
           result' = [result EXCEPT ![t] =
                [status |-> IF failed THEN "error" ELSE st,
                 size |-> IF failed THEN "zero" ELSE sz,
                 stream |-> FALSE, src |-> NoSlot]]
    BY <1>2 DEF SelfRequest
  <2>2. result'[t] = [status |-> IF failed THEN "error" ELSE st,
                      size |-> IF failed THEN "zero" ELSE sz,
                      stream |-> FALSE, src |-> NoSlot]
    BY <1>0, <2>1 DEF Types
  <2>3. result'[t] \in Results BY SMT, <2>2 DEF Results, Sizes, MaybeSlot
  <2>4. result'[t].src = NoSlot BY SMT, <2>2
  <2> QED BY <2>3, <2>4 DEF Source
<1>3. CASE Reuse(t)
  <2>1. pc[t] = "item" /\ pc'[t] = "body" /\ result' = result /\ slot'[t] = last_slot[t]
    BY <1>0, <1>3 DEF Types, Reuse, Goto
  <2> QED BY <2>1 DEF Source
<1>4. CASE ReserveAgain(t) \/ \E s \in Slots : ReserveTemporary(t, s) \/ ReserveFull(t, s)
  <2>1. pc[t] = "item" /\ pc'[t] = "body" /\ result' = result /\ last_slot' = last_slot
    BY <1>0, <1>4 DEF Types, ReserveAgain, ReserveTemporary, ReserveFull, NeedsVM, Goto
  <2> QED BY <2>1 DEF Source
<1>5. CASE ReserveFailed(t) \/ ReserveNoProgram(t) \/ \E s \in Slots : ReserveNoWorkspace(t, s)
  <2>1. ForgetLocals(t) /\ Goto(t, "end")
    BY <1>5 DEF ReserveFailed, ReserveNoProgram, ReserveNoWorkspace, Fail
  <2>2. pc'[t] = "end" BY <1>0, <2>1 DEF Types, Goto
  <2> QED BY <2>1, <2>2, ForgetSource
<1>6. CASE GetBody(t) \/ Transfer(t)
  <2>1. \/ Goto(t, "call") /\ result' = result
        \/ Goto(t, "end") /\ ForgetLocals(t)
    BY <1>6 DEF GetBody, Transfer, Fail, locals
  <2>2. CASE Goto(t, "call") /\ result' = result
    <3>1. pc'[t] = "call" BY <1>0, <2>2 DEF Types, Goto
    <3> QED BY <2>2, <3>1 DEF Source
  <2>3. CASE Goto(t, "end") /\ ForgetLocals(t)
    <3>1. pc'[t] = "end" BY <1>0, <2>3 DEF Types, Goto
    <3> QED BY <2>3, <3>1, ForgetSource
  <2> QED BY <2>1, <2>2, <2>3
<1>7. CASE Deliver(t)
  <2>1. pc'[t] = "end" /\ result' = result BY <1>0, <1>7 DEF Types, Deliver, Goto, locals
  <2> QED BY <2>1 DEF Source
<1>8. CASE TaskEnd(t) \/ Retry(t)
  <2>1. ForgetLocals(t) /\ Goto(t, "idle") BY <1>8 DEF TaskEnd, Retry
  <2>2. pc'[t] = "idle" BY <1>0, <2>1 DEF Types, Goto
  <2> QED BY <2>1, <2>2, ForgetSource
<1>9. CASE AssertFails(t)
  BY <1>9 DEF AssertFails, locals, task, Source, Abandoned, Temporary
<1> QED BY <1>1, <1>2, <1>3, <1>4, <1>5, <1>6, <1>7, <1>8, <1>9 DEF Reserve

\* A step of a fetch keeps what its result points to.
LEMMA StepSource ==
    ASSUME PInv, NEW t \in Tasks, Source(t), Arrive(t) \/ Step(t) PROVE Source(t)'
BY CallSource, FinishSource, OtherSource DEF Arrive, Step

\* So does a step of another.
LEMMA OthersSource ==
    ASSUME NEW t \in Tasks, Others(t), NEW u \in Tasks \ {t}, Source(u) PROVE Source(u)'
BY DEF Others, Source, Abandoned, Temporary

\* No fetch has a result at first.
LEMMA InitSource == ASSUME Init, NEW t \in Tasks PROVE Source(t)
<1>1. result[t] = NoResult /\ pc[t] = "idle" BY DEF Init
<1>2. result[t] \in Results BY SMT, <1>1 DEF Results, NoResult, MaybeSlot, Sizes
<1>3. result[t].src = NoSlot BY SMT, <1>1 DEF NoResult
<1> QED BY <1>1, <1>2, <1>3 DEF Source

\* What a step uses is then a VM of the fetch.
LEMMA SourceIsHeld ==
    ASSUME PInv, NEW t \in Tasks, Source(t), ~Abandoned(t) PROVE InUse(t) \subseteq held[t]
<1>1. Own(t) /\ Source(t) BY DEF PInv, IInv
<1>2. CASE pc[t] = "call" BY <1>1, <1>2 DEF Own, CurrentInv, InUse
<1>3. CASE pc[t] = "body" BY <1>1, <1>3 DEF Own, CurrentInv, LastInv, Source, InUse
<1>4. CASE pc[t] \in {"finish", "deliver"} BY <1>1, <1>4 DEF Own, PrivInv, Source, InUse
<1>5. CASE pc[t] \notin {"call", "body", "finish", "deliver"} BY <1>5 DEF InUse
<1> QED BY <1>2, <1>3, <1>4, <1>5

\* The VM calls and the transfers from VM to VM of a fetch touch only VMs it
\* has reserved and not freed, wherever kvmbe_gethdrs leaves the chain, and so
\* do the early copy and the delivery of what the last program answers.
THEOREM FetchesKeepReserved == Spec => []KeepsReserved
<1> DEFINE SInv == \A t \in Tasks : Source(t)
<1>1. Init => SInv BY InitSource
<1>2. PInv /\ SInv /\ [Next]_vars => SInv'
  <2> SUFFICES ASSUME PInv, SInv, [Next]_vars, NEW u \in Tasks PROVE Source(u)' OBVIOUS
  <2>1. CASE Next
    <3>1. PICK t \in Tasks : Arrive(t) \/ Step(t) BY <2>1 DEF Next
    <3>2. CASE u = t BY <3>1, <3>2, StepSource
    <3>3. CASE u # t BY <3>1, <3>3, StepPrograms, OthersSource
    <3> QED BY <3>2, <3>3
  <2>2. CASE UNCHANGED vars BY <2>2 DEF vars, locals, task, Source, Abandoned, Temporary
  <2> QED BY <2>1, <2>2
<1>3. PInv /\ SInv => KeepsReserved BY SourceIsHeld DEF KeepsReserved
<1> HIDE DEF SInv
<1> QED BY <1>1, <1>2, <1>3, ProgramInvariance, PTL DEF Spec

(***************************************************************************)
(* What a fetch holds, if no chain ends in two programs of one tenant: the *)
(* early release loses a VM that was re-used for the last item, and so     *)
(* does a retry whose re-use overwrites priv_task.                         *)
(***************************************************************************)
NoFinalReuse == \A c \in Chains : Len(c) > 1 => c[Len(c)].tenant # c[Len(c) - 1].tenant

\* The VM that priv_task frees.
Priv(t) == IF methods[t] # "NULL" THEN {priv[t]} ELSE {}

\* A fetch has no other VMs than those its variables point to, and priv_task
\* has one before the last item only in a retry.
Exact(t) ==
    /\ pc[t] = "item" => held[t] = Priv(t) \cup ({last_slot[t]} \ {NoSlot})
    /\ pc[t] = "body" => held[t] = Priv(t) \cup ({slot[t], last_slot[t]} \ {NoSlot})
    /\ pc[t] = "call" => held[t] = Priv(t) \cup {slot[t]}
    /\ pc[t] \notin {"item", "body", "call"} => held[t] = Priv(t)
    /\ retries[t] = 0 => /\ pc[t] \in {"idle", "item"} => methods[t] = "NULL"
                         /\ pc[t] \in {"body", "call"} /\ Temporary(t) => methods[t] = "NULL"
    /\ methods[t] # "kvm_free_reserved_machine"
    /\ retries[t] <= MaxRetries

\* LOOP_EXIT_ACTIONS leaves the VM of priv_task, and no other.
LEMMA FailExact ==
    ASSUME IInv, NEW t \in Tasks, NEW S, Fail(t, S), UNCHANGED methods,
           methods[t] # "NULL" => UNCHANGED priv,
           ({last_slot[t]} \cup S) \ {NoSlot} \subseteq held[t],
           held[t] \ ({last_slot[t]} \cup S) = Priv(t),
           methods[t] # "kvm_free_reserved_machine", retries[t] <= MaxRetries, UNCHANGED retries
    PROVE  Exact(t)'
<1>1. held'[t] = held[t] \ ({last_slot[t]} \cup S) BY GiveKeeps DEF IInv, Fail
<1>2. pc'[t] = "end" BY DEF IInv, Types, Fail, Goto
<1>3. Priv(t)' = Priv(t) BY DEF Priv
<1> QED BY <1>1, <1>2, <1>3 DEF Exact

\* What priv_task frees is a VM.
LEMMA PrivIsVM == ASSUME IInv, NEW t \in Tasks PROVE NoSlot \notin Priv(t)
<1>1. held[t] \subseteq Slots BY DEF IInv, Types
<1>2. methods[t] # "NULL" => priv[t] \in held[t] BY DEF IInv, Own, PrivInv
<1>3. methods[t] # "NULL" => priv[t] # NoSlot BY <1>1, <1>2, SlotsAssumption
<1> QED BY <1>3 DEF Priv

\* The steps that begin an item.
LEMMA ItemExact ==
    ASSUME PInv, NEW t \in Tasks, Exact(t), NoFinalReuse,
           Begin(t) \/ SelfRequest(t) \/ Reserve(t) \/ ReserveNoProgram(t)
    PROVE  Exact(t)'
<1>0. IInv /\ Types /\ SlotInv /\ PrivInv(t) /\ LastInv(t) BY DEF PInv, IInv, Own
<1>1. CASE Begin(t)
  <2>1. /\ pc[t] = "idle" /\ pc'[t] \in {"item", "end"}
        /\ UNCHANGED <<held, methods, priv, last_slot, retries>> /\ last_slot[t] = NoSlot
    BY <1>0, <1>1 DEF Types, LastInv, Begin, Goto, task, slotVars
  <2> QED BY <2>1 DEF Exact, Priv
<1>2. CASE SelfRequest(t)
  <2>1. /\ pc[t] = "item" /\ pc'[t] \in {"item", "finish"} /\ Item(t).tenant = Fetch
        /\ UNCHANGED <<held, methods, priv, last_slot, retries>>
    BY <1>0, <1>2 DEF Types, SelfRequest, Goto, task, slotVars
  <2>2. chain[t] \in Chains /\ index[t] \in 1..Len(chain[t]) BY <2>1 DEF PInv, Programs, Position
  <2>3. index[t] = 1 BY SMT, <2>1, <2>2, ChainAssumption DEF Item
  <2>4. last_slot[t] = NoSlot BY SMT, <2>1, <2>3 DEF PInv, Programs, Previous
  <2> QED BY <2>1, <2>4 DEF Exact, Priv
<1>3. CASE Reuse(t)
  <2>1. /\ pc[t] = "item" /\ pc'[t] = "body" /\ slot'[t] = last_slot[t] /\ last_slot'[t] = NoSlot
        /\ UNCHANGED <<held, retries>> /\ last_slot[t] # NoSlot
        /\ chain[t][index[t] - 1].tenant = Item(t).tenant
        /\ Temporary(t)' <=> Temporary(t)
    BY <1>0, <1>3 DEF Types, Reuse, NeedsVM, Goto, slotVars, Temporary
  <2>2. CASE Temporary(t)
    <3>1. UNCHANGED <<priv, methods>> BY <1>3, <2>2 DEF Reuse
    <3> QED BY <2>1, <2>2, <3>1 DEF Exact, Priv
  <2>3. CASE ~Temporary(t)
    <3>1. chain[t] \in Chains /\ index[t] \in 1..Len(chain[t])
      BY <2>1 DEF PInv, Programs, Position
    <3>2. Len(chain[t]) \in Nat BY SMT, <3>1, ChainAssumption
    <3>3. index[t] > 1 BY <2>1 DEF PInv, Programs, Previous
    <3>4. index[t] = Len(chain[t]) /\ Len(chain[t]) > 1
      BY SMT, <2>3, <3>1, <3>2, <3>3 DEF Temporary
    <3> QED BY <2>1, <3>1, <3>4 DEF NoFinalReuse, Item
  <2> QED BY <2>2, <2>3
<1>4. CASE ReserveAgain(t)
  <2>1. /\ pc[t] = "item" /\ pc'[t] = "body" /\ slot'[t] = priv[t] /\ priv[t] # NoSlot
        /\ UNCHANGED <<held, methods, priv, last_slot, retries>> /\ ~Temporary(t)'
    BY <1>0, <1>4 DEF Types, ReserveAgain, NeedsVM, Goto, task, slotVars, Temporary
  <2>2. methods[t] # "NULL" BY <1>0, <2>1 DEF PrivInv
  <2> QED BY <2>1, <2>2 DEF Exact, Priv
<1>5. ASSUME NEW s \in Slots, ReserveTemporary(t, s) PROVE Exact(t)'
  <2>1. /\ pc[t] = "item" /\ pc'[t] = "body" /\ slot'[t] = s
        /\ UNCHANGED <<methods, priv, last_slot, retries>>
    BY <1>0, <1>5 DEF Types, ReserveTemporary, NeedsVM, Goto, task
  <2>2. held'[t] = held[t] \cup {s} BY <1>0, <1>5, TakeKeeps DEF ReserveTemporary
  <2> QED BY <2>1, <2>2, SlotsAssumption DEF Exact, Priv
<1>6. ASSUME NEW s \in Slots, ReserveFull(t, s) PROVE Exact(t)'
  <2>1. /\ pc[t] = "item" /\ pc'[t] = "body" /\ slot'[t] = s /\ priv[t] = NoSlot
        /\ methods'[t] = "vm_free_function" /\ priv'[t] = s
        /\ UNCHANGED <<last_slot, retries>> /\ ~Temporary(t)'
    BY <1>0, <1>6 DEF Types, ReserveFull, NeedsVM, Goto, Temporary, ReleaseAfter
  <2>2. held'[t] = held[t] \cup {s} BY <1>0, <1>6, TakeKeeps DEF ReserveFull
  <2>3. methods[t] = "NULL" BY <1>0, <2>1, PrivIsVM DEF Priv
  <2> QED BY <2>1, <2>2, <2>3, SlotsAssumption DEF Exact, Priv
<1>7. CASE ReserveFailed(t) \/ ReserveNoProgram(t) \/ \E s \in Slots : ReserveNoWorkspace(t, s)
  <2>1. pc[t] = "item" /\ Fail(t, {}) /\ UNCHANGED <<methods, retries>>
    BY <1>7 DEF ReserveFailed, ReserveNoProgram, ReserveNoWorkspace, NeedsVM, task
  <2>2. methods[t] # "NULL" => UNCHANGED priv
    <3>1. UNCHANGED priv \/ priv[t] = NoSlot
      BY <1>7 DEF ReserveFailed, ReserveNoProgram, ReserveNoWorkspace, task
    <3> QED BY <1>0, <3>1, PrivIsVM DEF Priv
  <2>3. held[t] = Priv(t) \cup ({last_slot[t]} \ {NoSlot}) BY <2>1 DEF Exact
  <2>4. last_slot[t] \notin Priv(t) BY <1>0, <2>1 DEF LastInv, Priv
  <2>5. NoSlot \notin Priv(t) BY <1>0, PrivIsVM
  <2>6. /\ ({last_slot[t]} \cup {}) \ {NoSlot} \subseteq held[t]
        /\ held[t] \ ({last_slot[t]} \cup {}) = Priv(t)
    BY <2>3, <2>4, <2>5
  <2>7. methods[t] # "kvm_free_reserved_machine" /\ retries[t] <= MaxRetries BY DEF Exact
  <2> QED BY <1>0, <2>1, <2>2, <2>6, <2>7, FailExact
<1> QED BY <1>1, <1>2, <1>3, <1>4, <1>5, <1>6, <1>7 DEF Reserve

\* The transfers and the call.
LEMMA CallExact ==
    ASSUME PInv, NEW t \in Tasks, Exact(t), GetBody(t) \/ Transfer(t) \/ Call(t)
    PROVE  Exact(t)'
<1>0. IInv /\ Types /\ SlotInv /\ Own(t) BY DEF PInv, IInv
<1>a. NoSlot \notin Priv(t) BY <1>0, PrivIsVM
<1>b. UNCHANGED <<methods, priv, retries>> BY DEF GetBody, Transfer, Call, task
<1>c. Priv(t)' = Priv(t) BY <1>b DEF Priv
<1>1. ASSUME pc[t] = "body", Fail(t, IF Temporary(t) THEN {slot[t]} ELSE {})
      PROVE  Exact(t)'
  <2> DEFINE S == IF Temporary(t) THEN {slot[t]} ELSE {}
  <2>1. held[t] = Priv(t) \cup ({slot[t], last_slot[t]} \ {NoSlot}) BY <1>1 DEF Exact
  <2>2. last_slot[t] \notin Priv(t) BY <1>0, <1>1 DEF Priv, Own, LastInv
  <2>3. /\ ({last_slot[t]} \cup S) \ {NoSlot} \subseteq held[t]
        /\ held[t] \ ({last_slot[t]} \cup S) = Priv(t)
    <3>1. CASE Temporary(t)
      <4>1. slot[t] \notin Priv(t) BY <1>0, <1>1, <3>1 DEF Priv, Own, CurrentInv
      <4>2. S = {slot[t]} BY <3>1
      <4> QED BY SMT, <1>a, <2>1, <2>2, <4>1, <4>2
    <3>2. CASE ~Temporary(t)
      <4>1. slot[t] \in Priv(t) BY <1>0, <1>1, <3>2 DEF Priv, Own, CurrentInv
      <4>2. S = {} BY <3>2
      <4> QED BY SMT, <1>a, <2>1, <2>2, <4>1, <4>2
    <3> QED BY <3>1, <3>2
  <2>4. Fail(t, S) BY <1>1
  <2>5. methods[t] # "kvm_free_reserved_machine" /\ retries[t] <= MaxRetries BY DEF Exact
  <2> HIDE DEF S
  <2> QED BY <1>0, <1>b, <2>3, <2>4, <2>5, FailExact
<1>2. CASE GetBody(t) /\ Goto(t, "call") /\ UNCHANGED <<locals, slotVars>>
  <2>1. /\ pc[t] = "body" /\ pc'[t] = "call" /\ UNCHANGED <<held, slot>>
        /\ index[t] = 1 /\ (Temporary(t)' <=> Temporary(t))
    BY <1>0, <1>2 DEF Types, GetBody, Goto, locals, slotVars, Temporary
  <2>2. last_slot[t] = NoSlot
    <3>1. Current(t) BY DEF PInv, Programs
    <3>2. ~(index[t] > 1) BY SMT, <2>1
    <3> QED BY <2>1, <3>1, <3>2 DEF Current
  <2>3. slot[t] \in Slots BY <1>0, <2>1 DEF Own, CurrentInv, Types
  <2>4. held[t] = Priv(t) \cup ({slot[t], NoSlot} \ {NoSlot}) BY <2>1, <2>2 DEF Exact
  <2>5. held[t] = Priv(t) \cup {slot[t]} BY SMT, <2>3, <2>4, SlotsAssumption
  <2> QED BY <1>b, <1>c, <2>1, <2>5 DEF Exact
<1>3. CASE /\ Transfer(t)
           /\ Give(t, {last_slot[t]})
           /\ Goto(t, "call")
           /\ UNCHANGED <<chain, index, is_post, slot, result, chunk, must_free>>
  <2>1. /\ pc[t] = "body" /\ pc'[t] = "call" /\ UNCHANGED slot
        /\ Temporary(t)' <=> Temporary(t)
    BY <1>0, <1>3 DEF Types, Transfer, Goto, Temporary
  <2>2. /\ held[t] = Priv(t) \cup ({slot[t], last_slot[t]} \ {NoSlot}) /\ slot[t] # last_slot[t]
        /\ slot[t] \in Slots /\ last_slot[t] \notin Priv(t)
    BY <1>0, <2>1 DEF Exact, Priv, Own, CurrentInv, LastInv, Types
  <2>3. {last_slot[t]} \ {NoSlot} \subseteq held[t] BY <2>2
  <2>4. held'[t] = held[t] \ {last_slot[t]} BY <1>0, <1>3, <2>3, GiveKeeps
  <2>5. held'[t] = Priv(t) \cup {slot[t]} BY <1>a, <2>2, <2>4, SlotsAssumption
  <2> QED BY <1>b, <1>c, <2>1, <2>5 DEF Exact
<1>4. CASE Call(t)
  <2>1. PICK broke \in BOOLEAN :
           /\ Give(t, IF broke /\ Temporary(t) THEN {slot[t]} ELSE {})
           /\ Goto(t, IF broke \/ ~Temporary(t) THEN "finish" ELSE "item")
    BY <1>4 DEF Call
  <2>2. pc[t] = "call" /\ last_slot'[t] = slot[t] BY <1>0, <1>4 DEF Types, Call
  <2> DEFINE S == IF broke /\ Temporary(t) THEN {slot[t]} ELSE {}
  <2>3. /\ held[t] = Priv(t) \cup {slot[t]} /\ slot[t] \in Slots
        /\ Temporary(t) => slot[t] \notin Priv(t)
        /\ ~Temporary(t) => slot[t] \in Priv(t)
    BY <1>0, <2>2 DEF Exact, Priv, Own, CurrentInv, Types
  <2>4. S \ {NoSlot} \subseteq held[t] /\ Give(t, S) BY <2>1, <2>3
  <2>5. held'[t] = held[t] \ S
    <3> HIDE DEF S
    <3> QED BY <1>0, <2>4, GiveKeeps
  <2>6. slot[t] # NoSlot BY <2>3, SlotsAssumption
  <2>7. pc'[t] = IF broke \/ ~Temporary(t) THEN "finish" ELSE "item" BY <1>0, <2>1 DEF Types, Goto
  <2>8. CASE broke \/ ~Temporary(t)
    <3>1. held'[t] = Priv(t) BY <2>3, <2>5, <2>8
    <3> QED BY <1>b, <1>c, <2>7, <2>8, <3>1 DEF Exact
  <2>9. CASE ~broke /\ Temporary(t)
    <3>1. held'[t] = Priv(t) \cup {slot[t]} BY <2>3, <2>5, <2>9
    <3>2. retries[t] = 0 => methods[t] = "NULL" BY <2>2, <2>9 DEF Exact
    <3> QED BY <1>b, <1>c, <2>2, <2>6, <2>7, <2>9, <3>1, <3>2 DEF Exact
  <2> QED BY <2>8, <2>9
<1> QED BY <1>1, <1>2, <1>3, <1>4 DEF GetBody, Transfer

\* After the loop.
LEMMA EndExact ==
    ASSUME PInv, NEW t \in Tasks, Exact(t),
           AssertFails(t) \/ Finish(t) \/ Deliver(t) \/ TaskEnd(t) \/ Retry(t)
    PROVE  Exact(t)'
<1>0. IInv /\ Types BY DEF PInv, IInv
<1>1. CASE Finish(t)
  <2>1. pc[t] = "finish" /\ pc'[t] \in {"deliver", "end"} /\ UNCHANGED retries
    BY <1>0, <1>1 DEF Types, Finish, kvmbe_write_response, Goto
  <2>2. held[t] = Priv(t) BY <2>1 DEF Exact
  <2>3. CASE kvm_early_slot_release(t)
    <3>1. held'[t] = held[t] \ Priv(t)
      <4> DEFINE frees == methods[t] = "vm_free_function"
      <4>1. frees <=> methods[t] # "NULL" BY <1>0 DEF Exact, Types
      <4>2. Give(t, IF frees THEN {priv[t]} ELSE {}) BY <2>3 DEF kvm_early_slot_release
      <4>3. frees \in BOOLEAN OBVIOUS
      <4> HIDE DEF frees
      <4>4. held'[t] = held[t] \ (IF frees THEN {priv[t]} ELSE {})
        BY <1>0, <4>1, <4>2, <4>3, PrivIsFreed
      <4> QED BY <4>1, <4>4 DEF Priv
    <3>2. methods'[t] = "NULL" BY <1>0, <2>3 DEF Types, kvm_early_slot_release
    <3> QED BY <2>1, <2>2, <3>1, <3>2 DEF Exact, Priv
  <2>4. CASE UNCHANGED <<priv, methods, slotVars>> BY <2>1, <2>2, <2>4 DEF Exact, slotVars, Priv
  <2> QED BY <1>1, <2>3, <2>4 DEF Finish
<1>2. CASE Deliver(t)
  <2>1. pc[t] = "deliver" /\ pc'[t] = "end" /\ UNCHANGED <<held, methods, priv, retries>>
    BY <1>0, <1>2 DEF Types, Deliver, Goto, task, slotVars
  <2> QED BY <2>1 DEF Exact, Priv
<1>3. CASE TaskEnd(t)
  <2>1. pc[t] = "end" /\ pc'[t] = "idle" /\ methods'[t] = "NULL" BY <1>0, <1>3 DEF Types, TaskEnd, Goto
  <2>2. held'[t] = held[t] \ Priv(t)
    <3> DEFINE frees == methods[t] # "NULL"
    <3>1. Give(t, IF frees THEN {priv[t]} ELSE {}) BY <1>3 DEF TaskEnd
    <3>2. frees \in BOOLEAN /\ (frees => methods[t] # "NULL") OBVIOUS
    <3>3. Priv(t) = IF frees THEN {priv[t]} ELSE {} BY DEF Priv
    <3> HIDE DEF frees
    <3> QED BY <1>0, <3>1, <3>2, <3>3, PrivIsFreed
  <2>3. retries'[t] = 0 BY <1>0, <1>3 DEF Types, TaskEnd
  <2>4. retries'[t] <= MaxRetries BY SMT, <2>3, ChainAssumption
  <2> QED BY <2>1, <2>2, <2>4 DEF Exact, Priv
<1>4. CASE Retry(t)
  <2>1. /\ pc[t] \in {"deliver", "end"} /\ pc'[t] = "idle"
        /\ UNCHANGED <<held, methods, priv>>
    BY <1>0, <1>4 DEF Types, Retry, Goto, slotVars
  <2>2. retries'[t] = retries[t] + 1 /\ retries[t] < MaxRetries BY <1>0, <1>4 DEF Types, Retry
  <2>3. retries'[t] # 0 /\ retries'[t] <= MaxRetries
    BY SMT, <1>0, <2>2, ChainAssumption DEF Types
  <2> QED BY <2>1, <2>3 DEF Exact, Priv
<1>5. CASE AssertFails(t)
  BY <1>5 DEF AssertFails, locals, task, slotVars, Exact, Priv, Temporary
<1> QED BY <1>1, <1>2, <1>3, <1>4, <1>5

\* A step of a fetch keeps what is exact about it.
LEMMA StepExact ==
    ASSUME PInv, NEW t \in Tasks, Exact(t), NoFinalReuse,
           Arrive(t) \/ Step(t)
    PROVE  Exact(t)'
BY ItemExact, CallExact, EndExact DEF Arrive, Step

\* So does a step of another.
LEMMA OthersExact ==
    ASSUME NEW t \in Tasks, Others(t), NEW u \in Tasks \ {t}, Exact(u) PROVE Exact(u)'
<1>1. Temporary(u)' <=> Temporary(u) BY DEF Others, Temporary
<1>2. Priv(u)' = Priv(u) BY DEF Others, Priv
<1>3. /\ pc'[u] = pc[u] /\ held'[u] = held[u] /\ slot'[u] = slot[u]
      /\ last_slot'[u] = last_slot[u] /\ methods'[u] = methods[u] /\ retries'[u] = retries[u]
  BY DEF Others
<1> QED BY <1>1, <1>2, <1>3 DEF Exact

\* No fetch holds anything at first.
LEMMA InitExact == ASSUME Init, NEW t \in Tasks PROVE Exact(t)
<1>1. 0 <= MaxRetries BY SMT, ChainAssumption
<1> QED BY <1>1 DEF Init, SlotsInit, Exact, Priv

\* A fetch holds what its variables point to.
LEMMA ExactInvariance ==
    NoFinalReuse => (Spec => [](\A t \in Tasks : Exact(t)))
<1> SUFFICES ASSUME NoFinalReuse PROVE Spec => [](\A t \in Tasks : Exact(t))
  OBVIOUS
<1> DEFINE EInv == \A t \in Tasks : Exact(t)
<1>1. Init => EInv BY InitExact
<1>2. PInv /\ EInv /\ [Next]_vars => EInv'
  <2> SUFFICES ASSUME PInv, EInv, [Next]_vars, NEW u \in Tasks PROVE Exact(u)' OBVIOUS
  <2>1. CASE Next
    <3>1. PICK t \in Tasks : Arrive(t) \/ Step(t) BY <2>1 DEF Next
    <3>2. CASE u = t BY <3>1, <3>2, StepExact
    <3>3. CASE u # t
      <4>1. Others(t) BY <3>1, StepPrograms
      <4> QED BY <3>3, <4>1, OthersExact
    <3> QED BY <3>2, <3>3
  <2>2. CASE UNCHANGED vars
    <3>1. Temporary(u)' <=> Temporary(u) BY <2>2 DEF vars, locals, Temporary
    <3>2. Priv(u)' = Priv(u) BY <2>2 DEF vars, task, Priv
    <3> QED BY <2>2, <3>1, <3>2 DEF vars, locals, task, slotVars, Exact
  <2> QED BY <2>1, <2>2
<1> HIDE DEF EInv
<1> QED BY <1>1, <1>2, ProgramInvariance, PTL DEF Spec, EInv

\* "At this point any previously reserved VM has been freed": at every VM call
\* of kvmbe_gethdrs in a first attempt the fetch has the VM of the current item
\* and no other, if attempts before it lost none.
THEOREM FetchesHoldOneAtCall ==
    NoFinalReuse => (Spec => []OnlyCurrentAtCall)
<1> SUFFICES ASSUME NoFinalReuse PROVE Spec => []OnlyCurrentAtCall OBVIOUS
<1>1. IInv /\ (\A t \in Tasks : Exact(t)) => OnlyCurrentAtCall
  <2> SUFFICES ASSUME IInv, NEW t \in Tasks, Exact(t), pc[t] = "call", retries[t] = 0
               PROVE  held[t] = {slot[t]}
    BY DEF OnlyCurrentAtCall
  <2>1. Own(t) BY DEF IInv
  <2>2. Priv(t) \subseteq {slot[t]} BY <2>1 DEF Own, CurrentInv, Exact, Priv
  <2> QED BY <2>2 DEF Exact
<1>2. Spec => [](\A t \in Tasks : Exact(t)) BY ExactInvariance
<1> QED BY <1>1, <1>2, Invariance, PTL
=============================================================================

------------------------------ MODULE ToString ------------------------------
(***************************************************************************)
(* A chain of programs run for its text: to_string, behind the VCL         *)
(* functions to_string() and synth().  Unlike a backend fetch it reserves  *)
(* every VM temporarily, never re-uses one, and is done with all of them   *)
(* when it returns.                                                        *)
(***************************************************************************)
EXTENDS Reservations, Sequences

CONSTANT Chains    \* the program chains VCL sets up

\* A chain item, its break_status reached by an error reply or not.
Items == [tenant : Tenants, breaks : BOOLEAN]

VARIABLES
    pc,
    chain,       \* the chain of the call
    index,       \* the current item, counted from 1
    slot,        \* the VM of the current item
    last_slot,   \* the VM of the previous item
    src          \* the VM the buffers of the result point into

locals == <<chain, index, slot, last_slot, src>>
vars   == <<pc, locals, slotVars>>

Init ==
    /\ SlotsInit
    /\ pc = [t \in Tasks |-> "idle"]
    /\ chain = [t \in Tasks |-> <<>>]
    /\ index = [t \in Tasks |-> 1]
    /\ slot = [t \in Tasks |-> NoSlot]
    /\ last_slot = [t \in Tasks |-> NoSlot]
    /\ src = [t \in Tasks |-> NoSlot]

Item(t)    == chain[t][index[t]]
Goto(t, l) == pc' = [pc EXCEPT ![t] = l]

\* Return from to_string, after freeing the VMs in S.
Return(t, S) ==
    /\ Give(t, S)
    /\ chain' = [chain EXCEPT ![t] = <<>>]
    /\ index' = [index EXCEPT ![t] = 1]
    /\ slot' = [slot EXCEPT ![t] = NoSlot]
    /\ last_slot' = [last_slot EXCEPT ![t] = NoSlot]
    /\ src' = [src EXCEPT ![t] = NoSlot]
    /\ Goto(t, "idle")

Begin(t) ==
    /\ pc[t] = "idle"
    /\ \E c \in Chains : chain' = [chain EXCEPT ![t] = c]
    /\ Goto(t, "item")
    /\ UNCHANGED <<index, slot, last_slot, src, slotVars>>

\* A temporary reservation, while the previous VM is kept.
Reserve(t, s) ==
    /\ pc[t] = "item" /\ TenantOf[s] = Item(t).tenant
    /\ Take(t, s)
    /\ slot' = [slot EXCEPT ![t] = s]
    /\ Goto(t, IF index[t] > 1 THEN "post" ELSE "call")
    /\ UNCHANGED <<chain, index, last_slot, src>>

\* (bug) The previous VM is not freed.
ReserveFailedLeaks(t) ==
    /\ pc[t] = "item" /\ QueueTimeout(Item(t).tenant)
    /\ Return(t, {})

\* No VM in time.
ReserveFailed(t) ==
    /\ pc[t] = "item" /\ QueueTimeout(Item(t).tenant)
    /\ Return(t, {last_slot[t]})

\* ref() finds no program that works, whatever VMs are idle.
ReserveNoProgram(t) ==
    /\ pc[t] = "item"
    /\ Return(t, {last_slot[t]})

\* kvm_handle_post_to_another: post the previous result, free its VM.
Transfer(t) ==
    /\ pc[t] = "post"
    /\ Give(t, {last_slot[t]})
    /\ Goto(t, "call")
    /\ UNCHANGED locals

TransferFailed(t) ==
    /\ pc[t] = "post"
    /\ Return(t, {slot[t], last_slot[t]})

\* kvm_backend_call, and on to the next item or to the content.
Call(t) ==
    /\ pc[t] = "call"
    /\ src' = [src EXCEPT ![t] = slot[t]]
    /\ last_slot' = [last_slot EXCEPT ![t] = slot[t]]
    /\ slot' = [slot EXCEPT ![t] = NoSlot]
    /\ index' = [index EXCEPT ![t] = @ + 1]
    /\ Goto(t, IF index[t] < Len(chain[t]) THEN "item" ELSE "content")
    /\ UNCHANGED <<chain, slotVars>>

\* kvm_backend_call answers with the break status: free the VM, and
\* last_slot if it is not NULL.
CallBreaks(t) ==
    /\ pc[t] = "call" /\ Item(t).breaks
    /\ Return(t, {slot[t], last_slot[t]})

\* The content callback copies the result out of the VM, which is freed.
Content(t) ==
    /\ pc[t] = "content"
    /\ Return(t, {last_slot[t]})

Step(t) ==
    \/ \E s \in Slots : Reserve(t, s)
    \/ ReserveFailed(t)
    \/ Transfer(t)
    \/ TransferFailed(t)
    \/ Call(t)
    \/ CallBreaks(t)
    \/ Content(t)

\* What the requests and the programs bring about.
Arrive(t) == Begin(t) \/ ReserveNoProgram(t)

(***************************************************************************)
(* Properties.                                                             *)
(***************************************************************************)
\* "getting exclusive access until the end of the request": the call, the
\* transfer between two VMs and the content callback touch only VMs that
\* the caller has reserved and not freed.
UsesReserved ==
    \A t \in Tasks :
       /\ pc[t] = "call" => slot[t] \in held[t]
       /\ pc[t] = "post" => {slot[t], src[t]} \subseteq held[t]
       /\ pc[t] = "content" => src[t] \in held[t]
=============================================================================

------------------------------- MODULE VMUsers -------------------------------
(***************************************************************************)
(* Everyone who reserves VMs, together: backend fetches (BackendFetch) and *)
(* calls of to_string, on the VMs of the same tenants.  A fetch keeps the  *)
(* VM of its last program until its body is delivered, and through retries; *)
(* a call of to_string holds a VM while it waits for the next one.         *)
(***************************************************************************)
EXTENDS BackendFetch

CONSTANTS
    Fetches, Strings,   \* the tasks of either kind
    StringChains        \* the program chains of to_string; Chains are those of fetches

VARIABLES s_pc, s_chain, s_index, s_slot, s_last_slot, s_src

S == INSTANCE ToString WITH
        Chains <- StringChains, pc <- s_pc, chain <- s_chain, index <- s_index,
        slot <- s_slot, last_slot <- s_last_slot, src <- s_src

fetchVars  == <<pc, locals, task, panicked>>
stringVars == <<s_pc, s_chain, s_index, s_slot, s_last_slot, s_src>>
userVars   == <<fetchVars, stringVars, slotVars>>

ASSUME UsersAssumption ==
    /\ Fetches \cap Strings = {} /\ Fetches \cup Strings = Tasks
    /\ \A c \in StringChains : c \in Seq(S!Items) /\ Len(c) > 0

UsersInit == Init /\ S!Init

FetchStep(t)  == ~panicked /\ Step(t) /\ UNCHANGED stringVars
StringStep(t) == ~panicked /\ S!Step(t) /\ UNCHANGED fetchVars

\* What the requests and the programs bring about.
UsersArrive ==
    \/ \E t \in Fetches : ~panicked /\ Arrive(t) /\ UNCHANGED stringVars
    \/ \E t \in Strings : ~panicked /\ S!Arrive(t) /\ UNCHANGED fetchVars

UsersNext ==
    \/ UsersArrive
    \/ \E t \in Fetches : FetchStep(t)
    \/ \E t \in Strings : StringStep(t)

UsersSpec == UsersInit /\ [][UsersNext]_userVars

\* VM calls, the wait for a VM, the self-request and the delivery all end or
\* time out.
FairSpec ==
    /\ UsersSpec
    /\ \A t \in Fetches : WF_userVars(FetchStep(t))
    /\ \A t \in Strings : WF_userVars(StringStep(t))

(***************************************************************************)
(* Properties.                                                             *)
(***************************************************************************)
\* A task that is over holds no VM, whichever of the exits of kvmbe_gethdrs
\* or of to_string it took, and also when a fetch was retried: "avoiding a
\* situation where we never give back the VM reservation".
NothingHeldAfter ==
    \A t \in Tasks : pc[t] = "idle" /\ retries[t] = 0 /\ s_pc[t] = "idle" => held[t] = {}

\* The calls, the transfers from VM to VM, the copies and the delivery touch
\* only VMs that the task has reserved and not freed, wherever a chain breaks
\* off and whoever else waits for them (KeepsReserved and S!UsesReserved).
UsersKeepReserved == KeepsReserved /\ S!UsesReserved

\* Every fetch and every call of to_string ends, although each holds VMs while
\* it waits for others: max_queue_time breaks the circle of two chains that
\* wait for each other, and of one that names a program twice.  Only the
\* failed assert at the early release, which ends the process, prevents it.
EveryoneEnds ==
    /\ \A t \in Fetches : (pc[t] # "idle") ~> (pc[t] = "idle" \/ panicked)
    /\ \A t \in Strings : (s_pc[t] # "idle") ~> (s_pc[t] = "idle" \/ panicked)
=============================================================================

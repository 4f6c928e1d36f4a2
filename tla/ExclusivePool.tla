---------------------------- MODULE ExclusivePool ----------------------------
(***************************************************************************)
(* What a pool of VMs promises its users, as the comments on VMPoolItem    *)
(* and ProgramInstance put it: a VM belongs to one request from            *)
(* reservation to release, a released VM comes back, and a program is not  *)
(* destroyed while a request uses one of its VMs.                          *)
(***************************************************************************)
CONSTANTS Requests, Programs, Slots, ProgOf,
          Absent,      \* the VM is not started
          Idle,        \* the VM waits for a request
          Resetting    \* the VM was released and is being reset

VARIABLES owner,       \* per slot: a request, Absent, Idle or Resetting
          gone         \* the programs that were destroyed

Init ==
    /\ owner = [s \in Slots |-> Absent]
    /\ gone = {}

Start(s) ==
    /\ owner[s] = Absent /\ ProgOf[s] \notin gone
    /\ owner' = [owner EXCEPT ![s] = Idle]
    /\ UNCHANGED gone

Acquire(r, s) ==
    /\ owner[s] = Idle /\ ProgOf[s] \notin gone
    /\ \A t \in Slots : owner[t] # r
    /\ owner' = [owner EXCEPT ![s] = r]
    /\ UNCHANGED gone

Release(r, s) ==
    /\ owner[s] = r
    /\ \E o \in {Idle, Resetting} : owner' = [owner EXCEPT ![s] = o]
    /\ UNCHANGED gone

Return(s) ==
    /\ owner[s] = Resetting
    /\ owner' = [owner EXCEPT ![s] = Idle]
    /\ UNCHANGED gone

Retire(p) ==
    /\ \A s \in Slots : ProgOf[s] = p => owner[s] \in {Absent, Idle}
    /\ gone' = gone \cup {p}
    /\ UNCHANGED owner

Next ==
    \/ \E s \in Slots : Start(s) \/ Return(s)
    \/ \E r \in Requests, s \in Slots : Acquire(r, s) \/ Release(r, s)
    \/ \E p \in Programs : Retire(p)

Spec == Init /\ [][Next]_<<owner, gone>>
=============================================================================

----------------------------- MODULE PostMemory -----------------------------
(***************************************************************************)
(* The memory a VM maps for requests: the area that the body of a request  *)
(* is copied to, which a VM keeps from one request to the next, the area   *)
(* for the inputs of a guest that pauses, and what the guest maps itself.  *)
(* Addresses and sizes are counted in units of the body, from 1; address 0 *)
(* is null.  mmap is the machine's: it allocates upwards.                  *)
(***************************************************************************)
EXTENDS Integers

CONSTANTS
    POST_BUFFER,   \* the capacity for the body of a client's request
    Top            \* bound: the highest address there is

ASSUME PostAssumption == POST_BUFFER \in Nat \ {0} /\ Top \in Nat

VARIABLES
    mem,                   \* what is at an address: free, the guest's, inputs or a unit
    mm,                    \* where the next area will be
    areas,                 \* (history) the addresses the guest has mapped
    m_post_data, m_post_size,
    m_inputs_allocation,
    post                   \* the body of this request

memoryVars == <<mem, mm, areas, m_post_data, m_post_size, m_inputs_allocation, post>>

\* What an address holds other than units of a body.
Free   == 0
Guest  == -1
Inputs == -2

NoPost == [address |-> 0, capacity |-> 0, length |-> 0]

MemoryInit ==
    /\ mem = [a \in 1..Top |-> Free] /\ mm = 1 /\ areas = {}
    /\ m_post_data = 0 /\ m_post_size = 0 /\ m_inputs_allocation = 0
    /\ post = NoPost

\* Put v(i) at the i-th of n addresses from a on.
Put(m, a, n, v(_)) == [x \in 1..Top |-> IF x \in a..(a + n - 1) THEN v(x - a + 1) ELSE m[x]]

\* kvmbe_gethdrs: a body of the client, or the response of the previous
\* program in the chain.
PostBegins(capacity) ==
    /\ post' = [NoPost EXCEPT !.capacity = capacity]
    /\ UNCHANGED <<mem, mm, areas, m_post_data, m_post_size, m_inputs_allocation>>

NoRoom(n) == post.length + n > post.capacity

\* allocate_post_data: grow the area if it is too small.
Grows == m_post_size < post.capacity

Address == IF post.length > 0 THEN post.address ELSE IF Grows THEN mm ELSE m_post_data

Unmapped == IF m_post_size > 0 THEN Put(mem, m_post_data, m_post_size, LAMBDA i : Free) ELSE mem

\* kvm_backend_streaming_post, for a program without a callback: n more units.
\* The first of them allocate.
PostSegment(n) ==
    LET grow == post.length = 0 /\ Grows
        to   == Address + post.length
    IN  /\ ~NoRoom(n)
        /\ grow => mm + post.capacity <= Top + 1
        /\ mem' = Put(IF grow THEN Unmapped ELSE mem, to, n, LAMBDA i : post.length + i)
        /\ mm' = IF grow THEN mm + post.capacity ELSE mm
        /\ m_post_data' = Address
        /\ m_post_size' = IF grow THEN post.capacity ELSE m_post_size
        /\ post' = [post EXCEPT !.address = Address, !.length = @ + n]
        /\ UNCHANGED <<areas, m_inputs_allocation>>

\* mmap_relax gives back what the body did not need, if nothing was mapped
\* since.
Relaxed == IF post.address > 0 /\ post.address + post.capacity = mm
           THEN post.address + post.length ELSE mm

\* Before a callback is called.
RelaxPost == mm' = Relaxed /\ UNCHANGED <<mem, areas, m_post_data, m_post_size, m_inputs_allocation, post>>

\* Before a guest is resumed its inputs are put into an area of their own.
RelaxAndFill ==
    LET at == IF m_inputs_allocation = 0 THEN Relaxed ELSE m_inputs_allocation
    IN  /\ at <= Top
        /\ mm' = IF m_inputs_allocation = 0 THEN Relaxed + 1 ELSE Relaxed
        /\ m_inputs_allocation' = at
        /\ mem' = [mem EXCEPT ![at] = Inputs]
        /\ UNCHANGED <<areas, m_post_data, m_post_size, post>>

\* The guest maps memory for itself.
GuestMaps ==
    /\ mm <= Top
    /\ mem' = [mem EXCEPT ![mm] = Guest]
    /\ areas' = areas \cup {mm}
    /\ mm' = mm + 1
    /\ UNCHANGED <<m_post_data, m_post_size, m_inputs_allocation, post>>

\* (bug) The reset keeps the area for bodies.
ResetKeepsPost(ok) ==
    /\ IF ok THEN mem' = [a \in 1..Top |-> Free] /\ mm' = 1 /\ areas' = {}
       ELSE UNCHANGED <<mem, mm, areas>>
    /\ m_inputs_allocation' = 0
    /\ UNCHANGED <<m_post_data, m_post_size, post>>

\* reset_to, whether the machine could be reset or not.
ResetMemory(ok) ==
    /\ IF ok THEN mem' = [a \in 1..Top |-> Free] /\ mm' = 1 /\ areas' = {}
       ELSE UNCHANGED <<mem, mm, areas>>
    /\ m_post_size' = 0 /\ m_inputs_allocation' = 0
    /\ UNCHANGED <<m_post_data, post>>

(***************************************************************************)
(* What the properties speak of.                                           *)
(***************************************************************************)
\* The body of this request is where the guest is told that it is.
BodyIsThere == \A i \in 1..post.length : post.address > 0 => mem[post.address + i - 1] = i

\* What the guest has mapped is its own.
GuestKeepsMemory == \A a \in areas : mem[a] = Guest
=============================================================================

------------------------------ MODULE RequestVM ------------------------------
(***************************************************************************)
(* What a request VM carries from one request to the next.  The VM is      *)
(* reserved, the body of the request is put into it, its guest is called   *)
(* (or resumed where it paused), the response is delivered from it, and it *)
(* is freed: reset when it is ephemeral, was asked to or failed, and as it *)
(* is otherwise.  In a chain with the same program twice in a row the VM   *)
(* is called again before that, with its own response as the body.  VMPool *)
(* models who gets the VM when; here it is one VM, and the requests it     *)
(* serves one after the other.  Before them its main VM, from which it is  *)
(* forked and reset, is warmed up.                                         *)
(***************************************************************************)
EXTENDS Delivery, PostMemory

CONSTANTS
    Kinds,            \* the settings VMs are found with
    Hashes,           \* the regexes guests compile
    Loaned            \* the one the program compiled when it initialized

ASSUME VMAssumption ==
    /\ Loaned \in Hashes /\ "empty" \notin Hashes
    /\ Kinds \subseteq
          [group_ephemeral : BOOLEAN,   \* the setting of the group
           ephemeral : BOOLEAN,         \* the VM's: see sys_make_ephemeral
           resumes : BOOLEAN,           \* the guest pauses for requests
           streams : BOOLEAN,           \* it has callbacks that stream bodies
                                        \* and responses
           reset_fails : BOOLEAN,       \* the reset of the VM may throw
           posts : BOOLEAN,             \* requests have bodies
           chained : BOOLEAN,           \* it is twice in a row in chains
           compiles : BOOLEAN,          \* the guest uses regexes
           frees : BOOLEAN,             \* and frees them
           room : Nat \ {0},            \* of the regex cache
           warmups : Nat]               \* the requests of the warm-up

VARIABLES
    vm,                      \* the settings of the VM
    main_vm,                 \* where the main VM is stopped, and its flag
    warmed,                  \* the requests it was warmed up with
    pc,
    at,                      \* where the guest's main program is stopped
    m_waiting_for_requests,
    m_reset_needed,
    m_soft_reset_needed,
    m_regex,                 \* the cache: hash, whether the item is there, owner
    handles,                 \* the handles given out in this request
    panicked,                \* an assertion of Varnish failed
    trace,                   \* (history) guest memory has changes that must go
    reused                   \* (history) called again in this reservation

flags   == <<m_waiting_for_requests, m_reset_needed, m_soft_reset_needed>>
regexes == <<m_regex, handles, panicked>>
guest   == <<at, trace, reused>>
vars    == <<vm, main_vm, warmed, pc, flags, regexes, guest, deliveryVars, memoryVars>>

Entries == [hash : Hashes \cup {"empty"}, item : BOOLEAN, owned : BOOLEAN]

\* The cache of the program's main VM, which its request VMs borrow.
MainCache == <<[hash |-> Loaned, item |-> TRUE, owned |-> FALSE]>>

TypeOK ==
    /\ vm \in Kinds
    /\ main_vm \in [at : {"pause", "inside"}, waiting : BOOLEAN]
    /\ warmed \in 0..vm.warmups
    /\ pc \in {"boot", "queued", "reserved", "running", "called", "failed", "resetting"}
    /\ at \in {"pause", "response", "inside", "callback"}
    /\ {m_waiting_for_requests, m_reset_needed, m_soft_reset_needed,
        panicked, trace, reused} \subseteq BOOLEAN
    /\ m_regex \in Seq(Entries) /\ Len(m_regex) <= vm.room
    /\ handles \subseteq 1..Len(m_regex)

Init ==
    /\ vm \in Kinds
    /\ main_vm = [at |-> "pause", waiting |-> TRUE] /\ warmed = 0
    /\ DeliveryInit /\ MemoryInit
    /\ pc = "boot" /\ trace = FALSE /\ reused = FALSE
    /\ at = "pause" /\ m_waiting_for_requests = TRUE
    /\ m_reset_needed = FALSE /\ m_soft_reset_needed = FALSE
    /\ m_regex = MainCache /\ handles = {}
    /\ panicked = FALSE

-----------------------------------------------------------------------------
(* The main VM. *)

dataVars == <<deliveryVars, memoryVars>>

\* perform_warmup_request: the guest answers and is run on to its next pause.
WarmUp ==
    /\ pc = "boot" /\ warmed < vm.warmups
    /\ warmed' = warmed + 1
    /\ UNCHANGED <<main_vm, pc, flags, regexes, guest, dataVars>>

\* It fails, before its answer or after it, where the flag is cleared; that is
\* the end of the warm-up, and no more.
WarmUpFails ==
    /\ pc = "boot" /\ warmed < vm.warmups /\ main_vm.at = "pause"
    /\ warmed' = vm.warmups
    /\ \E answered \in BOOLEAN : main_vm' = [at |-> "inside", waiting |-> ~answered]
    /\ UNCHANGED <<pc, flags, regexes, guest, dataVars>>

\* The fork constructor: "If we got this far, we are waiting..."
Fork ==
    /\ pc = "boot" /\ warmed = vm.warmups
    /\ pc' = "queued"
    /\ at' = main_vm.at /\ m_waiting_for_requests' = TRUE
    /\ UNCHANGED <<main_vm, warmed, trace, reused, m_reset_needed, m_soft_reset_needed, regexes, dataVars>>

-----------------------------------------------------------------------------
(* The request. *)

\* reserve_vm, as far as the VM is concerned; no body, and no response yet.
Reserve(soft) ==
    /\ pc = "queued"
    /\ pc' = "reserved"
    /\ m_soft_reset_needed' = soft
    /\ handles' = {} /\ reused' = FALSE
    /\ Forget
    /\ PostBegins(0)
    /\ UNCHANGED <<at, trace, m_waiting_for_requests, m_reset_needed, m_regex, panicked>>

\* The guest writes to its memory, which for some requests must not last.
Touch == trace' = (trace \/ vm.ephemeral \/ m_soft_reset_needed)

\* It fails: nothing in its memory is to be relied on.
GuestFails == trace' = TRUE

\* A vmcall into a guest that pauses replaces the registers it paused with.
Called == at' = IF vm.resumes THEN "callback" ELSE at

\* There is a body, or the response of the previous program in the chain.
BodyBegins ==
    /\ pc = "reserved" /\ vm.posts /\ post = NoPost /\ ~reused
    /\ \E capacity \in 1..POST_BUFFER : PostBegins(capacity)
    /\ UNCHANGED <<pc, flags, regexes, guest, deliveryVars>>

\* kvm_backend_streaming_post: a piece of the body, copied or handed to the
\* guest's callback.
Body(n) ==
    /\ pc = "reserved" /\ post.capacity > 0
    /\ \/ ~vm.streams /\ PostSegment(n) /\ UNCHANGED at
       \/ /\ vm.streams /\ ~NoRoom(n)
          /\ post' = [post EXCEPT !.length = @ + n]
          /\ Called
          /\ UNCHANGED <<mem, mm, areas, m_post_data, m_post_size, m_inputs_allocation>>
    /\ Touch
    /\ UNCHANGED <<pc, reused, flags, regexes, deliveryVars>>

\* The body is too large, or the guest's callback throws or does not take all
\* of the piece; the request ends without another call, and nothing marks the VM.
BodyFails(n) ==
    /\ pc = "reserved" /\ post.capacity > 0
    /\ \/ NoRoom(n) /\ UNCHANGED <<trace, at>>
       \/ vm.streams /\ Called /\ (GuestFails \/ Touch)
    /\ pc' = "failed"
    /\ UNCHANGED <<reused, flags, regexes, dataVars>>

\* In a chain, all of the last response is the body.
Transferred == reused => post.length = post.capacity

\* kvm_backend_call: one of the callbacks.
CallBack ==
    /\ pc = "reserved" /\ ~vm.resumes /\ Transferred
    /\ pc' = "running"
    /\ RelaxPost
    /\ Touch
    /\ UNCHANGED <<at, reused, flags, regexes, deliveryVars>>

\* kvm_backend_call: the guest is resumed.  In a group that is not ephemeral
\* it runs on to its next pause first.
Resume ==
    /\ pc = "reserved" /\ vm.resumes /\ Transferred
    /\ pc' = "running"
    /\ RelaxAndFill
    /\ Touch
    /\ IF ~vm.group_ephemeral /\ ~m_waiting_for_requests
       THEN at' = "pause" /\ m_waiting_for_requests' = TRUE
       ELSE UNCHANGED <<at, m_waiting_for_requests>>
    /\ UNCHANGED <<reused, m_reset_needed, m_soft_reset_needed, regexes, deliveryVars>>

\* While it runs the guest may map memory.
Map ==
    /\ pc = "running" /\ vm.posts
    /\ GuestMaps
    /\ UNCHANGED <<pc, flags, regexes, guest, deliveryVars>>

\* What the guest may answer with.
Answers == {r \in Responses : r.streamed => vm.streams}

\* (bug) The guest is taken to wait for requests when it answers.
AnswerWaits(r) ==
    /\ pc = "running"
    /\ pc' = "called"
    /\ fetch_result(r)
    /\ at' = IF vm.resumes THEN "response" ELSE at
    /\ UNCHANGED <<trace, reused, flags, regexes, memoryVars>>

\* The guest answered.  A paused guest is stopped inside its response.
Answer(r) ==
    /\ pc = "running"
    /\ pc' = "called"
    /\ fetch_result(r)
    /\ IF vm.resumes
       THEN /\ at' = "response"
            /\ m_waiting_for_requests' = (m_waiting_for_requests /\ vm.group_ephemeral)
       ELSE UNCHANGED <<at, m_waiting_for_requests>>
    /\ UNCHANGED <<trace, reused, m_reset_needed, m_soft_reset_needed, regexes, memoryVars>>

\* (bug) Only the error result is made.
CallFailsUnmarked ==
    /\ pc \in {"reserved", "running"}
    /\ GuestFails
    /\ at' = IF vm.resumes THEN "inside" ELSE at
    /\ pc' = "called"
    /\ ErrorResult
    /\ UNCHANGED <<reused, flags, regexes, memoryVars>>

\* The call throws, which is also what a full regex cache does: error_handling
\* has the VM reset, and on_error may answer.
CallFails ==
    /\ pc \in {"reserved", "running"}
    /\ GuestFails
    /\ at' = IF vm.resumes THEN "inside" ELSE at
    /\ m_reset_needed' = TRUE
    /\ pc' = "called"
    /\ ErrorResult \/ \E r \in Answers : fetch_result(r)
    /\ UNCHANGED <<reused, m_waiting_for_requests, m_soft_reset_needed, regexes, memoryVars>>

\* The next item of the chain is the same program: the reservation is kept, and
\* with it all there is in the VM.  Its response is the body, for which there
\* is exactly the room it needs; a streamed one has no buffers to transfer.
Reuse ==
    /\ pc = "called" /\ vfp = "none" /\ vm.chained
    /\ pc' = "reserved" /\ reused' = TRUE
    /\ PostBegins(IF result.streamed THEN 0 ELSE result.content_length)
    /\ Forget
    /\ UNCHANGED <<at, trace, flags, regexes>>

\* The response, from the memory of the VM.
Deliver ==
    /\ pc = "called"
    /\ CopyBuffer \/ CopyAsserts \/ WriteResponse \/ Pull \/ kvmfp_pull
    /\ UNCHANGED <<pc, flags, regexes, guest, memoryVars>>

\* kvm_backend_streaming_delivery: the guest is called for n units.  (Past the
\* announced length the model follows it for one pull.)
Stream(n) ==
    /\ pc = "called" /\ priv2 < result.content_length + MaxPull
    /\ kvmfp_streaming_pull(n)
    /\ Touch /\ Called
    /\ UNCHANGED <<pc, reused, flags, regexes, memoryVars>>

\* kvm_backend_streaming_delivery throws, or delivers nothing.
DeliveryFails ==
    /\ pc = "called"
    /\ Stalls
    /\ (GuestFails \/ Touch) /\ Called
    /\ pc' = "failed"
    /\ UNCHANGED <<reused, flags, regexes, memoryVars>>

-----------------------------------------------------------------------------
(* The regex system calls, while the guest runs. *)

\* Cache::find
Found(h) == {i \in DOMAIN m_regex : m_regex[i].hash = h}

Compiled(h) == [hash |-> h, item |-> TRUE, owned |-> TRUE]

\* A regex that is in the cache is not compiled again.
CompileFound(h) ==
    /\ pc = "running" /\ vm.compiles /\ Found(h) # {}
    /\ handles' = handles \cup {CHOOSE i \in Found(h) : \A j \in Found(h) : i <= j}
    /\ UNCHANGED <<pc, flags, guest, m_regex, panicked, dataVars>>

\* Cache::manage: a new place, or else an empty one.  Without either the call
\* throws (CallFails), and the regex that was compiled is lost.
CompileNew(h) ==
    /\ pc = "running" /\ vm.compiles /\ Found(h) = {}
    /\ \/ /\ Len(m_regex) < vm.room
          /\ m_regex' = Append(m_regex, Compiled(h))
          /\ handles' = handles \cup {Len(m_regex) + 1}
       \/ /\ Len(m_regex) = vm.room
          /\ \E i \in Found("empty") :
                /\ \A j \in Found("empty") : i <= j
                /\ m_regex' = [m_regex EXCEPT ![i] = Compiled(h)]
                /\ handles' = handles \cup {i}
    /\ UNCHANGED <<pc, flags, guest, panicked, dataVars>>

\* sys_regex_free empties the entry; it does not free the regex.
RegexFree(i) ==
    /\ pc = "running" /\ vm.frees /\ i \in handles
    /\ m_regex' = [m_regex EXCEPT ![i].hash = "empty", ![i].item = FALSE]
    /\ handles' = handles \ {i}
    /\ UNCHANGED <<pc, flags, guest, panicked, dataVars>>

-----------------------------------------------------------------------------
(* Freeing the VM. *)

is_reset_needed == m_reset_needed \/ m_soft_reset_needed \/ vm.ephemeral

Owned == {i \in DOMAIN m_regex : m_regex[i].hash # "empty" /\ m_regex[i].owned}

\* tail_reset: VRE_free every regex of the VM's own.  VRE_free takes the
\* pointer from the entry and asserts that there is one.
Freed == [i \in DOMAIN m_regex |->
            IF i \in Owned THEN [m_regex[i] EXCEPT !.item = FALSE] ELSE m_regex[i]]

FreesNull == \E i \in Owned : ~m_regex[i].item

\* vm_free_function, inline: nothing to reset.
FreeInline ==
    /\ pc \in {"reserved", "called", "failed"} /\ ~is_reset_needed
    /\ m_regex' = Freed
    /\ panicked' = (panicked \/ FreesNull)
    /\ pc' = "queued"
    /\ UNCHANGED <<flags, guest, handles, dataVars>>

\* vm_free_function, deferred to the VM's thread.
FreeDeferred ==
    /\ pc \in {"reserved", "called", "failed"} /\ is_reset_needed
    /\ pc' = "resetting"
    /\ UNCHANGED <<flags, guest, regexes, dataVars>>

\* (bug) The cache of the main VM is not loaned again.
ResetKeepsRegexes(ok) ==
    /\ pc = "resetting"
    /\ IF ok THEN trace' = FALSE /\ at' = main_vm.at
       ELSE UNCHANGED <<trace, at>>
    /\ ResetMemory(ok)
    /\ m_waiting_for_requests' = main_vm.waiting
    /\ m_reset_needed' = FALSE /\ m_soft_reset_needed' = FALSE
    /\ m_regex' = Freed
    /\ panicked' = (panicked \/ FreesNull)
    /\ handles' = {}
    /\ pc' = "queued"
    /\ UNCHANGED <<reused, deliveryVars>>

\* tail_reset and reset_to on the VM's thread.  When the reset of the machine
\* throws, that is logged and the VM is put back as it is.
ResetTask(ok) ==
    /\ pc = "resetting"
    /\ IF ok THEN trace' = FALSE /\ at' = main_vm.at
       ELSE UNCHANGED <<trace, at>>
    /\ ResetMemory(ok)
    /\ m_waiting_for_requests' = main_vm.waiting
    /\ m_reset_needed' = FALSE /\ m_soft_reset_needed' = FALSE
    /\ m_regex' = MainCache
    /\ panicked' = (panicked \/ FreesNull)
    /\ handles' = {}
    /\ pc' = "queued"
    /\ UNCHANGED <<reused, deliveryVars>>

Boot == WarmUp \/ WarmUpFails \/ Fork

Request ==
    \/ \E soft \in BOOLEAN : Reserve(soft)
    \/ BodyBegins
    \/ \E n \in 1..POST_BUFFER : Body(n) \/ BodyFails(n)
    \/ CallBack \/ Resume \/ Map \/ CallFails
    \/ \E r \in Answers : Answer(r)
    \/ Reuse \/ Deliver \/ DeliveryFails
    \/ \E n \in 1..MaxPull : Stream(n)
    \/ \E h \in Hashes : CompileFound(h) \/ CompileNew(h)
    \/ \E i \in handles : RegexFree(i)
    \/ FreeInline \/ FreeDeferred
    \/ \E ok \in {TRUE, ~vm.reset_fails} : ResetTask(ok)

Next ==
    /\ ~panicked /\ vfp # "assert" /\ UNCHANGED vm
    /\ Boot \/ (Request /\ UNCHANGED <<main_vm, warmed>>)

Spec == Init /\ [][Next]_vars

-----------------------------------------------------------------------------
(* Properties. *)

\* A VM in the queue holds no trace of a request that was to leave none: of an
\* ephemeral one, of one reserved with a soft reset, or of anything that was
\* there when the guest "crashes, runs out of memory or times out".
NoTraceLeft == pc = "queued" => ~trace

HandlesAreCompiled == pc = "running" => \A i \in handles : m_regex[i].item

\* In an ephemeral VM, whose reset loans the cache of the main VM anew, every
\* handle refers to a compiled regex, and tail_reset frees none twice (VRE_free
\* would assert), also when the cache runs full, entries are emptied and used
\* again, and the VM is called several times before its reset.
RegexesAreSound == vm.ephemeral => HandlesAreCompiled /\ ~panicked

\* A guest that pauses for requests is resumed where it paused, so that the
\* inputs of the request are where wait_for_requests_paused left room for them,
\* after answers, failures and streamed responses, and called again in a chain.
\* It is not so, and not claimed, when the warm-up failed (VMs are forked from a
\* main VM, and reset to one, that stopped anywhere), when a callback took the
\* body of this request, and when a VM that failed, or one of an ephemeral group,
\* is called again in a chain: its guest goes on from its failure or response.
ResumedAtPause ==
    /\ vm.resumes /\ pc = "running" /\ main_vm.at = "pause"
    /\ ~(vm.streams /\ post.length > 0)
    /\ reused => ~vm.group_ephemeral /\ ~m_reset_needed
    => at = "pause"

\* In an ephemeral VM the body of a request is, when the guest gets to run, where
\* allocate_post_data put it ("building a sequential, complete buffer"), and
\* neither it nor the inputs are over memory of the guest's: the area does not
\* outlive the reset that takes it away, nor mmap_relax the request.  (Called
\* again in a chain, the VM still counts as its area what mmap_relax gave back,
\* and the guest may have it.)
PostIsIntact ==
    vm.ephemeral /\ ~reused => GuestKeepsMemory /\ (pc = "running" => BodyIsThere)

=============================================================================

# A TLA+ model of libvmod-tinykvm

libvmod-tinykvm is a Varnish module that answers HTTP requests with programs
run in KVM virtual machines. This directory models the parts of it that share
state between threads, requests and programs, checks them with TLC, and proves
the safety properties with TLAPS for every value of the constants. Paths below
are relative to the repository (`src/` here is the repository root, as in `PROJECT.json`).

## The system and its parts

| Part | State | Operations | Meets |
|---|---|---|---|
| **Tenant** (`tenant_instance.cpp`) | the current program, `m_started_init`, `mtx_running_init` | lazy load, asynchronous start, live update, unload, `vmreserve` | programs |
| **Program** (`program_instance.cpp`) | main VM, `m_vms`, a queue of free VMs per NUMA node, `mtx_future_init`, `m_future`, `m_initialization_complete` | construct, initialize on its storage queue, wait, reserve, free, destroy | tenant, requests, VM threads |
| **Pooled VM** (`VMPoolItem`) | its machine, a thread `tp`, `prog_ref`, `task_future` | reserve, free inline, free by a reset task | program |
| **Machine** (`machine_instance.cpp`, `backend.cpp`) | guest memory, the area for bodies, reset flags, pause state, regex cache | warm up, fork, call, resume, stream, `tail_reset`, `reset_to` | system calls, delivery |
| **Delivery** (`kvm_backend.c`, `kvm_streaming_backend.c`) | the response's buffers, what Varnish has stored | `fetch_result`, pull, streaming pull | machine |
| **Backend fetch** (`kvm_backend.c`, `kvm_post.c`) | the chain, the VMs of the current and the previous item, `priv_task` | `gethdrs`, delivery, early release, end of the task | reservations |
| **to_string / synth** (`to_string.c`) | the same without `priv_task` | the loop over the chain | reservations |
| **Storage VM** (`program_instance.cpp`, `system_calls_api.cpp`) | a VM that is shared by all request VMs, a queue with one thread | initialize, `storage_call`, `storage_task`, state transfer, destroy | programs, requests, timers |
| **Timers** (`utils/cpptime.hpp`) | events, the schedule, free ids, a thread | add, remove, fire, end | storage tasks |
| **Self-requests** (`self_request.cpp`, `system_calls_fetch.cpp`) | a counter and its limit, cURL handles | fetch from Varnish itself, by a chain or a guest | fetches |
| **Live update over HTTP** (`kvm_live_update.c`, `live_update.cpp`) | the upload, the program's file | commit, store | tenant |
| **Epoll server** (`server/epoll.cpp`) | sockets, read buffers in a VM of its own, a queue of events | accept, read, write, hang up, resume the guest, stop | programs |
| **Websocket server** | connections, a VM of its own | | programs |
| **Configuration** (`tenant.cpp`) | groups, limits | load, look up | everything |

What makes it hard: a program is kept alive by `shared_ptr`s that travel from
a request into a VM, from there into a task on the VM's own thread, and are
dropped wherever they happen to be last; VMs are freed on error paths of C code
that also keeps them in a `priv_task` which outlives the attempt; a tenant's
program may be null, initializing, failed, replaced or unloaded while any
number of requests ask for it; and a VM that is not reset carries its state to
the next request.

## Modules

| Module | Models | Runs |
|---|---|---|
| `VMPool` | the pool of request VMs of a program, references, live update, destruction | `pool`, `pool_destroyed` |
| `ExclusivePool` | what the comments promise of the pool: the abstract specification `VMPool` implements | (property of `pool`) |
| `Reservations` | the VMs of all tenants as the C code sees them: taken, given back | (through the next three) |
| `BackendFetch` | a backend fetch by a chain of programs | (through `VMUsers`) |
| `ToString` | `to_string` and `synth` | (through the next) |
| `VMUsers` | fetches and calls of `to_string` on the same VMs | `chains`, `fetch_break`, `fetch_reuse` |
| `TenantProgram` | loading, starting, updating and unloading the program of a tenant, and the file it is stored in | `tenant`, `tenant_live` |
| `Delivery` | a response on its way from the VM to Varnish's storage | (through `RequestVM`) |
| `PostMemory` | the memory a VM maps for bodies, inputs and the guest | (through the next) |
| `RequestVM` | what a VM carries from one request to the next | `vm` |
| `Timers` | the timer system of a program | (through the next) |
| `Storage` | the storage VM, its queue, tasks by timers, state transfer, the end of a program | `storage`, `storage_init` |
| `SelfRequest` | the limit on concurrent self-requests and its two users | `self_request` |
| `Epoll` | one epoll server: its loop, its connections, its guest, and its stop | `epoll` |
| `VMPoolProofs`, `FetchProofs`, `VMUsersProofs`, `TenantProofs`, `RequestVMProofs`, `StorageProofs`, `SelfRequestProofs`, `EpollProofs` | theorems about `VMPool`, `BackendFetch`, `VMUsers`, `TenantProgram`, `RequestVM`, `Storage` with `Timers`, `SelfRequest`, `Epoll` | |
| `MC*` | the instances for TLC | |

A definition whose comment begins with "(bug)" is not part of the
specification. It is a plausible mistake in the definition that follows it,
and the property named beside it in `PROJECT.json` (`mutants`) fails when it
takes that definition's place.

### VMPool

Three kinds of thread: requests, updaters, and the thread of each VM (`Slots`
doubles as the set of these threads). `prog`, `cur`, `newp`, `prog_ref`,
`taskref` and `program` are the `shared_ptr`s of the code; `Dropped(x, p)` is
the end of one, and makes `x` the thread that runs `~ProgramInstance` when it
was the last. A thread inside a destructor (`Busy`) takes no other step until
`Destroy`, which waits for what the destructor waits for. `FreeInline` and
`FreeDeferred`/`AssignFuture`/`ResetTask`/`DropTaskRef` are the two branches of
`vm_free_function`; the assignment to `task_future` is a step of its own,
because the reset task may run before it. `queue` counts how often a slot
sits in the queue of each NUMA node, so that a VM queued twice would show.

### Reservations, BackendFetch, ToString, VMUsers

`Take` and `Give` are `reserve_vm` and `vm_free_function` seen from their
users, as `VMPool` shows them to work; `held` is history: what a task reserved
and did not free. `Give` on a VM that is not reserved dereferences a null
`prog_ref` (`crashed`).

`BackendFetch` follows `kvmbe_gethdrs`: `Begin`, then per chain item
`SelfRequest`, or one of the outcomes of a reservation (re-use of the previous
VM, a temporary or a full one, no VM in time, no program that works, no
workspace, or the VM that `priv_task` has already), `GetBody` (first item) or
`Transfer` (later ones), `Call`; then `Finish` (early copy, early release,
`kvmbe_write_response`), `Deliver`, and `TaskEnd`, when Varnish calls the method in
`priv_task`. `Retry` returns to the beginning with `priv_task` as it is.
`methods` is which function that is: `vm_free_function` after a full reservation,
`kvm_free_reserved_machine` after a re-use, which does nothing when the early
release calls it without a context. The content of messages is reduced to
`zero`, `short` (below `backend_early_release_size`) or `long`, streamed or not,
and the VM its buffers point into. `panicked` is the assertion of the early
release, which a short streamed response fails (`AssertFails`). `WSFails` names
the workspace allocations that may fail; an allocation of a few bytes that fails
leaves the workspace full for the rest of the task, so that a retry fails at its
first allocation.

`ToString` is the loop of `to_string`, which reserves every VM temporarily.
`VMUsers` extends `BackendFetch` and instantiates `ToString` beside it on the same
VMs: a step is a step of one fetch or of one call.

### TenantProgram

Each mutex is a variable that names its holder. A thread walks through `ref`,
`begin_async_initialize`, `begin_initialize`, `wait_for_initialization` and
`wait_for_main_vm` label by label; `Initialize(p)` is the task on the storage
queue of program `p`. Requests, starters (who do not wait), updaters and
reloaders share these steps where the code does. `Failures` names the stages
that may fail. `terminated` is an exception that leaves the module, or a bus
error in a file that was cut under its mapping.

The file of the program is `whole` or `torn`. A program that is read from it is
mapped from the time it is constructed until it has booted (`mapped`); opening the
file for writing tears it and every mapping of it (`Open`). An updater swaps its
program in, opens the file and writes it, in three steps, if the file name of the
configuration (`FileName`) is an absolute path; with another name nothing is
stored. A fetched program is taken from the file when the server reports 304
(`FetchCached`), and is otherwise written to it and mapped again, whether or not
that worked (`FetchNew`, `SaveOpens`, `SaveEnds`). Which program is in the file is not
modelled, nor are `file:` URIs, which are not cached. `overtaken` is history:
the threads that were on their way to a load when the last update came into
force.

### Delivery, PostMemory, RequestVM

One VM and the requests it serves in turn. `vm` is its kind: ephemeral (its own
setting and that of the group), called back or resumed, streaming, with bodies or
without, twice in a chain or not, how much room its regex cache has, how many
warm-up requests its main VM is given. `main_vm` is where that one stopped: VMs are
forked from it and reset to it. `trace` is history: guest memory holds changes that
must not be seen by another request. The regex cache is modelled entry by entry with
hash, item and ownership, because handles are indices into it. `Reuse` is the next
item of a chain that names the same program: the VM stays reserved, with all that is
in it, and the response becomes the body of the next call. `Called` is a vmcall into
a guest that pauses, for a body or a streamed response, which loses its place.

`PostMemory` is the address space: `mm` is where the machine maps next (it
allocates upwards), `mem` what is at each address. `PostSegment` is
`allocate_post_data` with the copy of a segment, `Relaxed` the end of the area
after `mmap_relax`, `RelaxAndFill` the inputs of a paused guest, `GuestMaps` what
the guest maps itself.

`Delivery` numbers the units of a response. A response that is not streamed is one
range of guest memory, cut into buffers where `gather_buffers_from_range` cuts it; a
buffer is a pointer, into guest memory or the workspace, and a size, as a `VMBuffer`
is. `CopyBuffer` is one turn of the loop that copies a short response early,
`CopyAsserts` its assertion when it fails, `WriteResponse` what happens up to
`vfp_init`, with the copy or without; `Pull` is Varnish, asking with some room;
`kvmfp_pull` and `kvmfp_streaming_pull` are one turn of the loops in these
functions.

### Epoll

The thread of `EpollServer` (`Loop`), the kernel and the peers (`Peers`), and the
thread that destroys the program (`Stopper`). A connection is in the backlog, open
or closed; `ready` is epoll's list, from which an edge-triggered socket is taken
when it is reported. `queue` is the socket events that wait for the guest and `buf`
what is in the read buffers they point to, each a range of units of a connection.
`seen` and `told` are history: how much the guest got, and whether of the end. A
resumption that fails (`ResumeFails`) may have handed its events over or not.
`fd_readable` is `Readable`, then `readv`, `FlushToRead`, `WouldBlock`, `hangup` or
`ReadThrows` until its event is done. `stalled` is history as well: a read stopped
at its limit with something left. `terminated` is an exception out of the thread:
`at()` when a greeting finds no buffer left, or a resumption that fails at the end
of a batch, outside of any `try`.

Steps of peers are interleaved where the thread looks at what they change:
everything at `epoll_wait`, the backlog while accepting, the connection while it
is read.

### Timers, Storage

`Timers` is `cpptime::TimerSystem`: events in a vector, an id per event, a stack
of ids to re-use, and a worker thread that erases a due time event, releases the
lock for the handler and takes it again to schedule the timer or free its id.
The handler's step is left to `Storage`. Time is abstracted to "any scheduled
timer may be the first due".

`Storage` is everything that uses the storage queue of a program. `queue` is
what waits, `thread` what its one thread is doing: the initialization
(`InitStep`, `InitFail`), a `storage_call` (`StartNext`, `FinishCall`), a
`storage_task`, or the serializer of a live update. Guests are the requests,
the main VM, which runs on the queue's thread while the program initializes,
and the storage VM itself; `pc` says whether a guest is inside a system call.
`storage_call` and `storage_task` look at the allow-list of the storage first, and
`live_update_call` at a time limit of its VM; a request or an update in the middle of
that is `inside` (`Enter`, `UpdateEnters`), and `terminated` when the storage is freed
then (`UseFreed`, `LiveUpdateCall`). `FinishSerialize`, `ReadRegisters` and
`Restore` are the steps of the transfer; the data that is transferred is not
modelled. `teardown` follows `~ProgramInstance` and the destructors of the
members, in the order of their declaration reversed. `terminated` says what took
the process down: a handler removed before it was called, an event that was
moved while its handler was read, or a user inside the storage when a failed
initialization, which forking the last request VM may still cause, freed it.

### SelfRequest

`kvm_self_request` (`way` = "chain") and the fetch system call ("guest") share
`self_request_concurrency`. `parent` is the task whose self-request a task
serves: a chain's request ends only after the one it waits for, a guest's may
run out of time before. `refused` and `abandoned` count the two exits of
the system call that leave the counter wrong.

## Runs

- **`pool`**, 44,844 states, under fairness. Two requests, one updater, two programs
  (the first with two VMs, the second, which replaces it, with one that is
  ephemeral), forks and main VMs that may fail. `Exclusive`: a VM is with one
  request, or with its own thread to be reset, or in one queue, once. `NoLostVM`: a
  started VM is always in one of these places. `UsedIsAlive`: no destructor starts
  on a program that is current, that a request waits for or has a VM of, or one of
  whose VMs is to be reset. This is said by where the users are, not by who has a
  `shared_ptr`: it is true because the reference travels with the VM.
  `ImplementsExclusivePool`: the pool refines `ExclusivePool`. `VMsComeBack`: a
  reserved VM returns to the queue. `ReplacedIsDropped`: a replaced program loses
  its last reference.
- **`pool_destroyed`** shows that the stronger `ReplacedIsDestroyed` is false:
  when the reset task of a VM drops the last reference, `~ProgramInstance`
  runs on the thread it joins.
- **`chains`**, 43,360 states, under fairness. A fetch with two retries and a call
  of `to_string`, whose chains cross over one VM per tenant, break, re-use a VM and,
  in one case, wait for the VM they hold; any reply, and every allocation failing or
  not. `ReservedOnce`: each VM is idle or reserved once, and nobody frees what is
  not theirs. `OnlyCurrentAtCall`: a program is called while only its own VM is
  held, in a first attempt. `NothingHeldAfter`: every exit gives everything back,
  also what an earlier attempt left in `priv_task`. `UsersKeepReserved`: calls,
  transfers, copies and the delivery touch only VMs the task holds, but for the
  response of a program in the middle that breaks the chain, and a short one for
  which there was no room: their VM is freed. `RunsOwnProgram`: the VM called
  belongs to the tenant the chain names, except that a retry may run in the VM of
  the previous attempt. `EveryoneEnds`: those who wait for each other's VMs end.
- **`fetch_break`**: without these exceptions the property (`UsesReserved`) is false.
  The VM that breaks a chain is freed, then its buffers are delivered.
- **`fetch_reuse`**: `NothingHeldAfter` is false for a chain whose last two programs
  are the same and whose response is short: the early release calls
  `kvm_free_reserved_machine` without a context, and clears the pointer.
- **`tenant`**, 1,124,284 states. A request, a live update with its file, an
  unload with a following reload, and files that may be missing or broken, state
  transfers and writes that may fail. `ServedProgramWorks`: a request is handed a
  program whose main VM is up, and stays up. `OneWaiterAtFuture`: one thread at a
  time is at a program's `std::future`. `UpdateKeepsWorking`: an update never
  publishes a program that is not initialized. `OnlyEarlierLoads`: a load puts the
  program of the file, or nothing, in the place of an update only if it was under
  way when the update came into force.
- **`tenant_live`**, 42,882 states, under fairness. A fetched program that may fail
  at every stage, cached in its file, with a start beside the request.
  `LoadedOncePerUnload`: at most one load, and one more per unload.
  `NullIsTemporary`: a tenant without a program is about to get one or to allow
  another attempt. `EveryoneReturns`: no wait is forever. The `tenant` run leaves
  out two failures that break its invariants, as they break the code's: a
  `VMPoolItem` that cannot be constructed once requests are let in (the program is
  then marked as failed under their feet), and the second unlock of a fetched
  program.
- **`vm`**, 2,142,537 states. Fifteen kinds of VM: ephemeral ones that compile
  and free regexes, are sent bodies, stream, or are called twice in a chain, and
  lasting ones that run out of room for regexes, keep the area for bodies, or are
  in chains; called back and resumed; with and without a warm-up. `NoTraceLeft`: a
  queued VM carries nothing it should not. `RegexesAreSound`: in an ephemeral VM
  handles are valid and regexes are freed once, also when the cache is full.
  `ResumedAtPause`: a guest is resumed where it paused, but for the cases its
  comment lists (a failed warm-up, a body that a callback took, a second call of a
  VM that failed or is of an ephemeral group). `PostIsIntact`: in an ephemeral VM the
  body of a first call is whole where the guest is told it is, and off the guest's
  own memory. `BodyIsWhole`: Varnish stores the response in order, nothing twice, and
  all of it when the delivery ends, however buffers and room are cut; the assertion
  of `kvmfp_pull` holds, and that of the early copy fails for streamed responses only.
- **`storage`**, 165,355 states, under fairness. A request, the main VM and the
  storage VM as guests, timers up to the limit and beyond, a live update, an
  initialization that may fail, and the end of the program. `TimersAreConsistent`:
  a timer id is scheduled, free or with the worker, once; what is scheduled is
  valid, what is free is not, so that a stopped timer stays stopped.
  `StorageGoesLast`: a program that stays ready frees its storage when no timer,
  task, request or update uses it. `CallsReturn`, `TimersFire`: storage calls return and
  timers fire.
- **`storage_init`**: `InitializationEnds` is false. A storage call of the main
  VM during initialization waits for the thread that runs it.
- **`self_request`**, 19,172 states, under fairness. Three threads, a limit of
  two, chains and guests that call each other. `CountIsExact`: counter and cURL
  handles are right at every moment but for the two exits counted.
  `LimitHolds`: no more self-requests than the limit, and one more per refused
  guest. `Unravels`: everyone in a loop of self-requests returns.
- **`epoll`**, 81,372 states, under fairness. Two connections, two read buffers, one
  resumption that may fail, and a stop at any time. `BuffersIntact`: a read buffer
  is not filled again before the guest was resumed with it. `ExactlyOnce`: the guest
  gets the greeting, each unit in order, and the end last: once, until a resumption
  fails, whose events are handed over again. `DataArrives`, `ClosesConnections`:
  what a peer sends reaches the guest and a peer that left is noticed, although
  sockets are reported only once, unless a read stopped at its limit.
  `WritableIsTold`: a guest that could not write hears of room, although the loop
  skips `EPOLLOUT` after `EAGAIN` (it works because events with data carry the
  number that the guest takes for writable). `StopReturns`: `stop()` returns.

The models that run with `CHECK_DEADLOCK FALSE` may stop for good. An
exception that leaves the module or a thread (`TenantProgram`, `Storage`,
`SelfRequest`, `Epoll`) or a failed assertion (`VMUsers`, `RequestVM`) ends the process,
and a program that is destroyed, or a server that was stopped, does nothing more
(`Storage`, `Epoll`). `EveryoneReturns`, `CallsReturn`, `Unravels` and
`StopReturns` show that nobody waits for ever otherwise.

### Bounds

Two requests and one VM fewer than they ask for are enough for a VM to be
wanted, freed and reset at the same time; two programs for one to replace the
other while its VMs are out. Two tasks with crossed chains are the smallest
circle of waiting; three-item chains are the smallest with a re-used VM in the
middle. `MaxRetries` = 2 lets an attempt meet what two others left behind.
`MaxUpdates` and `MaxReloads` bound how often a tenant is updated and unloaded,
`Programs` how many instances exist at a time. A regex cache with room for two
meets full and empty places with three regexes. Bodies of up to two units
(`POST_BUFFER`) come in one segment or two, and `Top` = 5 leaves room for a body,
inputs and two areas of the guest. Responses of two or three units in two
buffers, with room for one or two in a pull (`MaxPull`), end inside and at the
end of buffers and pulls; the early copy (`EarlySize` = 3) takes the short one.
`MaxTimers` = 1 with a request
and the storage VM is the smallest case in which two guests pass the check
together; `QueueBound` = 2 lets a task wait behind another. `DriftBound` = 2
bounds the exits that leave the self-request counter wrong, after which no new
task begins. In `Epoll` three units on a connection are more than a buffer
(`BufSize` = 2, which is also the limit at which a read stops) and a greeting and
two reads more than the buffers there are (`Requested` = 2), so that flushes in
the middle of a batch and greetings without a buffer both happen; `MaxFails` = 1
resumption fails. The bounds matter least where a property is proved for all
values.

### Fairness

Weak fairness for every step of a thread except the arrival of a request, an
update, a start or an unload: VM calls carry `max_request_time`, queue waits
`max_queue_time`, initialization its own limit, and the reset tasks run on
threads with nothing else to do. In `TenantProgram` the acquisition of a mutex
is strongly fair, since other threads may take it in between; each holds it for
bounded time. In `Storage` a timer's turn (`Due`) is strongly fair: next
timeouts are absolute and periods are not zero, so that each one becomes the
first. So is `EnqueueTask`, as the bound on the queue, which the code does not
have, may disable it. In `SelfRequest` the end of a chain's request is strongly
fair: what it requests may make self-requests of its own, but not for ever. In
`Epoll` the thread is weakly fair (calls into the guest end by
`CALLBACK_TIMEOUT`), so is `stop()` once begun, and each ready source is reported
under strong fairness: the kernel's list of ready sources is served in turn.
Peers are never obliged to do anything.

## Proofs

Every theorem is for all values of the constants that satisfy the `ASSUME`s of
the modules, and for the specification the runs check (`Spec`, without fairness
where the runs add it). Where a theorem has a hypothesis, it names the cases the code
does not handle; they are the ones the runs exclude too.

### The pool (`VMPoolProofs`)

- `TypeCorrect`: `Spec => []TypeOK`
- `PoolIsExclusive`: `Spec => []Exclusive`
- `PoolConservesVMs`: `Spec => []NoLostVM /\ []FreeFindsProgram` (whoever frees a
  VM finds its program in `prog_ref`)
- `ProgramsOutliveUsers`: `Spec => []UsedIsAlive`
- `PoolKeepsPromise`: `Spec => ImplementsExclusivePool`

The constants satisfy `PoolAssumption` (the kinds of thread are disjoint, the null
values are none of the others, every VM has a program and a home node, every
program a first VM). None of the safety invariants is inductive by itself.
`Exclusive` does not say that a VM which is forked was nowhere before, nor
`NoLostVM` that one which is dequeued was in one queue only; `FreeFindsProgram`
needs both. The inductive invariant is `IInv`, the conjunction of

- `TypeOK`, in which the counts of a queue are natural numbers;
- `Pointers`: a request that waits holds its program, one that runs or frees
  has a slot, an updater at work has its new program;
- `Tokens`: `Exclusive`, `NoLostVM` and `FreeFindsProgram` together with
  `OnlyStarted` (what is queued, held or being reset was started, and what was
  started belongs to a program that is ready);
- `ReferencedIsAlive`: no destructor has started on a program that a `shared_ptr`
  points to.

The proof has one lemma per conjunct and in it one step per action. For
`Tokens` the argument is about one VM at a time (`SlotTokens`). `FromNowhere`,
`FromQueue`, `FromRequest` and `FromTask` say what is known of a VM found in one
of the four places, `InOneQueue`, `WithOneRequest` and `InOneTask` that a VM put
in one place alone is where it should be, and `Frame` that the other VMs are
undisturbed. `ReferencedIsAlive` rests on `AliveIfNoNewRefs`: a step that only
moves or drops references starts a destructor on nothing that is referenced.
`UsedIsAlive` follows with `FreeFindsProgram`: wherever a user is, a reference is.

The refinement maps a VM to its owner: nobody yet, a request, its reset, the
queue. `IInv` makes these cases exclusive (`OwnerKnown`); then every step of the
pool changes the owner of one VM as `ExclusivePool` allows, or of none.

### Fetches (`FetchProofs`)

- `FetchesReserveOnce`: `Spec => []ReservedOnce`
- `FetchesRunOwnProgram`: `Spec => []RunsOwnProgram`
- `FetchesKeepReserved`: `Spec => []KeepsReserved` (the part of fetches in
  `UsersKeepReserved`)
- `FetchesHoldOneAtCall`: `Spec => []OnlyCurrentAtCall`, if no chain ends in two
  programs of one tenant (`NoFinalReuse`)

`ReservedOnce` needs to know, of each fetch, which of its pointers frees what:
`PrivInv` (the method in `priv_task` frees a VM the fetch has, or never runs),
`LastInv` and `CurrentInv` (the VMs of the previous and of the current item are
the fetch's own, and not the one `priv_task` frees). A step of one fetch leaves
the others' pointers alone (`Others`). `Programs` adds where in the chain these
VMs come from, `Source` where a response is, `Exact` that there are no others.

### Fetches and to_string calls on the same VMs (`VMUsersProofs`)

- `UsersReserveOnce`: `UsersSpec => []ReservedOnce`
- `UsersRunOwnProgram`: `UsersSpec => []RunsOwnProgram`
- `UsersTouchReserved`: `UsersSpec => []UsersKeepReserved`
- `UsersHoldNothingAfter`: `UsersSpec => []NothingHeldAfter`

All need `FirstBreaksOnly` (only the first program of a `to_string` chain can break
it: a later break frees the VM before it twice), and the last `NoFinalReuse` as
well. `VMUsersProofs` extends `FetchProofs`: a step of a
`to_string` call leaves the pointers of fetches alone, and one of a fetch those of
the calls, so that the lemmas about fetches hold beside them. `StringInv` says what
a call holds: the VM of its current program, and of the previous one until its
result has been taken over.

### The tenant's program (`TenantProofs`)

- `LoadsAreBounded`: `Spec => []LoadedOncePerUnload`
- `UpdatesWork`: `Spec => UpdateKeepsWorking`
- `ServedProgramsWork`, `WaitersTakeTurns`: `Spec => []ServedProgramWorks` and
  `Spec => []OneWaiterAtFuture` under `OneVerdict`: the program is not fetched,
  and no VM after the first fails to fork
- `TenantsAreNotStuck`: `Spec => []NullIsTemporary` under `Loadable`: there is a
  file, and no update truncates it (there are none, they store nothing, or the
  program is fetched)
- `UpdatesYieldToEarlierLoads`: `Spec => []OnlyEarlierLoads`

The first two and the last hold whatever fails, with any number of starts, updates and
unloads at once. `IInv` says that `mtx_running_init` is held where it should be,
that the loads to come are accounted for (`LoadBudget`: `loads` alone does not
say whether another thread is about to add one), how the initialization, its
result and its future go together, and that a live update has its program for
itself until it publishes it. `WaitInv` adds that the waiter at a future holds
`mtx_future_init`. `NullInv` adds to `NullIsTemporary` that the file is whole: a load
that meets a truncated one throws, and leaves the tenant without a program and
without another attempt. `OvertakenInv` says that a thread
which is at a load while an update is in force was there before it, or is a start;
what keeps it is that `ref` turns away from a load when it finds a program.

### A request VM (`RequestVMProofs`)

- `NothingIsLeft`: `Spec => []NoTraceLeft`, if resets work and only ephemeral VMs
  stream
- `GuestsResumeAtPause`: `Spec => []ResumedAtPause`, if resets work, the VMs of an
  ephemeral group are ephemeral, and only ephemeral VMs stream
- `RegexesStaySound`: `Spec => []RegexesAreSound`
- `PostStaysIntact`: `Spec => []PostIsIntact`, if resets work
- `BodiesArriveWhole`: `Spec => []BodyIsWhole`, without a condition

Each has an invariant of its own. `TraceInv`: a trace is in a VM that is marked
for a reset or being reset. `PauseInv`: the guest is at its pause, or the next
resumption runs it there, or it will be reset. `RegexInv`: no regex is twice in
the cache, what is not empty is compiled, and no handle is to an empty entry; a
full cache without empty entries then has every regex in it, by counting.
`MemoryInv`: until the guest runs nothing but the body is mapped, and its area is
the last, so that what `mmap_relax` gives back is behind the body. `DeliveryInv`:
the buffers from the current one on are not empty and hold, one after the other,
exactly the units that are not copied, or stored, yet (`HoldRest`); what is in the
workspace are the first units of the response, in order.

### Storage and timers (`StorageProofs`)

- `TimersStayConsistent`: `Spec => []TimersAreConsistent`
- `StorageIsFreedLast`: `Spec => []StorageGoesLast`

`TimerInv` restates `TimersAreConsistent` without sizes of sets, and adds that the
worker has a timer exactly when it does not wait. `EndInv` orders the end: the
thread of the timers before the queue, the queue before the storage; the
initialization is first in the queue and never comes back; `NobodyInside` adds that
requests and updates, which keep the program alive, are out by then.

### Self-requests and the epoll server

- `SelfRequestProofs`: `Spec => []CountIsExact` and `Spec => []LimitHolds`, for any
  finite set of tasks and any limit. `AdmittedHold` extends the limit to the
  tasks that passed it and have not begun.
- `EpollProofs`: `Spec => []BuffersIntact` and `Spec => []ExactlyOnce`, for any
  connections, buffers and batches, without a condition. `IInv` adds to the first
  that the events in the queue point below `m_current_read_buffer` and that reads
  are of connections. `OInv` says the second of the events themselves (`InOrder`),
  which the first makes true of the buffers, and adds `OpenInv`: what epoll
  reports is open and once in a batch, so that nothing is read of a connection
  whose end is queued.

### Only model-checked

Liveness, which is outside the prover's reach. Every invariant of a run that passes
is proved, some under the conditions that are named with the theorems
(`OnlyCurrentAtCall` of fetches without `to_string` calls beside them).

## Where code and comments disagree

The four runs that end in a violation are described under `findings` in
`PROJECT.json` with the line they contradict. Others were met while modelling.
They are excluded from the passing runs by the constants named, or stated as the
exception in a property, and listed under `hazards` with a note:

- a chain that ends in two programs of one tenant loses its VM at the early release
  (`fetch_reuse`), and a retry of it overwrites `priv_task`; a retry may run
  another tenant's VM;
- the assertion of the early copy fails for a short response that is streamed;
- `to_string` frees a VM twice when a program after the first breaks the chain;
- the early release without a copy, and the unfreed response of a self-request;
- a VM that is not ephemeral returns handles to regexes it has freed, and keeps
  an area for bodies whose end `mmap_relax` gave away;
- streaming failures and failed resets leave traces;
- a warm-up that fails is only logged: VMs are forked from a main VM that
  stopped in the middle of a request;
- a streaming guest that delivers more than it announced never reaches the end;
- a load that is under way overwrites a live update, as does a start of a tenant
  that was updated before it was loaded, requests are denied during an unload,
  exceptions of a reload reach Varnish;
- the program's file is truncated in place while a load may be reading it; an update
  is answered as "stored" without a file name, and when only `fclose` fails; a
  fetched program is written "Only a cached binary" (`program_instance.cpp:205`) and
  then mapped from the file even if that failed; a
  dynamically linked program is started from the file, not from the update;
- a timer removed, or moved by the vector of events, just before its handler is
  called ends the process; a failed initialization frees the storage under its
  timers, and under requests and updates when it fails at the last VMs; the limit on
  timers counts every id ever used at a time, so that a program that once had as
  many cannot add one again;
- the storage queue is "Serialized access" (`program_instance.hpp:165`), but a live
  update reads the registers of the storage VM outside it, and its memory later, when
  other calls may have run;
- a guest that pauses and is called for a body or a streamed response, and a VM of an
  ephemeral group that a chain calls again, are not resumed where they paused;
- a refused guest is taken off the self-request counter twice, one whose cURL
  options fail never;
- the epoll server stops reading a connection after 1 MB, and is not told of the
  rest; a greeting without a buffer, or a resumption that fails at the end of a batch,
  ends the process;
- `kvm_api.h:705-710` and `docs/tcp.md:56` give events with data as `SOCKET_READ`,
  while `fd_readable` sends them as `SOCKET_WRITABLE` (2, `epoll.cpp:382`); and a write
  that would block leaves the event's `fd` as it was (`epoll.cpp:463`), where a result
  is expected.

## Not modelled

- Building a chain from VCL (`kvm_backend.c`), and what comes from the
  configuration (`tenant.cpp`): groups, inheritance, limits. Both happen before
  the state modelled here exists; chains and settings are constants.
- Two live updates at once in the runs (the theorems about updates cover them), and
  which program is in the file.
- The storage transfer of a live update is in `Storage` in detail, and in
  `TenantProgram` as a step that may throw.
- Live debugging (`live_debug`), which follows the code of a live update.
- The websocket server, most of which is commented out or inside a library.
- HTTP, logging and file system calls of guests, which keep no state of their own;
  archives and downloads; statistics and debugging output; `async_call.cpp`,
  which is not compiled.

The hypervisor library (tinykvm) and Varnish are external: threads of a VM, guest
memory, the workspace and `priv_task` are modelled as this code uses them, and so
are the kernel's sockets and epoll.

---------------------------- MODULE TenantProgram ----------------------------
(***************************************************************************)
(* The program of a tenant: how it is first loaded, replaced by a live     *)
(* update, unloaded, and handed to the requests that ask for it.           *)
(*                                                                         *)
(* A TenantInstance points to a ProgramInstance or to nothing.  The first  *)
(* request that finds nothing loads the program, under mtx_running_init;   *)
(* the program initializes itself on a thread of its own while             *)
(* mtx_future_init keeps requests waiting.  A live update initializes a    *)
(* second program, swaps it in and stores it to the tenant's file, which a *)
(* program that is fetched is cached in, too.                              *)
(* Unloading makes the pointer null again so that the next request loads   *)
(* the file anew.                                                          *)
(***************************************************************************)
EXTENDS Integers

CONSTANTS
    Requests,     \* requests that reserve a VM of the tenant
    Starters,     \* threads that start the program without waiting for it
    Updaters,     \* requests that live-update the tenant
    Reloaders,    \* requests that unload the program
    Programs,     \* memory for ProgramInstances
    NoProgram, Nobody,
    FromURI,      \* the program is fetched with cURL, not read from a file
    FileName,     \* of the configuration: an absolute "path", "other", or "empty"
    HasStorage,   \* the program has a storage VM
    Failures,     \* the stages at which loading a program may fail
    MaxUpdates, MaxReloads    \* bounds on the updates and the unloads

Threads == Requests \cup Starters \cup Updaters \cup Reloaders

ASSUME TenantAssumption ==
    /\ NoProgram \notin Programs /\ Nobody \notin Threads
    /\ "init" \notin Threads \cup {Nobody}
    /\ Updaters \cap (Requests \cup Starters \cup Reloaders) = {}
    /\ FromURI \in BOOLEAN /\ HasStorage \in BOOLEAN /\ FileName \in {"path", "other", "empty"}
    /\ Failures \subseteq {"load", "fetch", "boot", "fork", "transfer", "write"}
    /\ MaxUpdates \in Nat /\ MaxReloads \in Nat

VARIABLES
    program,                     \* the tenant's program
    m_started_init,
    mtx_running_init,            \* the thread that holds it
    mtx_future_init,             \* per program: its holder
    m_future,                    \* per program: the initialization's future
    m_initialization_complete,   \* per program: 0, 1, or -1 for a failure
    init_pc,                     \* per program: where its initialization is
    live_updates,                \* per program: the statistic
    origin,                      \* per program: a live update or a load
    pc,
    prog,                        \* the reference a thread holds
    old_prog,                    \* the program a thread replaces
    terminated,                  \* an exception left the VMOD, or a bus error
    loads, updates, reloads,     \* how many of each there were
    file,                        \* "whole", or "torn": truncated or partly written
    mapped,                      \* per program: it is to boot from a mapping of the
                                 \* file ("whole", "torn"), or from memory ("no")
    overtaken                    \* (history) the threads that were on the way to
                                 \* a load when the last update came into force

instVars == <<mtx_future_init, m_future, m_initialization_complete, init_pc>>
counts   == <<loads, updates, reloads>>
disk     == <<file, mapped>>
rest     == <<counts, disk, overtaken>>
vars == <<program, m_started_init, mtx_running_init, instVars, live_updates,
          origin, pc, prog, old_prog, terminated, rest>>

References == Programs \cup {NoProgram}

\* Where a thread can be.
Labels == {"idle", "load", "lock", "check", "begin", "construct", "store", "unlock",
           "load again", "wait", "get", "main vm", "use", "current", "swap",
           "truncate", "write", "null", "reset"}

TypeOK ==
    /\ program \in References
    /\ m_started_init \in BOOLEAN
    /\ mtx_running_init \in Threads \cup {Nobody}
    /\ mtx_future_init \in [Programs -> Threads \cup {Nobody, "init"}]
    /\ m_future \in [Programs -> {"running", "ok", "failed", "invalid"}]
    /\ m_initialization_complete \in [Programs -> {-1, 0, 1}]
    /\ init_pc \in [Programs -> {"done", "fetch", "save", "write", "boot", "rest", "throw", "again"}]
    /\ live_updates \in [Programs -> 0..MaxUpdates]
    /\ origin \in [Programs -> {"load", "update"}]
    /\ pc \in [Threads -> Labels]
    /\ prog \in [Threads -> References]
    /\ old_prog \in [Threads -> References]
    /\ terminated \in BOOLEAN
    /\ {loads, updates, reloads} \subseteq Nat
    /\ file \in {"whole", "torn"} /\ mapped \in [Programs -> {"no", "whole", "torn"}]
    /\ overtaken \subseteq Threads

Init ==
    /\ program = NoProgram
    /\ m_started_init = FALSE
    /\ mtx_running_init = Nobody
    /\ mtx_future_init = [p \in Programs |-> Nobody]
    /\ m_future = [p \in Programs |-> "invalid"]
    /\ m_initialization_complete = [p \in Programs |-> 0]
    /\ init_pc = [p \in Programs |-> "done"]
    /\ live_updates = [p \in Programs |-> 0]
    /\ origin = [p \in Programs |-> "load"]
    /\ pc = [x \in Threads |-> "idle"]
    /\ prog = [x \in Threads |-> NoProgram]
    /\ old_prog = [x \in Threads |-> NoProgram]
    /\ terminated = FALSE
    /\ loads = 0 /\ updates = 0 /\ reloads = 0
    /\ file = "whole" /\ mapped = [p \in Programs |-> "no"]
    /\ overtaken = {}

-----------------------------------------------------------------------------
(* ProgramInstance. *)

\* A program is destroyed when nothing points to it and it has initialized.
InUse(p) ==
    \/ p = program \/ init_pc[p] # "done"
    \/ \E x \in Threads : p \in {prog[x], old_prog[x]}

\* Where the next ProgramInstance is allocated.
Fresh ==
    LET Free == {p \in Programs : ~InUse(p)}
    IN  IF Free = {} THEN {} ELSE {CHOOSE p \in Free : TRUE}

\* The constructors lock the mutex and leave the work to the storage queue.
\* What is loaded from the file is mapped by then.
Construct(p, kind) ==
    /\ mtx_future_init' = [mtx_future_init EXCEPT ![p] = "init"]
    /\ m_future' = [m_future EXCEPT ![p] = "running"]
    /\ m_initialization_complete' =
          [m_initialization_complete EXCEPT ![p] = 0]
    /\ init_pc' = [init_pc EXCEPT ![p] = IF kind = "load" /\ FromURI THEN "fetch" ELSE "boot"]
    /\ live_updates' = [live_updates EXCEPT ![p] = 0]
    /\ origin' = [origin EXCEPT ![p] = kind]
    /\ mapped' = [mapped EXCEPT ![p] = IF kind = "load" /\ ~FromURI THEN file ELSE "no"]

unlock_and_initialized(p, complete) ==
    /\ m_initialization_complete' =
          [m_initialization_complete EXCEPT ![p] = complete]
    /\ mtx_future_init' = [mtx_future_init EXCEPT ![p] = Nobody]

programVars == <<program, m_started_init, mtx_running_init, live_updates,
                 origin, pc, prog, old_prog>>
tenantVars  == <<programVars, terminated, rest>>

\* file_writer opens the file, which truncates it under whoever maps it.
Open ==
    /\ file' = "torn"
    /\ mapped' = [q \in Programs |-> IF mapped[q] = "no" THEN "no" ELSE "torn"]

fetchRest == <<mtx_future_init, m_future, m_initialization_complete, programVars, terminated,
               counts, overtaken>>

\* cURL reports 304: the program is mapped from the file.
FetchCached(p) ==
    /\ init_pc[p] = "fetch" /\ FileName # "empty"
    /\ init_pc' = [init_pc EXCEPT ![p] = "boot"]
    /\ mapped' = [mapped EXCEPT ![p] = file]
    /\ UNCHANGED <<file, fetchRest>>

\* It reports 200, and the program goes to the file if there is a name for it.
FetchNew(p) ==
    /\ init_pc[p] = "fetch"
    /\ init_pc' = [init_pc EXCEPT ![p] = IF FileName # "empty" THEN "save" ELSE "boot"]
    /\ UNCHANGED <<disk, fetchRest>>

SaveOpens(p) ==
    /\ init_pc[p] = "save"
    /\ init_pc' = [init_pc EXCEPT ![p] = "write"]
    /\ Open
    /\ UNCHANGED fetchRest

\* Whether or not it could be opened and written, the program is mapped from
\* the file again.
SaveEnds(p) ==
    /\ \/ init_pc[p] = "write" /\ file' = "whole"
       \/ init_pc[p] \in {"save", "write"} /\ "write" \in Failures /\ UNCHANGED file
    /\ init_pc' = [init_pc EXCEPT ![p] = "boot"]
    /\ mapped' = [mapped EXCEPT ![p] = file']
    /\ UNCHANGED fetchRest

\* The program is read and run, and the first request VM is up: requests are
\* let in.
InitFirstVM(p) ==
    /\ init_pc[p] = "boot"
    /\ mapped' = [mapped EXCEPT ![p] = "no"]
    /\ unlock_and_initialized(p, 1)
    /\ init_pc' = [init_pc EXCEPT ![p] = "rest"]
    /\ UNCHANGED <<m_future, programVars, terminated, counts, file, overtaken>>

\* The mapping is longer than the file.
BusError(p) ==
    /\ init_pc[p] = "boot" /\ mapped[p] = "torn"
    /\ terminated' = TRUE
    /\ UNCHANGED <<instVars, programVars, rest>>

\* The other request VMs are up as well.
InitDone(p) ==
    /\ init_pc[p] = "rest"
    /\ m_future' = [m_future EXCEPT ![p] = "ok"]
    /\ init_pc' = [init_pc EXCEPT ![p] = "done"]
    /\ UNCHANGED <<mtx_future_init, m_initialization_complete, tenantVars>>

Fetched(p) == FromURI /\ origin[p] = "load"

\* The fetch fails, or mapping the file does, and the initialization with it.
InitFetchFails(p) ==
    /\ \/ init_pc[p] = "fetch" /\ "fetch" \in Failures
       \/ init_pc[p] \in {"fetch", "save", "write"} /\ FileName # "empty" /\ file = "torn"
    /\ unlock_and_initialized(p, -1)
    /\ init_pc' = [init_pc EXCEPT ![p] = "throw"]
    /\ UNCHANGED <<m_future, tenantVars>>

\* (bug) A failed initialization keeps the mutex locked.
InitFailsLocked(p) ==
    /\ init_pc[p] = "boot" /\ "boot" \in Failures
    /\ m_initialization_complete' =
          [m_initialization_complete EXCEPT ![p] = -1]
    /\ init_pc' = [init_pc EXCEPT ![p] = "throw"]
    /\ UNCHANGED <<mtx_future_init, m_future, tenantVars>>

\* begin_initialization throws, before or after the first VM is up.
InitFails(p) ==
    /\ \/ init_pc[p] = "boot" /\ ("boot" \in Failures \/ mapped[p] = "torn")
       \/ init_pc[p] = "rest" /\ "fork" \in Failures
    /\ unlock_and_initialized(p, -1)
    /\ init_pc' = [init_pc EXCEPT ![p] = IF Fetched(p) THEN "again" ELSE "throw"]
    /\ UNCHANGED <<m_future, tenantVars>>

\* The handler of a fetched program unlocks the mutex once more.
InitFailsAgain(p) ==
    /\ init_pc[p] = "again"
    /\ unlock_and_initialized(p, -1)
    /\ init_pc' = [init_pc EXCEPT ![p] = "throw"]
    /\ UNCHANGED <<m_future, tenantVars>>

\* The task ends.  Its future has the error, or, of a fetched program, a code
\* that lets the waiter throw when it finds no main VM.
InitThrows(p) ==
    /\ init_pc[p] = "throw"
    /\ m_future' = [m_future EXCEPT ![p] = "failed"]
    /\ init_pc' = [init_pc EXCEPT ![p] = "done"]
    /\ UNCHANGED <<mtx_future_init, m_initialization_complete, tenantVars>>

Initialize(p) ==
    \/ FetchCached(p) \/ FetchNew(p) \/ SaveOpens(p) \/ SaveEnds(p) \/ InitFetchFails(p)
    \/ InitFirstVM(p) \/ BusError(p) \/ InitDone(p)
    \/ InitFails(p) \/ InitFailsAgain(p) \/ InitThrows(p)

-----------------------------------------------------------------------------
(* TenantInstance: taking a reference, loading the program if need be.     *)

Goto(x, l) == pc' = [pc EXCEPT ![x] = l]

tenantRest == <<program, m_started_init, mtx_running_init, live_updates,
                origin, prog, old_prog, terminated, rest>>

\* A thread returns, and drops its references.
Return(x) ==
    /\ Goto(x, "idle")
    /\ prog' = [prog EXCEPT ![x] = NoProgram]
    /\ old_prog' = [old_prog EXCEPT ![x] = NoProgram]

\* A request asks for the program, or VCL starts it.
Begin(x) ==
    /\ pc[x] = "idle" /\ x \in Requests \cup Starters
    /\ Goto(x, IF x \in Requests THEN "load" ELSE "lock")
    /\ UNCHANGED <<program, m_started_init, mtx_running_init, instVars,
                   live_updates, origin, prog, old_prog, terminated, rest>>

\* (bug) The program that is there is not looked at.
LoadAlways(x) ==
    /\ pc[x] = "load"
    /\ prog' = [prog EXCEPT ![x] = program]
    /\ overtaken' = overtaken \ {x}
    /\ Goto(x, "lock")
    /\ UNCHANGED <<program, m_started_init, mtx_running_init, instVars,
                   live_updates, origin, old_prog, terminated, counts, disk>>

\* ref: the program, if there is one.
Load(x) ==
    /\ pc[x] = "load"
    /\ prog' = [prog EXCEPT ![x] = program]
    /\ overtaken' = overtaken \ {x}
    /\ Goto(x, IF program = NoProgram THEN "lock" ELSE "main vm")
    /\ UNCHANGED <<program, m_started_init, mtx_running_init, instVars,
                   live_updates, origin, old_prog, terminated, counts, disk>>

threadVars == <<program, instVars, live_updates, origin, prog, old_prog,
                terminated, rest>>

\* begin_async_initialize: "Block other requests from trying to initialize."
Lock(x) ==
    /\ pc[x] = "lock" /\ mtx_running_init = Nobody
    /\ mtx_running_init' = x
    /\ Goto(x, "check")
    /\ UNCHANGED <<m_started_init, threadVars>>

Check(x) ==
    /\ pc[x] = "check"
    /\ Goto(x, IF m_started_init THEN "unlock" ELSE "begin")
    /\ UNCHANGED <<m_started_init, mtx_running_init, threadVars>>

\* (bug) The attempt is not recorded.
BeginInitializeForgets(x) ==
    /\ pc[x] = "begin"
    /\ Goto(x, IF m_started_init THEN "unlock" ELSE "construct")
    /\ UNCHANGED <<m_started_init, mtx_running_init, threadVars>>

\* begin_initialize: one attempt only.
BeginInitialize(x) ==
    /\ pc[x] = "begin"
    /\ m_started_init' = TRUE
    /\ Goto(x, IF m_started_init THEN "unlock" ELSE "construct")
    /\ UNCHANGED <<mtx_running_init, threadVars>>

LoadProgram(x, p) ==
    /\ pc[x] = "construct"
    /\ Construct(p, "load")
    /\ prog' = [prog EXCEPT ![x] = p]
    /\ loads' = loads + 1
    /\ Goto(x, "store")
    /\ UNCHANGED <<program, m_started_init, mtx_running_init, old_prog,
                   terminated, updates, reloads, file, overtaken>>

\* There is no file to load.
NothingToLoad(x) ==
    /\ pc[x] = "construct" /\ "load" \in Failures
    /\ Goto(x, "unlock")
    /\ UNCHANGED <<m_started_init, mtx_running_init, threadVars>>

\* Mapping the file throws, as that of an empty one does: handle_exception.
LoadThrows(x) ==
    /\ pc[x] = "construct" /\ ("load" \in Failures \/ (~FromURI /\ file = "torn"))
    /\ program' = NoProgram
    /\ Goto(x, "unlock")
    /\ UNCHANGED <<m_started_init, mtx_running_init, instVars, live_updates,
                   origin, prog, old_prog, terminated, rest>>

\* The program is published while it still initializes.
Store(x) ==
    /\ pc[x] = "store"
    /\ program' = prog[x]
    /\ prog' = [prog EXCEPT ![x] = NoProgram]
    /\ Goto(x, "unlock")
    /\ UNCHANGED <<m_started_init, mtx_running_init, instVars, live_updates,
                   origin, old_prog, terminated, rest>>

Unlock(x) ==
    /\ pc[x] = "unlock"
    /\ mtx_running_init' = Nobody
    /\ Goto(x, IF x \in Starters THEN "idle" ELSE "load again")
    /\ UNCHANGED <<m_started_init, threadVars>>

\* TenantInstance::wait_for_initialization, with a program to wait for.
LoadAgain(x) ==
    /\ pc[x] = "load again" /\ program # NoProgram
    /\ prog' = [prog EXCEPT ![x] = program]
    /\ Goto(x, "wait")
    /\ UNCHANGED <<program, m_started_init, mtx_running_init, instVars,
                   live_updates, origin, old_prog, terminated, rest>>

\* There is none: "Missing program".
Missing(x) ==
    /\ pc[x] = "load again" /\ program = NoProgram
    /\ Return(x)
    /\ UNCHANGED <<program, m_started_init, mtx_running_init, instVars,
                   live_updates, origin, terminated, rest>>

\* (bug) The future is used without the mutex.
WaitUnlocked(x) ==
    /\ pc[x] = "wait"
    /\ Goto(x, "get")
    /\ UNCHANGED <<instVars, tenantRest>>

\* ProgramInstance::wait_for_initialization.
Wait(x) ==
    /\ pc[x] = "wait" /\ mtx_future_init[prog[x]] = Nobody
    /\ mtx_future_init' = [mtx_future_init EXCEPT ![prog[x]] = x]
    /\ Goto(x, "get")
    /\ UNCHANGED <<m_future, m_initialization_complete, init_pc, tenantRest>>

\* The mutex is held until the future is ready; the first waiter takes it.
TakeFuture(x) ==
    /\ pc[x] = "get" /\ m_future[prog[x]] # "running"
    /\ mtx_future_init' = [mtx_future_init EXCEPT ![prog[x]] = Nobody]
    /\ m_future' = [m_future EXCEPT ![prog[x]] = "invalid"]

Get(x) ==
    /\ TakeFuture(x)
    /\ m_future[prog[x]] \in {"ok", "invalid"}
    /\ Goto(x, IF x \in Updaters THEN "current" ELSE "main vm")
    /\ UNCHANGED <<m_initialization_complete, init_pc, tenantRest>>

\* The future throws.  vmreserve and kvm_live_update catch the exception, the
\* functions that unload a program do not.
GetThrows(x) ==
    /\ TakeFuture(x)
    /\ m_future[prog[x]] = "failed"
    /\ Return(x)
    /\ terminated' = (x \in Reloaders)
    /\ UNCHANGED <<m_initialization_complete, init_pc, program,
                   m_started_init, mtx_running_init, live_updates, origin,
                   rest>>

\* (bug) Any finished initialization counts as a success.
wait_for_main_vm_unchecked(x) ==
    /\ pc[x] = "main vm"
    /\ \/ m_initialization_complete[prog[x]] # 0
       \/ mtx_future_init[prog[x]] = Nobody
    /\ Goto(x, "use")
    /\ UNCHANGED <<instVars, tenantRest>>

\* Wait until the program takes requests.
wait_for_main_vm(x) ==
    /\ pc[x] = "main vm"
    /\ \/ m_initialization_complete[prog[x]] # 0
       \/ mtx_future_init[prog[x]] = Nobody
    /\ IF m_initialization_complete[prog[x]] > 0
       THEN Goto(x, "use") /\ UNCHANGED <<prog, old_prog>>
       ELSE Return(x)
    /\ UNCHANGED <<instVars, program, m_started_init, mtx_running_init,
                   live_updates, origin, terminated, rest>>

\* The request ends.  (VMPool models what happens in between.)
Release(x) ==
    /\ pc[x] = "use" /\ x \in Requests
    /\ Return(x)
    /\ UNCHANGED <<instVars, program, m_started_init, mtx_running_init,
                   live_updates, origin, terminated, rest>>

-----------------------------------------------------------------------------
(* Live update. *)

\* (bug) The new program is committed while it initializes.
UpdateWithoutWait(x, p) ==
    /\ pc[x] = "idle" /\ x \in Updaters /\ updates < MaxUpdates
    /\ Construct(p, "update")
    /\ prog' = [prog EXCEPT ![x] = p]
    /\ updates' = updates + 1
    /\ Goto(x, "current")
    /\ UNCHANGED <<program, m_started_init, mtx_running_init, old_prog,
                   terminated, loads, reloads, file, overtaken>>

\* kvm_updater_be_gethdrs and vmod_live_update_file: the program is too large,
\* is empty or cannot be read, or there is no workspace.
Refuse(x) ==
    /\ pc[x] = "idle" /\ x \in Updaters /\ updates < MaxUpdates
    /\ updates' = updates + 1
    /\ UNCHANGED <<instVars, programVars, terminated, loads, reloads, disk, overtaken>>

\* kvm_live_update: initialize the new program on the side.
Update(x, p) ==
    /\ pc[x] = "idle" /\ x \in Updaters /\ updates < MaxUpdates
    /\ Construct(p, "update")
    /\ prog' = [prog EXCEPT ![x] = p]
    /\ updates' = updates + 1
    /\ Goto(x, "wait")
    /\ UNCHANGED <<program, m_started_init, mtx_running_init, old_prog,
                   terminated, loads, reloads, file, overtaken>>

\* commit_program_live: the current program's state and count are carried over.
Current(x) ==
    /\ pc[x] = "current"
    /\ old_prog' = [old_prog EXCEPT ![x] = program]
    /\ live_updates' = [live_updates EXCEPT ![prog[x]] =
          IF program = NoProgram THEN @ ELSE live_updates[program] + 1]
    /\ Goto(x, "swap")
    /\ UNCHANGED <<instVars, program, m_started_init, mtx_running_init,
                   origin, prog, terminated, rest>>

\* The transfer of the state throws, and the update fails.
TransferThrows(x) ==
    /\ pc[x] = "current" /\ program # NoProgram /\ "transfer" \in Failures
    /\ Return(x)
    /\ UNCHANGED <<instVars, program, m_started_init, mtx_running_init,
                   live_updates, origin, terminated, rest>>

\* The threads that found no program are on their way to load it.
Loading == {"lock", "check", "begin", "construct", "store"}

\* The old program is let go, and the new one is stored if the file name is an
\* absolute path.  (With no file name the answer is "stored" all the same.)
Swap(x) ==
    /\ pc[x] = "swap"
    /\ program' = prog[x]
    /\ overtaken' = {y \in Threads : pc[y] \in Loading}
    /\ IF FileName # "path" THEN Return(x)
       ELSE /\ Goto(x, "truncate")
            /\ old_prog' = [old_prog EXCEPT ![x] = NoProgram]
            /\ UNCHANGED prog
    /\ UNCHANGED <<instVars, m_started_init, mtx_running_init, live_updates,
                   origin, terminated, counts, disk>>

Truncate(x) ==
    /\ pc[x] = "truncate"
    /\ Open
    /\ Goto(x, "write")
    /\ UNCHANGED <<instVars, program, m_started_init, mtx_running_init, live_updates,
                   origin, prog, old_prog, terminated, counts, overtaken>>

\* The answer is "stored" when fwrite took all of the program: it may still not
\* be in the file, as the result of fclose is ignored, or not alone when another
\* update writes at the same time.
Write(x) ==
    /\ pc[x] = "write"
    /\ Return(x)
    /\ file' \in {"whole"} \cup (IF "write" \in Failures THEN {"torn"} ELSE {})
    /\ UNCHANGED <<instVars, program, m_started_init, mtx_running_init, live_updates,
                   origin, terminated, counts, mapped, overtaken>>

\* The file cannot be opened.
WriteFails(x) ==
    /\ pc[x] = "truncate" /\ "write" \in Failures
    /\ Return(x)
    /\ UNCHANGED <<instVars, program, m_started_init, mtx_running_init, live_updates,
                   origin, terminated, rest>>

-----------------------------------------------------------------------------
(* Unloading: reload_program_live. *)

Unload(x) ==
    /\ pc[x] = "idle" /\ x \in Reloaders /\ reloads < MaxReloads
    /\ old_prog' = [old_prog EXCEPT ![x] = program]
    /\ Goto(x, "null")
    /\ UNCHANGED <<instVars, program, m_started_init, mtx_running_init,
                   live_updates, origin, prog, terminated, rest>>

MakeNull(x) ==
    /\ pc[x] = "null"
    /\ program' = NoProgram
    /\ Goto(x, "reset")
    /\ UNCHANGED <<instVars, m_started_init, mtx_running_init, live_updates,
                   origin, prog, old_prog, terminated, rest>>

\* (bug) Nothing is done when there was no program to unload.
ResetUnlessNull(x) ==
    /\ pc[x] = "reset"
    /\ m_started_init' = (m_started_init /\ old_prog[x] = NoProgram)
    /\ reloads' = reloads + 1
    /\ IF \/ old_prog[x] = NoProgram \/ ~HasStorage
          \/ m_initialization_complete[old_prog[x]] < 0
       THEN Return(x)
       ELSE Goto(x, "load") /\ UNCHANGED <<prog, old_prog>>
    /\ UNCHANGED <<instVars, program, mtx_running_init, live_updates, origin,
                   terminated, loads, updates, disk, overtaken>>

\* The program may be loaded again, and is at once if there is state to move.
ResetStarted(x) ==
    /\ pc[x] = "reset"
    /\ m_started_init' = FALSE
    /\ reloads' = reloads + 1
    /\ IF \/ old_prog[x] = NoProgram \/ ~HasStorage
          \/ m_initialization_complete[old_prog[x]] < 0
       THEN Return(x)
       ELSE Goto(x, "load") /\ UNCHANGED <<prog, old_prog>>
    /\ UNCHANGED <<instVars, program, mtx_running_init, live_updates, origin,
                   terminated, loads, updates, disk, overtaken>>

\* serialize_storage_state; nothing catches its exceptions here.
Reloaded(x) ==
    /\ pc[x] = "use" /\ x \in Reloaders
    /\ Return(x)
    /\ terminated' \in IF "transfer" \in Failures THEN BOOLEAN ELSE {FALSE}
    /\ UNCHANGED <<instVars, program, m_started_init, mtx_running_init,
                   live_updates, origin, rest>>

-----------------------------------------------------------------------------
Step(x) ==
    \/ Load(x) \/ Check(x) \/ BeginInitialize(x) \/ NothingToLoad(x)
    \/ LoadThrows(x) \/ Store(x) \/ Unlock(x) \/ LoadAgain(x) \/ Missing(x)
    \/ Get(x) \/ GetThrows(x) \/ Release(x) \/ Current(x) \/ TransferThrows(x)
    \/ Swap(x) \/ Truncate(x) \/ Write(x) \/ WriteFails(x) \/ MakeNull(x) \/ ResetStarted(x) \/ Reloaded(x)
    \/ \E p \in Fresh : LoadProgram(x, p)

\* The steps that wait for a mutex.
Acquire(x) == Lock(x) \/ Wait(x) \/ wait_for_main_vm(x)

Arrive(x) == Begin(x) \/ Refuse(x) \/ Unload(x) \/ \E p \in Fresh : Update(x, p)

Next ==
    /\ ~terminated
    /\ \/ \E x \in Threads : Arrive(x) \/ Acquire(x) \/ Step(x)
       \/ \E p \in Programs : Initialize(p)

Spec == Init /\ [][Next]_vars

\* Threads run, initialization ends within its time limit, and a mutex that
\* keeps being released is obtained in the end.
FairSpec ==
    /\ Spec
    /\ \A x \in Threads : WF_vars(~terminated /\ Step(x)) /\ SF_vars(~terminated /\ Acquire(x))
    /\ \A p \in Programs : WF_vars(~terminated /\ Initialize(p))

-----------------------------------------------------------------------------
(* Properties. *)

\* What ref returns has a main VM that takes requests, for as long as the
\* request uses it ("Returns false if the main_vm failed to initialize").
ServedProgramWorks ==
    \A x \in Requests :
        pc[x] = "use" => m_initialization_complete[prog[x]] = 1

\* The future of an initialization is in the hands of one waiter at a time:
\* std::future::get may be called once, by whoever finds it valid.
OneWaiterAtFuture ==
    \A x, y \in Threads :
        pc[x] = "get" /\ pc[y] = "get" /\ prog[x] = prog[y] => x = y

\* However requests, starts and unloads interleave, the program is loaded at
\* most once, and once more for each time it was unloaded.
LoadedOncePerUnload == loads <= 1 + reloads

\* A tenant never gets stuck without a program: when there is none although a
\* load was attempted, a thread is about to publish one or to allow another
\* attempt.  (When the program can be loaded at all.)
NullIsTemporary ==
    program = NoProgram /\ m_started_init =>
        \/ "load" \in Failures
        \/ \E x \in Threads : pc[x] \in {"construct", "store", "reset"}

\* "If the program fails to load, the old program will be kept": a live update
\* never puts in place a program that is not, or could not be, initialized.
UpdateKeepsWorking ==
    [][(program' # program /\ program' # NoProgram
          /\ origin[program'] = "update")
        => m_initialization_complete[program'] = 1]_program

\* A load takes a live update away, putting the program of the file over it or
\* nothing when it fails, only if it was under way when the update came into
\* force: begin_initialize does not look at what it replaces, so all depends on
\* ref's not going there while there is a program.  (A start does: one of a
\* tenant that was updated before it was ever loaded.)
OnlyEarlierLoads ==
    \A x \in Threads \ Starters :
        pc[x] \in {"construct", "store"} /\ program # NoProgram /\ origin[program] = "update"
            => x \in overtaken

\* Whoever asks for the program, updates or unloads it gets an answer: no wait
\* on the mutexes or on the initialization lasts forever.  (Unless an
\* exception that reload_program_live lets through takes Varnish down.)
EveryoneReturns ==
    \A x \in Threads : pc[x] # "idle" ~> pc[x] = "idle" \/ terminated

=============================================================================

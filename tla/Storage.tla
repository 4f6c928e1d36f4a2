------------------------------- MODULE Storage -------------------------------
(***************************************************************************)
(* The storage VM of a program, and everything that reaches it: the calls  *)
(* of request VMs, tasks, the timers that make tasks, the transfer of its  *)
(* state to the next program, and the end of the program.  All of them     *)
(* go through the program's storage queue, which has one thread; the       *)
(* program is initialized on that thread as well, and frees the storage    *)
(* when that fails, under whoever is using it.                             *)
(***************************************************************************)
EXTENDS Timers

CONSTANTS
    Requests,               \* the request VMs whose guests use storage
    MaxTimers,              \* STORAGE_TASK_MAX_TIMERS
    QueueBound              \* bound of the model: tasks that wait in the queue

ASSUME StorageAssumption ==
    /\ Requests \cap {"main", "storage", "timer", "update"} = {}
    /\ MaxTimers \in Nat \ {0} /\ QueueBound \in Nat \ {0}

Guests == Requests \cup {"main", "storage"}

VARIABLES
    m_storage,              \* the storage VM
    m_initialization_complete,
    admitted,               \* (history) the program was declared ready
    queue,                  \* m_storage_queue: the tasks that wait
    thread,                 \* and what its thread is doing
    pc,                     \* of a guest: in a system call of this module
    update,                 \* where the live update is
    teardown,               \* ~ProgramInstance
    terminated              \* what took Varnish down, if anything

init   == <<m_storage, m_initialization_complete, admitted>>
queued == <<queue, thread>>
ending == <<teardown, terminated>>
vars   == <<timers, init, queued, pc, update, ending>>

Tasks == [kind : {"init", "call", "task", "serialize"},
          from : Guests \cup {"timer", "update"}]
Nothing == [kind |-> "none", from |-> "none", at |-> "none"]

\* The number of timers is checked before the lock is taken, so that guests may
\* pass the check together: the storage VM and the requests, of which each one but
\* the last adds a timer too many.  The main VM only ever runs alone.
TypeOK ==
    /\ TimersTypeOK
    /\ racy_count <= MaxTimers + Cardinality(Requests)
    /\ m_storage \in {"up", "freed"}
    /\ m_initialization_complete \in {-1, 0, 1} /\ admitted \in BOOLEAN
    /\ queue \in Seq(Tasks) /\ Len(queue) <= QueueBound
    /\ thread \in [kind : {"none", "init", "call", "task", "serialize"},
                   from : Guests \cup {"timer", "update", "none"},
                   at : {"none", "storage", "main", "forking", "run"}]
    /\ pc \in [Guests -> {"idle", "inside", "checked", "waiting"}]
    /\ update \in {"idle", "inside", "serializing", "answered", "restoring"}
    /\ teardown \in {"up", "draining", "joining", "stopping", "gone"}
    /\ terminated \in {"no", "null handler", "moved event", "freed storage"}

Init ==
    /\ TimersInit
    /\ m_storage = "up" /\ m_initialization_complete = 0 /\ admitted = FALSE
    /\ queue = <<[kind |-> "init", from |-> "main"]>> /\ thread = Nothing
    /\ pc = [g \in Guests |-> "idle"]
    /\ update = "idle"
    /\ teardown = "up" /\ terminated = "no"

-----------------------------------------------------------------------------
(* The system calls of the guests. *)

InStorage == thread.kind # "none" /\ m_storage = "up" /\ thread.at \in {"storage", "run"}

\* The guest runs and is not inside another system call.
Calls(g) ==
    /\ pc[g] = "idle"
    /\ CASE g = "main"    -> thread.at = "main"
         [] g = "storage" -> InStorage
         [] OTHER         -> admitted /\ teardown = "up"

Enqueue(kind, from) ==
    /\ Len(queue) < QueueBound
    /\ queue' = Append(queue, [kind |-> kind, from |-> from])

\* storage_call and storage_task begin with a look at the storage's allow-list.
\* A request does so while the thread of the queue may be about to free it.
Enter(r) ==
    /\ Calls(r) /\ m_storage = "up"
    /\ pc' = [pc EXCEPT ![r] = "inside"]
    /\ UNCHANGED <<timers, init, queued, update, ending>>

\* The function is not on the list: an exception.  (The main VM and the storage
\* VM run on the thread of the queue, and nothing is freed under them.)
NotAllowed(r) ==
    /\ pc[r] = "inside" /\ m_storage = "up"
    /\ pc' = [pc EXCEPT ![r] = "idle"]
    /\ UNCHANGED <<timers, init, queued, update, ending>>

UseFreed(r) ==
    /\ pc[r] = "inside" /\ m_storage = "freed"
    /\ terminated' = "freed storage"
    /\ UNCHANGED <<timers, init, queued, pc, update, teardown>>

\* The function is on the list.
Allowed(g) ==
    /\ m_storage = "up"
    /\ IF g \in Requests THEN pc[g] = "inside" ELSE Calls(g)

\* (bug) Without the check of is_storage().
StorageCallFromStorage(g) ==
    /\ Allowed(g)
    /\ Enqueue("call", g)
    /\ pc' = [pc EXCEPT ![g] = "waiting"]
    /\ UNCHANGED <<timers, init, thread, update, ending>>

\* storage_callv: the caller waits for the future.  From storage it returns -1.
StorageCall(g) ==
    /\ g # "storage" /\ Allowed(g)
    /\ Enqueue("call", g)
    /\ pc' = [pc EXCEPT ![g] = "waiting"]
    /\ UNCHANGED <<timers, init, thread, update, ending>>

\* storage_task with neither a start nor a period.
StorageTask(g) ==
    /\ Allowed(g)
    /\ Enqueue("task", g)
    /\ pc' = [pc EXCEPT ![g] = "idle"]
    /\ UNCHANGED <<timers, init, thread, update, ending>>

\* With one of them the number of timers is checked, outside the lock...
CheckTimers(g) ==
    /\ Calls(g)
    /\ racy_count < MaxTimers
    /\ pc' = [pc EXCEPT ![g] = "checked"]
    /\ UNCHANGED <<timers, init, queued, update, ending>>

\* ...and the timer added.  Its handler makes the task each time it fires.  A
\* vector of events that grows may move the one whose handler the timer thread
\* is about to read, without the lock.
AddTimer(g) ==
    /\ pc[g] = "checked"
    /\ \E periodic \in BOOLEAN : Add(periodic)
    /\ pc' = [pc EXCEPT ![g] = "idle"]
    /\ terminated' \in IF worker.at = "due" /\ free_ids = <<>>
                       THEN {"no", "moved event"} ELSE {terminated}
    /\ UNCHANGED <<init, queued, update, teardown>>

\* stop_storage_task takes any id, of a timer that fired or is another's too.
StopTask(g, id) ==
    /\ Calls(g)
    /\ Remove(id)
    /\ UNCHANGED <<init, queued, pc, update, ending>>

-----------------------------------------------------------------------------
(* The handler of a timer, called by the timer thread without the lock. *)

\* The handler may have been removed since the lock was released, which ends
\* the process.  Otherwise it calls storage_task, and swallows what that throws
\* without storage, or for a function storage does not allow.
CallHandler ==
    /\ worker.at = "due"
    /\ \/ /\ ~events[worker.ref].valid
          /\ terminated' = "null handler"
          /\ UNCHANGED worker
       \/ /\ events[worker.ref].valid
          /\ m_storage = "up"
          /\ worker' = [worker EXCEPT !.at = "inside"]
          /\ UNCHANGED terminated
       \/ /\ events[worker.ref].valid
          /\ worker' = [worker EXCEPT !.at = "called"]
          /\ UNCHANGED terminated
    /\ UNCHANGED <<events, time_events, free_ids, done, init, queued, pc,
                   update, teardown>>

\* (bug) Blocks until the other tasks are done.
EnqueueTaskWhenIdle ==
    /\ worker.at = "inside"
    /\ queue = <<>> /\ thread = Nothing
    /\ Enqueue("task", "timer")
    /\ worker' = [worker EXCEPT !.at = "called"]
    /\ UNCHANGED <<events, time_events, free_ids, done, init, thread, pc,
                   update, ending>>

\* storage_task holds a reference to the storage by now, and uses its mutex.
EnqueueTask ==
    /\ worker.at = "inside"
    /\ \/ /\ m_storage = "up"
          /\ Enqueue("task", "timer")
          /\ worker' = [worker EXCEPT !.at = "called"]
          /\ UNCHANGED terminated
       \/ /\ m_storage = "freed"
          /\ terminated' = "freed storage"
          /\ UNCHANGED <<worker, queue>>
    /\ UNCHANGED <<events, time_events, free_ids, done, init, thread, pc,
                   update, teardown>>

TimerThread ==
    \/ \E id \in Ids : Due(id) /\ UNCHANGED <<init, queued, pc, update, ending>>
    \/ CallHandler
    \/ EnqueueTask
    \/ Reschedule /\ UNCHANGED <<init, queued, pc, update, ending>>

-----------------------------------------------------------------------------
(* The thread of the queue. *)

GuestsIdle == pc["main"] = "idle" /\ pc["storage"] = "idle"

\* The next task.
StartNext ==
    /\ thread = Nothing /\ queue # <<>>
    /\ queue' = Tail(queue)
    /\ LET task == Head(queue) IN
       thread' = [kind |-> task.kind, from |-> task.from,
                  at |-> IF task.kind = "init" THEN "storage" ELSE "run"]
    /\ UNCHANGED <<timers, init, pc, update, ending>>

\* The function returned, threw, or ran out of time: the caller has its result
\* in any case.
FinishCall ==
    /\ thread.kind = "call" /\ GuestsIdle
    /\ thread' = Nothing
    /\ pc' = [pc EXCEPT ![thread.from] = "idle"]
    /\ UNCHANGED <<timers, init, queue, update, ending>>

\* A task ends likewise, at once if there is no storage; nobody reads its future.
FinishTask ==
    /\ thread.kind = "task" /\ GuestsIdle
    /\ thread' = Nothing
    /\ UNCHANGED <<timers, init, queue, pc, update, ending>>

\* begin_initialization: storage, then the program's main VM, whose guest may
\* call into storage; then the program is ready, and the rest of its request
\* VMs are forked before the thread takes the next task.
InitStep(from, to) ==
    /\ thread.at = from /\ GuestsIdle
    /\ thread' = IF to = "ready" THEN Nothing ELSE [thread EXCEPT !.at = to]
    /\ m_initialization_complete' = IF to = "forking" THEN 1 ELSE m_initialization_complete
    /\ admitted' = (admitted \/ to = "forking")
    /\ UNCHANGED <<timers, m_storage, queue, pc, update, ending>>

\* Any of it throws, the forking included: by then requests are running.
InitFail ==
    /\ thread.at \in {"storage", "main", "forking"} /\ GuestsIdle
    /\ thread' = Nothing
    /\ m_storage' = "freed"
    /\ m_initialization_complete' = -1
    /\ UNCHANGED <<timers, admitted, queue, pc, update, ending>>

-----------------------------------------------------------------------------
(* live_update_call, made by the thread that brings the next program. *)

\* The main VM has named its serializer, maybe before it is ready.
UpdateEnters ==
    /\ update = "idle" /\ teardown = "up" /\ m_storage = "up"
    /\ thread.at = "main" \/ admitted
    /\ update' = "inside"
    /\ UNCHANGED <<timers, init, queued, pc, ending>>

\* The time limit is asked of the storage VM.
LiveUpdateCall ==
    /\ update = "inside"
    /\ \/ /\ m_storage = "up"
          /\ Enqueue("serialize", "update")
          /\ update' = "serializing"
          /\ UNCHANGED terminated
       \/ /\ m_storage = "freed"
          /\ terminated' = "freed storage"
          /\ UNCHANGED <<update, queue>>
    /\ UNCHANGED <<timers, init, thread, pc, teardown>>

\* The serializer stops with the address of its data in the registers, or fails,
\* as it does without storage.
FinishSerialize ==
    /\ thread.kind = "serialize" /\ GuestsIdle
    /\ thread' = Nothing
    /\ update' \in {"idle"} \cup (IF m_storage = "up" THEN {"answered"} ELSE {})
    /\ UNCHANGED <<timers, init, queue, pc, ending>>

\* The registers are read by the caller, outside the queue.  Without an address,
\* or with one that wraps around, the update ends here.
ReadRegisters ==
    /\ update = "answered"
    /\ update' \in {"idle", "restoring"}
    /\ UNCHANGED <<timers, init, queued, pc, ending>>

\* On the storage queue of the next program: its restorer may take no data, or
\* fail; else it gets a copy, from the memory of the old storage VM.
Restore ==
    /\ update = "restoring"
    /\ update' = "idle"
    /\ UNCHANGED <<timers, init, queued, pc, ending>>

-----------------------------------------------------------------------------
(* The end of the program, and the members in the order they go. *)

\* No request and no update holds a reference any more.
Close ==
    /\ teardown = "up"
    /\ \A r \in Requests : pc[r] = "idle"
    /\ update = "idle"
    /\ teardown' = "draining"
    /\ UNCHANGED <<timers, init, queued, pc, update, terminated>>

\* (bug) The timers go after the storage.
DrainedJoined ==
    /\ teardown = "draining"
    /\ queue = <<>> /\ thread = Nothing
    /\ m_storage' = "freed"
    /\ teardown' = "joining"
    /\ UNCHANGED <<timers, m_initialization_complete, admitted, queued, pc, update, terminated>>

\* ~ProgramInstance waits for the queue, and ~TimerSystem follows.
Drained ==
    /\ teardown = "draining"
    /\ queue = <<>> /\ thread = Nothing
    /\ TellWorker
    /\ teardown' = "joining"
    /\ UNCHANGED <<init, queued, pc, update, terminated>>

TimersJoined ==
    /\ teardown = "joining" /\ WorkerEnded
    /\ teardown' = "stopping"
    /\ UNCHANGED <<timers, init, queued, pc, update, terminated>>

\* The queue goes once its thread has ended, the storage after it.
QueueStopped ==
    /\ teardown = "stopping" /\ thread = Nothing
    /\ queue' = <<>>
    /\ m_storage' = "freed"
    /\ teardown' = "gone"
    /\ UNCHANGED <<timers, m_initialization_complete, admitted, thread, pc, update, terminated>>

-----------------------------------------------------------------------------
SystemCalls ==
    \/ \E r \in Requests : Enter(r) \/ NotAllowed(r) \/ UseFreed(r)
    \/ \E g \in Guests :
       \/ StorageCall(g) \/ StorageTask(g) \/ CheckTimers(g) \/ AddTimer(g)
       \/ \E id \in Ids : StopTask(g, id)

Initialize ==
    \/ InitStep("storage", "main")
    \/ InitStep("main", "forking")
    \/ InitStep("forking", "ready")

QueueThread == StartNext \/ FinishCall \/ FinishTask \/ FinishSerialize \/ Initialize

Next ==
    /\ terminated = "no"
    /\ \/ SystemCalls \/ TimerThread \/ QueueThread \/ InitFail
       \/ UpdateEnters \/ LiveUpdateCall \/ ReadRegisters \/ Restore
       \/ Close \/ Drained \/ TimersJoined \/ QueueStopped

Live(A) == terminated = "no" /\ A

\* Threads run, guests run out of time if they do not return, and a scheduled
\* timer becomes the first one due: the times are absolute, the periods are not 0.
Fairness ==
    /\ WF_vars(Live(QueueThread))
    /\ \A g \in Guests : WF_vars(Live(AddTimer(g)))
    /\ WF_vars(Live(CallHandler)) /\ SF_vars(Live(EnqueueTask))
    /\ WF_vars(Live(Reschedule /\ UNCHANGED <<init, queued, pc, update, ending>>))
    /\ \A id \in 1..(MaxTimers + Cardinality(Requests)) :
          SF_vars(Live(Due(id) /\ UNCHANGED <<init, queued, pc, update, ending>>))

Spec == Init /\ [][Next]_vars /\ Fairness

-----------------------------------------------------------------------------
(* Properties. *)

\* A program that was initialized loses its storage last: no handler, request or
\* update is inside storage_task, storage_call or live_update_call, and no task
\* runs, when ~ProgramInstance frees it.  (When the initialization fails, they
\* may be.)
StorageGoesLast ==
    m_storage = "freed" /\ m_initialization_complete = 1 =>
       /\ worker.at # "inside" /\ thread = Nothing /\ update # "inside"
       /\ \A r \in Requests : pc[r] # "inside"

\* The main VM waits in a storage call for the thread it runs on.
WaitsForItself == pc["main"] = "waiting"
Over == WaitsForItself \/ terminated # "no"

\* Every storage call returns to the request that made it (future.get()), unless
\* the main VM's initialization holds the thread.
CallsReturn ==
    \A r \in Requests : pc[r] = "waiting" ~> (pc[r] = "idle" \/ Over)

\* A scheduled timer fires or is stopped, as long as the timer thread is not
\* told to end.
TimersFire ==
    \A id \in 1..(MaxTimers + Cardinality(Requests)) :
       (id \in time_events) ~> (id \notin time_events \/ done \/ Over)

\* Initialization ends, one way or the other: wait_for_main_vm waits for that.
InitializationEnds ==
    <>(m_initialization_complete # 0 \/ terminated # "no")
=============================================================================

-------------------------------- MODULE Timers --------------------------------
(***************************************************************************)
(* The timer system of a program (cpptime).  Events live in a vector, a    *)
(* timer's id is its index there, ids are re-used through a stack.  The    *)
(* worker thread takes the first due time event out of the schedule,       *)
(* lets go of the lock for the handler, and takes it again to decide       *)
(* whether the timer is scheduled once more.  Adding and removing happen   *)
(* under the lock, at any moment of that.                                  *)
(*                                                                         *)
(* Time is abstracted: any scheduled timer may be the first one due.       *)
(***************************************************************************)
EXTENDS Integers, Sequences, FiniteSets

VARIABLES
    events,                 \* id |-> its event
    time_events,            \* the ids that are scheduled
    free_ids,               \* the stack of ids to be re-used, its top last
    worker,                 \* where the thread is, and with which timer
    done                    \* the thread is told to end

timers == <<events, time_events, free_ids, worker, done>>

NoTimer == 0                \* ids are counted from 1 here, from 0 in the code

Ids  == DOMAIN events
Idle == [at |-> "wait", ref |-> NoTimer]

\* An event has a handler as long as it is valid, and nullptr from then on.
Events == [valid : BOOLEAN, periodic : BOOLEAN]

TimersTypeOK ==
    /\ events \in Seq(Events)
    /\ time_events \subseteq Ids
    /\ free_ids \in Seq(Ids)
    /\ worker \in [at : {"wait", "due", "inside", "called"}, ref : Ids \cup {NoTimer}]
    /\ done \in BOOLEAN

TimersInit ==
    /\ events = <<>> /\ time_events = {} /\ free_ids = <<>>
    /\ worker = Idle /\ done = FALSE

-----------------------------------------------------------------------------
(* add and remove, both under the lock. *)

racy_count == Len(events)

NewId == IF free_ids = <<>> THEN Len(events) + 1 ELSE free_ids[Len(free_ids)]

Add(periodic) ==
    LET e == [valid |-> TRUE, periodic |-> periodic] IN
    /\ IF free_ids = <<>>
       THEN events' = Append(events, e) /\ UNCHANGED free_ids
       ELSE /\ events' = [events EXCEPT ![NewId] = e]
            /\ free_ids' = SubSeq(free_ids, 1, Len(free_ids) - 1)
    /\ time_events' = time_events \cup {NewId}
    /\ UNCHANGED <<worker, done>>

\* The code's events[id].valid = false and handler = nullptr.
Emptied(id) == [events EXCEPT ![id].valid = FALSE]

\* Only an id that was scheduled is freed here: the id of a timer whose handler
\* is being called is freed by the worker, and a free one is free already.
Remove(id) ==
    /\ id \in Ids
    /\ events' = Emptied(id)
    /\ IF id \in time_events
       THEN /\ free_ids' = Append(free_ids, id)
            /\ time_events' = time_events \ {id}
       ELSE UNCHANGED <<free_ids, time_events>>
    /\ UNCHANGED <<worker, done>>

-----------------------------------------------------------------------------
(* The worker thread, run().  What the handler does is left to the module  *)
(* that uses the timers: it takes the worker from "due" to "called".       *)

\* The time event is erased and the lock released.
Due(id) ==
    /\ worker.at = "wait" /\ ~done
    /\ id \in time_events
    /\ time_events' = time_events \ {id}
    /\ worker' = [at |-> "due", ref |-> id]
    /\ UNCHANGED <<events, free_ids, done>>

\* (bug) Valid is not looked at again.
RescheduleInvalid ==
    /\ worker.at = "called"
    /\ IF events[worker.ref].periodic
       THEN /\ time_events' = time_events \cup {worker.ref}
            /\ UNCHANGED <<events, free_ids>>
       ELSE /\ events' = Emptied(worker.ref)
            /\ free_ids' = Append(free_ids, worker.ref)
            /\ UNCHANGED time_events
    /\ worker' = Idle
    /\ UNCHANGED done

\* The handler has returned and the lock is taken again.
Reschedule ==
    /\ worker.at = "called"
    /\ IF events[worker.ref].valid /\ events[worker.ref].periodic
       THEN /\ time_events' = time_events \cup {worker.ref}
            /\ UNCHANGED <<events, free_ids>>
       ELSE /\ events' = Emptied(worker.ref)
            /\ free_ids' = Append(free_ids, worker.ref)
            /\ UNCHANGED time_events
    /\ worker' = Idle
    /\ UNCHANGED done

\* The destructor tells the thread to end, and joins it.
TellWorker  == done' = TRUE /\ UNCHANGED <<events, time_events, free_ids, worker>>
WorkerEnded == done /\ worker.at = "wait"

-----------------------------------------------------------------------------
(* What the bookkeeping of ids promises. *)

FreeIds == {free_ids[i] : i \in DOMAIN free_ids}

\* Every id is in one place: scheduled, on the stack of free ids (once), or in
\* the worker's hands.  remove() relies on it when it frees an id only if it
\* finds it in the schedule, run() when it frees the id it was working on.  And
\* a timer that was stopped does not fire again, whatever remove() did while its
\* handler was running: what is scheduled is valid, what is free is not.
TimersAreConsistent ==
    /\ Cardinality(FreeIds) = Len(free_ids)
    /\ \A id \in Ids :
          Cardinality({p \in {"scheduled", "free", "worker"} :
                          \/ p = "scheduled" /\ id \in time_events
                          \/ p = "free" /\ id \in FreeIds
                          \/ p = "worker" /\ id = worker.ref}) = 1
    /\ \A id \in time_events : events[id].valid
    /\ \A id \in FreeIds : ~events[id].valid
=============================================================================

---------------------------- MODULE StorageProofs ----------------------------
(***************************************************************************)
(* The timers and the end of a program, for any number of requests and     *)
(* timers.                                                                 *)
(***************************************************************************)
EXTENDS Storage, FiniteSetTheorems, TLAPS

\* Zenon proves most leaves; those that need arithmetic cite SMT.
USE ZenonT(30)

-----------------------------------------------------------------------------
(* The timers. *)

TimerTypes ==
    /\ events \in Seq(Events)
    /\ free_ids \in Seq(Nat)
    /\ worker \in [at : {"wait", "due", "inside", "called"}, ref : Nat]

\* TimersAreConsistent without the sizes of sets.
OnePlace ==
    /\ \A i \in DOMAIN free_ids : free_ids[i] \in Ids
    /\ \A i, j \in DOMAIN free_ids : free_ids[i] = free_ids[j] => i = j
    /\ \A id \in time_events : id \in Ids /\ id \notin FreeIds /\ id # worker.ref
    /\ worker.ref \in Ids \cup {NoTimer} /\ worker.ref \notin FreeIds
    /\ \A id \in Ids : id \in time_events \/ id \in FreeIds \/ id = worker.ref

\* The worker has a timer when, and only when, it does not wait.
HasTimer == IF worker.at = "wait" THEN worker.ref = NoTimer ELSE worker.ref \in Ids

Validity ==
    /\ \A id \in time_events : events[id].valid
    /\ \A id \in FreeIds : ~events[id].valid

TimerInv == TimerTypes /\ OnePlace /\ HasTimer /\ Validity

\* An event that is emptied is an event, and one that is not valid.
LEMMA EmptiedEvents ==
  ASSUME events \in Seq(Events), NEW id \in Ids
  PROVE  /\ Emptied(id) \in Seq(Events)
         /\ DOMAIN Emptied(id) = Ids
         /\ ~Emptied(id)[id].valid
         /\ \A i \in Ids : i # id => Emptied(id)[i] = events[i]
<1> DEFINE f == [events[id] EXCEPT !.valid = FALSE]
<1>1. /\ Ids = 1..Len(events) /\ Len(events) \in Nat
      /\ \A i \in Ids : events[i] \in Events
  BY SMT DEF Ids
<1>2. ASSUME NEW r \in Events
      PROVE  [r EXCEPT !.valid = FALSE] \in Events /\ ~[r EXCEPT !.valid = FALSE].valid
  BY DEF Events
<1>3. f \in Events /\ ~f.valid
  BY <1>1, <1>2
<1>4. Emptied(id) = [events EXCEPT ![id] = f]
  BY DEF Emptied
<1> HIDE DEF f
<1>5. /\ DOMAIN Emptied(id) = Ids
      /\ Emptied(id)[id] = f
      /\ \A i \in Ids : i # id => Emptied(id)[i] = events[i]
  BY <1>4 DEF Ids
<1>6. Emptied(id) \in Seq(Events)
  BY SMT, <1>1, <1>3, <1>4
<1>7. QED
  BY <1>3, <1>5, <1>6

\* Pushing an id on the stack of free ids.
LEMMA Pushed ==
  ASSUME free_ids \in Seq(Nat), NEW id \in Nat, free_ids' = Append(free_ids, id)
  PROVE  /\ free_ids' \in Seq(Nat)
         /\ FreeIds' = FreeIds \cup {id}
         /\ (\A i, j \in DOMAIN free_ids : free_ids[i] = free_ids[j] => i = j)
               /\ id \notin FreeIds
            => \A i, j \in DOMAIN free_ids' : free_ids'[i] = free_ids'[j] => i = j
<1>1. /\ free_ids' \in Seq(Nat) /\ Len(free_ids) \in Nat
      /\ DOMAIN free_ids = 1..Len(free_ids)
      /\ DOMAIN free_ids' = 1..(Len(free_ids) + 1)
      /\ \A i \in 1..Len(free_ids) : free_ids'[i] = free_ids[i]
      /\ free_ids'[Len(free_ids) + 1] = id
  BY SMT
<1>2. FreeIds' = FreeIds \cup {id}
  BY SMT, <1>1 DEF FreeIds
<1>3. ASSUME \A i, j \in DOMAIN free_ids : free_ids[i] = free_ids[j] => i = j,
             id \notin FreeIds,
             NEW i \in DOMAIN free_ids', NEW j \in DOMAIN free_ids', free_ids'[i] = free_ids'[j]
      PROVE  i = j
  BY SMT, <1>1, <1>3 DEF FreeIds
<1>4. QED
  BY <1>1, <1>2, <1>3

\* Popping takes the last one.
LEMMA Popped ==
  ASSUME free_ids \in Seq(Nat), free_ids # <<>>,
         \A i, j \in DOMAIN free_ids : free_ids[i] = free_ids[j] => i = j,
         free_ids' = SubSeq(free_ids, 1, Len(free_ids) - 1)
  PROVE  /\ free_ids' \in Seq(Nat)
         /\ NewId \in FreeIds /\ FreeIds' = FreeIds \ {NewId}
         /\ \A i, j \in DOMAIN free_ids' : free_ids'[i] = free_ids'[j] => i = j
<1>1. /\ free_ids' \in Seq(Nat) /\ Len(free_ids) \in Nat \ {0}
      /\ DOMAIN free_ids = 1..Len(free_ids)
      /\ DOMAIN free_ids' = 1..(Len(free_ids) - 1)
      /\ \A i \in 1..(Len(free_ids) - 1) : free_ids'[i] = free_ids[i]
      /\ NewId = free_ids[Len(free_ids)]
  BY SMT DEF NewId
<1>2. NewId \in FreeIds
  BY SMT, <1>1 DEF FreeIds
<1>3. ASSUME NEW id PROVE id \in FreeIds' <=> id \in FreeIds /\ id # NewId
  <2>1. ASSUME id \in FreeIds' PROVE id \in FreeIds /\ id # NewId
    <3>1. PICK i \in 1..(Len(free_ids) - 1) : id = free_ids[i]
      BY <1>1, <2>1 DEF FreeIds
    <3>2. /\ i \in 1..Len(free_ids) /\ Len(free_ids) \in 1..Len(free_ids)
          /\ i # Len(free_ids)
      <4>1. ASSUME NEW n \in Nat \ {0}, NEW k \in 1..(n - 1)
            PROVE  k \in 1..n /\ n \in 1..n /\ k # n
        BY SMT
      <4>2. QED
        BY <1>1, <4>1
    <3>3. free_ids[i] # free_ids[Len(free_ids)]
      BY <1>1, <3>2
    <3>4. QED
      BY <1>1, <3>1, <3>2, <3>3 DEF FreeIds
  <2>2. ASSUME id \in FreeIds, id # NewId PROVE id \in FreeIds'
    <3>1. PICK i \in 1..Len(free_ids) : id = free_ids[i]
      BY <1>1, <2>2 DEF FreeIds
    <3>2. i \in 1..(Len(free_ids) - 1)
      BY SMT, <1>1, <2>2, <3>1
    <3>3. QED
      BY <1>1, <3>1, <3>2 DEF FreeIds
  <2>3. QED
    BY <2>1, <2>2
<1>4. FreeIds' = FreeIds \ {NewId}
  BY <1>3
<1>5. ASSUME NEW i \in DOMAIN free_ids', NEW j \in DOMAIN free_ids', free_ids'[i] = free_ids'[j]
      PROVE  i = j
  <2>1. /\ i \in DOMAIN free_ids /\ j \in DOMAIN free_ids
        /\ free_ids'[i] = free_ids[i] /\ free_ids'[j] = free_ids[j]
    BY SMT, <1>1
  <2>2. QED
    BY <1>5, <2>1
<1>6. QED
  BY <1>1, <1>2, <1>4, <1>5

\* The id that is re-used, or added, is in no other place.
LEMMA AddKeeps ==
  ASSUME TimerInv, NEW periodic \in BOOLEAN, Add(periodic)
  PROVE  TimerInv'
<1> DEFINE e == [valid |-> TRUE, periodic |-> periodic]
<1>1. e \in Events /\ e.valid
  BY DEF Events
<1>2. /\ time_events' = time_events \cup {NewId} /\ worker' = worker
      /\ \/ free_ids = <<>> /\ events' = Append(events, e) /\ free_ids' = free_ids
         \/ /\ free_ids # <<>> /\ events' = [events EXCEPT ![NewId] = e]
            /\ free_ids' = SubSeq(free_ids, 1, Len(free_ids) - 1)
  BY DEF Add
<1> HIDE DEF e
<1>3. /\ events \in Seq(Events) /\ Len(events) \in Nat /\ Ids = 1..Len(events)
      /\ free_ids \in Seq(Nat)
  BY SMT DEF TimerInv, TimerTypes, Ids
<1>4. CASE free_ids = <<>>
  <2>1. /\ events' = Append(events, e) /\ free_ids' = free_ids
        /\ NewId = Len(events) + 1 /\ FreeIds = {} /\ FreeIds' = {}
    BY SMT, <1>2, <1>4 DEF NewId, FreeIds
  <2>2. /\ events' \in Seq(Events) /\ Ids' = Ids \cup {NewId} /\ NewId \notin Ids
        /\ events'[NewId] = e /\ \A i \in Ids : events'[i] = events[i]
    BY SMT, <1>1, <1>3, <2>1 DEF Ids
  <2>3. TimerTypes' /\ HasTimer'
    BY <1>2, <2>1, <2>2 DEF TimerInv, TimerTypes, HasTimer
  <2>4. OnePlace'
    BY SMT, <1>2, <1>3, <1>4, <2>1, <2>2 DEF TimerInv, TimerTypes, OnePlace, NoTimer
  <2>5. Validity'
    BY <1>1, <1>2, <2>1, <2>2 DEF TimerInv, OnePlace, Validity
  <2>6. QED
    BY <2>3, <2>4, <2>5 DEF TimerInv
<1>5. CASE free_ids # <<>>
  <2>1. /\ events' = [events EXCEPT ![NewId] = e]
        /\ free_ids' \in Seq(Nat)
        /\ NewId \in FreeIds /\ FreeIds' = FreeIds \ {NewId}
        /\ \A i, j \in DOMAIN free_ids' : free_ids'[i] = free_ids'[j] => i = j
    BY <1>2, <1>3, <1>5, Popped DEF TimerInv, OnePlace
  <2>2. FreeIds \subseteq Ids
    BY DEF TimerInv, OnePlace, FreeIds
  <2>3. /\ events' \in Seq(Events) /\ Ids' = Ids
        /\ events'[NewId] = e /\ \A i \in Ids : i # NewId => events'[i] = events[i]
    BY SMT, <1>1, <1>3, <2>1, <2>2 DEF Ids
  <2>4. TimerTypes' /\ HasTimer'
    BY <1>2, <2>1, <2>3 DEF TimerInv, TimerTypes, HasTimer
  <2>5. \A i \in DOMAIN free_ids' : free_ids'[i] \in Ids'
    BY <2>1, <2>2, <2>3 DEF FreeIds
  <2>6. OnePlace'
    BY <1>2, <2>1, <2>2, <2>3, <2>5 DEF TimerInv, OnePlace
  <2>7. Validity'
    BY <1>1, <1>2, <2>1, <2>2, <2>3 DEF TimerInv, OnePlace, Validity
  <2>8. QED
    BY <2>4, <2>6, <2>7 DEF TimerInv
<1>6. QED
  BY <1>4, <1>5

\* remove() frees an id only if it was scheduled.
LEMMA RemoveKeeps ==
  ASSUME TimerInv, NEW id, Remove(id)
  PROVE  TimerInv'
<1>1. id \in Ids /\ events' = Emptied(id) /\ worker' = worker
  BY DEF Remove
<1>2. /\ events \in Seq(Events) /\ Ids \subseteq Nat /\ free_ids \in Seq(Nat)
      /\ worker \in [at : {"wait", "due", "inside", "called"}, ref : Nat]
  BY SMT DEF TimerInv, TimerTypes, Ids
<1>3. /\ events' \in Seq(Events) /\ Ids' = Ids /\ ~events'[id].valid
      /\ \A i \in Ids : i # id => events'[i] = events[i]
  BY <1>1, <1>2, EmptiedEvents DEF Ids
<1>4. CASE id \in time_events
  <2>1. free_ids' = Append(free_ids, id) /\ time_events' = time_events \ {id}
    BY <1>4 DEF Remove
  <2>2. id \notin FreeIds /\ FreeIds \subseteq Ids
    BY <1>4 DEF TimerInv, OnePlace, FreeIds
  <2>3. /\ free_ids' \in Seq(Nat) /\ FreeIds' = FreeIds \cup {id}
        /\ \A i, j \in DOMAIN free_ids' : free_ids'[i] = free_ids'[j] => i = j
    BY <1>1, <1>2, <2>1, <2>2, Pushed DEF TimerInv, OnePlace
  <2>4. TimerTypes' /\ HasTimer'
    BY <1>1, <1>2, <1>3, <2>3 DEF TimerInv, TimerTypes, HasTimer
  <2>5. \A i \in DOMAIN free_ids' : free_ids'[i] \in Ids'
    <3>1. FreeIds' \subseteq Ids'
      BY <1>1, <1>3, <2>2, <2>3
    <3>2. QED
      BY <3>1 DEF FreeIds
  <2>6. OnePlace'
    BY <1>1, <1>3, <1>4, <2>1, <2>2, <2>3, <2>5 DEF TimerInv, OnePlace
  <2>7. Validity'
    BY <1>1, <1>3, <2>1, <2>2, <2>3 DEF TimerInv, OnePlace, Validity
  <2>8. QED
    BY <2>4, <2>6, <2>7 DEF TimerInv
<1>5. CASE id \notin time_events
  <2>1. free_ids' = free_ids /\ time_events' = time_events /\ FreeIds' = FreeIds
    BY <1>5 DEF Remove, FreeIds
  <2>2. TimerTypes' /\ HasTimer'
    BY <1>1, <1>2, <1>3, <2>1 DEF TimerInv, TimerTypes, HasTimer
  <2>3. OnePlace'
    BY <1>1, <1>3, <2>1 DEF TimerInv, OnePlace
  <2>4. FreeIds \subseteq Ids
    BY DEF TimerInv, OnePlace, FreeIds
  <2>5. Validity'
    BY <1>1, <1>3, <1>5, <2>1, <2>4 DEF TimerInv, OnePlace, Validity
  <2>6. QED
    BY <2>2, <2>3, <2>5 DEF TimerInv
<1>6. QED
  BY <1>4, <1>5

\* A due timer goes from the schedule to the worker.
LEMMA DueKeeps ==
  ASSUME TimerInv, NEW id, Due(id)
  PROVE  TimerInv'
<1>1. /\ worker.at = "wait" /\ id \in time_events /\ time_events' = time_events \ {id}
      /\ worker' = [at |-> "due", ref |-> id]
      /\ events' = events /\ free_ids' = free_ids /\ FreeIds' = FreeIds /\ Ids' = Ids
  BY DEF Due, FreeIds, Ids
<1>2. id \in Ids /\ id \in Nat /\ NoTimer \notin Ids
  BY SMT, <1>1 DEF TimerInv, TimerTypes, OnePlace, Ids, NoTimer
<1>3. TimerTypes' /\ HasTimer'
  BY <1>1, <1>2 DEF TimerInv, TimerTypes, HasTimer
<1>4. OnePlace'
  <2>1. worker.ref = NoTimer /\ worker'.ref = id
    BY <1>1 DEF TimerInv, HasTimer
  <2>2. QED
    BY <1>1, <1>2, <2>1 DEF TimerInv, OnePlace
<1>5. Validity'
  BY <1>1 DEF TimerInv, Validity
<1>6. QED
  BY <1>3, <1>4, <1>5 DEF TimerInv

\* It goes back there, or to the free ids.
LEMMA RescheduleKeeps ==
  ASSUME TimerInv, Reschedule
  PROVE  TimerInv'
<1> DEFINE id == worker.ref
<1>1. /\ worker.at = "called" /\ worker' = Idle /\ id \in Ids
      /\ id \notin time_events /\ id \notin FreeIds
  BY DEF Reschedule, TimerInv, HasTimer, OnePlace
<1>2. /\ events \in Seq(Events) /\ Ids \subseteq Nat /\ free_ids \in Seq(Nat)
      /\ 0 \notin Ids
  BY SMT DEF TimerInv, TimerTypes, Ids
<1>3. CASE events[id].valid /\ events[id].periodic
  <2>1. /\ time_events' = time_events \cup {id} /\ events' = events /\ free_ids' = free_ids
        /\ FreeIds' = FreeIds /\ Ids' = Ids
    BY <1>3 DEF Reschedule, FreeIds, Ids
  <2>2. TimerTypes' /\ HasTimer'
    BY <1>1, <2>1 DEF TimerInv, TimerTypes, HasTimer, Idle, NoTimer
  <2>3. OnePlace'
    <3>1. 0 \notin FreeIds
      BY <1>2 DEF TimerInv, OnePlace, FreeIds
    <3>2. QED
      BY <1>1, <1>2, <2>1, <3>1 DEF TimerInv, OnePlace, Idle, NoTimer
  <2>4. Validity'
    BY <1>3, <2>1 DEF TimerInv, Validity
  <2>5. QED
    BY <2>2, <2>3, <2>4 DEF TimerInv
<1>4. CASE ~(events[id].valid /\ events[id].periodic)
  <2>1. /\ events' = Emptied(id) /\ free_ids' = Append(free_ids, id)
        /\ time_events' = time_events
    BY <1>4 DEF Reschedule
  <2>2. /\ events' \in Seq(Events) /\ Ids' = Ids /\ ~events'[id].valid
        /\ \A i \in Ids : i # id => events'[i] = events[i]
    BY <1>1, <1>2, <2>1, EmptiedEvents DEF Ids
  <2>3. FreeIds \subseteq Ids
    BY DEF TimerInv, OnePlace, FreeIds
  <2>4. /\ free_ids' \in Seq(Nat) /\ FreeIds' = FreeIds \cup {id}
        /\ \A i, j \in DOMAIN free_ids' : free_ids'[i] = free_ids'[j] => i = j
    BY <1>1, <1>2, <2>1, Pushed DEF TimerInv, OnePlace
  <2>5. TimerTypes' /\ HasTimer'
    BY <1>1, <2>2, <2>4 DEF TimerInv, TimerTypes, HasTimer, Idle, NoTimer
  <2>6. \A i \in DOMAIN free_ids' : free_ids'[i] \in Ids'
    BY <1>1, <2>2, <2>3, <2>4 DEF FreeIds
  <2>7. OnePlace'
    BY <1>1, <1>2, <2>1, <2>2, <2>3, <2>4, <2>6 DEF TimerInv, OnePlace, Idle, NoTimer
  <2>8. Validity'
    BY <1>1, <2>1, <2>2, <2>3, <2>4 DEF TimerInv, OnePlace, Validity
  <2>9. QED
    BY <2>5, <2>7, <2>8 DEF TimerInv
<1>5. QED
  BY <1>3, <1>4

\* Only where the worker is changes while a handler is called.
LEMMA WorkerKeeps ==
  ASSUME TimerInv, UNCHANGED <<events, time_events, free_ids>>,
         \/ worker' = worker
         \/ worker.at # "wait" /\ \E a \in {"inside", "called"} : worker' = [worker EXCEPT !.at = a]
  PROVE  TimerInv'
<1>1. /\ worker'.ref = worker.ref /\ (worker'.at = "wait" <=> worker.at = "wait")
      /\ worker' \in [at : {"wait", "due", "inside", "called"}, ref : Nat]
      /\ Ids' = Ids /\ FreeIds' = FreeIds
  BY SMT DEF TimerInv, TimerTypes, Ids, FreeIds
<1>2. TimerTypes' /\ HasTimer' /\ Validity'
  BY <1>1 DEF TimerInv, TimerTypes, HasTimer, Validity
<1>3. OnePlace'
  BY <1>1 DEF TimerInv, OnePlace
<1>4. QED
  BY <1>2, <1>3 DEF TimerInv

\* The steps of Storage change the timers in these ways only.
LEMMA TimerSteps ==
  ASSUME TimerInv, Next
  PROVE  TimerInv'
<1>1. ASSUME NEW g \in Guests, AddTimer(g) PROVE TimerInv'
  BY <1>1, AddKeeps DEF AddTimer
<1>2. ASSUME NEW g \in Guests, NEW id \in Ids, StopTask(g, id) PROVE TimerInv'
  BY <1>2, RemoveKeeps DEF StopTask
<1>3. ASSUME NEW g \in Guests, StorageCall(g) \/ StorageTask(g) \/ CheckTimers(g)
      PROVE  TimerInv'
  BY <1>3, WorkerKeeps DEF StorageCall, StorageTask, CheckTimers, timers
<1>0. ASSUME NEW g \in Requests, Enter(g) \/ NotAllowed(g) \/ UseFreed(g) PROVE TimerInv'
  BY <1>0, WorkerKeeps DEF Enter, NotAllowed, UseFreed, timers
<1>4. CASE TimerThread
  <2>1. ASSUME NEW id \in Ids, Due(id) PROVE TimerInv'
    BY <2>1, DueKeeps
  <2>2. CASE CallHandler
    BY <2>2, WorkerKeeps DEF CallHandler
  <2>3. CASE EnqueueTask
    BY <2>3, WorkerKeeps DEF EnqueueTask
  <2>4. CASE Reschedule
    BY <2>4, RescheduleKeeps
  <2>5. QED
    BY <1>4, <2>1, <2>2, <2>3, <2>4 DEF TimerThread
<1>5. CASE QueueThread \/ InitFail
  BY <1>5, WorkerKeeps DEF QueueThread, StartNext, FinishCall, FinishTask, FinishSerialize,
                           Initialize, InitStep, InitFail, timers
<1>6. CASE UpdateEnters \/ LiveUpdateCall \/ ReadRegisters \/ Restore
  BY <1>6, WorkerKeeps DEF UpdateEnters, LiveUpdateCall, ReadRegisters, Restore, timers
<1>7. CASE Close \/ Drained \/ TimersJoined \/ QueueStopped
  BY <1>7, WorkerKeeps DEF Close, Drained, TellWorker, TimersJoined, QueueStopped, timers
<1>8. QED
  BY <1>0, <1>1, <1>2, <1>3, <1>4, <1>5, <1>6, <1>7 DEF Next, SystemCalls

\* TimerInv is an invariant of the program's storage.
LEMMA TimerInvariance == Spec => []TimerInv
<1>1. Init => TimerInv
  <2> SUFFICES ASSUME Init PROVE TimerInv
    OBVIOUS
  <2>1. /\ events = <<>> /\ time_events = {} /\ free_ids = <<>> /\ worker = Idle
        /\ FreeIds = {} /\ Ids = {}
    BY SMT DEF Init, TimersInit, FreeIds, Ids
  <2>2. TimerTypes /\ HasTimer
    BY SMT, <2>1 DEF TimerTypes, HasTimer, Idle, NoTimer
  <2>3. OnePlace /\ Validity
    BY SMT, <2>1 DEF OnePlace, Validity, Idle
  <2>4. QED
    BY <2>2, <2>3 DEF TimerInv
<1>2. TimerInv /\ [Next]_vars => TimerInv'
  <2>1. ASSUME TimerInv, UNCHANGED vars PROVE TimerInv'
    BY <2>1, WorkerKeeps DEF vars, timers
  <2>2. QED
    BY <2>1, TimerSteps
<1>3. QED
  BY <1>1, <1>2, PTL DEF Spec

\* An id in one place is in one of the three.
LEMMA OnePlaceCounts ==
  ASSUME TimerInv
  PROVE  TimersAreConsistent
<1>1. Cardinality(FreeIds) = Len(free_ids)
  <2>1. /\ Len(free_ids) \in Nat /\ DOMAIN free_ids = 1..Len(free_ids)
        /\ free_ids \in [1..Len(free_ids) -> FreeIds]
    BY SMT DEF TimerInv, TimerTypes, FreeIds
  <2>2. free_ids \in Bijection(1..Len(free_ids), FreeIds)
    BY <2>1 DEF TimerInv, OnePlace, Bijection, Injection, IsInjective, Surjection, FreeIds
  <2>3. ExistsBijection(1..Len(free_ids), FreeIds)
    BY <2>2 DEF ExistsBijection
  <2>4. QED
    BY <2>1, <2>3, FS_CountingElements
<1>2. ASSUME NEW id \in Ids
      PROVE  Cardinality({p \in {"scheduled", "free", "worker"} :
                             \/ p = "scheduled" /\ id \in time_events
                             \/ p = "free" /\ id \in FreeIds
                             \/ p = "worker" /\ id = worker.ref}) = 1
  <2> DEFINE P == {p \in {"scheduled", "free", "worker"} :
                             \/ p = "scheduled" /\ id \in time_events
                             \/ p = "free" /\ id \in FreeIds
                             \/ p = "worker" /\ id = worker.ref}
  <2>1. P = {"scheduled"} \/ P = {"free"} \/ P = {"worker"}
    BY <1>2 DEF TimerInv, OnePlace
  <2>2. QED
    BY <2>1, FS_Singleton
<1>3. QED
  BY <1>1, <1>2 DEF TimersAreConsistent, TimerInv, Validity

\* TimersAreConsistent: whatever add(), remove() and run() do at the same time,
\* no id is lost, scheduled twice or handed out while it is in use.
THEOREM TimersStayConsistent == Spec => []TimersAreConsistent
BY TimerInvariance, OnePlaceCounts, PTL

-----------------------------------------------------------------------------
(* The end of the program. *)

\* The program is initialized by the first task of the queue.
InitOnce ==
    /\ queue \in Seq(Tasks)
    /\ \A i \in DOMAIN queue : queue[i].kind = "init" =>
          i = 1 /\ thread = Nothing /\ m_initialization_complete = 0
    /\ thread.at \in {"storage", "main"} => m_initialization_complete = 0

\* Storage is there until the initialization fails or the program is gone, and
\* the thread of the timers has ended before the queue and its thread do.
EndsInOrder ==
    /\ m_storage = "freed" => m_initialization_complete = -1 \/ teardown = "gone"
    /\ teardown \in {"joining", "stopping", "gone"} => done
    /\ teardown \in {"stopping", "gone"} => worker.at = "wait"
    /\ teardown = "gone" => thread = Nothing /\ queue = <<>>

\* No request and no update is inside the storage when the end begins, and none
\* enters it.
NobodyInside ==
    /\ pc \in [Guests -> {"idle", "inside", "checked", "waiting"}]
    /\ teardown # "up" => update # "inside" /\ \A r \in Requests : pc[r] # "inside"

Ordered == InitOnce /\ EndsInOrder
EndInv  == Ordered /\ NobodyInside

USE DEF Ordered

\* What is appended to the queue is not the initialization.
LEMMA EnqueueKeeps ==
  ASSUME EndInv, NEW kind \in {"call", "task", "serialize"},
         NEW from \in Guests \cup {"timer", "update"}, Enqueue(kind, from),
         thread' = thread, m_initialization_complete' = m_initialization_complete
  PROVE  InitOnce'
<1> DEFINE t == [kind |-> kind, from |-> from]
<1>1. t \in Tasks /\ t.kind # "init" /\ queue' = Append(queue, t)
  BY DEF Tasks, Enqueue
<1> HIDE DEF t
<1>2. /\ queue \in Seq(Tasks) /\ queue' \in Seq(Tasks) /\ Len(queue) \in Nat
      /\ DOMAIN queue = 1..Len(queue) /\ DOMAIN queue' = 1..(Len(queue) + 1)
      /\ \A i \in DOMAIN queue : queue'[i] = queue[i]
      /\ queue'[Len(queue) + 1] = t
  BY SMT, <1>1 DEF EndInv, InitOnce
<1>3. ASSUME NEW i \in DOMAIN queue', queue'[i].kind = "init"
      PROVE  i \in DOMAIN queue /\ queue[i].kind = "init"
  BY SMT, <1>1, <1>2, <1>3
<1>4. QED
  BY <1>2, <1>3 DEF EndInv, InitOnce

\* A guest that calls, or is inside, runs in a program that is not gone.
LEMMA CallersRun ==
  ASSUME EndInv, NEW g \in Guests, Calls(g) \/ Allowed(g)
  PROVE  teardown # "gone"
<1>1. CASE Calls(g)
  BY SMT, <1>1 DEF EndInv, EndsInOrder, Calls, InStorage, Nothing
<1>2. QED
  BY <1>1 DEF EndInv, NobodyInside, Allowed

\* Every step keeps the order.
LEMMA EndSteps ==
  ASSUME EndInv, Next
  PROVE  Ordered'
<1>1. ASSUME NEW g \in Guests, StorageCall(g) \/ StorageTask(g) PROVE Ordered'
  <2>1. /\ \E kind \in {"call", "task"} : Enqueue(kind, g)
        /\ UNCHANGED <<m_storage, m_initialization_complete, thread, teardown, done, worker>>
        /\ Allowed(g)
    BY <1>1 DEF StorageCall, StorageTask, timers, init, ending
  <2>2. InitOnce'
    BY <2>1, EnqueueKeeps
  <2>3. EndsInOrder'
    BY <2>1, CallersRun DEF EndInv, EndsInOrder
  <2>4. QED
    BY <2>2, <2>3
<1>0. ASSUME NEW g \in Requests, Enter(g) \/ NotAllowed(g) \/ UseFreed(g) PROVE Ordered'
  <2>1. UNCHANGED <<timers, init, queued, teardown, update>>
    BY <1>0 DEF Enter, NotAllowed, UseFreed, ending
  <2>2. QED
    BY <2>1 DEF timers, init, queued, EndInv, InitOnce, EndsInOrder
<1>2. ASSUME NEW g \in Guests, CheckTimers(g) \/ AddTimer(g) \/ \E id \in Ids : StopTask(g, id)
      PROVE  Ordered'
  BY <1>2 DEF CheckTimers, AddTimer, StopTask, Add, Remove, timers, init, queued, ending,
              EndInv, InitOnce, EndsInOrder
<1>3. CASE TimerThread
  <2>1. ASSUME NEW id \in Ids, Due(id), UNCHANGED <<init, queued, pc, update, ending>>
        PROVE  Ordered'
    BY <2>1 DEF Due, init, queued, ending, EndInv, InitOnce, EndsInOrder
  <2>2. CASE CallHandler
    BY <2>2 DEF CallHandler, init, queued, EndInv, InitOnce, EndsInOrder
  <2>3. CASE EnqueueTask
    <3>1. /\ worker.at = "inside"
          /\ UNCHANGED <<m_storage, m_initialization_complete, thread, teardown, done>>
          /\ Enqueue("task", "timer") \/ queue' = queue
      BY <2>3 DEF EnqueueTask, init
    <3>2. InitOnce'
      BY <3>1, EnqueueKeeps DEF EndInv, InitOnce
    <3>3. EndsInOrder'
      BY <3>1 DEF EndInv, EndsInOrder
    <3>4. QED
      BY <3>2, <3>3 DEF EndInv
  <2>4. CASE Reschedule /\ UNCHANGED <<init, queued, pc, update, ending>>
    BY <2>4 DEF Reschedule, init, queued, ending, EndInv, InitOnce, EndsInOrder, Idle
  <2>5. QED
    BY <1>3, <2>1, <2>2, <2>3, <2>4 DEF TimerThread
<1>4. CASE StartNext
  <2>1. /\ thread = Nothing /\ queue # <<>> /\ queue' = Tail(queue)
        /\ UNCHANGED <<m_storage, m_initialization_complete, teardown, done, worker>>
        /\ thread' = [kind |-> Head(queue).kind, from |-> Head(queue).from,
                      at |-> IF Head(queue).kind = "init" THEN "storage" ELSE "run"]
    BY <1>4 DEF StartNext, timers, init, ending
  <2>2. /\ queue' \in Seq(Tasks) /\ Len(queue) \in Nat \ {0}
        /\ DOMAIN queue = 1..Len(queue) /\ DOMAIN queue' = 1..(Len(queue) - 1)
        /\ \A i \in DOMAIN queue' : queue'[i] = queue[i + 1] /\ i + 1 \in DOMAIN queue
        /\ Head(queue) = queue[1] /\ 1 \in DOMAIN queue
    BY SMT, <2>1 DEF EndInv, InitOnce
  <2>3. \A i \in DOMAIN queue' : queue'[i].kind # "init"
    BY SMT, <2>2 DEF EndInv, InitOnce
  <2>4. thread'.at \in {"storage", "main"} => m_initialization_complete = 0
    BY <2>1, <2>2 DEF EndInv, InitOnce
  <2>5. InitOnce'
    BY <2>1, <2>2, <2>3, <2>4 DEF InitOnce
  <2>6. EndsInOrder'
    BY <2>1 DEF EndInv, EndsInOrder
  <2>7. QED
    BY <2>5, <2>6 DEF EndInv
<1>5. CASE FinishCall \/ FinishTask \/ FinishSerialize
  BY SMT, <1>5 DEF FinishCall, FinishTask, FinishSerialize, timers, init, ending,
              EndInv, InitOnce, EndsInOrder, Nothing
<1>6. ASSUME NEW from \in {"storage", "main", "forking"}, NEW to \in {"main", "forking", "ready"},
             InitStep(from, to), to = "main" => from = "storage", to = "forking" => from = "main"
      PROVE  Ordered'
  <2>1. /\ thread.at = from /\ thread # Nothing
        /\ thread' = IF to = "ready" THEN Nothing ELSE [thread EXCEPT !.at = to]
        /\ m_initialization_complete' =
              IF to = "forking" THEN 1 ELSE m_initialization_complete
        /\ UNCHANGED <<m_storage, queue, teardown, done, worker>>
    BY SMT, <1>6 DEF InitStep, timers, ending, Nothing
  <2>2. \A i \in DOMAIN queue : queue[i].kind # "init"
    BY <2>1 DEF EndInv, InitOnce
  <2>3. thread'.at \in {"storage", "main"} => m_initialization_complete' = 0
    BY SMT, <1>6, <2>1 DEF EndInv, InitOnce, Nothing
  <2>4. EndsInOrder'
    BY SMT, <1>6, <2>1 DEF EndInv, InitOnce, EndsInOrder
  <2>5. QED
    BY <2>1, <2>2, <2>3, <2>4 DEF EndInv, InitOnce
<1>7. CASE InitFail
  <2>1. /\ thread # Nothing /\ thread' = Nothing
        /\ m_initialization_complete' = -1
        /\ UNCHANGED <<queue, teardown, done, worker>>
    BY SMT, <1>7 DEF InitFail, timers, ending, Nothing
  <2>2. \A i \in DOMAIN queue : queue[i].kind # "init"
    BY <2>1 DEF EndInv, InitOnce
  <2>3. QED
    BY <2>1, <2>2 DEF EndInv, InitOnce, EndsInOrder, Nothing
<1>8. CASE LiveUpdateCall
  <2>1. /\ Enqueue("serialize", "update") \/ queue' = queue
        /\ UNCHANGED <<m_storage, m_initialization_complete, thread, teardown, done, worker>>
    BY <1>8 DEF LiveUpdateCall, timers, init
  <2>2. teardown = "up"
    BY <1>8 DEF EndInv, NobodyInside, LiveUpdateCall
  <2>3. InitOnce'
    BY <2>1, EnqueueKeeps DEF EndInv, InitOnce
  <2>4. QED
    BY <2>1, <2>2, <2>3 DEF EndInv, EndsInOrder
<1>9. CASE UpdateEnters \/ ReadRegisters \/ Restore
  BY <1>9 DEF UpdateEnters, ReadRegisters, Restore, timers, init, queued, ending, EndInv, InitOnce, EndsInOrder
<1>10. CASE Close \/ Drained \/ TimersJoined
  BY <1>10 DEF Close, Drained, TellWorker, TimersJoined, WorkerEnded, timers, init, queued,
               EndInv, InitOnce, EndsInOrder
<1>11. CASE QueueStopped
  BY SMT, <1>11 DEF QueueStopped, timers, EndInv, InitOnce, EndsInOrder
<1>12. QED
  BY <1>0, <1>1, <1>2, <1>3, <1>4, <1>5, <1>6, <1>7, <1>8, <1>9, <1>10, <1>11
     DEF Next, SystemCalls, QueueThread, Initialize

\* The storage is entered while the program is up, and a request is left alone
\* by the calls that end.
LEMMA InsideSteps ==
  ASSUME NobodyInside, Next
  PROVE  NobodyInside'
<1> DEFINE Places == {"idle", "inside", "checked", "waiting"}
<1>1. pc \in [Guests -> Places] /\ Requests \subseteq Guests
  BY DEF NobodyInside, Guests
<1>2. ASSUME NEW g, NEW l \in Places, pc' = [pc EXCEPT ![g] = l], UNCHANGED teardown,
             l = "inside" => teardown = "up",
             update' # "inside" \/ update' = update
      PROVE  NobodyInside'
  BY <1>1, <1>2 DEF NobodyInside
<1>3. ASSUME UNCHANGED pc, teardown' = "up" => teardown = "up", UNCHANGED update,
             teardown' # teardown /\ teardown = "up"
                => update # "inside" /\ \A r \in Requests : pc[r] # "inside"
      PROVE  NobodyInside'
  BY <1>3 DEF NobodyInside
<1>4. ASSUME UNCHANGED <<pc, teardown>>, update' = "inside" => teardown = "up" PROVE NobodyInside'
  BY <1>4 DEF NobodyInside
<1>5. ASSUME NEW g \in Requests, Enter(g) \/ NotAllowed(g) \/ UseFreed(g) PROVE NobodyInside'
  <2>1. g # "main" /\ g # "storage"
    BY StorageAssumption
  <2>2. CASE Enter(g)
    BY <1>2, <2>1, <2>2 DEF Enter, Calls, ending
  <2>3. CASE NotAllowed(g)
    BY <1>2, <2>3 DEF NotAllowed, ending
  <2>4. CASE UseFreed(g)
    BY <1>3, <2>4 DEF UseFreed
  <2>5. QED
    BY <1>5, <2>2, <2>3, <2>4
<1>6. ASSUME NEW g \in Guests,
             StorageCall(g) \/ StorageTask(g) \/ CheckTimers(g) \/ AddTimer(g)
      PROVE  NobodyInside'
  BY <1>2, <1>6 DEF StorageCall, StorageTask, CheckTimers, AddTimer, ending
<1>7. ASSUME NEW g \in Guests, NEW id \in Ids, StopTask(g, id) PROVE NobodyInside'
  BY <1>3, <1>7 DEF StopTask, ending
<1>8. CASE TimerThread
  BY <1>3, <1>8 DEF TimerThread, CallHandler, EnqueueTask, ending
<1>9. CASE FinishCall
  BY <1>2, <1>9 DEF FinishCall, ending
<1>10. CASE StartNext \/ FinishTask \/ Initialize \/ InitFail
  BY <1>3, <1>10 DEF StartNext, FinishTask, Initialize, InitStep, InitFail, ending
<1>11. CASE FinishSerialize \/ ReadRegisters \/ Restore
  <2>1. UNCHANGED <<pc, teardown>> /\ update' # "inside"
    BY <1>11 DEF FinishSerialize, ReadRegisters, Restore, ending
  <2>2. QED
    BY <1>4, <2>1
<1>12. CASE UpdateEnters
  BY <1>4, <1>12 DEF UpdateEnters, ending
<1>13. CASE LiveUpdateCall
  <2>1. UNCHANGED <<pc, teardown>> /\ (update' = "inside" => update = "inside")
    BY <1>13 DEF LiveUpdateCall
  <2>2. QED
    BY <1>4, <2>1 DEF NobodyInside
<1>14. CASE Close \/ Drained \/ TimersJoined \/ QueueStopped
  BY <1>3, <1>14 DEF Close, Drained, TimersJoined, QueueStopped
<1>15. QED
  BY <1>5, <1>6, <1>7, <1>8, <1>9, <1>10, <1>11, <1>12, <1>13, <1>14
     DEF Next, SystemCalls, QueueThread

\* StorageGoesLast: ~ProgramInstance joins the timers' thread and the queue's
\* before the storage VM goes, so that no handler or task is left inside it.
THEOREM StorageIsFreedLast == Spec => []StorageGoesLast
<1>1. Init => EndInv
  <2> SUFFICES ASSUME Init PROVE EndInv
    OBVIOUS
  <2>1. /\ queue \in Seq(Tasks) /\ DOMAIN queue = {1} /\ thread = Nothing
        /\ m_initialization_complete = 0
    BY SMT DEF Init, Tasks, Guests
  <2>2. QED
    BY <2>1 DEF Init, EndInv, InitOnce, EndsInOrder, NobodyInside, Nothing
<1>2. EndInv /\ [Next]_vars => EndInv'
  <2>1. ASSUME EndInv, UNCHANGED vars PROVE EndInv'
    BY <2>1 DEF vars, timers, init, queued, ending, EndInv, InitOnce, EndsInOrder, NobodyInside
  <2>2. QED
    BY <2>1, EndSteps, InsideSteps DEF EndInv
<1>3. EndInv => StorageGoesLast
  BY SMT DEF EndInv, EndsInOrder, NobodyInside, StorageGoesLast
<1>4. QED
  BY <1>1, <1>2, <1>3, PTL DEF Spec

=============================================================================

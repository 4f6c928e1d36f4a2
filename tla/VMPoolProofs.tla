---------------------------- MODULE VMPoolProofs ----------------------------
(***************************************************************************)
(* Safety of the VM pool for any number of requests, updaters, programs,   *)
(* VMs and NUMA nodes.                                                     *)
(***************************************************************************)
EXTENDS VMPool, TLAPS

\* Zenon proves most leaves; those that need arithmetic cite SMT.
USE ZenonT(30)

\* Program counters say which pointers are set.
Pointers ==
    /\ \A r \in Requests : pc[r] \in {"reffed", "waiting"} => prog[r] \in Programs
    /\ \A r \in Requests : pc[r] \in {"running", "assign"} => slot[r] \in Slots
    /\ \A u \in Updaters : upc[u] # "idle" => newp[u] \in Programs

\* Only started VMs circulate, and none is started before its program is
\* ready: the fork that starts a VM does not duplicate it.
OnlyStarted ==
    \A s \in Slots :
       /\ boot[s] = "up" => ready[ProgOf[s]] = "ok"
       /\ pending[s] > 0 => boot[s] = "up"
       /\ \A n \in Nodes : queue[n][s] > 0 => boot[s] = "up"
       /\ \A r \in Requests : Holds(r, s) => boot[s] = "up"

\* The destructor runs, or has run, on no program that a shared_ptr points to.
ReferencedIsAlive ==
    \A p \in Programs :
       /\ Referenced(p) => life[p] = "live" /\ dtor[p] = NoThread
       /\ dtor[p] # NoThread => life[p] = "live"

Tokens == Exclusive /\ NoLostVM /\ FreeFindsProgram /\ OnlyStarted

\* Tokens, for one slot.
SlotTokens(s) ==
    /\ \A r1, r2 \in Requests : Holds(r1, s) /\ Holds(r2, s) => r1 = r2
    /\ pending[s] \in {0, 1}
    /\ \A n \in Nodes : queue[n][s] \in {0, 1}
    /\ \A n, m \in Nodes : queue[n][s] > 0 /\ queue[m][s] > 0 => n = m
    /\ Queued(s) => pending[s] = 0 /\ \A r \in Requests : ~Holds(r, s)
    /\ pending[s] > 0 => \A r \in Requests : ~Holds(r, s)
    /\ boot[s] = "up" => Queued(s) \/ pending[s] > 0 \/ \E r \in Requests : Holds(r, s)
    /\ (pending[s] > 0 \/ \E r \in Requests : Holds(r, s)) => prog_ref[s] = ProgOf[s]
    /\ boot[s] = "up" => ready[ProgOf[s]] = "ok"
    /\ pending[s] > 0 => boot[s] = "up"
    /\ \A n \in Nodes : queue[n][s] > 0 => boot[s] = "up"
    /\ \A r \in Requests : Holds(r, s) => boot[s] = "up"

IInv == TypeOK /\ Pointers /\ Tokens /\ ReferencedIsAlive

USE PoolAssumption

\* The inductive invariant holds when the tenant starts.
LEMMA InitIInv == Init => IInv
<1> SUFFICES ASSUME Init PROVE IInv
  OBVIOUS
<1>1. TypeOK
  BY DEF Init, TypeOK, Progs0, Threads
<1>2. Pointers
  BY DEF Init, Pointers
<1>3. Tokens
  BY SMT DEF Init, Tokens, Exclusive, NoLostVM, FreeFindsProgram, OnlyStarted, Holds, Queued
<1>4. ReferencedIsAlive
  BY DEF Init, ReferencedIsAlive, Referenced
<1> QED
  BY <1>1, <1>2, <1>3, <1>4 DEF IInv

\* Every step keeps the types: above all, no count of a queue drops below
\* zero.
LEMMA TypeStep == IInv /\ [Next]_vars => TypeOK'
<1> SUFFICES ASSUME IInv, [Next]_vars PROVE TypeOK'
  OBVIOUS
<1> USE DEF IInv, TypeOK, Pointers, Progs0
<1>1. ASSUME NEW p \in Programs, Boot(p) PROVE TypeOK'
  <2> USE DEF reqVars, updVars, poolVars, Enqueue
  <2>1. CASE BootFirst(p)
    BY SMT, <2>1 DEF BootFirst
  <2>2. CASE BootFail(p)
    BY <2>2 DEF BootFail
  <2>3. ASSUME NEW s \in Slots, BootNext(s) PROVE TypeOK'
    BY SMT, <2>3 DEF BootNext
  <2>4. ASSUME NEW s \in Slots, BootNextFail(s) PROVE TypeOK'
    BY <2>4 DEF BootNextFail
  <2> QED
    BY <1>1, <2>1, <2>2, <2>3, <2>4 DEF Boot, SlotsOf
<1>2. ASSUME NEW p \in Programs, Destroy(p) PROVE TypeOK'
  BY <1>2 DEF Destroy, reqVars, updVars, poolVars, bootVars
<1>3. ASSUME NEW r \in Requests, ReqNext(r) PROVE TypeOK'
  <2>1. CASE Ref(r)
    BY <2>1 DEF Ref, updVars, poolVars, bootVars
  <2>2. CASE MainVMReady(r)
    BY SMT, <2>2 DEF MainVMReady, updVars, poolVars, bootVars
  <2>3. CASE MainVMFailed(r)
    BY <2>3 DEF MainVMFailed, updVars, poolVars, bootVars
  <2>4. CASE Timeout(r)
    BY <2>4 DEF Timeout, updVars, poolVars, bootVars
  <2>5. ASSUME NEW s \in Slots, Dequeue(r, s) PROVE TypeOK'
    BY SMT, <2>5 DEF Dequeue, updVars, bootVars
  <2>6. ASSUME NEW n \in Nodes, FreeInline(r, n) PROVE TypeOK'
    BY SMT, <2>6 DEF FreeInline, Enqueue, updVars, bootVars
  <2>7. CASE FreeDeferred(r)
    BY SMT, <2>7 DEF FreeDeferred, updVars, bootVars
  <2>8. CASE AssignFuture(r)
    BY <2>8 DEF AssignFuture, updVars, poolVars, bootVars
  <2>9. CASE DropRef(r)
    BY <2>9 DEF DropRef, Dropped, Threads, updVars, poolVars, bootVars
  <2> QED
    BY <1>3, <2>1, <2>2, <2>3, <2>4, <2>5, <2>6, <2>7, <2>8, <2>9 DEF ReqNext, Reserve, Free
<1>4. ASSUME NEW s \in Slots, SlotNext(s) PROVE TypeOK'
  <2>1. CASE DropTaskRef(s)
    BY <2>1 DEF DropTaskRef, Dropped, Threads, reqVars, updVars, bootVars
  <2>2. ASSUME NEW n \in Nodes, ResetTask(s, n) PROVE TypeOK'
    BY SMT, <2>2 DEF ResetTask, Enqueue, reqVars, updVars, bootVars
  <2> QED
    BY <1>4, <2>1, <2>2 DEF SlotNext
<1>5. ASSUME NEW u \in Updaters, UpdStep(u) PROVE TypeOK'
  <2> USE DEF reqVars, poolVars, bootVars, Threads
  <2>1. CASE InitWaited(u)
    BY <2>1 DEF InitWaited
  <2>2. CASE LoadCurrent(u)
    BY SMT, <2>2 DEF LoadCurrent
  <2>3. CASE Swap(u)
    BY <2>3 DEF Swap, Dropped
  <2>4. CASE DropCurrent(u)
    BY <2>4 DEF DropCurrent, Dropped
  <2>5. CASE DropNew(u)
    BY <2>5 DEF DropNew, Dropped
  <2> QED
    BY <1>5, <2>1, <2>2, <2>3, <2>4, <2>5 DEF UpdStep
<1>6. ASSUME NEW u \in Updaters, NEW p \in Programs, Construct(u, p) PROVE TypeOK'
  BY <1>6 DEF Construct, reqVars, poolVars, bootVars
<1>7. CASE UNCHANGED vars
  BY <1>7 DEF vars, reqVars, updVars, poolVars, bootVars
<1> QED
  BY <1>1, <1>2, <1>3, <1>4, <1>5, <1>6, <1>7 DEF Next

\* Every step keeps the pointers consistent: a request that waits has its
\* program, one that runs or frees has its slot.
LEMMA PointersStep == IInv /\ [Next]_vars => Pointers'
<1> SUFFICES ASSUME IInv, [Next]_vars PROVE Pointers'
  OBVIOUS
<1> USE DEF IInv, TypeOK, Pointers, Progs0, reqVars, updVars, poolVars, bootVars
<1>1. ASSUME NEW p \in Programs, Boot(p) \/ Destroy(p) PROVE Pointers'
  BY <1>1 DEF Boot, BootFirst, BootFail, BootNext, BootNextFail, Destroy
<1>2. ASSUME NEW r \in Requests, ReqNext(r) PROVE Pointers'
  <2>1. CASE Ref(r)
    BY <2>1 DEF Ref
  <2>2. CASE MainVMReady(r) \/ MainVMFailed(r) \/ Timeout(r)
    BY SMT, <2>2 DEF MainVMReady, MainVMFailed, Timeout
  <2>3. ASSUME NEW s \in Slots, Dequeue(r, s) PROVE Pointers'
    BY <2>3 DEF Dequeue
  <2>4. ASSUME NEW n \in Nodes, FreeInline(r, n) PROVE Pointers'
    BY <2>4 DEF FreeInline
  <2>5. CASE FreeDeferred(r)
    BY <2>5 DEF FreeDeferred
  <2>6. CASE AssignFuture(r)
    BY <2>6 DEF AssignFuture
  <2>7. CASE DropRef(r)
    BY <2>7 DEF DropRef
  <2> QED
    BY <1>2, <2>1, <2>2, <2>3, <2>4, <2>5, <2>6, <2>7 DEF ReqNext, Reserve, Free
<1>3. ASSUME NEW s \in Slots, SlotNext(s) PROVE Pointers'
  BY <1>3 DEF SlotNext, DropTaskRef, ResetTask
<1>4. ASSUME NEW u \in Updaters, UpdStep(u) PROVE Pointers'
  BY <1>4 DEF UpdStep, InitWaited, LoadCurrent, Swap, DropCurrent, DropNew
<1>5. ASSUME NEW u \in Updaters, NEW p \in Programs, Construct(u, p) PROVE Pointers'
  BY <1>5 DEF Construct
<1>6. CASE UNCHANGED vars
  BY <1>6 DEF vars
<1> QED
  BY <1>1, <1>2, <1>3, <1>4, <1>5, <1>6 DEF Next

\* The token of every slot can be looked at slot by slot.
LEMMA TokensBySlot == Tokens <=> \A s \in Slots : SlotTokens(s)
BY DEF Tokens, Exclusive, NoLostVM, FreeFindsProgram, OnlyStarted, SlotTokens

\* A slot whose queues, task, reference and holders stay is undisturbed.
LEMMA Frame ==
  ASSUME NEW t \in Slots, SlotTokens(t),
         \A n \in Nodes : queue'[n][t] = queue[n][t],
         pending'[t] = pending[t], prog_ref'[t] = prog_ref[t], boot'[t] = boot[t],
         ready[ProgOf[t]] = "ok" => ready'[ProgOf[t]] = "ok",
         \A q \in Requests : Holds(q, t)' <=> Holds(q, t)
  PROVE  SlotTokens(t)'
<1>1. Queued(t)' <=> Queued(t)
  BY DEF Queued
<1> QED
  BY <1>1 DEF SlotTokens

\* Enqueueing a slot counts it once more in one queue.
LEMMA EnqueueCounts ==
  ASSUME queue \in [Nodes -> [Slots -> Nat]], NEW n0 \in Nodes, NEW s \in Slots, Enqueue(n0, s)
  PROVE  \A n \in Nodes, t \in Slots :
            queue'[n][t] = IF n = n0 /\ t = s THEN queue[n][t] + 1 ELSE queue[n][t]
BY DEF Enqueue

\* A slot that is in one queue, once, and nowhere else, is where it should be.
LEMMA InOneQueue ==
  ASSUME NEW t \in Slots, NEW n0 \in Nodes,
         \A n \in Nodes : queue'[n][t] = IF n = n0 THEN 1 ELSE 0,
         pending'[t] = 0, boot'[t] = "up", ready'[ProgOf[t]] = "ok",
         \A q \in Requests : ~Holds(q, t)'
  PROVE  SlotTokens(t)'
<1>1. Queued(t)'
  BY SMT DEF Queued
<1>2. \A n, m \in Nodes : queue'[n][t] > 0 /\ queue'[m][t] > 0 => n = m
  BY SMT
<1>3. \A n \in Nodes : queue'[n][t] \in {0, 1}
  OBVIOUS
<1>4. pending'[t] \in {0, 1} /\ ~(pending'[t] > 0)
  BY SMT
<1> QED
  BY <1>1, <1>2, <1>3, <1>4 DEF SlotTokens

\* A slot held by one request, and nowhere else, is where it should be.
LEMMA WithOneRequest ==
  ASSUME NEW t \in Slots, NEW r \in Requests,
         \A q \in Requests : Holds(q, t)' <=> q = r,
         \A n \in Nodes : queue'[n][t] = 0,
         pending'[t] = 0, boot'[t] = "up", ready'[ProgOf[t]] = "ok",
         prog_ref'[t] = ProgOf[t]
  PROVE  SlotTokens(t)'
<1>1. ~Queued(t)'
  BY SMT DEF Queued
<1>2. pending'[t] \in {0, 1} /\ ~(pending'[t] > 0)
  BY SMT
<1>3. \A n \in Nodes : queue'[n][t] \in {0, 1} /\ ~(queue'[n][t] > 0)
  BY SMT
<1> QED
  BY <1>1, <1>2, <1>3 DEF SlotTokens

\* A slot about to be reset, and nowhere else, is where it should be.
LEMMA InOneTask ==
  ASSUME NEW t \in Slots,
         \A q \in Requests : ~Holds(q, t)',
         \A n \in Nodes : queue'[n][t] = 0,
         pending'[t] = 1, boot'[t] = "up", ready'[ProgOf[t]] = "ok",
         prog_ref'[t] = ProgOf[t]
  PROVE  SlotTokens(t)'
<1>1. ~Queued(t)'
  BY SMT DEF Queued
<1>2. pending'[t] \in {0, 1} /\ pending'[t] > 0
  BY SMT
<1>3. \A n \in Nodes : queue'[n][t] \in {0, 1} /\ ~(queue'[n][t] > 0)
  BY SMT
<1> QED
  BY <1>1, <1>2, <1>3 DEF SlotTokens

\* A slot that is not in a queue is in none of them.
LEMMA NotQueued ==
  ASSUME NEW t \in Slots, SlotTokens(t), ~Queued(t)
  PROVE  \A n \in Nodes : queue[n][t] = 0
<1> SUFFICES ASSUME NEW n \in Nodes PROVE queue[n][t] = 0
  OBVIOUS
<1>1. queue[n][t] \in {0, 1}
  BY DEF SlotTokens
<1>2. ~(queue[n][t] > 0)
  BY DEF Queued
<1> QED
  BY SMT, <1>1, <1>2

\* A VM that is not started is nowhere.
LEMMA FromNowhere ==
  ASSUME NEW t \in Slots, SlotTokens(t), boot[t] # "up"
  PROVE  /\ pending[t] = 0
         /\ \A n \in Nodes : queue[n][t] = 0
         /\ \A q \in Requests : ~Holds(q, t)
<1>1. ~Queued(t) /\ ~(pending[t] > 0) /\ \A q \in Requests : ~Holds(q, t)
  BY DEF SlotTokens, Queued
<1>2. pending[t] \in {0, 1}
  BY DEF SlotTokens
<1> QED
  BY SMT, <1>1, <1>2, NotQueued

\* A VM found in a queue is there once and nowhere else.
LEMMA FromQueue ==
  ASSUME NEW t \in Slots, SlotTokens(t), NEW n0 \in Nodes, queue[n0][t] > 0
  PROVE  /\ pending[t] = 0 /\ boot[t] = "up" /\ ready[ProgOf[t]] = "ok"
         /\ \A q \in Requests : ~Holds(q, t)
         /\ \A n \in Nodes : queue[n][t] = IF n = n0 THEN 1 ELSE 0
<1>1. Queued(t)
  BY DEF Queued
<1>2. /\ pending[t] = 0 /\ boot[t] = "up" /\ ready[ProgOf[t]] = "ok"
      /\ \A q \in Requests : ~Holds(q, t)
  BY <1>1 DEF SlotTokens
<1>3. ASSUME NEW n \in Nodes PROVE queue[n][t] = IF n = n0 THEN 1 ELSE 0
  <2>1. queue[n][t] \in {0, 1} /\ (queue[n][t] > 0 => n = n0)
    BY DEF SlotTokens
  <2> QED
    BY SMT, <2>1
<1> QED
  BY <1>2, <1>3

\* A VM that a request holds is nowhere else, and has its program.
LEMMA FromRequest ==
  ASSUME NEW t \in Slots, SlotTokens(t), NEW r \in Requests, Holds(r, t)
  PROVE  /\ pending[t] = 0 /\ boot[t] = "up" /\ ready[ProgOf[t]] = "ok"
         /\ prog_ref[t] = ProgOf[t]
         /\ \A q \in Requests : Holds(q, t) => q = r
         /\ \A n \in Nodes : queue[n][t] = 0
<1>1. ~Queued(t) /\ ~(pending[t] > 0) /\ pending[t] \in {0, 1}
  BY DEF SlotTokens
<1>2. /\ boot[t] = "up" /\ ready[ProgOf[t]] = "ok"
      /\ prog_ref[t] = ProgOf[t]
      /\ \A q \in Requests : Holds(q, t) => q = r
  BY DEF SlotTokens
<1> QED
  BY SMT, <1>1, <1>2, NotQueued

\* A VM about to be reset is nowhere else, and has its program.
LEMMA FromTask ==
  ASSUME NEW t \in Slots, SlotTokens(t), pending[t] > 0
  PROVE  /\ pending[t] = 1 /\ boot[t] = "up" /\ ready[ProgOf[t]] = "ok"
         /\ \A q \in Requests : ~Holds(q, t)
         /\ \A n \in Nodes : queue[n][t] = 0
<1>1. ~Queued(t) /\ pending[t] \in {0, 1}
  BY SMT DEF SlotTokens
<1>2. /\ boot[t] = "up" /\ ready[ProgOf[t]] = "ok"
      /\ \A q \in Requests : ~Holds(q, t)
  BY DEF SlotTokens
<1> QED
  BY SMT, <1>1, <1>2, NotQueued

\* One slot takes the whole step; the others are framed.
LEMMA TokensStep == IInv /\ [Next]_vars => Tokens'
<1> SUFFICES ASSUME IInv, [Next]_vars PROVE Tokens'
  OBVIOUS
<1> USE DEF IInv
<1>t. \A s \in Slots : SlotTokens(s)
  BY TokensBySlot
<1>q. queue \in [Nodes -> [Slots -> Nat]] /\ node \in [Requests -> Nodes]
  BY DEF TypeOK
<1>y. /\ pending \in [Slots -> Nat]
      /\ prog_ref \in [Slots -> Progs0]
      /\ boot \in [Slots -> {"none", "up", "failed"}]
      /\ ready \in [Programs -> {"init", "ok", "failed"}]
  BY DEF TypeOK
<1>r. DOMAIN pc = Requests /\ DOMAIN slot = Requests
  BY DEF TypeOK
<1>a. /\ \A p \in Programs : First[p] \in Slots /\ ProgOf[First[p]] = p
      /\ \A s \in Slots : ProgOf[s] \in Programs /\ Home[s] \in Nodes
      /\ Node0 \in Nodes
  OBVIOUS
<1> HIDE DEF IInv
<1> HIDE PoolAssumption
<1>0. ASSUME UNCHANGED <<queue, pending, prog_ref, boot, ready>>,
             \A q \in Requests, s \in Slots : Holds(q, s)' <=> Holds(q, s)
      PROVE  Tokens'
  <2>1. ASSUME NEW t \in Slots PROVE SlotTokens(t)'
    BY <1>0, <1>t, Frame
  <2> QED
    BY <2>1, TokensBySlot DEF Tokens, Exclusive, NoLostVM, FreeFindsProgram, OnlyStarted, SlotTokens
<1>1. ASSUME NEW p \in Programs, BootFirst(p) PROVE \A t \in Slots : SlotTokens(t)'
  <2> DEFINE s == First[p]
  <2>q. \A n \in Nodes, t \in Slots :
           queue'[n][t] = IF n = Node0 /\ t = s THEN queue[n][t] + 1 ELSE queue[n][t]
    <3>1. Enqueue(Node0, s) /\ Node0 \in Nodes /\ s \in Slots
      BY <1>1, <1>a DEF BootFirst
    <3> QED
      BY <3>1, <1>q, EnqueueCounts
  <2>1. ASSUME NEW t \in Slots, t # s PROVE SlotTokens(t)'
    <3>1. /\ \A n \in Nodes : queue'[n][t] = queue[n][t]
          /\ boot'[t] = boot[t]
          /\ ready[ProgOf[t]] = "ok" => ready'[ProgOf[t]] = "ok"
      BY <1>1, <2>1, <2>q, <1>a, <1>y DEF BootFirst
    <3>2. \A q \in Requests : Holds(q, t)' <=> Holds(q, t)
      BY <1>1 DEF BootFirst, Holds, reqVars
    <3> QED
      BY <1>1, <1>t, <3>1, <3>2, Frame DEF BootFirst
  <2>2. s \in Slots /\ ProgOf[s] = p /\ Node0 \in Nodes
    BY <1>a
  <2>3. boot[s] # "up"
    BY <1>1, <1>t, <2>2 DEF BootFirst, SlotTokens
  <2>4. /\ pending[s] = 0
        /\ \A n \in Nodes : queue[n][s] = 0
        /\ \A q \in Requests : ~Holds(q, s)
    BY <1>t, <2>2, <2>3, FromNowhere
  <2>5. pending'[s] = 0 /\ boot'[s] = "up" /\ ready'[p] = "ok"
    BY <1>1, <2>2, <2>4, <1>y DEF BootFirst
  <2>6. \A q \in Requests : ~Holds(q, s)'
    BY <1>1, <2>4 DEF BootFirst, Holds, reqVars
  <2>7. \A n \in Nodes : queue'[n][s] = IF n = Node0 THEN 1 ELSE 0
    BY SMT, <2>q, <2>2, <2>4
  <2>8. SlotTokens(s)'
    <3> HIDE DEF s
    <3> QED
      BY <2>2, <2>5, <2>6, <2>7, InOneQueue
  <2> QED
    BY <2>1, <2>8
<1>2. ASSUME NEW p \in Programs, BootFail(p) PROVE \A t \in Slots : SlotTokens(t)'
  <2>1. \A q \in Requests, t \in Slots : Holds(q, t)' <=> Holds(q, t)
    BY <1>2 DEF BootFail, Holds, reqVars
  <2> SUFFICES ASSUME NEW t \in Slots PROVE SlotTokens(t)'
    OBVIOUS
  <2>2. ready[ProgOf[t]] = "ok" => ready'[ProgOf[t]] = "ok"
    BY SMT, <1>2, <1>y DEF BootFail
  <2> QED
    BY <1>2, <1>t, <2>1, <2>2, Frame DEF BootFail, poolVars
<1>3. ASSUME NEW s \in Slots, BootNext(s) PROVE \A t \in Slots : SlotTokens(t)'
  <2>q. \A n \in Nodes, t \in Slots :
           queue'[n][t] = IF n = Home[s] /\ t = s THEN queue[n][t] + 1 ELSE queue[n][t]
    <3>1. Enqueue(Home[s], s) /\ Home[s] \in Nodes
      BY <1>3, <1>a DEF BootNext
    <3> QED
      BY <3>1, <1>q, EnqueueCounts
  <2>1. ASSUME NEW t \in Slots, t # s PROVE SlotTokens(t)'
    <3>1. /\ \A n \in Nodes : queue'[n][t] = queue[n][t]
          /\ boot'[t] = boot[t]
      BY <1>3, <2>1, <2>q, <1>y DEF BootNext
    <3>2. \A q \in Requests : Holds(q, t)' <=> Holds(q, t)
      BY <1>3 DEF BootNext, Holds, reqVars
    <3> QED
      BY <1>3, <1>t, <3>1, <3>2, Frame DEF BootNext
  <2>2. /\ pending[s] = 0
        /\ \A n \in Nodes : queue[n][s] = 0
        /\ \A q \in Requests : ~Holds(q, s)
    BY <1>3, <1>t, FromNowhere DEF BootNext
  <2>3. pending'[s] = 0 /\ boot'[s] = "up" /\ ready'[ProgOf[s]] = "ok"
    BY <1>3, <2>2, <1>y DEF BootNext
  <2>4. \A q \in Requests : ~Holds(q, s)'
    BY <1>3, <2>2 DEF BootNext, Holds, reqVars
  <2>5. \A n \in Nodes : queue'[n][s] = IF n = Home[s] THEN 1 ELSE 0
    BY SMT, <2>q, <2>2
  <2>6. SlotTokens(s)'
    BY <1>a, <2>3, <2>4, <2>5, InOneQueue
  <2> QED
    BY <2>1, <2>6
<1>4. ASSUME NEW s \in Slots, BootNextFail(s) PROVE \A t \in Slots : SlotTokens(t)'
  <2>1. \A q \in Requests, t \in Slots : Holds(q, t)' <=> Holds(q, t)
    BY <1>4 DEF BootNextFail, Holds, reqVars
  <2>2. ASSUME NEW t \in Slots, t # s PROVE SlotTokens(t)'
    <3>1. boot'[t] = boot[t]
      BY <1>4, <2>2, <1>y DEF BootNextFail
    <3> QED
      BY <1>4, <1>t, <2>1, <3>1, Frame DEF BootNextFail, poolVars
  <2>3. boot[s] = "none" /\ boot'[s] = "failed" /\ UNCHANGED <<queue, pending, prog_ref, ready>>
    BY <1>4, <1>y DEF BootNextFail, poolVars
  <2>4. Queued(s)' <=> Queued(s)
    BY <2>3 DEF Queued
  <2>5. SlotTokens(s)'
    BY <1>t, <2>1, <2>3, <2>4 DEF SlotTokens
  <2> QED
    BY <2>2, <2>5
<1>5. ASSUME NEW r \in Requests, NEW s \in Slots, Dequeue(r, s) PROVE \A t \in Slots : SlotTokens(t)'
  <2>1. ASSUME NEW t \in Slots, t # s PROVE SlotTokens(t)'
    <3>1. /\ \A n \in Nodes : queue'[n][t] = queue[n][t]
          /\ prog_ref'[t] = prog_ref[t]
      BY <1>5, <2>1, <1>q, <1>y DEF Dequeue
    <3>2. \A q \in Requests : Holds(q, t)' <=> Holds(q, t)
      BY <1>5, <2>1, <1>r, <1>q DEF Dequeue, Holds
    <3> QED
      BY <1>5, <1>t, <3>1, <3>2, Frame DEF Dequeue, bootVars
  <2>2. node[r] \in Nodes /\ queue[node[r]][s] > 0
    BY <1>5, <1>q, <1>y DEF Dequeue
  <2>3. /\ pending[s] = 0 /\ boot[s] = "up" /\ ready[ProgOf[s]] = "ok"
        /\ \A q \in Requests : ~Holds(q, s)
        /\ \A n \in Nodes : queue[n][s] = IF n = node[r] THEN 1 ELSE 0
    BY <1>t, <2>2, FromQueue
  <2>4. \A q \in Requests : Holds(q, s)' <=> q = r
    BY <1>5, <2>3, <1>r, <1>q DEF Dequeue, Holds
  <2>5. \A n \in Nodes : queue'[n][s] = 0
    <3>1. queue' = [queue EXCEPT ![node[r]][s] = @ - 1]
      BY <1>5 DEF Dequeue
    <3>2. queue[node[r]][s] = 1
      BY <2>2, <2>3
    <3> QED
      BY SMT, <3>1, <3>2, <2>2, <2>3, <1>q
  <2>6. /\ pending'[s] = 0 /\ boot'[s] = "up" /\ ready'[ProgOf[s]] = "ok"
        /\ prog_ref'[s] = ProgOf[s]
    BY <1>5, <2>3, <1>q, <1>y DEF Dequeue, bootVars
  <2>7. SlotTokens(s)'
    BY <2>4, <2>5, <2>6, WithOneRequest
  <2> QED
    BY <2>1, <2>7
<1>6. ASSUME NEW r \in Requests, NEW n0 \in Nodes, FreeInline(r, n0) PROVE \A t \in Slots : SlotTokens(t)'
  <2>1. PICK s \in Slots : s = slot[r] /\ Holds(r, s)
    BY <1>6 DEF FreeInline, IInv, Pointers, Holds
  <2>2. ASSUME NEW t \in Slots, t # s PROVE SlotTokens(t)'
    <3>1. /\ \A n \in Nodes : queue'[n][t] = queue[n][t]
          /\ prog_ref'[t] = prog_ref[t]
      BY <1>6, <2>1, <2>2, <1>q, <1>y DEF FreeInline, Enqueue
    <3>2. \A q \in Requests : Holds(q, t)' <=> Holds(q, t)
      BY <1>6, <2>1, <2>2, <1>r DEF FreeInline, Holds
    <3> QED
      BY <1>6, <1>t, <3>1, <3>2, Frame DEF FreeInline, bootVars
  <2>3. /\ pending[s] = 0 /\ boot[s] = "up" /\ ready[ProgOf[s]] = "ok"
        /\ \A q \in Requests : Holds(q, s) => q = r
        /\ \A n \in Nodes : queue[n][s] = 0
    BY <1>t, <2>1, FromRequest
  <2>4. \A q \in Requests : ~Holds(q, s)'
    BY <1>6, <2>1, <2>3, <1>r DEF FreeInline, Holds
  <2>5. \A n \in Nodes : queue'[n][s] = IF n = n0 THEN 1 ELSE 0
    <3>1. Enqueue(n0, s)
      BY <1>6, <2>1 DEF FreeInline
    <3> QED
      BY SMT, <3>1, <2>3, <1>q, EnqueueCounts
  <2>6. pending'[s] = 0 /\ boot'[s] = "up" /\ ready'[ProgOf[s]] = "ok"
    BY <1>6, <2>3 DEF FreeInline, bootVars
  <2>7. SlotTokens(s)'
    BY <2>4, <2>5, <2>6, InOneQueue
  <2> QED
    BY <2>2, <2>7
<1>7. ASSUME NEW r \in Requests, FreeDeferred(r) PROVE \A t \in Slots : SlotTokens(t)'
  <2>1. PICK s \in Slots : s = slot[r] /\ Holds(r, s)
    BY <1>7 DEF FreeDeferred, IInv, Pointers, Holds
  <2>2. ASSUME NEW t \in Slots, t # s PROVE SlotTokens(t)'
    <3>1. pending'[t] = pending[t]
      BY <1>7, <2>1, <2>2, <1>y DEF FreeDeferred
    <3>2. \A q \in Requests : Holds(q, t)' <=> Holds(q, t)
      BY <1>7, <2>1, <2>2, <1>r DEF FreeDeferred, Holds
    <3> QED
      BY <1>7, <1>t, <3>1, <3>2, Frame DEF FreeDeferred, bootVars
  <2>3. /\ pending[s] = 0 /\ boot[s] = "up" /\ ready[ProgOf[s]] = "ok"
        /\ prog_ref[s] = ProgOf[s]
        /\ \A q \in Requests : Holds(q, s) => q = r
        /\ \A n \in Nodes : queue[n][s] = 0
    BY <1>t, <2>1, FromRequest
  <2>4. \A q \in Requests : ~Holds(q, s)'
    BY <1>7, <2>1, <2>3, <1>r DEF FreeDeferred, Holds
  <2>5. pending'[s] = 1
    <3>1. pending' = [pending EXCEPT ![s] = @ + 1]
      BY <1>7, <2>1 DEF FreeDeferred
    <3> QED
      BY SMT, <3>1, <2>3, <1>y
  <2>6. SlotTokens(s)'
    BY <1>7, <2>3, <2>4, <2>5, InOneTask DEF FreeDeferred, bootVars
  <2> QED
    BY <2>2, <2>6
<1>8. ASSUME NEW s \in Slots, NEW n0 \in Nodes, ResetTask(s, n0) PROVE \A t \in Slots : SlotTokens(t)'
  <2>1. ASSUME NEW t \in Slots, t # s PROVE SlotTokens(t)'
    <3>1. /\ \A n \in Nodes : queue'[n][t] = queue[n][t]
          /\ prog_ref'[t] = prog_ref[t]
          /\ pending'[t] = pending[t]
      BY <1>8, <2>1, <1>q, <1>y DEF ResetTask, Enqueue
    <3>2. \A q \in Requests : Holds(q, t)' <=> Holds(q, t)
      BY <1>8 DEF ResetTask, Holds, reqVars
    <3> QED
      BY <1>8, <1>t, <3>1, <3>2, Frame DEF ResetTask, bootVars
  <2>2. /\ pending[s] = 1 /\ boot[s] = "up" /\ ready[ProgOf[s]] = "ok"
        /\ \A q \in Requests : ~Holds(q, s)
        /\ \A n \in Nodes : queue[n][s] = 0
    BY <1>8, <1>t, FromTask DEF ResetTask
  <2>3. pending'[s] = 0
    <3>1. pending' = [pending EXCEPT ![s] = @ - 1]
      BY <1>8 DEF ResetTask
    <3> QED
      BY SMT, <3>1, <2>2, <1>y
  <2>4. \A n \in Nodes : queue'[n][s] = IF n = n0 THEN 1 ELSE 0
    <3>1. Enqueue(n0, s)
      BY <1>8 DEF ResetTask
    <3> QED
      BY SMT, <3>1, <2>2, <1>q, EnqueueCounts
  <2>5. \A q \in Requests : ~Holds(q, s)'
    BY <1>8, <2>2 DEF ResetTask, Holds, reqVars
  <2>6. SlotTokens(s)'
    BY <1>8, <2>2, <2>3, <2>4, <2>5, InOneQueue DEF ResetTask, bootVars
  <2> QED
    BY <2>1, <2>6
<1>9. ASSUME NEW r \in Requests,
             Ref(r) \/ MainVMReady(r) \/ MainVMFailed(r) \/ Timeout(r) \/ AssignFuture(r) \/ DropRef(r)
      PROVE Tokens'
  <2>1. /\ \A q \in Requests, s \in Slots : Holds(q, s)' <=> Holds(q, s)
        /\ UNCHANGED <<queue, pending, prog_ref, boot, ready>>
    BY <1>9, <1>r, <1>y DEF Ref, MainVMReady, MainVMFailed, Timeout, AssignFuture, DropRef, Holds, poolVars, bootVars
  <2> QED
    BY <1>0, <2>1
<1>10. ASSUME UNCHANGED <<queue, pending, prog_ref, reqVars, bootVars>> PROVE Tokens'
  BY <1>0, <1>10 DEF Holds, reqVars, bootVars
<1>11. ASSUME NEW s \in Slots, DropTaskRef(s) PROVE Tokens'
  BY <1>10, <1>11 DEF DropTaskRef
<1>12. ASSUME NEW u \in Updaters, UpdStep(u) PROVE Tokens'
  BY <1>10, <1>12 DEF UpdStep, InitWaited, LoadCurrent, Swap, DropCurrent, DropNew, poolVars
<1>13. ASSUME NEW u \in Updaters, NEW p \in Programs, Construct(u, p) PROVE Tokens'
  BY <1>10, <1>13 DEF Construct, poolVars
<1>14. ASSUME NEW p \in Programs, Destroy(p) PROVE Tokens'
  BY <1>10, <1>14 DEF Destroy, poolVars
<1>15. ASSUME UNCHANGED vars PROVE Tokens'
  BY <1>10, <1>15 DEF vars, poolVars
<1>16. (\A t \in Slots : SlotTokens(t)') => Tokens'
  BY TokensBySlot DEF Tokens, Exclusive, NoLostVM, FreeFindsProgram, OnlyStarted, SlotTokens
<1> QED
  BY <1>1, <1>2, <1>3, <1>4, <1>5, <1>6, <1>7, <1>8, <1>9, <1>11, <1>12, <1>13, <1>14, <1>15, <1>16
     DEF Next, Boot, SlotsOf, ReqNext, Reserve, Free, SlotNext

\* A step that creates no reference, dropping at most p on thread x, leaves
\* referenced programs alone.
LEMMA AliveIfNoNewRefs ==
  ASSUME TypeOK, ReferencedIsAlive, UNCHANGED life,
         \A p \in Programs : Referenced(p)' => Referenced(p),
         \/ UNCHANGED dtor
         \/ \E x \in Threads, d \in Progs0 : (d \in Programs => Referenced(d)) /\ Dropped(x, d)
  PROVE  ReferencedIsAlive'
<1> SUFFICES ASSUME NEW p \in Programs
             PROVE  /\ Referenced(p)' => life'[p] = "live" /\ dtor'[p] = NoThread
                    /\ dtor'[p] # NoThread => life'[p] = "live"
  BY DEF ReferencedIsAlive
<1>1. CASE UNCHANGED dtor
  BY <1>1 DEF ReferencedIsAlive
<1>2. CASE \E x \in Threads, d \in Progs0 : (d \in Programs => Referenced(d)) /\ Dropped(x, d)
  <2>1. PICK x \in Threads, d \in Progs0 : (d \in Programs => Referenced(d)) /\ Dropped(x, d)
    BY <1>2
  <2>2. dtor'[p] = IF p = d /\ ~Referenced(p)' THEN x ELSE dtor[p]
    BY <2>1 DEF Dropped
  <2> QED
    BY <2>1, <2>2 DEF ReferencedIsAlive
<1> QED
  BY <1>1, <1>2

\* Every step keeps referenced programs alive: only the thread that drops the
\* last reference enters the destructor.
LEMMA AliveStep == IInv /\ [Next]_vars => ReferencedIsAlive'
<1> SUFFICES ASSUME IInv, [Next]_vars PROVE ReferencedIsAlive'
  OBVIOUS
<1> USE DEF IInv
<1>1. ASSUME NEW p \in Programs, Boot(p) PROVE ReferencedIsAlive'
  <2>1. UNCHANGED <<program, life, dtor, prog_ref, taskref, reqVars, updVars>>
    BY <1>1 DEF Boot, BootFirst, BootFail, BootNext, BootNextFail, poolVars
  <2>2. \A q \in Programs : Referenced(q)' => Referenced(q)
    BY <2>1 DEF Referenced, reqVars, updVars
  <2> QED
    BY <2>1, <2>2, AliveIfNoNewRefs
<1>2. ASSUME NEW p \in Programs, Destroy(p) PROVE ReferencedIsAlive'
  <2>1. \A q \in Programs : Referenced(q)' <=> Referenced(q)
    BY <1>2 DEF Destroy, Referenced, poolVars, reqVars, updVars
  <2>2. ~Referenced(p)
    BY <1>2 DEF Destroy, ReferencedIsAlive
  <2> QED
    BY <1>2, <2>1, <2>2 DEF Destroy, ReferencedIsAlive, TypeOK
<1>3. ASSUME NEW r \in Requests, Ref(r) PROVE ReferencedIsAlive'
  <2>1. \A q \in Programs : Referenced(q)' => Referenced(q)
    BY <1>3 DEF Ref, Referenced, TypeOK, poolVars, updVars
  <2> QED
    BY <1>3, <2>1, AliveIfNoNewRefs DEF Ref
<1>4. ASSUME NEW r \in Requests, MainVMReady(r) \/ MainVMFailed(r) \/ Timeout(r) \/ AssignFuture(r) \/ FreeDeferred(r)
      PROVE ReferencedIsAlive'
  <2>1. UNCHANGED <<program, life, dtor, prog_ref, taskref, prog, updVars>>
    BY <1>4 DEF MainVMReady, MainVMFailed, Timeout, AssignFuture, FreeDeferred, poolVars
  <2>2. \A q \in Programs : Referenced(q)' => Referenced(q)
    BY <2>1 DEF Referenced, updVars
  <2> QED
    BY <2>1, <2>2, AliveIfNoNewRefs
<1>5. ASSUME NEW r \in Requests, NEW s \in Slots, Dequeue(r, s) PROVE ReferencedIsAlive'
  <2>1. \A q \in Programs : Referenced(q)' => Referenced(q)
    BY <1>5 DEF Dequeue, Referenced, TypeOK, updVars
  <2> QED
    BY <1>5, <2>1, AliveIfNoNewRefs DEF Dequeue
<1>6. ASSUME NEW r \in Requests, NEW n \in Nodes, FreeInline(r, n) PROVE ReferencedIsAlive'
  <2>1. \A q \in Programs : Referenced(q)' => Referenced(q)
    BY <1>6 DEF FreeInline, Referenced, TypeOK, Pointers, updVars
  <2> QED
    BY <1>6, <2>1, AliveIfNoNewRefs DEF FreeInline
<1>7. ASSUME NEW r \in Requests, DropRef(r) PROVE ReferencedIsAlive'
  <2>1. \A q \in Programs : Referenced(q)' => Referenced(q)
    BY <1>7 DEF DropRef, Referenced, TypeOK, poolVars, updVars
  <2>2. prog[r] \in Progs0 /\ r \in Threads /\ (prog[r] \in Programs => Referenced(prog[r]))
    BY DEF TypeOK, Threads, Referenced
  <2> QED
    BY <1>7, <2>1, <2>2, AliveIfNoNewRefs DEF DropRef
<1>8. ASSUME NEW s \in Slots, NEW n \in Nodes, ResetTask(s, n) PROVE ReferencedIsAlive'
  <2>1. \A q \in Programs : Referenced(q)' => Referenced(q)
    BY <1>8 DEF ResetTask, Referenced, TypeOK, reqVars, updVars
  <2> QED
    BY <1>8, <2>1, AliveIfNoNewRefs DEF ResetTask
<1>9. ASSUME NEW s \in Slots, DropTaskRef(s) PROVE ReferencedIsAlive'
  <2>1. \A q \in Programs : Referenced(q)' => Referenced(q)
    BY <1>9 DEF DropTaskRef, Referenced, TypeOK, reqVars, updVars
  <2>2. taskref[s] \in Progs0 /\ s \in Threads /\ (taskref[s] \in Programs => Referenced(taskref[s]))
    BY DEF TypeOK, Threads, Referenced
  <2> QED
    BY <1>9, <2>1, <2>2, AliveIfNoNewRefs DEF DropTaskRef
<1>10. ASSUME NEW u \in Updaters, InitWaited(u) \/ LoadCurrent(u) PROVE ReferencedIsAlive'
  <2>1. \A q \in Programs : Referenced(q)' => Referenced(q)
    <3>1. CASE InitWaited(u)
      BY <3>1 DEF InitWaited, Referenced, reqVars, poolVars
    <3>2. CASE LoadCurrent(u)
      BY <3>2 DEF LoadCurrent, Referenced, TypeOK, reqVars, poolVars
    <3> QED
      BY <1>10, <3>1, <3>2
  <2> QED
    BY <1>10, <2>1, AliveIfNoNewRefs DEF InitWaited, LoadCurrent
<1>11. ASSUME NEW u \in Updaters, Swap(u) PROVE ReferencedIsAlive'
  <2>1. \A q \in Programs : Referenced(q)' => Referenced(q)
    BY <1>11 DEF Swap, Referenced, TypeOK, reqVars, poolVars
  <2>2. program \in Progs0 /\ u \in Threads /\ (program \in Programs => Referenced(program))
    BY DEF TypeOK, Threads, Referenced
  <2> QED
    BY <1>11, <2>1, <2>2, AliveIfNoNewRefs DEF Swap
<1>12. ASSUME NEW u \in Updaters, DropCurrent(u) PROVE ReferencedIsAlive'
  <2>1. \A q \in Programs : Referenced(q)' => Referenced(q)
    BY <1>12 DEF DropCurrent, Referenced, TypeOK, reqVars, poolVars
  <2>2. cur[u] \in Progs0 /\ u \in Threads /\ (cur[u] \in Programs => Referenced(cur[u]))
    BY DEF TypeOK, Threads, Referenced
  <2> QED
    BY <1>12, <2>1, <2>2, AliveIfNoNewRefs DEF DropCurrent
<1>13. ASSUME NEW u \in Updaters, DropNew(u) PROVE ReferencedIsAlive'
  <2>1. \A q \in Programs : Referenced(q)' => Referenced(q)
    BY <1>13 DEF DropNew, Referenced, TypeOK, reqVars, poolVars
  <2>2. newp[u] \in Progs0 /\ u \in Threads /\ (newp[u] \in Programs => Referenced(newp[u]))
    BY DEF TypeOK, Threads, Referenced
  <2> QED
    BY <1>13, <2>1, <2>2, AliveIfNoNewRefs DEF DropNew
<1>14. ASSUME NEW u \in Updaters, NEW p \in Programs, Construct(u, p) PROVE ReferencedIsAlive'
  <2>1. \A q \in Programs : Referenced(q)' => Referenced(q) \/ q = p
    BY <1>14 DEF Construct, Referenced, TypeOK, reqVars, poolVars
  <2> QED
    BY <1>14, <2>1 DEF Construct, ReferencedIsAlive, TypeOK
<1>15. ASSUME UNCHANGED vars PROVE ReferencedIsAlive'
  BY <1>15 DEF vars, poolVars, reqVars, updVars, ReferencedIsAlive, Referenced
<1> QED
  BY <1>1, <1>2, <1>3, <1>4, <1>5, <1>6, <1>7, <1>8, <1>9, <1>10, <1>11, <1>12, <1>13, <1>14, <1>15
     DEF Next, ReqNext, Reserve, Free, SlotNext, UpdStep

\* The four parts together are inductive.
LEMMA StepIInv == IInv /\ [Next]_vars => IInv'
BY TypeStep, PointersStep, TokensStep, AliveStep DEF IInv

\* Hence they hold in every reachable state.
LEMMA InductiveInvariant == Spec => []IInv
BY InitIInv, StepIInv, PTL DEF Spec

\* Type correctness, for every size of the pool.
THEOREM TypeCorrect == Spec => []TypeOK
<1>1. IInv => TypeOK
  BY DEF IInv
<1> QED
  BY <1>1, InductiveInvariant, PTL

\* A VM is never in two places at once: two requests never own the same VM
\* and a VM never sits in the queue while it is owned or being reset.
THEOREM PoolIsExclusive == Spec => []Exclusive
<1>1. IInv => Exclusive
  BY DEF IInv, Tokens
<1> QED
  BY <1>1, InductiveInvariant, PTL

\* A started VM is never lost, and whoever frees it finds its program.
THEOREM PoolConservesVMs == Spec => [](NoLostVM /\ FreeFindsProgram)
<1>1. IInv => NoLostVM /\ FreeFindsProgram
  BY DEF IInv, Tokens
<1> QED
  BY <1>1, InductiveInvariant, PTL

\* UsedIsAlive: no program is destroyed while it is current, a request waits for
\* one of its VMs or has one, or a VM of it is to be reset: FreeFindsProgram puts
\* the reference that keeps it where its users are.
THEOREM ProgramsOutliveUsers == Spec => []UsedIsAlive
<1>1. IInv => UsedIsAlive
  <2> SUFFICES ASSUME IInv, NEW p \in Programs, Used(p) PROVE Referenced(p)
    BY DEF IInv, ReferencedIsAlive, UsedIsAlive
  <2>1. ASSUME NEW s \in SlotsOf(p), pending[s] > 0 \/ \E r \in Requests : Holds(r, s)
        PROVE  prog_ref[s] = p /\ s \in Slots
    BY <2>1 DEF IInv, Tokens, FreeFindsProgram, SlotsOf
  <2> QED
    BY <2>1 DEF Used, Referenced
<1> QED
  BY <1>1, InductiveInvariant, PTL

(***************************************************************************)
(* The pool keeps what the comments on VMPoolItem and ProgramInstance      *)
(* promise: VMPool implements ExclusivePool.                               *)
(***************************************************************************)
owners == [s \in Slots |-> Owner(s)]
dead   == {p \in Programs : life[p] = "dead"}

\* Who has a slot follows from where it is.
OwnerIs(s) ==
    /\ boot[s] # "up" => Owner(s) = "absent"
    /\ \A r \in Requests : Holds(r, s) => Owner(s) = r
    /\ pending[s] > 0 => Owner(s) = "resetting"
    /\ boot[s] = "up" /\ ~(pending[s] > 0) /\ (\A r \in Requests : ~Holds(r, s)) => Owner(s) = "idle"

\* The invariant of the pool makes these cases exclusive.
LEMMA OwnerKnown == IInv => \A s \in Slots : OwnerIs(s)
<1> SUFFICES ASSUME IInv, NEW s \in Slots PROVE OwnerIs(s) OBVIOUS
<1>1. SlotTokens(s) BY TokensBySlot DEF IInv
<1>2. CASE boot[s] # "up"
  <2>1. pending[s] = 0 /\ \A q \in Requests : ~Holds(q, s) BY <1>1, <1>2, FromNowhere
  <2> QED BY SMT, <1>2, <2>1 DEF OwnerIs, Owner
<1>3. ASSUME boot[s] = "up", NEW r \in Requests, Holds(r, s) PROVE OwnerIs(s)
  <2>1. pending[s] = 0 /\ \A q \in Requests : Holds(q, s) => q = r BY <1>1, <1>3, FromRequest
  <2>2. Owner(s) = r BY <1>3, <2>1 DEF Owner
  <2> QED BY SMT, <1>3, <2>1, <2>2 DEF OwnerIs
<1>4. CASE boot[s] = "up" /\ \A q \in Requests : ~Holds(q, s) BY <1>4 DEF OwnerIs, Owner
<1> QED BY <1>2, <1>3, <1>4

\* The same, after a step.
LEMMA OwnerKnownNext == IInv' => (\A s \in Slots : OwnerIs(s))'
BY OwnerKnown, PTL

\* A slot whose fork, task and holders stay keeps its owner.
LEMMA OwnerFrame ==
    ASSUME IInv, IInv', NEW t \in Slots, boot'[t] = "up" <=> boot[t] = "up",
           pending'[t] = pending[t],
           \A q \in Requests : Holds(q, t)' <=> Holds(q, t)
    PROVE  Owner(t)' = Owner(t)
<1>1. OwnerIs(t) BY OwnerKnown
<1>2. OwnerIs(t)' BY OwnerKnownNext
<1>3. CASE boot[t] # "up" BY <1>1, <1>2, <1>3 DEF OwnerIs
<1>4. ASSUME NEW r \in Requests, Holds(r, t) PROVE Owner(t)' = Owner(t)
  BY ZenonT(90), <1>1, <1>2, <1>4 DEF OwnerIs
<1>5. CASE pending[t] > 0 BY SMT, <1>1, <1>2, <1>5 DEF OwnerIs
<1>6. CASE boot[t] = "up" /\ ~(pending[t] > 0) /\ \A r \in Requests : ~Holds(r, t)
  BY <1>1, <1>2, <1>6 DEF OwnerIs
<1> QED BY <1>3, <1>4, <1>5, <1>6

\* One slot changes hands.
LEMMA Change ==
    ASSUME NEW s \in Slots, NEW o, Owner(s)' = o, \A t \in Slots \ {s} : Owner(t)' = Owner(t)
    PROVE  owners' = [owners EXCEPT ![s] = o]
BY DEF owners

\* A step that moves no VM and ends no program is none of the promise.
LEMMA Stutters ==
    ASSUME IInv, IInv', UNCHANGED <<life, pending>>,
           \A t \in Slots : (boot'[t] = "up" <=> boot[t] = "up"),
           \A t \in Slots, q \in Requests : Holds(q, t)' <=> Holds(q, t)
    PROVE  UNCHANGED <<owners, dead>>
<1>1. ASSUME NEW t \in Slots PROVE Owner(t)' = Owner(t) BY OwnerFrame
<1> QED BY SMT, <1>1 DEF owners, dead

\* The initial state of the pool.
LEMMA InitMaps == Init => Promise!Init
<1> SUFFICES ASSUME Init PROVE Promise!Init OBVIOUS
<1>1. \A s \in Slots : Owner(s) = "absent" BY DEF Init, Owner
<1>2. {p \in Programs : life[p] = "dead"} = {} BY DEF Init
<1> QED BY <1>1, <1>2 DEF Promise!Init

Mapped == Promise!Next \/ UNCHANGED <<owners, dead>>

\* begin_initialization: a fork that succeeds starts a VM.
LEMMA ForkMaps ==
    ASSUME IInv, IInv', NEW s \in Slots, UNCHANGED <<life, pending, reqVars>>,
           life[ProgOf[s]] = "live", boot[s] # "up", boot' = [boot EXCEPT ![s] = "up"]
    PROVE  Mapped
<1>1. OwnerIs(s) /\ SlotTokens(s) BY OwnerKnown, TokensBySlot DEF IInv
<1>2. OwnerIs(s)' BY OwnerKnownNext
<1>3. \A q \in Requests, t \in Slots : Holds(q, t)' <=> Holds(q, t) BY DEF Holds, reqVars
<1>4. boot'[s] = "up" /\ \A t \in Slots \ {s} : boot'[t] = boot[t] BY DEF IInv, TypeOK
<1>5. pending[s] = 0 /\ \A q \in Requests : ~Holds(q, s) BY <1>1, FromNowhere
<1>6. Owner(s)' = "idle" BY SMT, <1>2, <1>3, <1>4, <1>5 DEF OwnerIs
<1>7. \A t \in Slots \ {s} : Owner(t)' = Owner(t) BY <1>3, <1>4, OwnerFrame
<1>8. owners' = [owners EXCEPT ![s] = "idle"] BY <1>6, <1>7, Change
<1>9. owners[s] = "absent" /\ ProgOf[s] \notin dead BY <1>1 DEF OwnerIs, owners, dead
<1> QED BY <1>8, <1>9 DEF Mapped, Promise!Next, Promise!Start, owners, dead

\* reserve_vm: a VM that waits in the queue goes to the request, whose program
\* is alive, and which has no other VM.
LEMMA DequeueMaps ==
    ASSUME IInv, IInv', NEW r \in Requests, NEW s \in Slots, Dequeue(r, s) PROVE Mapped
<1>1. OwnerIs(s) /\ SlotTokens(s) BY OwnerKnown, TokensBySlot DEF IInv
<1>2. OwnerIs(s)' BY OwnerKnownNext
<1>3. node[r] \in Nodes /\ queue[node[r]][s] > 0 BY DEF IInv, TypeOK, Dequeue
<1>4. pending[s] = 0 /\ boot[s] = "up" /\ \A q \in Requests : ~Holds(q, s) BY <1>1, <1>3, FromQueue
<1>5. Holds(r, s)' BY SMT DEF IInv, TypeOK, Dequeue, Holds
<1>6. \A q \in Requests, t \in Slots \ {s} : Holds(q, t)' <=> Holds(q, t)
  BY SMT DEF IInv, TypeOK, Dequeue, Holds
<1>7. Owner(s) = "idle" BY SMT, <1>1, <1>4 DEF OwnerIs
<1>8. Owner(s)' = r BY <1>2, <1>5 DEF OwnerIs
<1>9. \A t \in Slots \ {s} : Owner(t)' = Owner(t) BY <1>6, OwnerFrame DEF Dequeue, bootVars
<1>10. owners' = [owners EXCEPT ![s] = r] BY <1>8, <1>9, Change
<1>11. ProgOf[s] \notin dead
  <2>1. ProgOf[s] \in Programs /\ prog[r] = ProgOf[s] BY PoolAssumption DEF Dequeue
  <2> QED BY <2>1 DEF IInv, ReferencedIsAlive, Referenced, dead
<1>12. ASSUME NEW t \in Slots PROVE Owner(t) # r
  <2>1. OwnerIs(t) BY OwnerKnown
  <2>2. ~Holds(r, t) BY DEF Dequeue, Holds
  <2>3. r \notin {"absent", "idle", "resetting"} BY OwnerAssumption
  <2>4. CASE boot[t] # "up" BY <2>1, <2>3, <2>4 DEF OwnerIs
  <2>5. ASSUME NEW q \in Requests, Holds(q, t) PROVE Owner(t) # r BY <2>1, <2>2, <2>5 DEF OwnerIs
  <2>6. CASE pending[t] > 0 BY <2>1, <2>3, <2>6 DEF OwnerIs
  <2>7. CASE boot[t] = "up" /\ ~(pending[t] > 0) /\ \A q \in Requests : ~Holds(q, t)
    BY <2>1, <2>3, <2>7 DEF OwnerIs
  <2> QED BY <2>4, <2>5, <2>6, <2>7
<1>13. UNCHANGED dead BY DEF Dequeue, dead
<1>14. owners[s] = "idle" /\ \A t \in Slots : owners[t] # r BY <1>7, <1>12 DEF owners
<1> QED BY <1>10, <1>11, <1>13, <1>14 DEF Mapped, Promise!Next, Promise!Acquire, owners, dead

\* vm_free_function: the VM is free again, or its thread resets it first.
LEMMA FreeMaps ==
    ASSUME IInv, IInv', NEW r \in Requests,
           FreeDeferred(r) \/ \E n \in Nodes : FreeInline(r, n)
    PROVE  Mapped
<1>0. PICK s \in Slots : slot[r] = s BY DEF IInv, Pointers, FreeDeferred, FreeInline
<1>1. Holds(r, s) BY <1>0 DEF FreeDeferred, FreeInline, Holds
<1>2. OwnerIs(s) /\ SlotTokens(s) BY <1>1, OwnerKnown, TokensBySlot DEF IInv
<1>3. OwnerIs(s)' BY <1>1, OwnerKnownNext
<1>4. pending[s] = 0 /\ boot[s] = "up" /\ \A q \in Requests : Holds(q, s) => q = r
  BY <1>1, <1>2, FromRequest
<1>5. /\ \A q \in Requests : Holds(q, s)' => q # r /\ Holds(q, s)
      /\ \A q \in Requests, t \in Slots \ {s} : Holds(q, t)' <=> Holds(q, t)
      /\ \A t \in Slots \ {s} : pending'[t] = pending[t]
  BY SMT, <1>0 DEF IInv, TypeOK, FreeDeferred, FreeInline, Holds
<1>6. UNCHANGED <<life, boot>> BY DEF FreeDeferred, FreeInline, bootVars
<1>7. \A q \in Requests : ~Holds(q, s)' BY <1>4, <1>5
<1>8. Owner(s)' \in {"idle", "resetting"} BY <1>3, <1>4, <1>6, <1>7 DEF OwnerIs
<1>9. \A t \in Slots \ {s} : Owner(t)' = Owner(t) BY <1>5, <1>6, OwnerFrame
<1>10. PICK o \in {"idle", "resetting"} : Owner(s)' = o BY <1>8
<1>11. owners' = [owners EXCEPT ![s] = o] BY <1>1, <1>9, <1>10, Change
<1>12. owners[s] = r BY <1>1, <1>2 DEF OwnerIs, owners
<1>13. UNCHANGED dead BY <1>6 DEF dead
<1> QED BY <1>1, <1>11, <1>12, <1>13 DEF Mapped, Promise!Next, Promise!Release, owners, dead

\* The reset task: the VM is free again.
LEMMA ResetMaps ==
    ASSUME IInv, IInv', NEW s \in Slots, NEW n \in Nodes, ResetTask(s, n) PROVE Mapped
<1>1. OwnerIs(s) /\ SlotTokens(s) BY OwnerKnown, TokensBySlot DEF IInv
<1>2. OwnerIs(s)' BY OwnerKnownNext
<1>3. pending[s] = 1 /\ boot[s] = "up" /\ \A q \in Requests : ~Holds(q, s)
  BY <1>1, FromTask DEF ResetTask
<1>4. \A q \in Requests, t \in Slots : Holds(q, t)' <=> Holds(q, t) BY DEF ResetTask, Holds, reqVars
<1>5. pending'[s] = 0 /\ \A t \in Slots \ {s} : pending'[t] = pending[t]
  BY SMT, <1>3 DEF IInv, TypeOK, ResetTask
<1>6. UNCHANGED <<life, boot>> BY DEF ResetTask, bootVars
<1>7. Owner(s)' = "idle" BY SMT, <1>2, <1>3, <1>4, <1>5, <1>6 DEF OwnerIs
<1>8. \A t \in Slots \ {s} : Owner(t)' = Owner(t) BY <1>4, <1>5, <1>6, OwnerFrame
<1>9. owners' = [owners EXCEPT ![s] = "idle"] BY <1>7, <1>8, Change
<1>10. owners[s] = "resetting" BY SMT, <1>1, <1>3 DEF OwnerIs, owners
<1>11. UNCHANGED dead BY <1>6 DEF dead
<1> QED BY <1>9, <1>10, <1>11 DEF Mapped, Promise!Next, Promise!Return, owners, dead

\* ~ProgramInstance ends when no VM of the program is with a request or its
\* thread: a request's VM references the program.
LEMMA DestroyMaps ==
    ASSUME IInv, IInv', NEW p \in Programs, Destroy(p) PROVE Mapped
<1>1. ASSUME NEW s \in Slots, ProgOf[s] = p PROVE owners[s] \in {"absent", "idle"}
  <2>1. OwnerIs(s) /\ SlotTokens(s) BY OwnerKnown, TokensBySlot DEF IInv
  <2>2. pending[s] = 0 BY <1>1 DEF Destroy, SlotsOf
  <2>3. ASSUME NEW r \in Requests, Holds(r, s) PROVE FALSE
    <3>1. prog_ref[s] = p BY <1>1, <2>1, <2>3, FromRequest
    <3> QED BY <3>1 DEF IInv, ReferencedIsAlive, Referenced, Destroy
  <2> QED BY SMT, <2>1, <2>2, <2>3 DEF OwnerIs, owners
<1>2. \A t \in Slots : Owner(t)' = Owner(t)
  BY OwnerFrame DEF Destroy, bootVars, poolVars, reqVars, Holds
<1>3. UNCHANGED owners BY <1>2 DEF owners
<1>4. dead' = dead \cup {p} BY SMT DEF IInv, TypeOK, Destroy, dead
<1> QED BY <1>1, <1>3, <1>4 DEF Mapped, Promise!Next, Promise!Retire, owners, dead

\* The steps of requests and VM threads that move no VM.
LEMMA QuietSteps ==
    ASSUME IInv, IInv',
           \/ \E p \in Programs : BootFail(p)
           \/ \E s \in Slots : BootNextFail(s) \/ DropTaskRef(s)
           \/ \E r \in Requests : \/ Ref(r) \/ MainVMReady(r) \/ MainVMFailed(r) \/ Timeout(r)
                                  \/ AssignFuture(r) \/ DropRef(r)
    PROVE  Mapped
<1>1. UNCHANGED <<life, pending>>
  BY DEF BootFail, BootNextFail, DropTaskRef, Ref, MainVMReady, MainVMFailed, Timeout,
         AssignFuture, DropRef, poolVars
<1>2. \A t \in Slots : boot'[t] = "up" <=> boot[t] = "up"
  <2>1. UNCHANGED boot \/ \E s \in Slots : boot[s] = "none" /\ boot' = [boot EXCEPT ![s] = "failed"]
    BY DEF BootFail, BootNextFail, DropTaskRef, Ref, MainVMReady, MainVMFailed, Timeout,
           AssignFuture, DropRef, bootVars
  <2> QED BY <2>1 DEF IInv, TypeOK
<1>3. \A t \in Slots, q \in Requests : Holds(q, t)' <=> Holds(q, t)
  <2>1. CASE \/ \E p \in Programs : BootFail(p)
             \/ \E s \in Slots : BootNextFail(s) \/ DropTaskRef(s)
    BY <2>1 DEF BootFail, BootNextFail, DropTaskRef, reqVars, Holds
  <2>2. ASSUME NEW r \in Requests,
               \/ Ref(r) \/ MainVMReady(r) \/ MainVMFailed(r) \/ Timeout(r)
               \/ AssignFuture(r) \/ DropRef(r)
        PROVE  \A t \in Slots, q \in Requests : Holds(q, t)' <=> Holds(q, t)
    <3>1. /\ pc[r] # "running" /\ pc'[r] # "running"
          /\ \A q \in Requests \ {r} : pc'[q] = pc[q] /\ slot'[q] = slot[q]
      <4>1. /\ pc[r] # "running"
            /\ \E l \in {"reffed", "waiting", "drop", "idle"} : pc' = [pc EXCEPT ![r] = l]
            /\ slot' = slot \/ slot' = [slot EXCEPT ![r] = NoSlot]
        BY <2>2 DEF Ref, MainVMReady, MainVMFailed, Timeout, AssignFuture, DropRef
      <4>2. DOMAIN pc = Requests /\ DOMAIN slot = Requests BY DEF IInv, TypeOK
      <4> QED BY <4>1, <4>2
    <3> QED BY <3>1 DEF Holds
  <2> QED BY <2>1, <2>2
<1> QED BY <1>1, <1>2, <1>3, Stutters DEF Mapped

\* The steps of updaters: a program is constructed, published or dropped.
LEMMA UpdaterSteps ==
    ASSUME IInv, IInv', NEW u \in Updaters,
           UpdStep(u) \/ \E p \in Programs : Construct(u, p)
    PROVE  Mapped
<1>1. UNCHANGED <<boot, pending, reqVars>>
  BY DEF UpdStep, InitWaited, LoadCurrent, Swap, DropCurrent, DropNew, Construct, bootVars, poolVars
<1>2. UNCHANGED owners
  <2>1. ASSUME NEW t \in Slots PROVE Owner(t)' = Owner(t)
    BY <1>1, OwnerFrame DEF reqVars, Holds
  <2> QED BY <2>1 DEF owners
<1>3. UNCHANGED dead
  <2>1. UNCHANGED life \/ \E p \in Programs : life[p] = "unborn" /\ life' = [life EXCEPT ![p] = "live"]
    BY DEF UpdStep, InitWaited, LoadCurrent, Swap, DropCurrent, DropNew, Construct
  <2> QED BY <2>1 DEF IInv, TypeOK, dead
<1> QED BY <1>2, <1>3 DEF Mapped

\* Every step of the pool is a step of the promise, or none.
LEMMA StepMaps == IInv /\ IInv' /\ [Next]_vars => Mapped
<1> SUFFICES ASSUME IInv, IInv', [Next]_vars PROVE Mapped OBVIOUS
<1>1. ASSUME NEW p \in Programs, BootFirst(p) PROVE Mapped
  <2>1. First[p] \in Slots /\ ProgOf[First[p]] = p BY PoolAssumption
  <2>2. boot[First[p]] # "up"
    BY <1>1, <2>1 DEF BootFirst, IInv, Tokens, OnlyStarted
  <2>3. UNCHANGED <<life, pending, reqVars>> /\ boot' = [boot EXCEPT ![First[p]] = "up"]
        /\ life[ProgOf[First[p]]] = "live"
    BY <1>1, <2>1 DEF BootFirst
  <2> QED BY <2>1, <2>2, <2>3, ForkMaps
<1>2. ASSUME NEW s \in Slots, BootNext(s) PROVE Mapped
  BY <1>2, ForkMaps DEF BootNext
<1>3. CASE UNCHANGED vars
  BY <1>3, Stutters DEF vars, bootVars, poolVars, reqVars, Holds, Mapped
<1> QED BY <1>1, <1>2, <1>3, QuietSteps, UpdaterSteps, DequeueMaps, FreeMaps, ResetMaps, DestroyMaps
        DEF Next, Boot, SlotsOf, ReqNext, Reserve, Free, SlotNext

\* Every behaviour of reserve_vm, vm_free_function, the reset tasks, live
\* updates and ~ProgramInstance is one that the documentation promises: a VM
\* belongs to one request from reservation to release, a released VM is reset
\* and comes back, and a program with a VM in use is not destroyed.
THEOREM PoolKeepsPromise == Spec => ImplementsExclusivePool
<1>1. Mapped => [Promise!Next]_<<[s \in Slots |-> Owner(s)], {p \in Programs : life[p] = "dead"}>>
  BY DEF Mapped, owners, dead
<1> QED BY <1>1, InitMaps, StepMaps, InductiveInvariant, PTL DEF Spec, ImplementsExclusivePool, Promise!Spec
=============================================================================

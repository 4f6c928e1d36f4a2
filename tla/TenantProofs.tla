---------------------------- MODULE TenantProofs ----------------------------
(***************************************************************************)
(* The program of a tenant, for any number of requests, starts, updates,   *)
(* unloads and programs.  A thread touches only the programs it can reach  *)
(* (Locality), so that what holds of the other threads stays; what is left *)
(* is what each action does to the thread that takes it.                   *)
(***************************************************************************)
EXTENDS TenantProgram, TLAPS

\* Zenon proves most leaves; those that need arithmetic cite SMT.
USE ZenonT(30)

\* Where an initialization can be; before there is a VM, it is one of Early.
InitLabels == {"done", "fetch", "save", "write", "boot", "rest", "throw", "again"}
Early      == {"fetch", "save", "write", "boot"}

\* What the argument needs of TypeOK.
Types ==
    /\ program \in References
    /\ mtx_future_init \in [Programs -> Threads \cup {Nobody, "init"}]
    /\ m_future \in [Programs -> {"running", "ok", "failed", "invalid"}]
    /\ m_initialization_complete \in [Programs -> {-1, 0, 1}]
    /\ init_pc \in [Programs -> InitLabels]
    /\ origin \in [Programs -> {"load", "update"}]
    /\ pc \in [Threads -> Labels]
    /\ prog \in [Threads -> References]
    /\ old_prog \in [Threads -> References]
    /\ loads \in Nat /\ reloads \in Nat

\* mtx_running_init is held from Lock to Unlock.
RunningInit ==
    \A x \in Threads :
        pc[x] \in {"check", "begin", "construct", "store", "unlock"} => mtx_running_init = x

\* The loads to come are accounted for: that of the thread which constructs a
\* program, and the one that is possible while none was attempted.
LoadBudget ==
    /\ loads <= 1 + reloads
    /\ ~m_started_init => loads + 1 <= 1 + reloads
    /\ \A x \in Threads : pc[x] = "construct" =>
          /\ loads + 1 <= 1 + reloads
          /\ ~m_started_init => loads + 2 <= 1 + reloads

\* How the initialization of a program, its result and its future go together.
Initialization ==
    \A p \in Programs :
       /\ init_pc[p] \in Early => m_initialization_complete[p] = 0 /\ mtx_future_init[p] = "init"
       /\ init_pc[p] = "rest" => m_initialization_complete[p] = 1
       /\ init_pc[p] \in {"throw", "again"} => m_initialization_complete[p] = -1
       /\ (m_future[p] = "running") <=> (init_pc[p] # "done")
       /\ m_future[p] = "ok" => m_initialization_complete[p] = 1

\* Who waits for a program, uses or publishes it, has a reference to it.
Refers(x) ==
    pc[x] \in {"store", "wait", "get", "main vm", "use", "current", "swap"}
        => prog[x] \in Programs

\* What a load publishes is no update, and only updates replace the program:
\* with one that is initialized.
Publishes(x) ==
    /\ pc[x] = "store" => origin[prog[x]] = "load"
    /\ pc[x] \in {"current", "swap"} =>
          /\ x \in Updaters
          /\ m_initialization_complete[prog[x]] = 1 /\ init_pc[prog[x]] = "done"

\* A live update has its program, and that program's future, for itself.
Updates(x) ==
    x \in Updaters =>
       /\ pc[x] \in {"idle", "wait", "get", "current", "swap", "truncate", "write"}
       /\ pc[x] \in {"wait", "get"} => m_future[prog[x]] # "invalid" /\ program # prog[x]

Apart(x, y) ==
    x \in Updaters /\ pc[x] \in {"wait", "get"} => prog[y] # prog[x] /\ old_prog[y] # prog[x]

ThreadInv ==
    /\ \A x \in Threads : Refers(x) /\ Publishes(x) /\ Updates(x)
    /\ \A x, y \in Threads : x # y => Apart(x, y)

IInv == Types /\ RunningInit /\ LoadBudget /\ Initialization /\ ThreadInv

USE TenantAssumption
USE DEF instVars, threadVars, tenantRest, tenantVars, programVars, rest, counts, disk,
        fetchRest, InitLabels, Early, Goto, Return

-----------------------------------------------------------------------------
(* What a thread touches. *)

\* A step of x, in which the programs of N are constructed.
Local(x, N) ==
    /\ \A y \in Threads : y # x =>
          pc'[y] = pc[y] /\ prog'[y] = prog[y] /\ old_prog'[y] = old_prog[y]
    /\ program' \in {program, prog[x], NoProgram}
    /\ prog'[x] \in {program, prog[x], NoProgram} \cup N
    /\ old_prog'[x] \in {program, old_prog[x], NoProgram}
    /\ \A q \in Programs : q \notin N =>
          /\ m_initialization_complete'[q] = m_initialization_complete[q]
          /\ init_pc'[q] = init_pc[q]
          /\ origin'[q] = origin[q]
          /\ q # prog[x] => m_future'[q] = m_future[q]

\* The memory of a new program is in nobody's hands.
LEMMA FreshIsFree ==
  ASSUME NEW p \in Fresh
  PROVE  p \in Programs /\ ~InUse(p)
BY DEF Fresh

\* The steps of a thread that construct nothing.
Plain(x) ==
    \/ Begin(x) \/ Load(x) \/ Lock(x) \/ Check(x)
    \/ BeginInitialize(x) \/ NothingToLoad(x) \/ LoadThrows(x) \/ Store(x)
    \/ Unlock(x) \/ LoadAgain(x) \/ Missing(x) \/ Wait(x)
    \/ Get(x) \/ GetThrows(x) \/ wait_for_main_vm(x) \/ Release(x)
    \/ Refuse(x) \/ Current(x) \/ TransferThrows(x) \/ Swap(x)
    \/ Truncate(x) \/ Write(x) \/ WriteFails(x) \/ Unload(x)
    \/ MakeNull(x) \/ ResetStarted(x) \/ Reloaded(x)

\* These steps are local.
LEMMA Locality ==
  ASSUME Types, NEW x \in Threads, Plain(x)
  PROVE  Types' /\ Local(x, {})
<1>1. CASE Begin(x)
  <2>1. Types'
    BY <1>1 DEF Types, Labels, References, Begin
  <2>2. Local(x, {})
    BY <1>1 DEF Types, References, Local, Begin
  <2>3. QED
    BY <2>1, <2>2
<1>2. CASE Load(x)
  <2>1. Types'
    BY <1>2 DEF Types, Labels, References, Load
  <2>2. Local(x, {})
    BY <1>2 DEF Types, References, Local, Load
  <2>3. QED
    BY <2>1, <2>2
<1>3. CASE Lock(x)
  <2>1. Types'
    BY <1>3 DEF Types, Labels, References, Lock
  <2>2. Local(x, {})
    BY <1>3 DEF Types, References, Local, Lock
  <2>3. QED
    BY <2>1, <2>2
<1>4. CASE Check(x)
  <2>1. Types'
    BY <1>4 DEF Types, Labels, References, Check
  <2>2. Local(x, {})
    BY <1>4 DEF Types, References, Local, Check
  <2>3. QED
    BY <2>1, <2>2
<1>5. CASE BeginInitialize(x)
  <2>1. Types'
    BY <1>5 DEF Types, Labels, References, BeginInitialize
  <2>2. Local(x, {})
    BY <1>5 DEF Types, References, Local, BeginInitialize
  <2>3. QED
    BY <2>1, <2>2
<1>6. CASE NothingToLoad(x)
  <2>1. Types'
    BY <1>6 DEF Types, Labels, References, NothingToLoad
  <2>2. Local(x, {})
    BY <1>6 DEF Types, References, Local, NothingToLoad
  <2>3. QED
    BY <2>1, <2>2
<1>7. CASE LoadThrows(x)
  <2>1. Types'
    BY <1>7 DEF Types, Labels, References, LoadThrows
  <2>2. Local(x, {})
    BY <1>7 DEF Types, References, Local, LoadThrows
  <2>3. QED
    BY <2>1, <2>2
<1>8. CASE Store(x)
  <2>1. Types'
    BY <1>8 DEF Types, Labels, References, Store
  <2>2. Local(x, {})
    BY <1>8 DEF Types, References, Local, Store
  <2>3. QED
    BY <2>1, <2>2
<1>9. CASE Unlock(x)
  <2>1. Types'
    BY <1>9 DEF Types, Labels, References, Unlock
  <2>2. Local(x, {})
    BY <1>9 DEF Types, References, Local, Unlock
  <2>3. QED
    BY <2>1, <2>2
<1>10. CASE LoadAgain(x)
  <2>1. Types'
    BY <1>10 DEF Types, Labels, References, LoadAgain
  <2>2. Local(x, {})
    BY <1>10 DEF Types, References, Local, LoadAgain
  <2>3. QED
    BY <2>1, <2>2
<1>11. CASE Missing(x)
  <2>1. Types'
    BY <1>11 DEF Types, Labels, References, Missing
  <2>2. Local(x, {})
    BY <1>11 DEF Types, References, Local, Missing
  <2>3. QED
    BY <2>1, <2>2
<1>12. CASE Wait(x)
  <2>1. Types'
    BY <1>12 DEF Types, Labels, References, Wait
  <2>2. Local(x, {})
    BY <1>12 DEF Types, References, Local, Wait
  <2>3. QED
    BY <2>1, <2>2
<1>13. CASE Get(x)
  <2>1. Types'
    BY <1>13 DEF Types, Labels, References, Get, TakeFuture
  <2>2. Local(x, {})
    BY <1>13 DEF Types, References, Local, Get, TakeFuture
  <2>3. QED
    BY <2>1, <2>2
<1>14. CASE GetThrows(x)
  <2>1. Types'
    BY <1>14 DEF Types, Labels, References, GetThrows, TakeFuture
  <2>2. Local(x, {})
    BY <1>14 DEF Types, References, Local, GetThrows, TakeFuture
  <2>3. QED
    BY <2>1, <2>2
<1>15. CASE wait_for_main_vm(x)
  <2>1. UNCHANGED <<instVars, program, origin, loads, reloads>>
    BY <1>15 DEF wait_for_main_vm
  <2>2. \/ pc' = [pc EXCEPT ![x] = "use"] /\ UNCHANGED <<prog, old_prog>>
        \/ Return(x)
    BY <1>15 DEF wait_for_main_vm
  <2>3. /\ pc' \in [Threads -> Labels]
        /\ prog' \in [Threads -> References] /\ old_prog' \in [Threads -> References]
    <3>1. pc' \in [Threads -> Labels]
      BY <2>2 DEF Types, Labels
    <3>2. prog' \in [Threads -> References] /\ old_prog' \in [Threads -> References]
      BY <2>2 DEF Types, References
    <3>3. QED
      BY <3>1, <3>2
  <2>4. Types'
    BY <2>1, <2>3 DEF Types, References
  <2>5. Local(x, {})
    BY SMT, <2>1, <2>2 DEF Types, References, Local
  <2>6. QED
    BY <2>4, <2>5
<1>16. CASE Release(x)
  <2>1. Types'
    BY <1>16 DEF Types, Labels, References, Release
  <2>2. Local(x, {})
    BY <1>16 DEF Types, References, Local, Release
  <2>3. QED
    BY <2>1, <2>2
<1>17. CASE Refuse(x)
  <2>1. Types'
    BY <1>17 DEF Types, Labels, References, Refuse
  <2>2. Local(x, {})
    BY <1>17 DEF Types, References, Local, Refuse
  <2>3. QED
    BY <2>1, <2>2
<1>18. CASE Current(x)
  <2>1. Types'
    BY <1>18 DEF Types, Labels, References, Current
  <2>2. Local(x, {})
    BY <1>18 DEF Types, References, Local, Current
  <2>3. QED
    BY <2>1, <2>2
<1>19. CASE TransferThrows(x)
  <2>1. Types'
    BY <1>19 DEF Types, Labels, References, TransferThrows
  <2>2. Local(x, {})
    BY <1>19 DEF Types, References, Local, TransferThrows
  <2>3. QED
    BY <2>1, <2>2
<1>20. CASE Swap(x)
  <2>1. program' = prog[x] /\ UNCHANGED <<instVars, origin, loads, reloads>>
    BY <1>20 DEF Swap
  <2>2. \/ /\ pc' = [pc EXCEPT ![x] = "truncate"]
               /\ old_prog' = [old_prog EXCEPT ![x] = NoProgram] /\ UNCHANGED prog
        \/ Return(x)
    BY <1>20 DEF Swap
  <2>3. /\ pc' \in [Threads -> Labels]
        /\ prog' \in [Threads -> References] /\ old_prog' \in [Threads -> References]
    <3>1. pc' \in [Threads -> Labels]
      BY <2>2 DEF Types, Labels
    <3>2. prog' \in [Threads -> References] /\ old_prog' \in [Threads -> References]
      BY <2>2 DEF Types, References
    <3>3. QED
      BY <3>1, <3>2
  <2>4. Types'
    BY <2>1, <2>3 DEF Types, References
  <2>5. Local(x, {})
    BY SMT, <2>1, <2>2 DEF Types, References, Local
  <2>6. QED
    BY <2>4, <2>5
<1>21. CASE Truncate(x)
  <2>1. Types'
    BY <1>21 DEF Types, Labels, References, Truncate
  <2>2. Local(x, {})
    BY <1>21 DEF Types, References, Local, Truncate
  <2>3. QED
    BY <2>1, <2>2
<1>22. CASE Write(x)
  <2>1. Types'
    BY <1>22 DEF Types, Labels, References, Write
  <2>2. Local(x, {})
    BY <1>22 DEF Types, References, Local, Write
  <2>3. QED
    BY <2>1, <2>2
<1>23. CASE WriteFails(x)
  <2>1. Types'
    BY <1>23 DEF Types, Labels, References, WriteFails
  <2>2. Local(x, {})
    BY <1>23 DEF Types, References, Local, WriteFails
  <2>3. QED
    BY <2>1, <2>2
<1>24. CASE Unload(x)
  <2>1. Types'
    BY <1>24 DEF Types, Labels, References, Unload
  <2>2. Local(x, {})
    BY <1>24 DEF Types, References, Local, Unload
  <2>3. QED
    BY <2>1, <2>2
<1>25. CASE MakeNull(x)
  <2>1. Types'
    BY <1>25 DEF Types, Labels, References, MakeNull
  <2>2. Local(x, {})
    BY <1>25 DEF Types, References, Local, MakeNull
  <2>3. QED
    BY <2>1, <2>2
<1>26. CASE ResetStarted(x)
  <2>1. reloads' = reloads + 1 /\ UNCHANGED <<instVars, program, origin, loads>>
    BY <1>26 DEF ResetStarted
  <2>2. \/ pc' = [pc EXCEPT ![x] = "load"] /\ UNCHANGED <<prog, old_prog>>
        \/ Return(x)
    BY <1>26 DEF ResetStarted
  <2>3. /\ pc' \in [Threads -> Labels]
        /\ prog' \in [Threads -> References] /\ old_prog' \in [Threads -> References]
    <3>1. pc' \in [Threads -> Labels]
      BY <2>2 DEF Types, Labels
    <3>2. prog' \in [Threads -> References] /\ old_prog' \in [Threads -> References]
      BY <2>2 DEF Types, References
    <3>3. QED
      BY <3>1, <3>2
  <2>4. Types'
    BY SMT, <2>1, <2>3 DEF Types, References
  <2>5. Local(x, {})
    BY SMT, <2>1, <2>2 DEF Types, References, Local
  <2>6. QED
    BY <2>4, <2>5
<1>27. CASE Reloaded(x)
  <2>1. Types'
    BY <1>27 DEF Types, Labels, References, Reloaded
  <2>2. Local(x, {})
    BY <1>27 DEF Types, References, Local, Reloaded
  <2>3. QED
    BY <2>1, <2>2
<1>28. QED
  BY <1>1, <1>2, <1>3, <1>4, <1>5, <1>6, <1>7, <1>8, <1>9, <1>10, <1>11, <1>12, <1>13,
     <1>14, <1>15, <1>16, <1>17, <1>18, <1>19, <1>20, <1>21, <1>22, <1>23, <1>24, <1>25,
     <1>26, <1>27 DEF Plain

\* And so are those that construct a program.
LEMMA ConstructionIsLocal ==
  ASSUME Types, NEW x \in Threads, NEW p \in Fresh, LoadProgram(x, p) \/ Update(x, p)
  PROVE  Types' /\ Local(x, {p})
<1>1. CASE LoadProgram(x, p)
  <2> p \in Programs
    BY FreshIsFree
  <2>0. loads' \in Nat /\ reloads' \in Nat /\ program' \in References
    BY SMT, <1>1 DEF Types, LoadProgram
  <2>1. Types'
    BY <1>1, <2>0 DEF Types, Labels, References, LoadProgram, Construct
  <2>2. Local(x, {p})
    BY ZenonT(90), <1>1, FreshIsFree DEF Types, References, Local, LoadProgram, Construct
  <2>3. QED
    BY <2>1, <2>2
<1>2. CASE Update(x, p)
  <2> p \in Programs
    BY FreshIsFree
  <2>0. loads' \in Nat /\ reloads' \in Nat /\ program' \in References
    BY <1>2 DEF Types, Update
  <2>1. Types'
    BY <1>2, <2>0 DEF Types, Labels, References, Update, Construct
  <2>2. Local(x, {p})
    BY SMT, <1>2, FreshIsFree DEF Types, References, Local, Update, Construct
  <2>3. QED
    BY <2>1, <2>2
<1>3. QED
  BY <1>1, <1>2

\* What holds of the other threads stays.
LEMMA OthersKeep ==
  ASSUME IInv, Types', NEW x \in Threads, NEW N, Local(x, N),
         \A p \in N : p \in Programs /\ ~InUse(p),
         NEW y \in Threads, y # x
  PROVE  /\ Refers(y)' /\ Publishes(y)' /\ Updates(y)'
         /\ Apart(y, x)'
         /\ \A z \in Threads : z \notin {x, y} => Apart(y, z)'
<1>1. /\ pc'[y] = pc[y] /\ prog'[y] = prog[y]
      /\ prog[y] \notin N /\ program \notin N /\ prog[x] \notin N /\ old_prog[x] \notin N
  BY SMT DEF Local, InUse
<1>2. Refers(y) /\ Publishes(y) /\ Updates(y) /\ Apart(y, x)
  BY DEF IInv, ThreadInv
<1>3. Refers(y)'
  BY <1>1, <1>2 DEF Refers
<1>4. Publishes(y)'
  BY <1>1, <1>2 DEF Refers, Publishes, Local
<1>5. Updates(y)' /\ Apart(y, x)'
  <2>1. CASE ~(y \in Updaters /\ pc[y] \in {"wait", "get"})
    BY <1>1, <1>2, <2>1 DEF Updates, Apart
  <2>2. CASE y \in Updaters /\ pc[y] \in {"wait", "get"}
    <3>1. /\ prog[y] \in Programs /\ prog[y] \notin {NoProgram, program, prog[x], old_prog[x]}
          /\ m_future[prog[y]] # "invalid"
      BY <1>2, <2>2 DEF Refers, Updates, Apart
    <3>2. m_future'[prog[y]] = m_future[prog[y]]
      BY <1>1, <3>1 DEF Local
    <3>3. program' # prog[y] /\ prog'[x] # prog[y] /\ old_prog'[x] # prog[y]
      BY <1>1, <3>1 DEF Local
    <3>4. QED
      BY <1>1, <2>2, <3>1, <3>2, <3>3 DEF Updates, Apart
  <2>3. QED
    BY <2>1, <2>2
<1>6. ASSUME NEW z \in Threads, z \notin {x, y}
      PROVE  Apart(y, z)'
  BY SMT, <1>1, <1>6 DEF IInv, ThreadInv, Apart, Local
<1>7. QED
  BY <1>3, <1>4, <1>5, <1>6

-----------------------------------------------------------------------------
(* What an action does to the thread that takes it. *)

\* A live update keeps the program it waits for.
Keeps(x) ==
    x \in Updaters /\ pc'[x] \in {"wait", "get"} =>
        pc[x] \in {"wait", "get"} /\ prog'[x] = prog[x]

\* A future without an error is that of a program that works.
LEMMA Got ==
  ASSUME IInv, NEW x \in Threads, Get(x), x \in Updaters
  PROVE  /\ m_initialization_complete'[prog'[x]] = 1
         /\ init_pc'[prog'[x]] = "done"
<1>1. Refers(x) /\ Updates(x) /\ pc[x] = "get" /\ m_future[prog[x]] \in {"ok", "invalid"}
  BY DEF IInv, ThreadInv, Get, TakeFuture
<1>2. prog[x] \in Programs /\ m_future[prog[x]] = "ok"
  BY <1>1 DEF Refers, Updates
<1>3. m_initialization_complete[prog[x]] = 1 /\ init_pc[prog[x]] = "done"
  BY <1>2 DEF IInv, Initialization
<1>4. QED
  BY <1>3 DEF Get

\* A thread's step keeps what holds of the thread itself.
LEMMA OwnKeep ==
  ASSUME IInv, Types', NEW x \in Threads, Plain(x)
  PROVE  Refers(x)' /\ Publishes(x)' /\ Updates(x)' /\ Keeps(x)
<1>0. Types /\ Refers(x) /\ Publishes(x) /\ Updates(x)
  BY DEF IInv, ThreadInv
<1>types. pc \in [Threads -> Labels] /\ prog \in [Threads -> References]
  BY <1>0 DEF Types
<1>1. CASE Begin(x)
  BY ZenonT(90), <1>0, <1>1 DEF Types, References, Begin,
       Refers, Publishes, Updates, Keeps
<1>2. CASE Load(x)
  BY <1>0, <1>2 DEF Types, References, Load,
       Refers, Publishes, Updates, Keeps
<1>3. CASE Lock(x)
  BY SMT, <1>0, <1>3 DEF Types, References, Lock,
       Refers, Publishes, Updates, Keeps
<1>4. CASE Check(x)
  BY SMT, <1>0, <1>4 DEF Types, References, Check,
       Refers, Publishes, Updates, Keeps
<1>5. CASE BeginInitialize(x)
  BY SMT, <1>0, <1>5 DEF Types, References, BeginInitialize,
       Refers, Publishes, Updates, Keeps
<1>6. CASE NothingToLoad(x)
  BY SMT, <1>0, <1>6 DEF Types, References, NothingToLoad,
       Refers, Publishes, Updates, Keeps
<1>7. CASE LoadThrows(x)
  BY SMT, <1>0, <1>7 DEF Types, References, LoadThrows,
       Refers, Publishes, Updates, Keeps
<1>8. CASE Store(x)
  BY SMT, <1>0, <1>8 DEF Types, References, Store,
       Refers, Publishes, Updates, Keeps
<1>9. CASE Unlock(x)
  <2>1. pc[x] = "unlock" /\ pc'[x] \in {"idle", "load again"}
    BY <1>types, <1>9 DEF Unlock
  <2>2. QED
    BY <1>0, <2>1 DEF Refers, Publishes, Updates, Keeps
<1>10. CASE LoadAgain(x)
  BY <1>0, <1>10 DEF Types, References, LoadAgain,
       Refers, Publishes, Updates, Keeps
<1>11. CASE Missing(x)
  <2>1. pc'[x] = "idle"
    BY <1>types, <1>11 DEF Missing
  <2>2. QED
    BY <2>1 DEF Refers, Publishes, Updates, Keeps
<1>12. CASE Wait(x)
  BY SMT, <1>0, <1>12 DEF Types, References, Wait,
       Refers, Publishes, Updates, Keeps
<1>13. CASE Get(x)
  <2>1. /\ pc[x] = "get" /\ prog'[x] = prog[x]
        /\ pc'[x] = IF x \in Updaters THEN "current" ELSE "main vm"
    BY <1>types, <1>13 DEF Get, TakeFuture
  <2>2. CASE x \in Updaters
    BY <1>0, <1>13, <2>1, <2>2, Got DEF Refers, Publishes, Updates, Keeps
  <2>3. CASE x \notin Updaters
    BY <1>0, <2>1, <2>3 DEF Refers, Publishes, Updates, Keeps
  <2>4. QED
    BY <2>2, <2>3
<1>14. CASE GetThrows(x)
  <2>1. pc'[x] = "idle"
    BY <1>types, <1>14 DEF GetThrows
  <2>2. QED
    BY <2>1 DEF Refers, Publishes, Updates, Keeps
<1>15. CASE wait_for_main_vm(x)
  <2>1. \/ pc' = [pc EXCEPT ![x] = "use"] /\ prog' = prog
        \/ pc' = [pc EXCEPT ![x] = "idle"]
    BY <1>15 DEF wait_for_main_vm
  <2>2. (pc'[x] = "use" /\ prog'[x] = prog[x]) \/ pc'[x] = "idle"
    BY <1>types, <2>1
  <2>3. pc[x] = "main vm"
    BY <1>15 DEF wait_for_main_vm
  <2>4. QED
    BY <1>0, <2>2, <2>3 DEF Refers, Publishes, Updates, Keeps
<1>16. CASE Release(x)
  <2>1. pc'[x] = "idle"
    BY <1>types, <1>16 DEF Release
  <2>2. QED
    BY <2>1 DEF Refers, Publishes, Updates, Keeps
<1>17. CASE Refuse(x)
  BY <1>0, <1>17 DEF Types, References, Refuse,
       Refers, Publishes, Updates, Keeps
<1>18. CASE Current(x)
  BY SMT, <1>0, <1>18 DEF Types, References, Current,
       Refers, Publishes, Updates, Keeps
<1>19. CASE TransferThrows(x)
  <2>1. pc'[x] = "idle"
    BY <1>types, <1>19 DEF TransferThrows
  <2>2. QED
    BY <2>1 DEF Refers, Publishes, Updates, Keeps
<1>20. CASE Swap(x)
  <2>1. pc[x] = "swap" /\ pc'[x] \in {"truncate", "idle"}
    BY <1>types, <1>20 DEF Swap
  <2>2. QED
    BY <1>0, <2>1 DEF Refers, Publishes, Updates, Keeps
<1>21. CASE Truncate(x)
  BY SMT, <1>0, <1>21 DEF Types, References, Truncate,
       Refers, Publishes, Updates, Keeps
<1>22. CASE Write(x)
  <2>1. pc'[x] = "idle"
    BY <1>types, <1>22 DEF Write
  <2>2. QED
    BY <2>1 DEF Refers, Publishes, Updates, Keeps
<1>23. CASE WriteFails(x)
  <2>1. pc'[x] = "idle"
    BY <1>types, <1>23 DEF WriteFails
  <2>2. QED
    BY <2>1 DEF Refers, Publishes, Updates, Keeps
<1>24. CASE Unload(x)
  BY SMT, <1>0, <1>24 DEF Types, References, Unload,
       Refers, Publishes, Updates, Keeps
<1>25. CASE MakeNull(x)
  BY SMT, <1>0, <1>25 DEF Types, References, MakeNull,
       Refers, Publishes, Updates, Keeps
<1>26. CASE ResetStarted(x)
  <2>1. \/ pc' = [pc EXCEPT ![x] = "load"] /\ prog' = prog
        \/ pc' = [pc EXCEPT ![x] = "idle"]
    BY <1>26 DEF ResetStarted
  <2>2. (pc'[x] = "load" /\ prog'[x] = prog[x]) \/ pc'[x] = "idle"
    BY <1>types, <2>1
  <2>3. pc[x] = "reset"
    BY <1>26 DEF ResetStarted
  <2>4. QED
    BY <1>0, <2>2, <2>3 DEF Refers, Publishes, Updates, Keeps
<1>27. CASE Reloaded(x)
  <2>1. pc'[x] = "idle"
    BY <1>types, <1>27 DEF Reloaded
  <2>2. QED
    BY <2>1 DEF Refers, Publishes, Updates, Keeps
<1>28. QED
  BY <1>1, <1>2, <1>3, <1>4, <1>5, <1>6, <1>7, <1>8, <1>9, <1>10, <1>11, <1>12, <1>13,
     <1>14, <1>15, <1>16, <1>17, <1>18, <1>19, <1>20, <1>21, <1>22, <1>23, <1>24, <1>25,
     <1>26, <1>27 DEF Plain

\* A thread that constructs a program is the only one to know it.
LEMMA OwnConstruct ==
  ASSUME IInv, NEW x \in Threads, NEW p \in Fresh, LoadProgram(x, p) \/ Update(x, p)
  PROVE  /\ Refers(x)' /\ Publishes(x)' /\ Updates(x)'
         /\ \A y \in Threads : y # x => Apart(x, y)'
<1>1. p \in Programs /\ ~InUse(p)
  BY FreshIsFree
<1>2. pc \in [Threads -> Labels] /\ prog \in [Threads -> References]
  BY DEF IInv, Types
<1>3. origin \in [Programs -> {"load", "update"}]
  BY DEF IInv, Types
<1>4. m_future \in [Programs -> {"running", "ok", "failed", "invalid"}]
  BY DEF IInv, Types
<1>5. /\ prog'[x] = p /\ m_future'[p] = "running"
      /\ program' = program /\ old_prog' = old_prog
      /\ \A y \in Threads : y # x => prog'[y] = prog[y]
  BY <1>1, <1>2, <1>4 DEF LoadProgram, Update, Construct
<1>6. \/ pc[x] = "construct" /\ pc'[x] = "store" /\ origin'[p] = "load"
      \/ x \in Updaters /\ pc'[x] = "wait"
  BY <1>1, <1>2, <1>3 DEF LoadProgram, Update, Construct
<1>7. Updates(x)
  BY DEF IInv, ThreadInv
<1>8. Refers(x)' /\ Publishes(x)'
  BY <1>1, <1>5, <1>6 DEF Refers, Publishes
<1>9. Updates(x)'
  BY <1>1, <1>5, <1>6, <1>7 DEF Updates, InUse
<1>10. ASSUME NEW y \in Threads, y # x
       PROVE  Apart(x, y)'
  BY <1>1, <1>5, <1>10 DEF Apart, InUse
<1>11. QED
  BY <1>8, <1>9, <1>10

\* What holds of each thread is kept by the steps of the threads.
LEMMA ThreadInvKept ==
  ASSUME IInv, NEW x \in Threads,
         \/ Plain(x)
         \/ \E p \in Fresh : LoadProgram(x, p) \/ Update(x, p)
  PROVE  Types' /\ ThreadInv'
<1>1. CASE Plain(x)
  <2>1. Types' /\ Local(x, {})
    BY <1>1, Locality DEF IInv
  <2>2. Refers(x)' /\ Publishes(x)' /\ Updates(x)' /\ Keeps(x)
    BY <1>1, <2>1, OwnKeep
  <2>3. \A y \in Threads : y # x => Apart(x, y)'
    BY SMT, <2>1, <2>2 DEF IInv, ThreadInv, Apart, Keeps, Local
  <2>4. \A y \in Threads : y # x =>
           /\ Refers(y)' /\ Publishes(y)' /\ Updates(y)' /\ Apart(y, x)'
           /\ \A z \in Threads : z \notin {x, y} => Apart(y, z)'
    BY <2>1, OthersKeep
  <2>5. \A y \in Threads : Refers(y)' /\ Publishes(y)' /\ Updates(y)'
    BY <2>2, <2>4
  <2>6. \A y, z \in Threads : y # z => Apart(y, z)'
    BY <2>3, <2>4
  <2>7. QED
    BY <2>1, <2>5, <2>6 DEF ThreadInv
<1>2. ASSUME NEW p \in Fresh, LoadProgram(x, p) \/ Update(x, p)
      PROVE  Types' /\ ThreadInv'
  <2>1. Types' /\ Local(x, {p})
    BY <1>2, ConstructionIsLocal DEF IInv
  <2>2. Refers(x)' /\ Publishes(x)' /\ Updates(x)' /\ \A y \in Threads : y # x => Apart(x, y)'
    BY <1>2, OwnConstruct
  <2>3. \A q \in {p} : q \in Programs /\ ~InUse(q)
    BY FreshIsFree
  <2>4. \A y \in Threads : y # x =>
           /\ Refers(y)' /\ Publishes(y)' /\ Updates(y)' /\ Apart(y, x)'
           /\ \A z \in Threads : z \notin {x, y} => Apart(y, z)'
    BY SMT, <2>1, <2>3, OthersKeep
  <2>5. \A y \in Threads : Refers(y)' /\ Publishes(y)' /\ Updates(y)'
    BY <2>2, <2>4
  <2>6. \A y, z \in Threads : y # z => Apart(y, z)'
    BY <2>2, <2>4
  <2>7. QED
    BY <2>1, <2>5, <2>6 DEF ThreadInv
<1>3. QED
  BY <1>1, <1>2

-----------------------------------------------------------------------------
(* The mutex, the number of loads, and the initialization. *)

\* A thread enters the region of mtx_running_init by locking it, and leaves it
\* by unlocking; the loads are made inside.
LEMMA RunningKept ==
  ASSUME IInv, NEW x \in Threads, Plain(x)
  PROVE  RunningInit' /\ LoadBudget'
<1>1. /\ pc \in [Threads -> Labels] /\ loads \in Nat /\ reloads \in Nat
      /\ RunningInit /\ LoadBudget
  BY DEF IInv, Types
<1>2. CASE Begin(x)
  BY <1>1, <1>2 DEF RunningInit, LoadBudget, Begin
<1>3. CASE Load(x)
  BY <1>1, <1>3 DEF RunningInit, LoadBudget, Load
<1>4. CASE Lock(x)
  BY <1>1, <1>4 DEF RunningInit, LoadBudget, Lock
<1>5. CASE Check(x)
  BY <1>1, <1>5 DEF RunningInit, LoadBudget, Check
<1>6. CASE BeginInitialize(x)
  BY <1>1, <1>6 DEF RunningInit, LoadBudget, BeginInitialize
<1>7. CASE NothingToLoad(x)
  BY <1>1, <1>7 DEF RunningInit, LoadBudget, NothingToLoad
<1>8. CASE LoadThrows(x)
  BY <1>1, <1>8 DEF RunningInit, LoadBudget, LoadThrows
<1>9. CASE Store(x)
  BY <1>1, <1>9 DEF RunningInit, LoadBudget, Store
<1>10. CASE Unlock(x)
  BY <1>1, <1>10 DEF RunningInit, LoadBudget, Unlock
<1>11. CASE LoadAgain(x)
  BY <1>1, <1>11 DEF RunningInit, LoadBudget, LoadAgain
<1>12. CASE Missing(x)
  BY <1>1, <1>12 DEF RunningInit, LoadBudget, Missing
<1>13. CASE Wait(x)
  BY <1>1, <1>13 DEF RunningInit, LoadBudget, Wait
<1>14. CASE Get(x)
  BY <1>1, <1>14 DEF RunningInit, LoadBudget, Get, TakeFuture
<1>15. CASE GetThrows(x)
  BY <1>1, <1>15 DEF RunningInit, LoadBudget, GetThrows, TakeFuture
<1>16. CASE wait_for_main_vm(x)
  <2>1. /\ UNCHANGED <<m_started_init, mtx_running_init, loads, reloads>>
        /\ \E l \in {"use", "idle"} : pc' = [pc EXCEPT ![x] = l]
    BY <1>16 DEF wait_for_main_vm
  <2>2. QED
    BY <1>1, <2>1 DEF RunningInit, LoadBudget
<1>17. CASE Release(x)
  BY <1>1, <1>17 DEF RunningInit, LoadBudget, Release
<1>18. CASE Refuse(x)
  BY <1>1, <1>18 DEF RunningInit, LoadBudget, Refuse
<1>19. CASE Current(x)
  BY <1>1, <1>19 DEF RunningInit, LoadBudget, Current
<1>20. CASE TransferThrows(x)
  BY <1>1, <1>20 DEF RunningInit, LoadBudget, TransferThrows
<1>21. CASE Swap(x)
  BY <1>1, <1>21 DEF RunningInit, LoadBudget, Swap
<1>22. CASE Truncate(x)
  BY <1>1, <1>22 DEF RunningInit, LoadBudget, Truncate
<1>23. CASE Write(x)
  BY <1>1, <1>23 DEF RunningInit, LoadBudget, Write
<1>24. CASE WriteFails(x)
  BY <1>1, <1>24 DEF RunningInit, LoadBudget, WriteFails
<1>25. CASE Unload(x)
  BY <1>1, <1>25 DEF RunningInit, LoadBudget, Unload
<1>26. CASE MakeNull(x)
  BY <1>1, <1>26 DEF RunningInit, LoadBudget, MakeNull
<1>27. CASE ResetStarted(x)
  BY SMT, <1>1, <1>27 DEF RunningInit, LoadBudget, ResetStarted
<1>28. CASE Reloaded(x)
  BY <1>1, <1>28 DEF RunningInit, LoadBudget, Reloaded
<1>29. QED
  BY <1>2, <1>3, <1>4, <1>5, <1>6, <1>7, <1>8, <1>9, <1>10, <1>11, <1>12, <1>13, <1>14,
     <1>15, <1>16, <1>17, <1>18, <1>19, <1>20, <1>21, <1>22, <1>23, <1>24, <1>25, <1>26,
     <1>27, <1>28 DEF Plain

\* A construction uses up one load, an update none.
LEMMA RunningConstruct ==
  ASSUME IInv, NEW x \in Threads, NEW p \in Fresh, LoadProgram(x, p) \/ Update(x, p)
  PROVE  RunningInit' /\ LoadBudget'
<1>1. /\ pc \in [Threads -> Labels] /\ loads \in Nat /\ reloads \in Nat
      /\ RunningInit /\ LoadBudget
  BY DEF IInv, Types
<1>2. CASE LoadProgram(x, p)
  BY SMT, <1>1, <1>2 DEF RunningInit, LoadBudget, LoadProgram
<1>3. CASE Update(x, p)
  BY <1>1, <1>3 DEF RunningInit, LoadBudget, Update
<1>4. QED
  BY <1>2, <1>3

\* Of the thread's steps, those that take or give back the mutex of a program,
\* or construct one, bear on its initialization.
LEMMA InitializationKept ==
  ASSUME IInv, NEW x \in Threads,
         \/ Plain(x)
         \/ \E p \in Fresh : LoadProgram(x, p) \/ Update(x, p)
  PROVE  Initialization'
<1>1. /\ mtx_future_init \in [Programs -> Threads \cup {Nobody, "init"}]
      /\ m_future \in [Programs -> {"running", "ok", "failed", "invalid"}]
      /\ m_initialization_complete \in [Programs -> {-1, 0, 1}]
      /\ init_pc \in [Programs -> InitLabels]
      /\ Initialization
  BY DEF IInv, Types
<1>2. CASE Wait(x)
  BY <1>1, <1>2 DEF Initialization, Wait
<1>3. CASE Get(x) \/ GetThrows(x)
  <2>1. /\ m_future[prog[x]] # "running"
        /\ mtx_future_init' = [mtx_future_init EXCEPT ![prog[x]] = Nobody]
        /\ m_future' = [m_future EXCEPT ![prog[x]] = "invalid"]
        /\ UNCHANGED <<m_initialization_complete, init_pc>>
    BY <1>3 DEF Get, GetThrows, TakeFuture
  <2>2. QED
    BY <1>1, <2>1 DEF Initialization
<1>4. CASE UNCHANGED instVars
  BY <1>1, <1>4 DEF Initialization
<1>5. ASSUME NEW p \in Fresh, LoadProgram(x, p) \/ Update(x, p)
      PROVE  Initialization'
  <2>1. \E k : Construct(p, k)
    BY <1>5 DEF LoadProgram, Update
  <2>2. QED
    BY SMT, <1>1, <2>1, FreshIsFree DEF Initialization, Construct
<1>6. ASSUME Plain(x) PROVE Wait(x) \/ Get(x) \/ GetThrows(x) \/ UNCHANGED instVars
  BY <1>6 DEF Plain, Begin, Load, Lock, Check, BeginInitialize, NothingToLoad, LoadThrows,
     Store, Unlock, LoadAgain, Missing, wait_for_main_vm, Release, Refuse, Current,
     TransferThrows, Swap, Truncate, Write, WriteFails, Unload, MakeNull, ResetStarted,
     Reloaded
<1>7. QED
  BY <1>2, <1>3, <1>4, <1>5, <1>6

\* The task that initializes p touches nothing of the tenant and its threads.
LEMMA InitializeIsLocal ==
  ASSUME Types, NEW p \in Programs, Initialize(p)
  PROVE  /\ UNCHANGED <<program, m_started_init, mtx_running_init, origin, pc, prog,
                        old_prog, loads, reloads>>
         /\ mtx_future_init' \in [Programs -> Threads \cup {Nobody, "init"}]
         /\ m_future' \in [Programs -> {"running", "ok", "failed", "invalid"}]
         /\ m_initialization_complete' \in [Programs -> {-1, 0, 1}]
         /\ init_pc' \in [Programs -> InitLabels]
         /\ init_pc[p] # "done"
         /\ \A q \in Programs : q # p =>
               /\ init_pc'[q] = init_pc[q]
               /\ m_initialization_complete'[q] = m_initialization_complete[q]
               /\ mtx_future_init'[q] = mtx_future_init[q]
         /\ \A q \in Programs : m_future[q] # "invalid" => m_future'[q] # "invalid"
<1>1. CASE InitFirstVM(p)
  BY <1>1 DEF Types, InitFirstVM, unlock_and_initialized
<1>2. CASE BusError(p)
  BY <1>2 DEF Types, BusError
<1>3. CASE InitDone(p)
  BY <1>3 DEF Types, InitDone
<1>4. CASE InitFetchFails(p)
  BY <1>4 DEF Types, InitFetchFails, unlock_and_initialized
<1>5. CASE InitFails(p)
  BY <1>5 DEF Types, InitFails, unlock_and_initialized
<1>6. CASE InitFailsAgain(p)
  BY <1>6 DEF Types, InitFailsAgain, unlock_and_initialized
<1>7. CASE InitThrows(p)
  BY <1>7 DEF Types, InitThrows
<1>8. CASE FetchCached(p)
  BY <1>8 DEF Types, FetchCached
<1>9. CASE FetchNew(p)
  BY <1>9 DEF Types, FetchNew
<1>10. CASE SaveOpens(p)
  BY <1>10 DEF Types, SaveOpens
<1>11. CASE SaveEnds(p)
  BY <1>11 DEF Types, SaveEnds
<1>12. QED
  BY <1>1, <1>2, <1>3, <1>4, <1>5, <1>6, <1>7, <1>8, <1>9, <1>10, <1>11 DEF Initialize

\* Each of its steps keeps the order of the initialization.
LEMMA InitializeKeeps ==
  ASSUME IInv, NEW p \in Programs, Initialize(p)
  PROVE  IInv'
<1>1. /\ Types /\ RunningInit /\ LoadBudget /\ Initialization
      /\ \A x \in Threads : Refers(x) /\ Publishes(x) /\ Updates(x)
      /\ \A x, y \in Threads : x # y => Apart(x, y)
  BY DEF IInv, ThreadInv
<1>2. /\ UNCHANGED <<program, m_started_init, mtx_running_init, origin, pc, prog,
                     old_prog, loads, reloads>>
      /\ init_pc[p] # "done"
      /\ \A q \in Programs : q # p =>
            /\ init_pc'[q] = init_pc[q]
            /\ m_initialization_complete'[q] = m_initialization_complete[q]
            /\ mtx_future_init'[q] = mtx_future_init[q]
      /\ \A q \in Programs : m_future[q] # "invalid" => m_future'[q] # "invalid"
  BY <1>1, InitializeIsLocal
<1>3. Types'
  BY <1>1, InitializeIsLocal DEF Types, References
<1>4. RunningInit' /\ LoadBudget'
  BY <1>1, <1>2 DEF RunningInit, LoadBudget
<1>5. Initialization'
  <2>1. CASE InitFirstVM(p)
    BY <1>1, <2>1 DEF Types, Initialization, InitFirstVM, unlock_and_initialized
  <2>2. CASE BusError(p)
    BY <1>1, <2>2 DEF Types, Initialization, BusError
  <2>3. CASE InitDone(p)
    BY <1>1, <2>3 DEF Types, Initialization, InitDone
  <2>4. CASE InitFetchFails(p)
    BY <1>1, <2>4 DEF Types, Initialization, InitFetchFails, unlock_and_initialized
  <2>5. CASE InitFails(p)
    BY <1>1, <2>5 DEF Types, Initialization, InitFails, unlock_and_initialized
  <2>6. CASE InitFailsAgain(p)
    BY <1>1, <2>6 DEF Types, Initialization, InitFailsAgain, unlock_and_initialized
  <2>7. CASE InitThrows(p)
    BY <1>1, <2>7 DEF Types, Initialization, InitThrows
  <2>8. CASE FetchCached(p)
    BY <1>1, <2>8 DEF Types, Initialization, FetchCached
  <2>9. CASE FetchNew(p)
    BY <1>1, <2>9 DEF Types, Initialization, FetchNew
  <2>10. CASE SaveOpens(p)
    BY <1>1, <2>10 DEF Types, Initialization, SaveOpens
  <2>11. CASE SaveEnds(p)
    BY <1>1, <2>11 DEF Types, Initialization, SaveEnds
  <2>12. QED
    BY <2>1, <2>2, <2>3, <2>4, <2>5, <2>6, <2>7, <2>8, <2>9, <2>10, <2>11 DEF Initialize
<1>6. ASSUME NEW x \in Threads PROVE Refers(x)' /\ Publishes(x)' /\ Updates(x)'
  <2>1. Refers(x) /\ Publishes(x) /\ Updates(x)
    BY <1>1
  <2>2. QED
    BY <1>2, <2>1 DEF Refers, Publishes, Updates
<1>7. ASSUME NEW x \in Threads, NEW y \in Threads, x # y PROVE Apart(x, y)'
  BY <1>1, <1>2, <1>7 DEF Apart
<1>8. QED
  BY <1>3, <1>4, <1>5, <1>6, <1>7 DEF IInv, ThreadInv

\* Before anything has happened.
LEMMA InitIInv == Init => IInv
<1> SUFFICES ASSUME Init PROVE IInv
  OBVIOUS
<1>1. Types
  BY DEF Init, Types, References, Labels
<1>2. RunningInit /\ LoadBudget /\ Initialization
  BY SMT DEF Init, RunningInit, LoadBudget, Initialization
<1>3. \A x \in Threads : pc[x] = "idle"
  BY DEF Init
<1>4. ThreadInv
  BY <1>3 DEF ThreadInv, Refers, Publishes, Updates, Apart
<1>5. QED
  BY <1>1, <1>2, <1>4 DEF IInv

\* Every step is one of a thread or of an initialization.
LEMMA Steps ==
  ASSUME Next
  PROVE  \/ \E x \in Threads : Plain(x) \/ \E p \in Fresh : LoadProgram(x, p) \/ Update(x, p)
         \/ \E p \in Programs : Initialize(p)
BY DEF Next, Arrive, Acquire, Step, Plain

\* The steps keep the invariant.
LEMMA StepIInv == IInv /\ [Next]_vars => IInv'
<1> SUFFICES ASSUME IInv, [Next]_vars PROVE IInv'
  OBVIOUS
<1>1. CASE UNCHANGED vars
  <2>1. Types' /\ RunningInit' /\ LoadBudget' /\ Initialization'
    BY <1>1 DEF vars, IInv, Types, RunningInit, LoadBudget, Initialization
  <2>2. ThreadInv'
    BY <1>1 DEF vars, IInv, ThreadInv, Refers, Publishes, Updates, Apart
  <2>3. QED
    BY <2>1, <2>2 DEF IInv
<1>2. ASSUME NEW x \in Threads,
             Plain(x) \/ \E p \in Fresh : LoadProgram(x, p) \/ Update(x, p)
      PROVE  IInv'
  BY <1>2, ThreadInvKept, RunningKept, RunningConstruct, InitializationKept DEF IInv
<1>3. ASSUME NEW p \in Programs, Initialize(p) PROVE IInv'
  BY <1>3, InitializeKeeps
<1>4. QED
  BY <1>1, <1>2, <1>3, Steps

\* IInv is an invariant, whatever fails.
LEMMA Invariance == Spec => []IInv
BY InitIInv, StepIInv, PTL DEF Spec

\* LoadedOncePerUnload: begin_async_initialize and m_started_init let through one
\* load per unload, whatever fails.
THEOREM LoadsAreBounded == Spec => []LoadedOncePerUnload
<1>1. IInv => LoadedOncePerUnload
  BY DEF IInv, LoadBudget, LoadedOncePerUnload
<1>2. QED
  BY <1>1, Invariance, PTL

\* UpdateKeepsWorking: commit_program_live publishes no program that is not, or
\* could not be, initialized, whatever fails.
THEOREM UpdatesWork == Spec => UpdateKeepsWorking
<1> DEFINE Kept == program' # program /\ program' # NoProgram /\ origin[program'] = "update"
                     => m_initialization_complete[program'] = 1
<1>1. IInv /\ [Next]_vars => [Kept]_program
  <2> SUFFICES ASSUME IInv, Next, program' # program, program' # NoProgram,
                      origin[program'] = "update"
               PROVE  m_initialization_complete[program'] = 1
    BY DEF vars
  <2>1. ASSUME NEW p \in Programs, Initialize(p) PROVE FALSE
    BY <2>1, InitializeIsLocal DEF IInv
  <2>2. ASSUME NEW x \in Threads, NEW p \in Fresh, LoadProgram(x, p) \/ Update(x, p)
        PROVE  FALSE
    BY <2>2 DEF LoadProgram, Update
  <2>3. ASSUME NEW x \in Threads, Plain(x) PROVE Store(x) \/ Swap(x)
    BY <2>3 DEF Plain, Begin, Load, Lock, Check, BeginInitialize, NothingToLoad,
       LoadThrows, Unlock, LoadAgain, Missing, Wait, Get, GetThrows, wait_for_main_vm,
       Release, Refuse, Current, TransferThrows, Truncate, Write, WriteFails, Unload,
       MakeNull, ResetStarted, Reloaded, TakeFuture
  <2>4. ASSUME NEW x \in Threads, Store(x) PROVE FALSE
    BY <2>4 DEF IInv, ThreadInv, Publishes, Store
  <2>5. ASSUME NEW x \in Threads, Swap(x)
        PROVE  m_initialization_complete[program'] = 1
    BY <2>5 DEF IInv, ThreadInv, Publishes, Swap
  <2>6. QED
    BY <2>1, <2>2, <2>3, <2>4, <2>5, Steps
<1>2. QED
  BY <1>1, Invariance, PTL DEF Spec, UpdateKeepsWorking

-----------------------------------------------------------------------------
(* The waiters, and the programs in use. *)

\* No program fails after it was declared ready, and none is declared failed
\* twice: no VM beyond the first fails to fork, and the program is not fetched.
OneVerdict == "fork" \notin Failures /\ ~FromURI

\* The waiter at a future holds the mutex, and a program in use is ready.
Waits(x) ==
    /\ pc[x] = "get" => mtx_future_init[prog[x]] = x
    /\ pc[x] = "use" => m_initialization_complete[prog[x]] = 1

WaitInv ==
    /\ \A x \in Threads : Waits(x)
    /\ \A p \in Programs : init_pc[p] # "again"

\* A thread that takes the mutex finds it free, and one that gives it back had
\* it: nobody else is at the future.
LEMMA WaitersKept ==
  ASSUME IInv, WaitInv, NEW x \in Threads, Plain(x)
  PROVE  WaitInv'
<1>1. Types' /\ Local(x, {})
  BY Locality DEF IInv
<1>2. \A p \in Programs : init_pc'[p] # "again"
  BY <1>1 DEF WaitInv, Local
<1>3. /\ pc \in [Threads -> Labels] /\ prog \in [Threads -> References]
      /\ mtx_future_init \in [Programs -> Threads \cup {Nobody, "init"}]
      /\ m_initialization_complete \in [Programs -> {-1, 0, 1}]
      /\ \A y \in Threads : Waits(y) /\ Refers(y)
  BY DEF IInv, Types, WaitInv, ThreadInv
<1>4. CASE Wait(x)
  <2>1. /\ pc[x] = "wait" /\ mtx_future_init[prog[x]] = Nobody
        /\ mtx_future_init' = [mtx_future_init EXCEPT ![prog[x]] = x]
        /\ pc'[x] = "get" /\ prog' = prog
        /\ UNCHANGED m_initialization_complete
    BY <1>3, <1>4 DEF Wait
  <2>2. prog[x] \in Programs
    BY <1>3, <2>1 DEF Refers
  <2>3. Waits(x)'
    BY <1>3, <2>1, <2>2 DEF Waits
  <2>4. ASSUME NEW y \in Threads, y # x PROVE Waits(y)'
    <3>1. pc'[y] = pc[y] /\ Waits(y) /\ Refers(y)
      BY <1>1, <1>3, <2>4 DEF Local
    <3>2. QED
      BY <1>3, <2>1, <2>2, <2>4, <3>1 DEF Waits, Refers
  <2>5. QED
    BY <1>2, <2>3, <2>4 DEF WaitInv
<1>5. CASE Get(x) \/ GetThrows(x)
  <2>1. /\ pc[x] = "get"
        /\ mtx_future_init' = [mtx_future_init EXCEPT ![prog[x]] = Nobody]
        /\ pc'[x] \in {"current", "main vm", "idle"}
        /\ UNCHANGED m_initialization_complete
    BY <1>3, <1>5 DEF Get, GetThrows, TakeFuture
  <2>2. mtx_future_init[prog[x]] = x
    BY <1>3, <2>1 DEF Waits
  <2>3. Waits(x)'
    BY <2>1 DEF Waits
  <2>4. ASSUME NEW y \in Threads, y # x PROVE Waits(y)'
    <3>1. pc'[y] = pc[y] /\ prog'[y] = prog[y] /\ Waits(y) /\ Refers(y)
      BY <1>1, <1>3, <2>4 DEF Local
    <3>2. QED
      BY <1>3, <2>1, <2>2, <2>4, <3>1 DEF Waits, Refers
  <2>5. QED
    BY <1>2, <2>3, <2>4 DEF WaitInv
<1>6. ASSUME UNCHANGED instVars, Waits(x)' PROVE WaitInv'
  <2>1. ASSUME NEW y \in Threads, y # x PROVE Waits(y)'
    <3>1. pc'[y] = pc[y] /\ prog'[y] = prog[y] /\ Waits(y)
      BY <1>1, <1>3, <2>1 DEF Local
    <3>2. QED
      BY <1>6, <3>1 DEF Waits
  <2>2. QED
    BY <1>2, <1>6, <2>1 DEF WaitInv
<1>7. CASE wait_for_main_vm(x)
  <2>1. /\ UNCHANGED instVars
        /\ \/ /\ m_initialization_complete[prog[x]] > 0
              /\ pc' = [pc EXCEPT ![x] = "use"] /\ prog' = prog
           \/ pc' = [pc EXCEPT ![x] = "idle"]
    BY <1>7 DEF wait_for_main_vm
  <2>2. prog[x] \in Programs
    BY <1>3, <1>7 DEF Refers, wait_for_main_vm
  <2>3. \/ m_initialization_complete'[prog'[x]] = 1 /\ pc'[x] = "use"
        \/ pc'[x] = "idle"
    BY SMT, <1>3, <2>1, <2>2
  <2>4. QED
    BY <1>6, <2>1, <2>3 DEF Waits
<1>8. CASE Begin(x) \/ Load(x) \/ LoadAgain(x) \/ Missing(x)
  <2>1. UNCHANGED instVars /\ pc'[x] \notin {"get", "use"}
    BY <1>3, <1>8 DEF Begin, Load, LoadAgain, Missing
  <2>2. QED
    BY <1>6, <2>1 DEF Waits
<1>9. CASE Lock(x) \/ Check(x) \/ BeginInitialize(x) \/ NothingToLoad(x)
  <2>1. UNCHANGED instVars /\ pc'[x] \notin {"get", "use"}
    BY <1>3, <1>9 DEF Lock, Check, BeginInitialize, NothingToLoad
  <2>2. QED
    BY <1>6, <2>1 DEF Waits
<1>10. CASE LoadThrows(x) \/ Store(x) \/ Unlock(x) \/ Release(x)
  <2>1. UNCHANGED instVars /\ pc'[x] \notin {"get", "use"}
    BY <1>3, <1>10 DEF LoadThrows, Store, Unlock, Release
  <2>2. QED
    BY <1>6, <2>1 DEF Waits
<1>11. CASE Refuse(x) \/ Current(x) \/ TransferThrows(x) \/ Swap(x)
  <2>1. UNCHANGED instVars /\ pc'[x] \notin {"get", "use"}
    BY <1>3, <1>11 DEF Refuse, Current, TransferThrows, Swap
  <2>2. QED
    BY <1>6, <2>1 DEF Waits
<1>12. CASE Truncate(x) \/ Write(x) \/ WriteFails(x)
  <2>1. UNCHANGED instVars /\ pc'[x] \notin {"get", "use"}
    BY <1>3, <1>12 DEF Truncate, Write, WriteFails
  <2>2. QED
    BY <1>6, <2>1 DEF Waits
<1>13. CASE Unload(x) \/ MakeNull(x) \/ Reloaded(x)
  <2>1. UNCHANGED instVars /\ pc'[x] \notin {"get", "use"}
    BY <1>3, <1>13 DEF Unload, MakeNull, Reloaded
  <2>2. QED
    BY <1>6, <2>1 DEF Waits
<1>14. CASE ResetStarted(x)
  <2>1. UNCHANGED instVars /\ pc'[x] \notin {"get", "use"}
    BY <1>3, <1>14 DEF ResetStarted
  <2>2. QED
    BY <1>6, <2>1 DEF Waits
<1>15. QED
  BY <1>4, <1>5, <1>7, <1>8, <1>9, <1>10, <1>11, <1>12, <1>13, <1>14 DEF Plain

\* A program that is constructed has no waiters yet.
LEMMA WaitersConstruct ==
  ASSUME IInv, WaitInv, NEW x \in Threads, NEW p \in Fresh, LoadProgram(x, p) \/ Update(x, p)
  PROVE  WaitInv'
<1>1. Types' /\ Local(x, {p}) /\ p \in Programs /\ ~InUse(p)
  BY ConstructionIsLocal, FreshIsFree DEF IInv
<1>2. /\ pc \in [Threads -> Labels]
      /\ mtx_future_init \in [Programs -> Threads \cup {Nobody, "init"}]
      /\ init_pc \in [Programs -> InitLabels]
  BY DEF IInv, Types
<1>3. /\ pc'[x] \in {"store", "wait"}
      /\ \E l \in Early : init_pc' = [init_pc EXCEPT ![p] = l]
      /\ mtx_future_init' = [mtx_future_init EXCEPT ![p] = "init"]
  BY <1>2 DEF LoadProgram, Update, Construct
<1>4. ASSUME NEW y \in Threads, y # x PROVE Waits(y)'
  <2>1. /\ pc'[y] = pc[y] /\ prog'[y] = prog[y] /\ Waits(y) /\ Refers(y)
        /\ prog[y] # p
    BY <1>1, <1>4 DEF Local, InUse, WaitInv, IInv, ThreadInv
  <2>2. pc[y] = "get" => mtx_future_init'[prog[y]] = mtx_future_init[prog[y]]
    BY <1>1, <1>2, <1>3, <2>1 DEF Refers
  <2>3. pc[y] = "use" =>
           m_initialization_complete'[prog[y]] = m_initialization_complete[prog[y]]
    BY <1>1, <2>1 DEF Refers, Local
  <2>4. QED
    BY <2>1, <2>2, <2>3 DEF Waits
<1>5. Waits(x)'
  BY <1>3 DEF Waits
<1>6. \A q \in Programs : init_pc'[q] # "again"
  BY <1>2, <1>3 DEF WaitInv
<1>7. QED
  BY <1>4, <1>5, <1>6 DEF WaitInv

\* The initialization unlocks the mutex while it has it itself.
LEMMA WaitersInitialize ==
  ASSUME IInv, WaitInv, OneVerdict, NEW p \in Programs, Initialize(p)
  PROVE  WaitInv'
<1>1. /\ mtx_future_init \in [Programs -> Threads \cup {Nobody, "init"}]
      /\ m_initialization_complete \in [Programs -> {-1, 0, 1}]
      /\ init_pc \in [Programs -> InitLabels]
      /\ Initialization
      /\ \A x \in Threads : Refers(x) /\ Waits(x)
      /\ \A q \in Programs : init_pc[q] # "again"
  BY DEF IInv, Types, ThreadInv, WaitInv
<1>2. UNCHANGED <<pc, prog>> /\ \A q \in Programs : q # p =>
         /\ init_pc'[q] = init_pc[q]
         /\ m_initialization_complete'[q] = m_initialization_complete[q]
         /\ mtx_future_init'[q] = mtx_future_init[q]
  BY InitializeIsLocal DEF IInv
<1>3. init_pc'[p] # "again"
  BY <1>1 DEF OneVerdict, Initialize, InitFirstVM, BusError, InitDone, InitFetchFails,
              InitFails, InitFailsAgain, InitThrows, Fetched, FetchCached, FetchNew,
              SaveOpens, SaveEnds
<1>4. \/ init_pc[p] \in Early
      \/ UNCHANGED <<mtx_future_init, m_initialization_complete>>
  BY <1>1 DEF OneVerdict, Initialize, InitFirstVM, BusError, InitDone, InitFetchFails,
              InitFails, InitFailsAgain, InitThrows, FetchCached, FetchNew, SaveOpens,
              SaveEnds
<1>5. ASSUME NEW x \in Threads PROVE Waits(x)'
  <2>1. Refers(x) /\ Waits(x)
    BY <1>1
  <2>2. CASE UNCHANGED <<mtx_future_init, m_initialization_complete>>
    BY <1>2, <2>1, <2>2 DEF Waits
  <2>3. CASE init_pc[p] \in Early
    <3>1. mtx_future_init[p] = "init" /\ m_initialization_complete[p] = 0 /\ x # "init"
      BY <1>1, <2>3 DEF Initialization
    <3>2. pc[x] = "get" => prog[x] # p /\ prog[x] \in Programs
      BY <2>1, <3>1 DEF Waits, Refers
    <3>3. pc[x] = "use" => prog[x] # p /\ prog[x] \in Programs
      BY SMTT(30), <2>1, <3>1 DEF Waits, Refers
    <3>4. QED
      BY <1>2, <2>1, <3>2, <3>3 DEF Waits
  <2>4. QED
    BY <1>4, <2>2, <2>3
<1>6. QED
  BY <1>1, <1>2, <1>3, <1>5 DEF WaitInv

\* And WaitInv is one, if a program is judged once.
LEMMA WaitInvariance == OneVerdict => (Spec => []WaitInv)
<1> SUFFICES ASSUME OneVerdict PROVE Spec => []WaitInv
  OBVIOUS
<1>1. Init => WaitInv
  BY DEF Init, WaitInv, Waits
<1>2. IInv /\ WaitInv /\ [Next]_vars => WaitInv'
  <2> SUFFICES ASSUME IInv, WaitInv, [Next]_vars PROVE WaitInv'
    OBVIOUS
  <2>1. CASE UNCHANGED vars
    BY <2>1 DEF vars, WaitInv, Waits
  <2>2. CASE Next
    BY <2>2, Steps, WaitersKept, WaitersConstruct, WaitersInitialize
  <2>3. QED
    BY <2>1, <2>2
<1>3. QED
  BY <1>1, <1>2, Invariance, PTL DEF Spec

\* ServedProgramWorks: what ref returns takes requests for as long as it is used,
\* if forking the later VMs cannot fail and the program comes from a file.
THEOREM ServedProgramsWork == OneVerdict => (Spec => []ServedProgramWorks)
<1> SUFFICES ASSUME OneVerdict PROVE Spec => []ServedProgramWorks
  OBVIOUS
<1>1. WaitInv => ServedProgramWorks
  BY DEF WaitInv, Waits, ServedProgramWorks, Threads
<1>2. QED
  BY <1>1, WaitInvariance, PTL

\* OneWaiterAtFuture, under the same conditions: mtx_future_init, which the
\* initialization and the waiters unlock in turn, lets one at a time to get().
THEOREM WaitersTakeTurns == OneVerdict => (Spec => []OneWaiterAtFuture)
<1> SUFFICES ASSUME OneVerdict PROVE Spec => []OneWaiterAtFuture
  OBVIOUS
<1>1. WaitInv => OneWaiterAtFuture
  BY DEF WaitInv, Waits, OneWaiterAtFuture
<1>2. QED
  BY <1>1, WaitInvariance, PTL

-----------------------------------------------------------------------------
(* A tenant without a program. *)

\* There is always something to load: live updates do not write the file, because
\* there are none or it has no absolute name, or the program is fetched.  (A load
\* that meets a file which an update has just truncated fails, and no other is
\* made.)
Loadable ==
    "load" \notin Failures /\ (FromURI \/ FileName # "path" \/ Updaters = {})

\* Nobody is at the file.
Readable ==
    /\ file = "whole"
    /\ \A x \in Threads : pc[x] \notin {"truncate", "write"}
    /\ \A p \in Programs : init_pc[p] \notin {"fetch", "save", "write"}

\* A thread that takes the program away, or the attempt to load it, is about to
\* allow another attempt, or to make it.
LEMMA NullKept ==
  ASSUME Loadable, IInv, NullIsTemporary, FromURI \/ Readable, NEW x \in Threads,
         Plain(x) \/ \E p \in Fresh : LoadProgram(x, p) \/ Update(x, p)
  PROVE  NullIsTemporary'
<1>1. pc \in [Threads -> Labels]
  BY DEF IInv, Types
<1>2. program = NoProgram /\ m_started_init => \E y \in Threads : pc[y] \in {"construct", "store", "reset"}
  BY DEF NullIsTemporary, Loadable
<1>3. ASSUME NEW l \in Labels, pc' = [pc EXCEPT ![x] = l],
             \/ l \in {"construct", "store", "reset"}
             \/ program' # NoProgram \/ ~m_started_init'
             \/ pc[x] \notin {"construct", "store", "reset"} /\ UNCHANGED <<program, m_started_init>>
      PROVE  NullIsTemporary'
  <2>1. \A y \in Threads : pc'[y] = IF y = x THEN l ELSE pc[y]
    BY <1>1, <1>3
  <2>2. CASE l \in {"construct", "store", "reset"} BY <2>1, <2>2 DEF NullIsTemporary
  <2>3. CASE program' # NoProgram \/ ~m_started_init' BY <2>3 DEF NullIsTemporary
  <2>4. CASE pc[x] \notin {"construct", "store", "reset"} /\ UNCHANGED <<program, m_started_init>>
    BY <1>2, <2>1, <2>4 DEF NullIsTemporary
  <2> QED BY <1>3, <2>2, <2>3, <2>4
<1> USE DEF Labels
<1>4. CASE Begin(x) \/ Load(x) \/ Lock(x) \/ Check(x) \/ Unlock(x) \/ LoadAgain(x) \/ Missing(x)
  BY <1>3, <1>4 DEF Begin, Load, Lock, Check, Unlock, LoadAgain, Missing
<1>5. CASE Wait(x) \/ Get(x) \/ GetThrows(x) \/ wait_for_main_vm(x) \/ Release(x) \/ Current(x)
  BY <1>3, <1>5 DEF Wait, Get, GetThrows, TakeFuture, wait_for_main_vm, Release, Current
<1>6. CASE TransferThrows(x) \/ Unload(x) \/ Reloaded(x)
  BY <1>3, <1>6 DEF TransferThrows, Unload, Reloaded
<1>7. CASE Refuse(x) BY <1>7 DEF Refuse, NullIsTemporary
<1>8. CASE BeginInitialize(x) BY <1>3, <1>8 DEF BeginInitialize
<1>9. CASE NothingToLoad(x) \/ LoadThrows(x)
  BY <1>9 DEF NothingToLoad, LoadThrows, Loadable, Readable
<1>10. CASE Store(x)
  <2>1. prog[x] # NoProgram BY <1>10 DEF Store, IInv, ThreadInv, Refers
  <2> QED BY <1>3, <1>10, <2>1 DEF Store
<1>11. CASE Swap(x)
  <2>1. prog[x] # NoProgram BY <1>11 DEF Swap, IInv, ThreadInv, Refers
  <2>2. program' # NoProgram BY <1>11, <2>1 DEF Swap
  <2> QED BY <2>2 DEF NullIsTemporary
<1>12. CASE Truncate(x) \/ Write(x) \/ WriteFails(x)
  BY <1>3, <1>12 DEF Truncate, Write, WriteFails
<1>13. CASE MakeNull(x) \/ ResetStarted(x) BY <1>3, <1>13 DEF MakeNull, ResetStarted
<1>14. CASE \E p \in Fresh : LoadProgram(x, p) \/ Update(x, p)
  BY <1>3, <1>14 DEF LoadProgram, Update
<1> QED
  BY <1>4, <1>5, <1>6, <1>7, <1>8, <1>9, <1>10, <1>11, <1>12, <1>13, <1>14 DEF Plain

\* Of a program that is read from a file, and no update writes, the file stays
\* whole.
LEMMA ReadableKept ==
  ASSUME Loadable, ~FromURI, IInv, Readable, NEW x \in Threads,
         Plain(x) \/ \E p \in Fresh : LoadProgram(x, p) \/ Update(x, p)
  PROVE  Readable'
<1>1. /\ pc \in [Threads -> Labels] /\ init_pc \in [Programs -> InitLabels]
      /\ file = "whole" /\ pc[x] \notin {"truncate", "write"}
  BY DEF IInv, Types, Readable
<1>2. ASSUME UNCHANGED file, pc'[x] \notin {"truncate", "write"},
             \A y \in Threads : y # x => pc'[y] = pc[y],
             \A p \in Programs : init_pc'[p] \in {init_pc[p], "boot"}
      PROVE  Readable'
  BY <1>2 DEF Readable
<1>3. CASE Plain(x)
  <2>1. Local(x, {})
    BY <1>3, Locality DEF IInv
  <2>2. /\ \A y \in Threads : y # x => pc'[y] = pc[y]
        /\ \A p \in Programs : init_pc'[p] \in {init_pc[p], "boot"}
    BY <2>1 DEF Local
  <2>3. UNCHANGED file
    BY <1>1, <1>3 DEF Plain, Begin, Load, Lock, Check, BeginInitialize, NothingToLoad,
       LoadThrows, Store, Unlock, LoadAgain, Missing, Wait, Get, GetThrows,
       wait_for_main_vm, Release, Refuse, Current, TransferThrows, Swap, Truncate, Write,
       WriteFails, Unload, MakeNull, ResetStarted, Reloaded
  <2>4. ~Swap(x) => pc'[x] \notin {"truncate", "write"}
    BY <1>1, <1>3 DEF Plain, Begin, Load, Lock, Check, BeginInitialize, NothingToLoad,
       LoadThrows, Store, Unlock, LoadAgain, Missing, Wait, Get, GetThrows,
       wait_for_main_vm, Release, Refuse, Current, TransferThrows, Truncate, Write,
       WriteFails, Unload, MakeNull, ResetStarted, Reloaded
  <2>5. ASSUME Swap(x) PROVE pc'[x] \notin {"truncate", "write"}
    <3>1. x \in Updaters BY <2>5 DEF Swap, IInv, ThreadInv, Publishes
    <3>2. FileName # "path" BY <3>1 DEF Loadable
    <3> QED BY <1>1, <2>5, <3>2 DEF Swap
  <2> QED BY <1>2, <2>2, <2>3, <2>4, <2>5
<1>4. ASSUME NEW p \in Fresh, LoadProgram(x, p) \/ Update(x, p) PROVE Readable'
  <2>1. UNCHANGED file /\ pc'[x] \in {"store", "wait"} /\ \A y \in Threads : y # x => pc'[y] = pc[y]
    BY <1>1, <1>4 DEF LoadProgram, Update
  <2>2. init_pc' = [init_pc EXCEPT ![p] = "boot"]
    BY <1>4 DEF LoadProgram, Update, Construct
  <2> QED BY <1>1, <1>2, <2>1, <2>2
<1> QED BY <1>3, <1>4

\* NullIsTemporary: however requests, starts, updates and unloads interleave,
\* and whatever initializations fail, a tenant is without a program only until a
\* thread that is on its way publishes one or allows another load: as long as
\* there is something to load.
THEOREM TenantsAreNotStuck == Loadable => (Spec => []NullIsTemporary)
<1> SUFFICES ASSUME Loadable PROVE Spec => []NullIsTemporary
  OBVIOUS
<1> DEFINE NullInv == NullIsTemporary /\ (FromURI \/ Readable)
<1>1. Init => NullInv
  BY DEF Init, Readable, NullIsTemporary
<1>2. IInv /\ NullInv /\ [Next]_vars => NullInv'
  <2> SUFFICES ASSUME IInv, NullInv, [Next]_vars PROVE NullInv'
    OBVIOUS
  <2>1. CASE UNCHANGED vars
    BY <2>1 DEF vars, Readable, NullIsTemporary
  <2>2. ASSUME NEW p \in Programs, Initialize(p) PROVE NullInv'
    <3>1. UNCHANGED <<program, m_started_init, pc>>
      BY <2>2, InitializeIsLocal DEF IInv
    <3>2. NullIsTemporary'
      BY <3>1 DEF NullIsTemporary
    <3>3. ASSUME ~FromURI PROVE Readable'
      <4>1. init_pc[p] \notin {"fetch", "save", "write"} /\ file = "whole"
        BY <3>3 DEF Readable
      <4>2. UNCHANGED file /\ \E l \in {"rest", "done", "throw", "again", init_pc[p]} :
               init_pc' = [init_pc EXCEPT ![p] = l]
        <5>1. init_pc \in [Programs -> InitLabels] BY DEF IInv, Types
        <5>2. CASE BusError(p)
          BY <5>1, <5>2 DEF BusError
        <5> QED
          BY <2>2, <4>1, <5>2 DEF Initialize, InitFirstVM, InitDone, InitFetchFails, InitFails,
             InitFailsAgain, InitThrows, FetchCached, FetchNew, SaveOpens, SaveEnds
      <4>3. init_pc \in [Programs -> InitLabels] BY DEF IInv, Types
      <4> QED BY <3>1, <3>3, <4>1, <4>2, <4>3 DEF Readable
    <3> QED BY <3>2, <3>3
  <2>3. ASSUME NEW x \in Threads,
               Plain(x) \/ \E p \in Fresh : LoadProgram(x, p) \/ Update(x, p)
        PROVE  NullInv'
    BY <2>3, NullKept, ReadableKept
  <2>4. QED
    BY <2>1, <2>2, <2>3, Steps
<1>3. QED
  BY <1>1, <1>2, Invariance, PTL DEF Spec

-----------------------------------------------------------------------------
(* Loads and updates. *)

\* The program is one that an update put in place.
Updated == program # NoProgram /\ origin[program] = "update"

Overtakes(x) == x \notin Starters /\ pc[x] \in Loading /\ Updated => x \in overtaken

OvertakenInv == \A x \in Threads : Overtakes(x)

\* No step but Swap makes an updated program current.
LEMMA UpdatedBySwap ==
  ASSUME IInv, NEW x \in Threads,
         Plain(x) \/ \E p \in Fresh : LoadProgram(x, p) \/ Update(x, p),
         ~Swap(x), Updated'
  PROVE  Updated
<1>1. program \in References /\ origin \in [Programs -> {"load", "update"}]
  BY DEF IInv, Types
<1>2. CASE Store(x)
  BY <1>2 DEF IInv, ThreadInv, Publishes, Store, Updated
<1>3. CASE LoadThrows(x) \/ MakeNull(x)
  BY <1>3 DEF LoadThrows, MakeNull, Updated
<1>4. ASSUME Plain(x), ~Store(x), ~LoadThrows(x), ~MakeNull(x) PROVE UNCHANGED <<program, origin>>
  BY <1>4 DEF Plain, Begin, Load, Lock, Check, BeginInitialize, NothingToLoad,
     Unlock, LoadAgain, Missing, Wait, Get, GetThrows,
     wait_for_main_vm, Release, Refuse, Current, TransferThrows, Truncate, Write,
     WriteFails, Unload, ResetStarted, Reloaded
<1>5. ASSUME NEW p \in Fresh, LoadProgram(x, p) \/ Update(x, p) PROVE Updated
  <2>1. program' = program /\ \E k : origin' = [origin EXCEPT ![p] = k]
    BY <1>5 DEF LoadProgram, Update, Construct
  <2>2. program # p
    BY FreshIsFree DEF InUse
  <2> QED BY <1>1, <2>1, <2>2 DEF Updated, References
<1> QED BY <1>2, <1>3, <1>4, <1>5 DEF Updated

\* A request goes to load the program only when there is none.
LEMMA OvertakenKept ==
  ASSUME IInv, OvertakenInv, NEW x \in Threads,
         Plain(x) \/ \E p \in Fresh : LoadProgram(x, p) \/ Update(x, p)
  PROVE  OvertakenInv'
<1>1. pc \in [Threads -> Labels] /\ Overtakes(x)
  BY DEF IInv, Types, OvertakenInv
<1>2. \A y \in Threads : y # x => pc'[y] = pc[y]
  BY Locality, ConstructionIsLocal DEF IInv, Local
<1>3. CASE Swap(x)
  <2>1. pc'[x] \notin Loading /\ overtaken' = {y \in Threads : pc[y] \in Loading}
    BY <1>1, <1>3 DEF Swap, Loading
  <2> QED BY <1>2, <2>1 DEF OvertakenInv, Overtakes
<1>4. CASE Load(x)
  <2>1. /\ overtaken' = overtaken \ {x} /\ UNCHANGED <<program, origin>>
        /\ program # NoProgram => pc'[x] = "main vm"
    BY <1>1, <1>4 DEF Load
  <2>2. Overtakes(x)'
    BY <2>1 DEF Overtakes, Updated, Loading
  <2>3. ASSUME NEW y \in Threads, y # x PROVE Overtakes(y)'
    BY <1>2, <2>1, <2>3 DEF Overtakes, OvertakenInv, Updated
  <2> QED BY <2>2, <2>3 DEF OvertakenInv
<1>5. ASSUME ~Swap(x), ~Load(x) PROVE OvertakenInv'
  <2>1. UNCHANGED overtaken
    BY <1>5 DEF Plain, Begin, Lock, Check, BeginInitialize, NothingToLoad,
       LoadThrows, Store, Unlock, LoadAgain, Missing, Wait, Get, GetThrows,
       wait_for_main_vm, Release, Refuse, Current, TransferThrows, Truncate, Write,
       WriteFails, Unload, MakeNull, ResetStarted, Reloaded, LoadProgram, Update
  <2>2. Updated' => Updated
    BY <1>5, UpdatedBySwap
  <2>3. x \notin Starters /\ pc'[x] \in Loading => pc[x] \in Loading
    BY <1>1, <1>5 DEF Loading, Plain, Begin, Lock, Check, BeginInitialize, NothingToLoad,
       LoadThrows, Store, Unlock, LoadAgain, Missing, Wait, Get, GetThrows,
       wait_for_main_vm, Release, Refuse, Current, TransferThrows, Truncate, Write,
       WriteFails, Unload, MakeNull, ResetStarted, Reloaded, LoadProgram, Update
  <2>4. ASSUME NEW y \in Threads PROVE Overtakes(y)'
    BY <1>2, <2>1, <2>2, <2>3 DEF Overtakes, OvertakenInv
  <2> QED BY <2>4 DEF OvertakenInv
<1> QED BY <1>3, <1>4, <1>5

\* OnlyEarlierLoads: whatever fails and however updates and unloads interleave,
\* a request or an unload that is about to put the file's program, or none, in
\* the place of a live update was past ref's look at the program when the
\* update came into force.
THEOREM UpdatesYieldToEarlierLoads == Spec => []OnlyEarlierLoads
<1>1. Init => OvertakenInv
  BY DEF Init, OvertakenInv, Overtakes, Updated
<1>2. IInv /\ OvertakenInv /\ [Next]_vars => OvertakenInv'
  <2> SUFFICES ASSUME IInv, OvertakenInv, [Next]_vars PROVE OvertakenInv'
    OBVIOUS
  <2>1. CASE UNCHANGED vars
    BY <2>1 DEF vars, OvertakenInv, Overtakes, Updated
  <2>2. ASSUME NEW p \in Programs, Initialize(p) PROVE OvertakenInv'
    <3>1. UNCHANGED <<program, origin, pc>>
      BY <2>2, InitializeIsLocal DEF IInv
    <3>2. UNCHANGED overtaken
      BY <2>2 DEF Initialize, InitFirstVM, BusError, InitDone, InitFetchFails, InitFails,
         InitFailsAgain, InitThrows, FetchCached, FetchNew, SaveOpens, SaveEnds
    <3> QED BY <3>1, <3>2 DEF OvertakenInv, Overtakes, Updated
  <2>3. QED
    BY <2>1, <2>2, Steps, OvertakenKept
<1>3. OvertakenInv => OnlyEarlierLoads
  BY DEF OvertakenInv, Overtakes, Updated, OnlyEarlierLoads, Loading
<1>4. QED
  BY <1>1, <1>2, <1>3, Invariance, PTL DEF Spec

=============================================================================

---------------------------- MODULE VMUsersProofs ----------------------------
(***************************************************************************)
(* Proofs about VMUsers: fetches and calls of to_string on the same VMs,   *)
(* for any number of each, and of VMs and tenants.  What FetchProofs shows *)
(* of a step of a fetch holds here as well; what is new is to_string, and  *)
(* that neither kind of user disturbs the other.                           *)
(***************************************************************************)
EXTENDS VMUsers, FetchProofs

\* Zenon proves most leaves; those that need arithmetic cite SMT.
USE ZenonT(30)

(***************************************************************************)
(* Calls of to_string.                                                     *)
(***************************************************************************)
StringTypes ==
    /\ s_pc \in [Tasks -> {"idle", "item", "post", "call", "content"}]
    /\ s_slot \in [Tasks -> MaybeSlot]
    /\ s_last_slot \in [Tasks -> MaybeSlot]
    /\ s_src \in [Tasks -> MaybeSlot]
    /\ DOMAIN s_chain = Tasks
    /\ DOMAIN s_index = Tasks

\* A task is a fetch or a call of to_string.
Apart ==
    /\ \A t \in Strings : pc[t] = "idle" /\ methods[t] = "NULL"
    /\ \A t \in Fetches : s_pc[t] = "idle"

\* A call of to_string has the VMs its variables point to, once each; after a
\* transfer last_slot still points to a VM that is freed.
Holds(t) ==
    /\ s_pc[t] = "idle" => held[t] = {} /\ s_index[t] = 1 /\ s_last_slot[t] = NoSlot
    /\ s_pc[t] \in {"item", "post", "call"} =>
          s_chain[t] \in StringChains /\ s_index[t] \in 1..Len(s_chain[t])
    /\ s_pc[t] = "item" =>
          IF s_index[t] = 1 THEN held[t] = {} /\ s_last_slot[t] = NoSlot
          ELSE held[t] = {s_last_slot[t]} /\ s_src[t] = s_last_slot[t]
    /\ s_pc[t] = "post" => /\ held[t] = {s_slot[t], s_last_slot[t]}
                           /\ s_slot[t] # s_last_slot[t] /\ s_src[t] = s_last_slot[t]
                           /\ s_index[t] # 1
    /\ s_pc[t] = "call" => /\ held[t] = {s_slot[t]}
                           /\ s_index[t] = 1 => s_last_slot[t] = NoSlot
    /\ s_pc[t] = "content" => held[t] = {s_last_slot[t]} /\ s_src[t] = s_last_slot[t]

StringInv == StringTypes /\ Apart /\ \A t \in Strings : Holds(t)

UInv == PInv /\ StringInv

\* Only the first program of a chain has a break status.  A later one that
\* breaks the chain makes to_string free the VM before it a second time.
FirstBreaksOnly == \A c \in StringChains : \A i \in 2..Len(c) : ~c[i].breaks

\* What a step of to_string leaves alone.
StringFrame(t) ==
    \A u \in Tasks \ {t} :
       /\ held'[u] = held[u] /\ s_pc'[u] = s_pc[u] /\ s_slot'[u] = s_slot[u]
       /\ s_last_slot'[u] = s_last_slot[u] /\ s_src'[u] = s_src[u]
       /\ s_chain'[u] = s_chain[u] /\ s_index'[u] = s_index[u]

SlotTypes ==
    /\ idle \in [Slots -> Nat]
    /\ prog_ref \in [Slots -> BOOLEAN]
    /\ held \in [Tasks -> SUBSET Slots]

StringKept(t) == SlotTypes' /\ SlotInv' /\ StringTypes' /\ StringFrame(t) /\ Holds(t)'

\* vm_free_function, on VMs that the task has.
LEMMA StringGiveKeeps ==
    ASSUME UInv, NEW t \in Tasks, NEW V, V \ {NoSlot} \subseteq held[t], S!Give(t, V)
    PROVE  /\ SlotTypes' /\ SlotInv'
           /\ held'[t] = held[t] \ V
           /\ \A u \in Tasks \ {t} : held'[u] = held[u]
<1>1. Give(t, V) BY DEF S!Give, Give
<1>2. Types /\ SlotInv BY DEF UInv, PInv, IInv
<1> QED BY <1>1, <1>2, GiveKeeps DEF SlotTypes

\* Returning from to_string frees everything the call has.
LEMMA ReturnKeeps ==
    ASSUME UInv, NEW t \in Tasks, NEW V, V \ {NoSlot} = held[t], S!Return(t, V)
    PROVE  StringKept(t)
<1>0. StringTypes BY DEF UInv, StringInv
<1>1. /\ SlotTypes' /\ SlotInv' /\ held'[t] = held[t] \ V
      /\ \A u \in Tasks \ {t} : held'[u] = held[u]
  BY StringGiveKeeps DEF S!Return
<1>2. held'[t] = {} BY <1>1
<1>3. /\ s_pc'[t] = "idle" /\ s_index'[t] = 1 /\ s_last_slot'[t] = NoSlot
  BY <1>0 DEF StringTypes, S!Return, S!Goto
<1>4. StringTypes' BY <1>0 DEF StringTypes, S!Return, S!Goto, MaybeSlot
<1>5. StringFrame(t) BY <1>0, <1>1 DEF StringTypes, StringFrame, S!Return, S!Goto
<1>6. Holds(t)' BY <1>2, <1>3 DEF Holds
<1> QED BY <1>1, <1>4, <1>5, <1>6 DEF StringKept

\* Entering to_string.
LEMMA StringBeginKeeps == ASSUME UInv, NEW t \in Strings, S!Begin(t) PROVE StringKept(t)
<1>0. t \in Tasks /\ StringTypes /\ Holds(t) /\ Types /\ SlotInv
  BY UsersAssumption DEF UInv, StringInv, PInv, IInv
<1>1. PICK c \in StringChains : s_chain' = [s_chain EXCEPT ![t] = c] BY DEF S!Begin
<1>2. /\ s_pc[t] = "idle" /\ s_pc'[t] = "item" /\ s_chain'[t] = c
      /\ UNCHANGED <<s_index, s_last_slot, s_slot, s_src, idle, prog_ref, held, crashed>>
  BY <1>0, <1>1 DEF StringTypes, S!Begin, S!Goto, S!slotVars
<1>3. StringTypes' BY <1>0, <1>1, <1>2 DEF StringTypes, S!Begin, S!Goto
<1>4. StringFrame(t) BY <1>0, <1>1, <1>2 DEF StringTypes, StringFrame, S!Begin, S!Goto
<1>5. SlotTypes' BY <1>0, <1>2 DEF SlotTypes, Types
<1>6. SlotInv' BY <1>0, <1>2 DEF SlotInv, Idle, Taken
<1>7. 1 \in 1..Len(c) BY SMT, UsersAssumption
<1>8. Holds(t)' BY <1>0, <1>2, <1>7 DEF Holds
<1> QED BY <1>3, <1>4, <1>5, <1>6, <1>8 DEF StringKept

\* A reservation: the VM is nobody else's, and not the one the call has.
LEMMA ReserveKeeps ==
    ASSUME UInv, NEW t \in Strings, NEW s \in Slots, S!Reserve(t, s) PROVE StringKept(t)
<1>0. t \in Tasks /\ StringTypes /\ Holds(t) /\ Types /\ SlotInv
  BY UsersAssumption DEF UInv, StringInv, PInv, IInv
<1>1. Take(t, s) BY DEF S!Reserve, S!Take, Take
<1>2. /\ SlotTypes' /\ SlotInv'
      /\ s \notin held[t] /\ held'[t] = held[t] \cup {s}
      /\ \A u \in Tasks \ {t} : held'[u] = held[u]
  BY <1>0, <1>1, TakeKeeps DEF SlotTypes
<1>3. /\ s_pc[t] = "item" /\ s_slot'[t] = s
      /\ s_pc'[t] = IF s_index[t] > 1 THEN "post" ELSE "call"
      /\ UNCHANGED <<s_index, s_last_slot, s_chain, s_src>>
  BY <1>0 DEF StringTypes, S!Reserve, S!Goto
<1>4. StringTypes' BY <1>0, <1>3 DEF StringTypes, S!Reserve, S!Goto, MaybeSlot
<1>5. StringFrame(t) BY <1>0, <1>2, <1>3 DEF StringTypes, StringFrame, S!Reserve, S!Goto
<1>6. s_chain[t] \in StringChains /\ s_index[t] \in 1..Len(s_chain[t]) BY <1>0, <1>3 DEF Holds
<1>7. s_index[t] > 1 <=> s_index[t] # 1
  <2>1. Len(s_chain[t]) \in Nat BY SMT, <1>6, UsersAssumption
  <2> QED BY SMT, <1>6, <2>1
<1>8. CASE s_index[t] = 1
  <2>1. held'[t] = {s} /\ s_last_slot[t] = NoSlot BY <1>0, <1>2, <1>3, <1>8 DEF Holds
  <2> QED BY <1>2, <1>3, <1>4, <1>5, <1>6, <1>7, <1>8, <2>1 DEF StringKept, Holds
<1>9. CASE s_index[t] # 1
  <2>1. held[t] = {s_last_slot[t]} /\ s_src[t] = s_last_slot[t] BY <1>0, <1>3, <1>9 DEF Holds
  <2>2. held'[t] = {s, s_last_slot[t]} /\ s # s_last_slot[t] BY <1>2, <2>1
  <2>3. Holds(t)' BY <1>3, <1>6, <1>7, <1>9, <2>1, <2>2 DEF Holds
  <2> QED BY <1>2, <1>4, <1>5, <2>3 DEF StringKept
<1> QED BY <1>8, <1>9

\* The exits that free everything.
LEMMA ExitKeeps ==
    ASSUME FirstBreaksOnly, UInv, NEW t \in Strings,
           \/ S!ReserveFailed(t) \/ S!ReserveNoProgram(t) \/ S!TransferFailed(t)
           \/ S!CallBreaks(t) \/ S!Content(t)
    PROVE  StringKept(t)
<1>0. t \in Tasks /\ Holds(t) BY UsersAssumption DEF UInv, StringInv
<1>a. held[t] \subseteq Slots BY <1>0 DEF UInv, PInv, IInv, Types
<1>1. CASE S!ReserveFailed(t) \/ S!ReserveNoProgram(t)
  <2>1. s_pc[t] = "item" /\ S!Return(t, {s_last_slot[t]})
    BY <1>1 DEF S!ReserveFailed, S!ReserveNoProgram
  <2>2. {s_last_slot[t]} \ {NoSlot} = held[t] BY <1>0, <1>a, <2>1, SlotsAssumption DEF Holds
  <2> QED BY <1>0, <2>1, <2>2, ReturnKeeps
<1>2. CASE S!TransferFailed(t)
  <2>1. s_pc[t] = "post" /\ S!Return(t, {s_slot[t], s_last_slot[t]}) BY <1>2 DEF S!TransferFailed
  <2>2. {s_slot[t], s_last_slot[t]} \ {NoSlot} = held[t] BY <1>0, <1>a, <2>1, SlotsAssumption DEF Holds
  <2> QED BY <1>0, <2>1, <2>2, ReturnKeeps
<1>3. CASE S!CallBreaks(t)
  <2>1. s_pc[t] = "call" /\ s_chain[t][s_index[t]].breaks
        /\ S!Return(t, {s_slot[t], s_last_slot[t]})
    BY <1>3 DEF S!CallBreaks, S!Item
  <2>2. s_index[t] = 1
    <3>1. s_chain[t] \in StringChains /\ s_index[t] \in 1..Len(s_chain[t])
      BY <1>0, <2>1 DEF Holds
    <3>2. s_index[t] \notin 2..Len(s_chain[t]) BY <2>1, <3>1 DEF FirstBreaksOnly
    <3>3. Len(s_chain[t]) \in Nat BY SMT, <3>1, UsersAssumption
    <3> QED BY SMT, <3>1, <3>2, <3>3
  <2>3. held[t] = {s_slot[t]} /\ s_last_slot[t] = NoSlot BY <1>0, <2>1, <2>2 DEF Holds
  <2>4. {s_slot[t], s_last_slot[t]} \ {NoSlot} = held[t] BY <1>a, <2>3, SlotsAssumption
  <2> QED BY <1>0, <2>1, <2>4, ReturnKeeps
<1>4. CASE S!Content(t)
  <2>1. s_pc[t] = "content" /\ S!Return(t, {s_last_slot[t]}) BY <1>4 DEF S!Content
  <2>2. {s_last_slot[t]} \ {NoSlot} = held[t] BY <1>0, <1>a, <2>1, SlotsAssumption DEF Holds
  <2> QED BY <1>0, <2>1, <2>2, ReturnKeeps
<1> QED BY <1>1, <1>2, <1>3, <1>4

\* The transfer to the next VM frees the one before it.
LEMMA StringTransferKeeps == ASSUME UInv, NEW t \in Strings, S!Transfer(t) PROVE StringKept(t)
<1>0. t \in Tasks /\ StringTypes /\ Holds(t) BY UsersAssumption DEF UInv, StringInv
<1>1. /\ s_pc[t] = "post" /\ S!Give(t, {s_last_slot[t]}) /\ s_pc'[t] = "call"
      /\ UNCHANGED <<s_chain, s_index, s_slot, s_last_slot, s_src>>
  BY <1>0 DEF StringTypes, S!Transfer, S!Goto, S!locals
<1>2. /\ held[t] = {s_slot[t], s_last_slot[t]} /\ s_slot[t] # s_last_slot[t] /\ s_index[t] # 1
      /\ s_chain[t] \in StringChains /\ s_index[t] \in 1..Len(s_chain[t])
  BY <1>0, <1>1 DEF Holds
<1>3. {s_last_slot[t]} \ {NoSlot} \subseteq held[t] BY <1>2
<1>4. /\ SlotTypes' /\ SlotInv' /\ held'[t] = held[t] \ {s_last_slot[t]}
      /\ \A u \in Tasks \ {t} : held'[u] = held[u]
  BY <1>0, <1>1, <1>3, StringGiveKeeps
<1>5. held'[t] = {s_slot[t]} BY <1>2, <1>4
<1>6. StringTypes' BY <1>0, <1>1 DEF StringTypes, S!Transfer, S!Goto
<1>7. StringFrame(t) BY <1>0, <1>1, <1>4 DEF StringTypes, StringFrame, S!Transfer, S!Goto
<1>8. Holds(t)' BY <1>1, <1>2, <1>5 DEF Holds
<1> QED BY <1>4, <1>6, <1>7, <1>8 DEF StringKept

\* The call.
LEMMA StringCallKeeps == ASSUME UInv, NEW t \in Strings, S!Call(t) PROVE StringKept(t)
<1>0. t \in Tasks /\ StringTypes /\ Holds(t) /\ Types /\ SlotInv
  BY UsersAssumption DEF UInv, StringInv, PInv, IInv
<1>1. /\ s_pc[t] = "call" /\ s_src'[t] = s_slot[t] /\ s_last_slot'[t] = s_slot[t]
      /\ s_index'[t] = s_index[t] + 1
      /\ s_pc'[t] = IF s_index[t] < Len(s_chain[t]) THEN "item" ELSE "content"
      /\ UNCHANGED <<s_chain, idle, prog_ref, held, crashed>>
  BY <1>0 DEF StringTypes, S!Call, S!Goto, S!slotVars
<1>2. /\ held[t] = {s_slot[t]}
      /\ s_chain[t] \in StringChains /\ s_index[t] \in 1..Len(s_chain[t])
  BY <1>0, <1>1 DEF Holds
<1>3. Len(s_chain[t]) \in Nat BY SMT, <1>2, UsersAssumption
<1>4. StringTypes' BY <1>0, <1>1 DEF StringTypes, S!Call, S!Goto, MaybeSlot
<1>5. StringFrame(t) BY <1>0, <1>1 DEF StringTypes, StringFrame, S!Call, S!Goto
<1>6. SlotTypes' BY <1>0, <1>1 DEF SlotTypes, Types
<1>7. SlotInv' BY <1>0, <1>1 DEF SlotInv, Idle, Taken
<1>8. Holds(t)'
  <2>1. CASE s_index[t] < Len(s_chain[t])
    <3>1. s_index'[t] \in 1..Len(s_chain[t]) /\ s_index'[t] # 1 BY SMT, <1>1, <1>2, <1>3, <2>1
    <3> QED BY <1>1, <1>2, <2>1, <3>1 DEF Holds
  <2>2. CASE ~(s_index[t] < Len(s_chain[t])) BY <1>1, <1>2, <2>2 DEF Holds
  <2> QED BY <2>1, <2>2
<1> QED BY <1>4, <1>5, <1>6, <1>7, <1>8 DEF StringKept

(***************************************************************************)
(* Fetches and calls together.                                             *)
(***************************************************************************)
\* The fetches do not notice a step of to_string, other than by the VMs it
\* takes and gives.
LEMMA StringStepKeeps ==
    ASSUME UInv, NEW t \in Strings, StringKept(t), UNCHANGED fetchVars
    PROVE  UInv' /\ Others(t)
<1>0. /\ PInv /\ IInv /\ Types /\ StringInv /\ Apart
      /\ t \in Tasks /\ t \notin Fetches /\ Strings \subseteq Tasks /\ Fetches \subseteq Tasks
  BY UsersAssumption DEF UInv, StringInv, PInv, IInv
<1>1. SlotTypes' /\ SlotInv' /\ StringTypes' /\ StringFrame(t) /\ Holds(t)' BY DEF StringKept
<1>2. Others(t) BY <1>1 DEF Others, StringFrame, fetchVars, locals, task
<1>3. Types' BY <1>0, <1>1 DEF Types, SlotTypes, fetchVars, locals, task
<1>4. ASSUME NEW u \in Tasks PROVE Own(u)'
  <2>1. CASE u # t BY <1>0, <1>2, <2>1, OthersKeep
  <2>2. CASE u = t
    <3>1. pc[t] = "idle" /\ methods[t] = "NULL" /\ Own(t) BY <1>0 DEF Apart, IInv
    <3> QED BY <2>2, <3>1 DEF Own, PrivInv, LastInv, CurrentInv, fetchVars, locals, task
  <2> QED BY <2>1, <2>2
<1>5. ASSUME NEW u \in Tasks PROVE Programs(u)'
  <2>1. Programs(u) BY <1>0 DEF PInv
  <2>2. CASE u # t BY <1>0, <1>2, <2>1, <2>2, OthersPrograms
  <2>3. CASE u = t
    <3>1. pc[t] = "idle" BY <1>0 DEF Apart
    <3> QED BY <2>1, <2>3, <3>1 DEF Programs, Position, Previous, Current, fetchVars, locals, task
  <2> QED BY <2>2, <2>3
<1>6. PInv' BY <1>1, <1>3, <1>4, <1>5 DEF PInv, IInv
<1>7. Apart' BY <1>0, <1>1 DEF Apart, StringFrame, fetchVars, locals, task
<1>8. ASSUME NEW u \in Strings PROVE Holds(u)'
  <2>1. CASE u # t
    <3>1. Holds(u) BY <1>0 DEF StringInv
    <3>2. /\ held'[u] = held[u] /\ s_pc'[u] = s_pc[u] /\ s_slot'[u] = s_slot[u]
          /\ s_last_slot'[u] = s_last_slot[u] /\ s_src'[u] = s_src[u]
          /\ s_chain'[u] = s_chain[u] /\ s_index'[u] = s_index[u]
      BY <1>0, <1>1, <2>1 DEF StringFrame
    <3> QED BY <3>1, <3>2 DEF Holds
  <2> QED BY <1>1, <2>1
<1> QED BY <1>1, <1>2, <1>6, <1>7, <1>8 DEF UInv, StringInv

\* The calls of to_string do not notice a step of a fetch.
LEMMA FetchStepKeeps ==
    ASSUME UInv, NEW t \in Fetches, Arrive(t) \/ Step(t), UNCHANGED stringVars
    PROVE  UInv' /\ Others(t)
<1>0. /\ PInv /\ StringInv /\ t \in Tasks /\ t \notin Strings
      /\ Strings \subseteq Tasks /\ Fetches \subseteq Tasks
  BY UsersAssumption DEF UInv
<1>2. PInv' /\ Others(t) BY <1>0, StepPrograms
<1>3. StringTypes' BY <1>0 DEF StringInv, StringTypes, stringVars
<1>4. Apart' BY <1>0, <1>2 DEF StringInv, Apart, Others, stringVars
<1>5. ASSUME NEW u \in Strings PROVE Holds(u)'
  <2>1. held'[u] = held[u] BY <1>0, <1>2 DEF Others
  <2>2. Holds(u) BY <1>0 DEF StringInv
  <2> QED BY <2>1, <2>2 DEF Holds, stringVars
<1> QED BY <1>2, <1>3, <1>4, <1>5 DEF UInv, StringInv

\* A step is one of a fetch or of a call of to_string.
LEMMA StepsOfUsers ==
    ASSUME UsersNext
    PROVE  \/ \E t \in Fetches : (Arrive(t) \/ Step(t)) /\ UNCHANGED stringVars
           \/ \E t \in Strings : (S!Arrive(t) \/ S!Step(t)) /\ UNCHANGED fetchVars
BY DEF UsersNext, UsersArrive, FetchStep, StringStep

\* Everything to_string does keeps its invariant.
LEMMA StringKeeps ==
    ASSUME FirstBreaksOnly, UInv, NEW t \in Strings, S!Arrive(t) \/ S!Step(t)
    PROVE  StringKept(t)
BY StringBeginKeeps, ReserveKeeps, ExitKeeps, StringTransferKeeps, StringCallKeeps
   DEF S!Arrive, S!Step

\* At first nobody does anything.
LEMMA InitUsers == ASSUME UsersInit PROVE UInv /\ Init
<1>1. Init BY DEF UsersInit
<1>2. PInv BY <1>1, InitPrograms
<1>3. StringTypes BY DEF UsersInit, S!Init, StringTypes, MaybeSlot
<1>4. Apart BY UsersAssumption DEF UsersInit, Init, S!Init, Apart
<1>5. \A t \in Strings : Holds(t) BY UsersAssumption DEF UsersInit, S!Init, S!SlotsInit, Holds
<1> QED BY <1>1, <1>2, <1>3, <1>4, <1>5 DEF UInv, StringInv

\* A step that changes nothing.
LEMMA StutterKeeps == ASSUME UInv, UNCHANGED userVars PROVE UInv'
<1> USE DEF userVars, fetchVars, locals, task, stringVars, slotVars
<1>1. Types' BY DEF UInv, PInv, IInv, Types
<1>2. SlotInv' BY DEF UInv, PInv, IInv, SlotInv, Idle, Taken
<1>3. ASSUME NEW t \in Tasks PROVE Own(t)' /\ Programs(t)'
  <2>1. Own(t) /\ Programs(t) BY DEF UInv, PInv, IInv
  <2>2. Item(t)' = Item(t) /\ (Temporary(t)' <=> Temporary(t))
    BY DEF Item, Temporary
  <2>3. Own(t)' BY <2>1, <2>2 DEF Own, PrivInv, LastInv, CurrentInv
  <2>4. Programs(t)' BY <2>1, <2>2 DEF Programs, Position, Previous, Current
  <2> QED BY <2>3, <2>4
<1>4. StringTypes' /\ Apart' BY DEF UInv, StringInv, StringTypes, Apart
<1>5. \A t \in Strings : Holds(t)' BY DEF UInv, StringInv, Holds
<1> QED BY <1>1, <1>2, <1>3, <1>4, <1>5 DEF UInv, PInv, IInv, StringInv

\* The invariant of fetches and calls of to_string on the same VMs.
LEMMA UsersInvariance == FirstBreaksOnly => (UsersSpec => []UInv)
<1> SUFFICES ASSUME FirstBreaksOnly PROVE UsersSpec => []UInv OBVIOUS
<1>1. UInv /\ [UsersNext]_userVars => UInv'
  <2> SUFFICES ASSUME UInv, [UsersNext]_userVars PROVE UInv' OBVIOUS
  <2>1. CASE UsersNext BY <2>1, StepsOfUsers, FetchStepKeeps, StringKeeps, StringStepKeeps
  <2>2. CASE UNCHANGED userVars BY <2>2, StutterKeeps
  <2> QED BY <2>1, <2>2
<1> QED BY <1>1, InitUsers, PTL DEF UsersSpec

\* Every VM is in its queue or reserved by one task, once, and nobody frees a VM
\* that is not theirs: fetches and calls of to_string, whatever their chains
\* are, if only the first program of a chain of to_string may break it.
THEOREM UsersReserveOnce == FirstBreaksOnly => (UsersSpec => []ReservedOnce)
<1> SUFFICES ASSUME FirstBreaksOnly PROVE UsersSpec => []ReservedOnce OBVIOUS
<1>1. UInv => ReservedOnce
  BY DEF UInv, PInv, IInv, SlotInv, Idle, Taken, ReservedOnce
<1> QED BY <1>1, UsersInvariance, PTL

\* kvm_backend_call in a fetch runs the program that the chain names, also when
\* calls of to_string, which only their first program breaks, take and give VMs
\* of the same programs.
THEOREM UsersRunOwnProgram == FirstBreaksOnly => (UsersSpec => []RunsOwnProgram)
<1> SUFFICES ASSUME FirstBreaksOnly PROVE UsersSpec => []RunsOwnProgram OBVIOUS
<1>1. UInv => RunsOwnProgram BY OwnProgramInv DEF UInv
<1> QED BY <1>1, UsersInvariance, PTL

\* The calls, the transfers from VM to VM, the copies and the delivery of what
\* the last program answers touch only VMs that the task has reserved and not
\* freed, whoever else waits for them: fetches with any chains and replies, and
\* calls of to_string that only their first program breaks.
THEOREM UsersTouchReserved == FirstBreaksOnly => (UsersSpec => []UsersKeepReserved)
<1> SUFFICES ASSUME FirstBreaksOnly PROVE UsersSpec => []UsersKeepReserved OBVIOUS
<1> DEFINE SInv == \A t \in Tasks : Source(t)
<1>1. UsersInit => SInv BY InitUsers, InitSource
<1>2. UInv /\ SInv /\ [UsersNext]_userVars => SInv'
  <2> SUFFICES ASSUME UInv, SInv, [UsersNext]_userVars, NEW u \in Tasks PROVE Source(u)' OBVIOUS
  <2>1. ASSUME NEW t \in Fetches, Arrive(t) \/ Step(t), UNCHANGED stringVars
        PROVE  Source(u)'
    <3>1. t \in Tasks /\ Others(t) BY <2>1, FetchStepKeeps, UsersAssumption
    <3>3. CASE u = t BY <2>1, <3>1, <3>3, StepSource DEF UInv
    <3>4. CASE u # t BY <3>1, <3>4, OthersSource
    <3> QED BY <3>3, <3>4
  <2>2. ASSUME UNCHANGED fetchVars PROVE Source(u)'
    BY <2>2 DEF Source, Abandoned, Temporary, fetchVars, locals, task
  <2> QED BY <2>1, <2>2, StepsOfUsers DEF userVars
<1>3. UInv /\ SInv => UsersKeepReserved
  <2> SUFFICES ASSUME UInv, SInv PROVE UsersKeepReserved OBVIOUS
  <2>2. KeepsReserved BY SourceIsHeld DEF UInv, KeepsReserved
  <2>3. ASSUME NEW t \in Tasks
        PROVE  /\ s_pc[t] = "call" => s_slot[t] \in held[t]
               /\ s_pc[t] = "post" => {s_slot[t], s_src[t]} \subseteq held[t]
               /\ s_pc[t] = "content" => s_src[t] \in held[t]
    <3>1. CASE t \in Fetches BY <3>1 DEF UInv, StringInv, Apart
    <3>2. CASE t \in Strings BY <3>2 DEF UInv, StringInv, Holds
    <3> QED BY <3>1, <3>2, UsersAssumption
  <2> QED BY <2>2, <2>3 DEF UsersKeepReserved, S!UsesReserved
<1> HIDE DEF SInv
<1> QED BY <1>1, <1>2, <1>3, UsersInvariance, PTL DEF UsersSpec

\* A task that is over holds no VM, whichever of the exits of kvmbe_gethdrs or
\* of to_string it took, and also when a fetch was retried, if no chain of a
\* fetch ends in two programs of one tenant: the early release and a retry
\* lose the VM of such a chain (fetch_reuse).
THEOREM UsersHoldNothingAfter ==
    FirstBreaksOnly /\ NoFinalReuse => (UsersSpec => []NothingHeldAfter)
<1> SUFFICES ASSUME FirstBreaksOnly, NoFinalReuse PROVE UsersSpec => []NothingHeldAfter OBVIOUS
<1> DEFINE EInv == \A t \in Fetches : Exact(t)
<1>1. UsersInit => EInv BY InitUsers, InitExact, UsersAssumption
<1>2. UInv /\ EInv /\ [UsersNext]_userVars => EInv'
  <2> SUFFICES ASSUME UInv, EInv, [UsersNext]_userVars, NEW u \in Fetches PROVE Exact(u)' OBVIOUS
  <2>0. u \in Tasks /\ u \notin Strings BY UsersAssumption
  <2>1. ASSUME NEW t \in Fetches, Arrive(t) \/ Step(t), UNCHANGED stringVars
        PROVE  Exact(u)'
    <3>1. t \in Tasks /\ Others(t) BY <2>1, FetchStepKeeps, UsersAssumption
    <3>3. CASE u = t BY <2>1, <3>1, <3>3, StepExact DEF UInv
    <3>4. CASE u # t BY <2>0, <3>1, <3>4, OthersExact
    <3> QED BY <3>3, <3>4
  <2>2. ASSUME NEW t \in Strings, S!Arrive(t) \/ S!Step(t), UNCHANGED fetchVars
        PROVE  Exact(u)'
    <3>1. t \in Tasks /\ Others(t) BY <2>2, StringKeeps, StringStepKeeps, UsersAssumption
    <3> QED BY <2>0, <3>1, OthersExact
  <2>3. CASE UNCHANGED userVars
    <3>1. Temporary(u)' <=> Temporary(u) BY <2>3 DEF userVars, fetchVars, locals, task, Temporary
    <3>2. Priv(u)' = Priv(u) BY <2>3 DEF userVars, fetchVars, locals, task, Priv
    <3> QED BY <2>3, <3>1, <3>2 DEF userVars, fetchVars, locals, task, slotVars, Exact
  <2> QED BY <2>1, <2>2, <2>3, StepsOfUsers
<1>3. UInv /\ EInv => NothingHeldAfter
  <2> SUFFICES ASSUME UInv, EInv, NEW t \in Tasks,
                      pc[t] = "idle", retries[t] = 0, s_pc[t] = "idle"
               PROVE  held[t] = {}
    BY DEF NothingHeldAfter
  <2>1. CASE t \in Fetches BY <2>1 DEF Exact, Priv
  <2>2. CASE t \in Strings BY <2>2 DEF UInv, StringInv, Holds
  <2> QED BY <2>1, <2>2, UsersAssumption
<1> HIDE DEF EInv
<1> QED BY <1>1, <1>2, <1>3, UsersInvariance, PTL DEF UsersSpec
=============================================================================

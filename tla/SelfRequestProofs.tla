-------------------------- MODULE SelfRequestProofs --------------------------
(***************************************************************************)
(* The counter of self-requests, for any number of tasks and any limit.    *)
(***************************************************************************)
EXTENDS SelfRequest, FiniteSetTheorems, TLAPS

\* Zenon proves most leaves; those that need arithmetic cite SMT.
USE ZenonT(30)

\* What the argument needs of TypeOK.  That the number of cURL handles never
\* drops below zero follows from CountIsExact only.
Types ==
    /\ self_request_concurrency \in Int
    /\ curls \in Int
    /\ pc \in [Tasks -> {"idle", "count", "over", "setup", "perform", "caught", "clean"}]
    /\ way \in [Tasks -> {"chain", "guest"}]
    /\ parent \in [Tasks -> Tasks \cup {None}]
    /\ refused \in Nat /\ abandoned \in Nat

\* Only what is counted is over the limit, and only guests catch and clean up.
Places ==
    \A t \in Tasks :
       /\ pc[t] = "over" => Counted(t)
       /\ pc[t] \in {"caught", "clean"} => way[t] = "guest"

\* The tasks that passed the limit and are not back yet.
Admitted == {t \in Tasks : Counted(t) /\ pc[t] \in {"setup", "perform"}}

\* LimitHolds, from the moment a task passes the limit.
AdmittedHold == Cardinality(Admitted) <= MaxConcurrency + refused

IInv == Types /\ Places /\ CountIsExact /\ AdmittedHold

USE SelfRequestAssumption

\* Sets of tasks have a size, which adding and removing a task changes by one.
LEMMA Sizes ==
  ASSUME NEW S \in SUBSET Tasks, NEW t \in Tasks
  PROVE  /\ Cardinality(S) \in Nat
         /\ t \notin S => Cardinality(S \cup {t}) = Cardinality(S) + 1
         /\ t \in S => Cardinality(S \ {t}) = Cardinality(S) - 1
<1>1. IsFiniteSet(S)
  BY FS_Subset
<1>2. QED
  BY <1>1, FS_CardinalityType, FS_AddElement, FS_RemoveElement

\* A smaller set of tasks has a smaller size.
LEMMA SmallerSet ==
  ASSUME NEW S \in SUBSET Tasks, NEW T \in SUBSET S
  PROVE  /\ Cardinality(S) \in Nat /\ Cardinality(T) \in Nat
         /\ Cardinality(T) <= Cardinality(S)
<1>1. IsFiniteSet(S) /\ IsFiniteSet(T)
  BY FS_Subset
<1>2. QED
  BY <1>1, FS_Subset, FS_CardinalityType

\* Without any task, nothing is counted.
LEMMA InitIInv == Init => IInv
<1> SUFFICES ASSUME Init PROVE IInv
  OBVIOUS
<1>1. Types
  BY SMT DEF Init, Types
<1>2. Places
  BY DEF Init, Places
<1>3. OnCount = {} /\ OnCurl = {} /\ Admitted = {}
  BY DEF Init, OnCount, OnCurl, Admitted
<1>4. QED
  BY SMT, <1>1, <1>2, <1>3, FS_EmptySet DEF Init, IInv, CountIsExact, AdmittedHold

\* Every step keeps the types, and tasks where they may be.
LEMMA StepTypes == IInv /\ [Next]_vars => Types' /\ Places'
<1> SUFFICES ASSUME IInv, [Next]_vars PROVE Types' /\ Places'
  OBVIOUS
<1> USE DEF IInv, Types, Places, Counted
<1>1. CASE UNCHANGED vars
  BY <1>1 DEF vars, counters, history
<1>2. ASSUME NEW t \in Tasks, NEW w \in {"chain", "guest"}, NEW p \in Tasks \cup {None},
             Begin(t, w, p)
      PROVE  Types' /\ Places'
  BY SMT, <1>2 DEF Begin, Goto, history
<1>3. ASSUME NEW t \in Tasks, Count(t) \/ Over(t) \/ Caught(t) \/ Clean(t)
      PROVE  Types' /\ Places'
  BY SMT, <1>3 DEF Count, Over, Caught, Clean, Goto, Return, counters, history
<1>4. ASSUME NEW t \in Tasks, ChainSetup(t) \/ ChainFinish(t)
      PROVE  Types' /\ Places'
  BY SMT, <1>4 DEF ChainSetup, ChainFinish, Goto, Return, counters, history
<1>5. ASSUME NEW t \in Tasks, GuestSetup(t) \/ GuestPerform(t)
      PROVE  Types' /\ Places'
  BY SMT, <1>5 DEF GuestSetup, GuestPerform, Goto, Return, counters, history
<1>6. QED
  BY <1>1, <1>2, <1>3, <1>4, <1>5 DEF Next, Step

\* Every step changes the counter by as much as it changes what is counted, and
\* the number of handles by as many as are in use.
LEMMA StepCounts == IInv /\ [Next]_vars => CountIsExact'
<1> SUFFICES ASSUME IInv, [Next]_vars PROVE CountIsExact'
  OBVIOUS
<1> USE DEF Counted, OnCount, OnCurl
<1>0. Types /\ Places /\ CountIsExact
  BY DEF IInv
<1>1. Types'
  BY StepTypes
<1>2. OnCount \in SUBSET Tasks /\ OnCurl \in SUBSET Tasks
  OBVIOUS
<1>sizes. Cardinality(OnCount) \in Nat /\ Cardinality(OnCurl) \in Nat
  <2> HIDE DEF OnCount, OnCurl
  <2> QED
    BY <1>2, FS_Subset, FS_CardinalityType
<1>3. ASSUME NEW t \in Tasks
      PROVE  /\ Cardinality(OnCount) \in Nat /\ Cardinality(OnCurl) \in Nat
             /\ t \notin OnCount => Cardinality(OnCount \cup {t}) = Cardinality(OnCount) + 1
             /\ t \in OnCount => Cardinality(OnCount \ {t}) = Cardinality(OnCount) - 1
             /\ t \notin OnCurl => Cardinality(OnCurl \cup {t}) = Cardinality(OnCurl) + 1
             /\ t \in OnCurl => Cardinality(OnCurl \ {t}) = Cardinality(OnCurl) - 1
  <2> HIDE DEF OnCount, OnCurl
  <2> QED
    BY <1>2, <1>3, Sizes
<1>4. CASE UNCHANGED vars
  <2>1. OnCount' = OnCount /\ OnCurl' = OnCurl
    BY <1>4 DEF vars, counters, history
  <2>2. QED
    BY <1>0, <1>4, <2>1 DEF CountIsExact, vars, counters, history
<1>5. ASSUME NEW t \in Tasks, NEW w \in {"chain", "guest"}, NEW p \in Tasks \cup {None},
             Begin(t, w, p)
      PROVE  CountIsExact'
  <2>1. /\ OnCount' = OnCount
        /\ w = "guest" => OnCurl' = OnCurl \cup {t}
        /\ w # "guest" => OnCurl' = OnCurl
        /\ t \notin OnCurl
    BY <1>0, <1>5 DEF Begin, Goto, Types
  <2>2. /\ self_request_concurrency' = self_request_concurrency
        /\ curls' = IF w = "guest" THEN curls + 1 ELSE curls
        /\ UNCHANGED <<self_request_uri, refused, abandoned>>
    BY <1>5 DEF Begin, history
  <2> HIDE DEF OnCount, OnCurl
  <2>3. Cardinality(OnCount') = Cardinality(OnCount)
    BY <1>3, <2>1
  <2>4. /\ w = "guest" => Cardinality(OnCurl') = Cardinality(OnCurl) + 1
        /\ w # "guest" => Cardinality(OnCurl') = Cardinality(OnCurl)
    BY <1>3, <2>1
  <2>5. QED
    BY SMT, <1>0, <1>1, <1>sizes, <2>2, <2>3, <2>4 DEF CountIsExact, Types
<1>6. ASSUME NEW t \in Tasks, Count(t)
      PROVE  CountIsExact'
  <2>1. /\ Counted(t) => OnCount' = OnCount \cup {t}
        /\ ~Counted(t) => OnCount' = OnCount
        /\ OnCurl' = OnCurl
        /\ t \notin OnCount
    BY <1>0, <1>6 DEF Count, Goto, Types
  <2>2. /\ self_request_concurrency' = IF Counted(t) THEN self_request_concurrency + 1
                                                   ELSE self_request_concurrency
        /\ UNCHANGED <<self_request_uri, curls, refused, abandoned>>
    BY <1>6 DEF Count, history
  <2> HIDE DEF OnCount, OnCurl, Counted
  <2>3. /\ Counted(t) => Cardinality(OnCount') = Cardinality(OnCount) + 1
        /\ ~Counted(t) => Cardinality(OnCount') = Cardinality(OnCount)
    BY <1>3, <2>1
  <2>4. Cardinality(OnCurl') = Cardinality(OnCurl)
    BY <1>3, <2>1
  <2>5. QED
    BY SMT, <1>0, <1>1, <1>sizes, <2>2, <2>3, <2>4 DEF CountIsExact, Types
<1>7. ASSUME NEW t \in Tasks, Over(t)
      PROVE  CountIsExact'
  <2>1. /\ way[t] = "chain" => OnCount' = OnCount \ {t}
        /\ way[t] # "chain" => OnCount' = OnCount
        /\ OnCurl' = OnCurl
        /\ t \in OnCount
    BY <1>0, <1>7 DEF Over, Goto, Return, Types, Places
  <2>2. /\ self_request_concurrency' = self_request_concurrency - 1
        /\ refused' = IF way[t] = "chain" THEN refused ELSE refused + 1
        /\ UNCHANGED <<self_request_uri, curls, abandoned>>
    BY <1>7 DEF Over
  <2> HIDE DEF OnCount, OnCurl, Counted
  <2>3. /\ way[t] = "chain" => Cardinality(OnCount') = Cardinality(OnCount) - 1
        /\ way[t] # "chain" => Cardinality(OnCount') = Cardinality(OnCount)
    BY <1>3, <2>1
  <2>4. Cardinality(OnCurl') = Cardinality(OnCurl)
    BY <1>3, <2>1
  <2>5. QED
    BY SMT, <1>0, <1>1, <1>sizes, <2>2, <2>3, <2>4 DEF CountIsExact, Types
<1>8. ASSUME NEW t \in Tasks, ChainSetup(t)
      PROVE  CountIsExact'
  <2>1. t \in OnCount /\ t \notin OnCurl
    BY <1>0, <1>8 DEF ChainSetup, Types
  <2>2. UNCHANGED <<self_request_uri, refused, abandoned>>
    BY <1>8 DEF ChainSetup, history
  <2>3. \/ /\ OnCount' = OnCount /\ OnCurl' = OnCurl \cup {t}
           /\ curls' = curls + 1 /\ UNCHANGED self_request_concurrency
        \/ /\ OnCount' = OnCount \ {t} /\ OnCurl' = OnCurl
           /\ self_request_concurrency' = self_request_concurrency - 1 /\ UNCHANGED curls
        \/ /\ OnCount' = OnCount /\ OnCurl' = OnCurl
           /\ UNCHANGED <<self_request_concurrency, curls>>
    BY SMT, <1>0, <1>8, <2>2 DEF ChainSetup, Goto, Return, Types, counters
  <2> HIDE DEF OnCount, OnCurl, Counted
  <2>4. \/ /\ Cardinality(OnCount') = Cardinality(OnCount)
           /\ Cardinality(OnCurl') = Cardinality(OnCurl) + 1
           /\ curls' = curls + 1 /\ UNCHANGED self_request_concurrency
        \/ /\ Cardinality(OnCount') = Cardinality(OnCount) - 1
           /\ Cardinality(OnCurl') = Cardinality(OnCurl)
           /\ self_request_concurrency' = self_request_concurrency - 1 /\ UNCHANGED curls
        \/ /\ Cardinality(OnCount') = Cardinality(OnCount)
           /\ Cardinality(OnCurl') = Cardinality(OnCurl)
           /\ UNCHANGED <<self_request_concurrency, curls>>
    BY <1>3, <2>1, <2>3
  <2>5. QED
    BY SMT, <1>0, <1>1, <1>sizes, <2>2, <2>4 DEF CountIsExact, Types
<1>9. ASSUME NEW t \in Tasks, ChainFinish(t)
      PROVE  CountIsExact'
  <2>1. /\ OnCount' = OnCount \ {t} /\ OnCurl' = OnCurl \ {t}
        /\ t \in OnCount /\ t \in OnCurl
    BY <1>0, <1>9 DEF ChainFinish, Goto, Return, Types
  <2>2. /\ self_request_concurrency' = self_request_concurrency - 1
        /\ curls' = curls - 1
        /\ UNCHANGED <<self_request_uri, refused, abandoned>>
    BY <1>9 DEF ChainFinish, history
  <2> HIDE DEF OnCount, OnCurl, Counted
  <2>3. QED
    BY SMT, <1>0, <1>3, <2>1, <2>2 DEF CountIsExact, Types
<1>10. ASSUME NEW t \in Tasks, GuestSetup(t)
       PROVE  CountIsExact'
  <2>1. /\ t \in OnCurl
        /\ t \in OnCount <=> self_request_uri
    BY <1>0, <1>10 DEF GuestSetup, Types
  <2>2. UNCHANGED <<self_request_uri, self_request_concurrency, curls, refused>>
    BY <1>10 DEF GuestSetup, counters
  <2>3. \/ OnCount' = OnCount /\ OnCurl' = OnCurl /\ UNCHANGED abandoned
        \/ OnCount' = OnCount \ {t} /\ OnCurl' = OnCurl \ {t} /\ abandoned' = abandoned + 1
    BY SMT, <1>0, <1>10, <2>2 DEF GuestSetup, Goto, Return, Types
  <2>4. ~self_request_uri => OnCount \ {t} = OnCount
    BY <2>1
  <2> HIDE DEF OnCount, OnCurl, Counted
  <2>5. \/ /\ Cardinality(OnCount') = Cardinality(OnCount)
           /\ Cardinality(OnCurl') = Cardinality(OnCurl) /\ UNCHANGED abandoned
        \/ /\ self_request_uri => Cardinality(OnCount') = Cardinality(OnCount) - 1
           /\ ~self_request_uri => Cardinality(OnCount') = Cardinality(OnCount)
           /\ Cardinality(OnCurl') = Cardinality(OnCurl) - 1 /\ abandoned' = abandoned + 1
    BY <1>3, <2>1, <2>3, <2>4
  <2>6. QED
    BY SMT, <1>0, <1>1, <1>sizes, <2>2, <2>5 DEF CountIsExact, Types
<1>11. ASSUME NEW t \in Tasks, GuestPerform(t) \/ Caught(t)
       PROVE  CountIsExact'
  <2>1. OnCount' = OnCount /\ OnCurl' = OnCurl
    BY SMT, <1>0, <1>11 DEF GuestPerform, Caught, Goto, Types, Places
  <2>2. UNCHANGED <<self_request_uri, self_request_concurrency, curls, refused, abandoned>>
    BY <1>11 DEF GuestPerform, Caught, counters, history
  <2>3. QED
    BY <1>0, <2>1, <2>2 DEF CountIsExact
<1>12. ASSUME NEW t \in Tasks, Clean(t)
       PROVE  CountIsExact'
  <2>1. /\ OnCount' = OnCount \ {t} /\ OnCurl' = OnCurl \ {t}
        /\ t \in OnCurl
        /\ t \in OnCount <=> self_request_uri
    BY <1>0, <1>12 DEF Clean, Goto, Return, Types, Places
  <2>2. /\ self_request_concurrency' =
              self_request_concurrency - (IF self_request_uri THEN 1 ELSE 0)
        /\ curls' = curls - 1
        /\ UNCHANGED <<self_request_uri, refused, abandoned>>
    BY <1>12 DEF Clean, history
  <2>3. ~self_request_uri => OnCount \ {t} = OnCount
    BY <2>1
  <2> HIDE DEF OnCount, OnCurl, Counted
  <2>4. /\ self_request_uri => Cardinality(OnCount') = Cardinality(OnCount) - 1
        /\ ~self_request_uri => Cardinality(OnCount') = Cardinality(OnCount)
    BY <1>3, <2>1, <2>3
  <2>5. Cardinality(OnCurl') = Cardinality(OnCurl) - 1
    BY <1>3, <2>1, <2>3
  <2>6. QED
    BY SMT, <1>0, <1>1, <1>sizes, <2>2, <2>4, <2>5 DEF CountIsExact, Types
<1>13. QED
  BY <1>4, <1>5, <1>6, <1>7, <1>8, <1>9, <1>10, <1>11, <1>12 DEF Next, Step

\* A task passes the limit only when the counter, and so everything counted, is
\* below it; whoever passed stays within it until it is back.
LEMMA StepAdmits == IInv /\ [Next]_vars => AdmittedHold'
<1> SUFFICES ASSUME IInv, [Next]_vars PROVE AdmittedHold'
  OBVIOUS
<1>0. Types /\ Places /\ CountIsExact /\ AdmittedHold
  BY DEF IInv
<1>1. Types' /\ CountIsExact'
  BY StepTypes, StepCounts
<1>2. refused' \in Nat /\ refused' >= refused
  <2>1. UNCHANGED refused \/ refused' = refused + 1
    BY DEF Next, Step, Begin, Count, Over, Caught, Clean, ChainSetup, ChainFinish,
           GuestSetup, GuestPerform, Return, vars, counters, history
  <2>2. QED
    BY SMT, <1>0, <2>1 DEF Types
<1>3. ASSUME Admitted' \subseteq Admitted
      PROVE  AdmittedHold'
  <2>1. Admitted \in SUBSET Tasks
    BY DEF Admitted
  <2>2. /\ Cardinality(Admitted) \in Nat /\ Cardinality(Admitted') \in Nat
        /\ Cardinality(Admitted') <= Cardinality(Admitted)
    BY <1>3, <2>1, SmallerSet
  <2>3. QED
    BY SMT, <1>0, <1>2, <2>2 DEF AdmittedHold, Types
<1>4. ASSUME NEW t \in Tasks, Count(t), self_request_concurrency < MaxConcurrency, Counted(t)
      PROVE  AdmittedHold'
  <2>1. OnCount' \in SUBSET Tasks /\ Admitted' \in SUBSET OnCount'
    BY DEF OnCount, Admitted
  <2>2. /\ Cardinality(OnCount') \in Nat /\ Cardinality(Admitted') \in Nat
        /\ Cardinality(Admitted') <= Cardinality(OnCount')
    BY <2>1, SmallerSet
  <2>3. self_request_concurrency' <= MaxConcurrency
    BY SMT, <1>0, <1>4 DEF Count, Types
  <2>4. Cardinality(OnCount') <= MaxConcurrency + refused'
    BY SMT, <1>1, <2>2, <2>3 DEF CountIsExact, Types
  <2>5. QED
    BY SMT, <1>1, <2>2, <2>4 DEF AdmittedHold, Types
<1>5. \/ Admitted' \subseteq Admitted
      \/ \E t \in Tasks : Count(t) /\ self_request_concurrency < MaxConcurrency /\ Counted(t)
  <2> USE <1>0 DEF Admitted, Counted, Types
  <2>1. CASE UNCHANGED vars
    BY <2>1 DEF vars, counters, history
  <2>2. ASSUME NEW t \in Tasks, NEW w \in {"chain", "guest"}, NEW p \in Tasks \cup {None},
               Begin(t, w, p)
        PROVE  Admitted' \subseteq Admitted
    BY <2>2 DEF Begin, Goto
  <2>3. ASSUME NEW t \in Tasks, Count(t)
        PROVE  \/ Admitted' \subseteq Admitted
               \/ self_request_concurrency < MaxConcurrency /\ Counted(t)
    BY SMT, <2>3 DEF Count, Goto
  <2>4. ASSUME NEW t \in Tasks, Over(t) \/ Caught(t) \/ Clean(t)
        PROVE  Admitted' \subseteq Admitted
    BY <2>4 DEF Over, Caught, Clean, Goto, Return
  <2>5. ASSUME NEW t \in Tasks, ChainSetup(t) \/ ChainFinish(t) \/ GuestSetup(t) \/ GuestPerform(t)
        PROVE  Admitted' \subseteq Admitted
    BY <2>5 DEF ChainSetup, ChainFinish, GuestSetup, GuestPerform, Goto, Return
  <2>6. QED
    BY <2>1, <2>2, <2>3, <2>4, <2>5 DEF Next, Step
<1>6. QED
  BY <1>3, <1>4, <1>5

\* The inductive invariant holds in every state.
LEMMA Invariance == Spec => []IInv
<1>1. IInv /\ [Next]_vars => IInv'
  BY StepTypes, StepCounts, StepAdmits DEF IInv
<1>2. QED
  BY InitIInv, <1>1, PTL DEF Spec

\* The counter and the cURL handles of kvm_self_request and of the fetch system
\* call are exact on every path, but for the two exits that leave them wrong.
THEOREM CounterIsExact == Spec => []CountIsExact
<1>1. IInv => CountIsExact
  BY DEF IInv
<1>2. QED
  BY Invariance, <1>1, PTL

\* self_request_max_concurrency is kept, up to the guests that were refused,
\* however many tasks there are and whatever the limit is.
THEOREM LimitIsKept == Spec => []LimitHolds
<1>1. IInv => LimitHolds
  <2> SUFFICES ASSUME IInv PROVE LimitHolds
    OBVIOUS
  <2>1. Admitted \in SUBSET Tasks /\ Performing \in SUBSET Admitted
    BY DEF Admitted, Performing
  <2>2. /\ Cardinality(Admitted) \in Nat /\ Cardinality(Performing) \in Nat
        /\ Cardinality(Performing) <= Cardinality(Admitted)
    BY <2>1, SmallerSet
  <2>3. QED
    BY SMT, <2>2 DEF IInv, AdmittedHold, LimitHolds, Types
<1>2. QED
  BY Invariance, <1>1, PTL
=============================================================================

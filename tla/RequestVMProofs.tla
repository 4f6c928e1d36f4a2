--------------------------- MODULE RequestVMProofs ---------------------------
(***************************************************************************)
(* Proofs about a request VM and the requests it serves one after the      *)
(* other: what a request leaves behind, where a paused guest is resumed,   *)
(* the regexes and the memory of a request, and its response.              *)
(***************************************************************************)
EXTENDS RequestVM, TLAPS

\* Zenon proves most leaves; those that need arithmetic cite SMT.
USE ZenonT(30)

\* The reset of the machine does not throw.  (When it does, the VM is put back
\* into the queue as it is, and nothing below can hold.)
ResetsWork == \A k \in Kinds : k.reset_fails = FALSE

-----------------------------------------------------------------------------
(* The settings, and the steps of the deliveries. *)

\* The settings of a VM are those of one of the kinds.
LEMMA KindFields ==
    ASSUME vm \in Kinds
    PROVE  /\ vm.ephemeral \in BOOLEAN /\ vm.streams \in BOOLEAN /\ vm.resumes \in BOOLEAN
           /\ vm.group_ephemeral \in BOOLEAN /\ vm.frees \in BOOLEAN
           /\ vm.room \in Nat \ {0}
BY VMAssumption

\* Only a program with streaming callbacks answers with a streamed response.
StreamInv ==
    /\ vm \in Kinds
    /\ DOMAIN result = {"content_length", "buffers", "streamed"}
    /\ result.streamed => vm.streams

\* It is so when the guest has answered.
LEMMA AnswerStreams ==
    ASSUME NEW r \in Answers, fetch_result(r), UNCHANGED vm, StreamInv PROVE StreamInv'
BY DEF Answers, fetch_result, StreamInv

\* It stays so while the response is delivered.
LEMMA DeliveryStreams ==
    ASSUME StreamInv, UNCHANGED vm,
           CopyBuffer \/ CopyAsserts \/ WriteResponse \/ Pull \/ kvmfp_pull \/ Stalls
    PROVE  StreamInv'
<1>1. CASE CopyBuffer \/ CopyAsserts \/ WriteResponse
  BY <1>1 DEF StreamInv, CopyBuffer, CopyAsserts, WriteResponse
<1>2. CASE Pull BY <1>2 DEF StreamInv, Pull
<1>3. CASE kvmfp_pull BY <1>3 DEF StreamInv, kvmfp_pull
<1>4. CASE Stalls BY <1>4 DEF StreamInv, Stalls
<1> QED BY <1>1, <1>2, <1>3, <1>4

\* No other step of the VM makes a response streamed.
LEMMA StreamStep == ASSUME StreamInv, Next PROVE StreamInv'
<1> USE DEF Next
<1>1. UNCHANGED vm OBVIOUS
<1>2. ASSUME UNCHANGED result PROVE StreamInv' BY <1>1, <1>2 DEF StreamInv
<1>3. ASSUME result' = NoBody PROVE StreamInv' BY <1>1, <1>3 DEF StreamInv, NoBody
<1>4. CASE Boot BY <1>4, <1>2 DEF Boot, WarmUp, WarmUpFails, Fork, dataVars, deliveryVars
<1>5. CASE \E soft \in BOOLEAN : Reserve(soft) BY <1>5, <1>3 DEF Reserve, Forget
<1>6. CASE BodyBegins BY <1>6, <1>2 DEF BodyBegins, deliveryVars
<1>7. CASE \E n \in 1..POST_BUFFER : Body(n) \/ BodyFails(n)
  BY <1>7, <1>2 DEF Body, BodyFails, dataVars, deliveryVars
<1>8. CASE CallBack \/ Resume \/ Map BY <1>8, <1>2 DEF CallBack, Resume, Map, deliveryVars
<1>9. CASE CallFails BY <1>9, <1>1, <1>3, AnswerStreams DEF CallFails, ErrorResult
<1>10. CASE \E r \in Answers : Answer(r) BY <1>10, <1>1, AnswerStreams DEF Answer
<1>11. CASE Deliver BY <1>11, <1>1, DeliveryStreams DEF Deliver
<1>12. CASE DeliveryFails BY <1>12, <1>1, DeliveryStreams DEF DeliveryFails
<1>13. CASE \E n \in 1..MaxPull : Stream(n) BY <1>13, <1>2 DEF Stream, kvmfp_streaming_pull
<1>14. CASE \E h \in Hashes : CompileFound(h) \/ CompileNew(h)
  BY <1>14, <1>2 DEF CompileFound, CompileNew, dataVars, deliveryVars
<1>15. CASE Reuse BY <1>15, <1>3 DEF Reuse, Forget
<1>16. CASE \E i \in handles : RegexFree(i) BY <1>16, <1>2 DEF RegexFree, dataVars, deliveryVars
<1>17. CASE FreeInline \/ FreeDeferred
  BY <1>17, <1>2 DEF FreeInline, FreeDeferred, dataVars, deliveryVars
<1>18. CASE \E ok \in {TRUE, ~vm.reset_fails} : ResetTask(ok)
  BY <1>18, <1>2 DEF ResetTask, deliveryVars
<1> QED
  BY <1>4, <1>5, <1>6, <1>7, <1>8, <1>9, <1>10, <1>11, <1>12, <1>13, <1>14, <1>15, <1>16, <1>17, <1>18
     DEF Request

-----------------------------------------------------------------------------
(* What a request leaves behind. *)

\* A trace that must go is in a VM that is marked for a reset, or is being reset.
TraceInv ==
    trace => \/ pc = "resetting"
             \/ pc \in {"reserved", "running", "called", "failed"} /\ is_reset_needed

\* Bodies and responses are streamed by VMs that are reset after each request.
\* (A delivery, or a body handed to a callback, that fails ends the request
\* without marking the VM.)
StreamsReset == \A k \in Kinds : k.streams => k.ephemeral

\* Every step keeps it so.
LEMMA TraceStep == ASSUME ResetsWork, StreamsReset, StreamInv, TraceInv, Next PROVE TraceInv'
<1> USE DEF Next, is_reset_needed
<1>1. UNCHANGED vm /\ vm \in Kinds /\ vm.reset_fails = FALSE /\ (vm.streams => vm.ephemeral)
  BY DEF StreamInv, ResetsWork, StreamsReset
<1>2. ASSUME UNCHANGED <<trace, flags, pc>> PROVE TraceInv'
  BY <1>1, <1>2 DEF TraceInv, flags
<1>3. ASSUME pc' \in {"reserved", "running", "called", "failed"}, pc \in {"reserved", "running", "called"},
             UNCHANGED <<m_reset_needed, m_soft_reset_needed>>, UNCHANGED trace \/ Touch
      PROVE  TraceInv'
  BY <1>1, <1>3 DEF TraceInv, Touch
<1>4. CASE Boot BY <1>4 DEF Boot, WarmUp, WarmUpFails, Fork, guest, TraceInv
<1>5. CASE \E soft \in BOOLEAN : Reserve(soft) BY SMT, <1>5 DEF Reserve, guest, TraceInv
<1>6. CASE BodyBegins BY <1>6, <1>2 DEF BodyBegins, guest
<1>7. CASE \E n \in 1..POST_BUFFER : Body(n) BY <1>7, <1>3 DEF Body, flags
<1>8. CASE \E n \in 1..POST_BUFFER : BodyFails(n)
  <2>1. CASE UNCHANGED trace \/ Touch BY <1>8, <2>1, <1>3 DEF BodyFails, flags
  <2>2. CASE vm.streams BY <1>1, <1>8, <2>2 DEF BodyFails, TraceInv
  <2> QED BY <1>8, <2>1, <2>2 DEF BodyFails
<1>9. CASE CallBack \/ Resume BY <1>9, <1>3 DEF CallBack, Resume, flags
<1>10. CASE Map BY <1>10, <1>2 DEF Map, guest
<1>11. CASE CallFails BY <1>11 DEF CallFails, TraceInv
<1>12. CASE \E r \in Answers : Answer(r) BY <1>12, <1>3 DEF Answer
<1>13. CASE Deliver BY <1>13, <1>2 DEF Deliver, guest
<1>14. CASE DeliveryFails
  <2>1. vm.streams BY <1>14 DEF DeliveryFails, Stalls, StreamInv
  <2> QED BY <1>1, <1>14, <2>1 DEF DeliveryFails, TraceInv
<1>15. CASE \E n \in 1..MaxPull : Stream(n) BY <1>15, <1>3 DEF Stream, flags
<1>16. CASE \E h \in Hashes : CompileFound(h) \/ CompileNew(h)
  BY <1>16, <1>2 DEF CompileFound, CompileNew, guest
<1>17. CASE Reuse BY <1>17, <1>3 DEF Reuse, flags
<1>18. CASE \E i \in handles : RegexFree(i) BY <1>18, <1>2 DEF RegexFree, guest
<1>19. CASE FreeInline BY <1>19 DEF FreeInline, guest, TraceInv
<1>20. CASE FreeDeferred BY <1>20 DEF FreeDeferred, TraceInv
<1>21. CASE \E ok \in {TRUE, ~vm.reset_fails} : ResetTask(ok) BY <1>1, <1>21 DEF ResetTask, TraceInv
<1> QED
  BY <1>4, <1>5, <1>6, <1>7, <1>8, <1>9, <1>10, <1>11, <1>12, <1>13, <1>14, <1>15, <1>16, <1>17, <1>18,
     <1>19, <1>20, <1>21 DEF Request

\* The first state of a VM.
LEMMA StreamInit == Init => StreamInv
BY SMT DEF Init, DeliveryInit, NoBody, StreamInv

\* A VM in the queue holds no trace of a request that was to leave none, or of
\* a guest that failed, whatever happens to how many requests: if resets work
\* and only ephemeral VMs stream.
THEOREM NothingIsLeft == ResetsWork /\ StreamsReset => (Spec => []NoTraceLeft)
<1> SUFFICES ASSUME ResetsWork, StreamsReset PROVE Spec => []NoTraceLeft OBVIOUS
<1> DEFINE IInv == StreamInv /\ TraceInv
<1>1. Init => IInv BY StreamInit DEF Init, TraceInv
<1>2. IInv /\ [Next]_vars => IInv'
  <2>1. ASSUME IInv, Next PROVE IInv' BY <2>1, StreamStep, TraceStep
  <2>2. ASSUME IInv, UNCHANGED vars PROVE IInv'
    BY <2>2 DEF StreamInv, TraceInv, is_reset_needed, vars, flags, guest, deliveryVars
  <2> QED BY <2>1, <2>2
<1>3. IInv => NoTraceLeft BY DEF TraceInv, NoTraceLeft
<1> QED BY <1>1, <1>2, <1>3, PTL DEF Spec

-----------------------------------------------------------------------------
(* Where a paused guest is resumed. *)

\* The guest is where it paused, or the next resumption runs it on to there.
Resumable == at = "pause" \/ (~m_waiting_for_requests /\ ~vm.group_ephemeral)

\* What may take it elsewhere within a request: the callback for its body, or
\* a failure or, in an ephemeral group, a response before this call.
Elsewhere ==
    \/ vm.streams /\ post.length > 0
    \/ reused /\ (vm.group_ephemeral \/ m_reset_needed)

PauseInv ==
    /\ DOMAIN post = {"address", "capacity", "length"} /\ post.length \in Nat
    /\ vm.resumes /\ main_vm.at = "pause" =>
        /\ pc = "running" => at = "pause" \/ Elsewhere
        /\ pc = "queued" => Resumable
        /\ pc = "reserved" => Resumable \/ Elsewhere
        /\ pc = "called" => ~m_waiting_for_requests \/ m_reset_needed \/ vm.group_ephemeral
        /\ pc = "failed" => Resumable \/ is_reset_needed

\* The VMs of an ephemeral group are ephemeral: no program made itself lasting
\* with sys_make_ephemeral.
GroupsReset == \A k \in Kinds : k.group_ephemeral => k.ephemeral

\* Every step keeps the guest where it can be resumed.
LEMMA PauseStep ==
    ASSUME ResetsWork, GroupsReset, StreamsReset, StreamInv, PauseInv, Next PROVE PauseInv'
<1> USE DEF Next, is_reset_needed, Resumable
<1>1. /\ UNCHANGED vm /\ vm \in Kinds /\ vm.reset_fails = FALSE
      /\ vm.group_ephemeral => vm.ephemeral
      /\ vm.streams => vm.ephemeral
  BY DEF StreamInv, ResetsWork, GroupsReset, StreamsReset
<1>2. DOMAIN post = {"address", "capacity", "length"} /\ post.length \in Nat BY DEF PauseInv
<1>3. ASSUME UNCHANGED <<main_vm, at, reused, post, flags, pc>> PROVE PauseInv'
  BY <1>1, <1>3 DEF PauseInv, Elsewhere, flags
<1>4. ASSUME UNCHANGED <<main_vm, post>>, m_reset_needed' = TRUE, pc' = "called" PROVE PauseInv'
  BY <1>1, <1>2, <1>4 DEF PauseInv
<1>5. ASSUME UNCHANGED <<post, flags>>, pc' = "failed", vm.streams PROVE PauseInv'
  BY <1>1, <1>2, <1>5 DEF PauseInv
<1>6. ASSUME NEW c, PostBegins(c)
      PROVE  /\ DOMAIN post' = {"address", "capacity", "length"} /\ post'.length = 0
             /\ post'.length \in Nat
  <2>1. post' = [NoPost EXCEPT !.capacity = c] BY <1>6 DEF PostBegins
  <2>2. post' = [address |-> 0, capacity |-> c, length |-> 0] BY <2>1 DEF NoPost
  <2> HIDE <2>1
  <2>3. DOMAIN post' = {"address", "capacity", "length"} /\ post'.length = 0 BY <2>2
  <2>4. 0 \in Nat BY SMT
  <2> QED BY <2>3, <2>4
<1>7. CASE WarmUp BY <1>7, <1>3 DEF WarmUp, guest, dataVars, memoryVars
<1>8. CASE WarmUpFails BY <1>1, <1>2, <1>8 DEF WarmUpFails, PauseInv, dataVars, memoryVars
<1>9. CASE Fork BY <1>1, <1>2, <1>9 DEF Fork, PauseInv, dataVars, memoryVars
<1>10. CASE Request /\ UNCHANGED <<main_vm, warmed>>
  <2> USE <1>10
  <2>1. CASE \E soft \in BOOLEAN : Reserve(soft)
    <3>1. PICK soft \in BOOLEAN : Reserve(soft) BY <2>1
    <3>2. pc = "queued" /\ pc' = "reserved" /\ UNCHANGED <<at, m_waiting_for_requests>> /\ PostBegins(0)
      BY <3>1 DEF Reserve
    <3> QED BY <1>1, <1>6, <3>2 DEF PauseInv
  <2>2. CASE BodyBegins
    <3>1. PICK c \in 1..POST_BUFFER :
             pc = "reserved" /\ pc' = pc /\ UNCHANGED <<flags, at, reused>> /\ post = NoPost /\ PostBegins(c)
      BY <2>2 DEF BodyBegins, guest
    <3>2. ~(post.length > 0) BY SMT, <3>1 DEF NoPost
    <3> QED BY <1>1, <1>6, <3>1, <3>2 DEF PauseInv, Elsewhere, flags
  <2>3. CASE \E n \in 1..POST_BUFFER : Body(n)
    <3>1. PICK n \in 1..POST_BUFFER : Body(n) BY <2>3
    <3>2. pc = "reserved" /\ pc' = pc /\ UNCHANGED <<flags, reused>> BY <3>1 DEF Body
    <3>3. DOMAIN post' = DOMAIN post /\ post'.length = post.length + n
      <4>1. CASE PostSegment(n) BY <1>2, <4>1 DEF PostSegment
      <4>2. CASE post' = [post EXCEPT !.length = @ + n] BY <1>2, <4>2
      <4> QED BY <3>1, <4>1, <4>2 DEF Body
    <3>4. post'.length \in Nat /\ post'.length > 0 BY SMT, <1>2, <3>3, PostAssumption
    <3>5. CASE vm.streams BY <1>1, <1>2, <3>2, <3>3, <3>4, <3>5 DEF PauseInv, Elsewhere
    <3>6. CASE ~vm.streams
      <4>1. UNCHANGED at BY <3>1, <3>6 DEF Body
      <4> QED BY <1>1, <1>2, <3>2, <3>3, <3>4, <3>6, <4>1 DEF PauseInv, Elsewhere, flags
    <3> QED BY <3>5, <3>6
  <2>4. CASE \E n \in 1..POST_BUFFER : BodyFails(n)
    <3>1. pc = "reserved" /\ pc' = "failed" /\ UNCHANGED <<flags, reused, post>> /\ (vm.streams \/ UNCHANGED at)
      BY <2>4 DEF BodyFails, dataVars, memoryVars
    <3>2. CASE vm.streams BY <1>5, <3>1, <3>2
    <3>3. CASE ~vm.streams BY <1>1, <1>2, <3>1, <3>3 DEF PauseInv, Elsewhere, flags
    <3> QED BY <3>2, <3>3
  <2>5. CASE CallBack
    <3>1. ~vm.resumes /\ UNCHANGED post BY <2>5 DEF CallBack, RelaxPost
    <3> QED BY <1>1, <1>2, <3>1 DEF PauseInv
  <2>6. CASE Resume
    <3>1. /\ pc = "reserved" /\ pc' = "running" /\ UNCHANGED <<post, reused, m_reset_needed>>
          /\ IF ~vm.group_ephemeral /\ ~m_waiting_for_requests THEN at' = "pause" ELSE UNCHANGED at
      BY <2>6 DEF Resume, RelaxAndFill
    <3> QED BY <1>1, <1>2, <3>1 DEF PauseInv, Elsewhere
  <2>7. CASE Map BY <2>7, <1>3 DEF Map, GuestMaps, guest
  <2>8. CASE CallFails BY <2>8, <1>4 DEF CallFails, memoryVars
  <2>9. CASE \E r \in Answers : Answer(r)
    <3>1. /\ pc' = "called" /\ UNCHANGED post
          /\ vm.resumes => m_waiting_for_requests' = (m_waiting_for_requests /\ vm.group_ephemeral)
      BY <2>9 DEF Answer, memoryVars
    <3> QED BY <1>1, <1>2, <3>1 DEF PauseInv
  <2>10. CASE Deliver BY <2>10, <1>3 DEF Deliver, guest, memoryVars
  <2>11. CASE DeliveryFails
    <3>1. vm.streams BY <2>11 DEF DeliveryFails, Stalls, StreamInv
    <3> QED BY <2>11, <3>1, <1>5 DEF DeliveryFails, memoryVars
  <2>12. CASE \E n \in 1..MaxPull : Stream(n)
    <3>1. pc = "called" /\ pc' = pc /\ UNCHANGED <<flags, post>> BY <2>12 DEF Stream, memoryVars
    <3> QED BY <1>1, <1>2, <3>1 DEF PauseInv, flags
  <2>13. CASE \E h \in Hashes : CompileFound(h) \/ CompileNew(h)
    BY <2>13, <1>3 DEF CompileFound, CompileNew, guest, dataVars, memoryVars
  <2>14. CASE Reuse
    <3>1. pc = "called" /\ pc' = "reserved" /\ reused' = TRUE /\ UNCHANGED <<at, flags>> BY <2>14 DEF Reuse
    <3>2. \E c : PostBegins(c) BY <2>14 DEF Reuse
    <3> QED BY <1>1, <1>6, <3>1, <3>2 DEF PauseInv, Elsewhere, flags
  <2>15. CASE \E i \in handles : RegexFree(i) BY <2>15, <1>3 DEF RegexFree, guest, dataVars, memoryVars
  <2>16. CASE FreeInline
    <3>1. /\ pc \in {"reserved", "called", "failed"} /\ pc' = "queued" /\ ~is_reset_needed
          /\ UNCHANGED <<at, flags, post>>
      BY <2>16 DEF FreeInline, guest, dataVars, memoryVars
    <3> QED BY <1>1, <1>2, <3>1 DEF PauseInv, Elsewhere, flags
  <2>17. CASE FreeDeferred
    BY <2>17, <1>1, <1>2 DEF FreeDeferred, PauseInv, dataVars, memoryVars
  <2>18. CASE \E ok \in {TRUE, ~vm.reset_fails} : ResetTask(ok)
    BY <2>18, <1>1, <1>2 DEF ResetTask, ResetMemory, PauseInv
  <2> QED
    BY <2>1, <2>2, <2>3, <2>4, <2>5, <2>6, <2>7, <2>8, <2>9, <2>10, <2>11, <2>12, <2>13, <2>14,
       <2>15, <2>16, <2>17, <2>18 DEF Request
<1> QED BY <1>7, <1>8, <1>9, <1>10 DEF Boot

\* A guest that pauses for requests is resumed where it paused, after any
\* number of answers, failures, streamed responses and resets, and called again
\* in a chain where the property claims it: if resets work, the VMs of an
\* ephemeral group are ephemeral, only ephemeral VMs stream, and the main VM was
\* at its pause.
THEOREM GuestsResumeAtPause == ResetsWork /\ GroupsReset /\ StreamsReset => (Spec => []ResumedAtPause)
<1> SUFFICES ASSUME ResetsWork, GroupsReset, StreamsReset PROVE Spec => []ResumedAtPause OBVIOUS
<1> DEFINE IInv == StreamInv /\ PauseInv
<1>1. Init => IInv
  <2>1. ASSUME Init PROVE PauseInv BY SMT, <2>1 DEF Init, MemoryInit, NoPost, PauseInv
  <2> QED BY <2>1, StreamInit
<1>2. IInv /\ [Next]_vars => IInv'
  <2>1. ASSUME IInv, UNCHANGED vars PROVE IInv'
    BY <2>1 DEF StreamInv, PauseInv, Elsewhere, Resumable, is_reset_needed, vars, flags, guest,
                memoryVars, deliveryVars
  <2> QED BY <2>1, PauseStep, StreamStep
<1>3. IInv => ResumedAtPause BY DEF PauseInv, Elsewhere, ResumedAtPause
<1> QED BY <1>1, <1>2, <1>3, PTL DEF Spec

-----------------------------------------------------------------------------
(* The regexes of an ephemeral VM. *)

\* No regex twice, a compiled one in every entry that is not empty, and no
\* handle to one that is.
CacheIsSound ==
    /\ m_regex \in Seq(Entries) /\ handles \subseteq DOMAIN m_regex
    /\ \A i \in DOMAIN m_regex : m_regex[i].hash # "empty" => m_regex[i].item = TRUE
    /\ \A i, j \in DOMAIN m_regex :
          m_regex[i].hash = m_regex[j].hash /\ m_regex[i].hash # "empty" => i = j
    /\ \A i \in handles : m_regex[i].hash # "empty"

RegexInv ==
    /\ vm \in Kinds
    /\ vm.ephemeral => CacheIsSound /\ panicked = FALSE

\* The cache of the main VM is sound.
LEMMA MainCacheSound ==
    /\ MainCache \in Seq(Entries) /\ Len(MainCache) = 1
    /\ MainCache[1] = [hash |-> Loaned, item |-> TRUE, owned |-> FALSE]
    /\ Loaned # "empty"
<1>1. [hash |-> Loaned, item |-> TRUE, owned |-> FALSE] \in Entries BY VMAssumption DEF Entries
<1> QED BY SMT, <1>1, VMAssumption DEF MainCache

\* Then it is with the handles of no request.
LEMMA MainCacheIsSound ==
    ASSUME m_regex = MainCache, handles = {} PROVE CacheIsSound
BY SMT, MainCacheSound DEF CacheIsSound

\* sys_regex_compile finds the regex, or there is a place for it.
LEMMA CompileKeeps ==
    ASSUME vm \in Kinds, UNCHANGED vm, CacheIsSound, NEW h \in Hashes, CompileFound(h) \/ CompileNew(h)
    PROVE  CacheIsSound'
<1>1. h # "empty" /\ Compiled(h) \in Entries /\ Compiled(h).hash = h /\ Compiled(h).item = TRUE
  BY VMAssumption DEF Compiled, Entries
<1>2. Len(m_regex) \in Nat /\ DOMAIN m_regex = 1..Len(m_regex) BY SMT DEF CacheIsSound
<1>3. CASE CompileFound(h)
  <2>1. PICK i \in DOMAIN m_regex : m_regex[i].hash = h BY <1>3 DEF CompileFound, Found
  <2>2. Found(h) = {i} BY <1>1, <2>1 DEF CacheIsSound, Found
  <2>3. (CHOOSE k \in Found(h) : \A j \in Found(h) : k <= j) = i
    <3>1. i <= i BY SMT, <1>2, <2>1
    <3> QED BY <2>2, <3>1
  <2>4. m_regex' = m_regex /\ handles' = handles \cup {i} BY <1>3, <2>3 DEF CompileFound
  <2> QED BY <1>1, <2>1, <2>4 DEF CacheIsSound
<1>4. CASE CompileNew(h)
  <2>1. \A i \in DOMAIN m_regex : m_regex[i].hash # h BY <1>4 DEF CompileNew, Found
  <2>2. CASE /\ m_regex' = Append(m_regex, Compiled(h))
             /\ handles' = handles \cup {Len(m_regex) + 1}
    <3>1. m_regex' \in Seq(Entries) BY SMT, <1>1, <2>2 DEF CacheIsSound
    <3>2. /\ DOMAIN m_regex' = 1..(Len(m_regex) + 1)
          /\ \A i \in DOMAIN m_regex : m_regex'[i] = m_regex[i]
          /\ m_regex'[Len(m_regex) + 1] = Compiled(h)
      BY SMT, <1>1, <1>2, <2>2 DEF CacheIsSound
    <3>3. \A i \in DOMAIN m_regex' : i \in DOMAIN m_regex \/ i = Len(m_regex) + 1
      BY SMT, <1>2, <3>2
    <3>4. handles' \subseteq DOMAIN m_regex' BY SMT, <1>2, <2>2, <3>2 DEF CacheIsSound
    <3> QED BY SMT, <1>1, <2>1, <2>2, <3>1, <3>2, <3>3, <3>4 DEF CacheIsSound
  <2>3. CASE \E i \in Found("empty") : /\ m_regex' = [m_regex EXCEPT ![i] = Compiled(h)]
                                       /\ handles' = handles \cup {i}
    <3>1. PICK i \in DOMAIN m_regex : /\ m_regex' = [m_regex EXCEPT ![i] = Compiled(h)]
                                      /\ handles' = handles \cup {i}
      BY <2>3 DEF Found
    <3>2. m_regex' \in Seq(Entries) /\ DOMAIN m_regex' = DOMAIN m_regex
      BY SMT, <1>1, <3>1 DEF CacheIsSound
    <3>3. /\ \A j \in DOMAIN m_regex : j # i => m_regex'[j] = m_regex[j]
          /\ m_regex'[i] = Compiled(h)
      BY <3>1
    <3> QED BY SMT, <1>1, <2>1, <3>1, <3>2, <3>3 DEF CacheIsSound
  <2> QED BY <1>4, <2>2, <2>3 DEF CompileNew
<1> QED BY <1>3, <1>4

\* sys_regex_free empties an entry, and its handle is gone.
LEMMA FreeKeeps ==
    ASSUME vm \in Kinds, UNCHANGED vm, CacheIsSound, NEW i \in handles, RegexFree(i) PROVE CacheIsSound'
<1>1. i \in DOMAIN m_regex /\ m_regex[i] \in Entries BY SMT DEF CacheIsSound
<1>2. PICK e \in Entries : e.hash = "empty" /\ e.item = FALSE /\ m_regex' = [m_regex EXCEPT ![i] = e]
  <2> DEFINE e == [hash |-> "empty", item |-> FALSE, owned |-> m_regex[i].owned]
  <2>1. e \in Entries BY <1>1 DEF Entries
  <2>2. m_regex' = [m_regex EXCEPT ![i].hash = "empty", ![i].item = FALSE] BY DEF RegexFree
  <2>3. DOMAIN m_regex' = DOMAIN m_regex /\ \A j \in DOMAIN m_regex : j # i => m_regex'[j] = m_regex[j]
    BY <2>2
  <2>4. m_regex'[i] = [m_regex[i] EXCEPT !.hash = "empty", !.item = FALSE] BY <1>1, <2>2
  <2>5. m_regex'[i] = e BY <1>1, <2>4 DEF Entries
  <2>6. m_regex' = [j \in DOMAIN m_regex |-> m_regex'[j]]
    <3>1. m_regex' = [j \in DOMAIN m_regex' |-> m_regex'[j]] BY <2>2
    <3> QED BY <2>3, <3>1
  <2>7. m_regex' = [m_regex EXCEPT ![i] = e] BY <1>1, <2>3, <2>5, <2>6
  <2> QED BY <2>1, <2>7
<1>3. m_regex' \in Seq(Entries) /\ DOMAIN m_regex' = DOMAIN m_regex BY SMT, <1>1, <1>2 DEF CacheIsSound
<1>4. (\A j \in DOMAIN m_regex : j # i => m_regex'[j] = m_regex[j]) /\ m_regex'[i] = e
  BY <1>1, <1>2
<1>5. handles' = handles \ {i} /\ vm.frees BY DEF RegexFree
<1> QED BY <1>1, <1>2, <1>3, <1>4, <1>5 DEF CacheIsSound

\* Every step keeps the regexes of an ephemeral VM sound.
LEMMA RegexStep == ASSUME RegexInv, Next PROVE RegexInv'
<1> USE DEF Next
<1>1. UNCHANGED vm /\ vm \in Kinds BY DEF RegexInv
<1>2. ASSUME UNCHANGED regexes PROVE RegexInv'
  BY <1>1, <1>2 DEF RegexInv, CacheIsSound, regexes
<1>3. SUFFICES ASSUME vm.ephemeral PROVE RegexInv' BY <1>1 DEF RegexInv
<1>4. CacheIsSound /\ panicked = FALSE BY <1>3 DEF RegexInv
<1>5. CASE Boot BY <1>5, <1>2 DEF Boot, WarmUp, WarmUpFails, Fork
<1>6. CASE \E soft \in BOOLEAN : Reserve(soft)
  BY SMT, <1>1, <1>4, <1>6 DEF Reserve, RegexInv, CacheIsSound
<1>7. CASE BodyBegins \/ CallBack \/ Resume \/ Map \/ CallFails \/ Reuse \/ Deliver
           \/ DeliveryFails \/ FreeDeferred
  BY <1>7, <1>2 DEF Reuse, BodyBegins, CallBack, Resume, Map, CallFails, Deliver, DeliveryFails, FreeDeferred
<1>8. CASE \/ \E n \in 1..POST_BUFFER : Body(n) \/ BodyFails(n)
           \/ \E r \in Answers : Answer(r)
           \/ \E n \in 1..MaxPull : Stream(n)
  BY <1>8, <1>2 DEF Body, BodyFails, Answer, Stream
<1>9. CASE \E h \in Hashes : CompileFound(h) \/ CompileNew(h)
  BY SMT, <1>1, <1>4, <1>9, CompileKeeps DEF CompileFound, CompileNew, RegexInv
<1>11. CASE \E i \in handles : RegexFree(i)
  BY <1>1, <1>4, <1>11, FreeKeeps DEF RegexFree, RegexInv
<1>12. CASE FreeInline BY <1>3, <1>12 DEF FreeInline, is_reset_needed
<1>13. CASE \E ok \in {TRUE, ~vm.reset_fails} : ResetTask(ok)
  <2>1. ~FreesNull BY <1>4 DEF FreesNull, Owned, CacheIsSound
  <2>2. m_regex' = MainCache /\ handles' = {} /\ panicked' = FALSE
    BY <1>4, <1>13, <2>1 DEF ResetTask
  <2>3. CacheIsSound' BY SMT, <2>2, MainCacheSound DEF CacheIsSound
  <2> QED BY <1>1, <1>4, <2>2, <2>3 DEF RegexInv
<1> QED
  BY <1>5, <1>6, <1>7, <1>8, <1>9, <1>11, <1>12, <1>13 DEF Request

\* In an ephemeral VM every handle refers to a compiled regex and none is freed
\* twice, for any number of regexes, room and requests, whatever is freed by
\* the guest and however often the VM is called before its reset.
THEOREM RegexesStaySound == Spec => []RegexesAreSound
<1>1. Init => RegexInv BY MainCacheIsSound DEF Init, RegexInv
<1>2. RegexInv /\ [Next]_vars => RegexInv'
  <2>1. ASSUME RegexInv, UNCHANGED vars PROVE RegexInv'
    BY <2>1 DEF RegexInv, CacheIsSound, vars, regexes
  <2> QED BY <2>1, RegexStep
<1>3. RegexInv => RegexesAreSound
  BY DEF RegexInv, CacheIsSound, RegexesAreSound, HandlesAreCompiled
<1> QED BY <1>1, <1>2, <1>3, PTL DEF Spec

-----------------------------------------------------------------------------
(* The memory of an ephemeral VM. *)

MemoryTypes ==
    /\ vm \in Kinds
    /\ post \in [address : Nat, capacity : Nat, length : Nat]
    /\ mm \in Nat \ {0} /\ DOMAIN mem = 1..Top
    /\ areas \subseteq 1..Top

\* As it is after a reset.
Fresh == areas = {} /\ mm = 1 /\ m_post_size = 0 /\ m_inputs_allocation = 0

\* While the body comes in nothing else is mapped, and it has the last area.
BodyComesIn ==
    /\ areas = {} /\ m_inputs_allocation = 0
    /\ post.length = 0 => post.address = 0
    /\ post.address = 0 => Fresh /\ (post.length = 0 \/ vm.streams)
    /\ post.address > 0 => /\ ~vm.streams
                           /\ mm = post.address + post.capacity /\ mm <= Top + 1
                           /\ post.length <= post.capacity

\* A VM in the queue has been reset.  From then on, until it is called again in
\* a chain, the body and the areas are where they should be.
MemoryInv ==
    /\ vm \in Kinds
    /\ vm.ephemeral =>
        /\ pc \in {"boot", "queued"} => Fresh /\ DOMAIN mem = 1..Top
        /\ ~reused =>
            /\ MemoryTypes
            /\ pc = "reserved" => BodyComesIn /\ BodyIsThere
            /\ pc = "running" => BodyIsThere /\ (post.address > 0 => post.address + post.length <= mm)
            /\ \A a \in areas : a < mm /\ mem[a] = Guest

\* A segment of the body keeps those before it, and is where it should be.
LEMMA SegmentKeeps ==
    ASSUME MemoryTypes, BodyComesIn, BodyIsThere, UNCHANGED vm, ~vm.streams,
           NEW n \in 1..POST_BUFFER, post.capacity > 0, PostSegment(n)
    PROVE  MemoryTypes' /\ BodyComesIn' /\ BodyIsThere'
<1> USE PostAssumption
<1>1. n \in Nat /\ n >= 1 /\ POST_BUFFER \in Nat /\ Top \in Nat BY SMT
<1>2. /\ post.length \in Nat /\ post.capacity \in Nat /\ post.address \in Nat
      /\ mm \in Nat /\ post.length + n <= post.capacity
  <2>1. post.length \in Nat /\ post.capacity \in Nat /\ post.address \in Nat /\ mm \in Nat
    BY DEF MemoryTypes
  <2>2. ~NoRoom(n) BY DEF PostSegment
  <2> QED BY SMT, <1>1, <2>1, <2>2 DEF NoRoom
<1>3. PICK base \in Nat :
         /\ base > 0 /\ Address = base
         /\ base + post.capacity <= Top + 1
         /\ mm' = base + post.capacity
         /\ post.length > 0 => base = post.address
  <2>1. CASE post.length = 0
    <3>1. mm = 1 /\ m_post_size = 0 BY <2>1 DEF BodyComesIn, Fresh
    <3>2. Grows BY <1>2, <3>1 DEF Grows
    <3>3. Address = 1 BY SMT, <1>2, <2>1, <3>1, <3>2 DEF Address
    <3>4. mm + post.capacity <= Top + 1 /\ mm' = mm + post.capacity
      BY <2>1, <3>2 DEF PostSegment
    <3> QED BY SMT, <1>2, <2>1, <3>1, <3>3, <3>4
  <2>2. CASE post.length > 0
    <3>1. post.address > 0 BY SMT, <1>2, <2>2 DEF BodyComesIn
    <3>2. Address = post.address BY <2>2 DEF Address
    <3>3. mm' = mm
      <4>1. mm' = IF post.length = 0 /\ Grows THEN mm + post.capacity ELSE mm BY DEF PostSegment
      <4>2. post.length # 0 BY SMT, <1>2, <2>2
      <4> QED BY <4>1, <4>2
    <3> QED BY <1>2, <2>2, <3>1, <3>2, <3>3 DEF BodyComesIn
  <2> QED BY SMT, <1>2, <2>1, <2>2
<1>4. /\ post'.address = base /\ post'.length = post.length + n /\ post'.capacity = post.capacity
      /\ post' \in [address : Nat, capacity : Nat, length : Nat]
  <2>1. post' = [post EXCEPT !.address = Address, !.length = @ + n] BY DEF PostSegment
  <2>2. post'.address = base /\ post'.length = post.length + n /\ post'.capacity = post.capacity
    BY <1>3, <2>1 DEF MemoryTypes
  <2>3. post' = [address |-> base, capacity |-> post.capacity, length |-> post.length + n]
    BY <1>3, <2>1 DEF MemoryTypes
  <2> QED BY SMT, <1>1, <1>2, <2>2, <2>3
<1>5. PICK m0 : /\ post.length > 0 => m0 = mem
                /\ mem' = [x \in 1..Top |-> IF x \in (base + post.length)..(base + post.length + n - 1)
                                            THEN post.length + (x - (base + post.length) + 1) ELSE m0[x]]
  <2> DEFINE m0 == IF post.length = 0 /\ Grows THEN Unmapped ELSE mem
  <2>1. mem' = Put(m0, base + post.length, n, LAMBDA i : post.length + i) BY <1>3 DEF PostSegment
  <2> HIDE DEF m0
  <2>2. mem' = [x \in 1..Top |-> IF x \in (base + post.length)..(base + post.length + n - 1)
                                 THEN post.length + (x - (base + post.length) + 1) ELSE m0[x]]
    BY <2>1 DEF Put
  <2>3. post.length > 0 => m0 = mem BY SMT, <1>2 DEF m0
  <2> QED BY <2>2, <2>3
<1>6. UNCHANGED <<areas, m_inputs_allocation>> BY DEF PostSegment
<1>7. MemoryTypes' BY SMT, <1>2, <1>3, <1>4, <1>5, <1>6 DEF MemoryTypes
<1>8. BodyComesIn' BY SMT, <1>2, <1>1, <1>3, <1>4, <1>6 DEF BodyComesIn
<1>9. BodyIsThere'
  <2> SUFFICES ASSUME NEW i \in 1..(post.length + n) PROVE mem'[base + i - 1] = i
    BY <1>4 DEF BodyIsThere
  <2>1. base + i - 1 \in 1..Top BY SMT, <1>1, <1>2, <1>3
  <2>2. CASE i <= post.length
    <3>1. post.length > 0 /\ base = post.address /\ m0 = mem BY SMT, <1>2, <1>3, <1>5, <2>2
    <3>2. ~(base + i - 1 \in (base + post.length)..(base + post.length + n - 1)) BY SMT, <1>1, <1>2, <2>2
    <3>3. mem'[base + i - 1] = mem[base + i - 1] BY <1>5, <2>1, <3>1, <3>2
    <3>4. i \in 1..post.length /\ post.address > 0 BY SMT, <1>2, <1>3, <2>2, <3>1
    <3> QED BY <3>1, <3>3, <3>4 DEF BodyIsThere
  <2>3. CASE i > post.length
    <3>1. base + i - 1 \in (base + post.length)..(base + post.length + n - 1) BY SMT, <1>1, <1>2, <2>3
    <3>2. mem'[base + i - 1] = post.length + ((base + i - 1) - (base + post.length) + 1) BY <1>5, <2>1, <3>1
    <3> QED BY SMT, <1>2, <1>3, <3>2
  <2> QED BY SMT, <1>2, <2>2, <2>3
<1> QED BY <1>7, <1>8, <1>9

\* What mmap_relax gives back is behind the body.
LEMMA RelaxKeeps ==
    ASSUME MemoryTypes, BodyComesIn
    PROVE  /\ Relaxed \in Nat \ {0}
           /\ post.address > 0 => Relaxed = post.address + post.length
<1>1. /\ post.length \in Nat /\ post.capacity \in Nat /\ post.address \in Nat /\ mm \in Nat \ {0}
  BY DEF MemoryTypes
<1> QED BY SMT, <1>1 DEF Relaxed, BodyComesIn

\* Every step keeps the memory of an ephemeral VM in order.
LEMMA MemoryStep == ASSUME ResetsWork, MemoryInv, Next PROVE MemoryInv'
<1> USE DEF Next
<1>1. UNCHANGED vm /\ vm \in Kinds /\ vm.reset_fails = FALSE
  BY DEF MemoryInv, ResetsWork
<1> SUFFICES ASSUME vm.ephemeral PROVE MemoryInv' BY <1>1 DEF MemoryInv
<1>2. Top \in Nat /\ POST_BUFFER \in Nat BY PostAssumption
<1>3. ASSUME UNCHANGED <<memoryVars, reused>>,
             pc' = pc \/ pc' \in {"called", "failed", "resetting"} \/ (pc = "boot" /\ pc' = "queued")
      PROVE  MemoryInv'
  BY <1>1, <1>3 DEF MemoryInv, MemoryTypes, Fresh, BodyComesIn, BodyIsThere, memoryVars
<1>0. ASSUME UNCHANGED reused, reused, pc' \notin {"boot", "queued"} PROVE MemoryInv'
  BY <1>1, <1>0 DEF MemoryInv
<1>4. CASE Boot BY <1>4, <1>3 DEF Boot, WarmUp, WarmUpFails, Fork, guest, dataVars
<1>5. CASE \E soft \in BOOLEAN : Reserve(soft)
  <2>1. pc = "queued" /\ pc' = "reserved" /\ reused' = FALSE /\ PostBegins(0) BY <1>5 DEF Reserve
  <2>2. post' = [address |-> 0, capacity |-> 0, length |-> 0]
        /\ UNCHANGED <<mem, mm, areas, m_post_data, m_post_size, m_inputs_allocation>>
    BY <2>1 DEF PostBegins, NoPost
  <2>3. MemoryTypes' BY SMT, <1>1, <2>1, <2>2 DEF MemoryInv, MemoryTypes, Fresh
  <2>4. vm.ephemeral => Fresh' /\ BodyComesIn' /\ BodyIsThere'
    BY SMT, <1>1, <2>1, <2>2 DEF MemoryInv, Fresh, BodyComesIn, BodyIsThere
  <2> QED BY <1>1, <2>1, <2>2, <2>3, <2>4 DEF MemoryInv, Fresh
<1>6. CASE BodyBegins
  <2>1. PICK c \in 1..POST_BUFFER :
           pc = "reserved" /\ pc' = pc /\ ~reused /\ UNCHANGED reused /\ post = NoPost /\ PostBegins(c)
    BY <1>6 DEF BodyBegins, guest
  <2>2. post' = [address |-> 0, capacity |-> c, length |-> 0] /\ c \in Nat
        /\ UNCHANGED <<mem, mm, areas, m_post_data, m_post_size, m_inputs_allocation>>
    BY SMT, <1>2, <2>1 DEF PostBegins, NoPost
  <2>3. MemoryTypes' BY <1>1, <2>1, <2>2 DEF MemoryInv, MemoryTypes
  <2>4. vm.ephemeral => BodyComesIn' /\ BodyIsThere'
    BY SMT, <1>1, <2>1, <2>2 DEF MemoryInv, Fresh, BodyComesIn, BodyIsThere, NoPost
  <2> QED BY <1>1, <2>1, <2>2, <2>3, <2>4 DEF MemoryInv
<1>7. CASE \E n \in 1..POST_BUFFER : BodyFails(n) BY <1>7, <1>3 DEF BodyFails, dataVars
<1>8. CASE \/ CallFails \/ Deliver \/ DeliveryFails \/ FreeDeferred
           \/ \E r \in Answers : Answer(r)
           \/ \E n \in 1..MaxPull : Stream(n)
  BY <1>8, <1>3 DEF CallFails, Deliver, DeliveryFails, FreeDeferred, Answer, Stream, guest,
                      dataVars
<1>9. CASE \/ \E h \in Hashes : CompileFound(h) \/ CompileNew(h) 
           \/ \E i \in handles : RegexFree(i)
  BY <1>9, <1>3 DEF CompileFound, CompileNew, RegexFree, guest, dataVars
<1>10. CASE FreeInline BY <1>10, <1>3 DEF FreeInline, guest, dataVars, is_reset_needed
<1>11. CASE CallBack
  <2> SUFFICES ASSUME ~reused, UNCHANGED reused PROVE MemoryInv' BY <1>11, <1>0 DEF CallBack
  <2>1. /\ pc = "reserved" /\ pc' = "running" /\ mm' = Relaxed
        /\ UNCHANGED <<mem, areas, m_post_data, m_post_size, m_inputs_allocation, post>>
    BY <1>11 DEF CallBack, RelaxPost
  <2>2. MemoryTypes /\ BodyComesIn /\ BodyIsThere BY <2>1 DEF MemoryInv
  <2>3. Relaxed \in Nat \ {0} /\ (post.address > 0 => Relaxed = post.address + post.length)
    BY <2>2, RelaxKeeps
  <2>4. MemoryTypes' BY <1>1, <2>1, <2>2, <2>3 DEF MemoryTypes
  <2>5. BodyIsThere' /\ areas' = {} BY <2>1, <2>2 DEF BodyIsThere, BodyComesIn
  <2>6. post'.address > 0 => post'.address + post'.length <= mm' BY SMT, <2>1, <2>2, <2>3 DEF MemoryTypes
  <2> QED BY <1>1, <2>1, <2>4, <2>5, <2>6 DEF MemoryInv
<1>12. CASE Resume
  <2> SUFFICES ASSUME ~reused, UNCHANGED reused PROVE MemoryInv' BY <1>12, <1>0 DEF Resume
  <2>1. pc = "reserved" /\ pc' = "running" /\ RelaxAndFill BY <1>12 DEF Resume
  <2>2. MemoryTypes /\ BodyComesIn /\ BodyIsThere BY <2>1 DEF MemoryInv
  <2>3. Relaxed \in Nat \ {0} /\ (post.address > 0 => Relaxed = post.address + post.length)
    BY <2>2, RelaxKeeps
  <2>4. /\ mm' = Relaxed + 1 /\ UNCHANGED <<areas, post>> /\ mem' = [mem EXCEPT ![Relaxed] = Inputs]
    BY <2>1, <2>2 DEF RelaxAndFill, BodyComesIn
  <2>5. MemoryTypes' BY SMT, <1>1, <2>2, <2>3, <2>4 DEF MemoryTypes
  <2>6. post.address \in Nat /\ post.length \in Nat /\ post.capacity \in Nat BY <2>2 DEF MemoryTypes
  <2>7. ASSUME NEW i \in 1..post.length, post.address > 0 PROVE mem'[post.address + i - 1] = i
    <3>1. post.address + i - 1 # Relaxed BY SMT, <2>3, <2>6, <2>7
    <3>2. post.address + i - 1 \in 1..Top
      <4>1. post.address + post.length <= Top + 1 BY SMT, <1>2, <2>2, <2>6, <2>7 DEF BodyComesIn, MemoryTypes
      <4> QED BY SMT, <1>2, <2>6, <2>7, <4>1
    <3>3. mem[post.address + i - 1] = i BY <2>2, <2>7 DEF BodyIsThere
    <3> QED BY <2>2, <2>4, <3>1, <3>2, <3>3 DEF MemoryTypes
  <2>8. BodyIsThere' /\ areas' = {} BY <2>2, <2>4, <2>7 DEF BodyIsThere, BodyComesIn
  <2>9. post'.address > 0 => post'.address + post'.length <= mm' BY SMT, <2>3, <2>4, <2>6
  <2> QED BY <1>1, <2>1, <2>5, <2>8, <2>9 DEF MemoryInv
<1>13. CASE Map
  <2> SUFFICES ASSUME ~reused, UNCHANGED reused PROVE MemoryInv' BY <1>13, <1>0 DEF Map, guest
  <2>1. /\ pc = "running" /\ pc' = pc /\ mm <= Top /\ mem' = [mem EXCEPT ![mm] = Guest]
        /\ areas' = areas \cup {mm} /\ mm' = mm + 1 /\ UNCHANGED post
    BY <1>13 DEF Map, GuestMaps
  <2>2. MemoryTypes /\ mm \in 1..Top BY SMT, <1>2, <2>1 DEF MemoryInv, MemoryTypes
  <2>3. MemoryTypes' BY SMT, <1>1, <2>1, <2>2 DEF MemoryTypes
  <2>4. ASSUME vm.ephemeral
        PROVE  /\ BodyIsThere' /\ (post'.address > 0 => post'.address + post'.length <= mm')
               /\ \A a \in areas' : a < mm' /\ mem'[a] = Guest
    <3>1. /\ BodyIsThere /\ (post.address > 0 => post.address + post.length <= mm)
          /\ \A a \in areas : a < mm /\ mem[a] = Guest
      BY <2>1, <2>4 DEF MemoryInv
    <3>2. post.address \in Nat /\ post.length \in Nat BY <2>2 DEF MemoryTypes
    <3>3. ASSUME NEW i \in 1..post.length, post.address > 0 PROVE mem'[post.address + i - 1] = i
      <4>1. post.address + i - 1 # mm /\ post.address + i - 1 \in 1..Top
        BY SMT, <1>2, <2>2, <3>1, <3>2, <3>3
      <4>2. mem[post.address + i - 1] = i BY <3>1, <3>3 DEF BodyIsThere
      <4> QED BY <2>1, <2>2, <4>1, <4>2 DEF MemoryTypes
    <3>4. BodyIsThere' BY <2>1, <3>3 DEF BodyIsThere
    <3>5. \A a \in areas' : a < mm' /\ mem'[a] = Guest
      <4> SUFFICES ASSUME NEW a \in areas' PROVE a < mm' /\ mem'[a] = Guest OBVIOUS
      <4>1. a \in 1..Top /\ DOMAIN mem = 1..Top BY <2>1, <2>2 DEF MemoryTypes
      <4>2. CASE a = mm BY SMT, <2>1, <2>2, <4>1, <4>2
      <4>3. CASE a # mm
        <5>1. a < mm /\ mem[a] = Guest BY <2>1, <3>1, <4>3
        <5>2. mem'[a] = mem[a] BY <2>1, <4>1, <4>3
        <5> QED BY SMT, <2>1, <2>2, <4>1, <5>1, <5>2
      <4> QED BY <4>2, <4>3
    <3> QED BY SMT, <2>1, <2>2, <3>1, <3>2, <3>4, <3>5
  <2> QED BY <1>1, <2>1, <2>3, <2>4 DEF MemoryInv
<1>14. CASE \E n \in 1..POST_BUFFER : Body(n)
  <2>1. PICK n \in 1..POST_BUFFER : Body(n) BY <1>14
  <2> SUFFICES ASSUME ~reused, UNCHANGED reused PROVE MemoryInv' BY <2>1, <1>0 DEF Body
  <2>2. pc = "reserved" /\ pc' = pc /\ post.capacity > 0 BY <2>1 DEF Body
  <2>3. CASE ~vm.streams /\ PostSegment(n)
    <3>1. MemoryTypes /\ BodyComesIn /\ BodyIsThere BY <2>2 DEF MemoryInv
    <3>2. MemoryTypes' /\ BodyComesIn' /\ BodyIsThere' BY <1>1, <2>2, <2>3, <3>1, SegmentKeeps
    <3>3. areas' = {} BY <3>2 DEF BodyComesIn
    <3> QED BY <1>1, <2>2, <3>2, <3>3 DEF MemoryInv
  <2>4. CASE /\ vm.streams /\ post' = [post EXCEPT !.length = @ + n]
             /\ UNCHANGED <<mem, mm, areas, m_post_data, m_post_size, m_inputs_allocation>>
    <3>1. n \in Nat BY SMT, <1>2, <2>1
    <3>2. post' = [address |-> post.address, capacity |-> post.capacity, length |-> post.length + n]
          /\ post.length \in Nat
      BY <2>4 DEF MemoryInv, MemoryTypes
    <3>3. MemoryTypes' BY SMT, <1>1, <2>4, <3>1, <3>2 DEF MemoryInv, MemoryTypes
    <3>4. ASSUME vm.ephemeral PROVE BodyComesIn' /\ BodyIsThere' /\ areas' = {}
      <4>1. BodyComesIn /\ post.address = 0
        BY SMT, <2>2, <2>4, <3>4 DEF MemoryInv, MemoryTypes, BodyComesIn
      <4>2. post'.address = 0 /\ Fresh' BY <2>4, <3>2, <4>1 DEF BodyComesIn, Fresh
      <4> QED BY SMT, <1>1, <2>4, <4>2 DEF BodyComesIn, BodyIsThere, Fresh
    <3> QED BY <1>1, <2>2, <3>3, <3>4 DEF MemoryInv
  <2> QED BY <2>1, <2>3, <2>4 DEF Body
<1>15. CASE \E ok \in {TRUE, ~vm.reset_fails} : ResetTask(ok)
  <2>1. pc' = "queued" /\ UNCHANGED reused /\ ResetMemory(TRUE) BY <1>1, <1>15 DEF ResetTask
  <2>2. Fresh' /\ mem' = [a \in 1..Top |-> Free] /\ UNCHANGED post BY <2>1 DEF ResetMemory, Fresh
  <2>3. ~reused => MemoryTypes' BY SMT, <1>1, <2>2 DEF MemoryInv, MemoryTypes, Fresh
  <2> QED BY <1>1, <2>1, <2>2, <2>3 DEF MemoryInv, Fresh
<1>16. CASE Reuse BY <1>1, <1>16 DEF Reuse, MemoryInv
<1> QED
  BY <1>4, <1>5, <1>6, <1>7, <1>8, <1>9, <1>10, <1>11, <1>12, <1>13, <1>14, <1>15, <1>16 DEF Request

\* In an ephemeral VM the body is where the guest is told that it is when it
\* runs, and nothing is put over memory that the guest has mapped, whatever the
\* sizes of bodies and memory, until the VM is called again in a chain: if resets
\* work.
THEOREM PostStaysIntact == ResetsWork => (Spec => []PostIsIntact)
<1> SUFFICES ASSUME ResetsWork PROVE Spec => []PostIsIntact OBVIOUS
<1>1. Init => MemoryInv
  BY SMT, PostAssumption DEF Init, MemoryInit, NoPost, MemoryInv, MemoryTypes, Fresh
<1>2. MemoryInv /\ [Next]_vars => MemoryInv'
  <2>1. ASSUME MemoryInv, UNCHANGED vars PROVE MemoryInv'
    BY <2>1 DEF MemoryInv, MemoryTypes, Fresh, BodyComesIn, BodyIsThere, vars, memoryVars, guest
  <2> QED BY <2>1, MemoryStep
<1>3. MemoryInv => PostIsIntact
  BY DEF MemoryInv, PostIsIntact, GuestKeepsMemory, BodyIsThere
<1> QED BY <1>1, <1>2, <1>3, PTL DEF Spec
-----------------------------------------------------------------------------
(* The response, buffer by buffer. *)

VMBuffers == [mem : {"guest", "ws"}, data : Nat, size : Nat]

\* The buffers after the first p are, one after the other, the units of the
\* response after the first n.
HoldRest(buffers, p, n, total) ==
    /\ p \in 0..Len(buffers) /\ n \in Nat
    /\ p = Len(buffers) => n = total
    /\ p < Len(buffers) => buffers[p + 1].data = n + 1
    /\ \A k \in (p + 1)..Len(buffers) :
          /\ buffers[k].size > 0
          /\ buffers[k].data + buffers[k].size =
                IF k = Len(buffers) THEN total + 1 ELSE buffers[k + 1].data

DeliveryTypes ==
    /\ result \in [content_length : Nat, buffers : Seq(VMBuffers), streamed : BOOLEAN]
    /\ cnt \in Seq(Nat) /\ stored \in Seq(Nat)
    /\ copied \in Nat /\ priv2 \in Nat /\ max \in Nat

\* Before the delivery, and while the response is copied early.
NotYet ==
    /\ stored = <<>> /\ max = 0
    /\ \A k \in 1..Len(result.buffers) : result.buffers[k].mem = "guest"
    /\ vfp = "none" => cnt = <<>> /\ copied = 0
    /\ vfp = "copy" => ~result.streamed /\ result.content_length > 0
    /\ result.streamed => result.buffers = <<>>
    /\ ~result.streamed /\ result.content_length > 0 =>
          HoldRest(result.buffers, copied, Len(cnt), result.content_length)

\* Between pulls and in one: what is stored, and what is still to come.
UnderWay ==
    /\ result.content_length = 0 => stored = <<>>
    /\ result.streamed => priv2 = Len(stored)
    /\ ~result.streamed /\ result.content_length > 0 =>
          /\ priv2 < Len(result.buffers)
          /\ HoldRest(result.buffers, priv2, Len(stored), result.content_length)
          /\ \A k \in 1..Len(result.buffers) :
                result.buffers[k].mem = "ws" =>
                    Len(result.buffers) = 1 /\ Len(cnt) = result.content_length

DeliveryInv ==
    /\ DeliveryTypes
    /\ cnt = Units(1, Len(cnt)) /\ stored = Units(1, Len(stored))
    /\ vfp \in {"none", "copy", "ok", "pull", "end", "error", "assert"}
    /\ vfp = "assert" => result.streamed
    /\ vfp \in {"none", "copy"} => NotYet
    /\ vfp \in {"ok", "pull"} => UnderWay
    /\ vfp = "ok" => max = 0
    /\ vfp = "pull" => max > 0 /\ result.content_length > 0
    /\ vfp = "end" => Len(stored) = result.content_length

\* No units at all.
LEMMA NoUnits == <<>> = Units(1, 0)
BY SMT DEF Units

\* Units after units.
LEMMA MoreUnits ==
    ASSUME NEW n \in Nat, NEW m \in Nat, NEW s, NEW t,
           s = Units(1, n), t = [i \in 1..m |-> n + i]
    PROVE  s \o t = Units(1, n + m) /\ s \o t \in Seq(Nat) /\ Len(s \o t) = n + m
<1>1. s = [i \in 1..n |-> i] BY SMT DEF Units
<1>2. s \in Seq(Nat) /\ Len(s) = n /\ \A i \in 1..n : s[i] = i BY SMT, <1>1
<1>3. t \in Seq(Nat) /\ Len(t) = m /\ \A i \in 1..m : t[i] = n + i BY SMT
<1> HIDE <1>1
<1> SUFFICES ASSUME NEW u, u = s \o t
             PROVE  u = Units(1, n + m) /\ u \in Seq(Nat) /\ Len(u) = n + m
  OBVIOUS
<1>4. u \in Seq(Nat) /\ Len(u) = n + m BY ONLY SMT, <1>2, <1>3, n \in Nat, m \in Nat, u = s \o t
<1>5. ASSUME NEW i \in 1..(n + m) PROVE u[i] = i
  <2>1. CASE i <= n BY ONLY SMT, <1>2, <1>3, <2>1, n \in Nat, m \in Nat, u = s \o t, i \in 1..(n + m)
  <2>2. CASE i > n BY ONLY SMT, <1>2, <1>3, <2>2, n \in Nat, m \in Nat, u = s \o t, i \in 1..(n + m)
  <2>3. i <= n \/ i > n BY ONLY SMT, n \in Nat, m \in Nat, i \in 1..(n + m)
  <2> QED BY <2>1, <2>2, <2>3
<1>6. Units(1, n + m) = [i \in 1..(n + m) |-> i] BY SMT DEF Units
<1>7. u = [i \in 1..(n + m) |-> u[i]] BY SMT, <1>4
<1>8. [i \in 1..(n + m) |-> u[i]] = [i \in 1..(n + m) |-> i] BY <1>5
<1> QED BY <1>4, <1>6, <1>7, <1>8

\* What a buffer that holds the units after n points to.
LEMMA ContentsAre ==
    ASSUME NEW b \in VMBuffers, NEW n \in Nat, NEW len \in Nat, cnt = Units(1, Len(cnt)), Len(cnt) \in Nat,
           b.data = n + 1, b.mem = "ws" => n + len <= Len(cnt)
    PROVE  Contents(b, len) = [i \in 1..len |-> n + i]
<1> SUFFICES ASSUME NEW i \in 1..len
             PROVE  (IF b.mem = "guest" THEN b.data + i - 1 ELSE cnt[b.data + i - 1]) = n + i
  BY DEF Contents
<1>1. b.data + i - 1 = n + i BY SMT
<1>2. CASE b.mem = "guest" BY <1>1, <1>2
<1>3. CASE b.mem = "ws"
  <2>1. n + i \in 1..Len(cnt) BY SMT, <1>3
  <2>2. cnt = [j \in 1..Len(cnt) |-> j] BY SMT DEF Units
  <2>3. cnt[n + i] = n + i BY <2>1, <2>2
  <2> QED BY <1>1, <1>3, <2>3
<1> QED BY <1>2, <1>3 DEF VMBuffers

\* gather_buffers_from_range: the buffers of a response hold it.
LEMMA BuffersHold ==
    ASSUME NEW r \in Responses
    PROVE  /\ Buffers(r.ends) \in Seq(VMBuffers)
           /\ \A k \in 1..Len(Buffers(r.ends)) : Buffers(r.ends)[k].mem = "guest"
           /\ ~r.streamed /\ r.content_length > 0 => HoldRest(Buffers(r.ends), 0, 0, r.content_length)
           /\ r.streamed => Buffers(r.ends) = <<>>
<1> DEFINE ends == r.ends  N == Len(r.ends)
<1>1. /\ r.content_length \in Nat /\ ends \in Seq(Nat) /\ r.streamed \in BOOLEAN
      /\ \A k \in 1..N : Begin(ends, k) < ends[k]
      /\ ~r.streamed /\ r.content_length > 0 => N > 0 /\ ends[N] = r.content_length
  BY SMT, DeliveryAssumption
<1>2. N \in Nat /\ \A k \in 1..N : ends[k] \in Nat BY SMT, <1>1
<1> HIDE DEF ends, N
<1>3. \A k \in 1..N : Begin(ends, k) \in Nat BY SMT, <1>2 DEF Begin
<1> DEFINE bs == Buffers(ends)
<1>4. ASSUME NEW k \in 1..N
      PROVE  bs[k] = [mem |-> "guest", data |-> Begin(ends, k) + 1, size |-> ends[k] - Begin(ends, k)]
  BY DEF Buffers, N, ends
<1>5. ASSUME NEW k \in 1..N
      PROVE  /\ bs[k].mem = "guest" /\ bs[k].data = Begin(ends, k) + 1
             /\ bs[k].size = ends[k] - Begin(ends, k) /\ bs[k] \in VMBuffers /\ bs[k].size > 0
  <2>1. Begin(ends, k) + 1 \in Nat /\ ends[k] - Begin(ends, k) \in Nat /\ ends[k] - Begin(ends, k) > 0
    BY SMT, <1>1, <1>2, <1>3 DEF N
  <2>2. bs[k] = [mem |-> "guest", data |-> Begin(ends, k) + 1, size |-> ends[k] - Begin(ends, k)]
    BY <1>4
  <2> HIDE DEF bs
  <2>3. bs[k] \in VMBuffers BY SMT, <2>1, <2>2 DEF VMBuffers
  <2>4. bs[k].mem = "guest" /\ bs[k].data = Begin(ends, k) + 1 /\ bs[k].size = ends[k] - Begin(ends, k)
    BY SMT, <2>2
  <2> QED BY <2>1, <2>3, <2>4
<1>6. bs \in Seq(VMBuffers) /\ Len(bs) = N
  <2>1. bs = [k \in 1..N |-> bs[k]] BY DEF Buffers, N, ends
  <2>2. \A k \in 1..N : bs[k] \in VMBuffers BY <1>5
  <2> HIDE DEF bs
  <2> QED BY SMT, <1>2, <2>1, <2>2
<1>7. ASSUME ~r.streamed, r.content_length > 0 PROVE HoldRest(bs, 0, 0, r.content_length)
  <2> HIDE DEF bs
  <2>1. N > 0 /\ ends[N] = r.content_length /\ r.content_length \in Nat BY <1>1, <1>7 DEF N
  <2>2. Begin(ends, 1) = 0 BY DEF Begin
  <2>3. \A k \in 1..N : k # N => k + 1 \in 1..N /\ Begin(ends, k + 1) = ends[k] BY SMT, <1>2 DEF Begin
  <2>4. \A k \in 1..N : bs[k].data + bs[k].size = ends[k] + 1 BY SMT, <1>2, <1>3, <1>5
  <2>5. \A k \in 1..N : bs[k].data + bs[k].size = IF k = N THEN r.content_length + 1 ELSE bs[k + 1].data
    BY SMT, <1>5, <2>1, <2>3, <2>4
  <2> QED BY SMT, <1>2, <1>5, <1>6, <2>1, <2>2, <2>5 DEF HoldRest
<1>8. r.streamed => bs = <<>>
  <2>1. r.streamed => ends = <<>> BY DeliveryAssumption DEF ends
  <2>2. r.streamed => Len(bs) = 0 BY SMT, <1>6, <2>1 DEF N, ends
  <2> HIDE DEF bs
  <2> QED BY SMT, <1>6, <2>2
<1> QED BY <1>5, <1>6, <1>7, <1>8 DEF ends

\* The first state, and the beginning of the next request.
LEMMA DeliveryBegins == ASSUME DeliveryInit PROVE DeliveryInv /\ vfp = "none"
<1>1. DeliveryTypes BY SMT DEF DeliveryInit, NoBody, DeliveryTypes
<1>2. NotYet BY SMT DEF DeliveryInit, NoBody, NotYet
<1>3. Len(<<>>) = 0 BY SMT
<1> QED BY <1>1, <1>2, <1>3, NoUnits DEF DeliveryInit, DeliveryInv

\* Forget is as good as the first state.
LEMMA ForgetBegins == ASSUME Forget PROVE DeliveryInv' /\ vfp' = "none"
<1>1. DeliveryTypes' BY SMT DEF Forget, NoBody, DeliveryTypes
<1>2. NotYet' BY SMT DEF Forget, NoBody, NotYet
<1>3. Len(<<>>) = 0 BY SMT
<1> QED BY <1>1, <1>2, <1>3, NoUnits DEF Forget, DeliveryInv

\* The guest has answered, or failed.
LEMMA ResultHolds ==
    ASSUME DeliveryInv, vfp = "none", ErrorResult \/ \E r \in Responses : fetch_result(r)
    PROVE  DeliveryInv' /\ vfp' = "none"
<1>1. UNCHANGED <<cnt, copied, priv2, max, vfp, stored>> BY DEF ErrorResult, fetch_result, copyVars
<1>2. DeliveryTypes /\ NotYet /\ cnt = <<>> /\ copied = 0 /\ stored = <<>> /\ max = 0
  BY DEF DeliveryInv, NotYet
<1>3. Len(<<>>) = 0 BY SMT
<1>4. CASE ErrorResult
  <2>1. result' = NoBody BY <1>4 DEF ErrorResult
  <2>2. DeliveryTypes' BY SMT, <1>1, <1>2, <2>1 DEF NoBody, DeliveryTypes
  <2>3. NotYet' BY SMT, <1>1, <1>2, <2>1 DEF NoBody, NotYet
  <2> QED BY <1>1, <2>2, <2>3 DEF DeliveryInv
<1>5. CASE \E r \in Responses : fetch_result(r)
  <2>1. PICK r \in Responses : fetch_result(r) BY <1>5
  <2>2. result' = [content_length |-> r.content_length, buffers |-> Buffers(r.ends),
                   streamed |-> r.streamed]
    BY <2>1 DEF fetch_result
  <2>3. r.content_length \in Nat /\ r.streamed \in BOOLEAN BY DeliveryAssumption
  <2>4. DeliveryTypes' BY <1>1, <1>2, <2>2, <2>3, BuffersHold DEF DeliveryTypes
  <2>5. NotYet' BY <1>1, <1>2, <1>3, <2>2, BuffersHold DEF NotYet
  <2> QED BY <1>1, <2>4, <2>5 DEF DeliveryInv
<1> QED BY <1>4, <1>5

\* One more buffer is gone from the rest.
LEMMA NextBuffer ==
    ASSUME NEW bs \in Seq(VMBuffers), NEW p \in Nat, NEW n \in Nat, NEW total \in Nat,
           HoldRest(bs, p, n, total), p < Len(bs)
    PROVE  /\ bs[p + 1] \in VMBuffers /\ bs[p + 1].data = n + 1 /\ bs[p + 1].size \in Nat \ {0}
           /\ p + 1 = Len(bs) => n + bs[p + 1].size = total
           /\ HoldRest(bs, p + 1, n + bs[p + 1].size, total)
<1>1. Len(bs) \in Nat /\ p + 1 \in 1..Len(bs) /\ \A k \in 1..Len(bs) : bs[k] \in VMBuffers BY SMT
<1>2. \A k \in 1..Len(bs) : bs[k].size \in Nat /\ bs[k].data \in Nat BY <1>1 DEF VMBuffers
<1>3. /\ bs[p + 1].data = n + 1 /\ bs[p + 1].size \in Nat \ {0}
      /\ \A k \in (p + 1)..Len(bs) :
            /\ bs[k].size > 0
            /\ bs[k].data + bs[k].size = IF k = Len(bs) THEN total + 1 ELSE bs[k + 1].data
  BY SMTT(30), <1>1, <1>2 DEF HoldRest
<1>4. p + 1 \in (p + 1)..Len(bs) /\ (p + 1) + 1 = p + 2 BY SMT, <1>1
<1>5. bs[p + 1].data + bs[p + 1].size = IF p + 1 = Len(bs) THEN total + 1 ELSE bs[p + 2].data
  BY <1>3, <1>4
<1>6. CASE p + 1 = Len(bs)
  <2>1. /\ bs[p + 1].data = n + 1 /\ bs[p + 1].size \in Nat
        /\ bs[p + 1].data + bs[p + 1].size = total + 1
    BY <1>3, <1>5, <1>6
  <2>2. n + bs[p + 1].size = total BY SMT, <2>1
  <2> QED BY SMTT(30), <1>1, <1>2, <1>3, <1>6, <2>2 DEF HoldRest
<1>7. CASE p + 1 < Len(bs)
  <2>1. p + 2 \in 1..Len(bs) /\ p + 1 # Len(bs) BY SMT, <1>1, <1>7
  <2>2. bs[p + 2].data = bs[p + 1].data + bs[p + 1].size BY <1>5, <2>1
  <2>3. bs[p + 1].data = n + 1 /\ bs[p + 1].size \in Nat BY <1>3
  <2>4. bs[p + 2].data = n + bs[p + 1].size + 1 BY SMTT(30), <2>2, <2>3
  <2> QED BY SMTT(30), <1>1, <1>2, <1>3, <1>7, <2>1, <2>4 DEF HoldRest
<1> QED BY SMT, <1>1, <1>6, <1>7

\* The early copy takes the next buffer.
LEMMA CopyHolds == ASSUME DeliveryInv, CopyBuffer PROVE DeliveryInv'
<1> DEFINE bs == result.buffers  total == result.content_length  b == bs[copied + 1]
<1>0. ~result.streamed
  <2>1. DeliveryTypes /\ NotYet BY DEF DeliveryInv, CopyBuffer, CopiesEarly
  <2>2. copied < Len(bs) /\ copied \in Nat BY <2>1 DEF CopyBuffer, DeliveryTypes
  <2>3. bs # <<>> BY SMT, <2>2
  <2> QED BY <2>1, <2>3 DEF NotYet
<1>1. /\ vfp \in {"none", "copy"} /\ total > 0 /\ ~result.streamed /\ copied < Len(bs)
      /\ cnt' = cnt \o Contents(b, b.size) /\ copied' = copied + 1 /\ vfp' = "copy"
      /\ UNCHANGED <<result, priv2, max, stored>>
  BY <1>0 DEF CopyBuffer, CopiesEarly
<1>2. DeliveryTypes /\ NotYet /\ cnt = Units(1, Len(cnt)) /\ stored = Units(1, Len(stored))
  BY <1>1 DEF DeliveryInv
<1>3. bs \in Seq(VMBuffers) /\ total \in Nat /\ copied \in Nat /\ Len(cnt) \in Nat
  <2>1. cnt \in Seq(Nat) BY <1>2 DEF DeliveryTypes
  <2>2. Len(cnt) \in Nat BY SMT, <2>1
  <2> QED BY <1>2, <2>2 DEF DeliveryTypes
<1>4. HoldRest(bs, copied, Len(cnt), total) BY <1>1, <1>2 DEF NotYet
<1> HIDE DEF bs, total, b
<1>5. /\ b \in VMBuffers /\ b.data = Len(cnt) + 1 /\ b.size \in Nat
      /\ HoldRest(bs, copied + 1, Len(cnt) + b.size, total)
  BY <1>1, <1>3, <1>4, NextBuffer DEF b
<1>6. b.mem = "guest"
  <2>1. copied + 1 \in 1..Len(bs) BY SMT, <1>1, <1>3
  <2> QED BY <1>2, <2>1 DEF NotYet, b, bs
<1>7. Contents(b, b.size) = [i \in 1..b.size |-> Len(cnt) + i]
  BY <1>2, <1>3, <1>5, <1>6, ContentsAre
<1>8. cnt' = Units(1, Len(cnt')) /\ cnt' \in Seq(Nat) /\ Len(cnt') = Len(cnt) + b.size
  <2> DEFINE n == Len(cnt)  m == b.size  t == Contents(b, b.size)
  <2>1. n \in Nat /\ m \in Nat /\ cnt = Units(1, n) /\ t = [i \in 1..m |-> n + i] /\ cnt' = cnt \o t
    BY <1>1, <1>2, <1>3, <1>5, <1>7
  <2> HIDE DEF n, m, t
  <2>2. cnt' = Units(1, n + m) /\ cnt' \in Seq(Nat) /\ Len(cnt') = n + m BY <2>1, MoreUnits
  <2> QED BY <2>2 DEF n, m
<1>9. DeliveryTypes'
  <2>1. copied + 1 \in Nat BY SMT, <1>3
  <2> QED BY <1>1, <1>2, <1>8, <2>1 DEF DeliveryTypes
<1>10. NotYet' BY <1>1, <1>2, <1>5, <1>8 DEF NotYet, bs, total
<1> QED BY <1>1, <1>2, <1>8, <1>9, <1>10 DEF DeliveryInv

\* Only a streamed response fails the assertion of the copy.
LEMMA AssertHolds == ASSUME DeliveryInv, CopyAsserts PROVE DeliveryInv'
<1>1. /\ vfp \in {"none", "copy"} /\ result.content_length > 0 /\ copied = Len(result.buffers)
      /\ Len(cnt) # result.content_length /\ vfp' = "assert"
      /\ UNCHANGED <<result, cnt, copied, priv2, max, stored>>
  BY DEF CopyAsserts, CopiesEarly, copyVars
<1>2. DeliveryTypes /\ NotYet BY <1>1 DEF DeliveryInv
<1>3. result.streamed BY <1>1, <1>2 DEF NotYet, HoldRest, DeliveryTypes
<1>4. DeliveryTypes' BY <1>1, <1>2 DEF DeliveryTypes
<1> QED BY <1>1, <1>3, <1>4 DEF DeliveryInv

\* The delivery begins, from the guest's buffers or from the copy.
LEMMA WriteHolds == ASSUME DeliveryInv, WriteResponse PROVE DeliveryInv'
<1> DEFINE total == result.content_length
<1>1. /\ vfp \in {"none", "copy"} /\ vfp' = "ok" /\ priv2' = 0
      /\ UNCHANGED <<cnt, copied, max, stored>>
  BY DEF WriteResponse, copyVars
<1>2. DeliveryTypes /\ NotYet /\ cnt = Units(1, Len(cnt)) /\ stored = Units(1, Len(stored))
  BY <1>1 DEF DeliveryInv
<1>3. stored = <<>> /\ max = 0 /\ Len(stored) = 0 BY SMT, <1>2 DEF NotYet
<1>4. CASE vfp = "none" /\ UNCHANGED result
  <2>1. DeliveryTypes' BY <1>1, <1>2, <1>4 DEF DeliveryTypes
  <2>2. ASSUME ~result.streamed, total > 0
        PROVE  0 < Len(result.buffers) /\ HoldRest(result.buffers, 0, 0, total)
    <3>1. copied = 0 /\ Len(cnt) = 0 BY SMT, <1>2, <1>4 DEF NotYet
    <3>2. HoldRest(result.buffers, 0, 0, total) BY <1>2, <2>2, <3>1 DEF NotYet
    <3>3. result.buffers \in Seq(VMBuffers) /\ total \in Nat BY <1>2 DEF DeliveryTypes
    <3>4. Len(result.buffers) \in Nat BY SMT, <3>3
    <3>5. 0 # total BY SMT, <2>2, <3>3
    <3>6. Len(result.buffers) # 0 BY <3>2, <3>5 DEF HoldRest
    <3> QED BY SMT, <3>2, <3>4, <3>6
  <2>3. \A k \in 1..Len(result.buffers) : result.buffers[k].mem # "ws" BY <1>2 DEF NotYet
  <2>4. UnderWay' BY <1>1, <1>3, <1>4, <2>2, <2>3 DEF UnderWay
  <2> QED BY <1>1, <1>2, <1>3, <2>1, <2>4 DEF DeliveryInv
<1>5. CASE /\ vfp = "copy" /\ copied = Len(result.buffers)
           /\ result' = [result EXCEPT !.buffers = <<[mem |-> "ws", data |-> 1, size |-> Len(cnt)]>>]
  <2> DEFINE b == [mem |-> "ws", data |-> 1, size |-> Len(cnt)]
  <2>1. ~result.streamed /\ total > 0 /\ HoldRest(result.buffers, copied, Len(cnt), total)
    BY <1>2, <1>5 DEF NotYet
  <2>2. Len(cnt) = total BY <1>5, <2>1 DEF HoldRest
  <2>3. total \in Nat BY <1>2 DEF DeliveryTypes
  <2>4. b \in VMBuffers /\ b.mem = "ws" /\ b.data = 1 /\ b.size = total BY SMT, <2>2, <2>3 DEF VMBuffers
  <2> HIDE DEF b
  <2>5. result'.buffers = <<b>> /\ result'.content_length = total /\ result'.streamed = result.streamed
    BY <1>2, <1>5 DEF DeliveryTypes, b
  <2>6. <<b>> \in Seq(VMBuffers) /\ Len(<<b>>) = 1 /\ <<b>>[1] = b BY SMT, <2>4
  <2>7. DeliveryTypes'
    <3>1. 0 \in Nat BY SMT
    <3> QED BY <1>1, <1>2, <1>5, <2>6, <3>1 DEF DeliveryTypes, b
  <2>8. HoldRest(<<b>>, 0, 0, total) BY SMTT(30), <2>1, <2>3, <2>4, <2>6 DEF HoldRest
  <2>9. 0 < Len(<<b>>) /\ total # 0 BY SMT, <2>1, <2>3, <2>6
  <2> HIDE DEF total
  <2>10. UnderWay' BY <1>1, <1>3, <2>1, <2>2, <2>5, <2>6, <2>8, <2>9 DEF UnderWay
  <2> QED BY <1>1, <1>2, <1>3, <2>7, <2>10 DEF DeliveryInv
<1> QED BY <1>4, <1>5 DEF WriteResponse

\* Varnish asks for more, or a streaming guest delivers nothing.
LEMMA PullHolds == ASSUME DeliveryInv, Pull \/ Stalls PROVE DeliveryInv'
<1>1. UNCHANGED <<result, cnt, copied, priv2, stored>> BY DEF Pull, Stalls, copyVars
<1>2. DeliveryTypes BY DEF DeliveryInv
<1>3. CASE Stalls
  <2>1. vfp' = "error" /\ UNCHANGED max BY <1>3 DEF Stalls
  <2>2. DeliveryTypes' BY <1>1, <1>2, <2>1 DEF DeliveryTypes
  <2> QED BY <1>1, <2>1, <2>2 DEF DeliveryInv
<1>4. CASE Pull
  <2>1. vfp = "ok" /\ UnderWay BY <1>4 DEF Pull, DeliveryInv
  <2>2. CASE result.content_length = 0 /\ vfp' = "end" /\ UNCHANGED max
    <3>1. Len(stored) = 0 BY SMT, <2>1, <2>2 DEF UnderWay
    <3>2. DeliveryTypes' BY <1>1, <1>2, <2>2 DEF DeliveryTypes
    <3> QED BY <1>1, <2>2, <3>1, <3>2 DEF DeliveryInv
  <2>3. CASE result.content_length > 0 /\ vfp' = "pull" /\ \E n \in 1..MaxPull : max' = n
    <3>1. max' \in Nat /\ max' > 0 BY SMT, <2>3, DeliveryAssumption
    <3>2. DeliveryTypes' BY <1>1, <1>2, <3>1 DEF DeliveryTypes
    <3>3. UnderWay' BY <1>1, <2>1 DEF UnderWay
    <3> QED BY <1>1, <2>3, <3>1, <3>2, <3>3 DEF DeliveryInv
  <2> QED BY <1>4, <2>2, <2>3 DEF Pull
<1> QED BY <1>3, <1>4

\* A sequence with another element at place i.
LEMMA Replaced ==
    ASSUME NEW S, NEW s \in Seq(S), NEW i \in 1..Len(s), NEW e \in S, NEW t, t = [s EXCEPT ![i] = e]
    PROVE  /\ t \in Seq(S) /\ Len(t) = Len(s) /\ t[i] = e
           /\ \A k \in 1..Len(s) : k # i => t[k] = s[k]
BY SMT

\* Part of a buffer is gone from the rest.
LEMMA PartOfBuffer ==
    ASSUME NEW bs \in Seq(VMBuffers), NEW p \in Nat, NEW n \in Nat, NEW total \in Nat,
           HoldRest(bs, p, n, total), p < Len(bs),
           NEW len \in Nat, len < bs[p + 1].size, NEW b \in VMBuffers,
           b.data = bs[p + 1].data + len, b.size = bs[p + 1].size - len
    PROVE  HoldRest([bs EXCEPT ![p + 1] = b], p, n + len, total)
<1> DEFINE cs == [bs EXCEPT ![p + 1] = b]
<1>1. Len(bs) \in Nat /\ p + 1 \in 1..Len(bs) /\ \A k \in 1..Len(bs) : bs[k] \in VMBuffers BY SMT
<1>2. \A k \in 1..Len(bs) : bs[k].size \in Nat /\ bs[k].data \in Nat BY <1>1 DEF VMBuffers
<1>3. Len(cs) = Len(bs) /\ cs[p + 1] = b /\ \A k \in 1..Len(bs) : k # p + 1 => cs[k] = bs[k]
  BY SMT, <1>1
<1> HIDE DEF cs
<1>4. /\ bs[p + 1].data = n + 1
      /\ \A k \in (p + 1)..Len(bs) :
            /\ bs[k].size > 0
            /\ bs[k].data + bs[k].size = IF k = Len(bs) THEN total + 1 ELSE bs[k + 1].data
  BY DEF HoldRest
<1>5. cs[p + 1].data = n + len + 1 /\ cs[p + 1].size > 0 BY SMTT(30), <1>1, <1>2, <1>3, <1>4
<1>6. ASSUME NEW k \in (p + 1)..Len(bs)
      PROVE  cs[k].size > 0 /\ cs[k].data + cs[k].size = IF k = Len(bs) THEN total + 1 ELSE cs[k + 1].data
  <2>1. k \in 1..Len(bs) /\ (k # Len(bs) => k + 1 \in 1..Len(bs) /\ k + 1 # p + 1) BY SMT, <1>1
  <2>2. k # Len(bs) => cs[k + 1] = bs[k + 1] BY <1>3, <2>1
  <2>3. bs[k].size > 0 /\ bs[k].data + bs[k].size = IF k = Len(bs) THEN total + 1 ELSE cs[k + 1].data
    BY <1>4, <2>2
  <2>4. CASE k = p + 1
    <3>2. /\ cs[k].data = bs[k].data + len /\ cs[k].size = bs[k].size - len
          /\ bs[k].data \in Nat /\ bs[k].size \in Nat
      BY <1>2, <1>3, <2>1, <2>4
    <3>1. cs[k].data + cs[k].size = bs[k].data + bs[k].size BY SMTT(30), <3>2
    <3> QED BY <1>5, <2>3, <2>4, <3>1
  <2>5. CASE k # p + 1
    <3>1. cs[k] = bs[k] BY <1>3, <2>1, <2>5
    <3> QED BY <2>3, <3>1
  <2> QED BY <2>4, <2>5
<1>7. n + len \in Nat /\ p \in 0..Len(bs) /\ p # Len(bs) BY SMT, <1>1
<1>8. HoldRest(cs, p, n + len, total) BY <1>3, <1>5, <1>6, <1>7 DEF HoldRest
<1> QED BY <1>8 DEF cs

\* The rest does not depend on the buffers before it.
LEMMA RestIsRest ==
    ASSUME NEW bs \in Seq(VMBuffers), NEW p \in Nat, NEW n \in Nat, NEW total \in Nat,
           p < Len(bs), HoldRest(bs, p + 1, n, total), NEW b
    PROVE  HoldRest([bs EXCEPT ![p + 1] = b], p + 1, n, total)
<1> DEFINE cs == [bs EXCEPT ![p + 1] = b]
<1>1. Len(bs) \in Nat BY SMT
<1>2. Len(cs) = Len(bs) /\ \A k \in 1..Len(bs) : k # p + 1 => cs[k] = bs[k] BY SMT, <1>1
<1> HIDE DEF cs
<1>3. /\ p + 1 \in 0..Len(bs) /\ (p + 1 = Len(bs) => n = total)
      /\ p + 1 < Len(bs) => bs[(p + 1) + 1].data = n + 1
      /\ \A k \in ((p + 1) + 1)..Len(bs) :
            /\ bs[k].size > 0
            /\ bs[k].data + bs[k].size = IF k = Len(bs) THEN total + 1 ELSE bs[k + 1].data
  BY DEF HoldRest
<1>4. p + 1 < Len(bs) => cs[(p + 1) + 1] = bs[(p + 1) + 1]
  <2>1. p + 1 < Len(bs) => (p + 1) + 1 \in 1..Len(bs) /\ (p + 1) + 1 # p + 1 BY SMT, <1>1
  <2> QED BY <1>2, <2>1
<1>5. ASSUME NEW k \in ((p + 1) + 1)..Len(bs)
      PROVE  cs[k].size > 0 /\ cs[k].data + cs[k].size = IF k = Len(bs) THEN total + 1 ELSE cs[k + 1].data
  <2>1. /\ k \in 1..Len(bs) /\ k # p + 1
        /\ k # Len(bs) => k + 1 \in 1..Len(bs) /\ k + 1 # p + 1
    BY SMT, <1>1
  <2>2. cs[k] = bs[k] /\ (k # Len(bs) => cs[k + 1] = bs[k + 1]) BY <1>2, <2>1
  <2> QED BY <1>3, <2>2
<1>6. HoldRest(cs, p + 1, n, total) BY <1>2, <1>3, <1>4, <1>5 DEF HoldRest
<1> QED BY <1>6 DEF cs

\* A turn of the loop in kvmfp_pull.
LEMMA BufferPullHolds == ASSUME DeliveryInv, kvmfp_pull PROVE DeliveryInv'
<1> DEFINE bs == result.buffers  total == result.content_length  n == Len(stored)
           current == bs[priv2 + 1]
           len == Least(current.size, max)
           b == [current EXCEPT !.data = @ + len, !.size = @ - len]
           next == IF current.size = len THEN priv2 + 1 ELSE priv2
<1>1. /\ vfp = "pull" /\ ~result.streamed /\ stored' = stored \o Contents(current, len)
      /\ result' = [result EXCEPT !.buffers[priv2 + 1] = b]
      /\ priv2' = next /\ max' = max - len
      /\ vfp' = IF next = Len(bs) THEN "end" ELSE IF max = len THEN "ok" ELSE "pull"
      /\ UNCHANGED <<cnt, copied>>
  BY DEF kvmfp_pull, copyVars
<1>2. /\ DeliveryTypes /\ UnderWay /\ cnt = Units(1, Len(cnt)) /\ stored = Units(1, n)
      /\ max > 0 /\ total > 0
  BY <1>1 DEF DeliveryInv
<1>3. bs \in Seq(VMBuffers) /\ total \in Nat /\ priv2 \in Nat /\ max \in Nat /\ cnt \in Seq(Nat) /\ stored \in Seq(Nat)
  BY <1>2 DEF DeliveryTypes
<1>4. n \in Nat /\ Len(cnt) \in Nat /\ Len(bs) \in Nat BY SMT, <1>3
<1>5. /\ priv2 < Len(bs) /\ HoldRest(bs, priv2, n, total)
      /\ \A k \in 1..Len(bs) : bs[k].mem = "ws" => Len(bs) = 1 /\ Len(cnt) = total
  BY <1>1, <1>2 DEF UnderWay
<1>6. DOMAIN result = {"content_length", "buffers", "streamed"} BY <1>2 DEF DeliveryTypes
<1>7. result' = [result EXCEPT !.buffers = [bs EXCEPT ![priv2 + 1] = b]] BY <1>1
<1> HIDE DEF bs, total, n
<1>8. /\ current \in VMBuffers /\ current.data = n + 1 /\ current.size \in Nat \ {0}
      /\ priv2 + 1 = Len(bs) => n + current.size = total
      /\ HoldRest(bs, priv2 + 1, n + current.size, total)
  BY <1>3, <1>4, <1>5, NextBuffer
<1> HIDE DEF current
<1>9. len \in Nat \ {0} /\ len <= current.size /\ len <= max /\ (len = max \/ len = current.size)
  BY SMT, <1>2, <1>3, <1>8 DEF Least
<1> HIDE DEF len
<1>10. b \in VMBuffers /\ b.data = current.data + len /\ b.size = current.size - len /\ b.mem = current.mem
  <2>1. current.data + len \in Nat /\ current.size - len \in Nat BY SMT, <1>4, <1>8, <1>9
  <2> QED BY <1>8, <2>1 DEF VMBuffers
<1> HIDE DEF b
<1>11. priv2 + 1 \in 1..Len(bs) BY SMT, <1>3, <1>4, <1>5
<1>12. current.mem = "ws" => n + len <= Len(cnt)
  <2> SUFFICES ASSUME current.mem = "ws" PROVE n + len <= Len(cnt) OBVIOUS
  <2>1. Len(bs) = 1 /\ Len(cnt) = total BY <1>5, <1>11 DEF current
  <2>2. n + current.size = total BY SMT, <1>3, <1>5, <1>8, <2>1
  <2> QED BY SMT, <1>4, <1>8, <1>9, <2>1, <2>2
<1>13. stored' = Units(1, n + len) /\ stored' \in Seq(Nat) /\ Len(stored') = n + len
  <2> DEFINE t == Contents(current, len)
  <2>1. t = [i \in 1..len |-> n + i] BY <1>2, <1>4, <1>8, <1>9, <1>12, ContentsAre
  <2>2. stored' = stored \o t /\ stored = Units(1, n) /\ n \in Nat /\ len \in Nat BY <1>1, <1>2, <1>4, <1>9
  <2> HIDE DEF t
  <2> QED BY <2>1, <2>2, MoreUnits
<1> DEFINE cs == [bs EXCEPT ![priv2 + 1] = b]
<1>14. /\ cs \in Seq(VMBuffers) /\ Len(cs) = Len(bs) /\ cs[priv2 + 1] = b
       /\ \A k \in 1..Len(bs) : k # priv2 + 1 => cs[k] = bs[k]
  <2>1. cs = [bs EXCEPT ![priv2 + 1] = b] OBVIOUS
  <2> HIDE DEF cs
  <2>2. bs \in Seq(VMBuffers) /\ b \in VMBuffers /\ priv2 + 1 \in 1..Len(bs) BY <1>3, <1>10, <1>11
  <2> QED BY SMT, <2>1, <2>2, Replaced
<1>15. result'.buffers = cs /\ result'.content_length = total /\ result'.streamed = result.streamed
  BY <1>6, <1>7 DEF total
<1>16. \A k \in 1..Len(cs) : cs[k].mem = bs[k].mem
  <2> HIDE DEF cs
  <2> QED BY <1>10, <1>14 DEF current
<1>17. DeliveryTypes'
  <2>1. max - len \in Nat /\ priv2 + 1 \in Nat BY SMT, <1>3, <1>9
  <2>2. result' \in [content_length : Nat, buffers : Seq(VMBuffers), streamed : BOOLEAN]
    BY <1>2, <1>7, <1>14 DEF DeliveryTypes
  <2> QED BY <1>1, <1>2, <1>13, <2>1, <2>2 DEF DeliveryTypes
<1>18. IF current.size = len
       THEN HoldRest(cs, priv2 + 1, n + len, total)
       ELSE HoldRest(cs, priv2, n + len, total) /\ len < current.size /\ max = len
  <2>1. CASE current.size = len
    <3>1. HoldRest(bs, priv2 + 1, n + len, total) /\ n + len \in Nat BY SMT, <1>4, <1>8, <1>9, <2>1
    <3> QED BY <1>3, <1>5, <2>1, <3>1, RestIsRest
  <2>2. CASE current.size # len
    <3>1. len < current.size /\ max = len BY SMT, <1>3, <1>8, <1>9, <2>2
    <3> QED BY <1>3, <1>4, <1>5, <1>9, <1>10, <2>2, <3>1, PartOfBuffer DEF current
  <2> QED BY <2>1, <2>2
<1> HIDE DEF cs
<1>19. HoldRest(cs, next, n + len, total) /\ next <= Len(bs) /\ next \in Nat
  BY SMT, <1>3, <1>4, <1>5, <1>18
<1>20. CASE next = Len(bs)
  <2>1. n + len = total BY <1>14, <1>19, <1>20 DEF HoldRest
  <2>2. vfp' = "end" BY <1>1, <1>20
  <2> QED BY <1>1, <1>2, <1>13, <1>15, <1>17, <2>1, <2>2 DEF DeliveryInv
<1>21. CASE next # Len(bs)
  <2>1. next < Len(bs) BY SMT, <1>4, <1>19, <1>21
  <2>2. vfp' = (IF max = len THEN "ok" ELSE "pull") BY <1>1, <1>21
  <2>3. IF max = len THEN max' = 0 ELSE max' > 0 BY SMT, <1>1, <1>3, <1>9
  <2>4. total # 0 BY SMT, <1>2, <1>3
  <2>5. \A k \in 1..Len(cs) : cs[k].mem = "ws" => Len(cs) = 1 /\ Len(cnt) = total BY <1>5, <1>14, <1>16
  <2>6. UnderWay' BY <1>1, <1>13, <1>14, <1>15, <1>19, <2>1, <2>4, <2>5 DEF UnderWay
  <2>7. result'.content_length > 0 BY <1>2, <1>15
  <2> QED BY <1>1, <1>2, <1>13, <1>17, <2>2, <2>3, <2>6, <2>7 DEF DeliveryInv
<1> QED BY <1>20, <1>21

\* A turn of the loop in kvmfp_streaming_pull.
LEMMA StreamPullHolds ==
    ASSUME DeliveryInv, NEW n \in 1..MaxPull, kvmfp_streaming_pull(n) PROVE DeliveryInv'
<1> DEFINE len == Least(n, max)
<1>1. /\ vfp = "pull" /\ result.streamed /\ len > 0
      /\ stored' = stored \o Units(priv2 + 1, priv2 + len)
      /\ priv2' = priv2 + len /\ max' = max - len
      /\ vfp' = IF priv2 + len = result.content_length THEN "end"
                ELSE IF max = len THEN "ok" ELSE "pull"
      /\ UNCHANGED <<result, cnt, copied>>
  BY DEF kvmfp_streaming_pull, copyVars
<1>2. /\ DeliveryTypes /\ UnderWay /\ cnt = Units(1, Len(cnt)) /\ stored = Units(1, Len(stored))
      /\ max > 0 /\ result.content_length > 0
  BY <1>1 DEF DeliveryInv
<1>3. priv2 \in Nat /\ max \in Nat /\ result.content_length \in Nat BY <1>2 DEF DeliveryTypes
<1>4. len \in Nat /\ len <= max BY SMT, <1>2, <1>3, DeliveryAssumption DEF Least
<1> HIDE DEF len
<1>5. priv2 = Len(stored) BY <1>1, <1>2 DEF UnderWay
<1>6. stored' = Units(1, priv2 + len) /\ stored' \in Seq(Nat) /\ Len(stored') = priv2 + len
  <2> DEFINE t == Units(priv2 + 1, priv2 + len)
  <2>1. t = [i \in 1..len |-> priv2 + i] BY SMT, <1>3, <1>4 DEF Units
  <2>2. stored' = stored \o t /\ stored = Units(1, priv2) BY <1>1, <1>2, <1>5
  <2> HIDE DEF t
  <2> QED BY ZenonT(90), <1>3, <1>4, <2>1, <2>2, MoreUnits
<1>7. priv2 + len \in Nat /\ max - len \in Nat /\ result.content_length # 0
      /\ (IF max = len THEN max - len = 0 ELSE max - len > 0)
  BY SMT, <1>2, <1>3, <1>4
<1>8. DeliveryTypes' BY <1>1, <1>2, <1>6, <1>7 DEF DeliveryTypes
<1>9. UnderWay' BY <1>1, <1>6, <1>7 DEF UnderWay
<1> QED BY <1>1, <1>2, <1>6, <1>7, <1>8, <1>9 DEF DeliveryInv

\* The response, and where the request is: it has none while the guest runs.
BodyInv == DeliveryInv /\ (pc \in {"reserved", "running"} => vfp = "none")

\* Every step of a request keeps it so.
LEMMA BodyStep == ASSUME BodyInv, Next PROVE BodyInv'
<1> USE DEF Next
<1>1. ASSUME UNCHANGED deliveryVars, pc' \in {"reserved", "running"} => pc \in {"reserved", "running"}
      PROVE  BodyInv'
  BY <1>1 DEF BodyInv, DeliveryInv, DeliveryTypes, NotYet, UnderWay, deliveryVars, copyVars
<1>2. CASE Boot BY <1>2, <1>1 DEF Boot, WarmUp, WarmUpFails, Fork, dataVars
<1>3. CASE Reuse \/ \E soft \in BOOLEAN : Reserve(soft)
  BY <1>3, ForgetBegins DEF Reserve, Reuse, BodyInv
<1>4. CASE \/ BodyBegins \/ CallBack \/ Resume \/ Map \/ FreeInline \/ FreeDeferred
           \/ \E n \in 1..POST_BUFFER : Body(n) \/ BodyFails(n)
  BY <1>4, <1>1 DEF BodyBegins, CallBack, Resume, Map, FreeInline, FreeDeferred, Body, BodyFails, dataVars
<1>5. CASE \/ \E h \in Hashes : CompileFound(h) \/ CompileNew(h)
           \/ \E i \in handles : RegexFree(i)
           \/ \E ok \in {TRUE, ~vm.reset_fails} : ResetTask(ok)
  BY <1>5, <1>1 DEF CompileFound, CompileNew, RegexFree, ResetTask, dataVars
<1>7. CASE CallFails BY <1>7, ResultHolds DEF CallFails, Answers, BodyInv
<1>8. CASE \E r \in Answers : Answer(r) BY <1>8, ResultHolds DEF Answer, Answers, BodyInv
<1>9. CASE Deliver
  BY <1>9, CopyHolds, AssertHolds, WriteHolds, PullHolds, BufferPullHolds DEF Deliver, BodyInv
<1>10. CASE DeliveryFails BY <1>10, PullHolds DEF DeliveryFails, BodyInv
<1>11. CASE \E n \in 1..MaxPull : Stream(n) BY <1>11, StreamPullHolds DEF Stream, BodyInv
<1> QED
  BY <1>2, <1>3, <1>4, <1>5, <1>7, <1>8, <1>9, <1>10, <1>11 DEF Request

\* What Varnish stores is the response in order and, at the end, all of it, for
\* any sizes of buffers and pulls, copied early or not, streamed or not; only a
\* streamed response can fail the assertion of the early copy.
THEOREM BodiesArriveWhole == Spec => []BodyIsWhole
<1>1. Init => BodyInv BY DeliveryBegins DEF Init, BodyInv
<1>2. BodyInv /\ [Next]_vars => BodyInv'
  <2>1. ASSUME BodyInv, UNCHANGED vars PROVE BodyInv'
    BY <2>1 DEF BodyInv, DeliveryInv, DeliveryTypes, NotYet, UnderWay, vars, deliveryVars, copyVars
  <2> QED BY <2>1, BodyStep
<1>3. BodyInv => BodyIsWhole
  BY DEF BodyInv, DeliveryInv, NotYet, UnderWay, HoldRest, BodyIsWhole
<1> QED BY <1>1, <1>2, <1>3, PTL DEF Spec
=============================================================================

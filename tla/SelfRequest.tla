----------------------------- MODULE SelfRequest -----------------------------
(***************************************************************************)
(* Self-requests: requests that Varnish makes to itself, and the limit on  *)
(* how many there are at a time.  A chain that starts with "fetch" makes   *)
(* one through kvm_self_request, a guest through the fetch system call.    *)
(* What is requested may run a program that makes a self-request again,    *)
(* and whoever asked for it waits: the limit is what ends such a loop.     *)
(***************************************************************************)
EXTENDS Integers, FiniteSets

CONSTANTS
    Tasks,                  \* the threads that may make self-requests
    MaxConcurrency,         \* self_request_max_concurrency
    DriftBound,             \* bound of the model: exits that leave a wrong count
    None

ASSUME SelfRequestAssumption ==
    /\ IsFiniteSet(Tasks) /\ None \notin Tasks
    /\ MaxConcurrency \in Nat /\ DriftBound \in Nat

VARIABLES
    self_request_uri,       \* whether a Unix domain socket is configured
    self_request_concurrency,
    curls,                  \* the number of cURL handles
    pc,
    way,                    \* "chain" or "guest"
    parent,                 \* the task whose self-request this task serves
    refused, abandoned,     \* (history) exits of guests that leave a wrong count
    terminated              \* an exception reached code written in C

counters == <<self_request_concurrency, curls>>
history  == <<refused, abandoned>>
vars == <<self_request_uri, counters, pc, way, parent, history, terminated>>

TypeOK ==
    /\ self_request_uri \in BOOLEAN
    /\ self_request_concurrency \in Int
    /\ curls \in Nat
    /\ pc \in [Tasks -> {"idle", "count", "over", "setup", "perform", "caught", "clean"}]
    /\ way \in [Tasks -> {"chain", "guest"}]
    /\ parent \in [Tasks -> Tasks \cup {None}]
    /\ refused \in Nat /\ abandoned \in Nat
    /\ terminated \in BOOLEAN

Init ==
    /\ self_request_uri \in BOOLEAN          \* kvm_set_self_request, in vcl_init
    /\ self_request_concurrency = 0 /\ curls = 0
    /\ pc = [t \in Tasks |-> "idle"]
    /\ way = [t \in Tasks |-> "chain"]
    /\ parent = [t \in Tasks |-> None]
    /\ refused = 0 /\ abandoned = 0
    /\ terminated = FALSE

-----------------------------------------------------------------------------
Goto(t, label) == pc' = [pc EXCEPT ![t] = label]
Children(t)    == {c \in Tasks : parent[c] = t}

\* The task is over: way and parent are of no more use.
Return(t) ==
    /\ Goto(t, "idle")
    /\ way' = [way EXCEPT ![t] = "chain"]
    /\ parent' = [parent EXCEPT ![t] = None]

\* The client's request, or one that came in by a self-request, makes one.  The
\* guest's fetch has its cURL handle before it is counted.
Begin(t, w, p) ==
    /\ pc[t] = "idle"
    /\ refused < DriftBound /\ abandoned < DriftBound
    /\ p # None => pc[p] = "perform" /\ Children(p) = {}
    /\ Goto(t, "count")
    /\ way' = [way EXCEPT ![t] = w]
    /\ parent' = [parent EXCEPT ![t] = p]
    /\ curls' = IF w = "guest" THEN curls + 1 ELSE curls
    /\ UNCHANGED <<self_request_uri, self_request_concurrency, history, terminated>>

\* A guest's fetch is taken for a self-request if there is a socket to send it to;
\* a chain's always is one.
Counted(t) == way[t] = "chain" \/ self_request_uri

\* (bug) Waits for its turn at the limit.
CountWaits(t) ==
    /\ pc[t] = "count"
    /\ Counted(t) => self_request_concurrency < MaxConcurrency
    /\ self_request_concurrency' =
          self_request_concurrency + (IF Counted(t) THEN 1 ELSE 0)
    /\ Goto(t, "setup")
    /\ UNCHANGED <<self_request_uri, curls, way, parent, history, terminated>>

\* (bug) > instead of >=.
CountOffByOne(t) ==
    /\ pc[t] = "count"
    /\ IF Counted(t)
       THEN /\ self_request_concurrency' = self_request_concurrency + 1
            /\ Goto(t, IF self_request_concurrency > MaxConcurrency
                       THEN "over" ELSE "setup")
       ELSE UNCHANGED self_request_concurrency /\ Goto(t, "setup")
    /\ UNCHANGED <<self_request_uri, curls, way, parent, history, terminated>>

\* self_request_concurrency++ >= max.
Count(t) ==
    /\ pc[t] = "count"
    /\ IF Counted(t)
       THEN /\ self_request_concurrency' = self_request_concurrency + 1
            /\ Goto(t, IF self_request_concurrency >= MaxConcurrency
                       THEN "over" ELSE "setup")
       ELSE UNCHANGED self_request_concurrency /\ Goto(t, "setup")
    /\ UNCHANGED <<self_request_uri, curls, way, parent, history, terminated>>

\* A request over the limit is taken back: the chain fails, the guest's fetch
\* throws to its own handler.
Over(t) ==
    /\ pc[t] = "over"
    /\ self_request_concurrency' = self_request_concurrency - 1
    /\ IF way[t] = "chain"
       THEN Return(t) /\ UNCHANGED refused
       ELSE /\ Goto(t, "caught") /\ refused' = refused + 1
            /\ UNCHANGED <<way, parent>>
    /\ UNCHANGED <<self_request_uri, curls, abandoned, terminated>>

-----------------------------------------------------------------------------
(* kvm_self_request. *)

\* The cURL handle takes the socket's path or not; parsing the headers may throw
\* before there is one, into kvmbe_gethdrs.
ChainSetup(t) ==
    /\ way[t] = "chain" /\ pc[t] = "setup"
    /\ \/ /\ Goto(t, "perform")
          /\ curls' = curls + 1
          /\ UNCHANGED <<self_request_concurrency, way, parent, terminated>>
       \/ /\ self_request_uri
          /\ self_request_concurrency' = self_request_concurrency - 1
          /\ Return(t)
          /\ UNCHANGED <<curls, terminated>>
       \/ /\ terminated' = TRUE
          /\ UNCHANGED <<counters, pc, way, parent>>
    /\ UNCHANGED <<self_request_uri, history>>

\* (bug) The count is not taken back at the end.
ChainFinishKeepsCount(t) ==
    /\ way[t] = "chain" /\ pc[t] = "perform" /\ Children(t) = {}
    /\ curls' = curls - 1
    /\ Return(t)
    /\ UNCHANGED <<self_request_uri, self_request_concurrency, history, terminated>>

\* curl_easy_perform comes back, with an answer or without.
ChainFinish(t) ==
    /\ way[t] = "chain" /\ pc[t] = "perform" /\ Children(t) = {}
    /\ self_request_concurrency' = self_request_concurrency - 1
    /\ curls' = curls - 1
    /\ Return(t)
    /\ UNCHANGED <<self_request_uri, history, terminated>>

-----------------------------------------------------------------------------
(* The fetch system call. *)

\* The options the guest passed may be out of its memory, which throws; an error
\* of cURL returns to the guest at once.
GuestSetup(t) ==
    /\ way[t] = "guest" /\ pc[t] = "setup"
    /\ \/ /\ Goto(t, "perform") /\ UNCHANGED <<way, parent, abandoned>>
       \/ /\ Goto(t, "caught") /\ UNCHANGED <<way, parent, abandoned>>
       \/ /\ Return(t) /\ abandoned' = abandoned + 1
    /\ UNCHANGED <<self_request_uri, counters, refused, terminated>>

\* The answer, or the error, goes to the guest's memory, or is meant to.  Unlike
\* the chain's the fetch runs out of time, whatever became of its request.
GuestPerform(t) ==
    /\ way[t] = "guest" /\ pc[t] = "perform"
    /\ Goto(t, "clean") \/ Goto(t, "caught")
    /\ parent' = [c \in Tasks |-> IF parent[c] = t THEN None ELSE parent[c]]
    /\ UNCHANGED <<self_request_uri, counters, way, history, terminated>>

\* catch (...): only registers and guest memory.
Caught(t) ==
    /\ pc[t] = "caught"
    /\ Goto(t, "clean")
    /\ UNCHANGED <<self_request_uri, counters, way, parent, history, terminated>>

\* A fetch that was a self-request is taken off the count here, also the one that
\* was taken off when it was refused.
Clean(t) ==
    /\ pc[t] = "clean"
    /\ self_request_concurrency' =
          self_request_concurrency - (IF self_request_uri THEN 1 ELSE 0)
    /\ curls' = curls - 1
    /\ Return(t)
    /\ UNCHANGED <<self_request_uri, history, terminated>>

Step(t) ==
    \/ Count(t) \/ Over(t) \/ ChainSetup(t) \/ ChainFinish(t)
    \/ GuestSetup(t) \/ GuestPerform(t) \/ Caught(t) \/ Clean(t)

Next ==
    /\ ~terminated
    /\ \E t \in Tasks :
          \/ \E w \in {"chain", "guest"}, p \in Tasks \cup {None} : Begin(t, w, p)
          \/ Step(t)

\* Threads run, and a request that a self-request waits for makes only so many
\* self-requests of its own.
Spec ==
    /\ Init /\ [][Next]_vars
    /\ \A t \in Tasks :
          /\ WF_vars(~terminated /\ Step(t))
          /\ SF_vars(~terminated /\ ChainFinish(t))

-----------------------------------------------------------------------------
(* Properties. *)

Performing == {t \in Tasks : pc[t] = "perform" /\ Counted(t)}

\* Tasks that the counter counts, or is yet to be taken back for.
OnCount ==
    {t \in Tasks : Counted(t) /\ pc[t] \in {"over", "setup", "perform", "caught", "clean"}}
OnCurl ==
    {t \in Tasks : IF way[t] = "guest" THEN pc[t] # "idle" ELSE pc[t] = "perform"}

\* Every exit of kvm_self_request and of the fetch system call leaves the counter
\* and the cURL handles as it found them, except for two: a refused guest is
\* taken off the count twice, and one whose cURL options fail is never taken off,
\* nor is its handle freed.
CountIsExact ==
    /\ self_request_concurrency =
          Cardinality(OnCount) - refused + (IF self_request_uri THEN abandoned ELSE 0)
    /\ curls = Cardinality(OnCurl) + abandoned

\* There is "a maximum amount of concurrent self-requests": of those that the
\* counter counts there are never more at a time, as long as no guest was
\* refused.  From then on there may be one more for each that was.
LimitHolds == Cardinality(Performing) <= MaxConcurrency + refused

\* A loop of self-requests unravels: everybody in it returns, as nobody waits for
\* the limit, and what is over it fails.
Unravels == \A t \in Tasks : pc[t] # "idle" ~> (pc[t] = "idle" \/ terminated)
=============================================================================

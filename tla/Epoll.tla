------------------------------- MODULE Epoll -------------------------------
(***************************************************************************)
(* One epoll system of a program: a thread that waits for connections and  *)
(* data, reads into buffers inside its own VM, queues socket events and    *)
(* resumes the guest with all of them at the end of a batch, or earlier    *)
(* when it runs out of buffers.  Connections are registered edge-triggered:*)
(* a socket is reported once for each time something happens to it.        *)
(*                                                                         *)
(* The stream of a connection is a sequence of units; a read buffer has    *)
(* room for BufSize of them.  A connection doubles as its descriptor and   *)
(* as the virtual one of the guest.                                        *)
(***************************************************************************)
EXTENDS Integers, Sequences, FiniteSetsExt

CONSTANTS
    Conns,       \* connections that peers may open
    Requested,   \* how many events the guest has room for, its second argument
    BufSize,     \* MAX_READ_BUFFER, in units
    MaxSent,     \* bound: units sent on each connection
    Writers,     \* bound: the connections the guest writes to
    Leavers,     \* bound: the connections whose peers leave
    MaxEvents,   \* MAX_EVENTS, of one epoll_wait
    MaxFails     \* bound: resumptions of the guest that fail

ASSUME EpollAssumption ==
    /\ Requested \in Nat /\ BufSize \in Nat \ {0} /\ MaxSent \in [Conns -> Nat]
    /\ Writers \cup Leavers \subseteq Conns
    /\ MaxEvents \in Nat \ {0} /\ MaxFails \in Nat
    /\ Conns \cap {"listen", "event"} = {}

VARIABLES
    sock,     \* "none", in the "backlog", "open", or "closed" by the server
    peer,     \* of a connection: "open", has "shut" its side, or is "gone"
    sent,     \* units the peer has sent
    taken,    \* units read from the socket
    full,     \* the socket takes no more output
    waits,    \* history: output was not taken, and the guest got no event since
    ready,    \* the connection is in epoll's list of ready ones
    stalled,  \* history: a read left the socket before it was empty
    m_running, signalled, stopper,
    pc,       \* of the epoll thread
    batch,    \* events of this epoll_wait that are not handled yet
    ev,       \* the connection event being handled
    total,    \* units read for it
    queue,    \* socket events for the guest
    m_current_read_buffer,
    buf,      \* what the read buffers hold
    seen,     \* history: how much of a connection was handed to the guest
    told,     \* history: it was handed the end of the connection
    fails     \* resumptions that have failed

connVars == <<sock, peer, sent, taken, full, waits, ready, stalled>>
stopVars == <<m_running, signalled, stopper>>
taskVars == <<queue, m_current_read_buffer, buf>>
guestVars == <<seen, told>>
vars == <<connVars, stopVars, taskVars, pc, batch, ev, total, guestVars, fails>>

MAX_READ_BUFFERS == 32

NumBuffers == Max({1, Min({Requested, MAX_READ_BUFFERS})})

NoEvent == [fd |-> "event", mask |-> {}]

\* Nothing is in the buffers that the guest has yet to see.
NoContents == [i \in 1..NumBuffers |-> [fd |-> "event", lo |-> 0, hi |-> 0]]

\* Sources of events: the connections, the listening socket and the eventfd.
Sources == Conns \cup {"listen", "event"}

Backlog == {c \in Conns : sock[c] = "backlog"}

Unread(c) == sent[c] - taken[c]

TypeOK ==
    /\ sock \in [Conns -> {"none", "backlog", "open", "closed"}]
    /\ peer \in [Conns -> {"open", "shut", "gone"}]
    /\ sent \in [Conns -> Nat] /\ taken \in [Conns -> Nat]
    /\ \A c \in Conns : taken[c] <= sent[c] /\ sent[c] <= MaxSent[c]
    /\ full \in [Conns -> BOOLEAN] /\ waits \in [Conns -> BOOLEAN]
    /\ ready \in [Conns -> BOOLEAN] /\ stalled \in [Conns -> BOOLEAN]
    /\ m_running \in BOOLEAN /\ signalled \in BOOLEAN
    /\ stopper \in {"none", "write", "join", "done"}
    /\ pc \in {"head", "wait", "batch", "accept", "read", "ended", "terminated"}
    /\ batch \subseteq [fd : Sources, mask : SUBSET {"IN", "OUT", "HUP"}]
    /\ ev \in [fd : Sources, mask : SUBSET {"IN", "OUT", "HUP"}]
    /\ total \in 0..(BufSize - 1)
    /\ m_current_read_buffer \in 0..NumBuffers
    /\ queue \in Seq([fd : Conns, event : {"connected", "data", "writable", "disconnected"},
                      data : 0..NumBuffers, lo : Nat, hi : Nat])
    /\ buf \in [1..NumBuffers -> [fd : Sources, lo : Nat, hi : Nat]]
    /\ seen \in [Conns -> Nat] /\ told \in [Conns -> BOOLEAN] /\ fails \in 0..MaxFails

Init ==
    /\ sock = [c \in Conns |-> "none"] /\ peer = [c \in Conns |-> "open"]
    /\ sent = [c \in Conns |-> 0] /\ taken = [c \in Conns |-> 0]
    /\ full = [c \in Conns |-> FALSE] /\ waits = [c \in Conns |-> FALSE]
    /\ ready = [c \in Conns |-> FALSE] /\ stalled = [c \in Conns |-> FALSE]
    /\ m_running = TRUE /\ signalled = FALSE /\ stopper = "none"
    /\ pc = "head" /\ batch = {} /\ ev = NoEvent /\ total = 0
    /\ queue = <<>> /\ m_current_read_buffer = 0
    /\ buf = NoContents
    /\ seen = [c \in Conns |-> 0] /\ told = [c \in Conns |-> FALSE]
    /\ fails = 0

-----------------------------------------------------------------------------
(* Peers and the kernel. *)

Alive(c) == sock[c] \in {"backlog", "open"}

\* A connection that epoll knows becomes ready when something happens to it.
Wake(c) == ready' = [ready EXCEPT ![c] = @ \/ sock[c] = "open"]

Connect(c) ==
    /\ sock[c] = "none" /\ stopper # "done"
    /\ sock' = [sock EXCEPT ![c] = "backlog"]
    /\ UNCHANGED <<peer, sent, taken, full, waits, ready, stalled>>

Send(c) ==
    /\ Alive(c) /\ peer[c] = "open" /\ sent[c] < MaxSent[c]
    /\ sent' = [sent EXCEPT ![c] = @ + 1]
    /\ Wake(c)
    /\ UNCHANGED <<sock, peer, taken, full, waits, stalled>>

\* The peer closes one direction, or both.
Leave(c) ==
    /\ Alive(c) /\ c \in Leavers
    /\ \/ peer[c] = "open" /\ peer' = [peer EXCEPT ![c] = "shut"]
       \/ peer[c] # "gone" /\ peer' = [peer EXCEPT ![c] = "gone"]
    /\ Wake(c)
    /\ UNCHANGED <<sock, sent, taken, full, waits, stalled>>

\* The peer has taken output, and there is room for more.
Drain(c) ==
    /\ sock[c] = "open" /\ full[c]
    /\ full' = [full EXCEPT ![c] = FALSE]
    /\ Wake(c)
    /\ UNCHANGED <<sock, peer, sent, taken, waits, stalled>>

\* What a peer does makes a difference only where the thread next looks at it:
\* epoll_wait at everything, accept at the backlog, a read at its connection.
Peers ==
    /\ \/ pc = "wait" /\ \E c \in Conns : Connect(c) \/ Send(c) \/ Leave(c) \/ Drain(c)
       \/ pc = "accept" /\ \E c \in Conns : Connect(c)
       \/ pc = "read" /\ (Send(ev.fd) \/ Leave(ev.fd))
    /\ UNCHANGED <<stopVars, taskVars, pc, batch, ev, total, guestVars, fails>>

\* What epoll reports of a connection that is ready: its state at that time.
Mask(c) == (IF Unread(c) > 0 \/ peer[c] # "open" THEN {"IN"} ELSE {})
      \cup (IF ~full[c] \/ peer[c] = "gone" THEN {"OUT"} ELSE {})
      \cup (IF peer[c] = "gone" THEN {"HUP"} ELSE {})

Ready == {c \in Conns : ready[c]}
    \cup (IF Backlog # {} THEN {"listen"} ELSE {})
    \cup (IF signalled THEN {"event"} ELSE {})

EventOf(x) == [fd |-> x, mask |-> IF x \in Conns THEN Mask(x) ELSE {"IN"}]

-----------------------------------------------------------------------------
(* The end of the server, by the thread that destroys the program. *)

stop ==
    /\ stopper = "none"
    /\ m_running' = FALSE /\ stopper' = "write" /\ UNCHANGED signalled

\* (bug) Stopping only clears the flag.
NotSignalled ==
    /\ stopper = "write"
    /\ signalled' = FALSE /\ stopper' = "join" /\ UNCHANGED m_running

eventfd_write ==
    /\ stopper = "write"
    /\ signalled' = TRUE /\ stopper' = "join" /\ UNCHANGED m_running

join ==
    /\ stopper = "join" /\ pc = "ended"
    /\ stopper' = "done" /\ UNCHANGED <<m_running, signalled>>

\* The thread looks at the flag and at the eventfd only in these places.
Stopper ==
    /\ pc \in {"head", "wait", "ended"}
    /\ stop \/ eventfd_write \/ join
    /\ UNCHANGED <<connVars, taskVars, pc, batch, ev, total, guestVars, fails>>

-----------------------------------------------------------------------------
(* Resuming the guest. *)

\* Where the first k events of the queue have data of a connection.
Data(c, k) == {j \in 1..k : queue[j].fd = c /\ queue[j].event \in {"connected", "data"}}

\* Where they say that it has ended.
Ends(c, k) == {j \in 1..k : queue[j].fd = c /\ queue[j].event = "disconnected"}

\* What the guest gets with an event: the contents of the buffer at that time.
Handed(j) == buf[queue[j].data]

\* The unit of a connection that is next after these events: 0 is the greeting.
NextUnit(c, k) ==
    IF Data(c, k) = {} THEN seen[c] ELSE Handed(Max(Data(c, k))).hi + 1

\* The guest gets an event with number 2, SOCKET_WRITABLE, which the ones with
\* data have too.
Wakes(c) == \E k \in 1..Len(queue) : queue[k].fd = c /\ queue[k].event \in {"data", "writable"}

\* syscall_sockets_write: what the guest writes while it runs, to any of its
\* connections, may fill sockets.  (When nothing is written the guest is not
\* told: the descriptor stays where the count of bytes would be.)
GuestWrites ==
    \E F \in SUBSET {c \in Writers : sock[c] = "open"} :
        /\ full' = [c \in Conns |-> full[c] \/ c \in F]
        /\ waits' = [c \in Conns |-> c \in F \/ (waits[c] /\ ~Wakes(c))]

\* The events are copied into the guest, and it runs.
HandOver ==
    /\ seen' = [c \in Conns |-> NextUnit(c, Len(queue))]
    /\ told' = [c \in Conns |-> told[c] \/ Ends(c, Len(queue)) # {}]
    /\ GuestWrites

resume ==
    /\ queue # <<>>
    /\ HandOver
    /\ UNCHANGED <<sock, peer, sent, taken, ready, stalled, fails>>

\* The guest runs out of time, faults, or does not wait again; or the events
\* cannot be copied to where its RDI points, which is anywhere when it failed
\* before.
ResumeFails ==
    /\ queue # <<>> /\ fails < MaxFails
    /\ fails' = fails + 1
    /\ HandOver \/ UNCHANGED <<guestVars, full, waits>>

\* (bug) The buffers are used again before the guest has seen them.
ReusedEarly ==
    /\ m_current_read_buffer' = 0
    /\ UNCHANGED <<queue, buf, connVars, guestVars, fails>>

\* (bug) The queue is not cleared.
KeepsEvents ==
    /\ m_current_read_buffer' = 0
    /\ buf' = NoContents
    /\ UNCHANGED queue
    /\ \/ resume
       \/ queue = <<>> /\ UNCHANGED <<connVars, guestVars, fails>>

flush ==
    /\ m_current_read_buffer' = 0
    /\ queue' = <<>>
    /\ buf' = NoContents
    /\ \/ resume
       \/ queue = <<>> /\ UNCHANGED <<connVars, guestVars, fails>>

-----------------------------------------------------------------------------
(* The loop. *)

\* while (m_running)
LoopHead ==
    /\ pc = "head"
    /\ pc' = IF m_running THEN "wait" ELSE "ended"
    /\ UNCHANGED <<connVars, stopVars, taskVars, batch, ev, total, guestVars, fails>>

\* epoll_wait reports every source that is ready, up to MAX_EVENTS.
Report(S) ==
    /\ pc = "wait" /\ Ready # {}
    /\ S \subseteq Ready /\ Cardinality(S) = Min({Cardinality(Ready), MaxEvents})
    /\ batch' = {EventOf(x) : x \in S}
    /\ ready' = [c \in Conns |-> ready[c] /\ c \notin S]
    /\ pc' = "batch"
    /\ UNCHANGED <<sock, peer, sent, taken, full, waits, stalled, stopVars, taskVars,
                   ev, total, guestVars, fails>>

Wait == pc = "wait" /\ \E S \in SUBSET Ready : Report(S)

Reports(x) == pc = "wait" /\ \E S \in SUBSET Ready : x \in S /\ Report(S)

Handle(e) == batch' = batch \ {e}

AcceptBegins ==
    /\ pc = "batch"
    /\ \E e \in batch : e.fd = "listen" /\ Handle(e)
    /\ pc' = "accept"
    /\ UNCHANGED <<connVars, stopVars, taskVars, ev, total, guestVars, fails>>

AcceptEnds ==
    /\ pc = "accept" /\ Backlog = {}
    /\ pc' = "batch"
    /\ UNCHANGED <<connVars, stopVars, taskVars, batch, ev, total, guestVars, fails>>

Event(c, what, data, lo, hi) == [fd |-> c, event |-> what, data |-> data, lo |-> lo, hi |-> hi]

\* The next read buffer now holds units lo..hi of connection c.
Fill(c, lo, hi) ==
    /\ buf' = [buf EXCEPT ![m_current_read_buffer + 1] = [fd |-> c, lo |-> lo, hi |-> hi]]
    /\ m_current_read_buffer' = m_current_read_buffer + 1

\* manage and epoll_add.  The greeting takes a read buffer; when there is none
\* left at() throws out of the thread.
manage(c) ==
    /\ pc = "accept" /\ sock[c] = "backlog"
    /\ \/ /\ m_current_read_buffer < NumBuffers
          /\ Fill(c, 0, 0)
          /\ queue' = Append(queue, Event(c, "connected", m_current_read_buffer + 1, 0, 0))
          /\ \/ /\ sock' = [sock EXCEPT ![c] = "open"]
                /\ ready' = [ready EXCEPT ![c] = TRUE]
             \/ /\ sock' = [sock EXCEPT ![c] = "closed"]   \* epoll_ctl fails
                /\ UNCHANGED ready
          /\ UNCHANGED pc
       \/ /\ m_current_read_buffer >= NumBuffers
          /\ pc' = "terminated"
          /\ UNCHANGED <<sock, ready, taskVars>>
    /\ UNCHANGED <<peer, sent, taken, full, waits, stalled, stopVars, batch, ev, total, guestVars, fails>>

\* fcntl fails, and the connection is closed without a word to the guest.
ManageFails(c) ==
    /\ pc = "accept" /\ sock[c] = "backlog"
    /\ sock' = [sock EXCEPT ![c] = "closed"]
    /\ UNCHANGED <<peer, sent, taken, full, waits, ready, stalled, stopVars, taskVars,
                   pc, batch, ev, total, guestVars, fails>>

\* The eventfd: stop the server.
EventFd ==
    /\ pc = "batch"
    /\ \E e \in batch : e.fd = "event" /\ Handle(e)
    /\ signalled' = FALSE /\ m_running' = FALSE
    /\ UNCHANGED <<connVars, stopper, taskVars, pc, ev, total, guestVars, fails>>

Readable ==
    /\ pc = "batch"
    /\ \E e \in batch :
        /\ e.fd \in Conns /\ "IN" \in e.mask
        /\ ev' = e /\ Handle(e)
    /\ total' = 0 /\ pc' = "read"
    /\ UNCHANGED <<connVars, stopVars, taskVars, guestVars, fails>>

\* The event is done with.
Done == pc' = "batch" /\ ev' = NoEvent /\ total' = 0

Writable(e) == IF "OUT" \in e.mask THEN <<Event(e.fd, "writable", 0, 0, 0)>> ELSE <<>>

Hangup(c) == <<Event(c, "disconnected", 0, 0, 0)>>

\* (bug) Output that is possible again is not reported.
IgnoresOut ==
    /\ pc = "batch"
    /\ \E e \in batch :
        /\ e.fd \in Conns /\ "IN" \notin e.mask /\ Handle(e)
    /\ UNCHANGED <<connVars, stopVars, taskVars, pc, ev, total, guestVars, fails>>

\* fd_writable, for an event without input.
fd_writable ==
    /\ pc = "batch"
    /\ \E e \in batch :
        /\ e.fd \in Conns /\ "IN" \notin e.mask /\ Handle(e)
        /\ queue' = queue \o Writable(e)
    /\ UNCHANGED <<connVars, stopVars, m_current_read_buffer, buf, pc, ev, total, guestVars, fails>>

\* The read loop of fd_readable finds all buffers used.
FlushToRead ==
    /\ pc = "read" /\ m_current_read_buffer >= NumBuffers
    /\ flush
    /\ UNCHANGED <<stopVars, pc, batch, ev, total>>

\* (bug) A read handles what has arrived once, and leaves it at that.
ReadOnce ==
    LET c == ev.fd
        n == Min({Unread(c), BufSize})
    IN  /\ pc = "read" /\ m_current_read_buffer < NumBuffers /\ n > 0
        /\ taken' = [taken EXCEPT ![c] = @ + n]
        /\ Fill(c, taken[c] + 1, taken[c] + n)
        /\ queue' = Append(queue, Event(c, "data", m_current_read_buffer + 1, taken[c] + 1, taken[c] + n))
        /\ Done
        /\ UNCHANGED <<sock, peer, sent, full, waits, ready, stalled, stopVars, batch, guestVars, fails>>

\* After a read that did not empty the socket the other flags of the event are
\* looked at.
AfterRead(q) ==
    LET c == ev.fd
        gone == "HUP" \in ev.mask
    IN  /\ queue' = q \o Writable(ev) \o (IF gone THEN Hangup(c) ELSE <<>>)
        /\ sock' = [sock EXCEPT ![c] = IF gone THEN "closed" ELSE @]
        /\ ready' = [ready EXCEPT ![c] = @ /\ ~gone]
        /\ stalled' = [stalled EXCEPT ![c] = sent[c] > taken'[c] \/ peer[c] # "open"]
        /\ Done

readv ==
    LET c == ev.fd
        n == Min({Unread(c), BufSize})
        q == Append(queue, Event(c, "data", m_current_read_buffer + 1, taken[c] + 1, taken[c] + n))
    IN  /\ pc = "read" /\ m_current_read_buffer < NumBuffers /\ n > 0
        /\ taken' = [taken EXCEPT ![c] = @ + n]
        /\ Fill(c, taken[c] + 1, taken[c] + n)
        /\ \/ /\ total + n < BufSize
              /\ total' = total + n
              /\ queue' = q
              /\ UNCHANGED <<sock, ready, stalled, pc, ev>>
           \/ total + n >= BufSize /\ AfterRead(q)
        /\ UNCHANGED <<peer, sent, full, waits, stopVars, batch, guestVars, fails>>

\* readv returns EAGAIN: on to the next event, whatever else this one says.
WouldBlock ==
    /\ pc = "read" /\ m_current_read_buffer < NumBuffers
    /\ Unread(ev.fd) = 0 /\ peer[ev.fd] = "open"
    /\ stalled' = [stalled EXCEPT ![ev.fd] = FALSE]
    /\ Done
    /\ UNCHANGED <<sock, peer, sent, taken, full, waits, ready, stopVars, taskVars, batch, guestVars, fails>>

\* (bug) The end of the stream is taken for one of the errors to ignore.
IgnoresEnd ==
    /\ pc = "read" /\ m_current_read_buffer < NumBuffers
    /\ Unread(ev.fd) = 0 /\ peer[ev.fd] # "open"
    /\ Done
    /\ UNCHANGED <<connVars, stopVars, taskVars, batch, guestVars, fails>>

\* readv returns 0 or an error: hangup.
hangup ==
    LET c == ev.fd
    IN  /\ pc = "read" /\ m_current_read_buffer < NumBuffers
        /\ Unread(c) = 0 /\ peer[c] # "open"
        /\ sock' = [sock EXCEPT ![c] = "closed"]
        /\ ready' = [ready EXCEPT ![c] = FALSE]
        /\ queue' = queue \o Hangup(c)
        /\ Done
        /\ UNCHANGED <<peer, sent, taken, full, waits, stalled, stopVars, buf,
                       m_current_read_buffer, batch, guestVars, fails>>

\* A resumption fails inside fd_readable: the exception is printed, and the
\* events stay in the queue, for the next resumption to hand over again.
ReadThrows ==
    /\ pc = "read" /\ m_current_read_buffer >= NumBuffers
    /\ ResumeFails
    /\ UNCHANGED taken
    /\ AfterRead(queue)
    /\ UNCHANGED <<peer, sent, m_current_read_buffer, buf, stopVars, batch>>

\* The end of a batch.
FlushBatch ==
    /\ pc = "batch" /\ batch = {}
    /\ flush
    /\ pc' = "head"
    /\ UNCHANGED <<stopVars, batch, ev, total>>

\* A resumption fails outside of any try block.
FlushThrows ==
    /\ pc = "batch" /\ batch = {}
    /\ ResumeFails
    /\ pc' = "terminated"
    /\ UNCHANGED <<sock, peer, sent, taken, ready, stalled, stopVars, taskVars, batch, ev, total>>

Loop ==
    \/ LoopHead \/ Wait \/ AcceptBegins \/ AcceptEnds \/ EventFd \/ Readable \/ fd_writable
    \/ FlushToRead \/ readv \/ WouldBlock \/ hangup \/ ReadThrows \/ FlushBatch \/ FlushThrows
    \/ \E c \in Conns : manage(c) \/ ManageFails(c)

Next == Peers \/ Stopper \/ Loop

Spec == Init /\ [][Next]_vars

\* The thread runs, calls into the guest end (CALLBACK_TIMEOUT), the kernel
\* reports each ready source in turn, and stop() goes on.
FairSpec ==
    /\ Spec
    /\ WF_vars(Loop)
    /\ WF_vars(Stopper /\ stopper # "none")
    /\ \A x \in Sources : SF_vars(Reports(x))

-----------------------------------------------------------------------------
(* Properties. *)

\* What a read put into a buffer is still there when the guest is resumed with
\* the event that points to it: no buffer is filled twice between two resumes,
\* by another read or by the greeting of a new connection.
BuffersIntact ==
    \A k \in DOMAIN queue : LET e == queue[k] IN
        e.data # 0 => /\ e.data <= m_current_read_buffer
                      /\ buf[e.data] = [fd |-> e.fd, lo |-> e.lo, hi |-> e.hi]

\* What is queued of a connection goes on where the guest is: nothing is left
\* out, no queue has anything twice, nor does it have, while no resumption has
\* failed, what the guest has got.
InTurn(c) ==
    \A k \in Data(c, Len(queue)) :
        /\ Handed(k).fd = c /\ Handed(k).lo <= Handed(k).hi
        /\ Handed(k).lo <= NextUnit(c, k - 1)
        /\ (fails = 0 \/ Data(c, k - 1) # {}) => Handed(k).lo = NextUnit(c, k - 1)
        /\ fails = 0 => ~told[c]

EndIsLast(c) ==
    \A k \in Ends(c, Len(queue)) :
        /\ \A j \in Data(c, Len(queue)) \cup Ends(c, Len(queue)) : j <= k
        /\ fails = 0 => ~told[c]

\* And it leads up to what has happened to the connection.  (One that could not
\* be registered is closed before or after its greeting is queued.)
UpToDate(c) ==
    LET next  == NextUnit(c, Len(queue))
        ended == told[c] \/ Ends(c, Len(queue)) # {}
    IN  CASE sock[c] \in {"none", "backlog"} -> next = 0 /\ ~ended
          [] sock[c] = "open"   -> next = taken[c] + 1 /\ ~ended
          [] sock[c] = "closed" -> IF ended THEN next = taken[c] + 1 ELSE next \in {0, 1}

\* The guest is handed of every connection the greeting, each unit that was
\* read, in order, and the end last, through flushes in the middle of a batch:
\* once, until a resumption fails.  The queue of one that failed is handed over
\* again, but still nothing is left out.
ExactlyOnce == \A c \in Conns : InTurn(c) /\ EndIsLast(c) /\ UpToDate(c)

Over == stopper # "none" \/ pc = "terminated"

\* The guest is handed everything a peer sends, and is up to date in the end,
\* although sockets are reported only once for what arrives: unless fd_readable
\* stopped at its limit with something left, which nothing brings back, or was
\* cut short by a guest that failed.
DataArrives ==
    \A c \in Conns :
        (sock[c] = "open" /\ seen[c] <= sent[c]) ~> (seen[c] > sent[c] \/ stalled[c] \/ Over)

\* The loop closes every connection its peer has left, with the same exception.
ClosesConnections ==
    \A c \in Leavers :
        (sock[c] = "open" /\ peer[c] # "open") ~> (sock[c] = "closed" \/ stalled[c] \/ Over)

\* A guest that could not write everything, to whichever of its connections,
\* gets an event when there is room for more, although the loop skips EPOLLOUT
\* when a read ends with EAGAIN.  (It may have filled the socket again at once.)
WritableIsTold ==
    \A c \in Writers : (waits[c] /\ ~full[c]) ~> (~waits[c] \/ full[c] \/ sock[c] = "closed" \/ Over)

\* stop() returns, wherever the loop is when it is called.
StopReturns == (stopper # "none") ~> (stopper = "done" \/ pc = "terminated")

=============================================================================

----------------------------- MODULE EpollProofs -----------------------------
(***************************************************************************)
(* The epoll server, for any number of connections, any size and number of *)
(* buffers and any batches: what a read put into a buffer is there when    *)
(* the guest gets the event that points to it, and the guest gets all that *)
(* was read of each connection, once and in order.                         *)
(***************************************************************************)
EXTENDS Epoll, SequenceTheorems, TLAPS

\* Zenon proves most leaves; those that need arithmetic cite SMT.
USE ZenonT(30)

Events   == [fd : Sources, mask : SUBSET {"IN", "OUT", "HUP"}]
QEvents  == [fd : Conns, event : {"connected", "data", "writable", "disconnected"},
             data : 0..NumBuffers, lo : Int, hi : Int]
Contents == [fd : Sources, lo : Int, hi : Int]

ConnTypes == sent \in [Conns -> Int] /\ taken \in [Conns -> Int]

EventTypes ==
    /\ batch \subseteq Events /\ ev \in Events
    /\ pc = "read" => ev.fd \in Conns

\* The first m buffers are filled, and the events in q point to what is there.
Intact(q, b, m) ==
    /\ q \in Seq(QEvents) /\ b \in [1..NumBuffers -> Contents] /\ m \in 0..NumBuffers
    /\ \A k \in 1..Len(q) : q[k].data # 0 =>
          /\ q[k].data <= m
          /\ b[q[k].data] = [fd |-> q[k].fd, lo |-> q[k].lo, hi |-> q[k].hi]

IInv == ConnTypes /\ EventTypes /\ Intact(queue, buf, m_current_read_buffer)

\* allocate_read_buffers makes one buffer at least.
LEMMA BufferCount == NumBuffers \in Nat /\ NumBuffers >= 1
<1>1. Requested \in Nat BY EpollAssumption
<1>2. PICK m \in Nat : m = Min({Requested, MAX_READ_BUFFERS}) BY SMT, <1>1 DEF Min, MAX_READ_BUFFERS
<1>3. Max({1, m}) \in Nat /\ Max({1, m}) >= 1 BY SMT, <1>2 DEF Max
<1> QED BY <1>2, <1>3 DEF NumBuffers

\* The smaller of two.
LEMMA MinOfTwo == ASSUME NEW a \in Int, NEW b \in Int PROVE Min({a, b}) \in Int
BY SMT DEF Min

\* Events without data point to no buffer.
LEMMA MoreKeeps ==
    ASSUME NEW q, NEW b, NEW m, Intact(q, b, m), NEW more \in Seq(QEvents),
           \A k \in 1..Len(more) : more[k].data = 0
    PROVE  Intact(q \o more, b, m)
<1>0. q \in Seq(QEvents) BY DEF Intact
<1>1. /\ q \o more \in Seq(QEvents) /\ Len(q \o more) = Len(q) + Len(more)
      /\ \A i \in 1..Len(q) + Len(more) : (q \o more)[i] = IF i <= Len(q) THEN q[i] ELSE more[i - Len(q)]
  BY <1>0, ConcatProperties
<1>2. Len(q) \in Nat /\ Len(more) \in Nat BY SMT, <1>0
<1> DEFINE r == q \o more
<1> HIDE DEF r
<1>3. ASSUME NEW k \in 1..Len(r), r[k].data # 0
      PROVE  /\ r[k].data <= m
             /\ b[r[k].data] = [fd |-> r[k].fd, lo |-> r[k].lo, hi |-> r[k].hi]
  <2>1. CASE k <= Len(q)
    <3>1. k \in 1..Len(q) /\ r[k] = q[k] BY SMT, <1>1, <1>2, <2>1 DEF r
    <3> QED BY <1>3, <3>1 DEF Intact
  <2>2. CASE ~(k <= Len(q))
    <3>1. k - Len(q) \in 1..Len(more) /\ r[k] = more[k - Len(q)] BY SMT, <1>1, <1>2, <2>2 DEF r
    <3> QED BY <1>3, <3>1
  <2> QED BY <2>1, <2>2
<1> QED BY <1>1, <1>3 DEF Intact, r

\* The next buffer is filled, and the event that points to it is queued.
LEMMA FillKeeps ==
    ASSUME NEW q, NEW b, NEW m, Intact(q, b, m), m < NumBuffers,
           NEW e \in QEvents, e.data = m + 1
    PROVE  Intact(Append(q, e), [b EXCEPT ![m + 1] = [fd |-> e.fd, lo |-> e.lo, hi |-> e.hi]], m + 1)
<1>0. NumBuffers \in Nat /\ q \in Seq(QEvents) /\ m \in 0..NumBuffers BY BufferCount DEF Intact
<1>1. /\ Append(q, e) \in Seq(QEvents) /\ Len(Append(q, e)) = Len(q) + 1
      /\ \A i \in 1..Len(q) : Append(q, e)[i] = q[i]
      /\ Append(q, e)[Len(q) + 1] = e
  BY SMT, <1>0, AppendProperties
<1>2. Len(q) \in Nat /\ m + 1 \in 1..NumBuffers BY SMT, <1>0
<1> DEFINE r == Append(q, e)
           c == [b EXCEPT ![m + 1] = [fd |-> e.fd, lo |-> e.lo, hi |-> e.hi]]
<1>3. [fd |-> e.fd, lo |-> e.lo, hi |-> e.hi] \in Contents BY DEF QEvents, Contents, Sources
<1>4. /\ c \in [1..NumBuffers -> Contents]
      /\ c[m + 1] = [fd |-> e.fd, lo |-> e.lo, hi |-> e.hi]
      /\ \A i \in 1..NumBuffers : i <= m => c[i] = b[i]
  BY SMT, <1>0, <1>2, <1>3 DEF Intact
<1> HIDE DEF r, c
<1>5. ASSUME NEW k \in 1..Len(r), r[k].data # 0
      PROVE  /\ r[k].data <= m + 1
             /\ c[r[k].data] = [fd |-> r[k].fd, lo |-> r[k].lo, hi |-> r[k].hi]
  <2>1. CASE k <= Len(q)
    <3>1. k \in 1..Len(q) /\ r[k] = q[k] BY SMT, <1>1, <1>2, <2>1 DEF r
    <3>2. q[k] \in QEvents BY SMT, <1>0, <3>1
    <3>a. q[k].data \in 0..NumBuffers BY <3>2 DEF QEvents
    <3>b. q[k].data # 0 BY <1>5, <3>1
    <3>3. q[k].data \in 1..NumBuffers BY SMT, <3>a, <3>b, BufferCount
    <3>4. /\ q[k].data <= m
          /\ b[q[k].data] = [fd |-> q[k].fd, lo |-> q[k].lo, hi |-> q[k].hi]
      BY <1>5, <3>1 DEF Intact
    <3>5. c[q[k].data] = b[q[k].data] BY <1>4, <3>3, <3>4
    <3>6. q[k].data <= m + 1 BY SMT, <1>0, <3>3, <3>4
    <3> QED BY <3>1, <3>4, <3>5, <3>6
  <2>2. CASE ~(k <= Len(q))
    <3>1. r[k] = e BY SMT, <1>1, <1>2, <2>2 DEF r
    <3> QED BY SMT, <1>0, <1>4, <3>1
  <2> QED BY <2>1, <2>2
<1>6. Intact(r, c, m + 1) BY SMT, <1>1, <1>2, <1>4, <1>5 DEF Intact, r
<1> QED BY <1>6 DEF r, c

\* Resuming the guest empties the queue, and frees the buffers.
LEMMA FlushKeeps == Intact(<<>>, NoContents, 0)
<1>1. NumBuffers \in Nat BY BufferCount
<1>2. NoContents \in [1..NumBuffers -> Contents] BY SMT DEF NoContents, Contents, Sources
<1> QED BY SMT, <1>1, <1>2 DEF Intact

\* The events that fd_readable and fd_writable add at the end.
LEMMA EndingEvents ==
    ASSUME NEW e \in Events, e.fd \in Conns
    PROVE  /\ Writable(e) \in Seq(QEvents) /\ \A k \in 1..Len(Writable(e)) : Writable(e)[k].data = 0
           /\ Hangup(e.fd) \in Seq(QEvents) /\ \A k \in 1..Len(Hangup(e.fd)) : Hangup(e.fd)[k].data = 0
<1>0. NumBuffers \in Nat BY BufferCount
<1>1. ASSUME NEW what \in {"writable", "disconnected"}
      PROVE  Event(e.fd, what, 0, 0, 0) \in QEvents /\ Event(e.fd, what, 0, 0, 0).data = 0
  BY SMT, <1>0 DEF Event, QEvents
<1>2. ASSUME NEW x \in QEvents, x.data = 0
      PROVE  <<x>> \in Seq(QEvents) /\ \A k \in 1..Len(<<x>>) : <<x>>[k].data = 0
  BY SMT, <1>2
<1>3. <<>> \in Seq(QEvents) /\ \A k \in 1..Len(<<>>) : <<>>[k].data = 0 BY SMT
<1> QED BY <1>1, <1>2, <1>3 DEF Writable, Hangup

\* After a read, or a resumption that failed, fd_readable looks at the other
\* flags of the event.
LEMMA AfterReadKeeps ==
    ASSUME EventTypes, pc = "read", NEW q, NEW b, NEW m, Intact(q, b, m), AfterRead(q)
    PROVE  Intact(queue', b, m)
<1>0. ev.fd \in Conns /\ ev \in Events BY DEF EventTypes
<1>1. /\ Writable(ev) \in Seq(QEvents) /\ \A k \in 1..Len(Writable(ev)) : Writable(ev)[k].data = 0
      /\ Hangup(ev.fd) \in Seq(QEvents) /\ \A k \in 1..Len(Hangup(ev.fd)) : Hangup(ev.fd)[k].data = 0
  BY <1>0, EndingEvents
<1> DEFINE h == IF "HUP" \in ev.mask THEN Hangup(ev.fd) ELSE <<>>
<1>2. h \in Seq(QEvents) /\ \A k \in 1..Len(h) : h[k].data = 0 BY SMT, <1>1
<1>3. queue' = (q \o Writable(ev)) \o h BY DEF AfterRead
<1>4. Intact(q \o Writable(ev), b, m) BY <1>1, MoreKeeps
<1> HIDE DEF h
<1>5. Intact((q \o Writable(ev)) \o h, b, m) BY <1>2, <1>4, MoreKeeps
<1> QED BY <1>3, <1>5

\* An event with data.
LEMMA DataEvents ==
    ASSUME NEW c \in Conns, NEW what \in {"connected", "data"}, NEW m \in 0..NumBuffers,
           m < NumBuffers, NEW lo \in Int, NEW hi \in Int
    PROVE  LET e == Event(c, what, m + 1, lo, hi)
           IN  e \in QEvents /\ e.data = m + 1 /\ e.fd = c /\ e.lo = lo /\ e.hi = hi
<1>1. NumBuffers \in Nat BY BufferCount
<1>2. m + 1 \in 0..NumBuffers BY SMT, <1>1
<1> QED BY <1>2 DEF Event, QEvents

\* The peers and the thread that stops the server.
LEMMA OutsideKeeps == ASSUME IInv, Peers \/ Stopper PROVE IInv'
<1>1. UNCHANGED <<queue, buf, m_current_read_buffer, pc, batch, ev>>
  BY DEF Peers, Stopper, taskVars
<1>2. ConnTypes'
  BY SMT DEF IInv, ConnTypes, EventTypes, Peers, Stopper, Connect, Send, Leave, Drain, connVars
<1>3. EventTypes' BY <1>1 DEF IInv, EventTypes
<1> QED BY <1>1, <1>2, <1>3 DEF IInv

\* A new connection: its greeting takes a buffer.
LEMMA ManageKeeps == ASSUME IInv, NEW c \in Conns, manage(c) \/ ManageFails(c) PROVE IInv'
<1>1. UNCHANGED <<sent, taken, batch, ev>> /\ pc' \in {pc, "terminated"}
  BY DEF manage, ManageFails
<1>2. ConnTypes' /\ EventTypes' BY <1>1 DEF IInv, ConnTypes, EventTypes
<1>3. CASE UNCHANGED taskVars BY <1>2, <1>3 DEF IInv, taskVars
<1>4. CASE /\ m_current_read_buffer < NumBuffers
           /\ Fill(c, 0, 0)
           /\ queue' = Append(queue, Event(c, "connected", m_current_read_buffer + 1, 0, 0))
  <2> DEFINE e == Event(c, "connected", m_current_read_buffer + 1, 0, 0)
  <2>1. m_current_read_buffer \in 0..NumBuffers BY DEF IInv, Intact
  <2>2. e \in QEvents /\ e.data = m_current_read_buffer + 1 /\ e.fd = c /\ e.lo = 0 /\ e.hi = 0
    BY SMT, <1>4, <2>1, DataEvents
  <2> HIDE DEF e
  <2>3. Intact(Append(queue, e),
               [buf EXCEPT ![m_current_read_buffer + 1] = [fd |-> e.fd, lo |-> e.lo, hi |-> e.hi]],
               m_current_read_buffer + 1)
    BY <1>4, <2>2, FillKeeps DEF IInv
  <2>4. /\ queue' = Append(queue, e) /\ m_current_read_buffer' = m_current_read_buffer + 1
        /\ buf' = [buf EXCEPT ![m_current_read_buffer + 1] = [fd |-> e.fd, lo |-> e.lo, hi |-> e.hi]]
    BY <1>4, <2>2 DEF Fill, e
  <2>5. Intact(queue', buf', m_current_read_buffer') BY <2>3, <2>4
  <2> QED BY <1>2, <2>5 DEF IInv
<1> QED BY <1>3, <1>4 DEF manage, ManageFails

\* A read of fd_readable.
LEMMA ReadKeeps == ASSUME IInv, readv PROVE IInv'
<1> DEFINE c == ev.fd
           n == Min({Unread(c), BufSize})
           e == Event(c, "data", m_current_read_buffer + 1, taken[c] + 1, taken[c] + n)
<1>1. pc = "read" /\ c \in Conns /\ ev \in Events BY DEF IInv, EventTypes, readv
<1>2. taken[c] \in Int /\ n \in Int
  <2>1. Unread(c) \in Int /\ BufSize \in Int BY SMT, <1>1, EpollAssumption DEF IInv, ConnTypes, Unread
  <2> QED BY <1>1, <2>1, MinOfTwo DEF IInv, ConnTypes
<1>3. m_current_read_buffer \in 0..NumBuffers /\ m_current_read_buffer < NumBuffers
  BY DEF IInv, Intact, readv
<1>4. /\ taken' = [taken EXCEPT ![c] = @ + n]
      /\ Fill(c, taken[c] + 1, taken[c] + n)
      /\ UNCHANGED <<sent, batch>>
      /\ \/ queue' = Append(queue, e) /\ UNCHANGED <<pc, ev>>
         \/ AfterRead(Append(queue, e))
  BY DEF readv
<1>5. e \in QEvents /\ e.data = m_current_read_buffer + 1 /\ e.fd = c
      /\ e.lo = taken[c] + 1 /\ e.hi = taken[c] + n
  <2>1. taken[c] + 1 \in Int /\ taken[c] + n \in Int BY SMT, <1>2
  <2> HIDE DEF n
  <2> QED BY SMT, <1>1, <1>3, <2>1, DataEvents
<1> DEFINE b == [buf EXCEPT ![m_current_read_buffer + 1] = [fd |-> e.fd, lo |-> e.lo, hi |-> e.hi]]
<1>6. Intact(Append(queue, e), b, m_current_read_buffer + 1)
  <2> HIDE DEF e
  <2> QED BY <1>3, <1>5, FillKeeps DEF IInv
<1>7. buf' = b /\ m_current_read_buffer' = m_current_read_buffer + 1 BY <1>4, <1>5 DEF Fill
<1>8. ConnTypes' BY SMT, <1>1, <1>2, <1>4 DEF IInv, ConnTypes
<1> HIDE DEF c, n, e, b
<1>9. CASE queue' = Append(queue, e) /\ UNCHANGED <<pc, ev>>
  <2>1. EventTypes' BY <1>4, <1>9 DEF IInv, EventTypes
  <2>2. Intact(queue', buf', m_current_read_buffer') BY <1>6, <1>7, <1>9
  <2> QED BY <1>8, <2>1, <2>2 DEF IInv
<1>10. CASE AfterRead(Append(queue, e))
  <2>1. Intact(queue', b, m_current_read_buffer + 1) BY <1>1, <1>6, <1>10, AfterReadKeeps DEF IInv
  <2>2. EventTypes' BY <1>4, <1>10 DEF IInv, EventTypes, AfterRead, Done, NoEvent, Events, Sources
  <2> QED BY <1>7, <1>8, <2>1, <2>2 DEF IInv
<1> QED BY <1>4, <1>9, <1>10

\* The other steps of fd_readable and fd_writable.
LEMMA EventKeeps ==
    ASSUME IInv, fd_writable \/ hangup \/ WouldBlock \/ ReadThrows \/ FlushToRead PROVE IInv'
<1>1. CASE fd_writable
  <2>1. PICK e \in batch : e.fd \in Conns /\ queue' = queue \o Writable(e) /\ Handle(e)
    BY <1>1 DEF fd_writable
  <2>2. e \in Events BY <2>1 DEF IInv, EventTypes
  <2>3. Intact(queue \o Writable(e), buf, m_current_read_buffer)
    BY <2>1, <2>2, EndingEvents, MoreKeeps DEF IInv
  <2>4. UNCHANGED <<buf, m_current_read_buffer, sent, taken, pc, ev>> /\ batch' \subseteq batch
    BY <1>1, <2>1 DEF fd_writable, connVars, Handle
  <2> QED BY <2>1, <2>3, <2>4 DEF IInv, ConnTypes, EventTypes
<1>2. CASE hangup
  <2>1. pc = "read" /\ ev.fd \in Conns /\ ev \in Events BY <1>2 DEF IInv, EventTypes, hangup
  <2>2. Intact(queue \o Hangup(ev.fd), buf, m_current_read_buffer)
    BY <2>1, EndingEvents, MoreKeeps DEF IInv
  <2>3. queue' = queue \o Hangup(ev.fd) /\ UNCHANGED <<buf, m_current_read_buffer, sent, taken, batch>>
        /\ pc' = "batch" /\ ev' = NoEvent
    BY <1>2 DEF hangup, Done
  <2>4. NoEvent \in Events BY DEF NoEvent, Events, Sources
  <2> QED BY <2>2, <2>3, <2>4 DEF IInv, ConnTypes, EventTypes
<1>3. CASE WouldBlock
  <2>1. NoEvent \in Events BY DEF NoEvent, Events, Sources
  <2> QED BY <1>3, <2>1 DEF IInv, ConnTypes, EventTypes, WouldBlock, Done, taskVars
<1>4. CASE ReadThrows
  <2>1. pc = "read" /\ AfterRead(queue) /\ UNCHANGED <<buf, m_current_read_buffer, sent, taken, batch>>
    BY <1>4 DEF ReadThrows
  <2>2. Intact(queue', buf, m_current_read_buffer) BY <2>1, AfterReadKeeps DEF IInv
  <2>3. EventTypes' BY <2>1 DEF IInv, EventTypes, AfterRead, Done, NoEvent, Events, Sources
  <2> QED BY <2>1, <2>2, <2>3 DEF IInv, ConnTypes
<1>5. CASE FlushToRead
  <2>1. /\ queue' = <<>> /\ m_current_read_buffer' = 0 /\ buf' = NoContents
        /\ UNCHANGED <<sent, taken, pc, batch, ev>>
    BY <1>5 DEF FlushToRead, flush, resume, connVars
  <2> QED BY <2>1, FlushKeeps DEF IInv, ConnTypes, EventTypes
<1> QED BY <1>1, <1>2, <1>3, <1>4, <1>5

\* The loop around them.
LEMMA LoopKeeps ==
    ASSUME IInv, LoopHead \/ Wait \/ AcceptBegins \/ AcceptEnds \/ EventFd \/ Readable
                 \/ FlushBatch \/ FlushThrows
    PROVE  IInv'
<1>1. CASE LoopHead \/ AcceptBegins \/ AcceptEnds \/ EventFd \/ FlushThrows
  <2>1. /\ UNCHANGED <<queue, buf, m_current_read_buffer, sent, taken, ev>> /\ batch' \subseteq batch
        /\ pc' \in {"wait", "ended", "accept", "batch", "terminated"}
    BY <1>1 DEF LoopHead, AcceptBegins, AcceptEnds, EventFd, FlushThrows, ResumeFails, Handle,
                taskVars, connVars
  <2> QED BY <2>1 DEF IInv, ConnTypes, EventTypes
<1>2. CASE Wait
  <2>1. PICK S \in SUBSET Ready : Report(S) BY <1>2 DEF Wait
  <2>2. ASSUME NEW x \in Ready PROVE EventOf(x) \in Events
    <3>1. x \in Sources BY DEF Ready, Sources
    <3>2. x \in Conns => Mask(x) \in SUBSET {"IN", "OUT", "HUP"} BY DEF Mask
    <3> QED BY <3>1, <3>2 DEF EventOf, Events
  <2>3. batch' \subseteq Events BY <2>1, <2>2 DEF Report
  <2>4. UNCHANGED <<queue, buf, m_current_read_buffer, sent, taken, ev>> /\ pc' = "batch"
    BY <2>1 DEF Report, taskVars
  <2> QED BY <2>3, <2>4 DEF IInv, ConnTypes, EventTypes
<1>3. CASE Readable
  <2>1. PICK e \in batch : e.fd \in Conns /\ ev' = e /\ batch' = batch \ {e}
    BY <1>3 DEF Readable, Handle
  <2>2. UNCHANGED <<queue, buf, m_current_read_buffer, sent, taken>>
    BY <1>3 DEF Readable, taskVars, connVars
  <2> QED BY <2>1, <2>2 DEF IInv, ConnTypes, EventTypes
<1>4. CASE FlushBatch
  <2>1. /\ queue' = <<>> /\ m_current_read_buffer' = 0 /\ buf' = NoContents
        /\ UNCHANGED <<sent, taken, batch, ev>> /\ pc' = "head"
    BY <1>4 DEF FlushBatch, flush, resume, connVars
  <2> QED BY <2>1, FlushKeeps DEF IInv, ConnTypes, EventTypes
<1> QED BY <1>1, <1>2, <1>3, <1>4

\* The server starts with an empty queue.
LEMMA StartsIntact == Init => IInv
<1> SUFFICES ASSUME Init PROVE IInv OBVIOUS
<1>1. ConnTypes /\ EventTypes
  BY SMT DEF Init, ConnTypes, EventTypes, NoEvent, Events, Sources
<1>2. Intact(queue, buf, m_current_read_buffer) BY FlushKeeps DEF Init
<1> QED BY <1>1, <1>2 DEF IInv

\* Every step of the server and around it.
LEMMA StepsKeep == ASSUME IInv, [Next]_vars PROVE IInv'
<1>1. CASE Next
  BY <1>1, OutsideKeeps, ManageKeeps, ReadKeeps, EventKeeps, LoopKeeps DEF Next, Loop
<1>2. CASE UNCHANGED vars
  BY <1>2 DEF IInv, ConnTypes, EventTypes, vars, connVars, taskVars
<1> QED BY <1>1, <1>2

\* What a read put into a buffer is still there when the guest is resumed with
\* the event that points to it, whatever fd_readable, manage and the flushes in
\* between do, and whichever resumptions fail.
THEOREM BuffersStayIntact == Spec => []BuffersIntact
<1>1. IInv => BuffersIntact
  <2> SUFFICES ASSUME IInv PROVE BuffersIntact OBVIOUS
  <2>1. DOMAIN queue = 1..Len(queue) BY SMT DEF IInv, Intact
  <2> QED BY <2>1 DEF IInv, Intact, BuffersIntact
<1> QED BY <1>1, StartsIntact, StepsKeep, PTL DEF Spec

-----------------------------------------------------------------------------
(* What the guest gets of each connection. *)

\* Where q has data of a connection among its first k events, where the end,
\* and the next unit after them, by what the events themselves say.
DataOf(q, c, k) == {j \in 1..k : q[j].fd = c /\ q[j].event \in {"connected", "data"}}
EndsOf(q, c, k) == {j \in 1..k : q[j].fd = c /\ q[j].event = "disconnected"}
NextOf(q, s, c, k) == IF DataOf(q, c, k) = {} THEN s ELSE q[Max(DataOf(q, c, k))].hi + 1

\* The data among the first events of a queue has a last piece, wherever it is cut.
HasLast(q, c) == \A k \in 0..Len(q) : DataOf(q, c, k) # {} => Max(DataOf(q, c, k)) \in DataOf(q, c, k)

\* Data k of a queue, for a guest that has got s units, and the end if t, after
\* f failed resumptions: nothing is left out, and nothing comes again that is
\* in the queue or, when none has failed, that the guest has got.
Fits(q, s, t, f, c, k) ==
    /\ q[k].data # 0 /\ q[k].lo <= q[k].hi /\ q[k].lo <= NextOf(q, s, c, k - 1)
    /\ (f = 0 \/ DataOf(q, c, k - 1) # {}) => q[k].lo = NextOf(q, s, c, k - 1)
    /\ f = 0 => ~t

\* Such a guest gets with q the units up to n, in order; then it has got the
\* end if e.  (All data is from before n: so a guest that gets q again, after
\* it has seen n, misses nothing.)
InOrder(q, s, t, f, c, n, e) ==
    /\ HasLast(q, c)
    /\ \A k \in DataOf(q, c, Len(q)) : Fits(q, s, t, f, c, k) /\ q[k].hi < n
    /\ \A k \in EndsOf(q, c, Len(q)) :
          (f = 0 => ~t) /\ \A j \in DataOf(q, c, Len(q)) \cup EndsOf(q, c, Len(q)) : j <= k
    /\ n = NextOf(q, s, c, Len(q))
    /\ e <=> (t \/ EndsOf(q, c, Len(q)) # {})

\* What a guest has to get of a connection in state s, of which k units are read.
Expected(s, k, n, e) ==
    /\ s \in {"none", "backlog"} => n = 0 /\ ~e
    /\ s = "open" => n = k + 1 /\ ~e
    /\ s = "closed" => IF e THEN n = k + 1 ELSE n \in {0, 1}

Gets(q, s, t, f, c, state, k) ==
    \E n \in Int, e \in BOOLEAN : InOrder(q, s, t, f, c, n, e) /\ Expected(state, k, n, e)

Whole(c) == Gets(queue, seen[c], told[c], fails, c, sock[c], taken[c])

\* The connections that epoll reports are open, and each is in a batch once.
OpenInv ==
    /\ sock \in [Conns -> {"none", "backlog", "open", "closed"}]
    /\ ready \in [Conns -> BOOLEAN] /\ \A c \in Conns : ready[c] => sock[c] = "open"
    /\ \A c \in Conns : sock[c] \in {"none", "backlog"} => taken[c] = 0
    /\ \A x \in batch : x.fd \in Conns => sock[x.fd] = "open"
    /\ \A x, y \in batch : x.fd = y.fd => x = y
    /\ pc = "read" => sock[ev.fd] = "open" /\ \A x \in batch : x.fd # ev.fd

OInv == IInv /\ OpenInv /\ fails \in Nat /\ \A c \in Conns : Whole(c)

\* One more event changes nothing about the ones before it.
LEMMA SamePrefix ==
    ASSUME NEW q \in Seq(QEvents), NEW e \in QEvents, NEW c, NEW s, NEW k \in 0..Len(q)
    PROVE  /\ DataOf(Append(q, e), c, k) = DataOf(q, c, k)
           /\ EndsOf(Append(q, e), c, k) = EndsOf(q, c, k)
           /\ HasLast(q, c) => NextOf(Append(q, e), s, c, k) = NextOf(q, s, c, k)
<1> DEFINE r == Append(q, e)
<1>1. Len(q) \in Nat /\ \A i \in 1..Len(q) : r[i] = q[i] BY SMT, AppendProperties
<1> HIDE DEF r
<1>2. \A i \in 1..k : r[i] = q[i] BY SMT, <1>1
<1>3. DataOf(r, c, k) = DataOf(q, c, k) /\ EndsOf(r, c, k) = EndsOf(q, c, k)
  BY <1>2 DEF DataOf, EndsOf
<1>4. ASSUME HasLast(q, c) PROVE NextOf(r, s, c, k) = NextOf(q, s, c, k)
  <2>1. CASE DataOf(q, c, k) = {} BY <1>3, <2>1 DEF NextOf
  <2>2. CASE DataOf(q, c, k) # {}
    <3>1. Max(DataOf(q, c, k)) \in DataOf(q, c, k) BY <1>4, <2>2 DEF HasLast
    <3>2. r[Max(DataOf(q, c, k))] = q[Max(DataOf(q, c, k))] BY <1>2, <3>1 DEF DataOf
    <3> QED BY <1>3, <3>2 DEF NextOf
  <2> QED BY <2>1, <2>2
<1> QED BY <1>3, <1>4 DEF r

\* What one more event adds.
LEMMA OneMore ==
    ASSUME NEW q \in Seq(QEvents), NEW e \in QEvents, NEW c
    PROVE  LET r == Append(q, e)
               l == Len(q) + 1
           IN  /\ r \in Seq(QEvents) /\ Len(r) = l /\ r[l] = e /\ l \in Nat
               /\ IF e.fd = c /\ e.event \in {"connected", "data"}
                  THEN DataOf(r, c, l) = DataOf(q, c, Len(q)) \cup {l}
                  ELSE DataOf(r, c, l) = DataOf(q, c, Len(q))
               /\ IF e.fd = c /\ e.event = "disconnected"
                  THEN EndsOf(r, c, l) = EndsOf(q, c, Len(q)) \cup {l}
                  ELSE EndsOf(r, c, l) = EndsOf(q, c, Len(q))
<1> DEFINE r == Append(q, e)
           l == Len(q) + 1
<1>1. /\ Len(q) \in Nat /\ r \in Seq(QEvents) /\ Len(r) = l /\ r[l] = e
      /\ \A i \in 1..Len(q) : r[i] = q[i]
  BY SMT, AppendProperties
<1>2. l \in Nat /\ 1..l = (1..Len(q)) \cup {l} BY SMT, <1>1
<1> HIDE DEF r, l
<1>3. IF e.fd = c /\ e.event \in {"connected", "data"}
      THEN DataOf(r, c, l) = DataOf(q, c, Len(q)) \cup {l}
      ELSE DataOf(r, c, l) = DataOf(q, c, Len(q))
  BY <1>1, <1>2 DEF DataOf
<1>4. IF e.fd = c /\ e.event = "disconnected"
      THEN EndsOf(r, c, l) = EndsOf(q, c, Len(q)) \cup {l}
      ELSE EndsOf(r, c, l) = EndsOf(q, c, Len(q))
  BY <1>1, <1>2 DEF EndsOf
<1> QED BY <1>1, <1>2, <1>3, <1>4 DEF r, l

\* An event of another connection, or one without data, changes nothing.
LEMMA OthersKeep ==
    ASSUME NEW q \in Seq(QEvents), NEW e \in QEvents, NEW s, NEW t, NEW f, NEW c, NEW n, NEW x,
           InOrder(q, s, t, f, c, n, x), e.fd # c \/ e.event = "writable"
    PROVE  InOrder(Append(q, e), s, t, f, c, n, x)
<1> DEFINE r == Append(q, e)
           l == Len(q) + 1
<1>1. /\ Len(r) = l /\ DataOf(r, c, l) = DataOf(q, c, Len(q))
      /\ EndsOf(r, c, l) = EndsOf(q, c, Len(q)) /\ l \in Nat
  BY ZenonT(90), OneMore
<1>2. Len(q) \in Nat /\ \A i \in 1..Len(q) : r[i] = q[i] BY SMT, AppendProperties
<1>3. ASSUME NEW k \in 0..Len(q)
      PROVE  DataOf(r, c, k) = DataOf(q, c, k) /\ NextOf(r, s, c, k) = NextOf(q, s, c, k)
  BY ZenonT(90), SamePrefix DEF InOrder
<1>4. Len(q) \in 0..Len(q) BY SMT, <1>2
<1> HIDE DEF r
<1>5. ASSUME NEW k \in DataOf(q, c, Len(q)) PROVE k \in 1..Len(q) /\ k - 1 \in 0..Len(q) /\ r[k] = q[k]
  BY SMT, <1>2 DEF DataOf
<1>6. NextOf(r, s, c, l) = NextOf(q, s, c, Len(q))
  <2>1. NextOf(r, s, c, l) = NextOf(r, s, c, Len(q)) BY <1>1, <1>3, <1>4 DEF NextOf
  <2> QED BY <1>3, <1>4, <2>1
<1>7. ASSUME NEW k \in 0..l, DataOf(r, c, k) # {} PROVE Max(DataOf(r, c, k)) \in DataOf(r, c, k)
  <2>1. k \in 0..Len(q) \/ k = l BY SMT, <1>2
  <2> QED BY <1>1, <1>3, <1>4, <1>7, <2>1 DEF InOrder, HasLast
<1>8. HasLast(r, c) BY <1>1, <1>7 DEF HasLast
<1>9. \A k \in DataOf(r, c, l) : Fits(r, s, t, f, c, k) /\ r[k].hi < n
  BY <1>1, <1>3, <1>5 DEF InOrder, Fits
<1> HIDE DEF l
<1> QED BY <1>1, <1>6, <1>8, <1>9 DEF InOrder, r

\* The next units of a connection.
LEMMA DataAdds ==
    ASSUME NEW q \in Seq(QEvents), NEW e \in QEvents, NEW s, NEW t, NEW f, NEW n \in Int, NEW x,
           InOrder(q, s, t, f, e.fd, n, x), ~x,
           e.event \in {"connected", "data"}, e.data # 0, e.lo = n, e.lo <= e.hi
    PROVE  InOrder(Append(q, e), s, t, f, e.fd, e.hi + 1, x)
<1> DEFINE r == Append(q, e)
           l == Len(q) + 1
           c == e.fd
<1>1. /\ Len(r) = l /\ DataOf(r, c, l) = DataOf(q, c, Len(q)) \cup {l} /\ r[l] = e
      /\ EndsOf(r, c, l) = EndsOf(q, c, Len(q)) /\ l \in Nat
  BY OneMore
<1>2. Len(q) \in Nat /\ \A i \in 1..Len(q) : r[i] = q[i] BY SMT, AppendProperties
<1>3. ASSUME NEW k \in 0..Len(q)
      PROVE  DataOf(r, c, k) = DataOf(q, c, k) /\ NextOf(r, s, c, k) = NextOf(q, s, c, k)
  <2>1. HasLast(q, c) BY DEF InOrder
  <2> HIDE DEF c, r
  <2>2. r = Append(q, e) BY DEF r
  <2> QED BY ZenonT(90), <2>1, <2>2, SamePrefix
<1>4. Len(q) \in 0..Len(q) BY SMT, <1>2
<1>5. ~t /\ EndsOf(q, c, Len(q)) = {} BY DEF InOrder
<1>a. n = NextOf(q, s, c, Len(q)) BY DEF InOrder
<1> HIDE DEF r
<1>6. ASSUME NEW k \in DataOf(q, c, Len(q)) PROVE k \in 1..Len(q) /\ k - 1 \in 0..Len(q) /\ r[k] = q[k]
  BY SMT, <1>2 DEF DataOf
<1>7. Max(DataOf(r, c, l)) = l
  <2>1. \A k \in DataOf(r, c, l) : k \in Nat /\ l >= k BY SMT, <1>1, <1>2, <1>6
  <2>2. l \in DataOf(r, c, l) BY <1>1
  <2> HIDE DEF l
  <2> QED BY SMT, <2>1, <2>2, <1>1 DEF Max
<1>8. NextOf(r, s, c, l) = e.hi + 1 BY <1>1, <1>7 DEF NextOf
<1>9. ASSUME NEW k \in 0..l, DataOf(r, c, k) # {} PROVE Max(DataOf(r, c, k)) \in DataOf(r, c, k)
  <2>1. k \in 0..Len(q) \/ k = l BY SMT, <1>2
  <2> QED BY <1>1, <1>3, <1>7, <1>9, <2>1 DEF InOrder, HasLast
<1>10. HasLast(r, c) BY <1>1, <1>9 DEF HasLast
<1>11. l - 1 = Len(q) BY SMT, <1>2
<1>12. ASSUME NEW k \in DataOf(r, c, l)
       PROVE  Fits(r, s, t, f, c, k) /\ r[k].hi < e.hi + 1
  <2>0. e.lo \in Int /\ e.hi \in Int BY SMT DEF QEvents
  <2>1. CASE k = l
    <3>1. NextOf(r, s, c, k - 1) = n BY <1>3, <1>4, <1>11, <1>a, <2>1
    <3>2. n <= n /\ e.hi < e.hi + 1 BY SMT, <2>0
    <3> QED BY <1>1, <1>5, <2>1, <3>1, <3>2 DEF Fits
  <2>2. CASE k \in DataOf(q, c, Len(q))
    <3>1. Fits(q, s, t, f, c, k) /\ q[k].hi < n BY <2>2 DEF InOrder
    <3>0. q[k] \in QEvents BY SMT, <1>6, <2>2
    <3>2. q[k].hi \in Int BY SMT, <3>0 DEF QEvents
    <3>3. q[k].hi < e.hi + 1 BY SMT, <2>0, <3>1, <3>2
    <3> QED BY <1>3, <1>6, <2>2, <3>1, <3>3 DEF Fits
  <2> QED BY <1>1, <2>1, <2>2
<1> HIDE DEF l
<1> QED BY <1>1, <1>5, <1>8, <1>10, <1>12 DEF InOrder, r

\* The end of a connection, which comes last.
LEMMA EndAdds ==
    ASSUME NEW q \in Seq(QEvents), NEW e \in QEvents, NEW s, NEW t, NEW f, NEW n, NEW x,
           InOrder(q, s, t, f, e.fd, n, x), ~x, e.event = "disconnected"
    PROVE  InOrder(Append(q, e), s, t, f, e.fd, n, TRUE)
<1> DEFINE r == Append(q, e)
           l == Len(q) + 1
           c == e.fd
<1>1. /\ Len(r) = l /\ DataOf(r, c, l) = DataOf(q, c, Len(q))
      /\ EndsOf(r, c, l) = EndsOf(q, c, Len(q)) \cup {l} /\ l \in Nat
  BY OneMore
<1>2. Len(q) \in Nat /\ \A i \in 1..Len(q) : r[i] = q[i] BY SMT, AppendProperties
<1>3. ASSUME NEW k \in 0..Len(q)
      PROVE  DataOf(r, c, k) = DataOf(q, c, k) /\ NextOf(r, s, c, k) = NextOf(q, s, c, k)
  <2>1. HasLast(q, c) BY DEF InOrder
  <2> HIDE DEF c, r
  <2>2. r = Append(q, e) BY DEF r
  <2> QED BY ZenonT(90), <2>1, <2>2, SamePrefix
<1>4. Len(q) \in 0..Len(q) BY SMT, <1>2
<1>5. ~t /\ EndsOf(q, c, Len(q)) = {} BY DEF InOrder
<1> HIDE DEF r
<1>6. ASSUME NEW k \in DataOf(q, c, Len(q))
      PROVE  k \in 1..Len(q) /\ k - 1 \in 0..Len(q) /\ r[k] = q[k] /\ k <= l
  BY SMT, <1>2 DEF DataOf
<1>7. NextOf(r, s, c, l) = NextOf(q, s, c, Len(q))
  <2>1. NextOf(r, s, c, l) = NextOf(r, s, c, Len(q)) BY <1>1, <1>3, <1>4 DEF NextOf
  <2> QED BY <1>3, <1>4, <2>1
<1>8. ASSUME NEW k \in 0..l, DataOf(r, c, k) # {} PROVE Max(DataOf(r, c, k)) \in DataOf(r, c, k)
  <2>1. k \in 0..Len(q) \/ k = l BY SMT, <1>2
  <2> QED BY <1>1, <1>3, <1>4, <1>8, <2>1 DEF InOrder, HasLast
<1>9. HasLast(r, c) BY <1>1, <1>8 DEF HasLast
<1>10. \A k \in DataOf(r, c, l) : Fits(r, s, t, f, c, k) /\ r[k].hi < n
  BY <1>1, <1>3, <1>6 DEF InOrder, Fits
<1>11. l <= l BY SMT, <1>1
<1>12. ASSUME NEW k \in EndsOf(r, c, l)
       PROVE  (f = 0 => ~t) /\ \A j \in DataOf(r, c, l) \cup EndsOf(r, c, l) : j <= k
  <2>1. k = l BY <1>1, <1>5
  <2>2. ASSUME NEW j \in DataOf(r, c, l) \cup EndsOf(r, c, l) PROVE j <= l
    <3>1. j \in DataOf(q, c, Len(q)) \/ j = l BY <1>1, <1>5
    <3> QED BY <1>6, <1>11, <3>1
  <2> QED BY <1>5, <2>1, <2>2
<1>13. EndsOf(r, c, l) # {} BY <1>1
<1> HIDE DEF l
<1> QED BY <1>1, <1>7, <1>9, <1>10, <1>12, <1>13 DEF InOrder, r

\* A guest that has been resumed has got everything.
LEMMA NothingQueued == ASSUME NEW f, NEW c, NEW n, NEW x PROVE InOrder(<<>>, n, x, f, c, n, x)
<1>1. Len(<<>>) = 0 /\ 1..0 = {} BY SMT
<1>2. DataOf(<<>>, c, 0) = {} /\ EndsOf(<<>>, c, 0) = {} BY <1>1 DEF DataOf, EndsOf
<1>3. HasLast(<<>>, c)
  <2>1. \A k \in 0..0 : k = 0 BY SMT
  <2> QED BY <1>1, <1>2, <2>1 DEF HasLast
<1> QED BY <1>1, <1>2, <1>3 DEF InOrder, NextOf

\* A queue that is handed over in vain is still there, and may be handed over
\* again: whether or not the guest has seen it, it misses nothing.
LEMMA HandedAgain ==
    ASSUME NEW q \in Seq(QEvents), NEW s, NEW t, NEW f, NEW g, NEW c, NEW n \in Int,
           NEW x \in BOOLEAN, InOrder(q, s, t, f, c, n, x), g # 0
    PROVE  InOrder(q, s, t, g, c, n, x) /\ InOrder(q, n, x, g, c, n, x)
<1>1. InOrder(q, s, t, g, c, n, x) BY DEF InOrder, Fits
<1>2. ASSUME NEW k PROVE NextOf(q, n, c, k) = IF DataOf(q, c, k) = {} THEN n ELSE NextOf(q, s, c, k)
  BY DEF NextOf
<1>3. ASSUME NEW k \in DataOf(q, c, Len(q)) PROVE Fits(q, n, x, g, c, k) /\ q[k].hi < n
  <2>1. Fits(q, s, t, f, c, k) /\ q[k].hi < n BY DEF InOrder
  <2>0. q[k] \in QEvents
    <3>1. k \in 1..Len(q) BY DEF DataOf
    <3> QED BY SMT, <3>1
  <2>2. q[k].lo \in Int /\ q[k].hi \in Int BY SMT, <2>0 DEF QEvents
  <2>3. q[k].lo <= n BY SMT, <2>1, <2>2 DEF Fits
  <2> QED BY <1>2, <2>1, <2>3 DEF Fits
<1>4. n = NextOf(q, n, c, Len(q)) BY <1>2 DEF InOrder
<1> QED BY <1>1, <1>3, <1>4 DEF InOrder

\* A queue with one more event, or none.
LEMMA ConcatOne ==
    ASSUME NEW q \in Seq(QEvents), NEW e \in QEvents
    PROVE  q \o <<e>> = Append(q, e) /\ q \o <<>> = q
BY SMT

\* The last events of fd_readable.
LEMMA EndingsAre ==
    ASSUME NEW e, NEW c \in Conns, e.fd = c
    PROVE  LET w == Event(c, "writable", 0, 0, 0)
               h == Event(c, "disconnected", 0, 0, 0)
           IN  /\ w \in QEvents /\ w.fd = c /\ w.event = "writable"
               /\ h \in QEvents /\ h.fd = c /\ h.event = "disconnected"
               /\ Writable(e) \in {<<>>, <<w>>} /\ Hangup(c) = <<h>>
<1>1. 0 \in 0..NumBuffers BY SMT, BufferCount
<1> QED BY SMT, <1>1 DEF Event, QEvents, Writable, Hangup

\* The buffers hold what the events say, so the guest gets just that.
LEMMA SameNext ==
    ASSUME NEW c, NEW m, Intact(queue, buf, m), HasLast(queue, c),
           \A k \in DataOf(queue, c, Len(queue)) : queue[k].data # 0,
           NEW k \in 0..Len(queue)
    PROVE  /\ Data(c, k) = DataOf(queue, c, k) /\ Ends(c, k) = EndsOf(queue, c, k)
           /\ NextUnit(c, k) = NextOf(queue, seen[c], c, k)
<1>1. Data(c, k) = DataOf(queue, c, k) /\ Ends(c, k) = EndsOf(queue, c, k)
  BY DEF Data, DataOf, Ends, EndsOf
<1>2. CASE DataOf(queue, c, k) = {} BY <1>1, <1>2 DEF NextUnit, NextOf
<1>3. CASE DataOf(queue, c, k) # {}
  <2> DEFINE j == Max(DataOf(queue, c, k))
  <2>1. j \in DataOf(queue, c, k) BY <1>3 DEF HasLast
  <2> HIDE DEF j
  <2>2. Len(queue) \in Nat BY SMT DEF Intact
  <2>3. \A i \in 1..k : i \in 1..Len(queue) BY SMT, <2>2
  <2>4. j \in 1..Len(queue) /\ queue[j].data # 0 BY <2>1, <2>3 DEF DataOf
  <2>5. buf[queue[j].data] = [fd |-> queue[j].fd, lo |-> queue[j].lo, hi |-> queue[j].hi]
    BY <2>4 DEF Intact
  <2>6. buf[queue[j].data].hi = queue[j].hi BY SMT, <2>5
  <2> QED BY <1>1, <1>3, <2>6 DEF NextUnit, NextOf, Handed, j
<1> QED BY <1>1, <1>2, <1>3

\* What the peers, the thread that stops the server and the loop do to the
\* connections: only the one that is being read is closed.
LEMMA OpenOutside == ASSUME IInv, OpenInv, Peers \/ Stopper PROVE OpenInv'
<1>1. UNCHANGED <<taken, pc, batch, ev>> BY DEF Peers, Stopper, connVars, Connect, Send, Leave, Drain
<1>2. CASE UNCHANGED <<sock, ready>> BY <1>1, <1>2 DEF OpenInv
<1>3. ASSUME NEW c \in Conns, Connect(c) PROVE OpenInv'
  BY SMT, <1>1, <1>3 DEF OpenInv, Connect, IInv, EventTypes
<1>4. ASSUME NEW c \in Conns, UNCHANGED sock, Wake(c) PROVE OpenInv'
  <2>1. ready' \in [Conns -> BOOLEAN] /\ \A d \in Conns : ready'[d] => sock[d] = "open"
    BY <1>4 DEF OpenInv, Wake
  <2> QED BY <1>1, <1>4, <2>1 DEF OpenInv
<1>5. pc = "read" => ev.fd \in Conns BY DEF IInv, EventTypes
<1> QED BY <1>2, <1>3, <1>4, <1>5 DEF Peers, Stopper, Send, Leave, Drain, connVars

\* The same of fd_readable.
LEMMA OpenRead ==
    ASSUME IInv, OpenInv, readv \/ hangup \/ WouldBlock \/ ReadThrows
    PROVE  OpenInv'
<1> DEFINE c == ev.fd
<1>1. pc = "read" /\ c \in Conns BY DEF IInv, EventTypes, readv, hangup, WouldBlock, ReadThrows
<1>2. sock[c] = "open" /\ \A x \in batch : x.fd # c BY <1>1 DEF OpenInv
<1>3. batch' = batch BY DEF readv, hangup, WouldBlock, ReadThrows
<1>4. \A d \in Conns : d # c => taken'[d] = taken[d]
  BY DEF IInv, ConnTypes, readv, hangup, WouldBlock, ReadThrows
<1>5. CASE UNCHANGED <<sock, ready, pc, ev>> BY <1>2, <1>3, <1>4, <1>5 DEF OpenInv
<1>6. CASE UNCHANGED <<sock, ready>> /\ Done BY <1>2, <1>3, <1>4, <1>6 DEF OpenInv, Done
<1>7. CASE /\ sock' = [sock EXCEPT ![c] = "closed"] /\ ready' = [ready EXCEPT ![c] = FALSE] /\ Done
  <2>1. /\ sock' \in [Conns -> {"none", "backlog", "open", "closed"}] /\ sock'[c] = "closed"
        /\ \A d \in Conns : d # c => sock'[d] = sock[d]
    BY SMT, <1>1, <1>7 DEF OpenInv
  <2>2. /\ ready' \in [Conns -> BOOLEAN] /\ ~ready'[c] /\ \A d \in Conns : d # c => ready'[d] = ready[d]
    BY <1>1, <1>7 DEF OpenInv
  <2> HIDE DEF c
  <2> QED BY ZenonT(90), <1>2, <1>3, <1>4, <1>7, <2>1, <2>2 DEF OpenInv, Done
<1>8. ASSUME NEW q, AfterRead(q) PROVE OpenInv'
  <2>1. CASE "HUP" \in ev.mask
    <3>1. ready' = [ready EXCEPT ![c] = FALSE] BY <1>8, <2>1 DEF AfterRead
    <3> QED BY <1>7, <1>8, <2>1, <3>1 DEF AfterRead
  <2>2. CASE "HUP" \notin ev.mask
    <3>1. sock' = sock BY SMT, <1>1, <1>8, <2>2 DEF AfterRead, OpenInv
    <3>2. ready' = ready BY ZenonT(90), <1>1, <1>8, <2>2 DEF AfterRead, OpenInv
    <3> QED BY <1>6, <1>8, <3>1, <3>2 DEF AfterRead
  <2> QED BY <2>1, <2>2
<1> HIDE DEF c
<1> QED BY <1>5, <1>6, <1>7, <1>8 DEF readv, hangup, WouldBlock, ReadThrows, c

\* And of the loop around it.
LEMMA OpenLoop ==
    ASSUME IInv, OpenInv, LoopHead \/ Wait \/ AcceptBegins \/ AcceptEnds \/ EventFd \/ Readable
                 \/ fd_writable \/ FlushToRead \/ FlushBatch \/ FlushThrows
                 \/ \E c \in Conns : manage(c) \/ ManageFails(c)
    PROVE  OpenInv'
<1>1. CASE LoopHead \/ AcceptBegins \/ AcceptEnds \/ EventFd \/ fd_writable \/ FlushThrows \/ FlushBatch
  <2>1. UNCHANGED <<sock, ready, taken>> /\ batch' \subseteq batch /\ pc' # "read"
    BY <1>1 DEF LoopHead, AcceptBegins, AcceptEnds, EventFd, fd_writable, FlushThrows, FlushBatch,
                flush, resume, ResumeFails, Handle, connVars
  <2> QED BY <2>1 DEF OpenInv
<1>2. CASE FlushToRead
  <2>1. UNCHANGED <<sock, ready, taken, batch, pc, ev>>
    BY <1>2 DEF FlushToRead, flush, resume, connVars
  <2> QED BY <2>1 DEF OpenInv
<1>3. CASE Readable
  <2>1. PICK e \in batch : e.fd \in Conns /\ ev' = e /\ batch' = batch \ {e}
    BY <1>3 DEF Readable, Handle
  <2>2. UNCHANGED <<sock, ready, taken>> BY <1>3 DEF Readable, connVars
  <2> QED BY <2>1, <2>2 DEF OpenInv
<1>4. CASE Wait
  <2>1. PICK S \in SUBSET Ready : Report(S) BY <1>4 DEF Wait
  <2>2. UNCHANGED <<sock, taken>> /\ pc' = "batch" /\ batch' = {EventOf(x) : x \in S}
        /\ ready' = [c \in Conns |-> ready[c] /\ c \notin S]
    BY <2>1 DEF Report
  <2>3. ASSUME NEW x \in S PROVE EventOf(x).fd = x /\ (x \in Conns => sock[x] = "open")
    BY ZenonT(90), EpollAssumption DEF EventOf, Ready, OpenInv
  <2>4. \A e \in batch' : \E x \in S : e = EventOf(x) BY <2>2
  <2>5. /\ \A x \in batch' : x.fd \in Conns => sock[x.fd] = "open"
        /\ \A x, y \in batch' : x.fd = y.fd => x = y
    BY ZenonT(90), <2>3, <2>4
  <2>6. ready' \in [Conns -> BOOLEAN] /\ \A c \in Conns : ready'[c] => ready[c] BY <2>2
  <2> QED BY <2>2, <2>5, <2>6 DEF OpenInv
<1>5. ASSUME NEW c \in Conns, manage(c) \/ ManageFails(c) PROVE OpenInv'
  <2>1. UNCHANGED <<taken, batch, ev>> /\ pc' # "read" /\ sock[c] = "backlog"
    BY <1>5 DEF manage, ManageFails
  <2>2. \A x \in batch : x.fd # c BY <2>1 DEF OpenInv
  <2>3. \/ UNCHANGED <<sock, ready>>
        \/ sock' = [sock EXCEPT ![c] = "open"] /\ ready' = [ready EXCEPT ![c] = TRUE]
        \/ sock' = [sock EXCEPT ![c] = "closed"] /\ UNCHANGED ready
    BY <1>5 DEF manage, ManageFails
  <2>4. /\ sock' \in [Conns -> {"none", "backlog", "open", "closed"}]
        /\ sock' = sock \/ sock'[c] \in {"open", "closed"}
        /\ \A d \in Conns : d # c => sock'[d] = sock[d]
    BY SMT, <2>3 DEF OpenInv
  <2>5. ready' \in [Conns -> BOOLEAN] /\ \A d \in Conns : d # c => ready'[d] = ready[d]
    BY <2>3 DEF OpenInv
  <2>6. ready'[c] => sock'[c] = "open"
    <3>1. ~ready[c] BY <2>1 DEF OpenInv
    <3>2. CASE sock' = [sock EXCEPT ![c] = "open"] BY SMT, <3>2 DEF OpenInv
    <3> QED BY <2>3, <3>1, <3>2
  <2>7. taken[c] = 0 BY <2>1 DEF OpenInv
  <2> QED BY ZenonT(90), <2>1, <2>2, <2>4, <2>5, <2>6, <2>7 DEF OpenInv
<1> QED BY <1>1, <1>2, <1>3, <1>4, <1>5

\* Steps that hand nothing over and queue nothing.
LEMMA UnreadWhole ==
    ASSUME OInv, NEW c \in Conns, UNCHANGED <<queue, seen, told, taken, fails>>,
           \/ sock'[c] = sock[c]
           \/ sock[c] = "none" /\ sock'[c] = "backlog"
           \/ sock[c] = "backlog" /\ sock'[c] = "closed"
    PROVE  Whole(c)'
<1>1. PICK n \in Int, e \in BOOLEAN :
         InOrder(queue, seen[c], told[c], fails, c, n, e) /\ Expected(sock[c], taken[c], n, e)
  BY DEF OInv, Whole, Gets
<1>2. Expected(sock'[c], taken'[c], n, e) BY <1>1 DEF Expected
<1> QED BY <1>1, <1>2 DEF Whole, Gets

\* What the guest has seen once it is handed the queue.
LEMMA HandOverGives ==
    ASSUME OInv, HandOver, NEW c \in Conns, NEW n \in Int, NEW e \in BOOLEAN,
           InOrder(queue, seen[c], told[c], fails, c, n, e)
    PROVE  seen'[c] = n /\ told'[c] = e
<1>1. Intact(queue, buf, m_current_read_buffer) BY DEF OInv, IInv
<1>2. Len(queue) \in 0..Len(queue) BY SMT, <1>1 DEF Intact
<1>3. HasLast(queue, c) /\ \A k \in DataOf(queue, c, Len(queue)) : queue[k].data # 0
  BY DEF InOrder, Fits
<1>4. /\ NextUnit(c, Len(queue)) = NextOf(queue, seen[c], c, Len(queue))
      /\ Ends(c, Len(queue)) = EndsOf(queue, c, Len(queue))
  BY <1>1, <1>2, <1>3, SameNext
<1>5. seen'[c] = n BY <1>4 DEF HandOver, InOrder
<1>6. told'[c] = (told[c] \/ Ends(c, Len(queue)) # {}) BY DEF HandOver
<1> QED BY <1>4, <1>5, <1>6 DEF InOrder

\* A resumption that fails, before or after the guest has got the events.
LEMMA FailWhole ==
    ASSUME OInv, ResumeFails, NEW c \in Conns
    PROVE  Gets(queue, seen'[c], told'[c], fails', c, sock[c], taken[c])
<1>1. PICK n \in Int, e \in BOOLEAN :
         InOrder(queue, seen[c], told[c], fails, c, n, e) /\ Expected(sock[c], taken[c], n, e)
  BY DEF OInv, Whole, Gets
<1>2. fails' # 0 BY SMT DEF OInv, ResumeFails
<1>3. queue \in Seq(QEvents) BY DEF OInv, IInv, Intact
<1>4. /\ InOrder(queue, seen[c], told[c], fails', c, n, e)
      /\ InOrder(queue, n, e, fails', c, n, e)
  <2> DEFINE g == fails'
  <2>1. g # 0 BY <1>2
  <2> HIDE DEF g
  <2>2. InOrder(queue, seen[c], told[c], g, c, n, e) /\ InOrder(queue, n, e, g, c, n, e)
    BY SMTT(30), <1>1, <1>3, <2>1, HandedAgain
  <2> QED BY <2>2 DEF g
<1>5. \/ seen'[c] = n /\ told'[c] = e
      \/ seen'[c] = seen[c] /\ told'[c] = told[c]
  BY <1>1, HandOverGives DEF ResumeFails, guestVars
<1> QED BY <1>1, <1>4, <1>5 DEF Gets

\* The guest is resumed with the whole queue, at the end of a batch or because
\* fd_readable needs buffers.
LEMMA FlushWhole == ASSUME OInv, flush, NEW c \in Conns PROVE Whole(c)'
<1>1. UNCHANGED <<sock, taken, fails>> /\ queue' = <<>> BY DEF flush, resume, connVars
<1>2. CASE queue = <<>> /\ UNCHANGED <<connVars, guestVars, fails>>
  BY <1>1, <1>2, UnreadWhole DEF guestVars
<1>3. CASE resume
  <2>1. PICK n \in Int, e \in BOOLEAN :
           InOrder(queue, seen[c], told[c], fails, c, n, e) /\ Expected(sock[c], taken[c], n, e)
    BY DEF OInv, Whole, Gets
  <2>2. seen'[c] = n /\ told'[c] = e BY <1>3, <2>1, HandOverGives DEF resume
  <2>3. InOrder(queue', seen'[c], told'[c], fails', c, n, e) BY <1>1, <2>2, NothingQueued
  <2> QED BY <1>1, <2>1, <2>3 DEF Whole, Gets
<1> QED BY <1>2, <1>3 DEF flush

\* The events that fd_readable adds at its end.
LEMMA AfterReadWhole ==
    ASSUME OpenInv, pc = "read", ev.fd \in Conns, NEW q \in Seq(QEvents), AfterRead(q),
           NEW d \in Conns, NEW s, NEW t, NEW f, NEW k, Gets(q, s, t, f, d, sock[d], k)
    PROVE  Gets(queue', s, t, f, d, sock'[d], k)
<1> DEFINE c == ev.fd
           w == Event(c, "writable", 0, 0, 0)
           h == Event(c, "disconnected", 0, 0, 0)
           p == q \o Writable(ev)
<1>1. /\ w \in QEvents /\ w.event = "writable" /\ h \in QEvents /\ h.fd = c
      /\ h.event = "disconnected" /\ Writable(ev) \in {<<>>, <<w>>} /\ Hangup(c) = <<h>>
  BY EndingsAre
<1>2. sock[c] = "open" /\ sock \in [Conns -> {"none", "backlog", "open", "closed"}] BY DEF OpenInv
<1>a. PICK n \in Int, x \in BOOLEAN : InOrder(q, s, t, f, d, n, x) /\ Expected(sock[d], k, n, x) BY DEF Gets
<1> HIDE DEF w, h
<1>3. p \in {q, Append(q, w)} BY <1>1, ConcatOne
<1>4. Append(q, w) \in Seq(QEvents) /\ InOrder(Append(q, w), s, t, f, d, n, x)
  BY <1>1, <1>a, OneMore, OthersKeep
<1>5. p \in Seq(QEvents) /\ InOrder(p, s, t, f, d, n, x) BY <1>3, <1>4, <1>a
<1>6. /\ queue' = p \o (IF "HUP" \in ev.mask THEN Hangup(c) ELSE <<>>)
      /\ sock' = [sock EXCEPT ![c] = IF "HUP" \in ev.mask THEN "closed" ELSE @]
  BY DEF AfterRead
<1> HIDE DEF p, c
<1>7. CASE "HUP" \notin ev.mask
  <2>1. queue' = p BY <1>1, <1>5, <1>6, <1>7, ConcatOne
  <2>2. sock'[d] = sock[d] BY SMT, <1>2, <1>6, <1>7
  <2> QED BY <1>5, <1>a, <2>1, <2>2 DEF Gets
<1>8. CASE "HUP" \in ev.mask
  <2>1. queue' = Append(p, h) BY <1>1, <1>5, <1>6, <1>8, ConcatOne
  <2>2. CASE d = c
    <3>1. ~x /\ n = k + 1 BY <1>2, <1>a, <2>2 DEF Expected
    <3>2. InOrder(Append(p, h), s, t, f, d, n, TRUE) BY <1>1, <1>5, <2>2, <3>1, EndAdds
    <3>3. sock'[d] = "closed" BY SMT, <1>2, <1>6, <1>8, <2>2
    <3>4. Expected(sock'[d], k, n, TRUE) BY <3>1, <3>3 DEF Expected
    <3> QED BY <2>1, <3>2, <3>4 DEF Gets
  <2>3. CASE d # c
    <3>1. sock'[d] = sock[d] BY SMT, <1>2, <1>6, <2>3
    <3>2. InOrder(Append(p, h), s, t, f, d, n, x) BY <1>1, <1>5, <2>3, OthersKeep
    <3> QED BY <1>a, <2>1, <3>1, <3>2 DEF Gets
  <2> QED BY <2>2, <2>3
<1> QED BY <1>7, <1>8

\* A new connection: its greeting is the first the guest gets of it.
LEMMA ManageWhole ==
    ASSUME OInv, NEW c \in Conns, manage(c) \/ ManageFails(c), NEW d \in Conns PROVE Whole(d)'
<1>1. UNCHANGED <<seen, told, taken, fails>> /\ sock[c] = "backlog" BY DEF manage, ManageFails, guestVars
<1>2. sock \in [Conns -> {"none", "backlog", "open", "closed"}] /\ taken[c] = 0
  BY <1>1 DEF OInv, OpenInv
<1>3. CASE /\ UNCHANGED queue
           /\ sock' = sock \/ sock' = [sock EXCEPT ![c] = "closed"]
  <2>1. CASE d = c
    <3>1. sock'[d] = sock[d] \/ sock'[d] = "closed" BY SMT, <1>2, <1>3, <2>1
    <3> QED BY <1>1, <1>3, <2>1, <3>1, UnreadWhole
  <2>2. CASE d # c
    <3>1. sock'[d] = sock[d] BY SMT, <1>2, <1>3, <2>2
    <3> QED BY <1>1, <1>3, <3>1, UnreadWhole
  <2> QED BY <2>1, <2>2
<1>4. CASE /\ m_current_read_buffer < NumBuffers
           /\ queue' = Append(queue, Event(c, "connected", m_current_read_buffer + 1, 0, 0))
           /\ sock' = [sock EXCEPT ![c] = "open"] \/ sock' = [sock EXCEPT ![c] = "closed"]
  <2> DEFINE e == Event(c, "connected", m_current_read_buffer + 1, 0, 0)
  <2>1. m_current_read_buffer \in 0..NumBuffers /\ queue \in Seq(QEvents) BY DEF OInv, IInv, Intact
  <2>2. e \in QEvents /\ e.data = m_current_read_buffer + 1 /\ e.fd = c /\ e.lo = 0 /\ e.hi = 0
    BY SMT, <1>4, <2>1, DataEvents
  <2>3. e.event = "connected" BY DEF Event
  <2>4. queue' = Append(queue, e) BY <1>4
  <2> HIDE DEF e
  <2>5. e.data # 0 /\ e.lo <= e.hi /\ e.hi + 1 = 1 BY SMT, <2>1, <2>2, BufferCount
  <2>6. PICK n \in Int, x \in BOOLEAN :
           InOrder(queue, seen[d], told[d], fails, d, n, x) /\ Expected(sock[d], taken[d], n, x)
    BY DEF OInv, Whole, Gets
  <2>7. CASE d = c
    <3>1. n = 0 /\ ~x BY <1>1, <2>6, <2>7 DEF Expected
    <3>2. InOrder(queue', seen[d], told[d], fails, d, 1, x)
      BY <2>1, <2>2, <2>3, <2>4, <2>5, <2>6, <2>7, <3>1, DataAdds
    <3>3. sock'[d] \in {"open", "closed"} BY SMT, <1>2, <1>4, <2>7
    <3>4. taken[d] + 1 = 1 BY SMT, <1>2, <2>7
    <3>5. Expected(sock'[d], taken[d], 1, x) BY <3>1, <3>3, <3>4 DEF Expected
    <3>6. 1 \in Int BY SMT
    <3> QED BY <1>1, <3>2, <3>5, <3>6 DEF Whole, Gets
  <2>8. CASE d # c
    <3>1. InOrder(queue', seen[d], told[d], fails, d, n, x) BY <2>1, <2>2, <2>4, <2>6, <2>8, OthersKeep
    <3>2. sock'[d] = sock[d] BY SMT, <1>2, <1>4, <2>8
    <3> QED BY <1>1, <2>6, <3>1, <3>2 DEF Whole, Gets
  <2> QED BY <2>7, <2>8
<1> QED BY <1>3, <1>4 DEF manage, ManageFails, taskVars

\* A read of fd_readable takes the next units from the socket.
LEMMA ReadWhole == ASSUME OInv, readv, NEW d \in Conns PROVE Whole(d)'
<1> DEFINE c == ev.fd
           n == Min({Unread(c), BufSize})
           e == Event(c, "data", m_current_read_buffer + 1, taken[c] + 1, taken[c] + n)
<1>1. pc = "read" /\ c \in Conns BY DEF OInv, IInv, EventTypes, readv
<1>2. taken \in [Conns -> Int] /\ n \in Int /\ n > 0
  <2>1. Unread(c) \in Int /\ BufSize \in Int BY SMT, <1>1, EpollAssumption DEF OInv, IInv, ConnTypes, Unread
  <2> QED BY <2>1, MinOfTwo DEF OInv, IInv, ConnTypes, readv
<1>3. /\ m_current_read_buffer \in 0..NumBuffers /\ m_current_read_buffer < NumBuffers
      /\ queue \in Seq(QEvents) /\ sock[c] = "open"
  BY <1>1 DEF OInv, IInv, Intact, OpenInv, readv
<1>4. /\ taken' = [taken EXCEPT ![c] = @ + n] /\ UNCHANGED <<seen, told, fails>>
      /\ \/ queue' = Append(queue, e) /\ UNCHANGED sock
         \/ AfterRead(Append(queue, e))
  BY DEF readv, guestVars
<1>5. e.event = "data" BY DEF Event
<1> HIDE DEF n
<1>6. e \in QEvents /\ e.data = m_current_read_buffer + 1 /\ e.fd = c
      /\ e.lo = taken[c] + 1 /\ e.hi = taken[c] + n
  <2>1. taken[c] + 1 \in Int /\ taken[c] + n \in Int BY SMT, <1>1, <1>2
  <2> QED BY SMT, <1>1, <1>3, <2>1, DataEvents
<1> HIDE DEF e
<1>7. e.data # 0 /\ e.lo <= e.hi /\ taken'[c] \in Int /\ e.hi + 1 = taken'[c] + 1
  BY SMT, <1>1, <1>2, <1>3, <1>4, <1>6, BufferCount
<1>8. PICK k \in Int, x \in BOOLEAN :
         InOrder(queue, seen[d], told[d], fails, d, k, x) /\ Expected(sock[d], taken[d], k, x)
  BY DEF OInv, Whole, Gets
<1> HIDE DEF c
<1>9. Gets(Append(queue, e), seen[d], told[d], fails, d, sock[d], taken'[d])
  <2>1. CASE d = c
    <3>1. k = taken[c] + 1 /\ ~x BY <1>3, <1>8, <2>1 DEF Expected
    <3>2. InOrder(Append(queue, e), seen[d], told[d], fails, d, e.hi + 1, x)
      BY <1>3, <1>5, <1>6, <1>7, <1>8, <2>1, <3>1, DataAdds
    <3>3. taken'[d] + 1 \in Int BY SMT, <1>7, <2>1
    <3>4. Expected(sock[d], taken'[d], taken'[d] + 1, x) BY <1>3, <2>1, <3>1 DEF Expected
    <3> QED BY <1>7, <2>1, <3>2, <3>3, <3>4 DEF Gets
  <2>2. CASE d # c
    <3>1. taken'[d] = taken[d] BY SMT, <1>2, <1>4, <2>2
    <3>2. InOrder(Append(queue, e), seen[d], told[d], fails, d, k, x) BY <1>3, <1>6, <1>8, <2>2, OthersKeep
    <3> QED BY <1>8, <3>1, <3>2 DEF Gets
  <2> QED BY <2>1, <2>2
<1>10. CASE queue' = Append(queue, e) /\ UNCHANGED sock BY <1>4, <1>9, <1>10 DEF Whole, Gets
<1>11. CASE AfterRead(Append(queue, e))
  <2>1. Append(queue, e) \in Seq(QEvents) BY <1>3, <1>6, OneMore
  <2>2. OpenInv /\ ev.fd \in Conns BY <1>1 DEF OInv, c
  <2>3. Gets(queue', seen[d], told[d], fails, d, sock'[d], taken'[d])
    BY <1>1, <1>9, <1>11, <2>1, <2>2, AfterReadWhole
  <2> QED BY <1>4, <2>3 DEF Whole
<1> QED BY <1>4, <1>10, <1>11

\* The other steps that queue events.
LEMMA EventWhole ==
    ASSUME OInv, fd_writable \/ hangup \/ ReadThrows, NEW d \in Conns PROVE Whole(d)'
<1>1. PICK n \in Int, x \in BOOLEAN :
         InOrder(queue, seen[d], told[d], fails, d, n, x) /\ Expected(sock[d], taken[d], n, x)
  BY DEF OInv, Whole, Gets
<1>2. queue \in Seq(QEvents) BY DEF OInv, IInv, Intact
<1>3. ASSUME fd_writable \/ hangup PROVE UNCHANGED <<seen, told, taken, fails>>
  BY <1>3 DEF fd_writable, hangup, connVars, guestVars
<1>4. CASE fd_writable
  <2>1. PICK e \in batch : e.fd \in Conns /\ queue' = queue \o Writable(e) BY <1>4 DEF fd_writable
  <2> DEFINE w == Event(e.fd, "writable", 0, 0, 0)
  <2>2. w \in QEvents /\ w.event = "writable" /\ Writable(e) \in {<<>>, <<w>>} BY <2>1, EndingsAre
  <2> HIDE DEF w
  <2>3. queue' \in {queue, Append(queue, w)} BY <1>2, <2>1, <2>2, ConcatOne
  <2>4. InOrder(queue', seen[d], told[d], fails, d, n, x) BY <1>1, <1>2, <2>2, <2>3, OthersKeep
  <2>5. sock' = sock BY <1>4 DEF fd_writable, connVars
  <2> QED BY <1>1, <1>3, <1>4, <2>4, <2>5 DEF Whole, Gets
<1>5. CASE hangup
  <2> DEFINE c == ev.fd
             h == Event(c, "disconnected", 0, 0, 0)
  <2>1. pc = "read" /\ c \in Conns BY <1>5 DEF OInv, IInv, EventTypes, hangup
  <2>2. sock[c] = "open" /\ sock \in [Conns -> {"none", "backlog", "open", "closed"}]
    BY <2>1 DEF OInv, OpenInv
  <2>3. h \in QEvents /\ h.fd = c /\ h.event = "disconnected" /\ Hangup(c) = <<h>> BY <2>1, EndingsAre
  <2> HIDE DEF h
  <2>4. queue' = Append(queue, h) /\ sock' = [sock EXCEPT ![c] = "closed"]
    BY <1>2, <1>5, <2>3, ConcatOne DEF hangup
  <2> HIDE DEF c
  <2>5. CASE d = c
    <3>1. ~x /\ n = taken[d] + 1 BY <1>1, <2>2, <2>5 DEF Expected
    <3>2. InOrder(queue', seen[d], told[d], fails, d, n, TRUE) BY <1>1, <1>2, <2>3, <2>4, <2>5, <3>1, EndAdds
    <3>3. sock'[d] = "closed" BY SMT, <2>2, <2>4, <2>5
    <3>4. Expected(sock'[d], taken[d], n, TRUE) BY <3>1, <3>3 DEF Expected
    <3> QED BY <1>3, <1>5, <3>2, <3>4 DEF Whole, Gets
  <2>6. CASE d # c
    <3>1. sock'[d] = sock[d] BY SMT, <2>2, <2>4, <2>6
    <3>2. InOrder(queue', seen[d], told[d], fails, d, n, x) BY <1>1, <1>2, <2>3, <2>4, <2>6, OthersKeep
    <3> QED BY <1>1, <1>3, <1>5, <3>1, <3>2 DEF Whole, Gets
  <2> QED BY <2>5, <2>6
<1>6. CASE ReadThrows
  <2>1. pc = "read" /\ AfterRead(queue) /\ taken' = taken BY <1>6 DEF ReadThrows
  <2>2. OpenInv /\ ev.fd \in Conns BY <2>1 DEF OInv, IInv, EventTypes
  <2>3. Gets(queue, seen'[d], told'[d], fails', d, sock[d], taken[d]) BY <1>6, FailWhole DEF ReadThrows
  <2>4. Gets(queue', seen'[d], told'[d], fails', d, sock'[d], taken[d])
    BY <2>3, <1>2, <2>1, <2>2, AfterReadWhole
  <2> QED BY <2>1, <2>4 DEF Whole
<1> QED BY <1>4, <1>5, <1>6

\* The guest gets of every connection the greeting, each unit that was read, in
\* order, and the end last, through fd_readable's flushes in the middle of a
\* batch and hang-ups while data is queued.  Each comes once while no resumption
\* has failed; after one that has, a queue is handed over again, as a whole and
\* without a gap, whether or not the guest had got it.
THEOREM GuestGetsAllOnce == Spec => []ExactlyOnce
<1>1. Init => OInv
  <2> SUFFICES ASSUME Init PROVE OInv OBVIOUS
  <2>1. IInv BY StartsIntact
  <2>2. OpenInv BY DEF Init, OpenInv
  <2>3. ASSUME NEW c \in Conns PROVE Whole(c)
    <3>1. seen[c] = 0 /\ told[c] = FALSE /\ sock[c] = "none" /\ queue = <<>> BY DEF Init
    <3>2. Expected("none", taken[c], 0, FALSE) BY DEF Expected
    <3>3. 0 \in Int BY SMT
    <3> QED BY <3>1, <3>2, <3>3, NothingQueued DEF Whole, Gets
  <2>4. fails \in Nat BY SMT DEF Init
  <2> QED BY <2>1, <2>2, <2>3, <2>4 DEF OInv
<1>2. OInv /\ [Next]_vars => OInv'
  <2> SUFFICES ASSUME OInv, [Next]_vars PROVE OInv' OBVIOUS
  <2>1. CASE UNCHANGED vars
    BY <2>1, StepsKeep DEF OInv, OpenInv, Whole, vars, connVars, taskVars, guestVars
  <2>2. CASE Next
    <3>1. IInv' BY StepsKeep DEF OInv
    <3>2. OpenInv' BY <2>2, OpenOutside, OpenRead, OpenLoop DEF OInv, Next, Loop
    <3>3. ASSUME NEW d \in Conns PROVE Whole(d)'
      <4>1. CASE Peers \/ Stopper
        <5>1. UNCHANGED <<queue, seen, told, taken, fails>>
          BY <4>1 DEF Peers, Stopper, Connect, Send, Leave, Drain, connVars, taskVars, guestVars
        <5>2. sock'[d] = sock[d] \/ (sock[d] = "none" /\ sock'[d] = "backlog")
          <6>1. CASE UNCHANGED sock BY <6>1
          <6>2. ASSUME NEW c \in Conns, Connect(c)
                PROVE  sock'[d] = sock[d] \/ (sock[d] = "none" /\ sock'[d] = "backlog")
            <7>1. CASE d = c BY SMT, <6>2, <7>1 DEF Connect, OInv, OpenInv
            <7>2. CASE d # c BY SMT, <6>2, <7>2 DEF Connect, OInv, OpenInv
            <7> QED BY <7>1, <7>2
          <6> QED BY <4>1, <6>1, <6>2 DEF Peers, Stopper, Send, Leave, Drain, connVars
        <5> QED BY <5>1, <5>2, UnreadWhole
      <4>2. CASE LoopHead \/ Wait \/ AcceptBegins \/ AcceptEnds \/ EventFd \/ Readable
                 \/ WouldBlock
        <5>1. UNCHANGED <<queue, seen, told, taken, sock, fails>>
          BY <4>2 DEF LoopHead, Wait, Report, AcceptBegins, AcceptEnds, EventFd, Readable, WouldBlock,
                      connVars, taskVars, guestVars
        <5> QED BY <5>1, UnreadWhole
      <4>3. CASE FlushToRead \/ FlushBatch BY <4>3, FlushWhole DEF FlushToRead, FlushBatch
      <4>4. CASE readv BY <4>4, ReadWhole
      <4>5. CASE fd_writable \/ hangup \/ ReadThrows BY <4>5, EventWhole
      <4>6. CASE \E c \in Conns : manage(c) \/ ManageFails(c) BY <4>6, ManageWhole
      <4>7. CASE FlushThrows
        <5>1. UNCHANGED <<queue, taken, sock>> BY <4>7 DEF FlushThrows, taskVars
        <5>2. Gets(queue, seen'[d], told'[d], fails', d, sock[d], taken[d])
          BY <4>7, FailWhole DEF FlushThrows
        <5> QED BY <5>1, <5>2 DEF Whole
      <4> QED BY <2>2, <4>1, <4>2, <4>3, <4>4, <4>5, <4>6, <4>7 DEF Next, Loop
    <3>4. fails' \in Nat
      <4>1. fails' = fails \/ ResumeFails
        BY <2>2 DEF Next, Loop, Peers, Stopper, LoopHead, Wait, Report, AcceptBegins, AcceptEnds,
                    EventFd, Readable, WouldBlock, fd_writable, hangup, readv, manage, ManageFails,
                    FlushToRead, FlushBatch, flush, resume, FlushThrows, ReadThrows
      <4> QED BY SMT, <4>1 DEF OInv, ResumeFails
    <3> QED BY <3>1, <3>2, <3>3, <3>4 DEF OInv
  <2> QED BY <2>1, <2>2
<1>3. OInv => ExactlyOnce
  <2> SUFFICES ASSUME OInv, NEW c \in Conns PROVE InTurn(c) /\ EndIsLast(c) /\ UpToDate(c)
    BY DEF ExactlyOnce
  <2> DEFINE all   == Len(queue)
             next  == NextUnit(c, all)
             ended == told[c] \/ Ends(c, all) # {}
  <2>1. PICK n \in Int, e \in BOOLEAN :
           InOrder(queue, seen[c], told[c], fails, c, n, e) /\ Expected(sock[c], taken[c], n, e)
    BY DEF OInv, Whole, Gets
  <2>2. Intact(queue, buf, m_current_read_buffer) BY DEF OInv, IInv
  <2>3. all \in Nat /\ all \in 0..all BY SMT, <2>2 DEF Intact
  <2>4. HasLast(queue, c) /\ \A k \in DataOf(queue, c, all) : queue[k].data # 0 BY <2>1 DEF InOrder, Fits
  <2>5. ASSUME NEW k \in 0..all
        PROVE  /\ Data(c, k) = DataOf(queue, c, k) /\ Ends(c, k) = EndsOf(queue, c, k)
               /\ NextUnit(c, k) = NextOf(queue, seen[c], c, k)
    BY <2>2, <2>4, SameNext
  <2> HIDE DEF all
  <2>6. ASSUME NEW k \in Data(c, all)
        PROVE  /\ Handed(k).fd = c /\ Handed(k).lo <= Handed(k).hi
               /\ Handed(k).lo <= NextUnit(c, k - 1)
               /\ (fails = 0 \/ Data(c, k - 1) # {}) => Handed(k).lo = NextUnit(c, k - 1)
               /\ fails = 0 => ~told[c]
    <3>1. k \in DataOf(queue, c, all) BY <2>3, <2>5
    <3>2. k \in 1..all /\ queue[k].fd = c BY <3>1 DEF DataOf
    <3>3. k - 1 \in 0..all BY SMT, <2>3, <3>2
    <3>4. Handed(k) = [fd |-> queue[k].fd, lo |-> queue[k].lo, hi |-> queue[k].hi]
      BY <2>2, <2>4, <3>1, <3>2 DEF Intact, Handed, all
    <3>5. Handed(k).fd = c /\ Handed(k).lo = queue[k].lo /\ Handed(k).hi = queue[k].hi BY SMT, <3>2, <3>4
    <3>6. Fits(queue, seen[c], told[c], fails, c, k) BY <2>1, <3>1 DEF InOrder, all
    <3> QED BY <2>5, <3>3, <3>5, <3>6 DEF Fits
  <2>7. \A k \in Ends(c, all) :
           /\ \A j \in Data(c, all) \cup Ends(c, all) : j <= k
           /\ fails = 0 => ~told[c]
    BY <2>1, <2>3, <2>5 DEF InOrder, all
  <2>8. NextUnit(c, all) = n /\ (ended <=> e) BY <2>1, <2>3, <2>5 DEF InOrder, all
  <2>9. sock[c] \in {"none", "backlog", "open", "closed"} BY DEF OInv, OpenInv
  <2>10. /\ sock[c] \in {"none", "backlog"} => NextUnit(c, all) = 0 /\ ~ended
         /\ sock[c] = "open" => NextUnit(c, all) = taken[c] + 1 /\ ~ended
         /\ sock[c] = "closed" =>
               IF ended THEN NextUnit(c, all) = taken[c] + 1 ELSE NextUnit(c, all) \in {0, 1}
    BY <2>1, <2>8 DEF Expected
  <2> HIDE DEF ended, next
  <2>11. UpToDate(c)
    <3>1. /\ sock[c] \in {"none", "backlog"} => next = 0 /\ ~ended
          /\ sock[c] = "open" => next = taken[c] + 1 /\ ~ended
          /\ sock[c] = "closed" => IF ended THEN next = taken[c] + 1 ELSE next \in {0, 1}
      BY <2>10 DEF next
    <3> QED BY <2>9, <3>1 DEF UpToDate, all, next, ended
  <2>12. InTurn(c) BY <2>6 DEF InTurn, all
  <2>13. EndIsLast(c) BY <2>7 DEF EndIsLast, all
  <2> QED BY <2>11, <2>12, <2>13
<1> QED BY <1>1, <1>2, <1>3, PTL DEF Spec
=============================================================================
